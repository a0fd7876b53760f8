------------------------ MODULE SourceRegistryProofs ------------------------
(***************************************************************************)
(* That what reviewers separated stays separated, that every judgement     *)
(* rests on evidence known by then, that what a pass reports stands, that  *)
(* what is told of a settled instant never changes, and that every table   *)
(* numbers its rows in time order, proved for any feeds, registries,       *)
(* classifiers, verdicts and number of passes at a time.                   *)
(*                                                                         *)
(* The argument: a pass that has read a latest row knows the numbers up to *)
(* that row's to be taken, for rows are never removed; so the number after *)
(* it is free only if nothing has been written behind what the pass read,  *)
(* and what it checked still holds of all there is.                        *)
(***************************************************************************)
EXTENDS SourceRegistry, FiniteSetTheorems, WellFoundedInduction, TLAPS

(* What passes have still to record.                                       *)

Fetched == [item : Nat, content : Contents, channel : Channels, at : Times]

RelationTask ==
    [left : Nat, right : Nat, bases : Nat \X Nat, kind : RelationKinds, method : RelationMethods]

AnnotationTask ==
    [item : Nat, basis : Nat, version : STRING, currencies : SUBSET STRING]

IdentityTask ==
    [entry : {"identity"}, source : STRING, kind : Kinds, name : STRING, evidence : Seq(STRING)]

AttributionTask ==
    [entry : {"attribution"}, item : Nat, role : Roles, basis : Nat,
     status : {"CONFIRMED", "UNRESOLVED"}, source : STRING, evidence : Seq(STRING)]

Registered == IdentityTask \cup AttributionTask

(* The tables.                                                             *)

\* Rows numbered from zero without gap, in time order.
Numbered(rows) ==
    /\ \A r, x \in rows : /\ r.revision = x.revision => r = x
                          /\ r.revision < x.revision => r.availability <= x.availability
    /\ \A r \in rows : \A n \in 0..r.revision : \E x \in rows : x.revision = n

Typed ==
    /\ vintages \subseteq NewsItemVintage /\ IsFiniteSet(vintages)
    /\ relations \subseteq NewsCanonicalRelation /\ IsFiniteSet(relations)
    /\ annotations \subseteq NewsSemanticAnnotation /\ IsFiniteSet(annotations)
    /\ sources \subseteq IntelligenceSource
    /\ identities \subseteq SourceIdentity /\ IsFiniteSet(identities)
    /\ attributions \subseteq SourceAttribution /\ IsFiniteSet(attributions)
    /\ \A a \in attempts : a.number \in 1..plan.attempts

Histories ==
    /\ \A i \in Nat : Numbered(VintagesOf(i))
    /\ \A r \in [left : Nat, right : Nat] : Numbered(RelationsOf(r))
    /\ \A i \in Nat : Numbered(AnnotationsOf(i))
    /\ \A s \in STRING : Numbered(IdentitiesOf(s))
    /\ \A e \in [item : Nat, role : Roles] : Numbered(AttributionsOf(e))

\* An automatic pass relates only what nothing was known of.
AutomaticComesFirst == \A r \in relations : r.method = "AUTOMATIC" => r.revision = 0

Registers ==
    /\ {v.source : v \in identities} = {s.source : s \in sources}
    /\ \A s \in sources : SourceOf(s.source) = {s}

\* On the same grounds the same is said.
Deterministic ==
    /\ \A v, x \in identities :
          v.source = x.source /\ SameOrigin(v, x, x.policy) => v.name = x.name
    /\ \A a, x \in attributions :
          a.item = x.item /\ a.role = x.role /\ SameGrounds(a, x, x.policy)
             => a.status = x.status /\ a.source = x.source

(* What passes know.                                                       *)

\* All numbers below n are taken, by rows of the past of t.
Below(rows, n, t) ==
    /\ \A k \in 0..(n - 1) : \E x \in rows : x.revision = k
    /\ \A x \in rows : x.revision < n => x.availability <= t

\* So they are, below the number the pass will write under.
Reserved(rows, w) == Below(rows, Revision(w), job[w].at)

Named(s, t) == \E v \in IdentitiesOf(s) : v.availability <= t

FetchOK(w) ==
    /\ job[w].more \in 1..Len(ChannelOrder)
    /\ todo[w] \in Seq(Fetched)
    /\ pc[w] = "fetch" /\ held[w] # NoRow => held[w] \in Request /\ held[w].number < plan.attempts
    /\ pc[w] = "report" => held[w] \in Request /\ held[w].number \in 1..plan.attempts

RecordOK(w) ==
    /\ todo[w] \in Seq(Fetched) \ {<<>>}
    /\ \A m, n \in 1..Len(todo[w]) : ~Differ(todo[w][m], todo[w][n])
    /\ echo.pass = job[w].pass =>
          \A o \in echo.observations : \A n \in 1..Len(todo[w]) : ~Differ(o, todo[w][n])

RelationOK(w) ==
    /\ todo[w] \in Seq(RelationTask) \ {<<>>}
    /\ \A n \in 1..Len(todo[w]) :
          /\ Known(todo[w][n].left, todo[w][n].bases[1], job[w].at)
          /\ Known(todo[w][n].right, todo[w][n].bases[2], job[w].at)
          /\ todo[w][n].method = "AUTOMATIC" => todo[w][n].kind = "SAME_STORY"
    /\ pc[w] = "relation" \/ Next1(w).method = "AUTOMATIC" => held[w] = NoRow
    /\ held[w] = NoRow \/ held[w] \in NewsCanonicalRelation
    /\ pc[w] = "relate" => Reserved(RelationsOf(Next1(w)), w)

AnnotationOK(w) ==
    /\ todo[w] \in Seq(AnnotationTask) \ {<<>>}
    /\ \A n \in 1..Len(todo[w]) : Known(todo[w][n].item, todo[w][n].basis, job[w].at)
    /\ held[w] = NoRow \/ held[w] \in NewsSemanticAnnotation
    /\ pc[w] # "annotation" => Reserved(AnnotationsOf(Next1(w).item), w)

\* Whoever items are attributed to is named before that.
EntriesOK(w) ==
    /\ todo[w] \in Seq(Registered) \ {<<>>}
    /\ \A n \in 1..Len(todo[w]) : todo[w][n].entry = "attribution" =>
          /\ Known(todo[w][n].item, todo[w][n].basis, job[w].at)
          /\ \/ Named(todo[w][n].source, job[w].at)
             \/ \E m \in 1..(n - 1) : /\ todo[w][m].entry = "identity"
                                      /\ todo[w][m].source = todo[w][n].source

IdentityOK(w) ==
    LET e == Next1(w)
    IN /\ EntriesOK(w) /\ e.entry = "identity"
       /\ pc[w] \in {"source", "register", "identity"} => held[w] = NoRow
       /\ pc[w] \in {"identity", "identities", "identify"} =>
             SourceOf(e.source) # {} /\ \A s \in SourceOf(e.source) : s.kind = e.kind
       /\ pc[w] \in {"identities", "identify"} =>
             /\ held[w] \in IdentitiesOf(e.source) /\ held[w].availability <= job[w].at
             /\ Reserved(IdentitiesOf(e.source), w)
       /\ pc[w] = "identify" => \A v \in IdentitiesOf(e.source) :
             v.revision < Revision(w) /\ SameOrigin(v, e, job[w].more.policy) => v.name = e.name

AttributionOK(w) ==
    LET e == Next1(w)
    IN /\ EntriesOK(w) /\ e.entry = "attribution"
       /\ held[w] = NoRow \/ held[w] \in AttributionsOf(e)
       /\ pc[w] # "attribution" => Reserved(AttributionsOf(e), w)
       /\ pc[w] = "attribute" => \A a \in AttributionsOf(e) :
             a.revision < Revision(w) /\ SameGrounds(a, e, job[w].more.policy)
                => a.status = e.status /\ a.source = e.source

Fetching    == {"fetch", "report"}
Relating    == {"relation", "relate"}
Annotating  == {"annotation", "history", "annotate"}
Identifying == {"source", "register", "identity", "identities", "identify"}
Attributing == {"attribution", "attributions", "attribute"}

CallOK(w) ==
    /\ pc[w] = "idle" => held[w] = NoRow
    /\ pc[w] \notin {"idle", "record"} => echo.pass # job[w].pass
    /\ pc[w] \in Fetching => FetchOK(w)
    /\ pc[w] = "record" => RecordOK(w)
    /\ pc[w] \in Relating => RelationOK(w)
    /\ pc[w] = "items" => job[w].more \in Releases
    /\ pc[w] \in Annotating => AnnotationOK(w)
    /\ pc[w] \in {"candidates"} \cup Identifying \cup Attributing => job[w].more \in Registries
    /\ pc[w] \in Identifying => IdentityOK(w)
    /\ pc[w] \in Attributing => AttributionOK(w)

PassesAreDistinct ==
    \A v, w \in Workers :
       pc[v] # "idle" /\ pc[w] # "idle" /\ job[v].pass = job[w].pass => v = w

Control ==
    /\ plan \in Plans /\ now \in Times /\ made \in 0..plan.runs
    /\ pc \in [Workers -> Steps] /\ outcome \in [Workers -> Ends]
    /\ DOMAIN job = Workers /\ DOMAIN todo = Workers /\ DOMAIN held = Workers
    /\ \A w \in Workers : pc[w] # "idle" =>
          /\ DOMAIN job[w] = {"pass", "at", "more"}
          /\ job[w].pass \in 1..made /\ job[w].at \in Times
    /\ echo.pass \in 0..made
    /\ PassesAreDistinct

IInv ==
    /\ Control /\ Typed /\ Histories /\ AutomaticComesFirst /\ Registers /\ Deterministic
    /\ EvidenceBeforeJudgement /\ ReplaysAreHarmless
    /\ \A w \in Workers : CallOK(w)

-----------------------------------------------------------------------------
(* Sequences and folds.                                                    *)

\* Whatever holds of zero, and of the successor of what it holds of, holds of all.
LEMMA Upwards ==
  ASSUME NEW T, T \subseteq Nat, 0 \in T, \A n \in T : n + 1 \in T
  PROVE  \A n \in Nat : n \in T
<1> DEFINE U == Nat \ T
<1>1. SUFFICES ASSUME U # {} PROVE FALSE
  OBVIOUS
<1>2. PICK x \in U : \A y \in U : ~(<<y, x>> \in OpToRel(<, Nat))
  BY <1>1, WFMin, NatLessThanWellFounded, Zenon
<1>3. x - 1 \in U
  <2>1. x \in Nat /\ x # 0
    OBVIOUS
  <2>2. x - 1 \in Nat /\ (x - 1 \in T => x \in T)
    BY <2>1
  <2> QED
    BY <2>2
<1>4. <<x - 1, x>> \in OpToRel(<, Nat)
  BY <1>3, SMT DEF OpToRel
<1> QED
  BY <1>2, <1>3, <1>4

\* Sequences of G flattened are in G, if G is closed under concatenation.
LEMMA FlattenSeqStays ==
  ASSUME NEW S, NEW G, G \subseteq Seq(S), \A a, b \in G : a \o b \in G, NEW s \in Seq(G),
         s # <<>>
  PROVE  FlattenSeq(s) \in G
<1> DEFINE N == Len(s)
           Val(f, i) == IF i = 1 THEN s[i] ELSE f[i-1] \o s[i]
           Flat(f, n) == f = [i \in 1..n |-> Val(f, i)]
<1>0. N \in Nat /\ N # 0
  OBVIOUS
<1>1. ASSUME NEW f, Flat(f, N)
      PROVE  f[N] \in G
  <2>0. \A i \in 1..N : f[i] = Val(f, i)
    <3>1. \A i \in 1..N : [j \in 1..N |-> Val(f, j)][i] = Val(f, i)
      OBVIOUS
    <3> QED
      BY <1>1, <3>1
  <2> DEFINE T == {n \in Nat : n \in 1..N => f[n] \in G}
  <2>1. 0 \in T
    OBVIOUS
  <2>2. ASSUME NEW n \in T PROVE n + 1 \in T
    <3>1. SUFFICES ASSUME n + 1 \in 1..N PROVE f[n + 1] \in G
      OBVIOUS
    <3>2. s[n + 1] \in G
      BY <3>1
    <3>3. f[n + 1] = IF n + 1 = 1 THEN s[n + 1] ELSE f[(n + 1) - 1] \o s[n + 1]
      BY <3>1, <2>0
    <3>4. n # 0 => f[n] \in G
      BY <3>1
    <3>5. (n + 1) - 1 = n /\ (n + 1 # 1 <=> n # 0)
      OBVIOUS
    <3> QED
      BY <3>2, <3>3, <3>4, <3>5
  <2>4. T \subseteq Nat
    OBVIOUS
  <2>5. \A n \in T : n \in 1..N => f[n] \in G
    OBVIOUS
  <2> HIDE DEF T
  <2>3. \A n \in Nat : n \in T
    BY <2>1, <2>2, <2>4, Upwards
  <2>6. N \in Nat /\ N \in 1..N
    BY <1>0
  <2> QED
    BY <2>3, <2>5, <2>6
<1>2. \E f : Flat(f, N)
  <2> DEFINE T == {n \in Nat : \E f : Flat(f, n)}
  <2>1. 0 \in T
    <3>1. Flat([i \in 1..0 |-> 0], 0)
      OBVIOUS
    <3> HIDE DEF Flat
    <3> QED
      BY <3>1
  <2>2. ASSUME NEW n \in T PROVE n + 1 \in T
    <3>1. PICK f : Flat(f, n)
      OBVIOUS
    <3> DEFINE g == [i \in 1..(n + 1) |->
                       IF i = n + 1 THEN (IF i = 1 THEN s[i] ELSE f[n] \o s[i]) ELSE f[i]]
    <3>2. ASSUME NEW i \in 1..(n + 1)
          PROVE  g[i] = Val(g, i)
      <4>1. i # 1 => g[i - 1] = f[i - 1]
        OBVIOUS
      <4>2. CASE i = n + 1
        <5>1. i - 1 = n
          BY <4>2
        <5>2. g[i] = IF i = 1 THEN s[i] ELSE f[n] \o s[i]
          BY <4>2
        <5> QED
          BY <4>1, <5>1, <5>2
      <4>3. CASE i # n + 1
        <5>1. i \in 1..n /\ g[i] = f[i]
          BY <4>3
        <5>2. [j \in 1..n |-> Val(f, j)][i] = Val(f, i)
          BY <5>1
        <5>3. f[i] = Val(f, i)
          BY <3>1, <5>2
        <5> QED
          BY <4>1, <5>1, <5>3
      <4> QED
        BY <4>2, <4>3
    <3>3. Flat(g, n + 1)
      <4> DEFINE h == [i \in 1..(n + 1) |-> Val(g, i)]
      <4>1. \A i \in 1..(n + 1) : g[i] = h[i]
        BY <3>2
      <4>2. g = h
        BY <4>1
      <4> QED
        BY <4>2
    <3> HIDE DEF g, Flat
    <3>4. n + 1 \in Nat
      OBVIOUS
    <3> QED
      BY <3>3, <3>4
  <2>4. T \subseteq Nat
    OBVIOUS
  <2> HIDE DEF Flat
  <2>5. \A n \in T : \E f : Flat(f, n)
    OBVIOUS
  <2> HIDE DEF T
  <2>3. \A n \in Nat : n \in T
    BY <2>1, <2>2, <2>4, Upwards
  <2> QED
    BY <1>0, <2>3, <2>5
<1> DEFINE flatten == CHOOSE f : Flat(f, N)
<1>4. FlattenSeq(s) = flatten[N]
  BY <1>0 DEF FlattenSeq
<1> HIDE DEF Flat
<1>3. Flat(flatten, N)
  BY <1>2
<1> HIDE DEF flatten, Flat
<1> QED
  BY <1>1, <1>3, <1>4

\* A finite set of numbers has a greatest one.
LEMMA Greatest ==
  ASSUME NEW S, IsFiniteSet(S), S \subseteq Int, S # {}
  PROVE  \E x \in S : \A y \in S : x >= y
<1> DEFINE Fits(U, n) == IsFiniteSet(U) /\ U \subseteq Int /\ U # {} /\ Cardinality(U) = n
           Top(U) == \E x \in U : \A y \in U : x >= y
           T == {n \in Nat : \A U : Fits(U, n) => Top(U)}
<1>1. 0 \in T
  BY FS_EmptySet
<1>2. ASSUME NEW n \in T PROVE n + 1 \in T
  <2>1. SUFFICES ASSUME NEW U, Fits(U, n + 1) PROVE Top(U)
    OBVIOUS
  <2>2. PICK x \in U : x \in Int
    BY <2>1
  <2> DEFINE V == U \ {x}
  <2>3. IsFiniteSet(V) /\ V \subseteq Int /\ Cardinality(V) = n
    <3>1. IsFiniteSet(V) /\ Cardinality(V) = Cardinality(U) - 1
      BY <2>1, <2>2, FS_RemoveElement
    <3>2. n \in Nat /\ V \subseteq Int /\ Cardinality(U) = n + 1
      BY <2>1
    <3> HIDE DEF T, V
    <3> QED
      BY <3>1, <3>2
  <2>4. CASE V = {}
    BY <2>1, <2>2, <2>4
  <2>5. CASE V # {}
    <3>1. PICK m \in V : \A y \in V : m >= y
      BY <2>3, <2>5
    <3>2. \A y \in U : y \in Int /\ (y \in V \/ y = x)
      BY <2>1
    <3> DEFINE top == IF m >= x THEN m ELSE x
    <3>3. top \in U /\ \A y \in U : top >= y
      BY <3>1, <3>2, <2>2
    <3> QED
      BY <3>3
  <2> QED
    BY <2>4, <2>5
<1>3. T \subseteq Nat
  OBVIOUS
<1>4. \A n \in T : Fits(S, n) => Top(S)
  OBVIOUS
<1> HIDE DEF T
<1>5. Cardinality(S) \in T
  BY <1>1, <1>2, <1>3, Upwards, FS_CardinalityType
<1> QED
  BY <1>4, <1>5

\* What a recursive definition over the subsets of a set says of f.
IsFold(f, D, base, add, pick) ==
    \A t \in SUBSET D : f[t] = IF t = {} THEN base ELSE add[<<f[t \ {pick[t]}], pick[t]>>]

\* A fold over a finite set has a result: what a recursive definition over the
\* subsets of the set says of a function, some function satisfies.
LEMMA FoldExists ==
  ASSUME NEW D, IsFiniteSet(D), NEW A, NEW base \in A,
         NEW add \in [A \X D -> A], NEW pick, \A t \in SUBSET D : t # {} => pick[t] \in t
  PROVE  \E f \in [SUBSET D -> A] : IsFold(f, D, base, add, pick)
<1> DEFINE Next2(f, t) == add[<<f[t \ {pick[t]}], pick[t]>>]
           Upto(f, n) == \A t \in SUBSET D : Cardinality(t) <= n =>
                            f[t] = IF t = {} THEN base ELSE Next2(f, t)
           T == {n \in Nat : \E f \in [SUBSET D -> A] : Upto(f, n)}
<1>1. \A t \in SUBSET D : IsFiniteSet(t) /\ Cardinality(t) \in Nat /\ Cardinality(t) <= Cardinality(D)
  BY FS_Subset, FS_CardinalityType
<1>2. \A t \in SUBSET D : t # {} => /\ pick[t] \in t /\ t \ {pick[t]} \in SUBSET D
                                    /\ Cardinality(t \ {pick[t]}) = Cardinality(t) - 1
  BY <1>1, FS_RemoveElement
<1>3. \A t \in SUBSET D : Cardinality(t) = 0 => t = {}
  BY <1>1, FS_EmptySet
<1>4. 0 \in T
  <2> DEFINE f == [t \in SUBSET D |-> base]
  <2>1. f \in [SUBSET D -> A]
    OBVIOUS
  <2>2. Upto(f, 0)
    <3>1. ASSUME NEW t \in SUBSET D, Cardinality(t) <= 0 PROVE t = {} /\ f[t] = base
      BY <1>1, <1>3, <3>1
    <3> HIDE DEF f
    <3> QED
      BY <3>1
  <2> HIDE DEF f, Upto
  <2> QED
    BY <2>1, <2>2
<1>5. ASSUME NEW n \in T PROVE n + 1 \in T
  <2>1. PICK f \in [SUBSET D -> A] : Upto(f, n)
    OBVIOUS
  <2> DEFINE g == [t \in SUBSET D |-> IF Cardinality(t) <= n THEN f[t] ELSE Next2(f, t)]
  <2>2. n \in Nat
    OBVIOUS
  <2> HIDE DEF T
  <2>3. \A t \in SUBSET D : t # {} => Next2(f, t) \in A
    BY <1>2
  <2>4. \A t \in SUBSET D : Cardinality(t) > n => t # {}
    BY <2>2, FS_EmptySet
  <2>5. \A t \in SUBSET D : Cardinality(t) <= n \/ Cardinality(t) > n
    BY <1>1, <2>2
  <2>6. g \in [SUBSET D -> A]
    <3>1. \A t \in SUBSET D : f[t] \in A
      OBVIOUS
    <3> HIDE DEF Next2
    <3> QED
      BY <2>3, <2>4, <2>5, <3>1
  <2>7. ASSUME NEW t \in SUBSET D, Cardinality(t) <= n + 1
        PROVE  g[t] = IF t = {} THEN base ELSE Next2(g, t)
    <3>1. CASE t = {}
      <4>1. Cardinality(t) <= n
        BY <2>2, <3>1, FS_EmptySet
      <4>2. f[t] = base
        BY <2>1, <3>1, <4>1
      <4> QED
        BY <3>1, <4>1, <4>2
    <3>2. CASE t # {}
      <4> DEFINE u == t \ {pick[t]}
      <4>1. u \in SUBSET D /\ Cardinality(u) <= n
        BY <1>1, <1>2, <2>2, <2>7, <3>2
      <4>2. g[u] = f[u]
        BY <4>1
      <4>3. Next2(g, t) = Next2(f, t)
        BY <4>2
      <4>4. Cardinality(t) <= n => f[t] = Next2(f, t)
        BY <2>1, <3>2
      <4> QED
        BY <3>2, <4>3, <4>4
    <3> QED
      BY <3>1, <3>2
  <2> HIDE DEF g, Next2
  <2>8. Upto(g, n + 1)
    BY <2>7
  <2> HIDE DEF Upto
  <2> QED
    BY <2>2, <2>6, <2>8 DEF T
<1>6. T \subseteq Nat
  OBVIOUS
<1>7. \A n \in T : \E f \in [SUBSET D -> A] : Upto(f, n)
  OBVIOUS
<1> HIDE DEF T
<1>8. Cardinality(D) \in T
  BY <1>1, <1>4, <1>5, <1>6, Upwards, FS_CardinalityType
<1>9. PICK f \in [SUBSET D -> A] : Upto(f, Cardinality(D))
  BY <1>7, <1>8
<1> QED
  BY <1>1, <1>9 DEF IsFold

\* And it stays where every step of it stays.
LEMMA FoldStays ==
  ASSUME NEW D, IsFiniteSet(D), NEW A, NEW f, f[{}] \in A,
         \A t \in SUBSET D : t # {} => \E x \in t : f[t \ {x}] \in A => f[t] \in A
  PROVE  f[D] \in A
<1> DEFINE T == {n \in Nat : \A t \in SUBSET D : Cardinality(t) = n => f[t] \in A}
<1>1. \A t \in SUBSET D : IsFiniteSet(t) /\ Cardinality(t) \in Nat
  BY FS_Subset, FS_CardinalityType
<1>2. 0 \in T
  BY <1>1, FS_EmptySet
<1>3. ASSUME NEW n \in T PROVE n + 1 \in T
  <2>1. SUFFICES ASSUME NEW t \in SUBSET D, Cardinality(t) = n + 1 PROVE f[t] \in A
    OBVIOUS
  <2>2. t # {}
    <3>1. n \in Nat /\ n + 1 # 0
      OBVIOUS
    <3> QED
      BY <2>1, <3>1, FS_EmptySet
  <2>3. PICK x \in t : f[t \ {x}] \in A => f[t] \in A
    BY <2>2
  <2>4. Cardinality(t \ {x}) = Cardinality(t) - 1
    BY <1>1, FS_RemoveElement
  <2>5. t \ {x} \in SUBSET D /\ Cardinality(t \ {x}) = n
    BY <2>1, <2>4
  <2>6. f[t \ {x}] \in A
    BY <2>5
  <2> QED
    BY <2>3, <2>6
<1>4. T \subseteq Nat
  OBVIOUS
<1>5. \A n \in T : \A t \in SUBSET D : Cardinality(t) = n => f[t] \in A
  OBVIOUS
<1> HIDE DEF T
<1>6. Cardinality(D) \in T
  BY <1>1, <1>2, <1>3, <1>4, Upwards
<1> QED
  BY <1>5, <1>6

\* What a run records are observations it made.
LEMMA DistinctStays ==
  ASSUME NEW S, NEW s \in Seq(S)
  PROVE  Distinct(s) \in Seq(S)
<1> DEFINE D == DOMAIN s
           A == Seq(S)
           Add(kept, o) == IF \E n \in 1..Len(kept) : kept[n].item = o.item /\ kept[n].channel = o.channel
                           THEN kept ELSE Append(kept, o)
           Of(f) == f = [t \in SUBSET D |-> IF t = {} THEN <<>>
                                            ELSE Add(f[t \ {Max(t)}], s[Max(t)])]
           fold == CHOOSE f : Of(f)
<1>1. Distinct(s) = fold[D]
  BY DEF Distinct, FoldLeft, MapThenFoldSet
<1>2. D = 1..Len(s) /\ Len(s) \in Nat /\ \A i \in D : s[i] \in S
  OBVIOUS
<1>3. IsFiniteSet(D)
  BY <1>2, FS_Interval
<1>4. \A t \in SUBSET D : t # {} => Max(t) \in t
  <2>1. SUFFICES ASSUME NEW t \in SUBSET D, t # {} PROVE Max(t) \in t
    OBVIOUS
  <2>2. IsFiniteSet(t) /\ t \subseteq Int
    BY <1>2, <1>3, FS_Subset
  <2>3. \E x \in t : \A y \in t : x >= y
    BY <2>1, <2>2, Greatest
  <2> QED
    BY <2>3 DEF Max
<1>5. \A kept \in A, o \in S : Add(kept, o) \in A
  OBVIOUS
<1>6. \E f : Of(f)
  <2> DEFINE add == [x \in A \X D |-> Add(x[1], s[x[2]])]
             pick == [t \in SUBSET D |-> Max(t)]
  <2>1. add \in [A \X D -> A]
    <3> HIDE DEF Add, A, D
    <3>1. \A x \in A \X D : Add(x[1], s[x[2]]) \in A
      BY <1>2, <1>5
    <3> QED
      BY <3>1
  <2>2. \A k \in A, i \in D : add[<<k, i>>] = Add(k, s[i])
    <3> HIDE DEF Add, A, D
    <3> QED
      OBVIOUS
  <2>3. \A t \in SUBSET D : pick[t] = Max(t)
    OBVIOUS
  <2> DEFINE none == <<>>
  <2>4. none \in A
    OBVIOUS
  <2> HIDE DEF add, pick, A, D, Add, none
  <2>5. \A t \in SUBSET D : t # {} => pick[t] \in t
    BY <1>4, <2>3
  <2>6. PICK f \in [SUBSET D -> A] : IsFold(f, D, none, add, pick)
    BY <1>3, <2>1, <2>4, <2>5, FoldExists
  <2>7. ASSUME NEW t \in SUBSET D
        PROVE  f[t] = IF t = {} THEN <<>> ELSE Add(f[t \ {Max(t)}], s[Max(t)])
    <3>1. CASE t = {}
      BY <2>6, <3>1 DEF none, IsFold
    <3>2. CASE t # {}
      <4>1. f[t \ {Max(t)}] \in A /\ Max(t) \in D
        BY <1>4, <3>2
      <4>2. f[t] = add[<<f[t \ {Max(t)}], Max(t)>>]
        BY <2>3, <2>6, <3>2 DEF IsFold
      <4> QED
        BY <2>2, <3>2, <4>1, <4>2
    <3> QED
      BY <3>1, <3>2
  <2>8. Of(f)
    <3> DEFINE h == [t \in SUBSET D |-> IF t = {} THEN <<>> ELSE Add(f[t \ {Max(t)}], s[Max(t)])]
    <3>1. \A t \in SUBSET D : f[t] = h[t]
      BY <2>7
    <3>2. f = h
      BY <3>1
    <3> QED
      BY <3>2
  <2> HIDE DEF Of
  <2> QED
    BY <2>8
<1>7. Of(fold)
  <2> HIDE DEF Of
  <2> QED
    BY <1>6
<1>8. \A t \in SUBSET D : fold[t] = IF t = {} THEN <<>> ELSE Add(fold[t \ {Max(t)}], s[Max(t)])
  <2> HIDE DEF fold, Add, D
  <2> DEFINE h == [t \in SUBSET D |-> IF t = {} THEN <<>> ELSE Add(fold[t \ {Max(t)}], s[Max(t)])]
  <2>1. \A t \in SUBSET D :
           h[t] = IF t = {} THEN <<>> ELSE Add(fold[t \ {Max(t)}], s[Max(t)])
    OBVIOUS
  <2>2. fold = h
    BY <1>7
  <2> QED
    BY <2>1, <2>2
<1>9. fold[{}] \in A
  <2> HIDE DEF fold, Add
  <2>1. {} \in SUBSET D
    OBVIOUS
  <2>2. fold[{}] = <<>>
    BY <1>8, <2>1
  <2> QED
    BY <2>2
<1>10. \A t \in SUBSET D : t # {} => \E x \in t : fold[t \ {x}] \in A => fold[t] \in A
  <2>1. SUFFICES ASSUME NEW t \in SUBSET D, t # {}, fold[t \ {Max(t)}] \in A PROVE fold[t] \in A
    BY <1>4
  <2>2. s[Max(t)] \in S
    BY <1>2, <1>4, <2>1
  <2> HIDE DEF Add, fold
  <2> QED
    BY <1>5, <1>8, <2>1, <2>2
<1> HIDE DEF fold, A, D
<1>11. fold[D] \in A
  BY <1>3, <1>9, <1>10, FoldStays
<1> QED
  BY <1>1, <1>11 DEF A

-----------------------------------------------------------------------------
(* Histories.                                                              *)

TypedRows(rows) == \A r \in rows : r.revision \in Nat /\ r.availability \in Times

\* Rows have been added, each under a number of its own.
Grown(old, new) ==
    /\ old \subseteq new
    /\ \A x \in new \ old : \A r \in old : r.revision # x.revision

\* Instants are numbers.
LEMMA TimesAreNumbers == Times \subseteq Nat
  BY PipelineAssumption DEF Times

\* The newest row has the last number.
LEMMA NewestIsLast ==
  ASSUME NEW rows, TypedRows(rows), Numbered(rows), NEW l \in Newest(rows)
  PROVE  l \in rows /\ \A x \in rows : x.revision <= l.revision /\ x.availability <= l.availability
<1>1. l \in rows /\ \A x \in rows : \/ x.availability < l.availability
                                    \/ x.availability = l.availability /\ x.revision <= l.revision
  BY DEF Newest
<1>2. ASSUME NEW x \in rows PROVE x.revision <= l.revision /\ x.availability <= l.availability
  <2>1. x.revision \in Nat /\ l.revision \in Nat /\ x.availability \in Nat /\ l.availability \in Nat
    BY <1>1, TimesAreNumbers DEF TypedRows
  <2>2. l.revision < x.revision => l.availability <= x.availability
    BY <1>1 DEF Numbered
  <2> QED
    BY <1>1, <2>1, <2>2
<1> QED
  BY <1>1, <1>2

\* Whoever has read the newest row knows the numbers up to it to be taken.
LEMMA LatestReserves ==
  ASSUME NEW rows, TypedRows(rows), Numbered(rows), NEW l \in Newest(rows),
         NEW t \in Times, t >= l.availability
  PROVE  l.revision + 1 \in Nat /\ Below(rows, l.revision + 1, t)
<1>1. l \in rows /\ \A x \in rows : x.revision <= l.revision /\ x.availability <= l.availability
  BY NewestIsLast
<1>2. l.revision \in Nat /\ \A x \in rows : x.availability \in Nat /\ l.availability \in Nat
  BY <1>1, TimesAreNumbers DEF TypedRows
<1>3. t \in Nat
  BY TimesAreNumbers
<1>4. \A k \in 0..l.revision : \E x \in rows : x.revision = k
  BY <1>1 DEF Numbered
<1>5. (l.revision + 1) - 1 = l.revision
  BY <1>2
<1>6. \A x \in rows : x.availability <= t
  BY <1>1, <1>2, <1>3
<1> QED
  BY <1>2, <1>4, <1>5, <1>6 DEF Below

\* No number is below zero, so nothing need be known to write under it.
LEMMA NothingIsBelowZero ==
  ASSUME NEW rows, TypedRows(rows), NEW t
  PROVE  Below(rows, 0, t)
  BY DEF Below, TypedRows

\* A row under the next number, if that is free, keeps the history in order, and
\* nothing has been written behind it.
LEMMA AppendKeeps ==
  ASSUME NEW rows, TypedRows(rows), Numbered(rows), NEW row,
         row.revision \in Nat, row.availability \in Times,
         Below(rows, row.revision, row.availability),
         \A x \in rows : x.revision # row.revision
  PROVE  /\ Numbered(rows \cup {row})
         /\ \A x \in rows : x.revision < row.revision
<1> DEFINE n == row.revision
<1>1. ASSUME NEW x \in rows PROVE x.revision < n /\ x.availability <= row.availability
  <2>1. x.revision \in Nat
    BY DEF TypedRows
  <2>2. n \notin 0..x.revision
    BY DEF Numbered
  <2>3. x.revision < n
    BY <2>1, <2>2
  <2> QED
    BY <2>3 DEF Below
<1>2. \A r, x \in rows \cup {row} : /\ r.revision = x.revision => r = x
                                    /\ r.revision < x.revision => r.availability <= x.availability
  <2>1. SUFFICES ASSUME NEW r \in rows \cup {row}, NEW x \in rows \cup {row}
                 PROVE  /\ r.revision = x.revision => r = x
                        /\ r.revision < x.revision => r.availability <= x.availability
    OBVIOUS
  <2>2. r.revision \in Nat /\ x.revision \in Nat
    BY DEF TypedRows
  <2>3. CASE r \in rows /\ x \in rows
    BY <2>3 DEF Numbered
  <2>4. CASE r = row /\ x \in rows
    BY <1>1, <2>2, <2>4
  <2>5. CASE x = row /\ r \in rows
    BY <1>1, <2>2, <2>5
  <2>6. CASE r = row /\ x = row
    BY <2>2, <2>6
  <2> QED
    BY <2>3, <2>4, <2>5, <2>6
<1>3. ASSUME NEW r \in rows \cup {row}, NEW k \in 0..r.revision
      PROVE  \E x \in rows \cup {row} : x.revision = k
  <2>1. CASE r \in rows
    BY <2>1 DEF Numbered
  <2>2. CASE r = row
    <3>1. k = n \/ k \in 0..(n - 1)
      BY <2>2
    <3>2. k \in 0..(n - 1) => \E x \in rows : x.revision = k
      BY DEF Below
    <3> QED
      BY <3>1, <3>2
  <2> QED
    BY <2>1, <2>2
<1> QED
  BY <1>1, <1>2, <1>3 DEF Numbered

\* What was taken stays taken, and what is added comes after it.
LEMMA GrownReserves ==
  ASSUME NEW old, NEW new, Grown(old, new), TypedRows(new), NEW n \in Nat, NEW t, Below(old, n, t)
  PROVE  Below(new, n, t) /\ \A x \in new : x.revision < n => x \in old
<1>1. ASSUME NEW x \in new, x.revision < n PROVE x \in old
  <2>1. x.revision \in 0..(n - 1)
    BY <1>1 DEF TypedRows
  <2>2. \E r \in old : r.revision = x.revision
    BY <2>1 DEF Below
  <2> QED
    BY <2>2 DEF Grown
<1>2. \A k \in 0..(n - 1) : \E x \in new : x.revision = k
  BY DEF Below, Grown
<1> QED
  BY <1>1, <1>2 DEF Below

\* A finite history has no number beyond its length.
LEMMA NumberedIsHistory ==
  ASSUME NEW rows, TypedRows(rows), Numbered(rows), IsFiniteSet(rows)
  PROVE  History(rows)
<1>1. ASSUME NEW r \in rows PROVE r.revision \in 0..(Cardinality(rows) - 1)
  <2> DEFINE N == 0..r.revision
             f == [n \in N |-> CHOOSE x \in rows : x.revision = n]
  <2>1. r.revision \in Nat
    BY DEF TypedRows
  <2>2. \A n \in N : \E x \in rows : x.revision = n
    BY DEF Numbered
  <2>3. \A n \in N : f[n] \in rows /\ f[n].revision = n
    BY <2>2
  <2>4. f \in Injection(N, rows)
    <3>1. f \in [N -> rows]
      BY <2>3
    <3> HIDE DEF f
    <3>2. \A m, n \in N : f[m] = f[n] => m = n
      BY <2>3
    <3> QED
      BY <3>1, <3>2 DEF Injection, IsInjective
  <2>5. IsFiniteSet(N) /\ Cardinality(N) = r.revision + 1
    <3> HIDE DEF f
    <3>1. /\ 0 \in Int /\ r.revision \in Int
          /\ ~(0 > r.revision) /\ r.revision - 0 + 1 = r.revision + 1
      BY <2>1
    <3>2. /\ IsFiniteSet(0..r.revision)
          /\ Cardinality(0..r.revision) = IF 0 > r.revision THEN 0 ELSE r.revision - 0 + 1
      BY <3>1, FS_Interval
    <3> QED
      BY <3>1, <3>2
  <2> HIDE DEF N, f
  <2>6. Cardinality(N) <= Cardinality(rows)
    BY <2>4, FS_Injection
  <2>7. Cardinality(rows) \in Nat
    BY FS_CardinalityType
  <2> QED
    BY <2>1, <2>5, <2>6, <2>7
<1> QED
  BY <1>1 DEF History, Numbered

\* A history that is not empty has a latest row.
LEMMA LatestExists ==
  ASSUME NEW rows, TypedRows(rows), Numbered(rows), IsFiniteSet(rows), rows # {}
  PROVE  \E v \in rows : \A x \in rows : x.revision <= v.revision
<1> DEFINE U == {n \in Nat : \E x \in rows : x.revision = n}
<1>1. \A r \in rows : r.revision \in 0..(Cardinality(rows) - 1)
  BY NumberedIsHistory DEF History
<1>2. U \subseteq 0..(Cardinality(rows) - 1)
  BY <1>1
<1>3. IsFiniteSet(0..(Cardinality(rows) - 1))
  BY FS_Interval, FS_CardinalityType
<1>4. IsFiniteSet(U)
  BY <1>2, <1>3, FS_Subset
<1>5. \A r \in rows : r.revision \in U
  BY DEF TypedRows
<1>6. U # {} /\ U \subseteq Int
  BY <1>5
<1>7. PICK n \in U : \A m \in U : n >= m
  BY <1>4, <1>6, Greatest
<1>8. PICK v \in rows : v.revision = n
  BY <1>7
<1>9. \A x \in rows : x.revision <= v.revision
  BY <1>5, <1>7, <1>8 DEF TypedRows
<1> QED
  BY <1>8, <1>9

-----------------------------------------------------------------------------
(* What the constants give.                                                *)

\* A feed's response lists observations of items.
LEMMA ResponsesType ==
  ASSUME NEW c \in Channels, NEW r \in Feeds[c]
  PROVE  /\ r.foreign \in BOOLEAN /\ Len(r.observations) \in Nat
         /\ \A m \in 1..Len(r.observations) : /\ r.observations[m].item \in Nat
                                              /\ r.observations[m].content \in Contents
<1> DEFINE Seen == [item : Nat, content : NewsContent]
<1>1. r \in [foreign : BOOLEAN, observations : Seq(Seen)]
  BY PipelineAssumption
<1>2. r.foreign \in BOOLEAN /\ r.observations \in Seq(Seen)
  BY <1>1
<1>3. ASSUME NEW m \in 1..Len(r.observations)
      PROVE  r.observations[m].item \in Nat /\ r.observations[m].content \in Contents
  <2>1. r.observations[m] \in Seen
    <3> HIDE DEF Seen
    <3> QED
      BY <1>2
  <2>2. r.observations[m] \in ToSet(r.observations)
    BY <1>2 DEF ToSet
  <2>3. r \in UNION {Feeds[d] : d \in Channels}
    OBVIOUS
  <2>4. r.observations[m] \in UNION {ToSet(x.observations) : x \in UNION {Feeds[d] : d \in Channels}}
    BY <2>2, <2>3
  <2> QED
    BY <2>1, <2>4 DEF Contents
<1> QED
  BY <1>2, <1>3

\* Contents are contents of items, whichever feed they come from.
LEMMA ContentsType == Contents \subseteq NewsContent
<1>1. SUFFICES ASSUME NEW c \in Channels, NEW r \in Feeds[c], NEW o \in ToSet(r.observations)
               PROVE  o.content \in NewsContent
  BY DEF Contents
<1> DEFINE Seen == [item : Nat, content : NewsContent]
<1>2. r \in [foreign : BOOLEAN, observations : Seq(Seen)]
  BY PipelineAssumption
<1>3. r.observations \in Seq(Seen)
  BY <1>2
<1>4. o \in Seen
  <2> HIDE DEF Seen
  <2> QED
    BY <1>3 DEF ToSet
<1> QED
  BY <1>4

\* A run goes through configured channels only.
LEMMA ChannelsAreConfigured == \A n \in 1..Len(ChannelOrder) : ChannelOrder[n] \in Channels
  BY PipelineAssumption

\* A plan's stored vintages are finitely many rows of the table.
LEMMA PlansType ==
  ASSUME NEW p \in Plans
  PROVE  /\ p.runs \in Nat /\ p.attempts \in Nat /\ IsFiniteSet(p.stored)
         /\ p.stored \subseteq NewsItemVintage
         /\ \A v \in p.stored : v.revision = 0 /\ v.availability = 0
         /\ \A v, x \in p.stored : v.item = x.item => v = x
<1> DEFINE Row == [item : Nat, revision : {0}, availability : {0}, content : Contents,
                   channels : SUBSET Channels]
<1>1. p \in [passes : SUBSET Passes, runs : Nat, attempts : Nat, stored : SUBSET Row]
  BY PipelineAssumption
<1>2. p.runs \in Nat /\ p.attempts \in Nat /\ p.stored \subseteq Row
  BY <1>1
<1>3. 0 \in Times
  BY PipelineAssumption DEF Times
<1>4. \A v \in Row : v \in NewsItemVintage /\ v.revision = 0 /\ v.availability = 0
  BY <1>3 DEF NewsItemVintage
<1> HIDE DEF Row
<1> QED
  BY <1>2, <1>4, PipelineAssumption

(* What follows of the types.                                              *)

\* The vintages of an item are rows with numbers and instants, finitely
\* many.
LEMMA VintageRows ==
  ASSUME Typed, NEW i
  PROVE  TypedRows(VintagesOf(i)) /\ IsFiniteSet(VintagesOf(i))
<1>1. VintagesOf(i) \subseteq vintages
  BY DEF VintagesOf
<1> QED
  BY <1>1, FS_Subset DEF Typed, TypedRows, NewsItemVintage

\* So are the relations of a pair,
LEMMA RelationRows ==
  ASSUME Typed, NEW r
  PROVE  TypedRows(RelationsOf(r)) /\ IsFiniteSet(RelationsOf(r))
<1>1. RelationsOf(r) \subseteq relations
  BY DEF RelationsOf
<1> QED
  BY <1>1, FS_Subset DEF Typed, TypedRows, NewsCanonicalRelation

\* the annotations of an item,
LEMMA AnnotationRows ==
  ASSUME Typed, NEW i
  PROVE  TypedRows(AnnotationsOf(i)) /\ IsFiniteSet(AnnotationsOf(i))
<1>1. AnnotationsOf(i) \subseteq annotations
  BY DEF AnnotationsOf
<1> QED
  BY <1>1, FS_Subset DEF Typed, TypedRows, NewsSemanticAnnotation

\* the identities of a source,
LEMMA IdentityRows ==
  ASSUME Typed, NEW s
  PROVE  TypedRows(IdentitiesOf(s)) /\ IsFiniteSet(IdentitiesOf(s))
<1>1. IdentitiesOf(s) \subseteq identities
  BY DEF IdentitiesOf
<1> QED
  BY <1>1, FS_Subset DEF Typed, TypedRows, SourceIdentity

\* and the attributions of an item in a role.
LEMMA AttributionRows ==
  ASSUME Typed, NEW e
  PROVE  TypedRows(AttributionsOf(e)) /\ IsFiniteSet(AttributionsOf(e))
<1>1. AttributionsOf(e) \subseteq attributions
  BY DEF AttributionsOf
<1> QED
  BY <1>1, FS_Subset DEF Typed, TypedRows, SourceAttribution

\* The history of a task is one.
LEMMA RelationHistory ==
  ASSUME Histories, NEW r, r.left \in Nat, r.right \in Nat
  PROVE  Numbered(RelationsOf(r))
<1> DEFINE k == [left |-> r.left, right |-> r.right]
<1>1. k \in [left : Nat, right : Nat] /\ RelationsOf(k) = RelationsOf(r)
  BY DEF RelationsOf
<1> HIDE DEF k
<1> QED
  BY <1>1 DEF Histories

\* So is the history of an entry.
LEMMA AttributionHistory ==
  ASSUME Histories, NEW e, e.item \in Nat, e.role \in Roles
  PROVE  Numbered(AttributionsOf(e))
<1> DEFINE k == [item |-> e.item, role |-> e.role]
<1>1. k \in [item : Nat, role : Roles] /\ AttributionsOf(k) = AttributionsOf(e)
  BY DEF AttributionsOf
<1> HIDE DEF k
<1> QED
  BY <1>1 DEF Histories

\* What a plan stores at first is in order, and no pass is under way.
LEMMA InitEstablishes == Init => IInv
<1> SUFFICES ASSUME Init PROVE IInv
  OBVIOUS
<1> USE DEF Init, PipelineInit
<1>1. Control
  <2>1. 0 \in 0..plan.runs /\ 0 \in Times
    BY PlansType, PipelineAssumption DEF Times
  <2>2. pc \in [Workers -> Steps] /\ outcome \in [Workers -> Ends]
    BY DEF Steps, Ends
  <2> QED
    BY <2>1, <2>2 DEF Control, PassesAreDistinct
<1>2. Typed
  BY PlansType, FS_EmptySet DEF Typed
<1>3. Histories
  <2>1. ASSUME NEW i \in Nat PROVE Numbered(VintagesOf(i))
    <3>1. \A v, x \in VintagesOf(i) : v = x /\ v.revision = 0
      BY PlansType DEF VintagesOf
    <3>2. \A v \in VintagesOf(i) : \A n \in 0..v.revision : n = v.revision
      BY <3>1
    <3>3. \A v, x \in VintagesOf(i) : ~(v.revision < x.revision)
      BY <3>1
    <3> QED
      BY <3>1, <3>2, <3>3 DEF Numbered
  <2> QED
    BY <2>1 DEF Histories, Numbered, RelationsOf, AnnotationsOf, IdentitiesOf, AttributionsOf
<1>4. AutomaticComesFirst /\ Registers /\ Deterministic
  BY DEF AutomaticComesFirst, Registers, Deterministic
<1>5. EvidenceBeforeJudgement /\ ReplaysAreHarmless
  BY DEF EvidenceBeforeJudgement, JudgementsHaveEvidence, ReplaysAreHarmless, ObservationsStand
<1>6. ASSUME NEW w \in Workers PROVE CallOK(w)
  BY DEF CallOK, Fetching, Relating, Annotating, Identifying, Attributing
<1> QED
  BY <1>1, <1>2, <1>3, <1>4, <1>5, <1>6 DEF IInv

-----------------------------------------------------------------------------
(* Control.                                                                *)

Step(w) == \/ PipelineStep(w) /\ UNCHANGED registryVars
           \/ RegistryStep(w)

\* Only pass w is concerned.
Own(w) ==
    /\ pc' \in [Workers -> Steps] /\ outcome' \in [Workers -> Ends]
    /\ DOMAIN job' = Workers /\ DOMAIN todo' = Workers /\ DOMAIN held' = Workers
    /\ \A v \in Workers \ {w} : /\ pc'[v] = pc[v] /\ job'[v] = job[v]
                                /\ todo'[v] = todo[v] /\ held'[v] = held[v]

\* It goes on, or ends.
Shifts(w) ==
    /\ Own(w)
    /\ pc'[w] # "idle" => /\ DOMAIN job'[w] = DOMAIN job[w]
                          /\ job'[w].pass = job[w].pass /\ job'[w].at = job[w].at

Moves(w) ==
    /\ plan' = plan /\ now' = now /\ Own(w)
    /\ \/ pc[w] # "idle" /\ made' = made /\ Shifts(w)
       \/ /\ pc[w] = "idle" /\ made < plan.runs /\ made' = made + 1
          /\ DOMAIN job'[w] = {"pass", "at", "more"}
          /\ job'[w].pass = made + 1 /\ job'[w].at = now
    /\ echo' = echo \/ (pc[w] # "idle" /\ echo'.pass = job[w].pass)

\* Going to another step keeps the pass and its number (the await of one
\* read or write).
LEMMA GotoShifts ==
  ASSUME Control, NEW w \in Workers, NEW s \in Steps, Goto(w, s), UNCHANGED <<job, outcome>>,
         DOMAIN todo' = Workers, DOMAIN held' = Workers,
         \A v \in Workers \ {w} : todo'[v] = todo[v] /\ held'[v] = held[v]
  PROVE  Shifts(w) /\ pc'[w] = s
  BY DEF Control, Goto, Shifts, Own

\* So does ending, which leaves nothing held,
LEMMA EndShifts ==
  ASSUME Control, NEW w \in Workers, NEW r \in Ends, End(w, r)
  PROVE  Shifts(w) /\ pc'[w] = "idle" /\ held'[w] = NoRow
  BY DEF Control, End, Goto, Shifts, Own, Steps

\* going on with what is left,
LEMMA ContinueShifts ==
  ASSUME Control, NEW w \in Workers, NEW s \in Steps, NEW left, Continue(w, s, left)
  PROVE  /\ Shifts(w) /\ held'[w] = NoRow
         /\ \/ pc'[w] = "idle"
            \/ pc'[w] = s /\ left # <<>> /\ todo'[w] = left /\ job'[w] = job[w]
<1>1. CASE left = <<>>
  <2>1. End(w, "DONE") /\ "DONE" \in Ends
    BY <1>1 DEF Continue, Ends
  <2> QED
    BY <2>1, EndShifts
<1>2. CASE left # <<>>
  BY <1>2 DEF Continue, Control, Goto, Shifts, Own
<1> QED
  BY <1>1, <1>2

\* and going on with what is left of a bootstrap.
LEMMA ResumeShifts ==
  ASSUME Control, NEW w \in Workers, NEW left, Resume(w, left)
  PROVE  /\ Shifts(w) /\ held'[w] = NoRow
         /\ \/ pc'[w] = "idle"
            \/ /\ pc'[w] = (IF Head(left).entry = "attribution" THEN "attribution" ELSE "source")
               /\ left # <<>> /\ todo'[w] = left /\ job'[w] = job[w]
<1> DEFINE s == IF left # <<>> /\ Head(left).entry = "attribution" THEN "attribution" ELSE "source"
<1>1. s \in Steps /\ Continue(w, s, left)
  BY DEF Resume, Steps
<1> HIDE DEF s
<1>2. /\ Shifts(w) /\ held'[w] = NoRow
      /\ \/ pc'[w] = "idle"
         \/ pc'[w] = s /\ left # <<>> /\ todo'[w] = left /\ job'[w] = job[w]
  BY <1>1, ContinueShifts
<1> QED
  BY <1>2 DEF s

\* A pass starts under a number nobody has (run_at is read once).
LEMMA StartMoves ==
  ASSUME Control, NEW w \in Workers, NEW pass, NEW s \in Steps, NEW more, NEW work,
         Start(w, pass, s, more, work)
  PROVE  /\ Moves(w) /\ tables' = tables /\ held'[w] = held[w] /\ pc[w] = "idle"
         /\ pc'[w] = s /\ job'[w] = [pass |-> made + 1, at |-> now, more |-> more]
         /\ todo'[w] = work /\ now' = now /\ echo' = echo
<1>1. "NONE" \in Ends
  BY DEF Ends
<1> QED
  BY <1>1 DEF Control, Start, tables, Moves, Own

\* Collecting a channel's answer shifts the pass to the next channel or to
\* recording.
LEMMA CollectMoves ==
  ASSUME Control, NEW w \in Workers, pc[w] # "idle", NEW all, Collect(w, all)
  PROVE  Shifts(w)
<1>1. CASE job[w].more < Len(ChannelOrder)
  <2>1. DOMAIN job[w] = {"pass", "at", "more"}
    BY DEF Control
  <2>2. /\ job' = [job EXCEPT ![w] = [job[w] EXCEPT !.more = @ + 1]]
        /\ todo' = [todo EXCEPT ![w] = all] /\ held' = [held EXCEPT ![w] = NoRow]
        /\ pc' = [pc EXCEPT ![w] = "fetch"] /\ outcome' = outcome
    BY <1>1 DEF Collect, Goto
  <2>3. DOMAIN job' = Workers /\ job'[w] = [job[w] EXCEPT !.more = @ + 1]
    BY <2>2 DEF Control
  <2>4. /\ DOMAIN job'[w] = DOMAIN job[w]
        /\ job'[w].pass = job[w].pass /\ job'[w].at = job[w].at
    BY <2>1, <2>3
  <2> QED
    BY <2>2, <2>3, <2>4 DEF Control, Shifts, Own, Steps
<1>2. CASE ~(job[w].more < Len(ChannelOrder))
  BY <1>2, EndShifts, ContinueShifts DEF Collect, Ends, Steps
<1> QED
  BY <1>1, <1>2

\* So does answering,
LEMMA RespondMoves ==
  ASSUME Control, NEW w \in Workers, pc[w] # "idle", NEW r, NEW t, Respond(w, r, t)
  PROVE  Shifts(w)
<1> QED
  BY EndShifts, CollectMoves DEF Respond, Ends

\* and so does finishing an entry of a bootstrap.
LEMMA DoneMoves ==
  ASSUME Control, NEW w \in Workers, Done(w)
  PROVE  Shifts(w)
<1> QED
  BY ResumeShifts DEF Done

\* Every step is one of one pass.
LEMMA StepMoves ==
  ASSUME Control, NEW w \in Workers, Step(w)
  PROVE  Moves(w)
<1> USE DEF Moves, Steps, Ends
<1> DEFINE All == UNCHANGED <<plan, now, made, echo>>
<1>0. ASSUME Shifts(w), pc[w] # "idle", All PROVE Moves(w)
  BY <1>0 DEF Shifts
<1>1. CASE StartIngestion(w) \/ StartCanonicalization(w)
  BY <1>1, StartMoves DEF StartIngestion, StartCanonicalization
<1>2. CASE StartReview(w)
  <2>1. PICK work : Start(w, "review", "relation", "none", work)
    BY <1>2 DEF StartReview
  <2> QED
    BY <2>1, StartMoves
<1>3. CASE StartClassification(w)
  BY <1>3, StartMoves DEF StartClassification
<1>4. CASE StartBootstrap(w)
  BY <1>4, StartMoves DEF StartBootstrap
<1>5. CASE Fetch(w)
  BY <1>0, <1>5, CollectMoves, RespondMoves DEF Fetch, Unavailable
<1>6. CASE Record(w)
  <2>1. Shifts(w)
    BY <1>6, EndShifts, ContinueShifts DEF Record
  <2> QED
    BY <1>6, <2>1 DEF Record, Shifts
<1>7. CASE ReadPairs(w)
  BY <1>0, <1>7, ContinueShifts DEF ReadPairs
<1>8. CASE ReadRelation(w)
  <2>1. Shifts(w)
    BY <1>8, EndShifts, ContinueShifts, GotoShifts DEF ReadRelation, Control
  <2> QED
    BY <1>0, <1>8, <2>1 DEF ReadRelation
<1>9. CASE AddRelation(w)
  <2>1. Shifts(w)
    BY <1>9, EndShifts, ContinueShifts DEF AddRelation
  <2> QED
    BY <1>0, <1>9, <2>1 DEF AddRelation
<1>10. CASE ReadItems(w)
  BY <1>0, <1>10, ContinueShifts DEF ReadItems
<1>11. CASE ReadAnnotation(w)
  <2>1. Shifts(w)
    BY <1>11, EndShifts, GotoShifts DEF ReadAnnotation, Control
  <2> QED
    BY <1>0, <1>11, <2>1 DEF ReadAnnotation
<1>12. CASE ReadHistory(w)
  <2>1. Shifts(w)
    BY <1>12, EndShifts, ContinueShifts, GotoShifts DEF ReadHistory, Control
  <2> QED
    BY <1>0, <1>12, <2>1 DEF ReadHistory
<1>13. CASE AddAnnotation(w)
  <2>1. Shifts(w)
    BY <1>13, EndShifts, ContinueShifts DEF AddAnnotation
  <2> QED
    BY <1>0, <1>13, <2>1 DEF AddAnnotation
<1>14. CASE Attempt(w)
  <2>1. Shifts(w)
    BY <1>14, GotoShifts DEF Attempt, registryVars, Control
  <2> QED
    BY <1>0, <1>14, <2>1 DEF Attempt
<1>15. CASE Report(w)
  <2>1. Shifts(w)
    BY <1>15, RespondMoves, CollectMoves, GotoShifts DEF Report, Unavailable, Control
  <2> QED
    BY <1>0, <1>15, <2>1 DEF Report
<1>16. CASE ReadCandidates(w)
  BY <1>0, <1>16, ResumeShifts DEF ReadCandidates
<1>17. CASE ReadSource(w)
  <2>1. Shifts(w)
    BY <1>17, EndShifts, GotoShifts DEF ReadSource, Control
  <2> QED
    BY <1>0, <1>17, <2>1 DEF ReadSource
<1>18. CASE ReadIdentity(w)
  <2>1. Shifts(w)
    BY <1>18, EndShifts, GotoShifts DEF ReadIdentity, Control
  <2> QED
    BY <1>0, <1>18, <2>1 DEF ReadIdentity
<1>19. CASE ReadIdentities(w)
  <2>1. Shifts(w)
    BY <1>19, EndShifts, GotoShifts, DoneMoves DEF ReadIdentities, Control
  <2> QED
    BY <1>0, <1>19, <2>1 DEF ReadIdentities
<1>20. CASE Register(w)
  <2>1. Shifts(w)
    BY <1>20, EndShifts, DoneMoves DEF Register
  <2> QED
    BY <1>0, <1>20, <2>1 DEF Register
<1>21. CASE AddIdentity(w)
  <2>1. Shifts(w)
    BY <1>21, EndShifts, DoneMoves DEF AddIdentity
  <2> QED
    BY <1>0, <1>21, <2>1 DEF AddIdentity
<1>22. CASE ReadAttribution(w)
  <2>1. Shifts(w)
    BY <1>22, EndShifts, GotoShifts DEF ReadAttribution, Control
  <2> QED
    BY <1>0, <1>22, <2>1 DEF ReadAttribution
<1>23. CASE ReadAttributions(w)
  <2>1. Shifts(w)
    BY <1>23, EndShifts, GotoShifts, DoneMoves DEF ReadAttributions, Control
  <2> QED
    BY <1>0, <1>23, <2>1 DEF ReadAttributions
<1>24. CASE AddAttribution(w)
  <2>1. Shifts(w)
    BY <1>24, EndShifts, DoneMoves DEF AddAttribution
  <2> QED
    BY <1>0, <1>24, <2>1 DEF AddAttribution
<1> QED
  BY <1>1, <1>2, <1>3, <1>4, <1>5, <1>6, <1>7, <1>8, <1>9, <1>10, <1>11, <1>12, <1>13, <1>14,
     <1>15, <1>16, <1>17, <1>18, <1>19, <1>20, <1>21, <1>22, <1>23, <1>24
     DEF Step, PipelineStep, RegistryStep

\* Passes keep their numbers apart.
LEMMA ControlStep == Control /\ [Next]_vars => Control'
<1> SUFFICES ASSUME Control, [Next]_vars PROVE Control'
  OBVIOUS
<1>1. CASE Tick
  <2>1. now' \in Times
    BY <1>1, PipelineAssumption DEF Tick, Control, Times
  <2> QED
    BY <1>1, <2>1 DEF Tick, Control, PassesAreDistinct
<1>2. ASSUME NEW w \in Workers, Step(w) PROVE Control'
  <2>1. Moves(w)
    BY <1>2, StepMoves
  <2>2. plan.runs \in Nat
    BY PlansType DEF Control
  <2>3. made' \in 0..plan.runs /\ made \in Nat /\ made' \in Nat /\ made <= made'
    BY <2>1, <2>2 DEF Moves, Control
  <2>4. ASSUME NEW v \in Workers \ {w}, pc'[v] # "idle", pc'[w] # "idle"
        PROVE  job'[v].pass # job'[w].pass
    <3>1. job'[v].pass = job[v].pass /\ pc[v] # "idle" /\ job[v].pass \in 1..made
      BY <2>1, <2>4 DEF Moves, Own, Control
    <3>2. CASE pc[w] # "idle"
      <4>1. job'[w].pass = job[w].pass
        BY <2>1, <2>4, <3>2 DEF Moves, Shifts
      <4> QED
        BY <3>1, <3>2, <4>1 DEF Control, PassesAreDistinct
    <3>3. CASE pc[w] = "idle"
      <4>1. job'[w].pass = made + 1
        BY <2>1, <3>3 DEF Moves
      <4> QED
        BY <2>3, <3>1, <4>1
    <3> QED
      BY <3>2, <3>3
  <2>5. PassesAreDistinct'
    <3>1. SUFFICES ASSUME NEW u \in Workers, NEW v \in Workers, u # v,
                          pc'[u] # "idle", pc'[v] # "idle"
                   PROVE  job'[u].pass # job'[v].pass
      BY DEF PassesAreDistinct
    <3>2. CASE u # w /\ v # w
      BY <2>1, <3>1, <3>2 DEF Moves, Own, Control, PassesAreDistinct
    <3>3. CASE u = w \/ v = w
      BY <2>4, <3>1, <3>3
    <3> QED
      BY <3>2, <3>3
  <2>6. ASSUME NEW v \in Workers, pc'[v] # "idle"
        PROVE  /\ DOMAIN job'[v] = {"pass", "at", "more"}
               /\ job'[v].pass \in 1..made' /\ job'[v].at \in Times
    <3>1. CASE v # w
      <4>1. job'[v] = job[v] /\ pc[v] # "idle"
        BY <2>1, <2>6, <3>1 DEF Moves, Own
      <4> QED
        BY <2>3, <4>1 DEF Control
    <3>2. CASE v = w /\ pc[w] # "idle"
      <4>1. /\ DOMAIN job'[w] = DOMAIN job[w]
            /\ job'[w].pass = job[w].pass /\ job'[w].at = job[w].at
        BY <2>1, <2>6, <3>2 DEF Moves, Shifts
      <4> QED
        BY <2>3, <3>2, <4>1 DEF Control
    <3>3. CASE v = w /\ pc[w] = "idle"
      <4>1. /\ DOMAIN job'[w] = {"pass", "at", "more"} /\ made' = made + 1
            /\ job'[w].pass = made + 1 /\ job'[w].at = now
        BY <2>1, <3>3 DEF Moves
      <4> QED
        BY <2>3, <3>3, <4>1 DEF Control
    <3> QED
      BY <3>1, <3>2, <3>3
  <2>7. echo'.pass \in 0..made'
    <3>1. echo' = echo \/ (pc[w] # "idle" /\ echo'.pass = job[w].pass)
      BY <2>1 DEF Moves
    <3>2. pc[w] # "idle" => job[w].pass \in 1..made
      BY DEF Control
    <3>3. echo.pass \in 0..made
      BY DEF Control
    <3> QED
      BY <2>3, <3>1, <3>2, <3>3
  <2>8. /\ plan' \in Plans /\ now' \in Times /\ made' \in 0..plan'.runs
        /\ pc' \in [Workers -> Steps] /\ outcome' \in [Workers -> Ends]
        /\ DOMAIN job' = Workers /\ DOMAIN todo' = Workers /\ DOMAIN held' = Workers
    BY <2>1, <2>3 DEF Moves, Own, Control
  <2> QED
    BY <2>5, <2>6, <2>7, <2>8 DEF Control
<1>3. CASE UNCHANGED vars
  BY <1>3 DEF vars, pipelineVars, Control, PassesAreDistinct
<1> QED
  BY <1>1, <1>2, <1>3 DEF Next, Step

-----------------------------------------------------------------------------
(* What steps write.                                                       *)

VintagesWritten ==
    \/ vintages' = vintages
    \/ \E row \in NewsItemVintage :
          /\ vintages' = vintages \cup {row}
          /\ Below(VintagesOf(row.item), row.revision, row.availability)
          /\ \A x \in VintagesOf(row.item) : x.revision # row.revision

RelationsWritten ==
    \/ relations' = relations
    \/ \E row \in NewsCanonicalRelation :
          /\ relations' = relations \cup {row}
          /\ Below(RelationsOf(row), row.revision, row.availability)
          /\ \A x \in RelationsOf(row) : x.revision # row.revision
          /\ Known(row.left, row.bases[1], row.availability)
          /\ Known(row.right, row.bases[2], row.availability)
          /\ row.method = "AUTOMATIC" => row.revision = 0

AnnotationsWritten ==
    \/ annotations' = annotations
    \/ \E row \in NewsSemanticAnnotation :
          /\ annotations' = annotations \cup {row}
          /\ Below(AnnotationsOf(row.item), row.revision, row.availability)
          /\ \A x \in AnnotationsOf(row.item) : x.revision # row.revision
          /\ Known(row.item, row.basis, row.availability)

IdentitiesWritten ==
    \/ identities' = identities /\ sources' = sources
    \/ \E row \in SourceIdentity :
          /\ identities' = identities \cup {row}
          /\ Below(IdentitiesOf(row.source), row.revision, row.availability)
          /\ \A x \in IdentitiesOf(row.source) :
                /\ x.revision # row.revision
                /\ SameOrigin(x, row, row.policy) => x.name = row.name
          /\ \/ sources' = sources /\ IdentitiesOf(row.source) # {}
             \/ /\ SourceOf(row.source) = {}
                /\ \E s \in IntelligenceSource :
                      s.source = row.source /\ sources' = sources \cup {s}

AttributionsWritten ==
    \/ attributions' = attributions
    \/ \E row \in SourceAttribution :
          /\ attributions' = attributions \cup {row}
          /\ Below(AttributionsOf(row), row.revision, row.availability)
          /\ \A x \in AttributionsOf(row) :
                /\ x.revision # row.revision
                /\ SameGrounds(x, row, row.policy) => x.status = row.status /\ x.source = row.source
          /\ Known(row.item, row.basis, row.availability)
          /\ Named(row.source, row.availability)

Written ==
    /\ VintagesWritten /\ RelationsWritten /\ AnnotationsWritten
    /\ IdentitiesWritten /\ AttributionsWritten
    /\ \A a \in attempts' : a.number \in 1..plan.attempts

\* Revisions are numbers.
LEMMA RevisionType ==
  ASSUME NEW w, held[w] = NoRow \/ held[w].revision \in Nat
  PROVE  Revision(w) \in Nat
  BY DEF Revision

\* The latest vintage is one with the last number.
LEMMA LatestVintageIsLast ==
  ASSUME Typed, Histories, NEW i \in Nat, VintagesOf(i) # {}
  PROVE  LatestVintage(i) \in VintagesOf(i)
         /\ \A x \in VintagesOf(i) : x.revision <= LatestVintage(i).revision
<1>1. Numbered(VintagesOf(i))
  BY DEF Histories
<1>2. \E v \in VintagesOf(i) : \A x \in VintagesOf(i) : x.revision <= v.revision
  BY <1>1, VintageRows, LatestExists
<1> QED
  BY <1>2 DEF LatestVintage

\* RecordNewsObservation numbers what it adds after the latest vintage.
LEMMA RecordingFits ==
  ASSUME Typed, Histories, NEW o \in Fetched, ~Late(o)
  PROVE  /\ Recording(o) \in NewsItemVintage
         /\ Below(VintagesOf(o.item), Recording(o).revision, o.at)
         /\ \A x \in VintagesOf(o.item) : x.revision < Recording(o).revision
<1> DEFINE known == VintagesOf(o.item)
           l == LatestVintage(o.item)
<1>1. o.item \in Nat /\ o.content \in Contents /\ o.channel \in Channels /\ o.at \in Times
  BY DEF Fetched
<1>2. CASE known = {}
  <2>1. Recording(o) = [item |-> o.item, revision |-> 0, availability |-> o.at,
                        content |-> o.content, channels |-> {o.channel}]
    BY <1>2 DEF Recording
  <2>2. Recording(o) \in NewsItemVintage /\ Recording(o).revision = 0
    BY <1>1, <2>1 DEF NewsItemVintage
  <2> QED
    BY <1>2, <2>2 DEF Below
<1>3. CASE known # {}
  <2>1. l \in known /\ \A x \in known : x.revision <= l.revision
    BY <1>1, <1>3, LatestVintageIsLast
  <2>2. l \in NewsItemVintage
    BY <2>1 DEF VintagesOf, Typed
  <2>3. l.revision \in Nat /\ l.availability \in Times /\ l.channels \in SUBSET Channels
    BY <2>2 DEF NewsItemVintage
  <2>4. Recording(o) = [item |-> o.item, revision |-> l.revision + 1, availability |-> o.at,
                        content |-> o.content, channels |-> l.channels \cup {o.channel}]
    BY <1>3 DEF Recording
  <2> HIDE DEF l
  <2>5. Recording(o) \in NewsItemVintage /\ Recording(o).revision = l.revision + 1
    BY <1>1, <2>3, <2>4 DEF NewsItemVintage
  <2>6. l.availability <= o.at
    BY <1>1, <1>3, <2>3, TimesAreNumbers DEF Late, l
  <2>7. TypedRows(known) /\ Numbered(known)
    BY <1>1, VintageRows DEF Histories
  <2>8. ASSUME NEW x \in known PROVE x.revision < l.revision + 1 /\ x.availability <= o.at
    <3>1. x.revision \in Nat /\ x.availability \in Times
      BY <2>7 DEF TypedRows
    <3>2. x.availability <= l.availability
      <4>1. x.revision <= l.revision
        BY <2>1
      <4>2. x.revision = l.revision => x = l
        BY <2>1, <2>7 DEF Numbered
      <4>3. x.revision < l.revision => x.availability <= l.availability
        BY <2>1, <2>7 DEF Numbered
      <4>4. x.availability \in Nat /\ l.availability \in Nat
        BY <2>3, <3>1, TimesAreNumbers
      <4>5. x.revision = l.revision \/ x.revision < l.revision
        BY <2>3, <3>1, <4>1
      <4> QED
        BY <4>2, <4>3, <4>4, <4>5
    <3> QED
      BY <1>1, <2>1, <2>3, <2>6, <3>1, <3>2, TimesAreNumbers
  <2>9. \A k \in 0..((l.revision + 1) - 1) : \E x \in known : x.revision = k
    <3>1. (l.revision + 1) - 1 = l.revision
      BY <2>3
    <3> QED
      BY <2>1, <2>7, <3>1 DEF Numbered
  <2> QED
    BY <2>5, <2>8, <2>9 DEF Below
<1> QED
  BY <1>2, <1>3

\* RecordNewsObservation writes at most one vintage, which fits.
LEMMA RecordWrites ==
  ASSUME IInv, NEW w \in Workers, Record(w)
  PROVE  VintagesWritten
<1> DEFINE o == Next1(w)
<1>1. o \in Fetched
  <2>1. todo[w] \in Seq(Fetched) \ {<<>>}
    BY DEF IInv, CallOK, RecordOK, Record
  <2> QED
    BY <2>1 DEF Next1
<1>2. CASE ~Late(o) /\ vintages' = vintages \cup {Recording(o)}
  <2>1. /\ Recording(o) \in NewsItemVintage
        /\ Below(VintagesOf(o.item), Recording(o).revision, o.at)
        /\ \A x \in VintagesOf(o.item) : x.revision < Recording(o).revision
    BY <1>1, <1>2, RecordingFits DEF IInv
  <2>2. Recording(o).item = o.item /\ Recording(o).availability = o.at
    BY DEF Recording
  <2>3. \A x \in VintagesOf(o.item) : x.revision \in Nat
    BY VintageRows DEF IInv, TypedRows
  <2>4. Recording(o).revision \in Nat
    BY <2>1 DEF NewsItemVintage
  <2>5. \A x \in VintagesOf(o.item) : x.revision # Recording(o).revision
    BY <2>1, <2>3, <2>4
  <2> QED
    BY <1>2, <2>1, <2>2, <2>5 DEF VintagesWritten
<1>3. CASE vintages' = vintages
  BY <1>3 DEF VintagesWritten
<1> QED
  BY <1>2, <1>3 DEF Record

\* add_relation_vintage writes at most one relation, which fits: the number
\* was free.
LEMMA AddRelationWrites ==
  ASSUME IInv, NEW w \in Workers, AddRelation(w)
  PROVE  RelationsWritten
<1> DEFINE r == Next1(w)
           row == [left |-> r.left, right |-> r.right, revision |-> Revision(w),
                   availability |-> job[w].at, kind |-> r.kind, method |-> r.method,
                   bases |-> r.bases]
<1>1. pc[w] = "relate" /\ RelationOK(w) /\ job[w].at \in Times
  BY DEF IInv, CallOK, Relating, AddRelation, Control
<1>2. /\ todo[w] \in Seq(RelationTask) /\ todo[w] # <<>>
      /\ r = todo[w][1] /\ 1 \in 1..Len(todo[w])
  BY <1>1 DEF RelationOK, Next1
<1>3. r \in RelationTask
  BY <1>2
<1>4. Revision(w) \in Nat
  BY <1>1, RevisionType DEF RelationOK, NewsCanonicalRelation
<1>5. row \in NewsCanonicalRelation
  BY <1>1, <1>3, <1>4 DEF RelationTask, NewsCanonicalRelation
<1>6. Known(r.left, r.bases[1], job[w].at) /\ Known(r.right, r.bases[2], job[w].at)
  BY <1>1, <1>2 DEF RelationOK
<1>7. Below(RelationsOf(r), Revision(w), job[w].at)
  BY <1>1 DEF RelationOK, Reserved
<1>8. r.method = "AUTOMATIC" => Revision(w) = 0
  BY <1>1 DEF RelationOK, Revision
<1>9. RelationsOf(row) = RelationsOf(r)
  BY DEF RelationsOf
<1> DEFINE taken == {x \in RelationsOf(r) : x.revision = row.revision}
<1>10. CASE relations' = relations
  BY <1>10 DEF RelationsWritten
<1>11. CASE taken \subseteq {row} /\ relations' = relations \cup {row}
  <2>1. CASE taken = {}
    <3>1. \A x \in RelationsOf(row) : x.revision # row.revision
      BY <1>9, <2>1
    <3>2. /\ row.revision = Revision(w) /\ row.availability = job[w].at /\ row.left = r.left
          /\ row.right = r.right /\ row.bases = r.bases /\ row.method = r.method
      OBVIOUS
    <3> HIDE DEF row, r, taken
    <3> QED
      BY <1>5, <1>6, <1>7, <1>8, <1>9, <1>11, <3>1, <3>2 DEF RelationsWritten
  <2>2. CASE taken # {}
    <3>1. row \in taken
      BY <1>11, <2>2
    <3>2. row \in relations
      BY <3>1 DEF RelationsOf
    <3> QED
      BY <1>10, <1>11, <3>2
  <2> QED
    BY <2>1, <2>2
<1> QED
  BY <1>10, <1>11 DEF AddRelation

\* So does add_annotation_vintage.
LEMMA AddAnnotationWrites ==
  ASSUME IInv, NEW w \in Workers, AddAnnotation(w)
  PROVE  AnnotationsWritten
<1> DEFINE c == Next1(w)
           row == [item |-> c.item, revision |-> Revision(w), availability |-> job[w].at,
                   basis |-> c.basis, version |-> c.version, currencies |-> c.currencies]
<1>1. pc[w] = "annotate" /\ AnnotationOK(w) /\ job[w].at \in Times
  BY DEF IInv, CallOK, Annotating, AddAnnotation, Control
<1>2. /\ todo[w] \in Seq(AnnotationTask) /\ todo[w] # <<>>
      /\ c = todo[w][1] /\ 1 \in 1..Len(todo[w])
  BY <1>1 DEF AnnotationOK, Next1
<1>3. c \in AnnotationTask
  BY <1>2
<1>4. Revision(w) \in Nat
  BY <1>1, RevisionType DEF AnnotationOK, NewsSemanticAnnotation
<1>5. row \in NewsSemanticAnnotation
  BY <1>1, <1>3, <1>4 DEF AnnotationTask, NewsSemanticAnnotation
<1>6. Known(c.item, c.basis, job[w].at)
  BY <1>1, <1>2 DEF AnnotationOK
<1>7. Below(AnnotationsOf(c.item), Revision(w), job[w].at)
  BY <1>1 DEF AnnotationOK, Reserved
<1> DEFINE taken == {x \in AnnotationsOf(c.item) : x.revision = row.revision}
<1>10. CASE annotations' = annotations
  BY <1>10 DEF AnnotationsWritten
<1>11. CASE taken \subseteq {row} /\ annotations' = annotations \cup {row}
  <2>1. CASE taken = {}
    <3>1. \A x \in AnnotationsOf(c.item) : x.revision # row.revision
      BY <2>1
    <3>2. /\ row.revision = Revision(w) /\ row.availability = job[w].at /\ row.item = c.item
          /\ row.basis = c.basis
      OBVIOUS
    <3> HIDE DEF row, c, taken
    <3> QED
      BY <1>5, <1>6, <1>7, <1>11, <3>1, <3>2 DEF AnnotationsWritten
  <2>2. CASE taken # {}
    <3>1. row \in taken
      BY <1>11, <2>2
    <3>2. row \in annotations
      BY <3>1 DEF AnnotationsOf
    <3> QED
      BY <1>10, <1>11, <3>2
  <2> QED
    BY <2>1, <2>2
<1> QED
  BY <1>10, <1>11 DEF AddAnnotation

\* A registry has a policy and its mappings.
LEMMA PoliciesType ==
  ASSUME NEW registry \in Registries
  PROVE  registry.policy \in STRING /\ registry.mappings \in Seq(FeedMapping)
<1>1. registry \in [policy : STRING, mappings : Seq(FeedMapping)]
  BY RegistryAssumption
<1> HIDE DEF FeedMapping
<1> QED
  BY <1>1

\* What a pass at a step of RecordSourceIdentityVintage has to record.
LEMMA IdentityEntryType ==
  ASSUME IInv, NEW w \in Workers, pc[w] \in Identifying
  PROVE  /\ IdentityOK(w) /\ EntriesOK(w) /\ job[w].at \in Times
         /\ job[w].more \in Registries /\ job[w].more.policy \in STRING
         /\ Next1(w) \in IdentityTask
<1>1. pc[w] # "idle"
  BY DEF Identifying
<1>2. IdentityOK(w) /\ job[w].at \in Times /\ job[w].more \in Registries
  BY <1>1 DEF IInv, CallOK, Control
<1>3. EntriesOK(w) /\ Next1(w).entry = "identity"
  BY <1>2 DEF IdentityOK
<1>4. Next1(w) \in Registered
  BY <1>3 DEF EntriesOK, Next1
<1>5. Next1(w) \notin AttributionTask
  BY <1>3 DEF AttributionTask
<1> QED
  BY <1>2, <1>3, <1>4, <1>5, PoliciesType DEF Registered

\* What a pass at a step of RecordSourceAttribution has to record.
LEMMA AttributionEntryType ==
  ASSUME IInv, NEW w \in Workers, pc[w] \in Attributing
  PROVE  /\ AttributionOK(w) /\ EntriesOK(w) /\ job[w].at \in Times
         /\ job[w].more \in Registries /\ job[w].more.policy \in STRING
         /\ Next1(w) \in AttributionTask
<1>1. pc[w] # "idle"
  BY DEF Attributing
<1>2. AttributionOK(w) /\ job[w].at \in Times /\ job[w].more \in Registries
  BY <1>1 DEF IInv, CallOK, Control
<1>3. EntriesOK(w) /\ Next1(w).entry = "attribution"
  BY <1>2 DEF AttributionOK
<1>4. Next1(w) \in Registered
  BY <1>3 DEF EntriesOK, Next1
<1>5. Next1(w) \notin IdentityTask
  BY <1>3 DEF IdentityTask
<1> QED
  BY <1>2, <1>3, <1>4, <1>5, PoliciesType DEF Registered

\* A source is registered with its first identity, or not at all.
LEMMA RegisterWrites ==
  ASSUME IInv, NEW w \in Workers, Register(w)
  PROVE  IdentitiesWritten
<1> DEFINE e == Next1(w)
           row == IdentityRow(w)
           s == [source |-> e.source, kind |-> e.kind, registered |-> job[w].at]
<1>1. pc[w] = "register" /\ pc[w] \in Identifying
  BY DEF Register, Identifying
<1>2. /\ IdentityOK(w) /\ job[w].at \in Times /\ job[w].more.policy \in STRING /\ e \in IdentityTask
  BY <1>1, IdentityEntryType
<1>3. held[w] = NoRow
  BY <1>1, <1>2 DEF IdentityOK
<1>4. row = [source |-> e.source, revision |-> 0, availability |-> job[w].at,
             policy |-> job[w].more.policy, name |-> e.name, evidence |-> e.evidence]
  BY <1>3 DEF IdentityRow, Revision
<1>5. row \in SourceIdentity /\ s \in IntelligenceSource
  <2>1. e.source \in STRING /\ e.kind \in Kinds /\ e.name \in STRING /\ e.evidence \in Seq(STRING)
    BY <1>2 DEF IdentityTask
  <2> HIDE DEF e, row
  <2> QED
    BY <1>2, <1>4, <2>1 DEF SourceIdentity, IntelligenceSource
<1>6. row.source = e.source /\ row.revision = 0
  BY <1>4
<1>7. CASE identities' = identities /\ sources' = sources
  BY <1>7 DEF IdentitiesWritten
<1>8. CASE SourceOf(e.source) = {} /\ sources' = sources \cup {s}
           /\ identities' = identities \cup {row}
  <2>1. IdentitiesOf(e.source) = {}
    <3>1. {v.source : v \in identities} = {x.source : x \in sources}
      BY DEF IInv, Registers
    <3> HIDE DEF e
    <3> QED
      BY <1>8, <3>1 DEF SourceOf, IdentitiesOf
  <2>2. s.source = e.source
    OBVIOUS
  <2> HIDE DEF e, row, s
  <2> QED
    BY <1>5, <1>6, <1>8, <2>1, <2>2 DEF IdentitiesWritten, Below
<1> QED
  BY <1>7, <1>8 DEF Register

\* A later identity is written under a free number, and says the same on the
\* same grounds.
LEMMA AddIdentityWrites ==
  ASSUME IInv, NEW w \in Workers, AddIdentity(w)
  PROVE  IdentitiesWritten
<1> DEFINE e == Next1(w)
           row == IdentityRow(w)
           rows == IdentitiesOf(e.source)
           taken == {v \in rows : v.revision = row.revision}
<1>1. pc[w] = "identify" /\ pc[w] \in Identifying
  BY DEF AddIdentity, Identifying
<1>2. /\ IdentityOK(w) /\ job[w].at \in Times /\ job[w].more.policy \in STRING /\ e \in IdentityTask
  BY <1>1, IdentityEntryType
<1>3. e.source \in STRING /\ e.kind \in Kinds /\ e.name \in STRING /\ e.evidence \in Seq(STRING)
  BY <1>2 DEF IdentityTask
<1>4. /\ held[w] \in rows /\ Below(rows, Revision(w), job[w].at)
      /\ \A v \in rows : v.revision < Revision(w) /\ SameOrigin(v, e, job[w].more.policy)
                            => v.name = e.name
  BY <1>1, <1>2 DEF IdentityOK, Reserved
<1>5. Revision(w) \in Nat
  <2>1. held[w].revision \in Nat
    BY <1>4, IdentityRows DEF IInv, TypedRows
  <2> QED
    BY <2>1, RevisionType
<1>6. row \in SourceIdentity
  <2> HIDE DEF e
  <2> QED
    BY <1>2, <1>3, <1>5 DEF SourceIdentity, IdentityRow, e
<1>7. /\ row.source = e.source /\ row.revision = Revision(w) /\ row.availability = job[w].at
      /\ row.policy = job[w].more.policy /\ row.name = e.name /\ row.evidence = e.evidence
  BY DEF IdentityRow
<1>8. CASE identities' = identities /\ sources' = sources
  BY <1>8 DEF IdentitiesWritten
<1>9. CASE taken \subseteq {row} /\ identities' = identities \cup {row} /\ sources' = sources
  <2>1. CASE taken = {}
    <3>1. \A x \in rows : x.revision # row.revision
      BY <2>1
    <3>2. Numbered(rows) /\ TypedRows(rows)
      BY <1>3, IdentityRows DEF IInv, Histories
    <3>3. \A x \in rows : x.revision < row.revision
      <4> HIDE DEF rows, row, e, taken
      <4> QED
        BY <1>2, <1>4, <1>5, <1>7, <3>1, <3>2, AppendKeeps
    <3>4. \A x \in rows : SameOrigin(x, row, row.policy) => x.name = row.name
      BY <1>4, <1>7, <3>3 DEF SameOrigin
    <3> HIDE DEF row, e, taken
    <3> QED
      BY <1>4, <1>6, <1>7, <1>9, <3>1, <3>4 DEF IdentitiesWritten
  <2>2. CASE taken # {}
    <3>1. row \in taken
      BY <1>9, <2>2
    <3>2. row \in identities
      BY <3>1 DEF IdentitiesOf
    <3> QED
      BY <1>8, <1>9, <3>2
  <2> QED
    BY <2>1, <2>2
<1>10. \/ taken \subseteq {row} /\ identities' = identities \cup {row}
       \/ identities' = identities
  <2>1. row.source = e.source
    BY <1>7
  <2>2. \/ /\ {v \in IdentitiesOf(row.source) : v.revision = row.revision} \subseteq {row}
           /\ identities' = identities \cup {row}
        \/ identities' = identities
    BY DEF AddIdentity
  <2> HIDE DEF row, e
  <2> QED
    BY <2>1, <2>2
<1>11. sources' = sources
  BY DEF AddIdentity
<1> QED
  BY <1>8, <1>9, <1>10, <1>11

\* So is an attribution.
LEMMA AddAttributionWrites ==
  ASSUME IInv, NEW w \in Workers, AddAttribution(w)
  PROVE  AttributionsWritten
<1> DEFINE e == Next1(w)
           row == [item |-> e.item, role |-> e.role, revision |-> Revision(w),
                   availability |-> job[w].at, policy |-> job[w].more.policy,
                   status |-> e.status, source |-> e.source, basis |-> e.basis,
                   evidence |-> e.evidence]
           rows == AttributionsOf(e)
           taken == {a \in rows : a.revision = row.revision}
<1>1. pc[w] = "attribute" /\ pc[w] \in Attributing
  BY DEF AddAttribution, Attributing
<1>2. /\ AttributionOK(w) /\ EntriesOK(w) /\ job[w].at \in Times
      /\ job[w].more.policy \in STRING /\ e \in AttributionTask
  BY <1>1, AttributionEntryType
<1>3. /\ e.item \in Nat /\ e.role \in Roles /\ e.status \in {"CONFIRMED", "UNRESOLVED"}
      /\ e.source \in STRING /\ e.basis \in Nat /\ e.evidence \in Seq(STRING)
      /\ e.entry = "attribution"
  BY <1>2 DEF AttributionTask
<1>4. /\ held[w] = NoRow \/ held[w] \in rows
      /\ Below(rows, Revision(w), job[w].at)
      /\ \A a \in rows : a.revision < Revision(w) /\ SameGrounds(a, e, job[w].more.policy)
                            => a.status = e.status /\ a.source = e.source
  BY <1>1, <1>2 DEF AttributionOK, Reserved
<1>5. Revision(w) \in Nat
  <2>1. held[w] \in rows => held[w].revision \in Nat
    BY AttributionRows DEF IInv, TypedRows
  <2> QED
    BY <1>4, <2>1, RevisionType
<1>6. row \in SourceAttribution
  <2> HIDE DEF e
  <2> QED
    BY <1>2, <1>3, <1>5 DEF SourceAttribution
<1>7. /\ row.source = e.source /\ row.revision = Revision(w) /\ row.availability = job[w].at
      /\ row.policy = job[w].more.policy /\ row.status = e.status /\ row.evidence = e.evidence
      /\ row.item = e.item /\ row.role = e.role /\ row.basis = e.basis
  OBVIOUS
<1>8. Known(e.item, e.basis, job[w].at) /\ Named(e.source, job[w].at)
  <2>1. todo[w] \in Seq(Registered) \ {<<>>}
    BY <1>2 DEF EntriesOK
  <2>2. e = todo[w][1] /\ 1 \in 1..Len(todo[w])
    BY <2>1 DEF Next1
  <2>3. 1..(1 - 1) = {}
    OBVIOUS
  <2> HIDE DEF e
  <2> QED
    BY <1>2, <1>3, <2>2, <2>3 DEF EntriesOK
<1>9. CASE attributions' = attributions
  BY <1>9 DEF AttributionsWritten
<1>10. CASE taken \subseteq {row} /\ attributions' = attributions \cup {row}
  <2>1. CASE taken = {}
    <3>1. \A x \in rows : x.revision # row.revision
      BY <2>1
    <3>2. Numbered(rows) /\ TypedRows(rows)
      BY <1>3, AttributionRows, AttributionHistory DEF IInv
    <3>3. \A x \in rows : x.revision < row.revision
      <4> HIDE DEF rows, row, e, taken
      <4> QED
        BY <1>2, <1>4, <1>5, <1>7, <3>1, <3>2, AppendKeeps
    <3>4. \A x \in rows : SameGrounds(x, row, row.policy)
                             => x.status = row.status /\ x.source = row.source
      <4> HIDE DEF rows, row, e, taken
      <4> QED
        BY <1>4, <1>7, <3>3 DEF SameGrounds, SameOrigin
    <3>5. AttributionsOf(row) = rows
      BY DEF AttributionsOf
    <3> HIDE DEF row, e, taken, rows
    <3> QED
      BY <1>4, <1>6, <1>7, <1>8, <1>10, <3>1, <3>4, <3>5 DEF AttributionsWritten
  <2>2. CASE taken # {}
    <3>1. row \in taken
      BY <1>10, <2>2
    <3>2. row \in attributions
      BY <3>1 DEF AttributionsOf
    <3> QED
      BY <1>9, <1>10, <3>2
  <2> QED
    BY <2>1, <2>2
<1> QED
  BY <1>9, <1>10 DEF AddAttribution

\* A pass writes at most one row at a time, and that one fits.
LEMMA StepWrites ==
  ASSUME IInv, NEW w \in Workers, Step(w)
  PROVE  Written
<1>0. \A a \in attempts : a.number \in 1..plan.attempts
  BY DEF IInv, Typed
<1> DEFINE Same == UNCHANGED <<vintages, relations, annotations, sources, identities, attributions>>
<1>a. ASSUME Same PROVE /\ VintagesWritten /\ RelationsWritten /\ AnnotationsWritten
                        /\ IdentitiesWritten /\ AttributionsWritten
  BY <1>a DEF VintagesWritten, RelationsWritten, AnnotationsWritten, IdentitiesWritten,
              AttributionsWritten
<1>1. CASE Record(w) /\ UNCHANGED registryVars
  BY <1>0, <1>1, RecordWrites DEF Record, registryVars, registryTables, Written,
     RelationsWritten, AnnotationsWritten, IdentitiesWritten, AttributionsWritten
<1>2. CASE AddRelation(w) /\ UNCHANGED registryVars
  BY <1>0, <1>2, AddRelationWrites DEF AddRelation, registryVars, registryTables, Written,
     VintagesWritten, AnnotationsWritten, IdentitiesWritten, AttributionsWritten
<1>3. CASE AddAnnotation(w) /\ UNCHANGED registryVars
  BY <1>0, <1>3, AddAnnotationWrites DEF AddAnnotation, registryVars, registryTables, Written,
     VintagesWritten, RelationsWritten, IdentitiesWritten, AttributionsWritten
<1>4. CASE Register(w)
  BY <1>0, <1>4, RegisterWrites DEF Register, tables, Written,
     VintagesWritten, RelationsWritten, AnnotationsWritten, AttributionsWritten
<1>5. CASE AddIdentity(w)
  BY <1>0, <1>5, AddIdentityWrites DEF AddIdentity, tables, Written,
     VintagesWritten, RelationsWritten, AnnotationsWritten, AttributionsWritten
<1>6. CASE AddAttribution(w)
  BY <1>0, <1>6, AddAttributionWrites DEF AddAttribution, tables, Written,
     VintagesWritten, RelationsWritten, AnnotationsWritten, IdentitiesWritten
<1>7. CASE Report(w)
  <2>1. held[w].number \in 1..plan.attempts
    BY <1>7 DEF Report, IInv, CallOK, Fetching, FetchOK
  <2>2. Observation(w).number = held[w].number
    BY DEF Observation
  <2>3. \A a \in attempts' : a.number \in 1..plan.attempts
    BY <1>0, <1>7, <2>1, <2>2 DEF Report
  <2>4. Same
    BY <1>7 DEF Report, tables, registryTables
  <2> QED
    BY <1>a, <2>3, <2>4 DEF Written
<1>8. CASE Same /\ attempts' = attempts
  BY <1>0, <1>a, <1>8 DEF Written
<1>9. ASSUME NEW pass, NEW s, NEW more, NEW work, Start(w, pass, s, more, work),
             UNCHANGED registryVars
      PROVE  Written
  <2>1. tables' = tables
    BY <1>9 DEF Start, tables
  <2> QED
    BY <1>8, <1>9, <2>1 DEF registryVars, registryTables, tables
<1>10. CASE /\ UNCHANGED registryVars
            /\ \/ StartIngestion(w) \/ StartCanonicalization(w)
               \/ StartReview(w) \/ StartClassification(w)
  <2>1. \E pass, s, more, work : Start(w, pass, s, more, work)
    BY <1>10 DEF StartIngestion, StartCanonicalization, StartReview, StartClassification
  <2> QED
    BY <1>9, <1>10, <2>1
<1>11. CASE /\ UNCHANGED registryVars
            /\ \/ Fetch(w) \/ ReadPairs(w) \/ ReadRelation(w) \/ ReadItems(w)
               \/ ReadAnnotation(w) \/ ReadHistory(w)
  BY <1>8, <1>11 DEF Fetch, ReadPairs, ReadRelation, ReadItems, ReadAnnotation, ReadHistory,
     tables, registryVars, registryTables
<1>12. CASE StartBootstrap(w)
  BY <1>9, <1>12 DEF StartBootstrap
<1>13. CASE \/ Attempt(w) \/ ReadCandidates(w) \/ ReadSource(w) \/ ReadIdentity(w)
            \/ ReadIdentities(w) \/ ReadAttribution(w) \/ ReadAttributions(w)
  BY <1>8, <1>13 DEF Attempt, ReadCandidates, ReadSource, ReadIdentity, ReadIdentities,
     ReadAttribution, ReadAttributions, tables, registryVars, registryTables
<1> QED
  BY <1>1, <1>2, <1>3, <1>4, <1>5, <1>6, <1>7, <1>10, <1>11, <1>12, <1>13
     DEF Step, PipelineStep, RegistryStep

-----------------------------------------------------------------------------
(* What writing keeps.                                                     *)

\* One row more, in a history of its own.
LEMMA OneMore ==
  ASSUME NEW old, NEW row, \A x \in old : x.revision # row.revision
  PROVE  Grown(old, old \cup {row})
  BY DEF Grown

\* Or none.
LEMMA NoMore == \A rows : Grown(rows, rows)
  BY DEF Grown

\* A vintage that fits keeps the histories of items in order.
LEMMA VintagesStep ==
  ASSUME Typed, Histories, VintagesWritten
  PROVE  /\ vintages' \subseteq NewsItemVintage /\ IsFiniteSet(vintages')
         /\ \A i : Grown(VintagesOf(i), VintagesOf(i)')
         /\ \A i \in Nat : Numbered(VintagesOf(i)')
<1>1. CASE vintages' = vintages
  BY <1>1, NoMore DEF Typed, Histories, VintagesOf
<1>2. ASSUME NEW row \in NewsItemVintage, vintages' = vintages \cup {row},
             Below(VintagesOf(row.item), row.revision, row.availability),
             \A x \in VintagesOf(row.item) : x.revision # row.revision
      PROVE  /\ vintages' \subseteq NewsItemVintage /\ IsFiniteSet(vintages')
             /\ \A i : Grown(VintagesOf(i), VintagesOf(i)')
             /\ \A i \in Nat : Numbered(VintagesOf(i)')
  <2>1. IsFiniteSet(vintages')
    BY <1>2, FS_AddElement DEF Typed
  <2>2. \A i : VintagesOf(i)' = IF i = row.item THEN VintagesOf(i) \cup {row} ELSE VintagesOf(i)
    BY <1>2 DEF VintagesOf
  <2>3. \A i : Grown(VintagesOf(i), VintagesOf(i)')
    BY <1>2, <2>2, OneMore, NoMore
  <2>4. /\ row.item \in Nat /\ row.revision \in Nat /\ row.availability \in Times
    BY DEF NewsItemVintage
  <2>5. Numbered(VintagesOf(row.item) \cup {row})
    BY <1>2, <2>4, AppendKeeps, VintageRows DEF Histories
  <2>6. \A i \in Nat : Numbered(VintagesOf(i)')
    BY <2>2, <2>5 DEF Histories
  <2> QED
    BY <1>2, <2>1, <2>3, <2>6 DEF Typed
<1> QED
  BY <1>1, <1>2 DEF VintagesWritten

\* So does a relation those of pairs,
LEMMA RelationsStep ==
  ASSUME Typed, Histories, RelationsWritten
  PROVE  /\ relations' \subseteq NewsCanonicalRelation /\ IsFiniteSet(relations')
         /\ \A r : Grown(RelationsOf(r), RelationsOf(r)')
         /\ \A r \in [left : Nat, right : Nat] : Numbered(RelationsOf(r)')
<1>1. CASE relations' = relations
  BY <1>1, NoMore DEF Typed, Histories, RelationsOf
<1>2. ASSUME NEW row \in NewsCanonicalRelation, relations' = relations \cup {row},
             Below(RelationsOf(row), row.revision, row.availability),
             \A x \in RelationsOf(row) : x.revision # row.revision
      PROVE  /\ relations' \subseteq NewsCanonicalRelation /\ IsFiniteSet(relations')
             /\ \A r : Grown(RelationsOf(r), RelationsOf(r)')
             /\ \A r \in [left : Nat, right : Nat] : Numbered(RelationsOf(r)')
  <2>1. IsFiniteSet(relations')
    BY <1>2, FS_AddElement DEF Typed
  <2>2. ASSUME NEW r
        PROVE  RelationsOf(r)' = IF r.left = row.left /\ r.right = row.right
                                 THEN RelationsOf(r) \cup {row} ELSE RelationsOf(r)
    BY <1>2 DEF RelationsOf
  <2>3. \A r : r.left = row.left /\ r.right = row.right => RelationsOf(r) = RelationsOf(row)
    BY DEF RelationsOf
  <2>4. \A r : Grown(RelationsOf(r), RelationsOf(r)')
    BY <1>2, <2>2, <2>3, OneMore, NoMore
  <2>5. /\ row.left \in Nat /\ row.right \in Nat /\ row.revision \in Nat
        /\ row.availability \in Times
    BY DEF NewsCanonicalRelation
  <2>6. Numbered(RelationsOf(row) \cup {row})
    BY <1>2, <2>5, AppendKeeps, RelationRows, RelationHistory
  <2>7. \A r \in [left : Nat, right : Nat] : Numbered(RelationsOf(r)')
    BY <2>2, <2>3, <2>6 DEF Histories
  <2> QED
    BY <1>2, <2>1, <2>4, <2>7 DEF Typed
<1> QED
  BY <1>1, <1>2 DEF RelationsWritten

\* an annotation those of items,
LEMMA AnnotationsStep ==
  ASSUME Typed, Histories, AnnotationsWritten
  PROVE  /\ annotations' \subseteq NewsSemanticAnnotation /\ IsFiniteSet(annotations')
         /\ \A i : Grown(AnnotationsOf(i), AnnotationsOf(i)')
         /\ \A i \in Nat : Numbered(AnnotationsOf(i)')
<1>1. CASE annotations' = annotations
  BY <1>1, NoMore DEF Typed, Histories, AnnotationsOf
<1>2. ASSUME NEW row \in NewsSemanticAnnotation, annotations' = annotations \cup {row},
             Below(AnnotationsOf(row.item), row.revision, row.availability),
             \A x \in AnnotationsOf(row.item) : x.revision # row.revision
      PROVE  /\ annotations' \subseteq NewsSemanticAnnotation /\ IsFiniteSet(annotations')
             /\ \A i : Grown(AnnotationsOf(i), AnnotationsOf(i)')
             /\ \A i \in Nat : Numbered(AnnotationsOf(i)')
  <2>1. IsFiniteSet(annotations')
    BY <1>2, FS_AddElement DEF Typed
  <2>2. \A i : AnnotationsOf(i)' = IF i = row.item THEN AnnotationsOf(i) \cup {row}
                                   ELSE AnnotationsOf(i)
    BY <1>2 DEF AnnotationsOf
  <2>3. \A i : Grown(AnnotationsOf(i), AnnotationsOf(i)')
    BY <1>2, <2>2, OneMore, NoMore
  <2>4. /\ row.item \in Nat /\ row.revision \in Nat /\ row.availability \in Times
    BY DEF NewsSemanticAnnotation
  <2>5. Numbered(AnnotationsOf(row.item) \cup {row})
    BY <1>2, <2>4, AppendKeeps, AnnotationRows DEF Histories
  <2>6. \A i \in Nat : Numbered(AnnotationsOf(i)')
    BY <2>2, <2>5 DEF Histories
  <2> QED
    BY <1>2, <2>1, <2>3, <2>6 DEF Typed
<1> QED
  BY <1>1, <1>2 DEF AnnotationsWritten

\* an identity those of sources, each of which stays registered once,
LEMMA IdentitiesStep ==
  ASSUME Typed, Histories, Registers, IdentitiesWritten
  PROVE  /\ identities' \subseteq SourceIdentity /\ IsFiniteSet(identities')
         /\ sources' \subseteq IntelligenceSource
         /\ \A s : Grown(IdentitiesOf(s), IdentitiesOf(s)')
         /\ \A s \in STRING : Numbered(IdentitiesOf(s)')
         /\ \A s : SourceOf(s) # {} => SourceOf(s)' = SourceOf(s)
         /\ Registers'
<1> DEFINE Good == /\ identities' \subseteq SourceIdentity /\ IsFiniteSet(identities')
                   /\ \A s : Grown(IdentitiesOf(s), IdentitiesOf(s)')
                   /\ \A s \in STRING : Numbered(IdentitiesOf(s)')
           Sourced == /\ sources' \subseteq IntelligenceSource
                      /\ \A s : SourceOf(s) # {} => SourceOf(s)' = SourceOf(s)
                      /\ Registers'
<1>1. CASE identities' = identities /\ sources' = sources
  BY <1>1, NoMore DEF Typed, Histories, IdentitiesOf, SourceOf, Registers
<1>2. ASSUME NEW row \in SourceIdentity, identities' = identities \cup {row},
             Below(IdentitiesOf(row.source), row.revision, row.availability),
             \A x \in IdentitiesOf(row.source) : x.revision # row.revision
      PROVE  Good
  <2>1. IsFiniteSet(identities')
    BY <1>2, FS_AddElement DEF Typed
  <2>2. \A s : IdentitiesOf(s)' = IF s = row.source THEN IdentitiesOf(s) \cup {row}
                                  ELSE IdentitiesOf(s)
    BY <1>2 DEF IdentitiesOf
  <2>3. \A s : Grown(IdentitiesOf(s), IdentitiesOf(s)')
    BY <1>2, <2>2, OneMore, NoMore
  <2>4. /\ row.source \in STRING /\ row.revision \in Nat /\ row.availability \in Times
    BY DEF SourceIdentity
  <2>5. Numbered(IdentitiesOf(row.source) \cup {row})
    BY <1>2, <2>4, AppendKeeps, IdentityRows DEF Histories
  <2>6. \A s \in STRING : Numbered(IdentitiesOf(s)')
    BY <2>2, <2>5 DEF Histories
  <2> QED
    BY <1>2, <2>1, <2>3, <2>6 DEF Typed
<1>3. ASSUME NEW row, identities' = identities \cup {row}, sources' = sources,
             IdentitiesOf(row.source) # {}
      PROVE  Sourced
  <2>1. row.source \in {v.source : v \in identities}
    BY <1>3 DEF IdentitiesOf
  <2>2. {v.source : v \in identities'} = {v.source : v \in identities}
    BY <1>3, <2>1
  <2> QED
    BY <1>3, <2>2 DEF Typed, SourceOf, Registers
<1>4. ASSUME NEW row, identities' = identities \cup {row}, SourceOf(row.source) = {},
             NEW s \in IntelligenceSource, s.source = row.source, sources' = sources \cup {s}
      PROVE  Sourced
  <2>1. {v.source : v \in identities'} = {v.source : v \in identities} \cup {row.source}
    BY <1>4
  <2>2. {x.source : x \in sources'} = {x.source : x \in sources} \cup {row.source}
    BY <1>4
  <2>3. \A k : SourceOf(k)' = IF k = row.source THEN {s} ELSE SourceOf(k)
    BY <1>4 DEF SourceOf
  <2>4. \A k : SourceOf(k) # {} => SourceOf(k)' = SourceOf(k)
    BY <1>4, <2>3
  <2>5. ASSUME NEW x \in sources' PROVE SourceOf(x.source)' = {x}
    <3>1. CASE x = s
      BY <1>4, <2>3, <3>1
    <3>2. CASE x # s
      <4>1. x \in sources
        BY <1>4, <3>2
      <4>2. x.source # row.source
        BY <1>4, <4>1 DEF SourceOf
      <4> QED
        BY <2>3, <4>1, <4>2 DEF Registers
    <3> QED
      BY <3>1, <3>2
  <2>6. Registers'
    BY <2>1, <2>2, <2>5 DEF Registers
  <2> QED
    BY <1>4, <2>4, <2>6 DEF Typed
<1> QED
  BY <1>1, <1>2, <1>3, <1>4 DEF IdentitiesWritten

\* and an attribution those of items in their roles.
LEMMA AttributionsStep ==
  ASSUME Typed, Histories, AttributionsWritten
  PROVE  /\ attributions' \subseteq SourceAttribution /\ IsFiniteSet(attributions')
         /\ \A e : Grown(AttributionsOf(e), AttributionsOf(e)')
         /\ \A e \in [item : Nat, role : Roles] : Numbered(AttributionsOf(e)')
<1>1. CASE attributions' = attributions
  BY <1>1, NoMore DEF Typed, Histories, AttributionsOf
<1>2. ASSUME NEW row \in SourceAttribution, attributions' = attributions \cup {row},
             Below(AttributionsOf(row), row.revision, row.availability),
             \A x \in AttributionsOf(row) : x.revision # row.revision
      PROVE  /\ attributions' \subseteq SourceAttribution /\ IsFiniteSet(attributions')
             /\ \A e : Grown(AttributionsOf(e), AttributionsOf(e)')
             /\ \A e \in [item : Nat, role : Roles] : Numbered(AttributionsOf(e)')
  <2>1. IsFiniteSet(attributions')
    BY <1>2, FS_AddElement DEF Typed
  <2>2. ASSUME NEW e
        PROVE  AttributionsOf(e)' = IF e.item = row.item /\ e.role = row.role
                                    THEN AttributionsOf(e) \cup {row} ELSE AttributionsOf(e)
    BY <1>2 DEF AttributionsOf
  <2>3. \A e : e.item = row.item /\ e.role = row.role => AttributionsOf(e) = AttributionsOf(row)
    BY DEF AttributionsOf
  <2>4. \A e : Grown(AttributionsOf(e), AttributionsOf(e)')
    BY <1>2, <2>2, <2>3, OneMore, NoMore
  <2>5. /\ row.item \in Nat /\ row.role \in Roles /\ row.revision \in Nat
        /\ row.availability \in Times
    BY DEF SourceAttribution
  <2>6. Numbered(AttributionsOf(row) \cup {row})
    BY <1>2, <2>5, AppendKeeps, AttributionRows, AttributionHistory
  <2>7. \A e \in [item : Nat, role : Roles] : Numbered(AttributionsOf(e)')
    BY <2>2, <2>3, <2>6 DEF Histories
  <2> QED
    BY <1>2, <2>1, <2>4, <2>7 DEF Typed
<1> QED
  BY <1>1, <1>2 DEF AttributionsWritten

\* Rows are only added, each under a number of its own, and sources stay.
TablesGrow ==
    /\ \A i : Grown(VintagesOf(i), VintagesOf(i)')
    /\ \A r : Grown(RelationsOf(r), RelationsOf(r)')
    /\ \A i : Grown(AnnotationsOf(i), AnnotationsOf(i)')
    /\ \A s : Grown(IdentitiesOf(s), IdentitiesOf(s)')
    /\ \A e : Grown(AttributionsOf(e), AttributionsOf(e)')
    /\ \A s : SourceOf(s) # {} => SourceOf(s)' = SourceOf(s)

\* What is written fits, so that tables keep their order and only grow.
LEMMA TablesStep ==
  ASSUME IInv, Written, plan' = plan
  PROVE  Typed' /\ Histories' /\ Registers' /\ TablesGrow
<1>1. /\ Typed /\ Histories /\ Registers /\ VintagesWritten /\ RelationsWritten
      /\ AnnotationsWritten /\ IdentitiesWritten /\ AttributionsWritten
      /\ \A a \in attempts' : a.number \in 1..plan.attempts
  BY DEF IInv, Written
<1>2. Typed'
  BY <1>1, VintagesStep, RelationsStep, AnnotationsStep, IdentitiesStep, AttributionsStep DEF Typed
<1>3. Histories'
  BY <1>1, VintagesStep, RelationsStep, AnnotationsStep, IdentitiesStep, AttributionsStep
     DEF Histories
<1>4. TablesGrow
  BY <1>1, VintagesStep, RelationsStep, AnnotationsStep, IdentitiesStep, AttributionsStep
     DEF TablesGrow
<1> QED
  BY <1>1, <1>2, <1>3, <1>4, IdentitiesStep

\* What was known stays known, and who was named stays named.
LEMMA KnownStays ==
  ASSUME TablesGrow, NEW i, NEW n, NEW t, Known(i, n, t)
  PROVE  \E v \in vintages' : v.item = i /\ v.revision = n /\ v.availability <= t
<1>1. PICK v \in VintagesOf(i) : v.revision = n /\ v.availability <= t
  BY DEF Known
<1>2. v \in VintagesOf(i)'
  BY <1>1 DEF TablesGrow, Grown
<1> QED
  BY <1>1, <1>2 DEF VintagesOf

\* Who was named stays named.
LEMMA NamedStays ==
  ASSUME TablesGrow, NEW s, NEW t, Named(s, t)
  PROVE  \E v \in identities' : v.source = s /\ v.availability <= t
<1>1. PICK v \in IdentitiesOf(s) : v.availability <= t
  BY DEF Named
<1>2. v \in IdentitiesOf(s)'
  BY <1>1 DEF TablesGrow, Grown
<1> QED
  BY <1>1, <1>2 DEF IdentitiesOf

\* An automatic relation that is written is the first of its pair.
LEMMA AutomaticStays ==
  ASSUME AutomaticComesFirst, RelationsWritten
  PROVE  AutomaticComesFirst'
  BY DEF AutomaticComesFirst, RelationsWritten

\* What is written says what was said on the same grounds.
LEMMA DeterministicStays ==
  ASSUME Deterministic, IdentitiesWritten, AttributionsWritten
  PROVE  Deterministic'
<1>1. ASSUME NEW v \in identities', NEW x \in identities', v.source = x.source,
             v.policy = x.policy, v.evidence = x.evidence
      PROVE  v.name = x.name
  <2>1. CASE v \in identities /\ x \in identities
    BY <1>1, <2>1 DEF Deterministic, SameOrigin
  <2>2. CASE ~(v \in identities /\ x \in identities)
    <3>1. PICK row \in SourceIdentity :
            /\ identities' = identities \cup {row}
            /\ \A y \in IdentitiesOf(row.source) : SameOrigin(y, row, row.policy) => y.name = row.name
      BY <2>2 DEF IdentitiesWritten
    <3>2. \A y \in identities : y.source = row.source /\ y.policy = row.policy
                                   /\ y.evidence = row.evidence => y.name = row.name
      BY <3>1 DEF IdentitiesOf, SameOrigin
    <3> QED
      BY <1>1, <2>2, <3>1, <3>2
  <2> QED
    BY <2>1, <2>2
<1>2. ASSUME NEW a \in attributions', NEW x \in attributions', a.item = x.item, a.role = x.role,
             a.policy = x.policy, a.evidence = x.evidence, a.basis = x.basis
      PROVE  a.status = x.status /\ a.source = x.source
  <2>1. CASE a \in attributions /\ x \in attributions
    BY <1>2, <2>1 DEF Deterministic, SameGrounds, SameOrigin
  <2>2. CASE ~(a \in attributions /\ x \in attributions)
    <3>1. PICK row \in SourceAttribution :
            /\ attributions' = attributions \cup {row}
            /\ \A y \in AttributionsOf(row) :
                  SameGrounds(y, row, row.policy) => y.status = row.status /\ y.source = row.source
      BY <2>2 DEF AttributionsWritten
    <3>2. \A y \in attributions :
             /\ y.item = row.item /\ y.role = row.role /\ y.policy = row.policy
             /\ y.evidence = row.evidence /\ y.basis = row.basis
             => y.status = row.status /\ y.source = row.source
      BY <3>1 DEF AttributionsOf, SameGrounds, SameOrigin
    <3> QED
      BY <1>2, <2>2, <3>1, <3>2
  <2> QED
    BY <2>1, <2>2
<1> QED
  BY <1>1, <1>2 DEF Deterministic, SameOrigin, SameGrounds

\* What is written rests on what is known, and what is known stays.
LEMMA EvidenceStays ==
  ASSUME EvidenceBeforeJudgement, RelationsWritten, AnnotationsWritten, AttributionsWritten,
         TablesGrow, Registers'
  PROVE  EvidenceBeforeJudgement'
<1>1. ASSUME NEW r \in relations'
      PROVE  Known(r.left, r.bases[1], r.availability)' /\ Known(r.right, r.bases[2], r.availability)'
  <2>1. /\ Known(r.left, r.bases[1], r.availability)
        /\ Known(r.right, r.bases[2], r.availability)
    BY DEF EvidenceBeforeJudgement, JudgementsHaveEvidence, RelationsWritten
  <2>2. /\ \E v \in vintages' : /\ v.item = r.left /\ v.revision = r.bases[1]
                               /\ v.availability <= r.availability
        /\ \E v \in vintages' : /\ v.item = r.right /\ v.revision = r.bases[2]
                               /\ v.availability <= r.availability
    BY <2>1, KnownStays
  <2> QED
    BY <2>2 DEF Known, VintagesOf
<1>2. ASSUME NEW a \in annotations' PROVE Known(a.item, a.basis, a.availability)'
  <2>1. Known(a.item, a.basis, a.availability)
    BY DEF EvidenceBeforeJudgement, JudgementsHaveEvidence, AnnotationsWritten
  <2>2. \E v \in vintages' : v.item = a.item /\ v.revision = a.basis /\ v.availability <= a.availability
    BY <2>1, KnownStays
  <2> QED
    BY <2>2 DEF Known, VintagesOf
<1>3. ASSUME NEW a \in attributions'
      PROVE  /\ Known(a.item, a.basis, a.availability)'
             /\ a.source \in {s.source : s \in sources'}
             /\ \E v \in identities' : v.source = a.source /\ v.availability <= a.availability
  <2>1. Known(a.item, a.basis, a.availability) /\ Named(a.source, a.availability)
    BY DEF EvidenceBeforeJudgement, AttributionsWritten, Named
  <2>2. Known(a.item, a.basis, a.availability)'
    <3>1. \E v \in vintages' : v.item = a.item /\ v.revision = a.basis /\ v.availability <= a.availability
      BY <2>1, KnownStays
    <3> QED
      BY <3>1 DEF Known, VintagesOf
  <2>3. \E v \in identities' : v.source = a.source /\ v.availability <= a.availability
    BY <2>1, NamedStays
  <2>4. a.source \in {s.source : s \in sources'}
    BY <2>3 DEF Registers
  <2> QED
    BY <2>2, <2>3, <2>4
<1> QED
  BY <1>1, <1>2, <1>3 DEF EvidenceBeforeJudgement, JudgementsHaveEvidence, IdentitiesOf

-----------------------------------------------------------------------------
(* What passes know while others work.                                     *)

\* Numbers that were taken stay taken, by rows of the same past.
LEMMA ReservesStay ==
  ASSUME Typed', TablesGrow, NEW n \in Nat, NEW t
  PROVE  /\ \A r : Below(RelationsOf(r), n, t) => Below(RelationsOf(r)', n, t)
         /\ \A i : Below(AnnotationsOf(i), n, t) => Below(AnnotationsOf(i)', n, t)
         /\ \A s : Below(IdentitiesOf(s), n, t) =>
               /\ Below(IdentitiesOf(s)', n, t)
               /\ \A x \in IdentitiesOf(s)' : x.revision < n => x \in IdentitiesOf(s)
         /\ \A e : Below(AttributionsOf(e), n, t) =>
               /\ Below(AttributionsOf(e)', n, t)
               /\ \A x \in AttributionsOf(e)' : x.revision < n => x \in AttributionsOf(e)
<1>1. ASSUME NEW r, Below(RelationsOf(r), n, t) PROVE Below(RelationsOf(r)', n, t)
  <2>1. TypedRows(RelationsOf(r)')
    BY DEF Typed, RelationsOf, TypedRows, NewsCanonicalRelation
  <2>2. Grown(RelationsOf(r), RelationsOf(r)')
    BY DEF TablesGrow
  <2> QED
    BY <1>1, <2>1, <2>2, GrownReserves
<1>2. ASSUME NEW i, Below(AnnotationsOf(i), n, t) PROVE Below(AnnotationsOf(i)', n, t)
  <2>1. TypedRows(AnnotationsOf(i)')
    BY DEF Typed, AnnotationsOf, TypedRows, NewsSemanticAnnotation
  <2>2. Grown(AnnotationsOf(i), AnnotationsOf(i)')
    BY DEF TablesGrow
  <2> QED
    BY <1>2, <2>1, <2>2, GrownReserves
<1>3. ASSUME NEW s, Below(IdentitiesOf(s), n, t)
      PROVE  /\ Below(IdentitiesOf(s)', n, t)
             /\ \A x \in IdentitiesOf(s)' : x.revision < n => x \in IdentitiesOf(s)
  <2>1. TypedRows(IdentitiesOf(s)')
    BY DEF Typed, IdentitiesOf, TypedRows, SourceIdentity
  <2>2. Grown(IdentitiesOf(s), IdentitiesOf(s)')
    BY DEF TablesGrow
  <2> QED
    BY <1>3, <2>1, <2>2, GrownReserves
<1>4. ASSUME NEW e, Below(AttributionsOf(e), n, t)
      PROVE  /\ Below(AttributionsOf(e)', n, t)
             /\ \A x \in AttributionsOf(e)' : x.revision < n => x \in AttributionsOf(e)
  <2>1. TypedRows(AttributionsOf(e)')
    BY DEF Typed, AttributionsOf, TypedRows, SourceAttribution
  <2>2. Grown(AttributionsOf(e), AttributionsOf(e)')
    BY DEF TablesGrow
  <2> QED
    BY <1>4, <2>1, <2>2, GrownReserves
<1> QED
  BY <1>1, <1>2, <1>3, <1>4

\* A pass at rest: nothing of it changes.
Stays(v) ==
    /\ pc'[v] = pc[v] /\ job'[v] = job[v] /\ todo'[v] = todo[v] /\ held'[v] = held[v]
    /\ plan' = plan

\* A pass between reading and writing a relation knows what it knew,
LEMMA RelationKnown ==
  ASSUME Typed', TablesGrow, NEW v, Stays(v), RelationOK(v)
  PROVE  RelationOK(v)'
<1>1. Next1(v)' = Next1(v) /\ Revision(v)' = Revision(v)
  BY DEF Stays, Next1, Revision
<1>2. ASSUME NEW n \in 1..Len(todo[v])
      PROVE  /\ Known(todo[v][n].left, todo[v][n].bases[1], job[v].at)'
             /\ Known(todo[v][n].right, todo[v][n].bases[2], job[v].at)'
  <2>1. /\ Known(todo[v][n].left, todo[v][n].bases[1], job[v].at)
        /\ Known(todo[v][n].right, todo[v][n].bases[2], job[v].at)
    BY DEF RelationOK
  <2>2. \E x \in vintages' : /\ x.item = todo[v][n].left /\ x.revision = todo[v][n].bases[1]
                            /\ x.availability <= job[v].at
    BY <2>1, KnownStays
  <2>3. \E x \in vintages' : /\ x.item = todo[v][n].right /\ x.revision = todo[v][n].bases[2]
                            /\ x.availability <= job[v].at
    BY <2>1, KnownStays
  <2> QED
    BY <2>2, <2>3 DEF Known, VintagesOf, Stays
<1>3. pc[v] = "relate" => Reserved(RelationsOf(Next1(v)), v)'
  <2> SUFFICES ASSUME pc[v] = "relate" PROVE Below(RelationsOf(Next1(v)), Revision(v), job[v].at)'
    BY DEF Reserved
  <2>1. Below(RelationsOf(Next1(v)), Revision(v), job[v].at)
    BY DEF RelationOK, Reserved
  <2>2. Revision(v) \in Nat
    BY RevisionType DEF RelationOK, NewsCanonicalRelation
  <2>3. RelationsOf(Next1(v))' = {x \in relations' : x.left = Next1(v).left /\ x.right = Next1(v).right}
    BY <1>1 DEF RelationsOf
  <2>4. Below({x \in relations' : x.left = Next1(v).left /\ x.right = Next1(v).right},
              Revision(v), job[v].at)
    BY <2>1, <2>2, ReservesStay DEF RelationsOf
  <2> QED
    BY <1>1, <2>3, <2>4 DEF Stays
<1> QED
  BY <1>1, <1>2, <1>3 DEF RelationOK, Stays

\* and so does one with an annotation,
LEMMA AnnotationKnown ==
  ASSUME Typed', TablesGrow, NEW v, Stays(v), AnnotationOK(v)
  PROVE  AnnotationOK(v)'
<1>1. Next1(v)' = Next1(v) /\ Revision(v)' = Revision(v)
  BY DEF Stays, Next1, Revision
<1>2. ASSUME NEW n \in 1..Len(todo[v])
      PROVE  Known(todo[v][n].item, todo[v][n].basis, job[v].at)'
  <2>1. Known(todo[v][n].item, todo[v][n].basis, job[v].at)
    BY DEF AnnotationOK
  <2>2. \E x \in vintages' : /\ x.item = todo[v][n].item /\ x.revision = todo[v][n].basis
                            /\ x.availability <= job[v].at
    BY <2>1, KnownStays
  <2> QED
    BY <2>2 DEF Known, VintagesOf, Stays
<1>3. pc[v] # "annotation" => Reserved(AnnotationsOf(Next1(v).item), v)'
  <2> SUFFICES ASSUME pc[v] # "annotation"
               PROVE  Below(AnnotationsOf(Next1(v).item), Revision(v), job[v].at)'
    BY DEF Reserved
  <2>1. Below(AnnotationsOf(Next1(v).item), Revision(v), job[v].at)
    BY DEF AnnotationOK, Reserved
  <2>2. Revision(v) \in Nat
    BY RevisionType DEF AnnotationOK, NewsSemanticAnnotation
  <2>3. AnnotationsOf(Next1(v).item)' = {a \in annotations' : a.item = Next1(v).item}
    BY <1>1 DEF AnnotationsOf
  <2>4. Below({a \in annotations' : a.item = Next1(v).item}, Revision(v), job[v].at)
    BY <2>1, <2>2, ReservesStay DEF AnnotationsOf
  <2> QED
    BY <1>1, <2>3, <2>4 DEF Stays
<1>4. todo'[v] = todo[v] /\ held'[v] = held[v] /\ pc'[v] = pc[v]
  BY DEF Stays
<1>5. /\ todo[v] \in Seq(AnnotationTask) \ {<<>>}
      /\ held[v] = NoRow \/ held[v] \in NewsSemanticAnnotation
  BY DEF AnnotationOK
<1> HIDE DEF Stays
<1> QED
  BY <1>2, <1>3, <1>4, <1>5 DEF AnnotationOK

\* one with entries of a registry,
LEMMA EntriesKnown ==
  ASSUME TablesGrow, NEW v, Stays(v), EntriesOK(v)
  PROVE  EntriesOK(v)'
<1>1. ASSUME NEW n \in 1..Len(todo[v]), Known(todo[v][n].item, todo[v][n].basis, job[v].at)
      PROVE  Known(todo[v][n].item, todo[v][n].basis, job[v].at)'
  <2>1. \E x \in vintages' : /\ x.item = todo[v][n].item /\ x.revision = todo[v][n].basis
                            /\ x.availability <= job[v].at
    BY <1>1, KnownStays
  <2> QED
    BY <2>1 DEF Known, VintagesOf, Stays
<1>2. ASSUME NEW n \in 1..Len(todo[v]), Named(todo[v][n].source, job[v].at)
      PROVE  Named(todo[v][n].source, job[v].at)'
  BY <1>2, NamedStays DEF Named, IdentitiesOf, Stays
<1> QED
  BY <1>1, <1>2 DEF EntriesOK, Stays

\* one with an identity,
LEMMA IdentityKnown ==
  ASSUME Typed, Typed', TablesGrow, NEW v, Stays(v), IdentityOK(v)
  PROVE  IdentityOK(v)'
<1> DEFINE k == Next1(v).source
           rows == {x \in identities' : x.source = k}
<1>1. Next1(v)' = Next1(v) /\ Revision(v)' = Revision(v)
  BY DEF Stays, Next1, Revision
<1>2. IdentitiesOf(Next1(v).source)' = rows
  BY <1>1 DEF IdentitiesOf
<1>3. SourceOf(k) # {} => SourceOf(Next1(v).source)' = SourceOf(k)
  <2>1. SourceOf(k) # {} => {s \in sources' : s.source = k} = SourceOf(k)
    BY DEF TablesGrow, SourceOf
  <2> QED
    BY <1>1, <2>1 DEF SourceOf
<1>4. IdentitiesOf(k) \subseteq rows
  <2>1. \A s : IdentitiesOf(s) \subseteq {x \in identities' : x.source = s}
    BY DEF TablesGrow, Grown, IdentitiesOf
  <2> QED
    BY <2>1
<1>5. CASE pc[v] \in {"identities", "identify"}
  <2>1. held[v] \in IdentitiesOf(k) /\ Below(IdentitiesOf(k), Revision(v), job[v].at)
    BY <1>5 DEF IdentityOK, Reserved
  <2>2. Revision(v) \in Nat
    <3>1. held[v].revision \in Nat
      BY <2>1, IdentityRows DEF TypedRows
    <3> QED
      BY <3>1, RevisionType
  <2>3. /\ Below(rows, Revision(v), job[v].at)
        /\ \A x \in rows : x.revision < Revision(v) => x \in IdentitiesOf(k)
    BY <2>1, <2>2, ReservesStay DEF IdentitiesOf
  <2>4. /\ held[v] \in IdentitiesOf(k) /\ held[v].availability <= job[v].at
        /\ SourceOf(k) # {} /\ (\A s \in SourceOf(k) : s.kind = Next1(v).kind)
        /\ EntriesOK(v) /\ Next1(v).entry = "identity"
        /\ pc[v] = "identify" => \A x \in IdentitiesOf(k) :
              x.revision < Revision(v) /\ SameOrigin(x, Next1(v), job[v].more.policy)
                 => x.name = Next1(v).name
    BY <1>5 DEF IdentityOK
  <2>5. EntriesOK(v)'
    BY <2>4, EntriesKnown
  <2>6. pc[v] = "identify" => \A x \in rows :
              x.revision < Revision(v) /\ SameOrigin(x, Next1(v), job[v].more.policy)
                 => x.name = Next1(v).name
    BY <2>3, <2>4
  <2>7. held[v] \in rows
    BY <1>4, <2>4
  <2>8. Reserved(IdentitiesOf(Next1(v).source), v)'
    BY <1>1, <1>2, <2>3 DEF Reserved, Stays
  <2>9. /\ pc'[v] = pc[v] /\ job'[v] = job[v] /\ held'[v] = held[v]
        /\ SourceOf(Next1(v).source)' = SourceOf(k)
    BY <1>3, <2>4 DEF Stays
  <2> HIDE DEF rows, k
  <2> QED
    BY <1>1, <1>2, <1>5, <2>4, <2>5, <2>6, <2>7, <2>8, <2>9 DEF IdentityOK, SameOrigin
<1>6. CASE pc[v] \notin {"identities", "identify"}
  <2>1. EntriesOK(v)'
    BY EntriesKnown DEF IdentityOK
  <2> QED
    BY <1>1, <1>3, <1>6, <2>1 DEF IdentityOK, Stays
<1> QED
  BY <1>5, <1>6

\* and one with an attribution.
LEMMA AttributionKnown ==
  ASSUME Typed, Typed', TablesGrow, NEW v, Stays(v), AttributionOK(v)
  PROVE  AttributionOK(v)'
<1> DEFINE e == Next1(v)
           rows == {a \in attributions' : a.item = e.item /\ a.role = e.role}
<1>1. Next1(v)' = e /\ Revision(v)' = Revision(v)
  BY DEF Stays, Next1, Revision
<1>2. AttributionsOf(Next1(v))' = rows
  BY <1>1 DEF AttributionsOf
<1>3. AttributionsOf(e) \subseteq rows
  <2>1. \A x : AttributionsOf(x) \subseteq {a \in attributions' : a.item = x.item /\ a.role = x.role}
    BY DEF TablesGrow, Grown, AttributionsOf
  <2> QED
    BY <2>1
<1>4. EntriesOK(v)' /\ e.entry = "attribution" /\ (held[v] = NoRow \/ held[v] \in AttributionsOf(e))
  BY EntriesKnown DEF AttributionOK
<1>5. ASSUME pc[v] # "attribution"
      PROVE  /\ Below(rows, Revision(v), job[v].at)
             /\ \A x \in rows : x.revision < Revision(v) => x \in AttributionsOf(e)
  <2>1. Below(AttributionsOf(e), Revision(v), job[v].at)
    BY <1>5 DEF AttributionOK, Reserved
  <2>2. Revision(v) \in Nat
    <3>1. held[v] \in AttributionsOf(e) => held[v].revision \in Nat
      BY AttributionRows DEF TypedRows
    <3> QED
      BY <1>4, <3>1, RevisionType
  <2> QED
    BY <2>1, <2>2, ReservesStay DEF AttributionsOf
<1>6. pc[v] = "attribute" => \A a \in AttributionsOf(e) :
         a.revision < Revision(v) /\ SameGrounds(a, e, job[v].more.policy)
            => a.status = e.status /\ a.source = e.source
  BY DEF AttributionOK
<1>7. /\ pc'[v] = pc[v] /\ job'[v] = job[v] /\ held'[v] = held[v]
  BY DEF Stays
<1>8. Next1(v)'.entry = "attribution" /\ (held[v] = NoRow \/ held[v] \in rows)
  BY <1>1, <1>3, <1>4
<1>9. pc[v] # "attribution" => Reserved(AttributionsOf(Next1(v)), v)'
  BY <1>1, <1>2, <1>5, <1>7 DEF Reserved
<1>10. pc[v] = "attribute" => \A a \in rows :
          a.revision < Revision(v) /\ SameGrounds(a, e, job[v].more.policy)
             => a.status = e.status /\ a.source = e.source
  BY <1>5, <1>6
<1> HIDE DEF rows, e
<1> QED
  BY <1>1, <1>2, <1>4, <1>7, <1>8, <1>9, <1>10 DEF AttributionOK, SameGrounds, SameOrigin

\* What a pass knows outlasts what others do.
LEMMA OthersKnow ==
  ASSUME IInv, Typed', TablesGrow, NEW v \in Workers, Stays(v),
         echo' = echo \/ (pc[v] # "idle" => echo'.pass # job[v].pass)
  PROVE  CallOK(v)'
<1>1. CallOK(v) /\ Typed
  BY DEF IInv
<1>2. pc[v] \in Fetching => FetchOK(v)'
  BY <1>1 DEF CallOK, FetchOK, Stays
<1>3. pc[v] = "record" => RecordOK(v)'
  BY <1>1 DEF CallOK, RecordOK, Stays
<1>4. pc[v] \in Relating => RelationOK(v)'
  BY <1>1, RelationKnown DEF CallOK
<1>5. pc[v] \in Annotating => AnnotationOK(v)'
  BY <1>1, AnnotationKnown DEF CallOK
<1>6. pc[v] \in Identifying => IdentityOK(v)'
  BY <1>1, IdentityKnown DEF CallOK
<1>7. pc[v] \in Attributing => AttributionOK(v)'
  BY <1>1, AttributionKnown DEF CallOK
<1>8. pc[v] \notin {"idle", "record"} => echo'.pass # job[v].pass
  BY <1>1 DEF CallOK
<1>9. /\ pc[v] = "idle" => held[v] = NoRow
      /\ pc[v] = "items" => job[v].more \in Releases
      /\ pc[v] \in {"candidates"} \cup Identifying \cup Attributing => job[v].more \in Registries
  BY <1>1 DEF CallOK
<1> QED
  BY <1>2, <1>3, <1>4, <1>5, <1>6, <1>7, <1>8, <1>9 DEF CallOK, Stays

-----------------------------------------------------------------------------
(* What a pass knows after a step of its own: ingestion.                   *)

\* A pass that has ended has nothing to know.
LEMMA IdleKnows ==
  ASSUME NEW w, pc'[w] = "idle", held'[w] = NoRow
  PROVE  CallOK(w)'
  BY DEF CallOK, Fetching, Relating, Annotating, Identifying, Attributing

\* What is remembered of records is not of this pass, unless it records.
LEMMA EchoIsApart ==
  ASSUME IInv, NEW w \in Workers, Moves(w), echo' = echo, pc[w] # "record", pc'[w] # "idle"
  PROVE  echo'.pass # job'[w].pass
<1>1. CASE pc[w] = "idle"
  <2>1. job'[w].pass = made + 1 /\ echo.pass \in 0..made /\ made \in 0..plan.runs
    BY <1>1 DEF Moves, IInv, Control
  <2>2. plan.runs \in Nat
    BY PlansType DEF IInv, Control
  <2> QED
    BY <2>1, <2>2
<1>2. CASE pc[w] # "idle"
  <2>1. job'[w].pass = job[w].pass
    BY <1>2 DEF Moves, Shifts
  <2>2. echo.pass # job[w].pass
    BY <1>2 DEF IInv, CallOK
  <2> QED
    BY <2>1, <2>2
<1> QED
  BY <1>1, <1>2

\* A run starts with the first channel and no observations.
LEMMA StartIngestionKnows ==
  ASSUME IInv, NEW w \in Workers, Moves(w), StartIngestion(w)
  PROVE  CallOK(w)'
<1>1. /\ held'[w] = held[w] /\ pc[w] = "idle" /\ pc'[w] = "fetch"
      /\ job'[w] = [pass |-> made + 1, at |-> now, more |-> 1]
      /\ todo'[w] = <<>> /\ echo' = echo
  BY StartMoves DEF StartIngestion, IInv, Steps
<1>2. held[w] = NoRow
  BY <1>1 DEF IInv, CallOK
<1>3. 1 \in 1..Len(ChannelOrder)
  BY PipelineAssumption
<1>4. echo'.pass # job'[w].pass
  BY <1>1, EchoIsApart
<1>5. job'[w].more = 1
  BY <1>1
<1>6. FetchOK(w)'
  BY <1>1, <1>2, <1>3, <1>5 DEF FetchOK
<1> QED
  BY <1>1, <1>4, <1>6 DEF CallOK, Fetching, Relating, Annotating, Identifying, Attributing

\* A run whose observations contradict each other is not recorded.
LEMMA CollectKnows ==
  ASSUME IInv, NEW w \in Workers, Moves(w), pc[w] \in Fetching, echo' = echo,
         NEW all \in Seq(Fetched), Collect(w, all)
  PROVE  CallOK(w)'
<1>0. FetchOK(w) /\ pc[w] # "idle" /\ pc[w] # "record"
  BY DEF IInv, CallOK, Fetching
<1>1. CASE job[w].more < Len(ChannelOrder)
  <2>1. DOMAIN job[w] = {"pass", "at", "more"}
    BY <1>0 DEF IInv, Control
  <2>2. /\ job' = [job EXCEPT ![w] = [job[w] EXCEPT !.more = @ + 1]]
        /\ todo' = [todo EXCEPT ![w] = all] /\ held' = [held EXCEPT ![w] = NoRow]
        /\ pc' = [pc EXCEPT ![w] = "fetch"]
    BY <1>1 DEF Collect, Goto
  <2>3. /\ job'[w] = [job[w] EXCEPT !.more = @ + 1] /\ todo'[w] = all /\ held'[w] = NoRow
        /\ pc'[w] = "fetch"
    BY <2>2 DEF IInv, Control
  <2>4. job'[w].more = job[w].more + 1
    BY <2>1, <2>3
  <2>5. job'[w].more \in 1..Len(ChannelOrder)
    <3>1. job[w].more \in 1..Len(ChannelOrder) /\ Len(ChannelOrder) \in Nat
      BY <1>0, PipelineAssumption DEF FetchOK
    <3> QED
      BY <1>1, <2>4, <3>1
  <2>6. echo'.pass # job'[w].pass
    BY <1>0, <2>3, EchoIsApart
  <2>7. FetchOK(w)'
    BY <2>3, <2>5 DEF FetchOK
  <2> QED
    BY <2>3, <2>6, <2>7 DEF CallOK, Fetching, Relating, Annotating, Identifying, Attributing
<1>2. CASE ~(job[w].more < Len(ChannelOrder)) /\ RunConflict(all)
  <2>1. End(w, "CONFLICTING_DUPLICATE")
    BY <1>2 DEF Collect
  <2> QED
    BY <2>1, EndShifts, IdleKnows DEF IInv, Ends
<1>3. CASE ~(job[w].more < Len(ChannelOrder)) /\ ~RunConflict(all)
  <2>1. Continue(w, "record", Distinct(all))
    BY <1>3 DEF Collect
  <2>2. /\ held'[w] = NoRow
        /\ \/ pc'[w] = "idle"
           \/ /\ pc'[w] = "record" /\ Distinct(all) # <<>> /\ todo'[w] = Distinct(all)
              /\ job'[w] = job[w]
    BY <2>1, ContinueShifts DEF IInv, Steps
  <2>3. CASE pc'[w] = "idle"
    BY <2>2, <2>3, IdleKnows
  <2>4. CASE pc'[w] # "idle"
    <3> DEFINE S == {all[n] : n \in 1..Len(all)}
    <3>1. all \in Seq(S)
      OBVIOUS
    <3>2. Distinct(all) \in Seq(S)
      BY <3>1, DistinctStays
    <3>3. S \subseteq Fetched /\ \A o, p \in S : ~Differ(o, p)
      BY <1>3 DEF RunConflict, Conflicting
    <3> HIDE DEF S
    <3>4. Distinct(all) \in Seq(Fetched)
      BY <3>2, <3>3
    <3>5. \A m \in 1..Len(Distinct(all)) : Distinct(all)[m] \in S
      BY <3>2
    <3>6. \A m, n \in 1..Len(Distinct(all)) : ~Differ(Distinct(all)[m], Distinct(all)[n])
      BY <3>3, <3>5
    <3>7. echo'.pass # job'[w].pass
      BY <1>0, <2>4, EchoIsApart
    <3>8. RecordOK(w)'
      BY <2>2, <2>4, <3>4, <3>6, <3>7 DEF RecordOK, Differ
    <3> QED
      BY <2>2, <2>4, <3>8 DEF CallOK, Fetching, Relating, Annotating, Identifying, Attributing
  <2> QED
    BY <2>3, <2>4
<1> QED
  BY <1>1, <1>2, <1>3

\* The observations of a response are dated, and repeat none another way.
LEMMA RespondKnows ==
  ASSUME IInv, NEW w \in Workers, Moves(w), pc[w] \in Fetching, echo' = echo,
         NEW r \in Feeds[Channel(w)], NEW t \in Times, Respond(w, r, t)
  PROVE  CallOK(w)'
<1> DEFINE stamped == [m \in 1..Len(r.observations) |->
                         [item |-> r.observations[m].item, content |-> r.observations[m].content,
                          channel |-> Channel(w), at |-> t]]
           all == IF Conflicting(stamped) THEN todo[w] ELSE todo[w] \o stamped
<1>1. Channel(w) \in Channels /\ todo[w] \in Seq(Fetched)
  BY ChannelsAreConfigured DEF IInv, CallOK, FetchOK, Channel
<1>2. stamped \in Seq(Fetched)
  <2>1. /\ Len(r.observations) \in Nat
        /\ \A m \in 1..Len(r.observations) : /\ r.observations[m].item \in Nat
                                             /\ r.observations[m].content \in Contents
    BY <1>1, ResponsesType
  <2>2. \A m \in 1..Len(r.observations) :
           [item |-> r.observations[m].item, content |-> r.observations[m].content,
            channel |-> Channel(w), at |-> t] \in Fetched
    BY <1>1, <2>1 DEF Fetched
  <2>3. stamped \in [1..Len(r.observations) -> Fetched]
    BY <2>2
  <2> HIDE DEF stamped
  <2> QED
    BY <2>1, <2>3
<1> HIDE DEF stamped
<1>3. all \in Seq(Fetched)
  BY <1>1, <1>2
<1>4. CASE r.foreign
  <2>1. End(w, "SOURCE_MISMATCH")
    BY <1>4 DEF Respond
  <2> QED
    BY <2>1, EndShifts, IdleKnows DEF IInv, Ends
<1>5. CASE ~r.foreign
  <2>1. Collect(w, all)
    BY <1>5 DEF Respond, stamped
  <2> QED
    BY <1>3, <2>1, CollectKnows
<1> QED
  BY <1>4, <1>5

\* A channel that fails adds nothing.
LEMMA UnavailableKnows ==
  ASSUME IInv, NEW w \in Workers, Moves(w), pc[w] \in Fetching, echo' = echo, Unavailable(w)
  PROVE  CallOK(w)'
<1>1. todo[w] \in Seq(Fetched)
  BY DEF IInv, CallOK, FetchOK
<1> QED
  BY <1>1, CollectKnows DEF Unavailable

\* So a fetch leaves a run with observations that agree, or ends it.
LEMMA FetchKnows ==
  ASSUME IInv, NEW w \in Workers, Moves(w), Fetch(w)
  PROVE  CallOK(w)'
<1>1. pc[w] \in Fetching /\ echo' = echo /\ now \in Times
  BY DEF Fetch, Fetching, IInv, Control
<1> QED
  BY <1>1, RespondKnows, UnavailableKnows DEF Fetch

\* A request is one of the attempts there may be.
LEMMA AttemptKnows ==
  ASSUME IInv, NEW w \in Workers, Moves(w), Attempt(w)
  PROVE  CallOK(w)'
<1>1. /\ pc[w] = "fetch" /\ plan.attempts > 0 /\ pc'[w] = "report" /\ plan' = plan
      /\ job' = job /\ todo' = todo /\ echo' = echo /\ FetchOK(w) /\ now \in Times
  BY DEF Attempt, Goto, IInv, Control, CallOK, Fetching
<1>2. plan.attempts \in Nat
  BY PlansType DEF IInv, Control
<1>3. PICK reply \in Replies :
        held' = [held EXCEPT ![w] =
                   [number |-> IF @ = NoRow THEN 1 ELSE @.number + 1, reply |-> reply, at |-> now]]
  BY DEF Attempt
<1>4. held'[w] = [number |-> IF held[w] = NoRow THEN 1 ELSE held[w].number + 1,
                  reply |-> reply, at |-> now]
  BY <1>3 DEF IInv, Control
<1>5. held[w] # NoRow => held[w].number \in Nat /\ held[w].number < plan.attempts
  BY <1>1 DEF FetchOK, Request
<1>6. held'[w].number \in 1..plan.attempts
  BY <1>1, <1>2, <1>4, <1>5
<1>7. held'[w] \in Request
  BY <1>1, <1>2, <1>4, <1>5 DEF Request
<1>8. FetchOK(w)'
  BY <1>1, <1>6, <1>7 DEF FetchOK
<1>9. echo'.pass # job'[w].pass
  BY <1>1, EchoIsApart
<1> QED
  BY <1>1, <1>8, <1>9 DEF CallOK, Fetching, Relating, Annotating, Identifying, Attributing

\* Its reply is reported, and asked for again only while attempts are left.
LEMMA ReportKnows ==
  ASSUME IInv, NEW w \in Workers, Moves(w), Report(w)
  PROVE  CallOK(w)'
<1>1. /\ pc[w] = "report" /\ pc[w] \in Fetching /\ plan' = plan /\ echo' = echo
      /\ FetchOK(w) /\ held[w] \in Request /\ held[w].at \in Times
  BY DEF Report, IInv, CallOK, Fetching, FetchOK, Request
<1>2. CASE \E r \in Feeds[Channel(w)] : Respond(w, r, held[w].at)
  BY <1>1, <1>2, RespondKnows
<1>3. CASE Unavailable(w)
  BY <1>1, <1>3, UnavailableKnows
<1>4. CASE held[w].number < plan.attempts /\ Goto(w, "fetch") /\ UNCHANGED <<job, todo, held>>
  <2>1. pc'[w] = "fetch"
    BY <1>4 DEF Goto, IInv, Control
  <2>2. FetchOK(w)'
    BY <1>1, <1>4, <2>1 DEF FetchOK
  <2>3. echo'.pass # job'[w].pass
    BY <1>1, <2>1, EchoIsApart
  <2> QED
    BY <2>1, <2>2, <2>3 DEF CallOK, Fetching, Relating, Annotating, Identifying, Attributing
<1> QED
  BY <1>2, <1>3, <1>4 DEF Report

\* A run records observations that agree with those it has recorded.
LEMMA RecordKnows ==
  ASSUME IInv, NEW w \in Workers, Moves(w), Record(w)
  PROVE  CallOK(w)'
<1>1. pc[w] = "record" /\ RecordOK(w)
  BY DEF Record, IInv, CallOK
<1>2. CASE End(w, "OUT_OF_ORDER")
  BY <1>2, EndShifts, IdleKnows DEF IInv, Ends
<1>3. CASE /\ echo' = [pass |-> job[w].pass,
                       observations |-> {Next1(w)} \cup
                          (IF echo.pass = job[w].pass THEN echo.observations ELSE {})]
           /\ Continue(w, "record", Tail(todo[w]))
  <2>1. /\ held'[w] = NoRow
        /\ \/ pc'[w] = "idle"
           \/ pc'[w] = "record" /\ Tail(todo[w]) # <<>> /\ todo'[w] = Tail(todo[w]) /\ job'[w] = job[w]
    BY <1>3, ContinueShifts DEF IInv, Steps
  <2>2. CASE pc'[w] = "idle"
    BY <2>1, <2>2, IdleKnows
  <2>3. CASE pc'[w] = "record" /\ Tail(todo[w]) # <<>> /\ todo'[w] = Tail(todo[w]) /\ job'[w] = job[w]
    <3>1. todo[w] \in Seq(Fetched) /\ todo[w] # <<>>
      BY <1>1 DEF RecordOK
    <3>2. /\ todo'[w] \in Seq(Fetched) \ {<<>>} /\ Next1(w) = todo[w][1] /\ 1 \in 1..Len(todo[w])
          /\ \A n \in 1..Len(todo'[w]) : n + 1 \in 1..Len(todo[w]) /\ todo'[w][n] = todo[w][n + 1]
      BY <2>3, <3>1 DEF Next1
    <3>3. \A m, n \in 1..Len(todo[w]) : ~Differ(todo[w][m], todo[w][n])
      BY <1>1 DEF RecordOK
    <3>4. \A m, n \in 1..Len(todo'[w]) : ~Differ(todo'[w][m], todo'[w][n])
      BY <3>2, <3>3
    <3>5. ASSUME NEW o \in echo'.observations, NEW n \in 1..Len(todo'[w])
          PROVE  ~Differ(o, todo'[w][n])
      <4>1. o = Next1(w) \/ (echo.pass = job[w].pass /\ o \in echo.observations)
        BY <1>3
      <4>2. CASE o = Next1(w)
        BY <3>2, <3>3, <4>2
      <4>3. CASE echo.pass = job[w].pass /\ o \in echo.observations
        BY <1>1, <3>2, <4>3 DEF RecordOK
      <4> QED
        BY <4>1, <4>2, <4>3
    <3>6. RecordOK(w)'
      BY <3>2, <3>4, <3>5 DEF RecordOK, Differ
    <3> QED
      BY <2>1, <2>3, <3>6 DEF CallOK, Fetching, Relating, Annotating, Identifying, Attributing
  <2> QED
    BY <2>1, <2>2, <2>3
<1> QED
  BY <1>2, <1>3 DEF Record

-----------------------------------------------------------------------------
(* Canonicalization and reviews.                                           *)

\* A list in the order of its numbers is a sequence.
LEMMA FunctionsAreSequences ==
  ASSUME NEW S, NEW n \in Nat, NEW s \in [1..n -> S]
  PROVE  s \in Seq(S) /\ Len(s) = n /\ Len(s) \in Nat /\ \A m \in 1..Len(s) : s[m] \in S
  OBVIOUS

\* What is listed of an instant was known by then.
LEMMA CandidatesAreKnown ==
  ASSUME Typed, NEW t, NEW v \in Candidates(t)
  PROVE  v \in NewsItemVintage /\ Known(v.item, v.revision, t)
<1>1. v \in vintages /\ v \in Evidence(vintages, v.item, t)
  BY DEF Candidates
<1>2. v.availability <= t
  BY <1>1 DEF Evidence, EvidenceWithBackfill, Newest, KnownAt
<1> QED
  BY <1>1, <1>2 DEF Typed, Known, VintagesOf

\* What a pass has to relate.
RelationTasks(s, t) ==
    /\ s \in Seq(RelationTask) \ {<<>>}
    /\ \A n \in 1..Len(s) :
          /\ Known(s[n].left, s[n].bases[1], t) /\ Known(s[n].right, s[n].bases[2], t)
          /\ s[n].method = "AUTOMATIC" => s[n].kind = "SAME_STORY"

\* Pairs that rest on known vintages still do when others write.
LEMMA RelationTasksStay ==
  ASSUME TablesGrow, NEW s, NEW t, RelationTasks(s, t)
  PROVE  /\ s \in Seq(RelationTask) \ {<<>>}
         /\ \A n \in 1..Len(s) :
               /\ \E x \in vintages' : /\ x.item = s[n].left /\ x.revision = s[n].bases[1]
                                       /\ x.availability <= t
               /\ \E x \in vintages' : /\ x.item = s[n].right /\ x.revision = s[n].bases[2]
                                       /\ x.availability <= t
               /\ s[n].method = "AUTOMATIC" => s[n].kind = "SAME_STORY"
<1>1. ASSUME NEW n \in 1..Len(s)
      PROVE  /\ \E x \in vintages' : /\ x.item = s[n].left /\ x.revision = s[n].bases[1]
                                     /\ x.availability <= t
             /\ \E x \in vintages' : /\ x.item = s[n].right /\ x.revision = s[n].bases[2]
                                     /\ x.availability <= t
  <2>1. Known(s[n].left, s[n].bases[1], t) /\ Known(s[n].right, s[n].bases[2], t)
    BY DEF RelationTasks
  <2> QED
    BY <2>1, KnownStays
<1> QED
  BY <1>1 DEF RelationTasks

\* A pass that turns to its next pair.
LEMMA RelationNext ==
  ASSUME IInv, NEW w \in Workers, Moves(w), TablesGrow, echo' = echo, pc[w] # "record",
         NEW left, RelationTasks(left, job'[w].at), pc'[w] = "relation", todo'[w] = left,
         held'[w] = NoRow
  PROVE  CallOK(w)'
<1> DEFINE t == job'[w].at
<1>1. /\ left \in Seq(RelationTask) \ {<<>>}
      /\ \A n \in 1..Len(left) :
            /\ \E x \in vintages' : /\ x.item = left[n].left /\ x.revision = left[n].bases[1]
                                    /\ x.availability <= t
            /\ \E x \in vintages' : /\ x.item = left[n].right /\ x.revision = left[n].bases[2]
                                    /\ x.availability <= t
            /\ left[n].method = "AUTOMATIC" => left[n].kind = "SAME_STORY"
  <2> HIDE DEF t
  <2> QED
    BY RelationTasksStay DEF t
<1>2. RelationOK(w)'
  BY <1>1 DEF RelationOK, Known, VintagesOf
<1>3. echo'.pass # job'[w].pass
  BY EchoIsApart
<1> QED
  BY <1>2, <1>3 DEF CallOK, Fetching, Relating, Annotating, Identifying, Attributing

\* A pass goes on with pairs that rest on known vintages,
LEMMA RelationContinues ==
  ASSUME IInv, NEW w \in Workers, Moves(w), TablesGrow, echo' = echo, pc[w] # "record",
         NEW left, left # <<>> => RelationTasks(left, job[w].at), Continue(w, "relation", left)
  PROVE  CallOK(w)'
<1>1. /\ held'[w] = NoRow
      /\ \/ pc'[w] = "idle"
         \/ pc'[w] = "relation" /\ left # <<>> /\ todo'[w] = left /\ job'[w] = job[w]
  BY ContinueShifts DEF IInv, Steps
<1> QED
  BY <1>1, IdleKnows, RelationNext

\* also when the first of them is done with.
LEMMA RelationTail ==
  ASSUME IInv, NEW w \in Workers, Moves(w), TablesGrow, echo' = echo, pc[w] \in Relating,
         Continue(w, "relation", Tail(todo[w]))
  PROVE  CallOK(w)'
<1>1. RelationOK(w) /\ pc[w] # "record"
  BY DEF IInv, CallOK, Relating
<1>2. todo[w] \in Seq(RelationTask) /\ todo[w] # <<>>
  BY <1>1 DEF RelationOK
<1>3. /\ Tail(todo[w]) \in Seq(RelationTask)
      /\ \A n \in 1..Len(Tail(todo[w])) : /\ n + 1 \in 1..Len(todo[w])
                                          /\ Tail(todo[w])[n] = todo[w][n + 1]
  BY <1>2
<1>4. Tail(todo[w]) # <<>> => RelationTasks(Tail(todo[w]), job[w].at)
  BY <1>1, <1>3 DEF RelationOK, RelationTasks
<1> QED
  BY <1>1, <1>4, RelationContinues

\* A canonicalization starts with nothing read.
LEMMA StartCanonicalizationKnows ==
  ASSUME IInv, NEW w \in Workers, Moves(w), StartCanonicalization(w)
  PROVE  CallOK(w)'
<1>1. /\ held'[w] = held[w] /\ pc[w] = "idle" /\ pc'[w] = "pairs" /\ echo' = echo
  BY StartMoves DEF StartCanonicalization, IInv, Steps
<1>2. echo'.pass # job'[w].pass
  BY <1>1, EchoIsApart
<1> QED
  BY <1>1, <1>2 DEF CallOK, Fetching, Relating, Annotating, Identifying, Attributing

\* A review starts from two items as they stand.
LEMMA StartReviewKnows ==
  ASSUME IInv, NEW w \in Workers, Moves(w), TablesGrow, StartReview(w)
  PROVE  CallOK(w)'
<1>1. PICK verdict \in Verdicts, v \in Candidates(now), x \in Candidates(now) :
        Start(w, "review", "relation", "none",
              <<[left |-> v.item, right |-> x.item, bases |-> <<v.revision, x.revision>>,
                 kind |-> verdict.kind, method |-> "MANUAL_REVIEW"]>>)
  BY DEF StartReview
<1> DEFINE task == [left |-> v.item, right |-> x.item, bases |-> <<v.revision, x.revision>>,
                    kind |-> verdict.kind, method |-> "MANUAL_REVIEW"]
<1>2. /\ held'[w] = held[w] /\ pc[w] = "idle" /\ pc'[w] = "relation" /\ echo' = echo
      /\ job'[w] = [pass |-> made + 1, at |-> now, more |-> "none"] /\ todo'[w] = <<task>>
  <2>1. Start(w, "review", "relation", "none", <<task>>)
    BY <1>1
  <2> HIDE DEF task
  <2>2. "relation" \in Steps /\ Control
    BY DEF IInv, Steps
  <2> QED
    BY <2>1, <2>2, StartMoves
<1>3. held[w] = NoRow /\ Typed
  BY <1>2 DEF IInv, CallOK
<1>4. /\ v \in NewsItemVintage /\ Known(v.item, v.revision, now)
      /\ x \in NewsItemVintage /\ Known(x.item, x.revision, now)
  BY <1>3, CandidatesAreKnown
<1>5. verdict.kind \in RelationKinds
  BY PipelineAssumption
<1>6. task \in RelationTask
  BY <1>4, <1>5 DEF RelationTask, NewsItemVintage, RelationMethods
<1>7. /\ task.left = v.item /\ task.right = x.item /\ task.bases[1] = v.revision
      /\ task.bases[2] = x.revision /\ task.method # "AUTOMATIC"
  OBVIOUS
<1> HIDE DEF task
<1>8. RelationTasks(<<task>>, now)
  BY <1>4, <1>6, <1>7 DEF RelationTasks
<1>9. job'[w].at = now
  BY <1>2
<1> QED
  BY <1>2, <1>3, <1>8, <1>9, RelationNext

\* list_candidates_as_of lists vintages known by run_at.
LEMMA ReadPairsKnows ==
  ASSUME IInv, NEW w \in Workers, Moves(w), TablesGrow, ReadPairs(w)
  PROVE  CallOK(w)'
<1> DEFINE t == job[w].at
           found == {p \in Candidates(t) \X Candidates(t) : p[1].item < p[2].item /\ Matches(p[1], p[2])}
           Before(p, q) == \/ p[1].item < q[1].item
                           \/ p[1].item = q[1].item /\ p[2].item < q[2].item
           Task(p) == [left |-> p[1].item, right |-> p[2].item,
                       bases |-> <<p[1].revision, p[2].revision>>,
                       kind |-> "SAME_STORY", method |-> "AUTOMATIC"]
           Tasks(s) == [n \in 1..Len(s) |-> Task(s[n])]
<1>1. PICK ordered \in InOrder(found, Before) : Continue(w, "relation", Tasks(ordered))
  BY DEF ReadPairs
<1>2. pc[w] # "record" /\ echo' = echo /\ Typed
  BY DEF ReadPairs, IInv
<1>3. Cardinality(found) \in Nat
  <2>1. Candidates(t) \subseteq vintages
    BY DEF Candidates
  <2>2. IsFiniteSet(Candidates(t))
    BY <1>2, <2>1, FS_Subset DEF Typed
  <2>3. IsFiniteSet(Candidates(t) \X Candidates(t))
    BY <2>2, FS_Product
  <2>4. IsFiniteSet(found)
    <3>1. found \subseteq Candidates(t) \X Candidates(t)
      OBVIOUS
    <3> HIDE DEF found
    <3> QED
      BY <2>3, <3>1, FS_Subset
  <2> HIDE DEF found
  <2> QED
    BY <2>4, FS_CardinalityType
<1>4. ASSUME NEW p \in found
      PROVE  /\ Task(p) \in RelationTask /\ Task(p).kind = "SAME_STORY"
             /\ Known(Task(p).left, Task(p).bases[1], t) /\ Known(Task(p).right, Task(p).bases[2], t)
  <2>1. p[1] \in Candidates(t) /\ p[2] \in Candidates(t)
    OBVIOUS
  <2>2. /\ p[1] \in NewsItemVintage /\ Known(p[1].item, p[1].revision, t)
        /\ p[2] \in NewsItemVintage /\ Known(p[2].item, p[2].revision, t)
    BY <1>2, <2>1, CandidatesAreKnown
  <2>3. Task(p) \in RelationTask
    BY <2>2 DEF RelationTask, NewsItemVintage, RelationKinds, RelationMethods
  <2>4. /\ Task(p).left = p[1].item /\ Task(p).bases[1] = p[1].revision
        /\ Task(p).right = p[2].item /\ Task(p).bases[2] = p[2].revision
        /\ Task(p).kind = "SAME_STORY"
    OBVIOUS
  <2> HIDE DEF Task, found
  <2> QED
    BY <2>2, <2>3, <2>4
<1>5. ordered \in [1..Cardinality(found) -> found]
  <2> HIDE DEF found, Before
  <2> QED
    BY DEF InOrder
<1> HIDE DEF found, Task
<1>6. Len(ordered) \in Nat /\ \A n \in 1..Len(ordered) : ordered[n] \in found
  BY <1>3, <1>5, FunctionsAreSequences
<1>7. Tasks(ordered) # <<>> => RelationTasks(Tasks(ordered), t)
  <2>1. Tasks(ordered) \in [1..Len(ordered) -> RelationTask]
    BY <1>4, <1>6
  <2>2. \A n \in 1..Len(ordered) : Tasks(ordered)[n] = Task(ordered[n])
    OBVIOUS
  <2> HIDE DEF Tasks
  <2>3. /\ Tasks(ordered) \in Seq(RelationTask) /\ Len(Tasks(ordered)) = Len(ordered)
        /\ \A n \in 1..Len(ordered) : Tasks(ordered)[n] = Task(ordered[n])
    BY <1>6, <2>1, <2>2, FunctionsAreSequences
  <2>4. ASSUME NEW n \in 1..Len(Tasks(ordered))
        PROVE  /\ Tasks(ordered)[n].kind = "SAME_STORY"
               /\ Known(Tasks(ordered)[n].left, Tasks(ordered)[n].bases[1], t)
               /\ Known(Tasks(ordered)[n].right, Tasks(ordered)[n].bases[2], t)
    <3>1. ordered[n] \in found /\ Tasks(ordered)[n] = Task(ordered[n])
      BY <1>6, <2>3
    <3> QED
      BY <1>4, <3>1
  <2> QED
    BY <2>3, <2>4 DEF RelationTasks
<1> HIDE DEF Tasks
<1> QED
  BY <1>1, <1>2, <1>7, RelationContinues

\* Whoever goes on from reading the pair's latest relation knows the numbers
\* up to it to be taken.
LEMMA ReadRelationKnows ==
  ASSUME IInv, NEW w \in Workers, Moves(w), TablesGrow, ReadRelation(w)
  PROVE  CallOK(w)'
<1> DEFINE r == Next1(w)
           rows == RelationsOf(r)
<1>1. /\ pc[w] = "relation" /\ pc[w] \in Relating /\ RelationOK(w) /\ held[w] = NoRow
      /\ echo' = echo /\ relations' = relations /\ vintages' = vintages /\ Typed /\ Histories
      /\ job[w].at \in Times
  BY DEF ReadRelation, IInv, CallOK, Relating, RelationOK, tables, Control
<1>2. /\ todo[w] \in Seq(RelationTask) /\ todo[w] # <<>>
      /\ r = todo[w][1] /\ 1 \in 1..Len(todo[w])
  BY <1>1 DEF RelationOK, Next1
<1>3. r \in RelationTask /\ (r.method = "AUTOMATIC" => r.kind = "SAME_STORY")
  BY <1>1, <1>2 DEF RelationOK
<1>4. TypedRows(rows) /\ Numbered(rows)
  BY <1>1, <1>3, RelationRows, RelationHistory DEF RelationTask
<1> HIDE DEF r
<1>5. ASSUME pc'[w] = "relate", UNCHANGED <<job, todo>>,
             held'[w] = NoRow \/ held'[w] \in NewsCanonicalRelation,
             r.method = "AUTOMATIC" => held'[w] = NoRow,
             Below(rows, IF held'[w] = NoRow THEN 0 ELSE held'[w].revision + 1, job[w].at)
      PROVE  CallOK(w)'
  <2>1. Next1(w)' = r /\ RelationsOf(Next1(w))' = rows
    BY <1>1, <1>5 DEF Next1, RelationsOf, r
  <2>2. Reserved(RelationsOf(Next1(w)), w)'
    <3> HIDE DEF rows
    <3> QED
      BY <1>5, <2>1 DEF Reserved, Revision
  <2>3. RelationOK(w)'
    BY <1>1, <1>5, <2>1, <2>2 DEF RelationOK, Known, VintagesOf
  <2>4. echo'.pass # job'[w].pass
    BY <1>1, <1>5, EchoIsApart
  <2> QED
    BY <1>5, <2>3, <2>4 DEF CallOK, Fetching, Relating, Annotating, Identifying, Attributing
<1>6. CASE Newest(rows) = {} /\ Goto(w, "relate") /\ UNCHANGED <<job, todo, held>>
  <2>1. pc'[w] = "relate"
    BY <1>6 DEF Goto, IInv, Control
  <2>2. Below(rows, 0, job[w].at)
    BY <1>4, NothingIsBelowZero
  <2> QED
    BY <1>1, <1>5, <1>6, <2>1, <2>2
<1>7. CASE End(w, "OUT_OF_ORDER")
  BY <1>7, EndShifts, IdleKnows DEF IInv, Ends
<1>8. CASE Continue(w, "relation", Tail(todo[w]))
  BY <1>1, <1>8, RelationTail
<1>9. ASSUME NEW l \in Newest(rows), job[w].at >= l.availability, ~Blocked(l, r), l.kind # r.kind,
             held' = [held EXCEPT ![w] = l], Goto(w, "relate"), UNCHANGED <<job, todo>>
      PROVE  CallOK(w)'
  <2>1. pc'[w] = "relate" /\ held'[w] = l
    BY <1>9 DEF Goto, IInv, Control
  <2>2. l \in rows /\ l \in NewsCanonicalRelation
    BY <1>1 DEF Newest, RelationsOf, Typed
  <2>3. r.method # "AUTOMATIC"
    BY <1>3, <1>9, <2>2 DEF Blocked, NewsCanonicalRelation, RelationKinds
  <2>4. l.revision + 1 \in Nat /\ Below(rows, l.revision + 1, job[w].at)
    <3> HIDE DEF rows
    <3> QED
      BY <1>1, <1>4, <1>9, LatestReserves
  <2>5. l # NoRow
    BY <2>2, PipelineAssumption
  <2> QED
    BY <1>5, <1>9, <2>1, <2>2, <2>3, <2>4, <2>5
<1> QED
  BY <1>6, <1>7, <1>8, <1>9 DEF ReadRelation, r

\* A pass whose relation is written, or refused, goes on with the rest.
LEMMA AddRelationKnows ==
  ASSUME IInv, NEW w \in Workers, Moves(w), TablesGrow, AddRelation(w)
  PROVE  CallOK(w)'
<1>1. pc[w] \in Relating /\ echo' = echo
  BY DEF AddRelation, Relating
<1>2. End(w, "RELATION_CONFLICT") \/ Continue(w, "relation", Tail(todo[w]))
  BY DEF AddRelation
<1> QED
  BY <1>1, <1>2, EndShifts, IdleKnows, RelationTail DEF IInv, Ends

-----------------------------------------------------------------------------
(* Classification.                                                         *)

\* What a pass has to annotate.
AnnotationTasks(s, t) ==
    /\ s \in Seq(AnnotationTask) \ {<<>>}
    /\ \A n \in 1..Len(s) : Known(s[n].item, s[n].basis, t)

\* Items whose vintages are known stay so when others write.
LEMMA AnnotationTasksStay ==
  ASSUME TablesGrow, NEW s, NEW t, AnnotationTasks(s, t)
  PROVE  /\ s \in Seq(AnnotationTask) \ {<<>>}
         /\ \A n \in 1..Len(s) : \E x \in vintages' : /\ x.item = s[n].item /\ x.revision = s[n].basis
                                                      /\ x.availability <= t
<1>1. ASSUME NEW n \in 1..Len(s)
      PROVE  \E x \in vintages' : /\ x.item = s[n].item /\ x.revision = s[n].basis
                                  /\ x.availability <= t
  <2>1. Known(s[n].item, s[n].basis, t)
    BY DEF AnnotationTasks
  <2> QED
    BY <2>1, KnownStays
<1> QED
  BY <1>1 DEF AnnotationTasks

\* A pass goes on with items whose vintages are known,
LEMMA AnnotationContinues ==
  ASSUME IInv, NEW w \in Workers, Moves(w), TablesGrow, echo' = echo, pc[w] # "record",
         NEW left, left # <<>> => AnnotationTasks(left, job[w].at), Continue(w, "annotation", left)
  PROVE  CallOK(w)'
<1>1. /\ held'[w] = NoRow
      /\ \/ pc'[w] = "idle"
         \/ pc'[w] = "annotation" /\ left # <<>> /\ todo'[w] = left /\ job'[w] = job[w]
  BY ContinueShifts DEF IInv, Steps
<1>2. CASE pc'[w] = "idle"
  BY <1>1, <1>2, IdleKnows
<1>3. CASE pc'[w] = "annotation" /\ left # <<>> /\ todo'[w] = left /\ job'[w] = job[w]
  <2> DEFINE t == job[w].at
  <2>1. /\ left \in Seq(AnnotationTask) \ {<<>>}
        /\ \A n \in 1..Len(left) :
              \E x \in vintages' : /\ x.item = left[n].item /\ x.revision = left[n].basis
                                   /\ x.availability <= t
    <3> HIDE DEF t
    <3> QED
      BY <1>3, AnnotationTasksStay DEF t
  <2>2. AnnotationOK(w)'
    BY <1>1, <1>3, <2>1 DEF AnnotationOK, Known, VintagesOf
  <2>3. echo'.pass # job'[w].pass
    BY <1>3, EchoIsApart
  <2> QED
    BY <1>3, <2>2, <2>3 DEF CallOK, Fetching, Relating, Annotating, Identifying, Attributing
<1> QED
  BY <1>1, <1>2, <1>3

\* also when the first of them is done with.
LEMMA AnnotationTail ==
  ASSUME IInv, NEW w \in Workers, Moves(w), TablesGrow, echo' = echo, pc[w] \in Annotating,
         Continue(w, "annotation", Tail(todo[w]))
  PROVE  CallOK(w)'
<1>1. AnnotationOK(w) /\ pc[w] # "record"
  BY DEF IInv, CallOK, Annotating
<1>2. todo[w] \in Seq(AnnotationTask) /\ todo[w] # <<>>
  BY <1>1 DEF AnnotationOK
<1>3. /\ Tail(todo[w]) \in Seq(AnnotationTask)
      /\ \A n \in 1..Len(Tail(todo[w])) : /\ n + 1 \in 1..Len(todo[w])
                                          /\ Tail(todo[w])[n] = todo[w][n + 1]
  BY <1>2
<1>4. Tail(todo[w]) # <<>> => AnnotationTasks(Tail(todo[w]), job[w].at)
  BY <1>1, <1>3 DEF AnnotationOK, AnnotationTasks
<1> QED
  BY <1>1, <1>4, AnnotationContinues

\* A classification starts with a release and nothing read.
LEMMA StartClassificationKnows ==
  ASSUME IInv, NEW w \in Workers, Moves(w), StartClassification(w)
  PROVE  CallOK(w)'
<1>1. PICK release \in Releases : Start(w, "classification", "items", release, <<>>)
  BY DEF StartClassification
<1>2. /\ held'[w] = held[w] /\ pc[w] = "idle" /\ pc'[w] = "items" /\ echo' = echo
      /\ job'[w] = [pass |-> made + 1, at |-> now, more |-> release]
  BY <1>1, StartMoves DEF IInv, Steps
<1>3. job'[w].more = release
  BY <1>2
<1>4. echo'.pass # job'[w].pass
  BY <1>2, EchoIsApart
<1> QED
  BY <1>2, <1>3, <1>4 DEF CallOK, Fetching, Relating, Annotating, Identifying, Attributing

\* It lists vintages known by run_at.
LEMMA ReadItemsKnows ==
  ASSUME IInv, NEW w \in Workers, Moves(w), TablesGrow, ReadItems(w)
  PROVE  CallOK(w)'
<1> DEFINE t == job[w].at
           release == job[w].more
           C == Candidates(t)
           Task(v) == [item |-> v.item, basis |-> v.revision, version |-> release.version,
                       currencies |-> v.content.currencies \ release.overlooks]
           Tasks(s) == [n \in 1..Len(s) |-> Task(s[n])]
<1>1. PICK ordered : /\ ordered \in [1..Cardinality(C) -> C]
                     /\ Continue(w, "annotation", Tasks(ordered))
  BY DEF ReadItems, InOrder
<1>2. pc[w] # "record" /\ echo' = echo /\ Typed /\ release \in Releases
  BY DEF ReadItems, IInv, CallOK
<1>3. Cardinality(C) \in Nat
  <2>1. C \subseteq vintages
    BY DEF Candidates
  <2> HIDE DEF C
  <2> QED
    BY <1>2, <2>1, FS_Subset, FS_CardinalityType DEF Typed
<1>4. release.version \in STRING
  <2>1. release \in [version : STRING, overlooks : SUBSET STRING]
    BY <1>2, PipelineAssumption
  <2> QED
    BY <2>1
<1>5. ASSUME NEW v \in C PROVE Task(v) \in AnnotationTask /\ Known(Task(v).item, Task(v).basis, t)
  <2>1. v \in NewsItemVintage /\ Known(v.item, v.revision, t)
    BY <1>2, CandidatesAreKnown
  <2>2. v.item \in Nat /\ v.revision \in Nat /\ v.content \in NewsContent
    BY <2>1, ContentsType DEF NewsItemVintage
  <2>3. v.content.currencies \in SUBSET STRING
    BY <2>2 DEF NewsContent
  <2>4. Task(v) \in AnnotationTask
    BY <1>4, <2>2, <2>3 DEF AnnotationTask
  <2>5. Task(v).item = v.item /\ Task(v).basis = v.revision
    OBVIOUS
  <2> HIDE DEF Task
  <2> QED
    BY <2>1, <2>4, <2>5
<1> HIDE DEF C, Task
<1>6. Len(ordered) \in Nat /\ \A n \in 1..Len(ordered) : ordered[n] \in C
  BY <1>1, <1>3, FunctionsAreSequences
<1>7. Tasks(ordered) # <<>> => AnnotationTasks(Tasks(ordered), t)
  <2>1. Tasks(ordered) \in [1..Len(ordered) -> AnnotationTask]
    BY <1>5, <1>6
  <2>2. \A n \in 1..Len(ordered) : Tasks(ordered)[n] = Task(ordered[n])
    OBVIOUS
  <2> HIDE DEF Tasks
  <2>3. /\ Tasks(ordered) \in Seq(AnnotationTask) /\ Len(Tasks(ordered)) = Len(ordered)
    BY <1>6, <2>1, FunctionsAreSequences
  <2> QED
    BY <1>5, <1>6, <2>2, <2>3 DEF AnnotationTasks
<1> HIDE DEF Tasks
<1> QED
  BY <1>1, <1>2, <1>7, AnnotationContinues

\* Whoever goes on from reading the item's latest annotation knows the
\* numbers up to it to be taken,
LEMMA ReadAnnotationKnows ==
  ASSUME IInv, NEW w \in Workers, Moves(w), ReadAnnotation(w)
  PROVE  CallOK(w)'
<1> DEFINE i == Next1(w).item
           rows == AnnotationsOf(i)
<1>1. /\ pc[w] = "annotation" /\ AnnotationOK(w) /\ echo' = echo
      /\ annotations' = annotations /\ vintages' = vintages /\ Typed /\ Histories
      /\ job[w].at \in Times
  BY DEF ReadAnnotation, IInv, CallOK, Annotating, tables, Control
<1>2. Next1(w) \in AnnotationTask
  BY <1>1 DEF AnnotationOK, Next1
<1>3. i \in Nat
  BY <1>2 DEF AnnotationTask
<1>4. TypedRows(rows) /\ Numbered(rows)
  BY <1>1, <1>3, AnnotationRows DEF Histories
<1> HIDE DEF i
<1>5. CASE End(w, "OUT_OF_ORDER")
  BY <1>5, EndShifts, IdleKnows DEF IInv, Ends
<1>6. CASE /\ ~\E l \in Newest(rows) : job[w].at < l.availability
           /\ held' = [held EXCEPT ![w] = IF Newest(rows) = {} THEN NoRow
                                          ELSE CHOOSE l \in Newest(rows) : TRUE]
           /\ Goto(w, "history") /\ UNCHANGED <<job, todo>>
  <2> DEFINE l == CHOOSE x \in Newest(rows) : TRUE
  <2>1. /\ pc'[w] = "history" /\ held'[w] = IF Newest(rows) = {} THEN NoRow ELSE l
    BY <1>6 DEF Goto, IInv, Control
  <2>2. Newest(rows) # {} => l \in Newest(rows)
    OBVIOUS
  <2> HIDE DEF l
  <2>3. Newest(rows) # {} => l \in rows /\ l \in NewsSemanticAnnotation
    BY <1>1, <2>2 DEF Newest, AnnotationsOf, Typed
  <2>4. /\ held'[w] = NoRow \/ held'[w] \in NewsSemanticAnnotation
        /\ Below(rows, IF held'[w] = NoRow THEN 0 ELSE held'[w].revision + 1, job[w].at)
    <3>1. CASE Newest(rows) = {}
      <4>1. Below(rows, 0, job[w].at)
        BY <1>4, NothingIsBelowZero
      <4> QED
        BY <2>1, <3>1, <4>1
    <3>2. CASE Newest(rows) # {}
      <4>1. job[w].at \in Nat /\ l.availability \in Nat
        BY <1>1, <1>4, <2>3, <3>2, TimesAreNumbers DEF TypedRows
      <4>2. job[w].at >= l.availability
        BY <1>6, <2>2, <3>2, <4>1
      <4>3. Below(rows, l.revision + 1, job[w].at)
        <5> HIDE DEF rows
        <5> QED
          BY <1>1, <1>4, <2>2, <3>2, <4>2, LatestReserves
      <4>4. l # NoRow
        BY <2>3, <3>2, PipelineAssumption
      <4> QED
        BY <2>1, <2>3, <3>2, <4>3, <4>4
    <3> QED
      BY <3>1, <3>2
  <2>5. Next1(w)' = Next1(w) /\ AnnotationsOf(Next1(w).item)' = rows
    BY <1>1, <1>6 DEF Next1, AnnotationsOf, i
  <2>6. Reserved(AnnotationsOf(Next1(w).item), w)'
    <3> HIDE DEF rows
    <3> QED
      BY <1>6, <2>4, <2>5 DEF Reserved, Revision
  <2>7. AnnotationOK(w)'
    BY <1>1, <1>6, <2>4, <2>6 DEF AnnotationOK, Known, VintagesOf
  <2>8. echo'.pass # job'[w].pass
    BY <1>1, <2>1, EchoIsApart
  <2> QED
    BY <2>1, <2>7, <2>8 DEF CallOK, Fetching, Relating, Annotating, Identifying, Attributing
<1> QED
  BY <1>5, <1>6 DEF ReadAnnotation, i

\* which reading the whole history after it does not change.
LEMMA ReadHistoryKnows ==
  ASSUME IInv, NEW w \in Workers, Moves(w), TablesGrow, ReadHistory(w)
  PROVE  CallOK(w)'
<1>1. /\ pc[w] = "history" /\ AnnotationOK(w) /\ pc[w] \in Annotating /\ echo' = echo
      /\ annotations' = annotations /\ vintages' = vintages
  BY DEF ReadHistory, IInv, CallOK, Annotating, tables
<1>2. CASE End(w, "DETERMINISM")
  BY <1>2, EndShifts, IdleKnows DEF IInv, Ends
<1>3. CASE Continue(w, "annotation", Tail(todo[w]))
  BY <1>1, <1>3, AnnotationTail
<1>4. CASE Goto(w, "annotate") /\ UNCHANGED <<job, todo, held>>
  <2>1. pc'[w] = "annotate"
    BY <1>4 DEF Goto, IInv, Control
  <2>2. AnnotationOK(w)'
    BY <1>1, <1>4, <2>1 DEF AnnotationOK, Known, VintagesOf, Reserved, Revision, AnnotationsOf, Next1
  <2>3. echo'.pass # job'[w].pass
    BY <1>1, <2>1, EchoIsApart
  <2> QED
    BY <2>1, <2>2, <2>3 DEF CallOK, Fetching, Relating, Annotating, Identifying, Attributing
<1> QED
  BY <1>2, <1>3, <1>4 DEF ReadHistory

\* A pass whose annotation is written, or refused, goes on with the rest.
LEMMA AddAnnotationKnows ==
  ASSUME IInv, NEW w \in Workers, Moves(w), TablesGrow, AddAnnotation(w)
  PROVE  CallOK(w)'
<1>1. pc[w] \in Annotating /\ echo' = echo
  BY DEF AddAnnotation, Annotating
<1>2. End(w, "ANNOTATION_CONFLICT") \/ Continue(w, "annotation", Tail(todo[w]))
  BY DEF AddAnnotation
<1> QED
  BY <1>1, <1>2, EndShifts, IdleKnows, AnnotationTail DEF IInv, Ends

-----------------------------------------------------------------------------
(* A bootstrap's entries.                                                  *)

\* An entry that may follow those before it.
Grounded(s, n, t) ==
    s[n].entry = "attribution" =>
       /\ Known(s[n].item, s[n].basis, t)
       /\ \/ Named(s[n].source, t)
          \/ \E m \in 1..(n - 1) : s[m].entry = "identity" /\ s[m].source = s[n].source

Groundeds(t) == {s \in Seq(Registered) : \A n \in 1..Len(s) : Grounded(s, n, t)}

\* Entries in order are a grounded sequence, that is, one in which names
\* precede attributions.
LEMMA GroundedsAreEntries ==
  ASSUME NEW w
  PROVE  EntriesOK(w) <=> todo[w] \in Groundeds(job[w].at) /\ todo[w] # <<>>
  BY DEF EntriesOK, Groundeds, Grounded

\* Two grounded sequences joined are grounded.
LEMMA GroundedsJoin ==
  ASSUME NEW t, NEW a \in Groundeds(t), NEW b \in Groundeds(t)
  PROVE  a \o b \in Groundeds(t)
<1>1. a \in Seq(Registered) /\ b \in Seq(Registered)
  BY DEF Groundeds
<1>2. /\ a \o b \in Seq(Registered) /\ Len(a \o b) = Len(a) + Len(b)
      /\ \A n \in 1..Len(a) : (a \o b)[n] = a[n]
      /\ \A n \in 1..Len(b) : (a \o b)[Len(a) + n] = b[n]
  BY <1>1
<1>3. Len(a) \in Nat /\ Len(b) \in Nat
  BY <1>1
<1> DEFINE c == a \o b
<1> HIDE DEF c
<1>4. ASSUME NEW n \in 1..Len(c), c[n].entry = "attribution"
      PROVE  /\ Known(c[n].item, c[n].basis, t)
             /\ \/ Named(c[n].source, t)
                \/ \E m \in 1..(n - 1) : c[m].entry = "identity" /\ c[m].source = c[n].source
  <2>1. CASE n \in 1..Len(a)
    <3>1. c[n] = a[n] /\ Grounded(a, n, t)
      BY <1>2, <2>1 DEF c, Groundeds
    <3>2. \A m \in 1..(n - 1) : c[m] = a[m]
      BY <1>2, <1>3, <2>1 DEF c
    <3> QED
      BY <1>4, <3>1, <3>2 DEF Grounded
  <2>2. CASE n \notin 1..Len(a)
    <3> DEFINE k == n - Len(a)
    <3>1. k \in 1..Len(b) /\ n = Len(a) + k
      BY <1>2, <1>3, <2>2 DEF c
    <3>2. c[n] = b[k] /\ Grounded(b, k, t)
      BY <1>2, <3>1 DEF c, Groundeds
    <3>3. \A m \in 1..(k - 1) : Len(a) + m \in 1..(n - 1) /\ c[Len(a) + m] = b[m]
      BY <1>2, <1>3, <3>1 DEF c
    <3> HIDE DEF k
    <3> QED
      BY <1>4, <3>2, <3>3 DEF Grounded
  <2> QED
    BY <2>1, <2>2
<1> QED
  BY <1>2, <1>4 DEF Groundeds, Grounded, c

\* What one mapping gives is grounded.
LEMMA EntriesAreGrounded ==
  ASSUME NEW t, NEW m \in FeedMapping, NEW found, Len(found) \in Nat,
         \A n \in 1..Len(found) :
            found[n] \in NewsItemVintage /\ Known(found[n].item, found[n].revision, t)
  PROVE  Entries(m, found) \in Groundeds(t) /\ Entries(m, found) # <<>>
<1> DEFINE e1 == IdentityEntry(m.feed, "TECHNICAL_FEED", m.feedName, <<m.feed>>)
           e2 == IdentityEntry(m.organization, "ORGANIZATION", m.organizationName,
                               <<m.organization, m.feed>>)
           rest == IF m.feed # Feed THEN <<>>
                   ELSE [n \in 1..Len(found) |-> AttributionEntry(found[n], m)]
<1>1. /\ m.feed \in STRING /\ m.feedName \in STRING /\ m.organization \in STRING
      /\ m.organizationName \in STRING
  BY DEF FeedMapping
<1>2. /\ e1 \in IdentityTask /\ e2 \in IdentityTask
      /\ e2.source = m.organization /\ e1.entry = "identity" /\ e2.entry = "identity"
  BY <1>1 DEF IdentityEntry, IdentityTask, Kinds
<1>3. ASSUME NEW n \in 1..Len(found)
      PROVE  /\ AttributionEntry(found[n], m) \in AttributionTask
             /\ AttributionEntry(found[n], m).source = m.organization
             /\ AttributionEntry(found[n], m).item = found[n].item
             /\ AttributionEntry(found[n], m).basis = found[n].revision
  <2>1. found[n].item \in Nat /\ found[n].revision \in Nat
    BY DEF NewsItemVintage
  <2> QED
    BY <1>1, <2>1 DEF AttributionEntry, AttributionTask, Roles
<1>4. rest \in Seq(Registered) /\ \A n \in 1..Len(rest) :
         /\ rest[n].source = m.organization
         /\ Known(rest[n].item, rest[n].basis, t)
  <2>1. CASE m.feed # Feed
    BY <2>1
  <2>2. CASE m.feed = Feed
    <3> DEFINE s == [n \in 1..Len(found) |-> AttributionEntry(found[n], m)]
    <3>1. s \in [1..Len(found) -> Registered]
      BY <1>3 DEF Registered
    <3>2. \A n \in 1..Len(found) : s[n] = AttributionEntry(found[n], m)
      OBVIOUS
    <3>3. rest = s
      BY <2>2
    <3> HIDE DEF s, rest
    <3>4. s \in Seq(Registered) /\ Len(s) = Len(found)
      BY <3>1, FunctionsAreSequences
    <3> QED
      BY <1>3, <3>2, <3>3, <3>4
  <2> QED
    BY <2>1, <2>2
<1> DEFINE c == <<e1, e2>> \o rest
<1>5. c = Entries(m, found)
  BY DEF Entries
<1> HIDE DEF e1, e2, rest
<1>6. e1 \in Registered /\ e2 \in Registered
  BY <1>2 DEF Registered
<1>7. /\ c \in Seq(Registered) /\ Len(c) = 2 + Len(rest) /\ c[1] = e1 /\ c[2] = e2
      /\ \A n \in 1..Len(rest) : c[n + 2] = rest[n]
      /\ Len(rest) \in Nat
  BY <1>4, <1>6
<1> HIDE DEF c
<1>8. ASSUME NEW n \in 1..Len(c) PROVE Grounded(c, n, t)
  <2>1. CASE n = 1 \/ n = 2
    BY <1>2, <1>7, <2>1 DEF Grounded
  <2>2. CASE n > 2
    <3>1. n - 2 \in 1..Len(rest) /\ c[n] = rest[n - 2]
      <4>1. n - 2 \in 1..Len(rest) /\ (n - 2) + 2 = n
        BY <1>7, <2>2
      <4> QED
        BY <1>7, <4>1
    <3>2. c[n].source = m.organization /\ Known(c[n].item, c[n].basis, t)
      BY <1>4, <3>1
    <3>3. 2 \in 1..(n - 1)
      BY <2>2
    <3> QED
      BY <1>2, <1>7, <3>2, <3>3 DEF Grounded
  <2> QED
    BY <2>1, <2>2
<1>9. c # <<>>
  BY <1>7
<1> QED
  BY <1>5, <1>7, <1>8, <1>9 DEF Groundeds

\* What is grounded stays so.
LEMMA GroundedsStay ==
  ASSUME TablesGrow, NEW t, NEW s \in Groundeds(t)
  PROVE  s \in Groundeds(t)'
<1>1. s \in Seq(Registered)
  BY DEF Groundeds
<1>2. ASSUME NEW n \in 1..Len(s), s[n].entry = "attribution"
      PROVE  /\ Known(s[n].item, s[n].basis, t)'
             /\ \/ Named(s[n].source, t)'
                \/ \E m \in 1..(n - 1) : s[m].entry = "identity" /\ s[m].source = s[n].source
  <2>1. /\ Known(s[n].item, s[n].basis, t)
        /\ \/ Named(s[n].source, t)
           \/ \E m \in 1..(n - 1) : s[m].entry = "identity" /\ s[m].source = s[n].source
    BY <1>2 DEF Groundeds, Grounded
  <2>2. Known(s[n].item, s[n].basis, t)'
    <3>1. \E x \in vintages' : /\ x.item = s[n].item /\ x.revision = s[n].basis
                              /\ x.availability <= t
      BY <2>1, KnownStays
    <3> QED
      BY <3>1 DEF Known, VintagesOf
  <2>3. Named(s[n].source, t) => Named(s[n].source, t)'
    BY NamedStays DEF Named, IdentitiesOf
  <2> QED
    BY <2>1, <2>2, <2>3
<1> QED
  BY <1>1, <1>2 DEF Groundeds, Grounded

-----------------------------------------------------------------------------
(* Bootstraps.                                                             *)

\* A bootstrap goes on with a grounded rest.
LEMMA ResumeKnows ==
  ASSUME IInv, NEW w \in Workers, Moves(w), echo' = echo, pc[w] \notin {"idle", "record"},
         job[w].more \in Registries, NEW t, t = job[w].at,
         NEW left, left # <<>> => left \in Groundeds(t)', Resume(w, left)
  PROVE  CallOK(w)'
<1> DEFINE step == IF Head(left).entry = "attribution" THEN "attribution" ELSE "source"
<1>1. /\ held'[w] = NoRow
      /\ \/ pc'[w] = "idle"
         \/ pc'[w] = step /\ left # <<>> /\ todo'[w] = left /\ job'[w] = job[w]
  BY ResumeShifts DEF IInv
<1>2. CASE pc'[w] = "idle"
  BY <1>1, <1>2, IdleKnows
<1>3. CASE pc'[w] # "idle"
  <2>1. /\ pc'[w] = step /\ left # <<>> /\ todo'[w] = left /\ job'[w] = job[w]
        /\ t = job'[w].at
    BY <1>1, <1>3
  <2>2. left \in Seq(Registered) /\ left # <<>>
    BY <2>1 DEF Groundeds
  <2>3. Head(left) \in Registered
    BY <2>2
  <2>4. Head(left).entry \in {"identity", "attribution"}
    BY <2>3 DEF Registered, IdentityTask, AttributionTask
  <2>5. EntriesOK(w)'
    <3>1. left \in Groundeds(t)'
      BY <2>1
    <3> QED
      BY <2>1, <3>1 DEF EntriesOK, Groundeds, Grounded, Known, VintagesOf, Named, IdentitiesOf
  <2>6. Next1(w)' = Head(left)
    BY <2>1 DEF Next1
  <2>7. echo'.pass # job'[w].pass
    BY <1>3, EchoIsApart
  <2>8. CASE step = "attribution"
    <3>1. Head(left).entry = "attribution"
      BY <2>8
    <3>2. AttributionOK(w)'
      BY <1>1, <2>1, <2>5, <2>6, <2>8, <3>1 DEF AttributionOK
    <3> HIDE DEF step
    <3> QED
      BY <2>1, <2>7, <2>8, <3>2 DEF CallOK, Fetching, Relating, Annotating, Identifying, Attributing
  <2>9. CASE step = "source"
    <3>1. Head(left).entry = "identity"
      BY <2>4, <2>9
    <3>2. IdentityOK(w)'
      BY <1>1, <2>1, <2>5, <2>6, <2>9, <3>1 DEF IdentityOK
    <3> HIDE DEF step
    <3> QED
      BY <2>1, <2>7, <2>9, <3>2 DEF CallOK, Fetching, Relating, Annotating, Identifying, Attributing
  <2> QED
    BY <2>8, <2>9
<1> QED
  BY <1>2, <1>3

\* An identity that is done with names its source for the entries after it.
LEMMA DoneKnows ==
  ASSUME IInv, NEW w \in Workers, Moves(w), TablesGrow, echo' = echo, Done(w),
         pc[w] \in Identifying \cup Attributing,
         Next1(w).entry = "identity" =>
            \E v \in identities' : v.source = Next1(w).source /\ v.availability <= job[w].at
  PROVE  CallOK(w)'
<1>1. /\ pc[w] \notin {"idle", "record"} /\ EntriesOK(w) /\ job[w].more \in Registries
  BY DEF IInv, CallOK, Identifying, Attributing, IdentityOK, AttributionOK
<1>2. PICK t : t = job[w].at
  OBVIOUS
<1> DEFINE s == todo[w]
           left == Tail(s)
<1>3. s \in Seq(Registered) /\ s # <<>> /\ Next1(w) = s[1]
  BY <1>1 DEF EntriesOK, Next1
<1>4. /\ left \in Seq(Registered) /\ Len(left) \in Nat /\ Len(s) = Len(left) + 1
      /\ \A n \in 1..Len(left) : n + 1 \in 1..Len(s) /\ left[n] = s[n + 1]
  BY <1>3
<1> DEFINE Follows(z, n) == z[n].entry = "attribution" =>
              /\ \E x \in vintages' : /\ x.item = z[n].item /\ x.revision = z[n].basis
                                      /\ x.availability <= t
              /\ \/ \E v \in identities' : v.source = z[n].source /\ v.availability <= t
                 \/ \E m \in 1..(n - 1) : z[m].entry = "identity" /\ z[m].source = z[n].source
<1>5. \A n \in 1..Len(s) : Follows(s, n)
  <2>1. SUFFICES ASSUME NEW n \in 1..Len(s), s[n].entry = "attribution"
                 PROVE  /\ \E x \in vintages' : /\ x.item = s[n].item /\ x.revision = s[n].basis
                                                /\ x.availability <= t
                        /\ \/ \E v \in identities' : v.source = s[n].source /\ v.availability <= t
                           \/ \E m \in 1..(n - 1) : s[m].entry = "identity" /\ s[m].source = s[n].source
    OBVIOUS
  <2>2. /\ Known(s[n].item, s[n].basis, t)
        /\ \/ Named(s[n].source, t)
           \/ \E m \in 1..(n - 1) : s[m].entry = "identity" /\ s[m].source = s[n].source
    BY <1>1, <1>2, <2>1 DEF EntriesOK
  <2>3. \E x \in vintages' : /\ x.item = s[n].item /\ x.revision = s[n].basis
                             /\ x.availability <= t
    BY <2>2, KnownStays
  <2>4. Named(s[n].source, t) => \E v \in identities' : v.source = s[n].source /\ v.availability <= t
    BY NamedStays
  <2> QED
    BY <2>2, <2>3, <2>4
<1>6. ASSUME NEW n \in 1..Len(left), left[n].entry = "attribution"
      PROVE  /\ \E x \in vintages' : /\ x.item = left[n].item /\ x.revision = left[n].basis
                                     /\ x.availability <= t
             /\ \/ \E v \in identities' : v.source = left[n].source /\ v.availability <= t
                \/ \E m \in 1..(n - 1) : left[m].entry = "identity" /\ left[m].source = left[n].source
  <2>1. n + 1 \in 1..Len(s) /\ left[n] = s[n + 1] /\ Follows(s, n + 1) /\ (n + 1) - 1 = n
    BY <1>4, <1>5
  <2>2. /\ \E x \in vintages' : /\ x.item = left[n].item /\ x.revision = left[n].basis
                                /\ x.availability <= t
        /\ \/ \E v \in identities' : v.source = left[n].source /\ v.availability <= t
           \/ \E m \in 1..n : s[m].entry = "identity" /\ s[m].source = left[n].source
    <3> HIDE DEF s, left
    <3> QED
      BY <1>6, <2>1
  <2>3. ASSUME NEW m \in 1..n, s[m].entry = "identity", s[m].source = left[n].source
        PROVE  \/ \E v \in identities' : v.source = left[n].source /\ v.availability <= t
               \/ \E k \in 1..(n - 1) : left[k].entry = "identity" /\ left[k].source = left[n].source
    <3>1. CASE m = 1
      BY <1>2, <1>3, <2>3, <3>1
    <3>2. CASE m # 1
      <4>1. m - 1 \in 1..(n - 1) /\ m - 1 \in 1..Len(left) /\ (m - 1) + 1 = m
        BY <1>4, <3>2
      <4>2. left[m - 1] = s[m]
        BY <1>4, <4>1
      <4> HIDE DEF s, left
      <4> QED
        BY <2>3, <4>1, <4>2
    <3> QED
      BY <3>1, <3>2
  <2> HIDE DEF s, left
  <2> QED
    BY <2>2, <2>3
<1>7. left \in Groundeds(t)'
  <2> HIDE DEF left
  <2> QED
    BY <1>4, <1>6 DEF Groundeds, Grounded, Known, VintagesOf, Named, IdentitiesOf
<1>8. Resume(w, left)
  BY DEF Done
<1> HIDE DEF left
<1> QED
  BY <1>1, <1>2, <1>7, <1>8, ResumeKnows

\* A bootstrap starts with a registry and nothing read.
LEMMA StartBootstrapKnows ==
  ASSUME IInv, NEW w \in Workers, Moves(w), StartBootstrap(w)
  PROVE  CallOK(w)'
<1>1. PICK registry \in Registries : Start(w, "bootstrap", "candidates", registry, <<>>)
  BY DEF StartBootstrap
<1>2. /\ held'[w] = held[w] /\ pc[w] = "idle" /\ pc'[w] = "candidates" /\ echo' = echo
      /\ job'[w] = [pass |-> made + 1, at |-> now, more |-> registry]
  BY <1>1, StartMoves DEF IInv, Steps
<1>3. job'[w].more = registry
  BY <1>2
<1>4. echo'.pass # job'[w].pass
  BY <1>2, EchoIsApart
<1> QED
  BY <1>2, <1>3, <1>4 DEF CallOK, Fetching, Relating, Annotating, Identifying, Attributing

\* The entries of the mappings name every feed and organization before items
\* are attributed to them.
LEMMA ReadCandidatesKnows ==
  ASSUME IInv, NEW w \in Workers, Moves(w), TablesGrow, ReadCandidates(w)
  PROVE  CallOK(w)'
<1>1. /\ pc[w] = "candidates" /\ echo' = echo /\ Typed /\ job[w].more \in Registries
  BY DEF ReadCandidates, IInv, CallOK
<1>2. PICK t : t = job[w].at
  OBVIOUS
<1> DEFINE found == {v \in vintages : v \in EvidenceWithBackfill(vintages, v.item, t)}
           mappings == job[w].more.mappings
           Of(ordered) == [n \in 1..Len(mappings) |-> Entries(mappings[n], ordered)]
<1>3. PICK ordered : /\ ordered \in [1..Cardinality(found) -> found]
                     /\ Resume(w, FlattenSeq(Of(ordered)))
  BY <1>2 DEF ReadCandidates, InOrder
<1>4. mappings \in Seq(FeedMapping)
  BY <1>1, PoliciesType
<1>5. Cardinality(found) \in Nat
  <2>1. found \subseteq vintages
    OBVIOUS
  <2> HIDE DEF found
  <2> QED
    BY <1>1, <2>1, FS_Subset, FS_CardinalityType DEF Typed
<1>6. ASSUME NEW v \in found PROVE v \in NewsItemVintage /\ Known(v.item, v.revision, t)
  <2>1. v \in vintages /\ v.availability <= t
    BY DEF EvidenceWithBackfill, Newest, KnownAt
  <2> QED
    BY <1>1, <2>1 DEF Typed, Known, VintagesOf
<1> HIDE DEF found, mappings
<1>7. Len(ordered) \in Nat /\ \A n \in 1..Len(ordered) : ordered[n] \in found
  BY <1>3, <1>5, FunctionsAreSequences
<1>8. \A n \in 1..Len(mappings) : Entries(mappings[n], ordered) \in Groundeds(t)
  <2>1. \A n \in 1..Len(mappings) : mappings[n] \in FeedMapping
    BY <1>4
  <2> QED
    BY <1>6, <1>7, <2>1, EntriesAreGrounded
<1>9. Of(ordered) \in Seq(Groundeds(t)) /\ Len(Of(ordered)) = Len(mappings)
  <2>1. Of(ordered) \in [1..Len(mappings) -> Groundeds(t)] /\ Len(mappings) \in Nat
    BY <1>4, <1>8
  <2> HIDE DEF Of
  <2> QED
    BY <2>1, FunctionsAreSequences
<1> HIDE DEF Of
<1>10. FlattenSeq(Of(ordered)) # <<>> => FlattenSeq(Of(ordered)) \in Groundeds(t)'
  <2>1. CASE Of(ordered) = <<>>
    BY <2>1 DEF FlattenSeq
  <2>2. CASE Of(ordered) # <<>>
    <3>1. Groundeds(t) \subseteq Seq(Registered) /\ \A a, b \in Groundeds(t) : a \o b \in Groundeds(t)
      BY GroundedsJoin DEF Groundeds
    <3>2. FlattenSeq(Of(ordered)) \in Groundeds(t)
      BY <1>9, <2>2, <3>1, FlattenSeqStays
    <3> QED
      BY <3>2, GroundedsStay
  <2> QED
    BY <2>1, <2>2
<1> QED
  BY <1>1, <1>2, <1>3, <1>10, ResumeKnows

\* A pass that turns to another step of the same entry.
LEMMA IdentityGoes ==
  ASSUME IInv, NEW w \in Workers, Moves(w), echo' = echo, pc[w] \in Identifying,
         UNCHANGED <<job, todo>>, pc'[w] \in Identifying, IdentityOK(w)'
  PROVE  CallOK(w)'
<1>1. pc[w] # "record" /\ pc'[w] # "idle" /\ job[w].more \in Registries
  BY DEF IInv, CallOK, Identifying
<1>2. echo'.pass # job'[w].pass
  BY <1>1, EchoIsApart
<1> QED
  BY <1>1, <1>2 DEF CallOK, Fetching, Relating, Annotating, Identifying, Attributing

\* A pass that stays at its attribution knows what it knew of it.
LEMMA AttributionGoes ==
  ASSUME IInv, NEW w \in Workers, Moves(w), echo' = echo, pc[w] \in Attributing,
         UNCHANGED <<job, todo>>, pc'[w] \in Attributing, AttributionOK(w)'
  PROVE  CallOK(w)'
<1>1. pc[w] # "record" /\ pc'[w] # "idle" /\ job[w].more \in Registries
  BY DEF IInv, CallOK, Attributing
<1>2. echo'.pass # job'[w].pass
  BY <1>1, EchoIsApart
<1> QED
  BY <1>1, <1>2 DEF CallOK, Fetching, Relating, Annotating, Identifying, Attributing

\* Nothing an entry rests on changes with a read.
LEMMA SameEntries ==
  ASSUME NEW w, EntriesOK(w), UNCHANGED <<vintages, identities, job, todo>>
  PROVE  EntriesOK(w)' /\ Next1(w)' = Next1(w)
  BY DEF EntriesOK, Known, VintagesOf, Named, IdentitiesOf, Next1

\* Whoever finds the source goes on only with one of the same kind.
LEMMA ReadSourceKnows ==
  ASSUME IInv, NEW w \in Workers, Moves(w), ReadSource(w)
  PROVE  CallOK(w)'
<1> DEFINE e == Next1(w)
<1>1. /\ pc[w] = "source" /\ pc[w] \in Identifying /\ echo' = echo /\ Registers
      /\ vintages' = vintages /\ identities' = identities /\ sources' = sources
  BY DEF ReadSource, Identifying, IInv, tables, registryVars, registryTables
<1>2. IdentityOK(w) /\ EntriesOK(w) /\ e.entry = "identity" /\ held[w] = NoRow
  BY <1>1 DEF IInv, CallOK, IdentityOK
<1>3. CASE End(w, "KIND_MISMATCH")
  BY <1>3, EndShifts, IdleKnows DEF IInv, Ends
<1>4. CASE Goto(w, "register") /\ UNCHANGED <<job, todo, held>>
  <2>1. pc'[w] = "register"
    BY <1>4 DEF Goto, IInv, Control
  <2>2. EntriesOK(w)' /\ Next1(w)' = e
    BY <1>1, <1>2, <1>4, SameEntries
  <2>3. IdentityOK(w)'
    <3> HIDE DEF e
    <3> QED
      BY <1>2, <1>4, <2>1, <2>2 DEF IdentityOK
  <2> QED
    BY <1>1, <1>4, <2>1, <2>3, IdentityGoes DEF Identifying
<1>5. ASSUME NEW s \in SourceOf(e.source), s.kind = e.kind, Goto(w, "identity"),
             UNCHANGED <<job, todo, held>>
      PROVE  CallOK(w)'
  <2>1. pc'[w] = "identity"
    BY <1>5 DEF Goto, IInv, Control
  <2>2. EntriesOK(w)' /\ Next1(w)' = e
    BY <1>1, <1>2, <1>5, SameEntries
  <2>3. s \in sources /\ s.source = e.source
    BY DEF SourceOf
  <2>4. SourceOf(e.source) = {s}
    BY <1>1, <2>3 DEF Registers
  <2>5. {x \in sources' : x.source = e.source} = {s}
    BY <1>1, <2>4 DEF SourceOf
  <2>6. IdentityOK(w)'
    <3> HIDE DEF e
    <3> QED
      BY <1>2, <1>5, <2>1, <2>2, <2>5 DEF IdentityOK, SourceOf
  <2> QED
    BY <1>1, <1>5, <2>1, <2>6, IdentityGoes DEF Identifying
<1> QED
  BY <1>3, <1>4, <1>5 DEF ReadSource

\* Whoever goes on from reading the latest identity knows the numbers up to
\* it to be taken.
LEMMA ReadIdentityKnows ==
  ASSUME IInv, NEW w \in Workers, Moves(w), ReadIdentity(w)
  PROVE  CallOK(w)'
<1> DEFINE e == Next1(w)
           k == e.source
           rows == IdentitiesOf(k)
<1>1. /\ pc[w] = "identity" /\ pc[w] \in Identifying /\ echo' = echo /\ Typed /\ Histories
      /\ vintages' = vintages /\ identities' = identities /\ sources' = sources
  BY DEF ReadIdentity, Identifying, IInv, tables, registryVars, registryTables
<1>2. IdentityOK(w) /\ EntriesOK(w) /\ e \in IdentityTask /\ job[w].at \in Times
  BY <1>1, IdentityEntryType
<1>3. k \in STRING /\ e.entry = "identity"
  BY <1>2 DEF IdentityTask
<1>4. TypedRows(rows) /\ Numbered(rows)
  BY <1>1, <1>3, IdentityRows DEF Histories
<1>5. PICK l \in Newest(rows) :
        \/ End(w, "OUT_OF_ORDER")
        \/ /\ job[w].at >= l.availability /\ held' = [held EXCEPT ![w] = l]
           /\ Goto(w, "identities") /\ UNCHANGED <<job, todo>>
  BY DEF ReadIdentity
<1>6. CASE End(w, "OUT_OF_ORDER")
  BY <1>6, EndShifts, IdleKnows DEF IInv, Ends
<1>7. CASE /\ job[w].at >= l.availability /\ held' = [held EXCEPT ![w] = l]
           /\ Goto(w, "identities") /\ UNCHANGED <<job, todo>>
  <2>1. pc'[w] = "identities" /\ held'[w] = l
    BY <1>7 DEF Goto, IInv, Control
  <2>2. EntriesOK(w)' /\ Next1(w)' = e
    BY <1>1, <1>2, <1>7, SameEntries
  <2>3. l \in rows /\ l \in SourceIdentity
    BY <1>1 DEF Newest, IdentitiesOf, Typed
  <2>4. Below(rows, l.revision + 1, job[w].at)
    <3> HIDE DEF rows
    <3> QED
      BY <1>2, <1>4, <1>7, LatestReserves
  <2>5. Revision(w)' = l.revision + 1
    BY <2>1, <2>3, RegistryAssumption DEF Revision
  <2>6. l.availability <= job[w].at
    <3>1. l.availability \in Nat /\ job[w].at \in Nat
      BY <1>2, <1>4, <2>3, TimesAreNumbers DEF TypedRows
    <3> QED
      BY <1>7, <3>1
  <2>7. SourceOf(k) # {} /\ \A s \in SourceOf(k) : s.kind = e.kind
    BY <1>1, <1>2 DEF IdentityOK
  <2>8. SourceOf(Next1(w).source)' = SourceOf(k) /\ IdentitiesOf(Next1(w).source)' = rows
    BY <1>1, <2>2 DEF SourceOf, IdentitiesOf
  <2>9. job'[w] = job[w]
    BY <1>7
  <2> HIDE DEF rows, k
  <2>10. Reserved(IdentitiesOf(Next1(w).source), w)'
    BY <2>4, <2>5, <2>8, <2>9 DEF Reserved
  <2>11. IdentityOK(w)'
    <3>1. Next1(w).entry' = "identity" /\ Next1(w).kind' = e.kind
      BY <1>3, <2>2
    <3> HIDE DEF e
    <3> QED
      BY <1>3, <2>1, <2>2, <2>3, <2>6, <2>7, <2>8, <2>9, <2>10, <3>1 DEF IdentityOK
  <2> QED
    BY <1>1, <1>7, <2>1, <2>11, IdentityGoes DEF Identifying
<1> QED
  BY <1>5, <1>6, <1>7

\* And from the history of the source, that all of it names it so on the
\* same grounds.
LEMMA ReadIdentitiesKnows ==
  ASSUME IInv, NEW w \in Workers, Moves(w), TablesGrow, ReadIdentities(w)
  PROVE  CallOK(w)'
<1> DEFINE e == Next1(w)
           rows == IdentitiesOf(e.source)
<1>1. /\ pc[w] = "identities" /\ pc[w] \in Identifying /\ echo' = echo
      /\ vintages' = vintages /\ identities' = identities /\ sources' = sources
  BY DEF ReadIdentities, Identifying, tables, registryTables
<1>2. IdentityOK(w) /\ EntriesOK(w)
  BY <1>1, IdentityEntryType
<1>3. /\ held[w] \in rows /\ held[w].availability <= job[w].at /\ e.entry = "identity"
      /\ SourceOf(e.source) # {} /\ (\A s \in SourceOf(e.source) : s.kind = e.kind)
      /\ Reserved(rows, w)
  BY <1>1, <1>2 DEF IdentityOK
<1>4. CASE End(w, "DETERMINISM")
  BY <1>4, EndShifts, IdleKnows DEF IInv, Ends
<1>5. CASE Done(w)
  <2>1. held[w] \in identities' /\ held[w].source = e.source
    BY <1>1, <1>3 DEF IdentitiesOf
  <2> QED
    BY <1>1, <1>3, <1>5, <2>1, DoneKnows
<1>6. ASSUME \A v \in rows : SameOrigin(v, e, job[w].more.policy) => v.name = e.name,
             Goto(w, "identify"), UNCHANGED <<job, todo, held>>
      PROVE  CallOK(w)'
  <2>1. pc'[w] = "identify"
    BY <1>6 DEF Goto, IInv, Control
  <2>2. EntriesOK(w)' /\ Next1(w)' = e
    BY <1>1, <1>2, <1>6, SameEntries
  <2>3. SourceOf(Next1(w).source)' = SourceOf(e.source) /\ IdentitiesOf(Next1(w).source)' = rows
    BY <1>1, <2>2 DEF SourceOf, IdentitiesOf
  <2>4. Revision(w)' = Revision(w) /\ job'[w] = job[w] /\ held'[w] = held[w]
    BY <1>6 DEF Revision
  <2> HIDE DEF rows, e
  <2>5. Reserved(IdentitiesOf(Next1(w).source), w)'
    BY <1>3, <2>3, <2>4 DEF Reserved
  <2>6. IdentityOK(w)'
    BY <1>3, <1>6, <2>1, <2>2, <2>3, <2>4, <2>5 DEF IdentityOK, SameOrigin
  <2> QED
    BY <1>1, <1>6, <2>1, <2>6, IdentityGoes DEF Identifying
<1> QED
  BY <1>4, <1>5, <1>6 DEF ReadIdentities

\* A source that is registered is named by then, so that the rest of the
\* entries may rest on it.
LEMMA RegisterKnows ==
  ASSUME IInv, NEW w \in Workers, Moves(w), TablesGrow, Register(w)
  PROVE  CallOK(w)'
<1> DEFINE e == Next1(w)
           row == IdentityRow(w)
<1>1. pc[w] \in Identifying /\ echo' = echo /\ job[w].at \in Times
  BY DEF Register, Identifying, IInv, Control
<1>2. row.source = e.source /\ row.availability = job[w].at
  BY DEF IdentityRow
<1>3. row.availability <= job[w].at
  <2>1. job[w].at \in Nat
    BY <1>1, TimesAreNumbers
  <2>2. job[w].at <= job[w].at
    BY <2>1
  <2> HIDE DEF row, e
  <2> QED
    BY <1>2, <2>2
<1>4. CASE Done(w) /\ identities' = identities \cup {row}
  <2> HIDE DEF row, e
  <2>1. row \in identities'
    BY <1>4
  <2> QED
    BY <1>1, <1>2, <1>3, <1>4, <2>1, DoneKnows DEF e
<1>5. CASE /\ {v \in IdentitiesOf(e.source) : v.revision = 0} = {row}
           /\ Done(w) /\ identities' = identities
  <2> HIDE DEF row, e
  <2>1. row \in identities'
    BY <1>5 DEF IdentitiesOf
  <2> QED
    BY <1>1, <1>2, <1>3, <1>5, <2>1, DoneKnows DEF e
<1>6. CASE End(w, "SOURCE_CONFLICT") \/ End(w, "IDENTITY_CONFLICT")
  BY <1>6, EndShifts, IdleKnows DEF IInv, Ends
<1> QED
  BY <1>4, <1>5, <1>6 DEF Register

\* So is one whose identity is added.
LEMMA AddIdentityKnows ==
  ASSUME IInv, NEW w \in Workers, Moves(w), TablesGrow, AddIdentity(w)
  PROVE  CallOK(w)'
<1> DEFINE e == Next1(w)
           row == IdentityRow(w)
<1>1. pc[w] \in Identifying /\ echo' = echo /\ job[w].at \in Times
  BY DEF AddIdentity, Identifying, IInv, Control
<1>2. row.source = e.source /\ row.availability = job[w].at
  BY DEF IdentityRow
<1>3. row.availability <= job[w].at
  <2>1. job[w].at \in Nat
    BY <1>1, TimesAreNumbers
  <2>2. job[w].at <= job[w].at
    BY <2>1
  <2> HIDE DEF row, e
  <2> QED
    BY <1>2, <2>2
<1>4. CASE Done(w) /\ identities' = identities \cup {row}
  <2> HIDE DEF row, e
  <2>1. row \in identities'
    BY <1>4
  <2> QED
    BY <1>1, <1>2, <1>3, <1>4, <2>1, DoneKnows DEF e
<1>5. CASE End(w, "IDENTITY_CONFLICT")
  BY <1>5, EndShifts, IdleKnows DEF IInv, Ends
<1> QED
  BY <1>4, <1>5 DEF AddIdentity

\* Whoever goes on from reading the latest attribution knows the numbers up
\* to it to be taken.
LEMMA ReadAttributionKnows ==
  ASSUME IInv, NEW w \in Workers, Moves(w), ReadAttribution(w)
  PROVE  CallOK(w)'
<1> DEFINE e == Next1(w)
           rows == AttributionsOf(e)
<1>1. /\ pc[w] = "attribution" /\ pc[w] \in Attributing /\ echo' = echo /\ Typed /\ Histories
      /\ vintages' = vintages /\ identities' = identities /\ attributions' = attributions
  BY DEF ReadAttribution, Attributing, IInv, tables, registryVars, registryTables
<1>2. AttributionOK(w) /\ EntriesOK(w) /\ e \in AttributionTask /\ job[w].at \in Times
  BY <1>1, AttributionEntryType
<1>3. e.item \in Nat /\ e.role \in Roles /\ e.entry = "attribution"
  BY <1>2 DEF AttributionTask
<1>4. TypedRows(rows) /\ Numbered(rows)
  BY <1>1, <1>3, AttributionRows, AttributionHistory
<1>5. CASE End(w, "OUT_OF_ORDER")
  BY <1>5, EndShifts, IdleKnows DEF IInv, Ends
<1>6. CASE /\ \A l \in Newest(rows) : job[w].at >= l.availability
           /\ held' = [held EXCEPT ![w] = IF Newest(rows) = {} THEN NoRow
                                          ELSE CHOOSE l \in Newest(rows) : TRUE]
           /\ Goto(w, "attributions") /\ UNCHANGED <<job, todo>>
  <2> DEFINE l == CHOOSE x \in Newest(rows) : TRUE
  <2> HIDE DEF e
  <2>1. /\ pc'[w] = "attributions" /\ held'[w] = IF Newest(rows) = {} THEN NoRow ELSE l
    BY <1>6 DEF Goto, IInv, Control
  <2>2. Newest(rows) # {} => l \in Newest(rows)
    OBVIOUS
  <2> HIDE DEF l
  <2>3. Newest(rows) # {} => l \in rows /\ l \in SourceAttribution
    BY <1>1, <2>2 DEF Newest, AttributionsOf, Typed
  <2>4. /\ held'[w] = NoRow \/ held'[w] \in rows
        /\ Below(rows, IF held'[w] = NoRow THEN 0 ELSE held'[w].revision + 1, job[w].at)
    <3>1. CASE Newest(rows) = {}
      <4>1. Below(rows, 0, job[w].at)
        BY <1>4, NothingIsBelowZero
      <4> QED
        BY <2>1, <3>1, <4>1
    <3>2. CASE Newest(rows) # {}
      <4>1. job[w].at >= l.availability
        BY <1>6, <2>2, <3>2
      <4>2. Below(rows, l.revision + 1, job[w].at)
        <5> HIDE DEF rows
        <5> QED
          BY <1>2, <1>4, <2>2, <3>2, <4>1, LatestReserves
      <4>3. l # NoRow
        BY <2>3, <3>2, RegistryAssumption
      <4> QED
        BY <2>1, <2>3, <3>2, <4>2, <4>3
    <3> QED
      BY <3>1, <3>2
  <2>5. EntriesOK(w)' /\ Next1(w)' = e
    BY <1>1, <1>2, <1>6, SameEntries DEF e
  <2>6. AttributionsOf(Next1(w))' = rows
    BY <1>1, <2>5 DEF AttributionsOf
  <2>7. job'[w] = job[w]
    BY <1>6
  <2> HIDE DEF rows
  <2>8. Reserved(AttributionsOf(Next1(w)), w)'
    BY <2>4, <2>6, <2>7 DEF Reserved, Revision
  <2>9. AttributionOK(w)'
    BY <1>3, <2>1, <2>4, <2>5, <2>6, <2>8 DEF AttributionOK
  <2> QED
    BY <1>1, <1>6, <2>1, <2>9, AttributionGoes DEF Attributing
<1> QED
  BY <1>5, <1>6 DEF ReadAttribution

\* And from the whole history, that all of it says the same on the same
\* grounds.
LEMMA ReadAttributionsKnows ==
  ASSUME IInv, NEW w \in Workers, Moves(w), TablesGrow, ReadAttributions(w)
  PROVE  CallOK(w)'
<1> DEFINE e == Next1(w)
           rows == AttributionsOf(e)
<1>1. /\ pc[w] = "attributions" /\ pc[w] \in Attributing /\ echo' = echo
      /\ vintages' = vintages /\ identities' = identities /\ attributions' = attributions
  BY DEF ReadAttributions, Attributing, tables, registryTables
<1>2. AttributionOK(w) /\ EntriesOK(w)
  BY <1>1, AttributionEntryType
<1>3. /\ held[w] = NoRow \/ held[w] \in rows
      /\ e.entry = "attribution" /\ Reserved(rows, w)
  BY <1>1, <1>2 DEF AttributionOK
<1>4. CASE End(w, "DETERMINISM")
  BY <1>4, EndShifts, IdleKnows DEF IInv, Ends
<1>5. CASE Done(w)
  BY <1>1, <1>3, <1>5, DoneKnows
<1>6. ASSUME \A a \in rows : SameGrounds(a, e, job[w].more.policy)
                                => a.status = e.status /\ a.source = e.source,
             Goto(w, "attribute"), UNCHANGED <<job, todo, held>>
      PROVE  CallOK(w)'
  <2>1. pc'[w] = "attribute"
    BY <1>6 DEF Goto, IInv, Control
  <2>2. EntriesOK(w)' /\ Next1(w)' = e
    BY <1>1, <1>2, <1>6, SameEntries
  <2>3. AttributionsOf(Next1(w))' = rows
    BY <1>1, <2>2 DEF AttributionsOf
  <2>4. Revision(w)' = Revision(w) /\ job'[w] = job[w] /\ held'[w] = held[w]
    BY <1>6 DEF Revision
  <2> HIDE DEF rows, e
  <2>5. Reserved(AttributionsOf(Next1(w)), w)'
    BY <1>3, <2>3, <2>4 DEF Reserved
  <2>6. AttributionOK(w)'
    BY <1>3, <1>6, <2>1, <2>2, <2>3, <2>4, <2>5 DEF AttributionOK, SameGrounds, SameOrigin
  <2> QED
    BY <1>1, <1>6, <2>1, <2>6, AttributionGoes DEF Attributing
<1> QED
  <2>1. (\A a \in rows : SameGrounds(a, e, job[w].more.policy)
                            => <<a.status, a.source>> = <<e.status, e.source>>)
        => \A a \in rows : SameGrounds(a, e, job[w].more.policy)
                              => a.status = e.status /\ a.source = e.source
    OBVIOUS
  <2> QED
    BY <1>4, <1>5, <1>6, <2>1 DEF ReadAttributions

\* A pass whose attribution is written goes on with the rest.
LEMMA AddAttributionKnows ==
  ASSUME IInv, NEW w \in Workers, Moves(w), TablesGrow, AddAttribution(w)
  PROVE  CallOK(w)'
<1>1. pc[w] \in Attributing /\ echo' = echo
  BY DEF AddAttribution, Attributing
<1>2. Next1(w).entry = "attribution"
  BY <1>1 DEF IInv, CallOK, AttributionOK
<1>3. CASE Done(w)
  BY <1>1, <1>2, <1>3, DoneKnows
<1>4. CASE End(w, "ATTRIBUTION_CONFLICT")
  BY <1>4, EndShifts, IdleKnows DEF IInv, Ends
<1> QED
  BY <1>3, <1>4 DEF AddAttribution

\* Whatever it does, a pass knows what it needs to for what it does next.
LEMMA StepKnows ==
  ASSUME IInv, NEW w \in Workers, Step(w), Moves(w), TablesGrow
  PROVE  CallOK(w)'
  BY StartIngestionKnows, FetchKnows, RecordKnows,
     StartCanonicalizationKnows, ReadPairsKnows, StartReviewKnows,
     ReadRelationKnows, AddRelationKnows,
     StartClassificationKnows, ReadItemsKnows,
     ReadAnnotationKnows, ReadHistoryKnows, AddAnnotationKnows,
     AttemptKnows, ReportKnows, StartBootstrapKnows, ReadCandidatesKnows,
     ReadSourceKnows, ReadIdentityKnows, ReadIdentitiesKnows, RegisterKnows, AddIdentityKnows,
     ReadAttributionKnows, ReadAttributionsKnows, AddAttributionKnows
     DEF Step, PipelineStep, RegistryStep

-----------------------------------------------------------------------------
(* What passes report.                                                     *)

\* What stands recorded stands: later rows do not contradict it.
LEMMA RecordedStays ==
  ASSUME TablesGrow, Registers, Deterministic', NEW entry, Recorded(entry)
  PROVE  Recorded(entry)'
<1> DEFINE e == entry.of
<1>1. CASE e.entry = "identity"
  <2>1. /\ \A s \in SourceOf(e.source) : s.kind = e.kind
        /\ \E v \in IdentitiesOf(e.source) : SameOrigin(v, e, entry.policy) /\ v.name = e.name
    BY <1>1 DEF Recorded
  <2>2. PICK v \in IdentitiesOf(e.source) : SameOrigin(v, e, entry.policy) /\ v.name = e.name
    BY <2>1
  <2>3. v \in identities /\ v.source = e.source
    BY DEF IdentitiesOf
  <2>4. SourceOf(e.source) # {}
    BY <2>3 DEF Registers, SourceOf
  <2>5. SourceOf(e.source)' = SourceOf(e.source)
    BY <2>4 DEF TablesGrow
  <2>6. v \in IdentitiesOf(e.source)'
    BY DEF TablesGrow, Grown
  <2>7. ASSUME NEW x \in IdentitiesOf(e.source)', SameOrigin(x, e, entry.policy)
        PROVE  x.name = e.name
    BY <2>2, <2>6, <2>7 DEF Deterministic, SameOrigin, IdentitiesOf
  <2> HIDE DEF e
  <2> QED
    BY <1>1, <2>1, <2>2, <2>5, <2>6, <2>7 DEF Recorded, SameOrigin, e
<1>2. CASE e.entry # "identity"
  <2>1. PICK a \in AttributionsOf(e) : SameGrounds(a, e, entry.policy) /\ a.source = e.source
    BY <1>2 DEF Recorded
  <2>2. a \in AttributionsOf(e)'
    BY DEF TablesGrow, Grown
  <2>3. ASSUME NEW x \in AttributionsOf(e)', SameGrounds(x, e, entry.policy)
        PROVE  x.source = e.source
    BY <2>1, <2>2, <2>3 DEF Deterministic, SameGrounds, SameOrigin, AttributionsOf
  <2> HIDE DEF e
  <2> QED
    BY <1>2, <2>1, <2>2, <2>3 DEF Recorded, SameGrounds, SameOrigin, e
<1> QED
  BY <1>1, <1>2

\* An identity that some row gives on these grounds, under a source of the kind.
LEMMA IdentityIsRecorded ==
  ASSUME Deterministic', NEW policy, NEW e, e.entry = "identity",
         \A s \in sources' : s.source = e.source => s.kind = e.kind,
         NEW v \in identities', v.source = e.source, v.policy = policy,
         v.evidence = e.evidence, v.name = e.name
  PROVE  Recorded([policy |-> policy, of |-> e])'
<1>1. ASSUME NEW x \in identities', x.source = e.source, x.policy = policy, x.evidence = e.evidence
      PROVE  x.name = e.name
  BY <1>1 DEF Deterministic, SameOrigin
<1> QED
  BY <1>1 DEF Recorded, SourceOf, IdentitiesOf, SameOrigin

\* An attribution on the grounds of an entry records it for good.
LEMMA AttributionIsRecorded ==
  ASSUME Deterministic', NEW policy, NEW e, e.entry = "attribution",
         NEW a \in attributions', a.item = e.item, a.role = e.role, a.policy = policy,
         a.evidence = e.evidence, a.basis = e.basis, a.source = e.source
  PROVE  Recorded([policy |-> policy, of |-> e])'
<1>1. ASSUME NEW x \in attributions', x.item = e.item, x.role = e.role, x.policy = policy,
             x.evidence = e.evidence, x.basis = e.basis
      PROVE  x.source = e.source
  BY <1>1 DEF Deterministic, SameGrounds, SameOrigin
<1> QED
  BY <1>1 DEF Recorded, AttributionsOf, SameGrounds, SameOrigin

\* An entry that is done with is recorded as one that stands,
LEMMA DoneIsRecorded ==
  ASSUME IInv, NEW w \in Workers, Done(w), TablesGrow, Deterministic',
         NEW p, p = job[w].more.policy, NEW e, e = Next1(w),
         Recorded([policy |-> p, of |-> e])'
  PROVE  \A entry \in imprint'.entries : Recorded(entry)'
<1> SUFFICES ASSUME NEW entry \in imprint'.entries PROVE Recorded(entry)'
  OBVIOUS
<1>1. entry = [policy |-> p, of |-> e] \/ entry \in imprint.entries
  BY DEF Done
<1>2. \A x \in imprint.entries : Recorded(x)
  BY DEF IInv, ReplaysAreHarmless
<1>3. Registers
  BY DEF IInv
<1> QED
  BY <1>1, <1>2, <1>3, RecordedStays

\* when its identity is found,
LEMMA ReadIdentitiesRecords ==
  ASSUME IInv, NEW w \in Workers, TablesGrow, Deterministic', ReadIdentities(w)
  PROVE  imprint' = imprint \/ \A entry \in imprint'.entries : Recorded(entry)'
<1>1. PICK p : p = job[w].more.policy
  OBVIOUS
<1>2. PICK e : e = Next1(w)
  OBVIOUS
<1>3. /\ pc[w] = "identities" /\ pc[w] \in Identifying
      /\ identities' = identities /\ sources' = sources
  BY DEF ReadIdentities, Identifying, registryTables
<1>4. /\ e.entry = "identity" /\ held[w] \in IdentitiesOf(e.source)
      /\ \A s \in SourceOf(e.source) : s.kind = e.kind
  BY <1>2, <1>3, IdentityEntryType DEF IdentityOK
<1>5. CASE SameOrigin(held[w], e, p) /\ held[w].name = e.name /\ Done(w)
  <2>1. /\ held[w] \in identities' /\ held[w].source = e.source /\ held[w].policy = p
        /\ held[w].evidence = e.evidence
    BY <1>3, <1>4, <1>5 DEF IdentitiesOf, SameOrigin
  <2>2. \A s \in sources' : s.source = e.source => s.kind = e.kind
    BY <1>3, <1>4 DEF SourceOf
  <2>3. Recorded([policy |-> p, of |-> e])'
    BY <1>4, <1>5, <2>1, <2>2, IdentityIsRecorded
  <2> QED
    BY <1>1, <1>2, <1>5, <2>3, DoneIsRecorded
<1>6. CASE imprint' = imprint
  BY <1>6
<1> QED
  BY <1>1, <1>2, <1>5, <1>6 DEF ReadIdentities

\* A row of the entry's own is there.
LEMMA RowIsRecorded ==
  ASSUME IInv, NEW w \in Workers, pc[w] \in Identifying, TablesGrow, Deterministic', Done(w),
         IdentityRow(w) \in identities',
         \A s \in sources' : s.source = Next1(w).source => s.kind = Next1(w).kind
  PROVE  \A entry \in imprint'.entries : Recorded(entry)'
<1>1. PICK p : p = job[w].more.policy
  OBVIOUS
<1>2. PICK e : e = Next1(w)
  OBVIOUS
<1>3. e.entry = "identity"
  BY <1>2, IdentityEntryType DEF IdentityOK
<1>4. PICK row : row = IdentityRow(w)
  OBVIOUS
<1>5. /\ row.source = e.source /\ row.policy = p /\ row.evidence = e.evidence /\ row.name = e.name
  BY <1>1, <1>2, <1>4 DEF IdentityRow
<1>6. row \in identities' /\ \A s \in sources' : s.source = e.source => s.kind = e.kind
  BY <1>2, <1>4
<1>7. Recorded([policy |-> p, of |-> e])'
  BY <1>3, <1>5, <1>6, IdentityIsRecorded
<1> QED
  BY <1>1, <1>2, <1>7, DoneIsRecorded

\* when its source is registered,
LEMMA RegisterRecords ==
  ASSUME IInv, NEW w \in Workers, TablesGrow, Deterministic', Register(w)
  PROVE  imprint' = imprint \/ \A entry \in imprint'.entries : Recorded(entry)'
<1> DEFINE e == Next1(w)
           row == IdentityRow(w)
           new == [source |-> e.source, kind |-> e.kind, registered |-> job[w].at]
<1>1. pc[w] \in Identifying /\ Registers
  BY DEF Register, Identifying, IInv
<1>2. CASE SourceOf(e.source) = {} /\ sources' = sources \cup {new}
           /\ identities' = identities \cup {row} /\ Done(w)
  <2>1. new.kind = e.kind
    OBVIOUS
  <2> HIDE DEF new, row
  <2>2. \A s \in sources' : s.source = e.source => s.kind = e.kind
    BY <1>2, <2>1 DEF SourceOf
  <2>3. row \in identities'
    BY <1>2
  <2> QED
    BY <1>1, <1>2, <2>2, <2>3, RowIsRecorded DEF row
<1>3. CASE /\ \E s \in SourceOf(e.source) : s.kind = e.kind
           /\ {v \in IdentitiesOf(e.source) : v.revision = 0} = {row} /\ Done(w)
           /\ UNCHANGED <<sources, identities>>
  <2> HIDE DEF row
  <2>1. PICK s \in SourceOf(e.source) : s.kind = e.kind
    BY <1>3
  <2>2. SourceOf(e.source) = {s}
    BY <1>1 DEF Registers, SourceOf
  <2>3. \A x \in sources' : x.source = e.source => x.kind = e.kind
    BY <1>3, <2>1, <2>2 DEF SourceOf
  <2>4. row \in identities'
    BY <1>3 DEF IdentitiesOf
  <2> QED
    BY <1>1, <1>3, <2>3, <2>4, RowIsRecorded DEF row
<1>4. CASE imprint' = imprint
  BY <1>4
<1> QED
  BY <1>2, <1>3, <1>4 DEF Register

\* when its identity is added,
LEMMA AddIdentityRecords ==
  ASSUME IInv, NEW w \in Workers, TablesGrow, Deterministic', AddIdentity(w)
  PROVE  imprint' = imprint \/ \A entry \in imprint'.entries : Recorded(entry)'
<1> DEFINE row == IdentityRow(w)
<1>1. pc[w] = "identify" /\ pc[w] \in Identifying /\ sources' = sources
  BY DEF AddIdentity, Identifying
<1>2. \A s \in SourceOf(Next1(w).source) : s.kind = Next1(w).kind
  BY <1>1, IdentityEntryType DEF IdentityOK
<1>3. \A s \in sources' : s.source = Next1(w).source => s.kind = Next1(w).kind
  BY <1>1, <1>2 DEF SourceOf
<1>4. CASE identities' = identities \cup {row} /\ Done(w)
  <2> HIDE DEF row
  <2>1. row \in identities'
    BY <1>4
  <2> QED
    BY <1>1, <1>3, <1>4, <2>1, RowIsRecorded DEF row
<1>5. CASE imprint' = imprint
  BY <1>5
<1> QED
  BY <1>4, <1>5 DEF AddIdentity

\* when its attribution is found,
LEMMA ReadAttributionsRecords ==
  ASSUME IInv, NEW w \in Workers, TablesGrow, Deterministic', ReadAttributions(w)
  PROVE  imprint' = imprint \/ \A entry \in imprint'.entries : Recorded(entry)'
<1>1. PICK p : p = job[w].more.policy
  OBVIOUS
<1>2. PICK e : e = Next1(w)
  OBVIOUS
<1>3. /\ pc[w] = "attributions" /\ pc[w] \in Attributing /\ attributions' = attributions
  BY DEF ReadAttributions, Attributing, registryTables
<1>4. e.entry = "attribution" /\ (held[w] = NoRow \/ held[w] \in AttributionsOf(e))
  BY <1>2, <1>3, AttributionEntryType DEF AttributionOK
<1>5. CASE /\ \A a \in AttributionsOf(e) : SameGrounds(a, e, p)
                 => <<a.status, a.source>> = <<e.status, e.source>>
           /\ held[w] # NoRow /\ SameGrounds(held[w], e, p) /\ Done(w)
  <2>1. /\ held[w] \in attributions' /\ held[w].item = e.item /\ held[w].role = e.role
        /\ held[w].policy = p /\ held[w].evidence = e.evidence /\ held[w].basis = e.basis
    BY <1>3, <1>4, <1>5 DEF AttributionsOf, SameGrounds, SameOrigin
  <2>2. held[w].source = e.source
    BY <1>4, <1>5
  <2>3. Recorded([policy |-> p, of |-> e])'
    BY <1>4, <2>1, <2>2, AttributionIsRecorded
  <2> QED
    BY <1>1, <1>2, <1>5, <2>3, DoneIsRecorded
<1>6. CASE imprint' = imprint
  BY <1>6
<1> QED
  BY <1>1, <1>2, <1>5, <1>6 DEF ReadAttributions

\* and when its attribution is added.
LEMMA AddAttributionRecords ==
  ASSUME IInv, NEW w \in Workers, TablesGrow, Deterministic', AddAttribution(w)
  PROVE  imprint' = imprint \/ \A entry \in imprint'.entries : Recorded(entry)'
<1>1. PICK p : p = job[w].more.policy
  OBVIOUS
<1>2. PICK e : e = Next1(w)
  OBVIOUS
<1>3. pc[w] \in Attributing
  BY DEF AddAttribution, Attributing
<1>4. e.entry = "attribution"
  BY <1>2, <1>3, AttributionEntryType DEF AttributionOK
<1>5. PICK row : row = [item |-> e.item, role |-> e.role, revision |-> Revision(w),
                        availability |-> job[w].at, policy |-> p,
                        status |-> e.status, source |-> e.source, basis |-> e.basis,
                        evidence |-> e.evidence]
  OBVIOUS
<1>6. CASE attributions' = attributions \cup {row} /\ Done(w)
  <2>1. /\ row.item = e.item /\ row.role = e.role /\ row.policy = p
        /\ row.evidence = e.evidence /\ row.basis = e.basis /\ row.source = e.source
    BY <1>5
  <2>2. row \in attributions'
    BY <1>6
  <2>3. Recorded([policy |-> p, of |-> e])'
    BY <1>4, <2>1, <2>2, AttributionIsRecorded
  <2> QED
    BY <1>1, <1>2, <1>6, <2>3, DoneIsRecorded
<1>7. CASE imprint' = imprint
  BY <1>7
<1> QED
  BY <1>1, <1>2, <1>5, <1>6, <1>7 DEF AddAttribution

\* No bootstrap is told that something stands that does not.
LEMMA ImprintStands ==
  ASSUME IInv, NEW w \in Workers, Step(w), TablesGrow, Deterministic'
  PROVE  \A entry \in imprint'.entries : Recorded(entry)'
<1>1. CASE imprint' = imprint
  <2>1. Registers /\ \A entry \in imprint.entries : Recorded(entry)
    BY DEF IInv, ReplaysAreHarmless
  <2> QED
    BY <1>1, <2>1, RecordedStays
<1>2. CASE imprint' # imprint
  <2>1. \/ ReadIdentities(w) \/ Register(w) \/ AddIdentity(w)
        \/ ReadAttributions(w) \/ AddAttribution(w)
    BY <1>2 DEF Step, PipelineStep, RegistryStep, registryVars, Attempt, Report, StartBootstrap,
       ReadCandidates, ReadSource, ReadIdentity, ReadAttribution
  <2> QED
    BY <1>2, <2>1, ReadIdentitiesRecords, RegisterRecords, AddIdentityRecords,
       ReadAttributionsRecords, AddAttributionRecords
<1> QED
  BY <1>1, <1>2

\* The same of any table of vintages.
LastVintage(V, i) ==
    CHOOSE v \in {x \in V : x.item = i} : \A x \in {y \in V : y.item = i} : x.revision <= v.revision

RepeatedIn(V, o) ==
    /\ {x \in V : x.item = o.item} # {}
    /\ o.content = LastVintage(V, o.item).content
    /\ o.channel \in LastVintage(V, o.item).channels

\* Whether an observation repeats is a question to the vintages.
LEMMA RepeatedIs ==
  ASSUME NEW o
  PROVE  /\ Repeated(o) <=> RepeatedIn(vintages, o)
         /\ Repeated(o)' <=> RepeatedIn(vintages', o)
<1>1. Repeated(o) <=> RepeatedIn(vintages, o)
  <2>1. CASE VintagesOf(o.item) = {}
    BY <2>1 DEF Repeated, RepeatedIn, VintagesOf
  <2>2. CASE VintagesOf(o.item) # {}
    <3> DEFINE l == LatestVintage(o.item)
    <3>1. l = LastVintage(vintages, o.item)
      BY DEF LatestVintage, LastVintage, VintagesOf
    <3>2. Recording(o) = [item |-> o.item, revision |-> l.revision + 1, availability |-> o.at,
                          content |-> o.content, channels |-> l.channels \cup {o.channel}]
      BY <2>2 DEF Recording
    <3>3. Recording(o).content = o.content /\ Recording(o).channels = l.channels \cup {o.channel}
      BY <3>2
    <3>4. (l.channels \cup {o.channel} = l.channels) <=> o.channel \in l.channels
      OBVIOUS
    <3>5. Repeated(o) <=> o.content = l.content /\ o.channel \in l.channels
      BY <2>2, <3>3, <3>4 DEF Repeated
    <3> HIDE DEF l
    <3> QED
      BY <2>2, <3>1, <3>5 DEF RepeatedIn, VintagesOf
  <2> QED
    BY <2>1, <2>2
<1>2. Repeated(o)' <=> RepeatedIn(vintages', o)
  <2>1. CASE VintagesOf(o.item)' = {}
    BY <2>1 DEF Repeated, RepeatedIn, VintagesOf
  <2>2. CASE VintagesOf(o.item)' # {}
    <3> DEFINE l == LatestVintage(o.item)'
    <3>1. l = LastVintage(vintages', o.item)
      BY DEF LatestVintage, LastVintage, VintagesOf
    <3>2. Recording(o)' = [item |-> o.item, revision |-> l.revision + 1, availability |-> o.at,
                           content |-> o.content, channels |-> l.channels \cup {o.channel}]
      BY <2>2 DEF Recording
    <3>3. Recording(o)'.content = o.content /\ Recording(o)'.channels = l.channels \cup {o.channel}
      BY <3>2
    <3>4. (l.channels \cup {o.channel} = l.channels) <=> o.channel \in l.channels
      OBVIOUS
    <3>5. Repeated(o)' <=> o.content = l.content /\ o.channel \in l.channels
      BY <2>2, <3>3, <3>4 DEF Repeated
    <3> HIDE DEF l
    <3> QED
      BY <2>2, <3>1, <3>5 DEF RepeatedIn, VintagesOf
  <2> QED
    BY <2>1, <2>2
<1> QED
  BY <1>1, <1>2

\* The latest vintage of an item is the one with the greatest number.
LEMMA LastVintageIs ==
  ASSUME NEW V, NEW i, NEW l \in V, l.item = i,
         Numbered({x \in V : x.item = i}), TypedRows({x \in V : x.item = i}),
         \A x \in V : x.item = i => x.revision <= l.revision
  PROVE  LastVintage(V, i) = l
<1> DEFINE rows == {x \in V : x.item = i}
           m == LastVintage(V, i)
<1>1. l \in rows /\ \A x \in rows : x.revision <= l.revision
  OBVIOUS
<1>2. m \in rows /\ \A x \in rows : x.revision <= m.revision
  <2>1. \E v \in rows : \A x \in rows : x.revision <= v.revision
    BY <1>1
  <2> QED
    BY <2>1 DEF LastVintage
<1> HIDE DEF rows, m
<1>3. m.revision \in Nat /\ l.revision \in Nat
  BY <1>1, <1>2 DEF TypedRows, rows
<1>4. m.revision = l.revision
  BY <1>1, <1>2, <1>3
<1>5. Numbered(rows)
  BY DEF rows
<1>6. m = l
  BY <1>1, <1>2, <1>4, <1>5 DEF Numbered
<1> QED
  BY <1>6 DEF m

\* What a run has observed it would not record again.
LEMMA ObservationsStayed ==
  ASSUME IInv, NEW w \in Workers, Record(w), Typed', Histories'
  PROVE  ObservationsStand'
<1> DEFINE o == Next1(w)
           row == Recording(o)
           i == o.item
<1>1. /\ pc[w] = "record" /\ RecordOK(w) /\ Typed /\ Histories /\ ObservationsStand
  BY DEF Record, IInv, CallOK, ReplaysAreHarmless
<1>2. /\ todo[w] \in Seq(Fetched) /\ todo[w] # <<>> /\ 1 \in 1..Len(todo[w]) /\ o = todo[w][1]
  BY <1>1 DEF RecordOK, Next1
<1>3. o \in Fetched /\ i \in Nat
  <2>1. o \in Fetched
    BY <1>2
  <2> HIDE DEF o
  <2> QED
    BY <2>1 DEF Fetched
<1>4. CASE vintages' = vintages /\ echo' = echo
  <2>1. ASSUME NEW p \in echo'.observations PROVE Repeated(p)'
    <3>1. Repeated(p)
      BY <1>1, <1>4, <2>1 DEF ObservationsStand
    <3> QED
      BY <1>4, <3>1, RepeatedIs
  <2> QED
    BY <2>1 DEF ObservationsStand
<1>5. CASE /\ ~Late(o) /\ vintages' = vintages \cup (IF Repeated(o) THEN {} ELSE {row})
           /\ echo' = [pass |-> job[w].pass,
                       observations |-> {o} \cup
                          (IF echo.pass = job[w].pass THEN echo.observations ELSE {})]
  <2>1. ASSUME NEW p \in echo'.observations
        PROVE  p = o \/ (Repeated(p) /\ (p.item = i => p.content = o.content))
    <3>1. p = o \/ (echo.pass = job[w].pass /\ p \in echo.observations)
      BY <1>5
    <3>2. ASSUME echo.pass = job[w].pass, p \in echo.observations
          PROVE  Repeated(p) /\ ~Differ(p, o)
      BY <1>1, <1>2, <3>2 DEF ObservationsStand, RecordOK
    <3> QED
      BY <3>1, <3>2 DEF Differ
  <2>2. CASE Repeated(o)
    <3>1. ASSUME NEW p \in echo'.observations PROVE Repeated(p)'
      <4>1. Repeated(p) /\ vintages' = vintages
        BY <1>5, <2>1, <2>2
      <4> QED
        BY <4>1, RepeatedIs
    <3> QED
      BY <3>1 DEF ObservationsStand
  <2>3. CASE ~Repeated(o)
    <3> DEFINE rows == VintagesOf(i)
               l == LatestVintage(i)
    <3>1. \A x \in rows : x.revision < row.revision
      BY <1>1, <1>3, <1>5, RecordingFits
    <3>2. /\ row.item = i /\ row.content = o.content /\ o.channel \in row.channels
          /\ rows # {} => l.channels \subseteq row.channels
      <4>1. CASE rows = {}
        <5>1. row = [item |-> o.item, revision |-> 0, availability |-> o.at,
                     content |-> o.content, channels |-> {o.channel}]
          BY <4>1 DEF Recording
        <5> QED
          BY <4>1, <5>1
      <4>2. CASE rows # {}
        <5>1. row = [item |-> o.item, revision |-> l.revision + 1, availability |-> o.at,
                     content |-> o.content, channels |-> l.channels \cup {o.channel}]
          BY <4>2 DEF Recording
        <5> HIDE DEF l
        <5> QED
          BY <5>1
      <4> QED
        BY <4>1, <4>2
    <3>3. row.revision \in Nat
      BY <1>1, <1>3, <1>5, RecordingFits DEF NewsItemVintage
    <3>4. \A x \in rows : x.revision \in Nat
      BY <1>1, VintageRows DEF TypedRows
    <3> HIDE DEF l, row
    <3>5. vintages' = vintages \cup {row}
      BY <1>5, <2>3
    <3>6. \A x \in vintages' : x.item = i => x.revision <= row.revision
      BY <3>1, <3>3, <3>4, <3>5 DEF VintagesOf
    <3>7. Numbered({x \in vintages' : x.item = i}) /\ TypedRows({x \in vintages' : x.item = i})
      BY <1>3 DEF Histories, Typed, VintagesOf, TypedRows, NewsItemVintage
    <3>8. LastVintage(vintages', i) = row
      BY <3>2, <3>5, <3>6, <3>7, LastVintageIs
    <3>9. l = LastVintage(vintages, i)
      BY DEF l, LatestVintage, LastVintage, VintagesOf
    <3> HIDE DEF o, i
    <3>10. ASSUME NEW p \in echo'.observations PROVE RepeatedIn(vintages', p)
      <4>1. CASE p.item # i
        <5>1. Repeated(p)
          BY <2>1, <4>1 DEF i
        <5>2. RepeatedIn(vintages, p)
          BY <5>1, RepeatedIs
        <5>3. {x \in vintages' : x.item = p.item} = {x \in vintages : x.item = p.item}
          BY <3>2, <3>5, <4>1
        <5>4. LastVintage(vintages', p.item) = LastVintage(vintages, p.item)
          BY <5>3 DEF LastVintage
        <5> QED
          BY <5>2, <5>3, <5>4 DEF RepeatedIn
      <4>2. CASE p.item = i
        <5>1. row \in {x \in vintages' : x.item = p.item}
          BY <3>2, <3>5, <4>2
        <5>2. p.content = row.content
          BY <2>1, <3>2, <4>2
        <5>3. p.channel \in row.channels
          <6>1. CASE p = o
            BY <3>2, <6>1
          <6>2. CASE p # o
            <7>1. RepeatedIn(vintages, p)
              BY <2>1, <6>2, RepeatedIs
            <7>2. rows # {} /\ p.channel \in l.channels
              BY <3>9, <4>2, <7>1 DEF RepeatedIn, VintagesOf
            <7> QED
              BY <3>2, <7>2
          <6> QED
            BY <6>1, <6>2
        <5> QED
          BY <3>8, <4>2, <5>1, <5>2, <5>3 DEF RepeatedIn
      <4> QED
        BY <4>1, <4>2
    <3> QED
      BY <3>10, RepeatedIs DEF ObservationsStand
  <2> QED
    BY <2>2, <2>3
<1> QED
  BY <1>4, <1>5 DEF Record

\* A run's observations repeat from when they are recorded on.
LEMMA ObservationsStep ==
  ASSUME IInv, NEW w \in Workers, Step(w), Typed', Histories'
  PROVE  ObservationsStand'
<1>1. CASE Record(w)
  BY <1>1, ObservationsStayed
<1>2. CASE vintages' = vintages /\ echo' = echo
  <2>1. ASSUME NEW p \in echo'.observations PROVE Repeated(p)'
    <3>1. Repeated(p)
      BY <1>2, <2>1 DEF IInv, ReplaysAreHarmless, ObservationsStand
    <3> QED
      BY <1>2, <3>1, RepeatedIs
  <2> QED
    BY <2>1 DEF ObservationsStand
<1>3. ~Record(w) => vintages' = vintages /\ echo' = echo
  BY DEF Step, PipelineStep, RegistryStep, registryVars, tables, StartIngestion, Fetch,
     StartCanonicalization, ReadPairs, StartReview, ReadRelation, AddRelation,
     StartClassification, ReadItems, ReadAnnotation, ReadHistory, AddAnnotation, Start,
     Attempt, Report, StartBootstrap, ReadCandidates, ReadSource, ReadIdentity, ReadIdentities,
     Register, AddIdentity, ReadAttribution, ReadAttributions, AddAttribution
<1> QED
  BY <1>1, <1>2, <1>3

-----------------------------------------------------------------------------
(* The invariant.                                                          *)

\* What is written keeps what the tables promise.
LEMMA DataStep ==
  ASSUME IInv, Written, plan' = plan
  PROVE  /\ Typed' /\ Histories' /\ Registers' /\ TablesGrow
         /\ AutomaticComesFirst' /\ Deterministic' /\ EvidenceBeforeJudgement'
<1>1. Typed' /\ Histories' /\ Registers' /\ TablesGrow
  BY TablesStep
<1>2. AutomaticComesFirst' /\ Deterministic'
  BY AutomaticStays, DeterministicStays DEF IInv, Written
<1>3. EvidenceBeforeJudgement'
  BY <1>1, EvidenceStays DEF IInv, Written
<1> QED
  BY <1>1, <1>2, <1>3

\* A step of a pass keeps the invariant.
LEMMA StepKeeps ==
  ASSUME IInv, NEW w \in Workers, Step(w), Control'
  PROVE  IInv'
<1>1. Moves(w) /\ Written
  BY StepMoves, StepWrites DEF IInv
<1>2. /\ Typed' /\ Histories' /\ Registers' /\ TablesGrow
      /\ AutomaticComesFirst' /\ Deterministic' /\ EvidenceBeforeJudgement'
  BY <1>1, DataStep DEF Moves
<1>3. ReplaysAreHarmless'
  BY <1>2, ObservationsStep, ImprintStands DEF ReplaysAreHarmless
<1>4. CallOK(w)'
  BY <1>1, <1>2, StepKnows
<1>5. ASSUME NEW v \in Workers, v # w PROVE CallOK(v)'
  <2>1. Stays(v)
    BY <1>1, <1>5 DEF Moves, Own, Stays
  <2>2. echo' = echo \/ (pc[v] # "idle" => echo'.pass # job[v].pass)
    BY <1>1, <1>5 DEF Moves, IInv, Control, PassesAreDistinct
  <2> QED
    BY <1>2, <2>1, <2>2, OthersKnow
<1>6. \A v \in Workers : CallOK(v)'
  BY <1>4, <1>5
<1> QED
  BY <1>2, <1>3, <1>6 DEF IInv

\* So does the passing of time.
LEMMA RestKeeps ==
  ASSUME IInv, (Tick /\ UNCHANGED registryVars) \/ UNCHANGED vars, Control'
  PROVE  IInv'
<1>1. /\ UNCHANGED <<plan, vintages, relations, annotations, sources, identities, attributions>>
      /\ UNCHANGED <<attempts, echo, imprint, pc, job, todo, held>>
  BY DEF Tick, tables, vars, pipelineVars, registryVars, registryTables
<1>2. Written
  BY <1>1 DEF Written, VintagesWritten, RelationsWritten, AnnotationsWritten, IdentitiesWritten,
     AttributionsWritten, IInv, Typed
<1>3. /\ Typed' /\ Histories' /\ Registers' /\ TablesGrow
      /\ AutomaticComesFirst' /\ Deterministic' /\ EvidenceBeforeJudgement'
  BY <1>1, <1>2, DataStep
<1>4. ASSUME NEW p \in echo'.observations PROVE Repeated(p)'
  <2>1. Repeated(p)
    BY <1>1, <1>4 DEF IInv, ReplaysAreHarmless, ObservationsStand
  <2> QED
    BY <1>1, <2>1, RepeatedIs
<1>5. ASSUME NEW entry \in imprint'.entries PROVE Recorded(entry)'
  <2>1. Recorded(entry) /\ Registers
    BY <1>1, <1>5 DEF IInv, ReplaysAreHarmless
  <2> QED
    BY <1>3, <2>1, RecordedStays
<1>6. ReplaysAreHarmless'
  BY <1>4, <1>5 DEF ReplaysAreHarmless, ObservationsStand
<1>7. \A v \in Workers : CallOK(v)'
  <2>1. SUFFICES ASSUME NEW v \in Workers PROVE CallOK(v)'
    OBVIOUS
  <2>2. Stays(v)
    BY <1>1 DEF Stays
  <2> QED
    BY <1>1, <1>3, <2>2, OthersKnow
<1> QED
  BY <1>3, <1>6, <1>7 DEF IInv

\* The inductive invariant: what the tables promise, and what every pass under
\* way knows of them.
LEMMA InvariantHolds == Spec => []IInv
<1>1. IInv /\ [Next]_vars => IInv'
  <2> SUFFICES ASSUME IInv, [Next]_vars PROVE IInv'
    OBVIOUS
  <2>1. Control'
    BY ControlStep DEF IInv
  <2>2. CASE (Tick /\ UNCHANGED registryVars) \/ UNCHANGED vars
    BY <2>1, <2>2, RestKeeps
  <2>3. ASSUME NEW w \in Workers, Step(w) PROVE IInv'
    BY <2>1, <2>3, StepKeeps
  <2> QED
    BY <2>2, <2>3 DEF Next, Step
<1> QED
  BY InitEstablishes, <1>1, PTL DEF Spec

-----------------------------------------------------------------------------
(* What is told of an instant, of any tables.                              *)

\* What is added to rows is later than t.
Adds(old, new, t) == old \subseteq new /\ \A r \in new \ old : ~(r.availability <= t)

\* Then nothing else is known at t.
LEMMA AddsNothingKnown ==
  ASSUME NEW old, NEW new, NEW t, Adds(old, new, t)
  PROVE  KnownAt(new, t) = KnownAt(old, t)
  BY DEF Adds, KnownAt

\* The reads that go by what is known.
LEMMA ReadsAgree ==
  ASSUME NEW V, NEW W, NEW t, KnownAt(V, t) = KnownAt(W, t)
  PROVE  /\ SeenItems(V, t) = SeenItems(W, t)
         /\ \A from : Within(V, from, t) = Within(W, from, t)
         /\ \A i : Evidence(V, i, t) = Evidence(W, i, t)
         /\ \A i : Annotation(V, i, t) = Annotation(W, i, t)
         /\ Joined(V, t) = Joined(W, t) /\ Rejected(V, t) = Rejected(W, t)
         /\ \A s : IdentityAt(V, s, t) = IdentityAt(W, s, t)
         /\ \A i, role : AttributionFor(V, i, role, t) = AttributionFor(W, i, role, t)
<1>1. RelationStates(V, t) = RelationStates(W, t)
  BY DEF RelationStates
<1>2. \A X : KnownAt({v \in X : ~v.content.backfill}, t)
                = {v \in KnownAt(X, t) : ~v.content.backfill}
  BY DEF KnownAt
<1>3. KnownAt({v \in V : ~v.content.backfill}, t) = KnownAt({v \in W : ~v.content.backfill}, t)
  BY <1>2
<1>4. \A i : Evidence(V, i, t) = Evidence(W, i, t)
  BY <1>3 DEF Evidence, EvidenceWithBackfill
<1> QED
  BY <1>1, <1>4 DEF SeenItems, Within, Annotation, Joined, Rejected, IdentityAt, AttributionFor

\* The instants items were first seen at, where both tables agree on them.
FirstsAgree(V, W, t) == \A i \in SeenItems(V, t) : FirstSeen(V, i) = FirstSeen(W, i)

\* GetPairNewsEvidenceSnapshot looks at nothing else.
LEMMA SnapshotsAgree ==
  ASSUME NEW V, NEW W, NEW R, NEW Q, NEW A, NEW B, NEW base, NEW quote, NEW from, NEW t,
         KnownAt(V, t) = KnownAt(W, t), KnownAt(R, t) = KnownAt(Q, t),
         KnownAt(A, t) = KnownAt(B, t), FirstsAgree(V, W, t)
  PROVE  Snapshot(V, R, A, base, quote, from, t) = Snapshot(W, Q, B, base, quote, from, t)
<1> DEFINE first == [i \in SeenItems(V, t) |-> FirstSeen(V, i)]
           said  == [i \in SeenItems(V, t) |-> Evidence(V, i, t)]
           noted == [i \in SeenItems(V, t) |-> Annotation(A, i, t)]
           refused == Inconsistent(Stories(V, R, t), R, t)
<1>0. /\ SeenItems(V, t) = SeenItems(W, t) /\ \A i : Evidence(V, i, t) = Evidence(W, i, t)
      /\ Joined(R, t) = Joined(Q, t) /\ Rejected(R, t) = Rejected(Q, t)
      /\ \A i : Annotation(A, i, t) = Annotation(B, i, t)
  BY ReadsAgree
<1>s. Stories(V, R, t) = Stories(W, Q, t)
  BY Zenon, <1>0 DEF Stories
<1>1. first = [i \in SeenItems(W, t) |-> FirstSeen(W, i)]
  BY <1>0 DEF FirstsAgree
<1>2. said = [i \in SeenItems(W, t) |-> Evidence(W, i, t)]
  BY <1>0
<1>3. noted = [i \in SeenItems(W, t) |-> Annotation(B, i, t)]
  BY <1>0
<1>4. refused = Inconsistent(Stories(W, Q, t), Q, t)
  BY <1>0, <1>s DEF Inconsistent
<1> HIDE DEF first, said, noted, refused
<1> DEFINE Answered(stories, joined) ==
             [refused |-> refused,
              stories |-> IF refused THEN {}
                          ELSE {[key |-> Eldest(first, s), canonical |-> s,
                                 told |-> Told(first, said, noted, joined, base, quote, from, t, s)] :
                                   s \in stories}]
<1>5. Snapshot(V, R, A, base, quote, from, t) = Answered(Stories(V, R, t), Joined(R, t))
  BY DEF Snapshot, first, said, noted, refused
<1>6. Snapshot(W, Q, B, base, quote, from, t) = Answered(Stories(W, Q, t), Joined(Q, t))
  BY Zenon, <1>1, <1>2, <1>3, <1>4 DEF Snapshot
<1> HIDE DEF Answered
<1> QED
  BY <1>0, <1>s, <1>5, <1>6

\* ResolvePublisherForNewsItemAsOf looks at the attributed source besides, whenever
\* it was registered.
LEMMA PublishersAgree ==
  ASSUME NEW S, NEW T, NEW I, NEW J, NEW A, NEW B, NEW i, NEW t,
         \A a \in KnownAt(A, t) : {x \in S : x.source = a.source} = {x \in T : x.source = a.source},
         KnownAt(I, t) = KnownAt(J, t), KnownAt(A, t) = KnownAt(B, t)
  PROVE  PublisherAt(S, I, A, i, t) = PublisherAt(T, J, B, i, t)
<1> DEFINE attributed == AttributionFor(A, i, "PUBLISHER", t)
           a == CHOOSE x \in attributed : TRUE
<1>1. attributed = AttributionFor(B, i, "PUBLISHER", t)
  BY ReadsAgree
<1>2. attributed \subseteq KnownAt(A, t)
  BY DEF AttributionFor, Newest
<1>3. \A s : IdentityAt(I, s, t) = IdentityAt(J, s, t)
  BY ReadsAgree
<1>4. attributed # {} => {x \in S : x.source = a.source} = {x \in T : x.source = a.source}
  BY <1>2
<1> QED
  BY <1>1, <1>3, <1>4 DEF PublisherAt

\* And GetSourceOperationalProfileAsOf at nothing more, but for its coverage.
LEMMA ProfilesAgree ==
  ASSUME NEW V, NEW W, NEW S, NEW T, NEW I, NEW J, NEW A, NEW B, NEW P, NEW Q, NEW source,
         NEW from, NEW t,
         \A a \in KnownAt(A, t) : {x \in S : x.source = a.source} = {x \in T : x.source = a.source},
         KnownAt(V, t) = KnownAt(W, t), KnownAt(I, t) = KnownAt(J, t),
         KnownAt(A, t) = KnownAt(B, t), KnownAt(P, t) = KnownAt(Q, t), FirstsAgree(V, W, t)
  PROVE  Reading(Profile(V, S, I, A, P, source, from, t))
            = Reading(Profile(W, T, J, B, Q, source, from, t))
<1>1. /\ SeenItems(V, t) = SeenItems(W, t) /\ Within(V, from, t) = Within(W, from, t)
      /\ Within(P, from, t) = Within(Q, from, t)
      /\ IdentityAt(I, source, t) = IdentityAt(J, source, t)
  BY ReadsAgree
<1>2. Representatives(V, t) = Representatives(W, t)
  BY <1>1 DEF Representatives, FirstsAgree
<1>3. \A i : PublisherAt(S, I, A, i, t) = PublisherAt(T, J, B, i, t)
  BY PublishersAgree
<1>4. {PublisherAt(S, I, A, i, t) : i \in Representatives(V, t)}
         = {PublisherAt(T, J, B, i, t) : i \in Representatives(W, t)}
  BY <1>2, <1>3
<1>5. Acquisition(P, source, from, t) = Acquisition(Q, source, from, t)
  BY Zenon, <1>1 DEF Acquisition
<1>6. Activity(V, from, t) = Activity(W, from, t)
  BY <1>1 DEF Activity
<1>7. Latency(V, from, t) = Latency(W, from, t)
  BY Zenon, <1>1 DEF Latency
<1>8. {v.name : v \in IdentityAt(I, source, t)} = {v.name : v \in IdentityAt(J, source, t)}
  BY <1>1
<1> QED
  BY <1>4, <1>5, <1>6, <1>7, <1>8 DEF Profile, Reading

-----------------------------------------------------------------------------
(* Settled instants.                                                       *)

\* No pass is at work that may still write of an instant up to t, unless some is.
LEMMA NothingPending ==
  ASSUME NEW t, ~Pending(t), NEW w \in Workers
  PROVE  /\ pc[w] = "report" => ~(held[w].at <= t)
         /\ pc[w] = "record" => \A n \in 1..Len(todo[w]) : ~(todo[w][n].at <= t)
         /\ pc[w] \notin {"idle", "fetch", "report", "record"} => ~(job[w].at <= t)
<1>1. ~CASE pc[w] = "idle" -> FALSE
         [] pc[w] \in {"fetch", "report", "record"} ->
              \/ pc[w] = "report" /\ held[w].at <= t
              \/ \E n \in 1..Len(todo[w]) : todo[w][n].at <= t
         [] OTHER -> job[w].at <= t
  BY DEF Pending
<1>2. CASE pc[w] = "idle"
  BY <1>2
<1>3. CASE pc[w] \in {"fetch", "report", "record"}
  <2>1. pc[w] # "idle"
    BY <1>3
  <2> QED
    BY <1>1, <1>3, <2>1
<1>4. CASE pc[w] \notin {"idle", "fetch", "report", "record"}
  BY <1>1, <1>4
<1> QED
  BY <1>2, <1>3, <1>4

\* What is written is later than t.
LaterOnly(t) ==
    /\ Adds(vintages, vintages', t) /\ Adds(relations, relations', t)
    /\ Adds(annotations, annotations', t) /\ Adds(identities, identities', t)
    /\ Adds(attributions, attributions', t) /\ Adds(attempts, attempts', t)

\* What adds nothing adds nothing that was known,
LEMMA AddsNone == \A rows, t : Adds(rows, rows, t)
  BY DEF Adds

\* and neither does one row with a later stamp.
LEMMA AddsOne ==
  ASSUME NEW rows, NEW row, NEW t, ~(row.availability <= t)
  PROVE  Adds(rows, rows \cup {row}, t)
  BY DEF Adds

\* Every pass stamps what it writes with the instant it read the clock at.
LEMMA SettledWrites ==
  ASSUME IInv, NEW w \in Workers, Step(w), NEW t, ~Pending(t)
  PROVE  LaterOnly(t)
<1> USE AddsNone
<1> DEFINE Same == UNCHANGED <<vintages, relations, annotations, sources, identities, attributions>>
<1>1. CASE Record(w) /\ UNCHANGED registryVars
  <2> DEFINE o == Next1(w)
  <2>1. pc[w] = "record" /\ todo[w] \in Seq(Fetched) \ {<<>>}
    BY <1>1 DEF Record, IInv, CallOK, RecordOK
  <2>2. o = todo[w][1] /\ 1 \in 1..Len(todo[w])
    BY <2>1 DEF Next1
  <2>3. ~(o.at <= t)
    BY <2>1, <2>2, NothingPending
  <2>4. Recording(o).availability = o.at
    BY DEF Recording
  <2>5. vintages' = vintages \/ vintages' = vintages \cup {Recording(o)}
    BY <1>1 DEF Record
  <2> HIDE DEF o
  <2>6. Adds(vintages, vintages', t)
    BY <2>3, <2>4, <2>5, AddsOne
  <2> QED
    BY <1>1, <2>6 DEF Record, LaterOnly, registryVars, registryTables
<1>2. CASE AddRelation(w) /\ UNCHANGED registryVars
  <2>1. ~(job[w].at <= t)
    BY <1>2, NothingPending DEF AddRelation
  <2>2. \/ relations' = relations
        \/ \E row : row.availability = job[w].at /\ relations' = relations \cup {row}
    BY <1>2 DEF AddRelation
  <2>3. Adds(relations, relations', t)
    BY <2>1, <2>2, AddsOne
  <2> QED
    BY <1>2, <2>3 DEF AddRelation, LaterOnly, registryVars, registryTables
<1>3. CASE AddAnnotation(w) /\ UNCHANGED registryVars
  <2>1. ~(job[w].at <= t)
    BY <1>3, NothingPending DEF AddAnnotation
  <2>2. \/ annotations' = annotations
        \/ \E row : row.availability = job[w].at /\ annotations' = annotations \cup {row}
    BY <1>3 DEF AddAnnotation
  <2>3. Adds(annotations, annotations', t)
    BY <2>1, <2>2, AddsOne
  <2> QED
    BY <1>3, <2>3 DEF AddAnnotation, LaterOnly, registryVars, registryTables
<1>4. CASE Register(w) \/ AddIdentity(w)
  <2>1. ~(job[w].at <= t)
    BY <1>4, NothingPending DEF Register, AddIdentity
  <2>2. \/ identities' = identities
        \/ \E row : row.availability = job[w].at /\ identities' = identities \cup {row}
    BY <1>4 DEF Register, AddIdentity, IdentityRow
  <2>3. Adds(identities, identities', t)
    BY <2>1, <2>2, AddsOne
  <2> QED
    BY <1>4, <2>3 DEF Register, AddIdentity, LaterOnly, tables
<1>5. CASE AddAttribution(w)
  <2>1. ~(job[w].at <= t)
    BY <1>5, NothingPending DEF AddAttribution
  <2>2. \/ attributions' = attributions
        \/ \E row : row.availability = job[w].at /\ attributions' = attributions \cup {row}
    BY <1>5 DEF AddAttribution
  <2>3. Adds(attributions, attributions', t)
    BY <2>1, <2>2, AddsOne
  <2> QED
    BY <1>5, <2>3 DEF AddAttribution, LaterOnly, tables
<1>6. CASE Report(w)
  <2>1. ~(Observation(w).availability <= t)
    BY <1>6, NothingPending DEF Report, Observation
  <2>2. attempts' = attempts \/ attempts' = attempts \cup {Observation(w)}
    BY <1>6 DEF Report
  <2>3. Adds(attempts, attempts', t)
    BY <2>1, <2>2, AddsOne
  <2> QED
    BY <1>6, <2>3 DEF Report, LaterOnly, tables, registryTables
<1>7. CASE Same /\ attempts' = attempts
  BY <1>7 DEF LaterOnly
<1>8. ASSUME NEW pass, NEW s, NEW more, NEW work, Start(w, pass, s, more, work),
             UNCHANGED registryVars
      PROVE  LaterOnly(t)
  BY <1>7, <1>8 DEF Start, registryVars, registryTables, tables
<1>9. CASE /\ UNCHANGED registryVars
           /\ \/ StartIngestion(w) \/ StartCanonicalization(w)
              \/ StartReview(w) \/ StartClassification(w)
  <2>1. \E pass, s, more, work : Start(w, pass, s, more, work)
    BY <1>9 DEF StartIngestion, StartCanonicalization, StartReview, StartClassification
  <2> QED
    BY <1>8, <1>9, <2>1
<1>10. CASE /\ UNCHANGED registryVars
            /\ \/ Fetch(w) \/ ReadPairs(w) \/ ReadRelation(w) \/ ReadItems(w)
               \/ ReadAnnotation(w) \/ ReadHistory(w)
  BY <1>7, <1>10 DEF Fetch, ReadPairs, ReadRelation, ReadItems, ReadAnnotation, ReadHistory,
     tables, registryVars, registryTables
<1>11. CASE StartBootstrap(w)
  BY <1>8, <1>11 DEF StartBootstrap
<1>12. CASE \/ Attempt(w) \/ ReadCandidates(w) \/ ReadSource(w) \/ ReadIdentity(w)
            \/ ReadIdentities(w) \/ ReadAttribution(w) \/ ReadAttributions(w)
  BY <1>7, <1>12 DEF Attempt, ReadCandidates, ReadSource, ReadIdentity, ReadIdentities,
     ReadAttribution, ReadAttributions, tables, registryVars, registryTables
<1> QED
  BY <1>1, <1>2, <1>3, <1>4, <1>5, <1>6, <1>9, <1>10, <1>11, <1>12
     DEF Step, PipelineStep, RegistryStep

\* An item has one first vintage.
LEMMA FirstIs ==
  ASSUME NEW V, NEW i, NEW v \in V, v.item = i, v.revision = 0, Numbered({x \in V : x.item = i})
  PROVE  FirstSeen(V, i) = v.availability
<1>1. \A x \in V : x.item = i /\ x.revision = 0 => x = v
  BY DEF Numbered
<1> QED
  BY <1>1 DEF FirstSeen

\* So the instants items were first seen at stand.
LEMMA FirstsStay ==
  ASSUME Typed, Histories, Histories', vintages \subseteq vintages', NEW t
  PROVE  FirstsAgree(vintages, vintages', t)
<1> SUFFICES ASSUME NEW i \in SeenItems(vintages, t)
             PROVE  FirstSeen(vintages, i) = FirstSeen(vintages', i)
  BY DEF FirstsAgree
<1>1. PICK v \in vintages : v.item = i /\ v.revision = 0
  BY DEF SeenItems, KnownAt
<1>2. i \in Nat
  BY <1>1 DEF Typed, NewsItemVintage
<1>3. Numbered({x \in vintages : x.item = i})
  BY <1>2 DEF Histories, VintagesOf
<1>4. Numbered({x \in vintages' : x.item = i})
  BY <1>2 DEF Histories, VintagesOf
<1>5. FirstSeen(vintages, i) = v.availability
  BY <1>1, <1>3, FirstIs
<1>6. FirstSeen(vintages', i) = v.availability
  BY <1>1, <1>4, FirstIs
<1> QED
  BY <1>5, <1>6

\* So nothing that is told of a settled instant changes.
LEMMA SettledStep ==
  ASSUME IInv, NEW w \in Workers, Step(w), NEW t \in Times, ~Pending(t), NEW from
  PROVE  Answer(from, t)' = Answer(from, t)
<1>1. LaterOnly(t)
  BY SettledWrites
<1>2. Typed' /\ Histories' /\ TablesGrow
  BY StepWrites, StepMoves, TablesStep DEF IInv, Moves
<1>3. vintages \subseteq vintages'
  BY <1>1 DEF LaterOnly, Adds
<1>4. FirstsAgree(vintages, vintages', t)
  BY <1>2, <1>3, FirstsStay DEF IInv
<1>5. /\ KnownAt(vintages, t) = KnownAt(vintages', t) /\ KnownAt(relations, t) = KnownAt(relations', t)
      /\ KnownAt(annotations, t) = KnownAt(annotations', t)
      /\ KnownAt(identities, t) = KnownAt(identities', t)
      /\ KnownAt(attributions, t) = KnownAt(attributions', t)
      /\ KnownAt(attempts, t) = KnownAt(attempts', t)
  BY <1>1, AddsNothingKnown DEF LaterOnly
<1>6. \A a \in KnownAt(attributions, t) :
         {x \in sources : x.source = a.source} = {x \in sources' : x.source = a.source}
  <2> SUFFICES ASSUME NEW a \in KnownAt(attributions, t)
               PROVE  {x \in sources : x.source = a.source} = {x \in sources' : x.source = a.source}
    OBVIOUS
  <2>1. a \in attributions
    BY DEF KnownAt
  <2>2. a.source \in {s.source : s \in sources}
    BY <2>1 DEF IInv, EvidenceBeforeJudgement
  <2>3. SourceOf(a.source) # {}
    BY <2>2 DEF SourceOf
  <2>4. SourceOf(a.source)' = SourceOf(a.source)
    BY <1>2, <2>3 DEF TablesGrow
  <2> QED
    BY <2>4 DEF SourceOf
<1>7. Snapshot(vintages, relations, annotations, Base, Quote, from, t)
         = Snapshot(vintages', relations', annotations', Base, Quote, from, t)
  BY <1>4, <1>5, SnapshotsAgree
<1>8. Reading(Profile(vintages, sources, identities, attributions, attempts, Feed, from, t))
         = Reading(Profile(vintages', sources', identities', attributions', attempts', Feed, from, t))
  BY <1>4, <1>5, <1>6, ProfilesAgree
<1>9. /\ SeenItems(vintages, t) = SeenItems(vintages', t)
      /\ \A i, role : AttributionFor(attributions, i, role, t) = AttributionFor(attributions', i, role, t)
  BY <1>5, ReadsAgree
<1>10. \A i : AttributionsAt(attributions, i, t) = AttributionsAt(attributions', i, t)
  BY <1>9 DEF AttributionsAt
<1>11. {AttributionsAt(attributions, i, t) : i \in SeenItems(vintages, t)}
          = {AttributionsAt(attributions', i, t) : i \in SeenItems(vintages', t)}
  BY <1>9, <1>10
<1> QED
  BY <1>7, <1>8, <1>11 DEF Answer

-----------------------------------------------------------------------------
(* The theorems.                                                           *)

\* Every table of news rows, and those of the registry, numbers its rows from
\* zero without gap and in time order, and every source is registered once, with
\* an identity, under any number of passes that read and write at once
\* (the repositories' add_* methods, which refuse a number that is taken).
THEOREM TypeCorrect == Spec => []TypeOK
<1>1. IInv => TypeOK
  <2> SUFFICES ASSUME IInv PROVE TypeOK
    OBVIOUS
  <2>1. Control /\ Typed /\ Histories /\ Registers
    BY DEF IInv
  <2>2. ASSUME NEW v \in vintages PROVE History(VintagesOf(v.item))
    <3>1. v.item \in Nat
      BY <2>1 DEF Typed, NewsItemVintage
    <3>2. Numbered(VintagesOf(v.item))
      BY <2>1, <3>1 DEF Histories
    <3> QED
      BY <2>1, <3>2, VintageRows, NumberedIsHistory
  <2>3. ASSUME NEW r \in relations PROVE History(RelationsOf(r))
    <3>1. r.left \in Nat /\ r.right \in Nat
      BY <2>1 DEF Typed, NewsCanonicalRelation
    <3> QED
      BY <2>1, <3>1, RelationHistory, RelationRows, NumberedIsHistory
  <2>4. ASSUME NEW a \in annotations PROVE History(AnnotationsOf(a.item))
    <3>1. a.item \in Nat
      BY <2>1 DEF Typed, NewsSemanticAnnotation
    <3>2. Numbered(AnnotationsOf(a.item))
      BY <2>1, <3>1 DEF Histories
    <3> QED
      BY <2>1, <3>2, AnnotationRows, NumberedIsHistory
  <2>5. ASSUME NEW v \in identities PROVE History(IdentitiesOf(v.source))
    <3>1. v.source \in STRING
      BY <2>1 DEF Typed, SourceIdentity
    <3>2. Numbered(IdentitiesOf(v.source))
      BY <2>1, <3>1 DEF Histories
    <3> QED
      BY <2>1, <3>2, IdentityRows, NumberedIsHistory
  <2>6. ASSUME NEW a \in attributions PROVE History(AttributionsOf(a))
    <3>1. a.item \in Nat /\ a.role \in Roles
      BY <2>1 DEF Typed, SourceAttribution
    <3> QED
      BY <2>1, <3>1, AttributionHistory, AttributionRows, NumberedIsHistory
  <2>7. \A s \in sources : s.kind \in Kinds
    BY <2>1 DEF Typed, IntelligenceSource
  <2> QED
    BY <2>1, <2>2, <2>3, <2>4, <2>5, <2>6, <2>7 DEF TypeOK, Control, Typed, Registers, NewsHistories
<1> QED
  BY InvariantHolds, <1>1, PTL

\* An automatic pass never joins two items again that a reviewer has separated,
\* not even one that had read the pair before the verdict was written
\* (record_news_canonical_relation.py).
THEOREM ReviewsAreKept == Spec => []ReviewsStand
<1>1. IInv => ReviewsStand
  <2> SUFFICES ASSUME IInv, NEW r \in relations, r.method = "AUTOMATIC",
                      NEW h \in RelationsOf(r), h.revision < r.revision
               PROVE  FALSE
    BY DEF ReviewsStand
  <2>1. r.revision = 0
    BY DEF IInv, AutomaticComesFirst
  <2>2. h.revision \in Nat
    BY RelationRows DEF IInv, TypedRows
  <2> QED
    BY <2>1, <2>2
<1> QED
  BY InvariantHolds, <1>1, PTL

\* Every relation, annotation and attribution rests on revisions that were known
\* at the instant it claims, and whoever an item is attributed to was registered
\* and named by then, although each was read and is written at another time
\* (canonicalize_news_once.py, classify_news_once.py, bootstrap_source_registry.py).
THEOREM JudgementsHaveEvidenceFirst == Spec => []EvidenceBeforeJudgement
<1>1. IInv => EvidenceBeforeJudgement
  BY DEF IInv
<1> QED
  BY InvariantHolds, <1>1, PTL

\* Observations a run has recorded would add nothing if they came again, and an
\* entry a bootstrap was told to stand does stand, for good and uncontradicted
\* (record_news_observation.py, record_source_identity_vintage.py,
\* record_source_attribution.py).
THEOREM ReplaysStayHarmless == Spec => []ReplaysAreHarmless
<1>1. IInv => ReplaysAreHarmless
  BY DEF IInv
<1> QED
  BY InvariantHolds, <1>1, PTL

\* What is told of an instant, in the pair snapshot and in the profile of the feed,
\* never changes once no pass that read the clock by then is still at work,
\* whatever is ingested, related, annotated or attributed afterwards
\* (get_pair_news_evidence_snapshot.py, get_source_operational_profile_as_of.py).
THEOREM SettledInstantsStand == Spec => SettledInstantsKeepTheirAnswer
<1>1. ASSUME IInv, [Next]_vars
      PROVE  [\A t \in Times : ~Pending(t) =>
                \A from \in 0..t : Answer(from, t)' = Answer(from, t)]_<<tables, registryTables, attempts>>
  <2>1. CASE (Tick /\ UNCHANGED registryVars) \/ UNCHANGED vars
    BY <2>1 DEF Tick, vars, pipelineVars, registryVars
  <2>2. ASSUME NEW w \in Workers, Step(w)
        PROVE  \A t \in Times : ~Pending(t) => \A from \in 0..t : Answer(from, t)' = Answer(from, t)
    BY <1>1, <2>2, SettledStep
  <2> QED
    BY <1>1, <2>1, <2>2 DEF Next, Step
<1> QED
  BY InvariantHolds, <1>1, PTL DEF Spec, SettledInstantsKeepTheirAnswer
=============================================================================
