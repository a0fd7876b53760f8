------------------------ MODULE ForecastOutcomeProofs ------------------------
(***************************************************************************)
(* That no outcome is ever measured under two keys, that an outcome's      *)
(* history holds one value per evidence and is only ever appended to, and  *)
(* that what a policy has resolved it to stands, proved for any number of  *)
(* calls, keys and identities.                                             *)
(*                                                                         *)
(* The argument: between the insertion of a binding and its commit nobody  *)
(* else holds or has committed a clashing one (ClaimIsExclusive), so a     *)
(* first vintage starts an empty history; after it, a revision number is   *)
(* free only if nothing was added since the latest vintage was read.       *)
(***************************************************************************)
EXTENDS ForecastOutcome, TLAPS

\* Revisions of an outcome are numbered from 0 without gap or repeat, none
\* before its predecessors in time.
Contiguous ==
    \A v \in vintages :
       /\ \A n \in Nat : n <= v.revision => \E e \in RowsOf(v.key) : e.revision = n
       /\ \A e \in RowsOf(v.key) :
             /\ e.revision = v.revision => e = v
             /\ e.revision < v.revision => e.availability <= v.availability

\* The binding a candidate's first vintage is committed with.
BindingOf(c) == [key |-> c.key, identity |-> c.says.identity]

\* What a call remembers of the latest vintage is a vintage of its key, not after
\* its candidate; past the check of the binding it has the candidate's identity.
RemembersLatest(w) ==
    LET c == candidate[w]  l == latest[w] IN
    /\ pc[w] \notin {"binding", "history", "add"} => l = NoRow
    /\ pc[w] \in {"binding", "add"} => l # NoRow
    /\ l # NoRow => l \in RowsOf(c.key) /\ l.availability <= c.availability
    /\ pc[w] \in {"history", "add"} /\ l # NoRow => l.says.identity = c.says.identity

\* What a call is about to append says something new, and contradicts no row up
\* to the latest one it read.
Checked(w) ==
    LET c == candidate[w]  l == latest[w] IN
    pc[w] = "add" =>
       /\ c.says # l.says
       /\ \A h \in RowsOf(c.key) : h.revision <= l.revision /\ SameBasis(h, c) => h.says = c.says

\* A call that has inserted its binding and not committed it is the only one that
\* has, among all that clash with it.
ClaimIsExclusive(w) ==
    pc[w] = "first_vintage" =>
       /\ \A b \in bindings : ~Clashes(b, candidate[w])
       /\ \A x \in Workers : pc[x] = "first_vintage" /\ x # w
                               => ~Clashes(BindingOf(candidate[x]), candidate[w])

CallOK(w) ==
    /\ pc[w] # "idle" => candidate[w] \in Candidate
    /\ RemembersLatest(w) /\ Checked(w) /\ ClaimIsExclusive(w)

CallsOK == \A w \in Workers : CallOK(w)

IInv == TypeOK /\ Contiguous /\ KeysMeasureOneThing /\ BasisIsDeterministic /\ CallsOK

-----------------------------------------------------------------------------
LEMMA InitEstablishes == Init => IInv
BY OutcomeAssumption
   DEF Init, IInv, TypeOK, Contiguous, KeysMeasureOneThing, BasisIsDeterministic, CallsOK, CallOK,
       RemembersLatest, Checked, ClaimIsExclusive, Steps, Outcomes, Written

LEMMA RowTypes ==
  ASSUME vintages \subseteq Vintage, NEW v \in vintages
  PROVE  v \in Vintage /\ v.key \in Keys /\ v.revision \in Nat /\ v.availability \in Nat
         /\ v.availability \in Times /\ v.says \in Reports
BY DEF Vintage, Times

\* The row a candidate becomes after the latest vintage, or as the first.
LEMMA BuildType ==
  ASSUME NEW c \in Candidate, NEW l \in vintages \cup {NoRow}, vintages \subseteq Vintage
  PROVE  /\ Build(c, l) \in Vintage
         /\ Build(c, l).revision = IF l = NoRow THEN 0 ELSE l.revision + 1
         /\ Build(c, l).key = c.key
         /\ Build(c, l).availability = c.availability /\ Build(c, l).says = c.says
BY DEF Build, Candidate, Vintage

LEMMA BindingType ==
  ASSUME NEW c \in Candidate
  PROVE  BindingOf(c) \in Binding /\ BindingOf(c).key = c.key
         /\ BindingOf(c).identity = c.says.identity
BY DEF BindingOf, Binding, Candidate, Identities

\* The row a call is about to append: behind everything its outcome has.
Fits(v) ==
    /\ v \in Vintage
    /\ \A e \in RowsOf(v.key) :
          /\ e.revision < v.revision /\ e.availability <= v.availability
          /\ SameBasis(e, v) => e.says = v.says
    /\ \/ v.revision = 0
       \/ \E l \in RowsOf(v.key) : l.revision + 1 = v.revision /\ l.says # v.says

\* A revision number is free only behind everything its outcome has.
LEMMA NothingBehind ==
  ASSUME vintages \subseteq Vintage, Contiguous, NEW l \in vintages,
         \A e \in RowsOf(l.key) : e.revision # l.revision + 1,
         NEW e \in RowsOf(l.key)
  PROVE  e.revision <= l.revision /\ e.availability <= l.availability
<1>1. e \in vintages /\ e.key = l.key /\ l \in RowsOf(l.key)
  BY DEF RowsOf
<1>2. l.revision \in Nat /\ e.revision \in Nat /\ e.availability \in Nat /\ l.availability \in Nat
  BY <1>1, RowTypes
<1>3. e.revision <= l.revision
  <2> SUFFICES ASSUME l.revision < e.revision PROVE FALSE
    BY <1>2
  <2>1. l.revision + 1 \in Nat /\ l.revision + 1 <= e.revision
    BY <1>2
  <2>2. \E h \in RowsOf(l.key) : h.revision = l.revision + 1
    BY <1>1, <2>1 DEF Contiguous
  <2> QED
    BY <2>2
<1>4. CASE e.revision = l.revision
  <2>1. e = l
    BY <1>1, <1>4 DEF Contiguous
  <2> QED
    BY <1>2, <1>3, <2>1
<1>5. CASE e.revision < l.revision
  BY <1>1, <1>3, <1>5 DEF Contiguous
<1> QED
  BY <1>2, <1>3, <1>4, <1>5

\* The row a writing call commits.
Row(w) == Build(candidate[w], latest[w])

\* add_outcome_vintage inserts its row.
Adds(w) == AddVintage(w) /\ \A e \in RowsOf(candidate[w].key) : e.revision # Row(w).revision

LEMMA AddedFits ==
  ASSUME IInv, NEW w \in Workers, Adds(w)
  PROVE  /\ Fits(Row(w)) /\ Row(w).key = candidate[w].key /\ Row(w).says = candidate[w].says
         /\ vintages' = vintages \cup {Row(w)} /\ bindings' = bindings
         /\ BindingOf(Row(w)) \in bindings
<1> DEFINE c == candidate[w]
           l == latest[w]
           v == Row(w)
<1>0. pc[w] = "add" /\ CallOK(w)
  BY DEF Adds, AddVintage, IInv, CallsOK
<1>1. /\ c \in Candidate /\ l # NoRow /\ l \in RowsOf(c.key) /\ l.availability <= c.availability
      /\ l.says.identity = c.says.identity /\ c.says # l.says
      /\ \A h \in RowsOf(c.key) :
            h.revision <= l.revision /\ SameBasis(h, c) => h.says = c.says
  BY <1>0 DEF CallOK, RemembersLatest, Checked
<1>2. l \in vintages /\ l.key = c.key
  BY <1>1 DEF RowsOf
<1>3. l.revision \in Nat /\ l.availability \in Nat /\ vintages \subseteq Vintage
  BY <1>2, RowTypes DEF IInv, TypeOK
<1>4. /\ v \in Vintage /\ v.key = c.key /\ v.revision = l.revision + 1
      /\ v.availability = c.availability /\ v.says = c.says
  BY <1>1, <1>2, <1>3, BuildType DEF Row
<1>5. c.availability \in Nat
  BY <1>1 DEF Candidate, Times
<1>6. ASSUME NEW e \in RowsOf(c.key)
      PROVE  /\ e.revision < l.revision + 1 /\ e.availability <= c.availability
             /\ SameBasis(e, v) => e.says = v.says
  <2>1. e.revision <= l.revision /\ e.availability <= l.availability
    BY <1>2, <1>3, <1>4, NothingBehind DEF IInv, Adds
  <2>2. e \in vintages
    BY DEF RowsOf
  <2>3. e.revision \in Nat /\ e.availability \in Nat
    BY <1>3, <2>2, RowTypes
  <2>4. SameBasis(e, v) => SameBasis(e, c)
    BY <1>4 DEF SameBasis
  <2> QED
    BY <1>1, <1>3, <1>4, <1>5, <2>1, <2>3, <2>4
<1>7. vintages' = vintages \cup {v} /\ bindings' = bindings
  BY <1>1, <1>4 DEF Adds, AddVintage, Row
<1>8. BindingOf(v) \in bindings
  <2>1. [key |-> l.key, identity |-> l.says.identity] \in bindings
    BY <1>2 DEF IInv, KeysMeasureOneThing
  <2> QED
    BY <1>1, <1>2, <1>4, <2>1 DEF BindingOf
<1> HIDE DEF c, l, v
<1>9. Fits(v)
  BY <1>1, <1>4, <1>6 DEF Fits
<1> QED
  BY <1>4, <1>7, <1>8, <1>9 DEF c, l, v

\* A first vintage starts an empty history, under a binding that clashes with none.
LEMMA FirstFits ==
  ASSUME IInv, NEW w \in Workers, CommitBinding(w)
  PROVE  /\ Fits(Row(w)) /\ Row(w).key = candidate[w].key /\ Row(w).says = candidate[w].says
         /\ Row(w).revision = 0
         /\ vintages' = vintages \cup {Row(w)} /\ bindings' = bindings \cup {BindingOf(Row(w))}
         /\ BindingOf(Row(w)) = BindingOf(candidate[w])
         /\ BindingOf(Row(w)) \in Binding
         /\ \A b \in bindings : b.key # Row(w).key /\ b.identity # Row(w).says.identity
<1>1. /\ pc[w] = "first_vintage" /\ candidate[w] \in Candidate /\ latest[w] = NoRow
      /\ \A b \in bindings : ~Clashes(b, candidate[w])
  BY DEF CommitBinding, IInv, CallsOK, CallOK, RemembersLatest, ClaimIsExclusive
<1>2. /\ Row(w) \in Vintage /\ Row(w).key = candidate[w].key /\ Row(w).revision = 0
      /\ Row(w).says = candidate[w].says /\ vintages \subseteq Vintage
  BY <1>1, BuildType DEF Row, IInv, TypeOK
<1>3. \A b \in bindings : b.key # Row(w).key /\ b.identity # Row(w).says.identity
  BY <1>1, <1>2 DEF Clashes
<1>4. RowsOf(Row(w).key) = {}
  <2> SUFFICES ASSUME NEW v \in vintages, v.key = Row(w).key PROVE FALSE
    BY DEF RowsOf
  <2>1. [key |-> v.key, identity |-> v.says.identity] \in bindings
    BY DEF IInv, KeysMeasureOneThing
  <2> QED
    BY <1>3, <2>1
<1>5. BindingOf(Row(w)) = BindingOf(candidate[w])
  BY <1>2 DEF BindingOf
<1>6. BindingOf(Row(w)) \in Binding
  BY <1>1, <1>5, BindingType
<1>7. vintages' = vintages \cup {Row(w)} /\ bindings' = bindings \cup {BindingOf(Row(w))}
  BY <1>1, <1>5 DEF CommitBinding, BindingOf, Row
<1>8. Fits(Row(w))
  BY <1>2, <1>4 DEF Fits
<1> QED
  BY <1>2, <1>3, <1>5, <1>6, <1>7, <1>8

LEMMA WritersAppend ==
  ASSUME IInv, NEW w \in Workers, CommitBinding(w) \/ Adds(w)
  PROVE  /\ Fits(Row(w)) /\ Row(w).key = candidate[w].key /\ Row(w).says = candidate[w].says
         /\ vintages' = vintages \cup {Row(w)}
         /\ bindings' = bindings \cup {BindingOf(Row(w))}
<1>1. CASE CommitBinding(w)
  BY <1>1, FirstFits
<1>2. CASE Adds(w)
  BY <1>2, AddedFits
<1> QED
  BY <1>1, <1>2

\* Nothing else writes.
LEMMA OnlyWritersWrite ==
  ASSUME [Next]_vars
  PROVE  \/ vintages' = vintages /\ bindings' = bindings
         \/ \E w \in Workers : CommitBinding(w) \/ Adds(w)
<1>1. ASSUME NEW w \in Workers, AddVintage(w)
      PROVE  \/ vintages' = vintages /\ bindings' = bindings
             \/ Adds(w)
  <2>1. Row(w).key = candidate[w].key
    BY DEF Row, Build
  <2> QED
    BY <1>1, <2>1 DEF AddVintage, Adds, Row
<1> QED
  BY <1>1 DEF Next, Step, vars, Stays, Call, ReadLatest, CheckBinding, ClassifyKey, ClassifyIdentity,
              ReadHistory, InsertBinding, Abort

\* Appending a row that fits, under its binding, keeps every history in order.
LEMMA AppendKeeps ==
  ASSUME IInv, NEW v, Fits(v), vintages' = vintages \cup {v}
  PROVE  Contiguous' /\ BasisIsDeterministic'
<1>1. \A k : RowsOf(k)' = IF k = v.key THEN RowsOf(k) \cup {v} ELSE RowsOf(k)
  BY DEF RowsOf
<1>2. \A e \in vintages : e.revision \in Nat /\ e.availability \in Nat /\ e \in RowsOf(e.key)
  BY RowTypes DEF IInv, TypeOK, RowsOf
<1>3. v.revision \in Nat /\ v.availability \in Nat
  BY DEF Fits, Vintage, Times
<1>4. ASSUME NEW e \in vintages', NEW n \in Nat, n <= e.revision
      PROVE  \E h \in RowsOf(e.key)' : h.revision = n
  <2>1. CASE e \in vintages
    <3>1. \E h \in RowsOf(e.key) : h.revision = n
      BY <1>4, <2>1 DEF IInv, Contiguous
    <3> QED
      BY <1>1, <3>1
  <2>2. CASE e = v /\ n = v.revision
    BY <1>1, <2>2
  <2>3. CASE e = v /\ n # v.revision
    <3>1. PICK l \in RowsOf(v.key) : l.revision + 1 = v.revision
      BY <1>3, <1>4, <2>3 DEF Fits
    <3>2. l \in vintages /\ l.key = v.key /\ l.revision \in Nat
      BY <1>2, <3>1 DEF RowsOf
    <3>3. n <= l.revision
      BY <1>3, <1>4, <2>3, <3>1, <3>2
    <3>4. \E h \in RowsOf(l.key) : h.revision = n
      BY <3>2, <3>3 DEF IInv, Contiguous
    <3> QED
      BY <1>1, <2>3, <3>2, <3>4
  <2> QED
    BY <2>1, <2>2, <2>3
<1>5. ASSUME NEW e \in vintages', NEW h \in vintages', e.key = h.key
      PROVE  /\ h.revision = e.revision => h = e
             /\ h.revision < e.revision => h.availability <= e.availability
             /\ SameBasis(e, h) => e.says = h.says
  <2>1. CASE e \in vintages /\ h \in vintages
    <3>1. h \in RowsOf(e.key)
      BY <1>5, <2>1 DEF RowsOf
    <3> QED
      BY <1>5, <2>1, <3>1 DEF IInv, Contiguous, BasisIsDeterministic
  <2>2. CASE e = v /\ h \in vintages
    <3>1. h \in RowsOf(v.key)
      BY <1>5, <2>2 DEF RowsOf
    <3> QED
      BY <1>2, <1>3, <2>2, <3>1 DEF Fits, SameBasis
  <2>3. CASE h = v /\ e \in vintages
    <3>1. e \in RowsOf(v.key)
      BY <1>5, <2>3 DEF RowsOf
    <3> QED
      BY <1>2, <1>3, <2>3, <3>1 DEF Fits, SameBasis
  <2> QED
    BY <1>3, <2>1, <2>2, <2>3
<1>6. Contiguous'
  <2>1. \A e \in vintages' : \A h \in RowsOf(e.key)' : h \in vintages' /\ h.key = e.key
    BY DEF RowsOf
  <2> QED
    BY <1>4, <1>5, <2>1 DEF Contiguous
<1>7. BasisIsDeterministic'
  BY <1>5 DEF BasisIsDeterministic, SameBasis
<1> QED
  BY <1>6, <1>7

\* And the writer's binding keeps keys and identities paired off.
LEMMA BindingKeeps ==
  ASSUME IInv, NEW w \in Workers, CommitBinding(w) \/ Adds(w)
  PROVE  KeysMeasureOneThing'
<1> PICK v : v = Row(w)
  OBVIOUS
<1> PICK n : n = BindingOf(v)
  OBVIOUS
<1>1. vintages' = vintages \cup {v} /\ bindings' = bindings \cup {n}
  BY WritersAppend
<1>2. n.key = v.key /\ n.identity = v.says.identity
      /\ n = [key |-> v.key, identity |-> v.says.identity]
  BY DEF BindingOf
<1>3. \/ n \in bindings
      \/ v.revision = 0 /\ \A b \in bindings : b.key # n.key /\ b.identity # n.identity
  BY <1>2, AddedFits, FirstFits
<1>4. ASSUME NEW b \in bindings', NEW d \in bindings', b.key = d.key \/ b.identity = d.identity
      PROVE  b = d
  BY <1>1, <1>3, <1>4 DEF IInv, KeysMeasureOneThing
<1>5. \A k : RowsOf(k) \subseteq RowsOf(k)'
  BY <1>1 DEF RowsOf
<1>6. ASSUME NEW b \in bindings' PROVE \E e \in RowsOf(b.key)' : e.revision = 0
  <2>1. CASE b \in bindings
    BY <1>5, <2>1 DEF IInv, KeysMeasureOneThing
  <2>2. CASE b \notin bindings
    <3>1. b = n /\ v.revision = 0
      BY <1>1, <1>3, <2>2
    <3>2. v \in RowsOf(n.key)'
      BY <1>1, <1>2 DEF RowsOf
    <3> QED
      BY <3>1, <3>2
  <2> QED
    BY <2>1, <2>2
<1>7. ASSUME NEW e \in vintages' PROVE [key |-> e.key, identity |-> e.says.identity] \in bindings'
  BY <1>1, <1>2 DEF IInv, KeysMeasureOneThing
<1> QED
  BY <1>4, <1>6, <1>7 DEF KeysMeasureOneThing

-----------------------------------------------------------------------------
(* Every step keeps the invariant.                                         *)

LEMMA TypeStep == IInv /\ [Next]_vars => TypeOK'
<1> SUFFICES ASSUME IInv, [Next]_vars PROVE TypeOK'
  OBVIOUS
<1> USE DEF TypeOK, Steps, Outcomes, Written, Goto, Finish, Stays
<1>0. TypeOK
  BY DEF IInv
<1>1. CASE UNCHANGED vars
  BY <1>0, <1>1 DEF vars
<1>2. ASSUME NEW w \in Workers, NEW c \in Submissions, Call(w, c) PROVE TypeOK'
  BY <1>0, <1>2, OutcomeAssumption DEF Call
<1>3. ASSUME NEW w \in Workers, ReadLatest(w) PROVE TypeOK'
  BY <1>0, <1>3 DEF ReadLatest
<1>4. ASSUME NEW w \in Workers, CheckBinding(w) PROVE TypeOK'
  BY <1>0, <1>4 DEF CheckBinding
<1>5. ASSUME NEW w \in Workers, ClassifyKey(w) PROVE TypeOK'
  BY <1>0, <1>5 DEF ClassifyKey, Classified
<1>6. ASSUME NEW w \in Workers, ClassifyIdentity(w) PROVE TypeOK'
  BY <1>0, <1>6 DEF ClassifyIdentity, Classified
<1>7. ASSUME NEW w \in Workers, ReadHistory(w) PROVE TypeOK'
  BY <1>0, <1>7 DEF ReadHistory
<1>8. ASSUME NEW w \in Workers, InsertBinding(w) PROVE TypeOK'
  BY <1>0, <1>8 DEF InsertBinding
<1>9. ASSUME NEW w \in Workers, CommitBinding(w) PROVE TypeOK'
  <2>1. vintages' \subseteq Vintage /\ bindings' \subseteq Binding
    BY <1>0, <1>9, FirstFits DEF Fits
  <2> QED
    BY <1>0, <1>9, <2>1 DEF CommitBinding
<1>10. ASSUME NEW w \in Workers, AddVintage(w) PROVE TypeOK'
  <2>1. vintages' \subseteq Vintage
    BY <1>0, <1>10, AddedFits DEF Fits, AddVintage, Adds, Row, Build
  <2> QED
    BY <1>0, <1>10, <2>1 DEF AddVintage
<1>11. ASSUME NEW w \in Workers, Abort(w) PROVE TypeOK'
  BY <1>0, <1>11 DEF Abort
<1> QED
  BY <1>1, <1>2, <1>3, <1>4, <1>5, <1>6, <1>7, <1>8, <1>9, <1>10, <1>11 DEF Next, Step

LEMMA StoreStep ==
  IInv /\ [Next]_vars => Contiguous' /\ KeysMeasureOneThing' /\ BasisIsDeterministic'
<1> SUFFICES ASSUME IInv, [Next]_vars
             PROVE  Contiguous' /\ KeysMeasureOneThing' /\ BasisIsDeterministic'
  OBVIOUS
<1>1. CASE vintages' = vintages /\ bindings' = bindings
  <2>1. \A k : RowsOf(k)' = RowsOf(k)
    BY <1>1 DEF RowsOf
  <2> QED
    BY <1>1, <2>1 DEF IInv, Contiguous, KeysMeasureOneThing, BasisIsDeterministic, SameBasis
<1>2. ASSUME NEW w \in Workers, CommitBinding(w) \/ Adds(w)
      PROVE  Contiguous' /\ KeysMeasureOneThing' /\ BasisIsDeterministic'
  BY <1>2, WritersAppend, AppendKeeps, BindingKeeps
<1> QED
  BY <1>1, <1>2, OnlyWritersWrite

\* What a call remembers and has checked stays true while another one moves.
LEMMA OthersKnow ==
  ASSUME IInv, [Next]_vars, NEW u \in Workers,
         pc'[u] = pc[u], candidate'[u] = candidate[u], latest'[u] = latest[u],
         ClaimIsExclusive(u)'
  PROVE  CallOK(u)'
<1> PICK k : k = candidate[u].key
  OBVIOUS
<1>0. CallOK(u)
  BY DEF IInv, CallsOK
<1>1. vintages \subseteq vintages'
  BY OnlyWritersWrite, WritersAppend
<1>2. RowsOf(k) \subseteq RowsOf(k)'
  BY <1>1 DEF RowsOf
<1>3. ASSUME pc[u] = "add", NEW h \in RowsOf(k)',
             h.revision <= latest[u].revision, SameBasis(h, candidate[u])
      PROVE  h.says = candidate[u].says
  <2>1. CASE h \in vintages
    <3>1. h \in RowsOf(k)
      BY <1>3, <2>1 DEF RowsOf
    <3> QED
      BY <1>0, <1>3, <3>1 DEF CallOK, Checked
  <2>2. CASE h \notin vintages
    <3>1. PICK w \in Workers : CommitBinding(w) \/ Adds(w)
      BY <1>3, <2>2, OnlyWritersWrite DEF RowsOf
    <3>2. h = Row(w) /\ Fits(Row(w)) /\ h.key = k
      BY <1>3, <2>2, <3>1, WritersAppend DEF RowsOf
    <3>3. latest[u] \in RowsOf(h.key) /\ latest[u] \in vintages
      BY <1>0, <1>3, <3>2 DEF RowsOf, CallOK, RemembersLatest
    <3>4. latest[u].revision < h.revision /\ latest[u].revision \in Nat /\ h.revision \in Nat
      BY <3>2, <3>3, RowTypes DEF Fits, IInv, TypeOK, Vintage
    <3> QED
      BY <1>3, <3>4
  <2> QED
    BY <2>1, <2>2
<1>4. RowsOf(candidate[u].key)' = RowsOf(k)'
  BY DEF RowsOf
<1>5. RemembersLatest(u)'
  BY <1>0, <1>2, <1>4 DEF CallOK, RemembersLatest
<1>6. Checked(u)'
  BY <1>0, <1>3, <1>4 DEF CallOK, Checked, SameBasis
<1> QED
  BY <1>0, <1>5, <1>6 DEF CallOK

\* A step of one call.
Move(w) == (\E c \in Submissions : Call(w, c)) \/ Step(w) \/ Abort(w)

LEMMA OneMoves == Next => \E w \in Workers : Move(w)
BY DEF Next, Move

LEMMA OthersUntouched ==
  ASSUME TypeOK, NEW w \in Workers, Move(w), NEW u \in Workers, u # w
  PROVE  pc'[u] = pc[u] /\ candidate'[u] = candidate[u] /\ latest'[u] = latest[u]
<1> USE DEF TypeOK, Goto, Finish, Stays
<1>1. ASSUME NEW c \in Submissions, Call(w, c)
      PROVE  pc'[u] = pc[u] /\ candidate'[u] = candidate[u] /\ latest'[u] = latest[u]
  BY <1>1 DEF Call
<1>2. ASSUME Step(w)
      PROVE  pc'[u] = pc[u] /\ candidate'[u] = candidate[u] /\ latest'[u] = latest[u]
  BY <1>2 DEF Step, ReadLatest, CheckBinding, ClassifyKey, ClassifyIdentity, Classified,
              ReadHistory, InsertBinding, CommitBinding, AddVintage
<1>3. ASSUME Abort(w)
      PROVE  pc'[u] = pc[u] /\ candidate'[u] = candidate[u] /\ latest'[u] = latest[u]
  BY <1>3 DEF Abort
<1> QED
  BY <1>1, <1>2, <1>3 DEF Move

\* Only InsertBinding claims, and only what clashes with no committed binding
\* and with none another session holds.
LEMMA ClaimsAreFree ==
  ASSUME IInv, NEW w \in Workers, Move(w), pc'[w] = "first_vintage"
  PROVE  /\ candidate' = candidate /\ bindings' = bindings
         /\ \A b \in bindings : ~Clashes(b, candidate[w])
         /\ \A x \in Workers : pc[x] = "first_vintage"
                                 => ~Clashes(BindingOf(candidate[x]), candidate[w])
         /\ \A x \in Workers : x # w => pc'[x] = pc[x]
<1> USE DEF IInv, TypeOK, Goto, Finish, Stays
<1>1. ASSUME NEW c \in Submissions, Call(w, c) PROVE FALSE
  BY <1>1 DEF Call
<1>2. CASE Step(w) /\ ~InsertBinding(w)
  BY <1>2 DEF Step, ReadLatest, CheckBinding, ClassifyKey, ClassifyIdentity, Classified,
              ReadHistory, CommitBinding, AddVintage
<1>3. CASE InsertBinding(w)
  BY <1>3 DEF InsertBinding, BindingOf
<1>4. CASE Abort(w)
  BY <1>4 DEF Abort
<1> QED
  BY <1>1, <1>2, <1>3, <1>4 DEF Move

\* A claim held by one call is left to it.
LEMMA HoldersKeep ==
  ASSUME IInv, NEW w \in Workers, Move(w), NEW u \in Workers, u # w
  PROVE  ClaimIsExclusive(u)'
<1>1. pc'[u] = pc[u] /\ candidate'[u] = candidate[u]
  BY OthersUntouched DEF IInv
<1> SUFFICES ASSUME pc[u] = "first_vintage" PROVE ClaimIsExclusive(u)'
  BY <1>1 DEF ClaimIsExclusive
<1>2. /\ \A b \in bindings : ~Clashes(b, candidate[u])
      /\ \A x \in Workers : pc[x] = "first_vintage" /\ x # u
                              => ~Clashes(BindingOf(candidate[x]), candidate[u])
  BY DEF IInv, CallsOK, CallOK, ClaimIsExclusive
<1>3. bindings' = bindings \/ CommitBinding(w) \/ Adds(w)
  <2> USE DEF Stays
  <2>1. AddVintage(w) => bindings' = bindings
    BY DEF AddVintage
  <2> QED
    BY <2>1 DEF Move, Step, Call, ReadLatest, CheckBinding, ClassifyKey, ClassifyIdentity,
                ReadHistory, InsertBinding, Abort
<1>4. ASSUME NEW b \in bindings' PROVE ~Clashes(b, candidate[u])
  <2>1. CASE b \in bindings
    BY <1>2, <2>1
  <2>2. CASE b \notin bindings
    <3>1. CommitBinding(w)
      BY <1>3, <2>2, AddedFits
    <3>2. b = BindingOf(candidate[w]) /\ pc[w] = "first_vintage"
      BY <2>2, <3>1, FirstFits DEF CommitBinding
    <3> QED
      BY <1>2, <3>2
  <2> QED
    BY <2>1, <2>2
<1>5. ASSUME NEW x \in Workers, pc'[x] = "first_vintage", x # u
      PROVE  ~Clashes(BindingOf(candidate'[x]), candidate[u])
  <2>1. CASE x = w
    <3>1. candidate' = candidate /\ ~Clashes(BindingOf(candidate[u]), candidate[w])
      BY <1>5, <2>1, ClaimsAreFree
    <3> QED
      BY <2>1, <3>1 DEF Clashes, BindingOf
  <2>2. CASE x # w
    <3>1. pc[x] = "first_vintage" /\ candidate'[x] = candidate[x]
      BY <1>5, <2>2, OthersUntouched DEF IInv
    <3> QED
      BY <1>2, <1>5, <3>1
  <2> QED
    BY <2>1, <2>2
<1> QED
  BY <1>1, <1>4, <1>5 DEF ClaimIsExclusive, Clashes, BindingOf

LEMMA ClaimantIsExclusive ==
  ASSUME IInv, NEW w \in Workers, Move(w)
  PROVE  ClaimIsExclusive(w)'
<1> SUFFICES ASSUME pc'[w] = "first_vintage" PROVE ClaimIsExclusive(w)'
  BY DEF ClaimIsExclusive
<1> QED
  BY ClaimsAreFree DEF ClaimIsExclusive, Clashes, BindingOf

\* A call that ends remembers nothing.
LEMMA EndKnows ==
  ASSUME TypeOK, NEW w \in Workers, NEW r \in Outcomes, Finish(w, r)
  PROVE  CallOK(w)'
<1>1. pc'[w] = "idle" /\ latest'[w] = NoRow
  BY DEF TypeOK, Finish, Goto
<1> QED
  BY <1>1 DEF CallOK, RemembersLatest, Checked, ClaimIsExclusive

\* One that read nothing knows what it knew.
LEMMA BlindKnows ==
  ASSUME IInv, NEW w \in Workers, Move(w), candidate' = candidate, latest' = latest,
         latest[w] = NoRow, candidate[w] \in Candidate,
         pc'[w] \notin {"binding", "add"}
  PROVE  CallOK(w)'
BY ClaimantIsExclusive DEF CallOK, RemembersLatest, Checked

LEMMA LatestKnows ==
  ASSUME IInv, NEW w \in Workers, ReadLatest(w) PROVE CallOK(w)'
<1>0. TypeOK /\ CallOK(w) /\ pc[w] = "latest" /\ Move(w)
  BY DEF IInv, CallsOK, ReadLatest, Move, Step
<1>1. candidate[w] \in Candidate /\ latest[w] = NoRow
  BY <1>0 DEF CallOK, RemembersLatest
<1>2. candidate' = candidate /\ vintages' = vintages /\ RowsOf(candidate[w].key)' = RowsOf(candidate[w].key)
  BY DEF ReadLatest, Stays, RowsOf
<1>3. CASE Finish(w, "OUT_OF_ORDER")
  BY <1>0, <1>3, EndKnows DEF Outcomes
<1>4. CASE /\ RowsOf(candidate[w].key) = {} /\ latest' = latest
           /\ Goto(w, IF candidate[w].dry THEN "classify_key" ELSE "history")
  <2>1. pc'[w] \in {"classify_key", "history"}
    BY <1>0, <1>4 DEF Goto, TypeOK
  <2> QED
    BY <1>0, <1>1, <1>2, <1>4, <2>1, BlindKnows
<1>5. ASSUME NEW l \in vintages, IsLatest(l, candidate[w].key), ~OutOfOrder(candidate[w], l),
             latest' = [latest EXCEPT ![w] = l], Goto(w, "binding")
      PROVE  CallOK(w)'
  <2>1. pc'[w] = "binding" /\ latest'[w] = l
    BY <1>0, <1>5 DEF Goto, TypeOK
  <2>2. l \in RowsOf(candidate[w].key) /\ l # NoRow
    BY <1>0, <1>5, OutcomeAssumption DEF IsLatest, TypeOK
  <2>3. l.availability \in Nat /\ candidate[w].availability \in Nat
    BY <1>0, <1>1, RowTypes DEF TypeOK, Candidate, Times
  <2>4. l.availability <= candidate[w].availability
    BY <1>5, <2>3 DEF OutOfOrder
  <2> QED
    BY <1>1, <1>2, <2>1, <2>2, <2>4 DEF CallOK, RemembersLatest, Checked, ClaimIsExclusive
<1> QED
  BY <1>3, <1>4, <1>5 DEF ReadLatest

\* The binding of a key is the identity of its vintages.
LEMMA BindingKnows ==
  ASSUME IInv, NEW w \in Workers, CheckBinding(w) PROVE CallOK(w)'
<1>0. TypeOK /\ CallOK(w) /\ pc[w] = "binding"
  BY DEF IInv, CallsOK, CheckBinding
<1>1. /\ candidate[w] \in Candidate /\ latest[w] \in RowsOf(candidate[w].key)
      /\ latest[w].availability <= candidate[w].availability /\ latest[w] # NoRow
  BY <1>0 DEF CallOK, RemembersLatest
<1>2. /\ candidate' = candidate /\ vintages' = vintages
      /\ RowsOf(candidate[w].key)' = RowsOf(candidate[w].key)
  BY DEF CheckBinding, Stays, RowsOf
<1>3. PICK b \in bindings :
         /\ b.key = candidate[w].key
         /\ \/ Finish(w, "IDENTITY_IMMUTABLE")
            \/ b.identity = candidate[w].says.identity /\ Goto(w, "history") /\ latest' = latest
  BY DEF CheckBinding
<1>4. CASE Finish(w, "IDENTITY_IMMUTABLE")
  BY <1>0, <1>4, EndKnows DEF Outcomes
<1>5. CASE b.identity = candidate[w].says.identity /\ Goto(w, "history") /\ latest' = latest
  <2>1. pc'[w] = "history"
    BY <1>0, <1>5 DEF Goto, TypeOK
  <2>2. latest[w] \in vintages /\ latest[w].key = candidate[w].key
    BY <1>1 DEF RowsOf
  <2>3. [key |-> latest[w].key, identity |-> latest[w].says.identity] \in bindings
    BY <2>2 DEF IInv, KeysMeasureOneThing
  <2>4. b = [key |-> latest[w].key, identity |-> latest[w].says.identity]
    BY <1>3, <2>2, <2>3 DEF IInv, KeysMeasureOneThing
  <2>5. latest[w].says.identity = candidate[w].says.identity
    BY <1>5, <2>4
  <2> QED
    BY <1>1, <1>2, <1>5, <2>1, <2>5 DEF CallOK, RemembersLatest, Checked, ClaimIsExclusive
<1> QED
  BY <1>3, <1>4, <1>5

\* A call that goes on to add has found nothing in the history against it.
LEMMA HistoryKnows ==
  ASSUME IInv, NEW w \in Workers, ReadHistory(w) PROVE CallOK(w)'
<1>0. TypeOK /\ CallOK(w) /\ pc[w] = "history" /\ Move(w)
  BY DEF IInv, CallsOK, ReadHistory, Move, Step
<1>1. candidate[w] \in Candidate
  BY <1>0 DEF CallOK
<1>2. candidate' = candidate /\ vintages' = vintages /\ RowsOf(candidate[w].key)' = RowsOf(candidate[w].key)
  BY DEF ReadHistory, Stays, RowsOf
<1>3. CASE \E r \in {"NONDETERMINISTIC", "INCONSISTENT_PROVENANCE", "UNCHANGED", "DRY_RUN"} : Finish(w, r)
  BY <1>0, <1>3, EndKnows DEF Outcomes, Written
<1>4. CASE /\ ~Contradicted(candidate[w], latest[w]) /\ ~Reclassified(candidate[w])
           /\ ~Repeats(candidate[w], latest[w])
           /\ Goto(w, IF latest[w] = NoRow THEN "claim" ELSE "add") /\ latest' = latest
  <2>1. CASE latest[w] = NoRow
    <3>1. pc'[w] = "claim"
      BY <1>0, <1>4, <2>1 DEF Goto, TypeOK
    <3> QED
      BY <1>0, <1>1, <1>2, <1>4, <2>1, <3>1, BlindKnows
  <2>2. CASE latest[w] # NoRow
    <3>1. pc'[w] = "add"
      BY <1>0, <1>4, <2>2 DEF Goto, TypeOK
    <3>2. \A h \in RowsOf(candidate[w].key) :
             SameBasis(h, candidate[w]) => h.says = candidate[w].says
      BY <1>4 DEF Contradicted, Reclassified
    <3>3. candidate[w].says # latest[w].says
      BY <1>4, <2>2 DEF Repeats
    <3>4. Checked(w)'
      BY <1>2, <1>4, <3>2, <3>3 DEF Checked, SameBasis
    <3>5. RemembersLatest(w)'
      BY <1>0, <1>2, <1>4, <2>2, <3>1 DEF CallOK, RemembersLatest
    <3> QED
      BY <1>1, <1>2, <3>1, <3>4, <3>5 DEF CallOK, ClaimIsExclusive
  <2> QED
    BY <2>1, <2>2
<1> QED
  BY <1>3, <1>4 DEF ReadHistory

\* What a call knows after a step of its own.
LEMMA MoverKnows == ASSUME IInv, NEW w \in Workers, Move(w) PROVE CallOK(w)'
<1>0. TypeOK /\ CallOK(w)
  BY DEF IInv, CallsOK
<1>1. ASSUME NEW c \in Submissions, Call(w, c) PROVE CallOK(w)'
  <2>1. CASE Finish(w, "REJECTED")
    BY <1>0, <2>1, EndKnows DEF Outcomes
  <2>2. CASE ~Finish(w, "REJECTED")
    <3>1. pc'[w] = "latest" /\ candidate'[w] = c /\ latest'[w] = NoRow /\ c \in Candidate
      BY <1>0, <1>1, <2>2, OutcomeAssumption DEF Call, Goto, TypeOK, CallOK, RemembersLatest
    <3> QED
      BY <3>1 DEF CallOK, RemembersLatest, Checked, ClaimIsExclusive
  <2> QED
    BY <2>1, <2>2
<1>2. ASSUME ClassifyKey(w) \/ ClassifyIdentity(w) PROVE CallOK(w)'
  <2>1. CASE Finish(w, "IDENTITY_IMMUTABLE") \/ Finish(w, "IDENTITY_CONFLICT")
    BY <1>0, <2>1, EndKnows DEF Outcomes
  <2>2. CASE ~(Finish(w, "IDENTITY_IMMUTABLE") \/ Finish(w, "IDENTITY_CONFLICT"))
    <3>1. /\ pc'[w] \in {"history", "latest", "classify_identity"}
          /\ latest' = latest /\ candidate' = candidate
      BY <1>0, <1>2, <2>2 DEF ClassifyKey, ClassifyIdentity, Classified, Goto, Stays, TypeOK
    <3>2. latest[w] = NoRow /\ candidate[w] \in Candidate
      BY <1>0, <1>2 DEF ClassifyKey, ClassifyIdentity, CallOK, RemembersLatest
    <3> QED
      BY <3>1, <3>2, BlindKnows
  <2> QED
    BY <2>1, <2>2
<1>3. ASSUME InsertBinding(w) PROVE CallOK(w)'
  <2>1. /\ pc'[w] \in {"classify_key", "first_vintage"}
        /\ latest' = latest /\ candidate' = candidate
    BY <1>0, <1>3 DEF InsertBinding, Goto, Stays, TypeOK
  <2>2. latest[w] = NoRow /\ candidate[w] \in Candidate
    BY <1>0, <1>3 DEF InsertBinding, CallOK, RemembersLatest
  <2> QED
    BY <2>1, <2>2, BlindKnows
<1>4. ASSUME CommitBinding(w) PROVE CallOK(w)'
  BY <1>0, <1>4, EndKnows DEF CommitBinding, Outcomes, Written
<1>5. ASSUME AddVintage(w) PROVE CallOK(w)'
  BY <1>0, <1>5, EndKnows DEF AddVintage, Outcomes, Written
<1>6. ASSUME Abort(w) PROVE CallOK(w)'
  BY <1>0, <1>6, EndKnows DEF Abort, Outcomes
<1> QED
  BY <1>1, <1>2, <1>3, <1>4, <1>5, <1>6, LatestKnows, BindingKnows, HistoryKnows DEF Move, Step

LEMMA CallsStep == IInv /\ [Next]_vars => CallsOK'
<1> SUFFICES ASSUME IInv, [Next]_vars, NEW u \in Workers PROVE CallOK(u)'
  BY DEF CallsOK
<1>1. CASE UNCHANGED vars
  <2>1. ClaimIsExclusive(u)'
    BY <1>1 DEF vars, IInv, CallsOK, CallOK, ClaimIsExclusive, Clashes, BindingOf
  <2> QED
    BY <1>1, <2>1, OthersKnow DEF vars
<1>2. ASSUME NEW w \in Workers, Move(w) PROVE CallOK(u)'
  <2>1. CASE u = w
    BY <1>2, <2>1, MoverKnows
  <2>2. CASE u # w
    BY <1>2, <2>2, OthersUntouched, HoldersKeep, OthersKnow DEF IInv
  <2> QED
    BY <2>1, <2>2
<1> QED
  BY <1>1, <1>2, OneMoves

LEMMA InvariantHolds == Spec => []IInv
<1>1. IInv /\ [Next]_vars => IInv'
  BY TypeStep, StoreStep, CallsStep DEF IInv
<1> QED
  BY <1>1, InitEstablishes, PTL DEF Spec

-----------------------------------------------------------------------------
(* What follows.                                                           *)

\* Every variable keeps its type.
THEOREM TypeCorrect == Spec => []TypeOK
<1>1. IInv => TypeOK
  BY DEF IInv
<1> QED
  BY <1>1, InvariantHolds, PTL

\* However the calls that race for a key, or for an identity, are interleaved:
\* a key is bound to one identity and an identity to one key, every vintage
\* has its key's identity, and a binding is never without its first vintage.
THEOREM KeysAlwaysMeasureOneThing == Spec => []KeysMeasureOneThing
<1>1. IInv => KeysMeasureOneThing
  BY DEF IInv
<1> QED
  BY <1>1, InvariantHolds, PTL

\* Two vintages of an outcome on the same evidence and definition version agree
\* on its value and its provenance.
THEOREM BasesAreDeterministic == Spec => []BasisIsDeterministic
<1>1. IInv => BasisIsDeterministic
  BY DEF IInv
<1> QED
  BY <1>1, InvariantHolds, PTL

\* A row appended to an outcome is behind all its rows in number and none of
\* them in time, so that it takes no release's place.
LEMMA StepKeepsResolutions ==
  IInv /\ [Next]_vars =>
     [\A k \in Keys, t \in Times :
          /\ \A n \in 0 .. MaxCalls :
                FixedRelease(k, n, t) # {} => FixedRelease(k, n, t)' = FixedRelease(k, n, t)
          /\ FirstRelease(k, t) # {} => FirstRelease(k, t)' = FirstRelease(k, t)
          /\ (\E v \in RowsOf(k) : v.availability > t) =>
                LatestAvailable(k, t)' = LatestAvailable(k, t)]_vintages
<1> SUFFICES ASSUME IInv, [Next]_vars, vintages' # vintages, NEW k \in Keys, NEW t \in Times
             PROVE  /\ \A n \in Nat : FixedRelease(k, n, t) # {} =>
                          FixedRelease(k, n, t)' = FixedRelease(k, n, t)
                    /\ (\E v \in RowsOf(k) : v.availability > t) =>
                          LatestAvailable(k, t)' = LatestAvailable(k, t)
  BY OutcomeAssumption DEF FirstRelease
<1>1. PICK w \in Workers : CommitBinding(w) \/ Adds(w)
  BY OnlyWritersWrite
<1>2. PICK r : r = Row(w)
  OBVIOUS
<1>3. Fits(r) /\ vintages' = vintages \cup {r}
  BY <1>1, <1>2, WritersAppend
<1>4. /\ \A e \in vintages : e.revision \in Nat /\ e.availability \in Nat
      /\ r.revision \in Nat /\ r.availability \in Nat /\ t \in Nat
  BY <1>3, RowTypes DEF IInv, TypeOK, Fits, Vintage, Times
<1>5. RowsOf(k) \subseteq vintages /\ RowsOf(k)' = IF k = r.key THEN RowsOf(k) \cup {r} ELSE RowsOf(k)
  BY <1>3 DEF RowsOf
<1>6. ASSUME NEW n \in Nat, NEW v \in FixedRelease(k, n, t)
      PROVE  FixedRelease(k, n, t)' = FixedRelease(k, n, t)
  <2>1. v \in RowsOf(k) /\ v.revision = n
    BY <1>6 DEF FixedRelease
  <2>2. k = r.key => r.revision # n
    BY <1>3, <1>4, <1>5, <2>1 DEF Fits
  <2> QED
    BY <1>5, <2>2 DEF FixedRelease
<1>7. ASSUME NEW v \in RowsOf(k), v.availability > t
      PROVE  LatestAvailable(k, t)' = LatestAvailable(k, t)
  <2>1. k = r.key => ~(r.availability <= t)
    BY <1>3, <1>4, <1>5, <1>7 DEF Fits
  <2>2. {e \in RowsOf(k)' : e.availability <= t} = {e \in RowsOf(k) : e.availability <= t}
    BY <1>5, <2>1
  <2> QED
    BY <2>2 DEF LatestAvailable
<1> QED
  BY <1>6, <1>7

\* The answer an evaluation pins, a first or a fixed release from the moment it
\* is available or the latest available one once something later is recorded,
\* is never another, whatever is recorded of the outcome afterwards.
THEOREM ResolutionsAlwaysHold == Spec => ResolutionsHold
BY StepKeepsResolutions, InvariantHolds, PTL DEF Spec, ResolutionsHold

-----------------------------------------------------------------------------
(* The stored vintages are a vintage ledger.                               *)

EntryOf(v) == [subject |-> v.key, revision |-> v.revision,
               availability |-> v.availability, payload |-> v.says]

Entries == {EntryOf(v) : v \in vintages}

Ledger == INSTANCE VintageLedger WITH
              Subject <- Keys, Revision <- Nat, Time <- Times,
              Payload <- Reports, ledger <- Entries

\* A row that fits is a legal append.
LEMMA FittingRowIsAppend ==
  ASSUME NEW r, Fits(r), vintages' = vintages \cup {r}
  PROVE  Ledger!Next
<1>1. Entries' = Entries \cup {EntryOf(r)}
  BY DEF Entries, EntryOf
<1>2. EntryOf(r) \in Ledger!Entry
  BY DEF EntryOf, Vintage, Fits, Ledger!Entry
<1>3. \A o \in Ledger!HistoryOf(r.key) : \E v \in RowsOf(r.key) : o = EntryOf(v)
  BY DEF Entries, Ledger!HistoryOf, EntryOf, RowsOf
<1>4. \A v \in RowsOf(r.key) : EntryOf(v) \in Ledger!HistoryOf(r.key)
  BY DEF Entries, Ledger!HistoryOf, EntryOf, RowsOf
<1>5. \A o \in Ledger!HistoryOf(r.key) :
         o.revision < r.revision /\ o.availability <= r.availability
  BY <1>3 DEF EntryOf, Fits
<1>6. r.revision # 0 =>
         \E o \in Ledger!HistoryOf(r.key) : o.revision + 1 = r.revision /\ o.payload # r.says
  BY <1>4 DEF EntryOf, Fits
<1>7. Ledger!Follows(EntryOf(r))
  BY <1>5, <1>6 DEF EntryOf, Ledger!Follows
<1> QED
  BY <1>1, <1>2, <1>7 DEF Ledger!Next, Ledger!Append

\* RecordForecastOutcome implements the append-only vintage ledger: what is
\* proved of any ledger holds of outcome histories.
THEOREM OutcomesImplementLedger == Spec => Ledger!Spec
<1>1. Init => Ledger!Init
  BY DEF Init, Ledger!Init, Entries
<1>2. IInv /\ [Next]_vars => [Ledger!Next]_Entries
  <2>1. vintages' = vintages => Entries' = Entries
    BY DEF Entries
  <2>2. ASSUME IInv, NEW w \in Workers, CommitBinding(w) \/ Adds(w) PROVE Ledger!Next
    BY <2>2, WritersAppend, FittingRowIsAppend
  <2> QED
    BY <2>1, <2>2, OnlyWritersWrite
<1> QED
  BY <1>1, <1>2, InvariantHolds, PTL DEF Spec, Ledger!Spec
=============================================================================
