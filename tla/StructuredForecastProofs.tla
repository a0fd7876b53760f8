---------------------- MODULE StructuredForecastProofs ----------------------
(***************************************************************************)
(* That a claim's history holds one forecast per evidentiary basis and is  *)
(* only ever appended to, proved for any number of callers, claims, bases  *)
(* and instants, although each caller reads the claim, its latest vintage  *)
(* and its history at different moments.                                   *)
(*                                                                         *)
(* The argument: a revision number is free only if nothing was added since *)
(* the latest vintage was read (Contiguous), and everything up to that     *)
(* vintage was in the history the caller checked (CallsOK).                *)
(***************************************************************************)
EXTENDS StructuredForecast, TLAPS

\* Revisions of a claim are numbered from 0 without gap or repeat, none before
\* its predecessors in time, none repeating its predecessor.
Contiguous ==
    \A v \in vintages :
       /\ v.claim \in claims
       /\ \A n \in Nat : n <= v.revision => \E e \in RowsOf(v.claim) : e.revision = n
       /\ \A e \in RowsOf(v.claim) :
             /\ e.revision = v.revision => e = v
             /\ e.revision < v.revision => e.availability <= v.availability

Inhabited == \A c \in claims : \E v \in RowsOf(c) : v.revision = 0

\* What a call knows between its awaits.
CallOK(w) ==
    /\ pc[w] # "idle" \/ outcome[w] \in Written => candidate[w] \in Candidate
    /\ pc[w] = "first_vintage" =>
          /\ candidate[w].claim \notin claims
          /\ Registering(candidate[w].claim) = {w}
    /\ pc[w] \in {"history", "add"} =>
          /\ latest[w] \in RowsOf(candidate[w].claim)
          /\ latest[w].availability <= candidate[w].availability
    /\ pc[w] = "add" =>
          /\ candidate[w].says # latest[w].says
          /\ \A h \in RowsOf(candidate[w].claim) :
                h.revision <= latest[w].revision /\ SameBasis(h, candidate[w])
                   => h.says = candidate[w].says

CallsOK == \A w \in Workers : CallOK(w)

IInv == TypeOK /\ Contiguous /\ Inhabited /\ BasisIsDeterministic /\ CallsOK /\ WrittenIsStored

-----------------------------------------------------------------------------
LEMMA InitEstablishes == Init => IInv
BY ForecastAssumption
   DEF Init, IInv, TypeOK, Contiguous, Inhabited, BasisIsDeterministic, CallsOK, CallOK,
       WrittenIsStored, Steps, Outcomes, Written, RowsOf

LEMMA BuildType ==
  ASSUME NEW c \in Candidate, NEW n \in Nat
  PROVE  /\ Build(c, n) \in Vintage
         /\ Build(c, n).claim = c.claim /\ Build(c, n).revision = n
         /\ Build(c, n).availability = c.availability /\ Build(c, n).says = c.says
BY DEF Build, Candidate, Vintage

LEMMA RowTypes ==
  ASSUME vintages \subseteq Vintage, NEW v \in vintages
  PROVE  v \in Vintage /\ v.claim \in Claims /\ v.revision \in Nat /\ v.availability \in Nat
         /\ v.availability \in Times /\ v.says \in Forecasts
BY DEF Vintage, Times

\* The row a call is about to append: behind everything its claim has.
Fits(v) ==
    /\ v \in Vintage
    /\ \A e \in RowsOf(v.claim) :
          /\ e.revision < v.revision /\ e.availability <= v.availability
          /\ SameBasis(e, v) => e.says = v.says
    /\ \/ v.revision = 0
       \/ \E l \in RowsOf(v.claim) : l.revision + 1 = v.revision /\ l.says # v.says

\* A revision number is free only behind everything its claim has.
LEMMA NothingBehind ==
  ASSUME vintages \subseteq Vintage, Contiguous, NEW l \in vintages,
         \A e \in RowsOf(l.claim) : e.revision # l.revision + 1,
         NEW e \in RowsOf(l.claim)
  PROVE  e.revision <= l.revision /\ e.availability <= l.availability
<1>1. e \in vintages /\ e.claim = l.claim /\ l \in RowsOf(l.claim)
  BY DEF RowsOf
<1>2. l.revision \in Nat /\ e.revision \in Nat /\ e.availability \in Nat /\ l.availability \in Nat
  BY <1>1, RowTypes
<1>3. e.revision <= l.revision
  <2> SUFFICES ASSUME l.revision < e.revision PROVE FALSE
    BY <1>2
  <2>1. l.revision + 1 \in Nat /\ l.revision + 1 <= e.revision
    BY <1>2
  <2>2. \E h \in RowsOf(l.claim) : h.revision = l.revision + 1
    BY <1>1, <2>1 DEF Contiguous
  <2> QED
    BY <2>2
<1>4. CASE e.revision = l.revision
  <2>1. e = l
    BY <1>1, <1>4 DEF Contiguous
  <2> QED
    BY <1>2, <1>3, <2>1
<1>5. CASE e.revision < l.revision
  BY <1>1, <1>3, <1>5 DEF Contiguous
<1> QED
  BY <1>2, <1>3, <1>4, <1>5

\* What add_vintage inserts fits.
LEMMA AddedFits ==
  ASSUME IInv, NEW w \in Workers, pc[w] = "add",
         \A e \in RowsOf(candidate[w].claim) : e.revision # latest[w].revision + 1
  PROVE  Fits(Build(candidate[w], latest[w].revision + 1))
<1> DEFINE c == candidate[w]
           l == latest[w]
           v == Build(c, l.revision + 1)
<1>1. c \in Candidate /\ l \in RowsOf(c.claim) /\ l.availability <= c.availability /\ c.says # l.says
      /\ \A h \in RowsOf(c.claim) :
            h.revision <= l.revision /\ SameBasis(h, c) => h.says = c.says
  BY DEF IInv, CallsOK, CallOK
<1>2. l \in vintages /\ l.claim = c.claim
  BY <1>1 DEF RowsOf
<1>3. l.revision \in Nat /\ l.availability \in Nat /\ vintages \subseteq Vintage
  BY <1>2, RowTypes DEF IInv, TypeOK
<1>4. /\ v \in Vintage /\ v.claim = c.claim /\ v.revision = l.revision + 1
      /\ v.availability = c.availability /\ v.says = c.says
  BY <1>1, <1>3, BuildType
<1>5. c.availability \in Nat
  BY <1>1 DEF Candidate, Times
<1>6. ASSUME NEW e \in RowsOf(c.claim)
      PROVE  /\ e.revision < l.revision + 1 /\ e.availability <= c.availability
             /\ SameBasis(e, v) => e.says = v.says
  <2>1. e.revision <= l.revision /\ e.availability <= l.availability
    BY <1>2, <1>3, NothingBehind DEF IInv
  <2>2. e \in vintages
    BY DEF RowsOf
  <2>3. e.revision \in Nat /\ e.availability \in Nat
    BY <1>3, <2>2, RowTypes
  <2>4. SameBasis(e, v) => SameBasis(e, c)
    BY <1>4 DEF SameBasis
  <2> QED
    BY <1>1, <1>3, <1>4, <1>5, <2>1, <2>3, <2>4
<1> HIDE DEF c, l, v
<1>7. Fits(v)
  BY <1>1, <1>4, <1>6 DEF Fits
<1> QED
  BY <1>7 DEF c, l, v

\* And so does a first vintage.
LEMMA FirstFits ==
  ASSUME IInv, NEW w \in Workers, pc[w] = "first_vintage"
  PROVE  Fits(Build(candidate[w], 0)) /\ RowsOf(candidate[w].claim) = {}
<1>1. candidate[w] \in Candidate /\ candidate[w].claim \notin claims
  BY DEF IInv, CallsOK, CallOK
<1>2. RowsOf(candidate[w].claim) = {}
  BY <1>1 DEF IInv, Contiguous, RowsOf
<1> QED
  BY <1>1, <1>2, BuildType DEF Fits

\* Appending a row that fits keeps every history in order.
LEMMA AppendKeeps ==
  ASSUME IInv, NEW v, Fits(v), vintages' = vintages \cup {v}, claims' = claims \cup {v.claim}
  PROVE  Contiguous' /\ Inhabited' /\ BasisIsDeterministic'
<1>1. \A k : RowsOf(k)' = IF k = v.claim THEN RowsOf(k) \cup {v} ELSE RowsOf(k)
  BY DEF RowsOf
<1>2. \A e \in vintages : e.revision \in Nat /\ e.availability \in Nat /\ e \in RowsOf(e.claim)
  BY RowTypes DEF IInv, TypeOK, RowsOf
<1>3. v.revision \in Nat /\ v.availability \in Nat
  BY DEF Fits, Vintage, Times
<1>4. ASSUME NEW e \in vintages', NEW n \in Nat, n <= e.revision
      PROVE  \E h \in RowsOf(e.claim)' : h.revision = n
  <2>1. CASE e \in vintages
    <3>1. \E h \in RowsOf(e.claim) : h.revision = n
      BY <1>4, <2>1 DEF IInv, Contiguous
    <3> QED
      BY <1>1, <3>1
  <2>2. CASE e = v /\ n = v.revision
    BY <1>1, <2>2
  <2>3. CASE e = v /\ n # v.revision
    <3>1. PICK l \in RowsOf(v.claim) : l.revision + 1 = v.revision
      BY <1>3, <1>4, <2>3 DEF Fits
    <3>2. l \in vintages /\ l.claim = v.claim /\ l.revision \in Nat
      BY <1>2, <3>1 DEF RowsOf
    <3>3. n <= l.revision
      BY <1>3, <1>4, <2>3, <3>1, <3>2
    <3>4. \E h \in RowsOf(l.claim) : h.revision = n
      BY <3>2, <3>3 DEF IInv, Contiguous
    <3> QED
      BY <1>1, <2>3, <3>2, <3>4
  <2> QED
    BY <2>1, <2>2, <2>3
<1>5. ASSUME NEW e \in vintages', NEW h \in vintages', e.claim = h.claim
      PROVE  /\ h.revision = e.revision => h = e
             /\ h.revision < e.revision => h.availability <= e.availability
             /\ SameBasis(e, h) => e.says = h.says
  <2>1. CASE e \in vintages /\ h \in vintages
    <3>1. h \in RowsOf(e.claim)
      BY <1>5, <2>1 DEF RowsOf
    <3> QED
      BY <1>5, <2>1, <3>1 DEF IInv, Contiguous, BasisIsDeterministic
  <2>2. CASE e = v /\ h \in vintages
    <3>1. h \in RowsOf(v.claim)
      BY <1>5, <2>2 DEF RowsOf
    <3> QED
      BY <1>2, <1>3, <2>2, <3>1 DEF Fits, SameBasis
  <2>3. CASE h = v /\ e \in vintages
    <3>1. e \in RowsOf(v.claim)
      BY <1>5, <2>3 DEF RowsOf
    <3> QED
      BY <1>2, <1>3, <2>3, <3>1 DEF Fits, SameBasis
  <2> QED
    BY <1>3, <2>1, <2>2, <2>3
<1>6. \A e \in vintages' : e.claim \in claims'
  BY DEF IInv, Contiguous
<1>7. Contiguous'
  <2>1. \A e \in vintages' : \A h \in RowsOf(e.claim)' : h \in vintages' /\ h.claim = e.claim
    BY DEF RowsOf
  <2> QED
    BY <1>4, <1>5, <1>6, <2>1 DEF Contiguous
<1>8. BasisIsDeterministic'
  BY <1>5 DEF BasisIsDeterministic, SameBasis
<1>9. Inhabited'
  <2>1. ASSUME NEW c \in claims PROVE \E h \in RowsOf(c)' : h.revision = 0
    BY <1>1, <2>1 DEF IInv, Inhabited
  <2>2. \E h \in RowsOf(v.claim)' : h.revision = 0
    BY <1>3, <1>4
  <2> QED
    BY <2>1, <2>2 DEF Inhabited
<1> QED
  BY <1>7, <1>8, <1>9

-----------------------------------------------------------------------------
(* Every step keeps the invariant.                                         *)

LEMMA TypeStep == IInv /\ [Next]_vars => TypeOK'
<1> SUFFICES ASSUME IInv, [Next]_vars PROVE TypeOK'
  OBVIOUS
<1> USE DEF TypeOK, Steps, Outcomes, Written, Goto, Finish
<1>0. TypeOK
  BY DEF IInv
<1>1. CASE UNCHANGED vars
  BY <1>0, <1>1 DEF vars
<1>2. ASSUME NEW w \in Workers, NEW c \in Candidate, Call(w, c) PROVE TypeOK'
  BY <1>0, <1>2, ForecastAssumption DEF Call
<1>3. ASSUME NEW w \in Workers, GetClaim(w) PROVE TypeOK'
  BY <1>0, <1>3 DEF GetClaim
<1>4. ASSUME NEW w \in Workers, ReadLatest(w) PROVE TypeOK'
  BY <1>0, <1>4 DEF ReadLatest
<1>5. ASSUME NEW w \in Workers, ReadHistory(w) PROVE TypeOK'
  BY <1>0, <1>5 DEF ReadHistory
<1>6. ASSUME NEW w \in Workers, InsertClaim(w) PROVE TypeOK'
  BY <1>0, <1>6 DEF InsertClaim
<1>7. ASSUME NEW w \in Workers, CommitClaim(w) PROVE TypeOK'
  <2>1. candidate[w].claim \in Claims /\ Build(candidate[w], 0) \in Vintage
    BY <1>7, FirstFits DEF CommitClaim, Fits, IInv, CallsOK, CallOK, Candidate
  <2> QED
    BY <1>0, <1>7, <2>1 DEF CommitClaim
<1>8. ASSUME NEW w \in Workers, AddVintage(w) PROVE TypeOK'
  <2>1. vintages' \subseteq Vintage
    <3>1. CASE vintages' = vintages
      BY <1>0, <3>1
    <3>2. CASE vintages' # vintages
      <4>1. /\ vintages' = vintages \cup {Build(candidate[w], latest[w].revision + 1)}
            /\ Build(candidate[w], latest[w].revision + 1) \in Vintage
        <5>1. candidate[w] \in Candidate /\ latest[w] \in vintages
          BY <1>8 DEF AddVintage, IInv, CallsOK, CallOK, RowsOf
        <5>2. latest[w].revision + 1 \in Nat
          BY <1>0, <5>1, RowTypes
        <5> QED
          BY <1>8, <3>2, <5>1, <5>2, BuildType DEF AddVintage
      <4> QED
        BY <1>0, <4>1
    <3> QED
      BY <3>1, <3>2
  <2> QED
    BY <1>0, <1>8, <2>1 DEF AddVintage
<1>9. ASSUME NEW w \in Workers, Abort(w) PROVE TypeOK'
  BY <1>0, <1>9 DEF Abort
<1> QED
  BY <1>1, <1>2, <1>3, <1>4, <1>5, <1>6, <1>7, <1>8, <1>9 DEF Next, Step

\* add_vintage inserts its row.
Adds(w) ==
    /\ AddVintage(w)
    /\ \A e \in RowsOf(candidate[w].claim) : e.revision # latest[w].revision + 1

\* The row a writing call commits.
Row(w) == IF pc[w] = "add" THEN Build(candidate[w], latest[w].revision + 1)
                           ELSE Build(candidate[w], 0)

LEMMA WritersAppend ==
  ASSUME IInv, NEW w \in Workers, CommitClaim(w) \/ Adds(w)
  PROVE  /\ Fits(Row(w)) /\ Row(w).claim = candidate[w].claim
         /\ Row(w).says = candidate[w].says /\ Row(w).availability = candidate[w].availability
         /\ vintages' = vintages \cup {Row(w)}
         /\ claims' = claims \cup {Row(w).claim}
         /\ pc[w] # "first_vintage" => claims' = claims
<1>1. CASE CommitClaim(w)
  <2>1. pc[w] = "first_vintage" /\ candidate[w] \in Candidate
    BY <1>1 DEF CommitClaim, IInv, CallsOK, CallOK
  <2> QED
    BY <1>1, <2>1, FirstFits, BuildType DEF CommitClaim, Row
<1>2. CASE Adds(w)
  <2>1. /\ pc[w] = "add" /\ candidate[w] \in Candidate
        /\ latest[w] \in vintages /\ latest[w].claim = candidate[w].claim
    BY <1>2 DEF Adds, AddVintage, IInv, CallsOK, CallOK, RowsOf
  <2>2. latest[w].revision + 1 \in Nat /\ candidate[w].claim \in claims
    BY <2>1, RowTypes DEF IInv, TypeOK, Contiguous
  <2>3. /\ Row(w) = Build(candidate[w], latest[w].revision + 1)
        /\ Row(w).claim = candidate[w].claim /\ Row(w).revision = latest[w].revision + 1
        /\ Row(w).says = candidate[w].says /\ Row(w).availability = candidate[w].availability
    BY <2>1, <2>2, BuildType DEF Row
  <2>4. \A e \in RowsOf(candidate[w].claim) : e.revision # latest[w].revision + 1
    BY <1>2 DEF Adds
  <2>5. vintages' = vintages \cup {Row(w)} /\ claims' = claims
    BY <1>2, <2>3, <2>4 DEF Adds, AddVintage
  <2>6. Fits(Row(w))
    BY <2>1, <2>3, <2>4, AddedFits
  <2>7. claims' = claims \cup {Row(w).claim}
    BY <2>2, <2>3, <2>5
  <2> QED
    BY <2>3, <2>5, <2>6, <2>7
<1> QED
  BY <1>1, <1>2

\* Nothing else writes.
LEMMA OnlyWritersWrite ==
  ASSUME [Next]_vars
  PROVE  \/ vintages' = vintages /\ claims' = claims
         \/ \E w \in Workers : CommitClaim(w) \/ Adds(w)
BY DEF Next, Step, vars, Call, GetClaim, ReadLatest, ReadHistory, InsertClaim, AddVintage, Adds,
       Abort, Build

LEMMA StoreStep == IInv /\ [Next]_vars => Contiguous' /\ Inhabited' /\ BasisIsDeterministic'
<1> SUFFICES ASSUME IInv, [Next]_vars PROVE Contiguous' /\ Inhabited' /\ BasisIsDeterministic'
  OBVIOUS
<1>1. CASE vintages' = vintages /\ claims' = claims
  <2>1. \A c : RowsOf(c)' = RowsOf(c)
    BY <1>1 DEF RowsOf
  <2> QED
    BY <1>1, <2>1 DEF IInv, Contiguous, Inhabited, BasisIsDeterministic, SameBasis
<1>2. ASSUME NEW w \in Workers, CommitClaim(w) \/ Adds(w)
      PROVE  Contiguous' /\ Inhabited' /\ BasisIsDeterministic'
  BY <1>2, WritersAppend, AppendKeeps
<1> QED
  BY <1>1, <1>2, OnlyWritersWrite

\* What a call knows stays true while another one moves.
LEMMA OthersKnow ==
  ASSUME IInv, [Next]_vars, NEW u \in Workers,
         pc'[u] = pc[u], candidate'[u] = candidate[u], latest'[u] = latest[u],
         outcome'[u] = outcome[u],
         pc[u] = "first_vintage" =>
            /\ candidate[u].claim \notin claims'
            /\ Registering(candidate[u].claim)' = {u}
  PROVE  CallOK(u)'
<1> PICK c : c = candidate[u].claim
  OBVIOUS
<1>0. CallOK(u)
  BY DEF IInv, CallsOK
<1>1. /\ pc[u] # "idle" \/ outcome[u] \in Written => candidate[u] \in Candidate
      /\ pc[u] \in {"history", "add"} =>
            latest[u] \in RowsOf(c) /\ latest[u].availability <= candidate[u].availability
  BY <1>0 DEF CallOK
<1>2. vintages \subseteq vintages'
  BY OnlyWritersWrite, WritersAppend
<1>3. RowsOf(c) \subseteq RowsOf(c)'
  BY <1>2 DEF RowsOf
<1>4. ASSUME pc[u] = "add", NEW h \in RowsOf(c)',
             h.revision <= latest[u].revision, SameBasis(h, candidate[u])
      PROVE  h.says = candidate[u].says
  <2>1. CASE h \in vintages
    <3>1. h \in RowsOf(c)
      BY <1>4, <2>1 DEF RowsOf
    <3> QED
      BY <1>0, <1>4, <3>1 DEF CallOK
  <2>2. CASE h \notin vintages
    <3>1. PICK w \in Workers : CommitClaim(w) \/ Adds(w)
      BY <1>4, <2>2, OnlyWritersWrite DEF RowsOf
    <3>2. h = Row(w) /\ Fits(Row(w)) /\ h.claim = c
      BY <1>4, <2>2, <3>1, WritersAppend DEF RowsOf
    <3>3. latest[u] \in RowsOf(h.claim) /\ latest[u] \in vintages
      BY <1>1, <1>4, <3>2 DEF RowsOf
    <3>4. latest[u].revision < h.revision /\ latest[u].revision \in Nat /\ h.revision \in Nat
      BY <3>2, <3>3, RowTypes DEF Fits, IInv, TypeOK, Vintage
    <3> QED
      BY <1>4, <3>4
  <2> QED
    BY <2>1, <2>2
<1>5. pc[u] = "add" => candidate[u].says # latest[u].says
  BY <1>0 DEF CallOK
<1>6. /\ pc'[u] \in {"history", "add"} =>
            latest'[u] \in RowsOf(c)' /\ latest'[u].availability <= candidate'[u].availability
      /\ pc'[u] = "add" =>
            /\ candidate'[u].says # latest'[u].says
            /\ \A h \in RowsOf(c)' : h.revision <= latest'[u].revision /\ SameBasis(h, candidate'[u])
                                       => h.says = candidate'[u].says
  BY <1>1, <1>3, <1>4, <1>5
<1>7. c = candidate'[u].claim
  OBVIOUS
<1>8. pc'[u] = "first_vintage" => candidate'[u].claim \notin claims'
                                 /\ Registering(c)' = {u}
  BY DEF Registering
<1>9. /\ RowsOf(candidate[u].claim)' = RowsOf(c)'
      /\ Registering(candidate[u].claim)' = Registering(c)'
  BY <1>7 DEF RowsOf, Registering
<1> QED
  BY <1>1, <1>6, <1>7, <1>8, <1>9 DEF CallOK

\* A step of one call.
Move(w) == (\E c \in Candidate : Call(w, c)) \/ Step(w) \/ Abort(w)

LEMMA OneMoves == Next => \E w \in Workers : Move(w)
BY DEF Next, Move

LEMMA OthersUntouched ==
  ASSUME TypeOK, NEW w \in Workers, Move(w), NEW u \in Workers, u # w
  PROVE  /\ pc'[u] = pc[u] /\ candidate'[u] = candidate[u]
         /\ latest'[u] = latest[u] /\ outcome'[u] = outcome[u]
<1> USE DEF TypeOK, Goto, Finish
<1>1. ASSUME NEW c \in Candidate, Call(w, c)
      PROVE  /\ pc'[u] = pc[u] /\ candidate'[u] = candidate[u]
             /\ latest'[u] = latest[u] /\ outcome'[u] = outcome[u]
  BY <1>1 DEF Call
<1>2. ASSUME Step(w)
      PROVE  /\ pc'[u] = pc[u] /\ candidate'[u] = candidate[u]
             /\ latest'[u] = latest[u] /\ outcome'[u] = outcome[u]
  BY <1>2 DEF Step, GetClaim, ReadLatest, ReadHistory, InsertClaim, CommitClaim, AddVintage
<1>3. ASSUME Abort(w)
      PROVE  /\ pc'[u] = pc[u] /\ candidate'[u] = candidate[u]
             /\ latest'[u] = latest[u] /\ outcome'[u] = outcome[u]
  BY <1>3 DEF Abort
<1> QED
  BY <1>1, <1>2, <1>3 DEF Move

\* Only InsertClaim takes a claim, and only one that no session holds; only
\* the call that holds it registers it.
LEMMA ClaimsAreTaken ==
  ASSUME IInv, NEW w \in Workers, Move(w)
  PROVE  /\ pc'[w] = "first_vintage" =>
               /\ Registering(candidate[w].claim) = {} /\ candidate[w].claim \notin claims
               /\ candidate' = candidate /\ claims' = claims
         /\ claims' = claims \/ CommitClaim(w)
<1> USE DEF IInv, TypeOK, Goto, Finish
<1> DEFINE Goal == /\ pc'[w] = "first_vintage" =>
                         /\ Registering(candidate[w].claim) = {} /\ candidate[w].claim \notin claims
                         /\ candidate' = candidate /\ claims' = claims
                   /\ claims' = claims \/ CommitClaim(w)
<1>1. ASSUME NEW c \in Candidate, Call(w, c) PROVE Goal
  BY <1>1 DEF Call
<1>2. ASSUME GetClaim(w) PROVE Goal
  BY <1>2 DEF GetClaim
<1>3. ASSUME ReadLatest(w) PROVE Goal
  BY <1>3 DEF ReadLatest
<1>4. ASSUME ReadHistory(w) PROVE Goal
  BY <1>4 DEF ReadHistory
<1>5. ASSUME InsertClaim(w) PROVE Goal
  BY <1>5 DEF InsertClaim
<1>6. ASSUME CommitClaim(w) PROVE Goal
  BY <1>6 DEF CommitClaim
<1>7. ASSUME AddVintage(w) PROVE Goal
  BY <1>7 DEF AddVintage
<1>8. ASSUME Abort(w) PROVE Goal
  BY <1>8 DEF Abort
<1> QED
  BY <1>1, <1>2, <1>3, <1>4, <1>5, <1>6, <1>7, <1>8 DEF Move, Step

\* A claim being registered by one call is left to it.
LEMMA HoldersKeep ==
  ASSUME IInv, NEW w \in Workers, Move(w), NEW u \in Workers, u # w, pc[u] = "first_vintage"
  PROVE  candidate[u].claim \notin claims' /\ Registering(candidate[u].claim)' = {u}
<1> PICK k : k = candidate[u].claim
  OBVIOUS
<1>1. k \notin claims /\ Registering(k) = {u}
  BY DEF IInv, CallsOK, CallOK
<1>2. pc'[u] = "first_vintage" /\ candidate'[u] = candidate[u]
  BY OthersUntouched DEF IInv
<1>3. ASSUME NEW x \in Workers, pc'[x] = "first_vintage", candidate'[x].claim = k PROVE x = u
  <2>1. CASE x = w
    <3>1. Registering(candidate[w].claim) = {} /\ candidate[w].claim = k
      BY <1>3, <2>1, ClaimsAreTaken
    <3> QED
      BY <1>1, <3>1
  <2>2. CASE x # w
    <3>1. pc[x] = "first_vintage" /\ candidate[x].claim = k
      BY <1>3, <2>2, OthersUntouched DEF IInv
    <3> QED
      BY <1>1, <3>1 DEF Registering
  <2> QED
    BY <2>1, <2>2
<1>4. Registering(candidate[u].claim)' = {u}
  BY <1>2, <1>3 DEF Registering
<1>5. ASSUME CommitClaim(w) PROVE candidate[w].claim # k
  BY <1>1, <1>5 DEF CommitClaim, Registering
<1>6. CommitClaim(w) => claims' = claims \cup {candidate[w].claim}
  BY DEF CommitClaim
<1> QED
  BY <1>1, <1>4, <1>5, <1>6, ClaimsAreTaken

LEMMA EndKnows ==
  ASSUME TypeOK, NEW w \in Workers, NEW r \in Outcomes, Finish(w, r),
         r \in Written => candidate'[w] \in Candidate
  PROVE  CallOK(w)'
<1>1. pc'[w] = "idle" /\ outcome'[w] = r
  BY DEF TypeOK, Finish, Goto
<1> QED
  BY <1>1 DEF CallOK

\* What a call knows after a step of its own.
LEMMA MoverKnows == ASSUME IInv, NEW w \in Workers, Move(w) PROVE CallOK(w)'
<1>0. TypeOK /\ CallOK(w)
  BY DEF IInv, CallsOK
<1> USE DEF Goto
<1>1. ASSUME NEW c \in Candidate, Call(w, c) PROVE CallOK(w)'
  <2>1. CASE c.eligible
    <3>1. pc'[w] = "claim" /\ candidate'[w] = c
      BY <1>0, <1>1, <2>1 DEF Call, TypeOK
    <3> QED
      BY <3>1 DEF CallOK
  <2>2. CASE ~c.eligible
    BY <1>0, <1>1, <2>2, EndKnows DEF Call, Outcomes, Written
  <2> QED
    BY <2>1, <2>2
<1>2. ASSUME GetClaim(w) PROVE CallOK(w)'
  <2>1. CASE Finish(w, "DRY_RUN")
    BY <1>0, <2>1, EndKnows DEF Outcomes, Written
  <2>2. CASE ~Finish(w, "DRY_RUN")
    <3>1. pc'[w] \in {"latest", "register"} /\ candidate'[w] \in Candidate
      BY <1>0, <1>2, <2>2 DEF GetClaim, TypeOK, CallOK
    <3> QED
      BY <3>1 DEF CallOK
  <2> QED
    BY <2>1, <2>2
<1>3. ASSUME ReadLatest(w) PROVE CallOK(w)'
  <2>1. CASE Finish(w, "OUT_OF_ORDER")
    BY <1>0, <2>1, EndKnows DEF Outcomes, Written
  <2>2. CASE ~Finish(w, "OUT_OF_ORDER")
    <3>1. PICK l \in vintages : /\ IsLatest(l, candidate[w].claim)
                                /\ ~OutOfOrder(candidate[w], l)
                                /\ latest' = [latest EXCEPT ![w] = l]
                                /\ Goto(w, "history")
      BY <1>3, <2>2 DEF ReadLatest
    <3>2. pc'[w] = "history" /\ latest'[w] = l /\ candidate' = candidate /\ vintages' = vintages
      BY <1>0, <1>3, <3>1 DEF ReadLatest, TypeOK
    <3>3. l \in RowsOf(candidate[w].claim) /\ candidate[w] \in Candidate
      BY <1>0, <1>3, <3>1 DEF IsLatest, LastOf, CallOK, ReadLatest
    <3>4. l.availability \in Nat /\ candidate[w].availability \in Nat
      BY <1>0, <3>3, RowTypes DEF TypeOK, Candidate, Times
    <3>5. l.availability <= candidate[w].availability
      BY <3>1, <3>4 DEF OutOfOrder
    <3>6. RowsOf(candidate[w].claim)' = RowsOf(candidate[w].claim)
      BY <3>2 DEF RowsOf
    <3> QED
      BY <3>2, <3>3, <3>5, <3>6 DEF CallOK
  <2> QED
    BY <2>1, <2>2
<1>4. ASSUME ReadHistory(w) PROVE CallOK(w)'
  <2>1. CASE pc'[w] = "add"
    <3>1. /\ ~Contradicted(candidate[w], latest[w]) /\ ~Reclassified(candidate[w])
          /\ ~Repeats(candidate[w], latest[w])
          /\ latest' = latest /\ candidate' = candidate /\ vintages' = vintages
      BY <1>0, <1>4, <2>1 DEF ReadHistory, Finish, TypeOK
    <3>2. RowsOf(candidate[w].claim)' = RowsOf(candidate[w].claim)
      BY <3>1 DEF RowsOf
    <3>3. /\ candidate[w] \in Candidate /\ latest[w] \in RowsOf(candidate[w].claim)
          /\ latest[w].availability <= candidate[w].availability
      BY <1>0, <1>4 DEF CallOK, ReadHistory
    <3>4. \A h \in RowsOf(candidate[w].claim) : SameBasis(h, candidate[w]) => h.says = candidate[w].says
      BY <3>1 DEF Contradicted, Reclassified
    <3>5. candidate[w].says # latest[w].says
      BY <3>1 DEF Repeats
    <3>6. \A h : SameBasis(h, candidate[w])' = SameBasis(h, candidate[w])
      BY <3>1 DEF SameBasis
    <3> QED
      BY <2>1, <3>1, <3>2, <3>3, <3>4, <3>5, <3>6 DEF CallOK, SameBasis
  <2>2. CASE pc'[w] # "add"
    BY <1>0, <1>4, <2>2, EndKnows DEF ReadHistory, TypeOK, Outcomes, Written
  <2> QED
    BY <2>1, <2>2
<1>5. ASSUME InsertClaim(w) PROVE CallOK(w)'
  <2>1. CASE pc'[w] = "first_vintage"
    <3>1. PICK k : k = candidate[w].claim
      OBVIOUS
    <3>2. Registering(k) = {} /\ k \notin claims /\ claims' = claims /\ candidate' = candidate
      BY <1>5, <2>1, <3>1, ClaimsAreTaken DEF Move, Step
    <3>3. \A x \in Workers : x # w => pc'[x] = pc[x]
      BY <1>0, <1>5 DEF InsertClaim, Finish, TypeOK
    <3>4. Registering(candidate[w].claim)' = {w}
      BY <2>1, <3>1, <3>2, <3>3 DEF Registering
    <3>5. candidate[w] \in Candidate
      BY <1>0, <1>5 DEF CallOK, InsertClaim
    <3> QED
      BY <2>1, <3>1, <3>2, <3>4, <3>5 DEF CallOK
  <2>2. CASE pc'[w] # "first_vintage"
    BY <1>0, <1>5, <2>2, EndKnows DEF InsertClaim, TypeOK, Outcomes, Written
  <2> QED
    BY <2>1, <2>2
<1>6. ASSUME CommitClaim(w) PROVE CallOK(w)'
  <2>1. candidate' = candidate /\ candidate[w] \in Candidate
    BY <1>0, <1>6 DEF CommitClaim, CallOK
  <2> QED
    BY <1>0, <1>6, <2>1, EndKnows DEF CommitClaim, Outcomes, Written
<1>7. ASSUME AddVintage(w) PROVE CallOK(w)'
  <2>1. candidate' = candidate /\ candidate[w] \in Candidate
    BY <1>0, <1>7 DEF AddVintage, CallOK
  <2> QED
    BY <1>0, <1>7, <2>1, EndKnows DEF AddVintage, Outcomes, Written
<1>8. ASSUME Abort(w) PROVE CallOK(w)'
  BY <1>0, <1>8, EndKnows DEF Abort, Outcomes, Written
<1> QED
  BY <1>1, <1>2, <1>3, <1>4, <1>5, <1>6, <1>7, <1>8 DEF Move, Step

LEMMA CallsStep == IInv /\ [Next]_vars => CallsOK'
<1> SUFFICES ASSUME IInv, [Next]_vars, NEW u \in Workers PROVE CallOK(u)'
  BY DEF CallsOK
<1>1. CASE UNCHANGED vars
  BY <1>1, OthersKnow DEF vars, IInv, CallsOK, CallOK, Registering
<1>2. ASSUME NEW w \in Workers, Move(w) PROVE CallOK(u)'
  <2>1. CASE u = w
    BY <1>2, <2>1, MoverKnows
  <2>2. CASE u # w
    BY <1>2, <2>2, OthersUntouched, HoldersKeep, OthersKnow DEF IInv
  <2> QED
    BY <2>1, <2>2
<1> QED
  BY <1>1, <1>2, OneMoves

\* A call is told it wrote only by the step that writes its forecast.
LEMMA OnlyWritersReport ==
  ASSUME TypeOK, NEW w \in Workers, Move(w), pc'[w] = "idle", outcome'[w] \in Written
  PROVE  /\ CommitClaim(w) \/ Adds(w)
         /\ candidate' = candidate
<1> USE DEF TypeOK, Goto, Finish, Written
<1>1. ASSUME NEW c \in Candidate, Call(w, c) PROVE FALSE
  BY <1>1 DEF Call
<1>2. ASSUME Step(w) PROVE CommitClaim(w) \/ AddVintage(w)
  BY <1>2 DEF Step, GetClaim, ReadLatest, ReadHistory, InsertClaim
<1>3. ASSUME Abort(w) PROVE FALSE
  BY <1>3 DEF Abort
<1>4. ASSUME AddVintage(w) PROVE Adds(w)
  <2>1. /\ Build(candidate[w], latest[w].revision + 1).claim = candidate[w].claim
        /\ Build(candidate[w], latest[w].revision + 1).revision = latest[w].revision + 1
    BY DEF Build
  <2> QED
    BY <1>4, <2>1 DEF AddVintage, Adds
<1> QED
  BY <1>1, <1>2, <1>3, <1>4 DEF Move, CommitClaim, AddVintage

LEMMA WrittenStep == IInv /\ [Next]_vars => WrittenIsStored'
<1> SUFFICES ASSUME IInv, [Next]_vars,
                    NEW u \in Workers, pc'[u] = "idle", outcome'[u] \in Written
             PROVE  \E v \in RowsOf(candidate[u].claim)' :
                       v.availability = candidate'[u].availability /\ v.says = candidate'[u].says
  BY DEF WrittenIsStored
<1>1. vintages \subseteq vintages'
  BY OnlyWritersWrite, WritersAppend
<1>2. CASE /\ pc'[u] = pc[u] /\ candidate'[u] = candidate[u]
           /\ outcome'[u] = outcome[u]
  <2>1. PICK v \in RowsOf(candidate[u].claim) :
               v.availability = candidate[u].availability /\ v.says = candidate[u].says
    BY <1>2 DEF IInv, WrittenIsStored
  <2>2. v \in RowsOf(candidate[u].claim)'
    BY <1>1, <1>2, <2>1 DEF RowsOf
  <2> QED
    BY <1>2, <2>1, <2>2
<1>3. ASSUME NEW w \in Workers, Move(w), u # w
      PROVE  pc'[u] = pc[u] /\ candidate'[u] = candidate[u] /\ outcome'[u] = outcome[u]
  BY <1>3, OthersUntouched DEF IInv
<1>4. CASE Move(u)
  <2>1. (CommitClaim(u) \/ Adds(u)) /\ candidate' = candidate
    BY <1>4, OnlyWritersReport DEF IInv
  <2>2. /\ Row(u) \in vintages' /\ Row(u).claim = candidate'[u].claim
        /\ Row(u).says = candidate'[u].says /\ Row(u).availability = candidate'[u].availability
    BY <2>1, WritersAppend
  <2>3. Row(u) \in RowsOf(candidate[u].claim)'
    BY <2>2 DEF RowsOf
  <2> QED
    BY <2>2, <2>3
<1>5. CASE UNCHANGED vars
  BY <1>2, <1>5 DEF vars
<1> QED
  BY <1>2, <1>3, <1>4, <1>5, OneMoves

LEMMA InvariantHolds == Spec => []IInv
<1>1. IInv /\ [Next]_vars => IInv'
  BY TypeStep, StoreStep, CallsStep, WrittenStep DEF IInv
<1> QED
  BY <1>1, InitEstablishes, PTL DEF Spec

-----------------------------------------------------------------------------
(* What follows.                                                           *)

\* Every variable keeps its type.
THEOREM TypeCorrect == Spec => []TypeOK
<1>1. IInv => TypeOK
  BY DEF IInv
<1> QED
  BY <1>1, InvariantHolds, PTL

\* A committed claim has its first vintage and a vintage has its claim: the
\* recorder's assertion that a known claim has a latest vintage never fails.
THEOREM ClaimsAlwaysHaveHistory == Spec => []ClaimsHaveHistory
<1>1. IInv => ClaimsHaveHistory
  BY DEF IInv, Contiguous, Inhabited, ClaimsHaveHistory, RowsOf
<1> QED
  BY <1>1, InvariantHolds, PTL

\* No two vintages of a claim answer the same evidence differently, however
\* the callers that wrote them were interleaved.
THEOREM BasesAreDeterministic == Spec => []BasisIsDeterministic
<1>1. IInv => BasisIsDeterministic
  BY DEF IInv
<1> QED
  BY <1>1, InvariantHolds, PTL

\* A caller told CREATED or REVISION_ADDED finds its forecast stored.
THEOREM WhatIsWrittenIsStored == Spec => []WrittenIsStored
<1>1. IInv => WrittenIsStored
  BY DEF IInv
<1> QED
  BY <1>1, InvariantHolds, PTL

\* A row appended to a claim is no earlier than any of its rows, so that it
\* shows in no answer about an instant before one of them.
LEMMA StepKeepsAnswers ==
  IInv /\ [Next]_vars =>
     [\A c \in Claims, t \in Times :
          (\E v \in RowsOf(c) : v.availability > t) =>
             /\ ProductionAnswer(c, t)' = ProductionAnswer(c, t)
             /\ ResearchAnswer(c, t)' = ResearchAnswer(c, t)]_vintages
<1> SUFFICES ASSUME IInv, [Next]_vars, vintages' # vintages,
                    NEW c \in Claims, NEW t \in Times,
                    NEW late \in RowsOf(c), late.availability > t
             PROVE  /\ ProductionAnswer(c, t)' = ProductionAnswer(c, t)
                    /\ ResearchAnswer(c, t)' = ResearchAnswer(c, t)
  OBVIOUS
<1>1. PICK w \in Workers : CommitClaim(w) \/ Adds(w)
  BY OnlyWritersWrite
<1>2. PICK r : r = Row(w)
  OBVIOUS
<1>3. Fits(r) /\ vintages' = vintages \cup {r}
  BY <1>1, <1>2, WritersAppend
<1>4. r.claim = c => ~(r.availability <= t)
  <2>1. late \in vintages /\ late.claim = c /\ late.availability \in Nat
    BY RowTypes DEF RowsOf, IInv, TypeOK
  <2>2. r.availability \in Nat /\ t \in Nat
    BY <1>3 DEF Fits, Vintage, Times
  <2>3. r.claim = c => late.availability <= r.availability
    BY <1>3 DEF Fits
  <2> QED
    BY <2>1, <2>2, <2>3
<1>5. \A P : {v \in RowsOf(c)' : v.says.provenance \in P /\ v.availability <= t}
              = {v \in RowsOf(c) : v.says.provenance \in P /\ v.availability <= t}
  BY <1>3, <1>4 DEF RowsOf
<1>6. {v \in RowsOf(c)' : v.availability <= t} = {v \in RowsOf(c) : v.availability <= t}
  BY <1>3, <1>4 DEF RowsOf
<1> QED
  BY <1>5, <1>6 DEF ProductionAnswer, ResearchAnswer, LastOf

\* What production, or research, is said to have known of a claim at t is
\* settled once anything later is recorded of the claim.
THEOREM AnswersStaySettled == Spec => AnswersAreSettled
BY StepKeepsAnswers, InvariantHolds, PTL DEF Spec, AnswersAreSettled

-----------------------------------------------------------------------------
(* The stored vintages are a vintage ledger.                               *)

Ledger == INSTANCE VintageLedger WITH
              Subject <- Claims, Revision <- Nat, Time <- Times,
              Payload <- Forecasts, ledger <- Entries

EntryOf(v) == [subject |-> v.claim, revision |-> v.revision,
               availability |-> v.availability, payload |-> v.says]

\* A row that fits is a legal append.
LEMMA FittingRowIsAppend ==
  ASSUME NEW r, Fits(r), vintages' = vintages \cup {r}
  PROVE  Ledger!Next
<1>1. Entries = {EntryOf(v) : v \in vintages}
  BY DEF Entries, EntryOf
<1>2. Entries' = Entries \cup {EntryOf(r)}
  BY DEF Entries, EntryOf
<1>3. EntryOf(r) \in Ledger!Entry
  BY DEF EntryOf, Vintage, Fits, Ledger!Entry
<1>4. \A o \in Ledger!HistoryOf(r.claim) : \E v \in RowsOf(r.claim) : o = EntryOf(v)
  BY <1>1 DEF Ledger!HistoryOf, EntryOf, RowsOf
<1>5. \A v \in RowsOf(r.claim) : EntryOf(v) \in Ledger!HistoryOf(r.claim)
  BY <1>1 DEF Ledger!HistoryOf, EntryOf, RowsOf
<1>6. \A o \in Ledger!HistoryOf(r.claim) :
         o.revision < r.revision /\ o.availability <= r.availability
  BY <1>4 DEF EntryOf, Fits
<1>7. r.revision # 0 =>
         \E o \in Ledger!HistoryOf(r.claim) : o.revision + 1 = r.revision /\ o.payload # r.says
  BY <1>5 DEF EntryOf, Fits
<1>8. Ledger!Follows(EntryOf(r))
  BY <1>6, <1>7 DEF EntryOf, Ledger!Follows
<1> QED
  BY <1>2, <1>3, <1>8 DEF Ledger!Next, Ledger!Append

\* RecordStructuredForecast implements the append-only vintage ledger.
THEOREM ForecastsImplementLedger == Spec => Ledger!Spec
<1>1. Init => Ledger!Init
  BY DEF Init, Ledger!Init, Entries
<1>2. IInv /\ [Next]_vars => [Ledger!Next]_Entries
  <2>1. vintages' = vintages => Entries' = Entries
    BY DEF Entries
  <2>2. ASSUME IInv, NEW w \in Workers, CommitClaim(w) \/ Adds(w) PROVE Ledger!Next
    BY <2>2, WritersAppend, FittingRowIsAppend
  <2> QED
    BY <2>1, <2>2, OnlyWritersWrite
<1> QED
  BY <1>1, <1>2, InvariantHolds, PTL DEF Spec, Ledger!Spec
=============================================================================
