------------------------------ MODULE LockPools ------------------------------
(***************************************************************************)
(* The connections behind concurrent BackfillCandles calls of one process: *)
(* PostgresBackfillLock keeps a connection while it waits for, and then    *)
(* holds, the series' advisory lock; the call's session takes another one  *)
(* whenever it works and gives it back at every commit.  get_lock_engine   *)
(* gives the locks a pool of their own.                                    *)
(*                                                                         *)
(* A checkout waits for as long as the pool is exhausted: SQLAlchemy's     *)
(* pool timeout, which would turn a deadlock into an error, is not needed  *)
(* for anything here and is left out.                                      *)
(***************************************************************************)
EXTENDS Naturals, FiniteSets

CONSTANTS Workers,     \* concurrent calls
          Series,      \* (instrument, granularity) pairs
          LockSlots,   \* connections the lock engine's pool can open
          WorkSlots,   \* connections the session engine's pool can open
          MaxPages,    \* bound on the commits of a call
          Nobody

ASSUME PoolsAssumption ==
    /\ IsFiniteSet(Workers)
    /\ LockSlots \in Nat \ {0}
    /\ WorkSlots \in Nat \ {0}
    /\ MaxPages \in Nat
    /\ Nobody \notin Workers

VARIABLES pc,       \* per call: what it does or waits for
          series,   \* per call: the series it extends
          pages,    \* per call: the commits left to make
          held,     \* the connections checked out, as <<call, use>>
          owner     \* per series: the call whose connection has its advisory lock

vars == <<pc, series, pages, held, owner>>

Uses == {"lock", "work"}
Steps == {"idle", "connect", "lock", "checkout", "work", "unlock", "close"}

\* Mutant: one engine serves sessions and locks.
OneEngine(use) == "work"

\* The pool a connection for some use comes from.
PoolOf(use) == use

Slots(pool) == IF pool = "lock" THEN LockSlots ELSE WorkSlots

TakenFrom(pool) == {c \in held : PoolOf(c[2]) = pool}

\* A connection can be had from the pool.
Available(pool) == Cardinality(TakenFrom(pool)) < Slots(pool)

-----------------------------------------------------------------------------
Init ==
    /\ pc = [w \in Workers |-> "idle"]
    /\ series \in [Workers -> Series]
    /\ pages = [w \in Workers |-> 0]
    /\ held = {}
    /\ owner = [s \in Series |-> Nobody]

Goto(w, step) == pc' = [pc EXCEPT ![w] = step]

\* A call with a fresh session, some pages to commit.
Call(w, s, n) ==
    /\ pc[w] = "idle"
    /\ series' = [series EXCEPT ![w] = s]
    /\ pages' = [pages EXCEPT ![w] = n]
    /\ Goto(w, "connect")
    /\ UNCHANGED <<held, owner>>

\* engine.connect in the lock's context manager.
Connect(w) ==
    /\ pc[w] = "connect"
    /\ Available(PoolOf("lock"))
    /\ held' = held \cup {<<w, "lock">>}
    /\ Goto(w, "lock")
    /\ UNCHANGED <<series, pages, owner>>

\* SELECT pg_advisory_lock returns.
Lock(w) ==
    /\ pc[w] = "lock"
    /\ owner[series[w]] = Nobody
    /\ owner' = [owner EXCEPT ![series[w]] = w]
    /\ Goto(w, "checkout")
    /\ UNCHANGED <<series, pages, held>>

\* The first statement after a commit checks a connection out.
Checkout(w) ==
    /\ pc[w] = "checkout"
    /\ Available(PoolOf("work"))
    /\ held' = held \cup {<<w, "work">>}
    /\ Goto(w, "work")
    /\ UNCHANGED <<series, pages, owner>>

\* upsert_many or set_watermark commits and gives the connection back.
Commit(w) ==
    /\ pc[w] = "work"
    /\ pages[w] > 0
    /\ pages' = [pages EXCEPT ![w] = pages[w] - 1]
    /\ held' = held \ {<<w, "work">>}
    /\ Goto(w, "checkout")
    /\ UNCHANGED <<series, owner>>

\* The final get_watermark is committed by nobody: the session keeps its
\* connection past the unlocking, until it is closed.
FinalRead(w) ==
    /\ pc[w] = "work"
    /\ pages[w] = 0
    /\ Goto(w, "unlock")
    /\ UNCHANGED <<series, pages, held, owner>>

\* A statement raises: the lock's context is left at once.
Fail(w) ==
    /\ pc[w] \in {"checkout", "work"}
    /\ Goto(w, "unlock")
    /\ UNCHANGED <<series, pages, held, owner>>

\* pg_advisory_unlock, then the lock's connection is returned.
Unlock(w) ==
    /\ pc[w] = "unlock"
    /\ owner' = [owner EXCEPT ![series[w]] = Nobody]
    /\ held' = held \ {<<w, "lock">>}
    /\ Goto(w, "close")
    /\ UNCHANGED <<series, pages>>

\* The caller closes the session.
CloseSession(w) ==
    /\ pc[w] = "close"
    /\ held' = held \ {<<w, "work">>}
    /\ Goto(w, "idle")
    /\ UNCHANGED <<series, pages, owner>>

Step(w) == \/ Connect(w) \/ Lock(w) \/ Checkout(w) \/ Commit(w)
           \/ FinalRead(w) \/ Unlock(w) \/ CloseSession(w)

Next == \E w \in Workers :
           \/ \E s \in Series, n \in 0 .. MaxPages : Call(w, s, n)
           \/ Step(w)
           \/ Fail(w)

Spec == Init /\ [][Next]_vars

\* The event loop runs every call that can proceed; pools and Postgres serve
\* those that queue in turn.
FairSpec ==
    /\ Spec
    /\ \A w \in Workers :
          WF_vars(Step(w)) /\ SF_vars(Connect(w)) /\ SF_vars(Lock(w)) /\ SF_vars(Checkout(w))

-----------------------------------------------------------------------------
(* Properties.                                                             *)

\* Every variable keeps its type.
TypeOK ==
    /\ pc \in [Workers -> Steps]
    /\ series \in [Workers -> Series]
    /\ pages \in [Workers -> 0 .. MaxPages]
    /\ held \subseteq Workers \X Uses
    /\ owner \in [Series -> Workers \cup {Nobody}]

\* Whoever owns a series' advisory lock is past waiting for it, still has the
\* connection the lock belongs to, and owns no other series.
LockNeedsConnection ==
    \A s \in Series : owner[s] # Nobody =>
       /\ series[owner[s]] = s
       /\ <<owner[s], "lock">> \in held
       /\ pc[owner[s]] \in {"checkout", "work", "unlock"}

\* get_lock_engine's docstring: lock connections and worker connections never
\* compete for the same slots.  A lock owner kept waiting for a connection
\* waits for calls that can finish their work, never for calls that wait for
\* a lock themselves.
OwnersWaitForWorkers ==
    \A w, u \in Workers :
       (pc[w] = "checkout" /\ \E use \in Uses :
            /\ <<u, use>> \in held
            /\ PoolOf(use) = PoolOf("work"))
          => pc[u] \in {"work", "unlock", "close"}

\* Every call gets its lock and its connections and ends.
EveryCallEnds == \A w \in Workers : pc[w] # "idle" ~> pc[w] = "idle"
=============================================================================
