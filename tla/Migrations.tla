------------------------------ MODULE Migrations ------------------------------
(* A database that is migrated up and down while it is in use.  Between two   *)
(* commands the code of the database's revision writes documents: rows of     *)
(* several tables in one transaction.  While a command runs nobody writes.    *)
EXTENDS Revisions, TableModels

CONSTANT Plans    \* sets of documents that may come, as [since, rows] records

VARIABLES db,           \* its revision (a position in Chain), tables and rows
          documents     \* those that may come in this behaviour

databaseVars == <<db, documents>>

\* The statements from one revision to another.
Way(n, m) ==
    IF n < m THEN FlattenSeq([i \in 1 .. m - n |-> Chain[n + i].up])
    ELSE FlattenSeq([i \in 1 .. n - m |-> Chain[n + 1 - i].down])

Nothing == [ok |-> TRUE, schema |-> [t \in {} |-> {}], rows |-> {}]

DatabaseInit ==
    /\ db = [revision |-> 0, schema |-> Nothing.schema, rows |-> Nothing.rows]
    /\ documents \in Plans

\* env.py runs every migration on the way in one transaction: one that raises
\* leaves the database as it was.
Migrate(goal) ==
    LET after == Runs([ok |-> TRUE, schema |-> db.schema, rows |-> db.rows],
                      Way(db.revision, goal))
    IN /\ after.ok
       /\ db' = [revision |-> goal, schema |-> after.schema, rows |-> after.rows]
       /\ UNCHANGED documents

Upgrade == \E goal \in {db.revision + 1, Latest} :
              goal \in db.revision + 1 .. Latest /\ Migrate(goal)
Downgrade == \E goal \in {db.revision - 1, 0} :
              goal \in 0 .. db.revision - 1 /\ Migrate(goal)

\* canonical_target_period_key wrote isoformat() before 3b03a0c4f0ba: a
\* fraction only where there is one.
KeyOf(period, revision) ==
    IF period[1] = "SPECIFIC_DATE" /\ period[3] = 0 /\ revision < At("3b03a0c4f0ba")
    THEN <<period[1], period[2], -1>> ELSE period

\* A row as the tables of the day can hold it.
Storable(r) ==
    LET kept == Restrict(r.truth, DOMAIN r.truth \cap Columns(db.schema[r.table]))
        row == [table |-> r.table, truth |-> r.truth, holds |-> kept]
    IN IF r.table = "forecast_outcome_identity_bindings"
       THEN With(row, "target_period_key", KeyOf(r.truth["target_period_key"], db.revision))
       ELSE row

Stored(r) == \E q \in db.rows : q.table = r.table /\ q.truth = r.truth

\* Rows that are there already are found and left alone.
Write(doc) ==
    LET new == {Storable(r) : r \in {x \in doc.rows : x.table \in DOMAIN db.schema /\ ~Stored(x)}}
    IN /\ doc.since <= db.revision
       /\ new # {}
       /\ Admits(db.schema, db.rows, new)
       /\ db' = [db EXCEPT !.rows = @ \cup new]
       /\ UNCHANGED documents

DatabaseNext == Upgrade \/ Downgrade \/ \E doc \in documents : Write(doc)

DatabaseSpec == DatabaseInit /\ [][DatabaseNext]_databaseVars

-----------------------------------------------------------------------------
(* Properties.                                                             *)

FreshSchema == [n \in 0 .. Latest |-> Runs(Nothing, Way(0, n)).schema]

\* However a database came to its revision, over whatever upgrades, downgrades
\* and refusals, its tables are those of a new database upgraded to it, and at
\* the latest revision those the application's models declare.
SchemaIsItsRevision ==
    /\ db.schema = FreshSchema[db.revision]
    /\ db.revision = Latest => db.schema = ModelSchema

\* Columns whose content a downgrade may drop: 73b1423a5949's while they say
\* no more than source_channel does, and ecdb152af0a8's source_published_at.
Expendable(r) ==
    {c \in DOMAIN r.holds :
       \/ r.table = "economic_event_release_vintages" /\ c = "source_published_at"
       \/ c = "observed_source_channels" /\ r.holds[c] = {r.holds["source_channel"]}}

SurvivesIn(r, rows) ==
    \E q \in rows : /\ q.table = r.table
                    /\ q.truth = r.truth
                    /\ DOMAIN r.holds \ Expendable(r) \subseteq DOMAIN q.holds

\* What is kept from 76a4b23b2129 on and cannot be fetched again.
Evidence(r) ==
    /\ db.revision >= At("76a4b23b2129")
    /\ r.table \notin {"candles", "ingestion_watermarks", "macro_observation_vintages"}

\* What the migrations' _raise_if_downgrade_would_lose_data are for: no upgrade
\* loses a row or a value, and no downgrade loses evidence.
EvidenceSurvives ==
    [][ \A r \in db.rows : db'.revision >= db.revision \/ Evidence(r) => SurvivesIn(r, db'.rows) ]_db

\* Flags that migrations fill with what claims the least.
Cautious == {"released_at_is_verified", "released_at_is_conservative_bound"}

TrueOf(r, c) ==
    \/ r.holds[c] = r.truth[c]
    \/ c \in Cautious /\ (r.holds[c] => db.revision < At("80c0ae20257b"))
    \/ c = "target_period_key" /\ db.revision < At("3b03a0c4f0ba")

\* What a migration filled in of older rows is what their writer would have
\* written (a flag may claim less, once 80c0ae20257b has run, and the key of a
\* date be coarser until 3b03a0c4f0ba has), and from 80877afdbe75 on every
\* outcome has the binding of its identity.
BackfillsAreTrue ==
    /\ \A r \in db.rows : \A c \in DOMAIN r.holds : TrueOf(r, c)
    /\ db.revision >= At("80877afdbe75") =>
          \A v \in RowsOf(db.rows, "forecast_outcome_vintages") :
             \E b \in RowsOf(db.rows, "forecast_outcome_identity_bindings") :
                b.truth = Binding(v.truth, ExactKey(v.truth))
=============================================================================
