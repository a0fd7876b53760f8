------------------------------- MODULE Schema -------------------------------
(* Tables as Postgres keeps them, as far as the migrations and the writers   *)
(* can tell them apart: which columns a row must and may have, the           *)
(* constraints it is held to, the rows.  An index changes no answer and is   *)
(* left out, and so is a column's type.                                      *)
(*                                                                           *)
(* A row has its table, the columns it now "holds" a value in, and the       *)
(* "truth": the columns its writer knew, whatever the schema of the day      *)
(* could keep.  A column a row does not hold is NULL there.                  *)
EXTENDS Integers, Sequences, FiniteSets, Functions, SequencesExt

Rule(says, of, table, keys, values) ==
    {[says |-> says, of |-> of, table |-> table, keys |-> keys, values |-> values]}

Unique(columns) == Rule("unique", columns, "", <<>>, {})
Refers(columns, table, keys) == Rule("refers to", columns, table, keys, {})
NotBoth(c, d) == Rule("not both", <<c, d>>, "", <<>>, {})
OneOf(column, values) == Rule("one of", <<column>>, "", <<>>, values)
OfEach(says, columns) == UNION {Rule(says, <<c>>, "", <<>>, {}) : c \in columns}
Natural(columns) == OfEach("natural", columns)
NotEmpty(columns) == OfEach("not empty", columns)
IsArray(columns) == OfEach("array", columns)

\* What an automatic method decides is SAME_STORY.
AutomaticIsSameStory(methods) ==
    Rule("automatic is same story", <<"method", "relation_kind">>, "", <<>>, methods)

\* Constraints that relate columns no property looks into, by their names.
Shaped(names) == UNION {Rule(n, <<>>, "", <<>>, {}) : n \in names}

\* UUIDPrimaryKeyMixin and TimestampMixin.
Kept == {"id", "created_at", "updated_at"}

Table(required, optional, rules) ==
    [required |-> required \cup Kept, optional |-> optional, rules |-> rules]

Columns(table) == table.required \cup table.optional
RowsOf(rows, t) == {r \in rows : r.table = t}
HasAll(r, columns) == Range(columns) \subseteq DOMAIN r.holds
Values(r, columns) == [i \in DOMAIN columns |-> r.holds[columns[i]]]

With(r, c, value) ==
    [r EXCEPT !.holds = [d \in DOMAIN @ \cup {c} |-> IF d = c THEN value ELSE r.holds[d]]]

\* A constraint with a NULL in it is kept.
Keeps(rows, t, rule) ==
    LET held == {r \in RowsOf(rows, t) : HasAll(r, rule.of)}
    IN \/ /\ rule.says = "unique"
          /\ \A r, q \in held : r # q => Values(r, rule.of) # Values(q, rule.of)
       \/ /\ rule.says = "refers to"
          /\ \A r \in held : \E p \in RowsOf(rows, rule.table) :
                HasAll(p, rule.keys) /\ Values(p, rule.keys) = Values(r, rule.of)
       \/ rule.says = "one of" /\ \A r \in held : r.holds[rule.of[1]] \in rule.values
       \/ rule.says = "not both" /\ \A r \in held : ~(r.holds[rule.of[1]] /\ r.holds[rule.of[2]])
       \/ /\ rule.says = "automatic is same story"
          /\ \A r \in held : r.holds["method"] \in rule.values =>
                r.holds["relation_kind"] = "SAME_STORY"
       \/ rule.says \notin {"unique", "refers to", "one of", "not both", "automatic is same story"}

\* INSERT: every table of the new rows is there, and they break no constraint.
Admits(schema, rows, new) ==
    \A r \in new :
       /\ r.table \in DOMAIN schema
       /\ DOMAIN r.holds \subseteq Columns(schema[r.table])
       /\ \A rule \in schema[r.table].rules : Keeps(rows \cup new, r.table, rule)

-----------------------------------------------------------------------------
(* Statements, each with what it does to the tables: "ok" turns FALSE when    *)
(* Postgres raises.                                                           *)

CreateTable(t, as) == [do |-> "create table", table |-> t, as |-> as]
DropTable(t) == [do |-> "drop table", table |-> t]
\* fill is the sequence of the server's default, or empty.
AddColumn(t, c, needed, fill) ==
    [do |-> "add column", table |-> t, column |-> c, needed |-> needed, fill |-> fill]
DropColumn(t, c) == [do |-> "drop column", table |-> t, column |-> c]
SetNotNull(t, c) == [do |-> "set not null", table |-> t, column |-> c]
DropNotNull(t, c) == [do |-> "drop not null", table |-> t, column |-> c]
AddRules(t, rules) == [do |-> "add constraints", table |-> t, rules |-> rules]
DropRules(t, rules) == [do |-> "drop constraints", table |-> t, rules |-> rules]

Changed(w, ok, t, as) == [ok |-> ok, schema |-> [w.schema EXCEPT ![t] = as], rows |-> w.rows]

Creates(w, s) ==
    [ok |-> /\ s.table \notin DOMAIN w.schema
            /\ \A rule \in s.as.rules : rule.says = "refers to" =>
                  /\ rule.table \in DOMAIN w.schema
                  /\ Unique(rule.keys) \subseteq w.schema[rule.table].rules,
     schema |-> [t \in DOMAIN w.schema \cup {s.table} |->
                    IF t = s.table THEN s.as ELSE w.schema[t]],
     rows |-> w.rows]

\* Without CASCADE a table another one refers to stays.
Drops(w, s) ==
    LET rest == DOMAIN w.schema \ {s.table}
    IN [ok |-> \A t \in rest : \A rule \in w.schema[t].rules : rule.table # s.table,
        schema |-> Restrict(w.schema, rest),
        rows |-> {r \in w.rows : r.table # s.table}]

AddsColumn(w, s) ==
    LET old == w.schema[s.table]
    IN [ok |-> /\ s.column \notin Columns(old)
               /\ s.needed /\ s.fill = <<>> => RowsOf(w.rows, s.table) = {},
        schema |-> [w.schema EXCEPT ![s.table] =
                      IF s.needed THEN [old EXCEPT !.required = @ \cup {s.column}]
                      ELSE [old EXCEPT !.optional = @ \cup {s.column}]],
        rows |-> {IF r.table = s.table /\ s.fill # <<>> THEN With(r, s.column, s.fill[1]) ELSE r :
                    r \in w.rows}]

DropsColumn(w, s) ==
    LET old == w.schema[s.table]
    IN [ok |-> /\ s.column \in Columns(old)
               /\ \A rule \in old.rules : s.column \notin Range(rule.of),
        schema |-> [w.schema EXCEPT ![s.table] =
                      [old EXCEPT !.required = @ \ {s.column}, !.optional = @ \ {s.column}]],
        rows |-> {IF r.table = s.table
                  THEN [r EXCEPT !.holds = Restrict(@, DOMAIN @ \ {s.column})]
                  ELSE r : r \in w.rows}]

SetsNotNull(w, s) ==
    Changed(w, \A r \in RowsOf(w.rows, s.table) : s.column \in DOMAIN r.holds, s.table,
            [w.schema[s.table] EXCEPT !.required = @ \cup {s.column}, !.optional = @ \ {s.column}])

DropsNotNull(w, s) ==
    Changed(w, TRUE, s.table,
            [w.schema[s.table] EXCEPT !.required = @ \ {s.column}, !.optional = @ \cup {s.column}])

AddsRules(w, s) ==
    Changed(w, /\ s.rules \cap w.schema[s.table].rules = {}
               /\ \A rule \in s.rules : Keeps(w.rows, s.table, rule),
            s.table, [w.schema[s.table] EXCEPT !.rules = @ \cup s.rules])

DropsRules(w, s) ==
    Changed(w, s.rules \subseteq w.schema[s.table].rules,
            s.table, [w.schema[s.table] EXCEPT !.rules = @ \ s.rules])

Executes(w, s) ==
    CASE s.do = "create table" -> Creates(w, s)
      [] s.do = "drop table" -> Drops(w, s)
      [] s.do = "add column" -> AddsColumn(w, s)
      [] s.do = "drop column" -> DropsColumn(w, s)
      [] s.do = "set not null" -> SetsNotNull(w, s)
      [] s.do = "drop not null" -> DropsNotNull(w, s)
      [] s.do = "add constraints" -> AddsRules(w, s)
      [] s.do = "drop constraints" -> DropsRules(w, s)
=============================================================================
