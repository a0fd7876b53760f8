---------------------------- MODULE MCNewsLedger ----------------------------
(* A small instance of NewsLedger for TLC. *)
EXTENDS NewsLedger

Ledger == INSTANCE VintageLedger WITH
              Subject <- Keys, Revision <- 0 .. MaxObservations, Time <- Times,
              Payload <- Contents \X (SUBSET Channels), ledger <- Entries

\* The stored news revisions implement the append-only ledger: every step of
\* every interleaving of calls appends one legal revision or none.
LedgerSpec == Ledger!Spec
=============================================================================
