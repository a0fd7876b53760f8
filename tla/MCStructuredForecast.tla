------------------------ MODULE MCStructuredForecast ------------------------
(* Small instances of StructuredForecast for TLC. *)
EXTENDS StructuredForecast

Forecast(b, p, m) == [basis |-> b, payload |-> p, provenance |-> m]

\* One basis read three ways, and another basis.
MCForecasts == {Forecast("b1", "p1", "production"), Forecast("b1", "p2", "production"),
                Forecast("b1", "p1", "retrospective"), Forecast("b2", "p2", "retrospective")}

Ledger == INSTANCE VintageLedger WITH
              Subject <- Claims, Revision <- 0 .. MaxCalls, Time <- Times,
              Payload <- Forecasts, ledger <- Entries

\* The stored forecast vintages implement the append-only ledger.
LedgerSpec == Ledger!Spec
=============================================================================
