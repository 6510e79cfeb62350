-------------------------- MODULE MCAsyncGenerator --------------------------
(* Small instances of AsyncGenerator: one good and one bad value, one        *)
(* declared and one undeclared exception beside RuntimeError.                *)
EXTENDS AsyncGenerator
MCValues == {"good", "bad"}
MCAccepted == {"good"}
MCExceptions == {"declared", "undeclared", "misuse"}
MCMatched == {"declared"}
AllOperations == {"anext", "asend", "athrow"}
============================================================================
