----------------------- MODULE MCAsyncContextManager -----------------------
(* Small instances of AsyncContextManager: one good and one bad value, one   *)
(* declared and one undeclared exception.                                    *)
EXTENDS AsyncContextManager
MCValues == {"good", "bad"}
MCAccepted == {"good"}
MCExceptions == {"declared", "undeclared"}
MCMatched == {"declared"}
=============================================================================
