--------------------------- MODULE AsyncGenerator ---------------------------
(***************************************************************************)
(* One async generator of a contracted function and the tasks that consume *)
(* it: _ContractAsyncGenerator (contracts.py), on one event loop.          *)
(*                                                                         *)
(* The wrapper keeps a flag of its own, _closed, beside the state of the   *)
(* Python generator it wraps.  It gives up the loop only inside that       *)
(* generator, so what it does when the generator answers, checks included, *)
(* is one step.                                                            *)
(***************************************************************************)
EXTENDS WrapperChecks

CONSTANTS
  Consumers,       \* tasks that hold the generator
  Operations,      \* those they use, besides aclose: "anext", "asend", "athrow"
  Misuse           \* RuntimeError of a busy generator, TypeError of a first send

ASSUME GeneratorAssumption ==
  /\ Operations \subseteq {"anext", "asend", "athrow"}
  /\ Misuse \in Exceptions

VARIABLES
  declares, \* what the function declares about exceptions
  orderly,  \* consumers take turns, iterate and close only, and no cleanup yields
  gen,      \* the Python generator object
  closed,   \* _closed
  exited,   \* ag_closed: GeneratorExit has been sent into the generator
  broken,   \* an active invariant of the receiver does not hold
  pc,       \* pc[t]: what t awaits of the generator
  got       \* got[t]: how t's last operation ended

fixed == <<declares, orderly>>
vars == <<fixed, gen, closed, exited, broken, pc, got>>

Generators == {"absent", "created", "suspended", "running", "closing", "finished"}

Stop == [kind |-> "stop"]
Closed == [kind |-> "closed"]

Endings == CheckedOutcomes \cup {Nothing, Stop, Closed}

TypeOK ==
  /\ declares \in Declarations /\ orderly \in BOOLEAN
  /\ gen \in Generators
  /\ closed \in BOOLEAN /\ exited \in BOOLEAN /\ broken \in BOOLEAN
  /\ pc \in [Consumers -> {"idle", "advance", "close"}]
  /\ got \in [Consumers -> Endings]
  /\ gen = "running" <=> \E t \in Consumers : pc[t] = "advance"
  /\ gen = "closing" <=> \E t \in Consumers : pc[t] = "close"
  /\ \A t, u \in Consumers : pc[t] # "idle" /\ pc[u] # "idle" => t = u
----------------------------------------------------------------------------
(* One operation of a consumer *)

Finish(t, x) == got' = [got EXCEPT ![t] = x] /\ pc' = [pc EXCEPT ![t] = "idle"]

Busy == gen \in {"running", "closing"}
Free(t) == pc[t] = "idle" /\ (orderly => ~Busy)
----------------------------------------------------------------------------
Init ==
  /\ declares \in Declarations /\ orderly \in BOOLEAN
  /\ gen = "absent" /\ closed = FALSE /\ exited = FALSE /\ broken \in BOOLEAN
  /\ pc = [t \in Consumers |-> "idle"]
  /\ got = [t \in Consumers |-> Nothing]

\* The call itself: the entry checks run now, the body only at the first
\* advance.
Open(t, accepted) ==
  /\ Free(t)
  /\ gen = "absent"
  /\ IF accepted /\ ~broken
       THEN gen' = "created" /\ Finish(t, Nothing)
       ELSE gen' = gen /\ Finish(t, IF accepted THEN Violation("invariant")
                                                 ELSE Violation("precondition"))
  /\ UNCHANGED <<fixed, closed, exited, broken>>

(* __anext__, asend and athrow: _advance *)

\* The generator runs on, to its next answer.
Advance(t, op) ==
  /\ Free(t)
  /\ \/ gen = "suspended" /\ ~(op = "athrow" /\ exited)
     \/ gen = "created" /\ op # "athrow"
  /\ gen' = "running"
  /\ pc' = [pc EXCEPT ![t] = "advance"]
  /\ got' = [got EXCEPT ![t] = Nothing]
  /\ UNCHANGED <<fixed, closed, exited, broken>>

\* The generator object refuses: it is busy, or was sent a value at its start.
\* The wrapper takes this for an exception of the body.
AdvanceRefused(t, op) ==
  /\ Free(t)
  /\ Busy \/ (gen = "created" /\ op = "asend")
  /\ closed' = TRUE
  /\ Finish(t, Handle(declares, broken, Misuse))
  /\ UNCHANGED <<fixed, gen, exited, broken>>

\* An exception thrown into a generator that has not started ends it.
ThrowAtStart(t, e) ==
  /\ Free(t)
  /\ gen = "created"
  /\ gen' = "finished" /\ closed' = TRUE
  /\ Finish(t, Handle(declares, broken, e))
  /\ UNCHANGED <<fixed, exited, broken>>

AdvanceFinished(t, op) ==
  /\ Free(t)
  /\ gen = "finished"
  /\ IF op = "athrow"
       THEN closed' = closed /\ Finish(t, Success(broken, NoValue))
       ELSE closed' = TRUE /\ Finish(t, Verified(broken, Stop))
  /\ UNCHANGED <<fixed, gen, exited, broken>>

\* A generator that outlived its aclose lets nothing be thrown into it: it
\* answers StopAsyncIteration and stays where it is.
ThrowAfterExit(t) ==
  /\ Free(t)
  /\ gen = "suspended" /\ exited
  /\ closed' = TRUE
  /\ Finish(t, Verified(broken, Stop))
  /\ UNCHANGED <<fixed, gen, exited, broken>>

Yields_Closing(t, v) ==  \* slip: a failed check closes the wrapper
  /\ pc[t] = "advance"
  /\ gen' = "suspended"
  /\ closed' = (closed \/ Success(broken, v).kind = "violation")
  /\ Finish(t, Success(broken, v))
  /\ UNCHANGED <<fixed, exited, broken>>

Yields_Unverified(t, v) ==  \* slip: only the postconditions are checked
  /\ pc[t] = "advance"
  /\ gen' = "suspended"
  /\ Finish(t, IF v \in Accepted THEN Value(v) ELSE Violation("postcondition"))
  /\ UNCHANGED <<fixed, closed, exited, broken>>

Yields(t, v) ==
  /\ pc[t] = "advance"
  /\ gen' = "suspended"
  /\ Finish(t, Success(broken, v))
  /\ UNCHANGED <<fixed, closed, exited, broken>>

Returns(t) ==
  /\ pc[t] = "advance"
  /\ gen' = "finished" /\ closed' = TRUE
  /\ Finish(t, Verified(broken, Stop))
  /\ UNCHANGED <<fixed, exited, broken>>

Raises_Raw(t, e) ==  \* slip: the exception is passed on as it is
  /\ pc[t] = "advance"
  /\ gen' = "finished" /\ closed' = TRUE
  /\ Finish(t, Verified(broken, Raised(e)))
  /\ UNCHANGED <<fixed, exited, broken>>

Raises(t, e) ==
  /\ pc[t] = "advance"
  /\ gen' = "finished" /\ closed' = TRUE
  /\ Finish(t, Handle(declares, broken, e))
  /\ UNCHANGED <<fixed, exited, broken>>

\* A ContractViolationError of a call in the body; no invariant is checked.
RaisesViolation(t) ==
  /\ pc[t] = "advance"
  /\ gen' = "finished" /\ closed' = TRUE
  /\ Finish(t, Violation("nested"))
  /\ UNCHANGED <<fixed, exited, broken>>

\* The task is cancelled and the body lets CancelledError through: no except
\* clause of _advance is for it.
Cancelled(t) ==
  /\ pc[t] = "advance"
  /\ gen' = "finished"
  /\ Finish(t, Aborted)
  /\ UNCHANGED <<fixed, closed, exited, broken>>
----------------------------------------------------------------------------
(* aclose *)

CloseAgain(t) ==
  /\ Free(t)
  /\ closed
  /\ Finish(t, Closed)
  /\ UNCHANGED <<fixed, gen, closed, exited, broken>>

\* Nothing of the body is left to run.
CloseAtOnce(t) ==
  /\ Free(t)
  /\ ~closed
  /\ gen \in {"created", "finished"}
  /\ gen' = "finished" /\ closed' = TRUE
  /\ Finish(t, Verified(broken, Closed))
  /\ UNCHANGED <<fixed, exited, broken>>

CloseRefused_Enters(t) ==  \* slip: the cleanup starts while the body runs
  /\ Free(t)
  /\ ~closed
  /\ Busy
  /\ gen' = "closing"
  /\ pc' = [pc EXCEPT ![t] = "close"]
  /\ got' = [got EXCEPT ![t] = Nothing]
  /\ UNCHANGED <<fixed, closed, exited, broken>>

CloseRefused(t) ==
  /\ Free(t)
  /\ ~closed
  /\ Busy
  /\ closed' = TRUE
  /\ Finish(t, Verified(broken, Raised(Misuse)))
  /\ UNCHANGED <<fixed, gen, exited, broken>>

CloseStarts_FlagFirst(t) ==  \* slip: _closed is set before the cleanup is awaited
  /\ Free(t)
  /\ ~closed
  /\ gen = "suspended"
  /\ gen' = "closing" /\ closed' = TRUE
  /\ pc' = [pc EXCEPT ![t] = "close"]
  /\ got' = [got EXCEPT ![t] = Nothing]
  /\ exited' = TRUE
  /\ UNCHANGED <<fixed, broken>>

\* GeneratorExit goes into the body, whose cleanup may await.
CloseStarts(t) ==
  /\ Free(t)
  /\ ~closed
  /\ gen = "suspended"
  /\ gen' = "closing"
  /\ pc' = [pc EXCEPT ![t] = "close"]
  /\ got' = [got EXCEPT ![t] = Nothing]
  /\ exited' = TRUE
  /\ UNCHANGED <<fixed, closed, broken>>

CloseEnds_Unverified(t) ==  \* slip: no check in the finally block
  /\ pc[t] = "close"
  /\ gen' = "finished" /\ closed' = TRUE
  /\ Finish(t, Closed)
  /\ UNCHANGED <<fixed, exited, broken>>

\* The finally block: _closed is set and the invariants are checked on every
\* way out of the cleanup.
CloseEnds(t) ==
  /\ pc[t] = "close"
  /\ gen' = "finished" /\ closed' = TRUE
  /\ \E x \in {Closed, Aborted, Violation("nested")} \cup {Raised(e) : e \in Exceptions} :
       Finish(t, Verified(broken, x))
  /\ UNCHANGED <<fixed, exited, broken>>

\* The cleanup yields: RuntimeError, and the generator lives on.
CloseIgnored(t) ==
  /\ ~orderly
  /\ pc[t] = "close"
  /\ gen' = "suspended" /\ closed' = TRUE
  /\ Finish(t, Verified(broken, Raised(Misuse)))
  /\ UNCHANGED <<fixed, exited, broken>>
----------------------------------------------------------------------------
\* The body of the generator, or other code between two steps of the loop,
\* writes the receiver.
Write ==
  /\ broken' = ~broken
  /\ UNCHANGED <<fixed, gen, closed, exited, pc, got>>

Used == IF orderly THEN {"anext"} ELSE Operations

Consume(t) ==
  \/ \E accepted \in BOOLEAN : Open(t, accepted)
  \/ \E op \in Used : Advance(t, op) \/ AdvanceRefused(t, op) \/ AdvanceFinished(t, op)
  \/ "athrow" \in Used /\ (ThrowAfterExit(t) \/ \E e \in Exceptions : ThrowAtStart(t, e))
  \/ CloseAgain(t) \/ CloseAtOnce(t) \/ CloseRefused(t) \/ CloseStarts(t)

Body(t) ==
  \/ \E v \in Values : Yields(t, v)
  \/ \E e \in Exceptions : Raises(t, e)
  \/ Returns(t) \/ RaisesViolation(t) \/ Cancelled(t)
  \/ CloseEnds(t)

Next == Write \/ \E t \in Consumers : Consume(t) \/ Body(t) \/ CloseIgnored(t)

Spec == Init /\ [][Next]_vars
----------------------------------------------------------------------------
(* Properties *)

\* Every value that reaches a consumer satisfies the postconditions, and the
\* invariants hold when it gets it, whoever else uses the generator (docs: each
\* yielded value is validated).
YieldHonoursContract ==
  [][\A t \in Consumers : pc[t] = "advance" /\ got'[t].kind = "value" =>
       got'[t].value \in Accepted /\ ~broken']_vars

\* A consumer that sees the generator end, by exhaustion, by its own aclose or
\* with an exception of the body or of its cleanup, declared or not, finds the
\* invariants true: they were checked after the last code of the body.
EndVerified ==
  [][\A t \in Consumers :
       gen # "finished" /\ gen' = "finished" /\ got'[t] # got[t]
       /\ got'[t].kind \in {"stop", "closed", "exception"} => ~broken']_vars

\* While a consumer advances the generator, only exceptions the function
\* declares reach it, as from any contracted function.
AdvanceOnlyDeclared ==
  [][\A t \in Consumers : pc[t] = "advance" /\ got'[t].kind = "exception" =>
       Declared(declares, got'[t].value)]_vars

\* With consumers that take turns and only iterate and close, _closed is never
\* ahead of the generator: aclose becomes a no-op only when the body, its
\* cleanup included, is over.
ClosedMeansFinished == orderly /\ closed => gen = "finished"

\* Whoever consumes it and however: when _closed is set while the generator
\* lives on, so that later acloses do nothing and its cleanup may never run,
\* the consumer whose operation sets it gets an exception or a violation, in
\* the same step.  No operation that ends well does so, nor does one that is
\* still on its way.
AheadIsTold ==
  [][~closed /\ closed' /\ gen' # "finished" =>
       \E t \in Consumers :
         /\ pc'[t] = "idle" /\ got'[t].kind \in {"exception", "violation"}
         /\ \A u \in Consumers : u # t => pc'[u] = pc[u] /\ got'[u] = got[u]]_vars

\* README.md:136: only declared exceptions are allowed through.
OnlyDeclaredThrough ==
  \A t \in Consumers : got[t].kind = "exception" => Declared(declares, got[t].value)
============================================================================
