---------------------------- MODULE RustContract ----------------------------
(***************************************************************************)
(* Functions expanded by the Rust attribute #[contract(...)]: the checks   *)
(* around the body (crates/rust-contract-checks-macros/src/lib.rs), the    *)
(* capture of panics and the enable switch (crates/rust-contract-checks).  *)
(*                                                                         *)
(* Calls nest on one thread and on one object: &mut self keeps every other *)
(* thread off it.  Only the environment, with the switch in it, can be     *)
(* changed by anyone at any time.  A violation travels as a panic payload. *)
(***************************************************************************)
EXTENDS Naturals, Sequences, ClauseRules

CONSTANTS
  Fns,                \* the expanded functions
  Clauses,            \* clause identifiers: numbers, in declaration order
  Contract,           \* Contract[f]: what the attribute declares for f
  States,             \* states of the object the expressions look at
  Args, Results,
  Errs,               \* the results that are Err
  Eval(_, _, _),      \* Eval(c, s, v): what evaluating the expression of c does
  Environments,       \* builds of the program, and environments it is run in
  MaxDepth            \* bound on nested calls

ContractType ==
  [pre : SUBSET Clauses, post : SUBSET Clauses, err : SUBSET Clauses, inv : SUBSET Clauses,
   pure : BOOLEAN, panicFree : BOOLEAN, result : BOOLEAN, mutable : BOOLEAN]

\* What the macro does not turn down at compile time: error clauses are for
\* functions that return a Result, pure ones take nothing by &mut.
Accepted(c) ==
  /\ c.err # {} => c.result
  /\ c.pure => ~c.mutable

\* An expression is true or false, panics, or calls an expanded function that
\* panics with a violation.
Evaluations == {"true", "false", "panics", "violates"}

ASSUME RustClausesAssumption == Clauses \subseteq Nat
ASSUME RustContractAssumption ==
  Contract \in [Fns -> ContractType] /\ \A f \in Fns : Accepted(Contract[f])
ASSUME RustResultsAssumption == Errs \subseteq Results
ASSUME RustEvalAssumption ==
  \A c \in Clauses, s \in States, v \in Args \cup Results : Eval(c, s, v) \in Evaluations
ASSUME RustBoundsAssumption ==
  /\ MaxDepth \in Nat \ {0}
  /\ Environments \subseteq [compiledIn : BOOLEAN, primary : EnvValues, legacy : EnvValues]

VARIABLES
  env,      \* whether checks are compiled in (a debug build, or always-contracts),
            \* and the environment variables of the process
  obj,      \* the state of the object
  stack,    \* the calls in progress, innermost first
  outcome   \* what the last call, or a panic, handed to the code now running

vars == <<env, obj, stack, outcome>>

Phases == {"pre", "entry", "body", "post", "error", "exit"}

Frames ==
  [fn : Fns, phase : Phases, todo : SUBSET Clauses, val : Args \cup Results, matched : BOOLEAN]

\* What a frame has to check belongs to its phase, and a check of a result
\* is one of a result.
WellFormed(f) ==
  /\ f.phase \in {"pre", "entry"} => f.val \in Args
  /\ f.phase \in {"post", "error", "exit"} => f.val \in Results
  /\ f.phase = "body" => f.todo = {}
  /\ f.matched => f.phase \in {"error", "exit"}
  /\ f.phase = "pre" => f.todo \subseteq Contract[f.fn].pre
  /\ f.phase = "post" => f.todo \subseteq Contract[f.fn].post
  /\ f.phase = "error" => f.todo \subseteq Contract[f.fn].err /\ f.val \in Errs
  /\ f.phase \in {"entry", "exit"} => f.todo \subseteq Contract[f.fn].inv

FrameType == {f \in Frames : WellFormed(f)}

Nothing == [kind |-> "none"]
Returned(r) == [kind |-> "return", value |-> r]
Panic == [kind |-> "panic"]
Violation(k, f) == [kind |-> "violation", clause |-> k, by |-> f]

ClauseKinds == {"precondition", "postcondition", "invariant", "error", "panic", "nested"}

Outcomes ==
  {Nothing, Panic} \cup {Returned(r) : r \in Results}
    \cup {Violation(k, f) : k \in ClauseKinds, f \in Fns}

\* Below the innermost call every call is in its body.
TypeOK ==
  /\ env \in Environments
  /\ obj \in States
  /\ stack \in Seq(FrameType) /\ Len(stack) <= MaxDepth
  /\ outcome \in Outcomes
  /\ \A d \in 2 .. Len(stack) : stack[d].phase = "body"
  /\ outcome.kind \in {"panic", "violation"} /\ stack # <<>> => Head(stack).phase = "body"
----------------------------------------------------------------------------
Top == Head(stack)
In(phase) == stack # <<>> /\ Top.phase = phase
Unwinding == outcome.kind \in {"panic", "violation"}
InBody == stack # <<>> => Top.phase = "body"
UserCode == InBody /\ ~Unwinding

Enabled_AnyBuild == ContractsEnabled(env)  \* slip: the build is not asked

\* contracts_enabled of the crate: read again each time it is asked.
Enabled == env.compiledIn /\ ContractsEnabled(env)

SetTop(f) == stack' = <<f>> \o Tail(stack)
Leave(x) == stack' = Tail(stack) /\ outcome' = x /\ UNCHANGED <<env, obj>>
Goto(phase, todo) ==
  /\ SetTop([Top EXCEPT !.phase = phase, !.todo = todo])
  /\ UNCHANGED <<env, obj, outcome>>

Init ==
  /\ env \in Environments
  /\ obj \in States
  /\ stack = <<>>
  /\ outcome = Nothing
----------------------------------------------------------------------------
(* Before the body *)

Call(f, a) ==
  /\ UserCode
  /\ Len(stack) < MaxDepth
  /\ stack' = <<[fn |-> f, val |-> a, matched |-> FALSE,
                 phase |-> IF Enabled THEN "pre" ELSE "body",
                 todo |-> IF Enabled THEN Contract[f].pre ELSE {}]>> \o stack
  /\ outcome' = Nothing
  /\ UNCHANGED <<env, obj>>

KindOf(phase) ==
  [pre |-> "precondition", post |-> "postcondition",
   entry |-> "invariant", exit |-> "invariant"][phase]

\* The clauses of a phase are evaluated in the order they were declared in.
Evaluates(c) ==
  /\ stack # <<>>
  /\ c \in Top.todo /\ \A d \in Top.todo : c <= d

CheckPasses(c) ==
  /\ Evaluates(c) /\ ~In("error")
  /\ Eval(c, obj, Top.val) = "true"
  /\ Goto(Top.phase, Top.todo \ {c})

\* A false clause is a violation.  An expression that panics does so outside
\* of catch_unwind, in a panic_free function too.
CheckFails(c) ==
  /\ Evaluates(c) /\ ~In("error")
  /\ LET e == Eval(c, obj, Top.val)
     IN \/ e = "false" /\ Leave(Violation(KindOf(Top.phase), Top.fn))
        \/ e = "panics" /\ Leave(Panic)
        \/ e = "violates" /\ Leave(Violation("nested", Top.fn))

Done(phase) == In(phase) /\ Top.todo = {}

StartEntry == Done("pre") /\ Goto("entry", Contract[Top.fn].inv)
StartBody == Done("entry") /\ Goto("body", {})
----------------------------------------------------------------------------
(* The body, and after it *)

\* Destructors write while a panic unwinds.  Inside a pure function nobody
\* holds the object by &mut.
BodyWrite(s) ==
  /\ InBody
  /\ \A d \in 1 .. Len(stack) : ~Contract[stack[d].fn].pure
  /\ s # obj
  /\ obj' = s
  /\ UNCHANGED <<env, stack, outcome>>

\* The switch is read again: after the body it may say something else.
\* Postconditions are about Ok.
BodyReturn(r) ==
  /\ In("body") /\ UserCode
  /\ r \in Errs => Contract[Top.fn].result
  /\ IF Enabled
       THEN /\ SetTop([Top EXCEPT !.phase = "post", !.val = r,
                                  !.todo = IF r \in Errs THEN {} ELSE Contract[Top.fn].post])
            /\ outcome' = Nothing
            /\ UNCHANGED <<env, obj>>
       ELSE Leave(Returned(r))

StartError_AnyResult ==  \* slip: the error clauses are for every result
  /\ Done("post")
  /\ Contract[Top.fn].err # {}
  /\ Goto("error", Contract[Top.fn].err)

StartError ==
  /\ Done("post")
  /\ Top.val \in Errs /\ Contract[Top.fn].err # {}
  /\ Goto("error", Contract[Top.fn].err)

StartExit_ErrReturns ==  \* slip: a declared Err is returned at once
  \/ /\ Done("post") /\ (Top.val \notin Errs \/ Contract[Top.fn].err = {})
     /\ Goto("exit", Contract[Top.fn].inv)
  \/ Done("error") /\ Top.matched /\ Leave(Returned(Top.val))

StartExit_Unmatched ==  \* slip: an Err no clause matches is let through
  /\ \/ Done("post") /\ (Top.val \notin Errs \/ Contract[Top.fn].err = {})
     \/ Done("error")
  /\ Goto("exit", Contract[Top.fn].inv)

StartExit ==
  /\ \/ Done("post") /\ (Top.val \notin Errs \/ Contract[Top.fn].err = {})
     \/ Done("error") /\ Top.matched
  /\ Goto("exit", Contract[Top.fn].inv)

\* All error clauses are evaluated, also after one that matched.
MatchError(c) ==
  /\ Evaluates(c) /\ In("error")
  /\ LET e == Eval(c, obj, Top.val)
     IN \/ /\ e \in {"true", "false"}
           /\ SetTop([Top EXCEPT !.todo = @ \ {c}, !.matched = @ \/ e = "true"])
           /\ UNCHANGED <<env, obj, outcome>>
        \/ e = "panics" /\ Leave(Panic)
        \/ e = "violates" /\ Leave(Violation("nested", Top.fn))

NoMatch == Done("error") /\ ~Top.matched /\ Leave(Violation("error", Top.fn))

Return == Done("exit") /\ Leave(Returned(Top.val))
----------------------------------------------------------------------------
(* Panics *)

BodyPanics ==
  /\ stack # <<>> /\ UserCode
  /\ outcome' = Panic
  /\ UNCHANGED <<env, obj, stack>>

Unwind_NoDowncast ==  \* slip: every payload is taken for a panic of the body
  /\ Unwinding /\ In("body")
  /\ Leave(IF Contract[Top.fn].panicFree THEN Violation("panic", Top.fn) ELSE outcome)

\* The panic leaves the body.  catch_unwind and handle_panic are there for
\* panic_free functions, whatever the switch says; a payload that is a
\* violation is thrown again as it is.
Unwind ==
  /\ Unwinding /\ In("body")
  /\ Leave(IF outcome = Panic /\ Contract[Top.fn].panicFree
             THEN Violation("panic", Top.fn) ELSE outcome)

\* User code catches what unwinds into it.
Catch ==
  /\ Unwinding /\ InBody
  /\ outcome' = Nothing
  /\ UNCHANGED <<env, obj, stack>>

SetEnv(e) ==
  /\ e # env /\ e.compiledIn = env.compiledIn
  /\ env' = e
  /\ UNCHANGED <<obj, stack, outcome>>
----------------------------------------------------------------------------
Expansion ==
  \/ \E c \in Clauses : CheckPasses(c) \/ CheckFails(c) \/ MatchError(c)
  \/ StartEntry \/ StartBody \/ StartError \/ StartExit \/ NoMatch \/ Return \/ Unwind

User ==
  \/ \E f \in Fns, a \in Args : Call(f, a)
  \/ \E s \in States : BodyWrite(s)
  \/ \E r \in Results : BodyReturn(r)
  \/ BodyPanics \/ Catch
  \/ \E e \in Environments : SetEnv(e)

Next == Expansion \/ User

Spec == Init /\ [][Next]_vars

\* Once a call has something to check it goes on to its end.
FairSpec == Spec /\ WF_vars(Expansion)
----------------------------------------------------------------------------
(* Properties *)

Ends == Len(stack') < Len(stack)

\* A result that comes back after checks honours the contract as the object
\* now is: Ok satisfies the postconditions, Err is one that is declared, and
\* an Err no less than an Ok leaves the invariants true.
ReturnHonoursContract ==
  [][Ends /\ outcome'.kind = "return" /\ Top.phase # "body" =>
       LET C == Contract[Top.fn]
           True(c) == Eval(c, obj', outcome'.value) = "true"
       IN /\ outcome'.value \notin Errs => \A c \in C.post : True(c)
          /\ outcome'.value \in Errs /\ C.err # {} => \E c \in C.err : True(c)
          /\ \A c \in C.inv : True(c)]_vars

\* What the checks of a call have established so far about its result.
Standing(f) ==
  LET C == Contract[f.fn]
      True(c) == Eval(c, obj, f.val) = "true"
      Declared == \E c \in C.err : True(c)
  IN /\ f.phase = "post" /\ f.val \notin Errs => \A c \in C.post \ f.todo : True(c)
     /\ f.phase = "error" /\ f.matched => Declared
     /\ f.phase = "exit" =>
          /\ f.val \notin Errs => \A c \in C.post : True(c)
          /\ f.val \in Errs /\ C.err # {} => Declared
          /\ \A c \in C.inv \ f.todo : True(c)

\* Between the end of a body and the return nothing that was checked goes
\* stale: no check lets anybody at the object, and the callers wait in their
\* bodies.
ChecksStand == stack # <<>> => Standing(Top)

\* A violation that unwinds through callers stays what it was, also through
\* the catch_unwind of panic_free ones, until user code catches it.
ViolationKeepsBlame ==
  [][outcome.kind = "violation" /\ outcome' # outcome => stack' = stack /\ outcome' = Nothing]_vars

NeverOn ==
  \A e \in Environments : e.compiledIn = env.compiledIn => ~(e.compiledIn /\ ContractsEnabled(e))

\* Where checking is compiled out (a release build) or off for good, no call is
\* ever at a check, before its body or after it, and no violation is about but
\* the panics that panic_free functions turn into one, whatever calls do and
\* however they end.
OffOnlyConverts ==
  NeverOn =>
    /\ \A d \in 1 .. Len(stack) : stack[d].phase = "body"
    /\ outcome.kind = "violation" => outcome.clause = "panic" /\ Contract[outcome.by].panicFree

\* config.rs:16: PYTHON_CONTRACTS_RS=0 stops checking even where it is compiled
\* in.  So with the switch off no violation comes into being at the end of a
\* body.
OffStopsChecks ==
  [][~Enabled /\ Ends /\ Top.phase = "body" /\ outcome'.kind = "violation" =>
       outcome' = outcome]_vars

\* The clauses the expansion publishes as metadata, of the panic kind.
MetadataPanic(c) == c.panicFree \/ c.pure

\* metadata.rs: the metadata lists the declared clauses.  So a function listed
\* with panic_free lets no panic of its body out.
ListedPanicFree ==
  [][Ends /\ Top.phase = "body" /\ MetadataPanic(Contract[Top.fn]) => outcome' # Panic]_vars
============================================================================
