---------------------------- MODULE ContractCall ----------------------------
(***************************************************************************)
(* Calls of contracted functions on one shared object: the wrappers that   *)
(* @contract and @invariant_class put around functions and methods         *)
(* (contracts.py), as executed by asyncio tasks on one event loop          *)
(* (~Preemptive) or by threads (Preemptive).                               *)
(*                                                                         *)
(* One step evaluates one clause, because each predicate is user code and  *)
(* a thread can be preempted between two of them.  The body of a           *)
(* contracted function is user code too: it may write the object, change   *)
(* settings, call further contracted functions, await, raise, clean up,    *)
(* catch, or return.                                                       *)
(***************************************************************************)
EXTENDS Naturals, ClauseRules

CONSTANTS
  Tasks,             \* asyncio tasks or threads
  NoTask,            \* none of them
  Fns,               \* the wrapped functions
  Clauses,           \* clause identifiers: numbers, in declaration order
  Invs,              \* the clauses that are invariants
  Contract,          \* Contract[f]: what the decorator closed over for f
  Policy, Cost,      \* of each invariant
  AllowNone,         \* clauses whose predicate annotation lets None pass
  States,            \* states of the object the predicates look at
  Args, Results, Exceptions,
  Managers,          \* the results that are async context managers
  NoValue,           \* the value of a frame that holds none
  Predicate(_, _, _),\* Predicate(c, s, v): raw result of clause c
  Environments,      \* environment variables the process is seen with
  SettingsUsed,      \* runtime settings the tasks are seen with
  MaxDepth,          \* bound on nested contracted calls of a task
  Preemptive         \* TRUE: threads; FALSE: tasks of one event loop

Wrappers == {"contract", "class"}

ContractType ==
  [pre : SUBSET Clauses, post : SUBSET Clauses, err : SUBSET Clauses,
   inv : SUBSET Invs, panic : BOOLEAN, wrapper : Wrappers,
   name : NameClasses, mark : Marks, async : BOOLEAN]

ASSUME TasksAssumption == NoTask \notin Tasks
ASSUME ClausesAssumption == Clauses \subseteq Nat /\ Invs \subseteq Clauses
ASSUME ContractAssumption ==
  /\ Contract \in [Fns -> ContractType]
  /\ \A f \in Fns : Contract[f].wrapper = "class" =>
       /\ Contract[f].pre = {} /\ Contract[f].post = {} /\ Contract[f].err = {}
       /\ ~Contract[f].panic
ASSUME PolicyAssumption == Policy \in [Invs -> Policies] /\ Cost \in [Invs -> Costs]
ASSUME PredicateAssumption ==
  \A c \in Clauses, s \in States, v \in Args \cup Results \cup Exceptions \cup {NoValue} :
    Predicate(c, s, v) \in RawResults
ASSUME EnvironmentsAssumption ==
  Environments \subseteq [primary : EnvValues, legacy : EnvValues]
ASSUME SettingsAssumption == SettingsUsed \subseteq Settings
ASSUME BoundsAssumption == MaxDepth \in Nat \ {0} /\ Preemptive \in BOOLEAN

VARIABLES
  env,         \* the environment variables of the process
  settings,    \* settings[t]: what get_contract_runtime_settings returns to t
  obj,         \* the state of the shared object
  depth,       \* depth[t]: wrapped calls t is inside of
  frame,       \* frame[t][d]: the d-th of them, outermost first
  outcome,     \* outcome[t]: what the last step of a call handed to t's code
  loop,        \* the task the event loop is running (NoTask with threads)
  unverified   \* history: invariants a finished call may have left broken

vars == <<env, settings, obj, depth, frame, outcome, loop, unverified>>

Phases == {"pre", "entry", "body", "post", "exit", "excinv", "match"}
Values == Args \cup Results \cup Exceptions \cup {NoValue}

Fields ==
  [fn : Fns, phase : Phases, on : BOOLEAN, active : SUBSET Invs,
   todo : SUBSET Clauses, wrote : BOOLEAN, val : Values]

\* What a frame still has to check is of the kind its phase checks, and its
\* value is the argument, the result or the exception of that phase.
WellFormed(f) ==
  /\ f.active \subseteq Contract[f.fn].inv
  /\ f.phase # "body" => f.on
  /\ f.phase \in {"pre", "entry"} => f.val \in Args /\ ~f.wrote
  /\ f.phase \in {"post", "exit"} => f.val \in Results
  /\ f.phase \in {"excinv", "match"} => f.val \in Exceptions
  /\ f.phase = "pre" => f.todo \subseteq Contract[f.fn].pre
  /\ f.phase \in {"entry", "exit", "excinv"} => f.todo \subseteq f.active
  /\ f.phase = "post" => f.todo \subseteq Contract[f.fn].post
  /\ f.phase = "match" => f.todo \subseteq Contract[f.fn].err

FrameType == {f \in Fields : WellFormed(f)}

Idle == [phase |-> "idle", wrote |-> FALSE]

\* A ContractViolationError carries the kind of the clause and the function
\* it blames; "nested" stands for one raised by a function a predicate calls.
ClauseKinds == {"precondition", "postcondition", "invariant", "error", "panic", "nested"}
Nothing      == [kind |-> "none"]
Returned(r)  == [kind |-> "return", value |-> r]
Raised(e)    == [kind |-> "exception", value |-> e]
Violation(k, f) == [kind |-> "violation", clause |-> k, by |-> f]
\* CancelledError, KeyboardInterrupt, SystemExit: not subclasses of Exception.
Aborted      == [kind |-> "base"]

Outcomes ==
  {Nothing, Aborted} \cup {Returned(r) : r \in Results} \cup {Raised(e) : e \in Exceptions}
    \cup {Violation(k, f) : k \in ClauseKinds, f \in Fns}

TypeOK ==
  /\ env \in Environments
  /\ settings \in [Tasks -> SettingsUsed]
  /\ obj \in States
  /\ depth \in [Tasks -> 0 .. MaxDepth]
  /\ frame \in [Tasks -> [1 .. MaxDepth -> FrameType \cup {Idle}]]
  /\ \A t \in Tasks : \A d \in 1 .. MaxDepth : frame[t][d] = Idle <=> d > depth[t]
  /\ outcome \in [Tasks -> Outcomes]
  /\ loop \in Tasks \cup {NoTask}
  /\ unverified \subseteq Invs
----------------------------------------------------------------------------
(* Clauses *)

Verdict(c, s, v) == Resolve(Predicate(c, s, v), c \in AllowNone)
Passes(c, s, v) == Verdict(c, s, v) = "pass"
Holds(i, s) == Passes(i, s, NoValue)

SkipPre_EveryMethod(f) == Contract[f].wrapper = "class"  \* slip: no name test

\* @invariant_class leaves out the entry check of a constructor, and every
\* check of one that raises.
SkipPre(f) == Contract[f].wrapper = "class" /\ Contract[f].name = "init"

\* Computed once per call, from the settings at the time of the call.
ActiveInvariants(f, s) ==
  {i \in Contract[f].inv :
     InvariantShouldRun(Policy[i], Cost[i], MethodRole(Contract[f].mark, Contract[f].name), s)}

IsNext(c, todo) == c \in todo /\ \A d \in todo : c <= d
----------------------------------------------------------------------------
(* Frames *)

Top(t) == frame[t][depth[t]]
In(t, phase) == depth[t] > 0 /\ Top(t).phase = phase
Runs(t) == Preemptive \/ loop = t
Pending(t) == outcome[t].kind \in {"exception", "violation", "base"}

\* The code of t itself is executing: between two calls, or in a body.
UserCode(t) ==
  IF depth[t] = 0 THEN Preemptive \/ loop = NoTask
                  ELSE Runs(t) /\ Top(t).phase = "body" /\ ~Pending(t)

SetTop(t, f) == frame' = [frame EXCEPT ![t][depth[t]] = f]
Goto(t, phase, todo) == SetTop(t, [Top(t) EXCEPT !.phase = phase, !.todo = todo])

\* What a frame that wrote the object has still to verify before it may end.
Owed(f) ==
  IF ~f.wrote THEN {}
  ELSE IF f.phase \in {"body", "post"} THEN f.active
  ELSE IF f.phase \in {"exit", "excinv"} THEN f.todo
  ELSE {}

\* The wrapper of t's innermost call ends and hands out to its caller.
Leave(t, out) ==
  /\ frame' = [frame EXCEPT ![t][depth[t]] = Idle]
  /\ depth' = [depth EXCEPT ![t] = @ - 1]
  /\ outcome' = [outcome EXCEPT ![t] = out]
  /\ loop' = IF depth[t] = 1 THEN NoTask ELSE loop
  /\ unverified' = unverified \cup Owed(Top(t))
  /\ UNCHANGED <<env, settings, obj>>
----------------------------------------------------------------------------
Init ==
  /\ env \in Environments
  /\ settings \in [Tasks -> SettingsUsed]
  /\ obj \in States
  /\ depth = [t \in Tasks |-> 0]
  /\ frame = [t \in Tasks |-> [d \in 1 .. MaxDepth |-> Idle]]
  /\ outcome = [t \in Tasks |-> Nothing]
  /\ loop = NoTask
  /\ unverified = Invs

(* The call *)

\* With contracts off the wrapper only forwards the call, so its frame starts
\* in the body and checks nothing.
Entered_Unfiltered(t, f, a) ==  \* slip: clauses not filtered by kind
  [fn |-> f, on |-> TRUE, wrote |-> FALSE, val |-> a, phase |-> "pre",
   active |-> ActiveInvariants(f, settings[t]) \cup Contract[f].pre,
   todo   |-> Contract[f].pre]

Entered(t, f, a) ==
  LET on == ContractsEnabled(env)
  IN [fn |-> f, on |-> on, wrote |-> FALSE, val |-> a,
      phase  |-> IF on THEN "pre" ELSE "body",
      active |-> IF on THEN ActiveInvariants(f, settings[t]) ELSE {},
      todo   |-> IF on THEN Contract[f].pre ELSE {}]

\* Only a coroutine can await a coroutine, so below an async function there
\* are only async ones.
Call(t, f, a) ==
  /\ UserCode(t)
  /\ depth[t] < MaxDepth
  /\ Contract[f].async /\ depth[t] > 0 => Contract[Top(t).fn].async
  /\ depth' = [depth EXCEPT ![t] = @ + 1]
  /\ frame' = [frame EXCEPT ![t][depth[t] + 1] = Entered(t, f, a)]
  /\ outcome' = [outcome EXCEPT ![t] = Nothing]
  /\ loop' = IF Preemptive THEN loop ELSE t
  /\ UNCHANGED <<env, settings, obj, unverified>>

\* _prepare_call: signature.bind or the repr of an argument raises, outside
\* of every try block of the wrapper.
CallRejected(t, e) ==
  /\ UserCode(t)
  /\ depth[t] < MaxDepth
  /\ ContractsEnabled(env)
  /\ outcome' = [outcome EXCEPT ![t] = Raised(e)]
  /\ UNCHANGED <<env, settings, obj, depth, frame, loop, unverified>>
----------------------------------------------------------------------------
(* The checks before the body, after it, and after an exception in it *)

KindOf(phase) ==
  CASE phase = "pre"  -> "precondition"
    [] phase = "post" -> "postcondition"
    [] OTHER          -> "invariant"

\* The invariants here are about the object alone.
Checked(f) == IF f.phase \in {"pre", "post"} THEN f.val ELSE NoValue

Checking(t, c) ==
  /\ Runs(t)
  /\ depth[t] > 0
  /\ Top(t).phase \in {"pre", "entry", "post", "exit", "excinv"}
  /\ IsNext(c, Top(t).todo)

CheckPasses(t, c) ==
  /\ Checking(t, c)
  /\ Passes(c, obj, Checked(Top(t)))
  /\ SetTop(t, [Top(t) EXCEPT !.todo = @ \ {c}])
  /\ unverified' = IF Top(t).phase \in {"entry", "exit", "excinv"}
                     THEN unverified \ {c} ELSE unverified
  /\ UNCHANGED <<env, settings, obj, depth, outcome, loop>>

\* A predicate that fails or raises is blamed on the function; a violation
\* that comes out of the predicate is let through as it is.
CheckFails(t, c) ==
  /\ Checking(t, c)
  /\ LET verdict == Verdict(c, obj, Checked(Top(t)))
     IN \/ /\ verdict \in {"fail", "raise"}
           /\ Leave(t, Violation(KindOf(Top(t).phase), Top(t).fn))
        \/ /\ verdict = "foreign"
           /\ Leave(t, Violation("nested", Top(t).fn))

Done(t, phase) == Runs(t) /\ In(t, phase) /\ Top(t).todo = {}

StartEntry(t) ==
  /\ Done(t, "pre")
  /\ Goto(t, "entry", IF SkipPre(Top(t).fn) THEN {} ELSE Top(t).active)
  /\ UNCHANGED <<env, settings, obj, depth, outcome, loop, unverified>>

StartBody(t) ==
  /\ Done(t, "entry")
  /\ Goto(t, "body", {})
  /\ UNCHANGED <<env, settings, obj, depth, outcome, loop, unverified>>

StartExit_Rereads(t) ==  \* slip: the exit checks read the settings again
  /\ Done(t, "post")
  /\ Goto(t, "exit", ActiveInvariants(Top(t).fn, settings[t]))
  /\ UNCHANGED <<env, settings, obj, depth, outcome, loop, unverified>>

StartExit(t) ==
  /\ Done(t, "post")
  /\ Goto(t, "exit", Top(t).active)
  /\ UNCHANGED <<env, settings, obj, depth, outcome, loop, unverified>>

Return(t) ==
  /\ Done(t, "exit")
  /\ Leave(t, Returned(Top(t).val))
----------------------------------------------------------------------------
(* The body *)

BodyRuns(t) == In(t, "body") /\ UserCode(t)
Escapes(t) == Runs(t) /\ In(t, "body") /\ Pending(t)

\* A body also writes while an exception is on its way out (finally).
BodyWrite(t, s) ==
  /\ Runs(t) /\ In(t, "body")
  /\ s # obj
  /\ obj' = s
  /\ SetTop(t, [Top(t) EXCEPT !.wrote = TRUE])
  /\ unverified' = unverified \cup (Invs \ Top(t).active)
  /\ UNCHANGED <<env, settings, depth, outcome, loop>>

\* @contract hands an async context manager back wrapped, before any check.
Unchecked(t, r) ==
  ~Top(t).on \/ (Contract[Top(t).fn].wrapper = "contract" /\ r \in Managers)

BodyReturn_NoPost(t, r) ==  \* slip: the invariants are the only exit checks
  /\ BodyRuns(t)
  /\ ~Unchecked(t, r)
  /\ SetTop(t, [Top(t) EXCEPT !.phase = "post", !.todo = {}, !.val = r])
  /\ outcome' = [outcome EXCEPT ![t] = Nothing]
  /\ UNCHANGED <<env, settings, obj, depth, loop, unverified>>

BodyReturn(t, r) ==
  /\ BodyRuns(t)
  /\ ~Unchecked(t, r)
  /\ SetTop(t, [Top(t) EXCEPT !.phase = "post", !.todo = Contract[Top(t).fn].post, !.val = r])
  /\ outcome' = [outcome EXCEPT ![t] = Nothing]
  /\ UNCHANGED <<env, settings, obj, depth, loop, unverified>>

BodyReturnUnchecked(t, r) ==
  /\ BodyRuns(t)
  /\ Unchecked(t, r)
  /\ Leave(t, Returned(r))

BodyRaise(t, e) ==
  /\ BodyRuns(t)
  /\ outcome' = [outcome EXCEPT ![t] = Raised(e)]
  /\ UNCHANGED <<env, settings, obj, depth, frame, loop, unverified>>

BodyAbort(t) ==
  /\ BodyRuns(t)
  /\ outcome' = [outcome EXCEPT ![t] = Aborted]
  /\ UNCHANGED <<env, settings, obj, depth, frame, loop, unverified>>

\* User code swallows what a call or its own code raised.
Catch(t) ==
  /\ Escapes(t)
  /\ outcome' = [outcome EXCEPT ![t] = Nothing]
  /\ UNCHANGED <<env, settings, obj, depth, frame, loop, unverified>>

SetEnv(t, e) ==
  /\ UserCode(t)
  /\ env' = e
  /\ UNCHANGED <<settings, obj, depth, frame, outcome, loop, unverified>>

\* Entering or leaving a contract_runtime block.
SetSettings(t, s) ==
  /\ UserCode(t)
  /\ settings' = [settings EXCEPT ![t] = s]
  /\ UNCHANGED <<env, obj, depth, frame, outcome, loop, unverified>>
----------------------------------------------------------------------------
(* An exception reaches the wrapper *)

\* except Exception: the invariants first, then the error contracts.
Handled(t) ==
  outcome[t].kind = "exception" /\ Top(t).on /\ ~SkipPre(Top(t).fn)

HandleException_ErrorsFirst(t) ==  \* slip: the invariants are not checked
  /\ Escapes(t)
  /\ Handled(t)
  /\ SetTop(t, [Top(t) EXCEPT !.phase = "match", !.todo = Contract[Top(t).fn].err,
                              !.val = outcome[t].value])
  /\ outcome' = [outcome EXCEPT ![t] = Nothing]
  /\ UNCHANGED <<env, settings, obj, depth, loop, unverified>>

HandleException_CatchesAll(t) ==  \* slip: no except ContractViolationError clause
  /\ Escapes(t) /\ Top(t).on
  /\ outcome[t].kind \in {"exception", "violation"}
  /\ SetTop(t, [Top(t) EXCEPT !.phase = "excinv", !.todo = Top(t).active, !.val = NoValue])
  /\ outcome' = [outcome EXCEPT ![t] = Nothing]
  /\ UNCHANGED <<env, settings, obj, depth, loop, unverified>>

HandleException(t) ==
  /\ Escapes(t)
  /\ Handled(t)
  /\ SetTop(t, [Top(t) EXCEPT !.phase = "excinv", !.todo = Top(t).active,
                              !.val = outcome[t].value])
  /\ outcome' = [outcome EXCEPT ![t] = Nothing]
  /\ UNCHANGED <<env, settings, obj, depth, loop, unverified>>

\* except ContractViolationError: raise, and what no except clause names.
PassThrough(t) ==
  /\ Escapes(t)
  /\ ~Handled(t)
  /\ Leave(t, outcome[t])

StartMatch(t) ==
  /\ Done(t, "excinv")
  /\ Goto(t, "match", Contract[Top(t).fn].err)
  /\ UNCHANGED <<env, settings, obj, depth, outcome, loop, unverified>>

\* The first clause that matches lets the exception through; one that raises
\* anything, a violation included, is blamed on the function.
MatchError(t, c) ==
  /\ Runs(t)
  /\ In(t, "match")
  /\ IsNext(c, Top(t).todo)
  /\ LET verdict == Verdict(c, obj, Top(t).val)
     IN \/ verdict = "pass" /\ Leave(t, Raised(Top(t).val))
        \/ verdict \in {"raise", "foreign"} /\ Leave(t, Violation("error", Top(t).fn))
        \/ /\ verdict = "fail"
           /\ SetTop(t, [Top(t) EXCEPT !.todo = @ \ {c}])
           /\ UNCHANGED <<env, settings, obj, depth, outcome, loop, unverified>>

NoMatch_Reraises(t) ==  \* slip: an undeclared exception is raised again
  /\ Done(t, "match")
  /\ Leave(t, IF Contract[Top(t).fn].err = {} /\ Contract[Top(t).fn].panic
                 THEN Violation("panic", Top(t).fn) ELSE Raised(Top(t).val))

NoMatch(t) ==
  /\ Done(t, "match")
  /\ LET f == Top(t).fn
     IN Leave(t, IF Contract[f].err # {} THEN Violation("error", f)
                 ELSE IF Contract[f].panic THEN Violation("panic", f)
                 ELSE Raised(Top(t).val))
----------------------------------------------------------------------------
(* The event loop *)

\* Tasks change places only where a body awaits something pending: between
\* the checks of a wrapper there is no await.
Await_Anywhere(t) ==  \* slip: the wrapper awaits between its checks
  /\ ~Preemptive
  /\ Runs(t) /\ depth[t] > 0
  /\ Contract[Top(t).fn].async
  /\ loop' = NoTask
  /\ UNCHANGED <<env, settings, obj, depth, frame, outcome, unverified>>

Await(t) ==
  /\ ~Preemptive
  /\ Runs(t) /\ In(t, "body")
  /\ Contract[Top(t).fn].async
  /\ loop' = NoTask
  /\ UNCHANGED <<env, settings, obj, depth, frame, outcome, unverified>>

Resume(t) ==
  /\ ~Preemptive
  /\ loop = NoTask /\ depth[t] > 0
  /\ loop' = t
  /\ UNCHANGED <<env, settings, obj, depth, frame, outcome, unverified>>

\* The task was cancelled: CancelledError comes out of the await.
ResumeCancelled(t) ==
  /\ ~Preemptive
  /\ loop = NoTask /\ depth[t] > 0
  /\ loop' = t
  /\ outcome' = [outcome EXCEPT ![t] = Aborted]
  /\ UNCHANGED <<env, settings, obj, depth, frame, unverified>>
----------------------------------------------------------------------------
Wrapper(t) ==
  \/ \E c \in Clauses : CheckPasses(t, c) \/ CheckFails(t, c) \/ MatchError(t, c)
  \/ StartEntry(t) \/ StartBody(t) \/ StartExit(t) \/ Return(t)
  \/ HandleException(t) \/ PassThrough(t) \/ StartMatch(t) \/ NoMatch(t)

User(t) ==
  \/ \E f \in Fns, a \in Args : Call(t, f, a)
  \/ \E e \in Exceptions : CallRejected(t, e) \/ BodyRaise(t, e)
  \/ \E s \in States : BodyWrite(t, s)
  \/ \E r \in Results : BodyReturn(t, r) \/ BodyReturnUnchecked(t, r)
  \/ BodyAbort(t) \/ Catch(t)
  \/ \E e \in Environments : SetEnv(t, e)
  \/ \E s \in SettingsUsed : SetSettings(t, s)
  \/ Await(t) \/ Resume(t) \/ ResumeCancelled(t)

Next == \E t \in Tasks : Wrapper(t) \/ User(t)

Spec == Init /\ [][Next]_vars

\* Predicates return, and a task or thread that has reached the checks of a
\* wrapper is run.  Nothing is asked of bodies, nor of when they await.
FairSpec == Spec /\ \A t \in Tasks : WF_vars(Wrapper(t) /\ ~In(t, "body"))
----------------------------------------------------------------------------
(* Properties *)

\* The invariants nobody has verified since the object was last written: the
\* ones a running wrapper still has to check, and the ones finished calls
\* left behind.
Suspect ==
  unverified \cup UNION {Owed(frame[t][d]) : t \in Tasks, d \in 1 .. MaxDepth}

Ledger == INSTANCE InvariantLedger
            WITH suspect <- Suspect, Sat <- [i \in Invs |-> {s \in States : Holds(i, s)}]

\* However calls nest, interleave and fail, the wrappers keep the promise of
\* the ledger: an invariant leaves suspicion only by being evaluated to true
\* on the object as it then is (the entry, exit and exception checks of both
\* decorators, with the invariants chosen once at entry).
ImplementsLedger == Ledger!Spec

\* A broken object is always known to be one: some wrapper in progress still
\* has to check the broken invariant, or a finished call escaped its check.
BrokenIsSuspect == \A i \in Invs : ~Holds(i, obj) => i \in Suspect

Ends(t) == depth'[t] = depth[t] - 1
EndsWith(t, kind) == Ends(t) /\ outcome'[t].kind = kind

\* The ends of a call that @contract and @invariant_class do check: a plain
\* return, an exception out of anything but an @invariant_class constructor,
\* and a violation of the error or the panic contract.
Orderly(t) ==
  \/ EndsWith(t, "return") /\ ~Unchecked(t, outcome'[t].value)
  \/ /\ EndsWith(t, "exception") /\ Top(t).on
     /\ Contract[Top(t).fn].name = "init" => Contract[Top(t).fn].wrapper = "contract"
  \/ EndsWith(t, "violation") /\ outcome'[t].clause \in {"error", "panic"} /\ ~In(t, "body")

\* A call that ends in order leaves no unverified write behind: checks come
\* after the body on every one of these paths (_handle_invocation_exception
\* checks the invariants before it looks at the error contracts).
OrderlyEndLeavesNothing ==
  [][\A t \in Tasks : Orderly(t) => unverified' \subseteq unverified]_vars

\* A caller on one event loop that gets a plain result back from a contracted
\* function can use the contract at once: every postcondition is true of the
\* result, and every active invariant of the object, as they are when the
\* call returns, not as they were when each was checked.
ReturnHonoursContract ==
  [][\A t \in Tasks :
       EndsWith(t, "return") /\ ~Unchecked(t, outcome'[t].value) =>
         /\ \A c \in Contract[Top(t).fn].post : Passes(c, obj', outcome'[t].value)
         /\ \A i \in Top(t).active : Holds(i, obj')]_vars

\* On one event loop no clause a wrapper has checked goes stale while it
\* checks the others or before its body starts: a wrapper does not await
\* between its checks.
ChecksStand ==
  \A t \in Tasks : depth[t] > 0 /\ Top(t).on =>
    LET f == Top(t)
        C == Contract[f.fn]
    IN /\ f.phase = "pre"    => \A c \in C.pre \ f.todo : Passes(c, obj, f.val)
       /\ f.phase = "entry"  => /\ \A c \in C.pre : Passes(c, obj, f.val)
                                /\ ~SkipPre(f.fn) => \A i \in f.active \ f.todo : Holds(i, obj)
       /\ f.phase = "post"   => \A c \in C.post \ f.todo : Passes(c, obj, f.val)
       /\ f.phase = "exit"   => /\ \A c \in C.post : Passes(c, obj, f.val)
                                /\ \A i \in f.active \ f.todo : Holds(i, obj)
       /\ f.phase = "excinv" => \A i \in f.active \ f.todo : Holds(i, obj)
       /\ f.phase = "match"  => \A i \in f.active : Holds(i, obj)

\* An exception gets out of a function with error contracts only if one of
\* them matches it, and never out of a panic_free function without error
\* contracts (README: only declared exceptions are allowed through).
OnlyDeclaredEscapes ==
  [][\A t \in Tasks : EndsWith(t, "exception") /\ Top(t).on =>
       LET C == Contract[Top(t).fn]
       IN /\ C.err # {} => \E c \in C.err : Passes(c, obj', outcome'[t].value)
          /\ C.err = {} => ~C.panic]_vars

\* A violation on its way through enclosing calls stays the violation it was,
\* whatever those calls declare (raises, error, panic_free), until user code
\* catches it: the enclosing wrappers re-raise it untouched.
ViolationKeepsBlame ==
  [][\A t \in Tasks :
       /\ depth[t] > 0 /\ outcome[t].kind = "violation"
       /\ outcome'[t] # outcome[t]
       => frame'[t] = frame[t] /\ depth'[t] = depth[t]]_vars

\* A wrapper never gets stuck in its checks, whatever its predicates answer and
\* whatever the other tasks do: control comes back to the code outside or gets
\* to a body, and on one event loop the wrapper does not keep the loop.
ChecksSettle ==
  \A t \in Tasks : depth[t] > 0 /\ ~In(t, "body") ~> depth[t] = 0 \/ In(t, "body")

\* docs/contracts.md:91: an invariant is evaluated before and after the
\* function.  So a call whose body has run never ends straight from the body
\* with one of the invariants it checks broken.
EvaluatedAfterTheBody ==
  [][\A t \in Tasks : Ends(t) /\ Top(t).phase = "body" =>
       \A i \in Top(t).active : Holds(i, obj')]_vars
============================================================================
