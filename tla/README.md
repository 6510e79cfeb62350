# TLA+ models of py-contract-check

`python_contracts_rs` is a design-by-contract library.  Decorators put pre-,
postconditions, invariants and error contracts around functions, methods and
classes; at run time a wrapper evaluates the predicates and raises
`ContractViolationError` when one fails.  A Rust crate gives the same contracts
to Rust functions through an attribute macro.  The interesting part is not what
one check does but *when* it is done: predicates and bodies are arbitrary user
code, they call further contracted functions, await, raise, are cancelled, and
several tasks or threads do so on one object.

Line numbers below are lines of `src/python/python_contracts_rs/contracts.py`
unless another file is named.

## 1. Inventory

| Part | State it keeps | Operations | Hard behaviour | Correct when |
|---|---|---|---|---|
| Call wrappers of `@contract` (278-451) and `@invariant_class` (1130-1290), sync and async | one frame per call: the bound arguments, whether contracts are on, the invariants chosen at entry | entry checks (938), exit checks (1029), exception handling (962-1026) | nesting and recursion on one object; cancellation; tasks and threads between the checks | an invariant is out of suspicion only when evaluated on the object as it is; results and exceptions that get out honour the contract; violations are not re-blamed |
| Clause decisions (1339-1363, 1724-1790; `contracts_enabled` of the bindings) | none | enable switch, method role, invariant policy and cost, verdict on a predicate's result | empty causes, `None`, two environment variables | each decision agrees with the tables of the docs |
| Async generator wrapper (742-841) | `_closed`, the wrapped generator | `__anext__`, `asend`, `athrow`, `aclose` | several consumers; close racing an advance; misuse answers | checked at every yield and at the end; the flag is never ahead of the generator |
| Async context manager wrapper (844-924) | the wrapped manager, the context of the call | `__aenter__`, `__aexit__` | a check that fails after the resource was acquired; an exception replaced on exit | a check failing does not lose the exception or the resource |
| Runtime settings (68-160, 1714-1721) | a context variable and its tokens, two environment variables behind it | enter and leave `contract_runtime` | blocks in generators: left out of order, or from another context | the settings are those of the blocks the code is inside of |
| Predicate binding (927-935, 1413-1477, 1676-1711) | none | offer values by name, take what a signature asks for, let Python bind it | names that shadow each other, optional and positional-only parameters, annotations that do not resolve | a parameter gets what its name means |
| Class decoration (163-170, 456-483, 1087-1322) | marks and metadata on functions, attributes of the class | choose and wrap attributes, stack decorators | the order of decorators; the `repr` of a half-made object; a wrapper that no longer looks like an async generator | every selected method is checked, by every layer |
| Violation details (80-126, 537-642, 1480-1672; `models.py`) | a module dictionary keyed by `id()`, a copy on the violation, a detail in each error | raise, wrap, look up, report | an address that is reused, a violation wrapped twice | an error shows its own detail wherever it is read |
| Testing helpers (`testing.py`) | none | evaluate a predicate outside of a call | they bind twice | agree with the wrappers |
| Native types (`src/bindings`) | immutable records | constructors, `to_dict` | - | - |
| Rust runtime and macro (`src/crates`) | the environment; the variables of one expanded call | expansion of a function, panic capture | the enable switch is read twice in a call; violations are panics and pass through `catch_unwind` | a result that comes back after checks honours the contract; violations are not re-blamed |

How they interact: a decorator closes over its clauses and calls the binding and
the clause decisions on each call; a call reads the settings of its context and
the environment once (394-408); the body may call other wrapped functions on the
same object, so wrappers are stacked on the call stack and their exceptions pass
through one another; a wrapped function that answers an async generator or an
async context manager hands out a wrapper object of its own that goes on
checking later; a failed check records a detail and raises.

What is hard to test is listed, at its line, under `hazards` in `PROJECT.json`.

## 2. Modules

| Module | Is |
|---|---|
| `ClauseRules` | the pure decisions: enable switch, roles, policies, verdicts |
| `InvariantLedger` | abstract: the set of invariants under suspicion |
| `ContractCall` | the wrappers, on a stack of frames per task, on one object |
| `ContractCallProofs` | its theorems |
| `MCContractCall` | small instances of it: a wallet with two invariants |
| `WrapperChecks` | what the two wrapper objects below do with an answer |
| `AsyncGenerator`, `MCAsyncGenerator`, `AsyncGeneratorProofs` | the generator wrapper, its instances, its theorems |
| `AsyncContextManager`, `MCAsyncContextManager`, `AsyncContextManagerProofs` | the context manager wrapper in `async with`, its instances, its theorems |
| `RustContract`, `MCRustContract` | functions expanded by the Rust attribute, its instances |
| `RustContractProofs` | its theorems |
| `RuntimeSettings`, `MCRuntimeSettings`, `RuntimeSettingsProofs` | the context variable of tasks and threads, its instances, its theorems |
| `ClassDecoration`, `MCClassDecoration`, `ClassDecorationProofs` | what `@invariant_class` makes of a class and its subclass, its instances, its theorems |
| `DecoratorLayers`, `MCDecoratorLayers`, `DecoratorLayersProofs` | one method under several decorators, its instances, its theorems |
| `PredicateCall`, `MCPredicateCall` | a predicate called by a wrapper and by a testing helper, its instances |
| `ViolationStore`, `MCViolationStore` | violations, errors and the details kept by address, its instances |
| `PredicateProofs` | the theorems of the last two |

`ContractCall`, `RustContract`, `RuntimeSettings`, `DecoratorLayers` and `PredicateCall` share
the decisions of `ClauseRules`.  `ContractCall` takes from the others what they
establish: one wrapper per function, settings read once, a verdict per clause.

### ContractCall

`ContractCall` extends `ClauseRules`, and implements `InvariantLedger`.

| Model | Code |
|---|---|
| `Contract[f]` | what `contract(...)` or `invariant_class` closed over |
| `frame[t][d]` | the local variables of the d-th wrapper on the stack of `t`: its phase, the active invariants, the clauses still to evaluate, the argument, result or exception it is about |
| `outcome[t]` | what the last call or raise left for the code of `t`: a value, an exception, a violation, or an exception that is no `Exception` |
| `loop` | the task the event loop is running |
| `unverified` | history, not in the code: invariants an ended call may have left broken |
| `Call`, `CallRejected` | the wrapper up to its first check; a failing `signature.bind` |
| `CheckPasses`, `CheckFails` | one round of `_check_boolean_clauses` (1366-1399) |
| `StartEntry`, `StartBody` | `_check_entry_contracts` going from preconditions to invariants to the body; a constructor wrapped by a class has no entry check |
| `BodyReturn`, `StartExit`, `Return` | `_check_success_contracts` and the return |
| `BodyReturnUnchecked` | a disabled call, or a `@contract` call that answers an async context manager |
| `HandleException`, `StartMatch`, `MatchError`, `NoMatch` | `_handle_invocation_exception` |
| `PassThrough` | `except ContractViolationError: raise`, and what no clause catches |
| `Await`, `Resume`, `ResumeCancelled` | `await` in a body; cancellation comes out of it |
| `BodyWrite`, `BodyRaise`, `BodyAbort`, `Catch`, `SetEnv`, `SetSettings` | what user code does in between |

The same module describes an event loop (`Preemptive = FALSE`: tasks change
places only in `Await`) and threads (`Preemptive = TRUE`: before any step).

Abstractions: one object, whose state is a member of `States`; a predicate is a
pure function of the object and of one value (argument, result or exception),
and invariants of the object alone; text is a class (`ClauseRules`); the calls a
predicate itself makes are the raw result `violates`; a `finally` block may
write while an exception is on its way but makes no contracted call then; user
code does not construct `ContractViolationError` itself.

### AsyncGenerator

`gen` is the state of the Python generator object, `exited` its `ag_closed` (it was
sent `GeneratorExit` and may have ignored it), `closed` is `_closed`, `pc[t]` what task `t` awaits of it, `got[t]` how its last operation ended, and `broken`
whether an active invariant of the receiver is violated.  The wrapper awaits only
inside the wrapped generator, so everything it does after an answer, checks
included, is one step.  What the generator object answers to an operation it
refuses (busy, first `asend` of a value, `athrow` before the start or after the
end) is external behaviour, modelled after CPython 3.11.  A yielded value and
an exception are judged by fixed sets (`Accepted`, `Matched`): how clauses are
evaluated is the subject of `ContractCall`.  `declares` is what the function declares
about exceptions, error clauses or `panic_free`, and `orderly` whether its consumers
take turns and only iterate and close; both are fixed for a behaviour, and every
choice is an initial state.

| Model | Code |
|---|---|
| `Open` | the call: entry checks now, the body at the first advance (300-329) |
| `Advance`, then `Yields`, `Returns`, `Raises`, `RaisesViolation`, `Cancelled` | `_advance` up to its `await`, and from each way it can end (803-841) |
| `AdvanceRefused`, `ThrowAtStart`, `ThrowAfterExit`, `AdvanceFinished` | the operations the generator object answers without running the body |
| `CloseAgain`, `CloseAtOnce`, `CloseRefused`, `CloseStarts`, `CloseEnds`, `CloseIgnored` | `aclose` (787-801) |
| `Success`, `Verified`, `Handle` (`WrapperChecks`) | `_check_success_contracts`, `_check_boolean_clauses` on the invariants, `_handle_invocation_exception` |

### AsyncContextManager

Each task runs `async with` on managers of its own, one after the other; `broken`
is of the receiver they share.  `held[t]` says that the manager inside the
wrapper is entered and not left, `pending[t]` is what ended the block, `got[t]` how
the statement ended; `declares` is as in `AsyncGenerator`.

| Model | Code |
|---|---|
| `Enter`, then `Entered`, `EnterFails` | `__aenter__` up to its `await`, and its two ways to go on (867-893) |
| `BlockEnd`, then `Exited`, `ExitFails` | `__aexit__` (895-924), given nothing, an exception, a violation or a cancellation of the block |
| `Write` | other code of the event loop, between any two steps |

A manager that raises in its `__aenter__` has acquired nothing, one that raises in
its `__aexit__` has released: leaks that are the user's are left out.

### RustContract

| Model | Code |
|---|---|
| `Contract[f]`, `Accepted` | the attribute's arguments, and what the macro rejects (`rust-contract-checks-macros/src/lib.rs`, 229-265) |
| `stack` | calls of expanded functions, innermost first; `val` is the argument, later `__contract_result`, `matched` is `__contract_error_matched` |
| `outcome` | the result a call handed to its caller, or the payload that unwinds |
| `Call`, `StartEntry`, `StartBody` | the code up to the body (372-375) |
| `CheckPasses`, `CheckFails` | one generated `if !(expr) { handle_violation }` |
| `BodyReturn`, `StartError`, `MatchError`, `NoMatch`, `StartExit`, `Return` | the code after the body (379-385), with the checks of `Ok` (521) and `Err` (551) |
| `Unwind` | a panic leaving the body, through `catch_unwind` and `handle_panic` where `panic_free` is declared |
| `env` | how the crate was built (`compiledIn`: `debug_assertions` or `always-contracts`), and the environment, which may change |
| `Enabled` | `contracts_enabled` (`config.rs`), read again after the body |
| `BodyWrite`, `BodyPanics`, `Catch`, `SetEnv` | user code and the environment |

Abstractions: one thread and one object (`&mut self` keeps other threads off it);
an expression is a pure function of the object and of one value, and may panic
or call an expanded function that panics; destructors may write while a panic
unwinds, but a panic in a destructor, which aborts the process, is left out; a
pure function has no `&mut` and writes nothing (interior mutability is left out).

### RuntimeSettings

| Model | Code |
|---|---|
| `context[c]` | `_RUNTIME_SETTINGS` in the context of a task or thread |
| `open[c]` | the blocks entered in `c`: `contract_runtime`'s arguments, its local `current`, and what its token restores |
| `Current`, `EnvFlag` | `get_contract_runtime_settings`, `_env_flag` |
| `Enter`, `Leave` | `contract_runtime` up to its `yield`, and its `finally` |
| `LeaveElsewhere` | the same `finally` run in another context: `reset` raises `ValueError` and restores nothing |
| `Spawn`, `SetEnv` | a new task (a copy of the context) or thread (an empty one); the environment |

Blocks of `with` statements are left innermost first; those that sit in generators in
any order, and from other contexts.  `tidy` is history, not in the code: the
contexts where the second has not happened.

### ClassDecoration and DecoratorLayers

`ClassDecoration` makes `Base` and `Sub`, each with any of `@invariant_class(options)`
(`InvariantClass`, `ShouldWrap`, `Wrapped`) and `@dataclass`, in either order if
`LateDataclass`, then constructs an object of `Sub` and calls its methods
(`Construct`, `Call`, `CallFails`).  An object is `good` or `broken`, and `last` is the last
call from outside and its end.  A wrapper takes the `repr` of `self` first of all:
where a class defines `__repr__`, it may read fields the constructor has not set yet
(`MayBeUnset`), and where `__repr__` is wrapped itself, which `include_dunder` does, its
wrapper calls it without end (`Recurses`).  A constructor is found in `Sub` or else in `Base`; one that calls
the other is left out.

`DecoratorLayers` puts `@mutating`/`@read_only` (`Mark`), `@contract` and `@invariant_class`
(`Wrap`) around one method in any order.  `mark[j]` and `lists[j]` are the attributes of
the j-th function object, which `functools.wraps` copies outward; `fresh` is the layers
whose invariant was evaluated since the body last ran.  A call goes inward
(`EnterLayer`), its answer outward (`LeaveLayer`, `RaiseLayer`), and a generator is
then advanced (`Advance`, `Yield`).  What a layer takes the method for is `SeenBy`.  A
class wrapper is applied to methods one at a time here.

### PredicateCall

`sig` is the signature of a predicate, `Offered` what is known by name at a moment
(`Context`, `PostContext`, `ErrorContext`), and `taken` what each parameter was bound to.
`Fails`, `Positionals` and `Keywords` are the loop of `_invoke`; `Bound` is Python's own
binding, which the helpers go through twice (`Prepared`).  `CollectViolations(names)` is
a test that gives the helper those values, `ValidatePayload(n)` one of them;
`assert_valid` raises what `collect_violations` returns.  `note` is the return annotation:
what it means, whether Python holds it as a text and the text spells a `None` out,
and whether `get_type_hints` resolves the annotations of the predicate; `AllowsNone` is
`_predicate_allows_none_success`.  Values are told apart by
where they come from.  Of the raw results a truthy one, `None` and an exception are
used; the others all mean a violation (`ClauseRules!Resolve`).

### ViolationStore

| Model | Code |
|---|---|
| `store`, `payload[i]` | `_VIOLATION_DETAILS_BY_ID`, the attribute on the violation |
| `errors[s]` | a living `ContractViolationError`: its violation, its `_detail` |
| `Raise` | `_build_violation_error` with `_compose_violation_detail` (`Compose`), at any free address |
| `Wrap` | `ContractViolationError(violation, detail)` by other code |
| `Native`, `Hold`, `Release`, `Handle` | code that makes, keeps and drops violations and errors; an address is free when nothing living refers to it |
| `ErrorDict`, `NativeDict`, `Sarif` | `violation_to_dict`, the lookups of a violation on its own, `violations_to_sarif` |

A detail is a subject, a clause kind, and for five fields whether the predicate
gave them, the library derived them, or nobody did; an empty text counts as not
given, as in the code.

## 3. Runs

| Run | Instance | Checks |
|---|---|---|
| `threads` | two threads, one call each, of a class constructor, a contract method with error contracts and a method of `panic_free` with one invariant (no async managers); settings that change in mid-call | `BrokenIsSuspect`, `ImplementsLedger` |
| `coop` | two tasks on an event loop, an async contract function with pre, post and error contracts, two calls deep, fair | `ChecksStand`, `ReturnHonoursContract`, `ChecksSettle` |
| `nested` | one task, three calls deep, a class constructor, a contract method and a class method, contracts switched on and off | `TypeOK`, `ViolationKeepsBlame`, `OrderlyEndLeavesNothing`, `OnlyDeclaredEscapes` |
| `after_body` | one task, one call, a function with a contract | finding 1 |
| `generator` | two tasks share a generator, every declaration of exceptions; orderly consumers, and any operation at any time with a cleanup that may yield | `TypeOK`, `ClosedMeansFinished`, `AheadIsTold`, `YieldHonoursContract`, `EndVerified`, `AdvanceOnlyDeclared` |
| `manager` | two tasks, one receiver, every declaration of exceptions, every way a manager or a block can end | `TypeOK`, `LeaksAreReported`, `BlockStartsVerified`, `ExitVerified`, `OnlyDeclaredOrOwn` |
| `rust` | three functions (one `panic_free`, one pure), three calls deep, the switch changing in mid-call, and a build without checks | `TypeOK`, `ChecksStand`, `ReturnHonoursContract`, `ViolationKeepsBlame`, `OffOnlyConverts` |
| `settings` | two contexts, blocks left in any order and from elsewhere, changing environment | `TypeOK`, `InForce`, `OnlyOwnBlocksSwitch` |
| `classes` | three class bodies, `__repr__` among their names, five option sets, any order of making | `TypeOK`, `SelectedCallsVerify` |
| `layers` | up to three layers on methods of every flavour and name class | `MarksReachOutward`, `MetadataComplete`, `EveryLayerVerifies` |
| `predicates` | every signature of two parameters of any kinds, five sets of arguments, four return annotations | `TypeOK`, `BoundByName`, `HelperAgrees`, `NoneAsAnnotated` |
| `details` | two addresses, two living errors | `RaisedDetailShows`, `DetailsComplete`, `ReportMatchesErrors` |

`after_body` is a violation run; the others pass.  The configurations section 4
names beside it are counterexamples to read, each against one statement of the
documents; `tlc -config X.cfg M` on the module named there shows it at once.

The type invariants of `DecoratorLayers` and `ViolationStore` are not among the runs:
they are proved, and what goes wrong there shows in the other properties.

Bounds.  `MaxDepth` bounds the contracted calls a task is inside of; three give a
violation a wrapper to be raised in, one to go through and one to arrive at, and
two are enough for a callee to break what its caller has checked.  Two tasks
suffice to interfere with one.  Three object states give each of two invariants a
state that breaks it alone, one with a predicate that answers and one with a
predicate that raises; the clauses between them use every raw result.  Nothing
else is bounded: a task makes calls for ever.  Generators and managers have one
accepted and one rejected value, one declared and one undeclared exception, and
`broken` for the receiver: their wrappers tell nothing else apart.  In `RustContract`
three calls give a violation the same three wrappers, two `Ok` and two `Err` results
are one accepted and one rejected of each, and the object has a state in which
an expression is false and one in which it panics.

Two open blocks in a context are an outer and an inner one, and enough to be left
out of order; two contexts are a parent and its task or thread.  Three layers are an inner, a middle and an outer one.  Two
parameters are enough for one to displace another, and every pair of kinds and
names occurs; of the four annotations two resolve and two do not, one of each allows
`None`, and one says so by an alias only.  Two addresses and two errors let one violation be gone while
another takes its place, or be wrapped by both errors.

The two threads of `threads` are alike in every definition, `Init` and property, so
the run uses the symmetry of exchanging them, as `details` does for addresses and
errors; `coop`, which checks liveness, uses none.

Deadlock is checked except in `predicates`, where a predicate is asked
once by each caller and that is all.  Elsewhere user code can always go on.

Properties, and what would break them:

- `ImplementsLedger`: each step of the wrappers is a `Write` or a `Verify` of the
  ledger, with `Suspect` (what a running frame has yet to check, plus what ended
  calls left) for its state.  Checking error contracts before the invariants
  breaks it.
- `BrokenIsSuspect`: the consequence a user relies on.  Choosing the exit
  invariants from settings read at exit breaks it.
- `ChecksStand`, `ReturnHonoursContract`: on an event loop what was checked is
  still so when the body starts or the caller gets the result.  They are false
  with threads, and an `await` between two checks would make them false.
- `OrderlyEndLeavesNothing`: plain returns, declared exceptions and error or panic
  violations leave nothing unverified.  Excluded are the ends the code does not
  check: the constructor of a class that raises, failed checks (the first one
  ends the call), aborts and nested violations.
- `OnlyDeclaredEscapes`, `ViolationKeepsBlame`: of exceptions and violations on
  their way through wrappers that declare `raises` or `panic_free`.
- `YieldHonoursContract`, `EndVerified`, `AdvanceOnlyDeclared`,
  `ClosedMeansFinished`: of the generator.  The last one is of `orderly` consumers,
  and false for others, that share a generator or misuse `asend`: the wrapper takes
  the refusal for an exception of the body and marks the generator closed, and a
  later `aclose` does nothing.  Closing the wrapper at a yield whose check fails breaks it.
- `AheadIsTold`: of every consumer.  When the wrapper of a living generator is closed, the
  one whose operation does it is told of an error in the same step.  An `aclose` that
  set the flag before it awaits the cleanup would close it with nobody told.
- `LeaksAreReported`: a manager that was entered and is never left is always told of by
  a violation.  The leak itself is real: when a check fails after `__aenter__` of
  the inner manager the `async with` statement has no manager to leave.  An `await`
  between the inner `__aenter__` and the checks would make it silent.
- `BlockStartsVerified`, `ExitVerified`, `OnlyDeclaredOrOwn`: of the other tasks' writes while
  a manager is entered or left, and of which exception ends the statement.
- In `RustContract`, `ChecksStand` and `ReturnHonoursContract` are about `Err` as much as
  `Ok`: a declared error must match, and the invariants must hold, before it is
  returned.  `ViolationKeepsBlame` is about the `catch_unwind` of `panic_free`
  callers.
- `OffOnlyConverts`: without checking, no call is at a check, before its body or after
  it, and the only violations are converted panics of `panic_free` functions (finding
  3).  A switch that listens to the environment in every build breaks it.
- `ChecksSettle`: a wrapper does not get stuck in its checks, whatever other tasks
  do and predicates answer.  That its clauses come to an end is plain; an `await`
  between two of them would break it, since nobody has to resume a task.
- `InForce`: whatever blocks have come and gone, each flag has the value of the
  innermost open block that gives it.  Restoring the settings in force instead
  of the variable breaks it once the environment changes.  It is of `tidy`
  contexts, whose blocks were all left innermost first (finding 5).
- `OnlyOwnBlocksSwitch`: also when generators are closed from elsewhere.
- `SelectedCallsVerify`: the caller's view of the selection rules: no answer of a
  selected method leaves an object broken by unselected ones unnoticed.
- `MarksReachOutward`, `MetadataComplete`, `EveryLayerVerifies`: of what gets through the
  wrappers outward and of who has checked when the answer is out.  The last one
  excludes constructors that raise and generators under two decorators
  (finding 9).  `MetadataComplete` is for `@contract` innermost; a `@contract` above
  another decorator replaces the metadata.
- `BoundByName`, `HelperAgrees`: for every signature within the bounds.  Both leave out
  a `Gap` (a positional-only parameter that is not offered before one that is),
  and the second `**kwargs` and the helper's own option names (findings 10, 12).
- `NoneAsAnnotated`: `None` from a predicate is a pass where its annotation allows it and
  a violation where it does not, unless the annotation is a text that does not
  resolve and spells something else than it means (finding 13).  Looking at the
  annotation as written only breaks it.
- `RaisedDetailShows`, `ReportMatchesErrors`: addresses are reused and nothing is ever
  removed from the store, and errors of the library are right all the same,
  because `Raise` overwrites what an address had.

Fairness.  `FairSpec` of `ContractCall` asks that a wrapper in its checks goes on (`WF` of
`Wrapper(t)` outside of the body): it waits for nothing but its predicates, which
are taken to return, a task keeps the loop between its checks, and a thread is
scheduled in the end.  User code gets no fairness: a body may never end and an
exception may be caught again and again.  `coop` checks `ChecksSettle` under it;
`after_body`, `rust_off` and `rust_pure` use the `FairSpec` of their module so that their
counterexamples do not rest on a wrapper that stops.

## 4. Findings

Where the documents and the code differ.  Finding 1 is the run `after_body`; for
the others the configuration in brackets holds the counterexample, and the
properties of section 3 are stated around them.

1. `docs/contracts.md:91` says of invariants that they are evaluated before and
   after the function.  After the body they are evaluated only when it returns
   or raises an `Exception` that is no violation.  A body that breaks the object
   and is cancelled at an `await`, or lets a nested call's violation through,
   ends the call with the invariant broken and unreported (`after_body`).
2. `README.md:136` says that only declared exceptions are allowed through.
   `aclose` awaits the generator outside of `_handle_invocation_exception`, so an
   exception of the cleanup gets out undeclared (`gen_close`).
3. `crates/rust-contract-checks/src/config.rs:16` (and `docs/contracts.md:148`) say that
   `PYTHON_CONTRACTS_RS=0` stops the contract checks.  The expansion leaves the panic
   contract outside of the test of the switch, so a `panic_free` function goes on
   turning panics into violations, in release builds too (`rust_off`).
4. `crates/rust-contract-checks/src/metadata.rs:55` calls the metadata the list of
   declared clauses.  A `pure` function is listed with `panic_free` although it does
   not declare it, and its expansion catches no panic (`rust_pure`).
5. `docs/invariant-policies.md:11`: `debug_only` invariants run only under
   `contract_runtime(debug_invariants=True)`.  Two generators that leave their blocks in
   the order they entered them leave the setting of the first in force for good
   (`settings_left`).
6. `docs/contracts.md:98`: public methods and `__init__` are wrapped.  What a later
   `@dataclass` adds, what is inherited, and methods written `def f(*args)` are not
   (`class_late`).
7. `docs/contracts.md:97`: the decorator adds invariants to a class.  With it above
   `@dataclass` an object with a field that has no default cannot be constructed: the
   wrapper takes the `repr` of an object without fields (`class_repr`, a bug).  With
   `include_dunder`, a class that defines `__repr__` answers every checked call with a
   `RecursionError` (`class_dunder`, a bug).
8. `docs/invariant-policies.md:10`: `@read_only` above `@contract` is not seen by it
   (`layers_mark`).
9. `docs/contracts.md:91`: a second decorator around an async generator checks its
   invariants at creation only (`layers_gen`).
10. `docs/contracts.md:86`: an argument named `result` hides the return value
    (`bind_shadow`), and positional-only parameters let it slide into another
    (`bind_shift`).
11. `docs/typed-predicates.md:28-51`: the function of the guide's example fails at every
    call (`bind_typed`).
12. `docs/testing.md:4`: a helper calls a predicate with `**kwargs`, or with a parameter
    `kind`, with other values than a wrapper does (`helper_kwargs`, `helper_kind`).
13. `docs/contracts.md:81`: `None` from a predicate annotated, as text, with an alias of
    a type with `None` is a violation if some annotation does not resolve at run time (`none_alias`).
14. `docs/contracts.md:110`: `to_dict` and SARIF show different details of an error whose
    violation was wrapped again (`details_rewrap`).
15. `ARCHITECTURE.md:55`: a new native violation shows the detail of one that is gone
    (`details_stale`).

## 5. Proofs

Each `...Proofs` module extends the module it is about.  The theorems hold for
every value of the constants that satisfies the named assumptions of that
module; where a theorem needs one more hypothesis it says so in its `ASSUME`.
Bounds (`MaxDepth`, `MaxBlocks`, `MaxLayers`) are constants like the others: what is
proved holds for stacks of any size.  An inductive invariant that is not itself
checked by a run was model-checked on the instances of the runs before it was
proved.

### ContractCallProofs

- `TypeCorrect`: `Spec => []TypeOK`.  The type alone is not inductive enough to be
  useful: `WellFormed` says that the clauses a frame still has to check are of
  the kind of its phase, that an argument, a result or an exception is what its
  value is, and that only a call with contracts on is in a checking phase.
- `LedgerImplemented`: `Spec => ImplementsLedger`.  Lemmas say how `Suspect` changes
  when a frame is pushed, replaced or dropped; then every step is a `Verify`
  (possibly of nothing) or, for `BodyWrite`, a `Write`.
- `BrokenAlwaysSuspect`: the ledger's `Sound` is inductive in the ledger, and holds of
  `Suspect` by the refinement.
- `DeclaredOnly` and `OrderlyEnds`: from `TypeOK`, by asking which actions end a call
  with an exception or in order.
- `BlameKept`: `Spec => ViolationKeepsBlame`.  Needs the inductive invariant `Inward`:
  frames below the top, and a frame that meets a violation, are in their body, and
  on an event loop so is the top frame of every task that does not hold the loop.
  A wrapper in its body only passes a violation on; without `Inward` a frame in
  a checking phase could still turn it into something else.
- `ChecksAlwaysStand` and `ReturnsHonour`: `ChecksStand` and `ReturnHonoursContract`, under
  `Undisturbed`: on an event loop, or where one thread has the object for itself; with
  threads that share it they are false.  `Inward` keeps the other tasks out: while one
  is in its checks it has the loop, so nobody writes, and frames in their body
  promise nothing.
- `ThreadsHonour`: what threads that share the object keep, without any hypothesis: a
  checked result satisfies the postconditions that do not look at the object
  (`Detached`).  The proof is that of `ReturnsHonour`: `Standing(S)` is inductive for all
  clauses if the task is undisturbed, and for the detached ones in any case.
- `ChecksOnlyGetOn`: a wrapper in its checks either ends or is done with a clause or a
  phase, and goes on with the same call and value (`GetsOn`); no phase comes back, so
  checks are bounded by the clauses.  Were the exit checks inside of the `try` around
  the body, a predicate that raises would be handled as an exception of the body,
  and it would be false.  It is the part of `ChecksSettle` that is not liveness.
- `ChecksUninterrupted`: under `~Preemptive` no other task steps, and neither the object
  nor what is switched on changes, between two checks.  From `Inward`.

### RustContractProofs

Besides the assumptions of `RustContract` it uses the library's facts about `Head`,
`Tail` and concatenation (`SequenceTheorems`).

- `TypeCorrect`: `Spec => []TypeOK`.  It is inductive because it also says that every
  call below the innermost is in its body and that what unwinds finds the
  innermost call in its body.
- `BlameKept`: `Spec => ViolationKeepsBlame`, from `TypeOK`: a violation that is on its
  way is in a body, where only `Unwind`, `Catch` and destructors act.
- `ChecksAlwaysStand`: `Spec => []ChecksStand`.  `TypeOK /\ ChecksStand` is inductive: no
  action but a write of a body changes the object, and then the innermost call
  is in its body, of which `Standing` says nothing.
- `ReturnsHonour`: `Spec => ReturnHonoursContract`, the case of `Standing` in which
  nothing is left to check.
- `OffChecksNothing`: `Spec => []OffOnlyConverts`.  Where checking is left out of the build or
  switched off by every environment (`NeverOn`), no call ever leaves its body for a check,
  so a violation can only come from `Unwind`: finding 3 is all that the switch
  leaves on.

### AsyncGeneratorProofs

For any number of consumers, every declaration and every cleanup.

- `TypeCorrect`: `TypeOK` says that a consumer is inside the generator exactly when the
  generator runs or closes, and one at most (`OneInside`); every operation that goes
  in finds it empty, every answer leaves it empty.
- `ClosedAfterBody`: `Spec => []ClosedMeansFinished`; orderly consumers never meet the
  refusals that mark a running generator closed.
- `AheadAlwaysTold`: `Spec => AheadIsTold`, for every consumer.  It needs the inductive
  invariant `Outlived`: a generator that was sent `GeneratorExit` and ignored it has a
  wrapper that is closed already, so an operation on it that is refused closes nothing.
- `ValuesHonour`, `OnlyDeclaredReach`: every answer of an advance went through `Success` or
  `Handle` in the step that delivers it.
- `EndsVerified`: needs the inductive invariant `Pending`, that whoever is inside the
  generator has no answer yet; otherwise a consumer whose old answer was
  replaced by an equal one would be told nothing.

### AsyncContextManagerProofs

`Stepped` says once what a step of a task comes to (`Effect`): it starts to enter, its
block starts, its entry is rejected, its manager fails to enter, its block ends, or its
manager is left; and that it touches nothing of other tasks.  `TypeCorrect` and
`LeaksReported` (`LeaksAreReported` is inductive with the type) follow case by case, and so do
`BlocksVerified`, `ExitsVerified` and `DeclaredOrOwn`.

### RuntimeSettingsProofs

- `SettingsInForce`: `Spec => []InForce`.  `InForce` is about what is in force now; when a
  block is left, the settings of the next one come back from its token, and nothing in
  `InForce` says they are right.  The inductive invariant `Layered` has it for every
  open block of a tidy context: the blocks form a `Chain`, in which each token and each
  `current` is what the block below put in force, and what each block put in
  force is what the arguments up to it say (`Says`).  `ChainGrows` and `ChainShrinks` are the
  two lemmas about entering and leaving.
- `OwnBlocksOnly`: `Spec => OnlyOwnBlocksSwitch`, from `TypeOK`, also of untidy contexts.
- `DebugNeedsABlock`: where no environment switches debug checks on, they are on in a tidy
  context only if its creator or an open block says so, so that finding 5 takes blocks
  left out of order.  An outermost block freezes what the environment said when it
  was entered; the inductive invariant `Frozen` remembers that it did not say `on`.

### ClassDecorationProofs

- `TypeCorrect`: whatever is wrapped, and however often, is a function with a
  receiver.
- `SelectedVerified`: `Spec => []SelectedCallsVerify` under `~LateDataclass`: a `@dataclass` above
  `@invariant_class` adds a constructor and a `__repr__` later, and then it is false (finding 6).
  Two inductive invariants: what the options of a class select and is a method has
  a wrapper (`SelectedWrapped`), and nothing is called before the classes are made
  (`NoCallYet`).

### DecoratorLayersProofs

- `MarksReach`, `MetadataLists`: `MarksReachOutward` and `MetadataComplete` are inductive given
  the type, for any number of layers in any order.
- `LayersVerify`: `Spec => []EveryLayerVerifies`.  The inductive invariant `ChecksFollow` says how
  far outward the answer has come and that all layers up to there have evaluated
  their invariants since the body ran (`Behind`), that each layer has taken the method
  for the flavour it sees (`SeenRight`), and which phases belong to which flavour
  (`PhasesRight`).

### PredicateProofs

It is about two modules, because both pick the members of a list that count, in
their order: the positional arguments of a predicate, the rules of a report.
`Nth` says that the members of a set of numbers have ranks 1, 2, ... without gap or
repetition; it is proved by looking at the least number up to which there are
enough members (`Least`), so it needs no induction principle.

`PredicateCall`, for signatures with any number of parameters:

- `PositionalsAre`: positional values are all offered, there are enough of them for a
  prefix of parameters that are all offered, and when only a prefix is offered
  (`InPlace`) each is in its place.
- `BoundAt` and the lemmas after it say what each kind of parameter is bound to.
- The inductive invariant `IInv` says of each caller that has answered that its answer
  and its values are what `_invoke` makes of what it had (`Invoked`), that a helper that
  got so far could bind them, and that a caller without an answer has bound nothing.
- `TypeCorrect`: only optional parameters are left to their defaults.  Where values
  slide, this is because Python wants optional positional-only parameters last: the
  parameter at the end that goes without is optional as the one that was not offered is
  (`WrapperBinds`).
- `NamesDecide`: `Spec => []BoundByName`.  `~Gap`, a hypothesis inside of the property, gives
  `InPlace` (`NoGap`); without it the property is false (finding 10).
- `HelperFindsTheSame`: `Spec => []HelperAgrees`.  What the helper prepares has in each named
  parameter what the wrapper hands over (`PreparedAsOffered`), and going through
  `_invoke` once more changes nothing, since then every parameter has a value.
- `ResultReaches`, `HelperTakesAll`: the statements findings 10 and 12 refute, with the
  causes of those findings taken out.  They follow from the two theorems before.
- `NoneIsBelieved`: `Spec => []NoneAsAnnotated`, for any annotations; finding 13 is about
  those its hypothesis leaves out.

`ViolationStore`, under `~Rewraps`: no other code makes a `ContractViolationError` with a
detail of its own of a violation that has a detail (with it the properties are false,
finding 14).  For any addresses and any number of living errors.  `StoreTypeCorrect`, its
type, needs no such hypothesis.

- `RaisedShows`, `DetailsStayComplete`: two inductive invariants, that errors about one
  violation have one detail, which is also the stored one and that of the attribute
  (`OneDetail`), and that an error of the library has what its predicate gave and is derived
  elsewhere (`KeptAsRaised`).  They are what makes reused addresses harmless: an
  address that an error refers to is never free.
- `AllReportsAgree`: a SARIF report of any sequence of living errors has the kind of
  each of its violations as a rule, once (`Rules`), and shows of each error its own detail
  under that rule.  `ReportsOfTwoMatch` is `ReportMatchesErrors`, its case of two errors.

### Only model-checked

`ChecksSettle` is liveness under fairness, out of the prover's reach; `ChecksOnlyGetOn`
and `ChecksUninterrupted` are its safety part.  `ChecksStand` and `ReturnHonoursContract` of
`ContractCall` say nothing of threads that share the object, nor do their theorems;
`ThreadsHonour` is what such threads keep.
Runs that find a property violated have no theorem, of course; where the property
holds under a hypothesis, the theorem above names it.  There are no `RECURSIVE`
definitions, and lists are picked from without the recursive `SelectSeq`, of which the
prover knows nothing.

## 6. Not modelled, and the plan

Expanded Rust functions have no invariant ledger: an invariant of theirs belongs to
one function and may mention its arguments, so nobody but that function answers
for it, and `ChecksStand` with `ReturnHonoursContract` says what it answers for.

Models: a predicate that calls wrapped methods of the object it checks (recursion
that ends in a violation), and one that has effects.

Left out for good: JSON and SARIF layout, messages, Rust reports and input
snapshots (formatting), the rejection of async and const Rust functions, protocols,
aliases and stubs (declarations), packaging, release, examples and benchmarks.
