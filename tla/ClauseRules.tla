---------------------------- MODULE ClauseRules ----------------------------
(***************************************************************************)
(* The pure decisions of python_contracts_rs: whether contracts run at     *)
(* all, which invariants a call of a method runs, and what the value a     *)
(* predicate hands back means.  No state: ContractCall and the modules     *)
(* about wrapped results share these definitions.                          *)
(*                                                                         *)
(* Text is abstracted to what the code tells apart.  An environment        *)
(* variable is "unset", "off" (0, false or off after trimming, in any      *)
(* case) or "on" (any other text).  A method name is one of four classes:  *)
(* "init", a reading prefix, a mutating prefix, or any other name.         *)
(***************************************************************************)

EnvValues == {"unset", "off", "on"}
Policies == {"always", "mutating_only", "read_only_opt_out", "debug_only"}
Costs == {"cheap", "expensive"}
Marks == {"none", "read_only", "mutating"}
NameClasses == {"init", "reading", "mutating", "other"}
Roles == {"read_only", "mutating", "unspecified"}
Settings == [debug : BOOLEAN, expensive : BOOLEAN]

\* What calling a predicate yields: a truthy or falsy value, None, a
\* ViolationDetail, a non-empty tuple or list of ViolationCause, an ordinary
\* exception, or a ContractViolationError out of a contracted function that
\* the predicate itself calls.
RawResults == {"truthy", "falsy", "none", "detail", "causes", "raises", "violates"}

\* The legacy variable counts only when the new one is not in the environment.
ContractsEnabled(env) ==
  LET value == IF env.primary # "unset" THEN env.primary ELSE env.legacy
  IN value # "off"

\* A mark set by @mutating or @read_only wins over the name.
MethodRole(mark, name) ==
  IF mark \in {"mutating", "read_only"} THEN mark
  ELSE [init |-> "mutating", reading |-> "read_only",
        mutating |-> "mutating", other |-> "unspecified"][name]

\* The cost filter comes first and applies under every policy.
InvariantShouldRun(policy, cost, role, settings) ==
  /\ cost = "expensive" => settings.expensive
  /\ policy = "mutating_only" => role = "mutating"
  /\ policy = "read_only_opt_out" => role # "read_only"
  /\ policy = "debug_only" => settings.debug

Verdicts == {"pass", "fail", "raise", "foreign"}

\* The verdict on a clause: None passes only where the annotation of the
\* predicate lets it, details and causes always fail.
Resolve(raw, allowNone) ==
  CASE raw = "truthy"   -> "pass"
    [] raw = "none"     -> IF allowNone THEN "pass" ELSE "fail"
    [] raw = "raises"   -> "raise"
    [] raw = "violates" -> "foreign"
    [] OTHER            -> "fail"
============================================================================
