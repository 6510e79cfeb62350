-------------------------- MODULE RuntimeSettings --------------------------
(***************************************************************************)
(* contract_runtime and the context variable behind it (contracts.py): the *)
(* runtime settings every contracted call reads.  A context belongs to a   *)
(* thread or an asyncio task.  A task is created with a copy of its        *)
(* creator's context, a thread with an empty one.                          *)
(*                                                                         *)
(* A block is one contract_runtime(...) in progress.  Plain code leaves    *)
(* its blocks innermost first and where it entered them.  A generator can  *)
(* be suspended inside a block, so blocks are left in any order, and from  *)
(* another task; a context where that never happened is tidy.              *)
(***************************************************************************)
EXTENDS Naturals, Sequences, SequencesExt, ClauseRules

CONSTANTS
  Contexts,     \* threads and tasks
  Main,         \* the one the program starts with
  NoSettings,   \* the context variable is unset (its default, None)
  Environments, \* environments the process is seen with
  Arguments,    \* the arguments blocks are seen with
  MaxBlocks     \* bound on the blocks open in one context

Flags == {"debug", "expensive"}

\* The arguments of a block: a value for each flag that is not None.
Given == UNION {[F -> BOOLEAN] : F \in SUBSET Flags}

ASSUME ContextsAssumption == Main \in Contexts
ASSUME NoSettingsAssumption == NoSettings \notin Settings
ASSUME EnvironmentsAssumption == Environments \subseteq [debug : EnvValues, expensive : EnvValues]
ASSUME ArgumentsAssumption == Arguments \subseteq Given
ASSUME BoundsAssumption == MaxBlocks \in Nat

VARIABLES
  env,      \* the two environment variables
  live,     \* the contexts that exist
  context,  \* context[c]: the context variable in c
  open,     \* open[c]: the blocks entered in c and not yet left, oldest first
  born,     \* history: what the context variable was when c was created
  tidy      \* history: the contexts whose blocks were all left innermost first

vars == <<env, live, context, open, born, tidy>>

Held == Settings \cup {NoSettings}

\* given, the local current, and the value the token restores.
Block == [given : Arguments, current : Settings, old : Held]

TypeOK ==
  /\ env \in Environments
  /\ live \subseteq Contexts
  /\ context \in [Contexts -> Held]
  /\ open \in [Contexts -> Seq(Block)]
  /\ \A c \in Contexts : /\ Len(open[c]) <= MaxBlocks
                         /\ c \notin live => open[c] = <<>> /\ context[c] = NoSettings
  /\ born \in [Contexts -> Held]
  /\ tidy \subseteq Contexts
----------------------------------------------------------------------------
\* Any text but 0, false and off switches on.
EnvFlag(value, default) == IF value = "unset" THEN default ELSE value = "on"

\* get_contract_runtime_settings, in context c.
Current(c) ==
  IF context[c] # NoSettings THEN context[c]
  ELSE [debug |-> EnvFlag(env.debug, FALSE), expensive |-> EnvFlag(env.expensive, TRUE)]

Override_Unmerged(settings, given) == given  \* slip: the new value holds the arguments only

Override(settings, given) ==
  [f \in Flags |-> IF f \in DOMAIN given THEN given[f] ELSE settings[f]]

Init ==
  /\ env \in Environments
  /\ live = {Main}
  /\ context = [c \in Contexts |-> NoSettings]
  /\ open = [c \in Contexts |-> <<>>]
  /\ born = [c \in Contexts |-> NoSettings]
  /\ tidy = Contexts

Enter(c, given) ==
  /\ c \in live
  /\ Len(open[c]) < MaxBlocks
  /\ context' = [context EXCEPT ![c] = Override(Current(c), given)]
  /\ open' = [open EXCEPT ![c] =
                Append(@, [given |-> given, current |-> Current(c), old |-> context[c]])]
  /\ UNCHANGED <<env, live, born, tidy>>

\* The finally clause, however the block ends.
Leave_Current(c, i) ==  \* slip: puts the settings back instead of the variable
  /\ i \in DOMAIN open[c]
  /\ context' = [context EXCEPT ![c] = open[c][i].current]
  /\ open' = [open EXCEPT ![c] = RemoveAt(@, i)]
  /\ tidy' = IF i = Len(open[c]) THEN tidy ELSE tidy \ {c}
  /\ UNCHANGED <<env, live, born>>

Leave(c, i) ==
  /\ i \in DOMAIN open[c]
  /\ context' = [context EXCEPT ![c] = open[c][i].old]
  /\ open' = [open EXCEPT ![c] = RemoveAt(@, i)]
  /\ tidy' = IF i = Len(open[c]) THEN tidy ELSE tidy \ {c}
  /\ UNCHANGED <<env, live, born>>

LeaveElsewhere_Sets(c, d, i) ==  \* slip: set(old) where the code resets the token
  /\ c \in live /\ c # d
  /\ i \in DOMAIN open[d]
  /\ context' = [context EXCEPT ![c] = open[d][i].old]
  /\ open' = [open EXCEPT ![d] = RemoveAt(@, i)]
  /\ tidy' = tidy \ {d}
  /\ UNCHANGED <<env, live, born>>

\* c closes a generator that entered its block in d: the token belongs to
\* another context, reset raises ValueError and restores nothing.
LeaveElsewhere(c, d, i) ==
  /\ c \in live /\ c # d
  /\ i \in DOMAIN open[d]
  /\ open' = [open EXCEPT ![d] = RemoveAt(@, i)]
  /\ tidy' = tidy \ {d}
  /\ UNCHANGED <<env, live, context, born>>

\* d is a new task (inherits) or thread of c.
Spawn(c, d, inherits) ==
  /\ c \in live /\ d \notin live
  /\ live' = live \cup {d}
  /\ context' = [context EXCEPT ![d] = IF inherits THEN context[c] ELSE NoSettings]
  /\ born' = [born EXCEPT ![d] = context'[d]]
  /\ UNCHANGED <<env, open, tidy>>

SetEnv(e) ==
  /\ env' = e
  /\ UNCHANGED <<live, context, open, born, tidy>>

Next ==
  \/ \E c \in Contexts :
       \/ \E given \in Arguments : Enter(c, given)
       \/ \E i \in DOMAIN open[c] : Leave(c, i)
       \/ \E d \in Contexts : \/ \E i \in DOMAIN open[d] : LeaveElsewhere(c, d, i)
                              \/ \E inherits \in BOOLEAN : Spawn(c, d, inherits)
  \/ \E e \in Environments : SetEnv(e)

Spec == Init /\ [][Next]_vars
----------------------------------------------------------------------------
(* Properties *)

\* What c sees outside of all its blocks: what it was created with, or else
\* the environment as it is now; inside, that is frozen by the outermost one.
Ground(c) ==
  IF open[c] # <<>> THEN open[c][1].current
  ELSE IF born[c] # NoSettings THEN born[c]
  ELSE [debug |-> EnvFlag(env.debug, FALSE), expensive |-> EnvFlag(env.expensive, TRUE)]

Gives(c, f) == {i \in DOMAIN open[c] : f \in DOMAIN open[c][i].given}

\* The settings are those of the blocks the code is inside of, each flag from
\* the innermost block that gives it and from the ground if none does,
\* whatever blocks have come and gone before (contract_runtime restores the
\* token; None keeps what is in force), and whatever generators do to blocks
\* of other contexts.
InForce ==
  \A c \in live \cap tidy, f \in Flags :
    \/ Gives(c, f) = {} /\ Current(c)[f] = Ground(c)[f]
    \/ \E i \in Gives(c, f) : /\ \A j \in Gives(c, f) : j <= i
                              /\ Current(c)[f] = open[c][i].given[f]

\* README.md:142: runtime controls are toggled per context.  A context
\* variable changes only where a block of its own context is entered or left;
\* a generator closed from elsewhere switches nothing, here or there.
OnlyOwnBlocksSwitch ==
  [][\A c \in live : context'[c] # context[c] =>
       Len(open'[c]) # Len(open[c]) /\ \A d \in Contexts \ {c} : open'[d] = open[d]]_vars

\* docs/invariant-policies.md:11: debug_only invariants are evaluated only
\* under contract_runtime(debug_invariants=True), or where the environment
\* (or the creator of the context) says so.
DebugOnlyInBlocks ==
  \A c \in live : Current(c).debug =>
    \/ env.debug = "on"
    \/ born[c] # NoSettings /\ born[c].debug
    \/ \E i \in Gives(c, "debug") : open[c][i].given["debug"]
============================================================================
