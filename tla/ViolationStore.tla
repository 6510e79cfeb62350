--------------------------- MODULE ViolationStore ---------------------------
(***************************************************************************)
(* Violations and their details (contracts.py, models.py).  A native       *)
(* violation has no room for a detail, so the library keeps details in a   *)
(* dictionary under id(violation), which Python gives to another object    *)
(* once the violation is gone.  An error wraps a native violation and      *)
(* keeps a detail of its own; natives can also be made and wrapped by the  *)
(* code outside.                                                           *)
(*                                                                         *)
(* A detail says what it is about, for which kind of clause, and of each   *)
(* field whether the predicate gave it, the library derived it or nobody   *)
(* did.                                                                    *)
(***************************************************************************)
EXTENDS Naturals, Sequences, FiniteSets, SequencesExt

CONSTANTS
  Ids,      \* what id() returns
  Slots,    \* the errors that are alive at a time
  Clauses,  \* the kinds of clauses
  Subjects, \* what details can be about
  GivenFields, \* the sets of fields that details are given with
  Rewraps,  \* natives that have a detail may be wrapped with another one
  Absent    \* no value

Fields == {"code", "message", "phase", "predicate", "severity"}
ASSUME FieldsAssumption == GivenFields \subseteq SUBSET Fields
ASSUME SubjectsAssumption == Absent \notin Subjects /\ Absent \notin Clauses

VARIABLES
  native,  \* native[i]: the clause kind of the violation at i
  store,   \* _VIOLATION_DETAILS_BY_ID
  payload, \* payload[i]: the copy in the attribute of the violation at i
  held,    \* the natives the code outside refers to
  errors,  \* errors[s]: the violation of the error, and its own detail
  raised   \* history: raised[s]: what the predicate gave when the library raised the error

storeVars == <<native, store, payload, held, errors, raised>>

Detail == [about : Subjects \cup {Absent}, kind : Clauses,
           fields : [Fields -> {"given", "derived", "unset"}]]
Error == [id : Ids, detail : Detail]
Origin == [about : Subjects \cup {Absent}, given : GivenFields]
ASSUME AbsentAssumption == Absent \notin Detail \cup Error

Used == held \cup {errors[s].id : s \in {t \in Slots : errors[t] # Absent}}

StoreTypeOK ==
  /\ native \in [Ids -> Clauses \cup {Absent}]
  /\ store \in [Ids -> Detail \cup {Absent}]
  /\ payload \in [Ids -> Detail \cup {Absent}]
  /\ \A i \in Ids : payload[i] # Absent => payload[i] = store[i]
  /\ held \subseteq Ids
  /\ errors \in [Slots -> Error \cup {Absent}]
  /\ raised \in [Slots -> Origin \cup {Absent}]
  /\ \A i \in Used : native[i] # Absent
----------------------------------------------------------------------------
(* Details *)

AsGiven(about, given, kind) ==
  [about |-> about, kind |-> kind,
   fields |-> [f \in Fields |-> IF f \in given THEN "given" ELSE "unset"]]

Compose_AsGiven(about, given, kind, clause) ==  \* slip: nothing is derived
  AsGiven(about, given, kind)

\* _compose_violation_detail: what the predicate gave stays, the rest is
\* derived from the kind and the clause.
Compose(about, given, kind, clause) ==
  [about |-> about, kind |-> kind,
   fields |-> [f \in Fields |-> CASE f \in given -> "given"
                                  [] f \notin given /\ f = "predicate" /\ ~clause -> "unset"
                                  [] OTHER -> "derived"]]

Derived(i) == Compose(Absent, {"message"}, native[i], FALSE)

\* _resolve_violation_detail: its own, the stored, the attribute's, or one
\* made up from the native violation.
ResolveDetail(i, own) ==
  CASE own # Absent -> own
    [] own = Absent /\ store[i] # Absent -> store[i]
    [] own = Absent /\ store[i] = Absent /\ payload[i] # Absent -> payload[i]
    [] OTHER -> Derived(i)

\* _attach_violation_detail.
Attach_Once(i, detail) ==  \* slip: an entry that exists is not replaced
  /\ store' = [store EXCEPT ![i] = IF @ = Absent THEN detail ELSE @]
  /\ payload' = [payload EXCEPT ![i] = store'[i]]

Attach(i, detail) ==
  /\ store' = [store EXCEPT ![i] = detail]
  /\ payload' = [payload EXCEPT ![i] = detail]
----------------------------------------------------------------------------
(* Steps *)

StoreInit ==
  /\ native = [i \in Ids |-> Absent] /\ store = [i \in Ids |-> Absent]
  /\ payload = [i \in Ids |-> Absent] /\ held = {}
  /\ errors = [s \in Slots |-> Absent] /\ raised = [s \in Slots |-> Absent]

\* _build_violation_error, at any free address.
Raise(s, i, kind, about, given, clause) ==
  LET detail == Compose(about, given, kind, clause)
  IN /\ errors[s] = Absent /\ i \notin Used
     /\ native' = [native EXCEPT ![i] = kind]
     /\ Attach(i, detail)
     /\ errors' = [errors EXCEPT ![s] = [id |-> i, detail |-> detail]]
     /\ raised' = [raised EXCEPT ![s] = [about |-> about, given |-> given]]
     /\ UNCHANGED held

\* The code outside constructs a native violation.
Native(i, kind) ==
  /\ i \notin Used
  /\ native' = [native EXCEPT ![i] = kind]
  /\ payload' = [payload EXCEPT ![i] = Absent]
  /\ held' = held \cup {i}
  /\ UNCHANGED <<store, errors, raised>>

\* ContractViolationError(native, detail) outside the library.
Wrap(s, i, own) ==
  /\ errors[s] = Absent /\ i \in Used
  /\ own # Absent => Rewraps \/ payload[i] = Absent
  /\ errors' = [errors EXCEPT ![s] = [id |-> i, detail |-> ResolveDetail(i, own)]]
  /\ Attach(i, ResolveDetail(i, own))
  /\ UNCHANGED <<native, held, raised>>

\* error.violation is kept, or a native violation is let go.
Hold(s) ==
  /\ errors[s] # Absent
  /\ held' = held \cup {errors[s].id}
  /\ UNCHANGED <<native, store, payload, errors, raised>>

Release(i) ==
  /\ held' = held \ {i}
  /\ UNCHANGED <<native, store, payload, errors, raised>>

\* An error is handled: what it alone referred to is gone, the store is not.
Handle(s) ==
  /\ errors' = [errors EXCEPT ![s] = Absent]
  /\ raised' = [raised EXCEPT ![s] = Absent]
  /\ UNCHANGED <<native, store, payload, held>>

UserDetails == {AsGiven(about, {"code", "message"}, kind) : about \in Subjects, kind \in Clauses}

StoreNext ==
  \/ \E s \in Slots, i \in Ids, kind \in Clauses, about \in Subjects \cup {Absent},
        given \in GivenFields, clause \in BOOLEAN : Raise(s, i, kind, about, given, clause)
  \/ \E i \in Ids, kind \in Clauses : Native(i, kind)
  \/ \E s \in Slots, i \in Ids, own \in UserDetails \cup {Absent} : Wrap(s, i, own)
  \/ \E s \in Slots : Hold(s) \/ Handle(s)
  \/ \E i \in Ids : Release(i)

StoreSpec == StoreInit /\ [][StoreNext]_storeVars
----------------------------------------------------------------------------
(* What readers see *)

\* violation_to_dict and to_json of an error, of a native violation.
ErrorDict(s) == ResolveDetail(errors[s].id, errors[s].detail)
NativeDict(i) == ResolveDetail(i, Absent)

RuleIds_Repeated(ids) == [k \in 1 .. Len(ids) |-> native[ids[k]]]  \* slip: not made unique

\* _unique_violations_by_rule: one rule per kind, in the order of appearance.
RuleIds(ids) ==
  LET firsts == {k \in 1 .. Len(ids) : \A j \in 1 .. k - 1 : native[ids[j]] # native[ids[k]]}
      At(r) == CHOOSE k \in firsts : Cardinality(firsts \cap (1 .. k)) = r
  IN [r \in 1 .. Cardinality(firsts) |-> native[ids[At(r)]]]

\* violations_to_sarif takes the native violations out of the errors first.
Sarif(ss) ==
  LET ids == [k \in 1 .. Len(ss) |-> errors[ss[k]].id]
  IN [rules |-> RuleIds(ids),
      results |-> [k \in 1 .. Len(ids) |-> [rule |-> native[ids[k]], detail |-> NativeDict(ids[k])]]]
----------------------------------------------------------------------------
(* Properties *)

Alive == {s \in Slots : errors[s] # Absent}

\* An error the library raised is read the same through itself and through its
\* violation, as the predicate gave it, whatever became of other errors, of
\* their addresses and of the entries they left.
RaisedDetailShows ==
  \A s \in Alive : raised[s] # Absent =>
    /\ NativeDict(errors[s].id) = ErrorDict(s)
    /\ ErrorDict(s).about = raised[s].about
    /\ ErrorDict(s).kind = native[errors[s].id]
    /\ \A f \in Fields : f \in raised[s].given <=> ErrorDict(s).fields[f] = "given"

\* An error the library raised tells code, message, phase and severity, also
\* after its violation was wrapped once more.
DetailsComplete ==
  \A s, t \in Alive : raised[s] # Absent /\ errors[t].id = errors[s].id =>
    \A f \in Fields \ {"predicate"} : ErrorDict(t).fields[f] # "unset"

\* A SARIF report of any two errors has one rule for each kind, and each of
\* its results has its rule and the detail the error itself shows.
ReportMatchesErrors ==
  \A s, t \in Alive :
    LET report == Sarif(<<s, t>>)
    IN /\ \A j, k \in DOMAIN report.rules : j # k => report.rules[j] # report.rules[k]
       /\ ToSet(report.rules) = {native[errors[s].id], native[errors[t].id]}
       /\ report.results[1].detail = ErrorDict(s) /\ report.results[2].detail = ErrorDict(t)

\* ARCHITECTURE.md:55: details extend the native violation and do not damage
\* it: one that nobody gave a detail shows what it says itself.
NativeShowsItself ==
  \A i \in held : payload[i] = Absent => NativeDict(i) = Derived(i)
============================================================================
