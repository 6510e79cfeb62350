-------------------------- MODULE PredicateProofs --------------------------
(***************************************************************************)
(* Proofs about PredicateCall, for predicates with any number of           *)
(* parameters and any arguments, and about ViolationStore, which keeps     *)
(* what predicates answer, for any number of addresses and errors and any  *)
(* details.  Both pick the members of a list that count, in their order:   *)
(* the positional arguments, the rules of a report.                        *)
(***************************************************************************)
EXTENDS PredicateCall, ViolationStore,
        SequenceTheorems, FiniteSetTheorems, WellFoundedInduction, TLAPS

(* Picking members of a list *)

LEMMA Least ==
  ASSUME NEW T \in SUBSET Nat, T # {}
  PROVE  \E x \in T : \A y \in T : x <= y
<1>1. IsWellFoundedOn(OpToRel(<, Nat), Nat)
  BY NatLessThanWellFounded
<1>2. PICK x \in T : \A y \in T : ~ (<<y, x>> \in OpToRel(<, Nat))
  BY <1>1, WFMin
<1>3. \A y \in T : y < x => <<y, x>> \in OpToRel(<, Nat)
  BY DEF OpToRel
<1>4. \A y \in T : ~(y < x)
  BY <1>2, <1>3, Zenon
<1> QED
  BY <1>4

\* Every set of numbers up to n has a first, a second, ... member, as many as
\* it has members, and each of its members is one of these.
LEMMA Nth ==
  ASSUME NEW n \in Nat, NEW S \in SUBSET (1 .. n)
  PROVE  /\ IsFiniteSet(S) /\ Cardinality(S) \in Nat
         /\ \A r \in 1 .. Cardinality(S) : \E k \in S : Cardinality(S \cap (1 .. k)) = r
         /\ \A k \in S : Cardinality(S \cap (1 .. k)) \in 1 .. Cardinality(S)
         /\ \A j, k \in S : Cardinality(S \cap (1 .. j)) = Cardinality(S \cap (1 .. k)) => j = k
<1> DEFINE Upto(k) == S \cap (1 .. k)
<1>1. IsFiniteSet(S) /\ Cardinality(S) \in Nat
  <2>1. IsFiniteSet(1 .. n)
    BY FS_Interval
  <2>2. IsFiniteSet(S)
    BY <2>1, FS_Subset
  <2> QED
    BY <2>2, FS_CardinalityType
<1>2. \A k \in Nat : IsFiniteSet(Upto(k)) /\ Cardinality(Upto(k)) \in Nat
                     /\ Cardinality(Upto(k)) <= Cardinality(S)
  BY <1>1, FS_Subset, FS_CardinalityType
<1>3. ASSUME NEW r \in 1 .. Cardinality(S)
      PROVE  \E k \in S : Cardinality(Upto(k)) = r
  <2> DEFINE T == {k \in Nat : Cardinality(Upto(k)) >= r}
  <2>1. Upto(n) = S
    OBVIOUS
  <2>2. n \in T
    BY <1>1, <2>1
  <2>3. PICK k \in T : \A y \in T : k <= y
    BY <2>2, Least
  <2>4. Upto(0) = {}
    OBVIOUS
  <2>5. k # 0
    BY <2>3, <2>4, <1>1, FS_EmptySet
  <2>6. k - 1 \in Nat /\ k - 1 \notin T
    BY <2>3, <2>5
  <2>7. Cardinality(Upto(k - 1)) < r
    BY <2>6, <1>2, <1>1
  <2>8. Upto(k) = IF k \in S THEN Upto(k - 1) \cup {k} ELSE Upto(k - 1)
    BY <2>6
  <2>9. k \in S
    BY <2>3, <2>7, <2>8, <1>1, <1>2
  <2>10. k \notin Upto(k - 1)
    BY <2>6
  <2>11. Cardinality(Upto(k)) = Cardinality(Upto(k - 1)) + 1
    BY <2>6, <2>8, <2>9, <2>10, <1>2, FS_AddElement
  <2>12. k \in Nat /\ Cardinality(Upto(k)) >= r /\ Cardinality(Upto(k - 1)) \in Nat
    BY <2>3, <2>6, <1>2
  <2>13. Cardinality(Upto(k)) = r
    BY <2>7, <2>11, <2>12, <1>1
  <2> QED
    BY <2>9, <2>13
<1>4. ASSUME NEW k \in S
      PROVE  Cardinality(Upto(k)) \in 1 .. Cardinality(S)
  <2>1. k \in Nat /\ k \in Upto(k)
    OBVIOUS
  <2>2. Cardinality(Upto(k)) # 0
    BY <2>1, <1>2, FS_EmptySet
  <2> QED
    BY <1>1, <1>2, <2>1, <2>2
<1>5. ASSUME NEW j \in S, NEW k \in S, j < k
      PROVE  Cardinality(Upto(j)) # Cardinality(Upto(k))
  <2>1. j \in Nat /\ k \in Nat /\ Upto(j) \in SUBSET Upto(k) /\ k \in Upto(k) /\ k \notin Upto(j)
    BY <1>5
  <2> QED
    BY <2>1, <1>2, FS_Subset
<1> QED
  BY <1>1, <1>3, <1>4, <1>5
----------------------------------------------------------------------------
(* Signatures *)

Positions == 1 .. Len(sig)

LEMMA SignatureTyped ==
  ASSUME sig \in Signatures
  PROVE  /\ Len(sig) \in Nat /\ sig \in [Positions -> Parameter]
         /\ ToSet(sig) = {sig[k] : k \in Positions}
<1>1. PICK n \in 0 .. MaxParameters : sig \in [1 .. n -> Parameter]
  BY DEF Signatures
<1>2. n \in Nat
  BY BoundsAssumption
<1> QED
  BY <1>1, <1>2 DEF ToSet, Positions

LEMMA RankIs ==
  ASSUME NEW p, p.kind \in Kinds
  PROVE  /\ Rank(p) \in 1 .. 5
         /\ Rank(p) <= 1 <=> p.kind = "positional"
         /\ Rank(p) <= 2 <=> p.kind \in {"positional", "any"}
BY DEF Rank, Kinds

\* Names tell parameters apart, positional-only parameters come first, and
\* those of them that are optional come last.
LEMMA SignatureOrder ==
  ASSUME sig \in Signatures
  PROVE  /\ \A j, k \in Positions : sig[j].name = sig[k].name => j = k
         /\ \A j, k \in Positions : j < k /\ sig[k].kind = "positional" =>
              sig[j].kind = "positional" /\ (sig[j].optional => sig[k].optional)
         /\ \A k \in Positions : Variable(sig[k]) => sig[k].optional
         /\ \A k \in Positions : sig[k].kind \in Kinds
<1>1. \A k \in Positions : sig[k] \in Parameter /\ sig[k].kind \in Kinds
  BY SignatureTyped, KindsAssumption DEF Parameter
<1>2. \A j, k \in Positions : j < k =>
        /\ sig[j].name # sig[k].name
        /\ Rank(sig[j]) <= Rank(sig[k])
        /\ sig[j].optional /\ Rank(sig[k]) <= 2 => sig[k].optional
  BY DEF Signatures, Signature, Positions
<1>3. ASSUME NEW j \in Positions, NEW k \in Positions, j < k, sig[k].kind = "positional"
      PROVE  sig[j].kind = "positional" /\ (sig[j].optional => sig[k].optional)
  <2>1. Rank(sig[k]) <= 1 /\ Rank(sig[j]) \in 1 .. 5 /\ Rank(sig[k]) \in 1 .. 5
    BY <1>1, <1>3, RankIs
  <2>2. Rank(sig[j]) <= 1 /\ Rank(sig[k]) <= 2
    BY <1>2, <1>3, <2>1
  <2> QED
    BY <1>1, <1>2, <1>3, <2>2, RankIs
<1>4. ASSUME NEW j \in Positions, NEW k \in Positions, sig[j].name = sig[k].name
      PROVE  j = k
  BY <1>2, <1>4, SignatureTyped DEF Positions
<1>5. \A k \in Positions : Variable(sig[k]) => sig[k].optional
  BY DEF Signatures, Positions
<1> QED
  BY <1>1, <1>3, <1>4, <1>5

LEMMA ByNameIff ==
  ASSUME sig \in Signatures, NEW k \in Positions
  PROVE  sig[k].name \in ByName <=> sig[k].kind \in {"any", "keyword"}
BY SignatureTyped, SignatureOrder DEF ByName
----------------------------------------------------------------------------
(* Positional-only parameters *)

\* The positional-only parameters that are offered a value.
Chosen(available) ==
  {k \in Positions : sig[k].kind = "positional" /\ sig[k].name \in DOMAIN available}

\* Positional arguments are values that are offered.  They end up with the
\* parameters they are meant for when no parameter before these goes without.
LEMMA PositionalsAre ==
  ASSUME sig \in Signatures, NEW available
  PROVE  LET values == Positionals(available)
             chosen == Chosen(available)
         IN /\ Len(values) \in Nat
            /\ \A n \in 1 .. Len(values) : \E k \in chosen : values[n] = available[sig[k].name]
            /\ \A k \in Positions : 1 .. k \subseteq chosen => k <= Len(values)
            /\ (\A k \in chosen : 1 .. k \subseteq chosen) =>
                 \A k \in Positions : /\ k \in chosen <=> k <= Len(values)
                                      /\ k \in chosen => values[k] = available[sig[k].name]
<1> DEFINE values == Positionals(available)
           chosen == Chosen(available)
           At(n) == CHOOSE k \in chosen : Cardinality(chosen \cap (1 .. k)) = n
<1>1. values = [n \in 1 .. Cardinality(chosen) |-> available[sig[At(n)].name]]
  BY DEF Positionals, Chosen, Positions
<1>2. Len(sig) \in Nat /\ chosen \in SUBSET (1 .. Len(sig))
  BY SignatureTyped DEF Chosen, Positions
<1> HIDE DEF chosen
<1>3. /\ IsFiniteSet(chosen) /\ Cardinality(chosen) \in Nat
      /\ \A r \in 1 .. Cardinality(chosen) : \E k \in chosen : Cardinality(chosen \cap (1 .. k)) = r
  <2> HIDE DEF At
  <2> QED
    BY <1>2, Nth
<1>4. \A r \in 1 .. Cardinality(chosen) :
        At(r) \in chosen /\ Cardinality(chosen \cap (1 .. At(r))) = r
  BY <1>3
<1> HIDE DEF At
<1>5. Len(values) = Cardinality(chosen) /\ Len(values) \in Nat
  BY <1>1, <1>3
<1>6. \A n \in 1 .. Len(values) : values[n] = available[sig[At(n)].name] /\ At(n) \in chosen
  BY <1>1, <1>4, <1>5
<1>7. ASSUME NEW k \in Nat
      PROVE  IsFiniteSet(1 .. k) /\ Cardinality(1 .. k) = k
  BY FS_Interval
<1>8. ASSUME NEW k \in Positions, 1 .. k \subseteq chosen
      PROVE  k <= Len(values)
  <2>1. k \in Nat
    BY DEF Positions
  <2> QED
    BY <1>3, <1>5, <1>7, <1>8, <2>1, FS_Subset
<1>9. ASSUME \A k \in chosen : 1 .. k \subseteq chosen, NEW k \in Positions
      PROVE  /\ k \in chosen <=> k <= Len(values)
             /\ k \in chosen => values[k] = available[sig[k].name]
  <2>1. \A j \in chosen : chosen \cap (1 .. j) = 1 .. j /\ j \in Nat
    BY <1>2, <1>9
  <2>2. \A j \in chosen : Cardinality(chosen \cap (1 .. j)) = j
    BY <1>7, <2>1
  <2>3. ASSUME NEW r \in 1 .. Len(values)
        PROVE  At(r) = r
    <3>1. At(r) \in chosen /\ Cardinality(chosen \cap (1 .. At(r))) = r
      BY <1>4, <1>5
    <3> QED
      BY <2>2, <3>1
  <2>4. k \in Nat /\ k > 0
    BY DEF Positions
  <2>5. k <= Len(values) => k \in chosen
    BY <1>6, <2>3, <2>4
  <2>6. k \in chosen => k <= Len(values)
    BY <1>8, <1>9
  <2> QED
    BY <1>6, <2>3, <2>4, <2>5, <2>6
<1>10. \A n \in 1 .. Len(values) : \E k \in chosen : values[n] = available[sig[k].name]
  BY <1>6
<1> QED
  BY <1>5, <1>8, <1>9, <1>10 DEF chosen
----------------------------------------------------------------------------
(* Binding *)

\* What **kwargs is bound to.
Spread(keywords) == <<"rest", [n \in DOMAIN keywords \ ByName |-> keywords[n]]>>

\* What a parameter is bound to.
LEMMA BoundAt ==
  ASSUME sig \in Signatures, NEW values, NEW keywords, NEW k \in Positions
  PROVE  Bound(values, keywords)[sig[k].name] =
           CASE sig[k].kind = "varkw" -> Spread(keywords)
             [] sig[k].kind = "varpos" -> <<"rest", None>>
             [] sig[k].kind = "positional" /\ k <= Len(values) -> values[k]
             [] sig[k].name \in ByName \cap DOMAIN keywords -> keywords[sig[k].name]
             [] OTHER -> <<"default", sig[k].name>>
<1> DEFINE n == sig[k].name
           i == CHOOSE j \in 1 .. Len(sig) : sig[j].name = n
<1>1. i = k
  BY SignatureOrder DEF Positions
<1>2. n \in {p.name : p \in ToSet(sig)}
  BY SignatureTyped
<1>3. Bound(values, keywords)[n] =
        CASE sig[i].kind = "varkw" -> Spread(keywords)
          [] sig[i].kind = "varpos" -> <<"rest", None>>
          [] sig[i].kind = "positional" /\ i <= Len(values) -> values[i]
          [] sig[i].name \in ByName \cap DOMAIN keywords -> keywords[sig[i].name]
          [] OTHER -> <<"default", sig[i].name>>
  BY <1>2 DEF Bound, Spread
<1> HIDE DEF i
<1> QED
  BY <1>1, <1>3

LEMMA BoundVariable ==
  ASSUME sig \in Signatures, NEW values, NEW keywords, NEW k \in Positions
  PROVE  /\ sig[k].kind = "varkw" => Bound(values, keywords)[sig[k].name] = Spread(keywords)
         /\ sig[k].kind = "varpos" => Bound(values, keywords)[sig[k].name] = <<"rest", None>>
<1>1. sig[k].kind \in {"varkw", "varpos"} => sig[k].name \notin ByName
  BY ByNameIff
<1>2. Bound(values, keywords)[sig[k].name] =
        CASE sig[k].kind = "varkw" -> Spread(keywords)
          [] sig[k].kind = "varpos" -> <<"rest", None>>
          [] sig[k].kind = "positional" /\ k <= Len(values) -> values[k]
          [] sig[k].name \in ByName \cap DOMAIN keywords -> keywords[sig[k].name]
          [] OTHER -> <<"default", sig[k].name>>
  BY BoundAt
<1>3. CASE sig[k].kind = "varkw"
  <2>1. sig[k].kind # "varpos" /\ sig[k].kind # "positional" /\ sig[k].name \notin ByName
    BY <1>1, <1>3
  <2> QED
    BY <1>2, <1>3, <2>1, Zenon
<1>4. CASE sig[k].kind = "varpos"
  <2>1. sig[k].kind # "varkw" /\ sig[k].kind # "positional" /\ sig[k].name \notin ByName
    BY <1>1, <1>4
  <2> QED
    BY <1>2, <1>4, <2>1, Zenon
<1> QED
  BY <1>3, <1>4

LEMMA BoundPositional ==
  ASSUME sig \in Signatures, NEW values, NEW keywords, NEW k \in Positions,
         sig[k].kind = "positional"
  PROVE  Bound(values, keywords)[sig[k].name] =
           IF k <= Len(values) THEN values[k] ELSE <<"default", sig[k].name>>
<1>1. sig[k].name \notin ByName
  BY ByNameIff
<1> QED
  BY <1>1, BoundAt

LEMMA BoundByKeyword ==
  ASSUME sig \in Signatures, NEW values, NEW keywords, NEW k \in Positions,
         sig[k].kind = "any" \/ sig[k].kind = "keyword"
  PROVE  Bound(values, keywords)[sig[k].name] =
           IF sig[k].name \in DOMAIN keywords THEN keywords[sig[k].name]
           ELSE <<"default", sig[k].name>>
<1>1. sig[k].name \in ByName
  BY ByNameIff
<1>2. Bound(values, keywords)[sig[k].name] =
        CASE sig[k].kind = "varkw" -> Spread(keywords)
          [] sig[k].kind = "varpos" -> <<"rest", None>>
          [] sig[k].kind = "positional" /\ k <= Len(values) -> values[k]
          [] sig[k].name \in ByName \cap DOMAIN keywords -> keywords[sig[k].name]
          [] OTHER -> <<"default", sig[k].name>>
  BY BoundAt
<1> QED
  BY <1>1, <1>2

LEMMA BoundDomain ==
  \A values, keywords : DOMAIN Bound(values, keywords) = {p.name : p \in ToSet(sig)}
BY DEF Bound

\* What a wrapper offers under a name is what the name stands for.
LEMMA OfferedIs ==
  ASSUME moment \in {"pre", "post", "error"}
  PROVE  /\ \A n \in DOMAIN Offered :
              Offered[n] = Stands(n) /\ \E x : Offered[n] \in {<<"argument", x>>, <<"outcome", x>>}
         /\ \A n : n \notin DOMAIN Offered => Stands(n) = <<"default", n>>
<1>1. CASE moment = "pre"
  BY <1>1 DEF Offered, Context, Stands
<1>2. CASE moment = "post"
  <2>1. Offered = [n \in args \cup {"ret", "result"} |->
                     IF n = "ret" \/ n \notin args THEN Result ELSE <<"argument", n>>]
    BY <1>2 DEF Offered, Context, PostContext
  <2>2. \A n : Stands(n) = IF n = "ret" \/ (n = "result" /\ "result" \notin args) THEN Result
                          ELSE IF n \in args THEN <<"argument", n>> ELSE <<"default", n>>
    BY <1>2 DEF Stands
  <2> QED
    BY <2>1, <2>2 DEF Result
<1>3. CASE moment = "error"
  <2>1. Offered = [n \in args \cup {"exc", "error"} |->
                     IF n \in {"exc", "error"} THEN Exception ELSE <<"argument", n>>]
    BY <1>3 DEF Offered, Context, ErrorContext
  <2>2. \A n : Stands(n) = IF n \in {"exc", "error"} THEN Exception
                          ELSE IF n \in args THEN <<"argument", n>> ELSE <<"default", n>>
    BY <1>3 DEF Stands
  <2> QED
    BY <2>1, <2>2 DEF Exception
<1> QED
  BY <1>1, <1>2, <1>3

\* The parameter of a name that is offered gets what is offered, any other its
\* default, if no value can slide.
LEMMA BoundInPlace ==
  ASSUME sig \in Signatures, NEW available, NEW keywords,
         \A k \in Chosen(available) : 1 .. k \subseteq Chosen(available),
         \A k \in Positions : sig[k].kind \in {"any", "keyword"} =>
           /\ sig[k].name \in DOMAIN keywords <=> sig[k].name \in DOMAIN available
           /\ sig[k].name \in DOMAIN keywords => keywords[sig[k].name] = available[sig[k].name],
         NEW k \in Positions, Named(sig[k])
  PROVE  Bound(Positionals(available), keywords)[sig[k].name] =
           IF sig[k].name \in DOMAIN available THEN available[sig[k].name]
           ELSE <<"default", sig[k].name>>
<1> DEFINE values == Positionals(available)
<1>1. Len(values) \in Nat
  BY PositionalsAre
<1>2. CASE sig[k].kind = "positional"
  <2>1. k \in Chosen(available) <=> sig[k].name \in DOMAIN available
    BY <1>2 DEF Chosen
  <2>2. /\ k \in Chosen(available) <=> k <= Len(values)
        /\ k \in Chosen(available) => values[k] = available[sig[k].name]
    BY PositionalsAre
  <2>3. Bound(values, keywords)[sig[k].name] =
          IF k <= Len(values) THEN values[k] ELSE <<"default", sig[k].name>>
    BY <1>2, BoundPositional
  <2> QED
    BY <2>1, <2>2, <2>3
<1>3. CASE sig[k].kind \in {"any", "keyword"}
  <2>1. Bound(values, keywords)[sig[k].name] =
          IF sig[k].name \in DOMAIN keywords THEN keywords[sig[k].name]
          ELSE <<"default", sig[k].name>>
    BY <1>3, BoundByKeyword
  <2> QED
    BY <1>3, <2>1
<1> QED
  BY <1>2, <1>3 DEF Named

LEMMA KeywordsAre ==
  ASSUME sig \in Signatures, NEW available
  PROVE  /\ \A k \in Positions : sig[k].kind \in {"any", "keyword"} =>
              /\ sig[k].name \in DOMAIN Keywords(available) <=> sig[k].name \in DOMAIN available
              /\ sig[k].name \in DOMAIN Keywords(available) =>
                   Keywords(available)[sig[k].name] = available[sig[k].name]
         /\ \A n \in DOMAIN Keywords(available) :
              n \in DOMAIN available /\ Keywords(available)[n] = available[n]
         /\ (\E k \in Positions : sig[k].kind = "varkw") => DOMAIN Keywords(available) = DOMAIN available
<1>1. (\E p \in ToSet(sig) : p.kind = "varkw") <=> \E k \in Positions : sig[k].kind = "varkw"
  BY SignatureTyped
<1>2. \A k \in Positions : sig[k].name \in ByName <=> sig[k].kind \in {"any", "keyword"}
  BY ByNameIff
<1> QED
  BY <1>1, <1>2 DEF Keywords
----------------------------------------------------------------------------
(* What stays as it is *)

fixed == <<sig, note, args, moment, raw>>
Taken(available) == Bound(Positionals(available), Keywords(available))

LEMMA Fixed ==
  ASSUME UNCHANGED fixed
  PROVE  /\ Offered' = Offered
         /\ Verdict' = Verdict
         /\ ByName' = ByName
         /\ \A available : Fails(available)' = Fails(available)
         /\ \A available : Positionals(available)' = Positionals(available)
         /\ \A available : Keywords(available)' = Keywords(available)
         /\ \A values, keywords : Bound(values, keywords)' = Bound(values, keywords)
<1>0. sig' = sig /\ note' = note /\ args' = args /\ moment' = moment /\ raw' = raw
  BY DEF fixed
<1>1. Offered' = Offered
  BY <1>0 DEF Offered, Context, PostContext, ErrorContext
<1>2. Verdict' = Verdict
  BY <1>0 DEF Verdict
<1>3. ByName' = ByName
  BY <1>0 DEF ByName
<1>4. \A available : Fails(available)' = Fails(available)
  BY <1>0 DEF Fails
<1>5. \A available : Positionals(available)' = Positionals(available)
  BY <1>0 DEF Positionals
<1>6. \A available : Keywords(available)' = Keywords(available)
  BY <1>0, <1>3 DEF Keywords
<1>7. \A values, keywords : Bound(values, keywords)' = Bound(values, keywords)
  BY <1>0, <1>3 DEF Bound
<1> QED
  BY <1>1, <1>2, <1>3, <1>4, <1>5, <1>6, <1>7

LEMMA FixedTaken ==
  ASSUME UNCHANGED fixed
  PROVE  \A available : Taken(available)' = Taken(available)
BY Fixed DEF Taken

LEMMA FixedOffered ==
  ASSUME UNCHANGED fixed
  PROVE  Taken(Offered)' = Taken(Offered) /\ Fails(Offered)' = Fails(Offered)
BY Fixed DEF Taken
----------------------------------------------------------------------------
(* What parameters get *)

\* No positional-only parameter that goes without stands before one that does
\* not.
InPlace(available) == \A k \in Chosen(available) : 1 .. k \subseteq Chosen(available)

LEMMA NoGap ==
  ASSUME sig \in Signatures, ~Gap
  PROVE  InPlace(Offered)
<1> SUFFICES ASSUME NEW k \in Chosen(Offered), NEW j \in 1 .. k
             PROVE  j \in Chosen(Offered)
  BY DEF InPlace
<1>1. k \in Positions /\ sig[k].kind = "positional" /\ sig[k].name \in DOMAIN Offered
  BY DEF Chosen
<1>2. j \in Positions /\ (j < k \/ j = k)
  BY <1>1, SignatureTyped DEF Positions
<1>3. sig[j].kind = "positional"
  BY <1>1, <1>2, SignatureOrder
<1>4. sig[j].name \in DOMAIN Offered
  BY <1>1, <1>2 DEF Gap, Positions
<1> QED
  BY <1>2, <1>3, <1>4 DEF Chosen

\* What _invoke hands to a parameter that has a name.
LEMMA TakenInPlace ==
  ASSUME sig \in Signatures, NEW available, InPlace(available),
         NEW k \in Positions, Named(sig[k])
  PROVE  Taken(available)[sig[k].name] =
           IF sig[k].name \in DOMAIN available THEN available[sig[k].name]
           ELSE <<"default", sig[k].name>>
BY KeywordsAre, BoundInPlace DEF Taken, InPlace

\* A call that _invoke makes binds every parameter that has no default.
LEMMA WrapperBinds ==
  ASSUME sig \in Signatures, moment \in {"pre", "post", "error"}, ~Fails(Offered),
         NEW k \in Positions,
         Taken(Offered)[sig[k].name] = <<"default", sig[k].name>>
  PROVE  sig[k].optional
<1> DEFINE values == Positionals(Offered)
<1>1. \A n \in DOMAIN Offered : \A m : Offered[n] # <<"default", m>>
  BY OfferedIs
<1>2. \A j \in Positions : Named(sig[j]) /\ sig[j].name \notin DOMAIN Offered => sig[j].optional
  BY SignatureTyped DEF Fails
<1>3. CASE sig[k].kind = "positional"
  <2>1. /\ Len(values) \in Nat
        /\ \A n \in 1 .. Len(values) : \E j \in Chosen(Offered) : values[n] = Offered[sig[j].name]
        /\ 1 .. k \subseteq Chosen(Offered) => k <= Len(values)
    BY PositionalsAre
  <2>2. Taken(Offered)[sig[k].name] =
          IF k <= Len(values) THEN values[k] ELSE <<"default", sig[k].name>>
    BY <1>3, BoundPositional DEF Taken
  <2>3. k \in Nat /\ k >= 1 /\ k <= Len(sig) /\ Len(sig) \in Nat
    BY SignatureTyped DEF Positions
  <2>4. ~(k <= Len(values))
    <3> SUFFICES ASSUME k <= Len(values) PROVE FALSE
      OBVIOUS
    <3>1. PICK j \in Chosen(Offered) : values[k] = Offered[sig[j].name]
      BY <2>1, <2>3
    <3>2. sig[j].name \in DOMAIN Offered
      BY DEF Chosen
    <3> QED
      BY <1>1, <2>2, <3>1, <3>2
  <2>5. PICK j \in 1 .. k : j \notin Chosen(Offered)
    BY <2>1, <2>4
  <2>6. j \in Positions /\ (j < k \/ j = k)
    BY <2>3 DEF Positions
  <2>7. sig[j].kind = "positional" /\ (sig[j].optional => sig[k].optional)
    BY <1>3, <2>6, SignatureOrder
  <2>8. sig[j].name \notin DOMAIN Offered
    BY <2>5, <2>6, <2>7 DEF Chosen
  <2> QED
    BY <1>2, <2>6, <2>7, <2>8 DEF Named
<1>4. CASE sig[k].kind \in {"any", "keyword"}
  <2>1. Taken(Offered)[sig[k].name] =
          IF sig[k].name \in DOMAIN Keywords(Offered) THEN Keywords(Offered)[sig[k].name]
          ELSE <<"default", sig[k].name>>
    BY <1>4, BoundByKeyword DEF Taken
  <2>2. sig[k].name \notin DOMAIN Offered
    BY <1>1, <1>4, <2>1, KeywordsAre
  <2> QED
    BY <1>2, <1>4, <2>2 DEF Named
<1> QED
  BY <1>3, <1>4, SignatureOrder DEF Named, Variable

\* What a helper hands over has a value for every parameter.
LEMMA PreparedInPlace ==
  ASSUME sig \in Signatures, NEW names
  PROVE  /\ DOMAIN Prepared(names) = {p.name : p \in ToSet(sig)}
         /\ \A k \in Positions : sig[k].name \in DOMAIN Prepared(names)
         /\ InPlace(Prepared(names))
<1>1. DOMAIN Prepared(names) = {p.name : p \in ToSet(sig)}
  BY BoundDomain DEF Prepared
<1>2. \A k \in Positions : sig[k].name \in DOMAIN Prepared(names)
  BY <1>1, SignatureTyped
<1>3. ASSUME NEW k \in Chosen(Prepared(names)), NEW j \in 1 .. k
      PROVE  j \in Chosen(Prepared(names))
  <2>1. k \in Positions /\ sig[k].kind = "positional"
    BY DEF Chosen
  <2>2. j \in Positions /\ (j < k \/ j = k)
    BY <2>1, SignatureTyped DEF Positions
  <2>3. sig[j].kind = "positional"
    BY <2>1, <2>2, SignatureOrder
  <2> QED
    BY <1>2, <2>2, <2>3 DEF Chosen
<1> QED
  BY <1>1, <1>2, <1>3 DEF InPlace

LEMMA HelperBinds ==
  ASSUME sig \in Signatures, NEW names, Binds(names), NEW k \in Positions,
         Taken(Prepared(names))[sig[k].name] = <<"default", sig[k].name>>
  PROVE  sig[k].optional
<1>1. CASE Named(sig[k])
  <2>1. Prepared(names)[sig[k].name] = <<"default", sig[k].name>>
    BY <1>1, PreparedInPlace, TakenInPlace
  <2> QED
    BY <2>1, SignatureTyped DEF Binds
<1>2. CASE ~Named(sig[k])
  BY <1>2, SignatureOrder DEF Variable
<1> QED
  BY <1>1, <1>2
----------------------------------------------------------------------------
(* The invariant: what has been answered, and about which values *)

Invoked(who, available) ==
  /\ answer[who] = IF Fails(available) THEN "violation" ELSE Verdict
  /\ taken[who] = IF Fails(available) THEN None ELSE Taken(available)

Inputs ==
  /\ sig \in Signatures /\ note \in Notes /\ args \in ArgumentSets
  /\ moment \in {"pre", "post", "error"} /\ raw \in {"truthy", "none", "raises"}
Shape ==
  /\ taken = [who \in Callers |-> taken[who]]
  /\ answer = [who \in Callers |-> answer[who]]
WrapperAnswer ==
  IF answer["wrapper"] = "pending" THEN taken["wrapper"] = None ELSE Invoked("wrapper", Offered)
HelperAnswer ==
  IF answer["helper"] \in {"pending", "rejected"} THEN taken["helper"] = None
  ELSE Binds(passed) /\ Invoked("helper", Prepared(passed))

IInv == Inputs /\ Shape /\ passed \subseteq DOMAIN Offered /\ WrapperAnswer /\ HelperAnswer

LEMMA VerdictIs == Verdict \in {"pass", "violation"}
BY DEF Verdict

LEMMA FixedPrepared ==
  ASSUME UNCHANGED fixed
  PROVE  /\ \A names : Prepared(names)' = Prepared(names)
         /\ \A names : Binds(names)' = Binds(names)
<1>0. sig' = sig
  BY DEF fixed
<1>1. \A names : Values(names)' = Values(names)
  BY Fixed DEF Values
<1>2. \A names : Prepared(names)' = Prepared(names)
  BY <1>0, <1>1, Fixed DEF Prepared, HelperNames
<1>3. \A names : Binds(names)' = Binds(names)
  BY <1>0, <1>2 DEF Binds, HelperNames
<1> QED
  BY <1>2, <1>3

LEMMA InitAnswers == Init => IInv
BY DEF Init, IInv, Inputs, Shape, WrapperAnswer, HelperAnswer, Callers

LEMMA CheckAnswers == IInv /\ Check => IInv'
<1> SUFFICES ASSUME IInv, Check PROVE IInv'
  OBVIOUS
<1>1. UNCHANGED fixed /\ passed' = passed
  BY DEF Check, fixed
<1>2. Inputs' /\ (passed \subseteq DOMAIN Offered)'
  BY <1>1, Fixed DEF IInv, Inputs, fixed
<1>3. Shape'
  BY DEF IInv, Shape, Check, Invoke, Callers
<1>4. WrapperAnswer'
  <2>1. /\ answer'["wrapper"] = IF Fails(Offered) THEN "violation" ELSE Verdict
        /\ taken'["wrapper"] = IF Fails(Offered) THEN None ELSE Taken(Offered)
    BY DEF IInv, Shape, Check, Invoke, Callers, Taken
  <2>2. Invoked("wrapper", Offered)'
    BY <1>1, <2>1, Fixed, FixedOffered DEF Invoked, None
  <2> QED
    BY <2>1, <2>2, VerdictIs DEF WrapperAnswer
<1>5. HelperAnswer'
  <2>1. answer'["helper"] = answer["helper"] /\ taken'["helper"] = taken["helper"]
    BY DEF IInv, Shape, Check, Invoke, Callers
  <2>2. Prepared(passed)' = Prepared(passed) /\ Binds(passed)' = Binds(passed)
    BY <1>1, FixedPrepared
  <2>3. Invoked("helper", Prepared(passed)) => Invoked("helper", Prepared(passed))'
    BY <1>1, <2>1, <2>2, Fixed, FixedTaken DEF Invoked, None
  <2> QED
    BY <2>1, <2>2, <2>3 DEF IInv, HelperAnswer, None
<1> QED
  BY <1>2, <1>3, <1>4, <1>5 DEF IInv

LEMMA CollectAnswers ==
  ASSUME IInv, NEW names \in SUBSET DOMAIN Offered, CollectViolations(names)
  PROVE  IInv'
<1>1. UNCHANGED fixed /\ passed' = names
  BY DEF CollectViolations, fixed
<1>2. Inputs' /\ (passed \subseteq DOMAIN Offered)'
  BY <1>1, Fixed DEF IInv, Inputs, fixed
<1>3. Shape'
  BY DEF IInv, Shape, CollectViolations, Invoke, Callers
<1>4. WrapperAnswer'
  <2>1. answer'["wrapper"] = answer["wrapper"] /\ taken'["wrapper"] = taken["wrapper"]
    BY DEF IInv, Shape, CollectViolations, Invoke, Callers
  <2>2. Invoked("wrapper", Offered) => Invoked("wrapper", Offered)'
    BY <1>1, <2>1, Fixed, FixedOffered DEF Invoked, None
  <2> QED
    BY <2>1, <2>2 DEF IInv, WrapperAnswer, None
<1>5. HelperAnswer'
  <2>1. Prepared(passed)' = Prepared(names) /\ Binds(passed)' = Binds(names)
    BY <1>1, FixedPrepared
  <2>2. CASE Binds(names) /\ Invoke("helper", Prepared(names))
    <3>1. /\ answer'["helper"] = IF Fails(Prepared(names)) THEN "violation" ELSE Verdict
          /\ taken'["helper"] = IF Fails(Prepared(names)) THEN None ELSE Taken(Prepared(names))
      BY <2>2 DEF IInv, Shape, Invoke, Callers, Taken
    <3>2. Invoked("helper", Prepared(passed))'
      BY <1>1, <2>1, <3>1, Fixed, FixedTaken DEF Invoked, None
    <3> QED
      BY <2>1, <2>2, <3>1, <3>2, VerdictIs DEF HelperAnswer
  <2>3. CASE ~Binds(names) /\ answer' = [answer EXCEPT !["helper"] = "rejected"] /\ UNCHANGED taken
    BY <2>3 DEF IInv, Shape, Callers, HelperAnswer, CollectViolations, None
  <2> QED
    BY <2>2, <2>3 DEF CollectViolations
<1> QED
  BY <1>2, <1>3, <1>4, <1>5 DEF IInv

LEMMA NextAnswers == IInv /\ [Next]_vars => IInv'
<1> SUFFICES ASSUME IInv, [Next]_vars PROVE IInv'
  OBVIOUS
<1>1. CASE Check
  BY <1>1, CheckAnswers
<1>2. ASSUME NEW names \in SUBSET DOMAIN Offered, CollectViolations(names)
      PROVE  IInv'
  BY <1>2, CollectAnswers
<1>3. ASSUME NEW n \in DOMAIN Offered, ValidatePayload(n)
      PROVE  IInv'
  <2>1. {n} \in SUBSET DOMAIN Offered /\ CollectViolations({n})
    BY <1>3 DEF ValidatePayload
  <2> QED
    BY <2>1, CollectAnswers
<1>4. CASE UNCHANGED vars
  <2>1. UNCHANGED fixed /\ passed' = passed /\ taken' = taken /\ answer' = answer
    BY <1>4 DEF vars, fixed
  <2>2. Inputs' /\ Shape' /\ (passed \subseteq DOMAIN Offered)'
    BY <2>1, Fixed DEF IInv, Inputs, Shape, fixed
  <2>3. WrapperAnswer'
    <3>1. Invoked("wrapper", Offered) => Invoked("wrapper", Offered)'
      BY <2>1, Fixed, FixedOffered DEF Invoked, None
    <3> QED
      BY <2>1, <3>1 DEF IInv, WrapperAnswer, None
  <2>4. HelperAnswer'
    <3>1. Prepared(passed)' = Prepared(passed) /\ Binds(passed)' = Binds(passed)
      BY <2>1, FixedPrepared
    <3>2. Invoked("helper", Prepared(passed)) => Invoked("helper", Prepared(passed))'
      BY <2>1, <3>1, Fixed, FixedTaken DEF Invoked, None
    <3> QED
      BY <2>1, <3>1, <3>2 DEF IInv, HelperAnswer, None
  <2> QED
    BY <2>2, <2>3, <2>4 DEF IInv
<1> QED
  BY <1>1, <1>2, <1>3, <1>4 DEF Next

LEMMA AnswersHold == Spec => []IInv
BY InitAnswers, NextAnswers, PTL DEF Spec
----------------------------------------------------------------------------
(* The theorems *)

\* Every call of a predicate, by a wrapper or by a helper, binds all of its
\* parameters and leaves only optional ones to their defaults; nothing is
\* bound that the signature does not have (_invoke's TypeErrors come first).
THEOREM TypeCorrect == Spec => []TypeOK
<1>1. ASSUME IInv PROVE TypeOK
  <2>1. answer \in [Callers -> Answers]
    <3>1. answer["wrapper"] \in Answers /\ answer["helper"] \in Answers
      BY <1>1, VerdictIs DEF IInv, WrapperAnswer, HelperAnswer, Invoked, Answers
    <3> QED
      BY <1>1, <3>1 DEF IInv, Shape, Callers
  <2>2. ASSUME NEW who \in Callers, taken[who] # None
        PROVE  /\ DOMAIN taken[who] = {p.name : p \in ToSet(sig)}
               /\ \A p \in ToSet(sig) : taken[who][p.name] = <<"default", p.name>> => p.optional
    <3>1. CASE who = "wrapper"
      <4>1. ~Fails(Offered) /\ taken[who] = Taken(Offered)
        BY <1>1, <2>2, <3>1 DEF IInv, WrapperAnswer, Invoked
      <4>2. \A k \in Positions :
              taken[who][sig[k].name] = <<"default", sig[k].name>> => sig[k].optional
        BY <1>1, <4>1, WrapperBinds DEF IInv, Inputs
      <4> QED
        BY <1>1, <4>1, <4>2, BoundDomain, SignatureTyped DEF IInv, Inputs, Taken
    <3>2. CASE who = "helper"
      <4>1. Binds(passed) /\ taken[who] = Taken(Prepared(passed))
        BY <1>1, <2>2, <3>2 DEF IInv, HelperAnswer, Invoked
      <4>2. \A k \in Positions :
              taken[who][sig[k].name] = <<"default", sig[k].name>> => sig[k].optional
        BY <1>1, <4>1, HelperBinds DEF IInv, Inputs
      <4> QED
        BY <1>1, <4>1, <4>2, BoundDomain, SignatureTyped DEF IInv, Inputs, Taken
    <3> QED
      BY <2>2, <3>1, <3>2 DEF Callers
  <2> QED
    BY <1>1, <2>1, <2>2 DEF TypeOK, IInv, Inputs
<1> QED
  BY <1>1, AnswersHold, PTL

\* A predicate that a wrapper calls gets, whatever its signature, in each
\* parameter what the name of the parameter stands for, and all the rest in its
\* **kwargs, unless a positional-only parameter that is not offered makes
\* values slide (_invoke, _post_context, _matches_error_contract).
THEOREM NamesDecide == Spec => []BoundByName
<1>1. ASSUME IInv PROVE BoundByName
  <2> SUFFICES ASSUME taken["wrapper"] # None, ~Gap, NEW k \in Positions
               PROVE  LET value == taken["wrapper"][sig[k].name] IN
                        /\ Named(sig[k]) => value = Stands(sig[k].name)
                        /\ sig[k].kind = "varkw" =>
                             \A n \in DOMAIN Offered \ ByName :
                               n \in DOMAIN value[2] /\ value[2][n] = Stands(n)
    BY <1>1, SignatureTyped DEF BoundByName, IInv, Inputs
  <2>1. sig \in Signatures /\ moment \in {"pre", "post", "error"}
    BY <1>1 DEF IInv, Inputs
  <2>2. taken["wrapper"] = Taken(Offered)
    BY <1>1 DEF IInv, WrapperAnswer, Invoked
  <2>3. /\ \A n \in DOMAIN Offered : Offered[n] = Stands(n)
        /\ \A n : n \notin DOMAIN Offered => Stands(n) = <<"default", n>>
    BY <2>1, OfferedIs
  <2>4. Named(sig[k]) => Taken(Offered)[sig[k].name] = Stands(sig[k].name)
    <3>1. InPlace(Offered)
      BY <2>1, NoGap
    <3> QED
      BY <2>1, <2>3, <3>1, TakenInPlace
  <2>5. ASSUME sig[k].kind = "varkw"
        PROVE  \A n \in DOMAIN Offered \ ByName :
                 /\ n \in DOMAIN Taken(Offered)[sig[k].name][2]
                 /\ Taken(Offered)[sig[k].name][2][n] = Stands(n)
    <3>1. Taken(Offered)[sig[k].name] = Spread(Keywords(Offered))
      BY <2>1, <2>5, BoundVariable DEF Taken
    <3>2. /\ DOMAIN Keywords(Offered) = DOMAIN Offered
          /\ \A n \in DOMAIN Offered : Keywords(Offered)[n] = Offered[n]
      BY <2>1, <2>5, KeywordsAre
    <3> QED
      BY <2>3, <3>1, <3>2 DEF Spread
  <2> QED
    BY <2>2, <2>4, <2>5
<1> QED
  BY <1>1, AnswersHold, PTL

\* What the helper prepares is what the wrapper hands over.
LEMMA PreparedAsOffered ==
  ASSUME sig \in Signatures, passed \subseteq DOMAIN Offered, GivenInFull, ~Gap,
         NEW k \in Positions, Named(sig[k])
  PROVE  Prepared(passed)[sig[k].name] =
           IF sig[k].name \in DOMAIN Offered THEN Offered[sig[k].name]
           ELSE <<"default", sig[k].name>>
<1> DEFINE byPosition == {p.name : p \in {q \in ToSet(sig) : q.kind = "positional"}}
           keywords == Values((passed \ byPosition) \ HelperNames)
<1>1. /\ DOMAIN Values(passed) = passed /\ DOMAIN keywords = passed \ byPosition
      /\ \A n \in passed : Values(passed)[n] = Offered[n]
      /\ \A n \in passed \ byPosition : keywords[n] = Offered[n]
  BY DEF GivenInFull, Values
<1>2. \A j \in Positions : sig[j].name \in passed <=> sig[j].name \in DOMAIN Offered
  BY SignatureTyped DEF GivenInFull
<1>3. Chosen(Values(passed)) = Chosen(Offered)
  BY <1>1, <1>2 DEF Chosen
<1>4. \A j \in Positions : sig[j].name \in byPosition <=> sig[j].kind = "positional"
  BY SignatureTyped, SignatureOrder
<1> HIDE DEF byPosition, keywords
<1>5. Prepared(passed) = Bound(Positionals(Values(passed)), keywords)
  BY DEF Prepared, keywords, byPosition
<1>6. \A j \in Chosen(Values(passed)) : 1 .. j \subseteq Chosen(Values(passed))
  BY <1>3, NoGap DEF InPlace
<1>7. \A j \in Positions : sig[j].kind \in {"any", "keyword"} =>
        /\ sig[j].name \in DOMAIN keywords <=> sig[j].name \in DOMAIN Values(passed)
        /\ sig[j].name \in DOMAIN keywords => keywords[sig[j].name] = Values(passed)[sig[j].name]
  BY <1>1, <1>4
<1>8. Bound(Positionals(Values(passed)), keywords)[sig[k].name] =
        IF sig[k].name \in DOMAIN Values(passed) THEN Values(passed)[sig[k].name]
        ELSE <<"default", sig[k].name>>
  BY <1>6, <1>7, BoundInPlace
<1> QED
  BY <1>1, <1>2, <1>5, <1>8

\* A helper of testing.py that is given what the predicate asks for finds what
\* the wrapper finds and hands the predicate the same values, for every
\* signature without **kwargs in which no value slides.
THEOREM HelperFindsTheSame == Spec => []HelperAgrees
<1>1. ASSUME IInv PROVE HelperAgrees
  <2> SUFFICES ASSUME BothAnswered, GivenInFull, ~Gap, \A p \in ToSet(sig) : p.kind # "varkw"
               PROVE  answer["helper"] = answer["wrapper"] /\ taken["helper"] = taken["wrapper"]
    BY DEF HelperAgrees
  <2> DEFINE prepared == Prepared(passed)
  <2>1. /\ sig \in Signatures /\ moment \in {"pre", "post", "error"}
        /\ passed \subseteq DOMAIN Offered
    BY <1>1 DEF IInv, Inputs
  <2>2. Invoked("wrapper", Offered) /\ Binds(passed) /\ Invoked("helper", prepared)
    BY <1>1 DEF IInv, WrapperAnswer, HelperAnswer, BothAnswered
  <2>3. /\ DOMAIN prepared = {p.name : p \in ToSet(sig)}
        /\ \A k \in Positions : sig[k].name \in DOMAIN prepared
        /\ InPlace(prepared)
    BY <2>1, PreparedInPlace
  <2>4. \A k \in Positions : Named(sig[k]) =>
          prepared[sig[k].name] = IF sig[k].name \in DOMAIN Offered THEN Offered[sig[k].name]
                                  ELSE <<"default", sig[k].name>>
    BY <2>1, PreparedAsOffered
  <2> HIDE DEF prepared
  <2>5. \A k \in Positions : Named(sig[k]) /\ sig[k].name \notin DOMAIN Offered => sig[k].optional
    BY <2>1, <2>2, <2>4, SignatureTyped DEF Binds, prepared
  <2>6. Fails(Offered) <=> Fails(prepared)
    <3>1. Fails(Offered) <=> \E p \in ToSet(sig) : p.kind = "varpos"
      BY <2>1, <2>5, SignatureTyped DEF Fails
    <3>2. Fails(prepared) <=> \E p \in ToSet(sig) : p.kind = "varpos"
      BY <2>1, <2>3, SignatureTyped DEF Fails
    <3> QED
      BY <3>1, <3>2
  <2>7. ASSUME ~Fails(Offered) PROVE Taken(prepared) = Taken(Offered)
    <3>1. \A k \in Positions : Named(sig[k])
      BY <2>1, <2>7, SignatureTyped, SignatureOrder DEF Fails, Named, Kinds
    <3>2. \A k \in Positions : Taken(prepared)[sig[k].name] = prepared[sig[k].name]
      BY <2>1, <2>3, <3>1, TakenInPlace
    <3>3. InPlace(Offered)
      BY <2>1, NoGap
    <3>4. \A k \in Positions : Taken(Offered)[sig[k].name] = prepared[sig[k].name]
      BY <2>1, <2>4, <3>1, <3>3, TakenInPlace
    <3>5. \A n \in {p.name : p \in ToSet(sig)} : Taken(prepared)[n] = Taken(Offered)[n]
      BY <2>1, <3>2, <3>4, SignatureTyped
    <3> QED
      BY <3>5 DEF Taken, Bound
  <2> QED
    BY <2>2, <2>6, <2>7 DEF Invoked, prepared
<1> QED
  BY <1>1, AnswersHold, PTL
\* Findings 10, 12 and 13 have no other causes than the ones they name.  The
\* return value reaches a postcondition as ret, and as result, wherever no
\* argument is called result and no value slides.
ResultUnlessHidden == ~Gap /\ "result" \notin args => ResultIsReturn

\* Finding 10 has these two causes and no other.
COROLLARY ResultReaches == Spec => []ResultUnlessHidden
<1>1. BoundByName => ResultUnlessHidden
  BY DEF BoundByName, ResultUnlessHidden, ResultIsReturn, Stands
<1> QED
  BY <1>1, NamesDecide, PTL

\* A helper agrees with the wrapper on all that is offered unless a value
\* slides, the predicate has **kwargs, or a name is one of the helper's own.
HelperUnlessNamed ==
  ~Gap /\ DOMAIN Offered \cap HelperNames = {} /\ (\A p \in ToSet(sig) : p.kind # "varkw")
    => HelperAlwaysAgrees

\* Finding 12 has these causes and no other.
COROLLARY HelperTakesAll == Spec => []HelperUnlessNamed
<1>1. HelperAgrees => HelperUnlessNamed
  BY DEF HelperAgrees, HelperUnlessNamed, HelperAlwaysAgrees, GivenInFull
<1> QED
  BY <1>1, HelperFindsTheSame, PTL

\* What a predicate answers by None is what its annotation says, if the
\* annotation can be read (_predicate_allows_none_success).  Finding 13 needs a
\* text that does not resolve at run time.
THEOREM NoneIsBelieved == Spec => []NoneAsAnnotated
<1>1. ASSUME IInv PROVE NoneAsAnnotated
  <2> SUFFICES ASSUME note.resolves \/ ~note.text \/ (note.spelled <=> note.means = "optional"),
                      raw = "none", answer["wrapper"] # "pending", ~Fails(Offered)
               PROVE  /\ note.means = "optional" => answer["wrapper"] = "pass"
                      /\ note.means = "other" => answer["wrapper"] = "violation"
    BY DEF NoneAsAnnotated
  <2>1. answer["wrapper"] = Verdict
    BY <1>1 DEF IInv, WrapperAnswer, Invoked
  <2>2. /\ note.means = "optional" => AllowsNone(note)
        /\ note.means = "other" => ~AllowsNone(note)
    BY DEF AllowsNone
  <2> QED
    BY <2>1, <2>2 DEF Verdict, Resolve
<1> QED
  BY <1>1, AnswersHold, PTL

----------------------------------------------------------------------------
(* ViolationStore *)

(* Details *)

LEMMA ComposeTyped ==
  ASSUME NEW about \in Subjects \cup {Absent}, NEW kind \in Clauses, NEW given, NEW clause
  PROVE  Compose(about, given, kind, clause) \in Detail
BY DEF Compose, Detail

LEMMA AsGivenTyped ==
  ASSUME NEW about \in Subjects \cup {Absent}, NEW kind \in Clauses, NEW given
  PROVE  AsGiven(about, given, kind) \in Detail
BY DEF AsGiven, Detail

\* A composed detail says what it was given, and everything but the predicate
\* is there.
LEMMA Composed ==
  ASSUME NEW about, NEW kind, NEW given, NEW clause
  PROVE  /\ Compose(about, given, kind, clause).about = about
         /\ Compose(about, given, kind, clause).kind = kind
         /\ \A f \in Fields :
              f \in given <=> Compose(about, given, kind, clause).fields[f] = "given"
         /\ \A f \in Fields \ {"predicate"} :
              Compose(about, given, kind, clause).fields[f] # "unset"
BY DEF Compose

LEMMA ResolveTyped ==
  ASSUME StoreTypeOK, NEW i \in Ids, native[i] # Absent, NEW own \in Detail \cup {Absent}
  PROVE  ResolveDetail(i, own) \in Detail
<1>1. Derived(i) \in Detail
  BY ComposeTyped DEF Derived, StoreTypeOK
<1> QED
  BY <1>1 DEF ResolveDetail, StoreTypeOK

LEMMA UserDetailsTyped == UserDetails \subseteq Detail
  BY AsGivenTyped DEF UserDetails

LEMMA UsedIff ==
  /\ \A i : i \in Used <=> i \in held \/ \E s \in Slots : errors[s] # Absent /\ errors[s].id = i
  /\ \A i : i \in Used' <=> i \in held' \/ \E s \in Slots : errors'[s] # Absent /\ errors'[s].id = i
  BY DEF Used

LEMMA ErrorTyped ==
  ASSUME StoreTypeOK, NEW s \in Slots, errors[s] # Absent
  PROVE  /\ errors[s].id \in Ids /\ errors[s].detail \in Detail
         /\ errors[s].id \in Used /\ native[errors[s].id] \in Clauses
<1>1. errors[s] \in Error
  BY DEF StoreTypeOK
<1>2. errors[s].id \in Ids /\ errors[s].detail \in Detail /\ errors[s].id \in Used
  BY <1>1, UsedIff DEF Error
<1> QED
  BY <1>2 DEF StoreTypeOK
----------------------------------------------------------------------------
(* Types *)

\* What _attach_violation_detail leaves.
LEMMA Attached ==
  ASSUME StoreTypeOK, NEW i \in Ids, NEW detail \in Detail, Attach(i, detail)
  PROVE  /\ store' \in [Ids -> Detail \cup {Absent}] /\ payload' \in [Ids -> Detail \cup {Absent}]
         /\ store'[i] = detail /\ payload'[i] = detail
         /\ \A j \in Ids : j # i => store'[j] = store[j] /\ payload'[j] = payload[j]
         /\ \A j \in Ids : payload'[j] # Absent => payload'[j] = store'[j]
<1>1. /\ store' = [store EXCEPT ![i] = detail] /\ payload' = [payload EXCEPT ![i] = detail]
      /\ store \in [Ids -> Detail \cup {Absent}] /\ payload \in [Ids -> Detail \cup {Absent}]
  BY DEF Attach, StoreTypeOK
<1>2. /\ store' \in [Ids -> Detail \cup {Absent}] /\ payload' \in [Ids -> Detail \cup {Absent}]
      /\ store'[i] = detail /\ payload'[i] = detail
      /\ \A j \in Ids : j # i => store'[j] = store[j] /\ payload'[j] = payload[j]
  BY <1>1
<1> QED
  BY <1>2 DEF StoreTypeOK

\* A new error in a free slot is the only one that changes.
LEMMA Added ==
  ASSUME StoreTypeOK, NEW s \in Slots, NEW i \in Ids, NEW detail \in Detail,
         errors' = [errors EXCEPT ![s] = [id |-> i, detail |-> detail]]
  PROVE  /\ errors' \in [Slots -> Error \cup {Absent}]
         /\ errors'[s] # Absent /\ errors'[s].id = i /\ errors'[s].detail = detail
         /\ \A t \in Slots : t # s => errors'[t] = errors[t]
<1>1. [id |-> i, detail |-> detail] \in Error
  BY DEF Error
<1> QED
  BY <1>1, AbsentAssumption DEF StoreTypeOK

LEMMA RaiseTyped ==
  ASSUME StoreTypeOK, NEW s \in Slots, NEW i \in Ids, NEW kind \in Clauses,
         NEW about \in Subjects \cup {Absent}, NEW given \in GivenFields, NEW clause \in BOOLEAN,
         Raise(s, i, kind, about, given, clause)
  PROVE  StoreTypeOK'
<1> DEFINE detail == Compose(about, given, kind, clause)
<1>1. detail \in Detail
  BY ComposeTyped
<1>2. /\ Attach(i, detail) /\ errors' = [errors EXCEPT ![s] = [id |-> i, detail |-> detail]]
      /\ native' = [native EXCEPT ![i] = kind] /\ held' = held
      /\ raised' = [raised EXCEPT ![s] = [about |-> about, given |-> given]]
  BY DEF Raise
<1> HIDE DEF detail
<1>3. /\ native' \in [Ids -> Clauses \cup {Absent}] /\ raised' \in [Slots -> Origin \cup {Absent}]
      /\ native'[i] = kind /\ \A j \in Ids : j # i => native'[j] = native[j]
  BY <1>2 DEF StoreTypeOK, Origin
<1>4. \A j \in Used' : native'[j] # Absent
  <2> SUFFICES ASSUME NEW j \in Used', j # i PROVE native'[j] # Absent
    BY <1>3, SubjectsAssumption
  <2>1. j \in Used
    BY <1>1, <1>2, Added, UsedIff
  <2>2. j \in Ids
    BY <2>1, UsedIff, ErrorTyped DEF StoreTypeOK
  <2> QED
    BY <1>3, <2>1, <2>2 DEF StoreTypeOK
<1> QED
  BY <1>1, <1>2, <1>3, <1>4, Attached, Added DEF StoreTypeOK

LEMMA NativeTyped ==
  ASSUME StoreTypeOK, NEW i \in Ids, NEW kind \in Clauses, Native(i, kind)
  PROVE  StoreTypeOK'
<1>1. /\ native' \in [Ids -> Clauses \cup {Absent}] /\ payload' \in [Ids -> Detail \cup {Absent}]
      /\ native'[i] = kind /\ \A j \in Ids : j # i => native'[j] = native[j]
      /\ payload'[i] = Absent /\ \A j \in Ids : j # i => payload'[j] = payload[j]
  BY DEF Native, StoreTypeOK
<1>2. \A j \in Ids : payload'[j] # Absent => payload'[j] = store'[j]
  BY <1>1 DEF Native, StoreTypeOK
<1>3. \A j \in Used' : native'[j] # Absent
  <2> SUFFICES ASSUME NEW j \in Used', j # i PROVE native'[j] # Absent
    BY <1>1, SubjectsAssumption
  <2>1. j \in Used
    BY UsedIff DEF Native
  <2>2. j \in Ids
    BY <2>1, UsedIff, ErrorTyped DEF StoreTypeOK
  <2> QED
    BY <1>1, <2>1, <2>2 DEF StoreTypeOK
<1> QED
  BY <1>1, <1>2, <1>3 DEF Native, StoreTypeOK

LEMMA WrapTyped ==
  ASSUME StoreTypeOK, NEW s \in Slots, NEW i \in Ids, NEW own \in UserDetails \cup {Absent},
         Wrap(s, i, own)
  PROVE  ResolveDetail(i, own) \in Detail /\ StoreTypeOK'
<1>1. ResolveDetail(i, own) \in Detail
  BY ResolveTyped, UserDetailsTyped DEF Wrap, StoreTypeOK
<1>2. /\ Attach(i, ResolveDetail(i, own)) /\ UNCHANGED <<native, held, raised>> /\ i \in Used
      /\ errors' = [errors EXCEPT ![s] = [id |-> i, detail |-> ResolveDetail(i, own)]]
  BY DEF Wrap
<1>3. Used' \subseteq Used
  BY <1>1, <1>2, Added, UsedIff
<1> QED
  BY <1>1, <1>2, <1>3, Attached, Added DEF StoreTypeOK

LEMMA NextTyped ==
  ASSUME StoreTypeOK, [StoreNext]_storeVars
  PROVE  StoreTypeOK'
<1>1. ASSUME NEW s \in Slots, Hold(s)
      PROVE  StoreTypeOK'
  <2>1. errors[s].id \in Ids /\ errors[s].id \in Used /\ UNCHANGED <<native, store, payload, errors, raised>>
    BY <1>1, ErrorTyped DEF Hold
  <2>2. held' = held \cup {errors[s].id}
    BY <1>1 DEF Hold
  <2>3. Used' \subseteq Used
    BY <2>1, <2>2, UsedIff
  <2> QED
    BY <2>1, <2>2, <2>3 DEF StoreTypeOK
<1>2. ASSUME NEW s \in Slots, Handle(s)
      PROVE  StoreTypeOK'
  <2>1. /\ errors' = [errors EXCEPT ![s] = Absent] /\ raised' = [raised EXCEPT ![s] = Absent]
        /\ UNCHANGED <<native, store, payload, held>>
    BY <1>2 DEF Handle
  <2>2. /\ errors' \in [Slots -> Error \cup {Absent}] /\ raised' \in [Slots -> Origin \cup {Absent}]
        /\ \A t \in Slots : errors'[t] # Absent => errors'[t] = errors[t]
    BY <2>1 DEF StoreTypeOK
  <2>3. Used' \subseteq Used
    BY <2>1, <2>2, UsedIff
  <2> QED
    BY <2>1, <2>2, <2>3 DEF StoreTypeOK
<1>3. ASSUME NEW i \in Ids, Release(i)
      PROVE  StoreTypeOK'
  <2>1. held' = held \ {i} /\ UNCHANGED <<native, store, payload, errors, raised>>
    BY <1>3 DEF Release
  <2>2. Used' \subseteq Used
    BY <2>1, UsedIff
  <2> QED
    BY <2>1, <2>2 DEF StoreTypeOK
<1>4. CASE UNCHANGED storeVars
  BY <1>4 DEF storeVars, StoreTypeOK, Used
<1> QED
  BY <1>1, <1>2, <1>3, <1>4, RaiseTyped, NativeTyped, WrapTyped DEF StoreNext

\* The dictionary and the attributes hold details and agree where both have
\* one, also for addresses that are used again.
THEOREM StoreTypeCorrect == StoreSpec => []StoreTypeOK
<1>1. StoreInit => StoreTypeOK
  BY DEF StoreInit, StoreTypeOK, Used
<1> QED
  BY <1>1, NextTyped, PTL DEF StoreSpec
----------------------------------------------------------------------------
(* What errors show *)

\* The detail an error keeps is the stored one and the one in the attribute of
\* its violation: all errors about one violation have the same.
OneDetail ==
  \A s \in Slots : errors[s] # Absent =>
    store[errors[s].id] = errors[s].detail /\ payload[errors[s].id] = errors[s].detail

\* An error of the library has the detail it was raised with.
AsRaised(s) ==
  \E clause \in BOOLEAN :
    errors[s].detail = Compose(raised[s].about, raised[s].given, native[errors[s].id], clause)

KeptAsRaised ==
  \A s \in Slots : raised[s] # Absent => errors[s] # Absent /\ AsRaised(s)

LEMMA AsRaisedKept ==
  ASSUME NEW s, errors'[s] = errors[s], raised'[s] = raised[s],
         native'[errors[s].id] = native[errors[s].id], AsRaised(s)
  PROVE  AsRaised(s)'
BY DEF AsRaised

\* A violation that an error refers to keeps its address to itself.
LEMMA OthersKeep ==
  ASSUME StoreTypeOK, NEW i \in Ids, i \notin Used, NEW s \in Slots, errors[s] # Absent
  PROVE  errors[s].id # i /\ errors[s].id \in Ids
BY ErrorTyped

LEMMA StillOne ==
  ASSUME ~Rewraps, StoreTypeOK, OneDetail, [StoreNext]_storeVars
  PROVE  OneDetail'
<1>1. ASSUME NEW i \in Ids, NEW s \in Slots, NEW detail \in Detail, Attach(i, detail),
             errors' = [errors EXCEPT ![s] = [id |-> i, detail |-> detail]],
             \A t \in Slots : errors[t] # Absent /\ errors[t].id = i => errors[t].detail = detail
      PROVE  OneDetail'
  <2> SUFFICES ASSUME NEW t \in Slots, errors'[t] # Absent
               PROVE  /\ store'[errors'[t].id] = errors'[t].detail
                      /\ payload'[errors'[t].id] = errors'[t].detail
    BY DEF OneDetail
  <2>1. CASE t = s
    <3>1. errors'[s].id = i /\ errors'[s].detail = detail
      BY <1>1, Added
    <3>2. store'[i] = detail /\ payload'[i] = detail
      BY <1>1, Attached
    <3> QED
      BY <2>1, <3>1, <3>2
  <2>2. CASE t # s
    <3>1. errors'[t] = errors[t] /\ errors[t] # Absent
      BY <1>1, <2>2, Added
    <3>2. errors[t].id \in Ids
      BY <3>1, ErrorTyped
    <3>3. CASE errors[t].id = i
      BY <1>1, <3>1, <3>3, Attached
    <3>4. CASE errors[t].id # i
      BY <1>1, <3>1, <3>2, <3>4, Attached DEF OneDetail
    <3> QED
      BY <3>3, <3>4
  <2> QED
    BY <2>1, <2>2
<1>2. ASSUME NEW s \in Slots, NEW i \in Ids, NEW kind \in Clauses,
             NEW about \in Subjects \cup {Absent}, NEW given \in GivenFields, NEW clause \in BOOLEAN,
             Raise(s, i, kind, about, given, clause)
      PROVE  OneDetail'
  <2>1. \A t \in Slots : errors[t] # Absent => errors[t].id # i
    BY <1>2, OthersKeep DEF Raise
  <2> QED
    BY <1>1, <1>2, <2>1, ComposeTyped DEF Raise
<1>3. ASSUME NEW i \in Ids, NEW kind \in Clauses, Native(i, kind)
      PROVE  OneDetail'
  <2>1. \A t \in Slots : errors[t] # Absent => errors[t].id # i /\ errors[t].id \in Ids
    BY <1>3, OthersKeep DEF Native
  <2>2. \A j \in Ids : j # i => payload'[j] = payload[j]
    BY <1>3 DEF Native, StoreTypeOK
  <2>3. store' = store /\ errors' = errors
    BY <1>3 DEF Native
  <2> QED
    BY <2>1, <2>2, <2>3 DEF OneDetail
<1>4. ASSUME NEW s \in Slots, NEW i \in Ids, NEW own \in UserDetails \cup {Absent}, Wrap(s, i, own)
      PROVE  OneDetail'
  <2>1. PICK detail \in Detail : detail = ResolveDetail(i, own)
    BY <1>4, WrapTyped
  <2>2. Attach(i, detail) /\ errors' = [errors EXCEPT ![s] = [id |-> i, detail |-> detail]]
    BY <1>4, <2>1 DEF Wrap
  <2>3. ASSUME NEW t \in Slots, errors[t] # Absent, errors[t].id = i
        PROVE  errors[t].detail = detail
    <3>1. store[i] = errors[t].detail /\ payload[i] = errors[t].detail /\ errors[t].detail # Absent
      BY <2>3, ErrorTyped, AbsentAssumption DEF OneDetail
    <3>2. own = Absent
      BY <1>4, <3>1 DEF Wrap
    <3> QED
      BY <2>1, <3>1, <3>2 DEF ResolveDetail
  <2>4. \A t \in Slots : errors[t] # Absent /\ errors[t].id = i => errors[t].detail = detail
    BY <2>3
  <2> QED
    BY <1>1, <2>2, <2>4, Zenon
<1>5. ASSUME NEW s \in Slots, Hold(s) \/ Handle(s)
      PROVE  OneDetail'
  <2>1. /\ UNCHANGED <<store, payload>>
        /\ \A t \in Slots : errors'[t] # Absent => errors'[t] = errors[t]
    BY <1>5 DEF Hold, Handle, StoreTypeOK
  <2> QED
    BY <2>1 DEF OneDetail
<1>6. ASSUME UNCHANGED <<store, payload, errors>>
      PROVE  OneDetail'
  BY <1>6 DEF OneDetail
<1> QED
  BY <1>2, <1>3, <1>4, <1>5, <1>6 DEF StoreNext, Release, storeVars

LEMMA StillAsRaised ==
  ASSUME StoreTypeOK, KeptAsRaised, [StoreNext]_storeVars
  PROVE  KeptAsRaised'
<1>1. ASSUME NEW t \in Slots, raised[t] # Absent, raised'[t] = raised[t], errors'[t] = errors[t],
             native'[errors[t].id] = native[errors[t].id]
      PROVE  errors'[t] # Absent /\ AsRaised(t)'
  BY <1>1, AsRaisedKept DEF KeptAsRaised
<1>2. ASSUME NEW s \in Slots, NEW i \in Ids, NEW kind \in Clauses,
             NEW about \in Subjects \cup {Absent}, NEW given \in GivenFields, NEW clause \in BOOLEAN,
             Raise(s, i, kind, about, given, clause), NEW t \in Slots, raised'[t] # Absent
      PROVE  errors'[t] # Absent /\ AsRaised(t)'
  <2>1. CASE t = s
    <3> DEFINE detail == Compose(about, given, kind, clause)
    <3>1. raised'[s] = [about |-> about, given |-> given] /\ native'[i] = kind
      BY <1>2 DEF Raise, StoreTypeOK
    <3>2. errors' = [errors EXCEPT ![s] = [id |-> i, detail |-> detail]] /\ detail \in Detail
      BY <1>2, ComposeTyped DEF Raise
    <3> HIDE DEF detail
    <3>3. errors'[s] # Absent /\ errors'[s].id = i /\ errors'[s].detail = detail
      BY <3>2, Added
    <3> QED
      BY <2>1, <3>1, <3>3 DEF AsRaised, detail
  <2>2. CASE t # s
    <3>1. raised'[t] = raised[t] /\ errors'[t] = errors[t]
      BY <1>2, <2>2 DEF Raise, StoreTypeOK
    <3>2. errors[t] # Absent
      BY <1>2, <3>1 DEF KeptAsRaised
    <3>3. native'[errors[t].id] = native[errors[t].id]
      BY <1>2, <3>2, OthersKeep DEF Raise, StoreTypeOK
    <3> QED
      BY <1>1, <1>2, <3>1, <3>3
  <2> QED
    BY <2>1, <2>2
<1>3. ASSUME NEW i \in Ids, NEW kind \in Clauses, Native(i, kind), NEW t \in Slots, raised'[t] # Absent
      PROVE  errors'[t] # Absent /\ AsRaised(t)'
  <2>1. raised' = raised /\ errors' = errors
    BY <1>3 DEF Native
  <2>2. errors[t] # Absent
    BY <1>3, <2>1 DEF KeptAsRaised
  <2>3. native'[errors[t].id] = native[errors[t].id]
    BY <1>3, <2>2, OthersKeep DEF Native, StoreTypeOK
  <2> QED
    BY <1>1, <1>3, <2>1, <2>3
<1>4. ASSUME UNCHANGED native, NEW s \in Slots, \A u \in Slots : u # s => errors'[u] = errors[u],
             NEW t \in Slots, raised'[t] # Absent, raised'[t] = raised[t], t # s
      PROVE  errors'[t] # Absent /\ AsRaised(t)'
  BY <1>1, <1>4
<1>5. ASSUME NEW s \in Slots, NEW i \in Ids, NEW own \in UserDetails \cup {Absent}, Wrap(s, i, own),
             NEW t \in Slots, raised'[t] # Absent
      PROVE  errors'[t] # Absent /\ AsRaised(t)'
  <2>1. /\ UNCHANGED <<native, raised>> /\ errors[s] = Absent
        /\ \A u \in Slots : u # s => errors'[u] = errors[u]
    BY <1>5 DEF Wrap, StoreTypeOK
  <2>2. t # s
    BY <1>5, <2>1 DEF KeptAsRaised
  <2> QED
    BY <1>4, <1>5, <2>1, <2>2
<1>6. ASSUME NEW s \in Slots, Handle(s), NEW t \in Slots, raised'[t] # Absent
      PROVE  errors'[t] # Absent /\ AsRaised(t)'
  <2>1. /\ UNCHANGED native /\ raised'[s] = Absent
        /\ \A u \in Slots : u # s => errors'[u] = errors[u] /\ raised'[u] = raised[u]
    BY <1>6 DEF Handle, StoreTypeOK
  <2> QED
    BY <1>4, <1>6, <2>1
<1>7. ASSUME UNCHANGED <<native, errors, raised>>, NEW t \in Slots, raised'[t] # Absent
      PROVE  errors'[t] # Absent /\ AsRaised(t)'
  BY <1>1, <1>7
<1>8. ASSUME NEW t \in Slots, raised'[t] # Absent
      PROVE  errors'[t] # Absent /\ AsRaised(t)'
  BY <1>2, <1>3, <1>5, <1>6, <1>7, <1>8 DEF StoreNext, Hold, Release, storeVars
<1> QED
  BY <1>8 DEF KeptAsRaised

LEMMA AlwaysAsRaised == StoreSpec => []KeptAsRaised
<1>1. StoreInit => KeptAsRaised
  BY DEF StoreInit, KeptAsRaised
<1> QED
  BY <1>1, StillAsRaised, StoreTypeCorrect, PTL DEF StoreSpec

LEMMA AlwaysOne == ASSUME ~Rewraps PROVE StoreSpec => []OneDetail
<1>1. StoreInit => OneDetail
  BY DEF StoreInit, OneDetail
<1> QED
  BY <1>1, StillOne, StoreTypeCorrect, PTL DEF StoreSpec

\* What a reader finds for an error, and for its violation.
LEMMA Read ==
  ASSUME StoreTypeOK, OneDetail, NEW s \in Slots, errors[s] # Absent
  PROVE  ErrorDict(s) = errors[s].detail /\ NativeDict(errors[s].id) = errors[s].detail
<1>1. errors[s].detail # Absent /\ store[errors[s].id] = errors[s].detail
  BY ErrorTyped, AbsentAssumption DEF OneDetail
<1> QED
  BY <1>1 DEF ErrorDict, NativeDict, ResolveDetail
----------------------------------------------------------------------------
(* Rules *)

\* The rules of a report are the kinds of its violations, each once.
LEMMA Rules ==
  ASSUME NEW n \in Nat, NEW ids, Len(ids) = n
  PROVE  /\ \A j, k \in DOMAIN RuleIds(ids) : j # k => RuleIds(ids)[j] # RuleIds(ids)[k]
         /\ ToSet(RuleIds(ids)) = {native[ids[k]] : k \in 1 .. n}
<1> DEFINE firsts == {k \in 1 .. n : \A j \in 1 .. k - 1 : native[ids[j]] # native[ids[k]]}
           At(r) == CHOOSE k \in firsts : Cardinality(firsts \cap (1 .. k)) = r
<1>1. RuleIds(ids) = [r \in 1 .. Cardinality(firsts) |-> native[ids[At(r)]]]
  BY DEF RuleIds
<1>2. firsts \in SUBSET (1 .. n)
  OBVIOUS
<1>3. \A j, k \in firsts : native[ids[j]] = native[ids[k]] => j = k
  OBVIOUS
<1>4. ASSUME NEW k \in 1 .. n
      PROVE  \E j \in firsts : native[ids[j]] = native[ids[k]]
  <2> DEFINE T == {j \in 1 .. n : native[ids[j]] = native[ids[k]]}
  <2>1. T \in SUBSET Nat /\ k \in T
    OBVIOUS
  <2>2. PICK j \in T : \A i \in T : j <= i
    BY <2>1, Least
  <2>3. \A i \in 1 .. j - 1 : i \notin T /\ i \in 1 .. n
    BY <2>2
  <2>4. j \in firsts
    BY <2>2, <2>3
  <2> QED
    BY <2>2, <2>4
<1> HIDE DEF firsts
<1>5. /\ \A r \in 1 .. Cardinality(firsts) : \E k \in firsts : Cardinality(firsts \cap (1 .. k)) = r
      /\ \A k \in firsts : Cardinality(firsts \cap (1 .. k)) \in 1 .. Cardinality(firsts)
      /\ \A j, k \in firsts :
           Cardinality(firsts \cap (1 .. j)) = Cardinality(firsts \cap (1 .. k)) => j = k
  <2> HIDE DEF At
  <2> QED
    BY <1>2, Nth
<1>6. \A r \in 1 .. Cardinality(firsts) : At(r) \in firsts /\ Cardinality(firsts \cap (1 .. At(r))) = r
  BY <1>5
<1>7. \A j \in firsts : /\ Cardinality(firsts \cap (1 .. j)) \in 1 .. Cardinality(firsts)
                        /\ At(Cardinality(firsts \cap (1 .. j))) = j
  BY <1>5, <1>6
<1> HIDE DEF At
<1>8. ASSUME NEW q \in 1 .. Cardinality(firsts), NEW r \in 1 .. Cardinality(firsts), q # r
      PROVE  RuleIds(ids)[q] # RuleIds(ids)[r]
  <2>1. At(q) \in firsts /\ At(r) \in firsts /\ At(q) # At(r)
    BY <1>6, <1>8
  <2>2. RuleIds(ids)[q] = native[ids[At(q)]] /\ RuleIds(ids)[r] = native[ids[At(r)]]
    BY <1>1
  <2> QED
    BY <1>3, <2>1, <2>2
<1>9. \A r \in 1 .. Cardinality(firsts) : RuleIds(ids)[r] \in {native[ids[k]] : k \in 1 .. n}
  BY <1>1, <1>2, <1>6
<1>10. ASSUME NEW k \in 1 .. n
       PROVE  \E r \in 1 .. Cardinality(firsts) : RuleIds(ids)[r] = native[ids[k]]
  <2>1. PICK j \in firsts : native[ids[j]] = native[ids[k]]
    BY <1>4
  <2>2. PICK r \in 1 .. Cardinality(firsts) : At(r) = j
    BY <1>7
  <2> QED
    BY <1>1, <2>1, <2>2
<1>11. DOMAIN RuleIds(ids) = 1 .. Cardinality(firsts)
  BY <1>1
<1>12. ToSet(RuleIds(ids)) = {RuleIds(ids)[r] : r \in 1 .. Cardinality(firsts)}
  BY <1>11 DEF ToSet
<1>13. ToSet(RuleIds(ids)) = {native[ids[k]] : k \in 1 .. n}
  BY <1>9, <1>10, <1>12
<1> QED
  BY <1>8, <1>11, <1>13
----------------------------------------------------------------------------
(* Theorems *)

\* A SARIF report of any number of errors has one rule for each kind of theirs,
\* and shows of each error what the error itself shows, under its rule.
ReportsAgree ==
  \A ss \in Seq(Alive) :
    LET report == Sarif(ss)
    IN /\ \A j, k \in DOMAIN report.rules : j # k => report.rules[j] # report.rules[k]
       /\ ToSet(report.rules) = {native[errors[ss[k]].id] : k \in 1 .. Len(ss)}
       /\ \A k \in 1 .. Len(ss) : /\ report.results[k].detail = ErrorDict(ss[k])
                                  /\ report.results[k].rule = native[errors[ss[k]].id]

LEMMA ReportAgrees ==
  ASSUME StoreTypeOK, OneDetail, NEW ss \in Seq(Alive)
  PROVE  LET report == Sarif(ss)
         IN /\ \A j, k \in DOMAIN report.rules : j # k => report.rules[j] # report.rules[k]
            /\ ToSet(report.rules) = {native[errors[ss[k]].id] : k \in 1 .. Len(ss)}
            /\ \A k \in 1 .. Len(ss) : /\ report.results[k].detail = ErrorDict(ss[k])
                                       /\ report.results[k].rule = native[errors[ss[k]].id]
<1> DEFINE ids == [j \in 1 .. Len(ss) |-> errors[ss[j]].id]
<1>1. Len(ss) \in Nat
  BY LenProperties
<1>2. Len(ids) = Len(ss) /\ \A k \in 1 .. Len(ss) : ids[k] = errors[ss[k]].id
  BY <1>1
<1>3. /\ Sarif(ss).rules = RuleIds(ids)
      /\ Sarif(ss).results =
           [j \in 1 .. Len(ids) |-> [rule |-> native[ids[j]], detail |-> NativeDict(ids[j])]]
  BY DEF Sarif
<1> HIDE DEF ids
<1>4. ASSUME NEW k \in 1 .. Len(ss)
      PROVE  /\ Sarif(ss).results[k].detail = ErrorDict(ss[k])
             /\ Sarif(ss).results[k].rule = native[errors[ss[k]].id]
  <2>1. ss[k] \in Slots /\ errors[ss[k]] # Absent
    BY <1>1, ElementOfSeq DEF Alive
  <2>2. Sarif(ss).results[k] = [rule |-> native[ids[k]], detail |-> NativeDict(ids[k])]
    BY <1>2, <1>3
  <2> QED
    BY <1>2, <2>1, <2>2, Read
<1>5. {native[ids[k]] : k \in 1 .. Len(ss)} = {native[errors[ss[k]].id] : k \in 1 .. Len(ss)}
  BY <1>2
<1>6. /\ \A j, k \in DOMAIN RuleIds(ids) : j # k => RuleIds(ids)[j] # RuleIds(ids)[k]
      /\ ToSet(RuleIds(ids)) = {native[ids[k]] : k \in 1 .. Len(ss)}
  BY <1>1, <1>2, Rules
<1> QED
  BY <1>3, <1>4, <1>5, <1>6

\* violations_to_sarif takes the violations out of the errors, and finds the
\* details the errors have themselves, whatever entries earlier violations
\* left at their addresses (_resolve_violation_detail,
\* _attach_violation_detail), as long as nobody gives a violation a second
\* detail; _unique_violations_by_rule leaves no kind out.
THEOREM AllReportsAgree ==
  ASSUME ~Rewraps
  PROVE  StoreSpec => []ReportsAgree
<1>1. StoreTypeOK /\ OneDetail => ReportsAgree
  BY ReportAgrees DEF ReportsAgree
<1> QED
  BY <1>1, StoreTypeCorrect, AlwaysOne, PTL

\* In particular the report of two errors, of one violation or of two, has
\* their kinds for rules, each once, and shows their own details.
THEOREM ReportsOfTwoMatch ==
  ASSUME ~Rewraps
  PROVE  StoreSpec => []ReportMatchesErrors
<1>1. ReportsAgree => ReportMatchesErrors
  <2> SUFFICES ASSUME ReportsAgree, NEW s \in Alive, NEW t \in Alive
               PROVE  LET report == Sarif(<<s, t>>)
                      IN /\ \A j, k \in DOMAIN report.rules : j # k => report.rules[j] # report.rules[k]
                         /\ ToSet(report.rules) = {native[errors[s].id], native[errors[t].id]}
                         /\ report.results[1].detail = ErrorDict(s)
                         /\ report.results[2].detail = ErrorDict(t)
    BY DEF ReportMatchesErrors
  <2> DEFINE ss == <<s, t>>
  <2>1. ss \in Seq(Alive) /\ Len(ss) = 2 /\ ss[1] = s /\ ss[2] = t
    OBVIOUS
  <2> HIDE DEF ss
  <2>2. {native[errors[ss[k]].id] : k \in 1 .. Len(ss)} = {native[errors[s].id], native[errors[t].id]}
    BY <2>1
  <2>3. /\ Sarif(ss).results[1].detail = ErrorDict(ss[1])
        /\ Sarif(ss).results[2].detail = ErrorDict(ss[2])
    BY <2>1 DEF ReportsAgree
  <2>4. /\ \A j, k \in DOMAIN Sarif(ss).rules : j # k => Sarif(ss).rules[j] # Sarif(ss).rules[k]
        /\ ToSet(Sarif(ss).rules) = {native[errors[ss[k]].id] : k \in 1 .. Len(ss)}
    BY <2>1 DEF ReportsAgree
  <2>5. /\ \A j, k \in DOMAIN Sarif(ss).rules : j # k => Sarif(ss).rules[j] # Sarif(ss).rules[k]
        /\ ToSet(Sarif(ss).rules) = {native[errors[s].id], native[errors[t].id]}
        /\ Sarif(ss).results[1].detail = ErrorDict(s)
        /\ Sarif(ss).results[2].detail = ErrorDict(t)
    BY <2>1, <2>2, <2>3, <2>4
  <2> QED
    BY <2>5 DEF ss
<1> QED
  BY <1>1, AllReportsAgree, PTL

\* The error of a failed check shows what its predicate gave and is derived
\* elsewhere, through itself and through its violation, whatever became of
\* other errors, of their addresses and of the entries they left.
THEOREM RaisedShows ==
  ASSUME ~Rewraps
  PROVE  StoreSpec => []RaisedDetailShows
<1>1. StoreTypeOK /\ OneDetail /\ KeptAsRaised => RaisedDetailShows
  <2> SUFFICES ASSUME StoreTypeOK, OneDetail, KeptAsRaised, NEW s \in Slots, errors[s] # Absent,
                      raised[s] # Absent
               PROVE  /\ NativeDict(errors[s].id) = ErrorDict(s)
                      /\ ErrorDict(s).about = raised[s].about
                      /\ ErrorDict(s).kind = native[errors[s].id]
                      /\ \A f \in Fields : f \in raised[s].given <=> ErrorDict(s).fields[f] = "given"
    BY DEF RaisedDetailShows, Alive
  <2>1. PICK clause \in BOOLEAN :
          errors[s].detail = Compose(raised[s].about, raised[s].given, native[errors[s].id], clause)
    BY DEF KeptAsRaised, AsRaised
  <2> QED
    BY <2>1, Read, Composed
<1> QED
  BY <1>1, StoreTypeCorrect, AlwaysOne, AlwaysAsRaised, PTL

\* An error of the library tells code, message, phase and severity, and so
\* does every other error its violation is wrapped in
\* (_compose_violation_detail).
THEOREM DetailsStayComplete ==
  ASSUME ~Rewraps
  PROVE  StoreSpec => []DetailsComplete
<1>1. StoreTypeOK /\ OneDetail /\ KeptAsRaised => DetailsComplete
  <2> SUFFICES ASSUME StoreTypeOK, OneDetail, KeptAsRaised,
                      NEW s \in Slots, errors[s] # Absent, raised[s] # Absent,
                      NEW t \in Slots, errors[t] # Absent, errors[t].id = errors[s].id,
                      NEW f \in Fields \ {"predicate"}
               PROVE  ErrorDict(t).fields[f] # "unset"
    BY DEF DetailsComplete, Alive
  <2>1. PICK clause \in BOOLEAN :
          errors[s].detail = Compose(raised[s].about, raised[s].given, native[errors[s].id], clause)
    BY DEF KeptAsRaised, AsRaised
  <2>2. ErrorDict(t) = errors[s].detail
    BY Read DEF OneDetail
  <2> QED
    BY <2>1, <2>2, Composed
<1> QED
  BY <1>1, StoreTypeCorrect, AlwaysOne, AlwaysAsRaised, PTL
============================================================================
