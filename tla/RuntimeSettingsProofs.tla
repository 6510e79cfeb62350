----------------------- MODULE RuntimeSettingsProofs -----------------------
(***************************************************************************)
(* Proofs about RuntimeSettings, for any number of contexts, blocks and    *)
(* environments.                                                           *)
(***************************************************************************)
EXTENDS RuntimeSettings, SequenceTheorems, TLAPS

(* Operators *)

\* Merging arguments into settings gives settings: the arguments where they
\* say something, what was in force otherwise.
LEMMA Overridden ==
  ASSUME NEW s \in Settings, NEW g \in Given
  PROVE  /\ Override(s, g) \in Settings
         /\ \A f \in Flags : Override(s, g)[f] = IF f \in DOMAIN g THEN g[f] ELSE s[f]
<1>1. s \in [Flags -> BOOLEAN]
  BY DEF Settings, Flags
<1>2. Override(s, g) \in [Flags -> BOOLEAN]
  BY <1>1 DEF Override, Given
<1>3. [Flags -> BOOLEAN] \subseteq Settings
  BY DEF Settings, Flags
<1> QED
  BY <1>2, <1>3 DEF Override

\* Leaving a block takes it out of the open ones and keeps the others in
\* their order.
LEMMA Removed ==
  ASSUME NEW S, NEW s \in Seq(S), NEW i \in DOMAIN s
  PROVE  /\ RemoveAt(s, i) \in Seq(S)
         /\ Len(RemoveAt(s, i)) = Len(s) - 1
         /\ \A j \in 1 .. Len(s) - 1 : RemoveAt(s, i)[j] = IF j < i THEN s[j] ELSE s[j + 1]
<1> DEFINE before == SubSeq(s, 1, i - 1)
           after == SubSeq(s, i + 1, Len(s))
<1>1. Len(s) \in Nat /\ i \in 1 .. Len(s) /\ \A j \in 1 .. Len(s) : s[j] \in S
  BY LenProperties, ElementOfSeq
<1>2. /\ before \in Seq(S) /\ Len(before) = i - 1
      /\ \A j \in 1 .. i - 1 : before[j] = s[j]
  <2>1. \A j \in 1 .. i - 1 : s[j] \in S
    BY <1>1
  <2>2. 1 \in Int /\ i - 1 \in Int /\ (1 <= i - 1 => i - 1 - 1 + 1 = i - 1) /\ (~(1 <= i - 1) => i - 1 = 0)
    BY <1>1
  <2>3. /\ before \in Seq(S) /\ Len(before) = IF 1 <= i - 1 THEN (i - 1) - 1 + 1 ELSE 0
        /\ \A j \in 1 .. (i - 1) - 1 + 1 : before[j] = s[1 + j - 1]
    BY <2>1, <2>2, SubSeqProperties
  <2> QED
    BY <1>1, <2>3
<1>3. /\ after \in Seq(S) /\ Len(after) = Len(s) - i
      /\ \A j \in 1 .. Len(s) - i : after[j] = s[i + j]
  <2>1. \A j \in i + 1 .. Len(s) : s[j] \in S
    BY <1>1
  <2>2. i + 1 \in Int /\ Len(s) \in Int
    BY <1>1
  <2>3. /\ after \in Seq(S) /\ Len(after) = IF i + 1 <= Len(s) THEN Len(s) - (i + 1) + 1 ELSE 0
        /\ \A j \in 1 .. Len(s) - (i + 1) + 1 : after[j] = s[i + 1 + j - 1]
    BY <2>1, <2>2, SubSeqProperties
  <2> QED
    BY <1>1, <2>3
<1>4. /\ before \o after \in Seq(S) /\ Len(before \o after) = Len(s) - 1
      /\ \A j \in 1 .. Len(s) - 1 :
           (before \o after)[j] = IF j <= i - 1 THEN before[j] ELSE after[j - (i - 1)]
  <2> HIDE DEF before, after
  <2>1. Len(before) + Len(after) = Len(s) - 1
    BY <1>1, <1>2, <1>3
  <2>2. /\ before \o after \in Seq(S)
        /\ Len(before \o after) = Len(before) + Len(after)
        /\ \A j \in 1 .. Len(before) + Len(after) :
             (before \o after)[j] = IF j <= Len(before) THEN before[j] ELSE after[j - Len(before)]
    BY <1>2, <1>3, ConcatProperties, Zenon
  <2> QED
    BY <1>2, <2>1, <2>2, Zenon
<1>5. ASSUME NEW j \in 1 .. Len(s) - 1
      PROVE  (before \o after)[j] = IF j < i THEN s[j] ELSE s[j + 1]
  <2> HIDE DEF before, after
  <2>1. CASE j < i
    BY <1>1, <1>2, <1>4, <2>1
  <2>2. CASE ~(j < i)
    <3>1. j - (i - 1) \in 1 .. Len(s) - i /\ i + (j - (i - 1)) = j + 1 /\ ~(j <= i - 1)
      BY <1>1, <2>2
    <3> QED
      BY <1>3, <1>4, <2>2, <3>1
  <2> QED
    BY <2>1, <2>2
<1> QED
  BY <1>4, <1>5 DEF RemoveAt

\* What the environment says are settings, so every context has settings.
LEMMA CurrentTyped ==
  ASSUME TypeOK, NEW c \in Contexts
  PROVE  Current(c) \in Settings
<1>1. context[c] # NoSettings => context[c] \in Settings
  BY DEF TypeOK, Held
<1>2. [debug |-> EnvFlag(env.debug, FALSE), expensive |-> EnvFlag(env.expensive, TRUE)] \in Settings
  BY DEF EnvFlag, Settings
<1> QED
  BY <1>1, <1>2 DEF Current

LEMMA BlockFields ==
  ASSUME NEW b \in Block
  PROVE  /\ b.given \in Arguments /\ b.given \in Given
         /\ b.current \in Settings /\ b.old \in Held
  BY ArgumentsAssumption DEF Block
----------------------------------------------------------------------------
(* Types *)

LEMMA InitTyped == Init => TypeOK
<1> SUFFICES ASSUME Init PROVE TypeOK
  OBVIOUS
<1>1. open \in [Contexts -> Seq(Block)] /\ \A c \in Contexts : Len(open[c]) <= MaxBlocks
  BY EmptySeq, BoundsAssumption DEF Init
<1> QED
  BY <1>1, ContextsAssumption DEF Init, TypeOK, Held

\* Leaving a block, wherever it is left from, keeps the stacks typed.
LEMMA RemovalTyped ==
  ASSUME TypeOK, NEW d \in Contexts, NEW i \in DOMAIN open[d],
         open' = [open EXCEPT ![d] = RemoveAt(@, i)], live' = live
  PROVE  /\ open' \in [Contexts -> Seq(Block)]
         /\ \A c \in Contexts : Len(open'[c]) <= MaxBlocks
         /\ d \in live
         /\ Len(open'[d]) = Len(open[d]) - 1 /\ Len(open[d]) \in Nat
<1>1. open[d] \in Seq(Block) /\ Len(open[d]) \in Nat /\ i \in 1 .. Len(open[d])
  BY LenProperties DEF TypeOK
<1>2. RemoveAt(open[d], i) \in Seq(Block) /\ Len(RemoveAt(open[d], i)) = Len(open[d]) - 1
  BY <1>1, Removed
<1>3. open[d] # <<>>
  BY <1>1, EmptySeq
<1>4. Len(open[d]) - 1 <= MaxBlocks
  BY <1>1, BoundsAssumption DEF TypeOK
<1> QED
  BY <1>1, <1>2, <1>3, <1>4 DEF TypeOK

LEMMA StepKeepsType == TypeOK /\ [Next]_vars => TypeOK'
<1> SUFFICES ASSUME TypeOK, [Next]_vars PROVE TypeOK'
  OBVIOUS
<1>1. ASSUME NEW c \in Contexts, NEW given \in Arguments, Enter(c, given)
      PROVE  TypeOK'
  <2> DEFINE b == [given |-> given, current |-> Current(c), old |-> context[c]]
  <2>1. b \in Block
    BY CurrentTyped DEF Block, TypeOK
  <2>2. Override(Current(c), given) \in Held
    BY CurrentTyped, Overridden, ArgumentsAssumption DEF Held
  <2>3. open[c] \in Seq(Block)
    BY DEF TypeOK
  <2> HIDE DEF b
  <2>4. Append(open[c], b) \in Seq(Block) /\ Len(Append(open[c], b)) = Len(open[c]) + 1
    BY <2>1, <2>3, AppendProperties
  <2>5. Len(open[c]) + 1 <= MaxBlocks
    BY <1>1, <2>3, LenProperties, BoundsAssumption DEF Enter
  <2>6. open' = [open EXCEPT ![c] = Append(@, b)]
    BY <1>1 DEF Enter, b
  <2>7. c \in live /\ live' = live
    BY <1>1 DEF Enter
  <2>8. /\ open' \in [Contexts -> Seq(Block)]
        /\ \A d \in Contexts : Len(open'[d]) <= MaxBlocks
        /\ \A d \in Contexts : d # c => open'[d] = open[d]
    BY <2>4, <2>5, <2>6 DEF TypeOK
  <2>9. /\ context' \in [Contexts -> Held]
        /\ \A d \in Contexts : d # c => context'[d] = context[d]
    BY <1>1, <2>2 DEF Enter, TypeOK
  <2> QED
    BY <1>1, <2>7, <2>8, <2>9 DEF Enter, TypeOK
<1>2. ASSUME NEW c \in Contexts, NEW i \in DOMAIN open[c], Leave(c, i)
      PROVE  TypeOK'
  <2>1. /\ open' \in [Contexts -> Seq(Block)] /\ c \in live
        /\ \A d \in Contexts : Len(open'[d]) <= MaxBlocks
    BY <1>2, RemovalTyped DEF Leave
  <2>2. open[c][i].old \in Held
    <3>1. open[c] \in Seq(Block) /\ i \in 1 .. Len(open[c])
      BY LenProperties DEF TypeOK
    <3> QED
      BY <3>1, ElementOfSeq, BlockFields
  <2> QED
    BY <1>2, <2>1, <2>2 DEF Leave, TypeOK
<1>3. ASSUME NEW c \in Contexts, NEW d \in Contexts, NEW i \in DOMAIN open[d],
             LeaveElsewhere(c, d, i)
      PROVE  TypeOK'
  <2>1. /\ open' \in [Contexts -> Seq(Block)] /\ d \in live
        /\ \A e \in Contexts : Len(open'[e]) <= MaxBlocks
    BY <1>3, RemovalTyped DEF LeaveElsewhere
  <2> QED
    BY <1>3, <2>1 DEF LeaveElsewhere, TypeOK
<1>4. ASSUME NEW c \in Contexts, NEW d \in Contexts, NEW inherits \in BOOLEAN,
             Spawn(c, d, inherits)
      PROVE  TypeOK'
  <2>1. context' \in [Contexts -> Held] /\ born' \in [Contexts -> Held]
    BY <1>4 DEF Spawn, TypeOK, Held
  <2> QED
    BY <1>4, <2>1 DEF Spawn, TypeOK
<1>5. ASSUME NEW e \in Environments, SetEnv(e)
      PROVE  TypeOK'
  BY <1>5 DEF SetEnv, TypeOK
<1>6. CASE UNCHANGED vars
  BY <1>6 DEF vars, TypeOK
<1> QED
  BY <1>1, <1>2, <1>3, <1>4, <1>5, <1>6 DEF Next

\* Every reachable state is well typed; in particular what a token restores
\* is a value the context variable can have, and a context that does not
\* exist yet has no block and no settings.
THEOREM TypeCorrect == Spec => []TypeOK
  BY InitTyped, StepKeepsType, PTL DEF Spec
----------------------------------------------------------------------------
(* The inductive invariant *)

\* The settings a block put in force.
InsideOf(b) == Override(b.current, b.given)

\* The blocks s of a context that was created with the value b and whose
\* variable is v now: each was entered in what the one before it put in force.
Chain(s, b, v) ==
  /\ s = <<>> => v = b
  /\ s # <<>> => /\ v = InsideOf(s[Len(s)])
                 /\ s[1].old = b /\ (b # NoSettings => s[1].current = b)
  /\ \A i \in 2 .. Len(s) : s[i].old = InsideOf(s[i - 1]) /\ s[i].current = InsideOf(s[i - 1])

\* What the n-th block put in force is what the blocks up to it say.
Says(s, n, f) ==
  \/ /\ \A i \in 1 .. n : f \notin DOMAIN s[i].given
     /\ InsideOf(s[n])[f] = s[1].current[f]
  \/ \E i \in 1 .. n : /\ f \in DOMAIN s[i].given
                       /\ \A j \in i + 1 .. n : f \notin DOMAIN s[j].given
                       /\ InsideOf(s[n])[f] = s[i].given[f]

\* InForce is about the innermost block alone.  Once that is left the next one
\* is the innermost, so all of them have to be right.
Layered ==
  \A c \in live \cap tidy : /\ Chain(open[c], born[c], context[c])
                            /\ \A n \in 1 .. Len(open[c]), f \in Flags : Says(open[c], n, f)

LEMMA InsideTyped ==
  ASSUME NEW b \in Block
  PROVE  /\ InsideOf(b) \in Settings
         /\ \A f \in Flags : InsideOf(b)[f] = IF f \in DOMAIN b.given THEN b.given[f]
                                                                     ELSE b.current[f]
  BY BlockFields, Overridden DEF InsideOf

\* Entering a block on top of a chain.
LEMMA ChainGrows ==
  ASSUME NEW s \in Seq(Block), NEW b, NEW v, NEW x \in Block,
         Chain(s, b, v), \A n \in 1 .. Len(s), f \in Flags : Says(s, n, f),
         x.old = v, v # NoSettings => x.current = v
  PROVE  /\ Chain(Append(s, x), b, InsideOf(x))
         /\ \A n \in 1 .. Len(Append(s, x)), f \in Flags : Says(Append(s, x), n, f)
<1> DEFINE r == Append(s, x)
           k == Len(s)
<1>1. /\ r \in Seq(Block) /\ r # <<>> /\ Len(r) = k + 1 /\ k \in Nat
      /\ \A i \in 1 .. k : r[i] = s[i]
      /\ r[k + 1] = x
  BY AppendProperties, LenProperties
<1>2. \A i \in 1 .. k : s[i] \in Block
  BY ElementOfSeq
<1>3. s # <<>> => k > 0
  BY <1>1, EmptySeq
<1>4. s = <<>> => k = 0
  BY EmptySeq
<1> HIDE DEF r, k
<1>5. CASE s = <<>>
  <2>1. k = 0 /\ v = b
    BY <1>4, <1>5 DEF Chain
  <2>2. Chain(r, b, InsideOf(x))
    BY <1>1, <2>1 DEF Chain
  <2>3. ASSUME NEW n \in 1 .. Len(r), NEW f \in Flags
        PROVE  Says(r, n, f)
    <3>1. n = 1 /\ r[1] = x
      BY <1>1, <2>1
    <3> QED
      BY <3>1, InsideTyped DEF Says
  <2> QED
    BY <2>2, <2>3 DEF r
<1>6. CASE s # <<>>
  <2>1. k > 0 /\ v = InsideOf(s[k]) /\ s[1].old = b /\ (b # NoSettings => s[1].current = b)
    BY <1>3, <1>6 DEF Chain, k
  <2>2. v \in Settings /\ v # NoSettings
    BY <1>1, <1>2, <2>1, InsideTyped, NoSettingsAssumption
  <2>3. x.old = InsideOf(r[k]) /\ x.current = InsideOf(r[k])
    BY <1>1, <2>1, <2>2
  <2>4. \A i \in 2 .. k + 1 : r[i].old = InsideOf(r[i - 1]) /\ r[i].current = InsideOf(r[i - 1])
    <3> SUFFICES ASSUME NEW i \in 2 .. k + 1
                 PROVE  r[i].old = InsideOf(r[i - 1]) /\ r[i].current = InsideOf(r[i - 1])
      OBVIOUS
    <3>1. CASE i = k + 1
      <4>1. i - 1 = k
        BY <1>1, <3>1
      <4> QED
        BY <1>1, <2>3, <3>1, <4>1
    <3>2. CASE i # k + 1
      <4>1. i \in 2 .. k /\ i \in 1 .. k /\ i - 1 \in 1 .. k
        BY <1>1, <3>2
      <4>2. s[i].old = InsideOf(s[i - 1]) /\ s[i].current = InsideOf(s[i - 1])
        BY <4>1 DEF Chain, k
      <4> QED
        BY <1>1, <4>1, <4>2
    <3> QED
      BY <3>1, <3>2
  <2>5. Chain(r, b, InsideOf(x))
    <3>1. r[1] = s[1] /\ r[Len(r)] = x
      BY <1>1, <2>1
    <3> QED
      BY <1>1, <2>1, <2>4, <3>1 DEF Chain
  <2>6. ASSUME NEW n \in 1 .. Len(r), NEW f \in Flags
        PROVE  Says(r, n, f)
    <3>1. CASE n <= k
      <4>1. n \in 1 .. k /\ Says(s, n, f)
        BY <1>1, <3>1 DEF k
      <4>2. \A i \in 1 .. n : r[i] = s[i]
        BY <1>1, <4>1
      <4>3. r[1] = s[1] /\ r[n] = s[n]
        BY <4>1, <4>2
      <4>4. CASE /\ \A i \in 1 .. n : f \notin DOMAIN s[i].given
                 /\ InsideOf(s[n])[f] = s[1].current[f]
        <5>1. \A i \in 1 .. n : f \notin DOMAIN r[i].given
          BY <4>2, <4>4
        <5>2. InsideOf(r[n])[f] = r[1].current[f]
          BY <4>3, <4>4
        <5> QED
          BY <5>1, <5>2 DEF Says
      <4>5. ASSUME NEW i \in 1 .. n, f \in DOMAIN s[i].given,
                   \A j \in i + 1 .. n : f \notin DOMAIN s[j].given,
                   InsideOf(s[n])[f] = s[i].given[f]
            PROVE  Says(r, n, f)
        <5>1. r[i] = s[i] /\ \A j \in i + 1 .. n : j \in 1 .. n
          BY <4>1, <4>2
        <5>2. \A j \in i + 1 .. n : f \notin DOMAIN r[j].given
          BY <4>2, <4>5, <5>1
        <5>3. InsideOf(r[n])[f] = r[i].given[f] /\ f \in DOMAIN r[i].given
          BY <4>3, <4>5, <5>1
        <5> QED
          BY <5>2, <5>3 DEF Says
      <4> QED
        BY <4>1, <4>4, <4>5 DEF Says
    <3>2. CASE n = k + 1
      <4>1. r[n] = x /\ n \in 1 .. n
        BY <1>1, <3>2
      <4>2. CASE f \in DOMAIN x.given
        <5>1. \A j \in n + 1 .. n : f \notin DOMAIN r[j].given
          BY <1>1, <3>2
        <5>2. InsideOf(r[n])[f] = r[n].given[f]
          BY <4>1, <4>2, InsideTyped
        <5> QED
          BY <4>1, <4>2, <5>1, <5>2 DEF Says
      <4>3. CASE f \notin DOMAIN x.given
        <5>1. InsideOf(r[n])[f] = InsideOf(s[k])[f]
          BY <2>1, <2>2, <4>1, <4>3, InsideTyped
        <5>2. Says(s, k, f)
          BY <1>1, <2>1 DEF k
        <5>3. \A i \in 1 .. n : i = n \/ i \in 1 .. k
          BY <1>1, <3>2
        <5>4. CASE /\ \A i \in 1 .. k : f \notin DOMAIN s[i].given
                   /\ InsideOf(s[k])[f] = s[1].current[f]
          <6>1. r[1] = s[1]
            BY <1>1, <2>1
          <6>2. \A i \in 1 .. n : f \notin DOMAIN r[i].given
            BY <1>1, <4>1, <4>3, <5>3, <5>4
          <6> QED
            BY <5>1, <5>4, <6>1, <6>2 DEF Says
        <5>5. ASSUME NEW i \in 1 .. k, f \in DOMAIN s[i].given,
                     \A j \in i + 1 .. k : f \notin DOMAIN s[j].given,
                     InsideOf(s[k])[f] = s[i].given[f]
              PROVE  Says(r, n, f)
          <6>1. i \in 1 .. n /\ r[i] = s[i]
            BY <1>1, <3>2
          <6>2. \A j \in i + 1 .. n : j = n \/ (j \in i + 1 .. k /\ j \in 1 .. k)
            BY <1>1, <3>2
          <6>3. \A j \in i + 1 .. n : f \notin DOMAIN r[j].given
            BY <1>1, <4>1, <4>3, <5>5, <6>2
          <6> QED
            BY <5>1, <5>5, <6>1, <6>3 DEF Says
        <5> QED
          BY <5>2, <5>4, <5>5 DEF Says
      <4> QED
        BY <4>2, <4>3
    <3> QED
      BY <1>1, <3>1, <3>2
  <2> QED
    BY <2>5, <2>6 DEF r
<1> QED
  BY <1>5, <1>6

\* Leaving the innermost block of a chain restores what its token holds.
LEMMA ChainShrinks ==
  ASSUME NEW s \in Seq(Block), NEW b, NEW v, s # <<>>,
         Chain(s, b, v), \A n \in 1 .. Len(s), f \in Flags : Says(s, n, f)
  PROVE  /\ Chain(RemoveAt(s, Len(s)), b, s[Len(s)].old)
         /\ \A n \in 1 .. Len(s) - 1, f \in Flags : Says(RemoveAt(s, Len(s)), n, f)
         /\ Len(RemoveAt(s, Len(s))) = Len(s) - 1
<1> DEFINE r == RemoveAt(s, Len(s))
           k == Len(s)
<1>1. k \in Nat \ {0} /\ k \in DOMAIN s
  BY EmptySeq, LenProperties
<1>2. /\ r \in Seq(Block) /\ Len(r) = k - 1
      /\ \A j \in 1 .. k - 1 : r[j] = IF j < k THEN s[j] ELSE s[j + 1]
  BY <1>1, Removed
<1>3. \A j \in 1 .. k - 1 : r[j] = s[j]
  BY <1>1, <1>2
<1>4. r = <<>> => k - 1 = 0
  BY <1>2, EmptySeq
<1>5. r # <<>> => k - 1 > 0
  BY <1>1, <1>2, EmptySeq
<1> HIDE DEF r
<1>6. Chain(r, b, s[k].old)
  <2>1. r = <<>> => s[k].old = b
    <3>1. s[1].old = b
      BY DEF Chain
    <3>2. r = <<>> => Len(s) = 1
      BY <1>1, <1>4
    <3> QED
      BY <3>1, <3>2
  <2>2. ASSUME r # <<>>
        PROVE  /\ s[k].old = InsideOf(r[Len(r)])
               /\ r[1].old = b /\ (b # NoSettings => r[1].current = b)
    <3>1. k \in 2 .. k /\ k - 1 \in 1 .. k - 1 /\ 1 \in 1 .. k - 1
      BY <1>1, <1>5, <2>2
    <3>2. s[k].old = InsideOf(s[k - 1])
      BY <3>1 DEF Chain
    <3> QED
      BY <1>2, <1>3, <3>1, <3>2 DEF Chain
  <2>3. ASSUME NEW i \in 2 .. Len(r)
        PROVE  r[i].old = InsideOf(r[i - 1]) /\ r[i].current = InsideOf(r[i - 1])
    <3>1. i \in 2 .. k /\ i \in 1 .. k - 1 /\ i - 1 \in 1 .. k - 1
      BY <1>1, <1>2
    <3> QED
      BY <1>3, <3>1 DEF Chain
  <2> QED
    BY <2>1, <2>2, <2>3 DEF Chain
<1>7. ASSUME NEW n \in 1 .. k - 1, NEW f \in Flags
      PROVE  Says(r, n, f)
  <2>1. Says(s, n, f)
    BY <1>1
  <2>2. r[1] = s[1] /\ r[n] = s[n] /\ \A i \in 1 .. n : r[i] = s[i]
    BY <1>1, <1>3
  <2>3. \A i \in 1 .. n : \A j \in i + 1 .. n : r[j] = s[j]
    BY <1>1, <1>3
  <2>4. CASE /\ \A i \in 1 .. n : f \notin DOMAIN s[i].given
             /\ InsideOf(s[n])[f] = s[1].current[f]
    BY <2>2, <2>4 DEF Says
  <2>5. ASSUME NEW i \in 1 .. n, f \in DOMAIN s[i].given,
               \A j \in i + 1 .. n : f \notin DOMAIN s[j].given,
               InsideOf(s[n])[f] = s[i].given[f]
        PROVE  Says(r, n, f)
    <3>1. \A j \in i + 1 .. n : f \notin DOMAIN r[j].given
      BY <2>3, <2>5
    <3> QED
      BY <2>2, <2>5, <3>1 DEF Says
  <2> QED
    BY <2>1, <2>4, <2>5 DEF Says
<1> QED
  BY <1>2, <1>6, <1>7 DEF r
----------------------------------------------------------------------------
(* InForce *)

LEMMA InitLayered == Init => Layered
  BY EmptySeq DEF Init, Layered, Chain

\* A context none of whose variables change keeps its layers.
LEMMA LayersKept ==
  ASSUME Layered, NEW c \in live \cap tidy,
         open'[c] = open[c], born'[c] = born[c], context'[c] = context[c]
  PROVE  /\ Chain(open'[c], born'[c], context'[c])
         /\ \A n \in 1 .. Len(open'[c]), f \in Flags : Says(open'[c], n, f)
  BY DEF Layered

LEMMA StepKeepsLayered == TypeOK /\ TypeOK' /\ Layered /\ [Next]_vars => Layered'
<1> SUFFICES ASSUME TypeOK, Layered, [Next]_vars, NEW c \in live' \cap tidy'
             PROVE  /\ Chain(open'[c], born'[c], context'[c])
                    /\ \A n \in 1 .. Len(open'[c]), f \in Flags : Says(open'[c], n, f)
  BY DEF Layered, Chain, Says, InsideOf, Override
<1> DEFINE Good == /\ Chain(open'[c], born'[c], context'[c])
                   /\ \A n \in 1 .. Len(open'[c]), f \in Flags : Says(open'[c], n, f)
<1> HIDE DEF Good
<1>1. ASSUME c \in live \cap tidy, open'[c] = open[c], born'[c] = born[c], context'[c] = context[c]
      PROVE  Good
  BY <1>1, LayersKept DEF Good
<1>2. ASSUME NEW d \in Contexts, NEW given \in Arguments, Enter(d, given)
      PROVE  Good
  <2>1. CASE d # c
    BY <1>1, <1>2, <2>1 DEF Enter, TypeOK
  <2>2. CASE d = c
    <3> DEFINE x == [given |-> given, current |-> Current(c), old |-> context[c]]
    <3>1. x \in Block /\ x.old = context[c] /\ (context[c] # NoSettings => x.current = context[c])
      BY <2>2, CurrentTyped DEF Block, TypeOK, Current
    <3>2. open[c] \in Seq(Block) /\ c \in live \cap tidy
      BY <1>2, <2>2 DEF TypeOK, Enter
    <3>3. InsideOf(x) = Override(Current(c), given)
      BY DEF InsideOf
    <3>4. /\ open'[c] = Append(open[c], x) /\ born'[c] = born[c]
          /\ context'[c] = Override(Current(c), given)
      BY <1>2, <2>2 DEF Enter, TypeOK
    <3> HIDE DEF x
    <3>5. /\ Chain(open[c], born[c], context[c])
          /\ \A n \in 1 .. Len(open[c]), f \in Flags : Says(open[c], n, f)
      BY <3>2 DEF Layered
    <3>6. /\ Chain(Append(open[c], x), born[c], InsideOf(x))
          /\ \A n \in 1 .. Len(Append(open[c], x)), f \in Flags : Says(Append(open[c], x), n, f)
      BY <3>1, <3>2, <3>5, ChainGrows
    <3> QED
      BY <3>3, <3>4, <3>6 DEF Good
  <2> QED
    BY <2>1, <2>2
<1>3. ASSUME NEW d \in Contexts, NEW i \in DOMAIN open[d], Leave(d, i)
      PROVE  Good
  <2>1. CASE d # c
    BY <1>1, <1>3, <2>1 DEF Leave, TypeOK
  <2>2. CASE d = c
    <3>1. i = Len(open[c]) /\ c \in live \cap tidy
      BY <1>3, <2>2 DEF Leave
    <3>2. open[c] \in Seq(Block) /\ open[c] # <<>>
      BY <2>2, EmptySeq DEF TypeOK
    <3>3. /\ open'[c] = RemoveAt(open[c], Len(open[c])) /\ born'[c] = born[c]
          /\ context'[c] = open[c][Len(open[c])].old
      BY <1>3, <2>2, <3>1 DEF Leave, TypeOK
    <3>4. /\ Chain(open[c], born[c], context[c])
          /\ \A n \in 1 .. Len(open[c]), f \in Flags : Says(open[c], n, f)
      BY <3>1 DEF Layered
    <3> QED
      BY <3>2, <3>3, <3>4, ChainShrinks DEF Good
  <2> QED
    BY <2>1, <2>2
<1>4. ASSUME NEW b \in Contexts, NEW d \in Contexts, NEW i \in DOMAIN open[d],
             LeaveElsewhere(b, d, i)
      PROVE  Good
  <2>1. c # d /\ c \in live \cap tidy
    BY <1>4 DEF LeaveElsewhere
  <2> QED
    BY <1>1, <1>4, <2>1 DEF LeaveElsewhere, TypeOK
<1>5. ASSUME NEW b \in Contexts, NEW d \in Contexts, NEW inherits \in BOOLEAN,
             Spawn(b, d, inherits)
      PROVE  Good
  <2>1. CASE d # c
    <3>1. c \in live \cap tidy
      BY <1>5, <2>1 DEF Spawn
    <3> QED
      BY <1>1, <1>5, <2>1, <3>1 DEF Spawn, TypeOK
  <2>2. CASE d = c
    <3>1. open'[c] = <<>> /\ born'[c] = context'[c]
      BY <1>5, <2>2 DEF Spawn, TypeOK
    <3> QED
      BY <3>1, EmptySeq DEF Chain, Good
  <2> QED
    BY <2>1, <2>2
<1>6. ASSUME NEW e \in Environments, SetEnv(e)
      PROVE  Good
  BY <1>1, <1>6 DEF SetEnv
<1>7. ASSUME UNCHANGED vars
      PROVE  Good
  BY <1>1, <1>7 DEF vars
<1>8. Good
  BY <1>2, <1>3, <1>4, <1>5, <1>6, <1>7 DEF Next
<1> QED
  BY <1>8 DEF Good

LEMMA LayeredInForce == TypeOK /\ Layered => InForce
<1> SUFFICES ASSUME TypeOK, Layered, NEW c \in live \cap tidy, NEW f \in Flags
             PROVE  \/ Gives(c, f) = {} /\ Current(c)[f] = Ground(c)[f]
                    \/ \E i \in Gives(c, f) : /\ \A j \in Gives(c, f) : j <= i
                                              /\ Current(c)[f] = open[c][i].given[f]
  BY DEF InForce
<1> DEFINE s == open[c]
           k == Len(s)
<1>1. c \in Contexts /\ s \in Seq(Block) /\ DOMAIN s = 1 .. k /\ k \in Nat
  BY LenProperties DEF TypeOK
<1>2. Chain(s, born[c], context[c]) /\ \A n \in 1 .. k : Says(s, n, f)
  BY DEF Layered
<1> HIDE DEF s, k
<1>3. CASE s = <<>>
  <2>1. Gives(c, f) = {}
    BY <1>3, <1>1, EmptySeq DEF Gives, s, k
  <2>2. Current(c) = Ground(c)
    BY <1>2, <1>3 DEF Chain, Current, Ground, s
  <2> QED
    BY <2>1, <2>2
<1>4. CASE s # <<>>
  <2>1. k \in 1 .. k
    BY <1>1, <1>4, EmptySeq DEF k
  <2>2. context[c] = InsideOf(s[k]) /\ s[k] \in Block
    BY <1>1, <1>2, <1>4, <2>1, ElementOfSeq DEF Chain, k
  <2>3. Current(c) = InsideOf(s[k])
    <3>1. InsideOf(s[k]) # NoSettings
      BY <2>2, InsideTyped, NoSettingsAssumption
    <3> QED
      BY <2>2, <3>1 DEF Current
  <2>4. Ground(c) = s[1].current
    BY <1>4 DEF Ground, s
  <2>5. Gives(c, f) = {i \in 1 .. k : f \in DOMAIN s[i].given}
    BY <1>1 DEF Gives, s
  <2>6. CASE /\ \A i \in 1 .. k : f \notin DOMAIN s[i].given
             /\ InsideOf(s[k])[f] = s[1].current[f]
    BY <2>3, <2>4, <2>5, <2>6
  <2>7. ASSUME NEW i \in 1 .. k, f \in DOMAIN s[i].given,
               \A j \in i + 1 .. k : f \notin DOMAIN s[j].given,
               InsideOf(s[k])[f] = s[i].given[f]
        PROVE  \E h \in Gives(c, f) : /\ \A j \in Gives(c, f) : j <= h
                                      /\ Current(c)[f] = open[c][h].given[f]
    <3>1. \A j \in 1 .. k : ~(j <= i) => j \in i + 1 .. k
      BY <1>1
    <3>2. \A j \in Gives(c, f) : j <= i
      BY <2>5, <2>7, <3>1
    <3> QED
      BY <2>3, <2>5, <2>7, <3>2 DEF s
  <2> QED
    BY <1>2, <2>1, <2>6, <2>7 DEF Says
<1> QED
  BY <1>3, <1>4

LEMMA AlwaysLayered == Spec => []Layered
  BY InitLayered, StepKeepsLayered, TypeCorrect, PTL DEF Spec

\* However many blocks tasks, threads and generators open and however the
\* environment changes meanwhile: in a context whose blocks are left innermost
\* first, each flag has the value of the innermost open block that gives it,
\* or the value the context had outside of its blocks.
THEOREM SettingsInForce == Spec => []InForce
  BY AlwaysLayered, LayeredInForce, TypeCorrect, PTL
----------------------------------------------------------------------------
(* debug_only invariants, where the environment does not switch them on *)

\* What DebugOnlyInBlocks says, of the contexts whose blocks were left
\* innermost first.
DebugInTidyBlocks ==
  \A c \in live \cap tidy : Current(c).debug =>
    \/ born[c] # NoSettings /\ born[c].debug
    \/ \E i \in Gives(c, "debug") : open[c][i].given["debug"]

\* An outermost block froze what the environment said when it was entered.
Frozen ==
  \A c \in live \cap tidy :
    open[c] # <<>> /\ born[c] = NoSettings => ~open[c][1].current.debug

\* The outermost block stays what it was until all blocks are left.
LEMMA OutermostStays ==
  ASSUME NEW s \in Seq(Block)
  PROVE  /\ \A x \in Block : Append(s, x)[1] = IF s = <<>> THEN x ELSE s[1]
         /\ s # <<>> /\ RemoveAt(s, Len(s)) # <<>> => RemoveAt(s, Len(s))[1] = s[1]
<1>1. Len(s) \in Nat /\ (s = <<>> <=> Len(s) = 0)
  BY EmptySeq, LenProperties
<1>2. ASSUME NEW x \in Block
      PROVE  Append(s, x)[1] = IF s = <<>> THEN x ELSE s[1]
  <2>1. Append(s, x)[Len(s) + 1] = x /\ \A i \in 1 .. Len(s) : Append(s, x)[i] = s[i]
    BY AppendProperties
  <2>2. CASE Len(s) = 0
    BY <1>1, <2>1, <2>2
  <2>3. CASE Len(s) # 0
    <3>1. 1 \in 1 .. Len(s)
      BY <1>1, <2>3
    <3> QED
      BY <1>1, <2>1, <2>3, <3>1
  <2> QED
    BY <2>2, <2>3
<1>3. ASSUME s # <<>>, RemoveAt(s, Len(s)) # <<>>
      PROVE  RemoveAt(s, Len(s))[1] = s[1]
  <2> DEFINE r == RemoveAt(s, Len(s))
  <2>1. Len(s) \in DOMAIN s
    BY <1>1, <1>3, LenProperties
  <2>2. /\ r \in Seq(Block) /\ Len(r) = Len(s) - 1
        /\ \A j \in 1 .. Len(s) - 1 : r[j] = IF j < Len(s) THEN s[j] ELSE s[j + 1]
    BY <2>1, Removed
  <2> HIDE DEF r
  <2>3. Len(s) - 1 > 0
    <3>1. r # <<>>
      BY <1>3 DEF r
    <3>2. Len(r) # 0
      BY <2>2, <3>1, EmptySeq
    <3> QED
      BY <1>1, <1>3, <2>2, <3>2
  <2>4. 1 \in 1 .. Len(s) - 1 /\ 1 < Len(s)
    BY <1>1, <2>3
  <2> QED
    BY <2>2, <2>4 DEF r
<1> QED
  BY <1>2, <1>3

LEMMA InitFrozen == Init => Frozen
  BY DEF Init, Frozen

LEMMA StepKeepsFrozen ==
  ASSUME \A e \in Environments : e.debug # "on",
         TypeOK, Layered, Frozen, [Next]_vars, NEW c \in live' \cap tidy',
         open'[c] # <<>>, born'[c] = NoSettings
  PROVE  ~open'[c][1].current.debug
<1>1. ASSUME c \in live \cap tidy, open'[c] = open[c], born'[c] = born[c]
      PROVE  ~open'[c][1].current.debug
  BY <1>1 DEF Frozen
<1>2. ASSUME NEW d \in Contexts, NEW given \in Arguments, Enter(d, given)
      PROVE  ~open'[c][1].current.debug
  <2>1. CASE d # c
    BY <1>1, <1>2, <2>1 DEF Enter, TypeOK
  <2>2. CASE d = c
    <3> DEFINE x == [given |-> given, current |-> Current(c), old |-> context[c]]
    <3>1. x \in Block /\ x.current = Current(c)
      BY <2>2, CurrentTyped DEF Block, TypeOK
    <3>2. open[c] \in Seq(Block) /\ c \in live \cap tidy /\ born[c] = NoSettings
      BY <1>2, <2>2 DEF TypeOK, Enter
    <3>3. open'[c] = Append(open[c], x)
      BY <1>2, <2>2 DEF Enter, TypeOK
    <3> HIDE DEF x
    <3>4. open'[c][1] = IF open[c] = <<>> THEN x ELSE open[c][1]
      BY <3>1, <3>2, <3>3, OutermostStays
    <3>5. CASE open[c] = <<>>
      <4>1. context[c] = NoSettings
        BY <3>2, <3>5 DEF Layered, Chain
      <4>2. ~Current(c).debug
        BY <4>1 DEF Current, EnvFlag, TypeOK
      <4> QED
        BY <3>1, <3>4, <3>5, <4>2
    <3>6. CASE open[c] # <<>>
      BY <3>2, <3>4, <3>6 DEF Frozen
    <3> QED
      BY <3>5, <3>6
  <2> QED
    BY <2>1, <2>2
<1>3. ASSUME NEW d \in Contexts, NEW i \in DOMAIN open[d], Leave(d, i)
      PROVE  ~open'[c][1].current.debug
  <2>1. CASE d # c
    BY <1>1, <1>3, <2>1 DEF Leave, TypeOK
  <2>2. CASE d = c
    <3>1. i = Len(open[c]) /\ c \in live \cap tidy /\ born[c] = NoSettings
      BY <1>3, <2>2 DEF Leave
    <3>2. open[c] \in Seq(Block) /\ open[c] # <<>>
      BY <2>2, EmptySeq DEF TypeOK
    <3>3. open'[c] = RemoveAt(open[c], Len(open[c]))
      BY <1>3, <2>2, <3>1 DEF Leave, TypeOK
    <3>4. open'[c][1] = open[c][1]
      BY <3>2, <3>3, OutermostStays
    <3> QED
      BY <3>1, <3>2, <3>4 DEF Frozen
  <2> QED
    BY <2>1, <2>2
<1>4. ASSUME NEW b \in Contexts, NEW d \in Contexts, NEW i \in DOMAIN open[d],
             LeaveElsewhere(b, d, i)
      PROVE  ~open'[c][1].current.debug
  <2>1. c # d /\ c \in live \cap tidy
    BY <1>4 DEF LeaveElsewhere
  <2> QED
    BY <1>1, <1>4, <2>1 DEF LeaveElsewhere, TypeOK
<1>5. ASSUME NEW b \in Contexts, NEW d \in Contexts, NEW inherits \in BOOLEAN,
             Spawn(b, d, inherits)
      PROVE  ~open'[c][1].current.debug
  <2>1. d # c
    BY <1>5 DEF Spawn, TypeOK
  <2>2. c \in live \cap tidy
    BY <1>5, <2>1 DEF Spawn
  <2> QED
    BY <1>1, <1>5, <2>1, <2>2 DEF Spawn, TypeOK
<1>6. ASSUME NEW e \in Environments, SetEnv(e)
      PROVE  ~open'[c][1].current.debug
  BY <1>1, <1>6 DEF SetEnv
<1>7. CASE UNCHANGED vars
  BY <1>1, <1>7 DEF vars
<1> QED
  BY <1>2, <1>3, <1>4, <1>5, <1>6, <1>7 DEF Next

\* Where the environment never switches debug checks on, they are on only
\* where the creator of the context or an open block says so, for as long as
\* blocks are left innermost first: generators that leave theirs in another
\* order (_RUNTIME_SETTINGS.reset) are the only way to have them on for good.
THEOREM DebugNeedsABlock ==
  ASSUME \A e \in Environments : e.debug # "on"
  PROVE  Spec => []DebugInTidyBlocks
<1>1. TypeOK /\ Layered /\ Frozen /\ [Next]_vars => Frozen'
  BY StepKeepsFrozen DEF Frozen
<1>2. Spec => []Frozen
  BY <1>1, InitFrozen, AlwaysLayered, TypeCorrect, PTL DEF Spec
<1>3. TypeOK /\ Layered /\ InForce /\ Frozen => DebugInTidyBlocks
  <2> SUFFICES ASSUME TypeOK, Layered, InForce, Frozen, NEW c \in live \cap tidy,
                      Current(c).debug, born[c] = NoSettings \/ ~born[c].debug
               PROVE  \E i \in Gives(c, "debug") : open[c][i].given["debug"]
    BY DEF DebugInTidyBlocks
  <2>1. c \in Contexts /\ open[c] \in Seq(Block) /\ "debug" \in Flags
    BY DEF TypeOK, Flags
  <2>2. ASSUME Ground(c)["debug"]
        PROVE  FALSE
    <3>1. open[c] # <<>> => ~open[c][1].current.debug
      <4>1. ASSUME open[c] # <<>>, born[c] # NoSettings
            PROVE  open[c][1].current = born[c]
        BY <4>1 DEF Layered, Chain
      <4> QED
        BY <4>1 DEF Frozen
    <3> QED
      BY <2>2, <3>1 DEF Ground, EnvFlag, TypeOK
  <2> QED
    BY <2>1, <2>2 DEF InForce
<1> QED
  BY <1>2, <1>3, AlwaysLayered, SettingsInForce, TypeCorrect, PTL
----------------------------------------------------------------------------
(* Who switches settings *)

LEMMA SwitchStep ==
  ASSUME TypeOK, [Next]_vars, NEW c \in live, context'[c] # context[c]
  PROVE  Len(open'[c]) # Len(open[c]) /\ \A d \in Contexts \ {c} : open'[d] = open[d]
<1>1. c \in Contexts /\ open[c] \in Seq(Block) /\ Len(open[c]) \in Nat
  BY LenProperties DEF TypeOK
<1>2. ASSUME NEW b \in Contexts, NEW given \in Arguments, Enter(b, given)
      PROVE  Len(open'[c]) # Len(open[c]) /\ \A d \in Contexts \ {c} : open'[d] = open[d]
  <2>1. b = c
    BY <1>1, <1>2 DEF Enter, TypeOK
  <2> DEFINE x == [given |-> given, current |-> Current(c), old |-> context[c]]
  <2>2. x \in Block
    BY <1>1, CurrentTyped DEF Block, TypeOK
  <2>3. open' = [open EXCEPT ![c] = Append(@, x)]
    BY <1>2, <2>1 DEF Enter
  <2> HIDE DEF x
  <2>4. Len(Append(open[c], x)) = Len(open[c]) + 1
    BY <1>1, <2>2, AppendProperties
  <2> QED
    BY <1>1, <2>3, <2>4 DEF TypeOK
<1>3. ASSUME NEW b \in Contexts, NEW i \in DOMAIN open[b], Leave(b, i)
      PROVE  Len(open'[c]) # Len(open[c]) /\ \A d \in Contexts \ {c} : open'[d] = open[d]
  <2>1. b = c
    BY <1>1, <1>3 DEF Leave, TypeOK
  <2>2. Len(open'[c]) = Len(open[c]) - 1
    BY <1>3, <2>1, RemovalTyped DEF Leave
  <2> QED
    BY <1>1, <1>3, <2>1, <2>2 DEF Leave, TypeOK
<1>4. ASSUME NEW b \in Contexts, NEW d \in Contexts, NEW inherits \in BOOLEAN,
             Spawn(b, d, inherits)
      PROVE  FALSE
  BY <1>1, <1>4 DEF Spawn, TypeOK
<1>5. ASSUME NEW b \in Contexts, NEW d \in Contexts, NEW i \in DOMAIN open[d],
             LeaveElsewhere(b, d, i)
      PROVE  FALSE
  BY <1>5 DEF LeaveElsewhere
<1>6. ASSUME NEW e \in Environments, SetEnv(e)
      PROVE  FALSE
  BY <1>6 DEF SetEnv
<1>7. CASE UNCHANGED vars
  BY <1>7 DEF vars
<1> QED
  BY <1>2, <1>3, <1>4, <1>5, <1>6, <1>7 DEF Next

\* In every context, orderly or not, the settings change only with the blocks
\* of that context: what other tasks, threads and generators do with theirs
\* switches nothing.
THEOREM OwnBlocksOnly == Spec => OnlyOwnBlocksSwitch
<1> DEFINE Step ==
      \A c \in live : context'[c] # context[c] =>
        Len(open'[c]) # Len(open[c]) /\ \A d \in Contexts \ {c} : open'[d] = open[d]
<1>1. TypeOK /\ [Next]_vars => [Step]_vars
  BY SwitchStep
<1> QED
  BY <1>1, TypeCorrect, PTL DEF Spec, OnlyOwnBlocksSwitch
============================================================================
