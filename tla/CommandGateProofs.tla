-------------------------- MODULE CommandGateProofs --------------------------
(***************************************************************************)
(* Proofs about CommandGate for every configuration, every set of          *)
(* statements and every bound: what cannot be read is refused, the alias   *)
(* readers settle on nothing Git does not do, and the strongest statement  *)
(* decides.                                                                *)
(***************************************************************************)
EXTENDS CommandGate, FiniteSetTheorems, SequenceTheorems, WellFoundedInduction, TLAPS

-----------------------------------------------------------------------------
(* Recursion.  The alias readers are recursive functions over arguments with *)
(* a rank that falls at every call; that such a function exists, and that a  *)
(* property is inherited along it, follow from the well-foundedness of Nat.  *)

\* A nonempty set of natural numbers has a least element.
LEMMA LeastExists ==
  ASSUME NEW T \in SUBSET Nat, T # {}
  PROVE  \E m \in T : \A y \in T : m <= y
<1> DEFINE R == {ss \in Nat \X Nat : ss[1] < ss[2]}
<1>1. IsWellFoundedOn(R, Nat)
  BY NatLessThanWellFounded DEF OpToRel
<1>2. PICK x \in T : \A y \in T : ~ (<<y, x>> \in R)
  BY <1>1, WFMin
<1>3. ASSUME NEW y \in T PROVE x <= y
  <2>1. ~(y < x)
    BY <1>2
  <2> QED BY <2>1
<1> QED BY <1>3

\* A set that holds whatever all arguments of a smaller rank lead to holds
\* every argument.
LEMMA RankInduction ==
  ASSUME NEW S, NEW rank \in [S -> Nat], NEW T,
         \A x \in S : (\A y \in S : rank[y] < rank[x] => y \in T) => x \in T
  PROVE  \A x \in S : x \in T
<1> SUFFICES ASSUME NEW z \in S, z \notin T PROVE FALSE
  OBVIOUS
<1> DEFINE ranks == {rank[x] : x \in {y \in S : y \notin T}}
<1>1. ranks \in SUBSET Nat /\ ranks # {}
  OBVIOUS
<1>2. PICK m \in ranks : \A k \in ranks : m <= k
  BY <1>1, LeastExists
<1>3. PICK x \in S : x \notin T /\ rank[x] = m
  BY <1>2
<1>4. PICK y \in S : rank[y] < rank[x] /\ y \notin T
  BY <1>3
<1>5. rank[y] \in ranks /\ rank[y] \in Nat /\ m \in Nat
  BY <1>1, <1>4
<1> HIDE DEF ranks
<1>6. m <= rank[y]
  BY <1>2, <1>5
<1>7. rank[y] < m
  BY <1>3, <1>4
<1> QED BY <1>5, <1>6, <1>7

\* A step from functions to functions that looks, at each argument, only at
\* arguments of a smaller rank, when the ranks are bounded.
Recursion(S, V, N, rank, Step) ==
  /\ V # {} /\ N \in Nat /\ rank \in [S -> 0..N]
  /\ Step \in [[S -> V] -> [S -> V]]
  /\ \A f, g \in [S -> V], x \in S :
       (\A y \in S : rank[y] < rank[x] => f[y] = g[y]) => Step[f][x] = Step[g][x]
HasFixedPoint(S, V, Step) == \E f \in [S -> V] : f = Step[f]

\* Such a step has a fixed point.
LEMMA RecursionExists ==
  ASSUME NEW S, NEW V, NEW N, NEW rank, NEW Step, Recursion(S, V, N, rank, Step)
  PROVE  HasFixedPoint(S, V, Step)
<1> SUFFICES \E f \in [S -> V] : f = Step[f]
  BY DEF HasFixedPoint
<1> USE DEF Recursion
<1> DEFINE UpTo(f, n) == \A x \in S : rank[x] < n => f[x] = Step[f][x]
           T == {n \in Nat : \E f \in [S -> V] : UpTo(f, n)}
           R == [n \in Nat |-> n]
<1>1. 0 \in T
  <2>1. PICK v \in V : TRUE
    OBVIOUS
  <2>2. [x \in S |-> v] \in [S -> V]
    OBVIOUS
  <2>3. \A x \in S : ~(rank[x] < 0)
    OBVIOUS
  <2> QED BY <2>2, <2>3
<1>2. ASSUME NEW n \in Nat, n \in T PROVE n + 1 \in T
  <2>1. PICK f \in [S -> V] : UpTo(f, n)
    BY <1>2
  <2> DEFINE g == Step[f]
  <2>2. g \in [S -> V]
    OBVIOUS
  <2>3. ASSUME NEW x \in S, rank[x] < n + 1 PROVE g[x] = Step[g][x]
    <3>1. ASSUME NEW y \in S, rank[y] < rank[x] PROVE f[y] = g[y]
      <4>1. rank[y] \in Nat /\ rank[x] \in Nat
        OBVIOUS
      <4>2. rank[y] < n
        BY <4>1, <3>1, <2>3
      <4> QED BY <2>1, <4>2
    <3> HIDE DEF g
    <3>2. Step[f][x] = Step[g][x]
      BY <2>2, <3>1
    <3> QED BY <3>2 DEF g
  <2>4. UpTo(g, n + 1)
    BY <2>3
  <2> HIDE DEF g
  <2> QED BY <2>2, <2>4
<1>3. \A n \in Nat : n \in T
  <2>1. R \in [Nat -> Nat] /\ \A n \in Nat : R[n] = n
    OBVIOUS
  <2> HIDE DEF T, R
  <2>2. ASSUME NEW n \in Nat, \A k \in Nat : R[k] < R[n] => k \in T PROVE n \in T
    <3>1. CASE n = 0
      BY <3>1, <1>1
    <3>2. CASE n # 0
      <4>1. n - 1 \in Nat /\ n - 1 < n /\ (n - 1) + 1 = n
        BY <3>2
      <4>2. R[n - 1] < R[n]
        BY <4>1, <2>1
      <4>3. n - 1 \in T
        BY <4>1, <4>2, <2>2
      <4> QED BY <4>1, <4>3, <1>2
    <3> QED BY <3>1, <3>2
  <2>3. \A n \in Nat : (\A k \in Nat : R[k] < R[n] => k \in T) => n \in T
    BY <2>2
  <2> QED BY <2>1, <2>3, RankInduction
<1>4. PICK f \in [S -> V] : UpTo(f, N + 1)
  <2>1. N + 1 \in Nat
    OBVIOUS
  <2>2. N + 1 \in T
    <3> HIDE DEF T
    <3> QED BY <1>3, <2>1
  <2> QED BY <2>2
<1>5. \A x \in S : rank[x] < N + 1
  OBVIOUS
<1>6. \A x \in S : f[x] = Step[f][x]
  BY <1>4, <1>5
<1>7. Step[f] \in [S -> V]
  OBVIOUS
<1>8. f = Step[f]
  BY <1>6, <1>7
<1> QED BY <1>8
-----------------------------------------------------------------------------
(* Git and the alias readers.  Each is the recursive function it is written  *)
(* as: for Git the aliases that are left fall at every call, for the readers *)
(* the expansions that are left.                                             *)

\* What Git can end at, and the aliases a reading has not come through yet.
Ends == [ends : {"command", "loop", "git", "shell", "undefined"},
         sub : AliasNames \cup Builtins \cup {"none"}]
AliasesLeft(r) == Cardinality(AliasNames \ r.visited)

\* An expansion leads to a subcommand a reader can have in hand.
LEMMA FollowReads ==
  ASSUME NEW table \in AliasTables, NEW r \in Readings, Starts(r.sub)
  PROVE  /\ Follow(table, r) \in Readings
         /\ table[r.sub].kind \in {"git", "shell", "undefined"}
         /\ table[r.sub].sub \in AliasNames \cup Builtins \cup {"none"}
         /\ table[r.sub].kind = "git" => table[r.sub].sub \in AliasNames \cup Builtins
         /\ table[r.sub].kind = "undefined" => table[r.sub].sub = "none"
<1>1. table[r.sub] \in Expansions
  BY DEF AliasTables, Starts
<1>2. /\ table[r.sub].kind \in {"git", "shell", "undefined"}
      /\ table[r.sub].sub \in AliasNames \cup Builtins \cup {"none"}
      /\ table[r.sub].kind = "git" => table[r.sub].sub \in AliasNames \cup Builtins
      /\ table[r.sub].kind = "undefined" => table[r.sub].sub = "none"
  BY <1>1 DEF Expansions, Builtins
<1>3. r.visited \cup {r.sub} \in SUBSET AliasNames
  BY DEF Readings, Starts
<1> QED BY <1>2, <1>3 DEF Follow, Readings

\* An alias that is not visited yet is one less to visit.
LEMMA AliasesFall ==
  ASSUME NEW table \in AliasTables, NEW r \in Readings, Starts(r.sub), r.sub \notin r.visited
  PROVE  AliasesLeft(Follow(table, r)) < AliasesLeft(r)
<1> DEFINE left == AliasNames \ r.visited
<1>1. IsFiniteSet(left) /\ r.sub \in left
  BY AliasNamesAssumption, FS_Subset DEF Starts
<1>2. AliasNames \ (r.visited \cup {r.sub}) = left \ {r.sub}
  OBVIOUS
<1>3. Cardinality(left \ {r.sub}) = Cardinality(left) - 1 /\ Cardinality(left) \in Nat
  <2> HIDE DEF left
  <2> QED BY <1>1, FS_RemoveElement, FS_CardinalityType
<1> QED BY <1>2, <1>3 DEF AliasesLeft, Follow

\* There are never more aliases left to follow than there are aliases.
LEMMA AliasesLeftType ==
  ASSUME NEW r \in Readings
  PROVE  AliasesLeft(r) \in 0..Cardinality(AliasNames)
<1>1. AliasNames \ r.visited \subseteq AliasNames
  OBVIOUS
<1>2. IsFiniteSet(AliasNames \ r.visited)
      /\ Cardinality(AliasNames \ r.visited) <= Cardinality(AliasNames)
  BY <1>1, AliasNamesAssumption, FS_Subset
<1>3. Cardinality(AliasNames \ r.visited) \in Nat /\ Cardinality(AliasNames) \in Nat
  BY <1>2, AliasNamesAssumption, FS_CardinalityType
<1> QED BY <1>2, <1>3 DEF AliasesLeft

\* What Git does with a subcommand is what its expansion does.
LEMMA GitEndsAre ==
  ASSUME NEW table \in AliasTables
  PROVE  \A r \in Readings :
           GitEnds(table)[r] =
             IF ~Starts(r.sub) THEN [ends |-> "command", sub |-> r.sub]
             ELSE IF r.sub \in r.visited THEN [ends |-> "loop", sub |-> r.sub]
             ELSE IF table[r.sub].kind # "git"
                  THEN [ends |-> table[r.sub].kind, sub |-> table[r.sub].sub]
             ELSE GitEnds(table)[Follow(table, r)]
<1> DEFINE Body(f) ==
      [r \in Readings |->
         IF ~Starts(r.sub) THEN [ends |-> "command", sub |-> r.sub]
         ELSE IF r.sub \in r.visited THEN [ends |-> "loop", sub |-> r.sub]
         ELSE IF table[r.sub].kind # "git"
              THEN [ends |-> table[r.sub].kind, sub |-> table[r.sub].sub]
         ELSE f[Follow(table, r)]]
    Step == [f \in [Readings -> Ends] |-> Body(f)]
    rank == [r \in Readings |-> AliasesLeft(r)]
<1>1. ASSUME NEW f \in [Readings -> Ends] PROVE Step[f] = Body(f) /\ Body(f) \in [Readings -> Ends]
  <2>1. ASSUME NEW r \in Readings PROVE Body(f)[r] \in Ends
    <3>1. r.sub \in AliasNames \cup Builtins \cup {"none"}
      BY DEF Readings
    <3>2. CASE ~Starts(r.sub)
      BY <3>1, <3>2 DEF Ends
    <3>3. CASE Starts(r.sub)
      BY <3>1, <3>3, FollowReads DEF Ends
    <3> QED BY <3>2, <3>3
  <2> QED BY <2>1
<1>2. Step \in [[Readings -> Ends] -> [Readings -> Ends]]
  BY <1>1
<1>3. ASSUME NEW f \in [Readings -> Ends], NEW g \in [Readings -> Ends], NEW r \in Readings,
             \A y \in Readings : rank[y] < rank[r] => f[y] = g[y]
      PROVE  Step[f][r] = Step[g][r]
  <2>1. Starts(r.sub) /\ r.sub \notin r.visited => f[Follow(table, r)] = g[Follow(table, r)]
    BY <1>3, FollowReads, AliasesFall
  <2>2. Body(f)[r] = Body(g)[r]
    BY <2>1
  <2> QED BY <1>1, <2>2
<1>4. \E f : f = Body(f)
  <2>1. Cardinality(AliasNames) \in Nat
    BY AliasNamesAssumption, FS_CardinalityType
  <2>2. rank \in [Readings -> 0..Cardinality(AliasNames)]
    BY AliasesLeftType
  <2>3. Ends # {}
    <3>1. [ends |-> "command", sub |-> "none"] \in Ends
      BY DEF Ends
    <3> QED BY <3>1
  <2> HIDE DEF Step, rank
  <2>4. Recursion(Readings, Ends, Cardinality(AliasNames), rank, Step)
    BY <1>2, <1>3, <2>1, <2>2, <2>3 DEF Recursion
  <2>5. HasFixedPoint(Readings, Ends, Step)
    BY <2>4, RecursionExists
  <2>6. PICK f \in [Readings -> Ends] : f = Step[f]
    BY <2>5 DEF HasFixedPoint
  <2>7. f = Body(f)
    BY <2>6, <1>1
  <2> HIDE DEF Body
  <2> QED BY <2>7
<1>5. GitEnds(table) = CHOOSE f : f = Body(f)
  BY Zenon DEF GitEnds
<1>6. GitEnds(table) = Body(GitEnds(table))
  <2> HIDE DEF Body
  <2> QED BY <1>4, <1>5
<1> QED BY <1>6

\* What the two readers that look ahead can answer.
Answers == AliasNames \cup Builtins \cup {"none", "error"}

\* Below the limit, the next reading is counted and closer to the limit.
LEMMA FollowCounts ==
  ASSUME NEW table \in AliasTables, NEW c \in Counted, Starts(c.reading.sub),
         ~(c.depth >= MaxAliasDepth)
  PROVE  /\ FollowCounted(table, c) \in Counted
         /\ MaxAliasDepth - FollowCounted(table, c).depth < MaxAliasDepth - c.depth
<1>1. c.reading \in Readings /\ c.depth \in 0..MaxAliasDepth /\ MaxAliasDepth \in Nat
  BY AliasDepthAssumption DEF Counted
<1>2. c.depth + 1 \in 0..MaxAliasDepth
      /\ MaxAliasDepth - (c.depth + 1) < MaxAliasDepth - c.depth
  BY <1>1
<1>3. Follow(table, c.reading) \in Readings
  BY <1>1, FollowReads
<1> QED BY <1>2, <1>3 DEF FollowCounted, Counted

\* The label of a write is that of the expansion.
LEMMA WriteLabelsAre ==
  ASSUME NEW table \in AliasTables
  PROVE  \A c \in Counted :
           WriteLabels(table)[c] =
             IF c.depth >= MaxAliasDepth THEN "error"
             ELSE IF c.reading.sub = "push" THEN "push"
             ELSE IF c.reading.sub \in c.reading.visited THEN "error"
             ELSE IF ~Starts(c.reading.sub) \/ table[c.reading.sub].kind = "undefined" THEN "none"
             ELSE IF table[c.reading.sub].kind = "git" THEN WriteLabels(table)[FollowCounted(table, c)]
             ELSE IF table[c.reading.sub].sub = "none" THEN "error"
             ELSE ShellLabel(WriteLabels(table)[FollowCounted(table, c)])
<1> DEFINE Body(f) ==
      [c \in Counted |->
         IF c.depth >= MaxAliasDepth THEN "error"
         ELSE IF c.reading.sub = "push" THEN "push"
         ELSE IF c.reading.sub \in c.reading.visited THEN "error"
         ELSE IF ~Starts(c.reading.sub) \/ table[c.reading.sub].kind = "undefined" THEN "none"
         ELSE IF table[c.reading.sub].kind = "git" THEN f[FollowCounted(table, c)]
         ELSE IF table[c.reading.sub].sub = "none" THEN "error"
         ELSE ShellLabel(f[FollowCounted(table, c)])]
    Step == [f \in [Counted -> Answers] |-> Body(f)]
    rank == [c \in Counted |-> MaxAliasDepth - c.depth]
<1>1. ASSUME NEW f \in [Counted -> Answers]
      PROVE  Step[f] = Body(f) /\ Body(f) \in [Counted -> Answers]
  <2>1. ASSUME NEW c \in Counted PROVE Body(f)[c] \in Answers
    <3>1. c.reading \in Readings /\ c.reading.sub \in AliasNames \cup Builtins \cup {"none"}
      BY DEF Counted, Readings
    <3>2. CASE c.depth >= MaxAliasDepth
      BY <3>2 DEF Answers
    <3>3. CASE ~(c.depth >= MaxAliasDepth) /\ ~Starts(c.reading.sub)
      BY <3>1, <3>3 DEF Answers
    <3>4. CASE ~(c.depth >= MaxAliasDepth) /\ Starts(c.reading.sub)
      <4>1. f[FollowCounted(table, c)] \in Answers
        BY <3>4, FollowCounts
      <4> QED BY <3>1, <3>4, <4>1 DEF Answers, ShellLabel
    <3> QED BY <3>2, <3>3, <3>4
  <2> QED BY <2>1
<1>2. Step \in [[Counted -> Answers] -> [Counted -> Answers]]
  BY <1>1
<1>3. ASSUME NEW f \in [Counted -> Answers], NEW g \in [Counted -> Answers],
             NEW c \in Counted, \A y \in Counted : rank[y] < rank[c] => f[y] = g[y]
      PROVE  Step[f][c] = Step[g][c]
  <2>1. Starts(c.reading.sub) /\ ~(c.depth >= MaxAliasDepth)
          => f[FollowCounted(table, c)] = g[FollowCounted(table, c)]
    BY <1>3, FollowCounts
  <2>2. Body(f)[c] = Body(g)[c]
    BY <2>1
  <2> QED BY <1>1, <2>2
<1>4. \E f : f = Body(f)
  <2>1. rank \in [Counted -> 0..MaxAliasDepth] /\ MaxAliasDepth \in Nat
    BY AliasDepthAssumption DEF Counted
  <2>2. Answers # {}
    BY DEF Answers
  <2> HIDE DEF Step, rank
  <2>3. Recursion(Counted, Answers, MaxAliasDepth, rank, Step)
    BY <1>2, <1>3, <2>1, <2>2 DEF Recursion
  <2>4. HasFixedPoint(Counted, Answers, Step)
    BY <2>3, RecursionExists
  <2>5. PICK f \in [Counted -> Answers] : f = Step[f]
    BY <2>4 DEF HasFixedPoint
  <2>6. f = Body(f)
    BY <2>5, <1>1
  <2> HIDE DEF Body
  <2> QED BY <2>6
<1>5. WriteLabels(table) = CHOOSE f : f = Body(f)
  BY Zenon DEF WriteLabels
<1>6. WriteLabels(table) = Body(WriteLabels(table))
  <2> HIDE DEF Body
  <2> QED BY <1>4, <1>5
<1> QED BY <1>6

\* The effective subcommand is that of the expansion.
LEMMA BranchSubcommandsAre ==
  ASSUME NEW table \in AliasTables
  PROVE  \A c \in Counted :
           BranchSubcommands(table)[c] =
             IF c.depth >= MaxAliasDepth THEN "error"
             ELSE IF ~Starts(c.reading.sub) THEN c.reading.sub
             ELSE IF c.reading.sub \in c.reading.visited \/ ~Expandable(table[c.reading.sub].kind)
                  THEN "error"
             ELSE BranchSubcommands(table)[FollowCounted(table, c)]
<1> DEFINE Body(f) ==
      [c \in Counted |->
         IF c.depth >= MaxAliasDepth THEN "error"
         ELSE IF ~Starts(c.reading.sub) THEN c.reading.sub
         ELSE IF c.reading.sub \in c.reading.visited \/ ~Expandable(table[c.reading.sub].kind)
              THEN "error"
         ELSE f[FollowCounted(table, c)]]
    Step == [f \in [Counted -> Answers] |-> Body(f)]
    rank == [c \in Counted |-> MaxAliasDepth - c.depth]
<1>1. ASSUME NEW f \in [Counted -> Answers]
      PROVE  Step[f] = Body(f) /\ Body(f) \in [Counted -> Answers]
  <2>1. ASSUME NEW c \in Counted PROVE Body(f)[c] \in Answers
    <3>1. c.reading \in Readings /\ c.reading.sub \in AliasNames \cup Builtins \cup {"none"}
      BY DEF Counted, Readings
    <3>2. CASE c.depth >= MaxAliasDepth
      BY <3>2 DEF Answers
    <3>3. CASE ~(c.depth >= MaxAliasDepth) /\ ~Starts(c.reading.sub)
      BY <3>1, <3>3 DEF Answers
    <3>4. CASE ~(c.depth >= MaxAliasDepth) /\ Starts(c.reading.sub)
      <4>1. f[FollowCounted(table, c)] \in Answers
        BY <3>4, FollowCounts
      <4> QED BY <3>1, <3>4, <4>1 DEF Answers, ShellLabel
    <3> QED BY <3>2, <3>3, <3>4
  <2> QED BY <2>1
<1>2. Step \in [[Counted -> Answers] -> [Counted -> Answers]]
  BY <1>1
<1>3. ASSUME NEW f \in [Counted -> Answers], NEW g \in [Counted -> Answers],
             NEW c \in Counted, \A y \in Counted : rank[y] < rank[c] => f[y] = g[y]
      PROVE  Step[f][c] = Step[g][c]
  <2>1. Starts(c.reading.sub) /\ ~(c.depth >= MaxAliasDepth)
          => f[FollowCounted(table, c)] = g[FollowCounted(table, c)]
    BY <1>3, FollowCounts
  <2>2. Body(f)[c] = Body(g)[c]
    BY <2>1
  <2> QED BY <1>1, <2>2
<1>4. \E f : f = Body(f)
  <2>1. rank \in [Counted -> 0..MaxAliasDepth] /\ MaxAliasDepth \in Nat
    BY AliasDepthAssumption DEF Counted
  <2>2. Answers # {}
    BY DEF Answers
  <2> HIDE DEF Step, rank
  <2>3. Recursion(Counted, Answers, MaxAliasDepth, rank, Step)
    BY <1>2, <1>3, <2>1, <2>2 DEF Recursion
  <2>4. HasFixedPoint(Counted, Answers, Step)
    BY <2>3, RecursionExists
  <2>5. PICK f \in [Counted -> Answers] : f = Step[f]
    BY <2>4 DEF HasFixedPoint
  <2>6. f = Body(f)
    BY <2>5, <1>1
  <2> HIDE DEF Body
  <2> QED BY <2>6
<1>5. BranchSubcommands(table) = CHOOSE f : f = Body(f)
  BY Zenon DEF BranchSubcommands
<1>6. BranchSubcommands(table) = Body(BranchSubcommands(table))
  <2> HIDE DEF Body
  <2> QED BY <1>4, <1>5
<1> QED BY <1>6

\* Where the identity gate sees no write, Git ends at an alias that is not
\* defined or at a command that is no push, from whatever reading on.
LEMMA NoneHidesNothing ==
  ASSUME NEW table \in AliasTables
  PROVE  \A c \in Counted :
           WriteLabels(table)[c] = "none" =>
             \/ GitEnds(table)[c.reading].ends = "undefined"
             \/ /\ GitEnds(table)[c.reading].ends = "command"
                /\ GitEnds(table)[c.reading].sub # "push"
<1> DEFINE Harmless(end) == \/ end.ends = "undefined"
                            \/ end.ends = "command" /\ end.sub # "push"
    Says(c) == WriteLabels(table)[c] = "none" => Harmless(GitEnds(table)[c.reading])
    T == {c \in Counted : Says(c)}
    rank == [c \in Counted |-> MaxAliasDepth - c.depth]
<1>1. rank \in [Counted -> Nat]
  BY AliasDepthAssumption DEF Counted
<1>2. ASSUME NEW c \in Counted, \A y \in Counted : rank[y] < rank[c] => y \in T
      PROVE  c \in T
  <2> SUFFICES ASSUME WriteLabels(table)[c] = "none"
               PROVE  Harmless(GitEnds(table)[c.reading])
    OBVIOUS
  <2> DEFINE sub == c.reading.sub
             next == FollowCounted(table, c)
  <2>1. c.reading \in Readings /\ next.reading = Follow(table, c.reading)
    BY DEF Counted, FollowCounted
  <2>2. ~(c.depth >= MaxAliasDepth) /\ sub # "push"
    BY WriteLabelsAre
  <2>3. CASE ~Starts(sub)
    <3>1. GitEnds(table)[c.reading] = [ends |-> "command", sub |-> sub]
      BY <2>1, <2>3, GitEndsAre
    <3> QED BY <2>2, <3>1
  <2>4. CASE Starts(sub) /\ table[sub].kind = "undefined"
    <3>1. sub \notin c.reading.visited
      BY <2>2, WriteLabelsAre
    <3>2. GitEnds(table)[c.reading] = [ends |-> table[sub].kind, sub |-> table[sub].sub]
      BY <2>1, <2>4, <3>1, GitEndsAre
    <3> QED BY <2>4, <3>2
  <2>5. CASE Starts(sub) /\ table[sub].kind = "git"
    <3>1. sub \notin c.reading.visited /\ WriteLabels(table)[next] = "none"
      BY <2>2, <2>5, WriteLabelsAre
    <3>2. next \in Counted /\ rank[next] < rank[c]
      BY <2>2, <2>5, FollowCounts
    <3>3. Says(next)
      BY <1>2, <3>2
    <3>4. GitEnds(table)[c.reading] = GitEnds(table)[next.reading]
      BY <2>1, <2>5, <3>1, GitEndsAre
    <3> QED BY <3>1, <3>3, <3>4
  <2>6. CASE Starts(sub) /\ table[sub].kind = "shell"
    <3>1. ShellLabel(WriteLabels(table)[next]) # "none"
      BY DEF ShellLabel
    <3> QED BY <2>2, <2>6, <3>1, WriteLabelsAre
  <2> QED BY <2>1, <2>3, <2>4, <2>5, <2>6, FollowReads
<1>3. \A c \in Counted : (\A y \in Counted : rank[y] < rank[c] => y \in T) => c \in T
  BY <1>2
<1>4. \A c \in Counted : c \in T
  <2> HIDE DEF T, rank
  <2> QED BY <1>1, <1>3, RankInduction
<1> QED BY <1>4

\* Where the branch gate settles on a subcommand, Git ends at the same one.
LEMMA SubcommandIsGits ==
  ASSUME NEW table \in AliasTables
  PROVE  \A c \in Counted :
           BranchSubcommands(table)[c] # "error" =>
             GitEnds(table)[c.reading] =
               [ends |-> "command", sub |-> BranchSubcommands(table)[c]]
<1> DEFINE Says(c) ==
      BranchSubcommands(table)[c] # "error" =>
        GitEnds(table)[c.reading] = [ends |-> "command", sub |-> BranchSubcommands(table)[c]]
    T == {c \in Counted : Says(c)}
    rank == [c \in Counted |-> MaxAliasDepth - c.depth]
<1>1. rank \in [Counted -> Nat]
  BY AliasDepthAssumption DEF Counted
<1>2. ASSUME NEW c \in Counted, \A y \in Counted : rank[y] < rank[c] => y \in T
      PROVE  c \in T
  <2> SUFFICES ASSUME BranchSubcommands(table)[c] # "error"
               PROVE  GitEnds(table)[c.reading] =
                        [ends |-> "command", sub |-> BranchSubcommands(table)[c]]
    OBVIOUS
  <2> DEFINE sub == c.reading.sub
             next == FollowCounted(table, c)
  <2>1. c.reading \in Readings /\ next.reading = Follow(table, c.reading)
    BY DEF Counted, FollowCounted
  <2>2. ~(c.depth >= MaxAliasDepth)
    BY BranchSubcommandsAre
  <2>3. CASE ~Starts(sub)
    BY <2>1, <2>2, <2>3, GitEndsAre, BranchSubcommandsAre
  <2>4. CASE Starts(sub)
    <3>1. /\ sub \notin c.reading.visited /\ table[sub].kind = "git"
          /\ BranchSubcommands(table)[c] = BranchSubcommands(table)[next]
      BY <2>2, <2>4, BranchSubcommandsAre DEF Expandable
    <3>2. next \in Counted /\ rank[next] < rank[c]
      BY <2>2, <2>4, FollowCounts
    <3>3. Says(next)
      BY <1>2, <3>2
    <3>4. GitEnds(table)[c.reading] = GitEnds(table)[next.reading]
      BY <2>1, <2>4, <3>1, GitEndsAre
    <3> QED BY <3>1, <3>3, <3>4
  <2> QED BY <2>3, <2>4
<1>3. \A c \in Counted : (\A y \in Counted : rank[y] < rank[c] => y \in T) => c \in T
  BY <1>2
<1>4. \A c \in Counted : c \in T
  <2> HIDE DEF T, rank
  <2> QED BY <1>1, <1>3, RankInduction
<1> QED BY <1>4

\* Another table has every definition of this one.
Within(table, larger) ==
  \A a \in AliasNames : table[a].kind # "undefined" => larger[a] = table[a]

\* Where Git ends at a command, it ends there too with further definitions.
LEMMA FurtherDefinitions ==
  ASSUME NEW table \in AliasTables, NEW larger \in AliasTables, Within(table, larger)
  PROVE  \A r \in Readings :
           GitEnds(table)[r].ends = "command" => GitEnds(larger)[r] = GitEnds(table)[r]
<1> DEFINE Says(r) ==
      GitEnds(table)[r].ends = "command" => GitEnds(larger)[r] = GitEnds(table)[r]
    T == {r \in Readings : Says(r)}
    rank == [r \in Readings |-> AliasesLeft(r)]
<1>1. rank \in [Readings -> Nat]
  <2>1. Cardinality(AliasNames) \in Nat
    BY AliasNamesAssumption, FS_CardinalityType
  <2> QED BY <2>1, AliasesLeftType
<1>2. ASSUME NEW r \in Readings, \A y \in Readings : rank[y] < rank[r] => y \in T
      PROVE  r \in T
  <2> SUFFICES ASSUME GitEnds(table)[r].ends = "command"
               PROVE  GitEnds(larger)[r] = GitEnds(table)[r]
    OBVIOUS
  <2> DEFINE next == Follow(table, r)
  <2>1. CASE ~Starts(r.sub)
    BY <2>1, GitEndsAre
  <2>2. CASE Starts(r.sub)
    <3>1. r.sub \notin r.visited
      <4>1. CASE r.sub \in r.visited
        <5>1. GitEnds(table)[r] = [ends |-> "loop", sub |-> r.sub]
          BY <2>2, <4>1, GitEndsAre
        <5> QED BY <5>1
      <4> QED BY <4>1
    <3>2. table[r.sub].kind = "git"
      <4>1. CASE table[r.sub].kind # "git"
        <5>1. GitEnds(table)[r] = [ends |-> table[r.sub].kind, sub |-> table[r.sub].sub]
          BY <2>2, <3>1, <4>1, GitEndsAre
        <5>2. table[r.sub].kind # "command"
          BY <2>2, FollowReads
        <5> QED BY <5>1, <5>2
      <4> QED BY <4>1
    <3>3. larger[r.sub] = table[r.sub] /\ Follow(larger, r) = next
      BY <2>2, <3>2 DEF Within, Starts, Follow
    <3>4. next \in Readings /\ rank[next] < rank[r]
      BY <2>2, <3>1, FollowReads, AliasesFall
    <3>5. Says(next)
      BY <1>2, <3>4
    <3>6. GitEnds(table)[r] = GitEnds(table)[next]
      BY <2>2, <3>1, <3>2, GitEndsAre
    <3>7. GitEnds(larger)[r] = GitEnds(larger)[next]
      BY <2>2, <3>1, <3>2, <3>3, GitEndsAre
    <3> QED BY <3>5, <3>6, <3>7
  <2> QED BY <2>1, <2>2
<1>3. \A r \in Readings : (\A y \in Readings : rank[y] < rank[r] => y \in T) => r \in T
  BY <1>2
<1>4. \A r \in Readings : r \in T
  <2> HIDE DEF T, rank
  <2> QED BY <1>1, <1>3, RankInduction
<1> QED BY <1>4

\* The configurations a run goes by; before it needs one there are no aliases.
Configs == Configurations \cup {NoConfiguration}

\* The tables of the three readers and of Git are alias tables; the identity
\* gate's has no definition that Git's has not, and the command gate's has none
\* unless one is given on the command line.
LEMMA TablesAre ==
  ASSUME NEW c \in Configs
  PROVE  /\ GitTable(c) \in AliasTables /\ BranchTable(c) = GitTable(c)
         /\ LabelTable(c) \in AliasTables /\ Within(LabelTable(c), GitTable(c))
         /\ CommandTable(c) \in AliasTables
         /\ c.inline = NoAliases => Within(CommandTable(c), GitTable(c))
<1>1. NoAliases \in AliasTables /\ \A a \in AliasNames : NoAliases[a].kind = "undefined"
  BY DEF NoAliases, AliasTables, Expansions
<1>2. c.outside \in AliasTables /\ c.repository \in AliasTables /\ c.inline \in AliasTables
  BY <1>1, ConfigurationsAssumption DEF Configs, NoConfiguration, AllConfigurations
<1>3. ASSUME NEW under \in AliasTables, NEW over \in AliasTables
      PROVE  /\ Override(under, over) \in AliasTables
             /\ \A a \in AliasNames :
                  Override(under, over)[a] =
                    IF over[a].kind = "undefined" THEN under[a] ELSE over[a]
  BY DEF Override, AliasTables
<1> DEFINE files == Override(c.outside, c.repository)
<1>4. /\ files \in AliasTables
      /\ \A a \in AliasNames :
           files[a] = IF c.repository[a].kind = "undefined" THEN c.outside[a]
                      ELSE c.repository[a]
  BY <1>2, <1>3
<1>5. /\ GitTable(c) = Override(files, c.inline)
      /\ GitTable(c) \in AliasTables
      /\ \A a \in AliasNames :
           GitTable(c)[a] = IF c.inline[a].kind = "undefined" THEN files[a] ELSE c.inline[a]
  <2> HIDE DEF files
  <2>1. GitTable(c) = Override(files, c.inline)
    BY DEF GitTable, files
  <2> QED BY <2>1, <1>2, <1>3, <1>4
<1>6. /\ LabelTable(c) \in AliasTables
      /\ \A a \in AliasNames :
           LabelTable(c)[a] = IF c.inline[a].kind = "undefined" THEN c.repository[a]
                              ELSE c.inline[a]
  BY <1>2, <1>3 DEF LabelTable
<1> HIDE DEF files
<1>7. Within(LabelTable(c), GitTable(c))
  BY <1>4, <1>5, <1>6 DEF Within
<1>8. c.inline = NoAliases => Within(CommandTable(c), GitTable(c))
  BY <1>1, <1>4, <1>5 DEF Within, CommandTable
<1>9. CommandTable(c) \in AliasTables /\ BranchTable(c) = GitTable(c)
  BY <1>2 DEF CommandTable, BranchTable
<1> QED BY <1>5, <1>6, <1>7, <1>8, <1>9

\* What each reader settles on, said of one configuration and one alias.
LabelHidesNothing(c, a) ==
  WriteLabel(LabelTable(c), a) = "none" /\ GitRuns(LabelTable(c), a).ends # "undefined" =>
    /\ GitRuns(LabelTable(c), a).ends = "command"
    /\ GitRuns(LabelTable(c), a).sub # "push"
    /\ GitRuns(GitTable(c), a) = GitRuns(LabelTable(c), a)
BranchFindsIt(c, a) ==
  BranchSubcommand(BranchTable(c), a) # "error" =>
    GitRuns(GitTable(c), a) =
      [ends |-> "command", sub |-> BranchSubcommand(BranchTable(c), a)]
CommandFindsIt(c, a) ==
  c.inline = NoAliases /\ GitRuns(CommandTable(c), a).ends = "command" =>
    GitRuns(GitTable(c), a) = GitRuns(CommandTable(c), a)

\* The readers settle on nothing that Git does not do.
LEMMA ReadersSettle ==
  ASSUME NEW c \in Configs, NEW a \in AliasNames
  PROVE  LabelHidesNothing(c, a) /\ BranchFindsIt(c, a) /\ CommandFindsIt(c, a)
<1>1. /\ FirstCounted(a) \in Counted /\ FirstCounted(a).reading = First(a)
      /\ First(a) \in Readings
  BY AliasDepthAssumption DEF FirstCounted, First, Counted, Readings
<1>2. PICK git \in AliasTables : git = GitTable(c)
  BY TablesAre
<1>3. PICK seen \in AliasTables : seen = LabelTable(c)
  BY TablesAre
<1>4. PICK own \in AliasTables : own = CommandTable(c)
  BY TablesAre
<1>5. LabelHidesNothing(c, a)
  <2>1. WriteLabel(seen, a) = "none" /\ GitRuns(seen, a).ends # "undefined" =>
          GitRuns(seen, a).ends = "command" /\ GitRuns(seen, a).sub # "push"
    BY <1>1, NoneHidesNothing DEF WriteLabel, GitRuns
  <2>2. GitRuns(seen, a).ends = "command" => GitRuns(git, a) = GitRuns(seen, a)
    <3>1. Within(seen, git)
      BY <1>2, <1>3, TablesAre
    <3> QED BY <1>1, <3>1, FurtherDefinitions DEF GitRuns
  <2> QED BY <1>2, <1>3, <2>1, <2>2 DEF LabelHidesNothing
<1>6. BranchFindsIt(c, a)
  <2>1. BranchSubcommand(git, a) # "error" =>
          GitRuns(git, a) = [ends |-> "command", sub |-> BranchSubcommand(git, a)]
    BY <1>1, SubcommandIsGits DEF BranchSubcommand, GitRuns
  <2>2. BranchTable(c) = git
    BY <1>2, TablesAre
  <2> QED BY <1>2, <2>1, <2>2 DEF BranchFindsIt
<1>7. CommandFindsIt(c, a)
  <2>1. c.inline = NoAliases => Within(own, git)
    BY <1>2, <1>4, TablesAre
  <2>2. c.inline = NoAliases /\ GitRuns(own, a).ends = "command"
          => GitRuns(git, a) = GitRuns(own, a)
    BY <1>1, <2>1, FurtherDefinitions DEF GitRuns
  <2> QED BY <1>2, <1>4, <2>2 DEF CommandFindsIt
<1> QED BY <1>5, <1>6, <1>7

\* Whatever configuration a run goes by, its readers settle on nothing that Git
\* does not do.
LEMMA ConfigReadsAsGit == config \in Configs => AliasesReadAsGit
<1> SUFFICES ASSUME config \in Configs PROVE AliasesReadAsGit
  OBVIOUS
<1>1. \A a \in AliasNames :
        LabelHidesNothing(config, a) /\ BranchFindsIt(config, a) /\ CommandFindsIt(config, a)
  BY ReadersSettle
<1>2. NoHiddenWrite
  BY <1>1, Zenon DEF NoHiddenWrite, LabelHidesNothing
<1>3. BranchReadsAsGit
  BY <1>1, Zenon DEF BranchReadsAsGit, BranchFindsIt
<1>4. CommandReadsAsGit
  BY <1>1, Zenon DEF CommandReadsAsGit, CommandFindsIt
<1> QED BY <1>2, <1>3, <1>4 DEF AliasesReadAsGit

\* A step keeps the configuration, or chooses one.
LEMMA ConfigStays == config \in Configs /\ [GateNext]_gateVars => (config \in Configs)'
BY DEF Configs, GateNext, gateVars, ReadPayload, OpenCommand, Unparsed, ReadNextLine,
       ReadStatement, EndCommand, JudgeStatement, JudgeGit, LookUpAlias, ExpandAlias,
       CloseCommand, Decide

\* Where a reader of aliases settles on an answer, Git does the same although it
\* reads more sources, in every configuration.
THEOREM AliasesReadAsGitHolds == GateSpec => []AliasesReadAsGit
<1>1. GateInit => config \in Configs
  BY DEF GateInit, Configs
<1> QED BY <1>1, ConfigStays, ConfigReadsAsGit, PTL DEF GateSpec

-----------------------------------------------------------------------------
(* The order of verdicts *)

\* The strength of a verdict orders the three of them.
LEMMA StrengthIs ==
  /\ Strength["clear"] = 0 /\ Strength["ask"] = 1 /\ Strength["deny"] = 2
  /\ \A v \in Verdicts : Strength[v] \in 0..2
  /\ \A v, w \in Verdicts : Strength[v] = Strength[w] => v = w
<1>1. Strength["clear"] = 0 /\ Strength["ask"] = 1 /\ Strength["deny"] = 2
  BY DEF Strength
<1>2. \A v \in Verdicts : v = "clear" \/ v = "ask" \/ v = "deny"
  BY DEF Verdicts
<1> QED BY <1>1, <1>2

\* v is no stronger than w.
Below(v, w) == Strength[v] <= Strength[w]

\* Being no stronger is an order with "clear" at the bottom and "deny" at the top.
LEMMA BelowOrders ==
  /\ \A v \in Verdicts : Below(v, v) /\ Below("clear", v) /\ Below(v, "deny")
  /\ \A u, v, w \in Verdicts : Below(u, v) /\ Below(v, w) => Below(u, w)
  /\ \A v, w \in Verdicts : Below(v, w) /\ Below(w, v) => v = w
  /\ \A v \in Verdicts : Below(v, "clear") => v = "clear"
BY StrengthIs DEF Below, Verdicts

\* The stronger of two verdicts is one of them and below neither.
LEMMA StrongerIs ==
  ASSUME NEW v \in Verdicts, NEW w \in Verdicts
  PROVE  /\ Stronger(v, w) \in {v, w} /\ Stronger(v, w) \in Verdicts
         /\ Below(v, Stronger(v, w)) /\ Below(w, Stronger(v, w))
         /\ Stronger(v, w) = "clear" => v = "clear" /\ w = "clear"
         /\ Stronger(v, "deny") = "deny"
<1>1. Strength[v] \in 0..2 /\ Strength[w] \in 0..2
  BY StrengthIs
<1>2. Stronger(v, w) \in {v, w} /\ Stronger(v, w) \in Verdicts
  BY DEF Stronger
<1>3. Below(v, Stronger(v, w)) /\ Below(w, Stronger(v, w))
  BY <1>1 DEF Stronger, Below
<1>4. Stronger(v, w) = "clear" => v = "clear" /\ w = "clear"
  BY <1>3, BelowOrders
<1>5. Stronger(v, "deny") = "deny"
  <2>1. CASE v = "deny"
    BY <2>1 DEF Stronger
  <2>2. CASE v # "deny"
    <3>1. Strength["deny"] > Strength[v]
      BY <2>2, <1>1, StrengthIs DEF Verdicts
    <3> QED BY <3>1 DEF Stronger
  <2> QED BY <2>1, <2>2
<1> QED BY <1>2, <1>3, <1>4, <1>5

\* The strongest of some verdicts is the one that none of them outvotes.
LEMMA StrongestIs ==
  ASSUME NEW T \in SUBSET Verdicts, T # {}
  PROVE  /\ Strongest(T) \in T /\ Strongest(T) \in Verdicts
         /\ \A w \in T : Below(w, Strongest(T))
         /\ \A v \in T : (\A w \in T : Below(w, v)) => Strongest(T) = v
<1>1. \E v \in T : \A w \in T : Strength[w] <= Strength[v]
  <2>1. CASE "deny" \in T
    BY <2>1, BelowOrders DEF Below
  <2>2. CASE "deny" \notin T /\ "ask" \in T
    <3>1. \A w \in T : w = "clear" \/ w = "ask"
      BY <2>2 DEF Verdicts
    <3> QED BY <2>2, <3>1, StrengthIs
  <2>3. CASE "deny" \notin T /\ "ask" \notin T
    <3>1. \A w \in T : w = "clear"
      BY <2>3 DEF Verdicts
    <3> QED BY <3>1, StrengthIs
  <2> QED BY <2>1, <2>2, <2>3
<1>2. Strongest(T) \in T /\ \A w \in T : Below(w, Strongest(T))
  BY <1>1 DEF Strongest, Below
<1>3. \A v \in T : (\A w \in T : Below(w, v)) => Strongest(T) = v
  BY <1>2, BelowOrders
<1> QED BY <1>2, <1>3

-----------------------------------------------------------------------------
(* What the gates decide is a verdict *)

\* The first objection is one of the verdicts given, or there is none.
LEMMA FirstObjectionType ==
  ASSUME NEW n \in Nat, NEW verdicts \in [1..n -> Verdicts]
  PROVE  /\ FirstObjection(verdicts) \in Verdicts
         /\ (\A i \in 1..n : verdicts[i] = "clear") => FirstObjection(verdicts) = "clear"
<1> DEFINE objecting == {i \in 1..n : verdicts[i] # "clear"}
           least == CHOOSE i \in DOMAIN verdicts :
                      verdicts[i] # "clear"
                        /\ \A j \in DOMAIN verdicts : verdicts[j] # "clear" => i <= j
<1>1. CASE objecting = {}
  BY <1>1 DEF FirstObjection, Verdicts
<1>2. CASE objecting # {}
  <2>1. PICK i \in objecting : \A j \in objecting : i <= j
    <3>1. objecting \in SUBSET Nat
      OBVIOUS
    <3> HIDE DEF objecting
    <3> QED BY <1>2, <3>1, LeastExists
  <2>2. least \in DOMAIN verdicts
    BY <2>1
  <2>3. FirstObjection(verdicts) = verdicts[least]
    BY <2>1 DEF FirstObjection
  <2> HIDE DEF least
  <2> QED BY <1>2, <2>2, <2>3
<1> QED BY <1>1, <1>2

\* Choosing by a condition between two verdicts gives a verdict.
LEMMA WhenType ==
  ASSUME NEW v \in Verdicts, NEW condition
  PROVE  When(condition, v) \in Verdicts
BY DEF When, Verdicts

\* The checks every shell shares give verdicts, each of them.
LEMMA CheckTypes ==
  ASSUME NEW s
  PROVE  SharedChecks(s) \subseteq Verdicts
<1> USE DEF Verdicts, When
<1>1. Recovery(s) \in Verdicts /\ DeviceWrite(s) \in Verdicts /\ MassOperation(s) \in Verdicts
      /\ Logging(s) \in Verdicts /\ Disguised(s) \in Verdicts
  BY DEF Recovery, DeviceWrite, MassOperation, Logging, Disguised
<1>2. Destruction(s) \in Verdicts
  <2> DEFINE T == {Recovery(s), DeviceWrite(s), MassOperation(s), Logging(s), Disguised(s)}
  <2>1. T \in SUBSET Verdicts /\ T # {}
    BY <1>1
  <2> HIDE DEF T
  <2>2. Strongest(T) \in Verdicts
    BY <2>1, StrongestIs
  <2> QED BY <2>2 DEF Destruction, T
<1>3. /\ DefinesAlias(s) \in Verdicts /\ ModeChange(s) \in Verdicts /\ Truncation(s) \in Verdicts
      /\ Process(s) \in Verdicts /\ Schedule(s) \in Verdicts
  BY DEF DefinesAlias, ModeChange, Truncation, Process, Schedule
<1>4. /\ FilesystemRepair(s) \in Verdicts /\ InfrastructurePath(s) \in Verdicts
      /\ ProtectedWrite(s) \in Verdicts /\ TestWrite(s) \in Verdicts
  BY DEF FilesystemRepair, InfrastructurePath, ProtectedWrite, TestWrite
<1> QED BY <1>2, <1>3, <1>4 DEF SharedChecks

\* So do the policies of the single program families.
LEMMA PolicyTypes ==
  ASSUME NEW s
  PROVE  /\ Privilege(s) \in Verdicts /\ GithubRouting(s) \in Verdicts /\ Forge(s) \in Verdicts
         /\ EnvironmentAssignment(s) \in Verdicts /\ Profile(s) \in Verdicts
         /\ PowerShellPolicy(s) \in Verdicts /\ CurlTransfer(s) \in Verdicts
<1> USE DEF Verdicts, When
<1>1. CurlTransfer(s) \in Verdicts /\ EnvironmentAssignment(s) \in Verdicts
      /\ Profile(s) \in Verdicts /\ Privilege(s) \in Verdicts
  BY DEF CurlTransfer, EnvironmentAssignment, Profile, Privilege
<1>2. GithubRouting(s) \in Verdicts
  BY DEF GithubRouting
<1>3. Forge(s) \in Verdicts
  <2> DEFINE first == When(Wrapped(s) \/ s.program = "gh", GithubCli(s))
             second == When(/\ Wrapped(s) \/ s.program \in {"gh", "glab"}
                            /\ s.sub \in {"release delete", "repo delete"}, "deny")
  <2>1. first \in Verdicts /\ second \in Verdicts
    BY DEF GithubCli
  <2> HIDE DEF first, second
  <2>2. <<first, second>> \in [1..2 -> Verdicts]
    BY <2>1
  <2>3. FirstObjection(<<first, second>>) \in Verdicts
    BY <2>2, FirstObjectionType
  <2> QED BY <2>3 DEF Forge, first, second
<1>4. PowerShellPolicy(s) \in Verdicts
  <2> DEFINE asked == When(s.program \in AskedCmdlets, "ask")
             parts == <<LaunchPolicy(s), ToolPolicy(s), IndirectPolicy(s), StatePolicy(s),
                        WebPolicy(s), PathPolicy(s), ScriptPolicy(s), asked>>
  <2>1. LaunchPolicy(s) \in Verdicts /\ ToolPolicy(s) \in Verdicts
    BY DEF LaunchPolicy, ToolPolicy
  <2>2. IndirectPolicy(s) \in Verdicts /\ StatePolicy(s) \in Verdicts
    BY <1>1 DEF IndirectPolicy, StatePolicy
  <2>3. WebPolicy(s) \in Verdicts /\ PathPolicy(s) \in Verdicts
    BY DEF WebPolicy, PathPolicy
  <2>4. ScriptPolicy(s) \in Verdicts /\ asked \in Verdicts
    BY DEF ScriptPolicy
  <2> HIDE DEF asked
  <2>5. parts \in [1..8 -> Verdicts]
    BY <2>1, <2>2, <2>3, <2>4
  <2> HIDE DEF parts
  <2>6. FirstObjection(parts) \in Verdicts
    BY <2>5, FirstObjectionType
  <2> QED BY <2>6 DEF PowerShellPolicy, parts, asked
<1> QED BY <1>1, <1>2, <1>3, <1>4

\* So does the choice by program name, whatever is said of interpreters.
LEMMA NamedType ==
  ASSUME NEW s, NEW interpreter \in Verdicts
  PROVE  Named(s, interpreter) \in Verdicts /\ AnyDelete(s) \in Verdicts
<1>1. /\ PosixDelete(s) \in Verdicts /\ PowerShellDelete(s) \in Verdicts
      /\ CmdDelete(s) \in Verdicts
  BY DEF PosixDelete, PowerShellDelete, CmdDelete, Delete, When, Verdicts
<1>2. AnyDelete(s) \in Verdicts
  <2> DEFINE T == {PosixDelete(s), PowerShellDelete(s), CmdDelete(s)}
  <2>1. T \in SUBSET Verdicts /\ T # {}
    BY <1>1
  <2> HIDE DEF T
  <2>2. Strongest(T) \in Verdicts
    BY <2>1, StrongestIs
  <2> QED BY <2>2 DEF AnyDelete, T
<1>3. Named(s, interpreter) \in Verdicts
  BY <1>2, PolicyTypes DEF Named, Verdicts
<1> QED BY <1>2, <1>3

\* A gate decides every statement with one of the verdicts.
LEMMA VerdictType ==
  ASSUME NEW shell \in Gates, NEW s
  PROVE  Verdict(shell, s) \in Verdicts
<1>1. BashVerdict(s) \in Verdicts
  <2> DEFINE started == When("--version" \notin s.words, "ask")
             asked == When(s.program = "$x", "ask")
             inbash == IF PolicyAppliesInBash(s) THEN PowerShellPolicy(s) ELSE "clear"
             policy == {Privilege(s), GithubRouting(s), Forge(s), inbash}
             T == IF s.program = "" THEN {Privilege(s), Truncation(s), TestWrite(s)}
                  ELSE IF ReadByName(s) THEN policy \cup {Named(s, started)}
                  ELSE policy \cup SharedChecks(s)
                         \cup {EnvironmentAssignment(s), Profile(s), asked}
  <2>1. started \in Verdicts /\ asked \in Verdicts /\ inbash \in Verdicts
    BY PolicyTypes DEF When, Verdicts
  <2>2. Named(s, started) \in Verdicts
    <3> HIDE DEF started
    <3> QED BY <2>1, NamedType
  <2>3. Truncation(s) \in Verdicts /\ TestWrite(s) \in Verdicts
    BY CheckTypes DEF SharedChecks
  <2>4. T \in SUBSET Verdicts /\ T # {}
    <3> HIDE DEF started, asked, inbash
    <3>1. policy \in SUBSET Verdicts /\ policy # {}
      BY <2>1, PolicyTypes
    <3> HIDE DEF policy
    <3> QED BY <2>1, <2>2, <2>3, <3>1, PolicyTypes, CheckTypes
  <2>5. Strongest(T) \in Verdicts
    <3> HIDE DEF T
    <3> QED BY <2>4, StrongestIs
  <2> QED BY <2>5 DEF BashVerdict
<1>2. PowerShellVerdict(s) \in Verdicts
  <2> DEFINE own == IF s.prefix = "none" THEN PowerShellPolicy(s) ELSE "clear"
             policy == {Privilege(s), GithubRouting(s), Forge(s), EnvironmentAssignment(s), own}
             T == IF s.program = "" THEN {Privilege(s), TestWrite(s)}
                  ELSE IF ReadByName(s) THEN policy \cup {Named(s, "clear")}
                  ELSE policy \cup SharedChecks(s) \cup {Profile(s)}
  <2>1. own \in Verdicts /\ "clear" \in Verdicts
    BY PolicyTypes DEF Verdicts
  <2>2. Named(s, "clear") \in Verdicts
    BY <2>1, NamedType
  <2>3. TestWrite(s) \in Verdicts
    BY CheckTypes DEF SharedChecks
  <2>4. T \in SUBSET Verdicts /\ T # {}
    <3> HIDE DEF own
    <3>1. policy \in SUBSET Verdicts /\ policy # {}
      BY <2>1, PolicyTypes
    <3> HIDE DEF policy
    <3> QED BY <2>2, <2>3, <3>1, PolicyTypes, CheckTypes
  <2>5. Strongest(T) \in Verdicts
    <3> HIDE DEF T
    <3> QED BY <2>4, StrongestIs
  <2> QED BY <2>5 DEF PowerShellVerdict
<1>3. CmdVerdict(s) \in Verdicts
  <2> DEFINE r == CmdProgram(s)
             T == SharedChecks(r) \cup {Privilege(r), CmdNamed(r), Forge(r), GithubRouting(r)}
  <2> HIDE DEF r
  <2>1. CmdNamed(r) \in Verdicts
    <3>1. Named(r, "ask") \in Verdicts
      BY NamedType DEF Verdicts
    <3> QED BY <3>1 DEF CmdNamed, ScheduledTasks, When, Verdicts
  <2>2. T \in SUBSET Verdicts /\ T # {}
    BY <2>1, PolicyTypes, CheckTypes
  <2>3. Strongest(T) \in Verdicts
    <3> HIDE DEF T
    <3> QED BY <2>2, StrongestIs
  <2>4. Truncation(r) \in Verdicts /\ TestWrite(r) \in Verdicts
    BY CheckTypes DEF SharedChecks
  <2>5. Stronger(Truncation(r), TestWrite(r)) \in Verdicts
    BY <2>4, StrongerIs
  <2> QED BY <2>3, <2>5 DEF CmdVerdict, r
<1> QED BY <1>1, <1>2, <1>3 DEF Verdict, Gates

\* So does git_verdict for a subcommand Git defines.
LEMMA KnownGitType ==
  ASSUME NEW s, NEW runs
  PROVE  KnownGit(s, runs) \in Verdicts
BY DEF KnownGit, GitRead, PushVerdict, BranchVerdict, CleanVerdict, FlagVerdict, When, Verdicts

-----------------------------------------------------------------------------
(* The stack of commands *)

\* What the stack and the history are made of.
Programs == {"none"} \cup {s.program : s \in Statements}
Frames == [verdict : Verdicts, previous : Programs, first : Nat]
Entries == [statement : Statements, depth : Nat, after : Programs]
\* The statements a run can have in hand, aliases replaced.
InHand == Statements \cup
            {[s EXCEPT !.sub = sub] : s \in Statements, sub \in AliasNames \cup Builtins}

\* Replacing the verdict of the command at the top changes nothing else.
LEMMA TopReplaced ==
  ASSUME NEW f \in Seq(Frames), f # <<>>, NEW v \in Verdicts
  PROVE  LET g == [f EXCEPT ![Len(f)].verdict = v]
         IN /\ g \in Seq(Frames) /\ Len(g) = Len(f) /\ g # <<>>
            /\ \A i \in 1..Len(f) : i # Len(f) => g[i] = f[i]
            /\ g[Len(f)].verdict = v /\ g[Len(f)].previous = f[Len(f)].previous
            /\ g[Len(f)].first = f[Len(f)].first
<1> DEFINE top == [f[Len(f)] EXCEPT !.verdict = v]
           g == [f EXCEPT ![Len(f)] = top]
<1>1. Len(f) \in Nat /\ Len(f) \in 1..Len(f) /\ f \in [1..Len(f) -> Frames]
  BY EmptySeq
<1>2. f[Len(f)] \in Frames
  BY <1>1
<1>3. /\ top \in Frames /\ top.verdict = v /\ top.previous = f[Len(f)].previous
      /\ top.first = f[Len(f)].first
  BY <1>2 DEF Frames
<1> HIDE DEF top
<1>4. g \in [1..Len(f) -> Frames] /\ g[Len(f)] = top
  BY <1>1, <1>3
<1>5. g \in Seq(Frames) /\ Len(g) = Len(f)
  BY <1>1, <1>4
<1>6. \A i \in 1..Len(f) : i # Len(f) => g[i] = f[i]
  BY <1>1
<1>7. g # <<>>
  BY <1>5, <1>1
<1>8. g = [f EXCEPT ![Len(f)].verdict = v]
  BY DEF top
<1> HIDE DEF g
<1> QED BY <1>3, <1>4, <1>5, <1>6, <1>7, <1>8

\* A merged verdict is heard at the top, and nothing else in the stack changes.
LEMMA MergeKeeps ==
  ASSUME frames \in Seq(Frames), frames # <<>>, NEW v \in Verdicts, Merge(v)
  PROVE  /\ frames' \in Seq(Frames) /\ Len(frames') = Len(frames) /\ frames' # <<>>
         /\ \A i \in 1..Len(frames) : i # Len(frames) => frames'[i] = frames[i]
         /\ frames'[Len(frames)].verdict = Stronger(frames[Len(frames)].verdict, v)
         /\ frames'[Len(frames)].previous = frames[Len(frames)].previous
         /\ frames'[Len(frames)].first = frames[Len(frames)].first
         /\ frames[Len(frames)].verdict \in Verdicts
<1>1. frames[Len(frames)].verdict \in Verdicts
  <2>1. Len(frames) \in 1..Len(frames)
    BY EmptySeq
  <2>2. frames[Len(frames)] \in Frames
    BY <2>1
  <2> QED BY <2>2 DEF Frames
<1>2. Stronger(frames[Len(frames)].verdict, v) \in Verdicts
  BY <1>1, StrongerIs
<1>3. frames' = [frames EXCEPT ![Len(frames)].verdict =
                   Stronger(frames[Len(frames)].verdict, v)]
  BY DEF Merge
<1> QED BY <1>1, <1>2, <1>3, TopReplaced

-----------------------------------------------------------------------------
(* The first inductive invariant: what a run has in hand, and that it fails  *)
(* closed.                                                                   *)

\* What is known of the run where it stands.
GateShape ==
  /\ GateTypeOK
  /\ frames \in Seq(Frames) /\ past \in Seq(Entries)
  /\ unread \in {"no", "gated", "harmless"} /\ attended \in BOOLEAN
  /\ at = "payload" => frames = <<>> /\ unread = "no"
  /\ at \notin {"payload", "ended"} => frames # <<>>
  /\ at = "decide" => Len(frames) = 1
  /\ at \in {"judge", "git", "alias"} => statement \in InHand
  /\ at = "alias" => statement.sub \in AliasNames

\* Some command of the stack has an objection.
Objected == \E i \in 1..Len(frames) : frames[i].verdict # "clear"

\* An unread command is an objection until the run has answered.
GateHears ==
  /\ at # "ended" => told = "nothing"
  /\ at # "ended" /\ unread = "gated" => Objected
  /\ UnreadFailsClosed
  /\ AskNeedsPerson

\* The inductive invariant behind FailsClosed.
GateInv == GateShape /\ GateHears

\* The types of a run in the middle: what a step there has to establish.
LEMMA ShapeStays ==
  ASSUME GateShape, at \notin {"payload", "ended"},
         frames' \in Seq(Frames), frames' # <<>>, Len(frames') <= MaxDepth + 1,
         past' \in Seq(Entries), UNCHANGED <<gate, attended>>,
         unread' \in {"no", "gated", "harmless"},
         calls' \in 0..RecursionLimit, config' \in Configs,
         runsProgram' \in {"unread", "yes", "no"},
         statement' \in InHand \cup {NoStatement},
         at' \in {"open", "read", "judge", "git", "alias", "close", "decide"},
         at' = "decide" => Len(frames') = 1,
         at' \in {"judge", "git", "alias"} => statement' \in InHand,
         at' = "alias" => statement'.sub \in AliasNames,
         UNCHANGED <<told, exit>>
  PROVE  GateShape'
<1>1. \A i \in DOMAIN frames' : frames'[i].verdict \in Verdicts
  <2>1. \A i \in DOMAIN frames' : frames'[i] \in Frames
    OBVIOUS
  <2> QED BY <2>1 DEF Frames
<1>2. exit' = "none" /\ told' \in {"nothing", "ask", "deny"}
  BY DEF GateShape, GateTypeOK, Configs
<1>3. GateTypeOK'
  <2>1. gate' \in Gates
    BY DEF GateShape, GateTypeOK, Configs
  <2> QED BY <1>1, <1>2, <2>1 DEF GateTypeOK, Configs, InHand
<1> QED BY <1>3 DEF GateShape

\* A statement whose alias was replaced is one a gate can have in hand.
LEMMA InHandSub ==
  ASSUME NEW s \in InHand, NEW sub \in AliasNames \cup Builtins
  PROVE  /\ [s EXCEPT !.sub = sub] \in InHand /\ [s EXCEPT !.sub = sub].sub = sub
         /\ s \in [program : STRING, sub : STRING \cup AliasNames \cup Builtins,
                   words : SUBSET STRING, redirects : SUBSET STRING, prefix : STRING]
<1> DEFINE Kind == [program : STRING, sub : STRING \cup AliasNames \cup Builtins,
                    words : SUBSET STRING, redirects : SUBSET STRING, prefix : STRING]
<1>1. \A r \in Statements : r \in Kind
  BY StatementsAssumption
<1>2. CASE s \in Statements
  BY <1>1, <1>2 DEF InHand
<1>3. CASE s \notin Statements
  <2>1. PICK r \in Statements, old \in AliasNames \cup Builtins : s = [r EXCEPT !.sub = old]
    BY <1>3 DEF InHand
  <2>2. r \in Kind
    BY <1>1
  <2>3. s \in Kind /\ [s EXCEPT !.sub = sub] = [r EXCEPT !.sub = sub]
        /\ [s EXCEPT !.sub = sub].sub = sub
    BY <2>1, <2>2
  <2> QED BY <2>3 DEF InHand
<1> QED BY <1>2, <1>3

\* A merge leaves a stack, and every objection in it.
LEMMA MergeInStack ==
  ASSUME GateShape, at \notin {"payload", "ended"}, NEW v \in Verdicts, Merge(v)
  PROVE  /\ frames' \in Seq(Frames) /\ frames' # <<>>
         /\ Len(frames') = Len(frames) /\ Len(frames') <= MaxDepth + 1
         /\ Objected => Objected'
         /\ v # "clear" => Objected'
<1>1. frames \in Seq(Frames) /\ frames # <<>> /\ Len(frames) <= MaxDepth + 1
  BY DEF GateShape, GateTypeOK, Configs
<1>2. /\ frames' \in Seq(Frames) /\ Len(frames') = Len(frames) /\ frames' # <<>>
      /\ \A i \in 1..Len(frames) : i # Len(frames) => frames'[i] = frames[i]
      /\ frames'[Len(frames)].verdict = Stronger(frames[Len(frames)].verdict, v)
      /\ frames[Len(frames)].verdict \in Verdicts
  BY <1>1, MergeKeeps
<1>3. Len(frames) \in 1..Len(frames)
  BY <1>1, EmptySeq
<1>4. v # "clear" => Objected'
  BY <1>2, <1>3, StrongerIs DEF Objected
<1>5. ASSUME NEW i \in 1..Len(frames), frames[i].verdict # "clear" PROVE frames'[i].verdict # "clear"
  BY <1>2, <1>5, StrongerIs
<1>6. Objected => Objected'
  BY <1>2, <1>5 DEF Objected
<1> QED BY <1>1, <1>2, <1>4, <1>6

\* While the run goes on, it only has to keep the objections.
LEMMA HearsOn ==
  ASSUME GateShape, GateHears, at # "ended", at' # "ended", UNCHANGED <<told, exit>>,
         unread' = "gated" => Objected'
  PROVE  GateHears'
<1>1. exit = "none"
  BY DEF GateShape, GateTypeOK, Configs
<1> QED BY <1>1 DEF GateHears, UnreadFailsClosed, AskNeedsPerson

\* The entries of the command at the top, which a parse failure judges anew.
Before == (Top.first + 1)..Len(past)
NamedBefore == \E i \in Before : NamesGated(past[i].statement)
WipedBefore == \E i \in Before : NamesWipe(past[i].statement)

\* An unread command leaves an objection exactly when it is gated; what its
\* readable lines name counts for the answer.
LEMMA UnparsedMeans ==
  ASSUME Unparsed
  PROVE  \E gated \in BOOLEAN, v \in Verdicts :
           /\ gated => v # "clear"
           /\ NamedBefore => gated
           /\ NamedBefore /\ WipedBefore => v = "deny"
           /\ frames' = [frames EXCEPT ![Len(frames)].verdict = v]
           /\ unread' = IF gated THEN "gated" ELSE "harmless"
           /\ lost' = lost \cup Before
           /\ at' = "close"
<1>1. PICK named \in BOOLEAN, wipes \in BOOLEAN :
        /\ frames' = [frames EXCEPT ![Len(frames)].verdict =
             UnparsedVerdict(named \/ NamedBefore, wipes \/ WipedBefore)]
        /\ unread' = IF named \/ NamedBefore THEN "gated" ELSE "harmless"
        /\ lost' = lost \cup Before
        /\ at' = "close"
  BY Zenon DEF Unparsed, GateAt, Before, NamedBefore, WipedBefore
<1>2. PICK gated \in BOOLEAN : gated <=> (named \/ NamedBefore)
  BY Zenon
<1>3. UnparsedVerdict(named \/ NamedBefore, wipes \/ WipedBefore) \in Verdicts
  BY DEF UnparsedVerdict, Verdicts
<1>4. /\ gated => UnparsedVerdict(named \/ NamedBefore, wipes \/ WipedBefore) # "clear"
      /\ NamedBefore /\ WipedBefore
           => UnparsedVerdict(named \/ NamedBefore, wipes \/ WipedBefore) = "deny"
  BY <1>2 DEF UnparsedVerdict
<1>5. unread' = IF gated THEN "gated" ELSE "harmless"
  BY <1>1, <1>2
<1> DEFINE v == UnparsedVerdict(named \/ NamedBefore, wipes \/ WipedBefore)
<1>6. /\ v \in Verdicts /\ (gated => v # "clear") /\ (NamedBefore => gated)
      /\ NamedBefore /\ WipedBefore => v = "deny"
      /\ frames' = [frames EXCEPT ![Len(frames)].verdict = v]
  BY <1>1, <1>2, <1>3, <1>4
<1> HIDE DEF v
<1> QED BY <1>1, <1>5, <1>6

\* The first command is always within the limit.
LEMMA DepthIsLimit == 0 <= MaxDepth + 1 /\ 1 <= MaxDepth + 1
BY DepthAssumption

\* The first statement of a command has no program before it.
LEMMA NoneBefore == "none" \in Programs
BY DEF Programs

\* A gate starts without a command, a configuration or an answer.
LEMMA GateInitEstablishes == GateInit => GateInv
<1> SUFFICES ASSUME GateInit PROVE GateInv
  OBVIOUS
<1> USE DEF GateInit
<1>1. config \in Configs
  BY DEF Configs
<1>2. 0 \in 0..RecursionLimit /\ 0 <= MaxDepth + 1
  BY DepthAssumption
<1>3. frames \in Seq(Frames) /\ past \in Seq(Entries) /\ Len(frames) = 0 /\ DOMAIN frames = {}
  BY EmptySeq
<1>4. GateTypeOK
  BY <1>1, <1>2, <1>3 DEF GateTypeOK, Configs
<1>5. GateShape
  BY <1>3, <1>4 DEF GateShape
<1> QED BY <1>5 DEF GateInv, GateHears, UnreadFailsClosed, AskNeedsPerson

\* The payload opens the first command, or answers at once.
LEMMA ReadPayloadKeeps == GateInv /\ ReadPayload => GateInv'
<1> SUFFICES ASSUME GateInv, ReadPayload PROVE GateInv'
  OBVIOUS
<1> USE DEF GateInv
<1>1. frames = <<>> /\ unread = "no" /\ told = "nothing" /\ exit = "none"
  BY DEF ReadPayload, GateShape, GateHears, GateTypeOK, Configs
<1>2. CASE Answer("deny") /\ UNCHANGED frames
  <2>1. /\ at' = "ended" /\ told' = "deny" /\ exit' = "block" /\ frames' = frames
        /\ UNCHANGED <<gate, statement, calls, config, runsProgram, attended, past, unread>>
    BY <1>2 DEF ReadPayload, Answer, GateAt
  <2>2. GateTypeOK'
    BY <2>1 DEF GateShape, GateTypeOK, Configs
  <2>3. GateShape'
    BY <2>1, <2>2 DEF GateShape
  <2> QED BY <1>1, <2>1, <2>3 DEF GateHears, UnreadFailsClosed, AskNeedsPerson
<1>3. CASE Answer("nothing") /\ UNCHANGED frames
  <2>1. /\ at' = "ended" /\ told' = "nothing" /\ exit' = "ok" /\ frames' = frames
        /\ UNCHANGED <<gate, statement, calls, config, runsProgram, attended, past, unread>>
    BY <1>3 DEF ReadPayload, Answer, GateAt
  <2>2. GateTypeOK'
    BY <2>1 DEF GateShape, GateTypeOK, Configs
  <2>3. GateShape'
    BY <2>1, <2>2 DEF GateShape
  <2> QED BY <1>1, <2>1, <2>3 DEF GateHears, UnreadFailsClosed, AskNeedsPerson
<1>4. CASE GateAt("open") /\ frames' = <<NewFrame>> /\ UNCHANGED <<told, exit>>
  <2>1. NewFrame \in Frames
    <3>1. Len(past) \in Nat
      <4>1. past \in Seq(Entries)
        BY DEF GateShape
      <4> QED BY <4>1, LenProperties
    <3>2. "clear" \in Verdicts /\ "none" \in Programs
      BY NoneBefore DEF Verdicts
    <3> QED BY <3>1, <3>2 DEF NewFrame, Frames
  <2>2. frames' \in Seq(Frames) /\ Len(frames') = 1 /\ frames'[1] = NewFrame
    BY <1>4, <2>1
  <2>3. \A i \in DOMAIN frames' : frames'[i].verdict \in Verdicts
    BY <2>1, <2>2 DEF Frames
  <2>4. /\ at' = "open" /\ told' = told /\ exit' = exit
        /\ UNCHANGED <<gate, statement, calls, config, runsProgram, attended, past, unread>>
    BY <1>4 DEF ReadPayload, GateAt
  <2>5. Len(frames') <= MaxDepth + 1 /\ frames' # <<>>
    <3>1. 1 <= MaxDepth + 1
      BY DepthIsLimit
    <3>2. frames' # <<>>
      <4>1. Len(frames') # Len(<< >>)
        BY <2>2
      <4> QED BY <4>1
    <3> QED BY <2>2, <3>1, <3>2
  <2>6. GateTypeOK'
    BY <1>1, <2>3, <2>4, <2>5 DEF GateShape, GateTypeOK, Configs
  <2>7. GateShape'
    BY <2>2, <2>4, <2>5, <2>6 DEF GateShape
  <2> QED BY <1>1, <2>4, <2>7 DEF GateHears, UnreadFailsClosed, AskNeedsPerson
<1> QED BY <1>2, <1>3, <1>4 DEF ReadPayload

\* An unread command closes with the objection it leaves.
LEMMA UnparsedKeeps ==
  ASSUME GateInv, at \in {"open", "read"}, Unparsed,
         UNCHANGED <<gate, statement, calls, config, runsProgram, told, exit, attended, past>>
  PROVE  GateInv'
<1> USE DEF GateInv
<1>1. PICK gated \in BOOLEAN, v \in Verdicts :
        /\ gated => v # "clear"
        /\ frames' = [frames EXCEPT ![Len(frames)].verdict = v]
        /\ unread' = IF gated THEN "gated" ELSE "harmless"
        /\ at' = "close"
  BY UnparsedMeans
<1>2. frames \in Seq(Frames) /\ frames # <<>> /\ Len(frames) <= MaxDepth + 1
  BY DEF GateShape, GateTypeOK, Configs
<1>3. /\ frames' \in Seq(Frames) /\ Len(frames') = Len(frames) /\ frames' # <<>>
      /\ frames'[Len(frames)].verdict = v
  BY <1>1, <1>2, TopReplaced
<1>4. unread' \in {"no", "gated", "harmless"} /\ (unread' = "gated" => gated)
  BY <1>1
<1>5. Len(frames) \in 1..Len(frames)
  BY <1>2, EmptySeq
<1>6. unread' = "gated" => Objected'
  BY <1>1, <1>3, <1>4, <1>5 DEF Objected
<1>7. /\ statement \in InHand \cup {NoStatement} /\ past \in Seq(Entries)
      /\ calls \in 0..RecursionLimit /\ config \in Configs
      /\ runsProgram \in {"unread", "yes", "no"}
  BY DEF GateShape, GateTypeOK, Configs, InHand
<1>8. GateShape'
  BY <1>1, <1>2, <1>3, <1>4, <1>7, ShapeStays
<1> QED BY <1>1, <1>6, <1>8, HearsOn

\* A command opens readable, or is searched as a whole.
LEMMA OpenCommandKeeps == GateInv /\ OpenCommand => GateInv'
<1> SUFFICES ASSUME GateInv, OpenCommand PROVE GateInv'
  OBVIOUS
<1> USE DEF GateInv
<1>1. /\ at = "open"
      /\ UNCHANGED <<gate, statement, calls, config, runsProgram, told, exit, attended, past>>
  BY DEF OpenCommand
<1>2. /\ statement \in InHand \cup {NoStatement} /\ past \in Seq(Entries)
      /\ calls \in 0..RecursionLimit /\ config \in Configs
      /\ runsProgram \in {"unread", "yes", "no"} /\ frames \in Seq(Frames)
      /\ frames # <<>> /\ Len(frames) <= MaxDepth + 1 /\ unread \in {"no", "gated", "harmless"}
  BY <1>1 DEF GateShape, GateTypeOK, Configs, InHand
<1>3. CASE GateAt("read") /\ UNCHANGED <<frames, lost, unread>>
  <2>1. at' = "read" /\ frames' = frames /\ unread' = unread
    BY <1>3 DEF GateAt
  <2>2. GateShape'
    BY <1>1, <1>2, <2>1, ShapeStays
  <2>3. unread' = "gated" => Objected'
    BY <1>1, <2>1 DEF GateHears, Objected
  <2> QED BY <1>1, <2>1, <2>2, <2>3, HearsOn
<1>4. CASE Unparsed
  BY <1>1, <1>4, UnparsedKeeps
<1>5. CASE Merge("deny") /\ unread' = "gated" /\ UNCHANGED lost /\ GateAt("close")
  <2>1. "deny" \in Verdicts /\ at' = "close"
    BY <1>5 DEF Verdicts, GateAt
  <2>2. /\ frames' \in Seq(Frames) /\ frames' # <<>> /\ Len(frames') <= MaxDepth + 1
        /\ Objected'
    BY <1>1, <1>5, <2>1, MergeInStack
  <2>3. GateShape'
    BY <1>1, <1>2, <1>5, <2>1, <2>2, ShapeStays
  <2> QED BY <1>1, <2>1, <2>2, <2>3, HearsOn
<1> QED BY <1>3, <1>4, <1>5 DEF OpenCommand

\* The next line of PowerShell opens, or leaves the command unreadable.
LEMMA ReadNextLineKeeps == GateInv /\ ReadNextLine => GateInv'
<1> SUFFICES ASSUME GateInv, ReadNextLine PROVE GateInv'
  OBVIOUS
<1> USE DEF GateInv
<1>1. /\ at = "read"
      /\ UNCHANGED <<gate, statement, calls, config, runsProgram, told, exit, attended, past>>
  BY DEF ReadNextLine
<1>2. /\ statement \in InHand \cup {NoStatement} /\ past \in Seq(Entries)
      /\ calls \in 0..RecursionLimit /\ config \in Configs
      /\ runsProgram \in {"unread", "yes", "no"} /\ frames \in Seq(Frames)
      /\ frames # <<>> /\ Len(frames) <= MaxDepth + 1 /\ unread \in {"no", "gated", "harmless"}
  BY <1>1 DEF GateShape, GateTypeOK, Configs, InHand
<1>3. CASE Unparsed
  BY <1>1, <1>3, UnparsedKeeps
<1>4. CASE /\ frames' = [frames EXCEPT ![Len(frames)].previous = "none"]
           /\ UNCHANGED <<at, lost, unread>>
  <2> DEFINE top == [frames[Len(frames)] EXCEPT !.previous = "none"]
  <2>1. Len(frames) \in 1..Len(frames) /\ frames[Len(frames)] \in Frames
    <3>1. Len(frames) \in 1..Len(frames)
      BY <1>2, EmptySeq
    <3> QED BY <1>2, <3>1
  <2>2. top \in Frames /\ top.verdict = frames[Len(frames)].verdict
    <3>1. "none" \in Programs
      BY NoneBefore
    <3> QED BY <2>1, <3>1 DEF Frames
  <2>3. frames' = [frames EXCEPT ![Len(frames)] = top]
    BY <1>4
  <2> HIDE DEF top
  <2>4. /\ frames' \in Seq(Frames) /\ Len(frames') = Len(frames) /\ frames' # <<>>
        /\ \A i \in 1..Len(frames) : frames'[i].verdict = frames[i].verdict
    BY <1>2, <2>1, <2>2, <2>3
  <2>5. GateShape'
    BY <1>1, <1>2, <1>4, <2>4, ShapeStays
  <2>6. unread' = "gated" => Objected'
    BY <1>1, <1>4, <2>4 DEF GateHears, Objected
  <2>7. at' = "read"
    BY <1>1, <1>4
  <2> QED BY <1>1, <2>5, <2>6, <2>7, HearsOn
<1> QED BY <1>3, <1>4 DEF ReadNextLine, Top

\* What is known of every run in the middle.
LEMMA InTheMiddle ==
  ASSUME GateShape, at \notin {"payload", "ended"}
  PROVE  /\ statement \in InHand \cup {NoStatement} /\ past \in Seq(Entries)
         /\ calls \in 0..RecursionLimit /\ config \in Configs /\ gate \in Gates
         /\ runsProgram \in {"unread", "yes", "no"} /\ frames \in Seq(Frames)
         /\ frames # <<>> /\ Len(frames) <= MaxDepth + 1
         /\ unread \in {"no", "gated", "harmless"} /\ exit = "none"
         /\ Len(frames) \in Nat /\ Len(frames) \in 1..Len(frames)
         /\ frames[Len(frames)] \in Frames /\ Len(past) \in Nat
<1>1. /\ statement \in InHand \cup {NoStatement} /\ past \in Seq(Entries)
      /\ calls \in 0..RecursionLimit /\ config \in Configs /\ gate \in Gates
      /\ runsProgram \in {"unread", "yes", "no"} /\ frames \in Seq(Frames)
      /\ frames # <<>> /\ Len(frames) <= MaxDepth + 1
      /\ unread \in {"no", "gated", "harmless"} /\ exit = "none"
  BY DEF GateShape, GateTypeOK, Configs, InHand
<1>2. Len(frames) \in Nat /\ Len(frames) \in 1..Len(frames) /\ Len(past) \in Nat
  BY <1>1, EmptySeq
<1>3. frames[Len(frames)] \in Frames
  BY <1>1, <1>2
<1> QED BY <1>1, <1>2, <1>3

\* One more statement is read: a gated program from now on is heard of.
LEMMA ReadStatementKeeps == GateInv /\ ReadStatement => GateInv'
<1> SUFFICES ASSUME GateInv, ReadStatement PROVE GateInv'
  OBVIOUS
<1>1. /\ at = "read" /\ GateShape /\ GateHears
      /\ UNCHANGED <<gate, config, runsProgram, told, exit, attended, unread>>
      /\ calls' = 0 /\ at' = "judge"
  BY DEF ReadStatement, GateAt, GateInv
<1>2. PICK s \in Statements :
        /\ statement' = s
        /\ past' = Append(past, [statement |-> s, depth |-> Depth, after |-> Top.previous])
        /\ frames' = [frames EXCEPT
             ![Len(frames)].verdict = Stronger(@, RemoteExecution(gate, Top.previous, s)),
             ![Len(frames)].previous = s.program]
  BY DEF ReadStatement
<1>3. /\ past \in Seq(Entries) /\ config \in Configs /\ gate \in Gates
      /\ runsProgram \in {"unread", "yes", "no"} /\ frames \in Seq(Frames)
      /\ frames # <<>> /\ Len(frames) <= MaxDepth + 1
      /\ unread \in {"no", "gated", "harmless"}
      /\ Len(frames) \in Nat /\ Len(frames) \in 1..Len(frames)
      /\ frames[Len(frames)] \in Frames
  BY <1>1, InTheMiddle
<1> DEFINE remote == RemoteExecution(gate, Top.previous, s)
           top == [frames[Len(frames)] EXCEPT
                     !.verdict = Stronger(frames[Len(frames)].verdict, remote),
                     !.previous = s.program]
<1>4. remote \in Verdicts
  BY DEF RemoteExecution, When, Verdicts
<1>5. frames' = [frames EXCEPT ![Len(frames)] = top]
  BY <1>2
<1>6. /\ frames[Len(frames)].verdict \in Verdicts
      /\ Stronger(frames[Len(frames)].verdict, remote) \in Verdicts
      /\ Stronger(frames[Len(frames)].verdict, remote) = "clear"
           => frames[Len(frames)].verdict = "clear"
  <2>1. frames[Len(frames)].verdict \in Verdicts
    BY <1>3 DEF Frames
  <2> HIDE DEF remote
  <2> QED BY <2>1, <1>4, StrongerIs
<1>7. /\ top \in Frames
      /\ top.verdict = Stronger(frames[Len(frames)].verdict, remote)
  <2>1. s.program \in Programs
    BY DEF Programs
  <2> HIDE DEF remote
  <2> QED BY <2>1, <1>3, <1>6 DEF Frames
<1>8. top.verdict = "clear" => frames[Len(frames)].verdict = "clear"
  BY <1>6, <1>7
<1> HIDE DEF top
<1>9. /\ frames' \in Seq(Frames) /\ Len(frames') = Len(frames) /\ frames' # <<>>
      /\ frames'[Len(frames)] = top
      /\ \A i \in 1..Len(frames) : i # Len(frames) => frames'[i] = frames[i]
  BY <1>3, <1>5, <1>7
<1>10. \A i \in 1..Len(frames) : frames[i].verdict # "clear" => frames'[i].verdict # "clear"
  BY <1>8, <1>9
<1>11. Objected => Objected'
  BY <1>9, <1>10 DEF Objected
<1>12. past' \in Seq(Entries)
  <2>1. Depth \in Nat /\ Top.previous \in Programs
    BY <1>3 DEF Depth, Top, Frames
  <2>2. [statement |-> s, depth |-> Depth, after |-> Top.previous] \in Entries
    BY <2>1 DEF Entries
  <2> QED BY <1>2, <1>3, <2>2, AppendProperties
<1>13. statement' \in InHand /\ 0 \in 0..RecursionLimit
  BY <1>2, DepthAssumption DEF InHand
<1>14. GateShape'
  BY <1>1, <1>3, <1>9, <1>12, <1>13, ShapeStays
<1>15. unread' = "gated" => Objected'
  BY <1>1, <1>11 DEF GateHears
<1> QED BY <1>1, <1>14, <1>15, HearsOn DEF GateInv

\* A step that merges a verdict and goes on keeps the invariant.
LEMMA MergeGoesOn ==
  ASSUME GateInv, at \notin {"payload", "ended"}, NEW v \in Verdicts, Merge(v),
         UNCHANGED <<gate, told, exit, attended, past, unread>>,
         calls' \in 0..RecursionLimit, config' \in Configs,
         runsProgram' \in {"unread", "yes", "no"}, statement' = statement,
         at' \in {"read", "close", "git"}, at' = "git" => statement \in InHand
  PROVE  GateInv'
<1>1. GateShape /\ GateHears
  BY DEF GateInv
<1>2. /\ frames' \in Seq(Frames) /\ frames' # <<>> /\ Len(frames') <= MaxDepth + 1
      /\ (Objected => Objected')
  BY <1>1, MergeInStack
<1>3. /\ past \in Seq(Entries) /\ statement \in InHand \cup {NoStatement}
      /\ unread \in {"no", "gated", "harmless"}
  BY <1>1, InTheMiddle
<1>4. GateShape'
  BY <1>1, <1>2, <1>3, ShapeStays
<1>5. unread' = "gated" => Objected'
  BY <1>1, <1>2 DEF GateHears
<1>6. at # "ended" /\ at' # "ended"
  OBVIOUS
<1> QED BY <1>1, <1>4, <1>5, <1>6, HearsOn DEF GateInv

\* A step that leaves the stack alone and goes on keeps the invariant.
LEMMA StackGoesOn ==
  ASSUME GateInv, at \notin {"payload", "ended"},
         UNCHANGED <<gate, told, exit, attended, past, unread, runsProgram, frames>>,
         calls' \in 0..RecursionLimit, config' \in Configs,
         statement' \in InHand \cup {NoStatement},
         at' \in {"close", "git", "alias", "decide"},
         at' \in {"git", "alias"} => statement' \in InHand,
         at' = "alias" => statement'.sub \in AliasNames,
         at' = "decide" => Len(frames) = 1
  PROVE  GateInv'
<1>1. GateShape /\ GateHears
  BY DEF GateInv
<1>2. /\ past \in Seq(Entries) /\ unread \in {"no", "gated", "harmless"}
      /\ frames \in Seq(Frames) /\ frames # <<>> /\ Len(frames) <= MaxDepth + 1
      /\ runsProgram \in {"unread", "yes", "no"}
  BY <1>1, InTheMiddle
<1>3. GateShape'
  BY <1>1, <1>2, ShapeStays
<1>4. at # "ended" /\ at' # "ended"
  OBVIOUS
<1>5. unread' = "gated" => Objected'
  BY <1>1, <1>4 DEF GateHears, Objected
<1> QED BY <1>1, <1>3, <1>4, <1>5, HearsOn DEF GateInv

\* The end of a command changes no verdict.
LEMMA EndCommandKeeps == GateInv /\ EndCommand => GateInv'
<1> SUFFICES ASSUME GateInv, EndCommand PROVE GateInv'
  OBVIOUS
<1>1. /\ at = "read" /\ at' = "close"
      /\ UNCHANGED <<gate, frames, statement, calls, config, runsProgram, told, exit,
                     attended, past, unread>>
  BY DEF EndCommand, GateAt
<1>2. /\ calls \in 0..RecursionLimit /\ config \in Configs
      /\ statement \in InHand \cup {NoStatement}
  BY <1>1, InTheMiddle DEF GateInv
<1> QED BY <1>1, <1>2, StackGoesOn

\* After a statement the run closes the command or reads on.
LEMMA AfterStatementGoesOn == \A v : AfterStatement(v) \in {"read", "close"}
BY DEF AfterStatement

\* A statement is judged, and a nested command opens within the limit.
LEMMA JudgeStatementKeeps == GateInv /\ JudgeStatement => GateInv'
<1> SUFFICES ASSUME GateInv, JudgeStatement PROVE GateInv'
  OBVIOUS
<1> DEFINE own == Verdict(gate, statement)
<1>1. /\ at = "judge" /\ GateShape /\ GateHears
      /\ UNCHANGED <<gate, statement, config, runsProgram, told, exit, attended,
                     past, unread>>
      /\ calls' \in {1, calls}
  BY DEF JudgeStatement, GateInv
<1>2. /\ past \in Seq(Entries) /\ calls' \in 0..RecursionLimit /\ config \in Configs
      /\ gate \in Gates /\ runsProgram \in {"unread", "yes", "no"} /\ frames \in Seq(Frames)
      /\ frames # <<>> /\ Len(frames) <= MaxDepth + 1
      /\ unread \in {"no", "gated", "harmless"}
      /\ Len(frames) \in Nat /\ Len(frames) \in 1..Len(frames)
      /\ frames[Len(frames)] \in Frames /\ Len(past) \in Nat
      /\ statement \in InHand \cup {NoStatement}
  BY <1>1, InTheMiddle, DepthAssumption
<1>3. own \in Verdicts /\ "ask" \in Verdicts /\ "deny" \in Verdicts
  BY <1>2, VerdictType DEF Verdicts
<1>4. Stronger(own, "ask") \in Verdicts
  <2> HIDE DEF own
  <2> QED BY <1>3, StrongerIs
<1>5. statement \in InHand
  BY <1>1 DEF GateShape
<1>6. \/ Merge(Stronger(own, "ask")) /\ GateAt("read")
      \/ Merge("deny") /\ GateAt("read")
      \/ /\ MayNest
         /\ frames' = Append([frames EXCEPT ![Len(frames)].verdict = Stronger(@, own)], NewFrame)
         /\ GateAt("open")
      \/ Merge(own) /\ GateAt("git")
      \/ Merge(own) /\ GateAt(AfterStatement(own))
  BY DEF JudgeStatement
<1> HIDE DEF own
<1>7. CASE Merge(Stronger(own, "ask")) /\ GateAt("read")
  BY <1>1, <1>2, <1>4, <1>7, MergeGoesOn DEF GateAt
<1>8. CASE Merge("deny") /\ GateAt("read")
  BY <1>1, <1>2, <1>3, <1>8, MergeGoesOn DEF GateAt
<1>9. CASE Merge(own) /\ GateAt("git")
  BY <1>1, <1>2, <1>3, <1>5, <1>9, MergeGoesOn DEF GateAt
<1>10. CASE Merge(own) /\ GateAt(AfterStatement(own))
  <2>1. at' \in {"read", "close"}
    BY <1>10, AfterStatementGoesOn DEF GateAt
  <2> QED BY <1>1, <1>2, <1>3, <1>10, <2>1, MergeGoesOn
<1>11. CASE /\ MayNest
            /\ frames' = Append([frames EXCEPT ![Len(frames)].verdict = Stronger(@, own)],
                                NewFrame)
            /\ GateAt("open")
  <2> DEFINE v == Stronger(frames[Len(frames)].verdict, own)
             under == [frames EXCEPT ![Len(frames)].verdict = v]
  <2>1. frames[Len(frames)].verdict \in Verdicts
    BY <1>2 DEF Frames
  <2>2. v \in Verdicts /\ (v = "clear" => frames[Len(frames)].verdict = "clear")
    BY <1>3, <2>1, StrongerIs
  <2>3. frames' = Append(under, NewFrame)
    BY <1>11
  <2> HIDE DEF v
  <2>4. /\ under \in Seq(Frames) /\ Len(under) = Len(frames)
        /\ under[Len(frames)].verdict = v
        /\ \A i \in 1..Len(frames) : i # Len(frames) => under[i] = frames[i]
    BY <1>2, <2>2, TopReplaced
  <2> HIDE DEF under
  <2>5. NewFrame \in Frames
    BY <1>2, NoneBefore DEF NewFrame, Frames, Verdicts
  <2>6. /\ frames' \in Seq(Frames) /\ Len(frames') = Len(frames) + 1
        /\ \A i \in 1..Len(frames) : frames'[i] = under[i]
    BY <2>3, <2>4, <2>5, AppendProperties
  <2>7. Len(frames') <= MaxDepth + 1 /\ frames' # <<>>
    <3>1. Len(frames) - 1 < MaxDepth /\ MaxDepth \in Nat
      BY <1>11, DepthAssumption DEF MayNest, Depth
    <3>2. Len(frames') # 0
      BY <1>2, <2>6
    <3> QED BY <1>2, <2>6, <3>1, <3>2, EmptySeq
  <2>8. at' = "open"
    BY <1>11 DEF GateAt
  <2>9. GateShape'
    BY <1>1, <1>2, <2>6, <2>7, <2>8, ShapeStays
  <2>10. \A i \in 1..Len(frames) : frames[i].verdict # "clear" => frames'[i].verdict # "clear"
    BY <2>2, <2>4, <2>6
  <2>11. Objected => Objected'
    <3> SUFFICES ASSUME NEW i \in 1..Len(frames), frames[i].verdict # "clear"
                 PROVE  Objected'
      BY DEF Objected
    <3>1. i \in 1..Len(frames')
      BY <1>2, <2>6
    <3>2. frames'[i].verdict # "clear"
      BY <2>10
    <3> QED BY <3>1, <3>2 DEF Objected
  <2>12. unread' = "gated" => Objected'
    BY <1>1, <2>11 DEF GateHears
  <2> QED BY <1>1, <2>8, <2>9, <2>12, HearsOn DEF GateInv
<1> QED BY <1>6, <1>7, <1>8, <1>9, <1>10, <1>11

\* What git_verdict says of a subcommand, with the configuration read.
GitVerdict(s, runs) == IF s.sub \in {"", "$x"} THEN "ask" ELSE KnownGit(s, runs = "yes")

\* A subcommand of Git's own is judged.
LEMMA JudgeGitKeeps == GateInv /\ JudgeGit => GateInv'
<1> SUFFICES ASSUME GateInv, JudgeGit PROVE GateInv'
  OBVIOUS
<1> DEFINE verdict == GitVerdict(statement, runsProgram')
<1>1. /\ at = "git" /\ GateShape
      /\ UNCHANGED <<gate, statement, calls, config, told, exit, attended, past, unread>>
      /\ Merge(verdict) /\ GateAt(AfterStatement(verdict))
  BY DEF JudgeGit, GateInv, GitVerdict
<1>2. /\ calls \in 0..RecursionLimit /\ config \in Configs
      /\ runsProgram \in {"unread", "yes", "no"}
  BY <1>1, InTheMiddle
<1>3. runsProgram' \in {"unread", "yes", "no"}
  BY <1>2 DEF JudgeGit
<1>4. verdict \in Verdicts
  BY KnownGitType DEF GitVerdict, Verdicts
<1> HIDE DEF verdict
<1>5. at' \in {"read", "close"}
  BY <1>1, AfterStatementGoesOn DEF GateAt
<1> QED BY <1>1, <1>2, <1>3, <1>4, <1>5, MergeGoesOn

\* The configuration is chosen once.
LEMMA LookUpAliasKeeps == GateInv /\ LookUpAlias => GateInv'
<1> SUFFICES ASSUME GateInv, LookUpAlias PROVE GateInv'
  OBVIOUS
<1>1. /\ at = "git" /\ GateShape /\ statement.sub \in AliasNames
      /\ UNCHANGED <<gate, frames, statement, runsProgram, told, exit, attended, past, unread>>
      /\ calls' = calls /\ at' = "alias"
  BY DEF LookUpAlias, GateAt, GateInv
<1>2. config \in Configs /\ calls \in 0..RecursionLimit
  BY <1>1, InTheMiddle
<1>3. config' \in Configs
  BY <1>2 DEF LookUpAlias, Configs
<1>4. calls' \in 0..RecursionLimit
  BY <1>1, <1>2
<1>5. statement \in InHand
  BY <1>1 DEF GateShape
<1> QED BY <1>1, <1>3, <1>4, <1>5, StackGoesOn

\* An alias is replaced, asked about, or one too many for the recursion.
LEMMA ExpandAliasKeeps == GateInv /\ ExpandAlias => GateInv'
<1> SUFFICES ASSUME GateInv, ExpandAlias PROVE GateInv'
  OBVIOUS
<1> DEFINE expansion == CommandTable(config)[statement.sub]
<1>1. /\ at = "alias" /\ GateShape /\ GateHears
      /\ UNCHANGED <<gate, config, runsProgram, told, attended, past, unread>>
  BY DEF ExpandAlias, GateInv
<1>2. /\ calls \in 0..RecursionLimit /\ config \in Configs
      /\ runsProgram \in {"unread", "yes", "no"} /\ exit = "none"
  BY <1>1, InTheMiddle
<1>3. statement \in InHand /\ statement.sub \in AliasNames
  BY <1>1 DEF GateShape
<1>4. /\ expansion \in Expansions
      /\ expansion.kind = "git" => expansion.sub \in AliasNames \cup Builtins
  <2>1. PICK table \in AliasTables : table = CommandTable(config)
    BY <1>2, TablesAre
  <2> QED BY <2>1, <1>3 DEF AliasTables, Expansions
<1>5. CASE expansion.kind # "git"
  <2>1. /\ Merge("ask") /\ GateAt(AfterStatement("ask")) /\ UNCHANGED <<statement, calls, exit>>
    BY <1>1, <1>5 DEF ExpandAlias
  <2>2. at' \in {"read", "close"} /\ "ask" \in Verdicts
    BY <2>1, AfterStatementGoesOn DEF GateAt, Verdicts
  <2> QED BY <1>1, <1>2, <2>1, <2>2, MergeGoesOn
<1>6. CASE expansion.kind = "git" /\ MayRecurse
  <2>1. /\ statement' = [statement EXCEPT !.sub = expansion.sub]
        /\ calls' = NextCall /\ at' = "git" /\ UNCHANGED <<frames, exit>>
    BY <1>1, <1>6 DEF ExpandAlias, GateAt
  <2>2. statement' \in InHand
    BY <1>3, <1>4, <1>6, <2>1, InHandSub
  <2>3. calls' \in 0..RecursionLimit
    <3>1. calls < RecursionLimit /\ RecursionLimit \in Nat
      BY <1>6, DepthAssumption DEF MayRecurse
    <3> QED BY <1>2, <2>1, <3>1 DEF NextCall
  <2> QED BY <1>1, <1>2, <2>1, <2>2, <2>3, StackGoesOn
<1>7. CASE expansion.kind = "git" /\ ~MayRecurse
  <2>1. /\ exit' = "error" /\ at' = "ended" /\ UNCHANGED <<frames, statement, calls>>
    BY <1>1, <1>7 DEF ExpandAlias, GateAt
  <2>2. told' = "nothing"
    BY <1>1 DEF GateHears
  <2>3. GateTypeOK'
    BY <1>1, <2>1, <2>2 DEF GateShape, GateTypeOK, Configs
  <2>4. GateShape'
    BY <1>1, <2>1, <2>3 DEF GateShape
  <2> QED BY <2>1, <2>2, <2>4 DEF GateInv, GateHears, UnreadFailsClosed, AskNeedsPerson
<1> QED BY <1>5, <1>6, <1>7

\* Closing a nested command: its verdict goes into the command around it.
LEMMA PoppedStack ==
  ASSUME GateShape, at = "close", CloseCommand, Depth # 0
  PROVE  LET n == Len(frames) - 1
         IN /\ n \in Nat /\ n >= 1 /\ Len(frames) = n + 1
            /\ frames' \in Seq(Frames) /\ Len(frames') = n /\ frames' # <<>>
            /\ \A i \in 1..n : i # n => frames'[i] = frames[i]
            /\ frames[n].verdict \in Verdicts /\ frames[n + 1].verdict \in Verdicts
            /\ frames'[n].verdict = Stronger(frames[n].verdict, frames[n + 1].verdict)
            /\ frames'[n].first = frames[n].first
<1> DEFINE n == Len(frames) - 1
           under == SubSeq(frames, 1, n)
           v == Stronger(frames[n].verdict, frames[n + 1].verdict)
<1>1. frames \in Seq(Frames) /\ Len(frames) \in Nat /\ Len(frames) \in 1..Len(frames)
  BY InTheMiddle
<1>2. n \in Nat /\ n >= 1 /\ Len(frames) = n + 1
  <2>1. PICK length \in Nat : length = Len(frames) /\ length >= 1
    BY <1>1
  <2>2. length # 1
    BY <2>1 DEF Depth
  <2> QED BY <2>1, <2>2
<1> HIDE DEF n
<1>3. /\ under \in Seq(Frames) /\ Len(under) = n
      /\ \A i \in 1..n : under[i] = frames[i]
  <2>1. \A i \in 1..n : frames[i] \in Frames
    BY <1>1, <1>2
  <2>2. 1 \in 1..Len(frames) /\ n \in 1..Len(frames)
    BY <1>2
  <2> QED BY <1>1, <1>2, <2>1, <2>2, SubSeqProperties
<1> HIDE DEF under
<1>4. frames[n] \in Frames /\ frames[n + 1] \in Frames
  BY <1>1, <1>2
<1>5. frames[n].verdict \in Verdicts /\ frames[n + 1].verdict \in Verdicts
  BY <1>4 DEF Frames
<1>6. v \in Verdicts
  BY <1>5, StrongerIs
<1>7. under # <<>>
  <2>1. Len(under) # Len(<< >>)
    BY <1>2, <1>3
  <2> QED BY <2>1
<1>8. frames' = [under EXCEPT ![n].verdict = v]
  <2>1. frames' = [SubSeq(frames, 1, Depth) EXCEPT ![Depth].verdict = Stronger(@, Top.verdict)]
    BY DEF CloseCommand
  <2>2. Depth = n /\ Top = frames[n + 1] /\ under[n] = frames[n]
    BY <1>2, <1>3 DEF Depth, Top, n
  <2> QED BY <2>1, <2>2 DEF under
<1> HIDE DEF v
<1>9. /\ frames' \in Seq(Frames) /\ Len(frames') = n /\ frames' # <<>>
      /\ \A i \in 1..n : i # n => frames'[i] = under[i]
      /\ frames'[n].verdict = v /\ frames'[n].first = under[n].first
  BY <1>3, <1>6, <1>7, <1>8, TopReplaced
<1>10. frames'[n].first = frames[n].first
  BY <1>2, <1>3, <1>9
<1> QED BY <1>2, <1>3, <1>5, <1>9, <1>10 DEF n, v

\* A command that closes hands its verdict to the one around it.
LEMMA CloseCommandKeeps == GateInv /\ CloseCommand => GateInv'
<1> SUFFICES ASSUME GateInv, CloseCommand PROVE GateInv'
  OBVIOUS
<1>1. /\ at = "close" /\ GateShape /\ GateHears
      /\ UNCHANGED <<gate, statement, calls, config, runsProgram, told, exit, attended,
                     past, unread>>
  BY DEF CloseCommand, GateInv
<1>2. /\ past \in Seq(Entries) /\ calls \in 0..RecursionLimit /\ config \in Configs
      /\ runsProgram \in {"unread", "yes", "no"} /\ statement \in InHand \cup {NoStatement}
      /\ Len(frames) \in Nat /\ Len(frames) <= MaxDepth + 1
      /\ unread \in {"no", "gated", "harmless"}
  BY <1>1, InTheMiddle
<1>3. CASE Depth = 0
  <2>1. at' = "decide" /\ frames' = frames
    BY <1>3 DEF CloseCommand, GateAt
  <2>2. Len(frames) = 1
    BY <1>2, <1>3 DEF Depth
  <2> QED BY <1>1, <1>2, <2>1, <2>2, StackGoesOn
<1>4. CASE Depth # 0
  <2> DEFINE n == Len(frames) - 1
  <2>1. /\ n \in Nat /\ n >= 1 /\ Len(frames) = n + 1
        /\ frames' \in Seq(Frames) /\ Len(frames') = n /\ frames' # <<>>
        /\ \A i \in 1..n : i # n => frames'[i] = frames[i]
        /\ frames[n].verdict \in Verdicts /\ frames[n + 1].verdict \in Verdicts
        /\ frames'[n].verdict = Stronger(frames[n].verdict, frames[n + 1].verdict)
    BY <1>1, <1>4, PoppedStack
  <2> HIDE DEF n
  <2>2. at' = "read"
    BY <1>4 DEF CloseCommand, GateAt
  <2>3. Len(frames') <= MaxDepth + 1
    <3>1. MaxDepth \in Nat
      BY DepthAssumption
    <3> QED BY <1>2, <2>1, <3>1
  <2>4. GateShape'
    BY <1>1, <1>2, <2>1, <2>2, <2>3, ShapeStays
  <2>5. ASSUME NEW i \in 1..(n + 1), frames[i].verdict # "clear" PROVE Objected'
    <3>1. frames[n].verdict # "clear" \/ frames[n + 1].verdict # "clear"
            => frames'[n].verdict # "clear"
      BY <2>1, StrongerIs
    <3>2. n \in 1..n
      BY <2>1
    <3>3. CASE i \in {n, n + 1}
      BY <2>1, <2>5, <3>1, <3>2, <3>3 DEF Objected
    <3>4. CASE i \notin {n, n + 1}
      <4>1. i \in 1..n /\ frames'[i] = frames[i]
        BY <2>1, <3>4
      <4> QED BY <2>1, <2>5, <4>1 DEF Objected
    <3> QED BY <3>3, <3>4
  <2>6. unread' = "gated" => Objected'
    BY <1>1, <2>1, <2>5 DEF GateHears, Objected
  <2> QED BY <1>1, <2>2, <2>4, <2>6, HearsOn DEF GateInv
<1> QED BY <1>3, <1>4

\* The answer is the verdict of the outermost command, or stricter.
LEMMA DecideKeeps == GateInv /\ Decide => GateInv'
<1> SUFFICES ASSUME GateInv, Decide PROVE GateInv'
  OBVIOUS
<1>1. /\ at = "decide" /\ GateShape /\ GateHears /\ attended' \in BOOLEAN
      /\ UNCHANGED <<gate, frames, statement, calls, config, runsProgram, past, unread>>
      /\ told' = Told(Top.verdict, attended') /\ at' = "ended"
      /\ exit' = IF told' = "deny" THEN "block" ELSE "ok"
  BY DEF Decide, Answer, GateAt, GateInv
<1>2. Len(frames) = 1 /\ frames[Len(frames)] \in Frames
  BY <1>1, InTheMiddle DEF GateShape
<1>3. Top = frames[1] /\ Top.verdict \in Verdicts
  BY <1>2 DEF Top, Frames
<1>4. /\ told' \in Verdicts \cup {"nothing"}
      /\ told' = "nothing" <=> Top.verdict = "clear"
      /\ told' = "ask" => attended'
      /\ told' # "clear"
  BY <1>1, <1>3 DEF Told, Verdicts
<1>5. GateTypeOK'
  BY <1>1, <1>4 DEF GateShape, GateTypeOK, Configs, Verdicts
<1>6. GateShape'
  BY <1>1, <1>5 DEF GateShape
<1>7. unread = "gated" => Top.verdict # "clear"
  <2>1. \A i \in 1..Len(frames) : i = 1
    BY <1>2
  <2> QED BY <1>1, <1>3, <2>1 DEF GateHears, Objected
<1>8. UnreadFailsClosed'
  BY <1>1, <1>4, <1>7 DEF UnreadFailsClosed
<1>9. Top' = Top
  BY <1>1 DEF Top
<1>10. AskNeedsPerson'
  BY <1>1, <1>4, <1>9 DEF AskNeedsPerson
<1> QED BY <1>1, <1>6, <1>8, <1>10 DEF GateInv, GateHears

\* All steps together, and those of nobody.
LEMMA GateStepKeeps == GateInv /\ [GateNext]_gateVars => GateInv'
<1> SUFFICES ASSUME GateInv, [GateNext]_gateVars PROVE GateInv'
  OBVIOUS
<1>1. CASE UNCHANGED gateVars
  <2> USE DEF gateVars
  <2>1. GateTypeOK'
    BY <1>1 DEF GateInv, GateShape, GateTypeOK, Configs
  <2>2. GateShape'
    BY <1>1, <2>1 DEF GateInv, GateShape
  <2>3. GateHears'
    BY <1>1 DEF GateInv, GateHears, Objected, UnreadFailsClosed, AskNeedsPerson, Top
  <2> QED BY <2>2, <2>3 DEF GateInv
<1> QED BY <1>1, ReadPayloadKeeps, OpenCommandKeeps, ReadNextLineKeeps, ReadStatementKeeps,
           EndCommandKeeps, JudgeStatementKeeps, JudgeGitKeeps, LookUpAliasKeeps,
           ExpandAliasKeeps, CloseCommandKeeps, DecideKeeps DEF GateNext

\* A run keeps the invariant.
THEOREM GateInvariant == GateSpec => []GateInv
BY GateInitEstablishes, GateStepKeeps, PTL DEF GateSpec

\* What cannot be read, and what nobody can answer, is refused, for every set
\* of statements, every configuration and every depth of nesting.
THEOREM FailsClosedHolds == GateSpec => []FailsClosed
<1>1. GateInv => FailsClosed
  BY DEF GateInv, GateShape, GateHears, FailsClosed
<1> QED BY <1>1, GateInvariant, PTL

-----------------------------------------------------------------------------
(* Deletes *)

\* Strongest of "clear" and one more verdict is that verdict.
LEMMA StrongestWithClear ==
  ASSUME NEW v \in Verdicts, NEW T, T \subseteq {"clear", v}, v \in T
  PROVE  Strongest(T) = v
<1>1. "clear" \in Verdicts
  BY DEF Verdicts
<1>2. T \in SUBSET Verdicts /\ T # {}
  BY <1>1
<1>3. \A w \in T : Below(w, v)
  BY <1>1, BelowOrders
<1> QED BY <1>2, <1>3, StrongestIs

\* A delete that no prefix hides, and one that every gate reads alike.
NamedDelete(s) == s.program \in DeletePrograms /\ s.prefix = "none"
PlainDelete(s) == NamedDelete(s) /\ ~ReadByOneGate(s)

\* Every gate reads a delete by its name, with the flags of all three shells.
LEMMA DeleteIsNamed ==
  ASSUME NEW s, NamedDelete(s)
  PROVE  /\ ReadByName(s) /\ s.program # "" /\ CmdProgram(s) = s
         /\ \A v : Named(s, v) = AnyDelete(s)
         /\ CmdNamed(s) = AnyDelete(s)
<1> USE DEF When, DeletePrograms, NamedDelete
<1>1. ReadByName(s) /\ s.program # "" /\ CmdProgram(s) = s
  BY DEF ReadByName, CmdProgram
<1>2. \A v : Named(s, v) = AnyDelete(s)
  BY DEF Named, Prohibited, CurlTransfer, Interpreters
<1>3. CmdNamed(s) = AnyDelete(s)
  BY <1>2 DEF CmdNamed
<1> QED BY <1>1, <1>2, <1>3

\* No gate's verdict is weaker than that.
LEMMA DeleteIsHeard ==
  ASSUME NEW s, NamedDelete(s), NEW shell \in Gates
  PROVE  Below(AnyDelete(s), Verdict(shell, s))
<1>1. AnyDelete(s) \in Verdicts /\ "clear" \in Verdicts
  BY NamedType DEF Verdicts
<1>2. Below(AnyDelete(s), BashVerdict(s))
  <2> DEFINE started == When("--version" \notin s.words, "ask")
             inbash == IF PolicyAppliesInBash(s) THEN PowerShellPolicy(s) ELSE "clear"
             T == {Privilege(s), GithubRouting(s), Forge(s), inbash} \cup {Named(s, started)}
  <2>1. inbash \in Verdicts /\ Named(s, started) = AnyDelete(s)
    BY <1>1, PolicyTypes, DeleteIsNamed
  <2>2. BashVerdict(s) = Strongest(T)
    BY DeleteIsNamed DEF BashVerdict
  <2>3. T \in SUBSET Verdicts /\ AnyDelete(s) \in T
    <3> HIDE DEF inbash, started
    <3> QED BY <1>1, <2>1, PolicyTypes
  <2> HIDE DEF T
  <2> QED BY <2>2, <2>3, StrongestIs
<1>3. Below(AnyDelete(s), PowerShellVerdict(s))
  <2> DEFINE own == IF s.prefix = "none" THEN PowerShellPolicy(s) ELSE "clear"
             T == {Privilege(s), GithubRouting(s), Forge(s), EnvironmentAssignment(s), own}
                    \cup {Named(s, "clear")}
  <2>1. own \in Verdicts /\ Named(s, "clear") = AnyDelete(s)
    BY <1>1, PolicyTypes, DeleteIsNamed
  <2>2. PowerShellVerdict(s) = Strongest(T)
    BY DeleteIsNamed DEF PowerShellVerdict
  <2>3. T \in SUBSET Verdicts /\ AnyDelete(s) \in T
    <3> HIDE DEF own
    <3> QED BY <1>1, <2>1, PolicyTypes
  <2> HIDE DEF T
  <2> QED BY <2>2, <2>3, StrongestIs
<1>4. Below(AnyDelete(s), CmdVerdict(s))
  <2> DEFINE T == SharedChecks(s) \cup {Privilege(s), CmdNamed(s), Forge(s), GithubRouting(s)}
  <2>1. CmdNamed(s) = AnyDelete(s)
    BY DeleteIsNamed
  <2>2. CmdVerdict(s) = Strongest(T)
    BY DeleteIsNamed DEF CmdVerdict
  <2>3. T \in SUBSET Verdicts /\ AnyDelete(s) \in T
    BY <1>1, <2>1, PolicyTypes, CheckTypes
  <2> HIDE DEF T
  <2> QED BY <2>2, <2>3, StrongestIs
<1> QED BY <1>2, <1>3, <1>4 DEF Verdict, Gates

\* The other checks of the gates have nothing to say of it.
LEMMA DeletePassesChecks ==
  ASSUME NEW s, PlainDelete(s)
  PROVE  SharedChecks(s) \subseteq {"clear"}
<1> USE DEF When, DeletePrograms, PlainDelete, NamedDelete
<1>1. /\ "/etc/*" \notin s.words /\ "main.tf" \notin s.words /\ s.redirects = {}
      /\ s.program \in {"robocopy", "xcopy"}
           => "hooks/h" \notin s.words /\ "tests/t" \notin s.words
  BY DEF Has, ReadByOneGate
<1>2. /\ Recovery(s) = "clear" /\ DeviceWrite(s) = "clear" /\ MassOperation(s) = "clear"
      /\ Logging(s) = "clear" /\ Disguised(s) = "clear"
  BY <1>1 DEF Recovery, DeviceWrite, MassOperation, Logging, Disguised
<1>3. Destruction(s) = "clear"
  <2> DEFINE T == {Recovery(s), DeviceWrite(s), MassOperation(s), Logging(s), Disguised(s)}
  <2>1. T \subseteq {"clear", "clear"} /\ "clear" \in T /\ "clear" \in Verdicts
    BY <1>2 DEF Verdicts
  <2> HIDE DEF T
  <2>2. Strongest(T) = "clear"
    BY <2>1, StrongestWithClear
  <2> QED BY <2>2 DEF Destruction, T
<1>4. /\ DefinesAlias(s) = "clear" /\ ModeChange(s) = "clear" /\ Truncation(s) = "clear"
      /\ Process(s) = "clear" /\ Schedule(s) = "clear" /\ FilesystemRepair(s) = "clear"
  BY <1>1 DEF DefinesAlias, ModeChange, Truncation, Process, Schedule, FilesystemRepair
<1>5. "hooks/h" \notin Targets(s) /\ "tests/t" \notin Targets(s)
  BY <1>1 DEF Targets, Writers
<1>6. InfrastructurePath(s) = "clear" /\ ProtectedWrite(s) = "clear" /\ TestWrite(s) = "clear"
  BY <1>1, <1>5 DEF InfrastructurePath, ProtectedWrite, TestWrite
<1> QED BY <1>3, <1>4, <1>6 DEF SharedChecks

\* No policy of a shell objects to it.
LEMMA DeletePassesPolicies ==
  ASSUME NEW s, PlainDelete(s)
  PROVE  /\ Privilege(s) = "clear" /\ GithubRouting(s) = "clear" /\ Forge(s) = "clear"
         /\ EnvironmentAssignment(s) = "clear" /\ PowerShellPolicy(s) = "clear"
<1> USE DEF When, DeletePrograms, PlainDelete, NamedDelete
<1>1. Privilege(s) = "clear" /\ GithubRouting(s) = "clear" /\ EnvironmentAssignment(s) = "clear"
  BY DEF Privilege, GithubRouting, EnvironmentAssignment, Wrapped, GitSubstitute
<1>2. Forge(s) = "clear"
  <2> DEFINE first == When(Wrapped(s) \/ s.program = "gh", GithubCli(s))
             second == When(/\ Wrapped(s) \/ s.program \in {"gh", "glab"}
                            /\ s.sub \in {"release delete", "repo delete"}, "deny")
  <2>1. first = "clear" /\ second = "clear" /\ "clear" \in Verdicts
    BY DEF Wrapped, Verdicts
  <2> HIDE DEF first, second
  <2>2. <<first, second>> \in [1..2 -> Verdicts] /\ \A i \in 1..2 : <<first, second>>[i] = "clear"
    BY <2>1
  <2>3. FirstObjection(<<first, second>>) = "clear"
    <3> DEFINE both == <<first, second>>
    <3>1. both \in [1..2 -> Verdicts] /\ \A i \in 1..2 : both[i] = "clear"
      BY <2>2
    <3> HIDE DEF both
    <3>2. FirstObjection(both) = "clear"
      BY <3>1, FirstObjectionType
    <3> QED BY <3>2 DEF both
  <2> QED BY <2>3 DEF Forge, first, second
<1>3. PowerShellPolicy(s) = "clear"
  <2> DEFINE asked == When(s.program \in AskedCmdlets, "ask")
             parts == <<LaunchPolicy(s), ToolPolicy(s), IndirectPolicy(s), StatePolicy(s),
                        WebPolicy(s), PathPolicy(s), ScriptPolicy(s), asked>>
  <2>1. LaunchPolicy(s) = "clear" /\ ToolPolicy(s) = "clear" /\ IndirectPolicy(s) = "clear"
    BY DEF LaunchPolicy, ToolPolicy, IndirectPolicy
  <2>2. StatePolicy(s) = "clear" /\ WebPolicy(s) = "clear" /\ PathPolicy(s) = "clear"
    BY DEF StatePolicy, WebPolicy, PathPolicy, RegistryWriters, ReadByOneGate, Has
  <2>3. ScriptPolicy(s) = "clear" /\ asked = "clear" /\ "clear" \in Verdicts
    BY DEF ScriptPolicy, AskedCmdlets, Verdicts
  <2> HIDE DEF asked
  <2>4. parts \in [1..8 -> Verdicts] /\ \A i \in 1..8 : parts[i] = "clear"
    BY <2>1, <2>2, <2>3
  <2> HIDE DEF parts
  <2>5. FirstObjection(parts) = "clear"
    BY <2>4, FirstObjectionType
  <2> QED BY <2>5 DEF PowerShellPolicy, parts, asked
<1> QED BY <1>1, <1>2, <1>3

\* Every gate judges it by the flags of all three shells.
LEMMA DeleteVerdict ==
  ASSUME NEW s, PlainDelete(s), NEW shell \in Gates
  PROVE  Verdict(shell, s) = AnyDelete(s)
<1> USE DEF PlainDelete
<1>1. AnyDelete(s) \in Verdicts /\ "clear" \in Verdicts
  BY NamedType DEF Verdicts
<1>2. BashVerdict(s) = AnyDelete(s)
  <2> DEFINE started == When("--version" \notin s.words, "ask")
             inbash == IF PolicyAppliesInBash(s) THEN PowerShellPolicy(s) ELSE "clear"
             T == {Privilege(s), GithubRouting(s), Forge(s), inbash} \cup {Named(s, started)}
  <2>1. T \subseteq {"clear", AnyDelete(s)} /\ AnyDelete(s) \in T
    BY DeletePassesPolicies, DeleteIsNamed
  <2>2. BashVerdict(s) = Strongest(T)
    BY DeletePassesPolicies, DeleteIsNamed DEF BashVerdict
  <2> HIDE DEF T
  <2> QED BY <1>1, <2>1, <2>2, StrongestWithClear
<1>3. PowerShellVerdict(s) = AnyDelete(s)
  <2> DEFINE own == IF s.prefix = "none" THEN PowerShellPolicy(s) ELSE "clear"
             T == {Privilege(s), GithubRouting(s), Forge(s), EnvironmentAssignment(s), own}
                    \cup {Named(s, "clear")}
  <2>1. T \subseteq {"clear", AnyDelete(s)} /\ AnyDelete(s) \in T
    BY DeletePassesPolicies, DeleteIsNamed
  <2>2. PowerShellVerdict(s) = Strongest(T)
    BY DeletePassesPolicies, DeleteIsNamed DEF PowerShellVerdict
  <2> HIDE DEF T
  <2> QED BY <1>1, <2>1, <2>2, StrongestWithClear
<1>4. CmdVerdict(s) = AnyDelete(s)
  <2> DEFINE T == SharedChecks(s) \cup {Privilege(s), CmdNamed(s), Forge(s), GithubRouting(s)}
  <2>1. T \subseteq {"clear", AnyDelete(s)} /\ AnyDelete(s) \in T
    BY DeletePassesPolicies, DeletePassesChecks, DeleteIsNamed
  <2>2. CmdVerdict(s) = Strongest(T)
    BY DeletePassesPolicies, DeleteIsNamed DEF CmdVerdict
  <2> HIDE DEF T
  <2> QED BY <1>1, <2>1, <2>2, StrongestWithClear
<1> QED BY <1>2, <1>3, <1>4 DEF Verdict, Gates

-----------------------------------------------------------------------------
(* An expansion does not change what Git ends at *)

\* A reader that has a subcommand in hand and has come through some aliases.
At(sub, visited) == [sub |-> sub, visited |-> visited]

\* It is a reading, of that subcommand and those aliases.
LEMMA AtReads ==
  ASSUME NEW sub \in AliasNames \cup Builtins \cup {"none"}, NEW V \in SUBSET AliasNames
  PROVE  At(sub, V) \in Readings /\ At(sub, V).sub = sub /\ At(sub, V).visited = V
BY DEF At, Readings

\* The readings of Git, one by one: a command of its own,
LEMMA GitCommand ==
  ASSUME NEW table \in AliasTables, NEW V \in SUBSET AliasNames,
         NEW sub \in Builtins \cup {"none"}, ~Starts(sub)
  PROVE  GitEnds(table)[At(sub, V)] = [ends |-> "command", sub |-> sub]
<1>1. At(sub, V) \in Readings /\ At(sub, V).sub = sub
  BY AtReads
<1> QED BY <1>1, GitEndsAre

\* an alias that has been visited,
LEMMA GitLoop ==
  ASSUME NEW table \in AliasTables, NEW V \in SUBSET AliasNames, NEW a \in AliasNames, a \in V
  PROVE  GitEnds(table)[At(a, V)] = [ends |-> "loop", sub |-> a]
<1>1. At(a, V) \in Readings /\ At(a, V).sub = a /\ At(a, V).visited = V /\ Starts(a)
  BY AtReads DEF Starts
<1> QED BY <1>1, GitEndsAre

\* one that Git cannot follow,
LEMMA GitStops ==
  ASSUME NEW table \in AliasTables, NEW V \in SUBSET AliasNames, NEW a \in AliasNames, a \notin V,
         table[a].kind # "git"
  PROVE  /\ GitEnds(table)[At(a, V)] = [ends |-> table[a].kind, sub |-> table[a].sub]
         /\ table[a].kind \in {"shell", "undefined"}
<1>1. At(a, V) \in Readings /\ At(a, V).sub = a /\ At(a, V).visited = V /\ Starts(a)
  BY AtReads DEF Starts
<1>2. table[a].kind \in {"shell", "undefined"}
  BY <1>1, FollowReads
<1> QED BY <1>1, <1>2, GitEndsAre

\* and one that it does.
LEMMA GitFollows ==
  ASSUME NEW table \in AliasTables, NEW V \in SUBSET AliasNames, NEW a \in AliasNames, a \notin V,
         table[a].kind = "git"
  PROVE  /\ table[a].sub \in AliasNames \cup Builtins
         /\ GitEnds(table)[At(a, V)] = GitEnds(table)[At(table[a].sub, V \cup {a})]
<1>1. At(a, V) \in Readings /\ At(a, V).sub = a /\ At(a, V).visited = V /\ Starts(a)
  BY AtReads DEF Starts
<1>2. Follow(table, At(a, V)) = At(table[a].sub, V \cup {a})
  BY <1>1 DEF Follow, At
<1>3. table[a].sub \in AliasNames \cup Builtins
  BY <1>1, FollowReads
<1> QED BY <1>1, <1>2, <1>3, GitEndsAre

\* An end that is no loop is found as well with fewer aliases visited.
LEMMA FewerVisited ==
  ASSUME NEW table \in AliasTables
  PROVE  \A r \in Readings : \A V \in SUBSET r.visited :
           GitEnds(table)[r].ends # "loop" => GitEnds(table)[At(r.sub, V)] = GitEnds(table)[r]
<1> DEFINE Says(r) == \A V \in SUBSET r.visited :
                        GitEnds(table)[r].ends # "loop"
                          => GitEnds(table)[At(r.sub, V)] = GitEnds(table)[r]
    T == {r \in Readings : Says(r)}
    rank == [r \in Readings |-> AliasesLeft(r)]
<1>1. rank \in [Readings -> Nat]
  BY AliasesLeftType
<1>2. ASSUME NEW r \in Readings, \A y \in Readings : rank[y] < rank[r] => y \in T
      PROVE  r \in T
  <2> SUFFICES ASSUME NEW V \in SUBSET r.visited, GitEnds(table)[r].ends # "loop"
               PROVE  GitEnds(table)[At(r.sub, V)] = GitEnds(table)[r]
    OBVIOUS
  <2>1. PICK x \in AliasNames \cup Builtins \cup {"none"}, U \in SUBSET AliasNames :
          r.sub = x /\ r.visited = U /\ r = At(x, U)
    BY DEF Readings, At
  <2> SUFFICES GitEnds(table)[At(x, V)] = GitEnds(table)[At(x, U)]
    BY <2>1
  <2>7. GitEnds(table)[At(x, U)].ends # "loop" /\ V \in SUBSET AliasNames /\ V \in SUBSET U
    BY <2>1
  <2>2. CASE ~Starts(x)
    <3>1. x \in Builtins \cup {"none"}
      BY <2>2 DEF Starts
    <3>2. GitEnds(table)[At(x, U)] = [ends |-> "command", sub |-> x]
      BY <2>2, <3>1, GitCommand
    <3>3. GitEnds(table)[At(x, V)] = [ends |-> "command", sub |-> x]
      BY <2>2, <2>7, <3>1, GitCommand
    <3> QED BY <3>2, <3>3
  <2>3. CASE Starts(x)
    <3>1. x \in AliasNames
      BY <2>3 DEF Starts
    <3>2. x \notin U /\ x \notin V
      <4>1. x \in U => GitEnds(table)[At(x, U)] = [ends |-> "loop", sub |-> x]
        BY <3>1, GitLoop
      <4>2. x \notin U
        BY <2>7, <4>1
      <4> QED BY <2>7, <4>2
    <3>3. CASE table[x].kind # "git"
      <4>1. GitEnds(table)[At(x, U)] = [ends |-> table[x].kind, sub |-> table[x].sub]
        BY <3>1, <3>2, <3>3, GitStops
      <4>2. GitEnds(table)[At(x, V)] = [ends |-> table[x].kind, sub |-> table[x].sub]
        BY <2>7, <3>1, <3>2, <3>3, GitStops
      <4> QED BY <4>1, <4>2
    <3>4. CASE table[x].kind = "git"
      <4> DEFINE next == Follow(table, r)
      <4>1. next \in Readings /\ rank[next] < rank[r]
        BY <2>1, <2>3, <3>2, FollowReads, AliasesFall
      <4>2. next.sub = table[x].sub /\ next.visited = U \cup {x}
            /\ next = At(table[x].sub, U \cup {x})
        BY <2>1 DEF Follow, At
      <4>3. Says(next)
        BY <1>2, <4>1
      <4>4. GitEnds(table)[At(x, U)] = GitEnds(table)[At(table[x].sub, U \cup {x})]
        BY <3>1, <3>2, <3>4, GitFollows
      <4>5. GitEnds(table)[At(x, V)] = GitEnds(table)[At(table[x].sub, V \cup {x})]
        BY <2>7, <3>1, <3>2, <3>4, GitFollows
      <4> HIDE DEF next
      <4>6. V \cup {x} \in SUBSET next.visited
        BY <2>7, <4>2
      <4>7. GitEnds(table)[next].ends # "loop"
        BY <2>7, <4>2, <4>4
      <4>8. GitEnds(table)[At(next.sub, V \cup {x})] = GitEnds(table)[next]
        BY <4>3, <4>6, <4>7
      <4> QED BY <4>2, <4>4, <4>5, <4>8
    <3> QED BY <3>3, <3>4
  <2> QED BY <2>2, <2>3
<1>3. \A r \in Readings : (\A y \in Readings : rank[y] < rank[r] => y \in T) => r \in T
  BY <1>2
<1>4. \A r \in Readings : r \in T
  <2> HIDE DEF T, rank
  <2> QED BY <1>1, <1>3, RankInduction
<1> QED BY <1>4

\* Forbidding one more alias changes the end only of a reading that gets to it.
LEMMA OneMoreVisited ==
  ASSUME NEW table \in AliasTables, NEW a \in AliasNames
  PROVE  \A r \in Readings : a \notin r.visited =>
           \/ GitEnds(table)[At(r.sub, r.visited \cup {a})] = GitEnds(table)[r]
           \/ \E W \in SUBSET AliasNames :
                a \notin W /\ GitEnds(table)[r] = GitEnds(table)[At(a, W)]
<1> DEFINE Says(r) == a \notin r.visited =>
             \/ GitEnds(table)[At(r.sub, r.visited \cup {a})] = GitEnds(table)[r]
             \/ \E W \in SUBSET AliasNames :
                  a \notin W /\ GitEnds(table)[r] = GitEnds(table)[At(a, W)]
    T == {r \in Readings : Says(r)}
    rank == [r \in Readings |-> AliasesLeft(r)]
<1>1. rank \in [Readings -> Nat]
  BY AliasesLeftType
<1>2. ASSUME NEW r \in Readings, \A y \in Readings : rank[y] < rank[r] => y \in T
      PROVE  r \in T
  <2> SUFFICES ASSUME a \notin r.visited PROVE Says(r)
    OBVIOUS
  <2>1. PICK x \in AliasNames \cup Builtins \cup {"none"}, U \in SUBSET AliasNames :
          r.sub = x /\ r.visited = U /\ r = At(x, U)
    BY DEF Readings, At
  <2>6. PICK more \in SUBSET AliasNames : more = U \cup {a}
    OBVIOUS
  <2> SUFFICES \/ GitEnds(table)[At(x, more)] = GitEnds(table)[At(x, U)]
               \/ \E W \in SUBSET AliasNames :
                    a \notin W /\ GitEnds(table)[At(x, U)] = GitEnds(table)[At(a, W)]
    BY <2>1, <2>6
  <2>7. a \notin U
    BY <2>1
  <2>2. CASE ~Starts(x)
    <3>1. x \in Builtins \cup {"none"}
      BY <2>2 DEF Starts
    <3>2. GitEnds(table)[At(x, U)] = [ends |-> "command", sub |-> x]
      BY <2>2, <3>1, GitCommand
    <3>3. GitEnds(table)[At(x, more)] = [ends |-> "command", sub |-> x]
      BY <2>2, <3>1, GitCommand
    <3> QED BY <3>2, <3>3
  <2>3. CASE x = a
    BY <2>3, <2>7
  <2>4. CASE Starts(x) /\ x # a
    <3>1. x \in AliasNames /\ (x \in more <=> x \in U)
      BY <2>4, <2>6 DEF Starts
    <3>2. CASE x \in U
      <4>1. GitEnds(table)[At(x, U)] = [ends |-> "loop", sub |-> x]
        BY <3>1, <3>2, GitLoop
      <4>2. GitEnds(table)[At(x, more)] = [ends |-> "loop", sub |-> x]
        BY <3>1, <3>2, GitLoop
      <4> QED BY <4>1, <4>2
    <3>3. CASE x \notin U /\ table[x].kind # "git"
      <4>1. GitEnds(table)[At(x, U)] = [ends |-> table[x].kind, sub |-> table[x].sub]
        BY <3>1, <3>3, GitStops
      <4>2. GitEnds(table)[At(x, more)] = [ends |-> table[x].kind, sub |-> table[x].sub]
        BY <3>1, <3>3, GitStops
      <4> QED BY <4>1, <4>2
    <3>4. CASE x \notin U /\ table[x].kind = "git"
      <4> DEFINE next == Follow(table, r)
      <4>1. next \in Readings /\ rank[next] < rank[r]
        BY <2>1, <2>4, <3>4, FollowReads, AliasesFall
      <4>2. next.sub = table[x].sub /\ next.visited = U \cup {x}
            /\ next = At(table[x].sub, U \cup {x})
        BY <2>1 DEF Follow, At
      <4>3. Says(next) /\ a \notin next.visited
        BY <1>2, <2>4, <2>7, <4>1, <4>2
      <4>4. GitEnds(table)[At(x, U)] = GitEnds(table)[At(table[x].sub, U \cup {x})]
        BY <3>1, <3>4, GitFollows
      <4>5. GitEnds(table)[At(x, more)] = GitEnds(table)[At(table[x].sub, more \cup {x})]
        BY <3>1, <3>4, GitFollows
      <4>6. next.visited \cup {a} = more \cup {x}
        BY <2>6, <4>2
      <4> HIDE DEF next
      <4>7. \/ GitEnds(table)[At(next.sub, next.visited \cup {a})] = GitEnds(table)[next]
            \/ \E W \in SUBSET AliasNames :
                 a \notin W /\ GitEnds(table)[next] = GitEnds(table)[At(a, W)]
        BY <4>3
      <4>8. GitEnds(table)[next] = GitEnds(table)[At(x, U)]
        BY <4>2, <4>4
      <4>9. GitEnds(table)[At(next.sub, next.visited \cup {a})] = GitEnds(table)[At(x, more)]
        BY <4>2, <4>5, <4>6
      <4> QED BY <4>7, <4>8, <4>9
    <3> QED BY <3>2, <3>3, <3>4
  <2> QED BY <2>2, <2>3, <2>4
<1>3. \A r \in Readings : (\A y \in Readings : rank[y] < rank[r] => y \in T) => r \in T
  BY <1>2
<1>4. \A r \in Readings : r \in T
  <2> HIDE DEF T, rank
  <2> QED BY <1>1, <1>3, RankInduction
<1> QED BY <1>4

\* Both end at the same command, or neither ends at one.
SameEnd(one, other) ==
  /\ one.ends = "command" <=> other.ends = "command"
  /\ one.ends = "command" => one = other

\* An alias that stands for a subcommand ends where that subcommand ends.
LEMMA ExpansionEndsThere ==
  ASSUME NEW table \in AliasTables, NEW a \in AliasNames, table[a].kind = "git"
  PROVE  SameEnd(GitRuns(table, a), GitRuns(table, table[a].sub))
<1> DEFINE b == table[a].sub
<1>1. b \in AliasNames \cup Builtins /\ b \in AliasNames \cup Builtins \cup {"none"}
  <2>1. {} \in SUBSET AliasNames /\ a \notin {}
    OBVIOUS
  <2> QED BY <2>1, GitFollows
<1>2. /\ GitRuns(table, a) = GitEnds(table)[At(a, {})]
      /\ GitRuns(table, b) = GitEnds(table)[At(b, {})]
  BY DEF GitRuns, First, At
<1> HIDE DEF b
<1>3. \A W \in SUBSET AliasNames :
        a \notin W => GitEnds(table)[At(a, W)] = GitEnds(table)[At(b, W \cup {a})]
  BY GitFollows DEF b
<1>4. {} \in SUBSET AliasNames /\ {a} \in SUBSET AliasNames /\ {} \cup {a} = {a}
  OBVIOUS
<1>5. GitEnds(table)[At(a, {})] = GitEnds(table)[At(b, {a})]
  BY <1>3, <1>4
<1>6. ASSUME NEW W \in SUBSET AliasNames, NEW V \in SUBSET W,
             GitEnds(table)[At(b, W)].ends = "command"
      PROVE  GitEnds(table)[At(b, V)] = GitEnds(table)[At(b, W)]
  <2>1. At(b, W) \in Readings /\ At(b, W).sub = b /\ At(b, W).visited = W
    BY <1>1, AtReads
  <2> QED BY <1>6, <2>1, FewerVisited
<1>7. CASE GitEnds(table)[At(b, {a})].ends = "command"
  <2>1. GitEnds(table)[At(b, {})] = GitEnds(table)[At(b, {a})]
    BY <1>4, <1>6, <1>7
  <2> QED BY <1>2, <1>5, <1>7, <2>1 DEF SameEnd, b
<1>8. CASE GitEnds(table)[At(b, {})].ends = "command"
  <2>1. At(b, {}) \in Readings /\ At(b, {}).sub = b /\ At(b, {}).visited = {}
    BY <1>1, <1>4, AtReads
  <2>2. \/ GitEnds(table)[At(b, {a})] = GitEnds(table)[At(b, {})]
        \/ \E W \in SUBSET AliasNames :
             a \notin W /\ GitEnds(table)[At(b, {})] = GitEnds(table)[At(a, W)]
    <3>1. PICK r \in Readings : r = At(b, {}) /\ r.sub = b /\ r.visited = {}
      BY <2>1
    <3>2. a \notin r.visited /\ At(r.sub, r.visited \cup {a}) = At(b, {a})
      BY <3>1
    <3>3. \/ GitEnds(table)[At(r.sub, r.visited \cup {a})] = GitEnds(table)[r]
          \/ \E W \in SUBSET AliasNames :
               a \notin W /\ GitEnds(table)[r] = GitEnds(table)[At(a, W)]
      BY <3>2, OneMoreVisited
    <3> QED BY <3>1, <3>2, <3>3
  <2>3. ASSUME NEW W \in SUBSET AliasNames, a \notin W,
               GitEnds(table)[At(b, {})] = GitEnds(table)[At(a, W)]
        PROVE  GitEnds(table)[At(b, {a})] = GitEnds(table)[At(b, {})]
    <3>1. GitEnds(table)[At(b, W \cup {a})] = GitEnds(table)[At(b, {})]
      BY <1>3, <2>3
    <3>2. W \cup {a} \in SUBSET AliasNames /\ {a} \in SUBSET (W \cup {a})
      OBVIOUS
    <3>3. GitEnds(table)[At(b, {a})] = GitEnds(table)[At(b, W \cup {a})]
      BY <1>6, <1>8, <3>1, <3>2
    <3> QED BY <3>1, <3>3
  <2>4. GitEnds(table)[At(b, {a})] = GitEnds(table)[At(b, {})]
    BY <2>2, <2>3
  <2> QED BY <1>2, <1>5, <1>8, <2>4 DEF SameEnd, b
<1>9. CASE GitEnds(table)[At(b, {a})].ends # "command" /\ GitEnds(table)[At(b, {})].ends # "command"
  BY <1>2, <1>5, <1>9 DEF SameEnd, b
<1> QED BY <1>7, <1>8, <1>9

-----------------------------------------------------------------------------
(* The second inductive invariant: what the stack of commands says together  *)
(* is what the statements read so far deserve together.                      *)

\* The strongest of some verdicts, "clear" when there is none.
Over(f) == Strongest({"clear"} \cup {f[i] : i \in DOMAIN f})

\* What the commands of a stack say.
Said(stack) == [k \in 1..Len(stack) |-> stack[k].verdict]

\* The part of what an entry deserves that has to be said by now: at its
\* judgement the pipe it ends, while Git is asked its own verdict as well,
\* and all of it once the run has gone on.
OwedBy(shell, place, c, runs, entry) ==
  LET remote == RemoteExecution(shell, entry.after, entry.statement)
  IN IF place = "judge" THEN remote
     ELSE IF place \in {"git", "alias"}
     THEN Strongest({remote, Verdict(shell, entry.statement)})
     ELSE DeservedIn(shell, c, runs, entry)
\* The same of all that was read, where the last entry is the one in hand.
Owes(shell, place, c, runs, entries) ==
  [i \in 1..Len(entries) |->
     OwedBy(shell, IF i = Len(entries) THEN place ELSE "read", c, runs, entries[i])]

\* What the configuration and the answer about programs can still become.
ConfigsFrom(c) == IF c = NoConfiguration THEN Configs ELSE {c}
RunsFrom(runs) == IF runs = "unread" THEN {"unread", "yes", "no"} ELSE {runs}

\* None of them changes what the entry deserves.
Fixed(shell, configs, answers, entry) ==
  \E v \in Verdicts : \A t \in configs, r \in answers : DeservedIn(shell, t, r, entry) = v

\* All entries but the one in hand are settled.
InHandAt(place) == place \in {"judge", "git", "alias"}
Settled(shell, place, c, runs, entries) ==
  \A i \in 1..Len(entries) :
    \/ i = Len(entries) /\ InHandAt(place)
    \/ Fixed(shell, ConfigsFrom(c), RunsFrom(runs), entries[i])

\* The statement in hand is the last one read, with its alias replaced by
\* something that ends where it ends.
Replaced(sub) ==
  LET s == past[Len(past)].statement
  IN /\ s.sub \in AliasNames /\ config # NoConfiguration
     /\ sub \in AliasNames \cup Builtins
     /\ SameEnd(GitRuns(CommandTable(config), s.sub), GitRuns(CommandTable(config), sub))
\* What a run has in hand comes from the last statement it read.
OfLast ==
  LET entry == past[Len(past)]
      s == entry.statement
  IN /\ past # <<>>
     /\ at = "judge" => statement = s /\ entry.depth = Depth
     /\ at \in {"git", "alias"} =>
          /\ s.program = "git" /\ (gate = "cmd" => s.prefix = "none")
          /\ statement = [s EXCEPT !.sub = statement.sub]
     /\ at = "git" => statement.sub = s.sub \/ Replaced(statement.sub)
     /\ at = "alias" => Replaced(statement.sub)

\* Every step keeps what a command has said, or adds to it.
Grows(f, g) ==
  /\ f \in Seq(Frames) /\ g \in Seq(Frames) /\ f # <<>> /\ Len(f) <= Len(g)
  /\ \A k \in 1..Len(f) : g[k].first = f[k].first /\ Below(f[k].verdict, g[k].verdict)
\* The commands of a stack start one after the other, none after the n-th entry.
Started(f, n) ==
  \A k \in 1..Len(f) : /\ f[k].first <= n
                       /\ \A m \in 1..Len(f) : k <= m => f[k].first <= f[m].first
\* A command that the i-th entry belongs to says at least v.
Heard(f, i, v) == \E k \in 1..Len(f) : f[k].first < i /\ Below(v, f[k].verdict)
\* What is left to be heard of the i-th entry.
Owing(i) ==
  IF i \in lost THEN Remains(past[i].statement)
  ELSE Owes(gate, at, config, runsProgram, past)[i]

\* Of every statement that was read the open commands say what it owes, or what
\* a parse failure has left of it.
HeardInv ==
  at \notin {"payload", "ended"} =>
    /\ lost \subseteq 1..Len(past) /\ Started(frames, Len(past))
    /\ InHandAt(at) => frames[Len(frames)].first < Len(past)
    /\ \A i \in 1..Len(past) : Heard(frames, i, Owing(i))

\* What the statements read so far deserve, no later answer of Git's
\* configuration changes; when no parse failure has taken something back, the
\* open commands together say just that.
DecisionInv ==
  /\ at = "payload" => past = <<>> /\ lost = {}
  /\ at \notin {"payload", "ended"} =>
       /\ Settled(gate, at, config, runsProgram, past)
       /\ InHandAt(at) => OfLast
       /\ unread = "no" =>
            Over(Said(frames)) = Over(Owes(gate, at, config, runsProgram, past))
  /\ HeardInv

-----------------------------------------------------------------------------
(* The strongest of a sequence of verdicts *)

\* It is a verdict, no verdict of the sequence is stronger, and it is one of
\* them or "clear".
LEMMA OverIs ==
  ASSUME NEW n \in Nat, NEW f \in [1..n -> Verdicts]
  PROVE  /\ Over(f) \in Verdicts
         /\ \A i \in 1..n : Below(f[i], Over(f))
         /\ Over(f) = "clear" \/ \E i \in 1..n : Over(f) = f[i]
<1> DEFINE T == {"clear"} \cup {f[i] : i \in DOMAIN f}
<1>1. T \in SUBSET Verdicts /\ T # {} /\ DOMAIN f = 1..n
  BY DEF Verdicts
<1>2. \A i \in 1..n : f[i] \in T
  BY <1>1
<1>3. \A v \in T : v = "clear" \/ \E i \in 1..n : v = f[i]
  BY <1>1
<1> HIDE DEF T
<1>4. /\ Strongest(T) \in T /\ Strongest(T) \in Verdicts
      /\ \A w \in T : Below(w, Strongest(T))
  BY <1>1, StrongestIs
<1>5. Over(f) = Strongest(T)
  BY DEF Over, T
<1> QED BY <1>2, <1>3, <1>4, <1>5

\* A verdict with these properties is the strongest.
LEMMA OverIsOnly ==
  ASSUME NEW n \in Nat, NEW f \in [1..n -> Verdicts], NEW v \in Verdicts,
         \A i \in 1..n : Below(f[i], v),
         v = "clear" \/ \E i \in 1..n : Below(v, f[i])
  PROVE  Over(f) = v
<1>1. /\ Over(f) \in Verdicts /\ \A i \in 1..n : Below(f[i], Over(f))
      /\ Over(f) = "clear" \/ \E i \in 1..n : Over(f) = f[i]
  BY OverIs
<1>2. \A i \in 1..n : f[i] \in Verdicts
  OBVIOUS
<1>3. Below(v, Over(f))
  BY <1>1, <1>2, BelowOrders
<1>4. Below(Over(f), v)
  BY <1>1, <1>2, BelowOrders
<1> QED BY <1>1, <1>3, <1>4, BelowOrders

\* One of the verdicts becomes stronger, by v.
LEMMA OverMore ==
  ASSUME NEW n \in Nat, NEW f \in [1..n -> Verdicts], NEW g \in [1..n -> Verdicts],
         NEW k \in 1..n, NEW v \in Verdicts,
         \A i \in 1..n : i # k => g[i] = f[i], g[k] = Stronger(f[k], v)
  PROVE  Over(g) = Stronger(Over(f), v)
<1>1. /\ Over(f) \in Verdicts /\ \A i \in 1..n : Below(f[i], Over(f))
      /\ Over(f) = "clear" \/ \E i \in 1..n : Over(f) = f[i]
  BY OverIs
<1>2. /\ \A i \in 1..n : f[i] \in Verdicts /\ g[i] \in Verdicts
      /\ f[k] \in Verdicts
  OBVIOUS
<1> DEFINE m == Stronger(Over(f), v)
<1>3. m \in {Over(f), v} /\ m \in Verdicts /\ Below(Over(f), m) /\ Below(v, m)
  BY <1>1, StrongerIs
<1>4. Below(f[k], g[k]) /\ Below(v, g[k]) /\ g[k] \in {f[k], v}
  BY <1>2, StrongerIs
<1> HIDE DEF m
<1>5. \A i \in 1..n : Below(g[i], m)
  BY <1>1, <1>2, <1>3, <1>4, BelowOrders
<1>6. m = "clear" \/ \E i \in 1..n : Below(m, g[i])
  <2>1. CASE m = v
    BY <1>4, <2>1
  <2>2. CASE m = Over(f) /\ m # "clear"
    <3>1. PICK i \in 1..n : m = f[i]
      BY <1>1, <2>2
    <3>2. Below(f[i], g[i])
      BY <1>2, <1>4, BelowOrders
    <3> QED BY <3>1, <3>2
  <2> QED BY <1>3, <2>1, <2>2
<1>7. Over(g) = m
  BY <1>3, <1>5, <1>6, OverIsOnly
<1> QED BY <1>7 DEF m

\* One more verdict follows.
LEMMA OverAppended ==
  ASSUME NEW n \in Nat, NEW f \in [1..n -> Verdicts], NEW g \in [1..(n + 1) -> Verdicts],
         \A i \in 1..n : g[i] = f[i]
  PROVE  Over(g) = Stronger(Over(f), g[n + 1])
<1>1. /\ Over(f) \in Verdicts /\ \A i \in 1..n : Below(f[i], Over(f))
      /\ Over(f) = "clear" \/ \E i \in 1..n : Over(f) = f[i]
  BY OverIs
<1>2. /\ \A i \in 1..n : f[i] \in Verdicts
      /\ \A i \in 1..(n + 1) : g[i] \in Verdicts /\ (i = n + 1 \/ i \in 1..n)
      /\ \A i \in 1..n : i \in 1..(n + 1)
      /\ n + 1 \in 1..(n + 1) /\ n + 1 \in Nat
  OBVIOUS
<1> DEFINE v == g[n + 1]
           m == Stronger(Over(f), v)
<1>3. v \in Verdicts
  BY <1>2
<1> HIDE DEF v
<1>4. m \in {Over(f), v} /\ m \in Verdicts /\ Below(Over(f), m) /\ Below(v, m)
  BY <1>1, <1>3, StrongerIs
<1> HIDE DEF m
<1>5. \A i \in 1..(n + 1) : Below(g[i], m)
  BY <1>1, <1>2, <1>4, BelowOrders DEF v
<1>6. m = "clear" \/ \E i \in 1..(n + 1) : Below(m, g[i])
  BY <1>1, <1>2, <1>4, BelowOrders DEF v
<1>7. Over(g) = m
  BY <1>2, <1>4, <1>5, <1>6, OverIsOnly
<1> QED BY <1>7 DEF m, v

\* The last verdict goes into the one before it.
LEMMA OverPopped ==
  ASSUME NEW n \in Nat, n >= 1,
         NEW f \in [1..(n + 1) -> Verdicts], NEW g \in [1..n -> Verdicts],
         \A i \in 1..n : i # n => g[i] = f[i], g[n] = Stronger(f[n], f[n + 1])
  PROVE  Over(g) = Over(f)
<1> DEFINE h == [i \in 1..n |-> f[i]]
<1>1. h \in [1..n -> Verdicts] /\ n \in 1..n /\ n + 1 \in 1..(n + 1)
      /\ f[n + 1] \in Verdicts
  OBVIOUS
<1>2. \A i \in 1..n : h[i] = f[i]
  OBVIOUS
<1> HIDE DEF h
<1>3. Over(f) = Stronger(Over(h), f[n + 1])
  BY <1>1, <1>2, OverAppended
<1>4. Over(g) = Stronger(Over(h), f[n + 1])
  BY <1>1, <1>2, OverMore
<1> QED BY <1>3, <1>4

-----------------------------------------------------------------------------
(* What an entry deserves, part by part *)

\* What Git makes of the statement.
OfGit(shell, c, runs, s) ==
  IF s.program # "git" \/ (shell = "cmd" /\ s.prefix # "none") THEN "clear"
  ELSE IF s.sub \in {"", "$x"} THEN "ask"
  ELSE IF s.sub \notin AliasNames THEN KnownGit(s, runs = "yes")
  ELSE IF GitRuns(CommandTable(c), s.sub).ends = "command"
       THEN KnownGit([s EXCEPT !.sub = GitRuns(CommandTable(c), s.sub).sub], runs = "yes")
  ELSE "ask"
\* What the nesting of it deserves.
OfNesting(shell, entry) ==
  IF entry.statement.program # "nest" \/ shell = "cmd" THEN "clear"
  ELSE IF shell = "bash" /\ "$x" \in entry.statement.words THEN "ask"
  ELSE When(entry.depth >= MaxDepth, "deny")

\* The parts are verdicts, and the strongest of them is what is deserved.
LEMMA DeservedIs ==
  ASSUME NEW shell \in Gates, NEW c, NEW runs, NEW entry
  PROVE  /\ DeservedIn(shell, c, runs, entry) =
              Strongest({Verdict(shell, entry.statement),
                         OfGit(shell, c, runs, entry.statement),
                         OfNesting(shell, entry),
                         RemoteExecution(shell, entry.after, entry.statement)})
         /\ Verdict(shell, entry.statement) \in Verdicts
         /\ OfGit(shell, c, runs, entry.statement) \in Verdicts
         /\ OfNesting(shell, entry) \in Verdicts
         /\ RemoteExecution(shell, entry.after, entry.statement) \in Verdicts
<1>1. DeservedIn(shell, c, runs, entry) =
        Strongest({Verdict(shell, entry.statement),
                   OfGit(shell, c, runs, entry.statement),
                   OfNesting(shell, entry),
                   RemoteExecution(shell, entry.after, entry.statement)})
  BY DEF DeservedIn, OfGit, OfNesting
<1>2. OfGit(shell, c, runs, entry.statement) \in Verdicts
  BY KnownGitType DEF OfGit, Verdicts
<1>3. /\ OfNesting(shell, entry) \in Verdicts
      /\ RemoteExecution(shell, entry.after, entry.statement) \in Verdicts
  BY DEF OfNesting, RemoteExecution, When, Verdicts
<1> QED BY <1>1, <1>2, <1>3, VerdictType

\* The strongest of two, and of four, as the steps of a run merge them.
LEMMA StrongestOfTwo ==
  ASSUME NEW a \in Verdicts, NEW b \in Verdicts
  PROVE  Strongest({a, b}) = Stronger(a, b)
<1>1. {a, b} \in SUBSET Verdicts /\ {a, b} # {}
  OBVIOUS
<1>2. Stronger(a, b) \in {a, b} /\ \A w \in {a, b} : Below(w, Stronger(a, b))
  BY StrongerIs
<1> QED BY <1>1, <1>2, StrongestIs

\* The strongest of four is one of them that none exceeds.
LEMMA StrongestOfFour ==
  ASSUME NEW a \in Verdicts, NEW b \in Verdicts, NEW c \in Verdicts, NEW d \in Verdicts,
         NEW m \in {a, b, c, d}, Below(a, m), Below(b, m), Below(c, m), Below(d, m)
  PROVE  Strongest({a, b, c, d}) = m
<1>1. {a, b, c, d} \in SUBSET Verdicts /\ {a, b, c, d} # {}
  OBVIOUS
<1> QED BY <1>1, StrongestIs

\* Without a nesting to object to, the pipe, the gate's verdict and Git's are
\* what is deserved.
LEMMA DeservedWithGit ==
  ASSUME NEW a \in Verdicts, NEW b \in Verdicts, NEW d \in Verdicts
  PROVE  Strongest({a, b, "clear", d}) = Stronger(Strongest({d, a}), b)
<1>1. "clear" \in Verdicts
  BY DEF Verdicts
<1> DEFINE u == Stronger(d, a)
           m == Stronger(u, b)
<1>2. u \in {d, a} /\ u \in Verdicts /\ Below(d, u) /\ Below(a, u)
  BY StrongerIs
<1> HIDE DEF u
<1>3. m \in {u, b} /\ m \in Verdicts /\ Below(u, m) /\ Below(b, m)
  BY <1>2, StrongerIs
<1> HIDE DEF m
<1>4. Below(a, m) /\ Below(b, m) /\ Below("clear", m) /\ Below(d, m)
  BY <1>2, <1>3, BelowOrders
<1>5. m \in {a, b, "clear", d}
  BY <1>2, <1>3
<1>6. Strongest({a, b, "clear", d}) = m
  BY <1>1, <1>4, <1>5, StrongestOfFour
<1>7. Strongest({d, a}) = u
  BY StrongestOfTwo DEF u
<1> QED BY <1>6, <1>7 DEF m

\* A statement that Git does not run and that nests nothing too deep.
LEMMA DeservedAlone ==
  ASSUME NEW a \in Verdicts, NEW d \in Verdicts
  PROVE  /\ Strongest({a, "clear", "clear", d}) = Stronger(d, a)
         /\ Strongest({a, "clear", "ask", d}) = Stronger(d, Stronger(a, "ask"))
         /\ Strongest({a, "clear", "deny", d}) = Stronger(d, "deny")
<1>1. "clear" \in Verdicts /\ "ask" \in Verdicts /\ "deny" \in Verdicts
  BY DEF Verdicts
<1>2. Strongest({a, "clear", "clear", d}) = Stronger(d, a)
  <2>1. /\ Stronger(d, a) \in {d, a} /\ Below(d, Stronger(d, a)) /\ Below(a, Stronger(d, a))
        /\ Below("clear", Stronger(d, a))
    BY StrongerIs, BelowOrders
  <2> QED BY <1>1, <2>1, StrongestOfFour
<1>3. Strongest({a, "clear", "ask", d}) = Stronger(d, Stronger(a, "ask"))
  <2> DEFINE u == Stronger(a, "ask")
             m == Stronger(d, u)
  <2>1. u \in {a, "ask"} /\ u \in Verdicts /\ Below(a, u) /\ Below("ask", u)
    BY <1>1, StrongerIs
  <2> HIDE DEF u
  <2>2. m \in {d, u} /\ m \in Verdicts /\ Below(d, m) /\ Below(u, m)
    BY <2>1, StrongerIs
  <2> HIDE DEF m
  <2>3. Below(a, m) /\ Below("ask", m) /\ Below("clear", m)
    BY <1>1, <2>1, <2>2, BelowOrders
  <2>4. m \in {a, "clear", "ask", d}
    BY <2>1, <2>2
  <2>5. Strongest({a, "clear", "ask", d}) = m
    BY <1>1, <2>2, <2>3, <2>4, StrongestOfFour
  <2> QED BY <2>5 DEF m, u
<1>4. Strongest({a, "clear", "deny", d}) = Stronger(d, "deny")
  <2>1. Stronger(d, "deny") = "deny"
    BY StrongerIs
  <2>2. Below(a, "deny") /\ Below("clear", "deny") /\ Below("deny", "deny") /\ Below(d, "deny")
    BY <1>1, BelowOrders
  <2> QED BY <1>1, <2>1, <2>2, StrongestOfFour
<1> QED BY <1>2, <1>3, <1>4

\* What is owed of an entry, and what is deserved, are verdicts.
LEMMA OwedType ==
  ASSUME NEW shell \in Gates, NEW place, NEW c, NEW runs, NEW entry
  PROVE  /\ OwedBy(shell, place, c, runs, entry) \in Verdicts
         /\ DeservedIn(shell, c, runs, entry) \in Verdicts
<1> DEFINE own == Verdict(shell, entry.statement)
           git == OfGit(shell, c, runs, entry.statement)
           nesting == OfNesting(shell, entry)
           remote == RemoteExecution(shell, entry.after, entry.statement)
<1>1. /\ DeservedIn(shell, c, runs, entry) = Strongest({own, git, nesting, remote})
      /\ own \in Verdicts /\ git \in Verdicts /\ nesting \in Verdicts /\ remote \in Verdicts
  BY DeservedIs
<1>2. OwedBy(shell, place, c, runs, entry) \in
        {remote, Strongest({remote, own}), DeservedIn(shell, c, runs, entry)}
  BY DEF OwedBy
<1> HIDE DEF own, git, nesting, remote
<1>3. {own, git, nesting, remote} \in SUBSET Verdicts /\ {own, git, nesting, remote} # {}
      /\ {remote, own} \in SUBSET Verdicts /\ {remote, own} # {}
  BY <1>1
<1>4. Strongest({own, git, nesting, remote}) \in Verdicts /\ Strongest({remote, own}) \in Verdicts
  BY <1>3, StrongestIs
<1> QED BY <1>1, <1>2, <1>4

\* Every statement that was read owes a verdict.
LEMMA OwesType ==
  ASSUME NEW shell \in Gates, NEW place, NEW c, NEW runs, NEW entries
  PROVE  Owes(shell, place, c, runs, entries) \in [1..Len(entries) -> Verdicts]
BY OwedType DEF Owes

\* Every open command has said a verdict.
LEMMA SaidType ==
  ASSUME NEW stack \in Seq(Frames)
  PROVE  Said(stack) \in [1..Len(stack) -> Verdicts]
<1>1. \A k \in 1..Len(stack) : stack[k] \in Frames
  OBVIOUS
<1> QED BY <1>1 DEF Said, Frames

-----------------------------------------------------------------------------
(* How the two sides of the invariant move *)

\* What is known now is one of the things that can still become known.
LEMMA AheadIs ==
  ASSUME NEW c \in Configs, NEW runs \in {"unread", "yes", "no"},
         NEW t \in ConfigsFrom(c), NEW r \in RunsFrom(runs)
  PROVE  /\ c \in ConfigsFrom(c) /\ runs \in RunsFrom(runs)
         /\ t \in Configs /\ r \in {"unread", "yes", "no"}
         /\ ConfigsFrom(t) \subseteq ConfigsFrom(c) /\ RunsFrom(r) \subseteq RunsFrom(runs)
BY DEF ConfigsFrom, RunsFrom

\* What is fixed stays fixed, and stays the same.
LEMMA FixedStays ==
  ASSUME NEW shell, NEW entry,
         NEW c \in Configs, NEW runs \in {"unread", "yes", "no"},
         NEW t \in ConfigsFrom(c), NEW r \in RunsFrom(runs),
         Fixed(shell, ConfigsFrom(c), RunsFrom(runs), entry)
  PROVE  /\ Fixed(shell, ConfigsFrom(t), RunsFrom(r), entry)
         /\ DeservedIn(shell, t, r, entry) = DeservedIn(shell, c, runs, entry)
<1>1. /\ c \in ConfigsFrom(c) /\ runs \in RunsFrom(runs)
      /\ ConfigsFrom(t) \subseteq ConfigsFrom(c) /\ RunsFrom(r) \subseteq RunsFrom(runs)
  BY AheadIs
<1>2. PICK v \in Verdicts :
        \A x \in ConfigsFrom(c), y \in RunsFrom(runs) : DeservedIn(shell, x, y, entry) = v
  BY DEF Fixed
<1>3. \A x \in ConfigsFrom(t), y \in RunsFrom(r) : DeservedIn(shell, x, y, entry) = v
  BY <1>1, <1>2
<1> QED BY <1>1, <1>2, <1>3 DEF Fixed

\* The entries before the last are settled, and what they deserve does not
\* move.
LEMMA EarlierFixed ==
  ASSUME NEW shell, NEW place, NEW entries \in Seq(Entries),
         NEW c \in Configs, NEW runs \in {"unread", "yes", "no"},
         NEW t \in ConfigsFrom(c), NEW r \in RunsFrom(runs),
         Settled(shell, place, c, runs, entries),
         NEW i \in 1..Len(entries), i # Len(entries)
  PROVE  /\ Fixed(shell, ConfigsFrom(t), RunsFrom(r), entries[i])
         /\ DeservedIn(shell, t, r, entries[i]) = DeservedIn(shell, c, runs, entries[i])
<1>1. Fixed(shell, ConfigsFrom(c), RunsFrom(runs), entries[i])
  BY DEF Settled
<1> QED BY <1>1, FixedStays

\* The statement in hand is judged further: v is added to what is owed of it.
Further(shell, place, next, c, runs, t, r, entries, v) ==
  /\ shell \in Gates /\ entries \in Seq(Entries) /\ entries # <<>> /\ v \in Verdicts
  /\ c \in Configs /\ runs \in {"unread", "yes", "no"}
  /\ t \in ConfigsFrom(c) /\ r \in RunsFrom(runs)
  /\ Settled(shell, place, c, runs, entries)
  /\ OwedBy(shell, next, t, r, entries[Len(entries)])
       = Stronger(OwedBy(shell, place, c, runs, entries[Len(entries)]), v)

\* It is added to what is owed of all.
LEMMA OwesMore ==
  ASSUME NEW shell, NEW place, NEW next, NEW c, NEW runs, NEW t, NEW r, NEW entries, NEW v,
         Further(shell, place, next, c, runs, t, r, entries, v)
  PROVE  Over(Owes(shell, next, t, r, entries))
           = Stronger(Over(Owes(shell, place, c, runs, entries)), v)
<1> USE DEF Further
<1> DEFINE n == Len(entries)
           f == Owes(shell, place, c, runs, entries)
           g == Owes(shell, next, t, r, entries)
<1>1. n \in Nat /\ n \in 1..n
  BY EmptySeq
<1>2. f \in [1..n -> Verdicts] /\ g \in [1..n -> Verdicts]
  BY OwesType
<1>3. ASSUME NEW i \in 1..n, i # n PROVE g[i] = f[i]
  <2>1. DeservedIn(shell, t, r, entries[i]) = DeservedIn(shell, c, runs, entries[i])
    BY <1>3, EarlierFixed
  <2>2. /\ g[i] = OwedBy(shell, "read", t, r, entries[i])
        /\ f[i] = OwedBy(shell, "read", c, runs, entries[i])
    BY <1>3 DEF Owes
  <2> QED BY <2>1, <2>2 DEF OwedBy
<1>4. /\ f[n] = OwedBy(shell, place, c, runs, entries[n])
      /\ g[n] = OwedBy(shell, next, t, r, entries[n])
  BY <1>1 DEF Owes
<1>5. g[n] = Stronger(f[n], v)
  BY <1>4
<1> HIDE DEF n, f, g
<1>6. Over(g) = Stronger(Over(f), v)
  BY <1>1, <1>2, <1>3, <1>5, OverMore
<1> QED BY <1>6 DEF f, g

\* The last entry is settled with the others when nothing changes it any more.
LEMMA SettledStays ==
  ASSUME NEW shell, NEW place, NEW next, NEW entries \in Seq(Entries),
         NEW c \in Configs, NEW runs \in {"unread", "yes", "no"},
         NEW t \in ConfigsFrom(c), NEW r \in RunsFrom(runs),
         Settled(shell, place, c, runs, entries),
         \/ ~InHandAt(place)
         \/ InHandAt(next)
         \/ Fixed(shell, ConfigsFrom(t), RunsFrom(r), entries[Len(entries)])
  PROVE  Settled(shell, next, t, r, entries)
<1> SUFFICES ASSUME NEW i \in 1..Len(entries), ~(i = Len(entries) /\ InHandAt(next))
             PROVE  Fixed(shell, ConfigsFrom(t), RunsFrom(r), entries[i])
  BY DEF Settled
<1>1. CASE i # Len(entries)
  BY <1>1, EarlierFixed
<1>2. CASE i = Len(entries) /\ InHandAt(place)
  BY <1>2
<1>3. CASE i = Len(entries) /\ ~InHandAt(place)
  <2>1. Fixed(shell, ConfigsFrom(c), RunsFrom(runs), entries[i])
    BY <1>3 DEF Settled
  <2> QED BY <2>1, FixedStays
<1> QED BY <1>1, <1>2, <1>3

\* Away from a statement, the place of the run does not matter.
LEMMA OwesStay ==
  ASSUME NEW shell, NEW place, NEW next, NEW c, NEW runs, NEW entries,
         ~InHandAt(place), ~InHandAt(next)
  PROVE  Owes(shell, next, c, runs, entries) = Owes(shell, place, c, runs, entries)
<1>1. ASSUME NEW entry
      PROVE  /\ OwedBy(shell, next, c, runs, entry) = OwedBy(shell, "read", c, runs, entry)
             /\ OwedBy(shell, place, c, runs, entry)
                  = OwedBy(shell, "read", c, runs, entry)
  BY DEF OwedBy, InHandAt
<1> QED BY <1>1 DEF Owes

\* Without a change to a verdict, the commands say what they said.
LEMMA SaidStays ==
  ASSUME NEW f \in Seq(Frames), NEW g \in Seq(Frames), Len(g) = Len(f),
         \A i \in 1..Len(f) : g[i].verdict = f[i].verdict
  PROVE  Said(g) = Said(f)
BY DEF Said

\* A merge adds its verdict to what the commands say.
LEMMA SaidMerged ==
  ASSUME NEW f \in Seq(Frames), NEW g \in Seq(Frames), f # <<>>, Len(g) = Len(f),
         NEW v \in Verdicts,
         \A i \in 1..Len(f) : i # Len(f) => g[i] = f[i],
         g[Len(f)].verdict = Stronger(f[Len(f)].verdict, v)
  PROVE  Over(Said(g)) = Stronger(Over(Said(f)), v)
<1> DEFINE n == Len(f)
           a == Said(f)
           b == Said(g)
<1>1. n \in Nat /\ n \in 1..n /\ Len(g) = n
  BY EmptySeq
<1>2. a \in [1..n -> Verdicts] /\ b \in [1..n -> Verdicts]
  BY <1>1, SaidType
<1>3. \A i \in 1..n : a[i] = f[i].verdict /\ b[i] = g[i].verdict
  BY <1>1 DEF Said
<1>4. (\A i \in 1..n : i # n => b[i] = a[i]) /\ b[n] = Stronger(a[n], v)
  BY <1>1, <1>3
<1> HIDE DEF n, a, b
<1>5. Over(b) = Stronger(Over(a), v)
  BY <1>1, <1>2, <1>4, OverMore
<1> QED BY <1>5 DEF a, b

\* A command that opens says nothing yet.
LEMMA SaidOpened ==
  ASSUME NEW f \in Seq(Frames), NEW g \in Seq(Frames), Len(g) = Len(f) + 1,
         \A i \in 1..Len(f) : g[i] = f[i], g[Len(g)].verdict = "clear"
  PROVE  Over(Said(g)) = Over(Said(f))
<1> DEFINE n == Len(f)
           a == Said(f)
           b == Said(g)
<1>1. n \in Nat /\ Len(g) = n + 1
  OBVIOUS
<1>2. a \in [1..n -> Verdicts] /\ b \in [1..(n + 1) -> Verdicts]
  BY <1>1, SaidType
<1>3. (\A i \in 1..n : b[i] = a[i]) /\ b[n + 1] = "clear"
  BY <1>1 DEF Said
<1> HIDE DEF n, a, b
<1>4. Over(b) = Stronger(Over(a), "clear")
  BY <1>1, <1>2, <1>3, OverAppended
<1>5. Over(a) \in Verdicts
  BY <1>1, <1>2, OverIs
<1>6. Stronger(Over(a), "clear") = Over(a)
  BY <1>5, StrengthIs DEF Stronger
<1> QED BY <1>4, <1>6 DEF a, b

\* One that closes is heard in the one around it.
LEMMA SaidClosed ==
  ASSUME NEW f \in Seq(Frames), NEW g \in Seq(Frames), NEW n \in Nat, n >= 1,
         Len(f) = n + 1, Len(g) = n,
         \A i \in 1..n : i # n => g[i] = f[i],
         g[n].verdict = Stronger(f[n].verdict, f[n + 1].verdict)
  PROVE  Over(Said(g)) = Over(Said(f))
<1> DEFINE a == Said(f)
           b == Said(g)
<1>1. a \in [1..(n + 1) -> Verdicts] /\ b \in [1..n -> Verdicts]
  BY SaidType
<1>2. (\A i \in 1..n : i # n => b[i] = a[i]) /\ b[n] = Stronger(a[n], a[n + 1])
  BY DEF Said
<1> HIDE DEF a, b
<1>3. Over(b) = Over(a)
  BY <1>1, <1>2, OverPopped
<1> QED BY <1>3 DEF a, b

-----------------------------------------------------------------------------
(* What is heard stays heard. *)

\* What a stack of commands has said is heard in one that grew from it, and so
\* is less.
LEMMA HeardGrows ==
  ASSUME NEW f, NEW g, Grows(f, g), NEW i \in Nat, NEW v \in Verdicts, NEW w \in Verdicts,
         Heard(f, i, v), Below(w, v)
  PROVE  Heard(g, i, w)
<1>1. PICK k \in 1..Len(f) : f[k].first < i /\ Below(v, f[k].verdict)
  BY DEF Heard
<1>2. k \in 1..Len(g) /\ g[k].first = f[k].first /\ Below(f[k].verdict, g[k].verdict)
  BY DEF Grows
<1>3. f[k].verdict \in Verdicts /\ g[k].verdict \in Verdicts
  <2>1. f[k] \in Frames /\ g[k] \in Frames
    BY <1>2 DEF Grows
  <2> QED BY <2>1 DEF Frames
<1>4. Below(w, g[k].verdict)
  BY <1>1, <1>2, <1>3, BelowOrders
<1> QED BY <1>1, <1>2, <1>4 DEF Heard

\* A stack that grew without a new command started as before.
LEMMA StartedGrows ==
  ASSUME NEW f, NEW g, Grows(f, g), Len(g) = Len(f), NEW n \in Nat, NEW m \in Nat, n <= m,
         Started(f, n)
  PROVE  Started(g, m)
<1>1. \A k \in 1..Len(f) : f[k].first \in Nat /\ g[k].first = f[k].first
  <2>1. \A k \in 1..Len(f) : f[k] \in Frames
    BY DEF Grows
  <2> QED BY <2>1 DEF Grows, Frames
<1> QED BY <1>1 DEF Started

\* A merged verdict makes the stack grow.
LEMMA MergeGrows ==
  ASSUME NEW f \in Seq(Frames), NEW g \in Seq(Frames), f # <<>>, Len(g) = Len(f),
         NEW v \in Verdicts,
         \A i \in 1..Len(f) : i # Len(f) => g[i] = f[i],
         g[Len(f)].verdict = Stronger(f[Len(f)].verdict, v),
         g[Len(f)].first = f[Len(f)].first
  PROVE  Grows(f, g) /\ Below(v, g[Len(f)].verdict)
<1>1. \A k \in 1..Len(f) : f[k].verdict \in Verdicts
  <2>1. \A k \in 1..Len(f) : f[k] \in Frames
    OBVIOUS
  <2> QED BY <2>1 DEF Frames
<1>2. Len(f) \in 1..Len(f)
  BY EmptySeq
<1>3. /\ Below(f[Len(f)].verdict, g[Len(f)].verdict) /\ Below(v, g[Len(f)].verdict)
  BY <1>1, <1>2, StrongerIs
<1>4. ASSUME NEW k \in 1..Len(f)
      PROVE  g[k].first = f[k].first /\ Below(f[k].verdict, g[k].verdict)
  <2>1. Below(f[k].verdict, f[k].verdict)
    BY <1>1, BelowOrders
  <2> QED BY <1>3, <2>1
<1> QED BY <1>3, <1>4 DEF Grows

\* A stack without a change grows as well.
LEMMA SameGrows ==
  ASSUME NEW f \in Seq(Frames), NEW g \in Seq(Frames), f # <<>>, Len(g) = Len(f),
         \A i \in 1..Len(f) : g[i].verdict = f[i].verdict /\ g[i].first = f[i].first
  PROVE  Grows(f, g)
<1>1. \A k \in 1..Len(f) : f[k].verdict \in Verdicts
  <2>1. \A k \in 1..Len(f) : f[k] \in Frames
    OBVIOUS
  <2> QED BY <2>1 DEF Frames
<1>2. \A k \in 1..Len(f) : Below(f[k].verdict, g[k].verdict)
  BY <1>1, BelowOrders
<1> QED BY <1>2 DEF Grows

\* What is left to be heard of an entry is a verdict.
LEMMA OwingType ==
  ASSUME gate \in Gates, NEW i \in 1..Len(past)
  PROVE  Owing(i) \in Verdicts
<1>1. Owes(gate, at, config, runsProgram, past)[i] \in Verdicts
  BY OwesType
<1> QED BY <1>1 DEF Owing, Remains, Verdicts

-----------------------------------------------------------------------------
(* Every step keeps the decision. *)

\* Adding "clear" adds nothing.
LEMMA StrongerClear ==
  ASSUME NEW v \in Verdicts
  PROVE  Stronger(v, "clear") = v
<1>1. ~(Strength["clear"] > Strength[v])
  BY StrengthIs
<1> QED BY <1>1 DEF Stronger

\* What is known of a run that is not answered yet.
LEMMA Deciding ==
  ASSUME GateInv, DecisionInv, at \notin {"payload", "ended"}
  PROVE  /\ unread = "no" =>
              Over(Said(frames)) = Over(Owes(gate, at, config, runsProgram, past))
         /\ Settled(gate, at, config, runsProgram, past)
         /\ InHandAt(at) => OfLast
         /\ gate \in Gates /\ config \in Configs /\ past \in Seq(Entries)
         /\ runsProgram \in {"unread", "yes", "no"}
         /\ config \in ConfigsFrom(config) /\ runsProgram \in RunsFrom(runsProgram)
         /\ frames \in Seq(Frames) /\ frames # <<>>
         /\ Len(frames) \in Nat /\ Len(frames) \in 1..Len(frames) /\ Len(past) \in Nat
         /\ frames[Len(frames)] \in Frames
<1>1. /\ past \in Seq(Entries) /\ config \in Configs /\ gate \in Gates
      /\ runsProgram \in {"unread", "yes", "no"} /\ frames \in Seq(Frames) /\ frames # <<>>
      /\ Len(frames) \in Nat /\ Len(frames) \in 1..Len(frames) /\ Len(past) \in Nat
      /\ frames[Len(frames)] \in Frames
  BY InTheMiddle DEF GateInv
<1>2. config \in ConfigsFrom(config) /\ runsProgram \in RunsFrom(runsProgram)
  BY <1>1 DEF ConfigsFrom, RunsFrom
<1> QED BY <1>1, <1>2 DEF DecisionInv

\* What is known of what such a run has heard.
LEMMA Hearing ==
  ASSUME GateInv, DecisionInv, at \notin {"payload", "ended"}
  PROVE  /\ lost \subseteq 1..Len(past) /\ Started(frames, Len(past))
         /\ InHandAt(at) => frames[Len(frames)].first < Len(past)
         /\ \A i \in 1..Len(past) : /\ i \in Nat /\ Owing(i) \in Verdicts
                                    /\ Heard(frames, i, Owing(i))
         /\ \A k \in 1..Len(frames) : frames[k].first \in Nat /\ frames[k].verdict \in Verdicts
<1>1. gate \in Gates /\ frames \in Seq(Frames) /\ Len(past) \in Nat
  BY Deciding
<1>2. \A k \in 1..Len(frames) : frames[k] \in Frames
  BY <1>1
<1>3. \A k \in 1..Len(frames) : frames[k].first \in Nat /\ frames[k].verdict \in Verdicts
  BY <1>2 DEF Frames
<1>4. \A i \in 1..Len(past) : i \in Nat /\ Owing(i) \in Verdicts
  BY <1>1, OwingType
<1> QED BY <1>3, <1>4 DEF DecisionInv, HeardInv

\* What is left of an entry is no matter of the place or the configuration.
LEMMA RemainsStays == ASSUME gate' = gate, NEW s PROVE Remains(s)' = Remains(s)
BY DEF Remains, NamesGated, NamesWipe, GatedPrograms

\* Away from a statement, what is owed of the entries does not move.
LEMMA AwayOwes ==
  ASSUME ~InHandAt(at), ~InHandAt(at'), UNCHANGED <<gate, config, runsProgram, past>>,
         NEW i \in 1..Len(past), (i \in lost') <=> (i \in lost)
  PROVE  Owing(i)' = Owing(i)
<1>1. Owes(gate, at', config, runsProgram, past) = Owes(gate, at, config, runsProgram, past)
  BY OwesStay
<1>2. PICK s : s = past[i].statement
  OBVIOUS
<1>3. Remains(s)' = Remains(s)
  BY RemainsStays
<1>4. past'[i].statement = s /\ gate' = gate
  BY <1>2
<1> QED BY <1>1, <1>2, <1>3, <1>4 DEF Owing

\* A step between statements that takes nothing back.
LEMMA AwayHears ==
  ASSUME GateInv, DecisionInv, at \notin {"payload", "ended"}, ~InHandAt(at), ~InHandAt(at'),
         UNCHANGED <<gate, config, runsProgram, past, lost>>,
         Grows(frames, frames'), Len(frames') = Len(frames)
  PROVE  HeardInv'
<1>1. /\ lost \subseteq 1..Len(past) /\ Started(frames, Len(past)) /\ Len(past) \in Nat
      /\ \A i \in 1..Len(past) : /\ i \in Nat /\ Owing(i) \in Verdicts
                                 /\ Heard(frames, i, Owing(i))
  BY Hearing, Deciding
<1>2. Started(frames', Len(past))
  BY <1>1, StartedGrows
<1>3. ASSUME NEW i \in 1..Len(past) PROVE Heard(frames', i, Owing(i)')
  <2>1. Owing(i)' = Owing(i) /\ Below(Owing(i), Owing(i))
    BY <1>1, AwayOwes, BelowOrders
  <2>2. Heard(frames', i, Owing(i))
    BY <1>1, <2>1, HeardGrows
  <2> QED BY <2>1, <2>2
<1> QED BY <1>1, <1>2, <1>3 DEF HeardInv

\* A step that has nothing to decide: between statements, the commands saying
\* what they said.
LEMMA AwayStays ==
  ASSUME GateInv, DecisionInv, at \notin {"payload", "ended"},
         ~InHandAt(at), ~InHandAt(at'), at' # "payload",
         UNCHANGED <<gate, config, runsProgram, past>>,
         unread' = "no" => unread = "no" /\ Over(Said(frames')) = Over(Said(frames)),
         HeardInv'
  PROVE  DecisionInv'
<1>1. /\ unread = "no" =>
           Over(Said(frames)) = Over(Owes(gate, at, config, runsProgram, past))
      /\ Settled(gate, at, config, runsProgram, past)
  BY Deciding
<1>2. Owes(gate, at', config, runsProgram, past) = Owes(gate, at, config, runsProgram, past)
  BY OwesStay
<1>3. Settled(gate, at', config, runsProgram, past)
  BY <1>1 DEF Settled
<1>4. unread' = "no" =>
        Over(Said(frames')) = Over(Owes(gate', at', config', runsProgram', past'))
  BY <1>1, <1>2
<1> QED BY <1>3, <1>4 DEF DecisionInv

\* What a merge of v makes of the stack.
Merged(f, g, v, n) ==
  /\ Over(Said(g)) = Stronger(Over(Said(f)), v)
  /\ Grows(f, g) /\ Below(v, g[Len(f)].verdict) /\ Started(g, n)

\* The entries before the last owe what they owed.
LEMMA EarlierOwes ==
  ASSUME GateInv, DecisionInv, at \notin {"payload", "ended"},
         UNCHANGED <<gate, past, lost>>,
         config' \in ConfigsFrom(config), runsProgram' \in RunsFrom(runsProgram),
         NEW i \in 1..Len(past), i # Len(past)
  PROVE  Owing(i)' = Owing(i)
<1>1. /\ Settled(gate, at, config, runsProgram, past) /\ config \in Configs
      /\ past \in Seq(Entries) /\ runsProgram \in {"unread", "yes", "no"}
  BY Deciding
<1>2. PICK t \in ConfigsFrom(config) : t = config'
  OBVIOUS
<1>3. PICK r \in RunsFrom(runsProgram) : r = runsProgram'
  OBVIOUS
<1>4. DeservedIn(gate, t, r, past[i]) = DeservedIn(gate, config, runsProgram, past[i])
  <2>1. Fixed(gate, ConfigsFrom(config), RunsFrom(runsProgram), past[i])
    BY <1>1 DEF Settled
  <2> QED BY <1>1, <2>1, FixedStays
<1>5. /\ Owes(gate, at', t, r, past)[i] = OwedBy(gate, "read", t, r, past[i])
      /\ Owes(gate, at, config, runsProgram, past)[i]
           = OwedBy(gate, "read", config, runsProgram, past[i])
  BY DEF Owes
<1>6. Owes(gate, at', t, r, past)[i] = Owes(gate, at, config, runsProgram, past)[i]
  BY <1>4, <1>5 DEF OwedBy
<1>7. PICK s : s = past[i].statement
  OBVIOUS
<1>8. Remains(s)' = Remains(s)
  BY RemainsStays
<1> QED BY <1>2, <1>3, <1>6, <1>7, <1>8 DEF Owing

\* Judged further, the last entry owes v more, unless it counts for nothing.
LEMMA LastOwes ==
  ASSUME GateInv, DecisionInv, InHandAt(at), past # <<>>,
         NEW v \in Verdicts, UNCHANGED <<gate, past, lost>>,
         OwedBy(gate, at', config', runsProgram', past[Len(past)])
           = Stronger(OwedBy(gate, at, config, runsProgram, past[Len(past)]), v)
  PROVE  Owing(Len(past))' \in {Owing(Len(past)), v}
<1>0. at \notin {"payload", "ended"}
  BY DEF InHandAt
<1>1. gate \in Gates /\ past \in Seq(Entries)
  BY <1>0, Deciding
<1>2. PICK n \in 1..Len(past) : n = Len(past)
  BY <1>1, EmptySeq
<1>3. /\ Owes(gate, at', config', runsProgram', past)[n]
           = OwedBy(gate, at', config', runsProgram', past[n])
      /\ Owes(gate, at, config, runsProgram, past)[n]
           = OwedBy(gate, at, config, runsProgram, past[n])
  BY <1>2 DEF Owes
<1>4. OwedBy(gate, at, config, runsProgram, past[n]) \in Verdicts
  BY <1>1, OwedType
<1>5. Owes(gate, at', config', runsProgram', past)[n]
        \in {Owes(gate, at, config, runsProgram, past)[n], v}
  BY <1>2, <1>3, <1>4, StrongerIs
<1>6. PICK s : s = past[n].statement
  OBVIOUS
<1>7. Remains(s)' = Remains(s)
  BY RemainsStays
<1>8. Owing(n)' \in {Owing(n), v}
  BY <1>5, <1>6, <1>7 DEF Owing
<1> QED BY <1>2, <1>8

\* A step that judges the statement in hand further: v is heard, and owed.
LEMMA JudgedHears ==
  ASSUME GateInv, DecisionInv, InHandAt(at), past # <<>>,
         NEW v \in Verdicts, Merged(frames, frames', v, Len(past)),
         UNCHANGED <<gate, past, lost>>, InHandAt(at') => Len(frames') = Len(frames),
         config' \in ConfigsFrom(config), runsProgram' \in RunsFrom(runsProgram),
         OwedBy(gate, at', config', runsProgram', past[Len(past)])
           = Stronger(OwedBy(gate, at, config, runsProgram, past[Len(past)]), v)
  PROVE  HeardInv'
<1>0. at \notin {"payload", "ended"}
  BY DEF InHandAt
<1>1. /\ lost \subseteq 1..Len(past) /\ Len(past) \in Nat
      /\ frames[Len(frames)].first < Len(past)
      /\ Len(frames) \in 1..Len(frames) /\ gate \in Gates
      /\ \A i \in 1..Len(past) : /\ i \in Nat /\ Owing(i) \in Verdicts
                                 /\ Heard(frames, i, Owing(i))
  BY <1>0, Hearing, Deciding
<1>2. /\ Grows(frames, frames') /\ Started(frames', Len(past))
      /\ Below(v, frames'[Len(frames)].verdict)
  BY DEF Merged
<1>3. Len(frames) \in 1..Len(frames') /\ frames'[Len(frames)].first = frames[Len(frames)].first
  BY <1>1, <1>2 DEF Grows
<1>4. Heard(frames', Len(past), v)
  BY <1>1, <1>2, <1>3 DEF Heard
<1>5. ASSUME NEW i \in 1..Len(past), Owing(i)' = Owing(i) PROVE Heard(frames', i, Owing(i)')
  <2>1. Below(Owing(i), Owing(i))
    BY <1>1, BelowOrders
  <2>2. Heard(frames', i, Owing(i))
    BY <1>1, <1>2, <2>1, HeardGrows
  <2> QED BY <1>5, <2>2
<1>6. ASSUME NEW i \in 1..Len(past) PROVE Heard(frames', i, Owing(i)')
  <2>1. CASE i # Len(past)
    <3>1. Owing(i)' = Owing(i)
      BY <1>0, <2>1, EarlierOwes
    <3> QED BY <1>5, <3>1
  <2>2. CASE i = Len(past)
    <3>1. Owing(i)' \in {Owing(i), v}
      BY <2>2, LastOwes
    <3>2. CASE Owing(i)' = Owing(i)
      BY <1>5, <3>2
    <3>3. CASE Owing(i)' = v
      BY <1>4, <2>2, <3>3
    <3> QED BY <3>1, <3>2, <3>3
  <2> QED BY <2>1, <2>2
<1>7. InHandAt(at') => frames'[Len(frames')].first < Len(past)
  BY <1>1, <1>3
<1> QED BY <1>1, <1>2, <1>6, <1>7 DEF HeardInv

\* A step that judges the statement in hand further: v is merged, and owed.
LEMMA JudgedFurther ==
  ASSUME GateInv, DecisionInv, InHandAt(at),
         NEW v \in Verdicts, Merged(frames, frames', v, Len(past)),
         UNCHANGED <<gate, past, lost, unread>>, at' \notin {"payload", "ended"},
         InHandAt(at') => Len(frames') = Len(frames),
         config' \in ConfigsFrom(config), runsProgram' \in RunsFrom(runsProgram),
         NEW last, last = past[Len(past)],
         OwedBy(gate, at', config', runsProgram', last)
           = Stronger(OwedBy(gate, at, config, runsProgram, last), v),
         \/ InHandAt(at') /\ OfLast'
         \/ ~InHandAt(at') /\ Fixed(gate, ConfigsFrom(config'), RunsFrom(runsProgram'), last)
  PROVE  DecisionInv'
<1>0. at \notin {"payload", "ended"}
  BY DEF InHandAt
<1>1. /\ unread = "no" =>
           Over(Said(frames)) = Over(Owes(gate, at, config, runsProgram, past))
      /\ Settled(gate, at, config, runsProgram, past)
      /\ gate \in Gates /\ config \in Configs /\ past \in Seq(Entries)
      /\ runsProgram \in {"unread", "yes", "no"} /\ OfLast
  BY <1>0, Deciding
<1>2. past # <<>>
  BY <1>1 DEF OfLast
<1>3. Over(Owes(gate, at', config', runsProgram', past))
        = Stronger(Over(Owes(gate, at, config, runsProgram, past)), v)
  <2>1. PICK t \in ConfigsFrom(config) : t = config'
    OBVIOUS
  <2>2. PICK r \in RunsFrom(runsProgram) : r = runsProgram'
    OBVIOUS
  <2>3. Further(gate, at, at', config, runsProgram, t, r, past, v)
    BY <1>1, <1>2, <2>1, <2>2 DEF Further
  <2>4. Over(Owes(gate, at', t, r, past))
          = Stronger(Over(Owes(gate, at, config, runsProgram, past)), v)
    BY <2>3, OwesMore
  <2> QED BY <2>1, <2>2, <2>4
<1>4. Settled(gate, at', config', runsProgram', past)
  <2>1. PICK t \in ConfigsFrom(config) : t = config'
    OBVIOUS
  <2>2. PICK r \in RunsFrom(runsProgram) : r = runsProgram'
    OBVIOUS
  <2>3. InHandAt(at') \/ Fixed(gate, ConfigsFrom(t), RunsFrom(r), past[Len(past)])
    BY <2>1, <2>2
  <2>4. Settled(gate, at', t, r, past)
    BY <1>1, <2>3, SettledStays
  <2> QED BY <2>1, <2>2, <2>4
<1>5. unread' = "no" =>
        Over(Said(frames')) = Over(Owes(gate', at', config', runsProgram', past'))
  BY <1>1, <1>3 DEF Merged
<1>6. HeardInv'
  BY <1>2, JudgedHears
<1> QED BY <1>4, <1>5, <1>6 DEF DecisionInv

\* A merge adds to what the commands say.
LEMMA MergeSays ==
  ASSUME GateInv, DecisionInv, at \notin {"payload", "ended"}, NEW v \in Verdicts, Merge(v)
  PROVE  Merged(frames, frames', v, Len(past)) /\ Len(frames') = Len(frames)
<1>1. frames \in Seq(Frames) /\ frames # <<>>
  BY InTheMiddle DEF GateInv
<1>2. /\ frames' \in Seq(Frames) /\ Len(frames') = Len(frames)
      /\ \A i \in 1..Len(frames) : i # Len(frames) => frames'[i] = frames[i]
      /\ frames'[Len(frames)].verdict = Stronger(frames[Len(frames)].verdict, v)
      /\ frames'[Len(frames)].first = frames[Len(frames)].first
  BY <1>1, MergeKeeps
<1>3. Over(Said(frames')) = Stronger(Over(Said(frames)), v)
  BY <1>1, <1>2, SaidMerged
<1>4. Grows(frames, frames') /\ Below(v, frames'[Len(frames)].verdict)
  BY <1>1, <1>2, MergeGrows
<1>5. Len(past) \in Nat /\ Started(frames, Len(past))
  BY Hearing, Deciding
<1>6. Started(frames', Len(past))
  BY <1>2, <1>4, <1>5, StartedGrows
<1> QED BY <1>2, <1>3, <1>4, <1>6 DEF Merged

\* A command that could not be parsed does not count as read.
LEMMA UnparsedIsUnread == Unparsed => unread' # "no" /\ at' = "close"
BY UnparsedMeans

\* What the readable lines of such a command leave is heard in the verdict on
\* its text; the other commands are not touched.
LEMMA UnparsedHears ==
  ASSUME GateInv, DecisionInv, at \notin {"payload", "ended"}, ~InHandAt(at), Unparsed,
         UNCHANGED <<gate, config, runsProgram, past>>
  PROVE  HeardInv'
<1>1. /\ lost \subseteq 1..Len(past) /\ Started(frames, Len(past))
      /\ \A i \in 1..Len(past) : /\ i \in Nat /\ Owing(i) \in Verdicts
                                 /\ Heard(frames, i, Owing(i))
      /\ \A k \in 1..Len(frames) : frames[k].first \in Nat /\ frames[k].verdict \in Verdicts
  BY Hearing
<1>2. /\ frames \in Seq(Frames) /\ frames # <<>> /\ Len(frames) \in 1..Len(frames)
      /\ Len(past) \in Nat /\ Len(frames) \in Nat
  BY Deciding
<1>3. PICK gated \in BOOLEAN, v \in Verdicts :
        /\ NamedBefore => gated
        /\ gated => v # "clear"
        /\ NamedBefore /\ WipedBefore => v = "deny"
        /\ frames' = [frames EXCEPT ![Len(frames)].verdict = v]
        /\ lost' = lost \cup Before
        /\ at' = "close"
  BY UnparsedMeans
<1>4. /\ frames' \in Seq(Frames) /\ Len(frames') = Len(frames)
      /\ \A k \in 1..Len(frames) : k # Len(frames) => frames'[k] = frames[k]
      /\ frames'[Len(frames)].verdict = v
      /\ frames'[Len(frames)].first = frames[Len(frames)].first
  BY <1>2, <1>3, TopReplaced
<1>5. \A k \in 1..Len(frames) : frames'[k].first = frames[k].first
  BY <1>4
<1>6. Started(frames', Len(past))
  BY <1>1, <1>4, <1>5 DEF Started
<1>7. Before \subseteq 1..Len(past) /\ ~InHandAt(at')
      /\ \A i \in 1..Len(past) : i \in Before <=> frames[Len(frames)].first < i
  BY <1>1, <1>2, <1>3 DEF Before, Top, InHandAt
<1>8. ASSUME NEW i \in 1..Len(past), i \notin Before PROVE Heard(frames', i, Owing(i)')
  <2>1. Owing(i)' = Owing(i)
    BY <1>3, <1>7, <1>8, AwayOwes
  <2>2. PICK k \in 1..Len(frames) : frames[k].first < i /\ Below(Owing(i), frames[k].verdict)
    BY <1>1 DEF Heard
  <2>3. k # Len(frames)
    BY <1>7, <1>8, <2>2
  <2>4. frames'[k] = frames[k] /\ k \in 1..Len(frames')
    BY <1>4, <2>3
  <2> QED BY <2>1, <2>2, <2>4 DEF Heard
<1>9. ASSUME NEW i \in 1..Len(past), i \in Before PROVE Heard(frames', i, Owing(i)')
  <2>1. PICK s : s = past[i].statement
    OBVIOUS
  <2>2. Owing(i)' = Remains(s)
    <3>1. Remains(s)' = Remains(s)
      BY RemainsStays
    <3>2. i \in lost' /\ past'[i].statement = s
      BY <1>3, <1>9, <2>1
    <3> QED BY <3>1, <3>2 DEF Owing
  <2>3. /\ NamesGated(s) => v # "clear"
        /\ NamesGated(s) /\ NamesWipe(s) => v = "deny"
    BY <1>3, <1>9, <2>1 DEF NamedBefore, WipedBefore
  <2>4. Below(Remains(s), v)
    <3>1. v # "clear" => Below("ask", v)
      BY StrengthIs DEF Below, Verdicts
    <3>2. Below("clear", v) /\ Below("deny", "deny")
      BY BelowOrders DEF Verdicts
    <3> QED BY <2>3, <3>1, <3>2 DEF Remains
  <2>5. /\ Len(frames) \in 1..Len(frames') /\ frames'[Len(frames)].first < i
        /\ frames'[Len(frames)].verdict = v
    BY <1>2, <1>4, <1>7, <1>9
  <2> QED BY <2>2, <2>4, <2>5 DEF Heard
<1>10. lost' \subseteq 1..Len(past')
  BY <1>1, <1>3, <1>7
<1> QED BY <1>6, <1>7, <1>8, <1>9, <1>10 DEF HeardInv

\* At the start nothing is owed.
LEMMA ReadPayloadDecides == GateInv /\ DecisionInv /\ ReadPayload => DecisionInv'
<1> SUFFICES ASSUME GateInv, DecisionInv, ReadPayload PROVE DecisionInv'
  OBVIOUS
<1>1. /\ at = "payload" /\ past = <<>> /\ past' = <<>> /\ lost' = {}
      /\ \/ at' = "ended"
         \/ at' = "open" /\ frames' = <<NewFrame>>
  BY DEF ReadPayload, Answer, GateAt, DecisionInv
<1>2. CASE at' = "ended"
  BY <1>1, <1>2 DEF DecisionInv, HeardInv
<1>3. CASE at' = "open" /\ frames' = <<NewFrame>>
  <2>1. Said(frames') \in [1..1 -> Verdicts] /\ Said(frames')[1] = "clear"
    BY <1>3 DEF Said, NewFrame, Verdicts
  <2>2. Over(Said(frames')) = "clear"
    <3>1. 1 \in Nat /\ "clear" \in Verdicts /\ \A i \in 1..1 : i = 1
      BY DEF Verdicts
    <3>2. \A i \in 1..1 : Below(Said(frames')[i], "clear")
      BY <2>1, <3>1, BelowOrders
    <3> QED BY <2>1, <3>1, <3>2, OverIsOnly
  <2> DEFINE owes == Owes(gate', at', config', runsProgram', past')
  <2>3. owes \in [1..0 -> Verdicts]
    BY <1>1 DEF Owes
  <2>4. Over(owes) = "clear"
    <3> HIDE DEF owes
    <3>1. 0 \in Nat /\ "clear" \in Verdicts /\ \A i \in 1..0 : FALSE
      BY DEF Verdicts
    <3> QED BY <2>3, <3>1, OverIsOnly
  <2>5. Settled(gate', at', config', runsProgram', past')
    BY <1>1 DEF Settled
  <2>6. ~InHandAt(at')
    BY <1>3 DEF InHandAt
  <2>7. HeardInv'
    <3>1. Started(frames', Len(past'))
      BY <1>1, <1>3 DEF Started, NewFrame
    <3> QED BY <1>1, <2>6, <3>1 DEF HeardInv
  <2> QED BY <1>3, <2>2, <2>4, <2>5, <2>6, <2>7 DEF DecisionInv
<1> QED BY <1>1, <1>2, <1>3

\* An opened command has nothing to decide.
LEMMA OpenCommandDecides == GateInv /\ DecisionInv /\ OpenCommand => DecisionInv'
<1> SUFFICES ASSUME GateInv, DecisionInv, OpenCommand PROVE DecisionInv'
  OBVIOUS
<1>1. /\ at = "open" /\ UNCHANGED <<gate, config, runsProgram, past>>
      /\ \/ at' = "read" /\ UNCHANGED <<frames, unread, lost>>
         \/ Unparsed
         \/ Merge("deny") /\ at' = "close" /\ unread' = "gated" /\ UNCHANGED lost
  BY DEF OpenCommand, GateAt
<1>2. at' \in {"read", "close"}
      /\ (unread' = "no" => unread = "no" /\ Over(Said(frames')) = Over(Said(frames)))
  BY <1>1, UnparsedIsUnread
<1>3. ~InHandAt(at) /\ ~InHandAt(at') /\ at \notin {"payload", "ended"} /\ at' # "payload"
  BY <1>1, <1>2 DEF InHandAt
<1>4. HeardInv'
  <2>1. CASE UNCHANGED <<frames, unread, lost>>
    <3>1. frames \in Seq(Frames) /\ frames # <<>> /\ Len(frames') = Len(frames)
      BY <1>3, <2>1, Deciding
    <3>2. Grows(frames, frames')
      BY <2>1, <3>1, SameGrows
    <3> QED BY <1>1, <1>3, <2>1, <3>1, <3>2, AwayHears
  <2>2. CASE Unparsed
    BY <1>1, <1>3, <2>2, UnparsedHears
  <2>3. CASE Merge("deny") /\ UNCHANGED lost
    <3>1. Grows(frames, frames') /\ Len(frames') = Len(frames)
      BY <1>3, <2>3, MergeSays DEF Merged, Verdicts
    <3> QED BY <1>1, <1>3, <2>3, <3>1, AwayHears
  <2> QED BY <1>1, <2>1, <2>2, <2>3
<1> QED BY <1>1, <1>2, <1>3, <1>4, AwayStays

\* A new line ends the pipe; it takes nothing back.
LEMMA ReadNextLineDecides == GateInv /\ DecisionInv /\ ReadNextLine => DecisionInv'
<1> SUFFICES ASSUME GateInv, DecisionInv, ReadNextLine PROVE DecisionInv'
  OBVIOUS
<1>1. /\ at = "read" /\ UNCHANGED <<gate, config, runsProgram, past>>
      /\ \/ /\ frames' = [frames EXCEPT ![Len(frames)].previous = "none"]
            /\ UNCHANGED <<at, unread, lost>>
         \/ Unparsed
  BY DEF ReadNextLine
<1>2. at' \in {"read", "close"}
  BY <1>1, UnparsedIsUnread
<1>3. ~InHandAt(at) /\ ~InHandAt(at') /\ at \notin {"payload", "ended"} /\ at' # "payload"
  BY <1>1, <1>2 DEF InHandAt
<1>4. ASSUME frames' = [frames EXCEPT ![Len(frames)].previous = "none"]
      PROVE  Said(frames') = Said(frames) /\ Grows(frames, frames') /\ Len(frames') = Len(frames)
  <2>1. /\ frames \in Seq(Frames) /\ frames # <<>> /\ Len(frames) \in 1..Len(frames)
        /\ frames[Len(frames)] \in Frames
    BY <1>3, InTheMiddle DEF GateInv
  <2> DEFINE top == [frames[Len(frames)] EXCEPT !.previous = "none"]
  <2>2. /\ top \in Frames /\ top.verdict = frames[Len(frames)].verdict
        /\ top.first = frames[Len(frames)].first
    BY <2>1, NoneBefore DEF Frames
  <2>3. frames' = [frames EXCEPT ![Len(frames)] = top]
    BY <1>4
  <2> HIDE DEF top
  <2>4. /\ frames' \in Seq(Frames) /\ Len(frames') = Len(frames)
        /\ \A i \in 1..Len(frames) :
             frames'[i].verdict = frames[i].verdict /\ frames'[i].first = frames[i].first
    BY <2>1, <2>2, <2>3
  <2> QED BY <2>1, <2>4, SaidStays, SameGrows
<1>5. unread' = "no" => unread = "no" /\ Over(Said(frames')) = Over(Said(frames))
  BY <1>1, <1>4, UnparsedIsUnread
<1>6. HeardInv'
  <2>1. CASE Unparsed
    BY <1>1, <1>3, <2>1, UnparsedHears
  <2>2. CASE ~Unparsed
    BY <1>1, <1>3, <1>4, <2>2, AwayHears
  <2> QED BY <2>1, <2>2
<1> QED BY <1>1, <1>3, <1>5, <1>6, AwayStays

\* A command that ends goes on to be closed.
LEMMA EndCommandDecides == GateInv /\ DecisionInv /\ EndCommand => DecisionInv'
<1> SUFFICES ASSUME GateInv, DecisionInv, EndCommand PROVE DecisionInv'
  OBVIOUS
<1>1. /\ at = "read" /\ at' = "close"
      /\ UNCHANGED <<gate, frames, config, runsProgram, past, lost, unread>>
  BY DEF EndCommand, GateAt
<1>2. ~InHandAt(at) /\ ~InHandAt(at')
  BY <1>1 DEF InHandAt
<1>3. frames \in Seq(Frames) /\ frames # <<>> /\ Len(frames') = Len(frames)
  BY <1>1, Deciding
<1>4. Grows(frames, frames')
  BY <1>1, <1>3, SameGrows
<1>5. HeardInv'
  BY <1>1, <1>2, <1>3, <1>4, AwayHears
<1> QED BY <1>1, <1>2, <1>5, AwayStays

\* What a nested command has heard is heard in the one around it.
LEMMA CloseHears ==
  ASSUME GateInv, DecisionInv, CloseCommand, Depth # 0
  PROVE  HeardInv'
<1> DEFINE n == Len(frames) - 1
<1>1. /\ at = "close" /\ UNCHANGED <<gate, config, runsProgram, past, lost>>
      /\ ~InHandAt(at)
  BY DEF CloseCommand, InHandAt
<1>2. at' = "read" /\ ~InHandAt(at')
  BY DEF CloseCommand, GateAt, InHandAt
<1>3. GateShape /\ frames \in Seq(Frames) /\ at \notin {"payload", "ended"}
  BY <1>1, InTheMiddle DEF GateInv
<1>4. /\ n \in Nat /\ n >= 1 /\ Len(frames) = n + 1
      /\ frames' \in Seq(Frames) /\ Len(frames') = n
      /\ \A k \in 1..n : k # n => frames'[k] = frames[k]
      /\ frames'[n].verdict = Stronger(frames[n].verdict, frames[n + 1].verdict)
      /\ frames'[n].first = frames[n].first
  BY <1>1, <1>3, PoppedStack
<1> HIDE DEF n
<1>5. /\ lost \subseteq 1..Len(past) /\ Started(frames, Len(past))
      /\ \A i \in 1..Len(past) : /\ i \in Nat /\ Owing(i) \in Verdicts
                                 /\ Heard(frames, i, Owing(i))
      /\ \A k \in 1..(n + 1) : frames[k].first \in Nat /\ frames[k].verdict \in Verdicts
  BY <1>3, <1>4, Hearing
<1>6. /\ n \in 1..n /\ n \in 1..(n + 1) /\ n + 1 \in 1..(n + 1) /\ n <= n + 1
      /\ \A k \in 1..(n + 1) : k = n + 1 \/ (k \in 1..n)
  BY <1>4
<1>7. Started(frames', Len(past))
  BY <1>4, <1>5 DEF Started
<1>8. frames[n].first <= frames[n + 1].first
  BY <1>4, <1>5, <1>6 DEF Started
<1>9. ASSUME NEW i \in 1..Len(past) PROVE Heard(frames', i, Owing(i)')
  <2>1. Owing(i)' = Owing(i)
    BY <1>1, <1>2, AwayOwes
  <2>2. PICK k \in 1..(n + 1) : frames[k].first < i /\ Below(Owing(i), frames[k].verdict)
    BY <1>4, <1>5 DEF Heard
  <2>3. CASE k \in 1..n /\ k # n
    BY <1>4, <2>1, <2>2, <2>3 DEF Heard
  <2>4. CASE k \in {n, n + 1}
    <3>1. frames[n].first < i
      BY <1>5, <1>6, <1>8, <2>2, <2>4
    <3>2. Below(frames[k].verdict, frames'[n].verdict) /\ frames'[n].verdict \in Verdicts
      BY <1>4, <1>5, <1>6, <2>4, StrongerIs
    <3>3. Below(Owing(i), frames'[n].verdict)
      BY <1>5, <2>2, <3>2, BelowOrders
    <3> QED BY <1>4, <1>6, <2>1, <3>1, <3>3 DEF Heard
  <2> QED BY <1>6, <2>3, <2>4
<1> QED BY <1>1, <1>2, <1>5, <1>7, <1>9 DEF HeardInv

\* A nested command that closes is heard in the one around it.
LEMMA CloseCommandDecides == GateInv /\ DecisionInv /\ CloseCommand => DecisionInv'
<1> SUFFICES ASSUME GateInv, DecisionInv, CloseCommand PROVE DecisionInv'
  OBVIOUS
<1>1. /\ at = "close" /\ UNCHANGED <<gate, config, runsProgram, past, lost, unread>>
  BY DEF CloseCommand
<1>2. at' \in {"decide", "read"} /\ (Depth = 0 => frames' = frames)
  BY DEF CloseCommand, GateAt
<1>3. ~InHandAt(at) /\ ~InHandAt(at')
  BY <1>1, <1>2 DEF InHandAt
<1>4. Over(Said(frames')) = Over(Said(frames))
  <2>1. CASE Depth = 0
    BY <1>2, <2>1
  <2>2. CASE Depth # 0
    <3> DEFINE n == Len(frames) - 1
    <3>1. GateShape /\ frames \in Seq(Frames)
      BY <1>1, InTheMiddle DEF GateInv
    <3>2. /\ n \in Nat /\ n >= 1 /\ Len(frames) = n + 1
          /\ frames' \in Seq(Frames) /\ Len(frames') = n
          /\ \A i \in 1..n : i # n => frames'[i] = frames[i]
          /\ frames'[n].verdict = Stronger(frames[n].verdict, frames[n + 1].verdict)
      BY <1>1, <2>2, <3>1, PoppedStack
    <3> HIDE DEF n
    <3> QED BY <3>1, <3>2, SaidClosed
  <2> QED BY <2>1, <2>2
<1>5. HeardInv'
  <2>1. CASE Depth = 0
    <3>1. frames \in Seq(Frames) /\ frames # <<>> /\ Len(frames') = Len(frames)
      BY <1>1, <1>2, <2>1, Deciding
    <3>2. Grows(frames, frames')
      BY <1>2, <2>1, <3>1, SameGrows
    <3> QED BY <1>1, <1>3, <3>1, <3>2, AwayHears
  <2>2. CASE Depth # 0
    BY <2>2, CloseHears
  <2> QED BY <2>1, <2>2
<1> QED BY <1>1, <1>2, <1>3, <1>4, <1>5, AwayStays

\* A statement that is read owes the pipe it ends.
LEMMA OwesRead ==
  ASSUME NEW shell \in Gates, NEW place, NEW c, NEW runs, NEW entries \in Seq(Entries),
         NEW entry \in Entries, ~InHandAt(place), Settled(shell, place, c, runs, entries)
  PROVE  /\ Over(Owes(shell, "judge", c, runs, Append(entries, entry)))
              = Stronger(Over(Owes(shell, place, c, runs, entries)),
                         RemoteExecution(shell, entry.after, entry.statement))
         /\ Settled(shell, "judge", c, runs, Append(entries, entry))
<1> DEFINE n == Len(entries)
           more == Append(entries, entry)
           f == Owes(shell, place, c, runs, entries)
           g == Owes(shell, "judge", c, runs, more)
<1>1. /\ n \in Nat /\ Len(more) = n + 1 /\ more[n + 1] = entry
      /\ \A i \in 1..n : more[i] = entries[i] /\ i # n + 1 /\ i \in 1..(n + 1)
  BY AppendProperties
<1> HIDE DEF more
<1>2. f \in [1..n -> Verdicts] /\ g \in [1..(n + 1) -> Verdicts]
  BY <1>1, OwesType
<1>3. ASSUME NEW i \in 1..n PROVE g[i] = f[i]
  <2>1. g[i] = OwedBy(shell, "read", c, runs, entries[i])
    BY <1>1 DEF Owes
  <2>2. f[i] = OwedBy(shell, IF i = n THEN place ELSE "read", c, runs, entries[i])
    BY DEF Owes
  <2>3. OwedBy(shell, place, c, runs, entries[i])
          = OwedBy(shell, "read", c, runs, entries[i])
    BY DEF OwedBy, InHandAt
  <2> QED BY <2>1, <2>2, <2>3
<1>4. g[n + 1] = RemoteExecution(shell, entry.after, entry.statement)
  <2>1. g[n + 1] = OwedBy(shell, "judge", c, runs, entry)
    BY <1>1 DEF Owes
  <2> QED BY <2>1 DEF OwedBy
<1>5. Settled(shell, "judge", c, runs, more)
  BY <1>1 DEF Settled, InHandAt
<1> HIDE DEF n, f, g
<1>6. Over(g) = Stronger(Over(f), g[n + 1])
  BY <1>1, <1>2, <1>3, OverAppended
<1> QED BY <1>4, <1>5, <1>6 DEF f, g, more

\* So far only the pipe that a new statement ends has to be heard.
LEMMA ReadHears ==
  ASSUME GateInv, DecisionInv, at = "read", at' = "judge", NEW entry \in Entries,
         past' = Append(past, entry), UNCHANGED <<gate, config, runsProgram, lost>>,
         Grows(frames, frames'), Len(frames') = Len(frames),
         Below(RemoteExecution(gate, entry.after, entry.statement), frames'[Len(frames)].verdict)
  PROVE  HeardInv'
<1>1. /\ lost \subseteq 1..Len(past) /\ Started(frames, Len(past)) /\ Len(past) \in Nat
      /\ Len(frames) \in 1..Len(frames) /\ past \in Seq(Entries) /\ gate \in Gates
      /\ \A i \in 1..Len(past) : /\ i \in Nat /\ Owing(i) \in Verdicts
                                 /\ Heard(frames, i, Owing(i))
      /\ \A k \in 1..Len(frames) : frames[k].first \in Nat
  BY Hearing, Deciding
<1>0. PICK n \in Nat : n = Len(past)
  BY <1>1
<1>2. /\ Len(past') = n + 1 /\ past'[n + 1] = entry /\ n + 1 \in 1..(n + 1)
      /\ \A i \in 1..n : past'[i] = past[i] /\ i \in 1..(n + 1) /\ i # n + 1
      /\ \A i \in 1..(n + 1) : i \in 1..n \/ i = n + 1
  BY <1>0, <1>1, AppendProperties
<1>3. Started(frames', n + 1)
  BY <1>0, <1>1, StartedGrows
<1>4. Len(frames) \in 1..Len(frames') /\ frames'[Len(frames)].first < n + 1
  <2>1. frames'[Len(frames)].first = frames[Len(frames)].first
    BY <1>1 DEF Grows
  <2>2. frames[Len(frames)].first <= n
    BY <1>0, <1>1 DEF Started
  <2> QED BY <1>0, <1>1, <2>1, <2>2
<1>5. ~InHandAt(at) /\ InHandAt(at') /\ at' \notin {"payload", "ended"}
  BY DEF InHandAt
<1>6. ASSUME NEW i \in 1..n PROVE Heard(frames', i, Owing(i)')
  <2>1. Owes(gate, at, config, runsProgram, past)[i]
          = OwedBy(gate, "read", config, runsProgram, past[i])
    BY <1>0, <1>5, OwesStay DEF Owes, OwedBy
  <2>2. Owes(gate', at', config', runsProgram', past')[i]
          = OwedBy(gate, "read", config, runsProgram, past[i])
    BY <1>0, <1>2 DEF Owes
  <2>3. PICK s : s = past[i].statement
    OBVIOUS
  <2>4. Remains(s)' = Remains(s)
    BY RemainsStays
  <2>5. past'[i].statement = s
    BY <1>2, <2>3
  <2>6. Owing(i)' = Owing(i)
    BY <2>1, <2>2, <2>3, <2>4, <2>5 DEF Owing
  <2>7. Below(Owing(i), Owing(i))
    BY <1>0, <1>1, BelowOrders
  <2>8. Heard(frames', i, Owing(i))
    BY <1>0, <1>1, <2>7, HeardGrows
  <2> QED BY <2>6, <2>8
<1>7. Owing(n + 1)' = RemoteExecution(gate, entry.after, entry.statement)
  <2>1. Owes(gate', at', config', runsProgram', past')[n + 1]
          = OwedBy(gate, "judge", config, runsProgram, entry)
    BY <1>2 DEF Owes
  <2>2. n + 1 \notin lost'
    BY <1>0, <1>1
  <2> QED BY <2>1, <2>2 DEF Owing, OwedBy
<1>8. Heard(frames', n + 1, Owing(n + 1)')
  BY <1>4, <1>7 DEF Heard
<1>9. \A i \in 1..(n + 1) : Heard(frames', i, Owing(i)')
  BY <1>2, <1>6, <1>8
<1>10. lost' \subseteq 1..Len(past')
  BY <1>0, <1>1, <1>2
<1> QED BY <1>2, <1>3, <1>4, <1>5, <1>9, <1>10 DEF HeardInv

\* The pipe a statement ends is heard when it is read.
LEMMA ReadStatementDecides == GateInv /\ DecisionInv /\ ReadStatement => DecisionInv'
<1> SUFFICES ASSUME GateInv, DecisionInv, ReadStatement PROVE DecisionInv'
  OBVIOUS
<1>1. /\ at = "read" /\ at' = "judge"
      /\ UNCHANGED <<gate, config, runsProgram, lost, unread>>
  BY DEF ReadStatement, GateAt
<1>2. PICK s \in Statements :
        /\ statement' = s
        /\ past' = Append(past, [statement |-> s, depth |-> Depth, after |-> Top.previous])
        /\ frames' = [frames EXCEPT
             ![Len(frames)].verdict = Stronger(@, RemoteExecution(gate, Top.previous, s)),
             ![Len(frames)].previous = s.program]
  BY DEF ReadStatement
<1> DEFINE remote == RemoteExecution(gate, Top.previous, s)
           entry == [statement |-> s, depth |-> Depth, after |-> Top.previous]
           top == [frames[Len(frames)] EXCEPT
                     !.verdict = Stronger(frames[Len(frames)].verdict, remote),
                     !.previous = s.program]
<1>3. /\ unread = "no" =>
           Over(Said(frames)) = Over(Owes(gate, at, config, runsProgram, past))
      /\ Settled(gate, at, config, runsProgram, past)
      /\ gate \in Gates /\ past \in Seq(Entries)
      /\ frames \in Seq(Frames) /\ frames # <<>>
      /\ Len(frames) \in Nat /\ Len(frames) \in 1..Len(frames) /\ Len(past) \in Nat
      /\ frames[Len(frames)] \in Frames
  BY <1>1, Deciding
<1>4. remote \in Verdicts /\ frames[Len(frames)].verdict \in Verdicts
  BY <1>3 DEF RemoteExecution, When, Verdicts, Frames
<1>5. entry \in Entries /\ entry.after = Top.previous /\ entry.statement = s
  BY <1>3 DEF Entries, Depth, Top, Frames
<1>6. frames' = [frames EXCEPT ![Len(frames)] = top]
  BY <1>2
<1> HIDE DEF remote
<1>7. /\ top \in Frames /\ top.verdict = Stronger(frames[Len(frames)].verdict, remote)
      /\ top.first = frames[Len(frames)].first
  <2>1. s.program \in Programs
    BY DEF Programs
  <2>2. Stronger(frames[Len(frames)].verdict, remote) \in Verdicts
    BY <1>4, StrongerIs
  <2> QED BY <2>1, <2>2, <1>3 DEF Frames
<1> HIDE DEF top
<1>8. /\ frames' \in Seq(Frames) /\ Len(frames') = Len(frames) /\ frames'[Len(frames)] = top
      /\ \A i \in 1..Len(frames) : i # Len(frames) => frames'[i] = frames[i]
  BY <1>3, <1>6, <1>7
<1>9. Over(Said(frames')) = Stronger(Over(Said(frames)), remote)
  BY <1>3, <1>4, <1>7, <1>8, SaidMerged
<1>10. past' = Append(past, entry)
  BY <1>2
<1>11. OfLast'
  <2>1. past' # <<>> /\ past'[Len(past')] = entry
    <3>1. /\ Len(past') = Len(past) + 1 /\ past'[Len(past) + 1] = entry
          /\ past' \in Seq(Entries)
      BY <1>3, <1>5, <1>10, AppendProperties
    <3>2. Len(past') # Len(<< >>)
      BY <1>3, <3>1
    <3> QED BY <3>1, <3>2
  <2>2. entry.statement = s /\ entry.depth = Depth /\ Depth' = Depth
    BY <1>8 DEF Depth
  <2> HIDE DEF entry
  <2> QED BY <1>1, <1>2, <2>1, <2>2 DEF OfLast
<1>12. /\ Over(Owes(gate, "judge", config, runsProgram, Append(past, entry)))
            = Stronger(Over(Owes(gate, at, config, runsProgram, past)), remote)
       /\ Settled(gate, "judge", config, runsProgram, Append(past, entry))
  <2>1. ~InHandAt(at)
    BY <1>1 DEF InHandAt
  <2>2. remote = RemoteExecution(gate, entry.after, entry.statement)
    BY <1>5 DEF remote
  <2> HIDE DEF entry
  <2> QED BY <1>3, <1>5, <2>1, <2>2, OwesRead
<1>13. Grows(frames, frames') /\ Below(remote, frames'[Len(frames)].verdict)
  BY <1>3, <1>4, <1>7, <1>8, MergeGrows
<1>14. HeardInv'
  <2>1. entry.after = Top.previous /\ entry.statement = s
    BY <1>5
  <2> HIDE DEF entry
  <2>2. remote = RemoteExecution(gate, entry.after, entry.statement)
    BY <2>1 DEF remote
  <2>3. Grows(frames, frames') /\ Below(remote, frames'[Len(frames)].verdict)
    BY <1>13
  <2>4. Len(frames') = Len(frames)
    BY <1>8
  <2> QED BY <1>1, <1>5, <1>10, <2>2, <2>3, <2>4, ReadHears
<1> HIDE DEF entry
<1>15. unread' = "no" =>
         Over(Said(frames')) = Over(Owes(gate', at', config', runsProgram', past'))
  BY <1>1, <1>3, <1>9, <1>10, <1>12
<1> QED BY <1>1, <1>10, <1>11, <1>12, <1>14, <1>15 DEF DecisionInv

\* An answered run has nothing left to decide.
LEMMA DecideDecides == DecisionInv /\ Decide => DecisionInv'
BY DEF DecisionInv, HeardInv, Decide, Answer, GateAt

\* What is deserved whatever the configuration of Git becomes, is fixed.
LEMMA FixedAt ==
  ASSUME NEW shell, NEW configs, NEW answers, NEW entry, NEW v \in Verdicts,
         \A t \in configs, r \in answers : DeservedIn(shell, t, r, entry) = v
  PROVE  Fixed(shell, configs, answers, entry)
BY DEF Fixed

\* A statement that git does not run owes nothing to the configuration of Git.
LEMMA DeservedWithoutGit ==
  ASSUME NEW shell \in Gates, NEW c, NEW runs, NEW entry,
         entry.statement.program # "git" \/ (shell = "cmd" /\ entry.statement.prefix # "none")
  PROVE  DeservedIn(shell, c, runs, entry) =
           Strongest({Verdict(shell, entry.statement), "clear", OfNesting(shell, entry),
                      RemoteExecution(shell, entry.after, entry.statement)})
<1>1. OfGit(shell, c, runs, entry.statement) = "clear"
  BY DEF OfGit
<1> QED BY <1>1, DeservedIs

\* A step that settles such a statement merges the rest of what it deserves.
LEMMA SettledWithoutGit ==
  ASSUME GateInv, DecisionInv, at = "judge", NEW v \in Verdicts,
         Merged(frames, frames', v, Len(past)),
         UNCHANGED <<gate, past, lost, unread, config, runsProgram>>, at' \in {"read", "close", "open"},
         NEW last, last = past[Len(past)],
         last.statement.program # "git" \/ (gate = "cmd" /\ last.statement.prefix # "none"),
         Strongest({Verdict(gate, last.statement), "clear", OfNesting(gate, last),
                    RemoteExecution(gate, last.after, last.statement)})
           = Stronger(RemoteExecution(gate, last.after, last.statement), v)
  PROVE  DecisionInv'
<1>1. gate \in Gates /\ config \in ConfigsFrom(config) /\ runsProgram \in RunsFrom(runsProgram)
  BY Deciding
<1> DEFINE remote == RemoteExecution(gate, last.after, last.statement)
           w == Stronger(remote, v)
<1>2. remote \in Verdicts
  BY <1>1, DeservedIs
<1>3. w \in Verdicts
  <2> HIDE DEF remote
  <2> QED BY <1>2, StrongerIs
<1>4. \A t \in ConfigsFrom(config), r \in RunsFrom(runsProgram) :
        DeservedIn(gate, t, r, last) = w
  BY <1>1, DeservedWithoutGit
<1>5. OwedBy(gate, at, config, runsProgram, last) = remote
  BY DEF OwedBy
<1>6. OwedBy(gate, at', config', runsProgram', last) = w
  BY <1>1, <1>4 DEF OwedBy
<1> HIDE DEF w, remote
<1>7. Fixed(gate, ConfigsFrom(config'), RunsFrom(runsProgram'), last)
  BY <1>3, <1>4, FixedAt
<1>8. ~InHandAt(at') /\ InHandAt(at) /\ at' \notin {"payload", "ended"}
  BY DEF InHandAt
<1> QED BY <1>1, <1>5, <1>6, <1>7, <1>8, JudgedFurther DEF w

\* The gate's own verdict is merged, and the objection to a nesting; a command
\* that is nested opens without a verdict.
LEMMA JudgeStatementDecides == GateInv /\ DecisionInv /\ JudgeStatement => DecisionInv'
<1> SUFFICES ASSUME GateInv, DecisionInv, JudgeStatement PROVE DecisionInv'
  OBVIOUS
<1> DEFINE own == Verdict(gate, statement)
<1>1. /\ at = "judge"
      /\ UNCHANGED <<gate, statement, config, runsProgram, past, lost, unread>>
  BY DEF JudgeStatement
<1>2. /\ gate \in Gates /\ config \in Configs /\ past \in Seq(Entries)
      /\ runsProgram \in {"unread", "yes", "no"}
      /\ config \in ConfigsFrom(config) /\ runsProgram \in RunsFrom(runsProgram)
      /\ frames \in Seq(Frames) /\ frames # <<>>
      /\ Len(frames) \in Nat /\ Len(frames) \in 1..Len(frames)
      /\ frames[Len(frames)] \in Frames /\ OfLast
  BY <1>1, Deciding DEF InHandAt
<1>3. PICK last \in Entries : last = past[Len(past)]
  <2>1. Len(past) \in 1..Len(past)
    BY <1>2, EmptySeq DEF OfLast
  <2> QED BY <1>2, <2>1
<1>4. statement = last.statement /\ last.depth = Depth
  BY <1>1, <1>2, <1>3 DEF OfLast
<1> DEFINE remote == RemoteExecution(gate, last.after, last.statement)
<1>5. own \in Verdicts /\ remote \in Verdicts /\ "ask" \in Verdicts /\ "deny" \in Verdicts
  BY <1>2, <1>4, DeservedIs DEF Verdicts
<1>6. own = Verdict(gate, last.statement)
  BY <1>4
<1>7. \/ /\ Nests /\ Opaque
         /\ Merge(Stronger(own, "ask")) /\ at' = "read"
      \/ /\ Nests /\ ~Opaque /\ ~MayNest
         /\ Merge("deny") /\ at' = "read"
      \/ /\ Nests /\ ~Opaque /\ MayNest
         /\ frames' = Append([frames EXCEPT ![Len(frames)].verdict = Stronger(@, own)], NewFrame)
         /\ at' = "open"
      \/ RunsGit /\ Merge(own) /\ at' = "git"
      \/ ~Nests /\ ~RunsGit /\ Merge(own) /\ at' \in {"read", "close"}
  BY AfterStatementGoesOn DEF JudgeStatement, GateAt
<1> HIDE DEF own, remote
<1>8. Nests => last.statement.program = "nest" /\ gate # "cmd"
  BY <1>4 DEF Nests
<1>9. CASE Nests /\ Opaque /\ Merge(Stronger(own, "ask")) /\ at' = "read"
  <2>1. OfNesting(gate, last) = "ask"
    BY <1>4, <1>8, <1>9 DEF Opaque, OfNesting
  <2>2. Stronger(own, "ask") \in Verdicts
    BY <1>5, StrongerIs
  <2>3. Merged(frames, frames', Stronger(own, "ask"), Len(past))
    BY <1>1, <1>9, <2>2, MergeSays
  <2>4. Strongest({own, "clear", OfNesting(gate, last), remote})
          = Stronger(remote, Stronger(own, "ask"))
    BY <1>5, <2>1, DeservedAlone
  <2> QED BY <1>1, <1>3, <1>6, <1>8, <1>9, <2>2, <2>3, <2>4, SettledWithoutGit DEF remote
<1>10. CASE Nests /\ ~Opaque /\ ~MayNest /\ Merge("deny") /\ at' = "read"
  <2>1. OfNesting(gate, last) = "deny"
    <3>1. last.depth \in Nat /\ MaxDepth \in Nat /\ ~(last.depth < MaxDepth)
      BY <1>4, <1>10, DepthAssumption DEF MayNest, Entries
    <3>2. last.depth >= MaxDepth
      BY <3>1
    <3> QED BY <1>4, <1>8, <1>10, <3>2 DEF Opaque, OfNesting, When
  <2>2. Merged(frames, frames', "deny", Len(past))
    BY <1>1, <1>5, <1>10, MergeSays
  <2>3. Strongest({own, "clear", OfNesting(gate, last), remote}) = Stronger(remote, "deny")
    <3>1. Strongest({own, "clear", "deny", remote}) = Stronger(remote, "deny")
      BY <1>5, DeservedAlone
    <3> QED BY <2>1, <3>1
  <2> QED BY <1>1, <1>3, <1>5, <1>6, <1>8, <1>10, <2>2, <2>3, SettledWithoutGit DEF remote
<1>11. CASE /\ Nests /\ ~Opaque /\ MayNest
            /\ frames' = Append([frames EXCEPT ![Len(frames)].verdict = Stronger(@, own)],
                                NewFrame)
            /\ at' = "open"
  <2>1. OfNesting(gate, last) = "clear"
    <3>1. last.depth \in Nat /\ MaxDepth \in Nat /\ last.depth < MaxDepth
      BY <1>4, <1>11, DepthAssumption DEF MayNest, Entries
    <3>2. ~(last.depth >= MaxDepth)
      BY <3>1
    <3> QED BY <1>4, <1>8, <1>11, <3>2 DEF Opaque, OfNesting, When
  <2>2. Merged(frames, frames', own, Len(past))
    <3> DEFINE v == Stronger(frames[Len(frames)].verdict, own)
               under == [frames EXCEPT ![Len(frames)].verdict = v]
    <3>1. frames[Len(frames)].verdict \in Verdicts
      BY <1>2 DEF Frames
    <3>2. v \in Verdicts
      BY <1>5, <3>1, StrongerIs
    <3>3. frames' = Append(under, NewFrame)
      BY <1>11
    <3> HIDE DEF v
    <3>4. /\ under \in Seq(Frames) /\ Len(under) = Len(frames)
          /\ under[Len(frames)].verdict = v
          /\ under[Len(frames)].first = frames[Len(frames)].first
          /\ \A i \in 1..Len(frames) : i # Len(frames) => under[i] = frames[i]
      BY <1>2, <3>2, TopReplaced
    <3> HIDE DEF under
    <3>5. /\ NewFrame \in Frames /\ NewFrame.verdict = "clear"
          /\ NewFrame.first = Len(past)
      BY <1>2, NoneBefore DEF NewFrame, Frames, Verdicts
    <3>6. /\ frames' \in Seq(Frames) /\ Len(frames') = Len(under) + 1
          /\ \A i \in 1..Len(under) : frames'[i] = under[i]
          /\ frames'[Len(frames')] = NewFrame
      BY <3>3, <3>4, <3>5, AppendProperties
    <3>7. Over(Said(under)) = Stronger(Over(Said(frames)), own)
      BY <1>2, <1>5, <3>4, SaidMerged DEF v
    <3>8. Over(Said(frames')) = Over(Said(under))
      BY <3>4, <3>5, <3>6, SaidOpened
    <3>9. Grows(frames, under) /\ Below(own, under[Len(frames)].verdict)
      BY <1>2, <1>5, <3>4, MergeGrows DEF v
    <3>10. Len(past) \in Nat /\ Started(frames, Len(past))
      BY <1>1, Hearing, Deciding
    <3>11. Started(under, Len(past))
      BY <3>4, <3>9, <3>10, StartedGrows
    <3>12. /\ Len(frames') = Len(frames) + 1
           /\ \A k \in 1..Len(frames) : frames'[k] = under[k]
           /\ frames'[Len(frames) + 1].first = Len(past)
      BY <3>4, <3>5, <3>6
    <3>13. Grows(frames, frames') /\ Below(own, frames'[Len(frames)].verdict)
      BY <1>2, <3>4, <3>6, <3>9, <3>12 DEF Grows
    <3>14. Started(frames', Len(past))
      <4>1. /\ Len(frames') = Len(frames) + 1 /\ Len(frames) \in Nat
            /\ \A k \in 1..Len(frames') : k \in 1..Len(frames) \/ k = Len(frames) + 1
        BY <1>2, <3>12
      <4>2. \A k \in 1..Len(frames) :
              /\ frames'[k].first <= Len(past)
              /\ \A m \in 1..Len(frames) : k <= m => frames'[k].first <= frames'[m].first
        BY <3>4, <3>11, <3>12 DEF Started
      <4>3. frames'[Len(frames) + 1].first = Len(past) /\ Len(past) \in Nat
        BY <3>10, <3>12
      <4> QED BY <4>1, <4>2, <4>3 DEF Started
    <3> QED BY <3>7, <3>8, <3>13, <3>14 DEF Merged
  <2>3. Strongest({own, "clear", OfNesting(gate, last), remote}) = Stronger(remote, own)
    BY <1>5, <2>1, DeservedAlone
  <2> QED BY <1>1, <1>3, <1>5, <1>6, <1>8, <1>11, <2>2, <2>3, SettledWithoutGit DEF remote
<1>12. CASE RunsGit /\ Merge(own) /\ at' = "git"
  <2>1. Merged(frames, frames', own, Len(past)) /\ Len(frames') = Len(frames)
    BY <1>1, <1>5, <1>12, MergeSays
  <2>2. OwedBy(gate, at, config, runsProgram, last) = remote
    BY <1>1 DEF OwedBy, remote
  <2>3. OwedBy(gate, at', config', runsProgram', last) = Strongest({remote, own})
    BY <1>6, <1>12 DEF OwedBy, remote
  <2>4. Strongest({remote, own}) = Stronger(remote, own)
    BY <1>5, StrongestOfTwo
  <2>5. InHandAt(at') /\ InHandAt(at) /\ at' \notin {"payload", "ended"}
    BY <1>1, <1>12 DEF InHandAt
  <2>6. OfLast'
    <3>1. past' = past /\ past # <<>> /\ past[Len(past)].statement = statement
      BY <1>1, <1>2, <1>3, <1>4 DEF OfLast
    <3>2. statement = [statement EXCEPT !.sub = statement.sub]
      <4>1. statement \in Statements
        BY <1>4 DEF Entries
      <4> QED BY <4>1, StatementsAssumption
    <3>3. statement.program = "git" /\ (gate = "cmd" => statement.prefix = "none")
      BY <1>12 DEF RunsGit
    <3> QED BY <1>1, <1>12, <3>1, <3>2, <3>3 DEF OfLast
  <2> QED BY <1>1, <1>2, <1>3, <1>5, <2>1, <2>2, <2>3, <2>4, <2>5, <2>6, JudgedFurther
<1>13. CASE ~Nests /\ ~RunsGit /\ Merge(own) /\ at' \in {"read", "close"}
  <2>1. OfNesting(gate, last) = "clear"
    BY <1>4, <1>13 DEF Nests, OfNesting
  <2>2. last.statement.program # "git" \/ (gate = "cmd" /\ last.statement.prefix # "none")
    BY <1>4, <1>13 DEF RunsGit
  <2>3. Merged(frames, frames', own, Len(past))
    BY <1>1, <1>5, <1>13, MergeSays
  <2>4. Strongest({own, "clear", OfNesting(gate, last), remote}) = Stronger(remote, own)
    BY <1>5, <2>1, DeservedAlone
  <2> QED BY <1>1, <1>3, <1>5, <1>6, <1>13, <2>2, <2>3, <2>4, SettledWithoutGit DEF remote
<1> QED BY <1>7, <1>9, <1>10, <1>11, <1>12, <1>13

\* A subcommand that is no read does not depend on what the configuration runs.
LEMMA KnownGitAnyway ==
  ASSUME NEW s, NEW x, NEW y, s.sub \notin ReadSubcommands
  PROVE  KnownGit(s, x) = KnownGit(s, y)
BY DEF KnownGit

\* What a statement for git deserves: the pipe it ends, the gate's verdict, and
\* that of git.
LEMMA DeservedOfGit ==
  ASSUME NEW shell \in Gates, NEW c, NEW runs, NEW entry,
         entry.statement.program = "git"
  PROVE  DeservedIn(shell, c, runs, entry) =
           Stronger(Strongest({RemoteExecution(shell, entry.after, entry.statement),
                               Verdict(shell, entry.statement)}),
                    OfGit(shell, c, runs, entry.statement))
<1>1. OfNesting(shell, entry) = "clear"
  BY DEF OfNesting
<1> DEFINE own == Verdict(shell, entry.statement)
           git == OfGit(shell, c, runs, entry.statement)
           remote == RemoteExecution(shell, entry.after, entry.statement)
<1>2. /\ DeservedIn(shell, c, runs, entry) = Strongest({own, git, "clear", remote})
      /\ own \in Verdicts /\ git \in Verdicts /\ remote \in Verdicts
  BY <1>1, DeservedIs
<1> HIDE DEF own, git, remote
<1>3. Strongest({own, git, "clear", remote}) = Stronger(Strongest({remote, own}), git)
  BY <1>2, DeservedWithGit
<1> QED BY <1>2, <1>3 DEF own, git, remote

\* A step that settles a statement for git merges the verdict of git.
LEMMA SettledByGit ==
  ASSUME GateInv, DecisionInv, at \in {"git", "alias"}, NEW v \in Verdicts,
         Merge(v), UNCHANGED <<gate, past, lost, unread, config>>, at' \in {"read", "close"},
         runsProgram' \in RunsFrom(runsProgram),
         NEW last, last = past[Len(past)], last.statement.program = "git",
         \A t \in ConfigsFrom(config), r \in RunsFrom(runsProgram') :
           OfGit(gate, t, r, last.statement) = v
  PROVE  DecisionInv'
<1>1. /\ gate \in Gates /\ config \in ConfigsFrom(config)
      /\ runsProgram' \in RunsFrom(runsProgram')
  BY Deciding DEF RunsFrom
<1> DEFINE own == Verdict(gate, last.statement)
           remote == RemoteExecution(gate, last.after, last.statement)
           u == Strongest({remote, own})
           w == Stronger(u, v)
<1>2. remote \in Verdicts /\ own \in Verdicts
  BY <1>1, DeservedIs
<1>3. OwedBy(gate, at, config, runsProgram, last) = u
  BY DEF OwedBy
<1>4. \A t \in ConfigsFrom(config), r \in RunsFrom(runsProgram') :
        DeservedIn(gate, t, r, last) = w
  <2>1. ASSUME NEW t \in ConfigsFrom(config), NEW r \in RunsFrom(runsProgram')
        PROVE  DeservedIn(gate, t, r, last) = w
    <3>1. DeservedIn(gate, t, r, last) = Stronger(u, OfGit(gate, t, r, last.statement))
      BY <1>1, DeservedOfGit
    <3> QED BY <3>1
  <2> QED BY <2>1
<1>5. OwedBy(gate, at', config', runsProgram', last) = w
  BY <1>1, <1>4 DEF OwedBy
<1> HIDE DEF own, remote
<1>6. u \in Verdicts
  <2>1. {remote, own} \in SUBSET Verdicts /\ {remote, own} # {}
    BY <1>2
  <2> QED BY <2>1, StrongestIs
<1> HIDE DEF u
<1>7. w \in Verdicts
  BY <1>6, StrongerIs
<1> HIDE DEF w
<1>8. Fixed(gate, ConfigsFrom(config'), RunsFrom(runsProgram'), last)
  BY <1>4, <1>7, FixedAt
<1>9. /\ ~InHandAt(at') /\ InHandAt(at) /\ at' \notin {"payload", "ended"}
      /\ at \notin {"payload", "ended"}
  BY DEF InHandAt
<1>10. Merged(frames, frames', v, Len(past))
  BY <1>9, MergeSays
<1>11. OwedBy(gate, at', config', runsProgram', last)
         = Stronger(OwedBy(gate, at, config, runsProgram, last), v)
  BY <1>3, <1>5 DEF w
<1> QED BY <1>1, <1>8, <1>9, <1>10, <1>11, JudgedFurther

\* The statement for git that is in hand, and the one that was read.
LEMMA GitInHand ==
  ASSUME GateInv, DecisionInv, at \in {"git", "alias"}, NEW s, s = past[Len(past)].statement
  PROVE  /\ s \in Statements /\ s.program = "git" /\ (gate = "cmd" => s.prefix = "none")
         /\ statement = [s EXCEPT !.sub = statement.sub]
         /\ at = "git" /\ statement.sub = s.sub => statement = s
         /\ (at = "alias" \/ statement.sub # s.sub) => Replaced(statement.sub)
         /\ past # <<>> /\ config \in Configs /\ gate \in Gates
<1>1. /\ OfLast /\ past \in Seq(Entries) /\ config \in Configs /\ gate \in Gates
  BY Deciding DEF InHandAt
<1>2. past # <<>>
  BY <1>1 DEF OfLast
<1>3. s \in Statements
  <2>1. past[Len(past)] \in Entries
    BY <1>1, <1>2, EmptySeq
  <2> QED BY <2>1 DEF Entries
<1>4. statement.sub = s.sub => [s EXCEPT !.sub = statement.sub] = s
  BY <1>3, StatementsAssumption
<1>5. /\ s.program = "git" /\ (gate = "cmd" => s.prefix = "none")
      /\ statement = [s EXCEPT !.sub = statement.sub]
      /\ (at = "alias" \/ statement.sub # s.sub) => Replaced(statement.sub)
  BY <1>1 DEF OfLast
<1> QED BY <1>1, <1>2, <1>3, <1>4, <1>5

\* Git says of the statement in hand what it says of the one that was read.
LEMMA JudgeGitDecides == GateInv /\ DecisionInv /\ JudgeGit => DecisionInv'
<1> SUFFICES ASSUME GateInv, DecisionInv, JudgeGit PROVE DecisionInv'
  OBVIOUS
<1> DEFINE verdict == GitVerdict(statement, runsProgram')
<1>1. /\ at = "git" /\ statement.sub \notin AliasNames
      /\ UNCHANGED <<gate, config, past, lost, unread>>
      /\ Merge(verdict) /\ GateAt(AfterStatement(verdict))
  BY DEF JudgeGit, GitVerdict
<1>2. verdict \in Verdicts
  BY KnownGitType DEF GitVerdict, Verdicts
<1>3. at' \in {"read", "close"}
  BY <1>1, AfterStatementGoesOn DEF GateAt
<1>4. /\ runsProgram' \in RunsFrom(runsProgram)
      /\ statement.sub \in ReadSubcommands => \A r \in RunsFrom(runsProgram') : r = runsProgram'
  BY DEF JudgeGit, RunsFrom
<1>5. PICK last : last = past[Len(past)]
  OBVIOUS
<1> DEFINE s == last.statement
<1>6. /\ s \in Statements /\ s.program = "git" /\ (gate = "cmd" => s.prefix = "none")
      /\ statement = [s EXCEPT !.sub = statement.sub]
      /\ statement.sub = s.sub => statement = s
      /\ statement.sub # s.sub => Replaced(statement.sub)
      /\ config \in Configs /\ gate \in Gates
  BY <1>1, <1>5, GitInHand
<1> HIDE DEF verdict
<1>7. \A r \in RunsFrom(runsProgram') :
        KnownGit(statement, r = "yes") = KnownGit(statement, runsProgram' = "yes")
  BY <1>4, KnownGitAnyway
<1>8. ASSUME NEW t \in ConfigsFrom(config), NEW r \in RunsFrom(runsProgram')
      PROVE  OfGit(gate, t, r, s) = verdict
  <2>1. CASE statement.sub = s.sub
    BY <1>1, <1>6, <1>7, <2>1 DEF OfGit, GitVerdict, verdict
  <2>2. CASE statement.sub # s.sub
    <3>1. /\ s.sub \in AliasNames /\ config # NoConfiguration /\ statement.sub \in Builtins
          /\ SameEnd(GitRuns(CommandTable(config), s.sub),
                     GitRuns(CommandTable(config), statement.sub))
      BY <1>1, <1>5, <1>6, <2>2 DEF Replaced
    <3>2. t = config
      BY <3>1 DEF ConfigsFrom
    <3>3. GitRuns(CommandTable(config), statement.sub)
            = [ends |-> "command", sub |-> statement.sub]
      <4>1. GitRuns(CommandTable(config), statement.sub)
              = GitEnds(CommandTable(config))[At(statement.sub, {})]
        BY DEF GitRuns, First, At
      <4>2. ~Starts(statement.sub) /\ {} \in SUBSET AliasNames
        BY <1>1 DEF Starts
      <4>3. PICK table \in AliasTables : table = CommandTable(config)
        BY <1>6, TablesAre
      <4>4. GitEnds(table)[At(statement.sub, {})] = [ends |-> "command", sub |-> statement.sub]
        BY <3>1, <4>2, GitCommand
      <4> QED BY <4>1, <4>3, <4>4
    <3>4. GitRuns(CommandTable(t), s.sub) = [ends |-> "command", sub |-> statement.sub]
      BY <3>1, <3>2, <3>3 DEF SameEnd
    <3>5. s.sub \notin {"", "$x"} /\ statement.sub \notin {"", "$x"}
      BY <3>1, NamedAliases DEF Builtins
    <3>6. OfGit(gate, t, r, s) = KnownGit(statement, r = "yes")
      <4>1. PICK b : b = statement.sub
        OBVIOUS
      <4>2. [s EXCEPT !.sub = b] = statement
        BY <1>6, <4>1
      <4>3. /\ GitRuns(CommandTable(t), s.sub).ends = "command"
            /\ GitRuns(CommandTable(t), s.sub).sub = b
        BY <3>4, <4>1
      <4>4. s.program = "git" /\ (gate = "cmd" => s.prefix = "none")
        BY <1>6
      <4>5. OfGit(gate, t, r, s)
              = KnownGit([s EXCEPT !.sub = GitRuns(CommandTable(t), s.sub).sub], r = "yes")
        BY <3>1, <3>5, <4>3, <4>4 DEF OfGit
      <4>6. OfGit(gate, t, r, s) = KnownGit([s EXCEPT !.sub = b], r = "yes")
        BY <4>3, <4>5
      <4> QED BY <4>2, <4>6
    <3> QED BY <1>7, <3>5, <3>6 DEF GitVerdict, verdict
  <2> QED BY <2>1, <2>2
<1> QED BY <1>1, <1>2, <1>3, <1>4, <1>5, <1>6, <1>8, SettledByGit

\* Two expansions in a row end where the first one starts.
LEMMA SameEndChains ==
  ASSUME NEW x, NEW y, NEW z, SameEnd(x, y), SameEnd(y, z)
  PROVE  SameEnd(x, z)
BY DEF SameEnd

\* Git is looked at further: nothing is said, nothing more is owed.
LEMMA LookedFurther ==
  ASSUME GateInv, DecisionInv, at \in {"git", "alias"},
         UNCHANGED <<gate, frames, past, lost, unread, runsProgram>>, at' \in {"git", "alias"},
         config' \in ConfigsFrom(config), OfLast'
  PROVE  DecisionInv'
<1>1. /\ gate \in Gates /\ runsProgram \in RunsFrom(runsProgram)
      /\ frames \in Seq(Frames) /\ Len(frames) \in Nat
  BY Deciding
<1>2. PICK last : last = past[Len(past)]
  OBVIOUS
<1>3. /\ OwedBy(gate, at', config', runsProgram', last) = OwedBy(gate, at, config, runsProgram, last)
      /\ OwedBy(gate, at, config, runsProgram, last) \in Verdicts
  BY <1>1, OwedType DEF OwedBy
<1>4. OwedBy(gate, at', config', runsProgram', last)
        = Stronger(OwedBy(gate, at, config, runsProgram, last), "clear")
  BY <1>3, StrongerClear
<1>5. Merged(frames, frames', "clear", Len(past)) /\ Len(frames') = Len(frames)
  <2>1. Over(Said(frames)) \in Verdicts
    BY <1>1, SaidType, OverIs
  <2>2. Over(Said(frames')) = Stronger(Over(Said(frames)), "clear")
    BY <2>1, StrongerClear
  <2>3. frames # <<>> /\ frames[Len(frames)].verdict \in Verdicts /\ Started(frames, Len(past))
    BY Deciding, Hearing
  <2>4. Grows(frames, frames') /\ Below("clear", frames[Len(frames)].verdict)
    BY <1>1, <2>3, SameGrows, BelowOrders
  <2> QED BY <2>2, <2>3, <2>4 DEF Merged
<1>6. "clear" \in Verdicts /\ InHandAt(at) /\ InHandAt(at') /\ at' \notin {"payload", "ended"}
  BY DEF Verdicts, InHandAt
<1> QED BY <1>1, <1>2, <1>4, <1>5, <1>6, JudgedFurther

\* The configuration is read; what was settled before does not depend on it.
LEMMA LookUpAliasDecides == GateInv /\ DecisionInv /\ LookUpAlias => DecisionInv'
<1> SUFFICES ASSUME GateInv, DecisionInv, LookUpAlias PROVE DecisionInv'
  OBVIOUS
<1>1. /\ at = "git" /\ statement.sub \in AliasNames /\ at' = "alias"
      /\ UNCHANGED <<gate, frames, statement, past, lost, unread, runsProgram>>
  BY DEF LookUpAlias, GateAt
<1>2. config' \in ConfigsFrom(config) /\ config' # NoConfiguration
      /\ (config # NoConfiguration => config' = config)
  BY ConfigurationsAssumption DEF LookUpAlias, ConfigsFrom, Configs
<1>3. PICK s : s = past[Len(past)].statement
  OBVIOUS
<1>4. /\ s.program = "git" /\ (gate = "cmd" => s.prefix = "none") /\ past # <<>>
      /\ statement = [s EXCEPT !.sub = statement.sub]
      /\ statement.sub # s.sub => Replaced(statement.sub)
  BY <1>1, <1>3, GitInHand
<1>5. Replaced(statement.sub)'
  <2>1. CASE statement.sub = s.sub
    BY <1>1, <1>2, <1>3, <2>1 DEF Replaced, SameEnd
  <2>2. CASE statement.sub # s.sub
    BY <1>1, <1>2, <1>4, <2>2 DEF Replaced
  <2> QED BY <2>1, <2>2
<1>6. OfLast'
  BY <1>1, <1>3, <1>4, <1>5 DEF OfLast
<1> QED BY <1>1, <1>2, <1>6, LookedFurther

\* Git stops at the alias in hand, and so it does at the one that was read; or
\* the alias is replaced by what ends where it ends.
LEMMA ExpandAliasDecides == GateInv /\ DecisionInv /\ ExpandAlias => DecisionInv'
<1> SUFFICES ASSUME GateInv, DecisionInv, ExpandAlias, at' # "ended"
             PROVE  DecisionInv'
  <2>1. at' = "ended" /\ ExpandAlias => DecisionInv'
    BY DEF DecisionInv, HeardInv
  <2> QED BY <2>1
<1>1. /\ at = "alias"
      /\ UNCHANGED <<gate, config, runsProgram, past, lost, unread>>
  BY DEF ExpandAlias
<1>2. PICK last : last = past[Len(past)]
  OBVIOUS
<1>3. PICK s : s = last.statement
  OBVIOUS
<1>4. /\ s.program = "git" /\ (gate = "cmd" => s.prefix = "none") /\ past # <<>>
      /\ config \in Configs /\ gate \in Gates
      /\ statement = [s EXCEPT !.sub = statement.sub] /\ Replaced(statement.sub)
  BY <1>1, <1>2, <1>3, GitInHand
<1>5. PICK a : a = statement.sub
  OBVIOUS
<1>6. a \in AliasNames
  BY <1>1, <1>5 DEF GateInv, GateShape
<1>7. /\ s.sub \in AliasNames /\ config # NoConfiguration
      /\ SameEnd(GitRuns(CommandTable(config), s.sub), GitRuns(CommandTable(config), a))
  BY <1>2, <1>3, <1>4, <1>5 DEF Replaced
<1>8. CASE CommandTable(config)[a].kind # "git"
  <2>1. Merge("ask") /\ at' \in {"read", "close"} /\ "ask" \in Verdicts
    BY <1>1, <1>5, <1>8, AfterStatementGoesOn DEF ExpandAlias, GateAt, Verdicts
  <2>2. GitRuns(CommandTable(config), a).ends # "command"
    <3>1. GitRuns(CommandTable(config), a) = GitEnds(CommandTable(config))[At(a, {})]
      BY DEF GitRuns, First, At
    <3>2. PICK table \in AliasTables : table = CommandTable(config)
      BY <1>4, TablesAre
    <3>3. {} \in SUBSET AliasNames /\ a \notin {}
      OBVIOUS
    <3>4. /\ GitEnds(table)[At(a, {})] = [ends |-> table[a].kind, sub |-> table[a].sub]
          /\ table[a].kind \in {"shell", "undefined"}
      BY <1>6, <1>8, <3>2, <3>3, GitStops
    <3> QED BY <3>1, <3>2, <3>4
  <2>3. GitRuns(CommandTable(config), s.sub).ends # "command"
    BY <1>7, <2>2 DEF SameEnd
  <2>4. ASSUME NEW t \in ConfigsFrom(config), NEW r \in RunsFrom(runsProgram')
        PROVE  OfGit(gate, t, r, s) = "ask"
    <3>1. t = config
      BY <1>7 DEF ConfigsFrom
    <3>2. s.sub \notin {"", "$x"}
      BY <1>7, NamedAliases
    <3>3. s.program = "git" /\ (gate = "cmd" => s.prefix = "none")
      BY <1>4
    <3> QED BY <1>7, <2>3, <3>1, <3>2, <3>3 DEF OfGit
  <2>5. runsProgram' \in RunsFrom(runsProgram)
    BY <1>1 DEF RunsFrom
  <2> QED BY <1>1, <1>2, <1>3, <1>4, <2>1, <2>4, <2>5, SettledByGit
<1>9. CASE CommandTable(config)[a].kind = "git"
  <2>0. PICK b : b = CommandTable(config)[a].sub
    OBVIOUS
  <2>1. /\ statement' = [statement EXCEPT !.sub = b] /\ UNCHANGED frames
        /\ at' = "git"
    BY <1>1, <1>5, <1>9, <2>0 DEF ExpandAlias, GateAt
  <2>2. SameEnd(GitRuns(CommandTable(config), a), GitRuns(CommandTable(config), b)) /\ b \in AliasNames \cup Builtins
    <3>1. PICK table \in AliasTables : table = CommandTable(config)
      BY <1>4, TablesAre
    <3>2. {} \in SUBSET AliasNames /\ a \notin {}
      OBVIOUS
    <3>3. SameEnd(GitRuns(table, a), GitRuns(table, table[a].sub))
      BY <1>6, <1>9, <3>1, ExpansionEndsThere
    <3>4. table[a].sub \in AliasNames \cup Builtins
      BY <1>6, <1>9, <3>1, <3>2, GitFollows
    <3> QED BY <2>0, <3>1, <3>3, <3>4
  <2>3. SameEnd(GitRuns(CommandTable(config), s.sub), GitRuns(CommandTable(config), b))
    BY <1>7, <2>2, SameEndChains
  <2>4. statement'.sub = b /\ statement' = [s EXCEPT !.sub = b]
    <3>1. statement = [s EXCEPT !.sub = a]
      BY <1>4, <1>5
    <3>2. s \in Statements
      BY <1>1, <1>2, <1>3, GitInHand
    <3>3. s \in [program : STRING, sub : STRING, words : SUBSET STRING,
                 redirects : SUBSET STRING, prefix : STRING]
      BY <3>2, StatementsAssumption
    <3>4. [[s EXCEPT !.sub = a] EXCEPT !.sub = b] = [s EXCEPT !.sub = b]
          /\ [s EXCEPT !.sub = b].sub = b
      BY <3>3
    <3> QED BY <2>1, <3>1, <3>4
  <2>5. Replaced(b)'
    <3>1. past'[Len(past')].statement = s /\ config' = config
      BY <1>1, <1>2, <1>3
    <3> QED BY <1>7, <2>2, <2>3, <3>1 DEF Replaced
  <2>6. Replaced(statement.sub)'
    BY <2>4, <2>5 DEF Replaced
  <2>7. OfLast'
    BY <1>1, <1>2, <1>3, <1>4, <2>1, <2>4, <2>6 DEF OfLast
  <2>8. config' \in ConfigsFrom(config)
    BY <1>1, <1>7 DEF ConfigsFrom
  <2> QED BY <1>1, <2>1, <2>7, <2>8, LookedFurther
<1> QED BY <1>8, <1>9

\* Every step keeps it.
LEMMA StepDecides == GateInv /\ DecisionInv /\ [GateNext]_gateVars => DecisionInv'
<1> SUFFICES ASSUME GateInv, DecisionInv, [GateNext]_gateVars PROVE DecisionInv'
  OBVIOUS
<1>1. CASE UNCHANGED gateVars
  <2>1. UNCHANGED <<at, gate, frames, statement, config, runsProgram, past, lost, unread>>
    BY <1>1 DEF gateVars
  <2>2. at \notin {"payload", "ended"} /\ InHandAt(at) /\ OfLast => OfLast'
    BY <2>1 DEF OfLast, Replaced, Depth
  <2>3. HeardInv'
    <3>1. ASSUME NEW i PROVE Owing(i)' = Owing(i)
      <4>1. PICK s : s = past[i].statement
        OBVIOUS
      <4>2. Remains(s)' = Remains(s)
        BY <2>1, RemainsStays
      <4> QED BY <2>1, <4>1, <4>2 DEF Owing
    <3> QED BY <2>1, <3>1 DEF HeardInv, DecisionInv
  <2> QED BY <2>1, <2>2, <2>3 DEF DecisionInv
<1> QED BY <1>1, ReadPayloadDecides, OpenCommandDecides, ReadNextLineDecides,
           ReadStatementDecides, EndCommandDecides, JudgeStatementDecides, JudgeGitDecides,
           LookUpAliasDecides, ExpandAliasDecides, CloseCommandDecides, DecideDecides
           DEF GateNext

\* What the invariant says of a run that is about to answer: every statement is
\* heard, or what a parse failure has left of it, ...
LEMMA NoneIsOutvoted ==
  ASSUME GateInv, DecisionInv, at = "decide", Depth = 0, NEW i \in DOMAIN past
  PROVE  Strength[Voice(i)] <= Strength[Top.verdict]
<1>1. /\ at \notin {"payload", "ended"} /\ gate \in Gates /\ past \in Seq(Entries)
      /\ Len(frames) \in Nat
  BY Deciding
<1>2. i \in 1..Len(past) /\ Heard(frames, i, Owing(i))
  BY <1>1, Hearing
<1>3. Len(frames) = 1
  BY <1>1 DEF Depth
<1>4. Below(Owing(i), Top.verdict)
  <2>1. PICK k \in 1..Len(frames) : Below(Owing(i), frames[k].verdict)
    BY <1>2 DEF Heard
  <2>2. k = Len(frames)
    BY <1>3, <2>1
  <2> QED BY <2>1, <2>2 DEF Top
<1>5. Owing(i) = Voice(i)
  <2>1. Owes(gate, at, config, runsProgram, past)[i] = Deserved(past[i])
    BY <1>2 DEF Owes, OwedBy, Deserved
  <2> QED BY <2>1 DEF Owing, Voice
<1> QED BY <1>4, <1>5 DEF Below

\* ... and when nothing was lost, only what was read is heard.
LEMMA DecidesByWorst == GateInv /\ DecisionInv => StrongestStatementDecides
<1> SUFFICES ASSUME GateInv, DecisionInv, at = "decide", Depth = 0, unread = "no"
             PROVE  Top.verdict =
                      Strongest({"clear"} \cup {Deserved(past[i]) : i \in DOMAIN past})
  BY NoneIsOutvoted DEF StrongestStatementDecides
<1>1. /\ Over(Said(frames)) = Over(Owes(gate, at, config, runsProgram, past))
      /\ frames \in Seq(Frames) /\ Len(frames) \in Nat /\ frames[Len(frames)] \in Frames
      /\ past \in Seq(Entries)
  BY Deciding
<1>2. Over(Said(frames)) = Top.verdict
  <2>1. Len(frames) = 1
    BY <1>1 DEF Depth
  <2>2. /\ Said(frames) \in [1..1 -> Verdicts] /\ Said(frames)[1] = Top.verdict
        /\ Top.verdict \in Verdicts /\ \A i \in 1..1 : i = 1
    BY <1>1, <2>1, SaidType DEF Said, Top, Frames
  <2>3. \A i \in 1..1 : Below(Said(frames)[i], Top.verdict)
    BY <2>2, BelowOrders
  <2>4. 1 \in Nat /\ 1 \in 1..1 /\ Below(Top.verdict, Said(frames)[1])
    BY <2>2, BelowOrders
  <2> QED BY <2>2, <2>3, <2>4, OverIsOnly
<1>3. \A i \in 1..Len(past) :
        Owes(gate, at, config, runsProgram, past)[i] = Deserved(past[i])
  BY DEF Owes, OwedBy, Deserved
<1>4. Over(Owes(gate, at, config, runsProgram, past))
        = Strongest({"clear"} \cup {Deserved(past[i]) : i \in DOMAIN past})
  <2> DEFINE f == Owes(gate, at, config, runsProgram, past)
  <2>1. DOMAIN f = 1..Len(past) /\ DOMAIN past = 1..Len(past)
    BY <1>1 DEF Owes
  <2>2. \A i \in 1..Len(past) : f[i] = Deserved(past[i])
    BY <1>3
  <2> HIDE DEF f
  <2>3. {f[i] : i \in DOMAIN f} = {Deserved(past[i]) : i \in DOMAIN past}
    BY <2>1, <2>2
  <2> QED BY <2>3 DEF Over, f
<1> QED BY <1>1, <1>2, <1>4

\* The decision of a gate is at least as strong as what the worst statement that
\* was read deserves, however deep it is nested and however many aliases lead to
\* it, or as what a parse failure has left of it, and no stronger when all could
\* be read; and no gate reads a delete more kindly than another: for every set of
\* statements, every set of configurations, and every limit of nesting and of
\* recursion.
THEOREM VerdictsDecideHolds == GateSpec => []VerdictsDecide
<1>1. GateInit => DecisionInv
  BY DEF GateInit, DecisionInv, HeardInv
<1>2. GateInv => DeletesAgree
  <2> SUFFICES ASSUME GateInv, NEW i \in DOMAIN past, NEW other \in Gates, NEW s,
                      s = past[i].statement, NamedDelete(s)
               PROVE  /\ Below(AnyDelete(s), Verdict(other, s))
                      /\ ~ReadByOneGate(s) => Verdict(other, s) = AnyDelete(s)
    BY DEF DeletesAgree, NamedDelete, Below
  <2>1. Below(AnyDelete(s), Verdict(other, s))
    BY DeleteIsHeard
  <2>2. ~ReadByOneGate(s) => Verdict(other, s) = AnyDelete(s)
    BY DeleteVerdict DEF PlainDelete
  <2> QED BY <2>1, <2>2
<1>3. GateInv /\ DecisionInv => VerdictsDecide
  BY <1>2, DecidesByWorst DEF VerdictsDecide
<1> QED BY <1>1, <1>3, GateInitEstablishes, GateStepKeeps, StepDecides, PTL DEF GateSpec

=============================================================================
