-------------------------- MODULE ShardRunnerProofs --------------------------
(***************************************************************************)
(* Proofs about ShardRunner for every set of test classes and every number *)
(* of workers.                                                             *)
(***************************************************************************)
EXTENDS ShardRunner, FiniteSetTheorems, TLAPS

-----------------------------------------------------------------------------
(* The invariant *)

Waiting == {"none", "queued", "spawn", "cancelled"}  \* no process was started
Serving == {"register", "communicate", "kill", "grace", "force"}
InHand  == {"queued", "spawn", "drain", "unregister"} \cup Serving
Started(s) == thread[s] \notin Waiting

\* A class that is still in one of the two deques.
Listed(s) ==
  \/ \E i \in 1..Len(ordinary) : ordinary[i] = s
  \/ \E i \in 1..Len(exclusive) : exclusive[i] = s

\* The deques hold classes that were never submitted, each once.
QueuesFresh ==
  /\ Distinct(ordinary) /\ Distinct(exclusive)
  /\ \A s \in Shards : Listed(s) => thread[s] = "none"

\* A worker serves its process from the spawn to the reap, and only a passed
\* process makes a passed class.
WorkersServe ==
  \A s \in Shards :
    /\ thread[s] \in Waiting =>
         proc[s] = "none" /\ exit[s] = "none" /\ result[s] = "none"
    /\ proc[s] = "alive" => thread[s] \in Serving
    /\ result[s] = "pass" => exit[s] = "pass" /\ thread[s] \in {"unregister", "done"}
    /\ thread[s] \in InHand => s \in active

\* The processes the scheduling thread terminates were started.
TargetsStarted ==
  /\ \A s \in registry \cup snapshot : Started(s)
  /\ main \in {"kill", "grace", "force"} => target \in Shards /\ Started(target)

\* The pool is bounded, and an exclusive class has it alone.
PoolBounded ==
  /\ IsFiniteSet(active)
  /\ Cardinality(active) <= WorkerCount
  /\ \A s \in active \cap Exclusive : active = {s}
  /\ main = "fill" => active \cap Exclusive = {}

\* Until there is a problem no class is forgotten: it waits, runs or has passed.
NoneForgotten ==
  /\ problem = None => \A s \in Shards : Listed(s) \/ s \in active \/ result[s] = "pass"
  /\ main \in {"poll", "kill", "grace", "force"} => problem # None
  /\ main = "wait" /\ active = {} => ordinary = <<>> /\ exclusive = <<>>
  /\ main \in {"cancel", "join", "end"} /\ problem = None
       => active = {} /\ ordinary = <<>> /\ exclusive = <<>>

\* After the cancellation nothing new starts, and nothing outlives the join.
PoolDrains ==
  /\ main \in {"join", "end"} => \A s \in Shards : thread[s] # "queued"
  /\ main = "end" => \A s \in Shards : ~Busy(s)

\* A future that is being collected is done.
CollectedDone == main = "collect" => \A s \in completed : thread[s] = "done"

RunnerInv ==
  /\ TypeOK /\ QueuesFresh /\ WorkersServe /\ TargetsStarted
  /\ PoolBounded /\ CollectedDone /\ NoneForgotten /\ PoolDrains

-----------------------------------------------------------------------------
(* Lemmas about the deques *)

\* Taking the head of a deque without repetitions.
LEMMA TakeHead ==
  ASSUME NEW S, NEW q \in Seq(S), q # <<>>, Distinct(q)
  PROVE  /\ Head(q) \in S /\ Tail(q) \in Seq(S)
         /\ Distinct(Tail(q))
         /\ \A i \in 1..Len(Tail(q)) : Tail(q)[i] # Head(q)
         /\ \A i \in 1..Len(Tail(q)) : \E j \in 1..Len(q) : q[j] = Tail(q)[i]
         /\ \A j \in 1..Len(q) :
              q[j] = Head(q) \/ \E i \in 1..Len(Tail(q)) : Tail(q)[i] = q[j]
         /\ \E j \in 1..Len(q) : q[j] = Head(q)
<1>1. Head(q) \in S /\ Tail(q) \in Seq(S) /\ Len(Tail(q)) = Len(q) - 1
  OBVIOUS
<1>2. Len(q) \in Nat \ {0} /\ Head(q) = q[1]
  OBVIOUS
<1>3. \A i \in 1..Len(Tail(q)) : Tail(q)[i] = q[i + 1] /\ i + 1 \in 1..Len(q)
  BY <1>1, <1>2
<1>4. \A i \in 1..Len(Tail(q)) : Tail(q)[i] # Head(q)
  BY <1>2, <1>3 DEF Distinct
<1>5. Distinct(Tail(q))
  BY <1>1, <1>2, <1>3 DEF Distinct
<1>6. \A j \in 1..Len(q) : j = 1 \/ (j - 1 \in 1..Len(Tail(q)) /\ Tail(q)[j - 1] = q[j])
  BY <1>1, <1>2
<1> QED BY <1>1, <1>2, <1>3, <1>4, <1>5, <1>6

\* At least one worker runs.
LEMMA WorkerCountPositive == WorkerCount \in Nat /\ WorkerCount >= 1
                             /\ WorkerCount <= Workers
<1>1. PICK s \in Shards : TRUE
  BY NonemptyAssumption DEF NonemptyAssumption
<1>2. Len(OrdinaryOrder) \in Nat /\ Len(ExclusiveOrder) \in Nat
  BY ShardAssumption DEF ShardAssumption
<1>3. Len(OrdinaryOrder) + Len(ExclusiveOrder) >= 1
  BY <1>1, <1>2, OrderAssumption DEF OrderAssumption
<1> QED BY <1>2, <1>3, ShardAssumption DEF WorkerCount, ShardAssumption

-----------------------------------------------------------------------------
(* The initial states *)

\* The invariant holds before the first submission.
LEMMA InitEstablishes == Init => RunnerInv
<1> SUFFICES ASSUME Init PROVE RunnerInv
  OBVIOUS
<1>1. TypeOK
  BY ShardAssumption
     DEF Init, TypeOK, ShardAssumption, MainPhases, ThreadPhases, Results
<1>2. QueuesFresh
  BY ShardAssumption DEF Init, QueuesFresh, ShardAssumption
<1>3. PoolBounded
  BY FS_EmptySet, WorkerCountPositive DEF Init, PoolBounded
<1>4. NoneForgotten
  <2>1. \A s \in Shards : Listed(s)
    BY OrderAssumption DEF Init, Listed, OrderAssumption
  <2> QED BY <2>1 DEF Init, NoneForgotten
<1>5. WorkersServe /\ TargetsStarted /\ CollectedDone /\ PoolDrains
  BY DEF Init, WorkersServe, TargetsStarted, CollectedDone, PoolDrains, Waiting,
     Serving, InHand
<1> QED BY <1>1, <1>2, <1>3, <1>4, <1>5 DEF RunnerInv

-----------------------------------------------------------------------------
(* Every step keeps the invariant: the scheduling thread submits *)

\* The check for an active exclusive class keeps the invariant.
LEMMA EnterSubmitKeeps ==
  ASSUME RunnerInv, EnterSubmit
  PROVE  RunnerInv'
<1> USE DEF RunnerInv, EnterSubmit, workerVars, procVars
<1>1. TypeOK'
  BY DEF TypeOK, MainPhases
<1>2. QueuesFresh' /\ WorkersServe' /\ TargetsStarted' /\ PoolBounded'
  BY DEF QueuesFresh, Listed, WorkersServe, TargetsStarted, Started, PoolBounded
<1>3. NoneForgotten' /\ PoolDrains' /\ CollectedDone'
  BY DEF NoneForgotten, Listed, PoolDrains, Busy, CollectedDone
<1> QED BY <1>1, <1>2, <1>3

\* Submitting a class that is in neither deque any more.
LEMMA SubmitKeeps ==
  ASSUME RunnerInv, NEW s \in Shards, Submit(s),
         thread[s] = "none",
         main = "fill", main' \in {"fill", "wait"},
         Cardinality(active) < WorkerCount,
         UNCHANGED <<completed, snapshot, target, problem, raised, result,
                     registry, procVars>>,
         ordinary' \in Seq(Shards \ Exclusive), exclusive' \in Seq(Exclusive),
         Distinct(ordinary'), Distinct(exclusive'),
         \A x \in Shards : Listed(x)' <=> Listed(x) /\ x # s,
         s \in Exclusive => active = {} /\ main' = "wait"
  PROVE  RunnerInv'
<1> USE DEF RunnerInv, Submit, procVars
<1>1. /\ active' = active \cup {s}
      /\ \A x \in Shards : thread'[x] = IF x = s THEN "queued" ELSE thread[x]
  BY DEF TypeOK
<1>2. TypeOK'
  BY DEF TypeOK, MainPhases, ThreadPhases
<1>3. QueuesFresh'
  BY <1>1 DEF QueuesFresh
<1>4. WorkersServe'
  BY <1>1 DEF WorkersServe, Waiting, Serving, InHand
<1>5. TargetsStarted'
  BY <1>1 DEF TargetsStarted, Started, Waiting, TypeOK
<1>6. PoolBounded'
  <2> DEFINE card == Cardinality(active)
  <2>0. IsFiniteSet(active) /\ card \in Nat
    BY FS_CardinalityType DEF PoolBounded
  <2>1. /\ IsFiniteSet(active')
        /\ Cardinality(active') = IF s \in active THEN card ELSE card + 1
    <3>1. /\ IsFiniteSet(active \cup {s})
          /\ Cardinality(active \cup {s}) =
               IF s \in active THEN Cardinality(active) ELSE Cardinality(active) + 1
      <4> HIDE DEF RunnerInv
      <4> QED BY ONLY <2>0, FS_AddElement
    <3> QED BY <1>1, <3>1
  <2> HIDE DEF card
  <2>2. card < WorkerCount
    BY DEF card
  <2>4. Cardinality(active') <= WorkerCount
    BY <2>0, <2>1, <2>2, WorkerCountPositive
  <2>3. active \cap Exclusive = {}
    BY DEF PoolBounded
  <2> QED BY <1>1, <2>1, <2>4, <2>3 DEF PoolBounded
<1>7. NoneForgotten'
  BY <1>1 DEF NoneForgotten
<1>8. PoolDrains' /\ CollectedDone'
  BY DEF PoolDrains, CollectedDone
<1> QED BY <1>2, <1>3, <1>4, <1>5, <1>6, <1>7, <1>8

\* Submitting an exclusive class keeps the invariant.
LEMMA SubmitExclusiveKeeps ==
  ASSUME RunnerInv, SubmitExclusive
  PROVE  RunnerInv'
<1> USE DEF RunnerInv
<1>1. exclusive \in Seq(Exclusive) /\ exclusive # <<>> /\ Distinct(exclusive)
      /\ ordinary \in Seq(Shards \ Exclusive) /\ Exclusive \subseteq Shards
  BY ShardAssumption DEF SubmitExclusive, TypeOK, QueuesFresh, ShardAssumption
<1> DEFINE s == Head(exclusive)
<1>2. s \in Exclusive /\ s \in Shards
  BY <1>1, TakeHead
<1>3. thread[s] = "none"
  BY <1>1, <1>2, TakeHead DEF QueuesFresh, Listed
<1>4. \A i \in 1..Len(ordinary) : ordinary[i] # s
  BY <1>1, <1>2
<1>5. \A x \in Shards : Listed(x)' <=> Listed(x) /\ x # s
  <2>1. exclusive' = Tail(exclusive) /\ ordinary' = ordinary
    BY DEF SubmitExclusive
  <2>2. /\ \A i \in 1..Len(exclusive') : exclusive'[i] # s
        /\ \A i \in 1..Len(exclusive') : \E j \in 1..Len(exclusive) : exclusive[j] = exclusive'[i]
        /\ \A j \in 1..Len(exclusive) :
             exclusive[j] = s \/ \E i \in 1..Len(exclusive') : exclusive'[i] = exclusive[j]
    BY <1>1, <2>1, TakeHead
  <2> HIDE DEF s, RunnerInv
  <2>3. \A x : Listed(x)' <=> \/ \E i \in 1..Len(ordinary) : ordinary[i] = x
                              \/ \E i \in 1..Len(exclusive') : exclusive'[i] = x
    BY <2>1 DEF Listed
  <2>4. \A x \in Shards : Listed(x)' => Listed(x) /\ x # s
    BY <1>4, <2>2, <2>3, ZenonT(40) DEF Listed
  <2>5. \A x \in Shards : Listed(x) /\ x # s => Listed(x)'
    BY <2>2, <2>3 DEF Listed
  <2> QED BY <2>4, <2>5
<1>6. exclusive' \in Seq(Exclusive) /\ Distinct(exclusive')
      /\ ordinary' \in Seq(Shards \ Exclusive) /\ Distinct(ordinary')
  BY <1>1, TakeHead DEF SubmitExclusive, QueuesFresh
<1>7. /\ main = "fill" /\ main' = "wait" /\ Submit(s) /\ active = {}
      /\ Cardinality(active) < WorkerCount
      /\ UNCHANGED <<completed, snapshot, target, problem, raised, result,
                     registry, procVars>>
  BY DEF SubmitExclusive
<1> HIDE DEF s
<1> QED BY <1>2, <1>3, <1>5, <1>6, <1>7, SubmitKeeps

\* Submitting an ordinary class keeps the invariant.
LEMMA SubmitOrdinaryKeeps ==
  ASSUME RunnerInv, SubmitOrdinary
  PROVE  RunnerInv'
<1> USE DEF RunnerInv
<1>1. ordinary \in Seq(Shards \ Exclusive) /\ ordinary # <<>> /\ Distinct(ordinary)
      /\ exclusive \in Seq(Exclusive)
  BY DEF SubmitOrdinary, TypeOK, QueuesFresh
<1> DEFINE s == Head(ordinary)
<1>2. s \in Shards /\ s \notin Exclusive
  BY <1>1, TakeHead
<1>3. thread[s] = "none"
  BY <1>1, <1>2, TakeHead DEF QueuesFresh, Listed
<1>4. \A i \in 1..Len(exclusive) : exclusive[i] # s
  BY <1>1, <1>2
<1>5. \A x \in Shards : Listed(x)' <=> Listed(x) /\ x # s
  <2>1. exclusive' = exclusive /\ ordinary' = Tail(ordinary)
    BY DEF SubmitOrdinary
  <2>2. /\ \A i \in 1..Len(ordinary') : ordinary'[i] # s
        /\ \A i \in 1..Len(ordinary') : \E j \in 1..Len(ordinary) : ordinary[j] = ordinary'[i]
        /\ \A j \in 1..Len(ordinary) :
             ordinary[j] = s \/ \E i \in 1..Len(ordinary') : ordinary'[i] = ordinary[j]
    BY <1>1, <2>1, TakeHead
  <2> HIDE DEF s
  <2> QED BY <1>4, <2>1, <2>2 DEF Listed
<1>6. /\ exclusive' \in Seq(Exclusive) /\ Distinct(exclusive')
      /\ ordinary' \in Seq(Shards \ Exclusive) /\ Distinct(ordinary')
  <2>1. exclusive' = exclusive /\ ordinary' = Tail(ordinary)
    BY DEF SubmitOrdinary
  <2> QED BY <1>1, <2>1, TakeHead DEF QueuesFresh
<1>7. /\ main = "fill" /\ main' = "fill" /\ Submit(s)
      /\ Cardinality(active) < WorkerCount
      /\ UNCHANGED <<completed, snapshot, target, problem, raised, result,
                     registry, procVars>>
  BY DEF SubmitOrdinary
<1> HIDE DEF s
<1> QED BY <1>2, <1>3, <1>5, <1>6, <1>7, SubmitKeeps

\* The end of the submit loop keeps the invariant.
LEMMA StopSubmittingKeeps ==
  ASSUME RunnerInv, StopSubmitting
  PROVE  RunnerInv'
<1> USE DEF RunnerInv, workerVars, procVars
<1>1. TypeOK'
  BY DEF StopSubmitting, TypeOK, MainPhases
<1>2. QueuesFresh' /\ WorkersServe' /\ TargetsStarted' /\ PoolBounded'
  BY DEF StopSubmitting, QueuesFresh, Listed, WorkersServe, TargetsStarted,
     Started, PoolBounded, WorkerCount
<1>3. active = {} => ordinary = <<>> /\ exclusive = <<>>
  BY FS_EmptySet, WorkerCountPositive DEF StopSubmitting
<1>4. NoneForgotten' /\ PoolDrains' /\ CollectedDone'
  BY <1>3 DEF StopSubmitting, NoneForgotten, Listed, PoolDrains, Busy,
     CollectedDone
<1> QED BY <1>1, <1>2, <1>4

-----------------------------------------------------------------------------
(* The scheduling thread collects, terminates and joins *)

\* The wait for a completed future keeps the invariant.
LEMMA WaitKeeps ==
  ASSUME RunnerInv, WaitForResult
  PROVE  RunnerInv'
<1> USE DEF RunnerInv, workerVars, procVars
<1>1. completed' \subseteq Shards /\ main' \in MainPhases
  BY DEF WaitForResult, TypeOK, MainPhases
<1>2. TypeOK'
  BY <1>1 DEF WaitForResult, TypeOK
<1>3. CollectedDone'
  BY DEF WaitForResult, CollectedDone
<1>4. QueuesFresh' /\ WorkersServe' /\ TargetsStarted' /\ PoolBounded'
  BY DEF WaitForResult, QueuesFresh, Listed, WorkersServe, TargetsStarted,
     Started, PoolBounded
<1>5. NoneForgotten' /\ PoolDrains'
  BY DEF WaitForResult, NoneForgotten, Listed, PoolDrains, Busy
<1> QED BY <1>2, <1>3, <1>4, <1>5

\* Collecting a result keeps the invariant.
LEMMA CollectKeeps ==
  ASSUME RunnerInv, CollectResult
  PROVE  RunnerInv'
<1> USE DEF RunnerInv, workerVars, procVars
<1>1. PICK s \in completed :
        /\ active' = active \ {s}
        /\ completed' = completed \ {s}
        /\ IF result[s] = "pass"
             THEN /\ main' = IF completed = {s} THEN "submit" ELSE "collect"
                  /\ UNCHANGED <<snapshot, problem>>
             ELSE /\ main' = "poll"
                  /\ problem' = s
                  /\ snapshot' = registry
  BY DEF CollectResult
<1>2. s \in Shards /\ thread[s] = "done" /\ s # None /\ main = "collect"
  BY ShardAssumption DEF CollectResult, TypeOK, CollectedDone, ShardAssumption
<1>3. TypeOK'
  BY <1>1, <1>2 DEF CollectResult, TypeOK, MainPhases
<1>4. QueuesFresh' /\ WorkersServe'
  BY <1>1, <1>2 DEF CollectResult, QueuesFresh, Listed, WorkersServe, InHand, Serving
<1>5. TargetsStarted' /\ CollectedDone' /\ PoolDrains'
  BY <1>1, <1>2 DEF CollectResult, TargetsStarted, Started, CollectedDone, PoolDrains
<1>6. PoolBounded'
  <2>1. IsFiniteSet(active') /\ Cardinality(active') <= Cardinality(active)
    BY <1>1, FS_Subset DEF PoolBounded
  <2>2. Cardinality(active') <= WorkerCount
    BY <2>1, FS_CardinalityType, WorkerCountPositive DEF PoolBounded
  <2>3. main' # "fill"
    BY <1>1
  <2> QED BY <1>1, <2>1, <2>2, <2>3 DEF PoolBounded
<1>7. NoneForgotten'
  BY <1>1, <1>2 DEF CollectResult, NoneForgotten, Listed
<1> QED BY <1>3, <1>4, <1>5, <1>6, <1>7

\* Only classes have pipes.
LEMMA HeldTyped ==
  ASSUME RunnerInv, \/ AwaitTarget \/ TerminateTarget \/ KillTarget
                    \/ \E s \in Shards : WorkerStep(s) \/ ProcessStep(s)
  PROVE  held' \subseteq Shards
<1>1. held \subseteq Shards
  BY DEF RunnerInv, TypeOK
<1>2. CASE AwaitTarget \/ TerminateTarget
  BY <1>1, <1>2 DEF AwaitTarget, TerminateTarget, procVars
<1>3. ASSUME NEW s, LeavesDescendant(s) PROVE held' \subseteq Shards
  BY <1>1, <1>3, ShardAssumption DEF LeavesDescendant, ShardAssumption
<1>4. CASE KillTarget
  BY <1>1, <1>3, <1>4 DEF KillTarget, procVars
<1>5. ASSUME NEW s \in Shards, WorkerStep(s) \/ ProcessStep(s)
      PROVE  held' \subseteq Shards
  <2>1. CASE KillOwn(s)
    BY <1>1, <1>3, <2>1 DEF KillOwn, GroupIsGone, procVars
  <2>2. CASE WorkerStep(s) /\ ~KillOwn(s)
    <3>1. held' = held
      BY <2>2 DEF WorkerStep, PickUp, Spawn, SpawnFails, Register, Communicate,
         CommunicateTimesOut, TerminateOwn, GroupIsGone, AwaitOwn, Drain, Unregister,
         procVars
    <3> QED BY <1>1, <3>1
  <2>3. CASE ProcessStep(s)
    BY <1>1, <1>3, <2>3 DEF ProcessStep, ProcessExits, DescendantCloses
  <2> QED BY <1>5, <2>1, <2>2, <2>3
<1> QED BY <1>2, <1>4, <1>5

\* Steps of the scheduling thread that only reap processes of started classes.
LEMMA ReapKeeps ==
  ASSUME RunnerInv,
         UNCHANGED <<ordinary, exclusive, active, completed, problem, workerVars>>,
         snapshot' \subseteq snapshot,
         target' \in Shards \cup {None}, raised' \in BOOLEAN,
         main \in {"poll", "kill", "grace", "force"},
         main' \in {"poll", "kill", "grace", "force"} \/ main' = "cancel",
         main' \in {"kill", "grace", "force"} => target' \in Shards /\ Started(target'),
         proc' \in [Shards -> {"none", "alive", "zombie", "reaped"}],
         exit' \in [Shards -> {"none", "pass", "fail"}], held' \subseteq Shards,
         \A x \in Shards :
           \/ proc'[x] = proc[x] /\ exit'[x] = exit[x]
           \/ /\ Started(x) /\ proc'[x] = "reaped"
              /\ proc[x] # "alive" => exit'[x] = exit[x]
  PROVE  RunnerInv'
<1> USE DEF RunnerInv, workerVars
<1>1. TypeOK'
  BY DEF TypeOK, MainPhases
<1>2. QueuesFresh' /\ PoolBounded' /\ CollectedDone'
  BY DEF QueuesFresh, Listed, PoolBounded, CollectedDone
<1>3. WorkersServe'
  BY DEF WorkersServe, Started, Waiting, Serving
<1>4. TargetsStarted' /\ PoolDrains'
  BY DEF TargetsStarted, Started, PoolDrains
<1>5. NoneForgotten'
  BY DEF NoneForgotten, Listed
<1> QED BY <1>1, <1>2, <1>3, <1>4, <1>5

\* Polling a registered process keeps the invariant.
LEMMA PollKeeps ==
  ASSUME RunnerInv, PollProcess
  PROVE  RunnerInv'
<1>1. PICK s \in snapshot :
        /\ snapshot' = snapshot \ {s}
        /\ IF proc[s] = "alive"
             THEN /\ target' = s
                  /\ main' = "kill"
                  /\ UNCHANGED proc
             ELSE /\ proc' = [proc EXCEPT ![s] = "reaped"]
                  /\ UNCHANGED <<target, main>>
  BY DEF PollProcess
<1>2. s \in Shards /\ Started(s)
  BY DEF RunnerInv, TypeOK, TargetsStarted
<1>3. proc \in [Shards -> {"none", "alive", "zombie", "reaped"}]
      /\ exit' = exit /\ exit \in [Shards -> {"none", "pass", "fail"}]
      /\ held' = held /\ held \subseteq Shards
      /\ target \in Shards \cup {None} /\ raised' = raised /\ raised \in BOOLEAN
      /\ UNCHANGED <<ordinary, exclusive, active, completed, problem, workerVars>>
      /\ main = "poll"
  BY DEF PollProcess, RunnerInv, TypeOK
<1> QED BY <1>1, <1>2, <1>3, ReapKeeps

\* Signalling and awaiting the target.
LEMMA TargetKeeps ==
  ASSUME RunnerInv, TerminateTarget \/ AwaitTarget \/ KillTarget
  PROVE  RunnerInv'
<1>1. target \in Shards /\ Started(target) /\ main \in {"kill", "grace", "force"}
      /\ target' = target
  BY DEF RunnerInv, TargetsStarted, TerminateTarget, AwaitTarget, KillTarget
<1>2. proc \in [Shards -> {"none", "alive", "zombie", "reaped"}]
      /\ exit \in [Shards -> {"none", "pass", "fail"}] /\ raised \in BOOLEAN
  BY DEF RunnerInv, TypeOK
<1>3. UNCHANGED <<ordinary, exclusive, active, completed, problem, snapshot, workerVars>>
  BY DEF TerminateTarget, AwaitTarget, KillTarget
<1>4. raised' \in BOOLEAN
  BY <1>2 DEF TerminateTarget, AwaitTarget, KillTarget
<1>5. main' \in {"poll", "kill", "grace", "force"} \/ main' = "cancel"
  BY DEF TerminateTarget, AwaitTarget, KillTarget
<1>6. \/ UNCHANGED procVars
      \/ /\ proc' = [proc EXCEPT ![target] = "reaped"]
         /\ exit' = IF proc[target] = "alive" /\ main = "force"
                     THEN [exit EXCEPT ![target] = "fail"] ELSE exit
  BY DEF TerminateTarget, AwaitTarget, KillTarget, procVars
<1>7. /\ proc' \in [Shards -> {"none", "alive", "zombie", "reaped"}]
      /\ exit' \in [Shards -> {"none", "pass", "fail"}]
  BY <1>1, <1>2, <1>6 DEF procVars
<1>8. \A x \in Shards :
        \/ proc'[x] = proc[x] /\ exit'[x] = exit[x]
        \/ /\ Started(x) /\ proc'[x] = "reaped"
           /\ proc[x] # "alive" => exit'[x] = exit[x]
  BY <1>1, <1>2, <1>6 DEF procVars
<1>9. held' \subseteq Shards
  BY HeldTyped
<1> QED BY <1>1, <1>3, <1>4, <1>5, <1>7, <1>8, <1>9, ReapKeeps

\* The end of the termination keeps the invariant.
LEMMA AllVisitedKeeps ==
  ASSUME RunnerInv, AllVisited
  PROVE  RunnerInv'
<1>1. UNCHANGED <<ordinary, exclusive, active, completed, problem, snapshot, target,
                  raised, workerVars, proc, exit, held>>
      /\ main = "poll" /\ main' = "cancel"
  BY DEF AllVisited, procVars
<1>2. target \in Shards \cup {None} /\ raised \in BOOLEAN
      /\ proc \in [Shards -> {"none", "alive", "zombie", "reaped"}]
      /\ exit \in [Shards -> {"none", "pass", "fail"}] /\ held \subseteq Shards
  BY DEF RunnerInv, TypeOK
<1> QED BY <1>1, <1>2, ReapKeeps

\* The cancellation of queued futures keeps the invariant.
LEMMA CancelKeeps ==
  ASSUME RunnerInv, CancelFutures
  PROVE  RunnerInv'
<1> USE DEF RunnerInv, procVars
<1>1. \A x \in Shards :
        thread'[x] = IF thread[x] = "queued" THEN "cancelled" ELSE thread[x]
  BY DEF CancelFutures
<1>2. thread' \in [Shards -> ThreadPhases]
  BY DEF CancelFutures, TypeOK, ThreadPhases
<1>3. TypeOK'
  BY <1>2 DEF CancelFutures, TypeOK, MainPhases
<1>4. QueuesFresh' /\ PoolBounded' /\ CollectedDone'
  BY <1>1 DEF CancelFutures, QueuesFresh, Listed, PoolBounded, CollectedDone
<1>5. WorkersServe'
  BY <1>1 DEF CancelFutures, WorkersServe, Waiting, Serving, InHand
<1>6. TargetsStarted' /\ PoolDrains'
  BY <1>1 DEF CancelFutures, TargetsStarted, TypeOK, Started, Waiting, PoolDrains
<1>7. NoneForgotten'
  BY DEF CancelFutures, NoneForgotten, Listed
<1> QED BY <1>3, <1>4, <1>5, <1>6, <1>7

\* The join of the pool keeps the invariant.
LEMMA ShutdownKeeps ==
  ASSUME RunnerInv, ShutdownPool
  PROVE  RunnerInv'
<1> USE DEF RunnerInv, workerVars, procVars
<1>1. TypeOK'
  BY DEF ShutdownPool, TypeOK, MainPhases
<1>2. QueuesFresh' /\ WorkersServe' /\ TargetsStarted' /\ PoolBounded' /\ CollectedDone'
  BY DEF ShutdownPool, QueuesFresh, Listed, WorkersServe, TargetsStarted, Started,
     PoolBounded, CollectedDone
<1>3. NoneForgotten' /\ PoolDrains'
  BY DEF ShutdownPool, NoneForgotten, Listed, PoolDrains, Busy
<1> QED BY <1>1, <1>2, <1>3

-----------------------------------------------------------------------------
(* The worker threads and the processes *)

\* A step of the worker of one class, or of its process.
LEMMA WorkerKeeps ==
  ASSUME RunnerInv, NEW s \in Shards, UNCHANGED mainVars,
         thread' \in [Shards -> ThreadPhases], result' \in [Shards -> Results],
         proc' \in [Shards -> {"none", "alive", "zombie", "reaped"}],
         exit' \in [Shards -> {"none", "pass", "fail"}], held' \subseteq Shards,
         registry' \subseteq registry \cup {s},
         \A x \in Shards \ {s} :
           /\ thread'[x] = thread[x] /\ result'[x] = result[x]
           /\ proc'[x] = proc[x] /\ exit'[x] = exit[x],
         thread[s] \in InHand \/ (thread[s] = "done" /\ thread'[s] = "done"),
         thread'[s] \in InHand \ {"queued"} \/ thread'[s] = "done",
         thread'[s] = "spawn" => thread[s] = "queued"
           /\ UNCHANGED <<result, proc, exit, registry>>,
         proc'[s] = "alive" => thread'[s] \in Serving,
         result'[s] = "pass" => exit'[s] = "pass" /\ thread'[s] \in {"unregister", "done"},
         result[s] = "pass" => result'[s] = "pass",
         thread[s] \in {"queued", "done"} \/ main # "end"
  PROVE  RunnerInv'
<1> USE DEF RunnerInv, mainVars
<1>1. TypeOK'
  BY DEF TypeOK
<1>2. QueuesFresh'
  BY DEF QueuesFresh, Listed, InHand, Serving
<1>3. WorkersServe'
  BY DEF WorkersServe, Waiting, Serving, InHand
<1>4. TargetsStarted'
  <2>1. registry' \cup snapshot' \subseteq Shards
    BY DEF TypeOK
  <2>2. \A x \in Shards : Started(x) /\ x # s => Started(x)'
    BY DEF Started
  <2>3. thread'[s] # "spawn" => Started(s)'
    BY DEF Started, Waiting, Serving, InHand
  <2>4. CASE thread'[s] = "spawn"
    <3>1. ~Started(s) /\ registry' = registry
      BY <2>4 DEF Started, Waiting
    <3> HIDE DEF Started
    <3> QED BY <2>1, <2>2, <3>1 DEF TargetsStarted
  <2>5. CASE thread'[s] # "spawn"
    <3> HIDE DEF Started
    <3> QED BY <2>1, <2>2, <2>3, <2>5 DEF TargetsStarted
  <2> QED BY <2>4, <2>5
<1>5. PoolBounded'
  BY DEF PoolBounded
<1>6. CollectedDone'
  BY DEF CollectedDone, TypeOK, InHand, Serving
<1>7. NoneForgotten'
  BY DEF NoneForgotten, Listed
<1>8. PoolDrains'
  BY DEF PoolDrains, Busy, InHand, Serving
<1> QED BY <1>1, <1>2, <1>3, <1>4, <1>5, <1>6, <1>7, <1>8

\* Every step of a worker thread keeps the invariant.
LEMMA WorkerStepKeeps ==
  ASSUME RunnerInv, NEW s \in Shards, WorkerStep(s)
  PROVE  RunnerInv'
<1>1. /\ thread \in [Shards -> ThreadPhases] /\ result \in [Shards -> Results]
      /\ proc \in [Shards -> {"none", "alive", "zombie", "reaped"}]
      /\ exit \in [Shards -> {"none", "pass", "fail"}]
      /\ \A x \in Shards : result[x] = "pass" =>
           exit[x] = "pass" /\ thread[x] \in {"unregister", "done"}
      /\ \A x \in Shards : proc[x] = "alive" => thread[x] \in Serving
      /\ main = "end" => ~Busy(s)
      /\ main \in {"join", "end"} => thread[s] # "queued"
  BY DEF RunnerInv, TypeOK, WorkersServe, PoolDrains
<1>0. held' \subseteq Shards
  BY HeldTyped
<1> USE <1>0, <1>1 DEF Worker, procVars, ThreadPhases, Results, InHand, Serving, Busy
<1>2. CASE PickUp(s)
  <2>1. UNCHANGED mainVars /\ UNCHANGED <<result, registry, proc, exit>>
        /\ thread[s] = "queued" /\ thread' = [thread EXCEPT ![s] = "spawn"]
    BY <1>2 DEF PickUp
  <2> QED BY <2>1, WorkerKeeps
<1>3. CASE Spawn(s)
  <2>1. UNCHANGED mainVars /\ UNCHANGED <<result, registry, exit>>
        /\ thread[s] = "spawn" /\ thread' = [thread EXCEPT ![s] = "register"]
        /\ proc' = [proc EXCEPT ![s] = "alive"]
    BY <1>3 DEF Spawn
  <2> QED BY <2>1, WorkerKeeps
<1>4. CASE SpawnFails(s)
  <2>1. UNCHANGED mainVars /\ UNCHANGED <<registry, proc, exit>>
        /\ thread[s] = "spawn" /\ thread' = [thread EXCEPT ![s] = "done"]
        /\ result' = [result EXCEPT ![s] = "error"]
    BY <1>4 DEF SpawnFails
  <2> QED BY <2>1, WorkerKeeps
<1>5. CASE Register(s)
  <2>1. UNCHANGED mainVars /\ UNCHANGED <<result, proc, exit>>
        /\ thread[s] = "register" /\ thread' = [thread EXCEPT ![s] = "communicate"]
        /\ registry' = registry \cup {s}
    BY <1>5 DEF Register
  <2> QED BY <2>1, WorkerKeeps
<1>6. CASE Communicate(s)
  <2>1. UNCHANGED mainVars /\ UNCHANGED <<registry, exit>>
        /\ thread[s] = "communicate" /\ thread' = [thread EXCEPT ![s] = "unregister"]
        /\ proc' = [proc EXCEPT ![s] = "reaped"]
        /\ result' = [result EXCEPT ![s] = exit[s]]
    BY <1>6 DEF Communicate
  <2> QED BY <2>1, WorkerKeeps
<1>7. CASE CommunicateTimesOut(s)
  <2>1. UNCHANGED mainVars /\ UNCHANGED <<result, registry, proc, exit>>
        /\ thread[s] = "communicate" /\ thread' = [thread EXCEPT ![s] = "kill"]
    BY <1>7 DEF CommunicateTimesOut
  <2> QED BY <2>1, WorkerKeeps
<1>8. CASE GroupIsGone(s, "kill") \/ GroupIsGone(s, "force")
  <2>1. UNCHANGED mainVars /\ UNCHANGED <<registry, proc, exit>>
        /\ thread[s] \in {"kill", "force"}
        /\ thread' = [thread EXCEPT ![s] = "unregister"]
        /\ result' = [result EXCEPT ![s] = "error"] /\ proc[s] = "reaped"
    BY <1>8 DEF GroupIsGone, GroupCanBeGone
  <2> QED BY <2>1, WorkerKeeps
<1>9. CASE TerminateOwn(s) /\ ~GroupIsGone(s, "kill")
  <2>1. UNCHANGED mainVars /\ UNCHANGED <<result, registry, proc, exit>>
        /\ thread[s] = "kill" /\ thread' = [thread EXCEPT ![s] = "grace"]
    BY <1>9 DEF TerminateOwn
  <2> QED BY <2>1, WorkerKeeps
<1>10. CASE AwaitOwn(s)
  <2>1. UNCHANGED mainVars /\ UNCHANGED <<result, registry, exit>>
        /\ thread[s] = "grace"
        /\ \/ thread' = [thread EXCEPT ![s] = "drain"]
              /\ proc' = [proc EXCEPT ![s] = "reaped"]
           \/ thread' = [thread EXCEPT ![s] = "force"] /\ proc' = proc
    BY <1>10 DEF AwaitOwn
  <2> QED BY <2>1, WorkerKeeps
<1>11. CASE KillOwn(s) /\ ~GroupIsGone(s, "force")
  <2>1. UNCHANGED mainVars /\ UNCHANGED <<result, registry>>
        /\ thread[s] = "force" /\ thread' = [thread EXCEPT ![s] = "drain"]
        /\ proc' = [proc EXCEPT ![s] = "reaped"]
        /\ exit' = IF proc[s] = "alive" THEN [exit EXCEPT ![s] = "fail"] ELSE exit
    BY <1>11 DEF KillOwn
  <2> QED BY <2>1, WorkerKeeps
<1>12. CASE Drain(s)
  <2>1. UNCHANGED mainVars /\ UNCHANGED <<registry, proc, exit>>
        /\ thread[s] = "drain" /\ thread' = [thread EXCEPT ![s] = "unregister"]
        /\ result' = [result EXCEPT ![s] = "timeout"]
    BY <1>12 DEF Drain
  <2> QED BY <2>1, WorkerKeeps
<1>13. CASE Unregister(s)
  <2>1. UNCHANGED mainVars /\ UNCHANGED <<result, proc, exit>>
        /\ thread[s] = "unregister" /\ thread' = [thread EXCEPT ![s] = "done"]
        /\ registry' = registry \ {s}
    BY <1>13 DEF Unregister
  <2> QED BY <2>1, WorkerKeeps
<1> QED
  BY <1>2, <1>3, <1>4, <1>5, <1>6, <1>7, <1>8, <1>9, <1>10, <1>11, <1>12, <1>13
     DEF WorkerStep, TerminateOwn, KillOwn

\* The exit of a test process keeps the invariant.
LEMMA ExitKeeps ==
  ASSUME RunnerInv, NEW s \in Shards, ProcessExits(s)
  PROVE  RunnerInv'
<1>1. PICK e \in {"pass", "fail"} : exit' = [exit EXCEPT ![s] = e]
  BY DEF ProcessExits
<1>2. /\ proc[s] = "alive" /\ proc' = [proc EXCEPT ![s] = "zombie"]
      /\ UNCHANGED mainVars /\ UNCHANGED <<thread, result, registry>>
  BY DEF ProcessExits, workerVars
<1>3. /\ thread \in [Shards -> ThreadPhases] /\ result \in [Shards -> Results]
      /\ proc \in [Shards -> {"none", "alive", "zombie", "reaped"}]
      /\ exit \in [Shards -> {"none", "pass", "fail"}]
      /\ thread[s] \in Serving
      /\ result[s] = "pass" => thread[s] \in {"unregister", "done"}
      /\ main = "end" => ~Busy(s)
  BY <1>2 DEF RunnerInv, TypeOK, WorkersServe, PoolDrains
<1>4. held' \subseteq Shards
  BY HeldTyped DEF ProcessStep
<1> QED BY <1>1, <1>2, <1>3, <1>4, WorkerKeeps DEF InHand, Serving, Busy

\* A descendant that closes its pipe touches nothing else.
LEMMA CloseKeeps ==
  ASSUME RunnerInv, NEW s \in Shards, DescendantCloses(s)
  PROVE  RunnerInv'
<1>1. held' \subseteq Shards
  BY HeldTyped DEF ProcessStep
<1> QED BY <1>1 DEF DescendantCloses, mainVars, workerVars, RunnerInv, TypeOK,
        QueuesFresh, Listed, WorkersServe, TargetsStarted, Started, PoolBounded,
        CollectedDone, NoneForgotten, PoolDrains, Busy

-----------------------------------------------------------------------------
(* The invariant holds *)

\* Every step keeps the invariant.
LEMMA StepKeeps ==
  ASSUME RunnerInv, [Next]_vars
  PROVE  RunnerInv'
<1>1. CASE MainStep
  BY <1>1, EnterSubmitKeeps, SubmitExclusiveKeeps, SubmitOrdinaryKeeps,
     StopSubmittingKeeps, WaitKeeps, CollectKeeps, PollKeeps, TargetKeeps,
     AllVisitedKeeps, CancelKeeps, ShutdownKeeps DEF MainStep
<1>2. CASE \E s \in Shards : WorkerStep(s) \/ ProcessStep(s)
  BY <1>2, WorkerStepKeeps, ExitKeeps, CloseKeeps DEF ProcessStep
<1>3. CASE UNCHANGED vars
  BY <1>3 DEF vars, mainVars, workerVars, procVars, RunnerInv, TypeOK, QueuesFresh,
     Listed, WorkersServe, TargetsStarted, Started, PoolBounded, CollectedDone,
     NoneForgotten, PoolDrains, Busy
<1> QED BY <1>1, <1>2, <1>3 DEF Next

\* The run of the test classes keeps its invariant.
THEOREM RunnerInvariant == Spec => []RunnerInv
<1>1. Init => RunnerInv
  BY InitEstablishes
<1>2. RunnerInv /\ [Next]_vars => RunnerInv'
  BY StepKeeps
<1> QED BY <1>1, <1>2, PTL DEF Spec

-----------------------------------------------------------------------------
(* What the invariant says of the runner *)

\* The variables keep their types.
THEOREM RunnerTypeCorrect == Spec => []TypeOK
<1>1. RunnerInv => TypeOK
  BY DEF RunnerInv
<1> QED BY <1>1, RunnerInvariant, PTL

\* The classes with a process are active: the pool bounds them, and they are
\* not there when the run ends.
LEMMA AliveIsActive ==
  ASSUME RunnerInv
  PROVE  /\ Alive \subseteq active
         /\ \A s \in Shards : thread[s] \in InHand => s \in active
         /\ main = "end" => Alive = {}
<1>1. \A s \in Alive : thread[s] \in Serving
  BY DEF Alive, RunnerInv, WorkersServe
<1>2. \A s \in Shards : thread[s] \in InHand => s \in active
  BY DEF RunnerInv, WorkersServe
<1>3. \A s \in Shards : thread[s] \in Serving => Busy(s)
  BY DEF Serving, Busy
<1> QED BY <1>1, <1>2, <1>3 DEF RunnerInv, PoolDrains, Alive, InHand

\* A resource-heavy class runs alone, whatever the orders, the number of
\* workers and the timeouts, also while the run is being terminated.
THEOREM ExclusiveAlone == Spec => []ExclusiveRunsAlone
<1>1. ASSUME RunnerInv PROVE ExclusiveRunsAlone
  <2>1. \A s \in active \cap Exclusive : active = {s}
    BY <1>1 DEF RunnerInv, PoolBounded
  <2> QED BY <1>1, <2>1, AliveIsActive DEF ExclusiveRunsAlone
<1> QED BY <1>1, RunnerInvariant, PTL

\* Every class has passed when the pool is joined without a problem.
LEMMA JoinedHavePassed ==
  ASSUME RunnerInv, main \in {"join", "end"}, problem = None
  PROVE  \A s \in Shards : result[s] = "pass" /\ exit[s] = "pass"
<1>1. active = {} /\ ordinary = <<>> /\ exclusive = <<>>
  BY DEF RunnerInv, NoneForgotten
<1>2. \A s \in Shards : ~Listed(s)
  BY <1>1 DEF Listed
<1> QED BY <1>1, <1>2 DEF RunnerInv, NoneForgotten, WorkersServe

\* A run without a problem has run every class, and each one passed.
THEOREM PassIsHonest == Spec => []PassMeansAllPassed
<1>1. ASSUME RunnerInv PROVE PassMeansAllPassed
  BY <1>1, JoinedHavePassed DEF PassMeansAllPassed
<1> QED BY <1>1, RunnerInvariant, PTL

-----------------------------------------------------------------------------
(* The runner implements the contract *)

\* A spawn starts a class in the contract.
LEMMA SpawnStarts ==
  ASSUME RunnerInv, NEW s \in Shards, Spawn(s)
  PROVE  Contract!Start(s)
<1>1. /\ thread[s] = "spawn" /\ main' = main /\ problem' = problem /\ raised' = raised
      /\ proc' = [proc EXCEPT ![s] = "alive"] /\ exit' = exit
  BY DEF Spawn, Worker, mainVars
<1>2. /\ proc \in [Shards -> {"none", "alive", "zombie", "reaped"}]
      /\ proc[s] = "none" /\ exit[s] = "none"
  BY <1>1 DEF RunnerInv, TypeOK, WorkersServe, Waiting
<1>3. Alive' = Alive \cup {s} /\ s \notin Alive
  BY <1>1, <1>2 DEF Alive
<1>4. main # "end"
  BY <1>1 DEF RunnerInv, PoolDrains, Busy
<1>5. s \in active /\ Alive \subseteq active
  BY <1>1, AliveIsActive DEF InHand
<1>6. \A x \in active \cap Exclusive : active = {x}
  BY DEF RunnerInv, PoolBounded
<1>7. Alive \cap Exclusive = {} /\ (s \in Exclusive => Alive = {})
  BY <1>3, <1>5, <1>6
<1>8. Cardinality(Alive) < Workers
  <2>1. IsFiniteSet(active) /\ Cardinality(active) <= WorkerCount
    BY DEF RunnerInv, PoolBounded
  <2>2. Cardinality(Alive) \in Nat /\ Cardinality(active) \in Nat
    BY <2>1, <1>5, FS_Subset, FS_CardinalityType
  <2>3. Cardinality(Alive) < Cardinality(active)
    <3>1. Alive # active
      BY <1>3, <1>5
    <3>2. Cardinality(Alive) <= Cardinality(active)
          /\ Cardinality(Alive) # Cardinality(active)
      BY ONLY <1>5, <2>1, <3>1, FS_Subset
    <3> QED BY ONLY <2>2, <3>2
  <2>4. Workers \in Nat
    BY ShardAssumption DEF ShardAssumption
  <2> QED BY <2>1, <2>3, <2>2, <2>4, WorkerCountPositive
<1>9. Outcome = "none" /\ Outcome' = "none"
  BY <1>1, <1>4 DEF Outcome
<1> HIDE DEF Alive, Outcome
<1>10. Contract!Cardinality(Alive) = Cardinality(Alive)
  BY Zenon DEF Cardinality, Contract!Cardinality
<1> QED BY <1>1, <1>2, <1>3, <1>7, <1>8, <1>9, <1>10 DEF Contract!Start

\* A process that stops being alive finishes its class in the contract.
LEMMA ProcessEnds ==
  ASSUME RunnerInv, NEW s \in Shards, proc[s] = "alive",
         NEW p \in {"zombie", "reaped"}, NEW e \in {"pass", "fail"},
         proc' = [proc EXCEPT ![s] = p], exit' = [exit EXCEPT ![s] = e],
         Outcome' = Outcome
  PROVE  Contract!Finish(s)
<1>1. proc \in [Shards -> {"none", "alive", "zombie", "reaped"}]
  BY DEF RunnerInv, TypeOK
<1>2. s \in Alive /\ Alive' = Alive \ {s}
  BY <1>1 DEF Alive
<1> QED BY <1>2 DEF Contract!Finish

\* The join lets the contract report: no process is left, and a pass is one.
LEMMA ShutdownReports ==
  ASSUME RunnerInv, ShutdownPool
  PROVE  Contract!Report
<1>1. /\ main = "join" /\ main' = "end" /\ problem' = problem /\ raised' = raised
      /\ proc' = proc /\ exit' = exit /\ \A s \in Shards : ~Busy(s)
  BY DEF ShutdownPool, procVars
<1>2. Alive = {} /\ Alive' = {}
  BY <1>1 DEF Alive, RunnerInv, WorkersServe, Serving, Busy
<1>3. CASE problem = None /\ ~raised
  <2>1. \A s \in Shards : exit[s] = "pass"
    BY <1>1, <1>3, JoinedHavePassed
  <2> QED BY <1>1, <1>2, <1>3, <2>1 DEF Contract!Report, Outcome
<1>4. CASE ~(problem = None /\ ~raised)
  BY <1>1, <1>2, <1>4 DEF Contract!Report, Outcome
<1> QED BY <1>3, <1>4

\* Steps that neither start nor end a process stutter in the contract.
LEMMA QuietStutters ==
  ASSUME \A s \in Shards : (proc[s] = "alive") <=> (proc'[s] = "alive"),
         exit' = exit, Outcome' = Outcome
  PROVE  UNCHANGED Contract!contractVars
BY DEF Contract!contractVars, Alive

\* Reaping a process without ending it.
LEMMA ReapStutters ==
  ASSUME RunnerInv, NEW s \in Shards, proc[s] # "alive",
         proc' = [proc EXCEPT ![s] = "reaped"] \/ proc' = proc, exit' = exit,
         Outcome' = Outcome
  PROVE  UNCHANGED Contract!contractVars
<1>1. proc \in [Shards -> {"none", "alive", "zombie", "reaped"}]
  BY DEF RunnerInv, TypeOK
<1> QED BY <1>1, QuietStutters

\* A step of the scheduling thread is a contract step or a stutter.
LEMMA MainImplements ==
  ASSUME RunnerInv, MainStep
  PROVE  [Contract!ContractNext]_Contract!contractVars
<1>1. CASE \/ EnterSubmit \/ SubmitExclusive \/ SubmitOrdinary \/ StopSubmitting
           \/ WaitForResult \/ CollectResult \/ TerminateTarget \/ AllVisited
           \/ CancelFutures
  <2>1. proc' = proc /\ exit' = exit /\ main # "end" /\ main' # "end"
    BY <1>1 DEF EnterSubmit, SubmitExclusive, SubmitOrdinary, StopSubmitting,
       WaitForResult, CollectResult, TerminateTarget, AllVisited, CancelFutures,
       procVars
  <2> QED BY <2>1, QuietStutters DEF Outcome
<1>2. CASE PollProcess
  <2>1. PICK s \in snapshot :
          IF proc[s] = "alive" THEN UNCHANGED proc
          ELSE proc' = [proc EXCEPT ![s] = "reaped"]
    BY <1>2 DEF PollProcess
  <2>2. s \in Shards /\ exit' = exit
    BY <1>2 DEF PollProcess, RunnerInv, TypeOK
  <2>3. Outcome' = Outcome
    BY <1>2 DEF PollProcess, Outcome
  <2> QED BY <2>1, <2>2, <2>3, ReapStutters, QuietStutters
<1>3. CASE AwaitTarget
  <2>1. target \in Shards /\ exit' = exit /\ Outcome' = Outcome
    BY <1>3 DEF AwaitTarget, RunnerInv, TargetsStarted, Outcome
  <2> QED BY <1>3, <2>1, ReapStutters, QuietStutters DEF AwaitTarget
<1>4. CASE KillTarget
  <2>1. target \in Shards /\ Outcome' = Outcome
    BY <1>4 DEF KillTarget, RunnerInv, TargetsStarted, Outcome
  <2>2. CASE proc[target] = "alive"
    <3>1. /\ proc' = [proc EXCEPT ![target] = "reaped"]
          /\ exit' = [exit EXCEPT ![target] = "fail"]
      BY <1>4, <2>2 DEF KillTarget, GroupCanBeGone
    <3>2. Contract!Finish(target)
      BY <2>1, <2>2, <3>1, ProcessEnds
    <3> QED BY <2>1, <3>2 DEF Contract!ContractNext
  <2>3. CASE proc[target] # "alive"
    BY <1>4, <2>1, <2>3, ReapStutters DEF KillTarget, procVars
  <2> QED BY <2>2, <2>3
<1>5. CASE ShutdownPool
  BY <1>5, ShutdownReports DEF Contract!ContractNext
<1> QED BY <1>1, <1>2, <1>3, <1>4, <1>5 DEF MainStep

\* A step of a worker thread is a contract step or a stutter.
LEMMA WorkerImplements ==
  ASSUME RunnerInv, NEW s \in Shards, WorkerStep(s)
  PROVE  [Contract!ContractNext]_Contract!contractVars
<1>1. Outcome' = Outcome
  BY DEF WorkerStep, PickUp, Spawn, SpawnFails, Register, Communicate,
     CommunicateTimesOut, TerminateOwn, GroupIsGone, AwaitOwn, KillOwn, Drain,
     Unregister, Worker, mainVars, Outcome
<1>2. CASE Spawn(s)
  BY <1>2, SpawnStarts DEF Contract!ContractNext
<1>3. CASE KillOwn(s) /\ proc[s] = "alive"
  <2>1. /\ proc' = [proc EXCEPT ![s] = "reaped"]
        /\ exit' = [exit EXCEPT ![s] = "fail"]
    BY <1>3 DEF KillOwn, GroupIsGone, GroupCanBeGone
  <2>2. Contract!Finish(s)
    BY <1>1, <1>3, <2>1, ProcessEnds
  <2> QED BY <2>2 DEF Contract!ContractNext
<1>4. CASE KillOwn(s) /\ proc[s] # "alive"
  BY <1>1, <1>4, ReapStutters DEF KillOwn, GroupIsGone, procVars
<1>5. CASE Communicate(s)
  BY <1>1, <1>5, ReapStutters DEF Communicate
<1>6. CASE AwaitOwn(s)
  BY <1>1, <1>6, ReapStutters, QuietStutters DEF AwaitOwn, procVars
<1>7. CASE \/ PickUp(s) \/ SpawnFails(s) \/ Register(s) \/ CommunicateTimesOut(s)
           \/ TerminateOwn(s) \/ Drain(s) \/ Unregister(s)
  <2>1. proc' = proc /\ exit' = exit
    BY <1>7 DEF PickUp, SpawnFails, Register, CommunicateTimesOut, TerminateOwn,
       GroupIsGone, Drain, Unregister, procVars
  <2> QED BY <1>1, <2>1, QuietStutters
<1> QED BY <1>2, <1>3, <1>4, <1>5, <1>6, <1>7 DEF WorkerStep

\* The runner with its threads implements the contract: every process is
\* started within the bounds, ends once, and the report comes after the last.
THEOREM RunnerImplementsContract == Spec => ImplementsContract
<1>1. Init => Contract!ContractInit
  BY DEF Init, Contract!ContractInit, Alive, Outcome
<1>2. ASSUME RunnerInv, [Next]_vars
      PROVE  [Contract!ContractNext]_Contract!contractVars
  <2>1. CASE \E s \in Shards : ProcessExits(s)
    <3>1. PICK s \in Shards : ProcessExits(s)
      BY <2>1
    <3>2. Outcome' = Outcome
      BY <3>1 DEF ProcessExits, mainVars, Outcome
    <3>3. Contract!Finish(s)
      BY <1>2, <3>1, <3>2, ProcessEnds DEF ProcessExits
    <3> QED BY <3>3 DEF Contract!ContractNext
  <2>2. CASE UNCHANGED vars
    BY <2>2, QuietStutters DEF vars, mainVars, procVars, Outcome
  <2>3. CASE \E s \in Shards : DescendantCloses(s)
    BY <2>3, QuietStutters DEF DescendantCloses, mainVars, Outcome
  <2> QED BY <1>2, <2>1, <2>2, <2>3, MainImplements, WorkerImplements
          DEF Next, ProcessStep
<1> QED BY <1>1, <1>2, RunnerInvariant, PTL
        DEF Spec, ImplementsContract, Contract!ContractSpec
=============================================================================
