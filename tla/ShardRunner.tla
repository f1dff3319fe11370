---------------------------- MODULE ShardRunner -----------------------------
(***************************************************************************)
(* scripts/check_hook_coverage.py, run_test_shards: the main thread submits *)
(* test classes (shards) to a thread pool, each worker thread runs one      *)
(* class in a child process, and the first problem stops the run:           *)
(* registered process trees are terminated and the pool is joined.          *)
(*                                                                          *)
(* A process leads its process group: it is alive, a zombie (exited, its id *)
(* still held) or reaped.  Descendants of it can outlive it, in the group   *)
(* or in a session of their own, and hold the pipes of its output open.     *)
(* Time is abstract: a timeout can expire at any moment.                    *)
(***************************************************************************)
EXTENDS Naturals, Sequences, FiniteSets

CONSTANTS
  Shards,          \* discovered test classes
  Exclusive,       \* those named in EXCLUSIVE_TEST_SHARDS
  OrdinaryOrder,   \* prioritized order of the others
  ExclusiveOrder,  \* prioritized order of the exclusive ones
  Workers,         \* requested number of workers
  Forking,         \* classes whose tests start descendants that can outlive them
  None             \* no shard

Distinct(order) ==
  \A i, j \in 1..Len(order) : order[i] = order[j] => i = j

ASSUME ShardAssumption ==
  /\ None \notin Shards
  /\ Exclusive \subseteq Shards
  /\ Forking \subseteq Shards
  /\ OrdinaryOrder \in Seq(Shards \ Exclusive)
  /\ ExclusiveOrder \in Seq(Exclusive)
  /\ Distinct(OrdinaryOrder) /\ Distinct(ExclusiveOrder)
  /\ Workers \in Nat \ {0}

ASSUME OrderAssumption ==
  /\ \A s \in Shards \ Exclusive : \E i \in 1..Len(OrdinaryOrder) : OrdinaryOrder[i] = s
  /\ \A s \in Exclusive : \E i \in 1..Len(ExclusiveOrder) : ExclusiveOrder[i] = s

ASSUME NonemptyAssumption == Shards # {}

VARIABLES
  main,       \* program counter of the scheduling thread
  ordinary,   \* deque ordinary_shards
  exclusive,  \* deque exclusive_shards
  active,     \* keys of active_futures
  completed,  \* completed futures not yet collected
  snapshot,   \* processes terminate_all_processes has still to visit
  target,     \* process it is terminating
  problem,    \* shard of the first collected problem, or None
  raised,     \* an exception left run_test_shards
  thread,     \* program counter of each shard's worker
  result,     \* result of each shard's future
  proc,       \* state of each shard's process
  exit,       \* exit of each shard's process
  held,       \* shards whose output pipe a descendant of the process holds
  registry    \* shards in the ActiveProcessRegistry

mainVars   == <<main, ordinary, exclusive, active, completed, snapshot, target,
                problem, raised>>
workerVars == <<thread, result, registry>>
procVars   == <<proc, exit, held>>
vars       == <<mainVars, workerVars, procVars>>

MainPhases ==
  {"submit", "fill", "wait", "collect", "poll", "kill", "grace", "force", "cancel",
   "join", "end"}
ThreadPhases ==
  {"none", "queued", "spawn", "register", "communicate", "kill", "grace",
   "force", "drain", "unregister", "done", "cancelled"}
Results == {"none", "pass", "fail", "timeout", "error"}

\* A worker that holds a slot of the pool.
Busy(s) == thread[s] \notin {"none", "queued", "done", "cancelled"}
Alive   == {s \in Shards : proc[s] = "alive"}

WorkerCount ==
  LET n == Len(OrdinaryOrder) + Len(ExclusiveOrder)
  IN IF Workers < n THEN Workers ELSE n

Init ==
  /\ main = "submit"
  /\ ordinary = OrdinaryOrder
  /\ exclusive = ExclusiveOrder
  /\ active = {}
  /\ completed = {}
  /\ snapshot = {}
  /\ target = None
  /\ problem = None
  /\ raised = FALSE
  /\ thread = [s \in Shards |-> "none"]
  /\ result = [s \in Shards |-> "none"]
  /\ proc = [s \in Shards |-> "none"]
  /\ exit = [s \in Shards |-> "none"]
  /\ held = {}
  /\ registry = {}

-----------------------------------------------------------------------------
(* The scheduling thread: submit, wait, collect *)

Submit(s) ==
  /\ active' = active \cup {s}
  /\ thread' = [thread EXCEPT ![s] = "queued"]

\* submit_available_shards returns at once while an exclusive class is active.
EnterSubmit ==
  /\ main = "submit"
  /\ main' = IF active \cap Exclusive # {} THEN "wait" ELSE "fill"
  /\ UNCHANGED <<ordinary, exclusive, active, completed, snapshot, target,
                 problem, raised, workerVars, procVars>>

\* Mutant of SubmitExclusive: the loop goes on after an exclusive class.
SubmitExclusiveAndMore ==
  /\ main = "fill"
  /\ Cardinality(active) < WorkerCount
  /\ active = {}
  /\ exclusive # <<>>
  /\ Submit(Head(exclusive))
  /\ exclusive' = Tail(exclusive)
  /\ UNCHANGED <<main, ordinary, completed, snapshot, target, problem, raised,
                 result, registry, procVars>>

\* Its loop fills the workers: an exclusive class only into an empty pool.
SubmitExclusive ==
  /\ main = "fill"
  /\ Cardinality(active) < WorkerCount
  /\ active = {}
  /\ exclusive # <<>>
  /\ Submit(Head(exclusive))
  /\ exclusive' = Tail(exclusive)
  /\ main' = "wait"
  /\ UNCHANGED <<ordinary, completed, snapshot, target, problem, raised,
                 result, registry, procVars>>

SubmitOrdinary ==
  /\ main = "fill"
  /\ Cardinality(active) < WorkerCount
  /\ active = {} => exclusive = <<>>
  /\ ordinary # <<>>
  /\ Submit(Head(ordinary))
  /\ ordinary' = Tail(ordinary)
  /\ UNCHANGED <<main, exclusive, completed, snapshot, target, problem, raised,
                 result, registry, procVars>>

StopSubmitting ==
  /\ main = "fill"
  /\ \/ Cardinality(active) >= WorkerCount
     \/ ordinary = <<>> /\ (exclusive = <<>> \/ active # {})
  /\ main' = "wait"
  /\ UNCHANGED <<ordinary, exclusive, active, completed, snapshot, target,
                 problem, raised, workerVars, procVars>>

\* concurrent.futures.wait returns the futures done by then.  A heartbeat
\* without a completed future changes nothing.
WaitForResult ==
  /\ main = "wait"
  /\ IF active = {}
       THEN /\ main' = "cancel"
            /\ UNCHANGED completed
       ELSE /\ completed' = {s \in active : thread[s] = "done"}
            /\ completed' # {}
            /\ main' = "collect"
  /\ UNCHANGED <<ordinary, exclusive, active, snapshot, target, problem, raised,
                 workerVars, procVars>>

\* Mutant of CollectResult: a timeout is not a problem.
CollectIgnoringTimeout ==
  /\ main = "collect"
  /\ \E s \in completed :
       /\ active' = active \ {s}
       /\ completed' = completed \ {s}
       /\ IF result[s] \in {"pass", "timeout"}
            THEN /\ main' = IF completed = {s} THEN "submit" ELSE "collect"
                 /\ UNCHANGED <<snapshot, problem>>
            ELSE /\ main' = "poll"
                 /\ problem' = s
                 /\ snapshot' = registry
  /\ UNCHANGED <<ordinary, exclusive, target, raised, workerVars, procVars>>

\* The first problem takes the registry snapshot and leaves the other
\* completed futures uncollected.
CollectResult ==
  /\ main = "collect"
  /\ \E s \in completed :
       /\ active' = active \ {s}
       /\ completed' = completed \ {s}
       /\ IF result[s] = "pass"
            THEN /\ main' = IF completed = {s} THEN "submit" ELSE "collect"
                 /\ UNCHANGED <<snapshot, problem>>
            ELSE /\ main' = "poll"
                 /\ problem' = s
                 /\ snapshot' = registry
  /\ UNCHANGED <<ordinary, exclusive, target, raised, workerVars, procVars>>

-----------------------------------------------------------------------------
(* The scheduling thread: terminate, cancel, join *)

\* killpg raises ProcessLookupError once the group is gone: its leader has been
\* reaped and no descendant is left in it.  One that holds the pipe may be.
GroupCanBeGone(s) == proc[s] = "reaped"
GroupCanBeThere(s) == proc[s] # "reaped" \/ s \in held

\* The process of s ends, and may leave a descendant that holds its pipe.
LeavesDescendant(s) == held' \in {held, held \cup ({s} \cap Forking)}

\* Process.poll reaps an exited process; a live one is the next target.
PollProcess ==
  /\ main = "poll"
  /\ \E s \in snapshot :
       /\ snapshot' = snapshot \ {s}
       /\ IF proc[s] = "alive"
            THEN /\ target' = s
                 /\ main' = "kill"
                 /\ UNCHANGED proc
            ELSE /\ proc' = [proc EXCEPT ![s] = "reaped"]
                 /\ UNCHANGED <<target, main>>
  /\ UNCHANGED <<ordinary, exclusive, active, completed, problem, raised,
                 workerVars, exit, held>>

\* SIGTERM by killpg.  A process reaped since the poll can have no group left.
TerminateTarget ==
  /\ main = "kill"
  /\ \/ /\ GroupCanBeGone(target)
        /\ main' = "cancel"
        /\ raised' = TRUE
     \/ /\ GroupCanBeThere(target)
        /\ main' = "grace"
        /\ UNCHANGED raised
  /\ UNCHANGED <<ordinary, exclusive, active, completed, snapshot, target,
                 problem, workerVars, procVars>>

\* The process ends within PROCESS_SHUTDOWN_TIMEOUT_SECONDS, or the wait expires.
AwaitTarget ==
  /\ main = "grace"
  /\ \/ /\ proc[target] # "alive"
        /\ proc' = [proc EXCEPT ![target] = "reaped"]
        /\ main' = "poll"
     \/ /\ proc[target] = "alive"
        /\ main' = "force"
        /\ UNCHANGED proc
  /\ UNCHANGED <<ordinary, exclusive, active, completed, snapshot, target,
                 problem, raised, workerVars, exit, held>>

\* Mutant of KillTarget: the exit of a killed process is its signal.
KillTargetKeepingSignal ==
  /\ main = "force"
  /\ main' = "poll"
  /\ proc' = [proc EXCEPT ![target] = "reaped"]
  /\ exit' = [exit EXCEPT ![target] = "signal"]
  /\ UNCHANGED <<ordinary, exclusive, active, completed, snapshot, target,
                 problem, raised, workerVars, held>>

KillTarget ==
  /\ main = "force"
  /\ \/ /\ GroupCanBeGone(target)
        /\ main' = "cancel"
        /\ raised' = TRUE
        /\ UNCHANGED procVars
     \/ /\ GroupCanBeThere(target)
        /\ main' = "poll"
        /\ proc' = [proc EXCEPT ![target] = "reaped"]
        /\ IF proc[target] = "alive"
             THEN /\ exit' = [exit EXCEPT ![target] = "fail"]
                  /\ LeavesDescendant(target)
             ELSE UNCHANGED <<exit, held>>
        /\ UNCHANGED raised
  /\ UNCHANGED <<ordinary, exclusive, active, completed, snapshot, target,
                 problem, workerVars>>

AllVisited ==
  /\ main = "poll"
  /\ snapshot = {}
  /\ main' = "cancel"
  /\ UNCHANGED <<ordinary, exclusive, active, completed, snapshot, target,
                 problem, raised, workerVars, procVars>>

\* Future.cancel for every active future and shutdown's cancel_futures: both
\* stop only a future that no worker has picked up.
CancelFutures ==
  /\ main = "cancel"
  /\ thread' = [s \in Shards |->
                  IF thread[s] = "queued" THEN "cancelled" ELSE thread[s]]
  /\ main' = "join"
  /\ UNCHANGED <<ordinary, exclusive, active, completed, snapshot, target,
                 problem, raised, result, registry, procVars>>

\* Mutant of ShutdownPool: shutdown(wait=False).
ShutdownWithoutWait ==
  /\ main = "join"
  /\ main' = "end"
  /\ UNCHANGED <<ordinary, exclusive, active, completed, snapshot, target,
                 problem, raised, workerVars, procVars>>

\* The finally clause: executor.shutdown(wait=True) joins every worker.
ShutdownPool ==
  /\ main = "join"
  /\ \A s \in Shards : ~Busy(s)
  /\ main' = "end"
  /\ UNCHANGED <<ordinary, exclusive, active, completed, snapshot, target,
                 problem, raised, workerVars, procVars>>

-----------------------------------------------------------------------------
(* A worker thread: run_test_shard *)

\* Every worker action leaves the scheduling thread alone.
Worker(s, from, to) ==
  /\ thread[s] = from
  /\ thread' = [thread EXCEPT ![s] = to]
  /\ UNCHANGED mainVars

PickUp(s) ==
  /\ Worker(s, "queued", "spawn")
  /\ UNCHANGED <<result, registry, procVars>>

\* Popen starts the process; registering it is a later step of the thread.
Spawn(s) ==
  /\ Worker(s, "spawn", "register")
  /\ proc' = [proc EXCEPT ![s] = "alive"]
  /\ UNCHANGED <<result, registry, exit, held>>

\* Popen raises: the future holds the exception.
SpawnFails(s) ==
  /\ Worker(s, "spawn", "done")
  /\ result' = [result EXCEPT ![s] = "error"]
  /\ UNCHANGED <<registry, procVars>>

Register(s) ==
  /\ Worker(s, "register", "communicate")
  /\ registry' = registry \cup {s}
  /\ UNCHANGED <<result, procVars>>

\* communicate returns at the end of the output, once the process has exited,
\* and reaps it.  A return code that another thread collected first is kept by
\* the Popen object.
Communicate(s) ==
  /\ proc[s] # "alive" /\ s \notin held
  /\ Worker(s, "communicate", "unregister")
  /\ proc' = [proc EXCEPT ![s] = "reaped"]
  /\ result' = [result EXCEPT ![s] = exit[s]]
  /\ UNCHANGED <<registry, exit, held>>

CommunicateTimesOut(s) ==
  /\ proc[s] = "alive" \/ s \in held
  /\ Worker(s, "communicate", "kill")
  /\ UNCHANGED <<result, registry, procVars>>

\* terminate_process_tree: SIGTERM, a bounded wait, SIGKILL.  An exception
\* becomes the result of the future.
GroupIsGone(s, from) ==
  /\ GroupCanBeGone(s)
  /\ Worker(s, from, "unregister")
  /\ result' = [result EXCEPT ![s] = "error"]
  /\ UNCHANGED <<registry, procVars>>

TerminateOwn(s) ==
  \/ GroupIsGone(s, "kill")
  \/ /\ GroupCanBeThere(s)
     /\ Worker(s, "kill", "grace")
     /\ UNCHANGED <<result, registry, procVars>>

\* Mutant of AwaitOwn: the wait after SIGTERM has no timeout.
AwaitOwnForever(s) ==
  /\ proc[s] # "alive"
  /\ Worker(s, "grace", "drain")
  /\ proc' = [proc EXCEPT ![s] = "reaped"]
  /\ UNCHANGED <<result, registry, exit, held>>

AwaitOwn(s) ==
  \/ /\ proc[s] # "alive"
     /\ Worker(s, "grace", "drain")
     /\ proc' = [proc EXCEPT ![s] = "reaped"]
     /\ UNCHANGED <<result, registry, exit, held>>
  \/ /\ proc[s] = "alive"
     /\ Worker(s, "grace", "force")
     /\ UNCHANGED <<result, registry, procVars>>

KillOwn(s) ==
  \/ GroupIsGone(s, "force")
  \/ /\ GroupCanBeThere(s)
     /\ Worker(s, "force", "drain")
     /\ proc' = [proc EXCEPT ![s] = "reaped"]
     /\ IF proc[s] = "alive"
          THEN /\ exit' = [exit EXCEPT ![s] = "fail"]
               /\ LeavesDescendant(s)
          ELSE UNCHANGED <<exit, held>>
     /\ UNCHANGED <<result, registry>>

\* The second communicate has no timeout: it waits for the end of the output,
\* for as long as a descendant that survived the signals holds the pipe.
Drain(s) ==
  /\ s \notin held
  /\ Worker(s, "drain", "unregister")
  /\ result' = [result EXCEPT ![s] = "timeout"]
  /\ UNCHANGED <<registry, procVars>>

Unregister(s) ==
  /\ Worker(s, "unregister", "done")
  /\ registry' = registry \ {s}
  /\ UNCHANGED <<result, procVars>>

\* The test process ends on its own or on SIGTERM, or it never does.
ProcessExits(s) ==
  /\ proc[s] = "alive"
  /\ proc' = [proc EXCEPT ![s] = "zombie"]
  /\ \E e \in {"pass", "fail"} : exit' = [exit EXCEPT ![s] = e]
  /\ LeavesDescendant(s)
  /\ UNCHANGED <<mainVars, workerVars>>

\* The last descendant closes the pipe, by itself or because a signal ends it.
DescendantCloses(s) ==
  /\ s \in held
  /\ held' = held \ {s}
  /\ UNCHANGED <<mainVars, workerVars, proc, exit>>

-----------------------------------------------------------------------------
(* Specification *)

MainStep ==
  \/ EnterSubmit \/ SubmitExclusive \/ SubmitOrdinary \/ StopSubmitting \/ WaitForResult
  \/ CollectResult \/ PollProcess \/ TerminateTarget \/ AwaitTarget
  \/ KillTarget \/ AllVisited \/ CancelFutures \/ ShutdownPool

WorkerStep(s) ==
  \/ PickUp(s) \/ Spawn(s) \/ SpawnFails(s) \/ Register(s) \/ Communicate(s)
  \/ CommunicateTimesOut(s) \/ TerminateOwn(s) \/ AwaitOwn(s) \/ KillOwn(s)
  \/ Drain(s) \/ Unregister(s)

ProcessStep(s) == ProcessExits(s) \/ DescendantCloses(s)

Next == MainStep \/ \E s \in Shards : WorkerStep(s) \/ ProcessStep(s)

\* Both kinds of thread run on where nothing blocks them.  A test process need
\* not end by itself, and a descendant of it need not close the pipe.
Fairness == WF_vars(MainStep) /\ \A s \in Shards : WF_vars(WorkerStep(s))

Spec     == Init /\ [][Next]_vars
FairSpec == Spec /\ Fairness

-----------------------------------------------------------------------------
(* Properties *)

\* Types of the variables.
TypeOK ==
  /\ main \in MainPhases
  /\ ordinary \in Seq(Shards \ Exclusive)
  /\ exclusive \in Seq(Exclusive)
  /\ active \subseteq Shards
  /\ completed \subseteq Shards
  /\ snapshot \subseteq Shards
  /\ target \in Shards \cup {None}
  /\ problem \in Shards \cup {None}
  /\ raised \in BOOLEAN
  /\ thread \in [Shards -> ThreadPhases]
  /\ result \in [Shards -> Results]
  /\ proc \in [Shards -> {"none", "alive", "zombie", "reaped"}]
  /\ exit \in [Shards -> {"none", "pass", "fail"}]
  /\ held \subseteq Shards
  /\ registry \subseteq Shards

\* "Resource-heavy shards run alone": while an exclusive class's process
\* lives, no other class's process does, not even during termination.
ExclusiveRunsAlone == \A s \in Alive \cap Exclusive : Alive = {s}

\* "Coverage comparison starts only after every worker succeeds": a run that
\* returns no problem has run every class, and each one passed.
PassMeansAllPassed ==
  main = "end" /\ problem = None /\ ~raised
    => \A s \in Shards : result[s] = "pass"

\* The runner implements the contract: isolation, the worker bound, one run
\* per class, an honest report and no process that outlives the report.
Outcome ==
  IF main # "end" THEN "none"
  ELSE IF problem = None /\ ~raised THEN "passed" ELSE "failed"

Contract == INSTANCE ShardContract WITH running <- Alive, outcome <- Outcome

ImplementsContract == Contract!ContractSpec

\* The run ends although test processes may hang and ignore SIGTERM.  Only a
\* descendant that holds a pipe for good can keep it from ending: the second
\* communicate and the join of the pool then wait without a timeout.
RunEnds == <>[](held = {}) => <>(main = "end")
=============================================================================
