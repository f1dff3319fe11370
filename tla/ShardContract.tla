--------------------------- MODULE ShardContract ----------------------------
(***************************************************************************)
(* What the test runner promises: each test class runs at most once in a   *)
(* process of its own, at most Workers processes at a time, an exclusive   *)
(* class alone, and the suite passes only after every class has passed and *)
(* no process is left.                                                     *)
(***************************************************************************)
EXTENDS Naturals, FiniteSets

CONSTANTS Shards, Exclusive, Workers

VARIABLES
  running,   \* classes whose process is alive
  exit,      \* exit of each class's process
  outcome    \* what the run reports

contractVars == <<running, exit, outcome>>

ContractInit ==
  /\ running = {}
  /\ exit = [s \in Shards |-> "none"]
  /\ outcome = "none"

Start(s) ==
  /\ outcome = "none"
  /\ exit[s] = "none" /\ s \notin running
  /\ Cardinality(running) < Workers
  /\ running \cap Exclusive = {}
  /\ s \in Exclusive => running = {}
  /\ running' = running \cup {s}
  /\ UNCHANGED <<exit, outcome>>

Finish(s) ==
  /\ s \in running
  /\ running' = running \ {s}
  /\ \E e \in {"pass", "fail"} : exit' = [exit EXCEPT ![s] = e]
  /\ UNCHANGED outcome

Report ==
  /\ outcome = "none"
  /\ running = {}
  /\ \/ /\ \A s \in Shards : exit[s] = "pass"
        /\ outcome' = "passed"
     \/ outcome' = "failed"
  /\ UNCHANGED <<running, exit>>

ContractNext == Report \/ \E s \in Shards : Start(s) \/ Finish(s)

ContractSpec == ContractInit /\ [][ContractNext]_contractVars
=============================================================================
