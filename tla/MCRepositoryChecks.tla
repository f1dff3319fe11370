------------------------- MODULE MCRepositoryChecks --------------------------
(* One run for five programs that do not share state: a behaviour is a       *)
(* behaviour of one of them, while the others keep one idle state.           *)
EXTENDS MarkerScan, ConflictScan, ComplianceScan, TrustedGh, GitStateReader

CONSTANTS p, q, x, y

\* Each blob fits alone; y twice is over the limit of three.
Sizes == [blob \in {x, y} |-> IF blob = x THEN 1 ELSE 2]

MarkerIdle ==
  /\ lines = <<>> /\ opener = 0 /\ openerLen = 0 /\ hasSeparator = FALSE
  /\ violations = <<>> /\ scan = "done"

ConflictIdle ==
  /\ mode = "tree"
  /\ entries = [f \in Paths |-> [kind |-> "regular", blob |-> "clean"]]
  /\ files = [f \in Paths |-> "absent"]
  /\ sparse = {} /\ phase = "ended" /\ skipped = {} /\ present = {} /\ todo = {}
  /\ found = 0 /\ status = "pass" /\ edited = {} /\ gitFailed = FALSE

ComplianceIdle ==
  /\ tree = <<>> /\ texts = [blob \in Blobs |-> "none"] /\ stage = "ended"
  /\ next = 1 /\ cache = {} /\ total = 0 /\ findings = 0 /\ search = "inherited"
  /\ result = "pass" /\ broken = FALSE /\ denied = FALSE

GhIdle ==
  /\ given = [command |-> "other", repo |-> "none", subject |-> "none",
              head |-> "none", short |-> "none"]
  /\ origin = "none" /\ head = "none"
  /\ path = [i \in 1..PathLength |->
               [dir |-> "outside", to |-> "outside", file |-> "other"]]
  /\ gh = NoProgram /\ at = "ended" /\ effective = given /\ ran = <<>> /\ code = "none"
  /\ asked = FALSE /\ changes = <<>>

\* A second branch is looked at only where a program is there to run.
GhStarts ==
  /\ GhInit
  /\ "next" \in {head, given.head, given.short} => \A i \in DOMAIN path : Acceptable(path[i])

ReaderIdle ==
  /\ now = [branch |-> "detached", remote |-> "none", revision |-> 1,
            status |-> "clean"]
  /\ before = <<now>> /\ reader = "failed" /\ asking = 1
  /\ answers = [branch |-> "unread", remote |-> "unread",
                revision |-> "unread", status |-> "unread"]

Init ==
  \/ MarkerInit /\ ConflictIdle /\ ComplianceIdle /\ GhIdle /\ ReaderIdle
  \/ MarkerIdle /\ ConflictInit /\ ComplianceIdle /\ GhIdle /\ ReaderIdle
  \/ MarkerIdle /\ ConflictIdle /\ ComplianceInit /\ GhIdle /\ ReaderIdle
  \/ MarkerIdle /\ ConflictIdle /\ ComplianceIdle /\ GhStarts /\ ReaderIdle
  \/ MarkerIdle /\ ConflictIdle /\ ComplianceIdle /\ GhIdle /\ ReaderInit

Next ==
  \/ MarkerNext /\ UNCHANGED <<conflictVars, complianceVars, ghVars, readerVars>>
  \/ ConflictNext /\ UNCHANGED <<markerVars, complianceVars, ghVars, readerVars>>
  \/ ComplianceNext /\ UNCHANGED <<markerVars, conflictVars, ghVars, readerVars>>
  \/ GhNext /\ UNCHANGED <<markerVars, conflictVars, complianceVars, readerVars>>
  \/ ReaderNext /\ UNCHANGED <<markerVars, conflictVars, complianceVars, ghVars>>

vars == <<markerVars, conflictVars, complianceVars, ghVars, readerVars>>

Spec == Init /\ [][Next]_vars
=============================================================================
