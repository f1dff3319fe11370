--------------------------- MODULE ReviewPipeline ---------------------------
(***************************************************************************)
(* The event-driven security review of one pull request: the Immutable     *)
(* Compliance workflow, the caller workflow security-review-pr.yml and the *)
(* reusable workflow security-review.yml.                                  *)
(*                                                                         *)
(* Every completed compliance run starts one caller run.  A caller run     *)
(* resolves the pull request, decides whether a review is due, and then    *)
(* runs the review job step by step.  Two concurrency groups connect the   *)
(* runs: caller runs of one head exclude each other, and review jobs of    *)
(* one pull request exclude each other; both cancel what is in progress.   *)
(*                                                                         *)
(* Bounds: MaxHead pushed revisions and MaxRuns caller runs.               *)
(***************************************************************************)
EXTENDS Naturals

CONSTANTS
  SameRepository,  \* TRUE: head branch in this repository; FALSE: a fork
  MaxHead,         \* number of head revisions the pull request can have
  MaxRuns,         \* number of caller runs
  Faults           \* which things can fail, a subset of FaultKinds

\* "spacing" is a verdict line that the validator and the gate accept and the
\* caller's pattern does not match.
FaultKinds ==
  {"resolve", "step", "upload", "publish", "runner", "expiry", "spacing"}

ASSUME PipelineAssumption ==
  /\ SameRepository \in BOOLEAN
  /\ MaxHead \in Nat \ {0}
  /\ MaxRuns \in Nat \ {0}
  /\ Faults \subseteq FaultKinds

Heads == 1..MaxHead
Runs  == 1..MaxRuns

VARIABLES
  head,      \* current head revision of the pull request
  label,     \* safe-to-review is on the pull request
  scan,      \* head the running Immutable Compliance scan checks, 0 for none
  nruns,     \* number of caller runs created so far
  run,       \* the caller runs
  checks,    \* security-review check runs on head revisions
  records,   \* verdict artifacts
  passed,    \* heads with a successful Immutable Compliance run
  labelled   \* heads that carried the label while they were current

vars == <<head, label, scan, nruns, run, checks, records, passed, labelled>>

-----------------------------------------------------------------------------
(* Data *)

Verdicts == {"APPROVE", "BLOCK", "NEEDS-HUMAN"}
Blocking == {"BLOCK", "NEEDS-HUMAN"}
Statuses == {"success", "failure", "cancelled"}

\* Where a caller run stands.  The review job owns the phases of JobPhases.
ResolvePhases == {"list", "refresh", "checks", "artifacts", "route"}
ModelPhases   == {"model", "retry"}
StepPhases    == {"metadata", "fetch", "case", "validate", "parse", "comment"}
                    \cup ModelPhases
TailPhases    == {"record", "gate", "publish"}
JobPhases     == {"approval"} \cup StepPhases \cup TailPhases
Phases        == {"none", "pending", "queued", "ended"}
                    \cup ResolvePhases \cup JobPhases

RunRecord ==
  [head      : 0..MaxHead,
   compliant : BOOLEAN,                         \* compliance_passed
   approved  : BOOLEAN,                         \* fork_review_approved
   reviewed  : BOOLEAN,                         \* hasVerdictCheck, then already_reviewed
   pc        : Phases,
   cancelled : BOOLEAN,                         \* cancellation requested
   status    : Statuses,                        \* job.status
   response  : Verdicts \cup {"none", "invalid"},
   verdict   : Verdicts \cup {"none"}]          \* steps.verdict.outputs.line

\* readable: the summary matches the caller's pattern, which wants exactly one
\* blank between VERDICT: and its token.
CheckRecord ==
  [head : Heads, run : Runs, conclusion : {"success", "failure"},
   verdict : Verdicts \cup {"none"}, readable : BOOLEAN]

VerdictRecord ==
  [head : Heads, run : Runs, verdict : Verdicts, expired : BOOLEAN]

NoRun ==
  [head |-> 0, compliant |-> FALSE, approved |-> FALSE, reviewed |-> FALSE,
   pc |-> "none", cancelled |-> FALSE,
   status |-> "success", response |-> "none", verdict |-> "none"]

HasVerdictCheck(h)  == \E c \in checks : c.head = h /\ c.readable
HasVerdictRecord(h) == \E a \in records : a.head = h /\ ~a.expired
Reviewed(h)         == HasVerdictCheck(h) /\ HasVerdictRecord(h)

\* A run holds its head's caller group from its first step to its last.
Active(r)   == run[r].pc \notin {"none", "pending", "ended"}
\* A run holds the pull request's review group while its job is in progress.
InReview(r) == run[r].pc \in JobPhases

-----------------------------------------------------------------------------
(* Pull request events and the compliance scan *)

Init ==
  /\ head = 1
  /\ label = FALSE
  /\ scan = 1
  /\ nruns = 0
  /\ run = [r \in Runs |-> NoRun]
  /\ checks = {}
  /\ records = {}
  /\ passed = {}
  /\ labelled = {}

\* The completed scan of head h starts caller run nruns + 1.  The caller
\* group of h replaces a pending run and cancels the one in progress.
StartCaller(h, ok) ==
  /\ nruns' = nruns + 1
  /\ run' = [r \in Runs |->
       IF r = nruns + 1
         THEN [NoRun EXCEPT !.head = h, !.compliant = ok, !.pc = "pending"]
       ELSE IF run[r].head = h /\ run[r].pc = "pending"
         THEN [run[r] EXCEPT !.pc = "ended", !.status = "cancelled"]
       ELSE IF run[r].head = h /\ Active(r)
         THEN [run[r] EXCEPT !.cancelled = TRUE]
       ELSE run[r]]

\* A pull request event starts a scan of head h.  The scan in progress, if
\* any, is cancelled, and its completion also starts a caller run.
StartScan(h) ==
  /\ scan' = h
  /\ IF scan = 0
       THEN /\ nruns < MaxRuns
            /\ UNCHANGED <<nruns, run>>
       ELSE /\ nruns + 1 < MaxRuns
            /\ StartCaller(scan, FALSE)
  /\ UNCHANGED <<checks, records, passed>>

Push ==
  /\ head < MaxHead
  /\ head' = head + 1
  /\ labelled' = IF label THEN labelled \cup {head + 1} ELSE labelled
  /\ StartScan(head + 1)
  /\ UNCHANGED label

Edit ==
  /\ StartScan(head)
  /\ UNCHANGED <<head, label, labelled>>

\* On a same-repository pull request, where no job reads the label, labelling
\* is an Edit like any other.
AddLabel ==
  /\ ~SameRepository
  /\ ~label
  /\ label' = TRUE
  /\ labelled' = labelled \cup {head}
  /\ StartScan(head)
  /\ UNCHANGED head

\* Removing a label is not among the events that start a scan.
RemoveLabel ==
  /\ label
  /\ label' = FALSE
  /\ UNCHANGED <<head, scan, nruns, run, checks, records, passed, labelled>>

\* The scan checks out the two exact revisions and scans the head objects.
FinishScan ==
  /\ scan # 0
  /\ \E ok \in BOOLEAN :
       /\ passed' = IF ok THEN passed \cup {scan} ELSE passed
       /\ StartCaller(scan, ok)
  /\ scan' = 0
  /\ UNCHANGED <<head, label, checks, records, labelled>>

\* A verdict artifact reaches the end of its retention period.
ExpireRecord ==
  /\ "expiry" \in Faults
  /\ \E a \in records :
       /\ ~a.expired
       /\ records' = (records \ {a}) \cup {[a EXCEPT !.expired = TRUE]}
  /\ UNCHANGED <<head, label, scan, nruns, run, checks, passed, labelled>>

-----------------------------------------------------------------------------
(* The caller run: resolve-pr and the job conditions *)

RunOnly == UNCHANGED <<head, label, scan, nruns, checks, records, passed, labelled>>

Set(r, rec) == run' = [run EXCEPT ![r] = rec]

Goto(r, phase) == Set(r, [run[r] EXCEPT !.pc = phase])

End(r, result) == Set(r, [run[r] EXCEPT !.pc = "ended", !.status = result])

\* Mutant of StartRun: the caller workflow has no concurrency group.
StartRunUngrouped(r) ==
  /\ run[r].pc = "pending"
  /\ Goto(r, "list")
  /\ RunOnly

\* A pending run starts when no other run of its head is in progress.
StartRun(r) ==
  /\ run[r].pc = "pending"
  /\ \A s \in Runs \ {r} : run[s].head = run[r].head => ~Active(s)
  /\ Goto(r, "list")
  /\ RunOnly

\* The head must belong to exactly one pull request as its current head.
ListPullRequests(r) ==
  /\ run[r].pc = "list"
  /\ IF run[r].head = head
       THEN \/ Goto(r, IF SameRepository THEN "checks" ELSE "refresh")
            \/ "resolve" \in Faults /\ End(r, "failure")
       ELSE End(r, "failure")
  /\ RunOnly

\* Mutant of RefreshPullRequest: the head is not compared again.
RefreshWithoutHead(r) ==
  /\ run[r].pc = "refresh"
  /\ Set(r, [run[r] EXCEPT !.pc = "checks", !.approved = label])
  /\ RunOnly

\* A fork pull request is fetched again: its labels and its head are current.
RefreshPullRequest(r) ==
  /\ run[r].pc = "refresh"
  /\ IF run[r].head = head
       THEN Set(r, [run[r] EXCEPT !.pc = "checks", !.approved = label])
       ELSE End(r, "failure")
  /\ RunOnly

ReadCheckRuns(r) ==
  /\ run[r].pc = "checks"
  /\ Set(r, [run[r] EXCEPT !.pc = "artifacts",
                        !.reviewed = HasVerdictCheck(run[r].head)])
  /\ RunOnly

ReadArtifacts(r) ==
  /\ run[r].pc = "artifacts"
  /\ Set(r, [run[r] EXCEPT !.pc = "route",
                        !.reviewed = run[r].reviewed /\ HasVerdictRecord(run[r].head)])
  /\ RunOnly

\* Mutant of ReviewDue: the conditions do not test already_reviewed.
ReviewDueAgain(r) == ~SameRepository => run[r].approved /\ run[r].compliant

ReviewDue(r) ==
  /\ ~run[r].reviewed
  /\ ~SameRepository => run[r].approved /\ run[r].compliant

\* Mutant of JoinReviewGroup: cancel-in-progress is false.
JoinWithoutCancel(r) ==
  /\ run[r].pc = "route"
  /\ ReviewDue(r)
  /\ run' = [s \in Runs |->
       IF s = r THEN [run[s] EXCEPT !.pc = "queued"]
       ELSE IF run[s].pc = "queued"
         THEN [run[s] EXCEPT !.pc = "ended", !.status = "cancelled"]
       ELSE run[s]]
  /\ RunOnly

\* The review job enters the group of the pull request: a waiting job is
\* replaced, the one in progress is asked to stop.
JoinReviewGroup(r) ==
  /\ run[r].pc = "route"
  /\ ReviewDue(r)
  /\ run' = [s \in Runs |->
       IF s = r THEN [run[s] EXCEPT !.pc = "queued"]
       ELSE IF run[s].pc = "queued"
         THEN [run[s] EXCEPT !.pc = "ended", !.status = "cancelled"]
       ELSE IF InReview(s) THEN [run[s] EXCEPT !.cancelled = TRUE]
       ELSE run[s]]
  /\ RunOnly

SkipReview(r) ==
  /\ run[r].pc = "route"
  /\ ~ReviewDue(r)
  /\ End(r, "success")
  /\ RunOnly

-----------------------------------------------------------------------------
(* The review job *)

\* A job waits for the group; a fork job then waits for the environment.
StartReview(r) ==
  /\ run[r].pc = "queued"
  /\ \A s \in Runs : ~InReview(s)
  /\ Goto(r, IF SameRepository THEN "metadata" ELSE "approval")
  /\ RunOnly

\* A maintainer approves or rejects the fork-review environment.
DecideEnvironment(r) ==
  /\ run[r].pc = "approval"
  /\ Goto(r, "metadata") \/ End(r, "failure")
  /\ RunOnly

\* Mutant of Abort: the publication step has no always() condition.
AbortSilently(r, result) ==
  Set(r, [run[r] EXCEPT !.status = result, !.pc = "ended"])

\* After a failed or interrupted step only the always() steps run: the record
\* steps when a verdict line exists, and the publication.  Without metadata
\* the publication has no head to name and fails as well.
Abort(r, result) ==
  Set(r, [run[r] EXCEPT
    !.status = result,
    !.pc = IF run[r].pc = "metadata" THEN "ended"
              ELSE IF run[r].verdict = "none" THEN "publish" ELSE "record"])

\* The metadata step only re-checks values the caller resolved: it does not fail.
StepFails(r) ==
  /\ "step" \in Faults
  /\ run[r].pc \in StepPhases \ {"metadata"}
  /\ Abort(r, "failure")
  /\ RunOnly

ResolveMetadata(r) ==
  /\ run[r].pc = "metadata"
  /\ Goto(r, "fetch")
  /\ RunOnly

\* Checkout, AUDIT.md revision, adopter scripts, and the head objects.
FetchObjects(r) ==
  /\ run[r].pc = "fetch"
  /\ Goto(r, "case")
  /\ RunOnly

\* A step that exits with code 3 makes the fixed capacity report the response.
Capacity(r) ==
  Set(r, [run[r] EXCEPT !.pc = "validate", !.response = "NEEDS-HUMAN"])

BuildCase(r) ==
  /\ run[r].pc = "case"
  /\ Goto(r, "model") \/ Capacity(r)
  /\ RunOnly

RunModel(r) ==
  /\ run[r].pc = "model"
  /\ \/ Capacity(r)
     \/ \E v \in Verdicts :
          Set(r, [run[r] EXCEPT !.pc = "validate", !.response = v])
     \/ Goto(r, "retry")            \* first response failed validation
  /\ RunOnly

\* The second call runs under set -e: exit code 3 is a failure like any other.
RetryModel(r) ==
  /\ run[r].pc = "retry"
  /\ \E v \in Verdicts \cup {"invalid"} :
       Set(r, [run[r] EXCEPT !.pc = "validate", !.response = v])
  /\ RunOnly

\* Mutant of ValidateReport: the structural validation is skipped.
ValidateNothing(r) ==
  /\ run[r].pc = "validate"
  /\ Goto(r, "parse")
  /\ RunOnly

ValidateReport(r) ==
  /\ run[r].pc = "validate"
  /\ IF run[r].response = "invalid" THEN Abort(r, "failure") ELSE Goto(r, "parse")
  /\ RunOnly

\* The verdict line is an output of the step even when the step then rejects
\* its token, which the validator can have read differently (ResponseContract).
ParseVerdict(r) ==
  /\ run[r].pc = "parse"
  /\ \/ Set(r, [run[r] EXCEPT !.pc = "comment", !.verdict = run[r].response])
     \/ /\ "step" \in Faults
        /\ Set(r, [run[r] EXCEPT !.pc = "record", !.status = "failure",
                                !.verdict = run[r].response])
  /\ RunOnly

PostComment(r) ==
  /\ run[r].pc = "comment"
  /\ Goto(r, "record")
  /\ RunOnly

UploadRecord(r) ==
  /\ run[r].pc = "record"
  /\ \/ /\ records' = records \cup
             {[head |-> run[r].head, run |-> r, verdict |-> run[r].verdict,
               expired |-> FALSE]}
        /\ Goto(r, "gate")
     \/ /\ "upload" \in Faults
        /\ Set(r, [run[r] EXCEPT !.pc = "gate", !.status = "failure"])
        /\ UNCHANGED records
  /\ UNCHANGED <<head, label, scan, nruns, checks, passed, labelled>>

\* Mutant of FailOnVerdict: only BLOCK sets blocked.
FailOnBlockOnly(r) ==
  /\ run[r].pc = "gate"
  /\ Set(r, [run[r] EXCEPT
       !.pc = "publish",
       !.status = IF run[r].status = "success" /\ run[r].verdict = "BLOCK"
                       THEN "failure" ELSE run[r].status])
  /\ RunOnly

FailOnVerdict(r) ==
  /\ run[r].pc = "gate"
  /\ Set(r, [run[r] EXCEPT
       !.pc = "publish",
       !.status = IF run[r].status = "success" /\ run[r].verdict \in Blocking
                       THEN "failure" ELSE run[r].status])
  /\ RunOnly

\* The validator and the gate accept a verdict line with any blanks in it, or
\* with none; the check's summary repeats the line as it stands.
Spacing(r) ==
  IF run[r].verdict = "none" THEN {FALSE}
  ELSE IF "spacing" \in Faults THEN BOOLEAN ELSE {TRUE}

\* Two failed attempts only warn after a passed review; the check is missing.
PublishCheck(r) ==
  /\ run[r].pc = "publish"
  /\ \/ \E readable \in Spacing(r) :
          checks' = checks \cup
            {[head |-> run[r].head, run |-> r, verdict |-> run[r].verdict,
              conclusion |-> IF run[r].status = "success"
                               THEN "success" ELSE "failure",
              readable |-> readable]}
     \/ "publish" \in Faults /\ UNCHANGED checks
  /\ Goto(r, "ended")
  /\ UNCHANGED <<head, label, scan, nruns, records, passed, labelled>>

-----------------------------------------------------------------------------
(* Cancellation and loss *)

\* Mutant of Interrupt: a job waiting for its environment is not cancelled.
InterruptRunning(r) ==
  /\ run[r].cancelled
  /\ run[r].status # "cancelled"
  /\ \/ run[r].pc \in ResolvePhases \cup {"queued"} /\ End(r, "cancelled")
     \/ run[r].pc \in StepPhases /\ Abort(r, "cancelled")
     \/ run[r].pc \in TailPhases
        /\ Set(r, [run[r] EXCEPT !.status = "cancelled"])
  /\ RunOnly

\* The runner receives the cancellation: the step in progress stops.
Interrupt(r) ==
  /\ run[r].cancelled
  /\ run[r].status # "cancelled"
  /\ \/ run[r].pc \in ResolvePhases \cup {"queued", "approval"}
        /\ End(r, "cancelled")
     \/ run[r].pc \in StepPhases /\ Abort(r, "cancelled")
     \/ run[r].pc \in TailPhases
        /\ Set(r, [run[r] EXCEPT !.status = "cancelled"])
  /\ RunOnly

\* The runner disappears; no further step runs.
LoseRunner(r) ==
  /\ "runner" \in Faults
  /\ run[r].pc \in ResolvePhases \cup StepPhases \cup TailPhases
  /\ End(r, "failure")
  /\ RunOnly

-----------------------------------------------------------------------------
(* Specification *)

Advance(r) ==
  \/ StartRun(r) \/ ListPullRequests(r) \/ RefreshPullRequest(r)
  \/ ReadCheckRuns(r) \/ ReadArtifacts(r) \/ JoinReviewGroup(r)
  \/ SkipReview(r) \/ StartReview(r)
  \/ ResolveMetadata(r) \/ FetchObjects(r) \/ BuildCase(r) \/ RunModel(r)
  \/ RetryModel(r) \/ ValidateReport(r) \/ ParseVerdict(r) \/ PostComment(r)
  \/ UploadRecord(r) \/ FailOnVerdict(r) \/ PublishCheck(r) \/ Interrupt(r)

Events == Push \/ Edit \/ AddLabel \/ RemoveLabel \/ ExpireRecord

Next ==
  \/ Events
  \/ FinishScan
  \/ \E r \in Runs :
       Advance(r) \/ DecideEnvironment(r) \/ StepFails(r) \/ LoseRunner(r)

\* Scans and jobs are scheduled and bounded by job timeouts.  Nobody has to
\* push or label, or to decide an environment request.
Fairness == WF_vars(FinishScan) /\ \A r \in Runs : WF_vars(Advance(r))

Spec     == Init /\ [][Next]_vars
FairSpec == Spec /\ Fairness

-----------------------------------------------------------------------------
(* Properties *)

\* Types of the variables.
TypeOK ==
  /\ head \in Heads
  /\ label \in BOOLEAN
  /\ scan \in 0..MaxHead
  /\ nruns \in 0..MaxRuns
  /\ run \in [Runs -> RunRecord]
  /\ checks \subseteq CheckRecord
  /\ records \subseteq VerdictRecord
  /\ passed \subseteq Heads
  /\ labelled \subseteq Heads

\* "One model call per head revision", as far as the caller can tell: while a
\* head has a check whose verdict it can read and an unexpired verdict record,
\* no job prepares or makes a model call for it, in whatever order the runs of
\* the head were started, cancelled and published.
NoSecondReview ==
  \A r \in Runs : run[r].pc \in StepPhases => ~Reviewed(run[r].head)

\* A fork head reaches the model only if that same head passed Immutable
\* Compliance and carried safe-to-review while it was the current head.
ForkGate ==
  ~SameRepository =>
    \A r \in Runs : run[r].pc \in StepPhases =>
                      run[r].head \in passed \cap labelled

\* A green check run on a head stems from an APPROVE verdict whose artifact
\* the same run uploaded before.
GreenMeansApproved ==
  \A c \in checks : c.conclusion = "success" =>
    /\ c.verdict = "APPROVE"
    /\ \E a \in records : a.head = c.head /\ a.run = c.run /\ a.verdict = c.verdict

\* Once a head is reviewed its checks are final: only a run that uploaded a
\* verdict record of its own can still add one.
SettledHead ==
  [][\A c \in checks' \ checks :
       Reviewed(c.head) => \E a \in records : a.run = c.run]_vars

\* A run that is asked to stop does stop, also while its job waits for an
\* environment decision that never comes.
SupersededRunEnds ==
  \A r \in Runs : run[r].cancelled ~> run[r].pc = "ended"

\* The two concurrency groups never block a caller run for good: it ends, or
\* it is its own job that waits for the environment decision.
RunSettles ==
  \A r \in Runs : run[r].pc = "pending" ~> run[r].pc \in {"approval", "ended"}

\* No caller run goes on for good: not one that was asked to stop, and not one
\* that waits for a group.
RunsEnd == SupersededRunEnds /\ RunSettles

\* A current head with a started caller run gets a security-review check run
\* unless a newer head replaces it.
HeadGetsCheck ==
  \A r \in Runs :
    run[r].pc = "pending" ~> \/ \E c \in checks : c.head = run[r].head
                             \/ head # run[r].head

\* Comment at security-review-pr.yml:112: "A failed run uploads no record, so a
\* flaky review still retries."  A run that fails for another reason than its
\* blocking verdict leaves no verdict record.
FailedRunUploadsNoRecord ==
  \A a \in records :
    run[a.run].pc = "ended" /\ run[a.run].status = "failure"
      => a.verdict \in Blocking
=============================================================================
