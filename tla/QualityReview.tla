---------------------------- MODULE QualityReview ---------------------------
(***************************************************************************)
(* quality-review-pr.yml: every completed run of ci or of Immutable        *)
(* Compliance starts one caller run for its head, which looks up the pull  *)
(* request and the newest run of both workflows and starts the quality     *)
(* review when both succeeded.  Pushes, labels and re-runs come in between *)
(* any two of its requests.                                                *)
(*                                                                         *)
(* Bounds: MaxTip pushed revisions, MaxFlows runs of the two workflows,    *)
(* MaxReruns re-runs of them and MaxCallers caller runs.                   *)
(***************************************************************************)
EXTENDS Naturals, Sequences, FiniteSetsExt

CONSTANTS MaxTip, MaxFlows, MaxReruns, MaxCallers

ASSUME QualityAssumption ==
  /\ MaxTip \in Nat \ {0}
  /\ MaxFlows \in Nat \ {0, 1}   \* one run of each workflow from the start
  /\ {MaxReruns, MaxCallers} \subseteq Nat

VARIABLES
  own,         \* head branch in this repository, not in a fork
  tip,         \* current head revision of the pull request
  tagged,      \* safe-to-review is on the pull request
  flows,       \* runs of the two workflows, by run id
  reruns,      \* re-runs so far
  callers,     \* caller runs
  taggedTips,  \* revisions that carried the label while they were current
  succeeded,   \* <<workflow, revision>> of every successful completion
  started      \* revisions a quality review was started for

qualityVars == <<own, tip, tagged, flows, reruns, callers, taggedTips, succeeded,
                 started>>

Tips      == 1..MaxTip
Workflows == {"ci", "compliance"}

Flow == [name : Workflows, head : Tips, state : {"running", "success", "failure"}]

Caller ==
  [head : Tips,               \* workflow_run.head_sha
   pc : {"pending", "list", "refresh", "ci", "compliance", "route", "review", "ended"},
   target : 0..MaxTip,        \* the head_sha output
   approved : BOOLEAN,        \* fork_review_approved
   ci : BOOLEAN, compliance : BOOLEAN,
   cancelled : BOOLEAN]

NewFlow(name, head) == [name |-> name, head |-> head, state |-> "running"]

NewCaller(head) ==
  [head |-> head, pc |-> "pending", target |-> 0, approved |-> FALSE,
   ci |-> FALSE, compliance |-> FALSE, cancelled |-> FALSE]

\* Of a caller run that is over, only that it was there matters.
Over(head) == [NewCaller(head) EXCEPT !.pc = "ended"]

\* A caller run holds the group of its head from its first step to its last.
InProgress(c) == c.pc \notin {"pending", "ended"}

QualityInit ==
  /\ own \in BOOLEAN
  /\ tip = 1
  /\ tagged = FALSE
  /\ flows = <<NewFlow("ci", 1), NewFlow("compliance", 1)>>
  /\ reruns = 0
  /\ callers = <<>>
  /\ taggedTips = {}
  /\ succeeded = {}
  /\ started = {}

-----------------------------------------------------------------------------
(* The pull request and the two workflows *)

IdsOf(name, head) == {i \in DOMAIN flows : flows[i].name = name /\ flows[i].head = head}

PushRevision ==
  /\ tip < MaxTip
  /\ Len(flows) + 2 <= MaxFlows
  /\ tip' = tip + 1
  /\ taggedTips' = IF tagged THEN taggedTips \cup {tip + 1} ELSE taggedTips
  /\ flows' = flows \o <<NewFlow("ci", tip + 1), NewFlow("compliance", tip + 1)>>
  /\ UNCHANGED <<own, tagged, reruns, callers, succeeded, started>>

\* Edits and labels start a compliance run, not a ci run.
EditText ==
  /\ Len(flows) < MaxFlows
  /\ flows' = Append(flows, NewFlow("compliance", tip))
  /\ UNCHANGED <<own, tip, tagged, reruns, callers, taggedTips, succeeded, started>>

ApplyLabel ==
  /\ ~own
  /\ ~tagged
  /\ Len(flows) < MaxFlows
  /\ tagged' = TRUE
  /\ taggedTips' = taggedTips \cup {tip}
  /\ flows' = Append(flows, NewFlow("compliance", tip))
  /\ UNCHANGED <<own, tip, reruns, callers, succeeded, started>>

TakeLabelOff ==
  /\ tagged
  /\ tagged' = FALSE
  /\ UNCHANGED <<own, tip, flows, reruns, callers, taggedTips, succeeded, started>>

\* Compliance runs of the pull request cancel each other: only its newest one
\* can still succeed.
Superseded(i) ==
  \E j \in DOMAIN flows : j > i /\ {flows[i].name, flows[j].name} = {"compliance"}

\* Mutant of Subscribed: the caller waits for Immutable Compliance alone.
SubscribedToOne(name) == name = "compliance"

\* on.workflow_run.workflows.
Subscribed(name) == name \in Workflows

\* The new caller run replaces a pending one of its head and cancels the one
\* in progress.
StartCallerFor(head) ==
  callers' = Append(
    [q \in DOMAIN callers |->
       IF callers[q].head # head THEN callers[q]
       ELSE IF callers[q].pc = "pending" THEN Over(head)
       ELSE IF InProgress(callers[q]) THEN [callers[q] EXCEPT !.cancelled = TRUE]
       ELSE callers[q]],
    NewCaller(head))

CompleteFlow(i) ==
  /\ flows[i].state = "running"
  /\ Len(callers) < MaxCallers
  /\ \E result \in {"success", "failure"} :
       /\ Superseded(i) => result = "failure"
       /\ flows' = [flows EXCEPT ![i].state = result]
       /\ succeeded' = IF result = "success"
                         THEN succeeded \cup {<<flows[i].name, flows[i].head>>}
                         ELSE succeeded
  /\ IF Subscribed(flows[i].name) THEN StartCallerFor(flows[i].head)
     ELSE UNCHANGED callers
  /\ UNCHANGED <<own, tip, tagged, reruns, taggedTips, started>>

\* A maintainer runs a completed run again, under the same id.
Rerun(i) ==
  /\ reruns < MaxReruns
  /\ flows[i].state # "running"
  /\ ~Superseded(i)
  /\ reruns' = reruns + 1
  /\ flows' = [flows EXCEPT ![i].state = "running"]
  /\ UNCHANGED <<own, tip, tagged, callers, taggedTips, succeeded, started>>

-----------------------------------------------------------------------------
(* A caller run *)

\* latestRun: the run of the head with the highest id.
LatestRun(name, head) == flows[Max(IdsOf(name, head))]

Move(q, caller) ==
  /\ callers' = [callers EXCEPT ![q] = caller]
  /\ UNCHANGED <<own, tip, tagged, flows, reruns, taggedTips, succeeded>>

\* Mutant of BeginCaller: the workflow has no concurrency group.
BeginUngrouped(q) ==
  /\ callers[q].pc = "pending"
  /\ Move(q, [callers[q] EXCEPT !.pc = "list"])
  /\ UNCHANGED started

BeginCaller(q) ==
  /\ callers[q].pc = "pending"
  /\ \A r \in DOMAIN callers : callers[r].head = callers[q].head => ~InProgress(callers[r])
  /\ Move(q, [callers[q] EXCEPT !.pc = "list"])
  /\ UNCHANGED started

\* Without an open pull request of that head nothing more is due.
FindPullRequest(q) ==
  /\ callers[q].pc = "list"
  /\ IF callers[q].head = tip
       THEN Move(q, [callers[q] EXCEPT !.pc = IF own THEN "ci" ELSE "refresh",
                                       !.target = tip])
       ELSE Move(q, Over(callers[q].head))
  /\ UNCHANGED started

\* The pull request of a fork is read again, for its labels; its head becomes
\* the head_sha output too.
ReadAgain(q) ==
  /\ callers[q].pc = "refresh"
  /\ Move(q, [callers[q] EXCEPT !.pc = "ci", !.approved = tagged, !.target = tip])
  /\ UNCHANGED started

\* Mutant of ReadCi: only a failed run stops the review.
ReadCiLeniently(q) ==
  /\ callers[q].pc = "ci"
  /\ Move(q, [callers[q] EXCEPT !.pc = "compliance",
                !.ci = LatestRun("ci", callers[q].head).state # "failure"])
  /\ UNCHANGED started

ReadCi(q) ==
  /\ callers[q].pc = "ci"
  /\ Move(q, [callers[q] EXCEPT !.pc = "compliance",
                !.ci = LatestRun("ci", callers[q].head).state = "success"])
  /\ UNCHANGED started

ReadCompliance(q) ==
  /\ callers[q].pc = "compliance"
  /\ Move(q, [callers[q] EXCEPT !.pc = "route",
                !.compliance = LatestRun("compliance", callers[q].head).state = "success"])
  /\ UNCHANGED started

GatesPassed(c) == c.ci /\ c.compliance

\* Mutant of ReviewIsDue: fork-review does not test fork_review_approved.
ReviewIsDueForAll(c) == GatesPassed(c)

\* The conditions of review and fork-review.
ReviewIsDue(c) == GatesPassed(c) /\ (own \/ c.approved)

StartQualityReview(q) ==
  /\ callers[q].pc = "route"
  /\ ReviewIsDue(callers[q])
  /\ Move(q, [callers[q] EXCEPT !.pc = "review"])
  /\ started' = started \cup {callers[q].target}

\* The skip result of a fork, or nothing at all.
LeaveUnreviewed(q) ==
  /\ callers[q].pc = "route"
  /\ ~ReviewIsDue(callers[q])
  /\ Move(q, Over(callers[q].head))
  /\ UNCHANGED started

\* The reusable workflow of the other repository ends.
FinishReview(q) ==
  /\ callers[q].pc = "review"
  /\ Move(q, Over(callers[q].head))
  /\ UNCHANGED started

StopCaller(q) ==
  /\ callers[q].cancelled
  /\ InProgress(callers[q])
  /\ Move(q, Over(callers[q].head))
  /\ UNCHANGED started

CallerStep(q) ==
  \/ BeginCaller(q) \/ FindPullRequest(q) \/ ReadAgain(q) \/ ReadCi(q)
  \/ ReadCompliance(q) \/ StartQualityReview(q) \/ LeaveUnreviewed(q)
  \/ FinishReview(q) \/ StopCaller(q)

QualityNext ==
  \/ PushRevision \/ EditText \/ ApplyLabel \/ TakeLabelOff
  \/ \E i \in DOMAIN flows : CompleteFlow(i) \/ Rerun(i)
  \/ \E q \in DOMAIN callers : CallerStep(q)

\* GitHub runs the jobs of every caller; nobody has to push, label or re-run.
QualityFairness ==
  \A q \in 1..MaxCallers :
    WF_qualityVars(q \in DOMAIN callers /\ CallerStep(q))

QualitySpec == QualityInit /\ [][QualityNext]_qualityVars /\ QualityFairness

-----------------------------------------------------------------------------
(* Properties *)

\* Types of the variables.
QualityTypeOK ==
  /\ own \in BOOLEAN
  /\ tip \in Tips
  /\ tagged \in BOOLEAN
  /\ flows \in Seq(Flow) /\ Len(flows) <= MaxFlows
  /\ reruns \in 0..MaxReruns
  /\ callers \in Seq(Caller) /\ Len(callers) <= MaxCallers
  /\ taggedTips \subseteq Tips
  /\ succeeded \subseteq Workflows \X Tips
  /\ started \subseteq Tips

\* A review of a head of this repository follows a success of both workflows
\* for that same head, whatever was pushed or run again between the requests.
OwnReviewIsGated ==
  own => \A h \in started : Workflows \X {h} \subseteq succeeded

\* A fork head is reviewed only if it carried the label while it was current:
\* the label of one revision never approves another.
LabelIsOfReviewedHead == ~own => started \subseteq taggedTips

\* Two reviews of one head never run at the same time.
OneReviewAtATime ==
  own => \A q, r \in DOMAIN callers :
    callers[q].pc = "review" /\ callers[r].pc = "review"
      /\ callers[q].target = callers[r].target => q = r

\* What is reviewed was to be reviewed: gated, approved and not in review.
ReviewsAreGated ==
  QualityTypeOK /\ OwnReviewIsGated /\ LabelIsOfReviewedHead /\ OneReviewAtATime

BothPassed(h) ==
  \A name \in Workflows :
    IdsOf(name, h) # {} /\ LatestRun(name, h).state = "success"

\* Whichever workflow finishes last and however callers cancel each other, a
\* current head of this repository that passed both is reviewed, unless it
\* stops being that.
LaterPassReviews ==
  \A h \in Tips :
    own /\ tip = h /\ BothPassed(h)
      ~> h \in started \/ tip # h \/ ~BothPassed(h)

\* quality-review-pr.yml:97: "The review starts only when the ci workflow and
\* the Immutable Compliance workflow both succeeded for this head revision."
ReviewedHeadIsGated ==
  \A h \in started : Workflows \X {h} \subseteq succeeded
=============================================================================
