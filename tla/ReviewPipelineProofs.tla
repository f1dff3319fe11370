------------------------ MODULE ReviewPipelineProofs ------------------------
(***************************************************************************)
(* Proofs about ReviewPipeline for every number of heads and runs.         *)
(***************************************************************************)
EXTENDS ReviewPipeline, TLAPS

-----------------------------------------------------------------------------
(* Run records *)

TypedRuns == run \in [Runs -> RunRecord]

\* The record of a run that was not created yet is a run record.
LEMMA NoRunTyped == NoRun \in RunRecord
BY PipelineAssumption
   DEF PipelineAssumption, NoRun, RunRecord, Phases, Statuses

\* What a step may write into a run record keeps it a run record.
LEMMA RecordUpdates ==
  ASSUME NEW x \in RunRecord, NEW phase \in Phases, NEW status \in Statuses,
         NEW flag \in BOOLEAN
  PROVE  /\ [x EXCEPT !.pc = phase] \in RunRecord
         /\ [x EXCEPT !.status = status] \in RunRecord
         /\ [x EXCEPT !.cancelled = TRUE] \in RunRecord
         /\ [x EXCEPT !.pc = phase, !.status = status] \in RunRecord
         /\ [x EXCEPT !.status = status, !.pc = phase] \in RunRecord
         /\ [x EXCEPT !.pc = phase, !.reviewed = flag] \in RunRecord
         /\ [x EXCEPT !.pc = phase, !.approved = flag] \in RunRecord
         /\ \A v \in Verdicts \cup {"none", "invalid"} :
              [x EXCEPT !.pc = phase, !.response = v] \in RunRecord
         /\ \A v \in Verdicts \cup {"none"} :
              /\ [x EXCEPT !.pc = phase, !.verdict = v] \in RunRecord
              /\ [x EXCEPT !.pc = phase, !.status = status, !.verdict = v] \in RunRecord
         /\ \A h \in 0..MaxHead :
              [x EXCEPT !.head = h, !.compliant = flag, !.pc = phase] \in RunRecord
BY DEF RunRecord

\* Replacing one run by a run record keeps all runs typed.
LEMMA SetTyped ==
  ASSUME TypedRuns, NEW r \in Runs, NEW rec \in RunRecord, Set(r, rec)
  PROVE  TypedRuns'
BY DEF TypedRuns, Set

-----------------------------------------------------------------------------
(* Run steps.  Nearly every action moves runs forward or ends them and       *)
(* leaves what the resolve job found alone: Steady names that, so that each  *)
(* invariant has to look only at the actions that do more.                   *)

Idle  == {"none", "pending", "ended"}
Gated == {"queued"} \cup JobPhases               \* the review job is due
Ahead == {"queued", "approval"} \cup StepPhases  \* the model call may still come

Continues(p, q) ==
  \/ q = p
  \/ q = "ended"
  \/ /\ p \notin Idle
     /\ q \notin Idle \cup {"artifacts", "route"}
     /\ q \in Gated => p \in Gated
     /\ q \in Ahead => p \in Ahead

SameFindings(x, y) ==
  /\ y.head = x.head
  /\ y.compliant = x.compliant
  /\ y.approved = x.approved
  /\ y.reviewed = x.reviewed

\* What the steps rely on: a run has a head, validation and parsing have a
\* response to work on, comment and upload have a verdict.
Ready(x) ==
  /\ x.pc \notin {"none", "ended"} => x.head # 0
  /\ x.pc = "validate" => x.response # "none"
  /\ x.pc = "parse" => x.response \in Verdicts
  /\ x.pc \in {"comment", "record"} => x.verdict \in Verdicts

Follows(x, y) ==
  /\ SameFindings(x, y)
  /\ Continues(x.pc, y.pc)
  /\ Ready(x) => Ready(y)

\* A run that StartCaller has just created; good is the set of compliant heads.
Fresh(y, good) ==
  /\ y.pc = "pending" /\ y.head # 0
  /\ ~y.approved
  /\ y.compliant => y.head \in good

Steady == \A s \in Runs : Follows(run[s], run'[s]) \/ Fresh(run'[s], passed')

\* Replacing one run by a record that follows it.
LEMMA SetSteady ==
  ASSUME TypedRuns, NEW r \in Runs, NEW rec \in RunRecord, Set(r, rec),
         Follows(run[r], rec)
  PROVE  TypedRuns' /\ Steady
<1>1. TypedRuns'
  BY SetTyped
<1>2. \A s \in Runs : run'[s] = IF s = r THEN rec ELSE run[s]
  BY DEF TypedRuns, Set
<1>3. \A s \in Runs : Follows(run[s], run[s])
  BY DEF Follows, SameFindings, Continues
<1> QED BY <1>1, <1>2, <1>3 DEF Steady

\* A move to a later phase that keeps the findings is steady.
LEMMA GotoSteady ==
  ASSUME TypedRuns, NEW r \in Runs, NEW phase \in Phases, Goto(r, phase),
         Continues(run[r].pc, phase),
         Ready(run[r]) => \/ phase \notin {"validate", "parse", "comment", "record"}
                          \/ phase = "parse" /\ run[r].response \in Verdicts
                          \/ phase = "record" /\ run[r].verdict \in Verdicts
  PROVE  TypedRuns' /\ Steady
<1> DEFINE rec == [run[r] EXCEPT !.pc = phase]
<1>1. run[r] \in RunRecord
  BY DEF TypedRuns
<1>2. rec \in RunRecord
  BY <1>1, RecordUpdates DEF Statuses
<1>3. Follows(run[r], rec)
  BY <1>1 DEF RunRecord, Follows, SameFindings, Ready, Continues, Idle
<1> QED BY <1>2, <1>3, SetSteady DEF Goto

\* The end of a run is steady.
LEMMA EndSteady ==
  ASSUME TypedRuns, NEW r \in Runs, NEW status \in Statuses, End(r, status)
  PROVE  TypedRuns' /\ Steady
<1> DEFINE rec == [run[r] EXCEPT !.pc = "ended", !.status = status]
<1>1. run[r] \in RunRecord
  BY DEF TypedRuns
<1>2. rec \in RunRecord
  BY <1>1, RecordUpdates DEF Phases
<1>3. Follows(run[r], rec)
  BY <1>1 DEF RunRecord, Follows, SameFindings, Continues, Ready
<1> QED BY <1>2, <1>3, SetSteady DEF End

\* A failed or interrupted step leads to the steps that always run.
LEMMA AbortSteady ==
  ASSUME TypedRuns, NEW r \in Runs, NEW status \in Statuses,
         run[r].pc \in StepPhases, Abort(r, status)
  PROVE  TypedRuns' /\ Steady
<1> DEFINE phase == IF run[r].pc = "metadata" THEN "ended"
                    ELSE IF run[r].verdict = "none" THEN "publish" ELSE "record"
           rec == [run[r] EXCEPT !.status = status, !.pc = phase]
<1>1. run[r] \in RunRecord
  BY DEF TypedRuns
<1>2. phase \in {"ended", "publish", "record"} /\ (phase = "record" => run[r].verdict # "none")
  OBVIOUS
<1>3. phase \in Phases /\ Continues(run[r].pc, phase)
  BY <1>2 DEF Phases, JobPhases, StepPhases, ModelPhases, TailPhases, Continues, Idle,
              Gated, Ahead
<1>4. rec \in RunRecord
  <2> HIDE DEF phase
  <2> QED BY <1>1, <1>3, RecordUpdates
<1>5. Follows(run[r], rec)
  <2> HIDE DEF phase
  <2> QED BY <1>1, <1>2, <1>3
          DEF RunRecord, Follows, SameFindings, Ready, Continues, Idle
<1> QED BY <1>4, <1>5, SetSteady DEF Abort

\* A step that produces the model's response or the capacity report.
LEMMA RespondSteady ==
  ASSUME TypedRuns, NEW r \in Runs, run[r].pc \in StepPhases,
         NEW answer \in Verdicts \cup {"invalid"},
         Set(r, [run[r] EXCEPT !.pc = "validate", !.response = answer])
  PROVE  TypedRuns' /\ Steady
<1> DEFINE rec == [run[r] EXCEPT !.pc = "validate", !.response = answer]
<1>1. run[r] \in RunRecord
  BY DEF TypedRuns
<1>2. "validate" \in Phases /\ Continues(run[r].pc, "validate")
  BY DEF Phases, JobPhases, StepPhases, ModelPhases, Continues, Idle, Gated, Ahead
<1>3. rec \in RunRecord
  BY <1>1, <1>2, RecordUpdates DEF Statuses
<1>4. Follows(run[r], rec)
  BY <1>1, <1>2 DEF RunRecord, Follows, SameFindings, Ready, Verdicts,
                    Continues, Idle
<1> QED BY <1>3, <1>4, SetSteady

\* Starting a caller run keeps all runs typed and the counter in its range.
LEMMA StartCallerSteady ==
  ASSUME TypedRuns, nruns \in 0..MaxRuns, nruns < MaxRuns,
         NEW h \in Heads, NEW ok \in BOOLEAN, StartCaller(h, ok)
  PROVE  /\ TypedRuns' /\ nruns' \in 0..MaxRuns
         /\ (ok => h \in passed') => Steady
<1>1. [NoRun EXCEPT !.head = h, !.compliant = ok, !.pc = "pending"] \in RunRecord
  <2>1. h \in 0..MaxHead /\ "pending" \in Phases
    BY PipelineAssumption DEF PipelineAssumption, Heads, Phases
  <2>2. \A x \in RunRecord :
          [x EXCEPT !.head = h, !.compliant = ok, !.pc = "pending"] \in RunRecord
    BY <2>1, RecordUpdates DEF Statuses
  <2> QED BY <2>2, NoRunTyped, Zenon
<1>2. ASSUME NEW s \in Runs
      PROVE  /\ [run[s] EXCEPT !.pc = "ended", !.status = "cancelled"] \in RunRecord
             /\ [run[s] EXCEPT !.cancelled = TRUE] \in RunRecord
             /\ run[s] \in RunRecord
  BY RecordUpdates DEF TypedRuns, Phases, Statuses
<1>3. TypedRuns'
  BY <1>1, <1>2 DEF StartCaller, TypedRuns
<1>4. nruns' \in 0..MaxRuns
  <2>1. nruns' = nruns + 1
    BY Zenon DEF StartCaller
  <2> QED BY <2>1, PipelineAssumption DEF PipelineAssumption
<1>5. ASSUME ok => h \in passed', NEW s \in Runs
      PROVE  Follows(run[s], run'[s]) \/ Fresh(run'[s], passed')
  <2>1. \A x \in RunRecord :
          /\ Follows(x, x)
          /\ Follows(x, [x EXCEPT !.pc = "ended", !.status = "cancelled"])
          /\ Follows(x, [x EXCEPT !.cancelled = TRUE])
    BY DEF RunRecord, Follows, SameFindings, Continues, Ready
  <2>2. Fresh([NoRun EXCEPT !.head = h, !.compliant = ok, !.pc = "pending"], passed')
    BY <1>5, PipelineAssumption DEF PipelineAssumption, Fresh, NoRun, Heads
  <2> QED BY <1>2, <2>1, <2>2 DEF StartCaller
<1> QED BY <1>3, <1>4, <1>5 DEF Steady

-----------------------------------------------------------------------------
(* The actions of a run: those that are steady, and the five that are not.   *)

SteadyStep(r) ==
  \/ ListPullRequests(r) \/ SkipReview(r) \/ StartReview(r)
  \/ DecideEnvironment(r) \/ ResolveMetadata(r) \/ FetchObjects(r)
  \/ BuildCase(r) \/ RunModel(r) \/ RetryModel(r) \/ ValidateReport(r)
  \/ ParseVerdict(r) \/ PostComment(r) \/ UploadRecord(r)
  \/ FailOnVerdict(r) \/ PublishCheck(r) \/ Interrupt(r)
  \/ StepFails(r) \/ LoseRunner(r)

Decision(r) ==
  \/ StartRun(r) \/ RefreshPullRequest(r) \/ ReadCheckRuns(r)
  \/ ReadArtifacts(r) \/ JoinReviewGroup(r)

\* The steps are events, the scan, steady steps and decisions.
LEMMA NextSteps ==
  Next <=> Events \/ FinishScan \/ \E r \in Runs : SteadyStep(r) \/ Decision(r)
BY DEF Next, Advance, SteadyStep, Decision

\* Steady steps keep the run records typed.
LEMMA SteadySteps ==
  ASSUME TypedRuns, NEW r \in Runs, Ready(run[r]), SteadyStep(r)
  PROVE  TypedRuns' /\ Steady
<1> USE DEF Statuses
<1>0. run[r] \in RunRecord /\ run[r].verdict \in Verdicts \cup {"none"}
      /\ run[r].response \in Verdicts \cup {"none", "invalid"}
      /\ run[r].status \in Statuses
  BY DEF TypedRuns, RunRecord
<1> DEFINE Plain(q) == q \notin {"validate", "parse", "comment", "record"}
           Ok(p, q) == p \in Phases /\ q \in Phases /\ Continues(p, q)
<1>a. /\ Ok("list", "checks") /\ Ok("list", "refresh")
      /\ Ok("queued", "metadata") /\ Ok("queued", "approval")
      /\ Ok("approval", "metadata") /\ Ok("metadata", "fetch")
      /\ Ok("fetch", "case") /\ Ok("case", "model") /\ Ok("model", "retry")
      /\ Ok("validate", "parse") /\ Ok("parse", "comment") /\ Ok("parse", "record")
      /\ Ok("comment", "record") /\ Ok("record", "gate")
      /\ Ok("gate", "publish") /\ Ok("publish", "ended")
  BY DEF Phases, ResolvePhases, JobPhases, StepPhases, ModelPhases, TailPhases,
         Continues, Idle, Gated, Ahead
<1>b. /\ Plain("checks") /\ Plain("refresh") /\ Plain("metadata") /\ Plain("approval")
      /\ Plain("fetch") /\ Plain("case") /\ Plain("model") /\ Plain("retry")
      /\ Plain("gate") /\ Plain("publish") /\ Plain("ended")
  OBVIOUS
<1>1. CASE ListPullRequests(r)
  BY <1>1, <1>a, <1>b, GotoSteady, EndSteady DEF ListPullRequests
<1>2. CASE SkipReview(r)
  BY <1>2, EndSteady DEF SkipReview
<1>3. CASE StartReview(r)
  BY <1>3, <1>a, <1>b, GotoSteady DEF StartReview
<1>4. CASE DecideEnvironment(r)
  BY <1>4, <1>a, <1>b, GotoSteady, EndSteady DEF DecideEnvironment
<1>5. CASE ResolveMetadata(r)
  BY <1>5, <1>a, <1>b, GotoSteady DEF ResolveMetadata
<1>6. CASE FetchObjects(r)
  BY <1>6, <1>a, <1>b, GotoSteady DEF FetchObjects
<1>7. CASE BuildCase(r)
  <2>1. run[r].pc \in StepPhases
    BY <1>7 DEF BuildCase, StepPhases
  <2>2. CASE Capacity(r)
    BY <2>1, <2>2, RespondSteady DEF Capacity, Verdicts
  <2> QED BY <1>7, <1>a, <1>b, <2>2, GotoSteady DEF BuildCase
<1>8. CASE RunModel(r)
  <2>1. run[r].pc \in StepPhases
    BY <1>8 DEF RunModel, StepPhases, ModelPhases
  <2>2. CASE Capacity(r)
    BY <2>1, <2>2, RespondSteady DEF Capacity, Verdicts
  <2>3. CASE \E v \in Verdicts :
               Set(r, [run[r] EXCEPT !.pc = "validate", !.response = v])
    BY <2>1, <2>3, RespondSteady
  <2> QED BY <1>8, <1>a, <1>b, <2>2, <2>3, GotoSteady DEF RunModel
<1>9. CASE RetryModel(r)
  <2>1. run[r].pc \in StepPhases
    BY <1>9 DEF RetryModel, StepPhases, ModelPhases
  <2>2. PICK answer \in Verdicts \cup {"invalid"} :
          Set(r, [run[r] EXCEPT !.pc = "validate", !.response = answer])
    BY <1>9 DEF RetryModel
  <2> QED BY <2>1, <2>2, RespondSteady
<1>10. CASE ValidateReport(r)
  <2>1. run[r].pc \in StepPhases
    BY <1>10 DEF ValidateReport, StepPhases
  <2>2. run[r].response = "invalid" \/ run[r].response \in Verdicts
    BY <1>0, <1>10 DEF ValidateReport, Ready
  <2> QED BY <1>10, <1>a, <2>1, <2>2, AbortSteady, GotoSteady DEF ValidateReport
<1>11. CASE ParseVerdict(r)
  <2> DEFINE rec == [run[r] EXCEPT !.pc = "comment", !.verdict = run[r].response]
             rej == [run[r] EXCEPT !.pc = "record", !.status = "failure",
                                   !.verdict = run[r].response]
  <2>1. run[r].response \in Verdicts
    BY <1>11 DEF ParseVerdict, Ready
  <2>2. rec \in RunRecord /\ rej \in RunRecord
    BY <1>0, <1>a, <2>1, RecordUpdates
  <2>3. Follows(run[r], rec) /\ Follows(run[r], rej)
    BY <1>0, <1>a, <1>11, <2>1 DEF ParseVerdict, RunRecord, Follows, SameFindings, Ready
  <2> QED BY <1>11, <2>2, <2>3, SetSteady DEF ParseVerdict
<1>12. CASE PostComment(r)
  BY <1>12, <1>a, GotoSteady DEF PostComment, Ready
<1>13. CASE UploadRecord(r)
  <2> DEFINE rec == [run[r] EXCEPT !.pc = "gate", !.status = "failure"]
  <2>1. rec \in RunRecord
    BY <1>0, <1>a, RecordUpdates
  <2>2. CASE Set(r, rec)
    <3>1. Follows(run[r], rec)
      BY <1>0, <1>a, <1>13 DEF UploadRecord, RunRecord, Follows, SameFindings, Ready
    <3> QED BY <2>1, <2>2, <3>1, SetSteady
  <2> QED BY <1>13, <1>a, <1>b, <2>2, GotoSteady DEF UploadRecord
<1>14. CASE FailOnVerdict(r)
  <2> DEFINE status == IF run[r].status = "success" /\ run[r].verdict \in Blocking
                         THEN "failure" ELSE run[r].status
             rec == [run[r] EXCEPT !.pc = "publish", !.status = status]
  <2>1. status \in Statuses
    BY <1>0
  <2>2. rec \in RunRecord
    BY <1>0, <1>a, <2>1, RecordUpdates
  <2>3. Follows(run[r], rec)
    BY <1>0, <1>a, <1>14 DEF FailOnVerdict, RunRecord, Follows, SameFindings, Ready
  <2> QED BY <1>14, <2>2, <2>3, SetSteady DEF FailOnVerdict
<1>15. CASE PublishCheck(r)
  BY <1>15, <1>a, <1>b, GotoSteady DEF PublishCheck
<1>16. CASE Interrupt(r)
  <2> DEFINE rec == [run[r] EXCEPT !.status = "cancelled"]
  <2>1. rec \in RunRecord
    BY <1>0, RecordUpdates DEF Phases
  <2>2. CASE Set(r, rec)
    <3>1. Follows(run[r], rec)
      BY <1>0 DEF RunRecord, Follows, SameFindings, Continues, Ready
    <3> QED BY <2>1, <2>2, <3>1, SetSteady
  <2> QED BY <1>16, <2>2, AbortSteady, EndSteady DEF Interrupt
<1>17. CASE StepFails(r)
  BY <1>17, AbortSteady DEF StepFails
<1>18. CASE LoseRunner(r)
  BY <1>18, EndSteady DEF LoseRunner
<1> QED BY <1>1, <1>2, <1>3, <1>4, <1>5, <1>6, <1>7, <1>8, <1>9, <1>10, <1>11,
           <1>12, <1>13, <1>14, <1>15, <1>16, <1>17, <1>18 DEF SteadyStep

-----------------------------------------------------------------------------
(* The five decisions: what each writes into its run, while the other runs   *)
(* follow what they were.                                                    *)

Others(r) == \A s \in Runs \ {r} : Follows(run[s], run'[s])

\* An update of one run leaves the others alone.
LEMMA SetOthers ==
  ASSUME TypedRuns, NEW r \in Runs, NEW rec \in RunRecord, Set(r, rec)
  PROVE  TypedRuns' /\ Others(r) /\ run'[r] = rec
<1>1. TypedRuns'
  BY SetTyped
<1>2. \A s \in Runs : run'[s] = IF s = r THEN rec ELSE run[s]
  BY DEF TypedRuns, Set
<1> QED BY <1>1, <1>2 DEF Others, Follows, SameFindings, Continues

\* What a starting caller changes.
LEMMA StartRunShape ==
  ASSUME TypedRuns, NEW r \in Runs, StartRun(r)
  PROVE  /\ TypedRuns' /\ Others(r)
         /\ SameFindings(run[r], run'[r]) /\ run'[r].pc = "list"
<1> DEFINE rec == [run[r] EXCEPT !.pc = "list"]
<1>1. run[r] \in RunRecord /\ "list" \in Phases
  BY DEF TypedRuns, Phases, ResolvePhases
<1>2. rec \in RunRecord
  BY <1>1, RecordUpdates DEF Statuses
<1>3. SameFindings(run[r], rec) /\ rec.pc = "list"
  BY <1>1 DEF RunRecord, SameFindings
<1>4. Set(r, rec)
  BY DEF StartRun, Goto
<1> QED BY <1>2, <1>3, <1>4, SetOthers

\* What the refresh of the pull request changes.
LEMMA RefreshShape ==
  ASSUME TypedRuns, NEW r \in Runs, TypeOK, RefreshPullRequest(r)
  PROVE  /\ TypedRuns'
         /\ \/ Steady
            \/ /\ Others(r)
               /\ run'[r].pc = "checks"
               /\ run'[r].head = run[r].head /\ run[r].head = head
               /\ run'[r].compliant = run[r].compliant
               /\ run'[r].reviewed = run[r].reviewed
               /\ run'[r].approved => label
<1> DEFINE rec == [run[r] EXCEPT !.pc = "checks", !.approved = label]
<1>1. CASE run[r].head # head
  BY <1>1, EndSteady DEF RefreshPullRequest, Statuses
<1>2. CASE run[r].head = head
  <2>1. run[r] \in RunRecord /\ "checks" \in Phases
    BY DEF TypedRuns, Phases, ResolvePhases
  <2>2. rec \in RunRecord
    BY <2>1, RecordUpdates DEF Statuses, TypeOK
  <2>3. /\ rec.pc = "checks" /\ rec.head = run[r].head /\ rec.approved = label
        /\ rec.compliant = run[r].compliant /\ rec.reviewed = run[r].reviewed
    BY <2>1 DEF RunRecord
  <2>4. Set(r, rec)
    BY <1>2 DEF RefreshPullRequest
  <2> HIDE DEF rec
  <2> QED BY <1>2, <2>2, <2>3, <2>4, SetOthers
<1> QED BY <1>1, <1>2

\* What the query of the check runs changes.
LEMMA ReadCheckRunsShape ==
  ASSUME TypedRuns, NEW r \in Runs, ReadCheckRuns(r)
  PROVE  /\ TypedRuns' /\ Others(r)
         /\ run'[r].pc = "artifacts"
         /\ run'[r].head = run[r].head /\ run'[r].compliant = run[r].compliant
         /\ run'[r].approved = run[r].approved
         /\ run'[r].reviewed = HasVerdictCheck(run[r].head)
<1> DEFINE found == HasVerdictCheck(run[r].head)
           rec == [run[r] EXCEPT !.pc = "artifacts", !.reviewed = found]
<1>1. run[r] \in RunRecord /\ "artifacts" \in Phases /\ found \in BOOLEAN
  BY DEF TypedRuns, Phases, ResolvePhases, HasVerdictCheck
<1> HIDE DEF found
<1>2. rec \in RunRecord
  BY <1>1, RecordUpdates DEF Statuses
<1>3. /\ rec.pc = "artifacts" /\ rec.head = run[r].head
      /\ rec.compliant = run[r].compliant
      /\ rec.approved = run[r].approved /\ rec.reviewed = found
  BY <1>1 DEF RunRecord
<1>4. Set(r, rec)
  BY DEF ReadCheckRuns, found
<1> HIDE DEF rec
<1> QED BY <1>2, <1>3, <1>4, SetOthers DEF found

\* What the query of the artifacts changes.
LEMMA ReadArtifactsShape ==
  ASSUME TypedRuns, NEW r \in Runs, ReadArtifacts(r)
  PROVE  /\ TypedRuns' /\ Others(r)
         /\ run'[r].pc = "route"
         /\ run'[r].head = run[r].head /\ run'[r].compliant = run[r].compliant
         /\ run'[r].approved = run[r].approved
         /\ run'[r].reviewed <=> run[r].reviewed /\ HasVerdictRecord(run[r].head)
<1> DEFINE found == run[r].reviewed /\ HasVerdictRecord(run[r].head)
           rec == [run[r] EXCEPT !.pc = "route", !.reviewed = found]
<1>1. run[r] \in RunRecord /\ "route" \in Phases /\ found \in BOOLEAN
  BY DEF TypedRuns, Phases, ResolvePhases
<1> HIDE DEF found
<1>2. rec \in RunRecord
  BY <1>1, RecordUpdates DEF Statuses
<1>3. /\ rec.pc = "route" /\ rec.head = run[r].head
      /\ rec.compliant = run[r].compliant
      /\ rec.approved = run[r].approved /\ rec.reviewed = found
  BY <1>1 DEF RunRecord
<1>4. Set(r, rec)
  BY DEF ReadArtifacts, found
<1> HIDE DEF rec
<1> QED BY <1>2, <1>3, <1>4, SetOthers DEF found

\* What entering the review group changes.
LEMMA JoinShape ==
  ASSUME TypedRuns, NEW r \in Runs, JoinReviewGroup(r)
  PROVE  /\ TypedRuns' /\ Others(r)
         /\ SameFindings(run[r], run'[r]) /\ run'[r].pc = "queued"
<1>1. \A s \in Runs : run[s] \in RunRecord
  BY DEF TypedRuns
<1>2. ASSUME NEW x \in RunRecord
      PROVE  /\ [x EXCEPT !.pc = "queued"] \in RunRecord
             /\ [x EXCEPT !.pc = "ended", !.status = "cancelled"] \in RunRecord
             /\ [x EXCEPT !.cancelled = TRUE] \in RunRecord
  BY RecordUpdates DEF Phases, Statuses
<1>3. ASSUME NEW x \in RunRecord
      PROVE  /\ SameFindings(x, [x EXCEPT !.pc = "queued"])
             /\ [x EXCEPT !.pc = "queued"].pc = "queued"
             /\ Follows(x, [x EXCEPT !.pc = "ended", !.status = "cancelled"])
             /\ Follows(x, [x EXCEPT !.cancelled = TRUE])
             /\ Follows(x, x)
  BY DEF RunRecord, Follows, SameFindings, Continues, Ready
<1>4. TypedRuns'
  BY <1>1, <1>2 DEF JoinReviewGroup, TypedRuns
<1>5. Others(r)
  BY <1>1, <1>3 DEF JoinReviewGroup, Others
<1>6. SameFindings(run[r], run'[r]) /\ run'[r].pc = "queued"
  BY <1>1, <1>3 DEF JoinReviewGroup
<1> QED BY <1>4, <1>5, <1>6

-----------------------------------------------------------------------------
(* Type correctness.  The type invariant is not inductive by itself: that an *)
(* uploaded record carries a verdict rests on Ready, and that a completed    *)
(* scan can start a caller run on the bound of the counter.                  *)

TypeInv ==
  /\ TypeOK
  /\ \A r \in Runs : Ready(run[r])
  /\ scan # 0 => nruns < MaxRuns

\* The initial states are well typed.
LEMMA TypeInit == Init => TypeInv
<1> SUFFICES ASSUME Init PROVE TypeInv
  OBVIOUS
<1>1. TypedRuns
  BY NoRunTyped DEF Init, TypedRuns
<1>2. \A r \in Runs : Ready(run[r])
  BY DEF Init, Ready, NoRun
<1>3. 0 < MaxRuns /\ 1 \in Heads /\ 1 \in 0..MaxHead /\ 0 \in 0..MaxRuns
  BY PipelineAssumption DEF PipelineAssumption, Heads
<1>4. /\ checks \subseteq CheckRecord /\ records \subseteq VerdictRecord
      /\ passed \subseteq Heads /\ labelled \subseteq Heads
      /\ label \in BOOLEAN /\ head = 1 /\ scan = 1 /\ nruns = 0
  BY DEF Init
<1> QED BY <1>1, <1>2, <1>3, <1>4 DEF TypeInv, TypeOK, TypedRuns

ScanTyped ==
  nruns \in 0..MaxRuns /\ scan \in 0..MaxHead /\ (scan # 0 => nruns < MaxRuns)

\* A pull request event starts at most one caller run.
LEMMA StartScanSteady ==
  ASSUME TypeInv, NEW h \in Heads, StartScan(h)
  PROVE  TypedRuns' /\ Steady /\ ScanTyped'
<1>1. TypedRuns /\ nruns \in 0..MaxRuns
  BY DEF TypeInv, TypeOK, TypedRuns
<1>2. scan' \in 0..MaxHead
  BY PipelineAssumption DEF PipelineAssumption, StartScan, Heads
<1>3. CASE scan = 0
  <2>1. UNCHANGED <<nruns, run>> /\ nruns < MaxRuns
    BY <1>3 DEF StartScan
  <2> QED BY <1>1, <1>2, <2>1
          DEF TypedRuns, Steady, Follows, SameFindings, Continues, ScanTyped
<1>4. CASE scan # 0
  <2>1. scan \in Heads /\ nruns < MaxRuns /\ nruns + 1 < MaxRuns
    BY <1>1, <1>4, PipelineAssumption
       DEF PipelineAssumption, TypeInv, TypeOK, StartScan, Heads
  <2>2. StartCaller(scan, FALSE)
    BY <1>4 DEF StartScan
  <2>3. nruns' = nruns + 1
    BY <2>2, Zenon DEF StartCaller
  <2> QED BY <1>1, <1>2, <2>1, <2>2, <2>3, StartCallerSteady DEF ScanTyped
<1> QED BY <1>3, <1>4

\* Pushes, edits and labels keep the types and every run.
LEMMA EventsSteady ==
  ASSUME TypeInv, Events
  PROVE  TypedRuns' /\ Steady /\ ScanTyped'
<1>1. head \in Heads
  BY DEF TypeInv, TypeOK
<1>2. CASE Push
  <2>1. head + 1 \in Heads
    BY <1>1, <1>2, PipelineAssumption DEF PipelineAssumption, Push, Heads
  <2> QED BY <1>2, <2>1, StartScanSteady DEF Push
<1>3. CASE Edit
  BY <1>1, <1>3, StartScanSteady DEF Edit
<1>4. CASE AddLabel
  BY <1>1, <1>4, StartScanSteady DEF AddLabel
<1>5. CASE RemoveLabel \/ ExpireRecord
  <2>1. UNCHANGED <<scan, nruns, run>>
    BY <1>5 DEF RemoveLabel, ExpireRecord
  <2> QED BY <2>1 DEF TypeInv, TypeOK, TypedRuns, ScanTyped, Steady, Follows,
                      SameFindings, Continues
<1> QED BY <1>2, <1>3, <1>4, <1>5 DEF Events

\* The end of a compliance scan keeps the types and every run.
LEMMA FinishScanSteady ==
  ASSUME TypeInv, FinishScan
  PROVE  TypedRuns' /\ Steady /\ ScanTyped'
<1>1. PICK ok \in BOOLEAN :
        /\ passed' = IF ok THEN passed \cup {scan} ELSE passed
        /\ StartCaller(scan, ok)
  BY DEF FinishScan
<1>2. scan \in Heads /\ nruns < MaxRuns /\ nruns \in 0..MaxRuns /\ TypedRuns
  BY PipelineAssumption
     DEF PipelineAssumption, TypeInv, TypeOK, TypedRuns, FinishScan, Heads
<1>3. scan' = 0 /\ 0 \in 0..MaxHead
  BY PipelineAssumption DEF PipelineAssumption, FinishScan
<1>4. ok => scan \in passed'
  BY <1>1
<1> QED BY <1>1, <1>2, <1>3, <1>4, StartCallerSteady DEF ScanTyped

\* Steady steps and decisions keep every run typed and ready.
LEMMA StepReady ==
  ASSUME TypeInv, Next
  PROVE  TypedRuns' /\ \A r \in Runs : Ready(run'[r])
<1>1. TypedRuns /\ TypeOK /\ \A r \in Runs : Ready(run[r])
  BY DEF TypeInv, TypeOK, TypedRuns
<1>2. Steady => \A r \in Runs : Ready(run'[r])
  BY <1>1 DEF Steady, Follows, Fresh, Ready
<1>3. CASE Events \/ FinishScan
  BY <1>2, <1>3, EventsSteady, FinishScanSteady
<1>4. ASSUME NEW r \in Runs, SteadyStep(r)
      PROVE  TypedRuns' /\ \A s \in Runs : Ready(run'[s])
  BY <1>1, <1>2, <1>4, SteadySteps
<1>5. ASSUME NEW r \in Runs, Decision(r)
      PROVE  TypedRuns' /\ \A s \in Runs : Ready(run'[s])
  <2> DEFINE Moved(q) == /\ TypedRuns' /\ Others(r)
                         /\ run'[r].head = run[r].head /\ run'[r].pc = q
  <2>1. \/ TypedRuns' /\ Steady
        \/ run[r].pc \notin {"none", "ended"}
           /\ \E q \in {"list", "checks", "artifacts", "route", "queued"} : Moved(q)
    <3>1. CASE StartRun(r)
      <4>1. Moved("list")
        BY <1>1, <3>1, StartRunShape DEF SameFindings
      <4> QED BY <3>1, <4>1 DEF StartRun
    <3>2. CASE RefreshPullRequest(r)
      <4>1. TypedRuns' /\ (Steady \/ Moved("checks"))
        BY <1>1, <3>2, RefreshShape
      <4> QED BY <3>2, <4>1 DEF RefreshPullRequest
    <3>3. CASE ReadCheckRuns(r)
      BY <1>1, <3>3, ReadCheckRunsShape DEF ReadCheckRuns
    <3>4. CASE ReadArtifacts(r)
      BY <1>1, <3>4, ReadArtifactsShape DEF ReadArtifacts
    <3>5. CASE JoinReviewGroup(r)
      BY <1>1, <3>5, JoinShape DEF JoinReviewGroup, SameFindings
    <3> QED BY <1>5, <3>1, <3>2, <3>3, <3>4, <3>5 DEF Decision
  <2>2. ASSUME NEW q \in {"list", "checks", "artifacts", "route", "queued"}, Moved(q),
               run[r].pc \notin {"none", "ended"}
        PROVE  TypedRuns' /\ \A s \in Runs : Ready(run'[s])
    BY <1>1, <2>2 DEF Others, Follows, Ready
  <2> QED BY <1>2, <2>1, <2>2
<1> QED BY <1>3, <1>4, <1>5, NextSteps

\* A run that holds a step has a head revision.
LEMMA RunHead ==
  ASSUME TypeInv, NEW r \in Runs, run[r].pc \notin {"none", "ended"}
  PROVE  run[r].head \in Heads
<1>1. run[r].head \in 0..MaxHead
  BY DEF TypeInv, TypeOK, RunRecord
<1>2. run[r].head # 0
  BY DEF TypeInv, Ready
<1> QED BY <1>1, <1>2, PipelineAssumption DEF PipelineAssumption, Heads

\* Every step but the two that publish leaves checks and records alone, up to
\* the expiry of a record.
LEMMA UploadTyped ==
  ASSUME TypeInv, NEW r \in Runs, UploadRecord(r)
  PROVE  records' \subseteq VerdictRecord
<1>1. run[r].head \in Heads /\ run[r].verdict \in Verdicts
  BY RunHead DEF UploadRecord, TypeInv, Ready
<1>2. [head |-> run[r].head, run |-> r, verdict |-> run[r].verdict, expired |-> FALSE]
        \in VerdictRecord
  BY <1>1 DEF VerdictRecord
<1> QED BY <1>2 DEF UploadRecord, TypeInv, TypeOK

\* A published check is a check record.
LEMMA PublishTyped ==
  ASSUME TypeInv, NEW r \in Runs, PublishCheck(r)
  PROVE  checks' \subseteq CheckRecord
<1> DEFINE conclusion == IF run[r].status = "success" THEN "success" ELSE "failure"
<1>1. run[r].head \in Heads
  BY RunHead DEF PublishCheck
<1>2. run[r].verdict \in Verdicts \cup {"none"}
  BY DEF TypeInv, TypeOK, RunRecord
<1>3. ASSUME NEW readable \in Spacing(r)
      PROVE  [head |-> run[r].head, run |-> r, verdict |-> run[r].verdict,
              conclusion |-> conclusion, readable |-> readable] \in CheckRecord
  BY <1>1, <1>2, <1>3 DEF CheckRecord, Spacing
<1> QED BY <1>3 DEF PublishCheck, TypeInv, TypeOK

\* An expired record is still a record.
LEMMA ExpireTyped ==
  ASSUME TypeInv, ExpireRecord
  PROVE  records' \subseteq VerdictRecord
<1>1. ASSUME NEW a \in VerdictRecord
      PROVE  [a EXCEPT !.expired = TRUE] \in VerdictRecord
  BY DEF VerdictRecord
<1> QED BY <1>1 DEF ExpireRecord, TypeInv, TypeOK

\* A step of a run touches the shared state only to upload or to publish.
LEMMA RunStepFrame ==
  ASSUME NEW r \in Runs, SteadyStep(r) \/ Decision(r)
  PROVE  /\ UNCHANGED <<head, label, scan, nruns, passed, labelled>>
         /\ UNCHANGED records \/ UploadRecord(r)
         /\ UNCHANGED checks \/ PublishCheck(r)
BY DEF SteadyStep, Decision, RunOnly, StartRun, ListPullRequests,
       RefreshPullRequest, ReadCheckRuns, ReadArtifacts, JoinReviewGroup,
       SkipReview, StartReview, DecideEnvironment, ResolveMetadata, FetchObjects,
       BuildCase, RunModel, RetryModel, ValidateReport, ParseVerdict, PostComment,
       UploadRecord, FailOnVerdict, PublishCheck, Interrupt, StepFails, LoseRunner

\* Every step keeps the types.
LEMMA TypeStep == TypeInv /\ [Next]_vars => TypeInv'
<1> SUFFICES ASSUME TypeInv, [Next]_vars PROVE TypeInv'
  OBVIOUS
<1>1. CASE UNCHANGED vars
  BY <1>1 DEF vars, TypeInv, TypeOK
<1>2. CASE Next
  <2>1. TypedRuns' /\ \A r \in Runs : Ready(run'[r])
    BY <1>2, StepReady
  <2>2. CASE Events
    <3>1. ScanTyped'
      BY <2>2, EventsSteady
    <3>2. head' \in Heads
      BY <2>2, PipelineAssumption
         DEF PipelineAssumption, Events, Push, Edit, AddLabel, RemoveLabel, ExpireRecord,
             TypeInv, TypeOK, Heads
    <3>3. label' \in BOOLEAN
      BY <2>2, Zenon DEF Events, Push, Edit, AddLabel, RemoveLabel, ExpireRecord, TypeInv, TypeOK
    <3>4. passed' = passed /\ checks' = checks
      BY <2>2 DEF Events, Push, Edit, AddLabel, RemoveLabel, ExpireRecord, StartScan
    <3>5. labelled' \subseteq Heads
      BY <2>2, PipelineAssumption
         DEF PipelineAssumption, Events, Push, Edit, AddLabel, RemoveLabel, ExpireRecord,
             TypeInv, TypeOK, Heads
    <3>6. records' \subseteq VerdictRecord
      BY <2>2, ExpireTyped DEF Events, Push, Edit, AddLabel, RemoveLabel, StartScan,
             TypeInv, TypeOK
    <3> QED BY <2>1, <3>1, <3>2, <3>3, <3>4, <3>5, <3>6
            DEF TypeInv, TypeOK, TypedRuns, ScanTyped
  <2>3. CASE FinishScan
    <3>1. ScanTyped'
      BY <2>3, FinishScanSteady
    <3>2. UNCHANGED <<head, label, checks, records, labelled>>
      BY <2>3 DEF FinishScan
    <3>3. passed' \subseteq Heads
      BY <2>3, PipelineAssumption DEF PipelineAssumption, FinishScan, TypeInv, TypeOK, Heads
    <3> QED BY <2>1, <3>1, <3>2, <3>3 DEF TypeInv, TypeOK, TypedRuns, ScanTyped
  <2>4. ASSUME NEW r \in Runs, SteadyStep(r) \/ Decision(r)
        PROVE  TypeInv'
    <3>1. UNCHANGED <<head, label, scan, nruns, passed, labelled>>
      BY <2>4, RunStepFrame
    <3>2. records' \subseteq VerdictRecord
      BY <2>4, RunStepFrame, UploadTyped DEF TypeInv, TypeOK
    <3>3. checks' \subseteq CheckRecord
      BY <2>4, RunStepFrame, PublishTyped DEF TypeInv, TypeOK
    <3> QED BY <2>1, <3>1, <3>2, <3>3 DEF TypeInv, TypeOK, TypedRuns
  <2> QED BY <1>2, <2>2, <2>3, <2>4, NextSteps
<1> QED BY <1>1, <1>2

\* Every reachable state is typed, and each run between the model call and the
\* upload has what its next step reads (security-review.yml:350-500).
THEOREM TypeInvariant == Spec => []TypeInv
BY TypeInit, TypeStep, PTL DEF Spec

\* The type invariant of the pipeline, for any number of heads, runs and faults.
THEOREM TypeCorrect == Spec => []TypeOK
BY TypeInvariant, PTL DEF TypeInv

-----------------------------------------------------------------------------
(* The fork gate.  A run that is due for review has been judged: what        *)
(* resolve-pr noted about its head is backed by a compliance run and by the  *)
(* label on that same head, whatever was pushed or relabelled since.         *)

Judged(x) ==
  /\ x.compliant => x.head \in passed
  /\ x.approved => x.head \in labelled
  /\ ~SameRepository /\ x.pc \in Gated => x.approved /\ x.compliant

ForkInv ==
  /\ label => head \in labelled
  /\ \A r \in Runs : Judged(run[r])

\* In a step each run follows what it was, is new, or takes a decision.
LEMMA StepCases ==
  ASSUME TypeInv, Next, NEW s \in Runs
  PROVE  Follows(run[s], run'[s]) \/ Fresh(run'[s], passed') \/ Decision(s)
<1>1. TypedRuns /\ TypeOK /\ \A r \in Runs : Ready(run[r])
  BY DEF TypeInv, TypeOK, TypedRuns
<1>2. CASE Events \/ FinishScan
  BY <1>2, EventsSteady, FinishScanSteady DEF Steady
<1>3. ASSUME NEW r \in Runs, SteadyStep(r)
      PROVE  Follows(run[s], run'[s]) \/ Fresh(run'[s], passed')
  BY <1>1, <1>3, SteadySteps DEF Steady
<1>4. ASSUME NEW r \in Runs, Decision(r)
      PROVE  Follows(run[s], run'[s]) \/ Fresh(run'[s], passed') \/ Decision(s)
  <2>1. Others(r) \/ Steady
    BY <1>1, <1>4, StartRunShape, RefreshShape, ReadCheckRunsShape,
       ReadArtifactsShape, JoinShape DEF Decision
  <2> QED BY <1>4, <2>1 DEF Others, Steady
<1> QED BY <1>2, <1>3, <1>4, NextSteps

\* Compliance results and labelled heads are never forgotten, and the label
\* is only ever on a head that is noted as labelled.
LEMMA JudgementsLast ==
  ASSUME TypeInv, ForkInv, Next
  PROVE  /\ passed \subseteq passed' /\ labelled \subseteq labelled'
         /\ label' => head' \in labelled'
<1>1. CASE Events
  <2>1. passed' = passed
    BY <1>1 DEF Events, Push, Edit, AddLabel, RemoveLabel, ExpireRecord, StartScan
  <2>2. labelled \subseteq labelled'
    BY <1>1 DEF Events, Push, Edit, AddLabel, RemoveLabel, ExpireRecord
  <2>3. label' => head' \in labelled'
    <3>1. CASE Push
      <4>1. label' = label /\ head' = head + 1
            /\ labelled' = IF label THEN labelled \cup {head + 1} ELSE labelled
        BY <3>1 DEF Push
      <4> QED BY <4>1, Zenon
    <3>2. CASE AddLabel
      BY <3>2 DEF AddLabel
    <3>3. CASE RemoveLabel
      BY <3>3 DEF RemoveLabel
    <3>4. CASE Edit \/ ExpireRecord
      <4>1. label' = label /\ head' = head /\ labelled' = labelled
        BY <3>4 DEF Edit, ExpireRecord
      <4> QED BY <4>1, Zenon DEF ForkInv
    <3> QED BY <1>1, <3>1, <3>2, <3>3, <3>4 DEF Events
  <2> QED BY <2>1, <2>2, <2>3
<1>2. CASE FinishScan
  BY <1>2 DEF FinishScan, ForkInv
<1>3. ASSUME NEW r \in Runs, SteadyStep(r) \/ Decision(r)
      PROVE  UNCHANGED <<head, label, passed, labelled>>
  BY <1>3, RunStepFrame
<1> QED BY <1>1, <1>2, <1>3, NextSteps DEF ForkInv

\* No run has passed the fork gate initially.
LEMMA ForkInit == Init => ForkInv
BY DEF Init, ForkInv, Judged, NoRun, Gated, JobPhases, StepPhases, ModelPhases, TailPhases

\* Every step keeps the invariant of the fork gate.
LEMMA ForkStep == TypeInv /\ ForkInv /\ [Next]_vars => ForkInv'
<1> SUFFICES ASSUME TypeInv, ForkInv, [Next]_vars PROVE ForkInv'
  OBVIOUS
<1>1. CASE UNCHANGED vars
  BY <1>1 DEF vars, ForkInv, Judged
<1>2. CASE Next
  <2>1. passed \subseteq passed' /\ labelled \subseteq labelled' /\ (label' => head' \in labelled')
    BY <1>2, JudgementsLast
  <2>2. ASSUME NEW s \in Runs PROVE Judged(run[s])'
    <3>0. TypedRuns /\ TypeOK /\ Judged(run[s])
      BY DEF TypeInv, TypeOK, TypedRuns, ForkInv
    <3>1. CASE Follows(run[s], run'[s])
      <4>1. run'[s].pc \in Gated => run[s].pc \in Gated
        BY <3>1 DEF Follows, Continues, Gated, JobPhases, StepPhases, ModelPhases, TailPhases
      <4> QED BY <2>1, <3>0, <3>1, <4>1 DEF Follows, SameFindings, Judged
    <3>2. CASE Fresh(run'[s], passed')
      BY <3>2 DEF Fresh, Judged, Gated, JobPhases, StepPhases, ModelPhases, TailPhases
    <3>3. CASE StartRun(s)
      <4>1. run'[s].pc \notin Gated
        BY <3>0, <3>3, StartRunShape DEF Gated, JobPhases, StepPhases, ModelPhases, TailPhases
      <4>2. SameFindings(run[s], run'[s])
        BY <3>0, <3>3, StartRunShape
      <4> QED BY <2>1, <3>0, <4>1, <4>2 DEF SameFindings, Judged
    <3>4. CASE RefreshPullRequest(s) /\ ~Follows(run[s], run'[s]) /\ ~Fresh(run'[s], passed')
      <4>1. /\ run'[s].pc = "checks"
            /\ run'[s].head = run[s].head /\ run[s].head = head
            /\ run'[s].compliant = run[s].compliant
            /\ run'[s].approved => label
        BY <3>0, <3>4, RefreshShape DEF Steady
      <4>2. run'[s].pc \notin Gated
        BY <4>1 DEF Gated, JobPhases, StepPhases, ModelPhases, TailPhases
      <4> QED BY <2>1, <3>0, <4>1, <4>2 DEF Judged, ForkInv
    <3>5. CASE ReadCheckRuns(s) \/ ReadArtifacts(s)
      <4>1. /\ run'[s].pc \in {"artifacts", "route"}
            /\ run'[s].head = run[s].head /\ run'[s].compliant = run[s].compliant
            /\ run'[s].approved = run[s].approved
        BY <3>0, <3>5, ReadCheckRunsShape, ReadArtifactsShape
      <4>2. run'[s].pc \notin Gated
        BY <4>1 DEF Gated, JobPhases, StepPhases, ModelPhases, TailPhases
      <4> QED BY <2>1, <3>0, <4>1, <4>2 DEF Judged
    <3>6. CASE JoinReviewGroup(s)
      <4>1. SameFindings(run[s], run'[s])
        BY <3>0, <3>6, JoinShape
      <4>2. ~SameRepository => run[s].approved /\ run[s].compliant
        BY <3>6 DEF JoinReviewGroup, ReviewDue
      <4> QED BY <2>1, <3>0, <4>1, <4>2 DEF SameFindings, Judged
    <3> QED BY <1>2, <3>1, <3>2, <3>3, <3>4, <3>5, <3>6, StepCases DEF Decision
  <2> QED BY <2>1, <2>2 DEF ForkInv
<1> QED BY <1>1, <1>2

\* The invariant of the fork gate implies the property.
LEMMA ForkInvGates == ForkInv => ForkGate
BY DEF ForkInv, Judged, ForkGate, Gated, JobPhases

\* A fork head reaches the model only if that head passed Immutable Compliance
\* and carried safe-to-review while it was current (security-review-pr.yml:66-103
\* and 211-214), for any number of pushes, label changes and concurrent runs.
THEOREM ForkGateHolds == Spec => []ForkGate
<1>1. Spec => []ForkInv
  BY TypeInvariant, ForkInit, ForkStep, PTL DEF Spec
<1> QED BY <1>1, ForkInvGates, PTL

-----------------------------------------------------------------------------
(* No second review.  What resolve-pr read stays true until the review is    *)
(* over: the caller group leaves at most one run of a head in progress, and  *)
(* only a run in progress adds a check or a record for its head.             *)

OneActive ==
  \A r, s \in Runs : Active(r) /\ Active(s) /\ run[r].head = run[s].head => r = s

Found(x) ==
  /\ x.pc = "artifacts" /\ ~x.reviewed => ~HasVerdictCheck(x.head)
  /\ x.pc = "route" /\ ~x.reviewed => ~Reviewed(x.head)
  /\ x.pc \in Ahead => ~Reviewed(x.head)

ReviewInv == OneActive /\ \A r \in Runs : Found(run[r])

\* A run in progress was in progress before, for the same head, or has just
\* taken the caller group of its head.
LEMMA ActiveBefore ==
  ASSUME TypeInv, Next, NEW s \in Runs, run'[s].pc \notin Idle
  PROVE  run'[s].head = run[s].head /\ (run[s].pc \notin Idle \/ StartRun(s))
<1>1. TypedRuns /\ TypeOK
  BY DEF TypeInv, TypeOK, TypedRuns
<1>2. CASE Follows(run[s], run'[s])
  BY <1>2 DEF Follows, SameFindings, Continues, Idle
<1>3. CASE Fresh(run'[s], passed')
  BY <1>3 DEF Fresh, Idle
<1>4. CASE Decision(s) /\ ~Follows(run[s], run'[s]) /\ ~Fresh(run'[s], passed')
  <2>1. StartRun(s) \/ run[s].pc \notin Idle
    BY <1>4 DEF Decision, RefreshPullRequest, ReadCheckRuns, ReadArtifacts,
                JoinReviewGroup, Idle
  <2>2. CASE RefreshPullRequest(s)
    BY <1>1, <1>4, <2>1, <2>2, RefreshShape DEF Steady
  <2> QED BY <1>1, <1>4, <2>1, <2>2, StartRunShape, ReadCheckRunsShape,
             ReadArtifactsShape, JoinShape DEF Decision, SameFindings
<1> QED BY <1>2, <1>3, <1>4, StepCases

\* The start of a run is the only step of its kind: all others follow.
LEMMA StartRunAlone ==
  ASSUME TypeInv, NEW r \in Runs, NEW s \in Runs, s # r, StartRun(r),
         run[s].head = run[r].head
  PROVE  run'[s].pc \in Idle
<1>1. Follows(run[s], run'[s])
  BY StartRunShape DEF TypeInv, TypeOK, TypedRuns, Others
<1>2. run[s].pc \in Idle
  BY DEF StartRun, Active, Idle
<1> QED BY <1>1, <1>2 DEF Follows, Continues, Idle

\* Every step keeps one active run per head.
LEMMA OneActiveStep ==
  ASSUME TypeInv, OneActive, Next
  PROVE  OneActive'
<1> SUFFICES ASSUME NEW r \in Runs, NEW s \in Runs, r # s,
                    run'[r].pc \notin Idle, run'[s].pc \notin Idle,
                    run'[r].head = run'[s].head
             PROVE  FALSE
  BY DEF OneActive, Active, Idle
<1>1. run[r].head = run[s].head
  BY ActiveBefore
<1>2. ~StartRun(r) /\ ~StartRun(s)
  BY <1>1, StartRunAlone
<1>3. run[r].pc \notin Idle /\ run[s].pc \notin Idle
  BY <1>2, ActiveBefore
<1> QED BY <1>1, <1>3 DEF OneActive, Active, Idle

\* Uploading and publishing end the phases in which a review can be due.
LEMMA UploadMoves ==
  ASSUME TypedRuns, NEW r \in Runs, UploadRecord(r)
  PROVE  run[r].pc = "record" /\ run'[r].pc = "gate"
<1>1. run[r] \in RunRecord
  BY DEF TypedRuns
<1>2. /\ [run[r] EXCEPT !.pc = "gate"].pc = "gate"
      /\ [run[r] EXCEPT !.pc = "gate", !.status = "failure"].pc = "gate"
  BY <1>1 DEF RunRecord
<1> QED BY <1>2 DEF UploadRecord, Goto, Set, TypedRuns

\* A publication ends its run.
LEMMA PublishMoves ==
  ASSUME TypedRuns, NEW r \in Runs, PublishCheck(r)
  PROVE  run[r].pc = "publish" /\ run'[r].pc = "ended"
<1>1. run[r] \in RunRecord
  BY DEF TypedRuns
<1>2. [run[r] EXCEPT !.pc = "ended"].pc = "ended"
  BY <1>1 DEF RunRecord
<1> QED BY <1>2 DEF PublishCheck, Goto, Set, TypedRuns

\* While a run for a head is in progress, only its own upload or publication
\* gives that head a first check or record.
LEMMA HistoryStands ==
  ASSUME TypeInv, OneActive, Next, NEW h, NEW s \in Runs, run[s].head = h,
         run[s].pc \notin Idle, ~UploadRecord(s), ~PublishCheck(s)
  PROVE  /\ HasVerdictCheck(h)' => HasVerdictCheck(h)
         /\ HasVerdictRecord(h)' => HasVerdictRecord(h)
<1>1. TypedRuns
  BY DEF TypeInv, TypeOK, TypedRuns
<1>2. CASE Events
  <2>1. checks' = checks
    BY <1>2 DEF Events, Push, Edit, AddLabel, RemoveLabel, ExpireRecord, StartScan
  <2>2. CASE ExpireRecord
    <3>1. PICK a \in records :
            records' = (records \ {a}) \cup {[a EXCEPT !.expired = TRUE]}
      BY <2>2 DEF ExpireRecord
    <3>2. a \in VerdictRecord
      BY DEF TypeInv, TypeOK
    <3>3. [a EXCEPT !.expired = TRUE].expired = TRUE
      BY <3>2 DEF VerdictRecord
    <3> QED BY <2>1, <3>1, <3>3 DEF HasVerdictCheck, HasVerdictRecord
  <2>3. CASE ~ExpireRecord
    <3>1. records' = records
      BY <1>2, <2>3 DEF Events, Push, Edit, AddLabel, RemoveLabel, StartScan
    <3> QED BY <2>1, <3>1 DEF HasVerdictCheck, HasVerdictRecord
  <2> QED BY <2>2, <2>3
<1>3. CASE FinishScan
  BY <1>3 DEF FinishScan, HasVerdictCheck, HasVerdictRecord
<1>4. ASSUME NEW r \in Runs, SteadyStep(r) \/ Decision(r)
      PROVE  /\ HasVerdictCheck(h)' => HasVerdictCheck(h)
             /\ HasVerdictRecord(h)' => HasVerdictRecord(h)
  <2>1. CASE UploadRecord(r)
    <3>1. run[r].head # h
      BY <1>1, <2>1, UploadMoves DEF OneActive, Active, Idle
    <3>2. checks' = checks
      BY <2>1 DEF UploadRecord
    <3>3. \A a \in records' : a \in records \/ a.head = run[r].head
      BY <2>1 DEF UploadRecord
    <3> QED BY <3>1, <3>2, <3>3 DEF HasVerdictCheck, HasVerdictRecord
  <2>2. CASE PublishCheck(r)
    <3>1. run[r].head # h
      BY <1>1, <2>2, PublishMoves DEF OneActive, Active, Idle
    <3>2. records' = records
      BY <2>2 DEF PublishCheck
    <3>3. \A c \in checks' : c \in checks \/ c.head = run[r].head
      BY <2>2 DEF PublishCheck
    <3> QED BY <3>1, <3>2, <3>3 DEF HasVerdictCheck, HasVerdictRecord
  <2>3. CASE ~UploadRecord(r) /\ ~PublishCheck(r)
    <3>1. checks' = checks /\ records' = records
      BY <1>4, <2>3, RunStepFrame
    <3> QED BY <3>1 DEF HasVerdictCheck, HasVerdictRecord
  <2> QED BY <2>1, <2>2, <2>3
<1> QED BY <1>2, <1>3, <1>4, NextSteps

\* The review invariant holds initially.
LEMMA ReviewInit == Init => ReviewInv
<1> SUFFICES ASSUME Init PROVE ReviewInv
  OBVIOUS
<1>1. \A r \in Runs : run[r].pc = "none"
  BY DEF Init, NoRun
<1> QED BY <1>1 DEF ReviewInv, OneActive, Active, Found, Ahead, StepPhases, ModelPhases

\* Where what a run has found still matters, it is in progress and stays so.
LEMMA FoundStep ==
  ASSUME TypeInv, ReviewInv, Next, NEW s \in Runs
  PROVE  Found(run[s])'
<1> DEFINE Open == Ahead \cup {"artifacts", "route"}
           h == run[s].head
<1>1. CASE run'[s].pc \notin Open
  BY <1>1 DEF Found
<1>2. CASE run'[s].pc \in Open
  <2>1. run'[s].pc \notin Idle \cup {"gate", "list", "checks"}
    BY <1>2 DEF Ahead, StepPhases, ModelPhases, Idle
  <2>2. TypedRuns /\ TypeOK /\ OneActive /\ Found(run[s])
    BY DEF TypeInv, TypeOK, TypedRuns, ReviewInv
  <2>3. ~StartRun(s)
    BY <2>1, <2>2, StartRunShape
  <2>4. run'[s].head = h /\ run[s].pc \notin Idle
    BY <2>1, <2>3, ActiveBefore
  <2>5. ~UploadRecord(s) /\ ~PublishCheck(s)
    BY <2>1, <2>2, UploadMoves, PublishMoves DEF Idle
  <2>6. /\ HasVerdictCheck(run[s].head)' => HasVerdictCheck(h)
        /\ HasVerdictRecord(run[s].head)' => HasVerdictRecord(h)
    <3>1. ASSUME NEW g, g = h
          PROVE  /\ HasVerdictCheck(g)' => HasVerdictCheck(g)
                 /\ HasVerdictRecord(g)' => HasVerdictRecord(g)
      BY <2>2, <2>4, <2>5, <3>1, HistoryStands
    <3> QED BY <2>4, <3>1 DEF HasVerdictCheck, HasVerdictRecord
  <2>7. Reviewed(run[s].head)' => Reviewed(h)
    BY <2>6 DEF Reviewed
  <2>8. CASE Follows(run[s], run'[s])
    <3>1. run'[s].reviewed = run[s].reviewed
      BY <2>8 DEF Follows, SameFindings
    <3>2. \/ run'[s].pc = run[s].pc
          \/ run'[s].pc \in Ahead /\ run[s].pc \in Ahead
      BY <1>2, <2>1, <2>8 DEF Follows, Continues, Idle
    <3>3. run'[s].pc \in Ahead => ~Reviewed(run[s].head)'
      BY <2>2, <2>7, <3>2 DEF Found
    <3>4. run'[s].pc = "artifacts" /\ ~run'[s].reviewed => ~HasVerdictCheck(run[s].head)'
      BY <2>2, <2>6, <3>1, <3>2 DEF Found, Ahead, StepPhases, ModelPhases
    <3>5. run'[s].pc = "route" /\ ~run'[s].reviewed => ~Reviewed(run[s].head)'
      BY <2>2, <2>7, <3>1, <3>2 DEF Found, Ahead, StepPhases, ModelPhases
    <3> QED BY <3>3, <3>4, <3>5 DEF Found
  <2>9. CASE Fresh(run'[s], passed')
    BY <2>1, <2>9 DEF Fresh, Idle
  <2>10. CASE RefreshPullRequest(s)
    BY <2>1, <2>2, <2>8, <2>9, <2>10, RefreshShape DEF Steady
  <2>11. CASE ReadCheckRuns(s)
    <3>1. run'[s].pc = "artifacts" /\ run'[s].reviewed = HasVerdictCheck(h)
      BY <2>2, <2>11, ReadCheckRunsShape
    <3> QED BY <2>6, <3>1 DEF Found, Ahead, StepPhases, ModelPhases
  <2>12. CASE ReadArtifacts(s)
    <3>1. /\ run'[s].pc = "route"
          /\ run'[s].reviewed <=> run[s].reviewed /\ HasVerdictRecord(h)
      BY <2>2, <2>12, ReadArtifactsShape
    <3>2. ~run[s].reviewed => ~HasVerdictCheck(h)
      BY <2>2, <2>12 DEF Found, ReadArtifacts
    <3>3. ~run'[s].reviewed => ~Reviewed(h)
      BY <3>1, <3>2 DEF Reviewed
    <3> QED BY <2>7, <3>1, <3>3 DEF Found, Ahead, StepPhases, ModelPhases
  <2>13. CASE JoinReviewGroup(s)
    <3>1. run'[s].pc = "queued"
      BY <2>2, <2>13, JoinShape
    <3>2. ~Reviewed(h)
      BY <2>2, <2>13 DEF JoinReviewGroup, ReviewDue, Found
    <3>3. ~Reviewed(run[s].head)'
      BY <2>7, <3>2
    <3> QED BY <3>1, <3>3 DEF Found
  <2> QED BY <2>3, <2>8, <2>9, <2>10, <2>11, <2>12, <2>13, StepCases DEF Decision
<1> QED BY <1>1, <1>2

\* Every step keeps the review invariant.
LEMMA ReviewStep == TypeInv /\ ReviewInv /\ [Next]_vars => ReviewInv'
<1> SUFFICES ASSUME TypeInv, ReviewInv, [Next]_vars PROVE ReviewInv'
  OBVIOUS
<1>1. CASE UNCHANGED vars
  BY <1>1 DEF vars, ReviewInv, OneActive, Active, Found, Reviewed, HasVerdictCheck,
              HasVerdictRecord
<1>2. CASE Next
  BY <1>2, OneActiveStep, FoundStep DEF ReviewInv
<1> QED BY <1>1, <1>2

\* While a head has a check whose verdict the caller can read and an unexpired
\* verdict record, no job prepares or makes a model call for it
\* (security-review-pr.yml:8-10, 105-175 and 190), for any number of runs and
\* whatever fails or expires.
THEOREM NoSecondReviewHolds == Spec => []NoSecondReview
<1>1. Spec => []ReviewInv
  BY TypeInvariant, ReviewInit, ReviewStep, PTL DEF Spec
<1>2. ReviewInv => NoSecondReview
  BY DEF ReviewInv, Found, NoSecondReview, Ahead
<1> QED BY <1>1, <1>2, PTL

-----------------------------------------------------------------------------
(* A settled head.  A run past the model call has either found its head not  *)
(* reviewed, which only its own upload and publication can change, or it has *)
(* uploaded a record.                                                        *)

OwnRecord(r) == \E a \in records : a.run = r

Entitled(r) ==
  run[r].pc \in TailPhases => ~Reviewed(run[r].head) \/ OwnRecord(r)

SettledInv == \A r \in Runs : Entitled(r)

\* Records are never deleted: an expired one keeps its head, run and verdict.
LEMMA RecordsLast ==
  ASSUME TypeInv, Next, NEW a \in records
  PROVE  \E b \in records' : b.head = a.head /\ b.run = a.run /\ b.verdict = a.verdict
<1>1. CASE Events
  <2>1. CASE ExpireRecord
    <3>1. PICK e \in records :
            records' = (records \ {e}) \cup {[e EXCEPT !.expired = TRUE]}
      BY <2>1 DEF ExpireRecord
    <3>2. e \in VerdictRecord
      BY DEF TypeInv, TypeOK
    <3>3. LET b == [e EXCEPT !.expired = TRUE]
          IN  b.head = e.head /\ b.run = e.run /\ b.verdict = e.verdict
      BY <3>2 DEF VerdictRecord
    <3> QED BY <3>1, <3>3
  <2>2. CASE ~ExpireRecord
    BY <1>1, <2>2 DEF Events, Push, Edit, AddLabel, RemoveLabel, StartScan
  <2> QED BY <2>1, <2>2
<1>2. CASE FinishScan
  BY <1>2 DEF FinishScan
<1>3. ASSUME NEW r \in Runs, SteadyStep(r) \/ Decision(r)
      PROVE  records \subseteq records'
  BY <1>3, RunStepFrame DEF UploadRecord
<1> QED BY <1>1, <1>2, <1>3, NextSteps

\* A run enters the tail of its job only from the job's earlier phases.
LEMMA TailBefore ==
  ASSUME TypeInv, Next, NEW s \in Runs, run'[s].pc \in TailPhases
  PROVE  /\ run'[s].head = run[s].head
         /\ run[s].pc \in Ahead \cup TailPhases
         /\ run[s].pc \notin Idle
<1>1. TypedRuns /\ TypeOK
  BY DEF TypeInv, TypeOK, TypedRuns
<1>2. CASE Follows(run[s], run'[s])
  <2>1. run'[s].pc \in Gated \ Idle
    BY DEF TailPhases, Gated, JobPhases, Idle
  <2>2. run[s].pc \in Gated
    BY <1>2, <2>1 DEF Follows, Continues, Idle
  <2> QED BY <1>2, <2>2 DEF Follows, SameFindings, Gated, Ahead, JobPhases, Idle,
                            StepPhases, ModelPhases, TailPhases
<1>3. CASE Fresh(run'[s], passed')
  BY <1>3 DEF Fresh, TailPhases
<1>4. CASE Decision(s) /\ ~Follows(run[s], run'[s])
  <2>1. run'[s].pc \in {"list", "checks", "artifacts", "route", "queued"}
        \/ Fresh(run'[s], passed')
    BY <1>1, <1>4, StartRunShape, RefreshShape, ReadCheckRunsShape,
       ReadArtifactsShape, JoinShape DEF Decision, Steady
  <2> QED BY <1>3, <2>1 DEF TailPhases
<1> QED BY <1>2, <1>3, <1>4, StepCases

\* No run has reached its upload initially.
LEMMA SettledInit == Init => SettledInv
BY DEF Init, NoRun, SettledInv, Entitled, TailPhases

\* Every step keeps every run entitled to publish.
LEMMA SettledStep == TypeInv /\ ReviewInv /\ SettledInv /\ [Next]_vars => SettledInv'
<1> SUFFICES ASSUME TypeInv, ReviewInv, SettledInv, [Next]_vars PROVE SettledInv'
  OBVIOUS
<1>1. CASE UNCHANGED vars
  BY <1>1 DEF vars, SettledInv, Entitled, OwnRecord, Reviewed, HasVerdictCheck,
              HasVerdictRecord
<1>2. CASE Next
  <2> SUFFICES ASSUME NEW s \in Runs, run'[s].pc \in TailPhases
               PROVE  ~Reviewed(run[s].head)' \/ OwnRecord(s)'
    BY DEF SettledInv, Entitled
  <2>1. /\ run'[s].head = run[s].head
        /\ run[s].pc \in Ahead \cup TailPhases /\ run[s].pc \notin Idle
    BY <1>2, TailBefore
  <2>2. ~Reviewed(run[s].head) \/ OwnRecord(s)
    BY <2>1 DEF ReviewInv, Found, SettledInv, Entitled
  <2>3. OwnRecord(s) => OwnRecord(s)'
    BY <1>2, RecordsLast DEF OwnRecord
  <2>4. CASE UploadRecord(s)
    <3>1. checks' = checks /\ (records' = records \/ OwnRecord(s)')
      BY <2>4 DEF UploadRecord, OwnRecord
    <3> QED BY <2>1, <2>2, <2>3, <3>1
            DEF Reviewed, HasVerdictCheck, HasVerdictRecord
  <2>5. CASE ~UploadRecord(s)
    <3>1. ~PublishCheck(s)
      BY PublishMoves DEF TypeInv, TypeOK, TypedRuns, TailPhases
    <3>2. ASSUME NEW g, g = run[s].head
          PROVE  /\ HasVerdictCheck(g)' => HasVerdictCheck(g)
                 /\ HasVerdictRecord(g)' => HasVerdictRecord(g)
      BY <1>2, <2>1, <2>5, <3>1, <3>2, HistoryStands DEF ReviewInv
    <3>3. Reviewed(run[s].head)' => Reviewed(run[s].head)
      BY <2>1, <3>2 DEF Reviewed, HasVerdictCheck, HasVerdictRecord
    <3> QED BY <2>2, <2>3, <3>3
  <2> QED BY <2>4, <2>5
<1> QED BY <1>1, <1>2

\* Only a publication adds a check, and it names its run and the run's head.
LEMMA ChecksAdded ==
  ASSUME TypeInv, Next, NEW c \in checks' \ checks
  PROVE  \E r \in Runs :
           /\ PublishCheck(r) /\ c.run = r /\ c.head = run[r].head
           /\ c.verdict = run[r].verdict
           /\ c.conclusion = "success" => run[r].status = "success"
<1>1. ~Events /\ ~FinishScan
  BY DEF Events, Push, Edit, AddLabel, RemoveLabel, ExpireRecord, StartScan, FinishScan
<1>2. PICK r \in Runs : PublishCheck(r)
  BY <1>1, NextSteps, RunStepFrame
<1> QED BY <1>2 DEF PublishCheck

\* Once a head is reviewed its checks are final, whatever runs of it are still
\* in progress: a run that adds a check has uploaded its own verdict record
\* (security-review-pr.yml:105-175, security-review.yml:443-560).
THEOREM SettledHeadHolds == Spec => SettledHead
<1>1. Spec => [](TypeInv /\ ReviewInv /\ SettledInv)
  BY TypeInit, TypeStep, ReviewInit, ReviewStep, SettledInit, SettledStep, PTL DEF Spec
<1>2. TypeInv /\ ReviewInv /\ SettledInv /\ [Next]_vars
        => [\A c \in checks' \ checks :
              Reviewed(c.head) => \E a \in records : a.run = c.run]_vars
  <2> SUFFICES ASSUME TypeInv, SettledInv, Next, NEW c \in checks' \ checks,
                      Reviewed(c.head)
               PROVE  \E a \in records : a.run = c.run
    OBVIOUS
  <2>1. PICK r \in Runs : PublishCheck(r) /\ c.run = r /\ c.head = run[r].head
    BY ChecksAdded
  <2> QED BY <2>1 DEF SettledInv, Entitled, OwnRecord, PublishCheck, TailPhases
<1> QED BY <1>1, <1>2, PTL DEF Spec, SettledHead

-----------------------------------------------------------------------------
(* A green check.  Between the upload and the publication a run that has not *)
(* failed has its record, and has passed the gate on its verdict.            *)

Recorded(x, r) ==
  \E a \in records : a.head = x.head /\ a.run = r /\ a.verdict = x.verdict

Honest(x, r) ==
  x.status = "success" =>
    /\ x.pc \in {"gate", "publish"} => Recorded(x, r)
    /\ x.pc = "publish" => x.verdict = "APPROVE"

GreenInv ==
  /\ \A r \in Runs : Honest(run[r], r)
  /\ \A c \in checks : c.conclusion = "success" =>
       c.verdict = "APPROVE" /\ Recorded(c, c.run)

\* A step that brings no run with success to the gate or to the publication.
Plainly(x, y) ==
  y.status = "success" /\ y.pc \in {"gate", "publish"} =>
    /\ y.pc = x.pc /\ y.status = x.status
    /\ y.head = x.head /\ y.verdict = x.verdict

AllPlain == \A s \in Runs : Plainly(run[s], run'[s])

\* The updates after which a run is not about to publish success.
LEMMA PlainUpdates ==
  ASSUME NEW x \in RunRecord
  PROVE  /\ Plainly(x, x)
         /\ Plainly(x, [x EXCEPT !.cancelled = TRUE])
         /\ \A q : q \notin {"gate", "publish"} =>
              /\ Plainly(x, [x EXCEPT !.pc = q])
              /\ \A t : Plainly(x, [x EXCEPT !.pc = q, !.status = t])
              /\ \A b : /\ Plainly(x, [x EXCEPT !.pc = q, !.reviewed = b])
                        /\ Plainly(x, [x EXCEPT !.pc = q, !.approved = b])
              /\ \A v : /\ Plainly(x, [x EXCEPT !.pc = q, !.response = v])
                        /\ Plainly(x, [x EXCEPT !.pc = q, !.verdict = v])
                        /\ \A t : Plainly(x, [x EXCEPT !.pc = q, !.status = t, !.verdict = v])
         /\ \A t : t # "success" =>
              /\ Plainly(x, [x EXCEPT !.status = t])
              /\ \A q : Plainly(x, [x EXCEPT !.status = t, !.pc = q])
BY DEF RunRecord, Plainly

\* Replacing one run plainly leaves all runs plain.
LEMMA SetPlain ==
  ASSUME TypedRuns, NEW r \in Runs, NEW rec, Set(r, rec), Plainly(run[r], rec)
  PROVE  AllPlain
<1>1. \A s \in Runs : run'[s] = IF s = r THEN rec ELSE run[s]
  BY DEF TypedRuns, Set
<1>2. \A s \in Runs : Plainly(run[s], run[s])
  BY PlainUpdates DEF TypedRuns
<1> QED BY <1>1, <1>2 DEF AllPlain

\* A run that moves to another phase, ends or is aborted publishes no success.
LEMMA MovesPlain ==
  ASSUME TypedRuns, NEW r \in Runs
  PROVE  /\ \A q : Goto(r, q) /\ q \notin {"gate", "publish"} => AllPlain
         /\ \A t : End(r, t) => AllPlain
         /\ \A t : Abort(r, t) /\ t # "success" => AllPlain
         /\ \A v : Set(r, [run[r] EXCEPT !.pc = "validate", !.response = v]) => AllPlain
<1>1. run[r] \in RunRecord
  BY DEF TypedRuns
<1>2. ASSUME NEW t, Abort(r, t), t # "success" PROVE AllPlain
  <2> DEFINE q == IF run[r].pc = "metadata" THEN "ended"
                  ELSE IF run[r].verdict = "none" THEN "publish" ELSE "record"
  <2>1. Set(r, [run[r] EXCEPT !.status = t, !.pc = q])
    BY <1>2 DEF Abort
  <2> HIDE DEF q
  <2>2. Plainly(run[r], [run[r] EXCEPT !.status = t, !.pc = q])
    BY <1>1, <1>2, PlainUpdates
  <2> QED BY <2>1, <2>2, SetPlain
<1>3. ASSUME NEW q, Goto(r, q), q \notin {"gate", "publish"} PROVE AllPlain
  BY <1>1, <1>3, PlainUpdates, SetPlain DEF Goto
<1>4. ASSUME NEW t, End(r, t) PROVE AllPlain
  BY <1>1, <1>4, PlainUpdates, SetPlain DEF End
<1>5. ASSUME NEW v, Set(r, [run[r] EXCEPT !.pc = "validate", !.response = v])
      PROVE  AllPlain
  BY <1>1, <1>5, PlainUpdates, SetPlain
<1> QED BY <1>2, <1>3, <1>4, <1>5

\* A new caller run is at the start, and those it replaces are cancelled.
LEMMA StartCallerPlain ==
  ASSUME TypedRuns, NEW h, NEW ok, StartCaller(h, ok)
  PROVE  AllPlain
<1>1. Plainly(NoRun, [NoRun EXCEPT !.head = h, !.compliant = ok, !.pc = "pending"])
  BY DEF Plainly, NoRun
<1>2. \A x : Plainly(x, [NoRun EXCEPT !.head = h, !.compliant = ok, !.pc = "pending"])
  BY DEF Plainly, NoRun
<1>3. \A s \in Runs : /\ run[s] \in RunRecord
                      /\ Plainly(run[s], run[s])
                      /\ Plainly(run[s], [run[s] EXCEPT !.cancelled = TRUE])
                      /\ Plainly(run[s], [run[s] EXCEPT !.pc = "ended", !.status = "cancelled"])
  BY PlainUpdates DEF TypedRuns
<1>4. SUFFICES ASSUME NEW s \in Runs PROVE Plainly(run[s], run'[s])
  BY DEF AllPlain
<1> QED BY <1>2, <1>3 DEF StartCaller

\* Only the upload and the gate bring a run closer to a green check.
LEMMA StepPlain ==
  ASSUME TypeInv, Next
  PROVE  AllPlain \/ \E r \in Runs : UploadRecord(r) \/ FailOnVerdict(r)
<1>0. TypedRuns /\ \A s \in Runs : Plainly(run[s], run[s])
  BY PlainUpdates DEF TypeInv, TypeOK, TypedRuns
<1>1. CASE Events
  <2>1. run' = run \/ StartCaller(scan, FALSE)
    BY <1>1 DEF Events, Push, Edit, AddLabel, RemoveLabel, ExpireRecord, StartScan
  <2> QED BY <1>0, <2>1, StartCallerPlain DEF AllPlain
<1>2. CASE FinishScan
  BY <1>0, <1>2, StartCallerPlain DEF FinishScan
<1>3. ASSUME NEW r \in Runs, Decision(r) PROVE AllPlain
  <2>0. run[r] \in RunRecord
    BY <1>0 DEF TypedRuns
  <2>1. CASE StartRun(r)
    BY <1>0, <2>1, MovesPlain DEF StartRun
  <2>2. CASE RefreshPullRequest(r)
    BY <1>0, <2>0, <2>2, MovesPlain, PlainUpdates, SetPlain DEF RefreshPullRequest
  <2>3. CASE ReadCheckRuns(r)
    BY <1>0, <2>0, <2>3, PlainUpdates, SetPlain DEF ReadCheckRuns
  <2>4. CASE ReadArtifacts(r)
    BY <1>0, <2>0, <2>4, PlainUpdates, SetPlain DEF ReadArtifacts
  <2>5. CASE JoinReviewGroup(r)
    <3>1. \A s \in Runs :
            /\ Plainly(run[s], [run[s] EXCEPT !.pc = "queued"])
            /\ Plainly(run[s], [run[s] EXCEPT !.pc = "ended", !.status = "cancelled"])
            /\ Plainly(run[s], [run[s] EXCEPT !.cancelled = TRUE])
      BY <1>0, PlainUpdates DEF TypedRuns
    <3> QED BY <1>0, <2>5, <3>1 DEF JoinReviewGroup, AllPlain
  <2> QED BY <1>3, <2>1, <2>2, <2>3, <2>4, <2>5 DEF Decision
<1>4. ASSUME NEW r \in Runs, SteadyStep(r), ~UploadRecord(r), ~FailOnVerdict(r)
      PROVE  AllPlain
  <2>0. run[r] \in RunRecord
    BY <1>0 DEF TypedRuns
  <2>1. CASE \/ ListPullRequests(r) \/ SkipReview(r) \/ StartReview(r)
             \/ DecideEnvironment(r) \/ ResolveMetadata(r) \/ FetchObjects(r)
             \/ PostComment(r) \/ PublishCheck(r) \/ LoseRunner(r)
    BY <1>0, <2>1, MovesPlain
       DEF ListPullRequests, SkipReview, StartReview, DecideEnvironment,
           ResolveMetadata, FetchObjects, PostComment, PublishCheck, LoseRunner
  <2>2. CASE BuildCase(r) \/ RunModel(r) \/ RetryModel(r)
    BY <1>0, <2>2, MovesPlain DEF BuildCase, RunModel, RetryModel, Capacity
  <2>3. CASE ValidateReport(r) \/ StepFails(r)
    BY <1>0, <2>3, MovesPlain DEF ValidateReport, StepFails
  <2>4. CASE ParseVerdict(r)
    BY <1>0, <2>0, <2>4, PlainUpdates, SetPlain DEF ParseVerdict
  <2>5. CASE Interrupt(r)
    BY <1>0, <2>0, <2>5, MovesPlain, PlainUpdates, SetPlain DEF Interrupt
  <2> QED BY <1>4, <2>1, <2>2, <2>3, <2>4, <2>5 DEF SteadyStep
<1> QED BY <1>1, <1>2, <1>3, <1>4, NextSteps

\* A run with success at the gate has uploaded its verdict.
LEMMA UploadHonest ==
  ASSUME TypeInv, GreenInv, NEW r \in Runs, UploadRecord(r)
  PROVE  \A s \in Runs : Honest(run[s], s)'
<1>1. TypedRuns /\ run[r] \in RunRecord
  BY DEF TypeInv, TypeOK, TypedRuns
<1>2. ASSUME NEW s \in Runs \ {r} PROVE run'[s] = run[s]
  BY <1>1, <1>2 DEF TypedRuns, UploadRecord, Goto, Set
<1>3. records \subseteq records'
  BY DEF UploadRecord
<1>4. ASSUME NEW s \in Runs \ {r} PROVE Honest(run[s], s)'
  BY <1>2, <1>3 DEF GreenInv, Honest, Recorded
<1>5. Honest(run[r], r)'
  <2>1. CASE Goto(r, "gate") /\ records' = records \cup
               {[head |-> run[r].head, run |-> r, verdict |-> run[r].verdict,
                 expired |-> FALSE]}
    <3>1. run'[r] = [run[r] EXCEPT !.pc = "gate"]
      BY <1>1, <2>1 DEF TypedRuns, Goto, Set
    <3>2. /\ run'[r].pc = "gate" /\ run'[r].head = run[r].head
          /\ run'[r].verdict = run[r].verdict
      BY <1>1, <3>1 DEF RunRecord
    <3> DEFINE new == [head |-> run[r].head, run |-> r, verdict |-> run[r].verdict,
                       expired |-> FALSE]
    <3>3. new \in records' /\ new.head = run[r].head /\ new.run = r
          /\ new.verdict = run[r].verdict
      BY <2>1
    <3> HIDE DEF new
    <3>4. Recorded(run[r], r)'
      BY <3>2, <3>3 DEF Recorded
    <3> QED BY <3>2, <3>4 DEF Honest
  <2>2. CASE Set(r, [run[r] EXCEPT !.pc = "gate", !.status = "failure"])
    <3>1. run'[r].status = "failure"
      BY <1>1, <2>2 DEF TypedRuns, RunRecord, Set
    <3> QED BY <3>1 DEF Honest
  <2> QED BY <2>1, <2>2 DEF UploadRecord
<1> QED BY <1>4, <1>5

\* The gate lets only an APPROVE verdict keep the success status.
LEMMA GateHonest ==
  ASSUME TypeInv, GreenInv, NEW r \in Runs, FailOnVerdict(r)
  PROVE  \A s \in Runs : Honest(run[s], s)'
<1> DEFINE status == IF run[r].status = "success" /\ run[r].verdict \in Blocking
                       THEN "failure" ELSE run[r].status
<1>1. TypedRuns /\ run[r] \in RunRecord /\ records' = records
  BY DEF TypeInv, TypeOK, TypedRuns, FailOnVerdict, RunOnly
<1>2. run'[r] = [run[r] EXCEPT !.pc = "publish", !.status = status]
  BY <1>1 DEF TypedRuns, FailOnVerdict, Set
<1>3. ASSUME NEW s \in Runs \ {r} PROVE Honest(run[s], s)'
  <2>1. run'[s] = run[s]
    BY <1>1 DEF TypedRuns, FailOnVerdict, Set
  <2> QED BY <1>1, <2>1 DEF GreenInv, Honest, Recorded
<1>4. Honest(run[r], r)'
  <2>1. /\ run'[r].head = run[r].head /\ run'[r].verdict = run[r].verdict
        /\ run'[r].status = status
    BY <1>1, <1>2 DEF RunRecord
  <2>2. status = "success" => run[r].status = "success" /\ run[r].verdict \notin Blocking
    OBVIOUS
  <2>3. run[r].status = "success" => Recorded(run[r], r)
    BY DEF GreenInv, Honest, FailOnVerdict
  <2>4. Recorded(run[r], r) => run[r].verdict \in Verdicts
    BY DEF Recorded, TypeInv, TypeOK, VerdictRecord
  <2> HIDE DEF status
  <2> QED BY <1>1, <2>1, <2>2, <2>3, <2>4 DEF Honest, Recorded, Verdicts, Blocking
<1> QED BY <1>3, <1>4

\* Nothing is green initially.
LEMMA GreenInit == Init => GreenInv
BY DEF Init, NoRun, GreenInv, Honest

\* Every step keeps green honest.
LEMMA GreenStep == TypeInv /\ GreenInv /\ [Next]_vars => GreenInv'
<1> SUFFICES ASSUME TypeInv, GreenInv, [Next]_vars PROVE GreenInv'
  OBVIOUS
<1>1. CASE UNCHANGED vars
  BY <1>1 DEF vars, GreenInv, Honest, Recorded
<1>2. CASE Next
  <2>1. ASSUME NEW x, NEW y, NEW r, y.head = x.head, y.verdict = x.verdict, Recorded(x, r)
        PROVE  \E a \in records' : a.head = y.head /\ a.run = r /\ a.verdict = y.verdict
    BY <1>2, <2>1, RecordsLast DEF Recorded
  <2>2. \A s \in Runs : Honest(run[s], s)'
    <3>1. CASE AllPlain
      <4> SUFFICES ASSUME NEW s \in Runs, run'[s].status = "success",
                          run'[s].pc \in {"gate", "publish"}
                   PROVE  Recorded(run[s], s)' /\ (run'[s].pc = "publish" => run'[s].verdict = "APPROVE")
        BY DEF Honest
      <4>1. /\ run'[s].pc = run[s].pc /\ run'[s].status = run[s].status
            /\ run'[s].head = run[s].head /\ run'[s].verdict = run[s].verdict
        BY <3>1 DEF AllPlain, Plainly
      <4>2. Recorded(run[s], s) /\ (run[s].pc = "publish" => run[s].verdict = "APPROVE")
        BY <4>1 DEF GreenInv, Honest
      <4> QED BY <2>1, <4>1, <4>2 DEF Recorded
    <3> QED BY <1>2, <3>1, StepPlain, UploadHonest, GateHonest, SMTT(30)
  <2>3. ASSUME NEW c \in checks', c.conclusion = "success"
        PROVE  /\ c.verdict = "APPROVE"
               /\ \E a \in records' : a.head = c.head /\ a.run = c.run /\ a.verdict = c.verdict
    <3>1. CASE c \in checks
      BY <2>1, <2>3, <3>1 DEF GreenInv
    <3>2. CASE c \notin checks
      <4>1. PICK r \in Runs :
              /\ PublishCheck(r) /\ c.run = r /\ c.head = run[r].head
              /\ c.verdict = run[r].verdict
              /\ run[r].status = "success"
        BY <1>2, <2>3, <3>2, ChecksAdded
      <4>2. Recorded(run[r], r) /\ run[r].verdict = "APPROVE"
        BY <4>1 DEF GreenInv, Honest, PublishCheck
      <4> QED BY <2>1, <4>1, <4>2
    <3> QED BY <3>1, <3>2
  <2> QED BY <2>2, <2>3 DEF GreenInv, Recorded
<1> QED BY <1>1, <1>2

\* A green check run stems from an APPROVE verdict whose artifact the same run
\* uploaded before (security-review.yml:443-560), whatever step fails, whatever
\* run is cancelled and whichever record expires.
THEOREM GreenMeansApprovedHolds == Spec => []GreenMeansApproved
<1>1. Spec => []GreenInv
  BY TypeInvariant, GreenInit, GreenStep, PTL DEF Spec
<1>2. GreenInv => GreenMeansApproved
  BY DEF GreenInv, Recorded, GreenMeansApproved
<1> QED BY <1>1, <1>2, PTL

=============================================================================
