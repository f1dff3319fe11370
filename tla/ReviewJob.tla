------------------------------ MODULE ReviewJob ------------------------------
(***************************************************************************)
(* The middle of the review job of security-review.yml, from the case text *)
(* to the parsed verdict: DiffCapture builds the case, ModelAdapter makes  *)
(* the one or two model calls, and the report is validated and parsed as   *)
(* ResponseContract says.  Each step that ReviewPipeline takes as a choice *)
(* is here the result of the program the step runs.                        *)
(***************************************************************************)
EXTENDS DiffCapture, ResponseContract

CONSTANTS
  Configs, Sizes, MaxInputChars, CharsPerToken,  \* of ModelAdapter
  NoProfile, Unset, Invalid,
  Answers(_, _)  \* reports a model may give, by registry and input size

VARIABLES
  step,    \* step of the job in progress, or the one that runs next
  failed,  \* a step has failed
  report,  \* lines of response.txt
  line,    \* the line output of the "Parse verdict" step
  config, chars, adapter, call, profile, attempt, sent, overflow, status, answer

Adapter == INSTANCE ModelAdapter WITH pc <- adapter, outcome <- answer

ASSUME RegistriesAreChecked == Adapter!AdapterAssumption

\* The adapter fails on an answer without text.
ASSUME AnswersAreReports ==
  \A c \in Configs : \A n \in Sizes :
    Answers(c, n) \subseteq Seq(ReportLines) \ {<<>>}

caseVars    == vars
adapterVars == <<config, chars, adapter, call, profile, attempt, sent, overflow,
                 status, answer>>
jobVars     == <<caseVars, adapterVars, step, failed, report, line>>

NoLine == Line("none")

JobInit ==
  /\ Init
  /\ step = "case"
  /\ failed = FALSE
  /\ report = <<>>
  /\ line = NoLine
  /\ config = NoProfile
  /\ chars = 0
  /\ adapter = "launch"
  /\ call = 1
  /\ profile = NoProfile
  /\ attempt = 0
  /\ sent = <<>>
  /\ overflow = {}
  /\ status = 0
  /\ answer = "none"

-----------------------------------------------------------------------------
(* The steps of the job *)

Proceed(next) ==
  /\ step' = next
  /\ UNCHANGED failed

\* Only steps under always() follow a failed one: the record of the verdict if
\* there is a verdict line, and the publication.
FailStep(verdictLine) ==
  /\ failed' = TRUE
  /\ step' = IF verdictLine = NoLine THEN "publish" ELSE "record"

CaseMain ==
  /\ step = "case"
  /\ MainStep
  /\ UNCHANGED <<adapterVars, step, failed, report, line>>

CaseReader ==
  /\ step = "case"
  /\ ReaderStep
  /\ UNCHANGED <<adapterVars, step, failed, report, line>>

CaseGit ==
  /\ step = "case"
  /\ GitStep
  /\ UNCHANGED <<adapterVars, step, failed, report, line>>

\* The model call reads the policy and the case text, which holds the diff in
\* an escaped form with the title and the body: it is longer than the diff.
EndCase ==
  /\ step = "case"
  /\ main = "ended"
  /\ \/ /\ outcome = "case"
        /\ Proceed("model")
        /\ config' \in Configs
        /\ chars' \in {n \in Sizes : n > output}
        /\ sent' = [p \in Adapter!Profiles(config') |-> 0]
     \/ /\ outcome = "oversized"
        /\ Proceed("capacity")
        /\ UNCHANGED <<config, chars, sent>>
     \/ /\ outcome = "failed"
        /\ FailStep(line)
        /\ UNCHANGED <<config, chars, sent>>
  /\ UNCHANGED <<caseVars, adapter, call, profile, attempt, overflow, status, answer,
                 report, line>>

\* One step of the adapter.  An answer becomes the content of response.txt.
CallModel ==
  /\ step = "model"
  /\ \/ /\ \/ Adapter!Launch \/ Adapter!CheckInput \/ Adapter!SelectProfile
           \/ Adapter!TransientStatus \/ Adapter!ContextOverflow
        /\ UNCHANGED report
     \/ /\ Adapter!AnswerOrError
        /\ \/ status' = 0 /\ report' \in Answers(config, chars)
           \/ status' # 0 /\ UNCHANGED report
  /\ UNCHANGED <<caseVars, step, failed, line>>

\* The step validates the first response and calls the adapter again only if
\* that fails; the redirection empties response.txt before the second call.
CheckFirstCall ==
  /\ step = "model"
  /\ Adapter!EndFirstCall
  /\ answer' = "response" => Accepts(report)
  /\ adapter' = "relaunch" => ~Accepts(report)
  /\ UNCHANGED <<caseVars, step, failed, report, line>>

CallAgain ==
  /\ step = "model"
  /\ Adapter!Relaunch
  /\ report' = <<>>
  /\ UNCHANGED <<caseVars, step, failed, line>>

CheckSecondCall ==
  /\ step = "model"
  /\ Adapter!EndSecondCall
  /\ UNCHANGED <<caseVars, step, failed, report, line>>

EndModel ==
  /\ step = "model"
  /\ adapter = "done"
  /\ \/ answer = "response" /\ Proceed("validate")
     \/ answer = "capacity" /\ Proceed("capacity")
     \/ answer = "failed" /\ FailStep(line)
  /\ UNCHANGED <<caseVars, adapterVars, report, line>>

\* Mutant of CapacityReport: the object comes before the verdict.
CapacityReportSwapped ==
  <<Line("text"), JsonLine("NEEDS-HUMAN"), VerdictLine("NEEDS-HUMAN", "plain")>>

\* The fixed text of the "Write capacity review report" step.
CapacityReport ==
  <<Line("text"), Line("blank"), VerdictLine("NEEDS-HUMAN", "plain"),
    JsonLine("NEEDS-HUMAN")>>

WriteCapacity ==
  /\ step = "capacity"
  /\ report' = CapacityReport
  /\ Proceed("validate")
  /\ UNCHANGED <<caseVars, adapterVars, line>>

\* Mutant of Validate: the structural validation is skipped.
ValidateNothing ==
  /\ step = "validate"
  /\ Proceed("parse")
  /\ UNCHANGED <<caseVars, adapterVars, report, line>>

Validate ==
  /\ step = "validate"
  /\ IF Accepts(report) THEN Proceed("parse") ELSE FailStep(line)
  /\ UNCHANGED <<caseVars, adapterVars, report, line>>

\* The line is written to the outputs before its token is looked at.
Parse ==
  /\ step = "parse"
  /\ line' = GateLine(report)
  /\ IF GateToken(line') \in Verdicts THEN Proceed("comment") ELSE FailStep(line')
  /\ UNCHANGED <<caseVars, adapterVars, report>>

JobMain ==
  \/ CaseMain \/ EndCase \/ CallModel \/ CheckFirstCall \/ CallAgain
  \/ CheckSecondCall \/ EndModel \/ WriteCapacity \/ Validate \/ Parse

JobNext == JobMain \/ CaseReader \/ CaseGit

\* Every program of the job runs on: requests and delays have time limits, and
\* so have the joins of the capture.  A read need not fail; git owes nothing.
JobFairness ==
  /\ WF_jobVars(JobMain)
  /\ WF_jobVars(step = "case" /\ (BeginRead \/ ReadBytes \/ EndRead)
                /\ UNCHANGED <<adapterVars, step, failed, report, line>>)

JobSpec == JobInit /\ [][JobNext]_jobVars /\ JobFairness

-----------------------------------------------------------------------------
(* Properties *)

Called  == config # NoProfile
Settled == step \in {"comment", "record", "publish"}

\* Types of the job's variables and of those of its two programs.
JobTypeOK ==
  /\ TypeOK
  /\ step \in {"case", "model", "capacity", "validate", "parse", "comment",
               "record", "publish"}
  /\ failed \in BOOLEAN
  /\ \A i \in DOMAIN report :
       report[i].kind \in {"text", "talk", "fence", "blank", "verdict", "json"}
  /\ line = NoLine \/ line.kind = "verdict"
  /\ Called => Adapter!TypeOK

\* No request, not even the one after a context rejection, goes to a profile
\* whose input budget the estimate exceeds.
RequestsFit == Called => Adapter!RequestsFit

\* However statuses, rejections and the second call combine, no profile gets a
\* third request in one call of the adapter.
RequestBound == Called => Adapter!RequestBound

\* The large profile is used only for an input the active one cannot take.
LargeOnlyWhenNeeded == Called => Adapter!LargeOnlyWhenNeeded

\* A capacity outcome of the model step means that no profile can take the input.
CapacityIsReal == Called => Adapter!CapacityIsReal

\* Whatever statuses and rejections meet in the two calls, every request is one
\* the registry justifies: it fits its profile, it is bounded in number, the
\* large profile has a reason, and so has a capacity exit.
CallsAreJustified ==
  JobTypeOK /\ RequestsFit /\ RequestBound /\ LargeOnlyWhenNeeded /\ CapacityIsReal

\* An approval that reaches the comment covers the complete diff, which some
\* provider was sent, and its JSON companion says the same.
ApprovalIsEarned ==
  step = "comment" /\ GateToken(line) = "APPROVE" =>
    /\ outcome = "case" /\ output = size
    /\ \E p \in DOMAIN sent : sent[p] > 0
    /\ JsonLine("APPROVE") \in {report[i] : i \in DOMAIN report}

\* What is too large for the reviewer ends in a verdict that blocks, never in
\* a failed job: the fixed report passes the validator and the parser.
OversizedBlocks ==
  Settled /\ (outcome = "oversized" \/ answer = "capacity") =>
    step = "comment" /\ GateToken(line) = "NEEDS-HUMAN"

\* The gate never acts on another verdict than the one the validator accepted:
\* it takes the same token, or it takes none and fails.
GateTakesValidated ==
  line # NoLine =>
    GateToken(line) \in {VerdictRead(report).token, "unrecognized"}

\* The job's step as a run of ReviewPipeline sees it.
PipelineRun ==
  [head |-> 1, compliant |-> TRUE, approved |-> FALSE, reviewed |-> FALSE,
   pc |-> IF step = "model" /\ call = 2 THEN "retry"
          ELSE IF step = "capacity" THEN "validate" ELSE step,
   cancelled |-> FALSE,
   status |-> IF failed THEN "failure" ELSE "success",
   response |-> IF step \in {"case", "model"} THEN "none"
                ELSE IF step = "capacity" THEN "NEEDS-HUMAN"
                ELSE IF report = <<>> THEN "none"
                ELSE IF Accepts(report) THEN VerdictRead(report).token
                ELSE "invalid",
   verdict |-> IF line = NoLine THEN "none" ELSE line.token]

Pipeline ==
  INSTANCE ReviewPipeline WITH
    SameRepository <- TRUE, MaxHead <- 1, MaxRuns <- 1, Faults <- {"step"},
    head <- 1, label <- FALSE, scan <- 0, nruns <- 1, run <- <<PipelineRun>>,
    checks <- {}, records <- {}, passed <- {1}, labelled <- {}

\* Every step of the job is a step of the run in ReviewPipeline or leaves it
\* where it is: what that module chooses freely is what the programs can do.
StepsOfPipeline == [][Pipeline!Next]_(Pipeline!vars)

\* The job gets to its verdict or fails, however git stalls, whatever the
\* providers answer.
JobEnds == <>Settled

\* tests/test_review_pipeline_findings.py:114: "The workflow gate and the
\* validator agree on every accepted response."
GateAgrees ==
  line # NoLine => GateToken(line) = VerdictRead(report).token
=============================================================================
