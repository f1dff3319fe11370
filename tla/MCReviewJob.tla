---------------------------- MODULE MCReviewJob -----------------------------
(* Instances of the review job: diffs around the limit, registries of every  *)
(* shape, and all short reports for one of them; and of the quality caller.  *)
(* The two share no state: a behaviour is one of the job or one of the       *)
(* caller, while the other keeps one idle state.                             *)
EXTENDS ReviewJob, QualityReview

\* Diffs below, at and above the limit.
DiffLengths == 0..(MaximumBytes + 3)

Profile(n, b) == [name |-> n, budget |-> b, valid |-> TRUE]

Budgets == {Unset, 2, 4}

\* The shipped shape: an active and a larger profile, with and without budgets.
TwoProfiles ==
  {[active |-> Profile("active", b1), large |-> Profile("large", b2)] :
     b1 \in Budgets, b2 \in Budgets}

\* Registries without a large profile, with the same profile twice, and with
\* entries that _load_profile or _input_budget rejects.
OtherConfigs ==
  {[active |-> Profile("active", b), large |-> NoProfile] : b \in Budgets}
  \cup {[active |-> Profile("active", 2), large |-> Profile("active", 2)]}
  \cup {[active |-> Profile("active", b), large |-> Profile("large", Invalid)] :
          b \in Budgets \cup {Invalid}}
  \cup {[active |-> Profile("active", 2),
         large |-> [Profile("large", 4) EXCEPT !.valid = FALSE]]}
  \cup {[active |-> [Profile("active", 2) EXCEPT !.valid = FALSE],
         large |-> NoProfile]}

AllConfigs == TwoProfiles \cup OtherConfigs

\* 14 characters are 5 tokens; 15 are over the limit.
InputSizes == 1..15

Approve == VerdictLine("APPROVE", "plain")
Block   == VerdictLine("BLOCK", "plain")

Alphabet ==
  {Line("text"), Line("talk"), Line("fence"), Line("blank"), Approve, Block,
   VerdictLine("APPROVE", "junk"), VerdictLine("BLOCK", "wide"),
   VerdictLine("other", "plain"),
   JsonLine("APPROVE"), JsonLine("BLOCK"), JsonLine("other")}

AllReports == UNION {[1..n -> Alphabet] : n \in 1..4}

SampleReports ==
  {<<Line("text"), Approve, JsonLine("APPROVE")>>, <<Block, JsonLine("BLOCK")>>,
   <<Block, Line("text")>>, <<Line("talk"), Approve, JsonLine("APPROVE")>>}

\* All reports for one registry and size, a few for the others.
Reports(registry, size_) ==
  IF size_ = 1 /\ registry = [active |-> Profile("active", 2), large |-> NoProfile]
    THEN AllReports ELSE SampleReports

JobIdle ==
  /\ main = "ended" /\ problem = "none" /\ outcome = "failed" /\ size = 0
  /\ git = "none" /\ code = "none" /\ written = 0 /\ piped = 0
  /\ reader = "none" /\ output = 0 /\ stdout = "none"
  /\ step = "publish" /\ failed = TRUE /\ report = <<>> /\ line = NoLine
  /\ config = NoProfile /\ chars = 0 /\ adapter = "launch" /\ call = 1
  /\ profile = NoProfile /\ attempt = 0 /\ sent = <<>> /\ overflow = {}
  /\ status = 0 /\ answer = "none"

QualityIdle ==
  /\ own = TRUE /\ tip = 1 /\ tagged = FALSE /\ flows = <<>> /\ reruns = 0
  /\ callers = <<>> /\ taggedTips = {} /\ succeeded = {} /\ started = {}

ReviewsInit ==
  \/ JobInit /\ QualityIdle
  \/ JobIdle /\ QualityInit

\* The idle caller has no runs, and no pull request either.
ReviewsNext ==
  \/ JobNext /\ UNCHANGED qualityVars
  \/ flows # <<>> /\ QualityNext /\ UNCHANGED jobVars

ReviewsSpec ==
  /\ ReviewsInit
  /\ [][ReviewsNext]_<<jobVars, qualityVars>>
  /\ JobFairness
  /\ QualityFairness
=============================================================================
