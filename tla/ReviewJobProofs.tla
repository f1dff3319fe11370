--------------------------- MODULE ReviewJobProofs ---------------------------
(***************************************************************************)
(* Proofs about ReviewJob and the DiffCapture it starts with: for every    *)
(* size of the diff, every limit and every capacity of the pipe, what a    *)
(* case text holds; for every registry of providers, every input size and  *)
(* whatever reports the models answer, what the verdicts rest on, and that *)
(* the steps of the job are steps of ReviewPipeline.                       *)
(***************************************************************************)
EXTENDS ReviewJob, WellFoundedInduction, TLAPS

-----------------------------------------------------------------------------
(* The capture of the diff: its invariant *)

\* No byte is lost between git, the pipe and the reader.
BytesKept == written = output + piped

\* Git reports success only after the last byte.
GitHonest ==
  /\ git \in {"none", "running"} => code = "none"
  /\ code = "ok" => written = size

\* A reader is done at the limit or at the end of what git has written.
ReaderHonest ==
  /\ reader = "done" =>
       output = ReadLimit \/ (piped = 0 /\ git \notin {"none", "running"})
  /\ reader = "none" => main \in {"prepare", "start", "ended"}
  /\ main \in {"prepare", "start"} => reader = "none"
  /\ main = "prepare" => git = "none"
  /\ git = "none" => main \in {"prepare", "ended"} /\ reader = "none"
  /\ main = "inspect" => ~ReaderAlive

\* What the main thread has established when it gets to a phase.
MainKnows ==
  /\ main \in {"wait", "leave", "assemble"} => reader = "done" /\ output <= MaximumBytes
  /\ main \in {"leave", "assemble"} => git = "reaped"
  /\ main = "assemble" => code = "ok"
  /\ main \in {"reap", "raise", "assemble"} => stdout = "closed"
  /\ main = "raise" => git = "reaped"
  /\ problem = "too_large" => output > MaximumBytes
  /\ main = "ended" <=> outcome # "none"
  /\ main = "ended" /\ git # "none" => stdout = "closed"
  /\ stdout = "closed" \/ git = "none" => reader # "reading"

CaptureInv ==
  /\ TypeOK /\ BytesKept /\ GitHonest /\ ReaderHonest /\ MainKnows
  /\ CaseIsComplete /\ OversizedIsReal /\ NothingLeftBehind

-----------------------------------------------------------------------------
(* The initial states and the steps *)

\* The invariant holds before git is started.
LEMMA InitEstablishes == Init => CaptureInv
BY CaptureAssumption
   DEF Init, CaptureInv, CaptureAssumption, TypeOK, BytesKept, GitHonest,
       ReaderHonest, MainKnows, CaseIsComplete, OversizedIsReal, NothingLeftBehind,
       ReadLimit, ReaderAlive

\* A step of the main thread keeps the invariant.
LEMMA MainKeeps ==
  ASSUME CaptureInv, MainStep
  PROVE  CaptureInv'
<1> USE CaptureAssumption
    DEF CaptureAssumption, CaptureInv, TypeOK, ReadLimit, Goto, End, Abandon,
        mainVars, gitVars, readerVars, ReaderAlive
<1>1. TypeOK'
  BY DEF MainStep, PrepareFails, StartGit, StartReader, JoinReader, JoinTimesOut,
     InspectOutput, WaitForGit, KillGit, CloseOutput, ReapGit, RaiseProblem,
     LeaveCapture, AssembleFails, AssembleCase
<1>2. BytesKept' /\ GitHonest'
  BY DEF BytesKept, GitHonest, ReaderHonest, MainStep, PrepareFails, StartGit,
     StartReader, JoinReader, JoinTimesOut, InspectOutput, WaitForGit, KillGit,
     CloseOutput, ReapGit, RaiseProblem, LeaveCapture, AssembleFails, AssembleCase
<1>3. ReaderHonest'
  BY DEF ReaderHonest, MainStep, PrepareFails, StartGit, StartReader, JoinReader,
     JoinTimesOut, InspectOutput, WaitForGit, KillGit, CloseOutput, ReapGit,
     RaiseProblem, LeaveCapture, AssembleFails, AssembleCase
<1>4. MainKnows'
  <2> USE DEF ReaderHonest, MainKnows
  <2>1. CASE PrepareFails \/ StartGit \/ StartReader \/ JoinReader \/ JoinTimesOut
    BY <2>1 DEF PrepareFails, StartGit, StartReader, JoinReader, JoinTimesOut
  <2>2. CASE InspectOutput
    BY <2>2 DEF InspectOutput
  <2>3. CASE WaitForGit \/ KillGit
    BY <2>3 DEF WaitForGit, KillGit
  <2>4. CASE CloseOutput \/ ReapGit \/ RaiseProblem
    BY <2>4 DEF CloseOutput, ReapGit, RaiseProblem
  <2>5. CASE LeaveCapture \/ AssembleFails \/ AssembleCase
    BY <2>5 DEF LeaveCapture, AssembleFails, AssembleCase
  <2> QED BY <2>1, <2>2, <2>3, <2>4, <2>5 DEF MainStep
<1>5. CaseIsComplete'
  <2>1. CASE AssembleCase
    <3>1. output = size
      BY <2>1 DEF AssembleCase, MainKnows, GitHonest, ReaderHonest, BytesKept
    <3> QED BY <2>1, <3>1 DEF AssembleCase, CaseIsComplete
  <2>2. CASE MainStep /\ ~AssembleCase
    BY <2>2 DEF CaseIsComplete, MainStep, PrepareFails, StartGit, StartReader,
       JoinReader, JoinTimesOut, InspectOutput, WaitForGit, KillGit, CloseOutput,
       ReapGit, RaiseProblem, LeaveCapture, AssembleFails
  <2> QED BY <2>1, <2>2
<1>6. OversizedIsReal'
  BY DEF OversizedIsReal, MainKnows, BytesKept, MainStep, PrepareFails, StartGit,
     StartReader, JoinReader, JoinTimesOut, InspectOutput, WaitForGit, KillGit,
     CloseOutput, ReapGit, RaiseProblem, LeaveCapture, AssembleFails, AssembleCase
<1>7. NothingLeftBehind'
  BY DEF NothingLeftBehind, MainKnows, ReaderHonest, MainStep, PrepareFails, StartGit,
     StartReader, JoinReader, JoinTimesOut, InspectOutput, WaitForGit, KillGit,
     CloseOutput, ReapGit, RaiseProblem, LeaveCapture, AssembleFails, AssembleCase
<1> QED BY <1>1, <1>2, <1>3, <1>4, <1>5, <1>6, <1>7

\* A step of the reader keeps the invariant.
LEMMA ReaderKeeps ==
  ASSUME CaptureInv, ReaderStep
  PROVE  CaptureInv'
<1> USE CaptureAssumption
    DEF CaptureAssumption, CaptureInv, TypeOK, ReadLimit, mainVars, gitVars,
        WriteEndOpen, ReaderAlive
<1>1. TypeOK' /\ BytesKept'
  BY DEF BytesKept, ReaderStep, BeginRead, ReadBytes, EndRead, ReadFails
<1>2. GitHonest' /\ OversizedIsReal'
  BY DEF GitHonest, OversizedIsReal, ReaderStep, BeginRead, ReadBytes, EndRead,
     ReadFails
<1>3. ReaderHonest' /\ MainKnows'
  BY DEF ReaderHonest, MainKnows, ReaderStep, BeginRead, ReadBytes, EndRead, ReadFails
<1>4. CaseIsComplete' /\ NothingLeftBehind'
  BY DEF CaseIsComplete, NothingLeftBehind, MainKnows, ReaderHonest, ReaderStep,
     BeginRead, ReadBytes, EndRead, ReadFails
<1> QED BY <1>1, <1>2, <1>3, <1>4

\* A step of git keeps the invariant.
LEMMA GitKeeps ==
  ASSUME CaptureInv, GitStep
  PROVE  CaptureInv'
<1> USE CaptureAssumption
    DEF CaptureAssumption, CaptureInv, TypeOK, ReadLimit, mainVars, readerVars,
        ReaderAlive
<1>1. TypeOK' /\ BytesKept' /\ GitHonest'
  BY DEF BytesKept, GitHonest, GitStep, GitWrites, GitCloses, GitExits
<1>2. ReaderHonest' /\ MainKnows'
  BY DEF ReaderHonest, MainKnows, GitStep, GitWrites, GitCloses, GitExits
<1>3. CaseIsComplete' /\ OversizedIsReal' /\ NothingLeftBehind'
  BY DEF CaseIsComplete, OversizedIsReal, NothingLeftBehind, GitStep, GitWrites,
     GitCloses, GitExits
<1> QED BY <1>1, <1>2, <1>3

\* Every step keeps the invariant.
LEMMA StepKeeps == CaptureInv /\ [Next]_vars => CaptureInv'
<1> SUFFICES ASSUME CaptureInv, [Next]_vars PROVE CaptureInv'
  OBVIOUS
<1>1. CASE Next
  BY <1>1, MainKeeps, ReaderKeeps, GitKeeps DEF Next
<1>2. CASE UNCHANGED vars
  BY <1>2 DEF vars, mainVars, gitVars, readerVars, CaptureInv, TypeOK, ReadLimit,
     ReaderAlive, BytesKept, GitHonest, ReaderHonest, MainKnows, CaseIsComplete, OversizedIsReal,
     NothingLeftBehind
<1> QED BY <1>1, <1>2

-----------------------------------------------------------------------------
(* Theorems *)

\* The capture keeps its invariant.
THEOREM CaptureInvariant == Spec => []CaptureInv
BY InitEstablishes, StepKeeps, PTL DEF Spec

\* A case text holds the complete diff, for every size, limit and interleaving
\* of git, the reader and the timeouts.
THEOREM CasesAreComplete == Spec => []CaseIsComplete
<1>1. CaptureInv => CaseIsComplete
  BY DEF CaptureInv
<1> QED BY <1>1, CaptureInvariant, PTL

\* Only a diff above the limit is reported as oversized.
THEOREM OversizedHolds == Spec => []OversizedIsReal
<1>1. CaptureInv => OversizedIsReal
  BY DEF CaptureInv
<1> QED BY <1>1, CaptureInvariant, PTL

\* The step leaves no process, zombie or blocked read.
THEOREM NothingLeft == Spec => []NothingLeftBehind
<1>1. CaptureInv => NothingLeftBehind
  BY DEF CaptureInv
<1> QED BY <1>1, CaptureInvariant, PTL

\* The three together: what the capture promises holds for every instance.
THEOREM CaptureSound == Spec => []CaptureIsSound
<1>1. CaseIsComplete /\ OversizedIsReal /\ NothingLeftBehind => CaptureIsSound
  BY DEF CaptureIsSound
<1> QED BY <1>1, CasesAreComplete, OversizedHolds, NothingLeft, PTL

-----------------------------------------------------------------------------
(* The last line of its kind.  That a set of line numbers has a greatest     *)
(* element follows from the well-foundedness of the natural numbers.         *)

\* A nonempty set of natural numbers has a least element.
LEMMA LeastExists ==
  ASSUME NEW T \in SUBSET Nat, T # {}
  PROVE  \E m \in T : \A y \in T : m <= y
<1> DEFINE R == {ss \in Nat \X Nat : ss[1] < ss[2]}
<1>1. IsWellFoundedOn(R, Nat)
  BY NatLessThanWellFounded DEF OpToRel
<1>2. PICK x \in T : \A y \in T : ~ (<<y, x>> \in R)
  BY <1>1, WFMin
<1>3. ASSUME NEW y \in T PROVE x <= y
  <2>1. ~(y < x)
    BY <1>2
  <2> QED BY <2>1
<1> QED BY <1>3

\* A nonempty set of numbers up to n has a greatest element.
LEMMA GreatestExists ==
  ASSUME NEW n \in Nat, NEW T \in SUBSET (1..n), T # {}
  PROVE  \E m \in T : \A y \in T : y <= m
<1> DEFINE U == {n - x : x \in T}
<1>1. U \in SUBSET Nat /\ U # {}
  <2>1. \A x \in T : n - x \in Nat
    OBVIOUS
  <2> QED BY <2>1
<1>2. PICK u \in U : \A v \in U : u <= v
  <2> HIDE DEF U
  <2> QED BY <1>1, LeastExists
<1>3. PICK m \in T : u = n - m
  BY <1>2
<1>4. \A y \in T : n - m <= n - y
  BY <1>2, <1>3
<1>5. \A y \in T : y \in Nat
  OBVIOUS
<1> QED BY <1>4, <1>5

\* Max is that element.
LEMMA MaxIs ==
  ASSUME NEW S \in SUBSET Nat, NEW m \in S, \A y \in S : y <= m
  PROVE  Max(S) = m
<1>1. \A x \in S : x \in Nat
  OBVIOUS
<1>2. \A x \in S : (\A y \in S : x >= y) => x = m
  <2> SUFFICES ASSUME NEW x \in S, \A y \in S : x >= y PROVE x = m
    OBVIOUS
  <2>1. x >= m /\ x <= m
    OBVIOUS
  <2> QED BY <1>1, <2>1
<1>3. \A y \in S : m >= y
  BY <1>1
<1> QED BY <1>2, <1>3 DEF Max

-----------------------------------------------------------------------------
(* Reports *)

Reported == Seq(ReportLines)

\* The last line of a kind that occurs is a line of that kind.
LEMMA LastOfKind ==
  ASSUME NEW r \in Reported, NEW kind, LinesOf(r, kind) # {}
  PROVE  /\ Max(LinesOf(r, kind)) \in DOMAIN r
         /\ r[Max(LinesOf(r, kind))] \in ReportLines
         /\ r[Max(LinesOf(r, kind))].kind = kind
<1>1. DOMAIN r = 1..Len(r) /\ Len(r) \in Nat
  BY DEF Reported
<1>2. LinesOf(r, kind) \in SUBSET (1..Len(r))
  BY <1>1 DEF LinesOf
<1>3. PICK m \in LinesOf(r, kind) : \A y \in LinesOf(r, kind) : y <= m
  BY <1>1, <1>2, GreatestExists
<1>4. LinesOf(r, kind) \in SUBSET Nat
  BY <1>2
<1>5. Max(LinesOf(r, kind)) = m
  BY <1>3, <1>4, MaxIs
<1>6. m \in DOMAIN r /\ r[m].kind = kind
  BY DEF LinesOf
<1>7. r[m] \in ReportLines
  BY <1>1, <1>6 DEF Reported
<1> QED BY <1>5, <1>6, <1>7

\* A line of a report has one of the six kinds.
LEMMA LineKinds ==
  ASSUME NEW l \in ReportLines
  PROVE  /\ l.kind \in {"text", "talk", "fence", "blank", "verdict", "json"}
         /\ l.kind = "json" => l = JsonLine(l.verdict)
         /\ l.kind = "verdict" => l = VerdictLine(l.token, l.around)
BY DEF ReportLines, Line, JsonLine, VerdictLine

\* An accepted report has a verdict, and its object says the same.
LEMMA AcceptedReport ==
  ASSUME NEW r \in Reported, Accepts(r)
  PROVE  /\ VerdictRead(r).kind = "verdict"
         /\ VerdictRead(r).token \in Verdicts
         /\ JsonLine(VerdictRead(r).token) \in {r[i] : i \in DOMAIN r}
<1>1. LinesOf(r, "verdict") # {} /\ LinesOf(r, "json") # {}
  BY DEF Accepts, JsonAgrees, JsonEndsReport
<1>2. VerdictRead(r).kind = "verdict" /\ VerdictRead(r).token \in Verdicts
  BY <1>1, LastOfKind DEF Accepts, MatchesPattern, VerdictRead
<1> DEFINE last == Max(LinesOf(r, "json"))
<1>3. last \in DOMAIN r /\ r[last] \in ReportLines /\ r[last].kind = "json"
  BY <1>1, LastOfKind
<1>4. r[last].verdict = VerdictRead(r).token
  BY DEF Accepts, JsonAgrees
<1>5. r[last] = JsonLine(VerdictRead(r).token)
  BY <1>3, <1>4, LineKinds
<1> QED BY <1>2, <1>3, <1>5

\* An empty report is not accepted.
LEMMA EmptyRejected == ~Accepts(<<>>)
BY DEF Accepts, LinesOf

\* The fixed capacity report passes the validator, and its verdict blocks.
LEMMA CapacityAccepted ==
  /\ CapacityReport \in Reported
  /\ Accepts(CapacityReport)
  /\ VerdictRead(CapacityReport).token = "NEEDS-HUMAN"
  /\ GateToken(GateLine(CapacityReport)) = "NEEDS-HUMAN"
<1> DEFINE r == CapacityReport
<1>1. /\ DOMAIN r = 1..4 /\ r[1] = Line("text") /\ r[2] = Line("blank")
      /\ r[3] = VerdictLine("NEEDS-HUMAN", "plain") /\ r[4] = JsonLine("NEEDS-HUMAN")
  BY DEF CapacityReport
<1>2. /\ r[1].kind = "text" /\ r[2].kind = "blank"
      /\ r[3].kind = "verdict" /\ r[4].kind = "json"
      /\ r[3].token = "NEEDS-HUMAN" /\ r[3].around = "plain"
      /\ r[4].verdict = "NEEDS-HUMAN"
  BY <1>1 DEF Line, VerdictLine, JsonLine
<1>3. \A i : i \in DOMAIN r <=> i \in {1, 2, 3, 4}
  BY <1>1
<1> HIDE DEF r
<1>4. /\ LinesOf(r, "verdict") = {3} /\ LinesOf(r, "json") = {4}
      /\ LinesOf(r, "talk") = {} /\ DOMAIN r \ LinesOf(r, "blank") = {1, 3, 4}
  BY <1>2, <1>3 DEF LinesOf
<1>5. Max({3}) = 3 /\ Max({4}) = 4 /\ Max({1, 3, 4}) = 4
  BY MaxIs
<1>6. /\ VerdictRead(r) = r[3] /\ GateLine(r) = r[3]
      /\ MatchesPattern(r[3]) /\ GateToken(r[3]) = "NEEDS-HUMAN"
  BY <1>2, <1>4, <1>5 DEF VerdictRead, GateLine, MatchesPattern, GateToken, Verdicts
<1>7. Accepts(r)
  <2>1. ~Narrates(r)
    BY <1>4 DEF Narrates
  <2>2. JsonEndsReport(r)
    BY <1>4, <1>5 DEF JsonEndsReport
  <2>3. JsonAgrees(r)
    BY <1>2, <1>4, <1>5, <1>6, <2>2 DEF JsonAgrees
  <2> QED BY <1>4, <1>6, <2>1, <2>3 DEF Accepts
<1>8. r \in Reported
  <2>1. Line("text") \in ReportLines /\ Line("blank") \in ReportLines
    BY DEF ReportLines
  <2>2. VerdictLine("NEEDS-HUMAN", "plain") \in ReportLines
    <3>1. VerdictLine("NEEDS-HUMAN", "plain")
            \in [kind : {"verdict"}, token : Tokens, around : Surroundings]
      BY DEF VerdictLine, Surroundings, Tokens, Verdicts
    <3> QED BY <3>1 DEF ReportLines
  <2>3. JsonLine("NEEDS-HUMAN") \in ReportLines
    <3>1. JsonLine("NEEDS-HUMAN") \in [kind : {"json"}, verdict : Tokens]
      BY DEF JsonLine, Tokens, Verdicts
    <3> QED BY <3>1 DEF ReportLines
  <2> QED BY <2>1, <2>2, <2>3 DEF r, CapacityReport, Reported
<1> QED BY <1>2, <1>6, <1>7, <1>8 DEF r
-----------------------------------------------------------------------------
(* The adapter.  Registry is what the code can rely on when it reads one;    *)
(* AdapterInv is the inductive invariant of the requests of one call.        *)

Known == Adapter!Profiles(config)
Held(p) == ~Adapter!Fits(p) \/ p \in overflow
NobodyFits == chars > MaxInputChars \/ \A p \in Known : Held(p)

\* What a registry says of its profiles.
LEMMA RegistryOf ==
  ASSUME NEW c \in Configs
  PROVE  /\ c # NoProfile
         /\ c.active \in Adapter!Profiles(c) /\ c.active # NoProfile
         /\ c.large # NoProfile => c.large \in Adapter!Profiles(c)
         /\ \A p \in Adapter!Profiles(c) :
              /\ p = c.active \/ p = c.large
              /\ p # NoProfile
              /\ c.large # NoProfile /\ c.large.name = p.name => p = c.large
BY RegistriesAreChecked DEF Adapter!AdapterAssumption, Adapter!Profiles

\* The same of the registry in use.
LEMMA Registry ==
  ASSUME config \in Configs
  PROVE  /\ config # NoProfile
         /\ config.active \in Known /\ config.active # NoProfile
         /\ config.large # NoProfile => config.large \in Known
         /\ \A p \in Known : /\ p = config.active \/ p = config.large
                             /\ p # NoProfile
                             /\ config.large # NoProfile /\ config.large.name = p.name
                                  => p = config.large
BY RegistryOf DEF Known

\* Before the first request of a call nothing was sent or rejected.
NothingSent == overflow = {} /\ \A p \in Known : sent[p] = 0

\* The request in preparation: it fits, the profile got only its first attempt,
\* and the large profile has a reason to be used.
Prepared ==
  /\ profile \in Known
  /\ Adapter!Fits(profile)
  /\ sent[profile] = attempt
  /\ config.large # NoProfile /\ profile # config.large => sent[config.large] = 0
  /\ profile = config.large /\ config.large # config.active => Held(config.active)

AdapterInv ==
  /\ Adapter!TypeOK
  /\ adapter \in {"launch", "check", "select"} => NothingSent
  /\ adapter \in {"select", "send"} => chars <= MaxInputChars
  /\ adapter = "send" => Prepared
  /\ Adapter!RequestsFit /\ Adapter!RequestBound /\ Adapter!LargeOnlyWhenNeeded
  /\ adapter = "exited" /\ status = 3 => NobodyFits
  /\ adapter = "exited" /\ status = 0 => \E p \in Known : sent[p] > 0
  /\ adapter = "done" <=> answer # "none"
  /\ adapter = "relaunch" => call = 2
  /\ answer = "capacity" => NobodyFits /\ call = 1
  /\ answer = "response" => \E p \in Known : sent[p] > 0

Requests == <<config, chars, profile, attempt, sent, overflow, answer>>

\* Steps that neither send nor touch the counters.
LEMMA QuietKeeps ==
  ASSUME AdapterInv, Adapter!Launch \/ Adapter!CheckInput
  PROVE  AdapterInv'
<1> USE DEF Adapter!Launch, Adapter!CheckInput, Adapter!Exit, Adapter!Rejected,
            Adapter!Capacity, Adapter!Failure
<1>1. /\ UNCHANGED <<Requests, call>>
      /\ adapter \in {"launch", "check"}
      /\ \/ adapter' = "check" /\ adapter = "launch" /\ status' = status
         \/ adapter' = "select" /\ adapter = "check" /\ chars <= MaxInputChars /\ status' = status
         \/ adapter' = "exited" /\ status' \in {1, 2}
         \/ adapter' = "exited" /\ status' = 3 /\ chars > MaxInputChars
  <2>1. chars \in Nat /\ MaxInputChars \in Nat
    BY RegistriesAreChecked DEF AdapterInv, Adapter!TypeOK, Adapter!AdapterAssumption
  <2> QED BY <2>1 DEF Requests
<1>2. Adapter!TypeOK'
  BY <1>1 DEF AdapterInv, Requests, Adapter!TypeOK, Adapter!Profiles
<1>3. /\ Known' = Known /\ Adapter!RequestsFit' /\ Adapter!RequestBound'
      /\ Adapter!LargeOnlyWhenNeeded' /\ (NothingSent => NothingSent')
  BY <1>1 DEF AdapterInv, Requests, Known, NothingSent, Adapter!RequestsFit,
       Adapter!RequestBound, Adapter!LargeOnlyWhenNeeded, Adapter!Profiles,
       Adapter!Fits, Adapter!HasBudget, Adapter!EstimatedTokens
<1>4. NothingSent /\ answer = "none"
  BY <1>1 DEF AdapterInv
<1> HIDE DEF Adapter!Launch, Adapter!CheckInput
<1> QED BY <1>1, <1>2, <1>3, <1>4 DEF AdapterInv, Requests, NobodyFits

\* The selection prepares a request to a profile that fits, or gives up.
LEMMA SelectKeeps ==
  ASSUME AdapterInv, Adapter!SelectProfile
  PROVE  AdapterInv'
<1>0. config \in Configs /\ NothingSent /\ answer = "none" /\ adapter = "select"
      /\ chars <= MaxInputChars
  BY DEF AdapterInv, Adapter!TypeOK, Adapter!SelectProfile
<1>1. /\ UNCHANGED <<config, chars, call, sent, overflow, answer>> /\ attempt' = 0
      /\ \/ /\ adapter' = "send" /\ status' = status
            /\ \/ profile' = config.active /\ Adapter!Fits(config.active)
               \/ /\ profile' = config.large /\ config.large # NoProfile
                  /\ ~Adapter!Fits(config.active) /\ Adapter!Fits(config.large)
         \/ /\ adapter' = "exited" /\ status' = 1 /\ profile' = profile
         \/ /\ adapter' = "exited" /\ status' = 3 /\ profile' = profile
            /\ ~Adapter!Fits(config.active)
            /\ config.large # NoProfile => ~Adapter!Fits(config.large)
  BY DEF Adapter!SelectProfile, Adapter!Select, Adapter!Exit, Adapter!Failure,
         Adapter!Capacity, Adapter!LargeFits
<1>2. /\ Known' = Known /\ \A p : Adapter!Fits(p)' = Adapter!Fits(p)
  BY <1>1 DEF Known, Adapter!Profiles, Adapter!Fits, Adapter!HasBudget,
              Adapter!EstimatedTokens
<1>3. Adapter!TypeOK'
  BY <1>0, <1>1, Registry DEF AdapterInv, Adapter!TypeOK, Known,
     Adapter!Failure, Adapter!Capacity, Adapter!Rejected
<1>4. /\ Adapter!RequestsFit' /\ Adapter!RequestBound' /\ Adapter!LargeOnlyWhenNeeded'
  BY <1>1, <1>2 DEF AdapterInv, Known, Adapter!RequestsFit,
       Adapter!RequestBound, Adapter!LargeOnlyWhenNeeded
<1>5. adapter' = "send" => Prepared'
  BY <1>0, <1>1, <1>2, Registry DEF Prepared, NothingSent, Held
<1>6. adapter' = "exited" /\ status' = 3 => NobodyFits'
  BY <1>0, <1>1, <1>2, Registry DEF NobodyFits, Held
<1> QED BY <1>0, <1>1, <1>3, <1>4, <1>5, <1>6 DEF AdapterInv

\* A request of a prepared profile is justified and is one of at most two.
LEMMA CountKeeps ==
  ASSUME AdapterInv, adapter = "send", Adapter!CountRequest,
         UNCHANGED <<config, chars>>, overflow \subseteq overflow'
  PROVE  /\ Known' = Known /\ \A p : Adapter!Fits(p)' = Adapter!Fits(p)
         /\ sent' \in [Known -> Nat]
         /\ sent'[profile] = attempt + 1 /\ attempt \in {0, 1}
         /\ \A p \in Known \ {profile} : sent'[p] = sent[p]
         /\ Adapter!RequestsFit' /\ Adapter!RequestBound' /\ Adapter!LargeOnlyWhenNeeded'
<1>1. /\ Known' = Known /\ \A p : Adapter!Fits(p)' = Adapter!Fits(p)
  BY DEF Known, Adapter!Profiles, Adapter!Fits, Adapter!HasBudget, Adapter!EstimatedTokens
<1>2. /\ sent \in [Known -> Nat] /\ attempt \in {0, 1} /\ Prepared
      /\ config \in Configs /\ chars <= MaxInputChars
  BY DEF AdapterInv, Adapter!TypeOK, Known
<1>3. /\ sent' \in [Known -> Nat] /\ sent'[profile] = attempt + 1
      /\ \A p \in Known \ {profile} : sent'[p] = sent[p]
  BY <1>2 DEF Adapter!CountRequest, Prepared
<1>4. Adapter!RequestsFit'
  BY <1>1, <1>2, <1>3 DEF AdapterInv, Adapter!RequestsFit, Prepared, Known
<1>5. Adapter!RequestBound'
  <2>1. \A p \in Known : sent[p] <= 2
    BY DEF AdapterInv, Adapter!RequestBound, Known
  <2>2. \A p \in Known : sent'[p] <= 2
    BY <1>2, <1>3, <2>1
  <2> QED BY <1>1, <2>2 DEF Adapter!RequestBound, Known
<1>6. Adapter!LargeOnlyWhenNeeded'
  <2> DEFINE p == config.large
  <2> SUFFICES ASSUME p # NoProfile, p # config.active, sent'[p] > 0
               PROVE  ~Adapter!Fits(config.active) \/ config.active \in overflow
    BY <1>1 DEF Adapter!LargeOnlyWhenNeeded
  <2>1. CASE p = profile
    BY <1>2, <2>1 DEF Prepared, Held
  <2>2. CASE p # profile
    <3>1. sent[p] > 0
      BY <1>2, <1>3, <2>2, Registry
    <3> QED BY <3>1 DEF AdapterInv, Adapter!LargeOnlyWhenNeeded
  <2> QED BY <2>1, <2>2
<1> QED BY <1>1, <1>2, <1>3, <1>4, <1>5, <1>6

\* A request that is answered, refused for good, or repeated once.
LEMMA AnswerKeeps ==
  ASSUME AdapterInv, Adapter!AnswerOrError \/ Adapter!TransientStatus
  PROVE  AdapterInv'
<1>1. /\ adapter = "send" /\ Adapter!CountRequest
      /\ UNCHANGED <<config, chars, call, profile, overflow, answer>>
      /\ \/ adapter' = "exited" /\ status' \in {0, 1} /\ attempt' = attempt
         \/ adapter' = "send" /\ status' = status /\ attempt = 0 /\ attempt' = 1
  BY DEF Adapter!AnswerOrError, Adapter!TransientStatus, Adapter!Exit, Adapter!Failure
<1>2. /\ Known' = Known /\ \A p : Adapter!Fits(p)' = Adapter!Fits(p)
      /\ sent' \in [Known -> Nat]
      /\ sent'[profile] = attempt + 1 /\ attempt \in {0, 1}
      /\ \A p \in Known \ {profile} : sent'[p] = sent[p]
      /\ Adapter!RequestsFit' /\ Adapter!RequestBound' /\ Adapter!LargeOnlyWhenNeeded'
  BY <1>1, CountKeeps
<1>3. config \in Configs /\ Prepared /\ chars <= MaxInputChars /\ answer = "none"
  BY <1>1 DEF AdapterInv, Adapter!TypeOK
<1>4. Adapter!TypeOK'
  BY <1>1, <1>2, <1>3 DEF AdapterInv, Adapter!TypeOK, Known, Adapter!Failure,
     Adapter!Capacity, Adapter!Rejected
<1>5. sent'[profile] > 0 /\ profile \in Known
  BY <1>2, <1>3 DEF Prepared
<1>6. adapter' = "send" => Prepared'
  BY <1>1, <1>2, <1>3, Registry DEF Prepared, Held
<1> QED BY <1>1, <1>2, <1>3, <1>4, <1>5, <1>6 DEF AdapterInv

\* A rejected context turns to the large profile if there is one that fits.
LEMMA OverflowKeeps ==
  ASSUME AdapterInv, Adapter!ContextOverflow
  PROVE  AdapterInv'
<1>1. /\ adapter = "send" /\ Adapter!CountRequest
      /\ UNCHANGED <<config, chars, call, answer>> /\ overflow' = overflow \cup {profile}
      /\ \/ /\ adapter' = "exited" /\ status' = 1 /\ UNCHANGED <<profile, attempt>>
         \/ /\ adapter' = "exited" /\ status' = 3 /\ UNCHANGED <<profile, attempt>>
            /\ \/ config.large = NoProfile
               \/ config.large.name = profile.name
               \/ ~Adapter!Fits(config.large)
         \/ /\ adapter' = "send" /\ status' = status /\ attempt' = 0
            /\ profile' = config.large /\ config.large # NoProfile
            /\ config.large # profile /\ Adapter!Fits(config.large)
  BY DEF Adapter!ContextOverflow, Adapter!Exit, Adapter!Failure, Adapter!Capacity,
         Adapter!LargeFits
<1>2. /\ Known' = Known /\ \A p : Adapter!Fits(p)' = Adapter!Fits(p)
      /\ sent' \in [Known -> Nat]
      /\ sent'[profile] = attempt + 1 /\ attempt \in {0, 1}
      /\ \A p \in Known \ {profile} : sent'[p] = sent[p]
      /\ Adapter!RequestsFit' /\ Adapter!RequestBound' /\ Adapter!LargeOnlyWhenNeeded'
  BY <1>1, CountKeeps
<1>3. config \in Configs /\ Prepared /\ chars <= MaxInputChars /\ answer = "none"
  BY <1>1 DEF AdapterInv, Adapter!TypeOK
<1>4. Adapter!TypeOK'
  <2>1. overflow' \subseteq Known
    BY <1>1, <1>3 DEF AdapterInv, Adapter!TypeOK, Known, Prepared
  <2>2. profile' \in Known
    BY <1>1, <1>3, Registry DEF Prepared
  <2>3. profile' # NoProfile
    BY <1>3, <2>2, Registry
  <2> QED BY <1>1, <1>2, <1>3, <2>1, <2>2, <2>3
          DEF AdapterInv, Adapter!TypeOK, Known, Adapter!Failure, Adapter!Capacity,
              Adapter!Rejected
<1>5. adapter' = "send" => Prepared'
  BY <1>1, <1>2, <1>3, Registry DEF Prepared, Held
<1>6. adapter' = "exited" /\ status' = 3 => NobodyFits'
  <2> SUFFICES ASSUME adapter' = "exited", status' = 3, NEW p \in Known
               PROVE  ~Adapter!Fits(p) \/ p \in overflow'
    BY <1>2 DEF NobodyFits, Held
  <2>1. CASE p = profile
    BY <1>1, <2>1
  <2>2. CASE p # profile /\ p = config.active
    BY <1>1, <1>3, <2>2, Registry DEF Prepared, Held
  <2>3. CASE p # profile /\ p = config.large
    BY <1>1, <1>3, <2>3, Registry DEF Prepared
  <2> QED BY <1>3, <2>1, <2>2, <2>3, Registry
<1> QED BY <1>1, <1>2, <1>3, <1>4, <1>5, <1>6 DEF AdapterInv

\* The step of the workflow after a call sends nothing.
LEMMA WorkflowKeeps ==
  ASSUME AdapterInv, Adapter!EndFirstCall \/ Adapter!EndSecondCall
  PROVE  AdapterInv'
<1>1. /\ UNCHANGED <<config, chars, profile, attempt, sent, overflow, status>>
      /\ adapter = "exited"
      /\ \/ /\ adapter' = "done" /\ call' = call
            /\ answer' \in {"response", "failed", "capacity"}
            /\ answer' = "response" => status = 0
            /\ answer' = "capacity" => status = 3 /\ call = 1
         \/ adapter' = "relaunch" /\ call' = 2 /\ answer' = answer
  BY DEF Adapter!EndFirstCall, Adapter!EndSecondCall, Adapter!Finish, Adapter!Capacity
<1>2. Adapter!TypeOK' /\ Known' = Known
  BY <1>1 DEF AdapterInv, Adapter!TypeOK, Known, Adapter!Profiles
<1>3. Adapter!RequestsFit' /\ Adapter!RequestBound' /\ Adapter!LargeOnlyWhenNeeded'
  BY <1>1 DEF AdapterInv, Adapter!RequestsFit, Adapter!RequestBound,
     Adapter!LargeOnlyWhenNeeded, Adapter!Profiles, Adapter!Fits, Adapter!HasBudget,
     Adapter!EstimatedTokens
<1>4. NobodyFits' = NobodyFits
  BY <1>1, <1>2 DEF NobodyFits, Held, Adapter!Fits, Adapter!HasBudget,
     Adapter!EstimatedTokens
<1> QED BY <1>1, <1>2, <1>3, <1>4 DEF AdapterInv

\* The second call starts with fresh counters.
LEMMA RelaunchKeeps ==
  ASSUME AdapterInv, Adapter!Relaunch
  PROVE  AdapterInv'
<1>1. /\ UNCHANGED <<config, chars, call, profile, attempt, answer>>
      /\ adapter = "relaunch" /\ adapter' = "launch" /\ status' = 0
      /\ sent' = [p \in Known |-> 0] /\ overflow' = {} /\ answer = "none"
  BY DEF Adapter!Relaunch, AdapterInv, Known
<1>2. Known' = Known /\ NothingSent'
  BY <1>1 DEF Known, NothingSent, Adapter!Profiles
<1>3. Adapter!TypeOK'
  BY <1>1 DEF AdapterInv, Adapter!TypeOK, Known, Adapter!Profiles
<1>4. Adapter!RequestsFit' /\ Adapter!RequestBound'
  BY <1>2 DEF NothingSent, Known, Adapter!RequestsFit, Adapter!RequestBound
<1>5. Adapter!LargeOnlyWhenNeeded'
  <2>1. config' \in Configs
    BY <1>1 DEF AdapterInv, Adapter!TypeOK
  <2>2. config'.large # NoProfile => config'.large \in Known'
    BY <1>1, <1>2, <2>1, Registry
  <2> QED BY <1>2, <2>2 DEF NothingSent, Adapter!LargeOnlyWhenNeeded
<1> QED BY <1>1, <1>2, <1>3, <1>4, <1>5 DEF AdapterInv

-----------------------------------------------------------------------------
(* The job.  JobKnows names what each step can rely on: what the verdict in  *)
(* work stems from, and what the report of the moment is.                    *)

Oversized == outcome = "oversized" \/ answer = "capacity"

AdapterIdle ==
  /\ adapter = "launch" /\ call = 1 /\ profile = NoProfile /\ attempt = 0
  /\ overflow = {} /\ status = 0 /\ answer = "none"

\* The content of response.txt while the adapter runs and when it is done.
ReportHeld ==
  /\ adapter \in {"launch", "check", "select", "send"} => report = <<>>
  /\ adapter = "exited" => (report = <<>> <=> status # 0)
  /\ answer = "response" => report # <<>> /\ (call = 1 => Accepts(report))
  /\ answer = "failed" => report = <<>>

ReportSteps == {"validate", "parse", "comment", "record"}

\* What the report under validation is.
ReportStems ==
  \/ Oversized /\ report = CapacityReport
  \/ Called /\ answer = "response" /\ report # <<>>

JobKnows ==
  /\ step \in {"case", "model", "capacity", "publish"} \cup ReportSteps
  /\ failed \in BOOLEAN
  /\ report \in Reported
  /\ ~Called => AdapterIdle
  /\ Called => AdapterInv /\ outcome = "case"
  /\ step = "case" => ~Called /\ report = <<>>
  /\ step = "model" => Called /\ ReportHeld
  /\ step = "capacity" => Oversized
  /\ step \in {"case", "model", "capacity", "validate", "parse"} => ~failed /\ line = NoLine
  /\ step \in ReportSteps => ReportStems
  /\ step \in ReportSteps \ {"validate"} => Accepts(report)
  /\ step \in {"comment", "record"} => line = GateLine(report)
  /\ step = "comment" => ~failed /\ GateToken(line) \in Verdicts
  /\ step = "record" => failed /\ ~Oversized
  /\ step = "publish" => failed /\ line = NoLine /\ ~Oversized

JobInv == CaptureInv /\ JobKnows

\* The job begins with the case, before any call.
LEMMA JobInitEstablishes == JobInit => JobInv
<1> SUFFICES ASSUME JobInit PROVE JobInv
  OBVIOUS
<1>1. CaptureInv
  BY InitEstablishes DEF JobInit
<1>2. report = <<>> /\ <<>> \in Reported
  BY DEF JobInit, Reported
<1> QED BY <1>1, <1>2 DEF JobInv, JobKnows, JobInit, Called, AdapterIdle, ReportSteps

\* The capture goes on, or is not touched.
LEMMA CaptureGoesOn ==
  ASSUME CaptureInv, [JobNext]_jobVars
  PROVE  CaptureInv'
<1>1. [Next]_vars
  BY DEF JobNext, JobMain, CaseMain, CaseReader, CaseGit, EndCase, CallModel,
     CheckFirstCall, CallAgain, CheckSecondCall, EndModel, WriteCapacity, Validate,
     Parse, Next, caseVars, jobVars
<1> QED BY <1>1, StepKeeps

\* While the case is built nothing else of the job moves.
LEMMA CaseKeeps ==
  ASSUME JobInv, step = "case",
         UNCHANGED <<adapterVars, step, failed, report, line>>
  PROVE  JobKnows'
BY DEF JobInv, JobKnows, adapterVars, Called, AdapterIdle, ReportSteps

\* The case of a diff that fits goes to the adapter, with fresh counters.
LEMMA EndCaseKeeps ==
  ASSUME JobInv, EndCase
  PROVE  JobKnows'
<1>1. step = "case" /\ ~Called /\ ~failed /\ report = <<>> /\ line = NoLine
      /\ AdapterIdle /\ report \in Reported /\ failed \in BOOLEAN
  BY DEF JobInv, JobKnows, EndCase
<1>2. UNCHANGED <<outcome, adapter, call, profile, attempt, overflow, status, answer,
                  report>>
  BY DEF EndCase, caseVars, vars, mainVars
<1>3. CASE outcome = "case"
  <2>1. /\ step' = "model" /\ failed' = failed /\ line' = line /\ config' \in Configs
        /\ chars' \in Sizes /\ sent' = [p \in Known' |-> 0]
    BY <1>3 DEF EndCase, Proceed, Known
  <2>2. Called'
    BY <2>1, RegistryOf DEF Called
  <2>3. Adapter!TypeOK'
    BY <1>1, <1>2, <2>1 DEF Adapter!TypeOK, AdapterIdle, Known
  <2>4. NothingSent'
    BY <1>1, <1>2, <2>1 DEF NothingSent, AdapterIdle
  <2>5. Adapter!RequestsFit' /\ Adapter!RequestBound' /\ Adapter!LargeOnlyWhenNeeded'
    <3>1. config'.large # NoProfile => config'.large \in Known'
      BY <2>1, RegistryOf DEF Known
    <3> QED BY <2>4, <3>1 DEF NothingSent, Known, Adapter!RequestsFit,
               Adapter!RequestBound, Adapter!LargeOnlyWhenNeeded
  <2>6. AdapterInv'
    BY <1>1, <1>2, <2>3, <2>4, <2>5 DEF AdapterInv, AdapterIdle
  <2>7. ReportHeld'
    BY <1>1, <1>2 DEF ReportHeld, AdapterIdle
  <2> QED BY <1>1, <1>2, <1>3, <2>1, <2>2, <2>6, <2>7 DEF JobKnows, ReportSteps
<1>4. CASE outcome # "case"
  <2>1. UNCHANGED <<config, chars, sent>> /\ line' = line
    BY <1>4 DEF EndCase
  <2>2. \/ outcome = "oversized" /\ step' = "capacity" /\ failed' = failed
        \/ outcome = "failed" /\ step' = "publish" /\ failed' = TRUE
    BY <1>1, <1>4 DEF EndCase, Proceed, FailStep
  <2>3. ~Called' /\ AdapterIdle'
    BY <1>1, <1>2, <2>1 DEF Called, AdapterIdle
  <2>4. CASE outcome = "oversized" /\ step' = "capacity" /\ failed' = failed
    <3>1. Oversized'
      BY <1>2, <2>4 DEF Oversized
    <3> QED BY <1>1, <1>2, <2>1, <2>3, <2>4, <3>1 DEF JobKnows, ReportSteps
  <2>5. CASE outcome = "failed" /\ step' = "publish" /\ failed' = TRUE
    <3>1. ~Oversized'
      BY <1>1, <1>2, <2>5 DEF Oversized, AdapterIdle
    <3> QED BY <1>1, <1>2, <2>1, <2>3, <2>5, <3>1 DEF JobKnows, ReportSteps
  <2> QED BY <2>2, <2>4, <2>5
<1> QED BY <1>3, <1>4

\* A step of the adapter answers, fails, or moves on with no report yet.
LEMMA CallModelKeeps ==
  ASSUME JobInv, CallModel
  PROVE  JobKnows'
<1>1. step = "model" /\ Called /\ AdapterInv /\ ReportHeld /\ outcome = "case"
      /\ failed \in BOOLEAN /\ ~failed /\ line = NoLine /\ report \in Reported
  BY DEF JobInv, JobKnows, CallModel
<1>2. UNCHANGED <<outcome, step, failed, line>>
  BY DEF CallModel, caseVars, vars, mainVars
<1>3. config' = config /\ Called'
  BY <1>1 DEF CallModel, Called, Adapter!Launch, Adapter!CheckInput, Adapter!SelectProfile,
     Adapter!TransientStatus, Adapter!ContextOverflow, Adapter!AnswerOrError
<1>4. AdapterInv' /\ answer = "none" /\ answer' = "none" /\ report = <<>>
  BY <1>1, QuietKeeps, SelectKeeps, AnswerKeeps, OverflowKeeps
     DEF CallModel, AdapterInv, ReportHeld, Adapter!Launch, Adapter!CheckInput,
         Adapter!SelectProfile, Adapter!TransientStatus, Adapter!ContextOverflow,
         Adapter!AnswerOrError
<1>5. report' \in Reported /\ ReportHeld'
  <2>1. CASE Adapter!AnswerOrError /\ status' = 0 /\ report' \in Answers(config, chars)
    <3>1. config \in Configs /\ chars \in Sizes
      BY <1>1 DEF AdapterInv, Adapter!TypeOK
    <3>2. report' \in Reported /\ report' # <<>>
      BY <2>1, <3>1, AnswersAreReports DEF Reported
    <3> QED BY <1>4, <2>1, <3>2 DEF ReportHeld, Adapter!AnswerOrError, Adapter!Exit
  <2>2. CASE Adapter!AnswerOrError /\ status' # 0 /\ report' = report
    BY <1>1, <1>4, <2>2 DEF ReportHeld, Adapter!AnswerOrError, Adapter!Exit
  <2>3. CASE /\ \/ Adapter!Launch \/ Adapter!CheckInput \/ Adapter!SelectProfile
                \/ Adapter!TransientStatus \/ Adapter!ContextOverflow
             /\ report' = report
    <3>1. \/ adapter' \in {"check", "select", "send"}
          \/ adapter' = "exited" /\ status' \in {1, 2, 3}
      BY <1>1, <2>3
         DEF AdapterInv, Adapter!Launch, Adapter!CheckInput, Adapter!SelectProfile,
             Adapter!Select, Adapter!TransientStatus, Adapter!ContextOverflow,
             Adapter!Exit, Adapter!Capacity, Adapter!Failure, Adapter!Rejected
    <3> QED BY <1>1, <1>4, <2>3, <3>1 DEF ReportHeld
  <2> QED BY <2>1, <2>2, <2>3 DEF CallModel
<1> QED BY <1>1, <1>2, <1>3, <1>4, <1>5 DEF JobKnows, ReportSteps

\* The workflow between and after the calls.
LEMMA BetweenCallsKeeps ==
  ASSUME JobInv, CheckFirstCall \/ CallAgain \/ CheckSecondCall
  PROVE  JobKnows'
<1>1. step = "model" /\ Called /\ AdapterInv /\ ReportHeld /\ outcome = "case"
      /\ failed \in BOOLEAN /\ ~failed /\ line = NoLine /\ report \in Reported
  BY DEF JobInv, JobKnows, CheckFirstCall, CallAgain, CheckSecondCall
<1>2. UNCHANGED <<outcome, step, failed, line, config>> /\ Called'
  BY <1>1 DEF CheckFirstCall, CallAgain, CheckSecondCall, caseVars, vars, mainVars,
     Adapter!EndFirstCall, Adapter!Relaunch, Adapter!EndSecondCall, Called
<1>3. AdapterInv'
  BY <1>1, WorkflowKeeps, RelaunchKeeps DEF CheckFirstCall, CallAgain, CheckSecondCall
<1>4. report' \in Reported /\ ReportHeld'
  <2>1. CASE CheckFirstCall
    BY <1>1, <2>1 DEF CheckFirstCall, Adapter!EndFirstCall, Adapter!Finish,
       Adapter!Capacity, ReportHeld, AdapterInv
  <2>2. CASE CallAgain
    <3>1. report' = <<>> /\ adapter' = "launch" /\ answer' = "none"
      BY <1>1, <2>2 DEF CallAgain, Adapter!Relaunch, AdapterInv
    <3> QED BY <1>1, <3>1 DEF ReportHeld, Reported
  <2>3. CASE CheckSecondCall
    BY <1>1, <2>3 DEF CheckSecondCall, Adapter!EndSecondCall, Adapter!Finish,
       ReportHeld, AdapterInv
  <2> QED BY <2>1, <2>2, <2>3
<1> QED BY <1>1, <1>2, <1>3, <1>4 DEF JobKnows, ReportSteps

\* The model step ends with a report to validate, with the capacity report to
\* write, or fails.
LEMMA EndModelKeeps ==
  ASSUME JobInv, EndModel
  PROVE  JobKnows'
<1>1. step = "model" /\ Called /\ AdapterInv /\ ReportHeld /\ outcome = "case"
      /\ failed \in BOOLEAN /\ ~failed /\ line = NoLine /\ report \in Reported
  BY DEF JobInv, JobKnows, EndModel
<1>2. UNCHANGED <<outcome, adapterVars, line, report>>
  BY DEF EndModel, caseVars, vars, mainVars
<1>3. AdapterInv' /\ Called'
  BY <1>1, <1>2 DEF adapterVars, Called, AdapterInv, Known, Held, NobodyFits, Prepared,
     NothingSent, Adapter!TypeOK, Adapter!RequestsFit, Adapter!RequestBound,
     Adapter!LargeOnlyWhenNeeded, Adapter!Profiles, Adapter!Fits, Adapter!HasBudget,
     Adapter!EstimatedTokens
<1>4. answer' = answer
  BY <1>2 DEF adapterVars
<1>5. CASE answer = "response" /\ step' = "validate" /\ failed' = failed
  <2>1. ReportStems'
    BY <1>1, <1>2, <1>3, <1>4, <1>5 DEF ReportStems, ReportHeld
  <2> QED BY <1>1, <1>2, <1>3, <1>4, <1>5, <2>1 DEF JobKnows, ReportSteps
<1>6. CASE answer = "capacity" /\ step' = "capacity" /\ failed' = failed
  <2>1. Oversized'
    BY <1>4, <1>6 DEF Oversized
  <2> QED BY <1>1, <1>2, <1>3, <1>4, <1>6, <2>1 DEF JobKnows, ReportSteps
<1>7. CASE answer = "failed" /\ step' = "publish" /\ failed' = TRUE
  <2>1. ~Oversized'
    BY <1>1, <1>2, <1>4, <1>7 DEF Oversized
  <2> QED BY <1>1, <1>2, <1>3, <1>4, <1>7, <2>1 DEF JobKnows, ReportSteps
<1> QED BY <1>1, <1>5, <1>6, <1>7 DEF EndModel, Proceed, FailStep

\* Writing, validating and parsing the report leave the adapter alone.
LEMMA ReportStepsKeep ==
  ASSUME JobInv, WriteCapacity \/ Validate \/ Parse
  PROVE  JobKnows'
<1>1. UNCHANGED <<outcome, adapterVars>> /\ answer' = answer /\ Called' = Called
      /\ Oversized' = Oversized
  BY DEF WriteCapacity, Validate, Parse, caseVars, vars, mainVars, adapterVars,
         Called, Oversized
<1>2. /\ ~Called' => AdapterIdle'
      /\ Called' => AdapterInv' /\ outcome' = "case"
  <2>1. ~Called => AdapterIdle'
    BY <1>1 DEF JobInv, JobKnows, adapterVars, AdapterIdle
  <2>2. Called => AdapterInv'
    BY <1>1 DEF JobInv, JobKnows, adapterVars, AdapterInv, Known, Held, NobodyFits,
       Prepared, NothingSent, Adapter!TypeOK, Adapter!RequestsFit, Adapter!RequestBound,
       Adapter!LargeOnlyWhenNeeded, Adapter!Profiles, Adapter!Fits, Adapter!HasBudget,
       Adapter!EstimatedTokens
  <2> QED BY <1>1, <2>1, <2>2 DEF JobInv, JobKnows
<1>3. failed \in BOOLEAN /\ ~failed /\ line = NoLine /\ report \in Reported
  BY DEF JobInv, JobKnows, WriteCapacity, Validate, Parse
<1>4. CASE WriteCapacity
  <2>1. Oversized /\ report' = CapacityReport /\ step' = "validate"
        /\ UNCHANGED <<failed, line>>
    BY <1>4 DEF JobInv, JobKnows, WriteCapacity, Proceed
  <2> QED BY <1>1, <1>2, <1>3, <2>1, CapacityAccepted DEF JobKnows, ReportSteps, ReportStems
<1>5. CASE Validate
  <2>1. ReportStems /\ ReportStems' /\ UNCHANGED <<report, line>>
    BY <1>1, <1>5 DEF JobInv, JobKnows, Validate, ReportSteps, ReportStems
  <2>2. CASE Accepts(report)
    <3>1. step' = "parse" /\ failed' = failed
      BY <1>5, <2>2 DEF Validate, Proceed
    <3> QED BY <1>1, <1>2, <1>3, <2>1, <2>2, <3>1 DEF JobKnows, ReportSteps
  <2>3. CASE ~Accepts(report)
    <3>1. step' = "publish" /\ failed' = TRUE
      BY <1>3, <1>5, <2>3 DEF Validate, FailStep
    <3>2. ~Oversized
      BY <2>1, <2>3, CapacityAccepted DEF ReportStems, Oversized, JobInv, JobKnows
    <3> QED BY <1>1, <1>2, <1>3, <2>1, <3>1, <3>2 DEF JobKnows, ReportSteps
  <2> QED BY <2>2, <2>3
<1>6. CASE Parse
  <2>1. /\ ReportStems /\ ReportStems' /\ Accepts(report) /\ report' = report
        /\ line' = GateLine(report)
    BY <1>1, <1>6 DEF JobInv, JobKnows, Parse, ReportSteps, ReportStems
  <2>2. line' # NoLine
    <3>1. line'.kind = "verdict"
      BY <1>3, <2>1, AcceptedReport DEF GateLine, VerdictRead
    <3>2. NoLine.kind = "none"
      BY DEF NoLine, Line
    <3> QED BY <3>1, <3>2
  <2>3. CASE GateToken(line') \in Verdicts
    <3>1. step' = "comment" /\ failed' = failed
      BY <1>6, <2>3 DEF Parse, Proceed
    <3> QED BY <1>1, <1>2, <1>3, <2>1, <2>3, <3>1 DEF JobKnows, ReportSteps
  <2>4. CASE GateToken(line') \notin Verdicts
    <3>1. step' = "record" /\ failed' = TRUE
      BY <1>6, <2>2, <2>4 DEF Parse, FailStep
    <3>2. ~Oversized
      BY <2>1, <2>4, CapacityAccepted DEF ReportStems, Oversized, JobInv, JobKnows, Verdicts
    <3> QED BY <1>1, <1>2, <1>3, <2>1, <3>1, <3>2 DEF JobKnows, ReportSteps
  <2> QED BY <2>3, <2>4
<1> QED BY <1>4, <1>5, <1>6

\* Every step keeps the invariant.
LEMMA JobStepKeeps == JobInv /\ [JobNext]_jobVars => JobInv'
<1> SUFFICES ASSUME JobInv, [JobNext]_jobVars PROVE JobInv'
  OBVIOUS
<1>1. CaptureInv'
  BY CaptureGoesOn DEF JobInv
<1>2. CASE JobNext
  <2>1. CaseMain \/ CaseReader \/ CaseGit => JobKnows'
    BY CaseKeeps DEF CaseMain, CaseReader, CaseGit
  <2>2. JobKnows'
    BY <1>2, <2>1, EndCaseKeeps, CallModelKeeps, BetweenCallsKeeps,
       EndModelKeeps, ReportStepsKeep DEF JobNext, JobMain
  <2> QED BY <1>1, <2>2 DEF JobInv
<1>3. CASE UNCHANGED jobVars
  <2>1. UNCHANGED <<outcome, adapterVars, step, failed, report, line>>
    BY <1>3 DEF jobVars, caseVars, vars, mainVars
  <2>2. JobKnows'
    BY <2>1 DEF JobInv, JobKnows, adapterVars, Called, AdapterIdle, AdapterInv, Known, Held,
       NobodyFits, Prepared, NothingSent, ReportHeld, ReportStems, Oversized,
       Adapter!TypeOK, Adapter!RequestsFit, Adapter!RequestBound,
       Adapter!LargeOnlyWhenNeeded, Adapter!Profiles, Adapter!Fits, Adapter!HasBudget,
       Adapter!EstimatedTokens
  <2> QED BY <1>1, <2>2 DEF JobInv
<1> QED BY <1>1, <1>2, <1>3 DEF JobInv

\* The job keeps its invariant.
THEOREM JobInvariant == JobSpec => []JobInv
BY JobInitEstablishes, JobStepKeeps, PTL DEF JobSpec

-----------------------------------------------------------------------------
(* What the verdicts rest on *)

\* A line that was parsed is the last verdict line of an accepted report.
LEMMA ParsedLine ==
  ASSUME JobInv, line # NoLine
  PROVE  /\ step \in {"comment", "record"} /\ ReportStems
         /\ report \in Reported /\ Accepts(report)
         /\ line = GateLine(report) /\ line = VerdictRead(report)
         /\ line.kind = "verdict"
<1>1. step \in {"comment", "record"} /\ ReportStems /\ report \in Reported
      /\ Accepts(report) /\ line = GateLine(report)
  BY DEF JobInv, JobKnows, ReportSteps
<1>2. line = VerdictRead(report)
  BY <1>1 DEF GateLine, VerdictRead
<1> QED BY <1>1, <1>2, AcceptedReport

\* In every state each request is justified, and the variables are typed.
LEMMA InvJustifies == JobInv => CallsAreJustified
<1> SUFFICES ASSUME JobInv PROVE CallsAreJustified
  OBVIOUS
<1>1. \A i \in DOMAIN report :
        report[i].kind \in {"text", "talk", "fence", "blank", "verdict", "json"}
  <2>1. report \in Seq(ReportLines)
    BY DEF JobInv, JobKnows, Reported
  <2>2. \A i \in DOMAIN report : report[i] \in ReportLines
    BY <2>1
  <2> QED BY <2>2, LineKinds
<1>2. JobTypeOK
  <2>1. line = NoLine \/ line.kind = "verdict"
    BY ParsedLine
  <2>2. TypeOK
    BY DEF JobInv, CaptureInv
  <2>3. /\ step \in {"case", "model", "capacity", "validate", "parse", "comment",
                     "record", "publish"}
        /\ failed \in BOOLEAN
        /\ Called => Adapter!TypeOK
    BY DEF JobInv, JobKnows, ReportSteps, AdapterInv
  <2> QED BY <1>1, <2>1, <2>2, <2>3 DEF JobTypeOK
<1>3. RequestsFit /\ RequestBound /\ LargeOnlyWhenNeeded
  BY DEF JobInv, JobKnows, AdapterInv, RequestsFit, RequestBound, LargeOnlyWhenNeeded
<1>4. CapacityIsReal
  BY DEF JobInv, JobKnows, AdapterInv, NobodyFits, Held, Known, CapacityIsReal,
         Adapter!CapacityIsReal
<1> QED BY <1>2, <1>3, <1>4 DEF CallsAreJustified

\* Whatever registry the adapter reads, whatever the input's size and the
\* statuses of the two calls: a request fits its profile, no profile gets a
\* third one in a call, the large profile is used only when the active one
\* cannot take the input, and a capacity exit is real (ci/call_model.py:132-420).
THEOREM CallsAreJustifiedHolds == JobSpec => []CallsAreJustified
BY JobInvariant, InvJustifies, PTL

\* An approval stems from a request about a case that holds the complete diff.
LEMMA InvEarns == JobInv => ApprovalIsEarned
<1> SUFFICES ASSUME JobInv, step = "comment", GateToken(line) = "APPROVE"
             PROVE  /\ outcome = "case" /\ output = size
                    /\ \E p \in DOMAIN sent : sent[p] > 0
                    /\ JsonLine("APPROVE") \in {report[i] : i \in DOMAIN report}
  BY DEF ApprovalIsEarned
<1>1. ReportStems /\ report \in Reported /\ Accepts(report) /\ line = GateLine(report)
  BY DEF JobInv, JobKnows, ReportSteps
<1>2. Called /\ answer = "response"
  BY <1>1, CapacityAccepted DEF ReportStems
<1>3. outcome = "case" /\ AdapterInv
  BY <1>2 DEF JobInv, JobKnows
<1>4. output = size
  BY <1>3 DEF JobInv, CaptureInv, CaseIsComplete
<1>5. \E p \in DOMAIN sent : sent[p] > 0
  BY <1>2, <1>3 DEF AdapterInv, Adapter!TypeOK, Known
<1>6. VerdictRead(report).token = "APPROVE"
  BY <1>1, Zenon DEF GateToken, GateLine, VerdictRead
<1>7. JsonLine(VerdictRead(report).token) \in {report[i] : i \in DOMAIN report}
  BY <1>1, AcceptedReport
<1> QED BY <1>3, <1>4, <1>5, <1>6, <1>7

\* An approval that reaches the comment covers the complete diff, which some
\* provider was sent, and its JSON companion says the same
\* (security-review.yml:290-442), for every diff, registry and report.
THEOREM ApprovalIsEarnedHolds == JobSpec => []ApprovalIsEarned
BY JobInvariant, InvEarns, PTL

\* What is oversized is on its way to the capacity report or has it.
LEMMA InvBlocks == JobInv => OversizedBlocks
<1> SUFFICES ASSUME JobInv, Settled, Oversized
             PROVE  step = "comment" /\ GateToken(line) = "NEEDS-HUMAN"
  BY DEF OversizedBlocks, Oversized
<1>1. step = "comment" /\ ReportStems /\ line = GateLine(report)
  BY DEF Settled, JobInv, JobKnows, ReportSteps
<1>2. ~(Called /\ answer = "response")
  BY DEF Oversized, JobInv, JobKnows
<1> QED BY <1>1, <1>2, CapacityAccepted DEF ReportStems

\* A diff above the limit or an input no profile takes ends in NEEDS-HUMAN,
\* never in a failed job (security-review.yml:335-349): the fixed report passes
\* the validator and the parser as they are.
THEOREM OversizedBlocksHolds == JobSpec => []OversizedBlocks
BY JobInvariant, InvBlocks, PTL

\* The gate reads the line that the validator accepted.
LEMMA InvGates == JobInv => GateTakesValidated
BY ParsedLine, Zenon DEF GateTakesValidated, GateToken

\* The gate never acts on another verdict than the accepted one: it takes the
\* same token or none (security-review.yml:402-442 against
\* check_pr_review_response.py), for every report.
THEOREM GateTakesValidatedHolds == JobSpec => []GateTakesValidated
BY JobInvariant, InvGates, PTL

-----------------------------------------------------------------------------
(* The refinement.  The job is one run of ReviewPipeline; each of its steps  *)
(* leaves that run where it is or takes one step of that module.             *)

RunAt(phase, state, response, verdict) ==
  [head |-> 1, compliant |-> TRUE, approved |-> FALSE, reviewed |-> FALSE,
   pc |-> phase, cancelled |-> FALSE, status |-> state,
   response |-> response, verdict |-> verdict]

\* The records of that shape, over the values in S.
RunsOver(S) ==
  [head : {1}, compliant : {TRUE}, approved : {FALSE}, reviewed : {FALSE},
   pc : S, cancelled : {FALSE}, status : S, response : S, verdict : S]

\* They are made of their four fields.
LEMMA RunsAreRunAt ==
  ASSUME NEW S, NEW x \in RunsOver(S)
  PROVE  x = RunAt(x.pc, x.status, x.response, x.verdict)
BY DEF RunsOver, RunAt

\* And every choice of the four makes one.
LEMMA RunAtIsRun ==
  ASSUME NEW S, NEW p \in S, NEW t \in S, NEW a \in S, NEW v \in S
  PROVE  RunAt(p, t, a, v) \in RunsOver(S)
BY DEF RunsOver, RunAt

\* Its fields.
LEMMA RunAtFields ==
  ASSUME NEW p, NEW t, NEW a, NEW v
  PROVE  /\ RunAt(p, t, a, v).pc = p
         /\ RunAt(p, t, a, v).status = t
         /\ RunAt(p, t, a, v).response = a
         /\ RunAt(p, t, a, v).verdict = v
BY DEF RunAt

\* The only run of the pipeline is the first.
LEMMA OneRun ==
  ASSUME NEW x, NEW y
  PROVE  <<x>>[1] = x /\ [<<x>> EXCEPT ![1] = y] = <<y>>
OBVIOUS

\* An update of the run is an update of the pipeline's runs.
LEMMA RunSet ==
  ASSUME NEW y, PipelineRun' = y
  PROVE  Pipeline!Set(1, y)
BY OneRun, Zenon DEF Pipeline!Set

\* A run that goes to its next step.
LEMMA GotoMaps ==
  ASSUME NEW p, NEW q, NEW t, NEW a, NEW v,
         PipelineRun = RunAt(p, t, a, v),
         PipelineRun' = RunAt(q, t, a, v)
  PROVE  Pipeline!Goto(1, q)
<1> DEFINE S == {p, t, a, v, q}
           x == <<PipelineRun>>[1]
           y == [x EXCEPT !.pc = q]
<1>1. p \in S /\ t \in S /\ a \in S /\ v \in S /\ q \in S
  OBVIOUS
<1> HIDE DEF S
<1>2. x = RunAt(p, t, a, v)
  BY OneRun, Zenon
<1> HIDE DEF x
<1>3. x.pc = p /\ x.status = t /\ x.response = a /\ x.verdict = v
  BY <1>2, RunAtFields
<1>4. x \in RunsOver(S)
  BY <1>1, <1>2, RunAtIsRun, Zenon
<1>5. y \in RunsOver(S)
  BY <1>1, <1>4 DEF RunsOver
<1>6. y.pc = q /\ y.status = t /\ y.response = a /\ y.verdict = v
  BY <1>1, <1>3, <1>4 DEF RunsOver
<1>7. y = PipelineRun'
  BY <1>5, <1>6, RunsAreRunAt, Zenon
<1> QED BY <1>7, RunSet, Zenon DEF Pipeline!Goto, x

\* The capacity report as the response.
LEMMA CapacityMaps ==
  ASSUME NEW p, NEW t, NEW a, NEW v,
         PipelineRun = RunAt(p, t, a, v),
         PipelineRun' = RunAt("validate", t, "NEEDS-HUMAN", v)
  PROVE  Pipeline!Capacity(1)
<1> DEFINE S == {p, t, a, v, "validate", "NEEDS-HUMAN"}
           x == <<PipelineRun>>[1]
           y == [x EXCEPT !.pc = "validate", !.response = "NEEDS-HUMAN"]
<1>1. p \in S /\ t \in S /\ a \in S /\ v \in S /\ "validate" \in S /\ "NEEDS-HUMAN" \in S
  OBVIOUS
<1> HIDE DEF S
<1>2. x = RunAt(p, t, a, v)
  BY OneRun, Zenon
<1> HIDE DEF x
<1>3. x.pc = p /\ x.status = t /\ x.response = a /\ x.verdict = v
  BY <1>2, RunAtFields
<1>4. x \in RunsOver(S)
  BY <1>1, <1>2, RunAtIsRun, Zenon
<1>5. y \in RunsOver(S)
  BY <1>1, <1>4 DEF RunsOver
<1>6. y.pc = "validate" /\ y.status = t /\ y.response = "NEEDS-HUMAN" /\ y.verdict = v
  BY <1>1, <1>3, <1>4 DEF RunsOver
<1>7. y = PipelineRun'
  BY <1>5, <1>6, RunsAreRunAt, Zenon
<1> QED BY <1>7, RunSet, Zenon DEF Pipeline!Capacity, x

\* A response of the model.
LEMMA ResponseMaps ==
  ASSUME NEW p, NEW q, NEW t, NEW a, NEW v, NEW w,
         PipelineRun = RunAt(p, t, a, v),
         PipelineRun' = RunAt(q, t, w, v)
  PROVE  Pipeline!Set(1, [<<PipelineRun>>[1] EXCEPT !.pc = q, !.response = w])
<1> DEFINE S == {p, t, a, v, q, w}
           x == <<PipelineRun>>[1]
           y == [x EXCEPT !.pc = q, !.response = w]
<1>1. p \in S /\ t \in S /\ a \in S /\ v \in S /\ q \in S /\ w \in S
  OBVIOUS
<1> HIDE DEF S
<1>2. x = RunAt(p, t, a, v)
  BY OneRun, Zenon
<1> HIDE DEF x
<1>3. x.pc = p /\ x.status = t /\ x.response = a /\ x.verdict = v
  BY <1>2, RunAtFields
<1>4. x \in RunsOver(S)
  BY <1>1, <1>2, RunAtIsRun, Zenon
<1>5. y \in RunsOver(S)
  BY <1>1, <1>4 DEF RunsOver
<1>6. y.pc = q /\ y.status = t /\ y.response = w /\ y.verdict = v
  BY <1>1, <1>3, <1>4 DEF RunsOver
<1>7. y = PipelineRun'
  BY <1>5, <1>6, RunsAreRunAt, Zenon
<1> QED BY <1>7, RunSet, Zenon DEF x

\* A verdict line whose token is the response.
LEMMA VerdictMaps ==
  ASSUME NEW p, NEW q, NEW t, NEW a, NEW v,
         PipelineRun = RunAt(p, t, a, v),
         PipelineRun' = RunAt(q, t, a, a)
  PROVE  Pipeline!Set(1, [<<PipelineRun>>[1] EXCEPT
           !.pc = q, !.verdict = <<PipelineRun>>[1].response])
<1> DEFINE S == {p, t, a, v, q}
           x == <<PipelineRun>>[1]
           y == [x EXCEPT !.pc = q, !.verdict = x.response]
<1>1. p \in S /\ t \in S /\ a \in S /\ v \in S /\ q \in S
  OBVIOUS
<1> HIDE DEF S
<1>2. x = RunAt(p, t, a, v)
  BY OneRun, Zenon
<1> HIDE DEF x
<1>3. x.pc = p /\ x.status = t /\ x.response = a /\ x.verdict = v
  BY <1>2, RunAtFields
<1>4. x \in RunsOver(S)
  BY <1>1, <1>2, RunAtIsRun, Zenon
<1>5. y \in RunsOver(S)
  BY <1>1, <1>4 DEF RunsOver
<1>6. y.pc = q /\ y.status = t /\ y.response = a /\ y.verdict = a
  BY <1>1, <1>3, <1>4 DEF RunsOver
<1>7. y = PipelineRun'
  BY <1>5, <1>6, RunsAreRunAt, Zenon
<1> QED BY <1>7, RunSet, Zenon DEF x

\* A verdict line that the gate does not take.
LEMMA RecordMaps ==
  ASSUME NEW p, NEW q, NEW t, NEW u, NEW a, NEW v,
         PipelineRun = RunAt(p, t, a, v),
         PipelineRun' = RunAt(q, u, a, a)
  PROVE  Pipeline!Set(1, [<<PipelineRun>>[1] EXCEPT
           !.pc = q, !.status = u, !.verdict = <<PipelineRun>>[1].response])
<1> DEFINE S == {p, t, a, v, q, u}
           x == <<PipelineRun>>[1]
           y == [x EXCEPT !.pc = q, !.status = u, !.verdict = x.response]
<1>1. p \in S /\ t \in S /\ a \in S /\ v \in S /\ q \in S /\ u \in S
  OBVIOUS
<1> HIDE DEF S
<1>2. x = RunAt(p, t, a, v)
  BY OneRun, Zenon
<1> HIDE DEF x
<1>3. x.pc = p /\ x.status = t /\ x.response = a /\ x.verdict = v
  BY <1>2, RunAtFields
<1>4. x \in RunsOver(S)
  BY <1>1, <1>2, RunAtIsRun, Zenon
<1>5. y \in RunsOver(S)
  BY <1>1, <1>4 DEF RunsOver
<1>6. y.pc = q /\ y.status = u /\ y.response = a /\ y.verdict = a
  BY <1>1, <1>3, <1>4 DEF RunsOver
<1>7. y = PipelineRun'
  BY <1>5, <1>6, RunsAreRunAt, Zenon
<1> QED BY <1>7, RunSet, Zenon DEF x

\* A run without a verdict line that is aborted goes to its publication.
LEMMA AbortMaps ==
  ASSUME NEW p, NEW a, p # "metadata",
         PipelineRun = RunAt(p, "success", a, "none"),
         PipelineRun' = RunAt("publish", "failure", a, "none")
  PROVE  Pipeline!Abort(1, "failure")
<1> DEFINE S == {p, "success", a, "none", "publish", "failure"}
           x == <<PipelineRun>>[1]
           z == IF x.pc = "metadata" THEN "ended"
                ELSE IF x.verdict = "none" THEN "publish" ELSE "record"
           y == [x EXCEPT !.status = "failure", !.pc = z]
<1>1. /\ p \in S /\ "success" \in S /\ a \in S
      /\ "none" \in S /\ "publish" \in S /\ "failure" \in S
  OBVIOUS
<1> HIDE DEF S
<1>2. x = RunAt(p, "success", a, "none")
  BY OneRun, Zenon
<1> HIDE DEF x
<1>3. x.pc = p /\ x.status = "success" /\ x.response = a /\ x.verdict = "none"
  BY <1>2, RunAtFields
<1>4. z = "publish"
  BY <1>3
<1> HIDE DEF z
<1>5. x \in RunsOver(S)
  BY <1>1, <1>2, RunAtIsRun, Zenon
<1>6. y \in RunsOver(S)
  BY <1>1, <1>4, <1>5 DEF RunsOver
<1>7. y.pc = "publish" /\ y.status = "failure" /\ y.response = a /\ y.verdict = "none"
  BY <1>1, <1>3, <1>4, <1>5 DEF RunsOver
<1>8. y = PipelineRun'
  BY <1>6, <1>7, RunsAreRunAt, Zenon
<1> QED BY <1>8, RunSet, Zenon DEF Pipeline!Abort, x, z

\* Where the job stands as a run of the pipeline.
LEMMA JobAsRun ==
  ASSUME JobInv
  PROVE  /\ step = "case" => PipelineRun = RunAt("case", "success", "none", "none")
         /\ step = "model" =>
              PipelineRun = RunAt(IF call = 2 THEN "retry" ELSE "model",
                                  "success", "none", "none")
         /\ step = "capacity" =>
              PipelineRun = RunAt("validate", "success", "NEEDS-HUMAN", "none")
         /\ step = "validate" =>
              PipelineRun = RunAt("validate", "success",
                                  IF Accepts(report) THEN VerdictRead(report).token
                                                     ELSE "invalid", "none")
         /\ step = "parse" =>
              PipelineRun = RunAt("parse", "success", VerdictRead(report).token, "none")
<1>1. CASE step \in {"case", "model", "capacity"}
  BY <1>1 DEF JobInv, JobKnows, PipelineRun, RunAt
<1>2. CASE step \in {"validate", "parse"}
  <2>1. report # <<>>
    BY <1>2, CapacityAccepted, EmptyRejected DEF JobInv, JobKnows, ReportSteps, ReportStems
  <2>2. ~failed /\ line = NoLine /\ (step = "parse" => Accepts(report))
    BY <1>2 DEF JobInv, JobKnows, ReportSteps
  <2> QED BY <1>2, <2>1, <2>2 DEF PipelineRun, RunAt
<1> QED BY <1>1, <1>2

\* A step that shows nothing of itself to the pipeline.
LEMMA Unseen ==
  ASSUME PipelineRun' = PipelineRun
  PROVE  UNCHANGED Pipeline!vars
BY DEF Pipeline!vars

\* Where the run stands, and that nothing but the run of the pipeline moves.
LEMMA RunStands ==
  ASSUME NEW p, NEW t, NEW a, NEW v, PipelineRun = RunAt(p, t, a, v)
  PROVE  /\ <<PipelineRun>>[1].pc = p /\ <<PipelineRun>>[1].response = a
         /\ Pipeline!RunOnly
<1>1. <<PipelineRun>>[1] = PipelineRun
  BY OneRun, Zenon
<1>2. PipelineRun.pc = p /\ PipelineRun.response = a
  BY RunAtFields
<1>3. Pipeline!RunOnly
  BY DEF Pipeline!RunOnly
<1> QED BY <1>1, <1>2, <1>3

\* The end of the case is the end of BuildCase or the failure of that step.
LEMMA EndCaseMaps ==
  ASSUME JobInv, EndCase
  PROVE  Pipeline!BuildCase(1) \/ Pipeline!StepFails(1)
<1>1. /\ step = "case" /\ ~failed /\ report = <<>> /\ line = NoLine /\ call = 1
      /\ PipelineRun = RunAt("case", "success", "none", "none")
  BY JobAsRun DEF JobInv, JobKnows, AdapterIdle, EndCase
<1>2. UNCHANGED <<call, report>>
  BY DEF EndCase
<1>3. <<PipelineRun>>[1].pc = "case" /\ Pipeline!RunOnly
  BY <1>1, RunStands
<1>4. CASE outcome = "case"
  <2>1. step' = "model" /\ failed' = failed /\ line' = line
    BY <1>4 DEF EndCase, Proceed
  <2>2. PipelineRun' = RunAt("model", "success", "none", "none")
    BY <1>1, <1>2, <2>1 DEF PipelineRun, RunAt
  <2>3. Pipeline!Goto(1, "model")
    BY <1>1, <2>2, GotoMaps
  <2> QED BY <1>3, <2>3 DEF Pipeline!BuildCase
<1>5. CASE outcome = "oversized"
  <2>1. step' = "capacity" /\ failed' = failed /\ line' = line
    BY <1>5 DEF EndCase, Proceed
  <2>2. PipelineRun' = RunAt("validate", "success", "NEEDS-HUMAN", "none")
    BY <1>1, <1>2, <2>1 DEF PipelineRun, RunAt
  <2>3. Pipeline!Capacity(1)
    BY <1>1, <2>2, CapacityMaps
  <2> QED BY <1>3, <2>3 DEF Pipeline!BuildCase
<1>6. CASE outcome = "failed"
  <2>1. step' = "publish" /\ failed' = TRUE /\ line' = line
    BY <1>1, <1>6 DEF EndCase, FailStep
  <2>2. PipelineRun' = RunAt("publish", "failure", "none", "none")
    BY <1>1, <1>2, <2>1 DEF PipelineRun, RunAt
  <2>3. Pipeline!Abort(1, "failure")
    BY <1>1, <2>2, AbortMaps
  <2> QED BY <1>3, <2>3
          DEF Pipeline!StepFails, Pipeline!StepPhases, Pipeline!ModelPhases
<1> QED BY <1>4, <1>5, <1>6 DEF EndCase

\* The calls show the pipeline nothing but the second one.
LEMMA CallsMap ==
  ASSUME JobInv, CallModel \/ CheckFirstCall \/ CallAgain \/ CheckSecondCall
  PROVE  Pipeline!RunModel(1) \/ UNCHANGED Pipeline!vars
<1>1. step = "model" /\ AdapterInv /\ ~failed /\ line = NoLine
      /\ UNCHANGED <<step, failed, line>>
  BY DEF JobInv, JobKnows, CallModel, CheckFirstCall, CallAgain, CheckSecondCall
<1>2. CASE call' = call
  <2>1. PipelineRun' = PipelineRun
    BY <1>1, <1>2 DEF PipelineRun
  <2> QED BY <2>1, Unseen
<1>3. CASE call' # call
  <2>1. CheckFirstCall /\ call = 1 /\ call' = 2
    BY <1>3 DEF CallModel, CheckFirstCall, CallAgain, CheckSecondCall, Adapter!Launch,
       Adapter!CheckInput, Adapter!SelectProfile, Adapter!TransientStatus,
       Adapter!ContextOverflow, Adapter!AnswerOrError, Adapter!EndFirstCall,
       Adapter!Relaunch, Adapter!EndSecondCall
  <2>2. PipelineRun = RunAt("model", "success", "none", "none")
    BY <1>1, <2>1, JobAsRun
  <2>3. PipelineRun' = RunAt("retry", "success", "none", "none")
    BY <1>1, <2>1 DEF PipelineRun, RunAt
  <2>4. Pipeline!Goto(1, "retry")
    BY <2>2, <2>3, GotoMaps
  <2>5. <<PipelineRun>>[1].pc = "model" /\ Pipeline!RunOnly
    BY <2>2, RunStands
  <2> QED BY <2>4, <2>5 DEF Pipeline!RunModel
<1> QED BY <1>2, <1>3

\* The end of the model step is a response, the capacity report or a failure.
LEMMA EndModelMaps ==
  ASSUME JobInv, EndModel
  PROVE  Pipeline!RunModel(1) \/ Pipeline!RetryModel(1) \/ Pipeline!StepFails(1)
<1> DEFINE p == IF call = 2 THEN "retry" ELSE "model"
<1>1. /\ step = "model" /\ AdapterInv /\ ReportHeld /\ ~failed /\ line = NoLine
      /\ report \in Reported /\ call \in {1, 2}
  BY DEF JobInv, JobKnows, EndModel, AdapterInv, Adapter!TypeOK
<1>2. UNCHANGED <<call, report, line>>
  BY DEF EndModel, adapterVars
<1>3. PipelineRun = RunAt(p, "success", "none", "none")
  BY <1>1, JobAsRun
<1>4. <<PipelineRun>>[1].pc = p /\ Pipeline!RunOnly
  BY <1>3, RunStands
<1>5. CASE answer = "response" /\ step' = "validate" /\ failed' = failed
  <2> DEFINE w == IF Accepts(report) THEN VerdictRead(report).token ELSE "invalid"
  <2>1. PipelineRun' = RunAt("validate", "success", w, "none")
    BY <1>1, <1>2, <1>5 DEF PipelineRun, RunAt, ReportHeld
  <2>2. Pipeline!Set(1, [<<PipelineRun>>[1] EXCEPT !.pc = "validate", !.response = w])
    <3> HIDE DEF w, p
    <3> QED BY <1>3, <2>1, ResponseMaps
  <2>3. w \in Verdicts \cup {"invalid"} /\ (call = 1 => w \in Verdicts)
    BY <1>1, <1>5, AcceptedReport DEF ReportHeld
  <2>4. Pipeline!Verdicts = Verdicts
    BY DEF Pipeline!Verdicts, Verdicts
  <2> HIDE DEF w
  <2>5. CASE call = 1
    <3>1. <<PipelineRun>>[1].pc = "model" /\ w \in Pipeline!Verdicts
      BY <1>4, <2>3, <2>4, <2>5
    <3> QED BY <1>4, <2>2, <3>1, Zenon DEF Pipeline!RunModel
  <2>6. CASE call = 2
    BY <1>4, <2>2, <2>3, <2>4, <2>6 DEF Pipeline!RetryModel
  <2> QED BY <1>1, <2>5, <2>6
<1>6. CASE answer = "capacity" /\ step' = "capacity" /\ failed' = failed
  <2>1. call = 1
    BY <1>1, <1>6 DEF AdapterInv
  <2>2. PipelineRun' = RunAt("validate", "success", "NEEDS-HUMAN", "none")
    BY <1>1, <1>2, <1>6 DEF PipelineRun, RunAt
  <2>3. Pipeline!Capacity(1)
    BY <1>3, <2>2, CapacityMaps
  <2>4. <<PipelineRun>>[1].pc = "model"
    BY <1>4, <2>1
  <2> QED BY <1>4, <2>3, <2>4, Zenon DEF Pipeline!RunModel
<1>7. CASE answer = "failed" /\ step' = "publish" /\ failed' = TRUE
  <2>1. PipelineRun' = RunAt("publish", "failure", "none", "none")
    BY <1>1, <1>2, <1>7 DEF PipelineRun, RunAt, ReportHeld
  <2>2. p \in {"model", "retry"} /\ p # "metadata"
    OBVIOUS
  <2>3. Pipeline!Abort(1, "failure")
    <3> HIDE DEF p
    <3> QED BY <1>3, <2>1, <2>2, AbortMaps
  <2> QED BY <1>4, <2>2, <2>3
          DEF Pipeline!StepFails, Pipeline!StepPhases, Pipeline!ModelPhases
<1> QED BY <1>1, <1>5, <1>6, <1>7 DEF EndModel, Proceed, FailStep

\* The capacity report says what the pipeline took it to say.
LEMMA WriteCapacityMaps ==
  ASSUME JobInv, WriteCapacity
  PROVE  UNCHANGED Pipeline!vars
<1>1. PipelineRun = RunAt("validate", "success", "NEEDS-HUMAN", "none")
  BY JobAsRun DEF WriteCapacity
<1>2. /\ step' = "validate" /\ ~failed' /\ line' = NoLine /\ report' = CapacityReport
      /\ CapacityReport # <<>>
  BY CapacityAccepted, EmptyRejected DEF JobInv, JobKnows, WriteCapacity, Proceed
<1>3. PipelineRun' = RunAt("validate", "success", "NEEDS-HUMAN", "none")
  BY <1>2, CapacityAccepted DEF PipelineRun, RunAt
<1> QED BY <1>1, <1>3, Unseen

\* The validator passes exactly the responses that are a verdict.
LEMMA ValidateMaps ==
  ASSUME JobInv, Validate
  PROVE  Pipeline!ValidateReport(1)
<1>1. /\ step = "validate" /\ ~failed /\ line = NoLine /\ report \in Reported
      /\ UNCHANGED <<report, line>>
  BY DEF JobInv, JobKnows, Validate, Proceed, FailStep
<1>2. report # <<>>
  BY <1>1, CapacityAccepted, EmptyRejected DEF JobInv, JobKnows, ReportSteps, ReportStems
<1>3. CASE Accepts(report)
  <2> DEFINE w == VerdictRead(report).token
  <2>1. PipelineRun = RunAt("validate", "success", w, "none")
    BY <1>1, <1>3, JobAsRun
  <2>2. step' = "parse" /\ failed' = failed
    BY <1>3 DEF Validate, Proceed
  <2>3. PipelineRun' = RunAt("parse", "success", w, "none")
    BY <1>1, <1>2, <1>3, <2>2 DEF PipelineRun, RunAt
  <2>4. w # "invalid"
    BY <1>1, <1>3, AcceptedReport DEF Verdicts
  <2> HIDE DEF w
  <2>5. Pipeline!Goto(1, "parse")
    BY <2>1, <2>3, GotoMaps
  <2>6. /\ <<PipelineRun>>[1].pc = "validate" /\ <<PipelineRun>>[1].response = w
        /\ Pipeline!RunOnly
    BY <2>1, RunStands
  <2> QED BY <2>4, <2>5, <2>6 DEF Pipeline!ValidateReport
<1>4. CASE ~Accepts(report)
  <2>1. PipelineRun = RunAt("validate", "success", "invalid", "none")
    BY <1>1, <1>4, JobAsRun
  <2>2. step' = "publish" /\ failed' = TRUE
    BY <1>1, <1>4 DEF Validate, FailStep
  <2>3. PipelineRun' = RunAt("publish", "failure", "invalid", "none")
    BY <1>1, <1>2, <1>4, <2>2 DEF PipelineRun, RunAt
  <2>4. Pipeline!Abort(1, "failure")
    BY <2>1, <2>3, AbortMaps
  <2>5. /\ <<PipelineRun>>[1].pc = "validate" /\ <<PipelineRun>>[1].response = "invalid"
        /\ Pipeline!RunOnly
    BY <2>1, RunStands
  <2> QED BY <2>4, <2>5 DEF Pipeline!ValidateReport
<1> QED BY <1>3, <1>4

\* The line of an accepted report has the response as its token.
LEMMA ParseMaps ==
  ASSUME JobInv, Parse
  PROVE  Pipeline!ParseVerdict(1)
<1> DEFINE w == VerdictRead(report).token
<1>1. /\ step = "parse" /\ ~failed /\ line = NoLine /\ report \in Reported
      /\ Accepts(report) /\ report' = report /\ line' = VerdictRead(report)
      /\ PipelineRun = RunAt("parse", "success", w, "none")
  BY JobAsRun DEF JobInv, JobKnows, Parse, ReportSteps, GateLine, VerdictRead
<1>2. report # <<>>
  BY <1>1, EmptyRejected
<1>3. line' # NoLine
  BY <1>1, AcceptedReport DEF NoLine, Line
<1>4. /\ <<PipelineRun>>[1].pc = "parse" /\ <<PipelineRun>>[1].response = w
      /\ Pipeline!RunOnly
  BY <1>1, RunStands
<1>5. CASE step' = "comment" /\ failed' = failed
  <2>1. PipelineRun' = RunAt("comment", "success", w, w)
    BY <1>1, <1>2, <1>3, <1>5 DEF PipelineRun, RunAt
  <2> HIDE DEF w
  <2>2. Pipeline!Set(1, [<<PipelineRun>>[1] EXCEPT
          !.pc = "comment", !.verdict = <<PipelineRun>>[1].response])
    BY <1>1, <2>1, VerdictMaps
  <2> QED BY <1>4, <2>2 DEF Pipeline!ParseVerdict
<1>6. CASE step' = "record" /\ failed' = TRUE
  <2>1. PipelineRun' = RunAt("record", "failure", w, w)
    BY <1>1, <1>2, <1>3, <1>6 DEF PipelineRun, RunAt
  <2> HIDE DEF w
  <2>2. Pipeline!Set(1, [<<PipelineRun>>[1] EXCEPT
          !.pc = "record", !.status = "failure",
          !.verdict = <<PipelineRun>>[1].response])
    BY <1>1, <2>1, RecordMaps
  <2> QED BY <1>4, <2>2 DEF Pipeline!ParseVerdict
<1> QED BY <1>1, <1>3, <1>5, <1>6 DEF Parse, Proceed, FailStep

\* Every step of the job is a step of the pipeline or no step of it.
LEMMA StepMaps ==
  ASSUME JobInv, [JobNext]_jobVars
  PROVE  [Pipeline!Next]_(Pipeline!vars)
<1>1. 1 \in Pipeline!Runs
  BY DEF Pipeline!Runs
<1>2. ASSUME \/ Pipeline!BuildCase(1) \/ Pipeline!RunModel(1) \/ Pipeline!RetryModel(1)
             \/ Pipeline!ValidateReport(1) \/ Pipeline!ParseVerdict(1)
             \/ Pipeline!StepFails(1)
      PROVE  Pipeline!Next
  BY <1>1, <1>2 DEF Pipeline!Next, Pipeline!Advance
<1>3. CASE CaseMain \/ CaseReader \/ CaseGit \/ UNCHANGED jobVars
  <2>1. UNCHANGED <<step, failed, report, line, call>>
    BY <1>3 DEF CaseMain, CaseReader, CaseGit, jobVars, adapterVars
  <2>2. PipelineRun' = PipelineRun
    BY <2>1 DEF PipelineRun
  <2> QED BY <2>2, Unseen
<1>4. CASE EndCase
  BY <1>2, <1>4, EndCaseMaps
<1>5. CASE CallModel \/ CheckFirstCall \/ CallAgain \/ CheckSecondCall
  BY <1>2, <1>5, CallsMap
<1>6. CASE EndModel
  BY <1>2, <1>6, EndModelMaps
<1>7. CASE WriteCapacity
  BY <1>7, WriteCapacityMaps
<1>8. CASE Validate
  BY <1>2, <1>8, ValidateMaps
<1>9. CASE Parse
  BY <1>2, <1>9, ParseMaps
<1> QED BY <1>3, <1>4, <1>5, <1>6, <1>7, <1>8, <1>9 DEF JobNext, JobMain

\* The programs of the job do what ReviewPipeline lets its run do and nothing
\* else (security-review.yml:290-442), so what is proved of the pipeline's runs
\* does not rest on steps that the job cannot take.
THEOREM StepsOfPipelineHolds == JobSpec => StepsOfPipeline
BY JobInvariant, StepMaps, PTL DEF JobSpec, StepsOfPipeline

=============================================================================
