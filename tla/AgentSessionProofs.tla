-------------------------- MODULE AgentSessionProofs --------------------------
(***************************************************************************)
(* Proofs about AgentSession for every set of sessions, tool calls and     *)
(* moves of the user: what the acts that run have in common with what the  *)
(* hooks had read.                                                         *)
(***************************************************************************)
EXTENDS AgentSession, TLAPS

-----------------------------------------------------------------------------
(* The invariant *)

Progresses == Votes \cup {"start", "second"}
Active == phase \in {"deciding", "asking", "running", "approved"}
Passed == phase \in {"asking", "running", "approved"}

Check == [at : Nat, mode : {"worktree", "unpushed"}]
Commits == Heads \X [Roles -> Addresses]
Listing == [at : Nat, repo : Repository, commits : SUBSET Commits]
Look  == {<<>>} \cup [DOMAIN files -> OnDisk]
SeenRecord ==
  [head : Heads, repo : Repository \cup {NoCall}, moves : Nat,
   checked : SUBSET Check, identities : SUBSET (Nat \X SourceRecord),
   unpushed : SUBSET Listing, opened : Look, looked : Look]

\* The calls and moves of the session are of its files.
FocusFits ==
  /\ Calls(session.focus) \subseteq CallRecord(DOMAIN files)
  /\ Moves(session.focus) \subseteq MoveRecord(DOMAIN files)

\* What session, repository, files and the call are, and that they fit.
SessionTyped ==
  /\ session \in SessionRecord
  /\ repo \in Repository /\ (repo.stopped = "rebase" => repo.onto \notin {"", "HEAD"})
  /\ sources \in SourceRecord
  /\ unpushed \subseteq Commits
  /\ files \in [DOMAIN files -> OnDisk]
  /\ FocusFits
  /\ moves \in 0..MaxMoves
  /\ turn \in {"over", "working", "held"}
  /\ seen \in SeenRecord
  /\ step \in Nat \ {0}

\* What each phase has of a call, of votes and of an act.
PhaseFits ==
  /\ phase \in {"idle", "deciding", "asking", "running", "approved", "stopping"}
  /\ Active => call \in CallRecord(DOMAIN files) /\ hooks \in [HooksOf(call) -> Progresses]
  /\ ~Active => call = NoCall
  /\ Passed => \A h \in DOMAIN hooks : hooks[h] \in {"allow", "ask"}
  /\ phase = "asking" => Cast("ask")
  /\ phase = "running" => \A h \in DOMAIN hooks : hooks[h] = "allow"
  /\ ~Running => step = 1
  /\ step = 1 => done = NoAct

\* The act that has run last is the call's, or its segment before step, and a
\* first segment has run on the branch the gate had read, unless the user moved.
ActFits ==
  step > 1 =>
    /\ done.asked = (phase = "approved")
    /\ ~IsShell(call) => done.act = call
    /\ IsShell(call) => step - 1 \in DOMAIN call.segments /\ done.act = call.segments[step - 1]
    /\ step = 2 => done.head = seen.head \/ seen.moves < moves

\* The branch gate has read a repository that changes by the user's moves only,
\* until the call runs, and lets pass what is in order or a recovery.
BranchKnows ==
  LET vote == hooks["branch"] IN
  Active =>
    /\ vote # "start" =>
         /\ seen.repo \in Repository /\ seen.repo.head = seen.head
         /\ seen.moves <= moves
         /\ seen.moves = moves /\ step = 1 => repo = seen.repo
    /\ vote = "second" => CheckBranch(session.checker, seen.head)
    /\ vote \in {"allow", "ask"} =>
         \/ /\ ~CheckBranch(session.checker, seen.head)
            /\ vote = CompliantVote(session, session.checker, call)
         \/ /\ CheckBranch(session.checker, seen.head)
            /\ \E branch \in Heads : \E rebase \in BOOLEAN :
                 vote = ViolationVote(session, session.checker, call, branch, rebase)

\* Of a remote's push, the commits of HEAD have no refused address.
Clean(listing) ==
  listing.repo.remote =>
    \A entry \in listing.commits :
      entry[1] = listing.repo.head => ~Refused(LogIdentity(entry[2]))

\* The identity gate has passed every check it has made, and notes what it saw.
IdentityKnows ==
  Active /\ "identity" \in DOMAIN hooks /\ hooks["identity"] # "deny" =>
    /\ \A check \in seen.checked :
         /\ check.mode = "worktree" => \E pair \in seen.identities : pair[1] = check.at
         /\ check.mode = "unpushed" => \E listing \in seen.unpushed : listing.at = check.at
    /\ session.identity =>
         /\ \A pair \in seen.identities :
              ~Refused(WorktreeIdentity(WithAssignment(pair[2], call.segments[pair[1]].email)))
         /\ \A listing \in seen.unpushed : Clean(listing)
    /\ hooks["identity"] # "start" => Checks(call.segments) \subseteq seen.checked

\* The consent gate lets a path pass that is no test's, or was absent.
ConsentKnows ==
  Active /\ "consent" \in DOMAIN hooks =>
    /\ hooks["consent"] \in {"second", "allow"} => ~ProtectedPath(call.path)
    /\ hooks["consent"] = "allow" =>
         \/ ~call.path.test /\ call.path.links = "one"
         \/ call.path.name \in DOMAIN seen.opened /\ seen.opened[call.path.name] = "absent"

InfrastructureKnows ==
  Active /\ "infrastructure" \in DOMAIN hooks /\ hooks["infrastructure"] # "start" =>
    hooks["infrastructure"] = InfrastructureVote(call, seen.looked)

CommandsKnow ==
  Active /\ "commands" \in DOMAIN hooks => hooks["commands"] = CommandVote(call)

HooksKnow ==
  BranchKnows /\ IdentityKnows /\ ConsentKnows /\ InfrastructureKnows /\ CommandsKnow

\* The inductive invariant behind the properties of a session.
SessionInv == SessionTyped /\ PhaseFits /\ ActFits /\ HooksKnow /\ AdviceIsAccepted

-----------------------------------------------------------------------------
(* Calls, segments and the repository *)

\* The kinds of calls and what the hooks read of each.
LEMMA CallKinds ==
  ASSUME NEW names, NEW c \in CallRecord(names)
  PROVE  /\ c # NoCall
         /\ IsShell(c) => c.segments \in Seq(Segment)
         /\ ~IsShell(c) => "op" \notin DOMAIN c
         /\ c.tool \in {"Edit"} \cup ReadTools => c.path \in PathRecord(names)
         /\ c.tool = "Edit" => c.content \in {"text", "manifest"}
         /\ c.tool \in SearchTools => c.paths \subseteq PathRecord(names)
         /\ IsShell(c) =>
              c.tool \notin {"Edit", "question", "malformed"} \cup ReadTools \cup SearchTools
<1>1. CASE c \in [tool : {"Bash", "PowerShell", "Cmd"}, syntax : STRING, segments : Seq(Segment)]
  BY <1>1 DEF NoCall, IsShell, ReadTools, SearchTools
<1>2. CASE c \in [tool : {"Edit"}, path : PathRecord(names), content : {"text", "manifest"}]
  BY <1>2 DEF NoCall, IsShell, ReadTools, SearchTools
<1>3. CASE c \in [tool : ReadTools, path : PathRecord(names), content : {""}]
  <2>1. c.tool = "Read" /\ c.path \in PathRecord(names) /\ DOMAIN c = {"tool", "path", "content"}
    BY <1>3 DEF ReadTools
  <2> QED
    BY <2>1 DEF NoCall, IsShell, ReadTools, SearchTools
<1>4. CASE c \in [tool : SearchTools, paths : SUBSET PathRecord(names), walk : STRING]
  BY <1>4 DEF NoCall, IsShell, ReadTools, SearchTools
<1>5. CASE c \in [tool : {"question", "malformed"}]
  BY <1>5 DEF NoCall, IsShell, ReadTools, SearchTools
<1> QED
  BY <1>1, <1>2, <1>3, <1>4, <1>5 DEF CallRecord

\* A segment of a shell call is one.
LEMMA SegmentOf ==
  ASSUME NEW names, NEW c \in CallRecord(names), IsShell(c), NEW i \in 1..Len(c.segments)
  PROVE  c.segments[i] \in Segment
BY CallKinds

\* What git leaves after a segment is a repository, and only a rebase that
\* knows its way back detaches HEAD (git's part of AgentSession).
LEMMA OutcomesAreRepositories ==
  ASSUME repo \in Repository, repo.stopped = "rebase" => repo.onto \notin {"", "HEAD"},
         NEW segment, segment.op \in {"create", "switch", "rename", "stash"} => segment.to \in Heads,
         NEW after \in Outcomes(segment)
  PROVE  /\ after \in Repository
         /\ after.stopped = "rebase" => after.onto \notin {"", "HEAD"}
<1>1. \/ after = repo
      \/ after = [repo EXCEPT !.head = segment.to] /\ segment.to \in Heads
      \/ after = [repo EXCEPT !.head = "HEAD", !.stopped = "rebase", !.onto = repo.head] /\ OnBranch
      \/ after = Ended
      \/ after = [repo EXCEPT !.remote = TRUE]
  <2>1. CASE segment.elsewhere # "none"
    BY <2>1 DEF Outcomes
  <2>2. CASE segment.op \in {"create", "switch"}
    BY <2>2 DEF Outcomes
  <2>3. CASE segment.op = "rename"
    BY <2>3 DEF Outcomes
  <2>4. CASE segment.op = "rebase"
    BY <2>4 DEF Outcomes, Rebasing
  <2>5. CASE segment.op = "abort"
    BY <2>5 DEF Outcomes
  <2>6. CASE segment.op \in {"continue", "skip"}
    BY <2>6 DEF Outcomes
  <2>7. CASE segment.op = "stash"
    BY <2>7 DEF Outcomes
  <2>8. CASE segment.op = "remote"
    BY <2>8 DEF Outcomes
  <2>9. CASE segment.op \notin {"create", "switch", "rename", "rebase", "abort", "continue",
                              "skip", "stash", "remote"}
    BY <2>9 DEF Outcomes
  <2> QED
    BY <2>1, <2>2, <2>3, <2>4, <2>5, <2>6, <2>7, <2>8, <2>9
<1> QED
  BY <1>1 DEF Repository, Ended, OnBranch, Heads

-----------------------------------------------------------------------------
(* The steps *)

\* The user's moves are counted.
LEMMA MovesCounted ==
  ASSUME SessionTyped
  PROVE  MaxMoves \in Nat /\ moves \in Nat
<1>1. MaxMoves \in Nat
  BY SessionAssumption DEF SessionAssumption
<1>2. moves \in 0..MaxMoves
  BY DEF SessionTyped
<1> QED
  BY <1>1, <1>2

\* A session begins with no call and nothing read.
LEMMA SessionStarts == Init => SessionInv
<1> SUFFICES ASSUME Init PROVE SessionInv
  OBVIOUS
<1>1. PICK start \in Starts :
        session = start.session /\ repo = start.repo
        /\ sources = start.sources /\ files = start.files
  BY DEF Init
<1>2. seen \in SeenRecord
  BY DEF Init, NothingSeen, SeenRecord, Heads, Look, Check
<1>3. /\ start.session \in SessionRecord
      /\ start.repo \in Repository
      /\ start.repo.stopped = "rebase" => start.repo.onto \notin {"", "HEAD"}
      /\ start.sources \in SourceRecord
      /\ start.files \in [DOMAIN start.files -> OnDisk]
      /\ Calls(start.session.focus) \subseteq CallRecord(DOMAIN start.files)
      /\ Moves(start.session.focus) \subseteq MoveRecord(DOMAIN start.files)
  BY <1>1, SessionAssumption DEF SessionAssumption
<1>4. MaxMoves \in Nat
  BY SessionAssumption DEF SessionAssumption
<1>5. moves = 0 /\ unpushed = {} /\ turn = "over" /\ step = 1
  BY DEF Init
<1>6. moves \in 0..MaxMoves
  BY <1>4, <1>5
<1>7. SessionTyped
  <2>1. /\ session \in SessionRecord /\ sources \in SourceRecord
        /\ repo \in Repository /\ (repo.stopped = "rebase" => repo.onto \notin {"", "HEAD"})
        /\ files \in [DOMAIN files -> OnDisk]
    BY <1>1, <1>3
  <2>2. Calls(session.focus) \subseteq CallRecord(DOMAIN files)
    BY <1>1, <1>3
  <2>3. Moves(session.focus) \subseteq MoveRecord(DOMAIN files)
    BY <1>1, <1>3
  <2>4. FocusFits
    BY <2>2, <2>3 DEF FocusFits
  <2>5. step \in Nat \ {0} /\ turn \in {"over", "working", "held"}
    BY <1>5
  <2>6. unpushed \subseteq Commits
    BY <1>5
  <2> QED
    BY <2>1, <2>4, <2>6, <2>5, <1>2, <1>5, <1>6, Zenon DEF SessionTyped
<1>8. PhaseFits /\ ActFits
  BY DEF Init, PhaseFits, ActFits, Active, Passed, Running
<1>9. HooksKnow
  BY DEF Init, HooksKnow, BranchKnows, IdentityKnows, ConsentKnows, InfrastructureKnows,
         CommandsKnow, Active
<1>10. AdviceIsAccepted
  BY DEF Init, AdviceIsAccepted, NoAdvice
<1> QED
  BY <1>7, <1>8, <1>9, <1>10 DEF SessionInv

\* The steps of the client and its hooks leave the environment as it is.
LEMMA SettingKept ==
  ASSUME SessionTyped, UNCHANGED environment, seen' \in SeenRecord,
         turn' \in {"over", "working", "held"}, step' \in Nat \ {0}
  PROVE  SessionTyped'
<1>1. /\ session' = session /\ repo' = repo /\ sources' = sources
      /\ unpushed' = unpushed /\ files' = files /\ moves' = moves
  BY DEF environment
<1>2. SeenRecord' = SeenRecord
  BY <1>1 DEF SeenRecord, Look
<1>3. FocusFits' <=> FocusFits
  BY <1>1 DEF FocusFits
<1> QED
  BY <1>1, <1>2, <1>3 DEF SessionTyped

\* A call is submitted with the command gates' vote and nothing read.
LEMMA SubmitKeeps ==
  ASSUME SessionInv, NEW c \in CallRecord(DOMAIN files), Submit(c)
  PROVE  SessionInv'
<1>1. seen' \in SeenRecord
  BY DEF Submit, NothingSeen, SeenRecord, Heads, Look, Check
<1>2. UNCHANGED environment /\ turn' = turn /\ step' = 1
  BY DEF Submit
<1>3. SessionTyped
  BY DEF SessionInv
<1>4. turn \in {"over", "working", "held"}
  BY <1>3 DEF SessionTyped
<1>5. turn' \in {"over", "working", "held"} /\ step' \in Nat \ {0}
  BY <1>2, <1>4
<1>6. SessionTyped'
  BY <1>2, <1>1, <1>3, <1>5, SettingKept
<1> USE DEF Submit, environment
<1>7. \A h \in HooksOf(c) : hooks'[h] = IF h = "commands" THEN CommandVote(c) ELSE "start"
  OBVIOUS
<1>8. hooks' \in [HooksOf(c) -> Progresses] /\ "branch" \in HooksOf(c)
  BY DEF CommandVote, Consent, Progresses, Votes, HooksOf
<1>9. /\ HooksOf(call)' = HooksOf(c) /\ CommandVote(call)' = CommandVote(c)
      /\ call' = c /\ (DOMAIN files)' = DOMAIN files
  BY DEF HooksOf, CommandVote
<1>10. PhaseFits' /\ ActFits'
  BY <1>8, <1>9 DEF SessionInv, PhaseFits, ActFits, Active, Passed, Running
<1>11. BranchKnows'
  BY <1>7, <1>8 DEF BranchKnows
<1>12. IdentityKnows' /\ ConsentKnows' /\ InfrastructureKnows' /\ CommandsKnow'
  BY <1>7, <1>8, <1>9 DEF IdentityKnows, ConsentKnows, InfrastructureKnows,
         CommandsKnow, NothingSeen
<1>13. AdviceIsAccepted'
  BY DEF AdviceIsAccepted, NoAdvice
<1> QED
  BY <1>6, <1>10, <1>11, <1>12, <1>13 DEF SessionInv, HooksKnow

\* What a hook that votes or goes on leaves as it is: the phases still fit, and
\* so does what the other hooks know of what they have read.
LEMMA ProgressKeeps ==
  ASSUME SessionInv, NEW hook, NEW from, NEW to \in Progresses, Progress(hook, from, to)
  PROVE  /\ PhaseFits' /\ ActFits' /\ Active /\ Active'
         /\ call \in CallRecord(DOMAIN files) /\ hook \in HooksOf(call) /\ step = 1
         /\ DOMAIN hooks' = DOMAIN hooks /\ hooks'[hook] = to
         /\ \A h \in DOMAIN hooks : h # hook => hooks'[h] = hooks[h]
         /\ seen' \in SeenRecord => SessionTyped'
<1> USE DEF Progress
<1>1. Active /\ Active' /\ ~Passed /\ ~Passed' /\ ~Running /\ ~Running'
  BY DEF Active, Passed, Running
<1>2. /\ call \in CallRecord(DOMAIN files) /\ hooks \in [HooksOf(call) -> Progresses]
      /\ step = 1
  BY <1>1 DEF SessionInv, PhaseFits
<1>3. hooks' \in [HooksOf(call) -> Progresses] /\ hooks'[hook] = to
      /\ \A h \in DOMAIN hooks : h # hook => hooks'[h] = hooks[h]
  BY <1>2
<1>4. /\ HooksOf(call)' = HooksOf(call) /\ call' = call
      /\ (DOMAIN files)' = DOMAIN files
  BY DEF HooksOf, environment
<1>5. PhaseFits'
  BY <1>1, <1>2, <1>3, <1>4 DEF SessionInv, PhaseFits, environment, Active, Running
<1>6. ActFits'
  BY <1>2 DEF ActFits
<1>7. seen' \in SeenRecord => SessionTyped'
  BY SettingKept DEF SessionInv, SessionTyped
<1> QED
  BY <1>1, <1>2, <1>3, <1>5, <1>6, <1>7

\* A hook's step leaves what the other hooks know.
LEMMA OthersKnow ==
  ASSUME SessionInv, NEW hook, NEW from, NEW to \in Progresses, Progress(hook, from, to)
  PROVE  /\ hook # "branch" /\ seen'.head = seen.head /\ seen'.repo = seen.repo
              /\ seen'.moves = seen.moves => BranchKnows'
         /\ hook # "identity" /\ seen'.checked = seen.checked
              /\ seen'.identities = seen.identities /\ seen'.unpushed = seen.unpushed
              => IdentityKnows'
         /\ hook # "consent" /\ seen'.opened = seen.opened => ConsentKnows'
         /\ hook # "infrastructure" /\ seen'.looked = seen.looked => InfrastructureKnows'
         /\ hook # "commands" => CommandsKnow'
<1>1. /\ session' = session /\ call' = call /\ repo' = repo /\ moves' = moves
      /\ step' = step /\ phase' = phase
      /\ DOMAIN hooks' = DOMAIN hooks /\ hooks \in [HooksOf(call) -> Progresses]
      /\ \A h \in DOMAIN hooks : h # hook => hooks'[h] = hooks[h]
  BY ProgressKeeps DEF Progress, environment, SessionInv, PhaseFits
<1>2. Active' <=> Active
  BY <1>1 DEF Active
<1>3. "branch" \in DOMAIN hooks
  BY <1>1 DEF HooksOf
<1>4. BranchKnows /\ IdentityKnows /\ ConsentKnows /\ InfrastructureKnows /\ CommandsKnow
  BY DEF SessionInv, HooksKnow
<1>5. ASSUME hook # "branch", seen'.head = seen.head, seen'.repo = seen.repo,
             seen'.moves = seen.moves
      PROVE  BranchKnows'
  <2>1. hooks'["branch"] = hooks["branch"]
    BY <1>1, <1>3, <1>5
  <2> QED
    BY <1>1, <1>2, <1>4, <1>5, <2>1 DEF BranchKnows
<1>6. ASSUME hook # "identity", seen'.checked = seen.checked,
             seen'.identities = seen.identities, seen'.unpushed = seen.unpushed
      PROVE  IdentityKnows'
  <2>1. "identity" \in DOMAIN hooks => hooks'["identity"] = hooks["identity"]
    BY <1>1, <1>6
  <2> QED
    BY <1>1, <1>2, <1>4, <1>6, <2>1 DEF IdentityKnows
<1>7. ASSUME hook # "consent", seen'.opened = seen.opened PROVE ConsentKnows'
  <2>1. "consent" \in DOMAIN hooks => hooks'["consent"] = hooks["consent"]
    BY <1>1, <1>7
  <2> QED
    BY <1>1, <1>2, <1>4, <1>7, <2>1 DEF ConsentKnows
<1>8. ASSUME hook # "infrastructure", seen'.looked = seen.looked PROVE InfrastructureKnows'
  <2>1. "infrastructure" \in DOMAIN hooks =>
          hooks'["infrastructure"] = hooks["infrastructure"]
    BY <1>1, <1>8
  <2> QED
    BY <1>1, <1>2, <1>4, <1>8, <2>1 DEF InfrastructureKnows
<1>9. ASSUME hook # "commands" PROVE CommandsKnow'
  <2>1. "commands" \in DOMAIN hooks => hooks'["commands"] = hooks["commands"]
    BY <1>1, <1>9
  <2>2. CommandVote(call)' = CommandVote(call)
    BY <1>1 DEF CommandVote
  <2> QED
    BY <1>1, <1>2, <1>4, <2>1, <2>2 DEF CommandsKnow
<1> QED
  BY <1>5, <1>6, <1>7, <1>8, <1>9

\* Advice that was given stays what it was.
LEMMA AdviceKept ==
  ASSUME AdviceIsAccepted, UNCHANGED <<advice, session>>
  PROVE  AdviceIsAccepted'
BY ZenonT(60) DEF AdviceIsAccepted, RecoveryVotes, CanBeAsked, CommandVote

\* Where the checker is there, only the convention's names are in order
\* (check_branch_name.py with --strict-agent-preflight).
LEMMA CompliantName ==
  ASSUME NEW checker, NEW branch
  PROVE  ~CheckBranch(checker, branch) <=> checker /\ branch = "compliant"
BY DEF CheckBranch, NameViolation

\* The gate accepts what it advises, in the repository it has read
\* (recovery_authorization_reason and valid_recovery_command).
LEMMA AdvisedIsValid ==
  ASSUME NEW checker \in BOOLEAN, checker, NEW branch, NEW rebase \in BOOLEAN,
         NEW advised \in Advised(branch, rebase)
  PROVE  ValidRecovery(checker, advised, branch, rebase)
<1>1. CASE rebase
  <2>1. PICK op \in RebaseRecoveries : advised = Shell(<<Git(op, "")>>)
    BY <1>1 DEF Advised
  <2>2. Exact(advised, op, "")
    BY <2>1 DEF Exact, Shell
  <2> QED
    BY <1>1, <2>2 DEF ValidRecovery
<1>2. CASE ~rebase
  <2> DEFINE op == IF branch \in {"main", "HEAD"} THEN "create" ELSE "rename"
  <2>1. advised = Shell(<<Git(op, "compliant")>>)
    BY <1>2 DEF Advised
  <2> HIDE DEF op
  <2>2. Exact(advised, op, "compliant")
    BY <2>1 DEF Exact, Shell
  <2>3. ~CheckBranch(checker, "compliant")
    BY CompliantName
  <2> QED
    BY <1>2, <2>2, <2>3 DEF ValidRecovery, op
<1> QED
  BY <1>1, <1>2

\* The branch gate's first look (read_branch_preflight).
LEMMA BranchReadKeeps ==
  ASSUME SessionInv, BranchRead
  PROVE  SessionInv'
<1> DEFINE to == IF CheckBranch(session.checker, repo.head) THEN "second"
                 ELSE CompliantVote(session, session.checker, call)
<1>1. Progress("branch", "start", to)
  BY DEF BranchRead
<1>2. to \in Progresses
  BY DEF CompliantVote, Authorization, Consent, Progresses, Votes
<1>3. seen' = [seen EXCEPT !.head = repo.head, !.repo = repo, !.moves = moves] /\ UNCHANGED advice
  BY DEF BranchRead
<1> HIDE DEF to
<1>4. /\ session' = session /\ call' = call /\ repo' = repo /\ moves' = moves
      /\ step' = step /\ hooks'["branch"] = to
  BY <1>1, <1>2, ProgressKeeps DEF Progress, environment
<1>5. seen \in SeenRecord /\ repo \in Repository /\ moves \in Nat
  BY MovesCounted DEF SessionInv, SessionTyped
<1>6. /\ seen' \in SeenRecord
      /\ seen'.head = repo.head /\ seen'.repo = repo /\ seen'.moves = moves
      /\ seen'.checked = seen.checked /\ seen'.identities = seen.identities
      /\ seen'.unpushed = seen.unpushed /\ seen'.opened = seen.opened
      /\ seen'.looked = seen.looked
  BY <1>3, <1>5 DEF SeenRecord, Repository
<1>7. SessionTyped' /\ PhaseFits' /\ ActFits'
  BY <1>1, <1>2, <1>6, ProgressKeeps
<1>8. IdentityKnows' /\ ConsentKnows' /\ InfrastructureKnows' /\ CommandsKnow'
  BY <1>1, <1>2, <1>6, OthersKnow
<1>9. BranchKnows'
  <2>1. to = "second" \/ to = CompliantVote(session, session.checker, call)
    BY DEF to
  <2>2. to = "second" <=> CheckBranch(session.checker, repo.head)
    BY DEF to, CompliantVote, Authorization, Consent
  <2> QED
    BY <1>4, <1>5, <1>6, <2>1, <2>2 DEF BranchKnows
<1>10. AdviceIsAccepted'
  BY <1>3, <1>4, AdviceKept DEF SessionInv
<1> QED
  BY <1>7, <1>8, <1>9, <1>10 DEF SessionInv, HooksKnow

\* A call of one segment.
LEMMA OneSegmentCall ==
  ASSUME NEW segment
  PROVE  /\ Shell(<<segment>>).tool = "Bash"
         /\ Shell(<<segment>>).segments = <<segment>>
         /\ DOMAIN Shell(<<segment>>).segments = {1}
         /\ Shell(<<segment>>).segments[1] = segment
<1>1. \A segments : Shell(segments).tool = "Bash" /\ Shell(segments).segments = segments
  BY DEF Shell
<1>2. DOMAIN <<segment>> = {1} /\ <<segment>>[1] = segment
  OBVIOUS
<1> QED
  BY <1>1, <1>2

\* What the votes on an advised command come to (recovery_authorization_reason,
\* the vote of valid_recovery_command, and git_verdict).
LEMMA AdvisedVotes ==
  ASSUME session \in SessionRecord, session.checker, NEW branch, branch # "",
         NEW rebase \in BOOLEAN, NEW advised \in Advised(branch, rebase)
  PROVE  IF CanBeAsked
         THEN /\ "ask" \in RecoveryVotes(advised, branch, rebase)
              /\ "deny" \notin RecoveryVotes(advised, branch, rebase)
         ELSE "deny" \in RecoveryVotes(advised, branch, rebase)
<1>1. PICK op \in {"create", "rename"} \cup RebaseRecoveries : \E to : advised = Shell(<<Git(op, to)>>)
  BY DEF Advised
<1>2. PICK to : advised = Shell(<<Git(op, to)>>)
  BY <1>1
<1>3. /\ advised.tool = "Bash" /\ DOMAIN advised.segments = {1}
      /\ advised.segments = <<Git(op, to)>> /\ advised.segments[1] = Git(op, to)
  BY <1>2, OneSegmentCall, Zenon
<1>4. Git(op, to).program = "git" /\ Git(op, to).op = op
  BY DEF Git, Plain
<1>5. ~Bootstrap(advised)
  <2>1. [Plain EXCEPT !.program = "branch reader"].program = "branch reader"
    BY DEF Plain
  <2>2. \A one, other : <<one>> = <<other>> => one = other
    OBVIOUS
  <2>3. <<Git(op, to)>> # <<[Plain EXCEPT !.program = "branch reader"]>>
    BY <1>4, <2>1, <2>2
  <2> QED
    BY <1>3, <2>3, Zenon DEF Bootstrap, IsProgram
<1>6. ValidRecovery(session.checker, advised, branch, rebase)
  BY AdvisedIsValid DEF SessionRecord
<1>7. ViolationVote(session, session.checker, advised, branch, rebase) = Authorization(session)
  BY <1>3, <1>5, <1>6 DEF ViolationVote, IsShell
<1>8. CommandVote(advised) \in {"allow", Consent(session.interactive)}
  BY <1>1, <1>3, <1>4 DEF CommandVote, RebaseRecoveries
<1>9. session.client \in {"claude", "gemini", "antigravity", "codex"} /\ session.interactive \in BOOLEAN
  BY DEF SessionRecord
<1>10. CASE CanBeAsked
  <2>1. Authorization(session) = "ask"
    BY <1>10 DEF CanBeAsked, Authorization, Consent
  <2>2. session.client = "claude" => Consent(session.interactive) = "ask"
    BY <1>10 DEF CanBeAsked, Consent
  <2> QED
    BY <1>7, <1>8, <1>10, <2>1, <2>2 DEF RecoveryVotes
<1>11. CASE ~CanBeAsked
  <2>1. Authorization(session) = "deny"
    BY <1>9, <1>11 DEF CanBeAsked, Authorization, Consent
  <2> QED
    BY <1>7, <1>11, <2>1 DEF RecoveryVotes
<1> QED
  BY <1>10, <1>11

\* The branch gate's second look: the recovery is judged by the rebase state
\* and, where it was unreadable, by the name of this moment.
LEMMA BranchRecoverKeeps ==
  ASSUME SessionInv, NEW lookup \in BOOLEAN, BranchRecover(lookup)
  PROVE  SessionInv'
<1> DEFINE rebase == repo.stopped # "nothing"
           vote == ViolationVote(session, session.checker, call, NameRead, rebase)
           to == IF vote = "deny" \/ (~lookup /\ call.tool # "question") THEN "deny" ELSE vote
<1>1. Progress("branch", "second", to) /\ seen' = seen
      /\ advice' = IF vote = "deny" /\ lookup /\ call.tool # "malformed"
                   THEN [source |-> "tool", recovery |-> Advised(NameRead, rebase),
                         repo |-> repo, steady |-> seen.repo = repo]
                   ELSE advice
  BY DEF BranchRecover
<1>2. vote \in Votes /\ to \in Progresses
  BY DEF ViolationVote, Authorization, Consent, Progresses, Votes
<1>3. seen \in SeenRecord /\ repo \in Repository
  BY DEF SessionInv, SessionTyped
<1>4. NameRead \in Heads /\ rebase \in BOOLEAN
  BY <1>3 DEF NameRead, SeenRecord, Repository
<1>5. Active /\ hooks["branch"] = "second"
  BY <1>1, <1>2, ProgressKeeps DEF Progress
<1>6. /\ seen.repo \in Repository /\ seen.repo.head = seen.head
      /\ seen.moves <= moves /\ CheckBranch(session.checker, seen.head)
      /\ seen.moves = moves /\ step = 1 => repo = seen.repo
  BY <1>5 DEF SessionInv, HooksKnow, BranchKnows
<1>7. /\ session' = session /\ call' = call /\ repo' = repo /\ moves' = moves
      /\ step' = step /\ hooks'["branch"] = to
  BY <1>1, <1>2, ProgressKeeps DEF Progress, environment
<1>8. SessionTyped' /\ PhaseFits' /\ ActFits'
  BY <1>1, <1>2, <1>3, ProgressKeeps
<1>9. IdentityKnows' /\ ConsentKnows' /\ InfrastructureKnows' /\ CommandsKnow'
  BY <1>1, <1>2, OthersKnow
<1>10. BranchKnows'
  <2>1. to \in {"allow", "ask"} => to = vote
    BY DEF to
  <2>2. to \in {"allow", "ask"} =>
          \E branch \in Heads : \E r \in BOOLEAN :
            to = ViolationVote(session, session.checker, call, branch, r)
    BY <1>4, <2>1
  <2>3. to # "second"
    BY <1>2 DEF Votes
  <2> HIDE DEF to
  <2> QED
    BY <1>1, <1>6, <1>7, <2>2, <2>3 DEF BranchKnows
<1>11. AdviceIsAccepted'
  <2>1. CASE ~(vote = "deny" /\ lookup /\ call.tool # "malformed")
    <3>1. advice' = advice
      BY <1>1, <2>1
    <3> QED
      BY <3>1, <1>7, AdviceKept DEF SessionInv
  <2>2. CASE vote = "deny" /\ lookup /\ call.tool # "malformed"
    <3> DEFINE given == [source |-> "tool", recovery |-> Advised(NameRead, rebase),
                         repo |-> repo, steady |-> seen.repo = repo]
    <3>1. advice' = given
      BY <1>1, <2>2
    <3>2. /\ given.recovery = Advised(NameRead, rebase) /\ given.repo = repo
          /\ given.steady <=> seen.repo = repo
      OBVIOUS
    <3> HIDE DEF given
    <3>3. ASSUME given.steady, session.checker, repo.head # "",
                 NEW advised \in given.recovery
          PROVE  IF CanBeAsked
                 THEN /\ "ask" \in RecoveryVotes(advised, repo.head, rebase)
                      /\ "deny" \notin RecoveryVotes(advised, repo.head, rebase)
                 ELSE "deny" \in RecoveryVotes(advised, repo.head, rebase)
      <4>1. NameRead = repo.head
        BY <1>6, <3>2, <3>3 DEF NameRead
      <4>2. advised \in Advised(repo.head, rebase)
        BY <3>2, <3>3, <4>1
      <4> QED
        BY <1>4, <3>3, <4>2, AdvisedVotes DEF SessionInv, SessionTyped
    <3>4. /\ CanBeAsked' = CanBeAsked
          /\ \A c, branch, r : RecoveryVotes(c, branch, r)' = RecoveryVotes(c, branch, r)
      BY <1>7 DEF CanBeAsked, RecoveryVotes, CommandVote
    <3>5. AdviceIsAccepted' <=>
            (advice'.source = "tool" /\ advice'.steady /\ session.checker /\ advice'.repo.head # "" =>
              \A advised \in advice'.recovery :
                IF CanBeAsked
                THEN /\ "ask" \in RecoveryVotes(advised, advice'.repo.head, advice'.repo.stopped # "nothing")
                     /\ "deny" \notin RecoveryVotes(advised, advice'.repo.head, advice'.repo.stopped # "nothing")
                ELSE "deny" \in RecoveryVotes(advised, advice'.repo.head, advice'.repo.stopped # "nothing"))
      BY <3>4, <1>7 DEF AdviceIsAccepted
    <3> HIDE DEF given
    <3> QED
      BY <3>1, <3>2, <3>3, <3>5
  <2> QED
    BY <2>1, <2>2
<1> QED
  BY <1>8, <1>9, <1>10, <1>11 DEF SessionInv, HooksKnow

\* Votes of the consent and infrastructure gates.
LEMMA GateVotes ==
  /\ \A interactive : Consent(interactive) \in {"ask", "deny"}
  /\ \A c, on : InfrastructureVote(c, on) \in {"allow", "deny"}
BY DEF Consent, InfrastructureVote

\* The consent gate looks at the names and at the inode (names_a_test).
LEMMA ConsentLookKeeps ==
  ASSUME SessionInv, ConsentLook
  PROVE  SessionInv'
<1> DEFINE to == IF ProtectedPath(call.path) THEN Consent(session.interactive)
                 ELSE IF NamesATest(call.path, files) THEN "second" ELSE "allow"
<1>1. Progress("consent", "start", to) /\ seen' = seen /\ advice' = advice
  BY DEF ConsentLook
<1>2. to \in Progresses
  BY GateVotes DEF Progresses, Votes
<1>3. to \in {"second", "allow"} => ~ProtectedPath(call.path)
  BY GateVotes
<1>4. to = "allow" => ~call.path.test /\ call.path.links = "one"
  <2>1. SUFFICES ASSUME to = "allow" PROVE ~call.path.test /\ call.path.links = "one"
    OBVIOUS
  <2>2. ~NamesATest(call.path, files)
    BY <2>1, GateVotes
  <2>3. "consent" \in HooksOf(call) /\ call \in CallRecord(DOMAIN files)
    BY <1>1, <1>2, ProgressKeeps
  <2>4. call.tool = "Edit"
    BY <2>3 DEF HooksOf, ReadTools, SearchTools
  <2>5. call.path \in PathRecord(DOMAIN files)
    BY <2>3, <2>4, CallKinds
  <2> QED
    BY <2>2, <2>5 DEF NamesATest, TestInode, PathRecord
<1> HIDE DEF to
<1>5. seen \in SeenRecord
  BY DEF SessionInv, SessionTyped
<1>6. /\ session' = session /\ call' = call /\ hooks'["consent"] = to
  BY <1>1, <1>2, ProgressKeeps DEF Progress, environment
<1>7. SessionTyped' /\ PhaseFits' /\ ActFits'
  BY <1>1, <1>2, <1>5, ProgressKeeps
<1>8. BranchKnows' /\ IdentityKnows' /\ InfrastructureKnows' /\ CommandsKnow'
  BY <1>1, <1>2, OthersKnow
<1>9. ConsentKnows'
  BY <1>1, <1>3, <1>4, <1>6 DEF ConsentKnows
<1>10. AdviceIsAccepted'
  BY <1>1, <1>6, AdviceKept DEF SessionInv
<1> QED
  BY <1>7, <1>8, <1>9, <1>10 DEF SessionInv, HooksKnow

\* The consent gate opens the path (find_gate_reason).
LEMMA ConsentOpenKeeps ==
  ASSUME SessionInv, ConsentOpen
  PROVE  SessionInv'
<1> DEFINE to == IF GateReason(call.path, files) THEN Consent(session.interactive) ELSE "allow"
<1>1. Progress("consent", "second", to) /\ advice' = advice
      /\ seen' = [seen EXCEPT !.opened = files]
  BY DEF ConsentOpen
<1>2. to \in Progresses /\ to # "second"
  BY GateVotes DEF Progresses, Votes
<1>3. to = "allow" => files[call.path.name] = "absent"
  BY GateVotes DEF GateReason
<1> HIDE DEF to
<1>4. /\ Active /\ hooks["consent"] = "second" /\ "consent" \in DOMAIN hooks
      /\ call \in CallRecord(DOMAIN files) /\ "consent" \in HooksOf(call)
  BY <1>1, <1>2, ProgressKeeps DEF Progress
<1>5. ~ProtectedPath(call.path)
  BY <1>4 DEF SessionInv, HooksKnow, ConsentKnows
<1>6. call.path.name \in DOMAIN files
  <2>1. call.tool = "Edit"
    BY <1>4 DEF HooksOf, ReadTools, SearchTools
  <2>2. call.path \in PathRecord(DOMAIN files)
    BY <1>4, <2>1, CallKinds
  <2> QED
    BY <2>2 DEF PathRecord
<1>7. seen \in SeenRecord /\ files \in [DOMAIN files -> OnDisk]
  BY DEF SessionInv, SessionTyped
<1>8. /\ seen' \in SeenRecord /\ seen'.opened = files
      /\ seen'.head = seen.head /\ seen'.repo = seen.repo /\ seen'.moves = seen.moves
      /\ seen'.checked = seen.checked /\ seen'.identities = seen.identities
      /\ seen'.unpushed = seen.unpushed /\ seen'.looked = seen.looked
  BY <1>1, <1>7 DEF SeenRecord, Look
<1>9. /\ session' = session /\ call' = call /\ hooks'["consent"] = to
  BY <1>1, <1>2, ProgressKeeps DEF Progress, environment
<1>10. SessionTyped' /\ PhaseFits' /\ ActFits'
  BY <1>1, <1>2, <1>8, ProgressKeeps
<1>11. BranchKnows' /\ IdentityKnows' /\ InfrastructureKnows' /\ CommandsKnow'
  BY <1>1, <1>2, <1>8, OthersKnow
<1>12. ConsentKnows'
  BY <1>2, <1>3, <1>5, <1>6, <1>8, <1>9 DEF ConsentKnows
<1>13. AdviceIsAccepted'
  BY <1>1, <1>9, AdviceKept DEF SessionInv
<1> QED
  BY <1>10, <1>11, <1>12, <1>13 DEF SessionInv, HooksKnow

\* The infrastructure gate looks once and votes.
LEMMA InfrastructureLookKeeps ==
  ASSUME SessionInv, InfrastructureLook
  PROVE  SessionInv'
<1> DEFINE to == InfrastructureVote(call, files)
<1>1. Progress("infrastructure", "start", to) /\ advice' = advice
      /\ seen' = [seen EXCEPT !.looked = files]
  BY DEF InfrastructureLook
<1>2. to \in Progresses /\ to # "start"
  BY GateVotes DEF Progresses, Votes
<1>3. seen \in SeenRecord /\ files \in [DOMAIN files -> OnDisk]
  BY DEF SessionInv, SessionTyped
<1>4. /\ seen' \in SeenRecord /\ seen'.looked = files
      /\ seen'.head = seen.head /\ seen'.repo = seen.repo /\ seen'.moves = seen.moves
      /\ seen'.checked = seen.checked /\ seen'.identities = seen.identities
      /\ seen'.unpushed = seen.unpushed /\ seen'.opened = seen.opened
  BY <1>1, <1>3 DEF SeenRecord, Look
<1>5. /\ session' = session /\ call' = call /\ hooks'["infrastructure"] = to
  BY <1>1, <1>2, ProgressKeeps DEF Progress, environment
<1>6. SessionTyped' /\ PhaseFits' /\ ActFits'
  BY <1>1, <1>2, <1>4, ProgressKeeps
<1>7. BranchKnows' /\ IdentityKnows' /\ ConsentKnows' /\ CommandsKnow'
  BY <1>1, <1>2, <1>4, OthersKnow
<1>8. InfrastructureKnows'
  BY <1>4, <1>5 DEF InfrastructureKnows
<1>9. AdviceIsAccepted'
  BY <1>1, <1>5, AdviceKept DEF SessionInv
<1> QED
  BY <1>6, <1>7, <1>8, <1>9 DEF SessionInv, HooksKnow

\* A call whose segments are no git writes needs no check.
LEMMA NothingToCheckKeeps ==
  ASSUME SessionInv, NothingToCheck
  PROVE  SessionInv'
<1>1. Progress("identity", "start", "allow") /\ seen' = seen /\ advice' = advice
      /\ Checks(call.segments) = {}
  BY DEF NothingToCheck
<1>2. "allow" \in Progresses
  BY DEF Progresses, Votes
<1>3. seen \in SeenRecord
  BY DEF SessionInv, SessionTyped
<1>4. /\ session' = session /\ call' = call /\ hooks'["identity"] = "allow"
      /\ Active /\ "identity" \in DOMAIN hooks /\ hooks["identity"] = "start"
  BY <1>1, <1>2, ProgressKeeps DEF Progress, environment
<1>5. SessionTyped' /\ PhaseFits' /\ ActFits'
  BY <1>1, <1>2, <1>3, ProgressKeeps
<1>6. BranchKnows' /\ ConsentKnows' /\ InfrastructureKnows' /\ CommandsKnow'
  BY <1>1, <1>2, OthersKnow
<1>7. IdentityKnows
  BY DEF SessionInv, HooksKnow
<1>8. IdentityKnows'
  BY <1>1, <1>4, <1>7 DEF IdentityKnows
<1>9. AdviceIsAccepted'
  BY <1>1, <1>4, AdviceKept DEF SessionInv
<1> QED
  BY <1>5, <1>6, <1>8, <1>9 DEF SessionInv, HooksKnow

\* What a check is of.
LEMMA CheckTyped ==
  ASSUME NEW segments \in Seq(Segment), NEW check \in Checks(segments)
  PROVE  check \in Check
<1>1. PICK i \in DOMAIN segments : check \in ChecksOf(segments[i], i)
  BY DEF Checks
<1>2. i \in Nat
  BY <1>1
<1> QED
  BY <1>1, <1>2 DEF ChecksOf, Check

\* One run of the checker: a check that is passed is noted with what it saw.
LEMMA IdentityCheckKeeps ==
  ASSUME SessionInv, IdentityCheck
  PROVE  SessionInv'
<1> DEFINE left == Checks(call.segments) \ seen.checked
<1>1. "identity" \in DOMAIN hooks /\ UNCHANGED advice
  BY DEF IdentityCheck
<1>2. PICK check \in left :
        /\ Progress("identity", "start",
             IF CheckRefuses(check) THEN "deny"
             ELSE IF left = {check} THEN "allow" ELSE "start")
        /\ seen' = Checked(check)
  BY DEF IdentityCheck
<1> DEFINE to == IF CheckRefuses(check) THEN "deny"
                 ELSE IF left = {check} THEN "allow" ELSE "start"
<1>3. Progress("identity", "start", to)
  BY <1>2
<1>4. to \in Progresses
  BY DEF Progresses, Votes
<1>5. to # "deny" => ~CheckRefuses(check)
  OBVIOUS
<1>6. to \notin {"start", "deny"} => Checks(call.segments) \subseteq seen.checked \cup {check}
  OBVIOUS
<1> HIDE DEF to
<1>7. /\ session' = session /\ call' = call /\ hooks'["identity"] = to
      /\ Active /\ call \in CallRecord(DOMAIN files) /\ "identity" \in HooksOf(call)
      /\ hooks["identity"] = "start"
  BY <1>3, <1>4, ProgressKeeps DEF Progress, environment
<1>8. check \in Check
  <2>1. IsShell(call)
    BY <1>7 DEF HooksOf, IsShell
  <2> QED
    BY <1>2, <1>7, <2>1, CallKinds, CheckTyped
<1>9. /\ seen \in SeenRecord /\ sources \in SourceRecord
      /\ unpushed \subseteq Commits /\ repo \in Repository
  BY DEF SessionInv, SessionTyped
<1> DEFINE listing == [at |-> check.at, repo |-> repo, commits |-> unpushed]
<1>18. listing \in Listing /\ listing.at = check.at
  BY <1>8, <1>9 DEF Listing, Check
<1>10. /\ seen' \in SeenRecord
       /\ seen'.head = seen.head /\ seen'.repo = seen.repo /\ seen'.moves = seen.moves
       /\ seen'.opened = seen.opened /\ seen'.looked = seen.looked
       /\ seen'.checked = seen.checked \cup {check}
  <2>1. CASE check.mode = "worktree"
    <3>1. seen' = [seen EXCEPT !.checked = @ \cup {check},
                               !.identities = @ \cup {<<check.at, sources>>}]
      BY <1>2, <2>1 DEF Checked
    <3>2. <<check.at, sources>> \in Nat \X SourceRecord
      BY <1>8, <1>9 DEF Check
    <3> QED
      BY <3>1, <3>2, <1>8, <1>9 DEF SeenRecord
  <2>2. CASE check.mode # "worktree"
    <3>1. seen' = [seen EXCEPT !.checked = @ \cup {check}, !.unpushed = @ \cup {listing}]
      BY <1>2, <2>2 DEF Checked, listing
    <3>2. seen.unpushed \in SUBSET Listing
      BY <1>9 DEF SeenRecord
    <3>3. seen.unpushed \cup {listing} \in SUBSET Listing
      BY <3>2, <1>18
    <3> HIDE DEF listing
    <3> QED
      BY <3>1, <3>3, <1>8, <1>9 DEF SeenRecord
  <2> QED
    BY <2>1, <2>2
<1>11. /\ check.mode = "worktree" =>
            /\ seen'.identities = seen.identities \cup {<<check.at, sources>>}
            /\ seen'.unpushed = seen.unpushed
       /\ check.mode = "unpushed" =>
            /\ seen'.identities = seen.identities
            /\ seen'.unpushed = seen.unpushed \cup {listing}
  BY <1>2, <1>9 DEF SeenRecord, Checked
<1>12. SessionTyped' /\ PhaseFits' /\ ActFits'
  BY <1>3, <1>4, <1>10, ProgressKeeps
<1>13. BranchKnows' /\ ConsentKnows' /\ InfrastructureKnows' /\ CommandsKnow'
  BY <1>3, <1>4, <1>10, OthersKnow
<1>14. /\ \A done_check \in seen.checked :
            /\ done_check.mode = "worktree" =>
                 \E pair \in seen.identities : pair[1] = done_check.at
            /\ done_check.mode = "unpushed" =>
                 \E listed \in seen.unpushed : listed.at = done_check.at
       /\ session.identity =>
            /\ \A pair \in seen.identities :
                 ~Refused(WorktreeIdentity(WithAssignment(pair[2], call.segments[pair[1]].email)))
            /\ \A listed \in seen.unpushed : Clean(listed)
  BY <1>1, <1>7 DEF SessionInv, HooksKnow, IdentityKnows
<1>15. ASSUME to # "deny", session.identity
       PROVE  /\ check.mode = "worktree" =>
                   ~Refused(WorktreeIdentity(
                       WithAssignment(sources, call.segments[check.at].email)))
              /\ check.mode = "unpushed" => Clean(listing)
  BY <1>5, <1>15 DEF CheckRefuses, Listed, Clean
<1> HIDE DEF listing
<1>16. IdentityKnows'
  <2>1. SUFFICES ASSUME to # "deny" PROVE IdentityKnows'
    BY <1>7 DEF IdentityKnows
  <2>2. CASE check.mode = "worktree"
    <3>1. \A c \in seen'.checked :
            /\ c.mode = "worktree" => \E pair \in seen'.identities : pair[1] = c.at
            /\ c.mode = "unpushed" => \E listed \in seen'.unpushed : listed.at = c.at
      <4>1. <<check.at, sources>> \in seen'.identities
        BY <1>11, <2>2
      <4>2. <<check.at, sources>>[1] = check.at
        OBVIOUS
      <4>3. \E pair \in seen'.identities : pair[1] = check.at
        BY <4>1, <4>2
      <4> QED
        BY <1>10, <1>11, <1>14, <2>2, <4>3
    <3>2. session.identity =>
            /\ \A pair \in seen'.identities :
                 ~Refused(WorktreeIdentity(WithAssignment(pair[2], call.segments[pair[1]].email)))
            /\ \A listed \in seen'.unpushed : Clean(listed)
      BY <1>11, <1>14, <1>15, <2>1, <2>2
    <3>3. to # "start" => Checks(call.segments) \subseteq seen'.checked
      BY <1>6, <1>10, <2>1
    <3> QED
      BY <1>7, <3>1, <3>2, <3>3 DEF IdentityKnows
  <2>3. CASE check.mode = "unpushed"
    <3>1. \A c \in seen'.checked :
            /\ c.mode = "worktree" => \E pair \in seen'.identities : pair[1] = c.at
            /\ c.mode = "unpushed" => \E listed \in seen'.unpushed : listed.at = c.at
      BY <1>10, <1>11, <1>14, <1>18, <2>3
    <3>2. session.identity =>
            /\ \A pair \in seen'.identities :
                 ~Refused(WorktreeIdentity(WithAssignment(pair[2], call.segments[pair[1]].email)))
            /\ \A listed \in seen'.unpushed : Clean(listed)
      BY <1>11, <1>14, <1>15, <2>1, <2>3
    <3>3. to # "start" => Checks(call.segments) \subseteq seen'.checked
      BY <1>6, <1>10, <2>1
    <3> QED
      BY <1>7, <3>1, <3>2, <3>3 DEF IdentityKnows
  <2> QED
    BY <1>8, <2>2, <2>3 DEF Check
<1>17. AdviceIsAccepted'
  BY <1>1, <1>7, AdviceKept DEF SessionInv
<1> QED
  BY <1>12, <1>13, <1>16, <1>17 DEF SessionInv, HooksKnow

-----------------------------------------------------------------------------
(* The client, the run and the turn *)

\* Between calls nothing is known and nothing has to be.
LEMMA IdleKeeps ==
  ASSUME SessionInv, UNCHANGED environment, turn' \in {"over", "working", "held"},
         phase' \in {"idle", "stopping"}, call' = NoCall, seen' \in SeenRecord,
         step' = 1, done' = NoAct, AdviceIsAccepted'
  PROVE  SessionInv'
<1>1. SessionTyped'
  BY SettingKept DEF SessionInv
<1>2. ~Active' /\ ~Passed' /\ ~Running'
  BY DEF Active, Passed, Running
<1>3. PhaseFits'
  BY <1>2 DEF PhaseFits
<1>4. ActFits'
  BY DEF ActFits
<1>5. HooksKnow'
  BY <1>2 DEF HooksKnow, BranchKnows, IdentityKnows, ConsentKnows, InfrastructureKnows,
         CommandsKnow
<1> QED
  BY <1>1, <1>3, <1>4, <1>5 DEF SessionInv

\* The votes of a call stand while the client, the user and git work: only a
\* move of the user, or the run itself, changes the repository.
LEMMA VotesStand ==
  ASSUME SessionInv, UNCHANGED <<session, call, hooks, seen>>, Active, Active',
         \/ moves' = moves /\ (step' = 1 => step = 1 /\ repo' = repo)
         \/ moves' = moves + 1
  PROVE  HooksKnow'
<1>1. seen.moves \in Nat /\ moves \in Nat
  BY MovesCounted DEF SessionInv, SessionTyped, SeenRecord
<1>2. HooksKnow
  BY DEF SessionInv
<1>3. BranchKnows'
  BY <1>1, <1>2 DEF HooksKnow, BranchKnows
<1>4. IdentityKnows'
  BY <1>2 DEF HooksKnow, IdentityKnows
<1>5. ConsentKnows' /\ InfrastructureKnows'
  BY <1>2 DEF HooksKnow, ConsentKnows, InfrastructureKnows
<1>6. CommandVote(call)' = CommandVote(call)
  BY DEF CommandVote
<1>7. CommandsKnow'
  BY <1>2, <1>6 DEF HooksKnow, CommandsKnow
<1> QED
  BY <1>3, <1>4, <1>5, <1>7 DEF HooksKnow

\* What a call in progress keeps, whatever the phase.
LEMMA CallStands ==
  ASSUME SessionInv, Active, UNCHANGED <<session, call, hooks>>, (DOMAIN files)' = DOMAIN files
  PROVE  /\ call' \in CallRecord(DOMAIN files)' /\ hooks' \in [HooksOf(call)' -> Progresses]
         /\ call \in CallRecord(DOMAIN files) /\ DOMAIN hooks = HooksOf(call)
         /\ "branch" \in DOMAIN hooks
<1>1. call \in CallRecord(DOMAIN files) /\ hooks \in [HooksOf(call) -> Progresses]
  BY DEF SessionInv, PhaseFits
<1>2. HooksOf(call)' = HooksOf(call) /\ CallRecord(DOMAIN files)' = CallRecord(DOMAIN files)
  BY DEF HooksOf, CallRecord, PathRecord
<1>3. "branch" \in HooksOf(call)
  BY DEF HooksOf
<1> QED
  BY <1>1, <1>2, <1>3

\* The client merges the votes: a denial ends the call, an ask opens a prompt.
LEMMA MergeKeeps ==
  ASSUME SessionInv, Merge
  PROVE  SessionInv'
<1>1. /\ UNCHANGED environment /\ turn' = turn /\ step' = step /\ advice' = advice
      /\ done' = done /\ session' = session /\ repo' = repo /\ moves' = moves
      /\ files' = files
  BY DEF Merge, environment
<1>2. SessionTyped /\ turn \in {"over", "working", "held"} /\ seen \in SeenRecord
      /\ step \in Nat \ {0}
  BY DEF SessionInv, SessionTyped
<1>3. Active /\ ~Running /\ step = 1 /\ done = NoAct
  BY DEF Merge, Decided, Active, Running, SessionInv, PhaseFits
<1>4. AdviceIsAccepted'
  BY <1>1, AdviceKept DEF SessionInv
<1>5. CASE Cast("deny")
  <2>1. GoesIdle
    BY <1>5 DEF Merge
  <2>2. NothingSeen \in SeenRecord
    BY DEF NothingSeen, SeenRecord, Heads, Look, Check
  <2> QED
    BY <1>1, <1>2, <1>3, <1>4, <2>1, <2>2, IdleKeeps DEF GoesIdle
<1>6. CASE ~Cast("deny")
  <2>1. UNCHANGED <<call, hooks, seen>>
        /\ phase' = IF Cast("ask") THEN "asking" ELSE "running"
    BY <1>6 DEF Merge
  <2>2. \A h \in DOMAIN hooks : hooks[h] \in {"allow", "ask"}
    BY <1>6 DEF Merge, Decided, Cast, Votes
  <2>3. ~Cast("ask") => \A h \in DOMAIN hooks : hooks[h] = "allow"
    BY <2>2 DEF Cast
  <2>4. Active' /\ Passed'
    BY <2>1 DEF Active, Passed
  <2>5. SessionTyped'
    BY <1>1, <1>2, <2>1, SettingKept
  <2>6. PhaseFits'
    <3>1. /\ call' \in CallRecord(DOMAIN files)' /\ hooks' \in [HooksOf(call)' -> Progresses]
      BY <1>1, <1>3, <2>1, CallStands
    <3>2. Cast("ask")' <=> Cast("ask")
      BY <2>1 DEF Cast
    <3> QED
      BY <1>1, <1>3, <2>1, <2>2, <2>3, <2>4, <3>1, <3>2 DEF PhaseFits
  <2>7. ActFits'
    BY <1>1, <1>3 DEF ActFits
  <2>8. HooksKnow'
    BY <1>1, <1>3, <2>1, <2>4, VotesStand
  <2> QED
    BY <1>4, <2>5, <2>6, <2>7, <2>8 DEF SessionInv
<1> QED
  BY <1>5, <1>6

\* The user approves the call, or ends it.
LEMMA AnswerKeeps ==
  ASSUME SessionInv, NEW approves \in BOOLEAN, Answer(approves)
  PROVE  SessionInv'
<1>1. /\ UNCHANGED environment /\ turn' = turn /\ step' = step /\ advice' = advice
      /\ done' = done /\ session' = session /\ repo' = repo /\ moves' = moves
      /\ files' = files
  BY DEF Answer, environment
<1>2. SessionTyped /\ turn \in {"over", "working", "held"} /\ seen \in SeenRecord
      /\ step \in Nat \ {0}
  BY DEF SessionInv, SessionTyped
<1>3. Active /\ Passed /\ ~Running /\ step = 1 /\ done = NoAct
  BY DEF Answer, Active, Passed, Running, SessionInv, PhaseFits
<1>4. AdviceIsAccepted'
  BY <1>1, AdviceKept DEF SessionInv
<1>5. CASE ~approves
  <2>1. GoesIdle
    BY <1>5 DEF Answer
  <2>2. NothingSeen \in SeenRecord
    BY DEF NothingSeen, SeenRecord, Heads, Look, Check
  <2> QED
    BY <1>1, <1>2, <1>3, <1>4, <2>1, <2>2, IdleKeeps DEF GoesIdle
<1>6. CASE approves
  <2>1. UNCHANGED <<call, hooks, seen>> /\ phase' = "approved"
    BY <1>6 DEF Answer
  <2>2. \A h \in DOMAIN hooks : hooks[h] \in {"allow", "ask"}
    BY <1>3 DEF SessionInv, PhaseFits
  <2>3. Active' /\ Passed'
    BY <2>1 DEF Active, Passed
  <2>4. SessionTyped'
    BY <1>1, <1>2, <2>1, SettingKept
  <2>5. PhaseFits'
    <3>1. /\ call' \in CallRecord(DOMAIN files)' /\ hooks' \in [HooksOf(call)' -> Progresses]
      BY <1>1, <1>3, <2>1, CallStands
    <3> QED
      BY <1>1, <1>3, <2>1, <2>2, <2>3, <3>1 DEF PhaseFits
  <2>6. ActFits'
    BY <1>1, <1>3 DEF ActFits
  <2>7. HooksKnow'
    BY <1>1, <1>3, <2>1, <2>3, VotesStand
  <2> QED
    BY <1>4, <2>4, <2>5, <2>6, <2>7 DEF SessionInv
<1> QED
  BY <1>5, <1>6

\* The identity of a commit is made of addresses (git's part of GitIdentity).
LEMMA IdentityTyped ==
  ASSUME NEW from \in SourceRecord, NEW email \in Emails
  PROVE  CommitIdentity(WithAssignment(from, email)) \in [Roles -> Addresses]
<1> DEFINE given == WithAssignment(from, email)
<1>1. /\ from.env \in [Roles -> Person] /\ from.role \in [Roles -> Emails]
      /\ from.config.email \in Emails /\ from.EMAIL \in Emails
  BY DEF SourceRecord, Person
<1>2. /\ given.role = from.role /\ given.config = from.config /\ given.EMAIL = from.EMAIL
      /\ \A role \in Roles : given.env[role].email \in Emails
  <2>1. CASE email = ""
    BY <1>1, <2>1 DEF WithAssignment, Person
  <2>2. CASE email # ""
    <3> DEFINE env == [[from.env EXCEPT !["author"].email = email]
                         EXCEPT !["committer"].email = email]
    <3>1. given = [from EXCEPT !.env = env]
      BY <2>2, <1>1 DEF WithAssignment, SourceRecord, Roles
    <3>2. \A role \in Roles : env[role].email = email
      BY <1>1 DEF Roles, Person
    <3> HIDE DEF env, given
    <3> QED
      BY <3>1, <3>2 DEF SourceRecord
  <2> QED
    BY <2>1, <2>2
<1> HIDE DEF given
<1>3. \A role \in Roles : CommitIdentity(given)[role] \in Addresses
  BY <1>1, <1>2, ZenonT(60) DEF CommitIdentity, First, Emails, Addresses
<1>4. CommitIdentity(given) = [role \in Roles |-> CommitIdentity(given)[role]]
  BY DEF CommitIdentity
<1>5. CommitIdentity(given) \in [Roles -> Addresses]
  BY <1>3, <1>4
<1> QED
  BY <1>5 DEF given

\* git config leaves sources an identity is read from.
LEMMA ConfiguredStaysTyped ==
  ASSUME NEW from \in SourceRecord, NEW email \in Emails
  PROVE  [from EXCEPT !.config.email = email] \in SourceRecord
<1> DEFINE config == [from.config EXCEPT !.email = email]
<1>1. config \in Person
  BY DEF SourceRecord, Person
<1>2. [from EXCEPT !.config.email = email] = [from EXCEPT !.config = config]
  BY DEF SourceRecord
<1> HIDE DEF config
<1> QED
  BY <1>1, <1>2 DEF SourceRecord

\* What no remote has stays commits on branches (git's part of AgentSession).
LEMMA UnpushedTyped ==
  ASSUME repo \in Repository, sources \in SourceRecord, unpushed \subseteq Commits,
         NEW segment, segment.email \in Emails, NEW now \in Repository
  PROVE  Unpushed(segment, now) \subseteq Commits
<1> DEFINE made == CommitIdentity(WithAssignment(sources, segment.email))
           mine == {entry \in unpushed : entry[1] = repo.head}
           onto == {<<now.head, entry[2]>> : entry \in mine}
<1>1. made \in [Roles -> Addresses] /\ repo.head \in Heads /\ now.head \in Heads
  BY IdentityTyped DEF Repository
<1> HIDE DEF made
<1>2. \/ Unpushed(segment, now) \subseteq unpushed
      \/ Unpushed(segment, now) \subseteq unpushed \cup {<<repo.head, made>>}
      \/ Unpushed(segment, now) \subseteq unpushed \cup onto
  <2>1. CASE segment.elsewhere # "none"
    BY <2>1 DEF Unpushed
  <2>2. CASE segment.elsewhere = "none" /\ segment.op \in {"commit", "amend"}
    BY <2>2 DEF Unpushed, OffList, made
  <2>3. CASE segment.elsewhere = "none" /\ segment.op \in {"push", "force"}
    BY <2>3 DEF Unpushed
  <2>4. CASE segment.elsewhere = "none" /\ segment.op = "rename"
    BY <2>4 DEF Unpushed
  <2>5. CASE segment.elsewhere = "none"
             /\ segment.op \in {"create", "stash", "rebase", "continue", "skip"}
    BY <2>5 DEF Unpushed
  <2>6. CASE segment.elsewhere = "none"
             /\ segment.op \notin {"commit", "amend", "push", "force", "rename", "create",
                                   "stash", "rebase", "continue", "skip"}
    BY <2>6 DEF Unpushed
  <2> QED
    BY <2>1, <2>2, <2>3, <2>4, <2>5, <2>6
<1>3. onto \subseteq Commits
  BY <1>1 DEF Commits
<1>4. <<repo.head, made>> \in Commits
  BY <1>1 DEF Commits
<1> HIDE DEF mine, onto
<1> QED
  BY <1>2, <1>3, <1>4

\* A segment runs on what the repository has become.
LEMMA RunSegmentKeeps ==
  ASSUME SessionInv, RunSegment
  PROVE  SessionInv'
<1> DEFINE segment == call.segments[step]
<1>1. /\ Running /\ IsShell(call) /\ step <= Len(call.segments)
      /\ done' = Act(segment) /\ repo' \in Outcomes(segment)
      /\ sources' = IF segment.op = "configure"
                    THEN [sources EXCEPT !.config.email = segment.to] ELSE sources
      /\ unpushed' = Unpushed(segment, repo')
      /\ step' = step + 1
      /\ session' = session /\ files' = files /\ call' = call /\ hooks' = hooks
      /\ seen' = seen /\ phase' = phase /\ turn' = turn /\ advice' = advice
      /\ moves' = moves
  BY DEF RunSegment
<1>2. Active /\ Active' /\ Running' /\ Passed /\ phase \in {"running", "approved"}
  BY <1>1 DEF Active, Running, Passed
<1>3. /\ call \in CallRecord(DOMAIN files) /\ "branch" \in DOMAIN hooks
      /\ call' \in CallRecord(DOMAIN files)' /\ hooks' \in [HooksOf(call)' -> Progresses]
  BY <1>1, <1>2, CallStands
<1>4. SessionTyped /\ step \in Nat \ {0}
  BY DEF SessionInv, SessionTyped
<1>5. step \in 1..Len(call.segments)
  <2>1. call.segments \in Seq(Segment)
    BY <1>1, <1>3, CallKinds
  <2>2. Len(call.segments) \in Nat
    BY <2>1
  <2> QED
    BY <1>1, <1>4, <2>2
<1>6. segment \in Segment
  BY <1>1, <1>3, <1>5, SegmentOf
<1>7. /\ segment.op \in {"create", "switch", "rename", "stash"} => segment.to \in Heads
      /\ segment.op = "configure" => segment.to \in Emails
      /\ segment.email \in Emails
  BY <1>6 DEF Segment
<1> HIDE DEF segment
<1>8. /\ session \in SessionRecord
      /\ repo \in Repository /\ (repo.stopped = "rebase" => repo.onto \notin {"", "HEAD"})
      /\ sources \in SourceRecord /\ unpushed \subseteq Commits
      /\ files \in [DOMAIN files -> OnDisk] /\ FocusFits /\ moves \in 0..MaxMoves
      /\ turn \in {"over", "working", "held"} /\ seen \in SeenRecord
  BY DEF SessionInv, SessionTyped
<1>9. SessionTyped'
  <2>1. repo' \in Repository /\ (repo'.stopped = "rebase" => repo'.onto \notin {"", "HEAD"})
    BY <1>1, <1>7, <1>8, OutcomesAreRepositories
  <2>2. sources' \in SourceRecord
    <3>1. CASE segment.op = "configure"
      <4>1. sources' = [sources EXCEPT !.config.email = segment.to] /\ segment.to \in Emails
        BY <1>1, <1>7, <3>1
      <4>2. sources \in SourceRecord
        BY <1>8
      <4> QED
        BY <4>1, <4>2, ConfiguredStaysTyped
    <3>2. CASE segment.op # "configure"
      BY <1>1, <1>8, <3>2
    <3> QED
      BY <3>1, <3>2
  <2>3. unpushed' \subseteq Commits
    BY <1>1, <1>7, <1>8, <2>1, UnpushedTyped
  <2>4. FocusFits' /\ seen' \in SeenRecord' /\ files' \in [DOMAIN files -> OnDisk]'
    BY <1>1, <1>8, Zenon DEF FocusFits, SeenRecord, Look
  <2>5. step' \in Nat \ {0}
    BY <1>1, <1>4
  <2>6. session' \in SessionRecord /\ moves' \in 0..MaxMoves
        /\ turn' \in {"over", "working", "held"}
    BY <1>1, <1>8
  <2> QED
    BY <2>1, <2>2, <2>3, <2>4, <2>5, <2>6, Zenon DEF SessionTyped
<1>10. step' # 1 /\ step' > 1
  BY <1>1, <1>4
<1>11. PhaseFits'
  <2>1. /\ \A h \in DOMAIN hooks : hooks[h] \in {"allow", "ask"}
        /\ phase = "running" => \A h \in DOMAIN hooks : hooks[h] = "allow"
    BY <1>2 DEF SessionInv, PhaseFits
  <2> QED
    BY <1>1, <1>2, <1>3, <1>10, <2>1 DEF PhaseFits
<1>12. ActFits'
  <2>1. done'.asked = (phase = "approved") /\ done'.act = segment /\ done'.head = repo.head
    BY <1>1 DEF Act
  <2>2. step' - 1 = step
    BY <1>1, <1>4
  <2>3. step' - 1 \in DOMAIN call.segments /\ segment = call.segments[step' - 1]
    <3>1. step \in DOMAIN call.segments
      BY <1>1, <1>3, <1>5, CallKinds
    <3> QED
      BY <2>2, <3>1 DEF segment
  <2>4. step' = 2 => repo.head = seen.head \/ seen.moves < moves
    <3>1. SUFFICES ASSUME step' = 2 PROVE repo.head = seen.head \/ seen.moves < moves
      OBVIOUS
    <3>2. step = 1
      BY <1>1, <1>4, <3>1
    <3>3. hooks["branch"] # "start"
      BY <1>2, <1>3 DEF SessionInv, PhaseFits
    <3>4. /\ seen.repo.head = seen.head /\ seen.moves <= moves
          /\ seen.moves = moves => repo = seen.repo
      BY <1>2, <3>2, <3>3 DEF SessionInv, HooksKnow, BranchKnows
    <3>5. seen.moves \in Nat /\ moves \in Nat
      BY <1>4, <1>8, MovesCounted DEF SeenRecord
    <3> QED
      BY <3>4, <3>5
  <2> QED
    BY <1>1, <2>1, <2>3, <2>4 DEF ActFits
<1>13. HooksKnow'
  BY <1>1, <1>2, <1>10, VotesStand
<1>14. AdviceIsAccepted'
  BY <1>1, AdviceKept DEF SessionInv
<1> QED
  BY <1>9, <1>11, <1>12, <1>13, <1>14 DEF SessionInv

\* A tool that is no shell runs once: an edit writes its path.
LEMMA RunToolKeeps ==
  ASSUME SessionInv, RunTool
  PROVE  SessionInv'
<1>1. /\ Running /\ ~IsShell(call) /\ step = 1 /\ done' = Act(call) /\ step' = 2
      /\ files' = IF call.tool = "Edit"
                  THEN [files EXCEPT ![call.path.name] = call.content] ELSE files
      /\ session' = session /\ repo' = repo /\ sources' = sources /\ unpushed' = unpushed
      /\ call' = call /\ hooks' = hooks /\ seen' = seen /\ phase' = phase
      /\ turn' = turn /\ advice' = advice /\ moves' = moves
  BY DEF RunTool
<1>2. Active /\ Active' /\ Running' /\ Passed /\ phase \in {"running", "approved"}
  BY <1>1 DEF Active, Running, Passed
<1>3. call \in CallRecord(DOMAIN files)
  BY <1>2 DEF SessionInv, PhaseFits
<1>4. /\ session \in SessionRecord
      /\ repo \in Repository /\ (repo.stopped = "rebase" => repo.onto \notin {"", "HEAD"})
      /\ sources \in SourceRecord /\ unpushed \subseteq Commits
      /\ files \in [DOMAIN files -> OnDisk] /\ FocusFits /\ moves \in 0..MaxMoves
      /\ turn \in {"over", "working", "held"} /\ seen \in SeenRecord
  BY DEF SessionInv, SessionTyped
<1>5. (DOMAIN files)' = DOMAIN files /\ files' \in [DOMAIN files -> OnDisk]
  <2>1. CASE call.tool = "Edit"
    <3>1. call.content \in OnDisk
      BY <1>3, <2>1, CallKinds DEF OnDisk
    <3> QED
      BY <1>1, <1>4, <2>1, <3>1
  <2>2. CASE call.tool # "Edit"
    BY <1>1, <1>4, <2>2
  <2> QED
    BY <2>1, <2>2
<1>6. /\ call' \in CallRecord(DOMAIN files)' /\ hooks' \in [HooksOf(call)' -> Progresses]
      /\ "branch" \in DOMAIN hooks
  BY <1>1, <1>2, <1>5, CallStands
<1>7. SessionTyped'
  <2>1. seen' \in SeenRecord'
    BY <1>1, <1>4, <1>5 DEF SeenRecord, Look
  <2>2. FocusFits'
    BY <1>1, <1>4, <1>5, Zenon DEF FocusFits
  <2>3. step' \in Nat \ {0}
    BY <1>1
  <2>4. files' \in [DOMAIN files -> OnDisk]'
    BY <1>5
  <2>5. /\ session' \in SessionRecord /\ repo' \in Repository
        /\ repo'.stopped = "rebase" => repo'.onto \notin {"", "HEAD"}
        /\ sources' \in SourceRecord /\ unpushed' \subseteq Commits
        /\ moves' \in 0..MaxMoves /\ turn' \in {"over", "working", "held"}
    BY <1>1, <1>4
  <2> QED
    BY <2>1, <2>2, <2>3, <2>4, <2>5, Zenon DEF SessionTyped
<1>8. PhaseFits'
  <2>1. /\ \A h \in DOMAIN hooks : hooks[h] \in {"allow", "ask"}
        /\ phase = "running" => \A h \in DOMAIN hooks : hooks[h] = "allow"
    BY <1>2 DEF SessionInv, PhaseFits
  <2> QED
    BY <1>1, <1>2, <1>6, <2>1 DEF PhaseFits
<1>9. ActFits'
  <2>1. done'.asked = (phase = "approved") /\ done'.act = call /\ done'.head = repo.head
    BY <1>1 DEF Act
  <2>2. repo.head = seen.head \/ seen.moves < moves
    <3>1. hooks["branch"] # "start"
      BY <1>2, <1>6 DEF SessionInv, PhaseFits
    <3>2. /\ seen.repo.head = seen.head /\ seen.moves <= moves
          /\ seen.moves = moves => repo = seen.repo
      BY <1>1, <1>2, <3>1 DEF SessionInv, HooksKnow, BranchKnows
    <3>3. seen.moves \in Nat /\ moves \in Nat
      BY <1>4, MovesCounted DEF SeenRecord, SessionInv
    <3> QED
      BY <3>2, <3>3
  <2> QED
    BY <1>1, <2>1, <2>2 DEF ActFits
<1>10. HooksKnow'
  BY <1>1, <1>2, VotesStand
<1>11. AdviceIsAccepted'
  BY <1>1, AdviceKept DEF SessionInv
<1> QED
  BY <1>7, <1>8, <1>9, <1>10, <1>11 DEF SessionInv

\* A call that has run, or whose command a segment has ended, returns.
LEMMA ReturnKeeps ==
  ASSUME SessionInv, Return
  PROVE  SessionInv'
<1>1. /\ UNCHANGED environment /\ turn' = turn /\ advice' = advice /\ GoesIdle
      /\ done' = NoAct /\ step' = 1 /\ session' = session
  BY DEF Return, environment
<1>2. NothingSeen \in SeenRecord
  BY DEF NothingSeen, SeenRecord, Heads, Look, Check
<1>3. turn \in {"over", "working", "held"}
  BY DEF SessionInv, SessionTyped
<1>4. AdviceIsAccepted'
  BY <1>1, AdviceKept DEF SessionInv
<1> QED
  BY <1>1, <1>2, <1>3, <1>4, IdleKeeps DEF GoesIdle

\* Outside a call there is nothing of one.
LEMMA NoCallIdle ==
  ASSUME SessionInv, phase \in {"idle", "stopping"}
  PROVE  /\ call = NoCall /\ step = 1 /\ done = NoAct /\ seen \in SeenRecord
         /\ turn \in {"over", "working", "held"}
BY DEF SessionInv, SessionTyped, PhaseFits, Active, Running

\* The agent tries to end its turn.
LEMMA AttemptStopKeeps ==
  ASSUME SessionInv, AttemptStop
  PROVE  SessionInv'
<1>1. /\ UNCHANGED environment /\ phase = "idle" /\ phase' = "stopping" /\ call' = call
      /\ seen' = seen /\ step' = step /\ turn' = turn /\ advice' = advice /\ done' = done
      /\ session' = session
  BY DEF AttemptStop, environment
<1>2. AdviceIsAccepted'
  BY <1>1, AdviceKept DEF SessionInv
<1> QED
  BY <1>1, <1>2, NoCallIdle, IdleKeeps

\* The stop hook's advice is not the tool gate's.
LEMMA StopHookKeeps ==
  ASSUME SessionInv, StopHook
  PROVE  SessionInv'
<1>1. /\ UNCHANGED environment /\ phase = "stopping" /\ phase' = "idle" /\ call' = call
      /\ seen' = seen /\ step' = step /\ done' = done
  BY DEF StopHook
<1>2. \/ turn' = "held" /\ advice' = [source |-> "stop", recovery |-> Mandatory(repo.head),
                                      repo |-> repo, steady |-> TRUE]
      \/ turn' = "over" /\ advice' = NoAdvice
  BY DEF StopHook
<1>3. turn' \in {"over", "held"} /\ advice'.source # "tool"
  <2> DEFINE given == [source |-> "stop", recovery |-> Mandatory(repo.head),
                       repo |-> repo, steady |-> TRUE]
  <2>1. given.source # "tool" /\ NoAdvice.source # "tool"
    BY DEF NoAdvice
  <2>2. advice' = given \/ advice' = NoAdvice
    BY <1>2
  <2> HIDE DEF given
  <2> QED
    BY <1>2, <2>1, <2>2
<1>4. AdviceIsAccepted'
  BY <1>3 DEF AdviceIsAccepted
<1> QED
  BY <1>1, <1>3, <1>4, NoCallIdle, IdleKeeps

\* A prompt's advice names both corrections, and the tool gate did not give it.
LEMMA UserPromptKeeps ==
  ASSUME SessionInv, UserPrompt
  PROVE  SessionInv'
<1>1. /\ UNCHANGED environment /\ phase = "idle" /\ phase' = phase /\ call' = call
      /\ seen' = seen /\ step' = step /\ done' = done /\ turn' = "working"
      /\ advice'.source # "tool"
  BY DEF UserPrompt, NoAdvice
<1>2. AdviceIsAccepted'
  BY <1>1 DEF AdviceIsAccepted
<1> QED
  BY <1>1, <1>2, NoCallIdle, IdleKeeps

\* The user works in the same clone: the call under way keeps what it knows.
LEMMA MoveKeeps ==
  ASSUME SessionInv, NEW move \in MoveRecord(DOMAIN files), Move(move)
  PROVE  SessionInv'
<1>1. /\ moves < MaxMoves /\ moves' = moves + 1
      /\ session' = session /\ call' = call /\ hooks' = hooks /\ seen' = seen
      /\ phase' = phase /\ step' = step /\ turn' = turn /\ advice' = advice /\ done' = done
  BY DEF Move
<1>2. /\ session \in SessionRecord
      /\ repo \in Repository /\ (repo.stopped = "rebase" => repo.onto \notin {"", "HEAD"})
      /\ sources \in SourceRecord /\ unpushed \subseteq Commits
      /\ files \in [DOMAIN files -> OnDisk] /\ FocusFits
      /\ turn \in {"over", "working", "held"} /\ seen \in SeenRecord /\ step \in Nat \ {0}
  BY DEF SessionInv, SessionTyped
<1>3. MaxMoves \in Nat /\ moves \in Nat /\ seen.moves \in Nat
  BY <1>2, MovesCounted DEF SessionInv, SeenRecord
<1>4. /\ repo' \in Repository /\ (repo'.stopped = "rebase" => repo'.onto \notin {"", "HEAD"})
      /\ sources' \in SourceRecord /\ unpushed' \subseteq Commits
      /\ (DOMAIN files)' = DOMAIN files /\ files' \in [DOMAIN files -> OnDisk]
  <2>1. CASE move \in [does : {"git"}, op : STRING, to : Heads]
    <3>1. /\ repo' \in Outcomes(Git(move.op, move.to))
          /\ unpushed' = Unpushed(Git(move.op, move.to), repo')
          /\ sources' = sources /\ files' = files
      BY <2>1 DEF Move
    <3>2. Git(move.op, move.to).to \in Heads /\ Git(move.op, move.to).email \in Emails
      BY <2>1 DEF Git, Plain, Emails
    <3>3. repo' \in Repository /\ (repo'.stopped = "rebase" => repo'.onto \notin {"", "HEAD"})
      BY <1>2, <3>1, <3>2, OutcomesAreRepositories
    <3>4. unpushed' \subseteq Commits
      BY <1>2, <3>1, <3>2, <3>3, UnpushedTyped
    <3> QED
      BY <1>2, <3>1, <3>3, <3>4
  <2>2. CASE move \in [does : {"am"}]
    <3>1. /\ repo' = [repo EXCEPT !.stopped = "am", !.onto = repo.head]
          /\ sources' = sources /\ unpushed' = unpushed /\ files' = files
      BY <2>2 DEF Move
    <3>2. repo' \in Repository /\ repo'.stopped = "am"
      BY <1>2, <3>1 DEF Repository
    <3> QED
      BY <1>2, <3>1, <3>2
  <2>3. CASE move \in [does : {"configure"}, to : Emails]
    <3>1. /\ sources' = [sources EXCEPT !.config.email = move.to] /\ move.to \in Emails
          /\ repo' = repo /\ unpushed' = unpushed /\ files' = files
      BY <2>3 DEF Move
    <3>2. sources' \in SourceRecord
      BY <1>2, <3>1, ConfiguredStaysTyped
    <3> QED
      BY <1>2, <3>1, <3>2
  <2>4. CASE move \in [does : {"commit"}, on : Heads, commit : [Roles -> Addresses]]
    <3>1. /\ unpushed' \subseteq unpushed \cup {<<move.on, move.commit>>}
          /\ <<move.on, move.commit>> \in Commits
          /\ repo' = repo /\ sources' = sources /\ files' = files
      BY <2>4 DEF Move, OffList, Commits
    <3> QED
      BY <1>2, <3>1
  <2>5. CASE move \in [does : {"write"}, path : DOMAIN files, content : OnDisk]
    <3>1. /\ files' = [files EXCEPT ![move.path] = move.content] /\ move.content \in OnDisk
          /\ repo' = repo /\ sources' = sources /\ unpushed' = unpushed
      BY <2>5 DEF Move
    <3> QED
      BY <1>2, <3>1
  <2> QED
    BY <2>1, <2>2, <2>3, <2>4, <2>5 DEF MoveRecord
<1>5. SessionTyped'
  <2>1. seen' \in SeenRecord'
    BY <1>1, <1>2, <1>4 DEF SeenRecord, Look
  <2>2. FocusFits'
    BY <1>1, <1>2, <1>4, Zenon DEF FocusFits
  <2>3. moves' \in 0..MaxMoves
    BY <1>1, <1>3
  <2>4. files' \in [DOMAIN files -> OnDisk]'
    BY <1>4
  <2>5. session' \in SessionRecord /\ turn' \in {"over", "working", "held"}
        /\ step' \in Nat \ {0}
    BY <1>1, <1>2
  <2> QED
    BY <1>4, <2>1, <2>2, <2>3, <2>4, <2>5, Zenon DEF SessionTyped
<1>6. (Active' <=> Active) /\ (Passed' <=> Passed) /\ (Running' <=> Running)
      /\ (Cast("ask")' <=> Cast("ask"))
  BY <1>1 DEF Active, Passed, Running, Cast
<1>7. Active => call' \in CallRecord(DOMAIN files)' /\ hooks' \in [HooksOf(call)' -> Progresses]
  BY <1>1, <1>4, CallStands
<1>8. PhaseFits'
  <2>1. PhaseFits
    BY DEF SessionInv
  <2> QED
    BY <1>1, <1>6, <1>7, <2>1 DEF PhaseFits
<1>9. ActFits'
  <2>1. ActFits
    BY DEF SessionInv
  <2>2. IsShell(call)' <=> IsShell(call)
    BY <1>1 DEF IsShell
  <2> QED
    BY <1>1, <1>3, <2>1, <2>2 DEF ActFits
<1>10. HooksKnow'
  <2>1. CASE Active
    BY <1>1, <1>6, <2>1, VotesStand
  <2>2. CASE ~Active
    BY <1>6, <2>2 DEF HooksKnow, BranchKnows, IdentityKnows, ConsentKnows, InfrastructureKnows,
           CommandsKnow
  <2> QED
    BY <2>1, <2>2
<1>11. AdviceIsAccepted'
  BY <1>1, AdviceKept DEF SessionInv
<1> QED
  BY <1>5, <1>8, <1>9, <1>10, <1>11 DEF SessionInv

\* Nothing changes in a step that changes nothing.
LEMMA StutterKeeps ==
  ASSUME SessionInv, UNCHANGED vars
  PROVE  SessionInv'
<1>1. /\ UNCHANGED environment /\ session' = session /\ repo' = repo /\ files' = files
      /\ moves' = moves /\ call' = call /\ hooks' = hooks /\ seen' = seen
      /\ phase' = phase /\ step' = step /\ turn' = turn /\ advice' = advice /\ done' = done
  BY DEF vars, environment
<1>2. SessionTyped'
  <2>1. /\ seen \in SeenRecord /\ turn \in {"over", "working", "held"} /\ step \in Nat \ {0}
    BY DEF SessionInv, SessionTyped
  <2> QED
    BY <1>1, <2>1, SettingKept DEF SessionInv
<1>3. (Active' <=> Active) /\ (Passed' <=> Passed) /\ (Running' <=> Running)
      /\ (Cast("ask")' <=> Cast("ask")) /\ (IsShell(call)' <=> IsShell(call))
  BY <1>1 DEF Active, Passed, Running, Cast, IsShell
<1>4. Active => call' \in CallRecord(DOMAIN files)' /\ hooks' \in [HooksOf(call)' -> Progresses]
  BY <1>1, CallStands
<1>5. PhaseFits'
  BY <1>1, <1>3, <1>4 DEF PhaseFits, SessionInv
<1>6. ActFits'
  BY <1>1, <1>3 DEF ActFits, SessionInv
<1>7. HooksKnow'
  <2>1. CASE Active
    BY <1>1, <1>3, <2>1, VotesStand
  <2>2. CASE ~Active
    BY <1>3, <2>2 DEF HooksKnow, BranchKnows, IdentityKnows, ConsentKnows, InfrastructureKnows,
           CommandsKnow
  <2> QED
    BY <2>1, <2>2
<1>8. AdviceIsAccepted'
  BY <1>1, AdviceKept DEF SessionInv
<1> QED
  BY <1>2, <1>5, <1>6, <1>7, <1>8 DEF SessionInv

\* The invariant is inductive.
LEMMA SessionStep ==
  SessionInv /\ [Next]_vars => SessionInv'
<1> SUFFICES ASSUME SessionInv, [Next]_vars PROVE SessionInv'
  OBVIOUS
<1>1. FocusFits
  BY DEF SessionInv, SessionTyped
<1>2. ASSUME NEW c \in Calls(session.focus), Submit(c) PROVE SessionInv'
  <2>1. c \in CallRecord(DOMAIN files)
    BY <1>1, Zenon DEF FocusFits
  <2> QED
    BY <1>2, <2>1, SubmitKeeps, Zenon
<1>3. ASSUME NEW move \in Moves(session.focus), Move(move) PROVE SessionInv'
  <2>1. move \in MoveRecord(DOMAIN files)
    BY <1>1, Zenon DEF FocusFits
  <2> QED
    BY <1>3, <2>1, MoveKeeps, Zenon
<1>4. CASE BranchHook
  BY <1>4, BranchReadKeeps, BranchRecoverKeeps DEF BranchHook
<1>5. CASE IdentityHook
  BY <1>5, IdentityCheckKeeps, NothingToCheckKeeps DEF IdentityHook
<1>6. CASE ConsentHook
  BY <1>6, ConsentLookKeeps, ConsentOpenKeeps DEF ConsentHook
<1>7. CASE User
  BY <1>7, AnswerKeeps DEF User
<1>8. CASE Run
  BY <1>8, RunSegmentKeeps, RunToolKeeps, ReturnKeeps DEF Run
<1> QED
  BY <1>2, <1>3, <1>4, <1>5, <1>6, <1>7, <1>8, InfrastructureLookKeeps, MergeKeeps,
     AttemptStopKeeps, StopHookKeeps, UserPromptKeeps, StutterKeeps, Zenon DEF Next

\* In every session the acts that have run fit the call, and the votes what the
\* hooks had read.
THEOREM SessionInvariant == Spec => []SessionInv
BY SessionStarts, SessionStep, PTL DEF Spec

-----------------------------------------------------------------------------
(* What the acts that run have passed *)

\* A call that runs has passed its gates.
LEMMA RunningPassed ==
  ASSUME SessionInv, step > 1 \/ Running
  PROVE  /\ Active /\ Passed /\ Running /\ phase \in {"running", "approved"}
         /\ call \in CallRecord(DOMAIN files) /\ hooks \in [HooksOf(call) -> Progresses]
         /\ \A h \in HooksOf(call) : hooks[h] \in {"allow", "ask"}
         /\ phase = "running" => \A h \in HooksOf(call) : hooks[h] = "allow"
<1>1. Running
  BY DEF SessionInv, PhaseFits
<1>2. Active /\ Passed /\ phase \in {"running", "approved"}
  BY <1>1 DEF Running, Active, Passed
<1>3. /\ call \in CallRecord(DOMAIN files) /\ hooks \in [HooksOf(call) -> Progresses]
      /\ \A h \in DOMAIN hooks : hooks[h] \in {"allow", "ask"}
      /\ phase = "running" => \A h \in DOMAIN hooks : hooks[h] = "allow"
  BY <1>2 DEF SessionInv, PhaseFits
<1> QED
  BY <1>1, <1>2, <1>3

\* An act with an operation is the segment that has just run.
LEMMA SegmentHasRun ==
  ASSUME SessionInv, "op" \in DOMAIN done.act
  PROVE  /\ step > 1 /\ (step = 2 \/ step > 2)
         /\ IsShell(call) /\ call \in CallRecord(DOMAIN files)
         /\ step - 1 \in DOMAIN call.segments /\ done.act = call.segments[step - 1]
         /\ done.act \in Segment /\ done.asked = (phase = "approved")
         /\ step = 2 => done.head = seen.head \/ seen.moves < moves
<1>1. step > 1
  <2>1. step \in Nat \ {0} /\ (step = 1 => done = NoAct)
    BY DEF SessionInv, SessionTyped, PhaseFits
  <2>2. "op" \notin DOMAIN NoAct.act
    BY DEF NoAct
  <2> QED
    BY <2>1, <2>2
<1>2. call \in CallRecord(DOMAIN files) /\ (step = 2 \/ step > 2)
  <2>1. call \in CallRecord(DOMAIN files)
    BY <1>1, RunningPassed
  <2>2. step \in Nat
    BY DEF SessionInv, SessionTyped
  <2> QED
    BY <1>1, <2>1, <2>2
<1>3. ActFits
  BY DEF SessionInv
<1>4. IsShell(call)
  BY <1>1, <1>2, <1>3, CallKinds DEF ActFits
<1>5. step - 1 \in DOMAIN call.segments /\ done.act = call.segments[step - 1]
  BY <1>1, <1>3, <1>4 DEF ActFits
<1>6. done.act \in Segment
  BY <1>2, <1>4, <1>5, CallKinds
<1> QED
  BY <1>1, <1>2, <1>3, <1>4, <1>5, <1>6 DEF ActFits

\* A call of one segment has no other.
LEMMA OneSegment ==
  ASSUME NEW only, NEW i \in DOMAIN <<only>>
  PROVE  <<only>>[i] = only
OBVIOUS

\* What the branch gate's votes say of a segment of git, on a branch in order
\* (compliant_shell_reason) ...
LEMMA CompliantSegment ==
  ASSUME NEW asking, NEW checker, NEW c, IsShell(c), NEW i \in DOMAIN c.segments,
         c.segments[i] \in Segment, c.segments[i].op # "run",
         CompliantVote(asking, checker, c) # "deny"
  PROVE  ~NamesProhibited(c.segments[i]) /\ ~ElsewhereViolation(checker, c.segments[i])
<1>1. c.segments[i].program = "git"
  BY DEF Segment
<1>2. ~Bootstrap(c) /\ ~Workflow(c)
  <2>1. \A program : [Plain EXCEPT !.program = program].op = "run"
    BY DEF Plain
  <2>2. ASSUME NEW program, IsProgram(c, program) PROVE c.segments[i].op = "run"
    <3>1. c.segments = <<[Plain EXCEPT !.program = program]>>
      BY <2>2 DEF IsProgram
    <3>2. c.segments[i] = [Plain EXCEPT !.program = program]
      BY <3>1, OneSegment
    <3> QED
      BY <2>1, <3>2
  <2> QED
    BY <2>2 DEF Bootstrap, Workflow
<1>3. ~SegmentReason(checker, c.segments[i])
  BY <1>2 DEF CompliantVote, CommandReason
<1> QED
  BY <1>1, <1>3 DEF SegmentReason, GitContextReason

\* ... and off it: one recovery, which an operator authorizes (valid_recovery_command).
LEMMA RecoverySegment ==
  ASSUME NEW asking, NEW checker, NEW c, IsShell(c), NEW i \in DOMAIN c.segments,
         c.segments[i].op # "run", NEW branch, NEW rebase,
         ViolationVote(asking, checker, c, branch, rebase) # "deny"
  PROVE  /\ c.segments[i].op \in {"create", "rename"} \cup RebaseRecoveries
         /\ c.segments[i].to \in {"", "compliant"}
         /\ ViolationVote(asking, checker, c, branch, rebase) = Authorization(asking)
<1>1. c.tool # "question"
  BY DEF IsShell
<1>2. ~Bootstrap(c)
  <2>1. [Plain EXCEPT !.program = "branch reader"].op = "run"
    BY DEF Plain
  <2>2. SUFFICES ASSUME c.segments = <<[Plain EXCEPT !.program = "branch reader"]>> PROVE FALSE
    BY DEF Bootstrap, IsProgram
  <2>3. c.segments[i] = [Plain EXCEPT !.program = "branch reader"]
    BY <2>2, OneSegment
  <2> QED
    BY <2>1, <2>3
<1>3. ValidRecovery(checker, c, branch, rebase)
      /\ ViolationVote(asking, checker, c, branch, rebase) = Authorization(asking)
  BY <1>1, <1>2 DEF ViolationVote
<1>4. PICK op \in {"create", "rename"} \cup RebaseRecoveries, to \in {"", "compliant"} :
        Exact(c, op, to)
  <2>1. CASE rebase
    BY <1>3, <2>1 DEF ValidRecovery
  <2>2. CASE ~rebase
    BY <1>3, <2>2, CompliantName DEF ValidRecovery
  <2> QED
    BY <2>1, <2>2
<1>5. c.segments[i] = Git(op, to)
  BY <1>4, OneSegment DEF Exact
<1>6. Git(op, to).op = op /\ Git(op, to).to = to
  BY DEF Git, Plain
<1> QED
  BY <1>3, <1>5, <1>6

\* How the branch gate has let pass the segment that has run.
LEMMA BranchPassed ==
  ASSUME SessionInv, step > 1
  PROVE  LET vote == hooks["branch"] IN
         /\ vote \in {"allow", "ask"} /\ (phase = "running" => vote = "allow")
         /\ \/ /\ ~CheckBranch(session.checker, seen.head)
               /\ vote = CompliantVote(session, session.checker, call)
            \/ /\ CheckBranch(session.checker, seen.head)
               /\ \E branch \in Heads : \E rebase \in BOOLEAN :
                    vote = ViolationVote(session, session.checker, call, branch, rebase)
<1>1. "branch" \in HooksOf(call)
  BY DEF HooksOf
<1>2. Active /\ hooks["branch"] \in {"allow", "ask"}
      /\ (phase = "running" => hooks["branch"] = "allow")
  BY <1>1, RunningPassed
<1> QED
  BY <1>2 DEF SessionInv, HooksKnow, BranchKnows

\* What has run on a branch the gate refuses is a recovery it asked about.
LEMMA RecoveryHasRun ==
  ASSUME SessionInv, CheckBranch(session.checker, seen.head),
         "op" \in DOMAIN done.act, done.act.op # "run"
  PROVE  /\ done.act.op \in {"create", "rename"} \cup RebaseRecoveries
         /\ done.act.to \in {"", "compliant"}
         /\ hooks["branch"] # "deny" /\ hooks["branch"] = Authorization(session)
<1>1. /\ step > 1 /\ IsShell(call) /\ step - 1 \in DOMAIN call.segments
      /\ done.act = call.segments[step - 1]
  BY SegmentHasRun
<1>2. PICK branch \in Heads, rebase \in BOOLEAN :
        /\ hooks["branch"] = ViolationVote(session, session.checker, call, branch, rebase)
        /\ ViolationVote(session, session.checker, call, branch, rebase) # "deny"
  BY <1>1, BranchPassed
<1>3. call.segments[step - 1].op # "run"
  BY <1>1
<1>4. /\ call.segments[step - 1].op \in {"create", "rename"} \cup RebaseRecoveries
      /\ call.segments[step - 1].to \in {"", "compliant"}
      /\ ViolationVote(session, session.checker, call, branch, rebase) = Authorization(session)
  <2> DEFINE i == step - 1
  <2>1. i \in DOMAIN call.segments /\ call.segments[i].op # "run" /\ IsShell(call)
    BY <1>1, <1>3
  <2>2. ViolationVote(session, session.checker, call, branch, rebase) # "deny"
    BY <1>2
  <2> HIDE DEF i
  <2>3. /\ call.segments[i].op \in {"create", "rename"} \cup RebaseRecoveries
        /\ call.segments[i].to \in {"", "compliant"}
        /\ ViolationVote(session, session.checker, call, branch, rebase) = Authorization(session)
    BY <2>1, <2>2, RecoverySegment
  <2> QED
    BY <2>3 DEF i
<1> QED
  BY <1>1, <1>2, <1>4, Zenon

-----------------------------------------------------------------------------
(* Branches and identities *)

\* A commit lands on the branch the gate had read and found in order
\* (enforce_branch_name.py before the command).
LEMMA CommitsOnCheckedBranch == SessionInv => CommitOnCheckedBranch
<1> SUFFICES ASSUME SessionInv, Ran({"commit", "amend"}), done.head # ""
             PROVE  /\ seen.head = "compliant" /\ done.act.elsewhere \in {"none", "compliant"}
                    /\ done.head = seen.head \/ seen.moves < moves \/ step > 2
  BY DEF CommitOnCheckedBranch
<1>1. "op" \in DOMAIN done.act /\ done.act.op \in {"commit", "amend"} /\ done.act.op # "run"
  BY DEF Ran
<1>2. /\ step > 1 /\ IsShell(call) /\ step - 1 \in DOMAIN call.segments
      /\ done.act = call.segments[step - 1] /\ done.act \in Segment
      /\ step = 2 => done.head = seen.head \/ seen.moves < moves
  BY <1>1, SegmentHasRun
<1>3. ~CheckBranch(session.checker, seen.head)
      /\ CompliantVote(session, session.checker, call) # "deny"
  <2>1. SUFFICES ASSUME CheckBranch(session.checker, seen.head) PROVE FALSE
    BY <1>2, BranchPassed
  <2>2. done.act.op \in {"create", "rename"} \cup RebaseRecoveries
    BY <1>1, <2>1, RecoveryHasRun
  <2> QED
    BY <1>1, <2>2 DEF RebaseRecoveries
<1>4. session.checker /\ seen.head = "compliant"
  BY <1>3, CompliantName
<1>5. done.act.elsewhere = "none" \/ ~CheckBranch(session.checker, done.act.elsewhere)
  BY <1>1, <1>2, <1>3, CompliantSegment DEF ElsewhereViolation
<1>6. done.act.elsewhere \in {"none", "compliant"}
  BY <1>5, CompliantName
<1>7. step = 2 \/ step > 2
  BY <1>1, SegmentHasRun
<1> QED
  BY <1>2, <1>4, <1>6, <1>7, Zenon

\* Neither vote lets a segment pass that names a claude/ branch.
LEMMA ClaudeNeverNamed == SessionInv => ClaudeBranchNeverNamed
<1> SUFFICES ASSUME SessionInv, Ran(BranchOps) PROVE done.act.to # "claude"
  BY DEF ClaudeBranchNeverNamed
<1>1. "op" \in DOMAIN done.act /\ done.act.op \in BranchOps /\ done.act.op # "run"
  BY DEF Ran, BranchOps
<1>2. /\ step > 1 /\ IsShell(call) /\ step - 1 \in DOMAIN call.segments
      /\ done.act = call.segments[step - 1] /\ done.act \in Segment
  BY <1>1, SegmentHasRun
<1>3. CASE ~CheckBranch(session.checker, seen.head)
  <2>1. CompliantVote(session, session.checker, call) # "deny"
    BY <1>2, <1>3, BranchPassed
  <2> QED
    BY <1>1, <1>2, <2>1, CompliantSegment DEF NamesProhibited
<1>4. CASE CheckBranch(session.checker, seen.head)
  BY <1>1, <1>4, RecoveryHasRun
<1> QED
  BY <1>3, <1>4

\* What the identity gate knows of a write of git it has let pass, when it has:
\* its checks are made, and none refused.
LEMMA ChecksMade ==
  ASSUME SessionInv, session.client = "claude", call.tool = "Bash",
         Ran({"commit", "amend", "push", "force"})
  PROVE  /\ [at |-> step - 1, mode |-> "worktree"] \in seen.checked
         /\ Ran({"push", "force"}) => [at |-> step - 1, mode |-> "unpushed"] \in seen.checked
         /\ Active /\ "identity" \in DOMAIN hooks /\ hooks["identity"] # "deny"
<1>1. "op" \in DOMAIN done.act /\ done.act.op \in {"commit", "amend", "push", "force"}
  BY DEF Ran
<1>2. /\ step > 1 /\ IsShell(call) /\ step - 1 \in DOMAIN call.segments
      /\ done.act = call.segments[step - 1] /\ done.act \in Segment
  BY <1>1, SegmentHasRun
<1>3. "identity" \in HooksOf(call)
  BY DEF HooksOf, ReadTools, SearchTools
<1>4. Active /\ "identity" \in DOMAIN hooks /\ hooks["identity"] \in {"allow", "ask"}
  BY <1>2, <1>3, RunningPassed
<1>5. Checks(call.segments) \subseteq seen.checked
  BY <1>4 DEF SessionInv, HooksKnow, IdentityKnows
<1>6. Writing(done.act)
  BY <1>1, <1>2 DEF Writing, Segment
<1>7. ChecksOf(done.act, step - 1) \subseteq Checks(call.segments)
  BY <1>2 DEF Checks
<1>8. [at |-> step - 1, mode |-> "worktree"] \in ChecksOf(done.act, step - 1)
  BY <1>6 DEF ChecksOf
<1>9. Ran({"push", "force"}) =>
        [at |-> step - 1, mode |-> "unpushed"] \in ChecksOf(done.act, step - 1)
  BY <1>6 DEF ChecksOf, Ran
<1> QED
  BY <1>4, <1>5, <1>7, <1>8, <1>9

\* An identity the checker refuses is used only if its sources have changed
\* since (enforce_git_identity.py's worktree check).
LEMMA RefusedNeverUsed == SessionInv => RefusedIdentityNotUsed
<1> DEFINE mine == {check \in seen.identities : check[1] = step - 1}
<1> SUFFICES ASSUME SessionInv, session.client = "claude", session.identity,
                    Ran({"commit", "amend", "push", "force"}), call.tool = "Bash"
             PROVE  /\ mine # {}
                    /\ Refused(WorktreeIdentity(WithAssignment(done.sources, done.act.email)))
                         => \A check \in mine : check[2] # done.sources
  BY DEF RefusedIdentityNotUsed
<1>1. done.act = call.segments[step - 1]
  BY SegmentHasRun DEF Ran
<1>2. [at |-> step - 1, mode |-> "worktree"] \in seen.checked
      /\ Active /\ "identity" \in DOMAIN hooks /\ hooks["identity"] # "deny"
  BY ChecksMade
<1>3. \E pair \in seen.identities : pair[1] = step - 1
  BY <1>2 DEF SessionInv, HooksKnow, IdentityKnows
<1>4. \A pair \in seen.identities :
        ~Refused(WorktreeIdentity(WithAssignment(pair[2], call.segments[pair[1]].email)))
  BY <1>2 DEF SessionInv, HooksKnow, IdentityKnows
<1> QED
  BY <1>1, <1>3, <1>4

\* A push publishes what the gate had listed, or what came after
\* (enforce_git_identity.py's check of the commits no remote has).
LEMMA PublishedListed == SessionInv => PublishedWereListed
<1> DEFINE branch == Pushed(done.act, done.head)
           mine == {listing \in seen.unpushed : listing.at = step - 1}
<1> SUFFICES ASSUME SessionInv, session.client = "claude", session.identity,
                    Ran({"push", "force"}), call.tool = "Bash"
             PROVE  /\ mine # {}
                    /\ \A entry \in done.unpushed, listing \in mine :
                         entry[1] = branch /\ Refused(LogIdentity(entry[2])) =>
                           \/ listing.repo.head # branch
                           \/ ~listing.repo.remote
                           \/ entry \notin listing.commits
  BY DEF PublishedWereListed
<1>1. Ran({"commit", "amend", "push", "force"})
  BY DEF Ran
<1>2. [at |-> step - 1, mode |-> "unpushed"] \in seen.checked
      /\ Active /\ "identity" \in DOMAIN hooks /\ hooks["identity"] # "deny"
  BY <1>1, ChecksMade
<1>3. /\ \A check \in seen.checked : check.mode = "unpushed" =>
           \E listing \in seen.unpushed : listing.at = check.at
      /\ \A listing \in seen.unpushed : Clean(listing)
  BY <1>2 DEF SessionInv, HooksKnow, IdentityKnows
<1>4. mine # {}
  <2>1. PICK check \in seen.checked : check = [at |-> step - 1, mode |-> "unpushed"]
    BY <1>2
  <2>2. check.mode = "unpushed" /\ check.at = step - 1
    BY <2>1
  <2> QED
    BY <1>3, <2>1, <2>2
<1> QED
  BY <1>3, <1>4 DEF Clean

\* The state has its shape.
LEMMA SessionHasType == SessionInv => SessionTypeOK
<1> SUFFICES ASSUME SessionInv PROVE SessionTypeOK
  OBVIOUS
<1>1. repo.head \in Heads /\ repo.onto \in Heads
      /\ (repo.stopped = "rebase" => repo.onto \notin {"", "HEAD"})
      /\ turn \in {"over", "working", "held"} /\ moves \in 0..MaxMoves
      /\ unpushed \subseteq Commits
  BY DEF SessionInv, SessionTyped, Repository
<1>2. call # NoCall <=> Active
  BY CallKinds DEF SessionInv, PhaseFits
<1>3. phase = "asking" => Cast("ask") /\ ~Cast("deny")
  BY DEF SessionInv, PhaseFits, Passed, Cast
<1>4. phase = "running" => \A h \in DOMAIN hooks : hooks[h] = "allow"
  BY DEF SessionInv, PhaseFits
<1>5. call # NoCall <=> phase \in {"deciding", "asking", "running", "approved"}
  BY <1>2, Zenon DEF Active
<1>6. unpushed \subseteq Heads \X [Roles -> Addresses]
  BY <1>1 DEF Commits
<1> QED
  BY <1>1, <1>3, <1>4, <1>5, <1>6, Zenon DEF SessionTypeOK

\* In every session, a commit, a push or a branch that runs is the one the
\* hooks had checked, unless something moved after they had looked or is of the
\* kinds they do not look at: a commit on another branch than HEAD, a push without
\* a configured remote, a branch named to git pull or git stash (the branch and
\* identity gates and the client).
THEOREM ActsWereCheckedHolds == Spec => []ActsWereChecked
<1>1. SessionInv => ActsWereChecked
  BY SessionHasType, CommitsOnCheckedBranch, ClaudeNeverNamed, RefusedNeverUsed,
     PublishedListed DEF ActsWereChecked
<1> QED
  BY <1>1, SessionInvariant, PTL

-----------------------------------------------------------------------------
(* Consent *)

\* An ask lets a call run only approved, and never unattended under claude.
LEMMA AskedOnly ==
  ASSUME SessionInv, step > 1, NEW h \in HooksOf(call), hooks[h] = "ask"
  PROVE  phase = "approved"
BY RunningPassed

\* Neither consent nor authorization allows by itself (core.decide).
LEMMA AuthorizationAsks ==
  /\ \A interactive : Consent(interactive) # "deny" => Consent(interactive) = "ask" /\ interactive
  /\ \A asking : Authorization(asking) # "deny" =>
       Authorization(asking) = "ask" /\ (asking.client = "claude" => asking.interactive)
BY DEF Consent, Authorization

\* History is rewritten after the command gate asked (git_verdict).
LEMMA RewritesAsked ==
  ASSUME SessionInv, session.client = "claude", Ran({"rebase", "amend", "force"})
  PROVE  phase = "approved" /\ session.interactive
<1>1. "op" \in DOMAIN done.act /\ done.act.op \in {"rebase", "amend", "force"}
  BY DEF Ran
<1>2. /\ step > 1 /\ step - 1 \in DOMAIN call.segments /\ IsShell(call)
      /\ done.act = call.segments[step - 1]
  BY <1>1, SegmentHasRun
<1>3. "commands" \in HooksOf(call)
  <2>1. CASE call.tool = "Bash"
    BY <2>1 DEF HooksOf, ReadTools, SearchTools
  <2>2. CASE call.tool \in {"PowerShell", "Cmd"}
    BY <2>2 DEF HooksOf, ReadTools, SearchTools
  <2> QED
    BY <1>2, <2>1, <2>2 DEF IsShell
<1>4. hooks["commands"] # "deny" /\ hooks["commands"] = CommandVote(call)
  BY <1>2, <1>3, RunningPassed DEF SessionInv, HooksKnow, CommandsKnow
<1>5. CommandVote(call) \in {"deny", Consent(session.interactive)}
  BY <1>1, <1>2 DEF CommandVote
<1>6. hooks["commands"] = "ask" /\ session.interactive
  BY <1>4, <1>5, AuthorizationAsks
<1> QED
  BY <1>2, <1>3, <1>6, AskedOnly

\* A recovery runs after its authorization (valid_recovery_command).
LEMMA RecoveriesAsked ==
  ASSUME SessionInv, CheckBranch(session.checker, seen.head),
         Ran({"create", "rename"} \cup RebaseRecoveries)
  PROVE  phase = "approved" /\ (session.client = "claude" => session.interactive)
<1>1. "op" \in DOMAIN done.act /\ done.act.op # "run"
  BY DEF Ran, RebaseRecoveries
<1>2. step > 1
  BY <1>1, SegmentHasRun
<1>3. hooks["branch"] # "deny" /\ hooks["branch"] = Authorization(session)
  BY <1>1, RecoveryHasRun
<1>4. hooks["branch"] = "ask" /\ (session.client = "claude" => session.interactive)
  BY <1>3, AuthorizationAsks
<1>5. "branch" \in HooksOf(call)
  BY DEF HooksOf
<1> QED
  BY <1>2, <1>4, <1>5, AskedOnly

\* A repository workflow runs after its authorization, on a branch in order.
LEMMA WorkflowsAsked ==
  ASSUME SessionInv, Ran({"run"}), Workflow(call)
  PROVE  phase = "approved" /\ (session.client = "claude" => session.interactive)
<1>1. step > 1 /\ IsShell(call)
  BY SegmentHasRun DEF Ran
<1>2. ~Bootstrap(call)
  <2>1. call.segments = <<[Plain EXCEPT !.program = "workflow"]>>
    BY DEF Workflow, IsProgram
  <2>2. [Plain EXCEPT !.program = "workflow"] # [Plain EXCEPT !.program = "branch reader"]
    <3>1. /\ [Plain EXCEPT !.program = "workflow"].program = "workflow"
          /\ [Plain EXCEPT !.program = "branch reader"].program = "branch reader"
      BY DEF Plain
    <3> QED
      BY <3>1
  <2>3. \A one, other : <<one>> = <<other>> => one = other
    OBVIOUS
  <2> QED
    BY <2>1, <2>2, <2>3, Zenon DEF Bootstrap, IsProgram
<1>3. \A branch, rebase : ~ValidRecovery(session.checker, call, branch, rebase)
  <2>1. call.segments = <<[Plain EXCEPT !.program = "workflow"]>>
    BY DEF Workflow, IsProgram
  <2>2. ASSUME NEW op, NEW to PROVE Git(op, to) # [Plain EXCEPT !.program = "workflow"]
    <3>1. Git(op, to).program = "git" /\ [Plain EXCEPT !.program = "workflow"].program = "workflow"
      BY DEF Git, Plain
    <3> QED
      BY <3>1
  <2>3. ASSUME NEW op, NEW to PROVE ~Exact(call, op, to)
    <3>1. Git(op, to) # [Plain EXCEPT !.program = "workflow"]
      BY <2>2
    <3> QED
      BY <2>1, <3>1 DEF Exact
  <2> QED
    BY <2>3 DEF ValidRecovery
<1>4. \A branch, rebase :
        ViolationVote(session, session.checker, call, branch, rebase) = "deny"
  BY <1>1, <1>2, <1>3 DEF ViolationVote, IsShell
<1>5. /\ hooks["branch"] \in {"allow", "ask"}
      /\ hooks["branch"] = CompliantVote(session, session.checker, call)
  BY <1>1, <1>4, BranchPassed
<1>6. hooks["branch"] = Authorization(session)
  BY <1>1, <1>2, <1>5 DEF CompliantVote
<1>7. hooks["branch"] = "ask" /\ (session.client = "claude" => session.interactive)
  BY <1>5, <1>6, AuthorizationAsks
<1>8. "branch" \in HooksOf(call)
  BY DEF HooksOf
<1> QED
  BY <1>1, <1>7, <1>8, AskedOnly

\* In every session, what the gates ask about runs only approved, and under
\* claude only where somebody can answer (core.decide and the client's prompt).
THEOREM AskedActsWereApprovedHolds == Spec => []AskedActsWereApproved
<1>1. ASSUME SessionInv PROVE AskedActsWereApproved
  <2>1. "op" \in DOMAIN done.act => done.asked = (phase = "approved")
    BY <1>1, SegmentHasRun
  <2> QED
    BY <1>1, <2>1, RewritesAsked, RecoveriesAsked, WorkflowsAsked
       DEF AskedActsWereApproved, Ran
<1> QED
  BY <1>1, SessionInvariant, PTL

-----------------------------------------------------------------------------
(* Files *)

\* An act with a path is the call, which is an edit or a read.
LEMMA PathActIsCall ==
  ASSUME SessionInv, "path" \in DOMAIN done.act
  PROVE  step > 1 /\ done.act = call /\ done.asked = (phase = "approved")
<1>1. step > 1
  <2>1. step \in Nat \ {0} /\ (step = 1 => done = NoAct)
    BY DEF SessionInv, SessionTyped, PhaseFits
  <2>2. "path" \notin DOMAIN NoAct.act
    BY DEF NoAct
  <2> QED
    BY <2>1, <2>2
<1>2. call \in CallRecord(DOMAIN files) /\ ActFits
  BY <1>1, RunningPassed DEF SessionInv
<1>3. ~IsShell(call)
  <2>1. SUFFICES ASSUME IsShell(call) PROVE FALSE
    OBVIOUS
  <2>2. step - 1 \in DOMAIN call.segments /\ done.act = call.segments[step - 1]
    BY <1>1, <1>2, <2>1 DEF ActFits
  <2>3. done.act \in Segment
    BY <1>2, <2>1, <2>2, CallKinds
  <2> QED
    BY <2>3 DEF Segment
<1> QED
  BY <1>1, <1>2, <1>3 DEF ActFits

\* What changes a test, or a gate's own file, was consented to
\* (require_consent.py).
LEMMA TestsByConsent == SessionInv => TestsChangeByConsent
<1> SUFFICES ASSUME SessionInv, session.client = "claude", "path" \in DOMAIN done.act,
                    done.act.tool = "Edit", ~done.asked
             PROVE  /\ ~ProtectedPath(done.act.path)
                    /\ (done.act.path.test \/ done.act.path.links # "one") =>
                         /\ done.act.path.name \in DOMAIN seen.opened
                         /\ seen.opened[done.act.path.name] = "absent"
  BY DEF TestsChangeByConsent, ProtectedPath
<1>1. step > 1 /\ done.act = call /\ phase # "approved"
  BY PathActIsCall
<1>2. "consent" \in HooksOf(call)
  BY <1>1 DEF HooksOf, ReadTools, SearchTools
<1>3. Active /\ "consent" \in DOMAIN hooks /\ hooks["consent"] = "allow"
  BY <1>1, <1>2, RunningPassed
<1> QED
  BY <1>1, <1>3 DEF SessionInv, HooksKnow, ConsentKnows

\* A read has no content of its own.
LEMMA ReadIsEmpty ==
  ASSUME NEW names, NEW c \in CallRecord(names), c.tool \in ReadTools
  PROVE  c.content = ""
<1>1. c.tool \notin {"Edit", "Bash", "PowerShell", "Cmd", "question", "malformed"} \cup SearchTools
  BY DEF ReadTools, SearchTools
<1>2. c \in [tool : ReadTools, path : PathRecord(names), content : {""}]
  <2>1. c \notin [tool : {"Bash", "PowerShell", "Cmd"}, syntax : STRING, segments : Seq(Segment)]
    BY <1>1
  <2>2. c \notin [tool : {"Edit"}, path : PathRecord(names), content : {"text", "manifest"}]
    BY <1>1
  <2>3. c \notin [tool : SearchTools, paths : SUBSET PathRecord(names), walk : STRING]
    BY <1>1
  <2>4. c \notin [tool : {"question", "malformed"}]
    BY <1>1
  <2> QED
    BY <2>1, <2>2, <2>3, <2>4 DEF CallRecord
<1> QED
  BY <1>2

\* The infrastructure gate let pass what it saw no manifest in
\* (block_infrastructure_access.py).
LEMMA ManifestsHidden == SessionInv => ManifestsStayHidden
<1> SUFFICES ASSUME SessionInv, session.client = "claude", done.act = call,
                    call.tool \in ReadTools \cup SearchTools
             PROVE  /\ call.tool \in ReadTools =>
                         ~call.path.secret /\ ~Guarded(call.path, seen.looked)
                    /\ call.tool \in SearchTools => \A path \in call.paths :
                         path.walked => ~Guarded(path, seen.looked)
  BY DEF ManifestsStayHidden
<1>1. step > 1
  <2>1. step \in Nat \ {0} /\ (step = 1 => done = NoAct)
    BY DEF SessionInv, SessionTyped, PhaseFits
  <2>2. NoAct.act.tool \notin ReadTools \cup SearchTools
    BY DEF NoAct, ReadTools, SearchTools
  <2> QED
    BY <2>1, <2>2
<1>2. "infrastructure" \in HooksOf(call)
  BY DEF HooksOf, ReadTools, SearchTools
<1>3. Active /\ "infrastructure" \in DOMAIN hooks /\ hooks["infrastructure"] \in {"allow", "ask"}
  BY <1>1, <1>2, RunningPassed
<1>4. InfrastructureVote(call, seen.looked) # "deny"
  BY <1>3 DEF SessionInv, HooksKnow, InfrastructureKnows
<1>5. CASE call.tool \in ReadTools
  <2>1. call \in CallRecord(DOMAIN files) /\ call.tool \notin SearchTools
    BY <1>1, <1>5, RunningPassed DEF ReadTools, SearchTools, SessionInv
  <2>2. call.content = ""
    BY <1>5, <2>1, ReadIsEmpty
  <2>3. ~ProtectedInfrastructure(call.path, "", seen.looked)
    BY <1>4, <1>5, <2>2 DEF InfrastructureVote, FileAccessDenied
  <2> QED
    BY <2>1, <2>3 DEF ProtectedInfrastructure, ManifestText, Guarded
<1>6. CASE call.tool \in SearchTools
  <2>1. ~TreeContainsProtected(call.paths, call.walk, seen.looked) /\ call.tool \notin ReadTools
    BY <1>4, <1>6 DEF InfrastructureVote, SearchDenied, ReadTools, SearchTools
  <2> QED
    BY <2>1 DEF TreeContainsProtected, ProtectedInfrastructure, ManifestText, Guarded
<1> QED
  BY <1>5, <1>6

\* In every session, tests and what is under hooks, .claude and .git change by
\* consent, no read shows a file with a guarded name, and no read or search shows a
\* manifest its gate had read on its walk (require_consent.py,
\* block_infrastructure_access.py).
THEOREM FilesStayGuardedHolds == Spec => []FilesStayGuarded
<1>1. SessionInv => FilesStayGuarded
  BY TestsByConsent, ManifestsHidden DEF FilesStayGuarded
<1> QED
  BY <1>1, SessionInvariant, PTL

-----------------------------------------------------------------------------
(* Recovery *)

\* No vote denies a valid recovery where somebody can be asked.
LEMMA RecoveryGranted ==
  ASSUME session \in SessionRecord, CanBeAsked, NEW branch, branch # "",
         NEW rebase \in BOOLEAN, NEW op \in {"create", "rename"} \cup RebaseRecoveries, NEW to,
         ValidRecovery(session.checker, Shell(<<Git(op, to)>>), branch, rebase)
  PROVE  "deny" \notin RecoveryVotes(Shell(<<Git(op, to)>>), branch, rebase)
<1> DEFINE c == Shell(<<Git(op, to)>>)
<1>1. /\ c.tool = "Bash" /\ DOMAIN c.segments = {1} /\ c.segments[1] = Git(op, to)
  BY OneSegmentCall, Zenon
<1>2. Git(op, to).op = op
  BY DEF Git, Plain
<1> HIDE DEF c
<1>3. ViolationVote(session, session.checker, c, branch, rebase) \in {"allow", Authorization(session)}
  BY <1>1 DEF ViolationVote, IsShell, c
<1>4. Authorization(session) = "ask"
  BY DEF CanBeAsked, Authorization, Consent
<1>5. session.client = "claude" => CommandVote(c) \in {"allow", "ask"}
  <2>1. op # "reset"
    BY DEF RebaseRecoveries
  <2> QED
    BY <1>1, <1>2, <2>1 DEF CommandVote, CanBeAsked, Consent
<1> QED
  BY <1>3, <1>4, <1>5 DEF RecoveryVotes, c

\* Of a refused branch git can always leave by a recovery the gate accepts.
LEMMA WayOut ==
  ASSUME repo \in Repository, CheckBranch(session.checker, repo.head), session.checker,
         repo.head # "", repo.stopped # "am"
  PROVE  \E op \in {"create", "rename"} \cup RebaseRecoveries :
           /\ \E to \in {"compliant", ""} :
                ValidRecovery(session.checker, Shell(<<Git(op, to)>>), repo.head,
                              repo.stopped # "nothing")
           /\ \E after \in Outcomes(Git(op, "compliant")) : after # repo
<1>1. /\ repo.head \in {"named", "claude", "main", "HEAD"}
      /\ repo.stopped \in {"nothing", "rebase"}
  BY CompliantName DEF Repository, Heads
<1>2. \A op : /\ Git(op, "compliant").op = op /\ Git(op, "compliant").to = "compliant"
              /\ Git(op, "compliant").elsewhere = "none"
  BY DEF Git, Plain
<1>3. \A op, to : Exact(Shell(<<Git(op, to)>>), op, to)
  BY DEF Exact, Shell
<1>4. CASE repo.stopped = "rebase"
  <2>1. ValidRecovery(session.checker, Shell(<<Git("abort", "")>>), repo.head,
                      repo.stopped # "nothing")
    BY <1>3, <1>4 DEF ValidRecovery, RebaseRecoveries
  <2>2. Ended \in Outcomes(Git("abort", "compliant"))
    BY <1>2, <1>4 DEF Outcomes
  <2>3. Ended.stopped = "nothing"
    BY DEF Ended, Repository
  <2> QED
    BY <1>4, <2>1, <2>2, <2>3 DEF RebaseRecoveries
<1>5. CASE repo.stopped = "nothing"
  <2> DEFINE op == IF repo.head \in {"main", "HEAD"} THEN "create" ELSE "rename"
             after == [repo EXCEPT !.head = "compliant"]
  <2>1. ValidRecovery(session.checker, Shell(<<Git(op, "compliant")>>), repo.head,
                      repo.stopped # "nothing")
    BY <1>3, <1>5, CompliantName DEF ValidRecovery
  <2>2. after \in Outcomes(Git(op, "compliant"))
    BY <1>1, <1>2, <1>5 DEF Outcomes, OnBranch
  <2>3. after # repo
    BY <1>1 DEF Repository
  <2> QED
    BY <2>1, <2>2, <2>3
<1> QED
  BY <1>1, <1>4, <1>5

\* In every session, what the gate advises is put to the user, where there is one
\* to ask, and is denied otherwise; and where there is one, some recovery that git
\* carries out is put to the user on every branch the gate refuses, except in a git
\* am and where HEAD or the checker cannot be read (enforce_branch_name.py).
THEOREM WayOutExistsHolds == Spec => []WayOutExists
<1>1. ASSUME SessionInv PROVE WayOutExists
  <2>1. repo \in Repository
    BY <1>1 DEF SessionInv, SessionTyped
  <2>2. RecoveryIsPossible
    <3> DEFINE rebase == repo.stopped # "nothing"
    <3> SUFFICES ASSUME CheckBranch(session.checker, repo.head), session.checker, CanBeAsked,
                        repo.head # "", repo.stopped # "am"
                 PROVE  \E op \in {"create", "rename"} \cup RebaseRecoveries :
                          /\ \E to \in {"compliant", ""} :
                               "deny" \notin RecoveryVotes(Shell(<<Git(op, to)>>), repo.head, rebase)
                          /\ \E after \in Outcomes(Git(op, "compliant")) : after # repo
      BY DEF RecoveryIsPossible
    <3>1. PICK op \in {"create", "rename"} \cup RebaseRecoveries :
            /\ \E to \in {"compliant", ""} :
                 ValidRecovery(session.checker, Shell(<<Git(op, to)>>), repo.head, rebase)
            /\ \E after \in Outcomes(Git(op, "compliant")) : after # repo
      BY <2>1, WayOut
    <3>2. PICK to \in {"compliant", ""} :
            ValidRecovery(session.checker, Shell(<<Git(op, to)>>), repo.head, rebase)
      BY <3>1
    <3>3. session \in SessionRecord
      BY <1>1 DEF SessionInv, SessionTyped
    <3>4. "deny" \notin RecoveryVotes(Shell(<<Git(op, to)>>), repo.head, rebase)
      BY <3>2, <3>3, RecoveryGranted
    <3> QED
      BY <3>1, <3>4
  <2> QED
    BY <1>1, <2>2 DEF WayOutExists, SessionInv
<1> QED
  BY <1>1, SessionInvariant, PTL

===============================================================================
