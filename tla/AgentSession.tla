---------------------------- MODULE AgentSession ----------------------------
(***************************************************************************)
(* An agent session under the gates: the agent submits a tool call, every  *)
(* hook wired to the call reads the repository in its own process, the     *)
(* client merges their votes, the user may be asked, and the call runs on  *)
(* whatever the repository has become.  The user works in the same clone   *)
(* from another terminal.  At the end of a turn the stop hook reads again. *)
(*                                                                         *)
(* repo.head is a branch of BranchGate; repo.stopped says which operation  *)
(* git has recorded as under way ("nothing", "rebase", "am"), repo.onto    *)
(* the branch a rebase returns to, and repo.remote whether a remote is     *)
(* configured.  unpushed holds, of the commits no remote has, those whose  *)
(* identity the checker refuses, each with the branch it is on: the others *)
(* make no difference to a gate.  hooks[h] is the progress of one hook,    *)
(* and in the end its vote; seen is what the hooks of this call have read. *)
(***************************************************************************)
EXTENDS Naturals, BranchGate, GitIdentity, WriteGates

CONSTANTS Starts,      \* the sessions and repositories a run begins with
          Calls(_),    \* the tool calls of a session
          Moves(_),    \* what its user does in the other terminal
          MaxMoves     \* bound: moves of the user per session

-----------------------------------------------------------------------------
(* What a session is made of. *)

Heads     == {"compliant", "named", "claude", "main", "HEAD", ""}
Emails    == {"", "noreply", "github", "other"}
Addresses == {"noreply", "github", "other", "guessed"}
OnDisk    == {"absent", "text", "manifest", "opaque"}

SessionRecord == [client : {"claude", "gemini", "antigravity", "codex"},
                  interactive : BOOLEAN, checker : BOOLEAN, identity : BOOLEAN,
                  focus : STRING]
Repository == [head : Heads, stopped : {"nothing", "rebase", "am"}, onto : Heads,
               remote : BOOLEAN]
Person == [email : Emails, name : {"", "set"}]
SourceRecord == [env : [Roles -> Person], role : [Roles -> Emails], config : Person,
                 EMAIL : Emails]

\* A segment whose operation the gate can see is one of git.
Segment ==
  {s \in [program : STRING, named : STRING, prefix : STRING, writes : STRING,
          expands : BOOLEAN, op : STRING, to : STRING, refs : STRING,
          context : STRING, elsewhere : STRING, email : Emails] :
     /\ s.op # "run" => s.program = "git"
     /\ s.op \in {"create", "switch", "rename", "stash"} => s.to \in Heads
     /\ s.op = "configure" => s.to \in Emails}

PathRecord(names) == [name : names, git : STRING, part : STRING, test : BOOLEAN,
                      links : {"one", "test", "many", "unreadable"},
                      outside : BOOLEAN, secret : BOOLEAN, manifest : BOOLEAN,
                      walked : BOOLEAN]

CallRecord(names) ==
  [tool : {"Bash", "PowerShell", "Cmd"}, syntax : STRING, segments : Seq(Segment)]
  \union [tool : {"Edit"}, path : PathRecord(names), content : {"text", "manifest"}]
  \union [tool : ReadTools, path : PathRecord(names), content : {""}]
  \union [tool : SearchTools, paths : SUBSET PathRecord(names), walk : STRING]
  \union [tool : {"question", "malformed"}]

MoveRecord(names) ==
  [does : {"git"}, op : STRING, to : Heads]
  \union [does : {"am"}]
  \union [does : {"configure"}, to : Emails]
  \union [does : {"commit"}, on : Heads, commit : [Roles -> Addresses]]
  \union [does : {"write"}, path : names, content : OnDisk]

\* A session may begin in the middle of a rebase, which has a branch to return to.
ASSUME SessionAssumption ==
  /\ MaxMoves \in Nat
  /\ \A start \in Starts :
       /\ start.session \in SessionRecord
       /\ start.repo \in Repository
       /\ start.repo.stopped = "rebase" => start.repo.onto \notin {"", "HEAD"}
       /\ start.sources \in SourceRecord
       /\ start.files \in [DOMAIN start.files -> OnDisk]
       /\ Calls(start.session.focus) \subseteq CallRecord(DOMAIN start.files)
       /\ Moves(start.session.focus) \subseteq MoveRecord(DOMAIN start.files)

VARIABLES session, repo, sources, unpushed, files,   \* the environment
          call, hooks, seen, phase, step,            \* the call under way
          turn, advice, done, moves

vars == <<session, repo, sources, unpushed, files, call, hooks, seen, phase,
          step, turn, advice, done, moves>>
environment == <<session, repo, sources, unpushed, files, moves>>

NoCall == [tool |-> "none"]
NoAdvice == [source |-> "none"]
NoAct == [act |-> [tool |-> "none"]]
NothingSeen == [head |-> "", repo |-> NoCall, moves |-> 0, checked |-> {},
                identities |-> {}, unpushed |-> {}, opened |-> <<>>, looked |-> <<>>]
Votes == {"allow", "ask", "deny"}

-----------------------------------------------------------------------------
(* Git, as the gated commands use it. *)

OnBranch == repo.head \notin {"", "HEAD"}

\* A rebase stops at a conflict, or is over at once.
Rebasing == {[repo EXCEPT !.head = "HEAD", !.stopped = "rebase", !.onto = repo.head],
             repo}

Ended == [repo EXCEPT !.head = repo.onto, !.stopped = "nothing", !.onto = ""]

\* The repositories a segment may leave; a command git refuses leaves it be.
Outcomes(segment) ==
  IF segment.elsewhere # "none" THEN {repo} ELSE
  CASE segment.op \in {"create", "switch"} /\ repo.stopped = "nothing" /\ repo.head # "" ->
         {[repo EXCEPT !.head = segment.to]}
    [] segment.op = "stash" /\ repo.stopped = "nothing" /\ repo.head # "" ->
         {[repo EXCEPT !.head = segment.to], repo}
    [] segment.op = "remote" -> {[repo EXCEPT !.remote = TRUE]}
    [] segment.op = "rename" /\ OnBranch -> {[repo EXCEPT !.head = segment.to]}
    [] segment.op = "rebase" /\ repo.stopped = "nothing" /\ OnBranch -> Rebasing
    [] segment.op = "abort" /\ repo.stopped = "rebase" -> {Ended}
    [] segment.op \in {"continue", "skip"} /\ repo.stopped = "rebase" -> {Ended, repo}
    [] OTHER -> {repo}

\* The branch a push publishes.
Pushed(segment, head) == IF segment.to = "HEAD" THEN head ELSE segment.to

OffList(commits) == {entry \in commits : Refused(LogIdentity(entry[2]))}

\* The commits no remote has, once git has left the repository as now.  A push
\* to an address, with no remote configured, leaves no trace.
Unpushed(segment, now) ==
  LET mine == {entry \in unpushed : entry[1] = repo.head}
      onto == {<<now.head, entry[2]>> : entry \in mine}
  IN IF segment.elsewhere # "none" THEN unpushed ELSE
     CASE segment.op \in {"commit", "amend"} /\ repo.head # "" ->
            unpushed \union
              OffList({<<repo.head, CommitIdentity(WithAssignment(sources, segment.email))>>})
       [] segment.op \in {"push", "force"} /\ repo.remote ->
            {entry \in unpushed : entry[1] # Pushed(segment, repo.head)}
       [] segment.op = "rename" -> (unpushed \ mine) \union onto
       [] segment.op \in {"create", "stash", "rebase", "continue", "skip"} ->
            unpushed \union onto
       [] OTHER -> unpushed

-----------------------------------------------------------------------------
(* The hooks of one call. *)

HooksOf(c) ==
  {"branch"} \union
  IF session.client # "claude" THEN {}
  ELSE CASE c.tool = "Bash" -> {"commands", "identity"}
         [] c.tool \in {"PowerShell", "Cmd"} -> {"commands"}
         [] c.tool = "Edit" -> {"infrastructure", "consent"}
         [] c.tool \in ReadTools \union SearchTools -> {"infrastructure"}
         [] OTHER -> {}

\* git_verdict and the strongest of the segments' verdicts.
CommandVote(c) ==
  IF \E i \in DOMAIN c.segments : c.segments[i].op = "reset" THEN "deny"
  ELSE IF \E i \in DOMAIN c.segments :
            c.segments[i].op \in {"rebase", "amend", "force"} \union RebaseRecoveries
       THEN Consent(session.interactive) ELSE "allow"

\* The command gate reads the call alone, so its vote is cast at once.
Submit(c) ==
  /\ phase = "idle" /\ turn # "over"
  /\ call' = c
  /\ hooks' = [h \in HooksOf(c) |-> IF h = "commands" THEN CommandVote(c) ELSE "start"]
  /\ seen' = NothingSeen
  /\ phase' = "deciding"
  /\ step' = 1
  /\ advice' = NoAdvice
  /\ done' = NoAct
  /\ UNCHANGED <<environment, turn>>

Progress(hook, from, to) ==
  /\ phase = "deciding" /\ hook \in DOMAIN hooks /\ hooks[hook] = from
  /\ hooks' = [hooks EXCEPT ![hook] = to]
  /\ UNCHANGED <<environment, call, phase, step, turn, done>>

\* read_branch_preflight, and the vote when the branch is in order.
BranchRead ==
  /\ seen' = [seen EXCEPT !.head = repo.head, !.repo = repo, !.moves = moves]
  /\ Progress("branch", "start",
       IF CheckBranch(session.checker, repo.head) THEN "second"
       ELSE CompliantVote(session, session.checker, call))
  /\ UNCHANGED advice

\* A name that was unreadable is read again; the rebase is read only now.
NameRead == IF seen.head = "" THEN repo.head ELSE seen.head

BranchRecover(lookup) ==
  LET rebase == repo.stopped # "nothing"
      vote == ViolationVote(session, session.checker, call, NameRead, rebase)
      denied == vote = "deny" \/ (~lookup /\ call.tool # "question")
  IN /\ ~lookup => repo.head = ""
     /\ Progress("branch", "second", IF denied THEN "deny" ELSE vote)
     /\ advice' = IF vote = "deny" /\ lookup /\ call.tool # "malformed"
                  THEN [source |-> "tool", recovery |-> Advised(NameRead, rebase),
                        repo |-> repo, steady |-> seen.repo = repo]
                  ELSE advice
     /\ UNCHANGED seen

\* The checker runs one gate starts: the worktree for each write, and for each
\* push the commits of HEAD that no remote has.
Writing(segment) ==
  /\ segment.program = "git"
  /\ segment.op \in {"commit", "amend", "push", "force"} \/ segment.context = "error"

\* Mutants of ChecksOf: a push checks its commits only, or the worktree only.
ListOnly(segment, i) ==
  IF Writing(segment)
  THEN {[at |-> i, mode |-> IF segment.op \in {"push", "force"} THEN "unpushed"
                                                              ELSE "worktree"]}
  ELSE {}
WorktreeOnly(segment, i) ==
  IF Writing(segment) THEN {[at |-> i, mode |-> "worktree"]} ELSE {}

ChecksOf(segment, i) ==
  {[at |-> i, mode |-> mode] :
     mode \in IF ~Writing(segment) THEN {}
              ELSE IF segment.op \in {"push", "force"} THEN {"worktree", "unpushed"}
              ELSE {"worktree"}}

Checks(segments) == UNION {ChecksOf(segments[i], i) : i \in DOMAIN segments}

\* The segments are checked in their order, and the worktree first.
Precedes(check, other) ==
  \/ check.at < other.at
  \/ check.at = other.at /\ check.mode = "worktree"

\* unpushed_identities: without a remote nothing is listed.
Listed == {entry \in unpushed : repo.remote /\ entry[1] = repo.head}

CheckRefuses(check) ==
  LET segment == call.segments[check.at]
  IN \/ segment.context = "error"
     \/ /\ session.identity
        /\ IF check.mode = "worktree"
           THEN Refused(WorktreeIdentity(WithAssignment(sources, segment.email)))
           ELSE \E entry \in Listed : Refused(LogIdentity(entry[2]))

NothingToCheck ==
  /\ "identity" \in DOMAIN hooks /\ Checks(call.segments) = {}
  /\ Progress("identity", "start", "allow")
  /\ UNCHANGED <<seen, advice>>

Checked(check) ==
  IF check.mode = "worktree"
  THEN [seen EXCEPT !.checked = @ \union {check},
                    !.identities = @ \union {<<check.at, sources>>}]
  ELSE [seen EXCEPT !.checked = @ \union {check},
                    !.unpushed = @ \union {[at |-> check.at, repo |-> repo,
                                            commits |-> unpushed]}]

IdentityCheck ==
  /\ "identity" \in DOMAIN hooks
  /\ LET left == Checks(call.segments) \ seen.checked
     IN \E check \in left :
          /\ \A other \in left \ {check} : Precedes(check, other)
          /\ Progress("identity", "start",
               IF CheckRefuses(check) THEN "deny"
               ELSE IF left = {check} THEN "allow" ELSE "start")
          /\ seen' = Checked(check)
  /\ UNCHANGED advice

ConsentLook ==
  /\ Progress("consent", "start",
       IF ProtectedPath(call.path) THEN Consent(session.interactive)
       ELSE IF NamesATest(call.path, files) THEN "second" ELSE "allow")
  /\ UNCHANGED <<seen, advice>>

ConsentOpen ==
  /\ Progress("consent", "second",
       IF GateReason(call.path, files) THEN Consent(session.interactive) ELSE "allow")
  /\ seen' = [seen EXCEPT !.opened = files]
  /\ UNCHANGED advice

InfrastructureLook ==
  /\ Progress("infrastructure", "start", InfrastructureVote(call, files))
  /\ seen' = [seen EXCEPT !.looked = files]
  /\ UNCHANGED advice

-----------------------------------------------------------------------------
(* The client: deny wins over ask, and ask over allow. *)

Decided == phase = "deciding" /\ \A h \in DOMAIN hooks : hooks[h] \in Votes
Cast(vote) == \E h \in DOMAIN hooks : hooks[h] = vote

GoesIdle == /\ phase' = "idle"
            /\ call' = NoCall /\ hooks' = <<>> /\ seen' = NothingSeen

\* Mutant of Merge: one ask opens the prompt.
AskFirst ==
  /\ Decided
  /\ IF Cast("ask") THEN phase' = "asking" /\ UNCHANGED <<call, hooks, seen>>
     ELSE IF Cast("deny") THEN GoesIdle
     ELSE phase' = "running" /\ UNCHANGED <<call, hooks, seen>>
  /\ UNCHANGED <<environment, step, turn, advice, done>>

Merge ==
  /\ Decided
  /\ IF Cast("deny") THEN GoesIdle
     ELSE /\ phase' = IF Cast("ask") THEN "asking" ELSE "running"
          /\ UNCHANGED <<call, hooks, seen>>
  /\ UNCHANGED <<environment, step, turn, advice, done>>

Answer(approves) ==
  /\ phase = "asking"
  /\ IF approves THEN phase' = "approved" /\ UNCHANGED <<call, hooks, seen>> ELSE GoesIdle
  /\ UNCHANGED <<environment, step, turn, advice, done>>

Act(act) == [act |-> act, head |-> repo.head, sources |-> sources,
             unpushed |-> unpushed, files |-> files, asked |-> phase = "approved"]

Running == phase \in {"running", "approved"}

RunSegment ==
  LET segment == call.segments[step]
  IN /\ Running /\ IsShell(call) /\ step <= Len(call.segments)
     /\ done' = Act(segment)
     /\ repo' \in Outcomes(segment)
     /\ sources' = IF segment.op = "configure"
                   THEN [sources EXCEPT !.config.email = segment.to] ELSE sources
     /\ unpushed' = Unpushed(segment, repo')
     /\ step' = step + 1
     /\ UNCHANGED <<session, files, call, hooks, seen, phase, turn, advice, moves>>

RunTool ==
  /\ Running /\ ~IsShell(call) /\ step = 1
  /\ done' = Act(call)
  /\ files' = IF call.tool = "Edit"
              THEN [files EXCEPT ![call.path.name] = call.content] ELSE files
  /\ step' = 2
  /\ UNCHANGED <<session, repo, sources, unpushed, call, hooks, seen, phase, turn,
                 advice, moves>>

\* A segment that failed may end the command.
Return ==
  /\ Running /\ step > 1
  /\ GoesIdle
  /\ done' = NoAct
  /\ step' = 1
  /\ UNCHANGED <<environment, turn, advice>>

-----------------------------------------------------------------------------
(* Turns. *)

AttemptStop ==
  /\ phase = "idle" /\ turn # "over"
  /\ phase' = "stopping"
  /\ UNCHANGED <<environment, call, hooks, seen, step, turn, advice, done>>

\* Mutant of StopHook: stop_hook_active is not read.
HoldEveryTime ==
  /\ phase = "stopping"
  /\ phase' = "idle"
  /\ IF session.client = "claude" /\ CheckBranch(session.checker, repo.head)
     THEN /\ turn' = "held"
          /\ advice' = [source |-> "stop", recovery |-> Mandatory(repo.head),
                        repo |-> repo, steady |-> TRUE]
     ELSE turn' = "over" /\ advice' = NoAdvice
  /\ UNCHANGED <<environment, call, hooks, seen, step, done>>

\* stop_hook_active is set on the attempt that follows a block.
StopHook ==
  /\ phase = "stopping"
  /\ phase' = "idle"
  /\ IF session.client = "claude" /\ turn = "working"
        /\ CheckBranch(session.checker, repo.head)
     THEN /\ turn' = "held"
          /\ advice' = [source |-> "stop", recovery |-> Mandatory(repo.head),
                        repo |-> repo, steady |-> TRUE]
     ELSE turn' = "over" /\ advice' = NoAdvice
  /\ UNCHANGED <<environment, call, hooks, seen, step, done>>

UserPrompt ==
  /\ phase = "idle" /\ turn = "over"
  /\ turn' = "working"
  /\ advice' = IF session.client = "claude" /\ CheckBranch(session.checker, repo.head)
               THEN [source |-> "prompt", recovery |-> Warned, repo |-> repo,
                     steady |-> TRUE]
               ELSE NoAdvice
  /\ UNCHANGED <<environment, call, hooks, seen, phase, step, done>>

-----------------------------------------------------------------------------
(* The user's other terminal. *)

Move(move) ==
  /\ moves < MaxMoves
  /\ moves' = moves + 1
  /\ CASE move.does = "git" -> /\ repo' \in Outcomes(Git(move.op, move.to))
                               /\ unpushed' = Unpushed(Git(move.op, move.to), repo')
                               /\ UNCHANGED <<sources, files>>
       [] move.does = "am" -> /\ repo.stopped = "nothing" /\ OnBranch
                              /\ repo' = [repo EXCEPT !.stopped = "am", !.onto = repo.head]
                              /\ UNCHANGED <<sources, unpushed, files>>
       [] move.does = "configure" -> /\ sources' = [sources EXCEPT !.config.email = move.to]
                                     /\ UNCHANGED <<repo, unpushed, files>>
       [] move.does = "commit" -> /\ unpushed' = unpushed \union OffList({<<move.on, move.commit>>})
                                  /\ UNCHANGED <<repo, sources, files>>
       [] move.does = "write" -> /\ files' = [files EXCEPT ![move.path] = move.content]
                                 /\ UNCHANGED <<repo, sources, unpushed>>
  /\ UNCHANGED <<session, call, hooks, seen, phase, step, turn, advice, done>>

-----------------------------------------------------------------------------
Init ==
  /\ \E start \in Starts :
       /\ session = start.session /\ repo = start.repo
       /\ sources = start.sources /\ files = start.files
  /\ unpushed = {} /\ moves = 0
  /\ call = NoCall /\ hooks = <<>> /\ seen = NothingSeen
  /\ phase = "idle" /\ step = 1
  /\ turn = "over" /\ advice = NoAdvice /\ done = NoAct

BranchHook == BranchRead \/ \E lookup \in BOOLEAN : BranchRecover(lookup)
IdentityHook == IdentityCheck \/ NothingToCheck
ConsentHook == ConsentLook \/ ConsentOpen
User == \E approves \in BOOLEAN : Answer(approves)
Run == RunSegment \/ RunTool \/ Return

Next ==
  \/ \E c \in Calls(session.focus) : Submit(c)
  \/ BranchHook \/ IdentityHook \/ ConsentHook \/ InfrastructureLook
  \/ Merge \/ User \/ Run
  \/ AttemptStop \/ StopHook \/ UserPrompt
  \/ \E move \in Moves(session.focus) : Move(move)

\* Hooks have timeouts, tools return, and the user answers the prompt.
Fairness ==
  /\ WF_vars(BranchHook \/ IdentityHook \/ ConsentHook \/ InfrastructureLook)
  /\ WF_vars(Merge \/ User) /\ WF_vars(Run) /\ WF_vars(StopHook)
  /\ SF_vars(AttemptStop)

Spec == Init /\ [][Next]_vars /\ Fairness

-----------------------------------------------------------------------------
(* Properties. *)

\* The state's shape, and what the phases say of it: a call is being decided,
\* asked about or run exactly when there is one, and only a rebase detaches
\* HEAD with a branch to return to.
SessionTypeOK ==
  /\ repo.head \in Heads /\ repo.onto \in Heads
  /\ repo.stopped = "rebase" => repo.onto \notin {"", "HEAD"}
  /\ call # NoCall <=> phase \in {"deciding", "asking", "running", "approved"}
  /\ phase = "asking" => Cast("ask") /\ ~Cast("deny")
  /\ phase = "running" => \A h \in DOMAIN hooks : hooks[h] = "allow"
  /\ turn \in {"over", "working", "held"} /\ moves \in 0..MaxMoves
  /\ unpushed \subseteq Heads \X [Roles -> Addresses]

Ran(ops) == "op" \in DOMAIN done.act /\ done.act.op \in ops

\* The gate reads HEAD before the command runs: a commit lands on a branch the
\* convention refuses only if, after a read that found a valid one, the user
\* or an earlier segment of the same command moved HEAD.
CommitOnCheckedBranch ==
  Ran({"commit", "amend"}) /\ done.head # "" =>
    /\ seen.head = "compliant" /\ done.act.elsewhere \in {"none", "compliant"}
    /\ done.head = seen.head \/ seen.moves < moves \/ step > 2

\* Whatever the branch is and whoever is asked, none of the nine subcommands the
\* gate reads ever names a claude/ branch for the agent.  git pull and git stash
\* also take the name of a branch, and the gate does not read theirs.
ClaudeBranchNeverNamed == Ran(BranchOps) => done.act.to # "claude"

\* A commit or push whose identity the checker would refuse runs only if the
\* sources changed between the check of that segment and the run.
RefusedIdentityNotUsed ==
  LET mine == {check \in seen.identities : check[1] = step - 1}
  IN session.client = "claude" /\ session.identity /\ Ran({"commit", "amend", "push", "force"})
     /\ call.tool = "Bash"
       => /\ mine # {}
          /\ Refused(WorktreeIdentity(WithAssignment(done.sources, done.act.email)))
               => \A check \in mine : check[2] # done.sources

\* A push publishes a commit with an address outside the allowlist only if the
\* hook could not have listed it: the commit is on another branch than HEAD was
\* when the hook listed it, no remote was configured then, or it was made later.
PublishedWereListed ==
  LET branch == Pushed(done.act, done.head)
      mine == {listing \in seen.unpushed : listing.at = step - 1}
  IN session.client = "claude" /\ session.identity /\ Ran({"push", "force"})
     /\ call.tool = "Bash" /\ done.act.elsewhere = "none" =>
       /\ mine # {}
       /\ \A entry \in done.unpushed, listing \in mine :
            entry[1] = branch /\ Refused(LogIdentity(entry[2])) =>
              \/ listing.repo.head # branch
              \/ ~listing.repo.remote
              \/ entry \notin listing.commits

\* What an unread moment lets through: a commit, a push or a branch that runs
\* is the one its hooks checked, unless something moved after they had looked or
\* is of the kinds they do not look at.
ActsWereChecked ==
  /\ SessionTypeOK /\ CommitOnCheckedBranch /\ ClaudeBranchNeverNamed
  /\ RefusedIdentityNotUsed /\ PublishedWereListed

\* History rewrites, branch recoveries and repository workflows run only after
\* the user approved this very call, and never in an unattended session.
AskedActsWereApproved ==
  LET gated == \/ session.client = "claude" /\ Ran({"rebase", "amend", "force"})
               \/ Ran({"create", "rename"} \union RebaseRecoveries)
                  /\ CheckBranch(session.checker, seen.head)
               \/ Ran({"run"}) /\ Workflow(call)
  IN gated => done.asked /\ (session.client = "claude" => session.interactive)

\* An edit of an existing test, through its name, a link or another name of its
\* inode, runs unapproved only if the file was created after the gate opened
\* the path; a file under hooks, .claude or .git is never edited unapproved.  The
\* checkers the gates start are under scripts, and not among these.
TestsChangeByConsent ==
  LET path == done.act.path
      existed == ~(path.name \in DOMAIN seen.opened /\ seen.opened[path.name] = "absent")
  IN session.client = "claude" /\ "path" \in DOMAIN done.act
     /\ done.act.tool = "Edit" /\ ~done.asked =>
       /\ path.part \notin {"hooks", ".claude", ".git"}
       /\ (path.test \/ path.links # "one") /\ done.files[path.name] # "absent"
            => ~existed

\* A file whose name, or whose content as the gate can read it, is guarded.
Guarded(path, disk) ==
  /\ disk[path.name] # "absent"
  /\ path.secret \/ (path.manifest /\ disk[path.name] = "manifest")

\* A read shows the agent no file with a guarded name, and a read or a search
\* shows it a manifest only if the file became one after the gate had looked.
\* A manifest the gate cannot read as text, or does not meet on its walk, is shown.
ManifestsStayHidden ==
  session.client = "claude" /\ done.act = call =>
    /\ call.tool \in ReadTools =>
         /\ ~call.path.secret
         /\ Guarded(call.path, done.files) => ~Guarded(call.path, seen.looked)
    /\ call.tool \in SearchTools =>
         \A path \in call.paths : path.walked /\ Guarded(path, done.files)
                                    => ~Guarded(path, seen.looked)

\* The files the gates guard, for writing and for reading.
FilesStayGuarded == TestsChangeByConsent /\ ManifestsStayHidden

\* A session whose user can be asked about a recovery.
CanBeAsked ==
  \/ session.client \in {"gemini", "antigravity"}
  \/ session.client = "claude" /\ session.interactive

\* The votes of the hooks that read a recovery command, in a given repository.
RecoveryVotes(c, branch, rebase) ==
  {ViolationVote(session, session.checker, c, branch, rebase)}
    \union (IF session.client = "claude" THEN {CommandVote(c)} ELSE {})

\* What the tool gate advises when it denies is what the user is asked about if
\* it is submitted next, in the repository the gate read.  Where nobody can be
\* asked, in Codex and in an unattended session, the advised command is denied.
AdviceIsAccepted ==
  advice.source = "tool" /\ advice.steady /\ session.checker /\ advice.repo.head # "" =>
    \A advised \in advice.recovery :
      LET votes == RecoveryVotes(advised, advice.repo.head, advice.repo.stopped # "nothing")
      IN IF CanBeAsked THEN "ask" \in votes /\ "deny" \notin votes ELSE "deny" \in votes

\* No dead end where somebody can be asked: on a branch the gate refuses, some
\* recovery is put to the user that git carries out.  A stopped git am is the
\* exception (the gate takes it for a rebase), as are an unreadable HEAD and a
\* missing checker.
RecoveryIsPossible ==
  LET rebase == repo.stopped # "nothing"
      accepted == {op \in {"create", "rename"} \union RebaseRecoveries :
                     \E to \in {"compliant", ""} :
                       "deny" \notin RecoveryVotes(Shell(<<Git(op, to)>>), repo.head, rebase)}
  IN CheckBranch(session.checker, repo.head) /\ session.checker /\ CanBeAsked
     /\ repo.head # "" /\ repo.stopped # "am"
       => \E op \in accepted : \E after \in Outcomes(Git(op, "compliant")) : after # repo

\* An agent on a refused branch is told a way out, and its user can grant one.
WayOutExists == AdviceIsAccepted /\ RecoveryIsPossible

\* The stop hook holds a turn once: an agent that goes on trying to stop ends
\* its turn, whatever the branch.
TurnEnds == turn = "working" ~> turn = "over"
=============================================================================
