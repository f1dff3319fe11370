----------------------------- MODULE BranchGate -----------------------------
(***************************************************************************)
(* The decisions of hooks/enforce_branch_name.py, as functions of what one *)
(* invocation of it has read: the branch HEAD names, whether a rebase is   *)
(* recorded, and the tool call.  AgentSession adds the moments at which    *)
(* the hook reads and the program that runs afterwards.                    *)
(*                                                                         *)
(* A branch is one of "compliant", "named" (a branch outside the           *)
(* convention), "claude" (under the prohibited prefix), "main", "HEAD"     *)
(* (detached) and "" (metadata that cannot be read).  A shell call is a    *)
(* sequence of segments; a segment is a record of what the gate can see of *)
(* it.  Plain is a command the gate knows, and every other segment is      *)
(* Plain with some fields changed.                                         *)
(***************************************************************************)
EXTENDS Sequences, FiniteSets

Plain == [program |-> "listed", named |-> "plainly", prefix |-> "none",
          writes |-> "nothing", expands |-> FALSE, op |-> "run", to |-> "",
          refs |-> "literal", context |-> "resolved", elsewhere |-> "none",
          email |-> ""]

Git(op, to) == [Plain EXCEPT !.program = "git", !.op = op, !.to = to]

Shell(segments) == [tool |-> "Bash", syntax |-> "complete", segments |-> segments]

BranchOps == {"create", "switch", "rename", "push", "delete"}
RebaseRecoveries == {"abort", "continue", "skip"}
Writers == {"listed", "copier"}

-----------------------------------------------------------------------------
(* scripts/check_branch_name.py and the readers of the hook. *)

NameViolation(branch, strict) ==
  \/ branch = "claude"
  \/ (strict \/ branch \notin {"", "main", "HEAD"}) /\ branch # "compliant"

\* Mutant of CheckBranch: without --strict-agent-preflight.
CheckBranchLeniently(checker, branch) ==
  branch = "" \/ ~checker \/ NameViolation(branch, FALSE)

\* An unreadable HEAD is a failed lookup, reported like a bad name.
CheckBranch(checker, branch) ==
  branch = "" \/ ~checker \/ NameViolation(branch, TRUE)

\* The repository another segment names with -C, --git-dir or a variable.
ElsewhereViolation(checker, segment) ==
  segment.elsewhere # "none" /\ CheckBranch(checker, segment.elsewhere)

-----------------------------------------------------------------------------
(* What a shell command may do while the branch is in order. *)

MetadataPath(path) == path \in {"metadata", "claude ref"}

MetadataAncestor(program, path) == program = "copier" /\ path = "above .git"

WritesMetadata(segment) ==
  /\ segment.program \in Writers
  /\ MetadataPath(segment.writes) \/ MetadataAncestor(segment.program, segment.writes)

\* Only the subcommands of BRANCH_MUTATION_SUBCOMMANDS are read for a name: a
\* fetch with git pull, or git stash branch, is not.
\* Mutant of NamesProhibited: a rename is not a mutation of branches.
NamesProhibitedIfNew(segment) == segment.op \in BranchOps \ {"rename"} /\ segment.to = "claude"
NamesProhibited(segment) == segment.op \in BranchOps /\ segment.to = "claude"

UnresolvedRefs(segment) ==
  /\ segment.op \in BranchOps
  /\ \/ segment.refs \in {"stdin or all", "pattern"}
     \/ segment.op = "push" /\ segment.refs = "absent"

GitContextReason(checker, segment) ==
  \/ segment.context = "error"
  \/ NamesProhibited(segment)
  \/ UnresolvedRefs(segment)
  \/ ElsewhereViolation(checker, segment)

OpaquePrefix(segment) == segment.prefix \in {"unread", "wrapper", "options"}

SegmentReason(checker, segment) ==
  \/ OpaquePrefix(segment)
  \/ segment.named # "plainly"
  \/ segment.program \notin {"git"} \union Writers
  \/ WritesMetadata(segment)
  \/ IF segment.program = "git" THEN GitContextReason(checker, segment)
                                ELSE segment.expands

\* PowerShell's arrays of destinations are read before its segments.
ArrayReason(call) ==
  call.tool = "PowerShell" /\ call.syntax \in {"broken array", "array to metadata"}

CommandReason(checker, call) ==
  \/ call.syntax \in {"incomplete", "quoted redirect"}
  \/ ArrayReason(call)
  \/ \E i \in DOMAIN call.segments : SegmentReason(checker, call.segments[i])

FileReason(call) == call.path.name = "" \/ MetadataPath(call.path.git)

-----------------------------------------------------------------------------
(* Recovery. *)

Exact(call, op, to) == call.syntax = "complete" /\ call.segments = <<Git(op, to)>>

\* Mutant of ValidRecovery: the rebase is not looked at.
RecoveryByName(checker, call, branch, rebase) ==
  \E to \in {"compliant", "named", "claude"} :
    /\ ~CheckBranch(checker, to)
    /\ Exact(call, IF branch \in {"main", "HEAD"} THEN "create" ELSE "rename", to)

ValidRecovery(checker, call, branch, rebase) ==
  IF rebase
  THEN \E op \in RebaseRecoveries : Exact(call, op, "")
  ELSE \E to \in {"compliant", "named", "claude"} :
         /\ ~CheckBranch(checker, to)
         /\ Exact(call, IF branch \in {"main", "HEAD"} THEN "create" ELSE "rename", to)

\* Mutant of Advised: a detached HEAD is renamed.
AdvisedOffMain(branch, rebase) ==
  IF rebase THEN {Shell(<<Git(op, "")>>) : op \in RebaseRecoveries}
  ELSE {Shell(<<Git(IF branch = "main" THEN "create" ELSE "rename", "compliant")>>)}

\* The commands a denial names.  In a rebase its text ends in a branch name all
\* the same, which no recovery of a rebase takes; the agent leaves it out.
Advised(branch, rebase) ==
  IF rebase THEN {Shell(<<Git(op, "")>>) : op \in RebaseRecoveries}
  ELSE {Shell(<<Git(IF branch \in {"main", "HEAD"} THEN "create" ELSE "rename",
                    "compliant")>>)}

\* recovery_authorization_reason, as the stop hook asks for it: no rebase is read.
Mandatory(branch) ==
  {Shell(<<Git(IF branch \in {"main", "HEAD"} THEN "create" ELSE "rename", "compliant")>>)}

\* build_warning names both corrections and never the rebase.
Warned == {Shell(<<Git(op, "compliant")>>) : op \in {"rename", "create"}}

IsProgram(call, program) ==
  /\ call.syntax = "complete"
  /\ call.segments = <<[Plain EXCEPT !.program = program]>>

Bootstrap(call) == IsProgram(call, "branch reader")
Workflow(call) == IsProgram(call, "workflow")

-----------------------------------------------------------------------------
(* The vote. *)

\* core.decide: an ask nobody can answer is a denial.
Consent(interactive) == IF interactive THEN "ask" ELSE "deny"

\* Mutant of Authorization: the mode of the session is not read.
AskWhoever(session) ==
  IF session.client = "codex" THEN "deny" ELSE "ask"

Authorization(session) ==
  CASE session.client = "claude" -> Consent(session.interactive)
    [] session.client \in {"gemini", "antigravity"} -> "ask"
    [] OTHER -> "deny"

IsShell(call) == call.tool \in {"Bash", "PowerShell", "Cmd"}

CompliantVote(session, checker, call) ==
  IF IsShell(call)
  THEN IF Bootstrap(call) THEN "allow"
       ELSE IF Workflow(call) THEN Authorization(session)
       ELSE IF CommandReason(checker, call) THEN "deny" ELSE "allow"
  ELSE IF call.tool = "malformed" \/ (call.tool = "Edit" /\ FileReason(call))
       THEN "deny" ELSE "allow"

ViolationVote(session, checker, call, branch, rebase) ==
  IF call.tool = "question" THEN "allow"
  ELSE IF ~IsShell(call) THEN "deny"
  ELSE IF Bootstrap(call) THEN "allow"
  ELSE IF branch # "" /\ ValidRecovery(checker, call, branch, rebase)
  THEN Authorization(session)
  ELSE "deny"
=============================================================================
