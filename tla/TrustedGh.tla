------------------------------ MODULE TrustedGh ------------------------------
(***************************************************************************)
(* One GitHub CLI command of an agent: the gate judges the command line,   *)
(* somebody may be asked, and scripts/trusted_gh.py then checks the        *)
(* arguments, completes them from the Git metadata, checks the account and *)
(* runs the command, and for each of the two finds gh on PATH and starts   *)
(* what is at that place by then.  The origin, the branch and the          *)
(* installed programs can change between any two of these steps.           *)
(***************************************************************************)
EXTENDS Naturals, Sequences

CONSTANTS
  Owners,     \* owners of repositories on GitHub
  Branches,   \* branch names
  PathLength, \* entries of PATH
  MaxChanges  \* bound on changes made by others

ASSUME TrustedGhAssumption ==
  /\ PathLength \in Nat
  /\ MaxChanges \in Nat
  /\ "none" \notin Owners \cup Branches
  /\ "unreadable" \notin Owners

VARIABLES
  given,      \* the arguments as the agent wrote them
  origin,     \* owner of the origin remote, or "none"
  head,       \* the branch of HEAD, or "none"
  path,       \* the programs PATH leads to, in order
  gh,         \* the program at the place the last search led to
  at,         \* the next step of the command
  effective,  \* the arguments with repository context
  ran,        \* the programs that were started, with their arguments
  code,       \* exit status of the wrapper, or "none"
  asked,      \* history: somebody approved the command line
  changes     \* history: what others changed, in order

ghVars == <<given, origin, head, path, gh, at, effective, ran, code, asked,
            changes>>

\* "create" is pr create, "outward" another command of pr or issue that notifies
\* people, "unbound" repo fork or release create, "listed" another command of
\* pr, issue or run, "hosted" one the gate always asks about (repo edit), "denied"
\* one on the denylist, "flawed" one with literal escapes in its text or that
\* prints a token.
Commands == {"create", "outward", "unbound", "listed", "hosted", "other",
             "denied", "flawed"}
Bound    == {"create", "outward", "listed"}
Outward  == {"create", "outward", "unbound"}

\* repo is the value of -R or --repo, subject the owner in a position of the
\* command, head the value of --head and short that of -H.
Arguments == [command : Commands,
              repo    : Owners \cup {"none", "unreadable"},
              subject : Owners \cup {"none"},
              head    : Branches \cup {"none"},
              short   : Branches \cup {"none"}]

\* gh takes the repository from the address of a pull request or an issue
\* before it looks at --repo, and the last of several head options; the wrapper
\* adds its own behind those of the agent.
Reached(arguments) ==
  IF arguments.subject # "none" THEN arguments.subject ELSE arguments.repo
HeadUsed(arguments) ==
  IF arguments.head # "none" THEN arguments.head ELSE arguments.short

\* A PATH entry: how its directory is spelled, where the file called gh in it
\* leads, and whether it is an executable regular file.
Candidates == [dir  : {"relative", "inside", "outside"},
               to   : {"inside", "outside"},
               file : {"plain", "other"}]

-----------------------------------------------------------------------------
(* Operators *)

Acceptable(candidate) ==
  /\ candidate.dir = "outside"
  /\ candidate.file = "plain"
  /\ candidate.to = "outside"

\* resolve_gh and resolve_git: the first acceptable file, or none.
Resolved ==
  {i \in DOMAIN path : Acceptable(path[i]) /\ \A j \in 1..(i - 1) : ~Acceptable(path[j])}

\* The gate looks for an owner among the positions if no option names one.
Target(arguments) ==
  IF arguments.repo # "none" THEN arguments.repo ELSE arguments.subject

\* Mutant of ForgeVerdict: an origin that cannot be read clears any target.
ForgeVerdictOrClear(arguments, owner) ==
  IF arguments.command = "denied" THEN "deny"
  ELSE IF \/ arguments.command = "hosted"
          \/ /\ arguments.command \in Outward
             /\ owner # "none"
             /\ Target(arguments) \notin {"none", owner}
    THEN "ask" ELSE "clear"

\* forge_verdict, for an origin of this owner.
ForgeVerdict(arguments, owner) ==
  IF arguments.command = "denied" THEN "deny"
  ELSE IF \/ arguments.command = "hosted"
          \/ /\ arguments.command \in Outward
             /\ Target(arguments) \notin {"none", owner}
    THEN "ask" ELSE "clear"

NeedsRepo(arguments) == arguments.command \in Bound /\ arguments.repo = "none"
\* A head given with -H is not seen.
NeedsHead(arguments) == NeedsRepo(arguments) /\ arguments.command = "create"
                          /\ arguments.head = "none"

\* A command line names its target once, and its head once.
WellFormed(arguments) ==
  /\ arguments.subject # "none" =>
       arguments.repo = "none" /\ arguments.command \in {"outward", "unbound"}
  /\ HeadUsed(arguments) # "none" => arguments.command = "create"
  /\ arguments.short # "none" => arguments.head = "none"

NoProgram == [dir |-> "outside", to |-> "outside", file |-> "other"]

GhInit ==
  /\ given \in {arguments \in Arguments : WellFormed(arguments)}
  /\ origin \in Owners \cup {"none"}
  /\ head \in Branches \cup {"none"}
  /\ path \in [1..PathLength -> Candidates]
  /\ gh = NoProgram
  /\ at = "gate"
  /\ effective = given
  /\ ran = <<>>
  /\ code = "none"
  /\ asked = FALSE
  /\ changes = <<>>

World == <<given, origin, head, path, changes>>

Leave(status) ==
  /\ at' = "ended"
  /\ code' = status

Step(next) ==
  /\ at' = next
  /\ UNCHANGED code

-----------------------------------------------------------------------------
(* The gate *)

Gate ==
  /\ at = "gate"
  /\ LET verdict == ForgeVerdict(given, origin)
     IN Step(IF verdict = "deny" THEN "ended"
             ELSE IF verdict = "ask" THEN "consent" ELSE "check")
  /\ UNCHANGED <<World, gh, effective, ran, asked>>

\* Without anybody to ask, the answer is no.
Answer ==
  /\ at = "consent"
  /\ \E yes \in BOOLEAN :
       /\ asked' = yes
       /\ Step(IF yes THEN "check" ELSE "ended")
  /\ UNCHANGED <<World, gh, effective, ran>>

-----------------------------------------------------------------------------
(* The wrapper *)

\* Flawed and denied commands end with status 2.
CheckArguments ==
  /\ at = "check"
  /\ IF given.command = "flawed" \/ ForgeVerdict(given, origin) = "deny"
       THEN Leave("refused") ELSE Step("target")
  /\ UNCHANGED <<World, gh, effective, ran, asked>>

\* Mutant of AddTarget: the target of the arguments is replaced.
ReplaceTarget ==
  /\ at = "target"
  /\ IF given.command \notin Bound
       THEN Step("judge") /\ UNCHANGED effective
     ELSE IF origin = "none" THEN Leave("error") /\ UNCHANGED effective
     ELSE /\ effective' = [effective EXCEPT !.repo = origin]
          /\ Step(IF NeedsHead(given) THEN "head" ELSE "judge")
  /\ UNCHANGED <<World, gh, ran, asked>>

\* The origin, unless the arguments name a repository.
AddTarget ==
  /\ at = "target"
  /\ IF ~NeedsRepo(given) THEN Step("judge") /\ UNCHANGED effective
     ELSE IF origin = "none" THEN Leave("error") /\ UNCHANGED effective
     ELSE /\ effective' = [effective EXCEPT !.repo = origin]
          /\ Step(IF NeedsHead(given) THEN "head" ELSE "judge")
  /\ UNCHANGED <<World, gh, ran, asked>>

\* Mutant of AddHead: a detached HEAD leaves the choice to gh.
AddHeadIfAny ==
  /\ at = "head"
  /\ effective' = [effective EXCEPT !.head = head]
  /\ Step("judge")
  /\ UNCHANGED <<World, gh, ran, asked>>

\* The branch of HEAD, read after the origin.
AddHead ==
  /\ at = "head"
  /\ IF head = "none" THEN Leave("error") /\ UNCHANGED effective
     ELSE /\ effective' = [effective EXCEPT !.head = head]
          /\ Step("judge")
  /\ UNCHANGED <<World, gh, ran, asked>>

JudgeEffective ==
  /\ at = "judge"
  /\ IF ForgeVerdict(effective, origin) = "deny"
       THEN Leave("refused") ELSE Step("account")
  /\ UNCHANGED <<World, gh, effective, ran, asked>>

\* Mutant of Find: the first gh on PATH that can be run is taken.
FindFirst(next) ==
  \/ \E i \in {j \in DOMAIN path : path[j].file = "plain"} :
       /\ gh' = path[i]
       /\ Step(next)
  \/ /\ Resolved = {}
     /\ Leave("error")
     /\ UNCHANGED gh

\* run_gh searches PATH anew each time it is called.
Find(next) ==
  \/ \E i \in Resolved :
       /\ gh' = path[i]
       /\ Step(next)
  \/ /\ Resolved = {}
     /\ Leave("error")
     /\ UNCHANGED gh

\* It then starts what is at that place, from outside the repository.
Start(purpose) ==
  /\ gh.file = "plain"
  /\ ran' = Append(ran, [purpose |-> purpose, program |-> gh,
                         arguments |-> effective])

\* Mutant of FindForAccount: without a gh for it the account is not checked.
FindForAnyAccount ==
  /\ at = "account"
  /\ \/ Find("login")
     \/ Step("run") /\ UNCHANGED gh
  /\ UNCHANGED <<World, effective, ran, asked>>

FindForAccount ==
  /\ at = "account"
  /\ Find("login")
  /\ UNCHANGED <<World, effective, ran, asked>>

\* gh api user: it may not start, fail, time out, or answer something else.
CheckAccount ==
  /\ at = "login"
  /\ \/ /\ Start("account")
        /\ Step("run") \/ Leave("error")
     \/ Leave("error") /\ UNCHANGED ran
  /\ UNCHANGED <<World, gh, effective, asked>>

FindForCommand ==
  /\ at = "run"
  /\ Find("exec")
  /\ UNCHANGED <<World, effective, ran, asked>>

RunCommand ==
  /\ at = "exec"
  /\ \/ /\ Start("command")
        /\ \E status \in {"success", "failure"} : Leave(status)
     \/ Leave("error") /\ UNCHANGED ran
  /\ UNCHANGED <<World, gh, effective, asked>>

-----------------------------------------------------------------------------
(* Others *)

Mine == <<given, at, effective, ran, code, asked>>

Log(what) ==
  /\ at # "ended"
  /\ Len(changes) < MaxChanges
  /\ changes' = Append(changes, [what |-> what, at |-> at])

ChangeOrigin ==
  /\ Log("origin")
  /\ origin' \in (Owners \cup {"none"}) \ {origin}
  /\ UNCHANGED <<Mine, head, path, gh>>

ChangeHead ==
  /\ Log("head")
  /\ head' \in (Branches \cup {"none"}) \ {head}
  /\ UNCHANGED <<Mine, origin, path, gh>>

\* A program is installed, replaced or removed.  If it is the one a search has
\* just found, its place can hold the new one or still the old one: the search
\* follows links, and what changed can be a link on the way.
ChangeProgram ==
  /\ Log("program")
  /\ \E i \in DOMAIN path, candidate \in Candidates :
       /\ candidate.dir = path[i].dir
       /\ candidate # path[i]
       /\ path' = [path EXCEPT ![i] = candidate]
       /\ gh' \in IF path[i] = gh /\ at \in {"login", "exec"}
                    THEN {gh, candidate} ELSE {gh}
  /\ UNCHANGED <<Mine, origin, head>>

GhNext ==
  \/ Gate \/ Answer \/ CheckArguments \/ AddTarget \/ AddHead \/ JudgeEffective
  \/ FindForAccount \/ CheckAccount \/ FindForCommand \/ RunCommand
  \/ ChangeOrigin \/ ChangeHead \/ ChangeProgram

GhSpec == GhInit /\ [][GhNext]_ghVars

-----------------------------------------------------------------------------
(* Properties *)

\* Types of the variables; a status ends the wrapper, and the arguments are
\* completed only after they were checked.
GhTypeOK ==
  /\ given \in Arguments
  /\ origin \in Owners \cup {"none"}
  /\ head \in Branches \cup {"none"}
  /\ path \in [1..PathLength -> Candidates]
  /\ gh \in Candidates
  /\ at \in {"gate", "consent", "check", "target", "head", "judge", "account",
             "login", "run", "exec", "ended"}
  /\ effective \in Arguments
  /\ ran \in Seq([purpose : {"account", "command"}, program : Candidates,
                  arguments : Arguments])
  /\ code \in {"none", "success", "failure", "error", "refused"}
  /\ asked \in BOOLEAN
  /\ code # "none" => at = "ended"
  /\ at \in {"gate", "consent", "check", "target"} => effective = given

Commanded == {i \in DOMAIN ran : ran[i].purpose = "command"}
Changed(what, steps) ==
  \E i \in DOMAIN changes : changes[i].what = what /\ changes[i].at \in steps

\* Steps between a reading of the metadata, or of PATH, and the command.
SinceJudged == {"judge", "account", "login", "run", "exec"}
SinceGate   == {"consent", "check", "target", "head"} \cup SinceJudged
WhileFound(purpose) == IF purpose = "account" THEN {"login"} ELSE {"exec"}

\* Whatever is installed while the wrapper works, it starts no program of the
\* repository: both searches of PATH end outside, and only somebody who changes
\* a program between a search and its start can bring in another one.
ProgramsAreOutside ==
  \A i \in DOMAIN ran :
    \/ ran[i].program.dir = "outside" /\ ran[i].program.to = "outside"
    \/ Changed("program", WhileFound(ran[i].purpose))

\* The command runs at most once, after the account was confirmed, and a
\* success is reported only for a command that ran.
RunsAfterAccount ==
  /\ \A i \in Commanded : \E j \in 1..(i - 1) : ran[j].purpose = "account"
  /\ \A i, j \in Commanded : i = j
  /\ code = "success" => Commanded # {}

\* A command that notifies people of another owner than the origin's is run
\* only after somebody agreed, unless the origin changed after the gate looked.
OutwardIsAsked ==
  \A i \in Commanded :
    LET arguments == ran[i].arguments IN
      /\ arguments.command = "hosted" => asked
      /\ arguments.command \in Outward /\ Reached(arguments) \notin {"none", origin} =>
           asked \/ Changed("origin", SinceGate)

\* What runs is the command the agent wrote, with only the missing context
\* added: a repository it named is kept, and so is a head, but for a -H where
\* the wrapper adds the repository.
GivenIsKept ==
  \A i \in Commanded :
    LET arguments == ran[i].arguments IN
      /\ arguments.command = given.command
      /\ Reached(given) # "none" => Reached(arguments) = Reached(given)
      /\ HeadUsed(given) # "none" /\ ~NeedsHead(given) =>
           HeadUsed(arguments) = HeadUsed(given)

\* A pull request whose repository and head the wrapper adds is created from the
\* branch of HEAD in the repository of the origin, if neither changes while the
\* wrapper works.
CreatedFromHead ==
  \A i \in Commanded :
    LET arguments == ran[i].arguments IN
      NeedsHead(given) =>
        /\ HeadUsed(arguments) # "none"
        /\ HeadUsed(arguments) # head => Changed("head", SinceJudged)
        /\ Reached(arguments) # origin => Changed("origin", {"head"} \cup SinceJudged)

\* What runs is what was judged: the program, the account, the consent and the
\* arguments still hold at the last step, or somebody changed them meanwhile.
CommandIsAsJudged ==
  /\ GhTypeOK /\ ProgramsAreOutside /\ RunsAfterAccount
  /\ OutwardIsAsked /\ GivenIsKept /\ CreatedFromHead
=============================================================================
