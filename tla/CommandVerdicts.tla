--------------------------- MODULE CommandVerdicts ---------------------------
(* What the three command gates decide about one parsed statement            *)
(* (hooks/_gate_core.py and the _program_verdict functions of the gates).    *)
(* A statement is a record: its program, the subcommand of git or gh, the    *)
(* set of its other words, the targets of its redirects, and the prefix that *)
(* runs it as another user. A word stands for its class: "/" is a root or    *)
(* system directory, "/etc/*" a glob over one, "/dev/sda" a device, "dir" an *)
(* ordinary path; the order of words is not kept.                            *)
EXTENDS Naturals, Sequences

Verdicts == {"clear", "ask", "deny"}
Strength == [clear |-> 0, ask |-> 1, deny |-> 2]
Stronger(v, w) == IF Strength[w] > Strength[v] THEN w ELSE v
Strongest(verdicts) ==
  CHOOSE v \in verdicts : \A w \in verdicts : Strength[w] <= Strength[v]

FirstObjection(verdicts) ==
  LET Objects(i) == verdicts[i] # "clear"
  IN IF \E i \in DOMAIN verdicts : Objects(i)
     THEN verdicts[CHOOSE i \in DOMAIN verdicts :
                     Objects(i) /\ \A j \in DOMAIN verdicts : Objects(j) => i <= j]
     ELSE "clear"

When(condition, verdict) == IF condition THEN verdict ELSE "clear"
Has(s, words) == s.words \cap words # {}

-----------------------------------------------------------------------------
(* Deletes, spelled the way any of the three shells spells them. *)

Delete(recursive, s) ==
  When(recursive, IF "/" \in s.words THEN "deny" ELSE "ask")

\* A bundle of short flags with an r in it, "-Recurse" and "-Force" included.
PosixDelete(s) ==
  Delete(Has(s, {"-r", "-rf", "-Recurse", "-Force", "--recursive"}), s)
PowerShellDelete(s) == Delete(Has(s, {"-r", "-Recurse"}), s)
CmdDelete(s) ==
  Delete(\/ s.program \in {"rd", "del"} /\ "/s" \in s.words
         \/ s.program = "robocopy" /\ "/mir" \in s.words
         \/ s.program = "xcopy" /\ "/s" \in s.words, s)

\* By their bare names: "rm.exe" is rm with the suffix of its file.
DeletePrograms ==
  {"rm", "remove-item", "remove-itemproperty", "rd", "del", "robocopy", "xcopy"}
AnyDelete(s) == Strongest({PosixDelete(s), PowerShellDelete(s), CmdDelete(s)})

-----------------------------------------------------------------------------
(* Git. *)

ReadSubcommands == {"status", "log"}

PushVerdict(s) ==
  When(Has(s, {"--force", "-f", "--force-with-lease", "--mirror", "--delete",
               "--prune", "+ref", ":ref"}), "ask")
BranchVerdict(s) ==
  When("-D" \in s.words \/ {"--delete", "--force"} \subseteq s.words, "ask")
CleanVerdict(s) == When(~Has(s, {"-n", "--dry-run"}) /\ Has(s, {"-d", "-x"}), "ask")
FlagVerdict(s) ==
  CASE s.sub = "reset" /\ "--hard" \in s.words -> "deny"
    [] s.sub = "commit" /\ "--amend" \in s.words -> "ask"
    [] s.sub = "rebase" -> "ask"
    [] OTHER -> "clear"
DefinesGitAlias(s) == s.sub = "config" /\ {"alias.a", "value"} \subseteq s.words

\* runsProgram: the environment or the configuration that git would use names
\* a program that a read runs (a pager, an external diff).
GitRead(runsProgram) == When(runsProgram, "ask")

\* A subcommand that git defines.
KnownGit(s, runsProgram) ==
  CASE s.sub \in ReadSubcommands -> GitRead(runsProgram)
    [] s.sub = "push" -> PushVerdict(s)
    [] DefinesGitAlias(s) -> "deny"
    [] s.sub = "branch" -> BranchVerdict(s)
    [] s.sub = "clean" -> CleanVerdict(s)
    [] OTHER -> FlagVerdict(s)

-----------------------------------------------------------------------------
(* Hosted GitHub operations; "wrapper" is scripts/trusted_gh.py run. *)

Wrapped(s) == s.program = "wrapper"
\* git taking the place of a gh operation, by name or by a GitHub address.
GitSubstitute(s) ==
  s.program = "git" /\ (s.sub = "remote" \/ (s.sub = "fetch" /\ "github" \in s.words))

GithubRouting(s) ==
  CASE Wrapped(s) -> "clear"
    [] s.program = "gh" -> "deny"
    [] GitSubstitute(s) -> IF "fallback" \in s.words THEN "ask" ELSE "deny"
    [] s.program = "curl" /\ "github" \in s.words -> "deny"
    [] OTHER -> "clear"

DeniedByList(s) == s.sub \in {"secret", "release delete"}
ApiMutates(s) == Has(s, {"-X POST", "--field"})
\* Another owner's repository, or one that cannot be read.
ExternalTarget(s) == s.sub = "pr create" /\ "--repo them/x" \in s.words

GithubCli(s) ==
  CASE DeniedByList(s) -> "deny"
    [] s.sub = "api" -> When(ApiMutates(s), "deny")
    [] s.sub = "repo edit" -> IF "public" \in s.words THEN "deny" ELSE "ask"
    [] OTHER -> When(ExternalTarget(s), "ask")

Forge(s) ==
  FirstObjection(<<When(Wrapped(s) \/ s.program = "gh", GithubCli(s)),
                   When(/\ Wrapped(s) \/ s.program \in {"gh", "glab"}
                        /\ s.sub \in {"release delete", "repo delete"}, "deny")>>)

-----------------------------------------------------------------------------
(* The checks every other program is run past. *)

Writers == {"tee", "cp", "mv", "copy-item", "robocopy", "xcopy"}
\* Any operand of a writing program stands for the one that it writes.
Targets(s) == s.redirects \cup IF s.program \in Writers THEN s.words ELSE {}

Privilege(s) ==
  CASE s.prefix = "su" -> "deny" [] s.prefix = "sudo" -> "ask" [] OTHER -> "clear"
Prohibited(s) == When(s.program \in {"ssh", "mkfs"}, "deny")
CurlTransfer(s) ==
  When(s.program = "curl", IF "-d" \in s.words THEN "deny" ELSE "ask")
Interpreters == {"bash", "pwsh"}
HandsPayload(s) == "-c" \in s.words

Recovery(s) == When(s.program = "vssadmin" /\ "delete" \in s.words, "deny")
DeviceWrite(s) ==
  IF \/ s.program = "dd"
     \/ s.program \in {"cipher", "sdelete"} /\ "/dev/sda" \in s.words
  THEN "deny" ELSE When(s.program = "sdelete", "ask")
MassOperation(s) ==
  IF "/etc/*" \in s.words THEN "deny"
  ELSE When(\/ s.program = "find" /\ "-delete" \in s.words
            \/ s.program = "git" /\ s.sub = "clean" /\ ~Has(s, {"-n", "--dry-run"}), "ask")
Logging(s) == When(s.program = "systemctl" /\ "auditd" \in s.words, "ask")
Disguised(s) ==
  When(\/ s.program = "mv" /\ "/dev/null" \in s.words
       \/ s.program = "chmod" /\ "000" \in s.words, "deny")
Destruction(s) ==
  Strongest({Recovery(s), DeviceWrite(s), MassOperation(s), Logging(s), Disguised(s)})

DefinesAlias(s) ==
  When(\/ s.program = "alias" /\ "a=b" \in s.words
       \/ s.program = "git" /\ DefinesGitAlias(s), "deny")
EnvironmentAssignment(s) ==
  When(s.program = "export" /\ "GIT_DIR=x" \in s.words, "ask")
ModeChange(s) == When(s.program = "chmod" /\ "/" \in s.words, "deny")
Truncation(s) ==
  When(/\ s.redirects # {}
       /\ \/ "/dev/sda" \in s.redirects
          \/ s.program = ""
          \/ s.program = "cat" /\ "/dev/null" \in s.words, "deny")
Process(s) == When(s.program = "kill", "ask")
Schedule(s) == When(s.program = "crontab" /\ "--remove" \in s.words, "deny")
FilesystemRepair(s) == When(s.program = "fsck", "deny")
InfrastructurePath(s) == When("main.tf" \in s.words \cup s.redirects, "deny")
Profile(s) ==
  When(/\ "~/.bashrc" \in Targets(s)
       /\ "~/.bashrc" \in s.redirects \/ s.program \in {"tee", "cp", "mv"}, "ask")
ProtectedWrite(s) == When("hooks/h" \in Targets(s), "ask")
TestWrite(s) == When("tests/t" \in Targets(s), "ask")

SharedChecks(s) ==
  {Destruction(s), DefinesAlias(s), ModeChange(s), Truncation(s), Process(s),
   Schedule(s), FilesystemRepair(s), InfrastructurePath(s), ProtectedWrite(s),
   TestWrite(s)}

-----------------------------------------------------------------------------
(* The statement as each gate reads it, apart from what git and a nested     *)
(* command still have to say: those are steps of CommandGate. "nest" hands   *)
(* its words to the shell as one command: eval, Start-Process, call.         *)

ScheduledTasks(s) ==
  When(s.program = "schtasks", IF Has(s, {"/create", "/delete"}) THEN "deny" ELSE "ask")

\* The PowerShell policy; the first of its parts that objects decides.
LaunchPolicy(s) ==
  When(s.program = "pwsh",
       IF HandsPayload(s) THEN "deny" ELSE When("-File" \in s.words, "ask"))
ToolPolicy(s) ==
  CASE s.program \in {"schtasks", "netsh"} -> "deny"
    [] s.program = "route" -> IF "add" \in s.words THEN "deny" ELSE "ask"
    [] OTHER -> "clear"
IndirectPolicy(s) ==
  CASE s.program = "start-job" -> "deny"
    [] s.program = "curl" -> CurlTransfer(s)
    [] s.program = "new-object" -> IF "-ComObject" \in s.words THEN "deny" ELSE "ask"
    [] OTHER -> "clear"
RegistryWriters == {"set-itemproperty", "remove-itemproperty"}
\* To PowerShell rm is an alias of remove-item.
StatePolicy(s) ==
  CASE s.program \in RegistryWriters -> IF "HKLM:" \in s.words THEN "deny" ELSE "ask"
    [] s.program \in {"rm", "rm.exe", "remove-item"} -> When("cert:" \in s.words, "deny")
    [] s.program = "get-childitem" -> When("cert:" \in s.words, "ask")
    [] s.program = "new-psdrive" -> When("//share" \in s.words, "deny")
    [] OTHER -> "clear"
WebPolicy(s) == When(s.program = "invoke-webrequest" /\ "-Body" \in s.words, "deny")
PathPolicy(s) ==
  When(s.program \in {"copy-item", "cp", "mv"},
       IF "//share" \in Targets(s) THEN "deny"
       ELSE When(Has(s, {"*", "-Recurse"}), "ask"))
ScriptPolicy(s) ==
  CASE s.program = "x.ps1" -> IF "$x" \in s.words THEN "deny" ELSE "ask"
    [] OTHER -> When(s.program = "$x", "deny")
AskedCmdlets == {"nest", "invoke-webrequest", "get-aduser", "new-psdrive"}

PowerShellPolicy(s) ==
  FirstObjection(<<LaunchPolicy(s), ToolPolicy(s), IndirectPolicy(s), StatePolicy(s),
                   WebPolicy(s), PathPolicy(s), ScriptPolicy(s),
                   When(s.program \in AskedCmdlets, "ask")>>)
PolicyAppliesInBash(s) ==
  s.program \in {"pwsh", "schtasks", "netsh", "start-job", "new-object", "remove-item",
                 "copy-item", "invoke-webrequest", "get-aduser", "get-childitem",
                 "new-psdrive", "x.ps1"} \cup RegistryWriters

\* A program that is read by name skips the checks of the others.
Named(s, interpreter) ==
  CASE Prohibited(s) # "clear" -> "deny"
    [] CurlTransfer(s) # "clear" -> CurlTransfer(s)
    [] s.program \in Interpreters -> IF HandsPayload(s) THEN "deny" ELSE interpreter
    [] s.program \in DeletePrograms -> AnyDelete(s)
    [] OTHER -> "clear"
ReadByName(s) ==
  s.program \in {"ssh", "mkfs", "curl", "nest", "git"} \cup Interpreters \cup DeletePrograms

BashVerdict(s) ==
  LET policy == {Privilege(s), GithubRouting(s), Forge(s),
                 IF PolicyAppliesInBash(s) THEN PowerShellPolicy(s) ELSE "clear"}
      started == When("--version" \notin s.words, "ask")
  IN Strongest(
       IF s.program = "" THEN {Privilege(s), Truncation(s), TestWrite(s)}
       ELSE IF ReadByName(s) THEN policy \cup {Named(s, started)}
       ELSE policy \cup SharedChecks(s)
              \cup {EnvironmentAssignment(s), Profile(s), When(s.program = "$x", "ask")})

\* The policy reads the first word, which a prefix hides.
PowerShellVerdict(s) ==
  LET policy == {Privilege(s), GithubRouting(s), Forge(s), EnvironmentAssignment(s),
                 IF s.prefix = "none" THEN PowerShellPolicy(s) ELSE "clear"}
  IN Strongest(
       IF s.program = "" THEN {Privilege(s), TestWrite(s)}
       ELSE IF ReadByName(s) THEN policy \cup {Named(s, "clear")}
       ELSE policy \cup SharedChecks(s) \cup {Profile(s)})

\* CMD strips no prefix: the program is then the prefix itself. It does strip
\* the suffix of a program's file, which the other two gates keep.
CmdProgram(s) ==
  IF s.prefix # "none" THEN [s EXCEPT !.program = s.prefix]
  ELSE IF s.program = "rm.exe" THEN [s EXCEPT !.program = "rm"]
  ELSE s
\* Mutant of CmdNamed: a delete is read with the flags of its own shell only.
CmdNamedOwnDeletes(s) ==
  IF s.program \in DeletePrograms THEN CmdDelete(s) ELSE Named(s, "ask")
CmdNamed(s) ==
  CASE s.program \in {"schtasks", "nest"} /\ Prohibited(s) = "clear" ->
         IF s.program = "nest" THEN "deny" ELSE ScheduledTasks(s)
    [] s.program = "x.ps1" -> "ask"
    [] OTHER -> Named(s, "ask")
CmdVerdict(statement) ==
  LET s == CmdProgram(statement)
  IN IF s.program = ""
     THEN Stronger(Truncation(s), TestWrite(s))
     ELSE Strongest(SharedChecks(s) \cup {Privilege(s), CmdNamed(s), Forge(s),
                                          GithubRouting(s)})

Verdict(gate, s) ==
  CASE gate = "bash" -> BashVerdict(s)
    [] gate = "powershell" -> PowerShellVerdict(s)
    [] gate = "cmd" -> CmdVerdict(s)
=============================================================================
