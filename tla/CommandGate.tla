----------------------------- MODULE CommandGate ------------------------------
(* One run of a command gate (hooks/block_destructive_bash.py, _cmd.py,      *)
(* _powershell.py): it reads the payload, parses the command, judges its     *)
(* statements one after the other, follows nested commands and Git aliases,  *)
(* and answers the client with a decision and an exit code. The statements   *)
(* are chosen as they are read.                                              *)
EXTENDS CommandVerdicts, GitAliases, Sequences

CONSTANTS Statements,     \* the statements a command is made of
          MaxStatements,  \* bound: statements read in one run
          MaxDepth,       \* MAX_COMMAND_DEPTH, smaller here
          RecursionLimit  \* calls of git_verdict before Python gives up
ASSUME DepthAssumption == MaxDepth \in Nat /\ RecursionLimit \in Nat \ {0}
ASSUME StatementsAssumption ==
  Statements \subseteq [program : STRING, sub : STRING, words : SUBSET STRING,
                        redirects : SUBSET STRING, prefix : STRING]
\* An alias has a name that can be read.
ASSUME NamedAliases == AliasNames \cap {"", "$x"} = {}

VARIABLES gate,       \* which of the three gates runs
          at,         \* where the run is
          frames,     \* one record per command that is being classified
          statement,  \* the statement being judged
          calls,      \* recursive calls of git_verdict for this statement
          config,     \* Git's configuration; chosen once a run meets an alias
          runsProgram, \* "unread", or whether Git's configuration names a
                       \* program that a read runs
          told, exit, \* the decision printed and the exit code
          attended,   \* permission_mode, read last, is one of INTERACTIVE_MODES
          past,       \* history: the statements read, with where they stood
          lost,       \* history: those whose verdict a parse failure replaced
          unread      \* history: some command could not be parsed

gateVars == <<gate, at, frames, statement, calls, config, runsProgram, told,
              exit, attended, past, lost, unread>>

Gates == {"bash", "powershell", "cmd"}
NoStatement == [program |-> "", sub |-> "", words |-> {}, redirects |-> {}, prefix |-> "none"]
NewFrame == [verdict |-> "clear", previous |-> "none", first |-> Len(past)]
Top == frames[Len(frames)]
Depth == Len(frames) - 1
GateAt(place) == at' = place

\* Mutant of MayNest: one level more than the limit.
MayNestOnce == Depth <= MaxDepth
MayNest == Depth < MaxDepth

\* Mutant of MayRecurse: the bound of the other alias readers, as an error.
MayRecurseShortly == calls < MaxAliasDepth - 1
MayRecurse == calls < RecursionLimit

\* Mutant of NextCall: a loop in the place of the recursion.
SameCall == calls
NextCall == calls + 1

\* Keywords that make an unparseable command one the gate has to stop.
GatedPrograms ==
  {"rm", "git", "dd", "mkfs", "cipher", "sdelete", "vssadmin", "systemctl", "find",
   "rd", "del", "gh", "glab", "mv", "chmod", "cat", "tee", "alias", "kill"}
    \cup IF gate = "powershell" THEN DeletePrograms ELSE {}
InputExecutors == {"bash", "pwsh"}
RemoteExecution(shell, previous, s) ==
  When(previous # "none" /\ s.program \in InputExecutors /\ shell # "cmd", "deny")

GateInit ==
  /\ gate \in Gates /\ at = "payload" /\ frames = <<>> /\ statement = NoStatement
  /\ calls = 0 /\ config = NoConfiguration
  /\ runsProgram = "unread" /\ told = "nothing" /\ exit = "none"
  /\ attended = FALSE /\ past = <<>> /\ lost = {} /\ unread = "no"

-----------------------------------------------------------------------------
\* Mutant of Told: asks in a session where nobody can answer.
ToldAsDecided(verdict, person) == IF verdict = "clear" THEN "nothing" ELSE verdict
Told(verdict, person) ==
  CASE verdict = "clear" -> "nothing"
    [] verdict = "ask" /\ ~person -> "deny"
    [] OTHER -> verdict

Answer(decision) ==
  /\ told' = decision
  /\ exit' = IF decision = "deny" THEN "block" ELSE "ok"
  /\ GateAt("ended")

\* Mutant of Merge: the first objection is kept.
MergeFirst(verdict) ==
  frames' = [frames EXCEPT ![Len(frames)].verdict = IF @ = "clear" THEN verdict ELSE @]

\* Merge a verdict into the command at the top of the stack.
Merge(verdict) ==
  frames' = [frames EXCEPT ![Len(frames)].verdict = Stronger(@, verdict)]

ReadPayload ==
  /\ at = "payload"
  /\ \/ Answer("deny") /\ UNCHANGED frames        \* unreadable or malformed
     \/ Answer("nothing") /\ UNCHANGED frames     \* another tool's call
     \/ GateAt("open") /\ frames' = <<NewFrame>> /\ UNCHANGED <<told, exit>>
  /\ UNCHANGED <<gate, statement, calls, config, runsProgram, attended, past, lost, unread>>

\* Mutant of UnparsedVerdict: only a root or a wiping program counts.
UnparsedRoots(gated, wipes) == IF gated /\ wipes THEN "deny" ELSE "clear"
UnparsedVerdict(gated, wipes) ==
  IF ~gated THEN "clear" ELSE IF wipes THEN "deny" ELSE "ask"

NamesGated(s) == s.program \in GatedPrograms
NamesWipe(s) == s.program \in {"dd", "mkfs", "cipher"} \/ "/" \in s.words

\* The command could not be tokenized; all of its text is searched for the
\* name of a gated program, and then for a root or a wiping program. What is
\* found takes the place of the verdict on the lines that could be read.
Unparsed ==
  LET before == (Top.first + 1)..Len(past)
  IN \E named, wipes \in BOOLEAN :
       LET gated == named \/ \E i \in before : NamesGated(past[i].statement)
           wiping == wipes \/ \E i \in before : NamesWipe(past[i].statement)
       IN /\ frames' = [frames EXCEPT ![Len(frames)].verdict =
                           UnparsedVerdict(gated, wiping)]
          /\ unread' = IF gated THEN "gated" ELSE "harmless"
          /\ lost' = lost \cup before
          /\ GateAt("close")

\* Bash tokenizes every line first, CMD scans the text once.
OpenCommand ==
  /\ at = "open"
  /\ \/ GateAt("read") /\ UNCHANGED <<frames, lost, unread>>
     \/ gate = "bash" /\ Unparsed
     \/ /\ gate = "cmd"
        /\ Merge("deny") /\ unread' = "gated" /\ UNCHANGED lost /\ GateAt("close")
  /\ UNCHANGED <<gate, statement, calls, config, runsProgram, told, exit, attended, past>>

\* PowerShell's commands are tokenized line by line.
ReadNextLine ==
  /\ at = "read" /\ gate = "powershell"
  /\ \/ /\ Top.previous # "none"
        /\ frames' = [frames EXCEPT ![Len(frames)].previous = "none"]
        /\ UNCHANGED <<at, lost, unread>>
     \/ Unparsed
  /\ UNCHANGED <<gate, statement, calls, config, runsProgram, told, exit, attended, past>>

ReadStatement ==
  /\ at = "read" /\ Len(past) < MaxStatements
  /\ \E s \in Statements :
       /\ statement' = s
       /\ past' = Append(past, [statement |-> s, depth |-> Depth, after |-> Top.previous])
       /\ frames' = [frames EXCEPT
            ![Len(frames)].verdict = Stronger(@, RemoteExecution(gate, Top.previous, s)),
            ![Len(frames)].previous = s.program]
  /\ calls' = 0 /\ GateAt("judge")
  /\ UNCHANGED <<gate, config, runsProgram, told, exit, attended, lost, unread>>

EndCommand ==
  /\ at = "read" /\ GateAt("close")
  /\ UNCHANGED <<gate, frames, statement, calls, config, runsProgram, told, exit,
                 attended, past, lost, unread>>

\* CMD stops at the first denied segment.
AfterStatement(verdict) ==
  IF gate = "cmd" /\ Stronger(Top.verdict, verdict) = "deny" THEN "close" ELSE "read"

RunsGit == statement.program = "git" /\ (gate = "cmd" => statement.prefix = "none")
Nests == statement.program = "nest" /\ gate # "cmd"
\* Bash does not follow an eval whose words it cannot read.
Opaque == gate = "bash" /\ "$x" \in statement.words

JudgeStatement ==
  /\ at = "judge"
  /\ LET own == Verdict(gate, statement)
     IN \/ /\ Nests /\ Opaque
           /\ Merge(Stronger(own, "ask")) /\ GateAt("read")
        \/ /\ Nests /\ ~Opaque /\ ~MayNest
           /\ Merge("deny") /\ GateAt("read")
        \/ /\ Nests /\ ~Opaque /\ MayNest
           /\ frames' = Append([frames EXCEPT ![Len(frames)].verdict = Stronger(@, own)], NewFrame)
           /\ GateAt("open")
        \/ RunsGit /\ Merge(own) /\ GateAt("git")
        \/ ~Nests /\ ~RunsGit /\ Merge(own) /\ GateAt(AfterStatement(own))
  /\ calls' = IF RunsGit THEN 1 ELSE calls
  /\ UNCHANGED <<gate, statement, config, runsProgram, told, exit, attended, past, lost,
                 unread>>

\* git_verdict for a subcommand that Git defines or that cannot be read.
JudgeGit ==
  /\ at = "git" /\ statement.sub \notin AliasNames
  /\ runsProgram' \in IF statement.sub \in ReadSubcommands /\ runsProgram = "unread"
                      THEN {"yes", "no"} ELSE {runsProgram}
  /\ LET verdict == IF statement.sub \in {"", "$x"} THEN "ask"
                    ELSE KnownGit(statement, runsProgram' = "yes")
     IN Merge(verdict) /\ GateAt(AfterStatement(verdict))
  /\ UNCHANGED <<gate, statement, calls, config, told, exit, attended, past, lost, unread>>

\* The alias is looked up in the configuration, which is chosen when the run
\* needs it first; it is not edited while the gate runs.
LookUpAlias ==
  /\ at = "git" /\ statement.sub \in AliasNames
  /\ config' \in IF config = NoConfiguration THEN Configurations ELSE {config}
  /\ GateAt("alias")
  /\ UNCHANGED <<gate, frames, statement, calls, runsProgram, told, exit, attended, past,
                 lost, unread>>

\* The expansion is judged by a further call of git_verdict, whether or not it
\* starts with an alias again.
ExpandAlias ==
  /\ at = "alias"
  /\ LET expansion == CommandTable(config)[statement.sub]
     IN \/ /\ expansion.kind # "git"
           /\ Merge("ask") /\ GateAt(AfterStatement("ask"))
           /\ UNCHANGED <<statement, calls, exit>>
        \/ /\ expansion.kind = "git" /\ MayRecurse
           /\ statement' = [statement EXCEPT !.sub = expansion.sub]
           /\ calls' = NextCall /\ GateAt("git") /\ UNCHANGED <<frames, exit>>
        \/ \* RecursionError leaves the program: no decision is printed.
           /\ expansion.kind = "git" /\ ~MayRecurse
           /\ exit' = "error" /\ GateAt("ended") /\ UNCHANGED <<frames, statement, calls>>
  /\ UNCHANGED <<gate, config, runsProgram, told, attended, past, lost, unread>>

CloseCommand ==
  /\ at = "close"
  /\ IF Depth = 0 THEN GateAt("decide") /\ UNCHANGED frames
     ELSE /\ frames' = [SubSeq(frames, 1, Depth) EXCEPT ![Depth].verdict = Stronger(@, Top.verdict)]
          /\ GateAt("read")
  /\ UNCHANGED <<gate, statement, calls, config, runsProgram, told, exit, attended,
                 past, lost, unread>>

\* An ask that nobody can answer becomes a deny.
Decide ==
  /\ at = "decide"
  /\ attended' \in BOOLEAN
  /\ Answer(Told(Top.verdict, attended'))
  /\ UNCHANGED <<gate, frames, statement, calls, config, runsProgram, past, lost, unread>>

GateNext ==
  \/ ReadPayload \/ OpenCommand \/ ReadNextLine \/ ReadStatement \/ EndCommand
  \/ JudgeStatement \/ JudgeGit \/ LookUpAlias \/ ExpandAlias \/ CloseCommand \/ Decide

GateSpec == GateInit /\ [][GateNext]_gateVars /\ WF_gateVars(GateNext)

-----------------------------------------------------------------------------
(* Properties. *)

\* The run is in one of its places; only an answered run has an exit code, and
\* the stack of commands is never deeper than the limit of the inspection.
GateTypeOK ==
  /\ gate \in Gates
  /\ at \in {"payload", "open", "read", "judge", "git", "alias", "close", "decide", "ended"}
  /\ Len(frames) <= MaxDepth + 1
  /\ \A i \in DOMAIN frames : frames[i].verdict \in Verdicts
  /\ \/ statement \in Statements \cup {NoStatement}
     \/ \E s \in Statements, sub \in AliasNames \cup Builtins :
          statement = [s EXCEPT !.sub = sub]
  /\ calls \in 0..RecursionLimit /\ config \in Configurations \cup {NoConfiguration}
  /\ runsProgram \in {"unread", "yes", "no"}
  /\ told \in {"nothing", "ask", "deny"} /\ exit \in {"none", "ok", "block", "error"}
  /\ (at = "ended") <=> (exit # "none")

\* What a statement that was read deserves by itself, whatever stood around
\* it: its own verdict, that of the subcommand Git really runs, the pipe it
\* ends, and a nesting that is too deep.
DeservedIn(shell, c, runs, entry) ==
  LET s == entry.statement
      git == GitRuns(CommandTable(c), s.sub)
      ofGit == IF s.program # "git" \/ (shell = "cmd" /\ s.prefix # "none") THEN "clear"
               ELSE IF s.sub \in {"", "$x"} THEN "ask"
               ELSE IF s.sub \notin AliasNames THEN KnownGit(s, runs = "yes")
               ELSE IF git.ends = "command"
                    THEN KnownGit([s EXCEPT !.sub = git.sub], runs = "yes")
               ELSE "ask"
      ofNesting == IF s.program # "nest" \/ shell = "cmd" THEN "clear"
                   ELSE IF shell = "bash" /\ "$x" \in s.words THEN "ask"
                   ELSE When(entry.depth >= MaxDepth, "deny")
  IN Strongest({Verdict(shell, s), ofGit, ofNesting,
                RemoteExecution(shell, entry.after, s)})
Deserved(entry) == DeservedIn(gate, config, runsProgram, entry)

\* What is left of it when a later line of its command could not be parsed and
\* the search of the text took the place of its verdict: nothing, unless its
\* program is one of those that are searched for.
Remains(s) == IF ~NamesGated(s) THEN "clear" ELSE IF NamesWipe(s) THEN "deny" ELSE "ask"
Voice(i) == IF i \in lost THEN Remains(past[i].statement) ELSE Deserved(past[i])

\* No statement outvotes another: the answer is at least as strong as what the
\* worst statement deserves, or as what a parse failure has left of it, at
\* whatever depth of nesting it stands and however many aliases lead to it; and
\* when all could be read, nothing is asked or refused without a statement that
\* deserves it.
StrongestStatementDecides ==
  at = "decide" /\ Depth = 0 =>
    /\ \A i \in DOMAIN past : Strength[Voice(i)] <= Strength[Top.verdict]
    /\ unread = "no" =>
         Top.verdict = Strongest({"clear"} \cup {Deserved(past[i]) : i \in DOMAIN past})

\* A command that cannot be parsed and names a gated program anywhere, also in
\* a line that could be read, is never let through.
UnreadFailsClosed ==
  exit \in {"ok", "block"} /\ unread = "gated" => told # "nothing"

\* A prompt appears only where somebody can answer it, and the exit code that
\* clients without JSON look at says the same as the printed decision.
AskNeedsPerson ==
  at = "ended" =>
    /\ told = "ask" => attended
    /\ (exit = "block") <=> (told = "deny")
    /\ told = "nothing" /\ exit = "ok" /\ frames # <<>> => Top.verdict = "clear"

\* Words and programs that one gate checks in a delete and another does not:
\* CMD alone reads a delete past the checks of the other programs, and the
\* policy for PowerShell is not part of the CMD gate.
ReadByOneGate(s) ==
  \/ s.redirects # {} \/ s.program = "remove-itemproperty"
  \/ Has(s, {"/etc/*", "main.tf", "cert:"})
  \/ s.program \in {"robocopy", "xcopy"} /\ Has(s, {"hooks/h", "tests/t"})

\* No gate reads a delete more kindly than the flags of any of the three shells
\* allow, and apart from those cases the gates answer it alike, whichever shell
\* its program and its flags were borrowed from.
DeletesAgree ==
  \A i \in DOMAIN past :
    LET s == past[i].statement
    IN s.program \in DeletePrograms /\ s.prefix = "none" =>
         \A other \in Gates :
           /\ Strength[AnyDelete(s)] <= Strength[Verdict(other, s)]
           /\ ~ReadByOneGate(s) => Verdict(other, s) = AnyDelete(s)

\* The decision follows from all that was read, and no gate reads a delete
\* more kindly than another.
VerdictsDecide == StrongestStatementDecides /\ DeletesAgree

\* What cannot be read, and what nobody can answer, is refused.
FailsClosed == GateTypeOK /\ UnreadFailsClosed /\ AskNeedsPerson

\* A run without an answer has met a chain of aliases that is as long as the
\* recursion may be deep: one that leads back to itself, or just a long one.
CrashMeansLongChain ==
  exit = "error" =>
    \E chain \in [1..RecursionLimit -> AliasNames] :
      \A i \in 1..RecursionLimit :
        /\ CommandTable(config)[chain[i]].kind = "git"
        /\ i < RecursionLimit => CommandTable(config)[chain[i]].sub = chain[i + 1]

\* When the identity gate's reader passes an alias as no write, Git runs a
\* command that is no push, with all the configuration it reads; the one
\* exception is an alias that no source of that reader defines.
NoHiddenWrite ==
  \A a \in AliasNames :
    LET seen == GitRuns(LabelTable(config), a)
    IN WriteLabel(LabelTable(config), a) = "none" /\ seen.ends # "undefined" =>
         /\ seen.ends = "command" /\ seen.sub # "push"
         /\ GitRuns(GitTable(config), a) = seen

\* When the branch gate's reader resolves an alias, Git resolves it likewise.
BranchReadsAsGit ==
  \A a \in AliasNames :
    LET found == BranchSubcommand(BranchTable(config), a)
    IN found # "error" =>
         GitRuns(GitTable(config), a) = [ends |-> "command", sub |-> found]

\* The command that a command gate finds behind an alias is the one Git runs,
\* unless the command line or the environment sets an alias as well.
CommandReadsAsGit ==
  \A a \in AliasNames :
    LET found == GitRuns(CommandTable(config), a)
    IN config.inline = NoAliases /\ found.ends = "command" =>
         GitRuns(GitTable(config), a) = found

\* Where a reader of aliases settles on an answer Git does the same, although it
\* reads more sources than the reader.
AliasesReadAsGit == NoHiddenWrite /\ BranchReadsAsGit /\ CommandReadsAsGit

\* Every run ends: with an answer, or with a crash that only a chain of aliases
\* of that length explains.
GateAnswers == <>(at = "ended" /\ CrashMeansLongChain)
=============================================================================
