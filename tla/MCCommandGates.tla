--------------------------- MODULE MCCommandGates ----------------------------
(* A catalogue of statements: at least one for every check of the gates. *)
EXTENDS CommandGate, TLC

Says(program, words) ==
  [NoStatement EXCEPT !.program = program, !.words = words]
Runs(program, sub, words) == [Says(program, words) EXCEPT !.sub = sub]
Into(s, target) == [s EXCEPT !.redirects = {target}]
Prefixed(prefix, s) == [s EXCEPT !.prefix = prefix]

Deletes == {Says("rm", {"-Force", "dir"}), Says("rm", {"/s", "dir"}),
            Says("remove-item", {"-rf", "/"}), Says("rd", {"/s", "/"}),
            Says("robocopy", {"/mir", "dir"}), Says("rm", {"-r", "/etc/*"}),
            Says("xcopy", {"/s", "hooks/h"}), Says("remove-item", {"cert:"}),
            Says("remove-itemproperty", {"dir"}), Says("rm.exe", {"-r", "/"})}
Singles == {Says("ls", {}), Says("nest", {}), Says("nest", {"$x"}), Says("$x", {}),
            Says("bash", {"--version"}), Says("schtasks", {"/create"}), Says("curl", {"-d"}),
            Says("copy-item", {"*", "hooks/h"}), Says("set-itemproperty", {"HKLM:"}),
            Says("invoke-webrequest", {"-Body"}), Says("x.ps1", {}),
            Runs("gh", "pr create", {}), Runs("wrapper", "pr create", {"--repo them/x"}),
            Into(Says("", {}), "dir"), Into(Says("cat", {"/dev/null"}), "tests/t"),
            Says("tee", {"hooks/h"}), Prefixed("sudo", Says("chmod", {"/"}))}
GitCalls == {Runs("git", "a", {"--hard"}), Runs("git", "status", {}),
             Runs("git", "push", {"--force"}), Runs("git", "", {}),
             Prefixed("sudo", Runs("git", "clean", {"-d"}))}
Catalogue == Deletes \cup Singles \cup GitCalls

\* Configurations in which every source defines an alias of every kind, hides
\* another source's definition, or holds a part of a chain of aliases.
Git(sub) == [kind |-> "git", sub |-> sub]
Shell(sub) == [kind |-> "shell", sub |-> sub]
Define(c, source, a, e) == [c EXCEPT ![source][a] = e]
Sources == DOMAIN NoConfiguration
OneAlias ==
  {Define(NoConfiguration, source, "a", e) : source \in Sources,
                                             e \in Expansions \ {NoAliases["a"]}}
SecondIn(source, other, a, e) == Define(Define(NoConfiguration, source, "a", Git("b")), other, a, e)
Chains ==
  {SecondIn(source, other, "b", e) : source \in Sources, other \in Sources,
     e \in {Git("a"), Git("c"), Git("status"), Git("push"), Shell("none"), Shell("push")}}
Hidden ==
  {Define(Define(NoConfiguration, source, "a", Git("status")), other, "a", Git("push")) :
     source \in Sources, other \in Sources}
LongChains ==
  {Define(SecondIn(source, source, "b", Git("c")), source, "c", e) :
     source \in Sources, e \in {Git("status"), Git("a")}}
FewAliases == OneAlias \cup Chains \cup Hidden \cup LongChains
=============================================================================
