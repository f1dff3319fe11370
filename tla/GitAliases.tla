----------------------------- MODULE GitAliases ------------------------------
(* The three readers of Git aliases in hooks/_gate_core.py, and Git itself.  *)
(* An alias stands for another subcommand or for shell text; shell text is   *)
(* told apart only by whether it starts git, and with which subcommand.      *)
(* Aliases are defined in several places, and no two of the four readers     *)
(* look in the same ones.                                                    *)
EXTENDS Naturals, FiniteSets

CONSTANTS AliasNames, MaxAliasDepth
ASSUME AliasDepthAssumption == MaxAliasDepth \in Nat \ {0}
\* The entries of a Git configuration.
ASSUME AliasNamesAssumption == IsFiniteSet(AliasNames)

Builtins == {"status", "push", "reset"}
Expansions ==
  [kind : {"git"}, sub : AliasNames \cup Builtins]
    \cup [kind : {"shell"}, sub : {"none", "push", "status"} \cup AliasNames]
    \cup [kind : {"undefined"}, sub : {"none"}]
AliasTables == [AliasNames -> Expansions]
NoAliases == [a \in AliasNames |-> [kind |-> "undefined", sub |-> "none"]]

\* Where an alias can be defined: in files of the user and the system and in
\* files that those or the repository include, in the repository's own
\* configuration, and on the command line or in the environment.
AllConfigurations ==
  [outside : AliasTables, repository : AliasTables, inline : AliasTables]
NoConfiguration ==
  [outside |-> NoAliases, repository |-> NoAliases, inline |-> NoAliases]
CONSTANT Configurations   \* the configurations that a run may meet
ASSUME ConfigurationsAssumption ==
  Configurations \subseteq AllConfigurations /\ NoConfiguration \notin Configurations

Override(under, over) ==
  [a \in AliasNames |-> IF over[a].kind = "undefined" THEN under[a] ELSE over[a]]
\* What Git goes by.
GitTable(c) == Override(Override(c.outside, c.repository), c.inline)
\* The branch gate lets Git list its configuration, with every file included.
BranchTable(c) == GitTable(c)
\* Mutant of LabelTable: the file is read after the settings on the command line.
LabelTableFileLast(c) == Override(c.inline, c.repository)
\* The identity gate reads the repository's file and what the command sets.
LabelTable(c) == Override(c.repository, c.inline)
\* A command gate reads the repository's file only.
CommandTable(c) == c.repository

Starts(sub) == sub \in AliasNames

\* What a reader has in hand: a subcommand and the aliases that led to it.
Readings == [sub : AliasNames \cup Builtins \cup {"none"}, visited : SUBSET AliasNames]
First(sub) == [sub |-> sub, visited |-> {}]
Follow(table, r) == [sub |-> table[r.sub].sub, visited |-> r.visited \cup {r.sub}]

\* Git replaces an alias until it meets a command of its own; it runs shell
\* text as it is, and refuses an alias that leads back to itself.
GitEnds(table) ==
  LET last[r \in Readings] ==
        IF ~Starts(r.sub) THEN [ends |-> "command", sub |-> r.sub]
        ELSE IF r.sub \in r.visited THEN [ends |-> "loop", sub |-> r.sub]
        ELSE IF table[r.sub].kind # "git"
             THEN [ends |-> table[r.sub].kind, sub |-> table[r.sub].sub]
        ELSE last[Follow(table, r)]
  IN last
GitRuns(table, first) == GitEnds(table)[First(first)]

-----------------------------------------------------------------------------
\* The two readers that look ahead also count the expansions behind them.
Counted == [reading : Readings, depth : 0..MaxAliasDepth]
FirstCounted(sub) == [reading |-> First(sub), depth |-> 0]
FollowCounted(table, c) ==
  [reading |-> Follow(table, c.reading), depth |-> c.depth + 1]

(* The label of the write a subcommand leads to, which the identity gate     *)
(* needs: "none" when it leads to no write, "error" when it cannot be told.  *)

\* Mutant of ShellLabel: shell text without a push in it counts as no write.
ShellLabelAsRead(label) == label
ShellLabel(label) == IF label = "none" THEN "error" ELSE label

WriteLabels(table) ==
  LET label[c \in Counted] ==
        LET sub == c.reading.sub
            next == FollowCounted(table, c)
        IN IF c.depth >= MaxAliasDepth THEN "error"
           ELSE IF sub = "push" THEN "push"
           ELSE IF sub \in c.reading.visited THEN "error"
           ELSE IF ~Starts(sub) \/ table[sub].kind = "undefined" THEN "none"
           ELSE IF table[sub].kind = "git" THEN label[next]
           ELSE IF table[sub].sub = "none" THEN "error"
           ELSE ShellLabel(label[next])
  IN label
WriteLabel(table, first) == WriteLabels(table)[FirstCounted(first)]

-----------------------------------------------------------------------------
(* The subcommand the branch gate takes for the effective one; "error" when  *)
(* the expansion is a cycle, opaque, undefined or too long.                  *)

\* Mutant of Expandable: shell text is taken for a subcommand.
ExpandableAnyKind(kind) == kind # "undefined"
Expandable(kind) == kind = "git"

BranchSubcommands(table) ==
  LET resolved[c \in Counted] ==
        LET sub == c.reading.sub
        IN IF c.depth >= MaxAliasDepth THEN "error"
           ELSE IF ~Starts(sub) THEN sub
           ELSE IF sub \in c.reading.visited \/ ~Expandable(table[sub].kind) THEN "error"
           ELSE resolved[FollowCounted(table, c)]
  IN resolved
BranchSubcommand(table, first) == BranchSubcommands(table)[FirstCounted(first)]
=============================================================================
