----------------------------- MODULE ConflictScan -----------------------------
(***************************************************************************)
(* The driver of scripts/check_conflict_markers.py: which contents are     *)
(* checked in the modes --staged, --all and --tree, and which exit status  *)
(* follows.  The checker asks git for lists and attributes and the file    *)
(* system for files, one after the other, while the working tree changes.  *)
(*                                                                         *)
(* A content is "clean"; "marked", with markers of git's width; "narrow",  *)
(* with markers only of the width .gitattributes sets; or "bad", when it   *)
(* cannot be read or is too large.  A working tree path can also be        *)
(* "absent" or "odd": a link, a directory, or another irregular file.      *)
(***************************************************************************)
EXTENDS Naturals, FiniteSets

CONSTANTS
  Paths,          \* paths of the index or the tree
  Contents,       \* contents of blobs
  MaxEdits,       \* bound on edits during a check
  ViolationLimit  \* MAX_VIOLATIONS

ASSUME ConflictAssumption ==
  /\ IsFiniteSet(Paths)
  /\ Contents \subseteq {"clean", "marked", "narrow", "bad"}
  /\ MaxEdits \in Nat
  /\ ViolationLimit \in Nat \ {0}

VARIABLES
  mode,      \* the mode of the command line
  entries,   \* the index, or the tree: kind and blob of each path
  files,     \* the working tree
  sparse,    \* paths marked skip-worktree
  phase,     \* where the check stands
  skipped,   \* the paths it was told are skip-worktree
  present,   \* the paths whose working tree attributes it asked for
  todo,      \* readable paths not yet checked
  found,     \* number of violations
  status,    \* the exit status, or "none"
  edited,    \* history: the paths touched during the check
  gitFailed  \* history: a git command or an answer of it failed

conflictVars == <<mode, entries, files, sparse, phase, skipped, present, todo,
                  found, status, edited, gitFailed>>

Modes == {"staged", "all", "tree"}
Entries == [kind : {"regular"}, blob : Contents]
             \cup [kind : {"link", "unmerged"}, blob : {"clean"}]
FileStates == Contents \cup {"absent", "odd"}

Unmerged == {p \in Paths : entries[p].kind = "unmerged"}
Readable == {p \in Paths : entries[p].kind = "regular"}

\* What a check of this content adds: a finding or a read error.
Findings(content, configured) ==
  IF content \in {"marked", "bad"} \/ (content = "narrow" /\ configured)
    THEN 1 ELSE 0

ConflictInit ==
  /\ mode \in Modes
  /\ entries \in [Paths -> Entries]
  /\ mode = "tree" => Unmerged = {}
  /\ files \in [Paths -> FileStates]
  /\ mode # "all" => files = [p \in Paths |-> "absent"]
  /\ sparse \in SUBSET Readable
  /\ mode # "all" => sparse = {}
  /\ phase = "list"
  /\ skipped = {}
  /\ present = {}
  /\ todo = {}
  /\ found = 0
  /\ status = "none"
  /\ edited = {}
  /\ gitFailed = FALSE

Repository == <<mode, entries, files, sparse, edited>>

\* _report and the handler in main.
Exit(code) ==
  /\ phase' = "ended"
  /\ status' = code

Goto(next) ==
  /\ phase' = next
  /\ UNCHANGED status

-----------------------------------------------------------------------------
(* The checker *)

\* Mutant of GitFails: without attributes the markers have git's width.
AssumeNoAttributes ==
  /\ phase = "attributes"
  /\ gitFailed' = TRUE
  /\ Goto("check")
  /\ UNCHANGED <<Repository, skipped, present, todo, found>>

\* A git command, or an answer of it that the strict parsers of --tree
\* refuse: RuntimeError up to main, and in --staged an error to report.
GitFails ==
  /\ phase \in {"list", "skipped", "attributes"}
  /\ gitFailed' = TRUE
  /\ Exit("fail")
  /\ UNCHANGED <<Repository, skipped, present, todo, found>>

\* git ls-files -s, or ls-tree of a validated commit or tree.  Unmerged
\* entries are violations already.
ListEntries ==
  /\ phase = "list"
  /\ todo' = Readable
  /\ found' = Cardinality(Unmerged)
  /\ Goto(IF mode = "all" THEN "skipped" ELSE "attributes")
  /\ UNCHANGED <<Repository, skipped, present, gitFailed>>

\* git ls-files -v.
ListSkipped ==
  /\ phase = "skipped"
  /\ skipped' = sparse
  /\ Goto("present")
  /\ UNCHANGED <<Repository, present, todo, found, gitFailed>>

\* The lexists test of every readable path.
ListPresent ==
  /\ phase = "present"
  /\ present' = {p \in todo : files[p] # "absent"}
  /\ Goto("attributes")
  /\ UNCHANGED <<Repository, skipped, todo, found, gitFailed>>

\* git check-attr, from the working tree for the present files, from the
\* index or the isolated index of the tree for blobs.
ReadAttributes ==
  /\ phase = "attributes"
  /\ Goto("check")
  /\ UNCHANGED <<Repository, skipped, present, todo, found, gitFailed>>

\* Mutant of CheckBlob: a blob that cannot be read has no markers to find.
CheckReadableBlob(p) ==
  /\ mode # "all" \/ (p \in skipped /\ files[p] = "absent")
  /\ found' = found + (IF entries[p].blob = "bad" THEN 0
                       ELSE Findings(entries[p].blob, TRUE))

\* The blob of a staged entry, of a tree entry, or of a skip-worktree path
\* without a file.
CheckBlob(p) ==
  /\ mode # "all" \/ (p \in skipped /\ files[p] = "absent")
  /\ found' = found + Findings(entries[p].blob, TRUE)

\* A file that is neither there nor skip-worktree is passed over.
PassOver(p) ==
  /\ mode = "all"
  /\ p \notin skipped
  /\ files[p] = "absent"
  /\ UNCHANGED found

\* Mutant of CheckWorktreeFile: skip-worktree paths are left out, as sparse
\* checkouts have no file for them.
CheckUnskippedFile(p) ==
  /\ mode = "all"
  /\ files[p] # "absent"
  /\ found' = found + (IF p \in skipped THEN 0
                       ELSE Findings(files[p], p \in present))

\* A file of the working tree, whatever the index says of it; irregular ones
\* have no findings.  Attributes are known if it was there when they were read.
CheckWorktreeFile(p) ==
  /\ mode = "all"
  /\ files[p] # "absent"
  /\ found' = found + Findings(files[p], p \in present)

\* A file that was touched went away between lexists and open: a read error.
FileVanishes(p) ==
  /\ mode = "all"
  /\ files[p] = "absent"
  /\ p \in edited
  /\ found' = found + 1

StopAtFileLimit ==
  /\ phase = "check"
  /\ todo # {}
  /\ found >= ViolationLimit
  /\ todo' = {}
  /\ found' = found + 1
  /\ Goto("check")
  /\ UNCHANGED <<Repository, skipped, present, gitFailed>>

CheckNext ==
  /\ phase = "check"
  /\ found < ViolationLimit
  /\ \E p \in todo :
       /\ todo' = todo \ {p}
       /\ CheckBlob(p) \/ PassOver(p) \/ CheckWorktreeFile(p) \/ FileVanishes(p)
  /\ Goto("check")
  /\ UNCHANGED <<Repository, skipped, present, gitFailed>>

ReportFindings ==
  /\ phase = "check"
  /\ todo = {}
  /\ Exit(IF found > 0 THEN "fail" ELSE "pass")
  /\ UNCHANGED <<Repository, skipped, present, todo, found, gitFailed>>

-----------------------------------------------------------------------------
(* Others *)

Checker == <<mode, entries, phase, skipped, present, todo, found, status,
             gitFailed>>

\* An editor, a merge or a checkout changes a file of the working tree.
EditFile ==
  /\ phase # "ended"
  /\ mode = "all"
  /\ Cardinality(edited) < MaxEdits
  /\ \E p \in Readable \ edited, state \in FileStates :
       /\ state # files[p]
       /\ files' = [files EXCEPT ![p] = state]
       /\ edited' = edited \cup {p}
  /\ UNCHANGED <<Checker, sparse>>

\* git sparse-checkout takes a path in or out.
ChangeSparse ==
  /\ phase # "ended"
  /\ mode = "all"
  /\ Cardinality(edited) < MaxEdits
  /\ \E p \in Readable \ edited :
       /\ IF p \in sparse
            THEN /\ sparse' = sparse \ {p}
                 /\ files' = [files EXCEPT ![p] = entries[p].blob]
            ELSE /\ sparse' = sparse \cup {p}
                 /\ files' = [files EXCEPT ![p] = "absent"]
       /\ edited' = edited \cup {p}
  /\ UNCHANGED Checker

-----------------------------------------------------------------------------
(* Specification *)

CheckStep ==
  \/ ListEntries \/ ListSkipped \/ ListPresent \/ ReadAttributes
  \/ StopAtFileLimit \/ CheckNext \/ ReportFindings

ConflictNext == CheckStep \/ GitFails \/ EditFile \/ ChangeSparse

ConflictSpec == ConflictInit /\ [][ConflictNext]_conflictVars

-----------------------------------------------------------------------------
(* Properties *)

\* Types of the variables.
ConflictTypeOK ==
  /\ mode \in Modes
  /\ entries \in [Paths -> Entries]
  /\ files \in [Paths -> FileStates]
  /\ sparse \subseteq Paths
  /\ phase \in {"list", "skipped", "present", "attributes", "check", "ended"}
  /\ skipped \subseteq Paths
  /\ present \subseteq Paths
  /\ todo \subseteq Readable
  /\ found \in Nat
  /\ status \in {"none", "pass", "fail"}
  /\ edited \subseteq Paths
  /\ gitFailed \in BOOLEAN

\* What a path that nobody touched shows: its file, or the blob that stands
\* for it where a sparse checkout has none.
ShownBad(p) ==
  IF files[p] # "absent" THEN files[p] \in {"marked", "narrow", "bad"}
  ELSE p \in sparse /\ entries[p].blob \in {"marked", "narrow", "bad"}

\* --all passes only if every path that was left alone during the check is
\* clean, although the lists, the existence tests, the attributes and the
\* files are read at five different moments.
PassMeansUntouchedClean ==
  mode = "all" /\ status = "pass" =>
    /\ Unmerged = {}
    /\ \A p \in Readable \ edited : ~ShownBad(p)

\* --staged and --tree decide by the snapshot alone: they fail exactly when git
\* failed or some regular blob or merge state of it is bad.
SnapshotDecides ==
  mode # "all" /\ status # "none" =>
    (status = "fail" <=>
       \/ gitFailed
       \/ Unmerged # {}
       \/ \E p \in Readable : entries[p].blob # "clean")

\* A failure of git is never taken for a clean tree.
GitFailureFails == gitFailed => status = "fail"

\* The exit status says what was there to be seen, in each of the modes.
StatusIsEarned ==
  ConflictTypeOK /\ PassMeansUntouchedClean /\ SnapshotDecides /\ GitFailureFails
=============================================================================
