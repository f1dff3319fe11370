------------------------ MODULE RepositoryChecksProofs ------------------------
(***************************************************************************)
(* Proofs about the checkers of the repository that keep no common state:  *)
(* the driver and the scan of the conflict marker checker, the trusted gh  *)
(* wrapper, the Git state reader and the scan of a compliance tree.        *)
(***************************************************************************)
EXTENDS MarkerScan, ConflictScan, TrustedGh, GitStateReader, ComplianceScan,
        FiniteSetTheorems, SequenceTheorems, WellFoundedInduction, TLAPS

-----------------------------------------------------------------------------
(* The conflict marker checker *)

\* What a finding of nothing says of a path: a path of the working tree shows
\* nothing bad unless somebody touched it, a blob of a snapshot is clean.
ShownClean(p) ==
  IF mode = "all" THEN p \in edited \/ ~ShownBad(p)
  ELSE entries[p].blob = "clean"

\* The lists still hold for the paths nobody touched since they were read.
ListsHold ==
  mode = "all" =>
    \A p \in Readable \ edited :
      /\ phase \in {"present", "attributes", "check"} =>
           (p \in skipped <=> p \in sparse)
      /\ phase \in {"attributes", "check"} =>
           (p \in present <=> files[p] # "absent")

\* The number of violations tells what the paths checked so far show.
CountTells ==
  phase \notin {"list", "ended"} =>
    /\ Unmerged # {} => found > 0
    /\ mode # "all" /\ found > 0 =>
         Unmerged # {} \/ \E p \in Readable : entries[p].blob # "clean"
    /\ found = 0 => \A p \in Readable \ todo : ShownClean(p)

\* The inductive invariant behind StatusIsEarned.
ConflictInv ==
  /\ ConflictTypeOK
  /\ status = "none" <=> phase # "ended"
  /\ phase \in {"skipped", "present", "attributes"} => todo = Readable
  /\ ListsHold
  /\ CountTells
  /\ PassMeansUntouchedClean
  /\ SnapshotDecides
  /\ GitFailureFails

\* A set of paths is counted by a natural number, zero for the empty set only:
\* no unmerged entry goes uncounted (check_conflict_markers.py, _list_staged).
LEMMA UnmergedCounted ==
  ASSUME entries \in [Paths -> Entries]
  PROVE  /\ Cardinality(Unmerged) \in Nat
         /\ Unmerged # {} <=> Cardinality(Unmerged) > 0
<1>1. Unmerged \subseteq Paths /\ IsFiniteSet(Paths)
  BY ConflictAssumption DEF Unmerged
<1>2. IsFiniteSet(Unmerged)
  BY <1>1, FS_Subset
<1> QED
  BY <1>2, FS_CardinalityType, FS_EmptySet

\* The regular entries have a blob of the contents there are.
LEMMA ReadableBlob ==
  ASSUME entries \in [Paths -> Entries], NEW p \in Readable
  PROVE  p \in Paths /\ entries[p].blob \in Contents
BY DEF Readable, Entries

\* Initially nothing was read and nothing is claimed.
LEMMA ConflictStart ==
  ASSUME ConflictInit
  PROVE  ConflictInv
<1>1. ConflictTypeOK
  BY DEF ConflictInit, ConflictTypeOK, Modes, Readable
<1>2. ListsHold /\ CountTells
  BY DEF ConflictInit, ListsHold, CountTells
<1>3. PassMeansUntouchedClean /\ SnapshotDecides /\ GitFailureFails
  BY DEF ConflictInit, PassMeansUntouchedClean, SnapshotDecides, GitFailureFails
<1> QED
  BY <1>1, <1>2, <1>3 DEF ConflictInv, ConflictInit

\* A failure of git ends the check with a failure (main's handler).
LEMMA GitFailureStep ==
  ASSUME ConflictInv, GitFails
  PROVE  ConflictInv'
<1> USE DEF ConflictInv, GitFails, Exit, Repository
<1>1. ConflictTypeOK'
  BY DEF ConflictTypeOK, Readable
<1>2. ListsHold' /\ CountTells'
  BY DEF ListsHold, CountTells
<1>3. PassMeansUntouchedClean' /\ SnapshotDecides' /\ GitFailureFails'
  BY DEF PassMeansUntouchedClean, SnapshotDecides, GitFailureFails
<1> QED
  BY <1>1, <1>2, <1>3

\* The list counts the unmerged entries and leaves the regular ones to do.
LEMMA ListStep ==
  ASSUME ConflictInv, ListEntries
  PROVE  ConflictInv'
<1> USE DEF ConflictInv, ListEntries, Goto, Repository
<1>1. entries \in [Paths -> Entries]
  BY DEF ConflictTypeOK
<1>2. Unmerged' = Unmerged /\ Readable' = Readable
  BY DEF Unmerged, Readable
<1>3. ConflictTypeOK'
  BY <1>1, <1>2, UnmergedCounted DEF ConflictTypeOK
<1>4. ListsHold'
  BY <1>2 DEF ListsHold
<1>5. CountTells'
  BY <1>1, <1>2, UnmergedCounted DEF CountTells
<1>6. PassMeansUntouchedClean' /\ SnapshotDecides' /\ GitFailureFails'
  BY DEF PassMeansUntouchedClean, SnapshotDecides, GitFailureFails
<1>7. phase' \in {"skipped", "attributes"} /\ status' = "none" /\ todo' = Readable'
  BY <1>2
<1> QED
  BY <1>3, <1>4, <1>5, <1>6, <1>7

\* The lists of --all are right for every path that nobody touches from here
\* on, and the attributes change nothing.
LEMMA ListsStep ==
  ASSUME ConflictInv, ListSkipped \/ ListPresent \/ ReadAttributes
  PROVE  ConflictInv'
<1> USE DEF ConflictInv, ListSkipped, ListPresent, ReadAttributes, Goto, Repository
<1>1. Unmerged' = Unmerged /\ Readable' = Readable
  BY DEF Unmerged, Readable
<1>2. ConflictTypeOK'
  <2>1. todo \subseteq Paths
    BY DEF ConflictTypeOK, Readable
  <2> QED
    BY <2>1, <1>1 DEF ConflictTypeOK
<1>3. ListsHold'
  BY <1>1 DEF ListsHold
<1>4. CountTells'
  BY <1>1 DEF CountTells, ShownClean, ShownBad
<1>5. PassMeansUntouchedClean' /\ SnapshotDecides' /\ GitFailureFails'
  BY DEF PassMeansUntouchedClean, SnapshotDecides, GitFailureFails
<1>6. phase' # "ended" /\ status' = "none"
  BY DEF ConflictTypeOK
<1>7. phase' \in {"skipped", "present", "attributes"} => todo' = Readable'
  BY <1>1
<1> QED
  BY <1>2, <1>3, <1>4, <1>5, <1>6, <1>7

\* At the limit the paths left are given up for one more violation, so the
\* check fails whatever they carry.
LEMMA LimitStep ==
  ASSUME ConflictInv, StopAtFileLimit
  PROVE  ConflictInv'
<1> USE DEF ConflictInv, StopAtFileLimit, Goto, Repository
<1>1. Unmerged' = Unmerged /\ Readable' = Readable
  BY DEF Unmerged, Readable
<1>2. ConflictTypeOK'
  BY <1>1 DEF ConflictTypeOK
<1>3. ListsHold'
  BY <1>1 DEF ListsHold
<1>4. found \in Nat /\ found > 0 /\ found' = found + 1
  BY ConflictAssumption DEF ConflictTypeOK
<1>5. CountTells'
  BY <1>1, <1>4 DEF CountTells
<1>6. PassMeansUntouchedClean' /\ SnapshotDecides' /\ GitFailureFails'
  BY DEF PassMeansUntouchedClean, SnapshotDecides, GitFailureFails
<1> QED
  BY <1>2, <1>3, <1>5, <1>6

\* A check of one path that adds nothing has seen it clean, although the lists
\* and the attributes were read before; and in a snapshot it adds something
\* only for a bad blob.
LEMMA PathTells ==
  ASSUME ConflictInv, phase = "check", NEW p \in Readable,
         CheckBlob(p) \/ PassOver(p) \/ CheckWorktreeFile(p) \/ FileVanishes(p)
  PROVE  /\ found' \in {found, found + 1}
         /\ found' = found => ShownClean(p)
         /\ mode # "all" /\ found' # found => entries[p].blob # "clean"
<1> USE DEF ConflictInv
<1>1. /\ p \in Paths /\ entries[p].blob \in Contents /\ files[p] \in FileStates
      /\ found \in Nat
  BY ReadableBlob DEF ConflictTypeOK
<1>2. Contents \subseteq {"clean", "marked", "narrow", "bad"}
  BY ConflictAssumption
<1>3. mode = "all" /\ p \notin edited =>
        (p \in skipped <=> p \in sparse) /\ (p \in present <=> files[p] # "absent")
  BY DEF ListsHold
<1>4. CASE CheckBlob(p)
  <2> DEFINE F == Findings(entries[p].blob, TRUE)
  <2>1. /\ F \in {0, 1}
        /\ F = 0
             <=> entries[p].blob \notin {"marked", "bad", "narrow"}
    BY DEF Findings
  <2>2. found' = found + F
    BY <1>4 DEF CheckBlob
  <2> HIDE DEF F
  <2>3. found' \in {found, found + 1}
    BY <2>1, <2>2, <1>1
  <2>a. found' = found <=> F = 0
    BY <2>1, <2>2, <1>1
  <2>b. entries[p].blob \in {"clean", "marked", "narrow", "bad"}
    BY <1>1, <1>2
  <2>4. found' = found <=> entries[p].blob = "clean"
    BY <2>1, <2>a, <2>b
  <2>5. found' = found => ShownClean(p)
    BY <2>4, <1>4 DEF CheckBlob, ShownClean, ShownBad
  <2>6. found' # found => entries[p].blob # "clean"
    BY <2>4
  <2> QED
    BY <2>3, <2>5, <2>6
<1>5. CASE PassOver(p)
  BY <1>3, <1>5 DEF PassOver, ShownClean, ShownBad
<1>6. CASE CheckWorktreeFile(p)
  <2> DEFINE F == Findings(files[p], p \in present)
  <2>1. /\ F \in {0, 1}
        /\ F = 0
             <=> /\ files[p] \notin {"marked", "bad"}
                 /\ files[p] = "narrow" => p \notin present
    BY DEF Findings
  <2>2. found' = found + F /\ mode = "all"
          /\ files[p] # "absent"
    BY <1>6 DEF CheckWorktreeFile
  <2> HIDE DEF F
  <2>3. found' \in {found, found + 1}
    BY <2>1, <2>2, <1>1
  <2>4. found' = found => files[p] \notin {"marked", "bad"}
                            /\ (files[p] = "narrow" => p \notin present)
    BY <2>1, <2>2, <1>1
  <2>5. found' = found => ShownClean(p)
    BY <2>2, <2>4, <1>3 DEF ShownClean, ShownBad
  <2> QED
    BY <2>2, <2>3, <2>5
<1>7. CASE FileVanishes(p)
  BY <1>1, <1>7 DEF FileVanishes, ShownClean
<1> QED
  BY <1>4, <1>5, <1>6, <1>7

\* One more path is checked.
LEMMA CheckPathStep ==
  ASSUME ConflictInv, CheckNext
  PROVE  ConflictInv'
<1>1. PICK p \in todo :
        /\ todo' = todo \ {p}
        /\ CheckBlob(p) \/ PassOver(p) \/ CheckWorktreeFile(p) \/ FileVanishes(p)
  BY DEF CheckNext
<1>2. p \in Readable /\ phase = "check" /\ found \in Nat
  BY DEF CheckNext, ConflictInv, ConflictTypeOK
<1>3. /\ found' \in {found, found + 1}
      /\ found' = found => ShownClean(p)
      /\ mode # "all" /\ found' # found => entries[p].blob # "clean"
  BY <1>1, <1>2, PathTells
<1> USE DEF CheckNext, Goto, Repository
<1>4. Unmerged' = Unmerged /\ Readable' = Readable
  BY DEF Unmerged, Readable
<1>5. ConflictTypeOK'
  BY <1>1, <1>2, <1>3, <1>4 DEF ConflictInv, ConflictTypeOK
<1>6. ListsHold'
  BY <1>4 DEF ConflictInv, ListsHold
<1>7. CountTells'
  <2>1. Unmerged' # {} => found' > 0
    BY <1>2, <1>3, <1>4 DEF ConflictInv, CountTells
  <2>2. mode' # "all" /\ found' > 0 =>
          Unmerged' # {} \/ \E q \in Readable' : entries'[q].blob # "clean"
    BY <1>2, <1>3, <1>4 DEF ConflictInv, CountTells
  <2>3. ASSUME found' = 0, NEW q \in Readable' \ todo'
        PROVE  ShownClean(q)'
    <3>1. found = 0 /\ found' = found
      BY <2>3, <1>2, <1>3
    <3>2. q \in Readable /\ (q = p \/ q \notin todo)
      BY <1>1, <1>4
    <3>3. ShownClean(q)
      BY <3>1, <3>2, <1>2, <1>3 DEF ConflictInv, CountTells
    <3> QED
      BY <3>3 DEF ShownClean, ShownBad
  <2> QED
    BY <2>1, <2>2, <2>3 DEF CountTells
<1>8. PassMeansUntouchedClean' /\ SnapshotDecides' /\ GitFailureFails'
  BY DEF ConflictInv, PassMeansUntouchedClean, SnapshotDecides, GitFailureFails
<1> QED
  BY <1>2, <1>5, <1>6, <1>7, <1>8 DEF ConflictInv

\* The report turns the count into the exit status.
LEMMA ReportStep ==
  ASSUME ConflictInv, ReportFindings
  PROVE  ConflictInv'
<1> USE DEF ConflictInv, ReportFindings, Exit, Repository
<1>1. Unmerged' = Unmerged /\ Readable' = Readable
  BY DEF Unmerged, Readable
<1>2. ConflictTypeOK'
  BY <1>1 DEF ConflictTypeOK
<1>3. ListsHold' /\ CountTells'
  BY DEF ListsHold, CountTells
<1>4. found \in Nat /\ ~gitFailed
  BY DEF ConflictTypeOK, GitFailureFails
<1>5. /\ Unmerged # {} => found > 0
      /\ mode # "all" /\ found > 0 =>
           Unmerged # {} \/ \E p \in Readable : entries[p].blob # "clean"
      /\ found = 0 => \A p \in Readable : ShownClean(p)
  BY DEF CountTells
<1>6. PassMeansUntouchedClean'
  BY <1>1, <1>4, <1>5 DEF PassMeansUntouchedClean, ShownClean, ShownBad
<1>7. SnapshotDecides'
  BY <1>1, <1>4, <1>5 DEF SnapshotDecides, ShownClean
<1>8. GitFailureFails'
  BY <1>4 DEF GitFailureFails
<1> QED
  BY <1>2, <1>3, <1>6, <1>7, <1>8

\* An edit or a sparse checkout in the middle touches one path, of which
\* nothing is claimed from then on, and leaves the others as they were.
LEMMA TouchStep ==
  ASSUME ConflictInv, EditFile \/ ChangeSparse
  PROVE  ConflictInv'
<1>1. /\ phase # "ended" /\ mode = "all"
      /\ UNCHANGED Checker
  BY DEF EditFile, ChangeSparse
<1>2. PICK p \in Readable \ edited :
        /\ edited' = edited \cup {p}
        /\ files' \in [Paths -> FileStates]
        /\ sparse' \subseteq Paths
        /\ \A q \in Paths \ {p} : files'[q] = files[q] /\ (q \in sparse' <=> q \in sparse)
  <2>1. files \in [Paths -> FileStates] /\ sparse \subseteq Paths
          /\ entries \in [Paths -> Entries]
    BY DEF ConflictInv, ConflictTypeOK
  <2>2. CASE EditFile
    BY <2>1, <2>2 DEF EditFile
  <2>3. CASE ChangeSparse
    <3>1. PICK p \in Readable \ edited :
            /\ IF p \in sparse
                 THEN /\ sparse' = sparse \ {p}
                      /\ files' = [files EXCEPT ![p] = entries[p].blob]
                 ELSE /\ sparse' = sparse \cup {p}
                      /\ files' = [files EXCEPT ![p] = "absent"]
            /\ edited' = edited \cup {p}
      BY <2>3 DEF ChangeSparse
    <3>2. p \in Paths /\ entries[p].blob \in FileStates /\ "absent" \in FileStates
      BY <2>1, <3>1, ReadableBlob DEF FileStates
    <3>3. files' \in [Paths -> FileStates] /\ sparse' \subseteq Paths
      BY <2>1, <3>1, <3>2
    <3>4. \A q \in Paths \ {p} : files'[q] = files[q] /\ (q \in sparse' <=> q \in sparse)
      BY <2>1, <3>1
    <3> QED
      BY <3>1, <3>3, <3>4
  <2> QED
    BY <2>2, <2>3
<1> USE DEF Checker
<1>3. Unmerged' = Unmerged /\ Readable' = Readable /\ Readable \subseteq Paths
  BY <1>1 DEF Unmerged, Readable
<1>4. ConflictTypeOK'
  BY <1>1, <1>2, <1>3 DEF ConflictInv, ConflictTypeOK
<1>5. ListsHold'
  BY <1>1, <1>2, <1>3 DEF ConflictInv, ListsHold
<1>6. CountTells'
  <2>1. \A q \in Readable : ShownClean(q) => ShownClean(q)'
    BY <1>1, <1>2, <1>3 DEF ShownClean, ShownBad
  <2> QED
    BY <2>1, <1>1, <1>3 DEF ConflictInv, CountTells
<1>7. PassMeansUntouchedClean' /\ SnapshotDecides' /\ GitFailureFails'
  BY <1>1 DEF ConflictInv, PassMeansUntouchedClean, SnapshotDecides, GitFailureFails
<1> QED
  BY <1>1, <1>3, <1>4, <1>5, <1>6, <1>7 DEF ConflictInv

\* The invariant of the conflict marker checker, for any paths, any contents,
\* any limit on the violations and any number of edits in between.
THEOREM ConflictInvariant == ConflictSpec => []ConflictInv
<1>1. ConflictInv /\ [ConflictNext]_conflictVars => ConflictInv'
  <2> SUFFICES ASSUME ConflictInv, [ConflictNext]_conflictVars
               PROVE  ConflictInv'
    OBVIOUS
  <2>1. CASE UNCHANGED conflictVars
    BY <2>1 DEF conflictVars, ConflictInv, ConflictTypeOK, ListsHold, CountTells,
                PassMeansUntouchedClean, SnapshotDecides, GitFailureFails,
                Unmerged, Readable, ShownClean, ShownBad
  <2>2. CASE ConflictNext
    BY <2>2, GitFailureStep, ListStep, ListsStep, LimitStep, CheckPathStep,
       ReportStep, TouchStep
       DEF ConflictNext, CheckStep
  <2> QED
    BY <2>1, <2>2
<1> QED
  BY <1>1, ConflictStart, PTL DEF ConflictSpec

\* check_conflict_markers.py passes only what was clean: --staged and --tree
\* fail exactly for a bad snapshot or a failing git, --all never passes over a
\* path that was left alone during the check, and a failure of git fails it.
THEOREM StatusIsEarnedHolds == ConflictSpec => []StatusIsEarned
<1>1. ConflictInv => StatusIsEarned
  BY DEF ConflictInv, StatusIsEarned
<1> QED
  BY <1>1, ConflictInvariant, PTL

-----------------------------------------------------------------------------
(* The trusted gh wrapper *)

Wrapper == {"check", "target", "head"} \cup SinceJudged
Live    == {"gate"} \cup SinceGate

\* The changes by others are logged with the step of the command they met.
LogIsTyped ==
  changes \in Seq([what : {"origin", "head", "program"}, at : Live])

\* What was started so far: nothing up to the account check, then that one, and
\* the command of an agent only as the last step of all.
StartsSoFar ==
  /\ at \in Live \ {"run", "exec"} => ran = <<>>
  /\ at \in {"run", "exec"} => Len(ran) = 1 /\ ran[1].purpose = "account"

\* The place a search led to holds a program from outside until it is started, or
\* somebody changed a program in that moment.
FoundIsOutside ==
  \A step \in {"login", "exec"} :
    at = step => \/ gh.dir = "outside" /\ gh.to = "outside"
                 \/ Changed("program", {step})

\* The arguments only gain what the agent left open.
ContextIsAdded ==
  /\ WellFormed(given)
  /\ effective.command = given.command /\ effective.subject = given.subject
  /\ effective.short = given.short
  /\ given.repo # "none" => effective.repo = given.repo
  /\ ~NeedsHead(given) => effective.head = given.head

\* The repository a command that notifies people reaches was agreed to or is that
\* of the origin, and a command that is always asked about was agreed to.
TargetIsAgreed ==
  /\ /\ at \in Wrapper
     /\ effective.command \in Outward
     /\ Reached(effective) \notin {"none", origin}
     => asked \/ Changed("origin", SinceGate)
  /\ at \in Wrapper /\ effective.command = "hosted" => asked

\* The repository and the branch that were added are those of the metadata, or
\* the metadata changed after they were read.
MetadataIsRead ==
  /\ at = "head" => NeedsHead(given)
  /\ NeedsHead(given) /\ at \in {"head"} \cup SinceJudged /\ Reached(effective) # origin
       => Changed("origin", {"head"} \cup SinceJudged)
  /\ NeedsHead(given) /\ at \in SinceJudged
       => /\ HeadUsed(effective) # "none"
          /\ HeadUsed(effective) # head => Changed("head", SinceJudged)

\* The inductive invariant behind CommandIsAsJudged.
GhInv ==
  /\ GhTypeOK /\ LogIsTyped /\ StartsSoFar /\ FoundIsOutside /\ ContextIsAdded
  /\ TargetIsAgreed /\ MetadataIsRead
  /\ ProgramsAreOutside /\ RunsAfterAccount
  /\ OutwardIsAsked /\ GivenIsKept /\ CreatedFromHead

\* The log only grows, and what is logged has met the step of the command.
LEMMA LogGrows ==
  ASSUME GhTypeOK, LogIsTyped, NEW what \in {"origin", "head", "program"}, Log(what)
  PROVE  /\ LogIsTyped'
         /\ \A who, steps : Changed(who, steps) => Changed(who, steps)'
         /\ \A steps : at \in steps => Changed(what, steps)'
<1> DEFINE Entry == [what : {"origin", "head", "program"}, at : Live]
           e == [what |-> what, at |-> at]
<1>1. e \in Entry /\ e.what = what /\ e.at = at
  BY DEF Log, GhTypeOK, Live, SinceGate, SinceJudged
<1>2. changes \in Seq(Entry) /\ changes' = Append(changes, e)
  BY DEF LogIsTyped, Log
<1> HIDE DEF e, Entry
<1>3. /\ changes' \in Seq(Entry)
      /\ Len(changes') = Len(changes) + 1
      /\ changes'[Len(changes) + 1] = e
      /\ \A i \in 1..Len(changes) : changes'[i] = changes[i]
      /\ Len(changes) \in Nat
  BY <1>1, <1>2
<1>4. DOMAIN changes = 1..Len(changes) /\ DOMAIN changes' = 1..(Len(changes) + 1)
  BY <1>2, <1>3
<1>5. LogIsTyped'
  BY <1>3 DEF LogIsTyped, Entry
<1>6. ASSUME NEW who, NEW steps, Changed(who, steps)
      PROVE  Changed(who, steps)'
  <2>1. PICK i \in DOMAIN changes : changes[i].what = who /\ changes[i].at \in steps
    BY <1>6 DEF Changed
  <2>2. i \in DOMAIN changes' /\ changes'[i] = changes[i]
    BY <1>3, <1>4
  <2> QED
    BY <2>1, <2>2 DEF Changed
<1>7. ASSUME NEW steps, at \in steps
      PROVE  Changed(what, steps)'
  <2>1. Len(changes) + 1 \in DOMAIN changes'
    BY <1>3, <1>4
  <2> QED
    BY <1>1, <1>3, <1>7, <2>1 DEF Changed
<1> QED
  BY <1>5, <1>6, <1>7

\* resolve_gh leads to no program of the repository.
LEMMA ResolvedIsOutside ==
  ASSUME path \in [1..PathLength -> Candidates], NEW i \in Resolved
  PROVE  /\ path[i] \in Candidates
         /\ path[i].dir = "outside" /\ path[i].to = "outside"
BY DEF Resolved, Acceptable

\* Until the command of the agent was started nothing is claimed of it.
LEMMA NoCommand ==
  ASSUME Commanded' = {}, code' # "success"
  PROVE  RunsAfterAccount' /\ OutwardIsAsked' /\ GivenIsKept' /\ CreatedFromHead'
BY DEF RunsAfterAccount, OutwardIsAsked, GivenIsKept, CreatedFromHead

\* Before the account check nothing was started at all.
LEMMA NothingStarted ==
  ASSUME ran' = <<>>, code' # "success"
  PROVE  /\ ProgramsAreOutside'
         /\ RunsAfterAccount' /\ OutwardIsAsked' /\ GivenIsKept' /\ CreatedFromHead'
<1>1. DOMAIN ran' = {}
  OBVIOUS
<1>2. Commanded' = {}
  BY <1>1 DEF Commanded
<1> QED
  BY <1>1, <1>2, NoCommand DEF ProgramsAreOutside

\* Initially the arguments are the given ones and nothing was started.
LEMMA GhStart ==
  ASSUME GhInit
  PROVE  GhInv
<1>0. GhTypeOK
  <2>1. ran \in Seq([purpose : {"account", "command"}, program : Candidates,
                   arguments : Arguments])
    BY DEF GhInit
  <2>2. given \in Arguments /\ effective = given
    BY DEF GhInit
  <2>3. /\ origin \in Owners \cup {"none"} /\ head \in Branches \cup {"none"}
        /\ path \in [1..PathLength -> Candidates]
        /\ at = "gate" /\ code = "none" /\ asked = FALSE
    BY DEF GhInit
  <2>4. gh \in Candidates
    BY DEF GhInit, NoProgram, Candidates
  <2> QED
    BY <2>1, <2>2, <2>3, <2>4 DEF GhTypeOK
<1>1. LogIsTyped /\ StartsSoFar /\ FoundIsOutside
  BY DEF GhInit, LogIsTyped, StartsSoFar, FoundIsOutside
<1>2. ContextIsAdded
  BY DEF GhInit, ContextIsAdded
<1>3. TargetIsAgreed /\ MetadataIsRead
  BY DEF GhInit, TargetIsAgreed, MetadataIsRead, Wrapper, SinceJudged
<1>4. Commanded = {} /\ DOMAIN ran = {} /\ code # "success"
  BY DEF GhInit, Commanded
<1>5. /\ ProgramsAreOutside
      /\ RunsAfterAccount /\ OutwardIsAsked /\ GivenIsKept /\ CreatedFromHead
  BY <1>4 DEF ProgramsAreOutside, RunsAfterAccount, OutwardIsAsked, GivenIsKept,
              CreatedFromHead
<1> QED
  BY <1>0, <1>1, <1>2, <1>3, <1>5 DEF GhInv

\* While nobody changes anything the log says what it said.
LEMMA SameLog ==
  ASSUME changes' = changes
  PROVE  \A what, steps : Changed(what, steps) <=> Changed(what, steps)'
BY DEF Changed

\* From the last look at the arguments on, these and what they rest on are kept.
LEMMA ContextKept ==
  ASSUME GhInv, at \in SinceJudged, at' \in SinceJudged \cup {"ended"},
         UNCHANGED <<given, origin, head, changes, effective, asked>>
  PROVE  LogIsTyped' /\ ContextIsAdded' /\ TargetIsAgreed' /\ MetadataIsRead'
<1>1. LogIsTyped /\ ContextIsAdded /\ TargetIsAgreed /\ MetadataIsRead
  BY DEF GhInv
<1>2. LogIsTyped' /\ ContextIsAdded'
  BY <1>1 DEF LogIsTyped, ContextIsAdded
<1>3. \A what, steps : Changed(what, steps) <=> Changed(what, steps)'
  BY SameLog
<1>4. TargetIsAgreed'
  BY <1>1, <1>3 DEF TargetIsAgreed, Wrapper, SinceJudged
<1>5. MetadataIsRead'
  BY <1>1, <1>3 DEF MetadataIsRead, SinceJudged
<1> QED
  BY <1>2, <1>4, <1>5

\* Until the command is started, only the account check was.
LEMMA OnlyAccount ==
  ASSUME GhInv, at # "ended"
  PROVE  \A i \in DOMAIN ran : ran[i].purpose = "account"
<1>1. CASE at \in {"run", "exec"}
  <2>1. Len(ran) = 1 /\ ran[1].purpose = "account"
    BY <1>1 DEF GhInv, StartsSoFar
  <2>2. DOMAIN ran = 1..Len(ran)
    BY DEF GhInv, GhTypeOK
  <2> QED
    BY <2>1, <2>2
<1>2. CASE at \notin {"run", "exec"}
  <2>1. ran = <<>>
    BY <1>2 DEF GhInv, GhTypeOK, StartsSoFar, Live, SinceGate, SinceJudged
  <2> QED
    BY <2>1
<1> QED
  BY <1>1, <1>2

\* The gate and the answer let a command on whose target is that of the origin,
\* or was agreed to.
LEMMA GateStep ==
  ASSUME GhInv, Gate \/ Answer \/ CheckArguments
  PROVE  GhInv'
<1> USE DEF GhInv, World, Step, Leave
<1>1. /\ UNCHANGED <<given, origin, head, path, changes, gh, effective, ran>>
      /\ at \in {"gate", "consent", "check"}
      /\ at' \in {"consent", "check", "target", "ended"}
      /\ code' \in {"none", "refused"} /\ (code' # "none" => at' = "ended")
      /\ effective = given /\ ran = <<>>
  BY DEF Gate, Answer, CheckArguments, GhTypeOK, StartsSoFar, Live, SinceGate
<1>2. asked' \in BOOLEAN
  BY DEF Gate, Answer, CheckArguments, GhTypeOK
<1>3. GhTypeOK'
  BY <1>1, <1>2 DEF GhTypeOK
<1>4. LogIsTyped' /\ StartsSoFar' /\ ContextIsAdded' /\ FoundIsOutside'
  BY <1>1 DEF LogIsTyped, StartsSoFar, ContextIsAdded, FoundIsOutside
<1>5. TargetIsAgreed'
  <2>1. \A what, steps : Changed(what, steps) <=> Changed(what, steps)'
    BY <1>1, SameLog
  <2>2. ASSUME at' \in Wrapper,
               \/ effective.command = "hosted"
               \/ /\ effective.command \in Outward
                  /\ Reached(effective) \notin {"none", origin}
        PROVE  asked' \/ (effective.command # "hosted" /\ Changed("origin", SinceGate)')
    <3>1. CASE Gate
      <4>1. WellFormed(given) /\ effective = given
        BY <1>1 DEF ContextIsAdded
      <4>2. Reached(given) = Target(given)
        BY <4>1 DEF WellFormed, Reached, Target
      <4>3. ForgeVerdict(given, origin) \in {"ask", "deny"}
        BY <2>2, <4>1, <4>2 DEF ForgeVerdict
      <4> QED
        BY <4>3, <3>1, <2>2 DEF Gate, Wrapper, SinceJudged
    <3>2. CASE Answer
      BY <3>2, <2>2 DEF Answer, Wrapper, SinceJudged
    <3>3. CASE CheckArguments
      <4>1. at \in Wrapper /\ asked' = asked
        BY <3>3 DEF CheckArguments, Wrapper
      <4>2. asked \/ (effective.command # "hosted" /\ Changed("origin", SinceGate))
        <5>1. CASE effective.command = "hosted"
          BY <4>1, <5>1 DEF TargetIsAgreed
        <5>2. CASE effective.command # "hosted"
          BY <4>1, <2>2, <5>2 DEF TargetIsAgreed
        <5> QED
          BY <5>1, <5>2
      <4> QED
        BY <4>1, <4>2, <2>1
    <3> QED
      BY <3>1, <3>2, <3>3
  <2> QED
    BY <1>1, <2>2 DEF TargetIsAgreed
<1>6. MetadataIsRead'
  BY <1>1 DEF MetadataIsRead, SinceJudged
<1> QED
  BY <1>1, <1>3, <1>4, <1>5, <1>6, NothingStarted

\* The repository that is added is that of the origin.
LEMMA TargetStep ==
  ASSUME GhInv, AddTarget
  PROVE  GhInv'
<1> USE DEF GhInv, World, Step, Leave
<1>1. /\ UNCHANGED <<given, origin, head, path, changes, gh, ran, asked>>
      /\ at = "target" /\ at' \in {"head", "judge", "ended"}
      /\ code = "none" /\ code' \in {"none", "error"} /\ (code' # "none" => at' = "ended")
      /\ effective = given /\ ran = <<>>
  BY DEF AddTarget, GhTypeOK, StartsSoFar, Live, SinceGate
<1>2. /\ given \in Arguments /\ origin \in Owners \cup {"none"}
      /\ "none" \notin Owners /\ WellFormed(given)
  BY TrustedGhAssumption DEF GhTypeOK, ContextIsAdded
<1>3. \/ /\ ~NeedsRepo(given) /\ at' = "judge" /\ effective' = given
      \/ /\ at' = "ended" /\ effective' = given
      \/ /\ NeedsRepo(given) /\ origin # "none" /\ effective' \in Arguments
         /\ effective'.repo = origin /\ effective'.command = given.command
         /\ effective'.subject = given.subject /\ effective'.short = given.short
         /\ effective'.head = given.head
         /\ at' = IF NeedsHead(given) THEN "head" ELSE "judge"
  BY <1>1, <1>2 DEF AddTarget, Arguments
<1>4. \A what, steps : Changed(what, steps) <=> Changed(what, steps)'
  BY <1>1, SameLog
<1>5. GhTypeOK'
  <2>1. effective' \in Arguments
    BY <1>2, <1>3
  <2> QED
    BY <1>1, <2>1 DEF GhTypeOK
<1>6. LogIsTyped' /\ StartsSoFar' /\ FoundIsOutside'
  BY <1>1 DEF LogIsTyped, StartsSoFar, FoundIsOutside
<1>7. ContextIsAdded'
  BY <1>1, <1>2, <1>3 DEF ContextIsAdded, NeedsRepo
<1>8. TargetIsAgreed'
  <2>1. effective'.command = effective.command
    BY <1>1, <1>3
  <2>2. ASSUME effective'.command \in Outward, Reached(effective') \notin {"none", origin}
        PROVE  asked' \/ Changed("origin", SinceGate)'
    <3>1. Reached(effective') = Reached(effective)
      BY <2>2, <1>1, <1>3 DEF Reached
    <3>2. asked \/ Changed("origin", SinceGate)
      BY <2>1, <2>2, <3>1, <1>1 DEF TargetIsAgreed, Wrapper
    <3> QED
      BY <3>2, <1>1, <1>4
  <2>3. effective'.command = "hosted" => asked'
    BY <1>1, <2>1 DEF TargetIsAgreed, Wrapper
  <2> QED
    BY <1>1, <2>2, <2>3 DEF TargetIsAgreed
<1>9. MetadataIsRead'
  <2>1. at' = "head" => NeedsHead(given)
    BY <1>1, <1>3
  <2>2. ASSUME NeedsHead(given), at' # "ended"
        PROVE  at' = "head" /\ Reached(effective') = origin
    <3>1. NeedsRepo(given) /\ given.command = "create"
      BY <2>2 DEF NeedsHead
    <3>2. given.subject = "none"
      BY <3>1, <1>2 DEF WellFormed
    <3> QED
      BY <2>2, <3>1, <3>2, <1>1, <1>3 DEF Reached
  <2> QED
    BY <1>1, <2>1, <2>2 DEF MetadataIsRead, SinceJudged
<1> QED
  BY <1>1, <1>5, <1>6, <1>7, <1>8, <1>9, NothingStarted

\* The branch that is added is that of HEAD, and only where no --head is given.
LEMMA HeadStep ==
  ASSUME GhInv, AddHead
  PROVE  GhInv'
<1> USE DEF GhInv, World, Step, Leave
<1>1. /\ UNCHANGED <<given, origin, head, path, changes, gh, ran, asked>>
      /\ at = "head" /\ at' \in {"judge", "ended"}
      /\ code = "none" /\ code' \in {"none", "error"} /\ (code' # "none" => at' = "ended")
      /\ NeedsHead(given) /\ ran = <<>>
  BY DEF AddHead, GhTypeOK, StartsSoFar, MetadataIsRead, Live, SinceGate
<1>2. /\ effective \in Arguments /\ head \in Branches \cup {"none"}
  BY DEF GhTypeOK
<1>3. /\ effective' \in Arguments
      /\ effective'.repo = effective.repo /\ effective'.command = effective.command
      /\ effective'.subject = effective.subject /\ effective'.short = effective.short
      /\ \/ at' = "ended" /\ effective' = effective
         \/ at' = "judge" /\ head # "none" /\ effective'.head = head
  BY <1>1, <1>2 DEF AddHead, Arguments
<1>4. \A what, steps : Changed(what, steps) <=> Changed(what, steps)'
  BY <1>1, SameLog
<1>5. GhTypeOK'
  BY <1>1, <1>3 DEF GhTypeOK
<1>6. LogIsTyped' /\ StartsSoFar' /\ FoundIsOutside'
  BY <1>1 DEF LogIsTyped, StartsSoFar, FoundIsOutside
<1>7. ContextIsAdded'
  BY <1>1, <1>3 DEF ContextIsAdded
<1>0. Reached(effective') = Reached(effective)
  BY <1>3 DEF Reached
<1>8. TargetIsAgreed'
  <2>1. ASSUME effective'.command \in Outward, Reached(effective') \notin {"none", origin}
        PROVE  asked' \/ Changed("origin", SinceGate)'
    <3>1. asked \/ Changed("origin", SinceGate)
      BY <2>1, <1>0, <1>1, <1>3 DEF TargetIsAgreed, Wrapper
    <3> QED
      BY <3>1, <1>1, <1>4
  <2>2. effective'.command = "hosted" => asked'
    BY <1>1, <1>3 DEF TargetIsAgreed, Wrapper
  <2> QED
    BY <1>1, <2>1, <2>2 DEF TargetIsAgreed
<1>9. MetadataIsRead'
  <2>1. ASSUME Reached(effective') # origin, at' = "judge"
        PROVE  Changed("origin", {"head"} \cup SinceJudged)'
    <3>1. Changed("origin", {"head"} \cup SinceJudged)
      BY <2>1, <1>0, <1>1 DEF MetadataIsRead
    <3> QED
      BY <3>1, <1>4
  <2>2. at' = "judge" => HeadUsed(effective') = head /\ head # "none"
    BY <1>3 DEF HeadUsed
  <2>3. at' \in {"head"} \cup SinceJudged => at' = "judge"
    BY <1>1 DEF SinceJudged
  <2> QED
    BY <1>1, <2>1, <2>2, <2>3 DEF MetadataIsRead, SinceJudged
<1> QED
  BY <1>1, <1>5, <1>6, <1>7, <1>8, <1>9, NothingStarted

\* The last look at the arguments starts nothing.
LEMMA JudgeStep ==
  ASSUME GhInv, JudgeEffective
  PROVE  GhInv'
<1> USE DEF GhInv, World, Step, Leave
<1>1. /\ UNCHANGED <<given, origin, head, path, changes, gh, effective, ran, asked>>
      /\ at = "judge" /\ at' \in {"account", "ended"}
      /\ code = "none" /\ code' \in {"none", "refused"} /\ (code' # "none" => at' = "ended")
      /\ ran = <<>>
  BY DEF JudgeEffective, GhTypeOK, StartsSoFar, Live, SinceGate, SinceJudged
<1>2. GhTypeOK'
  BY <1>1 DEF GhTypeOK
<1>3. StartsSoFar' /\ FoundIsOutside'
  BY <1>1 DEF StartsSoFar, FoundIsOutside
<1>4. LogIsTyped' /\ ContextIsAdded' /\ TargetIsAgreed' /\ MetadataIsRead'
  BY <1>1, ContextKept DEF SinceJudged
<1> QED
  BY <1>1, <1>2, <1>3, <1>4, NothingStarted

\* Either search of PATH ends at a program from outside, or ends the wrapper.
LEMMA FindStep ==
  ASSUME GhInv, FindForAccount \/ FindForCommand
  PROVE  GhInv'
<1> USE DEF GhInv, World, Step, Leave
<1>1. /\ UNCHANGED <<given, origin, head, path, changes, effective, ran, asked>>
      /\ \/ at = "account" /\ at' \in {"login", "ended"}
         \/ at = "run" /\ at' \in {"exec", "ended"}
      /\ code = "none" /\ code' \in {"none", "error"} /\ (code' # "none" => at' = "ended")
  BY DEF FindForAccount, FindForCommand, Find, GhTypeOK
<1>2. /\ gh' \in Candidates
      /\ at' # "ended" => gh'.dir = "outside" /\ gh'.to = "outside"
  <2>1. \/ at' = "ended" /\ gh' = gh
        \/ \E i \in Resolved : gh' = path[i]
    BY DEF FindForAccount, FindForCommand, Find
  <2>2. path \in [1..PathLength -> Candidates] /\ gh \in Candidates
    BY DEF GhTypeOK
  <2> QED
    BY <2>1, <2>2, ResolvedIsOutside
<1>3. GhTypeOK'
  BY <1>1, <1>2 DEF GhTypeOK
<1>4. StartsSoFar' /\ FoundIsOutside'
  BY <1>1, <1>2 DEF StartsSoFar, FoundIsOutside, Live, SinceGate, SinceJudged
<1>5. LogIsTyped' /\ ContextIsAdded' /\ TargetIsAgreed' /\ MetadataIsRead'
  BY <1>1, ContextKept DEF SinceJudged
<1>6. Commanded' = {}
  BY <1>1, OnlyAccount DEF Commanded
<1>7. ProgramsAreOutside'
  <2>1. \A what, steps : Changed(what, steps) <=> Changed(what, steps)'
    BY <1>1, SameLog
  <2> QED
    BY <1>1, <2>1 DEF ProgramsAreOutside, WhileFound
<1> QED
  BY <1>1, <1>3, <1>4, <1>5, <1>6, <1>7, NoCommand

\* The account check starts the gh that was found, or what replaced it there.
LEMMA AccountStep ==
  ASSUME GhInv, CheckAccount
  PROVE  GhInv'
<1> USE DEF GhInv, World, Step, Leave
<1>1. /\ UNCHANGED <<given, origin, head, path, changes, gh, effective, asked>>
      /\ at = "login" /\ at' \in {"run", "ended"}
      /\ code = "none" /\ code' \in {"none", "error"} /\ (code' # "none" => at' = "ended")
      /\ ran = <<>> /\ effective \in Arguments /\ gh \in Candidates
  BY DEF CheckAccount, GhTypeOK, StartsSoFar, Live, SinceGate, SinceJudged
<1>2. \/ ran' = <<>> /\ at' = "ended"
      \/ ran' = <<[purpose |-> "account", program |-> gh, arguments |-> effective]>>
  BY <1>1 DEF CheckAccount, Start
<1>a. \A what, steps : Changed(what, steps) <=> Changed(what, steps)'
  BY <1>1, SameLog
<1>3. /\ ran' \in Seq([purpose : {"account", "command"}, program : Candidates,
                       arguments : Arguments])
      /\ ProgramsAreOutside' /\ Commanded' = {} /\ StartsSoFar'
  <2>1. CASE ran' = <<>> /\ at' = "ended"
    BY <2>1 DEF ProgramsAreOutside, Commanded, StartsSoFar, Live, SinceGate, SinceJudged
  <2>2. CASE ran' = <<[purpose |-> "account", program |-> gh, arguments |-> effective]>>
    <3>1. (gh.dir = "outside" /\ gh.to = "outside") \/ Changed("program", {"login"})'
      BY <1>1, <1>a DEF FoundIsOutside
    <3>2. /\ ran' \in Seq([purpose : {"account", "command"}, program : Candidates,
                           arguments : Arguments])
          /\ Len(ran') = 1 /\ DOMAIN ran' = {1}
          /\ ran'[1].purpose = "account" /\ ran'[1].program = gh
      BY <1>1, <2>2
    <3>3. ProgramsAreOutside'
      BY <3>1, <3>2 DEF ProgramsAreOutside, WhileFound
    <3>4. Commanded' = {} /\ StartsSoFar'
      BY <1>1, <3>2 DEF Commanded, StartsSoFar, Live, SinceGate, SinceJudged
    <3> QED
      BY <3>2, <3>3, <3>4
  <2> QED
    BY <1>2, <2>1, <2>2
<1>4. GhTypeOK'
  BY <1>1, <1>3 DEF GhTypeOK
<1>5. LogIsTyped' /\ ContextIsAdded' /\ TargetIsAgreed' /\ MetadataIsRead'
  BY <1>1, ContextKept DEF SinceJudged
<1>6. FoundIsOutside'
  BY <1>1 DEF FoundIsOutside
<1> QED
  BY <1>1, <1>3, <1>4, <1>5, <1>6, NoCommand

\* The command runs with the arguments that were judged, after the account.
LEMMA RunStep ==
  ASSUME GhInv, RunCommand
  PROVE  GhInv'
<1> USE DEF GhInv, World, Step, Leave
<1> DEFINE Starts == [purpose : {"account", "command"}, program : Candidates,
                      arguments : Arguments]
<1>1. /\ UNCHANGED <<given, origin, head, path, changes, gh, effective, asked>>
      /\ at = "exec" /\ at' = "ended"
      /\ code' \in {"error", "success", "failure"}
      /\ ran \in Seq(Starts) /\ Len(ran) = 1 /\ ran[1].purpose = "account"
      /\ effective \in Arguments /\ gh \in Candidates
  BY DEF RunCommand, GhTypeOK, StartsSoFar
<1>2. \/ ran' = ran /\ code' = "error"
      \/ ran' = Append(ran, [purpose |-> "command", program |-> gh,
                             arguments |-> effective])
  BY DEF RunCommand, Start
<1>3. /\ LogIsTyped' /\ ContextIsAdded' /\ TargetIsAgreed' /\ MetadataIsRead'
      /\ StartsSoFar' /\ FoundIsOutside'
  <2>1. LogIsTyped' /\ ContextIsAdded' /\ TargetIsAgreed' /\ MetadataIsRead'
    BY <1>1, ContextKept DEF SinceJudged
  <2> QED
    BY <1>1, <2>1 DEF StartsSoFar, FoundIsOutside, Live, SinceGate, SinceJudged
<1>4. \A what, steps : Changed(what, steps) <=> Changed(what, steps)'
  BY <1>1, SameLog
<1>5. CASE ran' = ran /\ code' = "error"
  <2>1. DOMAIN ran = {1} /\ Commanded' = {}
    BY <1>1, <1>5 DEF Commanded
  <2>2. GhTypeOK'
    BY <1>1, <1>5 DEF GhTypeOK
  <2>3. ProgramsAreOutside'
    BY <1>4, <1>5 DEF ProgramsAreOutside, WhileFound
  <2> QED
    BY <1>3, <1>5, <2>1, <2>2, <2>3, NoCommand
<1>6. CASE ran' = Append(ran, [purpose |-> "command", program |-> gh,
                               arguments |-> effective])
  <2> DEFINE e == [purpose |-> "command", program |-> gh, arguments |-> effective]
  <2>3. e \in Starts /\ ran' = Append(ran, e)
    BY <1>1, <1>6
  <2>a. e.purpose = "command" /\ e.program = gh /\ e.arguments = effective
    OBVIOUS
  <2> HIDE DEF e, Starts
  <2>4. /\ ran' \in Seq(Starts)
        /\ Len(ran') = 2 /\ ran'[1] = ran[1]
        /\ ran'[2] = e
    <3>0. ran \in Seq(Starts) /\ e \in Starts
      BY <1>1, <2>3
    <3>1. /\ Len(Append(ran, e)) = Len(ran) + 1
          /\ Append(ran, e)[Len(ran) + 1] = e
          /\ \A k \in 1..Len(ran) : Append(ran, e)[k] = ran[k]
      BY ONLY <3>0, AppendProperties
    <3>2. ran' \in Seq(Starts)
      BY <2>3, <3>0, AppendProperties
    <3> QED
      BY <1>1, <2>3, <3>1, <3>2
  <2>5. /\ DOMAIN ran = {1} /\ DOMAIN ran' = {1, 2}
        /\ ran'[2].purpose = "command" /\ ran'[2].program = gh
        /\ ran'[2].arguments = effective
    BY <1>1, <2>4, <2>a
  <2>6. Commanded' = {2}
    BY <1>1, <2>4, <2>5 DEF Commanded
  <2>7. GhTypeOK'
    BY <1>1, <2>4 DEF GhTypeOK, Starts
  <2>8. ProgramsAreOutside'
    <3>1. \/ ran[1].program.dir = "outside" /\ ran[1].program.to = "outside"
          \/ Changed("program", {"login"})'
      BY <1>1, <1>4, <2>5 DEF ProgramsAreOutside, WhileFound
    <3>2. \/ gh.dir = "outside" /\ gh.to = "outside"
          \/ Changed("program", {"exec"})'
      BY <1>1, <1>4 DEF FoundIsOutside
    <3> QED
      BY <1>1, <2>4, <2>5, <3>1, <3>2 DEF ProgramsAreOutside, WhileFound
  <2>9. RunsAfterAccount'
    BY <1>1, <2>4, <2>6 DEF RunsAfterAccount
  <2>10. OutwardIsAsked'
    <3>1. ASSUME effective.command \in Outward, Reached(effective) \notin {"none", origin}
          PROVE  asked' \/ Changed("origin", SinceGate)'
      <4>1. asked \/ Changed("origin", SinceGate)
        BY <3>1, <1>1 DEF TargetIsAgreed, Wrapper, SinceJudged
      <4> QED
        BY <4>1, <1>1, <1>4
    <3>2. effective.command = "hosted" => asked'
      BY <1>1 DEF TargetIsAgreed, Wrapper, SinceJudged
    <3> QED
      BY <1>1, <2>5, <2>6, <3>1, <3>2 DEF OutwardIsAsked
  <2>11. GivenIsKept'
    <3>1. Reached(given) # "none" => Reached(effective) = Reached(given)
      BY DEF ContextIsAdded, Reached
    <3>2. HeadUsed(given) # "none" /\ ~NeedsHead(given) =>
            HeadUsed(effective) = HeadUsed(given)
      BY DEF ContextIsAdded, HeadUsed
    <3>3. effective.command = given.command
      BY DEF ContextIsAdded
    <3> QED
      BY <1>1, <2>5, <2>6, <3>1, <3>2, <3>3 DEF GivenIsKept
  <2>12. CreatedFromHead'
    <3>1. ASSUME NeedsHead(given)
          PROVE  /\ HeadUsed(effective) # "none"
                 /\ HeadUsed(effective) # head => Changed("head", SinceJudged)'
                 /\ Reached(effective) # origin =>
                      Changed("origin", {"head"} \cup SinceJudged)'
      BY <3>1, <1>1, <1>4 DEF MetadataIsRead, SinceJudged
    <3> QED
      BY <1>1, <2>5, <2>6, <3>1 DEF CreatedFromHead
  <2> QED
    BY <1>3, <2>7, <2>8, <2>9, <2>10, <2>11, <2>12
<1> QED
  BY <1>2, <1>5, <1>6

\* Whatever others change is logged, with the step it met.
LEMMA OthersStep ==
  ASSUME GhInv, ChangeOrigin \/ ChangeHead \/ ChangeProgram
  PROVE  GhInv'
<1> USE DEF GhInv, Mine
<1>1. /\ UNCHANGED <<given, at, effective, ran, code, asked>>
      /\ at # "ended" /\ code = "none"
  BY DEF ChangeOrigin, ChangeHead, ChangeProgram, Log, GhTypeOK
<1>2. /\ LogIsTyped'
      /\ \A who, steps : Changed(who, steps) => Changed(who, steps)'
      /\ origin' # origin => \A steps : at \in steps => Changed("origin", steps)'
      /\ head' # head => \A steps : at \in steps => Changed("head", steps)'
      /\ gh' # gh => \A steps : at \in steps => Changed("program", steps)'
  <2>1. CASE ChangeOrigin
    BY <2>1, LogGrows DEF ChangeOrigin
  <2>2. CASE ChangeHead
    BY <2>2, LogGrows DEF ChangeHead
  <2>3. CASE ChangeProgram
    BY <2>3, LogGrows DEF ChangeProgram
  <2> QED
    BY <2>1, <2>2, <2>3
<1>3. GhTypeOK'
  <2>1. origin' \in Owners \cup {"none"} /\ head' \in Branches \cup {"none"}
    BY DEF ChangeOrigin, ChangeHead, ChangeProgram, GhTypeOK
  <2>2. path' \in [1..PathLength -> Candidates]
    BY DEF ChangeOrigin, ChangeHead, ChangeProgram, GhTypeOK
  <2>3. gh' \in Candidates
    BY DEF ChangeOrigin, ChangeHead, ChangeProgram, GhTypeOK
  <2> QED
    BY <1>1, <2>1, <2>2, <2>3 DEF GhTypeOK
<1>4. StartsSoFar' /\ ContextIsAdded'
  BY <1>1 DEF StartsSoFar, ContextIsAdded
<1>a. FoundIsOutside'
  <2>1. ASSUME NEW step \in {"login", "exec"}, at = step
        PROVE  \/ gh'.dir = "outside" /\ gh'.to = "outside"
               \/ Changed("program", {step})'
    <3>1. CASE gh' = gh
      <4>1. (gh.dir = "outside" /\ gh.to = "outside") \/ Changed("program", {step})
        BY <2>1 DEF FoundIsOutside
      <4> QED
        BY <3>1, <4>1, <1>2
    <3>2. CASE gh' # gh
      BY <2>1, <3>2, <1>2
    <3> QED
      BY <3>1, <3>2
  <2>2. at' = at
    BY <1>1
  <2> QED
    BY <2>1, <2>2 DEF FoundIsOutside
<1>5. TargetIsAgreed'
  <2>1. ASSUME at \in Wrapper, effective.command \in Outward,
               Reached(effective) \notin {"none", origin'}
        PROVE  asked \/ Changed("origin", SinceGate)'
    <3>1. CASE origin' = origin
      <4>1. asked \/ Changed("origin", SinceGate)
        BY <2>1, <3>1 DEF TargetIsAgreed
      <4> QED
        BY <4>1, <1>2
    <3>2. CASE origin' # origin
      BY <2>1, <3>2, <1>2 DEF Wrapper, SinceGate
    <3> QED
      BY <3>1, <3>2
  <2>2. at \in Wrapper /\ effective.command = "hosted" => asked
    BY DEF TargetIsAgreed
  <2> QED
    BY <1>1, <2>1, <2>2 DEF TargetIsAgreed
<1>6. MetadataIsRead'
  <2>1. ASSUME NeedsHead(given), at \in {"head"} \cup SinceJudged,
               Reached(effective) # origin'
        PROVE  Changed("origin", {"head"} \cup SinceJudged)'
    <3>1. CASE origin' = origin
      <4>1. Changed("origin", {"head"} \cup SinceJudged)
        BY <2>1, <3>1 DEF MetadataIsRead
      <4> QED
        BY <4>1, <1>2
    <3>2. CASE origin' # origin
      BY <2>1, <3>2, <1>2
    <3> QED
      BY <3>1, <3>2
  <2>2. ASSUME NeedsHead(given), at \in SinceJudged, HeadUsed(effective) # head'
        PROVE  Changed("head", SinceJudged)'
    <3>1. CASE head' = head
      <4>1. Changed("head", SinceJudged)
        BY <2>2, <3>1 DEF MetadataIsRead
      <4> QED
        BY <4>1, <1>2
    <3>2. CASE head' # head
      BY <2>2, <3>2, <1>2
    <3> QED
      BY <3>1, <3>2
  <2>3. /\ at = "head" => NeedsHead(given)
        /\ NeedsHead(given) /\ at \in SinceJudged => HeadUsed(effective) # "none"
    BY DEF MetadataIsRead
  <2> QED
    BY <1>1, <2>1, <2>2, <2>3 DEF MetadataIsRead
<1>7. Commanded' = {}
  BY <1>1, OnlyAccount DEF Commanded
<1>8. ProgramsAreOutside'
  BY <1>1, <1>2 DEF ProgramsAreOutside
<1> QED
  BY <1>1, <1>2, <1>3, <1>4, <1>a, <1>5, <1>6, <1>7, <1>8, NoCommand

\* The invariant of one gh command, for any owners, branches and PATH and any
\* number of changes in between.
THEOREM GhInvariant == GhSpec => []GhInv
<1>1. GhInv /\ [GhNext]_ghVars => GhInv'
  <2> SUFFICES ASSUME GhInv, [GhNext]_ghVars
               PROVE  GhInv'
    OBVIOUS
  <2>1. CASE UNCHANGED ghVars
    BY <2>1 DEF ghVars, GhInv, GhTypeOK, LogIsTyped, StartsSoFar, FoundIsOutside,
                ContextIsAdded,
                TargetIsAgreed, MetadataIsRead, ProgramsAreOutside, RunsAfterAccount,
                OutwardIsAsked, GivenIsKept, CreatedFromHead, Commanded, Changed
  <2>2. CASE GhNext
    BY <2>2, GateStep, TargetStep, HeadStep, JudgeStep, FindStep, AccountStep, RunStep,
            OthersStep
       DEF GhNext
  <2> QED
    BY <2>1, <2>2
<1> QED
  BY <1>1, GhStart, PTL DEF GhSpec

\* trusted_gh.py runs what was judged: a program outside the repository, after
\* the account check, with the arguments the agent wrote and the context of the
\* Git metadata; consent covers the target unless the origin changed meanwhile.
THEOREM CommandIsAsJudgedHolds == GhSpec => []CommandIsAsJudged
<1>1. GhInv => CommandIsAsJudged
  BY DEF GhInv, CommandIsAsJudged
<1> QED
  BY <1>1, GhInvariant, PTL

-----------------------------------------------------------------------------
(* The Git state reader *)

\* The fields read so far were true at these moments, in this order.
ReadAt(times) ==
  /\ \A i, j \in 1..(asking - 1) : i < j => times[i] <= times[j]
  /\ \A i \in 1..(asking - 1) :
       \/ answers[Questions[i]] = before[times[i]][Questions[i]]
       \/ Questions[i] = "remote" /\ answers[Questions[i]] = "none"

\* The inductive invariant behind PrintedInOrder.
ReaderInv ==
  /\ now \in States
  /\ before \in Seq(States) /\ before # <<>> /\ before[Len(before)] = now
  /\ DOMAIN answers = {"branch", "remote", "revision", "status"}
  /\ asking \in 1..5
  /\ reader = "printed" => asking = 5
  /\ \E times \in [1..4 -> 1..Len(before)] : ReadAt(times)

\* Each question is put once, and asks for its own field.
LEMMA QuestionsDiffer ==
  /\ Len(Questions) = 4 /\ DOMAIN Questions = 1..4
  /\ \A i \in 1..4 : Questions[i] \in {"branch", "remote", "revision", "status"}
  /\ \A i, j \in 1..4 : Questions[i] = Questions[j] => i = j
<1>1. /\ Questions[1] = "branch" /\ Questions[2] = "remote"
      /\ Questions[3] = "revision" /\ Questions[4] = "status"
      /\ Len(Questions) = 4 /\ DOMAIN Questions = 1..4
  BY DEF Questions
<1>2. \A i \in 1..4 : i = 1 \/ i = 2 \/ i = 3 \/ i = 4
  OBVIOUS
<1> QED
  BY <1>1, <1>2

\* An answer, that of git or a missing remote, extends the fields read: it was
\* true at the latest moment, and the earlier ones keep their moments.
LEMMA AnswerExtends ==
  ASSUME ReaderInv, asking \in 1..4, asking' = asking + 1, UNCHANGED <<now, before>>,
         DOMAIN answers' = DOMAIN answers,
         \A field \in DOMAIN answers \ {Field} : answers'[field] = answers[field],
         \/ answers'[Field] = now[Field]
         \/ Field = "remote" /\ answers'[Field] = "none"
  PROVE  \E times \in [1..4 -> 1..Len(before)] : ReadAt(times)'
<1>1. PICK old \in [1..4 -> 1..Len(before)] : ReadAt(old)
  BY DEF ReaderInv
<1>2. Len(before) \in Nat /\ Len(before) \in 1..Len(before) /\ before[Len(before)] = now
  <2>1. before \in Seq(States) /\ before # <<>> /\ before[Len(before)] = now
    BY DEF ReaderInv
  <2> QED
    BY <2>1, EmptySeq
<1>3. PICK times \in [1..4 -> 1..Len(before)] :
        /\ times[asking] = Len(before)
        /\ \A i \in 1..(asking - 1) : times[i] = old[i]
  <2> DEFINE new == [old EXCEPT ![asking] = Len(before)]
  <2>1. /\ new \in [1..4 -> 1..Len(before)] /\ new[asking] = Len(before)
        /\ \A i \in 1..(asking - 1) : new[i] = old[i]
    BY <1>1, <1>2
  <2> HIDE DEF new
  <2> QED
    BY <2>1
<1>4. 1..(asking' - 1) = 1..(asking - 1) \cup {asking} /\ asking \notin 1..(asking - 1)
        /\ 1..(asking - 1) \subseteq 1..4
  <2>1. PICK n \in 1..4 : n = asking
    OBVIOUS
  <2>2. /\ asking' - 1 = n /\ n \in 1..n
        /\ \A i \in 1..n : i \in 1..(n - 1) \/ i = n
        /\ \A i \in 1..(n - 1) : i \in 1..n
    BY <2>1
  <2>3. n \notin 1..(n - 1) /\ \A i \in 1..(n - 1) : i \in 1..4
    BY <2>1
  <2>4. 1..n = 1..(n - 1) \cup {n}
    BY <2>2
  <2> QED
    BY <2>1, <2>2, <2>3, <2>4
<1>5. ASSUME NEW i \in 1..(asking' - 1), NEW j \in 1..(asking' - 1), i < j
      PROVE  times[i] <= times[j]
  <2>1. i \in 1..(asking - 1) /\ (j \in 1..(asking - 1) \/ j = asking)
    BY <1>4, <1>5
  <2>2. old[i] \in 1..Len(before)
    BY <1>1, <1>4, <2>1
  <2>3. CASE j \in 1..(asking - 1)
    BY <1>1, <1>3, <1>5, <2>1, <2>3 DEF ReadAt
  <2>4. CASE j = asking
    <3>1. times[j] = Len(before) /\ times[i] = old[i]
      BY <1>3, <2>1, <2>4
    <3>2. old[i] <= Len(before)
      BY <1>2, <2>2, SMTT(20)
    <3> QED
      BY <3>1, <3>2
  <2> QED
    BY <2>1, <2>3, <2>4
<1>6. ASSUME NEW i \in 1..(asking' - 1)
      PROVE  \/ answers'[Questions[i]] = before'[times[i]][Questions[i]]
             \/ Questions[i] = "remote" /\ answers'[Questions[i]] = "none"
  <2>1. CASE i \in 1..(asking - 1)
    <3>1. Questions[i] \in DOMAIN answers \ {Field}
      BY <1>4, <2>1, QuestionsDiffer DEF ReaderInv, Field
    <3>2. answers'[Questions[i]] = answers[Questions[i]] /\ before' = before
            /\ times[i] = old[i]
      BY <3>1, <2>1, <1>3
    <3>3. \/ answers[Questions[i]] = before[old[i]][Questions[i]]
          \/ Questions[i] = "remote" /\ answers[Questions[i]] = "none"
      BY <1>1, <2>1 DEF ReadAt
    <3> QED
      BY <3>2, <3>3
  <2>2. CASE i = asking
    <3>1. before'[times[i]] = now /\ Questions[i] = Field
      BY <1>2, <1>3, <2>2 DEF Field
    <3> QED
      BY <3>1
  <2> QED
    BY <1>4, <1>6, <2>1, <2>2
<1>7. ReadAt(times)'
  <2>1. \A i, j \in 1..(asking' - 1) : i < j => times[i] <= times[j]
    BY <1>5
  <2> QED
    BY <1>6, <2>1 DEF ReadAt
<1> QED
  BY <1>7

\* Reading a field, or failing to.
LEMMA ReadStep ==
  ASSUME ReaderInv, ReadField \/ ReadFails
  PROVE  ReaderInv'
<1>1. /\ asking \in 1..4 /\ reader = "reading" /\ UNCHANGED <<now, before>>
      /\ Field \in {"branch", "remote", "revision", "status"}
      /\ DOMAIN answers = {"branch", "remote", "revision", "status"}
  BY QuestionsDiffer DEF ReadField, ReadFails, ReaderInv, Field
<1>2. CASE asking' = asking /\ answers' = answers /\ reader' = "failed"
  <2>1. PICK times \in [1..4 -> 1..Len(before)] : ReadAt(times)
    BY DEF ReaderInv
  <2>2. ReadAt(times)'
    BY <1>1, <1>2, <2>1 DEF ReadAt
  <2> QED
    BY <1>1, <1>2, <2>1, <2>2 DEF ReaderInv
<1>3. CASE /\ asking' = asking + 1 /\ reader' = "reading"
           /\ \/ answers' = [answers EXCEPT ![Field] = now[Field]]
              \/ Field = "remote" /\ answers' = [answers EXCEPT !.remote = "none"]
  <2>1. /\ DOMAIN answers' = DOMAIN answers
        /\ \A field \in DOMAIN answers \ {Field} : answers'[field] = answers[field]
        /\ \/ answers'[Field] = now[Field]
           \/ Field = "remote" /\ answers'[Field] = "none"
    BY <1>1, <1>3
  <2>2. \E times \in [1..4 -> 1..Len(before)] : ReadAt(times)'
    BY <1>1, <1>3, <2>1, AnswerExtends
  <2>3. \E times \in [1..4 -> 1..Len(before')] : ReadAt(times)'
    BY <1>1, <2>2
  <2> QED
    BY <1>1, <1>3, <2>1, <2>3 DEF ReaderInv
<1> QED
  BY <1>1, <1>2, <1>3 DEF ReadField, ReadFails

\* A change of the repository adds a moment and leaves the earlier ones.
LEMMA MoveStep ==
  ASSUME ReaderInv, RepositoryMoves
  PROVE  ReaderInv'
<1>1. /\ now' \in States /\ before \in Seq(States) /\ before' = Append(before, now')
      /\ UNCHANGED <<answers, reader, asking>> /\ reader = "reading"
  BY DEF RepositoryMoves, ReaderInv
<1>2. /\ before' \in Seq(States) /\ before' # <<>>
      /\ Len(before) \in Nat /\ Len(before') = Len(before) + 1
      /\ before'[Len(before')] = now'
      /\ \A i \in 1..Len(before) : before'[i] = before[i]
  <2>1. /\ Append(before, now') \in Seq(States) /\ Append(before, now') # <<>>
        /\ Len(Append(before, now')) = Len(before) + 1
        /\ Append(before, now')[Len(before) + 1] = now'
        /\ \A i \in 1..Len(before) : Append(before, now')[i] = before[i]
    BY <1>1, AppendProperties
  <2> QED
    BY <1>1, <2>1
<1>3. PICK times \in [1..4 -> 1..Len(before)] : ReadAt(times)
  BY DEF ReaderInv
<1>4. times \in [1..4 -> 1..Len(before')]
  BY <1>2, <1>3
<1>5. ReadAt(times)'
  <2>1. asking \in 1..5
    BY DEF ReaderInv
  <2>2. \A i \in 1..(asking - 1) : before'[times[i]] = before[times[i]]
    <3>1. \A i \in 1..(asking - 1) : i \in 1..4
      BY <2>1
    <3>2. \A i \in 1..(asking - 1) : times[i] \in 1..Len(before)
      BY <1>3, <3>1
    <3> QED
      BY <1>2, <3>2
  <2> QED
    BY <1>1, <1>3, <2>2 DEF ReadAt
<1> QED
  BY <1>1, <1>2, <1>4, <1>5 DEF ReaderInv

\* The invariant of the reader, for any branches, remotes, revisions and number
\* of changes during the read.
THEOREM ReaderInvariant == ReaderSpec => []ReaderInv
<1>1. ASSUME ReaderInit
      PROVE  ReaderInv
  <2>1. before \in Seq(States) /\ before # <<>> /\ Len(before) = 1 /\ before[1] = now
    BY <1>1 DEF ReaderInit
  <2>2. [i \in 1..4 |-> 1] \in [1..4 -> 1..Len(before)]
    BY <2>1
  <2>3. ReadAt([i \in 1..4 |-> 1])
    BY <1>1 DEF ReaderInit, ReadAt
  <2> QED
    BY <1>1, <2>1, <2>2, <2>3 DEF ReaderInit, ReaderInv
<1>2. ReaderInv /\ [ReaderNext]_readerVars => ReaderInv'
  <2> SUFFICES ASSUME ReaderInv, [ReaderNext]_readerVars
               PROVE  ReaderInv'
    OBVIOUS
  <2>1. CASE UNCHANGED readerVars
    <3>1. PICK times \in [1..4 -> 1..Len(before)] : ReadAt(times)
      BY DEF ReaderInv
    <3>2. ReadAt(times)'
      BY <2>1, <3>1 DEF readerVars, ReadAt
    <3> QED
      BY <2>1, <3>1, <3>2 DEF readerVars, ReaderInv
  <2>2. CASE PrintState
    <3>1. asking = 5 /\ UNCHANGED <<now, before, answers, asking>>
      BY <2>2, QuestionsDiffer DEF PrintState, ReaderInv
    <3> QED
      BY <3>1 DEF ReaderInv, ReadAt
  <2> QED
    BY <2>1, <2>2, ReadStep, MoveStep DEF ReaderNext
<1> QED
  BY <1>1, <1>2, PTL DEF ReaderSpec

\* What read_git_state.py prints is complete, and its fields were true one
\* after the other, however often the repository changes during the read.
THEOREM PrintedInOrderHolds == ReaderSpec => []PrintedInOrder
<1>1. ReaderInv => PrintedInOrder
  <2> SUFFICES ASSUME ReaderInv, reader = "printed"
               PROVE  \E times \in [DOMAIN Questions -> DOMAIN before] :
                        /\ \A i, j \in DOMAIN Questions : i < j => times[i] <= times[j]
                        /\ \A i \in DOMAIN Questions :
                             \/ answers[Questions[i]] = before[times[i]][Questions[i]]
                             \/ Questions[i] = "remote" /\ answers[Questions[i]] = "none"
    BY DEF PrintedInOrder
  <2>1. asking - 1 = 4 /\ DOMAIN Questions = 1..4 /\ DOMAIN before = 1..Len(before)
    BY QuestionsDiffer DEF ReaderInv
  <2>2. PICK times \in [1..4 -> 1..Len(before)] : ReadAt(times)
    BY DEF ReaderInv
  <2> QED
    BY <2>1, <2>2 DEF ReadAt
<1> QED
  BY <1>1, ReaderInvariant, PTL

-----------------------------------------------------------------------------
(* The scan of a text *)

AnswerKinds == {"block", "unclosed"}

Answers(v, i) == v.at = i /\ v.kind \in AnswerKinds

\* The line i is answered by exactly one entry of the report.
Once(report, i) ==
  \E k \in 1..Len(report) :
    \A j \in 1..Len(report) : Answers(report[j], i) <=> j = k

\* The block that is open: its line, its width, no marker of a block since, and
\* whether a separator of its width was read since.
OpenBlock ==
  /\ \A i \in 1..Len(lines) :
       /\ lines[i].kind = "opener"
       /\ \A j \in (i + 1)..Len(lines) : lines[j].kind \notin {"opener", "closer"}
       => opener = i
  /\ opener # 0 =>
       /\ lines[opener].kind = "opener"
       /\ lines[opener].width = openerLen
       /\ \A j \in (opener + 1)..Len(lines) : lines[j].kind \notin {"opener", "closer"}
       /\ hasSeparator <=> \E j \in (opener + 1)..Len(lines) :
                              /\ lines[j].kind \in {"diff3", "separator"}
                              /\ lines[j].width = openerLen

\* The openers answered so far are the others: once each if they can be
\* reported, and the open one not yet.
AnswersSoFar ==
  scan # "done" =>
    /\ \A n \in 1..Len(violations) :
         violations[n].kind \in AnswerKinds =>
           violations[n].at \in 1..Len(lines) /\ violations[n].at # opener
    /\ \A i \in 1..Len(lines) :
         lines[i].kind = "opener" /\ Reportable(lines[i].width) /\ i # opener =>
           Once(violations, i)

\* While nothing was reported, a marker is a heading's underline or is inside
\* the open block, which can be reported.
SilenceSoFar ==
  scan # "done" /\ violations = <<>> =>
    \/ opener # 0 /\ Reportable(openerLen)
    \/ \A i \in 1..Len(lines) :
         lines[i].kind \in MarkerKinds /\ Reportable(lines[i].width) =>
           lines[i].kind = "separator" /\ IsSetext(lines, i)

\* The inductive invariant behind MarkersAreReported.
MarkerInv ==
  /\ MarkerTypeOK /\ OpenBlock /\ AnswersSoFar /\ SilenceSoFar
  /\ OpenersAnsweredOnce /\ CleanMeansNoMarker /\ BlocksAreBlocks

\* What Report appends comes after what was there.
LEMMA Appended ==
  ASSUME NEW old \in Seq(Violations), NEW new \in Seq(Violations)
  PROVE  /\ old \o new \in Seq(Violations)
         /\ Len(old) \in Nat /\ Len(new) \in Nat
         /\ Len(old \o new) = Len(old) + Len(new)
         /\ \A n \in 1..Len(old) : (old \o new)[n] = old[n]
         /\ \A n \in 1..Len(new) : (old \o new)[Len(old) + n] = new[n]
         /\ \A m \in 1..Len(old \o new) :
              m \in 1..Len(old) \/ \E n \in 1..Len(new) : m = Len(old) + n
         /\ old \o new = <<>> => old = <<>> /\ new = <<>>
<1>1. /\ old \o new \in Seq(Violations)
      /\ Len(old) \in Nat /\ Len(new) \in Nat
      /\ Len(old \o new) = Len(old) + Len(new)
      /\ \A n \in 1..Len(old) + Len(new) :
           (old \o new)[n] = IF n <= Len(old) THEN old[n] ELSE new[n - Len(old)]
  BY ConcatProperties
<1>2. \A n \in 1..Len(old) : (old \o new)[n] = old[n]
  BY <1>1
<1>3. \A n \in 1..Len(new) : (old \o new)[Len(old) + n] = new[n]
  <2> TAKE n \in 1..Len(new)
  <2>1. /\ Len(old) + n \in 1..Len(old) + Len(new) /\ ~(Len(old) + n <= Len(old))
        /\ Len(old) + n - Len(old) = n
    BY <1>1
  <2> QED
    BY <1>1, <2>1
<1>4. \A m \in 1..Len(old \o new) :
        m \in 1..Len(old) \/ \E n \in 1..Len(new) : m = Len(old) + n
  <2> TAKE m \in 1..Len(old \o new)
  <2>1. CASE m <= Len(old)
    BY <1>1, <2>1
  <2>2. CASE ~(m <= Len(old))
    <3>1. m - Len(old) \in 1..Len(new) /\ m = Len(old) + (m - Len(old))
      BY <1>1, <2>2
    <3> QED
      BY <3>1
  <2> QED
    BY <2>1, <2>2
<1>5. old \o new = <<>> => old = <<>> /\ new = <<>>
  <2>1. old \o new = <<>> => Len(old) = 0 /\ Len(new) = 0
    BY <1>1
  <2> QED
    BY <2>1, EmptySeq
<1> QED
  BY <1>1, <1>2, <1>3, <1>4, <1>5

\* An answer stays the only one if what is appended answers other lines.
LEMMA OnceKept ==
  ASSUME NEW old \in Seq(Violations), NEW new \in Seq(Violations), NEW i,
         Once(old, i), \A n \in 1..Len(new) : ~Answers(new[n], i)
  PROVE  Once(old \o new, i)
<1>1. PICK k \in 1..Len(old) : \A j \in 1..Len(old) : Answers(old[j], i) <=> j = k
  BY DEF Once
<1>2. k \in 1..Len(old \o new)
  BY Appended
<1>3. ASSUME NEW j \in 1..Len(old \o new)
      PROVE  Answers((old \o new)[j], i) <=> j = k
  <2>1. CASE j \in 1..Len(old)
    BY <1>1, <2>1, Appended
  <2>2. CASE \E n \in 1..Len(new) : j = Len(old) + n
    <3>1. PICK n \in 1..Len(new) : j = Len(old) + n
      BY <2>2
    <3>2. (old \o new)[j] = new[n] /\ j # k
      BY <3>1, Appended
    <3> QED
      BY <3>2
  <2> QED
    BY <2>1, <2>2, Appended
<1> QED
  BY <1>2, <1>3 DEF Once

\* The first answer of a line is its only one.
LEMMA OnceAdded ==
  ASSUME NEW old \in Seq(Violations), NEW new \in Seq(Violations), NEW i,
         \A n \in 1..Len(old) : ~Answers(old[n], i),
         new # <<>>, \A n \in 1..Len(new) : Answers(new[n], i) <=> n = 1
  PROVE  Once(old \o new, i)
<1>1. Len(new) >= 1 /\ 1 \in 1..Len(new) /\ Len(old) \in Nat
  BY EmptySeq
<1>2. Len(old) + 1 \in 1..Len(old \o new)
  BY <1>1, Appended
<1>3. ASSUME NEW j \in 1..Len(old \o new)
      PROVE  Answers((old \o new)[j], i) <=> j = Len(old) + 1
  <2>1. CASE j \in 1..Len(old)
    <3>1. (old \o new)[j] = old[j] /\ j # Len(old) + 1
      BY <1>1, <2>1, Appended
    <3> QED
      BY <2>1, <3>1
  <2>2. CASE \E n \in 1..Len(new) : j = Len(old) + n
    <3>1. PICK n \in 1..Len(new) : j = Len(old) + n
      BY <2>2
    <3>2. (old \o new)[j] = new[n] /\ (j = Len(old) + 1 <=> n = 1)
      BY <1>1, <3>1, Appended
    <3> QED
      BY <3>2
  <2> QED
    BY <2>1, <2>2, Appended
<1> QED
  BY <1>2, <1>3 DEF Once

\* A line that is read does not change the blocks and headings before it.
LEMMA TextKept ==
  ASSUME NEW text \in Seq(Lines), NEW line \in Lines
  PROVE  /\ Append(text, line) \in Seq(Lines) /\ Len(text) \in Nat
         /\ Len(Append(text, line)) = Len(text) + 1
         /\ Append(text, line)[Len(text) + 1] = line
         /\ \A i \in 1..Len(text) : Append(text, line)[i] = text[i]
         /\ \A i \in 1..(Len(text) + 1) :
              IsSetext(Append(text, line), i) <=> IsSetext(text, i)
         /\ \A i \in 1..Len(text), k \in 1..Len(text) :
              i <= k => (IsBlock(Append(text, line), i, k) <=> IsBlock(text, i, k))
<1> DEFINE more == Append(text, line)
<1>1. /\ more \in Seq(Lines) /\ Len(text) \in Nat /\ Len(more) = Len(text) + 1
      /\ more[Len(text) + 1] = line
      /\ \A i \in 1..Len(text) : more[i] = text[i]
  BY AppendProperties
<1> HIDE DEF more
<1>2. \A i \in 1..(Len(text) + 1) : IsSetext(more, i) <=> IsSetext(text, i)
  BY <1>1 DEF IsSetext
<1>3. \A i \in 1..Len(text), k \in 1..Len(text) :
        i <= k => (IsBlock(more, i, k) <=> IsBlock(text, i, k))
  <2> TAKE i \in 1..Len(text), k \in 1..Len(text)
  <2> HAVE i <= k
  <2>1. more[i] = text[i] /\ more[k] = text[k]
    BY <1>1
  <2>2. \A j \in (i + 1)..(k - 1) : more[j] = text[j]
    BY <1>1
  <2> QED
    BY <2>1, <2>2 DEF IsBlock
<1> QED
  BY <1>1, <1>2, <1>3 DEF more

\* The open block is reported as unclosed exactly if its width can be reported.
LEMMA UnclosedReport ==
  ASSUME MarkerTypeOK
  PROVE  /\ OpenerUnclosed \in Seq(Violations) /\ Len(OpenerUnclosed) <= 1
         /\ OpenerUnclosed = <<>> <=> ~(opener # 0 /\ Reportable(openerLen))
         /\ \A n \in 1..Len(OpenerUnclosed) :
              /\ n = 1 /\ opener # 0
              /\ OpenerUnclosed[n].kind = "unclosed" /\ OpenerUnclosed[n].at = opener
<1>1. opener \in Nat
  BY DEF MarkerTypeOK
<1>2. /\ Violation("unclosed", opener) \in Violations
      /\ Violation("unclosed", opener).kind = "unclosed"
      /\ Violation("unclosed", opener).at = opener
  BY <1>1 DEF Violation, Violations
<1>3. CASE opener # 0 /\ Reportable(openerLen)
  <2>1. OpenerUnclosed = <<Violation("unclosed", opener)>>
    BY <1>3 DEF OpenerUnclosed, IfReportable
  <2> DEFINE v == Violation("unclosed", opener)
  <2>2. v \in Violations /\ v.kind = "unclosed" /\ v.at = opener /\ OpenerUnclosed = <<v>>
    BY <1>2, <2>1
  <2> HIDE DEF v
  <2>3. /\ <<v>> \in Seq(Violations) /\ Len(<<v>>) = 1 /\ <<v>>[1] = v
        /\ <<v>> # <<>>
    BY <2>2
  <2>4. \A n \in 1..Len(OpenerUnclosed) : n = 1
    BY <2>2, <2>3
  <2> QED
    BY <1>3, <2>2, <2>3, <2>4
<1>4. CASE ~(opener # 0 /\ Reportable(openerLen))
  <2>1. OpenerUnclosed = <<>>
    BY <1>4 DEF OpenerUnclosed, IfReportable
  <2> QED
    BY <1>4, <2>1
<1> QED
  BY <1>3, <1>4

\* A stray marker of this line is reported at most once, exactly if its width
\* can be reported, and never as an answer to an opener.
LEMMA StrayReport ==
  ASSUME NEW width, NEW what \in {"orphan", "mismatched"}, NEW line \in Nat
  PROVE  /\ IfReportable(width, what, line) \in Seq(Violations)
         /\ Len(IfReportable(width, what, line)) \in {0, 1}
         /\ IfReportable(width, what, line) = <<>> <=> ~Reportable(width)
         /\ \A n \in 1..Len(IfReportable(width, what, line)) :
              IfReportable(width, what, line)[n].kind \notin AnswerKinds
<1> DEFINE v == Violation(what, line)
<1>1. v \in Violations /\ v.kind \notin AnswerKinds
  BY DEF Violation, Violations, AnswerKinds
<1>2. IfReportable(width, what, line) = IF Reportable(width) THEN <<v>> ELSE <<>>
  BY DEF IfReportable
<1> HIDE DEF v
<1>3. /\ <<v>> \in Seq(Violations) /\ Len(<<v>>) = 1 /\ <<v>>[1] = v /\ <<v>> # <<>>
      /\ \A n \in 1..Len(<<v>>) : <<v>>[n] = v
  BY <1>1
<1> QED
  BY <1>1, <1>2, <1>3

\* The line ends a complete block.
Closes(line) ==
  /\ line.kind = "closer" /\ opener # 0
  /\ line.width = openerLen /\ hasSeparator

\* What a line does to the open block.
BlockMoves(line) ==
  \/ /\ line.kind = "opener"
     /\ opener' = Number /\ openerLen' = line.width /\ hasSeparator' = FALSE
  \/ /\ line.kind = "closer"
     /\ opener' = 0 /\ openerLen' \in Nat /\ hasSeparator' \in BOOLEAN
  \/ /\ line.kind \notin {"opener", "closer"}
     /\ opener' = opener /\ openerLen' = openerLen
     /\ hasSeparator' \in BOOLEAN
     /\ hasSeparator' <=> \/ hasSeparator
                          \/ /\ opener # 0 /\ line.width = openerLen
                             /\ line.kind \in {"diff3", "separator"}

\* What a line adds to the report: one answer for a block that is left, as a
\* complete one exactly if the line closes it, and silence only for a heading,
\* a narrow marker, or inside a block that will be reported.
LineTells(line, new) ==
  /\ new \in Seq(Violations)
  /\ \A n \in 1..Len(new) :
       new[n].kind \in AnswerKinds =>
         n = 1 /\ opener # 0 /\ opener' # opener /\ new[n].at = opener
  /\ opener # 0 /\ opener' # opener /\ Reportable(openerLen) =>
       new # <<>> /\ new[1].kind \in AnswerKinds
  /\ (\E n \in 1..Len(new) : new[n].kind = "block") <=> Closes(line)
  /\ new = <<>> /\ line.kind \in MarkerKinds /\ Reportable(line.width) =>
       \/ opener' # 0 /\ Reportable(openerLen')
       \/ line.kind = "separator" /\ IsSetext(lines, Number)

\* An opener answers the block it abandons, and opens another.
LEMMA OpenerTells ==
  ASSUME MarkerTypeOK, NEW line \in Lines, ScanOpener(line)
  PROVE  /\ BlockMoves(line) /\ violations' = violations \o OpenerUnclosed
         /\ LineTells(line, OpenerUnclosed)
<1>1. /\ line.kind = "opener" /\ opener' = Number /\ openerLen' = line.width
      /\ hasSeparator' = FALSE /\ violations' = violations \o OpenerUnclosed
  BY DEF ScanOpener, Report
<1>2. opener' # opener /\ opener' # 0
  BY <1>1 DEF MarkerTypeOK, Number
<1>3. LineTells(line, OpenerUnclosed)
  <2>1. \A n \in 1..Len(OpenerUnclosed) :
          n = 1 /\ opener # 0 /\ OpenerUnclosed[n].at = opener
            /\ OpenerUnclosed[n].kind = "unclosed"
    BY UnclosedReport
  <2>2. opener # 0 /\ Reportable(openerLen) =>
          OpenerUnclosed # <<>> /\ OpenerUnclosed[1].kind \in AnswerKinds
    <3>1. OpenerUnclosed # <<>> => 1 \in 1..Len(OpenerUnclosed)
      BY UnclosedReport, EmptySeq
    <3> QED
      BY <2>1, <3>1, UnclosedReport DEF AnswerKinds
  <2>3. ~(\E n \in 1..Len(OpenerUnclosed) : OpenerUnclosed[n].kind = "block") /\ ~Closes(line)
    BY <1>1, <2>1 DEF Closes
  <2> QED
    BY <1>1, <1>2, <2>1, <2>2, <2>3, UnclosedReport DEF LineTells
<1> QED
  BY <1>1, <1>3 DEF BlockMoves

\* A closer answers the block it closes, or is a stray marker.
LEMMA CloserTells ==
  ASSUME MarkerTypeOK, NEW line \in Lines, ScanCloser(line)
  PROVE  BlockMoves(line) /\ \E new : violations' = violations \o new /\ LineTells(line, new)
<1>1. line.kind = "closer" /\ Number \in Nat /\ line.width \in Widths
  BY DEF ScanCloser, MarkerTypeOK, Number, Lines
<1>2. CASE opener = 0
  <2> DEFINE new == IfReportable(line.width, "orphan", Number)
  <2>1. /\ violations' = violations \o new
        /\ opener' = opener /\ openerLen' = openerLen /\ hasSeparator' = hasSeparator
    BY <1>1, <1>2 DEF ScanCloser, Report, KeepBlock
  <2>2. /\ new \in Seq(Violations)
        /\ new = <<>> => ~Reportable(line.width)
        /\ \A n \in 1..Len(new) : new[n].kind \notin AnswerKinds
    BY <1>1, StrayReport
  <2>3. ~Closes(line)
    BY <1>2 DEF Closes
  <2> HIDE DEF new
  <2>4. LineTells(line, new)
    <3>1. ~\E n \in 1..Len(new) : new[n].kind = "block"
      BY <2>2 DEF AnswerKinds
    <3> QED
      BY <1>2, <2>1, <2>2, <2>3, <3>1 DEF LineTells
  <2>5. BlockMoves(line)
    BY <1>1, <1>2, <2>1 DEF BlockMoves, MarkerTypeOK
  <2> QED
    BY <2>1, <2>4, <2>5
<1>3. CASE opener # 0 /\ Closes(line)
  <2> DEFINE v == Violation("block", opener)
  <2>1. /\ violations' = violations \o <<v>>
        /\ opener' = 0 /\ openerLen' = 0 /\ hasSeparator' = FALSE
    BY <1>1, <1>3 DEF ScanCloser, Report, Close, Closes
  <2>2. v \in Violations /\ v.kind = "block" /\ v.at = opener
    BY DEF Violation, Violations, MarkerTypeOK
  <2> HIDE DEF v
  <2>3. /\ <<v>> \in Seq(Violations) /\ <<v>> # <<>> /\ Len(<<v>>) = 1 /\ <<v>>[1] = v
        /\ \A n \in 1..Len(<<v>>) : n = 1
    BY <2>2
  <2>4. LineTells(line, <<v>>)
    BY <1>3, <2>1, <2>2, <2>3 DEF LineTells, AnswerKinds
  <2>5. BlockMoves(line)
    BY <1>1, <2>1 DEF BlockMoves
  <2> QED
    BY <2>1, <2>4, <2>5
<1>4. CASE opener # 0 /\ ~Closes(line)
  <2> DEFINE stray == IfReportable(line.width, "mismatched", Number)
             new == OpenerUnclosed \o stray
  <2>1. /\ violations' = violations \o new
        /\ opener' = 0 /\ openerLen' = 0 /\ hasSeparator' = FALSE
    BY <1>1, <1>4 DEF ScanCloser, Report, Close, Closes
  <2>2. /\ stray \in Seq(Violations)
        /\ stray = <<>> => ~Reportable(line.width)
        /\ \A n \in 1..Len(stray) : stray[n].kind \notin AnswerKinds
    BY <1>1, StrayReport
  <2>3. /\ OpenerUnclosed \in Seq(Violations)
        /\ \A n \in 1..Len(OpenerUnclosed) :
             /\ n = 1 /\ opener # 0
             /\ OpenerUnclosed[n].at = opener /\ OpenerUnclosed[n].kind = "unclosed"
    BY UnclosedReport
  <2> HIDE DEF stray
  <2>4. /\ new \in Seq(Violations)
        /\ \A n \in 1..Len(OpenerUnclosed) : n \in 1..Len(new) /\ new[n] = OpenerUnclosed[n]
        /\ \A m \in 1..Len(new) :
             \/ m \in 1..Len(OpenerUnclosed) /\ new[m] = OpenerUnclosed[m]
             \/ \E n \in 1..Len(stray) : new[m] = stray[n]
        /\ new = <<>> => stray = <<>>
    <3>1. /\ new \in Seq(Violations)
          /\ Len(OpenerUnclosed) \in Nat /\ Len(stray) \in Nat
          /\ Len(new) = Len(OpenerUnclosed) + Len(stray)
          /\ new = <<>> => OpenerUnclosed = <<>> /\ stray = <<>>
      BY <2>2, <2>3, Appended
    <3>2. \A n \in 1..Len(OpenerUnclosed) : new[n] = OpenerUnclosed[n]
      BY <2>2, <2>3, Appended
    <3>3. \A n \in 1..Len(stray) : new[Len(OpenerUnclosed) + n] = stray[n]
      BY <2>2, <2>3, Appended
    <3>4. \A m \in 1..Len(new) :
            \/ m \in 1..Len(OpenerUnclosed)
            \/ \E n \in 1..Len(stray) : m = Len(OpenerUnclosed) + n
      BY <2>2, <2>3, Appended
    <3> HIDE DEF new
    <3>5. \A n \in 1..Len(OpenerUnclosed) : n \in 1..Len(new)
      BY <3>1
    <3> QED
      BY <3>1, <3>2, <3>3, <3>4, <3>5
  <2> HIDE DEF new
  <2>5. \A n \in 1..Len(new) :
          new[n].kind \in AnswerKinds =>
            n = 1 /\ opener # 0 /\ opener' # opener /\ new[n].at = opener
    BY <1>4, <2>1, <2>2, <2>3, <2>4
  <2>6. Reportable(openerLen) => new # <<>> /\ new[1].kind \in AnswerKinds
    <3>1. OpenerUnclosed # <<>> => 1 \in 1..Len(OpenerUnclosed)
      BY <2>3, EmptySeq
    <3>2. Reportable(openerLen) => OpenerUnclosed # <<>>
      BY <1>4, UnclosedReport
    <3>3. 1 \in 1..Len(OpenerUnclosed) => 1 \in 1..Len(new) /\ new[1].kind = "unclosed"
      BY <2>3, <2>4
    <3>4. 1 \in 1..Len(new) => new # <<>>
      BY <2>4, EmptySeq
    <3> QED
      BY <3>1, <3>2, <3>3, <3>4 DEF AnswerKinds
  <2>7. ~\E n \in 1..Len(new) : new[n].kind = "block"
    BY <2>2, <2>3, <2>4 DEF AnswerKinds
  <2>8. LineTells(line, new)
    BY <1>4, <2>1, <2>2, <2>4, <2>5, <2>6, <2>7 DEF LineTells
  <2>9. BlockMoves(line)
    BY <1>1, <2>1 DEF BlockMoves
  <2> QED
    BY <2>1, <2>8, <2>9
<1> QED
  BY <1>2, <1>3, <1>4

\* A separator of the open block's width is silent, because the block answers;
\* another one is a stray marker, or the underline of a heading.
LEMMA SeparatorTells ==
  ASSUME MarkerTypeOK, NEW line \in Lines, ScanDiff3(line) \/ ScanSeparator(line)
  PROVE  BlockMoves(line) /\ \E new : violations' = violations \o new /\ LineTells(line, new)
<1> DEFINE heading == line.kind = "separator" /\ IsSetext(lines, Number)
           stray == IfReportable(line.width, "orphan", Number)
           new == IF heading THEN <<>> ELSE stray
<1>1. /\ line.kind \in {"diff3", "separator"} /\ Number \in Nat
      /\ SeparateOr(line, new)
  BY DEF ScanDiff3, ScanSeparator, MarkerTypeOK, Number
<1>2. ~Closes(line)
  BY <1>1 DEF Closes
<1>3. /\ new \in Seq(Violations)
      /\ new = <<>> => ~Reportable(line.width) \/ heading
      /\ \A n \in 1..Len(new) : new[n].kind \notin AnswerKinds
  <2>1. /\ stray \in Seq(Violations)
        /\ stray = <<>> => ~Reportable(line.width)
        /\ \A n \in 1..Len(stray) : stray[n].kind \notin AnswerKinds
    BY <1>1, StrayReport
  <2> QED
    BY <2>1
<1> HIDE DEF new
<1>4. CASE opener # 0 /\ line.width = openerLen
  <2>1. /\ hasSeparator' = TRUE /\ opener' = opener /\ openerLen' = openerLen
        /\ violations' = violations
    BY <1>1, <1>4 DEF SeparateOr
  <2>2. violations' = violations \o <<>> /\ <<>> \in Seq(Violations)
    BY <2>1, ConcatEmptySeq DEF MarkerTypeOK
  <2>3. LineTells(line, <<>>)
    <3>1. ~\E n \in 1..Len(<<>>) : <<>>[n].kind = "block"
      OBVIOUS
    <3>2. \A n \in 1..Len(<<>>) : <<>>[n].kind \notin AnswerKinds
      OBVIOUS
    <3>3. Reportable(line.width) => opener' # 0 /\ Reportable(openerLen')
      BY <1>4, <2>1
    <3> QED
      BY <1>2, <2>1, <2>2, <3>1, <3>2, <3>3 DEF LineTells
  <2>4. BlockMoves(line)
    BY <1>1, <1>4, <2>1 DEF BlockMoves
  <2> QED
    BY <2>2, <2>3, <2>4
<1>5. CASE ~(opener # 0 /\ line.width = openerLen)
  <2>1. /\ violations' = violations \o new
        /\ opener' = opener /\ openerLen' = openerLen /\ hasSeparator' = hasSeparator
    BY <1>1, <1>5 DEF SeparateOr, Report, KeepBlock
  <2>2. LineTells(line, new)
    <3>1. ~\E n \in 1..Len(new) : new[n].kind = "block"
      BY <1>3 DEF AnswerKinds
    <3> QED
      BY <1>2, <1>3, <2>1, <3>1 DEF LineTells
  <2>3. BlockMoves(line)
    BY <1>1, <1>5, <2>1 DEF BlockMoves, MarkerTypeOK
  <2> QED
    BY <2>1, <2>2, <2>3
<1> QED
  BY <1>4, <1>5

\* Any line does one of these.
LEMMA LineStep ==
  ASSUME MarkerTypeOK, NEW line \in Lines,
         \/ ScanOpener(line) \/ ScanCloser(line) \/ ScanDiff3(line)
         \/ ScanSeparator(line) \/ ScanText(line)
  PROVE  BlockMoves(line) /\ \E new : violations' = violations \o new /\ LineTells(line, new)
<1>1. CASE ScanText(line)
  <2>1. /\ line.kind \in {"prose", "other"} /\ violations' = violations
        /\ opener' = opener /\ openerLen' = openerLen /\ hasSeparator' = hasSeparator
    BY <1>1 DEF ScanText, KeepBlock
  <2>2. violations' = violations \o <<>> /\ <<>> \in Seq(Violations)
    BY <2>1, ConcatEmptySeq DEF MarkerTypeOK
  <2>3. LineTells(line, <<>>)
    <3>1. ~\E n \in 1..Len(<<>>) : <<>>[n].kind = "block"
      OBVIOUS
    <3>2. \A n \in 1..Len(<<>>) : <<>>[n].kind \notin AnswerKinds
      OBVIOUS
    <3>3. line.kind \notin MarkerKinds /\ ~Closes(line)
      BY <2>1 DEF Closes, MarkerKinds
    <3> QED
      BY <2>1, <2>2, <3>1, <3>2, <3>3 DEF LineTells
  <2>4. BlockMoves(line)
    BY <2>1 DEF BlockMoves, MarkerTypeOK
  <2> QED
    BY <2>2, <2>3, <2>4
<1> QED
  BY <1>1, OpenerTells, CloserTells, SeparatorTells

\* A line leaves the description of the open block true.
LEMMA BlockStays ==
  ASSUME MarkerTypeOK, OpenBlock, NEW line \in Lines, BlockMoves(line),
         lines' = Append(lines, line)
  PROVE  OpenBlock'
<1>1. /\ lines \in Seq(Lines) /\ Len(lines) \in Nat /\ opener \in 0..Len(lines)
      /\ Len(lines') = Len(lines) + 1 /\ lines'[Number] = line
      /\ \A i \in 1..Len(lines) : lines'[i] = lines[i]
  BY TextKept DEF MarkerTypeOK, Number
<1>2. Number = Len(lines) + 1 /\ Number = Len(lines')
  BY <1>1 DEF Number
<1>3. \A i \in 1..Len(lines') : i \in 1..Len(lines) \/ i = Number
  BY <1>1, <1>2
<1>4. ASSUME NEW i \in 1..Len(lines'), lines'[i].kind = "opener",
             \A j \in (i + 1)..Len(lines') : lines'[j].kind \notin {"opener", "closer"}
      PROVE  opener' = i
  <2>1. CASE i = Number
    BY <1>1, <1>4, <2>1 DEF BlockMoves
  <2>2. CASE i \in 1..Len(lines)
    <3>1. line.kind \notin {"opener", "closer"}
      <4>1. Number \in (i + 1)..Len(lines')
        BY <1>1, <1>2, <2>2
      <4> QED
        BY <1>1, <1>4, <4>1
    <3>2. \A j \in (i + 1)..Len(lines) : lines[j].kind \notin {"opener", "closer"}
      <4> TAKE j \in (i + 1)..Len(lines)
      <4>1. j \in 1..Len(lines) /\ j \in (i + 1)..Len(lines')
        BY <1>1, <2>2
      <4> QED
        BY <1>1, <1>4, <4>1
    <3>3. opener = i
      BY <1>1, <1>4, <2>2, <3>2 DEF OpenBlock
    <3> QED
      BY <3>1, <3>3 DEF BlockMoves
  <2> QED
    BY <1>3, <2>1, <2>2
<1>5. ASSUME opener' # 0
      PROVE  /\ lines'[opener'].kind = "opener"
             /\ lines'[opener'].width = openerLen'
             /\ \A j \in (opener' + 1)..Len(lines') :
                  lines'[j].kind \notin {"opener", "closer"}
             /\ hasSeparator' <=> \E j \in (opener' + 1)..Len(lines') :
                                    /\ lines'[j].kind \in {"diff3", "separator"}
                                    /\ lines'[j].width = openerLen'
  <2>1. CASE line.kind = "opener"
    <3>1. opener' = Number /\ openerLen' = line.width /\ hasSeparator' = FALSE
      BY <2>1 DEF BlockMoves
    <3>2. \A j \in (opener' + 1)..Len(lines') : FALSE
      BY <1>1, <1>2, <3>1
    <3> QED
      BY <1>1, <2>1, <3>1, <3>2
  <2>2. CASE line.kind \notin {"opener", "closer"}
    <3>1. /\ opener' = opener /\ openerLen' = openerLen /\ opener # 0
          /\ opener \in 1..Len(lines)
      BY <1>1, <1>5, <2>2 DEF BlockMoves
    <3>2. /\ lines[opener].kind = "opener" /\ lines[opener].width = openerLen
          /\ \A j \in (opener + 1)..Len(lines) : lines[j].kind \notin {"opener", "closer"}
      BY <3>1 DEF OpenBlock
    <3>3. /\ \A j \in (opener + 1)..Len(lines') : j \in (opener + 1)..Len(lines) \/ j = Number
          /\ \A j \in (opener + 1)..Len(lines) :
               j \in (opener + 1)..Len(lines') /\ lines'[j] = lines[j]
          /\ Number \in (opener + 1)..Len(lines')
      BY <1>1, <1>2, <3>1
    <3>4. \A j \in (opener' + 1)..Len(lines') : lines'[j].kind \notin {"opener", "closer"}
      BY <1>1, <2>2, <3>1, <3>2, <3>3
    <3>5. hasSeparator <=> \E j \in (opener + 1)..Len(lines) :
                             /\ lines[j].kind \in {"diff3", "separator"}
                             /\ lines[j].width = openerLen
      BY <3>1 DEF OpenBlock
    <3>6. hasSeparator' <=> hasSeparator \/ (/\ line.width = openerLen
                                            /\ line.kind \in {"diff3", "separator"})
      BY <2>2, <3>1 DEF BlockMoves
    <3>7. hasSeparator' <=> \E j \in (opener + 1)..Len(lines') :
                              /\ lines'[j].kind \in {"diff3", "separator"}
                              /\ lines'[j].width = openerLen
      <4>1. ASSUME hasSeparator'
            PROVE  \E j \in (opener + 1)..Len(lines') :
                     /\ lines'[j].kind \in {"diff3", "separator"}
                     /\ lines'[j].width = openerLen
        BY <1>1, <3>3, <3>5, <3>6, <4>1
      <4>2. ASSUME NEW j \in (opener + 1)..Len(lines'),
                   lines'[j].kind \in {"diff3", "separator"}, lines'[j].width = openerLen
            PROVE  hasSeparator'
        BY <1>1, <3>3, <3>5, <3>6, <4>2
      <4> QED
        BY <4>1, <4>2
    <3> QED
      BY <1>1, <3>1, <3>2, <3>4, <3>7
  <2>3. line.kind # "closer"
    BY <1>5 DEF BlockMoves
  <2> QED
    BY <2>1, <2>2, <2>3
<1> QED
  BY <1>4, <1>5 DEF OpenBlock

\* The line that closes the open block, and no other, completes a block.
LEMMA BlockCompleted ==
  ASSUME MarkerTypeOK, OpenBlock, NEW line \in Lines, lines' = Append(lines, line),
         NEW i \in 1..Len(lines')
  PROVE  IsBlock(lines', i, Number) <=> Closes(line) /\ i = opener
<1>1. /\ lines \in Seq(Lines) /\ Len(lines) \in Nat /\ opener \in 0..Len(lines)
      /\ Len(lines') = Len(lines) + 1 /\ lines'[Number] = line
      /\ \A k \in 1..Len(lines) : lines'[k] = lines[k]
      /\ Number = Len(lines) + 1 /\ Number - 1 = Len(lines)
  BY TextKept DEF MarkerTypeOK, Number
<1>2. ASSUME IsBlock(lines', i, Number)
      PROVE  Closes(line) /\ i = opener
  <2>1. /\ lines'[i].kind = "opener" /\ line.kind = "closer" /\ line.width = lines'[i].width
        /\ \E j \in (i + 1)..Len(lines) :
             lines'[j].kind \in {"diff3", "separator"} /\ lines'[j].width = lines'[i].width
        /\ \A j \in (i + 1)..Len(lines) : lines'[j].kind \notin {"opener", "closer"}
    BY <1>1, <1>2 DEF IsBlock
  <2>2. i \in 1..Len(lines)
    BY <1>1, <2>1
  <2>3. \A j \in (i + 1)..Len(lines) : lines'[j] = lines[j]
    BY <1>1, <2>2
  <2>4. opener = i
    BY <1>1, <2>1, <2>2, <2>3 DEF OpenBlock
  <2>5. opener # 0 /\ lines[opener].width = openerLen /\ lines'[opener] = lines[opener]
    BY <1>1, <2>2, <2>4 DEF OpenBlock
  <2>6. \E j \in (opener + 1)..Len(lines) :
          lines[j].kind \in {"diff3", "separator"} /\ lines[j].width = openerLen
    BY <2>1, <2>3, <2>4, <2>5
  <2>7. hasSeparator
    BY <2>5, <2>6 DEF OpenBlock
  <2> QED
    BY <2>1, <2>4, <2>5, <2>7 DEF Closes
<1>3. ASSUME Closes(line), i = opener
      PROVE  IsBlock(lines', i, Number)
  <2>1. /\ line.kind = "closer" /\ opener # 0 /\ line.width = openerLen /\ hasSeparator
        /\ opener \in 1..Len(lines)
    BY <1>1, <1>3 DEF Closes
  <2>2. /\ lines[opener].kind = "opener" /\ lines[opener].width = openerLen
        /\ \A j \in (opener + 1)..Len(lines) : lines[j].kind \notin {"opener", "closer"}
        /\ \E j \in (opener + 1)..Len(lines) :
             lines[j].kind \in {"diff3", "separator"} /\ lines[j].width = openerLen
    BY <2>1 DEF OpenBlock
  <2>3. lines'[opener] = lines[opener] /\ \A j \in (opener + 1)..Len(lines) : lines'[j] = lines[j]
    BY <1>1, <2>1
  <2> QED
    BY <1>1, <1>3, <2>1, <2>2, <2>3 DEF IsBlock
<1> QED
  BY <1>2, <1>3

\* A report that answers no line but the open one keeps the other answers, and
\* one that leaves the open block answers it once.
LEMMA AnswersKept ==
  ASSUME MarkerTypeOK, AnswersSoFar, OpenBlock, scan # "done",
         NEW new \in Seq(Violations), NEW left \in BOOLEAN,
         \A n \in 1..Len(new) : new[n].kind \in AnswerKinds =>
                                  n = 1 /\ left /\ opener # 0 /\ new[n].at = opener,
         opener # 0 /\ left /\ Reportable(openerLen)
           => new # <<>> /\ new[1].kind \in AnswerKinds
  PROVE  \A i \in 1..Len(lines) :
           /\ lines[i].kind = "opener" /\ Reportable(lines[i].width)
           /\ i = opener => left
           => Once(violations \o new, i)
<1> SUFFICES ASSUME NEW i \in 1..Len(lines),
                    lines[i].kind = "opener", Reportable(lines[i].width),
                    i = opener => left
             PROVE  Once(violations \o new, i)
  OBVIOUS
<1>0. violations \in Seq(Violations)
  BY DEF MarkerTypeOK
<1>1. CASE i # opener
  <2>1. Once(violations, i)
    BY <1>1 DEF AnswersSoFar
  <2>2. \A n \in 1..Len(new) : ~Answers(new[n], i)
    BY <1>1 DEF Answers
  <2> QED
    BY <1>0, <2>1, <2>2, OnceKept
<1>2. CASE i = opener
  <2>1. left /\ opener # 0 /\ openerLen = lines[i].width
    BY <1>2 DEF OpenBlock, MarkerTypeOK
  <2>2. new # <<>> /\ new[1].kind \in AnswerKinds
    BY <2>1
  <2>3. \A n \in 1..Len(violations) : ~Answers(violations[n], i)
    BY <1>2 DEF AnswersSoFar, Answers
  <2>4. 1 \in 1..Len(new)
    BY <2>2, EmptySeq
  <2>5. \A n \in 1..Len(new) : Answers(new[n], i) <=> n = 1
    BY <1>2, <2>2, <2>4 DEF Answers
  <2> QED
    BY <1>0, <2>2, <2>3, <2>5, OnceAdded
<1> QED
  BY <1>1, <1>2

\* One more line.
LEMMA ReadLineStep ==
  ASSUME MarkerInv, ReadLine
  PROVE  MarkerInv'
<1> USE DEF MarkerInv
<1>1. PICK line \in Lines :
        /\ lines' = Append(lines, line)
        /\ \/ ScanOpener(line) \/ ScanCloser(line) \/ ScanDiff3(line)
           \/ ScanSeparator(line) \/ ScanText(line)
  BY DEF ReadLine
<1>2. BlockMoves(line) /\ \E new : violations' = violations \o new /\ LineTells(line, new)
  BY <1>1, LineStep
<1>3. PICK new : violations' = violations \o new /\ LineTells(line, new)
  BY <1>2
<1>4. scan = "reading" /\ scan' = "reading"
  BY DEF ReadLine
<1>5. /\ lines \in Seq(Lines) /\ lines' \in Seq(Lines) /\ Len(lines) \in Nat
      /\ opener \in 0..Len(lines)
      /\ Len(lines') = Len(lines) + 1 /\ lines'[Number] = line
      /\ \A i \in 1..Len(lines) : lines'[i] = lines[i]
      /\ \A i \in 1..Len(lines') : i \in 1..Len(lines) \/ i = Number
      /\ Number = Len(lines) + 1
  BY <1>1, TextKept DEF MarkerTypeOK, Number
<1>6. /\ violations \in Seq(Violations) /\ new \in Seq(Violations)
      /\ violations' \in Seq(Violations)
      /\ \A n \in 1..Len(violations) : n \in 1..Len(violations') /\ violations'[n] = violations[n]
      /\ \A n \in 1..Len(new) :
           /\ Len(violations) + n \in 1..Len(violations')
           /\ violations'[Len(violations) + n] = new[n]
      /\ \A m \in 1..Len(violations') :
           \/ m \in 1..Len(violations) /\ violations'[m] = violations[m]
           \/ \E n \in 1..Len(new) : violations'[m] = new[n]
      /\ violations' = <<>> => violations = <<>> /\ new = <<>>
  <2>1. violations \in Seq(Violations) /\ new \in Seq(Violations)
    BY <1>3 DEF MarkerTypeOK, LineTells
  <2>2. /\ violations' \in Seq(Violations)
        /\ Len(violations) \in Nat /\ Len(new) \in Nat
        /\ Len(violations') = Len(violations) + Len(new)
        /\ violations' = <<>> => violations = <<>> /\ new = <<>>
    BY <1>3, <2>1, Appended
  <2>3. /\ \A n \in 1..Len(violations) : violations'[n] = violations[n]
        /\ \A n \in 1..Len(new) : violations'[Len(violations) + n] = new[n]
    BY <1>3, <2>1, Appended
  <2>4. \A m \in 1..Len(violations') :
          m \in 1..Len(violations) \/ \E n \in 1..Len(new) : m = Len(violations) + n
    BY <1>3, <2>1, Appended
  <2>5. \A n \in 1..Len(violations) : n \in 1..Len(violations')
    BY <2>2
  <2>6. \A n \in 1..Len(new) : Len(violations) + n \in 1..Len(violations')
    BY <2>2
  <2> QED
    BY <2>1, <2>2, <2>3, <2>4, <2>5, <2>6, ZenonT(60)
<1>7. MarkerTypeOK'
  <2>1. line.width \in Nat
    <3>1. line.width \in Widths \cup {0}
      BY <1>1 DEF Lines
    <3>2. \A w \in Widths : w \in Nat
      BY MarkerAssumption
    <3>3. 0 \in Nat
      OBVIOUS
    <3> QED
      BY ONLY <3>1, <3>2, <3>3, Zenon
  <2>2. /\ opener' \in {opener, 0, Number} /\ openerLen' \in Nat
        /\ hasSeparator' \in BOOLEAN
    BY <1>2, <2>1 DEF BlockMoves, MarkerTypeOK
  <2>3. opener' \in 0..Len(lines')
    BY <1>5, <2>2
  <2> QED
    BY <1>4, <1>5, <1>6, <2>2, <2>3 DEF MarkerTypeOK
<1>8. OpenBlock'
  BY <1>1, <1>2, BlockStays
<1>9. AnswersSoFar'
  <2>1. ASSUME NEW m \in 1..Len(violations'), violations'[m].kind \in AnswerKinds
        PROVE  violations'[m].at \in 1..Len(lines') /\ violations'[m].at # opener'
    <3>1. CASE m \in 1..Len(violations) /\ violations'[m] = violations[m]
      <4>1. violations[m].at \in 1..Len(lines) /\ violations[m].at # opener
        BY <1>4, <2>1, <3>1 DEF AnswersSoFar
      <4>2. opener' \in {opener, 0, Number}
        BY <1>2 DEF BlockMoves
      <4> QED
        BY <1>5, <3>1, <4>1, <4>2
    <3>2. CASE \E n \in 1..Len(new) : violations'[m] = new[n]
      <4>1. violations'[m].at = opener /\ opener # 0 /\ opener' # opener
        BY <1>3, <2>1, <3>2 DEF LineTells
      <4> QED
        BY <1>5, <4>1
    <3> QED
      BY <1>6, <3>1, <3>2
  <2>2. ASSUME NEW i \in 1..Len(lines'), lines'[i].kind = "opener",
               Reportable(lines'[i].width), i # opener'
        PROVE  Once(violations', i)
    <3>1. i # Number
      BY <1>2, <1>5, <2>2 DEF BlockMoves
    <3>2. i \in 1..Len(lines) /\ lines'[i] = lines[i]
      BY <1>5, <3>1
    <3> DEFINE left == opener' # opener
    <3>3. /\ \A n \in 1..Len(new) : new[n].kind \in AnswerKinds =>
                                      n = 1 /\ left /\ opener # 0 /\ new[n].at = opener
          /\ opener # 0 /\ left /\ Reportable(openerLen)
               => new # <<>> /\ new[1].kind \in AnswerKinds
          /\ i = opener => left
      BY <1>3, <2>2 DEF LineTells
    <3>4. left \in BOOLEAN
      OBVIOUS
    <3> HIDE DEF left
    <3>5. Once(violations \o new, i)
      BY <1>4, <1>6, <2>2, <3>2, <3>3, <3>4, AnswersKept
    <3> QED
      BY <1>3, <3>5
  <2> QED
    BY <2>1, <2>2 DEF AnswersSoFar
<1>10. SilenceSoFar'
  <2> SUFFICES ASSUME violations' = <<>>
               PROVE  \/ opener' # 0 /\ Reportable(openerLen')
                      \/ \A i \in 1..Len(lines') :
                           lines'[i].kind \in MarkerKinds /\ Reportable(lines'[i].width) =>
                             lines'[i].kind = "separator" /\ IsSetext(lines', i)
    BY DEF SilenceSoFar
  <2>1. violations = <<>> /\ new = <<>>
    BY <1>6
  <2>2. CASE opener # 0 /\ Reportable(openerLen)
    <3>1. opener' = opener
      BY <1>3, <2>1, <2>2 DEF LineTells
    <3>2. openerLen' = openerLen
      BY <1>2, <1>5, <2>2, <3>1 DEF BlockMoves
    <3> QED
      BY <2>2, <3>1, <3>2
  <2>3. CASE ~(opener # 0 /\ Reportable(openerLen))
    <3>1. \A i \in 1..Len(lines) :
            lines[i].kind \in MarkerKinds /\ Reportable(lines[i].width) =>
              lines[i].kind = "separator" /\ IsSetext(lines, i)
      BY <1>4, <2>1, <2>3 DEF SilenceSoFar
    <3>2. line.kind \in MarkerKinds /\ Reportable(line.width) =>
            \/ opener' # 0 /\ Reportable(openerLen')
            \/ line.kind = "separator" /\ IsSetext(lines, Number)
      BY <1>3, <2>1 DEF LineTells
    <3>3. \A i \in 1..Len(lines') : IsSetext(lines', i) <=> IsSetext(lines, i)
      BY <1>1, <1>5, TextKept
    <3> QED
      BY <1>5, <3>1, <3>2, <3>3
  <2> QED
    BY <2>2, <2>3
<1>11. BlocksAreBlocks'
  <2> SUFFICES ASSUME NEW i \in 1..Len(lines')
               PROVE  (\E k \in i..Len(lines') : IsBlock(lines', i, k))
                        <=> (\E n \in 1..Len(violations') :
                               violations'[n] = Violation("block", i))
    BY DEF BlocksAreBlocks
  <2>1. ASSUME NEW k \in i..Len(lines'), IsBlock(lines', i, k)
        PROVE  \E n \in 1..Len(violations') : violations'[n] = Violation("block", i)
    <3>1. CASE k = Number
      <4>1. Closes(line) /\ i = opener
        BY <1>1, <2>1, <3>1, BlockCompleted
      <4>2. PICK n \in 1..Len(new) : new[n].kind = "block"
        BY <1>3, <4>1 DEF LineTells
      <4>3. new[n].at = i /\ new[n] \in Violations
        BY <1>3, <1>6, <4>1, <4>2 DEF LineTells, AnswerKinds
      <4>4. new[n] = Violation("block", i)
        <5>1. \A v \in Violations : v = [kind |-> v.kind, at |-> v.at]
          BY DEF Violations
        <5> QED
          BY <4>2, <4>3, <5>1 DEF Violation
      <4>5. /\ Len(violations) + n \in 1..Len(violations')
            /\ violations'[Len(violations) + n] = new[n]
        BY <1>6, <4>2
      <4> QED
        BY <4>4, <4>5
    <3>2. CASE k # Number
      <4>1. k \in 1..Len(lines) /\ i \in 1..Len(lines) /\ i <= k
        BY <1>5, <3>2
      <4>2. IsBlock(lines, i, k)
        BY <1>1, <1>5, <2>1, <4>1, TextKept
      <4>3. \E n \in 1..Len(violations) : violations[n] = Violation("block", i)
        BY <1>5, <4>1, <4>2 DEF BlocksAreBlocks
      <4> QED
        BY <1>6, <4>3
    <3> QED
      BY <3>1, <3>2
  <2>2. ASSUME NEW m \in 1..Len(violations'), violations'[m] = Violation("block", i)
        PROVE  \E k \in i..Len(lines') : IsBlock(lines', i, k)
    <3>0. violations'[m].kind = "block" /\ violations'[m].at = i
      BY <2>2 DEF Violation
    <3>1. CASE m \in 1..Len(violations) /\ violations'[m] = violations[m]
      <4>1. i \in 1..Len(lines)
        BY <1>4, <3>0, <3>1 DEF AnswersSoFar, AnswerKinds
      <4>2. PICK k \in i..Len(lines) : IsBlock(lines, i, k)
        BY <2>2, <3>1, <4>1 DEF BlocksAreBlocks
      <4>3. k \in 1..Len(lines) /\ i <= k /\ k \in i..Len(lines')
        BY <1>5, <4>1, <4>2
      <4>4. IsBlock(lines', i, k)
        BY <1>1, <1>5, <4>1, <4>2, <4>3, TextKept
      <4> QED
        BY <4>3, <4>4
    <3>2. CASE \E n \in 1..Len(new) : violations'[m] = new[n]
      <4>1. PICK n \in 1..Len(new) : new[n].kind = "block" /\ new[n].at = i
        BY <3>0, <3>2
      <4>2. Closes(line) /\ i = opener
        BY <1>3, <4>1 DEF LineTells, AnswerKinds
      <4>3. IsBlock(lines', i, Number)
        BY <1>1, <4>2, BlockCompleted
      <4> QED
        BY <1>5, <4>3
    <3> QED
      BY <1>6, <3>1, <3>2
  <2> QED
    BY <2>1, <2>2
<1> QED
  BY <1>4, <1>7, <1>8, <1>9, <1>10, <1>11 DEF OpenersAnsweredOnce, CleanMeansNoMarker

\* The limit and the end of the text add at most one entry, which completes no
\* block, and read no line.
LEMMA StopStep ==
  ASSUME MarkerInv, StopAtLimit \/ EndText
  PROVE  MarkerInv'
<1> USE DEF MarkerInv
<1>1. /\ UNCHANGED <<lines, opener, openerLen, hasSeparator>>
      /\ scan # "done"
  BY DEF StopAtLimit, EndText, KeepBlock
<1>2. /\ violations \in Seq(Violations) /\ opener \in 0..Len(lines) /\ Len(lines) \in Nat
  BY DEF MarkerTypeOK
<1>3. CASE StopAtLimit
  <2> DEFINE v == Violation("limit", 0)
  <2>1. scan' = "limit" /\ violations' = violations \o <<v>>
    BY <1>3 DEF StopAtLimit, Report
  <2>2. v \in Violations /\ v.kind = "limit"
    BY DEF Violation, Violations
  <2> HIDE DEF v
  <2>3. /\ <<v>> \in Seq(Violations) /\ <<v>> # <<>>
        /\ \A n \in 1..Len(<<v>>) : <<v>>[n].kind = "limit"
    BY <2>2
  <2>4. /\ violations' \in Seq(Violations) /\ violations' # <<>>
        /\ \A n \in 1..Len(violations) :
             n \in 1..Len(violations') /\ violations'[n] = violations[n]
        /\ \A m \in 1..Len(violations') :
             m \in 1..Len(violations) \/ violations'[m].kind = "limit"
    <3>1. /\ violations' \in Seq(Violations) /\ Len(violations) \in Nat /\ Len(<<v>>) \in Nat
          /\ Len(violations') = Len(violations) + Len(<<v>>)
          /\ violations' # <<>>
      BY <1>2, <2>1, <2>3, Appended
    <3>2. /\ \A n \in 1..Len(violations) : violations'[n] = violations[n]
          /\ \A n \in 1..Len(<<v>>) : violations'[Len(violations) + n] = <<v>>[n]
      BY <1>2, <2>1, <2>3, Appended
    <3>3. \A m \in 1..Len(violations') :
            m \in 1..Len(violations) \/ \E n \in 1..Len(<<v>>) : m = Len(violations) + n
      BY <1>2, <2>1, <2>3, Appended
    <3>4. \A n \in 1..Len(violations) : n \in 1..Len(violations')
      BY <3>1
    <3> QED
      BY <2>3, <3>1, <3>2, <3>3, <3>4
  <2>5. MarkerTypeOK'
    BY <1>1, <2>1, <2>4 DEF MarkerTypeOK
  <2>6. OpenBlock'
    BY <1>1 DEF OpenBlock
  <2>7. AnswersSoFar'
    <3>1. ASSUME NEW i \in 1..Len(lines), Once(violations, i)
          PROVE  Once(violations', i)
      <4>1. \A n \in 1..Len(<<v>>) : ~Answers(<<v>>[n], i)
        BY <2>3 DEF Answers, AnswerKinds
      <4> QED
        BY <1>2, <2>1, <2>3, <3>1, <4>1, OnceKept
    <3>2. ASSUME NEW m \in 1..Len(violations'), violations'[m].kind \in AnswerKinds
          PROVE  violations'[m].at \in 1..Len(lines) /\ violations'[m].at # opener
      <4>1. m \in 1..Len(violations) /\ violations'[m] = violations[m]
        BY <2>4, <3>2 DEF AnswerKinds
      <4> QED
        BY <1>1, <3>2, <4>1 DEF AnswersSoFar
    <3> QED
      BY <1>1, <3>1, <3>2 DEF AnswersSoFar
  <2>8. BlocksAreBlocks'
    <3>1. \A i : (\E n \in 1..Len(violations') : violations'[n] = Violation("block", i))
                   <=> (\E n \in 1..Len(violations) : violations[n] = Violation("block", i))
      <4>1. \A i : Violation("block", i).kind # "limit"
        BY DEF Violation
      <4> QED
        BY <2>4, <4>1
    <3> QED
      BY <1>1, <3>1 DEF BlocksAreBlocks
  <2> QED
    BY <2>1, <2>4, <2>5, <2>6, <2>7, <2>8
       DEF SilenceSoFar, OpenersAnsweredOnce, CleanMeansNoMarker
<1>4. CASE EndText
  <2>1. scan' = "done" /\ violations' = violations \o OpenerUnclosed
    BY <1>4 DEF EndText, Report
  <2>2. /\ OpenerUnclosed \in Seq(Violations)
        /\ OpenerUnclosed = <<>> <=> ~(opener # 0 /\ Reportable(openerLen))
        /\ \A n \in 1..Len(OpenerUnclosed) :
             /\ n = 1 /\ opener # 0
             /\ OpenerUnclosed[n].kind = "unclosed" /\ OpenerUnclosed[n].at = opener
    BY UnclosedReport
  <2>3. /\ violations' \in Seq(Violations)
        /\ violations' = <<>> => violations = <<>> /\ OpenerUnclosed = <<>>
        /\ \A n \in 1..Len(violations) :
             n \in 1..Len(violations') /\ violations'[n] = violations[n]
        /\ \A m \in 1..Len(violations') :
             m \in 1..Len(violations) \/ violations'[m].kind = "unclosed"
    <3>1. /\ violations' \in Seq(Violations)
          /\ Len(violations) \in Nat /\ Len(OpenerUnclosed) \in Nat
          /\ Len(violations') = Len(violations) + Len(OpenerUnclosed)
          /\ violations' = <<>> => violations = <<>> /\ OpenerUnclosed = <<>>
      BY <1>2, <2>1, <2>2, Appended
    <3>2. /\ \A n \in 1..Len(violations) : violations'[n] = violations[n]
          /\ \A n \in 1..Len(OpenerUnclosed) :
               violations'[Len(violations) + n] = OpenerUnclosed[n]
      BY <1>2, <2>1, <2>2, Appended
    <3>3. \A m \in 1..Len(violations') :
            \/ m \in 1..Len(violations)
            \/ \E n \in 1..Len(OpenerUnclosed) : m = Len(violations) + n
      BY <1>2, <2>1, <2>2, Appended
    <3>4. \A n \in 1..Len(violations) : n \in 1..Len(violations')
      BY <3>1
    <3>5. \A m \in 1..Len(violations') :
            m \in 1..Len(violations) \/ violations'[m].kind = "unclosed"
      <4> TAKE m \in 1..Len(violations')
      <4>1. CASE \E n \in 1..Len(OpenerUnclosed) : m = Len(violations) + n
        <5>1. PICK n \in 1..Len(OpenerUnclosed) : m = Len(violations) + n
          BY <4>1
        <5>2. violations'[m] = OpenerUnclosed[n]
          BY <3>2, <5>1
        <5> QED
          BY <2>2, <5>2
      <4> QED
        BY <3>3, <4>1
    <3> QED
      BY <3>1, <3>2, <3>4, <3>5
  <2>4. MarkerTypeOK'
    BY <1>1, <2>1, <2>3 DEF MarkerTypeOK
  <2>5. OpenBlock'
    BY <1>1 DEF OpenBlock
  <2>6. OpenersAnsweredOnce'
    <3>1. /\ \A n \in 1..Len(OpenerUnclosed) :
               OpenerUnclosed[n].kind \in AnswerKinds =>
                 n = 1 /\ TRUE /\ opener # 0 /\ OpenerUnclosed[n].at = opener
          /\ opener # 0 /\ TRUE /\ Reportable(openerLen) =>
               OpenerUnclosed # <<>> /\ OpenerUnclosed[1].kind \in AnswerKinds
      <4>1. OpenerUnclosed # <<>> => 1 \in 1..Len(OpenerUnclosed)
        BY <2>2, EmptySeq
      <4> QED
        BY <2>2, <4>1 DEF AnswerKinds
    <3>2. \A i \in 1..Len(lines) :
            lines[i].kind = "opener" /\ Reportable(lines[i].width) =>
              Once(violations \o OpenerUnclosed, i)
      BY <1>1, <2>2, <3>1, AnswersKept
    <3>3. lines' = lines /\ violations' = violations \o OpenerUnclosed
      BY <1>1, <2>1
    <3>4. \A i \in 1..Len(lines') :
            lines'[i].kind = "opener" /\ Reportable(lines'[i].width) =>
              Once(violations', i)
      BY <3>2, <3>3
    <3> QED
      BY <3>4 DEF OpenersAnsweredOnce, Once, Answers, AnswerKinds
  <2>7. CleanMeansNoMarker'
    <3>1. violations' = <<>> =>
            \A i \in 1..Len(lines) :
              lines[i].kind \in MarkerKinds /\ Reportable(lines[i].width) =>
                lines[i].kind = "separator" /\ IsSetext(lines, i)
      BY <1>1, <2>2, <2>3 DEF SilenceSoFar
    <3> QED
      BY <1>1, <3>1 DEF CleanMeansNoMarker
  <2>8. BlocksAreBlocks'
    <3>1. \A i : (\E n \in 1..Len(violations') : violations'[n] = Violation("block", i))
                   <=> (\E n \in 1..Len(violations) : violations[n] = Violation("block", i))
      <4>1. \A i : Violation("block", i).kind # "unclosed"
        BY DEF Violation
      <4> QED
        BY <2>3, <4>1
    <3> QED
      BY <1>1, <3>1 DEF BlocksAreBlocks
  <2> QED
    BY <2>1, <2>4, <2>5, <2>6, <2>7, <2>8 DEF AnswersSoFar, SilenceSoFar
<1> QED
  BY <1>3, <1>4

\* The invariant of the scan, for any marker widths, any configured width, any
\* limit on the violations and any length of text.
THEOREM MarkerInvariant == MarkerSpec => []MarkerInv
<1>1. ASSUME MarkerInit
      PROVE  MarkerInv
  <2>1. MarkerTypeOK
    <3>1. lines \in Seq(Lines) /\ violations \in Seq(Violations) /\ Len(lines) = 0
      BY <1>1 DEF MarkerInit
    <3>2. opener = 0 /\ openerLen = 0 /\ hasSeparator = FALSE /\ scan = "reading"
      BY <1>1 DEF MarkerInit
    <3>3. opener \in 0..Len(lines) /\ openerLen \in Nat
      BY <3>1, <3>2
    <3>4. hasSeparator \in BOOLEAN
      BY <3>2, Zenon
    <3> QED
      BY <3>1, <3>2, <3>3, <3>4 DEF MarkerTypeOK
  <2>2. Len(lines) = 0 /\ opener = 0 /\ scan = "reading" /\ Len(violations) = 0
    BY <1>1 DEF MarkerInit
  <2>3. OpenBlock /\ AnswersSoFar /\ SilenceSoFar
    BY <2>2 DEF OpenBlock, AnswersSoFar, SilenceSoFar
  <2>4. OpenersAnsweredOnce /\ CleanMeansNoMarker /\ BlocksAreBlocks
    BY <2>2 DEF OpenersAnsweredOnce, CleanMeansNoMarker, BlocksAreBlocks
  <2> QED
    BY <2>1, <2>3, <2>4 DEF MarkerInv
<1>2. MarkerInv /\ [MarkerNext]_markerVars => MarkerInv'
  <2> SUFFICES ASSUME MarkerInv, [MarkerNext]_markerVars
               PROVE  MarkerInv'
    OBVIOUS
  <2>1. CASE UNCHANGED markerVars
    <3>1. UNCHANGED <<lines, opener, openerLen, hasSeparator, violations, scan>>
      BY <2>1 DEF markerVars
    <3>2. MarkerTypeOK' /\ OpenBlock' /\ AnswersSoFar' /\ SilenceSoFar'
      BY <3>1 DEF MarkerInv, MarkerTypeOK, OpenBlock, AnswersSoFar, SilenceSoFar
    <3>3. OpenersAnsweredOnce' /\ CleanMeansNoMarker' /\ BlocksAreBlocks'
      BY <3>1 DEF MarkerInv, OpenersAnsweredOnce, CleanMeansNoMarker, BlocksAreBlocks
    <3> QED
      BY <3>2, <3>3 DEF MarkerInv
  <2>2. CASE MarkerNext
    BY <2>2, ReadLineStep, StopStep DEF MarkerNext
  <2> QED
    BY <2>1, <2>2
<1> QED
  BY <1>1, <1>2, PTL DEF MarkerSpec

\* check_content reports exactly what git would have left in a text: each
\* opener once, complete blocks of any width and nothing else as a block, and
\* silence only where there is no marker but the underline of a heading.
THEOREM MarkersAreReportedHolds == MarkerSpec => []MarkersAreReported
<1>1. MarkerInv => MarkersAreReported
  BY DEF MarkerInv, MarkersAreReported
<1> QED
  BY <1>1, MarkerInvariant, PTL


-----------------------------------------------------------------------------
(* The scan of a tree *)

\* The findings of the checkers in one entry, which leave conflicts to the
\* other checker.
Flawed(i) == EntryFindings(tree[i]) > 0

\* The entries that were scanned are those before the next; they all fit, their
\* bytes are counted, and the findings are theirs.
ScanTells ==
  stage # "ended" =>
    /\ ~broken /\ result = "none"
    /\ total = BytesUpTo[next - 1]
    /\ \A i \in 1..(next - 1) : BlobFits(tree[i].blob)
    /\ stage \notin {"prepare", "git", "list"} =>
         \A i \in DOMAIN tree : tree[i].mode # "submodule"
    /\ stage \in {"prepare", "git", "list"} => next = 1
    /\ stage \in {"prepare", "git", "list", "blobs", "conflicts"} =>
         /\ findings = 0 <=> \A i \in 1..(next - 1) : ~Flawed(i)
         /\ ~denied
    /\ stage = "conflicts" => next = Len(tree) + 1

\* Once the tree is read, there are findings exactly when something is wrong
\* with it or with the metadata; without any, every entry was scanned.
FindingsTell ==
  stage \in {"metadata", "commits", "report"} =>
    /\ findings > 0 => denied \/ \E i \in DOMAIN tree : Breaks(tree[i])
    /\ findings = 0 =>
         /\ ~denied /\ next = Len(tree) + 1
         /\ \A i \in DOMAIN tree : ~Breaks(tree[i])

\* The inductive invariant behind ScanIsSound.
ComplianceInv ==
  ComplianceTypeOK /\ ScanTells /\ FindingsTell /\ PassIffCompliant /\ PathRestored

\* A nonempty set of natural numbers has a least element.
LEMMA LeastExists ==
  ASSUME NEW T \in SUBSET Nat, T # {}
  PROVE  \E m \in T : \A y \in T : m <= y
<1> DEFINE R == {ss \in Nat \X Nat : ss[1] < ss[2]}
<1>1. IsWellFoundedOn(R, Nat)
  BY NatLessThanWellFounded DEF OpToRel
<1>2. PICK m \in T : \A y \in T : ~ (<<y, m>> \in R)
  BY <1>1, WFMin
<1>3. ASSUME NEW y \in T PROVE m <= y
  <2>1. ~(y < m)
    BY <1>2
  <2> QED BY <2>1
<1> QED BY <1>3

\* f adds up the first n sizes.
AddsUp(f, size, n) ==
  /\ f \in [0..n -> Nat] /\ f[0] = 0
  /\ \A i \in 1..n : f[i] = f[i - 1] + size[i]

\* Any number of sizes can be added up.
LEMMA SumsExist ==
  ASSUME NEW length \in Nat, NEW size \in [1..length -> Nat]
  PROVE  \E f : AddsUp(f, size, length)
<1> DEFINE Short == {n \in Nat : n <= length /\ ~ \E f : AddsUp(f, size, n)}
<1>1. CASE Short = {}
  <2>1. length \notin Short
    BY <1>1
  <2> QED BY <2>1
<1>2. CASE Short # {}
  <2>1. PICK n \in Short : \A k \in Short : n <= k
    <3>1. Short \in SUBSET Nat
      OBVIOUS
    <3> HIDE DEF Short
    <3> QED BY <1>2, <3>1, LeastExists
  <2>2. n \in Nat /\ n <= length /\ ~ \E f : AddsUp(f, size, n)
    OBVIOUS
  <2>3. n # 0
    <3>1. AddsUp([i \in 0..0 |-> 0], size, 0)
      BY DEF AddsUp
    <3> QED BY <2>2, <3>1
  <2>4. n - 1 \in Nat /\ n - 1 <= length /\ n - 1 \notin Short
    BY <2>1, <2>2, <2>3
  <2>5. PICK f : AddsUp(f, size, n - 1)
    BY <2>4
  <2> DEFINE g == [i \in 0..n |-> IF i = n THEN f[n - 1] + size[n] ELSE f[i]]
  <2>6. f[n - 1] \in Nat /\ size[n] \in Nat
    BY <2>2, <2>3, <2>5 DEF AddsUp
  <2>7. g \in [0..n -> Nat] /\ g[0] = 0
    BY <2>2, <2>3, <2>5, <2>6 DEF AddsUp
  <2>8. ASSUME NEW i \in 1..n PROVE g[i] = g[i - 1] + size[i]
    <3>1. i \in 0..n /\ i - 1 \in 0..n /\ i - 1 # n
      BY <2>2
    <3>2. CASE i = n
      BY <3>1, <3>2
    <3>3. CASE i # n
      <4>1. i \in 1..(n - 1)
        BY <2>2, <3>3
      <4>2. f[i] = f[i - 1] + size[i]
        BY <2>5, <4>1 DEF AddsUp
      <4> QED BY <3>1, <3>3, <4>2
    <3> QED BY <3>2, <3>3
  <2>9. AddsUp(g, size, n)
    BY <2>7, <2>8 DEF AddsUp
  <2> QED BY <2>2, <2>9
<1> QED BY <1>1, <1>2

\* The bytes counted up to an entry are those before it and its own.
LEMMA BytesAre ==
  ASSUME tree \in Seq(TreeEntries)
  PROVE  /\ BytesUpTo[0] = 0
         /\ \A n \in 1..Len(tree) : BytesUpTo[n] = BytesUpTo[n - 1] + BlobSize[tree[n].blob]
<1> DEFINE Body(f) == [n \in 0..Len(tree) |->
             IF n = 0 THEN 0 ELSE f[n - 1] + BlobSize[tree[n].blob]]
           size == [n \in 1..Len(tree) |-> BlobSize[tree[n].blob]]
<1>1. Len(tree) \in Nat /\ size \in [1..Len(tree) -> Nat]
  <2>1. \A n \in 1..Len(tree) : tree[n] \in TreeEntries
    OBVIOUS
  <2>2. \A n \in 1..Len(tree) : BlobSize[tree[n].blob] \in Nat
    BY <2>1, ComplianceAssumption DEF TreeEntries
  <2> QED BY <2>2
<1>2. \E f : f = Body(f)
  <2>1. PICK f : AddsUp(f, size, Len(tree))
    <3> HIDE DEF size
    <3> QED BY <1>1, SumsExist
  <2>2. f \in [0..Len(tree) -> Nat] /\ f[0] = 0
        /\ \A n \in 1..Len(tree) : f[n] = f[n - 1] + BlobSize[tree[n].blob]
    BY <2>1 DEF AddsUp
  <2>3. \A n \in 0..Len(tree) : f[n] = Body(f)[n]
    BY <2>2
  <2>4. f = Body(f)
    BY <2>2, <2>3
  <2> HIDE DEF Body
  <2> QED BY <2>4
<1>3. BytesUpTo = CHOOSE f : f = Body(f)
  BY Zenon DEF BytesUpTo
<1>4. BytesUpTo = Body(BytesUpTo)
  <2> HIDE DEF Body
  <2> QED BY <1>2, <1>3
<1>5. \A n \in 0..Len(tree) :
        BytesUpTo[n] = IF n = 0 THEN 0 ELSE BytesUpTo[n - 1] + BlobSize[tree[n].blob]
  BY <1>4
<1> HIDE DEF Body
<1> QED BY <1>1, <1>5

\* In a tree without submodules an entry breaks a rule exactly when one of the
\* checkers finds something in it: those of _scan_blob or the conflict checker.
LEMMA RulesAreChecked ==
  ASSUME texts \in [Blobs -> Texts], NEW e \in TreeEntries, e.mode # "submodule"
  PROVE  /\ EntryFindings(e) \in Nat
         /\ Breaks(e) <=> \/ EntryFindings(e) > 0
                          \/ e.mode = "file" /\ texts[e.blob] = "conflict"
<1>1. e.place \in Places /\ e.mode \in {"file", "link"} /\ e.blob \in Blobs
  BY DEF TreeEntries
<1>2. PICK rule \in Texts : rule = texts[e.blob]
  BY <1>1
<1>3. CASE e.mode = "link"
  BY <1>2, <1>3 DEF EntryFindings, Breaks, Critical
<1>4. CASE e.mode = "file"
  <2>1. rule \in RulesFor(e.place) <=>
          \/ rule = "secret"
          \/ rule \in WorkflowRules /\ e.place \in {"workflow", "action"}
          \/ rule = "hash" /\ e.place \in {"code", "checker"}
          \/ rule = "root" /\ e.place \in {"container", "workflow", "action"}
    BY DEF RulesFor
  <2>2. EntryFindings(e) = IF rule \in RulesFor(e.place) THEN 1 ELSE 0
    BY <1>2, <1>4 DEF EntryFindings
  <2> QED BY <1>2, <1>4, <2>1, <2>2 DEF Breaks
<1> QED BY <1>1, <1>3, <1>4

\* The entries with a conflict are counted by a natural number, zero for none.
LEMMA ConflictedCounted ==
  ASSUME tree \in Seq(TreeEntries)
  PROVE  /\ Cardinality(Conflicted) \in Nat
         /\ Conflicted = {} <=> Cardinality(Conflicted) = 0
<1>1. Len(tree) \in Nat /\ DOMAIN tree = 1..Len(tree)
  OBVIOUS
<1>2. Conflicted \subseteq 1..Len(tree)
  BY <1>1 DEF Conflicted
<1>3. IsFiniteSet(1..Len(tree))
  BY <1>1, FS_Interval
<1>4. IsFiniteSet(Conflicted)
  BY <1>2, <1>3, FS_Subset
<1> QED BY <1>4, FS_CardinalityType, FS_EmptySet

\* What is said of the tree stays while the tree and the texts do.
LEMMA TreeStays ==
  ASSUME UNCHANGED Given
  PROVE  /\ BytesUpTo' = BytesUpTo
         /\ TooLarge' <=> TooLarge
         /\ \A i : Flawed(i)' <=> Flawed(i)
         /\ \A i : Breaks(tree[i])' <=> Breaks(tree[i])
         /\ \A i : BlobFits(tree[i].blob)' <=> BlobFits(tree[i].blob)
<1>1. tree' = tree /\ texts' = texts
  BY DEF Given
<1>2. BytesUpTo' = BytesUpTo
  BY <1>1 DEF BytesUpTo
<1>3. TooLarge' <=> TooLarge
  BY <1>1, <1>2 DEF TooLarge
<1>4. ASSUME NEW i PROVE Flawed(i)' <=> Flawed(i)
  BY <1>1 DEF Flawed, EntryFindings
<1>5. ASSUME NEW i PROVE Breaks(tree[i])' <=> Breaks(tree[i])
  BY <1>1 DEF Breaks
<1>6. ASSUME NEW i PROVE BlobFits(tree[i].blob)' <=> BlobFits(tree[i].blob)
  BY <1>1 DEF BlobFits
<1> QED BY <1>2, <1>3, <1>4, <1>5, <1>6

\* Nothing was scanned when the scan starts.
LEMMA ComplianceInitEstablishes == ComplianceInit => ComplianceInv
<1> SUFFICES ASSUME ComplianceInit PROVE ComplianceInv
  OBVIOUS
<1>1. PICK n \in 0..MaxEntries : tree \in [1..n -> TreeEntries]
  BY DEF ComplianceInit
<1>2. n \in Nat /\ tree \in Seq(TreeEntries) /\ Len(tree) = n
  BY <1>1, ComplianceAssumption
<1>3. ComplianceTypeOK
  <2>1. next \in 1..(Len(tree) + 1)
    BY <1>2 DEF ComplianceInit
  <2>2. total \in 0..MaxTotalBytes
    BY ComplianceAssumption DEF ComplianceInit
  <2> QED BY <1>2, <2>1, <2>2 DEF ComplianceInit, ComplianceTypeOK
<1>4. BytesUpTo[0] = 0
  BY <1>2, BytesAre
<1>5. ScanTells
  BY <1>4 DEF ComplianceInit, ScanTells
<1>6. FindingsTell /\ PassIffCompliant /\ PathRestored
  BY DEF ComplianceInit, FindingsTell, PassIffCompliant, PathRestored
<1> QED BY <1>3, <1>5, <1>6 DEF ComplianceInv

\* An exception fails the scan and puts PATH back, whatever was found before.
LEMMA RaiseKeeps ==
  ASSUME ComplianceInv, Raise
  PROVE  ComplianceInv'
<1>1. ComplianceTypeOK'
  BY DEF ComplianceInv, ComplianceTypeOK, Raise, End, Given
<1>2. ScanTells' /\ FindingsTell' /\ PathRestored'
  BY DEF Raise, End, ScanTells, FindingsTell, PathRestored
<1>3. PassIffCompliant'
  BY DEF Raise, End, PassIffCompliant
<1> QED BY <1>1, <1>2, <1>3 DEF ComplianceInv

\* The options and the executable are checked before anything is read.
LEMMA PreparationKeeps ==
  ASSUME ComplianceInv, Prepare \/ PrepareGit
  PROVE  ComplianceInv'
<1>1. UNCHANGED <<Given, next, cache, total, findings, search, broken, denied, result>>
      /\ stage \in {"prepare", "git"} /\ stage' \in {"git", "list"}
  BY DEF Prepare, PrepareGit, Proceed
<1>2. ComplianceTypeOK'
  BY <1>1 DEF ComplianceInv, ComplianceTypeOK, Given
<1>3. ScanTells'
  <2>1. tree' = tree
    BY <1>1 DEF Given
  <2> QED BY <1>1, <2>1, TreeStays DEF ComplianceInv, ScanTells
<1>4. FindingsTell' /\ PathRestored' /\ PassIffCompliant'
  BY <1>1 DEF ComplianceInv, ScanTells, FindingsTell, PathRestored, PassIffCompliant
<1> QED BY <1>2, <1>3, <1>4 DEF ComplianceInv

\* A tree with a submodule is refused; from here on there is none.
LEMMA ListTreeKeeps ==
  ASSUME ComplianceInv, ListTree
  PROVE  ComplianceInv'
<1>1. CASE \E i \in DOMAIN tree : tree[i].mode = "submodule"
  BY <1>1, RaiseKeeps DEF ListTree
<1>2. CASE ~ \E i \in DOMAIN tree : tree[i].mode = "submodule"
  <2>1. /\ UNCHANGED <<Given, next, cache, total, findings, search, broken, denied, result>>
        /\ stage = "list" /\ stage' = "blobs" /\ tree' = tree
    BY <1>2 DEF ListTree, Proceed, Given
  <2>2. ComplianceTypeOK'
    BY <2>1 DEF ComplianceInv, ComplianceTypeOK, Given
  <2>3. ScanTells'
    BY <1>2, <2>1, TreeStays DEF ComplianceInv, ScanTells
  <2>4. FindingsTell' /\ PathRestored' /\ PassIffCompliant'
    BY <2>1 DEF ComplianceInv, ScanTells, FindingsTell, PathRestored, PassIffCompliant
  <2> QED BY <2>2, <2>3, <2>4 DEF ComplianceInv
<1> QED BY <1>1, <1>2

\* One more entry is read: it fits, its bytes and its findings are counted, and
\* a list that is cut holds a finding.
LEMMA ScanEntryKeeps ==
  ASSUME ComplianceInv, ScanEntry
  PROVE  ComplianceInv'
<1>1. tree \in Seq(TreeEntries) /\ texts \in [Blobs -> Texts] /\ next \in 1..Len(tree)
      /\ Len(tree) \in Nat /\ total \in 0..MaxTotalBytes /\ findings \in Nat
      /\ stage = "blobs"
  BY DEF ComplianceInv, ComplianceTypeOK, ScanEntry
<1>2. PICK e \in TreeEntries : e = tree[next]
  BY <1>1
<1>3. e.blob \in Blobs /\ BlobSize[e.blob] \in Nat /\ MaxTotalBytes \in Nat
      /\ MaxFindings \in Nat \ {0}
  BY ComplianceAssumption DEF TreeEntries
<1>4. PICK sum \in Nat : sum = total + BlobSize[e.blob]
  BY <1>1, <1>3
<1>5. e.mode # "submodule"
  BY <1>1, <1>2 DEF ComplianceInv, ScanTells
<1>6. PICK found_in \in Nat : found_in = EntryFindings(e)
  BY <1>1, <1>5, RulesAreChecked
<1>7. CASE ~BlobFits(e.blob) \/ sum > MaxTotalBytes
  BY <1>2, <1>4, <1>7, RaiseKeeps DEF ScanEntry
<1>8. CASE BlobFits(e.blob) /\ ~(sum > MaxTotalBytes)
  <2>1. PICK sofar \in Nat : sofar = findings + found_in
    BY <1>1
  <2>2. /\ cache' = cache \cup {e.blob}
        /\ total' = sum
        /\ findings' = IF sofar >= MaxFindings THEN MaxFindings + 1 ELSE sofar
        /\ next' = next + 1
        /\ stage' = IF sofar >= MaxFindings THEN "metadata" ELSE "blobs"
        /\ UNCHANGED <<Given, search, broken, denied, result>>
    BY <1>2, <1>4, <1>6, <1>8, <2>1 DEF ScanEntry, Proceed
  <2>3. tree' = tree /\ texts' = texts
    BY <2>2 DEF Given
  <2>4. ComplianceTypeOK'
    <3>1. ComplianceTypeOK
      BY DEF ComplianceInv
    <3>2. next' \in 1..(Len(tree') + 1)
      BY <1>1, <2>2, <2>3
    <3>3. total' \in 0..MaxTotalBytes
      BY <1>3, <1>4, <1>8, <2>2
    <3>4. findings' \in Nat
      BY <1>3, <2>1, <2>2
    <3>5. cache' \subseteq Blobs
      BY <1>3, <2>2, <3>1 DEF ComplianceTypeOK
    <3>6. stage' \in {"metadata", "blobs"}
      BY <2>2
    <3> QED BY <2>2, <2>3, <3>1, <3>2, <3>3, <3>4, <3>5, <3>6 DEF ComplianceTypeOK
  <2>5. total' = BytesUpTo'[next' - 1]
    <3>1. total = BytesUpTo[next - 1]
      BY <1>1 DEF ComplianceInv, ScanTells
    <3>2. BytesUpTo[next] = BytesUpTo[next - 1] + BlobSize[e.blob]
      BY <1>1, <1>2, BytesAre
    <3>3. next' - 1 = next
      BY <1>1, <2>2
    <3>4. BytesUpTo' = BytesUpTo
      BY <2>2, TreeStays
    <3> QED BY <1>4, <2>2, <3>1, <3>2, <3>3, <3>4
  <2>6. \A i \in 1..(next' - 1) : i = next \/ i \in 1..(next - 1)
    BY <1>1, <2>2
  <2>7. \A i \in 1..(next' - 1) : BlobFits(tree[i].blob)'
    <3>1. \A i \in 1..(next - 1) : BlobFits(tree[i].blob)
      BY <1>1 DEF ComplianceInv, ScanTells
    <3> QED BY <1>2, <1>8, <2>2, <2>6, <3>1, TreeStays
  <2>8. ~denied /\ ~broken /\ result = "none"
    BY <1>1 DEF ComplianceInv, ScanTells
  <2>9. Flawed(next) <=> found_in > 0
    BY <1>2, <1>6 DEF Flawed
  <2>10. findings = 0 <=> \A i \in 1..(next - 1) : ~Flawed(i)
    BY <1>1 DEF ComplianceInv, ScanTells
  <2>11. sofar = 0 <=> \A i \in 1..(next' - 1) : ~Flawed(i)
    <3>1. sofar = 0 <=> findings = 0 /\ ~(found_in > 0)
      BY <1>1, <2>1
    <3>2. next \in 1..(next' - 1) /\ \A i \in 1..(next - 1) : i \in 1..(next' - 1)
      BY <1>1, <2>2
    <3> QED BY <2>6, <2>9, <2>10, <3>1, <3>2
  <2>12. \A i \in DOMAIN tree : tree[i].mode # "submodule"
    BY <1>1 DEF ComplianceInv, ScanTells
  <2>13. stage' = "blobs" => (findings' = 0 <=> \A i \in 1..(next' - 1) : ~Flawed(i)')
    <3>1. \A i : Flawed(i)' <=> Flawed(i)
      BY <2>2, TreeStays
    <3> QED BY <2>2, <2>11, <3>1
  <2>14. ScanTells'
    <3>1. ~denied' /\ ~broken' /\ result' = "none"
      BY <2>2, <2>8
    <3>2. \A i \in DOMAIN tree' : tree'[i].mode # "submodule"
      BY <2>3, <2>12
    <3>3. stage' \in {"blobs", "metadata"}
      BY <2>2
    <3> QED BY <2>5, <2>7, <2>13, <3>1, <3>2, <3>3 DEF ScanTells
  <2>15. FindingsTell'
    <3> SUFFICES ASSUME stage' = "metadata"
                 PROVE  /\ findings' > 0
                        /\ \E i \in DOMAIN tree' : Breaks(tree[i])'
      BY <2>2 DEF FindingsTell
    <3>1. sofar >= MaxFindings /\ findings' = MaxFindings + 1
      BY <2>2
    <3>2. findings' > 0 /\ sofar > 0
      BY <1>3, <2>1, <3>1
    <3>3. PICK i \in 1..(next' - 1) : Flawed(i)
      BY <2>11, <3>2
    <3>4. i \in DOMAIN tree
      BY <1>1, <2>2
    <3>5. Breaks(tree[i])
      BY <1>1, <2>12, <3>3, <3>4, RulesAreChecked DEF Flawed
    <3> QED BY <2>2, <2>3, <3>2, <3>4, <3>5, TreeStays
  <2>16. PassIffCompliant' /\ PathRestored'
    BY <1>1, <2>2, <2>8 DEF ComplianceInv, PassIffCompliant, PathRestored
  <2> QED BY <2>4, <2>14, <2>15, <2>16 DEF ComplianceInv
<1> QED BY <1>7, <1>8

\* All entries were read when the conflict checker starts.
LEMMA EnterConflictScanKeeps ==
  ASSUME ComplianceInv, EnterConflictScan
  PROVE  ComplianceInv'
<1>1. /\ UNCHANGED <<Given, next, cache, total, findings, broken, denied, result>>
      /\ stage = "blobs" /\ stage' = "conflicts" /\ tree' = tree /\ texts' = texts
      /\ search' = "trusted" /\ next > Len(tree)
  BY DEF EnterConflictScan, Proceed, Given
<1>2. ComplianceTypeOK /\ next = Len(tree) + 1
  BY <1>1 DEF ComplianceInv, ComplianceTypeOK
<1>3. ComplianceTypeOK'
  BY <1>1, <1>2 DEF ComplianceTypeOK
<1>4. ScanTells'
  BY <1>1, <1>2, TreeStays DEF ComplianceInv, ScanTells
<1>5. FindingsTell' /\ PathRestored' /\ PassIffCompliant'
  BY <1>1 DEF ComplianceInv, ScanTells, FindingsTell, PathRestored, PassIffCompliant
<1> QED BY <1>3, <1>4, <1>5 DEF ComplianceInv

\* After the conflict checker an entry breaks a rule exactly when one of the
\* two found something.
LEMMA ScanConflictsKeeps ==
  ASSUME ComplianceInv, ScanConflicts
  PROVE  ComplianceInv'
<1>1. /\ UNCHANGED <<Given, next, cache, total, broken, denied, result>>
      /\ stage = "conflicts" /\ stage' = "metadata" /\ tree' = tree /\ texts' = texts
      /\ search' = "inherited" /\ findings' = findings + Cardinality(Conflicted)
  BY DEF ScanConflicts, Proceed, Given
<1>2. tree \in Seq(TreeEntries) /\ texts \in [Blobs -> Texts] /\ findings \in Nat
      /\ Len(tree) \in Nat
  BY DEF ComplianceInv, ComplianceTypeOK
<1>3. PICK more \in Nat : more = Cardinality(Conflicted)
  BY <1>2, ConflictedCounted
<1>4. more = 0 <=> Conflicted = {}
  BY <1>2, <1>3, ConflictedCounted
<1>5. ComplianceTypeOK'
  BY <1>1, <1>2, <1>3 DEF ComplianceInv, ComplianceTypeOK
<1>6. ScanTells'
  BY <1>1, TreeStays DEF ComplianceInv, ScanTells
<1>7. /\ next = Len(tree) + 1 /\ ~denied /\ result = "none"
      /\ findings = 0 <=> \A i \in 1..(next - 1) : ~Flawed(i)
      /\ \A i \in DOMAIN tree : tree[i].mode # "submodule"
  BY <1>1 DEF ComplianceInv, ScanTells
<1>8. DOMAIN tree = 1..(next - 1)
  BY <1>2, <1>7
<1>9. findings' = 0 <=> \A i \in DOMAIN tree : ~Breaks(tree[i])
  <2>1. findings' = 0 <=> findings = 0 /\ more = 0
    BY <1>1, <1>2, <1>3
  <2>2. ASSUME NEW i \in DOMAIN tree
        PROVE  Breaks(tree[i]) <=> Flawed(i) \/ i \in Conflicted
    <3>1. tree[i] \in TreeEntries /\ tree[i].mode # "submodule"
      BY <1>2, <1>7
    <3>2. Breaks(tree[i]) <=> \/ EntryFindings(tree[i]) > 0
                              \/ tree[i].mode = "file" /\ texts[tree[i].blob] = "conflict"
      BY <1>2, <3>1, RulesAreChecked
    <3> QED BY <3>2 DEF Flawed, Conflicted
  <2>3. \A i \in Conflicted : i \in DOMAIN tree
    BY DEF Conflicted
  <2>4. findings = 0 <=> \A i \in DOMAIN tree : ~Flawed(i)
    BY <1>7, <1>8
  <2>5. more = 0 <=> \A i \in DOMAIN tree : i \notin Conflicted
    BY <1>4, <2>3
  <2> QED BY <2>1, <2>2, <2>4, <2>5
<1>10. FindingsTell'
  <2>1. findings' \in Nat
    BY <1>1, <1>2, <1>3
  <2>2. \A i : Breaks(tree[i])' <=> Breaks(tree[i])
    BY <1>1, TreeStays
  <2> QED BY <1>1, <1>7, <1>9, <2>1, <2>2 DEF FindingsTell
<1>11. PathRestored' /\ PassIffCompliant'
  BY <1>1, <1>7 DEF PathRestored, PassIffCompliant
<1> QED BY <1>5, <1>6, <1>10, <1>11 DEF ComplianceInv

\* A finding in the names or in the commits is a denial, and counts.
LEMMA MetadataKeeps ==
  ASSUME ComplianceInv, CheckNames \/ CheckCommits
  PROVE  ComplianceInv'
<1>1. stage \in {"metadata", "commits"} /\ stage' \in {"commits", "report"}
      /\ UNCHANGED <<Given, next, cache, total, search, broken, result>>
      /\ \E count \in 0..1 : Finding(count)
  BY DEF CheckNames, CheckCommits, Proceed
<1>2. PICK count \in 0..1 : findings' = findings + count /\ denied' = (denied \/ count > 0)
  BY <1>1 DEF Finding
<1>3. tree' = tree /\ texts' = texts
  BY <1>1 DEF Given
<1>4. findings \in Nat /\ denied \in BOOLEAN
  BY DEF ComplianceInv, ComplianceTypeOK
<1>5. findings' \in Nat /\ denied' \in BOOLEAN
      /\ (findings' = 0 <=> findings = 0 /\ count = 0)
      /\ (findings' > 0 <=> findings > 0 \/ count > 0)
      /\ (count = 0 <=> ~(count > 0))
  BY <1>2, <1>4
<1>6. ComplianceTypeOK'
  BY <1>1, <1>3, <1>5 DEF ComplianceInv, ComplianceTypeOK
<1>7. ScanTells'
  BY <1>1, <1>3, TreeStays DEF ComplianceInv, ScanTells
<1>8. FindingsTell'
  <2>1. \A i : Breaks(tree[i])' <=> Breaks(tree[i])
    BY <1>1, TreeStays
  <2> QED BY <1>1, <1>2, <1>3, <1>5, <2>1 DEF ComplianceInv, FindingsTell
<1>9. PathRestored' /\ PassIffCompliant'
  BY <1>1 DEF ComplianceInv, ScanTells, PathRestored, PassIffCompliant
<1> QED BY <1>6, <1>7, <1>8, <1>9 DEF ComplianceInv

\* The scan passes without findings, and then every entry was read and fits.
LEMMA ConcludeKeeps ==
  ASSUME ComplianceInv, Conclude
  PROVE  ComplianceInv'
<1>1. /\ UNCHANGED <<Given, next, cache, total, findings, search, broken, denied>>
      /\ stage = "report" /\ stage' = "ended" /\ tree' = tree /\ texts' = texts
      /\ result' = IF findings > 0 THEN "fail" ELSE "pass"
  BY DEF Conclude, End, Given
<1>2. ComplianceTypeOK /\ ScanTells /\ FindingsTell /\ PathRestored
  BY DEF ComplianceInv
<1>3. ComplianceTypeOK'
  BY <1>1, <1>2 DEF ComplianceTypeOK
<1>4. ScanTells' /\ FindingsTell' /\ PathRestored'
  BY <1>1, <1>2 DEF ScanTells, FindingsTell, PathRestored
<1>5. PassIffCompliant'
  <2>1. \A i : Breaks(tree[i])' <=> Breaks(tree[i])
    BY <1>1, TreeStays
  <2>2. TooLarge' <=> TooLarge
    BY <1>1, TreeStays
  <2>3. findings \in Nat
    BY <1>2 DEF ComplianceTypeOK
  <2>4. CASE findings > 0
    <3>1. denied \/ \E i \in DOMAIN tree : Breaks(tree[i])
      BY <1>1, <1>2, <2>4 DEF FindingsTell
    <3> QED BY <1>1, <2>1, <2>4, <3>1 DEF PassIffCompliant
  <2>5. CASE findings = 0
    <3>1. ~denied /\ next = Len(tree) + 1 /\ \A i \in DOMAIN tree : ~Breaks(tree[i])
      BY <1>1, <1>2, <2>5 DEF FindingsTell
    <3>2. ~broken /\ total = BytesUpTo[next - 1]
          /\ \A i \in 1..(next - 1) : BlobFits(tree[i].blob)
      BY <1>1, <1>2 DEF ScanTells
    <3>3. Len(tree) \in Nat /\ DOMAIN tree = 1..Len(tree) /\ total \in 0..MaxTotalBytes
          /\ MaxTotalBytes \in Nat
      BY <1>2, ComplianceAssumption DEF ComplianceTypeOK
    <3>4. next - 1 = Len(tree)
      BY <3>1, <3>3
    <3>5. ~(BytesUpTo[Len(tree)] > MaxTotalBytes)
      BY <3>2, <3>3, <3>4
    <3>6. \A i \in DOMAIN tree : texts[tree[i].blob] # "huge"
      BY <3>2, <3>3, <3>4 DEF BlobFits
    <3>7. ~TooLarge
      BY <3>5, <3>6 DEF TooLarge
    <3> QED BY <1>1, <2>1, <2>2, <2>5, <3>1, <3>2, <3>7 DEF PassIffCompliant
  <2> QED BY <2>3, <2>4, <2>5
<1> QED BY <1>3, <1>4, <1>5 DEF ComplianceInv

\* The invariant holds of every state, also of those that nothing changed.
THEOREM ComplianceInvariant == ComplianceSpec => []ComplianceInv
<1>1. ASSUME ComplianceInv, [ComplianceNext]_complianceVars
      PROVE  ComplianceInv'
  <2>1. CASE ComplianceNext
    <3>1. CASE StepRaises
      BY <1>1, <3>1, RaiseKeeps DEF StepRaises
    <3>2. CASE Prepare \/ PrepareGit
      BY <1>1, <3>2, PreparationKeeps
    <3>3. CASE ListTree
      BY <1>1, <3>3, ListTreeKeeps
    <3>4. CASE ScanEntry
      BY <1>1, <3>4, ScanEntryKeeps
    <3>5. CASE EnterConflictScan
      BY <1>1, <3>5, EnterConflictScanKeeps
    <3>6. CASE ScanConflicts
      BY <1>1, <3>6, ScanConflictsKeeps
    <3>7. CASE CheckNames \/ CheckCommits
      BY <1>1, <3>7, MetadataKeeps
    <3>8. CASE Conclude
      BY <1>1, <3>8, ConcludeKeeps
    <3> QED
      BY <2>1, <3>1, <3>2, <3>3, <3>4, <3>5, <3>6, <3>7, <3>8 DEF ComplianceNext
  <2>2. CASE UNCHANGED complianceVars
    <3>1. /\ UNCHANGED Given
          /\ UNCHANGED <<stage, next, cache, total, findings, search, result, broken, denied>>
          /\ tree' = tree /\ texts' = texts
      BY <2>2 DEF complianceVars, Given
    <3>2. ComplianceTypeOK' /\ PathRestored'
      BY <1>1, <3>1 DEF ComplianceInv, ComplianceTypeOK, PathRestored
    <3>3. ScanTells'
      BY <1>1, <3>1, TreeStays DEF ComplianceInv, ScanTells
    <3>4. FindingsTell' /\ PassIffCompliant'
      BY <1>1, <3>1, TreeStays DEF ComplianceInv, FindingsTell, PassIffCompliant
    <3> QED BY <3>2, <3>3, <3>4 DEF ComplianceInv
  <2> QED BY <1>1, <2>1, <2>2
<1> QED BY <1>1, ComplianceInitEstablishes, PTL DEF ComplianceSpec

\* For every tree, every limit and every list of sizes: the scan passes exactly
\* a tree that breaks no rule and fits, when every step ran and the metadata is
\* clean, and PATH is that of the caller outside the conflict scan
\* (scripts/check_compliance_tree.py, scan_tree and main).
THEOREM ScanIsSoundHolds == ComplianceSpec => []ScanIsSound
<1>1. ComplianceInv => ScanIsSound
  BY DEF ComplianceInv, ScanIsSound
<1> QED BY <1>1, ComplianceInvariant, PTL

=============================================================================
