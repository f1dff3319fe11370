--------------------------- MODULE PolicySyncProofs --------------------------
(***************************************************************************)
(* Proofs about PolicySync for every number of copies, documents, versions *)
(* and edits.                                                              *)
(***************************************************************************)
EXTENDS PolicySync, SequenceTheorems, TLAPS

-----------------------------------------------------------------------------
(* The invariant *)

CopyPhases == {"assemble", "recheck", "revalidate", "replace"}

\* A temporary file that waits to be installed holds a whole policy.
TempIsWhole == pc \in CopyPhases \ {"assemble"} => temp.kind = "policy"

\* The run has a temporary file exactly while it copies; killed runs leave more.
TempsCounted ==
  /\ pc \in CopyPhases => temps >= 1
  /\ ~crashed => temps = IF pc \in CopyPhases THEN 1 ELSE 0

\* AGENTS.md is the inspected one until it moves, what has been read of it and
\* written before it moved is so too, and what passed the recheck stays so.
SourceKept ==
  /\ pc \in CopyPhases /\ ~moved => part[0] = inspected
  /\ pc = "assemble" /\ ~moved /\ taken # <<>> => taken[1] = inspected
  /\ pc = "recheck" /\ ~moved => temp.parts[0] = inspected
  /\ pc \in {"revalidate", "replace"} => temp.parts[0] = inspected

SyncInv == TypeOK /\ CopiesAreWhole /\ TempIsWhole /\ TempsCounted /\ SourceKept

-----------------------------------------------------------------------------
(* Contents *)

\* Placeholders are files.
LEMMA OtherIsFile ==
  ASSUME NEW kind \in {"absent", "unsafe", "other", "partial"}
  PROVE  Other(kind) \in File /\ Other(kind).kind = kind
BY SyncAssumption DEF SyncAssumption, Other, File, NoParts, Versions, Parts

\* What policy_bytes has assembled is a whole policy headed by AGENTS.md.
LEMMA PolicyIsFile ==
  ASSUME taken \in Seq(Versions), AllTaken
  PROVE  /\ Policy(taken) \in File
         /\ Policy(taken).kind = "policy"
         /\ Policy(taken).parts[0] = taken[1]
         /\ taken # <<>>
<1>1. NumDocs \in Nat
  BY SyncAssumption DEF SyncAssumption
<1>2. \A k \in Parts : k + 1 \in 1..Len(taken)
  BY <1>1 DEF AllTaken, Parts
<1>3. \A k \in Parts : taken[k + 1] \in Versions
  BY <1>2, ElementOfSeq
<1>4. [k \in Parts |-> taken[k + 1]] \in [Parts -> Versions]
  BY <1>3
<1>5. 0 \in Parts
  BY <1>1 DEF Parts
<1>6. taken # <<>>
  BY <1>1 DEF AllTaken
<1> QED BY <1>4, <1>5, <1>6 DEF Policy, File

\* Reading one more document.
LEMMA AppendTaken ==
  ASSUME taken \in Seq(Versions), Len(taken) <= NumDocs + 1, ~AllTaken,
         part \in [Parts -> Versions \cup {Bad}], part[Len(taken)] # Bad
  PROVE  /\ Append(taken, part[Len(taken)]) \in Seq(Versions)
         /\ Len(Append(taken, part[Len(taken)])) <= NumDocs + 1
         /\ taken = <<>> => Append(taken, part[Len(taken)])[1] = part[0]
         /\ taken # <<>> => Append(taken, part[Len(taken)])[1] = taken[1]
<1>1. NumDocs \in Nat
  BY SyncAssumption DEF SyncAssumption
<1>2. Len(taken) \in Nat /\ Len(taken) # NumDocs + 1
  BY LenProperties DEF AllTaken
<1>3. Len(taken) \in Parts
  BY <1>1, <1>2 DEF Parts
<1>4. part[Len(taken)] \in Versions
  BY <1>3
<1> QED BY <1>1, <1>2, <1>4

-----------------------------------------------------------------------------
(* The initial states and the steps *)

\* The invariant holds before the first run.
LEMMA InitEstablishes == Init => SyncInv
<1> SUFFICES ASSUME Init PROVE SyncInv
  OBVIOUS
<1>1. NumDocs \in Nat /\ NumCopies \in Nat \ {0} /\ MaxVersion \in Nat
  BY SyncAssumption DEF SyncAssumption
<1>2. NoParts \in [Parts -> Versions]
  BY <1>1 DEF NoParts, Versions
<1>3. CurrentPolicy \in File /\ CurrentPolicy.kind = "policy"
  BY <1>2 DEF Init, CurrentPolicy, File
<1>4. copy \in [Copies -> File] /\ CopiesAreWhole
  BY <1>3, OtherIsFile DEF Init, CopiesAreWhole
<1>5. TypeOK
  <2>1. part \in [Parts -> Versions \cup {Bad}]
    BY <1>2 DEF Init
  <2>2. taken \in Seq(Versions) /\ Len(taken) <= NumDocs + 1
    BY <1>1, EmptySeq DEF Init
  <2>3. /\ runs \in 0..MaxRuns /\ edits \in 0..MaxEdits
        /\ at \in Copies /\ inspected \in Versions
    BY <1>1, SyncAssumption DEF Init, SyncAssumption, Copies, Versions
  <2>4. temp \in File /\ temps \in Nat
    BY OtherIsFile DEF Init
  <2> QED BY <1>4, <2>1, <2>2, <2>3, <2>4 DEF TypeOK, Init
<1>6. TempIsWhole /\ TempsCounted /\ SourceKept
  BY DEF Init, TempIsWhole, TempsCounted, SourceKept, CopyPhases
<1> QED BY <1>4, <1>5, <1>6 DEF SyncInv

\* Steps that change neither a file nor the temporary file, and that do not
\* enter or continue a copy, keep the invariant once the types are right.
LEMMA QuietStep ==
  ASSUME SyncInv, TypeOK', UNCHANGED <<part, copy, copying>>,
         crashed => crashed',
         pc' \notin CopyPhases, pc \notin CopyPhases
  PROVE  SyncInv'
BY DEF SyncInv, CopiesAreWhole, TempIsWhole, TempsCounted, SourceKept,
       CopyPhases, copying, TypeOK

\* A copy that fails.
LEMMA FailKeeps ==
  ASSUME SyncInv, Fail, pc \in CopyPhases,
         UNCHANGED <<files, mode, at, stale, taken, runs, edits, edited, crashed>>,
         failed' \in BOOLEAN
  PROVE  SyncInv'
<1>1. temps \in Nat /\ temps >= 1
  BY DEF SyncInv, TypeOK, TempsCounted
<1>2. TypeOK'
  BY <1>1, OtherIsFile DEF SyncInv, TypeOK, Fail, Exit, files
<1>3. (CopiesAreWhole /\ TempIsWhole /\ TempsCounted /\ SourceKept)'
  BY <1>1 DEF SyncInv, TypeOK, CopiesAreWhole, TempIsWhole, TempsCounted,
     SourceKept, CopyPhases, Fail, Exit, files
<1> QED BY <1>2, <1>3 DEF SyncInv

\* Starting, inspecting and finishing a run keeps the invariant.
LEMMA InspectionKeeps ==
  ASSUME SyncInv,
         Start \/ InspectTarget \/ ReadFails \/ CompareCopy \/ Decide \/ CopiesDone
  PROVE  SyncInv'
<1> USE DEF SyncInv
<1>1. NumCopies \in Nat \ {0} /\ MaxRuns \in Nat
  BY SyncAssumption DEF SyncAssumption
<1>2. NextCopy => at' \in Copies
  BY <1>1 DEF NextCopy, TypeOK, Copies
<1>3. TypeOK'
  <2>1. CASE Start
    <3>1. pc' \in {"idle", "inspect"} /\ exit' \in {0, 1, 9}
      BY <2>1 DEF Start, Exit, Goto, TypeOK
    <3>2. /\ runs' \in 0..MaxRuns /\ at' \in Copies /\ stale' = {}
          /\ mode' \in {"check", "sync"}
      BY <2>1, <1>1 DEF Start, TypeOK, Copies
    <3>3. edited' \in BOOLEAN /\ failed' \in BOOLEAN
      BY <2>1 DEF Start
    <3>4. UNCHANGED <<part, copy, temp, temps, moved, disturbed, inspected, taken,
                      edits, crashed>>
      BY <2>1 DEF Start, files, copying
    <3> QED BY <3>1, <3>2, <3>3, <3>4 DEF TypeOK
  <2>2. CASE InspectTarget
    <3>1. /\ pc' \in {"idle", "inspect", "read", "decide"} /\ exit' \in {0, 1, 9}
          /\ at' \in Copies /\ stale' \subseteq Copies
      BY <2>2, <1>2 DEF InspectTarget, MarkStale, NextCopy, Exit, Goto, TypeOK
    <3>2. taken' \in Seq(Versions) /\ Len(taken') <= NumDocs + 1
      BY <2>2, EmptySeq, SyncAssumption DEF InspectTarget, SyncAssumption
    <3>3. UNCHANGED <<part, copy, mode, temp, temps, moved, disturbed, inspected,
                      runs, edits, edited, failed, crashed>>
      BY <2>2 DEF InspectTarget, files, copying, history
    <3> QED BY <3>1, <3>2, <3>3 DEF TypeOK
  <2>3. CASE ReadFails
    BY <2>3, <1>2 DEF ReadFails, MarkStale, NextCopy, Goto, TypeOK,
       files, copying, history
  <2>4. CASE CompareCopy
    BY <2>4, <1>2 DEF CompareCopy, MarkStale, NextCopy, Goto, TypeOK,
       files, copying, history
  <2>5. CASE Decide
    BY <2>5 DEF Decide, Exit, Goto, TypeOK, files, copying, history
  <2>6. CASE CopiesDone
    BY <2>6 DEF CopiesDone, Exit, TypeOK, files, copying, history
  <2> QED BY <2>1, <2>2, <2>3, <2>4, <2>5, <2>6
<1>4. UNCHANGED <<part, copy, copying, crashed>>
  BY DEF Start, InspectTarget, ReadFails, CompareCopy, Decide, CopiesDone,
     files, history
<1>5. pc \notin CopyPhases /\ pc' \notin CopyPhases
  BY DEF Start, InspectTarget, ReadFails, CompareCopy, Decide, CopiesDone,
     MarkStale, NextCopy, Exit, Goto, CopyPhases
<1> QED BY <1>3, <1>4, <1>5, QuietStep

\* Reading one document keeps the invariant.
LEMMA ReadKeeps ==
  ASSUME SyncInv, ReadPart
  PROVE  SyncInv'
<1> USE DEF SyncInv
<1>1. taken \in Seq(Versions) /\ Len(taken) <= NumDocs + 1
      /\ part \in [Parts -> Versions \cup {Bad}]
  BY DEF TypeOK
<1>2. /\ taken' \in Seq(Versions)
      /\ Len(taken') <= NumDocs + 1
      /\ taken = <<>> => taken'[1] = part[0]
      /\ taken # <<>> => taken'[1] = taken[1]
  BY <1>1, AppendTaken DEF ReadPart
<1>3. TypeOK'
  BY <1>2 DEF TypeOK, ReadPart, files, control, copying, history
<1>4. SourceKept'
  BY <1>2 DEF SourceKept, ReadPart, files, control, copying, CopyPhases
<1>5. (CopiesAreWhole /\ TempIsWhole /\ TempsCounted)'
  BY DEF CopiesAreWhole, TempIsWhole, TempsCounted, ReadPart, files, control,
     copying, history
<1> QED BY <1>3, <1>4, <1>5

\* Starting a copy keeps the invariant.
LEMMA BeginKeeps ==
  ASSUME SyncInv, BeginCopy
  PROVE  SyncInv'
<1> USE DEF SyncInv
<1>1. PICK c \in Copies :
        /\ NextStale(c)
        /\ at' = c
        /\ IF part[0] = Bad \/ copy[c].kind = "unsafe"
             THEN Exit(1) /\ UNCHANGED copying
             ELSE /\ Goto("assemble")
                  /\ temp' = Other("partial") /\ temps' = temps + 1
                  /\ moved' = FALSE /\ disturbed' = FALSE
                  /\ inspected' = part[0]
  BY DEF BeginCopy
<1>2. <<>> \in Seq(Versions) /\ Len(<<>>) <= NumDocs + 1
  BY SyncAssumption, EmptySeq DEF SyncAssumption
<1>3. CASE part[0] = Bad \/ copy[c].kind = "unsafe"
  <2>1. TypeOK'
    BY <1>1, <1>2, <1>3 DEF BeginCopy, TypeOK, Exit, files, copying, history
  <2>2. pc \notin CopyPhases /\ pc' \notin CopyPhases
        /\ UNCHANGED <<part, copy, copying, crashed>>
    BY <1>1, <1>3 DEF BeginCopy, Exit, CopyPhases, files, history
  <2> QED BY <2>1, <2>2, QuietStep
<1>4. CASE ~(part[0] = Bad \/ copy[c].kind = "unsafe")
  <2>1. part[0] \in Versions
    BY <1>4, SyncAssumption DEF TypeOK, Parts, SyncAssumption
  <2>2. TypeOK'
    <3>1. /\ pc' = "assemble" /\ at' \in Copies /\ taken' = <<>>
          /\ temp' \in File /\ temps' \in Nat
          /\ inspected' \in Versions /\ exit' = exit
      BY <1>1, <1>4, <2>1, OtherIsFile DEF BeginCopy, Goto, TypeOK
    <3>2. moved' \in BOOLEAN /\ disturbed' \in BOOLEAN
      BY <1>1, <1>4
    <3>3. UNCHANGED <<part, copy, mode, stale, runs, edits, edited, failed, crashed>>
      BY DEF BeginCopy, files, history
    <3> QED BY <1>2, <3>1, <3>2, <3>3 DEF TypeOK
  <2>3. (CopiesAreWhole /\ TempIsWhole /\ TempsCounted /\ SourceKept)'
    BY <1>1, <1>4 DEF BeginCopy, TypeOK, Goto, files, history, CopyPhases,
       CopiesAreWhole, TempIsWhole, TempsCounted, SourceKept
  <2> QED BY <2>2, <2>3
<1> QED BY <1>3, <1>4

\* Writing the temporary file keeps the invariant.
LEMMA WriteKeeps ==
  ASSUME SyncInv, WriteTemp
  PROVE  SyncInv'
<1> USE DEF SyncInv
<1>1. /\ temp' \in File
      /\ temp'.kind = "policy"
      /\ temp'.parts[0] = taken[1]
      /\ taken # <<>>
  BY PolicyIsFile DEF WriteTemp, TypeOK
<1>2. TypeOK'
  BY <1>1 DEF WriteTemp, TypeOK, Goto, files, history
<1>3. SourceKept'
  BY <1>1 DEF WriteTemp, SourceKept, Goto, CopyPhases, files
<1>4. (CopiesAreWhole /\ TempIsWhole /\ TempsCounted)'
  BY <1>1 DEF CopiesAreWhole, TempIsWhole, TempsCounted, WriteTemp, Goto,
     CopyPhases, files, history
<1> QED BY <1>2, <1>3, <1>4

\* The two validations before the replacement keep the invariant.
LEMMA RecheckKeeps ==
  ASSUME SyncInv, RecheckSource \/ RevalidateDestination
  PROVE  SyncInv'
<1> USE DEF SyncInv
<1>1. CASE Fail
  <2>1. pc \in CopyPhases /\ failed' \in BOOLEAN
        /\ UNCHANGED <<files, mode, at, stale, taken, runs, edits, edited, crashed>>
    BY DEF RecheckSource, RevalidateDestination, CopyPhases, history, TypeOK
  <2> QED BY <1>1, <2>1, FailKeeps
<1>2. CASE RecheckSource /\ ~moved
  <2>1. TypeOK'
    BY <1>2 DEF RecheckSource, TypeOK, Goto, files, copying, history
  <2>2. (CopiesAreWhole /\ TempIsWhole /\ TempsCounted /\ SourceKept)'
    BY <1>2 DEF RecheckSource, Goto, files, copying, history, CopyPhases,
       CopiesAreWhole, TempIsWhole, TempsCounted, SourceKept
  <2> QED BY <2>1, <2>2
<1>3. CASE RevalidateDestination /\ ~disturbed
  <2>1. TypeOK'
    BY <1>3 DEF RevalidateDestination, TypeOK, Goto, files, copying, history
  <2>2. (CopiesAreWhole /\ TempIsWhole /\ TempsCounted /\ SourceKept)'
    BY <1>3 DEF RevalidateDestination, Goto, files, copying, history,
       CopyPhases, CopiesAreWhole, TempIsWhole, TempsCounted, SourceKept
  <2> QED BY <2>1, <2>2
<1> QED BY <1>1, <1>2, <1>3 DEF RecheckSource, RevalidateDestination

\* The replacement of a copy keeps the invariant.
LEMMA ReplaceKeeps ==
  ASSUME SyncInv, ReplaceCopy
  PROVE  SyncInv'
<1> USE DEF SyncInv
<1>1. CASE Fail /\ UNCHANGED <<copy, stale>>
  <2>1. pc \in CopyPhases /\ failed' \in BOOLEAN
        /\ UNCHANGED <<files, mode, at, stale, taken, runs, edits, edited, crashed>>
    BY <1>1 DEF ReplaceCopy, CopyPhases, history, TypeOK, files
  <2> QED BY <1>1, <2>1, FailKeeps
<1>2. CASE /\ copy' = [copy EXCEPT ![at] = temp]
           /\ temp' = Other("absent") /\ temps' = temps - 1
           /\ stale' = stale \ {at}
           /\ Goto("copy")
           /\ UNCHANGED <<moved, disturbed, inspected>>
  <2>1. pc = "replace" /\ temp \in File /\ temp.kind = "policy"
        /\ temps \in Nat /\ temps >= 1
    BY DEF ReplaceCopy, TypeOK, TempIsWhole, TempsCounted, CopyPhases
  <2>2. copy' \in [Copies -> File] /\ CopiesAreWhole'
    BY <1>2, <2>1 DEF TypeOK, CopiesAreWhole
  <2>3. TypeOK'
    BY <1>2, <2>1, <2>2, OtherIsFile DEF ReplaceCopy, TypeOK, Goto, history
  <2>4. (TempIsWhole /\ TempsCounted /\ SourceKept)'
    BY <1>2, <2>1 DEF ReplaceCopy, Goto, history, CopyPhases, TempIsWhole,
       TempsCounted, SourceKept
  <2> QED BY <2>2, <2>3, <2>4
<1> QED BY <1>1, <1>2 DEF ReplaceCopy

\* An I/O failure or a kill keeps the invariant.
LEMMA FaultKeeps ==
  ASSUME SyncInv, AssembleFails \/ CopyFails \/ Killed
  PROVE  SyncInv'
<1> USE DEF SyncInv
<1>1. CASE AssembleFails
  <2>1. Fail /\ pc \in CopyPhases /\ failed' \in BOOLEAN
        /\ UNCHANGED <<files, mode, at, stale, taken, runs, edits, edited, crashed>>
    BY <1>1 DEF AssembleFails, CopyPhases, history, TypeOK
  <2> QED BY <2>1, FailKeeps
<1>2. CASE CopyFails
  <2>1. Fail /\ pc \in CopyPhases /\ failed' \in BOOLEAN
        /\ UNCHANGED <<files, mode, at, stale, taken, runs, edits, edited, crashed>>
    BY <1>2 DEF CopyFails, CopyPhases
  <2> QED BY <2>1, FailKeeps
<1>3. CASE Killed
  <2>1. TypeOK'
    BY <1>3 DEF Killed, Exit, TypeOK, files, copying
  <2>2. (CopiesAreWhole /\ TempIsWhole /\ TempsCounted /\ SourceKept)'
    BY <1>3 DEF Killed, Exit, files, copying, CopyPhases, CopiesAreWhole,
       TempIsWhole, TempsCounted, SourceKept
  <2> QED BY <2>1, <2>2
<1> QED BY <1>1, <1>2, <1>3

\* An edit by another process keeps the invariant.
LEMMA EditsKeep ==
  ASSUME SyncInv, EditPart \/ EditCopy
  PROVE  SyncInv'
<1> USE DEF SyncInv
<1>0. MaxEdits \in Nat
  BY SyncAssumption DEF SyncAssumption
<1>1. CASE EditPart
  <2>1. PICK k \in Parts, v \in Versions \cup {Bad} :
          part' = [part EXCEPT ![k] = v] /\ moved' = (moved \/ k = 0)
    BY <1>1 DEF EditPart
  <2>2. moved' \in BOOLEAN
    BY <2>1 DEF TypeOK
  <2>3. ~moved' => ~moved /\ part'[0] = part[0]
    BY <2>1 DEF TypeOK
  <2>4. TypeOK'
    BY <1>0, <1>1, <2>1, <2>2 DEF EditPart, TypeOK, control
  <2>5. SourceKept'
    BY <1>1, <2>3 DEF EditPart, SourceKept, control
  <2>6. (CopiesAreWhole /\ TempIsWhole /\ TempsCounted)'
    BY <1>1 DEF EditPart, control, CopiesAreWhole, TempIsWhole, TempsCounted
  <2> QED BY <2>4, <2>5, <2>6
<1>2. CASE EditCopy
  <2>1. PICK c \in Copies, kind \in {"absent", "unsafe", "other"} :
          /\ copy' = [copy EXCEPT ![c] = Other(kind)]
          /\ disturbed' = (disturbed \/ c = at)
    BY <1>2 DEF EditCopy
  <2>2. disturbed' \in BOOLEAN
    BY <2>1 DEF TypeOK
  <2>3. copy' \in [Copies -> File] /\ CopiesAreWhole'
    BY <2>1, OtherIsFile DEF TypeOK, CopiesAreWhole
  <2>4. TypeOK'
    BY <1>0, <1>2, <2>2, <2>3 DEF EditCopy, TypeOK, control
  <2>5. (TempIsWhole /\ TempsCounted /\ SourceKept)'
    BY <1>2 DEF EditCopy, control, TempIsWhole, TempsCounted, SourceKept
  <2> QED BY <2>3, <2>4, <2>5
<1> QED BY <1>1, <1>2

\* Every step keeps the invariant.
LEMMA StepKeeps == SyncInv /\ [Next]_vars => SyncInv'
<1> SUFFICES ASSUME SyncInv, [Next]_vars PROVE SyncInv'
  OBVIOUS
<1>1. CASE Sync
  BY <1>1, InspectionKeeps, ReadKeeps, BeginKeeps, WriteKeeps, RecheckKeeps,
     ReplaceKeeps, FaultKeeps DEF Sync
<1>2. CASE Killed \/ EditPart \/ EditCopy
  BY <1>2, FaultKeeps, EditsKeep
<1>3. CASE UNCHANGED vars
  BY <1>3 DEF vars, files, control, copying, history, SyncInv, TypeOK,
     CopiesAreWhole, TempIsWhole, TempsCounted, SourceKept
<1> QED BY <1>1, <1>2, <1>3 DEF Next

-----------------------------------------------------------------------------
(* Theorems *)

\* The invariant holds in every reachable state.
THEOREM SyncInvariant == Spec => []SyncInv
BY InitEstablishes, StepKeeps, PTL DEF Spec

\* No copy is ever half written, whatever is edited, fails or is killed.
THEOREM CopiesAlwaysWhole == Spec => []CopiesAreWhole
BY SyncInvariant, PTL DEF SyncInv

\* Every run that is not killed removes its temporary file.
THEOREM NoTempStays == Spec => []NoTempLeft
<1>1. SyncInv => NoTempLeft
  BY DEF SyncInv, TempsCounted, NoTempLeft, CopyPhases
<1> QED BY <1>1, SyncInvariant, PTL

\* The AGENTS.md part of an installed copy is the one inspected when the copy
\* began, however edits and reads interleave.
THEOREM InstalledIsInspected == Spec => InstalledAsInspected
<1>1. SyncInv /\ [Next]_vars
        => [pc = "replace" /\ pc' = "copy" => copy'[at].parts[0] = inspected]_vars
  <2> SUFFICES ASSUME SyncInv, Next, pc = "replace", pc' = "copy"
               PROVE  copy'[at].parts[0] = inspected
    BY DEF vars
  <2>1. copy' = [copy EXCEPT ![at] = temp]
    BY DEF Next, Sync, Start, InspectTarget, ReadPart, ReadFails, CompareCopy,
       Decide, CopiesDone, BeginCopy, WriteTemp, AssembleFails, RecheckSource,
       RevalidateDestination, ReplaceCopy, CopyFails, Killed, EditPart, EditCopy,
       Fail, Exit, Goto, control
  <2>2. at \in Copies /\ copy \in [Copies -> File] /\ temp.parts[0] = inspected
    BY DEF SyncInv, TypeOK, SourceKept
  <2> QED BY <2>1, <2>2
<1> QED BY <1>1, SyncInvariant, PTL DEF Spec, InstalledAsInspected
-----------------------------------------------------------------------------
(* What the exit code says.  While nobody edits, a run knows the files it    *)
(* has been through: it finds the policy it reads in every copy it passes,   *)
(* or counts the copy as stale, and meets no unsafe destination.             *)

\* The run has decided about copy c.
Reached(c) ==
  \/ pc \in {"inspect", "read"} /\ c < at
  \/ pc \in {"decide", "copy"} \cup CopyPhases

Settled(c) == copy[c].kind # "unsafe" /\ (c \in stale \/ copy[c] = CurrentPolicy)

\* What has been read is what is there.
ReadTruly == \A i \in 1..Len(taken) : taken[i] = part[i - 1]

RunKnows ==
  /\ \A c \in Copies : Reached(c) => Settled(c)
  /\ pc = "read" => copy[at].kind # "unsafe"
  /\ pc \in {"read", "assemble"} => ReadTruly
  /\ pc \in CopyPhases \ {"assemble"} => temp = CurrentPolicy
  /\ pc \in CopyPhases => ~moved /\ ~disturbed

ExitInv == SyncInv /\ (~edited => RunKnows) /\ ExitZeroMeansSynced /\ FailureHasReason

\* A policy read while nobody edits is the one there is.
LEMMA PolicyIsCurrent ==
  ASSUME TypeOK, AllTaken, ReadTruly
  PROVE  Policy(taken) = CurrentPolicy
<1>1. NumDocs \in Nat
  BY SyncAssumption DEF SyncAssumption
<1>2. \A k \in Parts : k + 1 \in 1..Len(taken)
  BY <1>1 DEF AllTaken, Parts
<1>3. \A k \in Parts : k \in Nat
  BY <1>1 DEF Parts
<1>4. \A k \in Parts : taken[k + 1] = part[k]
  BY <1>2, <1>3 DEF ReadTruly
<1>5. part = [k \in Parts |-> part[k]]
  BY DEF TypeOK
<1>6. [k \in Parts |-> taken[k + 1]] = part
  BY <1>4, <1>5
<1> QED BY <1>6 DEF Policy, CurrentPolicy

\* The steps of a run that meets no edit.
QuietRun == SyncInv /\ RunKnows /\ ~edited

\* What such a step has to leave behind.
RunTells == RunKnows /\ ExitZeroMeansSynced /\ FailureHasReason

\* The copies are numbered from 1.
LEMMA CopyNumbers ==
  /\ NumCopies \in Nat \ {0} /\ NumDocs \in Nat /\ 1 \in Copies /\ 0 \in Parts
  /\ \A c : c \in Copies <=> c \in Nat /\ 1 <= c /\ c <= NumCopies
BY SyncAssumption DEF SyncAssumption, Copies, Parts

\* A run that begins has decided about nothing.
LEMMA StartTells ==
  ASSUME SyncInv, Start
  PROVE  RunTells'
<1>1. CASE part[0] = Bad
  <2>1. pc' = "idle" /\ exit' = 1 /\ part' = part
    BY <1>1 DEF Start, Exit, files
  <2>2. FailureHasReason'
    BY <1>1, <2>1, CopyNumbers DEF FailureHasReason
  <2> QED BY <2>1, <2>2 DEF RunTells, RunKnows, Reached, ExitZeroMeansSynced, CopyPhases
<1>2. CASE part[0] # Bad
  <2>1. pc' = "inspect" /\ at' = 1
    BY <1>2 DEF Start, Goto
  <2>2. \A c \in Copies : ~Reached(c)'
    BY <2>1, CopyNumbers DEF Reached, CopyPhases
  <2> QED BY <2>1, <2>2 DEF RunTells, RunKnows, ExitZeroMeansSynced, FailureHasReason,
             CopyPhases
<1> QED BY <1>1, <1>2

\* Going on to the next copy when this one is settled.
LEMMA NextTells ==
  ASSUME QuietRun, pc \in {"inspect", "read"}, NextCopy, UNCHANGED <<files, taken>>
              \/ (UNCHANGED files /\ taken' = <<>>),
         stale' \in {stale, stale \cup {at}}, copy[at].kind # "unsafe",
         at \in stale' \/ copy[at] = CurrentPolicy
  PROVE  RunTells'
<1>1. at \in Copies /\ UNCHANGED <<part, copy>> /\ CurrentPolicy' = CurrentPolicy
  BY DEF QuietRun, SyncInv, TypeOK, files, CurrentPolicy
<1>2. \/ at = NumCopies /\ pc' = "decide"
      \/ at # NumCopies /\ at' = at + 1 /\ pc' = "inspect"
  BY DEF NextCopy, Goto
<1>3. \A c \in Copies : Reached(c)' => c < at \/ c = at
  BY <1>1, <1>2, CopyNumbers DEF Reached, CopyPhases
<1>4. \A c \in Copies : c < at \/ c = at => Settled(c)'
  BY <1>1, CopyNumbers DEF QuietRun, RunKnows, Reached, Settled
<1> QED BY <1>2, <1>3, <1>4 DEF RunTells, RunKnows, ExitZeroMeansSynced,
           FailureHasReason, CopyPhases

\* Inspecting a destination.
LEMMA InspectTells ==
  ASSUME QuietRun, InspectTarget
  PROVE  RunTells'
<1>1. at \in Copies /\ UNCHANGED <<part, copy, mode>> /\ CurrentPolicy' = CurrentPolicy
      /\ taken' = <<>>
  BY DEF QuietRun, SyncInv, TypeOK, InspectTarget, files, CurrentPolicy
<1>2. CASE copy[at].kind = "unsafe"
  <2>1. pc' = "idle" /\ exit' = 1
    BY <1>2 DEF InspectTarget, Exit
  <2>2. FailureHasReason'
    BY <1>1, <1>2 DEF FailureHasReason
  <2> QED BY <2>1, <2>2 DEF RunTells, RunKnows, Reached, ExitZeroMeansSynced, CopyPhases
<1>3. CASE copy[at].kind = "absent"
  <2>1. pc = "inspect" /\ NextCopy /\ stale' = stale \cup {at} /\ UNCHANGED files
    BY <1>3 DEF InspectTarget, MarkStale
  <2> QED BY <1>1, <1>3, <2>1, NextTells
<1>4. CASE copy[at].kind \notin {"unsafe", "absent"}
  <2>1. pc = "inspect" /\ pc' = "read" /\ at' = at /\ stale' = stale
    BY <1>4 DEF InspectTarget, Goto
  <2>2. \A c \in Copies : Reached(c)' => Settled(c)'
    BY <1>1, <2>1 DEF QuietRun, RunKnows, Reached, Settled, CopyPhases
  <2>3. ReadTruly'
    BY <1>1 DEF ReadTruly
  <2> QED BY <1>1, <1>4, <2>1, <2>2, <2>3 DEF RunTells, RunKnows, ExitZeroMeansSynced,
             FailureHasReason, CopyPhases
<1> QED BY <1>2, <1>3, <1>4

\* Reading a document.
LEMMA ReadTells ==
  ASSUME QuietRun, ReadPart
  PROVE  RunTells'
<1>1. /\ taken \in Seq(Versions) /\ taken' = Append(taken, part[Len(taken)])
      /\ pc \in {"read", "assemble"} /\ ReadTruly
      /\ UNCHANGED <<part, copy, pc, at, stale, temp, moved, disturbed>>
      /\ CurrentPolicy' = CurrentPolicy
  BY DEF QuietRun, RunKnows, SyncInv, TypeOK, ReadPart, files, control, copying,
     CurrentPolicy
<1>2. ReadTruly'
  <2>1. Len(taken) \in Nat /\ Len(taken') = Len(taken) + 1
    BY <1>1
  <2>2. ASSUME NEW i \in 1..Len(taken') PROVE taken'[i] = part[i - 1]
    <3>1. CASE i = Len(taken) + 1
      BY <1>1, <2>1, <3>1
    <3>2. CASE i \in 1..Len(taken)
      BY <1>1, <2>1, <3>2 DEF ReadTruly
    <3> QED BY <2>1, <3>1, <3>2
  <2> QED BY <1>1, <2>2 DEF ReadTruly
<1>3. \A c \in Copies : Reached(c)' => Settled(c)'
  BY <1>1 DEF QuietRun, RunKnows, Reached, Settled
<1> QED BY <1>1, <1>2, <1>3 DEF QuietRun, RunKnows, RunTells, ExitZeroMeansSynced,
           FailureHasReason, CopyPhases

\* Comparing a copy, or failing to read the policy for it.
LEMMA CompareTells ==
  ASSUME QuietRun, CompareCopy \/ ReadFails
  PROVE  RunTells'
<1>1. /\ pc = "read" /\ NextCopy /\ UNCHANGED <<files, taken>>
      /\ stale' \in {stale, stale \cup {at}} /\ copy[at].kind # "unsafe" /\ ReadTruly
  BY DEF QuietRun, RunKnows, CompareCopy, ReadFails, MarkStale
<1>2. at \in stale' \/ copy[at] = CurrentPolicy
  <2>1. CASE stale' = stale \cup {at}
    BY <2>1
  <2>2. CASE CompareCopy /\ copy[at] = Policy(taken)
    BY <1>1, <2>2, PolicyIsCurrent DEF CompareCopy, QuietRun, SyncInv
  <2> QED BY <2>1, <2>2 DEF CompareCopy, ReadFails, MarkStale
<1> QED BY <1>1, <1>2, NextTells

\* The decision after the inspection, and the end of the copies.
LEMMA DecideTells ==
  ASSUME QuietRun, Decide \/ CopiesDone
  PROVE  RunTells'
<1>1. UNCHANGED <<part, copy, mode, at, stale>> /\ CurrentPolicy' = CurrentPolicy
  BY DEF Decide, CopiesDone, files, CurrentPolicy
<1>2. \A c \in Copies : Settled(c) /\ Settled(c)'
  BY <1>1 DEF QuietRun, RunKnows, Reached, Settled, Decide, CopiesDone
<1>3. \/ pc' = "copy"
      \/ pc' = "idle" /\ exit' = 0 /\ stale = {}
      \/ pc' = "idle" /\ exit' = 1 /\ mode = "check"
  BY DEF Decide, CopiesDone, Exit, Goto
<1>4. RunKnows'
  BY <1>2, <1>3 DEF RunKnows, CopyPhases, Reached
<1>5. ExitZeroMeansSynced' /\ FailureHasReason'
  BY <1>1, <1>2, <1>3 DEF ExitZeroMeansSynced, FailureHasReason, Settled
<1> QED BY <1>4, <1>5 DEF RunTells

\* Beginning to copy.
LEMMA BeginTells ==
  ASSUME QuietRun, BeginCopy
  PROVE  RunTells'
<1>1. PICK c \in Copies :
        /\ at' = c
        /\ IF part[0] = Bad \/ copy[c].kind = "unsafe"
             THEN Exit(1) /\ UNCHANGED copying
             ELSE Goto("assemble") /\ moved' = FALSE /\ disturbed' = FALSE
  BY DEF BeginCopy
<1>2. UNCHANGED <<part, copy, mode, stale>> /\ CurrentPolicy' = CurrentPolicy
      /\ taken' = <<>>
  BY DEF BeginCopy, files, CurrentPolicy
<1>3. \A d \in Copies : Settled(d)'
  BY <1>2 DEF QuietRun, RunKnows, Reached, Settled, BeginCopy
<1>4. CASE part[0] = Bad \/ copy[c].kind = "unsafe"
  <2>1. pc' = "idle" /\ exit' = 1
    BY <1>1, <1>4 DEF Exit
  <2>2. FailureHasReason'
    BY <1>2, <1>4, CopyNumbers DEF FailureHasReason
  <2> QED BY <2>1, <2>2 DEF RunTells, RunKnows, Reached, ExitZeroMeansSynced, CopyPhases
<1>5. CASE ~(part[0] = Bad \/ copy[c].kind = "unsafe")
  <2>1. pc' = "assemble" /\ ~moved' /\ ~disturbed'
    BY <1>1, <1>5 DEF Goto
  <2>2. ReadTruly'
    BY <1>2 DEF ReadTruly
  <2> QED BY <1>3, <2>1, <2>2 DEF RunTells, RunKnows, ExitZeroMeansSynced,
             FailureHasReason, CopyPhases
<1> QED BY <1>4, <1>5

\* A failure for which there is a reason.
LEMMA FailTells ==
  ASSUME QuietRun, Fail, UNCHANGED <<part, copy, mode>>,
         \/ \E k \in Parts : part[k] = Bad
         \/ \E c \in Copies : copy[c].kind = "unsafe"
         \/ failed'
  PROVE  RunTells'
<1>1. pc' = "idle" /\ exit' = 1
  BY DEF Fail, Exit
<1>2. FailureHasReason'
  BY DEF FailureHasReason
<1> QED BY <1>1, <1>2 DEF RunTells, RunKnows, Reached, ExitZeroMeansSynced, CopyPhases

\* Assembling the policy and checking the two files again.
LEMMA AssembleTells ==
  ASSUME QuietRun, WriteTemp \/ AssembleFails \/ RecheckSource \/ RevalidateDestination
  PROVE  RunTells'
<1>1. /\ pc \in CopyPhases /\ ~moved /\ ~disturbed
      /\ UNCHANGED <<part, copy, mode, at, stale, taken>> /\ CurrentPolicy' = CurrentPolicy
  BY DEF QuietRun, RunKnows, WriteTemp, AssembleFails, RecheckSource,
     RevalidateDestination, CopyPhases, files, CurrentPolicy
<1>2. \A c \in Copies : Settled(c)'
  BY <1>1 DEF QuietRun, RunKnows, Reached, Settled
<1>3. CASE AssembleFails
  <2>1. Len(taken) \in Parts
    BY <1>3, CopyNumbers, LenProperties
       DEF AssembleFails, AllTaken, QuietRun, SyncInv, TypeOK, Parts
  <2> QED BY <1>1, <1>3, <2>1, FailTells DEF AssembleFails
<1>4. CASE WriteTemp
  <2>1. temp' = CurrentPolicy
    BY <1>4, PolicyIsCurrent DEF WriteTemp, QuietRun, RunKnows, SyncInv
  <2>2. pc' = "recheck" /\ UNCHANGED <<moved, disturbed>>
    BY <1>4 DEF WriteTemp, Goto
  <2> QED BY <1>1, <1>2, <2>1, <2>2 DEF RunTells, RunKnows, ExitZeroMeansSynced,
             FailureHasReason, CopyPhases
<1>5. CASE RecheckSource \/ RevalidateDestination
  <2>1. pc' \in {"revalidate", "replace"} /\ UNCHANGED <<temp, moved, disturbed>>
        /\ temp = CurrentPolicy
    BY <1>1, <1>5 DEF RecheckSource, RevalidateDestination, Goto, copying, QuietRun,
       RunKnows, CopyPhases
  <2> QED BY <1>1, <1>2, <2>1 DEF RunTells, RunKnows, ExitZeroMeansSynced,
             FailureHasReason, CopyPhases
<1> QED BY <1>3, <1>4, <1>5

\* Replacing the copy.
LEMMA ReplaceTells ==
  ASSUME QuietRun, ReplaceCopy
  PROVE  RunTells'
<1>1. /\ pc = "replace" /\ temp = CurrentPolicy /\ at \in Copies
      /\ copy \in [Copies -> File] /\ UNCHANGED <<part, mode>>
      /\ CurrentPolicy' = CurrentPolicy
  BY DEF QuietRun, RunKnows, SyncInv, TypeOK, ReplaceCopy, CopyPhases, CurrentPolicy
<1>2. \A c \in Copies : Settled(c)
  BY <1>1 DEF QuietRun, RunKnows, Reached, CopyPhases
<1>3. CASE copy[at].kind = "unsafe" /\ Fail /\ UNCHANGED <<copy, stale>>
  BY <1>1, <1>3, FailTells
<1>4. CASE copy' = [copy EXCEPT ![at] = temp] /\ stale' = stale \ {at} /\ Goto("copy")
  <2>1. CurrentPolicy.kind = "policy"
    BY DEF CurrentPolicy
  <2>2. \A c \in Copies : Settled(c)'
    BY <1>1, <1>2, <1>4, <2>1 DEF Settled
  <2>3. pc' = "copy"
    BY <1>4 DEF Goto
  <2> QED BY <2>2, <2>3 DEF RunTells, RunKnows, ExitZeroMeansSynced, FailureHasReason,
             CopyPhases
<1> QED BY <1>3, <1>4 DEF ReplaceCopy

\* A failing write and a kill.
LEMMA BreakTells ==
  ASSUME QuietRun, CopyFails \/ Killed
  PROVE  RunTells'
<1>1. CASE CopyFails
  BY <1>1, FailTells DEF CopyFails, files
<1>2. CASE Killed
  BY <1>2 DEF Killed, Exit, RunTells, RunKnows, Reached, ExitZeroMeansSynced,
     FailureHasReason, CopyPhases
<1> QED BY <1>1, <1>2

\* Every step keeps the invariant.
LEMMA ExitStep == ExitInv /\ [Next]_vars => ExitInv'
<1> SUFFICES ASSUME ExitInv, [Next]_vars PROVE ExitInv'
  OBVIOUS
<1>1. SyncInv' /\ SyncInv
  BY StepKeeps DEF ExitInv
<1>2. CASE Start
  BY <1>1, <1>2, StartTells DEF ExitInv, RunTells
<1>3. CASE EditPart \/ EditCopy
  <2>1. edited'
    BY <1>3 DEF EditPart, EditCopy
  <2> QED BY <1>1, <2>1 DEF ExitInv, ExitZeroMeansSynced, FailureHasReason
<1>4. CASE UNCHANGED vars
  BY <1>1, <1>4 DEF ExitInv, vars, files, control, copying, history, RunKnows, Reached,
     Settled, ReadTruly, CurrentPolicy, ExitZeroMeansSynced, FailureHasReason
<1>5. CASE Next /\ ~Start /\ ~EditPart /\ ~EditCopy
  <2>1. edited' = edited
    BY <1>5 DEF Next, Sync, InspectTarget, ReadPart, ReadFails, CompareCopy, Decide,
       CopiesDone, BeginCopy, WriteTemp, AssembleFails, RecheckSource,
       RevalidateDestination, ReplaceCopy, CopyFails, Killed, history
  <2>2. CASE edited
    BY <1>1, <2>1, <2>2 DEF ExitInv, ExitZeroMeansSynced, FailureHasReason
  <2>3. CASE ~edited
    <3>1. QuietRun
      BY <2>3 DEF ExitInv, QuietRun
    <3>2. RunTells'
      BY <1>5, <3>1, InspectTells, ReadTells, CompareTells, DecideTells, BeginTells,
         AssembleTells, ReplaceTells, BreakTells DEF Next, Sync
    <3> QED BY <1>1, <3>2 DEF ExitInv, RunTells
  <2> QED BY <2>2, <2>3
<1> QED BY <1>2, <1>3, <1>4, <1>5

\* The invariant holds in every reachable state.
THEOREM ExitInvariant == Spec => []ExitInv
<1>1. Init => ExitInv
  BY InitEstablishes DEF Init, ExitInv, ExitZeroMeansSynced, FailureHasReason
<1> QED BY <1>1, ExitStep, PTL DEF Spec

\* An exit with 0 means that every copy is the policy, and a failed sync run
\* has a bad document, an unsafe destination or an I/O error to show
\* (scripts/sync.py, sync_copies), after any history of edits and kills.
THEOREM ExitIsTrueHolds == Spec => []ExitIsTrue
<1>1. ExitInv => ExitIsTrue
  BY DEF ExitInv, SyncInv, ExitIsTrue
<1> QED BY <1>1, ExitInvariant, PTL

\* A run that meets an unsafe destination while nobody edits has replaced no
\* copy before it: the inspection of all copies comes first.
THEOREM UnsafeStopsRunHolds == Spec => UnsafeStopsRun
<1>1. ExitInv /\ [Next]_vars
        => [pc = "replace" /\ pc' = "copy" /\ ~edited
              => \A c \in Copies : copy[c].kind # "unsafe"]_vars
  BY DEF ExitInv, RunKnows, Reached, Settled, CopyPhases
<1> QED BY <1>1, ExitInvariant, PTL DEF Spec, UnsafeStopsRun

=============================================================================
