----------------------------- MODULE PolicySync -----------------------------
(***************************************************************************)
(* scripts/sync.py, --check and the default mode: the policy (AGENTS.md    *)
(* followed by the supporting documents) is compared with its copies and   *)
(* stale copies are replaced through a temporary file.  Files are edited   *)
(* while a run is in progress, I/O fails, and a run can be killed.         *)
(*                                                                         *)
(* A document is a version number; part 0 is AGENTS.md.  The lstat state   *)
(* (device, inode, size, mtime) the code compares changes with every edit, *)
(* so it is modelled by whether an edit came since it was taken.           *)
(*                                                                         *)
(* Bounds: MaxVersion, MaxEdits, MaxRuns; at most one run is killed.       *)
(***************************************************************************)
EXTENDS Naturals, Sequences, FiniteSets

CONSTANTS
  NumCopies,   \* entries of COPIES
  NumDocs,     \* entries of SUPPORTING_POLICY_FILES
  MaxVersion,  \* versions of a document
  MaxEdits,    \* edits by others
  MaxRuns,     \* runs of sync.py
  Bad          \* a document that is missing, irregular, too large or not ASCII

ASSUME SyncAssumption ==
  /\ NumCopies \in Nat \ {0} /\ NumDocs \in Nat
  /\ MaxVersion \in Nat /\ MaxEdits \in Nat /\ MaxRuns \in Nat
  /\ Bad \notin 0..MaxVersion

Copies   == 1..NumCopies
Parts    == 0..NumDocs
Versions == 0..MaxVersion

VARIABLES
  part,       \* the documents of the policy
  copy,       \* the copies
  pc,         \* position of the current run, "idle" between runs
  mode,       \* "check" or "sync"
  at,         \* index of the copy at hand
  stale,      \* copies found stale and not yet replaced
  taken,      \* versions policy_bytes has read so far, in order
  temp,       \* content of the run's temporary file
  temps,      \* number of temporary files on disk
  moved,      \* AGENTS.md changed since this copy began
  disturbed,  \* the destination changed since this copy began
  exit,       \* exit code of the last run
  runs, edits, \* counters of the bounds
  inspected,  \* history: AGENTS.md when this copy began
  edited,     \* history: an edit came since the last run began
  failed,     \* history: I/O failed in the last run
  crashed     \* history: a run was killed

files   == <<part, copy>>
control == <<pc, mode, at, stale>>
copying == <<temp, temps, moved, disturbed, inspected>>
history == <<runs, edits, edited, failed, crashed>>
vars    == <<files, control, copying, taken, exit, history>>

NoParts == [k \in Parts |-> 0]
File    == [kind : {"absent", "unsafe", "other", "partial", "policy"},
            parts : [Parts -> Versions]]
Other(kind) == [kind |-> kind, parts |-> NoParts]

\* The concatenation of the documents in order.
Policy(vs) == [kind |-> "policy", parts |-> [k \in Parts |-> vs[k + 1]]]
AllTaken   == Len(taken) = NumDocs + 1

CurrentPolicy == [kind |-> "policy", parts |-> part]

Init ==
  /\ part = NoParts
  /\ copy \in [Copies -> {Other("absent"), Other("other"), CurrentPolicy}]
  /\ pc = "idle" /\ mode = "check" /\ at = 1 /\ stale = {}
  /\ taken = <<>>
  /\ temp = Other("absent") /\ temps = 0
  /\ moved = FALSE /\ disturbed = FALSE /\ inspected = 0
  /\ exit = 0
  /\ runs = 0 /\ edits = 0
  /\ edited = TRUE /\ failed = FALSE /\ crashed = FALSE

-----------------------------------------------------------------------------
(* Everybody else *)

\* A document is edited, replaced, removed or restored.
EditPart ==
  /\ edits < MaxEdits
  /\ \E k \in Parts, v \in Versions \cup {Bad} :
       /\ part' = [part EXCEPT ![k] = v]
       /\ moved' = (moved \/ k = 0)
  /\ edits' = edits + 1
  /\ edited' = TRUE
  /\ UNCHANGED <<copy, control, temp, temps, disturbed, inspected, taken, exit,
                 runs, failed, crashed>>

\* A copy is edited, removed or replaced by a link or a directory.
EditCopy ==
  /\ edits < MaxEdits
  /\ \E c \in Copies, kind \in {"absent", "unsafe", "other"} :
       /\ copy' = [copy EXCEPT ![c] = Other(kind)]
       /\ disturbed' = (disturbed \/ c = at)
  /\ edits' = edits + 1
  /\ edited' = TRUE
  /\ UNCHANGED <<part, control, temp, temps, moved, inspected, taken, exit,
                 runs, failed, crashed>>

-----------------------------------------------------------------------------
(* sync_copies: inspection *)

Exit(code) == pc' = "idle" /\ exit' = code

Goto(phase) == pc' = phase /\ UNCHANGED exit

Start ==
  /\ pc = "idle"
  /\ runs < MaxRuns
  /\ mode' \in {"check", "sync"}
  /\ IF part[0] = Bad THEN Exit(1) ELSE Goto("inspect")
  /\ at' = 1
  /\ stale' = {}
  /\ runs' = runs + 1
  /\ edited' = FALSE
  /\ failed' = FALSE
  /\ UNCHANGED <<files, copying, taken, edits, crashed>>

\* On to the next entry of COPIES, or to the decision after the last.
NextCopy ==
  /\ at' = IF at = NumCopies THEN at ELSE at + 1
  /\ Goto(IF at = NumCopies THEN "decide" ELSE "inspect")

MarkStale == stale' = stale \cup {at} /\ NextCopy

\* Mutant of InspectTarget: an unsafe destination is merely stale.
InspectLenient ==
  /\ pc = "inspect"
  /\ IF copy[at].kind \in {"absent", "unsafe"} THEN MarkStale
     ELSE Goto("read") /\ UNCHANGED <<at, stale>>
  /\ taken' = <<>>
  /\ UNCHANGED <<files, mode, copying, history>>

\* An unsafe destination ends the run before anything is written.
InspectTarget ==
  /\ pc = "inspect"
  /\ IF copy[at].kind = "unsafe" THEN Exit(1) /\ UNCHANGED <<at, stale>>
     ELSE IF copy[at].kind = "absent" THEN MarkStale
     ELSE Goto("read") /\ UNCHANGED <<at, stale>>
  /\ taken' = <<>>
  /\ UNCHANGED <<files, mode, copying, history>>

\* policy_bytes reads one document after the other.
ReadPart ==
  /\ pc \in {"read", "assemble"}
  /\ ~AllTaken
  /\ part[Len(taken)] # Bad
  /\ taken' = Append(taken, part[Len(taken)])
  /\ UNCHANGED <<files, control, copying, exit, history>>

\* files_match turns an unusable policy into a mismatch.
ReadFails ==
  /\ pc = "read"
  /\ ~AllTaken
  /\ part[Len(taken)] = Bad
  /\ MarkStale
  /\ UNCHANGED <<files, mode, copying, taken, history>>

\* Mutant of CompareCopy: any existing file counts as a match.
ComparePresence ==
  /\ pc = "read" /\ AllTaken
  /\ NextCopy
  /\ UNCHANGED <<files, mode, stale, copying, taken, history>>

CompareCopy ==
  /\ pc = "read" /\ AllTaken
  /\ IF copy[at] = Policy(taken)
       THEN NextCopy /\ UNCHANGED stale
       ELSE MarkStale
  /\ UNCHANGED <<files, mode, copying, taken, history>>

Decide ==
  /\ pc = "decide"
  /\ IF mode = "check"
       THEN Exit(IF stale = {} THEN 0 ELSE 1)
       ELSE Goto("copy")
  /\ UNCHANGED <<files, mode, at, stale, copying, taken, history>>

-----------------------------------------------------------------------------
(* _atomic_copy *)

\* Mutant of Fail: the temporary file stays.
FailLeavingTemp ==
  /\ Exit(1)
  /\ temp' = Other("absent")
  /\ UNCHANGED <<temps, moved, disturbed, inspected>>

\* An exception removes the temporary file and ends the run.
Fail ==
  /\ Exit(1)
  /\ temp' = Other("absent")
  /\ temps' = temps - 1
  /\ UNCHANGED <<moved, disturbed, inspected>>

CopiesDone ==
  /\ pc = "copy" /\ stale = {}
  /\ Exit(0)
  /\ UNCHANGED <<files, mode, at, stale, copying, taken, history>>

\* The loop over COPIES takes the stale ones in their order.
NextStale(c) == c \in stale /\ \A d \in stale : c <= d

\* Mutant of BeginCopy: the destination is written in place.
BeginInPlace ==
  /\ pc = "copy"
  /\ \E c \in Copies :
       /\ NextStale(c)
       /\ at' = c
       /\ copy' = [copy EXCEPT ![c] = Other("partial")]
  /\ Goto("assemble")
  /\ temp' = Other("partial") /\ temps' = temps + 1
  /\ moved' = FALSE /\ disturbed' = FALSE
  /\ inspected' = part[0]
  /\ taken' = <<>>
  /\ UNCHANGED <<part, mode, stale, history>>

\* Mutant of BeginCopy: the destination's state is not taken again.
BeginWithOldState ==
  /\ pc = "copy"
  /\ \E c \in Copies :
       /\ NextStale(c)
       /\ at' = c
       /\ IF part[0] = Bad \/ copy[c].kind = "unsafe"
            THEN Exit(1) /\ UNCHANGED copying
            ELSE /\ Goto("assemble")
                 /\ temp' = Other("partial") /\ temps' = temps + 1
                 /\ moved' = FALSE
                 /\ inspected' = part[0]
                 /\ UNCHANGED disturbed
  /\ taken' = <<>>
  /\ UNCHANGED <<files, mode, stale, history>>

\* The source and the destination are inspected again and their states taken;
\* copyfile fills the temporary file with AGENTS.md alone.
BeginCopy ==
  /\ pc = "copy"
  /\ \E c \in Copies :
       /\ NextStale(c)
       /\ at' = c
       /\ IF part[0] = Bad \/ copy[c].kind = "unsafe"
            THEN Exit(1) /\ UNCHANGED copying
            ELSE /\ Goto("assemble")
                 /\ temp' = Other("partial") /\ temps' = temps + 1
                 /\ moved' = FALSE /\ disturbed' = FALSE
                 /\ inspected' = part[0]
  /\ taken' = <<>>
  /\ UNCHANGED <<files, mode, stale, history>>

\* The assembled policy is longer than AGENTS.md and replaces it in the file.
WriteTemp ==
  /\ pc = "assemble" /\ AllTaken
  /\ temp' = Policy(taken)
  /\ Goto("recheck")
  /\ UNCHANGED <<files, mode, at, stale, temps, moved, disturbed, inspected,
                 taken, history>>

AssembleFails ==
  /\ pc = "assemble" /\ ~AllTaken
  /\ part[Len(taken)] = Bad
  /\ Fail
  /\ UNCHANGED <<files, mode, at, stale, taken, history>>

\* Mutant of RecheckSource: the source is not compared again.
RecheckNothing ==
  /\ pc = "recheck"
  /\ Goto("revalidate")
  /\ UNCHANGED <<files, mode, at, stale, copying, taken, history>>

RecheckSource ==
  /\ pc = "recheck"
  /\ IF moved THEN Fail ELSE Goto("revalidate") /\ UNCHANGED copying
  /\ UNCHANGED <<files, mode, at, stale, taken, history>>

RevalidateDestination ==
  /\ pc = "revalidate"
  /\ IF disturbed THEN Fail ELSE Goto("replace") /\ UNCHANGED copying
  /\ UNCHANGED <<files, mode, at, stale, taken, history>>

\* os.replace renames over anything but a directory.
ReplaceCopy ==
  /\ pc = "replace"
  /\ \/ /\ copy' = [copy EXCEPT ![at] = temp]
        /\ temp' = Other("absent") /\ temps' = temps - 1
        /\ stale' = stale \ {at}
        /\ Goto("copy")
        /\ UNCHANGED <<moved, disturbed, inspected>>
     \/ /\ copy[at].kind = "unsafe"
        /\ Fail
        /\ UNCHANGED <<copy, stale>>
  /\ UNCHANGED <<part, mode, at, taken, history>>

\* Writing, flushing, changing the mode or renaming fails.
CopyFails ==
  /\ pc \in {"assemble", "recheck", "revalidate", "replace"}
  /\ Fail
  /\ failed' = TRUE
  /\ UNCHANGED <<files, mode, at, stale, taken, runs, edits, edited, crashed>>

\* The process is killed: nothing is cleaned up.
Killed ==
  /\ pc # "idle" /\ ~crashed
  /\ Exit(9)
  /\ crashed' = TRUE
  /\ UNCHANGED <<files, mode, at, stale, copying, taken, runs, edits, edited, failed>>

-----------------------------------------------------------------------------
(* Specification *)

Sync ==
  \/ Start \/ InspectTarget \/ ReadPart \/ ReadFails \/ CompareCopy \/ Decide
  \/ CopiesDone \/ BeginCopy \/ WriteTemp \/ AssembleFails \/ RecheckSource
  \/ RevalidateDestination \/ ReplaceCopy \/ CopyFails

Next == Sync \/ Killed \/ EditPart \/ EditCopy

Spec == Init /\ [][Next]_vars

-----------------------------------------------------------------------------
(* Properties *)

\* Types of the variables.
TypeOK ==
  /\ part \in [Parts -> Versions \cup {Bad}]
  /\ copy \in [Copies -> File]
  /\ pc \in {"idle", "inspect", "read", "decide", "copy", "assemble", "recheck",
             "revalidate", "replace"}
  /\ mode \in {"check", "sync"}
  /\ at \in Copies
  /\ stale \subseteq Copies
  /\ taken \in Seq(Versions) /\ Len(taken) <= NumDocs + 1
  /\ temp \in File /\ temps \in Nat
  /\ moved \in BOOLEAN /\ disturbed \in BOOLEAN /\ edited \in BOOLEAN
  /\ failed \in BOOLEAN /\ crashed \in BOOLEAN
  /\ exit \in {0, 1, 9}
  /\ runs \in 0..MaxRuns /\ edits \in 0..MaxEdits
  /\ inspected \in Versions

\* "Copy source to target without exposing a partial destination": whatever
\* fails and whenever the process is killed, no copy is ever half written.
CopiesAreWhole == \A c \in Copies : copy[c].kind # "partial"

\* A run that exits with 0 while nobody edits, in either mode, leaves every copy
\* equal to the policy, also after an earlier run was killed half way.
ExitZeroMeansSynced ==
  pc = "idle" /\ exit = 0 /\ ~edited => \A c \in Copies : copy[c] = CurrentPolicy

\* Nothing an earlier run left behind makes a later one fail: without edits and
\* I/O errors a sync run fails only on a bad document or an unsafe destination.
FailureHasReason ==
  pc = "idle" /\ mode = "sync" /\ exit = 1 /\ ~edited /\ ~failed =>
    \/ \E k \in Parts : part[k] = Bad
    \/ \E c \in Copies : copy[c].kind = "unsafe"

\* What the exit code says of a run is true, after any history of kills.
ExitIsTrue == TypeOK /\ ExitZeroMeansSynced /\ FailureHasReason

\* Unless somebody edits meanwhile, a run that meets an unsafe destination has
\* not replaced any other copy before.
UnsafeStopsRun ==
  [][pc = "replace" /\ pc' = "copy" /\ ~edited
       => \A c \in Copies : copy[c].kind # "unsafe"]_vars

\* "source changed during copy": the AGENTS.md part of an installed copy is the
\* one inspected when the copy began, however edits and reads interleave.
InstalledAsInspected ==
  [][pc = "replace" /\ pc' = "copy" => copy'[at].parts[0] = inspected]_vars

\* Every exit of a run that is not killed removes its temporary file.
NoTempLeft == pc = "idle" /\ ~crashed => temps = 0
=============================================================================
