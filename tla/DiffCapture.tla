---------------------------- MODULE DiffCapture -----------------------------
(***************************************************************************)
(* ci/build_pr_case.py and its workflow step: git writes the diff of the   *)
(* pull request into a pipe, a reader thread reads it up to a limit, and   *)
(* the main thread joins the reader and git under timeouts.  The review    *)
(* sees the case text only when the diff in it is the complete one.        *)
(*                                                                         *)
(* Bytes are counted, not represented.  Time is abstract: a timeout can    *)
(* expire whenever the awaited event has not happened.  Git can fail, and  *)
(* it can stall at any point.                                              *)
(***************************************************************************)
EXTENDS Naturals

CONSTANTS
  DiffSizes,     \* sizes of the complete diff, in bytes
  MaximumBytes,  \* MAX_DIFF_BYTES
  PipeCapacity   \* bytes git can write ahead of the reader

ASSUME CaptureAssumption ==
  /\ DiffSizes \subseteq Nat
  /\ MaximumBytes \in Nat
  /\ PipeCapacity \in Nat \ {0}

VARIABLES
  main,     \* program counter of the main thread
  problem,  \* why the capture is being abandoned, or "none"
  outcome,  \* output of the workflow step
  size,     \* size of the complete diff
  git,      \* the git process
  code,     \* its exit status
  written,  \* bytes git has written
  piped,    \* bytes written and not yet read
  reader,   \* the reader thread
  output,   \* bytes it has read
  stdout    \* read end of the pipe

mainVars   == <<main, problem, outcome>>
gitVars    == <<size, git, code, written>>
readerVars == <<reader, output>>
vars       == <<mainVars, gitVars, piped, readerVars, stdout>>

ReadLimit == MaximumBytes + 1
ReaderAlive == reader \in {"starting", "reading"}

\* Git closes its end of the pipe before its exit can be collected.
WriteEndOpen == git = "running"

Init ==
  /\ main = "prepare"
  /\ problem = "none"
  /\ outcome = "none"
  /\ size \in DiffSizes
  /\ git = "none"
  /\ code = "none"
  /\ written = 0
  /\ piped = 0
  /\ reader = "none"
  /\ output = 0
  /\ stdout = "none"

-----------------------------------------------------------------------------
(* The main thread *)

\* main and the step's shell: exit code 3 is the capacity report, any other
\* exception fails the step.
End(result) ==
  /\ main' = "ended"
  /\ outcome' = result

Goto(phase) ==
  /\ main' = phase
  /\ UNCHANGED outcome

Abandon(why) ==
  /\ Goto("kill")
  /\ problem' = why

\* The event, the metadata or the revisions are unusable, or git cannot start.
PrepareFails ==
  /\ main = "prepare"
  /\ End("failed")
  /\ UNCHANGED <<problem, gitVars, piped, readerVars, stdout>>

StartGit ==
  /\ main = "prepare"
  /\ Goto("start")
  /\ git' = "running"
  /\ stdout' = "open"
  /\ UNCHANGED <<problem, size, code, written, piped, readerVars>>

StartReader ==
  /\ main = "start"
  /\ Goto("join")
  /\ reader' = "starting"
  /\ UNCHANGED <<problem, gitVars, piped, output, stdout>>

\* thread.join(timeout) and the is_alive test after it.
JoinReader ==
  /\ main = "join"
  /\ ~ReaderAlive
  /\ Goto("inspect")
  /\ UNCHANGED <<problem, gitVars, piped, readerVars, stdout>>

JoinTimesOut ==
  /\ main = "join"
  /\ ReaderAlive
  /\ Abandon("timeout")
  /\ UNCHANGED <<gitVars, piped, readerVars, stdout>>

\* Mutant of InspectOutput: output of exactly the limit is too large.
InspectAtLimit ==
  /\ main = "inspect"
  /\ IF reader = "error" THEN Abandon("read_error")
     ELSE IF output >= MaximumBytes THEN Abandon("too_large")
     ELSE Goto("wait") /\ UNCHANGED problem
  /\ UNCHANGED <<gitVars, piped, readerVars, stdout>>

InspectOutput ==
  /\ main = "inspect"
  /\ IF reader = "error" THEN Abandon("read_error")
     ELSE IF output > MaximumBytes THEN Abandon("too_large")
     ELSE Goto("wait") /\ UNCHANGED problem
  /\ UNCHANGED <<gitVars, piped, readerVars, stdout>>

\* process.wait(timeout)
WaitForGit ==
  /\ main = "wait"
  /\ \/ /\ git = "exited"
        /\ git' = "reaped"
        /\ Goto("leave")
        /\ UNCHANGED problem
     \/ /\ git # "exited"
        /\ Abandon("timeout")
        /\ UNCHANGED git
  /\ UNCHANGED <<size, code, written, piped, readerVars, stdout>>

\* process.kill() polls first: an exited process is collected, not signalled.
KillGit ==
  /\ main = "kill"
  /\ Goto("close")
  /\ IF git \in {"running", "closed"}
       THEN git' = "exited" /\ code' = "signal"
       ELSE git' = "reaped" /\ UNCHANGED code
  /\ UNCHANGED <<problem, size, written, piped, readerVars, stdout>>

\* process.stdout.close() waits for a read in progress.
CloseOutput ==
  /\ main = "close"
  /\ reader # "reading"
  /\ Goto("reap")
  /\ stdout' = "closed"
  /\ UNCHANGED <<problem, gitVars, piped, readerVars>>

\* Mutant of ReapGit: the killed process is not waited for.
LeaveZombie ==
  /\ main = "reap"
  /\ Goto("raise")
  /\ UNCHANGED <<problem, gitVars, piped, readerVars, stdout>>

\* process.wait() without a timeout.
ReapGit ==
  /\ main = "reap"
  /\ git \in {"exited", "reaped"}
  /\ git' = "reaped"
  /\ Goto("raise")
  /\ UNCHANGED <<problem, size, code, written, piped, readerVars, stdout>>

\* A last bounded join of the reader, then the exception; the with statement
\* has nothing left to close or to wait for.
RaiseProblem ==
  /\ main = "raise"
  /\ End(IF problem = "too_large" THEN "oversized" ELSE "failed")
  /\ UNCHANGED <<problem, gitVars, piped, readerVars, stdout>>

\* Mutant of LeaveCapture: the exit status of git is not looked at.
LeaveUnchecked ==
  /\ main = "leave"
  /\ stdout' = "closed"
  /\ Goto("assemble")
  /\ UNCHANGED <<problem, gitVars, piped, readerVars>>

\* The with statement closes the pipe; a failed git leaves no diff.
LeaveCapture ==
  /\ main = "leave"
  /\ stdout' = "closed"
  /\ IF code = "ok" THEN Goto("assemble") ELSE End("failed")
  /\ UNCHANGED <<problem, gitVars, piped, readerVars>>

\* Decoding, the policy digest or the write of case_text.txt fails.
AssembleFails ==
  /\ main = "assemble"
  /\ End("failed")
  /\ UNCHANGED <<problem, gitVars, piped, readerVars, stdout>>

AssembleCase ==
  /\ main = "assemble"
  /\ End("case")
  /\ UNCHANGED <<problem, gitVars, piped, readerVars, stdout>>

-----------------------------------------------------------------------------
(* The reader thread: process.stdout.read(maximum_bytes + 1) *)

\* A read of a closed file raises.
BeginRead ==
  /\ reader = "starting"
  /\ reader' = IF stdout = "open" THEN "reading" ELSE "error"
  /\ UNCHANGED <<mainVars, gitVars, piped, output, stdout>>

ReadBytes ==
  /\ reader = "reading"
  /\ output < ReadLimit
  /\ \E n \in 1..piped :
       /\ output + n <= ReadLimit
       /\ output' = output + n
       /\ piped' = piped - n
  /\ UNCHANGED <<mainVars, gitVars, reader, stdout>>

\* read returns at the limit or at the end of the stream.
EndRead ==
  /\ reader = "reading"
  /\ output = ReadLimit \/ (piped = 0 /\ ~WriteEndOpen)
  /\ reader' = "done"
  /\ UNCHANGED <<mainVars, gitVars, piped, output, stdout>>

ReadFails ==
  /\ reader = "reading"
  /\ reader' = "error"
  /\ UNCHANGED <<mainVars, gitVars, piped, output, stdout>>

-----------------------------------------------------------------------------
(* git diff *)

GitWrites ==
  /\ git = "running"
  /\ written < size
  /\ piped < PipeCapacity
  /\ written' = written + 1
  /\ piped' = piped + 1
  /\ UNCHANGED <<mainVars, size, git, code, readerVars, stdout>>

\* The end of the diff, or an error after a part of it.
GitCloses ==
  /\ git = "running"
  /\ git' = "closed"
  /\ \/ written = size /\ code' = "ok"
     \/ code' = "error"
  /\ UNCHANGED <<mainVars, size, written, piped, readerVars, stdout>>

GitExits ==
  /\ git = "closed"
  /\ git' = "exited"
  /\ UNCHANGED <<mainVars, size, code, written, piped, readerVars, stdout>>

-----------------------------------------------------------------------------
(* Specification *)

MainStep ==
  \/ PrepareFails \/ StartGit \/ StartReader \/ JoinReader \/ JoinTimesOut
  \/ InspectOutput \/ WaitForGit \/ KillGit \/ CloseOutput \/ ReapGit
  \/ RaiseProblem \/ LeaveCapture \/ AssembleFails \/ AssembleCase

ReaderStep == BeginRead \/ ReadBytes \/ EndRead \/ ReadFails

GitStep == GitWrites \/ GitCloses \/ GitExits

Next == MainStep \/ ReaderStep \/ GitStep

Spec == Init /\ [][Next]_vars

-----------------------------------------------------------------------------
(* Properties *)

\* Types of the variables.
TypeOK ==
  /\ main \in {"prepare", "start", "join", "inspect", "wait", "kill", "close",
               "reap", "raise", "leave", "assemble", "ended"}
  /\ problem \in {"none", "timeout", "read_error", "too_large"}
  /\ outcome \in {"none", "case", "oversized", "failed"}
  /\ size \in DiffSizes
  /\ git \in {"none", "running", "closed", "exited", "reaped"}
  /\ code \in {"none", "ok", "error", "signal"}
  /\ written \in 0..size
  /\ piped \in 0..PipeCapacity
  /\ reader \in {"none", "starting", "reading", "done", "error"}
  /\ output \in 0..ReadLimit
  /\ stdout \in {"none", "open", "closed"}

\* A case text holds the complete diff: no timeout, failure of git or limit
\* ever leaves a truncated diff to be reviewed as if it were all of it.
CaseIsComplete == outcome = "case" => output = size

\* "the diff exceeds review capacity" is said only of a diff above the limit,
\* although it is decided while git is still writing.
OversizedIsReal == outcome = "oversized" => size > MaximumBytes

\* When the step is over git is neither running nor a zombie, and no thread
\* is inside a read of its pipe.
NothingLeftBehind ==
  outcome # "none" => git \in {"none", "reaped"} /\ reader # "reading"

\* Whatever times out, fails or stalls, the capture says nothing untrue of the
\* diff and leaves nothing behind.
CaptureIsSound == CaseIsComplete /\ OversizedIsReal /\ NothingLeftBehind
=============================================================================
