--------------------------- MODULE GitStateReader ---------------------------
(***************************************************************************)
(* scripts/read_git_state.py: the operation "all" asks git four questions  *)
(* one after the other, while others switch branches, commit and edit.     *)
(***************************************************************************)
EXTENDS Naturals, Sequences

CONSTANTS
  Refs,      \* branches, or "detached"
  Revisions, \* commits a branch can be on
  Remotes,   \* origins, "none" included
  MaxMoves   \* bound on changes during the read

ASSUME ReaderAssumption == MaxMoves \in Nat

VARIABLES
  now,      \* the state of the repository
  before,   \* history: the states it was in, oldest first
  answers,  \* the fields read so far
  reader,   \* "reading", "printed" or "failed"
  asking    \* the question put to git next

readerVars == <<now, before, answers, reader, asking>>

\* readers of read_state, in their order.
Questions == <<"branch", "remote", "revision", "status">>

States == [branch : Refs, remote : Remotes, revision : Revisions,
           status : {"clean", "dirty"}]

ReaderInit ==
  /\ now \in States
  /\ before = <<now>>
  /\ answers = [branch |-> "unread", remote |-> "unread",
                revision |-> "unread", status |-> "unread"]
  /\ reader = "reading"
  /\ asking = 1

Field == Questions[asking]

\* Mutant of ReadField: the answers before the first failure are printed.
ReadUntilFailure ==
  /\ reader = "reading"
  /\ asking <= Len(Questions)
  /\ \/ /\ answers' = [answers EXCEPT ![Field] = now[Field]]
        /\ asking' = asking + 1
     \/ /\ asking' = Len(Questions) + 1
        /\ UNCHANGED answers
  /\ UNCHANGED <<now, before, reader>>

\* run_git and the parser of the field; without an origin there is an answer.
ReadField ==
  /\ reader = "reading"
  /\ asking <= Len(Questions)
  /\ answers' = [answers EXCEPT ![Field] = now[Field]]
  /\ asking' = asking + 1
  /\ UNCHANGED <<now, before, reader>>

\* git fails, times out, or its answer is too long or malformed.  Only the
\* remote is then taken for missing, when git itself refused the question.
ReadFails ==
  /\ reader = "reading"
  /\ asking <= Len(Questions)
  /\ \/ /\ reader' = "failed"
        /\ UNCHANGED <<answers, asking>>
     \/ /\ Field = "remote"
        /\ answers' = [answers EXCEPT !.remote = "none"]
        /\ asking' = asking + 1
        /\ UNCHANGED reader
  /\ UNCHANGED <<now, before>>

PrintState ==
  /\ reader = "reading"
  /\ asking > Len(Questions)
  /\ reader' = "printed"
  /\ UNCHANGED <<now, before, answers, asking>>

\* A switch, a commit, an edit or a change of the remote.
RepositoryMoves ==
  /\ reader = "reading"
  /\ Len(before) <= MaxMoves
  /\ now' \in States \ {now}
  /\ before' = Append(before, now')
  /\ UNCHANGED <<answers, reader, asking>>

ReaderNext == ReadField \/ ReadFails \/ PrintState \/ RepositoryMoves

ReaderSpec == ReaderInit /\ [][ReaderNext]_readerVars

-----------------------------------------------------------------------------
(* Properties *)

\* What is printed is complete, and its fields were true one after the other:
\* no field is older than the field read before it.  A remote that git did not
\* name is printed as missing.
PrintedInOrder ==
  reader = "printed" =>
    \E times \in [DOMAIN Questions -> DOMAIN before] :
      /\ \A i, j \in DOMAIN Questions : i < j => times[i] <= times[j]
      /\ \A i \in DOMAIN Questions :
           LET field == Questions[i] IN
             \/ answers[field] = before[times[i]][field]
             \/ field = "remote" /\ answers[field] = "none"
=============================================================================
