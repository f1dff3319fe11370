---------------------------- MODULE ComplianceScan ----------------------------
(***************************************************************************)
(* scripts/check_compliance_tree.py: one scan of an immutable tree and of  *)
(* the commits and names that come with it.  Blobs are read through a      *)
(* cache, every text is given to the checkers its path calls for, then the *)
(* conflict checker reads the same tree, then the metadata is checked.     *)
(*                                                                         *)
(* A text is the one rule it breaks, or "none".  A path is the place it    *)
(* has in the repository; "checker" is a trusted script, "fixture" code    *)
(* under eval/cases/.                                                      *)
(***************************************************************************)
EXTENDS Naturals, Sequences, FiniteSets

CONSTANTS
  Blobs,          \* object ids
  BlobSize,       \* sizes of the blobs, by id
  MaxTotalBytes,  \* MAX_TOTAL_BLOB_BYTES
  MaxFindings,    \* MAX_VIOLATIONS
  MaxEntries      \* bound on the tree

ASSUME ComplianceAssumption ==
  /\ BlobSize \in [Blobs -> Nat]
  /\ MaxTotalBytes \in Nat
  /\ MaxFindings \in Nat \ {0}
  /\ MaxEntries \in Nat

VARIABLES
  tree,      \* the entries, in the order of ls-tree
  texts,     \* the rule each blob breaks
  stage,     \* where the scan stands
  next,      \* index of the next entry
  cache,     \* the blobs kept in memory
  total,     \* bytes counted so far
  findings,  \* number of violations
  search,    \* PATH of the process
  result,    \* exit status, or "none"
  broken,    \* history: a command or a check failed to run
  denied     \* history: a metadata check found something

complianceVars == <<tree, texts, stage, next, cache, total, findings, search,
                    result, broken, denied>>

Places == {"workflow", "action", "checker", "code", "fixture", "container",
           "plain"}

\* What the checkers of a workflow or an action find: credentials that persist,
\* an action without a full revision, a privileged workflow that is not exactly
\* the trusted one.
WorkflowRules == {"credentials", "workflow"}

Rules == WorkflowRules \cup {"secret", "hash", "root", "conflict"}

\* Texts, after decoding; "huge" is over MAX_BLOB_SIZE.
Texts == Rules \cup {"none", "huge"}

TreeEntries == [place : Places, mode : {"file", "link"}, blob : Blobs]
             \cup [place : {"plain"}, mode : {"submodule"}, blob : Blobs]

\* git cat-file -s, before the content is asked for.
BlobFits(blob) == texts[blob] # "huge"

\* A link there would replace what the workflows trust.
Critical == {"workflow", "checker"}

\* Mutant of RulesFor: a fixture is any code, and a checker is none.
RulesForCode(place) ==
  {"secret"}
    \cup (IF place \in {"workflow", "action"} THEN WorkflowRules ELSE {})
    \cup (IF place \in {"code", "fixture"} THEN {"hash"} ELSE {})
    \cup (IF place \in {"container", "workflow", "action"} THEN {"root"} ELSE {})

\* _scan_blob: the checkers a file is given to.
RulesFor(place) ==
  {"secret"}
    \cup (IF place \in {"workflow", "action"} THEN WorkflowRules ELSE {})
    \cup (IF place \in {"code", "checker"} THEN {"hash"} ELSE {})
    \cup (IF place \in {"container", "workflow", "action"} THEN {"root"} ELSE {})

\* Findings in one entry.  The target of a link is only searched for secrets.
EntryFindings(entry) ==
  IF entry.mode = "link" THEN
    (IF texts[entry.blob] = "secret" THEN 1 ELSE 0)
      + (IF entry.place \in Critical THEN 1 ELSE 0)
  ELSE IF texts[entry.blob] \in RulesFor(entry.place) THEN 1 ELSE 0

\* The conflict checker reads the regular files of the same tree.
Conflicted ==
  {i \in DOMAIN tree : tree[i].mode = "file" /\ texts[tree[i].blob] = "conflict"}

ComplianceInit ==
  /\ tree \in UNION {[1..n -> TreeEntries] : n \in 0..MaxEntries}
  /\ texts \in [Blobs -> Texts]
  /\ stage = "prepare"
  /\ next = 1
  /\ cache = {}
  /\ total = 0
  /\ findings = 0
  /\ search = "inherited"
  /\ result = "none"
  /\ broken = FALSE
  /\ denied = FALSE

Given == <<tree, texts>>

End(outcome) ==
  /\ stage' = "ended"
  /\ result' = outcome

Proceed(where) ==
  /\ stage' = where
  /\ UNCHANGED result

-----------------------------------------------------------------------------

\* Every exception ends in main, which fails; PATH is put back on the way.
Raise ==
  /\ End("fail")
  /\ broken' = TRUE
  /\ search' = "inherited"
  /\ UNCHANGED <<Given, next, cache, total, findings, denied>>

\* Mutant of StepRaises: PATH is put back only after a scan that returned.
RaiseWithoutFinally ==
  /\ stage \in {"prepare", "git", "list", "blobs", "conflicts", "metadata",
                "commits"}
  /\ End("fail")
  /\ broken' = TRUE
  /\ UNCHANGED <<Given, next, cache, total, findings, denied, search>>

\* A checker is missing, git is not to be trusted or fails, an answer of it is
\* too long or malformed, a lookup fails.
StepRaises ==
  /\ stage \in {"prepare", "git", "list", "blobs", "conflicts", "metadata",
                "commits"}
  /\ Raise

\* The command line, the repository, the object id and the checkers.
Prepare ==
  /\ stage = "prepare"
  /\ Proceed("git")
  /\ UNCHANGED <<Given, next, cache, total, findings, search, broken, denied>>

\* The executable, its environment, the options it supports.
PrepareGit ==
  /\ stage = "git"
  /\ Proceed("list")
  /\ UNCHANGED <<Given, next, cache, total, findings, search, broken, denied>>

\* cat-file -t and ls-tree; an entry that is no blob is refused.
ListTree ==
  /\ stage = "list"
  /\ IF \E i \in DOMAIN tree : tree[i].mode = "submodule"
       THEN Raise
       ELSE /\ Proceed("blobs")
            /\ UNCHANGED <<Given, next, cache, total, findings, search, broken,
                           denied>>

\* The next entry: its blob from the cache or from git, the byte count, the
\* checkers.  At the limit the list is cut and the conflict scan left out.
ScanEntry ==
  /\ stage = "blobs"
  /\ next <= Len(tree)
  /\ LET blob == tree[next].blob
         sum  == total + BlobSize[blob]
         sofar == findings + EntryFindings(tree[next])
     IN IF ~BlobFits(blob) \/ sum > MaxTotalBytes THEN Raise
        ELSE /\ cache' = cache \cup {blob}
             /\ total' = sum
             /\ findings' = IF sofar >= MaxFindings THEN MaxFindings + 1 ELSE sofar
             /\ next' = next + 1
             /\ Proceed(IF sofar >= MaxFindings THEN "metadata" ELSE "blobs")
             /\ UNCHANGED <<Given, search, broken, denied>>

\* _trusted_path: the conflict checker runs git by name.
EnterConflictScan ==
  /\ stage = "blobs"
  /\ next > Len(tree)
  /\ Proceed("conflicts")
  /\ search' = "trusted"
  /\ UNCHANGED <<Given, next, cache, total, findings, broken, denied>>

ScanConflicts ==
  /\ stage = "conflicts"
  /\ findings' = findings + Cardinality(Conflicted)
  /\ Proceed("metadata")
  /\ search' = "inherited"
  /\ UNCHANGED <<Given, next, cache, total, broken, denied>>

Finding(count) ==
  /\ findings' = findings + count
  /\ denied' = (denied \/ count > 0)

\* The author and the branch; without a base that is all.
CheckNames ==
  /\ stage = "metadata"
  /\ \E count \in 0..1, base \in BOOLEAN :
       /\ Finding(count)
       /\ Proceed(IF base THEN "commits" ELSE "report")
  /\ UNCHANGED <<Given, next, cache, total, search, broken>>

\* Agents, trailers, identities of the commits.  A lookup of identities that
\* fails is a finding; a commit message only warns.
CheckCommits ==
  /\ stage = "commits"
  /\ \E count \in 0..1 : Finding(count)
  /\ Proceed("report")
  /\ UNCHANGED <<Given, next, cache, total, search, broken>>

Conclude ==
  /\ stage = "report"
  /\ End(IF findings > 0 THEN "fail" ELSE "pass")
  /\ UNCHANGED <<Given, next, cache, total, findings, search, broken, denied>>

ComplianceNext ==
  \/ StepRaises \/ Prepare \/ PrepareGit \/ ListTree \/ ScanEntry
  \/ EnterConflictScan \/ ScanConflicts \/ CheckNames \/ CheckCommits
  \/ Conclude

ComplianceSpec == ComplianceInit /\ [][ComplianceNext]_complianceVars

-----------------------------------------------------------------------------
(* Properties *)

\* Types of the variables.
ComplianceTypeOK ==
  /\ tree \in Seq(TreeEntries)
  /\ texts \in [Blobs -> Texts]
  /\ stage \in {"prepare", "git", "list", "blobs", "conflicts", "metadata",
                "commits", "report", "ended"}
  /\ next \in 1..(Len(tree) + 1)
  /\ cache \subseteq Blobs
  /\ total \in 0..MaxTotalBytes
  /\ findings \in Nat
  /\ search \in {"inherited", "trusted"}
  /\ result \in {"none", "pass", "fail"}
  /\ broken \in BOOLEAN
  /\ denied \in BOOLEAN

\* The rules of the repository, said of one entry without the scan's order.
Breaks(entry) ==
  LET rule == texts[entry.blob] IN
  \/ entry.mode = "submodule"
  \/ rule = "secret"
  \/ entry.mode = "link" /\ entry.place \in {"workflow", "checker"}
  \/ /\ entry.mode = "file"
     /\ \/ rule = "conflict"
        \/ rule \in WorkflowRules /\ entry.place \in {"workflow", "action"}
        \/ rule = "hash" /\ entry.place \in {"code", "checker"}
        \/ rule = "root" /\ entry.place \in {"container", "workflow", "action"}

\* The bytes of the first entries; a blob counts as often as it is listed.
BytesUpTo ==
  LET bytes[n \in 0..Len(tree)] ==
        IF n = 0 THEN 0 ELSE bytes[n - 1] + BlobSize[tree[n].blob]
  IN bytes

TooLarge ==
  \/ \E i \in DOMAIN tree : texts[tree[i].blob] = "huge"
  \/ BytesUpTo[Len(tree)] > MaxTotalBytes

\* The scan passes exactly a tree that breaks no rule, with clean metadata and
\* when every step ran: no limit, cached blob, shared blob or early return in
\* between lets an entry through or fails a clean one.
PassIffCompliant ==
  result # "none" =>
    (result = "pass" <=>
       /\ \A i \in DOMAIN tree : ~Breaks(tree[i])
       /\ ~TooLarge
       /\ ~broken
       /\ ~denied)

\* PATH is that of the caller again when the scan is over, also when the
\* conflict checker raised.
PathRestored == search = "trusted" => stage = "conflicts"

\* The scan decides as the rules of the repository do and leaves the process
\* as it found it.
ScanIsSound == ComplianceTypeOK /\ PassIffCompliant /\ PathRestored
=============================================================================
