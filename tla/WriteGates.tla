----------------------------- MODULE WriteGates -----------------------------
(***************************************************************************)
(* hooks/require_consent.py and hooks/block_infrastructure_access.py, as   *)
(* functions of the call and of what is on disk when they look.            *)
(*                                                                         *)
(* A path is a record of what the hooks can tell from its name and its     *)
(* links: git (its place under .git), part (the first directory on the way *)
(* from the project), test (its name or the name it resolves to is a       *)
(* test's), links (what a walk finds sharing its inode), outside (the      *)
(* project), secret (a name the infrastructure gate protects), manifest (a *)
(* suffix whose content decides), walked (the gate's walk meets it: its    *)
(* directory is listed and not skipped, and its name matches).             *)
(* files[name] is "absent", "text", "manifest", or "opaque": a manifest    *)
(* above 64 KiB, or one the hook cannot open or decode.                    *)
(***************************************************************************)
EXTENDS FiniteSets

ReadTools == {"Read"}
SearchTools == {"Glob", "Grep"}

-----------------------------------------------------------------------------
(* The consent gate. *)

\* PROTECTED_PARTS, of the project or of the policy's own root.
ProtectedPath(path) == path.part \in {"hooks", ".claude", ".git"}

\* The walk stops early, or a name cannot be read: the answer is unknown.
TestInode(path, files) ==
  IF files[path.name] = "absent" \/ path.links \in {"many", "unreadable"} THEN "unknown"
  ELSE IF path.links = "test" THEN "yes" ELSE "no"

\* Mutant of NamesATest: the inode is not compared.
NamesATestByName(path, files) == path.test
NamesATest(path, files) == path.test \/ TestInode(path, files) # "no"

\* find_gate_reason: only a path that does not exist passes unprompted.
GateReason(path, files) == path.outside \/ files[path.name] # "absent"

-----------------------------------------------------------------------------
(* The infrastructure gate. *)

\* What the gate reads as the manifest: new content hides what is on disk, and
\* what it cannot read counts as empty.
ManifestText(path, content, files) ==
  IF content # "" THEN content
  ELSE IF files[path.name] = "opaque" THEN "" ELSE files[path.name]

ProtectedInfrastructure(path, content, files) ==
  \/ path.secret
  \/ path.manifest /\ ManifestText(path, content, files) = "manifest"

FileAccessDenied(call, files) ==
  ProtectedInfrastructure(call.path, call.content, files)

\* Mutant of TreeContainsProtected: the walk's limit ends it quietly.
TreeContainsWithinLimit(paths, walk, files) ==
  /\ walk = "complete"
  /\ \E path \in paths : /\ path.walked /\ files[path.name] # "absent"
                         /\ ProtectedInfrastructure(path, "", files)

\* A walk that reaches its limit counts as one that found a file; a directory it
\* cannot list, or skips, counts as empty.
TreeContainsProtected(paths, walk, files) ==
  \/ walk = "limit"
  \/ \E path \in paths : /\ path.walked /\ files[path.name] # "absent"
                         /\ ProtectedInfrastructure(path, "", files)

SearchDenied(call, files) == TreeContainsProtected(call.paths, call.walk, files)

InfrastructureVote(call, files) ==
  IF \/ call.tool \in {"Edit"} \union ReadTools /\ FileAccessDenied(call, files)
     \/ call.tool \in SearchTools /\ SearchDenied(call, files)
  THEN "deny" ELSE "allow"
=============================================================================
