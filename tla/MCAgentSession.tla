--------------------------- MODULE MCAgentSession ---------------------------
(***************************************************************************)
(* Three kinds of sessions: work on branches, on identities and on files.  *)
(* Each submits the calls its gates tell apart.                            *)
(***************************************************************************)
EXTENDS AgentSession

Session(client, interactive, focus) ==
  [client |-> client, interactive |-> interactive, checker |-> TRUE,
   identity |-> TRUE, focus |-> focus]

Whole(head) == [head |-> head, stopped |-> "nothing", onto |-> "", remote |-> TRUE]

Unset == [email |-> "", name |-> ""]
Sources(email) ==
  [env |-> [role \in Roles |-> Unset], role |-> [role \in Roles |-> ""],
   config |-> [email |-> email, name |-> "set"], EMAIL |-> ""]

FromHarness(author, committer) ==
  [Sources("") EXCEPT !.env = [author |-> [email |-> author, name |-> "set"],
                               committer |-> [email |-> committer, name |-> "set"]]]

PlainPath(name) == [name |-> name, git |-> "file", part |-> "src", test |-> FALSE,
                    links |-> "one", outside |-> FALSE, secret |-> FALSE,
                    manifest |-> FALSE, walked |-> TRUE]

TestPath == [PlainPath("test") EXCEPT !.test = TRUE]
LinkPath == [PlainPath("test") EXCEPT !.links = "test"]
PolicyPath == [PlainPath("hook") EXCEPT !.part = "hooks"]
CheckerPath == [PlainPath("hook") EXCEPT !.part = "scripts"]
YamlPath == [PlainPath("yaml") EXCEPT !.manifest = TRUE]
SkippedPath == [YamlPath EXCEPT !.walked = FALSE]
Paths == {TestPath, LinkPath, PolicyPath, CheckerPath, YamlPath, PlainPath("other"),
          [PlainPath("other") EXCEPT !.git = "metadata", !.part = ".git"],
          [PlainPath("other") EXCEPT !.outside = TRUE, !.links = "many"],
          [PlainPath("other") EXCEPT !.secret = TRUE]}

Clients == {Session("claude", TRUE, "branch"), Session("claude", FALSE, "branch"),
            Session("gemini", TRUE, "branch"), Session("codex", TRUE, "branch"),
            [Session("claude", TRUE, "branch") EXCEPT !.checker = FALSE]}

BranchStarts ==
  [session : Clients, repo : {Whole(head) : head \in Heads},
   sources : {Sources("noreply")}, files : {[name \in {} |-> "absent"]}]

IdentityStarts ==
  [session : {Session("claude", TRUE, "identity"),
              [Session("claude", TRUE, "identity") EXCEPT !.identity = FALSE]},
   repo : {[Whole("compliant") EXCEPT !.remote = remote] : remote \in BOOLEAN},
   sources : {Sources(email) : email \in {"", "noreply", "other"}}
             \union {FromHarness("noreply", "github"), FromHarness("other", "noreply")}
             \union {[Sources("") EXCEPT !.EMAIL = "noreply"]},
   files : {[name \in {} |-> "absent"]}]

FileStarts ==
  [session : {Session("claude", interactive, "files") : interactive \in BOOLEAN},
   repo : {Whole("compliant")}, sources : {Sources("noreply")},
   files : {[test |-> t, hook |-> "text", yaml |-> y, other |-> "text"] :
              t \in {"absent", "text"}, y \in {"absent", "text", "manifest", "opaque"}}]

MCStarts == BranchStarts \union IdentityStarts \union FileStarts

One(op, to) == Shell(<<Git(op, to)>>)
Tool(tool) == [tool |-> tool]

BranchCalls ==
  {One(op, to) : op \in {"create", "rename"}, to \in {"compliant", "named", "claude"}}
  \union {One(op, "") : op \in {"commit", "amend", "rebase", "reset"} \union RebaseRecoveries}
  \union {Shell(<<Git("switch", "named"), Git("commit", "")>>),
          Shell(<<[Git("push", "") EXCEPT !.refs = "absent"]>>),
          Shell(<<[Git("delete", "named") EXCEPT !.refs = "pattern"]>>),
          Shell(<<[Git("commit", "") EXCEPT !.elsewhere = "main"]>>),
          Shell(<<[Git("commit", "") EXCEPT !.elsewhere = "compliant"]>>),
          Shell(<<[Plain EXCEPT !.program = "copier", !.writes = "above .git"]>>),
          Shell(<<[Plain EXCEPT !.writes = "claude ref"]>>),
          Shell(<<[Plain EXCEPT !.prefix = "wrapper"]>>),
          Shell(<<[Plain EXCEPT !.expands = TRUE]>>),
          Shell(<<[Plain EXCEPT !.named = "by directory"]>>),
          Shell(<<[Plain EXCEPT !.program = "workflow"]>>),
          Shell(<<[Plain EXCEPT !.program = "branch reader"]>>),
          Shell(<<Plain, Git("rename", "claude")>>),
          Shell(<<Git("stash", "claude"), Git("commit", "")>>),
          One("pull", "claude"),
          [One("rebase", "") EXCEPT !.tool = "Cmd"],
          [Shell(<<Git("rename", "compliant")>>) EXCEPT !.syntax = "incomplete"],
          [Shell(<<Plain>>) EXCEPT !.tool = "PowerShell", !.syntax = "array to metadata"],
          Tool("question"), Tool("malformed")}

IdentityCalls ==
  {One("commit", ""), One("push", "compliant"), One("push", "named"),
   Shell(<<Git("remote", ""), Git("push", "HEAD")>>), One("configure", "other"),
   One("configure", "noreply"),
   Shell(<<Git("commit", ""), Git("push", "compliant")>>),
   Shell(<<Git("configure", "other"), Git("commit", "")>>),
   Shell(<<[Git("commit", "") EXCEPT !.email = "noreply"]>>),
   Shell(<<[Git("run", "") EXCEPT !.context = "error"]>>)}

FileCalls ==
  [tool : {"Edit"}, path : Paths, content : {"text"}]
  \union [tool : {"Edit"}, path : {YamlPath}, content : {"manifest"}]
  \union [tool : {"Read"}, path : Paths, content : {""}]
  \union [tool : {"Grep"}, paths : {{TestPath}, {TestPath, YamlPath}, {SkippedPath}},
          walk : {"complete", "limit"}]

MCCalls(focus) ==
  CASE focus = "branch" -> BranchCalls
    [] focus = "identity" -> IdentityCalls
    [] focus = "files" -> FileCalls

UserGit(op, to) == [does |-> "git", op |-> op, to |-> to]

MCMoves(focus) ==
  CASE focus = "branch" ->
         {UserGit("switch", to) : to \in {"named", "main", "HEAD"}}
         \union {UserGit("rebase", ""), UserGit("abort", ""), [does |-> "am"]}
    [] focus = "identity" ->
         {[does |-> "configure", to |-> to] : to \in {"", "other"}}
         \union {[does |-> "commit", on |-> on, commit |-> [role \in Roles |-> "other"]] :
                    on \in {"compliant", "named"}}
    [] focus = "files" ->
         {[does |-> "write", path |-> "test", content |-> "text"],
          [does |-> "write", path |-> "yaml", content |-> "manifest"]}
=============================================================================
