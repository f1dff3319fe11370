---------------------------- MODULE GitIdentity -----------------------------
(***************************************************************************)
(* scripts/check_git_identity.py: where the checker reads the identity of  *)
(* the next commit, what it allows, and, as an external definition, where  *)
(* git reads it.                                                           *)
(*                                                                         *)
(* An address is "" (unset), "noreply" (allowed), "github" (GitHub's own   *)
(* committer) or "other"; a name is "" or "set".  The sources are the two  *)
(* roles' environment variables, user.name and user.email, EMAIL, and the  *)
(* role settings author.email and committer.email, which only git reads.   *)
(***************************************************************************)

LOCAL INSTANCE TLC

Roles == {"author", "committer"}

First(value, otherwise) == IF value # "" THEN value ELSE otherwise

\* AUTHOR_EMAIL_SOURCES and COMMITTER_EMAIL_SOURCES, in their order.
ExplicitEmail(sources, role) ==
  First(sources.env[role].email, First(sources.config.email, sources.EMAIL))

ExplicitName(sources, role) == First(sources.env[role].name, sources.config.name)

\* The committer falls back on the author.
WorktreeIdentity(sources) ==
  LET author == ExplicitEmail(sources, "author")
      authorName == ExplicitName(sources, "author")
      committer == First(ExplicitEmail(sources, "committer"), author)
      committerName == First(ExplicitName(sources, "committer"), authorName)
  IN [author |-> author, committer |-> committer,
      unset |-> "" \in {author, committer, authorName, committerName}]

Allowed(email) == email = "noreply"

Refused(identity) ==
  \/ identity.unset
  \/ ~Allowed(identity.author)
  \/ identity.committer # "github" /\ ~Allowed(identity.committer)

\* log_identities: a commit records two addresses and no sign of a guess.
LogIdentity(commit) == commit @@ [unset |-> FALSE]

\* Git: the environment, the role's setting, user.email, EMAIL, and at last
\* an address made of the account and the host.
CommitIdentity(sources) ==
  [role \in Roles |->
     First(sources.env[role].email,
     First(sources.role[role],
     First(sources.config.email,
     First(sources.EMAIL, "guessed"))))]

\* An invocation's own assignments, as git_checker_environment passes them.
WithAssignment(sources, email) ==
  IF email = "" THEN sources
  ELSE [sources EXCEPT !.env["author"].email = email,
                       !.env["committer"].email = email]
=============================================================================
