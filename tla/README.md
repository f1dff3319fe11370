# Verification of the agent-policy gates and review pipeline

This directory holds TLA+ models of the parts of the repository where order,
concurrency and failure decide what happens, the TLC configurations that check
them on small instances, and TLAPS proofs that hold for every instance.
`PROJECT.json` maps each definition to the lines it models and lists runs,
mutants, findings, hazards and theorems.

## Inventory

Hard behaviours are marked *(h)*.

| Component | State | Operations | Correct when |
|---|---|---|---|
| Security review pipeline: `security-review-pr.yml`, `security-review.yml`, `immutable-conflict-check.yml` | current head, label, compliance results, caller runs, verdict artifacts, check runs | PR events start a scan; its completion starts a caller run; resolve, review job, publication | a fork reaches the model only with its own compliance pass and label; one review per head; green means approved; no group blocks for good *(h: stale reads, cancellation, partial failure)* |
| Case builder: `ci/build_pr_case.py` | output buffer, reader thread, git process | capture a diff under size and time limits | no truncated diff is reviewed as complete *(h: timeout against end)* |
| Model adapter: `ci/call_model.py`, `ci/run_model_command.py` | selected profile, attempts, requests sent | select by size, send, retry once, turn to the large profile | requests bounded and within budget; a capacity report is true *(h: retry and fallback combine)* |
| Response validator: `scripts/check_pr_review_response.py`, and the step that parses the verdict | none | accept or reject one report, take the verdict out of it | the two never act on different verdicts |
| Quality review caller: `quality-review-pr.yml` | newest runs of two workflows, label, head | resolve, decide, review | runs only after both gates of the same head, once, and does run *(h: stale queries, cancellation)* |
| Branch gate: `hooks/enforce_branch_name.py`, `scripts/check_branch_name.py` | Git branch, rebase state | session start, tool gate, stop hook | no work on a refused branch, a way out of it, and the turn can end *(h: branch changes between read and run)* |
| Identity gate: `hooks/enforce_git_identity.py`, `scripts/check_git_identity.py` | Git configuration and environment, unpushed commits | check the identity of each commit and push | only listed addresses are committed and published *(h: sources change after the check)* |
| Consent gate and infrastructure gate: `require_consent.py`, `block_infrastructure_access.py` | files, links, contents | decide one write, read or search | tests and gates change only by consent; manifests stay hidden *(h: files change after the look)* |
| Destructive command gates: `hooks/_gate_core.py`, parsers, `block_destructive_*.py` | none between calls | decide one command line | the strictest statement wins; unread commands fail closed *(h: nesting and alias recursion)* |
| Conflict marker scanner: `check_conflict_markers.py` | block state of a text; index, worktree and attributes of a check | scan a text; check staged, all or a tree | a clean report means no marker *(h: lists and files are read at different moments)* |
| Compliance tree scanner: `check_compliance_tree.py` | blob cache, byte and finding counts, PATH | scan a tree and its commits | passes exactly the compliant trees *(h: limits in mid-scan)* |
| Trusted executables and Git state: `trusted_gh.py`, `trusted_git.py`, `read_git_state.py` | PATH, origin, HEAD | find the program, complete and run a command; print the state | what runs is what was judged *(h: each is read more than once)* |
| Shard runner: `scripts/check_hook_coverage.py` | shard queues, futures, process registry, child processes | submit, wait, collect, terminate, join | exclusive classes alone; a pass means all passed; the run ends *(h: three kinds of thread and process)* |
| Policy sync: `scripts/sync.py` | `AGENTS.md`, supporting documents, copies, temporary files, shared manifest | check, copy atomically, check and write the manifest | a copy is never partial; a repeated run repairs a crash *(h: concurrent edits, crash)* |
| Policy reinjection, line checkers (`check_*.py`, `prose_policy.py`) | per file or text only | accept, reject or split a text | |
| Hook tracer, evaluation runner, other CI workflows | | diagnostics, job lists | |

Interactions: PR events drive the compliance workflow and ci; their completion
drives the two caller workflows; the security caller calls the review workflow,
which runs the case builder, the adapter and the validator; the runs meet in
GitHub's concurrency groups, artifacts and check runs. The hooks of one tool
call are separate processes that share only the file system and Git; the
client merges their answers. The command gates judge the command lines that
`trusted_gh.py` then completes. The compliance scan calls the conflict marker
scanner. The shard runner starts the test suites of all of them.

## Modules

| Module | Models | Kind |
|---|---|---|
| `ReviewPipeline` | one pull request with its scan and caller runs | state machine |
| `DiffCapture` | the "Build case" step: main thread, reader thread and git around a pipe | state machine |
| `ModelAdapter` | the "Run model call" step: both adapter calls and the step's shell logic | state machine |
| `ResponseContract` | the validator and the verdict parser over a report | operators |
| `ReviewJob` | the review job from the diff to the verdict: composes the three before it and refines a run of `ReviewPipeline` | composition, refinement |
| `QualityReview` | the quality caller with its pull request and workflow runs | state machine |
| `BranchGate`, `GitIdentity`, `WriteGates` | the decisions of the branch, identity, consent and infrastructure hooks | operators |
| `AgentSession` | a session: tool calls, hooks running at the same time, the user, git | state machine over them |
| `CommandVerdicts`, `GitAliases` | the verdict on one statement; the three readers of Git aliases, and Git | operators |
| `CommandGate` | one run of a command gate | state machine over them |
| `MarkerScan` | the pass over the lines of one text | state machine |
| `ConflictScan` | the driver of the conflict checker in its three modes | state machine |
| `ComplianceScan` | the scan of a tree | state machine |
| `TrustedGh`, `GitStateReader` | one GitHub command; one reading of the Git state | state machines |
| `ShardContract` | what the test runner promises | abstract specification |
| `ShardRunner` | the runner: scheduling thread, workers, processes; implements the contract | state machine, refinement |
| `PolicySync` | `sync.py` comparing and replacing the copies, with the edits and crashes around it | state machine |
| `MCReviewPipeline`, `MCReviewJob`, `MCAgentSession`, `MCCommandGates`, `MCRepositoryChecks`, `MCShardRunner`, `MCPolicySync` | instances for TLC | |
| `ReviewPipelineProofs`, `PolicySyncProofs`, `ShardRunnerProofs`, `QualityReviewProofs`, `AgentSessionProofs` | theorems about the module they are named after | proofs |
| `ReviewJobProofs` | theorems about `ReviewJob` and the `DiffCapture` it starts with | proofs |
| `CommandGateProofs` | theorems about `CommandGate` with `CommandVerdicts` and `GitAliases` | proofs |
| `RepositoryChecksProofs` | theorems about `MarkerScan`, `ConflictScan`, `TrustedGh`, `GitStateReader`, `ComplianceScan` | proofs |

`MCRepositoryChecks` and `MCReviewJob` each check several specifications that
share no state in one run: a behaviour is a behaviour of one of them, and the
others keep one idle state.

### ReviewPipeline and the code

A pull request moves through revisions `1..MaxHead`; a *caller run* is one run
of `security-review-pr.yml`, started by every completed scan. Its record holds
what the resolve job outputs (`head`, `compliant`, `approved`, `reviewed`), where
it stands (`pc`), the job status and the response and verdict of the review job.
One action is one step of a job: `ListPullRequests`, `RefreshPullRequest`,
`ReadCheckRuns` and `ReadArtifacts` are the API reads of the resolve job, each
of which can see a different moment; `JoinReviewGroup` and `SkipReview` the job
conditions; the actions from `StartReview` to `PublishCheck` the steps of
`security-review.yml` for both its jobs. `Abort` is what GitHub does after a
failed or cancelled step: only the `always()` steps still run. `StepFails`,
`Interrupt` and `LoseRunner` may come between any two steps. The two
`concurrency` groups are the updates of `StartCaller` (by head) and
`JoinReviewGroup` (by pull request), with `cancel-in-progress` and the
replacement of a pending member.

`labelled` and `passed` are history: the heads that carried the label while
current, and the heads whose scan succeeded. No action reads them; the gate
properties do. A check run keeps whether its verdict is `readable`: the caller's
pattern wants exactly one blank before the token, the validator and the gate
accept any or none, so with the fault "spacing" a check may be unreadable. A head
whose checks all are is reviewed again by its next caller run.

### ReviewJob, its programs and the code

`DiffCapture`: `main` is the program counter of `build_case` with
`_read_bounded_stdout`, up to the exit code the step turns into its output;
`reader` that of the nested `reader` function; `git` goes from running over
closed (its end of the pipe) and exited (not collected) to reaped. The three
cleanup paths of the code are the same sequence (`KillGit`, `CloseOutput`,
`ReapGit`, `RaiseProblem`) with another `problem`. `CloseOutput` waits for a
read in progress because a buffered reader holds its lock while it reads.

`ModelAdapter`: `Launch` is `run_model_command.py`; `CheckInput`,
`SelectProfile`, `AnswerOrError`, `TransientStatus` and `ContextOverflow` follow
`call_model`, `select_profile`, `_send` and `_send_large`; `EndFirstCall`,
`Relaunch` and `EndSecondCall` are the shell of the step. A request is reduced to
the class of its answer. `sent` and `overflow` record what was sent and
rejected; they are reset per call.

`ResponseContract`: a report is a sequence of lines, a line what either reader
can tell apart: narration, a fence, a blank, a verdict with what surrounds its
token, a JSON object with the verdict it states, other text. Carriage returns
do not occur: `run_model_command.py` reads the adapter's output as text.

`ReviewJob` gives each step that `ReviewPipeline` takes as a choice to its
program: the case text decides the input size, the adapter's answer fills
`response.txt` (emptied by the redirection of the second call), the validator and
the parser read that same report. `PipelineRun` maps the job to a run of
`ReviewPipeline`, and `StepsOfPipeline` states that every step of the job is a
step of that run or leaves it where it is. So what the pipeline module assumes
of its steps is what the programs do.

### QualityReview and the code

`flows` are the runs of ci and of Immutable Compliance, by run id; completing one
starts a caller run for its head, which joins the group of that head
(`StartCallerFor`: a pending member is replaced, a running one cancelled).
`FindPullRequest`, `ReadAgain`, `ReadCi` and `ReadCompliance` are the four
requests of the resolve job. Only forks are read again. A finished caller run's
outputs are forgotten; only the latest compliance run can be run again.

### AgentSession, its gates and the code

A tool call is decided by all hooks wired to it, each of which reads the
repository once or several times in its own process: `hooks[h]` is its progress,
`seen` what was read. `Merge` is the client's: a denial wins, then an ask. After
a prompt the call runs, one segment at a time (`step`), on the repository as it
is by then. The user moves in between (`Moves`), and other git processes with
him. `BranchGate`, `GitIdentity` and `WriteGates` are the decisions as functions
of what one hook has read; a segment of a command is a record of what the gate
can see of it. The command gates vote when the call is submitted, because they
read nothing that changes here; the identity gate runs its checkers in the
order of the segments (`IdentityCheck`), and `seen.checked` has those it has
run. The rebase state and the name are read again in one step. `unpushed` holds
the commits no remote has, each with the branch it is on, and of these only the
ones whose identity the checker refuses: the others are the same to every gate.

What the gates do not look at is in the model, and the properties name it:

* The identity gate lists the commits of HEAD, and none without a remote
  (`Listed`). A push of another branch, or a push after a remote was added in the
  same command, publishes commits it never listed; so does any push of commits
  made later (`PublishedWereListed`).
* The branch gate reads the branch names of nine subcommands. `git pull` and `git
  stash branch` are not among them and can create a claude/ branch
  (`ClaudeBranchNeverNamed` speaks of the nine).
* The consent gate protects hooks/, .claude/ and .git/. The checkers that the
  gates start are under scripts/ and change without a prompt.
* A manifest that is above 64 KiB, unreadable or not UTF-8 counts as harmless, and
  so does one in a directory the walk skips or cannot list
  (`ManifestsStayHidden`).
* Codex has no prompt and an unattended session nobody to answer: there the
  recovery that a denial advises is itself denied. `WayOutExists` promises a way
  out only where somebody can be asked (`CanBeAsked`), and states the denial
  elsewhere. In a rebase the text of a denial ends in a branch name, which no
  recovery of a rebase takes; `Advised` is the command without it.
* A stopped `git am` counts as a rebase for the gate, and an unreadable HEAD or a
  missing checker has no recovery.

### CommandGate and the code

One run reads the payload, opens the command (`frames` is the stack of nested
commands up to `MAX_COMMAND_DEPTH`), reads and judges its statements in turn,
follows Git aliases by recursion (`calls`, up to Python's own limit) and decides.
`CommandVerdicts` has the verdict functions of `_gate_core.py` over classes of
words; the order of words, an incomplete `env -S`, the fallback for implausible
programs and the discovery checks of `_platform_policy.py` are left out. The gates
do not judge every delete alike (`ReadByOneGate`): CMD strips `.exe` and reads a
delete past the checks of other programs, and `cert:`, `remove-itemproperty`, and
robocopy or xcopy into a protected directory are each judged by some gates only.
`DeletesAgree` says that such a check only makes a gate stricter than the flags.

`GitAliases` has the three alias readers and `GitRuns`, what Git does. A
configuration has an alias table per source, and no two of the four read the same
ones: Git and the branch gate's reader take all (`GitTable`, `BranchTable`), the
identity gate's reader the repository's file and what the command sets
(`LabelTable`), a command gate the repository's file only (`CommandTable`). So the
identity gate gives no label to an alias of the user's own files (a global
`p = push`), which `NoHiddenWrite` excepts, and a command gate judges `git -c
alias.a=... a` by the repository's `a`, which `CommandReadsAsGit` excepts.

A line that cannot be parsed ends the reading of its command, and the search of the
text for gated programs replaces the verdict on the lines before it: an `ssh host`
that would be asked about, followed by a string over several lines, is let through.
`lost` records those statements, and `VerdictsDecide` counts for them what is left
(`Remains`).

### The repository checks and the code

`MarkerScan` is `check_content` with `_BlockScan`; a line is its marker and
width, chosen as it is read. `ConflictScan` is `_check_staged`, `_check_all` and
`_check_tree`: lists, attributes and contents are separate steps, with edits and
sparse checkout between them. `ComplianceScan` is one scan with its limits, the
cache, the checkers its paths call for, the conflict scan under another PATH,
and metadata. `TrustedGh` starts with the gate's verdict and ends with the
command. The search of PATH (`Find`) and the start of what it found (`Start`) are
two steps, twice: somebody who replaces the program in between can bring one of
the working tree in, which `ProgramsAreOutside` says. The wrapper adds `--repo`
and `--head` as the code does: a `-H` is not seen as a head, so the added one
overrides it, and repo fork and release create ("unbound") get no repository.
`Reached` and `HeadUsed` are what gh then goes by. `GitStateReader` asks its four
questions one by one.

### ShardRunner and the code

`main` is the program counter of `run_test_shards` with
`submit_available_shards`, `collect_completed_results` and
`terminate_all_processes`; `thread[s]` that of `run_test_shard` for class `s`,
including its own `terminate_process_tree`. A process is alive, a zombie, or
reaped; a class in `Forking` may leave a descendant, in the group or out of it,
that holds the output pipe (`held`). Signalling a group that is gone raises;
`communicate` returns at the end of the output, so the second one, which has no
timeout, waits for the descendant. `Popen` and `register_process` are
two actions, as are the poll, the SIGTERM, the wait and the SIGKILL.
`ShardRunner` instantiates `ShardContract` with the live processes as `running`.

### PolicySync and the code

A document of the policy is a version number or `Bad` (missing, irregular, too
large, not ASCII). `Start` and the inspection actions are `load_policy` and the
loop over `COPIES`; `CompareCopy` and `Decide` choose between `--check` and
replacing; `BeginCopy` to `ReplaceCopy` are `atomic_copy`, with the reading of
each document an action of its own, because others may edit between two reads.
The code compares lstat states; the model keeps whether an edit came since the
state was taken (`moved`, `disturbed`). `AssembleFails` and `CopyFails` are the
`OSError` paths, which remove the temporary file; `Killed` leaves it. `EditPart`
and `EditCopy` are other processes. `inspected`, `edited`, `failed` and
`crashed` are history that the properties read.

## Runs

| Run | Question | Bounds |
|---|---|---|
| `fork_pipeline` | Does a fork head reach the model only with its own compliance pass and label (`ForkGate`), and do superseded and waiting runs end (`RunsEnd`)? | 2 heads, 3 runs, no failures |
| `one_head` | Is a head with a verdict record and a verdict the caller can read not reviewed again (`NoSecondReview`), are settled heads final (`SettledHead`)? | 1 head, 3 runs, failures of steps, publication, resolve, runner; expiry; unreadable verdicts |
| `head_gets_check` | Does a head with a caller run get a check (`HeadGetsCheck`), and a green one only for a recorded approval (`GreenMeansApproved`)? | 1 head, 3 runs, failures of steps and of the upload |
| `review_job` | Is a case the complete diff (`CaptureIsSound`), is every request justified (`CallsAreJustified`), is an approval earned (`ApprovalIsEarned`), does what is too large block (`OversizedBlocks`), does the gate take the validated verdict (`GateTakesValidated`), are the steps those of the pipeline (`StepsOfPipeline`), does the job end (`JobEnds`)? And of the quality caller: `ReviewsAreGated`, `LaterPassReviews`. | limit 3, diffs of 0 to 6 bytes, a pipe of 2; 19 registries, 15 sizes; all reports up to 4 lines of 12 kinds; 2 revisions, 4 workflow runs, 1 re-run, 3 caller runs |
| `agent_session` | Are the acts that run the ones that were checked (`ActsWereChecked`) and approved (`AskedActsWereApproved`), do tests and manifests stay guarded (`FilesStayGuarded`), is there a way out (`WayOutExists`) and does a turn end (`TurnEnds`)? | 6 classes of branch, 4 clients, commands of 2 segments, 2 moves of the user |
| `command_gates` | Does the strongest statement decide and is no gate kinder on a delete than another's flags (`VerdictsDecide`), does what cannot be read or answered fail closed (`FailsClosed`), do the alias readers agree with Git (`AliasesReadAsGit`), does each run end (`GateAnswers`)? | 2 statements of a catalogue of 32, nesting 1, 3 aliases in some 100 configurations, 3 expansions, 3 recursive calls |
| `repository_checks` | Are markers reported exactly (`MarkersAreReported`), is a status earned (`StatusIsEarned`), does the tree scan decide by the rules (`ScanIsSound`), is what runs what was judged (`CommandIsAsJudged`), are the printed fields in order (`PrintedInOrder`)? | texts of 4 lines, 3 widths; 2 paths, 1 edit; trees of 2 entries; 2 owners, 2 branches, 2 PATH entries, 1 change; 2 moves |
| `shards` | Isolation, honest result, implementation of `ShardContract`, and the end of the run with hanging processes (`RunEnds`), unless a pipe is held for good | 3 ordinary and 2 exclusive classes, 3 workers; one class of each kind leaves descendants |
| `policy_sync` | Are copies never partial, is the exit code true (`ExitIsTrue`), is no temporary file left, does an unsafe copy stop the run, is the installed policy the inspected one? | 2 copies, 3 documents, 2 versions, 2 edits, 2 runs, 1 kill |

Why the bounds are enough. Two heads and three runs are the smallest instance in
which an old run, a current run and a newer run overlap: the concurrency groups
hold at most one active and one pending member, so a third run exercises
replacement and cancellation at once; the same holds for the three caller runs
of the quality review. One-head runs need no second head because their
properties compare runs of one head. Five classes on three workers leave
classes waiting in both queues while others run, time out and fail. The
registries contain every relation between input size and the two budgets
(below, between, above, absent) and every shape the loader rejects. Sizes around
the limit include a diff of exactly the limit, and a pipe smaller than the limit
makes git block. Four lines hold a complete report (text, verdict, object) and
one line that disturbs it, at every place. Two segments let the first change
what the gate read for the second; two moves of the user let a branch change and
change back. The configurations define an alias of every kind in every source, hide
one source's definition by another's, spread a chain over two sources, and hold
chains of three aliases, one open and one a cycle: at limits of three both exhaust
the recursion, so that the crash is not the cycle's alone. Four lines of text
hold a complete block and a stray marker. Two copies let one be replaced and the
next fail; two edits let a document change and change back between two reads;
the second run meets what a killed one left.

Several properties are conjunctions of named parts, one per sentence a reader
may want to check; the type invariants of several modules are such
parts. Mutants: every property, and nearly every part, is refuted when
the definition that upholds it is changed as a plausible bug would; the changed
definitions stand beside the originals, marked "Mutant of".

`CHECK_DEADLOCK FALSE` is set where the system stops: runs of workflows are
bounded, and jobs, checks, gates, the shard runner and the sync runs end. An
agent session never stops, and its run checks deadlock.

### Disagreements the runs show

Each `v_` run checks one sentence of the repository's tests or comments and
finds it violated by the code. `PROJECT.json` quotes the sentences.

| Run | What happens |
|---|---|
| `v_flaky_record` | the comment step fails after APPROVE, and the record is still uploaded |
| `v_gate_agrees` | white space that only Python strips stands next to the verdict's token: the validator accepts the report, the gate finds no token it knows and fails the job |
| `v_quality_head` | a fork revision pushed between the caller's two reads is reviewed on the gates of the one before |

Others were met while modelling and have no run: `docs/pr-security-review.md:19`
says the caller requires a compliance run, which the same-repository job does
not test; exit code 3 of the second adapter call fails the step although
`security-review.yml:317` promises a report; an error of `killpg` in
`check_hook_coverage.py` hides the problem already found; the stop hook advises
to switch branches during a rebase (`enforce_branch_name.py:875`), which the tool
gate then refuses; "One model call per head revision" (`security-review-pr.yml:105`)
does not hold for a verdict line with other spacing; "The strongest nested verdict
wins" (`docs/gate-threat-model.md:143`) does not hold beside a line that cannot be
parsed; "any commit that push would publish" (`enforce_git_identity.py:17`) are the
commits of HEAD; an identity given only in part by the environment is cleared
by `check_git_identity.py` although git fills the rest differently.

## Fairness

`ReviewPipeline`: weak fairness of the scan and of each run's own steps. GitHub
schedules queued jobs, and `timeout-minutes` bounds every job. Pushes, labels,
failures, expiry and the environment decision are never forced: a maintainer may
ignore a request, and `RunsEnd` holds regardless. `QualityReview` likewise: weak
fairness of each caller run; nobody has to push, label or run anything again.

`ReviewJob`: weak fairness of the job's programs, whose requests, delays and joins
have time limits, and of the reader thread, whose read need not fail. Git gets no
fairness, so it may hang with the pipe open.

`AgentSession`: weak fairness of the hooks (the client's settings give each 30
seconds), of the merge, the answer to a prompt, the running of a call and the stop
hook; strong fairness of the agent's attempt to stop, which other calls may
precede again and again. The user never has to move.

`CommandGate`: weak fairness of the single process.

`ShardRunner`: weak fairness of the scheduling thread and of each worker, where
nothing blocks them. Test processes and their descendants get no fairness: they may
hang, ignore SIGTERM and hold a pipe. A worker whose second `communicate` waits for
such a pipe is blocked, not slow, and the join of the pool with it; `RunEnds`
therefore asks that every pipe is let go in the end.

## Proofs

`ReviewPipelineProofs` proves, for every `MaxHead`, `MaxRuns`, `Faults` and for
both kinds of pull request, under `PipelineAssumption` only:

* `TypeCorrect`: `Spec => []TypeOK`. `TypeOK` is not inductive: `PublishCheck`
  and `UploadRecord` need a head, and a verdict, in the run that reaches them.
  `TypeInv` adds `Ready` (what each phase can rely on) and the bound on `nruns`
  while a scan is in progress.
* `ForkGateHolds`: `Spec => []ForkGate`. `ForkInv` carries, per run, what
  the findings mean: `compliant` implies the head passed, `approved` that it was
  labelled while current, and a fork run past the job condition has both.
* `NoSecondReviewHolds`: `Spec => []NoSecondReview`. `ReviewInv` says that a
  head has one active run (the caller group), and that a run's decision still
  matches readable checks and records: they grow only by the active run of their
  head. A check the caller cannot read is none to it, in the code and here.
* `SettledHeadHolds`: `Spec => SettledHead`. A run that can still publish
  (`Entitled`) has a record of its own, or its head is not reviewed; the second
  stays true because `ReviewInv` leaves nobody else who could review that head.
* `GreenMeansApprovedHolds`: `Spec => []GreenMeansApproved`. `GreenInv` follows
  the success back: a run with success past its gate has recorded the APPROVE it
  holds, and records never disappear, they only expire.

Most actions only move one run forward. `Follows` describes such a move and
`Steady` a step in which every run makes one or is freshly created; each
invariant then has one step for `Steady` steps and one for each action that
writes findings, checks or records.

`PolicySyncProofs` proves, for every number of copies, documents, versions, edits
and runs, under `SyncAssumption`:

* `CopiesAlwaysWhole`, `NoTempStays` and `InstalledIsInspected`. The inductive
  invariant `SyncInv` adds to the properties that a temporary file past its
  assembly is whole (`TempIsWhole`), that a run owns exactly one while it copies
  (`TempsCounted`), and that AGENTS.md, what was read of it and what was written
  agree with the inspected version until it moves (`SourceKept`): only the last
  makes the recheck before the replacement worth something.
* `ExitIsTrueHolds` and `UnsafeStopsRunHolds`. `ExitInv` adds what a run knows as
  long as nobody edits (`RunKnows`): each copy it has been through is safe, and
  is the policy or is counted as stale; what it has read is what is there.

`ReviewJobProofs` proves of the capture, for every diff size, limit and pipe capacity,
under `CaptureAssumption`:

* `CasesAreComplete`, `OversizedHolds` and `NothingLeft`, and their conjunction
  `CaptureSound`: `Spec => []CaptureIsSound`. The inductive invariant
  `CaptureInv` counts bytes (`BytesKept`: written is read plus piped), ties git's
  success to its last byte (`GitHonest`), a finished reader to the limit or to
  the end of the stream (`ReaderHonest`), and each phase of the main thread to
  what it has established (`MainKnows`).

It builds on that and proves of the job, for every diff, registry, input size and
report, under `RegistriesAreChecked` (what `_load_profile` rejects is not in
the registry) and `AnswersAreReports` (the adapter never returns an empty text):

* `CallsAreJustifiedHolds`, `ApprovalIsEarnedHolds`, `OversizedBlocksHolds` and
  `GateTakesValidatedHolds`. The inductive invariant `JobInv` is `CaptureInv`, the
  adapter's own invariant once it is called, what `response.txt` holds at each
  point of both calls (`ReportHeld`) and where the report under validation stems
  from (`ReportStems`). Both readers look for the *last* line of a kind; that a
  report has one is not an induction over it but the existence of a least
  element in a set of natural numbers (`LeastExists`), which the library derives
  from well-foundedness.
* `StepsOfPipelineHolds`: `JobSpec => StepsOfPipeline`, the refinement. A job of
  its own is one run of an instance of `ReviewPipeline`; each of its steps either
  is the step of that name there or leaves `PipelineRun` as it is.

`ShardRunnerProofs` proves, for every set of classes, split into ordinary and
exclusive ones in any order, and every number of workers, under `ShardAssumption`,
`OrderAssumption` (each class is in one of the orders) and `NonemptyAssumption`:

* `RunnerTypeCorrect`, `ExclusiveAlone`, `PassIsHonest`, and
  `RunnerImplementsContract`: `Spec => ImplementsContract`, the refinement of
  `ShardContract`. The invariant `RunnerInv` says that a live process has a worker
  that serves it and an active future (`WorkersServe`), that the active futures
  are bounded and an exclusive one is alone (`PoolBounded`), that without a
  problem each class is listed, active or passed (`NoneForgotten`), and that no
  worker is busy after the join (`PoolDrains`). A spawn is then the contract's
  `Start`, the end of a live process its `Finish`, the join its `Report`; all
  other steps stutter; nothing in it depends on what a descendant holds. Each step of
  a worker follows from one lemma,
  `WorkerKeeps`, and each step of the termination from another, `ReapKeeps`.

`QualityReviewProofs` proves, for every number of revisions, workflow runs, re-runs
and caller runs, under `QualityAssumption`:

* `ReviewsGated`: `QualitySpec => []ReviewsAreGated`. The inductive invariant
  `QualityInv` adds that the newest run which `LatestRun` takes exists
  (`NewestExists`: appending a run or changing its state keeps a maximum, which
  no induction over the list is then needed for), that a run showing success
  was recorded (`FlowsRecorded`), that a label is recorded for the revision it is
  on (`LabelRecorded`), that each caller's findings speak of its own head or of
  its labelled target (`FindingsHold`), and that a head has one caller in
  progress (`OnePerHead`). Every caller step is one move (`MoveKeeps`).

`RepositoryChecksProofs` proves five independent results:

* `MarkersAreReportedHolds`: `MarkerSpec => []MarkersAreReported`, for texts of
  every length, every set of widths and every limit. `MarkerInv` says what the
  scan knows of the open block (`OpenBlock`), that every other opener has been
  answered once if it can be reported (`AnswersSoFar`), and what the silence so
  far excludes (`SilenceSoFar`).
* `StatusIsEarnedHolds`: `ConflictSpec => []StatusIsEarned`, for every finite set
  of paths, every number of edits and every positive limit of violations
  (`MAX_VIOLATIONS` is 100; with a limit of zero the statement would be false,
  the driver would stop before the first path). `ConflictInv` says that the lists
  hold for the paths nobody touched since (`ListsHold`) and that the count tells
  what was seen (`CountTells`).
* `CommandIsAsJudgedHolds`: `GhSpec => []CommandIsAsJudged`, for every set of
  owners, branches and programs and every number of changes. `GhInv` follows the
  arguments through the wrapper (`ContextIsAdded`, `TargetIsAgreed`,
  `MetadataIsRead`) and the program from each search to its start: where they disagree
  with the repository or with the search, the log of changes says who made the
  difference and when.
* `PrintedInOrderHolds`: `ReaderSpec => []PrintedInOrder`. `ReaderInv` carries the
  moments at which the fields read so far were true; the moment of the next one
  is the present.
* `ScanIsSoundHolds`: `ComplianceSpec => []ScanIsSound`, for every tree, list of
  blob sizes and limit, under `ComplianceAssumption`. `ScanIsSound` speaks of the
  end of a scan and of rules the scan never states as a whole. `ComplianceInv` says
  what it knows on the way: up to the next entry all blobs fit and their bytes are
  counted, and there are findings exactly when an entry before it has one
  (`ScanTells`); once the conflict checker has run or the list was cut, there are
  findings exactly when an entry of the whole tree breaks a rule or the metadata is
  refused, and without any the scan has reached the end (`FindingsTell`).
  `RulesAreChecked` is the case analysis behind it: what the two checkers find in
  an entry together is what the rules forbid.

`AgentSessionProofs` proves, for every set of sessions, calls and moves of the user
which `SessionAssumption` describes (they are records of the kinds above it; a
segment whose operation the gate sees is one of git; a rebase under way at the
beginning has a branch to return to):

* `SessionInvariant`: `Spec => []SessionInv`. No property here is inductive by
  itself: the act that runs is many steps away from the read that let it pass.
  `SessionInv` carries what each hook knows once it has voted: the branch gate
  that the repository is what it read until the user moves (`BranchKnows`), the
  identity gate that each check it made has passed and what it saw
  (`IdentityKnows`), the consent gate that a path it let pass is no test's or was
  absent (`ConsentKnows`), and so on; `PhaseFits` ties the votes to the phase of
  the call and `ActFits` the last act to the call and to what was read.
* `ActsWereCheckedHolds`, `AskedActsWereApprovedHolds`, `FilesStayGuardedHolds`
  and `WayOutExistsHolds` follow from it without further induction, from what the
  gates' decisions say of a segment: `CompliantSegment` on a branch in order,
  `RecoverySegment` off it. `AdvisedIsValid` and `WayOut` say what the hooks vote on
  what a denial advises, in each kind of session, and that git carries a recovery out.

`CommandGateProofs` proves, for every finite set of alias names, every configuration,
every set of statements and every limit of nesting, of recursion and of
expansions, under `AliasNamesAssumption`, `AliasDepthAssumption`,
`ConfigurationsAssumption`, `NamedAliases`
(the empty name and an unreadable one are no aliases), `StatementsAssumption`
and `DepthAssumption`:

* `AliasesReadAsGitHolds`: `GateSpec => []AliasesReadAsGit`. The invariant only
  says that the configuration is one; the argument is about the recursive readers.
  `WriteLabels` and `BranchSubcommands` follow Git's own expansion call by call, so
  what they settle on before their limit is what Git ends at with the same table;
  and where Git's own table overrides the reader's (`Override`), a chain that ends
  in a command of the reader's table ends there in Git's.
* `FailsClosedHolds`: `GateSpec => []FailsClosed`. `UnreadFailsClosed` relates the
  answer to a parse failure many steps before, perhaps in a nested command that
  has closed since. `GateInv` says what is in hand in each place (`GateShape`) and
  that until the answer some open command holds an objection if one was due
  (`GateHears`): merging and closing only strengthen a verdict.
* `VerdictsDecideHolds`: `GateSpec => []VerdictsDecide`. Between the first
  statement and the decision the stack is in the middle of several commands, so
  `DecisionInv` compares two strongest verdicts: of what the open commands have
  said (`Said`) and of what the statements read so far owe (`Owes`), where the
  last one owes only the part judged by now. That equality ends with the first line
  that cannot be parsed; from then on `HeardInv` says only that no statement's voice
  is stronger than what its command or one around it has said, where a statement
  whose command was cut off keeps the voice that `Remains`. `DecisionInv` adds that
  what earlier statements deserve no longer depends on the configuration that Git may
  still be asked for (`Settled`), and that an alias in hand ends where the alias of
  the statement ends (`OfLast`). The last takes a lemma about Git: following one
  expansion does not change where it ends, although the reader has one alias more
  behind it. That no gate is kinder on a delete than the flags of any shell is a case
  analysis of the three verdicts (`DeletesAgree`), without an invariant.

Recursion over data is proved without induction schemas. The recursive definitions of
the modules with theorems are functions; that such a function exists, and that a
property is inherited along its calls, follows from a rank that falls at every call
and from the least element of a nonempty set of natural numbers (`LeastExists`),
which the library derives from well-foundedness (`RankInduction`,
`RecursionExists`, `SumsExist`).

Only model-checked: what rests on fairness or ENABLED, which is outside the prover's
reach, that is `RunsEnd`, `HeadGetsCheck`, `RunEnds`, `TurnEnds`, `JobEnds`,
`LaterPassReviews` and `GateAnswers`. Every other property of a passing run is also
a theorem.

## Plan

Done: every component with concurrency, ordering or failure of its own, in the
modules above. Next:

1. The shared-file manifest of the policy sync, as a second program over the same
   files.
2. Failing requests of the quality caller.
3. The history mode of `check_git_identity.py`, beside the hook.

## Not modelled

* Pattern tables and text: the tokenizers of the three shells, the lists of
  patterns of the gates, the line checkers and `prose_policy.py`, the tables of
  `_platform_policy.py`, the redaction of output. They are data; a model would
  repeat them. The modules take a statement, a segment or a line as its class.
* Policy reinjection, the hook tracer, the evaluation runner and the job lists of
  the other workflows: they decide nothing, or are one pure function of a text.
  `QualityReview` has the outcome of ci, `ComplianceScan` the verdicts of the
  checkers.
* The context hooks of the branch and identity gates, which only print.
* The provider fork job and the layout of comments and reports, which add no state
  to the review pipeline.
* `--strict` and the history candidates of the identity checker, test discovery and
  the coverage report of `check_hook_coverage.py`, the manifest of `sync.py`, the
  session's environment of `trusted_git.py`: listed as "partly" in
  `PROJECT.json`.
* Two hazards have no property, and their entries say why.
