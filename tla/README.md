# TLA+ models of valkey-ci-agent

valkey-ci-agent is a set of GitHub Actions programs that maintain the Valkey
repositories: they backport merged pull requests, repair failing CI, file issues
for flaky tests, cut and publish releases, review release notes and rebuild
images with fixed CVEs. The programs keep no database: their state is GitHub's
(branches, pull requests, project boards, issues, comments, commit statuses)
and the short-lived work directory of one run. Every program reads that state,
works for minutes or hours, and writes on the strength of what it read, while
maintainers and the other programs write the same objects. That is where the
code is hard to test, and it is what these models are about.

## 1. The system

| Component | State it keeps | Operations | What makes it correct |
|---|---|---|---|
| Backport sweep (`backport/sweep*.py`) | sweep branch, sweep PR and its Applied table; a prepared work directory | discover, clone, rebase, cherry-pick and validate, publish | no published commit is lost; at most `--max-candidates` per run; nothing picked twice; good candidates land |
| Poller (`poller.py`) | none | sweep when no sweep PR is open | never adds to a PR under review |
| Candidate application (`candidate_apply.py`, `source_plan.py`, `conflict_resolver.py`) | the work tree and HEAD | plan, cherry-pick, resolve, commit, roll back | a rejected candidate leaves no trace |
| Validation and repair (`sweep_validation.py`) | the work tree and HEAD | validate, repair, regenerate, amend | only validated commits stay |
| Board reconcile (`mark_done.py`) | the board's Status column | load, verify, mark Done | Done only what the branch names, and in the end everything it names |
| Manual revert (`revert_commit.py`) | the sweep branch, the PR body | clone, revert, push, note | reverts one pick and nothing else |
| CI follow-up (`ci_followup.py`) | its comments and its runs, per head and job | watch CI, start a fix | a bounded number of attempts per head and per job |
| Eligibility (`eligibility*.py`) | none | classify a PR for each branch | a function of histories |
| CI fix bot (`ci_fix/`) | fix branches, draft PRs, comments, reactions, runs by name | dispatch, claim a comment, reproduce, fix, verify, review, push or suggest | hands on only what it tested; one report and one draft per issue; pushes only add; a command is answered |
| Test failure detector (`test_failure_detector/`, `common/issue_dedup.py`) | issues, with a marker, a count and a run | read a run, list, create or bump, comment | a clean exit has recorded every failure; a run is counted once |
| Fuzzer monitor (`fuzzer/`) | issues | the same | the same |
| Release notes cut (`release_notes/`) | a prep branch and a PR per stage | pin, discover, triage, generate, publish, re-cut | no change left out in silence or noted twice; nothing ready that should be held |
| Release notes review (`review*.py`) | status comments with leases, threads | poll, lease, dispatch, edit, push, reply, resolve | one edit per comment, none left, none resolved unanswered |
| Release automation (`release/`) | tracker issue, workflow runs, releases | sync, dispatch, publish | one dispatch per decision, publication only of what was approved |
| CVE scan (`cve_scan/`) | image tags, issues | scan, decide, rebuild, verify | an image is promoted only if it was verified |
| Registry, onboarding, AI runtime, common code | configuration, subprocesses | parsing, I/O, retries | out of the models except where a retry or a poll loop matters |

The components interact through GitHub only: the sweep and the CI fix bot push
to the same branch; the reconcile reads what the maintainers' merge of the sweep
PR left in the history, and the sweep reads both; the follow-up starts the fix
bot by a comment; the detector's issues start it by a dispatch; the release
tracker dispatches the notes cut and the publication. Workflow concurrency
groups serialise some of them: the sweep, the poller and the follow-up of one
branch share `backport-branch-mutation-<repo>-<branch>`; the reconcile has a group
of its own; the manual revert has none; the fix bot has one per issue and one per PR and door;
the cut has one per line and the review handler one per PR.

Hard behaviours: stale reads before a write, several writers of one branch,
pushes that need a lease, runs that are cancelled between two writes, calls
that are retried after they took effect, polls that overlap.

## 2. The core: the rolling backport PR

`BackportSweep.tla` models one release branch. GitHub's state is

- `target`: the release branch, as its version, the source PRs whose change it
  contains (`content`) and those its history names (`named`): the two differ,
  since a squash keeps only the PR body and a revert removes content but not names;
- `remote`: the tip of `agent/backport/sweep/<branch>`, or `NoTip`;
- `pr`: the latest sweep PR, whether it is open, and its Applied table;
- `board`: the Status of each source PR's card.

`job` is the run that holds the branch lock, `fixer` a CI fix run on the PR,
`reverter` a manual revert, `marker` a board reconcile. Each of their steps is one
read or one write of GitHub: `Discover` (project query), `CloneTarget`, `FindPR`,
`ReadRemoteHead`, `PrepareBranch` (fetch and rebase, or a new branch),
`ApplyCandidates` (the whole loop, local), `CheckTarget`, `CheckRemote`, `CheckPR`,
`Push` (with the lease), `UpsertPR`; `FixStart`, `FixRecheck`, `FixPush`;
`RevertClone`, `RevertPush`, `RevertReadBody`, `RevertWriteBody`; `MarkLoad`,
`MarkVerify`, `MarkDone`. Maintainers move cards, commit to the release branch,
merge (squash or merge commit) and close the PR, deleting its branch or not.
`JobFails` and `MarkFails` end a run between any two steps.

`RollingPR.tla` is the abstract specification: every push is one atomic step on
the latest tip, and keeps every fix, revert and pick of an open PR's branch
unless the release branch has the pick. `BackportSweep` implements it with
`open <- pr.open`.

Abstractions. A branch tip stands for its commit id and holds what the
properties need: base version, picks, reverted picks, fixes. Whether a candidate
can be applied and validated is fixed by `Broken` (section 4 opens that step). The PR body is its Applied
table. A maintainer reopening a closed sweep PR, and two open sweep PRs for one
branch, are left out. After a merge commit that keeps the sweep branch, the
revert workflow would refuse commits that the release branch has by then; the
model lets it try, which only adds behaviours.

### What is checked

| Run | Bounds | Shows |
|---|---|---|
| `backport_sweep_races` | 1 good and 1 broken PR, 1 hand commit, 1 fix, 1 revert | `Inductive` (the proof's invariant, which includes `TypeOK`); `DoneImpliesNamed`; `NoCommitLost`; `NoRepick`; `PollNeverPilesOn`; `ImplementsRollingPR` |
| `backport_sweep_liveness` | 1 good and 1 broken PR, 1 hand commit on the release branch, 1 failure, 1 close; no fix, no revert | `GoodCandidatesLand`; `NamedCardsDone` |
| `backport_sweep_green`, `_landed`, `_healing` | as small as shows it | three disagreements of documents and code (below) |

Two PRs suffice for a broken candidate ahead of a good one and a stale table row; one fix, one revert or one hand commit suffices for each to fall
between any two steps of a job; runs are unbounded in number. What is
true of any number of them is proved. The fairness is that of
the crons: a sweep and a reconcile keep being started and a started run goes on,
and maintainers eventually merge an open PR. Nothing is assumed of the fix bot,
the revert workflow, or of maintainers adding cards or commits.

### What disagrees

1. `AlwaysGreen`: "the sweep branch is always green", but a rebased branch to which
   no new candidate was added is published without validation.
2. `DoneImpliesLanded`: Done is for what is "genuinely" on the branch, but a pick
   reverted on the sweep branch stays in the Applied table and is marked Done.
3. `SelfHealing`: a squash merge between the push and the update of the PR body
   leaves a landed pick that no reconcile ever marks Done.

`docs/architecture.md` also says that a published branch is never rewritten; `PrepareBranch`
and `Push` show the sweep's branch rebased and force-pushed under its lease.

### What is proved

`BackportSweepProofs.tla` proves for every finite set of PRs and all bounds:
`TypeCorrect`, `DoneIsNamed`, `NothingLost`, `NothingRepicked`, `PollPushesAlone` and
`Refines` (`BackportSweep` implements `RollingPR`). The assumptions are those of the module: PRs are numbers, bounds are
naturals, `NoTip` is no tip. `NoCommitLost` is not inductive, since a push relies on
what the job read hours before. `Inductive` says what each stale value still means
while the PR is open: the published tip has only grown since the lease was read
(`LeaseIsAPrefix`), the branch was fetched after the lease, so the job's head covers
the lease (`HeadCoversLease`), what the job cloned is still on the release branch
(`CloneStaysLanded`), and a job that saw no PR still sees none (`NoPRAppears`). At the
push the lease equals the tip, so the head covers the tip.

`NoRepick` and `PollNeverPilesOn` rest on what is true when there is *no* open PR. A poller
that works has found no open PR, and only a holder of the branch lock opens one
(`PollSeesNone`). What a job would add is new to the release branch that it cloned, or the
branch was deleted under it and a manual revert has brought an older tip back
(`PicksAreNew`, `BranchReplaced`; a job that continues a PR has a branch on lease, `LeaseHasBranch`): then `NewPicks`, which compares with the tip on lease, may
hold an old pick, but that lease can no longer be met. TLC checks `Inductive` in
`backport_sweep_races`. Only the liveness properties are model-checked and not proved.

## 3. Release automation

`ReleasePublication.tla` models any number of release lines of one repository,
from Prepare Release to the GitHub release. Its state is GitHub's:

- `branch`: the head of each release branch and the merge commits of notes PRs;
- `notes`: per version, whether a notes PR is open and the merge commit that the most
  recently updated one shows (what `_find_prep_pr` returns);
- `issue`: the tracker of each version; `tags`, `releases`, `latest`;
- `main`: the head of the controller repository, which every run is pinned to;
- `runs`: the publish runs, oldest first, each with its plan and its phase;
- `approved`: every plan that a human approved (a history variable);
- `sync`: the progress watcher's pass over one tracker and what it has read.

| Actions | Code |
|---|---|
| `Prepare`, `PrepareFails` | `release-prepare.yml`: `derive_version`, `_require_commits_since_previous_release`, notes cut, `ensure_tracker` |
| `RunValidate`, `RunQualify`, `Approve`, `RunCheckMain`, `RunFinish` | the jobs of `release-publish.yml` |
| `RunRevalidate`, `RunTag`, `RunRelease` | `publish_release`: plan again and compare digests; `_ensure_tag`; create the release |
| `RunResume`, `Rerun`, `RunFails`, `RunCancelled`, `DispatchByHand` | what GitHub and maintainers do with runs |
| `SyncStart` ... `SyncDone`, `SyncFails` | `sync_trackers` and `_sync_one`, one step per read, cancellation or dispatch |
| `HandcraftNotes`, `MergeNotes`, `TouchOldNotes`, `Commit`, `CloseIssue`, `MoveMain` | maintainers |

The concurrency groups are modelled as GitHub has them: per line one run in
progress (waiting for approval counts) and one queued, which the next one replaces
(`WithoutQueued`, `Busy`); one watcher.

Abstractions. The reads of `plan_publication` are one step, and so is the comparison of
the digests that follows; the writes after them are steps of their own. The digest
compares line, version, commit and `make_latest`: the body is a function of the
commit and of the tag before it, which the version determines. Left out: who may
start or approve a run, the tag ruleset, candidate CI, what qualification does, drafts,
moved tags, the text of the dashboard, a lost response of `create_issue`. A
dispatched run is visible at the watcher's next read. A dispatch whose response
is lost is a dispatch by hand followed by `SyncFails`. One pass of the
watcher handles one open tracker, in any order.

### What is checked

| Run | Bounds | Shows |
|---|---|---|
| `release_safety` | a patch of line 1 and the first final of line 2; 2 notes PRs, 1 commit, 1 run by hand, 1 late comment, no failure | `Inductive` (the proof's invariant, which includes `TypeOK`); `PublishedAsApproved`; `TagInSequence` |
| `release_liveness` | one line with RC1 out; RC1, RC2, GA; 1 notes PR, 1 commit, 2 moves of the controller's main, 1 failure, 1 closed tracker | `OneLivePrompt`; `CandidateShips` |
| `release_latest`, `_touched` | as small as shows it | two disagreements (below) |

Two notes PRs are what two lines at once, or a revert with a second preparation,
need; two moves make the watcher replace a run that it has replaced before; one
run by hand, one commit and one failure can each fall between any
two steps of a run or of the watcher. Numbers of runs by the watcher are unbounded.
The safety properties are proved for all bounds, failures between a tag and its release included, for
which `release_safety` has no room; only `CandidateShips` rests on its bounds. Its fairness: every open tracker keeps being polled
(the watcher is scheduled hourly and goes through all of them), a pass goes on, the
runs of a line go on, and reviewers answer. Nothing is assumed of maintainers who
prepare, merge, commit or rerun. A candidate whose run failed at the current
controller commit is excepted, since `_sync_one` leaves it to a maintainer.

### What disagrees

1. `LatestIsHighest`: a lower final release is never to be the latest; with two lines at
   once the check and the creation of the release are apart, and the older line wins.
2. `MergedHeadIsPublished`: a merged notes PR at the head is published; but a
   comment on an earlier merged PR of the same version makes `_find_prep_pr` return
   that one, and the watcher never dispatches.

Two more are in the model and in no run. A test's name says that no run is cancelled
once its release exists; `_sync_one` reads the release before the runs, and
can cancel one that published in between. And closing the tracker "stops everything
for that release", but a run that is dispatched by then publishes it all the same.

### What is proved

`ReleasePublicationProofs.tla` proves for all lines, versions, numbers of runs and
bounds: `TypeCorrect`, `ApprovedOnly`, `Sequence`, `OnePrompt`, from `InductiveHolds`. The
assumptions are the module's: lines are numbers, versions are finitely many,
bounds are naturals, `None` is no plan and no commit.

`TagInSequence` needs that what `publish_release` checked is still so when it creates
the tag. `Inductive` therefore says of every run (`RunOK`): its plan is for its own
candidate, which is the merge commit of that version's notes PR; from the approval on
it is approved; a run about to tag still finds the tag absent and the version
derived, or the tag at its commit; a run that has tagged finds its tag. Only
`RunTag` can disturb another run's part of this, and `OneRunPerLine` excludes that: what
a version derives from are the tags of its own line (`DerivesIsLocal`), and no other
run of the line is in progress. Most other steps either only add (`Grows`), move one
run (`OneRunMoves`) or queue one (`RunQueued`); these lemmas carry the proof.

## 4. Preparing the sweep branch

`CandidatePipeline.tla` opens `ApplyCandidates`, the one local step in which `BackportSweep`
lets a job pick its candidates. One program runs in one work tree; git, the builds, GitHub
and the AI agent are its environment and may answer anything at every call. A step
is what the program does between two answers, and `at` says which answer it waits for.

`SourcePlan.tla` is the pure part: which commit stands for a merged PR. A tree is a set of
hunks, a PR has a fork point, one or two commits (two suffice for a merge SHA that is only a
part of a PR), a merge method, and a listing of commits that may be cut short.

| State | Code |
|---|---|
| `todo`, `result`, `sha` | the loop of `_prepare_branch` and the `CandidateResult`s it collects |
| `plan` | `source_plans`, made before the first pick |
| `tree` | HEAD's commits, a cherry-pick in progress, tracked changes, files with markers, untracked files |
| `cand` | `_ApplyState` and the heads that the validation remembers to go back to |
| `green` | a history variable: the commits on which a complete validation passed |

| Actions | Code |
|---|---|
| `PreparePlans`, `SetupFails`, `SkipKnown`, `SkipUnplanned`, `StartCandidate`, `Finish` | `_prepare_source_plans` and the head of the loop, with the cap |
| `PickClean`, `PickIsEmpty`, `PickIsRefused`, `PickConflicts` | the four answers of `git cherry-pick` |
| `RefuseConflicts`, `DropMissingTests`, `ResolveByRule`, `AgentResolves`, `AgentLeavesMarkers`, `AgentFailsToResolve`, `MissingTestsNotPorted` | binary and missing files, missing tests, whitespace, the agent and its one retry |
| `StageResolution`, `ContinuePick`, `ContinueFindsNothing`, `ContinueFails`, `AddTrailer` | the end of a resolution, the commit and its trailer |
| `AbortEmptyPick`, `AbortFails`, `AbortRefusedPick`, `RollBack`, `RollBackFails`, `ApplyRaises`, `Recover`, `RecoverFails` | the failures of `apply_candidate`, and of its rollback |
| `GenerateNothing`, `GenerateAmends`, `GenerateFails`, `RegenerateFails` | `prepare_generated_files`, before and after a repair |
| `ValidationPasses`, `ValidationFails`, `FinalPasses`, `FinalDoesNotPass`, `ValidationRaises` | `validate_branch_with_optional_repair` |
| `Repair...` | `repair_validation_failure_with_claude`: refused, committed, passed, kept in part, taken back |
| `Adaptation...` | `adapt_added_tests_for_target` |
| `Reject`, `AcceptNothing`, `Accept` | the end of the loop's body |

Abstractions. A file's content is whether it has markers; one conflicting file of each kind
that the code tells apart (whitespace, text, binary, test, missing source) stands for
all of its kind. The agent edits what its prompt and tools allow: with a shell it may leave
files behind, but it is assumed not to commit. Untracked files come from builds and from
agents; those that git ignores are seen neither by the model nor by `untracked_paths`. Which commands validate a change (`validation.py`), prompts, diffs and
the rendering of results are left out.

`CandidateLedger.tla` is the abstract specification: a list of commits on which candidates
land one at a time, whole, with one trailer on the first of their commits, and from which
nothing goes. `CandidatePipeline` implements it with `branch <- Branch`: between
candidates what HEAD has, and during a candidate what it had before.

### What is checked

`candidate_safety`, with three candidates, the first known already, one hunk, a cap of two,
two conflicting files at most and two faults (where `done` or `failed` is the end), checks

- `Inductive`, the proof's invariant, which includes `TypeOK`;
- `AcceptedIsValidated`: what ends an applied candidate has itself passed a validation;
- `AcceptedIsNamed`: applied candidates and no others are on the branch, with one trailer
  each and reported with the SHA that they ended up with;
- `WholeChangePicked`: a pick is the PR's whole change, or there is none;
- `NoConflictMarkers`: in no commit, even one that is taken back;
- `NobodyLeftOut`: "one bad backport never holds up the ones behind it";
- `RejectedLeavesNoTrace`: a candidate that is not applied leaves the work tree as it found
  it, but for files of a build;
- `ImplementsLedger`.

Two candidates to attempt are what it takes for one to suffer from the other; the second
fault is the failure of a rollback that the first has made necessary. One hunk is
enough for a change that is undone within a PR and for a base that has it already. All
eight are proved for every bound, set of candidates and set of hunks. There is no liveness
property: that a run of the pipeline ends is proved (`PreparationEnds`). It takes no fairness but that the
job goes on, and a job that is cancelled publishes nothing (`JobFails` in `BackportSweep`).

A comment in `sweep_validation.py` says that every red return restores the branch to the
commit the caller handed in. It does not do so literally once generated files have been
folded into HEAD (`GenerateFails`, a red `ValidationFails`): the caller resets to the head
from before the candidate, so the model shows no harm and no run is about it.

### What is proved

`CandidatePipelineProofs.tla` proves all of these, and `PlanIsWhole`: for every merge
history a plan picks the whole change or is refused. Its core is `SamePatchSameBase`: a part
of a rebased PR that has the patch of the whole must start where the base branch was. The
assumptions are the module's: candidates are positive numbers, finitely many, and
bounds are naturals.

No property is inductive, as each only speaks of what is kept. `Inductive` adds, for every
point that the program may be at: what is on top of the commits the candidate started from
(nothing, one bare pick, or a group of its commits that is named once: `CandidateOK`); that every
head which a reset may go back to is as good as HEAD, and which markers are left
(`HistoriesOK`); that the SHA to be reported is HEAD's, and that HEAD has been validated
once the regeneration after a repair is reached (`ReportOK`); and that outcomes and
remaining candidates match (`BookOK`). The proof goes by groups of actions. Steps that
change neither the ledger nor the outcomes are `Quiet` (`QuietKeeps`); a candidate settles
either with the branch as it was (`DropsKeep`) or with its group on top (`AcceptGroup`).

`PreparationEnds` says that n candidates take at most 20 n + 21 steps. `StepsLeft` counts them down: a
step within a candidate goes to a point of less `Distance`, since every failure leads on and no
agent is asked the same thing more than twice, and a candidate that settles is one less to do.

## 5. The CI agents

Four modules. They share no state but GitHub's, each sees the others only as people or
as CI, and `MCCIAgents.tla` takes their sum in one run: `part` says which of them moves.

**`FixLoop.tla`** is one fix in one checkout (`engine.py`, `reproduce.py`, `agent.py`): reproduce
the failure on the unfixed code, then up to `MaxRounds` rounds of agent session, verification and
review. A task has a target (`suggest` or `branch`), a plan (a test, a whole file that timed out, a
build, or none) and a `bug`, how the failure behaves: always, only with every core busy, now and
then, not at all any more, or in the harness. A file counts as run when any of its tests did, so a
change that skips the failing one may pass there. `other` is how the test of another open issue,
which the patch changes, behaves, and `sameCause` whether what cures the one cures the other. A working tree is the edit it holds and whether a command has left anything else
in it. Actions: `FirstRun`, `SecondRun`, `LoopedRun`, `NoTimeToLoop`, `NotReproducedByCode` for
`reproduce`; `AgentPatches`, `AgentPorts`, `AgentRejected`, `AgentRefuses`, `AgentCrashes`,
`PortNotApplied`, `OutOfTime` for `agent_round`; `Verify`, `ReviewApproves`, `ReviewRejects`,
`ReviewFails`, `NoOtherIssue`, `OtherIssues`, `Accept`, `TreeChanged` for the rest of `_fix_loop`.
`OtherIssues` is `other_issues_fixed`: the patch is taken out of the tree, the other test is
reproduced, the patch is put back, and the test is run again; either git call may fail on what a
run wrote. The clock is not modelled: any run may be killed for time. `tested`, `reviewed` and
`alsoFixes` are what is remembered of the current round's candidate.

**`IssueFix.tla`** is the pipeline for issues (`issue_dispatch.py`, `issues.py`, `run.py`,
`publish.py`). An issue names its last occurrence; what the bot has done is kept in `reports`
(comments), `branches`, `drafts`, and in the failed runs by name (`fixRuns`). The dispatcher's tick
reads a list (`TickStarts`), then looks at each issue once more (`TickSkips`, `TickDispatches`). A
run plans (`Validate`, `PlanOccurrence`), prepares (`Prepare`: what `FixLoop` returned), and
publishes (`PostPatch`; `PushFix`, `LookAgain`, `OpenDraft`; `Report`). `Reconciled` is `reconcile_draft_pr`,
which completes an earlier attempt, and which looks at the issue once more between the push and
the PR. Any write may take effect and lose its response; a dispatch may then be
sent twice. A comment that is sent again by the same run may stand twice on the issue: `reports` says
that it is there. People opening a PR from a branch of the bot, and moving a draft's head, which
makes a later run refuse it, are left out.

**`PRFix.tla`** is the pipeline for pull requests: `comment_poll.py`, `gate.py`, `main.py` as one front
door, `ci_followup.py` as the other, and the push of `push.py`. Runs of one door wait for each
other, the doors do not, and people push, rewrite the branch, rerun CI and close the PR. `Claim`
and `Dispatch` are the poller, `Gate` the planning of a command's run, `FollowUp` that of the
other's, `PrepareFix`, `Revalidate`, `Push` the fix, `Answer` the reaction to a command, `Mark` the
follow-up's comment with its markers. `ledger` is what a later follow-up finds of earlier ones:
comments, and runs that left none.

**`FailureIssues.tla`** is the Test Failure Detector and the fuzzer monitor over their publisher
(`issue_dedup.py`). `daily` is the watched runs, each with what failed and whether it is complete,
cancelled or being run again (`RunAgain`, `RunEndsAgain`); `filed` the issues, with their marker,
count and last run; `monitor` the run at work and the two lists, of open and of just closed issues,
that it reads when it first needs them and keeps. `lookback` is the difference of the two programs:
the detector leaves a failure alone whose issue was just closed, does not take a cancelled run, and can
be given a run by hand. `ChoosesRun` is `get_latest_daily_run` and its counterpart: while the newest
run is being run again, an older one is read. `Reads` takes what the artifacts and logs tell of, which may be any part of what failed: the
detector passes over a malformed suite and a job that prints no cause, the fuzzer monitor over a
member that cannot be unpacked, and a fuzzer run without a fingerprint is only logged. Of
what is told, the detector knows what it could not read (`unread`), and only that makes it exit with an
error. `ListOpen`, `ListClosed`, `SkipClosed`, `Create`, `SkipSeen`, `Bump`, `Recur` are `upsert`, one step per
call; `MonitorEnds` is the exit code. People close, reopen and edit issues; an editor that strips
comments takes the marker, the count and the run (`Stripped`).

### What is checked

`ci_agents`: `AgentsTypeOK`, and

| Property | Says |
|---|---|
| `AcceptedAsTested` | what is handed on is, to the byte, what the reproduction passed on under the load it needed, and what the reviewer approved; for a branch, the failure was reproduced first |
| `AcceptedCures` | a named test's failure of every run, or of every run under load, is only answered by a cure; a whole file may pass without the test, and a written-to tree shows less |
| `ClosesOnlyFixed` | a draft closes another issue only if its failure was there without the patch, and if the patch cures it when it is a lasting one |
| `OneReport` | no two runs comment on one occurrence, however often a dispatch is sent (one run may say the same twice) |
| `OneDraftPerIssue` | an issue has one open draft at most, although each occurrence has a branch of its own |
| `IssueAnswered` | an issue that stays free is answered, or given up after enough failures |
| `PushOnlyAdds` | a push of the bot only adds a commit to what the branch is at that moment |
| `FollowUpBounded` | however its runs fail, the follow-up stays within its attempts per head and per job |
| `CommandAnswered` | a command is reacted to, unless its claim, dispatch, run or reaction was lost |
| `CleanExitRecorded` | a clean exit has recorded every failure that its run's artifacts and logs tell of, in an issue that names the run unless people stripped it |
| `CountedOnce` | an issue's count exceeds the times its failure was read in another run than before only by the times people stripped the run from it |

Bounds: three rounds (`MAX_ROUNDS`), two issues with two occurrences, one slot, two tries, one
touch and two faults, so that giving an issue up is reached; one command, two jobs, three attempts per head and two per job (the code's constants),
three commits, CI red on the first, two acts of people, three mishaps; two findings of which one is
a test's, two scheduled runs, one change, one error. Two issues compete for a slot, two occurrences
for a branch of their own, two jobs for the attempts of a head; three mishaps are what exhausts
them. One change is a rerun of the newest run, which sends the monitor back to the older one.

Fairness: ticks keep being started, ticks and runs go on, and the poller keeps
polling. These are the schedules of `ci-fix-issue-dispatch.yml` and `ci-fix-comment-poll.yml`, and
`queue: max` of the workflows that are dispatched. Nothing is assumed of people, the detector or
CI, nor that a follow-up is started. The poller only looks at comments of the last 180 minutes
(`_DEFAULT_LOOKBACK_MINUTES`), so `CommandAnswered` takes it that no longer gap is between two polls; it
excuses commands whose claim, dispatch, run or reaction was lost.

### What disagrees

The code does these things on purpose, so no run is about them; the documents say otherwise.

1. `docs/ci-fix.md` ("How the fix is tested") and the head of `reproduce.py` let a failure that never showed be
   fixed from the log as "unproven", with a test command of the agent's, and say that diagnosis goes on when an attempt does not finish
   or there is no time for it. `_reproduction_refusal` (`engine.py:182`) refuses all of them before any
   edit; `NotReproducedByCode` is that, and `AcceptedAsTested` therefore asks for the reproduction.
2. It also says that running out of time is not treated as declining. A session that used its whole
   time (`AgentTimeout`, `engine.py:417`) and a reproduction that was cut short are refusals, which end the occurrence
   (`AgentRefuses`, `NotReproducedByCode`); only a budget used up between rounds, a verification that is
   killed and a review without an answer are errors. And "an hour in total" is `PREPARE_BUDGET_S`, four and a half.
3. `docs/test-failure-detector.md` says that a run an issue already records is not counted
   again. The issue names the last run only: when the newest run is run again, the next tick reads the
   older one, whose name is gone, and counts it once more (`ChoosesRun`, `Bump`). `CountedOnce` counts the returns.

## 6. The release PR

**`ReleaseNotes.tla`** is the cut of one line (`release_notes/main.py`, `release_cut.py`, `pipeline.py`,
`discover.py`, `triage.py`, `generate.py`, `publish.py`), before the tracker of section 3 takes over.

- `line`: the commits since the previous release, each the landing of a change, a revert, or the
  merge of a stage's notes; `kinds`: what each change is (labelled, plain, opted out, a backport, a commit of no PR);
- `tags`, `prep`, `pr`, `merged`: per stage (rc1, rc2, ..., GA) the tag, the content of the prep
  branch, the PR and its body, and what was merged;
- `cut`: the running cut, its phase and its product.

`CutStarts`, `CutPins`, `CutGenerates`, `CutChecks`, `CutFinds`, `CutHolds`, `CutPushes`,
`CutDescribes`, `CutSettles` are `cut` and `_commit_push_release_pr` up to each call that others can see; `CutDryRuns` and
`CutStops` end it anywhere. `CutGenerates` is a composition of operators, one per stage
of the pipeline: `Base` and `Landed` (`resolve_last_tag`, `resolve_commit_prs`), `Discovered`
(`hydrate_prs`), `Disposition` and `Triaged`, `Written`, the sections of the body, `NewBullets`
(what is already credited is dropped) and `HoldReasons`. The model's answers and what GitHub may fail to
say are free choices. People land and revert changes, mark PRs ready, merge and close them, and
tag. That two sections on top of the same changelog conflict in git (`Merges`) is an external
assumption.

**`ReleaseReview.tla`** is how comments on that PR are answered (`review_poll.py`,
`review_handler.py`, `review.py`). A poll takes a lease by a status comment (`PollReads`,
`PollLeases`), dispatches the handler (`PollDispatches`) or repairs what an earlier one left
(`PollRecovers`); the handler edits, names its commit in the status before it pushes, pushes,
reports (`HandlerStarts` ... `HandlerReports`), replies and resolves (`Reply`, `Reload`, `Resolve`).
A dispatch that took effect and lost its response is sent again, and its status then has two runs,
or the dispatch is marked failed after all (`DispatchLost`).
`HandlerFails` is the look at the head after a push that seemed to fail. `HandlerDies` ends a
handler anywhere, `LeaseEnds` is its ninety minutes, and `BranchMoves` is a person or a new cut.

`MCReleaseNotes.tla` takes the sum of the two: they meet in the PR's branch only, where a cut is
`BranchMoves` to a reviewer and a review's commit is within the section that the cut made.

### What is checked

`release_notes`: `ReleaseInductive` (the types, and the invariants of the proofs,
`NotesInductive` and `ReviewInductive`), and

| Property | Says |
|---|---|
| `HeldUntilLooked` | a PR that nobody marked ready by hand is ready only over the body of its content, and nothing in it asks for a maintainer |
| `Accounted` | what landed before a merged cut last looked is in its notes, or listed in the body that was merged, or left out by a verdict that this body counts |
| `NotedOnce` | no two sections credit the same pull request, in whatever order stages are cut, re-cut, merged and tagged |
| `EditedOnce` | the bot follows its own edit with another for the same comment only where a dispatch was sent twice |
| `ResolvedWasAnswered` | what was last said in a resolved thread was answered by a commit, if it was there at the last look |
| `CommentsAnswered` | a comment is settled: resolved, outdated or refused |

Each has an edge, which is part of its statement. A change that lands after a cut's last look and
before the merge of its PR is in the tag, and in no notes if the release is tagged before another cut
(`Late`); the cut looks at the line once before it publishes. A change that slipped so, was reverted and
lands again slips again: its number is in the tag's history, so `released_pr_numbers` has its note
dropped, with a line of `_no_new_prs_section` at most (`Slipped`; the run's bounds are too small for it, the
proof found it). A PR that a person marks ready while a
re-cut is between its push and its body is merged under an old body (`Unseen`, `byHand`). A person's
commit on top of an edit whose threads are still open makes the bot edit again; the document's "without editing
again" holds while the head is the bot's commit. A comment may cross the resolution of
its thread (`crossed`: any comment between the last look and the resolution, not only the last one); what
is said later in a resolved thread opens it again. A cut that was forced past its reasons to hold is marked ready with the
banner that names them.

Two sentences of `docs/release-notes.md` go further than the code. "All of them are listed in the PR"
(and the opted-out PRs "so a wrong label can be spotted"): `_triage_counts_section` (`release_cut.py:1998`)
prints how many there are, and the verdicts go to an artifact of the run; `Body` has `counted` apart from `listed`,
and `Accounted` takes a counted change as told. "The next check finishes the replies without editing
again": not if the dispatch was sent twice (`review_poll.py:379`). The second run finds a head that is not its
own and writes `failed` over the status that the first one, dead by then, left for the next poll; no
poll reads that status (`review_poll.py:221`), and the comment is edited for again.

Bounds: two changes, the first labelled and the second of any other kind; two stages, the second
the GA; a version file that does not record the stage; three commits, two cuts, one act of a
person; two threads, two comments, three heads, three status comments, and two disturbances, which are people's
pushes and closings, cuts, lost calls and deaths alike. A re-cut needs the second cut, a repeated range the second stage; a
disturbance can fall on any call, and two are a dispatch sent twice and a death. The bound on status comments and
heads is reached in some behaviours, and `CommentsSettled` says so (`BoundReached`). Fairness: the open PR is polled,
a handler goes on, and time passes.

## 7. What is proved

Every theorem is about every value of the constants; its assumptions are the named `ASSUME`s of
its module, which the runs evaluate. Sections 2 to 4 give the arguments for the sweep, the release and the
candidates. The others:

- `CIFixProofs`, `FixLoop`: `FixesAreTested`, `FixesCure`, `OtherIssuesCloseWhenFixed`, and `FixEnds` (at most
  5 `MaxRounds` + 3 steps, counted down by phase and round). What is accepted is known
  only at the end, so `FixInductive` follows what is known before: until the first round nothing is
  edited and what failed under load failed under load (`Unfixed`); from a verified run on the tree
  is the candidate, or the candidate and what commands left (`TreeHeld`), and what another issue's two runs
  showed holds of the tree they left (`OthersHeld`, `ShownIsCured`); the last look tells the trees apart.
- `CIFixProofs`, `IssueFix`: `OccurrencesAreReportedOnce`, `IssuesHaveOneDraft`. `IssueInductive` says that one
  run of an issue is past the queue (`OneAtWork`, the concurrency group), that from its plan to
  its report the occurrence has no comment, that a run which has commented is done, and that an issue whose run is about
  to open a PR has none open (`RunOK`). The re-reading in `Validate` and in `Reconciled` is what carries it.
- `CIFixProofs`, `PRFix`: `FollowUpStaysBounded`, `BotOnlyAdds`. `PRInductive` says that a run's commit tells what
  the branch was (`BoundOK`: a commit is made once, so a branch that ends in it is the run's), and that the
  follow-up at work is on a job without a comment (`FollowUpOK`); the attempt under way is counted in
  advance, so a run that dies changes no bound (`FollowUpBounded`, by the cardinality of pushes and failures).
- `CIAgentsProofs`: `AgentsAreInductive`, `AgentsTyped`. The four agents in one system, as `ci_agents` checks
  it: a step of one leaves the variables of the others, so the invariants hold together.
- `FailureIssuesProofs`: `CleanExits`, `RunsCountedOnce`. `FailInductive` says that an issue counts no more
  than its failure was seen, and one less while it does not name the run in which that was last (`IssuesOK`),
  that what is left to work off was seen in the monitor's run (`TodoSeen`), so a bump has one to count; and
  that whatever is no longer to do is held by an issue with this run's name, or one that people stripped, unless it was
  skipped or the run has erred (`Recorded`).
- `ReleaseNotesProofs`: `ReadyWasLookedAt`, `NothingNotedTwice`, `NothingDroppedInSilence`. `NotesInductive`
  has `Guarded`, `Pushed`, `Described`: from the push on the PR is a draft, and its branch
  and then its body are the cut's; and `MadeNew`, `PrepNew`: what was made from a pin has neither
  a section nor a note that the changelog at that pin has. `Merges` only takes a branch
  whose pin has all sections that the line has, so its notes are new. For `Accounted` it adds
  `TagsAtMerges` and `MadeCovers`, `PrepCovers`: a product tells of every landing up to its pin, unless somebody was told
  before or it slipped. `ProductCovers` is the step that makes one, by cases on the landing: at or
  below the base of the range, which is the merge of an older stage, that stage saw it and accounts for it, or it
  was late there (`BelowTheBase`); above it, a revert puts it into the body, or it gets a verdict, and every
  verdict is a section of the body or a bullet (`VerdictsEnd`). A bullet dropped as credited before
  was told by an older stage; one dropped as released before is, again, of a landing below the base.
- `ReleaseReviewProofs`: `CommentsEditedOnce`, `ResolvedThreadsAnswered`, and `ReleaseIsInductive` for the sum
  with the cut. `ReviewInductive` says of the handler at each phase what it has read (`RunAsRecorded`,
  `TipOnRecord`): the commit that it names in the status is made once (`HeadsArePast`), no two
  runs have one status unless its dispatch was sent twice (`RunsAreApart`, `Resent`), so otherwise a status that names
  the branch's head is the record of that push, whoever died after it. A batch read at the branch's head has none of the comments that
  this head answers (`BatchesAreNew`), and what is replied to and resolved was answered by the commit in
  hand, unless the thread was crossed (`MendsAreAnswered`).

Only model-checked: the liveness properties (`GoodCandidatesLand`, `NamedCardsDone`,
`CandidateShips`, `CommandAnswered`, `IssueAnswered`, `CommentsAnswered`), which are out of the
prover's reach. Every invariant and every action property of a passing run is a theorem.

What the proofs changed in the models: the ghost `crossed` of `ReleaseReview` forgot a first comment
when a second one followed within one resolution, so `ResolvedWasAnswered` was false with three
comments; and `Accounted` excused only the last landing of a change, which is false once a
change lands, slips, is reverted and lands again.

## 8. Not modelled

- The registry, matrix and onboarding checks, `ci_job.py` (an evaluator of workflow expressions), `validation.py`'s choice
  of commands, log parsing: functions of text with no state. Most are recursive, and their tests
  enumerate them well.
- The eligibility report: searches in histories and an agent's opinion. Nothing reads its verdict.
- The manual single backport: the candidate application of section 4 with one PR, one branch of its
  own and no other writer.
- The CVE scan: a decision per image in jobs that do not interact; images are pushed elsewhere.
- The chain of review watchers (`ensure_watcher`, the six-hourly restart): that a PR is watched is
  `ReviewFairness`. A person who stops a watcher by hand has it restarted, as the schedule only looks for open PRs.
- A batch of comments too large for a status comment: it raises in the poll and is looked at again
  by the next.
- More than twenty plans of follow-up runs on one pull request, or unreadable ones (`load_prior_plans`).
- The notification of owners, contributors, labels, prompts, and every text but what a marker in it says.
- Two collisions in `mark_done.py`'s index of commits: the numbers of PRs are taken to be distinct.
- A lost response of `create_issue` for a tracker: it is recovered by a search right after the call, and
  what that search shows is GitHub's. The cancellation of a run that ships in between is in
  `ReleasePublication`, and no property is about it.
