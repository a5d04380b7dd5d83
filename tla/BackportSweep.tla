--------------------------- MODULE BackportSweep ---------------------------
(***************************************************************************)
(* The rolling backport pull request of one release branch.                *)
(*                                                                         *)
(* A maintainer puts a merged source PR on the branch's project board with *)
(* the status "To be backported".  A sweep job (the daily sweep, or the    *)
(* poller when no sweep PR is open) cherry-picks the waiting PRs onto      *)
(* agent/backport/sweep/<branch>, validates them and publishes the branch  *)
(* and its PR.  Around it, and outside the per-branch workflow lock, run   *)
(* the CI fix bot, the manual revert workflow, the board reconcile and the *)
(* maintainers themselves.                                                 *)
(*                                                                         *)
(* GitHub's state is target, remote, pr and board.  job, fixer, reverter   *)
(* and marker hold what one run of each program has read so far: each step *)
(* below is one read or one write of GitHub's state, so that everything a  *)
(* run does later is done on values that may be stale.                     *)
(*                                                                         *)
(* The concurrency group backport-branch-mutation-<repo>-<branch> lets one *)
(* sweep, poll or follow-up run at a time: there is one job.               *)
(***************************************************************************)
EXTENDS Naturals, FiniteSets

CONSTANTS
  Prs,              \* source PRs, numbered in the order they were merged
  Broken,           \* those whose cherry-pick conflicts or fails validation
  MaxApplied,       \* --max-candidates; 0 means no cap
  NoTip,            \* the sweep branch does not exist
  MaxTargetCommits, \* bound: commits made to the release branch by hand
  MaxFixes,         \* bound: commits the CI fix bot pushes
  MaxReverts,       \* bound: reverts of a pick on the sweep branch
  MaxFailures,      \* bound: jobs that crash, are cancelled or hit an error
  MaxCloses         \* bound: sweep PRs closed without being merged

ASSUME PrsAssumption == Prs \subseteq Nat /\ IsFiniteSet(Prs) /\ Broken \subseteq Prs
ASSUME BoundsAssumption ==
  {MaxApplied, MaxTargetCommits, MaxFixes, MaxReverts, MaxFailures, MaxCloses} \subseteq Nat

(***************************************************************************)
(* The tip of a branch stands for its commit id.  A sweep branch tip is    *)
(* the release-branch version it is built on, the source PRs its commits   *)
(* name (Backport-Source-PR trailers), the picks reverted on top, and the  *)
(* commits of the CI fix bot.                                              *)
(***************************************************************************)
Tips == [base : Nat, commits : SUBSET Prs, reverted : SUBSET Prs, fixes : SUBSET Nat]

ASSUME NoTipAssumption == NoTip \notin Tips

(* A release branch: its version (commit id), the source PRs whose change
   it contains, and the source PRs its history names.                     *)
Targets == [ver : Nat, content : SUBSET Prs, named : SUBSET Prs]

VARIABLES
  target,    \* the release branch
  remote,    \* the tip of the published sweep branch, or NoTip
  pr,        \* the latest sweep PR: its number, whether open, its Applied table
  board,     \* the status of each source PR's card
  job,       \* the sweep or poll run that holds the branch lock
  fixer,     \* a CI fix run working on the sweep PR
  reverter,  \* a manual revert run
  marker,    \* a board reconcile run
  budget     \* how much of each bound has been used

vars == <<target, remote, pr, board, job, fixer, reverter, marker, budget>>
github == <<target, remote, pr, board>>
others == <<fixer, reverter, marker>>

Phases == {"idle", "started", "discovered", "cloned", "pr_seen", "head_read",
           "branch_ready", "prepared", "target_ok", "remote_ok", "pr_ok", "pushed"}

EmptyTarget == [ver |-> 0, content |-> {}, named |-> {}]

IdleJob == [phase |-> "idle", kind |-> "sweep", cands |-> {}, base |-> EmptyTarget,
            pr |-> 0, expected |-> NoTip, head |-> NoTip, validated |-> FALSE]
IdleFixer == [phase |-> "idle", expected |-> NoTip]
IdleReverter == [phase |-> "idle", seen |-> NoTip, pick |-> {}, body |-> {}]
IdleMarker == [phase |-> "idle", loaded |-> {}, verified |-> {}]

Jobs == [phase : Phases, kind : {"sweep", "poll"}, cands : SUBSET Prs,
         base : Targets, pr : Nat, expected : Tips \union {NoTip},
         head : Tips \union {NoTip}, validated : BOOLEAN]
Fixers == [phase : {"idle", "working", "checked"}, expected : Tips \union {NoTip}]
Reverters == [phase : {"idle", "cloned", "pushed", "read"},
              seen : Tips \union {NoTip}, pick : SUBSET Prs, body : SUBSET Prs]
Markers == [phase : {"idle", "loaded", "verified"}, loaded : SUBSET Prs,
            verified : SUBSET Prs]
Budgets == [commits : Nat, fixes : Nat, reverts : Nat, failures : Nat, closes : Nat]
SweepPRs == [num : Nat, open : BOOLEAN, body : SUBSET Prs]

TypeOK ==
  /\ target \in Targets
  /\ remote \in Tips \union {NoTip}
  /\ pr \in SweepPRs
  /\ board \in [Prs -> {"none", "todo", "done"}]
  /\ job \in Jobs
  /\ fixer \in Fixers
  /\ reverter \in Reverters
  /\ marker \in Markers
  /\ budget \in Budgets

Init ==
  /\ target = EmptyTarget
  /\ remote = NoTip
  /\ pr = [num |-> 0, open |-> FALSE, body |-> {}]
  /\ board = [p \in Prs |-> "none"]
  /\ job = IdleJob
  /\ fixer = IdleFixer
  /\ reverter = IdleReverter
  /\ marker = IdleMarker
  /\ budget = [commits |-> 0, fixes |-> 0, reverts |-> 0, failures |-> 0, closes |-> 0]

-----------------------------------------------------------------------------
(* Maintainers *)

(* A maintainer marks a merged PR "To be backported", again if need be, or
   takes the card off the board.                                           *)
MoveCard(p, status) ==
  /\ board[p] # status
  /\ board' = [board EXCEPT ![p] = status]
  /\ UNCHANGED <<target, remote, pr, job, others, budget>>

(* A commit reaches the release branch outside the sweep: a cherry-pick of p
   by hand, whose subject keeps "(#p)", or something unrelated.            *)
CommitToTarget(S) ==
  /\ budget.commits < MaxTargetCommits
  /\ S \intersect target.content = {}
  /\ target' = [ver |-> target.ver + 1, content |-> target.content \union S,
                named |-> target.named \union S]
  /\ budget' = [budget EXCEPT !.commits = @ + 1]
  /\ UNCHANGED <<remote, pr, board, job, others>>

(* What a sweep branch adds to, and takes from, the release branch it is
   merged into.  A revert whose pick the rebase dropped undoes the release
   branch's own copy.                                                      *)
Adds(tip) == tip.commits \ tip.reverted
Removes(tip) == tip.reverted \ tip.commits

(* A maintainer merges the sweep PR.  A squash keeps only the PR body, whose
   Applied table names the source PRs; a merge commit keeps the trailers.  *)
MergePR(squash, deleteBranch) ==
  /\ pr.open
  /\ remote # NoTip
  /\ target' = [ver |-> target.ver + 1,
                content |-> (target.content \union Adds(remote)) \ Removes(remote),
                named |-> target.named \union (IF squash THEN pr.body ELSE remote.commits)]
  /\ pr' = [pr EXCEPT !.open = FALSE]
  /\ remote' = IF deleteBranch THEN NoTip ELSE remote
  /\ UNCHANGED <<board, job, others, budget>>

(* A maintainer closes the sweep PR, as the sweep's own error message asks
   for when a rebase conflicts.                                            *)
ClosePR(deleteBranch) ==
  /\ pr.open
  /\ budget.closes < MaxCloses
  /\ pr' = [pr EXCEPT !.open = FALSE]
  /\ remote' = IF deleteBranch THEN NoTip ELSE remote
  /\ budget' = [budget EXCEPT !.closes = @ + 1]
  /\ UNCHANGED <<target, board, job, others>>

-----------------------------------------------------------------------------
(* The sweep job: preparation *)

StartSweep ==
  /\ job.phase = "idle"
  /\ job' = [IdleJob EXCEPT !.phase = "started"]
  /\ UNCHANGED <<github, others, budget>>

(* Mutant: the poller does not look for an open PR. *)
PollAlways == TRUE

(* The poller sweeps only when no sweep PR is open. *)
PollSeesNoPR == ~pr.open

StartPoll ==
  /\ job.phase = "idle"
  /\ PollSeesNoPR
  /\ job' = [IdleJob EXCEPT !.phase = "started", !.kind = "poll"]
  /\ UNCHANGED <<github, others, budget>>

(* Read the board; with nothing waiting the run is over. *)
Discover ==
  /\ job.phase = "started"
  /\ LET cands == {p \in Prs : board[p] = "todo"} IN
       job' = IF cands = {} THEN IdleJob
              ELSE [job EXCEPT !.phase = "discovered", !.cands = cands]
  /\ UNCHANGED <<github, others, budget>>

CloneTarget ==
  /\ job.phase = "discovered"
  /\ job' = [job EXCEPT !.phase = "cloned", !.base = target]
  /\ UNCHANGED <<github, others, budget>>

(* find_existing_pr: the number of the open sweep PR, 0 when there is none. *)
OpenPR == IF pr.open THEN pr.num ELSE 0

FindPR ==
  /\ job.phase = "cloned"
  /\ job' = [job EXCEPT !.phase = "pr_seen", !.pr = OpenPR]
  /\ UNCHANGED <<github, others, budget>>

(* The remote head is read before the branch is fetched, so the lease can
   only be older than what the job has built on.                           *)
ReadRemoteHead ==
  /\ job.phase = "pr_seen"
  /\ job' = IF job.pr # 0 /\ remote = NoTip THEN IdleJob
            ELSE [job EXCEPT !.phase = "head_read", !.expected = remote]
  /\ UNCHANGED <<github, others, budget>>

(* Mutant: the branch is rebuilt from its picks alone. *)
RebuiltFromPicks(tip, base) ==
  [tip EXCEPT !.base = base.ver, !.commits = @ \ base.content, !.fixes = {}]

(* git rebase: picks the release branch already contains are dropped. *)
Rebased(tip, base) ==
  [tip EXCEPT !.base = base.ver, !.commits = @ \ base.content]

FreshTip(base) == [base |-> base.ver, commits |-> {}, reverted |-> {}, fixes |-> {}]

(* With an open PR the published branch is fetched and rebased; without one
   the job starts over from the release branch.                            *)
PrepareBranch ==
  /\ job.phase = "head_read"
  /\ job' = IF job.pr = 0
            THEN [job EXCEPT !.phase = "branch_ready", !.head = FreshTip(job.base)]
            ELSE IF remote = NoTip THEN IdleJob
            ELSE [job EXCEPT !.phase = "branch_ready", !.head = Rebased(remote, job.base)]
  /\ UNCHANGED <<github, others, budget>>

(* Mutant: only the sweep branch's own history is consulted. *)
PendingOnSweepBranch == job.cands \ job.head.commits

(* The candidates the loop attempts: not named by a commit of the sweep
   branch, and not named by the history of the release branch.             *)
Pending == job.cands \ (job.head.commits \union job.base.named)

(* Those whose cherry-pick succeeds, changes something and validates. *)
Accepted == {p \in Pending \ Broken : p \notin job.base.content}

(* Only accepted candidates count against the cap, so a bad one never holds
   up the ones behind it.                                                  *)
UnderCap(p, S) == MaxApplied = 0 \/ Cardinality({q \in S : q < p}) < MaxApplied

(* Mutant: every attempted candidate counts against the cap. *)
PickedOfAttempted == {p \in Accepted : UnderCap(p, Pending)}

Picked == {p \in Accepted : UnderCap(p, Accepted)}

(* The branch is published when some candidate is on it and it differs from
   the release branch.  What the job rejected has been reset out of it.    *)
ApplyCandidates ==
  /\ job.phase = "branch_ready"
  /\ LET onBranch == job.cands \intersect job.head.commits
         head == [job.head EXCEPT !.commits = @ \union Picked]
         differs == Adds(head) # {} \/ Removes(head) # {} \/ head.fixes # {}
     IN job' = IF (Picked # {} \/ onBranch # {}) /\ differs
               THEN [job EXCEPT !.phase = "prepared", !.head = head,
                                !.validated = Picked # {}]
               ELSE IdleJob
  /\ UNCHANGED <<github, others, budget>>

-----------------------------------------------------------------------------
(* The sweep job: publication, with a fresh token *)

(* One precondition of the publication; the run stops when it fails. *)
Check(from, holds, to) ==
  /\ job.phase = from
  /\ job' = IF holds THEN [job EXCEPT !.phase = to] ELSE IdleJob
  /\ UNCHANGED <<github, others, budget>>

(* Mutant: the lease is refreshed instead of compared. *)
RefreshLease ==
  /\ job.phase = "target_ok"
  /\ job' = [job EXCEPT !.phase = "remote_ok", !.expected = remote]
  /\ UNCHANGED <<github, others, budget>>

CheckTarget == Check("prepared", target.ver = job.base.ver, "target_ok")
CheckRemote == Check("target_ok", remote = job.expected, "remote_ok")
CheckPR == Check("remote_ok", OpenPR = job.pr, "pr_ok")

(* Mutant: a plain --force. *)
Forced == TRUE

(* --force-with-lease=<branch>:<expected head> *)
LeaseHolds == remote = job.expected

Push ==
  /\ job.phase = "pr_ok"
  /\ IF LeaseHolds
     THEN remote' = job.head /\ job' = [job EXCEPT !.phase = "pushed"]
     ELSE job' = IdleJob /\ UNCHANGED remote
  /\ UNCHANGED <<target, pr, board, others, budget>>

(* upsert_pr: rewrite the body of the PR seen before the push, even if it
   has been closed since, or open a new one.                               *)
UpsertPR ==
  /\ job.phase = "pushed"
  /\ pr' = IF job.pr # 0 THEN [pr EXCEPT !.body = job.head.commits]
           ELSE IF remote = NoTip THEN pr
           ELSE [num |-> pr.num + 1, open |-> TRUE, body |-> job.head.commits]
  /\ job' = IdleJob
  /\ UNCHANGED <<target, remote, board, others, budget>>

(* A rebase conflict, a failed setup command, an API error, a timeout or a
   cancelled run: nothing of the work directory survives.                  *)
JobFails ==
  /\ job.phase # "idle"
  /\ budget.failures < MaxFailures
  /\ job' = IdleJob
  /\ budget' = [budget EXCEPT !.failures = @ + 1]
  /\ UNCHANGED <<github, others>>

-----------------------------------------------------------------------------
(* The CI fix bot, started by a comment, outside the branch lock *)

FixStart ==
  /\ fixer.phase = "idle"
  /\ budget.fixes < MaxFixes
  /\ pr.open /\ remote # NoTip
  /\ fixer' = [phase |-> "working", expected |-> remote]
  /\ budget' = [budget EXCEPT !.fixes = @ + 1]
  /\ UNCHANGED <<github, job, reverter, marker>>

(* Just before the push the PR must still be open on the same head. *)
FixRecheck ==
  /\ fixer.phase = "working"
  /\ fixer' = IF pr.open /\ remote = fixer.expected
              THEN [fixer EXCEPT !.phase = "checked"] ELSE IdleFixer
  /\ UNCHANGED <<github, job, reverter, marker, budget>>

FixLeaseHolds == remote = fixer.expected

FixPush ==
  /\ fixer.phase = "checked"
  /\ remote' = IF FixLeaseHolds
               THEN [fixer.expected EXCEPT !.fixes = @ \union {budget.fixes}]
               ELSE remote
  /\ fixer' = IdleFixer
  /\ UNCHANGED <<target, pr, board, job, reverter, marker, budget>>

-----------------------------------------------------------------------------
(* The manual revert workflow, outside the branch lock *)

RevertClone(p) ==
  /\ reverter.phase = "idle"
  /\ budget.reverts < MaxReverts
  /\ remote # NoTip
  /\ p \in Adds(remote)
  /\ reverter' = [IdleReverter EXCEPT !.phase = "cloned", !.seen = remote, !.pick = {p}]
  /\ budget' = [budget EXCEPT !.reverts = @ + 1]
  /\ UNCHANGED <<github, job, fixer, marker>>

(* A plain push is accepted when it fast-forwards the branch, and when the
   branch is gone.                                                         *)
RevertPush ==
  /\ reverter.phase = "cloned"
  /\ IF remote \in {reverter.seen, NoTip}
     THEN /\ remote' = [reverter.seen EXCEPT !.reverted = @ \union reverter.pick]
          /\ reverter' = [reverter EXCEPT !.phase = "pushed"]
     ELSE reverter' = IdleReverter /\ UNCHANGED remote
  /\ UNCHANGED <<target, pr, board, job, fixer, marker, budget>>

(* _note_pr reads the body of the open PR ... *)
RevertReadBody ==
  /\ reverter.phase = "pushed"
  /\ reverter' = IF pr.open THEN [reverter EXCEPT !.phase = "read", !.body = pr.body]
                 ELSE IdleReverter
  /\ UNCHANGED <<github, job, fixer, marker, budget>>

(* ... and writes it back with a note appended.  The note is not a row of
   the Applied table.                                                      *)
RevertWriteBody ==
  /\ reverter.phase = "read"
  /\ pr' = [pr EXCEPT !.body = reverter.body]
  /\ reverter' = IdleReverter
  /\ UNCHANGED <<target, remote, board, job, fixer, marker, budget>>

-----------------------------------------------------------------------------
(* The board reconcile, under a lock of its own *)

MarkLoad ==
  /\ marker.phase = "idle"
  /\ LET todo == {p \in Prs : board[p] = "todo"} IN
       /\ todo # {}
       /\ marker' = [IdleMarker EXCEPT !.phase = "loaded", !.loaded = todo]
  /\ UNCHANGED <<github, job, fixer, reverter, budget>>

(* Mutant: the cards are trusted. *)
AllLoaded == marker.loaded

(* verify_prs_on_branch: what the cloned history names. *)
Verified == marker.loaded \intersect target.named

(* Mutant: one card that is not on the branch stops the whole run. *)
VerifyAllOrNothing ==
  /\ marker.phase = "loaded"
  /\ marker' = IF marker.loaded \subseteq Verified
               THEN [marker EXCEPT !.phase = "verified", !.verified = Verified]
               ELSE IdleMarker
  /\ UNCHANGED <<github, job, fixer, reverter, budget>>

MarkVerify ==
  /\ marker.phase = "loaded"
  /\ marker' = IF Verified = {} THEN IdleMarker
               ELSE [marker EXCEPT !.phase = "verified", !.verified = Verified]
  /\ UNCHANGED <<github, job, fixer, reverter, budget>>

(* The cards are moved one by one; the run may stop after any of them. *)
MarkDone(p) ==
  /\ marker.phase = "verified"
  /\ p \in marker.verified
  /\ board' = [board EXCEPT ![p] = "done"]
  /\ marker' = IF marker.verified = {p} THEN IdleMarker
               ELSE [marker EXCEPT !.verified = @ \ {p}]
  /\ UNCHANGED <<target, remote, pr, job, fixer, reverter, budget>>

MarkFails ==
  /\ marker.phase # "idle"
  /\ budget.failures < MaxFailures
  /\ marker' = IdleMarker
  /\ budget' = [budget EXCEPT !.failures = @ + 1]
  /\ UNCHANGED <<github, job, fixer, reverter>>

-----------------------------------------------------------------------------
Maintainers ==
  \/ \E p \in Prs, status \in {"none", "todo"} : MoveCard(p, status)
  \/ \E p \in Prs : CommitToTarget({p})
  \/ CommitToTarget({})
  \/ \E squash, deleteBranch \in BOOLEAN : MergePR(squash, deleteBranch)
  \/ \E deleteBranch \in BOOLEAN : ClosePR(deleteBranch)

JobStep ==
  \/ Discover \/ CloneTarget \/ FindPR \/ ReadRemoteHead \/ PrepareBranch
  \/ ApplyCandidates \/ CheckTarget \/ CheckRemote \/ CheckPR \/ Push \/ UpsertPR

Fixer == FixStart \/ FixRecheck \/ FixPush
Reverter == (\E p \in Prs : RevertClone(p)) \/ RevertPush \/ RevertReadBody \/ RevertWriteBody
Marker == MarkLoad \/ MarkVerify \/ (\E p \in Prs : MarkDone(p))

Next ==
  \/ Maintainers
  \/ StartSweep \/ StartPoll \/ JobStep \/ JobFails
  \/ Fixer
  \/ Reverter
  \/ Marker \/ MarkFails

(* The daily cron starts a sweep, the hourly cron a reconcile, and a run that
   has started goes on.  Maintainers eventually merge an open PR; they need
   not add cards, close PRs or commit by hand, and the fix bot and the
   revert workflow need not run at all.                                    *)
Fairness ==
  /\ WF_vars(StartSweep) /\ WF_vars(JobStep)
  /\ WF_vars(Marker)
  /\ WF_vars(\E squash, deleteBranch \in BOOLEAN : MergePR(squash, deleteBranch))

Spec == Init /\ [][Next]_vars
FairSpec == Spec /\ Fairness

-----------------------------------------------------------------------------
(* Safety *)

(* A card the bot moved to Done names a PR the release branch's history
   records: mark-done works on a board it read earlier and on a branch it
   cloned after that, while cards and the branch keep moving.              *)
DoneImpliesNamed == \A p \in Prs : board[p] = "done" => p \in target.named

(* The promise of the rolling PR, which no stale read of a job breaks. *)
Rolling == INSTANCE RollingPR WITH open <- pr.open
ImplementsRollingPR == Rolling!Spec

(* While its PR is open, no push loses a commit that is on the published
   sweep branch, whoever pushed it and whenever it arrived.                *)
NoCommitLost ==
  [][pr.open /\ remote # NoTip /\ remote' # NoTip
       => Rolling!Keeps(remote', remote, target.content)]_vars

(* The picks a push adds: all of them when the run saw no PR and started over. *)
NewPicks == job.head.commits \ (IF job.pr # 0 THEN job.expected.commits ELSE {})

Publishes == Push /\ LeaseHolds

(* A sweep never picks again what the release branch it cloned already
   names: the board lags a merged sweep until the next reconcile, and a pick
   that was reverted before the merge stays out.                           *)
NoRepick == [][Publishes => NewPicks \intersect job.base.named = {}]_vars

(* The poller never pushes onto a branch whose PR is open: a human is
   reviewing it.                                                           *)
PollNeverPilesOn == [][Publishes /\ job.kind = "poll" => ~pr.open]_vars

-----------------------------------------------------------------------------
(* Why no commit is lost: what each stale value a job holds still says about
   the present, phase by phase, while the PR is open.                      *)

SeenPR == {"pr_seen", "head_read", "branch_ready", "prepared", "target_ok",
           "remote_ok", "pr_ok", "pushed"}
HeadKnown == SeenPR \ {"pr_seen", "pushed"}
HeadBuilt == HeadKnown \ {"head_read"}

(* new is old with more fixes and reverts on top. *)
Extends(new, old) ==
  /\ new \in Tips /\ old \in Tips
  /\ new.commits = old.commits
  /\ old.fixes \subseteq new.fixes
  /\ old.reverted \subseteq new.reverted

(* An open PR has a branch, and a number. *)
OpenPRHasBranch == pr.open => pr.num # 0 /\ remote # NoTip

(* Only the job opens PRs: one that saw none still sees none. *)
NoPRAppears == job.phase \in SeenPR /\ job.pr = 0 => ~pr.open

(* What the job cloned stays on the release branch as long as the PR is open. *)
CloneStaysLanded ==
  job.phase \in SeenPR \union {"cloned"} /\ pr.open
    => job.base.content \subseteq target.content

(* The published tip has only grown since the lease was read, ... *)
LeaseIsAPrefix == job.phase \in HeadKnown /\ pr.open => Extends(remote, job.expected)

(* ... so if it is the lease still, it is what the job has built on. *)
HeadCoversLease ==
  /\ job.phase \in HeadBuilt \union {"pushed"} => job.head \in Tips
  /\ job.phase \in HeadBuilt /\ pr.open
       => Rolling!Keeps(job.head, job.expected, job.base.content)

(* The poller found no open PR, and nobody else has opened one since. *)
PollSeesNone == job.phase # "idle" /\ job.kind = "poll" => ~pr.open

(* A job that continues a PR has a branch on lease. *)
LeaseHasBranch == job.phase \in HeadKnown /\ job.pr # 0 => job.expected # NoTip

(* The branch was deleted with its PR, and a revert of an older tip has
   brought that one back: the lease cannot be met any more.                *)
BranchReplaced ==
  ~pr.open /\ remote # NoTip /\ remote.commits # job.expected.commits

(* What the job would add is new to the release branch that it cloned, or
   it will not be able to push.                                            *)
PicksAreNew ==
  job.phase \in HeadBuilt
    => NewPicks \intersect job.base.named = {} \/ BranchReplaced

(* The pushers outside the lock hold real tips; verified cards stay named. *)
OthersHoldTips ==
  /\ fixer.phase # "idle" => fixer.expected \in Tips
  /\ reverter.phase = "cloned" => reverter.seen \in Tips
  /\ marker.phase = "verified" => marker.verified \subseteq target.named

Inductive ==
  /\ TypeOK
  /\ DoneImpliesNamed
  /\ OpenPRHasBranch
  /\ NoPRAppears
  /\ CloneStaysLanded
  /\ LeaseIsAPrefix
  /\ HeadCoversLease
  /\ PollSeesNone
  /\ LeaseHasBranch
  /\ PicksAreNew
  /\ OthersHoldTips

-----------------------------------------------------------------------------
(* Liveness *)

(* Every candidate that can be backported reaches the release branch, with
   bad candidates ahead of it, crashes at any step, closed PRs, and commits
   by others on the release branch.                                        *)
GoodCandidatesLand ==
  \A p \in Prs \ Broken :
    board[p] = "todo" ~> (p \in target.content \/ board[p] # "todo")

(* A card whose PR the branch's history names is eventually moved to Done. *)
NamedCardsDone ==
  \A p \in Prs :
    (board[p] = "todo" /\ p \in target.named) ~> board[p] # "todo"

=============================================================================
