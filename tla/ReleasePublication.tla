------------------------- MODULE ReleasePublication -------------------------
(***************************************************************************)
(* Release automation (scripts/release): from "Prepare Release" to a       *)
(* tagged GitHub release, for several release lines.                       *)
(*                                                                         *)
(* Prepare Release derives the next version and opens a notes PR and a     *)
(* tracker issue.  Once the PR is merged, the progress watcher (sync)      *)
(* dispatches Publish Release for the merge commit; the publish run plans, *)
(* qualifies, waits for a human, plans again and, if nothing changed,      *)
(* creates the tag and the release.  Nothing is stored but on GitHub: each *)
(* step below is one read or one write of it, so what the watcher or a run *)
(* has read may be stale when it is used.                                  *)
(*                                                                         *)
(* Workflow concurrency: one watcher at a time; per line, one publish run  *)
(* in progress and one queued behind it.                                   *)
(***************************************************************************)
EXTENDS Naturals, FiniteSets, Sequences

CONSTANTS
  Lines,        \* release lines, numbered in version order
  Versions,     \* the versions of a line: [ga |-> FALSE, n |-> k] is M.m.0-rck,
                \* [ga |-> TRUE, n |-> k] is M.m.k
  OldTags,      \* per line, the versions already released when the model starts
  None,         \* no tag, no plan
  MaxCommits,   \* bound: other commits on release branches
  MaxMoves,     \* bound: commits on the controller's main
  MaxPreps,     \* bound: notes PRs opened
  MaxManual,    \* bound: publish runs dispatched or rerun by hand
  MaxFailures,  \* bound: runs and watcher passes that fail or time out
  MaxTouches,   \* bound: late comments on a merged notes PR
  MaxCloses     \* bound: tracker issues closed

ASSUME LinesAssumption == Lines \subseteq Nat /\ IsFiniteSet(Lines)
ASSUME VersionsAssumption ==
  /\ Versions \subseteq [ga : BOOLEAN, n : Nat]
  /\ IsFiniteSet(Versions)
  /\ OldTags \in [Lines -> SUBSET Versions]
ASSUME BoundsAssumption ==
  {MaxCommits, MaxMoves, MaxPreps, MaxManual, MaxFailures, MaxTouches, MaxCloses}
    \subseteq Nat

(* What a human approves: version, commit, and whether the release becomes
   the repository's latest.  The digest compares exactly these.            *)
Plans == [line : Lines, version : Versions, sha : Nat, latest : BOOLEAN]

ASSUME NoneAssumption == None \notin Nat /\ None \notin Plans

VARIABLES
  branch,    \* per line: the head commit, and the merge commits of notes PRs
  notes,     \* per version: whether a notes PR is open, and the candidate that
             \* the most recently updated one shows (0 if it is not merged)
  issue,     \* per version: its tracker issue
  main,      \* the head of the controller repository's main
  tags,      \* per version: the commit its tag is on, or None
  releases,  \* the published releases
  latest,    \* the release GitHub shows as the latest
  runs,      \* the publish runs, oldest first
  approved,  \* the plans a human has approved
  sync,      \* the progress watcher, at work on one tracker issue
  budget     \* how much of each bound has been used

vars == <<branch, notes, issue, main, tags, releases, latest, runs, approved, sync, budget>>
target == <<branch, notes, issue>>
published == <<tags, releases, latest>>

Branches == [head : Nat, merges : SUBSET [sha : Nat, version : Versions]]
RunPhases == {"queued", "qualifying", "waiting", "approved", "current", "bound",
              "tagged", "shipped", "done"}
Runs == [line : Lines, cand : Nat, main : Nat, phase : RunPhases,
         plan : Plans \union {None}, qualified : BOOLEAN, cancelling : BOOLEAN, ok : BOOLEAN]
SyncPhases == {"idle", "listed", "pr", "head", "release", "main", "current", "stale", "found"}

Syncs == [phase : SyncPhases, line : Nat, version : Versions \union {None}, cand : Nat,
          head : Nat, released : BOOLEAN, main : Nat, run : Nat, other : Nat]

IdleSync == [phase |-> "idle", line |-> 0, version |-> None, cand |-> 0, head |-> 0,
             released |-> FALSE, main |-> 0, run |-> 0, other |-> 0]

TypeOK ==
  /\ branch \in [Lines -> Branches]
  /\ notes \in [Lines -> [Versions -> [open : BOOLEAN, shown : Nat]]]
  /\ issue \in [Lines -> [Versions -> {"none", "open", "closed"}]]
  /\ main \in Nat
  /\ tags \in [Lines -> [Versions -> Nat \union {None}]]
  /\ releases \subseteq Plans
  /\ latest \in Plans \union {None}
  /\ runs \in Seq(Runs)
  /\ approved \subseteq Plans
  /\ sync \in Syncs
  /\ sync.phase # "idle" => sync.line \in Lines /\ sync.version \in Versions
  /\ sync.run \in 0..Len(runs) /\ sync.other \in 0..Len(runs)
  /\ budget \in [commits : Nat, moves : Nat, preps : Nat, manual : Nat,
                 failures : Nat, touches : Nat, closes : Nat]

OldReleases ==
  UNION {{[line |-> l, version |-> v, sha |-> 0, latest |-> FALSE] : v \in OldTags[l]}
         : l \in Lines}

(* The order of final releases that _make_latest compares by.              *)
Higher(r, l, v) == r.line > l \/ (r.line = l /\ r.version.n > v.n)

Finals(R) == {r \in R : r.version.ga}
HighestFinal(R) == {r \in Finals(R) : \A q \in Finals(R) : ~Higher(q, r.line, r.version)}

Init ==
  /\ branch = [l \in Lines |-> [head |-> 1, merges |-> {}]]
  /\ notes = [l \in Lines |-> [v \in Versions |-> [open |-> FALSE, shown |-> 0]]]
  /\ issue = [l \in Lines |-> [v \in Versions |-> "none"]]
  /\ main = 1
  /\ tags = [l \in Lines |-> [v \in Versions |-> IF v \in OldTags[l] THEN 0 ELSE None]]
  /\ releases = OldReleases
  /\ latest \in (IF Finals(OldReleases) = {} THEN {None} ELSE HighestFinal(OldReleases))
  /\ runs = << >>
  /\ approved = {}
  /\ sync = IdleSync
  /\ budget = [commits |-> 0, moves |-> 0, preps |-> 0, manual |-> 0,
               failures |-> 0, touches |-> 0, closes |-> 0]

-----------------------------------------------------------------------------
(* Versions and plans *)

Released(l, v) == \E r \in releases : r.line = l /\ r.version = v

TagNumbers(l, ga) == {v.n : v \in {w \in Versions : w.ga = ga /\ tags[l][w] # None}}
RCs(l) == TagNumbers(l, FALSE)
FinalTags(l) == TagNumbers(l, TRUE)
Follows(n, S) == \E m \in S : n = m + 1 /\ \A k \in S : k <= m

(* derive_version: the version that the line's tags derive for the intent
   that v stands for is v itself.                                          *)
Derives(l, v) ==
  \/ ~v.ga /\ FinalTags(l) = {} /\ (IF RCs(l) = {} THEN v.n = 1 ELSE Follows(v.n, RCs(l)))
  \/ v.ga /\ v.n = 0 /\ FinalTags(l) = {} /\ RCs(l) # {}
  \/ v.ga /\ Follows(v.n, FinalTags(l))

(* _require_commits_since_previous_release: a release candidate after the
   first, or a patch, needs commits since the tag before it.               *)
HasNews(l, v) ==
  \/ v.ga /\ v.n = 0
  \/ ~\E w \in Versions : w.ga = v.ga /\ v.n = w.n + 1 /\ tags[l][w] = branch[l].head

(* Mutants of Plannable: the version is not derived again, or the candidate
   need not be the merge commit of its notes PR.                           *)
TrustNotes(l, c, v) ==
  /\ branch[l].head = c
  /\ [sha |-> c, version |-> v] \in branch[l].merges
  /\ ~Released(l, v)
  /\ tags[l][v] \in {c, None}
AnyHead(l, c, v) ==
  /\ branch[l].head = c
  /\ ~Released(l, v)
  /\ tags[l][v] = c \/ (tags[l][v] = None /\ Derives(l, v))

(* plan_publication refuses unless this holds of version v at commit c.    *)
Plannable(l, c, v) ==
  /\ branch[l].head = c
  /\ [sha |-> c, version |-> v] \in branch[l].merges
  /\ ~Released(l, v)
  /\ tags[l][v] = c \/ (tags[l][v] = None /\ Derives(l, v))

MakeLatest(l, v) == v.ga /\ \A r \in Finals(releases) : ~Higher(r, l, v)

PlansFor(l, c) ==
  {[line |-> l, version |-> v, sha |-> c, latest |-> MakeLatest(l, v)]
    : v \in {w \in Versions : Plannable(l, c, w)}}

-----------------------------------------------------------------------------
(* Maintainers *)

(* Prepare Release: one job derives the version; then one opens or refreshes
   the notes PR and another opens, or reopens, the tracker issue.          *)
Prepare(l, v) ==
  /\ budget.preps < MaxPreps
  /\ Derives(l, v) /\ HasNews(l, v)
  /\ notes' = [notes EXCEPT ![l][v] = [open |-> TRUE, shown |-> 0]]
  /\ issue' = [issue EXCEPT ![l][v] = "open"]
  /\ budget' = [budget EXCEPT !.preps = @ + 1]
  /\ UNCHANGED <<branch, main, published, runs, approved, sync>>

(* The tracker is opened, but the notes cut fails.                          *)
PrepareFails(l, v) ==
  /\ budget.preps < MaxPreps
  /\ Derives(l, v) /\ HasNews(l, v)
  /\ issue' = [issue EXCEPT ![l][v] = "open"]
  /\ budget' = [budget EXCEPT !.preps = @ + 1]
  /\ UNCHANGED <<branch, notes, main, published, runs, approved, sync>>

(* A notes PR for any version is opened by hand, or by a Prepare whose
   derivation is out of date and whose tracker is not opened.              *)
HandcraftNotes(l, v) ==
  /\ budget.preps < MaxPreps
  /\ notes' = [notes EXCEPT ![l][v] = [open |-> TRUE, shown |-> 0]]
  /\ budget' = [budget EXCEPT !.preps = @ + 1]
  /\ UNCHANGED <<branch, issue, main, published, runs, approved, sync>>

MergeNotes(l, v) ==
  LET c == branch[l].head + 1 IN
  /\ notes[l][v].open
  /\ branch' = [branch EXCEPT ![l].head = c,
                              ![l].merges = @ \union {[sha |-> c, version |-> v]}]
  /\ notes' = [notes EXCEPT ![l][v] = [open |-> FALSE, shown |-> c]]
  /\ UNCHANGED <<issue, main, published, runs, approved, sync, budget>>

(* Another commit, such as the revert of a notes PR or a backport.         *)
Commit(l) ==
  /\ budget.commits < MaxCommits
  /\ branch' = [branch EXCEPT ![l].head = @ + 1]
  /\ budget' = [budget EXCEPT !.commits = @ + 1]
  /\ UNCHANGED <<notes, issue, main, published, runs, approved, sync>>

(* A comment makes an earlier merged notes PR the most recently updated.   *)
TouchOldNotes(l, v) ==
  /\ budget.touches < MaxTouches
  /\ \E m \in branch[l].merges :
       /\ m.version = v /\ m.sha # notes[l][v].shown
       /\ notes' = [notes EXCEPT ![l][v].shown = m.sha]
  /\ budget' = [budget EXCEPT !.touches = @ + 1]
  /\ UNCHANGED <<branch, issue, main, published, runs, approved, sync>>

CloseIssue(l, v) ==
  /\ budget.closes < MaxCloses
  /\ issue[l][v] = "open"
  /\ issue' = [issue EXCEPT ![l][v] = "closed"]
  /\ budget' = [budget EXCEPT !.closes = @ + 1]
  /\ UNCHANGED <<branch, notes, main, published, runs, approved, sync>>

MoveMain ==
  /\ budget.moves < MaxMoves
  /\ main' = main + 1
  /\ budget' = [budget EXCEPT !.moves = @ + 1]
  /\ UNCHANGED <<target, published, runs, approved, sync>>

-----------------------------------------------------------------------------
(* Publish runs.  A run's title names its line and candidate. *)

NewRun(l, c) ==
  [line |-> l, cand |-> c, main |-> main, phase |-> "queued", plan |-> None,
   qualified |-> FALSE, cancelling |-> FALSE, ok |-> FALSE]

(* The concurrency group keeps one run queued: queueing another cancels it. *)
WithoutQueued(l) ==
  [i \in DOMAIN runs |->
     IF runs[i].line = l /\ runs[i].phase = "queued"
     THEN [runs[i] EXCEPT !.phase = "done", !.cancelling = FALSE] ELSE runs[i]]

InProgress(i) == runs[i].phase \notin {"queued", "done"}
(* Mutant of Busy: no concurrency group.                                    *)
NoGroup(l) == FALSE
Busy(l) == \E i \in DOMAIN runs : runs[i].line = l /\ InProgress(i)

(* Among the runs of a candidate at the controller commits in M: the newest
   that is not completed, else the newest; 0 if there is none (_find_run).  *)
Found(i, l, c, M) ==
  LET found == {j \in DOMAIN runs : runs[j].line = l /\ runs[j].cand = c /\ runs[j].main \in M}
      live == {j \in found : runs[j].phase # "done"}
      eligible == IF live # {} THEN live ELSE found
  IN  IF c = 0 \/ eligible = {} THEN i = 0 ELSE i \in eligible /\ \A j \in eligible : j <= i

(* A maintainer dispatches Publish Release for some commit of the line.     *)
DispatchByHand(l, c) ==
  /\ budget.manual < MaxManual
  /\ runs' = Append(WithoutQueued(l), NewRun(l, c))
  /\ budget' = [budget EXCEPT !.manual = @ + 1]
  /\ UNCHANGED <<target, main, published, approved, sync>>

(* A maintainer reruns an unsuccessful run, at the same controller commit:
   all of its jobs, or only the failed ones, on the plan it had.            *)
Rerun(i, all) ==
  /\ budget.manual < MaxManual
  /\ runs[i].phase = "done" /\ ~runs[i].ok
  /\ runs' = [WithoutQueued(runs[i].line) EXCEPT
                ![i].phase = "queued", ![i].cancelling = FALSE,
                ![i].plan = IF all THEN None ELSE @,
                ![i].qualified = IF all THEN FALSE ELSE @]
  /\ budget' = [budget EXCEPT !.manual = @ + 1]
  /\ UNCHANGED <<target, main, published, approved, sync>>

RunUnchanged == UNCHANGED <<target, main, published, approved, sync, budget>>
Finish(i, ok) == [runs EXCEPT ![i].phase = "done", ![i].cancelling = FALSE, ![i].ok = ok]

(* The run leaves the queue: its validate job plans, or refuses.            *)
RunValidate(i) ==
  /\ runs[i].phase = "queued" /\ runs[i].plan = None
  /\ ~Busy(runs[i].line)
  /\ LET plans == PlansFor(runs[i].line, runs[i].cand) IN
     \/ \E p \in plans : runs' = [runs EXCEPT ![i].phase = "qualifying", ![i].plan = p]
     \/ plans = {} /\ runs' = Finish(i, FALSE)
  /\ RunUnchanged

(* A rerun of failed jobs goes on from the first job that failed.           *)
RunResume(i) ==
  /\ runs[i].phase = "queued" /\ runs[i].plan # None
  /\ ~Busy(runs[i].line)
  /\ runs' = [runs EXCEPT ![i].phase =
                IF runs[i].qualified THEN "waiting" ELSE "qualifying"]
  /\ RunUnchanged

RunQualify(i) ==
  /\ runs[i].phase = "qualifying"
  /\ runs' = [runs EXCEPT ![i].phase = "waiting", ![i].qualified = TRUE]
  /\ RunUnchanged

(* A reviewer of the release environment approves the plan of the run.      *)
Approve(i) ==
  /\ runs[i].phase = "waiting"
  /\ runs' = [runs EXCEPT ![i].phase = "approved"]
  /\ approved' = approved \union {runs[i].plan}
  /\ UNCHANGED <<target, main, published, sync, budget>>

(* The publish job refuses when the controller's main has moved.            *)
RunCheckMain(i) ==
  /\ runs[i].phase = "approved"
  /\ runs' = IF runs[i].main = main THEN [runs EXCEPT ![i].phase = "current"]
             ELSE Finish(i, FALSE)
  /\ RunUnchanged

(* Mutant of RunRevalidate: publishes what it plans now, no digest compared. *)
PublishAsPlannedNow(i) ==
  LET plans == PlansFor(runs[i].line, runs[i].cand) IN
  /\ runs[i].phase = "current"
  /\ \/ \E p \in plans : runs' = [runs EXCEPT ![i].phase = "bound", ![i].plan = p]
     \/ plans = {} /\ runs' = Finish(i, FALSE)
  /\ RunUnchanged

(* publish_release plans again and compares the digests.                    *)
RunRevalidate(i) ==
  /\ runs[i].phase = "current"
  /\ runs' = IF runs[i].plan \in PlansFor(runs[i].line, runs[i].cand)
             THEN [runs EXCEPT ![i].phase = "bound"]
             ELSE Finish(i, FALSE)
  /\ RunUnchanged

(* _ensure_tag: a tag that exists must be on the plan's commit already.     *)
RunTag(i) ==
  LET p == runs[i].plan IN
  /\ runs[i].phase = "bound"
  /\ \/ /\ tags[p.line][p.version] = None
        /\ tags' = [tags EXCEPT ![p.line][p.version] = p.sha]
        /\ runs' = [runs EXCEPT ![i].phase = "tagged"]
     \/ /\ tags[p.line][p.version] # None
        /\ runs' = IF tags[p.line][p.version] = p.sha
                   THEN [runs EXCEPT ![i].phase = "tagged"] ELSE Finish(i, FALSE)
        /\ UNCHANGED tags
  /\ UNCHANGED <<target, main, releases, latest, approved, sync, budget>>

(* The release is created, or found to exist after a lost response.         *)
RunRelease(i) ==
  LET p == runs[i].plan IN
  /\ runs[i].phase = "tagged"
  /\ IF Released(p.line, p.version) THEN UNCHANGED <<releases, latest>>
     ELSE /\ releases' = releases \union {p}
          /\ latest' = IF p.latest THEN p ELSE latest
  /\ runs' = [runs EXCEPT ![i].phase = "shipped"]
  /\ UNCHANGED <<target, main, tags, approved, sync, budget>>

(* The jobs after publication (onboard-backports) end.                      *)
RunFinish(i) ==
  /\ runs[i].phase = "shipped"
  /\ runs' = Finish(i, TRUE)
  /\ RunUnchanged

(* A job fails, is rejected or times out.                                   *)
RunFails(i) ==
  /\ InProgress(i)
  /\ budget.failures < MaxFailures
  /\ runs' = Finish(i, FALSE)
  /\ budget' = [budget EXCEPT !.failures = @ + 1]
  /\ UNCHANGED <<target, main, published, approved, sync>>

(* A requested cancellation takes effect.                                   *)
RunCancelled(i) ==
  /\ runs[i].cancelling
  /\ runs' = Finish(i, FALSE)
  /\ RunUnchanged

-----------------------------------------------------------------------------
(* The progress watcher (_sync_one).  It goes through the open issues in
   turn; each of its reads is a step.                                       *)

SyncUnchanged == UNCHANGED <<target, main, published, runs, approved, budget>>

SyncStart(l, v) ==
  /\ sync.phase = "idle" /\ issue[l][v] = "open"
  /\ sync' = [IdleSync EXCEPT !.phase = "listed", !.line = l, !.version = v]
  /\ SyncUnchanged

SyncFindPR ==
  /\ sync.phase = "listed"
  /\ sync' = [sync EXCEPT !.phase = "pr", !.cand = notes[sync.line][sync.version].shown]
  /\ SyncUnchanged

SyncReadHead ==
  /\ sync.phase = "pr"
  /\ sync' = [sync EXCEPT !.phase = "head", !.head = branch[sync.line].head]
  /\ SyncUnchanged

(* A release whose tag is on another commit than the candidate is an error. *)
SyncFindRelease ==
  LET released == Released(sync.line, sync.version) IN
  /\ sync.phase = "head"
  /\ sync' = IF released /\ sync.cand # 0 /\ tags[sync.line][sync.version] # sync.cand
             THEN IdleSync
             ELSE [sync EXCEPT !.phase = "release", !.released = released]
  /\ SyncUnchanged

SyncReadMain ==
  /\ sync.phase = "release"
  /\ sync' = [sync EXCEPT !.phase = "main", !.main = main]
  /\ SyncUnchanged

SyncFindRun ==
  /\ sync.phase = "main"
  /\ \E i \in 0..Len(runs) :
       /\ Found(i, sync.line, sync.cand, {sync.main})
       /\ sync' = [sync EXCEPT !.phase = "current", !.run = i]
  /\ SyncUnchanged

(* Mutant of SyncFindOtherRun: any run of the candidate suppresses another. *)
AdoptAnyRun ==
  /\ sync.phase = "current"
  /\ \E i \in 0..Len(runs) :
       /\ Found(i, sync.line, sync.cand, Nat)
       /\ sync' = [sync EXCEPT !.phase = "found", !.other = i, !.run = i]
  /\ SyncUnchanged

(* No run at the current controller commit: a live run of an older one is
   stale unless the release is out, a completed one is ignored.             *)
SyncFindOtherRun ==
  /\ sync.phase = "current"
  /\ \E i \in 0..Len(runs) :
       LET live == sync.run = 0 /\ i # 0 /\ runs[i].phase # "done"
           stale == live /\ runs[i].main # sync.main /\ ~sync.released
       IN
       /\ IF sync.run # 0 THEN i = sync.run ELSE Found(i, sync.line, sync.cand, Nat)
       /\ sync' = [sync EXCEPT !.phase = IF stale THEN "stale" ELSE "found", !.other = i,
                               !.run = IF live /\ ~stale THEN i ELSE @]
  /\ SyncUnchanged

(* Cancelling a run that has completed by now is refused: the pass fails.   *)
SyncCancel ==
  /\ sync.phase = "stale"
  /\ IF runs[sync.other].phase = "done"
     THEN sync' = IdleSync /\ UNCHANGED runs
     ELSE /\ sync' = [sync EXCEPT !.phase = "found"]
          /\ runs' = [runs EXCEPT ![sync.other].cancelling = TRUE]
  /\ UNCHANGED <<target, main, published, approved, budget>>

MayDispatch ==
  /\ ~sync.released
  /\ sync.cand # 0 /\ sync.head = sync.cand
  /\ sync.run = 0

SyncDispatch ==
  /\ sync.phase = "found" /\ MayDispatch
  /\ runs' = Append(WithoutQueued(sync.line), NewRun(sync.line, sync.cand))
  /\ sync' = IdleSync
  /\ UNCHANGED <<target, main, published, approved, budget>>

SyncDone ==
  /\ sync.phase = "found" /\ ~MayDispatch
  /\ sync' = IdleSync
  /\ SyncUnchanged

(* A call fails, or the watcher's job ends, in the middle of a pass.        *)
SyncFails ==
  /\ sync.phase # "idle"
  /\ budget.failures < MaxFailures
  /\ sync' = IdleSync
  /\ budget' = [budget EXCEPT !.failures = @ + 1]
  /\ UNCHANGED <<target, main, published, runs, approved>>

SyncStep ==
  \/ SyncFindPR \/ SyncReadHead \/ SyncFindRelease \/ SyncReadMain \/ SyncFindRun
  \/ SyncFindOtherRun \/ SyncCancel \/ SyncDispatch \/ SyncDone

RunStep(i) ==
  \/ RunValidate(i) \/ RunResume(i) \/ RunQualify(i) \/ RunCheckMain(i)
  \/ RunRevalidate(i) \/ RunTag(i) \/ RunRelease(i) \/ RunFinish(i)

Next ==
  \/ \E l \in Lines, v \in Versions :
       \/ Prepare(l, v) \/ PrepareFails(l, v) \/ HandcraftNotes(l, v)
       \/ MergeNotes(l, v) \/ TouchOldNotes(l, v) \/ CloseIssue(l, v) \/ SyncStart(l, v)
  \/ \E l \in Lines : Commit(l) \/ \E c \in 1..branch[l].head : DispatchByHand(l, c)
  \/ MoveMain
  \/ \E i \in DOMAIN runs :
       RunStep(i) \/ Approve(i) \/ RunFails(i) \/ RunCancelled(i)
         \/ \E all \in BOOLEAN : Rerun(i, all)
  \/ SyncStep \/ SyncFails

Spec == Init /\ [][Next]_vars

(* The hourly watcher keeps polling every open issue, the runs of a line go
   on, and the reviewers answer a prompt.                                   *)
LineProgress(l) ==
  \E i \in DOMAIN runs :
    runs[i].line = l /\ (RunStep(i) \/ Approve(i) \/ RunCancelled(i))

FairSpec ==
  /\ Spec
  /\ \A l \in Lines, v \in Versions : SF_vars(SyncStart(l, v))
  /\ WF_vars(SyncStep)
  /\ \A l \in Lines : WF_vars(LineProgress(l))

-----------------------------------------------------------------------------
(* Properties *)

(* "Publication must not trust that the merged PR came from Prepare": a tag
   is only ever created for the version that the line's tags derive at that
   moment, although the run derived it earlier (plan_publication and
   _ensure_tag are calls apart) and notes PRs are opened for any version.   *)
TagInSequence ==
  [][\A l \in Lines, v \in Versions :
       tags[l][v] = None /\ tags'[l][v] # None => Derives(l, v)]_vars

(* Whatever reruns, failures and moving branches do in between, a tag is on
   the merge commit of a notes PR for that very version, a human approved
   exactly that commit, and what is released is, in every field the digest
   covers, a plan a human approved.                                         *)
PublishedAsApproved ==
  /\ \A l \in Lines, v \in Versions :
       v \notin OldTags[l] /\ tags[l][v] # None =>
         /\ [sha |-> tags[l][v], version |-> v] \in branch[l].merges
         /\ \E p \in approved : p.line = l /\ p.version = v /\ p.sha = tags[l][v]
  /\ \A r \in releases \ OldReleases : r \in approved /\ tags[r.line][r.version] = r.sha

(* "... which keeps exactly one live approval prompt" (_sync_one): reviewers
   of one line are never asked to approve two runs at a time, whatever
   watcher and maintainers dispatch, cancel and rerun.                      *)
OneLivePrompt ==
  \A i, j \in DOMAIN runs :
    runs[i].phase = "waiting" /\ runs[j].phase = "waiting" /\ runs[i].line = runs[j].line
      => i = j

(* The invariant that the proofs of the three properties above rest on.  A
   run's plan is for its own candidate, which is the merge commit of that
   version's notes PR; from its approval on the plan is approved; and what
   publish_release checked just before it creates the tag still holds when
   it does.                                                                 *)
Planned == {"qualifying", "waiting", "approved", "current", "bound", "tagged", "shipped"}
Approved == {"approved", "current", "bound", "tagged", "shipped"}

RunOK(r) ==
  LET p == r.plan IN
  /\ p # None => /\ p.line = r.line /\ p.sha = r.cand
                 /\ [sha |-> p.sha, version |-> p.version] \in branch[p.line].merges
  /\ r.phase \in Planned => p # None
  /\ r.phase \in Approved => p \in approved
  /\ r.phase = "bound" =>
       \/ tags[p.line][p.version] = p.sha
       \/ tags[p.line][p.version] = None /\ Derives(p.line, p.version)
  /\ r.phase = "tagged" => tags[p.line][p.version] = p.sha

OneRunPerLine ==
  \A i, j \in DOMAIN runs :
    InProgress(i) /\ InProgress(j) /\ runs[i].line = runs[j].line => i = j

Inductive ==
  /\ TypeOK
  /\ \A i \in DOMAIN runs : RunOK(runs[i])
  /\ OneRunPerLine
  /\ PublishedAsApproved

(* A candidate that stays publishable while its tracker issue is open.      *)
Ready(l, v) ==
  /\ issue[l][v] = "open"
  /\ notes[l][v].shown = branch[l].head
  /\ Released(l, v) \/ Plannable(l, branch[l].head, v)

(* A run of the candidate failed at the controller's current commit: the
   watcher leaves it to a maintainer.                                       *)
NeedsRerun(l, v) ==
  \E i \in DOMAIN runs :
    /\ runs[i].line = l /\ runs[i].cand = notes[l][v].shown /\ runs[i].main = main
    /\ runs[i].phase = "done" /\ ~runs[i].ok

(* A merged candidate that stays at the head of its line is released without
   anyone starting a run, even if the controller's main moves under a run or
   a run dies between tag and release, unless its run fails for good.       *)
CandidateShips ==
  \A l \in Lines, v \in Versions :
    <>[]Ready(l, v) => <>(Released(l, v) \/ NeedsRerun(l, v))
=============================================================================
