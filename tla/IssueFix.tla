------------------------------ MODULE IssueFix ------------------------------
(***************************************************************************)
(* Fixing the failures that Test Failure Detector issues record            *)
(* (scripts/ci_fix/issue_dispatch.py, issues.py, run.py, publish.py): an   *)
(* hourly dispatcher starts runs, a run plans, prepares and publishes a    *)
(* fix, as a patch on the issue or as a draft PR, and comments the result. *)
(*                                                                         *)
(* An issue names its last occurrence (the failed run).  What the bot has  *)
(* done is nowhere but on GitHub: the comments, the branches and PRs, and  *)
(* the failed runs by name.  Runs of one issue are serialised by the       *)
(* workflow's concurrency group; the dispatcher runs one tick at a time.   *)
(* Any write may take effect and lose its response.                        *)
(***************************************************************************)
EXTENDS Naturals, Sequences, FiniteSets, FiniteSetsExt

CONSTANTS
  Issues,       \* issue numbers, the newer the higher
  MaxOcc,       \* bound: occurrences of a failure
  MaxActive,    \* --max-runs
  MaxTries,     \* MAX_FAILED_ATTEMPTS
  MaxTouches,   \* bound: what people and the detector do to the issues
  MaxFaults     \* bound: crashes, failed calls and lost responses

ASSUME IssuesAssumption == IsFiniteSet(Issues) /\ Issues \subseteq Nat \ {0}
ASSUME IssueBoundsAssumption ==
  {MaxOcc, MaxActive, MaxTries} \subseteq Nat \ {0} /\ {MaxTouches, MaxFaults} \subseteq Nat

VARIABLES
  mode,      \* CI_FIX_ISSUES_PUBLISH
  issues,    \* the detector's issues
  reports,   \* per issue and occurrence: the outcomes commented
  branches,  \* per issue and occurrence: the fix branch exists
  drafts,    \* per issue and occurrence: its draft PR
  fixRuns,   \* the workflow's runs, oldest first
  tick,      \* the dispatcher at work
  spent      \* how much of each bound is used

issueVars == <<mode, issues, reports, branches, drafts, fixRuns, tick, spent>>
published == <<branches, drafts>>

Occs == 1..MaxOcc
Outcomes == {"refused", "suggested", "opened"}
Phases == {"queued", "plan", "occurrence", "fix", "publish", "post", "push", "pushed",
           "open", "report", "done"}

(* named: the occurrence in the run's name; occ: the one it planned; said:
   its comment is on the issue.                                            *)
IssueRuns == [issue : Issues, named : Occs, occ : Occs, phase : Phases,
              outcome : Outcomes \union {"none", "failed", "patch"},
              said : BOOLEAN]

IdleTick == [listed |-> {}, active |-> {}, slots |-> 0]

IssueTypeOK ==
  /\ mode \in {"comment", "draft-pr"}
  /\ issues \in [Issues -> [open : BOOLEAN, assigned : BOOLEAN, occ : Occs]]
  /\ reports \in [Issues -> [Occs -> SUBSET Outcomes]]
  /\ branches \in [Issues -> [Occs -> BOOLEAN]]
  /\ drafts \in [Issues -> [Occs -> {"none", "open", "closed"}]]
  /\ fixRuns \in Seq(IssueRuns)
  /\ tick \in [listed : SUBSET [issue : Issues, occ : Occs], active : SUBSET Issues,
               slots : 0..MaxActive]
  /\ spent \in [touches : 0..MaxTouches, faults : 0..MaxFaults]

IssueStart(m) ==
  /\ mode = m
  /\ issues = [i \in Issues |-> [open |-> TRUE, assigned |-> FALSE, occ |-> 1]]
  /\ reports = [i \in Issues |-> [o \in Occs |-> {}]]
  /\ branches = [i \in Issues |-> [o \in Occs |-> FALSE]]
  /\ drafts = [i \in Issues |-> [o \in Occs |-> "none"]]
  /\ fixRuns = <<>> /\ tick = IdleTick
  /\ spent = [touches |-> 0, faults |-> 0]

IssueInit == \E m \in {"comment", "draft-pr"} : IssueStart(m)

Fault == spent.faults < MaxFaults /\ spent' = [spent EXCEPT !.faults = @ + 1]

----------------------------------------------------------------------------
(* What GitHub shows.                                                      *)

(* Mutant: only this occurrence's own PR is looked for.                    *)
LinkedNow(i) == drafts[i][issues[i].occ] = "open"

Linked(i) == \E o \in Occs : drafts[i][o] = "open"
Free(i) == issues[i].open /\ ~issues[i].assigned
Wanted(i, o) == Free(i) /\ issues[i].occ = o /\ ~Linked(i)

Active == {r \in DOMAIN fixRuns : fixRuns[r].phase # "done"}
FailedRuns(i, o) ==
  Cardinality({r \in DOMAIN fixRuns :
    /\ fixRuns[r].issue = i /\ fixRuns[r].named = o
    /\ fixRuns[r].phase = "done" /\ fixRuns[r].outcome = "failed"})

----------------------------------------------------------------------------
(* People and the detector.                                                *)

Touch == spent.touches < MaxTouches /\ spent' = [spent EXCEPT !.touches = @ + 1]

PersonActs(i) ==
  /\ Touch
  /\ \/ issues' = [issues EXCEPT ![i].assigned = ~@] /\ UNCHANGED drafts
     \/ issues' = [issues EXCEPT ![i].open = FALSE] /\ UNCHANGED drafts
     \/ \E o \in Occs : /\ drafts[i][o] = "open"
                        /\ drafts' = [drafts EXCEPT ![i][o] = "closed"]
                        /\ UNCHANGED issues
  /\ UNCHANGED <<mode, reports, branches, fixRuns, tick>>

FailsAgain(i) ==
  /\ Touch
  /\ issues[i].occ < MaxOcc
  /\ issues' = [issues EXCEPT ![i].occ = @ + 1, ![i].open = TRUE]
  /\ UNCHANGED <<mode, reports, published, fixRuns, tick>>

----------------------------------------------------------------------------
(* The dispatcher.                                                         *)

TickStarts ==
  /\ tick = IdleTick
  /\ Cardinality(Active) < MaxActive
  /\ \E i \in Issues : Free(i)
  /\ tick' = [listed |-> {[issue |-> i, occ |-> issues[i].occ] : i \in {j \in Issues : Free(j)}},
              active |-> {fixRuns[r].issue : r \in Active},
              slots |-> MaxActive - Cardinality(Active)]
  /\ UNCHANGED <<mode, issues, reports, published, fixRuns, spent>>

NewRun(l) == [issue |-> l.issue, named |-> l.occ, occ |-> l.occ, phase |-> "queued",
              outcome |-> "none", said |-> FALSE]

(* Mutant: an issue that has had a run gets no other.                      *)
SkippedOnceRun(l) == \E r \in DOMAIN fixRuns : fixRuns[r].issue = l.issue

(* Comments and links are read now; state, assignee and occurrence are as
   listed when the tick started.                                           *)
Skipped(l) ==
  \/ l.issue \in tick.active
  \/ Linked(l.issue)
  \/ reports[l.issue][l.occ] # {}
  \/ FailedRuns(l.issue, l.occ) >= MaxTries

Newest(l) == l \in tick.listed /\ \A k \in tick.listed : k.issue <= l.issue
Looked(l, slots) ==
  IF slots = 0 \/ tick.listed = {l} THEN IdleTick
  ELSE [tick EXCEPT !.listed = @ \ {l}, !.slots = slots]

TickSkips(l) ==
  /\ Newest(l) /\ Skipped(l)
  /\ tick' = Looked(l, tick.slots)
  /\ UNCHANGED <<mode, issues, reports, published, fixRuns, spent>>

(* A dispatch whose response was lost is sent again, or fails the tick.    *)
TickDispatches(l) ==
  /\ Newest(l) /\ ~Skipped(l)
  /\ \/ /\ fixRuns' = Append(fixRuns, NewRun(l))
        /\ tick' = Looked(l, tick.slots - 1) /\ UNCHANGED spent
     \/ /\ Fault
        /\ fixRuns' = fixRuns \o <<NewRun(l), NewRun(l)>>
        /\ tick' = Looked(l, tick.slots - 1)
     \/ /\ Fault
        /\ fixRuns' \in {fixRuns, Append(fixRuns, NewRun(l))}
        /\ tick' = IdleTick
  /\ UNCHANGED <<mode, issues, reports, published>>

----------------------------------------------------------------------------
(* A run: planning.                                                        *)

Step(r, phase) == fixRuns' = [fixRuns EXCEPT ![r].phase = phase]
Result(r, phase, outcome) ==
  fixRuns' = [fixRuns EXCEPT ![r].phase = phase, ![r].outcome = outcome]
Skip(r) == Result(r, "done", "none")
Fail(r) == Result(r, "done", "failed")

Others == <<mode, issues, tick>>

IssueRunStarts(r) ==
  /\ fixRuns[r].phase = "queued"
  /\ \A s \in Active : fixRuns[s].issue = fixRuns[r].issue /\ s # r
                       => fixRuns[s].phase = "queued" /\ s > r
  /\ Step(r, "plan")
  /\ UNCHANGED <<Others, reports, published, spent>>

Reported(i, o) == reports[i][o] # {}

(* Mutant: the comments are not read again once dispatched.                *)
ValidateOnly(r) ==
  LET i == fixRuns[r].issue  o == issues[fixRuns[r].issue].occ IN
  /\ fixRuns[r].phase = "plan"
  /\ IF ~Free(i) THEN Skip(r)
     ELSE fixRuns' = [fixRuns EXCEPT ![r].phase = "occurrence", ![r].occ = o]
  /\ UNCHANGED <<Others, reports, published, spent>>

(* It plans the occurrence the issue names now, whatever it was dispatched
   for.                                                                    *)
Validate(r) ==
  LET i == fixRuns[r].issue  o == issues[fixRuns[r].issue].occ IN
  /\ fixRuns[r].phase = "plan"
  /\ IF ~Free(i) \/ Reported(i, o) THEN Skip(r)
     ELSE fixRuns' = [fixRuns EXCEPT ![r].phase = "occurrence", ![r].occ = o]
  /\ UNCHANGED <<Others, reports, published, spent>>

(* An earlier attempt's PR or branch is completed, whatever the issue's
   state; without one, a linked PR, another run or branch, or expired logs
   end the run.                                                            *)
Reconciled(r, else) ==
  LET i == fixRuns[r].issue  o == fixRuns[r].occ IN
  \/ drafts[i][o] = "open" /\ Result(r, "report", "opened")
  \/ /\ drafts[i][o] # "open" /\ branches[i][o]
     /\ IF Wanted(i, o) THEN Step(r, "open") ELSE Result(r, "report", "refused")
  \/ drafts[i][o] # "open" /\ ~branches[i][o] /\ else

PlanOccurrence(r) ==
  /\ fixRuns[r].phase = "occurrence"
  /\ Reconciled(r, IF Linked(fixRuns[r].issue) THEN Skip(r)
                   ELSE Step(r, "fix") \/ Result(r, "report", "refused"))
  /\ UNCHANGED <<Others, reports, published, spent>>

PlanFails(r) ==
  /\ fixRuns[r].phase \in {"plan", "occurrence"}
  /\ Fault /\ Fail(r)
  /\ UNCHANGED <<Others, reports, published>>

----------------------------------------------------------------------------
(* A run: the fix and its publication.                                     *)

(* FixLoop: a candidate, a refusal, or a failed attempt.                   *)
Prepare(r) ==
  /\ fixRuns[r].phase = "fix"
  /\ \E outcome \in {"patch", "refused", "failed"} :
       /\ IF outcome = "failed" THEN Fault ELSE UNCHANGED spent
       /\ fixRuns' = [fixRuns EXCEPT ![r].outcome = outcome,
                        ![r].phase = IF outcome = "failed" THEN "done" ELSE "publish"]
  /\ UNCHANGED <<Others, reports, published>>

PublishStarts(r) ==
  /\ fixRuns[r].phase = "publish"
  /\ Step(r, IF fixRuns[r].outcome = "refused" THEN "report"
             ELSE IF mode = "comment" THEN "post" ELSE "push")
  /\ UNCHANGED <<Others, reports, published, spent>>

PostPatch(r) ==
  /\ fixRuns[r].phase = "post"
  /\ Result(r, "report", IF Wanted(fixRuns[r].issue, fixRuns[r].occ) THEN "suggested"
                         ELSE "refused")
  /\ UNCHANGED <<Others, reports, published, spent>>

(* Reconcile, look at the issue again, and create the branch; the push is
   refused if the branch has appeared.                                     *)
PushFix(r) ==
  LET i == fixRuns[r].issue  o == fixRuns[r].occ IN
  /\ fixRuns[r].phase = "push"
  /\ \/ Reconciled(r, ~Wanted(i, o) /\ Result(r, "report", "refused"))
        /\ UNCHANGED <<branches, spent>>
     \/ /\ ~branches[i][o] /\ drafts[i][o] # "open" /\ Wanted(i, o)
        /\ branches' = [branches EXCEPT ![i][o] = TRUE]
        /\ \/ Step(r, "pushed") /\ UNCHANGED spent
           \/ Fault /\ Fail(r)
  /\ UNCHANGED <<Others, reports, drafts>>

(* The issue is looked at once more before the PR is opened for the branch,
   which stays where it is refused.                                        *)
LookAgain(r) ==
  /\ fixRuns[r].phase = "pushed"
  /\ Reconciled(r, FALSE)
  /\ UNCHANGED <<Others, reports, published, spent>>

(* The PR may exist although its creation failed: one more look finds it.  *)
OpenDraft(r) ==
  LET i == fixRuns[r].issue  o == fixRuns[r].occ IN
  /\ fixRuns[r].phase = "open"
  /\ \/ /\ drafts' = [drafts EXCEPT ![i][o] = "open"]
        /\ Result(r, "report", "opened") /\ UNCHANGED spent
     \/ Fault /\ Fail(r) /\ UNCHANGED drafts
  /\ UNCHANGED <<Others, reports, branches>>

PublishFails(r) ==
  /\ fixRuns[r].phase \in {"publish", "post", "push", "pushed"}
  /\ Fault /\ Fail(r)
  /\ UNCHANGED <<Others, reports, published>>

(* The comment is the only record of a result that is not a failure.  It
   may be posted although the call fails, and the run with it; sent again
   after a lost response it says the same twice, which is one report.      *)
Report(r) ==
  LET i == fixRuns[r].issue  o == fixRuns[r].occ
      posted == [reports EXCEPT ![i][o] = @ \union {fixRuns[r].outcome}] IN
  /\ fixRuns[r].phase = "report"
  /\ \/ /\ reports' = posted /\ UNCHANGED spent
        /\ fixRuns' = [fixRuns EXCEPT ![r].phase = "done", ![r].said = TRUE]
     \/ /\ Fault /\ reports' = posted
        /\ fixRuns' = [fixRuns EXCEPT ![r].phase = "done", ![r].outcome = "failed",
                                      ![r].said = TRUE]
     \/ Fault /\ Fail(r) /\ UNCHANGED reports
  /\ UNCHANGED <<Others, published>>

----------------------------------------------------------------------------
Planning(r) == IssueRunStarts(r) \/ Validate(r) \/ PlanOccurrence(r)
Publishing(r) ==
  \/ PublishStarts(r) \/ PostPatch(r) \/ PushFix(r) \/ LookAgain(r) \/ OpenDraft(r)
  \/ Report(r)
RunSteps(r) == Planning(r) \/ Prepare(r) \/ Publishing(r)
Dispatching == TickStarts \/ \E l \in tick.listed : TickSkips(l) \/ TickDispatches(l)

IssueNext ==
  \/ \E i \in Issues : PersonActs(i) \/ FailsAgain(i)
  \/ Dispatching
  \/ \E r \in DOMAIN fixRuns : RunSteps(r) \/ PlanFails(r) \/ PublishFails(r)

(* The schedule keeps starting ticks, a tick and a run go on until they
   end.  Nobody has to touch an issue.                                     *)
IssueFairness ==
  /\ WF_issueVars(Dispatching)
  /\ WF_issueVars(\E r \in DOMAIN fixRuns : RunSteps(r))

IssueSpec == IssueInit /\ [][IssueNext]_issueVars /\ IssueFairness

----------------------------------------------------------------------------
(* However often a dispatch is sent and whichever response is lost, no two
   runs comment on one occurrence: "a dispatch that is retried can never
   post a second patch" (docs/ci-fix.md; issues.prepare_issue).  It speaks
   of runs: one run that sends its comment again can post it twice.        *)
OneReport ==
  \A r, s \in DOMAIN fixRuns :
    (r # s /\ fixRuns[r].said /\ fixRuns[s].said /\ fixRuns[r].issue = fixRuns[s].issue)
      => fixRuns[r].occ # fixRuns[s].occ

(* An issue never has two draft PRs of the bot open, although each
   occurrence has a branch and a PR of its own, and a run may complete an
   earlier attempt's branch (publish.reconcile_draft_pr).                  *)
OneDraftPerIssue ==
  \A i \in Issues : Cardinality({o \in Occs : drafts[i][o] = "open"}) <= 1

(* An issue that stays open, unassigned and without a PR is settled: the
   bot answers its last occurrence, or gives it up after enough failures.  *)
Settled(i) ==
  LET o == issues[i].occ IN Reported(i, o) \/ FailedRuns(i, o) >= MaxTries
IssueSettles ==
  \A i \in Issues : <>[](Free(i) /\ ~Linked(i)) => <>[]Settled(i)
=============================================================================
