--------------------------- MODULE FailureIssues ---------------------------
(***************************************************************************)
(* Recording the failures of a scheduled run as issues: the Test Failure   *)
(* Detector (scripts/test_failure_detector) and the fuzzer monitor         *)
(* (scripts/fuzzer), over the create-or-update publisher they share        *)
(* (scripts/common/issue_dedup.py).                                        *)
(*                                                                         *)
(* A failure is its fingerprint.  An issue is found by the marker in its   *)
(* body, else, for a test, by its title, in lists that the monitor reads   *)
(* when it first needs them and keeps; people close, reopen and edit       *)
(* issues meanwhile.  Each monitor runs one at a time (concurrency group). *)
(* It takes the newest run that is complete: while a run is being run      *)
(* again that is an older one, and a person may name one by hand.          *)
(***************************************************************************)
EXTENDS Naturals, Sequences, FiniteSets, FiniteSetsExt

CONSTANTS
  Findings,     \* fingerprints of failures, in the order they are worked off
  Tests,        \* those of tests, which have a title to fall back on
  MaxDaily,     \* bound: scheduled runs
  MaxChanges,   \* bound: what people do to issues and to runs
  MaxErrors     \* bound: failed calls, lost responses and crashes

ASSUME FindingsAssumption ==
  IsFiniteSet(Findings) /\ Findings \subseteq Nat \ {0} /\ Tests \subseteq Findings
ASSUME IssueBounds == MaxDaily \in Nat \ {0} /\ {MaxChanges, MaxErrors} \subseteq Nat

VARIABLES
  daily,      \* the scheduled runs: what failed in each
  filed,      \* the issues
  monitor,    \* the monitor at work
  seen,       \* history: the run each failure was last read in, and how often that changed
  lookback,   \* whether recently closed issues count (the detector's, not the fuzzer's)
  costs       \* how much of each bound is used

failVars == <<daily, filed, monitor, seen, lookback, costs>>

FailingRuns == [failed : SUBSET Findings, status : {"completed", "cancelled", "running"}]
FiledIssues ==
  [finding : Findings, marked : BOOLEAN, state : {"open", "recent", "closed"},
   count : Nat \ {0}, key : 0..MaxDaily, strips : Nat]

Lists(n) == [read : BOOLEAN, issues : SUBSET (1..n), marked : SUBSET (1..n)]
NotListed == [read |-> FALSE, issues |-> {}, marked |-> {}]

NoMonitor ==
  [phase |-> "idle", run |-> 0, due |-> {}, todo |-> {}, open |-> NotListed,
   recent |-> NotListed, skipped |-> {}, errors |-> FALSE]

Monitors(n) ==
  [phase : {"idle", "work", "comment", "exit"}, run : 0..MaxDaily, due : SUBSET Findings,
   todo : SUBSET Findings, open : Lists(n), recent : Lists(n), skipped : SUBSET Findings,
   errors : BOOLEAN]

FailTypeOK ==
  /\ daily \in Seq(FailingRuns)
  /\ filed \in Seq(FiledIssues)
  /\ monitor \in Monitors(Len(filed))
  /\ seen \in [Findings -> [run : 0..MaxDaily, times : Nat]]
  /\ lookback \in BOOLEAN
  /\ costs \in [changes : 0..MaxChanges, errors : 0..MaxErrors]

FailStart(b) ==
  /\ daily = <<>> /\ filed = <<>> /\ monitor = NoMonitor /\ lookback = b
  /\ seen = [f \in Findings |-> [run |-> 0, times |-> 0]]
  /\ costs = [changes |-> 0, errors |-> 0]

FailInit == \E b \in BOOLEAN : FailStart(b)

Change == costs.changes < MaxChanges /\ costs' = [costs EXCEPT !.changes = @ + 1]
Error == costs.errors < MaxErrors /\ costs' = [costs EXCEPT !.errors = @ + 1]

----------------------------------------------------------------------------
(* The scheduled runs, and people.                                         *)

(* How a run ends; the fuzzer's has one fingerprint, also when it cannot be
   analysed.                                                               *)
EndsAs(run) == run.status # "running" /\ (~lookback => Cardinality(run.failed) <= 1)

DailyRuns ==
  /\ Len(daily) < MaxDaily
  /\ \E run \in FailingRuns : EndsAs(run) /\ daily' = Append(daily, run)
  /\ UNCHANGED <<filed, monitor, seen, lookback, costs>>

Running == [failed |-> {}, status |-> "running"]

(* Somebody runs it again: it keeps its id, and is not complete meanwhile. *)
RunAgain(n) ==
  /\ daily[n].status # "running" /\ Change
  /\ daily' = [daily EXCEPT ![n] = Running]
  /\ UNCHANGED <<filed, monitor, seen, lookback>>

RunEndsAgain(n) ==
  /\ daily[n].status = "running"
  /\ \E run \in FailingRuns : EndsAs(run) /\ daily' = [daily EXCEPT ![n] = run]
  /\ UNCHANGED <<filed, monitor, seen, lookback, costs>>

(* An editor that strips comments takes the marker, the run and the count;
   the count then goes on from one.                                        *)
Stripped(issue) == [issue EXCEPT !.marked = FALSE, !.key = 0, !.count = 1, !.strips = @ + 1]

PersonEdits(i) ==
  /\ Change
  /\ \/ filed[i].state = "open" /\ filed' = [filed EXCEPT ![i].state = "recent"]
     \/ filed[i].state # "open" /\ filed' = [filed EXCEPT ![i].state = "open"]
     \/ filed[i].state = "recent" /\ filed' = [filed EXCEPT ![i].state = "closed"]
     \/ filed' = [filed EXCEPT ![i] = Stripped(@)]
  /\ UNCHANGED <<daily, monitor, seen, lookback>>

----------------------------------------------------------------------------
(* The monitor: one run, read as far as it can be.                         *)

(* The fuzzer monitor also takes a run that was cancelled.                 *)
Complete(n) == daily[n].status \in (IF lookback THEN {"completed"} ELSE {"completed", "cancelled"})
NewestRun(n) == Complete(n) /\ \A m \in DOMAIN daily : Complete(m) => m <= n

(* The run that a failure was last read in.                                *)
ReadIn(n, read) ==
  seen' = [f \in Findings |->
             IF f \in read /\ seen[f].run # n
             THEN [run |-> n, times |-> seen[f].times + 1] ELSE seen[f]]

(* The newest, or one named by hand to the detector.                       *)
ChoosesRun(n) ==
  /\ monitor.phase = "idle"
  /\ \/ NewestRun(n) /\ UNCHANGED costs
     \/ lookback /\ daily[n].status # "running" /\ Change

(* told: what an artifact or a log tells of, which need not be all (the
   detector passes over a malformed suite and a job that printed no cause,
   the fuzzer monitor over a member it cannot unpack); unread: of that,
   what the detector knows that it could not read.                         *)
Reads(n, told, unread, errors) ==
  /\ ChoosesRun(n) /\ ReadIn(n, told \ unread)
  /\ lookback \/ unread = {}
  /\ monitor' = [NoMonitor EXCEPT !.phase = "work", !.run = n, !.due = told,
                   !.todo = told \ unread, !.errors = errors]
  /\ UNCHANGED <<daily, filed, lookback>>

(* Mutant: what could not be read does not make the run incomplete.        *)
ReadsWhatItCan(n) ==
  \E told \in SUBSET daily[n].failed : \E unread \in SUBSET told : Reads(n, told, unread, FALSE)

MonitorReads(n) ==
  \E told \in SUBSET daily[n].failed : \E unread \in SUBSET told :
    Reads(n, told, unread, unread # {})

Finding == Min(monitor.todo)
OnFinding == monitor.phase = "work" /\ monitor.todo # {}
Worked == [monitor EXCEPT !.phase = "work", !.todo = @ \ {Finding}]
Errs == [Worked EXCEPT !.errors = TRUE]

(* A call before the first write fails: that finding's, and the next one
   lists again what could not be listed.                                   *)
UpsertFails ==
  /\ OnFinding /\ Error /\ monitor' = Errs
  /\ UNCHANGED <<daily, filed, seen, lookback>>

(* The open issues, and the recently closed ones when an upsert first
   misses: two lists, each kept from when it was read.                     *)
ListOf(state) ==
  LET issues == {i \in DOMAIN filed : filed[i].state = state}
  IN [read |-> TRUE, issues |-> issues, marked |-> {i \in issues : filed[i].marked}]

Matching(list) ==
  LET marked == {i \in list.marked : filed[i].finding = Finding}
      titled == {i \in list.issues : lookback /\ Finding \in Tests /\ filed[i].finding = Finding}
  IN IF marked # {} THEN marked ELSE titled

Found(i) == OnFinding /\ monitor.open.read /\ i \in Matching(monitor.open)
Missed == OnFinding /\ monitor.open.read /\ Matching(monitor.open) = {}

ListOpen ==
  /\ OnFinding /\ ~monitor.open.read
  /\ monitor' = [monitor EXCEPT !.open = ListOf("open")]
  /\ UNCHANGED <<daily, filed, seen, lookback, costs>>

ListClosed ==
  /\ Missed /\ lookback /\ ~monitor.recent.read
  /\ monitor' = [monitor EXCEPT !.recent = ListOf("recent")]
  /\ UNCHANGED <<daily, filed, seen, lookback, costs>>

SkipClosed ==
  /\ Missed /\ monitor.recent.read /\ Matching(monitor.recent) # {}
  /\ monitor' = [Worked EXCEPT !.skipped = @ \union {Finding}]
  /\ UNCHANGED <<daily, filed, seen, lookback, costs>>

NewIssue ==
  [finding |-> Finding, marked |-> TRUE, state |-> "open", count |-> 1,
   key |-> monitor.run, strips |-> 0]

ToCreate == Missed /\ (lookback => monitor.recent.read /\ Matching(monitor.recent) = {})

(* The issue that was created joins the list.                              *)
Listing(n) == [Worked EXCEPT !.open.issues = @ \union {n}, !.open.marked = @ \union {n}]

(* Mutant: a new issue does not record the run.                            *)
CreateUnkeyed ==
  /\ ToCreate
  /\ filed' = Append(filed, [NewIssue EXCEPT !.key = 0])
  /\ monitor' = Listing(Len(filed'))
  /\ UNCHANGED <<daily, seen, lookback, costs>>

(* A creation whose response is lost is sent again, or fails.              *)
Create ==
  /\ ToCreate
  /\ \/ /\ filed' = Append(filed, NewIssue)
        /\ monitor' = Listing(Len(filed')) /\ UNCHANGED costs
     \/ /\ Error /\ filed' = Append(filed, NewIssue)
        /\ monitor' = Errs
     \/ /\ Error /\ filed' = filed \o <<NewIssue, NewIssue>>
        /\ monitor' = Listing(Len(filed'))
  /\ UNCHANGED <<daily, seen, lookback>>

(* Found on the list, read again, and already carrying this run's key.     *)
SkipSeen(i) ==
  /\ Found(i) /\ filed[i].key = monitor.run
  /\ monitor' = Worked
  /\ UNCHANGED <<daily, filed, seen, lookback, costs>>

(* Body and title, with the marker put back, the count and the run; the
   comment is a second call.                                               *)
Bump(i) ==
  /\ Found(i) /\ filed[i].key # monitor.run
  /\ filed' = [filed EXCEPT ![i].marked = TRUE, ![i].count = @ + 1, ![i].key = monitor.run]
  /\ \/ monitor' = [monitor EXCEPT !.phase = "comment"] /\ UNCHANGED costs
     \/ Error /\ monitor' = Errs
  /\ UNCHANGED <<daily, seen, lookback>>

Recur ==
  /\ monitor.phase = "comment"
  /\ \/ monitor' = Worked /\ UNCHANGED costs
     \/ Error /\ monitor' = Errs
  /\ UNCHANGED <<daily, filed, seen, lookback>>

(* The exit code: zero only if all that is due was read and worked off.    *)
MonitorEnds ==
  /\ monitor.phase = "work" /\ monitor.todo = {}
  /\ monitor' = [monitor EXCEPT !.phase = "exit", !.open = NotListed, !.recent = NotListed]
  /\ UNCHANGED <<daily, filed, seen, lookback, costs>>

(* The next run of the monitor, whenever that is; or this one dies.        *)
MonitorLeaves ==
  /\ \/ monitor.phase = "exit" /\ UNCHANGED costs
     \/ monitor.phase \in {"work", "comment"} /\ Error
  /\ monitor' = NoMonitor
  /\ UNCHANGED <<daily, filed, seen, lookback>>

FailNext ==
  \/ \E n \in DOMAIN daily : RunAgain(n) \/ RunEndsAgain(n) \/ MonitorReads(n)
  \/ DailyRuns \/ UpsertFails \/ ListOpen \/ ListClosed \/ SkipClosed \/ Create \/ Recur
  \/ \E i \in DOMAIN filed : SkipSeen(i) \/ Bump(i) \/ PersonEdits(i)
  \/ MonitorEnds \/ MonitorLeaves

FailSpec == FailInit /\ [][FailNext]_failVars

----------------------------------------------------------------------------
(* A monitor that exits cleanly has recorded every failure that its run
   tells of, the unreadable ones too, in an issue that names the run unless
   people took the name out, or has seen that the failure's issue was just
   closed: "a GitHub outage that skips issue updates doesn't leave CI
   green" (test_failure_detector/main.py).  What neither the artifact nor a
   log tells of is not covered: the code passes over it and exits zero.    *)
CleanExitRecorded ==
  (monitor.phase = "exit" /\ ~monitor.errors) =>
    \A f \in monitor.due \ monitor.skipped :
      \E i \in DOMAIN filed :
        filed[i].finding = f /\ (filed[i].key = monitor.run \/ filed[i].strips > 0)

(* However often the monitor is run, dies and is run again on a run, an
   issue counts it once: the count exceeds the times that its failure was
   read in another run than before only by the times that people took the
   run out of the issue (issue_dedup.upsert, idempotency_key).  A run that
   the monitor leaves and comes back to is another one than before, so the
   code counts it again.                                                   *)
CountedOnce ==
  \A i \in DOMAIN filed : filed[i].count <= seen[filed[i].finding].times + filed[i].strips
=============================================================================
