------------------------ MODULE FailureIssuesProofs ------------------------
(***************************************************************************)
(* Proofs about FailureIssues, for every set of findings and every bound   *)
(* on runs, changes and errors.                                            *)
(***************************************************************************)
EXTENDS FailureIssues, SequenceTheorems, WellFoundedInduction, TLAPS

-----------------------------------------------------------------------------
LEMMA LeastNumber ==
  ASSUME NEW S, S \subseteq Nat, S # {}
  PROVE  Min(S) \in S
<1>1. IsWellFoundedOn(OpToRel(<, Nat), Nat)
  BY NatLessThanWellFounded
<1>2. \E x \in S : \A y \in S : ~(<<y, x>> \in OpToRel(<, Nat))
  BY <1>1, WFMin
<1>3. PICK x \in S : \A y \in S : ~(<<y, x>> \in OpToRel(<, Nat))
  BY <1>2
<1>4. OpToRel(<, Nat) = {ss \in Nat \X Nat : ss[1] < ss[2]}
  BY Zenon DEF OpToRel
<1>5. \A y \in S : ~(<<y, x>> \in {ss \in Nat \X Nat : ss[1] < ss[2]})
  BY <1>3, <1>4, Zenon
<1>6. \A y \in S : x =< y
  <2> TAKE y \in S
  <2>1. x \in Nat /\ y \in Nat
    OBVIOUS
  <2>2. ~(y < x)
    BY <1>5, <2>1
  <2> QED
    BY <2>1, <2>2
<1> QED
  BY <1>6 DEF Min

-----------------------------------------------------------------------------
(* The invariant *)

(* An issue counts no more than its failure was seen, and one less while it
   does not name the run that the failure was last seen in: the next
   monitor on that run may still count it.                                 *)
IssueOK(x, s) ==
  /\ x.count <= s.times + x.strips
  /\ x.key # s.run => x.count + 1 <= s.times + x.strips
IssuesOK == \A i \in DOMAIN filed : IssueOK(filed[i], seen[filed[i].finding])

(* What is left to work off was seen in the monitor's run.                 *)
TodoSeen ==
  /\ \A f \in Findings : seen[f].run # 0 => seen[f].times > 0
  /\ \A f \in monitor.todo : seen[f].run = monitor.run
  /\ monitor.phase # "idle" => monitor.run # 0

(* An issue of the failure names the run, or people took the name out.     *)
Held(issueList, f, run) ==
  \E i \in DOMAIN issueList :
    issueList[i].finding = f /\ (issueList[i].key = run \/ issueList[i].strips > 0)

CommentOK ==
  monitor.phase = "comment" =>
    monitor.todo # {} /\ Held(filed, Finding, monitor.run)
Recorded ==
  /\ monitor.phase = "exit" => monitor.todo = {}
  /\ (monitor.phase # "idle" /\ ~monitor.errors) =>
       \A f \in monitor.due \ (monitor.todo \union monitor.skipped) : Held(filed, f, monitor.run)

BoundsOK == Len(daily) <= MaxDaily

FailInductive ==
  FailTypeOK /\ BoundsOK /\ IssuesOK /\ TodoSeen /\ CommentOK /\ Recorded

LEMMA FailInitInductive == FailInit => FailInductive
<1> SUFFICES ASSUME NEW b \in BOOLEAN, FailStart(b) PROVE FailInductive
  BY DEF FailInit
<1>1. Len(daily) = 0 /\ Len(filed) = 0 /\ DOMAIN filed = {}
  BY DEF FailStart
<1>2. NoMonitor \in Monitors(0)
  BY IssueBounds DEF NoMonitor, Monitors, Lists, NotListed
<1>3. FailTypeOK
  BY <1>1, <1>2, IssueBounds DEF FailStart, FailTypeOK
<1>4. BoundsOK /\ IssuesOK
  BY <1>1, IssueBounds DEF BoundsOK, IssuesOK
<1>5. TodoSeen /\ CommentOK /\ Recorded
  BY DEF FailStart, TodoSeen, CommentOK, Recorded, NoMonitor
<1> QED
  BY <1>3, <1>4, <1>5 DEF FailInductive

(* Facts about a state that the steps use.                                 *)
LEMMA StateFacts ==
  ASSUME FailInductive
  PROVE  /\ daily \in Seq(FailingRuns) /\ Len(daily) \in Nat /\ DOMAIN daily = 1..Len(daily)
         /\ \A n \in 1..Len(daily) : daily[n] \in FailingRuns
         /\ filed \in Seq(FiledIssues) /\ Len(filed) \in Nat /\ DOMAIN filed = 1..Len(filed)
         /\ \A i \in 1..Len(filed) : filed[i] \in FiledIssues
         /\ seen \in [Findings -> [run : 0..MaxDaily, times : Nat]]
         /\ MaxDaily \in Nat \ {0} /\ MaxErrors \in Nat /\ MaxChanges \in Nat
         /\ monitor \in Monitors(Len(filed)) /\ Len(daily) <= MaxDaily /\ lookback \in BOOLEAN
         /\ costs \in [changes : 0..MaxChanges, errors : 0..MaxErrors]
<1>1. daily \in Seq(FailingRuns) /\ filed \in Seq(FiledIssues) /\ monitor \in Monitors(Len(filed))
      /\ seen \in [Findings -> [run : 0..MaxDaily, times : Nat]]
      /\ Len(daily) <= MaxDaily /\ lookback \in BOOLEAN
      /\ costs \in [changes : 0..MaxChanges, errors : 0..MaxErrors]
  BY DEF FailInductive, FailTypeOK, BoundsOK
<1> QED
  BY <1>1, IssueBounds

LEMMA CostsAfter ==
  ASSUME FailInductive, Change \/ Error \/ UNCHANGED costs
  PROVE  costs' \in [changes : 0..MaxChanges, errors : 0..MaxErrors]
<1>1. costs \in [changes : 0..MaxChanges, errors : 0..MaxErrors] /\ MaxErrors \in Nat /\ MaxChanges \in Nat
  BY StateFacts
<1>2. CASE Change
  BY <1>1, <1>2 DEF Change
<1>3. CASE Error
  BY <1>1, <1>3 DEF Error
<1> QED
  BY <1>1, <1>2, <1>3

LEMMA FindingIsToDo ==
  ASSUME FailInductive, monitor.todo # {}
  PROVE  /\ Finding \in monitor.todo /\ Finding \in Findings
         /\ monitor.todo \ {Finding} \subseteq Findings
         /\ seen[Finding].run = monitor.run /\ monitor.run \in 0..MaxDaily
         /\ seen[Finding].times \in Nat
         /\ monitor.phase # "idle" => seen[Finding].times > 0
<1>1. monitor.todo \subseteq Findings /\ monitor.run \in 0..MaxDaily
  BY StateFacts DEF Monitors
<1> QED
  BY <1>1, LeastNumber, FindingsAssumption, StateFacts DEF Finding, FailInductive, TodoSeen

-----------------------------------------------------------------------------
(* The runs, and people *)

(* A step that leaves the monitor, the issues and what was seen alone.     *)
LEMMA RunsStep ==
  ASSUME FailInductive, UNCHANGED <<filed, monitor, seen, lookback>>,
         Change \/ Error \/ UNCHANGED costs, daily' \in Seq(FailingRuns), Len(daily') <= MaxDaily
  PROVE  FailInductive'
<1>1. costs' \in [changes : 0..MaxChanges, errors : 0..MaxErrors]
  BY CostsAfter
<1>2. FailTypeOK' /\ BoundsOK'
  BY <1>1 DEF FailInductive, FailTypeOK, BoundsOK
<1>3. IssuesOK' /\ TodoSeen' /\ CommentOK' /\ Recorded'
  BY DEF FailInductive, IssuesOK, TodoSeen, CommentOK, Recorded, Finding
<1> QED
  BY <1>2, <1>3 DEF FailInductive

LEMMA RunsInductive ==
  ASSUME FailInductive, DailyRuns \/ \E n \in DOMAIN daily : RunAgain(n) \/ RunEndsAgain(n)
  PROVE  FailInductive'
<1>1. daily \in Seq(FailingRuns) /\ Len(daily) \in Nat /\ Len(daily) <= MaxDaily /\ MaxDaily \in Nat
      /\ DOMAIN daily = 1..Len(daily)
  BY StateFacts
<1>2. CASE DailyRuns
  <2>1. PICK run \in FailingRuns : daily' = Append(daily, run)
    BY <1>2 DEF DailyRuns
  <2>2. Len(daily) < MaxDaily /\ UNCHANGED <<filed, monitor, seen, lookback, costs>>
    BY <1>2 DEF DailyRuns
  <2>3. daily' \in Seq(FailingRuns) /\ Len(daily') = Len(daily) + 1
    BY <1>1, <2>1
  <2> QED
    BY <1>1, <2>2, <2>3, RunsStep
<1>3. ASSUME NEW n \in DOMAIN daily, RunAgain(n) \/ RunEndsAgain(n) PROVE FailInductive'
  <2>1. Running \in FailingRuns
    BY DEF Running, FailingRuns
  <2>2. PICK run \in FailingRuns : daily' = [daily EXCEPT ![n] = run]
    BY <1>3, <2>1 DEF RunAgain, RunEndsAgain
  <2>3. daily' \in Seq(FailingRuns) /\ Len(daily') = Len(daily)
    BY <1>1, <2>2, ExceptSeq
  <2>4. UNCHANGED <<filed, monitor, seen, lookback>> /\ (Change \/ UNCHANGED costs)
    BY <1>3 DEF RunAgain, RunEndsAgain
  <2> QED
    BY <1>1, <2>3, <2>4, RunsStep
<1> QED
  BY <1>2, <1>3

LEMMA PersonEditsInductive ==
  ASSUME FailInductive, NEW i \in DOMAIN filed, PersonEdits(i)
  PROVE  FailInductive'
<1>1. i \in 1..Len(filed) /\ filed[i] \in FiledIssues /\ Change
      /\ UNCHANGED <<daily, monitor, seen, lookback>> /\ IssueOK(filed[i], seen[filed[i].finding])
  BY StateFacts DEF PersonEdits, FailInductive, IssuesOK
<1> DEFINE Same(y) == /\ y \in FiledIssues /\ y.finding = filed[i].finding
                      /\ y.strips > 0 \/ (y.key = filed[i].key /\ y.strips = filed[i].strips)
                      /\ IssueOK(y, seen[y.finding])
<1>2. \A state \in {"open", "recent", "closed"} : Same([filed[i] EXCEPT !.state = state])
  BY <1>1 DEF FiledIssues, IssueOK
<1>3. Same(Stripped(filed[i]))
  <2>0. PICK x \in FiledIssues : x = filed[i]
    BY <1>1
  <2>1. /\ Stripped(filed[i]) \in FiledIssues /\ Stripped(filed[i]).finding = filed[i].finding
        /\ Stripped(filed[i]).count = 1 /\ Stripped(filed[i]).strips = filed[i].strips + 1
        /\ filed[i].strips \in Nat /\ filed[i].count \in Nat \ {0} /\ filed[i].finding \in Findings
    <3>1. 0 \in 0..MaxDaily /\ 1 \in Nat \ {0} /\ FALSE \in BOOLEAN
      BY IssueBounds
    <3>2. x.strips \in Nat /\ x.strips + 1 \in Nat /\ x.count \in Nat \ {0} /\ x.finding \in Findings
      BY DEF FiledIssues
    <3>3. Stripped(x) \in FiledIssues
      <4>1. [x EXCEPT !.key = 0, !.count = 1, !.strips = @ + 1] \in FiledIssues
        BY <3>1, <3>2 DEF FiledIssues
      <4> QED
        BY <3>1, <4>1 DEF FiledIssues, Stripped
    <3>4. /\ Stripped(x).finding = x.finding /\ Stripped(x).count = 1
          /\ Stripped(x).strips = x.strips + 1
      BY DEF FiledIssues, Stripped
    <3> QED
      BY <2>0, <3>2, <3>3, <3>4
  <2>2. seen[filed[i].finding].times \in Nat
    BY <2>1, StateFacts
  <2>3. filed[i].count <= seen[filed[i].finding].times + filed[i].strips
    BY <1>1 DEF IssueOK
  <2>4. /\ 1 <= seen[filed[i].finding].times + (filed[i].strips + 1)
        /\ 1 + 1 <= seen[filed[i].finding].times + (filed[i].strips + 1)
        /\ filed[i].strips + 1 > 0
    BY <2>1, <2>2, <2>3
  <2> QED
    BY <2>1, <2>4 DEF IssueOK
<1>4. PICK y : Same(y) /\ filed' = [filed EXCEPT ![i] = y]
  <2>1. \/ \E state \in {"open", "recent", "closed"} : filed' = [filed EXCEPT ![i] = [filed[i] EXCEPT !.state = state]]
        \/ filed' = [filed EXCEPT ![i] = Stripped(filed[i])]
    BY <1>1, StateFacts DEF PersonEdits
  <2> HIDE DEF Same
  <2> QED
    BY <1>2, <1>3, <2>1
<1>5. /\ filed' \in Seq(FiledIssues) /\ Len(filed') = Len(filed) /\ DOMAIN filed' = DOMAIN filed
      /\ \A j \in DOMAIN filed : filed'[j] = IF j = i THEN y ELSE filed[j]
  BY <1>1, <1>4, StateFacts, ExceptSeq
<1>6. FailTypeOK' /\ BoundsOK'
  BY <1>1, <1>5, CostsAfter, StateFacts DEF FailTypeOK, BoundsOK
<1>7. IssuesOK'
  BY <1>1, <1>4, <1>5 DEF IssuesOK, FailInductive
<1>8. \A f : Held(filed, f, monitor.run) => Held(filed', f, monitor.run)
  <2> SUFFICES ASSUME NEW f, NEW j \in DOMAIN filed, filed[j].finding = f,
                      filed[j].key = monitor.run \/ filed[j].strips > 0
               PROVE  Held(filed', f, monitor.run)
    BY DEF Held
  <2>1. filed'[j].finding = f /\ (filed'[j].key = monitor.run \/ filed'[j].strips > 0)
    BY <1>4, <1>5
  <2> QED
    BY <1>5, <2>1 DEF Held
<1>9. TodoSeen' /\ CommentOK' /\ Recorded'
  BY <1>1, <1>8 DEF FailInductive, TodoSeen, CommentOK, Recorded, Finding
<1> QED
  BY <1>6, <1>7, <1>9 DEF FailInductive

-----------------------------------------------------------------------------
(* The monitor reads a run *)

LEMMA ReadsInductive ==
  ASSUME FailInductive, NEW n \in DOMAIN daily, MonitorReads(n)
  PROVE  FailInductive'
<1>1. PICK told \in SUBSET daily[n].failed : \E unread \in SUBSET told : Reads(n, told, unread, unread # {})
  BY DEF MonitorReads
<1> PICK unread \in SUBSET told : Reads(n, told, unread, unread # {})
  BY <1>1
<1>2. /\ UNCHANGED <<daily, filed, lookback>> /\ ReadIn(n, told \ unread) /\ (Change \/ UNCHANGED costs)
      /\ monitor' = [NoMonitor EXCEPT !.phase = "work", !.run = n, !.due = told,
                      !.todo = told \ unread, !.errors = (unread # {})]
  BY DEF Reads, ChoosesRun
<1>3. n \in 0..MaxDaily /\ told \in SUBSET Findings
  BY StateFacts DEF FailingRuns
<1>4. /\ monitor'.phase = "work" /\ monitor'.run = n /\ monitor'.todo = told \ unread
      /\ monitor'.due = told /\ monitor'.skipped = {} /\ monitor'.errors = (unread # {})
  BY <1>2 DEF NoMonitor
<1>5. monitor' \in Monitors(Len(filed))
  BY <1>2, <1>3 DEF NoMonitor, Monitors, Lists, NotListed
<1>6. \A f \in Findings :
        seen'[f] = IF f \in told \ unread /\ seen[f].run # n
                   THEN [run |-> n, times |-> seen[f].times + 1] ELSE seen[f]
  BY <1>2 DEF ReadIn
<1>7. seen' \in [Findings -> [run : 0..MaxDaily, times : Nat]]
  BY <1>2, <1>3, StateFacts DEF ReadIn
<1>8. FailTypeOK' /\ BoundsOK'
  BY <1>2, <1>5, <1>7, CostsAfter, StateFacts DEF FailTypeOK, BoundsOK
<1>9. IssuesOK'
  <2> SUFFICES ASSUME NEW i \in DOMAIN filed PROVE IssueOK(filed[i], seen'[filed[i].finding])
    BY <1>2 DEF IssuesOK
  <2> DEFINE f == filed[i].finding
  <2>1. /\ f \in Findings /\ filed[i].count \in Nat /\ filed[i].strips \in Nat
        /\ seen[f].times \in Nat /\ IssueOK(filed[i], seen[f])
    BY StateFacts DEF FiledIssues, FailInductive, IssuesOK
  <2>2. CASE seen'[f] = seen[f]
    BY <2>1, <2>2
  <2>3. CASE seen'[f] # seen[f]
    <3>1. seen'[f] = [run |-> n, times |-> seen[f].times + 1]
      BY <1>6, <2>1, <2>3
    <3>2. seen'[f].times = seen[f].times + 1
      BY <3>1
    <3>3. filed[i].count <= seen[f].times + filed[i].strips
      BY <2>1 DEF IssueOK
    <3>4. filed[i].count + 1 <= seen'[f].times + filed[i].strips
          /\ filed[i].count <= seen'[f].times + filed[i].strips
      BY <2>1, <3>2, <3>3
    <3> QED
      BY <3>4 DEF IssueOK
  <2> QED
    BY <2>2, <2>3
<1>10. TodoSeen'
  <2>1. n # 0 /\ monitor'.run # 0
    BY <1>4, StateFacts
  <2>2. \A f \in Findings : seen[f].times \in Nat /\ (seen[f].run # 0 => seen[f].times > 0)
    BY StateFacts DEF FailInductive, TodoSeen
  <2>3. \A f \in Findings : seen'[f].run # 0 => seen'[f].times > 0
    <3> SUFFICES ASSUME NEW f \in Findings PROVE seen'[f].run # 0 => seen'[f].times > 0
      OBVIOUS
    <3>1. CASE seen'[f] = seen[f]
      BY <2>2, <3>1
    <3>2. CASE seen'[f] = [run |-> n, times |-> seen[f].times + 1]
      BY <2>2, <3>2
    <3> QED
      BY <1>6, <3>1, <3>2
  <2>4. \A f \in told \ unread : seen'[f].run = n
    <3> SUFFICES ASSUME NEW f \in told \ unread PROVE seen'[f].run = n
      OBVIOUS
    <3>1. CASE seen[f].run = n
      BY <1>3, <1>6, <3>1
    <3>2. CASE seen[f].run # n
      <4>1. seen'[f] = [run |-> n, times |-> seen[f].times + 1]
        BY <1>3, <1>6, <3>2
      <4> QED
        BY <4>1
    <3> QED
      BY <3>1, <3>2
  <2> QED
    BY <1>4, <2>1, <2>3, <2>4 DEF TodoSeen
<1>11. CommentOK' /\ Recorded'
  BY <1>4 DEF CommentOK, Recorded
<1> QED
  BY <1>8, <1>9, <1>10, <1>11 DEF FailInductive

-----------------------------------------------------------------------------
(* The monitor works a finding off *)

(* The monitor goes on to the next finding: the one it leaves is held by an
   issue, skipped, or an error.                                            *)
LEMMA WorkedOff ==
  ASSUME FailInductive, monitor.phase \in {"work", "comment"}, monitor.todo # {},
         UNCHANGED <<daily, seen, lookback>>, Error \/ UNCHANGED costs,
         filed' \in Seq(FiledIssues), IssuesOK',
         \A f : Held(filed, f, monitor.run) => Held(filed', f, monitor.run),
         NEW skipped \in SUBSET Findings, NEW errors \in BOOLEAN, NEW open \in Lists(Len(filed')),
         monitor.recent \in Lists(Len(filed')), monitor.skipped \subseteq skipped,
         monitor' = [monitor EXCEPT !.phase = "work", !.todo = @ \ {Finding}, !.open = open,
                                   !.skipped = skipped, !.errors = errors],
         errors \/ (errors = monitor.errors
                    /\ (Finding \in skipped \/ Held(filed', Finding, monitor.run)))
  PROVE  FailInductive'
<1>1. /\ monitor'.phase = "work" /\ monitor'.run = monitor.run /\ monitor'.todo = monitor.todo \ {Finding}
      /\ monitor'.skipped = skipped /\ monitor'.errors = errors /\ monitor'.due = monitor.due
  BY StateFacts DEF Monitors
<1>2. monitor' \in Monitors(Len(filed'))
  <2>1. monitor \in Monitors(Len(filed)) /\ monitor.todo \ {Finding} \in SUBSET Findings
    BY StateFacts, FindingIsToDo
  <2> QED
    BY <2>1 DEF Monitors
<1>3. FailTypeOK' /\ BoundsOK'
  BY <1>2, CostsAfter, StateFacts DEF FailTypeOK, BoundsOK
<1>4. TodoSeen' /\ CommentOK'
  BY <1>1 DEF FailInductive, TodoSeen, CommentOK
<1>5. Recorded'
  BY <1>1 DEF FailInductive, Recorded
<1> QED
  BY <1>3, <1>4, <1>5 DEF FailInductive

LEMMA WorkedRecord ==
  ASSUME FailInductive
  PROVE  /\ Worked = [monitor EXCEPT !.phase = "work", !.todo = @ \ {Finding}, !.open = monitor.open,
                        !.skipped = monitor.skipped, !.errors = monitor.errors]
         /\ Errs = [monitor EXCEPT !.phase = "work", !.todo = @ \ {Finding}, !.open = monitor.open,
                        !.skipped = monitor.skipped, !.errors = TRUE]
         /\ [Worked EXCEPT !.skipped = @ \union {Finding}]
             = [monitor EXCEPT !.phase = "work", !.todo = @ \ {Finding}, !.open = monitor.open,
                  !.skipped = monitor.skipped \union {Finding}, !.errors = monitor.errors]
         /\ monitor.skipped \in SUBSET Findings /\ monitor.errors \in BOOLEAN
         /\ monitor.open \in Lists(Len(filed)) /\ monitor.recent \in Lists(Len(filed))
<1>1. monitor \in Monitors(Len(filed))
  BY StateFacts
<1> QED
  BY <1>1 DEF Worked, Errs, Monitors

(* Nothing is written.                                                     *)
LEMMA QuietlyWorked ==
  ASSUME FailInductive, UpsertFails \/ SkipClosed \/ Recur \/ \E i \in DOMAIN filed : SkipSeen(i)
  PROVE  FailInductive'
<1>1. filed \in Seq(FiledIssues) /\ UNCHANGED <<daily, filed, seen, lookback>>
      /\ (Error \/ UNCHANGED costs)
  BY StateFacts DEF UpsertFails, SkipClosed, Recur, SkipSeen
<1>2. IssuesOK'
  BY <1>1 DEF FailInductive, IssuesOK
<1>3. monitor.phase \in {"work", "comment"} /\ monitor.todo # {}
  BY DEF UpsertFails, SkipClosed, Recur, SkipSeen, OnFinding, Missed, Found, FailInductive, CommentOK
<1>4. CASE monitor' = Errs
  BY <1>1, <1>2, <1>3, <1>4, WorkedRecord, WorkedOff
<1>5. CASE monitor' = Worked /\ Held(filed, Finding, monitor.run)
  BY <1>1, <1>2, <1>3, <1>5, WorkedRecord, WorkedOff
<1>6. CASE monitor' = [Worked EXCEPT !.skipped = @ \union {Finding}]
  <2>1. monitor.skipped \union {Finding} \in SUBSET Findings /\ Finding \in monitor.skipped \union {Finding}
    BY <1>3, WorkedRecord, FindingIsToDo
  <2>2. PICK skipped \in SUBSET Findings : skipped = monitor.skipped \union {Finding}
    BY <2>1
  <2>3. monitor' = [monitor EXCEPT !.phase = "work", !.todo = @ \ {Finding}, !.open = monitor.open,
                                   !.skipped = skipped, !.errors = monitor.errors]
    BY <1>6, <2>2, WorkedRecord
  <2>4. /\ monitor.errors \in BOOLEAN /\ monitor.skipped \subseteq skipped /\ Finding \in skipped
        /\ monitor.open \in Lists(Len(filed')) /\ monitor.recent \in Lists(Len(filed'))
    BY <1>1, <2>2, WorkedRecord
  <2>5. filed' \in Seq(FiledIssues) /\ \A f : Held(filed, f, monitor.run) => Held(filed', f, monitor.run)
    BY <1>1
  <2> QED
    BY ZenonT(40), <1>1, <1>2, <1>3, <2>3, <2>4, <2>5, WorkedOff
<1>7. ASSUME NEW i \in DOMAIN filed, SkipSeen(i) PROVE Held(filed, Finding, monitor.run)
  BY <1>7 DEF SkipSeen, Found, Matching, Held
<1>8. Recur => Held(filed, Finding, monitor.run)
  BY DEF Recur, FailInductive, CommentOK
<1> QED
  BY <1>4, <1>5, <1>6, <1>7, <1>8 DEF UpsertFails, SkipClosed, Recur, SkipSeen

(* An issue of the finding at hand that names the run, and counts it.      *)
Names(x) ==
  /\ x \in FiledIssues /\ x.finding = Finding /\ x.key = monitor.run
  /\ x.count <= seen[Finding].times + x.strips

LEMMA NewIssueNames ==
  ASSUME FailInductive, OnFinding
  PROVE  Names(NewIssue)
<1>1. /\ Finding \in Findings /\ monitor.run \in 0..MaxDaily
      /\ seen[Finding].times \in Nat /\ seen[Finding].times > 0
  BY FindingIsToDo DEF OnFinding
<1> QED
  BY <1>1 DEF NewIssue, FiledIssues, Names

(* Issues are added or made to name the run: none is lost, and none counts
   more than it should.                                                    *)
LEMMA IssuesWritten ==
  ASSUME FailInductive, monitor.todo # {}, UNCHANGED seen,
         filed' \in Seq(FiledIssues), Len(filed) <= Len(filed'),
         \A j \in 1..Len(filed') :
           \/ j <= Len(filed) /\ filed'[j] = filed[j]
           \/ Names(filed'[j]) /\ (j <= Len(filed) => filed[j].finding = Finding)
  PROVE  /\ IssuesOK'
         /\ \A f : Held(filed, f, monitor.run) => Held(filed', f, monitor.run)
         /\ \A j \in 1..Len(filed') : Names(filed'[j]) => Held(filed', Finding, monitor.run)
<1>1. DOMAIN filed' = 1..Len(filed') /\ Len(filed') \in Nat /\ DOMAIN filed = 1..Len(filed) /\ Len(filed) \in Nat
  BY StateFacts
<1>2. IssuesOK'
  <2> SUFFICES ASSUME NEW j \in DOMAIN filed' PROVE IssueOK(filed'[j], seen[filed'[j].finding])
    BY DEF IssuesOK
  <2>1. CASE j <= Len(filed) /\ filed'[j] = filed[j]
    BY <1>1, <2>1 DEF FailInductive, IssuesOK
  <2>2. CASE Names(filed'[j])
    BY <2>2, FindingIsToDo DEF Names, IssueOK
  <2> QED
    BY <1>1, <2>1, <2>2
<1>3. ASSUME NEW f, NEW j \in DOMAIN filed, filed[j].finding = f,
             filed[j].key = monitor.run \/ filed[j].strips > 0
      PROVE  Held(filed', f, monitor.run)
  <2>1. j \in 1..Len(filed') /\ j <= Len(filed)
    BY <1>1
  <2>2. filed'[j].finding = f /\ (filed'[j].key = monitor.run \/ filed'[j].strips > 0)
    BY <1>3, <2>1 DEF Names
  <2> QED
    BY <1>1, <2>1, <2>2 DEF Held
<1> QED
  BY <1>1, <1>2, <1>3 DEF Held, Names

LEMMA CreateInductive ==
  ASSUME FailInductive, Create
  PROVE  FailInductive'
<1>1. /\ OnFinding /\ monitor.phase = "work" /\ monitor.todo # {} /\ UNCHANGED <<daily, seen, lookback>>
      /\ (Error \/ UNCHANGED costs)
  BY DEF Create, ToCreate, Missed, OnFinding
<1>2. /\ monitor \in Monitors(Len(filed)) /\ filed \in Seq(FiledIssues) /\ Len(filed) \in Nat
      /\ NewIssue \in FiledIssues /\ Names(NewIssue)
  BY <1>1, StateFacts, NewIssueNames DEF Names
<1>3. /\ filed' \in {Append(filed, NewIssue), filed \o <<NewIssue, NewIssue>>}
      /\ monitor' = Errs \/ monitor' = Listing(Len(filed'))
  BY DEF Create
<1>4. /\ filed' \in Seq(FiledIssues) /\ Len(filed) < Len(filed') /\ Len(filed') \in Nat
      /\ \A j \in 1..Len(filed') : filed'[j] = IF j <= Len(filed) THEN filed[j] ELSE NewIssue
  <2>1. CASE filed' = Append(filed, NewIssue)
    <3>1. filed' \in Seq(FiledIssues) /\ Len(filed') = Len(filed) + 1
      BY <1>2, <2>1
    <3>2. \A j \in 1..(Len(filed) + 1) : filed'[j] = IF j <= Len(filed) THEN filed[j] ELSE NewIssue
      BY <1>2, <2>1
    <3> QED
      BY <1>2, <3>1, <3>2
  <2>2. CASE filed' = filed \o <<NewIssue, NewIssue>>
    <3>1. <<NewIssue, NewIssue>> \in Seq(FiledIssues) /\ Len(<<NewIssue, NewIssue>>) = 2
          /\ <<NewIssue, NewIssue>>[1] = NewIssue /\ <<NewIssue, NewIssue>>[2] = NewIssue
      BY <1>2
    <3>2. /\ filed' \in Seq(FiledIssues) /\ Len(filed') = Len(filed) + 2
          /\ \A j \in 1..(Len(filed) + 2) :
               filed'[j] = IF j <= Len(filed) THEN filed[j] ELSE <<NewIssue, NewIssue>>[j - Len(filed)]
      BY <1>2, <2>2, <3>1, ConcatProperties
    <3>3. \A j \in 1..(Len(filed) + 2) : j <= Len(filed) \/ j - Len(filed) \in {1, 2}
      BY <1>2
    <3> QED
      BY <1>2, <3>1, <3>2, <3>3
  <2> QED
    BY <1>3, <2>1, <2>2
<1>5. /\ IssuesOK' /\ \A f : Held(filed, f, monitor.run) => Held(filed', f, monitor.run)
      /\ Held(filed', Finding, monitor.run)
  <2>1. \A j \in 1..Len(filed') :
          \/ j <= Len(filed) /\ filed'[j] = filed[j]
          \/ Names(filed'[j]) /\ (j <= Len(filed) => filed[j].finding = Finding)
    BY <1>2, <1>4
  <2>2. Len(filed') \in 1..Len(filed') /\ Names(filed'[Len(filed')])
    BY <1>2, <1>4
  <2> QED
    BY <1>1, <1>2, <1>4, <2>1, <2>2, IssuesWritten
<1>6. \A list \in Lists(Len(filed)) : list \in Lists(Len(filed'))
  BY <1>2, <1>4 DEF Lists
<1>7. CASE monitor' = Errs
  BY <1>1, <1>4, <1>5, <1>6, <1>7, WorkedRecord, WorkedOff
<1>8. CASE monitor' = Listing(Len(filed'))
  <2> DEFINE open == [monitor.open EXCEPT !.issues = @ \union {Len(filed')},
                                          !.marked = @ \union {Len(filed')}]
  <2>1. monitor.open \in Lists(Len(filed')) /\ Len(filed') \in 1..Len(filed')
    BY <1>2, <1>4, <1>6, WorkedRecord
  <2>2. open \in Lists(Len(filed'))
    BY <2>1 DEF Lists
  <2>3. monitor' = [monitor EXCEPT !.phase = "work", !.todo = @ \ {Finding}, !.open = open,
                      !.skipped = monitor.skipped, !.errors = monitor.errors]
    BY <1>2, <1>8 DEF Listing, Worked, Monitors
  <2> HIDE DEF open
  <2> QED
    BY <1>1, <1>4, <1>5, <1>6, <2>2, <2>3, WorkedRecord, WorkedOff
<1> QED
  BY <1>3, <1>7, <1>8

LEMMA BumpInductive ==
  ASSUME FailInductive, NEW i \in DOMAIN filed, Bump(i)
  PROVE  FailInductive'
<1>1. /\ OnFinding /\ monitor.phase = "work" /\ monitor.todo # {} /\ UNCHANGED <<daily, seen, lookback>>
      /\ filed[i].finding = Finding /\ filed[i].key # monitor.run /\ (Error \/ UNCHANGED costs)
  BY DEF Bump, Found, OnFinding, Matching
<1>2. /\ monitor \in Monitors(Len(filed)) /\ filed \in Seq(FiledIssues) /\ Len(filed) \in Nat
      /\ i \in 1..Len(filed) /\ filed[i] \in FiledIssues
  BY StateFacts
<1> DEFINE y == [filed[i] EXCEPT !.marked = TRUE, !.count = @ + 1, !.key = monitor.run]
<1>3. Names(y)
  <2>0. monitor.run \in 0..MaxDaily /\ filed[i].count + 1 \in Nat \ {0}
    BY <1>1, <1>2, FindingIsToDo DEF FiledIssues
  <2>1. /\ y \in FiledIssues /\ y.finding = Finding /\ y.key = monitor.run
        /\ y.count = filed[i].count + 1 /\ y.strips = filed[i].strips
    BY <1>1, <1>2, <2>0 DEF FiledIssues
  <2>2. filed[i].count + 1 <= seen[Finding].times + filed[i].strips
    BY <1>1, FindingIsToDo DEF FailInductive, IssuesOK, IssueOK
  <2> QED
    BY <2>1, <2>2 DEF Names
<1>4. filed' = [filed EXCEPT ![i] = y] /\ (monitor' = Errs \/ monitor' = [monitor EXCEPT !.phase = "comment"])
  BY <1>2 DEF Bump
<1> HIDE DEF y
<1>5. /\ filed' \in Seq(FiledIssues) /\ Len(filed') = Len(filed)
      /\ \A j \in 1..Len(filed) : filed'[j] = IF j = i THEN y ELSE filed[j]
  BY <1>2, <1>3, <1>4, ExceptSeq DEF Names
<1>6. /\ IssuesOK' /\ \A f : Held(filed, f, monitor.run) => Held(filed', f, monitor.run)
      /\ Held(filed', Finding, monitor.run)
  <2>1. \A j \in 1..Len(filed') :
          \/ j <= Len(filed) /\ filed'[j] = filed[j]
          \/ Names(filed'[j]) /\ (j <= Len(filed) => filed[j].finding = Finding)
    BY <1>1, <1>2, <1>3, <1>5
  <2>2. i \in 1..Len(filed') /\ Names(filed'[i]) /\ Len(filed) <= Len(filed')
    BY <1>2, <1>3, <1>5
  <2> QED
    BY <1>1, <1>5, <2>1, <2>2, IssuesWritten
<1>7. CASE monitor' = Errs
  BY <1>1, <1>5, <1>6, <1>7, WorkedRecord, WorkedOff
<1>8. CASE monitor' = [monitor EXCEPT !.phase = "comment"]
  <2>1. /\ monitor'.phase = "comment" /\ monitor'.run = monitor.run /\ monitor'.todo = monitor.todo
        /\ monitor'.skipped = monitor.skipped /\ monitor'.errors = monitor.errors
        /\ monitor'.due = monitor.due
    BY <1>2, <1>8 DEF Monitors
  <2>2. monitor' \in Monitors(Len(filed'))
    BY <1>2, <1>5, <1>8 DEF Monitors
  <2>3. FailTypeOK' /\ BoundsOK'
    BY <1>1, <1>5, <2>2, CostsAfter, StateFacts DEF FailTypeOK, BoundsOK
  <2>4. TodoSeen' /\ CommentOK' /\ Recorded'
    BY <1>1, <1>6, <2>1 DEF FailInductive, TodoSeen, CommentOK, Recorded, Finding
  <2> QED
    BY <1>6, <2>3, <2>4 DEF FailInductive
<1> QED
  BY <1>4, <1>7, <1>8

-----------------------------------------------------------------------------
(* The monitor lists, ends and leaves *)

LEMMA MonitorMoves ==
  ASSUME FailInductive, UNCHANGED <<daily, filed, seen, lookback>>, Error \/ UNCHANGED costs,
         monitor' \in Monitors(Len(filed)), TodoSeen', CommentOK', Recorded'
  PROVE  FailInductive'
<1>1. FailTypeOK' /\ BoundsOK'
  BY CostsAfter, StateFacts DEF FailTypeOK, BoundsOK
<1> QED
  BY <1>1 DEF FailInductive, IssuesOK

LEMMA ListOfType ==
  ASSUME FailInductive, NEW state
  PROVE  ListOf(state) \in Lists(Len(filed))
BY StateFacts DEF ListOf, Lists

LEMMA ListsInductive ==
  ASSUME FailInductive, ListOpen \/ ListClosed \/ MonitorEnds \/ MonitorLeaves
  PROVE  FailInductive'
<1>1. monitor \in Monitors(Len(filed)) /\ UNCHANGED <<daily, filed, seen, lookback>>
      /\ (Error \/ UNCHANGED costs)
  BY StateFacts DEF ListOpen, ListClosed, MonitorEnds, MonitorLeaves
<1>2. CASE ListOpen \/ ListClosed
  <2>1. /\ monitor'.phase = monitor.phase /\ monitor'.run = monitor.run /\ monitor'.todo = monitor.todo
        /\ monitor'.skipped = monitor.skipped /\ monitor'.errors = monitor.errors
        /\ monitor'.due = monitor.due
    BY <1>1, <1>2 DEF ListOpen, ListClosed, Monitors
  <2>2. monitor' \in Monitors(Len(filed))
    BY <1>1, <1>2, ListOfType DEF ListOpen, ListClosed, Monitors
  <2>3. TodoSeen' /\ CommentOK' /\ Recorded'
    BY <1>1, <2>1 DEF FailInductive, TodoSeen, CommentOK, Recorded, Finding
  <2> QED
    BY <1>1, <2>2, <2>3, MonitorMoves
<1>3. CASE MonitorEnds
  <2>1. /\ monitor'.phase = "exit" /\ monitor'.run = monitor.run /\ monitor'.todo = monitor.todo
        /\ monitor'.skipped = monitor.skipped /\ monitor'.errors = monitor.errors
        /\ monitor'.due = monitor.due /\ monitor.todo = {} /\ monitor.phase = "work"
    BY <1>1, <1>3 DEF MonitorEnds, Monitors
  <2>2. monitor' \in Monitors(Len(filed))
    BY <1>1, <1>3 DEF MonitorEnds, Monitors, NotListed, Lists
  <2>3. TodoSeen' /\ CommentOK' /\ Recorded'
    BY <1>1, <2>1 DEF FailInductive, TodoSeen, CommentOK, Recorded
  <2> QED
    BY <1>1, <2>2, <2>3, MonitorMoves
<1>4. CASE MonitorLeaves
  <2>1. monitor'.phase = "idle" /\ monitor'.todo = {} /\ monitor' \in Monitors(Len(filed))
    BY <1>1, <1>4, StateFacts DEF MonitorLeaves, NoMonitor, Monitors, NotListed, Lists
  <2>2. TodoSeen' /\ CommentOK' /\ Recorded'
    BY <1>1, <2>1 DEF FailInductive, TodoSeen, CommentOK, Recorded
  <2> QED
    BY <1>1, <2>1, <2>2, MonitorMoves
<1> QED
  BY <1>2, <1>3, <1>4

-----------------------------------------------------------------------------
LEMMA FailStepsInductive ==
  ASSUME FailInductive, [FailNext]_failVars
  PROVE  FailInductive'
<1>1. CASE UNCHANGED failVars
  BY <1>1, RunsStep, StateFacts DEF failVars
<1>2. CASE DailyRuns \/ UpsertFails \/ ListOpen \/ ListClosed \/ SkipClosed \/ Create \/ Recur
           \/ MonitorEnds \/ MonitorLeaves
  BY <1>2, RunsInductive, QuietlyWorked, ListsInductive, CreateInductive
<1>3. ASSUME NEW n \in DOMAIN daily, RunAgain(n) \/ RunEndsAgain(n) \/ MonitorReads(n)
      PROVE  FailInductive'
  BY <1>3, RunsInductive, ReadsInductive
<1>4. ASSUME NEW i \in DOMAIN filed, SkipSeen(i) \/ Bump(i) \/ PersonEdits(i) PROVE FailInductive'
  BY <1>4, QuietlyWorked, BumpInductive, PersonEditsInductive
<1> QED
  BY <1>1, <1>2, <1>3, <1>4 DEF FailNext

(* The theorems *)

(* The issues, what was seen, and what the monitor has worked off agree at
   every step, whichever call fails and whatever people do meanwhile.      *)
THEOREM FailuresAreInductive == FailSpec => []FailInductive
<1>1. FailInductive /\ [FailNext]_failVars => FailInductive'
  BY FailStepsInductive
<1> QED
  BY <1>1, FailInitInductive, PTL DEF FailSpec

(* A monitor that exits cleanly has an issue that names its run for every
   failure that the run told of, unless people took the name out, or has
   skipped one that people had just closed.                                *)
THEOREM CleanExits == FailSpec => []CleanExitRecorded
<1>1. FailInductive => CleanExitRecorded
  BY DEF FailInductive, Recorded, Held, CleanExitRecorded
<1> QED
  BY <1>1, FailuresAreInductive, PTL

(* However often a monitor dies and is run again on a run, an issue counts
   it once, until the monitor has been at another run or people have taken
   the run out of the issue.                                               *)
THEOREM RunsCountedOnce == FailSpec => []CountedOnce
<1>1. FailInductive => CountedOnce
  BY DEF FailInductive, IssuesOK, IssueOK, CountedOnce
<1> QED
  BY <1>1, FailuresAreInductive, PTL
=============================================================================
