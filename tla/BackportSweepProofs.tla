------------------------- MODULE BackportSweepProofs -------------------------
(***************************************************************************)
(* BackportSweep for every set of source PRs and every bound: its types,   *)
(* its inductive invariant, and what follows from it.                      *)
(***************************************************************************)
EXTENDS BackportSweep, TLAPS

LEMMA IdleTypes ==
  IdleJob \in Jobs /\ IdleFixer \in Fixers /\ IdleReverter \in Reverters /\ IdleMarker \in Markers
<1>1. IdleJob \in Jobs
  BY DEF IdleJob, Jobs, Phases, EmptyTarget, Targets
<1>2. IdleFixer \in Fixers
  BY DEF IdleFixer, Fixers
<1>3. IdleReverter \in Reverters
  BY DEF IdleReverter, Reverters
<1>4. IdleMarker \in Markers
  BY DEF IdleMarker, Markers
<1> QED BY <1>1, <1>2, <1>3, <1>4

-----------------------------------------------------------------------------
(* Types.  That the head a job pushes is a real tip depends on its phase, so
   types are preserved only together with the inductive invariant.         *)

LEMMA TypeInit == Init => TypeOK
  BY IdleTypes DEF Init, TypeOK, EmptyTarget, Targets, SweepPRs, Budgets

LEMMA TypeMaintainers == TypeOK /\ Maintainers => TypeOK'
<1> SUFFICES ASSUME TypeOK, Maintainers PROVE TypeOK'
  OBVIOUS
<1>1. ASSUME NEW p \in Prs, NEW s \in {"none", "todo"}, MoveCard(p, s) PROVE TypeOK'
  BY <1>1 DEF MoveCard, TypeOK, others
<1>2. ASSUME NEW S \in SUBSET Prs, CommitToTarget(S) PROVE TypeOK'
  <2>1. target' \in Targets
    BY <1>2 DEF CommitToTarget, TypeOK, Targets
  <2>2. budget' \in Budgets
    BY <1>2 DEF CommitToTarget, TypeOK, Budgets
  <2> QED BY <1>2, <2>1, <2>2 DEF CommitToTarget, TypeOK, others
<1>3. ASSUME NEW q \in BOOLEAN, NEW d \in BOOLEAN, MergePR(q, d) PROVE TypeOK'
  <2>1. remote \in Tips
    BY <1>3 DEF MergePR, TypeOK
  <2>2. pr.body \in SUBSET Prs /\ pr' \in SweepPRs
    BY <1>3 DEF MergePR, TypeOK, SweepPRs
  <2>3. remote.commits \in SUBSET Prs /\ remote.reverted \in SUBSET Prs
    BY <2>1 DEF Tips
  <2>4. target' \in Targets
    BY <1>3, <2>2, <2>3 DEF MergePR, TypeOK, Targets, Adds, Removes
  <2> QED BY <1>3, <2>1, <2>2, <2>4 DEF MergePR, TypeOK, others
<1>4. ASSUME NEW d \in BOOLEAN, ClosePR(d) PROVE TypeOK'
  <2>1. pr' \in SweepPRs
    BY <1>4 DEF ClosePR, TypeOK, SweepPRs
  <2>2. budget' \in Budgets
    BY <1>4 DEF ClosePR, TypeOK, Budgets
  <2> QED BY <1>4, <2>1, <2>2 DEF ClosePR, TypeOK, others
<1>5. {} \in SUBSET Prs /\ \A p \in Prs : {p} \in SUBSET Prs
  OBVIOUS
<1> QED BY <1>1, <1>2, <1>3, <1>4, <1>5 DEF Maintainers

(* A step that changes only the job: its record stays well-typed. *)
LEMMA TypeJobOnly ==
  ASSUME TypeOK, job' \in Jobs, UNCHANGED <<github, others, budget>>
  PROVE  TypeOK'
  BY DEF TypeOK, github, others

LEMMA TypeJobStep == TypeOK /\ HeadCoversLease /\ JobStep => TypeOK'
<1> SUFFICES ASSUME TypeOK, HeadCoversLease, JobStep PROVE TypeOK'
  OBVIOUS
<1>j. job \in Jobs /\ target \in Targets /\ remote \in Tips \union {NoTip} /\ pr \in SweepPRs
  BY DEF TypeOK
<1>i. IdleJob \in Jobs
  BY IdleTypes
<1>1. CASE Discover
  <2>1. job' \in Jobs
    BY <1>1, <1>j, <1>i DEF Discover, Jobs, Phases
  <2> QED BY <1>1, <2>1, TypeJobOnly DEF Discover
<1>2. CASE CloneTarget
  <2>1. job' \in Jobs
    BY <1>2, <1>j DEF CloneTarget, Jobs, Phases
  <2> QED BY <1>2, <2>1, TypeJobOnly DEF CloneTarget
<1>3. CASE FindPR
  <2>1. OpenPR \in Nat
    BY <1>j DEF OpenPR, SweepPRs
  <2>2. job' \in Jobs
    BY <1>3, <1>j, <2>1 DEF FindPR, Jobs, Phases
  <2> QED BY <1>3, <2>2, TypeJobOnly DEF FindPR
<1>4. CASE ReadRemoteHead
  <2>1. job' \in Jobs
    BY <1>4, <1>j, <1>i DEF ReadRemoteHead, Jobs, Phases
  <2> QED BY <1>4, <2>1, TypeJobOnly DEF ReadRemoteHead
<1>5. CASE PrepareBranch
  <2>1. job.base \in Targets
    BY <1>j DEF Jobs
  <2>2. FreshTip(job.base) \in Tips
    BY <2>1 DEF FreshTip, Tips, Targets
  <2>3. remote # NoTip => Rebased(remote, job.base) \in Tips
    BY <2>1, <1>j DEF Rebased, Tips, Targets
  <2>4. \A tip \in Tips : [job EXCEPT !.phase = "branch_ready", !.head = tip] \in Jobs
    BY <1>j DEF Jobs, Phases
  <2>5. job' \in Jobs
    BY <1>5, <1>i, <2>2, <2>3, <2>4 DEF PrepareBranch
  <2> QED BY <1>5, <2>5, TypeJobOnly DEF PrepareBranch
<1>6. CASE ApplyCandidates
  <2>1. job.head \in Tips
    BY <1>6 DEF ApplyCandidates, HeadCoversLease, HeadBuilt, HeadKnown, SeenPR
  <2>2. Picked \in SUBSET Prs
    BY <1>j DEF Picked, Accepted, Pending, Jobs
  <2>3. [job.head EXCEPT !.commits = @ \union Picked] \in Tips
    BY <2>1, <2>2 DEF Tips
  <2>4. \A tip \in Tips, v \in BOOLEAN :
          [job EXCEPT !.phase = "prepared", !.head = tip, !.validated = v] \in Jobs
    BY <1>j DEF Jobs, Phases
  <2>5. job' \in Jobs
    BY <1>6, <1>i, <2>3, <2>4 DEF ApplyCandidates
  <2> QED BY <1>6, <2>5, TypeJobOnly DEF ApplyCandidates
<1>7. CASE CheckTarget \/ CheckRemote \/ CheckPR
  <2>1. job' \in Jobs
    BY <1>7, <1>j, <1>i DEF CheckTarget, CheckRemote, CheckPR, Check, Jobs, Phases
  <2> QED BY <1>7, <2>1, TypeJobOnly DEF CheckTarget, CheckRemote, CheckPR, Check
<1>8. CASE Push
  <2>1. job' \in Jobs
    BY <1>8, <1>j, <1>i DEF Push, Jobs, Phases
  <2>2. remote' \in Tips \union {NoTip}
    BY <1>8, <1>j DEF Push, Jobs
  <2> QED BY <1>8, <2>1, <2>2 DEF Push, TypeOK, others
<1>9. CASE UpsertPR
  <2>1. job.head \in Tips
    BY <1>9 DEF UpsertPR, HeadCoversLease
  <2>2. job.head.commits \in SUBSET Prs
    BY <2>1 DEF Tips
  <2>3. pr' \in SweepPRs
    BY <1>9, <1>j, <2>2 DEF UpsertPR, SweepPRs
  <2> QED BY <1>9, <1>i, <2>3 DEF UpsertPR, TypeOK, others
<1> QED BY <1>1, <1>2, <1>3, <1>4, <1>5, <1>6, <1>7, <1>8, <1>9 DEF JobStep

LEMMA TypeJobEnds == TypeOK /\ (StartSweep \/ StartPoll \/ JobFails) => TypeOK'
<1> SUFFICES ASSUME TypeOK, StartSweep \/ StartPoll \/ JobFails PROVE TypeOK'
  OBVIOUS
<1>1. CASE StartSweep \/ StartPoll
  <2>1. job' \in Jobs
    BY ZenonT(30), <1>1, IdleTypes DEF StartSweep, StartPoll, Jobs, Phases
  <2> QED BY <1>1, <2>1, TypeJobOnly DEF StartSweep, StartPoll
<1>2. CASE JobFails
  <2>1. budget' \in Budgets
    BY <1>2 DEF JobFails, TypeOK, Budgets
  <2> QED BY <1>2, <2>1, IdleTypes DEF JobFails, TypeOK, github, others
<1> QED BY <1>1, <1>2

LEMMA TypeFixer == TypeOK /\ OthersHoldTips /\ Fixer => TypeOK'
<1> SUFFICES ASSUME TypeOK, OthersHoldTips, Fixer PROVE TypeOK'
  OBVIOUS
<1>1. CASE FixStart
  <2>1. budget' \in Budgets
    BY <1>1 DEF FixStart, TypeOK, Budgets
  <2>2. fixer' \in Fixers
    BY <1>1 DEF FixStart, TypeOK, Fixers
  <2> QED BY <1>1, <2>1, <2>2 DEF FixStart, TypeOK, github
<1>2. CASE FixRecheck
  <2>1. fixer' \in Fixers
    BY <1>2, IdleTypes DEF FixRecheck, TypeOK, Fixers
  <2> QED BY <1>2, <2>1 DEF FixRecheck, TypeOK, github
<1>3. CASE FixPush
  <2>1. fixer.expected \in Tips /\ budget.fixes \in Nat
    BY <1>3 DEF FixPush, OthersHoldTips, TypeOK, Budgets
  <2>2. [fixer.expected EXCEPT !.fixes = @ \union {budget.fixes}] \in Tips
    BY <2>1 DEF Tips
  <2>3. remote' \in Tips \union {NoTip}
    BY <1>3, <2>2 DEF FixPush, TypeOK
  <2> QED BY <1>3, <2>3, IdleTypes DEF FixPush, TypeOK
<1> QED BY <1>1, <1>2, <1>3 DEF Fixer

LEMMA TypeReverter == TypeOK /\ OthersHoldTips /\ Reverter => TypeOK'
<1> SUFFICES ASSUME TypeOK, OthersHoldTips, Reverter PROVE TypeOK'
  OBVIOUS
<1>1. ASSUME NEW p \in Prs, RevertClone(p) PROVE TypeOK'
  <2>1. budget' \in Budgets
    BY <1>1 DEF RevertClone, TypeOK, Budgets
  <2>2. reverter' \in Reverters
    BY <1>1, IdleTypes DEF RevertClone, TypeOK, Reverters
  <2> QED BY <1>1, <2>1, <2>2 DEF RevertClone, TypeOK, github
<1>2. CASE RevertPush
  <2>1. reverter.seen \in Tips /\ reverter.pick \in SUBSET Prs
    BY <1>2 DEF RevertPush, OthersHoldTips, TypeOK, Reverters
  <2>2. [reverter.seen EXCEPT !.reverted = @ \union reverter.pick] \in Tips
    BY <2>1 DEF Tips
  <2>3. reverter' \in Reverters
    BY <1>2, IdleTypes DEF RevertPush, TypeOK, Reverters
  <2> QED BY <1>2, <2>2, <2>3 DEF RevertPush, TypeOK
<1>3. CASE RevertReadBody
  <2>1. reverter' \in Reverters
    BY <1>3, IdleTypes DEF RevertReadBody, TypeOK, Reverters, SweepPRs
  <2> QED BY <1>3, <2>1 DEF RevertReadBody, TypeOK, github
<1>4. CASE RevertWriteBody
  <2>1. pr' \in SweepPRs
    BY <1>4 DEF RevertWriteBody, TypeOK, Reverters, SweepPRs
  <2> QED BY <1>4, <2>1, IdleTypes DEF RevertWriteBody, TypeOK
<1> QED BY <1>1, <1>2, <1>3, <1>4 DEF Reverter

LEMMA TypeMarker == TypeOK /\ (Marker \/ MarkFails) => TypeOK'
<1> SUFFICES ASSUME TypeOK, Marker \/ MarkFails PROVE TypeOK'
  OBVIOUS
<1>1. CASE MarkLoad
  <2>1. marker' \in Markers
    BY <1>1, IdleTypes DEF MarkLoad, Markers
  <2> QED BY <1>1, <2>1 DEF MarkLoad, TypeOK, github
<1>2. CASE MarkVerify
  <2>1. marker' \in Markers
    BY <1>2, IdleTypes DEF MarkVerify, Verified, TypeOK, Markers
  <2> QED BY <1>2, <2>1 DEF MarkVerify, TypeOK, github
<1>3. ASSUME NEW p \in Prs, MarkDone(p) PROVE TypeOK'
  <2>1. marker' \in Markers
    BY <1>3, IdleTypes DEF MarkDone, TypeOK, Markers
  <2> QED BY <1>3, <2>1 DEF MarkDone, TypeOK
<1>4. CASE MarkFails
  <2>1. budget' \in Budgets
    BY <1>4 DEF MarkFails, TypeOK, Budgets
  <2> QED BY <1>4, <2>1, IdleTypes DEF MarkFails, TypeOK, github
<1> QED BY <1>1, <1>2, <1>3, <1>4 DEF Marker

-----------------------------------------------------------------------------
(* The inductive invariant *)

(* The history of the release branch only grows. *)
LEMMA NamedGrows == TypeOK /\ [Next]_vars => target.named \subseteq target'.named
<1> SUFFICES ASSUME TypeOK, [Next]_vars PROVE target.named \subseteq target'.named
  OBVIOUS
<1>1. CASE Maintainers
  <2>1. ASSUME NEW p \in Prs, NEW s \in {"none", "todo"}, MoveCard(p, s)
        PROVE target' = target
    BY <2>1 DEF MoveCard
  <2>2. ASSUME NEW S, CommitToTarget(S) PROVE target.named \subseteq target'.named
    BY <2>2 DEF CommitToTarget
  <2>3. ASSUME NEW q, NEW d, MergePR(q, d) PROVE target.named \subseteq target'.named
    BY <2>3 DEF MergePR
  <2>4. ASSUME NEW d, ClosePR(d) PROVE target' = target
    BY <2>4 DEF ClosePR
  <2> QED BY <1>1, <2>1, <2>2, <2>3, <2>4 DEF Maintainers
<1>2. CASE StartSweep \/ StartPoll \/ JobStep \/ JobFails
  BY <1>2 DEF StartSweep, StartPoll, JobFails, JobStep, Discover, CloneTarget, FindPR,
     ReadRemoteHead, PrepareBranch, ApplyCandidates, CheckTarget, CheckRemote, CheckPR,
     Check, Push, UpsertPR, github
<1>3. CASE Fixer \/ Reverter \/ Marker \/ MarkFails
  BY <1>3 DEF Fixer, FixStart, FixRecheck, FixPush, Reverter, RevertClone, RevertPush,
     RevertReadBody, RevertWriteBody, Marker, MarkLoad, MarkVerify, MarkDone, MarkFails,
     github
<1>4. CASE UNCHANGED vars
  BY <1>4 DEF vars
<1> QED BY <1>1, <1>2, <1>3, <1>4 DEF Next

(* What the job believes, apart from the types. *)
JobBeliefs ==
  OpenPRHasBranch /\ NoPRAppears /\ CloneStaysLanded /\ LeaseIsAPrefix /\ HeadCoversLease

(* Steps that leave the job alone and only close PRs, extend the tip of an
   open one, or let the release branch grow, leave its beliefs true.       *)
LEMMA BeliefsFramed ==
  ASSUME TypeOK, JobBeliefs, job' = job, pr'.num = pr.num, pr'.open => pr.open,
         pr.open /\ pr'.open => /\ remote' # NoTip
                                /\ Extends(remote', remote)
                                /\ target.content \subseteq target'.content
  PROVE  JobBeliefs'
<1>1. OpenPRHasBranch'
  BY DEF JobBeliefs, OpenPRHasBranch
<1>2. NoPRAppears'
  BY DEF JobBeliefs, NoPRAppears
<1>3. CloneStaysLanded'
  BY DEF JobBeliefs, CloneStaysLanded
<1>4. LeaseIsAPrefix'
  BY DEF JobBeliefs, LeaseIsAPrefix, Extends
<1>5. HeadCoversLease'
  BY DEF JobBeliefs, HeadCoversLease
<1> QED BY <1>1, <1>2, <1>3, <1>4, <1>5 DEF JobBeliefs

LEMMA ExtendsItself == ASSUME NEW tip \in Tips PROVE Extends(tip, tip)
  BY DEF Extends

LEMMA BeliefsMaintainers == TypeOK /\ JobBeliefs /\ Maintainers => JobBeliefs'
<1> SUFFICES ASSUME TypeOK, JobBeliefs, Maintainers PROVE JobBeliefs'
  OBVIOUS
<1>p. pr \in SweepPRs
  BY DEF TypeOK
<1>r. pr.open => remote \in Tips /\ remote # NoTip
  BY DEF JobBeliefs, OpenPRHasBranch, TypeOK
<1>1. ASSUME NEW p \in Prs, NEW s \in {"none", "todo"}, MoveCard(p, s) PROVE JobBeliefs'
  BY <1>1, <1>r, ExtendsItself, BeliefsFramed DEF MoveCard
<1>2. ASSUME NEW S, CommitToTarget(S) PROVE JobBeliefs'
  <2>1. target.content \subseteq target'.content
    BY <1>2 DEF CommitToTarget
  <2> QED BY <1>2, <2>1, <1>r, ExtendsItself, BeliefsFramed DEF CommitToTarget
<1>3. ASSUME NEW q, NEW d, MergePR(q, d) PROVE JobBeliefs'
  <2>1. job' = job /\ pr'.num = pr.num /\ ~pr'.open
    BY <1>3, <1>p DEF MergePR, SweepPRs
  <2> QED BY <2>1, BeliefsFramed
<1>4. ASSUME NEW d, ClosePR(d) PROVE JobBeliefs'
  <2>1. job' = job /\ pr'.num = pr.num /\ ~pr'.open
    BY <1>4, <1>p DEF ClosePR, SweepPRs
  <2> QED BY <2>1, BeliefsFramed
<1> QED BY <1>1, <1>2, <1>3, <1>4 DEF Maintainers

LEMMA BeliefsFixer == TypeOK /\ JobBeliefs /\ OthersHoldTips /\ Fixer => JobBeliefs'
<1> SUFFICES ASSUME TypeOK, JobBeliefs, OthersHoldTips, Fixer PROVE JobBeliefs'
  OBVIOUS
<1>r. pr.open => remote \in Tips /\ remote # NoTip
  BY DEF JobBeliefs, OpenPRHasBranch, TypeOK
<1>1. CASE FixStart \/ FixRecheck
  BY <1>1, <1>r, ExtendsItself, BeliefsFramed DEF FixStart, FixRecheck, github
<1>2. CASE FixPush
  <2>1. fixer.expected \in Tips /\ budget.fixes \in Nat
    BY <1>2 DEF FixPush, OthersHoldTips, TypeOK, Budgets
  <2>2. Extends([fixer.expected EXCEPT !.fixes = @ \union {budget.fixes}], fixer.expected)
    BY <2>1 DEF Extends, Tips
  <2>3. pr.open => Extends(remote', remote)
    BY <1>2, <1>r, <2>2, ExtendsItself DEF FixPush, FixLeaseHolds
  <2>4. pr.open => remote' # NoTip
    BY <2>3, NoTipAssumption DEF Extends
  <2> QED BY <1>2, <2>3, <2>4, BeliefsFramed DEF FixPush
<1> QED BY <1>1, <1>2 DEF Fixer

LEMMA BeliefsReverter == TypeOK /\ JobBeliefs /\ OthersHoldTips /\ Reverter => JobBeliefs'
<1> SUFFICES ASSUME TypeOK, JobBeliefs, OthersHoldTips, Reverter PROVE JobBeliefs'
  OBVIOUS
<1>r. pr.open => remote \in Tips /\ remote # NoTip
  BY DEF JobBeliefs, OpenPRHasBranch, TypeOK
<1>1. CASE (\E p \in Prs : RevertClone(p)) \/ RevertReadBody
  BY <1>1, <1>r, ExtendsItself, BeliefsFramed DEF RevertClone, RevertReadBody, github
<1>2. CASE RevertPush
  <2>1. reverter.seen \in Tips /\ reverter.pick \in SUBSET Prs
    BY <1>2 DEF RevertPush, OthersHoldTips, TypeOK, Reverters
  <2>2. Extends([reverter.seen EXCEPT !.reverted = @ \union reverter.pick], reverter.seen)
    BY <2>1 DEF Extends, Tips
  <2>3. pr.open => Extends(remote', remote)
    BY <1>2, <1>r, <2>2, ExtendsItself DEF RevertPush
  <2>4. pr.open => remote' # NoTip
    BY <2>3, NoTipAssumption DEF Extends
  <2> QED BY <1>2, <2>3, <2>4, BeliefsFramed DEF RevertPush
<1>3. CASE RevertWriteBody
  <2>1. pr'.num = pr.num /\ pr'.open = pr.open
    BY <1>3 DEF RevertWriteBody, TypeOK, SweepPRs
  <2> QED BY <1>3, <2>1, <1>r, ExtendsItself, BeliefsFramed DEF RevertWriteBody
<1> QED BY <1>1, <1>2, <1>3 DEF Reverter

(* The job's own steps.  <1>5 is where the order of its reads matters: the
   branch it fetches extends the lease it read before.                     *)
LEMMA BeliefsJob ==
  TypeOK /\ JobBeliefs /\ (StartSweep \/ StartPoll \/ JobStep \/ JobFails) => JobBeliefs'
<1> SUFFICES ASSUME TypeOK, JobBeliefs, StartSweep \/ StartPoll \/ JobStep \/ JobFails
             PROVE  JobBeliefs'
  OBVIOUS
<1>j. job \in Jobs /\ target \in Targets /\ remote \in Tips \union {NoTip} /\ pr \in SweepPRs
  BY DEF TypeOK
<1>b. /\ pr.open => pr.num # 0 /\ remote # NoTip
      /\ pr.open => remote \in Tips
  BY <1>j DEF JobBeliefs, OpenPRHasBranch
<1> DEFINE Early == {"idle", "started", "discovered"}
<1>0. ASSUME UNCHANGED github, job'.phase \in Early PROVE JobBeliefs'
  BY <1>0, <1>b DEF github, JobBeliefs, OpenPRHasBranch, NoPRAppears, CloneStaysLanded,
     LeaseIsAPrefix, HeadCoversLease, SeenPR, HeadKnown, HeadBuilt
<1>i. IdleJob.phase = "idle"
  BY DEF IdleJob
<1>1. CASE StartSweep \/ StartPoll \/ JobFails \/ Discover
  <2>1. UNCHANGED github /\ job'.phase \in Early
    BY <1>1, <1>i, <1>j DEF StartSweep, StartPoll, JobFails, Discover, Jobs, IdleJob
  <2> QED BY <2>1, <1>0
<1>2. CASE CloneTarget
  BY <1>2, <1>j, <1>b DEF CloneTarget, Jobs, github, JobBeliefs, OpenPRHasBranch, NoPRAppears,
     CloneStaysLanded, LeaseIsAPrefix, HeadCoversLease, SeenPR, HeadKnown, HeadBuilt
<1>3. CASE FindPR
  BY <1>3, <1>j, <1>b DEF FindPR, OpenPR, Jobs, github, JobBeliefs, OpenPRHasBranch,
     NoPRAppears, CloneStaysLanded, LeaseIsAPrefix, HeadCoversLease, SeenPR, HeadKnown,
     HeadBuilt
<1>4. CASE ReadRemoteHead
  <2>1. CASE job'.phase = "idle"
    BY <1>4, <2>1, <1>0 DEF ReadRemoteHead
  <2>2. CASE job' = [job EXCEPT !.phase = "head_read", !.expected = remote]
    <3>1. pr.open => Extends(remote, remote)
      BY <1>b, ExtendsItself
    <3> QED BY <1>4, <2>2, <3>1, <1>j, <1>b DEF ReadRemoteHead, Jobs, github, JobBeliefs,
            OpenPRHasBranch, NoPRAppears, CloneStaysLanded, LeaseIsAPrefix, HeadCoversLease,
            SeenPR, HeadKnown, HeadBuilt
  <2> QED BY <1>4, <2>1, <2>2, <1>i DEF ReadRemoteHead
<1>5. CASE PrepareBranch
  <2>1. CASE job'.phase = "idle"
    BY <1>5, <2>1, <1>0 DEF PrepareBranch
  <2>2. CASE /\ job.pr = 0
             /\ job' = [job EXCEPT !.phase = "branch_ready", !.head = FreshTip(job.base)]
    <3>1. ~pr.open
      BY <1>5, <2>2 DEF PrepareBranch, JobBeliefs, NoPRAppears, SeenPR
    <3>2. FreshTip(job.base) \in Tips
      BY <1>j DEF FreshTip, Tips, Targets, Jobs
    <3> QED BY <1>5, <2>2, <3>1, <3>2, <1>j DEF PrepareBranch, Jobs, github, JobBeliefs,
            OpenPRHasBranch, NoPRAppears, CloneStaysLanded, LeaseIsAPrefix, HeadCoversLease,
            SeenPR, HeadKnown, HeadBuilt
  <2>3. CASE /\ job.pr # 0 /\ remote # NoTip
             /\ job' = [job EXCEPT !.phase = "branch_ready", !.head = Rebased(remote, job.base)]
    <3>1. Rebased(remote, job.base) \in Tips
      BY <1>j, <2>3 DEF Rebased, Tips, Targets, Jobs
    <3>2. pr.open => Extends(remote, job.expected)
      BY <1>5 DEF PrepareBranch, JobBeliefs, LeaseIsAPrefix, HeadKnown, SeenPR
    <3>3. pr.open =>
            Rolling!Keeps(Rebased(remote, job.base), job.expected, job.base.content)
      BY <3>2, <2>3, <1>j DEF Extends, Rebased, Rolling!Keeps, Tips
    <3> QED BY <1>5, <2>3, <3>1, <3>2, <3>3, <1>j, <1>b DEF PrepareBranch, Jobs, github,
            JobBeliefs, OpenPRHasBranch, NoPRAppears, CloneStaysLanded, LeaseIsAPrefix,
            HeadCoversLease, SeenPR, HeadKnown, HeadBuilt
  <2> QED BY <1>5, <2>1, <2>2, <2>3, <1>i DEF PrepareBranch
<1>6. CASE ApplyCandidates
  <2>1. CASE job'.phase = "idle"
    BY <1>6, <2>1, <1>0 DEF ApplyCandidates
  <2>2. CASE \E v \in BOOLEAN :
               job' = [job EXCEPT !.phase = "prepared", !.validated = v,
                         !.head = [job.head EXCEPT !.commits = @ \union Picked]]
    <3> DEFINE new == [job.head EXCEPT !.commits = @ \union Picked]
    <3>1. job.head \in Tips
      BY <1>6 DEF ApplyCandidates, JobBeliefs, HeadCoversLease, HeadBuilt, HeadKnown, SeenPR
    <3>2. new \in Tips
      BY <3>1, <1>j DEF Tips, Picked, Accepted, Pending, Jobs
    <3>3. pr.open => Rolling!Keeps(job.head, job.expected, job.base.content)
      BY <1>6 DEF ApplyCandidates, JobBeliefs, HeadCoversLease, HeadBuilt, HeadKnown, SeenPR
    <3>4. pr.open => Rolling!Keeps(new, job.expected, job.base.content)
      BY <3>3, <3>1 DEF Rolling!Keeps, Tips
    <3>5. /\ job'.phase = "prepared" /\ job'.pr = job.pr /\ job'.base = job.base
          /\ job'.expected = job.expected /\ job'.head = new
      BY <2>2, <1>j DEF Jobs
    <3> HIDE DEF new
    <3> QED BY <1>6, <3>2, <3>4, <3>5, <1>b DEF ApplyCandidates, github,
            JobBeliefs, OpenPRHasBranch, NoPRAppears, CloneStaysLanded, LeaseIsAPrefix,
            HeadCoversLease, SeenPR, HeadKnown, HeadBuilt
  <2> QED BY <1>6, <2>1, <2>2, <1>i DEF ApplyCandidates
<1>7. CASE CheckTarget \/ CheckRemote \/ CheckPR
  <2>1. CASE job' = IdleJob
    BY <1>7, <2>1, <1>0, <1>i DEF CheckTarget, CheckRemote, CheckPR, Check
  <2>2. CASE /\ job.phase \in {"prepared", "target_ok", "remote_ok"}
             /\ \E to \in {"target_ok", "remote_ok", "pr_ok"} : job' = [job EXCEPT !.phase = to]
             /\ UNCHANGED github
    BY <2>2, <1>j, <1>b DEF Jobs, github, JobBeliefs, OpenPRHasBranch, NoPRAppears,
       CloneStaysLanded, LeaseIsAPrefix, HeadCoversLease, SeenPR, HeadKnown, HeadBuilt
  <2> QED BY <1>7, <2>1, <2>2 DEF CheckTarget, CheckRemote, CheckPR, Check
<1>8. CASE Push
  <2>1. CASE job' = IdleJob /\ UNCHANGED remote
    BY <1>8, <2>1, <1>0, <1>i DEF Push, github
  <2>2. CASE remote' = job.head /\ job' = [job EXCEPT !.phase = "pushed"]
    <3>1. job.head \in Tips
      BY <1>8 DEF Push, JobBeliefs, HeadCoversLease, HeadBuilt, HeadKnown, SeenPR
    <3>2. remote' # NoTip
      BY <2>2, <3>1, NoTipAssumption
    <3> QED BY <1>8, <2>2, <3>1, <3>2, <1>j, <1>b DEF Push, Jobs, JobBeliefs, OpenPRHasBranch,
            NoPRAppears, CloneStaysLanded, LeaseIsAPrefix, HeadCoversLease, SeenPR, HeadKnown,
            HeadBuilt
  <2> QED BY <1>8, <2>1, <2>2 DEF Push
<1>9. CASE UpsertPR
  <2>1. job' = IdleJob /\ UNCHANGED <<target, remote>>
    BY <1>9 DEF UpsertPR
  <2>2. pr'.open => pr'.num # 0 /\ remote' # NoTip
    BY <1>9, <1>j, <1>b DEF UpsertPR, SweepPRs
  <2> QED BY <2>1, <2>2, <1>i DEF JobBeliefs, OpenPRHasBranch, NoPRAppears, CloneStaysLanded,
          LeaseIsAPrefix, HeadCoversLease, SeenPR, HeadKnown, HeadBuilt
<1> QED BY <1>1, <1>2, <1>3, <1>4, <1>5, <1>6, <1>7, <1>8, <1>9 DEF JobStep

(* The steps of the board reconcile touch none of what the job believes. *)
LEMMA BeliefsMarker ==
  TypeOK /\ JobBeliefs /\ (Marker \/ MarkFails \/ UNCHANGED vars) => JobBeliefs'
<1> SUFFICES ASSUME TypeOK, JobBeliefs, Marker \/ MarkFails \/ UNCHANGED vars
             PROVE  JobBeliefs'
  OBVIOUS
<1>1. UNCHANGED <<target, remote, pr, job>>
  BY DEF Marker, MarkLoad, MarkVerify, MarkDone, MarkFails, vars, github
<1>2. pr.open => remote \in Tips /\ remote # NoTip
  BY DEF JobBeliefs, OpenPRHasBranch, TypeOK
<1> QED BY <1>1, <1>2, ExtendsItself, BeliefsFramed

LEMMA OthersStep == Inductive /\ [Next]_vars => OthersHoldTips' /\ DoneImpliesNamed'
<1> SUFFICES ASSUME Inductive, [Next]_vars PROVE OthersHoldTips' /\ DoneImpliesNamed'
  OBVIOUS
<1>n. target.named \subseteq target'.named
  BY NamedGrows DEF Inductive
<1>t. TypeOK /\ DoneImpliesNamed /\ OthersHoldTips
  BY DEF Inductive
<1>0. ASSUME UNCHANGED others, \A p \in Prs : board'[p] = "done" => board[p] = "done"
      PROVE  OthersHoldTips' /\ DoneImpliesNamed'
  BY <1>0, <1>n, <1>t DEF others, OthersHoldTips, DoneImpliesNamed
<1>1. CASE Maintainers
  <2>1. UNCHANGED others
    BY <1>1 DEF Maintainers, MoveCard, CommitToTarget, MergePR, ClosePR
  <2>2. \A p \in Prs : board'[p] = "done" => board[p] = "done"
    BY <1>1, <1>t DEF Maintainers, MoveCard, CommitToTarget, MergePR, ClosePR, TypeOK
  <2> QED BY <2>1, <2>2, <1>0
<1>2. CASE StartSweep \/ StartPoll \/ JobStep \/ JobFails
  <2>1. UNCHANGED others /\ UNCHANGED board
    BY <1>2 DEF StartSweep, StartPoll, JobFails, JobStep, Discover, CloneTarget, FindPR,
       ReadRemoteHead, PrepareBranch, ApplyCandidates, CheckTarget, CheckRemote, CheckPR,
       Check, Push, UpsertPR, github
  <2> QED BY <2>1, <1>0
<1>3. CASE Fixer
  <2>1. fixer'.phase # "idle" => fixer'.expected \in Tips
    <3>1. CASE FixStart
      BY <3>1, <1>t DEF FixStart, TypeOK
    <3>2. CASE FixRecheck
      BY <3>2, <1>t DEF FixRecheck, IdleFixer, OthersHoldTips, TypeOK, Fixers
    <3>3. CASE FixPush
      BY <3>3 DEF FixPush, IdleFixer
    <3> QED BY <1>3, <3>1, <3>2, <3>3 DEF Fixer
  <2>2. UNCHANGED <<board, reverter, marker>>
    BY <1>3 DEF Fixer, FixStart, FixRecheck, FixPush, github
  <2> QED BY <2>1, <2>2, <1>n, <1>t DEF OthersHoldTips, DoneImpliesNamed
<1>4. CASE Reverter
  <2>1. reverter'.phase = "cloned" => reverter'.seen \in Tips
    <3>0. reverter \in Reverters /\ remote \in Tips \union {NoTip}
      BY <1>t DEF TypeOK
    <3>1. ASSUME NEW p \in Prs, RevertClone(p) PROVE reverter'.seen \in Tips
      <4>1. reverter'.seen = remote
        BY <3>1 DEF RevertClone, IdleReverter
      <4> QED BY <3>0, <3>1, <4>1 DEF RevertClone
    <3>i. IdleReverter.phase = "idle"
      BY DEF IdleReverter
    <3>2. CASE RevertPush
      <4>1. reverter'.phase \in {"idle", "pushed"}
        BY <3>0, <3>2, <3>i DEF RevertPush, Reverters
      <4> QED BY <4>1
    <3>3. CASE RevertReadBody
      <4>1. reverter'.phase \in {"idle", "read"}
        BY <3>0, <3>3, <3>i DEF RevertReadBody, Reverters
      <4> QED BY <4>1
    <3>4. CASE RevertWriteBody
      BY <3>4, <3>i DEF RevertWriteBody
    <3> QED BY <1>4, <3>1, <3>2, <3>3, <3>4 DEF Reverter
  <2>2. UNCHANGED <<board, fixer, marker>>
    BY <1>4 DEF Reverter, RevertClone, RevertPush, RevertReadBody, RevertWriteBody, github
  <2> QED BY <2>1, <2>2, <1>n, <1>t DEF OthersHoldTips, DoneImpliesNamed
<1>5. CASE Marker \/ MarkFails
  <2>1. UNCHANGED <<target, fixer, reverter>>
    BY <1>5 DEF Marker, MarkLoad, MarkVerify, MarkDone, MarkFails, github
  <2>2. marker'.phase = "verified" => marker'.verified \subseteq target.named
    <3>0. CASE MarkFails
      <4>1. marker'.phase = "idle"
        BY <3>0 DEF MarkFails, IdleMarker
      <4> QED BY <4>1
    <3>1. CASE MarkLoad
      <4>1. marker'.phase = "loaded"
        BY <3>1, IdleTypes DEF MarkLoad, Markers
      <4> QED BY <4>1
    <3>2. CASE MarkVerify
      BY <3>2, <1>t DEF MarkVerify, Verified, IdleMarker, TypeOK, Markers
    <3>3. ASSUME NEW p \in Prs, MarkDone(p) PROVE marker'.phase = "verified" =>
                                                    marker'.verified \subseteq target.named
      BY <3>3, <1>t DEF MarkDone, IdleMarker, TypeOK, Markers, OthersHoldTips
    <3> QED BY <1>5, <3>0, <3>1, <3>2, <3>3 DEF Marker
  <2>3. \A q \in Prs : board'[q] = "done" => q \in target.named
    <3>1. CASE MarkLoad \/ MarkVerify \/ MarkFails
      BY <3>1, <1>t DEF MarkLoad, MarkVerify, MarkFails, github, DoneImpliesNamed
    <3>2. ASSUME NEW p \in Prs, MarkDone(p)
          PROVE  \A q \in Prs : board'[q] = "done" => q \in target.named
      <4>1. p \in target.named
        BY <3>2, <1>t DEF MarkDone, OthersHoldTips
      <4> QED BY <3>2, <4>1, <1>t DEF MarkDone, DoneImpliesNamed, TypeOK
    <3> QED BY <1>5, <3>1, <3>2 DEF Marker
  <2> QED BY <2>1, <2>2, <2>3, <1>t DEF OthersHoldTips, DoneImpliesNamed
<1>6. CASE UNCHANGED vars
  BY <1>6, <1>0 DEF vars, others
<1> QED BY <1>1, <1>2, <1>3, <1>4, <1>5, <1>6 DEF Next

-----------------------------------------------------------------------------
(* What the job would add, and whom the poller found. *)

JobPromises == PollSeesNone /\ LeaseHasBranch /\ PicksAreNew

(* Steps around the job that open no PR, and of a branch without one only
   extend the tip, leave its promises true.                                *)
LEMMA PromisesFramed ==
  ASSUME JobPromises, job' = job, pr'.open => pr.open,
         ~pr.open /\ remote # NoTip => remote' # NoTip /\ remote'.commits = remote.commits
  PROVE  JobPromises'
<1>1. PollSeesNone'
  BY DEF JobPromises, PollSeesNone
<1>2. NewPicks' = NewPicks
  BY DEF NewPicks
<1>3. BranchReplaced => BranchReplaced'
  BY DEF BranchReplaced
<1>4. PicksAreNew'
  BY <1>2, <1>3 DEF JobPromises, PicksAreNew
<1>5. LeaseHasBranch'
  BY DEF JobPromises, LeaseHasBranch
<1> QED BY <1>1, <1>4, <1>5 DEF JobPromises

LEMMA PromisesOthers ==
  Inductive /\ (Maintainers \/ Fixer \/ Reverter \/ Marker \/ MarkFails) => JobPromises'
<1> SUFFICES ASSUME Inductive, Maintainers \/ Fixer \/ Reverter \/ Marker \/ MarkFails
             PROVE  JobPromises'
  OBVIOUS
<1>j. JobPromises /\ TypeOK /\ OthersHoldTips
  BY DEF Inductive, JobPromises
<1>0. ASSUME UNCHANGED <<job, remote>>, pr'.open => pr.open PROVE JobPromises'
  BY <1>0, <1>j, PromisesFramed
<1>1. CASE Maintainers
  <2>1. job' = job /\ (~pr.open => UNCHANGED <<pr, remote>>)
    BY <1>1 DEF Maintainers, MoveCard, CommitToTarget, MergePR, ClosePR
  <2> QED BY <2>1, <1>j, PromisesFramed
<1>2. CASE Fixer /\ ~FixPush
  BY <1>2, <1>0 DEF Fixer, FixStart, FixRecheck, github
<1>3. CASE FixPush
  <2>1. fixer.expected \in Tips
    BY <1>3, <1>j DEF FixPush, OthersHoldTips
  <2>2. \/ remote' = remote
        \/ /\ remote = fixer.expected
           /\ remote' = [fixer.expected EXCEPT !.fixes = @ \union {budget.fixes}]
    BY <1>3 DEF FixPush, FixLeaseHolds
  <2>3. [fixer.expected EXCEPT !.fixes = @ \union {budget.fixes}].commits
          = fixer.expected.commits
    BY <2>1 DEF Tips
  <2>4. remote # NoTip => remote'.commits = remote.commits
    BY <2>2, <2>3
  <2>5. [fixer.expected EXCEPT !.fixes = @ \union {budget.fixes}] \in Tips
    BY <2>1, <1>j DEF TypeOK, Tips, Budgets
  <2>6. remote # NoTip => remote' # NoTip
    BY <2>2, <2>5, NoTipAssumption
  <2> QED BY <1>3, <2>4, <2>6, <1>j, PromisesFramed DEF FixPush
<1>4. CASE Reverter /\ ~RevertPush
  <2>1. UNCHANGED <<job, remote>> /\ pr'.open = pr.open
    BY <1>4, <1>j DEF Reverter, RevertClone, RevertReadBody, RevertWriteBody, github, TypeOK,
       SweepPRs
  <2> QED BY <2>1, <1>0
<1>5. CASE RevertPush
  <2>1. reverter.seen \in Tips /\ reverter.pick \in SUBSET Prs
    BY <1>5, <1>j DEF RevertPush, OthersHoldTips, TypeOK, Reverters
  <2> DEFINE reverted == [reverter.seen EXCEPT !.reverted = @ \union reverter.pick]
  <2>2. reverted \in Tips /\ reverted.commits = reverter.seen.commits
    BY <2>1 DEF Tips
  <2>3. remote # NoTip
          => \/ remote' = remote
             \/ remote = reverter.seen /\ remote' = reverted
    BY <1>5 DEF RevertPush
  <2> HIDE DEF reverted
  <2>4. remote # NoTip => remote' # NoTip /\ remote'.commits = remote.commits
    BY <2>2, <2>3, NoTipAssumption
  <2> QED BY <1>5, <2>4, <1>j, PromisesFramed DEF RevertPush
<1>6. CASE Marker \/ MarkFails
  BY <1>6, <1>0 DEF Marker, MarkLoad, MarkVerify, MarkDone, MarkFails, github
<1> QED BY <1>1, <1>2, <1>3, <1>4, <1>5, <1>6

(* <1>4 is where a branch may have been replaced: what is fetched without an
   open PR need not extend the lease.                                      *)
LEMMA PromisesJob ==
  Inductive /\ (StartSweep \/ StartPoll \/ JobStep \/ JobFails) => JobPromises'
<1> SUFFICES ASSUME Inductive, StartSweep \/ StartPoll \/ JobStep \/ JobFails
             PROVE  JobPromises'
  OBVIOUS
<1>j. JobPromises /\ job \in Jobs /\ remote \in Tips \union {NoTip}
  BY DEF Inductive, TypeOK, JobPromises
<1>i. IdleJob.phase = "idle"
  BY DEF IdleJob
<1>0. ASSUME job'.phase = "idle" PROVE JobPromises'
  BY <1>0 DEF JobPromises, PollSeesNone, LeaseHasBranch, PicksAreNew, HeadBuilt, HeadKnown, SeenPR
<1>1. CASE StartSweep \/ StartPoll
  <2>1. UNCHANGED pr
    BY <1>1 DEF StartSweep, StartPoll, github
  <2>2. job'.phase = "started"
    BY <1>1 DEF StartSweep, StartPoll, IdleJob
  <2>3. CASE StartSweep
    <3>1. job'.kind = "sweep"
      BY <2>3 DEF StartSweep, IdleJob
    <3> QED BY <2>2, <3>1 DEF JobPromises, PollSeesNone, LeaseHasBranch, PicksAreNew, HeadBuilt,
            HeadKnown, SeenPR
  <2>4. CASE StartPoll
    <3>1. ~pr.open
      BY <2>4 DEF StartPoll, PollSeesNoPR
    <3> QED BY <2>1, <2>2, <3>1 DEF JobPromises, PollSeesNone, LeaseHasBranch, PicksAreNew,
            HeadBuilt, HeadKnown, SeenPR
  <2> QED BY <1>1, <2>3, <2>4
<1>2. ASSUME job.phase # "idle", job'.kind = job.kind, UNCHANGED pr PROVE PollSeesNone'
  BY <1>2, <1>j DEF JobPromises, PollSeesNone
<1>h. ASSUME job.phase \in HeadKnown, job'.pr = job.pr, job'.expected = job.expected
      PROVE  LeaseHasBranch'
  BY <1>h, <1>j DEF JobPromises, LeaseHasBranch
<1>3. CASE Discover \/ CloneTarget \/ FindPR \/ ReadRemoteHead \/ Push
  <2>1. CASE job'.phase = "idle"
    BY <2>1, <1>0
  <2>2. CASE job'.phase # "idle"
    <3>1. /\ job.phase # "idle" /\ job'.kind = job.kind /\ UNCHANGED pr
          /\ job'.phase \in {"discovered", "cloned", "pr_seen", "head_read", "pushed"}
      BY <1>3, <2>2, <1>i, <1>j DEF Discover, CloneTarget, FindPR, ReadRemoteHead, Push, Jobs,
         github
    <3>2. PicksAreNew'
      BY <3>1 DEF PicksAreNew, HeadBuilt, HeadKnown, SeenPR
    <3>3. CASE ReadRemoteHead
      <4>1. job'.pr # 0 => job'.expected # NoTip
        BY <2>2, <3>3, <1>i, <1>j DEF ReadRemoteHead, Jobs
      <4> QED BY <3>1, <3>2, <4>1, <1>2 DEF JobPromises, LeaseHasBranch
    <3>4. CASE ~ReadRemoteHead
      <4>1. job'.phase \notin HeadKnown
        BY <1>3, <2>2, <3>4, <1>i, <1>j DEF Discover, CloneTarget, FindPR, Push, Jobs, HeadKnown,
           SeenPR
      <4> QED BY <3>1, <3>2, <4>1, <1>2 DEF JobPromises, LeaseHasBranch
    <3> QED BY <3>3, <3>4
  <2> QED BY <2>1, <2>2
<1>4. CASE PrepareBranch
  <2>1. CASE job'.phase = "idle"
    BY <2>1, <1>0
  <2>2. CASE job'.phase # "idle"
    <3>1. /\ job.phase = "head_read" /\ UNCHANGED <<pr, remote>> /\ job'.kind = job.kind
          /\ job'.pr = job.pr /\ job'.expected = job.expected /\ job'.base = job.base
          /\ \/ job.pr = 0 /\ job'.head = FreshTip(job.base)
             \/ job.pr # 0 /\ remote # NoTip /\ job'.head = Rebased(remote, job.base)
      BY <1>4, <2>2, <1>i, <1>j DEF PrepareBranch, Jobs, github
    <3>h. LeaseHasBranch'
      BY <3>1, <1>h DEF HeadKnown, SeenPR
    <3>2. CASE job.pr = 0
      <4>1. NewPicks' = {}
        BY <3>1, <3>2 DEF NewPicks, FreshTip
      <4>2. PicksAreNew'
        BY <4>1 DEF PicksAreNew
      <4> QED BY <3>1, <3>h, <4>2, <1>2 DEF JobPromises
    <3>3. CASE job.pr # 0 /\ remote.commits = job.expected.commits
      <4>1. job'.head.commits \subseteq remote.commits
        BY <3>1, <3>3, <1>j DEF Rebased, Tips
      <4>2. NewPicks' = {}
        BY <3>1, <3>3, <4>1 DEF NewPicks
      <4>3. PicksAreNew'
        BY <4>2 DEF PicksAreNew
      <4> QED BY <3>1, <3>h, <4>3, <1>2 DEF JobPromises
    <3>4. CASE job.pr # 0 /\ remote.commits # job.expected.commits
      <4>1. ~pr.open
        BY <3>1, <3>4 DEF Inductive, LeaseIsAPrefix, Extends, HeadKnown, SeenPR
      <4>2. BranchReplaced'
        BY <3>1, <3>4, <4>1 DEF BranchReplaced
      <4> QED BY <3>1, <3>h, <4>2, <1>2 DEF JobPromises, PicksAreNew
    <3> QED BY <3>2, <3>3, <3>4
  <2> QED BY <2>1, <2>2
<1>5. CASE ApplyCandidates
  <2>1. CASE job'.phase = "idle"
    BY <2>1, <1>0
  <2>2. CASE job'.phase # "idle"
    <3>1. job.head \in Tips /\ job.phase \in HeadBuilt
      BY <1>5 DEF ApplyCandidates, Inductive, HeadCoversLease, HeadBuilt, HeadKnown, SeenPR
    <3>2. /\ job.phase = "branch_ready" /\ UNCHANGED <<pr, remote>> /\ job'.kind = job.kind
          /\ job'.pr = job.pr /\ job'.expected = job.expected /\ job'.base = job.base
          /\ job'.head = [job.head EXCEPT !.commits = @ \union Picked]
      BY <1>5, <2>2, <1>i, <1>j DEF ApplyCandidates, Jobs, github
    <3>3. job'.head.commits = job.head.commits \union Picked
      BY <3>1, <3>2 DEF Tips
    <3>4. Picked \intersect job.base.named = {}
      BY DEF Picked, Accepted, Pending
    <3>5. NewPicks' \subseteq NewPicks \union Picked
      BY <3>2, <3>3 DEF NewPicks
    <3>6. BranchReplaced => BranchReplaced'
      BY <3>2 DEF BranchReplaced
    <3>7. PicksAreNew'
      BY <3>1, <3>2, <3>4, <3>5, <3>6, <1>j DEF JobPromises, PicksAreNew
    <3>8. LeaseHasBranch'
      BY <3>2, <1>h DEF HeadKnown, SeenPR
    <3> QED BY <3>2, <3>7, <3>8, <1>2 DEF JobPromises
  <2> QED BY <2>1, <2>2
<1>6. CASE CheckTarget \/ CheckRemote \/ CheckPR
  <2>1. CASE job'.phase = "idle"
    BY <2>1, <1>0
  <2>2. CASE job'.phase # "idle"
    <3>1. /\ job.phase \in HeadBuilt /\ job.phase # "idle" /\ UNCHANGED <<pr, remote>>
          /\ job'.kind = job.kind /\ job'.pr = job.pr /\ job'.expected = job.expected
          /\ job'.base = job.base /\ job'.head = job.head
      BY <1>6, <2>2, <1>i, <1>j DEF CheckTarget, CheckRemote, CheckPR, Check, Jobs, github,
         HeadBuilt, HeadKnown, SeenPR
    <3>2. NewPicks' = NewPicks /\ (BranchReplaced => BranchReplaced')
      BY <3>1 DEF NewPicks, BranchReplaced
    <3>3. PicksAreNew'
      BY <3>1, <3>2, <1>j DEF JobPromises, PicksAreNew
    <3>4. LeaseHasBranch'
      BY <3>1, <1>h DEF HeadBuilt
    <3> QED BY <3>1, <3>3, <3>4, <1>2 DEF JobPromises
  <2> QED BY <2>1, <2>2
<1>7. CASE UpsertPR \/ JobFails
  BY <1>7, <1>0, <1>i DEF UpsertPR, JobFails
<1> QED BY <1>1, <1>3, <1>4, <1>5, <1>6, <1>7 DEF JobStep

LEMMA InductiveInit == Init => Inductive
<1> SUFFICES ASSUME Init PROVE Inductive
  OBVIOUS
<1>1. TypeOK
  BY TypeInit
<1>2. DoneImpliesNamed
  BY DEF Init, DoneImpliesNamed
<1>3. OpenPRHasBranch /\ NoPRAppears /\ CloneStaysLanded
  BY DEF Init, OpenPRHasBranch, NoPRAppears, CloneStaysLanded
<1>4. LeaseIsAPrefix /\ HeadCoversLease
  BY DEF Init, IdleJob, LeaseIsAPrefix, HeadCoversLease, HeadKnown, HeadBuilt, SeenPR
<1>5. OthersHoldTips
  BY DEF Init, IdleFixer, IdleReverter, IdleMarker, OthersHoldTips
<1>6. PollSeesNone /\ LeaseHasBranch /\ PicksAreNew
  BY DEF Init, IdleJob, PollSeesNone, LeaseHasBranch, PicksAreNew, HeadBuilt, HeadKnown, SeenPR
<1> QED BY <1>1, <1>2, <1>3, <1>4, <1>5, <1>6 DEF Inductive

LEMMA InductiveStep == Inductive /\ [Next]_vars => Inductive'
<1> SUFFICES ASSUME Inductive, [Next]_vars PROVE Inductive'
  OBVIOUS
<1>1. TypeOK /\ JobBeliefs /\ OthersHoldTips /\ HeadCoversLease
  BY DEF Inductive, JobBeliefs
<1>2. TypeOK'
  <2>1. CASE UNCHANGED vars
    BY <1>1, <2>1 DEF vars, TypeOK
  <2> QED BY <1>1, <2>1, TypeMaintainers, TypeJobStep, TypeJobEnds, TypeFixer, TypeReverter,
          TypeMarker DEF Next
<1>3. JobBeliefs'
  BY <1>1, BeliefsMaintainers, BeliefsJob, BeliefsFixer, BeliefsReverter, BeliefsMarker
     DEF Next
<1>4. OthersHoldTips' /\ DoneImpliesNamed'
  BY OthersStep
<1>5. JobPromises'
  <2>1. CASE UNCHANGED vars
    BY <2>1 DEF vars, Inductive, JobPromises, PollSeesNone, LeaseHasBranch, PicksAreNew, NewPicks,
       BranchReplaced
  <2> QED BY <2>1, PromisesOthers, PromisesJob DEF Next
<1> QED BY <1>2, <1>3, <1>4, <1>5 DEF Inductive, JobBeliefs, JobPromises

(* While the PR is open, a step that leaves a branch leaves its commits. *)
LEMMA StepKeeps ==
  ASSUME Inductive, Next, pr.open, remote # NoTip, remote' # NoTip
  PROVE  Rolling!Keeps(remote', remote, target.content)
<1>t. TypeOK /\ OthersHoldTips /\ remote \in Tips
  BY DEF Inductive, TypeOK
<1>0. ASSUME remote' = remote PROVE Rolling!Keeps(remote', remote, target.content)
  BY <1>0 DEF Rolling!Keeps
<1>1. CASE Maintainers
  BY <1>1, <1>0 DEF Maintainers, MoveCard, CommitToTarget, MergePR, ClosePR
<1>2. CASE Push /\ LeaseHolds
  <2>1. /\ job.phase = "pr_ok" /\ remote' = job.head /\ remote = job.expected
    BY <1>2 DEF Push, LeaseHolds
  <2>2. Rolling!Keeps(job.head, job.expected, job.base.content)
    BY <2>1 DEF Inductive, HeadCoversLease, HeadBuilt, HeadKnown, SeenPR
  <2>3. job.base.content \subseteq target.content
    BY <2>1 DEF Inductive, CloneStaysLanded, SeenPR
  <2> QED BY <2>1, <2>2, <2>3 DEF Rolling!Keeps
<1>3. CASE (StartSweep \/ StartPoll \/ JobStep \/ JobFails) /\ ~(Push /\ LeaseHolds)
  <2>1. remote' = remote
    BY <1>3 DEF StartSweep, StartPoll, JobFails, JobStep, Discover, CloneTarget, FindPR,
       ReadRemoteHead, PrepareBranch, ApplyCandidates, CheckTarget, CheckRemote, CheckPR,
       Check, Push, UpsertPR, github
  <2> QED BY <2>1, <1>0
<1>4. CASE Fixer
  <2>1. CASE FixPush /\ FixLeaseHolds
    <3>1. fixer.expected \in Tips /\ remote = fixer.expected
          /\ remote' = [fixer.expected EXCEPT !.fixes = @ \union {budget.fixes}]
      BY <2>1, <1>t DEF FixPush, FixLeaseHolds, OthersHoldTips
    <3> QED BY <3>1 DEF Rolling!Keeps, Tips
  <2>2. CASE ~(FixPush /\ FixLeaseHolds)
    BY <1>4, <2>2, <1>0 DEF Fixer, FixStart, FixRecheck, FixPush, github
  <2> QED BY <2>1, <2>2
<1>5. CASE Reverter
  <2>1. CASE RevertPush /\ remote = reverter.seen
    <3>1. reverter.seen \in Tips /\ remote = reverter.seen
          /\ remote' = [reverter.seen EXCEPT !.reverted = @ \union reverter.pick]
      BY <2>1, <1>t DEF RevertPush, OthersHoldTips
    <3> QED BY <3>1 DEF Rolling!Keeps, Tips
  <2>2. CASE ~(RevertPush /\ remote = reverter.seen)
    BY <1>5, <2>2, <1>0 DEF Reverter, RevertClone, RevertPush, RevertReadBody,
       RevertWriteBody, github
  <2> QED BY <2>1, <2>2
<1>6. CASE Marker \/ MarkFails
  BY <1>6, <1>0 DEF Marker, MarkLoad, MarkVerify, MarkDone, MarkFails, github
<1> QED BY <1>1, <1>2, <1>3, <1>4, <1>5, <1>6 DEF Next

-----------------------------------------------------------------------------
(* Results *)

(* The inductive invariant holds in every reachable state. *)
THEOREM InductiveHolds == Spec => []Inductive
  BY InductiveInit, InductiveStep, PTL DEF Spec

(* Every variable keeps its type. *)
THEOREM TypeCorrect == Spec => []TypeOK
<1>1. Inductive => TypeOK
  BY DEF Inductive
<1> QED BY <1>1, InductiveHolds, PTL

(* The reconcile marks Done only what the release branch's history names,
   for any interleaving of card moves, merges and crashed reconciles.      *)
THEOREM DoneIsNamed == Spec => []DoneImpliesNamed
<1>1. Inductive => DoneImpliesNamed
  BY DEF Inductive
<1> QED BY <1>1, InductiveHolds, PTL

(* No push to the branch of an open sweep PR loses a commit: neither the
   sweep, nor the fix bot, nor a revert, whatever they read and when.      *)
THEOREM NothingLost == Spec => NoCommitLost
<1> DEFINE Step == pr.open /\ remote # NoTip /\ remote' # NoTip
                     => Rolling!Keeps(remote', remote, target.content)
<1>1. Inductive /\ [Next]_vars => [Step]_vars
  BY StepKeeps
<1> QED BY <1>1, InductiveHolds, PTL DEF Spec, NoCommitLost

(* A sweep never picks again what the release branch that it cloned names,
   for any PRs, closed and deleted branches, reverts and fixes.            *)
THEOREM NothingRepicked == Spec => NoRepick
<1> DEFINE Step == Publishes => NewPicks \intersect job.base.named = {}
<1>1. ASSUME Inductive, Publishes PROVE NewPicks \intersect job.base.named = {}
  <2>1. job.phase \in HeadBuilt /\ remote = job.expected
    BY <1>1 DEF Publishes, Push, LeaseHolds, HeadBuilt, HeadKnown, SeenPR
  <2> QED BY <1>1, <2>1 DEF Inductive, PicksAreNew, BranchReplaced
<1>2. Inductive /\ [Next]_vars => [Step]_vars
  BY <1>1
<1> QED BY <1>2, InductiveHolds, PTL DEF Spec, NoRepick

(* The poller pushes only where no PR is open, although it looked hours
   before the push.                                                        *)
THEOREM PollPushesAlone == Spec => PollNeverPilesOn
<1> DEFINE Step == Publishes /\ job.kind = "poll" => ~pr.open
<1>1. Inductive /\ [Next]_vars => [Step]_vars
  BY DEF Inductive, PollSeesNone, Publishes, Push
<1> QED BY <1>1, InductiveHolds, PTL DEF Spec, PollNeverPilesOn

(* A push is the abstract Contribute. *)
LEMMA PushContributes ==
  ASSUME Inductive, Next, remote' \in Tips, UNCHANGED <<target, pr>>
  PROVE  Rolling!Contribute
<1>1. pr.open => remote # NoTip
  BY DEF Inductive, OpenPRHasBranch
<1>2. remote' # NoTip
  BY NoTipAssumption
<1>3. pr.open => Rolling!Keeps(remote', remote, target.content)
  BY <1>1, <1>2, StepKeeps
<1> QED BY <1>1, <1>3 DEF Rolling!Contribute, Rolling!Tips, Tips

(* Every step of the sweep and of those around it is one atomic step of the
   rolling PR, or changes nothing it promises.                             *)
LEMMA StepRefines == Inductive /\ [Next]_vars => [Rolling!Next]_(Rolling!vars)
<1> SUFFICES ASSUME Inductive, [Next]_vars PROVE Rolling!Next \/ UNCHANGED Rolling!vars
  OBVIOUS
<1>t. TypeOK /\ OthersHoldTips /\ pr \in SweepPRs /\ remote \in Tips \union {NoTip}
  BY DEF Inductive, TypeOK
<1>0. ASSUME UNCHANGED <<target, remote, pr>> PROVE UNCHANGED Rolling!vars
  BY <1>0 DEF Rolling!vars
<1>1. CASE Maintainers
  <2>1. ASSUME NEW p \in Prs, NEW s \in {"none", "todo"}, MoveCard(p, s)
        PROVE  UNCHANGED Rolling!vars
    BY <2>1, <1>0 DEF MoveCard
  <2>2. ASSUME NEW S \in SUBSET Prs, CommitToTarget(S) PROVE Rolling!Commit
    BY <2>2 DEF CommitToTarget, Rolling!Commit
  <2>3. ASSUME NEW q \in BOOLEAN, NEW d \in BOOLEAN, MergePR(q, d) PROVE Rolling!Merge
    <3>1. remote \in Tips /\ pr'.open = FALSE
      BY <2>3, <1>t DEF MergePR, SweepPRs
    <3>2. remote.commits \ remote.reverted \subseteq target'.content
      BY <2>3 DEF MergePR, Adds, Removes
    <3> QED BY <2>3, <3>1, <3>2 DEF MergePR, Rolling!Merge
  <2>4. ASSUME NEW d \in BOOLEAN, ClosePR(d) PROVE Rolling!Close
    BY <2>4, <1>t DEF ClosePR, Rolling!Close, SweepPRs
  <2>5. {} \in SUBSET Prs /\ \A p \in Prs : {p} \in SUBSET Prs
    OBVIOUS
  <2> QED BY <1>1, <2>1, <2>2, <2>3, <2>4, <2>5 DEF Maintainers, Rolling!Next
<1>2. CASE Push
  <2>1. CASE LeaseHolds
    <3>1. job.head \in Tips
      BY <1>2 DEF Push, Inductive, HeadCoversLease, HeadBuilt, HeadKnown, SeenPR
    <3>2. remote' \in Tips /\ UNCHANGED <<target, pr>> /\ Next
      BY <1>2, <2>1, <3>1 DEF Push, Next, JobStep
    <3> QED BY <3>2, PushContributes DEF Rolling!Next
  <2>2. CASE ~LeaseHolds
    BY <1>2, <2>2, <1>0 DEF Push
  <2> QED BY <2>1, <2>2
<1>3. CASE UpsertPR
  <2>1. job.phase = "pushed" /\ UNCHANGED <<target, remote>>
    BY <1>3 DEF UpsertPR
  <2>2. CASE job.pr = 0 /\ remote # NoTip
    <3>1. ~pr.open
      BY <2>1, <2>2 DEF Inductive, NoPRAppears, SeenPR
    <3>2. pr'.open = TRUE
      BY <1>3, <2>2 DEF UpsertPR
    <3> QED BY <2>1, <2>2, <3>1, <3>2 DEF Rolling!OpenPR, Rolling!Next
  <2>3. CASE ~(job.pr = 0 /\ remote # NoTip)
    <3>1. pr'.open = pr.open
      BY <1>3, <2>3, <1>t DEF UpsertPR, SweepPRs
    <3> QED BY <2>1, <3>1 DEF Rolling!vars
  <2> QED BY <2>2, <2>3
<1>4. CASE (StartSweep \/ StartPoll \/ JobStep \/ JobFails) /\ ~Push /\ ~UpsertPR
  BY <1>4, <1>0 DEF StartSweep, StartPoll, JobFails, JobStep, Discover, CloneTarget, FindPR,
     ReadRemoteHead, PrepareBranch, ApplyCandidates, CheckTarget, CheckRemote, CheckPR,
     Check, github
<1>5. CASE FixPush /\ FixLeaseHolds
  <2>1. fixer.expected \in Tips /\ budget.fixes \in Nat
    BY <1>5, <1>t DEF FixPush, OthersHoldTips, TypeOK, Budgets
  <2>2. remote' \in Tips
    BY <1>5, <2>1 DEF FixPush, Tips
  <2>3. UNCHANGED <<target, pr>> /\ Next
    BY <1>5 DEF FixPush, Next, Fixer
  <2> QED BY <2>2, <2>3, PushContributes DEF Rolling!Next
<1>6. CASE Fixer /\ ~(FixPush /\ FixLeaseHolds)
  BY <1>6, <1>0 DEF Fixer, FixStart, FixRecheck, FixPush, github
<1>7. CASE RevertPush /\ remote \in {reverter.seen, NoTip}
  <2>1. reverter.seen \in Tips /\ reverter.pick \in SUBSET Prs
    BY <1>7, <1>t DEF RevertPush, OthersHoldTips, TypeOK, Reverters
  <2>2. remote' \in Tips
    BY <1>7, <2>1 DEF RevertPush, Tips
  <2>3. UNCHANGED <<target, pr>> /\ Next
    BY <1>7 DEF RevertPush, Next, Reverter
  <2> QED BY <2>2, <2>3, PushContributes DEF Rolling!Next
<1>8. CASE RevertWriteBody
  <2>1. pr'.open = pr.open /\ UNCHANGED <<target, remote>>
    BY <1>8, <1>t DEF RevertWriteBody, SweepPRs
  <2> QED BY <2>1 DEF Rolling!vars
<1>9. CASE Reverter /\ ~(RevertPush /\ remote \in {reverter.seen, NoTip}) /\ ~RevertWriteBody
  BY <1>9, <1>0 DEF Reverter, RevertClone, RevertPush, RevertReadBody, github
<1>10. CASE Marker \/ MarkFails \/ UNCHANGED vars
  BY <1>10, <1>0 DEF Marker, MarkLoad, MarkVerify, MarkDone, MarkFails, github, vars
<1> QED BY <1>1, <1>2, <1>3, <1>4, <1>5, <1>6, <1>7, <1>8, <1>9, <1>10 DEF Next

(* The sweep, with every stale read it makes, implements the rolling PR whose
   pushes are atomic.                                                      *)
THEOREM Refines == Spec => ImplementsRollingPR
<1>1. Init => Rolling!Init
  BY DEF Init, EmptyTarget, Rolling!Init
<1> QED BY <1>1, StepRefines, InductiveHolds, PTL
        DEF Spec, ImplementsRollingPR, Rolling!Spec
=============================================================================
