---------------------- MODULE ReleasePublicationProofs ----------------------
(***************************************************************************)
(* Proofs about ReleasePublication, for every number of lines, versions,   *)
(* runs and every bound.                                                   *)
(***************************************************************************)
EXTENDS ReleasePublication, TLAPS

-----------------------------------------------------------------------------
(* Sequences of runs *)

(* A sequence rewritten element by element keeps its length.                *)
LEMMA Rewritten ==
  ASSUME NEW S, NEW s \in Seq(S), NEW f, f = [j \in DOMAIN s |-> f[j]],
         \A j \in DOMAIN s : f[j] \in S
  PROVE  f \in Seq(S) /\ Len(f) = Len(s) /\ DOMAIN f = DOMAIN s
<1>1. DOMAIN s = 1..Len(s) /\ Len(s) \in Nat
  OBVIOUS
<1>2. f \in [1..Len(s) -> S]
  BY <1>1
<1> QED
  BY <1>1, <1>2

LEMMA RunsAreRuns ==
  ASSUME TypeOK
  PROVE  runs \in Seq(Runs) /\ \A i \in DOMAIN runs : runs[i] \in Runs
<1>1. runs \in Seq(Runs)
  BY DEF TypeOK
<1> QED
  BY <1>1

(* The run queued on a line is the only one WithoutQueued changes.          *)
LEMMA WithoutQueuedRuns ==
  ASSUME TypeOK, NEW l \in Lines
  PROVE  /\ WithoutQueued(l) \in Seq(Runs)
         /\ Len(WithoutQueued(l)) = Len(runs)
         /\ DOMAIN WithoutQueued(l) = DOMAIN runs
         /\ \A j \in DOMAIN runs :
              WithoutQueued(l)[j] = IF runs[j].line = l /\ runs[j].phase = "queued"
                THEN [runs[j] EXCEPT !.phase = "done", !.cancelling = FALSE] ELSE runs[j]
<1>1. runs \in Seq(Runs)
  BY RunsAreRuns
<1>2. \A j \in DOMAIN runs : runs[j] \in Runs
  BY RunsAreRuns
<1>3. \A j \in DOMAIN runs : WithoutQueued(l)[j] = IF runs[j].line = l /\ runs[j].phase = "queued"
                THEN [runs[j] EXCEPT !.phase = "done", !.cancelling = FALSE] ELSE runs[j]
  BY DEF WithoutQueued
<1>4. \A j \in DOMAIN runs : WithoutQueued(l)[j] \in Runs
  <2> TAKE j \in DOMAIN runs
  <2>1. [runs[j] EXCEPT !.phase = "done", !.cancelling = FALSE] \in Runs
    BY <1>2 DEF Runs, RunPhases
  <2> QED
    BY <1>2, <1>3, <2>1
<1>5. WithoutQueued(l) = [j \in DOMAIN runs |-> WithoutQueued(l)[j]]
  BY DEF WithoutQueued
<1> QED
  BY <1>1, <1>3, <1>4, <1>5, Rewritten

(* Derives depends on the tags of its own line only.                        *)
LEMMA DerivesIsLocal ==
  ASSUME NEW l \in Lines, NEW v \in Versions, tags'[l] = tags[l]
  PROVE  Derives(l, v)' <=> Derives(l, v)
<1>1. \A ga \in BOOLEAN : TagNumbers(l, ga)' = TagNumbers(l, ga)
  BY DEF TagNumbers
<1>2. RCs(l)' = RCs(l) /\ FinalTags(l)' = FinalTags(l)
  BY <1>1 DEF RCs, FinalTags
<1> QED
  BY <1>2 DEF Derives, Follows

-----------------------------------------------------------------------------
(* Two ways in which a step keeps the invariant *)

(* What is published is only added to, and what it rests on is kept.        *)
Grows ==
  /\ \A l \in Lines : branch[l].merges \subseteq branch'[l].merges
  /\ approved \subseteq approved'
  /\ UNCHANGED <<tags, releases>>

LEMMA GrowingKeepsPublished ==
  ASSUME PublishedAsApproved, Grows
  PROVE  PublishedAsApproved'
BY DEF PublishedAsApproved, Grows, OldReleases

LEMMA GrowingKeepsRunOK ==
  ASSUME Grows, NEW r \in Runs, RunOK(r)
  PROVE  RunOK(r)'
<1> DEFINE p == r.plan
<1>1. r.plan \in Plans \union {None}
  BY DEF Runs
<1>2. p # None => p.line \in Lines /\ p.version \in Versions
  BY <1>1 DEF Plans
<1>3. p # None => (Derives(p.line, p.version)' <=> Derives(p.line, p.version))
  BY <1>2, DerivesIsLocal DEF Grows
<1> QED
  BY <1>2, <1>3 DEF RunOK, Grows, Planned, Approved

(* Steps that leave the runs alone.                                         *)
LEMMA RunsUntouched ==
  ASSUME Inductive, Grows, runs' = runs, TypeOK'
  PROVE  Inductive'
<1>1. \A i \in DOMAIN runs : runs[i] \in Runs
  BY RunsAreRuns DEF Inductive
<1>2. \A i \in DOMAIN runs : RunOK(runs[i])'
  BY <1>1, GrowingKeepsRunOK DEF Inductive
<1>3. OneRunPerLine'
  BY DEF Inductive, OneRunPerLine, InProgress
<1>4. PublishedAsApproved'
  BY GrowingKeepsPublished DEF Inductive
<1> QED
  BY <1>2, <1>3, <1>4 DEF Inductive

(* Steps of one run that leave what is published alone.  The run stays on
   its line, and starts only when no other run of the line is in progress.  *)
LEMMA OneRunMoves ==
  ASSUME Inductive, Grows, TypeOK',
         NEW i \in DOMAIN runs, NEW r \in Runs,
         runs' = [runs EXCEPT ![i] = r],
         r.line = runs[i].line,
         r.phase \in {"queued", "done"} \/ InProgress(i) \/ ~Busy(runs[i].line),
         RunOK(r)'
  PROVE  Inductive'
<1>1. DOMAIN runs' = DOMAIN runs /\ runs'[i] = r
      /\ \A j \in DOMAIN runs : j # i => runs'[j] = runs[j]
  BY RunsAreRuns DEF Inductive
<1>2. \A j \in DOMAIN runs : runs[j] \in Runs
  BY RunsAreRuns DEF Inductive
<1>3. ASSUME NEW j \in DOMAIN runs' PROVE RunOK(runs[j])'
  <2>1. CASE j = i
    BY <2>1, <1>1 DEF RunOK
  <2>2. CASE j # i
    <3>1. RunOK(runs[j])
      BY <1>1, <1>3 DEF Inductive
    <3>2. RunOK(runs[j]) /\ runs'[j] = runs[j] /\ runs[j] \in Runs
      BY <3>1, <2>2, <1>1, <1>2, <1>3
    <3> QED
      BY <3>2, GrowingKeepsRunOK DEF RunOK
  <2> QED
    BY <2>1, <2>2
<1>4. OneRunPerLine'
  BY <1>1 DEF Inductive, OneRunPerLine, InProgress, Busy
<1>5. PublishedAsApproved'
  BY GrowingKeepsPublished DEF Inductive
<1> QED
  BY <1>3, <1>4, <1>5 DEF Inductive

(* A run of the line is queued, and the one queued there gives way.         *)
LEMMA RunQueued ==
  ASSUME Inductive, Grows, TypeOK', NEW l \in Lines, NEW i \in Nat, NEW r \in Runs,
         DOMAIN runs \subseteq DOMAIN runs', DOMAIN runs' \subseteq DOMAIN runs \union {i},
         \A j \in DOMAIN runs \ {i} : runs'[j] = WithoutQueued(l)[j],
         runs'[i] = r, r.phase = "queued", RunOK(r)'
  PROVE  Inductive'
<1>1. \A j \in DOMAIN runs : runs[j] \in Runs
  BY RunsAreRuns DEF Inductive
<1>2. \A j \in DOMAIN runs \ {i} :
        runs'[j] = IF runs[j].line = l /\ runs[j].phase = "queued"
          THEN [runs[j] EXCEPT !.phase = "done", !.cancelling = FALSE] ELSE runs[j]
  BY WithoutQueuedRuns DEF Inductive
<1>3. ASSUME NEW j \in DOMAIN runs' PROVE RunOK(runs[j])'
  <2>1. CASE j = i
    BY <2>1 DEF RunOK
  <2>2. CASE j # i
    <3>1. j \in DOMAIN runs /\ runs[j] \in Runs /\ RunOK(runs[j])
      BY <1>1, <1>3, <2>2 DEF Inductive
    <3>2. RunOK(runs[j]) /\ RunOK([runs[j] EXCEPT !.phase = "done", !.cancelling = FALSE])
      BY <3>1 DEF RunOK, Planned, Approved, Runs
    <3>3. PICK q \in Runs : q = runs'[j] /\ RunOK(q)
      <4>1. [runs[j] EXCEPT !.phase = "done", !.cancelling = FALSE] \in Runs
        BY <3>1 DEF Runs, RunPhases
      <4> QED
        BY <1>2, <2>2, <3>1, <3>2, <4>1
    <3>4. RunOK(q)'
      BY <3>3, GrowingKeepsRunOK
    <3> QED
      BY <3>3, <3>4 DEF RunOK
  <2> QED
    BY <2>1, <2>2
<1>4. \A j \in DOMAIN runs' : InProgress(j)' => j \in DOMAIN runs /\ InProgress(j)
                                 /\ runs'[j] = runs[j]
  BY ZenonT(30), <1>1, <1>2 DEF InProgress, Runs
<1>5. OneRunPerLine'
  BY <1>4 DEF Inductive, OneRunPerLine
<1>6. PublishedAsApproved'
  BY GrowingKeepsPublished DEF Inductive
<1> QED
  BY <1>3, <1>5, <1>6 DEF Inductive

-----------------------------------------------------------------------------
(* Type correctness *)

LEMMA PlansAreTyped ==
  ASSUME TypeOK, NEW l \in Lines, NEW c \in Nat
  PROVE  PlansFor(l, c) \subseteq Plans
<1>1. \A v \in Versions : MakeLatest(l, v) \in BOOLEAN
  BY VersionsAssumption DEF MakeLatest
<1>2. \A v \in Versions :
        [line |-> l, version |-> v, sha |-> c, latest |-> MakeLatest(l, v)] \in Plans
  BY <1>1 DEF Plans
<1> QED
  BY <1>2 DEF PlansFor

LEMMA InitType == Init => TypeOK
<1> SUFFICES ASSUME Init PROVE TypeOK
  OBVIOUS
<1>1. OldReleases \subseteq Plans
  <2>1. ASSUME NEW l \in Lines, NEW v \in OldTags[l]
        PROVE  [line |-> l, version |-> v, sha |-> 0, latest |-> FALSE] \in Plans
    BY VersionsAssumption DEF Plans
  <2> QED
    BY <2>1 DEF OldReleases
<1>2. branch \in [Lines -> Branches]
  BY DEF Init, Branches
<1>3. notes \in [Lines -> [Versions -> [open : BOOLEAN, shown : Nat]]]
  BY DEF Init
<1>4. issue \in [Lines -> [Versions -> {"none", "open", "closed"}]]
  BY DEF Init
<1>5. tags \in [Lines -> [Versions -> Nat \union {None}]]
  BY DEF Init
<1>6. latest \in Plans \union {None}
  BY <1>1 DEF Init, HighestFinal, Finals
<1>7. runs \in Seq(Runs) /\ Len(runs) = 0
  BY DEF Init
<1>8. sync \in Syncs /\ sync = IdleSync
  BY DEF Init, IdleSync, Syncs, SyncPhases
<1>9. budget \in [commits : Nat, moves : Nat, preps : Nat, manual : Nat,
                  failures : Nat, touches : Nat, closes : Nat]
  BY DEF Init
<1> QED
  BY <1>1, <1>2, <1>3, <1>4, <1>5, <1>6, <1>7, <1>8, <1>9 DEF TypeOK, Init, IdleSync

(* A run that takes a step stays a run, on its line and for its candidate.  *)
LEMMA RunTyped ==
  ASSUME NEW r \in Runs
  PROVE  /\ \A ph \in RunPhases : [r EXCEPT !.phase = ph] \in Runs
         /\ \A ph \in RunPhases, p \in Plans :
              [r EXCEPT !.phase = ph, !.plan = p] \in Runs
         /\ \A ph \in RunPhases, q \in BOOLEAN :
              [r EXCEPT !.phase = ph, !.qualified = q] \in Runs
         /\ \A ok \in BOOLEAN :
              [r EXCEPT !.phase = "done", !.cancelling = FALSE, !.ok = ok] \in Runs
         /\ [r EXCEPT !.cancelling = TRUE] \in Runs
BY DEF Runs, RunPhases

LEMMA OneRunTyped ==
  ASSUME TypeOK, NEW i \in DOMAIN runs, NEW r \in Runs
  PROVE  /\ [runs EXCEPT ![i] = r] \in Seq(Runs)
         /\ Len([runs EXCEPT ![i] = r]) = Len(runs)
<1> DEFINE f == [runs EXCEPT ![i] = r]
<1>1. f = [j \in DOMAIN runs |-> f[j]] /\ \A j \in DOMAIN runs : f[j] \in Runs
  BY RunsAreRuns
<1>2. runs \in Seq(Runs)
  BY RunsAreRuns
<1> HIDE DEF f
<1>3. f \in Seq(Runs) /\ Len(f) = Len(runs)
  BY <1>1, <1>2, Rewritten
<1> QED
  BY <1>3 DEF f

LEMMA FreshRunTyped ==
  ASSUME TypeOK, NEW l \in Lines, NEW c \in Nat
  PROVE  NewRun(l, c) \in Runs
BY DEF NewRun, Runs, RunPhases, TypeOK

LEMMA FinishTyped ==
  ASSUME TypeOK, NEW i \in DOMAIN runs, NEW ok \in BOOLEAN
  PROVE  /\ Finish(i, ok) \in Seq(Runs)
         /\ Len(Finish(i, ok)) = Len(runs)
<1>1. runs[i] \in Runs
  BY RunsAreRuns
<1>2. [runs[i] EXCEPT !.phase = "done", !.cancelling = FALSE, !.ok = ok] \in Runs
  BY <1>1, RunTyped
<1>3. Finish(i, ok)
        = [runs EXCEPT ![i] = [runs[i] EXCEPT !.phase = "done", !.cancelling = FALSE, !.ok = ok]]
  BY RunsAreRuns DEF Finish
<1> QED
  BY <1>2, <1>3, OneRunTyped

(* Steps that change runs, approvals and the budget only.                   *)
Budgets == [commits : Nat, moves : Nat, preps : Nat, manual : Nat,
            failures : Nat, touches : Nat, closes : Nat]

LEMMA Spent ==
  ASSUME budget \in Budgets
  PROVE  /\ [budget EXCEPT !.commits = @ + 1] \in Budgets
         /\ [budget EXCEPT !.moves = @ + 1] \in Budgets
         /\ [budget EXCEPT !.preps = @ + 1] \in Budgets
         /\ [budget EXCEPT !.manual = @ + 1] \in Budgets
         /\ [budget EXCEPT !.failures = @ + 1] \in Budgets
         /\ [budget EXCEPT !.touches = @ + 1] \in Budgets
         /\ [budget EXCEPT !.closes = @ + 1] \in Budgets
BY DEF Budgets

LEMMA TypeKept ==
  ASSUME TypeOK, UNCHANGED <<target, main, published, sync>>,
         runs' \in Seq(Runs), Len(runs') \in Nat, Len(runs) <= Len(runs'),
         approved' \subseteq Plans, budget' \in Budgets
  PROVE  TypeOK'
<1>1. Len(runs) \in Nat
  BY RunsAreRuns
<1>2. 0..Len(runs) \subseteq 0..Len(runs')
  BY <1>1
<1> QED
  BY <1>2 DEF TypeOK, target, published, Budgets

-----------------------------------------------------------------------------
(* The steps of one run *)

LEMMA RunMoves ==
  ASSUME Inductive, UNCHANGED <<target, main, published, sync>>,
         NEW i \in DOMAIN runs, NEW r \in Runs,
         runs' = [runs EXCEPT ![i] = r],
         r.line = runs[i].line,
         r.phase \in {"queued", "done"} \/ InProgress(i) \/ ~Busy(runs[i].line),
         RunOK(r)', approved \subseteq approved', approved' \subseteq Plans,
         budget' \in Budgets
  PROVE  Inductive'
<1>1. TypeOK /\ runs \in Seq(Runs) /\ Len(runs) \in Nat
  BY RunsAreRuns DEF Inductive
<1>2. TypeOK'
  BY <1>1, OneRunTyped, TypeKept
<1>3. Grows
  BY DEF Grows, target, published
<1> QED
  BY <1>2, <1>3, OneRunMoves

(* A plan is for the candidate, as plan_publication has just checked.       *)
LEMMA PlanIsSound ==
  ASSUME TypeOK, NEW l \in Lines, NEW c \in Nat, NEW p \in PlansFor(l, c)
  PROVE  /\ p \in Plans /\ p.line = l /\ p.sha = c
         /\ [sha |-> p.sha, version |-> p.version] \in branch[p.line].merges
         /\ \/ tags[p.line][p.version] = p.sha
            \/ tags[p.line][p.version] = None /\ Derives(p.line, p.version)
<1>1. PICK v \in Versions : /\ Plannable(l, c, v)
                            /\ p = [line |-> l, version |-> v, sha |-> c,
                                    latest |-> MakeLatest(l, v)]
  BY DEF PlansFor
<1>2. p.line = l /\ p.version = v /\ p.sha = c
  BY <1>1
<1> QED
  BY <1>1, <1>2, PlansAreTyped DEF Plannable

(* A run that is over, or back in the queue without a plan, promises nothing.*)
LEMMA DoneStep ==
  ASSUME Inductive, UNCHANGED <<target, main, published, sync, approved>>,
         NEW i \in DOMAIN runs, NEW ok \in BOOLEAN, runs' = Finish(i, ok),
         budget' \in Budgets
  PROVE  Inductive'
<1>1. TypeOK /\ runs[i] \in Runs /\ RunOK(runs[i])
  BY RunsAreRuns DEF Inductive
<1>2. PICK r \in Runs :
        r = [runs[i] EXCEPT !.phase = "done", !.cancelling = FALSE, !.ok = ok]
  BY <1>1, RunTyped
<1>3. r.line = runs[i].line /\ r.cand = runs[i].cand /\ r.plan = runs[i].plan
      /\ r.phase = "done"
  BY <1>1, <1>2 DEF Runs
<1>4. runs' = [runs EXCEPT ![i] = r]
  BY <1>2, RunsAreRuns DEF Finish, Inductive
<1>5. RunOK(r)'
  BY <1>1, <1>3 DEF RunOK, Planned, Approved, target
<1>6. approved \subseteq approved' /\ approved' \subseteq Plans
  BY <1>1 DEF TypeOK
<1> QED
  BY <1>3, <1>4, <1>5, <1>6, RunMoves

LEMMA ValidateStep ==
  ASSUME Inductive, NEW i \in DOMAIN runs, RunValidate(i)
  PROVE  Inductive'
<1> DEFINE l == runs[i].line
           c == runs[i].cand
<1>1. TypeOK /\ runs[i] \in Runs /\ RunOK(runs[i]) /\ l \in Lines /\ c \in Nat
  BY RunsAreRuns DEF Inductive, Runs
<1>2. approved \subseteq Plans /\ budget \in Budgets
  BY <1>1 DEF TypeOK, Budgets
<1>3. ASSUME NEW p \in PlansFor(l, c),
             runs' = [runs EXCEPT ![i].phase = "qualifying", ![i].plan = p]
      PROVE  Inductive'
  <2>1. p \in Plans /\ p.line = l /\ p.sha = c
        /\ [sha |-> p.sha, version |-> p.version] \in branch[p.line].merges
    BY SMTT(40), <1>1, PlanIsSound
  <2>2. PICK r \in Runs : r = [runs[i] EXCEPT !.phase = "qualifying", !.plan = p]
    BY <1>1, <2>1, RunTyped DEF RunPhases
  <2>3. r.line = l /\ r.cand = c /\ r.plan = p /\ r.phase = "qualifying"
    BY <1>1, <2>2 DEF Runs
  <2>4. runs' = [runs EXCEPT ![i] = r]
    BY <1>3, <2>2, RunsAreRuns DEF Inductive
  <2>5. RunOK(r)'
    BY <2>1, <2>3, NoneAssumption DEF RunOK, Planned, Approved, RunValidate, RunUnchanged, target
  <2> QED
    BY <1>2, <2>3, <2>4, <2>5, RunMoves DEF RunValidate, RunUnchanged
<1>4. ASSUME runs' = Finish(i, FALSE)
      PROVE  Inductive'
  BY <1>2, <1>4, DoneStep DEF RunValidate, RunUnchanged
<1> QED
  BY <1>3, <1>4 DEF RunValidate

(* Steps that move a run to its next phase, with the plan it has.           *)
LEMMA PhaseStep ==
  ASSUME Inductive, UNCHANGED <<target, main, published, sync>>,
         approved \subseteq approved', approved' \subseteq Plans, budget' \in Budgets,
         NEW i \in DOMAIN runs, NEW r \in Runs,
         runs' = [runs EXCEPT ![i] = r],
         r.line = runs[i].line, r.cand = runs[i].cand, r.plan = runs[i].plan,
         r.phase \in {"qualifying", "waiting", "approved", "current", "bound"},
         InProgress(i) \/ ~Busy(runs[i].line),
         runs[i].plan # None,
         r.phase \in {"approved", "current", "bound"} => runs[i].plan \in approved',
         r.phase = "bound" => runs[i].plan \in PlansFor(runs[i].line, runs[i].cand)
  PROVE  Inductive'
<1>1. TypeOK /\ runs[i] \in Runs /\ RunOK(runs[i])
      /\ runs[i].line \in Lines /\ runs[i].cand \in Nat
  BY RunsAreRuns DEF Inductive, Runs
<1>2. r.plan \in Plans /\ r.plan.line \in Lines /\ r.plan.version \in Versions
  BY <1>1 DEF Runs, Plans
<1>3. r.phase = "bound" => \/ tags[r.plan.line][r.plan.version] = r.plan.sha
                          \/ /\ tags[r.plan.line][r.plan.version] = None
                             /\ Derives(r.plan.line, r.plan.version)
  BY <1>1, PlanIsSound
<1>4. Derives(r.plan.line, r.plan.version)' <=> Derives(r.plan.line, r.plan.version)
  BY <1>2, DerivesIsLocal DEF published
<1>5. RunOK(r)'
  BY <1>1, <1>2, <1>3, <1>4, NoneAssumption
     DEF RunOK, Planned, Approved, target, published
<1> QED
  BY <1>5, RunMoves

LEMMA ResumeStep ==
  ASSUME Inductive, NEW i \in DOMAIN runs, RunResume(i)
  PROVE  Inductive'
<1> DEFINE ph == IF runs[i].qualified THEN "waiting" ELSE "qualifying"
<1>1. runs[i] \in Runs /\ approved \subseteq Plans /\ budget \in Budgets
  BY RunsAreRuns DEF Inductive, TypeOK, Budgets
<1>2. PICK r \in Runs : r = [runs[i] EXCEPT !.phase = ph]
  BY <1>1, RunTyped DEF RunPhases
<1>3. r.line = runs[i].line /\ r.cand = runs[i].cand /\ r.plan = runs[i].plan /\ r.phase = ph
  BY <1>1, <1>2 DEF Runs
<1>4. runs' = [runs EXCEPT ![i] = r]
  BY <1>2, RunsAreRuns DEF Inductive, RunResume
<1> QED
  BY <1>1, <1>3, <1>4, PhaseStep DEF RunResume, RunUnchanged

LEMMA QualifyStep ==
  ASSUME Inductive, NEW i \in DOMAIN runs, RunQualify(i)
  PROVE  Inductive'
<1>1. /\ runs[i] \in Runs /\ RunOK(runs[i]) /\ InProgress(i)
      /\ approved \subseteq Plans /\ budget \in Budgets
  BY RunsAreRuns DEF Inductive, TypeOK, Budgets, RunQualify, InProgress
<1>2. PICK r \in Runs : r = [runs[i] EXCEPT !.phase = "waiting", !.qualified = TRUE]
  BY <1>1, RunTyped DEF RunPhases
<1>3. r.line = runs[i].line /\ r.cand = runs[i].cand /\ r.plan = runs[i].plan
      /\ r.phase = "waiting"
  BY <1>1, <1>2 DEF Runs
<1>4. runs' = [runs EXCEPT ![i] = r]
  BY <1>2, RunsAreRuns DEF Inductive, RunQualify
<1>5. runs[i].plan # None
  BY <1>1 DEF RunOK, Planned, RunQualify
<1> QED
  BY <1>1, <1>3, <1>4, <1>5, PhaseStep DEF RunQualify, RunUnchanged

LEMMA ApproveStep ==
  ASSUME Inductive, NEW i \in DOMAIN runs, Approve(i)
  PROVE  Inductive'
<1>1. /\ runs[i] \in Runs /\ RunOK(runs[i]) /\ InProgress(i)
      /\ approved \subseteq Plans /\ budget \in Budgets
  BY RunsAreRuns DEF Inductive, TypeOK, Budgets, Approve, InProgress
<1>2. PICK r \in Runs : r = [runs[i] EXCEPT !.phase = "approved"]
  BY <1>1, RunTyped DEF RunPhases
<1>3. r.line = runs[i].line /\ r.cand = runs[i].cand /\ r.plan = runs[i].plan
      /\ r.phase = "approved"
  BY <1>1, <1>2 DEF Runs
<1>4. runs' = [runs EXCEPT ![i] = r]
  BY <1>2, RunsAreRuns DEF Inductive, Approve
<1>5. runs[i].plan # None /\ runs[i].plan \in Plans
  BY <1>1 DEF RunOK, Planned, Approve, Runs
<1>6. approved' \subseteq Plans /\ approved \subseteq approved' /\ runs[i].plan \in approved'
  BY <1>1, <1>5 DEF Approve
<1> QED
  BY <1>1, <1>3, <1>4, <1>5, <1>6, PhaseStep DEF Approve

LEMMA CheckMainStep ==
  ASSUME Inductive, NEW i \in DOMAIN runs, RunCheckMain(i)
  PROVE  Inductive'
<1>1. /\ runs[i] \in Runs /\ RunOK(runs[i]) /\ InProgress(i)
      /\ approved \subseteq Plans /\ budget \in Budgets
  BY RunsAreRuns DEF Inductive, TypeOK, Budgets, RunCheckMain, InProgress
<1>2. CASE runs[i].main = main
  <2>1. PICK r \in Runs : r = [runs[i] EXCEPT !.phase = "current"]
    BY <1>1, RunTyped DEF RunPhases
  <2>2. r.line = runs[i].line /\ r.cand = runs[i].cand /\ r.plan = runs[i].plan
        /\ r.phase = "current"
    BY <1>1, <2>1 DEF Runs
  <2>3. runs' = [runs EXCEPT ![i] = r]
    BY <1>2, <2>1, RunsAreRuns DEF Inductive, RunCheckMain
  <2>4. runs[i].plan # None /\ runs[i].plan \in approved
    BY <1>1 DEF RunOK, Planned, Approved, RunCheckMain
  <2> QED
    BY <1>1, <2>2, <2>3, <2>4, PhaseStep DEF RunCheckMain, RunUnchanged
<1>3. CASE runs[i].main # main
  BY <1>1, <1>3, DoneStep DEF RunCheckMain, RunUnchanged
<1> QED
  BY <1>2, <1>3

LEMMA RevalidateStep ==
  ASSUME Inductive, NEW i \in DOMAIN runs, RunRevalidate(i)
  PROVE  Inductive'
<1> DEFINE same == runs[i].plan \in PlansFor(runs[i].line, runs[i].cand)
<1>1. /\ runs[i] \in Runs /\ RunOK(runs[i]) /\ InProgress(i)
      /\ approved \subseteq Plans /\ budget \in Budgets
  BY RunsAreRuns DEF Inductive, TypeOK, Budgets, RunRevalidate, InProgress
<1>2. CASE same
  <2>1. PICK r \in Runs : r = [runs[i] EXCEPT !.phase = "bound"]
    BY <1>1, RunTyped DEF RunPhases
  <2>2. r.line = runs[i].line /\ r.cand = runs[i].cand /\ r.plan = runs[i].plan
        /\ r.phase = "bound"
    BY <1>1, <2>1 DEF Runs
  <2>3. runs' = [runs EXCEPT ![i] = r]
    BY <1>2, <2>1, RunsAreRuns DEF Inductive, RunRevalidate
  <2>4. runs[i].plan # None /\ runs[i].plan \in approved
    BY <1>1 DEF RunOK, Planned, Approved, RunRevalidate
  <2> QED
    BY <1>1, <1>2, <2>2, <2>3, <2>4, PhaseStep DEF RunRevalidate, RunUnchanged
<1>3. CASE ~same
  BY <1>1, <1>3, DoneStep DEF RunRevalidate, RunUnchanged
<1> QED
  BY <1>2, <1>3

(* The tag is there already, on the plan's commit or on another.            *)
LEMMA TagFoundStep ==
  ASSUME Inductive, NEW i \in DOMAIN runs, RunTag(i),
         tags[runs[i].plan.line][runs[i].plan.version] # None
  PROVE  Inductive'
<1> DEFINE p == runs[i].plan
<1>1. /\ runs[i] \in Runs /\ RunOK(runs[i]) /\ InProgress(i)
      /\ approved \subseteq Plans /\ budget \in Budgets
  BY RunsAreRuns DEF Inductive, TypeOK, Budgets, RunTag, InProgress
<1>2. UNCHANGED <<target, main, published, approved, sync, budget>>
  BY DEF RunTag, published
<1>3. CASE tags[p.line][p.version] = p.sha
  <2>1. PICK r \in Runs : r = [runs[i] EXCEPT !.phase = "tagged"]
    BY <1>1, RunTyped DEF RunPhases
  <2>2. r.line = runs[i].line /\ r.cand = runs[i].cand /\ r.plan = p /\ r.phase = "tagged"
    BY <1>1, <2>1 DEF Runs
  <2>3. runs' = [runs EXCEPT ![i] = r]
    BY <1>3, <2>1, RunsAreRuns DEF Inductive, RunTag
  <2>4. p # None /\ p \in approved
    BY <1>1 DEF RunOK, Planned, Approved, RunTag
  <2>5. RunOK(r)'
    BY <1>1, <1>2, <1>3, <2>2, <2>4 DEF RunOK, Planned, Approved, target, published
  <2> QED
    BY <1>1, <1>2, <2>2, <2>3, <2>5, RunMoves
<1>4. CASE tags[p.line][p.version] # p.sha
  BY <1>1, <1>2, <1>4, DoneStep DEF RunTag
<1> QED
  BY <1>3, <1>4

(* The tag is created: no other run of the line is in progress, so that no
   other run relies on the line's tags.                                     *)
LEMMA TagCreatedStep ==
  ASSUME Inductive, NEW i \in DOMAIN runs, RunTag(i),
         tags[runs[i].plan.line][runs[i].plan.version] = None
  PROVE  Inductive'
<1> DEFINE p == runs[i].plan
<1>1. /\ runs[i] \in Runs /\ RunOK(runs[i]) /\ InProgress(i) /\ runs[i].phase = "bound"
      /\ TypeOK /\ approved \subseteq Plans /\ budget \in Budgets
  BY RunsAreRuns DEF Inductive, TypeOK, Budgets, RunTag, InProgress
<1>2. p # None /\ p \in approved /\ p \in Plans /\ p.line = runs[i].line
      /\ p.sha = runs[i].cand
      /\ [sha |-> p.sha, version |-> p.version] \in branch[p.line].merges
  BY <1>1 DEF RunOK, Planned, Approved, Runs
<1>3. p.line \in Lines /\ p.version \in Versions /\ p.sha \in Nat
  BY <1>2 DEF Plans
<1>4. /\ tags' = [tags EXCEPT ![p.line][p.version] = p.sha]
      /\ UNCHANGED <<target, main, releases, latest, approved, sync, budget>>
  BY DEF RunTag
<1>5. PICK r \in Runs : r = [runs[i] EXCEPT !.phase = "tagged"]
  BY <1>1, RunTyped DEF RunPhases
<1>6. r.line = runs[i].line /\ r.cand = runs[i].cand /\ r.plan = p /\ r.phase = "tagged"
  BY <1>1, <1>5 DEF Runs
<1>7. runs' = [runs EXCEPT ![i] = r]
  BY <1>5, RunsAreRuns DEF Inductive, RunTag
<1>8. DOMAIN runs' = DOMAIN runs /\ runs'[i] = r
      /\ \A j \in DOMAIN runs : j # i => runs'[j] = runs[j]
  BY <1>7, RunsAreRuns DEF Inductive
<1>9. tags \in [Lines -> [Versions -> Nat \union {None}]]
  BY <1>1 DEF TypeOK
<1>10. tags' \in [Lines -> [Versions -> Nat \union {None}]]
  BY <1>3, <1>4, <1>9
<1>11. TypeOK'
  <2>1. runs' \in Seq(Runs) /\ Len(runs') = Len(runs)
    BY <1>1, <1>7, OneRunTyped
  <2> QED
    BY <1>1, <1>4, <1>10, <2>1 DEF TypeOK, target
<1>12. /\ tags'[p.line][p.version] = p.sha
       /\ \A l \in Lines, v \in Versions :
            l # p.line \/ v # p.version => tags'[l][v] = tags[l][v]
       /\ \A l \in Lines : l # p.line => tags'[l] = tags[l]
  BY <1>3, <1>4, <1>9
<1>13. ASSUME NEW j \in DOMAIN runs' PROVE RunOK(runs[j])'
  <2>1. CASE j = i
    <3>1. RunOK(r)'
      BY <1>2, <1>4, <1>6, <1>12, NoneAssumption DEF RunOK, Planned, Approved, target
    <3> QED
      BY <2>1, <1>8, <3>1 DEF RunOK
  <2>2. CASE j # i
    <3>1. PICK q \in Runs : q = runs[j]
      BY <1>1, <1>8, <1>13, RunsAreRuns
    <3>2. RunOK(q) /\ j \in DOMAIN runs /\ runs'[j] = q
      BY <1>8, <1>13, <2>2, <3>1 DEF Inductive
    <3>3. q.plan # None => q.plan \in Plans /\ q.plan.line \in Lines
                          /\ q.plan.version \in Versions /\ q.plan.line = q.line
      BY <3>2 DEF RunOK, Runs, Plans
    <3>4. q.phase \in {"bound", "tagged"} => q.plan # None /\ q.line # p.line
      BY <1>1, <1>2, <2>2, <3>1, <3>2 DEF RunOK, Planned, Inductive, OneRunPerLine, InProgress
    <3>5. q.phase \in {"bound", "tagged"} =>
            /\ tags'[q.plan.line] = tags[q.plan.line]
            /\ Derives(q.plan.line, q.plan.version)' <=> Derives(q.plan.line, q.plan.version)
      BY <3>3, <3>4, <1>12, DerivesIsLocal
    <3>6. RunOK(q)'
      BY <1>4, <3>2, <3>5 DEF RunOK, Planned, Approved, target
    <3> QED
      BY <3>2, <3>6 DEF RunOK
  <2> QED
    BY <2>1, <2>2
<1>14. OneRunPerLine'
  BY <1>1, <1>6, <1>8 DEF Inductive, OneRunPerLine, InProgress
<1>15. PublishedAsApproved'
  <2>1. ASSUME NEW l \in Lines, NEW v \in Versions, v \notin OldTags[l], tags'[l][v] # None
        PROVE  /\ [sha |-> tags'[l][v], version |-> v] \in branch'[l].merges
               /\ \E q \in approved' : q.line = l /\ q.version = v /\ q.sha = tags'[l][v]
    <3>1. CASE l = p.line /\ v = p.version
      BY <3>1, <1>2, <1>4, <1>12 DEF target
    <3>2. CASE l # p.line \/ v # p.version
      BY <2>1, <3>2, <1>4, <1>12 DEF target, Inductive, PublishedAsApproved
    <3> QED
      BY <3>1, <3>2
  <2>2. ASSUME NEW q \in releases' \ OldReleases
        PROVE  q \in approved' /\ tags'[q.line][q.version] = q.sha
    <3>1. q \in approved /\ tags[q.line][q.version] = q.sha /\ q \in Plans
      BY <1>1, <1>4, <2>2 DEF Inductive, PublishedAsApproved
    <3>2. q.line \in Lines /\ q.version \in Versions /\ q.sha # None
      BY <3>1, NoneAssumption DEF Plans
    <3> QED
      BY <3>1, <3>2, <1>4, <1>12
  <2>3. OldReleases' = OldReleases
    BY DEF OldReleases
  <2> QED
    BY <2>1, <2>2, <2>3 DEF PublishedAsApproved
<1> QED
  BY <1>11, <1>13, <1>14, <1>15 DEF Inductive

LEMMA ReleaseStep ==
  ASSUME Inductive, NEW i \in DOMAIN runs, RunRelease(i)
  PROVE  Inductive'
<1> DEFINE p == runs[i].plan
<1>1. /\ runs[i] \in Runs /\ RunOK(runs[i]) /\ InProgress(i) /\ runs[i].phase = "tagged"
      /\ TypeOK /\ approved \subseteq Plans /\ budget \in Budgets
  BY RunsAreRuns DEF Inductive, TypeOK, Budgets, RunRelease, InProgress
<1>2. p # None /\ p \in approved /\ p \in Plans /\ tags[p.line][p.version] = p.sha
  BY <1>1 DEF RunOK, Planned, Approved, Runs
<1>3. PICK r \in Runs : r = [runs[i] EXCEPT !.phase = "shipped"]
  BY <1>1, RunTyped DEF RunPhases
<1>4. r.line = runs[i].line /\ r.cand = runs[i].cand /\ r.plan = p /\ r.phase = "shipped"
  BY <1>1, <1>3 DEF Runs
<1>5. runs' = [runs EXCEPT ![i] = r]
  BY <1>3, RunsAreRuns DEF Inductive, RunRelease
<1>6. DOMAIN runs' = DOMAIN runs /\ runs'[i] = r
      /\ \A j \in DOMAIN runs : j # i => runs'[j] = runs[j]
  BY <1>5, RunsAreRuns DEF Inductive
<1>7. /\ releases' \in {releases, releases \union {p}}
      /\ latest' \in {latest, p}
      /\ UNCHANGED <<target, main, tags, approved, sync, budget>>
  BY DEF RunRelease
<1>8. TypeOK'
  <2>1. runs' \in Seq(Runs) /\ Len(runs') = Len(runs)
    BY <1>1, <1>5, OneRunTyped
  <2>2. releases' \subseteq Plans /\ latest' \in Plans \union {None}
    BY <1>1, <1>2, <1>7 DEF TypeOK
  <2> QED
    BY <1>1, <1>7, <2>1, <2>2 DEF TypeOK, target
<1>9. ASSUME NEW q \in Runs, RunOK(q)
      PROVE  RunOK(q)'
  <2>1. q.plan # None => q.plan.line \in Lines /\ q.plan.version \in Versions
    BY DEF Runs, Plans
  <2>2. q.plan # None =>
          (Derives(q.plan.line, q.plan.version)' <=> Derives(q.plan.line, q.plan.version))
    BY <1>7, <2>1, DerivesIsLocal
  <2> QED
    BY <1>7, <1>9, <2>2 DEF RunOK, Planned, Approved, target
<1>10. RunOK(r)
  BY <1>1, <1>2, <1>4 DEF RunOK, Planned, Approved
<1>11. ASSUME NEW j \in DOMAIN runs' PROVE RunOK(runs[j])'
  <2>1. PICK q \in Runs : q = runs'[j] /\ RunOK(q)
    BY <1>1, <1>6, <1>10, <1>11, RunsAreRuns DEF Inductive
  <2>2. RunOK(q)'
    BY <1>9, <2>1
  <2> QED
    BY <2>1, <2>2 DEF RunOK
<1>12. OneRunPerLine'
  BY <1>1, <1>4, <1>6 DEF Inductive, OneRunPerLine, InProgress
<1>13. PublishedAsApproved'
  BY <1>2, <1>7 DEF Inductive, PublishedAsApproved, OldReleases, target
<1> QED
  BY <1>8, <1>11, <1>12, <1>13 DEF Inductive

-----------------------------------------------------------------------------
(* Steps that queue a run *)

LEMMA DispatchStep ==
  ASSUME Inductive, NEW l \in Lines, NEW c \in Nat,
         UNCHANGED <<target, main, published, approved>>,
         runs' = Append(WithoutQueued(l), NewRun(l, c)),
         sync' \in {sync, IdleSync}, budget' \in Budgets
  PROVE  Inductive'
<1> DEFINE W == WithoutQueued(l)
<1>1. TypeOK /\ runs \in Seq(Runs) /\ Len(runs) \in Nat
  BY RunsAreRuns DEF Inductive
<1>2. W \in Seq(Runs) /\ Len(W) = Len(runs) /\ DOMAIN W = DOMAIN runs
  BY <1>1, WithoutQueuedRuns
<1>3. PICK r \in Runs : r = NewRun(l, c)
  BY <1>1, FreshRunTyped
<1> HIDE DEF W
<1>4. /\ runs' \in Seq(Runs) /\ Len(runs') = Len(runs) + 1
      /\ DOMAIN runs = 1..Len(runs) /\ DOMAIN runs' = 1..(Len(runs) + 1)
      /\ runs'[Len(runs) + 1] = r
      /\ \A j \in DOMAIN runs : runs'[j] = W[j]
  BY <1>1, <1>2, <1>3 DEF W
<1>5. TypeOK'
  <2>1. 0..Len(runs) \subseteq 0..Len(runs') /\ 0 \in 0..Len(runs')
    BY <1>1, <1>4
  <2>2. sync' \in Syncs
    <3>1. IdleSync \in Syncs
      BY DEF IdleSync, Syncs, SyncPhases
    <3>2. sync \in Syncs
      BY <1>1 DEF TypeOK
    <3> QED
      BY <3>1, <3>2
  <2>3. sync'.phase # "idle" => sync'.line \in Lines /\ sync'.version \in Versions
    BY <1>1 DEF TypeOK, IdleSync
  <2>4. sync'.run \in 0..Len(runs') /\ sync'.other \in 0..Len(runs')
    BY <1>1, <2>1 DEF TypeOK, IdleSync
  <2> QED
    BY <1>1, <1>4, <2>2, <2>3, <2>4 DEF TypeOK, target, published, Budgets
<1>6. Grows
  BY DEF Grows, target, published
<1>7. r.phase = "queued" /\ r.plan = None
  BY <1>3 DEF NewRun
<1>8. RunOK(r)'
  BY <1>7 DEF RunOK, Planned, Approved
<1>9. /\ DOMAIN runs \subseteq DOMAIN runs'
      /\ DOMAIN runs' \subseteq DOMAIN runs \union {Len(runs) + 1}
      /\ \A j \in DOMAIN runs \ {Len(runs) + 1} : runs'[j] = WithoutQueued(l)[j]
      /\ Len(runs) + 1 \in Nat
  BY <1>1, <1>4 DEF W
<1> QED
  BY <1>4, <1>5, <1>6, <1>7, <1>8, <1>9, RunQueued

LEMMA RerunStep ==
  ASSUME Inductive, NEW i \in DOMAIN runs, NEW all \in BOOLEAN, Rerun(i, all)
  PROVE  Inductive'
<1> DEFINE l == runs[i].line
           plan == IF all THEN None ELSE runs[i].plan
           qualified == IF all THEN FALSE ELSE runs[i].qualified
           W == WithoutQueued(l)
<1>1. /\ TypeOK /\ runs \in Seq(Runs) /\ Len(runs) \in Nat /\ runs[i] \in Runs
      /\ RunOK(runs[i]) /\ l \in Lines /\ i \in Nat
  BY RunsAreRuns DEF Inductive, Runs
<1>2. W \in Seq(Runs) /\ Len(W) = Len(runs) /\ DOMAIN W = DOMAIN runs /\ W[i] = runs[i]
  BY <1>1, WithoutQueuedRuns DEF Rerun
<1>3. plan \in Plans \union {None} /\ qualified \in BOOLEAN
  BY <1>1 DEF Runs
<1>4. PICK r \in Runs : r = [runs[i] EXCEPT !.phase = "queued", !.cancelling = FALSE,
                                           !.plan = plan, !.qualified = qualified]
  BY <1>1, <1>3 DEF Runs, RunPhases
<1>5. r.line = l /\ r.cand = runs[i].cand /\ r.plan = plan /\ r.phase = "queued"
  BY <1>1, <1>4 DEF Runs
<1>6. runs' = [W EXCEPT ![i] = r]
  BY <1>2, <1>4 DEF Rerun
<1> HIDE DEF W
<1>7. DOMAIN runs' = DOMAIN runs /\ runs'[i] = r
      /\ \A j \in DOMAIN runs \ {i} : runs'[j] = W[j]
  BY <1>2, <1>6
<1>8. runs' \in Seq(Runs) /\ Len(runs') = Len(runs)
  <2>1. runs' = [j \in DOMAIN W |-> runs'[j]]
    BY <1>2, <1>6
  <2>2. \A j \in DOMAIN W : runs'[j] \in Runs
    BY <1>2, <1>7
  <2> QED
    BY <1>2, <2>1, <2>2, Rewritten
<1>9. TypeOK' /\ Grows
  <2>1. approved' \subseteq Plans /\ budget \in Budgets
    BY <1>1 DEF TypeOK, Budgets, Rerun
  <2>2. budget' \in Budgets
    BY <2>1 DEF Budgets, Rerun
  <2> QED
    BY <1>1, <1>8, <2>1, <2>2, TypeKept DEF Rerun, Grows, target, published
<1>10. RunOK(r)'
  BY <1>1, <1>5 DEF RunOK, Planned, Approved, Rerun, target
<1>11. \A j \in DOMAIN runs \ {i} : runs'[j] = WithoutQueued(l)[j]
  BY <1>7 DEF W
<1> QED
  BY <1>1, <1>5, <1>7, <1>9, <1>10, <1>11, RunQueued

-----------------------------------------------------------------------------
(* Maintainers and the watcher *)

Maintainers ==
  \/ \E l \in Lines, v \in Versions :
       \/ Prepare(l, v) \/ PrepareFails(l, v) \/ HandcraftNotes(l, v) \/ MergeNotes(l, v)
       \/ TouchOldNotes(l, v) \/ CloseIssue(l, v)
  \/ \E l \in Lines : Commit(l)
  \/ MoveMain

(* One entry of a table of the lines and versions is set.                   *)
LEMMA EntrySet ==
  ASSUME NEW S, NEW f \in [Lines -> [Versions -> S]], NEW l \in Lines, NEW v \in Versions,
         NEW x \in S
  PROVE  [f EXCEPT ![l][v] = x] \in [Lines -> [Versions -> S]]
OBVIOUS

(* The maintainers' steps only add merges; no run is touched.               *)
LEMMA MaintainersStep ==
  ASSUME Inductive, Maintainers
  PROVE  Inductive'
<1>1. TypeOK
  BY DEF Inductive
<1>2. /\ branch \in [Lines -> Branches] /\ main \in Nat /\ budget \in Budgets
      /\ notes \in [Lines -> [Versions -> [open : BOOLEAN, shown : Nat]]]
      /\ issue \in [Lines -> [Versions -> {"none", "open", "closed"}]]
  BY <1>1 DEF TypeOK, Budgets
<1>3. UNCHANGED <<published, runs, approved, sync>>
  BY ZenonT(30) DEF Maintainers, Prepare, PrepareFails, HandcraftNotes, MergeNotes, TouchOldNotes, CloseIssue, Commit,
         MoveMain
<1>4. ASSUME NEW l \in Lines, NEW v \in Versions,
             Prepare(l, v) \/ PrepareFails(l, v) \/ HandcraftNotes(l, v) \/ CloseIssue(l, v)
      PROVE  /\ notes' \in [Lines -> [Versions -> [open : BOOLEAN, shown : Nat]]]
             /\ issue' \in [Lines -> [Versions -> {"none", "open", "closed"}]]
             /\ budget' \in Budgets /\ main' = main /\ branch' = branch
  <2>1. [open |-> TRUE, shown |-> 0] \in [open : BOOLEAN, shown : Nat]
    OBVIOUS
  <2>2. notes' \in [Lines -> [Versions -> [open : BOOLEAN, shown : Nat]]]
    <3>1. [notes EXCEPT ![l][v] = [open |-> TRUE, shown |-> 0]]
            \in [Lines -> [Versions -> [open : BOOLEAN, shown : Nat]]]
      BY <1>2, <2>1, EntrySet
    <3> QED
      BY <1>2, <1>4, <3>1 DEF Prepare, PrepareFails, HandcraftNotes, CloseIssue
  <2>3. issue' \in [Lines -> [Versions -> {"none", "open", "closed"}]]
    <3>1. \A x \in {"open", "closed"} :
            [issue EXCEPT ![l][v] = x] \in [Lines -> [Versions -> {"none", "open", "closed"}]]
      BY <1>2, EntrySet
    <3> QED
      BY <1>2, <1>4, <3>1 DEF Prepare, PrepareFails, HandcraftNotes, CloseIssue
  <2>4. budget' \in Budgets
    BY <1>2, <1>4, Spent DEF Prepare, PrepareFails, HandcraftNotes, CloseIssue
  <2> QED
    BY <1>4, <2>2, <2>3, <2>4 DEF Prepare, PrepareFails, HandcraftNotes, CloseIssue
<1>5. ASSUME NEW l \in Lines, NEW v \in Versions, MergeNotes(l, v)
      PROVE  /\ notes' \in [Lines -> [Versions -> [open : BOOLEAN, shown : Nat]]]
             /\ branch' \in [Lines -> Branches]
             /\ \A k \in Lines : branch[k].merges \subseteq branch'[k].merges
             /\ UNCHANGED <<issue, budget, main>>
  <2>1. PICK c \in Nat : c = branch[l].head + 1
    BY <1>2 DEF Branches
  <2>2. notes' = [notes EXCEPT ![l][v] = [open |-> FALSE, shown |-> c]]
    BY <1>5, <2>1 DEF MergeNotes
  <2> DEFINE b == [branch[l] EXCEPT !.head = c,
                                   !.merges = @ \union {[sha |-> c, version |-> v]}]
  <2>3. b \in Branches
    <3>1. [sha |-> c, version |-> v] \in [sha : Nat, version : Versions]
      OBVIOUS
    <3>2. branch[l] \in Branches
      BY <1>2
    <3> QED
      BY <3>1, <3>2 DEF Branches
  <2>4. branch' = [branch EXCEPT ![l] = b]
    BY <1>2, <1>5, <2>1 DEF MergeNotes
  <2>5. branch[l].merges \subseteq b.merges
    BY <1>2 DEF Branches
  <2>6. notes' \in [Lines -> [Versions -> [open : BOOLEAN, shown : Nat]]]
    <3>1. [open |-> FALSE, shown |-> c] \in [open : BOOLEAN, shown : Nat]
      OBVIOUS
    <3> QED
      BY <1>2, <2>2, <3>1, EntrySet
  <2> HIDE DEF b
  <2>7. /\ branch' \in [Lines -> Branches]
        /\ \A k \in Lines : branch[k].merges \subseteq branch'[k].merges
    BY <1>2, <2>3, <2>4, <2>5
  <2> QED
    BY <1>5, <2>6, <2>7 DEF MergeNotes
<1>6. ASSUME NEW l \in Lines, NEW v \in Versions, TouchOldNotes(l, v)
      PROVE  /\ notes' \in [Lines -> [Versions -> [open : BOOLEAN, shown : Nat]]]
             /\ budget' \in Budgets /\ UNCHANGED <<issue, main, branch>>
  <2>1. PICK m \in branch[l].merges : notes' = [notes EXCEPT ![l][v].shown = m.sha]
    BY <1>6 DEF TouchOldNotes
  <2>2. m.sha \in Nat
    BY <1>2 DEF Branches
  <2> QED
    <3>1. [notes[l][v] EXCEPT !.shown = m.sha] \in [open : BOOLEAN, shown : Nat]
      <4>1. notes[l][v] \in [open : BOOLEAN, shown : Nat]
        BY <1>2
      <4> QED
        BY <2>2, <4>1
    <3>2. notes' = [notes EXCEPT ![l][v] = [notes[l][v] EXCEPT !.shown = m.sha]]
      BY <1>2, <2>1
    <3>3. notes' \in [Lines -> [Versions -> [open : BOOLEAN, shown : Nat]]]
      BY <1>2, <3>1, <3>2, EntrySet
    <3>4. budget' \in Budgets
      BY <1>2, <1>6, Spent DEF TouchOldNotes
    <3> QED
      BY <1>6, <3>3, <3>4 DEF TouchOldNotes
<1>7. ASSUME NEW l \in Lines, Commit(l)
      PROVE  /\ branch' \in [Lines -> Branches]
             /\ \A k \in Lines : branch[k].merges \subseteq branch'[k].merges
             /\ budget' \in Budgets /\ UNCHANGED <<notes, issue, main>>
  <2> DEFINE b == [branch[l] EXCEPT !.head = @ + 1]
  <2>1. b \in Branches
    <3>1. branch[l] \in Branches
      BY <1>2
    <3> QED
      BY <3>1 DEF Branches
  <2>2. branch' = [branch EXCEPT ![l] = b] /\ b.merges = branch[l].merges
    BY <1>2, <1>7 DEF Commit, Branches
  <2> HIDE DEF b
  <2> QED
    BY <1>2, <1>7, <2>1, <2>2, Spent DEF Commit
<1>8. ASSUME MoveMain
      PROVE  main' \in Nat /\ budget' \in Budgets /\ UNCHANGED target
  BY <1>2, <1>8, Spent DEF MoveMain
<1>9. TypeOK' /\ Grows
  <2>1. /\ branch' \in [Lines -> Branches]
        /\ \A k \in Lines : branch[k].merges \subseteq branch'[k].merges
    BY <1>2, <1>4, <1>5, <1>6, <1>7, <1>8 DEF Maintainers, target
  <2>2. /\ notes' \in [Lines -> [Versions -> [open : BOOLEAN, shown : Nat]]]
        /\ issue' \in [Lines -> [Versions -> {"none", "open", "closed"}]]
    BY <1>2, <1>4, <1>5, <1>6, <1>7, <1>8 DEF Maintainers, target
  <2>3. main' \in Nat /\ budget' \in Budgets
    BY <1>2, <1>4, <1>5, <1>6, <1>7, <1>8 DEF Maintainers
  <2> QED
    BY <1>1, <1>3, <2>1, <2>2, <2>3 DEF TypeOK, Grows, published, Budgets
<1> QED
  BY <1>3, <1>9, RunsUntouched

(* A pass of the watcher keeps its notes typed; only a dispatch and a
   cancellation touch a run.                                                *)
LEMMA WatcherNotes ==
  ASSUME Inductive, UNCHANGED <<target, main, published, runs, approved>>,
         budget' \in Budgets, sync' \in Syncs,
         sync'.phase # "idle" => sync'.line \in Lines /\ sync'.version \in Versions,
         sync'.run \in 0..Len(runs), sync'.other \in 0..Len(runs)
  PROVE  Inductive'
<1>1. TypeOK'
  BY DEF Inductive, TypeOK, target, published, Budgets
<1>2. Grows
  BY DEF Grows, target, published
<1> QED
  BY <1>1, <1>2, RunsUntouched

LEMMA WatcherStep ==
  ASSUME Inductive,
         (\E l \in Lines, v \in Versions : SyncStart(l, v)) \/ SyncStep \/ SyncFails
  PROVE  Inductive'
<1>1. TypeOK /\ runs \in Seq(Runs) /\ Len(runs) \in Nat
  BY RunsAreRuns DEF Inductive
<1>2. /\ sync \in Syncs /\ budget \in Budgets /\ main \in Nat
      /\ sync.phase # "idle" => sync.line \in Lines /\ sync.version \in Versions
      /\ sync.run \in 0..Len(runs) /\ sync.other \in 0..Len(runs)
      /\ branch \in [Lines -> Branches]
      /\ notes \in [Lines -> [Versions -> [open : BOOLEAN, shown : Nat]]]
  BY <1>1 DEF TypeOK, Budgets
<1>3. IdleSync \in Syncs /\ IdleSync.phase = "idle" /\ IdleSync.run = 0 /\ IdleSync.other = 0
  BY DEF IdleSync, Syncs, SyncPhases
<1>4. 0 \in 0..Len(runs)
  BY <1>1
<1> DEFINE Quiet == /\ UNCHANGED <<target, main, published, runs, approved>>
                    /\ budget' \in Budgets
<1>5. ASSUME Quiet, sync' = IdleSync PROVE Inductive'
  BY <1>3, <1>4, <1>5, WatcherNotes
<1>6. ASSUME NEW l \in Lines, NEW v \in Versions, SyncStart(l, v) PROVE Inductive'
  <2>1. /\ sync' \in Syncs /\ sync'.line = l /\ sync'.version = v
        /\ sync'.run = 0 /\ sync'.other = 0
    BY <1>6, LinesAssumption DEF SyncStart, IdleSync, Syncs, SyncPhases
  <2> QED
    BY <1>2, <1>4, <1>6, <2>1, WatcherNotes DEF SyncStart, SyncUnchanged
<1>7. ASSUME SyncFindPR \/ SyncReadHead \/ SyncReadMain PROVE Inductive'
  <2>1. sync.phase # "idle"
    BY <1>7 DEF SyncFindPR, SyncReadHead, SyncReadMain
  <2>2. notes[sync.line][sync.version].shown \in Nat /\ branch[sync.line].head \in Nat
    BY <1>2, <2>1 DEF Branches
  <2>3. /\ sync' \in Syncs /\ sync'.line = sync.line /\ sync'.version = sync.version
        /\ sync'.run = sync.run /\ sync'.other = sync.other
    BY ZenonT(30), <1>2, <1>7, <2>2 DEF SyncFindPR, SyncReadHead, SyncReadMain, Syncs, SyncPhases
  <2>4. Quiet
    BY <1>2, <1>7 DEF SyncFindPR, SyncReadHead, SyncReadMain, SyncUnchanged
  <2> QED
    BY <1>2, <2>1, <2>3, <2>4, WatcherNotes
<1>8. ASSUME SyncFindRelease PROVE Inductive'
  <2>1. Quiet
    BY <1>2, <1>8 DEF SyncFindRelease, SyncUnchanged
  <2>2. CASE sync' = IdleSync
    BY <1>5, <2>1, <2>2
  <2>3. CASE sync' # IdleSync
    <3>1. Released(sync.line, sync.version) \in BOOLEAN
      BY DEF Released
    <3>2. /\ sync' \in Syncs /\ sync'.line = sync.line /\ sync'.version = sync.version
          /\ sync'.run = sync.run /\ sync'.other = sync.other /\ sync.phase # "idle"
      BY <1>2, <1>8, <2>3, <3>1 DEF SyncFindRelease, Syncs, SyncPhases
    <3> QED
      BY <1>2, <2>1, <3>2, WatcherNotes
  <2> QED
    BY <2>2, <2>3
<1>9. ASSUME SyncFindRun \/ SyncFindOtherRun PROVE Inductive'
  <2>1. Quiet /\ sync.phase # "idle"
    BY <1>2, <1>9 DEF SyncFindRun, SyncFindOtherRun, SyncUnchanged
  <2>2. PICK ph \in SyncPhases, i \in 0..Len(runs), j \in 0..Len(runs) :
          sync' = [sync EXCEPT !.phase = ph, !.run = i, !.other = j]
    <3>1. CASE SyncFindRun
      <4>1. PICK i \in 0..Len(runs) : sync' = [sync EXCEPT !.phase = "current", !.run = i]
        BY <3>1 DEF SyncFindRun
      <4>2. sync' = [sync EXCEPT !.phase = "current", !.run = i, !.other = sync.other]
        BY <1>2, <4>1 DEF Syncs
      <4> QED
        BY <1>2, <4>2 DEF SyncPhases
    <3>2. CASE SyncFindOtherRun
      <4>1. PICK i \in 0..Len(runs) : \E ph \in {"stale", "found"}, j \in {i, sync.run} :
              sync' = [sync EXCEPT !.phase = ph, !.other = i, !.run = j]
        BY <3>2 DEF SyncFindOtherRun
      <4>2. PICK ph \in {"stale", "found"}, j \in {i, sync.run} :
              sync' = [sync EXCEPT !.phase = ph, !.other = i, !.run = j]
        BY <4>1
      <4>3. sync' = [sync EXCEPT !.phase = ph, !.run = j, !.other = i]
        BY <1>2, <4>2 DEF Syncs
      <4>4. ph \in SyncPhases /\ j \in 0..Len(runs)
        BY <1>2 DEF SyncPhases
      <4> QED
        BY <4>3, <4>4
    <3> QED
      BY <1>9, <3>1, <3>2
  <2>3. /\ sync' \in Syncs /\ sync'.line = sync.line /\ sync'.version = sync.version
        /\ sync'.run = i /\ sync'.other = j
    <3>1. i \in Nat /\ j \in Nat
      BY <1>1
    <3> QED
      BY <1>2, <2>2, <3>1 DEF Syncs
  <2> QED
    BY <1>2, <2>1, <2>3, WatcherNotes
<1>10. ASSUME SyncCancel PROVE Inductive'
  <2>1. /\ UNCHANGED <<target, main, published, approved, budget>>
        /\ sync.phase = "stale" /\ sync.phase # "idle"
    BY <1>10 DEF SyncCancel
  <2>2. CASE runs[sync.other].phase = "done"
    BY <1>2, <1>5, <1>10, <2>1, <2>2 DEF SyncCancel
  <2>3. CASE runs[sync.other].phase # "done"
    <3>1. /\ sync' \in Syncs /\ sync'.line = sync.line /\ sync'.version = sync.version
          /\ sync'.run = sync.run /\ sync'.other = sync.other
      BY ZenonT(30), <1>2, <1>10, <2>3 DEF SyncCancel, Syncs, SyncPhases
    <3>2. runs' = [runs EXCEPT ![sync.other].cancelling = TRUE]
      BY <1>10, <2>3 DEF SyncCancel
    <3>3. CASE sync.other \notin DOMAIN runs
      <4>1. runs' = runs
        BY <1>1, <3>2, <3>3
      <4> QED
        BY <1>2, <2>1, <3>1, <4>1, WatcherNotes
    <3>4. CASE sync.other \in DOMAIN runs
      <4>1. PICK i \in DOMAIN runs : i = sync.other
        BY <3>4
      <4>2. runs[i] \in Runs /\ RunOK(runs[i])
        BY <1>1, RunsAreRuns DEF Inductive
      <4>3. PICK r \in Runs : r = [runs[i] EXCEPT !.cancelling = TRUE]
        BY <4>2, RunTyped
      <4>4. r.line = runs[i].line /\ r.cand = runs[i].cand /\ r.plan = runs[i].plan
            /\ r.phase = runs[i].phase
        BY <4>2, <4>3 DEF Runs
      <4>5. runs' = [runs EXCEPT ![i] = r]
        BY <1>1, <3>2, <4>1, <4>3
      <4>6. Grows
        BY <2>1 DEF Grows, target, published
      <4>7. RunOK(r)'
        <5>1. RunOK(r)
          BY <4>2, <4>4 DEF RunOK
        <5> QED
          BY <4>6, <5>1, GrowingKeepsRunOK
      <4>8. runs' \in Seq(Runs) /\ Len(runs') = Len(runs)
        BY <1>1, <4>5, OneRunTyped
      <4>9. TypeOK'
        BY <1>1, <1>2, <2>1, <3>1, <4>8 DEF TypeOK, target, published, Budgets
      <4>10. r.phase \in {"queued", "done"} \/ InProgress(i)
        BY <4>4 DEF InProgress
      <4> QED
        BY <4>4, <4>5, <4>6, <4>7, <4>9, <4>10, OneRunMoves
    <3> QED
      BY <3>3, <3>4
  <2> QED
    BY <2>2, <2>3
<1>11. ASSUME SyncDispatch PROVE Inductive'
  <2>1. sync.line \in Lines /\ sync.cand \in Nat
    BY <1>2, <1>11 DEF SyncDispatch, Syncs
  <2> QED
    BY <1>2, <1>11, <2>1, DispatchStep DEF SyncDispatch
<1>12. ASSUME SyncDone PROVE Inductive'
  BY <1>2, <1>5, <1>12 DEF SyncDone, SyncUnchanged
<1>13. ASSUME SyncFails PROVE Inductive'
  <2>1. budget' \in Budgets
    BY <1>2, <1>13, Spent DEF SyncFails
  <2> QED
    BY <1>5, <1>13, <2>1 DEF SyncFails
<1> QED
  BY <1>6, <1>7, <1>8, <1>9, <1>10, <1>11, <1>12, <1>13 DEF SyncStep

-----------------------------------------------------------------------------
(* The theorems *)

(* The invariant holds initially: there are no runs, and what is released
   or tagged was so before.                                                 *)
LEMMA InitInductive == Init => Inductive
<1> SUFFICES ASSUME Init PROVE Inductive
  OBVIOUS
<1>1. TypeOK
  BY InitType
<1>2. DOMAIN runs = {}
  BY DEF Init
<1>3. PublishedAsApproved
  BY DEF Init, PublishedAsApproved
<1> QED
  BY <1>1, <1>2, <1>3 DEF Inductive, OneRunPerLine

(* Every step of a run, of its reviewer and of who reruns it keeps it.      *)
LEMMA RunsStep ==
  ASSUME Inductive, NEW i \in DOMAIN runs,
         RunStep(i) \/ Approve(i) \/ RunFails(i) \/ RunCancelled(i)
           \/ \E all \in BOOLEAN : Rerun(i, all)
  PROVE  Inductive'
<1>1. budget \in Budgets
  BY DEF Inductive, TypeOK, Budgets
<1>2. CASE RunTag(i)
  BY <1>2, TagFoundStep, TagCreatedStep
<1>3. CASE RunFinish(i) \/ RunCancelled(i)
  BY <1>1, <1>3, DoneStep DEF RunFinish, RunCancelled, RunUnchanged
<1>4. CASE RunFails(i)
  <2>1. budget' \in Budgets
    BY <1>1, <1>4, Spent DEF RunFails
  <2> QED
    BY <1>4, <2>1, DoneStep DEF RunFails
<1>5. CASE RunValidate(i) \/ RunResume(i) \/ RunQualify(i) \/ Approve(i)
  BY <1>5, ValidateStep, ResumeStep, QualifyStep, ApproveStep
<1>6. CASE RunCheckMain(i) \/ RunRevalidate(i) \/ RunRelease(i)
  BY <1>6, CheckMainStep, RevalidateStep, ReleaseStep
<1>7. CASE \E all \in BOOLEAN : Rerun(i, all)
  BY <1>7, RerunStep
<1> QED
  BY <1>2, <1>3, <1>4, <1>5, <1>6, <1>7 DEF RunStep

(* And so does every other action.                                          *)
LEMMA NextInductive == Inductive /\ [Next]_vars => Inductive'
<1> SUFFICES ASSUME Inductive, [Next]_vars PROVE Inductive'
  OBVIOUS
<1>1. TypeOK /\ budget \in Budgets /\ branch \in [Lines -> Branches]
  BY DEF Inductive, TypeOK, Budgets
<1>2. CASE Maintainers
  BY <1>2, MaintainersStep
<1>3. CASE \E l \in Lines : \E c \in 1..branch[l].head : DispatchByHand(l, c)
  <2>1. PICK l \in Lines : \E c \in 1..branch[l].head : DispatchByHand(l, c)
    BY <1>3
  <2>2. branch[l].head \in Nat
    BY <1>1 DEF Branches
  <2>3. PICK c \in Nat : DispatchByHand(l, c)
    BY <2>1, <2>2
  <2>4. budget' \in Budgets
    BY <1>1, <2>3, Spent DEF DispatchByHand
  <2> QED
    BY <2>3, <2>4, DispatchStep DEF DispatchByHand
<1>4. CASE \E i \in DOMAIN runs :
             RunStep(i) \/ Approve(i) \/ RunFails(i) \/ RunCancelled(i)
               \/ \E all \in BOOLEAN : Rerun(i, all)
  BY <1>4, RunsStep
<1>5. CASE (\E l \in Lines, v \in Versions : SyncStart(l, v)) \/ SyncStep \/ SyncFails
  BY <1>5, WatcherStep
<1>6. CASE UNCHANGED vars
  <2>1. TypeOK'
    BY <1>1, <1>6 DEF TypeOK, vars
  <2> QED
    BY <1>6, <2>1, RunsUntouched DEF vars, Grows
<1> QED
  BY <1>2, <1>3, <1>4, <1>5, <1>6 DEF Next, Maintainers

(* Every reachable state satisfies the invariant, for every number of lines,
   versions, runs and failures.                                             *)
THEOREM InductiveHolds == Spec => []Inductive
BY InitInductive, NextInductive, PTL DEF Spec

(* Branches, runs and the watcher's notes stay what their types say; the
   watcher always knows the line and version of the issue it works on.      *)
THEOREM TypeCorrect == Spec => []TypeOK
<1>1. Inductive => TypeOK
  BY DEF Inductive
<1> QED
  BY <1>1, InductiveHolds, PTL

(* Every tag is on the merge commit of its version's notes PR and every
   release is a plan that a human approved, digest field by digest field.   *)
THEOREM ApprovedOnly == Spec => []PublishedAsApproved
<1>1. Inductive => PublishedAsApproved
  BY DEF Inductive
<1> QED
  BY <1>1, InductiveHolds, PTL

(* Two runs of a line never wait for approval at the same time.             *)
THEOREM OnePrompt == Spec => []OneLivePrompt
<1>1. Inductive => OneLivePrompt
  BY DEF Inductive, OneRunPerLine, OneLivePrompt, InProgress
<1> QED
  BY <1>1, InductiveHolds, PTL

(* A tag is only created for the version that the line's tags derive at that
   very moment: between the last plan and the tag no other run of the line
   can have created one.                                                    *)
THEOREM Sequence == Spec => TagInSequence
<1> DEFINE Derived == \A l \in Lines, v \in Versions :
                        tags[l][v] = None /\ tags'[l][v] # None => Derives(l, v)
<1>1. ASSUME Inductive, [Next]_vars PROVE Derived
  <2>1. CASE \E i \in DOMAIN runs : RunTag(i)
    <3>1. PICK i \in DOMAIN runs : RunTag(i)
      BY <2>1
    <3> DEFINE p == runs[i].plan
    <3>2. RunOK(runs[i]) /\ runs[i] \in Runs /\ runs[i].phase = "bound"
          /\ tags \in [Lines -> [Versions -> Nat \union {None}]]
      BY <1>1, <3>1, RunsAreRuns DEF Inductive, RunTag, TypeOK
    <3>3. p # None /\ p \in Plans
      BY <3>2 DEF RunOK, Planned, Runs
    <3>4. p.line \in Lines /\ p.version \in Versions /\ p.sha # None
      BY <3>3, NoneAssumption DEF Plans
    <3>5. tags[p.line][p.version] = None => Derives(p.line, p.version)
      BY <3>2, <3>4 DEF RunOK
    <3>6. CASE tags[p.line][p.version] = None
      <4>1. tags' = [tags EXCEPT ![p.line][p.version] = p.sha]
        BY <3>1, <3>6 DEF RunTag
      <4>2. \A l \in Lines, v \in Versions :
              l # p.line \/ v # p.version => tags'[l][v] = tags[l][v]
        BY <3>2, <3>4, <4>1
      <4> QED
        BY <3>5, <3>6, <4>2
    <3>7. CASE tags[p.line][p.version] # None
      BY <3>1, <3>7 DEF RunTag
    <3> QED
      BY <3>6, <3>7
  <2>2. CASE ~\E i \in DOMAIN runs : RunTag(i)
    <3>1. tags' = tags
      <4>1. CASE UNCHANGED vars
        BY <4>1 DEF vars
      <4>2. CASE Maintainers
        BY ZenonT(30), <4>2 DEF Maintainers, Prepare, PrepareFails, HandcraftNotes, MergeNotes, TouchOldNotes,
                    CloseIssue, Commit, MoveMain, published
      <4>3. CASE \E l \in Lines : \E c \in 1..branch[l].head : DispatchByHand(l, c)
        BY <4>3 DEF DispatchByHand, published
      <4>4. CASE \E i \in DOMAIN runs :
                   RunStep(i) \/ Approve(i) \/ RunFails(i) \/ RunCancelled(i)
                     \/ \E all \in BOOLEAN : Rerun(i, all)
        BY ZenonT(30), <2>2, <4>4 DEF RunStep, RunValidate, RunResume, RunQualify, RunCheckMain,
             RunRevalidate, RunRelease, RunFinish, Approve, RunFails, RunCancelled, Rerun,
             RunUnchanged, published
      <4>5. CASE (\E l \in Lines, v \in Versions : SyncStart(l, v)) \/ SyncStep \/ SyncFails
        BY <4>5 DEF SyncStart, SyncStep, SyncFindPR, SyncReadHead, SyncFindRelease,
             SyncReadMain, SyncFindRun, SyncFindOtherRun, SyncCancel, SyncDispatch, SyncDone,
             SyncFails, SyncUnchanged, published
      <4> QED
        BY <1>1, <4>1, <4>2, <4>3, <4>4, <4>5 DEF Next, Maintainers
    <3> QED
      BY <3>1
  <2> QED
    BY <2>1, <2>2
<1>2. Inductive /\ [Next]_vars => [Derived]_vars
  BY <1>1
<1> QED
  BY <1>2, InductiveHolds, PTL DEF Spec, TagInSequence
=============================================================================
