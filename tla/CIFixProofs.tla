---------------------------- MODULE CIFixProofs ----------------------------
(***************************************************************************)
(* Proofs about the CI fix bot, for every value of the constants: one      *)
(* repair (FixLoop), the runs on issues (IssueFix), and the commands and   *)
(* the follow-up on pull requests (PRFix).                                 *)
(***************************************************************************)
EXTENDS FixLoop, IssueFix, PRFix,
        FiniteSetTheorems, SequenceTheorems, WellFoundedInduction, TLAPS

(***************************************************************************)
(* FixLoop                                                                 *)
(***************************************************************************)

Reproducing == {"first", "second", "looped", "loaded", "refuse"}
InRound == {"round", "verify", "review", "others", "accept"}
Branch == fixTask.kind = "branch"

(* A failure of every run, or of every run under load, that a test shows.  *)
Lasting == fixTask.plan = "test" /\ fixTask.bug \in {"always", "underLoad"}

Strayed(t, u) == u \in {t, [t EXCEPT !.stray = TRUE]}

(* Until the first round nothing is edited, and what reproduced a failure
   under load was under load.                                              *)
Unfixed ==
  /\ fixPhase \in Reproducing => tree.edit = "none"
  /\ fixPhase \in InRound \union {"second"} /\ Branch => repro.reproduced
  /\ Lasting /\ repro.reproduced /\ fixTask.bug = "underLoad" => repro.load
  /\ fixPhase \in Reproducing => Branch

(* From a verified run on, the tree is the candidate, or what that run, and
   then other issues' runs, left of it.                                    *)
TreeHeld ==
  /\ fixPhase = "verify" => tree = candidate.patch /\ Branch
  /\ fixPhase = "others" => Branch
  /\ fixPhase \in {"review", "others", "accept"} /\ Branch =>
       /\ Strayed(candidate.patch, tested.tree)
       /\ tested = [tree |-> tested.tree, load |-> repro.load, ran |-> TRUE]
       /\ Lasting /\ ~tested.tree.stray => tested.tree.edit = "cures"
  /\ fixPhase \in {"review", "others"} /\ Branch => tree = tested.tree
  /\ fixPhase = "accept" /\ Branch => Strayed(tested.tree, tree)
  /\ fixPhase \in {"others", "accept"} => reviewed = candidate.patch

(* What a test run with the patch and without it says of another issue.    *)
OtherCured(edit) ==
  /\ fixTask.other \in {"always", "underLoad", "flaky"}
  /\ fixTask.other # "flaky" => edit = "cures" /\ fixTask.sameCause

(* Only a candidate that was reviewed is run against other issues, and what
   that showed holds of the tree it was shown on.                          *)
OthersHeld ==
  /\ fixPhase \notin {"accept", "done"} => ~alsoFixes
  /\ fixPhase = "accept" /\ alsoFixes /\ ~tree.stray => OtherCured(tree.edit)

OutcomeOK ==
  /\ fixPhase # "done" => fixResult = "none"
  /\ AcceptedAsTested /\ AcceptedCures /\ ClosesOnlyFixed

FixInductive == FixTypeOK /\ Unfixed /\ TreeHeld /\ OthersHeld /\ OutcomeOK
-----------------------------------------------------------------------------
(* What a run shows *)

(* A run leaves the edit as it was.                                        *)
LEMMA RunKeepsEdit ==
  ASSUME FixTypeOK, NEW load \in BOOLEAN, NEW run \in Runs(load)
  PROVE  /\ Strayed(tree, run.tree) /\ run.tree \in Trees /\ run.tree.edit = tree.edit
         /\ run.result \in Results /\ run.result \in RunResults(run.tree, load)
<1>1. PICK t \in {tree, [tree EXCEPT !.stray = TRUE]} :
        \E r \in RunResults(t, load) : run = [result |-> r, tree |-> t]
  BY ZenonT(40) DEF Runs
<1>2. t \in Trees /\ t.edit = tree.edit
  BY <1>1 DEF FixTypeOK, Trees
<1>3. RunResults(t, load) \subseteq Results
  BY DEF RunResults, Results
<1> QED
  BY <1>1, <1>2, <1>3 DEF Strayed

(* On unfixed code, a failure under load shows under load only.            *)
LEMMA UnfixedRun ==
  ASSUME FixTypeOK, tree.edit = "none", NEW load \in BOOLEAN, NEW run \in Runs(load)
  PROVE  (run.result = "fail" /\ fixTask.bug = "underLoad") => load
<1>1. run.tree.edit = "none" /\ run.result \in RunResults(run.tree, load)
  BY RunKeepsEdit
<1> QED
  BY <1>1 DEF RunResults, BugResults, Edits

(* A candidate that passes where the failure shows, on a tree that holds
   nothing else, cures it.                                                 *)
LEMMA PassingCures ==
  ASSUME FixTypeOK, NEW load \in BOOLEAN, NEW run \in Runs(load), Lasting,
         fixTask.bug = "underLoad" => load,
         Passed(run.result), Ran(run.result), ~run.tree.stray
  PROVE  run.tree.edit = "cures"
<1>1. run.tree \in Trees /\ run.result \in RunResults(run.tree, load)
  BY RunKeepsEdit
<1>2. run.result = "pass"
  BY DEF Passed, Ran, Lasting
<1>3. "pass" \notin BugResults(fixTask.bug, load)
  BY DEF BugResults, Lasting
<1>4. fixTask.plan # "file"
  BY DEF Lasting
<1> QED
  BY <1>1, <1>2, <1>3, <1>4 DEF RunResults, Trees, Edits

(* What fails without the patch and passes with it, on a tree that holds
   nothing else, was there and is cured, a flaky failure aside.            *)
LEMMA ShownIsCured ==
  ASSUME FixTypeOK, NEW t \in Trees, ~t.stray, NEW load \in BOOLEAN, ShownFixed(t, load)
  PROVE  OtherCured(t.edit)
<1>1. "fail" \in BugResults(fixTask.other, load)
  <2>1. "fail" \in OtherResults(Unpatched(t), load)
    BY DEF ShownFixed
  <2>2. Unpatched(t).edit = "none" /\ ~Unpatched(t).stray
    BY DEF Unpatched, Trees
  <2> QED
    BY <2>1, <2>2 DEF OtherResults
<1>2. load => "pass" \in BugResults(fixTask.other, FALSE)
  <2>1. load => "pass" \in OtherResults(Unpatched(t), FALSE)
    BY DEF ShownFixed
  <2>2. Unpatched(t).edit = "none" /\ ~Unpatched(t).stray
    BY DEF Unpatched, Trees
  <2> QED
    BY <2>1, <2>2 DEF OtherResults
<1>3. /\ fixTask.other \in {"always", "underLoad", "flaky"}
      /\ fixTask.other # "flaky" => (load <=> fixTask.other = "underLoad")
  BY <1>1, <1>2 DEF BugResults, FixTypeOK, Tasks, Bugs
<1>4. fixTask.other # "flaky" => "pass" \notin BugResults(fixTask.other, load)
  BY <1>3 DEF BugResults
<1>5. "pass" \in OtherResults(t, load)
  BY DEF ShownFixed
<1> QED
  BY <1>3, <1>4, <1>5 DEF OtherResults, OtherCured
-----------------------------------------------------------------------------
(* The invariant *)

LEMMA FixInitInductive == FixInit => FixInductive
<1> SUFFICES ASSUME NEW task \in Tasks, FixStart(task) PROVE FixInductive
  BY DEF FixInit
<1>1. FixTypeOK
  <2>1. CleanTree \in Trees /\ round \in 1..MaxRounds
    BY MaxRoundsAssumption DEF FixStart, CleanTree, Trees
  <2>2. fixPhase \in FixPhases
    BY DEF FixStart, FixPhases
  <2> QED
    BY <2>1, <2>2 DEF FixStart, FixTypeOK, NotReproduced, NoCandidate, NotRun
<1>2. Unfixed
  BY DEF FixStart, Unfixed, NotReproduced, CleanTree, Reproducing, InRound, Branch, Tasks
<1>3. TreeHeld /\ OthersHeld /\ OutcomeOK
  BY DEF FixStart, TreeHeld, OthersHeld, OutcomeOK, AcceptedAsTested, AcceptedCures, ClosesOnlyFixed
<1> QED
  BY <1>1, <1>2, <1>3 DEF FixInductive

(* A round that does not end preparation goes on to the next.              *)
LEMMA NextRoundInductive ==
  ASSUME FixInductive, fixPhase \in InRound, NextRound, tree' \in Trees,
         UNCHANGED <<fixTask, repro>>
  PROVE  FixInductive'
<1>1. fixPhase' \in {"round", "done"} /\ fixResult' \in {"none", "refused"}
      /\ (fixPhase' = "round" => fixResult' = "none") /\ (fixPhase' = "done" => fixResult' = "refused")
  BY DEF NextRound, Return, FixInductive, OutcomeOK, InRound
<1>2. /\ round' \in 1..MaxRounds
      /\ candidate' = NoCandidate /\ tested' = NotRun /\ reviewed' = CleanTree /\ ~alsoFixes'
  BY MaxRoundsAssumption DEF NextRound, Anew, FixInductive, FixTypeOK
<1>3. FixTypeOK'
  <2>1. CleanTree \in Trees /\ alsoFixes' \in BOOLEAN
    BY DEF NextRound, Anew, CleanTree, Trees
  <2> QED
    BY <1>1, <1>2, <2>1 DEF FixInductive, FixTypeOK, NoCandidate, NotRun, FixPhases
<1>4. Unfixed'
  BY <1>1 DEF FixInductive, Unfixed, Reproducing, InRound, Branch, Lasting
<1>5. TreeHeld' /\ OthersHeld' /\ OutcomeOK'
  BY <1>1, <1>2 DEF FixInductive, TreeHeld, OthersHeld, OutcomeOK, InRound, AcceptedAsTested, AcceptedCures, ClosesOnlyFixed
<1> QED
  BY <1>3, <1>4, <1>5 DEF FixInductive

(* Nor can a refusal or an error break anything.                           *)
LEMMA ReturnInductive ==
  ASSUME FixInductive, fixPhase # "done", NEW outcome \in {"refused", "error"}, Return(outcome),
         tree' \in Trees, UNCHANGED <<fixTask, repro, round, candidate, verdicts>>
  PROVE  FixInductive'
<1>1. fixPhase' = "done" /\ fixResult' = outcome
  BY DEF Return
<1>2. FixTypeOK'
  BY <1>1 DEF FixInductive, FixTypeOK, FixPhases, verdicts
<1>3. Unfixed'
  BY <1>1 DEF FixInductive, Unfixed, Reproducing, InRound, Branch, Lasting
<1>4. TreeHeld' /\ OthersHeld' /\ OutcomeOK'
  BY <1>1 DEF FixInductive, TreeHeld, OthersHeld, OutcomeOK, AcceptedAsTested, AcceptedCures, ClosesOnlyFixed
<1> QED
  BY <1>2, <1>3, <1>4 DEF FixInductive

LEMMA ReproduceInductive ==
  ASSUME FixInductive, Reproduce
  PROVE  FixInductive'
<1>a. FixTypeOK /\ Unfixed /\ OthersHeld /\ OutcomeOK
  BY DEF FixInductive
<1>b. ASSUME fixPhase \in Reproducing, fixPhase' \in Reproducing \union {"round"}, tree' \in Trees,
             tree'.edit = "none", repro' \in [reproduced : BOOLEAN, load : BOOLEAN],
             fixPhase' \in {"round", "second"} => repro'.reproduced,
             (Lasting /\ repro'.reproduced /\ fixTask.bug = "underLoad") => repro'.load,
             RoundsUntouched
      PROVE  FixInductive'
  <2>1. FixTypeOK'
    BY <1>a, <1>b DEF FixTypeOK, RoundsUntouched, verdicts, Reproducing, FixPhases
  <2>2. Unfixed'
    BY <1>a, <1>b DEF Unfixed, RoundsUntouched, Reproducing, InRound, Branch, Lasting
  <2>3. TreeHeld' /\ OutcomeOK'
    BY <1>a, <1>b DEF TreeHeld, OutcomeOK, RoundsUntouched, verdicts, Reproducing,
       AcceptedAsTested, AcceptedCures, ClosesOnlyFixed
  <2>4. OthersHeld'
    BY <1>a, <1>b DEF OthersHeld, RoundsUntouched, verdicts, Reproducing
  <2> QED
    BY <2>1, <2>2, <2>3, <2>4 DEF FixInductive
<1>c. ASSUME NEW load \in BOOLEAN, NEW run \in Runs(load), fixPhase \in Reproducing
      PROVE  /\ run.tree \in Trees /\ run.tree.edit = "none" /\ run.result \in Results
             /\ Lasting /\ Failed(run.result) /\ fixTask.bug = "underLoad" => load
  BY <1>a, <1>c, RunKeepsEdit, UnfixedRun DEF Unfixed, Failed, Lasting
<1>1. CASE FirstRun
  <2>1. PICK run \in Runs(FALSE) :
          /\ tree' = run.tree
          /\ repro' = [repro EXCEPT !.reproduced = Failed(run.result)]
          /\ fixPhase' = IF Failed(run.result)
                            THEN IF fixTask.plan = "build" THEN "round" ELSE "second"
                          ELSE IF run.result = "pass" /\ fixTask.plan # "build" THEN "looped"
                          ELSE "refuse"
    BY <1>1 DEF FirstRun
  <2>2. fixPhase \in Reproducing /\ RoundsUntouched
    BY <1>1 DEF FirstRun, Reproducing
  <2>3. Failed(run.result) \in BOOLEAN
    BY DEF Failed
  <2>4. /\ repro' \in [reproduced : BOOLEAN, load : BOOLEAN]
        /\ repro'.reproduced = Failed(run.result)
    BY <1>a, <2>1, <2>3 DEF FixTypeOK
  <2> QED
    BY <1>b, <1>c, <2>1, <2>2, <2>4 DEF Reproducing
<1>2. CASE SecondRun
  <2>1. PICK run \in Runs(FALSE) : tree' = run.tree
    BY <1>2 DEF SecondRun
  <2>2. fixPhase = "second" /\ RoundsUntouched /\ UNCHANGED repro /\ fixPhase' = "round"
    BY <1>2 DEF SecondRun
  <2> QED
    BY <1>a, <1>b, <1>c, <2>1, <2>2 DEF Reproducing, FixTypeOK, Unfixed
<1>3. ASSUME NEW load \in BOOLEAN, LoopedRun(load) PROVE FixInductive'
  <2>1. PICK run \in Runs(load) :
          /\ tree' = run.tree
          /\ repro' = [reproduced |-> Failed(run.result), load |-> Failed(run.result) /\ load]
          /\ fixPhase' = IF Failed(run.result) THEN "round" ELSE IF load THEN "refuse" ELSE "loaded"
    BY <1>3 DEF LoopedRun
  <2>2. fixPhase \in Reproducing /\ RoundsUntouched
    BY <1>3 DEF LoopedRun, Reproducing
  <2>3. Failed(run.result) \in BOOLEAN
    BY DEF Failed
  <2> QED
    BY <1>b, <1>c, <2>1, <2>2, <2>3 DEF Reproducing
<1>4. CASE NoTimeToLoop
  <2>1. fixPhase \in Reproducing /\ fixPhase' = "refuse" /\ UNCHANGED <<tree, repro>> /\ RoundsUntouched
    BY <1>4 DEF NoTimeToLoop, Reproducing
  <2> QED
    BY <1>a, <1>b, <2>1 DEF FixTypeOK, Unfixed, Reproducing
<1>5. CASE NotReproducedByCode
  BY <1>a, <1>5, ReturnInductive DEF NotReproducedByCode, FixTypeOK
<1> QED
  BY <1>1, <1>2, <1>3, <1>4, <1>5 DEF Reproduce

(* The agent's session: it edits, and nothing else has changed.            *)
LEMMA SessionInductive ==
  ASSUME FixInductive, Session
  PROVE  FixInductive'
<1>a. /\ FixTypeOK /\ Unfixed /\ OthersHeld /\ OutcomeOK /\ tree \in Trees /\ fixPhase = "round"
      /\ UNCHANGED <<fixTask, repro>>
  BY DEF FixInductive, FixTypeOK, Session, OutOfTime, AgentRefuses, AgentCrashes, AgentRejected,
     AgentPatches, AgentPorts, PortNotApplied, SessionUntouched
<1>1. CASE OutOfTime \/ AgentRefuses \/ AgentCrashes
  <2>1. \E outcome \in {"refused", "error"} : Return(outcome)
    BY <1>1 DEF OutOfTime, AgentRefuses, AgentCrashes
  <2>2. UNCHANGED <<round, tree, candidate, verdicts>>
    BY <1>1 DEF OutOfTime, AgentRefuses, AgentCrashes, SessionUntouched
  <2>3. PICK outcome \in {"refused", "error"} : Return(outcome)
    BY <2>1
  <2> QED
    BY <1>a, <2>2, <2>3, ReturnInductive
<1>2. CASE AgentRejected \/ PortNotApplied
  <2>1. NextRound /\ tree' \in Trees
    <3>1. \A e \in Edits \union {"none"} : [tree EXCEPT !.edit = e] \in Trees
      BY <1>a DEF Trees
    <3>2. CleanTree \in Trees /\ [tree EXCEPT !.stray = TRUE] \in Trees
      BY <1>a DEF Trees, CleanTree
    <3> QED
      BY <1>2, <1>a, <3>1, <3>2 DEF AgentRejected, PortNotApplied, PortBase, Restored
  <2> QED
    BY <1>a, <2>1, NextRoundInductive DEF InRound
<1>3. CASE AgentPatches \/ AgentPorts
  <2>1. PICK port \in BOOLEAN, t \in Trees : Proposed(port, t)
    <3>1. \A e \in Edits : [tree EXCEPT !.edit = e] \in Trees /\ [CleanTree EXCEPT !.edit = e] \in Trees
      BY <1>a DEF Trees, CleanTree
    <3> QED
      BY <1>3, <3>1 DEF AgentPatches, AgentPorts
  <2>2. /\ tree' = t /\ candidate' = [port |-> port, patch |-> t] /\ UNCHANGED <<round, fixResult>>
        /\ fixPhase' = IF fixTask.kind = "suggest" THEN "review" ELSE "verify"
    BY <2>1 DEF Proposed
  <2>3. fixTask.kind \in {"suggest", "branch"} /\ UNCHANGED verdicts
    BY <1>3, <1>a DEF FixTypeOK, Tasks, AgentPatches, AgentPorts, SessionUntouched
  <2>4. FixTypeOK'
    BY <1>a, <2>1, <2>2, <2>3 DEF FixTypeOK, verdicts, FixPhases
  <2>5. Unfixed'
    BY <1>a, <2>2 DEF Unfixed, Reproducing, InRound, Branch, Lasting
  <2>6. TreeHeld'
    BY <1>a, <2>2, <2>3 DEF TreeHeld, Branch
  <2>7. OthersHeld' /\ OutcomeOK'
    BY <1>a, <2>2, <2>3 DEF OthersHeld, OutcomeOK, verdicts, AcceptedAsTested, AcceptedCures, ClosesOnlyFixed
  <2> QED
    BY <2>4, <2>5, <2>6, <2>7 DEF FixInductive
<1> QED
  BY <1>1, <1>2, <1>3 DEF Session

LEMMA JudgeInductive ==
  ASSUME FixInductive, Judge
  PROVE  FixInductive'
<1>a. FixTypeOK /\ Unfixed /\ TreeHeld /\ OthersHeld /\ OutcomeOK /\ tree \in Trees
      /\ candidate.patch \in Trees /\ CleanTree \in Trees /\ UNCHANGED <<fixTask, repro>>
      /\ fixTask.kind \in {"suggest", "branch"}
  BY DEF FixInductive, FixTypeOK, Trees, CleanTree, Tasks, Judge, Verify, ReviewApproves, ReviewRejects,
     ReviewFails, NoOtherIssue, OtherIssues, Accept, TreeChanged
<1>b. \A t \in Trees : LeftTrees(t) \subseteq Trees
  BY <1>a DEF LeftTrees
<1>1. CASE Verify
  <2>1. PICK run \in Runs(VerifyLoad) :
          \/ /\ Passed(run.result) /\ Ran(run.result)
             /\ tree' = run.tree
             /\ tested' = [tree |-> run.tree, load |-> VerifyLoad, ran |-> TRUE]
             /\ fixPhase' = "review"
             /\ UNCHANGED <<round, candidate, reviewed, alsoFixes, fixResult>>
          \/ /\ tree' \in LeftTrees(run.tree)
             /\ Return("error")
             /\ UNCHANGED <<round, candidate, verdicts>>
          \/ tree' \in LeftTrees(run.tree) /\ NextRound
    BY <1>1 DEF Verify
  <2>2. fixPhase = "verify" /\ VerifyLoad \in BOOLEAN /\ VerifyLoad = repro.load
    BY <1>1, <1>a DEF Verify, VerifyLoad, FixTypeOK
  <2>3. run.tree \in Trees /\ Strayed(tree, run.tree)
    BY <1>a, <2>1, <2>2, RunKeepsEdit
  <2>4. CASE /\ Passed(run.result) /\ Ran(run.result)
             /\ tree' = run.tree
             /\ tested' = [tree |-> run.tree, load |-> VerifyLoad, ran |-> TRUE]
             /\ fixPhase' = "review"
             /\ UNCHANGED <<round, candidate, reviewed, alsoFixes, fixResult>>
    <3>1. FixTypeOK'
      BY <1>a, <2>2, <2>3, <2>4 DEF FixTypeOK, FixPhases
    <3>2. Unfixed'
      BY <1>a, <2>2, <2>4 DEF Unfixed, Reproducing, InRound, Branch, Lasting
    <3>3. Lasting /\ ~run.tree.stray => run.tree.edit = "cures"
      <4>1. Branch /\ repro.reproduced
        BY <1>a, <2>2 DEF TreeHeld, Unfixed, InRound
      <4>2. Lasting /\ fixTask.bug = "underLoad" => VerifyLoad
        BY <1>a, <2>2, <4>1 DEF Unfixed
      <4> QED
        BY <1>a, <2>1, <2>2, <2>4, <4>2, PassingCures
    <3>4. TreeHeld'
      BY <1>a, <2>2, <2>3, <2>4, <3>3 DEF TreeHeld, Branch, Lasting
    <3>5. OthersHeld' /\ OutcomeOK'
      BY <1>a, <2>2, <2>4 DEF OthersHeld, OutcomeOK, AcceptedAsTested, AcceptedCures, ClosesOnlyFixed
    <3> QED
      BY <3>1, <3>2, <3>4, <3>5 DEF FixInductive
  <2>5. CASE /\ tree' \in LeftTrees(run.tree)
             /\ Return("error")
             /\ UNCHANGED <<round, candidate, verdicts>>
    BY <1>a, <1>b, <2>2, <2>3, <2>5, ReturnInductive
  <2>6. CASE tree' \in LeftTrees(run.tree) /\ NextRound
    BY <1>a, <1>b, <2>2, <2>3, <2>6, NextRoundInductive DEF InRound
  <2> QED
    BY <2>1, <2>4, <2>5, <2>6
<1>2. CASE ReviewApproves
  <2>1. /\ fixPhase = "review" /\ reviewed' = candidate.patch
        /\ fixPhase' = IF fixTask.kind = "suggest" THEN "accept" ELSE "others"
        /\ UNCHANGED <<round, tree, candidate, tested, alsoFixes, fixResult>>
    BY <1>2 DEF ReviewApproves
  <2>2. FixTypeOK'
    BY <1>a, <2>1 DEF FixTypeOK, FixPhases
  <2>3. Unfixed'
    BY <1>a, <2>1 DEF Unfixed, Reproducing, InRound, Branch, Lasting
  <2>4. TreeHeld'
    BY <1>a, <2>1 DEF TreeHeld, Branch, Lasting
  <2>5. OthersHeld'
    BY <1>a, <2>1 DEF OthersHeld
  <2>6. OutcomeOK'
    BY <1>a, <2>1 DEF OutcomeOK, AcceptedAsTested, AcceptedCures, ClosesOnlyFixed
  <2> QED
    BY <2>2, <2>3, <2>4, <2>5, <2>6 DEF FixInductive
<1>3. CASE ReviewRejects \/ TreeChanged
  <2>1. fixPhase \in InRound /\ NextRound /\ tree' \in Trees
    BY <1>3, <1>a, <1>b DEF ReviewRejects, TreeChanged, InRound
  <2> QED
    BY <1>a, <2>1, NextRoundInductive
<1>4. CASE ReviewFails
  BY <1>4, <1>a, <1>b, ReturnInductive DEF ReviewFails
<1>5. CASE NoOtherIssue
  <2>1. /\ fixPhase = "others" /\ fixPhase' = "accept" /\ alsoFixes' = FALSE
        /\ UNCHANGED <<round, tree, candidate, tested, reviewed, fixResult>>
    BY <1>5 DEF NoOtherIssue
  <2>2. FixTypeOK'
    BY <1>a, <2>1 DEF FixTypeOK, FixPhases
  <2>3. Unfixed'
    BY <1>a, <2>1 DEF Unfixed, Reproducing, InRound, Branch, Lasting
  <2>4. TreeHeld'
    BY <1>a, <2>1 DEF TreeHeld, Branch, Lasting, Strayed
  <2>5. OthersHeld' /\ OutcomeOK'
    BY <1>a, <2>1 DEF OthersHeld, OutcomeOK, AcceptedAsTested, AcceptedCures, ClosesOnlyFixed
  <2> QED
    BY <2>2, <2>3, <2>4, <2>5 DEF FixInductive
<1>7. CASE OtherIssues
  <2>1. fixPhase = "others" /\ UNCHANGED <<round, candidate, tested, reviewed>>
    BY <1>7 DEF OtherIssues
  <2>2. CASE /\ tree' \in {tree, [tree EXCEPT !.stray = TRUE]} /\ alsoFixes' \in BOOLEAN
             /\ alsoFixes' => \E load \in BOOLEAN : ShownFixed(tree', load)
             /\ fixPhase' = "accept" /\ UNCHANGED fixResult
    <3>1. tree' \in Trees
      BY <1>a, <2>2 DEF Trees
    <3>2. FixTypeOK'
      BY <1>a, <2>1, <2>2, <3>1 DEF FixTypeOK, FixPhases
    <3>3. Unfixed'
      BY <1>a, <2>1, <2>2 DEF Unfixed, Reproducing, InRound, Branch, Lasting
    <3>4. TreeHeld'
      BY <1>a, <2>1, <2>2 DEF TreeHeld, Branch, Lasting, Strayed
    <3>5. OthersHeld'
      <4>1. ASSUME alsoFixes', ~tree'.stray PROVE OtherCured(tree'.edit)
        <5>1. PICK load \in BOOLEAN : ShownFixed(tree', load)
          BY <2>2, <4>1
        <5> QED
          BY <1>a, <3>1, <4>1, <5>1, ShownIsCured
      <4> QED
        BY <1>a, <2>2, <4>1 DEF OthersHeld, OtherCured
    <3>6. OutcomeOK'
      BY <1>a, <2>1, <2>2 DEF OutcomeOK, AcceptedAsTested, AcceptedCures, ClosesOnlyFixed
    <3> QED
      BY <3>2, <3>3, <3>4, <3>5, <3>6 DEF FixInductive
  <2>3. CASE /\ tree' \in LeftTrees(tree) \union LeftTrees([tree EXCEPT !.stray = TRUE])
             /\ Return("error") /\ UNCHANGED alsoFixes
    <3>1. [tree EXCEPT !.stray = TRUE] \in Trees
      BY <1>a DEF Trees
    <3>2. tree' \in Trees
      BY <1>a, <1>b, <2>3, <3>1
    <3> QED
      BY <1>a, <2>1, <2>3, <3>2, ReturnInductive DEF verdicts
  <2> QED
    BY <1>7, <2>2, <2>3 DEF OtherIssues
(* What is accepted is the candidate, so nothing strayed since the run.    *)
<1>6. CASE Accept
  <2>1. /\ fixPhase = "accept" /\ tree = candidate.patch /\ fixPhase' = "done" /\ fixResult' = "accepted"
        /\ tree' \in Trees /\ UNCHANGED <<round, candidate, tested, reviewed, alsoFixes>>
    BY <1>6, <1>a, <1>b DEF Accept, SameTree, Return, verdicts
  <2>2. Branch => tested.tree = candidate.patch
    BY ZenonT(30), <1>a, <2>1 DEF TreeHeld, Strayed, Trees
  <2>3. FixTypeOK'
    BY <1>a, <2>1 DEF FixTypeOK, FixPhases
  <2>4. Unfixed'
    BY <1>a, <2>1 DEF Unfixed, Reproducing, InRound, Branch, Lasting
  <2>5. TreeHeld'
    BY <2>1 DEF TreeHeld
  <2>6. AcceptedAsTested'
    BY <1>a, <2>1, <2>2 DEF AcceptedAsTested, TreeHeld, Unfixed, InRound, Branch
  <2>7. AcceptedCures'
    BY <1>a, <2>1, <2>2 DEF AcceptedCures, TreeHeld, Branch, Lasting
  <2>8. ClosesOnlyFixed'
    BY <1>a, <2>1 DEF ClosesOnlyFixed, OthersHeld, OtherCured
  <2>9. OutcomeOK'
    BY <1>a, <2>1, <2>6, <2>7, <2>8 DEF OutcomeOK
  <2>10. OthersHeld'
    BY <2>1 DEF OthersHeld
  <2> QED
    BY <2>3, <2>4, <2>5, <2>9, <2>10 DEF FixInductive
<1> QED
  BY <1>1, <1>2, <1>3, <1>4, <1>5, <1>6, <1>7 DEF Judge

LEMMA FixStepsInductive ==
  ASSUME FixInductive, [FixNext]_fixVars
  PROVE  FixInductive'
<1>1. CASE UNCHANGED fixVars
  BY <1>1 DEF fixVars, FixInductive, FixTypeOK, Unfixed, TreeHeld, OutcomeOK, AcceptedAsTested,
     AcceptedCures, ClosesOnlyFixed, OthersHeld, OtherCured, Branch, Lasting
<1> QED
  BY <1>1, ReproduceInductive, SessionInductive, JudgeInductive DEF FixNext

(* What was reproduced, which tree the passing run saw, what the reviewer
   read and what another issue's test showed, at each phase of a fix
   (engine.py).                                                            *)
THEOREM FixIsInductive == FixSpec => []FixInductive
<1>1. FixInductive /\ [FixNext]_fixVars => FixInductive'
  BY FixStepsInductive
<1> QED
  BY <1>1, FixInitInductive, PTL DEF FixSpec

(* A fix handed on for publication is the patch that the reviewer approved
   and, for a branch, the one the reproduction passed on under the load that
   the failure needed, whatever runs in between wrote to the tree.         *)
THEOREM FixesAreTested == FixSpec => []AcceptedAsTested
<1>1. FixInductive => AcceptedAsTested
  BY DEF FixInductive, OutcomeOK
<1> QED
  BY <1>1, FixIsInductive, PTL

(* No change that leaves a lasting failure or hides its test is accepted.  *)
THEOREM FixesCure == FixSpec => []AcceptedCures
<1>1. FixInductive => AcceptedCures
  BY DEF FixInductive, OutcomeOK
<1> QED
  BY <1>1, FixIsInductive, PTL

(* No draft closes another issue whose failure was not there without the
   patch, or that the patch leaves (engine.other_issues_fixed).            *)
THEOREM OtherIssuesCloseWhenFixed == FixSpec => []ClosesOnlyFixed
<1>1. FixInductive => ClosesOnlyFixed
  BY DEF FixInductive, OutcomeOK
<1> QED
  BY <1>1, FixIsInductive, PTL

(* A fix ends: no round goes back within itself, and there are MaxRounds of
   them.  Distance is how many steps the end of a round, or of the
   reproduction, is away at most.                                          *)
Distance(phase) ==
  CASE phase = "first" -> 8 [] phase = "looped" -> 7 [] phase \in {"second", "loaded"} -> 6
    [] phase = "round" -> 5 [] phase = "verify" -> 4 [] phase = "review" -> 3
    [] phase = "others" -> 2 [] phase \in {"accept", "refuse"} -> 1
    [] OTHER -> 0

FixStepsLeft == 5 * (MaxRounds - round) + Distance(fixPhase)

LEMMA Distances ==
  /\ Distance("first") = 8 /\ Distance("looped") = 7 /\ Distance("second") = 6
  /\ Distance("loaded") = 6 /\ Distance("round") = 5 /\ Distance("verify") = 4
  /\ Distance("review") = 3 /\ Distance("others") = 2 /\ Distance("accept") = 1
  /\ Distance("refuse") = 1 /\ Distance("done") = 0
  BY DEF Distance

(* Within a round the phase moves on; the next round starts at its start.  *)
RoundGoesOn == round' = round /\ Distance(fixPhase') < Distance(fixPhase)
RoundAgain ==
  /\ round < MaxRounds /\ round' = round + 1
  /\ Distance(fixPhase) > 0 /\ fixPhase' = "round"

LEMMA RoundEnds ==
  ASSUME NextRound, fixPhase \in InRound
  PROVE  RoundGoesOn \/ RoundAgain
<1>1. Distance(fixPhase) > 0
  BY Distances DEF InRound
<1>2. CASE round < MaxRounds
  BY <1>1, <1>2 DEF NextRound, RoundAgain
<1>3. CASE ~(round < MaxRounds)
  BY <1>1, <1>3, Distances DEF NextRound, Return, RoundGoesOn
<1> QED
  BY <1>2, <1>3

LEMMA FixAdvances ==
  ASSUME FixNext
  PROVE  RoundGoesOn \/ RoundAgain
<1> USE DEF Return
<1>1. CASE Reproduce
  <2>1. round' = round
    BY <1>1 DEF Reproduce, FirstRun, SecondRun, NoTimeToLoop, NotReproducedByCode, LoopedRun,
       RoundsUntouched
  <2>2. \/ fixPhase = "first" /\ fixPhase' \in {"round", "second", "looped", "refuse"}
        \/ fixPhase = "second" /\ fixPhase' = "round"
        \/ fixPhase = "looped" /\ fixPhase' \in {"round", "loaded", "refuse"}
        \/ fixPhase = "loaded" /\ fixPhase' \in {"round", "refuse"}
        \/ fixPhase = "refuse" /\ fixPhase' = "done"
    BY <1>1 DEF Reproduce, FirstRun, SecondRun, NoTimeToLoop, NotReproducedByCode, LoopedRun
  <2> QED
    BY <2>1, <2>2, Distances DEF RoundGoesOn
<1>2. CASE AgentRejected \/ PortNotApplied \/ ReviewRejects \/ TreeChanged
  <2>1. NextRound /\ fixPhase \in InRound
    BY <1>2 DEF AgentRejected, PortNotApplied, ReviewRejects, TreeChanged, InRound
  <2> QED
    BY <2>1, RoundEnds
<1>3. CASE OutOfTime \/ AgentRefuses \/ AgentCrashes
  BY <1>3, Distances DEF OutOfTime, AgentRefuses, AgentCrashes, RoundGoesOn
<1>4. CASE AgentPatches \/ AgentPorts
  <2>1. fixPhase = "round" /\ round' = round /\ fixPhase' \in {"verify", "review"}
    BY <1>4 DEF AgentPatches, AgentPorts, Proposed
  <2> QED
    BY <2>1, Distances DEF RoundGoesOn
<1>5. CASE Verify
  <2>1. \/ round' = round /\ fixPhase' \in {"review", "done"}
        \/ NextRound
    BY <1>5 DEF Verify
  <2>2. fixPhase = "verify"
    BY <1>5 DEF Verify
  <2>3. CASE NextRound
    BY <2>2, <2>3, RoundEnds DEF InRound
  <2> QED
    BY <2>1, <2>2, <2>3, Distances DEF RoundGoesOn
<1>6. CASE ReviewApproves \/ ReviewFails
  BY <1>6, Distances DEF ReviewApproves, ReviewFails, RoundGoesOn
<1>7. CASE NoOtherIssue \/ OtherIssues \/ Accept
  BY <1>7, Distances DEF NoOtherIssue, OtherIssues, Accept, RoundGoesOn
<1> QED
  BY <1>1, <1>2, <1>3, <1>4, <1>5, <1>6, <1>7 DEF FixNext, Session, Judge

LEMMA FixIsCounted ==
  /\ FixTypeOK => FixStepsLeft \in 0..(5 * MaxRounds + 3)
  /\ FixTypeOK /\ FixNext => FixStepsLeft' < FixStepsLeft
<1>1. \A phase : Distance(phase) \in 0..8
  BY DEF Distance
<1>2. MaxRounds \in Nat /\ (FixTypeOK => round \in 1..MaxRounds)
  BY MaxRoundsAssumption DEF FixTypeOK
<1>3. FixTypeOK => FixStepsLeft \in 0..(5 * MaxRounds + 3)
  BY <1>1, <1>2 DEF FixStepsLeft
<1>4. ASSUME FixTypeOK, FixNext PROVE FixStepsLeft' < FixStepsLeft
  <2>1. CASE RoundGoesOn
    BY <1>1, <1>2, <1>4, <2>1 DEF RoundGoesOn, FixStepsLeft
  <2>2. CASE RoundAgain
    BY <1>1, <1>2, <1>4, <2>2, Distances DEF RoundAgain, FixStepsLeft
  <2> QED
    BY <1>4, <2>1, <2>2, FixAdvances
<1> QED
  BY <1>3, <1>4

(* Preparing a fix ends within 5 MaxRounds + 3 steps, whatever the agent, the
   reviewer and the runs answer, and none of them is asked forever.  This
   takes no fairness: what is left is a number, and every step lessens it. *)
THEOREM FixEnds ==
  FixSpec => /\ [](FixStepsLeft \in 0..(5 * MaxRounds + 3))
             /\ [][FixStepsLeft' < FixStepsLeft]_fixVars
<1>1. FixInductive => FixStepsLeft \in 0..(5 * MaxRounds + 3)
  BY FixIsCounted DEF FixInductive
<1>2. FixInductive /\ [FixNext]_fixVars => [FixStepsLeft' < FixStepsLeft]_fixVars
  BY FixIsCounted DEF FixInductive
<1> QED
  BY <1>1, <1>2, FixIsInductive, PTL DEF FixSpec

(***************************************************************************)
(* IssueFix                                                                *)
(***************************************************************************)

-----------------------------------------------------------------------------
(* The invariant *)

Working == Phases \ {"queued", "done"}

(* A run looks for a report when it plans: from then on the occurrence has
   none, until the run reports.  A PR is opened for an issue without one.  *)
RunOK(x) ==
  /\ x.said => x.phase = "done" /\ Reported(x.issue, x.occ)
  /\ x.phase \in Working \ {"plan"} => ~Reported(x.issue, x.occ)
  /\ x.phase = "publish" => x.outcome \in {"patch", "refused"}
  /\ x.phase = "report" => x.outcome \in Outcomes
  /\ x.phase = "open" => ~Linked(x.issue)
RunsOK == \A r \in DOMAIN fixRuns : RunOK(fixRuns[r])

(* One run of an issue is at work.                                         *)
OneAtWork ==
  \A r, s \in DOMAIN fixRuns :
    (fixRuns[r].phase \in Working /\ fixRuns[s].phase \in Working
     /\ fixRuns[r].issue = fixRuns[s].issue) => r = s

OneOpen ==
  \A i \in Issues : \A o, p \in Occs : drafts[i][o] = "open" /\ drafts[i][p] = "open" => o = p

(* A tick with issues to look at has runs to start.                        *)
TickOK == tick.listed # {} => tick.slots > 0

IssueInductive ==
  /\ IssueTypeOK /\ RunsOK /\ OneAtWork /\ OneOpen /\ TickOK /\ OneReport
-----------------------------------------------------------------------------
(* Types *)

LEMMA NumbersOfIssues ==
  /\ MaxOcc \in Nat \ {0} /\ MaxActive \in Nat \ {0} /\ MaxTries \in Nat \ {0}
  /\ MaxTouches \in Nat /\ MaxFaults \in Nat
BY IssueBoundsAssumption

LEMMA IssueTypes ==
  ASSUME IssueTypeOK
  PROVE  /\ \A r \in DOMAIN fixRuns : fixRuns[r] \in IssueRuns
         /\ DOMAIN fixRuns = 1..Len(fixRuns) /\ Len(fixRuns) \in Nat
         /\ issues \in [Issues -> [open : BOOLEAN, assigned : BOOLEAN, occ : Occs]]
         /\ reports \in [Issues -> [Occs -> SUBSET Outcomes]]
         /\ branches \in [Issues -> [Occs -> BOOLEAN]]
         /\ drafts \in [Issues -> [Occs -> {"none", "open", "closed"}]]
<1>1. fixRuns \in Seq(IssueRuns)
  BY DEF IssueTypeOK
<1> QED
  BY <1>1, LenProperties, ElementOfSeq DEF IssueTypeOK

LEMMA Spent ==
  ASSUME IssueTypeOK
  PROVE  /\ Touch => spent' \in [touches : 0..MaxTouches, faults : 0..MaxFaults]
         /\ Fault => spent' \in [touches : 0..MaxTouches, faults : 0..MaxFaults]
         /\ spent' = spent => spent' \in [touches : 0..MaxTouches, faults : 0..MaxFaults]
BY SMTT(30), NumbersOfIssues DEF IssueTypeOK, Touch, Fault
-----------------------------------------------------------------------------
(* A step of one run *)

(* What may change around a run that makes a step: reports are only added,
   and to its issue alone; PRs of other issues are not opened.             *)
Around(i) ==
  /\ \A j \in Issues, o \in Occs : Reported(j, o) => Reported(j, o)'
  /\ \A j \in Issues, o \in Occs : j # i => (Reported(j, o)' <=> Reported(j, o))
  /\ \A j \in Issues : j # i => (Linked(j)' => Linked(j))

LEMMA OneRunSteps ==
  ASSUME IssueInductive, NEW r \in DOMAIN fixRuns, NEW x \in IssueRuns,
         fixRuns' = [fixRuns EXCEPT ![r] = x], x.issue = fixRuns[r].issue,
         \A s \in DOMAIN fixRuns :
           s # r /\ fixRuns[s].issue = x.issue => fixRuns[s].phase \notin Working,
         Around(x.issue), RunOK(x)', x.said => ~Reported(x.issue, x.occ)
  PROVE  /\ fixRuns' \in Seq(IssueRuns) /\ RunsOK' /\ OneAtWork' /\ OneReport'
<1>1. /\ fixRuns \in Seq(IssueRuns) /\ DOMAIN fixRuns = 1..Len(fixRuns)
      /\ \A s \in DOMAIN fixRuns : fixRuns[s] \in IssueRuns
      /\ RunsOK /\ OneAtWork /\ OneReport
  BY IssueTypes DEF IssueInductive, IssueTypeOK
<1>2. /\ fixRuns' \in Seq(IssueRuns) /\ DOMAIN fixRuns' = DOMAIN fixRuns /\ fixRuns'[r] = x
      /\ \A s \in DOMAIN fixRuns : s # r => fixRuns'[s] = fixRuns[s]
  BY <1>1, ExceptSeq
<1>3. ASSUME NEW s \in DOMAIN fixRuns, s # r PROVE RunOK(fixRuns[s])'
  <2>1. /\ fixRuns'[s] = fixRuns[s] /\ RunOK(fixRuns[s]) /\ fixRuns[s] \in IssueRuns
        /\ fixRuns[s].issue \in Issues /\ fixRuns[s].occ \in Occs
    BY <1>1, <1>2, <1>3 DEF RunsOK, IssueRuns
  <2>2. fixRuns[s].said => fixRuns[s].phase = "done" /\ Reported(fixRuns[s].issue, fixRuns[s].occ)'
    BY <2>1 DEF RunOK, Around
  <2>3. CASE fixRuns[s].issue = x.issue
    <3>1. fixRuns[s].phase \notin Working
      BY <1>3, <2>3
    <3>2. fixRuns[s].phase \notin {"publish", "report", "open"}
      BY <3>1 DEF Working, Phases
    <3> QED
      BY <2>1, <2>2, <3>1, <3>2 DEF RunOK
  <2>4. CASE fixRuns[s].issue # x.issue
    BY <2>1, <2>2, <2>4 DEF RunOK, Around
  <2> QED
    BY <2>3, <2>4
<1>4. RunsOK'
  BY <1>2, <1>3 DEF RunsOK
<1>5. OneAtWork'
  BY <1>1, <1>2 DEF OneAtWork
<1>6. OneReport'
  <2>1. ASSUME NEW s \in DOMAIN fixRuns, s # r, x.said, fixRuns[s].said, fixRuns[s].issue = x.issue
        PROVE  fixRuns[s].occ # x.occ
    BY <1>1, <2>1 DEF RunsOK, RunOK
  <2>2. ASSUME NEW s \in DOMAIN fixRuns, NEW t \in DOMAIN fixRuns, s # t,
               fixRuns'[s].said, fixRuns'[t].said, fixRuns'[s].issue = fixRuns'[t].issue
        PROVE  fixRuns'[s].occ # fixRuns'[t].occ
    <3>1. CASE s = r
      BY <1>2, <2>1, <2>2, <3>1
    <3>2. CASE t = r
      BY <1>2, <2>1, <2>2, <3>2
    <3>3. CASE s # r /\ t # r
      BY <1>1, <1>2, <2>2, <3>3 DEF OneReport
    <3> QED
      BY <3>1, <3>2, <3>3
  <2> QED
    BY <1>2, <2>2 DEF OneReport
<1> QED
  BY <1>2, <1>4, <1>5, <1>6

(* A step after which nothing but runs, branches and budgets differ.       *)
OnlyRuns ==
  /\ UNCHANGED <<mode, issues, tick, reports, drafts>>
  /\ branches' \in [Issues -> [Occs -> BOOLEAN]]
  /\ spent' \in [touches : 0..MaxTouches, faults : 0..MaxFaults]
LEMMA PlainStep ==
  ASSUME IssueInductive, NEW r \in DOMAIN fixRuns, NEW x \in IssueRuns,
         fixRuns' = [fixRuns EXCEPT ![r] = x], x.issue = fixRuns[r].issue, ~x.said,
         \A s \in DOMAIN fixRuns :
           s # r /\ fixRuns[s].issue = x.issue => fixRuns[s].phase \notin Working,
         RunOK(x), OnlyRuns
  PROVE  IssueInductive'
<1>1. Around(x.issue)
  BY DEF OnlyRuns, Around, Reported, Linked
<1>2. RunOK(x)'
  BY DEF OnlyRuns, RunOK, Reported, Linked
<1>3. fixRuns' \in Seq(IssueRuns) /\ RunsOK' /\ OneAtWork' /\ OneReport'
  BY <1>1, <1>2, OneRunSteps
<1>4. OneOpen' /\ TickOK'
  BY DEF OnlyRuns, IssueInductive, OneOpen, TickOK
<1> QED
  BY <1>3, <1>4 DEF OnlyRuns, IssueInductive, IssueTypeOK

(* What is known of a run at work.                                         *)
LEMMA AtWork ==
  ASSUME IssueInductive, NEW r \in DOMAIN fixRuns, fixRuns[r].phase \in Working
  PROVE  /\ fixRuns[r] \in IssueRuns /\ RunOK(fixRuns[r]) /\ ~fixRuns[r].said
         /\ fixRuns[r].issue \in Issues /\ fixRuns[r].occ \in Occs
         /\ \A s \in DOMAIN fixRuns :
              s # r /\ fixRuns[s].issue = fixRuns[r].issue => fixRuns[s].phase \notin Working
<1>1. fixRuns[r] \in IssueRuns /\ RunOK(fixRuns[r])
  BY IssueTypes DEF IssueInductive, RunsOK
<1>2. ~fixRuns[r].said
  BY <1>1 DEF RunOK, Working, IssueRuns
<1>3. \A s \in DOMAIN fixRuns :
        s # r /\ fixRuns[s].issue = fixRuns[r].issue => fixRuns[s].phase \notin Working
  BY DEF IssueInductive, OneAtWork
<1> QED
  BY <1>1, <1>2, <1>3 DEF IssueRuns

(* A run at work goes on, or ends without a comment.                       *)
LEMMA WorkGoesOn ==
  ASSUME IssueInductive, NEW r \in DOMAIN fixRuns, fixRuns[r].phase \in Working \ {"plan"},
         NEW phase \in Phases \ {"plan", "queued"},
         NEW outcome \in Outcomes \union {"none", "failed", "patch"},
         \/ Result(r, phase, outcome)
         \/ Step(r, phase) /\ outcome = fixRuns[r].outcome,
         phase = "publish" => outcome \in {"patch", "refused"},
         phase = "report" => outcome \in Outcomes,
         phase = "open" => ~Linked(fixRuns[r].issue),
         OnlyRuns
  PROVE  IssueInductive'
<1>1. /\ fixRuns[r] \in IssueRuns /\ RunOK(fixRuns[r]) /\ ~fixRuns[r].said
      /\ \A s \in DOMAIN fixRuns :
           s # r /\ fixRuns[s].issue = fixRuns[r].issue => fixRuns[s].phase \notin Working
  BY AtWork
<1>2. PICK x \in IssueRuns : x = [fixRuns[r] EXCEPT !.phase = phase, !.outcome = outcome]
  BY <1>1 DEF IssueRuns
<1>3. /\ x.issue = fixRuns[r].issue /\ x.occ = fixRuns[r].occ /\ x.said = fixRuns[r].said
      /\ x.phase = phase /\ x.outcome = outcome
  BY <1>1, <1>2 DEF IssueRuns
<1>4. fixRuns' = [fixRuns EXCEPT ![r] = x]
  <2>1. CASE Result(r, phase, outcome)
    BY <1>2, <2>1 DEF Result
  <2>2. CASE Step(r, phase) /\ outcome = fixRuns[r].outcome
    <3>1. x = [fixRuns[r] EXCEPT !.phase = phase]
      BY <1>1, <1>2, <2>2 DEF IssueRuns
    <3> QED
      BY <2>2, <3>1 DEF Step
  <2> QED
    BY <2>1, <2>2
<1>5. RunOK(x)
  BY <1>1, <1>3 DEF RunOK
<1> QED
  BY <1>1, <1>3, <1>4, <1>5, PlainStep

LEMMA RunStepsOn ==
  ASSUME IssueInductive, NEW r \in DOMAIN fixRuns, fixRuns[r].phase \in Working \ {"plan"},
         NEW phase \in {"fix", "post", "push", "pushed", "open"}, Step(r, phase),
         phase = "open" => ~Linked(fixRuns[r].issue), OnlyRuns
  PROVE  IssueInductive'
<1>1. fixRuns[r].outcome \in Outcomes \union {"none", "failed", "patch"}
  BY IssueTypes DEF IssueInductive, IssueRuns
<1>2. phase \in Phases \ {"plan", "queued"} /\ phase \notin {"publish", "report"}
  BY DEF Phases
<1> QED
  BY SMTT(40), <1>1, <1>2, WorkGoesOn

LEMMA RunReports ==
  ASSUME IssueInductive, NEW r \in DOMAIN fixRuns, fixRuns[r].phase \in Working \ {"plan"},
         NEW o \in Outcomes, Result(r, "report", o), OnlyRuns
  PROVE  IssueInductive'
<1>1. o \in Outcomes \union {"none", "failed", "patch"} /\ "report" \in Phases \ {"plan", "queued"}
  BY DEF Phases
<1> QED
  BY SMTT(40), <1>1, WorkGoesOn

(* Ends a run, at whatever phase it is.                                    *)
LEMMA RunEnds ==
  ASSUME IssueInductive, NEW r \in DOMAIN fixRuns, fixRuns[r].phase \in Working,
         Fail(r) \/ Skip(r), OnlyRuns
  PROVE  IssueInductive'
<1>1. /\ fixRuns[r] \in IssueRuns /\ RunOK(fixRuns[r]) /\ ~fixRuns[r].said
      /\ \A s \in DOMAIN fixRuns :
           s # r /\ fixRuns[s].issue = fixRuns[r].issue => fixRuns[s].phase \notin Working
  BY AtWork
<1>2. PICK o \in {"failed", "none"} : Result(r, "done", o)
  BY DEF Fail, Skip
<1>3. PICK x \in IssueRuns : x = [fixRuns[r] EXCEPT !.phase = "done", !.outcome = o]
  BY <1>1 DEF IssueRuns, Phases
<1>4. x.issue = fixRuns[r].issue /\ x.said = fixRuns[r].said /\ x.phase = "done"
  BY <1>1, <1>3 DEF IssueRuns
<1>5. fixRuns' = [fixRuns EXCEPT ![r] = x]
  BY <1>2, <1>3 DEF Result
<1>6. RunOK(x)
  BY <1>1, <1>4 DEF RunOK, Working
<1> QED
  BY <1>1, <1>4, <1>5, <1>6, PlainStep
-----------------------------------------------------------------------------
(* A run's steps *)

LEMMA IssueRunStartsInductive ==
  ASSUME IssueInductive, NEW r \in DOMAIN fixRuns, IssueRunStarts(r)
  PROVE  IssueInductive'
<1>1. /\ fixRuns[r] \in IssueRuns /\ RunOK(fixRuns[r]) /\ fixRuns[r].phase = "queued"
      /\ \A s \in DOMAIN fixRuns : fixRuns[s] \in IssueRuns
  BY IssueTypes DEF IssueInductive, RunsOK, IssueRunStarts
<1>2. PICK x \in IssueRuns : x = [fixRuns[r] EXCEPT !.phase = "plan"]
  BY <1>1 DEF IssueRuns, Phases
<1>3. x.issue = fixRuns[r].issue /\ x.phase = "plan" /\ ~x.said
  BY <1>1, <1>2 DEF IssueRuns, RunOK
<1>4. fixRuns' = [fixRuns EXCEPT ![r] = x]
  BY <1>2 DEF IssueRunStarts, Step
<1>5. ASSUME NEW s \in DOMAIN fixRuns, s # r, fixRuns[s].issue = x.issue
      PROVE  fixRuns[s].phase \notin Working
  BY <1>1, <1>3, <1>5 DEF IssueRunStarts, Active, Working
<1>6. RunOK(x)
  BY <1>3 DEF RunOK
<1>7. OnlyRuns
  BY Spent, IssueTypes DEF IssueInductive, IssueRunStarts, Others, published, OnlyRuns
<1> QED
  BY <1>3, <1>4, <1>5, <1>6, <1>7, PlainStep

LEMMA ValidateInductive ==
  ASSUME IssueInductive, NEW r \in DOMAIN fixRuns, Validate(r)
  PROVE  IssueInductive'
<1>1. /\ OnlyRuns /\ fixRuns[r].phase = "plan"
  BY Spent, IssueTypes DEF IssueInductive, Validate, Others, published, OnlyRuns
<1>2. fixRuns[r].phase \in Working
  BY <1>1 DEF Working, Phases
<1>3. CASE Skip(r)
  BY <1>1, <1>2, <1>3, RunEnds
<1>4. PICK o : o = issues[fixRuns[r].issue].occ
  OBVIOUS
<1>5. CASE /\ ~Reported(fixRuns[r].issue, o)
           /\ fixRuns' = [fixRuns EXCEPT ![r].phase = "occurrence", ![r].occ = o]
  <2>1. /\ fixRuns[r] \in IssueRuns /\ ~fixRuns[r].said /\ fixRuns[r].issue \in Issues
        /\ \A s \in DOMAIN fixRuns :
             s # r /\ fixRuns[s].issue = fixRuns[r].issue => fixRuns[s].phase \notin Working
    BY <1>2, AtWork
  <2>2. o \in Occs
    BY <1>4, <2>1, IssueTypes DEF IssueInductive
  <2>3. PICK x \in IssueRuns : x = [fixRuns[r] EXCEPT !.phase = "occurrence", !.occ = o]
    BY <2>1, <2>2 DEF IssueRuns, Phases
  <2>4. x.issue = fixRuns[r].issue /\ x.occ = o /\ x.phase = "occurrence" /\ ~x.said
    BY <2>1, <2>3 DEF IssueRuns
  <2>5. fixRuns' = [fixRuns EXCEPT ![r] = x]
    BY <1>5, <2>3
  <2>6. RunOK(x)
    BY <1>5, <2>4 DEF RunOK
  <2> QED
    BY <1>1, <2>1, <2>4, <2>5, <2>6, PlainStep
<1> QED
  BY <1>3, <1>4, <1>5 DEF Validate

(* What an earlier attempt left is completed, or the step is the other's.  *)
LEMMA ReconciledInductive ==
  ASSUME IssueInductive, NEW r \in DOMAIN fixRuns, fixRuns[r].phase \in Working \ {"plan"},
         UNCHANGED <<mode, issues, tick, reports, drafts, branches, spent>>,
         \/ Result(r, "report", "opened") \/ Result(r, "report", "refused")
         \/ Wanted(fixRuns[r].issue, fixRuns[r].occ) /\ Step(r, "open")
         \/ Step(r, "fix") \/ Skip(r)
  PROVE  IssueInductive'
<1>1. OnlyRuns
  BY Spent, IssueTypes DEF IssueInductive, OnlyRuns
<1>2. CASE Result(r, "report", "opened") \/ Result(r, "report", "refused")
  <2>1. "opened" \in Outcomes /\ "refused" \in Outcomes
    BY DEF Outcomes
  <2> QED
    BY <1>1, <1>2, <2>1, RunReports
<1>3. CASE Wanted(fixRuns[r].issue, fixRuns[r].occ) /\ Step(r, "open")
  BY <1>1, <1>3, RunStepsOn DEF Wanted
<1>4. CASE Step(r, "fix")
  BY <1>1, <1>4, RunStepsOn
<1>5. CASE Skip(r)
  BY <1>1, <1>5, RunEnds
<1> QED
  BY <1>2, <1>3, <1>4, <1>5

LEMMA PlanningInductive ==
  ASSUME IssueInductive, NEW r \in DOMAIN fixRuns, PlanOccurrence(r) \/ PlanFails(r)
  PROVE  IssueInductive'
<1>1. CASE PlanOccurrence(r)
  <2>1. /\ fixRuns[r].phase \in Working \ {"plan"}
        /\ UNCHANGED <<mode, issues, tick, reports, drafts, branches, spent>>
    BY <1>1 DEF PlanOccurrence, Working, Phases, Others, published
  <2>2. \/ Result(r, "report", "opened") \/ Result(r, "report", "refused")
        \/ Wanted(fixRuns[r].issue, fixRuns[r].occ) /\ Step(r, "open")
        \/ Step(r, "fix") \/ Skip(r)
    BY <1>1 DEF PlanOccurrence, Reconciled
  <2> QED
    BY <2>1, <2>2, ReconciledInductive
<1>2. CASE PlanFails(r)
  <2>1. /\ fixRuns[r].phase \in Working /\ Fail(r)
        /\ OnlyRuns
    BY <1>2, Spent, IssueTypes
       DEF IssueInductive, PlanFails, Working, Phases, Others, published, OnlyRuns
  <2> QED
    BY <2>1, RunEnds
<1> QED
  BY <1>1, <1>2

LEMMA PrepareInductive ==
  ASSUME IssueInductive, NEW r \in DOMAIN fixRuns,
         Prepare(r) \/ PublishStarts(r) \/ PostPatch(r) \/ PublishFails(r)
  PROVE  IssueInductive'
<1>1. OnlyRuns /\ fixRuns[r].phase \in Working \ {"plan"}
  <2>1. /\ UNCHANGED <<mode, issues, tick, reports, drafts, branches>>
        /\ Fault \/ spent' = spent
        /\ fixRuns[r].phase \in {"fix", "publish", "post", "push", "pushed"}
    BY DEF Prepare, PublishStarts, PostPatch, PublishFails, Others, published
  <2> QED
    BY <2>1, Spent, IssueTypes DEF IssueInductive, Working, Phases, OnlyRuns
<1>2. "refused" \in Outcomes /\ "suggested" \in Outcomes
  BY DEF Outcomes
<1>3. CASE Prepare(r)
  <2>1. Fail(r) \/ \E o \in {"patch", "refused"} : Result(r, "publish", o)
    BY ZenonT(30), <1>3 DEF Prepare, Result, Fail
  <2>2. ASSUME NEW o \in {"patch", "refused"}, Result(r, "publish", o)
        PROVE  IssueInductive'
    <3>1. o \in Outcomes \union {"none", "failed", "patch"} /\ "publish" \in Phases \ {"plan", "queued"}
      BY <1>2 DEF Phases
    <3> QED
      BY SMTT(40), <1>1, <2>2, <3>1, WorkGoesOn
  <2>3. CASE Fail(r)
    BY <1>1, <2>3, RunEnds
  <2> QED
    BY <2>1, <2>2, <2>3
<1>4. CASE PublishStarts(r)
  <2>1. \/ Step(r, "report") /\ fixRuns[r].outcome = "refused"
        \/ Step(r, "post") \/ Step(r, "push")
    BY <1>1, <1>4 DEF PublishStarts
  <2>2. CASE Step(r, "report") /\ fixRuns[r].outcome = "refused"
    <3>1. /\ fixRuns[r].outcome \in Outcomes \union {"none", "failed", "patch"}
          /\ "report" \in Phases \ {"plan", "queued"}
      BY <1>2, <2>2 DEF Phases
    <3> QED
      BY SMTT(40), <1>1, <1>2, <2>2, <3>1, WorkGoesOn
  <2>3. CASE Step(r, "post") \/ Step(r, "push")
    BY <1>1, <2>3, RunStepsOn
  <2> QED
    BY <2>1, <2>2, <2>3
<1>5. CASE PostPatch(r)
  <2>1. Result(r, "report", "suggested") \/ Result(r, "report", "refused")
    BY <1>5 DEF PostPatch
  <2> QED
    BY <1>1, <1>2, <2>1, RunReports
<1>6. CASE PublishFails(r)
  BY <1>1, <1>6, RunEnds DEF PublishFails
<1> QED
  BY <1>3, <1>4, <1>5, <1>6

LEMMA PushFixInductive ==
  ASSUME IssueInductive, NEW r \in DOMAIN fixRuns, PushFix(r)
  PROVE  IssueInductive'
<1>1. UNCHANGED <<mode, issues, tick, reports, drafts>> /\ fixRuns[r].phase \in Working \ {"plan"}
  BY DEF PushFix, Others, Working, Phases
<1>2. CASE /\ UNCHANGED <<branches, spent>>
           /\ \/ Result(r, "report", "opened") \/ Result(r, "report", "refused")
              \/ Wanted(fixRuns[r].issue, fixRuns[r].occ) /\ Step(r, "open")
  BY <1>1, <1>2, ReconciledInductive
<1>3. CASE /\ Wanted(fixRuns[r].issue, fixRuns[r].occ)
           /\ branches' = [branches EXCEPT ![fixRuns[r].issue][fixRuns[r].occ] = TRUE]
           /\ \/ Step(r, "pushed") /\ UNCHANGED spent
              \/ Fault /\ Fail(r)
  <2>1. OnlyRuns
    BY <1>1, <1>3, Spent, IssueTypes DEF IssueInductive, OnlyRuns
  <2>2. CASE Step(r, "pushed")
    BY <1>1, <2>1, <2>2, RunStepsOn
  <2>3. CASE Fail(r)
    BY <1>1, <2>1, <2>3, RunEnds
  <2> QED
    BY <1>3, <2>2, <2>3
<1> QED
  BY <1>2, <1>3 DEF PushFix, Reconciled

LEMMA LookAgainInductive ==
  ASSUME IssueInductive, NEW r \in DOMAIN fixRuns, LookAgain(r)
  PROVE  IssueInductive'
<1>1. /\ UNCHANGED <<mode, issues, tick, reports, drafts, branches, spent>>
      /\ fixRuns[r].phase \in Working \ {"plan"}
  BY DEF LookAgain, Others, published, Working, Phases
<1>2. \/ Result(r, "report", "opened") \/ Result(r, "report", "refused")
      \/ Wanted(fixRuns[r].issue, fixRuns[r].occ) /\ Step(r, "open")
  BY DEF LookAgain, Reconciled
<1> QED
  BY <1>1, <1>2, ReconciledInductive

(* The run that opens a PR is the issue's only one, and found none open.   *)
LEMMA OpenDraftInductive ==
  ASSUME IssueInductive, NEW r \in DOMAIN fixRuns, OpenDraft(r)
  PROVE  IssueInductive'
<1>1. /\ UNCHANGED <<mode, issues, tick, reports, branches>> /\ fixRuns[r].phase = "open"
      /\ fixRuns[r].phase \in Working
      /\ spent' \in [touches : 0..MaxTouches, faults : 0..MaxFaults]
  BY Spent DEF IssueInductive, OpenDraft, Others, Working, Phases
<1>2. /\ fixRuns[r] \in IssueRuns /\ RunOK(fixRuns[r]) /\ ~fixRuns[r].said
      /\ \A s \in DOMAIN fixRuns :
           s # r /\ fixRuns[s].issue = fixRuns[r].issue => fixRuns[s].phase \notin Working
  BY <1>1, AtWork
<1>3. CASE Fail(r) /\ UNCHANGED drafts
  <2>1. OnlyRuns
    BY <1>1, <1>3, IssueTypes DEF IssueInductive, OnlyRuns
  <2> QED
    BY <1>1, <1>3, <2>1, RunEnds
<1>4. CASE /\ drafts' = [drafts EXCEPT ![fixRuns[r].issue][fixRuns[r].occ] = "open"]
           /\ Result(r, "report", "opened")
  <2>1. PICK i \in Issues, o \in Occs : i = fixRuns[r].issue /\ o = fixRuns[r].occ
    BY <1>2 DEF IssueRuns
  <2>2. PICK x \in IssueRuns : x = [fixRuns[r] EXCEPT !.phase = "report", !.outcome = "opened"]
    BY <1>2 DEF IssueRuns, Phases, Outcomes
  <2>3. x.issue = i /\ x.occ = o /\ x.phase = "report" /\ ~x.said /\ x.outcome \in Outcomes
    BY <1>2, <2>1, <2>2 DEF IssueRuns, Outcomes
  <2>4. fixRuns' = [fixRuns EXCEPT ![r] = x]
    BY <1>4, <2>2 DEF Result
  <2>5. /\ drafts \in [Issues -> [Occs -> {"none", "open", "closed"}]]
        /\ drafts' = [drafts EXCEPT ![i][o] = "open"]
    BY <1>4, <2>1, IssueTypes DEF IssueInductive
  <2>6. /\ drafts' \in [Issues -> [Occs -> {"none", "open", "closed"}]]
        /\ \A j \in Issues : j # i => drafts'[j] = drafts[j]
        /\ \A p \in Occs : p # o => drafts'[i][p] = drafts[i][p]
    BY <2>1, <2>5
  <2>7. ~Linked(i) /\ ~Reported(i, o)
    BY <1>1, <1>2, <2>1 DEF RunOK, Working
  <2>8. Around(i)
    BY <1>1, <2>6 DEF Around, Reported, Linked
  <2>9. RunOK(x)'
    <3>1. ~Reported(i, o)'
      BY <1>1, <2>7 DEF Reported
    <3> QED
      BY <2>3, <3>1 DEF RunOK
  <2>10. fixRuns' \in Seq(IssueRuns) /\ RunsOK' /\ OneAtWork' /\ OneReport'
    BY <1>2, <2>1, <2>3, <2>4, <2>8, <2>9, OneRunSteps
  <2>11. OneOpen'
    BY <2>6, <2>7 DEF IssueInductive, OneOpen, Linked
  <2> QED
    BY <1>1, <2>6, <2>10, <2>11 DEF IssueInductive, IssueTypeOK, TickOK
<1> QED
  BY <1>3, <1>4 DEF OpenDraft

(* The comment is the occurrence's first.                                  *)
LEMMA ReportInductive ==
  ASSUME IssueInductive, NEW r \in DOMAIN fixRuns, Report(r)
  PROVE  IssueInductive'
<1>1. /\ UNCHANGED <<mode, issues, tick, drafts, branches>> /\ fixRuns[r].phase = "report"
      /\ fixRuns[r].phase \in Working
      /\ spent' \in [touches : 0..MaxTouches, faults : 0..MaxFaults]
      /\ branches' \in [Issues -> [Occs -> BOOLEAN]]
  <2>1. /\ UNCHANGED <<mode, issues, tick, drafts, branches>> /\ fixRuns[r].phase = "report"
        /\ Fault \/ spent' = spent
    BY DEF Report, Others, published
  <2> QED
    BY <2>1, Spent, IssueTypes DEF IssueInductive, Working, Phases
<1>2. /\ fixRuns[r] \in IssueRuns /\ RunOK(fixRuns[r]) /\ ~fixRuns[r].said
      /\ \A s \in DOMAIN fixRuns :
           s # r /\ fixRuns[s].issue = fixRuns[r].issue => fixRuns[s].phase \notin Working
  BY <1>1, AtWork
<1>3. CASE Fail(r) /\ UNCHANGED reports
  BY <1>1, <1>3, RunEnds DEF OnlyRuns
<1>4. CASE /\ reports' = [reports EXCEPT ![fixRuns[r].issue][fixRuns[r].occ] =
                            @ \union {fixRuns[r].outcome}]
           /\ \/ fixRuns' = [fixRuns EXCEPT ![r].phase = "done", ![r].said = TRUE]
              \/ fixRuns' = [fixRuns EXCEPT ![r].phase = "done", ![r].outcome = "failed",
                                            ![r].said = TRUE]
  <2>1. PICK i \in Issues, o \in Occs : i = fixRuns[r].issue /\ o = fixRuns[r].occ
    BY <1>2 DEF IssueRuns
  <2>2. PICK x \in IssueRuns :
          /\ x.issue = i /\ x.occ = o /\ x.phase = "done" /\ x.said
          /\ fixRuns' = [fixRuns EXCEPT ![r] = x]
    <3>1. CASE fixRuns' = [fixRuns EXCEPT ![r].phase = "done", ![r].said = TRUE]
      <4>1. PICK x \in IssueRuns : x = [fixRuns[r] EXCEPT !.phase = "done", !.said = TRUE]
        BY <1>2 DEF IssueRuns, Phases
      <4>2. x.issue = i /\ x.occ = o /\ x.phase = "done" /\ x.said
        BY <1>2, <2>1, <4>1 DEF IssueRuns
      <4>3. fixRuns' = [fixRuns EXCEPT ![r] = x]
        BY <3>1, <4>1
      <4> QED
        BY <4>2, <4>3
    <3>2. CASE fixRuns' = [fixRuns EXCEPT ![r].phase = "done", ![r].outcome = "failed",
                                          ![r].said = TRUE]
      <4>1. PICK x \in IssueRuns :
              x = [fixRuns[r] EXCEPT !.phase = "done", !.outcome = "failed", !.said = TRUE]
        BY <1>2 DEF IssueRuns, Phases
      <4>2. x.issue = i /\ x.occ = o /\ x.phase = "done" /\ x.said
        BY <1>2, <2>1, <4>1 DEF IssueRuns
      <4>3. fixRuns' = [fixRuns EXCEPT ![r] = x]
        BY <3>2, <4>1
      <4> QED
        BY <4>2, <4>3
    <3> QED
      BY <1>4, <3>1, <3>2
  <2>3. fixRuns[r].outcome \in Outcomes /\ ~Reported(i, o)
    BY <1>1, <1>2, <2>1 DEF RunOK, Working
  <2>4. /\ reports \in [Issues -> [Occs -> SUBSET Outcomes]]
        /\ reports' = [reports EXCEPT ![i][o] = @ \union {fixRuns[r].outcome}]
    BY <1>4, <2>1, IssueTypes DEF IssueInductive
  <2>5. /\ reports' \in [Issues -> [Occs -> SUBSET Outcomes]]
        /\ reports'[i][o] = reports[i][o] \union {fixRuns[r].outcome}
        /\ \A j \in Issues : j # i => reports'[j] = reports[j]
        /\ \A p \in Occs : p # o => reports'[i][p] = reports[i][p]
    BY <2>3, <2>4
  <2>6. Around(i)
    BY <1>1, <2>5 DEF Around, Reported, Linked
  <2>7. RunOK(x)'
    <3>1. Reported(i, o)'
      BY <2>5 DEF Reported
    <3> QED
      BY <2>2, <3>1 DEF RunOK, Working
  <2>8. fixRuns' \in Seq(IssueRuns) /\ RunsOK' /\ OneAtWork' /\ OneReport'
    BY <1>2, <2>1, <2>2, <2>3, <2>6, <2>7, OneRunSteps
  <2> QED
    BY <1>1, <2>5, <2>8 DEF IssueInductive, IssueTypeOK, TickOK, OneOpen
<1> QED
  BY <1>3, <1>4 DEF Report
-----------------------------------------------------------------------------
(* People, the detector and the dispatcher *)

LEMMA RunsAreAdded ==
  ASSUME IssueInductive, fixRuns' \in Seq(IssueRuns),
         \A r \in DOMAIN fixRuns' :
           \/ r \in DOMAIN fixRuns /\ fixRuns'[r] = fixRuns[r]
           \/ fixRuns'[r].phase = "queued" /\ ~fixRuns'[r].said,
         reports' = reports, \A i \in Issues : Linked(i)' => Linked(i)
  PROVE  RunsOK' /\ OneAtWork' /\ OneReport'
<1>1. /\ RunsOK /\ OneAtWork /\ OneReport
      /\ \A r \in DOMAIN fixRuns : fixRuns[r].issue \in Issues
  BY IssueTypes DEF IssueInductive, IssueRuns
<1>2. "queued" \notin Working
  BY DEF Working
<1>3. RunsOK'
  <2>1. ASSUME NEW r \in DOMAIN fixRuns' PROVE RunOK(fixRuns[r])'
    <3>1. CASE r \in DOMAIN fixRuns /\ fixRuns'[r] = fixRuns[r]
      BY <1>1, <3>1 DEF RunsOK, RunOK, Reported
    <3>2. CASE fixRuns'[r].phase = "queued" /\ ~fixRuns'[r].said
      BY <1>2, <3>2 DEF RunOK
    <3> QED
      BY <3>1, <3>2
  <2> QED
    BY <2>1 DEF RunsOK
<1>4. OneAtWork'
  BY <1>1, <1>2 DEF OneAtWork
<1>5. OneReport'
  BY <1>1 DEF OneReport
<1> QED
  BY <1>3, <1>4, <1>5

LEMMA PeopleActInductive ==
  ASSUME IssueInductive, NEW i \in Issues, PersonActs(i) \/ FailsAgain(i)
  PROVE  IssueInductive'
<1>1. /\ UNCHANGED <<mode, reports, branches, fixRuns, tick>>
      /\ spent' \in [touches : 0..MaxTouches, faults : 0..MaxFaults]
  BY Spent DEF IssueInductive, PersonActs, FailsAgain, published
<1>2. issues' \in [Issues -> [open : BOOLEAN, assigned : BOOLEAN, occ : Occs]]
  <2>1. issues \in [Issues -> [open : BOOLEAN, assigned : BOOLEAN, occ : Occs]]
    BY IssueTypes DEF IssueInductive
  <2>2. CASE PersonActs(i)
    BY ZenonT(30), <2>1, <2>2 DEF PersonActs
  <2>3. CASE FailsAgain(i)
    <3>1. issues[i].occ + 1 \in Occs
      BY <2>1, <2>3, NumbersOfIssues DEF FailsAgain, Occs
    <3> QED
      BY <2>1, <2>3, <3>1 DEF FailsAgain
  <2> QED
    BY <2>2, <2>3
<1>3. /\ drafts' \in [Issues -> [Occs -> {"none", "open", "closed"}]]
      /\ \A j \in Issues, o \in Occs : drafts'[j][o] = "open" => drafts[j][o] = "open"
  <2>1. drafts \in [Issues -> [Occs -> {"none", "open", "closed"}]]
    BY IssueTypes DEF IssueInductive
  <2>2. CASE drafts' = drafts
    BY <2>1, <2>2
  <2>3. ASSUME NEW o \in Occs, drafts' = [drafts EXCEPT ![i][o] = "closed"]
        PROVE  /\ drafts' \in [Issues -> [Occs -> {"none", "open", "closed"}]]
               /\ \A j \in Issues, p \in Occs : drafts'[j][p] = "open" => drafts[j][p] = "open"
    BY <2>1, <2>3
  <2> QED
    BY <2>2, <2>3 DEF PersonActs, FailsAgain, published
<1>4. RunsOK' /\ OneAtWork' /\ OneReport'
  <2>1. fixRuns' \in Seq(IssueRuns) /\ \A j \in Issues : Linked(j)' => Linked(j)
    BY <1>1, <1>3 DEF IssueInductive, IssueTypeOK, Linked
  <2> QED
    BY <1>1, <2>1, RunsAreAdded
<1>5. OneOpen'
  BY <1>3 DEF IssueInductive, OneOpen
<1> QED
  BY <1>1, <1>2, <1>3, <1>4, <1>5 DEF IssueInductive, IssueTypeOK, TickOK

Ticks == [listed : SUBSET [issue : Issues, occ : Occs], active : SUBSET Issues,
          slots : 0..MaxActive]

LEMMA LookedTyped ==
  ASSUME IssueTypeOK, NEW l \in tick.listed, NEW slots \in 0..MaxActive
  PROVE  Looked(l, slots) \in Ticks
         /\ (Looked(l, slots).listed # {} => Looked(l, slots).slots > 0)
<1>1. tick \in Ticks /\ IdleTick \in Ticks /\ IdleTick.listed = {} /\ 0 \in 0..MaxActive
  BY NumbersOfIssues DEF IssueTypeOK, Ticks, IdleTick
<1>2. CASE slots = 0 \/ tick.listed = {l}
  BY <1>1, <1>2 DEF Looked
<1>3. CASE ~(slots = 0 \/ tick.listed = {l})
  <2>1. Looked(l, slots) = [tick EXCEPT !.listed = @ \ {l}, !.slots = slots]
    BY <1>3 DEF Looked
  <2>2. slots > 0
    BY <1>3, NumbersOfIssues
  <2> QED
    BY <1>1, <2>1, <2>2 DEF Ticks
<1> QED
  BY <1>2, <1>3

LEMMA TicksInductive ==
  ASSUME IssueInductive, Dispatching
  PROVE  IssueInductive'
<1>1. /\ UNCHANGED <<mode, issues, reports, branches, drafts>>
      /\ spent' \in [touches : 0..MaxTouches, faults : 0..MaxFaults]
      /\ fixRuns \in Seq(IssueRuns) /\ tick \in Ticks /\ IssueTypeOK
  <2>1. /\ UNCHANGED <<mode, issues, reports, branches, drafts>>
        /\ Fault \/ spent' = spent
    BY DEF Dispatching, TickStarts, TickSkips, TickDispatches, published
  <2> QED
    BY <2>1, Spent DEF IssueInductive, IssueTypeOK, Ticks
<1>2. tick' \in Ticks /\ TickOK'
  <2>1. CASE TickStarts
    <3>1. /\ tick'.listed \subseteq [issue : Issues, occ : Occs] /\ tick'.active \subseteq Issues
          /\ tick' = [listed |-> tick'.listed, active |-> tick'.active,
                      slots |-> MaxActive - Cardinality(Active)]
      <4>1. \A i \in Issues : issues[i].occ \in Occs
        BY IssueTypes DEF IssueInductive
      <4>2. \A r \in Active : fixRuns[r].issue \in Issues
        BY IssueTypes DEF IssueInductive, Active, IssueRuns
      <4> QED
        BY <2>1, <4>1, <4>2 DEF TickStarts
    <3>2. Cardinality(Active) \in Nat /\ Cardinality(Active) < MaxActive
      <4>1. IsFiniteSet(1..Len(fixRuns)) /\ Active \in SUBSET (1..Len(fixRuns))
        BY FS_Interval, IssueTypes DEF IssueInductive, Active
      <4>2. IsFiniteSet(Active)
        BY <4>1, FS_Subset
      <4> QED
        BY <2>1, <4>2, FS_CardinalityType DEF TickStarts
    <3>3. MaxActive - Cardinality(Active) \in 0..MaxActive /\ MaxActive - Cardinality(Active) > 0
      BY <3>2, NumbersOfIssues
    <3> QED
      BY <3>1, <3>3 DEF Ticks, TickOK
  <2>2. ASSUME NEW l \in tick.listed, TickSkips(l) \/ TickDispatches(l)
        PROVE  tick' \in Ticks /\ TickOK'
    <3>1. tick.slots \in 0..MaxActive /\ tick.slots - 1 \in 0..MaxActive
      <4>1. tick.slots \in 0..MaxActive /\ tick.slots > 0
        BY <1>1 DEF IssueInductive, TickOK, Ticks
      <4> QED
        BY <4>1, NumbersOfIssues
    <3>2. \/ tick' = Looked(l, tick.slots) \/ tick' = Looked(l, tick.slots - 1)
          \/ tick' = IdleTick
      BY <2>2 DEF TickSkips, TickDispatches
    <3>3. IdleTick \in Ticks /\ IdleTick.listed = {}
      BY NumbersOfIssues DEF Ticks, IdleTick
    <3> QED
      BY <1>1, <3>1, <3>2, <3>3, LookedTyped DEF TickOK
  <2> QED
    BY <2>1, <2>2 DEF Dispatching
<1>3. /\ fixRuns' \in Seq(IssueRuns)
      /\ \A r \in DOMAIN fixRuns' :
           \/ r \in DOMAIN fixRuns /\ fixRuns'[r] = fixRuns[r]
           \/ fixRuns'[r].phase = "queued" /\ ~fixRuns'[r].said
  <2>1. CASE fixRuns' = fixRuns
    BY <1>1, <2>1
  <2>2. ASSUME NEW l \in tick.listed, TickDispatches(l), fixRuns' # fixRuns
        PROVE  /\ fixRuns' \in Seq(IssueRuns)
               /\ \A r \in DOMAIN fixRuns' :
                    \/ r \in DOMAIN fixRuns /\ fixRuns'[r] = fixRuns[r]
                    \/ fixRuns'[r].phase = "queued" /\ ~fixRuns'[r].said
    <3>1. PICK x \in IssueRuns : x = NewRun(l) /\ x.phase = "queued" /\ ~x.said
      <4>1. l.issue \in Issues /\ l.occ \in Occs
        BY <1>1 DEF Ticks
      <4>2. NewRun(l) \in IssueRuns
        BY <4>1 DEF NewRun, IssueRuns, Phases
      <4>3. NewRun(l).phase = "queued" /\ ~NewRun(l).said
        BY DEF NewRun
      <4> QED
        BY <4>2, <4>3
    <3>2. fixRuns' = Append(fixRuns, x) \/ fixRuns' = fixRuns \o <<x, x>>
      BY <2>2, <3>1 DEF TickDispatches
    <3>3. CASE fixRuns' = Append(fixRuns, x)
      BY <1>1, <3>1, <3>3, AppendProperties
    <3>4. CASE fixRuns' = fixRuns \o <<x, x>>
      <4>1. <<x, x>> \in Seq(IssueRuns) /\ Len(<<x, x>>) = 2 /\ <<x, x>>[1] = x /\ <<x, x>>[2] = x
        OBVIOUS
      <4> DEFINE pair == <<x, x>>
      <4> HIDE DEF pair
      <4>2. /\ fixRuns' \in Seq(IssueRuns) /\ Len(fixRuns') = Len(fixRuns) + 2
            /\ \A r \in 1..(Len(fixRuns) + 2) :
                 fixRuns'[r] = IF r <= Len(fixRuns) THEN fixRuns[r] ELSE pair[r - Len(fixRuns)]
        BY <1>1, <3>4, <4>1, ConcatProperties DEF pair
      <4>3. DOMAIN fixRuns' = 1..(Len(fixRuns) + 2) /\ DOMAIN fixRuns = 1..Len(fixRuns)
            /\ Len(fixRuns) \in Nat
        BY <1>1, <4>2, LenProperties
      <4>4. \A k \in 1..2 : pair[k] = x
        BY <4>1 DEF pair
      <4>5. ASSUME NEW r \in DOMAIN fixRuns'
            PROVE  \/ r \in DOMAIN fixRuns /\ fixRuns'[r] = fixRuns[r]
                   \/ fixRuns'[r].phase = "queued" /\ ~fixRuns'[r].said
        <5>1. CASE r <= Len(fixRuns)
          BY <4>2, <4>3, <5>1
        <5>2. CASE ~(r <= Len(fixRuns))
          <6>1. r - Len(fixRuns) \in 1..2
            BY <4>3, <5>2
          <6>2. fixRuns'[r] = x
            BY <4>2, <4>3, <4>4, <5>2, <6>1
          <6> QED
            BY <3>1, <6>2
        <5> QED
          BY <5>1, <5>2
      <4> QED
        BY <4>2, <4>5
    <3> QED
      BY <3>2, <3>3, <3>4
  <2> QED
    BY <2>1, <2>2 DEF Dispatching, TickStarts, TickSkips
<1>4. RunsOK' /\ OneAtWork' /\ OneReport'
  <2>1. \A i \in Issues : Linked(i)' => Linked(i)
    BY <1>1 DEF Linked
  <2> QED
    BY <1>1, <1>3, <2>1, RunsAreAdded
<1>5. OneOpen'
  BY <1>1 DEF IssueInductive, OneOpen
<1> QED
  BY <1>1, <1>2, <1>3, <1>4, <1>5 DEF IssueInductive, IssueTypeOK, Ticks
-----------------------------------------------------------------------------
LEMMA IssueInitInductive ==
  ASSUME NEW m \in {"comment", "draft-pr"}, IssueStart(m)
  PROVE  IssueInductive
<1>1. IssueTypeOK
  <2>1. 1 \in Occs /\ 0 \in 0..MaxActive /\ 0 \in 0..MaxTouches /\ 0 \in 0..MaxFaults
    BY NumbersOfIssues DEF Occs
  <2> QED
    BY <2>1 DEF IssueStart, IssueTypeOK, IdleTick
<1>2. fixRuns = <<>> /\ DOMAIN fixRuns = {}
  BY DEF IssueStart
<1>3. RunsOK /\ OneAtWork /\ OneReport
  BY <1>2 DEF RunsOK, OneAtWork, OneReport
<1>4. OneOpen /\ TickOK
  BY DEF IssueStart, OneOpen, TickOK, IdleTick
<1> QED
  BY <1>1, <1>3, <1>4 DEF IssueInductive

LEMMA IssueStutters ==
  ASSUME IssueInductive, UNCHANGED issueVars
  PROVE  IssueInductive'
<1>1. /\ mode' = mode /\ issues' = issues /\ reports' = reports /\ branches' = branches
      /\ drafts' = drafts /\ fixRuns' = fixRuns /\ tick' = tick /\ spent' = spent
  BY DEF issueVars
<1>2. RunsOK' /\ OneAtWork' /\ OneReport'
  BY <1>1 DEF IssueInductive, RunsOK, RunOK, Reported, Linked, OneAtWork, OneReport
<1> QED
  BY <1>1, <1>2 DEF IssueInductive, IssueTypeOK, OneOpen, TickOK

LEMMA IssueStepsInductive ==
  ASSUME IssueInductive, [IssueNext]_issueVars
  PROVE  IssueInductive'
<1>1. SUFFICES ASSUME IssueInductive, IssueNext PROVE IssueInductive'
  BY IssueStutters
<1>2. CASE \E i \in Issues : PersonActs(i) \/ FailsAgain(i)
  BY <1>1, <1>2, PeopleActInductive
<1>3. CASE Dispatching
  BY <1>1, <1>3, TicksInductive
<1>4. ASSUME NEW r \in DOMAIN fixRuns, RunSteps(r) \/ PlanFails(r) \/ PublishFails(r)
      PROVE  IssueInductive'
  BY <1>1, <1>4, IssueRunStartsInductive, ValidateInductive, PlanningInductive,
     PrepareInductive, PushFixInductive, LookAgainInductive, OpenDraftInductive, ReportInductive
     DEF RunSteps, Planning, Publishing
<1> QED
  BY <1>1, <1>2, <1>3, <1>4 DEF IssueNext

(* Every state has its type, one run of an issue is at work, and while it
   is, its occurrence has no report.                                       *)
THEOREM IssueFixIsInductive == IssueSpec => []IssueInductive
<1>1. IssueInit => IssueInductive
  BY IssueInitInductive DEF IssueInit
<1>2. IssueInductive /\ [IssueNext]_issueVars => IssueInductive'
  BY IssueStepsInductive
<1> QED
  BY <1>1, <1>2, PTL DEF IssueSpec

(* A dispatch that is sent twice never makes a second report.              *)
THEOREM OccurrencesAreReportedOnce == IssueSpec => []OneReport
<1>1. IssueInductive => OneReport
  BY DEF IssueInductive
<1> QED
  BY <1>1, IssueFixIsInductive, PTL

(* An issue has one draft PR open at most.                                 *)
THEOREM IssuesHaveOneDraft == IssueSpec => []OneDraftPerIssue
<1>1. IssueInductive => OneDraftPerIssue
  <2>1. SUFFICES ASSUME IssueInductive, NEW i \in Issues
                 PROVE  Cardinality({o \in Occs : drafts[i][o] = "open"}) <= 1
    BY DEF OneDraftPerIssue
  <2>2. CASE {o \in Occs : drafts[i][o] = "open"} = {}
    BY <2>2, FS_EmptySet
  <2>3. CASE {o \in Occs : drafts[i][o] = "open"} # {}
    <3>1. PICK p : p \in {o \in Occs : drafts[i][o] = "open"}
      BY <2>3
    <3>2. {o \in Occs : drafts[i][o] = "open"} = {p}
      BY <2>1, <3>1 DEF IssueInductive, OneOpen
    <3> QED
      BY <3>2, FS_Singleton
  <2> QED
    BY <2>2, <2>3
<1> QED
  BY <1>1, IssueFixIsInductive, PTL

(***************************************************************************)
(* PRFix                                                                   *)
(***************************************************************************)

-----------------------------------------------------------------------------
(* The invariant *)

(* The branch ends in a commit that was made.                              *)
BranchOK == pr.branch # <<>> /\ Tip \in 1..pr.made

(* A run is bound to a commit, which tells where the branch was then:
   while the branch ends in that commit, it is what it was.                *)
Bounded(d) ==
  \/ d = "follow-up" /\ ~At(d, "idle")
  \/ At(d, "fix") \/ At(d, "publish") \/ At(d, "push")
BoundOK(d) ==
  Bounded(d) => /\ prRuns[d].on # <<>> /\ Last(prRuns[d].on) \in 1..pr.made
                /\ Last(prRuns[d].on) = Tip => prRuns[d].on = pr.branch

CommandOK == ~At("command", "idle") => prRuns["command"].command \in Commands

(* The follow-up works on a job of a head that has no comment yet.         *)
FollowUpOK ==
  ~At("follow-up", "idle") =>
    /\ ~At("follow-up", "plan") /\ pr.bot /\ prRuns["follow-up"].job \in Jobs
    /\ ledger[Last(prRuns["follow-up"].on)][prRuns["follow-up"].job].comment = "none"
    /\ At("follow-up", "report") =>
         prRuns["follow-up"].outcome \in {"failed", "refused", "pushed"}

PRInductive ==
  /\ PRTypeOK /\ BranchOK /\ (\A d \in Doors : BoundOK(d))
  /\ CommandOK /\ FollowUpOK /\ FollowUpBounded
-----------------------------------------------------------------------------
(* Types *)

LEMMA RunTyped ==
  ASSUME PRTypeOK, NEW d \in Doors
  PROVE  /\ prRuns[d] \in DoorRuns /\ prRuns[d].on \in Seq(Heads)
         /\ prRuns \in [Doors -> DoorRuns]
<1>1. prRuns \in [Doors -> DoorRuns] /\ prRuns[d] \in DoorRuns
  BY DEF PRTypeOK
<1> QED
  BY <1>1 DEF DoorRuns

LEMMA LastOf ==
  ASSUME NEW S, NEW s \in Seq(S), s # <<>>
  PROVE  Last(s) \in S /\ Len(s) \in Nat \ {0} /\ Last(s) = s[Len(s)]
<1>1. Len(s) \in Nat \ {0}
  BY EmptySeq
<1> QED
  BY <1>1 DEF Last

LEMMA BoundsAreNumbers ==
  /\ MaxHeadTries \in Nat \ {0} /\ MaxJobTries \in Nat \ {0} /\ MaxCommits \in Nat \ {0}
  /\ MaxEvents \in Nat /\ MaxMishaps \in Nat /\ MaxRed \in Nat
<1>1. MaxRed \in 0..(MaxCommits - 1)
  BY PRFixBoundsAssumption
<1> QED
  BY <1>1, PRFixBoundsAssumption

LEMMA Spends ==
  ASSUME PRTypeOK
  PROVE  /\ Event => used' \in [events : 0..MaxEvents, mishaps : 0..MaxMishaps]
         /\ Mishap => used' \in [events : 0..MaxEvents, mishaps : 0..MaxMishaps]
         /\ used' = used => used' \in [events : 0..MaxEvents, mishaps : 0..MaxMishaps]
BY SMTT(30), BoundsAreNumbers DEF PRTypeOK, Event, Mishap
-----------------------------------------------------------------------------
(* Numbers and counting *)

(* A set of numbers has a least member.                                    *)
LEMMA LeastMember ==
  ASSUME NEW S, S \subseteq Nat, S # {}
  PROVE  Min(S) \in S
<1>1. IsWellFoundedOn(OpToRel(<, Nat), Nat)
  BY NatLessThanWellFounded
<1>2. \E x \in S : \A y \in S : ~(<<y, x>> \in OpToRel(<, Nat))
  BY <1>1, WFMin
<1>3. PICK x \in S : \A y \in S : ~(<<y, x>> \in OpToRel(<, Nat))
  BY <1>2
<1>4. OpToRel(<, Nat) = {ss \in Nat \X Nat : ss[1] < ss[2]}
  BY Zenon DEF OpToRel
<1>5. \A y \in S : ~(<<y, x>> \in {ss \in Nat \X Nat : ss[1] < ss[2]})
  BY <1>3, <1>4, Zenon
<1>6. \A y \in S : x =< y
  <2> TAKE y \in S
  <2>1. x \in Nat /\ y \in Nat
    OBVIOUS
  <2>2. ~(y < x)
    BY <1>5, <2>1
  <2> QED
    BY <2>1, <2>2
<1> QED
  BY <1>6 DEF Min

LEMMA CountsAreNumbers ==
  ASSUME NEW h
  PROVE  /\ IsFiniteSet(Pushes(h)) /\ IsFiniteSet(Failures(h))
         /\ Cardinality(Pushes(h)) \in Nat /\ Cardinality(Failures(h)) \in Nat
         /\ IsFiniteSet(Pushes(h)') /\ IsFiniteSet(Failures(h)')
         /\ Cardinality(Pushes(h)') \in Nat /\ Cardinality(Failures(h)') \in Nat
         /\ Attempts(h) \in Nat
<1>1. IsFiniteSet(Jobs) /\ IsFiniteSet(1..MaxJobTries)
  <2>1. IsFiniteSet(Jobs)
    BY PRFixSetsAssumption, FS_Subset
  <2>2. IsFiniteSet(1..MaxJobTries)
    BY BoundsAreNumbers, FS_Interval
  <2> QED
    BY <2>1, <2>2
<1>2. IsFiniteSet(Jobs \X (1..MaxJobTries))
  BY <1>1, FS_Product
<1>3. Pushes(h) \in SUBSET Jobs /\ Pushes(h)' \in SUBSET Jobs
  BY DEF Pushes
<1>4. /\ Failures(h) \in SUBSET (Jobs \X (1..MaxJobTries))
      /\ Failures(h)' \in SUBSET (Jobs \X (1..MaxJobTries))
  BY DEF Failures
<1>5. IsFiniteSet(Pushes(h)) /\ IsFiniteSet(Pushes(h)')
  BY <1>1, <1>3, FS_Subset
<1>6. IsFiniteSet(Failures(h)) /\ IsFiniteSet(Failures(h)')
  BY <1>2, <1>4, FS_Subset
<1> QED
  BY <1>5, <1>6, FS_CardinalityType DEF Attempts
-----------------------------------------------------------------------------
(* Steps that do not concern the invariant's parts *)

(* Nothing that the follow-up counts, and nothing of what it works on.     *)
FollowUpRests ==
  /\ ledger' = ledger
  /\ prRuns'["follow-up"].on = prRuns["follow-up"].on
  /\ prRuns'["follow-up"].job = prRuns["follow-up"].job
  /\ (prRuns'["follow-up"].phase = "idle") = (prRuns["follow-up"].phase = "idle")

LEMMA RestKeepsBound ==
  ASSUME FollowUpRests, FollowUpBounded
  PROVE  FollowUpBounded'
<1>1. \A h : OnHead(h)' = OnHead(h) /\ \A j : Underway(h, j)' = Underway(h, j)
  BY DEF FollowUpRests, OnHead, Underway, At
<1>2. \A h : Attempts(h)' = Attempts(h)
  BY DEF FollowUpRests, Attempts, Pushes, Failures
<1>3. \A h, j : TriesOf(h, j)' = TriesOf(h, j)
  BY <1>1 DEF FollowUpRests, TriesOf, One
<1> QED
  BY <1>1, <1>2, <1>3 DEF FollowUpBounded, One

(* A commit that is new is no run's.                                       *)
LEMMA NewHeadKeeps ==
  ASSUME PRTypeOK, BranchOK, NEW b \in Seq(Heads), NewHead(b)
  PROVE  /\ pr' \in PullRequests /\ ci' \in [done : BOOLEAN, failed : SUBSET Jobs]
         /\ BranchOK' /\ pr'.bot = pr.bot /\ pr'.branch = Append(b, pr.made + 1)
         /\ pr'.made = pr.made + 1 /\ Tip' = pr.made + 1 /\ pr.made \in Nat
<1>1. pr \in PullRequests /\ pr.made \in Nat /\ pr.made + 1 \in Heads
  BY BoundsAreNumbers DEF PRTypeOK, PullRequests, NewHead, Heads
<1>2. /\ Append(b, pr.made + 1) \in Seq(Heads) /\ Append(b, pr.made + 1) # <<>>
      /\ Last(Append(b, pr.made + 1)) = pr.made + 1
  BY <1>1 DEF Last
<1>3. pr' = [pr EXCEPT !.branch = Append(b, pr.made + 1), !.made = @ + 1]
  BY DEF NewHead
<1>4. pr' \in PullRequests /\ pr'.bot = pr.bot /\ pr'.branch = Append(b, pr.made + 1) /\ pr'.made = pr.made + 1
  BY <1>1, <1>2, <1>3 DEF PullRequests
<1>5. Tip' = pr.made + 1
  BY <1>2, <1>4 DEF Tip
<1>6. BranchOK'
  BY <1>1, <1>2, <1>4, <1>5 DEF BranchOK
<1>7. ci' \in [done : BOOLEAN, failed : SUBSET Jobs]
  BY DEF NewHead, Untested
<1> QED
  BY <1>1, <1>4, <1>5, <1>6, <1>7

LEMMA NewHeadBinds ==
  ASSUME PRTypeOK, BranchOK, NEW b \in Seq(Heads), NewHead(b),
         NEW d \in Doors, BoundOK(d), prRuns'[d].on = prRuns[d].on,
         Bounded(d)' => Bounded(d)
  PROVE  BoundOK(d)'
<1>1. pr'.made = pr.made + 1 /\ Tip' = pr.made + 1 /\ pr.made \in Nat
  BY NewHeadKeeps
<1>2. SUFFICES ASSUME Bounded(d)' PROVE BoundOK(d)'
  BY DEF BoundOK
<1>3. Bounded(d)
  BY <1>2
<1>4. prRuns[d].on # <<>> /\ Last(prRuns[d].on) \in 1..pr.made
  BY <1>3 DEF BoundOK
<1>5. Last(prRuns[d].on) \in 1..(pr.made + 1) /\ Last(prRuns[d].on) # pr.made + 1
  BY <1>1, <1>4
<1> QED
  BY <1>1, <1>4, <1>5 DEF BoundOK

(* While the branch and a run's task are as they were, so is its binding.  *)
LEMMA BindingKept ==
  ASSUME NEW d \in Doors, BoundOK(d), pr'.branch = pr.branch, pr'.made = pr.made,
         prRuns'[d].on = prRuns[d].on, Bounded(d)' => Bounded(d)
  PROVE  BoundOK(d)'
BY DEF BoundOK, Tip
-----------------------------------------------------------------------------
(* People, CI and the poller *)

LEMMA PeopleInductive ==
  ASSUME PRInductive,
         PersonPushes \/ PersonCloses \/ CIRerun \/ CIEnds \/ (\E c \in Commands : Comments(c))
  PROVE  PRInductive'
<1>1. /\ prRuns' = prRuns /\ ledger' = ledger /\ queue' = queue
      /\ used' \in [events : 0..MaxEvents, mishaps : 0..MaxMishaps]
  BY Spends DEF PRInductive, PersonPushes, PersonCloses, CIRerun, CIEnds, Comments
<1>2. FollowUpBounded'
  BY <1>1, RestKeepsBound DEF PRInductive, FollowUpRests
<1>3. CommandOK'
  BY <1>1 DEF PRInductive, CommandOK, At
<1>4. pr \in PullRequests /\ commands \in [Commands -> CommandStates]
      /\ ci \in [done : BOOLEAN, failed : SUBSET Jobs]
  BY DEF PRInductive, PRTypeOK
<1>5. CASE PersonPushes
  <2>1. PICK n \in {0, Len(pr.branch)} : NewHead(SubSeq(pr.branch, 1, n))
    BY <1>5 DEF PersonPushes
  <2>2. SubSeq(pr.branch, 1, n) \in Seq(Heads)
    <3>1. pr.branch \in Seq(Heads) /\ Len(pr.branch) \in Nat
      BY <1>4 DEF PullRequests
    <3> QED
      BY <3>1, SubSeqProperties
  <2>3. pr' \in PullRequests /\ ci' \in [done : BOOLEAN, failed : SUBSET Jobs] /\ BranchOK' /\ pr'.bot = pr.bot
    BY <2>1, <2>2, NewHeadKeeps DEF PRInductive
  <2>4. \A d \in Doors : BoundOK(d)'
    BY <1>1, <2>1, <2>2, NewHeadBinds DEF PRInductive, Bounded, At
  <2>5. commands' = commands
    BY <1>5 DEF PersonPushes
  <2> QED
    BY <1>1, <1>2, <1>3, <1>4, <2>3, <2>4, <2>5 DEF PRInductive, PRTypeOK, FollowUpOK, At
<1>6. CASE PersonCloses \/ CIRerun \/ CIEnds \/ (\E c \in Commands : Comments(c))
  <2>1. /\ pr' \in PullRequests /\ pr'.branch = pr.branch /\ pr'.made = pr.made /\ pr'.bot = pr.bot
    BY <1>4, <1>6 DEF PersonCloses, CIRerun, CIEnds, Comments, PullRequests
  <2>2. ci' \in [done : BOOLEAN, failed : SUBSET Jobs]
    <3>1. CASE CIEnds
      <4>1. PICK failed \in IF Tip <= MaxRed THEN SUBSET Jobs ELSE {{}} :
              ci' = [done |-> TRUE, failed |-> failed]
        BY <3>1 DEF CIEnds
      <4>2. failed \in SUBSET Jobs
        BY <4>1
      <4> QED
        BY <4>1, <4>2
    <3>2. CASE CIRerun
      BY <3>2 DEF CIRerun, Untested
    <3> QED
      BY <1>4, <1>6, <3>1, <3>2 DEF PersonCloses, Comments
  <2>3. commands' \in [Commands -> CommandStates]
    <3>1. CASE \E c \in Commands : Comments(c)
      <4>1. PICK c \in Commands : Comments(c)
        BY <3>1
      <4>2. PICK run \in 0..pr.made :
              commands' = [commands EXCEPT ![c].state = "posted", ![c].run = run]
        BY <4>1 DEF Comments
      <4>3. run \in 0..MaxCommits
        BY <1>4, <4>2, BoundsAreNumbers DEF PullRequests, Heads
      <4> QED
        BY ZenonT(30), <1>4, <4>2, <4>3 DEF CommandStates
    <3> QED
      BY <1>4, <1>6, <3>1 DEF PersonCloses, CIRerun, CIEnds
  <2>4. BranchOK'
    BY <2>1 DEF PRInductive, BranchOK, Tip
  <2>5. \A d \in Doors : BoundOK(d)'
    BY <1>1, <2>1, BindingKept DEF PRInductive, Bounded, At
  <2> QED
    BY <1>1, <1>2, <1>3, <2>1, <2>2, <2>3, <2>4, <2>5 DEF PRInductive, PRTypeOK, FollowUpOK, At
<1> QED
  BY <1>5, <1>6

LEMMA PollingInductive ==
  ASSUME PRInductive, Polling
  PROVE  PRInductive'
<1>1. PICK c \in Commands : Claim(c) \/ Dispatch(c)
  BY DEF Polling
<1>2. /\ pr' = pr /\ ci' = ci /\ prRuns' = prRuns /\ ledger' = ledger
      /\ used' \in [events : 0..MaxEvents, mishaps : 0..MaxMishaps]
  BY <1>1, Spends DEF PRInductive, Claim, Dispatch
<1>3. commands \in [Commands -> CommandStates] /\ queue \in Seq(Commands)
  BY DEF PRInductive, PRTypeOK
<1>4. commands' \in [Commands -> CommandStates]
  BY ZenonT(60), <1>1, <1>3 DEF Claim, Dispatch, Lost, CommandStates
<1>5. queue' \in Seq(Commands)
  <2>1. CASE Dispatch(c)
    <3>1. PICK n \in 0..2 : queue' = queue \o [i \in 1..n |-> c]
      BY <2>1 DEF Dispatch
    <3>2. [i \in 1..n |-> c] \in Seq(Commands)
      BY <3>1
    <3> QED
      BY <1>3, <3>1, <3>2, ConcatProperties
  <2> QED
    BY <1>1, <1>3, <2>1 DEF Claim
<1>6. FollowUpBounded'
  BY <1>2, RestKeepsBound DEF PRInductive, FollowUpRests
<1>7. \A d \in Doors : BoundOK(d)'
  BY <1>2, BindingKept DEF PRInductive, Bounded, At
<1> QED
  BY <1>2, <1>4, <1>5, <1>6, <1>7 DEF PRInductive, PRTypeOK, BranchOK, Tip, CommandOK, FollowUpOK, At
-----------------------------------------------------------------------------
(* The runs *)

LEMMA OtherDoor == Doors = {"command", "follow-up"}
BY DEF Doors

LEMMA RestingRun ==
  /\ NoPRRun \in DoorRuns /\ NoPRRun.phase = "idle" /\ NoPRRun.on = <<>>
  /\ NoPRRun.job = 0 /\ NoPRRun.outcome = "none"
<1>1. <<>> \in Seq(Heads) /\ 0 \in Commands \union {0} /\ 0 \in Jobs \union {0}
  OBVIOUS
<1> QED
  BY <1>1 DEF DoorRuns, NoPRRun

LEMMA Planned ==
  ASSUME NEW c \in Commands
  PROVE  /\ [NoPRRun EXCEPT !.phase = "plan", !.command = c] \in DoorRuns
         /\ [NoPRRun EXCEPT !.phase = "plan", !.command = c].phase = "plan"
         /\ [NoPRRun EXCEPT !.phase = "plan", !.command = c].command = c
<1>1. NoPRRun \in DoorRuns
  BY RestingRun
<1> QED
  BY <1>1 DEF DoorRuns

LEMMA RunStartsInductive ==
  ASSUME PRInductive, RunStarts
  PROVE  PRInductive'
<1>1. /\ pr' = pr /\ ci' = ci /\ commands' = commands /\ ledger' = ledger /\ used' = used
      /\ queue' = Tail(queue) /\ queue # <<>>
      /\ prRuns' = [prRuns EXCEPT !["command"] =
                     [NoPRRun EXCEPT !.phase = "plan", !.command = queue[1]]]
  BY DEF RunStarts
<1>2. queue \in Seq(Commands) /\ prRuns \in [Doors -> DoorRuns]
  BY DEF PRInductive, PRTypeOK
<1>3. queue[1] \in Commands /\ queue' \in Seq(Commands)
  BY <1>1, <1>2
<1>4. [NoPRRun EXCEPT !.phase = "plan", !.command = queue[1]] \in DoorRuns
  BY <1>3, Planned
<1>5. /\ prRuns' \in [Doors -> DoorRuns] /\ prRuns'["follow-up"] = prRuns["follow-up"]
      /\ prRuns'["command"].phase = "plan" /\ prRuns'["command"].command = queue[1]
  BY <1>1, <1>2, <1>3, <1>4, OtherDoor, Planned
<1>6. FollowUpBounded'
  BY <1>1, <1>5, RestKeepsBound DEF PRInductive, FollowUpRests
<1>7. BoundOK("command")'
  BY <1>5 DEF BoundOK, Bounded, At
<1>8. BoundOK("follow-up")'
  BY <1>1, <1>5, BindingKept, OtherDoor DEF PRInductive, Bounded, At
<1>9. CommandOK' /\ FollowUpOK' /\ BranchOK'
  BY <1>1, <1>3, <1>5 DEF PRInductive, CommandOK, FollowUpOK, BranchOK, Tip, At
<1> QED
  BY <1>1, <1>3, <1>5, <1>6, <1>7, <1>8, <1>9, OtherDoor DEF PRInductive, PRTypeOK

LEMMA JobOf ==
  ASSUME NEW S, S \subseteq Jobs, S # {}
  PROVE  Min(S) \in S
<1>1. S \subseteq Nat
  BY PRFixSetsAssumption
<1> QED
  BY <1>1, LeastMember

(* A run that goes on with its task.                                       *)
LEMMA GoesOn ==
  ASSUME PRInductive, NEW d \in Doors,
         NEW phase \in {"publish", "push", "report"},
         NEW run \in {[prRuns[d] EXCEPT !.phase = phase]} \union
                     {[prRuns[d] EXCEPT !.phase = phase, !.outcome = o] :
                        o \in {"patch", "failed", "refused", "suggested", "pushed"}},
         prRuns' = [prRuns EXCEPT ![d] = run], ~At(d, "idle"),
         phase # "report" => Bounded(d),
         d = "follow-up" /\ phase = "report" => run.outcome \in {"failed", "refused", "pushed"},
         pr'.bot = pr.bot, ledger' = ledger
  PROVE  /\ prRuns' \in [Doors -> DoorRuns] /\ CommandOK' /\ FollowUpOK' /\ FollowUpBounded'
         /\ \A e \in Doors : prRuns'[e].on = prRuns[e].on /\ (Bounded(e)' => Bounded(e))
         /\ (pr' = pr => BranchOK' /\ \A e \in Doors : BoundOK(e)')
<1>1. prRuns \in [Doors -> DoorRuns] /\ prRuns[d] \in DoorRuns
  BY DEF PRInductive, PRTypeOK
<1>2. /\ run \in DoorRuns /\ run.phase = phase
      /\ run.on = prRuns[d].on /\ run.job = prRuns[d].job /\ run.command = prRuns[d].command
  <2>1. CASE run = [prRuns[d] EXCEPT !.phase = phase]
    BY <1>1, <2>1 DEF DoorRuns
  <2>2. ASSUME NEW o \in {"patch", "failed", "refused", "suggested", "pushed"},
               run = [prRuns[d] EXCEPT !.phase = phase, !.outcome = o]
        PROVE  /\ run \in DoorRuns /\ run.phase = phase
               /\ run.on = prRuns[d].on /\ run.job = prRuns[d].job /\ run.command = prRuns[d].command
    BY <1>1, <2>2 DEF DoorRuns
  <2> QED
    BY <2>1, <2>2
<1>3. /\ prRuns' \in [Doors -> DoorRuns] /\ prRuns'[d] = run
      /\ \A e \in Doors : e # d => prRuns'[e] = prRuns[e]
  BY <1>1, <1>2
<1>4. \A e \in Doors : /\ prRuns'[e].on = prRuns[e].on /\ prRuns'[e].job = prRuns[e].job
                        /\ prRuns'[e].command = prRuns[e].command
                        /\ (prRuns'[e].phase = "idle") = (prRuns[e].phase = "idle")
  <2> TAKE e \in Doors
  <2>1. CASE e = d
    BY <1>2, <1>3, <2>1 DEF At
  <2>2. CASE e # d
    BY <1>3, <2>2
  <2> QED
    BY <2>1, <2>2
<1>5. FollowUpBounded'
  BY <1>4, RestKeepsBound, OtherDoor DEF PRInductive, FollowUpRests
<1>6. \A e \in Doors : Bounded(e)' => Bounded(e)
  <2> TAKE e \in Doors
  <2>1. CASE e = d
    BY <1>2, <1>3, <2>1 DEF Bounded, At
  <2>2. CASE e # d
    BY <1>3, <2>2 DEF Bounded, At
  <2> QED
    BY <2>1, <2>2
<1>7. pr' = pr => BranchOK' /\ \A e \in Doors : BoundOK(e)'
  <2> SUFFICES ASSUME pr' = pr PROVE BranchOK' /\ \A e \in Doors : BoundOK(e)'
    OBVIOUS
  <2>1. \A e \in Doors : BoundOK(e)'
    BY <1>4, <1>6, BindingKept DEF PRInductive
  <2>2. BranchOK'
    BY DEF PRInductive, BranchOK, Tip
  <2> QED
    BY <2>1, <2>2
<1>8. CommandOK'
  BY <1>4, OtherDoor DEF PRInductive, CommandOK, At
<1>9. FollowUpOK'
  <2>1. CASE d = "follow-up"
    BY <1>2, <1>3, <1>4, <2>1 DEF PRInductive, FollowUpOK, At
  <2>2. CASE d # "follow-up"
    <3>1. prRuns'["follow-up"] = prRuns["follow-up"]
      BY <1>3, <2>2, OtherDoor
    <3> QED
      BY <3>1 DEF PRInductive, FollowUpOK, At
  <2> QED
    BY <2>1, <2>2
<1> QED
  BY <1>3, <1>4, <1>5, <1>6, <1>7, <1>8, <1>9

LEMMA GateInductive ==
  ASSUME PRInductive, Gate
  PROVE  PRInductive'
<1>1. /\ pr' = pr /\ ci' = ci /\ commands' = commands /\ queue' = queue /\ ledger' = ledger
      /\ used' \in [events : 0..MaxEvents, mishaps : 0..MaxMishaps]
      /\ ~At("command", "idle") /\ At("command", "plan") /\ "command" \in Doors
  BY Spends DEF PRInductive, Gate, At, Doors
<1>2. CASE Ends("command", "report", "refused") \/ Ends("command", "report", "failed")
  <2>1. PICK o \in {"refused", "failed"} :
          prRuns' = [prRuns EXCEPT !["command"] = [prRuns["command"] EXCEPT !.phase = "report", !.outcome = o]]
    BY <1>2 DEF Ends
  <2>2. /\ prRuns' \in [Doors -> DoorRuns] /\ CommandOK' /\ FollowUpOK' /\ FollowUpBounded'
        /\ BranchOK' /\ \A e \in Doors : BoundOK(e)'
    BY <1>1, <2>1, GoesOn
  <2> QED
    BY <1>1, <2>2 DEF PRInductive, PRTypeOK
<1>3. CASE ci.failed # {} /\ prRuns' = [prRuns EXCEPT !["command"] =
               [Bound(Min(ci.failed)) EXCEPT !.command = prRuns["command"].command]]
  <2> DEFINE run == [Bound(Min(ci.failed)) EXCEPT !.command = prRuns["command"].command]
  <2>1. Min(ci.failed) \in Jobs /\ prRuns["command"].command \in Commands
    BY <1>1, <1>3, JobOf DEF PRInductive, PRTypeOK, CommandOK
  <2>2. pr.branch \in Seq(Heads) /\ prRuns \in [Doors -> DoorRuns]
    BY DEF PRInductive, PRTypeOK, PullRequests
  <2>3. /\ run \in DoorRuns /\ run.on = pr.branch /\ run.phase = "fix"
        /\ run.command = prRuns["command"].command
    BY <2>1, <2>2, RestingRun DEF Bound, DoorRuns
  <2>4. /\ prRuns' \in [Doors -> DoorRuns] /\ prRuns'["command"] = run
        /\ prRuns'["follow-up"] = prRuns["follow-up"]
    BY <1>1, <1>3, <2>2, <2>3, OtherDoor
  <2>5. FollowUpBounded'
    BY <1>1, <2>4, RestKeepsBound DEF PRInductive, FollowUpRests
  <2>6. BoundOK("command")'
    BY <1>1, <2>3, <2>4 DEF PRInductive, BoundOK, BranchOK, Tip
  <2>7. BoundOK("follow-up")'
    BY <1>1, <2>4, BindingKept, OtherDoor DEF PRInductive, Bounded, At
  <2>8. CommandOK' /\ FollowUpOK' /\ BranchOK'
    BY <1>1, <2>1, <2>3, <2>4 DEF PRInductive, CommandOK, FollowUpOK, BranchOK, Tip, At
  <2> QED
    BY <1>1, <2>4, <2>5, <2>6, <2>7, <2>8, OtherDoor DEF PRInductive, PRTypeOK
<1> QED
  BY <1>2, <1>3 DEF Gate

(* A new attempt: the job is not retired, and the head has attempts left.  *)
LEMMA FollowUpInductive ==
  ASSUME PRInductive, FollowUp
  PROVE  PRInductive'
<1> DEFINE jobs == ci.failed \ Retired(Tip)
           job == Min(jobs)
<1>1. /\ pr' = pr /\ ci' = ci /\ commands' = commands /\ queue' = queue
      /\ ledger' = ledger /\ used' = used /\ pr.bot /\ Attempts(Tip) < MaxHeadTries
      /\ jobs # {} /\ prRuns' = [prRuns EXCEPT !["follow-up"] = Bound(job)]
  BY DEF FollowUp
<1>2. job \in Jobs /\ job \in jobs
  <2>1. jobs \subseteq Jobs
    BY DEF PRInductive, PRTypeOK
  <2> QED
    BY <1>1, <2>1, JobOf
<1>3. ledger[Tip][job].comment = "none" /\ ledger[Tip][job].failed < MaxJobTries
  <2>1. Tip \in Heads /\ ledger[Tip][job] \in Records
    <3>1. pr.branch \in Seq(Heads) /\ pr.branch # <<>>
      BY DEF PRInductive, PRTypeOK, PullRequests, BranchOK
    <3>2. Tip \in Heads
      BY <3>1, LastOf DEF Tip
    <3> QED
      BY <1>2, <3>2 DEF PRInductive, PRTypeOK
  <2>2. ~(ledger[Tip][job].comment # "none" \/ ledger[Tip][job].failed >= MaxJobTries)
    BY <1>2 DEF Retired
  <2> QED
    BY <2>1, <2>2, BoundsAreNumbers DEF Records
<1>4. pr.branch \in Seq(Heads) /\ prRuns \in [Doors -> DoorRuns] /\ "follow-up" \in Doors
  BY DEF PRInductive, PRTypeOK, PullRequests, Doors
<1>5. /\ Bound(job) \in DoorRuns /\ Bound(job).on = pr.branch /\ Bound(job).phase = "fix"
      /\ Bound(job).job = job
  BY <1>2, <1>4, RestingRun DEF Bound, DoorRuns
<1>6. /\ prRuns' \in [Doors -> DoorRuns] /\ prRuns'["follow-up"] = Bound(job)
      /\ prRuns'["command"] = prRuns["command"]
  BY <1>1, <1>4, <1>5, OtherDoor
<1>7. BoundOK("follow-up")'
  BY <1>1, <1>5, <1>6 DEF PRInductive, BoundOK, BranchOK, Tip
<1>8. BoundOK("command")'
  BY <1>1, <1>6, BindingKept, OtherDoor DEF PRInductive, Bounded, At
<1>9. CommandOK' /\ FollowUpOK' /\ BranchOK'
  BY <1>1, <1>2, <1>3, <1>5, <1>6 DEF PRInductive, CommandOK, FollowUpOK, BranchOK, Tip, At
<1>10. FollowUpBounded'
  <2>1. \A h : (OnHead(h)' <=> h = Tip) /\ (\A j : Underway(h, j)' <=> (h = Tip /\ j = job))
    BY <1>5, <1>6 DEF OnHead, Underway, At, Tip
  <2>2. \A h : Attempts(h)' = Attempts(h) /\ Attempts(h) \in Nat
    BY <1>1, CountsAreNumbers DEF Attempts, Pushes, Failures
  <2>3. \A h \in Heads, j \in Jobs : ledger[h][j] \in Records /\ TriesOf(h, j) <= MaxJobTries
    BY DEF PRInductive, PRTypeOK, FollowUpBounded
  <2>4. ASSUME NEW h \in Heads, NEW j \in Jobs PROVE TriesOf(h, j)' <= MaxJobTries
    <3>1. /\ ledger[h][j].failed \in 0..MaxJobTries /\ ledger'[h][j] = ledger[h][j]
          /\ TriesOf(h, j) <= MaxJobTries
      BY <1>1, <2>3 DEF Records
    <3>2. CASE h = Tip /\ j = job
      <4>1. One(Underway(h, j))' = 1 /\ ledger[h][j].comment = "none" /\ ledger[h][j].failed < MaxJobTries
        BY <1>3, <2>1, <3>2 DEF One
      <4> QED
        BY <3>1, <4>1, BoundsAreNumbers DEF TriesOf, One
    <3>3. CASE ~(h = Tip /\ j = job)
      <4>1. One(Underway(h, j))' = 0 /\ One(Underway(h, j)) \in {0, 1}
        BY <2>1, <3>3 DEF One
      <4>2. One(ledger[h][j].comment # "none") \in {0, 1}
        BY DEF One
      <4>3. TriesOf(h, j)' = ledger[h][j].failed + 0 + One(ledger[h][j].comment # "none")
        BY <3>1, <4>1 DEF TriesOf, One
      <4> QED
        BY <3>1, <4>1, <4>2, <4>3, BoundsAreNumbers DEF TriesOf
    <3> QED
      BY <3>2, <3>3
  <2>5. ASSUME NEW h \in Heads PROVE Attempts(h)' + One(OnHead(h))' <= MaxHeadTries
    <3>1. Attempts(h) + One(OnHead(h)) <= MaxHeadTries /\ One(OnHead(h)) \in {0, 1}
      BY DEF PRInductive, FollowUpBounded, One
    <3>2. CASE h = Tip
      <4>1. One(OnHead(h))' = 1
        BY <2>1, <3>2 DEF One
      <4> QED
        BY <1>1, <2>2, <3>2, <4>1, BoundsAreNumbers
    <3>3. CASE h # Tip
      <4>1. One(OnHead(h))' = 0
        BY <2>1, <3>3 DEF One
      <4> QED
        BY <2>2, <3>1, <4>1, BoundsAreNumbers
    <3> QED
      BY <3>2, <3>3
  <2> QED
    BY <2>4, <2>5 DEF FollowUpBounded
<1> QED
  BY <1>1, <1>6, <1>7, <1>8, <1>9, <1>10, OtherDoor DEF PRInductive, PRTypeOK

(* A run that goes on with an outcome.                                     *)
LEMMA EndsGoesOn ==
  ASSUME PRInductive, NEW d \in Doors,
         NEW phase \in {"publish", "push", "report"},
         NEW o \in {"patch", "failed", "refused", "suggested", "pushed"},
         Ends(d, phase, o), ~At(d, "idle"), phase # "report" => Bounded(d),
         d = "follow-up" /\ phase = "report" => o \in {"failed", "refused", "pushed"},
         pr'.bot = pr.bot, ledger' = ledger
  PROVE  /\ prRuns' \in [Doors -> DoorRuns] /\ CommandOK' /\ FollowUpOK' /\ FollowUpBounded'
         /\ \A e \in Doors : prRuns'[e].on = prRuns[e].on /\ (Bounded(e)' => Bounded(e))
         /\ (pr' = pr => BranchOK' /\ \A e \in Doors : BoundOK(e)')
<1> DEFINE run == [prRuns[d] EXCEPT !.phase = phase, !.outcome = o]
<1>1. prRuns[d] \in DoorRuns
  BY DEF PRInductive, PRTypeOK
<1>2. run.outcome = o
  BY <1>1 DEF DoorRuns
<1>3. prRuns' = [prRuns EXCEPT ![d] = run]
  BY DEF Ends
<1>4. run \in {[prRuns[d] EXCEPT !.phase = phase]} \union
             {[prRuns[d] EXCEPT !.phase = phase, !.outcome = u] :
                u \in {"patch", "failed", "refused", "suggested", "pushed"}}
  OBVIOUS
<1> HIDE DEF run
<1> QED
  BY <1>2, <1>3, <1>4, GoesOn

LEMMA EndsInductive ==
  ASSUME PRInductive, NEW d \in Doors,
         NEW phase \in {"publish", "push", "report"},
         NEW o \in {"patch", "failed", "refused", "suggested", "pushed"},
         Ends(d, phase, o), ~At(d, "idle"), phase # "report" => Bounded(d),
         d = "follow-up" /\ phase = "report" => o \in {"failed", "refused", "pushed"},
         UNCHANGED <<pr, ci, commands, queue, ledger>>,
         used' \in [events : 0..MaxEvents, mishaps : 0..MaxMishaps]
  PROVE  PRInductive'
<1>1. /\ prRuns' \in [Doors -> DoorRuns] /\ CommandOK' /\ FollowUpOK' /\ FollowUpBounded'
      /\ BranchOK' /\ \A e \in Doors : BoundOK(e)'
  BY EndsGoesOn
<1> QED
  BY <1>1 DEF PRInductive, PRTypeOK

LEMMA PrepareFixInductive ==
  ASSUME PRInductive, NEW d \in Doors, PrepareFix(d)
  PROVE  PRInductive'
<1>1. /\ UNCHANGED <<pr, ci, commands, queue, ledger>> /\ ~At(d, "idle") /\ Bounded(d)
      /\ used' \in [events : 0..MaxEvents, mishaps : 0..MaxMishaps]
  BY Spends DEF PRInductive, PrepareFix, At, Bounded
<1>2. Ends(d, "publish", "patch") \/ Ends(d, "report", "refused") \/ Ends(d, "report", "failed")
  BY DEF PrepareFix
<1> QED
  BY <1>1, <1>2, EndsInductive

LEMMA RevalidateInductive ==
  ASSUME PRInductive, NEW d \in Doors, Revalidate(d)
  PROVE  PRInductive'
<1>1. /\ UNCHANGED <<pr, ci, commands, queue, ledger>> /\ ~At(d, "idle") /\ Bounded(d)
      /\ used' \in [events : 0..MaxEvents, mishaps : 0..MaxMishaps]
  BY Spends DEF PRInductive, Revalidate, At, Bounded
<1>2. d = "follow-up" => pr.bot
  BY <1>1 DEF PRInductive, FollowUpOK, At
<1>3. CASE Ends(d, "report", "refused") \/ Ends(d, "report", "failed")
  BY <1>1, <1>3, EndsInductive
<1>4. CASE ~pr.bot /\ Ends(d, "report", "suggested")
  BY <1>1, <1>2, <1>4, EndsInductive
<1>5. CASE prRuns' = [prRuns EXCEPT ![d].phase = "push"]
  <2>1. prRuns' = [prRuns EXCEPT ![d] = [prRuns[d] EXCEPT !.phase = "push"]]
    BY <1>5
  <2>2. /\ prRuns' \in [Doors -> DoorRuns] /\ CommandOK' /\ FollowUpOK' /\ FollowUpBounded'
        /\ BranchOK' /\ \A e \in Doors : BoundOK(e)'
    BY <1>1, <2>1, GoesOn
  <2> QED
    BY <1>1, <2>2 DEF PRInductive, PRTypeOK
<1> QED
  BY <1>3, <1>4, <1>5 DEF Revalidate

LEMMA PushInductive ==
  ASSUME PRInductive, NEW d \in Doors, Push(d)
  PROVE  PRInductive'
<1>1. /\ UNCHANGED <<commands, queue, ledger>> /\ ~At(d, "idle") /\ Bounded(d)
      /\ used' \in [events : 0..MaxEvents, mishaps : 0..MaxMishaps]
  BY Spends DEF PRInductive, Push, At, Bounded
<1>2. CASE /\ NewHead(prRuns[d].on)
           /\ Ends(d, "report", "pushed") \/ Ends(d, "report", "failed")
  <2>1. prRuns[d].on \in Seq(Heads)
    BY RunTyped DEF PRInductive
  <2>2. /\ pr' \in PullRequests /\ ci' \in [done : BOOLEAN, failed : SUBSET Jobs]
        /\ BranchOK' /\ pr'.bot = pr.bot
    BY <1>2, <2>1, NewHeadKeeps DEF PRInductive
  <2>3. /\ prRuns' \in [Doors -> DoorRuns] /\ CommandOK' /\ FollowUpOK' /\ FollowUpBounded'
        /\ \A e \in Doors : prRuns'[e].on = prRuns[e].on /\ (Bounded(e)' => Bounded(e))
    BY <1>1, <1>2, <2>2, EndsGoesOn
  <2>4. \A e \in Doors : BoundOK(e)'
    BY <1>2, <2>1, <2>3, NewHeadBinds DEF PRInductive
  <2> QED
    BY <1>1, <2>2, <2>3, <2>4 DEF PRInductive, PRTypeOK
<1>3. CASE Ends(d, "report", "refused") /\ UNCHANGED <<pr, ci>>
  BY <1>1, <1>3, EndsInductive
<1> QED
  BY <1>2, <1>3 DEF Push
-----------------------------------------------------------------------------
(* Runs that leave *)

LEMMA CommandLeaves ==
  ASSUME PRInductive, Leaves("command"), UNCHANGED <<pr, ci, queue, ledger>>,
         commands' \in [Commands -> CommandStates],
         used' \in [events : 0..MaxEvents, mishaps : 0..MaxMishaps]
  PROVE  PRInductive'
<1>1. prRuns \in [Doors -> DoorRuns] /\ "command" \in Doors /\ "follow-up" \in Doors
  BY DEF PRInductive, PRTypeOK, Doors
<1>2. prRuns' = [prRuns EXCEPT !["command"] = NoPRRun]
  BY DEF Leaves
<1>3. /\ prRuns' \in [Doors -> DoorRuns] /\ prRuns'["command"].phase = "idle"
      /\ prRuns'["follow-up"] = prRuns["follow-up"]
  <2>1. prRuns' \in [Doors -> DoorRuns] /\ prRuns'["command"] = NoPRRun
        /\ prRuns'["follow-up"] = prRuns["follow-up"]
    <3>1. NoPRRun \in DoorRuns
      BY RestingRun
    <3> HIDE DEF NoPRRun
    <3> QED
      BY <1>1, <1>2, <3>1
  <2> QED
    BY <2>1, RestingRun
<1>4. FollowUpBounded'
  BY <1>3, RestKeepsBound DEF PRInductive, FollowUpRests
<1>5. BoundOK("command")'
  BY <1>3 DEF BoundOK, Bounded, At
<1>6. BoundOK("follow-up")'
  BY <1>1, <1>3, BindingKept DEF PRInductive, Bounded, At
<1>7. CommandOK' /\ FollowUpOK' /\ BranchOK'
  BY <1>3 DEF PRInductive, CommandOK, FollowUpOK, BranchOK, Tip, At
<1> QED
  BY <1>3, <1>4, <1>5, <1>6, <1>7, OtherDoor DEF PRInductive, PRTypeOK

LEMMA AnswerInductive ==
  ASSUME PRInductive, Answer
  PROVE  PRInductive'
<1>1. prRuns["command"].command \in Commands /\ commands \in [Commands -> CommandStates]
  BY DEF PRInductive, PRTypeOK, CommandOK, Answer, At
<1>2. commands' \in [Commands -> CommandStates]
  BY ZenonT(40), <1>1 DEF Answer, Lost, CommandStates
<1>3. used' \in [events : 0..MaxEvents, mishaps : 0..MaxMishaps]
  BY Spends DEF PRInductive, Answer
<1> QED
  BY <1>2, <1>3, CommandLeaves DEF Answer

(* What a run that leaves adds to the count of its head: one attempt, at
   most, which was counted as being under way.                             *)
LEMMA OneMoreAttempt ==
  ASSUME PRTypeOK, NEW h \in Heads, NEW j \in Jobs, NEW record \in Records,
         ledger' = [ledger EXCEPT ![h][j] = record],
         ledger[h][j].comment = "none", ledger[h][j].failed < MaxJobTries,
         \/ record.comment = "none" /\ record.failed = ledger[h][j].failed + 1
         \/ record.comment # "none" /\ record.failed = ledger[h][j].failed
  PROVE  /\ Attempts(h)' \in Nat /\ Attempts(h)' <= Attempts(h) + 1
         /\ \A g \in Heads : g # h => Attempts(g)' = Attempts(g)
<1>1. /\ ledger \in [Heads -> [Jobs -> Records]] /\ ledger[h][j].failed \in Nat
      /\ MaxJobTries \in Nat
  BY BoundsAreNumbers DEF PRTypeOK, Records
<1>2. /\ ledger'[h][j] = record
      /\ \A k \in Jobs : k # j => ledger'[h][k] = ledger[h][k]
      /\ \A g \in Heads : g # h => ledger'[g] = ledger[g]
  BY <1>1
<1>3. \A g \in Heads : g # h => Attempts(g)' = Attempts(g)
  BY <1>2 DEF Attempts, Pushes, Failures
<1>4. /\ IsFiniteSet(Pushes(h)) /\ IsFiniteSet(Failures(h))
      /\ Cardinality(Pushes(h)) \in Nat /\ Cardinality(Failures(h)) \in Nat
  BY CountsAreNumbers
<1>5. /\ Cardinality(Pushes(h) \union {j}) \in {Cardinality(Pushes(h)), Cardinality(Pushes(h)) + 1}
      /\ \A x : Cardinality(Failures(h) \union {x}) \in
                  {Cardinality(Failures(h)), Cardinality(Failures(h)) + 1}
  <2>1. \A x : Cardinality(Pushes(h) \union {x}) \in
                 {Cardinality(Pushes(h)), Cardinality(Pushes(h)) + 1}
    BY <1>4, FS_AddElement
  <2>2. \A x : Cardinality(Failures(h) \union {x}) \in
                 {Cardinality(Failures(h)), Cardinality(Failures(h)) + 1}
    BY <1>4, FS_AddElement
  <2> QED
    BY <2>1, <2>2
<1>6. CASE record.comment = "none" /\ record.failed = ledger[h][j].failed + 1
  <2>1. Pushes(h)' = Pushes(h)
    BY <1>2, <1>6 DEF Pushes
  <2>2. Failures(h)' = Failures(h) \union {<<j, ledger[h][j].failed + 1>>}
    <3>1. \A k \in Jobs, n \in 1..MaxJobTries :
            <<k, n>> \in Failures(h)' <=>
              <<k, n>> \in Failures(h) \/ (k = j /\ n = ledger[h][j].failed + 1)
      <4> TAKE k \in Jobs, n \in 1..MaxJobTries
      <4>1. <<k, n>> \in Failures(h) <=> n <= ledger[h][k].failed
        BY DEF Failures
      <4>2. <<k, n>> \in Failures(h)' <=> n <= ledger'[h][k].failed
        BY DEF Failures
      <4>3. CASE k = j
        BY <1>1, <1>2, <1>6, <4>1, <4>2, <4>3
      <4>4. CASE k # j
        BY <1>2, <4>1, <4>2, <4>4
      <4> QED
        BY <4>3, <4>4
    <3>2. <<j, ledger[h][j].failed + 1>> \in Jobs \X (1..MaxJobTries)
      BY <1>1
    <3>3. Failures(h) \subseteq Jobs \X (1..MaxJobTries)
          /\ Failures(h)' \subseteq Jobs \X (1..MaxJobTries)
      BY DEF Failures
    <3>4. ASSUME NEW x \in Jobs \X (1..MaxJobTries)
          PROVE  x \in Failures(h)' <=>
                   x \in Failures(h) \union {<<j, ledger[h][j].failed + 1>>}
      <4>1. PICK k \in Jobs, n \in 1..MaxJobTries : x = <<k, n>>
        OBVIOUS
      <4>2. x = <<j, ledger[h][j].failed + 1>> <=> (k = j /\ n = ledger[h][j].failed + 1)
        BY <4>1
      <4>3. <<k, n>> \in Failures(h)' <=>
              <<k, n>> \in Failures(h) \/ (k = j /\ n = ledger[h][j].failed + 1)
        BY <3>1
      <4> QED
        BY <4>1, <4>2, <4>3
    <3> QED
      BY <3>2, <3>3, <3>4
  <2>3. Cardinality(Failures(h)') \in {Cardinality(Failures(h)), Cardinality(Failures(h)) + 1}
    BY <1>5, <2>2
  <2>4. Attempts(h)' = Cardinality(Pushes(h)) + Cardinality(Failures(h)')
    BY <2>1 DEF Attempts
  <2> QED
    BY <1>3, <1>4, <2>3, <2>4 DEF Attempts
<1>7. CASE record.comment # "none" /\ record.failed = ledger[h][j].failed
  <2>1. Failures(h)' = Failures(h)
    <3>1. \A k \in Jobs : ledger'[h][k].failed = ledger[h][k].failed
      BY <1>2, <1>7
    <3> QED
      BY <3>1 DEF Failures
  <2>2. Pushes(h)' = Pushes(h) \/ Pushes(h)' = Pushes(h) \union {j}
    BY <1>2, <1>7 DEF Pushes
  <2> QED
    BY SMTT(30), <1>3, <1>4, <1>5, <2>1, <2>2 DEF Attempts
<1> QED
  BY <1>6, <1>7

(* A run of the follow-up leaves what it has come to on record.            *)
LEMMA FollowUpLeaves ==
  ASSUME PRInductive, ~At("follow-up", "idle"), Leaves("follow-up"),
         NEW o \in {"failed", "refused", "pushed"}, Files(o),
         UNCHANGED <<pr, ci, commands, queue>>,
         used' \in [events : 0..MaxEvents, mishaps : 0..MaxMishaps]
  PROVE  PRInductive'
<1> DEFINE record(h, j) == 
             IF o = "failed" THEN [ledger[h][j] EXCEPT !.failed = @ + 1]
             ELSE [ledger[h][j] EXCEPT !.comment = o]
<1>1. PRTypeOK /\ FollowUpBounded /\ prRuns \in [Doors -> DoorRuns]
      /\ "command" \in Doors /\ "follow-up" \in Doors
  BY DEF PRInductive, PRTypeOK, Doors
<1>2. PICK j \in Jobs : j = prRuns["follow-up"].job
  BY DEF PRInductive, FollowUpOK
<1>3. PICK h \in Heads : h = Last(prRuns["follow-up"].on) /\ ledger[h][j].comment = "none"
  <2>1. Bounded("follow-up") /\ BoundOK("follow-up")
    BY <1>1 DEF PRInductive, Bounded
  <2>2. prRuns["follow-up"].on # <<>> /\ prRuns["follow-up"].on \in Seq(Heads)
    BY <1>1, <2>1, RunTyped DEF BoundOK
  <2>3. Last(prRuns["follow-up"].on) \in Heads
    BY <2>2, LastOf
  <2> QED
    BY <1>2, <2>3 DEF PRInductive, FollowUpOK
<1>4. /\ ledger \in [Heads -> [Jobs -> Records]] /\ ledger[h][j] \in Records
      /\ ledger[h][j].failed \in Nat
  BY <1>1, <1>2, <1>3, BoundsAreNumbers DEF PRTypeOK, Records
<1>5. (\A g : OnHead(g) <=> g = h) /\ (\A g, k : Underway(g, k) <=> (g = h /\ k = j))
  BY <1>2, <1>3 DEF OnHead, Underway
<1>6. ledger[h][j].failed < MaxJobTries
  <2>1. TriesOf(h, j) <= MaxJobTries
    BY <1>1, <1>2, <1>3 DEF FollowUpBounded
  <2>2. TriesOf(h, j) = ledger[h][j].failed + 1 + 0
    BY <1>3, <1>5 DEF TriesOf, One
  <2> QED
    BY <1>4, <2>1, <2>2, BoundsAreNumbers
<1>7. ledger' = [ledger EXCEPT ![h][j] = record(h, j)]
  BY <1>2, <1>3 DEF Files
<1>8. /\ record(h, j) \in Records
      /\ \/ record(h, j).comment = "none" /\ record(h, j).failed = ledger[h][j].failed + 1
         \/ record(h, j).comment # "none" /\ record(h, j).failed = ledger[h][j].failed
  <2>1. CASE o = "failed"
    BY <1>3, <1>4, <1>6, <2>1, BoundsAreNumbers DEF Records
  <2>2. CASE o # "failed"
    BY <1>4, <2>2 DEF Records
  <2> QED
    BY <2>1, <2>2
<1> HIDE DEF record
<1>9. /\ ledger' \in [Heads -> [Jobs -> Records]] /\ ledger'[h][j] = record(h, j)
      /\ \A g \in Heads, k \in Jobs : ~(g = h /\ k = j) => ledger'[g][k] = ledger[g][k]
  BY <1>4, <1>7, <1>8
<1>10. /\ prRuns' \in [Doors -> DoorRuns] /\ prRuns'["command"] = prRuns["command"]
       /\ At("follow-up", "idle")'
  <2>1. prRuns' \in [Doors -> DoorRuns] /\ prRuns'["follow-up"] = NoPRRun
        /\ prRuns'["command"] = prRuns["command"]
    <3>1. NoPRRun \in DoorRuns /\ prRuns' = [prRuns EXCEPT !["follow-up"] = NoPRRun]
      BY RestingRun DEF Leaves
    <3> HIDE DEF NoPRRun
    <3> QED
      BY <1>1, <3>1
  <2> QED
    BY <2>1, RestingRun DEF At
<1>11. FollowUpBounded'
  <2>1. \A g, k : ~OnHead(g)' /\ ~Underway(g, k)'
    BY <1>10 DEF OnHead, Underway
  <2>2. /\ Attempts(h)' \in Nat /\ Attempts(h)' <= Attempts(h) + 1
        /\ \A g \in Heads : g # h => Attempts(g)' = Attempts(g)
    BY <1>1, <1>3, <1>6, <1>7, <1>8, OneMoreAttempt
  <2>3. ASSUME NEW g \in Heads PROVE Attempts(g)' + One(OnHead(g))' <= MaxHeadTries
    <3>1. One(OnHead(g))' = 0 /\ Attempts(g) \in Nat
      BY <2>1, CountsAreNumbers DEF One
    <3>2. Attempts(g) + One(OnHead(g)) <= MaxHeadTries /\ One(OnHead(g)) \in {0, 1}
      BY <1>1 DEF FollowUpBounded, One
    <3>3. CASE g = h
      <4>1. One(OnHead(g)) = 1
        BY <1>5, <3>3 DEF One
      <4> QED
        <5>1. Attempts(g)' \in Nat /\ Attempts(g)' <= Attempts(g) + 1
          BY <2>2, <3>3
        <5> QED
          BY <3>1, <3>2, <4>1, <5>1, BoundsAreNumbers
    <3>4. CASE g # h
      <4>1. Attempts(g)' = Attempts(g)
        BY <2>2, <3>4
      <4> QED
        BY <3>1, <3>2, <4>1, BoundsAreNumbers
    <3> QED
      BY <3>3, <3>4
  <2>4. ASSUME NEW g \in Heads, NEW k \in Jobs PROVE TriesOf(g, k)' <= MaxJobTries
    <3>1. TriesOf(g, k)' = ledger'[g][k].failed + 0 + One(ledger'[g][k].comment # "none")
      BY <2>1 DEF TriesOf, One
    <3>2. CASE g = h /\ k = j
      BY <1>4, <1>6, <1>8, <1>9, <3>1, <3>2, BoundsAreNumbers DEF One
    <3>3. CASE ~(g = h /\ k = j)
      <4>1. ledger'[g][k] = ledger[g][k] /\ ledger[g][k] \in Records /\ ledger[g][k].failed \in Nat
        BY <1>4, <1>9, <3>3, BoundsAreNumbers DEF Records
      <4>2. TriesOf(g, k) <= MaxJobTries /\ One(Underway(g, k)) = 0
        BY <1>1, <1>5, <3>3 DEF FollowUpBounded, One
      <4> QED
        BY <3>1, <4>1, <4>2 DEF TriesOf
    <3> QED
      BY <3>2, <3>3
  <2> QED
    BY <2>3, <2>4 DEF FollowUpBounded
<1>12. BoundOK("follow-up")' /\ FollowUpOK'
  BY <1>10 DEF BoundOK, Bounded, FollowUpOK, At
<1>13. BoundOK("command")'
  BY <1>1, <1>10, BindingKept DEF PRInductive, Bounded, At
<1>14. CommandOK' /\ BranchOK'
  BY <1>10 DEF PRInductive, CommandOK, BranchOK, Tip, At
<1> QED
  BY <1>9, <1>10, <1>11, <1>12, <1>13, <1>14, OtherDoor DEF PRInductive, PRTypeOK

LEMMA MarkInductive ==
  ASSUME PRInductive, Mark
  PROVE  PRInductive'
<1>1. /\ ~At("follow-up", "idle") /\ Leaves("follow-up") /\ UNCHANGED <<pr, ci, commands, queue>>
      /\ used' \in [events : 0..MaxEvents, mishaps : 0..MaxMishaps]
  BY Spends DEF PRInductive, Mark, At
<1>2. prRuns["follow-up"].outcome \in {"failed", "refused", "pushed"}
  BY DEF PRInductive, FollowUpOK, Mark, At
<1>3. Files(prRuns["follow-up"].outcome) \/ Files("failed")
  BY DEF Mark
<1> QED
  BY <1>1, <1>2, <1>3, FollowUpLeaves

LEMMA RunDiesInductive ==
  ASSUME PRInductive, NEW d \in Doors, RunDies(d)
  PROVE  PRInductive'
<1>1. /\ ~At(d, "idle") /\ Leaves(d) /\ UNCHANGED <<pr, ci, queue>>
      /\ used' \in [events : 0..MaxEvents, mishaps : 0..MaxMishaps]
  BY Spends DEF PRInductive, RunDies
<1>2. CASE d = "command"
  <2>1. Lost(prRuns["command"].command) /\ ledger' = ledger
    BY <1>2 DEF RunDies
  <2>2. prRuns["command"].command \in Commands /\ commands \in [Commands -> CommandStates]
    BY <1>1, <1>2 DEF PRInductive, PRTypeOK, CommandOK
  <2>3. commands' \in [Commands -> CommandStates]
    BY <2>1, <2>2 DEF Lost, CommandStates
  <2> QED
    BY <1>1, <1>2, <2>1, <2>3, CommandLeaves
<1>3. CASE d = "follow-up"
  <2>1. Files("failed") /\ commands' = commands
    BY <1>3 DEF RunDies
  <2> QED
    BY <1>1, <1>3, <2>1, FollowUpLeaves
<1> QED
  BY <1>2, <1>3, OtherDoor

-----------------------------------------------------------------------------
LEMMA PRInitInductive ==
  ASSUME NEW bot \in BOOLEAN, PRStart(bot)
  PROVE  PRInductive
<1>1. /\ pr = [open |-> TRUE, bot |-> bot, branch |-> <<1>>, made |-> 1] /\ ci = Untested
      /\ commands = [c \in Commands |-> [state |-> "none", run |-> 0, told |-> FALSE]]
      /\ queue = <<>> /\ prRuns = [d \in Doors |-> NoPRRun]
      /\ ledger = [h \in Heads |-> [j \in Jobs |-> [comment |-> "none", failed |-> 0]]]
      /\ used = [events |-> 0, mishaps |-> 0]
  BY DEF PRStart
<1>2. 1 \in Heads /\ <<1>> \in Seq(Heads) /\ <<1>> # <<>>
  BY BoundsAreNumbers DEF Heads
<1>3. \A d \in Doors : prRuns[d] = NoPRRun /\ prRuns[d].phase = "idle"
  BY <1>1, RestingRun
<1>4. prRuns \in [Doors -> DoorRuns]
  <2>1. NoPRRun \in DoorRuns
    BY RestingRun
  <2> HIDE DEF NoPRRun
  <2> QED
    BY <1>1, <2>1
<1>5. ledger \in [Heads -> [Jobs -> Records]]
  <2>1. [comment |-> "none", failed |-> 0] \in Records
    BY BoundsAreNumbers DEF Records
  <2> QED
    BY <1>1, <2>1
<1>6. commands \in [Commands -> CommandStates]
  <2>1. [state |-> "none", run |-> 0, told |-> FALSE] \in CommandStates
    BY BoundsAreNumbers DEF CommandStates
  <2> QED
    BY <1>1, <2>1
<1>7. PRTypeOK
  <2>1. pr \in PullRequests
    BY <1>1, <1>2 DEF PullRequests
  <2>2. ci \in [done : BOOLEAN, failed : SUBSET Jobs]
    BY <1>1 DEF Untested
  <2>3. queue \in Seq(Commands)
    BY <1>1
  <2>4. used \in [events : 0..MaxEvents, mishaps : 0..MaxMishaps]
    BY <1>1, BoundsAreNumbers
  <2> QED
    BY <1>4, <1>5, <1>6, <2>1, <2>2, <2>3, <2>4 DEF PRTypeOK
<1>8. BranchOK
  <2>1. Tip = 1
    BY <1>1 DEF Tip, Last
  <2> QED
    BY <1>1, <1>2, <2>1 DEF BranchOK
<1>9. (\A d \in Doors : BoundOK(d)) /\ CommandOK /\ FollowUpOK
  BY <1>3, OtherDoor DEF BoundOK, Bounded, CommandOK, FollowUpOK, At
<1>10. FollowUpBounded
  <2>1. \A h, j : ~OnHead(h) /\ ~Underway(h, j)
    BY <1>3, OtherDoor DEF OnHead, Underway, At
  <2>2. \A h \in Heads, j \in Jobs : ledger[h][j].failed = 0 /\ ledger[h][j].comment = "none"
    BY <1>1
  <2>3. ASSUME NEW h \in Heads, NEW j \in Jobs PROVE TriesOf(h, j) <= MaxJobTries
    <3>1. TriesOf(h, j) = 0 + 0 + 0
      BY <2>1, <2>2 DEF TriesOf, One
    <3> QED
      BY <3>1, BoundsAreNumbers
  <2>4. ASSUME NEW h \in Heads PROVE Attempts(h) + One(OnHead(h)) <= MaxHeadTries
    <3>1. Pushes(h) = {}
      BY <2>2 DEF Pushes
    <3>2. Failures(h) = {}
      BY <2>2, BoundsAreNumbers DEF Failures
    <3>3. Attempts(h) = 0
      BY <3>1, <3>2, FS_EmptySet DEF Attempts
    <3> QED
      BY <2>1, <3>3, BoundsAreNumbers DEF One
  <2> QED
    BY <2>3, <2>4 DEF FollowUpBounded
<1> QED
  BY <1>7, <1>8, <1>9, <1>10 DEF PRInductive

LEMMA PRStutters ==
  ASSUME PRInductive, UNCHANGED prVars
  PROVE  PRInductive'
<1>1. /\ pr' = pr /\ ci' = ci /\ commands' = commands /\ queue' = queue
      /\ prRuns' = prRuns /\ ledger' = ledger /\ used' = used
  BY DEF prVars
<1>2. FollowUpBounded'
  BY <1>1, RestKeepsBound DEF PRInductive, FollowUpRests
<1>3. \A d \in Doors : BoundOK(d)'
  BY <1>1, BindingKept DEF PRInductive, Bounded, At
<1> QED
  BY <1>1, <1>2, <1>3 DEF PRInductive, PRTypeOK, BranchOK, Tip, CommandOK, FollowUpOK, At

LEMMA PRStepsInductive ==
  ASSUME PRInductive, [PRNext]_prVars
  PROVE  PRInductive'
<1>1. SUFFICES ASSUME PRInductive, PRNext PROVE PRInductive'
  BY PRStutters
<1>2. CASE \/ PersonPushes \/ PersonCloses \/ CIRerun \/ CIEnds
           \/ \E c \in Commands : Comments(c)
  BY <1>1, <1>2, PeopleInductive
<1>3. CASE Polling \/ FollowUp
  BY <1>1, <1>3, PollingInductive, FollowUpInductive
<1>4. CASE PRRunning
  BY <1>1, <1>4, RunStartsInductive, GateInductive, AnswerInductive, MarkInductive,
     PrepareFixInductive, RevalidateInductive, PushInductive DEF PRRunning
<1>5. CASE \E d \in Doors : RunDies(d)
  BY <1>1, <1>5, RunDiesInductive
<1> QED
  BY <1>1, <1>2, <1>3, <1>4, <1>5 DEF PRNext

(* Every state has its type, runs are bound to what the branch was, and the
   follow-up works on what it may.                                         *)
THEOREM PRFixIsInductive == PRSpec => []PRInductive
<1>1. PRInit => PRInductive
  BY PRInitInductive DEF PRInit
<1>2. PRInductive /\ [PRNext]_prVars => PRInductive'
  BY PRStepsInductive
<1> QED
  BY <1>1, <1>2, PTL DEF PRSpec

(* However runs fail or die, the follow-up stays within its attempts per
   job and per head.                                                       *)
THEOREM FollowUpStaysBounded == PRSpec => []FollowUpBounded
<1>1. PRInductive => FollowUpBounded
  BY DEF PRInductive
<1> QED
  BY <1>1, PRFixIsInductive, PTL

(* A sequence begins with itself, and goes on so when it is appended to.   *)
LEMMA AppendedTo ==
  ASSUME NEW S, NEW s \in Seq(S), NEW x \in S
  PROVE  IsPrefix(s, s) /\ IsPrefix(s, Append(s, x))
<1>1. Len(Append(s, x)) = Len(s) + 1 /\ Len(s) \in Nat
  BY AppendProperties
<1>2. SubSeq(s, 1, Len(s)) = s /\ SubSeq(Append(s, x), 1, Len(s)) = s
  BY <1>1
<1> QED
  BY <1>1, <1>2 DEF IsPrefix

(* The bot's push adds to what the branch is when it arrives, whoever has
   moved the branch since the run was bound to it.                         *)
THEOREM BotOnlyAdds == PRSpec => PushOnlyAdds
<1>1. PRInductive /\ [PRNext]_prVars =>
        [(\E d \in Doors : At(d, "push") /\ ~At(d, "push")') =>
           IsPrefix(pr.branch, pr'.branch)]_prVars
  <2>1. SUFFICES ASSUME PRInductive, PRNext, NEW d \in Doors, At(d, "push"), ~At(d, "push")'
                 PROVE  IsPrefix(pr.branch, pr'.branch)
    OBVIOUS
  <2>2. pr \in PullRequests /\ pr.branch \in Seq(Heads)
    BY <2>1 DEF PRInductive, PRTypeOK, PullRequests
  <2>3. CASE pr'.branch = pr.branch
    BY <2>2, <2>3, AppendedTo
  <2>4. CASE \E e \in Doors : Push(e)
    <3>1. PICK e \in Doors : Push(e)
      BY <2>4
    <3>2. CASE Tip = Last(prRuns[e].on) /\ NewHead(prRuns[e].on)
      <4>1. prRuns[e].on = pr.branch
        BY <2>1, <3>1, <3>2 DEF PRInductive, BoundOK, Bounded, Push
      <4>2. pr'.branch = Append(pr.branch, pr.made + 1) /\ pr.made + 1 \in Heads
        BY <2>2, <3>2, <4>1, BoundsAreNumbers DEF NewHead, PullRequests, Heads
      <4> QED
        BY <2>2, <4>2, AppendedTo
    <3>3. CASE UNCHANGED pr
      BY <2>3, <3>3
    <3> QED
      BY <3>1, <3>2, <3>3 DEF Push
  <2>5. CASE prRuns' = prRuns
    BY <2>1, <2>5 DEF At
  <2> QED
    BY <2>1, <2>3, <2>4, <2>5
       DEF PRNext, PersonPushes, PersonCloses, CIRerun, CIEnds, Comments, Polling, Claim,
           Dispatch, FollowUp, PRRunning, RunStarts, Gate, Answer, Mark, PrepareFix,
           Revalidate, RunDies
<1> QED
  BY <1>1, PRFixIsInductive, PTL DEF PRSpec, PushOnlyAdds

=============================================================================
