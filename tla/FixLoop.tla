------------------------------ MODULE FixLoop ------------------------------
(***************************************************************************)
(* Preparing one CI fix (scripts/ci_fix/engine.py, reproduce.py, agent.py) *)
(* in one checkout: reproduce the failure on the unfixed code, then let an *)
(* agent edit, verify its candidate with the reproduction and have it      *)
(* reviewed, up to MaxRounds times.                                        *)
(*                                                                         *)
(* A working tree is the edit it holds and whether a command has left      *)
(* other changes in it.  Builds and tests run as the account that owns the *)
(* tree, so any of them may; what it left stays there until a restore.     *)
(* The clock is not modelled: any run may be killed for time, and the      *)
(* budget may be used up whenever the code looks at it.                    *)
(***************************************************************************)
EXTENDS Naturals

CONSTANT MaxRounds   \* MAX_ROUNDS

ASSUME MaxRoundsAssumption == MaxRounds \in Nat \ {0}

VARIABLES
  fixTask,    \* where the fix goes, how the failure can be run, how it behaves
  fixPhase,   \* the step preparation is at
  repro,      \* what the reproduction on the unfixed code found
  round,      \* attempt
  tree,       \* the checkout's working tree
  candidate,  \* the round's candidate: its action and its patch
  tested,     \* the last run that passed with a candidate: the tree it ran on,
              \* whether every core was busy, whether the failing test ran
  reviewed,   \* the patch the last approving review judged
  alsoFixes,  \* another issue was shown to be fixed too
  fixResult   \* what preparation returned

fixVars == <<fixTask, fixPhase, repro, round, tree, candidate, tested, reviewed,
             alsoFixes, fixResult>>
verdicts == <<tested, reviewed, alsoFixes>>

(* What a change does: it cures the failure, changes nothing about it,
   keeps the failing test from running, or breaks the build.               *)
Edits == {"cures", "useless", "skips", "breaks"}
Trees == [edit : Edits \union {"none"}, stray : BOOLEAN]
CleanTree == [edit |-> "none", stray |-> FALSE]

(* norun: the command passes without running the failing test.  broken: it
   fails outside that test.                                                *)
Results == {"pass", "fail", "norun", "broken", "timeout"}

Bugs == {"always", "underLoad", "flaky", "gone", "harness"}

(* plan: how the failure can be run, a named test, a file that timed out or
   a build.  other: how the test of another open issue, which the patch
   changes, behaves; sameCause: what cures the one cures the other.        *)
Tasks == [kind : {"suggest", "branch"}, plan : {"none", "test", "file", "build"},
          bug : Bugs, other : Bugs \union {"none"}, sameCause : BOOLEAN]
FixPhases == {"first", "second", "looped", "loaded", "refuse", "round", "verify",
              "review", "others", "accept", "done"}
NotRun == [tree |-> CleanTree, load |-> FALSE, ran |-> FALSE]
NoCandidate == [port |-> FALSE, patch |-> CleanTree]
NotReproduced == [reproduced |-> FALSE, load |-> FALSE]

FixTypeOK ==
  /\ fixTask \in Tasks
  /\ fixPhase \in FixPhases
  /\ repro \in [reproduced : BOOLEAN, load : BOOLEAN]
  /\ round \in 1..MaxRounds
  /\ tree \in Trees
  /\ candidate \in [port : BOOLEAN, patch : Trees]
  /\ tested \in [tree : Trees, load : BOOLEAN, ran : BOOLEAN]
  /\ reviewed \in Trees
  /\ alsoFixes \in BOOLEAN
  /\ fixResult \in {"none", "accepted", "refused", "error"}

----------------------------------------------------------------------------
(* What a command can show.                                                *)

(* The failure itself, with or without every core busy.                    *)
BugResults(bug, load) ==
  {r \in {"pass", "fail", "broken"} :
     \/ bug = "always" /\ r = "fail"
     \/ bug = "underLoad" /\ r = IF load THEN "fail" ELSE "pass"
     \/ bug = "flaky" /\ r \in {"pass", "fail"}
     \/ bug = "gone" /\ r = "pass"
     \/ bug = "harness" /\ r = "broken"}

(* What the unfixed code's own build leaves is what the failed job's left;
   with a candidate, changed files may show anything.  A file counts as run
   when any test did (reproduce.ran_tests).                                *)
RunResults(t, load) ==
  {"timeout"} \union
  {r \in Results :
     \/ t.stray /\ t.edit # "none"
     \/ t.edit = "cures" /\ r = "pass"
     \/ t.edit = "skips" /\ (r = "norun" \/ (r = "pass" /\ fixTask.plan = "file"))
     \/ t.edit = "breaks" /\ r = "broken"
     \/ t.edit \in {"none", "useless"} /\ r \in BugResults(fixTask.bug, load)}

(* The other issue's named test.                                           *)
OtherResults(t, load) ==
  {"timeout"} \union
  {r \in Results :
     \/ t.stray
     \/ t.edit = "cures" /\ fixTask.sameCause /\ r = "pass"
     \/ t.edit = "skips" /\ r = "norun"
     \/ t.edit = "breaks" /\ r = "broken"
     \/ /\ t.edit \in {"none", "useless", "skips"} \/ (t.edit = "cures" /\ ~fixTask.sameCause)
        /\ r \in BugResults(fixTask.other, load)}

(* A run is a result and the tree it ran on and leaves behind.             *)
Runs(load) ==
  UNION {{[result |-> r, tree |-> t] : r \in RunResults(t, load)} :
           t \in {tree, [tree EXCEPT !.stray = TRUE]}}

Passed(r) == r \in {"pass", "norun"}
(* A build plan runs no test: its failure is the build's.                  *)
Ran(r) == fixTask.plan = "build" \/ r # "norun"
Failed(r) == r = "fail" \/ (fixTask.plan = "build" /\ r = "broken")

----------------------------------------------------------------------------
(* Reproduction.                                                           *)

FixStart(task) ==
  /\ fixTask = task
  /\ fixPhase = IF task.kind = "suggest" THEN "round"
                ELSE IF task.plan = "none" THEN "refuse" ELSE "first"
  /\ repro = NotReproduced /\ round = 1 /\ tree = CleanTree
  /\ candidate = NoCandidate /\ tested = NotRun /\ reviewed = CleanTree
  /\ alsoFixes = FALSE /\ fixResult = "none"

FixInit == \E task \in Tasks : FixStart(task)

RoundsUntouched == UNCHANGED <<fixTask, round, candidate, verdicts, fixResult>>

FirstRun ==
  /\ fixPhase = "first"
  /\ \E run \in Runs(FALSE) :
       /\ tree' = run.tree
       /\ repro' = [repro EXCEPT !.reproduced = Failed(run.result)]
       /\ fixPhase' = IF Failed(run.result)
                        THEN IF fixTask.plan = "build" THEN "round" ELSE "second"
                      ELSE IF run.result = "pass" /\ fixTask.plan # "build" THEN "looped"
                      ELSE "refuse"
  /\ RoundsUntouched

(* A second plain run tells a frequent flake from a failure of every run;
   it decides only how often the fix must pass.                            *)
SecondRun ==
  /\ fixPhase = "second"
  /\ \E run \in Runs(FALSE) : tree' = run.tree
  /\ fixPhase' = "round"
  /\ UNCHANGED repro /\ RoundsUntouched

(* The same test looped, then looped with every core busy.                 *)
LoopedRun(load) ==
  /\ fixPhase = IF load THEN "loaded" ELSE "looped"
  /\ \E run \in Runs(load) :
       /\ tree' = run.tree
       /\ repro' = [reproduced |-> Failed(run.result), load |-> Failed(run.result) /\ load]
       /\ fixPhase' = IF Failed(run.result) THEN "round"
                      ELSE IF load THEN "refuse" ELSE "loaded"
  /\ RoundsUntouched

NoTimeToLoop ==
  /\ fixPhase \in {"looped", "loaded"}
  /\ fixPhase' = "refuse"
  /\ UNCHANGED <<repro, tree>> /\ RoundsUntouched

Return(outcome) == fixPhase' = "done" /\ fixResult' = outcome

NotReproducedByCode ==
  /\ fixPhase = "refuse"
  /\ Return("refused")
  /\ UNCHANGED <<fixTask, repro, round, tree, candidate, verdicts>>

----------------------------------------------------------------------------
(* A round: the agent's session.                                           *)

SessionUntouched == UNCHANGED <<fixTask, repro, verdicts>>

(* The next candidate is judged from the start.                            *)
Anew ==
  /\ candidate' = NoCandidate /\ tested' = NotRun /\ reviewed' = CleanTree
  /\ alsoFixes' = FALSE

(* Mutant: one round too many.                                             *)
OneMoreRound ==
  /\ Anew
  /\ IF round <= MaxRounds
       THEN round' = round + 1 /\ fixPhase' = "round" /\ UNCHANGED fixResult
       ELSE Return("refused") /\ UNCHANGED round

(* The result goes back to the agent, while there are rounds left.         *)
NextRound ==
  /\ Anew
  /\ IF round < MaxRounds
       THEN round' = round + 1 /\ fixPhase' = "round" /\ UNCHANGED fixResult
       ELSE Return("refused") /\ UNCHANGED round

OutOfTime ==
  /\ fixPhase = "round" /\ round > 1
  /\ Return("error")
  /\ UNCHANGED <<round, tree, candidate>> /\ SessionUntouched

(* It refuses, names an infrastructure failure, has committed, or used its
   whole session without an answer.                                        *)
AgentRefuses ==
  /\ fixPhase = "round"
  /\ Return("refused")
  /\ UNCHANGED <<round, tree, candidate>> /\ SessionUntouched

AgentCrashes ==
  /\ fixPhase = "round"
  /\ Return("error")
  /\ UNCHANGED <<round, tree, candidate>> /\ SessionUntouched

(* What it handed back cannot be used: an undeclared change, no change, no
   diagnosis, an action its target does not take.                          *)
AgentRejected ==
  /\ fixPhase = "round"
  /\ \E e \in Edits \union {"none"} : tree' = [tree EXCEPT !.edit = e]
  /\ NextRound /\ UNCHANGED <<fixTask, repro>>

Proposed(port, t) ==
  /\ tree' = t
  /\ candidate' = [port |-> port, patch |-> t]
  /\ fixPhase' = IF fixTask.kind = "suggest" THEN "review" ELSE "verify"
  /\ UNCHANGED <<round, fixResult>>

(* Its declared paths are all that changed, so the patch is the whole tree,
   earlier rounds' edits included.                                         *)
AgentPatches ==
  /\ fixPhase = "round"
  /\ \E e \in Edits : Proposed(FALSE, [tree EXCEPT !.edit = e])
  /\ SessionUntouched

(* git may fail to undo what is in the tree; that is only logged.          *)
Restored == {CleanTree, tree}

(* A port is cherry-picked into a tree that must hold nothing else.        *)
PortBase == IF round > 1 THEN Restored ELSE {tree}

AgentPorts ==
  /\ fixPhase = "round" /\ fixTask.kind = "branch"
  /\ CleanTree \in PortBase
  /\ \E e \in Edits : Proposed(TRUE, [CleanTree EXCEPT !.edit = e])
  /\ SessionUntouched

PortNotApplied ==
  /\ fixPhase = "round" /\ fixTask.kind = "branch"
  /\ tree' \in PortBase \union {[tree EXCEPT !.stray = TRUE]}
  /\ NextRound /\ UNCHANGED <<fixTask, repro>>

----------------------------------------------------------------------------
(* A round: verification and review.                                       *)

(* What every way out of a round does to the tree.                         *)
LeftTrees(t) == IF candidate.port THEN {CleanTree, t} ELSE {t}

(* Mutant: the fix is verified without the load that showed the failure.   *)
VerifyPlain == FALSE

VerifyLoad == repro.load

Verify ==
  /\ fixPhase = "verify"
  /\ \E run \in Runs(VerifyLoad) :
       \/ /\ Passed(run.result) /\ Ran(run.result)
          /\ tree' = run.tree
          /\ tested' = [tree |-> run.tree, load |-> VerifyLoad, ran |-> TRUE]
          /\ fixPhase' = "review"
          /\ UNCHANGED <<round, candidate, reviewed, alsoFixes, fixResult>>
       \/ /\ run.result = "timeout"
          /\ tree' \in LeftTrees(run.tree)
          /\ Return("error")
          /\ UNCHANGED <<round, candidate, verdicts>>
       \/ /\ run.result # "timeout" /\ ~(Passed(run.result) /\ Ran(run.result))
          /\ tree' \in LeftTrees(run.tree)
          /\ NextRound
  /\ UNCHANGED <<fixTask, repro>>

ReviewApproves ==
  /\ fixPhase = "review"
  /\ reviewed' = candidate.patch
  /\ fixPhase' = IF fixTask.kind = "suggest" THEN "accept" ELSE "others"
  /\ UNCHANGED <<fixTask, repro, round, tree, candidate, tested, alsoFixes, fixResult>>

ReviewRejects ==
  /\ fixPhase = "review"
  /\ tree' \in LeftTrees(tree)
  /\ NextRound
  /\ UNCHANGED <<fixTask, repro>>

(* It crashed, timed out or gave no verdict.                               *)
ReviewFails ==
  /\ fixPhase = "review"
  /\ tree' \in LeftTrees(tree)
  /\ Return("error")
  /\ UNCHANGED <<fixTask, repro, round, candidate, verdicts>>

Unpatched(t) == [t EXCEPT !.edit = "none"]

(* Mutant: it need not have passed where it failed.                        *)
ShownPlain(t, load) ==
  /\ "fail" \in OtherResults(Unpatched(t), load)
  /\ load => "pass" \in OtherResults(Unpatched(t), FALSE)
  /\ "pass" \in OtherResults(t, FALSE)

(* Its test fails without the patch and passes with it, under the load that
   it failed under.                                                        *)
ShownFixed(t, load) ==
  /\ "fail" \in OtherResults(Unpatched(t), load)
  /\ load => "pass" \in OtherResults(Unpatched(t), FALSE)
  /\ "pass" \in OtherResults(t, load)

NoOtherIssue ==
  /\ fixPhase = "others" /\ fixTask.other = "none"
  /\ fixPhase' = "accept" /\ alsoFixes' = FALSE
  /\ UNCHANGED <<fixTask, repro, round, tree, candidate, tested, reviewed, fixResult>>

(* The patch is taken out and put back for the two runs, and either may
   fail, on what a run wrote as well.  Without time it was not shown.      *)
OtherIssues ==
  /\ fixPhase = "others" /\ fixTask.other # "none"
  /\ \/ /\ tree' \in {tree, [tree EXCEPT !.stray = TRUE]}
        /\ alsoFixes' \in BOOLEAN
        /\ alsoFixes' => \E load \in BOOLEAN : ShownFixed(tree', load)
        /\ fixPhase' = "accept" /\ UNCHANGED fixResult
     \/ /\ tree' \in LeftTrees(tree) \union LeftTrees([tree EXCEPT !.stray = TRUE])
        /\ Return("error") /\ UNCHANGED alsoFixes
  /\ UNCHANGED <<fixTask, repro, round, candidate, tested, reviewed>>

(* Mutant: the tree is not looked at again.                                *)
AnyTree == TRUE

SameTree == tree = candidate.patch

Accept ==
  /\ fixPhase = "accept" /\ SameTree
  /\ tree' \in LeftTrees(tree)
  /\ Return("accepted")
  /\ UNCHANGED <<fixTask, repro, round, candidate, verdicts>>

TreeChanged ==
  /\ fixPhase = "accept" /\ ~SameTree
  /\ tree' \in LeftTrees(tree)
  /\ NextRound
  /\ UNCHANGED <<fixTask, repro>>

----------------------------------------------------------------------------
Reproduce == FirstRun \/ SecondRun \/ NoTimeToLoop \/ NotReproducedByCode
             \/ \E load \in BOOLEAN : LoopedRun(load)
Session == OutOfTime \/ AgentRefuses \/ AgentCrashes \/ AgentRejected \/ AgentPatches
           \/ AgentPorts \/ PortNotApplied
Judge == Verify \/ ReviewApproves \/ ReviewRejects \/ ReviewFails \/ NoOtherIssue
         \/ OtherIssues \/ Accept \/ TreeChanged

FixNext == Reproduce \/ Session \/ Judge
FixSpec == FixInit /\ [][FixNext]_fixVars

----------------------------------------------------------------------------
(* The patch or port that is handed on for publication is, to the byte, the
   one the reproduction passed on and the reviewer approved, and it was run
   under the load the failure needed (engine._fix_loop): builds, tests and
   other issues' runs in between did not change it.  For a branch the
   failure was reproduced first: engine._reproduction_refusal ends every
   other task, where docs/ci-fix.md ("How the fix is tested") lets it be
   fixed from the log as unproven.                                         *)
AcceptedAsTested ==
  fixResult = "accepted" =>
    /\ reviewed = candidate.patch
    /\ fixTask.kind = "branch" =>
         /\ repro.reproduced
         /\ tested = [tree |-> candidate.patch, load |-> repro.load, ran |-> TRUE]

(* A change that leaves a failure of every run, or of every run under load,
   or that only hides the test, is never accepted for a branch, whatever the
   agent and the reviewer say (engine._verify_with_plan).  A tree that a
   command wrote to, a build without its tests and a file that timed out
   show less; only the reviewer judges those.                              *)
AcceptedCures ==
  (/\ fixResult = "accepted" /\ ~candidate.patch.stray
   /\ fixTask.kind = "branch" /\ fixTask.plan = "test"
   /\ fixTask.bug \in {"always", "underLoad"})
  => candidate.patch.edit = "cures"

(* A draft closes another issue only if that failure was there without the
   patch and, when it is one of every run or of every run under load, the
   patch cures it too: its test was run with the patch taken out of the tree
   and put back, and under the load it failed under ("Only then may the
   draft PR say it fixes it", engine.other_issues_fixed).                  *)
ClosesOnlyFixed ==
  (fixResult = "accepted" /\ alsoFixes /\ ~candidate.patch.stray) =>
    /\ fixTask.other \in {"always", "underLoad", "flaky"}
    /\ fixTask.other # "flaky" => candidate.patch.edit = "cures" /\ fixTask.sameCause
=============================================================================
