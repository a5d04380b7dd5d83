------------------------- MODULE CandidatePipeline -------------------------
(***************************************************************************)
(* How a sweep prepares its branch: candidate after candidate is           *)
(* cherry-picked in one work tree, its conflicts are resolved, its         *)
(* generated files are renewed, it is validated, repaired and validated    *)
(* again, and what does not pass is taken out before the next one starts   *)
(* (sweep.py, candidate_apply.py, conflict_resolver.py,                    *)
(* missing_test_adaptation.py, sweep_validation.py).                       *)
(*                                                                         *)
(* One program runs here, with git, the build and an AI agent as its       *)
(* environment: they may answer anything, at every call.  A step below is  *)
(* what the program does between two such answers.  What can go wrong is   *)
(* that a candidate, at whatever point it fails, leaves something behind   *)
(* for the next one or on the branch.                                      *)
(***************************************************************************)
EXTENDS Naturals, Sequences, FiniteSets

CONSTANTS
  Prs,          \* the candidates, numbered in the order of their merge
  Known,        \* those on the sweep branch or the release branch already
  Hunks,        \* what a source PR is made of
  MaxApplied,   \* --max-candidates; 0 means no cap
  MaxConflicts, \* max_conflicting_files
  Repairs,      \* repair_validation_failures
  MaxFaults     \* bound: git commands that fail for no reason of the candidate

ASSUME PrsAssumption == Prs \subseteq Nat \ {0} /\ IsFiniteSet(Prs) /\ Known \subseteq Prs
ASSUME BoundsAssumption ==
  {MaxApplied, MaxConflicts, MaxFaults} \subseteq Nat /\ Repairs \in BOOLEAN

INSTANCE SourcePlan

VARIABLES
  at,      \* where the program is
  todo,    \* the candidates not looked at
  plan,    \* the source plan of each candidate
  tree,    \* the work tree
  cand,    \* what the calls for the current candidate hold
  result,  \* the outcome of each candidate
  sha,     \* resolved_commit_sha of each candidate
  made,    \* the number of commits made, which numbers them
  green,   \* the commits that a complete validation passed on
  faults   \* how much of the bound has been used

vars == <<at, todo, plan, tree, cand, result, sha, made, green, faults>>
book == <<todo, plan, result, sha>>

(***************************************************************************)
(* A commit: its id, the source PR, whether it is the pick, a repair or a  *)
(* test adaptation, whether it has the Backport-Source-PR trailer, the     *)
(* hunks it was picked for, and whether it has conflict markers.           *)
(***************************************************************************)
Commits == [id : Nat, pr : Nat, kind : {"pick", "repair", "adapt"}, named : BOOLEAN,
            change : Trees, marked : BOOLEAN]

(* The branch as cloned and rebased, with the pick of an earlier sweep. *)
Earlier == <<[id |-> 0, pr |-> 0, kind |-> "pick", named |-> TRUE, change |-> {},
              marked |-> FALSE]>>

(* One conflicting file of each kind that the code tells apart: differing in
   whitespace only, text, binary, a test or a source the branch lacks.     *)
Kinds == {"space", "text", "binary", "test", "source"}

(* Untracked files: of builds, and stray ones of an agent. *)
Files == {"artifact", "stray"}

(* The work tree: the commits up to HEAD, whether a cherry-pick is in
   progress, whether tracked files differ from HEAD, the files that hold
   conflict markers, and the untracked files.                              *)
WorkTrees == [head : Seq(Commits), picking : BOOLEAN, dirty : BOOLEAN,
              marked : SUBSET Kinds, files : SUBSET Files]

Applying == {"pick", "inspect", "resolve", "retry", "stage", "continue", "empty",
             "refused", "trailer", "rollback", "recover"}
Validating == {"generate", "validate", "repair", "revalidate", "adapt", "validate_adapted",
               "regenerate", "final", "reject", "accept"}
Points == Applying \union Validating \union {"plan", "next", "done", "failed"}

Outcomes == {"none", "known", "applied", "existing", "conflict", "invalid", "error"}

(* pr, start = pre_candidate_head and starting_head, saved = the untracked
   files at the start, dropped = target-missing tests were removed, outcome
   = what a rollback will report; then, of the validation: preRepair, mark =
   the adaptation's starting head, partial, unmapped, repaired = it has
   resolutions, amended = amended_commit_sha.                              *)
Candidates ==
  [pr : Nat, start : Seq(Commits), saved : SUBSET Files, dropped : BOOLEAN,
   outcome : Outcomes, preRepair : Seq(Commits), mark : Seq(Commits),
   partial : BOOLEAN, unmapped : BOOLEAN, repaired : BOOLEAN, amended : Nat]

(* Mutant: the head to go back to is read once, before the loop. *)
FreshFromClone(p) ==
  [pr |-> p, start |-> SubSeq(tree.head, 1, 1), saved |-> tree.files, dropped |-> FALSE,
   outcome |-> "none", preRepair |-> tree.head, mark |-> tree.head,
   partial |-> FALSE, unmapped |-> FALSE, repaired |-> FALSE, amended |-> 0]

Fresh(p) ==
  [pr |-> p, start |-> tree.head, saved |-> tree.files, dropped |-> FALSE,
   outcome |-> "none", preRepair |-> tree.head, mark |-> tree.head,
   partial |-> FALSE, unmapped |-> FALSE, repaired |-> FALSE, amended |-> 0]

Plans == [strategy : {"refused", "single", "squash", "merge"}, change : Trees, whole : Trees]

TypeOK ==
  /\ at \in Points
  /\ todo \in SUBSET Prs
  /\ plan \in [Prs -> Plans]
  /\ tree \in WorkTrees
  /\ cand \in Candidates
  /\ result \in [Prs -> Outcomes]
  /\ sha \in [Prs -> Nat]
  /\ made \in Nat
  /\ green \in SUBSET Nat
  /\ faults \in Nat

NoCandidate ==
  [pr |-> 0, start |-> Earlier, saved |-> {}, dropped |-> FALSE,
   outcome |-> "none", preRepair |-> Earlier, mark |-> Earlier,
   partial |-> FALSE, unmapped |-> FALSE, repaired |-> FALSE, amended |-> 0]

Init ==
  /\ at = "plan"
  /\ todo = Prs
  /\ plan = [p \in Prs |-> Refused]
  /\ tree = [head |-> Earlier, picking |-> FALSE, dirty |-> FALSE, marked |-> {}, files |-> {}]
  /\ cand = NoCandidate
  /\ result = [p \in Prs |-> "none"]
  /\ sha = [p \in Prs |-> 0]
  /\ made = 0
  /\ green = {0}
  /\ faults = 0

-----------------------------------------------------------------------------
(* The loop over the candidates *)

(* Every plan is made while the token is at hand; a fetch may fail. *)
PreparePlans ==
  /\ at = "plan"
  /\ at' = "next"
  /\ plan' \in [Prs -> {PlanOf(h) : h \in Histories} \union {Refused}]
  /\ \A p \in Known : plan'[p] = Refused
  /\ UNCHANGED <<todo, tree, cand, result, sha, made, green, faults>>

(* The clone, the rebase or the setup commands fail. *)
SetupFails ==
  /\ at = "plan"
  /\ at' = "failed"
  /\ UNCHANGED <<book, tree, cand, made, green, faults>>

Applied == {p \in Prs : result[p] = "applied"}
CapReached == MaxApplied > 0 /\ Cardinality(Applied) >= MaxApplied

IsNext(p) == p \in todo /\ \A q \in todo : p <= q

(* A candidate ends with an outcome and the loop goes on. *)
Settle(p, outcome) ==
  /\ at' = "next"
  /\ todo' = todo \ {p}
  /\ result' = [result EXCEPT ![p] = outcome]

SkipKnown(p) ==
  /\ at = "next" /\ ~CapReached /\ IsNext(p)
  /\ p \in Known
  /\ Settle(p, "known")
  /\ UNCHANGED <<plan, sha, tree, cand, made, green, faults>>

(* Mutant: it breaks out of the loop. *)
StopAtUnplanned(p) ==
  /\ at = "next" /\ ~CapReached /\ IsNext(p)
  /\ p \notin Known /\ plan[p].strategy = "refused"
  /\ at' = "done"
  /\ todo' = todo \ {p}
  /\ result' = [result EXCEPT ![p] = "error"]
  /\ UNCHANGED <<plan, sha, tree, cand, made, green, faults>>

SkipUnplanned(p) ==
  /\ at = "next" /\ ~CapReached /\ IsNext(p)
  /\ p \notin Known /\ plan[p].strategy = "refused"
  /\ Settle(p, "error")
  /\ UNCHANGED <<plan, sha, tree, cand, made, green, faults>>

StartCandidate(p) ==
  /\ at = "next" /\ ~CapReached /\ IsNext(p)
  /\ p \notin Known /\ plan[p].strategy # "refused"
  /\ at' = "pick"
  /\ cand' = Fresh(p)
  /\ UNCHANGED <<book, tree, made, green, faults>>

Finish ==
  /\ at = "next"
  /\ CapReached \/ todo = {}
  /\ at' = "done"
  /\ UNCHANGED <<book, tree, cand, made, green, faults>>

Fault == faults < MaxFaults /\ faults' = faults + 1

Goto(point) == at' = point /\ UNCHANGED <<book, made, green>>

-----------------------------------------------------------------------------
(* apply_candidate: cherry-pick *)

NewCommit(kind, change, marked) ==
  [id |-> made + 1, pr |-> cand.pr, kind |-> kind, named |-> FALSE, change |-> change,
   marked |-> marked]

Committed(commit) ==
  [tree EXCEPT !.head = Append(@, commit), !.picking = FALSE, !.dirty = FALSE, !.marked = {}]

(* git commit --amend: HEAD is replaced by a new commit. *)
Rewritten(commit) == [commit EXCEPT !.id = made + 1]
Titled(commit) == [commit EXCEPT !.id = made + 1, !.named = TRUE]

Amended(head) == [head EXCEPT ![Len(head)] = Rewritten(@)]
WithTrailer(head) == [head EXCEPT ![Len(head)] = Titled(@)]

(* git reset --hard; it ends a cherry-pick and keeps untracked files. *)
ResetTo(t, head) == [t EXCEPT !.head = head, !.picking = FALSE, !.dirty = FALSE, !.marked = {}]

Change == plan[cand.pr].change

PickClean ==
  /\ at = "pick" /\ Change # {}
  /\ tree' = Committed(NewCommit("pick", Change, FALSE))
  /\ made' = made + 1
  /\ at' = "trailer"
  /\ UNCHANGED <<book, cand, green, faults>>

PickIsEmpty ==
  /\ at = "pick"
  /\ tree' = [tree EXCEPT !.picking = TRUE]
  /\ Goto("empty")
  /\ UNCHANGED <<cand, faults>>

(* No conflict, no empty pick: an untracked file is in the way, say. *)
PickIsRefused ==
  /\ at = "pick"
  /\ tree.files # {} \/ faults < MaxFaults
  /\ faults' = IF tree.files # {} THEN faults ELSE faults + 1
  /\ Goto("refused")
  /\ UNCHANGED <<tree, cand>>

PickConflicts(files) ==
  /\ at = "pick" /\ Change # {} /\ files # {}
  /\ tree' = [tree EXCEPT !.picking = TRUE, !.dirty = TRUE, !.marked = files]
  /\ Goto("inspect")
  /\ UNCHANGED <<cand, faults>>

-----------------------------------------------------------------------------
(* apply_candidate: conflicts *)

(* Mutant: binaries and missing sources are not told apart. *)
RefusesTooMany(files) == Cardinality(files) > MaxConflicts

Refuses(files) ==
  \/ files \intersect {"binary", "source"} # {}
  \/ Cardinality(files) > MaxConflicts

RollBackWith(outcome) == Goto("rollback") /\ cand' = [cand EXCEPT !.outcome = outcome]

RefuseConflicts ==
  /\ at = "inspect" /\ Refuses(tree.marked)
  /\ RollBackWith("conflict")
  /\ UNCHANGED <<tree, faults>>

DropMissingTests ==
  /\ at = "inspect" /\ ~Refuses(tree.marked)
  /\ tree' = [tree EXCEPT !.marked = @ \ {"test"}]
  /\ cand' = [cand EXCEPT !.dropped = "test" \in tree.marked]
  /\ Goto("resolve")
  /\ UNCHANGED faults

(* Whitespace is resolved without the agent. *)
AgentNeeded == "text" \in tree.marked

ResolveByRule ==
  /\ at = "resolve" /\ ~AgentNeeded
  /\ tree' = [tree EXCEPT !.marked = @ \ {"space"}]
  /\ Goto("stage")
  /\ UNCHANGED <<cand, faults>>

AgentResolves ==
  /\ at \in {"resolve", "retry"} /\ AgentNeeded
  /\ tree' = [tree EXCEPT !.marked = @ \ {"space", "text"}]
  /\ Goto("stage")
  /\ UNCHANGED <<cand, faults>>

(* Markers are left: the agent is asked once more, and only once. *)
AgentLeavesMarkers ==
  /\ at = "resolve" /\ AgentNeeded
  /\ Goto("retry")
  /\ UNCHANGED <<tree, cand, faults>>

(* It fails, changes nothing, leaves markers again or edits what it may not;
   it may run commands, and so it may create files.                        *)
AgentFailsToResolve ==
  /\ at \in {"resolve", "retry"} /\ AgentNeeded
  /\ RollBackWith("conflict")
  /\ \E files \in {{}, {"stray"}} : tree' = [tree EXCEPT !.files = @ \union files]
  /\ UNCHANGED faults

(* The tests that the branch lacks are ported to tests that it has, in a copy
   of the tree from which only valid edits are imported.                   *)
MissingTestsNotPorted ==
  /\ at = "stage" /\ cand.dropped
  /\ RollBackWith("conflict")
  /\ UNCHANGED <<tree, faults>>

StageResolution ==
  /\ at = "stage"
  /\ at' \in {"continue", "empty"}
  /\ UNCHANGED <<book, tree, cand, made, green, faults>>

ContinuePick ==
  /\ at = "continue"
  /\ tree' = Committed(NewCommit("pick", Change, tree.marked # {}))
  /\ made' = made + 1
  /\ at' = "trailer"
  /\ UNCHANGED <<book, cand, green, faults>>

ContinueFindsNothing ==
  /\ at = "continue"
  /\ Goto("empty")
  /\ UNCHANGED <<tree, cand, faults>>

ContinueFails ==
  /\ at = "continue" /\ Fault
  /\ RollBackWith("conflict")
  /\ UNCHANGED tree

(* _abort_cherry_pick: abort, or else reset to HEAD. *)
AbortEmptyPick ==
  /\ at = "empty"
  /\ tree' = ResetTo(tree, tree.head)
  /\ Settle(cand.pr, "existing")
  /\ UNCHANGED <<plan, sha, cand, made, green, faults>>

AbortFails ==
  /\ at = "empty" /\ Fault
  /\ RollBackWith("error")
  /\ UNCHANGED tree

AbortRefusedPick ==
  /\ at = "refused"
  /\ tree' = ResetTo(tree, cand.start)
  /\ Settle(cand.pr, "error")
  /\ UNCHANGED <<plan, sha, cand, made, green, faults>>

(* The pick gets its trailer; only then has the candidate been applied. *)
AddTrailer ==
  /\ at = "trailer"
  /\ tree' = [tree EXCEPT !.head = WithTrailer(@)]
  /\ made' = made + 1
  /\ sha' = [sha EXCEPT ![cand.pr] = made + 1]
  /\ at' = "generate"
  /\ UNCHANGED <<todo, plan, result, cand, green, faults>>

-----------------------------------------------------------------------------
(* apply_candidate: failure *)

(* Mutant: a hard reset keeps the untracked files. *)
ResetOnly == ResetTo(tree, cand.start)

RolledBack == [ResetTo(tree, cand.start) EXCEPT !.files = cand.saved]

RollBack ==
  /\ at = "rollback"
  /\ tree' = RolledBack
  /\ Settle(cand.pr, cand.outcome)
  /\ UNCHANGED <<plan, sha, cand, made, green, faults>>

(* The reset may have happened when a later command of the rollback fails. *)
HalfRolledBack == tree' \in {tree, ResetTo(tree, cand.start)}

RollBackFails ==
  /\ at = "rollback" /\ Fault
  /\ HalfRolledBack
  /\ Goto("recover")
  /\ UNCHANGED cand

(* Any other call that raises. *)
ApplyRaises ==
  /\ at \in Applying \ {"rollback", "recover"} /\ Fault
  /\ Goto("recover")
  /\ UNCHANGED <<tree, cand>>

Recover ==
  /\ at = "recover"
  /\ tree' = RolledBack
  /\ Settle(cand.pr, "error")
  /\ UNCHANGED <<plan, sha, cand, made, green, faults>>

(* worktree_restored = False: the whole preparation is given up. *)
RecoverFails ==
  /\ at = "recover" /\ Fault
  /\ HalfRolledBack
  /\ Goto("failed")
  /\ UNCHANGED cand

-----------------------------------------------------------------------------
(* validate_branch_with_optional_repair *)

(* Generated files are folded into HEAD; a second run must change nothing. *)
FoldGenerated == tree' = [tree EXCEPT !.head = Amended(@)] /\ made' = made + 1

GenerateNothing ==
  /\ at \in {"generate", "regenerate"}
  /\ Goto(IF at = "generate" THEN "validate" ELSE "accept")
  /\ UNCHANGED <<tree, cand, faults>>

(* Mutant: what is regenerated is not validated. *)
GenerateUnvalidated ==
  /\ at \in {"generate", "regenerate"}
  /\ FoldGenerated
  /\ cand' = [cand EXCEPT !.amended = made + 1]
  /\ at' = IF at = "generate" THEN "validate" ELSE "accept"
  /\ UNCHANGED <<book, green, faults>>

GenerateAmends ==
  /\ at \in {"generate", "regenerate"}
  /\ FoldGenerated
  /\ cand' = [cand EXCEPT !.amended = made + 1]
  /\ at' = IF at = "generate" THEN "validate" ELSE "final"
  /\ UNCHANGED <<book, green, faults>>

(* A rule fails, edits what it may not or does not converge: its edits and
   all untracked files go, but not what an earlier rule has folded in.     *)
GenerateFails ==
  /\ at = "generate"
  /\ at' = "reject"
  /\ \E files \in {{}, tree.files} :
       \/ tree' = [tree EXCEPT !.files = files] /\ made' = made
       \/ tree' = [tree EXCEPT !.files = files, !.head = Amended(@)] /\ made' = made + 1
  /\ UNCHANGED <<book, cand, green, faults>>

RegenerateFails ==
  /\ at = "regenerate"
  /\ \E files \in {{}, tree.files} :
       tree' = [ResetTo(tree, cand.preRepair) EXCEPT !.files = files]
  /\ Goto("reject")
  /\ UNCHANGED <<cand, faults>>

(* A build may leave untracked files behind. *)
Builds(t) == \E files \in {tree.files, tree.files \union {"artifact"}} :
               tree' = [t EXCEPT !.files = files]

HeadId == tree.head[Len(tree.head)].id

(* The validation plan passes on HEAD. *)
Passes(point) ==
  /\ Builds(tree)
  /\ green' = green \union {HeadId}
  /\ at' = point
  /\ UNCHANGED <<book, made, faults>>

ValidationPasses == at = "validate" /\ Passes("accept") /\ UNCHANGED cand

(* It fails, perhaps for added tests that this branch has no harness for. *)
ValidationFails(unmapped) ==
  /\ at = "validate"
  /\ Builds(tree)
  /\ cand' = [cand EXCEPT !.preRepair = tree.head, !.unmapped = unmapped]
  /\ Goto(IF ~Repairs THEN "reject" ELSE IF unmapped THEN "adapt" ELSE "repair")
  /\ UNCHANGED faults

(* The agent fails, removes tests, edits files outside the diff, or has no
   idea.  It may edit files but not create any.                            *)
RepairIsRefused ==
  /\ at = "repair"
  /\ tree' = ResetTo(tree, tree.head)
  /\ Goto("adapt")
  /\ UNCHANGED <<cand, faults>>

RepairCommits ==
  /\ at = "repair"
  /\ tree' = Committed(NewCommit("repair", {}, FALSE))
  /\ made' = made + 1
  /\ at' = "revalidate"
  /\ UNCHANGED <<book, cand, green, faults>>

RepairPasses ==
  /\ at = "revalidate"
  /\ Passes("regenerate")
  /\ cand' = [cand EXCEPT !.repaired = TRUE]

Front(s) == SubSeq(s, 1, Len(s) - 1)

(* reset --hard HEAD^ *)
RepairDoesNotPass ==
  /\ at = "revalidate"
  /\ Builds(ResetTo(tree, Front(tree.head)))
  /\ Goto("adapt")
  /\ UNCHANGED <<cand, faults>>

(* Only added tests without a harness fail now.  The repair is kept until
   they are adapted, without its edits of these tests: as it is, committed
   again, or not at all when it edited nothing else.                       *)
RepairIsPartial ==
  /\ at = "revalidate"
  /\ \/ Builds(tree) /\ made' = made
     \/ Builds([tree EXCEPT !.head = Amended(@)]) /\ made' = made + 1
  /\ cand' = [cand EXCEPT !.unmapped = TRUE, !.partial = TRUE]
  /\ at' = "adapt"
  /\ UNCHANGED <<book, green, faults>>

RepairWasOfTestsOnly ==
  /\ at = "revalidate"
  /\ Builds(ResetTo(tree, Front(tree.head)))
  /\ cand' = [cand EXCEPT !.unmapped = TRUE]
  /\ Goto("adapt")
  /\ UNCHANGED faults

(* What a failed adaptation leaves: a repair kept for it goes as well. *)
WithoutPartial(head) == IF cand.partial THEN cand.preRepair ELSE head

(* Nothing to adapt, or the agent's result is unusable. *)
AdaptationIsRefused ==
  /\ at = "adapt"
  /\ tree' = ResetTo(tree, WithoutPartial(tree.head))
  /\ Goto("reject")
  /\ UNCHANGED <<cand, faults>>

AdaptationCommits ==
  /\ at = "adapt" /\ cand.unmapped
  /\ tree' = Committed(NewCommit("adapt", {}, FALSE))
  /\ cand' = [cand EXCEPT !.mark = tree.head]
  /\ made' = made + 1
  /\ at' = "validate_adapted"
  /\ UNCHANGED <<book, green, faults>>

(* Mutant: it is not reported as a resolution. *)
AdaptationUnreported == at = "validate_adapted" /\ Passes("regenerate") /\ UNCHANGED cand

AdaptationPasses ==
  /\ at = "validate_adapted"
  /\ Passes("regenerate")
  /\ cand' = [cand EXCEPT !.repaired = TRUE]

AdaptationDoesNotPass ==
  /\ at = "validate_adapted"
  /\ Builds(ResetTo(tree, WithoutPartial(cand.mark)))
  /\ Goto("reject")
  /\ UNCHANGED <<cand, faults>>

(* What was regenerated after the repair is validated once more. *)
FinalPasses == at = "final" /\ Passes("accept") /\ UNCHANGED cand

FinalDoesNotPass ==
  /\ at = "final"
  /\ Builds(ResetTo(tree, cand.preRepair))
  /\ Goto("reject")
  /\ UNCHANGED <<cand, faults>>

(* Git or the agent raises: the preparation is given up. *)
ValidationRaises ==
  /\ at \in Validating /\ Fault
  /\ Goto("failed")
  /\ UNCHANGED <<tree, cand>>

-----------------------------------------------------------------------------
(* The loop again *)

Reject ==
  /\ at = "reject"
  /\ tree' = ResetTo(tree, cand.start)
  /\ Settle(cand.pr, "invalid")
  /\ UNCHANGED <<plan, sha, cand, made, green, faults>>

(* The repair has undone the whole pick. *)
AcceptNothing ==
  /\ at = "accept" /\ (cand.repaired \/ cand.amended # 0)
  /\ tree' = ResetTo(tree, cand.start)
  /\ Settle(cand.pr, "existing")
  /\ sha' = [sha EXCEPT ![cand.pr] = 0]
  /\ UNCHANGED <<plan, cand, made, green, faults>>

(* Mutant: the amended commit is forgotten. *)
PickedSha == IF cand.repaired THEN HeadId ELSE sha[cand.pr]

ResolvedSha ==
  IF cand.repaired THEN HeadId
  ELSE IF cand.amended # 0 THEN cand.amended
  ELSE sha[cand.pr]

Accept ==
  /\ at = "accept"
  /\ Settle(cand.pr, "applied")
  /\ sha' = [sha EXCEPT ![cand.pr] = ResolvedSha]
  /\ UNCHANGED <<plan, tree, cand, made, green, faults>>

-----------------------------------------------------------------------------
Loop ==
  \/ PreparePlans \/ SetupFails \/ Finish
  \/ \E p \in Prs : SkipKnown(p) \/ SkipUnplanned(p) \/ StartCandidate(p)
  \/ Reject \/ AcceptNothing \/ Accept

Pick ==
  \/ PickClean \/ PickIsEmpty \/ PickIsRefused
  \/ \E files \in SUBSET Kinds : PickConflicts(files)

Resolve ==
  \/ RefuseConflicts \/ DropMissingTests \/ ResolveByRule \/ AgentResolves
  \/ AgentLeavesMarkers \/ AgentFailsToResolve \/ MissingTestsNotPorted \/ StageResolution
  \/ ContinuePick \/ ContinueFindsNothing \/ ContinueFails

Conclude ==
  \/ AbortEmptyPick \/ AbortFails \/ AbortRefusedPick \/ AddTrailer
  \/ RollBack \/ RollBackFails \/ ApplyRaises \/ Recover \/ RecoverFails

Validate ==
  \/ GenerateNothing \/ GenerateAmends \/ GenerateFails \/ RegenerateFails
  \/ ValidationPasses \/ (\E unmapped \in BOOLEAN : ValidationFails(unmapped))
  \/ FinalPasses \/ FinalDoesNotPass \/ ValidationRaises

Repair ==
  \/ RepairIsRefused \/ RepairCommits \/ RepairPasses \/ RepairDoesNotPass
  \/ RepairIsPartial \/ RepairWasOfTestsOnly
  \/ AdaptationIsRefused \/ AdaptationCommits \/ AdaptationPasses \/ AdaptationDoesNotPass

Next == Loop \/ Pick \/ Resolve \/ Conclude \/ Validate \/ Repair

Spec == Init /\ [][Next]_vars

-----------------------------------------------------------------------------
(* Properties *)

Settled == at \in {"next", "done"}

(* What of the work tree can be published: a preparation that is given up
   while it deals with a candidate publishes nothing.                      *)
Branch == IF Settled THEN tree.head ELSE cand.start

Of(p) == {i \in DOMAIN Branch : Branch[i].pr = p}
IsFirstOf(i, p) == i \in Of(p) /\ \A j \in Of(p) : i <= j
IsLastOf(i, p) == i \in Of(p) /\ \A j \in Of(p) : j <= i

(* What the sweep keeps of a candidate has passed: a complete validation ran
   on exactly the commit that ends it, after every repair, adaptation,
   regeneration and amendment (validate_branch_with_optional_repair).      *)
AcceptedIsValidated ==
  \A p \in Applied, i \in DOMAIN Branch : IsLastOf(i, p) => Branch[i].id \in green

(* The branch names what it carries, and the report what is on the branch:
   an applied candidate's first commit, and no other, has its trailer, and
   the SHA reported for it is its last commit, whatever was amended.       *)
AcceptedIsNamed ==
  \A p \in Prs :
    /\ (p \in Applied) <=> (Of(p) # {})
    /\ \A i \in Of(p) :
         /\ Branch[i].named <=> IsFirstOf(i, p)
         /\ IsLastOf(i, p) => sha[p] = Branch[i].id

(* Every pick is the whole change of its PR, however it was merged and
   however little of its commits the API listed (plan_source_change).      *)
WholeChangePicked ==
  \A i \in DOMAIN tree.head :
    tree.head[i].kind = "pick" /\ tree.head[i].pr # 0 =>
      tree.head[i].change = plan[tree.head[i].pr].whole

(* No commit, even one that is taken back later, has conflict markers. *)
NoConflictMarkers == \A i \in DOMAIN tree.head : ~tree.head[i].marked

(* "Apply a complete candidate, rolling back on any failure": after a
   candidate that is not applied the work tree is as it was before, except
   that a build may leave untracked files; an agent may not.  Files that
   git ignores are not looked at, here or by the code (untracked_paths).   *)
LeavesNoTrace ==
  /\ tree'.head = cand.start
  /\ ~tree'.picking /\ ~tree'.dirty /\ tree'.marked = {}
  /\ tree'.files \subseteq cand.saved \union {"artifact"}
  /\ (at \in Applying) => (tree'.files = cand.saved)

RejectedLeavesNoTrace ==
  [][(at \in Applying \union Validating /\ at' = "next" /\ result'[cand.pr] # "applied")
       => LeavesNoTrace]_vars

(* "one bad backport never holds up the ones behind it" (docs/backport.md):
   a preparation that ends has dealt with every candidate, or it has applied
   as many as it may.                                                      *)
NobodyLeftOut ==
  at = "done" => CapReached \/ \A p \in Prs : result[p] # "none"

Ledger == INSTANCE CandidateLedger WITH branch <- Branch

(* Candidates land one at a time, whole, named and on top of what was there. *)
ImplementsLedger == Ledger!Spec

(* What the proofs of these properties rest on: where the program is says
   what is on top of the commits that the candidate started from, what has
   been validated, what is reported, and what is left in the work tree.    *)
Picking == {"pick", "inspect", "resolve", "retry", "stage", "continue", "empty", "refused"}
Working == Applying \union Validating

Extends(s, t) == Len(t) <= Len(s) /\ \A i \in DOMAIN t : s[i] = t[i]

(* s is base with the pick of p, which may have its trailer, and then other
   commits of p on top.                                                    *)
IsGroup(s, base, p, named) ==
  /\ Extends(s, base) /\ Len(base) < Len(s)
  /\ \A i \in Len(base) + 1 .. Len(s) :
       /\ s[i].pr = p
       /\ s[i].named <=> named /\ i = Len(base) + 1

CandidateOK ==
  /\ at \in Working => cand.pr \in todo
  /\ at \in Picking => tree.head = cand.start /\ tree.files = cand.saved
  /\ at = "trailer" =>
       /\ IsGroup(tree.head, cand.start, cand.pr, FALSE)
       /\ Len(tree.head) = Len(cand.start) + 1
       /\ tree.files = cand.saved
  /\ at \in Validating => tree.files \subseteq cand.saved \union {"artifact"}
  /\ at \in Validating \ {"reject"} => IsGroup(tree.head, cand.start, cand.pr, TRUE)
  /\ at = "revalidate" => Len(tree.head) > Len(cand.start) + 1
  /\ at = "rollback" => cand.outcome \in {"conflict", "error"}

(* The histories that the tree can be reset to are as good as its own. *)
HistoryOK(s) ==
  \A i \in DOMAIN s :
    /\ ~s[i].marked
    /\ s[i].pr \in Prs \union {0}
    /\ s[i].kind = "pick" /\ s[i].pr # 0 => s[i].change = plan[s[i].pr].whole

HistoriesOK ==
  /\ HistoryOK(tree.head) /\ HistoryOK(cand.start)
  /\ HistoryOK(cand.preRepair) /\ HistoryOK(cand.mark)
  /\ at \in {"resolve", "retry"} => tree.marked \subseteq {"space", "text"}
  /\ at \in {"stage", "continue"} => tree.marked = {}

ReportOK ==
  /\ at \in Picking \union {"trailer", "generate"} => ~cand.repaired /\ cand.amended = 0
  /\ at \in {"generate", "validate", "accept"} => cand.repaired \/ ResolvedSha = HeadId
  /\ at \in {"regenerate", "final"} => cand.repaired
  /\ at \in {"regenerate", "accept"} => HeadId \in green

BookOK ==
  /\ \A p \in Prs : (p \in todo) <=> (result[p] = "none")
  /\ \A p \in Prs : plan[p].change = plan[p].whole
  /\ at = "plan" => tree.head = Earlier /\ cand = NoCandidate

Inductive ==
  /\ TypeOK /\ CandidateOK /\ HistoriesOK /\ ReportOK /\ BookOK
  /\ AcceptedIsValidated /\ AcceptedIsNamed /\ NobodyLeftOut
=============================================================================
