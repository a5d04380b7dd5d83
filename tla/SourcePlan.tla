---------------------------- MODULE SourcePlan ----------------------------
(***************************************************************************)
(* Which change a merged pull request stands for (source_plan.py).         *)
(*                                                                         *)
(* GitHub reports one merge SHA, whose meaning depends on how the PR was   *)
(* merged.  A plan names exactly one commit to cherry-pick, and is refused *)
(* when that commit cannot be shown to be the whole change.                *)
(*                                                                         *)
(* The tree of a commit is a set of hunks, and a patch the hunks in which  *)
(* two trees differ: so patch identity ignores context, as patch-id with   *)
(* --unified=0 does, and "the same patch id" is the same as "applied to    *)
(* the fork point it recreates the PR's head".                             *)
(***************************************************************************)
EXTENDS Naturals, Sequences

CONSTANT Hunks

Trees == SUBSET Hunks
Methods == {"merge", "squash", "rebase", "pushed", "no_merge_sha"}

(* A merged PR: where it forked, its one or two commits, how many of them
   the API listed, the base branch before the merge and the merge method.
   A PR that was pushed by hand fast-forwards its base.                    *)
Histories ==
  {h \in [fork : Trees, commits : [{1}  -> Trees] \union [{1, 2} -> Trees],
          listed : {1, 2}, base : Trees, method : Methods] :
     /\ h.listed <= Len(h.commits)
     /\ h.method = "pushed" => h.base = h.fork}

Patch(a, b) == (a \ b) \union (b \ a)

(* tree with the change from a to b applied to it. *)
Apply(tree, a, b) == (tree \union (b \ a)) \ (a \ b)

Tip(h) == h.commits[Len(h.commits)]
Merged(h) == Apply(h.base, h.fork, Tip(h))

(* The first parent of the merge SHA: a rebase rewrites every commit, and
   the merge SHA is only the last one.                                     *)
MergeParent(h) ==
  CASE h.method = "rebase" /\ Len(h.commits) = 2 -> Apply(h.base, h.fork, h.commits[1])
    [] h.method = "pushed" /\ Len(h.commits) = 2 -> h.commits[1]
    [] OTHER -> h.base

MergeTree(h) ==
  CASE h.method = "rebase" /\ Len(h.commits) = 2 -> Apply(MergeParent(h), h.commits[1], Tip(h))
    [] OTHER -> Merged(h)

MergePatch(h) == Patch(MergeParent(h), MergeTree(h))
SourcePatch(h) == Patch(h.fork, Tip(h))

(* What the pull request did to its base branch. *)
WholeChange(h) == Patch(h.base, MergeTree(h))

(* Mutant: a listing that is cut short is believed. *)
TrustListing(h) == h.listed

(* How many source commits the plan knows: a listing that is cut short gets
   the PR's head appended (prepare_source_change).                         *)
SourceCount(h) == IF h.listed = Len(h.commits) THEN h.listed ELSE h.listed + 1

Plan(strategy, h, change) ==
  [strategy |-> strategy, change |-> change, whole |-> WholeChange(h)]

Refused == [strategy |-> "refused", change |-> {}, whole |-> {}]

PlanOf(h) ==
  CASE h.method = "no_merge_sha" ->
         IF SourceCount(h) = 1 THEN Plan("single", [h EXCEPT !.base = h.fork], SourcePatch(h))
         ELSE Refused
    [] h.method = "merge" -> Plan("merge", h, MergePatch(h))
    [] OTHER ->
         IF SourceCount(h) = 1 THEN Plan("single", h, MergePatch(h))
         ELSE IF h.method # "pushed" /\ SourcePatch(h) # {} /\ SourcePatch(h) = MergePatch(h)
              THEN Plan("squash", h, MergePatch(h))
         ELSE Refused
=============================================================================
