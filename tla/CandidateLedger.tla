-------------------------- MODULE CandidateLedger --------------------------
(***************************************************************************)
(* What the preparation of a sweep branch promises: candidates are applied *)
(* one at a time and as a whole.  A candidate is on the branch with all of *)
(* its commits, the first of which is its pick and alone names the source  *)
(* PR, or it is not there at all, and what was there before it is kept.    *)
(***************************************************************************)
EXTENDS Naturals, Sequences

CONSTANTS Prs, Earlier

VARIABLE branch  \* the commits on the branch, in order

Init == branch = Earlier

Has(p) == \E i \in DOMAIN branch : branch[i].pr = p

(* branch' is branch with the commits of p on top. *)
Land(p) ==
  /\ ~Has(p)
  /\ Len(branch) < Len(branch')
  /\ \A i \in DOMAIN branch : branch'[i] = branch[i]
  /\ \A i \in Len(branch) + 1 .. Len(branch') :
       /\ branch'[i].pr = p
       /\ branch'[i].named <=> i = Len(branch) + 1

Next == \E p \in Prs : Land(p)

Spec == Init /\ [][Next]_branch
=============================================================================
