----------------------------- MODULE RollingPR -----------------------------
(***************************************************************************)
(* What the rolling backport pull request promises to those who look at it *)
(* on GitHub: it behaves as if every push, of a sweep, of the CI fix bot   *)
(* or of a revert, were one atomic step on the branch's latest tip.  While *)
(* the PR is open nothing on the branch is lost unless the release branch  *)
(* has it by then; merging lands exactly what the branch holds.            *)
(*                                                                         *)
(* BackportSweep implements this although its jobs read, work for hours,   *)
(* and push.                                                               *)
(***************************************************************************)
EXTENDS Naturals

CONSTANTS Prs, NoTip

VARIABLES
  target,  \* the release branch
  remote,  \* the tip of the sweep branch, or NoTip
  open     \* whether a sweep PR is open

vars == <<target, remote, open>>

Tips == [base : Nat, commits : SUBSET Prs, reverted : SUBSET Prs, fixes : SUBSET Nat]

(* new keeps the fixes and reverts of old, and every pick not in landed. *)
Keeps(new, old, landed) ==
  /\ old.fixes \subseteq new.fixes
  /\ old.reverted \subseteq new.reverted
  /\ old.commits \subseteq new.commits \union landed

Init ==
  /\ target = [ver |-> 0, content |-> {}, named |-> {}]
  /\ remote = NoTip
  /\ open = FALSE

(* A commit on the release branch: it only ever adds. *)
Commit ==
  /\ target'.ver = target.ver + 1
  /\ target.content \subseteq target'.content
  /\ target.named \subseteq target'.named
  /\ UNCHANGED <<remote, open>>

(* A push to the sweep branch. *)
Contribute ==
  /\ remote' \in Tips
  /\ open => remote # NoTip /\ Keeps(remote', remote, target.content)
  /\ UNCHANGED <<target, open>>

OpenPR == ~open /\ remote # NoTip /\ open' = TRUE /\ UNCHANGED <<target, remote>>

(* Closing may delete the branch; merging lands the branch's present tip. *)
Close ==
  /\ open
  /\ open' = FALSE
  /\ remote' \in {remote, NoTip}
  /\ UNCHANGED target

Merge ==
  /\ open
  /\ open' = FALSE
  /\ remote' \in {remote, NoTip}
  /\ remote.commits \ remote.reverted \subseteq target'.content
  /\ target.named \subseteq target'.named
  /\ target'.ver = target.ver + 1

Next == Commit \/ Contribute \/ OpenPR \/ Close \/ Merge

Spec == Init /\ [][Next]_vars
=============================================================================
