-------------------------- MODULE MCBackportSweep --------------------------
(***************************************************************************)
(* The instances TLC checks, and what the repository's documents and       *)
(* comments say that the code does not keep.                               *)
(***************************************************************************)
EXTENDS BackportSweep

(* "The sweep branch is always green" (sweep_prs.py): what a sweep publishes
   has passed validation as a whole, or was on the branch already.         *)
AlwaysGreen == [][Publishes => job.validated \/ job.head = remote]_vars

(* mark-done moves to Done what is "genuinely on target_branch"
   (mark_done.py).                                                         *)
DoneImpliesLanded == \A p \in Prs : board[p] = "done" => p \in target.content

(* "Self-healing reconcile": every item that is on the release branch is
   marked Done in the end (mark_done.py).                                  *)
SelfHealing ==
  \A p \in Prs : (board[p] = "todo" /\ p \in target.content) ~> board[p] # "todo"
=============================================================================
