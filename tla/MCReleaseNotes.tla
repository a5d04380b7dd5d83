--------------------------- MODULE MCReleaseNotes ---------------------------
(***************************************************************************)
(* The release PR, before and while it is open: how a cut makes and        *)
(* publishes it, and how the comments on its notes are answered.  The two  *)
(* meet in the PR's branch only (ReleaseReview's BranchMoves is a new cut, *)
(* as a reviewer sees it), so the run takes their sum: `part` says which   *)
(* of them runs, and the other rests where it starts.                      *)
(***************************************************************************)
EXTENDS ReleaseNotes, ReleaseReview

VARIABLE part
releaseVars == <<part, notesVars, reviewVars>>

(* The first PR is labelled; the second is a backport, has no label, opts
   out, or is a commit of no PR.                                           *)
MCKindsOf(c) == IF c = 1 THEN {"labelled"} ELSE Kinds \ {"labelled"}

ReleaseInit == part \in {"notes", "review"} /\ NotesInit /\ ReviewInit
ReleaseNext ==
  /\ UNCHANGED part
  /\ \/ part = "notes" /\ NotesNext /\ UNCHANGED reviewVars
     \/ part = "review" /\ ReviewNext /\ UNCHANGED notesVars

(* ReviewFairness, for its part.                                           *)
ReleaseFairness ==
  /\ WF_reviewVars(part = "review" /\ PollSteps)
  /\ WF_reviewVars(part = "review" /\ HandlerSteps)
  /\ WF_reviewVars(part = "review" /\ \E s \in DOMAIN status : LeaseEnds(s))
ReleaseSpec == ReleaseInit /\ [][ReleaseNext]_releaseVars /\ ReleaseFairness

(* The two parts' states have their types, and their invariants hold with
   what makes them inductive: of a cut, that between its push and the update
   of its PR nobody but a person makes the PR ready; of a review, what a
   batch's status comment says of its run and of the branch.               *)
ReleaseInductive ==
  /\ part = "notes" => NotesInductive
  /\ part = "review" => ReviewInductive

(* ReleaseReview's CommentsSettled, for the behaviours of its part.        *)
CommentsAnswered == part = "review" => CommentsSettled
=============================================================================
