---------------------- MODULE CandidatePipelineProofs ----------------------
(***************************************************************************)
(* Proofs about CandidatePipeline, for every set of candidates, of hunks   *)
(* and every bound.                                                        *)
(***************************************************************************)
EXTENDS CandidatePipeline, FiniteSetTheorems, SequenceTheorems, TLAPS

(* What recreates the PR's head when it is applied to the fork point has to
   start from the base branch: a part of a rebased PR does not.            *)
LEMMA SamePatchSameBase ==
  ASSUME NEW f, NEW c, NEW t, NEW b,
         Patch(f, t) = Patch(Apply(b, f, c), Apply(Apply(b, f, c), c, t))
  PROVE  Apply(b, f, c) = b
<1> SUFFICES ASSUME NEW x PROVE (x \in Apply(b, f, c)) <=> (x \in b)
  OBVIOUS
<1>1. (x \in Patch(f, t)) <=> (x \in Patch(Apply(b, f, c), Apply(Apply(b, f, c), c, t)))
  OBVIOUS
<1> QED BY <1>1, Zenon DEF Patch, Apply

LEMMA ApplyRecreates ==
  ASSUME NEW f, NEW t PROVE Apply(f, f, t) = t
BY Zenon DEF Apply

(* A plan picks the whole change of the pull request or is refused, whatever
   the merge method and however few of the commits are listed.             *)
THEOREM PlanIsWhole == \A h \in Histories : PlanOf(h).change = PlanOf(h).whole
<1> TAKE h \in Histories
<1>1. CASE h.method = "no_merge_sha"
  <2> DEFINE g == [h EXCEPT !.base = h.fork]
  <2>1. g.base = h.fork /\ g.fork = h.fork /\ g.commits = h.commits /\ g.method = "no_merge_sha"
    BY <1>1 DEF Histories
  <2>2. MergeTree(g) = Tip(h)
    BY <2>1, ApplyRecreates DEF MergeTree, Merged, Tip
  <2>3. WholeChange(g) = SourcePatch(h)
    BY <2>1, <2>2 DEF WholeChange, SourcePatch
  <2> HIDE DEF g
  <2>4. Plan("single", g, SourcePatch(h)).change = Plan("single", g, SourcePatch(h)).whole
    BY <2>3 DEF Plan
  <2> QED BY <1>1, <2>4 DEF PlanOf, Refused, g
<1>2. CASE h.method # "no_merge_sha"
  <2>1. SUFFICES ASSUME \/ h.method = "merge"
                        \/ h.method # "merge" /\ SourceCount(h) = 1
                        \/ h.method \notin {"merge", "pushed"} /\ SourcePatch(h) = MergePatch(h)
                 PROVE  MergePatch(h) = WholeChange(h)
    BY <1>2 DEF PlanOf, Plan, Refused
  <2>2. CASE MergeParent(h) = h.base
    BY <2>2 DEF MergePatch, WholeChange
  <2>3. CASE Len(h.commits) = 2 /\ h.method = "rebase" /\ SourcePatch(h) = MergePatch(h)
    <3>1. MergeParent(h) = Apply(h.base, h.fork, h.commits[1])
      BY <2>3 DEF MergeParent
    <3>2. MergeTree(h) = Apply(MergeParent(h), h.commits[1], Tip(h))
      BY <2>3 DEF MergeTree
    <3>3. Apply(h.base, h.fork, h.commits[1]) = h.base
      BY <2>3, <3>1, <3>2, SamePatchSameBase DEF SourcePatch, MergePatch
    <3> QED BY <2>2, <3>1, <3>3
  <2>4. CASE SourceCount(h) = 1
    <3>1. h.listed \in {1, 2} /\ h.listed <= Len(h.commits)
      BY DEF Histories
    <3>2. Len(h.commits) # 2
      BY <2>4, <3>1 DEF SourceCount
    <3> QED BY <2>2, <3>2 DEF MergeParent
  <2>5. CASE h.method = "merge"
    BY <2>2, <2>5 DEF MergeParent
  <2>6. CASE h.method = "squash"
    BY <2>2, <2>6 DEF MergeParent
  <2> QED BY <1>2, <2>1, <2>2, <2>3, <2>4, <2>5, <2>6 DEF MergeParent, Histories, Methods
<1> QED BY <1>1, <1>2

-----------------------------------------------------------------------------
(* The histories that the steps make *)

LEMMA AppendHistory ==
  ASSUME NEW s \in Seq(Commits), NEW c \in Commits
  PROVE  /\ Append(s, c) \in Seq(Commits)
         /\ Len(Append(s, c)) = Len(s) + 1
         /\ Append(s, c)[Len(s) + 1] = c
         /\ \A i \in 1..Len(s) : Append(s, c)[i] = s[i]
OBVIOUS

LEMMA AmendedCommit ==
  ASSUME made \in Nat, NEW c \in Commits
  PROVE  /\ Rewritten(c) \in Commits /\ Rewritten(c).id = made + 1
         /\ Rewritten(c).pr = c.pr /\ Rewritten(c).named = c.named
         /\ Rewritten(c).kind = c.kind /\ Rewritten(c).change = c.change
         /\ Rewritten(c).marked = c.marked
BY DEF Commits, Rewritten

LEMMA TitledCommit ==
  ASSUME made \in Nat, NEW c \in Commits
  PROVE  /\ Titled(c) \in Commits /\ Titled(c).id = made + 1
         /\ Titled(c).pr = c.pr /\ Titled(c).named = TRUE
         /\ Titled(c).kind = c.kind /\ Titled(c).change = c.change
         /\ Titled(c).marked = c.marked
<1>1. Titled(c) = [Rewritten(c) EXCEPT !.named = TRUE]
  BY DEF Titled, Rewritten
<1>2. ASSUME NEW r \in Commits
      PROVE  /\ [r EXCEPT !.named = TRUE] \in Commits /\ [r EXCEPT !.named = TRUE].id = r.id
             /\ [r EXCEPT !.named = TRUE].pr = r.pr /\ [r EXCEPT !.named = TRUE].named = TRUE
             /\ [r EXCEPT !.named = TRUE].kind = r.kind
             /\ [r EXCEPT !.named = TRUE].change = r.change
             /\ [r EXCEPT !.named = TRUE].marked = r.marked
  BY DEF Commits
<1> QED BY <1>1, <1>2, AmendedCommit

LEMMA AmendHistory ==
  ASSUME NEW s \in Seq(Commits), Len(s) > 0, made \in Nat
  PROVE  /\ Amended(s) \in Seq(Commits)
         /\ Len(Amended(s)) = Len(s)
         /\ \A i \in 1..Len(s) - 1 : Amended(s)[i] = s[i]
         /\ Amended(s)[Len(s)] = Rewritten(s[Len(s)])
<1>1. Len(s) \in 1..Len(s) /\ s[Len(s)] \in Commits
  OBVIOUS
<1>2. Rewritten(s[Len(s)]) \in Commits
  BY <1>1, AmendedCommit
<1> QED BY <1>1, <1>2, ExceptSeq DEF Amended

LEMMA TrailerHistory ==
  ASSUME NEW s \in Seq(Commits), Len(s) > 0, made \in Nat
  PROVE  /\ WithTrailer(s) \in Seq(Commits)
         /\ Len(WithTrailer(s)) = Len(s)
         /\ \A i \in 1..Len(s) - 1 : WithTrailer(s)[i] = s[i]
         /\ WithTrailer(s)[Len(s)] = Titled(s[Len(s)])
<1>1. Len(s) \in 1..Len(s) /\ s[Len(s)] \in Commits
  OBVIOUS
<1>2. Titled(s[Len(s)]) \in Commits
  BY <1>1, TitledCommit
<1> QED BY <1>1, <1>2, ExceptSeq DEF WithTrailer

LEMMA FrontHistory ==
  ASSUME NEW s \in Seq(Commits), Len(s) > 1
  PROVE  /\ Front(s) \in Seq(Commits)
         /\ Len(Front(s)) = Len(s) - 1
         /\ \A i \in 1..Len(s) - 1 : Front(s)[i] = s[i]
BY DEF Front

LEMMA GroupIsLonger ==
  ASSUME NEW s \in Seq(Commits), NEW base \in Seq(Commits), NEW p, NEW named \in BOOLEAN,
         IsGroup(s, base, p, named)
  PROVE  Len(s) \in Nat /\ Len(s) > 0 /\ Len(base) \in Nat
BY DEF IsGroup

LEMMA PickIsGroup ==
  ASSUME NEW base \in Seq(Commits), NEW c \in Commits, ~c.named
  PROVE  IsGroup(Append(base, c), base, c.pr, FALSE)
BY AppendHistory DEF IsGroup, Extends

LEMMA TrailerKeepsGroup ==
  ASSUME NEW s \in Seq(Commits), NEW base \in Seq(Commits), NEW p,
         IsGroup(s, base, p, FALSE), Len(s) = Len(base) + 1, made \in Nat
  PROVE  IsGroup(WithTrailer(s), base, p, TRUE)
<1>1. /\ Len(base) \in Nat /\ Len(s) > 0 /\ Len(s) - 1 = Len(base)
      /\ DOMAIN base = 1..Len(base) /\ s[Len(s)] \in Commits
  OBVIOUS
<1>2. Len(WithTrailer(s)) = Len(s) /\ \A i \in 1..Len(s) - 1 : WithTrailer(s)[i] = s[i]
  BY <1>1, TrailerHistory
<1>3. WithTrailer(s)[Len(s)].named = TRUE /\ WithTrailer(s)[Len(s)].pr = s[Len(s)].pr
  BY <1>1, TrailerHistory, TitledCommit
<1> QED BY <1>1, <1>2, <1>3 DEF IsGroup, Extends

LEMMA AmendKeepsGroup ==
  ASSUME NEW s \in Seq(Commits), NEW base \in Seq(Commits), NEW p,
         IsGroup(s, base, p, TRUE), made \in Nat
  PROVE  IsGroup(Amended(s), base, p, TRUE)
<1>1. Len(base) \in Nat /\ Len(s) \in Nat /\ Len(base) < Len(s)
  BY DEF IsGroup
<1>2. Len(s) > 0 /\ s[Len(s)] \in Commits /\ DOMAIN base = 1..Len(base)
  BY <1>1
<1>3. Len(Amended(s)) = Len(s) /\ \A i \in 1..Len(s) - 1 : Amended(s)[i] = s[i]
  BY <1>2, AmendHistory
<1>4. Amended(s)[Len(s)].named = s[Len(s)].named /\ Amended(s)[Len(s)].pr = s[Len(s)].pr
  BY <1>2, AmendHistory, AmendedCommit
<1>5. Extends(Amended(s), base)
  BY <1>1, <1>2, <1>3 DEF IsGroup, Extends
<1>6. ASSUME NEW i \in Len(base) + 1 .. Len(s)
      PROVE  Amended(s)[i].pr = p /\ (Amended(s)[i].named <=> i = Len(base) + 1)
  <2>1. s[i].pr = p /\ (s[i].named <=> i = Len(base) + 1)
    BY DEF IsGroup
  <2>2. CASE i = Len(s)
    BY <2>1, <2>2, <1>4
  <2>3. CASE i # Len(s)
    BY <2>1, <2>3, <1>1, <1>3
  <2> QED BY <2>2, <2>3
<1> QED BY <1>1, <1>3, <1>5, <1>6 DEF IsGroup

LEMMA AppendKeepsGroup ==
  ASSUME NEW s \in Seq(Commits), NEW base \in Seq(Commits), NEW p, NEW c \in Commits,
         IsGroup(s, base, p, TRUE), c.pr = p, ~c.named
  PROVE  IsGroup(Append(s, c), base, p, TRUE)
BY SMTT(30), AppendHistory DEF IsGroup, Extends

LEMMA FrontKeepsGroup ==
  ASSUME NEW s \in Seq(Commits), NEW base \in Seq(Commits), NEW p,
         IsGroup(s, base, p, TRUE), Len(s) > Len(base) + 1
  PROVE  IsGroup(Front(s), base, p, TRUE)
<1>1. Len(base) \in Nat /\ Len(s) \in Nat /\ Len(s) > 1 /\ DOMAIN base = 1..Len(base)
  OBVIOUS
<1>2. Len(Front(s)) = Len(s) - 1 /\ \A i \in 1..Len(s) - 1 : Front(s)[i] = s[i]
  BY <1>1, FrontHistory
<1> QED BY <1>1, <1>2 DEF IsGroup, Extends

LEMMA HistoryKept ==
  ASSUME NEW s \in Seq(Commits), HistoryOK(s), made \in Nat
  PROVE  /\ \A c \in Commits : HistoryOK(<<c>>) => HistoryOK(Append(s, c))
         /\ Len(s) > 0 => HistoryOK(Amended(s)) /\ HistoryOK(WithTrailer(s))
         /\ Len(s) > 1 => HistoryOK(Front(s))
<1>1. ASSUME NEW c \in Commits, HistoryOK(<<c>>) PROVE HistoryOK(Append(s, c))
  BY <1>1, AppendHistory DEF HistoryOK
<1>2. ASSUME NEW t \in Seq(Commits), Len(s) > 0, Len(t) = Len(s),
             \A i \in 1..Len(s) - 1 : t[i] = s[i],
             \/ t[Len(s)] = Rewritten(s[Len(s)])
             \/ t[Len(s)] = Titled(s[Len(s)])
      PROVE  HistoryOK(t)
  <2>1. s[Len(s)] \in Commits /\ Len(s) \in Nat
    BY <1>2
  <2> DEFINE c == s[Len(s)]
             d == t[Len(s)]
  <2>2. d.marked = c.marked /\ d.pr = c.pr /\ d.kind = c.kind /\ d.change = c.change
    <3>1. CASE d = Rewritten(c)
      BY <2>1, <3>1, AmendedCommit
    <3>2. CASE d = Titled(c)
      BY <2>1, <3>2, TitledCommit
    <3> QED BY <1>2, <3>1, <3>2
  <2> QED BY <1>2, <2>1, <2>2 DEF HistoryOK
<1>3. ASSUME Len(s) > 1 PROVE HistoryOK(Front(s))
  BY <1>3, FrontHistory DEF HistoryOK
<1> QED BY <1>1, <1>2, <1>3, AmendHistory, TrailerHistory

-----------------------------------------------------------------------------
(* The work tree and the candidate *)

LEMMA CommittedTree ==
  ASSUME tree \in WorkTrees, NEW c \in Commits
  PROVE  /\ Committed(c) \in WorkTrees /\ Committed(c).head = Append(tree.head, c)
         /\ Committed(c).files = tree.files /\ Committed(c).marked = {}
         /\ ~Committed(c).picking /\ ~Committed(c).dirty
<1>1. Append(tree.head, c) \in Seq(Commits)
  BY AppendHistory DEF WorkTrees
<1> QED BY <1>1 DEF WorkTrees, Committed

LEMMA ResetTree ==
  ASSUME NEW t \in WorkTrees, NEW head \in Seq(Commits)
  PROVE  /\ ResetTo(t, head) \in WorkTrees /\ ResetTo(t, head).head = head
         /\ ResetTo(t, head).files = t.files /\ ResetTo(t, head).marked = {}
         /\ ~ResetTo(t, head).picking /\ ~ResetTo(t, head).dirty
BY DEF WorkTrees, ResetTo

LEMMA TreeParts ==
  ASSUME NEW t \in WorkTrees
  PROVE  /\ t.head \in Seq(Commits) /\ t.files \subseteq Files /\ t.marked \subseteq Kinds
         /\ \A files \in SUBSET Files :
              /\ [t EXCEPT !.files = files] \in WorkTrees
              /\ [t EXCEPT !.files = files].head = t.head
              /\ [t EXCEPT !.files = files].files = files
              /\ [t EXCEPT !.files = files].marked = t.marked
              /\ [t EXCEPT !.files = files].picking = t.picking
              /\ [t EXCEPT !.files = files].dirty = t.dirty
         /\ \A head \in Seq(Commits) :
              /\ [t EXCEPT !.head = head] \in WorkTrees
              /\ [t EXCEPT !.head = head].head = head
              /\ [t EXCEPT !.head = head].files = t.files
BY DEF WorkTrees

LEMMA CandidateParts ==
  ASSUME NEW c \in Candidates
  PROVE  /\ c.start \in Seq(Commits) /\ c.preRepair \in Seq(Commits) /\ c.mark \in Seq(Commits)
         /\ c.saved \subseteq Files /\ c.pr \in Nat /\ c.amended \in Nat
         /\ c.outcome \in Outcomes
BY DEF Candidates

LEMMA NewCommits ==
  ASSUME TypeOK, NEW kind \in {"pick", "repair", "adapt"}, NEW change \in Trees,
         NEW marked \in BOOLEAN
  PROVE  LET c == NewCommit(kind, change, marked) IN
         /\ c \in Commits /\ c.pr = cand.pr /\ c.named = FALSE /\ c.id = made + 1
         /\ c.kind = kind /\ c.change = change /\ c.marked = marked
BY CandidateParts DEF TypeOK, NewCommit, Commits

LEMMA Facts ==
  ASSUME Inductive
  PROVE  /\ TypeOK
         /\ at \in Working => /\ cand.pr \in Prs /\ cand.pr \in todo /\ cand.pr # 0
                              /\ result[cand.pr] = "none" /\ Change \in Trees
         /\ at \in (Validating \ {"reject"}) \union {"trailer"} => Len(tree.head) > 0
         /\ at = "revalidate" => Len(tree.head) > 1
<1>1. TypeOK /\ tree \in WorkTrees /\ cand \in Candidates
  BY DEF Inductive, TypeOK
<1>2. tree.head \in Seq(Commits) /\ cand.start \in Seq(Commits)
  BY <1>1, TreeParts, CandidateParts
<1>3. ASSUME at \in Working
      PROVE  cand.pr \in Prs /\ cand.pr \in todo /\ result[cand.pr] = "none"
  BY <1>1, <1>3 DEF Inductive, TypeOK, CandidateOK, BookOK
<1>4. ASSUME at \in Working PROVE Change \in Trees /\ cand.pr # 0
  BY <1>1, <1>3, <1>4, PrsAssumption DEF TypeOK, Plans, Change
<1>5. ASSUME at \in (Validating \ {"reject"}) \union {"trailer"} PROVE Len(tree.head) > 0
  BY <1>2, <1>5, GroupIsLonger DEF Inductive, CandidateOK
<1>6. ASSUME at = "revalidate" PROVE Len(tree.head) > 1
  <2>1. Len(cand.start) \in Nat /\ Len(tree.head) \in Nat
    BY <1>2
  <2> QED BY <1>6, <2>1 DEF Inductive, CandidateOK
<1> QED BY <1>1, <1>3, <1>4, <1>5, <1>6

LEMMA OneMore ==
  ASSUME NEW S, NEW n \in Nat, NEW f \in [1..n -> S] PROVE f \in Seq(S) /\ Len(f) = n
OBVIOUS

LEMMA PlansArePlans == \A h \in Histories : PlanOf(h) \in Plans
<1> TAKE h \in Histories
<1>1. h.fork \in Trees /\ h.base \in Trees /\ \A i \in DOMAIN h.commits : h.commits[i] \in Trees
  BY DEF Histories
<1>2. \A a, b \in Trees : Patch(a, b) \in Trees
  BY DEF Patch, Trees
<1>3. \A a, b, c \in Trees : Apply(a, b, c) \in Trees
  BY DEF Apply, Trees
<1>4. Tip(h) \in Trees /\ (Len(h.commits) = 2 => h.commits[1] \in Trees)
  <2>1. CASE h.commits \in [{1} -> Trees]
    <3>1. DOMAIN h.commits = 1..1
      BY <2>1
    <3>2. h.commits \in Seq(Trees) /\ Len(h.commits) = 1
      <4>1. h.commits \in [1..1 -> Trees] /\ 1 \in Nat
        BY <2>1, <3>1
      <4> QED BY <4>1, OneMore
    <3> QED BY <1>1, <3>1, <3>2 DEF Tip
  <2>2. CASE h.commits \in [{1, 2} -> Trees]
    <3>1. DOMAIN h.commits = 1..2
      BY <2>2
    <3>2. h.commits \in Seq(Trees) /\ Len(h.commits) = 2
      <4>1. h.commits \in [1..2 -> Trees] /\ 2 \in Nat
        BY <2>2, <3>1
      <4> QED BY <4>1, OneMore
    <3> QED BY <1>1, <3>1, <3>2 DEF Tip
  <2> QED BY <2>1, <2>2 DEF Histories
<1>5. MergeParent(h) \in Trees
  BY <1>1, <1>3, <1>4 DEF MergeParent
<1>6. MergeTree(h) \in Trees
  BY <1>1, <1>3, <1>4, <1>5 DEF MergeTree, Merged
<1>7. MergePatch(h) \in Trees /\ SourcePatch(h) \in Trees
  BY <1>1, <1>2, <1>4, <1>5, <1>6 DEF MergePatch, SourcePatch
<1>8. PlanOf(h).whole \in Trees /\ PlanOf(h).change \in Trees
  BY <1>7, PlanIsWhole DEF PlanOf, Plan, Refused, Trees
<1> QED BY <1>8 DEF PlanOf, Plan, Refused, Plans

LEMMA PointNames ==
  {"plan", "next", "done", "failed", "pick", "inspect", "resolve",
   "retry", "stage", "continue", "empty", "refused", "trailer",
   "rollback", "recover", "generate", "validate", "repair", "revalidate",
   "adapt", "validate_adapted", "regenerate", "final", "reject", "accept"}
  \subseteq Points
BY DEF Points, Applying, Validating

LEMMA EarlierIsHistory == Earlier \in Seq(Commits) /\ Len(Earlier) = 1
BY DEF Earlier, Commits, Trees

LEMMA HeadIdType ==
  ASSUME TypeOK, Len(tree.head) > 0 PROVE HeadId \in Nat
<1>1. tree.head \in Seq(Commits) /\ Len(tree.head) \in 1..Len(tree.head)
  BY TreeParts DEF TypeOK
<1>2. tree.head[Len(tree.head)] \in Commits
  BY <1>1
<1> QED BY <1>2 DEF HeadId, Commits

LEMMA InitType == Init => TypeOK
<1> SUFFICES ASSUME Init PROVE TypeOK
  OBVIOUS
<1>1. tree \in WorkTrees
  BY EarlierIsHistory DEF Init, WorkTrees
<1>2. cand \in Candidates
  BY EarlierIsHistory DEF Init, Candidates, NoCandidate, Outcomes
<1>3. Refused \in Plans
  BY DEF Refused, Plans, Trees
<1> QED BY <1>1, <1>2, <1>3 DEF Init, TypeOK, Points, Outcomes

(* A step that settles no candidate changes the work tree and the record of
   the current candidate.                                                  *)
LEMMA TypeKept ==
  ASSUME TypeOK, UNCHANGED book, at' \in Points, tree' \in WorkTrees, cand' \in Candidates,
         made' \in Nat, green' \subseteq Nat, faults' \in Nat
  PROVE  TypeOK'
BY DEF TypeOK, book

LEMMA LoopType == ASSUME Inductive, Loop PROVE TypeOK'
<1>1. TypeOK
  BY DEF Inductive
<1> USE PointNames DEF book, Settle, Goto
<1>2. CASE PreparePlans
  <2>1. \A h \in Histories : PlanOf(h) \in Plans
    BY PlansArePlans
  <2>2. Refused \in Plans
    BY DEF Refused, Plans, Trees
  <2> QED BY <1>1, <1>2, <2>1, <2>2 DEF PreparePlans, TypeOK
<1>3. CASE SetupFails \/ Finish
  BY <1>1, <1>3 DEF SetupFails, Finish, TypeOK
<1>4. ASSUME NEW p \in Prs, SkipKnown(p) \/ SkipUnplanned(p) PROVE TypeOK'
  BY <1>1, <1>4 DEF SkipKnown, SkipUnplanned, TypeOK, Outcomes
<1>5. ASSUME NEW p \in Prs, StartCandidate(p) PROVE TypeOK'
  <2>1. Fresh(p) \in Candidates
    BY <1>1, PrsAssumption DEF Fresh, Candidates, TypeOK, WorkTrees, Outcomes
  <2> QED BY <1>1, <1>5, <2>1 DEF StartCandidate, TypeOK
<1>6. CASE Reject \/ AcceptNothing
  <2>1. ResetTo(tree, cand.start) \in WorkTrees
    BY <1>1, ResetTree, CandidateParts DEF TypeOK
  <2>2. cand.pr \in Prs
    BY <1>6, Facts DEF Reject, AcceptNothing, Working, Validating
  <2>3. result' \in [Prs -> Outcomes] /\ sha' \in [Prs -> Nat]
    BY <1>1, <1>6, <2>2 DEF Reject, AcceptNothing, TypeOK, Outcomes
  <2>4. todo' \in SUBSET Prs /\ tree' \in WorkTrees /\ at' \in Points
    BY <1>1, <1>6, <2>1 DEF Reject, AcceptNothing, TypeOK
  <2> QED BY ZenonT(30), <1>1, <1>6, <2>3, <2>4 DEF Reject, AcceptNothing, TypeOK
<1>7. CASE Accept
  <2>1. cand.pr \in Prs /\ Len(tree.head) > 0
    BY <1>7, Facts DEF Accept, Working, Validating
  <2>2. HeadId \in Nat
    BY <1>1, <2>1, HeadIdType
  <2>3. ResolvedSha \in Nat
    BY <1>1, <2>1, <2>2, CandidateParts DEF ResolvedSha, TypeOK
  <2>4. result' \in [Prs -> Outcomes] /\ sha' \in [Prs -> Nat]
    BY <1>1, <1>7, <2>1, <2>3 DEF Accept, TypeOK, Outcomes
  <2> QED BY <1>1, <1>7, <2>4 DEF Accept, TypeOK
<1> QED BY <1>2, <1>3, <1>4, <1>5, <1>6, <1>7 DEF Loop

LEMMA PickType == ASSUME Inductive, Pick PROVE TypeOK'
<1>1. TypeOK
  BY DEF Inductive
<1>2. at' \in Points /\ made' \in Nat /\ green' \subseteq Nat /\ faults' \in Nat /\ UNCHANGED <<book, cand>>
  <2>1. CASE PickClean
    BY <1>1, <2>1, PointNames DEF PickClean, TypeOK, book
  <2>2. CASE PickIsEmpty
    BY <1>1, <2>2, PointNames DEF PickIsEmpty, Goto, TypeOK, book
  <2>3. CASE PickIsRefused
    BY <1>1, <2>3, PointNames DEF PickIsRefused, Goto, TypeOK, book
  <2>4. CASE \E files \in SUBSET Kinds : PickConflicts(files)
    BY <1>1, <2>4, PointNames DEF PickConflicts, Goto, TypeOK, book
  <2> QED BY <2>1, <2>2, <2>3, <2>4 DEF Pick
<1>3. tree' \in WorkTrees
  <2>1. CASE PickClean
    <3>1. NewCommit("pick", Change, FALSE) \in Commits
      BY <1>1, <2>1, Facts, NewCommits DEF PickClean, Working, Applying
    <3> QED BY <1>1, <2>1, <3>1, CommittedTree DEF PickClean, TypeOK
  <2>2. CASE PickIsEmpty
    BY <1>1, <2>2 DEF PickIsEmpty, TypeOK, WorkTrees
  <2>3. CASE PickIsRefused
    BY <1>1, <2>3 DEF PickIsRefused, TypeOK
  <2>4. ASSUME NEW files \in SUBSET Kinds, PickConflicts(files) PROVE tree' \in WorkTrees
    BY <1>1, <2>4 DEF PickConflicts, TypeOK, WorkTrees
  <2> QED BY <2>1, <2>2, <2>3, <2>4 DEF Pick
<1> QED BY <1>1, <1>2, <1>3, TypeKept DEF TypeOK

LEMMA ResolveType == ASSUME Inductive, Resolve PROVE TypeOK'
<1>1. TypeOK
  BY DEF Inductive
<1> USE DEF book, Goto
<1>2. CASE RefuseConflicts \/ MissingTestsNotPorted \/ ContinueFails
  <2>1. cand' \in Candidates
    BY <1>1, <1>2 DEF RefuseConflicts, MissingTestsNotPorted, ContinueFails, RollBackWith,
                      TypeOK, Candidates, Outcomes
  <2>2. at' \in Points /\ faults' \in Nat /\ UNCHANGED <<book, tree, made, green>>
    BY <1>1, <1>2, PointNames DEF RefuseConflicts, MissingTestsNotPorted, ContinueFails,
                                  RollBackWith, TypeOK, Fault
  <2> QED BY <1>1, <2>1, <2>2, TypeKept DEF TypeOK
<1>3. CASE DropMissingTests
  <2>1. tree' \in WorkTrees
    BY <1>1, <1>3 DEF DropMissingTests, TypeOK, WorkTrees
  <2>2. cand' \in Candidates
    <3>1. \A b \in BOOLEAN : [cand EXCEPT !.dropped = b] \in Candidates
      BY <1>1 DEF TypeOK, Candidates
    <3>2. ("test" \in tree.marked) \in BOOLEAN
      OBVIOUS
    <3> QED BY <1>3, <3>1, <3>2 DEF DropMissingTests
  <2>3. at' \in Points /\ UNCHANGED <<book, made, green, faults>>
    BY <1>3, PointNames DEF DropMissingTests
  <2> QED BY <1>1, <2>1, <2>2, <2>3, TypeKept DEF TypeOK
<1>4. CASE ResolveByRule \/ AgentResolves
  <2>1. tree' \in WorkTrees
    BY <1>1, <1>4 DEF ResolveByRule, AgentResolves, TypeOK, WorkTrees
  <2>2. at' \in Points /\ UNCHANGED <<book, cand, made, green, faults>>
    BY <1>4, PointNames DEF ResolveByRule, AgentResolves
  <2> QED BY <1>1, <2>1, <2>2, TypeKept DEF TypeOK
<1>5. CASE AgentLeavesMarkers \/ StageResolution \/ ContinueFindsNothing
  <2>1. at' \in Points /\ UNCHANGED <<book, tree, cand, made, green, faults>>
    BY <1>5, PointNames DEF AgentLeavesMarkers, StageResolution, ContinueFindsNothing
  <2> QED BY <1>1, <2>1, TypeKept DEF TypeOK
<1>6. CASE AgentFailsToResolve
  <2>1. PICK files \in {{}, {"stray"}} : tree' = [tree EXCEPT !.files = tree.files \union files]
    BY <1>6 DEF AgentFailsToResolve
  <2>2. tree.files \union files \in SUBSET Files
    BY <1>1, TreeParts DEF TypeOK, Files
  <2>3. tree' \in WorkTrees
    BY <1>1, <2>1, <2>2, TreeParts DEF TypeOK
  <2>4. cand' \in Candidates
    BY <1>1, <1>6 DEF AgentFailsToResolve, RollBackWith, TypeOK, Candidates, Outcomes
  <2>5. at' \in Points /\ UNCHANGED <<book, made, green, faults>>
    BY <1>6, PointNames DEF AgentFailsToResolve, RollBackWith
  <2> QED BY <1>1, <2>3, <2>4, <2>5, TypeKept DEF TypeOK
<1>7. CASE ContinuePick
  <2>1. (tree.marked # {}) \in BOOLEAN
    OBVIOUS
  <2>2. NewCommit("pick", Change, tree.marked # {}) \in Commits
    BY <1>1, <1>7, <2>1, Facts, NewCommits DEF ContinuePick, Working, Applying
  <2>3. tree' \in WorkTrees
    BY <1>1, <1>7, <2>2, CommittedTree DEF ContinuePick, TypeOK
  <2>4. at' \in Points /\ made' \in Nat /\ UNCHANGED <<book, cand, green, faults>>
    BY <1>1, <1>7, PointNames DEF ContinuePick, TypeOK
  <2> QED BY <1>1, <2>3, <2>4, TypeKept DEF TypeOK
<1> QED BY <1>2, <1>3, <1>4, <1>5, <1>6, <1>7 DEF Resolve

LEMMA ConcludeType == ASSUME Inductive, Conclude PROVE TypeOK'
<1>1. TypeOK /\ tree \in WorkTrees /\ cand \in Candidates
  BY DEF Inductive, TypeOK
<1> USE DEF book, Goto, Settle
<1>2. RolledBack \in WorkTrees /\ ResetTo(tree, cand.start) \in WorkTrees
      /\ ResetTo(tree, tree.head) \in WorkTrees
  BY <1>1, ResetTree, TreeParts, CandidateParts DEF RolledBack
<1>3. CASE AbortEmptyPick \/ AbortRefusedPick \/ RollBack \/ Recover
  <2>1. tree' \in WorkTrees
    BY <1>2, <1>3 DEF AbortEmptyPick, AbortRefusedPick, RollBack, Recover
  <2>2. cand.outcome \in Outcomes
    BY <1>1, CandidateParts
  <2>3. result' \in [Prs -> Outcomes] /\ todo' \in SUBSET Prs
    BY <1>1, <1>3, <2>2 DEF AbortEmptyPick, AbortRefusedPick, RollBack, Recover, TypeOK, Outcomes
  <2>4. at' \in Points /\ UNCHANGED <<plan, sha, cand, made, green, faults>>
    BY <1>3, PointNames DEF AbortEmptyPick, AbortRefusedPick, RollBack, Recover
  <2> QED BY <1>1, <2>1, <2>3, <2>4 DEF TypeOK
<1>4. CASE AbortFails \/ ApplyRaises
  <2>1. cand' \in Candidates
    BY <1>1, <1>4 DEF AbortFails, ApplyRaises, RollBackWith, Candidates, Outcomes
  <2>2. at' \in Points /\ faults' \in Nat /\ UNCHANGED <<book, tree, made, green>>
    BY <1>1, <1>4, PointNames DEF AbortFails, ApplyRaises, RollBackWith, Fault, TypeOK
  <2> QED BY <1>1, <2>1, <2>2, TypeKept DEF TypeOK
<1>5. CASE RollBackFails \/ RecoverFails
  <2>1. tree' \in WorkTrees
    BY <1>1, <1>2, <1>5 DEF RollBackFails, RecoverFails, HalfRolledBack
  <2>2. at' \in Points /\ faults' \in Nat /\ UNCHANGED <<book, cand, made, green>>
    BY <1>1, <1>5, PointNames DEF RollBackFails, RecoverFails, Fault, TypeOK
  <2> QED BY <1>1, <2>1, <2>2, TypeKept DEF TypeOK
<1>6. CASE AddTrailer
  <2>1. WithTrailer(tree.head) \in Seq(Commits)
    <3>1. at = "trailer"
      BY <1>6 DEF AddTrailer
    <3>2. Len(tree.head) > 0
      BY <3>1, Facts DEF Validating
    <3>3. made \in Nat /\ tree.head \in Seq(Commits)
      BY <1>1, TreeParts DEF TypeOK
    <3> QED BY <3>2, <3>3, TrailerHistory
  <2>2. tree' \in WorkTrees
    BY <1>1, <1>6, <2>1, TreeParts DEF AddTrailer
  <2>3. sha' \in [Prs -> Nat] /\ made' \in Nat
    <3>1. made + 1 \in Nat /\ sha \in [Prs -> Nat]
      BY <1>1 DEF TypeOK
    <3>2. sha' = [sha EXCEPT ![cand.pr] = made + 1] /\ made' = made + 1
      BY <1>6 DEF AddTrailer
    <3> QED BY <3>1, <3>2
  <2>4. at' \in Points /\ UNCHANGED <<todo, plan, result, cand, green, faults>>
    BY <1>6, PointNames DEF AddTrailer
  <2> QED BY <1>1, <2>2, <2>3, <2>4 DEF TypeOK
<1> QED BY <1>3, <1>4, <1>5, <1>6 DEF Conclude

LEMMA BuildTree ==
  ASSUME TypeOK, NEW t \in WorkTrees, Builds(t)
  PROVE  /\ tree' \in WorkTrees /\ tree'.head = t.head
         /\ tree'.files \subseteq tree.files \union {"artifact"}
         /\ tree'.marked = t.marked
<1>1. PICK files \in {tree.files, tree.files \union {"artifact"}} : tree' = [t EXCEPT !.files = files]
  BY DEF Builds
<1>2. files \in SUBSET Files /\ files \subseteq tree.files \union {"artifact"}
  BY <1>1, TreeParts DEF TypeOK, Files
<1>3. /\ [t EXCEPT !.files = files] \in WorkTrees /\ [t EXCEPT !.files = files].head = t.head
      /\ [t EXCEPT !.files = files].files = files /\ [t EXCEPT !.files = files].marked = t.marked
  BY ZenonT(40), <1>2, TreeParts
<1> QED BY <1>1, <1>2, <1>3, Zenon

LEMMA AmendedTree ==
  ASSUME TypeOK, NEW files \in SUBSET Files, Len(tree.head) > 0
  PROVE  LET t == [tree EXCEPT !.files = files, !.head = Amended(@)] IN
         /\ t \in WorkTrees /\ t.head = Amended(tree.head) /\ t.files = files
         /\ t.marked = tree.marked
<1>1. Amended(tree.head) \in Seq(Commits)
  BY AmendHistory, TreeParts DEF TypeOK
<1>2. [tree EXCEPT !.files = files] \in WorkTrees /\ tree.head = [tree EXCEPT !.files = files].head
  BY TreeParts DEF TypeOK
<1> QED BY <1>1, <1>2 DEF WorkTrees, TypeOK

LEMMA ValidateType == ASSUME Inductive, Validate PROVE TypeOK'
<1>1. TypeOK /\ tree \in WorkTrees /\ cand \in Candidates /\ made \in Nat
  BY DEF Inductive, TypeOK
<1> USE DEF book, Goto
<1>2. \A head \in Seq(Commits) : ResetTo(tree, head) \in WorkTrees
  BY <1>1, ResetTree
<1>3. CASE GenerateNothing \/ ValidationRaises
  <2>1. at' \in Points /\ faults' \in Nat /\ UNCHANGED <<book, tree, cand, made, green>>
    BY <1>1, <1>3, PointNames DEF GenerateNothing, ValidationRaises, Fault, TypeOK
  <2> QED BY <1>1, <2>1, TypeKept DEF TypeOK
<1>4. CASE GenerateAmends
  <2>1. Len(tree.head) > 0
    BY <1>4, Facts DEF GenerateAmends, Validating
  <2>2. tree' \in WorkTrees
    BY <1>1, <1>4, <2>1, AmendHistory, TreeParts DEF GenerateAmends, FoldGenerated
  <2>3. cand' \in Candidates
    <3>1. \A n \in Nat : [cand EXCEPT !.amended = n] \in Candidates
      BY <1>1 DEF Candidates
    <3> QED BY <1>1, <1>4, <3>1 DEF GenerateAmends
  <2>4. at' \in Points /\ made' \in Nat /\ UNCHANGED <<book, green, faults>>
    BY <1>1, <1>4, PointNames DEF GenerateAmends, FoldGenerated
  <2> QED BY <1>1, <2>2, <2>3, <2>4, TypeKept DEF TypeOK
<1>5. CASE GenerateFails
  <2>1. Len(tree.head) > 0
    BY <1>5, Facts DEF GenerateFails, Validating
  <2>2. PICK files \in {{}, tree.files} :
          \/ tree' = [tree EXCEPT !.files = files] /\ made' = made
          \/ tree' = [tree EXCEPT !.files = files, !.head = Amended(@)] /\ made' = made + 1
    BY <1>5 DEF GenerateFails
  <2>3. files \in SUBSET Files
    BY <1>1, TreeParts
  <2>4. tree' \in WorkTrees
    <3>1. [tree EXCEPT !.files = files] \in WorkTrees
      BY <1>1, <2>3, TreeParts
    <3>2. [tree EXCEPT !.files = files, !.head = Amended(@)] \in WorkTrees
      BY <1>1, <2>1, <2>3, AmendedTree
    <3> QED BY <2>2, <3>1, <3>2
  <2>5. at' \in Points /\ made' \in Nat /\ UNCHANGED <<book, cand, green, faults>>
    BY <1>1, <1>5, <2>2, PointNames DEF GenerateFails
  <2> QED BY <1>1, <2>4, <2>5, TypeKept DEF TypeOK
<1>6. CASE RegenerateFails
  <2>1. PICK files \in {{}, tree.files} :
          tree' = [ResetTo(tree, cand.preRepair) EXCEPT !.files = files]
    BY <1>6 DEF RegenerateFails
  <2>2. files \in SUBSET Files /\ ResetTo(tree, cand.preRepair) \in WorkTrees
    BY <1>1, <1>2, TreeParts, CandidateParts
  <2>3. tree' \in WorkTrees
    BY <2>1, <2>2, TreeParts
  <2>4. at' \in Points /\ UNCHANGED <<book, cand, made, green, faults>>
    BY <1>6, PointNames DEF RegenerateFails
  <2> QED BY <1>1, <2>3, <2>4, TypeKept DEF TypeOK
<1>7. CASE ValidationPasses \/ FinalPasses
  <2>1. Len(tree.head) > 0
    BY <1>7, Facts DEF ValidationPasses, FinalPasses, Validating
  <2>2. HeadId \in Nat /\ tree' \in WorkTrees
    BY <1>1, <1>7, <2>1, HeadIdType, BuildTree DEF ValidationPasses, FinalPasses, Passes
  <2>3. green' \subseteq Nat
    BY <1>1, <1>7, <2>2 DEF ValidationPasses, FinalPasses, Passes, TypeOK
  <2>4. at' \in Points /\ UNCHANGED <<book, cand, made, faults>>
    BY <1>7, PointNames DEF ValidationPasses, FinalPasses, Passes
  <2> QED BY <1>1, <2>2, <2>3, <2>4, TypeKept DEF TypeOK
<1>8. ASSUME NEW unmapped \in BOOLEAN, ValidationFails(unmapped) PROVE TypeOK'
  <2>1. tree' \in WorkTrees
    BY <1>1, <1>8, BuildTree DEF ValidationFails
  <2>2. cand' \in Candidates
    BY <1>1, <1>8, TreeParts DEF ValidationFails, Candidates
  <2>3. at' \in Points /\ UNCHANGED <<book, made, green, faults>>
    BY <1>8, PointNames DEF ValidationFails
  <2> QED BY <1>1, <2>1, <2>2, <2>3, TypeKept DEF TypeOK
<1>9. CASE FinalDoesNotPass
  <2>1. tree' \in WorkTrees
    BY <1>1, <1>2, <1>9, BuildTree, CandidateParts DEF FinalDoesNotPass
  <2>2. at' \in Points /\ UNCHANGED <<book, cand, made, green, faults>>
    BY <1>9, PointNames DEF FinalDoesNotPass
  <2> QED BY <1>1, <2>1, <2>2, TypeKept DEF TypeOK
<1> QED BY <1>3, <1>4, <1>5, <1>6, <1>7, <1>8, <1>9 DEF Validate

LEMMA RepairType == ASSUME Inductive, Repair PROVE TypeOK'
<1>1. TypeOK /\ tree \in WorkTrees /\ cand \in Candidates /\ made \in Nat
      /\ tree.head \in Seq(Commits) /\ cand.preRepair \in Seq(Commits) /\ cand.mark \in Seq(Commits)
  BY TreeParts, CandidateParts DEF Inductive, TypeOK
<1> USE DEF book, Goto
<1>2. \A head \in Seq(Commits) : ResetTo(tree, head) \in WorkTrees
  BY <1>1, ResetTree
<1>3. CASE RepairCommits \/ AdaptationCommits
  <2>1. \A kind \in {"repair", "adapt"} : NewCommit(kind, {}, FALSE) \in Commits
    BY <1>1, NewCommits DEF Trees
  <2>2. tree' \in WorkTrees
    BY <1>1, <1>3, <2>1, CommittedTree DEF RepairCommits, AdaptationCommits
  <2>3. cand' \in Candidates
    BY <1>1, <1>3 DEF RepairCommits, AdaptationCommits, Candidates
  <2>4. at' \in Points /\ made' \in Nat /\ UNCHANGED <<book, green, faults>>
    <3>1. CASE RepairCommits
      BY <1>1, <3>1, PointNames DEF RepairCommits
    <3>2. CASE AdaptationCommits
      BY <1>1, <3>2, PointNames DEF AdaptationCommits
    <3> QED BY <1>3, <3>1, <3>2
  <2> QED BY <1>1, <2>2, <2>3, <2>4, TypeKept DEF TypeOK
<1>4. CASE RepairPasses \/ AdaptationPasses
  <2>1. Len(tree.head) > 0
    BY <1>4, Facts DEF RepairPasses, AdaptationPasses, Validating
  <2>2. HeadId \in Nat /\ tree' \in WorkTrees
    BY <1>1, <1>4, <2>1, HeadIdType, BuildTree DEF RepairPasses, AdaptationPasses, Passes
  <2>3. green' \subseteq Nat
    BY <1>1, <1>4, <2>2 DEF RepairPasses, AdaptationPasses, Passes, TypeOK
  <2>4. cand' \in Candidates
    BY <1>1, <1>4 DEF RepairPasses, AdaptationPasses, Candidates
  <2>5. at' \in Points /\ UNCHANGED <<book, made, faults>>
    BY <1>4, PointNames DEF RepairPasses, AdaptationPasses, Passes
  <2> QED BY <1>1, <2>2, <2>3, <2>4, <2>5, TypeKept DEF TypeOK
<1>5. CASE RepairIsRefused \/ AdaptationIsRefused
  <2>1. WithoutPartial(tree.head) \in Seq(Commits)
    BY <1>1 DEF WithoutPartial
  <2>2. tree' \in WorkTrees
    BY <1>1, <1>2, <1>5, <2>1 DEF RepairIsRefused, AdaptationIsRefused
  <2>3. at' \in Points /\ UNCHANGED <<book, cand, made, green, faults>>
    BY <1>5, PointNames DEF RepairIsRefused, AdaptationIsRefused
  <2> QED BY <1>1, <2>2, <2>3, TypeKept DEF TypeOK
<1>6. CASE RepairDoesNotPass \/ RepairWasOfTestsOnly
  <2>1. Len(tree.head) > 1
    BY <1>6, Facts DEF RepairDoesNotPass, RepairWasOfTestsOnly
  <2>2. ResetTo(tree, Front(tree.head)) \in WorkTrees
    BY <1>1, <1>2, <2>1, FrontHistory
  <2>3. tree' \in WorkTrees
    BY <1>1, <1>6, <2>2, BuildTree DEF RepairDoesNotPass, RepairWasOfTestsOnly
  <2>4. cand' \in Candidates
    BY <1>1, <1>6 DEF RepairDoesNotPass, RepairWasOfTestsOnly, Candidates
  <2>5. at' \in Points /\ UNCHANGED <<book, made, green, faults>>
    BY <1>6, PointNames DEF RepairDoesNotPass, RepairWasOfTestsOnly
  <2> QED BY <1>1, <2>3, <2>4, <2>5, TypeKept DEF TypeOK
<1>7. CASE RepairIsPartial
  <2>1. Len(tree.head) > 0
    BY <1>7, Facts DEF RepairIsPartial, Validating
  <2>2. [tree EXCEPT !.head = Amended(@)] \in WorkTrees
    BY <1>1, <2>1, AmendHistory, TreeParts
  <2>3. tree' \in WorkTrees
    BY <1>1, <1>7, <2>2, BuildTree DEF RepairIsPartial
  <2>4. cand' \in Candidates
    BY <1>1, <1>7 DEF RepairIsPartial, Candidates
  <2>5. at' \in Points /\ made' \in Nat /\ UNCHANGED <<book, green, faults>>
    BY <1>1, <1>7, PointNames DEF RepairIsPartial
  <2> QED BY <1>1, <2>3, <2>4, <2>5, TypeKept DEF TypeOK
<1>8. CASE AdaptationDoesNotPass
  <2>1. WithoutPartial(cand.mark) \in Seq(Commits)
    BY <1>1 DEF WithoutPartial
  <2>2. tree' \in WorkTrees
    BY <1>1, <1>2, <1>8, <2>1, BuildTree DEF AdaptationDoesNotPass
  <2>3. at' \in Points /\ UNCHANGED <<book, cand, made, green, faults>>
    BY <1>8, PointNames DEF AdaptationDoesNotPass
  <2> QED BY <1>1, <2>2, <2>3, TypeKept DEF TypeOK
<1> QED BY <1>3, <1>4, <1>5, <1>6, <1>7, <1>8 DEF Repair

-----------------------------------------------------------------------------
(* What a step within the work on a candidate keeps *)

(* A step that neither starts nor settles a candidate.                      *)
Quiet ==
  /\ at \in Working /\ at' \in Working \union {"failed"}
  /\ cand'.start = cand.start /\ cand'.pr = cand.pr
  /\ UNCHANGED <<todo, plan, result>>
  /\ green \subseteq green'
  /\ \A p \in Prs \ {cand.pr} : sha'[p] = sha[p]

LEMMA HistoriesStep ==
  ASSUME plan' = plan,
         HistoryOK(tree'.head), HistoryOK(cand'.start), HistoryOK(cand'.preRepair),
         HistoryOK(cand'.mark),
         at' \in {"resolve", "retry"} => tree'.marked \subseteq {"space", "text"},
         at' \in {"stage", "continue"} => tree'.marked = {}
  PROVE  HistoriesOK'
BY DEF HistoriesOK, HistoryOK

LEMMA NewHistory ==
  ASSUME Inductive, NEW c \in Commits, ~c.marked, c.pr = cand.pr, cand.pr \in Prs,
         c.kind = "pick" => c.change = Change
  PROVE  HistoryOK(<<c>>)
BY DEF HistoryOK, Change, Inductive, BookOK

LEMMA Parts ==
  ASSUME Inductive
  PROVE  /\ TypeOK /\ CandidateOK /\ HistoriesOK /\ ReportOK /\ BookOK
         /\ AcceptedIsValidated /\ AcceptedIsNamed /\ NobodyLeftOut
         /\ tree \in WorkTrees /\ cand \in Candidates /\ made \in Nat
         /\ tree.head \in Seq(Commits) /\ cand.start \in Seq(Commits)
         /\ cand.preRepair \in Seq(Commits) /\ cand.mark \in Seq(Commits)
         /\ HistoryOK(tree.head) /\ HistoryOK(cand.start)
         /\ HistoryOK(cand.preRepair) /\ HistoryOK(cand.mark)
<1>1. TypeOK /\ tree \in WorkTrees /\ cand \in Candidates /\ made \in Nat
  BY DEF Inductive, TypeOK
<1> QED BY <1>1, TreeParts, CandidateParts DEF Inductive, HistoriesOK

LEMMA PickOK == ASSUME Inductive, Pick PROVE CandidateOK' /\ HistoriesOK' /\ ReportOK' /\ Quiet
<1> USE DEF book, Goto, Picking, Working, Applying, Validating
<1>1. /\ cand.pr \in Prs /\ Change \in Trees /\ at = "pick"
      /\ tree.head = cand.start /\ tree.files = cand.saved /\ cand.pr \in todo
      /\ ~cand.repaired /\ cand.amended = 0
  BY Parts, Facts DEF Pick, PickClean, PickIsEmpty, PickIsRefused, PickConflicts, CandidateOK, ReportOK
<1>2. CASE PickClean
  <2> DEFINE c == NewCommit("pick", Change, FALSE)
  <2>1. c \in Commits /\ c.pr = cand.pr /\ c.named = FALSE /\ c.marked = FALSE /\ c.change = Change
    BY Parts, <1>1, NewCommits
  <2>2. /\ tree'.head = Append(cand.start, c) /\ tree'.files = cand.saved
        /\ UNCHANGED <<cand, todo, plan, result, sha, green>> /\ at' = "trailer"
    BY Parts, <1>1, <1>2, <2>1, CommittedTree DEF PickClean
  <2> HIDE DEF c
  <2>3. IsGroup(tree'.head, cand.start, cand.pr, FALSE) /\ Len(tree'.head) = Len(cand.start) + 1
    <3>1. IsGroup(Append(cand.start, c), cand.start, c.pr, FALSE)
      BY Parts, <2>1, PickIsGroup
    <3>2. IsGroup(tree'.head, cand.start, cand.pr, FALSE)
      BY <2>1, <2>2, <3>1, Zenon
    <3>3. Len(tree'.head) = Len(cand.start) + 1
      BY Parts, <2>1, <2>2, AppendHistory
    <3> QED BY <3>2, <3>3
  <2>4. CandidateOK'
    BY <1>1, <2>2, <2>3 DEF CandidateOK
  <2>5. HistoryOK(tree'.head)
    <3>1. HistoryOK(<<c>>)
      BY <1>1, <2>1, NewHistory
    <3> QED BY Parts, <2>1, <2>2, <3>1, HistoryKept
  <2>6. HistoriesOK'
    BY Parts, <2>2, <2>5, HistoriesStep
  <2>7. ReportOK'
    BY <1>1, <2>2 DEF ReportOK
  <2> QED BY <1>1, <2>2, <2>4, <2>6, <2>7 DEF Quiet
<1>3. CASE ~PickClean
  <2>1. /\ tree'.head = tree.head /\ tree'.files = tree.files
        /\ UNCHANGED <<cand, todo, plan, result, sha, green>>
        /\ at' \in {"empty", "refused", "inspect"}
    BY Parts, <1>3 DEF Pick, PickIsEmpty, PickIsRefused, PickConflicts, WorkTrees
  <2>2. CandidateOK'
    BY <1>1, <2>1 DEF CandidateOK
  <2>3. HistoriesOK'
    BY Parts, <2>1, HistoriesStep
  <2>4. ReportOK'
    BY <1>1, <2>1 DEF ReportOK
  <2> QED BY <1>1, <2>1, <2>2, <2>3, <2>4 DEF Quiet
<1> QED BY <1>2, <1>3

LEMMA ResolveOK ==
  ASSUME Inductive, Resolve PROVE CandidateOK' /\ HistoriesOK' /\ ReportOK' /\ Quiet
<1> USE DEF book, Goto, Picking, Working, Applying, Validating
<1>1. /\ at \in {"inspect", "resolve", "retry", "stage", "continue"} /\ cand.pr \in todo
      /\ cand.pr \in Prs /\ Change \in Trees
      /\ tree.head = cand.start /\ tree.files = cand.saved
      /\ ~cand.repaired /\ cand.amended = 0
  <2>1. at \in {"inspect", "resolve", "retry", "stage", "continue"}
    BY DEF Resolve, RefuseConflicts, DropMissingTests, ResolveByRule, AgentResolves,
           AgentLeavesMarkers, AgentFailsToResolve, MissingTestsNotPorted, StageResolution,
           ContinuePick, ContinueFindsNothing, ContinueFails
  <2> QED BY Parts, Facts, <2>1 DEF CandidateOK, ReportOK
<1>2. CASE ContinuePick
  <2> DEFINE c == NewCommit("pick", Change, FALSE)
  <2>1. c \in Commits /\ c.pr = cand.pr /\ c.named = FALSE /\ c.marked = FALSE /\ c.change = Change
    BY Parts, <1>1, NewCommits
  <2>2. NewCommit("pick", Change, tree.marked # {}) = c
    <3>1. tree.marked = {}
      BY Parts, <1>2 DEF ContinuePick, HistoriesOK
    <3> QED BY <3>1 DEF NewCommit
  <2>3. /\ tree'.head = Append(cand.start, c) /\ tree'.files = cand.saved
        /\ UNCHANGED <<cand, todo, plan, result, sha, green>> /\ at' = "trailer"
    BY Parts, <1>1, <1>2, <2>1, <2>2, CommittedTree DEF ContinuePick
  <2> HIDE DEF c
  <2>4. IsGroup(tree'.head, cand.start, cand.pr, FALSE) /\ Len(tree'.head) = Len(cand.start) + 1
    <3>1. IsGroup(Append(cand.start, c), cand.start, c.pr, FALSE)
      BY Parts, <2>1, PickIsGroup
    <3>2. IsGroup(tree'.head, cand.start, cand.pr, FALSE)
      BY <2>1, <2>3, <3>1, Zenon
    <3>3. Len(tree'.head) = Len(cand.start) + 1
      BY Parts, <2>1, <2>3, AppendHistory
    <3> QED BY <3>2, <3>3
  <2>5. CandidateOK'
    BY <1>1, <2>3, <2>4 DEF CandidateOK
  <2>6. HistoryOK(tree'.head)
    <3>1. HistoryOK(<<c>>)
      BY <1>1, <2>1, NewHistory
    <3> QED BY Parts, <2>1, <2>3, <3>1, HistoryKept
  <2>7. HistoriesOK'
    BY Parts, <2>3, <2>6, HistoriesStep
  <2>8. ReportOK'
    BY <1>1, <2>3 DEF ReportOK
  <2> QED BY <1>1, <2>3, <2>5, <2>7, <2>8 DEF Quiet
<1>3. CASE RefuseConflicts \/ AgentFailsToResolve \/ MissingTestsNotPorted \/ ContinueFails
  <2>1. /\ at' = "rollback" /\ cand' = [cand EXCEPT !.outcome = "conflict"]
        /\ UNCHANGED <<todo, plan, result, sha, green>>
    BY <1>3 DEF RefuseConflicts, AgentFailsToResolve, MissingTestsNotPorted, ContinueFails,
                RollBackWith
  <2>2. tree'.head = tree.head
    BY Parts, <1>3 DEF RefuseConflicts, AgentFailsToResolve, MissingTestsNotPorted,
                       ContinueFails, WorkTrees
  <2>3. /\ cand'.start = cand.start /\ cand'.pr = cand.pr /\ cand'.preRepair = cand.preRepair
        /\ cand'.mark = cand.mark /\ cand'.outcome = "conflict"
    BY Parts, <2>1 DEF Candidates
  <2>4. CandidateOK'
    BY <1>1, <2>1, <2>3 DEF CandidateOK
  <2>5. HistoriesOK'
    BY Parts, <2>1, <2>2, <2>3, HistoriesStep
  <2>6. ReportOK'
    BY <2>1 DEF ReportOK
  <2> QED BY <1>1, <2>1, <2>3, <2>4, <2>5, <2>6 DEF Quiet
<1>4. CASE DropMissingTests \/ ResolveByRule \/ AgentResolves
  <2>1. /\ tree'.head = tree.head /\ tree'.files = tree.files
        /\ UNCHANGED <<todo, plan, result, sha, green>>
    BY Parts, <1>4 DEF DropMissingTests, ResolveByRule, AgentResolves, WorkTrees
  <2>2. /\ cand'.start = cand.start /\ cand'.pr = cand.pr /\ cand'.preRepair = cand.preRepair
        /\ cand'.mark = cand.mark /\ cand'.saved = cand.saved
        /\ cand'.repaired = cand.repaired /\ cand'.amended = cand.amended
    BY Parts, <1>4 DEF DropMissingTests, ResolveByRule, AgentResolves, Candidates
  <2>3. \/ at' = "resolve" /\ tree'.marked \subseteq {"space", "text"}
        \/ at' = "stage" /\ tree'.marked = {}
    <3>1. tree.marked \subseteq Kinds
      BY Parts, TreeParts
    <3>2. CASE DropMissingTests
      <4>1. tree.marked \intersect {"binary", "source"} = {}
        BY <3>2 DEF DropMissingTests, Refuses
      <4>2. tree'.marked = tree.marked \ {"test"} /\ at' = "resolve"
        BY Parts, <3>2 DEF DropMissingTests, WorkTrees
      <4> QED BY <3>1, <4>1, <4>2 DEF Kinds
    <3>3. CASE ResolveByRule
      <4>1. tree.marked \subseteq {"space"}
        BY Parts, <3>3 DEF ResolveByRule, AgentNeeded, HistoriesOK
      <4>2. tree'.marked = tree.marked \ {"space"} /\ at' = "stage"
        BY Parts, <3>3 DEF ResolveByRule, WorkTrees
      <4> QED BY <4>1, <4>2
    <3>4. CASE AgentResolves
      <4>1. tree.marked \subseteq {"space", "text"}
        BY Parts, <3>4 DEF AgentResolves, HistoriesOK
      <4>2. tree'.marked = tree.marked \ {"space", "text"} /\ at' = "stage"
        BY Parts, <3>4 DEF AgentResolves, WorkTrees
      <4> QED BY <4>1, <4>2
    <3> QED BY <1>4, <3>2, <3>3, <3>4
  <2>4. CandidateOK'
    BY <1>1, <2>1, <2>2, <2>3 DEF CandidateOK
  <2>5. HistoriesOK'
    BY Parts, <2>1, <2>2, <2>3, HistoriesStep
  <2>6. ReportOK'
    BY <1>1, <2>2, <2>3 DEF ReportOK
  <2> QED BY <1>1, <2>1, <2>2, <2>3, <2>4, <2>5, <2>6 DEF Quiet
<1>5. CASE AgentLeavesMarkers \/ StageResolution \/ ContinueFindsNothing
  <2>1. /\ UNCHANGED <<tree, cand, todo, plan, result, sha, green>>
        /\ \/ at = "resolve" /\ at' = "retry"
           \/ at = "stage" /\ at' = "continue"
           \/ at' = "empty"
    BY <1>5 DEF AgentLeavesMarkers, StageResolution, ContinueFindsNothing
  <2>2. CandidateOK'
    BY <1>1, <2>1 DEF CandidateOK
  <2>3. HistoriesOK'
    <3>1. at' = "retry" => tree.marked \subseteq {"space", "text"}
      BY Parts, <2>1 DEF HistoriesOK
    <3>2. at' = "continue" => tree.marked = {}
      BY Parts, <2>1 DEF HistoriesOK
    <3> QED BY Parts, <2>1, <3>1, <3>2, HistoriesStep
  <2>4. ReportOK'
    BY <1>1, <2>1 DEF ReportOK
  <2> QED BY <1>1, <2>1, <2>2, <2>3, <2>4 DEF Quiet
<1> QED BY <1>2, <1>3, <1>4, <1>5 DEF Resolve

(* The steps of Conclude that settle nothing. *)
Pending == AbortFails \/ AddTrailer \/ RollBackFails \/ ApplyRaises \/ RecoverFails

LEMMA PendingOK ==
  ASSUME Inductive, Pending PROVE CandidateOK' /\ HistoriesOK' /\ ReportOK' /\ Quiet
<1> USE DEF book, Goto, Picking, Working, Applying, Validating
<1>1. at \in Applying /\ cand.pr \in todo /\ cand.pr \in Prs
  <2>1. at \in Applying
    BY DEF Pending, AbortFails, AddTrailer, RollBackFails, ApplyRaises, RecoverFails
  <2> QED BY Parts, Facts, <2>1 DEF CandidateOK
<1>2. CASE AddTrailer
  <2>1. /\ IsGroup(tree.head, cand.start, cand.pr, FALSE)
        /\ Len(tree.head) = Len(cand.start) + 1 /\ tree.files = cand.saved
        /\ ~cand.repaired /\ cand.amended = 0
    BY Parts, <1>2 DEF AddTrailer, CandidateOK, ReportOK
  <2>2. Len(tree.head) \in 1..Len(tree.head) /\ tree.head[Len(tree.head)] \in Commits
    <3>1. Len(tree.head) > 0
      BY Facts, <1>2 DEF AddTrailer
    <3> QED BY Parts, <3>1
  <2> DEFINE s == WithTrailer(tree.head)
  <2>3. /\ s \in Seq(Commits) /\ Len(s) = Len(tree.head)
        /\ s[Len(tree.head)] = Titled(tree.head[Len(tree.head)])
    BY Parts, <2>2, TrailerHistory
  <2>4. s[Len(s)].id = made + 1
    <3>1. made \in Nat
      BY Parts
    <3>2. Titled(tree.head[Len(tree.head)]).id = made + 1
      BY <2>2, <3>1, TitledCommit
    <3> QED BY <2>3, <3>2
  <2>5. IsGroup(s, cand.start, cand.pr, TRUE)
    BY Parts, <2>1, TrailerKeepsGroup
  <2>6. HistoryOK(s)
    BY Parts, <2>2, HistoryKept
  <2> HIDE DEF s
  <2>7. /\ tree'.head = s /\ tree'.files = cand.saved /\ at' = "generate"
        /\ UNCHANGED <<cand, todo, plan, result, green>>
    BY Parts, <1>2, <2>1, <2>3, TreeParts DEF AddTrailer, s
  <2>8. sha'[cand.pr] = made + 1 /\ \A p \in Prs \ {cand.pr} : sha'[p] = sha[p]
    BY Parts, <1>1, <1>2 DEF AddTrailer, TypeOK
  <2>9. CandidateOK'
    BY <1>1, <2>5, <2>7 DEF CandidateOK
  <2>10. HistoriesOK'
    BY Parts, <2>6, <2>7, HistoriesStep
  <2>11. ReportOK'
    BY <2>1, <2>4, <2>7, <2>8 DEF ReportOK, ResolvedSha, HeadId
  <2> QED BY <1>1, <2>7, <2>8, <2>9, <2>10, <2>11 DEF Quiet
<1>3. CASE ~AddTrailer
  <2>1. /\ at' \in {"rollback", "recover", "failed"}
        /\ UNCHANGED <<todo, plan, result, sha, green>>
    BY <1>3 DEF Pending, AbortFails, RollBackFails, ApplyRaises, RecoverFails, RollBackWith
  <2>2. tree'.head \in {tree.head, cand.start}
    <3>1. ResetTo(tree, cand.start).head = cand.start
      BY Parts, ResetTree
    <3> QED BY <1>3, <3>1 DEF Pending, AbortFails, RollBackFails, ApplyRaises, RecoverFails,
                              HalfRolledBack
  <2>3. /\ cand'.start = cand.start /\ cand'.pr = cand.pr /\ cand'.preRepair = cand.preRepair
        /\ cand'.mark = cand.mark
        /\ at' = "rollback" => cand'.outcome = "error"
    <3>1. CASE AbortFails
      BY Parts, <3>1 DEF AbortFails, RollBackWith, Candidates
    <3>2. CASE RollBackFails \/ ApplyRaises \/ RecoverFails
      BY <3>2 DEF RollBackFails, ApplyRaises, RecoverFails
    <3> QED BY <1>3, <3>1, <3>2 DEF Pending
  <2>4. CandidateOK'
    BY <1>1, <2>1, <2>3 DEF CandidateOK
  <2>5. HistoriesOK'
    BY Parts, <2>1, <2>2, <2>3, HistoriesStep
  <2>6. ReportOK'
    BY <2>1 DEF ReportOK
  <2> QED BY <1>1, <2>1, <2>3, <2>4, <2>5, <2>6 DEF Quiet
<1> QED BY <1>2, <1>3

LEMMA AmendedHead ==
  ASSUME Inductive, Len(tree.head) > 0
  PROVE  LET s == Amended(tree.head) IN
         /\ s \in Seq(Commits) /\ HistoryOK(s) /\ s[Len(s)].id = made + 1
         /\ IsGroup(tree.head, cand.start, cand.pr, TRUE) =>
              IsGroup(s, cand.start, cand.pr, TRUE) /\ Len(s) = Len(tree.head)
<1>1. Len(tree.head) \in 1..Len(tree.head) /\ tree.head[Len(tree.head)] \in Commits
  BY Parts
<1> DEFINE s == Amended(tree.head)
<1>2. /\ s \in Seq(Commits) /\ Len(s) = Len(tree.head)
      /\ s[Len(tree.head)] = Rewritten(tree.head[Len(tree.head)])
  BY Parts, <1>1, AmendHistory
<1>3. s[Len(s)].id = made + 1
  BY Parts, <1>1, <1>2, AmendedCommit
<1>4. ASSUME IsGroup(tree.head, cand.start, cand.pr, TRUE)
      PROVE  IsGroup(s, cand.start, cand.pr, TRUE)
  BY Parts, <1>4, AmendKeepsGroup
<1>5. HistoryOK(s)
  BY Parts, <1>1, HistoryKept
<1> QED BY <1>2, <1>3, <1>4, <1>5

LEMMA ValidateOK ==
  ASSUME Inductive, Validate PROVE CandidateOK' /\ HistoriesOK' /\ ReportOK' /\ Quiet
<1> USE DEF book, Goto, Picking, Working, Applying, Validating
<1>1. /\ at \in Validating /\ cand.pr \in todo /\ cand.pr \in Prs
      /\ tree.files \subseteq cand.saved \union {"artifact"}
  <2>1. at \in Validating
    BY DEF Validate, GenerateNothing, GenerateAmends, GenerateFails, RegenerateFails,
           ValidationPasses, ValidationFails, FinalPasses, FinalDoesNotPass, ValidationRaises,
           Passes
  <2> QED BY Parts, Facts, <2>1 DEF CandidateOK
<1>2. CASE GenerateNothing
  <2>1. /\ UNCHANGED <<tree, cand, todo, plan, result, sha, green>>
        /\ \/ at = "generate" /\ at' = "validate"
           \/ at = "regenerate" /\ at' = "accept"
    BY <1>2 DEF GenerateNothing
  <2>2. CandidateOK'
    <3>1. IsGroup(tree.head, cand.start, cand.pr, TRUE)
      BY Parts, <2>1 DEF CandidateOK
    <3> QED BY <1>1, <2>1, <3>1 DEF CandidateOK
  <2>3. HistoriesOK'
    <3>1. tree' = tree /\ cand' = cand /\ plan' = plan /\ at' \in {"validate", "accept"}
      BY <2>1
    <3> QED BY Parts, <3>1, HistoriesStep
  <2>4. ReportOK'
    BY Parts, <2>1 DEF ReportOK, ResolvedSha, HeadId
  <2> QED BY <1>1, <2>1, <2>2, <2>3, <2>4 DEF Quiet
<1>3. CASE GenerateAmends
  <2> DEFINE s == Amended(tree.head)
  <2>1. Len(tree.head) > 0 /\ IsGroup(tree.head, cand.start, cand.pr, TRUE)
    BY Parts, <1>3, Facts DEF GenerateAmends, CandidateOK
  <2>2. /\ s \in Seq(Commits) /\ HistoryOK(s) /\ s[Len(s)].id = made + 1
        /\ IsGroup(s, cand.start, cand.pr, TRUE)
    BY <2>1, AmendedHead
  <2> HIDE DEF s
  <2>3. /\ tree'.head = s /\ tree'.files = tree.files
        /\ UNCHANGED <<todo, plan, result, sha, green>>
    BY Parts, <1>3, <2>2, TreeParts DEF GenerateAmends, FoldGenerated, s
  <2>4. \/ at = "generate" /\ at' = "validate"
        \/ at = "regenerate" /\ at' = "final"
    BY <1>3 DEF GenerateAmends
  <2>5. /\ cand'.start = cand.start /\ cand'.pr = cand.pr /\ cand'.preRepair = cand.preRepair
        /\ cand'.mark = cand.mark /\ cand'.saved = cand.saved
        /\ cand'.repaired = cand.repaired /\ cand'.amended = made + 1
    BY Parts, <1>3 DEF GenerateAmends, Candidates
  <2>6. CandidateOK'
    BY <1>1, <2>2, <2>3, <2>4, <2>5 DEF CandidateOK
  <2>7. HistoriesOK'
    BY Parts, <2>2, <2>3, <2>4, <2>5, HistoriesStep
  <2>8. ReportOK'
    <3>1. made + 1 # 0
      BY Parts
    <3> QED BY Parts, <2>2, <2>3, <2>4, <2>5, <3>1 DEF ReportOK, ResolvedSha, HeadId
  <2> QED BY <1>1, <2>3, <2>4, <2>5, <2>6, <2>7, <2>8 DEF Quiet
<1>4. CASE GenerateFails \/ RegenerateFails \/ FinalDoesNotPass \/ ValidationRaises
  <2>1. /\ UNCHANGED <<cand, todo, plan, result, sha, green>>
        /\ at' \in {"reject", "failed"}
    BY <1>4 DEF GenerateFails, RegenerateFails, FinalDoesNotPass, ValidationRaises
  <2>2. /\ HistoryOK(tree'.head)
        /\ at' = "reject" => tree'.files \subseteq tree.files \union {"artifact"}
    <3>1. CASE GenerateFails
      <4>1. Len(tree.head) > 0
        BY <3>1, Facts DEF GenerateFails
      <4>2. PICK files \in {{}, tree.files} :
              \/ tree' = [tree EXCEPT !.files = files]
              \/ tree' = [tree EXCEPT !.files = files, !.head = Amended(@)]
        BY <3>1 DEF GenerateFails
      <4>3. files \in SUBSET Files
        BY Parts, TreeParts
      <4>4. CASE tree' = [tree EXCEPT !.files = files]
        BY Parts, <4>3, <4>4, TreeParts
      <4>5. CASE tree' = [tree EXCEPT !.files = files, !.head = Amended(@)]
        BY Parts, <4>1, <4>3, <4>5, AmendedTree, AmendedHead
      <4> QED BY <4>2, <4>4, <4>5
    <3>2. CASE RegenerateFails
      <4>1. PICK files \in {{}, tree.files} :
              tree' = [ResetTo(tree, cand.preRepair) EXCEPT !.files = files]
        BY <3>2 DEF RegenerateFails
      <4>2. files \in SUBSET Files
        BY Parts, TreeParts
      <4>3. ResetTo(tree, cand.preRepair) \in WorkTrees
            /\ ResetTo(tree, cand.preRepair).head = cand.preRepair
        BY Parts, ResetTree
      <4> QED BY Parts, <4>1, <4>2, <4>3, TreeParts
    <3>3. CASE FinalDoesNotPass
      <4>1. ResetTo(tree, cand.preRepair) \in WorkTrees
            /\ ResetTo(tree, cand.preRepair).head = cand.preRepair
        BY Parts, ResetTree
      <4> QED BY Parts, <3>3, <4>1, BuildTree DEF FinalDoesNotPass
    <3>4. CASE ValidationRaises
      BY Parts, <3>4 DEF ValidationRaises
    <3> QED BY <1>4, <3>1, <3>2, <3>3, <3>4
  <2>3. CandidateOK'
    BY <1>1, <2>1, <2>2 DEF CandidateOK
  <2>4. HistoriesOK'
    BY Parts, <2>1, <2>2, HistoriesStep
  <2>5. ReportOK'
    BY <2>1 DEF ReportOK
  <2> QED BY <1>1, <2>1, <2>3, <2>4, <2>5 DEF Quiet
<1>5. CASE ValidationPasses \/ FinalPasses
  <2>1. /\ UNCHANGED <<cand, todo, plan, result, sha>> /\ Builds(tree)
        /\ at \in {"validate", "final"} /\ at' = "accept" /\ green' = green \union {HeadId}
    BY <1>5 DEF ValidationPasses, FinalPasses, Passes
  <2>2. tree'.head = tree.head /\ tree'.files \subseteq tree.files \union {"artifact"}
    BY Parts, <2>1, BuildTree
  <2>3. CandidateOK'
    <3>1. IsGroup(tree.head, cand.start, cand.pr, TRUE)
      BY Parts, <2>1 DEF CandidateOK
    <3> QED BY <1>1, <2>1, <2>2, <3>1 DEF CandidateOK
  <2>4. HistoriesOK'
    BY Parts, <2>1, <2>2, HistoriesStep
  <2>5. ReportOK'
    <3>1. cand.repaired \/ ResolvedSha = HeadId
      BY Parts, <2>1 DEF ReportOK
    <3> QED BY <2>1, <2>2, <3>1 DEF ReportOK, ResolvedSha, HeadId
  <2> QED BY <1>1, <2>1, <2>3, <2>4, <2>5 DEF Quiet
<1>6. ASSUME NEW unmapped \in BOOLEAN, ValidationFails(unmapped)
      PROVE  CandidateOK' /\ HistoriesOK' /\ ReportOK' /\ Quiet
  <2>1. /\ UNCHANGED <<todo, plan, result, sha, green>> /\ Builds(tree)
        /\ at = "validate" /\ at' \in {"reject", "adapt", "repair"}
    BY <1>6 DEF ValidationFails
  <2>2. tree'.head = tree.head /\ tree'.files \subseteq tree.files \union {"artifact"}
    BY Parts, <2>1, BuildTree
  <2>3. /\ cand'.start = cand.start /\ cand'.pr = cand.pr /\ cand'.preRepair = tree.head
        /\ cand'.mark = cand.mark /\ cand'.saved = cand.saved
    BY Parts, <1>6 DEF ValidationFails, Candidates
  <2>4. CandidateOK'
    <3>1. IsGroup(tree.head, cand.start, cand.pr, TRUE)
      BY Parts, <2>1 DEF CandidateOK
    <3> QED BY <1>1, <2>1, <2>2, <2>3, <3>1 DEF CandidateOK
  <2>5. HistoriesOK'
    BY Parts, <2>1, <2>2, <2>3, HistoriesStep
  <2>6. ReportOK'
    BY <2>1 DEF ReportOK
  <2> QED BY <1>1, <2>1, <2>3, <2>4, <2>5, <2>6 DEF Quiet
<1> QED BY <1>2, <1>3, <1>4, <1>5, <1>6 DEF Validate

LEMMA RepairOK ==
  ASSUME Inductive, Repair PROVE CandidateOK' /\ HistoriesOK' /\ ReportOK' /\ Quiet
<1> USE DEF book, Goto, Picking, Working, Applying, Validating
<1>1. /\ at \in {"repair", "revalidate", "adapt", "validate_adapted"} /\ cand.pr \in todo
      /\ cand.pr \in Prs /\ tree.files \subseteq cand.saved \union {"artifact"}
      /\ IsGroup(tree.head, cand.start, cand.pr, TRUE) /\ Len(tree.head) > 0
  <2>1. at \in {"repair", "revalidate", "adapt", "validate_adapted"}
    BY DEF Repair, RepairIsRefused, RepairCommits, RepairPasses, RepairDoesNotPass,
           RepairIsPartial, RepairWasOfTestsOnly, AdaptationIsRefused, AdaptationCommits,
           AdaptationPasses, AdaptationDoesNotPass
  <2> QED BY Parts, Facts, <2>1 DEF CandidateOK
<1>2. CASE RepairCommits \/ AdaptationCommits
  <2>1. PICK kind \in {"repair", "adapt"} : tree' = Committed(NewCommit(kind, {}, FALSE))
    BY <1>2 DEF RepairCommits, AdaptationCommits
  <2> DEFINE c == NewCommit(kind, {}, FALSE)
  <2>2. /\ c \in Commits /\ c.pr = cand.pr /\ c.named = FALSE /\ c.marked = FALSE
        /\ c.kind = kind
    <3>1. {} \in Trees /\ TypeOK
      BY Parts DEF Trees
    <3>2. CASE kind = "repair"
      BY <3>1, <3>2, NewCommits
    <3>3. CASE kind = "adapt"
      BY <3>1, <3>3, NewCommits
    <3> QED BY <3>2, <3>3
  <2>3. tree'.head = Append(tree.head, c) /\ tree'.files = tree.files
    BY Parts, <2>1, <2>2, CommittedTree
  <2> HIDE DEF c
  <2>4. IsGroup(tree'.head, cand.start, cand.pr, TRUE)
    <3>1. IsGroup(Append(tree.head, c), cand.start, cand.pr, TRUE)
      BY Parts, <1>1, <2>2, AppendKeepsGroup
    <3> QED BY <2>3, <3>1, Zenon
  <2>5. Len(tree'.head) > Len(cand.start) + 1
    <3>1. Len(cand.start) < Len(tree.head)
      BY <1>1 DEF IsGroup
    <3>2. Len(tree'.head) = Len(tree.head) + 1
      BY Parts, <2>2, <2>3, AppendHistory
    <3>3. Len(cand.start) \in Nat /\ Len(tree.head) \in Nat
      BY Parts
    <3> QED BY <3>1, <3>2, <3>3
  <2>6. HistoryOK(tree'.head)
    <3>1. HistoryOK(<<c>>)
      BY <1>1, <2>2, NewHistory
    <3> QED BY Parts, <2>2, <2>3, <3>1, HistoryKept
  <2>7. /\ cand'.start = cand.start /\ cand'.pr = cand.pr /\ cand'.preRepair = cand.preRepair
        /\ HistoryOK(cand'.mark) /\ cand'.saved = cand.saved
    <3>1. CASE cand' = cand
      BY Parts, <3>1
    <3>2. CASE cand' = [cand EXCEPT !.mark = tree.head]
      BY Parts, <3>2 DEF Candidates
    <3> QED BY <1>2, <3>1, <3>2 DEF RepairCommits, AdaptationCommits
  <2>8. /\ UNCHANGED <<todo, plan, result, sha, green>>
        /\ at' \in {"revalidate", "validate_adapted"}
    BY <1>2 DEF RepairCommits, AdaptationCommits
  <2>9. CandidateOK'
    BY <1>1, <2>3, <2>4, <2>5, <2>7, <2>8 DEF CandidateOK
  <2>10. HistoriesOK'
    BY Parts, <2>6, <2>7, <2>8, HistoriesStep
  <2>11. ReportOK'
    BY <2>8 DEF ReportOK
  <2> QED BY <1>1, <2>7, <2>8, <2>9, <2>10, <2>11 DEF Quiet
<1>3. CASE RepairPasses \/ AdaptationPasses
  <2>1. /\ UNCHANGED <<todo, plan, result, sha>> /\ Builds(tree)
        /\ at' = "regenerate" /\ green' = green \union {HeadId}
        /\ cand' = [cand EXCEPT !.repaired = TRUE]
    BY <1>3 DEF RepairPasses, AdaptationPasses, Passes
  <2>2. tree'.head = tree.head /\ tree'.files \subseteq tree.files \union {"artifact"}
    BY Parts, <2>1, BuildTree
  <2>3. /\ cand'.start = cand.start /\ cand'.pr = cand.pr /\ cand'.preRepair = cand.preRepair
        /\ cand'.mark = cand.mark /\ cand'.saved = cand.saved /\ cand'.repaired
    BY Parts, <2>1 DEF Candidates
  <2>4. CandidateOK'
    <3>1. IsGroup(tree'.head, cand'.start, cand'.pr, TRUE)
      BY <1>1, <2>2, <2>3
    <3>2. cand'.pr \in todo' /\ tree'.files \subseteq cand'.saved \union {"artifact"}
      BY <1>1, <2>1, <2>2, <2>3
    <3> QED BY <2>1, <3>1, <3>2 DEF CandidateOK
  <2>5. HistoriesOK'
    BY Parts, <2>1, <2>2, <2>3, HistoriesStep
  <2>6. ReportOK'
    BY <2>1, <2>2, <2>3 DEF ReportOK, HeadId
  <2> QED BY <1>1, <2>1, <2>3, <2>4, <2>5, <2>6 DEF Quiet
<1>4. CASE RepairIsRefused \/ AdaptationIsRefused \/ AdaptationDoesNotPass
  <2>1. /\ UNCHANGED <<cand, todo, plan, result, sha, green>>
        /\ \/ RepairIsRefused /\ at' = "adapt" /\ tree' = ResetTo(tree, tree.head)
           \/ at' = "reject"
    BY <1>4 DEF RepairIsRefused, AdaptationIsRefused, AdaptationDoesNotPass
  <2>2. /\ tree'.head \in {tree.head, cand.preRepair, cand.mark}
        /\ tree'.files \subseteq tree.files \union {"artifact"}
    <3>1. CASE RepairIsRefused
      BY Parts, <3>1, ResetTree DEF RepairIsRefused
    <3>2. CASE AdaptationIsRefused
      BY Parts, <3>2, ResetTree DEF AdaptationIsRefused, WithoutPartial
    <3>3. CASE AdaptationDoesNotPass
      <4>1. WithoutPartial(cand.mark) \in {cand.preRepair, cand.mark}
        BY DEF WithoutPartial
      <4> DEFINE t == ResetTo(tree, WithoutPartial(cand.mark))
      <4>2. tree \in WorkTrees /\ WithoutPartial(cand.mark) \in Seq(Commits) /\ TypeOK
        BY Parts, <4>1
      <4>3. t \in WorkTrees /\ t.head = WithoutPartial(cand.mark)
        BY <4>2, ResetTree
      <4>4. Builds(t)
        BY <3>3 DEF AdaptationDoesNotPass
      <4> HIDE DEF t
      <4>5. tree'.head = t.head /\ tree'.files \subseteq tree.files \union {"artifact"}
        BY <4>2, <4>3, <4>4, BuildTree
      <4> QED BY <4>1, <4>3, <4>5
    <3> QED BY <1>4, <3>1, <3>2, <3>3
  <2>3. at' = "adapt" => tree'.head = tree.head
    <3>1. ResetTo(tree, tree.head).head = tree.head
      BY Parts, ResetTree
    <3> QED BY <2>1, <3>1
  <2>4. CandidateOK'
    <3>1. at' = "adapt" => IsGroup(tree'.head, cand.start, cand.pr, TRUE)
      BY <1>1, <2>3
    <3> QED BY <1>1, <2>1, <2>2, <3>1 DEF CandidateOK
  <2>5. HistoriesOK'
    BY Parts, <2>1, <2>2, HistoriesStep
  <2>6. ReportOK'
    BY <2>1 DEF ReportOK
  <2> QED BY <1>1, <2>1, <2>4, <2>5, <2>6 DEF Quiet
<1>5. CASE RepairDoesNotPass \/ RepairWasOfTestsOnly \/ RepairIsPartial
  <2>1. UNCHANGED <<todo, plan, result, sha, green>> /\ at = "revalidate" /\ at' = "adapt"
    BY <1>5 DEF RepairDoesNotPass, RepairWasOfTestsOnly, RepairIsPartial
  <2>2. /\ cand'.start = cand.start /\ cand'.pr = cand.pr /\ cand'.preRepair = cand.preRepair
        /\ cand'.mark = cand.mark /\ cand'.saved = cand.saved
    BY Parts, <1>5 DEF RepairDoesNotPass, RepairWasOfTestsOnly, RepairIsPartial, Candidates
  <2>3. Len(tree.head) > 1 /\ Len(tree.head) > Len(cand.start) + 1
    BY Parts, Facts, <2>1 DEF CandidateOK
  <2>4. /\ IsGroup(tree'.head, cand.start, cand.pr, TRUE) /\ HistoryOK(tree'.head)
        /\ tree'.files \subseteq tree.files \union {"artifact"}
    <3>1. CASE RepairDoesNotPass \/ RepairWasOfTestsOnly
      <4> DEFINE s == Front(tree.head)
      <4>1. s \in Seq(Commits) /\ HistoryOK(s)
        BY Parts, <2>3, FrontHistory, HistoryKept
      <4>2. IsGroup(s, cand.start, cand.pr, TRUE)
        BY Parts, <1>1, <2>3, FrontKeepsGroup
      <4>3. Builds(ResetTo(tree, s))
        BY <3>1 DEF RepairDoesNotPass, RepairWasOfTestsOnly
      <4> HIDE DEF s
      <4>4. ResetTo(tree, s) \in WorkTrees /\ ResetTo(tree, s).head = s
        BY Parts, <4>1, ResetTree
      <4>5. tree'.head = s /\ tree'.files \subseteq tree.files \union {"artifact"}
        BY Parts, <4>3, <4>4, BuildTree
      <4> QED BY <4>1, <4>2, <4>5
    <3>2. CASE RepairIsPartial
      <4> DEFINE s == Amended(tree.head)
      <4>1. s \in Seq(Commits) /\ HistoryOK(s) /\ IsGroup(s, cand.start, cand.pr, TRUE)
        BY <1>1, AmendedHead
      <4>2. Builds(tree) \/ Builds([tree EXCEPT !.head = s])
        BY <3>2 DEF RepairIsPartial
      <4> HIDE DEF s
      <4>3. [tree EXCEPT !.head = s] \in WorkTrees /\ [tree EXCEPT !.head = s].head = s
        BY Parts, <4>1, TreeParts
      <4>4. /\ tree'.head \in {tree.head, s}
            /\ tree'.files \subseteq tree.files \union {"artifact"}
        BY Parts, <4>2, <4>3, BuildTree
      <4> QED BY Parts, <1>1, <4>1, <4>4
    <3> QED BY <1>5, <3>1, <3>2
  <2>5. CandidateOK'
    BY <1>1, <2>1, <2>2, <2>4 DEF CandidateOK
  <2>6. HistoriesOK'
    BY Parts, <2>1, <2>2, <2>4, HistoriesStep
  <2>7. ReportOK'
    BY <2>1 DEF ReportOK
  <2> QED BY <1>1, <2>1, <2>2, <2>5, <2>6, <2>7 DEF Quiet
<1> QED BY <1>2, <1>3, <1>4, <1>5 DEF Repair

-----------------------------------------------------------------------------
(* What a step does to the branch and the report *)

(* The branch, the applied candidates and their reports stay. *)
LEMMA BranchKept ==
  ASSUME AcceptedIsValidated, AcceptedIsNamed, Branch' = Branch, Applied' = Applied,
         green \subseteq green', \A p \in Prs : Of(p) = {} \/ sha'[p] = sha[p]
  PROVE  AcceptedIsValidated' /\ AcceptedIsNamed'
<1>1. \A p : Of(p)' = Of(p)
  BY DEF Of
<1>2. \A i, p : (IsFirstOf(i, p)' <=> IsFirstOf(i, p)) /\ (IsLastOf(i, p)' <=> IsLastOf(i, p))
  BY <1>1 DEF IsFirstOf, IsLastOf
<1>3. AcceptedIsValidated'
  BY <1>2 DEF AcceptedIsValidated
<1>4. AcceptedIsNamed'
  <2> SUFFICES ASSUME NEW p \in Prs
               PROVE  /\ (p \in Applied)' <=> (Of(p)' # {})
                      /\ \A i \in Of(p)' :
                           /\ Branch'[i].named <=> IsFirstOf(i, p)'
                           /\ IsLastOf(i, p)' => sha'[p] = Branch'[i].id
    BY DEF AcceptedIsNamed
  <2> QED BY <1>1, <1>2 DEF AcceptedIsNamed
<1> QED BY <1>3, <1>4

LEMMA QuietKeeps ==
  ASSUME Inductive, Quiet
  PROVE  BookOK' /\ AcceptedIsValidated' /\ AcceptedIsNamed' /\ NobodyLeftOut'
<1> USE DEF Working, Applying, Validating
<1>1. /\ at \notin {"plan", "next", "done"} /\ at' \notin {"plan", "next", "done"}
      /\ todo' = todo /\ plan' = plan /\ result' = result
  BY DEF Quiet
<1>2. Branch' = Branch
  BY <1>1 DEF Quiet, Branch, Settled
<1>3. Applied' = Applied
  BY <1>1 DEF Applied
<1>4. \A p \in Prs : Of(p) = {} \/ sha'[p] = sha[p]
  <2>1. result[cand.pr] = "none"
    BY Facts DEF Quiet
  <2>2. cand.pr \notin Applied
    BY <2>1 DEF Applied
  <2> QED BY Parts, <2>2 DEF AcceptedIsNamed, Quiet
<1>5. AcceptedIsValidated' /\ AcceptedIsNamed'
  BY Parts, <1>2, <1>3, <1>4, BranchKept DEF Quiet
<1>6. BookOK'
  BY Parts, <1>1 DEF BookOK
<1>7. NobodyLeftOut'
  BY <1>1 DEF NobodyLeftOut
<1> QED BY <1>5, <1>6, <1>7

(* A candidate ends with an outcome, and the branch as it was. *)
LEMMA SettleKeeps ==
  ASSUME Inductive, TypeOK', at \in Working, at' = "next", todo' = todo \ {cand.pr},
         NEW outcome \in Outcomes \ {"none", "applied"},
         result' = [result EXCEPT ![cand.pr] = outcome],
         UNCHANGED <<plan, cand, green>>, tree'.head = cand.start,
         \A p \in Prs \ {cand.pr} : sha'[p] = sha[p]
  PROVE  Inductive'
<1> USE DEF Working, Applying, Validating
<1>1. cand.pr \in Prs /\ cand.pr \in todo /\ result[cand.pr] = "none"
  BY Facts
<1>2. /\ result'[cand.pr] = outcome /\ \A p \in Prs \ {cand.pr} : result'[p] = result[p]
  BY Parts, <1>1 DEF TypeOK
<1>3. Applied' = Applied
  BY <1>1, <1>2 DEF Applied
<1>4. Branch' = Branch
  BY DEF Branch, Settled
<1>5. \A p \in Prs : Of(p) = {} \/ sha'[p] = sha[p]
  <2>1. cand.pr \notin Applied
    BY <1>1 DEF Applied
  <2> QED BY Parts, <2>1 DEF AcceptedIsNamed
<1>6. AcceptedIsValidated' /\ AcceptedIsNamed'
  BY Parts, <1>3, <1>4, <1>5, BranchKept
<1>7. CandidateOK' /\ ReportOK' /\ NobodyLeftOut'
  BY DEF CandidateOK, ReportOK, NobodyLeftOut, Picking
<1>8. HistoriesOK'
  BY Parts, HistoriesStep
<1>9. BookOK'
  BY Parts, <1>1, <1>2 DEF BookOK
<1> QED BY <1>6, <1>7, <1>8, <1>9 DEF Inductive

(* The steps that end a candidate without applying it. *)
Drops == AbortEmptyPick \/ AbortRefusedPick \/ RollBack \/ Recover \/ Reject \/ AcceptNothing

LEMMA DropsKeep == ASSUME Inductive, TypeOK', Drops PROVE Inductive'
<1> USE DEF Working, Applying, Validating, Settle
<1>1. /\ at \in Working /\ at' = "next" /\ todo' = todo \ {cand.pr}
      /\ UNCHANGED <<plan, cand, green>>
  BY DEF Drops, AbortEmptyPick, AbortRefusedPick, RollBack, Recover, Reject, AcceptNothing
<1>2. PICK outcome \in Outcomes \ {"none", "applied"} :
        result' = [result EXCEPT ![cand.pr] = outcome]
  BY Parts DEF Drops, AbortEmptyPick, AbortRefusedPick, RollBack, Recover, Reject,
               AcceptNothing, CandidateOK, Outcomes
<1>h. tree \in WorkTrees /\ cand.start \in Seq(Commits)
  BY Parts
<1>3. tree'.head = cand.start
  <2>1. CASE AbortEmptyPick
    <3>1. tree.head = cand.start
      BY Parts, <2>1 DEF AbortEmptyPick, CandidateOK, Picking
    <3> QED BY Parts, <2>1, <3>1, ResetTree DEF AbortEmptyPick
  <2>2. CASE AbortRefusedPick \/ Reject \/ AcceptNothing
    <3>1. ResetTo(tree, cand.start).head = cand.start
      BY <1>h, ResetTree
    <3> QED BY <2>2, <3>1 DEF AbortRefusedPick, Reject, AcceptNothing
  <2>3. CASE RollBack \/ Recover
    <3>1. ResetTo(tree, cand.start) \in WorkTrees /\ ResetTo(tree, cand.start).head = cand.start
      BY <1>h, ResetTree
    <3>2. RolledBack.head = cand.start
      BY Parts, <3>1, CandidateParts, TreeParts DEF RolledBack
    <3> QED BY <2>3, <3>2 DEF RollBack, Recover
  <2> QED BY <2>1, <2>2, <2>3 DEF Drops
<1>4. \A p \in Prs \ {cand.pr} : sha'[p] = sha[p]
  <2>1. CASE AcceptNothing
    BY Parts, <2>1 DEF AcceptNothing, TypeOK
  <2>2. CASE ~AcceptNothing
    BY <2>2 DEF Drops, AbortEmptyPick, AbortRefusedPick, RollBack, Recover, Reject
  <2> QED BY <2>1, <2>2
<1> QED BY <1>1, <1>2, <1>3, <1>4, SettleKeeps

LEMMA AcceptGroup ==
  ASSUME Inductive, Accept
  PROVE  /\ cand.pr \in Prs /\ cand.pr \in todo /\ cand.pr \notin Applied /\ Of(cand.pr) = {}
         /\ Branch = cand.start /\ Branch' = tree.head
         /\ Applied' = Applied \union {cand.pr}
         /\ IsGroup(tree.head, cand.start, cand.pr, TRUE)
         /\ sha'[cand.pr] = HeadId /\ HeadId \in green
         /\ \A p \in Prs \ {cand.pr} : sha'[p] = sha[p]
<1> USE DEF Working, Applying, Validating, Settle
<1>1. at = "accept" /\ at' = "next" /\ tree' = tree /\ cand' = cand
  BY DEF Accept
<1>2. cand.pr \in Prs /\ cand.pr \in todo /\ result[cand.pr] = "none"
  BY <1>1, Facts
<1>3. Branch = cand.start /\ Branch' = tree.head
  BY <1>1 DEF Branch, Settled
<1>4. cand.pr \notin Applied /\ Of(cand.pr) = {}
  BY Parts, <1>2 DEF Applied, AcceptedIsNamed
<1>5. Applied' = Applied \union {cand.pr}
  <2>1. result' = [result EXCEPT ![cand.pr] = "applied"] /\ result \in [Prs -> Outcomes]
    BY Parts DEF Accept, TypeOK
  <2> QED BY <1>2, <2>1 DEF Applied
<1>6. IsGroup(tree.head, cand.start, cand.pr, TRUE)
  BY Parts, <1>1 DEF CandidateOK
<1>7. ResolvedSha = HeadId /\ HeadId \in green
  BY Parts, <1>1 DEF ReportOK, ResolvedSha
<1>8. sha'[cand.pr] = HeadId /\ \A p \in Prs \ {cand.pr} : sha'[p] = sha[p]
  BY Parts, <1>2, <1>7 DEF Accept, TypeOK
<1> QED BY <1>2, <1>3, <1>4, <1>5, <1>6, <1>7, <1>8

LEMMA AcceptKeeps == ASSUME Inductive, TypeOK', Accept PROVE Inductive'
<1> USE DEF Working, Applying, Validating, Settle
<1>1. PICK b \in Seq(Commits), s \in Seq(Commits), q \in Prs :
        b = cand.start /\ s = tree.head /\ q = cand.pr
  BY Parts, AcceptGroup
<1>2. /\ Len(b) \in Nat /\ Len(s) \in Nat /\ DOMAIN b = 1..Len(b) /\ DOMAIN s = 1..Len(s)
      /\ \A i \in DOMAIN s : s[i] \in Commits
  OBVIOUS
<1>3. /\ Len(b) < Len(s) /\ \A i \in 1..Len(b) : s[i] = b[i]
      /\ \A i \in Len(b) + 1 .. Len(s) : s[i].pr = q /\ (s[i].named <=> i = Len(b) + 1)
  <2>1. IsGroup(s, b, q, TRUE)
    BY <1>1, AcceptGroup
  <2> QED BY <1>2, <2>1 DEF IsGroup, Extends
<1>4. Branch = b /\ Branch' = s /\ Of(q) = {}
  BY <1>1, AcceptGroup
<1>5. ASSUME NEW p \in Prs \ {q} PROVE Of(p)' = Of(p) /\ Of(p) \subseteq 1..Len(b)
  <2>1. Of(p) = {i \in 1..Len(b) : b[i].pr = p} /\ Of(p)' = {i \in 1..Len(s) : s[i].pr = p}
    BY <1>2, <1>4 DEF Of
  <2>2. ASSUME NEW i PROVE i \in Of(p)' <=> i \in Of(p)
    BY <1>2, <1>3, <1>5, <2>1
  <2> QED BY <2>1, <2>2
<1>6. Of(q)' = Len(b) + 1 .. Len(s)
  <2>1. {} = {i \in 1..Len(b) : b[i].pr = q} /\ Of(q)' = {i \in 1..Len(s) : s[i].pr = q}
    BY <1>2, <1>4 DEF Of
  <2>2. ASSUME NEW i PROVE i \in Of(q)' <=> i \in Len(b) + 1 .. Len(s)
    BY <1>2, <1>3, <2>1
  <2> QED BY <2>2
<1>7. ASSUME NEW p \in Prs \ {q}, NEW i
      PROVE  (IsFirstOf(i, p)' <=> IsFirstOf(i, p)) /\ (IsLastOf(i, p)' <=> IsLastOf(i, p))
  BY <1>5, <1>7 DEF IsFirstOf, IsLastOf
<1>8. ASSUME NEW i
      PROVE  (IsFirstOf(i, q)' <=> i = Len(b) + 1) /\ (IsLastOf(i, q)' <=> i = Len(s))
  BY <1>2, <1>3, <1>6 DEF IsFirstOf, IsLastOf
<1>9. s[Len(s)].id = HeadId /\ sha'[q] = HeadId /\ HeadId \in green
  BY <1>1, AcceptGroup DEF HeadId
<1>10. Applied' = Applied \union {q} /\ q \notin Applied
  BY <1>1, AcceptGroup
<1> HIDE DEF Settle
<1>11. /\ at' = "next" /\ todo' = todo \ {q} /\ result' = [result EXCEPT ![q] = "applied"]
       /\ UNCHANGED <<plan, tree, cand, green>>
  BY <1>1 DEF Accept, Settle
<1>12. AcceptedIsValidated'
  <2> SUFFICES ASSUME NEW p \in Applied', NEW i \in DOMAIN s, IsLastOf(i, p)'
               PROVE  s[i].id \in green'
    BY <1>4 DEF AcceptedIsValidated
  <2>1. CASE p = q
    BY <1>8, <1>9, <1>11, <2>1
  <2>2. CASE p # q
    <3>1. p \in Applied /\ p \in Prs \ {q}
      BY <1>10, <2>2 DEF Applied
    <3>2. IsLastOf(i, p) /\ i \in 1..Len(b)
      BY <1>5, <1>7, <3>1 DEF IsLastOf
    <3>3. b[i].id \in green
      BY Parts, <1>2, <1>4, <3>1, <3>2 DEF AcceptedIsValidated
    <3> QED BY <1>3, <1>11, <3>2, <3>3
  <2> QED BY <2>1, <2>2
<1>13. AcceptedIsNamed'
  <2> SUFFICES ASSUME NEW p \in Prs
               PROVE  /\ (p \in Applied)' <=> (Of(p)' # {})
                      /\ \A i \in Of(p)' :
                           /\ s[i].named <=> IsFirstOf(i, p)'
                           /\ IsLastOf(i, p)' => sha'[p] = s[i].id
    BY <1>4 DEF AcceptedIsNamed
  <2>1. CASE p = q
    <3>1. Len(s) \in Len(b) + 1 .. Len(s)
      BY <1>2, <1>3
    <3>2. (p \in Applied)' <=> (Of(p)' # {})
      BY <1>6, <1>10, <2>1, <3>1
    <3>3. ASSUME NEW i \in Of(p)' PROVE s[i].named <=> IsFirstOf(i, p)'
      BY <1>3, <1>6, <1>8, <2>1
    <3>4. ASSUME NEW i \in Of(p)', IsLastOf(i, p)' PROVE sha'[p] = s[i].id
      BY <1>8, <1>9, <2>1, <3>4
    <3> QED BY <3>2, <3>3, <3>4
  <2>2. CASE p # q
    <3>1. Of(p)' = Of(p) /\ Of(p) \subseteq 1..Len(b) /\ sha'[p] = sha[p]
      BY <1>1, <1>5, <2>2, AcceptGroup
    <3>2. (p \in Applied)' <=> (Of(p)' # {})
      BY Parts, <1>10, <2>2, <3>1 DEF AcceptedIsNamed
    <3>3. ASSUME NEW i \in Of(p)'
          PROVE  (s[i].named <=> IsFirstOf(i, p)') /\ (IsLastOf(i, p)' => sha'[p] = s[i].id)
      <4>1. i \in Of(p) /\ s[i] = b[i] /\ b = Branch
        BY <1>3, <1>4, <3>1, <3>3
      <4>2. (b[i].named <=> IsFirstOf(i, p)) /\ (IsLastOf(i, p) => sha[p] = b[i].id)
        BY Parts, <4>1 DEF AcceptedIsNamed
      <4>3. (IsFirstOf(i, p)' <=> IsFirstOf(i, p)) /\ (IsLastOf(i, p)' <=> IsLastOf(i, p))
        BY <1>7, <2>2
      <4> QED BY <3>1, <4>1, <4>2, <4>3
    <3> QED BY <3>2, <3>3
  <2> QED BY <2>1, <2>2
<1>14. CandidateOK' /\ ReportOK' /\ NobodyLeftOut'
  BY <1>11 DEF CandidateOK, ReportOK, NobodyLeftOut, Picking
<1>15. HistoriesOK'
  BY Parts, <1>11, HistoriesStep
<1>16. BookOK'
  BY Parts, <1>11 DEF BookOK, TypeOK, Outcomes
<1> QED BY <1>12, <1>13, <1>14, <1>15, <1>16 DEF Inductive

-----------------------------------------------------------------------------
(* The loop *)

LEMMA PrepareKeeps == ASSUME Inductive, TypeOK', PreparePlans PROVE Inductive'
<1>1. /\ at = "plan" /\ at' = "next" /\ tree.head = Earlier /\ cand = NoCandidate
      /\ UNCHANGED <<todo, tree, cand, result, sha, green>>
  BY Parts DEF PreparePlans, BookOK
<1>2. Branch' = Branch
  BY <1>1 DEF Branch, Settled, NoCandidate
<1>3. AcceptedIsValidated' /\ AcceptedIsNamed'
  <2>1. Applied' = Applied
    BY <1>1 DEF Applied
  <2> QED BY Parts, <1>1, <1>2, <2>1, BranchKept
<1>4. CandidateOK' /\ ReportOK' /\ NobodyLeftOut'
  BY <1>1 DEF CandidateOK, ReportOK, NobodyLeftOut, Picking, Working, Applying, Validating
<1>5. HistoriesOK'
  <2>1. Earlier = tree'.head /\ Earlier = cand'.start /\ Earlier = cand'.preRepair
        /\ Earlier = cand'.mark
    BY <1>1 DEF NoCandidate
  <2>2. \A i \in DOMAIN Earlier : i = 1 /\ ~Earlier[i].marked /\ Earlier[i].pr = 0
    BY DEF Earlier
  <2> QED BY <1>1, <2>1, <2>2 DEF HistoriesOK, HistoryOK
<1>6. \A p \in Prs : plan'[p].change = plan'[p].whole
  <2> TAKE p \in Prs
  <2>1. plan'[p] \in {PlanOf(h) : h \in Histories} \union {Refused}
    BY DEF PreparePlans
  <2> QED BY <2>1, PlanIsWhole DEF Refused
<1>7. BookOK'
  BY Parts, <1>1, <1>6 DEF BookOK
<1> QED BY <1>3, <1>4, <1>5, <1>7 DEF Inductive

(* The steps of the loop that leave the work tree alone. *)
LEMMA LoopKeeps ==
  ASSUME Inductive, TypeOK',
         SetupFails \/ Finish \/ (\E p \in Prs : SkipKnown(p) \/ SkipUnplanned(p) \/ StartCandidate(p))
  PROVE  Inductive'
<1> USE DEF book, Settle, Goto
<1>1. /\ tree' = tree /\ plan' = plan /\ green' = green /\ sha' = sha
      /\ \/ at = "plan" /\ at' = "failed" /\ UNCHANGED <<cand, result>>
         \/ at = "next" /\ at' \in {"next", "done"} /\ cand' = cand
         \/ at = "next" /\ at' = "pick" /\ cand'.start = tree.head /\ result' = result
  BY DEF SetupFails, Finish, SkipKnown, SkipUnplanned, StartCandidate, Fresh
<1>2. Branch' = Branch
  BY <1>1 DEF Branch, Settled
<1>3. Applied' = Applied
  <2>1. CASE SetupFails \/ Finish \/ (\E p \in Prs : StartCandidate(p))
    BY <2>1 DEF SetupFails, Finish, StartCandidate, Applied
  <2>2. ASSUME NEW p \in Prs, SkipKnown(p) \/ SkipUnplanned(p) PROVE Applied' = Applied
    <3>1. p \in todo /\ result' \in {[result EXCEPT ![p] = "known"], [result EXCEPT ![p] = "error"]}
      BY <2>2 DEF SkipKnown, SkipUnplanned, IsNext
    <3>2. result[p] = "none" /\ result \in [Prs -> Outcomes]
      BY Parts, <3>1 DEF BookOK, TypeOK
    <3> QED BY <3>1, <3>2 DEF Applied
  <2> QED BY <2>1, <2>2
<1>4. AcceptedIsValidated' /\ AcceptedIsNamed'
  BY Parts, <1>1, <1>2, <1>3, BranchKept
<1>5. CandidateOK' /\ ReportOK'
  <2>1. CASE at' \in {"failed", "next", "done"}
    BY <2>1 DEF CandidateOK, ReportOK, Picking, Working, Applying, Validating
  <2>2. CASE at' = "pick"
    <3>1. PICK p \in Prs : StartCandidate(p)
      BY <2>2 DEF SetupFails, Finish, SkipKnown, SkipUnplanned
    <3>2. /\ cand'.pr \in todo /\ cand'.start = tree.head /\ cand'.saved = tree.files
          /\ cand'.repaired = FALSE /\ cand'.amended = 0 /\ UNCHANGED <<todo, tree>>
      BY <3>1 DEF StartCandidate, Fresh, IsNext
    <3> QED BY <2>2, <3>2 DEF CandidateOK, ReportOK, Picking, Working, Applying, Validating
  <2> QED BY <1>1, <2>1, <2>2
<1>6. HistoriesOK'
  <2>1. HistoryOK(cand'.start) /\ HistoryOK(cand'.preRepair) /\ HistoryOK(cand'.mark)
    <3>1. CASE cand' = cand
      BY Parts, <3>1
    <3>2. ASSUME NEW p \in Prs, StartCandidate(p)
          PROVE  cand'.start = tree.head /\ cand'.preRepair = tree.head /\ cand'.mark = tree.head
      BY <3>2 DEF StartCandidate, Fresh
    <3> QED BY Parts, <3>1, <3>2 DEF SetupFails, Finish, SkipKnown, SkipUnplanned
  <2> QED BY Parts, <1>1, <2>1, HistoriesStep
<1>7. BookOK'
  <2>1. CASE SetupFails \/ Finish \/ (\E p \in Prs : StartCandidate(p))
    BY Parts, <2>1 DEF SetupFails, Finish, StartCandidate, BookOK
  <2>2. ASSUME NEW p \in Prs, SkipKnown(p) \/ SkipUnplanned(p) PROVE BookOK'
    BY Parts, <2>2 DEF SkipKnown, SkipUnplanned, BookOK, TypeOK
  <2> QED BY <2>1, <2>2
<1>8. NobodyLeftOut'
  <2>1. CASE Finish
    BY Parts, <2>1 DEF Finish, NobodyLeftOut, CapReached, Applied, BookOK
  <2>2. CASE ~Finish
    BY <2>2 DEF SetupFails, SkipKnown, SkipUnplanned, StartCandidate, NobodyLeftOut
  <2> QED BY <2>1, <2>2
<1> QED BY <1>4, <1>5, <1>6, <1>7, <1>8 DEF Inductive

-----------------------------------------------------------------------------
(* The theorems *)

LEMMA StepType == ASSUME Inductive, Next PROVE TypeOK'
BY LoopType, PickType, ResolveType, ConcludeType, ValidateType, RepairType DEF Next

LEMMA InitInductive == Init => Inductive
<1> SUFFICES ASSUME Init PROVE Inductive
  OBVIOUS
<1>1. TypeOK
  BY InitType
<1>2. \A p \in Prs : result[p] = "none" /\ p \in todo /\ plan[p] = Refused
  BY DEF Init
<1>3. tree.head = Earlier /\ cand = NoCandidate /\ at = "plan" /\ Branch = Earlier
  BY DEF Init, Branch, Settled, NoCandidate
<1>4. CandidateOK /\ ReportOK /\ NobodyLeftOut
  BY <1>3 DEF CandidateOK, ReportOK, NobodyLeftOut, Picking, Working, Applying, Validating
<1>5. \A i \in DOMAIN Earlier : i = 1 /\ ~Earlier[i].marked /\ Earlier[i].pr = 0
  BY DEF Earlier
<1>6. HistoriesOK
  BY <1>3, <1>5 DEF HistoriesOK, HistoryOK, NoCandidate
<1>7. BookOK
  BY <1>2, <1>3 DEF BookOK, Refused
<1>8. Applied = {} /\ \A p \in Prs : Of(p) = {}
  BY <1>2, <1>3, <1>5, PrsAssumption DEF Applied, Of
<1>9. AcceptedIsValidated /\ AcceptedIsNamed
  BY <1>8 DEF AcceptedIsValidated, AcceptedIsNamed
<1> QED BY <1>1, <1>4, <1>6, <1>7, <1>9 DEF Inductive

LEMMA StutterKeeps == ASSUME Inductive, UNCHANGED vars PROVE Inductive'
<1>1. TypeOK' /\ CandidateOK' /\ NobodyLeftOut'
  BY Parts DEF vars, TypeOK, CandidateOK, NobodyLeftOut, CapReached, Applied
<1>2. HistoriesOK'
  BY Parts, HistoriesStep DEF vars, HistoriesOK
<1>3. ReportOK' /\ BookOK'
  BY Parts DEF vars, ReportOK, BookOK, ResolvedSha, HeadId
<1>4. Branch' = Branch /\ Applied' = Applied
  BY DEF vars, Branch, Settled, Applied
<1>5. AcceptedIsValidated' /\ AcceptedIsNamed'
  BY Parts, <1>4, BranchKept DEF vars
<1> QED BY <1>1, <1>2, <1>3, <1>5 DEF Inductive

LEMMA StepKeeps == ASSUME Inductive, Next PROVE Inductive'
<1>1. TypeOK'
  BY StepType
<1>2. ASSUME CandidateOK' /\ HistoriesOK' /\ ReportOK' /\ Quiet PROVE Inductive'
  BY <1>1, <1>2, QuietKeeps DEF Inductive
<1>3. CASE Loop
  BY <1>1, <1>3, PrepareKeeps, LoopKeeps, DropsKeep, AcceptKeeps DEF Loop, Drops
<1>4. CASE Conclude
  BY <1>1, <1>2, <1>4, DropsKeep, PendingOK DEF Conclude, Drops, Pending
<1> QED BY <1>2, <1>3, <1>4, PickOK, ResolveOK, ValidateOK, RepairOK DEF Next

(* Where the program is says what is on the branch, validated and reported. *)
THEOREM InductiveHolds == Spec => []Inductive
<1>1. Inductive /\ [Next]_vars => Inductive'
  BY StepKeeps, StutterKeeps
<1> QED BY InitInductive, <1>1, PTL DEF Spec

(* No candidate is on the branch that a complete validation did not pass on. *)
THEOREM ValidatedOnly == Spec => []AcceptedIsValidated
<1>1. Inductive => AcceptedIsValidated
  BY DEF Inductive
<1> QED BY InductiveHolds, <1>1, PTL

(* The trailers and the reported SHAs are those of what is on the branch. *)
THEOREM NamedRight == Spec => []AcceptedIsNamed
<1>1. Inductive => AcceptedIsNamed
  BY DEF Inductive
<1> QED BY InductiveHolds, <1>1, PTL

(* A preparation that ends leaves no candidate out. *)
THEOREM EveryoneGetsATurn == Spec => []NobodyLeftOut
<1>1. Inductive => NobodyLeftOut
  BY DEF Inductive
<1> QED BY InductiveHolds, <1>1, PTL

(* Every pick in the work tree is the whole change of its pull request. *)
THEOREM PicksAreWhole == Spec => []WholeChangePicked
<1>1. Inductive => WholeChangePicked
  BY DEF Inductive, HistoriesOK, HistoryOK, WholeChangePicked
<1> QED BY InductiveHolds, <1>1, PTL

(* No commit is ever made with conflict markers in it. *)
THEOREM NoMarkers == Spec => []NoConflictMarkers
<1>1. Inductive => NoConflictMarkers
  BY DEF Inductive, HistoriesOK, HistoryOK, NoConflictMarkers
<1> QED BY InductiveHolds, <1>1, PTL

LEMMA DropLeavesNoTrace == ASSUME Inductive, Drops PROVE LeavesNoTrace
<1> USE DEF Working, Applying, Validating
<1>1. CASE AbortEmptyPick \/ AbortRefusedPick
  <2>1. tree.head = cand.start /\ tree.files = cand.saved
    BY Parts, <1>1 DEF AbortEmptyPick, AbortRefusedPick, CandidateOK, Picking
  <2>2. tree' = ResetTo(tree, cand.start)
    BY <1>1, <2>1 DEF AbortEmptyPick, AbortRefusedPick
  <2> QED BY Parts, <2>1, <2>2, ResetTree DEF LeavesNoTrace
<1>2. CASE RollBack \/ Recover
  <2> DEFINE t == ResetTo(tree, cand.start)
  <2>1. /\ t \in WorkTrees /\ t.head = cand.start /\ t.marked = {}
        /\ ~t.picking /\ ~t.dirty
    BY Parts, ResetTree
  <2>2. tree' = [t EXCEPT !.files = cand.saved] /\ cand.saved \in SUBSET Files
    BY Parts, <1>2, CandidateParts DEF RollBack, Recover, RolledBack
  <2> HIDE DEF t
  <2>3. /\ tree'.head = cand.start /\ tree'.marked = {} /\ tree'.files = cand.saved
        /\ ~tree'.picking /\ ~tree'.dirty
    BY <2>1, <2>2, TreeParts
  <2> QED BY <2>3 DEF LeavesNoTrace
<1>3. CASE Reject \/ AcceptNothing
  <2>1. at \in {"reject", "accept"} /\ tree' = ResetTo(tree, cand.start)
    BY <1>3 DEF Reject, AcceptNothing
  <2>2. tree.files \subseteq cand.saved \union {"artifact"}
    BY Parts, <2>1 DEF CandidateOK
  <2> QED BY Parts, <2>1, <2>2, ResetTree DEF LeavesNoTrace
<1> QED BY <1>1, <1>2, <1>3 DEF Drops

LEMMA QuietOrSettled ==
  ASSUME Inductive, Next, at \in Working
  PROVE  Quiet \/ Drops \/ Accept
<1> USE DEF Working, Applying, Validating
<1>1. CASE Loop
  BY <1>1 DEF Loop, PreparePlans, SetupFails, Finish, SkipKnown, SkipUnplanned, StartCandidate,
              Drops
<1>2. CASE Conclude
  BY <1>2, PendingOK DEF Conclude, Pending, Drops
<1> QED BY <1>1, <1>2, PickOK, ResolveOK, ValidateOK, RepairOK DEF Next

(* A candidate that is not applied, at whatever point it fails, leaves the
   work tree as it was, except for what builds leave behind.               *)
THEOREM NoTrace == Spec => RejectedLeavesNoTrace
<1>1. ASSUME Inductive, Next, at \in Applying \union Validating, at' = "next",
             result'[cand.pr] # "applied"
      PROVE  LeavesNoTrace
  <2>1. ~Quiet
    BY <1>1 DEF Quiet, Working, Applying, Validating
  <2>2. ~Accept
    <3>1. cand.pr \in Prs /\ result \in [Prs -> Outcomes]
      BY <1>1, Parts, Facts DEF Working, TypeOK
    <3> QED BY <1>1, <3>1 DEF Accept, Settle
  <2> QED BY <1>1, <2>1, <2>2, QuietOrSettled, DropLeavesNoTrace DEF Working
<1>2. Inductive /\ [Next]_vars =>
        [(at \in Applying \union Validating /\ at' = "next" /\ result'[cand.pr] # "applied")
           => LeavesNoTrace]_vars
  BY <1>1
<1> QED BY InductiveHolds, <1>2, PTL DEF Spec, RejectedLeavesNoTrace

LEMMA StepLands == Inductive /\ [Next]_vars => [Ledger!Next]_Branch
<1> SUFFICES ASSUME Inductive, [Next]_vars PROVE Ledger!Next \/ Branch' = Branch
  OBVIOUS
<1>1. ASSUME at \notin Working, ~UNCHANGED vars PROVE Branch' = Branch
  <2>1. CASE PreparePlans
    BY Parts, <2>1 DEF PreparePlans, BookOK, Branch, Settled, NoCandidate
  <2>2. CASE SetupFails
    BY <2>2 DEF SetupFails, Branch, Settled
  <2>3. CASE Finish \/ \E p \in Prs : SkipKnown(p) \/ SkipUnplanned(p) \/ StartCandidate(p)
    BY <2>3 DEF Finish, SkipKnown, SkipUnplanned, StartCandidate, Fresh, Settle, Branch, Settled
  <2>4. ~Pick /\ ~Resolve /\ ~Conclude /\ ~Validate /\ ~Repair /\ ~Reject /\ ~AcceptNothing
        /\ ~Accept
    <3> USE DEF Working, Applying, Validating
    <3>1. ~Pick
      BY <1>1 DEF Pick, PickClean, PickIsEmpty, PickIsRefused, PickConflicts
    <3>2. ~Resolve
      BY <1>1 DEF Resolve, RefuseConflicts, DropMissingTests, ResolveByRule, AgentResolves,
                  AgentLeavesMarkers, AgentFailsToResolve, MissingTestsNotPorted,
                  StageResolution, ContinuePick, ContinueFindsNothing, ContinueFails
    <3>3. ~Conclude
      BY <1>1 DEF Conclude, AbortEmptyPick, AbortFails, AbortRefusedPick, AddTrailer, RollBack,
                  RollBackFails, ApplyRaises, Recover, RecoverFails
    <3>4. ~Validate
      BY <1>1 DEF Validate, GenerateNothing, GenerateAmends, GenerateFails, RegenerateFails,
                  ValidationPasses, ValidationFails, FinalPasses, FinalDoesNotPass,
                  ValidationRaises
    <3>5. ~Repair
      BY <1>1 DEF Repair, RepairIsRefused, RepairCommits, RepairPasses, RepairDoesNotPass,
                  RepairIsPartial, RepairWasOfTestsOnly, AdaptationIsRefused,
                  AdaptationCommits, AdaptationPasses, AdaptationDoesNotPass
    <3> QED BY <1>1, <3>1, <3>2, <3>3, <3>4, <3>5 DEF Reject, AcceptNothing, Accept
  <2> QED BY <1>1, <2>1, <2>2, <2>3, <2>4 DEF Next, Loop
<1>2. ASSUME Quiet PROVE Branch' = Branch
  BY <1>2 DEF Quiet, Branch, Settled, Working, Applying, Validating
<1>3. ASSUME Drops PROVE Branch' = Branch
  <2>1. tree'.head = cand.start
    BY <1>3, DropLeavesNoTrace DEF LeavesNoTrace
  <2>2. at \in Working /\ at' = "next"
    BY <1>3 DEF Drops, AbortEmptyPick, AbortRefusedPick, RollBack, Recover, Reject,
                AcceptNothing, Settle, Working, Applying, Validating
  <2> QED BY <2>1, <2>2 DEF Branch, Settled, Working, Applying, Validating
<1>4. ASSUME Accept PROVE Ledger!Next
  <2>1. PICK q \in Prs : q = cand.pr
    BY <1>4, AcceptGroup
  <2>2. IsGroup(Branch', Branch, q, TRUE) /\ Of(q) = {}
    BY <1>4, <2>1, AcceptGroup
  <2>3. ~Ledger!Has(q)
    BY <2>2 DEF Of, Ledger!Has
  <2>4. Ledger!Land(q)
    BY <2>2, <2>3 DEF IsGroup, Extends, Ledger!Land
  <2> QED BY <2>4 DEF Ledger!Next
<1>5. ASSUME UNCHANGED vars PROVE Branch' = Branch
  BY <1>5 DEF vars, Branch, Settled
<1> QED BY <1>1, <1>2, <1>3, <1>4, <1>5, QuietOrSettled

(* The preparation implements the ledger: candidates land one at a time,
   whole, named, and on top of what was there.                             *)
THEOREM Refines == Spec => ImplementsLedger
<1>1. Init => Ledger!Init
  BY DEF Init, Branch, Settled, NoCandidate, Ledger!Init
<1> QED BY <1>1, StepLands, InductiveHolds, PTL DEF Spec, ImplementsLedger, Ledger!Spec

-----------------------------------------------------------------------------
(* A preparation ends, whatever git, the builds and the agent answer.  It
   takes no fairness to say so: every step is one less to the end.

   How far the end of a candidate is from each point, at most.  A failed
   repair goes on to the adaptation, a failed call to the rollback, and
   nothing goes back: an agent is asked to resolve conflicts twice, and to
   repair and to adapt once.                                               *)
Distance(point) ==
  CASE point = "plan" -> 21 [] point = "next" -> 20
    [] point = "pick" -> 19 [] point = "inspect" -> 18 [] point = "resolve" -> 17
    [] point = "retry" -> 16 [] point = "stage" -> 15 [] point = "continue" -> 14
    [] point = "trailer" -> 13 [] point = "generate" -> 12 [] point = "validate" -> 11
    [] point = "repair" -> 10 [] point = "revalidate" -> 9 [] point = "adapt" -> 8
    [] point = "validate_adapted" -> 7 [] point = "regenerate" -> 6 [] point = "final" -> 5
    [] point \in {"accept", "reject", "empty", "refused"} -> 4
    [] point = "rollback" -> 3 [] point = "recover" -> 2
    [] OTHER -> 0

StepsLeft == 20 * Cardinality(todo) + Distance(at)

GoesOn == todo' = todo /\ Distance(at') < Distance(at)
Settles == Distance(at) > 0 /\ at' = "next" /\ \E p \in todo : todo' = todo \ {p}

LEMMA Distances ==
  /\ Distance("plan") = 21 /\ Distance("next") = 20
  /\ Distance("pick") = 19 /\ Distance("inspect") = 18 /\ Distance("resolve") = 17
  /\ Distance("retry") = 16 /\ Distance("stage") = 15 /\ Distance("continue") = 14
  /\ Distance("trailer") = 13 /\ Distance("generate") = 12 /\ Distance("validate") = 11
  /\ Distance("repair") = 10 /\ Distance("revalidate") = 9 /\ Distance("adapt") = 8
  /\ Distance("validate_adapted") = 7 /\ Distance("regenerate") = 6 /\ Distance("final") = 5
  /\ \A point \in {"accept", "reject", "empty", "refused"} : Distance(point) = 4
  /\ Distance("rollback") = 3 /\ Distance("recover") = 2
  /\ Distance("done") = 0 /\ Distance("failed") = 0
  BY DEF Distance

LEMMA StepAdvances == ASSUME Inductive, Next PROVE GoesOn \/ Settles
<1> USE Distances DEF Goto, RollBackWith, book
<1>1. at \in Working => cand.pr \in todo
  BY Parts DEF CandidateOK
<1>2. ASSUME at \in Working, at' = "next", todo' = todo \ {cand.pr}, Distance(at) > 0 PROVE Settles
  BY <1>1, <1>2 DEF Settles
<1>3. CASE Loop
  <2>1. CASE PreparePlans \/ SetupFails \/ Finish
    BY <2>1 DEF PreparePlans, SetupFails, Finish, GoesOn
  <2>2. CASE \E p \in Prs : SkipKnown(p) \/ SkipUnplanned(p)
    BY <2>2 DEF SkipKnown, SkipUnplanned, Settle, IsNext, Settles
  <2>3. CASE \E p \in Prs : StartCandidate(p)
    BY <2>3 DEF StartCandidate, GoesOn
  <2>4. CASE Reject \/ AcceptNothing \/ Accept
    BY <1>2, <2>4 DEF Reject, AcceptNothing, Accept, Settle, Working, Validating
  <2> QED BY <1>3, <2>1, <2>2, <2>3, <2>4 DEF Loop
<1>4. CASE Pick
  <2>1. at = "pick" /\ todo' = todo /\ at' \in {"trailer", "empty", "refused", "inspect"}
    BY <1>4 DEF Pick, PickClean, PickIsEmpty, PickIsRefused, PickConflicts
  <2> QED BY <2>1 DEF GoesOn
<1>5. CASE Resolve
  <2>1. CASE RefuseConflicts \/ DropMissingTests \/ ResolveByRule \/ AgentLeavesMarkers
    BY <2>1 DEF RefuseConflicts, DropMissingTests, ResolveByRule, AgentLeavesMarkers, GoesOn
  <2>2. CASE AgentResolves \/ AgentFailsToResolve
    BY <2>2 DEF AgentResolves, AgentFailsToResolve, GoesOn
  <2>3. CASE MissingTestsNotPorted \/ StageResolution
    BY <2>3 DEF MissingTestsNotPorted, StageResolution, GoesOn
  <2>4. CASE ContinuePick \/ ContinueFindsNothing \/ ContinueFails
    BY <2>4 DEF ContinuePick, ContinueFindsNothing, ContinueFails, GoesOn
  <2> QED BY <1>5, <2>1, <2>2, <2>3, <2>4 DEF Resolve
<1>6. CASE Conclude
  <2>1. CASE AbortFails \/ AddTrailer \/ RollBackFails \/ RecoverFails
    BY <2>1 DEF AbortFails, AddTrailer, RollBackFails, RecoverFails, GoesOn
  <2>2. CASE ApplyRaises
    <3>1. at \in {"pick", "inspect", "resolve", "retry", "stage", "continue", "empty",
                 "refused", "trailer"} /\ at' = "recover" /\ todo' = todo
      BY <2>2 DEF ApplyRaises, Applying
    <3>2. Distance(at) > 2
      BY <3>1
    <3> QED BY <3>1, <3>2 DEF GoesOn
  <2>3. CASE AbortEmptyPick \/ AbortRefusedPick \/ RollBack \/ Recover
    BY <1>2, <2>3 DEF AbortEmptyPick, AbortRefusedPick, RollBack, Recover, Settle, Working, Applying
  <2> QED BY <1>6, <2>1, <2>2, <2>3 DEF Conclude
<1>7. CASE Validate
  <2>1. CASE GenerateNothing \/ GenerateAmends
    BY <2>1 DEF GenerateNothing, GenerateAmends, GoesOn
  <2>2. CASE GenerateFails \/ RegenerateFails
    BY <2>2 DEF GenerateFails, RegenerateFails, GoesOn
  <2>3. CASE ValidationPasses \/ (\E unmapped \in BOOLEAN : ValidationFails(unmapped))
    <3>1. at = "validate" /\ todo' = todo /\ at' \in {"accept", "reject", "adapt", "repair"}
      BY <2>3 DEF ValidationPasses, Passes, ValidationFails
    <3> QED BY <3>1 DEF GoesOn
  <2>4. CASE FinalPasses \/ FinalDoesNotPass
    BY <2>4 DEF FinalPasses, Passes, FinalDoesNotPass, GoesOn
  <2>5. CASE ValidationRaises
    <3>1. at \in Validating /\ at' = "failed" /\ todo' = todo
      BY <2>5 DEF ValidationRaises
    <3>2. Distance(at) > 0
      BY <3>1 DEF Validating
    <3> QED BY <3>1, <3>2 DEF GoesOn
  <2> QED BY <1>7, <2>1, <2>2, <2>3, <2>4, <2>5 DEF Validate
<1>8. CASE Repair
  <2>1. CASE RepairIsRefused \/ RepairCommits \/ RepairPasses \/ RepairDoesNotPass
    <3>1. /\ todo' = todo
          /\ \/ at = "repair" /\ at' \in {"adapt", "revalidate"}
             \/ at = "revalidate" /\ at' \in {"regenerate", "adapt"}
      BY <2>1 DEF RepairIsRefused, RepairCommits, RepairPasses, Passes, RepairDoesNotPass
    <3> QED BY <3>1 DEF GoesOn
  <2>2. CASE RepairIsPartial \/ RepairWasOfTestsOnly
    BY <2>2 DEF RepairIsPartial, RepairWasOfTestsOnly, GoesOn
  <2>3. CASE AdaptationIsRefused \/ AdaptationCommits \/ AdaptationPasses \/ AdaptationDoesNotPass
    <3>1. /\ todo' = todo
          /\ \/ at = "adapt" /\ at' \in {"reject", "validate_adapted"}
             \/ at = "validate_adapted" /\ at' \in {"regenerate", "reject"}
      BY <2>3 DEF AdaptationIsRefused, AdaptationCommits, AdaptationPasses, Passes,
         AdaptationDoesNotPass
    <3> QED BY <3>1 DEF GoesOn
  <2> QED BY <1>8, <2>1, <2>2, <2>3 DEF Repair
<1> QED BY <1>3, <1>4, <1>5, <1>6, <1>7, <1>8 DEF Next

LEMMA StepsAreCounted ==
  /\ TypeOK => StepsLeft \in Nat /\ Distance(at) \in 0..21
  /\ Inductive /\ Next /\ TypeOK' => StepsLeft' < StepsLeft
<1>1. \A point : Distance(point) \in 0..21
  BY DEF Distance
<1>2. ASSUME NEW S \in SUBSET Prs PROVE IsFiniteSet(S) /\ Cardinality(S) \in Nat
  BY <1>2, PrsAssumption, FS_Subset, FS_CardinalityType
<1>3. ASSUME TypeOK PROVE StepsLeft \in Nat
  <2>1. Cardinality(todo) \in Nat
    BY <1>2, <1>3 DEF TypeOK
  <2> QED BY <1>1, <2>1 DEF StepsLeft
<1>4. ASSUME Inductive, Next, TypeOK' PROVE StepsLeft' < StepsLeft
  <2>1. todo \in SUBSET Prs /\ IsFiniteSet(todo) /\ Cardinality(todo) \in Nat
    BY <1>2, <1>4, Parts DEF TypeOK
  <2>2. CASE GoesOn
    BY <1>1, <2>1, <2>2 DEF GoesOn, StepsLeft
  <2>3. CASE Settles
    <3>1. PICK p \in todo : todo' = todo \ {p}
      BY <2>3 DEF Settles
    <3>2. Cardinality(todo') = Cardinality(todo) - 1
      BY <2>1, <3>1, FS_RemoveElement
    <3>3. Distance(at') = 20 /\ Distance(at) > 0
      BY <2>3 DEF Settles, Distance
    <3> QED BY <1>1, <2>1, <3>2, <3>3 DEF StepsLeft
  <2> QED BY <1>4, <2>2, <2>3, StepAdvances
<1> QED BY <1>1, <1>3, <1>4

(* A preparation of n candidates ends within 20 n + 21 steps, crashes of the
   agent and failures of git included: what is left is a number, and every
   step lessens it.                                                        *)
THEOREM PreparationEnds ==
  Spec => /\ [](StepsLeft \in Nat /\ StepsLeft <= 20 * Cardinality(Prs) + 21)
          /\ [][StepsLeft' < StepsLeft]_vars
<1>1. Inductive => StepsLeft \in Nat /\ StepsLeft <= 20 * Cardinality(Prs) + 21
  <2> SUFFICES ASSUME Inductive PROVE StepsLeft <= 20 * Cardinality(Prs) + 21
    BY Parts, StepsAreCounted
  <2>1. todo \in SUBSET Prs /\ Distance(at) \in 0..21
    BY Parts, StepsAreCounted DEF TypeOK
  <2>2. Cardinality(todo) \in Nat /\ Cardinality(Prs) \in Nat
        /\ Cardinality(todo) <= Cardinality(Prs)
    BY <2>1, PrsAssumption, FS_Subset, FS_CardinalityType
  <2> QED BY <2>1, <2>2 DEF StepsLeft
<1>2. Inductive /\ [Next]_vars => [StepsLeft' < StepsLeft]_vars
  BY StepsAreCounted, StepType
<1> QED BY <1>1, <1>2, InductiveHolds, PTL DEF Spec
=============================================================================
