------------------------ MODULE ReleaseReviewProofs ------------------------
(***************************************************************************)
(* Proofs about ReleaseReview, for every set of threads and every bound on *)
(* comments, commits, status comments and disturbances, and about the      *)
(* release PR's two parts together (MCReleaseNotes).                       *)
(***************************************************************************)
EXTENDS MCReleaseNotes, ReleaseNotesProofs

-----------------------------------------------------------------------------
(* Types *)

Comments == Threads \X (1..MaxComments)
Rels == [open : BOOLEAN, branch : Seq(Commits), last : Commits, answers : [Commits -> SUBSET Comments]]
ThreadStates == [said : 0..MaxComments, resolved : BOOLEAN, outdated : BOOLEAN,
                 replied : SUBSET Commits, crossed : BOOLEAN]
States == {"addressing", "addressed", "refused", "failed"}
Statuses == [state : States, head : Commits, batch : SUBSET Selections,
             commit : 0..MaxHeads, fresh : BOOLEAN]
Polls == [phase : {"idle", "lease", "dispatch", "mend"}, head : 0..MaxHeads, batch : SUBSET Selections]
Runs == [phase : {"idle", "edit", "push", "lost", "report", "mend"},
         id : 0..MaxStatus, batch : SUBSET Selections, commit : 0..MaxHeads]
Handlers == [queued : 0..MaxStatus, resent : SUBSET (1..MaxStatus), run : Runs]
Mends == [phase : {"idle", "reply", "reload", "resolve"}, commit : 0..MaxHeads, left : SUBSET Comments]
Uses == [said : 0..MaxComments, disturbed : 0..MaxDisturbances]

LEMMA BoundsAreNumbers ==
  /\ MaxComments \in Nat \ {0} /\ MaxHeads \in Nat \ {0} /\ MaxStatus \in Nat \ {0}
  /\ MaxDisturbances \in Nat \ {0}
BY ReviewAssumption

TypesOf(r, t, st, p, h, m, u) ==
  /\ r \in Rels /\ t \in [Threads -> ThreadStates]
  /\ st \in Seq(Statuses) /\ Len(st) <= MaxStatus
  /\ p \in Polls /\ h \in Handlers
  /\ m \in [Menders -> Mends] /\ u \in Uses

LEMMA Typed ==
  /\ ReviewTypeOK <=> TypesOf(rel, threads, status, poll, handler, mends, used)
  /\ ReviewTypeOK' <=> TypesOf(rel', threads', status', poll', handler', mends', used')
BY Zenon DEF TypesOf, ReviewTypeOK, Rels, ThreadStates, Statuses, States, Polls, Runs, Handlers, Mends, Uses, Comments

LEMMA RelTyped ==
  ASSUME ReviewTypeOK
  PROVE  /\ rel \in Rels /\ rel.branch \in Seq(Commits) /\ rel.last \in Commits
         /\ Len(rel.branch) \in Nat /\ DOMAIN rel.branch = 1..Len(rel.branch)
         /\ rel.answers \in [Commits -> SUBSET Comments]
         /\ rel.branch # <<>> => /\ Tip \in Commits /\ Tip = rel.branch[Len(rel.branch)]
                                 /\ Len(rel.branch) \in Nat \ {0}
<1>1. rel \in Rels /\ rel.branch \in Seq(Commits) /\ rel.last \in Commits
      /\ rel.answers \in [Commits -> SUBSET Comments]
  BY Typed DEF TypesOf, Rels
<1>2. Tip = rel.branch[Len(rel.branch)]
  BY DEF Tip, Last
<1>3. rel.branch # <<>> => Len(rel.branch) \in Nat \ {0}
  BY <1>1, EmptySeq
<1> QED
  BY <1>1, <1>2, <1>3, LenProperties

LEMMA StatusTyped ==
  ASSUME ReviewTypeOK
  PROVE  /\ status \in Seq(Statuses) /\ Len(status) \in 0..MaxStatus /\ DOMAIN status = 1..Len(status)
         /\ \A s \in DOMAIN status :
              /\ status[s] \in Statuses /\ status[s].state \in States /\ status[s].head \in Commits
              /\ status[s].batch \in SUBSET Selections /\ status[s].commit \in 0..MaxHeads
              /\ s \in 1..MaxStatus
<1>1. status \in Seq(Statuses) /\ Len(status) <= MaxStatus
  BY Typed DEF TypesOf
<1>2. Len(status) \in 0..MaxStatus /\ DOMAIN status = 1..Len(status)
  BY <1>1, LenProperties, BoundsAreNumbers
<1>3. \A s \in DOMAIN status : status[s] \in Statuses /\ s \in 1..MaxStatus
  BY <1>1, <1>2, ElementOfSeq, BoundsAreNumbers
<1> QED
  BY <1>1, <1>2, <1>3 DEF Statuses

LEMMA RunTyped ==
  ASSUME ReviewTypeOK
  PROVE  /\ handler \in Handlers /\ handler.resent \in SUBSET (1..MaxStatus)
         /\ handler.queued \in 0..MaxStatus /\ handler.run \in Runs
         /\ handler.run.id \in 0..MaxStatus /\ handler.run.batch \in SUBSET Selections
         /\ handler.run.commit \in 0..MaxHeads
         /\ handler.run.phase \in {"idle", "edit", "push", "lost", "report", "mend"}
         /\ poll \in Polls /\ poll.head \in 0..MaxHeads /\ poll.batch \in SUBSET Selections
         /\ poll.phase \in {"idle", "lease", "dispatch", "mend"}
<1>1. handler \in Handlers /\ poll \in Polls
  BY Typed DEF TypesOf
<1> QED
  BY <1>1 DEF Runs, Polls, Handlers

LEMMA MendTyped ==
  ASSUME ReviewTypeOK, NEW w \in Menders
  PROVE  /\ mends \in [Menders -> Mends] /\ mends[w] \in Mends
         /\ mends[w].phase \in {"idle", "reply", "reload", "resolve"}
         /\ mends[w].commit \in 0..MaxHeads /\ mends[w].left \in SUBSET Comments
<1>1. mends \in [Menders -> Mends] /\ mends[w] \in Mends
  BY Typed DEF TypesOf
<1> QED
  BY <1>1 DEF Mends

LEMMA ThreadTyped ==
  ASSUME ReviewTypeOK, NEW t \in Threads
  PROVE  /\ threads \in [Threads -> ThreadStates] /\ threads[t] \in ThreadStates
         /\ threads[t].said \in 0..MaxComments /\ threads[t].resolved \in BOOLEAN
         /\ threads[t].outdated \in BOOLEAN /\ threads[t].replied \in SUBSET Commits
         /\ threads[t].crossed \in BOOLEAN
<1>1. threads \in [Threads -> ThreadStates] /\ threads[t] \in ThreadStates
  BY Typed DEF TypesOf
<1> QED
  BY <1>1 DEF ThreadStates

LEMMA Spends ==
  ASSUME ReviewTypeOK
  PROVE  /\ Disturbs => used' \in Uses /\ used'.said = used.said
         /\ used.said < MaxComments /\ used' = [used EXCEPT !.said = @ + 1] => used' \in Uses
         /\ UNCHANGED used => used' \in Uses /\ used'.said = used.said
<1>1. used \in Uses
  BY Typed DEF TypesOf
<1> QED
  BY <1>1, BoundsAreNumbers, SMTT(30) DEF Uses, Disturbs

(* What a batch says: comments, each with its thread.                      *)
LEMMA SaidTyped ==
  ASSUME NEW batch \in SUBSET Selections
  PROVE  Said(batch) \in SUBSET Comments
BY DEF Said, Selections, Comments

LEMMA SelectedTyped ==
  ASSUME ReviewTypeOK
  PROVE  /\ Selected \in SUBSET Selections
         /\ \A p \in Said(Selected) : p \in Comments /\ Unsettled(p)
<1>1. ASSUME NEW t \in Threads, threads[t].said > 0, ~threads[t].resolved
      PROVE  /\ <<t, threads[t].said, threads[t].replied>> \in Selections
             /\ <<t, threads[t].said>> \in Comments /\ Unsettled(<<t, threads[t].said>>)
  <2>1. threads[t].said \in 1..MaxComments /\ threads[t].replied \in SUBSET Commits
    BY <1>1, ThreadTyped, BoundsAreNumbers
  <2> QED
    BY <1>1, <2>1 DEF Selections, Comments, Unsettled
<1>2. Selected \in SUBSET Selections
  BY <1>1 DEF Selected
<1>3. \A p \in Said(Selected) : \E t \in Threads :
        p = <<t, threads[t].said>> /\ threads[t].said > 0 /\ ~threads[t].resolved
  BY DEF Said, Selected
<1> QED
  BY <1>1, <1>2, <1>3
-----------------------------------------------------------------------------
(* Writing a status comment *)

(* One status is rewritten, its batch kept.                                *)
Rewrites(s, state, head, commit) ==
  /\ status' \in Seq(Statuses) /\ Len(status') = Len(status) /\ DOMAIN status' = DOMAIN status
  /\ \A r \in DOMAIN status : r # s => status'[r] = status[r]
  /\ status'[s].state = state /\ status'[s].head = head
  /\ status'[s].commit = commit /\ status'[s].batch = status[s].batch

LEMMA Rewriting ==
  ASSUME ReviewTypeOK, NEW s \in DOMAIN status, NEW new \in Statuses, new.batch = status[s].batch,
         status' = [status EXCEPT ![s] = new]
  PROVE  Rewrites(s, new.state, new.head, new.commit)
<1>1. status \in Seq(Statuses) /\ s \in 1..Len(status) /\ DOMAIN status = 1..Len(status)
  BY StatusTyped
<1>2. /\ status' \in Seq(Statuses) /\ Len(status') = Len(status) /\ DOMAIN status' = DOMAIN status
      /\ \A r \in 1..Len(status) : status'[r] = IF r = s THEN new ELSE status[r]
  BY <1>1, ExceptSeq
<1> QED
  BY <1>1, <1>2 DEF Rewrites

(* The fields of a status that is rewritten.                               *)
LEMMA EndedFields ==
  ASSUME NEW st \in Statuses, NEW state \in States, NEW head \in Commits
  PROVE  LET ended == [st EXCEPT !.state = state, !.fresh = FALSE]
             found == [st EXCEPT !.state = state, !.head = head, !.fresh = FALSE]
             stale == [st EXCEPT !.fresh = FALSE]
         IN /\ ended \in Statuses /\ ended.state = state /\ ended.head = st.head
            /\ ended.commit = st.commit /\ ended.batch = st.batch
            /\ found \in Statuses /\ found.state = state /\ found.head = head
            /\ found.commit = st.commit /\ found.batch = st.batch
            /\ stale \in Statuses /\ stale.state = st.state /\ stale.head = st.head
            /\ stale.commit = st.commit /\ stale.batch = st.batch
BY DEF Statuses

LEMMA Marking ==
  ASSUME ReviewTypeOK, NEW s \in DOMAIN status, NEW state \in States,
         NEW commit \in 0..MaxHeads, state = "addressed" => commit # 0, Marks(s, state, commit)
  PROVE  Rewrites(s, state, IF state = "addressed" THEN commit ELSE status[s].head, commit)
<1>1. /\ status[s] \in Statuses /\ status[s].head \in Commits
      /\ state = "addressed" => commit \in Commits
  BY StatusTyped, BoundsAreNumbers DEF Commits
<1>2. PICK head \in Commits : head = IF state = "addressed" THEN commit ELSE status[s].head
  BY <1>1
<1> DEFINE new == [status[s] EXCEPT !.state = state, !.commit = commit,
                                    !.fresh = state = "addressing", !.head = head]
<1>3. new \in Statuses /\ new.state = state /\ new.head = head /\ new.commit = commit
      /\ new.batch = status[s].batch
  BY <1>1 DEF Statuses
<1>4. status' = [status EXCEPT ![s] = new]
  BY <1>2, StatusTyped DEF Marks
<1> HIDE DEF new
<1> QED
  BY <1>2, <1>3, <1>4, Rewriting
-----------------------------------------------------------------------------
(* Steps that leave parts of the state alone *)

(* Nothing but the threads, the bounds' use, or whether the PR is open.    *)
BatchesRest ==
  /\ rel'.branch = rel.branch /\ rel'.last = rel.last /\ rel'.answers = rel.answers
  /\ UNCHANGED <<status, poll, handler>>

LEMMA RestKeeps ==
  ASSUME BatchesRest, ReviewInductive
  PROVE  /\ HeadsArePast' /\ RunsAreApart' /\ RunAsRecorded' /\ TipOnRecord'
         /\ BatchesAreNew' /\ EditedOnce'
<1>1. Tip' = Tip
  BY DEF BatchesRest, Tip
<1>2. HeadsArePast' /\ RunsAreApart' /\ EditedOnce'
  BY <1>1 DEF BatchesRest, ReviewInductive, HeadsArePast, RunsAreApart, EditedOnce, Resent
<1>3. RunAsRecorded'
  BY <1>1 DEF BatchesRest, ReviewInductive, RunAsRecorded
<1>4. TipOnRecord' /\ BatchesAreNew'
  BY <1>1 DEF BatchesRest, ReviewInductive, TipOnRecord, BatchesAreNew, Resent
<1> QED
  BY <1>2, <1>3, <1>4

(* What was answered to a dispatch that was sent twice stays so.           *)
LEMMA ResentKept ==
  ASSUME handler.resent \subseteq DOMAIN status, handler.resent \subseteq handler'.resent,
         rel'.answers = rel.answers, rel'.branch = rel.branch,
         \A s \in DOMAIN status : status'[s].batch = status[s].batch
  PROVE  /\ Tip' = Tip /\ (Resent(Tip) => Resent(Tip)')
         /\ handler'.resent = handler.resent => (Resent(Tip)' <=> Resent(Tip))
         /\ EditedOnce => EditedOnce'
<1>1. Tip' = Tip
  BY DEF Tip
<1>2. EditedOnce => EditedOnce'
  BY DEF EditedOnce, Resent
<1> QED
  BY <1>1, <1>2 DEF Resent

(* Threads that lose their place keep what was said and resolved in them.  *)
LEMMA Outdating ==
  ASSUME ReviewTypeOK, NEW gone, threads' = Outdated(gone)
  PROVE  /\ threads' \in [Threads -> ThreadStates]
         /\ \A t \in Threads : /\ threads'[t].said = threads[t].said
                               /\ threads'[t].resolved = threads[t].resolved
                               /\ threads'[t].crossed = threads[t].crossed
<1>1. \A t \in Threads : threads[t] \in ThreadStates
  BY ThreadTyped
<1>2. threads' = [t \in Threads |-> [threads[t] EXCEPT !.outdated = @ \/ t \in gone]]
  BY DEF Outdated
<1>3. ASSUME NEW t \in Threads
      PROVE  /\ threads'[t] \in ThreadStates /\ threads'[t].said = threads[t].said
             /\ threads'[t].resolved = threads[t].resolved /\ threads'[t].crossed = threads[t].crossed
  <2>1. threads'[t] = [threads[t] EXCEPT !.outdated = @ \/ t \in gone]
    BY <1>2
  <2> QED
    BY <1>1, <2>1 DEF ThreadStates
<1> QED
  BY <1>2, <1>3

(* What is replied to and resolved depends on what was said, and on answers
   that only grow.                                                         *)
LEMMA AnswersGrow ==
  ASSUME ReviewTypeOK, MendsAreAnswered, ResolvedWasAnswered, mends' = mends,
         \A c \in Commits : rel.answers[c] \subseteq rel'.answers[c],
         \A t \in Threads : /\ threads'[t].said = threads[t].said
                            /\ threads'[t].resolved = threads[t].resolved
                            /\ threads'[t].crossed = threads[t].crossed
  PROVE  MendsAreAnswered' /\ ResolvedWasAnswered'
<1>1. ASSUME NEW w \in Menders
      PROVE  /\ mends[w].phase # "idle"
                  => mends[w].commit # 0 /\ mends[w].left \subseteq rel'.answers[mends[w].commit]
             /\ mends[w].phase = "resolve"
                  => \A p \in mends[w].left : threads'[p[1]].said = p[2] \/ threads'[p[1]].crossed
  <2>1. mends[w].commit \in 0..MaxHeads /\ \A p \in mends[w].left : p[1] \in Threads
    BY MendTyped DEF Comments
  <2>2. mends[w].commit # 0 => mends[w].commit \in Commits
    BY <2>1, BoundsAreNumbers DEF Commits
  <2> QED
    BY <2>1, <2>2 DEF MendsAreAnswered
<1>2. MendsAreAnswered'
  BY <1>1 DEF MendsAreAnswered
<1>3. ResolvedWasAnswered'
  BY DEF ResolvedWasAnswered
<1> QED
  BY <1>2, <1>3
-----------------------------------------------------------------------------
(* People, and time *)

LEMMA CommentInductive ==
  ASSUME ReviewInductive, NEW t \in Threads, Comment(t)
  PROVE  ReviewInductive'
<1>1. ReviewTypeOK /\ CommentsCounted /\ UNCHANGED <<rel, status, poll, handler, mends>>
  BY DEF ReviewInductive, Comment
<1>2. used.said < MaxComments /\ used' = [used EXCEPT !.said = @ + 1]
  BY DEF Comment
<1>3. used'.said = used.said + 1 /\ used' \in Uses /\ used.said \in Nat
  BY <1>1, <1>2, Typed, Spends DEF TypesOf, Uses
<1> DEFINE Crosses == \E w \in Menders : mends[w].phase = "resolve" /\ \E p \in mends[w].left : p[1] = t
<1>4. /\ threads' \in [Threads -> ThreadStates]
      /\ \A u \in Threads : u # t => threads'[u] = threads[u]
      /\ threads'[t].said = threads[t].said + 1 /\ ~threads'[t].resolved
      /\ threads'[t].crossed <=> Crosses
  <2>1. threads[t] \in ThreadStates /\ threads[t].said + 1 \in 0..MaxComments
    BY <1>1, <1>2, <1>3, ThreadTyped, BoundsAreNumbers DEF CommentsCounted
  <2>2. threads' = [threads EXCEPT ![t] = [threads[t] EXCEPT !.said = @ + 1, !.resolved = FALSE,
                      !.outdated = FALSE,
                      !.crossed = \E w \in Menders : mends[w].phase = "resolve"
                                                       /\ \E p \in mends[w].left : p[1] = t]]
    BY DEF Comment
  <2>3. threads'[t] = [threads[t] EXCEPT !.said = @ + 1, !.resolved = FALSE, !.outdated = FALSE,
                        !.crossed = \E w \in Menders : mends[w].phase = "resolve"
                                                         /\ \E p \in mends[w].left : p[1] = t]
    BY <1>1, <2>2, ThreadTyped
  <2>4. /\ threads'[t] \in ThreadStates /\ threads'[t].said = threads[t].said + 1
        /\ ~threads'[t].resolved /\ (threads'[t].crossed <=> Crosses)
    BY <2>1, <2>3 DEF ThreadStates
  <2> QED
    BY <1>1, <2>2, <2>4, ThreadTyped
<1>5. ReviewTypeOK'
  BY <1>1, <1>3, <1>4, Typed DEF TypesOf
<1>6. CommentsCounted'
  BY <1>1, <1>3, <1>4, ThreadTyped DEF CommentsCounted
<1>7. MendsAreAnswered'
  BY <1>1, <1>4, MendTyped DEF ReviewInductive, MendsAreAnswered, Comments
<1>8. ResolvedWasAnswered'
  BY <1>1, <1>4 DEF ReviewInductive, ResolvedWasAnswered
<1> QED
  BY <1>1, <1>5, <1>6, <1>7, <1>8, RestKeeps DEF ReviewInductive, BatchesRest

LEMMA MovesInductive ==
  ASSUME ReviewInductive, BranchMoves
  PROVE  ReviewInductive'
<1>1. ReviewTypeOK /\ HeadsArePast /\ rel.last < MaxHeads /\ Disturbs /\ UNCHANGED <<status, poll, handler, mends>>
  BY DEF ReviewInductive, BranchMoves
<1>2. PICK branch \in {rel.branch, <<>>} :
        rel' = [rel EXCEPT !.branch = Append(branch, rel.last + 1), !.last = @ + 1]
  BY DEF BranchMoves
<1>3. PICK gone : threads' = Outdated(gone)
  BY DEF BranchMoves
<1>4. /\ rel' \in Rels /\ rel'.branch = Append(branch, rel.last + 1) /\ rel'.last = rel.last + 1
      /\ rel'.answers = rel.answers /\ branch \in Seq(Commits)
  <2>1. rel.last + 1 \in Commits /\ branch \in Seq(Commits) /\ rel \in Rels
    <3>1. rel.branch \in Seq(Commits) /\ rel \in Rels /\ rel.last \in Commits
      BY <1>1, RelTyped
    <3>2. rel.last + 1 \in Commits
      BY <1>1, <3>1, BoundsAreNumbers DEF Commits
    <3>3. <<>> \in Seq(Commits)
      BY EmptySeq
    <3>4. branch \in Seq(Commits)
      BY <3>1, <3>3, Zenon
    <3> QED
      BY <3>1, <3>2, <3>4
  <2>2. Append(branch, rel.last + 1) \in Seq(Commits)
    BY <2>1
  <2> QED
    BY <1>2, <2>1, <2>2 DEF Rels
<1>5. Tip' = rel.last + 1 /\ Tip' \notin 1..rel.last /\ rel.last \in Nat /\ rel.answers[Tip'] = {}
  <2>1. rel.last \in Commits /\ rel.last + 1 \in Commits
    BY <1>1, RelTyped, BoundsAreNumbers DEF Commits
  <2>2. Tip' = rel.last + 1
    BY <1>4, <2>1 DEF Tip, Last
  <2> QED
    BY <1>1, <2>1, <2>2 DEF HeadsArePast, Commits
<1>6. /\ threads' \in [Threads -> ThreadStates]
      /\ \A t \in Threads : /\ threads'[t].said = threads[t].said
                            /\ threads'[t].resolved = threads[t].resolved
                            /\ threads'[t].crossed = threads[t].crossed
  BY <1>1, <1>3, Outdating
<1>7. ReviewTypeOK'
  BY <1>1, <1>4, <1>6, Spends, Typed DEF TypesOf
<1>8. CommentsCounted'
  BY <1>1, <1>6, Spends DEF ReviewInductive, CommentsCounted
<1>9. /\ rel'.branch # <<>> /\ Len(rel'.branch) = Len(branch) + 1 /\ Len(branch) \in Nat
      /\ \A i \in 1..Len(branch) : rel'.branch[i] = branch[i]
      /\ branch = rel.branch \/ Len(branch) = 0
      /\ rel'.branch[Len(branch) + 1] = rel.last + 1
  BY <1>4, EmptySeq
<1>10. \A i \in 1..Len(branch) : branch[i] <= rel.last
  <2>1. CASE branch = rel.branch
    <3>1. ASSUME NEW i \in 1..Len(branch)
          PROVE  branch[i] <= rel.last
      <4>1. /\ branch[i] <= Tip /\ Tip <= rel.last /\ Tip \in Commits /\ branch[i] \in Commits
            /\ rel.last \in Commits
        BY <1>1, <1>4, <2>1, <3>1, RelTyped DEF HeadsArePast
      <4> QED
        BY <4>1 DEF Commits
    <3> QED
      BY <3>1
  <2> QED
    BY <1>9, <2>1
<1>11. HeadsArePast'
  <2>1. \A i \in DOMAIN rel'.branch : rel'.branch[i] <= rel.last + 1
    <3> TAKE i \in DOMAIN rel'.branch
    <3>1. i \in 1..(Len(branch) + 1)
      BY <1>4, <1>9
    <3>2. CASE i = Len(branch) + 1
      BY <1>5, <1>9, <3>2
    <3>3. CASE i # Len(branch) + 1
      <4>1. i \in 1..Len(branch) /\ branch[i] \in Commits
        BY <1>4, <1>9, <3>1, <3>3
      <4> QED
        BY <1>5, <1>9, <1>10, <4>1 DEF Commits
    <3> QED
      BY <3>2, <3>3
  <2>2. \A s \in DOMAIN status : status[s].head <= rel.last + 1 /\ status[s].commit <= rel.last + 1
    BY <1>1, <1>5, StatusTyped, RelTyped DEF HeadsArePast, Commits
  <2>3. poll.phase = "lease" => poll.head \in 1..(rel.last + 1)
    BY <1>1, <1>5, RunTyped, RelTyped DEF HeadsArePast, Commits
  <2>4. \A c \in Commits : c > rel'.last => rel'.answers[c] = {}
    BY <1>1, <1>4, <1>5 DEF HeadsArePast, Commits
  <2> QED
    BY <1>1, <1>4, <1>5, <1>9, <2>1, <2>2, <2>3, <2>4 DEF HeadsArePast
<1>12. RunsAreApart'
  BY <1>1 DEF ReviewInductive, RunsAreApart
<1>13. RunAsRecorded'
  <2>1. handler.run.phase = "push" => handler.run.commit # Tip'
    <3>1. SUFFICES ASSUME handler.run.phase = "push"
                   PROVE  handler.run.commit # Tip'
      OBVIOUS
    <3>2. handler.run.commit <= rel.last
      BY <3>1 DEF ReviewInductive, RunAsRecorded
    <3> QED
      BY <1>1, <1>5, <3>2, RunTyped
  <2>2. handler.run.phase = "report" => handler.run.commit <= Tip'
    BY <1>1, <1>5, RunTyped, RelTyped DEF ReviewInductive, RunAsRecorded, HeadsArePast, Commits
  <2>3. handler.run.phase \in {"push", "lost", "report"} => handler.run.commit <= rel'.last
    <3>1. handler.run.phase \in {"push", "lost", "report"} => handler.run.commit <= rel.last
      BY DEF ReviewInductive, RunAsRecorded
    <3> QED
      BY <1>1, <1>4, <1>5, <3>1, RunTyped
  <2>4. handler.run.phase = "lost" => handler.run.commit # Tip'
    <3>1. handler.run.phase = "lost" => handler.run.commit <= rel.last
      BY DEF ReviewInductive, RunAsRecorded
    <3> QED
      BY <1>1, <1>5, <3>1, RunTyped
  <2> QED
    BY <1>1, <1>4, <2>1, <2>2, <2>3, <2>4 DEF ReviewInductive, RunAsRecorded
<1>14. TipOnRecord' /\ BatchesAreNew'
  <2>1. \A s \in DOMAIN status : status[s].head # Tip' /\ status[s].commit # Tip'
    BY <1>1, <1>5, StatusTyped, RelTyped DEF HeadsArePast, Commits
  <2> QED
    BY <1>1, <1>4, <1>5, <2>1 DEF TipOnRecord, BatchesAreNew, Resent
<1>15. EditedOnce'
  <2>1. SUFFICES ASSUME NEW i \in 1..(Len(rel'.branch) - 1),
                        ~\E s \in handler.resent : rel.answers[rel'.branch[i]] = Said(status[s].batch)
                 PROVE  rel.answers[rel'.branch[i]] \intersect rel.answers[rel'.branch[i + 1]] = {}
    BY <1>1, <1>4 DEF EditedOnce, Resent
  <2>2. i \in 1..Len(branch) /\ branch = rel.branch /\ Len(branch) # 0
    BY <1>9
  <2>3. CASE i = Len(branch)
    BY <1>4, <1>5, <1>9, <2>3
  <2>4. CASE i # Len(branch)
    <3>1. i \in 1..(Len(branch) - 1) /\ i + 1 \in 1..Len(branch)
      BY <1>9, <2>2, <2>4
    <3>2. i \in 1..(Len(rel.branch) - 1) /\ rel'.branch[i] = rel.branch[i] /\ rel'.branch[i + 1] = rel.branch[i + 1]
      BY <1>9, <2>2, <3>1
    <3> QED
      BY <2>1, <3>2 DEF ReviewInductive, EditedOnce, Resent
  <2> QED
    BY <2>3, <2>4
<1>16. MendsAreAnswered' /\ ResolvedWasAnswered'
  BY <1>1, <1>4, <1>6, AnswersGrow DEF ReviewInductive
<1> QED
  BY <1>7, <1>8, <1>11, <1>12, <1>13, <1>14, <1>15, <1>16 DEF ReviewInductive

LEMMA ClosingInductive ==
  ASSUME ReviewInductive, Closes
  PROVE  ReviewInductive'
<1>1. ReviewTypeOK /\ Disturbs /\ UNCHANGED <<threads, status, poll, handler, mends>>
  BY DEF ReviewInductive, Closes
<1>2. /\ rel' \in Rels /\ rel'.branch = rel.branch /\ rel'.last = rel.last
      /\ rel'.answers = rel.answers
  BY <1>1, RelTyped DEF Closes, Rels
<1>3. ReviewTypeOK'
  BY <1>1, <1>2, Spends, Typed DEF TypesOf
<1>4. CommentsCounted'
  BY <1>1, Spends DEF ReviewInductive, CommentsCounted
<1>5. MendsAreAnswered' /\ ResolvedWasAnswered'
  BY <1>1, <1>2, AnswersGrow DEF ReviewInductive
<1> QED
  BY <1>1, <1>2, <1>3, <1>4, <1>5, RestKeeps DEF ReviewInductive, BatchesRest

LEMMA LeaseEndInductive ==
  ASSUME ReviewInductive, NEW s \in DOMAIN status, LeaseEnds(s)
  PROVE  ReviewInductive'
<1>1. ReviewTypeOK /\ UNCHANGED <<rel, threads, poll, handler, mends>> /\ (Disturbs \/ UNCHANGED used)
  BY DEF ReviewInductive, LeaseEnds
<1>2. /\ status' \in Seq(Statuses) /\ Len(status') = Len(status) /\ DOMAIN status' = DOMAIN status
      /\ \A r \in DOMAIN status :
           /\ status'[r].state = status[r].state /\ status'[r].head = status[r].head
           /\ status'[r].commit = status[r].commit /\ status'[r].batch = status[r].batch
  <2> DEFINE new == [status[s] EXCEPT !.fresh = FALSE]
  <2>1. new \in Statuses /\ new.state = status[s].state /\ new.head = status[s].head
        /\ new.commit = status[s].commit /\ new.batch = status[s].batch
    BY <1>1, StatusTyped DEF Statuses
  <2>2. status' = [status EXCEPT ![s] = new]
    BY DEF LeaseEnds
  <2> HIDE DEF new
  <2> QED
    BY <1>1, <2>1, <2>2, Rewriting DEF Rewrites
<1>3. ReviewTypeOK' /\ CommentsCounted'
  BY <1>1, <1>2, Spends, Typed DEF TypesOf, ReviewInductive, CommentsCounted
<1>4. Tip' = Tip
  BY <1>1 DEF Tip
<1>5. HeadsArePast' /\ RunsAreApart'
  BY <1>1, <1>2, <1>4 DEF ReviewInductive, HeadsArePast, RunsAreApart
<1>6. RunAsRecorded'
  <2>1. handler.run.phase # "idle" => handler.run.id \in DOMAIN status
    BY DEF ReviewInductive, RunsAreApart
  <2> QED
    BY <1>1, <1>2, <1>4, <2>1 DEF ReviewInductive, RunAsRecorded
<1>r. handler.resent \subseteq DOMAIN status
  BY DEF ReviewInductive, RunsAreApart
<1>p. EditedOnce' /\ (Resent(Tip)' <=> Resent(Tip))
  BY <1>1, <1>2, <1>r, ResentKept DEF ReviewInductive
<1>7. TipOnRecord' /\ BatchesAreNew'
  <2>1. handler.run.phase # "idle" => handler.run.id \in DOMAIN status
    BY DEF ReviewInductive, RunsAreApart
  <2>2. TipOnRecord'
    BY <1>1, <1>2, <1>4, <1>p DEF ReviewInductive, TipOnRecord
  <2>3. BatchesAreNew'
    BY <1>1, <1>2, <1>4, <1>p, <2>1 DEF ReviewInductive, BatchesAreNew
  <2> QED
    BY <2>2, <2>3
<1>8. MendsAreAnswered' /\ ResolvedWasAnswered'
  BY <1>1 DEF ReviewInductive, MendsAreAnswered, ResolvedWasAnswered
<1> QED
  BY <1>3, <1>5, <1>6, <1>p, <1>7, <1>8 DEF ReviewInductive
-----------------------------------------------------------------------------
(* Replies and resolutions *)

LEMMA ReplyInductive ==
  ASSUME ReviewInductive, NEW w \in Menders, Reply(w), UNCHANGED <<rel, status>>
  PROVE  ReviewInductive'
<1>1. ReviewTypeOK /\ mends[w].phase = "reply" /\ UNCHANGED <<rel, status, poll, handler>>
  BY DEF ReviewInductive, Reply
<1>2. PICK failed \in SUBSET OpenThreads(w) :
        /\ IF failed = {} THEN UNCHANGED used ELSE Disturbs
        /\ mends' = [mends EXCEPT ![w].phase = "reload", ![w].left = OpenThreads(w) \ failed]
        /\ threads' = [t \in Threads |-> IF \E p \in OpenThreads(w) \ failed : p[1] = t
             THEN [threads[t] EXCEPT !.replied = @ \union {mends[w].commit}] ELSE threads[t]]
  BY DEF Reply
<1>3. mends[w].commit \in Commits /\ OpenThreads(w) \subseteq mends[w].left /\ mends[w] \in Mends
      /\ mends[w].left \subseteq Comments
  BY <1>1, MendTyped, BoundsAreNumbers DEF ReviewInductive, MendsAreAnswered, OpenThreads, Commits
<1>4. /\ threads' \in [Threads -> ThreadStates]
      /\ \A t \in Threads : /\ threads'[t].said = threads[t].said
                            /\ threads'[t].resolved = threads[t].resolved
                            /\ threads'[t].crossed = threads[t].crossed
  <2>1. ASSUME NEW t \in Threads
        PROVE  LET new == [threads[t] EXCEPT !.replied = @ \union {mends[w].commit}]
               IN /\ new \in ThreadStates /\ new.said = threads[t].said
                  /\ new.resolved = threads[t].resolved /\ new.crossed = threads[t].crossed
    BY <1>1, <1>3, ThreadTyped DEF ThreadStates
  <2>2. \A t \in Threads : threads[t] \in ThreadStates
    BY <1>1, ThreadTyped
  <2> QED
    BY <1>2, <2>1, <2>2
<1>5. /\ mends' \in [Menders -> Mends] /\ mends'[w].phase = "reload"
      /\ mends'[w].commit = mends[w].commit /\ mends'[w].left \subseteq mends[w].left
      /\ \A v \in Menders : v # w => mends'[v] = mends[v]
  <2> DEFINE new == [mends[w] EXCEPT !.phase = "reload", !.left = OpenThreads(w) \ failed]
  <2>1. new \in Mends /\ new.phase = "reload" /\ new.commit = mends[w].commit
        /\ new.left = OpenThreads(w) \ failed
    BY <1>3 DEF Mends
  <2>2. mends' = [mends EXCEPT ![w] = new]
    BY <1>2
  <2> HIDE DEF new
  <2> QED
    BY <1>1, <1>3, <2>1, <2>2, MendTyped
<1>6. ReviewTypeOK' /\ CommentsCounted'
  BY <1>1, <1>2, <1>4, <1>5, Spends, Typed DEF TypesOf, ReviewInductive, CommentsCounted
<1>7. MendsAreAnswered'
  BY <1>1, <1>4, <1>5, MendTyped DEF ReviewInductive, MendsAreAnswered, Comments
<1>8. ResolvedWasAnswered'
  BY <1>1, <1>4 DEF ReviewInductive, ResolvedWasAnswered
<1> QED
  BY <1>1, <1>6, <1>7, <1>8, RestKeeps DEF ReviewInductive, BatchesRest

LEMMA ReloadInductive ==
  ASSUME ReviewInductive, NEW w \in Menders, Reload(w), UNCHANGED <<rel, status>>
  PROVE  ReviewInductive'
<1>1. ReviewTypeOK /\ mends[w].phase = "reload" /\ UNCHANGED <<rel, status, threads, poll, handler, used>>
  BY DEF ReviewInductive, Reload
<1>2. /\ OpenThreads(w) \subseteq mends[w].left /\ mends[w] \in Mends
      /\ \A p \in OpenThreads(w) : threads[p[1]].said = p[2]
  BY <1>1, MendTyped DEF OpenThreads, Unsettled
<1>3. /\ mends' \in [Menders -> Mends] /\ mends'[w].commit = mends[w].commit
      /\ mends'[w].left = OpenThreads(w) /\ mends'[w].phase = "resolve"
      /\ \A v \in Menders : v # w => mends'[v] = mends[v]
  <2> DEFINE new == [mends[w] EXCEPT !.phase = "resolve", !.left = OpenThreads(w)]
  <2>1. new \in Mends /\ new.commit = mends[w].commit /\ new.left = OpenThreads(w)
        /\ new.phase = "resolve"
    BY <1>2 DEF Mends
  <2>2. mends' = [mends EXCEPT ![w] = new]
    BY DEF Reload
  <2> HIDE DEF new
  <2> QED
    BY <1>1, <2>1, <2>2, MendTyped
<1>4. ReviewTypeOK' /\ CommentsCounted'
  BY <1>1, <1>3, Spends, Typed DEF TypesOf, ReviewInductive, CommentsCounted
<1>5. MendsAreAnswered'
  <2>1. ASSUME NEW v \in Menders
        PROVE  /\ mends'[v].phase # "idle"
                    => mends'[v].commit # 0 /\ mends'[v].left \subseteq rel.answers[mends'[v].commit]
               /\ mends'[v].phase = "resolve"
                    => \A p \in mends'[v].left : threads[p[1]].said = p[2] \/ threads[p[1]].crossed
    BY <1>1, <1>2, <1>3 DEF ReviewInductive, MendsAreAnswered
  <2> QED
    BY <1>1, <2>1 DEF MendsAreAnswered
<1>6. ResolvedWasAnswered'
  BY <1>1 DEF ReviewInductive, ResolvedWasAnswered
<1> QED
  BY <1>1, <1>4, <1>5, <1>6, RestKeeps DEF ReviewInductive, BatchesRest

(* A run, or a poll, that ends takes its part of the bookkeeping along.    *)
Ended(w) ==
  /\ poll' = IF w = "poll" THEN IdlePoll ELSE poll
  /\ handler' = IF w = "handler" THEN [handler EXCEPT !.run = IdleHandler] ELSE handler

LEMMA IdleTyped ==
  ASSUME ReviewTypeOK
  PROVE  /\ IdlePoll \in Polls /\ IdleHandler \in Runs /\ NoMend \in Mends
         /\ IdlePoll.phase = "idle" /\ IdleHandler.phase = "idle" /\ NoMend.phase = "idle"
         /\ [handler EXCEPT !.run = IdleHandler] \in Handlers
         /\ [handler EXCEPT !.run = IdleHandler].run = IdleHandler
         /\ [handler EXCEPT !.run = IdleHandler].queued = handler.queued
         /\ [handler EXCEPT !.run = IdleHandler].resent = handler.resent
<1>1. IdlePoll \in Polls /\ IdlePoll.phase = "idle"
  BY BoundsAreNumbers DEF IdlePoll, Polls
<1>2. IdleHandler \in Runs /\ IdleHandler.phase = "idle"
  BY BoundsAreNumbers DEF IdleHandler, Runs, Handlers
<1>3. NoMend \in Mends /\ NoMend.phase = "idle"
  BY BoundsAreNumbers DEF NoMend, Mends
<1> QED
  BY <1>1, <1>2, <1>3, RunTyped DEF Handlers

LEMMA EndKeeps ==
  ASSUME ReviewInductive, NEW w \in Menders, Ended(w), UNCHANGED <<rel, status>>
  PROVE  /\ HeadsArePast' /\ RunsAreApart' /\ RunAsRecorded' /\ TipOnRecord'
         /\ BatchesAreNew' /\ EditedOnce'
         /\ poll' \in Polls /\ handler' \in Handlers
<1>1. ReviewTypeOK /\ Tip' = Tip /\ UNCHANGED <<rel, status>>
  BY DEF ReviewInductive, Tip
<1>2. /\ poll' = poll \/ poll'.phase = "idle"
      /\ handler'.run = handler.run \/ handler'.run.phase = "idle"
      /\ handler'.queued = handler.queued /\ handler'.resent = handler.resent
      /\ poll' \in Polls /\ handler' \in Handlers
  BY <1>1, IdleTyped, RunTyped DEF Ended, Menders
<1>3. HeadsArePast' /\ EditedOnce' /\ TipOnRecord' /\ BatchesAreNew'
  BY <1>1, <1>2 DEF ReviewInductive, HeadsArePast, EditedOnce, TipOnRecord, BatchesAreNew, Resent
<1>4. RunsAreApart'
  BY <1>1, <1>2 DEF ReviewInductive, RunsAreApart
<1>5. RunAsRecorded'
  BY <1>1, <1>2 DEF ReviewInductive, RunAsRecorded
<1> QED
  BY <1>2, <1>3, <1>4, <1>5

LEMMA ResolveInductive ==
  ASSUME ReviewInductive, NEW w \in Menders, Resolve(w), UNCHANGED <<rel, status>>
  PROVE  ReviewInductive'
<1>1. ReviewTypeOK /\ mends[w].phase = "resolve" /\ UNCHANGED <<rel, status>> /\ Ended(w)
      /\ mends' = [mends EXCEPT ![w] = NoMend]
  BY DEF ReviewInductive, Resolve, Ended
<1>2. PICK failed \in SUBSET mends[w].left :
        /\ IF failed = {} THEN UNCHANGED used ELSE Disturbs
        /\ threads' = [t \in Threads |-> IF \E p \in mends[w].left \ failed : p[1] = t
             THEN [threads[t] EXCEPT !.resolved = TRUE] ELSE threads[t]]
  BY DEF Resolve
<1>3. /\ threads' \in [Threads -> ThreadStates]
      /\ \A t \in Threads : /\ threads'[t].said = threads[t].said
                            /\ threads'[t].crossed = threads[t].crossed
                            /\ threads'[t].resolved
                                 => threads[t].resolved \/ \E p \in mends[w].left : p[1] = t
  <2>1. ASSUME NEW t \in Threads
        PROVE  LET new == [threads[t] EXCEPT !.resolved = TRUE]
               IN /\ new \in ThreadStates /\ new.said = threads[t].said
                  /\ new.crossed = threads[t].crossed
    BY <1>1, ThreadTyped DEF ThreadStates
  <2>2. \A t \in Threads : threads[t] \in ThreadStates
    BY <1>1, ThreadTyped
  <2> QED
    BY <1>2, <2>1, <2>2
<1>4. /\ mends' \in [Menders -> Mends] /\ mends'[w].phase = "idle"
      /\ \A v \in Menders : v # w => mends'[v] = mends[v]
  BY <1>1, MendTyped, IdleTyped
<1>5. ReviewTypeOK' /\ CommentsCounted'
  BY <1>1, <1>2, <1>3, <1>4, EndKeeps, Spends, Typed DEF TypesOf, ReviewInductive, CommentsCounted
<1>6. MendsAreAnswered'
  BY <1>1, <1>3, <1>4, MendTyped DEF ReviewInductive, MendsAreAnswered, Comments
<1>7. ResolvedWasAnswered'
  <2>1. ASSUME NEW t \in Threads, threads'[t].resolved, ~threads'[t].crossed
        PROVE  \E c \in Commits : <<t, threads[t].said>> \in rel.answers[c]
    <3>1. CASE threads[t].resolved
      BY <1>3, <2>1, <3>1 DEF ReviewInductive, ResolvedWasAnswered
    <3>2. CASE ~threads[t].resolved
      <4>1. PICK p \in mends[w].left : p[1] = t
        BY <1>3, <2>1, <3>2
      <4>2. threads[t].said = p[2] /\ mends[w].left \subseteq rel.answers[mends[w].commit] /\ mends[w].commit # 0
        BY <1>1, <1>3, <2>1, <4>1 DEF ReviewInductive, MendsAreAnswered
      <4>3. p = <<t, threads[t].said>> /\ mends[w].commit \in Commits
        BY <1>1, <4>1, <4>2, MendTyped, BoundsAreNumbers DEF Comments, Commits
      <4> QED
        BY <4>2, <4>3
    <3> QED
      BY <3>1, <3>2
  <2> QED
    BY <1>1, <1>3, <2>1 DEF ResolvedWasAnswered
<1> QED
  BY <1>1, <1>5, <1>6, <1>7, EndKeeps DEF ReviewInductive
-----------------------------------------------------------------------------
(* The watcher's polls *)

(* The bookkeeping of a batch starts with what a commit answers.           *)
LEMMA MendingStarts ==
  ASSUME ReviewInductive, NEW w \in Menders, NEW commit \in Commits, NEW batch \in SUBSET Selections,
         rel.answers[commit] = Said(batch), mends' = [mends EXCEPT ![w] = Mending(commit, batch)],
         UNCHANGED <<rel, threads>>
  PROVE  mends' \in [Menders -> Mends] /\ MendsAreAnswered' /\ ResolvedWasAnswered'
<1>1. ReviewTypeOK /\ Said(batch) \in SUBSET Comments /\ commit # 0
  BY SaidTyped, BoundsAreNumbers DEF ReviewInductive, Commits
<1> DEFINE new == Mending(commit, batch)
<1>2. new \in Mends /\ new.phase = "reply" /\ new.commit = commit /\ new.left = Said(batch)
  BY <1>1, BoundsAreNumbers DEF Mending, Mends, Commits
<1> HIDE DEF new
<1>3. /\ mends' \in [Menders -> Mends] /\ mends'[w] = new
      /\ \A v \in Menders : v # w => mends'[v] = mends[v]
  BY <1>1, <1>2, MendTyped DEF new
<1>4. MendsAreAnswered'
  <2>1. ASSUME NEW v \in Menders
        PROVE  /\ mends'[v].phase # "idle"
                    => mends'[v].commit # 0 /\ mends'[v].left \subseteq rel.answers[mends'[v].commit]
               /\ mends'[v].phase = "resolve"
                    => \A p \in mends'[v].left : threads[p[1]].said = p[2] \/ threads[p[1]].crossed
    BY <1>1, <1>2, <1>3 DEF ReviewInductive, MendsAreAnswered
  <2> QED
    BY <2>1 DEF MendsAreAnswered
<1>5. ResolvedWasAnswered'
  BY DEF ReviewInductive, ResolvedWasAnswered
<1> QED
  BY <1>3, <1>4, <1>5

LEMMA RecoveryInductive ==
  ASSUME ReviewInductive, NEW s \in DOMAIN status, PollRecovers(s)
  PROVE  ReviewInductive'
<1>1. /\ ReviewTypeOK /\ UNCHANGED <<rel, threads, handler, used>> /\ poll.phase = "idle"
      /\ status[s].commit = Tip /\ Tip' = Tip /\ rel.branch # <<>>
  BY DEF ReviewInductive, HeadsArePast, PollRecovers, Unfinished, Tip
<1>2. Tip \in Commits /\ rel.answers[Tip] = Said(status[s].batch) /\ status[s].batch \in SUBSET Selections
  BY <1>1, RelTyped, StatusTyped DEF ReviewInductive, TipOnRecord, Resent
<1>3. Rewrites(s, "addressed", Tip, status[s].commit)
  <2> DEFINE new == [status[s] EXCEPT !.state = "addressed", !.head = Tip, !.fresh = FALSE]
  <2>1. new \in Statuses /\ new.state = "addressed" /\ new.head = Tip
        /\ new.commit = status[s].commit /\ new.batch = status[s].batch
    BY <1>1, <1>2, StatusTyped DEF Statuses, States
  <2>2. status' = [status EXCEPT ![s] = new]
    BY DEF PollRecovers
  <2> HIDE DEF new
  <2> QED
    BY <1>1, <2>1, <2>2, Rewriting
<1>4. /\ poll'.phase \in {"idle", "mend"} /\ poll' \in Polls
      /\ mends' \in [Menders -> Mends] /\ MendsAreAnswered' /\ ResolvedWasAnswered'
  <2>1. CASE Left(s)
    <3>1. poll' = [poll EXCEPT !.phase = "mend"] /\ mends' = [mends EXCEPT !["poll"] = Mending(Tip, status[s].batch)]
      BY <2>1 DEF PollRecovers
    <3>2. poll'.phase = "mend" /\ poll' \in Polls
      BY <1>1, <3>1, RunTyped DEF Polls
    <3> QED
      BY <1>1, <1>2, <3>1, <3>2, MendingStarts DEF Menders
  <2>2. CASE ~Left(s)
    <3>1. UNCHANGED <<poll, mends>>
      BY <2>2 DEF PollRecovers
    <3> QED
      BY <1>1, <3>1, RunTyped, Typed DEF TypesOf, ReviewInductive, MendsAreAnswered, ResolvedWasAnswered
  <2> QED
    BY <2>1, <2>2
<1>5. ReviewTypeOK' /\ CommentsCounted'
  BY <1>1, <1>3, <1>4, Typed DEF TypesOf, ReviewInductive, CommentsCounted, Rewrites
<1>r. handler.resent \subseteq DOMAIN status /\ \A r \in DOMAIN status : status'[r].batch = status[r].batch
  BY <1>3 DEF ReviewInductive, RunsAreApart, Rewrites
<1>p. EditedOnce' /\ (Resent(Tip)' <=> Resent(Tip))
  BY <1>1, <1>r, ResentKept DEF ReviewInductive
<1>6. HeadsArePast'
  <2>1. \A r \in DOMAIN status' : status'[r].head <= Tip /\ status'[r].commit <= rel.last
    <3> TAKE r \in DOMAIN status'
    <3>1. status[r].head <= Tip /\ status[r].commit <= rel.last /\ Tip <= Tip
      BY <1>2, <1>3 DEF ReviewInductive, HeadsArePast, Rewrites, Commits
    <3> QED
      BY <1>3, <3>1 DEF Rewrites
  <2> QED
    BY <1>1, <1>4, <2>1 DEF ReviewInductive, HeadsArePast
<1>7. RunsAreApart'
  <2>1. DOMAIN status' = DOMAIN status /\ Len(status') = Len(status)
        /\ \A r \in DOMAIN status : status'[r].commit = status[r].commit
    BY <1>3 DEF Rewrites
  <2> QED
    BY <1>1, <1>4, <2>1 DEF ReviewInductive, RunsAreApart
<1>8. RunAsRecorded'
  <2>1. handler.run.phase # "idle" => handler.run.id \in DOMAIN status
    BY DEF ReviewInductive, RunsAreApart
  <2>2. handler.run.phase = "push" => handler.run.id # s
    <3>1. SUFFICES ASSUME handler.run.phase = "push", handler.run.id = s
                   PROVE  FALSE
      OBVIOUS
    <3>2. status[s].commit # 0
      BY <1>1, <1>2, BoundsAreNumbers DEF Commits
    <3> QED
      BY <1>1, <3>1, <3>2 DEF ReviewInductive, RunAsRecorded
  <2> QED
    BY <1>1, <1>3, <2>1, <2>2 DEF ReviewInductive, RunAsRecorded, Rewrites
<1>9. TipOnRecord'
  <2>1. Resent(Tip)' \/ rel.answers[Tip] = {} \/ (s \in DOMAIN status' /\ status'[s].commit = Tip /\ status'[s].state = "addressed")
    BY <1>1, <1>3 DEF Rewrites
  <2>2. \A r \in DOMAIN status' : status'[r].commit = Tip => rel.answers[Tip] = Said(status'[r].batch)
    BY <1>3 DEF ReviewInductive, TipOnRecord, Rewrites
  <2> QED
    BY <1>1, <2>1, <2>2 DEF TipOnRecord
<1>10. BatchesAreNew'
  <2>1. SUFFICES ASSUME ~Resent(Tip)
                 PROVE  BatchesAreNew'
    BY <1>1, <1>p DEF BatchesAreNew
  <2>2. poll'.phase # "lease"
    BY <1>4
  <2>3. /\ handler.run.phase # "idle" => handler.run.id \in DOMAIN status
        /\ handler.run.phase \in {"edit", "push"} => handler.run.id # s
    <3>1. status[s].commit # 0
      BY <1>1, <1>2, BoundsAreNumbers DEF Commits
    <3> QED
      BY <1>1, <3>1 DEF ReviewInductive, RunsAreApart, RunAsRecorded
  <2>4. \A r \in DOMAIN status' :
          status'[r].state = "addressing" /\ status'[r].head = Tip /\ status'[r].commit # Tip
            => Said(status'[r].batch) \intersect rel.answers[Tip] = {}
    BY <1>3, <2>1 DEF ReviewInductive, BatchesAreNew, Rewrites
  <2>5. handler.run.phase \in {"edit", "push"} /\ status'[handler.run.id].head = Tip
          => Said(handler.run.batch) \intersect rel.answers[Tip] = {}
    BY <1>3, <2>1, <2>3 DEF ReviewInductive, BatchesAreNew, Rewrites
  <2> QED
    BY <1>1, <2>2, <2>4, <2>5 DEF BatchesAreNew
<1> QED
  BY <1>4, <1>5, <1>6, <1>p, <1>7, <1>8, <1>9, <1>10 DEF ReviewInductive

(* What a poll selects is not what the tip answers: a batch that the tip
   answers, and that is not settled, keeps the poll from reading on.       *)
LEMMA ReadIsNew ==
  ASSUME ReviewInductive, \A s \in DOMAIN status : ~Unfinished(s)
  PROVE  Resent(Tip) \/ Said(Selected) \intersect rel.answers[Tip] = {}
<1>1. ReviewTypeOK
  BY DEF ReviewInductive
<1>2. SUFFICES ASSUME NEW p \in Said(Selected), p \in rel.answers[Tip], ~Resent(Tip)
               PROVE  FALSE
  OBVIOUS
<1>3. PICK s \in DOMAIN status : status[s].commit = Tip /\ status[s].state \in {"addressing", "addressed"}
  BY <1>2 DEF ReviewInductive, TipOnRecord
<1>4. p \in Said(status[s].batch) /\ Unsettled(p)
  BY <1>1, <1>2, <1>3, SelectedTyped DEF ReviewInductive, TipOnRecord
<1>5. Left(s)
  BY <1>4 DEF Left
<1> QED
  BY <1>3, <1>5 DEF Unfinished

LEMMA ReadingInductive ==
  ASSUME ReviewInductive, PollReads
  PROVE  ReviewInductive'
<1>1. /\ ReviewTypeOK /\ UNCHANGED <<rel, threads, status, handler, mends, used>> /\ Tip' = Tip
      /\ rel.branch # <<>> /\ poll' = [poll EXCEPT !.phase = "lease", !.head = Tip, !.batch = Selected]
  BY DEF ReviewInductive, HeadsArePast, PollReads, Tip
<1>2. Tip \in Commits /\ Selected \in SUBSET Selections
  BY <1>1, RelTyped, SelectedTyped
<1>3. poll' \in Polls /\ poll'.phase = "lease" /\ poll'.head = Tip /\ poll'.batch = Selected
  <2>1. PICK h \in 0..MaxHeads, batch \in SUBSET Selections : h = Tip /\ batch = Selected
    BY <1>2, BoundsAreNumbers DEF Commits
  <2>2. poll' = [poll EXCEPT !.phase = "lease", !.head = h, !.batch = batch] /\ poll \in Polls
    BY <1>1, <2>1, RunTyped
  <2> QED
    BY <2>1, <2>2 DEF Polls
<1>4. ReviewTypeOK' /\ CommentsCounted'
  BY <1>1, <1>3, Typed DEF TypesOf, ReviewInductive, CommentsCounted
<1>5. HeadsArePast' /\ RunsAreApart' /\ EditedOnce'
  BY <1>1, <1>2, <1>3 DEF ReviewInductive, HeadsArePast, RunsAreApart, EditedOnce, Commits, Resent
<1>6. RunAsRecorded' /\ TipOnRecord'
  BY <1>1 DEF ReviewInductive, RunAsRecorded, TipOnRecord, Resent
<1>r. Resent(Tip)' <=> Resent(Tip)
  BY <1>1 DEF Resent
<1>7. BatchesAreNew'
  BY <1>1, <1>3, <1>r, ReadIsNew DEF ReviewInductive, BatchesAreNew, PollReads
<1>8. MendsAreAnswered' /\ ResolvedWasAnswered'
  BY <1>1 DEF ReviewInductive, MendsAreAnswered, ResolvedWasAnswered
<1> QED
  BY <1>4, <1>5, <1>6, <1>7, <1>8 DEF ReviewInductive

LEMMA LeasingInductive ==
  ASSUME ReviewInductive, PollLeases
  PROVE  ReviewInductive'
<1> DEFINE n == Len(status) + 1
           new == StatusComment("addressing", poll.head, poll.batch, 0)
<1>1. /\ ReviewTypeOK /\ UNCHANGED <<rel, threads, handler, mends>> /\ Tip' = Tip
      /\ poll.phase = "lease" /\ n <= MaxStatus /\ Len(status) \in Nat
      /\ status' = Append(status, new) /\ (UNCHANGED used \/ Disturbs)
      /\ poll' = [IdlePoll EXCEPT !.phase = "dispatch"] \/ UNCHANGED poll
  BY StatusTyped, BoundsAreNumbers DEF ReviewInductive, PollLeases, Tip
<1>2. poll.head \in Commits /\ poll.head <= Tip /\ Tip \in Commits
  BY <1>1, RunTyped, RelTyped DEF ReviewInductive, HeadsArePast, Commits
<1>3. new \in Statuses /\ new.head = poll.head /\ new.batch = poll.batch /\ new.commit = 0
  BY <1>1, <1>2, RunTyped, BoundsAreNumbers DEF StatusComment, Statuses, States
<1> HIDE DEF new
<1>4. /\ status' \in Seq(Statuses) /\ Len(status') = n /\ DOMAIN status' = 1..n /\ n \in Nat
      /\ DOMAIN status = 1..Len(status) /\ status'[n] = new
      /\ \A s \in DOMAIN status : status'[s] = status[s] /\ s # n /\ s \in DOMAIN status'
  BY <1>1, <1>3, StatusTyped
<1>5. poll' \in Polls /\ (poll'.phase = "dispatch" \/ UNCHANGED poll)
  BY <1>1, IdleTyped, RunTyped DEF IdlePoll, Polls
<1>6. ReviewTypeOK' /\ CommentsCounted'
  BY <1>1, <1>4, <1>5, Spends, Typed DEF TypesOf, ReviewInductive, CommentsCounted
<1>7. HeadsArePast'
  <2>1. \A s \in DOMAIN status' : status'[s].head <= Tip /\ status'[s].commit <= rel.last
    <3> TAKE s \in DOMAIN status'
    <3>1. CASE s = n
      BY <1>1, <1>2, <1>3, <1>4, <3>1, RelTyped DEF Commits
    <3>2. CASE s # n
      <4>1. s \in DOMAIN status
        BY <1>1, <1>4, <3>2
      <4> QED
        BY <1>4, <4>1 DEF ReviewInductive, HeadsArePast
    <3> QED
      BY <3>1, <3>2
  <2> QED
    BY <1>1, <1>5, <2>1 DEF ReviewInductive, HeadsArePast
<1>8. \A s \in DOMAIN status' : s = n \/ s \in DOMAIN status
  BY <1>1, <1>4
<1>r. handler.resent \subseteq DOMAIN status
  BY DEF ReviewInductive, RunsAreApart
<1>p. EditedOnce' /\ (Resent(Tip)' <=> Resent(Tip))
  BY <1>1, <1>4, <1>r, ResentKept DEF ReviewInductive
<1>9. RunsAreApart'
  <2>1. n \notin DOMAIN status /\ n # 0 /\ n \in DOMAIN status'
    BY <1>1, <1>4
  <2>2. /\ ({handler.queued} \ {0}) \union handler.resent \subseteq DOMAIN status
        /\ handler.run.phase # "idle" => handler.run.id \in DOMAIN status
    BY DEF ReviewInductive, RunsAreApart
  <2>3. ASSUME NEW s \in DOMAIN status' \ handler.resent
        PROVE  LET asked == poll'.phase = "dispatch" /\ s = n
                   waits == s = handler.queued
                   runs == handler.run.phase # "idle" /\ s = handler.run.id
               IN /\ ~(asked /\ waits) /\ ~(runs /\ (asked \/ waits))
                  /\ asked \/ waits => status'[s].commit = 0
    <3>1. CASE s = n
      BY <1>3, <1>4, <2>1, <2>2, <3>1
    <3>2. CASE s # n
      <4>1. s \in DOMAIN status \ handler.resent /\ status'[s] = status[s]
        BY <1>4, <1>8, <2>3, <3>2
      <4> QED
        BY <3>2, <4>1 DEF ReviewInductive, RunsAreApart
    <3> QED
      BY <3>1, <3>2
  <2> QED
    BY <1>1, <1>4, <2>1, <2>2, <2>3 DEF RunsAreApart
<1>10. RunAsRecorded'
  <2>1. handler.run.phase # "idle" => handler.run.id \in DOMAIN status
    BY DEF ReviewInductive, RunsAreApart
  <2>2. handler.run.phase = "push" => handler.run.commit # 0
    BY DEF ReviewInductive, RunAsRecorded
  <2> QED
    BY <1>1, <1>3, <1>4, <1>8, <2>1, <2>2 DEF ReviewInductive, RunAsRecorded
<1>11. TipOnRecord'
  <2>1. \A s \in DOMAIN status' : s \in DOMAIN status \/ status'[s].commit # Tip
    BY <1>1, <1>2, <1>3, <1>4, <1>8, BoundsAreNumbers DEF Commits
  <2> QED
    BY <1>1, <1>4, <1>p, <2>1 DEF ReviewInductive, TipOnRecord
<1>12. BatchesAreNew'
  <2>1. SUFFICES ASSUME ~Resent(Tip)
                 PROVE  BatchesAreNew'
    BY <1>1, <1>p DEF BatchesAreNew
  <2>2. ASSUME NEW s \in DOMAIN status', status'[s].state = "addressing", status'[s].head = Tip,
               status'[s].commit # Tip
        PROVE  Said(status'[s].batch) \intersect rel.answers[Tip] = {}
    <3>1. CASE s = n
      BY <1>1, <1>3, <1>4, <2>1, <2>2, <3>1 DEF ReviewInductive, BatchesAreNew
    <3>2. CASE s # n
      <4>1. s \in DOMAIN status
        BY <1>1, <1>4, <3>2
      <4> QED
        BY <1>4, <2>1, <2>2, <4>1 DEF ReviewInductive, BatchesAreNew
    <3> QED
      BY <3>1, <3>2
  <2>3. handler.run.phase # "idle" => handler.run.id \in DOMAIN status
    BY DEF ReviewInductive, RunsAreApart
  <2>4. handler.run.phase \in {"edit", "push"} /\ status'[handler.run.id].head = Tip
          => Said(handler.run.batch) \intersect rel.answers[Tip] = {}
    BY <1>4, <2>1, <2>3 DEF ReviewInductive, BatchesAreNew
  <2>5. poll'.phase = "lease" /\ poll'.head = Tip => Said(poll'.batch) \intersect rel.answers[Tip] = {}
    BY <1>5, <2>1 DEF ReviewInductive, BatchesAreNew
  <2> QED
    BY <1>1, <2>2, <2>4, <2>5 DEF BatchesAreNew
<1>13. MendsAreAnswered' /\ ResolvedWasAnswered'
  BY <1>1 DEF ReviewInductive, MendsAreAnswered, ResolvedWasAnswered
<1> QED
  BY <1>6, <1>7, <1>p, <1>9, <1>10, <1>11, <1>12, <1>13 DEF ReviewInductive

(* A run of the poll's status is on its way; the poll is done with it, or
   its dispatch is now one that was sent twice.                            *)
LEMMA QueueInductive ==
  ASSUME ReviewInductive, poll.phase = "dispatch", NEW resent,
         handler' = [handler EXCEPT !.queued = Len(status), !.resent = resent],
         \/ resent = handler.resent /\ poll' = IdlePoll
         \/ resent = handler.resent \union {Len(status)} /\ poll' = poll,
         UNCHANGED used \/ Disturbs, UNCHANGED <<rel, threads, status, mends>>
  PROVE  ReviewInductive'
<1> DEFINE n == Len(status)
<1>1. /\ ReviewTypeOK /\ n \in DOMAIN status /\ n \in 1..MaxStatus
      /\ handler.resent \subseteq DOMAIN status /\ DOMAIN status \subseteq 1..MaxStatus
  <2>1. ReviewTypeOK /\ n \in DOMAIN status /\ handler.resent \subseteq DOMAIN status
    BY DEF ReviewInductive, RunsAreApart
  <2> QED
    BY <2>1, StatusTyped
<1>2. /\ handler' \in Handlers /\ handler'.queued = n /\ handler'.run = handler.run
      /\ handler'.resent = resent /\ handler.resent \subseteq resent /\ resent \subseteq DOMAIN status
  <2>1. handler.resent \subseteq resent /\ resent \subseteq DOMAIN status /\ resent \in SUBSET (1..MaxStatus)
    BY <1>1
  <2>2. PICK q \in 0..MaxStatus : q = n
    BY <1>1, BoundsAreNumbers
  <2>3. handler' = [handler EXCEPT !.queued = q, !.resent = resent] /\ handler \in Handlers
    BY <1>1, <2>2, RunTyped
  <2>4. handler' \in Handlers /\ handler'.queued = q /\ handler'.run = handler.run /\ handler'.resent = resent
    BY <2>1, <2>3 DEF Handlers
  <2> QED
    BY <2>1, <2>2, <2>4
<1>3. /\ poll' \in Polls /\ (poll'.phase = "idle" \/ poll' = poll)
      /\ poll'.phase = "dispatch" => n \in resent
  BY <1>1, IdleTyped, RunTyped
<1>4. /\ Tip' = Tip /\ EditedOnce' /\ (Resent(Tip) => Resent(Tip)')
  BY <1>1, <1>2, ResentKept DEF ReviewInductive
<1>5. ReviewTypeOK' /\ CommentsCounted'
  BY <1>1, <1>2, <1>3, Spends, Typed DEF TypesOf, ReviewInductive, CommentsCounted
<1>6. HeadsArePast'
  BY <1>3, <1>4 DEF ReviewInductive, HeadsArePast
<1>7. TipOnRecord'
  BY <1>4 DEF ReviewInductive, TipOnRecord
<1>8. BatchesAreNew'
  BY <1>2, <1>3, <1>4 DEF ReviewInductive, BatchesAreNew
<1>9. RunsAreApart'
  BY <1>1, <1>2, <1>3 DEF ReviewInductive, RunsAreApart
<1>10. RunAsRecorded'
  <2>1. \A s \in handler.resent : s \in handler'.resent
    BY <1>2
  <2> QED
    BY <1>2, <1>4, <2>1 DEF ReviewInductive, RunAsRecorded
<1>11. MendsAreAnswered' /\ ResolvedWasAnswered'
  BY DEF ReviewInductive, MendsAreAnswered, ResolvedWasAnswered
<1> QED
  BY <1>4, <1>5, <1>6, <1>7, <1>8, <1>9, <1>10, <1>11 DEF ReviewInductive

LEMMA DispatchInductive ==
  ASSUME ReviewInductive, PollDispatches
  PROVE  ReviewInductive'
<1> DEFINE n == Len(status)
<1>1. /\ ReviewTypeOK /\ UNCHANGED <<rel, threads, mends>> /\ Tip' = Tip
      /\ poll.phase = "dispatch"
  BY DEF ReviewInductive, PollDispatches, Tip
<1>2. CASE DispatchReview(n) /\ poll' = IdlePoll /\ UNCHANGED <<status, used>>
  <2>1. handler' = [handler EXCEPT !.queued = n, !.resent = handler.resent]
    <3>1. handler \in Handlers
      BY <1>1, RunTyped
    <3> QED
      BY <1>2, <3>1 DEF DispatchReview, Handlers
  <2> QED
    BY <1>1, <1>2, <2>1, QueueInductive
<1>3. CASE DispatchLost(n) /\ Disturbs /\ UNCHANGED <<poll, status>>
  <2>1. handler' = [handler EXCEPT !.queued = n, !.resent = handler.resent \union {n}]
    BY <1>3 DEF DispatchLost
  <2> QED
    BY <1>1, <1>3, <2>1, QueueInductive
<1>4. CASE /\ Disturbs /\ poll' = IdlePoll /\ UNCHANGED handler
           /\ status' = [status EXCEPT ![n].state = "failed", ![n].fresh = FALSE, ![n].commit = 0]
  <2>1. /\ n \in DOMAIN status /\ (n \in handler.resent \/ status[n].commit = 0)
        /\ handler.resent \subseteq DOMAIN status
        /\ n \notin handler.resent /\ handler.run.phase # "idle" => n # handler.run.id
        /\ handler.run.phase # "idle" => handler.run.id \in DOMAIN status
    BY <1>1 DEF ReviewInductive, RunsAreApart
  <2>2. poll' \in Polls /\ poll'.phase = "idle"
    BY <1>1, <1>4, IdleTyped
  <2>3. Rewrites(n, "failed", status[n].head, 0)
    <3> DEFINE new == [status[n] EXCEPT !.state = "failed", !.fresh = FALSE, !.commit = 0]
    <3>1. new \in Statuses /\ new.state = "failed" /\ new.head = status[n].head
          /\ new.commit = 0 /\ new.batch = status[n].batch
      <4>1. status[n] \in Statuses /\ "failed" \in States /\ 0 \in 0..MaxHeads /\ FALSE \in BOOLEAN
        BY <1>1, <2>1, StatusTyped, BoundsAreNumbers DEF States
      <4> QED
        BY <4>1 DEF Statuses
    <3>2. status' = [status EXCEPT ![n] = new]
      BY <1>4
    <3> HIDE DEF new
    <3> QED
      BY <1>1, <2>1, <3>1, <3>2, Rewriting
  <2>4. ReviewTypeOK' /\ CommentsCounted'
    BY <1>1, <1>4, <2>2, <2>3, Spends, Typed DEF TypesOf, ReviewInductive, CommentsCounted, Rewrites
  <2>5. Tip \in Commits /\ 0 \notin Commits /\ rel.last \in Commits
    BY <1>1, RelTyped, BoundsAreNumbers DEF ReviewInductive, HeadsArePast, Commits
  <2>6. EditedOnce' /\ (Resent(Tip)' <=> Resent(Tip))
    BY <1>1, <1>4, <2>1, <2>3, ResentKept DEF ReviewInductive, Rewrites
  <2>7. HeadsArePast'
    <3>1. \A r \in DOMAIN status' : status'[r].head <= Tip /\ status'[r].commit <= rel.last
      BY <2>1, <2>3, <2>5 DEF ReviewInductive, HeadsArePast, Rewrites, Commits
    <3> QED
      BY <1>1, <2>2, <3>1 DEF ReviewInductive, HeadsArePast
  <2>8. TipOnRecord'
    <3>1. status[n].commit = Tip => Resent(Tip)
      BY <2>1, <2>5 DEF ReviewInductive, TipOnRecord, Resent
    <3> QED
      BY <1>1, <2>1, <2>3, <2>5, <2>6, <3>1 DEF ReviewInductive, TipOnRecord, Rewrites
  <2>9. BatchesAreNew'
    BY <1>1, <1>4, <2>1, <2>2, <2>3, <2>6 DEF ReviewInductive, BatchesAreNew, Rewrites
  <2>10. RunsAreApart'
    BY <1>1, <1>4, <2>1, <2>2, <2>3 DEF ReviewInductive, RunsAreApart, Rewrites
  <2>11. RunAsRecorded'
    <3>1. handler.run.phase = "push" => handler.run.commit # 0
      BY DEF ReviewInductive, RunAsRecorded
    <3>2. \A s \in DOMAIN status' : s = n \/ status'[s] = status[s]
      BY <2>3 DEF Rewrites
    <3> QED
      BY SMTT(40), <1>1, <1>4, <2>1, <2>3, <3>1, <3>2 DEF ReviewInductive, RunAsRecorded, Rewrites
  <2>12. MendsAreAnswered' /\ ResolvedWasAnswered'
    BY <1>1 DEF ReviewInductive, MendsAreAnswered, ResolvedWasAnswered
  <2> QED
    BY <2>4, <2>6, <2>7, <2>8, <2>9, <2>10, <2>11, <2>12 DEF ReviewInductive
<1> QED
  BY <1>2, <1>3, <1>4 DEF PollDispatches
-----------------------------------------------------------------------------
(* The handler's runs *)

(* A run that is in progress owns its status, which is no other run's
   unless its dispatch was sent twice.                                     *)
LEMMA RunOwns ==
  ASSUME ReviewInductive, handler.run.phase # "idle"
  PROVE  /\ handler.run.id \in DOMAIN status /\ handler.resent \subseteq DOMAIN status
         /\ handler.run.id \notin handler.resent
              => /\ handler.run.id # handler.queued
                 /\ poll.phase = "dispatch" => handler.run.id # Len(status)
<1>1. /\ handler.run.id \in DOMAIN status /\ handler.run.id # 0
      /\ handler.resent \subseteq DOMAIN status
  BY StatusTyped DEF ReviewInductive, RunsAreApart
<1> QED
  BY <1>1 DEF ReviewInductive, RunsAreApart

(* The run ends, and its status is marked failed or refused.               *)
LEMMA GivingUpInductive ==
  ASSUME ReviewInductive, handler.run.phase # "idle", NEW state \in {"failed", "refused"},
         status[handler.run.id].commit # Tip,
         Over, Marks(handler.run.id, state, 0), UNCHANGED <<rel, threads, poll, mends>>,
         UNCHANGED used \/ Disturbs
  PROVE  ReviewInductive'
<1> DEFINE s == handler.run.id
<1>1. ReviewTypeOK /\ s \in DOMAIN status /\ Tip' = Tip
  BY RunOwns DEF ReviewInductive, Tip
<1>2. Rewrites(s, state, status[s].head, 0)
  BY <1>1, Marking, BoundsAreNumbers DEF States
<1>3. /\ handler' \in Handlers /\ handler'.run.phase = "idle"
      /\ handler'.queued = handler.queued /\ handler'.resent = handler.resent
  BY <1>1, IdleTyped DEF Over
<1>4. ReviewTypeOK' /\ CommentsCounted'
  BY <1>1, <1>2, <1>3, Spends, Typed DEF TypesOf, ReviewInductive, CommentsCounted, Rewrites
<1>5. Tip \in Commits /\ 0 \notin Commits /\ rel.last \in Commits
  BY <1>1, RelTyped, BoundsAreNumbers DEF ReviewInductive, HeadsArePast, Commits
<1>6. HeadsArePast'
  <2>1. \A r \in DOMAIN status' : status'[r].head <= Tip /\ status'[r].commit <= rel.last
    BY <1>1, <1>2, <1>5 DEF ReviewInductive, HeadsArePast, Rewrites, Commits
  <2> QED
    BY <1>1, <2>1 DEF ReviewInductive, HeadsArePast
<1>7. RunsAreApart'
  BY <1>1, <1>2, <1>3, RunOwns DEF ReviewInductive, RunsAreApart, Rewrites
<1>8. RunAsRecorded'
  BY <1>3 DEF RunAsRecorded
<1>9. EditedOnce' /\ (Resent(Tip)' <=> Resent(Tip))
  BY <1>1, <1>2, <1>3, RunOwns, ResentKept DEF ReviewInductive, Rewrites
<1>10. TipOnRecord'
  <2>1. /\ 0 # Tip /\ DOMAIN status' = DOMAIN status /\ status'[s].commit = 0
        /\ \A r \in DOMAIN status : r # s => status'[r] = status[r]
    BY <1>2, <1>5 DEF Rewrites
  <2> QED
    BY <1>1, <1>9, <2>1 DEF ReviewInductive, TipOnRecord
<1>11. BatchesAreNew'
  <2>1. DOMAIN status' = DOMAIN status /\ \A r \in DOMAIN status : r = s \/ status'[r] = status[r]
    BY <1>2 DEF Rewrites
  <2>2. status'[s].state # "addressing"
    BY <1>2 DEF Rewrites
  <2> QED
    BY <1>1, <1>3, <1>9, <2>1, <2>2 DEF ReviewInductive, BatchesAreNew
<1>12. MendsAreAnswered' /\ ResolvedWasAnswered'
  BY DEF ReviewInductive, MendsAreAnswered, ResolvedWasAnswered
<1> QED
  BY <1>4, <1>6, <1>7, <1>8, <1>9, <1>10, <1>11, <1>12 DEF ReviewInductive

LEMMA StartInductive ==
  ASSUME ReviewInductive, HandlerStarts
  PROVE  ReviewInductive'
<1> DEFINE s == handler.queued
<1>1. /\ ReviewTypeOK /\ Tip' = Tip /\ UNCHANGED <<rel, threads, poll, mends, used>>
      /\ handler.run.phase = "idle" /\ s # 0
  BY DEF ReviewInductive, HandlerStarts, HandlerIs, Tip
<1>2. /\ s \in DOMAIN status /\ s \in 1..MaxStatus /\ handler.resent \subseteq DOMAIN status
      /\ s \notin handler.resent
           => status[s].commit = 0 /\ (poll.phase = "dispatch" => s # Len(status))
  <2>1. s \in DOMAIN status /\ handler.resent \subseteq DOMAIN status
    BY <1>1 DEF ReviewInductive, RunsAreApart
  <2>2. s \notin handler.resent
           => status[s].commit = 0 /\ (poll.phase = "dispatch" => s # Len(status))
    BY <1>1, <2>1 DEF ReviewInductive, RunsAreApart
  <2> QED
    BY <1>1, <2>1, <2>2, StatusTyped
<1>3. Tip \in Commits /\ 0 \notin Commits /\ rel.last \in Commits
  BY <1>1, RelTyped, BoundsAreNumbers DEF ReviewInductive, HeadsArePast, Commits
<1>4. handler \in Handlers
  BY <1>1, RunTyped
<1>5. MendsAreAnswered' /\ ResolvedWasAnswered'
  BY <1>1 DEF ReviewInductive, MendsAreAnswered, ResolvedWasAnswered
<1>r. status[s].commit = Tip => Resent(Tip)
  BY <1>2, <1>3 DEF ReviewInductive, TipOnRecord, Resent
<1>6. CASE Current(s)
  <2>1. /\ handler' = [handler EXCEPT !.queued = 0,
             !.run = [IdleHandler EXCEPT !.phase = "edit", !.id = s, !.batch = Selected]]
        /\ Marks(s, "addressing", 0)
    BY <1>6 DEF HandlerStarts
  <2>2. Rewrites(s, "addressing", status[s].head, 0)
    BY <1>1, <1>2, <2>1, Marking, BoundsAreNumbers DEF States
  <2>3. /\ handler' \in Handlers /\ handler'.queued = 0 /\ handler'.resent = handler.resent
        /\ handler'.run.phase = "edit" /\ handler'.run.id = s /\ handler'.run.batch = Selected
    <3>1. PICK id \in 0..MaxStatus, batch \in SUBSET Selections : id = s /\ batch = Selected
      BY <1>1, <1>2, SelectedTyped, BoundsAreNumbers
    <3> DEFINE run == [IdleHandler EXCEPT !.phase = "edit", !.id = id, !.batch = batch]
    <3>2. run \in Runs /\ run.phase = "edit" /\ run.id = id /\ run.batch = batch
      BY <1>1, IdleTyped DEF Runs, Handlers
    <3>3. handler' = [handler EXCEPT !.queued = 0, !.run = run]
      BY <2>1, <3>1
    <3> HIDE DEF run
    <3>4. handler' \in Handlers /\ handler'.queued = 0 /\ handler'.resent = handler.resent /\ handler'.run = run
      <4>1. 0 \in 0..MaxStatus /\ run \in Runs /\ handler \in Handlers
        BY <1>4, <3>2, BoundsAreNumbers
      <4> QED
        BY <3>3, <4>1 DEF Handlers
    <3> QED
      BY <3>1, <3>2, <3>4
  <2>4. ReviewTypeOK' /\ CommentsCounted'
    BY <1>1, <2>2, <2>3, Spends, Typed DEF TypesOf, ReviewInductive, CommentsCounted, Rewrites
  <2>5. HeadsArePast'
    <3>1. \A r \in DOMAIN status' : status'[r].head <= Tip /\ status'[r].commit <= rel.last
      BY <1>2, <1>3, <2>2 DEF ReviewInductive, HeadsArePast, Rewrites, Commits
    <3> QED
      BY <1>1, <3>1 DEF ReviewInductive, HeadsArePast
  <2>6. RunsAreApart'
    <3>1. /\ DOMAIN status' = DOMAIN status /\ Len(status') = Len(status)
          /\ \A r \in DOMAIN status : r # s => status'[r] = status[r]
      BY <2>2 DEF Rewrites
    <3> QED
      BY <1>1, <1>2, <2>3, <3>1 DEF ReviewInductive, RunsAreApart
  <2>7. RunAsRecorded'
    <3>1. status'[s].batch = Selected /\ status'[s].commit = 0
      BY <1>6, <2>2 DEF Current, Rewrites
    <3> QED
      BY <2>3, <3>1 DEF RunAsRecorded
  <2>p. EditedOnce' /\ (Resent(Tip)' <=> Resent(Tip))
    BY <1>1, <1>2, <2>2, <2>3, ResentKept DEF ReviewInductive, Rewrites
  <2>8. TipOnRecord'
    <3>1. /\ 0 # Tip /\ DOMAIN status' = DOMAIN status /\ status'[s].commit = 0
          /\ \A r \in DOMAIN status : r # s => status'[r] = status[r]
      BY <1>3, <2>2 DEF Rewrites
    <3> QED
      BY <1>1, <1>r, <2>p, <3>1 DEF ReviewInductive, TipOnRecord
  <2>9. BatchesAreNew'
    <3>1. SUFFICES ASSUME ~Resent(Tip)
                   PROVE  BatchesAreNew'
      BY <1>1, <2>p DEF BatchesAreNew
    <3>2. status[s].state = "addressing" /\ status[s].commit # Tip /\ status[s].batch = Selected
          /\ status[s].head = Tip
      BY <1>6, <1>r, <3>1 DEF Current
    <3>3. Said(Selected) \intersect rel.answers[Tip] = {}
      BY <1>2, <3>1, <3>2 DEF ReviewInductive, BatchesAreNew
    <3>4. \A r \in DOMAIN status' :
            status'[r].state = "addressing" /\ status'[r].head = Tip /\ status'[r].commit # Tip
              => Said(status'[r].batch) \intersect rel.answers[Tip] = {}
      BY <2>2, <3>1, <3>2, <3>3 DEF ReviewInductive, BatchesAreNew, Rewrites
    <3>5. poll.phase = "lease" /\ poll.head = Tip => Said(poll.batch) \intersect rel.answers[Tip] = {}
      BY <3>1 DEF ReviewInductive, BatchesAreNew
    <3> QED
      BY <1>1, <2>3, <3>3, <3>4, <3>5 DEF BatchesAreNew
  <2> QED
    BY <1>5, <2>4, <2>5, <2>6, <2>7, <2>p, <2>8, <2>9 DEF ReviewInductive
<1>7. CASE ~Current(s)
  <2>1. /\ handler' = [handler EXCEPT !.queued = 0]
        /\ IF status[s].state = "addressing"
           THEN Marks(s, Refusal(s), status[s].commit) ELSE UNCHANGED status
    BY <1>7 DEF HandlerStarts
  <2>2. /\ handler' \in Handlers /\ handler'.queued = 0
        /\ handler'.run = handler.run /\ handler'.resent = handler.resent
    BY <1>4, <2>1, BoundsAreNumbers DEF Handlers
  <2>3. /\ status' \in Seq(Statuses) /\ Len(status') = Len(status) /\ DOMAIN status' = DOMAIN status
        /\ \A r \in DOMAIN status : r # s => status'[r] = status[r]
        /\ status'[s].commit = status[s].commit /\ status'[s].head = status[s].head
        /\ status'[s].batch = status[s].batch
        /\ status' = status \/ status'[s].state # "addressing"
    <3>1. CASE status[s].state = "addressing"
      <4>1. PICK state \in {"failed", "refused"} : state = Refusal(s)
        BY DEF Refusal
      <4>2. PICK commit \in 0..MaxHeads : commit = status[s].commit
        BY <1>1, <1>2, StatusTyped
      <4>3. Marks(s, state, commit) /\ state \in States /\ state # "addressed"
        BY <2>1, <3>1, <4>1, <4>2 DEF States
      <4>4. Rewrites(s, state, status[s].head, commit)
        BY <1>1, <1>2, <4>3, Marking
      <4> QED
        BY <4>1, <4>2, <4>4 DEF Rewrites
    <3>2. CASE status[s].state # "addressing"
      BY <1>1, <1>2, <2>1, <3>2, StatusTyped
    <3> QED
      BY <3>1, <3>2
  <2>4. ReviewTypeOK' /\ CommentsCounted'
    BY <1>1, <2>2, <2>3, Spends, Typed DEF TypesOf, ReviewInductive, CommentsCounted
  <2>5. HeadsArePast'
    <3>1. \A r \in DOMAIN status' : status'[r].head <= Tip /\ status'[r].commit <= rel.last
      BY <1>2, <1>3, <2>3 DEF ReviewInductive, HeadsArePast, Commits
    <3> QED
      BY <1>1, <3>1 DEF ReviewInductive, HeadsArePast
  <2>6. RunsAreApart'
    <3>1. \A r \in DOMAIN status : status'[r].commit = status[r].commit
      BY <2>3
    <3> QED
      BY <1>1, <1>2, <2>2, <2>3, <3>1 DEF ReviewInductive, RunsAreApart
  <2>7. RunAsRecorded'
    BY <1>1, <2>2 DEF RunAsRecorded
  <2>p. EditedOnce' /\ (Resent(Tip)' <=> Resent(Tip))
    BY <1>1, <1>2, <2>2, <2>3, ResentKept DEF ReviewInductive
  <2>8. TipOnRecord'
    BY <1>1, <1>r, <2>p, <2>3 DEF ReviewInductive, TipOnRecord
  <2>9. BatchesAreNew'
    BY <1>1, <2>p, <2>2, <2>3 DEF ReviewInductive, BatchesAreNew
  <2> QED
    BY <1>5, <2>4, <2>5, <2>6, <2>7, <2>p, <2>8, <2>9 DEF ReviewInductive
<1> QED
  BY <1>6, <1>7

LEMMA EditInductive ==
  ASSUME ReviewInductive, HandlerEdits
  PROVE  ReviewInductive'
<1> DEFINE s == handler.run.id
           c == rel.last + 1
<1>1. /\ ReviewTypeOK /\ Tip' = Tip /\ UNCHANGED <<threads, poll, mends>> /\ rel.last < MaxHeads
      /\ handler.run.phase = "edit" /\ s \in DOMAIN status
      /\ status[s].commit = 0 /\ status[s].batch = handler.run.batch
  <2>1. /\ ReviewTypeOK /\ UNCHANGED <<threads, poll, mends>> /\ rel.last < MaxHeads
        /\ handler.run.phase = "edit"
    BY DEF ReviewInductive, HandlerEdits, HandlerIs
  <2>2. rel'.branch = rel.branch
    BY <2>1, RelTyped DEF HandlerEdits, EditRefused, Rels
  <2> QED
    BY <2>1, <2>2, RunOwns DEF ReviewInductive, RunAsRecorded, Tip
<1>2. Tip \in Commits /\ 0 \notin Commits /\ rel.last \in Commits /\ c \in Commits /\ Tip <= rel.last
  BY <1>1, RelTyped, BoundsAreNumbers DEF ReviewInductive, HeadsArePast, Commits
<1>3. CASE /\ Current(s) /\ UNCHANGED used
           /\ rel' = [rel EXCEPT !.last = @ + 1]
           /\ Marks(s, "addressing", c)
           /\ handler' = [handler EXCEPT !.run.phase = "push", !.run.commit = c]
  <2>1. Rewrites(s, "addressing", status[s].head, c)
    BY <1>1, <1>2, <1>3, Marking, BoundsAreNumbers DEF States, Commits
  <2>2. /\ rel' \in Rels /\ rel'.last = c /\ rel'.branch = rel.branch /\ rel'.answers = rel.answers
    BY <1>1, <1>2, <1>3, RelTyped DEF Rels
  <2>3. /\ handler' \in Handlers /\ handler'.queued = handler.queued /\ handler'.resent = handler.resent
        /\ handler'.run.phase = "push" /\ handler'.run.id = s /\ handler'.run.commit = c
        /\ handler'.run.batch = handler.run.batch
    <3>1. PICK n \in 0..MaxHeads : n = c
      BY <1>2, BoundsAreNumbers DEF Commits
    <3>2. handler' = [handler EXCEPT !.run.phase = "push", !.run.commit = n]
      BY <1>3, <3>1
    <3> QED
      BY <1>1, <3>1, <3>2, RunTyped DEF Runs, Handlers
  <2>4. ReviewTypeOK' /\ CommentsCounted'
    BY <1>1, <1>3, <2>1, <2>2, <2>3, Spends, Typed DEF TypesOf, ReviewInductive, CommentsCounted, Rewrites
  <2>5. HeadsArePast'
    <3>1. \A r \in DOMAIN status' : status'[r].head <= Tip /\ status'[r].commit <= c
      <4> TAKE r \in DOMAIN status'
      <4>1. status[r].head <= Tip /\ status[r].commit <= rel.last /\ status[r].commit \in 0..MaxHeads
        BY <1>1, <2>1, StatusTyped DEF ReviewInductive, HeadsArePast, Rewrites
      <4> QED
        BY <1>1, <1>2, <2>1, <4>1, BoundsAreNumbers DEF Rewrites, Commits
    <3>2. \A d \in Commits : d > c => rel.answers[d] = {}
      BY <1>2 DEF ReviewInductive, HeadsArePast, Commits
    <3>3. Tip <= c
      BY <1>2 DEF Commits
    <3> QED
      BY <1>1, <2>2, <3>1, <3>2, <3>3 DEF ReviewInductive, HeadsArePast
  <2>6. RunsAreApart'
    BY <1>1, <2>1, <2>3, RunOwns DEF ReviewInductive, RunsAreApart, Rewrites
  <2>7. RunAsRecorded'
    <3>1. rel.answers[c] = {} /\ c # Tip /\ c # 0
      BY <1>2 DEF ReviewInductive, HeadsArePast, Commits
    <3>2. status[s].head < c
      BY <1>1, <1>2, StatusTyped DEF ReviewInductive, HeadsArePast, Commits
    <3>3. \A r \in DOMAIN status' \ {s} : status'[r].commit # c
      <4> TAKE r \in DOMAIN status' \ {s}
      <4>1. status'[r] = status[r] /\ status[r].commit <= rel.last
        BY <2>1 DEF ReviewInductive, HeadsArePast, Rewrites
      <4> QED
        BY <1>2, <4>1 DEF Commits
    <3>4. c <= c
      BY <1>2 DEF Commits
    <3> QED
      BY <1>1, <2>1, <2>2, <2>3, <3>1, <3>2, <3>3, <3>4 DEF RunAsRecorded, Rewrites
  <2>p. EditedOnce' /\ (Resent(Tip)' <=> Resent(Tip))
    BY <1>1, <2>1, <2>2, <2>3, RunOwns, ResentKept DEF ReviewInductive, Rewrites
  <2>8. TipOnRecord' /\ BatchesAreNew'
    <3>1. status[s].state = "addressing" /\ c # Tip /\ status[s].commit # Tip
      BY <1>1, <1>2, <1>3 DEF Current, Commits
    <3>2. /\ DOMAIN status' = DOMAIN status /\ status'[s].commit = c /\ status'[s].head = status[s].head
          /\ status'[s].batch = status[s].batch
          /\ \A r \in DOMAIN status : r = s \/ status'[r] = status[r]
      BY <2>1 DEF Rewrites
    <3>3. TipOnRecord'
      BY <1>1, <2>2, <2>p, <3>1, <3>2 DEF ReviewInductive, TipOnRecord
    <3>4. BatchesAreNew'
      BY <1>1, <2>2, <2>3, <2>p, <3>1, <3>2 DEF ReviewInductive, BatchesAreNew
    <3> QED
      BY <3>3, <3>4
  <2>9. MendsAreAnswered' /\ ResolvedWasAnswered'
    BY <1>1, <2>2 DEF ReviewInductive, MendsAreAnswered, ResolvedWasAnswered
  <2> QED
    BY <2>4, <2>5, <2>6, <2>7, <2>p, <2>8, <2>9 DEF ReviewInductive
<1>4. ASSUME NEW state \in {"failed", "refused"}, Over, Marks(s, state, 0), UNCHANGED rel,
             UNCHANGED used \/ Disturbs
      PROVE  ReviewInductive'
  BY <1>1, <1>2, <1>4, GivingUpInductive
<1> QED
  BY <1>3, <1>4 DEF HandlerEdits, EditRefused

LEMMA PushInductive ==
  ASSUME ReviewInductive, HandlerPushes
  PROVE  ReviewInductive'
<1> DEFINE s == handler.run.id
           c == handler.run.commit
<1>1. /\ ReviewTypeOK /\ UNCHANGED <<status, poll, mends>> /\ handler.run.phase = "push"
      /\ s \in DOMAIN status
  BY RunOwns DEF ReviewInductive, HandlerPushes, HandlerIs
<1>2. /\ status[s].batch = handler.run.batch /\ c \in Commits
      /\ s \in handler.resent \/ (status[s].commit = c /\ status[s].state = "addressing")
      /\ status[s].commit = c \/ (status[s].commit = 0 /\ s \in handler.resent)
      /\ rel.answers[c] = {} /\ c # Tip /\ c <= rel.last /\ status[s].head < c
      /\ \A r \in DOMAIN status \ {s} : status[r].commit # c
  <2>1. /\ status[s].batch = handler.run.batch /\ c # 0
        /\ s \in handler.resent \/ (status[s].commit = c /\ status[s].state = "addressing")
        /\ status[s].commit = c \/ (status[s].commit = 0 /\ s \in handler.resent)
        /\ rel.answers[c] = {} /\ c # Tip /\ c <= rel.last /\ status[s].head < c
        /\ \A r \in DOMAIN status \ {s} : status[r].commit # c
    BY <1>1 DEF ReviewInductive, RunAsRecorded
  <2> QED
    BY <1>1, <2>1, RunTyped, BoundsAreNumbers DEF Commits
<1>3. Tip \in Commits /\ 0 \notin Commits /\ rel.last \in Commits /\ Tip <= rel.last /\ c <= rel.last
  BY <1>1, <1>2, RelTyped, BoundsAreNumbers DEF ReviewInductive, HeadsArePast, Commits
<1>4. ASSUME NEW phase \in {"report", "lost"}, Goes(phase)
      PROVE  /\ handler' \in Handlers /\ handler'.queued = handler.queued /\ handler'.resent = handler.resent
             /\ handler'.run.phase = phase /\ handler'.run.id = s /\ handler'.run.commit = c
             /\ handler'.run.batch = handler.run.batch
  BY <1>1, <1>4, RunTyped DEF Goes, Runs, Handlers
<1>5. CASE status[s].head = Tip
  <2>1. /\ rel' = [rel EXCEPT !.branch = Append(@, c), !.answers[c] = Said(handler.run.batch)]
        /\ \E gone : threads' = Outdated(gone)
        /\ (Goes("report") /\ UNCHANGED used) \/ (Goes("lost") /\ Disturbs)
    BY <1>5 DEF HandlerPushes
  <2>2. /\ rel' \in Rels /\ rel'.branch = Append(rel.branch, c) /\ rel'.last = rel.last
        /\ rel'.answers = [rel.answers EXCEPT ![c] = Said(handler.run.batch)]
    <3>1. Said(handler.run.batch) \in SUBSET Comments
      BY <1>1, RunTyped, SaidTyped
    <3>2. Append(rel.branch, c) \in Seq(Commits)
      BY <1>1, <1>2, RelTyped
    <3>3. [rel.answers EXCEPT ![c] = Said(handler.run.batch)] \in [Commits -> SUBSET Comments]
      BY <1>1, <3>1, RelTyped
    <3> QED
      BY <1>1, <2>1, <3>2, <3>3, RelTyped DEF Rels
  <2>3. /\ Tip' = c /\ rel'.answers[c] = Said(handler.run.batch)
        /\ \A d \in Commits : d # c => rel'.answers[d] = rel.answers[d]
        /\ Len(rel'.branch) = Len(rel.branch) + 1 /\ rel'.branch # <<>>
        /\ rel'.branch[Len(rel.branch) + 1] = c /\ DOMAIN rel'.branch = 1..(Len(rel.branch) + 1)
        /\ \A i \in 1..Len(rel.branch) : /\ rel'.branch[i] = rel.branch[i] /\ rel.branch[i] \in Commits
                                        /\ rel.branch[i] <= Tip /\ rel.branch[i] < c
    <3>1. /\ rel'.answers[c] = Said(handler.run.batch)
          /\ \A d \in Commits : d # c => rel'.answers[d] = rel.answers[d]
      BY <1>1, <1>2, <2>2, RelTyped
    <3>2. /\ Len(rel'.branch) = Len(rel.branch) + 1 /\ rel'.branch # <<>>
          /\ rel'.branch[Len(rel.branch) + 1] = c /\ DOMAIN rel'.branch = 1..(Len(rel.branch) + 1)
          /\ \A i \in 1..Len(rel.branch) : rel'.branch[i] = rel.branch[i] /\ rel.branch[i] \in Commits
      BY <1>1, <1>2, <2>2, RelTyped
    <3>3. Tip' = c
      BY <3>2 DEF Tip, Last
    <3>4. \A i \in 1..Len(rel.branch) : rel.branch[i] <= Tip /\ rel.branch[i] < c
      <4> TAKE i \in 1..Len(rel.branch)
      <4>1. rel.branch[i] <= Tip /\ rel.branch[i] \in Commits /\ Tip < c
        BY <1>1, <1>2, <1>5, <3>2, RelTyped DEF ReviewInductive, HeadsArePast
      <4> QED
        BY <1>2, <1>3, <4>1 DEF Commits
    <3> QED
      BY <3>1, <3>2, <3>3, <3>4
  <2>4. /\ threads' \in [Threads -> ThreadStates]
        /\ \A t \in Threads : /\ threads'[t].said = threads[t].said
                              /\ threads'[t].resolved = threads[t].resolved
                              /\ threads'[t].crossed = threads[t].crossed
    BY <1>1, <2>1, Outdating
  <2>5. /\ handler' \in Handlers /\ handler'.queued = handler.queued /\ handler'.resent = handler.resent
        /\ handler'.run.phase \in {"report", "lost"} /\ handler'.run.id = s
        /\ handler'.run.commit = c /\ handler'.run.batch = handler.run.batch
        /\ (UNCHANGED used \/ Disturbs)
    BY <1>4, <2>1
  <2>6. ReviewTypeOK' /\ CommentsCounted'
    BY <1>1, <2>2, <2>4, <2>5, Spends, Typed DEF TypesOf, ReviewInductive, CommentsCounted
  <2>7. \A r \in DOMAIN status : status[r].head < c /\ status[r].commit <= rel.last
    <3> TAKE r \in DOMAIN status
    <3>1. status[r].head <= Tip /\ status[r].head \in Commits /\ status[r].commit <= rel.last
      BY <1>1, StatusTyped DEF ReviewInductive, HeadsArePast
    <3> QED
      BY <1>2, <1>3, <1>5, <3>1 DEF Commits
  <2>8. poll.phase = "lease" => poll.head \in 1..Tip /\ poll.head < c
    BY <1>1, <1>2, <1>3, <1>5, RunTyped DEF ReviewInductive, HeadsArePast, Commits
  <2>9. HeadsArePast'
    <3>1. \A r \in DOMAIN status : status[r].head <= c /\ status[r].commit <= rel.last
      BY <1>1, <1>2, <2>7, StatusTyped DEF Commits
    <3>2. poll.phase = "lease" => poll.head \in 1..c
      BY <1>2, <1>3, <2>8 DEF Commits
    <3>3. \A d \in Commits : d > rel.last => rel'.answers[d] = {}
      BY <1>2, <1>3, <2>3 DEF ReviewInductive, HeadsArePast, Commits
    <3>4. \A i \in DOMAIN rel'.branch : rel'.branch[i] <= c
      <4> TAKE i \in DOMAIN rel'.branch
      <4>1. CASE i = Len(rel.branch) + 1
        BY <1>2, <2>3, <4>1 DEF Commits
      <4>2. CASE i # Len(rel.branch) + 1
        <5>1. i \in 1..Len(rel.branch)
          BY <1>1, <2>3, <4>2, RelTyped
        <5> QED
          BY <1>2, <2>3, <5>1 DEF Commits
      <4> QED
        BY <4>1, <4>2
    <3> QED
      BY <1>1, <1>3, <2>2, <2>3, <3>1, <3>2, <3>3, <3>4 DEF HeadsArePast
  <2>10. RunsAreApart'
    BY <1>1, <2>5 DEF ReviewInductive, RunsAreApart
  <2>11. RunAsRecorded'
    <3>1. c <= c /\ c # 0
      BY <1>2 DEF Commits
    <3> QED
      BY <1>1, <1>2, <2>2, <2>3, <2>5, <3>1 DEF RunAsRecorded
  <2>12. TipOnRecord'
    <3>1. s \in handler.resent => Resent(Tip)'
      BY <1>1, <1>2, <2>3, <2>5 DEF Resent
    <3>2. \A r \in DOMAIN status : status[r].commit = c => r = s
      BY <1>2
    <3> QED
      BY <1>1, <1>2, <2>3, <3>1, <3>2 DEF TipOnRecord
  <2>13. BatchesAreNew'
    <3>1. \A r \in DOMAIN status : status[r].head # c
      BY <1>1, <1>2, <2>7, StatusTyped DEF Commits
    <3>2. poll.phase = "lease" => poll.head # c
      BY <1>2, <1>3, <2>8 DEF Commits
    <3> QED
      BY <1>1, <2>3, <2>5, <3>1, <3>2 DEF BatchesAreNew
  <2>14. EditedOnce'
    <3>1. SUFFICES ASSUME NEW i \in 1..(Len(rel'.branch) - 1),
                          ~\E r \in handler.resent : rel'.answers[rel'.branch[i]] = Said(status[r].batch)
                   PROVE  rel'.answers[rel'.branch[i]] \intersect rel'.answers[rel'.branch[i + 1]] = {}
      BY <1>1, <2>5 DEF EditedOnce, Resent
    <3>2. i \in 1..Len(rel.branch)
      BY <1>1, <2>3, RelTyped
    <3>3. rel'.branch[i] = rel.branch[i] /\ rel'.answers[rel.branch[i]] = rel.answers[rel.branch[i]]
      BY SMTT(40), <1>2, <2>3, <3>2 DEF Commits
    <3>4. CASE i = Len(rel.branch)
      <4>1. rel.branch[i] = Tip
        BY <1>1, <3>4 DEF Tip, Last
      <4>2. Said(handler.run.batch) \intersect rel.answers[Tip] = {}
        <5>1. ~Resent(Tip)
          BY <3>1, <3>3, <4>1 DEF Resent
        <5> QED
          BY <1>1, <1>5, <5>1 DEF ReviewInductive, BatchesAreNew
      <4> QED
        BY <2>3, <3>3, <3>4, <4>1, <4>2
    <3>5. CASE i # Len(rel.branch)
      <4>1. i \in 1..(Len(rel.branch) - 1) /\ i + 1 \in 1..Len(rel.branch)
        BY <1>1, <3>2, <3>5, RelTyped
      <4>2. rel'.branch[i + 1] = rel.branch[i + 1] /\ rel'.answers[rel.branch[i + 1]] = rel.answers[rel.branch[i + 1]]
        <5>1. /\ rel'.branch[i + 1] = rel.branch[i + 1] /\ rel.branch[i + 1] \in Commits
              /\ rel.branch[i + 1] < c
          BY <2>3, <4>1
        <5>2. rel.branch[i + 1] # c
          BY <1>2, <5>1 DEF Commits
        <5> QED
          BY <2>3, <5>1, <5>2
      <4>3. ~Resent(rel.branch[i])
        BY <3>1, <3>3 DEF Resent
      <4> QED
        BY <3>3, <4>1, <4>2, <4>3 DEF ReviewInductive, EditedOnce
    <3> QED
      BY <3>4, <3>5
  <2>15. MendsAreAnswered' /\ ResolvedWasAnswered'
    <3>1. \A d \in Commits : rel.answers[d] \subseteq rel'.answers[d]
      BY <1>2, <2>3
    <3> QED
      BY <1>1, <2>4, <3>1, AnswersGrow DEF ReviewInductive
  <2> QED
    BY <2>6, <2>9, <2>10, <2>11, <2>12, <2>13, <2>14, <2>15 DEF ReviewInductive
<1>6. CASE status[s].head # Tip
  <2>1. Goes("lost") /\ UNCHANGED <<rel, threads, used>>
    BY <1>6 DEF HandlerPushes
  <2>2. /\ handler' \in Handlers /\ handler'.queued = handler.queued /\ handler'.resent = handler.resent
        /\ handler'.run.phase = "lost" /\ handler'.run.id = s
        /\ handler'.run.commit = c /\ handler'.run.batch = handler.run.batch
    BY <1>4, <2>1
  <2>3. Tip' = Tip
    BY <2>1 DEF Tip
  <2>4. ReviewTypeOK' /\ CommentsCounted'
    BY <1>1, <2>1, <2>2, Spends, Typed DEF TypesOf, ReviewInductive, CommentsCounted
  <2>5. HeadsArePast' /\ RunsAreApart' /\ EditedOnce' /\ (Resent(Tip)' <=> Resent(Tip))
    BY <1>1, <2>1, <2>2, <2>3 DEF ReviewInductive, HeadsArePast, RunsAreApart, EditedOnce, Resent
  <2>6. RunAsRecorded'
    BY <1>1, <1>2, <1>3, <2>1, <2>2, <2>3 DEF RunAsRecorded
  <2>7. TipOnRecord' /\ BatchesAreNew' /\ MendsAreAnswered' /\ ResolvedWasAnswered'
    BY <1>1, <2>1, <2>2, <2>3, <2>5 DEF ReviewInductive, TipOnRecord, BatchesAreNew, MendsAreAnswered, ResolvedWasAnswered
  <2> QED
    BY <2>4, <2>5, <2>6, <2>7 DEF ReviewInductive
<1> QED
  BY <1>5, <1>6

(* The status is marked addressed with the run's commit, which is the tip
   or was.                                                                 *)
LEMMA AddressedKeeps ==
  ASSUME ReviewInductive, handler.run.phase \in {"lost", "report"}, handler.run.commit <= Tip,
         Marks(handler.run.id, "addressed", handler.run.commit), UNCHANGED <<rel, poll>>,
         handler'.queued = handler.queued, handler'.resent = handler.resent,
         \/ handler'.run.phase = "idle"
         \/ /\ handler'.run.id = handler.run.id /\ handler'.run.phase = "mend"
            /\ rel.answers[handler'.run.commit] = Said(handler'.run.batch)
  PROVE  /\ status' \in Seq(Statuses) /\ Len(status') = Len(status)
         /\ HeadsArePast' /\ RunsAreApart' /\ RunAsRecorded' /\ TipOnRecord' /\ BatchesAreNew' /\ EditedOnce'
<1> DEFINE s == handler.run.id
           c == handler.run.commit
<1>1. /\ ReviewTypeOK /\ Tip' = Tip /\ s \in DOMAIN status
      /\ status[s].commit \in {0, c} /\ c \in Commits /\ c # 0 /\ c <= rel.last
      /\ c = Tip => rel.answers[Tip] = Said(status[s].batch)
  <2>1. /\ ReviewTypeOK /\ Tip' = Tip /\ s \in DOMAIN status
        /\ status[s].commit \in {0, c} /\ c # 0 /\ c <= rel.last
        /\ c = Tip => rel.answers[Tip] = Said(status[s].batch)
    BY RunOwns DEF ReviewInductive, RunAsRecorded, Tip
  <2> QED
    BY <2>1, RunTyped, BoundsAreNumbers DEF Commits
<1>2. Rewrites(s, "addressed", c, c)
  BY <1>1, Marking, RunTyped DEF States
<1>3. HeadsArePast'
  <2>1. \A r \in DOMAIN status' : status'[r].head <= Tip /\ status'[r].commit <= rel.last
    <3> TAKE r \in DOMAIN status'
    <3>1. status[r].head <= Tip /\ status[r].commit <= rel.last
      BY <1>2 DEF ReviewInductive, HeadsArePast, Rewrites
    <3>2. r = s => status'[r].head = c /\ status'[r].commit = c
      BY <1>1, <1>2 DEF Rewrites
    <3>3. r # s => status'[r] = status[r]
      BY <1>2 DEF Rewrites
    <3> QED
      BY <1>1, <3>1, <3>2, <3>3
  <2> QED
    BY <1>1, <2>1 DEF ReviewInductive, HeadsArePast
<1>4. RunsAreApart'
  BY <1>1, <1>2, RunOwns DEF ReviewInductive, RunsAreApart, Rewrites
<1>5. RunAsRecorded'
  BY DEF RunAsRecorded
<1>6. EditedOnce' /\ (Resent(Tip)' <=> Resent(Tip))
  BY <1>1, <1>2, RunOwns, ResentKept DEF ReviewInductive, Rewrites
<1>7. TipOnRecord' /\ BatchesAreNew'
  <2>1. /\ DOMAIN status' = DOMAIN status /\ status'[s].commit = c /\ status'[s].state = "addressed"
        /\ status'[s].batch = status[s].batch
        /\ \A r \in DOMAIN status : r = s \/ status'[r] = status[r]
    BY <1>2 DEF Rewrites
  <2>2. Tip # 0
    BY <1>1, RelTyped, BoundsAreNumbers DEF ReviewInductive, HeadsArePast, Commits
  <2>3. TipOnRecord'
    BY <1>1, <1>6, <2>1, <2>2 DEF ReviewInductive, TipOnRecord
  <2>4. BatchesAreNew'
    BY <1>1, <1>6, <2>1 DEF ReviewInductive, BatchesAreNew
  <2> QED
    BY <2>3, <2>4
<1> QED
  BY <1>2, <1>3, <1>4, <1>5, <1>6, <1>7 DEF Rewrites

LEMMA FailInductive ==
  ASSUME ReviewInductive, HandlerFails
  PROVE  ReviewInductive'
<1>1. /\ ReviewTypeOK /\ handler.run.phase = "lost" /\ Over /\ UNCHANGED <<rel, threads, poll, mends>>
      /\ status[handler.run.id].commit \in {0, handler.run.commit} /\ handler.run.id \in DOMAIN status
  BY RunOwns DEF ReviewInductive, HandlerFails, HandlerIs, RunAsRecorded
<1>2. /\ handler' \in Handlers /\ handler'.run.phase = "idle"
      /\ handler'.queued = handler.queued /\ handler'.resent = handler.resent
  BY <1>1, IdleTyped DEF Over
<1>3. MendsAreAnswered' /\ ResolvedWasAnswered'
  BY <1>1 DEF ReviewInductive, MendsAreAnswered, ResolvedWasAnswered
<1>4. CASE /\ Tip = handler.run.commit /\ UNCHANGED used
           /\ Marks(handler.run.id, "addressed", handler.run.commit)
  <2>1. handler.run.commit <= Tip
    BY <1>1, <1>4, RunTyped
  <2>2. /\ status' \in Seq(Statuses) /\ Len(status') = Len(status)
        /\ HeadsArePast' /\ RunsAreApart' /\ RunAsRecorded' /\ TipOnRecord' /\ BatchesAreNew' /\ EditedOnce'
    BY <1>1, <1>2, <1>4, <2>1, AddressedKeeps
  <2>3. ReviewTypeOK' /\ CommentsCounted'
    BY <1>1, <1>2, <1>4, <2>2, Spends, Typed DEF TypesOf, ReviewInductive, CommentsCounted
  <2> QED
    BY <1>3, <2>2, <2>3 DEF ReviewInductive
<1>5. CASE Tip # handler.run.commit /\ Marks(handler.run.id, "failed", 0) /\ UNCHANGED used
  <2>1. Tip # 0
    BY <1>1, RelTyped, BoundsAreNumbers DEF ReviewInductive, HeadsArePast, Commits
  <2>2. status[handler.run.id].commit # Tip
    BY <1>1, <1>5, <2>1
  <2> QED
    BY <1>1, <1>5, <2>2, GivingUpInductive
<1>6. CASE Disturbs /\ UNCHANGED status
  <2>1. Ended("handler") /\ "handler" \in Menders
    BY <1>1 DEF Ended, Over, Menders
  <2>2. ReviewTypeOK' /\ CommentsCounted'
    BY <1>1, <1>2, <1>6, Spends, Typed DEF TypesOf, ReviewInductive, CommentsCounted
  <2> QED
    BY <1>1, <1>3, <1>6, <2>1, <2>2, EndKeeps DEF ReviewInductive
<1> QED
  BY <1>4, <1>5, <1>6 DEF HandlerFails

LEMMA ReportInductive ==
  ASSUME ReviewInductive, HandlerReports
  PROVE  ReviewInductive'
<1>1. /\ ReviewTypeOK /\ handler.run.phase = "report" /\ UNCHANGED <<rel, threads, poll>>
      /\ handler.run.commit # 0 /\ handler.run.commit <= Tip
      /\ rel.answers[handler.run.commit] = Said(handler.run.batch)
  BY DEF ReviewInductive, HandlerReports, HandlerIs, RunAsRecorded
<1>2. handler.run.commit \in Commits /\ handler.run.batch \in SUBSET Selections
  BY <1>1, RunTyped, BoundsAreNumbers DEF Commits
<1>3. CASE /\ Marks(handler.run.id, "addressed", handler.run.commit) /\ Goes("mend")
           /\ mends' = [mends EXCEPT !["handler"] = Mending(handler.run.commit, handler.run.batch)]
           /\ UNCHANGED used
  <2>1. /\ handler' \in Handlers /\ handler'.queued = handler.queued /\ handler'.resent = handler.resent
        /\ handler'.run.phase = "mend" /\ handler'.run.id = handler.run.id
        /\ handler'.run.commit = handler.run.commit /\ handler'.run.batch = handler.run.batch
    BY <1>1, <1>3, RunTyped DEF Goes, Runs, Handlers
  <2>2. /\ status' \in Seq(Statuses) /\ Len(status') = Len(status)
        /\ HeadsArePast' /\ RunsAreApart' /\ RunAsRecorded' /\ TipOnRecord' /\ BatchesAreNew' /\ EditedOnce'
    BY <1>1, <1>3, <2>1, AddressedKeeps
  <2>3. mends' \in [Menders -> Mends] /\ MendsAreAnswered' /\ ResolvedWasAnswered'
    BY <1>1, <1>2, <1>3, MendingStarts DEF Menders
  <2>4. ReviewTypeOK' /\ CommentsCounted'
    BY <1>1, <1>3, <2>1, <2>2, <2>3, Spends, Typed DEF TypesOf, ReviewInductive, CommentsCounted
  <2> QED
    BY <2>2, <2>3, <2>4 DEF ReviewInductive
<1>4. CASE Disturbs /\ Over /\ UNCHANGED <<status, mends>>
  <2>1. Ended("handler") /\ "handler" \in Menders
    BY <1>1, <1>4 DEF Ended, Over, Menders
  <2>2. MendsAreAnswered' /\ ResolvedWasAnswered'
    BY <1>1, <1>4 DEF ReviewInductive, MendsAreAnswered, ResolvedWasAnswered
  <2>3. ReviewTypeOK' /\ CommentsCounted'
    BY <1>1, <1>4, <2>1, EndKeeps, Spends, Typed DEF TypesOf, ReviewInductive, CommentsCounted
  <2> QED
    BY <1>1, <1>4, <2>1, <2>2, <2>3, EndKeeps DEF ReviewInductive
<1> QED
  BY <1>3, <1>4 DEF HandlerReports

LEMMA DeathInductive ==
  ASSUME ReviewInductive, HandlerDies
  PROVE  ReviewInductive'
<1>1. /\ ReviewTypeOK /\ Disturbs /\ Over /\ UNCHANGED <<rel, threads, status, poll>>
      /\ mends' = [mends EXCEPT !["handler"] = NoMend]
  BY DEF ReviewInductive, HandlerDies
<1>2. Ended("handler") /\ "handler" \in Menders
  BY <1>1 DEF Ended, Over, Menders
<1>3. /\ mends' \in [Menders -> Mends] /\ mends'["handler"].phase = "idle"
      /\ \A v \in Menders : v # "handler" => mends'[v] = mends[v]
  BY <1>1, <1>2, MendTyped, IdleTyped
<1>4. MendsAreAnswered' /\ ResolvedWasAnswered'
  BY <1>1, <1>3 DEF ReviewInductive, MendsAreAnswered, ResolvedWasAnswered
<1>5. ReviewTypeOK' /\ CommentsCounted'
  BY <1>1, <1>2, <1>3, EndKeeps, Spends, Typed DEF TypesOf, ReviewInductive, CommentsCounted
<1> QED
  BY <1>1, <1>2, <1>4, <1>5, EndKeeps DEF ReviewInductive
-----------------------------------------------------------------------------
(* The theorems *)

LEMMA StartsInductive == ReviewInit => ReviewInductive
<1> SUFFICES ASSUME ReviewInit PROVE ReviewInductive
  OBVIOUS
<1>1. rel.branch = <<1>> /\ rel.last = 1 /\ 1 \in Commits /\ \A c \in Commits : rel.answers[c] = {}
  BY BoundsAreNumbers DEF ReviewInit, Commits
<1>2. rel \in Rels
  BY <1>1 DEF ReviewInit, Rels
<1>3. threads \in [Threads -> ThreadStates]
  BY BoundsAreNumbers DEF ReviewInit, ThreadStates
<1>4. status \in Seq(Statuses) /\ Len(status) = 0 /\ DOMAIN status = {} /\ Len(status) <= MaxStatus
  BY BoundsAreNumbers DEF ReviewInit
<1>5. poll \in Polls /\ handler \in Handlers /\ mends \in [Menders -> Mends]
  BY BoundsAreNumbers DEF ReviewInit, IdlePoll, IdleHandler, NoMend, Polls, Runs, Mends, Handlers
<1>6. used \in Uses
  BY BoundsAreNumbers DEF ReviewInit, Uses
<1>7. ReviewTypeOK
  BY <1>2, <1>3, <1>4, <1>5, <1>6, Typed DEF TypesOf
<1>8. Tip = 1 /\ rel.branch # <<>> /\ DOMAIN rel.branch = {1} /\ Len(rel.branch) = 1
  BY <1>1 DEF Tip, Last
<1>9. HeadsArePast /\ CommentsCounted
  BY <1>1, <1>4, <1>8 DEF ReviewInit, HeadsArePast, CommentsCounted, IdlePoll
<1>10. RunsAreApart /\ RunAsRecorded
  BY <1>4 DEF ReviewInit, RunsAreApart, RunAsRecorded, IdlePoll, IdleHandler
<1>11. TipOnRecord /\ BatchesAreNew /\ EditedOnce
  BY <1>1, <1>4, <1>8 DEF ReviewInit, TipOnRecord, BatchesAreNew, EditedOnce, IdlePoll, Resent
<1>12. MendsAreAnswered /\ ResolvedWasAnswered
  BY DEF ReviewInit, MendsAreAnswered, ResolvedWasAnswered, NoMend
<1> QED
  BY <1>7, <1>9, <1>10, <1>11, <1>12 DEF ReviewInductive

LEMMA StepsInductive ==
  ASSUME ReviewInductive, [ReviewNext]_reviewVars
  PROVE  ReviewInductive'
<1>1. CASE \E t \in Threads : Comment(t)
  BY <1>1, CommentInductive
<1>2. CASE BranchMoves
  BY <1>2, MovesInductive
<1>3. CASE Closes
  BY <1>3, ClosingInductive
<1>4. CASE \E s \in DOMAIN status : LeaseEnds(s)
  BY <1>4, LeaseEndInductive
<1>5. ASSUME NEW w \in Menders, Mend(w)
      PROVE  ReviewInductive'
  BY <1>5, ReplyInductive, ReloadInductive, ResolveInductive DEF Mend
<1>6. CASE PollSteps
  BY <1>5, <1>6, ReadingInductive, LeasingInductive, DispatchInductive, RecoveryInductive DEF PollSteps, Menders
<1>7. CASE HandlerSteps
  BY <1>5, <1>7, StartInductive, EditInductive, PushInductive, FailInductive, ReportInductive
  DEF HandlerSteps, Menders
<1>8. CASE HandlerDies
  BY <1>8, DeathInductive
<1>9. CASE UNCHANGED reviewVars
  <2>1. BatchesRest /\ UNCHANGED <<rel, threads, mends, used>>
    BY <1>9 DEF reviewVars, BatchesRest
  <2>2. ReviewTypeOK' /\ CommentsCounted'
    BY <2>1, Typed DEF TypesOf, BatchesRest, ReviewInductive, CommentsCounted
  <2>3. MendsAreAnswered' /\ ResolvedWasAnswered'
    BY <2>1 DEF ReviewInductive, MendsAreAnswered, ResolvedWasAnswered
  <2> QED
    BY <2>1, <2>2, <2>3, RestKeeps DEF ReviewInductive
<1> QED
  BY <1>1, <1>2, <1>3, <1>4, <1>6, <1>7, <1>8, <1>9 DEF ReviewNext

(* What a batch's status comment, its run, the tip and the threads say of
   each other holds in every state, whatever people do and whatever run
   dies (review_poll.py, review_handler.py).                               *)
THEOREM ReviewIsInductive == ReviewSpec => []ReviewInductive
<1>1. ReviewInductive /\ [ReviewNext]_reviewVars => ReviewInductive'
  BY StepsInductive
<1> QED
  BY StartsInductive, <1>1, PTL DEF ReviewSpec

(* The bot never follows its own edit with another for the same comment,
   although polls and runs only know what the status comments say; unless
   the dispatch that led to the first one was sent twice
   (review_poll.py, retry_github_call).                                    *)
THEOREM CommentsEditedOnce == ReviewSpec => []EditedOnce
<1>1. ReviewInductive => EditedOnce
  BY DEF ReviewInductive
<1> QED
  BY ReviewIsInductive, <1>1, PTL

(* A thread that the bot resolved was answered as it was last seen: what a
   person says in between is left for the next batch.                      *)
THEOREM ResolvedThreadsAnswered == ReviewSpec => []ResolvedWasAnswered
<1>1. ReviewInductive => ResolvedWasAnswered
  BY DEF ReviewInductive
<1> QED
  BY ReviewIsInductive, <1>1, PTL
-----------------------------------------------------------------------------
(* With the cuts *)

PartsInductive ==
  NotesTypeOK /\ HeldInductive /\ NotedInductive /\ AccountInductive /\ ReviewInductive

LEMMA PartsStart == ReleaseInit => PartsInductive
BY InitTypes, InductiveInit, StartsInductive DEF ReleaseInit, PartsInductive

(* A step is one part's, and the other's stutter.                          *)
LEMMA PartsStep ==
  ASSUME PartsInductive, [ReleaseNext]_releaseVars
  PROVE  PartsInductive'
<1>1. [NotesNext]_notesVars /\ [ReviewNext]_reviewVars
  <2>1. CASE UNCHANGED releaseVars
    BY <2>1 DEF releaseVars
  <2>2. CASE ReleaseNext
    BY <2>2 DEF ReleaseNext
  <2> QED
    BY <2>1, <2>2
<1> QED
  BY <1>1, StepTypes, HeldSteps, NotedSteps, AccountSteps, StepsInductive DEF PartsInductive

(* Cuts and reviews keep their invariants, each while the other rests.     *)
THEOREM ReleaseIsInductive == ReleaseSpec => []ReleaseInductive
<1>1. PartsInductive => ReleaseInductive
  BY DEF PartsInductive, ReleaseInductive, NotesInductive, HeldInductive, NotedInductive,
         AccountInductive
<1> QED
  BY PartsStart, PartsStep, <1>1, PTL DEF ReleaseSpec

=============================================================================
