--------------------------- MODULE ReleaseReview ---------------------------
(***************************************************************************)
(* Review comments on a release PR's notes (scripts/release_notes:         *)
(* review_poll.py, review_handler.py, review.py).                          *)
(*                                                                         *)
(* A chain of watcher runs polls one PR.  A poll reads the open review     *)
(* threads, posts a status comment that leases the batch, and dispatches a *)
(* handler run; the handler edits the notes, looks at everything again,    *)
(* writes the commit into the status comment, pushes, and replies to and   *)
(* resolves the threads.  The status comments are all the memory there is: *)
(* a later poll finishes from them what a run left undone.                 *)
(*                                                                         *)
(* People comment, push and close the PR in between; a new cut replaces    *)
(* the branch; a call may fail or lose its response, and a run may die.    *)
(***************************************************************************)
EXTENDS Naturals, Sequences, FiniteSets, SequencesExt

CONSTANTS
  Threads,      \* review threads on the notes file, in the order they are opened
  MaxComments,  \* bound: comments of people
  MaxHeads,     \* bound: commits of the PR's branch
  MaxStatus,    \* bound: status comments
  MaxDisturbances  \* bound: people's pushes and closings, new cuts, failed or
                   \* lost calls, runs that die or wait for longer than a lease

ASSUME ReviewAssumption ==
  /\ IsFiniteSet(Threads) /\ Threads \subseteq Nat
  /\ {MaxComments, MaxHeads, MaxStatus, MaxDisturbances} \subseteq Nat \ {0}

VARIABLES
  rel,       \* the PR: open, its branch, the threads each bot commit answers
  threads,   \* per thread: the latest human comment, and what became of it
  status,    \* the status comments, oldest first
  poll,      \* the running watcher's current poll
  handler,   \* the handler runs: one in progress, one behind it; and (history)
             \* the statuses whose dispatch took effect and was sent again
  mends,     \* the bookkeeping of an addressed batch, by a poll or a handler
  used       \* how much of each bound is used
reviewVars == <<rel, threads, status, poll, handler, mends, used>>

Commits == 1..MaxHeads
Menders == {"poll", "handler"}
(* A selected comment: its thread, its number in it, and the bot's replies. *)
Selections == Threads \X (1..MaxComments) \X SUBSET Commits
Said(batch) == {<<p[1], p[2]>> : p \in batch}
NoMend == [phase |-> "idle", commit |-> 0, left |-> {}]
IdlePoll == [phase |-> "idle", head |-> 0, batch |-> {}]
IdleHandler == [phase |-> "idle", id |-> 0, batch |-> {}, commit |-> 0]

ReviewTypeOK ==
  /\ rel \in [open : BOOLEAN, branch : Seq(Commits), last : Commits,
              answers : [Commits -> SUBSET (Threads \X (1..MaxComments))]]
  /\ threads \in [Threads -> [said : 0..MaxComments, resolved : BOOLEAN, outdated : BOOLEAN,
                              replied : SUBSET Commits, crossed : BOOLEAN]]
  /\ status \in Seq([state : {"addressing", "addressed", "refused", "failed"}, head : Commits,
                     batch : SUBSET Selections, commit : 0..MaxHeads, fresh : BOOLEAN])
  /\ Len(status) <= MaxStatus
  /\ poll \in [phase : {"idle", "lease", "dispatch", "mend"}, head : 0..MaxHeads,
               batch : SUBSET Selections]
  /\ handler \in [queued : 0..MaxStatus, resent : SUBSET (1..MaxStatus),
                  run : [phase : {"idle", "edit", "push", "lost", "report", "mend"},
                         id : 0..MaxStatus, batch : SUBSET Selections, commit : 0..MaxHeads]]
  /\ mends \in [Menders -> [phase : {"idle", "reply", "reload", "resolve"}, commit : 0..MaxHeads,
                            left : SUBSET (Threads \X (1..MaxComments))]]
  /\ used \in [said : 0..MaxComments, disturbed : 0..MaxDisturbances]

(* The cut has opened the PR.                                              *)
ReviewInit ==
  /\ rel = [open |-> TRUE, branch |-> <<1>>, last |-> 1, answers |-> [c \in Commits |-> {}]]
  /\ threads = [t \in Threads |-> [said |-> 0, resolved |-> FALSE, outdated |-> FALSE,
                                   replied |-> {}, crossed |-> FALSE]]
  /\ status = <<>>
  /\ poll = IdlePoll
  /\ handler = [queued |-> 0, resent |-> {}, run |-> IdleHandler]
  /\ mends = [w \in Menders |-> NoMend]
  /\ used = [said |-> 0, disturbed |-> 0]

Disturbs == used.disturbed < MaxDisturbances /\ used' = [used EXCEPT !.disturbed = @ + 1]

Tip == Last(rel.branch)
(* selected_reviews, with what review_batch_id tells batches apart by.     *)
Selected ==
  {<<t, threads[t].said, threads[t].replied>> :
     t \in {u \in Threads : threads[u].said > 0 /\ ~threads[u].resolved /\ ~threads[u].outdated}}
Outdated(gone) == [t \in Threads |-> [threads[t] EXCEPT !.outdated = @ \/ t \in gone]]
----------------------------------------------------------------------------
(* People, and time.                                                       *)

(* A comment on a resolved thread reopens it.  `crossed`: it crosses a
   resolution that is being sent.                                          *)
Comment(t) ==
  /\ rel.open /\ used.said < MaxComments
  /\ \A u \in Threads : u < t => threads[u].said > 0
  /\ used' = [used EXCEPT !.said = @ + 1]
  /\ threads' = [threads EXCEPT ![t].said = @ + 1, ![t].resolved = FALSE, ![t].outdated = FALSE,
       ![t].crossed = \E w \in Menders : mends[w].phase = "resolve"
                                           /\ \E p \in mends[w].left : p[1] = t]
  /\ UNCHANGED <<rel, status, poll, handler, mends>>

(* A person adds a commit, or a new cut replaces the branch
   (release_cut._commit_push_release_pr); lines that moved outdate their
   threads.                                                                *)
BranchMoves ==
  /\ rel.open /\ rel.last < MaxHeads /\ Disturbs
  /\ \E branch \in {rel.branch, <<>>} :
       rel' = [rel EXCEPT !.branch = Append(branch, rel.last + 1), !.last = @ + 1]
  /\ \E gone \in {{}, Threads} : threads' = Outdated(gone)
  /\ UNCHANGED <<status, poll, handler, mends>>

Closes ==
  /\ rel.open /\ Disturbs /\ rel' = [rel EXCEPT !.open = FALSE]
  /\ UNCHANGED <<threads, status, poll, handler, mends>>

(* _lease_is_active: ninety minutes after the status was last edited.  A
   handler run takes forty-five; it may have had to wait for its turn.     *)
LeaseEnds(s) ==
  /\ status[s].fresh /\ status[s].head = Tip /\ handler.run.id # s /\ ~(poll.phase = "dispatch" /\ s = Len(status))
  /\ IF handler.queued = s THEN Disturbs ELSE UNCHANGED used
  /\ status' = [status EXCEPT ![s].fresh = FALSE]
  /\ UNCHANGED <<rel, threads, poll, handler, mends>>
----------------------------------------------------------------------------
(* Replying to and resolving an addressed batch: reconcile_review_targets, *)
(* by the handler or by a later poll.                                      *)

Mending(commit, batch) == [phase |-> "reply", commit |-> commit, left |-> Said(batch)]

(* Threads that changed, and those already resolved, are left alone.       *)
Unsettled(p) == threads[p[1]].said = p[2] /\ ~threads[p[1]].resolved
OpenThreads(w) == {p \in mends[w].left : Unsettled(p)}
(* A thread whose reply fails is not resolved.                             *)
Reply(w) ==
  /\ mends[w].phase = "reply"
  /\ \E failed \in SUBSET OpenThreads(w) :
       /\ IF failed = {} THEN UNCHANGED used ELSE Disturbs
       /\ mends' = [mends EXCEPT ![w].phase = "reload", ![w].left = OpenThreads(w) \ failed]
       /\ threads' = [t \in Threads |-> IF \E p \in OpenThreads(w) \ failed : p[1] = t
            THEN [threads[t] EXCEPT !.replied = @ \union {mends[w].commit}] ELSE threads[t]]
  /\ UNCHANGED <<poll, handler>>

(* Mutant: what was loaded before the replies is resolved.                 *)
ReloadNothing(w) ==
  /\ mends[w].phase = "reload"
  /\ mends' = [mends EXCEPT ![w].phase = "resolve"]
  /\ UNCHANGED <<threads, poll, handler, used>>

(* The threads are loaded again after the replies.                         *)
Reload(w) ==
  /\ mends[w].phase = "reload"
  /\ mends' = [mends EXCEPT ![w].phase = "resolve", ![w].left = OpenThreads(w)]
  /\ UNCHANGED <<threads, poll, handler, used>>

(* Which ends the poll, or the handler run.                                *)
Resolve(w) ==
  /\ mends[w].phase = "resolve"
  /\ \E failed \in SUBSET mends[w].left :
       /\ IF failed = {} THEN UNCHANGED used ELSE Disturbs
       /\ threads' = [t \in Threads |-> IF \E p \in mends[w].left \ failed : p[1] = t
            THEN [threads[t] EXCEPT !.resolved = TRUE] ELSE threads[t]]
  /\ mends' = [mends EXCEPT ![w] = NoMend]
  /\ poll' = IF w = "poll" THEN IdlePoll ELSE poll
  /\ handler' = IF w = "handler" THEN [handler EXCEPT !.run = IdleHandler] ELSE handler

Mend(w) == (Reply(w) \/ Reload(w) \/ Resolve(w)) /\ UNCHANGED <<rel, status>>
----------------------------------------------------------------------------
(* A poll: _process_pr.  One that finds nothing to do changes nothing.     *)

(* Threads of the batch are as they were, and unresolved
   (_needs_reconciliation).                                                *)
Left(s) == \E p \in Said(status[s].batch) : Unsettled(p)

(* Mutant: what a run left at "addressing" is not looked at.               *)
ReportedOnly(s) == status[s].commit = Tip /\ status[s].state = "addressed" /\ Left(s)

(* The head is the commit that a status names; one that a run left at
   "addressing" is corrected even if its threads are settled.              *)
Unfinished(s) ==
  /\ status[s].commit = Tip
  /\ status[s].state = "addressing" \/ (status[s].state = "addressed" /\ Left(s))

PollRecovers(s) ==
  /\ rel.open /\ poll.phase = "idle" /\ Unfinished(s)
  /\ status' = [status EXCEPT ![s].state = "addressed", ![s].head = Tip, ![s].fresh = FALSE]
  /\ IF Left(s)
     THEN /\ poll' = [poll EXCEPT !.phase = "mend"]
          /\ mends' = [mends EXCEPT !["poll"] = Mending(Tip, status[s].batch)]
     ELSE UNCHANGED <<poll, mends>>
  /\ UNCHANGED <<rel, threads, handler, used>>

(* Mutant: a lease never ends.                                             *)
LeasedForever ==
  \/ Selected = {}
  \/ \E s \in DOMAIN status :
       /\ status[s].head = Tip
       /\ \/ status[s].state = "addressing"
          \/ status[s].state \in {"addressed", "refused"} /\ status[s].batch = Selected

(* Nothing to address, a lease on this head, or this very batch answered.  *)
Nothing ==
  \/ Selected = {}
  \/ \E s \in DOMAIN status :
       /\ status[s].head = Tip
       /\ \/ status[s].state = "addressing" /\ status[s].fresh
          \/ status[s].state \in {"addressed", "refused"} /\ status[s].batch = Selected

PollReads ==
  /\ rel.open /\ poll.phase = "idle" /\ ~Nothing
  /\ \A s \in DOMAIN status : ~Unfinished(s)
  /\ poll' = [poll EXCEPT !.phase = "lease", !.head = Tip, !.batch = Selected]
  /\ UNCHANGED <<rel, threads, status, handler, mends, used>>

(* status_body, and what parse_status and _decode_marker_state read back:
   the state, the head, the batch with its targets, and the commit.        *)
StatusComment(state, head, batch, commit) ==
  [state |-> state, head |-> head, batch |-> batch, commit |-> commit, fresh |-> state = "addressing"]

(* A comment that is posted, but whose response is lost, is posted again.  *)
PollLeases ==
  /\ poll.phase = "lease" /\ Len(status) < MaxStatus
  /\ status' = Append(status, StatusComment("addressing", poll.head, poll.batch, 0))
  /\ \/ poll' = [IdlePoll EXCEPT !.phase = "dispatch"] /\ UNCHANGED used
     \/ UNCHANGED poll /\ Disturbs
  /\ UNCHANGED <<rel, threads, handler, mends>>

(* A newer run of the workflow replaces the one that waits.                *)
DispatchReview(s) == handler' = [handler EXCEPT !.queued = s]
(* retry_github_call: the run is on its way, the response is lost, and the
   dispatch is sent again for the same status.                             *)
DispatchLost(s) == handler' = [handler EXCEPT !.queued = s, !.resent = @ \union {s}]
(* A dispatch that fails is marked, and so is one that took effect before. *)
PollDispatches ==
  /\ poll.phase = "dispatch"
  /\ \/ DispatchReview(Len(status)) /\ poll' = IdlePoll /\ UNCHANGED <<status, used>>
     \/ DispatchLost(Len(status)) /\ Disturbs /\ UNCHANGED <<poll, status>>
     \/ /\ Disturbs /\ poll' = IdlePoll /\ UNCHANGED handler
        /\ status' = [status EXCEPT ![Len(status)].state = "failed", ![Len(status)].fresh = FALSE,
                                    ![Len(status)].commit = 0]
  /\ UNCHANGED <<rel, threads, mends>>
----------------------------------------------------------------------------
(* A handler run: handle_review_request.                                   *)

HandlerIs(phase) == handler.run.phase = phase
Goes(phase) == handler' = [handler EXCEPT !.run.phase = phase]
Over == handler' = [handler EXCEPT !.run = IdleHandler]
(* Mutant: the head follows the commit even where none was made.           *)
MarksHead(s, state, commit) ==
  status' = [status EXCEPT ![s].state = state, ![s].commit = commit,
                           ![s].fresh = state = "addressing", ![s].head = commit]
Marks(s, state, commit) ==
  status' = [status EXCEPT ![s].state = state, ![s].commit = commit,
                           ![s].fresh = state = "addressing",
                           ![s].head = IF state = "addressed" THEN commit ELSE @]

(* load_batch: the PR, the status and the batch are what was dispatched.   *)
Current(s) ==
  /\ rel.open /\ status[s].head = Tip
  /\ status[s].state = "addressing" /\ Selected # {} /\ status[s].batch = Selected

(* What changed is tried again by a later poll; what is gone is refused.   *)
Refusal(s) == IF rel.open /\ (status[s].head # Tip \/ Selected # {}) THEN "failed" ELSE "refused"

HandlerStarts ==
  /\ HandlerIs("idle") /\ handler.queued # 0
  /\ LET s == handler.queued
     IN IF Current(s)
        THEN /\ handler' = [handler EXCEPT !.queued = 0,
                  !.run = [IdleHandler EXCEPT !.phase = "edit", !.id = s, !.batch = Selected]]
             /\ Marks(s, "addressing", 0)
        ELSE /\ handler' = [handler EXCEPT !.queued = 0]
             /\ IF status[s].state = "addressing"
                THEN Marks(s, Refusal(s), status[s].commit) ELSE UNCHANGED status
  /\ UNCHANGED <<rel, threads, poll, mends, used>>

(* validate_notes_edit: the edit must stay within the current section.     *)
EditRefused == Over /\ Marks(handler.run.id, "refused", 0)

(* run_review_edit makes the edit, refuses what it did, or fails; then
   everything is looked at again (revalidate), and the commit to be pushed
   is on record before the push.                                           *)
HandlerEdits ==
  /\ HandlerIs("edit") /\ rel.last < MaxHeads
  /\ \/ /\ Current(handler.run.id) /\ UNCHANGED used
        /\ rel' = [rel EXCEPT !.last = @ + 1]
        /\ Marks(handler.run.id, "addressing", rel.last + 1)
        /\ handler' = [handler EXCEPT !.run.phase = "push", !.run.commit = rel.last + 1]
     \/ ~Current(handler.run.id) /\ Over /\ Marks(handler.run.id, "failed", 0) /\ UNCHANGED <<rel, used>>
     \/ EditRefused /\ UNCHANGED <<rel, used>>
     \/ Over /\ Marks(handler.run.id, "failed", 0) /\ Disturbs /\ UNCHANGED rel
  /\ UNCHANGED <<threads, poll, mends>>

(* A fast-forward push, which may lose its response, of an edit that may
   outdate its threads.                                                    *)
HandlerPushes ==
  /\ HandlerIs("push")
  /\ IF status[handler.run.id].head = Tip
     THEN /\ rel' = [rel EXCEPT !.branch = Append(@, handler.run.commit),
                                !.answers[handler.run.commit] = Said(handler.run.batch)]
          /\ \E gone \in {{}, {p[1] : p \in handler.run.batch}} : threads' = Outdated(gone)
          /\ (Goes("report") /\ UNCHANGED used) \/ (Goes("lost") /\ Disturbs)
     ELSE Goes("lost") /\ UNCHANGED <<rel, threads, used>>
  /\ UNCHANGED <<status, poll, mends>>

(* _set_failure after a push that failed: was it pushed after all?  Then
   the replies are left to the next poll.                                  *)
HandlerFails ==
  /\ HandlerIs("lost") /\ Over
  /\ \/ /\ IF Tip = handler.run.commit THEN Marks(handler.run.id, "addressed", handler.run.commit)
                                       ELSE Marks(handler.run.id, "failed", 0)
        /\ UNCHANGED used
     \/ Disturbs /\ UNCHANGED status
  /\ UNCHANGED <<rel, threads, poll, mends>>

HandlerReports ==
  /\ HandlerIs("report")
  /\ \/ /\ Marks(handler.run.id, "addressed", handler.run.commit) /\ Goes("mend")
        /\ mends' = [mends EXCEPT !["handler"] = Mending(handler.run.commit, handler.run.batch)]
        /\ UNCHANGED used
     \/ Disturbs /\ Over /\ UNCHANGED <<status, mends>>
  /\ UNCHANGED <<rel, threads, poll>>

HandlerDies ==
  /\ ~HandlerIs("idle") /\ Disturbs /\ Over
  /\ mends' = [mends EXCEPT !["handler"] = NoMend]
  /\ UNCHANGED <<rel, threads, status, poll>>

HandlerSteps ==
  \/ HandlerStarts \/ HandlerEdits \/ HandlerPushes
  \/ HandlerFails \/ HandlerReports \/ Mend("handler")
PollSteps ==
  \/ PollReads \/ PollLeases \/ PollDispatches \/ Mend("poll")
  \/ \E s \in DOMAIN status : PollRecovers(s)

ReviewNext ==
  \/ \E t \in Threads : Comment(t)
  \/ BranchMoves \/ Closes \/ \E s \in DOMAIN status : LeaseEnds(s)
  \/ PollSteps \/ HandlerSteps \/ HandlerDies

(* A watcher keeps polling the open PR, a run goes on to its end, and time
   passes.  (That there is a watcher is ensure_watcher's and the restart
   workflow's part, which is not modelled.)                                *)
ReviewFairness ==
  /\ WF_reviewVars(PollSteps) /\ WF_reviewVars(HandlerSteps)
  /\ WF_reviewVars(\E s \in DOMAIN status : LeaseEnds(s))
ReviewSpec == ReviewInit /\ [][ReviewNext]_reviewVars /\ ReviewFairness

----------------------------------------------------------------------------
(* A commit that answers a status whose dispatch was sent twice.           *)
Resent(c) == \E s \in handler.resent : rel.answers[c] = Said(status[s].batch)

(* "If the push went through but the replies didn't, the next check
   finishes the replies without editing again" (docs/release-notes.md):
   the bot never follows its own edit with another for the same comment.
   It does where a dispatch was sent twice: the second run finds the head
   that the first one, since dead, pushed, and marks the status failed,
   which no poll reads (_set_failure, _process_pr).                        *)
EditedOnce ==
  \A i \in 1..(Len(rel.branch) - 1) :
    \/ Resent(rel.branch[i])
    \/ rel.answers[rel.branch[i]] \intersect rel.answers[rel.branch[i + 1]] = {}

(* "It resolves the threads that weren't changed in the meantime"
   (docs/release-notes.md): what people last said in a resolved thread was
   answered by a commit, if it was there when the threads were last loaded. *)
ResolvedWasAnswered ==
  \A t \in Threads :
    (threads[t].resolved /\ ~threads[t].crossed)
      => \E c \in Commits : <<t, threads[t].said>> \in rel.answers[c]

(* What a batch's status, its run and the branch say of each other.

   A head that a status or a poll names was the tip once; a commit is on
   record before it is pushed, under a number of its own.                  *)
HeadsArePast ==
  /\ rel.branch # <<>> /\ Tip <= rel.last
  /\ \A i \in DOMAIN rel.branch : rel.branch[i] <= Tip
  /\ \A c \in Commits : c > rel.last => rel.answers[c] = {}
  /\ \A s \in DOMAIN status : status[s].head <= Tip /\ status[s].commit <= rel.last
  /\ poll.phase = "lease" => poll.head \in 1..Tip

(* A batch has one run, unless its dispatch was sent twice: the one in
   progress is neither the one that waits nor the one that the poll is
   about to ask for.                                                       *)
RunsAreApart ==
  /\ ({handler.queued} \ {0}) \union handler.resent \subseteq DOMAIN status
  /\ poll.phase = "dispatch" => Len(status) \in DOMAIN status
  /\ handler.run.phase # "idle" => handler.run.id \in DOMAIN status
  /\ \A s \in DOMAIN status \ handler.resent :
       LET asked == poll.phase = "dispatch" /\ s = Len(status)
           waits == s = handler.queued
           runs == handler.run.phase # "idle" /\ s = handler.run.id
       IN /\ ~(asked /\ waits) /\ ~(runs /\ (asked \/ waits))
          /\ asked \/ waits => status[s].commit = 0

(* The run's batch is its status's; its commit is on record until it is
   pushed or given up, and answers nothing before.  A poll that gives up a
   dispatch that took effect forgets the record.                           *)
RunAsRecorded ==
  LET run == handler.run
      s == run.id
  IN /\ run.phase \in {"edit", "push", "lost", "report"} => status[s].batch = run.batch
     /\ run.phase = "edit" => status[s].commit = 0
     /\ run.phase \in {"push", "lost", "report"}
          => /\ run.commit # 0 /\ run.commit <= rel.last
             /\ \/ status[s].commit = run.commit
                \/ (status[s].commit = 0 /\ s \in handler.resent)
     /\ run.phase = "push" => /\ (status[s].state = "addressing" \/ s \in handler.resent)
                               /\ rel.answers[run.commit] = {} /\ run.commit # Tip
                               /\ status[s].head < run.commit
                               /\ \A r \in DOMAIN status \ {s} : status[r].commit # run.commit
     /\ run.phase = "report" => run.commit <= Tip
     /\ (run.phase = "lost" /\ run.commit = Tip) \/ run.phase \in {"report", "mend"}
          => rel.answers[run.commit] = Said(run.batch)

(* A tip that answers comments is named by a status, which is not marked
   failed unless its dispatch was sent twice; one that a status names
   answers its batch.                                                      *)
TipOnRecord ==
  /\ rel.answers[Tip] # {}
       => \/ Resent(Tip)
          \/ \E s \in DOMAIN status : status[s].commit = Tip /\ status[s].state \in {"addressing", "addressed"}
  /\ \A s \in DOMAIN status : status[s].commit = Tip => rel.answers[Tip] = Said(status[s].batch)

(* A batch that a poll or a run read, and that no commit is on record for,
   has none of the comments that the tip it was read at answers.           *)
BatchesAreNew ==
  ~Resent(Tip) =>
  /\ poll.phase = "lease" /\ poll.head = Tip => Said(poll.batch) \intersect rel.answers[Tip] = {}
  /\ handler.run.phase \in {"edit", "push"} /\ status[handler.run.id].head = Tip
       => Said(handler.run.batch) \intersect rel.answers[Tip] = {}
  /\ \A s \in DOMAIN status :
       status[s].state = "addressing" /\ status[s].head = Tip /\ status[s].commit # Tip
         => Said(status[s].batch) \intersect rel.answers[Tip] = {}

(* What is replied to and resolved was answered; between the load and the
   resolution a thread stays as it was loaded, or is crossed.              *)
MendsAreAnswered ==
  \A w \in Menders :
    /\ mends[w].phase # "idle" => mends[w].commit # 0 /\ mends[w].left \subseteq rel.answers[mends[w].commit]
    /\ mends[w].phase = "resolve"
         => \A p \in mends[w].left : threads[p[1]].said = p[2] \/ threads[p[1]].crossed

(* The bound on comments is one on each thread's.                          *)
CommentsCounted == \A t \in Threads : threads[t].said <= used.said

ReviewInductive ==
  /\ ReviewTypeOK /\ CommentsCounted /\ HeadsArePast /\ RunsAreApart /\ RunAsRecorded /\ TipOnRecord
  /\ BatchesAreNew /\ EditedOnce /\ MendsAreAnswered /\ ResolvedWasAnswered

(* While the PR is open and watched, a comment on the notes is settled: its
   thread is resolved or outdated, or its batch is refused.  Whatever run
   dies or call is lost, the lease ends and a later poll tries again.      *)
Waiting(t) == threads[t].said > 0 /\ ~threads[t].resolved /\ ~threads[t].outdated
Refused(t) ==
  \E s \in DOMAIN status :
    status[s].state = "refused" /\ <<t, threads[t].said>> \in Said(status[s].batch)
BoundReached == Len(status) = MaxStatus \/ rel.last = MaxHeads
CommentsSettled ==
  \A t \in Threads :
    Waiting(t) ~> (~Waiting(t) \/ Refused(t) \/ ~rel.open \/ BoundReached)
=============================================================================
