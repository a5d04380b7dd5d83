------------------------------- MODULE PRFix -------------------------------
(***************************************************************************)
(* Fixing the CI of one pull request (scripts/ci_fix/comment_poll.py,      *)
(* gate.py, main.py, scripts/backport/ci_followup.py, and run.py,          *)
(* publish.py, push.py for UPDATE_PR and SUGGEST targets).                 *)
(*                                                                         *)
(* Two front doors start runs: the poller, for each "fix" command that a   *)
(* maintainer comments, and an hourly follow-up, for a PR of the bot's.    *)
(* Runs of one door are serialised by its concurrency group; the doors     *)
(* share none, so a command's run, a follow-up and people race on the      *)
(* branch.  A commit is a number; a branch is the sequence of its commits. *)
(***************************************************************************)
EXTENDS Naturals, Sequences, FiniteSets, FiniteSetsExt, SequencesExt

CONSTANTS
  Commands,       \* "fix" commands, in the order they are posted
  Jobs,           \* CI jobs, the most actionable first (job_priority)
  MaxHeadTries,   \* _MAX_ATTEMPTS_PER_HEAD
  MaxJobTries,    \* MAX_FAILED_ATTEMPTS
  MaxCommits,     \* bound: commits made
  MaxRed,         \* bound: CI may fail on the first ones, this many
  MaxEvents,      \* bound: what people do
  MaxMishaps      \* bound: crashes, failed calls, lost responses, failed attempts

ASSUME PRFixSetsAssumption ==
  IsFiniteSet(Commands) /\ IsFiniteSet(Jobs) /\ Commands \union Jobs \subseteq Nat \ {0}
ASSUME PRFixBoundsAssumption ==
  /\ {MaxHeadTries, MaxJobTries, MaxCommits} \subseteq Nat \ {0}
  /\ MaxRed \in 0..(MaxCommits - 1)
  /\ {MaxEvents, MaxMishaps} \subseteq Nat

VARIABLES
  pr,        \* the pull request and its branch
  ci,        \* CI of the branch's head
  commands,  \* the commands commented
  queue,     \* the commands whose runs wait for their turn
  prRuns,    \* each door's run at work
  ledger,    \* per head and job: the follow-up's comment, and its runs without one
  used       \* how much of each bound is used

prVars == <<pr, ci, commands, queue, prRuns, ledger, used>>

Heads == 1..MaxCommits
Doors == {"command", "follow-up"}
Untested == [done |-> FALSE, failed |-> {}]
NoPRRun == [phase |-> "idle", command |-> 0, on |-> <<>>, job |-> 0, outcome |-> "none"]

PullRequests == [open : BOOLEAN, bot : BOOLEAN, branch : Seq(Heads), made : Heads]
CommandStates ==
  [state : {"none", "posted", "claimed", "dispatched", "lost"}, run : 0..MaxCommits,
   told : BOOLEAN]
(* on: the branch the task is bound to (expected_sha).                     *)
DoorRuns ==
  [phase : {"idle", "plan", "fix", "publish", "push", "report"},
   command : Commands \union {0}, on : Seq(Heads), job : Jobs \union {0},
   outcome : {"none", "patch", "failed", "refused", "suggested", "pushed"}]
Records == [comment : {"none", "refused", "pushed"}, failed : 0..MaxJobTries]

PRTypeOK ==
  /\ pr \in PullRequests
  /\ ci \in [done : BOOLEAN, failed : SUBSET Jobs]
  /\ commands \in [Commands -> CommandStates]
  /\ queue \in Seq(Commands)
  /\ prRuns \in [Doors -> DoorRuns]
  /\ ledger \in [Heads -> [Jobs -> Records]]
  /\ used \in [events : 0..MaxEvents, mishaps : 0..MaxMishaps]

PRStart(bot) ==
  /\ pr = [open |-> TRUE, bot |-> bot, branch |-> <<1>>, made |-> 1]
  /\ ci = Untested
  /\ commands = [c \in Commands |-> [state |-> "none", run |-> 0, told |-> FALSE]]
  /\ queue = <<>>
  /\ prRuns = [d \in Doors |-> NoPRRun]
  /\ ledger = [h \in Heads |-> [j \in Jobs |-> [comment |-> "none", failed |-> 0]]]
  /\ used = [events |-> 0, mishaps |-> 0]

PRInit == \E bot \in BOOLEAN : PRStart(bot)

Event == used.events < MaxEvents /\ used' = [used EXCEPT !.events = @ + 1]
Mishap == used.mishaps < MaxMishaps /\ used' = [used EXCEPT !.mishaps = @ + 1]

Tip == Last(pr.branch)
NewHead(branch) ==
  /\ pr.made < MaxCommits
  /\ pr' = [pr EXCEPT !.branch = Append(branch, pr.made + 1), !.made = @ + 1]
  /\ ci' = Untested

----------------------------------------------------------------------------
(* People, and the repository's CI.                                        *)

PersonPushes ==
  /\ Event
  /\ \E n \in {0, Len(pr.branch)} : NewHead(SubSeq(pr.branch, 1, n))
  /\ UNCHANGED <<commands, queue, prRuns, ledger>>

PersonCloses ==
  /\ Event /\ pr.open /\ pr' = [pr EXCEPT !.open = FALSE]
  /\ UNCHANGED <<ci, commands, queue, prRuns, ledger>>

(* With a link to a run of some head, or without one.                      *)
Comments(c) ==
  /\ Event
  /\ commands[c].state = "none" /\ \A d \in Commands : d < c => commands[d].state # "none"
  /\ \E run \in 0..pr.made :
       commands' = [commands EXCEPT ![c].state = "posted", ![c].run = run]
  /\ UNCHANGED <<pr, ci, queue, prRuns, ledger>>

CIEnds ==
  /\ ~ci.done
  /\ \E failed \in IF Tip <= MaxRed THEN SUBSET Jobs ELSE {{}} :
       ci' = [done |-> TRUE, failed |-> failed]
  /\ UNCHANGED <<pr, commands, queue, prRuns, ledger, used>>

CIRerun ==
  /\ Event /\ ci.done /\ ci' = Untested
  /\ UNCHANGED <<pr, commands, queue, prRuns, ledger>>

----------------------------------------------------------------------------
(* The poller.  A maintainer's command is claimed by the bot's reaction,   *)
(* which is created once: the claim is won by the call that is answered    *)
(* 201.  A claim whose response is lost is retried and finds the reaction, *)
(* so nobody has won it; and a claimed command is never looked at again.   *)

Lost(c) == commands' = [commands EXCEPT ![c].state = "lost"]

Claim(c) ==
  /\ commands[c].state = "posted"
  /\ \A d \in Commands : commands[d].state # "claimed"
  /\ \/ /\ commands' = [commands EXCEPT ![c].state = "claimed"]
        /\ UNCHANGED used
     \/ Lost(c) /\ Mishap
  /\ UNCHANGED <<pr, ci, queue, prRuns, ledger>>

(* A dispatch whose response is lost is retried; after the last retry, and
   when the poller stops, the claim stays.                                 *)
Dispatch(c) ==
  /\ commands[c].state = "claimed"
  /\ \E n \in 0..2 :
       /\ queue' = queue \o [i \in 1..n |-> c]
       /\ \/ n > 0 /\ commands' = [commands EXCEPT ![c].state = "dispatched"]
             /\ IF n = 2 THEN Mishap ELSE UNCHANGED used
          \/ n < 2 /\ Lost(c) /\ Mishap
  /\ UNCHANGED <<pr, ci, prRuns, ledger>>

----------------------------------------------------------------------------
(* Planning.                                                               *)

At(d, phase) == prRuns[d].phase = phase
Bound(job) ==
  [NoPRRun EXCEPT !.phase = "fix", !.on = pr.branch, !.job = job]
Ends(d, phase, outcome) ==
  prRuns' = [prRuns EXCEPT ![d].phase = phase, ![d].outcome = outcome]

RunStarts ==
  /\ At("command", "idle") /\ queue # <<>>
  /\ queue' = Tail(queue)
  /\ prRuns' = [prRuns EXCEPT !["command"] =
                  [NoPRRun EXCEPT !.phase = "plan", !.command = queue[1]]]
  /\ UNCHANGED <<pr, ci, commands, ledger, used>>

(* The gate: an open PR, and a completed, failed run of its present head.
   An answer that could not be found is a failed attempt.                  *)
Gate ==
  LET c == prRuns["command"].command
      run == commands[c].run IN
  /\ At("command", "plan")
  /\ \/ /\ IF pr.open /\ run \in {0, Tip} /\ ci.done /\ ci.failed # {}
           THEN prRuns' = [prRuns EXCEPT !["command"] =
                             [Bound(Min(ci.failed)) EXCEPT !.command = c]]
           ELSE Ends("command", "report", "refused")
        /\ UNCHANGED used
     \/ Ends("command", "report", "failed") /\ Mishap
  /\ UNCHANGED <<pr, ci, commands, queue, ledger>>

(* What the follow-up finds of its earlier runs on this head: comments,
   and the plans of runs that left none, which failed.                     *)
Failures(h) == {x \in Jobs \X (1..MaxJobTries) : x[2] <= ledger[h][x[1]].failed}
Pushes(h) == {j \in Jobs : ledger[h][j].comment = "pushed"}
Attempts(h) == Cardinality(Pushes(h)) + Cardinality(Failures(h))

(* Mutant: only comments retire a job.                                     *)
RetiredByComment(h) == {j \in Jobs : ledger[h][j].comment # "none"}

Retired(h) ==
  {j \in Jobs : ledger[h][j].comment # "none" \/ ledger[h][j].failed >= MaxJobTries}

FollowUp ==
  /\ At("follow-up", "idle")
  /\ pr.open /\ pr.bot /\ ci.done
  /\ Attempts(Tip) < MaxHeadTries
  /\ LET jobs == ci.failed \ Retired(Tip) IN
     jobs # {} /\ prRuns' = [prRuns EXCEPT !["follow-up"] = Bound(Min(jobs))]
  /\ UNCHANGED <<pr, ci, commands, queue, ledger, used>>

----------------------------------------------------------------------------
(* Fixing and publishing.                                                  *)

(* FixLoop: a candidate, a refusal or a failed attempt, which a fix job
   that dies is, too.                                                      *)
PrepareFix(d) ==
  /\ At(d, "fix")
  /\ \/ Ends(d, "publish", "patch") /\ UNCHANGED used
     \/ Ends(d, "report", "refused") /\ UNCHANGED used
     \/ Ends(d, "report", "failed") /\ Mishap
  /\ UNCHANGED <<pr, ci, commands, queue, ledger>>

(* The target is looked at again; only a branch of the bot's is pushed to. *)
Revalidate(d) ==
  /\ At(d, "publish")
  /\ \/ /\ IF ~pr.open \/ Tip # Last(prRuns[d].on) THEN Ends(d, "report", "refused")
           ELSE IF pr.bot THEN prRuns' = [prRuns EXCEPT ![d].phase = "push"]
           ELSE Ends(d, "report", "suggested")
        /\ UNCHANGED used
     \/ Ends(d, "report", "failed") /\ Mishap
  /\ UNCHANGED <<pr, ci, commands, queue, ledger>>

(* Mutant: the push is forced without a lease.                             *)
PushForced(d) ==
  /\ At(d, "push")
  /\ NewHead(prRuns[d].on) /\ Ends(d, "report", "pushed")
  /\ UNCHANGED <<used, commands, queue, ledger>>

(* --force-with-lease: the branch is where the task bound it, or the push
   is stale.  A push whose response is lost has failed.                    *)
Push(d) ==
  /\ At(d, "push")
  /\ \/ /\ Tip = Last(prRuns[d].on) /\ NewHead(prRuns[d].on)
        /\ \/ Ends(d, "report", "pushed") /\ UNCHANGED used
           \/ Ends(d, "report", "failed") /\ Mishap
     \/ /\ Tip # Last(prRuns[d].on)
        /\ Ends(d, "report", "refused") /\ UNCHANGED <<pr, ci, used>>
  /\ UNCHANGED <<commands, queue, ledger>>

Leaves(d) == prRuns' = [prRuns EXCEPT ![d] = NoPRRun]

(* Mutant: a failed attempt is not reacted to.                             *)
AnswerResults ==
  LET c == prRuns["command"].command IN
  /\ At("command", "report") /\ Leaves("command")
  /\ commands' = [commands EXCEPT ![c].told = @ \/ prRuns["command"].outcome # "failed"]
  /\ UNCHANGED <<pr, ci, queue, ledger, used>>

(* A command is reacted to whatever became of it, also when the comment
   fails; the reaction itself is best effort.                              *)
Answer ==
  LET c == prRuns["command"].command IN
  /\ At("command", "report") /\ Leaves("command")
  /\ \/ commands' = [commands EXCEPT ![c].told = TRUE] /\ UNCHANGED used
     \/ Lost(c) /\ Mishap
  /\ UNCHANGED <<pr, ci, queue, ledger>>

Files(outcome) ==
  LET h == Last(prRuns["follow-up"].on)  j == prRuns["follow-up"].job IN
  ledger' = IF outcome = "failed" THEN [ledger EXCEPT ![h][j].failed = @ + 1]
            ELSE [ledger EXCEPT ![h][j].comment = outcome]

(* A fix or a refusal is commented with its markers; the comment may be
   posted although the call, and the run, fails.                           *)
Mark ==
  LET outcome == prRuns["follow-up"].outcome IN
  /\ At("follow-up", "report") /\ Leaves("follow-up")
  /\ \/ Files(outcome) /\ UNCHANGED used
     \/ outcome # "failed" /\ Files("failed") /\ Mishap
  /\ UNCHANGED <<pr, ci, commands, queue>>

(* A run is cancelled or its runner dies before it has reported.           *)
RunDies(d) ==
  /\ ~At(d, "idle") /\ Mishap /\ Leaves(d)
  /\ IF d = "command" THEN Lost(prRuns[d].command) /\ UNCHANGED ledger
     ELSE Files("failed") /\ UNCHANGED commands
  /\ UNCHANGED <<pr, ci, queue>>

----------------------------------------------------------------------------
Polling == \E c \in Commands : Claim(c) \/ Dispatch(c)
PRRunning ==
  \/ RunStarts \/ Gate \/ Answer \/ Mark
  \/ \E d \in Doors : PrepareFix(d) \/ Revalidate(d) \/ Push(d)

PRNext ==
  \/ PersonPushes \/ PersonCloses \/ CIRerun \/ CIEnds
  \/ \E c \in Commands : Comments(c)
  \/ Polling \/ FollowUp \/ PRRunning
  \/ \E d \in Doors : RunDies(d)

(* The poller keeps polling, and a run goes on to its end.                 *)
PRFairness ==
  /\ WF_prVars(Polling)
  /\ WF_prVars(RunStarts \/ Gate \/ Answer)
  /\ \A d \in Doors : WF_prVars(PrepareFix(d) \/ Revalidate(d) \/ Push(d))

PRSpec == PRInit /\ [][PRNext]_prVars /\ PRFairness

----------------------------------------------------------------------------
(* Whoever else moves the branch, and whenever, a push of the bot's only
   adds a commit to what the branch is at that moment (push._push,
   publish._validate_pr_target).                                           *)
PushOnlyAdds ==
  [][(\E d \in Doors : At(d, "push") /\ ~At(d, "push")') => IsPrefix(pr.branch, pr'.branch)]_prVars

(* However its runs fail, the follow-up works on one job of one head at
   most MAX_FAILED_ATTEMPTS times, and makes at most
   _MAX_ATTEMPTS_PER_HEAD attempts on a head, refusals on record aside
   (ci_followup._handled_failures).  Its runs are found by their plans, of
   which it reads the newest twenty (run.load_prior_plans): more of them on
   one head than that are not modelled.                                    *)
OnHead(h) == ~At("follow-up", "idle") /\ Last(prRuns["follow-up"].on) = h
Underway(h, j) == OnHead(h) /\ prRuns["follow-up"].job = j
One(holds) == IF holds THEN 1 ELSE 0
TriesOf(h, j) ==
  ledger[h][j].failed + One(Underway(h, j)) + One(ledger[h][j].comment # "none")
FollowUpBounded ==
  \A h \in Heads :
    /\ \A j \in Jobs : TriesOf(h, j) <= MaxJobTries
    /\ Attempts(h) + One(OnHead(h)) <= MaxHeadTries

(* A command is reacted to, unless its claim, its dispatch, its run or the
   reaction itself was lost (comment_poll._process_comment, main._report). *)
CommandAnswered ==
  \A c \in Commands :
    commands[c].state = "posted" ~> (commands[c].told \/ commands[c].state = "lost")
=============================================================================
