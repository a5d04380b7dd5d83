---------------------------- MODULE MCCIAgents ----------------------------
(***************************************************************************)
(* The four CI agents in one run.  They share no state, so their product   *)
(* would only multiply their behaviours; the run takes their sum: `part`   *)
(* says which agent runs, and the others rest where they start.            *)
(***************************************************************************)
EXTENDS FixLoop, IssueFix, PRFix, FailureIssues

VARIABLE part
agentVars == <<part, fixVars, issueVars, prVars, failVars>>

RestingTask ==
  [kind |-> "suggest", plan |-> "none", bug |-> "gone", other |-> "none", sameCause |-> FALSE]

AgentsInit ==
  \/ part = "fix" /\ FixInit /\ IssueStart("comment") /\ PRStart(TRUE) /\ FailStart(TRUE)
  \/ part = "issue" /\ IssueInit /\ FixStart(RestingTask) /\ PRStart(TRUE) /\ FailStart(TRUE)
  \/ part = "pr" /\ PRInit /\ FixStart(RestingTask) /\ IssueStart("comment") /\ FailStart(TRUE)
  \/ part = "fail" /\ FailInit /\ FixStart(RestingTask) /\ IssueStart("comment") /\ PRStart(TRUE)

AgentsNext ==
  /\ UNCHANGED part
  /\ \/ part = "fix" /\ FixNext /\ UNCHANGED <<issueVars, prVars, failVars>>
     \/ part = "issue" /\ IssueNext /\ UNCHANGED <<fixVars, prVars, failVars>>
     \/ part = "pr" /\ PRNext /\ UNCHANGED <<fixVars, issueVars, failVars>>
     \/ part = "fail" /\ FailNext /\ UNCHANGED <<fixVars, issueVars, prVars>>

(* IssueFix's and PRFix's fairness, each for its part.                      *)
AgentsFairness ==
  /\ WF_issueVars(part = "issue" /\ Dispatching)
  /\ WF_issueVars(part = "issue" /\ \E r \in DOMAIN fixRuns : RunSteps(r))
  /\ WF_prVars(part = "pr" /\ Polling)
  /\ WF_prVars(part = "pr" /\ (RunStarts \/ Gate \/ Answer))
  /\ \A d \in Doors : WF_prVars(part = "pr" /\ (PrepareFix(d) \/ Revalidate(d) \/ Push(d)))

AgentsSpec == AgentsInit /\ [][AgentsNext]_agentVars /\ AgentsFairness

(* The agents' states have their types.                                     *)
AgentsTypeOK == FixTypeOK /\ IssueTypeOK /\ PRTypeOK /\ FailTypeOK

(* IssueFix's IssueSettles, for the behaviours of its agent: an issue that
   is left free is answered, or given up after enough failures.             *)
IssueAnswered == part = "issue" => IssueSettles
=============================================================================
