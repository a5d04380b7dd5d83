--------------------------- MODULE CIAgentsProofs ---------------------------
(***************************************************************************)
(* Proofs about the four CI agents together: each keeps its invariant      *)
(* while it runs, and while it rests.                                      *)
(***************************************************************************)
EXTENDS MCCIAgents, CIFixProofs, FailureIssuesProofs

AgentsInductive == FixInductive /\ IssueInductive /\ PRInductive /\ FailInductive

LEMMA AgentsStart == AgentsInit => AgentsInductive
<1> SUFFICES ASSUME AgentsInit PROVE AgentsInductive
  OBVIOUS
<1>1. RestingTask \in Tasks
  BY DEF RestingTask, Tasks, Bugs
<1>2. (\E task \in Tasks : FixStart(task)) /\ FixInit
  BY <1>1 DEF AgentsInit, FixInit
<1>3. IssueInit
  BY DEF AgentsInit, IssueInit
<1>4. PRInit
  BY DEF AgentsInit, PRInit
<1>5. FailInit
  BY DEF AgentsInit, FailInit
<1>6. IssueInductive
  BY <1>3, IssueInitInductive DEF IssueInit
<1>7. PRInductive
  BY <1>4, PRInitInductive DEF PRInit
<1> QED
  BY <1>2, <1>5, <1>6, <1>7, FixInitInductive, FailInitInductive DEF AgentsInductive

(* A step is one agent's, and the others' stutter.                         *)
LEMMA AgentsStep ==
  ASSUME [AgentsNext]_agentVars
  PROVE  [FixNext]_fixVars /\ [IssueNext]_issueVars /\ [PRNext]_prVars /\ [FailNext]_failVars
<1>1. CASE UNCHANGED agentVars
  BY <1>1 DEF agentVars
<1>2. CASE AgentsNext
  BY <1>2 DEF AgentsNext
<1> QED
  BY <1>1, <1>2

(* What each agent's state says holds whichever agent runs, from the states
   that the other three rest in.                                           *)
THEOREM AgentsAreInductive == AgentsSpec => []AgentsInductive
<1>1. AgentsInductive /\ [AgentsNext]_agentVars => AgentsInductive'
  BY AgentsStep, FixStepsInductive, IssueStepsInductive, PRStepsInductive, FailStepsInductive
  DEF AgentsInductive
<1> QED
  BY AgentsStart, <1>1, PTL DEF AgentsSpec

(* The agents' states keep their types: every phase, counter and list stays
   within its bounds, whichever agent runs.                                *)
THEOREM AgentsTyped == AgentsSpec => []AgentsTypeOK
<1>1. AgentsInductive => AgentsTypeOK
  BY DEF AgentsInductive, AgentsTypeOK, FixInductive, IssueInductive, PRInductive, FailInductive
<1> QED
  BY AgentsAreInductive, <1>1, PTL

=============================================================================
