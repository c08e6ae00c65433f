------------------------------ MODULE MCGoals ------------------------------
(* Three instances of the life of a Goal, checked in one run, one at a      *)
(* time: part, chosen at the start, says which of them moves.  "run" is the *)
(* whole of GoalRun over plans of three nodes; "detached" is GoalRun over   *)
(* one node with a child turn that outlives its run; "shared" is the lease  *)
(* between two processes.                                                   *)
EXTENDS MCGoalRun, GoalSharing

VARIABLE part

One == INSTANCE GoalRun WITH
  Nodes <- {"a"}, Plans <- SinglePlans, MaxCriticRounds <- 1, MaxDetached <- 1

goalVars == <<goal, disk, detached, log, trees, branch, run, review>>
allVars == <<part, goalVars, sharingVars>>

AllInit ==
  /\ part \in {"run", "detached", "shared"}
  /\ Init /\ SharingInit
  /\ part # "shared" => record = "running" /\ \A p \in Processes : Idle(p)

RunMoves == part = "run" /\ Next /\ UNCHANGED <<part, sharingVars>>
DetachedMoves == part = "detached" /\ One!Next /\ UNCHANGED <<part, sharingVars>>
SharingMoves == part = "shared" /\ SharingNext /\ UNCHANGED <<part, goalVars>>
AllNext == RunMoves \/ DetachedMoves \/ SharingMoves
AllSpec == AllInit /\ [][AllNext]_allVars

-----------------------------------------------------------------------------
(* Re-saving an older record takes the window count back; merges bound the  *)
(* detached part instead.                                                   *)
FewMergesHere == part = "detached" => FewMerges

(* States have their types; what is reported completed is; and whoever was  *)
(* dispatched had what its contract needs, in a place of his own, and not   *)
(* more often than planned, with the constants of the part that moves.      *)
WorkIsSound ==
  /\ SharingTypeOK
  /\ IF part = "detached"
       THEN One!TypeOK /\ One!CompletedIsSound /\ One!DispatchIsSound
       ELSE TypeOK /\ CompletedIsSound /\ DispatchIsSound

(* A run without detached turns implements the promise of CandidateReview;  *)
(* the other parts map to its initial state.                                *)
Here == part = "run"
ReviewHere == INSTANCE CandidateReview WITH
  plan <- IF Here THEN [n \in DOMAIN goal.nodes |-> goal.nodes[n].spec] ELSE <<>>,
  candidate <- IF Here THEN [i \in DOMAIN log |-> <<log[i].node, log[i].spec>>] ELSE <<>>,
  tested <- IF Here THEN review.verified ELSE -1,
  delivered <- Here /\ disk.status = "completed"
GoalsDeliverReviewed == ReviewHere!Spec
=============================================================================
