----------------------------- MODULE MCAgentEngine -----------------------------
(* Small instance of the agent engine with its guard. *)
EXTENDS AgentEngine, TLC

CONSTANTS read, write, wipe

MCCalls == {read, write, wipe}
MCSigs == {<<c>> : c \in MCCalls}
MCSig == [c \in MCCalls |-> <<c>>]
MCRead == {read}
MCDeny == {wipe}
MCConfirm == {write, wipe}

MCReplies == {<<wipe>>, <<write, read, read>>}
MCRequests == {<<"agent", FALSE>>, <<"chat", TRUE>>, <<"continue", FALSE>>}

(* The instance of the race: one round, but two sessions and a third request. *)
MCRaceReplies == {<<write>>, <<wipe>>}

Symmetry == Permutations(Sessions) \cup Permutations(PermIds) \cup Permutations(Runs)
================================================================================
