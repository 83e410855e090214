---------------------------- MODULE MCAgentRuns ----------------------------
(* Model checking of AgentRuns: what a model turn may call.                *)
EXTENDS AgentRuns, TLC

FinalTurn == <<>>
MCShortTurns == {FinalTurn, <<"ask">>}
MCMixedTurns == {FinalTurn, <<"ask", "tool">>}

RaceSymmetry == Permutations(Runs) \cup Permutations(Answers)

=============================================================================
