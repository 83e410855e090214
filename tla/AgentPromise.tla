---------------------------- MODULE AgentPromise ----------------------------
(***************************************************************************)
(* What the agent promises the user of a conversation: runs take turns,    *)
(* each ends for good with a reply or without one, and a reply is hidden   *)
(* only by a run that begins after it.  No task, step, message row or      *)
(* request is in sight.  AgentRuns implements it (AgentRuns!TurnsKept).    *)
(***************************************************************************)

CONSTANT Runs

VARIABLE life  \* "none", "active", "ended" (without a reply), "shown" or
               \* "hidden" (with one)

Init == life = [r \in Runs |-> "none"]

Idle == \A r \in Runs : life[r] # "active"

\* A new turn; H are the replies it discards to fork the conversation.
Begin(r, H) ==
    /\ Idle /\ life[r] = "none"
    /\ \A s \in H : life[s] = "shown"
    /\ life' = [s \in Runs |-> IF s = r THEN "active"
                               ELSE IF s \in H THEN "hidden" ELSE life[s]]

Goes(r, to) == life[r] = "active" /\ life' = [life EXCEPT ![r] = to]

Reply(r) == Goes(r, "shown")
Stop(r) == Goes(r, "ended")

Next == \E r \in Runs : Reply(r) \/ Stop(r) \/ \E H \in SUBSET Runs : Begin(r, H)

Spec == Init /\ [][Next]_life

=============================================================================
