----------------------------- MODULE JobPromise -----------------------------
(***************************************************************************)
(* What the background job queue promises its users: the life of a job and *)
(* of its result, as the API shows them, with no worker, thread, file or   *)
(* request in sight.  JobQueue implements it (JobQueue!PromiseKept).       *)
(***************************************************************************)
EXTENDS FiniteSets

CONSTANT Jobs

VARIABLES
    state,   \* "none", "queued", "running", "succeeded", "failed",
             \* "canceled" or "deleted"
    result,  \* "none", "available" or "withdrawn"
    doomed   \* jobs whose removal, or the removal of whose result, was decided

promiseVars == <<state, result, doomed>>

Active == {"queued", "running"}
Terminal == {"succeeded", "failed", "canceled"}

Init ==
    /\ state = [j \in Jobs |-> "none"]
    /\ result = [j \in Jobs |-> "none"]
    /\ doomed = {}

Goes(j, from, to) ==
    /\ state[j] \in from
    /\ state' = [state EXCEPT ![j] = to]

Accept(j) == Goes(j, {"none"}, "queued") /\ UNCHANGED <<result, doomed>>
Start(j) == Goes(j, {"queued"}, "running") /\ UNCHANGED <<result, doomed>>
Fail(j) == Goes(j, {"running"}, "failed") /\ UNCHANGED <<result, doomed>>
Stop(j) == Goes(j, Active, "canceled") /\ UNCHANGED <<result, doomed>>

\* A job succeeds and offers its complete result in one step.
Succeed(j) ==
    /\ Goes(j, {"running"}, "succeeded")
    /\ result' = [result EXCEPT ![j] = "available"]
    /\ UNCHANGED doomed

\* A restart fails what was running and leaves the queue alone.
Interrupt ==
    /\ state' = [j \in Jobs |-> IF state[j] = "running" THEN "failed" ELSE state[j]]
    /\ UNCHANGED <<result, doomed>>

Doom(S) ==
    /\ \A j \in S : state[j] \in Terminal
    /\ doomed' = doomed \cup S
    /\ UNCHANGED <<state, result>>

\* Results go only when that was decided, and never come back.
Withdraw(S) ==
    /\ S \subseteq doomed
    /\ result' = [j \in Jobs |-> IF j \in S /\ state[j] = "succeeded"
                                 THEN "withdrawn" ELSE result[j]]
    /\ UNCHANGED <<state, doomed>>

Delete(j) ==
    /\ j \in doomed
    /\ Goes(j, Terminal \cup {"deleted"}, "deleted")
    /\ result' = [result EXCEPT ![j] = "none"]
    /\ UNCHANGED doomed

\* With the source every job on it goes, finished or not.
DeleteAll ==
    /\ state' = [j \in Jobs |-> IF state[j] = "none" THEN "none" ELSE "deleted"]
    /\ result' = [j \in Jobs |-> "none"]
    /\ UNCHANGED doomed

Next ==
    \/ \E j \in Jobs : Accept(j) \/ Start(j) \/ Succeed(j) \/ Fail(j) \/ Stop(j)
                       \/ Delete(j)
    \/ Interrupt
    \/ \E S \in SUBSET Jobs : Doom(S) \/ Withdraw(S)
    \/ DeleteAll

Spec == Init /\ [][Next]_promiseVars

=============================================================================
