----------------------------- MODULE AgentRuns -----------------------------
(***************************************************************************)
(* The agent runtime of the AnyDatas server, over one conversation.        *)
(*                                                                         *)
(* A run is a row of ai_runs with the steps of ai_run_steps; it answers    *)
(* one user message of the conversation.  Requests create runs (a new      *)
(* message, a regenerated answer, a retry), answer the question a run      *)
(* asked, cancel a run, archive the conversation or bind it to other       *)
(* tables.  A supervisor task drives each launched run through rounds of   *)
(* model turns and tool calls; a question ends the task and the answer     *)
(* launches another one.  The map agent_control takes a cancellation to    *)
(* the task of a run, the hub agent_events wakes the SSE streams.          *)
(*                                                                         *)
(* One action stands for the code between two awaits whose order another   *)
(* actor can observe: one transaction, or one access of a map.  The reads  *)
(* a request makes before its first write are one action.  Left out: the   *)
(* texts of messages, prompts and tool results, step titles,               *)
(* the running DuckDB query (JobQueue models its registration), and the    *)
(* history summary.  The map from actions to code is in README.md.         *)
(***************************************************************************)
EXTENDS Integers, Sequences, FiniteSets

CONSTANTS
    Runs,         \* the run ids (fresh UUIDs) that requests may create
    Answers,      \* requests that answer a question
    Cancels,      \* requests that cancel a run
    Edits,        \* requests that archive or rebind the conversation
    Streams,      \* SSE connections
    Contexts,     \* context signatures: the tables bound, with their versions
    FirstContext, \* the signature the conversation is created with
    None,         \* no run, no task, no context
    Turns,        \* what the model may reply: the tool calls of one turn
    MaxRounds,    \* agent_max_steps
    MaxCrashes,   \* bound: times the process is killed
    MaxDrops,     \* bound: requests dropped between two awaits
    MaxFaults     \* bound: database errors a supervisor task meets

Launches == Runs \cup Answers
Requests == Launches \cup Cancels \cup Edits

ASSUME FiniteAssumption == IsFiniteSet(Runs)
ASSUME DistinctAssumption ==
    /\ None \notin Requests \cup Contexts
    /\ Runs \cap Answers = {} /\ Launches \cap (Cancels \cup Edits) = {}
    /\ Cancels \cap Edits = {}
ASSUME ContextAssumption == FirstContext \in Contexts
ASSUME TurnsAssumption == Turns \subseteq Seq({"tool", "ask"}) /\ <<>> \in Turns
ASSUME BoundsAssumption ==
    {MaxRounds, MaxCrashes, MaxDrops, MaxFaults} \subseteq Nat

VARIABLES
    conv,      \* ai_conversations: is it active, and its context_signature
    live,      \* the signatures resolve_context can still return
    msgs,      \* ai_messages in order of sequence
    run,       \* ai_runs: status, index of user_message_id and of the answer
    born,      \* the run ids in order of created_at
    steps,     \* ai_run_steps.status in order of ordinal; "closed" is any of
               \* completed, failed and canceled
    req,       \* the requests: where they are and what they have read
    task,      \* the supervisor tasks, by the request that launched them
    controls,  \* agent_control: the task a cancellation of the run reaches
    stream,    \* the SSE connections and their receivers of agent_events
    crashes, drops, faults

dbVars == <<conv, live, msgs, run, born, steps>>
boundVars == <<crashes, drops, faults>>
vars == <<dbVars, req, task, controls, stream, boundVars>>

Active == {"queued", "running", "waiting_user"}
Final == {"completed", "failed", "canceled"}
Open == {"running", "waiting"}

Loop == {"prepare", "begin", "model", "call", "tool", "ask"}
TaskPc == {"idle", "start", "commit", "fail", "failsteps",
           "cancel", "cancelsteps", "leave", "done"} \cup Loop
ReqPc == {"idle", "start", "regenerate", "retry", "answer", "resume", "launch",
          "signal", "mark", "steps", "archive", "rebind", "done"}

NoTask == [pc |-> "idle", run |-> None, canceled |-> FALSE, round |-> 0,
           calls |-> <<>>, step |-> 0]
NoRequest == [pc |-> "idle", run |-> None, at |-> 0, from |-> 0, ctx |-> None]
NoStream == [pc |-> "idle", run |-> None, dirty |-> FALSE, live |-> FALSE]

\* A conversation just created by create_conversation.
Init ==
    /\ conv = [open |-> TRUE, ctx |-> FirstContext]
    /\ live = Contexts
    /\ msgs = <<>>
    /\ run = [r \in Runs |-> [status |-> "none", user |-> 0, answer |-> 0]]
    /\ born = <<>>
    /\ steps = [r \in Runs |-> <<>>]
    /\ req = [q \in Requests |-> NoRequest]
    /\ task = [t \in Launches |-> NoTask]
    /\ controls = [r \in Runs |-> None]
    /\ stream = [s \in Streams |-> NoStream]
    /\ crashes = 0 /\ drops = 0 /\ faults = 0

-----------------------------------------------------------------------------
(* Operators named X_Y are mutants: what X would be with the plausible     *)
(* mistake Y.  No action uses them; the mutant runs of PROJECT.json put    *)
(* one in the place of X to show that a property notices.                  *)

-----------------------------------------------------------------------------
(* The event hub: a wake-up for every receiver of the run's channel; when  *)
(* the channel is finished the receivers lose their sender as well.        *)

Notified(r) ==
    [s \in Streams |-> IF stream[s].run = r /\ stream[s].live
                       THEN [stream[s] EXCEPT !.dirty = TRUE] ELSE stream[s]]

Finished(r) ==
    [s \in Streams |-> IF stream[s].run = r /\ stream[s].live
                       THEN [stream[s] EXCEPT !.dirty = TRUE, !.live = FALSE]
                       ELSE stream[s]]

\* Wake the streams of r, if the guarded UPDATE hit its row.
NotifyIf(hit, r) == stream' = IF hit THEN Notified(r) ELSE stream

-----------------------------------------------------------------------------
(* Writes that several handlers share.                                     *)

Status(r) == run[r].status
NoActiveRun_SkipWaiting == \A r \in Runs : Status(r) \notin {"queued", "running"}

NoActiveRun == \A r \in Runs : Status(r) \notin Active

RunGoes(r, to) == run' = [run EXCEPT ![r].status = to]

\* mark_running_steps.
CloseSteps(r) == steps' = [steps EXCEPT ![r] = [i \in DOMAIN @ |-> "closed"]]

\* mark_run_running, the UPDATE.
MarkRunning(r) ==
    IF Status(r) \in {"queued", "waiting_user"}
    THEN RunGoes(r, "running") /\ NotifyIf(TRUE, r)
    ELSE UNCHANGED <<run, stream>>

CancelHits_AnyStatus(r) == TRUE

\* mark_run_canceled up to the first await: did the UPDATE hit the row?
CancelHits(r) == Status(r) \in Active \cup {"canceled"}

MarkCanceled(r) ==
    IF CancelHits(r) THEN RunGoes(r, "canceled") ELSE UNCHANGED run

\* The rest of it: close the steps, finish the channel.
CancelTail(r) == CloseSteps(r) /\ stream' = Finished(r)

-----------------------------------------------------------------------------
(* Requests that create a run.                                             *)

At(q, pc) == req[q].pc = pc
ReqGoes(q, from, to) == At(q, from) /\ req' = [req EXCEPT ![q].pc = to]
ReqEnds(q, from) ==
    At(q, from) /\ req' = [req EXCEPT ![q] = [NoRequest EXCEPT !.pc = "done"]]

\* What every creator reads first; `now`, the created_at of the run, is taken
\* after these reads and before the transaction.
Precheck(r) ==
    /\ At(r, "idle")
    /\ conv.open /\ conv.ctx \in live
    /\ NoActiveRun
    /\ born' = Append(born, r)

CheckStart(r) ==
    /\ Precheck(r)
    /\ ReqGoes(r, "idle", "start")
    /\ UNCHANGED <<conv, live, msgs, run, steps, task, controls, stream, boundVars>>

ActiveAt(role) == {i \in DOMAIN msgs : msgs[i].role = role /\ msgs[i].active}

\* The answer at `from` and the user message it answers, both still active.
CheckRegenerate(r) ==
    /\ Precheck(r)
    /\ \E from \in ActiveAt("assistant"), at \in ActiveAt("user") :
           /\ at < from /\ ~\E i \in ActiveAt("user") : at < i /\ i < from
           /\ req' = [req EXCEPT ![r].pc = "regenerate", ![r].at = at, ![r].from = from]
    /\ UNCHANGED <<conv, live, msgs, run, steps, task, controls, stream, boundVars>>

LatestRun(s) ==
    \E i \in DOMAIN born :
        born[i] = s /\ \A k \in (i + 1)..Len(born) : Status(born[k]) = "none"

CheckRetry(r) ==
    /\ Precheck(r)
    /\ \E s \in Runs :
           /\ Status(s) \in {"failed", "canceled"} /\ LatestRun(s)
           /\ req' = [req EXCEPT ![r].pc = "retry", ![r].at = run[s].user]
    /\ UNCHANGED <<conv, live, msgs, run, steps, task, controls, stream, boundVars>>

QueueRun(r, user) ==
    run' = [run EXCEPT ![r] = [status |-> "queued", user |-> user, answer |-> 0]]

Message(role, r) == [role |-> role, of |-> r, active |-> TRUE]

\* The transaction: check again, write the messages, insert the queued run.
InsertRun(r) ==
    /\ NoActiveRun
    /\ \/ /\ ReqGoes(r, "start", "launch")
          /\ msgs' = Append(msgs, Message("user", r))
          /\ QueueRun(r, Len(msgs) + 1)
       \/ /\ ReqGoes(r, "regenerate", "launch")
          /\ msgs' = [i \in DOMAIN msgs |->
                         IF i >= req[r].from THEN [msgs[i] EXCEPT !.active = FALSE]
                         ELSE msgs[i]]
          /\ QueueRun(r, req[r].at)
       \/ /\ ReqGoes(r, "retry", "launch")
          /\ QueueRun(r, req[r].at)
          /\ UNCHANGED msgs
    /\ UNCHANGED <<conv, live, born, steps, task, controls, stream, boundVars>>

\* Another request was faster: Conflict, and the transaction rolls back.
InsertConflict(r) ==
    /\ ~NoActiveRun
    /\ \E pc \in {"start", "regenerate", "retry"} : ReqEnds(r, pc)
    /\ UNCHANGED <<dbVars, task, controls, stream, boundVars>>

RunOf(q) == IF q \in Runs THEN q ELSE req[q].run

\* launch_run: the control enters the map, then the task is spawned.
Launch(q) ==
    /\ ReqEnds(q, "launch")
    /\ task' = [task EXCEPT ![q] = [NoTask EXCEPT !.pc = "start", !.run = RunOf(q)]]
    /\ controls' = [controls EXCEPT ![RunOf(q)] = q]
    /\ UNCHANGED <<dbVars, stream, boundVars>>

-----------------------------------------------------------------------------
(* Requests that answer a question.                                        *)

LastWaiting(r, i) ==
    /\ i \in DOMAIN steps[r] /\ steps[r][i] = "waiting"
    /\ \A k \in DOMAIN steps[r] : k > i => steps[r][k] # "waiting"

CheckAnswer(a, r) ==
    /\ At(a, "idle")
    /\ Status(r) = "waiting_user"
    /\ conv.open /\ conv.ctx \in live
    /\ \E i \in DOMAIN steps[r] :
           /\ LastWaiting(r, i)
           /\ req' = [req EXCEPT ![a].pc = "answer", ![a].run = r, ![a].at = i]
    /\ UNCHANGED <<dbVars, task, controls, stream, boundVars>>

AnswerStep_AnyStep(a) ==
    /\ ReqGoes(a, "answer", "resume")
    /\ steps' = [steps EXCEPT ![req[a].run][req[a].at] = "closed"]
    /\ NotifyIf(TRUE, req[a].run)
    /\ UNCHANGED <<conv, live, msgs, run, born, task, controls, boundVars>>

\* complete_waiting_step: only one answer finds the step still waiting.
AnswerStep(a) ==
    /\ At(a, "answer") /\ steps[req[a].run][req[a].at] = "waiting"
    /\ ReqGoes(a, "answer", "resume")
    /\ steps' = [steps EXCEPT ![req[a].run][req[a].at] = "closed"]
    /\ NotifyIf(TRUE, req[a].run)
    /\ UNCHANGED <<conv, live, msgs, run, born, task, controls, boundVars>>

AnswerConflict(a) ==
    /\ At(a, "answer") /\ steps[req[a].run][req[a].at] # "waiting"
    /\ ReqEnds(a, "answer")
    /\ UNCHANGED <<dbVars, task, controls, stream, boundVars>>

AnswerResume(a) ==
    /\ ReqGoes(a, "resume", "launch")
    /\ MarkRunning(req[a].run)
    /\ UNCHANGED <<conv, live, msgs, born, steps, task, controls, boundVars>>

-----------------------------------------------------------------------------
(* Requests that cancel a run.                                             *)

CheckCancel(c, r) ==
    /\ At(c, "idle")
    /\ Status(r) \in Active
    /\ req' = [req EXCEPT ![c].pc = "signal", ![c].run = r]
    /\ UNCHANGED <<dbVars, task, controls, stream, boundVars>>

\* control.cancel(), if the map holds a control for the run.
CancelSignal(c) ==
    /\ ReqGoes(c, "signal", "mark")
    /\ LET t == controls[req[c].run] IN
           task' = IF t = None THEN task ELSE [task EXCEPT ![t].canceled = TRUE]
    /\ UNCHANGED <<dbVars, controls, stream, boundVars>>

CancelMark(c) ==
    /\ At(c, "mark")
    /\ IF CancelHits(req[c].run) THEN ReqGoes(c, "mark", "steps") ELSE ReqEnds(c, "mark")
    /\ MarkCanceled(req[c].run)
    /\ UNCHANGED <<conv, live, msgs, born, steps, task, controls, stream, boundVars>>

CancelSteps(c) ==
    /\ ReqEnds(c, "steps")
    /\ CancelTail(req[c].run)
    /\ UNCHANGED <<conv, live, msgs, run, born, task, controls, boundVars>>

-----------------------------------------------------------------------------
(* Requests that archive the conversation or bind it to other tables, and  *)
(* an edit of a bound table, after which a signature never comes back.     *)

CheckArchive(e) ==
    /\ conv.open /\ NoActiveRun
    /\ ReqGoes(e, "idle", "archive")
    /\ UNCHANGED <<dbVars, task, controls, stream, boundVars>>

Archive(e) ==
    /\ ReqEnds(e, "archive")
    /\ conv' = [conv EXCEPT !.open = FALSE]
    /\ UNCHANGED <<live, msgs, run, born, steps, task, controls, stream, boundVars>>

\* Only a conversation without messages may change its context.
CheckRebind(e, c) ==
    /\ At(e, "idle")
    /\ conv.open /\ NoActiveRun
    /\ c \in live \ {conv.ctx} /\ msgs = <<>>
    /\ req' = [req EXCEPT ![e].pc = "rebind", ![e].ctx = c]
    /\ UNCHANGED <<dbVars, task, controls, stream, boundVars>>

Rebind(e) ==
    /\ ReqEnds(e, "rebind")
    /\ conv' = [conv EXCEPT !.ctx = req[e].ctx]
    /\ UNCHANGED <<live, msgs, run, born, steps, task, controls, stream, boundVars>>

EditTable(c) ==
    /\ c \in live /\ live # {c}
    /\ live' = live \ {c}
    /\ UNCHANGED <<conv, msgs, run, born, steps, req, task, controls, stream, boundVars>>

-----------------------------------------------------------------------------
(* The supervisor task: launched, the loop, the outcome.                   *)

TaskAt(t, pc) == task[t].pc = pc
TaskGoes(t, from, to) == TaskAt(t, from) /\ task' = [task EXCEPT ![t].pc = to]

\* Out of the loop: only the outcome is left of the task.
Out(t, pc) == [NoTask EXCEPT !.pc = pc, !.run = task[t].run]
TaskExits(t, from, to) == TaskAt(t, from) /\ task' = [task EXCEPT ![t] = Out(t, to)]

\* mark_run_running; a run that is no longer queued is left as it is.
TaskStart(t) ==
    /\ TaskGoes(t, "start", "prepare")
    /\ MarkRunning(task[t].run)
    /\ UNCHANGED <<conv, live, msgs, born, steps, req, controls, boundVars>>

Continued_OneRoundMore(t, calls) ==
    IF task[t].canceled THEN Out(t, "cancel")
    ELSE IF calls # <<>> THEN [task[t] EXCEPT !.pc = "call", !.calls = calls]
    ELSE IF task[t].round > MaxRounds THEN Out(t, "fail")
    ELSE [task[t] EXCEPT !.pc = "begin", !.calls = <<>>]

\* ensure_not_canceled, without an await since the last step was written: the
\* next call of the turn, the next round, or the end of the step budget.
Continued(t, calls) ==
    IF task[t].canceled THEN Out(t, "cancel")
    ELSE IF calls # <<>> THEN [task[t] EXCEPT !.pc = "call", !.calls = calls]
    ELSE IF task[t].round = MaxRounds THEN Out(t, "fail")
    ELSE [task[t] EXCEPT !.pc = "begin", !.calls = <<>>]

\* The context, the history and the steps so far are read.
TaskPrepare(t) ==
    /\ TaskAt(t, "prepare")
    /\ task' = [task EXCEPT ![t] = Continued(t, <<>>)]
    /\ UNCHANGED <<dbVars, req, controls, stream, boundVars>>

\* start_step: the row and its ordinal, whatever the run's status.
NewStep(t) ==
    LET r == task[t].run IN
    /\ steps' = [steps EXCEPT ![r] = Append(@, "running")]
    /\ NotifyIf(TRUE, r)

TaskBegin(t) ==
    /\ TaskAt(t, "begin")
    /\ NewStep(t)
    /\ task' = [task EXCEPT ![t].pc = "model", ![t].round = @ + 1,
                            ![t].step = Len(steps[task[t].run]) + 1]
    /\ UNCHANGED <<conv, live, msgs, run, born, req, controls, boundVars>>

\* finish_step hits only a step that is still running.
FinishStep(t, to) ==
    LET r == task[t].run
        hit == steps[r][task[t].step] = "running" IN
    /\ steps' = IF hit THEN [steps EXCEPT ![r][task[t].step] = to] ELSE steps
    /\ NotifyIf(hit, r)

\* persist_model_stream: a snapshot of a step that is still running wakes the
\* streams and changes no status.
TaskStream(t) ==
    LET r == task[t].run IN
    /\ TaskAt(t, "model")
    /\ NotifyIf(steps[r][task[t].step] = "running", r)
    /\ UNCHANGED <<dbVars, req, task, controls, boundVars>>

\* The model's turn: its calls, or the final answer if there are none.
TaskTurn(t) ==
    /\ TaskAt(t, "model") /\ ~task[t].canceled
    /\ FinishStep(t, "closed")
    /\ \E turn \in Turns :
           task' = [task EXCEPT ![t] = IF turn = <<>> THEN Out(t, "commit")
                                       ELSE Continued(t, turn)]
    /\ UNCHANGED <<conv, live, msgs, run, born, req, controls, boundVars>>

\* The provider failed; a tool that fails in the runtime ends the run as well.
TaskError(t) ==
    /\ TaskAt(t, "model") \/ TaskAt(t, "tool")
    /\ FinishStep(t, "closed")
    /\ task' = [task EXCEPT ![t] = Out(t, "fail")]
    /\ UNCHANGED <<conv, live, msgs, run, born, req, controls, boundVars>>

\* The select wakes up on the cancellation while the model or a query runs.
TaskStopped(t) ==
    /\ TaskAt(t, "model") \/ (TaskAt(t, "tool") /\ Head(task[t].calls) = "tool")
    /\ task[t].canceled
    /\ FinishStep(t, "closed")
    /\ task' = [task EXCEPT ![t] = Out(t, "cancel")]
    /\ UNCHANGED <<conv, live, msgs, run, born, req, controls, boundVars>>

TaskCall(t) ==
    /\ TaskAt(t, "call")
    /\ NewStep(t)
    /\ task' = [task EXCEPT ![t].pc = "tool",
                            ![t].step = Len(steps[task[t].run]) + 1]
    /\ UNCHANGED <<conv, live, msgs, run, born, req, controls, boundVars>>

\* The call returns an observation, good or bad; also a malformed question.
TaskObserve(t) ==
    /\ TaskAt(t, "tool")
    /\ FinishStep(t, "closed")
    /\ task' = [task EXCEPT ![t] = Continued(t, Tail(@.calls))]
    /\ UNCHANGED <<conv, live, msgs, run, born, req, controls, boundVars>>

\* A question: the step waits, the rest of the turn is dropped.
TaskAsk(t) ==
    /\ TaskAt(t, "tool") /\ Head(task[t].calls) = "ask"
    /\ FinishStep(t, "waiting")
    /\ task' = [task EXCEPT ![t].pc = "ask", ![t].calls = <<>>]
    /\ UNCHANGED <<conv, live, msgs, run, born, req, controls, boundVars>>

TaskWait_AnyStatus(t) ==
    LET r == task[t].run IN
    /\ TaskExits(t, "ask", "leave")
    /\ RunGoes(r, "waiting_user")
    /\ NotifyIf(TRUE, r)
    /\ UNCHANGED <<conv, live, msgs, born, steps, req, controls, boundVars>>

\* mark_run_waiting_user.
TaskWait(t) ==
    LET r == task[t].run
        hit == Status(r) = "running" IN
    /\ TaskExits(t, "ask", "leave")
    /\ IF hit THEN RunGoes(r, "waiting_user") ELSE UNCHANGED run
    /\ NotifyIf(hit, r)
    /\ UNCHANGED <<conv, live, msgs, born, steps, req, controls, boundVars>>

\* complete_run: one transaction adds the answer and completes the run, or
\* rolls both back; the read before it cannot change which.
CanComplete(r) == Status(r) = "running"

TaskCommit(t) ==
    LET r == task[t].run IN
    /\ TaskGoes(t, "commit", "leave")
    /\ IF CanComplete(r)
       THEN /\ msgs' = Append(msgs, Message("assistant", r))
            /\ run' = [run EXCEPT ![r].status = "completed",
                                  ![r].answer = Len(msgs) + 1]
            /\ stream' = Finished(r)
       ELSE UNCHANGED <<msgs, run, stream>>
    /\ UNCHANGED <<conv, live, born, steps, req, controls, boundVars>>

\* mark_run_failed: the guarded UPDATE, then the steps and the channel.
TaskFail(t) ==
    LET r == task[t].run
        hit == Status(r) \in Active IN
    /\ TaskGoes(t, "fail", IF hit THEN "failsteps" ELSE "leave")
    /\ IF hit THEN RunGoes(r, "failed") ELSE UNCHANGED run
    /\ UNCHANGED <<conv, live, msgs, born, steps, req, controls, stream, boundVars>>

TaskFailSteps(t) ==
    /\ TaskGoes(t, "failsteps", "leave")
    /\ CloseSteps(task[t].run)
    /\ stream' = Finished(task[t].run)
    /\ UNCHANGED <<conv, live, msgs, run, born, req, controls, boundVars>>

TaskCancel(t) ==
    LET r == task[t].run IN
    /\ TaskGoes(t, "cancel", IF CancelHits(r) THEN "cancelsteps" ELSE "leave")
    /\ MarkCanceled(r)
    /\ UNCHANGED <<conv, live, msgs, born, steps, req, controls, stream, boundVars>>

TaskCancelSteps(t) ==
    /\ TaskGoes(t, "cancelsteps", "leave")
    /\ CancelTail(task[t].run)
    /\ UNCHANGED <<conv, live, msgs, run, born, req, controls, boundVars>>

TaskTimeout_KeepsSteps(t) ==
    /\ \E pc \in Loop : TaskExits(t, pc, "fail")
    /\ UNCHANGED <<dbVars, req, controls, stream, boundVars>>

\* The total timeout drops the loop wherever it is, closes the steps and
\* fails the run.
TaskTimeout(t) ==
    /\ \E pc \in Loop : TaskExits(t, pc, "fail")
    /\ CloseSteps(task[t].run)
    /\ UNCHANGED <<conv, live, msgs, run, born, req, controls, stream, boundVars>>

\* The tail of the spawned task: whatever control the run has now goes.
TaskLeave(t) ==
    /\ TaskAt(t, "leave")
    /\ task' = [task EXCEPT ![t] = Out(t, "done")]
    /\ controls' = [controls EXCEPT ![task[t].run] = None]
    /\ stream' = Finished(task[t].run)
    /\ UNCHANGED <<dbVars, req, boundVars>>

\* Where a database error takes the task: a failure in the loop fails the
\* run, a failure while writing the outcome is dropped.
AfterFault(pc) == IF pc \in {"start", "commit"} \cup Loop THEN "fail" ELSE "leave"

TaskFault(t) ==
    /\ faults < MaxFaults
    /\ \E pc \in TaskPc \ {"idle", "leave", "done"} :
           TaskExits(t, pc, AfterFault(pc))
    /\ faults' = faults + 1
    /\ UNCHANGED <<dbVars, req, controls, stream, crashes, drops>>

-----------------------------------------------------------------------------
(* An SSE connection: read, subscribe, read again, then a snapshot per     *)
(* wake-up until the run is no longer queued or running.                   *)

Streaming(r) == Status(r) \in {"queued", "running"}
StreamAt(s, pc) == stream[s].pc = pc
StreamEnded == [NoStream EXCEPT !.pc = "closed"]

StreamOpen(s, r) ==
    /\ StreamAt(s, "idle") /\ Streaming(r)
    /\ stream' = [stream EXCEPT ![s].pc = "subscribe", ![s].run = r]
    /\ UNCHANGED <<dbVars, req, task, controls, boundVars>>

StreamSubscribe(s) ==
    /\ StreamAt(s, "subscribe")
    /\ stream' = [stream EXCEPT ![s].pc = "reread", ![s].live = TRUE]
    /\ UNCHANGED <<dbVars, req, task, controls, boundVars>>

StreamReread_Skipped(s) ==
    /\ StreamAt(s, "reread")
    /\ stream' = [stream EXCEPT ![s].pc = "wait"]
    /\ UNCHANGED <<dbVars, req, task, controls, boundVars>>

\* The second read; a run that stopped meanwhile finishes the whole channel.
StreamReread(s) ==
    /\ StreamAt(s, "reread")
    /\ stream' = IF Streaming(stream[s].run)
                 THEN [stream EXCEPT ![s].pc = "wait"]
                 ELSE [Finished(stream[s].run) EXCEPT ![s] = StreamEnded]
    /\ UNCHANGED <<dbVars, req, task, controls, boundVars>>

\* A change was published: read and push, and stop after a settled run.
StreamPush(s) ==
    /\ StreamAt(s, "wait") /\ stream[s].dirty
    /\ stream' = [stream EXCEPT ![s] = IF Streaming(@.run) THEN [@ EXCEPT !.dirty = FALSE]
                                       ELSE StreamEnded]
    /\ UNCHANGED <<dbVars, req, task, controls, boundVars>>

\* The channel is gone and nothing is unread: a last snapshot.
StreamLast(s) ==
    /\ StreamAt(s, "wait") /\ ~stream[s].dirty /\ ~stream[s].live
    /\ stream' = [stream EXCEPT ![s] = StreamEnded]
    /\ UNCHANGED <<dbVars, req, task, controls, boundVars>>

-----------------------------------------------------------------------------
(* A request ends early: the client disconnects, or a statement fails.     *)
Abandon(q) ==
    /\ drops < MaxDrops
    /\ \E pc \in ReqPc \ {"idle", "done"} : ReqEnds(q, pc)
    /\ drops' = drops + 1
    /\ UNCHANGED <<dbVars, task, controls, stream, crashes, faults>>

Ended(rec) == IF rec.pc = "idle" THEN rec ELSE [NoRequest EXCEPT !.pc = "done"]

Recovered_KeepsRunning(r) == Status(r)

Recovered(r) == IF Status(r) \in {"queued", "running"} THEN "failed" ELSE Status(r)

\* The process is killed and started again; recover_interrupted_agent_runs
\* closes running steps, fails queued and running runs, keeps waiting ones.
Restart ==
    /\ crashes < MaxCrashes
    /\ crashes' = crashes + 1
    /\ steps' = [r \in Runs |-> [i \in DOMAIN steps[r] |->
                   IF steps[r][i] = "running" THEN "closed" ELSE steps[r][i]]]
    /\ run' = [r \in Runs |-> [run[r] EXCEPT !.status = Recovered(r)]]
    /\ req' = [q \in Requests |-> Ended(req[q])]
    /\ task' = [t \in Launches |-> IF TaskAt(t, "idle") THEN NoTask ELSE Out(t, "done")]
    /\ controls' = [r \in Runs |-> None]
    /\ stream' = [s \in Streams |-> IF StreamAt(s, "idle") THEN NoStream ELSE StreamEnded]
    /\ UNCHANGED <<conv, live, msgs, born, drops, faults>>

-----------------------------------------------------------------------------
TaskStep(t) ==
    \/ TaskStart(t) \/ TaskPrepare(t) \/ TaskBegin(t) \/ TaskTurn(t)
    \/ TaskError(t) \/ TaskStopped(t) \/ TaskCall(t)
    \/ TaskObserve(t) \/ TaskAsk(t) \/ TaskWait(t)
    \/ TaskCommit(t) \/ TaskFail(t) \/ TaskFailSteps(t) \/ TaskCancel(t)
    \/ TaskCancelSteps(t) \/ TaskTimeout(t) \/ TaskLeave(t)

CreateStep(r) == InsertRun(r) \/ InsertConflict(r) \/ Launch(r)
AnswerRequest(a) == AnswerStep(a) \/ AnswerConflict(a) \/ AnswerResume(a) \/ Launch(a)
CancelRequest(c) == CancelSignal(c) \/ CancelMark(c) \/ CancelSteps(c)
EditRequest(e) == Archive(e) \/ Rebind(e)
StreamStep(s) == StreamSubscribe(s) \/ StreamReread(s) \/ StreamPush(s) \/ StreamLast(s)

\* What the users and their browsers begin.
Users ==
    \/ \E r \in Runs : CheckStart(r) \/ CheckRegenerate(r) \/ CheckRetry(r)
    \/ \E r \in Runs, a \in Answers : CheckAnswer(a, r)
    \/ \E r \in Runs, c \in Cancels : CheckCancel(c, r)
    \/ \E e \in Edits : CheckArchive(e) \/ \E c \in Contexts : CheckRebind(e, c)
    \/ \E r \in Runs, s \in Streams : StreamOpen(s, r)
    \/ \E c \in Contexts : EditTable(c)

Next ==
    \/ Users
    \/ \E r \in Runs : CreateStep(r)
    \/ \E a \in Answers : AnswerRequest(a)
    \/ \E c \in Cancels : CancelRequest(c)
    \/ \E e \in Edits : EditRequest(e)
    \/ \E t \in Launches : TaskStep(t) \/ TaskStream(t) \/ TaskFault(t)
    \/ \E s \in Streams : StreamStep(s)
    \/ \E q \in Requests : Abandon(q)
    \/ Restart

Spec == Init /\ [][Next]_vars

\* The runtime polls every future it has spawned, and each wait of a task is
\* bounded by the total timeout.  Nobody owes it a message, an answer or a
\* cancellation.
Fairness ==
    /\ \A t \in Launches : WF_vars(TaskStep(t))
    /\ \A r \in Runs : WF_vars(CreateStep(r))
    /\ \A a \in Answers : WF_vars(AnswerRequest(a))
    /\ \A c \in Cancels : WF_vars(CancelRequest(c))
    /\ \A s \in Streams : WF_vars(StreamStep(s))

FairSpec == Spec /\ Fairness

-----------------------------------------------------------------------------
(* Properties.                                                             *)

RunType == [status : {"none"} \cup Active \cup Final, user : Nat, answer : Nat]
MessageType == [role : {"user", "assistant"}, of : Runs, active : BOOLEAN]
RequestType == [pc : ReqPc, run : Runs \cup {None}, at : Nat, from : Nat,
                ctx : Contexts \cup {None}]
TaskType == [pc : TaskPc, run : Runs \cup {None}, canceled : BOOLEAN,
             round : 0..MaxRounds,
             calls : Seq({"tool", "ask"}), step : Nat]
StreamType == [pc : {"idle", "subscribe", "reread", "wait", "closed"},
               run : Runs \cup {None}, dirty : BOOLEAN, live : BOOLEAN]

\* The type invariant.
TypeOK ==
    /\ conv \in [open : BOOLEAN, ctx : Contexts]
    /\ live \in SUBSET Contexts
    /\ msgs \in Seq(MessageType)
    /\ run \in [Runs -> RunType]
    /\ born \in Seq(Runs)
    /\ steps \in [Runs -> Seq(Open \cup {"closed"})]
    /\ req \in [Requests -> RequestType]
    /\ task \in [Launches -> TaskType]
    /\ controls \in [Runs -> Launches \cup {None}]
    /\ stream \in [Streams -> StreamType]
    /\ crashes \in Nat /\ drops \in Nat /\ faults \in Nat

\* A conversation never has two runs that are queued, running or waiting,
\* however its creators, answers and retries interleave (agent.rs:2828).
OneActiveRun ==
    \A r1, r2 \in Runs : Status(r1) \in Active /\ Status(r2) \in Active => r1 = r2

\* A run is driven by at most one task: two answers to a question, or an answer
\* while the asking task is ending, do not start a second loop (agent.rs:860).
Driving(t) == task[t].pc \in {"start"} \cup Loop
OneLoopPerRun ==
    \A t1, t2 \in Launches :
        Driving(t1) /\ Driving(t2) /\ task[t1].run = task[t2].run => t1 = t2

\* An assistant message and its run's completion come together: every answer
\* belongs to exactly one run, that run is completed, and a canceled, failed or
\* interrupted run never leaves one (agent.rs:2865).
AnswerIffCompleted ==
    /\ \A i \in DOMAIN msgs : msgs[i].role = "assistant" =>
           Status(msgs[i].of) = "completed" /\ run[msgs[i].of].answer = i
    /\ \A r \in Runs : Status(r) = "completed" =>
           /\ run[r].answer \in DOMAIN msgs /\ msgs[run[r].answer].role = "assistant"
           /\ msgs[run[r].answer].of = r

\* Once nobody works on a settled run any more, no step of it is shown as
\* running: cancellation, timeout, failure and restart all close it, in
\* whatever order they meet the task (agent.rs:3003).  A database error may
\* leave one.
Working(r) ==
    \/ \E t \in Launches : task[t].run = r /\ task[t].pc \notin {"idle", "done"}
    \/ \E c \in Cancels : req[c].run = r /\ req[c].pc \in {"mark", "steps"}
NoRunningStepLeft ==
    \A r \in Runs :
        Status(r) \in Final /\ ~Working(r) /\ faults = 0 =>
            \A i \in DOMAIN steps[r] : steps[r][i] # "running"

\* A launched run settles or comes to wait for its user, whatever the model,
\* the tools and the requests do; only failing to write the outcome can leave it
\* (agent.rs:1044, a run must not poll as running for ever).
LaunchedRunSettles ==
    \A t \in Launches, r \in Runs :
        (TaskAt(t, "start") /\ task[t].run = r) ~> (~Streaming(r) \/ faults > 0)

\* A stream whose run has stopped is told so and ends, wherever the change falls
\* between its two reads and its subscription, unless the write of an outcome
\* failed (api/agent.rs:158).
StreamsEnd ==
    \A s \in Streams, r \in Runs :
        (stream[s].run = r /\ ~Streaming(r))
            ~> (StreamAt(s, "closed") \/ Streaming(r) \/ faults > 0)

\* What the user sees of a run.
Life(r) ==
    CASE Status(r) = "none" -> "none"
      [] Status(r) \in Active -> "active"
      [] Status(r) = "completed" ->
             IF msgs[run[r].answer].active THEN "shown" ELSE "hidden"
      [] OTHER -> "ended"

Promise == INSTANCE AgentPromise WITH life <- [r \in Runs |-> Life(r)]

\* The runtime implements AgentPromise: every step of a request, of a task (also
\* one whose run was canceled behind its back) and of a restart is a step of the
\* promised life of a run, or none.
TurnsKept == Promise!Spec

\* docs/17-ai-agent-runtime.md:77 and db.rs:46: a run kept waiting over a restart
\* can still be answered.
WaitingIsAnswerable ==
    \A r \in Runs :
        Status(r) = "waiting_user" /\ ~Working(r)
        /\ (\A a \in Answers : req[a].run = r => At(a, "done"))
            => \E i \in DOMAIN steps[r] : steps[r][i] = "waiting"

=============================================================================
