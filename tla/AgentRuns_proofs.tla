-------------------------- MODULE AgentRuns_proofs --------------------------
(***************************************************************************)
(* Theorems about AgentRuns, for every set of runs, answers, cancellations, *)
(* edits and streams, every behaviour of the model and every bound.        *)
(***************************************************************************)
EXTENDS AgentRuns, SequenceTheorems, TLAPS

-----------------------------------------------------------------------------
(* Type correctness.                                                       *)

StepStatus == Open \cup {"closed"}

\* A task in the middle of a turn has a call left, one that begins a round has
\* not used its budget up.
Budget ==
  \A t \in Launches :
      /\ task[t].pc \in {"call", "tool"} => task[t].calls # <<>>
      /\ task[t].pc = "begin" => task[t].round < MaxRounds

Typed == TypeOK /\ Budget

\* A task, and a request that has chosen a run, have a run.
Aimed ==
  /\ \A t \in Launches : task[t].pc # "idle" => task[t].run \in Runs
  /\ \A a \in Answers : req[a].pc \in {"answer", "resume", "launch"} => req[a].run \in Runs
  /\ \A e \in Edits : req[e].pc = "rebind" => req[e].ctx \in Contexts
  /\ \A c \in Cancels : req[c].pc \in {"signal", "mark", "steps"} => req[c].run \in Runs

LEMMA TypeInit == Init => Typed
<1>1. SUFFICES ASSUME Init PROVE Typed
  OBVIOUS
<1>2. conv \in [open : BOOLEAN, ctx : Contexts] /\ live \in SUBSET Contexts
  BY <1>1, ContextAssumption DEF Init
<1>3. run \in [Runs -> RunType] /\ req \in [Requests -> RequestType]
      /\ stream \in [Streams -> StreamType]
  BY <1>1 DEF Init, RunType, RequestType, StreamType, NoRequest, NoStream, ReqPc
<1>4. task \in [Launches -> TaskType] /\ \A t \in Launches : task[t].pc = "idle"
  BY <1>1, BoundsAssumption DEF Init, TaskType, NoTask, TaskPc
<1>5. Budget
  BY <1>4 DEF Budget
<1> QED BY <1>1, <1>2, <1>3, <1>4, <1>5 DEF Init, Typed, TypeOK

\* What the shared writes make of well typed rows.
LEMMA StreamsTyped ==
  ASSUME stream \in [Streams -> StreamType], NEW r
  PROVE  Notified(r) \in [Streams -> StreamType] /\ Finished(r) \in [Streams -> StreamType]
BY DEF Notified, Finished, StreamType

LEMMA StatusTyped ==
  ASSUME run \in [Runs -> RunType], NEW r,
         NEW to \in {"none"} \cup Active \cup Final
  PROVE  [run EXCEPT ![r].status = to] \in [Runs -> RunType]
<1>1. ASSUME NEW s \in Runs PROVE [run[s] EXCEPT !.status = to] \in RunType
  BY DEF RunType
<1> QED BY <1>1

LEMMA GoesTyped ==
  ASSUME run \in [Runs -> RunType], NEW r,
         NEW to \in {"none"} \cup Active \cup Final, RunGoes(r, to)
  PROVE  run' \in [Runs -> RunType]
BY StatusTyped DEF RunGoes

LEMMA ClosedTyped ==
  ASSUME steps \in [Runs -> Seq(StepStatus)], NEW r
  PROVE  [steps EXCEPT ![r] = [i \in DOMAIN @ |-> "closed"]] \in [Runs -> Seq(StepStatus)]
<1>1. ASSUME NEW s \in Runs PROVE [i \in DOMAIN steps[s] |-> "closed"] \in Seq(StepStatus)
  BY DEF StepStatus
<1> QED BY <1>1

LEMMA StepTyped ==
  ASSUME steps \in [Runs -> Seq(StepStatus)], NEW r, NEW i, NEW to \in StepStatus
  PROVE  [steps EXCEPT ![r][i] = to] \in [Runs -> Seq(StepStatus)]
<1>1. ASSUME NEW s \in Runs PROVE [steps[s] EXCEPT ![i] = to] \in Seq(StepStatus)
  <2>1. steps[s] \in [1..Len(steps[s]) -> StepStatus] /\ Len(steps[s]) \in Nat
    OBVIOUS
  <2>2. [steps[s] EXCEPT ![i] = to] \in [1..Len(steps[s]) -> StepStatus]
    BY <2>1
  <2> QED BY <2>1, <2>2
<1> QED BY <1>1

\* What a task does next fits its type and budget.
BudgetOf(rec) ==
  /\ rec.pc \in {"call", "tool"} => rec.calls # <<>>
  /\ rec.pc = "begin" => rec.round < MaxRounds

LEMMA NextTaskTyped ==
  ASSUME Typed, NEW t \in Launches
  PROVE  /\ task[t] \in TaskType /\ BudgetOf(task[t])
         /\ \A pc \in TaskPc : Out(t, pc) \in TaskType
         /\ \A pc \in TaskPc \ (Loop \cup {"idle"}) : BudgetOf(Out(t, pc))
         /\ \A calls \in Seq({"tool", "ask"}) :
                Continued(t, calls) \in TaskType /\ BudgetOf(Continued(t, calls))
<1>1. task[t] \in TaskType /\ BudgetOf(task[t])
  BY DEF Typed, TypeOK, Budget, BudgetOf
<1>2. \A pc \in TaskPc : Out(t, pc) \in TaskType /\ Out(t, pc).pc = pc
  <2>1. NoTask \in TaskType
    BY BoundsAssumption DEF NoTask, TaskType, TaskPc
  <2> QED BY <1>1, <2>1 DEF Out, TaskType
<1>3. \A pc \in TaskPc \ (Loop \cup {"idle"}) : BudgetOf(Out(t, pc))
  BY <1>2 DEF BudgetOf, Loop
<1>4. ASSUME NEW calls \in Seq({"tool", "ask"})
      PROVE  Continued(t, calls) \in TaskType /\ BudgetOf(Continued(t, calls))
  <2>1. CASE task[t].canceled
    BY <2>1, <1>2, <1>3 DEF Continued, TaskPc, Loop
  <2>2. CASE ~task[t].canceled /\ calls # <<>>
    BY <2>2, <1>1 DEF Continued, TaskType, TaskPc, Loop, BudgetOf
  <2>3. CASE ~task[t].canceled /\ calls = <<>> /\ task[t].round = MaxRounds
    BY <2>3, <1>2, <1>3 DEF Continued, TaskPc, Loop
  <2>4. CASE ~task[t].canceled /\ calls = <<>> /\ task[t].round # MaxRounds
    <3>1. Continued(t, calls) = [task[t] EXCEPT !.pc = "begin", !.calls = <<>>]
      BY <2>4 DEF Continued
    <3>2. task[t].round < MaxRounds
      BY <2>4, <1>1, BoundsAssumption DEF TaskType
    <3>3. Continued(t, calls) \in TaskType
      BY <2>4, <3>1, <1>1, <1>4 DEF TaskType, TaskPc, Loop
    <3>4. Continued(t, calls).pc = "begin" /\ Continued(t, calls).round = task[t].round
      BY <3>1, <1>1 DEF TaskType
    <3> QED BY <3>2, <3>3, <3>4 DEF BudgetOf
  <2> QED BY <2>1, <2>2, <2>3, <2>4
<1> QED BY <1>1, <1>2, <1>3, <1>4

LEMMA RequestTyped ==
  ASSUME req \in [Requests -> RequestType], NEW q
  PROVE  /\ \A from, to \in ReqPc : ReqGoes(q, from, to) => req' \in [Requests -> RequestType]
         /\ \A from \in ReqPc : ReqEnds(q, from) => req' \in [Requests -> RequestType]
<1>1. [NoRequest EXCEPT !.pc = "done"] \in RequestType
  BY DEF NoRequest, RequestType, ReqPc
<1>2. ASSUME NEW p \in Requests, NEW to \in ReqPc
      PROVE  [req[p] EXCEPT !.pc = to] \in RequestType
  BY DEF RequestType
<1> QED BY <1>1, <1>2 DEF ReqGoes, ReqEnds

LEMMA TypeCreators ==
  ASSUME Typed, NEW r \in Runs,
         CheckStart(r) \/ CheckRegenerate(r) \/ CheckRetry(r) \/ InsertRun(r)
         \/ InsertConflict(r)
  PROVE  Typed'
<1> USE DEF boundVars, dbVars, Requests, Launches
<1>0. /\ req \in [Requests -> RequestType] /\ run \in [Runs -> RunType]
      /\ msgs \in Seq(MessageType) /\ born \in Seq(Runs)
      /\ r \in Requests /\ req[r] \in RequestType
  BY DEF Typed, TypeOK
<1>r. Precheck(r) => born' \in Seq(Runs)
  BY <1>0 DEF Precheck
<1>1. CASE CheckStart(r)
  <2>1. req' \in [Requests -> RequestType]
    BY <1>1, <1>0, RequestTyped DEF CheckStart, ReqPc
  <2> QED BY <1>1, <2>1, <1>r DEF CheckStart, Typed, TypeOK, Budget
<1>2. CASE CheckRegenerate(r)
  <2>1. req' \in [Requests -> RequestType]
    <3>1. PICK from \in DOMAIN msgs, at \in DOMAIN msgs :
             req' = [req EXCEPT ![r].pc = "regenerate", ![r].at = at, ![r].from = from]
      BY <1>2 DEF CheckRegenerate, ActiveAt
    <3>2. from \in Nat /\ at \in Nat
      BY <1>0
    <3>3. [req[r] EXCEPT !.pc = "regenerate", !.at = at, !.from = from] \in RequestType
      BY <3>2, <1>0 DEF RequestType, ReqPc
    <3> QED BY <3>1, <3>3, <1>0
  <2> QED BY <1>2, <2>1, <1>r DEF CheckRegenerate, Typed, TypeOK, Budget
<1>3. CASE CheckRetry(r)
  <2>1. req' \in [Requests -> RequestType]
    <3>1. PICK s \in Runs :
             req' = [req EXCEPT ![r].pc = "retry", ![r].at = run[s].user]
      BY <1>3 DEF CheckRetry
    <3>2. [req[r] EXCEPT !.pc = "retry", !.at = run[s].user] \in RequestType
      BY <1>0 DEF RequestType, RunType, ReqPc
    <3> QED BY <3>1, <3>2, <1>0
  <2> QED BY <1>3, <2>1, <1>r DEF CheckRetry, Typed, TypeOK, Budget
<1>4. CASE InsertRun(r)
  <2>1. req' \in [Requests -> RequestType]
    BY <1>4, <1>0, RequestTyped DEF InsertRun, ReqPc
  <2>2. \A user \in Nat : QueueRun(r, user) => run' \in [Runs -> RunType]
    BY <1>0 DEF QueueRun, RunType, Active
  <2>3. Len(msgs) + 1 \in Nat /\ req[r].at \in Nat
    BY <1>0 DEF RequestType
  <2>4. run' \in [Runs -> RunType]
    BY <1>4, <2>2, <2>3 DEF InsertRun
  <2>5. Append(msgs, Message("user", r)) \in Seq(MessageType)
    <3>1. Message("user", r) \in MessageType
      BY DEF Message, MessageType
    <3> QED BY <3>1, <1>0, AppendProperties
  <2>6. [i \in DOMAIN msgs |-> IF i >= req[r].from THEN [msgs[i] EXCEPT !.active = FALSE]
                               ELSE msgs[i]] \in Seq(MessageType)
    <3>1. ASSUME NEW i \in DOMAIN msgs
          PROVE  msgs[i] \in MessageType /\ [msgs[i] EXCEPT !.active = FALSE] \in MessageType
      <4>1. msgs[i] \in MessageType
        BY <1>0
      <4> QED BY <4>1 DEF MessageType
    <3> QED BY <3>1, <1>0, SMTT(20)
  <2>7. msgs' \in Seq(MessageType)
    BY <1>4, <2>5, <2>6, <1>0 DEF InsertRun
  <2> QED BY <1>4, <2>1, <2>4, <2>7 DEF InsertRun, Typed, TypeOK, Budget
<1>5. CASE InsertConflict(r)
  <2>1. req' \in [Requests -> RequestType]
    BY <1>5, <1>0, RequestTyped DEF InsertConflict, ReqPc
  <2> QED BY <1>5, <2>1 DEF InsertConflict, Typed, TypeOK, Budget
<1> QED BY <1>1, <1>2, <1>3, <1>4, <1>5

LEMMA TypeLaunch ==
  ASSUME Typed, Aimed, NEW q \in Launches, Launch(q)
  PROVE  Typed' /\ RunOf(q) \in Runs
<1>0. RunOf(q) \in Runs
  BY DEF Launch, ReqEnds, At, RunOf, Aimed, Launches
<1>1. req' \in [Requests -> RequestType]
  BY RequestTyped DEF Launch, ReqPc, Typed, TypeOK
<1>2. [NoTask EXCEPT !.pc = "start", !.run = RunOf(q)] \in TaskType
  <2>1. NoTask \in TaskType /\ "start" \in TaskPc /\ RunOf(q) \in Runs
    BY <1>0, BoundsAssumption DEF NoTask, TaskType, TaskPc
  <2> HIDE DEF NoTask
  <2> QED BY <2>1 DEF TaskType
<1>3. task' \in [Launches -> TaskType] /\ Budget'
  <2>1. task' = [task EXCEPT ![q] = [NoTask EXCEPT !.pc = "start", !.run = RunOf(q)]]
        /\ task \in [Launches -> TaskType]
    BY DEF Launch, Typed, TypeOK
  <2>2. task'[q].pc = "start" /\ \A t \in Launches \ {q} : task'[t] = task[t]
    BY <2>1 DEF NoTask
  <2> QED BY <2>1, <2>2, <1>2 DEF Budget, Typed
<1>4. controls' \in [Runs -> Launches \cup {None}]
  BY DEF Launch, Typed, TypeOK
<1> QED BY <1>0, <1>1, <1>3, <1>4 DEF Launch, dbVars, boundVars, Typed, TypeOK

LEMMA TypeAnswers ==
  ASSUME Typed, NEW a \in Answers,
         (\E r \in Runs : CheckAnswer(a, r))
         \/ AnswerStep(a) \/ AnswerConflict(a) \/ AnswerResume(a)
  PROVE  Typed'
<1> USE DEF boundVars, dbVars, Requests, Launches
<1>0. /\ req \in [Requests -> RequestType] /\ run \in [Runs -> RunType]
      /\ steps \in [Runs -> Seq(StepStatus)] /\ stream \in [Streams -> StreamType]
      /\ req[a] \in RequestType
  BY DEF Typed, TypeOK, StepStatus
<1>n. \A hit, s : NotifyIf(hit, s) => stream' \in [Streams -> StreamType]
  BY <1>0, StreamsTyped DEF NotifyIf
<1>1. ASSUME NEW r \in Runs, CheckAnswer(a, r) PROVE Typed'
  <2>1. req' \in [Requests -> RequestType]
    <3>1. PICK i \in DOMAIN steps[r] :
              req' = [req EXCEPT ![a].pc = "answer", ![a].run = r, ![a].at = i]
      BY <1>1 DEF CheckAnswer
    <3>2. i \in Nat
      BY <1>0
    <3>3. [req[a] EXCEPT !.pc = "answer", !.run = r, !.at = i] \in RequestType
      BY <3>2, <1>0 DEF RequestType, ReqPc
    <3> QED BY <3>1, <3>3, <1>0
  <2> QED BY <1>1, <2>1 DEF CheckAnswer, Typed, TypeOK, Budget
<1>2. CASE AnswerStep(a)
  <2>1. req' \in [Requests -> RequestType]
    BY <1>2, <1>0, RequestTyped DEF AnswerStep, ReqPc
  <2>2. steps' \in [Runs -> Seq(StepStatus)]
    BY <1>2, <1>0, StepTyped DEF AnswerStep, StepStatus
  <2>3. stream' \in [Streams -> StreamType]
    BY <1>2, <1>n DEF AnswerStep
  <2> QED BY <1>2, <2>1, <2>2, <2>3 DEF AnswerStep, Typed, TypeOK, Budget, StepStatus
<1>3. CASE AnswerConflict(a)
  <2>1. req' \in [Requests -> RequestType]
    BY <1>3, <1>0, RequestTyped DEF AnswerConflict, ReqPc
  <2> QED BY <1>3, <2>1 DEF AnswerConflict, Typed, TypeOK, Budget
<1>4. CASE AnswerResume(a)
  <2>1. req' \in [Requests -> RequestType]
    BY <1>4, <1>0, RequestTyped DEF AnswerResume, ReqPc
  <2>2. run' \in [Runs -> RunType] /\ stream' \in [Streams -> StreamType]
    <3>1. \/ RunGoes(req[a].run, "running") /\ NotifyIf(TRUE, req[a].run)
          \/ run' = run /\ stream' = stream
      BY <1>4 DEF AnswerResume, MarkRunning
    <3> QED BY <3>1, <1>0, <1>n, GoesTyped DEF Active
  <2> QED BY <1>4, <2>1, <2>2 DEF AnswerResume, Typed, TypeOK, Budget
<1> QED BY <1>1, <1>2, <1>3, <1>4

LEMMA TypeCancels ==
  ASSUME Typed, NEW c \in Cancels,
         (\E r \in Runs : CheckCancel(c, r)) \/ CancelRequest(c)
  PROVE  Typed'
<1> USE DEF boundVars, dbVars, Requests
<1>0. /\ req \in [Requests -> RequestType] /\ run \in [Runs -> RunType]
      /\ steps \in [Runs -> Seq(StepStatus)] /\ stream \in [Streams -> StreamType]
      /\ req[c] \in RequestType /\ task \in [Launches -> TaskType]
  BY DEF Typed, TypeOK, StepStatus
<1>1. ASSUME NEW r \in Runs, CheckCancel(c, r) PROVE Typed'
  <2>1. req' \in [Requests -> RequestType]
    <3>1. [req[c] EXCEPT !.pc = "signal", !.run = r] \in RequestType
      BY <1>0 DEF RequestType, ReqPc
    <3> QED BY <1>1, <3>1, <1>0 DEF CheckCancel
  <2> QED BY <1>1, <2>1 DEF CheckCancel, Typed, TypeOK, Budget
<1>2. CASE CancelSignal(c)
  <2>1. req' \in [Requests -> RequestType]
    BY <1>2, <1>0, RequestTyped DEF CancelSignal, ReqPc
  <2>2. task' \in [Launches -> TaskType] /\ Budget'
    <3>1. \/ task' = task
          \/ \E t : task' = [task EXCEPT ![t].canceled = TRUE]
      BY <1>2 DEF CancelSignal
    <3>2. ASSUME NEW t, task' = [task EXCEPT ![t].canceled = TRUE]
          PROVE  task' \in [Launches -> TaskType] /\ Budget'
      <4>1. \A u \in Launches : [task[u] EXCEPT !.canceled = TRUE] \in TaskType
        BY <1>0 DEF TaskType
      <4>2. task' \in [Launches -> TaskType]
        BY <3>2, <4>1, <1>0
      <4>3. ASSUME NEW u \in Launches
            PROVE  /\ task'[u].pc = task[u].pc /\ task'[u].calls = task[u].calls
                   /\ task'[u].round = task[u].round
        BY <3>2, <1>0 DEF TaskType
      <4> QED BY <4>2, <4>3 DEF Typed, Budget
    <3> QED BY <3>1, <3>2, <1>0 DEF Typed, Budget
  <2> QED BY <1>2, <2>1, <2>2 DEF CancelSignal, Typed, TypeOK
<1>3. CASE CancelMark(c)
  <2>1. req' \in [Requests -> RequestType]
    BY <1>3, <1>0, RequestTyped DEF CancelMark, ReqPc
  <2>2. run' \in [Runs -> RunType]
    <3>1. run' = run \/ RunGoes(req[c].run, "canceled")
      BY <1>3 DEF CancelMark, MarkCanceled
    <3> QED BY <3>1, <1>0, GoesTyped DEF Final
  <2> QED BY <1>3, <2>1, <2>2 DEF CancelMark, Typed, TypeOK, Budget
<1>4. CASE CancelSteps(c)
  <2>1. req' \in [Requests -> RequestType]
    BY <1>4, <1>0, RequestTyped DEF CancelSteps, ReqPc
  <2>2. steps' \in [Runs -> Seq(StepStatus)] /\ stream' \in [Streams -> StreamType]
    BY <1>4, <1>0, ClosedTyped, StreamsTyped DEF CancelSteps, CancelTail, CloseSteps
  <2> QED BY <1>4, <2>1, <2>2 DEF CancelSteps, Typed, TypeOK, Budget, StepStatus
<1> QED BY <1>1, <1>2, <1>3, <1>4 DEF CancelRequest

LEMMA TypeEdits ==
  ASSUME Typed, NEW e \in Edits,
         CheckArchive(e) \/ (\E c \in Contexts : CheckRebind(e, c)) \/ Archive(e)
  PROVE  Typed'
<1> USE DEF boundVars, dbVars, Requests
<1>0. /\ req \in [Requests -> RequestType] /\ req[e] \in RequestType
      /\ conv \in [open : BOOLEAN, ctx : Contexts] /\ live \in SUBSET Contexts
  BY DEF Typed, TypeOK
<1>1. CASE CheckArchive(e)
  <2>1. req' \in [Requests -> RequestType]
    BY <1>1, <1>0, RequestTyped DEF CheckArchive, ReqPc
  <2> QED BY <1>1, <2>1 DEF CheckArchive, Typed, TypeOK, Budget
<1>2. ASSUME NEW c \in Contexts, CheckRebind(e, c) PROVE Typed'
  <2>1. [req[e] EXCEPT !.pc = "rebind", !.ctx = c] \in RequestType
    BY <1>0 DEF RequestType, ReqPc
  <2>2. req' \in [Requests -> RequestType]
    BY <1>2, <2>1, <1>0 DEF CheckRebind
  <2> QED BY <1>2, <2>2 DEF CheckRebind, Typed, TypeOK, Budget
<1>3. CASE Archive(e)
  <2>1. req' \in [Requests -> RequestType]
    BY <1>3, <1>0, RequestTyped DEF Archive, ReqPc
  <2>2. conv' \in [open : BOOLEAN, ctx : Contexts]
    BY <1>3, <1>0 DEF Archive
  <2> QED BY <1>3, <2>1, <2>2 DEF Archive, Typed, TypeOK, Budget
<1> QED BY <1>1, <1>2, <1>3

LEMMA TypeEditTable == ASSUME Typed, NEW c \in Contexts, EditTable(c) PROVE Typed'
BY DEF EditTable, Typed, TypeOK, Budget, boundVars

LEMMA TypeRebind ==
  ASSUME Typed, Aimed, NEW e \in Edits, Rebind(e)
  PROVE  Typed'
<1> USE DEF boundVars, dbVars, Requests
<1>0. /\ req \in [Requests -> RequestType] /\ req[e] \in RequestType
      /\ conv \in [open : BOOLEAN, ctx : Contexts]
  BY DEF Typed, TypeOK
<1>1. req' \in [Requests -> RequestType]
  BY <1>0, RequestTyped DEF Rebind, ReqPc
<1>2. req[e].ctx \in Contexts
  BY DEF Rebind, ReqEnds, At, Aimed
<1>3. conv' \in [open : BOOLEAN, ctx : Contexts]
  BY <1>0, <1>2 DEF Rebind
<1> QED BY <1>1, <1>3 DEF Rebind, Typed, TypeOK, Budget

\* A step of a task changes its own record, within its type and budget.
LEMMA TaskTyped ==
  ASSUME Typed, NEW t \in Launches, NEW rec \in TaskType, BudgetOf(rec),
         task' = [task EXCEPT ![t] = rec]
  PROVE  task' \in [Launches -> TaskType] /\ Budget'
<1>1. task \in [Launches -> TaskType]
  BY DEF Typed, TypeOK
<1>2. task'[t] = rec /\ \A u \in Launches \ {t} : task'[u] = task[u]
  BY <1>1
<1> QED BY <1>1, <1>2 DEF Typed, Budget, BudgetOf

LEMMA NotifiedTyped ==
  ASSUME stream \in [Streams -> StreamType], NEW hit, NEW r, NotifyIf(hit, r)
  PROVE  stream' \in [Streams -> StreamType]
BY StreamsTyped DEF NotifyIf

LEMMA FinishTyped ==
  ASSUME Typed, NEW t \in Launches, NEW to \in StepStatus, FinishStep(t, to)
  PROVE  steps' \in [Runs -> Seq(StepStatus)] /\ stream' \in [Streams -> StreamType]
<1>1. steps \in [Runs -> Seq(StepStatus)] /\ stream \in [Streams -> StreamType]
  BY DEF Typed, TypeOK, StepStatus
<1>2. \/ steps' = steps
      \/ steps' = [steps EXCEPT ![task[t].run][task[t].step] = to]
  BY DEF FinishStep
<1>3. steps' \in [Runs -> Seq(StepStatus)]
  <2>1. [steps EXCEPT ![task[t].run][task[t].step] = to] \in [Runs -> Seq(StepStatus)]
    BY <1>1, StepTyped
  <2> QED BY <1>1, <1>2, <2>1
<1>4. stream' = stream \/ stream' = Notified(task[t].run)
  BY DEF FinishStep, NotifyIf
<1> QED BY <1>1, <1>3, <1>4, StreamsTyped

LEMMA NewStepTyped ==
  ASSUME Typed, NEW t \in Launches, task[t].run \in Runs, NewStep(t)
  PROVE  /\ steps' \in [Runs -> Seq(StepStatus)] /\ stream' \in [Streams -> StreamType]
         /\ Len(steps[task[t].run]) + 1 \in Nat
<1>1. steps \in [Runs -> Seq(StepStatus)] /\ stream \in [Streams -> StreamType]
  BY DEF Typed, TypeOK, StepStatus
<1>2. Append(steps[task[t].run], "running") \in Seq(StepStatus)
  BY <1>1 DEF StepStatus, Open
<1>3. steps' = [steps EXCEPT ![task[t].run] = Append(steps[task[t].run], "running")]
      /\ stream' = Notified(task[t].run)
  BY DEF NewStep, NotifyIf
<1>4. steps' \in [Runs -> Seq(StepStatus)]
  BY <1>1, <1>2, <1>3
<1>5. Len(steps[task[t].run]) \in Nat
  BY <1>1
<1> QED BY <1>1, <1>3, <1>4, <1>5, StreamsTyped

LEMMA TypeRounds ==
  ASSUME Typed, Aimed, NEW t \in Launches,
         TaskStart(t) \/ TaskPrepare(t) \/ TaskBegin(t) \/ TaskTurn(t) \/ TaskError(t)
         \/ TaskStopped(t) \/ TaskCall(t) \/ TaskObserve(t) \/ TaskAsk(t)
  PROVE  Typed'
<1> USE DEF boundVars, dbVars
<1>0. /\ run \in [Runs -> RunType] /\ stream \in [Streams -> StreamType]
      /\ task \in [Launches -> TaskType] /\ task[t] \in TaskType /\ BudgetOf(task[t])
  BY DEF Typed, TypeOK, Budget, BudgetOf
<1>c. /\ \A pc \in TaskPc : Out(t, pc) \in TaskType
      /\ \A pc \in {"commit", "fail", "cancel"} : BudgetOf(Out(t, pc))
      /\ \A calls \in Seq({"tool", "ask"}) :
             Continued(t, calls) \in TaskType /\ BudgetOf(Continued(t, calls))
      /\ {"commit", "fail", "cancel"} \subseteq TaskPc
  BY NextTaskTyped DEF TaskPc, Loop
<1>1. CASE TaskStart(t)
  <2>1. [task[t] EXCEPT !.pc = "prepare"] \in TaskType
        /\ BudgetOf([task[t] EXCEPT !.pc = "prepare"])
    BY <1>0 DEF TaskType, TaskPc, Loop, BudgetOf
  <2>2. task' = [task EXCEPT ![t] = [task[t] EXCEPT !.pc = "prepare"]]
    BY <1>1, <1>0 DEF TaskStart, TaskGoes
  <2>3. task' \in [Launches -> TaskType] /\ Budget'
    BY <2>1, <2>2, TaskTyped
  <2>4. run' \in [Runs -> RunType] /\ stream' \in [Streams -> StreamType]
    <3>1. \/ RunGoes(task[t].run, "running") /\ NotifyIf(TRUE, task[t].run)
          \/ run' = run /\ stream' = stream
      BY <1>1 DEF TaskStart, MarkRunning
    <3>2. "running" \in {"none"} \cup Active \cup Final
      BY DEF Active
    <3> QED BY <3>2, <3>1, <1>0, NotifiedTyped, GoesTyped DEF Active
  <2> QED BY <1>1, <2>3, <2>4 DEF TaskStart, Typed, TypeOK
<1>2. CASE TaskPrepare(t)
  <2>1. Continued(t, <<>>) \in TaskType /\ BudgetOf(Continued(t, <<>>))
    <3>1. <<>> \in Seq({"tool", "ask"})
      OBVIOUS
    <3> QED BY <1>c, <3>1
  <2>2. task' \in [Launches -> TaskType] /\ Budget'
    BY <1>2, <2>1, TaskTyped DEF TaskPrepare
  <2> QED BY <1>2, <2>2 DEF TaskPrepare, Typed, TypeOK
<1>3. CASE TaskBegin(t)
  <2>1. task[t].run \in Runs /\ task[t].pc = "begin"
    BY <1>3 DEF TaskBegin, TaskAt, Aimed
  <2>2. steps' \in [Runs -> Seq(StepStatus)] /\ stream' \in [Streams -> StreamType]
        /\ Len(steps[task[t].run]) + 1 \in Nat
    BY <1>3, <2>1, NewStepTyped DEF TaskBegin
  <2> DEFINE rec == [task[t] EXCEPT !.pc = "model", !.round = @ + 1,
                                    !.step = Len(steps[task[t].run]) + 1]
  <2>3. task' = [task EXCEPT ![t] = rec]
    BY <1>3, <1>0 DEF TaskBegin
  <2>4. task[t].round + 1 \in 0..MaxRounds
    BY <2>1, <1>0, BoundsAssumption DEF BudgetOf, TaskType
  <2>5. rec \in TaskType /\ BudgetOf(rec)
    BY <2>2, <2>4, <1>0 DEF TaskType, TaskPc, Loop, BudgetOf
  <2>6. task' \in [Launches -> TaskType] /\ Budget'
    <3> HIDE DEF rec
    <3> QED BY <2>3, <2>5, TaskTyped
  <2> QED BY <1>3, <2>2, <2>6 DEF TaskBegin, Typed, TypeOK, StepStatus
<1>4. CASE TaskTurn(t)
  <2>1. steps' \in [Runs -> Seq(StepStatus)] /\ stream' \in [Streams -> StreamType]
    BY <1>4, FinishTyped DEF TaskTurn, StepStatus
  <2>2. PICK rec : /\ task' = [task EXCEPT ![t] = rec]
                   /\ rec = Out(t, "commit")
                      \/ \E turn \in Turns : rec = Continued(t, turn)
    BY <1>4 DEF TaskTurn
  <2>3. rec \in TaskType /\ BudgetOf(rec)
    BY <2>2, <1>c, TurnsAssumption
  <2>4. task' \in [Launches -> TaskType] /\ Budget'
    BY <2>2, <2>3, TaskTyped
  <2> QED BY <1>4, <2>1, <2>4 DEF TaskTurn, Typed, TypeOK, StepStatus
<1>5. CASE TaskError(t)
  <2>1. steps' \in [Runs -> Seq(StepStatus)] /\ stream' \in [Streams -> StreamType]
    BY <1>5, FinishTyped DEF TaskError, StepStatus
  <2>2. task' \in [Launches -> TaskType] /\ Budget'
    BY <1>5, <1>c, TaskTyped DEF TaskError
  <2> QED BY <1>5, <2>1, <2>2 DEF TaskError, Typed, TypeOK, StepStatus
<1>6. CASE TaskStopped(t)
  <2>1. steps' \in [Runs -> Seq(StepStatus)] /\ stream' \in [Streams -> StreamType]
    BY <1>6, FinishTyped DEF TaskStopped, StepStatus
  <2>2. task' \in [Launches -> TaskType] /\ Budget'
    BY <1>6, <1>c, TaskTyped DEF TaskStopped
  <2> QED BY <1>6, <2>1, <2>2 DEF TaskStopped, Typed, TypeOK, StepStatus
<1>7. CASE TaskCall(t)
  <2>1. task[t].run \in Runs /\ task[t].pc = "call"
    BY <1>7 DEF TaskCall, TaskAt, Aimed
  <2>2. steps' \in [Runs -> Seq(StepStatus)] /\ stream' \in [Streams -> StreamType]
        /\ Len(steps[task[t].run]) + 1 \in Nat
    BY <1>7, <2>1, NewStepTyped DEF TaskCall
  <2> DEFINE rec == [task[t] EXCEPT !.pc = "tool", !.step = Len(steps[task[t].run]) + 1]
  <2>3. task' = [task EXCEPT ![t] = rec]
    BY <1>7, <1>0 DEF TaskCall
  <2>5. rec \in TaskType /\ BudgetOf(rec)
    BY <2>1, <2>2, <1>0 DEF TaskType, TaskPc, Loop, BudgetOf
  <2>6. task' \in [Launches -> TaskType] /\ Budget'
    <3> HIDE DEF rec
    <3> QED BY <2>3, <2>5, TaskTyped
  <2> QED BY <1>7, <2>2, <2>6 DEF TaskCall, Typed, TypeOK, StepStatus
<1>8. CASE TaskObserve(t)
  <2>1. steps' \in [Runs -> Seq(StepStatus)] /\ stream' \in [Streams -> StreamType]
    BY <1>8, FinishTyped DEF TaskObserve, StepStatus
  <2>2. task[t].pc = "tool" /\ task[t].calls \in Seq({"tool", "ask"})
        /\ task[t].calls # <<>>
    BY <1>8, <1>0 DEF TaskObserve, TaskAt, TaskType, BudgetOf
  <2>3. Tail(task[t].calls) \in Seq({"tool", "ask"})
    BY <2>2
  <2>4. task' = [task EXCEPT ![t] = Continued(t, Tail(task[t].calls))]
    BY <1>8 DEF TaskObserve
  <2>5. task' \in [Launches -> TaskType] /\ Budget'
    BY <2>3, <2>4, <1>c, TaskTyped
  <2> QED BY <1>8, <2>1, <2>5 DEF TaskObserve, Typed, TypeOK, StepStatus
<1>9. CASE TaskAsk(t)
  <2>1. steps' \in [Runs -> Seq(StepStatus)] /\ stream' \in [Streams -> StreamType]
    BY <1>9, FinishTyped DEF TaskAsk, StepStatus, Open
  <2> DEFINE rec == [task[t] EXCEPT !.pc = "ask", !.calls = <<>>]
  <2>2. task' = [task EXCEPT ![t] = rec]
    BY <1>9, <1>0 DEF TaskAsk
  <2>3. rec \in TaskType /\ BudgetOf(rec)
    <3>1. <<>> \in Seq({"tool", "ask"}) /\ "ask" \in TaskPc
      BY DEF TaskPc, Loop
    <3>2. rec \in TaskType
      BY <3>1, <1>0 DEF TaskType
    <3>3. rec.pc = "ask"
      BY <1>0 DEF TaskType
    <3> QED BY <3>2, <3>3 DEF BudgetOf
  <2>4. task' \in [Launches -> TaskType] /\ Budget'
    <3> HIDE DEF rec
    <3> QED BY <2>2, <2>3, TaskTyped
  <2> QED BY <1>9, <2>1, <2>4 DEF TaskAsk, Typed, TypeOK, StepStatus
<1> QED BY <1>1, <1>2, <1>3, <1>4, <1>5, <1>6, <1>7, <1>8, <1>9

\* The task's own record, wherever a step outside the loop leaves it.
LEMMA OutcomeTyped ==
  ASSUME Typed, NEW t \in Launches, NEW from \in TaskPc,
         NEW to \in TaskPc \ (Loop \cup {"idle"}),
         TaskGoes(t, from, to) \/ TaskExits(t, from, to)
  PROVE  task' \in [Launches -> TaskType] /\ Budget'
<1>0. task \in [Launches -> TaskType] /\ task[t] \in TaskType
  BY DEF Typed, TypeOK
<1>1. CASE TaskGoes(t, from, to)
  <2>1. [task[t] EXCEPT !.pc = to] \in TaskType /\ [task[t] EXCEPT !.pc = to].pc = to
    BY <1>0 DEF TaskType
  <2>2. BudgetOf([task[t] EXCEPT !.pc = to])
    BY <2>1 DEF BudgetOf, Loop
  <2>3. task' = [task EXCEPT ![t] = [task[t] EXCEPT !.pc = to]]
    BY <1>1, <1>0 DEF TaskGoes
  <2> QED BY <2>1, <2>2, <2>3, TaskTyped
<1>2. CASE TaskExits(t, from, to)
  BY <1>2, NextTaskTyped, TaskTyped DEF TaskExits
<1> QED BY <1>1, <1>2

LEMMA TypeOutcomes ==
  ASSUME Typed, Aimed, NEW t \in Launches,
         TaskWait(t) \/ TaskCommit(t) \/ TaskFail(t) \/ TaskFailSteps(t) \/ TaskCancel(t)
         \/ TaskCancelSteps(t) \/ TaskTimeout(t) \/ TaskLeave(t) \/ TaskStream(t)
         \/ TaskFault(t)
  PROVE  Typed'
<1> USE DEF boundVars, dbVars
<1>0. /\ run \in [Runs -> RunType] /\ stream \in [Streams -> StreamType]
      /\ steps \in [Runs -> Seq(StepStatus)] /\ msgs \in Seq(MessageType)
      /\ task \in [Launches -> TaskType] /\ task[t] \in TaskType
      /\ Notified(task[t].run) \in [Streams -> StreamType]
      /\ Finished(task[t].run) \in [Streams -> StreamType]
  BY StreamsTyped DEF Typed, TypeOK, StepStatus
<1>p. /\ {"ask", "commit", "fail", "failsteps", "cancel", "cancelsteps"} \subseteq TaskPc
      /\ {"leave", "failsteps", "cancelsteps", "fail", "done"}
             \subseteq TaskPc \ (Loop \cup {"idle"})
      /\ Loop \subseteq TaskPc
  BY DEF TaskPc, Loop
<1>s. {"waiting_user", "failed", "canceled"} \subseteq {"none"} \cup Active \cup Final
  BY DEF Active, Final
<1>1. CASE TaskWait(t)
  <2>1. task' \in [Launches -> TaskType] /\ Budget'
    BY <1>1, <1>p, OutcomeTyped DEF TaskWait
  <2>2. run' = run \/ RunGoes(task[t].run, "waiting_user")
    BY <1>1 DEF TaskWait
  <2>3. run' \in [Runs -> RunType]
    BY <2>2, <1>0, <1>s, GoesTyped
  <2>4. stream' \in [Streams -> StreamType]
    BY <1>1, <1>0 DEF TaskWait, NotifyIf
  <2> QED BY <1>1, <2>1, <2>3, <2>4 DEF TaskWait, Typed, TypeOK
<1>2. CASE TaskCommit(t)
  <2>1. task' \in [Launches -> TaskType] /\ Budget'
    BY <1>2, <1>p, OutcomeTyped DEF TaskCommit
  <2>2. CASE CanComplete(task[t].run)
    <3>1. task[t].run \in Runs
      BY <1>2 DEF TaskCommit, TaskGoes, TaskAt, Aimed
    <3>2. Message("assistant", task[t].run) \in MessageType
      BY <3>1 DEF Message, MessageType
    <3>3. msgs' \in Seq(MessageType)
      <4>1. msgs' = Append(msgs, Message("assistant", task[t].run))
        BY <1>2, <2>2 DEF TaskCommit
      <4> QED BY <4>1, <3>2, <1>0, AppendProperties
    <3>4. Len(msgs) + 1 \in Nat
      BY <1>0
    <3>5. run' \in [Runs -> RunType]
      <4>1. run' = [run EXCEPT ![task[t].run].status = "completed",
                               ![task[t].run].answer = Len(msgs) + 1]
        BY <1>2, <2>2 DEF TaskCommit
      <4>2. run[task[t].run] \in RunType
        BY <1>0, <3>1
      <4>3. [run[task[t].run] EXCEPT !.status = "completed", !.answer = Len(msgs) + 1]
                \in RunType
        BY <3>4, <4>2 DEF RunType, Final
      <4> QED BY <4>1, <4>3, <1>0
    <3>6. stream' \in [Streams -> StreamType]
      BY <1>2, <2>2, <1>0 DEF TaskCommit
    <3> QED BY <1>2, <2>1, <3>3, <3>5, <3>6 DEF TaskCommit, Typed, TypeOK
  <2>3. CASE ~CanComplete(task[t].run)
    BY <1>2, <2>1, <2>3 DEF TaskCommit, Typed, TypeOK
  <2> QED BY <2>2, <2>3
<1>3. CASE TaskFail(t)
  <2>1. task' \in [Launches -> TaskType] /\ Budget'
    BY <1>3, <1>p, OutcomeTyped DEF TaskFail
  <2>2. run' = run \/ RunGoes(task[t].run, "failed")
    BY <1>3 DEF TaskFail
  <2>3. run' \in [Runs -> RunType]
    BY <2>2, <1>0, <1>s, GoesTyped
  <2> QED BY <1>3, <2>1, <2>3 DEF TaskFail, Typed, TypeOK
<1>4. CASE TaskFailSteps(t)
  <2>1. task' \in [Launches -> TaskType] /\ Budget'
    BY <1>4, <1>p, OutcomeTyped DEF TaskFailSteps
  <2>2. steps' \in [Runs -> Seq(StepStatus)]
    BY <1>4, <1>0, ClosedTyped DEF TaskFailSteps, CloseSteps
  <2> QED BY <1>4, <1>0, <2>1, <2>2 DEF TaskFailSteps, Typed, TypeOK, StepStatus
<1>5. CASE TaskCancel(t)
  <2>1. task' \in [Launches -> TaskType] /\ Budget'
    BY <1>5, <1>p, OutcomeTyped DEF TaskCancel
  <2>2. run' = run \/ RunGoes(task[t].run, "canceled")
    BY <1>5 DEF TaskCancel, MarkCanceled
  <2>3. run' \in [Runs -> RunType]
    BY <2>2, <1>0, <1>s, GoesTyped
  <2> QED BY <1>5, <2>1, <2>3 DEF TaskCancel, Typed, TypeOK
<1>6. CASE TaskCancelSteps(t)
  <2>1. task' \in [Launches -> TaskType] /\ Budget'
    BY <1>6, <1>p, OutcomeTyped DEF TaskCancelSteps
  <2>2. steps' \in [Runs -> Seq(StepStatus)]
    BY <1>6, <1>0, ClosedTyped DEF TaskCancelSteps, CancelTail, CloseSteps
  <2> QED BY <1>6, <1>0, <2>1, <2>2 DEF TaskCancelSteps, CancelTail, Typed, TypeOK, StepStatus
<1>7. CASE TaskTimeout(t)
  <2>1. task' \in [Launches -> TaskType] /\ Budget'
    BY <1>7, <1>p, OutcomeTyped DEF TaskTimeout
  <2>2. steps' \in [Runs -> Seq(StepStatus)]
    BY <1>7, <1>0, ClosedTyped DEF TaskTimeout, CloseSteps
  <2> QED BY <1>7, <2>1, <2>2 DEF TaskTimeout, Typed, TypeOK, StepStatus
<1>8. CASE TaskLeave(t)
  <2>1. task' \in [Launches -> TaskType] /\ Budget'
    BY <1>8, <1>p, NextTaskTyped, TaskTyped DEF TaskLeave
  <2>2. controls' \in [Runs -> Launches \cup {None}]
    BY <1>8 DEF TaskLeave, Typed, TypeOK
  <2> QED BY <1>8, <1>0, <2>1, <2>2 DEF TaskLeave, Typed, TypeOK
<1>9. CASE TaskStream(t)
  <2>1. stream' \in [Streams -> StreamType]
    BY <1>9, <1>0 DEF TaskStream, NotifyIf
  <2> QED BY <1>9, <2>1 DEF TaskStream, Typed, TypeOK, Budget
<1>10. CASE TaskFault(t)
  <2>1. PICK pc \in TaskPc : TaskExits(t, pc, AfterFault(pc))
    BY <1>10 DEF TaskFault
  <2>2. AfterFault(pc) \in {"fail", "leave"}
    BY DEF AfterFault
  <2>3. task' \in [Launches -> TaskType] /\ Budget'
    BY <1>p, <2>1, <2>2, OutcomeTyped
  <2>4. faults' \in Nat
    BY <1>10 DEF TaskFault, Typed, TypeOK
  <2> QED BY <1>10, <2>3, <2>4 DEF TaskFault, Typed, TypeOK
<1> QED BY <1>1, <1>2, <1>3, <1>4, <1>5, <1>6, <1>7, <1>8, <1>9, <1>10

LEMMA TypeStreams ==
  ASSUME Typed, NEW s \in Streams, (\E r \in Runs : StreamOpen(s, r)) \/ StreamStep(s)
  PROVE  Typed'
<1> USE DEF boundVars, dbVars
<1>0. stream \in [Streams -> StreamType] /\ stream[s] \in StreamType
      /\ StreamEnded \in StreamType
  BY DEF Typed, TypeOK, StreamType, StreamEnded, NoStream
<1>1. stream' \in [Streams -> StreamType]
  <2>1. ASSUME NEW r \in Runs, StreamOpen(s, r) PROVE stream' \in [Streams -> StreamType]
    <3>1. [stream[s] EXCEPT !.pc = "subscribe", !.run = r] \in StreamType
      BY <1>0 DEF StreamType
    <3> QED BY <2>1, <3>1, <1>0 DEF StreamOpen
  <2>2. CASE StreamSubscribe(s)
    <3>1. [stream[s] EXCEPT !.pc = "reread", !.live = TRUE] \in StreamType
      BY <1>0 DEF StreamType
    <3> QED BY <2>2, <3>1, <1>0 DEF StreamSubscribe
  <2>3. CASE StreamReread(s)
    <3>1. [stream[s] EXCEPT !.pc = "wait"] \in StreamType
      BY <1>0 DEF StreamType
    <3>2. [Finished(stream[s].run) EXCEPT ![s] = StreamEnded] \in [Streams -> StreamType]
      BY <1>0, StreamsTyped
    <3> QED BY <2>3, <3>1, <3>2, <1>0 DEF StreamReread
  <2>4. CASE StreamPush(s)
    <3>1. [stream[s] EXCEPT !.dirty = FALSE] \in StreamType
      BY <1>0 DEF StreamType
    <3> QED BY <2>4, <3>1, <1>0 DEF StreamPush
  <2>5. CASE StreamLast(s)
    BY <2>5, <1>0 DEF StreamLast
  <2> QED BY <2>1, <2>2, <2>3, <2>4, <2>5 DEF StreamStep
<1> QED BY <1>1 DEF StreamOpen, StreamStep, StreamSubscribe, StreamReread, StreamPush,
                    StreamLast, Typed, TypeOK, Budget

LEMMA TypeEnds ==
  ASSUME Typed, (\E q \in Requests : Abandon(q)) \/ Restart
  PROVE  Typed'
<1> USE DEF boundVars, dbVars
<1>0. /\ req \in [Requests -> RequestType] /\ run \in [Runs -> RunType]
      /\ steps \in [Runs -> Seq(StepStatus)]
      /\ task \in [Launches -> TaskType] /\ stream \in [Streams -> StreamType]
      /\ drops \in Nat /\ crashes \in Nat
  BY DEF Typed, TypeOK, StepStatus
<1>1. ASSUME NEW q \in Requests, Abandon(q) PROVE Typed'
  <2>1. req' \in [Requests -> RequestType]
    BY <1>1, <1>0, RequestTyped DEF Abandon
  <2>2. drops' \in Nat
    BY <1>1, <1>0 DEF Abandon
  <2> QED BY <1>1, <2>1, <2>2 DEF Abandon, Typed, TypeOK, Budget
<1>2. CASE Restart
  <2>1. req' \in [Requests -> RequestType]
    <3>1. [NoRequest EXCEPT !.pc = "done"] \in RequestType
      BY DEF NoRequest, RequestType, ReqPc
    <3> QED BY <1>2, <3>1, <1>0 DEF Restart, Ended
  <2>2. run' \in [Runs -> RunType]
    <3>1. ASSUME NEW r \in Runs PROVE [run[r] EXCEPT !.status = Recovered(r)] \in RunType
      <4>1. run[r] \in RunType
        BY <1>0
      <4>2. Recovered(r) \in {"none"} \cup Active \cup Final
        BY <4>1 DEF Recovered, Status, RunType, Final
      <4> QED BY <4>1, <4>2 DEF RunType
    <3> QED BY <1>2, <3>1 DEF Restart
  <2>3. steps' \in [Runs -> Seq(StepStatus)]
    <3>1. ASSUME NEW r \in Runs
          PROVE  [i \in DOMAIN steps[r] |-> IF steps[r][i] = "running" THEN "closed"
                                            ELSE steps[r][i]] \in Seq(StepStatus)
      <4>1. steps[r] \in Seq(StepStatus)
        BY <1>0
      <4> QED BY <4>1 DEF StepStatus
    <3> QED BY <1>2, <3>1 DEF Restart
  <2>4. task' \in [Launches -> TaskType] /\ Budget'
    <3>1. ASSUME NEW t \in Launches
          PROVE  task'[t] \in TaskType /\ task'[t].pc \in {"idle", "done"}
      <4>1. NoTask \in TaskType /\ NoTask.pc = "idle"
        BY BoundsAssumption DEF NoTask, TaskType, TaskPc
      <4>2. Out(t, "done") \in TaskType /\ Out(t, "done").pc = "done"
        <5>1. Out(t, "done") \in TaskType
          BY NextTaskTyped DEF TaskPc
        <5> QED BY <5>1 DEF Out, NoTask
      <4> QED BY <1>2, <4>1, <4>2 DEF Restart
    <3>2. task' = [t \in Launches |-> task'[t]]
      BY <1>2 DEF Restart
    <3> QED BY <3>1, <3>2 DEF Budget
  <2>5. controls' \in [Runs -> Launches \cup {None}]
    BY <1>2 DEF Restart
  <2>6. stream' \in [Streams -> StreamType]
    <3>1. NoStream \in StreamType /\ StreamEnded \in StreamType
      BY DEF NoStream, StreamEnded, StreamType
    <3> QED BY <1>2, <3>1 DEF Restart
  <2>7. crashes' \in Nat
    BY <1>2, <1>0 DEF Restart
  <2> QED BY <1>2, <2>1, <2>2, <2>3, <2>4, <2>5, <2>6, <2>7
          DEF Restart, Typed, TypeOK, StepStatus
<1> QED BY <1>1, <1>2

-----------------------------------------------------------------------------
(* What the steps of a task, of a request and of a restart may change.     *)

\* A task that moves keeps its run, and no step takes it back into the loop.
TaskMoves(t) ==
  /\ task[t].pc \notin {"idle", "done"}
  /\ \A u \in Launches \ {t} : task'[u] = task[u]
  /\ task'[t].run = task[t].run /\ task'[t].pc # "idle"
  /\ Driving(t)' => Driving(t)
  /\ req' = req

LEMMA TaskMove ==
  ASSUME Typed, NEW t \in Launches, TaskStep(t) \/ TaskFault(t) \/ TaskStream(t)
  PROVE  TaskMoves(t)
<1> DEFINE Fits(rec) == /\ rec.run = task[t].run /\ rec.pc # "idle"
                        /\ rec.pc \in {"start"} \cup Loop => Driving(t)
<1>0. task \in [Launches -> TaskType] /\ task[t] \in TaskType
  BY DEF Typed, TypeOK
<1>1. req' = req
  BY DEF TaskStep, TaskStart, TaskPrepare, TaskBegin, TaskTurn, TaskError, TaskStopped,
         TaskCall, TaskObserve, TaskAsk, TaskWait, TaskCommit, TaskFail, TaskFailSteps,
         TaskCancel, TaskCancelSteps, TaskTimeout, TaskLeave, TaskFault, TaskStream, dbVars
<1>2. task[t].pc \notin {"idle", "done"}
  BY DEF TaskStep, TaskStart, TaskPrepare, TaskBegin, TaskTurn, TaskError, TaskStopped,
         TaskCall, TaskObserve, TaskAsk, TaskWait, TaskCommit, TaskFail, TaskFailSteps,
         TaskCancel, TaskCancelSteps, TaskTimeout, TaskLeave, TaskFault, TaskStream,
         TaskAt, TaskGoes, TaskExits, Loop
<1>o. \A pc \in {"commit", "fail", "cancel", "leave", "done"} : Fits(Out(t, pc))
  BY DEF Out, NoTask, Loop
<1>c. \A calls : Driving(t) => Fits(Continued(t, calls))
  BY <1>0 DEF Continued, TaskType, Out, NoTask, Loop
<1>3. \E rec : task' = [task EXCEPT ![t] = rec] /\ Fits(rec)
  <2>1. CASE TaskStart(t)
    <3>1. Fits([task[t] EXCEPT !.pc = "prepare"])
      BY <2>1, <1>0 DEF TaskStart, TaskGoes, TaskAt, TaskType, Driving
    <3>2. task' = [task EXCEPT ![t] = [task[t] EXCEPT !.pc = "prepare"]]
      BY <2>1, <1>0 DEF TaskStart, TaskGoes
    <3> QED BY <3>1, <3>2
  <2>2. CASE TaskPrepare(t) \/ TaskObserve(t) \/ TaskTurn(t)
    <3>1. Driving(t)
      BY <2>2 DEF TaskPrepare, TaskObserve, TaskTurn, TaskAt, Driving, Loop
    <3>2. \/ \E calls : task' = [task EXCEPT ![t] = Continued(t, calls)]
          \/ task' = [task EXCEPT ![t] = Out(t, "commit")]
      BY <2>2 DEF TaskPrepare, TaskObserve, TaskTurn
    <3> HIDE DEF Fits
    <3> QED BY <3>1, <3>2, <1>o, <1>c
  <2>3. CASE TaskError(t) \/ TaskStopped(t) \/ TaskLeave(t) \/ TaskWait(t) \/ TaskTimeout(t)
             \/ TaskFault(t)
    <3>1. \E pc \in {"fail", "cancel", "leave", "done"} :
              task' = [task EXCEPT ![t] = Out(t, pc)]
      BY <2>3 DEF TaskError, TaskStopped, TaskLeave, TaskWait, TaskTimeout, TaskFault,
                  TaskExits, AfterFault
    <3> HIDE DEF Fits
    <3> QED BY <3>1, <1>o
  <2>4. CASE TaskBegin(t)
    <3> DEFINE rec == [task[t] EXCEPT !.pc = "model", !.round = @ + 1,
                                      !.step = Len(steps[task[t].run]) + 1]
    <3>1. Fits(rec) /\ task' = [task EXCEPT ![t] = rec]
      BY <2>4, <1>0 DEF TaskBegin, TaskAt, TaskType, Driving, Loop
    <3> QED BY <3>1
  <2>5. CASE TaskCall(t)
    <3> DEFINE rec == [task[t] EXCEPT !.pc = "tool", !.step = Len(steps[task[t].run]) + 1]
    <3>1. Fits(rec) /\ task' = [task EXCEPT ![t] = rec]
      BY <2>5, <1>0 DEF TaskCall, TaskAt, TaskType, Driving, Loop
    <3> QED BY <3>1
  <2>6. CASE TaskAsk(t)
    <3> DEFINE rec == [task[t] EXCEPT !.pc = "ask", !.calls = <<>>]
    <3>1. Fits(rec) /\ task' = [task EXCEPT ![t] = rec]
      BY <2>6, <1>0 DEF TaskAsk, TaskAt, TaskType, Driving, Loop
    <3> QED BY <3>1
  <2>7. CASE TaskCommit(t) \/ TaskFail(t) \/ TaskFailSteps(t) \/ TaskCancel(t)
             \/ TaskCancelSteps(t)
    <3>1. PICK pc \in {"leave", "failsteps", "cancelsteps"} :
              task' = [task EXCEPT ![t].pc = pc]
      BY <2>7 DEF TaskCommit, TaskFail, TaskFailSteps, TaskCancel, TaskCancelSteps, TaskGoes
    <3>2. Fits([task[t] EXCEPT !.pc = pc])
      BY <1>0 DEF TaskType, Loop
    <3>3. task' = [task EXCEPT ![t] = [task[t] EXCEPT !.pc = pc]]
      BY <3>1, <1>0
    <3> HIDE DEF Fits
    <3> QED BY <3>2, <3>3
  <2>8. CASE TaskStream(t)
    <3>1. task' = [task EXCEPT ![t] = task[t]] /\ Driving(t)
      BY <2>8, <1>0 DEF TaskStream, TaskAt, Driving, Loop
    <3> QED BY <3>1, <1>2 DEF Driving
  <2> HIDE DEF Fits
  <2> QED BY <2>1, <2>2, <2>3, <2>4, <2>5, <2>6, <2>7, <2>8 DEF TaskStep
<1>4. PICK rec : task' = [task EXCEPT ![t] = rec] /\ Fits(rec)
  BY <1>3
<1>5. task'[t] = rec /\ \A u \in Launches \ {t} : task'[u] = task[u]
  BY <1>4, <1>0
<1> QED BY <1>1, <1>2, <1>4, <1>5 DEF TaskMoves, Driving

\* The next-state relation, by the actor that takes the step.
LEMMA NextCases ==
  ASSUME [Next]_vars
  PROVE  \/ \E r \in Runs : CheckStart(r) \/ CheckRegenerate(r) \/ CheckRetry(r)
                           \/ InsertRun(r) \/ InsertConflict(r)
         \/ \E q \in Launches : Launch(q)
         \/ \E a \in Answers : (\E r \in Runs : CheckAnswer(a, r))
                              \/ AnswerStep(a) \/ AnswerConflict(a) \/ AnswerResume(a)
         \/ \E c \in Cancels : (\E r \in Runs : CheckCancel(c, r)) \/ CancelRequest(c)
         \/ \E e \in Edits : CheckArchive(e) \/ (\E c \in Contexts : CheckRebind(e, c))
                            \/ Archive(e) \/ Rebind(e)
         \/ \E c \in Contexts : EditTable(c)
         \/ \E t \in Launches : TaskStep(t) \/ TaskFault(t) \/ TaskStream(t)
         \/ \E s \in Streams : (\E r \in Runs : StreamOpen(s, r)) \/ StreamStep(s)
         \/ \E q \in Requests : Abandon(q)
         \/ Restart
         \/ UNCHANGED vars
BY DEF Next, Users, CreateStep, AnswerRequest, EditRequest, Launches

LEMMA TypeNext == ASSUME Typed, Aimed, [Next]_vars PROVE Typed'
<1>1. ASSUME NEW t \in Launches, TaskStep(t) \/ TaskFault(t) \/ TaskStream(t) PROVE Typed'
  BY <1>1, TypeRounds, TypeOutcomes DEF TaskStep
<1>2. CASE UNCHANGED vars
  BY <1>2 DEF vars, dbVars, boundVars, Typed, TypeOK, Budget
<1> QED BY <1>1, <1>2, NextCases, TypeCreators, TypeLaunch, TypeAnswers, TypeCancels,
           TypeEdits, TypeEditTable, TypeRebind, TypeStreams, TypeEnds

LEMMA AimedNext == ASSUME Typed, Aimed, [Next]_vars PROVE Aimed'
<1> USE DEF boundVars, dbVars
<1>0. /\ req \in [Requests -> RequestType] /\ task \in [Launches -> TaskType]
      /\ Runs \cap Answers = {} /\ Launches \cap (Cancels \cup Edits) = {}
      /\ Cancels \cap Edits = {} /\ Answers \subseteq Launches /\ Runs \subseteq Launches
      /\ Requests = Launches \cup Cancels \cup Edits
  BY DistinctAssumption DEF Typed, TypeOK, Launches, Requests
<1>1. ASSUME NEW t \in Launches, TaskStep(t) \/ TaskFault(t) \/ TaskStream(t) PROVE Aimed'
  <2>1. TaskMoves(t)
    BY <1>1, TaskMove
  <2> QED BY <2>1 DEF TaskMoves, Aimed
<1>2. ASSUME NEW q \in Launches, Launch(q) PROVE Aimed'
  <2>1. RunOf(q) \in Runs
    BY <1>2, TypeLaunch
  <2>2. \A t \in Launches : \/ task'[t].run = task[t].run /\ task'[t].pc = task[t].pc
                            \/ task'[t].run = RunOf(q)
    BY <1>2, <1>0 DEF Launch, NoTask
  <2>3. \A p \in Requests : req'[p] = req[p] \/ req'[p].pc = "done"
    BY <1>2, <1>0 DEF Launch, ReqEnds, NoRequest
  <2> QED BY <1>0, <2>1, <2>2, <2>3 DEF Aimed
<1>3. ASSUME NEW r \in Runs,
             CheckStart(r) \/ CheckRegenerate(r) \/ CheckRetry(r) \/ InsertRun(r)
             \/ InsertConflict(r)
      PROVE  Aimed'
  <2>1. task' = task
    BY <1>3 DEF CheckStart, CheckRegenerate, CheckRetry, InsertRun, InsertConflict
  <2>2. \A p \in Requests \ {r} : req'[p] = req[p]
    BY <1>3, <1>0 DEF CheckStart, CheckRegenerate, CheckRetry, InsertRun, InsertConflict,
                      ReqGoes, ReqEnds
  <2> QED BY <2>1, <2>2, <1>0 DEF Aimed
<1>4. ASSUME NEW a \in Answers,
             (\E r \in Runs : CheckAnswer(a, r))
             \/ AnswerStep(a) \/ AnswerConflict(a) \/ AnswerResume(a)
      PROVE  Aimed'
  <2>1. task' = task
    BY <1>4 DEF CheckAnswer, AnswerStep, AnswerConflict, AnswerResume
  <2>2. \A p \in Requests \ {a} : req'[p] = req[p]
    BY <1>4, <1>0 DEF CheckAnswer, AnswerStep, AnswerConflict, AnswerResume, ReqGoes, ReqEnds
  <2>3. req'[a].pc = "done" \/ req'[a].run \in Runs
    <3>1. req[a] \in RequestType
      BY <1>0
    <3>2. ASSUME NEW r \in Runs, CheckAnswer(a, r) PROVE req'[a].run \in Runs
      BY <3>1, <3>2, <1>0 DEF CheckAnswer, RequestType
    <3>3. CASE AnswerStep(a) \/ AnswerResume(a)
      <4>1. /\ req[a].pc \in {"answer", "resume"}
            /\ \E pc : req' = [req EXCEPT ![a].pc = pc]
        BY <3>3 DEF AnswerStep, AnswerResume, ReqGoes, At
      <4>2. req'[a].run = req[a].run
        BY <4>1, <3>1, <1>0 DEF RequestType
      <4> QED BY <4>1, <4>2 DEF Aimed
    <3>4. CASE AnswerConflict(a)
      BY <3>4, <1>0 DEF AnswerConflict, ReqEnds, NoRequest
    <3> QED BY <1>4, <3>2, <3>3, <3>4
  <2> QED BY <2>1, <2>2, <2>3, <1>0 DEF Aimed
<1>5. ASSUME NEW c \in Cancels, (\E r \in Runs : CheckCancel(c, r)) \/ CancelRequest(c)
      PROVE  Aimed'
  <2>1. \A t \in Launches : task'[t].run = task[t].run /\ task'[t].pc = task[t].pc
    <3>1. task' = task \/ \E t : task' = [task EXCEPT ![t].canceled = TRUE]
      BY <1>5 DEF CheckCancel, CancelRequest, CancelSignal, CancelMark, CancelSteps
    <3>2. \A t \in Launches : task[t] \in TaskType
      BY <1>0
    <3>3. ASSUME NEW u, task' = [task EXCEPT ![u].canceled = TRUE]
          PROVE  \A t \in Launches : task'[t].run = task[t].run /\ task'[t].pc = task[t].pc
      BY <3>2, <3>3, <1>0 DEF TaskType
    <3> QED BY <3>1, <3>3
  <2>2. \A p \in Requests \ {c} : req'[p] = req[p]
    BY <1>5, <1>0 DEF CheckCancel, CancelRequest, CancelSignal, CancelMark, CancelSteps,
                      ReqGoes, ReqEnds
  <2>3. req'[c].pc = "done" \/ req'[c].run \in Runs
    BY <1>5, <1>0 DEF CheckCancel, CancelRequest, CancelSignal, CancelMark, CancelSteps,
                      ReqGoes, ReqEnds, Aimed, At, RequestType, NoRequest
  <2> QED BY <2>1, <2>2, <2>3, <1>0 DEF Aimed
<1>6. ASSUME NEW e \in Edits,
             CheckArchive(e) \/ (\E c \in Contexts : CheckRebind(e, c)) \/ Archive(e)
             \/ Rebind(e)
      PROVE  Aimed'
  <2>1. task' = task
    BY <1>6 DEF CheckArchive, CheckRebind, Archive, Rebind
  <2>2. \A p \in Requests \ {e} : req'[p] = req[p]
    BY <1>6, <1>0 DEF CheckArchive, CheckRebind, Archive, Rebind, ReqGoes, ReqEnds
  <2>3. req'[e].pc = "rebind" => req'[e].ctx \in Contexts
    BY <1>6, <1>0 DEF CheckArchive, CheckRebind, Archive, Rebind, ReqGoes, ReqEnds,
                      RequestType, NoRequest
  <2> QED BY <2>1, <2>2, <2>3, <1>0 DEF Aimed
<1>7. ASSUME UNCHANGED <<req, task>> PROVE Aimed'
  BY <1>7 DEF Aimed
<1>8. ASSUME NEW c \in Contexts, EditTable(c) PROVE Aimed'
  BY <1>7, <1>8 DEF EditTable
<1>9. ASSUME NEW s \in Streams, (\E r \in Runs : StreamOpen(s, r)) \/ StreamStep(s)
      PROVE  Aimed'
  BY <1>7, <1>9 DEF StreamOpen, StreamStep, StreamSubscribe, StreamReread, StreamPush, StreamLast
<1>10. ASSUME NEW q \in Requests, Abandon(q) PROVE Aimed'
  <2>1. task' = task /\ \A p \in Requests : req'[p] = req[p] \/ req'[p].pc = "done"
    BY <1>10, <1>0 DEF Abandon, ReqEnds, NoRequest
  <2> QED BY <2>1, <1>0 DEF Aimed
<1>11. CASE Restart
  <2>1. \A q \in Requests : req'[q].pc \in {"idle", "done"}
    BY <1>11, <1>0 DEF Restart, Ended, NoRequest
  <2>2. \A t \in Launches : task'[t].pc # "idle" => task[t].pc # "idle"
                                                    /\ task'[t].run = task[t].run
    BY <1>11, <1>0 DEF Restart, Out, NoTask, TaskAt
  <2> QED BY <2>1, <2>2, <1>0 DEF Aimed
<1>12. CASE UNCHANGED vars
  BY <1>7, <1>12 DEF vars
<1> QED BY <1>1, <1>2, <1>3, <1>4, <1>5, <1>6, <1>8, <1>9, <1>10, <1>11, <1>12, NextCases

LEMMA TypeInductive == Spec => [](Typed /\ Aimed)
<1>1. Init => Typed /\ Aimed
  BY TypeInit, DistinctAssumption
     DEF Init, Aimed, NoTask, NoRequest, Requests, Launches
<1>2. Typed /\ Aimed /\ [Next]_vars => (Typed /\ Aimed)'
  BY TypeNext, AimedNext
<1> QED BY <1>1, <1>2, PTL DEF Spec

\* Type correctness: the server's rows and the tasks' records stay well formed in
\* every behaviour, and a task never spends more rounds than agent_max_steps.
THEOREM AgentTypeCorrect == Spec => []TypeOK
<1>1. Typed /\ Aimed => TypeOK
  BY DEF Typed
<1> QED BY <1>1, TypeInductive, PTL

-----------------------------------------------------------------------------
(* One run at a time, and its answer.                                      *)

\* Everything that can happen to the rows of ai_runs and ai_messages.
RunMoves ==
  \/ run' = run /\ msgs' = msgs
  \/ \E r \in Runs : InsertRun(r)
  \/ \E r \in Runs, to \in {"running", "waiting_user", "failed", "canceled"} :
         Status(r) \in Active /\ RunGoes(r, to) /\ msgs' = msgs
  \/ \E t \in Launches : TaskCommit(t) /\ CanComplete(task[t].run) /\ task[t].run \in Runs
  \/ Restart

LEMMA RunMove == ASSUME Typed, Aimed, [Next]_vars PROVE RunMoves
<1> USE DEF boundVars, dbVars
<1>0. run \in [Runs -> RunType]
  BY DEF Typed, TypeOK
<1>1. ASSUME UNCHANGED <<run, msgs>> PROVE RunMoves
  BY <1>1 DEF RunMoves
<1>2. ASSUME NEW r \in Runs,
             CheckStart(r) \/ CheckRegenerate(r) \/ CheckRetry(r) \/ InsertRun(r)
             \/ InsertConflict(r)
      PROVE  RunMoves
  BY <1>1, <1>2 DEF CheckStart, CheckRegenerate, CheckRetry, InsertConflict, RunMoves
<1>3. ASSUME NEW q \in Launches, Launch(q) PROVE RunMoves
  BY <1>1, <1>3 DEF Launch
<1>m. ASSUME NEW r \in Runs, MarkRunning(r), msgs' = msgs PROVE RunMoves
  BY <1>1, <1>m DEF MarkRunning, Active, RunMoves
<1>4. ASSUME NEW a \in Answers,
             (\E r \in Runs : CheckAnswer(a, r))
             \/ AnswerStep(a) \/ AnswerConflict(a) \/ AnswerResume(a)
      PROVE  RunMoves
  <2>1. CASE AnswerResume(a)
    <3>1. req[a].run \in Runs
      BY <2>1 DEF AnswerResume, ReqGoes, At, Aimed
    <3> QED BY <2>1, <3>1, <1>m DEF AnswerResume
  <2> QED BY <1>1, <1>4, <2>1 DEF CheckAnswer, AnswerStep, AnswerConflict
<1>c. ASSUME NEW r \in Runs, MarkCanceled(r), msgs' = msgs PROVE RunMoves
  <2>1. CASE Status(r) \in Active
    BY <1>c, <2>1 DEF MarkCanceled, CancelHits, RunMoves
  <2>2. CASE Status(r) \notin Active
    <3>1. run[r] \in RunType
      BY <1>0
    <3>2. Status(r) = "canceled" => [run[r] EXCEPT !.status = "canceled"] = run[r]
      BY <3>1 DEF Status, RunType
    <3>3. run' = run
      BY <1>c, <2>2, <3>2, <1>0 DEF MarkCanceled, CancelHits, RunGoes
    <3> QED BY <1>1, <1>c, <3>3
  <2> QED BY <2>1, <2>2
<1>5. ASSUME NEW c \in Cancels, (\E r \in Runs : CheckCancel(c, r)) \/ CancelRequest(c)
      PROVE  RunMoves
  <2>1. CASE CancelMark(c)
    <3>1. req[c].run \in Runs
      BY <2>1 DEF CancelMark, ReqGoes, At, Aimed
    <3> QED BY <2>1, <3>1, <1>c DEF CancelMark
  <2> QED BY <1>1, <1>5, <2>1 DEF CheckCancel, CancelRequest, CancelSignal, CancelSteps
<1>6. ASSUME NEW e \in Edits,
             CheckArchive(e) \/ (\E c \in Contexts : CheckRebind(e, c)) \/ Archive(e)
             \/ Rebind(e)
      PROVE  RunMoves
  BY <1>1, <1>6 DEF CheckArchive, CheckRebind, Archive, Rebind
<1>7. ASSUME NEW t \in Launches, TaskStep(t) \/ TaskFault(t) \/ TaskStream(t)
      PROVE  RunMoves
  <2>1. task[t].run \in Runs
    BY <1>7, TaskMove DEF TaskMoves, Aimed
  <2>2. CASE TaskStart(t)
    BY <2>1, <2>2, <1>m DEF TaskStart
  <2>3. CASE TaskWait(t)
    BY <1>1, <2>1, <2>3 DEF TaskWait, RunMoves, Active
  <2>4. CASE TaskCommit(t)
    BY <1>1, <2>1, <2>4 DEF TaskCommit, RunMoves
  <2>5. CASE TaskFail(t)
    BY <1>1, <2>1, <2>5 DEF TaskFail, RunMoves
  <2>6. CASE TaskCancel(t)
    BY <2>1, <2>6, <1>c DEF TaskCancel
  <2>7. CASE TaskPrepare(t) \/ TaskBegin(t) \/ TaskTurn(t) \/ TaskError(t) \/ TaskStopped(t)
             \/ TaskCall(t) \/ TaskObserve(t) \/ TaskAsk(t)
    BY <1>1, <2>7 DEF TaskPrepare, TaskBegin, TaskTurn, TaskError, TaskStopped, TaskCall,
                      TaskObserve, TaskAsk
  <2>8. CASE TaskFailSteps(t) \/ TaskCancelSteps(t) \/ TaskTimeout(t) \/ TaskLeave(t)
             \/ TaskFault(t) \/ TaskStream(t)
    BY <1>1, <2>8 DEF TaskFailSteps, TaskCancelSteps, TaskTimeout, TaskLeave, TaskFault,
                      TaskStream
  <2> QED BY <1>7, <2>2, <2>3, <2>4, <2>5, <2>6, <2>7, <2>8 DEF TaskStep
<1>8. ASSUME NEW c \in Contexts, EditTable(c) PROVE RunMoves
  BY <1>1, <1>8 DEF EditTable
<1>9. ASSUME NEW s \in Streams, (\E r \in Runs : StreamOpen(s, r)) \/ StreamStep(s)
      PROVE  RunMoves
  BY <1>1, <1>9 DEF StreamOpen, StreamStep, StreamSubscribe, StreamReread, StreamPush, StreamLast
<1>10. ASSUME NEW q \in Requests, Abandon(q) PROVE RunMoves
  BY <1>1, <1>10 DEF Abandon
<1>11. CASE Restart
  BY <1>11 DEF RunMoves
<1>12. CASE UNCHANGED vars
  BY <1>1, <1>12 DEF vars
<1> QED BY <1>2, <1>3, <1>4, <1>5, <1>6, <1>7, <1>8, <1>9, <1>10, <1>11, <1>12, NextCases

\* The effect of a move on one row.
LEMMA RowMoves ==
  ASSUME Typed, NEW r \in Runs
  PROVE  /\ \A to : RunGoes(r, to) =>
               /\ run'[r].status = to /\ run'[r].answer = run[r].answer
               /\ \A s \in Runs \ {r} : run'[s] = run[s]
         /\ InsertRun(r) =>
               /\ run'[r].status = "queued" /\ run[r].status \notin Active
               /\ \A s \in Runs \ {r} : run'[s] = run[s] /\ run[s].status \notin Active
         /\ \A t \in Launches : TaskCommit(t) /\ CanComplete(r) /\ task[t].run = r =>
               /\ run[r].status = "running"
               /\ run'[r].status = "completed" /\ run'[r].answer = Len(msgs) + 1
               /\ \A s \in Runs \ {r} : run'[s] = run[s]
               /\ msgs' = Append(msgs, Message("assistant", r))
         /\ Restart =>
               /\ run'[r].status = IF run[r].status \in {"queued", "running"} THEN "failed"
                                   ELSE run[r].status
               /\ run'[r].answer = run[r].answer
               /\ msgs' = msgs
<1>0. run \in [Runs -> RunType] /\ run[r] \in RunType
  BY DEF Typed, TypeOK
<1>1. ASSUME NEW to, RunGoes(r, to)
      PROVE  /\ run'[r].status = to /\ run'[r].answer = run[r].answer
             /\ \A s \in Runs \ {r} : run'[s] = run[s]
  BY <1>0, <1>1 DEF RunGoes, RunType
<1>2. ASSUME InsertRun(r)
      PROVE  /\ run'[r].status = "queued" /\ run[r].status \notin Active
             /\ \A s \in Runs \ {r} : run'[s] = run[s] /\ run[s].status \notin Active
  <2>1. PICK user : QueueRun(r, user)
    BY <1>2 DEF InsertRun
  <2>2. NoActiveRun
    BY <1>2 DEF InsertRun
  <2> QED BY <1>0, <2>1, <2>2 DEF QueueRun, NoActiveRun, Status
<1>3. ASSUME NEW t \in Launches, TaskCommit(t), CanComplete(r), task[t].run = r
      PROVE  /\ run[r].status = "running"
             /\ run'[r].status = "completed" /\ run'[r].answer = Len(msgs) + 1
             /\ \A s \in Runs \ {r} : run'[s] = run[s]
             /\ msgs' = Append(msgs, Message("assistant", r))
  <2>1. /\ run' = [run EXCEPT ![r].status = "completed", ![r].answer = Len(msgs) + 1]
        /\ msgs' = Append(msgs, Message("assistant", r)) /\ run[r].status = "running"
    BY <1>3 DEF TaskCommit, CanComplete, Status
  <2> QED BY <2>1, <1>0 DEF RunType
<1>4. ASSUME Restart
      PROVE  /\ run'[r].status = IF run[r].status \in {"queued", "running"} THEN "failed"
                                 ELSE run[r].status
             /\ run'[r].answer = run[r].answer
             /\ msgs' = msgs
  BY <1>0, <1>4 DEF Restart, Recovered, Status, RunType
<1> QED BY <1>1, <1>2, <1>3, <1>4

\* A creator that has not inserted its run yet has no row.
Fresh == {"idle", "start", "regenerate", "retry"}
Creators == \A r \in Runs : req[r].pc \in Fresh => Status(r) = "none"

LEMMA FreshMove ==
  ASSUME Typed, Aimed, [Next]_vars, NEW r \in Runs, req'[r].pc \in Fresh
  PROVE  req[r].pc \in Fresh /\ ~InsertRun(r)
<1> USE DEF boundVars, dbVars
<1>0. /\ req \in [Requests -> RequestType] /\ r \in Requests
      /\ Runs \cap Answers = {} /\ Launches \cap (Cancels \cup Edits) = {}
      /\ Answers \subseteq Launches /\ Runs \subseteq Launches
      /\ Requests = Launches \cup Cancels \cup Edits
  BY DistinctAssumption DEF Typed, TypeOK, Launches, Requests
<1>e. \A q \in Requests : \A from : ReqEnds(q, from) =>
          req'[q].pc = "done" /\ \A p \in Requests \ {q} : req'[p] = req[p]
  BY <1>0 DEF ReqEnds, NoRequest
<1>g. ASSUME NEW q \in Requests, NEW from, NEW to, ReqGoes(q, from, to)
      PROVE  req'[q].pc = to /\ \A p \in Requests \ {q} : req'[p] = req[p]
  <2>1. req[q] \in RequestType
    BY <1>0
  <2> QED BY <1>0, <1>g, <2>1 DEF ReqGoes, RequestType
<1>1. ~InsertRun(r)
  <2>1. SUFFICES ASSUME InsertRun(r) PROVE FALSE
    OBVIOUS
  <2>2. \E from : ReqGoes(r, from, "launch")
    BY <2>1 DEF InsertRun
  <2> QED BY <2>2, <1>0, <1>g DEF Fresh
<1>2. SUFFICES ASSUME req'[r] # req[r] PROVE req[r].pc \in Fresh
  BY <1>1
<1>3. ASSUME NEW s \in Runs,
             CheckStart(s) \/ CheckRegenerate(s) \/ CheckRetry(s) \/ InsertRun(s)
             \/ InsertConflict(s)
      PROVE  req[r].pc \in Fresh
  <2>1. \A p \in Requests \ {s} : req'[p] = req[p]
    BY <1>3, <1>0 DEF CheckStart, CheckRegenerate, CheckRetry, InsertRun, InsertConflict,
                      ReqGoes, ReqEnds
  <2>2. s = r
    BY <2>1, <1>2, <1>0
  <2> QED BY <1>3, <2>2 DEF CheckStart, CheckRegenerate, CheckRetry, Precheck, InsertRun,
                            InsertConflict, ReqGoes, ReqEnds, At, Fresh
<1>4. ASSUME NEW q \in Launches, Launch(q) PROVE FALSE
  BY <1>4, <1>0, <1>e, <1>2 DEF Launch, Fresh
<1>5. ASSUME NEW a \in Answers,
             (\E s \in Runs : CheckAnswer(a, s))
             \/ AnswerStep(a) \/ AnswerConflict(a) \/ AnswerResume(a)
      PROVE  FALSE
  <2>1. \A p \in Requests \ {a} : req'[p] = req[p]
    BY <1>5, <1>0 DEF CheckAnswer, AnswerStep, AnswerConflict, AnswerResume, ReqGoes, ReqEnds
  <2> QED BY <2>1, <1>2, <1>0
<1>6. ASSUME NEW c \in Cancels, (\E s \in Runs : CheckCancel(c, s)) \/ CancelRequest(c)
      PROVE  FALSE
  <2>1. \A p \in Requests \ {c} : req'[p] = req[p]
    BY <1>6, <1>0 DEF CheckCancel, CancelRequest, CancelSignal, CancelMark, CancelSteps,
                      ReqGoes, ReqEnds
  <2> QED BY <2>1, <1>2, <1>0
<1>7. ASSUME NEW e \in Edits,
             CheckArchive(e) \/ (\E c \in Contexts : CheckRebind(e, c)) \/ Archive(e)
             \/ Rebind(e)
      PROVE  FALSE
  <2>1. \A p \in Requests \ {e} : req'[p] = req[p]
    BY <1>7, <1>0 DEF CheckArchive, CheckRebind, Archive, Rebind, ReqGoes, ReqEnds
  <2> QED BY <2>1, <1>2, <1>0
<1>8. ASSUME NEW t \in Launches, TaskStep(t) \/ TaskFault(t) \/ TaskStream(t) PROVE FALSE
  BY <1>8, <1>2, TaskMove DEF TaskMoves
<1>9. ASSUME NEW c \in Contexts, EditTable(c) PROVE FALSE
  BY <1>9, <1>2 DEF EditTable
<1>10. ASSUME NEW s \in Streams, (\E x \in Runs : StreamOpen(s, x)) \/ StreamStep(s)
       PROVE  FALSE
  BY <1>10, <1>2
     DEF StreamOpen, StreamStep, StreamSubscribe, StreamReread, StreamPush, StreamLast
<1>11. ASSUME NEW q \in Requests, Abandon(q) PROVE FALSE
  BY <1>11, <1>0, <1>e, <1>2 DEF Abandon, Fresh
<1>12. CASE Restart
  BY <1>12, <1>0 DEF Restart, Ended, NoRequest, Fresh
<1>13. CASE UNCHANGED vars
  BY <1>13, <1>2 DEF vars
<1> QED BY <1>3, <1>4, <1>5, <1>6, <1>7, <1>8, <1>9, <1>10, <1>11, <1>12, <1>13, NextCases

LEMMA CreatorsNext == ASSUME Typed, Aimed, Creators, [Next]_vars PROVE Creators'
<1>1. SUFFICES ASSUME NEW r \in Runs, req'[r].pc \in Fresh PROVE run'[r].status = "none"
  BY DEF Creators, Status
<1>2. run[r].status = "none" /\ ~InsertRun(r)
  BY <1>1, FreshMove DEF Creators, Status
<1>3. RunMoves
  BY RunMove
<1>4. CASE run' = run
  BY <1>2, <1>4
<1>5. ASSUME NEW s \in Runs, InsertRun(s) PROVE run'[r].status = "none"
  <2>1. s # r
    BY <1>2, <1>5
  <2> QED BY <1>2, <1>5, <2>1, RowMoves
<1>6. ASSUME NEW s \in Runs, NEW to, Status(s) \in Active, RunGoes(s, to)
      PROVE  run'[r].status = "none"
  BY <1>2, <1>6, RowMoves DEF Active, Status
<1>7. ASSUME NEW t \in Launches, TaskCommit(t), CanComplete(task[t].run), task[t].run \in Runs
      PROVE  run'[r].status = "none"
  <2>1. run[task[t].run].status = "running" /\ \A s \in Runs \ {task[t].run} : run'[s] = run[s]
    BY <1>7, RowMoves
  <2> QED BY <1>2, <2>1
<1>8. CASE Restart
  BY <1>2, <1>8, RowMoves
<1> QED BY <1>3, <1>4, <1>5, <1>6, <1>7, <1>8 DEF RunMoves

LEMMA OneActiveNext == ASSUME Typed, Aimed, OneActiveRun, [Next]_vars PROVE OneActiveRun'
<1>1. RunMoves
  BY RunMove
<1>2. SUFFICES ASSUME NEW r1 \in Runs, NEW r2 \in Runs,
                      run'[r1].status \in Active, run'[r2].status \in Active
               PROVE  r1 = r2
  BY DEF OneActiveRun, Status
<1>3. ASSUME \A r \in Runs : run'[r].status \in Active => run[r].status \in Active
      PROVE  r1 = r2
  BY <1>2, <1>3 DEF OneActiveRun, Status
<1>4. CASE run' = run
  BY <1>3, <1>4
<1>5. ASSUME NEW s \in Runs, InsertRun(s) PROVE r1 = r2
  BY <1>2, <1>5, RowMoves
<1>6. ASSUME NEW s \in Runs, NEW to, Status(s) \in Active, RunGoes(s, to) PROVE r1 = r2
  BY <1>3, <1>6, RowMoves DEF Status
<1>7. ASSUME NEW t \in Launches, TaskCommit(t), CanComplete(task[t].run), task[t].run \in Runs
      PROVE  r1 = r2
  <2>1. run[task[t].run].status = "running" /\ \A s \in Runs \ {task[t].run} : run'[s] = run[s]
    BY <1>7, RowMoves
  <2> QED BY <1>3, <2>1 DEF Active
<1>8. CASE Restart
  <2>1. \A r \in Runs : run'[r].status = IF run[r].status \in {"queued", "running"}
                                        THEN "failed" ELSE run[r].status
    BY <1>8, RowMoves
  <2> QED BY <1>3, <2>1 DEF Active
<1> QED BY <1>1, <1>4, <1>5, <1>6, <1>7, <1>8 DEF RunMoves

LEMMA AnswersNext ==
  ASSUME Typed, Aimed, Creators, AnswerIffCompleted, [Next]_vars
  PROVE  AnswerIffCompleted'
<1>0. msgs \in Seq(MessageType)
  BY DEF Typed, TypeOK
<1>1. RunMoves
  BY RunMove
<1>2. ASSUME msgs' = msgs,
             \A r \in Runs : /\ run'[r].answer = run[r].answer
                             /\ run'[r].status = "completed" <=> run[r].status = "completed"
      PROVE  AnswerIffCompleted'
  <2>1. ASSUME NEW i \in DOMAIN msgs PROVE msgs[i].of \in Runs
    <3>1. msgs[i] \in MessageType
      BY <1>0
    <3> QED BY <3>1 DEF MessageType
  <2>2. ASSUME NEW i \in DOMAIN msgs', msgs'[i].role = "assistant"
        PROVE  run'[msgs'[i].of].status = "completed" /\ run'[msgs'[i].of].answer = i
    BY <1>2, <2>1, <2>2 DEF AnswerIffCompleted, Status
  <2>3. ASSUME NEW s \in Runs, run'[s].status = "completed"
        PROVE  /\ run'[s].answer \in DOMAIN msgs' /\ msgs'[run'[s].answer].role = "assistant"
               /\ msgs'[run'[s].answer].of = s
    <3>1. run[s].status = "completed"
      BY <1>2, <2>3
    <3> QED BY <1>2, <3>1 DEF AnswerIffCompleted, Status
  <2> QED BY <2>2, <2>3 DEF AnswerIffCompleted, Status
<1>3. ASSUME NEW r \in Runs, InsertRun(r) PROVE AnswerIffCompleted'
  <2>1. /\ run'[r].status = "queued" /\ run[r].status = "none"
        /\ \A s \in Runs \ {r} : run'[s] = run[s]
    <3>1. req[r].pc \in Fresh
      BY <1>3 DEF InsertRun, ReqGoes, At, Fresh
    <3> QED BY <1>3, <3>1, RowMoves DEF Creators, Status
  <2>2. /\ DOMAIN msgs \subseteq DOMAIN msgs'
        /\ \A i \in DOMAIN msgs : /\ msgs'[i].role = msgs[i].role /\ msgs'[i].of = msgs[i].of
                                  /\ msgs[i].of \in Runs
        /\ \A i \in DOMAIN msgs' : msgs'[i].role = "assistant" => i \in DOMAIN msgs
    <3>0. ASSUME NEW i \in DOMAIN msgs
          PROVE  /\ msgs[i].of \in Runs
                 /\ [msgs[i] EXCEPT !.active = FALSE].role = msgs[i].role
                 /\ [msgs[i] EXCEPT !.active = FALSE].of = msgs[i].of
      <4>1. msgs[i] \in MessageType
        BY <1>0
      <4> QED BY <4>1 DEF MessageType
    <3>1. CASE msgs' = Append(msgs, Message("user", r))
      <4>1. /\ DOMAIN msgs' = DOMAIN msgs \cup {Len(msgs) + 1}
            /\ \A i \in DOMAIN msgs : msgs'[i] = msgs[i]
            /\ msgs'[Len(msgs) + 1] = Message("user", r)
        BY <3>1, <1>0
      <4> QED BY <4>1, <3>0 DEF Message
    <3>2. CASE msgs' = msgs
      BY <3>2, <3>0
    <3>3. CASE msgs' = [i \in DOMAIN msgs |->
                           IF i >= req[r].from THEN [msgs[i] EXCEPT !.active = FALSE]
                           ELSE msgs[i]]
      BY <3>3, <3>0
    <3> QED BY <1>3, <3>1, <3>2, <3>3 DEF InsertRun
  <2>3. ASSUME NEW i \in DOMAIN msgs', msgs'[i].role = "assistant"
        PROVE  run'[msgs'[i].of].status = "completed" /\ run'[msgs'[i].of].answer = i
    <3>1. /\ i \in DOMAIN msgs /\ msgs[i].role = "assistant" /\ msgs'[i].of = msgs[i].of
          /\ msgs[i].of \in Runs
      BY <2>2, <2>3
    <3>2. run[msgs[i].of].status = "completed" /\ run[msgs[i].of].answer = i
      BY <3>1 DEF AnswerIffCompleted, Status
    <3> QED BY <2>1, <3>1, <3>2
  <2>4. ASSUME NEW s \in Runs, run'[s].status = "completed"
        PROVE  /\ run'[s].answer \in DOMAIN msgs' /\ msgs'[run'[s].answer].role = "assistant"
               /\ msgs'[run'[s].answer].of = s
    <3>1. run'[s] = run[s]
      BY <2>1, <2>4
    <3>2. /\ run[s].answer \in DOMAIN msgs /\ msgs[run[s].answer].role = "assistant"
          /\ msgs[run[s].answer].of = s
      BY <2>4, <3>1 DEF AnswerIffCompleted, Status
    <3> QED BY <2>2, <3>1, <3>2
  <2> QED BY <2>3, <2>4 DEF AnswerIffCompleted, Status
<1>4. ASSUME NEW s \in Runs, NEW to \in {"running", "waiting_user", "failed", "canceled"},
             Status(s) \in Active, RunGoes(s, to), msgs' = msgs
      PROVE  AnswerIffCompleted'
  <2>1. /\ run'[s].status = to /\ run'[s].answer = run[s].answer
        /\ \A x \in Runs \ {s} : run'[x] = run[x]
    BY <1>4, RowMoves
  <2> QED BY <1>2, <1>4, <2>1 DEF Status, Active
<1>5. ASSUME NEW t \in Launches, TaskCommit(t), CanComplete(task[t].run), task[t].run \in Runs
      PROVE  AnswerIffCompleted'
  <2> DEFINE r == task[t].run
  <2>1. /\ run[r].status = "running" /\ run'[r].status = "completed"
        /\ run'[r].answer = Len(msgs) + 1 /\ \A s \in Runs \ {r} : run'[s] = run[s]
        /\ msgs' = Append(msgs, Message("assistant", r)) /\ r \in Runs
    BY <1>5, RowMoves
  <2>2. /\ DOMAIN msgs' = DOMAIN msgs \cup {Len(msgs) + 1}
        /\ \A i \in DOMAIN msgs : msgs'[i] = msgs[i] /\ msgs[i].of \in Runs
        /\ msgs'[Len(msgs) + 1] = Message("assistant", r)
    <3>1. ASSUME NEW i \in DOMAIN msgs PROVE msgs[i].of \in Runs
      <4>1. msgs[i] \in MessageType
        BY <1>0
      <4> QED BY <4>1 DEF MessageType
    <3> QED BY <2>1, <3>1, <1>0
  <2> HIDE DEF r
  <2>3. ASSUME NEW i \in DOMAIN msgs', msgs'[i].role = "assistant"
        PROVE  run'[msgs'[i].of].status = "completed" /\ run'[msgs'[i].of].answer = i
    <3>1. CASE i = Len(msgs) + 1
      BY <2>1, <2>2, <3>1 DEF Message
    <3>2. CASE i # Len(msgs) + 1
      <4>1. i \in DOMAIN msgs /\ msgs'[i] = msgs[i] /\ msgs[i].of \in Runs
        BY <2>2, <3>2
      <4>2. run[msgs[i].of].status = "completed" /\ run[msgs[i].of].answer = i
        BY <2>3, <4>1 DEF AnswerIffCompleted, Status
      <4> QED BY <2>1, <4>1, <4>2
    <3> QED BY <3>1, <3>2
  <2>4. ASSUME NEW s \in Runs, run'[s].status = "completed"
        PROVE  /\ run'[s].answer \in DOMAIN msgs' /\ msgs'[run'[s].answer].role = "assistant"
               /\ msgs'[run'[s].answer].of = s
    <3>1. CASE s = r
      BY <2>1, <2>2, <3>1 DEF Message
    <3>2. CASE s # r
      <4>1. run'[s] = run[s]
        BY <2>1, <3>2
      <4>2. /\ run[s].answer \in DOMAIN msgs /\ msgs[run[s].answer].role = "assistant"
            /\ msgs[run[s].answer].of = s
        BY <2>4, <4>1 DEF AnswerIffCompleted, Status
      <4> QED BY <2>2, <4>1, <4>2
    <3> QED BY <3>1, <3>2
  <2> QED BY <2>3, <2>4 DEF AnswerIffCompleted, Status
<1>6. CASE Restart
  <2>1. msgs' = msgs
    BY <1>6 DEF Restart
  <2>2. \A r \in Runs : /\ run'[r].answer = run[r].answer
                        /\ run'[r].status = IF run[r].status \in {"queued", "running"}
                                            THEN "failed" ELSE run[r].status
    BY <1>6, RowMoves
  <2> QED BY <1>2, <2>1, <2>2
<1>7. CASE run' = run /\ msgs' = msgs
  BY <1>2, <1>7
<1> QED BY <1>1, <1>3, <1>4, <1>5, <1>6, <1>7 DEF RunMoves

TurnInv == Typed /\ Aimed /\ Creators /\ OneActiveRun /\ AnswerIffCompleted

LEMMA TurnInductive == Spec => []TurnInv
<1>1. Init => Creators /\ OneActiveRun /\ AnswerIffCompleted
  BY DEF Init, Creators, OneActiveRun, AnswerIffCompleted, Status, Active
<1>2. Creators /\ OneActiveRun /\ AnswerIffCompleted /\ (Typed /\ Aimed) /\ [Next]_vars
      => (Creators /\ OneActiveRun /\ AnswerIffCompleted)'
  BY CreatorsNext, OneActiveNext, AnswersNext
<1>3. (Creators /\ OneActiveRun /\ AnswerIffCompleted) /\ (Typed /\ Aimed) => TurnInv
  BY DEF TurnInv
<1> QED BY <1>1, <1>2, <1>3, TypeInductive, PTL DEF Spec

\* A conversation never has two runs that are queued, running or waiting: the check
\* inside the creating transaction is enough, whatever was read before it.
THEOREM OneRunAtATime == Spec => []OneActiveRun
<1>1. TurnInv => OneActiveRun
  BY DEF TurnInv
<1> QED BY <1>1, TurnInductive, PTL

\* Answers and completed runs correspond one to one: no cancellation, timeout,
\* failure or restart leaves an answer of a run that did not complete.
THEOREM AnswersAreCompletions == Spec => []AnswerIffCompleted
<1>1. TurnInv => AnswerIffCompleted
  BY DEF TurnInv
<1> QED BY <1>1, TurnInductive, PTL

-----------------------------------------------------------------------------
(* The runtime keeps AgentPromise: one step of a run's rows is one step of *)
(* its promised life, or none.                                             *)

Lives == [r \in Runs |-> Life(r)]

LEMMA LifeCases ==
  ASSUME TurnInv, NEW r \in Runs
  PROVE  /\ Life(r) = "active" <=> run[r].status \in Active
         /\ run[r].status = "none" => Life(r) = "none"
         /\ run[r].status \in {"failed", "canceled"} => Life(r) = "ended"
         /\ run[r].status = "completed" =>
               /\ run[r].answer \in DOMAIN msgs /\ msgs[run[r].answer] \in MessageType
               /\ Life(r) = IF msgs[run[r].answer].active THEN "shown" ELSE "hidden"
         /\ run[r].status \in {"none"} \cup Active \cup Final
<1>1. run[r] \in RunType /\ msgs \in Seq(MessageType)
  BY DEF TurnInv, Typed, TypeOK
<1>2. run[r].status = "completed" =>
          run[r].answer \in DOMAIN msgs /\ msgs[run[r].answer] \in MessageType
  BY <1>1 DEF TurnInv, AnswerIffCompleted, Status
<1>3. run[r].status \in {"none"} \cup Active \cup Final
  BY <1>1 DEF RunType
<1> QED BY <1>2, <1>3 DEF Life, Status, Active, Final

\* Another run's life is untouched by a step that keeps its row and its answer.
LEMMA LifeKept ==
  ASSUME TurnInv, TurnInv', NEW r \in Runs, run'[r] = run[r],
         run[r].status = "completed" =>
             msgs'[run[r].answer].active = msgs[run[r].answer].active
  PROVE  Life(r)' = Life(r)
BY DEF Life, Status

LEMMA BeginStep ==
  ASSUME TurnInv, TurnInv', NEW r \in Runs, InsertRun(r)
  PROVE  \E H \in SUBSET Runs : Promise!Begin(r, H)
<1> DEFINE H == {s \in Runs \ {r} : Life(s) = "shown" /\ Life(s)' = "hidden"}
<1>0. Typed /\ Creators /\ msgs \in Seq(MessageType)
  BY DEF TurnInv, Typed, TypeOK
<1>1. /\ run'[r].status = "queued" /\ run[r].status = "none"
      /\ \A s \in Runs \ {r} : run'[s] = run[s] /\ run[s].status \notin Active
  <2>1. req[r].pc \in Fresh
    BY DEF InsertRun, ReqGoes, At, Fresh
  <2> QED BY <1>0, <2>1, RowMoves DEF Creators, Status
<1>2. ASSUME NEW i \in DOMAIN msgs
      PROVE  msgs'[i].active = msgs[i].active \/ msgs'[i].active = FALSE
  <2>1. msgs[i] \in MessageType
    BY <1>0
  <2>2. [msgs[i] EXCEPT !.active = FALSE].active = FALSE
    BY <2>1 DEF MessageType
  <2>3. CASE msgs' = Append(msgs, Message("user", r))
    BY <2>3, <1>0
  <2>4. CASE msgs' = [k \in DOMAIN msgs |->
                         IF k >= req[r].from THEN [msgs[k] EXCEPT !.active = FALSE]
                         ELSE msgs[k]]
    BY <2>2, <2>4
  <2> QED BY <2>3, <2>4 DEF InsertRun
<1>3. ASSUME NEW s \in Runs \ {r}
      PROVE  Life(s)' = Life(s) \/ (Life(s) = "shown" /\ Life(s)' = "hidden")
  <2>1. CASE run[s].status # "completed"
    BY <1>1, <2>1, LifeKept
  <2>2. CASE run[s].status = "completed"
    <3>1. /\ run[s].answer \in DOMAIN msgs /\ msgs[run[s].answer] \in MessageType
          /\ Life(s) = IF msgs[run[s].answer].active THEN "shown" ELSE "hidden"
      BY <2>2, LifeCases
    <3>2. Life(s)' = IF msgs'[run[s].answer].active THEN "shown" ELSE "hidden"
      BY <1>1, <2>2 DEF Life, Status, Active
    <3>3. msgs[run[s].answer].active \in BOOLEAN
      BY <3>1 DEF MessageType
    <3>4. \/ msgs'[run[s].answer].active = msgs[run[s].answer].active
          \/ msgs'[run[s].answer].active = FALSE
      BY <1>2, <3>1
    <3> QED BY <3>1, <3>2, <3>3, <3>4
  <2> QED BY <2>1, <2>2
<1>4. Life(r) = "none" /\ Life(r)' = "active"
  BY <1>1, LifeCases DEF Life, Status, Active
<1>5. \A s \in Runs : Life(s) # "active"
  BY <1>1, LifeCases DEF Active
<1>6. Lives' = [s \in Runs |-> IF s = r THEN "active" ELSE IF s \in H THEN "hidden" ELSE Lives[s]]
  BY <1>3, <1>4 DEF Lives
<1>7. \A s \in H : Lives[s] = "shown"
  BY DEF Lives
<1>8. Promise!Begin(r, H)
  BY <1>4, <1>5, <1>6, <1>7 DEF Promise!Begin, Promise!Idle, Lives
<1> QED BY <1>8

LEMMA EndStep ==
  ASSUME TurnInv, NEW r \in Runs, NEW to, run[r].status \in Active, Life(r)' = to,
         \A s \in Runs \ {r} : Life(s)' = Life(s)
  PROVE  Promise!Goes(r, to)
<1>1. Lives[r] = "active"
  BY LifeCases DEF Lives
<1>2. Lives' = [Lives EXCEPT ![r] = to]
  BY DEF Lives
<1> QED BY <1>1, <1>2 DEF Promise!Goes, Lives

LEMMA TurnStep ==
  ASSUME TurnInv, TurnInv', [Next]_vars
  PROVE  [Promise!Next]_Lives
<1>1. RunMoves
  BY RunMove DEF TurnInv
<1>2. CASE run' = run /\ msgs' = msgs
  <2>1. \A r \in Runs : Life(r)' = Life(r)
    BY <1>2, LifeKept
  <2> QED BY <2>1 DEF Lives
<1>3. ASSUME NEW r \in Runs, InsertRun(r) PROVE Promise!Next
  BY <1>3, BeginStep DEF Promise!Next
<1>4. ASSUME NEW r \in Runs, NEW to \in {"running", "waiting_user", "failed", "canceled"},
             Status(r) \in Active, RunGoes(r, to), msgs' = msgs
      PROVE  [Promise!Next]_Lives
  <2>1. /\ run'[r].status = to /\ \A s \in Runs \ {r} : run'[s] = run[s]
    BY <1>4, RowMoves DEF TurnInv
  <2>2. \A s \in Runs \ {r} : Life(s)' = Life(s)
    BY <1>4, <2>1, LifeKept
  <2>3. CASE to \in {"running", "waiting_user"}
    <3>1. Life(r)' = "active" /\ Life(r) = "active"
      BY <1>4, <2>1, <2>3, LifeCases DEF Life, Status, Active
    <3> QED BY <2>2, <3>1 DEF Lives
  <2>4. CASE to \in {"failed", "canceled"}
    <3>1. Life(r)' = "ended"
      BY <2>1, <2>4 DEF Life, Status, Active
    <3>2. Promise!Stop(r)
      BY <1>4, <2>2, <3>1, EndStep DEF Promise!Stop, Status
    <3> QED BY <3>2 DEF Promise!Next
  <2> QED BY <2>3, <2>4
<1>5. ASSUME NEW t \in Launches, TaskCommit(t), CanComplete(task[t].run), task[t].run \in Runs
      PROVE  Promise!Next
  <2>0. PICK r \in Runs : r = task[t].run
    BY <1>5
  <2>1. /\ run[r].status = "running" /\ run'[r].status = "completed"
        /\ run'[r].answer = Len(msgs) + 1 /\ \A s \in Runs \ {r} : run'[s] = run[s]
        /\ msgs' = Append(msgs, Message("assistant", r))
    BY <1>5, <2>0, RowMoves DEF TurnInv
  <2>2. /\ msgs'[Len(msgs) + 1] = Message("assistant", r)
        /\ \A i \in DOMAIN msgs : msgs'[i] = msgs[i]
    <3>1. msgs \in Seq(MessageType)
      BY DEF TurnInv, Typed, TypeOK
    <3> QED BY <2>1, <3>1
  <2>3. Life(r)' = "shown" /\ run[r].status \in Active
    <3>1. msgs'[run'[r].answer].active
      BY <2>1, <2>2 DEF Message
    <3>2. run'[r].status = "completed" /\ run[r].status = "running"
      BY <2>1
    <3>3. Life(r)' = "shown"
      BY <3>1, <3>2 DEF Life, Status, Active
    <3> QED BY <3>2, <3>3 DEF Active
  <2>4. \A s \in Runs \ {r} : Life(s)' = Life(s)
    <3>1. \A s \in Runs : run[s].status = "completed" => run[s].answer \in DOMAIN msgs
      BY LifeCases
    <3> QED BY <2>1, <2>2, <3>1, LifeKept
  <2>5. Promise!Reply(r)
    <3>1. Promise!Goes(r, "shown")
      BY <2>3, <2>4, EndStep
    <3> QED BY <3>1 DEF Promise!Reply
  <2> QED BY <2>1, <2>5 DEF Promise!Next
<1>6. CASE Restart
  <2>1. \A r \in Runs : /\ run'[r].status = IF run[r].status \in {"queued", "running"}
                                            THEN "failed" ELSE run[r].status
                        /\ run'[r].answer = run[r].answer
                        /\ msgs' = msgs
    BY <1>6, RowMoves DEF TurnInv
  <2>2. ASSUME NEW r \in Runs, run[r].status \notin {"queued", "running"}
        PROVE  Life(r)' = Life(r)
    <3>1. run'[r].status = run[r].status /\ run'[r].answer = run[r].answer /\ msgs' = msgs
      BY <2>1, <2>2
    <3> QED BY <3>1 DEF Life, Status
  <2>3. CASE \A r \in Runs : run[r].status \notin {"queued", "running"}
    BY <2>2, <2>3 DEF Lives
  <2>4. ASSUME NEW r \in Runs, run[r].status \in {"queued", "running"} PROVE Promise!Next
    <3>1. \A s \in Runs \ {r} : run[s].status \notin {"queued", "running"}
      BY <2>4 DEF TurnInv, OneActiveRun, Status, Active
    <3>2. Life(r)' = "ended" /\ run[r].status \in Active
      BY <2>1, <2>4 DEF Life, Status, Active
    <3>3. Promise!Stop(r)
      BY <2>2, <3>1, <3>2, EndStep DEF Promise!Stop
    <3> QED BY <3>3 DEF Promise!Next
  <2> QED BY <2>3, <2>4
<1> QED BY <1>1, <1>2, <1>3, <1>4, <1>5, <1>6 DEF RunMoves

\* The runtime implements AgentPromise: runs take turns, each ends for good with or
\* without a reply, and a reply is hidden only by the run that begins after it.
THEOREM TurnsAreKept == Spec => TurnsKept
<1>1. Init => Promise!Init
  BY DEF Init, Promise!Init, Life, Status, Active
<1>2. TurnInv /\ TurnInv' /\ [Next]_vars => [Promise!Next]_Lives
  BY TurnStep
<1> QED BY <1>1, <1>2, TurnInductive, PTL DEF Spec, TurnsKept, Promise!Spec, Lives

-----------------------------------------------------------------------------
(* One loop per run.  A launch holds its run from the moment it is certain *)
(* to start a task (the run inserted, the answer recorded) until the task  *)
(* leaves the loop.  A question can be waiting only while nobody holds the *)
(* run, or while the task that asked it has not written the status yet.    *)

Held(q) == Driving(q) \/ At(q, "launch") \/ At(q, "resume")
HeldRun(q) == IF Driving(q) THEN task[q].run ELSE RunOf(q)
Holds(q, r) == Held(q) /\ HeldRun(q) = r
WaitsAt(r, i) == i \in DOMAIN steps[r] /\ steps[r][i] = "waiting"

\* A request starts its task as the last thing it does.
Handover == \A q \in Launches : task[q].pc # "idle" => req[q].pc = "done"

OneHolder ==
  \A r \in Runs : \A q1, q2 \in Launches : Holds(q1, r) /\ Holds(q2, r) => q1 = q2

OneQuestion == \A r \in Runs : \A i, k : WaitsAt(r, i) /\ WaitsAt(r, k) => i = k

AskerHolds ==
  \A r \in Runs, q \in Launches : \A i :
      WaitsAt(r, i) /\ Holds(q, r) => TaskAt(q, "ask") /\ task[q].step = i

WaitingIsFree ==
  \A r \in Runs, q \in Launches :
      run[r].status = "waiting_user" /\ Holds(q, r) => At(q, "resume")

\* What an answer read stays true of its step until the step is closed.
AnswerRead(a) ==
  LET r == req[a].run
      i == req[a].at
  IN  /\ i \in DOMAIN steps[r] /\ steps[r][i] \in {"waiting", "closed"}
      /\ run[r].status # "none"
      /\ steps[r][i] = "waiting" => \A q \in Launches : ~Holds(q, r)
AnswersRead == \A a \in Answers : At(a, "answer") => AnswerRead(a)

UnbornIsFree ==
  \A r \in Runs : run[r].status = "none" =>
      (\A q \in Launches : ~Holds(q, r)) /\ (\A i : ~WaitsAt(r, i))

LoopInv == /\ Handover /\ OneHolder /\ OneQuestion /\ AskerHolds
           /\ WaitingIsFree /\ AnswersRead /\ UnbornIsFree

LEMMA HeldRunTyped ==
  ASSUME Aimed, NEW q \in Launches, Held(q)
  PROVE  HeldRun(q) \in Runs
BY DEF Aimed, Held, HeldRun, Driving, Loop, At, RunOf, Launches

\* A quiet step gives no run to anybody and asks nothing.
QuietLaunch(q) ==
  /\ task'[q].pc # "idle" => req'[q].pc = "done"
  /\ Held(q)' =>
        /\ Held(q) /\ HeldRun(q)' = HeldRun(q)
        /\ TaskAt(q, "ask") => TaskAt(q, "ask")' /\ task'[q].step = task[q].step
        /\ At(q, "resume") => \/ At(q, "resume")'
                              \/ run'[HeldRun(q)].status # "waiting_user"
QuietAnswer(a) == At(a, "answer")' => req'[a] = req[a]
QuietSteps(r) ==
  /\ DOMAIN steps[r] \subseteq DOMAIN steps'[r]
  /\ \A i \in DOMAIN steps'[r] : steps'[r][i] = "waiting" => WaitsAt(r, i)
  /\ \A i \in DOMAIN steps[r] :
        steps[r][i] \in {"waiting", "closed"} => steps'[r][i] \in {"waiting", "closed"}
QuietStatus(r) ==
  /\ run'[r].status = "waiting_user" =>
        run[r].status = "waiting_user" \/ \A q \in Launches : ~Holds(q, r)'
  /\ run'[r].status = "none" <=> run[r].status = "none"
Quiet == /\ \A q \in Launches : QuietLaunch(q)
         /\ \A a \in Answers : QuietAnswer(a)
         /\ \A r \in Runs : QuietSteps(r) /\ QuietStatus(r)

LEMMA QuietKeeps ==
  ASSUME Typed, Aimed, LoopInv, Quiet
  PROVE  LoopInv'
<1>h. ASSUME NEW q \in Launches, NEW r \in Runs, Holds(q, r)'
      PROVE  Holds(q, r)
  BY <1>h DEF Quiet, QuietLaunch, Holds
<1>w. ASSUME NEW r \in Runs, NEW i, WaitsAt(r, i)'
      PROVE  WaitsAt(r, i)
  BY <1>w DEF Quiet, QuietSteps, WaitsAt
<1>1. Handover'
  BY DEF Quiet, QuietLaunch, Handover
<1>2. OneHolder'
  BY <1>h DEF LoopInv, OneHolder
<1>3. OneQuestion'
  BY <1>w DEF LoopInv, OneQuestion
<1>4. AskerHolds'
  <2>1. SUFFICES ASSUME NEW r \in Runs, NEW q \in Launches, NEW i,
                        WaitsAt(r, i)', Holds(q, r)'
                 PROVE  TaskAt(q, "ask")' /\ task'[q].step = i
    BY DEF AskerHolds
  <2>2. TaskAt(q, "ask") /\ task[q].step = i
    BY <1>h, <1>w, <2>1 DEF LoopInv, AskerHolds
  <2>3. QuietLaunch(q) /\ Held(q)'
    BY <2>1 DEF Quiet, Holds
  <2> QED BY <2>2, <2>3 DEF QuietLaunch
<1>5. WaitingIsFree'
  <2>1. SUFFICES ASSUME NEW r \in Runs, NEW q \in Launches,
                        run'[r].status = "waiting_user", Holds(q, r)'
                 PROVE  At(q, "resume")'
    BY DEF WaitingIsFree
  <2>2. run[r].status = "waiting_user"
    BY <2>1 DEF Quiet, QuietStatus
  <2>3. At(q, "resume") /\ HeldRun(q) = r
    BY <1>h, <2>1, <2>2 DEF LoopInv, WaitingIsFree, Holds
  <2>4. QuietLaunch(q) /\ Held(q)'
    BY <2>1 DEF Quiet, Holds
  <2> QED BY <2>1, <2>3, <2>4 DEF QuietLaunch
<1>6. AnswersRead'
  <2>1. SUFFICES ASSUME NEW a \in Answers, At(a, "answer")' PROVE AnswerRead(a)'
    BY DEF AnswersRead
  <2>2. req'[a] = req[a] /\ At(a, "answer")
    BY <2>1 DEF Quiet, QuietAnswer, At
  <2>3. AnswerRead(a)
    BY <2>2 DEF LoopInv, AnswersRead
  <2>4. PICK r \in Runs : r = req[a].run
    BY <2>2 DEF Aimed, At
  <2>5. PICK i : i = req[a].at
    OBVIOUS
  <2>6. /\ i \in DOMAIN steps[r] /\ steps[r][i] \in {"waiting", "closed"}
        /\ run[r].status # "none"
        /\ steps[r][i] = "waiting" => \A q \in Launches : ~Holds(q, r)
    BY <2>3, <2>4, <2>5 DEF AnswerRead
  <2>7. QuietSteps(r) /\ QuietStatus(r)
    BY DEF Quiet
  <2>8. /\ i \in DOMAIN steps'[r] /\ steps'[r][i] \in {"waiting", "closed"}
        /\ run'[r].status # "none"
        /\ steps'[r][i] = "waiting" => WaitsAt(r, i)
    BY <2>6, <2>7 DEF QuietSteps, QuietStatus
  <2>9. steps'[r][i] = "waiting" => \A q \in Launches : ~Holds(q, r)'
    BY <1>h, <2>6, <2>8 DEF WaitsAt
  <2> QED BY <2>2, <2>4, <2>5, <2>8, <2>9 DEF AnswerRead
<1>7. UnbornIsFree'
  <2>1. \A r \in Runs : run'[r].status = "none" => run[r].status = "none"
    BY DEF Quiet, QuietStatus
  <2> QED BY <1>h, <1>w, <2>1 DEF LoopInv, UnbornIsFree
<1> QED BY <1>1, <1>2, <1>3, <1>4, <1>5, <1>6, <1>7 DEF LoopInv

\* The writes of the rows that are quiet.
LEMMA QuietRows ==
  ASSUME Typed, NEW r \in Runs,
         \/ run' = run
         \/ Status(r) # "none" /\ \E to \in {"running", "failed", "canceled"} : RunGoes(r, to)
         \/ \E t \in Launches : TaskCommit(t) /\ CanComplete(r) /\ task[t].run = r
         \/ Restart
  PROVE  \A s \in Runs : /\ run'[s].status = "waiting_user" => run[s].status = "waiting_user"
                         /\ run'[s].status = "none" <=> run[s].status = "none"
                         /\ QuietStatus(s)
<1>1. SUFFICES \A s \in Runs : /\ run'[s].status = "waiting_user" => run[s].status = "waiting_user"
                               /\ run'[s].status = "none" <=> run[s].status = "none"
  BY DEF QuietStatus
<1>2. CASE run' = run
  BY <1>2
<1>3. ASSUME NEW to \in {"running", "failed", "canceled"}, RunGoes(r, to), Status(r) # "none"
      PROVE  \A s \in Runs : /\ run'[s].status = "waiting_user" => run[s].status = "waiting_user"
                             /\ run'[s].status = "none" <=> run[s].status = "none"
  BY <1>3, RowMoves DEF Status
<1>4. ASSUME NEW t \in Launches, TaskCommit(t), CanComplete(r), task[t].run = r
      PROVE  \A s \in Runs : /\ run'[s].status = "waiting_user" => run[s].status = "waiting_user"
                             /\ run'[s].status = "none" <=> run[s].status = "none"
  BY <1>4, RowMoves
<1>5. CASE Restart
  BY <1>5, RowMoves
<1> QED BY <1>2, <1>3, <1>4, <1>5

LEMMA QuietWrites ==
  ASSUME Typed, NEW r \in Runs,
         \/ steps' = steps
         \/ CloseSteps(r)
         \/ steps' = [steps EXCEPT ![r] = Append(@, "running")]
         \/ \E i : steps' = [steps EXCEPT ![r][i] = "closed"]
         \/ Restart
  PROVE  \A s \in Runs : QuietSteps(s)
<1>0. steps \in [Runs -> Seq(StepStatus)]
  BY DEF Typed, TypeOK, StepStatus
<1>1. CASE steps' = steps
  BY <1>1 DEF QuietSteps, WaitsAt
<1>2. CASE CloseSteps(r)
  BY <1>0, <1>2 DEF CloseSteps, QuietSteps, WaitsAt
<1>3. CASE steps' = [steps EXCEPT ![r] = Append(@, "running")]
  <2>1. ASSUME NEW s \in Runs PROVE QuietSteps(s)
    <3>1. CASE s # r
      BY <1>0, <1>3, <3>1 DEF QuietSteps, WaitsAt
    <3>2. CASE s = r
      <4>1. steps'[s] = Append(steps[s], "running") /\ steps[s] \in Seq(StepStatus)
        BY <1>0, <1>3, <3>2
      <4>2. /\ DOMAIN steps'[s] = DOMAIN steps[s] \cup {Len(steps[s]) + 1}
            /\ \A i \in DOMAIN steps[s] : steps'[s][i] = steps[s][i]
            /\ steps'[s][Len(steps[s]) + 1] = "running"
        BY <4>1
      <4> QED BY <4>2 DEF QuietSteps, WaitsAt
    <3> QED BY <3>1, <3>2
  <2> QED BY <2>1
<1>4. ASSUME NEW i, steps' = [steps EXCEPT ![r][i] = "closed"]
      PROVE  \A s \in Runs : QuietSteps(s)
  BY <1>0, <1>4 DEF QuietSteps, WaitsAt
<1>5. CASE Restart
  BY <1>0, <1>5 DEF Restart, QuietSteps, WaitsAt
<1> QED BY <1>1, <1>2, <1>3, <1>4, <1>5

\* A request that moves without coming to hold its run is quiet.
LEMMA QuietActor ==
  ASSUME Handover, NEW q,
         \A p \in Requests \ {q} : req'[p] = req[p],
         \A t \in Launches : /\ task'[t].pc = task[t].pc /\ task'[t].run = task[t].run
                             /\ task'[t].step = task[t].step,
         q \in Launches => req[q].pc # "done" /\ req'[q].pc \notin {"launch", "resume"},
         q \in Answers => req'[q].pc # "answer"
  PROVE  (\A p \in Launches : QuietLaunch(p)) /\ (\A a \in Answers : QuietAnswer(a))
<1>0. Launches \subseteq Requests /\ Answers \subseteq Requests
  BY DEF Requests, Launches
<1>1. ASSUME NEW p \in Launches \ {q} PROVE QuietLaunch(p)
  <2>1. req'[p] = req[p]
    BY <1>0
  <2> QED BY <2>1 DEF QuietLaunch, Handover, Held, HeldRun, RunOf, Driving, At, TaskAt
<1>2. CASE q \in Launches
  <2>1. task[q].pc = "idle" /\ ~Driving(q) /\ ~Driving(q)'
    BY <1>2 DEF Handover, Driving, Loop
  <2>2. ASSUME NEW p \in Launches, p = q PROVE QuietLaunch(p)
    <3>1. task'[p].pc = "idle" /\ ~Driving(p)' /\ req'[p].pc \notin {"launch", "resume"}
      BY <1>2, <2>1, <2>2 DEF Driving
    <3> QED BY <3>1 DEF QuietLaunch, Held, At
  <2>3. ASSUME NEW a \in Answers PROVE QuietAnswer(a)
    BY <1>0 DEF QuietAnswer, At
  <2>4. ASSUME NEW p \in Launches PROVE QuietLaunch(p)
    BY <1>1, <2>2
  <2> QED BY <2>3, <2>4
<1>3. CASE q \notin Launches
  BY <1>0, <1>1, <1>3 DEF QuietAnswer, Launches
<1> QED BY <1>2, <1>3

LEMMA QuietCreators ==
  ASSUME Typed, Handover, NEW r \in Runs,
         CheckStart(r) \/ CheckRegenerate(r) \/ CheckRetry(r) \/ InsertConflict(r)
  PROVE  Quiet
<1>0. req \in [Requests -> RequestType] /\ r \in Requests /\ r \notin Answers
  BY DistinctAssumption DEF Typed, TypeOK, Requests, Launches
<1>1. UNCHANGED <<run, steps, task>>
  BY DEF CheckStart, CheckRegenerate, CheckRetry, InsertConflict, dbVars
<1>2. \A p \in Requests \ {r} : req'[p] = req[p]
  BY <1>0 DEF CheckStart, CheckRegenerate, CheckRetry, InsertConflict, ReqGoes, ReqEnds
<1>3. req[r].pc # "done" /\ req'[r].pc \in {"start", "regenerate", "retry", "done"}
  <2>1. req[r] \in RequestType
    BY <1>0
  <2>2. CASE CheckStart(r)
    BY <1>0, <2>1, <2>2 DEF CheckStart, Precheck, ReqGoes, At, RequestType
  <2>3. CASE CheckRegenerate(r)
    <3>1. PICK from, at :
             req' = [req EXCEPT ![r].pc = "regenerate", ![r].at = at, ![r].from = from]
      BY <2>3 DEF CheckRegenerate
    <3>2. req'[r].pc = "regenerate"
      BY <1>0, <2>1, <3>1 DEF RequestType
    <3> QED BY <2>3, <3>2 DEF CheckRegenerate, Precheck, At
  <2>4. CASE CheckRetry(r)
    <3>1. PICK at : req' = [req EXCEPT ![r].pc = "retry", ![r].at = at]
      BY <2>4 DEF CheckRetry
    <3>2. req'[r].pc = "retry"
      BY <1>0, <2>1, <3>1 DEF RequestType
    <3> QED BY <2>4, <3>2 DEF CheckRetry, Precheck, At
  <2>5. CASE InsertConflict(r)
    BY <1>0, <2>5 DEF InsertConflict, ReqEnds, At, NoRequest
  <2> QED BY <2>2, <2>3, <2>4, <2>5
<1>4. (\A p \in Launches : QuietLaunch(p)) /\ (\A a \in Answers : QuietAnswer(a))
  BY <1>0, <1>1, <1>2, <1>3, QuietActor
<1> QED BY <1>1, <1>4, QuietRows, QuietWrites DEF Quiet

\* A step whose only actor is a request outside Launches.
LEMMA QuietOutsiders ==
  ASSUME Typed, Aimed, Handover, NEW q \in Cancels \cup Edits,
         (q \in Cancels /\ ((\E r \in Runs : CheckCancel(q, r)) \/ CancelRequest(q)))
         \/ (q \in Edits /\ (CheckArchive(q) \/ (\E c \in Contexts : CheckRebind(q, c))
                             \/ Archive(q) \/ Rebind(q))),
         NEW x \in Runs
  PROVE  Quiet
<1> USE DEF boundVars, dbVars
<1>0. req \in [Requests -> RequestType] /\ q \in Requests /\ q \notin Launches
      /\ q \notin Answers /\ task \in [Launches -> TaskType] /\ run \in [Runs -> RunType]
  BY DistinctAssumption DEF Typed, TypeOK, Requests, Launches
<1>1. \A p \in Requests \ {q} : req'[p] = req[p]
  BY <1>0 DEF CheckCancel, CancelRequest, CancelSignal, CancelMark, CancelSteps, CheckArchive,
              CheckRebind, Archive, Rebind, ReqGoes, ReqEnds
<1>2. \A t \in Launches : /\ task'[t].pc = task[t].pc /\ task'[t].run = task[t].run
                          /\ task'[t].step = task[t].step
  <2>1. task' = task \/ \E t : task' = [task EXCEPT ![t].canceled = TRUE]
    BY DEF CheckCancel, CancelRequest, CancelSignal, CancelMark, CancelSteps, CheckArchive,
           CheckRebind, Archive, Rebind
  <2>2. \A t \in Launches : task[t] \in TaskType
    BY <1>0
  <2>3. ASSUME NEW u, task' = [task EXCEPT ![u].canceled = TRUE], NEW t \in Launches
        PROVE  /\ task'[t].pc = task[t].pc /\ task'[t].run = task[t].run
               /\ task'[t].step = task[t].step
    BY <2>2, <2>3, <1>0 DEF TaskType
  <2> QED BY <2>1, <2>3
<1>3. (\A p \in Launches : QuietLaunch(p)) /\ (\A a \in Answers : QuietAnswer(a))
  BY <1>0, <1>1, <1>2, QuietActor
<1>4. \A s \in Runs : QuietSteps(s)
  <2>1. CASE CancelSteps(q) /\ q \in Cancels
    <3>1. req[q].run \in Runs /\ CloseSteps(req[q].run)
      BY <2>1 DEF CancelSteps, CancelTail, ReqEnds, At, Aimed
    <3> QED BY <3>1, QuietWrites
  <2>2. CASE steps' = steps
    BY <2>2, QuietWrites
  <2> QED BY <2>1, <2>2
          DEF CheckCancel, CancelRequest, CancelSignal, CancelMark, CheckArchive, CheckRebind,
              Archive, Rebind
<1>5. \A s \in Runs : QuietStatus(s)
  <2>1. CASE CancelMark(q) /\ q \in Cancels
    <3>1. PICK r \in Runs : r = req[q].run
      BY <2>1 DEF CancelMark, ReqGoes, At, Aimed
    <3>2. run' = run \/ (Status(r) # "none" /\ RunGoes(r, "canceled"))
      BY <2>1, <3>1 DEF CancelMark, MarkCanceled, CancelHits, Active
    <3> QED BY <3>2, QuietRows
  <2>2. CASE run' = run
    BY <2>2, QuietRows
  <2> QED BY <2>1, <2>2
          DEF CheckCancel, CancelRequest, CancelSignal, CancelSteps, CheckArchive, CheckRebind,
              Archive, Rebind
<1> QED BY <1>3, <1>4, <1>5 DEF Quiet

LEMMA QuietAnswers ==
  ASSUME Typed, Aimed, Handover, NEW a \in Answers, AnswerConflict(a) \/ AnswerResume(a)
  PROVE  Quiet
<1> USE DEF boundVars, dbVars
<1>0. req \in [Requests -> RequestType] /\ a \in Requests /\ a \in Launches /\ a \notin Runs
      /\ req[a] \in RequestType /\ run \in [Runs -> RunType]
  BY DistinctAssumption DEF Typed, TypeOK, Requests, Launches
<1>1. UNCHANGED <<steps, task>>
  BY DEF AnswerConflict, AnswerResume
<1>2. \A p \in Requests \ {a} : req'[p] = req[p]
  BY <1>0 DEF AnswerConflict, AnswerResume, ReqGoes, ReqEnds
<1>3. PICK r \in Runs : r = req[a].run
  BY DEF AnswerConflict, AnswerResume, ReqGoes, At, Aimed
<1>s. \A s \in Runs : QuietSteps(s)
  BY <1>1, QuietWrites
<1>4. CASE AnswerConflict(a)
  <2>1. req[a].pc # "done" /\ req'[a].pc = "done" /\ run' = run
    BY <1>0, <1>4 DEF AnswerConflict, ReqEnds, At, NoRequest
  <2>2. (\A p \in Launches : QuietLaunch(p)) /\ (\A b \in Answers : QuietAnswer(b))
    BY <1>0, <1>1, <1>2, <2>1, QuietActor
  <2> QED BY <1>s, <1>3, <2>1, <2>2, QuietRows DEF Quiet
<1>5. CASE AnswerResume(a)
  <2>1. /\ At(a, "resume") /\ req' = [req EXCEPT ![a].pc = "launch"]
        /\ IF run[r].status \in {"queued", "waiting_user"} THEN RunGoes(r, "running")
           ELSE run' = run
    BY <1>3, <1>5 DEF AnswerResume, ReqGoes, MarkRunning, Status
  <2>2. \A s \in Runs : QuietStatus(s)
    BY <2>1, QuietRows DEF Status
  <2>3. req'[a].pc = "launch" /\ req'[a].run = r
    BY <1>0, <1>3, <2>1 DEF RequestType
  <2>4. run'[r].status # "waiting_user"
    BY <2>1, RowMoves
  <2>5. ~Driving(a) /\ ~Driving(a)' /\ task'[a].pc = "idle"
    BY <1>0, <1>1, <2>1 DEF Handover, Driving, Loop, At
  <2>6. QuietLaunch(a)
    <3>1. Held(a) /\ HeldRun(a) = r /\ HeldRun(a)' = r
      BY <1>0, <1>3, <2>1, <2>3, <2>5 DEF Held, HeldRun, RunOf
    <3>2. ~TaskAt(a, "ask")
      BY <2>5 DEF Driving, TaskAt, Loop
    <3> QED BY <2>4, <2>5, <3>1, <3>2 DEF QuietLaunch
  <2>7. \A p \in Launches \ {a} : QuietLaunch(p)
    <3>1. \A p \in Launches \ {a} : req'[p] = req[p]
      BY <1>2 DEF Requests
    <3> QED BY <1>1, <3>1 DEF QuietLaunch, Handover, Held, HeldRun, RunOf, Driving, At, TaskAt
  <2>8. \A b \in Answers : QuietAnswer(b)
    BY <1>0, <1>2, <2>3 DEF QuietAnswer, At, Requests, Launches
  <2> QED BY <1>s, <2>2, <2>6, <2>7, <2>8 DEF Quiet
<1> QED BY <1>4, <1>5

LEMMA QuietLaunching ==
  ASSUME Typed, Aimed, Handover, NEW q \in Launches, Launch(q)
  PROVE  Quiet
<1> USE DEF boundVars, dbVars
<1>0. req \in [Requests -> RequestType] /\ q \in Requests /\ task \in [Launches -> TaskType]
  BY DEF Typed, TypeOK, Requests
<1>1. UNCHANGED <<run, steps>> /\ RunOf(q) \in Runs
  BY TypeLaunch DEF Launch
<1>2. /\ At(q, "launch") /\ req'[q].pc = "done"
      /\ \A p \in Requests \ {q} : req'[p] = req[p]
  BY <1>0 DEF Launch, ReqEnds, NoRequest
<1>3. /\ task'[q].pc = "start" /\ task'[q].run = RunOf(q)
      /\ \A p \in Launches \ {q} : task'[p] = task[p]
  BY <1>0 DEF Launch, NoTask
<1>4. QuietLaunch(q)
  <2>1. ~Driving(q) /\ ~TaskAt(q, "ask") /\ ~At(q, "resume")
    BY <1>2 DEF Handover, Driving, Loop, At, TaskAt
  <2>2. Held(q) /\ HeldRun(q) = RunOf(q)
    BY <1>2, <2>1 DEF Held, HeldRun
  <2>3. HeldRun(q)' = RunOf(q)
    BY <1>3 DEF HeldRun, Driving
  <2> QED BY <1>2, <2>1, <2>2, <2>3 DEF QuietLaunch
<1>5. \A p \in Launches \ {q} : QuietLaunch(p)
  <2>1. \A p \in Launches \ {q} : req'[p] = req[p]
    BY <1>2 DEF Requests
  <2> QED BY <1>3, <2>1 DEF QuietLaunch, Handover, Held, HeldRun, RunOf, Driving, At, TaskAt
<1>6. \A a \in Answers : QuietAnswer(a)
  BY <1>0, <1>2 DEF QuietAnswer, At, Requests, Launches
<1> QED BY <1>1, <1>4, <1>5, <1>6, QuietRows, QuietWrites DEF Quiet

\* Every step of a task but its question.
LEMMA QuietTasks ==
  ASSUME Typed, Aimed, Handover, OneHolder, NEW t \in Launches,
         TaskStep(t) \/ TaskFault(t) \/ TaskStream(t), ~TaskAsk(t)
  PROVE  Quiet
<1> USE DEF boundVars, dbVars
<1>0. TaskMoves(t)
  BY TaskMove
<1>1. PICK r \in Runs : r = task[t].run
  BY <1>0 DEF TaskMoves, Aimed
<1>2. /\ req' = req /\ req[t].pc = "done" /\ task'[t].run = r
      /\ \A p \in Launches \ {t} : task'[p] = task[p]
  BY <1>0, <1>1 DEF TaskMoves, Handover
<1>3. TaskAt(t, "ask") => ~Driving(t)'
  <2>1. SUFFICES ASSUME TaskAt(t, "ask") PROVE ~Driving(t)'
    OBVIOUS
  <2>2. \E pc \in {"fail", "leave"} : task' = [task EXCEPT ![t] = Out(t, pc)]
    BY <2>1 DEF TaskStep, TaskStart, TaskPrepare, TaskBegin, TaskTurn, TaskError, TaskStopped,
         TaskCall, TaskObserve, TaskAsk, TaskWait, TaskCommit, TaskFail, TaskFailSteps,
         TaskCancel, TaskCancelSteps, TaskTimeout, TaskLeave, TaskFault, TaskStream, TaskAt,
         TaskGoes, TaskExits, AfterFault
  <2>3. task'[t].pc \in {"fail", "leave"}
    BY <2>2 DEF Typed, TypeOK, Out, NoTask
  <2> QED BY <2>3 DEF Driving, Loop
<1>4. QuietLaunch(t)
  <2>1. ~At(t, "resume") /\ ~At(t, "launch") /\ ~At(t, "launch")' /\ ~At(t, "resume")'
    BY <1>2 DEF At
  <2>2. Driving(t)' => Driving(t) /\ ~TaskAt(t, "ask")
    BY <1>0, <1>3 DEF TaskMoves
  <2>3. Driving(t)' /\ Driving(t) => HeldRun(t)' = HeldRun(t)
    BY <1>1, <1>2 DEF HeldRun
  <2> QED BY <1>2, <2>1, <2>2, <2>3 DEF QuietLaunch, Held
<1>5. ASSUME NEW p \in Launches \ {t} PROVE QuietLaunch(p)
  BY <1>2 DEF QuietLaunch, Handover, Held, HeldRun, RunOf, Driving, At, TaskAt
<1>6. ASSUME NEW a \in Answers PROVE QuietAnswer(a)
  BY <1>2 DEF QuietAnswer
<1>7. \A s \in Runs : QuietSteps(s)
  <2>1. \/ steps' = steps
        \/ CloseSteps(r)
        \/ steps' = [steps EXCEPT ![r] = Append(@, "running")]
        \/ \E i : steps' = [steps EXCEPT ![r][i] = "closed"]
    <3>1. CASE TaskBegin(t) \/ TaskCall(t)
      BY <1>1, <3>1 DEF TaskBegin, TaskCall, NewStep
    <3>2. CASE TaskTurn(t) \/ TaskError(t) \/ TaskStopped(t) \/ TaskObserve(t)
      BY <1>1, <3>2 DEF TaskTurn, TaskError, TaskStopped, TaskObserve, FinishStep
    <3>3. CASE TaskFailSteps(t) \/ TaskCancelSteps(t) \/ TaskTimeout(t)
      BY <1>1, <3>3 DEF TaskFailSteps, TaskCancelSteps, CancelTail, TaskTimeout
    <3>4. CASE TaskStart(t) \/ TaskPrepare(t) \/ TaskWait(t) \/ TaskCommit(t) \/ TaskFail(t)
               \/ TaskCancel(t) \/ TaskLeave(t) \/ TaskFault(t) \/ TaskStream(t)
      BY <3>4 DEF TaskStart, TaskPrepare, TaskWait, TaskCommit, TaskFail, TaskCancel,
                  TaskLeave, TaskFault, TaskStream
    <3> QED BY <3>1, <3>2, <3>3, <3>4 DEF TaskStep
  <2> QED BY <2>1, QuietWrites
<1>8. \A s \in Runs : QuietStatus(s)
  <2>1. CASE TaskStart(t)
    <3>1. run' = run \/ (Status(r) # "none" /\ RunGoes(r, "running"))
      BY <1>1, <2>1 DEF TaskStart, MarkRunning
    <3> QED BY <3>1, QuietRows
  <2>2. CASE TaskCommit(t)
    <3>1. run' = run \/ CanComplete(r)
      BY <1>1, <2>2 DEF TaskCommit
    <3> QED BY <1>1, <2>2, <3>1, QuietRows
  <2>3. CASE TaskFail(t)
    <3>1. run' = run \/ (Status(r) # "none" /\ RunGoes(r, "failed"))
      BY <1>1, <2>3 DEF TaskFail, Active
    <3> QED BY <3>1, QuietRows
  <2>4. CASE TaskCancel(t)
    <3>1. run' = run \/ (Status(r) # "none" /\ RunGoes(r, "canceled"))
      BY <1>1, <2>4 DEF TaskCancel, MarkCanceled, CancelHits, Active
    <3> QED BY <3>1, QuietRows
  <2>5. CASE TaskWait(t)
    <3>1. CASE run' = run
      BY <3>1, QuietRows
    <3>2. CASE Status(r) = "running" /\ RunGoes(r, "waiting_user")
      <4>1. TaskAt(t, "ask") /\ Driving(t) /\ Holds(t, r)
        BY <1>1, <2>5 DEF TaskWait, TaskExits, TaskAt, Driving, Loop, Holds, Held, HeldRun
      <4>2. ~Held(t)'
        BY <1>2, <1>3, <4>1 DEF Held, At
      <4>3. ASSUME NEW q \in Launches, Holds(q, r)' PROVE FALSE
        <5>1. CASE q = t
          BY <4>2, <4>3, <5>1 DEF Holds, Held, Driving, At
        <5>2. CASE q # t
          <6>1. Holds(q, r)
            <7>1. QuietLaunch(q)
              BY <1>5, <5>2
            <7> QED BY <4>3, <7>1 DEF QuietLaunch, Holds
          <6> QED BY <4>1, <5>2, <6>1 DEF OneHolder
        <5> QED BY <5>1, <5>2
      <4>4. run'[r].status = "waiting_user" /\ \A s \in Runs \ {r} : run'[s] = run[s]
        BY <3>2, RowMoves
      <4>5. QuietStatus(r)
        BY <3>2, <4>3, <4>4 DEF QuietStatus, Status
      <4>6. ASSUME NEW s \in Runs \ {r} PROVE QuietStatus(s)
        BY <4>4 DEF QuietStatus
      <4> QED BY <4>5, <4>6
    <3> QED BY <1>1, <2>5, <3>1, <3>2 DEF TaskWait
  <2>6. CASE run' = run
    BY <2>6, QuietRows
  <2>7. CASE TaskPrepare(t) \/ TaskBegin(t) \/ TaskTurn(t) \/ TaskError(t) \/ TaskStopped(t)
             \/ TaskCall(t) \/ TaskObserve(t)
    BY <2>6, <2>7 DEF TaskPrepare, TaskBegin, TaskTurn, TaskError, TaskStopped, TaskCall,
                      TaskObserve
  <2>8. CASE TaskFailSteps(t) \/ TaskCancelSteps(t) \/ TaskTimeout(t) \/ TaskLeave(t)
             \/ TaskFault(t) \/ TaskStream(t)
    BY <2>6, <2>8 DEF TaskFailSteps, TaskCancelSteps, TaskTimeout, TaskLeave, TaskFault,
                      TaskStream
  <2> QED BY <2>1, <2>2, <2>3, <2>4, <2>5, <2>7, <2>8 DEF TaskStep
<1>9. ASSUME NEW p \in Launches PROVE QuietLaunch(p)
  <2>1. CASE p = t
    BY <1>4, <2>1 DEF QuietLaunch, Held, HeldRun, RunOf, Driving, At, TaskAt
  <2> QED BY <1>5, <2>1
<1> QED BY <1>6, <1>7, <1>8, <1>9 DEF Quiet

LEMMA QuietEnds ==
  ASSUME Typed, Handover, NEW x \in Runs,
         \/ \E c \in Contexts : EditTable(c)
         \/ \E s \in Streams : (\E r \in Runs : StreamOpen(s, r)) \/ StreamStep(s)
         \/ \E q \in Requests : Abandon(q)
         \/ Restart
         \/ UNCHANGED vars
  PROVE  Quiet
<1> USE DEF boundVars, dbVars
<1>0. req \in [Requests -> RequestType] /\ task \in [Launches -> TaskType]
      /\ Launches \subseteq Requests /\ Answers \subseteq Requests
  BY DEF Typed, TypeOK, Requests, Launches
<1>1. ASSUME UNCHANGED <<run, steps, req, task>> PROVE Quiet
  <2>1. (\A p \in Launches : QuietLaunch(p)) /\ (\A a \in Answers : QuietAnswer(a))
    BY <1>1 DEF QuietLaunch, QuietAnswer, Handover, Held, HeldRun, RunOf, Driving, At, TaskAt
  <2> QED BY <1>1, <2>1, QuietRows, QuietWrites DEF Quiet
<1>2. ASSUME NEW q \in Requests, Abandon(q) PROVE Quiet
  <2>1. UNCHANGED <<run, steps, task>>
    BY <1>2 DEF Abandon
  <2>2. /\ req[q].pc # "done" /\ req'[q].pc = "done"
        /\ \A p \in Requests \ {q} : req'[p] = req[p]
    BY <1>0, <1>2 DEF Abandon, ReqEnds, At, NoRequest
  <2>3. (\A p \in Launches : QuietLaunch(p)) /\ (\A a \in Answers : QuietAnswer(a))
    BY <2>1, <2>2, QuietActor
  <2> QED BY <2>1, <2>3, QuietRows, QuietWrites DEF Quiet
<1>3. CASE Restart
  <2>1. \A q \in Requests : /\ req'[q].pc \in {"idle", "done"}
                            /\ req[q].pc = "done" => req'[q].pc = "done"
    BY <1>0, <1>3 DEF Restart, Ended, NoRequest
  <2>2. \A t \in Launches : /\ task'[t].pc \in {"idle", "done"}
                            /\ task'[t].pc # "idle" => task[t].pc # "idle"
    BY <1>0, <1>3 DEF Restart, Out, NoTask, TaskAt
  <2>3. ASSUME NEW p \in Launches PROVE QuietLaunch(p)
    <3>1. ~Held(p)'
      BY <1>0, <2>1, <2>2 DEF Held, Driving, Loop, At
    <3> QED BY <1>0, <2>1, <2>2, <3>1 DEF QuietLaunch, Handover
  <2>4. ASSUME NEW a \in Answers PROVE QuietAnswer(a)
    BY <1>0, <2>1 DEF QuietAnswer, At
  <2> QED BY <1>3, <2>3, <2>4, QuietRows, QuietWrites DEF Quiet
<1>4. CASE \E s \in Streams : (\E r \in Runs : StreamOpen(s, r)) \/ StreamStep(s)
  BY <1>1, <1>4
     DEF StreamOpen, StreamStep, StreamSubscribe, StreamReread, StreamPush, StreamLast
<1> QED BY <1>1, <1>2, <1>3, <1>4 DEF EditTable, vars

\* The creating transaction gives the new run to its request.
LEMMA LoopInsert ==
  ASSUME Typed, Aimed, Creators, LoopInv, NEW r \in Runs, InsertRun(r)
  PROVE  LoopInv'
<1>0. /\ req \in [Requests -> RequestType] /\ r \in Requests /\ r \in Launches /\ r \notin Answers
      /\ req[r] \in RequestType /\ Launches \subseteq Requests /\ Answers \subseteq Launches
  BY DistinctAssumption DEF Typed, TypeOK, Requests, Launches
<1>1. UNCHANGED <<steps, task>>
  BY DEF InsertRun
<1>2. PICK from \in {"start", "regenerate", "retry"} : ReqGoes(r, from, "launch")
  BY DEF InsertRun
<1>3. /\ req[r].pc \in Fresh /\ req'[r].pc = "launch"
      /\ \A p \in Requests \ {r} : req'[p] = req[p]
  BY <1>0, <1>2 DEF ReqGoes, At, Fresh, RequestType
<1>4. /\ run[r].status = "none" /\ run'[r].status = "queued"
      /\ \A s \in Runs \ {r} : run'[s] = run[s]
  BY <1>3, RowMoves DEF Creators, Status
<1>5. (\A q \in Launches : ~Holds(q, r)) /\ (\A i : ~WaitsAt(r, i))
  BY <1>4 DEF LoopInv, UnbornIsFree
<1>6. task[r].pc = "idle" /\ ~Driving(r)'
  BY <1>0, <1>1, <1>3 DEF LoopInv, Handover, Fresh, Driving, Loop
<1>h. ASSUME NEW q \in Launches, NEW s \in Runs, Holds(q, s)'
      PROVE  \/ q = r /\ s = r
             \/ q # r /\ s # r /\ Holds(q, s)
  <2>1. CASE q = r
    <3>1. HeldRun(q)' = r
      BY <1>6, <2>1 DEF HeldRun, RunOf, Driving
    <3> QED BY <1>h, <2>1, <3>1 DEF Holds
  <2>2. CASE q # r
    <3>1. req'[q] = req[q]
      BY <1>0, <1>3, <2>2
    <3>2. Holds(q, s)
      BY <1>1, <1>h, <3>1 DEF Holds, Held, HeldRun, Driving, RunOf, At
    <3> QED BY <1>5, <2>2, <3>2
  <2> QED BY <2>1, <2>2
<1>w. ASSUME NEW s, NEW i PROVE WaitsAt(s, i)' = WaitsAt(s, i)
  BY <1>1 DEF WaitsAt
<1>7. Handover'
  BY <1>0, <1>1, <1>3, <1>6 DEF LoopInv, Handover
<1>8. OneHolder'
  BY <1>h DEF LoopInv, OneHolder
<1>9. OneQuestion'
  BY <1>w DEF LoopInv, OneQuestion
<1>10. AskerHolds'
  <2>1. SUFFICES ASSUME NEW s \in Runs, NEW q \in Launches, NEW i,
                        WaitsAt(s, i), Holds(q, s)'
                 PROVE  TaskAt(q, "ask") /\ task[q].step = i
    BY <1>1, <1>w DEF AskerHolds, TaskAt
  <2> QED BY <1>5, <1>h, <2>1 DEF LoopInv, AskerHolds
<1>11. WaitingIsFree'
  <2>1. SUFFICES ASSUME NEW s \in Runs, NEW q \in Launches,
                        run'[s].status = "waiting_user", Holds(q, s)'
                 PROVE  At(q, "resume")'
    BY DEF WaitingIsFree
  <2>2. s # r /\ q # r /\ Holds(q, s) /\ run[s].status = "waiting_user" /\ req'[q] = req[q]
    BY <1>0, <1>3, <1>4, <1>h, <2>1
  <2>3. At(q, "resume")
    BY <2>2 DEF LoopInv, WaitingIsFree
  <2> QED BY <2>2, <2>3 DEF At
<1>12. AnswersRead'
  <2>1. SUFFICES ASSUME NEW a \in Answers, At(a, "answer")' PROVE AnswerRead(a)'
    BY DEF AnswersRead
  <2>2. req'[a] = req[a]
    BY <1>0, <1>3
  <2>3. AnswerRead(a)
    BY <2>1, <2>2 DEF LoopInv, AnswersRead, At
  <2>4. PICK s \in Runs : s = req[a].run
    BY <2>1, <2>2 DEF Aimed, At
  <2>5. /\ req[a].at \in DOMAIN steps[s] /\ steps[s][req[a].at] \in {"waiting", "closed"}
        /\ run[s].status # "none"
        /\ steps[s][req[a].at] = "waiting" => \A q \in Launches : ~Holds(q, s)
    BY <2>3, <2>4 DEF AnswerRead
  <2>6. s # r
    BY <1>4, <2>5
  <2>7. ASSUME NEW q \in Launches, Holds(q, s)' PROVE Holds(q, s)
    BY <1>h, <2>6, <2>7
  <2>8. run'[s].status # "none"
    BY <1>4, <2>5, <2>6
  <2> QED BY <1>1, <2>2, <2>4, <2>5, <2>7, <2>8 DEF AnswerRead
<1>13. UnbornIsFree'
  <2>1. \A s \in Runs : run'[s].status = "none" => s # r /\ run[s].status = "none"
    BY <1>4
  <2> QED BY <1>h, <1>w, <2>1 DEF LoopInv, UnbornIsFree
<1> QED BY <1>7, <1>8, <1>9, <1>10, <1>11, <1>12, <1>13 DEF LoopInv

\* An answer reads the waiting step of a waiting run: nobody holds that run.
LEMMA LoopCheckAnswer ==
  ASSUME Typed, LoopInv, NEW a \in Answers, NEW r \in Runs, CheckAnswer(a, r)
  PROVE  LoopInv'
<1>0. /\ req \in [Requests -> RequestType] /\ a \in Requests /\ a \in Launches /\ a \notin Runs
      /\ req[a] \in RequestType /\ Launches \subseteq Requests /\ Answers \subseteq Launches
  BY DistinctAssumption DEF Typed, TypeOK, Requests, Launches
<1>1. UNCHANGED <<run, steps, task>>
  BY DEF CheckAnswer, dbVars
<1>2. PICK i \in DOMAIN steps[r] :
          /\ WaitsAt(r, i)
          /\ req' = [req EXCEPT ![a].pc = "answer", ![a].run = r, ![a].at = i]
  BY DEF CheckAnswer, LastWaiting, WaitsAt
<1>3. /\ req[a].pc = "idle" /\ req'[a].pc = "answer" /\ req'[a].run = r /\ req'[a].at = i
      /\ \A p \in Requests \ {a} : req'[p] = req[p]
  BY <1>0, <1>2 DEF CheckAnswer, At, RequestType
<1>4. task[a].pc = "idle" /\ ~Driving(a)
  BY <1>0, <1>3 DEF LoopInv, Handover, Driving, Loop
<1>h. ASSUME NEW q \in Launches, NEW s, Holds(q, s)'
      PROVE  q # a /\ req'[q] = req[q] /\ Holds(q, s)
  <2>1. q # a
    BY <1>1, <1>3, <1>4, <1>h DEF Holds, Held, Driving, At
  <2>2. req'[q] = req[q]
    BY <1>0, <1>3, <2>1
  <2> QED BY <1>1, <1>h, <2>1, <2>2 DEF Holds, Held, HeldRun, Driving, RunOf, At
<1>w. ASSUME NEW s, NEW k PROVE WaitsAt(s, k)' = WaitsAt(s, k)
  BY <1>1 DEF WaitsAt
<1>5. \A q \in Launches : ~Holds(q, r)
  <2>1. SUFFICES ASSUME NEW q \in Launches, Holds(q, r) PROVE FALSE
    OBVIOUS
  <2>2. At(q, "resume")
    BY <2>1 DEF CheckAnswer, Status, LoopInv, WaitingIsFree
  <2>3. TaskAt(q, "ask")
    BY <1>2, <2>1 DEF LoopInv, AskerHolds
  <2> QED BY <2>2, <2>3 DEF LoopInv, Handover, At, TaskAt
<1>6. Handover'
  BY <1>0, <1>1, <1>3, <1>4 DEF LoopInv, Handover
<1>7. OneHolder'
  BY <1>h DEF LoopInv, OneHolder
<1>8. OneQuestion'
  BY <1>w DEF LoopInv, OneQuestion
<1>9. AskerHolds'
  BY <1>1, <1>h, <1>w DEF LoopInv, AskerHolds, TaskAt
<1>10. WaitingIsFree'
  BY <1>1, <1>h DEF LoopInv, WaitingIsFree, At
<1>11. AnswersRead'
  <2>1. AnswerRead(a)'
    <3>1. run[r].status # "none" /\ steps[r][i] = "waiting"
      BY <1>2 DEF CheckAnswer, Status, WaitsAt
    <3>2. \A q \in Launches : ~Holds(q, r)'
      BY <1>5, <1>h
    <3> QED BY <1>1, <1>3, <3>1, <3>2 DEF AnswerRead
  <2>2. ASSUME NEW b \in Answers, At(b, "answer")', b # a PROVE AnswerRead(b)'
    <3>1. req'[b] = req[b]
      BY <1>0, <1>3, <2>2
    <3>2. AnswerRead(b)
      BY <2>2, <3>1 DEF LoopInv, AnswersRead, At
    <3> QED BY <1>1, <1>h, <3>1, <3>2 DEF AnswerRead
  <2>3. ASSUME NEW b \in Answers, b = a PROVE AnswerRead(b)'
    BY <2>1, <2>3 DEF AnswerRead
  <2> QED BY <2>2, <2>3 DEF AnswersRead
<1>12. UnbornIsFree'
  BY <1>1, <1>h, <1>w DEF LoopInv, UnbornIsFree
<1> QED BY <1>6, <1>7, <1>8, <1>9, <1>10, <1>11, <1>12 DEF LoopInv

\* The answer that closes the waiting step takes the run; no other can.
LEMMA LoopAnswerStep ==
  ASSUME Typed, Aimed, LoopInv, NEW a \in Answers, AnswerStep(a)
  PROVE  LoopInv'
<1>0. /\ req \in [Requests -> RequestType] /\ a \in Requests /\ a \in Launches /\ a \notin Runs
      /\ req[a] \in RequestType /\ Launches \subseteq Requests /\ Answers \subseteq Launches
      /\ steps \in [Runs -> Seq(StepStatus)]
  BY DistinctAssumption DEF Typed, TypeOK, Requests, Launches, StepStatus
<1>1. UNCHANGED <<run, task>>
  BY DEF AnswerStep
<1>2. PICK r \in Runs : r = req[a].run
  BY DEF AnswerStep, At, Aimed
<1>3. PICK i : i = req[a].at
  OBVIOUS
<1>4. /\ req[a].pc = "answer" /\ steps[r][i] = "waiting"
      /\ req' = [req EXCEPT ![a].pc = "resume"]
      /\ steps' = [steps EXCEPT ![r][i] = "closed"]
  BY <1>2, <1>3 DEF AnswerStep, ReqGoes, At
<1>5. /\ req'[a].pc = "resume" /\ req'[a].run = r
      /\ \A p \in Requests \ {a} : req'[p] = req[p]
  BY <1>0, <1>2, <1>4 DEF RequestType
<1>6. /\ i \in DOMAIN steps[r] /\ WaitsAt(r, i) /\ run[r].status # "none"
      /\ \A q \in Launches : ~Holds(q, r)
  BY <1>2, <1>3, <1>4 DEF LoopInv, AnswersRead, AnswerRead, At, WaitsAt
<1>7. /\ \A s \in Runs \ {r} : steps'[s] = steps[s]
      /\ DOMAIN steps'[r] = DOMAIN steps[r] /\ steps'[r][i] = "closed"
      /\ \A k \in DOMAIN steps[r] \ {i} : steps'[r][k] = steps[r][k]
  BY <1>0, <1>4, <1>6
<1>w. ASSUME NEW s \in Runs, NEW k, WaitsAt(s, k)'
      PROVE  s # r /\ WaitsAt(s, k)
  <2>1. s # r
    <3>1. SUFFICES ASSUME s = r PROVE FALSE
      OBVIOUS
    <3>2. k \in DOMAIN steps[r] /\ k # i
      BY <1>7, <1>w, <3>1 DEF WaitsAt
    <3>3. WaitsAt(r, k)
      BY <1>7, <1>w, <3>1, <3>2 DEF WaitsAt
    <3> QED BY <1>6, <3>2, <3>3 DEF LoopInv, OneQuestion
  <2> QED BY <1>7, <1>w, <2>1 DEF WaitsAt
<1>8. task[a].pc = "idle" /\ ~Driving(a)'
  BY <1>0, <1>1, <1>4 DEF LoopInv, Handover, Driving, Loop
<1>h. ASSUME NEW q \in Launches, NEW s, Holds(q, s)'
      PROVE  \/ q = a /\ s = r
             \/ q # a /\ s # r /\ req'[q] = req[q] /\ Holds(q, s)
  <2>1. CASE q = a
    <3>1. HeldRun(q)' = r
      BY <1>0, <1>5, <1>8, <2>1 DEF HeldRun, RunOf, Driving
    <3> QED BY <1>h, <2>1, <3>1 DEF Holds
  <2>2. CASE q # a
    <3>1. req'[q] = req[q]
      BY <1>0, <1>5, <2>2
    <3>2. Holds(q, s)
      BY <1>1, <1>h, <3>1 DEF Holds, Held, HeldRun, Driving, RunOf, At
    <3> QED BY <1>6, <2>2, <3>1, <3>2
  <2> QED BY <2>1, <2>2
<1>9. Handover'
  BY <1>0, <1>1, <1>5, <1>8 DEF LoopInv, Handover
<1>10. OneHolder'
  BY <1>h DEF LoopInv, OneHolder
<1>11. OneQuestion'
  BY <1>w DEF LoopInv, OneQuestion
<1>12. AskerHolds'
  <2>1. SUFFICES ASSUME NEW s \in Runs, NEW q \in Launches, NEW k,
                        WaitsAt(s, k)', Holds(q, s)'
                 PROVE  TaskAt(q, "ask") /\ task[q].step = k
    BY <1>1 DEF AskerHolds, TaskAt
  <2>2. WaitsAt(s, k) /\ Holds(q, s)
    BY <1>w, <1>h, <2>1
  <2> QED BY <2>2 DEF LoopInv, AskerHolds
<1>13. WaitingIsFree'
  <2>1. SUFFICES ASSUME NEW s \in Runs, NEW q \in Launches,
                        run[s].status = "waiting_user", Holds(q, s)'
                 PROVE  req'[q].pc = "resume"
    BY <1>1 DEF WaitingIsFree, At
  <2> QED BY <1>5, <1>h, <2>1 DEF LoopInv, WaitingIsFree, At
<1>14. AnswersRead'
  <2>1. SUFFICES ASSUME NEW b \in Answers, At(b, "answer")' PROVE AnswerRead(b)'
    BY DEF AnswersRead
  <2>2. b # a
    BY <1>5, <2>1 DEF At
  <2>3. req'[b] = req[b]
    BY <1>0, <1>5, <2>2
  <2>4. PICK s \in Runs : s = req[b].run
    BY <2>1, <2>3 DEF Aimed, At
  <2>5. PICK k : k = req[b].at
    OBVIOUS
  <2>6. /\ k \in DOMAIN steps[s] /\ steps[s][k] \in {"waiting", "closed"}
        /\ run[s].status # "none"
        /\ steps[s][k] = "waiting" => \A q \in Launches : ~Holds(q, s)
    BY <2>1, <2>3, <2>4, <2>5 DEF LoopInv, AnswersRead, AnswerRead, At
  <2>7. k \in DOMAIN steps'[s] /\ steps'[s][k] \in {"waiting", "closed"}
    BY <1>7, <2>6
  <2>8. ASSUME steps'[s][k] = "waiting", NEW q \in Launches PROVE ~Holds(q, s)'
    <3>1. WaitsAt(s, k)'
      BY <2>7, <2>8 DEF WaitsAt
    <3>2. s # r /\ WaitsAt(s, k)
      BY <1>w, <3>1
    <3> QED BY <1>h, <2>6, <3>2 DEF WaitsAt
  <2> QED BY <1>1, <2>3, <2>4, <2>5, <2>6, <2>7, <2>8 DEF AnswerRead
<1>15. UnbornIsFree'
  BY <1>1, <1>6, <1>h, <1>w DEF LoopInv, UnbornIsFree
<1> QED BY <1>9, <1>10, <1>11, <1>12, <1>13, <1>14, <1>15 DEF LoopInv

\* The task that asks holds the run, so nothing else was waiting.
LEMMA LoopAsk ==
  ASSUME Typed, Aimed, LoopInv, NEW t \in Launches, TaskAsk(t)
  PROVE  LoopInv'
<1>0. /\ steps \in [Runs -> Seq(StepStatus)] /\ task \in [Launches -> TaskType]
      /\ task[t] \in TaskType
  BY DEF Typed, TypeOK, StepStatus
<1>1. UNCHANGED <<run, req>>
  BY DEF TaskAsk
<1>2. PICK r \in Runs : r = task[t].run
  BY DEF TaskAsk, TaskAt, Aimed
<1>3. PICK i : i = task[t].step
  OBVIOUS
<1>4. /\ task[t].pc = "tool" /\ req[t].pc = "done"
      /\ steps' = IF steps[r][i] = "running" THEN [steps EXCEPT ![r][i] = "waiting"] ELSE steps
  BY <1>2, <1>3 DEF TaskAsk, TaskAt, FinishStep, LoopInv, Handover
<1>5. /\ task'[t].pc = "ask" /\ task'[t].run = r /\ task'[t].step = i
      /\ \A q \in Launches \ {t} : task'[q] = task[q]
  BY <1>0, <1>2, <1>3 DEF TaskAsk, TaskType
<1>6. Holds(t, r)
  BY <1>2, <1>4 DEF Holds, Held, HeldRun, Driving, Loop
<1>7. \A k : ~WaitsAt(r, k)
  BY <1>4, <1>6 DEF LoopInv, AskerHolds, TaskAt
<1>h. ASSUME NEW q \in Launches, NEW s PROVE Holds(q, s)' <=> Holds(q, s)
  <2>1. CASE q # t
    <3>1. task'[q] = task[q]
      BY <1>5, <2>1
    <3> QED BY <1>1, <3>1 DEF Holds, Held, HeldRun, Driving, RunOf, At
  <2>2. CASE q = t
    BY <1>2, <1>4, <1>5, <2>2 DEF Holds, Held, HeldRun, Driving, Loop
  <2> QED BY <2>1, <2>2
<1>8. /\ \A s \in Runs \ {r} : steps'[s] = steps[s]
      /\ DOMAIN steps'[r] = DOMAIN steps[r]
      /\ \A k \in DOMAIN steps[r] : steps'[r][k] = steps[r][k] \/ (k = i /\ steps[r][k] = "running")
  BY <1>0, <1>4
<1>w. ASSUME NEW s \in Runs, NEW k, WaitsAt(s, k)'
      PROVE  \/ s = r /\ k = i
             \/ s # r /\ WaitsAt(s, k)
  <2>1. CASE s # r
    BY <1>8, <1>w, <2>1 DEF WaitsAt
  <2>2. CASE s = r
    BY <1>7, <1>8, <1>w, <2>2 DEF WaitsAt
  <2> QED BY <2>1, <2>2
<1>9. Handover'
  BY <1>1, <1>4, <1>5 DEF LoopInv, Handover
<1>10. OneHolder'
  BY <1>h DEF LoopInv, OneHolder
<1>11. OneQuestion'
  BY <1>w DEF LoopInv, OneQuestion
<1>12. AskerHolds'
  <2>1. SUFFICES ASSUME NEW s \in Runs, NEW q \in Launches, NEW k,
                        WaitsAt(s, k)', Holds(q, s)
                 PROVE  task'[q].pc = "ask" /\ task'[q].step = k
    BY <1>h DEF AskerHolds, TaskAt
  <2>2. CASE s = r
    <3>1. k = i /\ q = t
      BY <1>6, <1>w, <2>1, <2>2 DEF LoopInv, OneHolder
    <3> QED BY <1>5, <3>1
  <2>3. CASE s # r
    <3>1. TaskAt(q, "ask") /\ task[q].step = k
      BY <1>w, <2>1, <2>3 DEF LoopInv, AskerHolds
    <3>2. q # t
      BY <1>4, <3>1 DEF TaskAt
    <3> QED BY <1>5, <3>1, <3>2 DEF TaskAt
  <2> QED BY <2>2, <2>3
<1>13. WaitingIsFree'
  BY <1>1, <1>h DEF LoopInv, WaitingIsFree, At
<1>14. AnswersRead'
  <2>1. SUFFICES ASSUME NEW b \in Answers, At(b, "answer") PROVE AnswerRead(b)'
    BY <1>1 DEF AnswersRead, At
  <2>2. PICK s \in Runs : s = req[b].run
    BY <2>1 DEF Aimed, At
  <2>3. PICK k : k = req[b].at
    OBVIOUS
  <2>4. /\ k \in DOMAIN steps[s] /\ steps[s][k] \in {"waiting", "closed"}
        /\ run[s].status # "none"
        /\ steps[s][k] = "waiting" => \A q \in Launches : ~Holds(q, s)
    BY <2>1, <2>2, <2>3 DEF LoopInv, AnswersRead, AnswerRead
  <2>5. k \in DOMAIN steps'[s] /\ steps'[s][k] = steps[s][k]
    BY <1>8, <2>4
  <2>6. steps'[s][k] = "waiting" => \A q \in Launches : ~Holds(q, s)'
    BY <1>h, <2>4, <2>5
  <2> QED BY <1>1, <2>2, <2>3, <2>4, <2>5, <2>6 DEF AnswerRead
<1>15. UnbornIsFree'
  <2>1. run[r].status # "none"
    BY <1>6 DEF LoopInv, UnbornIsFree
  <2> QED BY <1>1, <1>h, <1>w, <2>1 DEF LoopInv, UnbornIsFree
<1> QED BY <1>9, <1>10, <1>11, <1>12, <1>13, <1>14, <1>15 DEF LoopInv

LEMMA LoopNext ==
  ASSUME TurnInv, LoopInv, [Next]_vars
  PROVE  LoopInv'
<1>0. Typed /\ Aimed /\ Creators /\ Handover /\ OneHolder
  BY DEF TurnInv, LoopInv
<1>1. CASE Runs = {}
  <2>1. (Typed /\ Aimed)'
    BY <1>0, TypeNext, AimedNext
  <2>2. \A q \in Launches : task'[q].pc = "idle"
    BY <1>1, <2>1 DEF Aimed
  <2>3. \A a \in Answers : ~At(a, "answer")'
    BY <1>1, <2>1 DEF Aimed, At
  <2> QED BY <1>1, <2>2, <2>3
          DEF LoopInv, Handover, OneHolder, OneQuestion, AskerHolds, WaitingIsFree,
              AnswersRead, UnbornIsFree
<1>2. ASSUME NEW x \in Runs PROVE LoopInv'
  <2>1. ASSUME Quiet PROVE LoopInv'
    BY <1>0, <2>1, QuietKeeps
  <2>2. ASSUME NEW r \in Runs,
               CheckStart(r) \/ CheckRegenerate(r) \/ CheckRetry(r) \/ InsertRun(r)
               \/ InsertConflict(r)
        PROVE  LoopInv'
    BY <1>0, <2>1, <2>2, QuietCreators, LoopInsert
  <2>3. ASSUME NEW q \in Launches, Launch(q) PROVE LoopInv'
    BY <1>0, <2>1, <2>3, QuietLaunching
  <2>4. ASSUME NEW a \in Answers,
               (\E r \in Runs : CheckAnswer(a, r))
               \/ AnswerStep(a) \/ AnswerConflict(a) \/ AnswerResume(a)
        PROVE  LoopInv'
    BY <1>0, <2>1, <2>4, QuietAnswers, LoopCheckAnswer, LoopAnswerStep
  <2>5. ASSUME NEW c \in Cancels, (\E r \in Runs : CheckCancel(c, r)) \/ CancelRequest(c)
        PROVE  LoopInv'
    BY <1>0, <1>2, <2>1, <2>5, QuietOutsiders
  <2>6. ASSUME NEW e \in Edits,
               CheckArchive(e) \/ (\E c \in Contexts : CheckRebind(e, c)) \/ Archive(e)
               \/ Rebind(e)
        PROVE  LoopInv'
    BY <1>0, <1>2, <2>1, <2>6, QuietOutsiders
  <2>7. ASSUME NEW t \in Launches, TaskStep(t) \/ TaskFault(t) \/ TaskStream(t)
        PROVE  LoopInv'
    BY <1>0, <2>1, <2>7, QuietTasks, LoopAsk
  <2>8. CASE \/ \E c \in Contexts : EditTable(c)
             \/ \E s \in Streams : (\E r \in Runs : StreamOpen(s, r)) \/ StreamStep(s)
             \/ \E q \in Requests : Abandon(q)
             \/ Restart
             \/ UNCHANGED vars
    BY <1>0, <1>2, <2>1, <2>8, QuietEnds
  <2> QED BY <2>2, <2>3, <2>4, <2>5, <2>6, <2>7, <2>8, NextCases
<1> QED BY <1>1, <1>2

LEMMA LoopInductive == Spec => []LoopInv
<1>1. Init => LoopInv
  <2>1. ASSUME Init PROVE LoopInv
    <3>1. \A q \in Launches : ~Held(q) /\ task[q].pc = "idle"
      BY <2>1 DEF Init, NoTask, NoRequest, Held, Driving, Loop, At, Requests
    <3>2. \A r \in Runs : \A i : ~WaitsAt(r, i)
      BY <2>1 DEF Init, WaitsAt
    <3>3. \A a \in Answers : ~At(a, "answer")
      BY <2>1 DEF Init, NoRequest, At, Requests, Launches
    <3> QED BY <3>1, <3>2, <3>3
            DEF LoopInv, Handover, OneHolder, OneQuestion, AskerHolds, WaitingIsFree,
                AnswersRead, UnbornIsFree, Holds
  <2> QED BY <2>1
<1>2. TurnInv /\ LoopInv /\ [Next]_vars => LoopInv'
  BY LoopNext
<1> QED BY <1>1, <1>2, TurnInductive, PTL DEF Spec

\* A run is driven by one task at a time: of two answers to a question only the one
\* that closes the waiting step launches a task, and an answer finds the question
\* only after the asking task has left its loop.
THEOREM OneLoopForever == Spec => []OneLoopPerRun
<1>1. TurnInv /\ LoopInv => OneLoopPerRun
  <2>1. SUFFICES ASSUME TurnInv, LoopInv, NEW t1 \in Launches, NEW t2 \in Launches,
                        Driving(t1), Driving(t2), task[t1].run = task[t2].run
                 PROVE  t1 = t2
    BY DEF OneLoopPerRun
  <2>2. task[t1].run \in Runs
    BY <2>1 DEF TurnInv, Aimed, Driving, Loop
  <2>3. Holds(t1, task[t1].run) /\ Holds(t2, task[t1].run)
    BY <2>1 DEF Holds, Held, HeldRun
  <2> QED BY <2>1, <2>2, <2>3 DEF LoopInv, OneHolder
<1> QED BY <1>1, TurnInductive, LoopInductive, PTL

-----------------------------------------------------------------------------
(* Running steps.  A step is shown as running only while the task that      *)
(* wrote it is still waiting for the model or the tool: whatever takes the  *)
(* task away from there closes the step, unless a database error does.      *)

RunsAt(r, i) == i \in DOMAIN steps[r] /\ steps[r][i] = "running"
Writes(t, r, i) == /\ task[t].run = r /\ task[t].step = i
                   /\ task[t].pc \in {"model", "tool"}
StepsAreOwned ==
  faults = 0 =>
      \A r \in Runs : \A i : RunsAt(r, i) => \E t \in Launches : Writes(t, r, i)

\* A step of anybody but a task: tasks in the middle of a step stay there.
LEMMA OwnedByOthers ==
  ASSUME StepsAreOwned, faults' = faults,
         \A r \in Runs : \A i : RunsAt(r, i)' => RunsAt(r, i),
         \A t \in Launches :
             task[t].pc \in {"model", "tool"} =>
                 /\ task'[t].pc = task[t].pc /\ task'[t].run = task[t].run
                 /\ task'[t].step = task[t].step
  PROVE  StepsAreOwned'
<1> SUFFICES ASSUME faults = 0, NEW r \in Runs, NEW i, RunsAt(r, i)'
             PROVE  \E t \in Launches : Writes(t, r, i)'
  BY DEF StepsAreOwned
<1>1. PICK t \in Launches : Writes(t, r, i)
  BY DEF StepsAreOwned
<1>2. Writes(t, r, i)'
  BY <1>1 DEF Writes
<1> QED BY <1>2

\* A step of task t: what it was writing is closed, what it starts is its own.
LEMMA OwnedByTask ==
  ASSUME StepsAreOwned, faults' = faults, NEW t \in Launches, TaskMoves(t),
         \A r \in Runs : \A i :
             RunsAt(r, i)' => (RunsAt(r, i) /\ ~Writes(t, r, i)) \/ Writes(t, r, i)'
  PROVE  StepsAreOwned'
<1> SUFFICES ASSUME faults = 0, NEW r \in Runs, NEW i, RunsAt(r, i)'
             PROVE  \E u \in Launches : Writes(u, r, i)'
  BY DEF StepsAreOwned
<1>1. CASE Writes(t, r, i)'
  BY <1>1
<1>2. CASE RunsAt(r, i) /\ ~Writes(t, r, i)
  <2>1. PICK u \in Launches : Writes(u, r, i)
    BY <1>2 DEF StepsAreOwned
  <2>2. u # t
    BY <1>2, <2>1
  <2>3. Writes(u, r, i)'
    BY <2>1, <2>2 DEF Writes, TaskMoves
  <2> QED BY <2>3
<1> QED BY <1>1, <1>2

\* What the writes of ai_steps do to the running steps.
LEMMA RunningAfter ==
  ASSUME Typed, NEW r \in Runs
  PROVE  /\ CloseSteps(r) =>
                \A s \in Runs : \A i : RunsAt(s, i)' => s # r /\ RunsAt(s, i)
         /\ \A i : steps' = [steps EXCEPT ![r][i] = "closed"] =>
                \A s \in Runs : \A k : RunsAt(s, k)' => RunsAt(s, k)
         /\ \A t \in Launches, to \in {"closed", "waiting"} :
                task[t].run = r /\ FinishStep(t, to) =>
                    \A s \in Runs : \A k :
                        RunsAt(s, k)' => RunsAt(s, k) /\ ~Writes(t, s, k)
         /\ \A t \in Launches :
                task[t].run = r /\ NewStep(t) =>
                    \A s \in Runs : \A k :
                        RunsAt(s, k)' => \/ RunsAt(s, k)
                                         \/ s = r /\ k = Len(steps[r]) + 1
<1>0. steps \in [Runs -> Seq(StepStatus)]
  BY DEF Typed, TypeOK, StepStatus
<1>1. ASSUME CloseSteps(r), NEW s \in Runs, NEW i, RunsAt(s, i)'
      PROVE  s # r /\ RunsAt(s, i)
  BY <1>0, <1>1 DEF CloseSteps, RunsAt
<1>2. ASSUME NEW to \in {"closed", "waiting"}, NEW i, NEW s \in Runs, NEW k, RunsAt(s, k)',
             steps' = [steps EXCEPT ![r][i] = to]
      PROVE  RunsAt(s, k) /\ ~(s = r /\ k = i)
  BY <1>0, <1>2 DEF RunsAt
<1>3. ASSUME NEW t \in Launches, NEW to \in {"closed", "waiting"}, task[t].run = r,
             FinishStep(t, to), NEW s \in Runs, NEW k, RunsAt(s, k)'
      PROVE  RunsAt(s, k) /\ ~Writes(t, s, k)
  <2>1. \/ steps' = [steps EXCEPT ![r][task[t].step] = to]
        \/ steps[r][task[t].step] # "running" /\ steps' = steps
    BY <1>3 DEF FinishStep
  <2> QED BY <1>2, <1>3, <2>1 DEF RunsAt, Writes
<1>4. ASSUME NEW t \in Launches, task[t].run = r, NewStep(t),
             NEW s \in Runs, NEW k, RunsAt(s, k)'
      PROVE  RunsAt(s, k) \/ (s = r /\ k = Len(steps[r]) + 1)
  <2>1. steps' = [steps EXCEPT ![r] = Append(steps[r], "running")]
    BY <1>4 DEF NewStep
  <2>2. CASE s # r
    BY <1>0, <1>4, <2>1, <2>2 DEF RunsAt
  <2>3. CASE s = r
    <3>1. steps'[s] = Append(steps[r], "running") /\ steps[r] \in Seq(StepStatus)
      BY <1>0, <2>1, <2>3
    <3>2. /\ DOMAIN steps'[s] = DOMAIN steps[r] \cup {Len(steps[r]) + 1}
          /\ \A i \in DOMAIN steps[r] : steps'[s][i] = steps[r][i]
      BY <3>1
    <3> QED BY <1>4, <2>3, <3>2 DEF RunsAt
  <2> QED BY <2>2, <2>3
<1>5. ASSUME NEW i, steps' = [steps EXCEPT ![r][i] = "closed"], NEW s \in Runs, NEW k,
             RunsAt(s, k)'
      PROVE  RunsAt(s, k)
  BY <1>2, <1>5
<1> QED BY <1>1, <1>3, <1>4, <1>5

LEMMA OwnedRequests ==
  ASSUME Typed, Aimed, Handover, StepsAreOwned,
         \/ \E r \in Runs : CheckStart(r) \/ CheckRegenerate(r) \/ CheckRetry(r)
                           \/ InsertRun(r) \/ InsertConflict(r)
         \/ \E q \in Launches : Launch(q)
         \/ \E a \in Answers : (\E r \in Runs : CheckAnswer(a, r))
                              \/ AnswerStep(a) \/ AnswerConflict(a) \/ AnswerResume(a)
         \/ \E c \in Cancels : (\E r \in Runs : CheckCancel(c, r)) \/ CancelRequest(c)
         \/ \E e \in Edits : CheckArchive(e) \/ (\E c \in Contexts : CheckRebind(e, c))
                            \/ Archive(e) \/ Rebind(e)
         \/ \E c \in Contexts : EditTable(c)
         \/ \E s \in Streams : (\E r \in Runs : StreamOpen(s, r)) \/ StreamStep(s)
         \/ UNCHANGED vars
  PROVE  StepsAreOwned'
<1> USE DEF boundVars, dbVars
<1>0. task \in [Launches -> TaskType]
  BY DEF Typed, TypeOK
<1>1. ASSUME UNCHANGED <<steps, task, faults>> PROVE StepsAreOwned'
  BY <1>1 DEF StepsAreOwned, RunsAt, Writes
<1>2. ASSUME NEW r \in Runs,
             CheckStart(r) \/ CheckRegenerate(r) \/ CheckRetry(r) \/ InsertRun(r)
             \/ InsertConflict(r)
      PROVE  StepsAreOwned'
  BY <1>1, <1>2 DEF CheckStart, CheckRegenerate, CheckRetry, InsertRun, InsertConflict
<1>3. ASSUME NEW q \in Launches, Launch(q) PROVE StepsAreOwned'
  <2>1. UNCHANGED <<steps, faults>> /\ \A p \in Launches \ {q} : task'[p] = task[p]
    BY <1>0, <1>3 DEF Launch
  <2>2. task[q].pc = "idle"
    BY <1>3 DEF Launch, ReqEnds, At, Handover
  <2> QED BY <2>1, <2>2, OwnedByOthers DEF RunsAt
<1>4. ASSUME NEW a \in Answers,
             (\E r \in Runs : CheckAnswer(a, r)) \/ AnswerStep(a) \/ AnswerConflict(a)
             \/ AnswerResume(a)
      PROVE  StepsAreOwned'
  <2>1. CASE AnswerStep(a)
    <3>1. req[a].run \in Runs
      BY <2>1 DEF AnswerStep, At, Aimed
    <3>2. /\ steps' = [steps EXCEPT ![req[a].run][req[a].at] = "closed"]
          /\ UNCHANGED <<task, faults>>
      BY <2>1 DEF AnswerStep
    <3>3. \A r \in Runs : \A i : RunsAt(r, i)' => RunsAt(r, i)
      BY <3>1, <3>2, RunningAfter
    <3> QED BY <3>2, <3>3, OwnedByOthers
  <2> QED BY <1>1, <1>4, <2>1 DEF CheckAnswer, AnswerConflict, AnswerResume
<1>5. ASSUME NEW c \in Cancels, (\E r \in Runs : CheckCancel(c, r)) \/ CancelRequest(c)
      PROVE  StepsAreOwned'
  <2>1. CASE CancelSignal(c)
    <3>1. /\ UNCHANGED <<steps, faults>>
          /\ task' = task \/ \E t : task' = [task EXCEPT ![t].canceled = TRUE]
      BY <2>1 DEF CancelSignal
    <3>2. ASSUME NEW u, task' = [task EXCEPT ![u].canceled = TRUE], NEW t \in Launches
          PROVE  /\ task'[t].pc = task[t].pc /\ task'[t].run = task[t].run
                 /\ task'[t].step = task[t].step
      BY <1>0, <3>2 DEF TaskType
    <3> QED BY <1>1, <3>1, <3>2, OwnedByOthers DEF RunsAt
  <2>2. CASE CancelSteps(c)
    <3>1. req[c].run \in Runs /\ CloseSteps(req[c].run) /\ UNCHANGED <<task, faults>>
      BY <2>2 DEF CancelSteps, CancelTail, ReqEnds, At, Aimed
    <3>2. \A r \in Runs : \A i : RunsAt(r, i)' => RunsAt(r, i)
      BY <3>1, RunningAfter
    <3> QED BY <3>1, <3>2, OwnedByOthers
  <2> QED BY <1>1, <1>5, <2>1, <2>2 DEF CheckCancel, CancelRequest, CancelMark
<1>6. ASSUME NEW e \in Edits,
             CheckArchive(e) \/ (\E c \in Contexts : CheckRebind(e, c)) \/ Archive(e)
             \/ Rebind(e)
      PROVE  StepsAreOwned'
  BY <1>1, <1>6 DEF CheckArchive, CheckRebind, Archive, Rebind
<1>7. ASSUME NEW s \in Streams, (\E r \in Runs : StreamOpen(s, r)) \/ StreamStep(s)
      PROVE  StepsAreOwned'
  BY <1>1, <1>7
     DEF StreamOpen, StreamStep, StreamSubscribe, StreamReread, StreamPush, StreamLast
<1> QED BY <1>1, <1>2, <1>3, <1>4, <1>5, <1>6, <1>7 DEF EditTable, vars

LEMMA OwnedTasks ==
  ASSUME Typed, Aimed, StepsAreOwned, NEW t \in Launches,
         TaskStep(t) \/ TaskFault(t) \/ TaskStream(t)
  PROVE  StepsAreOwned'
<1> USE DEF boundVars, dbVars
<1>0. TaskMoves(t) /\ task \in [Launches -> TaskType] /\ task[t] \in TaskType
  BY TaskMove DEF Typed, TypeOK
<1>1. PICK r \in Runs : r = task[t].run
  BY <1>0 DEF TaskMoves, Aimed
<1>2. CASE TaskFault(t)
  <2>1. faults' # 0
    BY <1>2 DEF TaskFault, Typed, TypeOK
  <2> QED BY <2>1 DEF StepsAreOwned
<1>3. CASE TaskStart(t) \/ TaskPrepare(t) \/ TaskWait(t) \/ TaskCommit(t) \/ TaskFail(t)
           \/ TaskCancel(t) \/ TaskLeave(t)
  <2>1. UNCHANGED <<steps, faults>> /\ task[t].pc \notin {"model", "tool"}
    BY <1>3 DEF TaskStart, TaskPrepare, TaskWait, TaskCommit, TaskFail, TaskCancel,
         TaskLeave, TaskAt, TaskGoes, TaskExits
  <2> QED BY <1>0, <2>1, OwnedByTask DEF RunsAt, Writes
<1>4. CASE TaskFailSteps(t) \/ TaskCancelSteps(t) \/ TaskTimeout(t)
  <2>1. CloseSteps(r) /\ faults' = faults
    BY <1>1, <1>4 DEF TaskFailSteps, TaskCancelSteps, TaskTimeout, CancelTail
  <2>2. \A s \in Runs : \A i : RunsAt(s, i)' => s # r /\ RunsAt(s, i)
    BY <2>1, RunningAfter
  <2> QED BY <1>0, <1>1, <2>1, <2>2, OwnedByTask DEF Writes
<1>5. CASE TaskTurn(t) \/ TaskError(t) \/ TaskStopped(t) \/ TaskObserve(t) \/ TaskAsk(t)
  <2>1. PICK to \in {"closed", "waiting"} : FinishStep(t, to)
    BY <1>5 DEF TaskTurn, TaskError, TaskStopped, TaskObserve, TaskAsk
  <2>2. faults' = faults
    BY <1>5 DEF TaskTurn, TaskError, TaskStopped, TaskObserve, TaskAsk
  <2>3. \A s \in Runs : \A i : RunsAt(s, i)' => RunsAt(s, i) /\ ~Writes(t, s, i)
    BY <1>1, <2>1, RunningAfter
  <2> QED BY <1>0, <2>2, <2>3, OwnedByTask
<1>6. CASE TaskBegin(t) \/ TaskCall(t)
  <2>1. NewStep(t) /\ faults' = faults /\ task[t].pc \notin {"model", "tool"}
    BY <1>6 DEF TaskBegin, TaskCall, TaskAt
  <2>2. task'[t].pc \in {"model", "tool"} /\ task'[t].step = Len(steps[r]) + 1
    <3>1. CASE TaskBegin(t)
      BY <1>0, <1>1, <3>1 DEF TaskBegin, TaskType
    <3>2. CASE TaskCall(t)
      BY <1>0, <1>1, <3>2 DEF TaskCall, TaskType
    <3> QED BY <1>6, <3>1, <3>2
  <2>3. \A s \in Runs : \A i :
            RunsAt(s, i)' => RunsAt(s, i) \/ (s = r /\ i = Len(steps[r]) + 1)
    BY <1>1, <2>1, RunningAfter
  <2>4. \A s \in Runs : \A i :
            RunsAt(s, i)' => (RunsAt(s, i) /\ ~Writes(t, s, i)) \/ Writes(t, s, i)'
    BY <1>1, <2>1, <2>3, <2>2, <1>0 DEF Writes, TaskMoves
  <2> QED BY <1>0, <2>1, <2>4, OwnedByTask
<1>7. CASE TaskStream(t)
  BY <1>7 DEF TaskStream, StepsAreOwned, RunsAt, Writes
<1> QED BY <1>2, <1>3, <1>4, <1>5, <1>6, <1>7 DEF TaskStep

LEMMA OwnedNext ==
  ASSUME TurnInv, LoopInv, StepsAreOwned, [Next]_vars
  PROVE  StepsAreOwned'
<1>0. Typed /\ Aimed /\ Handover
  BY DEF TurnInv, LoopInv
<1>1. CASE Restart
  <2>1. steps \in [Runs -> Seq(StepStatus)]
    BY <1>0 DEF Typed, TypeOK, StepStatus
  <2>2. \A r \in Runs : \A i : ~RunsAt(r, i)'
    BY <1>1, <2>1 DEF Restart, RunsAt
  <2> QED BY <2>2 DEF StepsAreOwned
<1>2. ASSUME NEW q \in Requests, Abandon(q) PROVE StepsAreOwned'
  BY <1>2 DEF Abandon, dbVars, StepsAreOwned, RunsAt, Writes
<1> QED BY <1>0, <1>1, <1>2, OwnedRequests, OwnedTasks, NextCases

\* Once nobody works on a settled run any more, no step of it is shown as running:
\* in whatever order answers, cancellations, timeouts and restarts meet its task, a
\* step stays running no longer than the task that began it waits for its result.
THEOREM NoStepKeepsRunning == Spec => []NoRunningStepLeft
<1>1. Init => StepsAreOwned
  BY DEF Init, StepsAreOwned, RunsAt
<1>2. TurnInv /\ LoopInv /\ StepsAreOwned /\ [Next]_vars => StepsAreOwned'
  BY OwnedNext
<1>3. StepsAreOwned => NoRunningStepLeft
  BY DEF StepsAreOwned, NoRunningStepLeft, Working, RunsAt, Writes
<1> QED BY <1>1, <1>2, <1>3, TurnInductive, LoopInductive, PTL DEF Spec

=============================================================================
