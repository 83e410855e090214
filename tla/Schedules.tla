------------------------------ MODULE Schedules ------------------------------
(***************************************************************************)
(* Cron schedules: the ten-second tick that claims due occurrences and     *)
(* enqueues their jobs, and the handlers that create, edit, toggle, run    *)
(* and delete schedules in between.                                        *)
(*                                                                         *)
(* A cron expression is the set of times it names; now is the clock.  The  *)
(* SQL and the table bindings of a schedule are one version number, which  *)
(* every edit raises; they are written together and read apart.  A kill    *)
(* and the restart after it are one step: time may pass before the next.   *)
(***************************************************************************)
EXTENDS Integers, Sequences, FiniteSets, Functions

CONSTANTS
    Schedules,
    Crons,         \* the expressions users write
    Unreadable,    \* a stored expression or time zone that no longer parses
    Broken,        \* schedules stored with one
    Users, Idle,   \* concurrent create, edit, toggle and run requests
    Batch,         \* LIMIT of the tick's SELECT
    MaxTime,       \* bound: the clock
    MaxWrites,     \* bound: committed create, edit and toggle requests
    MaxFaults      \* bound: database errors during a tick, and kills

ASSUME SchedulesAssumption == IsFiniteSet(Schedules)
ASSUME CronsAssumption == Crons \subseteq SUBSET Nat /\ Unreadable \notin Crons
ASSUME BrokenAssumption == Broken \subseteq Schedules /\ Idle \notin Schedules
ASSUME BoundsAssumption ==
    /\ Batch \in Nat \ {0} /\ MaxTime \in Nat /\ MaxWrites \in Nat
    /\ MaxFaults \in Nat

VARIABLES
    row,      \* the schedules table: Unborn, Deleted or [cron, enabled, next, version]
    now,
    tick,     \* enqueue_due_schedules: [pc, at, batch]
    write,    \* per user: the request being carried out
    mixed,    \* schedules that got a job whose SQL and tables differ in version
    writes, faults,
    last      \* history: per schedule, the last occurrence claimed since it was written

rowVars == <<row, writes>>
vars == <<rowVars, now, tick, write, mixed, faults, last>>

Never == -1
NoRow(version) ==
    [cron |-> Unreadable, enabled |-> FALSE, next |-> Never, version |-> version]
Unborn == NoRow(-1)    \* no schedule has had this id yet
Deleted == NoRow(-2)   \* and none will have it again
NoTick == [pc |-> "idle", at |-> 0, batch |-> <<>>]
NoWrite == [schedule |-> Idle, kind |-> "none", cron |-> Unreadable,
            enabled |-> FALSE, next |-> Never, body |-> -1]

Exists(s) == row[s].version >= 0
IsDue(s) == row[s].enabled /\ row[s].next # Never /\ row[s].next <= now

FirstFrom(cron, t) == {u \in cron : u >= t /\ \A v \in cron : v >= t => u <= v}

NextRun_Inclusive(cron, t) ==
    IF FirstFrom(cron, t) # {} THEN CHOOSE u \in FirstFrom(cron, t) : TRUE ELSE Never

\* next_run: the first occurrence after t, if there is one.
NextRun(cron, t) ==
    IF FirstFrom(cron, t + 1) # {} THEN CHOOSE u \in FirstFrom(cron, t + 1) : TRUE
    ELSE Never

\* The server starts on a database of schedules some of which do not parse.
Init ==
    /\ now = 0
    /\ row \in {r \in [Schedules -> {Unborn} \cup
                      {[cron |-> c, enabled |-> TRUE, next |-> NextRun(c, 0),
                        version |-> 0] : c \in Crons} \cup
                      {[cron |-> Unreadable, enabled |-> TRUE, next |-> 0,
                        version |-> 0]}] :
                  \A s \in Schedules :
                      s \in Broken <=> r[s].cron = Unreadable /\ r[s] # Unborn}
    /\ tick = NoTick
    /\ write = [u \in Users |-> NoWrite]
    /\ mixed = {} /\ writes = 0 /\ faults = 0
    /\ last = [s \in Schedules |-> Never]

-----------------------------------------------------------------------------
(* Operators named X_Y are mutants: X with the plausible mistake Y.  No     *)
(* action uses them.                                                       *)

-----------------------------------------------------------------------------
(* The tick.                                                               *)

Due == {s \in Schedules : IsDue(s)}

Snapshot(s) == [schedule |-> s, cron |-> row[s].cron, body |-> row[s].version]

\* ORDER BY next_run_at LIMIT Batch.
BatchSize == IF Cardinality(Due) < Batch THEN Cardinality(Due) ELSE Batch

Batches ==
    {b \in Injection(1..BatchSize, Due) :
        \A i \in DOMAIN b : \A s \in Due :
            row[s].next < row[b[i]].next => \E k \in 1..i : b[k] = s}

TickSelect ==
    /\ tick.pc = "idle" /\ Due # {}
    /\ \E b \in Batches :
        tick' = [pc |-> "claim", at |-> now,
                 batch |-> [i \in DOMAIN b |-> Snapshot(b[i])]]
    /\ UNCHANGED <<rowVars, now, write, mixed, faults, last>>

Rest_NeverEnds == [tick EXCEPT !.pc = "claim", !.batch = Tail(@)]

\* What is left of the batch after its first schedule.
Rest == IF Len(tick.batch) = 1 THEN NoTick
        ELSE [tick EXCEPT !.pc = "claim", !.batch = Tail(@)]

AfterUnreadable_EndsBatch == NoTick

AfterUnreadable == Rest

\* A schedule whose expression does not parse is skipped.
TickSkip ==
    /\ tick.pc = "claim" /\ Head(tick.batch).cron = Unreadable
    /\ tick' = AfterUnreadable
    /\ UNCHANGED <<rowVars, now, write, mixed, faults, last>>

StillDue_Assumed(s) == Exists(s)

\* WHERE id = ? AND next_run_at <= ?: the row may have changed since the SELECT.
StillDue(s) == row[s].next # Never /\ row[s].next <= tick.at

TickClaim ==
    LET s == Head(tick.batch).schedule
    IN  /\ tick.pc = "claim" /\ Head(tick.batch).cron # Unreadable
        /\ StillDue(s)
        /\ row' = [row EXCEPT ![s].next = NextRun(Head(tick.batch).cron, now)]
        /\ last' = [last EXCEPT ![s] = row[s].next]
        /\ tick' = [tick EXCEPT !.pc = "enqueue"]
        /\ UNCHANGED <<writes, now, write, mixed, faults>>

AfterMiss_Enqueues == [tick EXCEPT !.pc = "enqueue"]

AfterMiss == Rest

TickMiss ==
    /\ tick.pc = "claim" /\ Head(tick.batch).cron # Unreadable
    /\ ~StillDue(Head(tick.batch).schedule)
    /\ tick' = AfterMiss
    /\ UNCHANGED <<rowVars, now, write, mixed, faults, last>>

\* The job takes its SQL from what was read before, its tables from the row of now.
Mixed(s, body) == IF body = row[s].version THEN mixed ELSE mixed \cup {s}

\* load_bindings and enqueue_job: the SQL of the SELECT, the tables of now.
TickEnqueue ==
    LET s == Head(tick.batch).schedule
    IN  /\ tick.pc = "enqueue" /\ Exists(s)
        /\ mixed' = Mixed(s, Head(tick.batch).body)
        /\ tick' = Rest
        /\ UNCHANGED <<rowVars, now, write, faults, last>>

\* The schedule is gone: its foreign key fails, and the error ends the batch.
TickEnqueueFails ==
    /\ tick.pc = "enqueue" /\ ~Exists(Head(tick.batch).schedule)
    /\ tick' = NoTick
    /\ UNCHANGED <<rowVars, now, write, mixed, faults, last>>

Tick ==
    \/ TickSelect \/ TickSkip \/ TickClaim \/ TickMiss \/ TickEnqueue
    \/ TickEnqueueFails

\* A database error ends the batch; the worker logs it and ticks on.
TickFault ==
    /\ faults < MaxFaults /\ tick.pc # "idle"
    /\ tick' = NoTick
    /\ faults' = faults + 1
    /\ UNCHANGED <<rowVars, now, write, mixed, last>>

-----------------------------------------------------------------------------
(* The handlers.  The next occurrence is computed before the transaction    *)
(* that stores it; a toggle computes it from the expression it has read.   *)

NextIf(enabled, cron) == IF enabled THEN NextRun(cron, now) ELSE Never

Request(u, s, kind, cron, enabled) ==
    /\ write[u] = NoWrite
    /\ write' = [write EXCEPT ![u] =
                    [schedule |-> s, kind |-> kind, cron |-> cron,
                     enabled |-> enabled, next |-> NextIf(enabled, cron),
                     body |-> row[s].version]]
    /\ UNCHANGED <<rowVars, now, tick, mixed, faults, last>>

CreateRequest(u, s) ==
    /\ row[s] = Unborn /\ writes < MaxWrites
    /\ \E cron \in Crons, enabled \in BOOLEAN : Request(u, s, "create", cron, enabled)

UpdateRequest(u, s) ==
    /\ Exists(s) /\ writes < MaxWrites
    /\ \E cron \in Crons, enabled \in BOOLEAN : Request(u, s, "update", cron, enabled)

ToggleRequest(u, s) ==
    /\ Exists(s) /\ writes < MaxWrites
    /\ \/ row[s].cron # Unreadable /\ Request(u, s, "toggle", row[s].cron, TRUE)
       \/ Request(u, s, "toggle", row[s].cron, FALSE)

Stored_KeepsNext(s, request) ==
    [row[s] EXCEPT !.enabled = request.enabled,
                   !.next = IF request.enabled THEN request.next ELSE @]

\* What a toggle leaves in the row.
Stored(s, request) ==
    [row[s] EXCEPT !.enabled = request.enabled, !.next = request.next]

\* The ids of new schedules are fresh; an edit or a toggle needs the row.
WriteCommit(u) ==
    LET request == write[u]  s == request.schedule
    IN  /\ request.kind \in {"create", "update", "toggle"} /\ writes < MaxWrites
        /\ IF request.kind = "create" THEN row[s] = Unborn ELSE Exists(s)
        /\ row' = [row EXCEPT ![s] =
                      IF request.kind = "toggle" THEN Stored(s, request)
                      ELSE [cron |-> request.cron, enabled |-> request.enabled,
                            next |-> request.next, version |-> writes + 1]]
        /\ writes' = writes + 1
        /\ last' = [last EXCEPT ![s] = Never]
        /\ write' = [write EXCEPT ![u] = NoWrite]
        /\ UNCHANGED <<now, tick, mixed, faults>>

\* The row went meanwhile, or the request is dropped.
WriteAbandoned(u) ==
    /\ write[u] # NoWrite
    /\ write' = [write EXCEPT ![u] = NoWrite]
    /\ UNCHANGED <<rowVars, now, tick, mixed, faults, last>>

\* By its user or with its source; a foreign key takes the bindings along.
Delete(s) ==
    /\ Exists(s)
    /\ row' = [row EXCEPT ![s] = Deleted]
    /\ UNCHANGED <<writes, now, tick, write, mixed, faults, last>>

\* run_now reads the row, then the bindings, and enqueues.
RunRequest(u, s) ==
    Exists(s) /\ Request(u, s, "run", row[s].cron, FALSE)

RunEnqueue(u) ==
    /\ write[u].kind = "run" /\ Exists(write[u].schedule)
    /\ mixed' = Mixed(write[u].schedule, write[u].body)
    /\ write' = [write EXCEPT ![u] = NoWrite]
    /\ UNCHANGED <<rowVars, now, tick, faults, last>>

-----------------------------------------------------------------------------
TimePasses ==
    /\ now < MaxTime
    /\ now' = now + 1
    /\ UNCHANGED <<rowVars, tick, write, mixed, faults, last>>

Crash ==
    /\ faults < MaxFaults
    /\ faults' = faults + 1
    /\ tick' = NoTick
    /\ write' = [u \in Users |-> NoWrite]
    /\ UNCHANGED <<rowVars, now, mixed, last>>

Next ==
    \/ Tick \/ TickFault
    \/ \E u \in Users :
        \/ \E s \in Schedules :
            \/ CreateRequest(u, s) \/ UpdateRequest(u, s)
            \/ ToggleRequest(u, s) \/ RunRequest(u, s)
        \/ WriteCommit(u) \/ WriteAbandoned(u) \/ RunEnqueue(u)
    \/ \E s \in Schedules : Delete(s)
    \/ TimePasses \/ Crash

\* The tick loop never ends; nothing is assumed of users or of the clock.
Spec == Init /\ [][Next]_vars
FairSpec == Spec /\ WF_vars(Tick)

-----------------------------------------------------------------------------
(* Properties.                                                             *)

ScheduleRow == [cron : Crons \cup {Unreadable}, enabled : BOOLEAN,
                next : Nat \cup {Never}, version : Nat]
Seen == [schedule : Schedules, cron : Crons \cup {Unreadable}, body : Nat]
RequestType == [schedule : Schedules \cup {Idle},
                kind : {"none", "create", "update", "toggle", "run"},
                cron : Crons \cup {Unreadable}, enabled : BOOLEAN,
                next : Nat \cup {Never}, body : Nat \cup {-1}]

\* Every variable has its type.
TypeOK ==
    /\ row \in [Schedules -> ScheduleRow \cup {Unborn, Deleted}]
    /\ now \in 0..MaxTime /\ writes \in 0..MaxWrites
    /\ faults \in 0..MaxFaults /\ mixed \subseteq Schedules
    /\ tick \in [pc : {"idle", "claim", "enqueue"}, at : Nat, batch : Seq(Seen)]
    /\ tick.pc # "idle" => tick.batch # <<>>
    /\ write \in [Users -> RequestType]
    /\ \A u \in Users : write[u].kind # "none" => write[u].schedule \in Schedules
    /\ last \in [Schedules -> Nat \cup {Never}]

\* Between two writes of a schedule, ticks claim its occurrences in order and
\* none of them twice, across errors, restarts and long pauses: what is stored
\* as next is later than what was claimed.  (A write may bring an occurrence
\* back: it stores a time it computed before it.)
OccurrencesAscend ==
    \A s \in Schedules : row[s].next # Never => row[s].next > last[s]

\* A tick enqueues only what is enabled and due when it takes it, though it
\* decides on a snapshot: disabling or moving a schedule before its turn stops
\* the job, and the occurrence is used up before the job is enqueued.
ClaimsAreDue ==
    [][tick.pc = "claim" /\ tick'.pc = "enqueue" =>
           LET s == Head(tick.batch).schedule
           IN  IsDue(s) /\ row'[s].next # row[s].next]_vars

\* A due schedule does not stay due, however many other schedules fail, are
\* edited or do not parse, as long as these are fewer than Batch.
DueIsClaimed ==
    \A s \in Schedules :
        IsDue(s) /\ row[s].cron # Unreadable ~> ~IsDue(s) \/ row[s].cron = Unreadable

\* services/query_bindings.rs:89: an edit never shows half updated, so no job has
\* the SQL of one version of its schedule and the tables of another.
JobsAreWhole == mixed = {}

=============================================================================
