-------------------------- MODULE Schedules_proofs --------------------------
(***************************************************************************)
(* Theorems about Schedules, for every set of schedules and expressions,   *)
(* size of a batch, number of concurrent requests and bound on time,       *)
(* writes and faults.                                                      *)
(***************************************************************************)
EXTENDS Schedules, FiniteSetTheorems, TLAPS

-----------------------------------------------------------------------------
(* What the operators return.                                              *)

LEMMA NextRunIsLater ==
  ASSUME NEW cron \in Crons, NEW t \in Nat
  PROVE  NextRun(cron, t) = Never \/ (NextRun(cron, t) \in Nat /\ NextRun(cron, t) > t)
<1>1. \A u \in FirstFrom(cron, t + 1) : u \in Nat /\ u > t
  BY CronsAssumption DEF FirstFrom
<1>2. CASE FirstFrom(cron, t + 1) # {}
  <2>1. NextRun(cron, t) \in FirstFrom(cron, t + 1)
    BY <1>2 DEF NextRun
  <2> QED BY <2>1, <1>1
<1>3. CASE FirstFrom(cron, t + 1) = {}
  BY <1>3 DEF NextRun
<1> QED BY <1>2, <1>3

LEMMA BatchesAreOfDue ==
  ASSUME Due # {}, NEW b \in Batches
  PROVE  b \in Seq(Due) /\ b # <<>>
<1>1. Cardinality(Due) \in Nat /\ Cardinality(Due) # 0
  <2>1. IsFiniteSet(Due)
    BY SchedulesAssumption, FS_Subset DEF Due
  <2> QED BY <2>1, FS_CardinalityType, FS_EmptySet
<1>2. BatchSize \in Nat /\ BatchSize > 0
  BY <1>1, BoundsAssumption DEF BatchSize
<1>3. b \in [1..BatchSize -> Due]
  BY DEF Batches, Injection
<1> QED BY <1>2, <1>3

-----------------------------------------------------------------------------
(* Type correctness.                                                       *)

LEMMA TypeInit == Init => TypeOK
<1>1. SUFFICES ASSUME Init PROVE TypeOK
  OBVIOUS
<1>2. row \in [Schedules -> ScheduleRow \cup {Unborn, Deleted}]
  <2>1. \A c \in Crons : NextRun(c, 0) \in Nat \cup {Never}
    BY NextRunIsLater
  <2>2. \A c \in Crons : [cron |-> c, enabled |-> TRUE, next |-> NextRun(c, 0),
                          version |-> 0] \in ScheduleRow
    BY <2>1 DEF ScheduleRow
  <2>3. [cron |-> Unreadable, enabled |-> TRUE, next |-> 0, version |-> 0] \in ScheduleRow
    BY DEF ScheduleRow
  <2> DEFINE first == {[cron |-> c, enabled |-> TRUE, next |-> NextRun(c, 0),
                        version |-> 0] : c \in Crons}
             broken == {[cron |-> Unreadable, enabled |-> TRUE, next |-> 0,
                         version |-> 0]}
  <2>4. first \subseteq ScheduleRow /\ broken \subseteq ScheduleRow
    BY <2>2, <2>3
  <2>5. row \in [Schedules -> {Unborn} \cup first \cup broken]
    BY <1>1 DEF Init
  <2> HIDE DEF first, broken
  <2> QED BY <2>4, <2>5
<1> QED
  BY <1>1, <1>2, BoundsAssumption
     DEF Init, TypeOK, NoTick, NoWrite, RequestType, Seen, Never

LEMMA TailTyped ==
  ASSUME NEW S, NEW q \in Seq(S), q # <<>>
  PROVE  Tail(q) \in Seq(S) /\ (Tail(q) = <<>> => Len(q) = 1)
<1>1. Tail(q) \in Seq(S) /\ Len(Tail(q)) = Len(q) - 1 /\ Len(q) \in Nat
  OBVIOUS
<1>2. Len(<<>>) = 0
  OBVIOUS
<1>3. ASSUME Tail(q) = <<>> PROVE Len(q) = 1
  <2> DEFINE n == Len(q)
             m == Len(Tail(q))
  <2>1. m = 0 BY <1>2, <1>3
  <2>2. m = n - 1 /\ n \in Nat BY <1>1
  <2> HIDE DEF n, m
  <2>3. n = 1 BY <2>1, <2>2
  <2> QED BY <2>3 DEF n
<1> QED BY <1>1, <1>3

\* What is left of a batch is a batch.
LEMMA RestIsTyped ==
  ASSUME TypeOK, tick.pc # "idle"
  PROVE  /\ Rest \in [pc : {"idle", "claim", "enqueue"}, at : Nat, batch : Seq(Seen)]
         /\ Rest.pc # "enqueue"
         /\ Rest.pc # "idle" => Rest.batch # <<>> /\ Rest.at = tick.at
<1> USE DEF TypeOK
<1>1. tick.batch \in Seq(Seen) /\ tick.batch # <<>> /\ Len(tick.batch) \in Nat
  OBVIOUS
<1>2. Tail(tick.batch) \in Seq(Seen) /\ (Tail(tick.batch) = <<>> => Len(tick.batch) = 1)
  BY <1>1, TailTyped
<1>3. CASE Len(tick.batch) = 1
  BY <1>3 DEF Rest, NoTick
<1>4. CASE Len(tick.batch) # 1
  BY <1>2, <1>4 DEF Rest
<1> QED BY <1>3, <1>4

LEMMA TypeTick == TypeOK /\ (Tick \/ TickFault) => TypeOK'
<1> SUFFICES ASSUME TypeOK, Tick \/ TickFault PROVE TypeOK'
  OBVIOUS
<1> USE DEF TypeOK, rowVars
<1>1. CASE TickSelect
  <2>1. PICK b \in Batches : tick' = [pc |-> "claim", at |-> now,
                                     batch |-> [i \in DOMAIN b |-> Snapshot(b[i])]]
    BY <1>1 DEF TickSelect
  <2>2. b \in Seq(Due) /\ b # <<>>
    BY <1>1, BatchesAreOfDue DEF TickSelect
  <2>3. \A s \in Due : Snapshot(s) \in Seen
    BY DEF Due, IsDue, Snapshot, Seen, ScheduleRow, Unborn, Deleted, NoRow
  <2>4. [i \in DOMAIN b |-> Snapshot(b[i])] \in Seq(Seen)
    BY <2>2, <2>3
  <2>5. [i \in DOMAIN b |-> Snapshot(b[i])] # <<>>
    BY <2>2
  <2> QED BY <1>1, <2>1, <2>4, <2>5 DEF TickSelect
<1>2. CASE TickSkip BY <1>2, RestIsTyped DEF TickSkip, AfterUnreadable
<1>3. CASE TickClaim
  <2> DEFINE s == Head(tick.batch).schedule
             cron == Head(tick.batch).cron
  <2>1. Head(tick.batch) \in Seen
    BY <1>3 DEF TickClaim
  <2>2. s \in Schedules /\ cron \in Crons
    BY <1>3, <2>1 DEF TickClaim, Seen
  <2>3. row[s] \in ScheduleRow /\ row[s].next \in Nat
    BY <1>3, <2>2 DEF TickClaim, StillDue, ScheduleRow, Unborn, Deleted, NoRow
  <2>4. NextRun(cron, now) \in Nat \cup {Never}
    BY <2>2, NextRunIsLater
  <2>5. [row[s] EXCEPT !.next = NextRun(cron, now)] \in ScheduleRow
    BY <2>3, <2>4 DEF ScheduleRow
  <2>6. row' \in [Schedules -> ScheduleRow \cup {Unborn, Deleted}]
    BY <1>3, <2>2, <2>5 DEF TickClaim
  <2> QED BY <1>3, <2>2, <2>3, <2>6 DEF TickClaim
<1>4. CASE TickMiss BY <1>4, RestIsTyped DEF TickMiss, AfterMiss
<1>5. CASE TickEnqueue
  <2>1. Head(tick.batch) \in Seen
    BY <1>5 DEF TickEnqueue
  <2> QED BY <1>5, <2>1, RestIsTyped DEF TickEnqueue, Mixed, Seen
<1>6. CASE TickEnqueueFails BY <1>6 DEF TickEnqueueFails, NoTick
<1>7. CASE TickFault BY <1>7, BoundsAssumption DEF TickFault, NoTick
<1> QED BY <1>1, <1>2, <1>3, <1>4, <1>5, <1>6, <1>7 DEF Tick

\* What a request stores as its next occurrence.
LEMMA RequestIsTyped ==
  ASSUME TypeOK, NEW u \in Users, NEW s \in Schedules,
         NEW kind \in {"create", "update", "toggle", "run"},
         NEW cron \in Crons \cup {Unreadable}, NEW enabled \in BOOLEAN,
         enabled => cron \in Crons, Exists(s) \/ row[s] = Unborn,
         Request(u, s, kind, cron, enabled)
  PROVE  TypeOK'
<1> USE DEF TypeOK, rowVars
<1>1. NextIf(enabled, cron) \in Nat \cup {Never}
  BY NextRunIsLater DEF NextIf
<1>2. row[s].version \in Nat \cup {-1}
  BY DEF Exists, ScheduleRow, Unborn, Deleted, NoRow
<1> QED BY <1>1, <1>2 DEF Request, RequestType

LEMMA TypeUser ==
  ASSUME TypeOK, NEW u \in Users, NEW s \in Schedules,
         CreateRequest(u, s) \/ UpdateRequest(u, s) \/ ToggleRequest(u, s) \/
         RunRequest(u, s)
  PROVE  TypeOK'
<1>1. CASE CreateRequest(u, s) BY <1>1, RequestIsTyped DEF CreateRequest
<1>2. CASE UpdateRequest(u, s) BY <1>2, RequestIsTyped DEF UpdateRequest
<1>3. Exists(s) => row[s].cron \in Crons \cup {Unreadable}
  BY DEF TypeOK, Exists, ScheduleRow, Unborn, Deleted, NoRow
<1>4. CASE ToggleRequest(u, s) BY <1>3, <1>4, RequestIsTyped DEF ToggleRequest
<1>5. CASE RunRequest(u, s) BY <1>3, <1>5, RequestIsTyped DEF RunRequest
<1> QED BY <1>1, <1>2, <1>4, <1>5

LEMMA TypeAnswer ==
  ASSUME TypeOK, NEW u \in Users,
         WriteCommit(u) \/ WriteAbandoned(u) \/ RunEnqueue(u)
  PROVE  TypeOK'
<1> USE DEF TypeOK, rowVars
<1>1. CASE WriteCommit(u)
  <2> DEFINE request == write[u]
             t == request.schedule
  <2>1. request \in RequestType /\ t \in Schedules
    BY <1>1 DEF WriteCommit
  <2>2. Exists(t) => row[t] \in ScheduleRow
    BY <2>1 DEF Exists, Unborn, Deleted, NoRow
  <2>3. CASE request.kind = "toggle"
    <3>1. Stored(t, request) \in ScheduleRow
      BY <1>1, <2>1, <2>2, <2>3 DEF WriteCommit, Stored, ScheduleRow, RequestType
    <3>2. row' \in [Schedules -> ScheduleRow \cup {Unborn, Deleted}]
      BY <1>1, <2>1, <2>3, <3>1 DEF WriteCommit
    <3> QED
      BY <1>1, <2>1, <3>2, BoundsAssumption DEF WriteCommit, NoWrite, RequestType
  <2>4. CASE request.kind # "toggle"
    <3>1. [cron |-> request.cron, enabled |-> request.enabled,
           next |-> request.next, version |-> writes + 1] \in ScheduleRow
      BY <2>1, BoundsAssumption DEF ScheduleRow, RequestType
    <3>2. row' \in [Schedules -> ScheduleRow \cup {Unborn, Deleted}]
      BY <1>1, <2>1, <2>4, <3>1 DEF WriteCommit
    <3> QED
      BY <1>1, <2>1, <3>2, BoundsAssumption DEF WriteCommit, NoWrite, RequestType
  <2> QED BY <2>3, <2>4
<1>2. CASE WriteAbandoned(u) BY <1>2 DEF WriteAbandoned, NoWrite, RequestType
<1>3. CASE RunEnqueue(u) BY <1>3 DEF RunEnqueue, Mixed, NoWrite, RequestType
<1> QED BY <1>1, <1>2, <1>3

LEMMA TypeStep == TypeOK /\ [Next]_vars => TypeOK'
<1> SUFFICES ASSUME TypeOK, [Next]_vars PROVE TypeOK'
  OBVIOUS
<1> USE DEF TypeOK, rowVars
<1>1. CASE UNCHANGED vars BY <1>1 DEF vars
<1>2. ASSUME NEW s \in Schedules, Delete(s) PROVE TypeOK'
  BY <1>2 DEF Delete
<1>3. CASE TimePasses BY <1>3, BoundsAssumption DEF TimePasses
<1>4. CASE Crash BY <1>4, BoundsAssumption DEF Crash, NoTick, NoWrite, RequestType
<1> QED
  BY <1>1, <1>2, <1>3, <1>4, TypeTick, TypeUser, TypeAnswer DEF Next

\* The bookkeeping of schedules, requests and ticks is well typed throughout.
THEOREM SchedulesTypeCorrect == Spec => []TypeOK
BY TypeInit, TypeStep, PTL DEF Spec

-----------------------------------------------------------------------------
(* Claims.  OccurrencesAscend is not inductive: a claim has to know that    *)
(* what it claims is not later than now, and that a next occurrence is      *)
(* never stored without enabling the schedule.                              *)

EnabledIffScheduled ==
    /\ \A s \in Schedules : row[s].next # Never => row[s].enabled
    /\ \A u \in Users : write[u].next # Never => write[u].enabled

ClaimInv ==
    /\ EnabledIffScheduled
    /\ tick.at <= now
    /\ OccurrencesAscend

LEMMA ClaimInit == Init => ClaimInv
<1>1. SUFFICES ASSUME Init PROVE ClaimInv
  OBVIOUS
<1>2. \A c \in Crons : NextRun(c, 0) = Never \/ (NextRun(c, 0) \in Nat /\ NextRun(c, 0) > 0)
  BY NextRunIsLater
<1> QED
  BY <1>1, <1>2 DEF Init, ClaimInv, EnabledIffScheduled, OccurrencesAscend, NoTick,
                    NoWrite, Unborn, NoRow, Never

\* What a claim relies on: the row is enabled and due now, not merely at the SELECT.
LEMMA ClaimIsDue ==
  ASSUME TypeOK, ClaimInv, TickClaim, NEW s, s = Head(tick.batch).schedule
  PROVE  /\ s \in Schedules /\ IsDue(s)
         /\ row' = [row EXCEPT ![s].next = row'[s].next]
         /\ last' = [last EXCEPT ![s] = row[s].next]
         /\ row'[s].next = Never \/ (row'[s].next \in Nat /\ row'[s].next > row[s].next)
<1> DEFINE cron == Head(tick.batch).cron
<1>1. Head(tick.batch) \in Seen
  BY DEF TickClaim, TypeOK
<1>2. s \in Schedules /\ cron \in Crons
  BY <1>1 DEF TickClaim, Seen
<1>3. row[s].next \in Nat /\ row[s].next <= now /\ row[s] \in ScheduleRow /\ now \in Nat
  BY <1>2, BoundsAssumption
     DEF TypeOK, ClaimInv, TickClaim, StillDue, ScheduleRow, Unborn, Deleted, NoRow
<1>4. IsDue(s)
  BY <1>2, <1>3 DEF IsDue, ClaimInv, EnabledIffScheduled, TickClaim, StillDue
<1>5. row'[s].next = NextRun(cron, now)
  BY <1>2, <1>3 DEF TickClaim, TypeOK, ScheduleRow
<1>6. NextRun(cron, now) = Never \/ (NextRun(cron, now) \in Nat /\ NextRun(cron, now) > now)
  BY <1>2, <1>3, NextRunIsLater
<1>7. row' = [row EXCEPT ![s].next = row'[s].next]
  BY <1>5 DEF TickClaim
<1>8. last' = [last EXCEPT ![s] = row[s].next]
  BY DEF TickClaim
<1> QED BY <1>2, <1>3, <1>4, <1>5, <1>6, <1>7, <1>8

LEMMA ClaimTick == TypeOK /\ ClaimInv /\ (Tick \/ TickFault) => ClaimInv'
<1> SUFFICES ASSUME TypeOK, ClaimInv, Tick \/ TickFault PROVE ClaimInv'
  OBVIOUS
<1>0. now \in Nat
  BY BoundsAssumption DEF TypeOK
<1>a. tick.pc # "idle" => Rest.at <= now
  BY <1>0, RestIsTyped DEF ClaimInv, Rest, NoTick, TypeOK
<1> USE DEF ClaimInv, EnabledIffScheduled, OccurrencesAscend, rowVars
<1>1. CASE TickSelect BY <1>0, <1>1 DEF TickSelect
<1>2. CASE TickSkip BY <1>a, <1>2 DEF TickSkip, AfterUnreadable
<1>3. CASE TickClaim
  <2> DEFINE s == Head(tick.batch).schedule
  <2>1. /\ s \in Schedules /\ IsDue(s)
        /\ row' = [row EXCEPT ![s].next = row'[s].next]
        /\ last' = [last EXCEPT ![s] = row[s].next]
        /\ row'[s].next = Never \/ (row'[s].next \in Nat /\ row'[s].next > row[s].next)
    BY <1>3, ClaimIsDue
  <2>2. \A r \in Schedules \ {s} : row'[r] = row[r] /\ last'[r] = last[r]
    BY <2>1 DEF TypeOK
  <2>3. last'[s] = row[s].next /\ row'[s].enabled = row[s].enabled
    <3>1. row[s] \in ScheduleRow
      BY <2>1 DEF TypeOK, IsDue, ScheduleRow, Unborn, Deleted, NoRow
    <3>2. last \in [Schedules -> Nat \cup {Never}]
      BY DEF TypeOK
    <3>3. last'[s] = row[s].next
      BY <2>1, <3>2
    <3>4. row'[s].enabled = row[s].enabled
      BY <2>1, <3>1, SMTT(20) DEF TypeOK, ScheduleRow
    <3> QED BY <3>3, <3>4
  <2>4. row[s].enabled
    BY <2>1 DEF IsDue
  <2>5. tick'.at = tick.at /\ now' = now /\ write' = write
    BY <1>3 DEF TickClaim, TypeOK
  <2> QED BY <2>1, <2>2, <2>3, <2>4, <2>5
<1>4. CASE TickMiss BY <1>a, <1>4 DEF TickMiss, AfterMiss
<1>5. CASE TickEnqueue BY <1>a, <1>5 DEF TickEnqueue
<1>6. CASE TickEnqueueFails BY <1>0, <1>6 DEF TickEnqueueFails, NoTick
<1>7. CASE TickFault BY <1>0, <1>7 DEF TickFault, NoTick
<1> QED BY <1>1, <1>2, <1>3, <1>4, <1>5, <1>6, <1>7 DEF Tick

LEMMA ClaimRequest ==
  ASSUME TypeOK, ClaimInv, NEW u \in Users, NEW s, NEW kind, NEW cron,
         NEW enabled \in BOOLEAN, Request(u, s, kind, cron, enabled)
  PROVE  ClaimInv'
BY DEF ClaimInv, EnabledIffScheduled, OccurrencesAscend, Request, NextIf, TypeOK, rowVars

LEMMA ClaimAnswer ==
  ASSUME TypeOK, ClaimInv, NEW u \in Users,
         WriteCommit(u) \/ WriteAbandoned(u) \/ RunEnqueue(u)
  PROVE  ClaimInv'
<1> USE DEF ClaimInv, EnabledIffScheduled, OccurrencesAscend, rowVars
<1>1. CASE WriteCommit(u)
  <2> DEFINE request == write[u]
             s == request.schedule
  <2>1. request \in RequestType /\ s \in Schedules
    BY <1>1 DEF WriteCommit, TypeOK
  <2>2. \A r \in Schedules \ {s} : row'[r] = row[r] /\ last'[r] = last[r]
    BY <1>1, <2>1 DEF WriteCommit, TypeOK
  <2>3. last'[s] = Never
    BY <1>1, <2>1 DEF WriteCommit, TypeOK
  <2>4. row'[s].next = request.next /\ row'[s].enabled = request.enabled
    <3>1. CASE request.kind = "toggle"
      <4>1. row[s] \in ScheduleRow
        BY <1>1, <2>1, <3>1 DEF WriteCommit, Exists, TypeOK, Unborn, Deleted, NoRow
      <4>2. row'[s] = Stored(s, request)
        BY <1>1, <2>1, <3>1 DEF WriteCommit, TypeOK
      <4> QED BY <4>1, <4>2 DEF Stored, ScheduleRow
    <3>2. CASE request.kind # "toggle"
      BY <1>1, <2>1, <3>2 DEF WriteCommit, TypeOK
    <3> QED BY <3>1, <3>2
  <2>5. request.next \in Nat \/ request.next = Never
    BY <2>1 DEF RequestType
  <2>6. \A v \in Users : write'[v].next # Never => write'[v].enabled
    BY <1>1 DEF WriteCommit, TypeOK, NoWrite
  <2>7. now' = now /\ tick' = tick
    BY <1>1 DEF WriteCommit
  <2> QED BY <2>1, <2>2, <2>3, <2>4, <2>5, <2>6, <2>7 DEF Never
<1>2. CASE WriteAbandoned(u) BY <1>2 DEF WriteAbandoned, NoWrite, TypeOK
<1>3. CASE RunEnqueue(u) BY <1>3 DEF RunEnqueue, NoWrite, TypeOK
<1> QED BY <1>1, <1>2, <1>3

LEMMA ClaimStep == TypeOK /\ ClaimInv /\ [Next]_vars => ClaimInv'
<1> SUFFICES ASSUME TypeOK, ClaimInv, [Next]_vars PROVE ClaimInv'
  OBVIOUS
<1>1. ASSUME NEW u \in Users, NEW s \in Schedules,
             CreateRequest(u, s) \/ UpdateRequest(u, s) \/ ToggleRequest(u, s) \/
             RunRequest(u, s)
      PROVE  ClaimInv'
  BY <1>1, ClaimRequest DEF CreateRequest, UpdateRequest, ToggleRequest, RunRequest
<1> USE DEF ClaimInv, EnabledIffScheduled, OccurrencesAscend, rowVars
<1>2. CASE UNCHANGED vars BY <1>2 DEF vars
<1>3. ASSUME NEW s \in Schedules, Delete(s) PROVE ClaimInv'
  BY <1>3 DEF Delete, Deleted, NoRow, TypeOK
<1>4. CASE TimePasses BY <1>4, BoundsAssumption DEF TimePasses, TypeOK
<1>5. CASE Crash BY <1>5, BoundsAssumption DEF Crash, NoTick, NoWrite, TypeOK
<1> QED BY <1>1, <1>2, <1>3, <1>4, <1>5, ClaimTick, ClaimAnswer DEF Next

LEMMA ClaimInvariant == Spec => []ClaimInv
BY ClaimInit, ClaimStep, SchedulesTypeCorrect, PTL DEF Spec

\* No occurrence of a schedule is claimed twice between two writes of it, across
\* errors, restarts and pauses of any length.
THEOREM NoOccurrenceTwice == Spec => []OccurrencesAscend
<1>1. ClaimInv => OccurrencesAscend
  BY DEF ClaimInv
<1> QED BY <1>1, ClaimInvariant, PTL

\* A tick takes a schedule only while it is enabled and due, and uses the
\* occurrence up in the same step, however old the snapshot it decides on.
THEOREM OnlyDueIsClaimed == Spec => ClaimsAreDue
<1> DEFINE A == tick.pc = "claim" /\ tick'.pc = "enqueue" =>
                    LET s == Head(tick.batch).schedule
                    IN  IsDue(s) /\ row'[s].next # row[s].next
<1>1. TypeOK /\ ClaimInv /\ [Next]_vars => A
  <2> SUFFICES ASSUME TypeOK, ClaimInv, [Next]_vars, tick.pc = "claim",
                      tick'.pc = "enqueue"
               PROVE  A
    OBVIOUS
  <2>1. Rest.pc # "enqueue"
    BY RestIsTyped
  <2>2. TickClaim
    <3>1. ~(TickSelect \/ TickSkip \/ TickMiss \/ TickEnqueue \/ TickEnqueueFails \/
            TickFault)
      BY <2>1 DEF TickSelect, TickSkip, TickMiss, TickEnqueue, TickEnqueueFails,
                  TickFault, AfterUnreadable, AfterMiss, NoTick
    <3>2. \A u, s, kind, cron, enabled : ~Request(u, s, kind, cron, enabled)
      BY DEF Request
    <3>3. \A u, s : ~(CreateRequest(u, s) \/ UpdateRequest(u, s) \/
                      ToggleRequest(u, s) \/ RunRequest(u, s))
      BY <3>2 DEF CreateRequest, UpdateRequest, ToggleRequest, RunRequest
    <3>4. \A u : ~(WriteCommit(u) \/ WriteAbandoned(u) \/ RunEnqueue(u))
      BY DEF WriteCommit, WriteAbandoned, RunEnqueue
    <3>5. \A s : ~Delete(s)
      BY DEF Delete
    <3>6. ~(TimePasses \/ Crash \/ UNCHANGED vars)
      BY DEF TimePasses, Crash, NoTick, vars
    <3> QED BY <3>1, <3>3, <3>4, <3>5, <3>6 DEF Next, Tick
  <2> DEFINE s == Head(tick.batch).schedule
  <2>3. IsDue(s) /\ (row'[s].next = Never \/
                     (row'[s].next \in Nat /\ row'[s].next > row[s].next))
    BY <2>2, ClaimIsDue
  <2>4. row[s].next \in Nat
    BY <2>2, <2>3, ClaimIsDue DEF TypeOK, IsDue, ScheduleRow, Unborn, Deleted, NoRow
  <2> QED BY <2>3, <2>4 DEF IsDue
<1>2. TypeOK /\ ClaimInv /\ [Next]_vars => [A]_vars
  BY <1>1
<1> QED
  BY <1>2, SchedulesTypeCorrect, ClaimInvariant, PTL DEF Spec, ClaimsAreDue

=============================================================================
