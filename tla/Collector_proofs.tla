-------------------------- MODULE Collector_proofs --------------------------
(***************************************************************************)
(* Theorems about Collector, for every set of sources and configurations   *)
(* and every number of versions, edits, crashes and mishaps.               *)
(***************************************************************************)
EXTENDS Collector, TLAPS

-----------------------------------------------------------------------------
(* The inductive invariant                                                   *)

RequestType == [target : Targets, query : Queries, file : Files,
                key : Keys \cup {NoKey}]

RunType == [pc : RunPc, target : Targets \cup {NoConfig}, source : SourceType,
            current : SourceType, key : Keys \cup {NoKey}, file : Files,
            outcome : OutcomeType]

\* All but the store, the runs and the lines.  What has a receipt was given.
World ==
    /\ disk \in [Directories -> Files] /\ enabled \subseteq Sources
    /\ staged \subseteq Keys \X Files
    /\ held \in [Targets -> Files] /\ receipts \subseteq ReceiptType
    /\ given \subseteq Targets \X Files /\ late \subseteq RequestType
    /\ refusing \in RefusingType /\ written \in Files /\ edits \in Nat
    /\ \A q \in receipts : <<q.target, q.file>> \in given

\* A run that is past its line holds records of a source that existed.
Busy(r) == r.pc \notin {"idle", "queued"}
Formed(r) ==
    /\ r \in RunType
    /\ r.pc # "idle" => r.target \in Targets
    /\ Busy(r) => r.source.config \in Configs /\ r.current.config \in Configs
    /\ r.pc \in {"copying", "snapshot"} => r.key \in Keys

\* A source that is under way stands in the line of its target, once, and has
\* left it as soon as it is over; the one that works is the first.
Lined ==
    /\ queue \in [Targets -> Seq(Sources)]
    /\ \A t \in Targets : \A i, j \in DOMAIN queue[t] : queue[t][i] = queue[t][j] => i = j
    /\ \A t \in Targets : \A i \in DOMAIN queue[t] :
           run[queue[t][i]].pc # "idle" /\ run[queue[t][i]].target = t
    /\ \A s \in Sources : run[s].pc # "idle" =>
           \E i \in DOMAIN queue[run[s].target] : queue[run[s].target][i] = s
    /\ \A s \in Sources : Busy(run[s]) => queue[run[s].target][1] = s

\* A target has been given file f: some target, and the configured one unless
\* somebody edited a source.
Reached(c, f) ==
    /\ \E t \in Targets : <<t, f>> \in given
    /\ edits = 0 => <<c.target, f>> \in given

\* What a record says was delivered was.
Sound(d) ==
    /\ d.applied # 0 => Reached(d.config, d.applied)
    /\ d.last.imported => Reached(d.config, d.last.file)
Stored(d) ==
    /\ d \in SourceType
    /\ d.config = NoConfig => d = Deleted
    /\ Sound(d)

\* The record a run goes by is sound, and of the present configuration unless
\* somebody edited a source.
Carried(r, d) ==
    /\ Busy(r) => Sound(r.current)
    /\ edits = 0 /\ r.pc # "idle" =>
           /\ d.config \in Configs /\ r.target = d.config.target
           /\ Busy(r) => r.source.config = d.config /\ r.current.config = d.config

\* What a run believes delivered, by its stage, was.
Early == {"idle", "queued", "checking", "scanning", "copying", "snapshot", "waiting", "staged"}
Delivered(r) == Reached(r.current.config, r.file)
Publishes(r) == r.source.config.mode = "saved_query"
Believed(r) ==
    /\ r.pc \in Early => ~r.outcome.imported
    /\ r.pc = "identify" => Publishes(r)
    /\ r.pc = "skipping" => r.file = r.current.applied
    /\ r.pc \in {"trigger", "removing"} => Delivered(r)
    /\ r.pc = "publishing" /\ ~Publishes(r) => Delivered(r)
    /\ r.pc # "record" /\ r.outcome.imported => Delivered(r)
    /\ r.pc = "record" =>
        /\ r.outcome.imported => Reached(r.current.config, r.outcome.file)
        /\ r.outcome.status # "failed" /\ r.outcome.file # 0 =>
               Reached(r.current.config, r.outcome.file)

CollectorInv ==
    /\ World /\ Lined
    /\ store \in [Sources -> SourceType] /\ run \in [Sources -> RunType]
    /\ \A s \in Sources :
        /\ Formed(run[s]) /\ Stored(store[s])
        /\ Carried(run[s], store[s]) /\ Believed(run[s])

-----------------------------------------------------------------------------
(* What every step does to one source                                       *)

LEMMA NoFile == 0 \in Files
BY BoundsAssumption DEF Files

\* The sources that a step leaves alone.
LEMMA OthersStay ==
  ASSUME CollectorInv, NEW s \in Sources,
         run'[s] = run[s], store'[s] = store[s],
         given \subseteq given', edits' = edits
  PROVE  /\ Formed(run[s])' /\ Stored(store[s])'
         /\ Carried(run[s], store[s])' /\ Believed(run[s])'
<1>1. Formed(run[s]) /\ Stored(store[s]) /\ Carried(run[s], store[s]) /\ Believed(run[s])
  BY DEF CollectorInv
<1>2. \A c, f : Reached(c, f) => Reached(c, f)'
  BY DEF Reached
<1>3. Formed(run[s])' /\ Stored(store[s])'
  BY <1>1, <1>2 DEF Formed, Busy, Stored, Sound
<1>4. Carried(run[s], store[s])'
  BY <1>1, <1>2 DEF Carried, Busy, Sound
<1>5. Believed(run[s])'
  BY <1>1, <1>2 DEF Believed, Delivered, Publishes
<1> QED BY <1>3, <1>4, <1>5

\* A run that goes on keeps its place in the line.
LEMMA RunGoesOn ==
  ASSUME CollectorInv, NEW s \in Sources, NEW r, NEW d,
         run[s].pc # "idle", queue[run[s].target][1] = s, Busy(r), r.target = run[s].target,
         run' = [run EXCEPT ![s] = r], store' = [store EXCEPT ![s] = d],
         queue' = queue, given \subseteq given', edits' = edits, World',
         Formed(r), Stored(d)', Carried(r, d)', Believed(r)'
  PROVE  CollectorInv'
<1>1. r \in RunType /\ d \in SourceType
  BY DEF Formed, Stored
<1>2. run' \in [Sources -> RunType] /\ store' \in [Sources -> SourceType]
  BY <1>1 DEF CollectorInv
<1>3. run'[s] = r /\ store'[s] = d
  BY DEF CollectorInv
<1>4. \A x \in Sources : x # s => run'[x] = run[x] /\ store'[x] = store[x]
  BY DEF CollectorInv
<1>5. \A x \in Sources : /\ run'[x].pc # "idle" <=> run[x].pc # "idle"
                         /\ Busy(run'[x]) => Busy(run[x]) \/ x = s
                         /\ run'[x].target = run[x].target
  BY <1>3, <1>4 DEF Busy
<1>6. Lined'
  <2>1. Lined
    BY DEF CollectorInv
  <2>2. \A t \in Targets : \A i \in DOMAIN queue[t] : queue[t][i] \in Sources
    BY <2>1 DEF Lined
  <2>3. \A t \in Targets : \A i \in DOMAIN queue'[t] :
           run'[queue'[t][i]].pc # "idle" /\ run'[queue'[t][i]].target = t
    BY <1>5, <2>1, <2>2 DEF Lined
  <2>4. \A x \in Sources : run'[x].pc # "idle" =>
           \E i \in DOMAIN queue'[run'[x].target] : queue'[run'[x].target][i] = x
    <3> SUFFICES ASSUME NEW x \in Sources, run'[x].pc # "idle"
                 PROVE  \E i \in DOMAIN queue[run[x].target] : queue[run[x].target][i] = x
      BY <1>5
    <3> QED BY <1>5, <2>1 DEF Lined
  <2>5. \A x \in Sources : Busy(run'[x]) => queue'[run'[x].target][1] = x
    BY <1>5, <2>1 DEF Lined
  <2>6. /\ queue' \in [Targets -> Seq(Sources)]
        /\ \A t \in Targets : \A i, j \in DOMAIN queue'[t] :
               queue'[t][i] = queue'[t][j] => i = j
    BY <2>1 DEF Lined
  <2>7. \A x \in Sources : Busy(run[x])' => queue'[run'[x].target][1] = x
    BY <2>5 DEF Busy
  <2> QED BY <2>3, <2>4, <2>6, <2>7, Zenon DEF Lined
<1>7. \A x \in Sources : /\ Formed(run[x])' /\ Stored(store[x])'
                         /\ Carried(run[x], store[x])' /\ Believed(run[x])'
  <2> SUFFICES ASSUME NEW x \in Sources
               PROVE  /\ Formed(run[x])' /\ Stored(store[x])'
                      /\ Carried(run[x], store[x])' /\ Believed(run[x])'
    OBVIOUS
  <2>1. CASE x = s
    <3>1. Formed(run[x])'
      BY <2>1, <1>3 DEF Formed, Busy
    <3>2. Stored(store[x])'
      BY <2>1, <1>3 DEF Stored, Sound, Reached
    <3>3. Carried(run[x], store[x])'
      BY <2>1, <1>3 DEF Carried, Sound, Reached, Busy
    <3>4. Believed(run[x])'
      BY <2>1, <1>3 DEF Believed, Delivered, Publishes, Reached
    <3> QED BY <3>1, <3>2, <3>3, <3>4
  <2>2. CASE x # s
    BY <2>2, <1>4, OthersStay
  <2> QED BY <2>1, <2>2
<1> QED BY <1>2, <1>6, <1>7 DEF CollectorInv

\* A run that ends leaves the line of its target to the next one.
LEMMA LineMovesUp ==
  ASSUME CollectorInv, NEW s \in Sources, run[s].pc # "idle",
         queue[run[s].target][1] = s, Ends(s)
  PROVE  Lined'
<1> DEFINE t0 == run[s].target
<1>1. Lined /\ t0 \in Targets /\ queue[t0] \in Seq(Sources)
  BY DEF CollectorInv, Formed, Lined
<1>2. queue[t0] # <<>>
  BY <1>1 DEF Lined
<1>3. /\ queue'[t0] = Tail(queue[t0]) /\ \A t \in Targets \ {t0} : queue'[t] = queue[t]
      /\ queue' \in [Targets -> Seq(Sources)]
  BY <1>1, <1>2 DEF Ends, Lined
<1>4. /\ run'[s] = NoRun /\ \A x \in Sources \ {s} : run'[x] = run[x]
  BY DEF Ends, CollectorInv
<1>5. \A i \in DOMAIN queue'[t0] :
        i + 1 \in DOMAIN queue[t0] /\ queue'[t0][i] = queue[t0][i + 1]
  BY <1>1, <1>2, <1>3
<1>6. \A i \in DOMAIN queue[t0] : i # 1 =>
        \E j \in DOMAIN queue'[t0] : queue'[t0][j] = queue[t0][i]
  <2> SUFFICES ASSUME NEW i \in DOMAIN queue[t0], i # 1
               PROVE  \E j \in DOMAIN queue'[t0] : queue'[t0][j] = queue[t0][i]
    OBVIOUS
  <2> DEFINE j == i - 1
  <2>1. i = j + 1 /\ j \in 1..(Len(queue[t0]) - 1)
    <3>1. i \in Nat /\ i <= Len(queue[t0]) /\ i >= 2 /\ Len(queue[t0]) \in Nat
      BY <1>1
    <3> QED BY <3>1
  <2>2. j \in DOMAIN queue'[t0]
    BY <2>1, <1>1, <1>2, <1>3
  <2> QED BY <2>1, <2>2, <1>5
<1>7. \A i \in DOMAIN queue[t0] : queue[t0][i] \in Sources /\ i \in Nat /\ i >= 1
  BY <1>1
<1>8. 1 \in DOMAIN queue[t0]
  BY <1>1, <1>2
<1>9. \A t \in Targets : \A i, j \in DOMAIN queue'[t] : queue'[t][i] = queue'[t][j] => i = j
  <2> SUFFICES ASSUME NEW t \in Targets, NEW i \in DOMAIN queue'[t], NEW j \in DOMAIN queue'[t],
                      queue'[t][i] = queue'[t][j]
               PROVE  i = j
    OBVIOUS
  <2>1. CASE t = t0
    <3>1. i + 1 = j + 1
      BY <2>1, <1>1, <1>5 DEF Lined
    <3>2. i \in Nat /\ j \in Nat
      BY <2>1, <1>3
    <3> QED BY <3>1, <3>2
  <2>2. CASE t # t0
    BY <2>2, <1>1, <1>3 DEF Lined
  <2> QED BY <2>1, <2>2
<1>10. \A t \in Targets : \A i \in DOMAIN queue'[t] :
         run'[queue'[t][i]].pc # "idle" /\ run'[queue'[t][i]].target = t
  <2> SUFFICES ASSUME NEW t \in Targets, NEW i \in DOMAIN queue'[t]
               PROVE  run'[queue'[t][i]].pc # "idle" /\ run'[queue'[t][i]].target = t
    OBVIOUS
  <2>1. CASE t = t0
    <3>1. i \in Nat /\ i >= 1
      BY <2>1, <1>3
    <3>2. queue'[t][i] = queue[t0][i + 1] /\ i + 1 \in DOMAIN queue[t0] /\ i + 1 # 1
      BY <2>1, <3>1, <1>5
    <3>3. queue[t0][i + 1] \in Sources \ {s}
      BY <3>2, <1>1, <1>7, <1>8 DEF Lined
    <3> QED BY <2>1, <3>2, <3>3, <1>1, <1>4 DEF Lined
  <2>2. CASE t # t0
    <3>1. queue'[t][i] = queue[t][i] /\ i \in DOMAIN queue[t] /\ queue[t][i] \in Sources
      BY <2>2, <1>1, <1>3 DEF Lined
    <3>2. queue[t][i] # s
      BY <2>2, <3>1, <1>1 DEF Lined
    <3> QED BY <3>1, <3>2, <1>1, <1>4 DEF Lined
  <2> QED BY <2>1, <2>2
<1>11. \A x \in Sources : run'[x].pc # "idle" =>
         \E i \in DOMAIN queue'[run'[x].target] : queue'[run'[x].target][i] = x
  <2> SUFFICES ASSUME NEW x \in Sources, run'[x].pc # "idle"
               PROVE  \E i \in DOMAIN queue'[run'[x].target] : queue'[run'[x].target][i] = x
    OBVIOUS
  <2>1. x # s /\ run'[x] = run[x] /\ run[x].target \in Targets
    BY <1>4 DEF NoRun, CollectorInv, Formed
  <2>2. PICK i \in DOMAIN queue[run[x].target] : queue[run[x].target][i] = x
    BY <2>1, <1>1 DEF Lined
  <2>3. CASE run[x].target = t0
    <3>1. i # 1
      BY <2>1, <2>2, <2>3
    <3> QED BY <3>1, <2>1, <2>2, <2>3, <1>6
  <2>4. CASE run[x].target # t0
    BY <2>1, <2>2, <2>4, <1>3
  <2> QED BY <2>3, <2>4
<1>12. \A x \in Sources : Busy(run'[x]) => queue'[run'[x].target][1] = x
  <2> SUFFICES ASSUME NEW x \in Sources, Busy(run'[x])
               PROVE  queue'[run'[x].target][1] = x
    OBVIOUS
  <2>1. x # s /\ run'[x] = run[x] /\ run[x].target \in Targets
    BY <1>4 DEF NoRun, CollectorInv, Formed, Busy
  <2>2. queue[run[x].target][1] = x
    BY <2>1, <1>1 DEF Lined, Busy
  <2>3. run[x].target # t0
    BY <2>1, <2>2
  <2> QED BY <2>1, <2>2, <2>3, <1>3
<1>13. \A x \in Sources : Busy(run[x])' => queue'[run'[x].target][1] = x
  BY <1>12 DEF Busy
<1> QED BY <1>3, <1>9, <1>10, <1>11, <1>13, Zenon DEF Lined

LEMMA RunEnds ==
  ASSUME CollectorInv, NEW s \in Sources, NEW d,
         run[s].pc # "idle", queue[run[s].target][1] = s,
         Ends(s), store' = [store EXCEPT ![s] = d],
         given \subseteq given', edits' = edits, World', Stored(d)'
  PROVE  CollectorInv'
<1>1. Lined'
  BY LineMovesUp
<1>2. NoRun \in RunType
  BY BoundsAssumption DEF NoRun, RunType, RunPc, SourceType, Deleted, NoAttempt, AttemptType,
     NoOutcome, OutcomeType, Files, Phases
<1>3. run' = [run EXCEPT ![s] = NoRun]
  BY DEF Ends
<1>4. run' \in [Sources -> RunType] /\ store' \in [Sources -> SourceType]
  BY <1>2, <1>3 DEF CollectorInv, Stored
<1>5. run'[s] = NoRun /\ store'[s] = d
  BY <1>3 DEF CollectorInv
<1>6. \A x \in Sources : x # s => run'[x] = run[x] /\ store'[x] = store[x]
  BY <1>3 DEF CollectorInv
<1>7. \A x \in Sources : /\ Formed(run[x])' /\ Stored(store[x])'
                         /\ Carried(run[x], store[x])' /\ Believed(run[x])'
  <2> SUFFICES ASSUME NEW x \in Sources
               PROVE  /\ Formed(run[x])' /\ Stored(store[x])'
                      /\ Carried(run[x], store[x])' /\ Believed(run[x])'
    OBVIOUS
  <2>1. CASE x = s
    <3>1. Formed(run[x])'
      BY <2>1, <1>2, <1>5 DEF Formed, Busy, NoRun
    <3>2. Stored(store[x])'
      BY <2>1, <1>5 DEF Stored, Sound, Reached
    <3>3. Carried(run[x], store[x])'
      BY <2>1, <1>5 DEF Carried, Busy, NoRun
    <3>4. Believed(run[x])'
      BY <2>1, <1>5 DEF Believed, NoRun, NoOutcome
    <3> QED BY <3>1, <3>2, <3>3, <3>4
  <2>2. CASE x # s
    BY <2>2, <1>6, OthersStay
  <2> QED BY <2>1, <2>2
<1> QED BY <1>1, <1>4, <1>7 DEF CollectorInv

LEMMA AllStays ==
  ASSUME NEW r, NEW d, given \subseteq given', edits' = edits
  PROVE  /\ Stored(d) => Stored(d)'
         /\ Carried(r, d) => Carried(r, d)'
         /\ Believed(r) => Believed(r)'
<1>1. \A c, f : Reached(c, f) => Reached(c, f)'
  BY DEF Reached
<1>2. Stored(d) => Stored(d)'
  BY <1>1 DEF Stored, Sound
<1>3. Carried(r, d) => Carried(r, d)'
  BY <1>1 DEF Carried, Busy, Sound
<1>4. Believed(r) => Believed(r)'
  BY <1>1 DEF Believed, Delivered, Publishes
<1> QED BY <1>2, <1>3, <1>4

\* A run that works is the first of its line.
LEMMA FirstInLine ==
  ASSUME CollectorInv, NEW s \in Sources, Busy(run[s])
  PROVE  run[s].pc # "idle" /\ queue[run[s].target][1] = s
BY DEF CollectorInv, Lined, Busy

\* A record that a run saves keeps what the source is and what it delivered.
Continues(s, d) ==
    /\ d \in SourceType /\ d.config = store[s].config
    /\ d.applied = store[s].applied /\ d.last = store[s].last

LEMMA AttemptContinues ==
  ASSUME CollectorInv, NEW s \in Sources, NEW file \in Files, NEW phase \in Phases
  PROVE  Continues(s, Attempt(s, file, phase))
<1>1. store[s] \in SourceType /\ run[s] \in RunType
  BY DEF CollectorInv
<1>2. [key |-> run[s].key, staged |-> file, phase |-> phase] \in AttemptType
  BY <1>1 DEF RunType, AttemptType
<1> QED BY <1>1, <1>2 DEF Continues, Attempt, SourceType

LEMMA ContinuesStored ==
  ASSUME CollectorInv, NEW s \in Sources, NEW d, Continues(s, d), store[s].config # NoConfig
  PROVE  Stored(d) /\ d.config \in Configs
BY DEF Continues, Stored, Sound, CollectorInv, SourceType

\* A mutation of the store by a run that goes on if its source is there.
LEMMA RunSaves ==
  ASSUME CollectorInv, NEW s \in Sources, NEW d, NEW pc \in RunPc \ {"idle", "queued"},
         Busy(run[s]), Continues(s, d), Saves(s, d, pc),
         pc \in {"copying", "snapshot"} => run[s].key \in Keys,
         given' = given, edits' = edits, World',
         store[s].config # NoConfig => Believed([run[s] EXCEPT !.current = d, !.pc = pc])
  PROVE  CollectorInv'
<1>1. run[s].pc # "idle" /\ queue[run[s].target][1] = s
  BY FirstInLine
<1>2. CASE store[s].config = NoConfig
  <2> PICK e : e = store[s]
    OBVIOUS
  <2>1. Stored(e)'
    BY AllStays DEF CollectorInv
  <2>2. store' = [store EXCEPT ![s] = e] /\ Ends(s)
    BY <1>2 DEF Saves, CollectorInv
  <2> QED BY <1>1, <2>1, <2>2, RunEnds
<1>3. CASE store[s].config # NoConfig
  <2> PICK r : r = [run[s] EXCEPT !.current = d, !.pc = pc]
    OBVIOUS
  <2>1. run[s] \in RunType /\ d \in SourceType /\ d.config \in Configs /\ Stored(d)
    BY <1>3, ContinuesStored DEF CollectorInv, Continues
  <2>2. /\ r \in RunType /\ r.pc = pc /\ r.current = d /\ r.target = run[s].target
        /\ r.source = run[s].source /\ r.key = run[s].key
    BY <2>1 DEF RunType
  <2>3. Formed(r) /\ Busy(r)
    BY <2>1, <2>2 DEF Formed, Busy, CollectorInv
  <2>4. Carried(r, d)
    BY <2>1, <2>2 DEF Carried, Busy, Stored, CollectorInv, Continues
  <2>5. Believed(r)' /\ Carried(r, d)' /\ Stored(d)'
    BY <1>3, <2>1, <2>4, AllStays
  <2>6. /\ run' = [run EXCEPT ![s] = r] /\ store' = [store EXCEPT ![s] = d]
        /\ queue' = queue
    BY <1>3, <2>2 DEF Saves, CollectorInv
  <2> QED BY <1>1, <2>2, <2>3, <2>5, <2>6, RunGoesOn
<1> QED BY <1>2, <1>3

\* The last mutation of a run, which ends whether its source is there or not.
LEMMA RunSavesLast ==
  ASSUME CollectorInv, NEW s \in Sources, NEW d, Busy(run[s]), SavesLast(s, d),
         store[s].config # NoConfig => Stored(d),
         given' = given, edits' = edits, World'
  PROVE  CollectorInv'
<1>1. run[s].pc # "idle" /\ queue[run[s].target][1] = s
  BY FirstInLine
<1> PICK e : e = IF store[s].config = NoConfig THEN store[s] ELSE d
  OBVIOUS
<1>2. Stored(e)'
  BY AllStays DEF CollectorInv
<1>3. store' = [store EXCEPT ![s] = e] /\ Ends(s)
  BY DEF SavesLast, CollectorInv
<1> QED BY <1>1, <1>2, <1>3, RunEnds

\* A step of a run that leaves the store as it is.
LEMMA RunMoves ==
  ASSUME CollectorInv, NEW s \in Sources, NEW r, Busy(run[s]), Busy(r),
         r.target = run[s].target, r.source = run[s].source, r.current = run[s].current,
         run' = [run EXCEPT ![s] = r], UNCHANGED <<store, queue>>,
         given \subseteq given', edits' = edits, World', Formed(r), Believed(r)'
  PROVE  CollectorInv'
<1> PICK d : d = store[s]
  OBVIOUS
<1>1. Stored(d) /\ Carried(r, d)
  BY DEF CollectorInv, Carried, Busy
<1>2. store' = [store EXCEPT ![s] = d]
  BY DEF CollectorInv
<1> QED BY <1>1, <1>2, AllStays, FirstInLine, RunGoesOn

-----------------------------------------------------------------------------
(* One lemma per action: reaching the file                                   *)

LEMMA LaunchKeeps ==
  ASSUME CollectorInv, NEW s \in Sources, Launch(s)
  PROVE  CollectorInv'
<1> DEFINE t0 == store[s].config.target
           r == [run[s] EXCEPT !.pc = "queued", !.target = t0]
<1>1. /\ Lined /\ store[s] \in SourceType /\ store[s].config \in Configs
      /\ run[s] \in RunType /\ run[s].pc = "idle"
  BY DEF CollectorInv, Launch, At, SourceType
<1>2. t0 \in Targets
  BY <1>1 DEF Targets
<1>3. /\ r \in RunType /\ r.pc = "queued" /\ r.target = t0
      /\ r.outcome = run[s].outcome
  BY <1>1, <1>2 DEF RunType, RunPc
<1>4. run' = [run EXCEPT ![s] = r] /\ UNCHANGED <<store, given, edits>>
  BY DEF Launch, serverVars, boundVars
<1>5. run'[s] = r /\ \A x \in Sources \ {s} : run'[x] = run[x]
  BY <1>4 DEF CollectorInv
<1>6. run' \in [Sources -> RunType]
  BY <1>3, <1>4 DEF CollectorInv
<1>7. World'
  BY DEF World, CollectorInv, Launch, serverVars, boundVars
<1>8. Lined'
  <2>0. /\ queue \in [Targets -> Seq(Sources)]
        /\ queue' = [queue EXCEPT ![t0] = Append(@, s)]
    BY <1>1 DEF Launch, Lined
  <2>1. /\ queue' \in [Targets -> Seq(Sources)] /\ queue[t0] \in Seq(Sources)
        /\ queue'[t0] = Append(queue[t0], s)
        /\ \A t \in Targets \ {t0} : queue'[t] = queue[t]
    <3> HIDE DEF t0
    <3>1. Append(queue[t0], s) \in Seq(Sources)
      BY <1>2, <2>0
    <3> QED BY <1>2, <2>0, <3>1
  <2>2. \A t \in Targets : \A i \in DOMAIN queue[t] : queue[t][i] \in Sources \ {s}
    BY <1>1 DEF Lined
  <2>3. /\ \A i \in DOMAIN queue[t0] : i \in DOMAIN queue'[t0] /\ queue'[t0][i] = queue[t0][i]
        /\ \A i \in DOMAIN queue'[t0] : i \in DOMAIN queue[t0] \/ i = Len(queue[t0]) + 1
        /\ Len(queue[t0]) + 1 \in DOMAIN queue'[t0] /\ queue'[t0][Len(queue[t0]) + 1] = s
    BY <2>1
  <2>4. \A t \in Targets : \A i, j \in DOMAIN queue'[t] : queue'[t][i] = queue'[t][j] => i = j
    <3> SUFFICES ASSUME NEW t \in Targets, NEW i \in DOMAIN queue'[t],
                        NEW j \in DOMAIN queue'[t], queue'[t][i] = queue'[t][j]
                 PROVE  i = j
      OBVIOUS
    <3>1. CASE t = t0
      BY <3>1, <1>1, <1>2, <2>2, <2>3, SMTT(20) DEF Lined
    <3>2. CASE t # t0
      BY <3>2, <1>1, <2>1 DEF Lined
    <3> QED BY <3>1, <3>2
  <2>5. \A t \in Targets : \A i \in DOMAIN queue'[t] :
          run'[queue'[t][i]].pc # "idle" /\ run'[queue'[t][i]].target = t
    <3> SUFFICES ASSUME NEW t \in Targets, NEW i \in DOMAIN queue'[t]
                 PROVE  run'[queue'[t][i]].pc # "idle" /\ run'[queue'[t][i]].target = t
      OBVIOUS
    <3>1. CASE queue'[t][i] = s
      <4>1. t = t0
        BY <3>1, <2>1, <2>2
      <4> QED BY <3>1, <4>1, <1>3, <1>5
    <3>2. CASE queue'[t][i] # s
      <4>1. i \in DOMAIN queue[t] /\ queue'[t][i] = queue[t][i]
        BY <3>2, <2>1, <2>3
      <4> QED BY <4>1, <1>1, <1>5, <2>2 DEF Lined
    <3> QED BY <3>1, <3>2
  <2>6. \A x \in Sources : run'[x].pc # "idle" =>
          \E i \in DOMAIN queue'[run'[x].target] : queue'[run'[x].target][i] = x
    <3> SUFFICES ASSUME NEW x \in Sources, run'[x].pc # "idle"
                 PROVE  \E i \in DOMAIN queue'[run'[x].target] : queue'[run'[x].target][i] = x
      OBVIOUS
    <3>1. CASE x = s
      BY <3>1, <1>3, <1>5, <2>3
    <3>2. CASE x # s
      <4>1. run'[x] = run[x] /\ run[x].target \in Targets
        BY <3>2, <1>5 DEF CollectorInv, Formed
      <4>2. PICK i \in DOMAIN queue[run[x].target] : queue[run[x].target][i] = x
        BY <4>1, <1>1 DEF Lined
      <4>3. i \in DOMAIN queue'[run[x].target] /\ queue'[run[x].target][i] = x
        BY <4>1, <4>2, <2>1, <2>3
      <4> QED BY <4>1, <4>3
    <3> QED BY <3>1, <3>2
  <2>7. \A x \in Sources : Busy(run'[x]) => queue'[run'[x].target][1] = x
    <3> SUFFICES ASSUME NEW x \in Sources, Busy(run'[x])
                 PROVE  queue'[run'[x].target][1] = x
      OBVIOUS
    <3>1. x # s /\ run'[x] = run[x] /\ run[x].target \in Targets
      BY <1>3, <1>5 DEF Busy, CollectorInv, Formed
    <3>2. queue[run[x].target][1] = x /\ queue[run[x].target] # <<>>
      BY <3>1, <1>1 DEF Lined, Busy
    <3>3. 1 \in DOMAIN queue[run[x].target]
      BY <3>1, <3>2, <1>1 DEF Lined
    <3>4. queue'[run[x].target][1] = queue[run[x].target][1]
      <4>1. CASE run[x].target = t0
        BY <4>1, <3>3, <2>3
      <4>2. CASE run[x].target # t0
        BY <4>2, <3>1, <2>1
      <4> QED BY <4>1, <4>2
    <3> HIDE DEF t0, r
    <3> QED BY <3>1, <3>2, <3>4
  <2>8. \A x \in Sources : Busy(run[x])' => queue'[run'[x].target][1] = x
    BY <2>7 DEF Busy
  <2> QED BY <2>1, <2>4, <2>5, <2>6, <2>8, Zenon DEF Lined
<1>9. \A x \in Sources : /\ Formed(run[x])' /\ Stored(store[x])'
                         /\ Carried(run[x], store[x])' /\ Believed(run[x])'
  <2> SUFFICES ASSUME NEW x \in Sources
               PROVE  /\ Formed(run[x])' /\ Stored(store[x])'
                      /\ Carried(run[x], store[x])' /\ Believed(run[x])'
    OBVIOUS
  <2>1. CASE x = s
    <3>1. Formed(run[x])'
      BY <2>1, <1>2, <1>3, <1>5 DEF Formed, Busy
    <3>2. Stored(store[x])'
      BY <1>4 DEF Stored, Sound, Reached, CollectorInv
    <3>3. Carried(run[x], store[x])'
      BY <2>1, <1>1, <1>3, <1>4, <1>5 DEF Carried, Busy
    <3>4. ~run[s].outcome.imported
      BY <1>1 DEF Believed, Early, CollectorInv
    <3>5. Believed(run[x])'
      BY <2>1, <3>4, <1>3, <1>5 DEF Believed
    <3> QED BY <3>1, <3>2, <3>3, <3>5
  <2>2. CASE x # s
    BY <2>2, <1>4, <1>5, OthersStay
  <2> QED BY <2>1, <2>2
<1> QED BY <1>4, <1>6, <1>7, <1>8, <1>9 DEF CollectorInv

LEMMA ExecuteKeeps ==
  ASSUME CollectorInv, NEW s \in Sources, Execute(s)
  PROVE  CollectorInv'
<1>1. /\ run[s].pc = "queued" /\ run[s] \in RunType /\ store[s] \in SourceType
      /\ Formed(run[s]) /\ Stored(store[s]) /\ Carried(run[s], store[s]) /\ Believed(run[s])
  BY DEF CollectorInv, Execute, At
<1>2. queue[run[s].target] \in Seq(Sources) /\ queue[run[s].target][1] = s
  <2>1. run[s].target \in Targets /\ Lined
    BY <1>1 DEF Formed, CollectorInv
  <2> QED BY <2>1 DEF Lined, Execute
<1>3. World' /\ given' = given /\ edits' = edits /\ store' = store
  BY DEF World, CollectorInv, Execute, serverVars, boundVars
<1> PICK d : d = store[s]
  OBVIOUS
<1>4. store' = [store EXCEPT ![s] = d] /\ Stored(d)'
  BY <1>1, <1>3, AllStays DEF CollectorInv
<1>5. CASE store[s].config = NoConfig
  BY <1>1, <1>2, <1>3, <1>4, <1>5, RunEnds DEF Execute
<1>6. CASE store[s].config # NoConfig
  <2> PICK pc : pc = IF store[s].attempt.staged = 0 THEN "scanning" ELSE "checking"
    OBVIOUS
  <2> PICK r : r = [run[s] EXCEPT !.pc = pc, !.source = d, !.current = d]
    OBVIOUS
  <2>1. /\ r \in RunType /\ r.pc = pc /\ r.source = d /\ r.current = d
        /\ r.target = run[s].target /\ r.outcome = run[s].outcome
    BY <1>1 DEF RunType, RunPc
  <2>2. d.config \in Configs
    BY <1>1, <1>6 DEF SourceType
  <2>3. Formed(r) /\ Busy(r)
    BY <1>1, <2>1, <2>2 DEF Formed, Busy
  <2>4. Carried(r, d)
    BY <1>1, <2>1, <2>2 DEF Carried, Busy, Stored
  <2>5. Believed(r)
    BY <1>1, <2>1 DEF Believed, Early
  <2>6. run' = [run EXCEPT ![s] = r] /\ queue' = queue
    <3>1. Reads(s, d, pc) /\ queue' = queue
      BY <1>6 DEF Execute
    <3> QED BY <3>1 DEF Reads, CollectorInv
  <2> QED BY <1>1, <1>2, <1>3, <1>4, <2>1, <2>3, <2>4, <2>5, <2>6, AllStays, RunGoesOn
<1> QED BY <1>5, <1>6

\* The plan for a snapshot rests on what the record says was delivered.
LEMMA PlanIsSound ==
  ASSUME NEW source, NEW current, NEW file, Sound(current)
  PROVE  LET next == Plan(source, current, file)
         IN  /\ next \in {"skipping", "identify", "publishing", "open"}
             /\ next = "skipping" => current.applied = file
             /\ next = "identify" => source.config.mode = "saved_query"
             /\ next = "publishing" => Reached(current.config, file)
BY DEF Plan, Sound

LEMMA RunHolds ==
  ASSUME CollectorInv, NEW s \in Sources, NEW key \in Keys \cup {NoKey}, NEW file \in Files,
         NEW d, Busy(run[s]), d.config \in Configs, Stored(d), Holds(s, key, file, d)
  PROVE  \E r : /\ run' = [run EXCEPT ![s] = r] /\ Formed(r) /\ Busy(r) /\ Believed(r)
                /\ r.target = run[s].target /\ r.source = run[s].source /\ r.current = d
<1> PICK r : r = [run[s] EXCEPT
        !.pc = Plan(run[s].source, d, file), !.current = d, !.key = key, !.file = file,
        !.outcome.imported = Plan(run[s].source, d, file) = "publishing"]
  OBVIOUS
<1> PICK next : next = Plan(run[s].source, d, file)
  OBVIOUS
<1> PICK o : o = [run[s].outcome EXCEPT !.imported = next = "publishing"]
  OBVIOUS
<1>1. run[s] \in RunType /\ Formed(run[s]) /\ d \in SourceType
  BY DEF CollectorInv, Stored
<1>2. /\ next \in {"skipping", "identify", "publishing", "open"}
      /\ next = "skipping" => d.applied = file
      /\ next = "identify" => run[s].source.config.mode = "saved_query"
      /\ next = "publishing" => Reached(d.config, file)
  BY PlanIsSound DEF Stored
<1>3. o \in OutcomeType /\ o.imported = (next = "publishing")
  BY <1>1 DEF RunType, OutcomeType
<1>4. /\ r \in RunType /\ r.pc = next /\ r.current = d /\ r.key = key /\ r.file = file
      /\ r.outcome = o /\ r.target = run[s].target /\ r.source = run[s].source
  <2>1. r = [run[s] EXCEPT !.pc = next, !.current = d, !.key = key, !.file = file, !.outcome = o]
    BY <1>1 DEF RunType
  <2> QED BY <2>1, <1>1, <1>2, <1>3 DEF RunType, RunPc
<1>5. Formed(r) /\ Busy(r)
  BY <1>1, <1>2, <1>4 DEF Formed, Busy
<1>6. Believed(r)
  BY <1>2, <1>3, <1>4 DEF Believed, Early, Delivered, Publishes
<1>7. run' = [run EXCEPT ![s] = r]
  BY DEF Holds
<1> QED BY <1>4, <1>5, <1>6, <1>7

LEMMA ResumeKeeps ==
  ASSUME CollectorInv, NEW s \in Sources, Resume(s)
  PROVE  CollectorInv'
<1> PICK key : key = run[s].current.attempt.key
  OBVIOUS
<1> PICK file : file = run[s].current.attempt.staged
  OBVIOUS
<1> PICK d : d = run[s].current
  OBVIOUS
<1>1. /\ Busy(run[s]) /\ run[s] \in RunType /\ Formed(run[s]) /\ Carried(run[s], store[s])
      /\ Believed(run[s])
  BY DEF CollectorInv, Resume, At, Busy
<1>2. key \in Keys \cup {NoKey} /\ file \in Files
  BY <1>1 DEF RunType, SourceType, AttemptType
<1>3. d \in SourceType /\ d.config \in Configs /\ Sound(d)
  BY <1>1 DEF RunType, Formed, Carried
<1>4. Stored(d)
  BY <1>3, ConfigsAssumption DEF Stored
<1>5. Holds(s, key, file, d)
  BY DEF Resume
<1>6. PICK r : /\ run' = [run EXCEPT ![s] = r] /\ Formed(r) /\ Busy(r) /\ Believed(r)
               /\ r.target = run[s].target /\ r.source = run[s].source /\ r.current = d
  BY <1>1, <1>2, <1>3, <1>4, <1>5, RunHolds
<1>7. World' /\ UNCHANGED <<store, queue, given, edits>>
  BY DEF World, CollectorInv, Resume, serverVars, boundVars
<1> QED BY <1>1, <1>6, <1>7, AllStays, RunMoves

LEMMA RestageKeeps ==
  ASSUME CollectorInv, NEW s \in Sources, Restage(s)
  PROVE  CollectorInv'
<1> PICK a : a = run[s].current.attempt
  OBVIOUS
<1> PICK d : d = [store[s] EXCEPT !.attempt = [a EXCEPT !.staged = 0, !.phase = "copying"]]
  OBVIOUS
<1>1. /\ run[s].pc = "checking" /\ Busy(run[s]) /\ run[s] \in RunType /\ Formed(run[s])
      /\ Stored(store[s]) /\ store[s] \in SourceType /\ Carried(run[s], store[s])
      /\ Believed(run[s])
  BY DEF CollectorInv, Restage, At, Busy
<1>2. Continues(s, d)
  <2>1. a \in AttemptType
    BY <1>1 DEF RunType, SourceType
  <2>2. [a EXCEPT !.staged = 0, !.phase = "copying"] \in AttemptType
    BY <2>1, NoFile DEF AttemptType, Phases
  <2> QED BY <1>1, <2>2 DEF Continues, SourceType
<1>3. World' /\ UNCHANGED <<given, edits>>
  BY DEF World, CollectorInv, Restage, serverVars, boundVars
<1>4. run[s].pc # "idle" /\ queue[run[s].target][1] = s
  BY <1>1, FirstInLine
<1>5. CASE store[s].config = NoConfig
  <2> PICK e : e = store[s]
    OBVIOUS
  <2>1. store' = [store EXCEPT ![s] = e] /\ Ends(s)
    BY <1>5 DEF Restage, CollectorInv
  <2>2. Stored(e)'
    BY <1>1, <1>3, AllStays
  <2> QED BY <1>3, <1>4, <2>1, <2>2, RunEnds
<1>6. CASE store[s].config # NoConfig
  <2> PICK r : r = [run[s] EXCEPT !.pc = "scanning", !.source = d, !.current = d]
    OBVIOUS
  <2>1. d \in SourceType /\ Stored(d) /\ d.config \in Configs /\ d.config = store[s].config
    BY <1>2, <1>6, ContinuesStored DEF Continues
  <2>2. /\ r \in RunType /\ r.pc = "scanning" /\ r.source = d /\ r.current = d
        /\ r.target = run[s].target /\ r.outcome = run[s].outcome
    BY <1>1, <2>1 DEF RunType, RunPc
  <2>3. Formed(r) /\ Busy(r)
    BY <1>1, <2>1, <2>2 DEF Formed, Busy
  <2>4. Carried(r, d)
    BY <1>1, <2>1, <2>2 DEF Carried, Busy, Stored
  <2>5. Believed(r)
    BY <1>1, <2>2 DEF Believed, Early
  <2>6. /\ run' = [run EXCEPT ![s] = r] /\ store' = [store EXCEPT ![s] = d]
        /\ queue' = queue
    BY <1>6 DEF Restage, Reads
  <2> QED BY <1>3, <1>4, <2>1, <2>2, <2>3, <2>4, <2>5, <2>6, AllStays, RunGoesOn
<1> QED BY <1>5, <1>6

LEMMA ScanKeeps ==
  ASSUME CollectorInv, NEW s \in Sources, Scan(s)
  PROVE  CollectorInv'
<1> DEFINE kept == run[s].source.attempt.key
<1> PICK key : key = IF kept # NoKey THEN kept ELSE CHOOSE k \in Keys : Fresh(k)
  OBVIOUS
<1> PICK r : r = [run[s] EXCEPT !.pc = "copying", !.key = key]
  OBVIOUS
<1>1. /\ run[s].pc = "scanning" /\ Busy(run[s]) /\ run[s] \in RunType /\ Formed(run[s])
      /\ Believed(run[s])
  BY DEF CollectorInv, Scan, At, Busy
<1>2. key \in Keys
  <2>1. kept \in Keys \cup {NoKey}
    BY <1>1 DEF RunType, SourceType, AttemptType
  <2> QED BY <2>1 DEF Scan
<1>3. /\ r \in RunType /\ r.pc = "copying" /\ r.key = key /\ r.target = run[s].target
      /\ r.source = run[s].source /\ r.current = run[s].current /\ r.outcome = run[s].outcome
  BY <1>1, <1>2 DEF RunType, RunPc
<1>4. Formed(r) /\ Busy(r)
  BY <1>1, <1>2, <1>3 DEF Formed, Busy
<1>5. Believed(r)
  BY <1>1, <1>3 DEF Believed, Early
<1>6. run' = [run EXCEPT ![s] = r] /\ UNCHANGED <<store, queue, given, edits>>
  BY DEF Scan, serverVars, boundVars, CollectorInv
<1>7. World'
  BY DEF World, CollectorInv, Scan, serverVars, boundVars
<1> QED BY <1>1, <1>3, <1>4, <1>5, <1>6, <1>7, AllStays, RunMoves

\* A failed run that believes its rows imported has delivered them.
LEMMA RunFails ==
  ASSUME CollectorInv, NEW s \in Sources, NEW file \in Files, NEW imported \in BOOLEAN,
         Busy(run[s]), Fails(s, file, imported), UNCHANGED <<store, queue>>,
         imported => Reached(run[s].current.config, file),
         given' = given, edits' = edits, World'
  PROVE  CollectorInv'
<1> PICK o : o = [status |-> "failed", file |-> file, imported |-> imported]
  OBVIOUS
<1> PICK r : r = [run[s] EXCEPT !.pc = "record", !.outcome = o]
  OBVIOUS
<1>1. run[s] \in RunType /\ Formed(run[s])
  BY DEF CollectorInv
<1>2. o \in OutcomeType /\ o.status = "failed" /\ o.file = file /\ o.imported = imported
  BY DEF OutcomeType
<1>3. /\ r \in RunType /\ r.pc = "record" /\ r.outcome = o /\ r.target = run[s].target
      /\ r.source = run[s].source /\ r.current = run[s].current
  BY <1>1, <1>2 DEF RunType, RunPc
<1>4. Formed(r) /\ Busy(r)
  BY <1>1, <1>3 DEF Formed, Busy
<1>5. Believed(r)
  BY <1>2, <1>3 DEF Believed, Early
<1>6. run' = [run EXCEPT ![s] = r]
  BY DEF Fails, CollectorInv
<1> QED BY <1>3, <1>4, <1>5, <1>6, AllStays, RunMoves

LEMMA ScanFailsKeeps ==
  ASSUME CollectorInv, NEW s \in Sources, ScanFails(s)
  PROVE  CollectorInv'
<1>1. run[s].pc = "scanning" /\ Busy(run[s]) /\ run[s] \in RunType
  BY DEF CollectorInv, ScanFails, At, Busy
<1>2. run[s].source.applied \in Files
  BY <1>1 DEF RunType, SourceType
<1>3. UNCHANGED <<disk, enabled, staged, held, receipts, given, late, store, queue>>
  BY DEF ScanFails, serverVars
<1>4. written' = written /\ edits' = edits /\ refusing' = refusing
  BY DEF ScanFails, Mishap, boundVars, serverVars
<1>5. World'
  BY <1>3, <1>4 DEF World, CollectorInv
<1> QED BY <1>1, <1>2, <1>3, <1>4, <1>5, RunFails DEF ScanFails

\* A run that only changes its stage.
LEMMA RunGoes ==
  ASSUME CollectorInv, NEW s \in Sources,
         NEW pc \in RunPc \ {"idle", "queued", "copying", "snapshot", "identify",
                             "skipping", "record"},
         Busy(run[s]), run[s].pc # "record", Goes(s, pc), UNCHANGED <<store, queue>>,
         pc \in Early => run[s].pc \in Early,
         pc \in {"trigger", "removing"} => Delivered(run[s]),
         pc = "publishing" => Publishes(run[s]) \/ Delivered(run[s]),
         given' = given, edits' = edits, World'
  PROVE  CollectorInv'
<1> PICK r : r = [run[s] EXCEPT !.pc = pc]
  OBVIOUS
<1>1. run[s] \in RunType /\ Formed(run[s]) /\ Believed(run[s])
  BY DEF CollectorInv
<1>2. /\ r \in RunType /\ r.pc = pc /\ r.target = run[s].target /\ r.source = run[s].source
      /\ r.current = run[s].current /\ r.file = run[s].file /\ r.outcome = run[s].outcome
  BY <1>1 DEF RunType
<1>3. Formed(r) /\ Busy(r)
  BY <1>1, <1>2 DEF Formed, Busy
<1>4. Believed(r)
  BY <1>1, <1>2 DEF Believed, Delivered, Publishes
<1>5. run' = [run EXCEPT ![s] = r]
  BY DEF Goes, CollectorInv
<1> QED BY <1>2, <1>3, <1>4, <1>5, AllStays, RunMoves

LEMMA RunGivesUp ==
  ASSUME CollectorInv, NEW s \in Sources,
         NEW phase \in {"uploading", "needs_login", "needs_attention"},
         Busy(run[s]), run[s].pc # "record", GivesUp(s, phase), UNCHANGED <<store, queue>>,
         given' = given, edits' = edits, World'
  PROVE  CollectorInv'
<1>1. CASE Saved(s)
  BY <1>1, RunGoes DEF GivesUp, RunPc, Early
<1>2. CASE ~Saved(s)
  <2>1. run[s].file \in Files /\ run[s].outcome.imported \in BOOLEAN
    BY DEF CollectorInv, RunType, OutcomeType
  <2>2. run[s].outcome.imported => Reached(run[s].current.config, run[s].file)
    BY DEF CollectorInv, Believed, Delivered
  <2> QED BY <1>2, <2>1, <2>2, RunFails DEF GivesUp
<1> QED BY <1>1, <1>2

LEMMA NoteCopyingKeeps ==
  ASSUME CollectorInv, NEW s \in Sources, NoteCopying(s)
  PROVE  CollectorInv'
<1> PICK d : d = Attempt(s, 0, "copying")
  OBVIOUS
<1>1. /\ run[s].pc = "copying" /\ Busy(run[s]) /\ run[s] \in RunType /\ run[s].key \in Keys
      /\ Believed(run[s])
  BY DEF CollectorInv, NoteCopying, At, Busy, Formed
<1>2. Continues(s, d) /\ d \in SourceType
  BY NoFile, AttemptContinues DEF Phases, Continues
<1>3. Saves(s, d, "snapshot")
  BY DEF NoteCopying
<1>4. World' /\ given' = given /\ edits' = edits
  BY DEF World, CollectorInv, NoteCopying, serverVars, boundVars
<1>5. Believed([run[s] EXCEPT !.current = d, !.pc = "snapshot"])
  BY <1>1, <1>2 DEF Believed, Early, RunType
<1> QED BY <1>1, <1>2, <1>3, <1>4, <1>5, RunSaves DEF RunPc

LEMMA CopyKeeps ==
  ASSUME CollectorInv, NEW s \in Sources, Copy(s)
  PROVE  CollectorInv'
<1> PICK file : file = disk[run[s].source.config.directory]
  OBVIOUS
<1> PICK r : r = [run[s] EXCEPT !.pc = "staged", !.file = file]
  OBVIOUS
<1>1. /\ run[s].pc = "snapshot" /\ Busy(run[s]) /\ run[s] \in RunType /\ run[s].key \in Keys
      /\ Formed(run[s]) /\ Believed(run[s]) /\ run[s].source.config \in Configs
  BY DEF CollectorInv, Copy, At, Busy, Formed
<1>2. file \in Files
  BY <1>1 DEF CollectorInv, World, Directories
<1>3. /\ r \in RunType /\ r.pc = "staged" /\ r.target = run[s].target
      /\ r.source = run[s].source /\ r.current = run[s].current /\ r.outcome = run[s].outcome
  BY <1>1, <1>2 DEF RunType, RunPc
<1>4. Formed(r) /\ Busy(r)
  BY <1>1, <1>3 DEF Formed, Busy
<1>5. Believed(r)
  BY <1>1, <1>3 DEF Believed, Early
<1>6. run' = [run EXCEPT ![s] = r] /\ UNCHANGED <<store, queue, given, edits>>
  BY DEF Copy, serverVars, boundVars, CollectorInv
<1>7. World'
  <2>1. staged' \subseteq Keys \X Files
    BY <1>1, <1>2 DEF Copy, CollectorInv, World
  <2> QED BY <2>1 DEF World, CollectorInv, Copy, serverVars, boundVars
<1> QED BY <1>1, <1>3, <1>4, <1>5, <1>6, <1>7, AllStays, RunMoves

LEMMA CopyWaitsKeeps ==
  ASSUME CollectorInv, NEW s \in Sources, CopyWaits(s)
  PROVE  CollectorInv'
<1>1. run[s].pc = "snapshot" /\ Busy(run[s])
  BY DEF CopyWaits, At, Busy
<1>2. World' /\ UNCHANGED <<store, queue, given, edits>>
  BY DEF World, CollectorInv, CopyWaits, Mishap, serverVars
<1> QED BY <1>1, <1>2, RunGoes DEF CopyWaits, RunPc, Early

LEMMA CopyFailsKeeps ==
  ASSUME CollectorInv, NEW s \in Sources, CopyFails(s)
  PROVE  CollectorInv'
<1> PICK d : d = store[s]
  OBVIOUS
<1>1. run[s].pc = "snapshot" /\ Busy(run[s]) /\ Ends(s)
  BY DEF CopyFails, At, Busy
<1>2. World' /\ UNCHANGED <<store, given, edits>>
  BY DEF World, CollectorInv, CopyFails, Mishap, serverVars
<1>3. store' = [store EXCEPT ![s] = d] /\ Stored(d)'
  BY <1>2, AllStays DEF CollectorInv
<1> QED BY <1>1, <1>2, <1>3, FirstInLine, RunEnds

\* The record of an attempt is as sound as the record it replaces.
LEMMA AttemptStored ==
  ASSUME CollectorInv, NEW s \in Sources, NEW file \in Files, NEW phase \in Phases,
         store[s].config # NoConfig
  PROVE  Stored(Attempt(s, file, phase)) /\ Attempt(s, file, phase).config \in Configs
<1> PICK d : d = Attempt(s, file, phase)
  OBVIOUS
<1> QED BY AttemptContinues, ContinuesStored

LEMMA NoteWaitingKeeps ==
  ASSUME CollectorInv, NEW s \in Sources, NoteWaiting(s)
  PROVE  CollectorInv'
<1> PICK d : d = Attempt(s, 0, "waiting")
  OBVIOUS
<1>1. Busy(run[s]) /\ SavesLast(s, d)
  BY DEF NoteWaiting, At, Busy
<1>2. World' /\ given' = given /\ edits' = edits
  BY DEF World, CollectorInv, NoteWaiting, serverVars, boundVars
<1>3. store[s].config # NoConfig => Stored(d)
  BY NoFile, AttemptStored DEF Phases
<1> QED BY <1>1, <1>2, <1>3, RunSavesLast

LEMMA NoteStagedKeeps ==
  ASSUME CollectorInv, NEW s \in Sources, NoteStaged(s)
  PROVE  CollectorInv'
<1>1. run[s].pc = "staged" /\ Busy(run[s]) /\ run[s] \in RunType
  BY DEF CollectorInv, NoteStaged, At, Busy
<1>2. run[s].file \in Files /\ run[s].key \in Keys \cup {NoKey}
  BY <1>1 DEF RunType
<1>3. World' /\ given' = given /\ edits' = edits
  BY DEF World, CollectorInv, NoteStaged, serverVars, boundVars
<1>4. run[s].pc # "idle" /\ queue[run[s].target][1] = s
  BY <1>1, FirstInLine
<1>5. CASE store[s].config = NoConfig
  <2> PICK e : e = store[s]
    OBVIOUS
  <2>1. store' = [store EXCEPT ![s] = e] /\ Ends(s) /\ Stored(e)'
    BY <1>3, <1>5, AllStays DEF NoteStaged, CollectorInv
  <2> QED BY <1>3, <1>4, <2>1, RunEnds
<1>6. CASE store[s].config # NoConfig
  <2> PICK key : key = run[s].key
    OBVIOUS
  <2> PICK file : file = run[s].file
    OBVIOUS
  <2> PICK d : d = Attempt(s, file, "uploading")
    OBVIOUS
  <2>1. Stored(d) /\ d.config \in Configs /\ Continues(s, d)
    BY <1>2, <1>6, AttemptStored, AttemptContinues DEF Phases
  <2>2. /\ Holds(s, key, file, d) /\ queue' = queue /\ store' = [store EXCEPT ![s] = d]
    BY <1>6 DEF NoteStaged
  <2>3. PICK r : /\ run' = [run EXCEPT ![s] = r] /\ Formed(r) /\ Busy(r) /\ Believed(r)
                 /\ r.target = run[s].target /\ r.source = run[s].source /\ r.current = d
    BY <1>1, <1>2, <2>1, <2>2, RunHolds
  <2>4. Carried(r, d)
    BY <1>1, <2>1, <2>3 DEF Carried, Busy, Stored, Continues, CollectorInv
  <2> QED BY <1>3, <1>4, <2>1, <2>2, <2>3, <2>4, AllStays, RunGoesOn
<1> QED BY <1>5, <1>6

-----------------------------------------------------------------------------
(* One lemma per action: publishing the file                                 *)

LEMMA SkipKeeps ==
  ASSUME CollectorInv, NEW s \in Sources, Skip(s)
  PROVE  CollectorInv'
<1> PICK o : o = [status |-> "skipped", file |-> run[s].file, imported |-> FALSE]
  OBVIOUS
<1> PICK r : r = [run[s] EXCEPT !.pc = "record", !.outcome = o]
  OBVIOUS
<1> PICK d : d = store[s]
  OBVIOUS
<1>1. /\ run[s].pc = "skipping" /\ Busy(run[s]) /\ run[s] \in RunType /\ Formed(run[s])
      /\ Believed(run[s]) /\ Carried(run[s], d) /\ run[s].pc # "idle"
  BY DEF CollectorInv, Skip, At, Busy
<1>2. UNCHANGED <<store, given, edits>>
  BY DEF Skip, serverVars, boundVars
<1>3. World'
  BY DEF World, CollectorInv, Skip, serverVars, boundVars
<1>4. store' = [store EXCEPT ![s] = d] /\ Stored(d)'
  BY <1>2, AllStays DEF CollectorInv
<1>5. CASE Snapshot(s) \in staged
  <2>1. o \in OutcomeType /\ o.file = run[s].file /\ ~o.imported
    BY <1>1 DEF OutcomeType, RunType
  <2>2. /\ r \in RunType /\ r.pc = "record" /\ r.outcome = o /\ r.target = run[s].target
        /\ r.source = run[s].source /\ r.current = run[s].current
    BY <1>1, <2>1 DEF RunType, RunPc
  <2>3. Formed(r) /\ Busy(r)
    BY <1>1, <2>2 DEF Formed, Busy
  <2>4. run[s].file # 0 => Reached(run[s].current.config, run[s].file)
    BY <1>1 DEF Believed, Carried, Sound
  <2>5. Believed(r)
    BY <2>1, <2>2, <2>4 DEF Believed, Early
  <2>6. run' = [run EXCEPT ![s] = r] /\ queue' = queue
    BY <1>5 DEF Skip, CollectorInv
  <2> QED BY <1>1, <1>2, <1>3, <2>2, <2>3, <2>5, <2>6, AllStays, RunMoves
<1>6. CASE Snapshot(s) \notin staged
  <2>1. Ends(s)
    BY <1>6 DEF Skip
  <2> QED BY <1>1, <1>2, <1>3, <1>4, <2>1, FirstInLine, RunEnds
<1> QED BY <1>5, <1>6

LEMMA IdentifyKeeps ==
  ASSUME CollectorInv, NEW s \in Sources, Identify(s)
  PROVE  CollectorInv'
<1>1. run[s].pc = "identify" /\ Busy(run[s]) /\ Publishes(run[s])
  BY DEF Identify, At, Busy, CollectorInv, Believed
<1>2. World' /\ UNCHANGED <<store, queue, given, edits>>
  BY DEF World, CollectorInv, Identify, Mishap, serverVars, boundVars
<1>3. PICK pc \in {"publishing", "needs_attention", "needs_login", "uploading"} : Goes(s, pc)
  BY DEF Identify
<1> QED BY <1>1, <1>2, <1>3, RunGoes DEF RunPc, Early

LEMMA NotePublishingKeeps ==
  ASSUME CollectorInv, NEW s \in Sources, NotePublishing(s)
  PROVE  CollectorInv'
<1> PICK d : d = Attempt(s, run[s].file, "publishing")
  OBVIOUS
<1> PICK pc : pc = IF Saved(s) THEN "open" ELSE "trigger"
  OBVIOUS
<1>1. /\ run[s].pc = "publishing" /\ Busy(run[s]) /\ run[s] \in RunType /\ Formed(run[s])
      /\ Believed(run[s]) /\ Carried(run[s], store[s]) /\ run[s].file \in Files
  BY DEF CollectorInv, NotePublishing, At, Busy, RunType
<1>2. Continues(s, d) /\ d \in SourceType
  BY <1>1, AttemptContinues DEF Phases, Continues
<1>3. Saves(s, d, pc)
  BY DEF NotePublishing
<1>4. World' /\ given' = given /\ edits' = edits
  BY DEF World, CollectorInv, NotePublishing, serverVars, boundVars
<1>5. Believed([run[s] EXCEPT !.current = d, !.pc = pc])
  <2> PICK r : r = [run[s] EXCEPT !.current = d, !.pc = pc]
    OBVIOUS
  <2>1. /\ r.pc = pc /\ r.current = d /\ r.source = run[s].source /\ r.file = run[s].file
        /\ r.outcome = run[s].outcome
    BY <1>1 DEF RunType
  <2>2. Delivered(run[s]) => Delivered(r)
    BY <1>1, <1>2, <2>1 DEF Delivered, Reached, Carried, Busy, Continues
  <2>3. run[s].outcome.imported => Delivered(run[s])
    BY <1>1 DEF Believed
  <2>4. pc = "trigger" => Delivered(run[s])
    BY <1>1 DEF Believed, Publishes, Saved
  <2>5. pc \in {"open", "trigger"}
    OBVIOUS
  <2>6. Believed(r)
    BY <2>1, <2>2, <2>3, <2>4, <2>5 DEF Believed, Early
  <2> QED BY <2>6
<1> QED BY <1>1, <1>2, <1>3, <1>4, <1>5, RunSaves DEF RunPc

LEMMA OpenSnapshotKeeps ==
  ASSUME CollectorInv, NEW s \in Sources, OpenSnapshot(s)
  PROVE  CollectorInv'
<1>1. run[s].pc = "open" /\ Busy(run[s])
  BY DEF OpenSnapshot, At, Busy
<1>2. World' /\ UNCHANGED <<store, queue, given, edits>>
  BY DEF World, CollectorInv, OpenSnapshot, serverVars, boundVars
<1>3. CASE Snapshot(s) \in staged
  BY <1>1, <1>2, <1>3, RunGoes DEF OpenSnapshot, RunPc, Early
<1>4. CASE Snapshot(s) \notin staged
  BY <1>1, <1>2, <1>4, RunGivesUp DEF OpenSnapshot
<1> QED BY <1>3, <1>4

LEMMA RequestTyped ==
  ASSUME CollectorInv, NEW s \in Sources, Busy(run[s])
  PROVE  /\ Request(s) \in RequestType
         /\ Request(s).target = run[s].current.config.target /\ Request(s).file = run[s].file
<1>1. /\ run[s] \in RunType /\ run[s].source.config \in Configs
      /\ run[s].current.config \in Configs
  BY DEF CollectorInv, Formed
<1> QED BY <1>1 DEF Request, RequestType, RunType, Targets, Queries

\* Whatever the server makes of a request, what has a receipt was given; and
\* unless it refused the request, so was the file of the request.
LEMMA ServerReceives ==
  ASSUME CollectorInv, NEW q \in RequestType, Receives(q)
  PROVE  /\ held' \in [Targets -> Files] /\ receipts' \subseteq ReceiptType
         /\ given' \subseteq Targets \X Files /\ given \subseteq given'
         /\ \A p \in receipts' : <<p.target, p.file>> \in given'
         /\ ~Barred(q) => <<q.target, q.file>> \in given'
<1>1. /\ held \in [Targets -> Files] /\ receipts \subseteq ReceiptType
      /\ given \subseteq Targets \X Files
      /\ \A p \in receipts : <<p.target, p.file>> \in given
  BY DEF CollectorInv, World
<1>2. /\ q.target \in Targets /\ q.file \in Files /\ q.key \in Keys \cup {NoKey}
      /\ q.query \in Queries
  BY DEF RequestType
<1>3. CASE ReceiptsFor(q) # {}
  <2>1. UNCHANGED <<held, receipts, given>>
    BY <1>3 DEF Receives
  <2>2. ASSUME ~Barred(q) PROVE <<q.target, q.file>> \in given
    <3>1. ~Conflicts(q)
      BY <1>3, <2>2 DEF Barred
    <3>2. PICK p2 \in ReceiptsFor(q) : TRUE
      BY <1>3
    <3>3. p2 \in receipts /\ p2.target = q.target /\ p2.file = q.file
      BY <3>1, <3>2 DEF ReceiptsFor, Conflicts
    <3> QED BY <1>1, <3>3
  <2> QED BY <1>1, <2>1, <2>2
<1>4. CASE ReceiptsFor(q) = {} /\ ~Barred(q)
  <2> PICK p : p = [target |-> q.target, key |-> q.key, query |-> q.query, file |-> q.file,
                    job |-> held[q.target] # q.file]
    OBVIOUS
  <2>1. /\ held' = [held EXCEPT ![q.target] = q.file]
        /\ given' = given \cup {<<q.target, q.file>>}
        /\ \A x \in receipts' : x \in receipts \/ (x = p /\ q.key # NoKey)
    BY <1>4 DEF Receives
  <2>2. /\ q.key # NoKey => p \in ReceiptType
        /\ p.target = q.target /\ p.file = q.file
    BY <1>2 DEF ReceiptType
  <2> QED BY <1>1, <1>2, <2>1, <2>2
<1>5. CASE Barred(q)
  BY <1>1, <1>5 DEF Receives
<1> QED BY <1>3, <1>4, <1>5

LEMMA AnsweredKeeps ==
  ASSUME CollectorInv, NEW s \in Sources, Answered(s)
  PROVE  CollectorInv'
<1> PICK q : q = Request(s)
  OBVIOUS
<1>1. /\ run[s].pc = "sending" /\ Busy(run[s]) /\ run[s] \in RunType /\ Formed(run[s])
      /\ Believed(run[s]) /\ run[s].current.config \in Configs
  BY DEF CollectorInv, Answered, At, Busy, Formed
<1>2. /\ q \in RequestType /\ q.target = run[s].current.config.target
      /\ q.file = run[s].file /\ q.target \in Targets
  BY <1>1, RequestTyped DEF Targets
<1>3. Receives(q) /\ ~Barred(q)
  BY DEF Answered
<1>4. /\ held' \in [Targets -> Files] /\ receipts' \subseteq ReceiptType
      /\ given' \subseteq Targets \X Files /\ given \subseteq given'
      /\ \A p \in receipts' : <<p.target, p.file>> \in given'
      /\ <<q.target, q.file>> \in given'
  BY <1>2, <1>3, ServerReceives
<1>5. UNCHANGED <<disk, store, enabled, staged, queue, late, refusing, written, edits>>
  BY DEF Answered, boundVars
<1>6. World'
  BY <1>4, <1>5 DEF World, CollectorInv
<1>7. PICK r : /\ run' = [run EXCEPT ![s] = r] /\ r \in RunType
               /\ r.pc = IF Saved(s) THEN "removing" ELSE "publishing"
               /\ r.target = run[s].target /\ r.source = run[s].source
               /\ r.current = run[s].current /\ r.file = run[s].file
  <2>1. CASE Saved(s)
    <3> PICK r : r = [run[s] EXCEPT !.pc = "removing"]
      OBVIOUS
    <3>1. /\ r \in RunType /\ r.pc = "removing" /\ r.target = run[s].target
          /\ r.source = run[s].source /\ r.current = run[s].current /\ r.file = run[s].file
      BY <1>1 DEF RunType, RunPc
    <3>2. run' = [run EXCEPT ![s] = r]
      BY <2>1 DEF Answered, Goes, CollectorInv
    <3> QED BY <2>1, <3>1, <3>2
  <2>2. CASE ~Saved(s)
    <3> PICK o : o = [run[s].outcome EXCEPT !.imported = TRUE]
      OBVIOUS
    <3> PICK r : r = [run[s] EXCEPT !.pc = "publishing", !.outcome = o]
      OBVIOUS
    <3>1. o \in OutcomeType
      BY <1>1 DEF RunType, OutcomeType
    <3>2. /\ r \in RunType /\ r.pc = "publishing" /\ r.target = run[s].target
          /\ r.source = run[s].source /\ r.current = run[s].current /\ r.file = run[s].file
      BY <1>1, <3>1 DEF RunType, RunPc
    <3>3. run' = [run EXCEPT ![s] = r]
      BY <2>2, <1>1 DEF Answered, CollectorInv, RunType
    <3> QED BY <2>2, <3>2, <3>3
  <2> QED BY <2>1, <2>2
<1>8. Formed(r) /\ Busy(r)
  BY <1>1, <1>7 DEF Formed, Busy
<1>9. Delivered(r)'
  BY <1>2, <1>4, <1>5, <1>7 DEF Delivered, Reached
<1>10. Believed(r)'
  BY <1>7, <1>9 DEF Believed, Early
<1> QED BY <1>1, <1>4, <1>5, <1>6, <1>7, <1>8, <1>10, RunMoves

LEMMA RefusedKeeps ==
  ASSUME CollectorInv, NEW s \in Sources, Refused(s)
  PROVE  CollectorInv'
<1>1. run[s].pc = "sending" /\ Busy(run[s])
  BY DEF Refused, At, Busy
<1>2. World' /\ UNCHANGED <<store, queue, given, edits>>
  BY DEF World, CollectorInv, Refused, Mishap, serverVars, boundVars
<1>3. PICK phase \in {"needs_attention", "needs_login"} : GivesUp(s, phase)
  BY DEF Refused
<1> QED BY <1>1, <1>2, <1>3, RunGivesUp

LEMMA UnansweredKeeps ==
  ASSUME CollectorInv, NEW s \in Sources, Unanswered(s)
  PROVE  CollectorInv'
<1>1. run[s].pc = "sending" /\ Busy(run[s])
  BY DEF Unanswered, At, Busy
<1>2. UNCHANGED <<disk, store, enabled, staged, queue, held, receipts, given, refusing,
                  written, edits>>
  BY DEF Unanswered, Mishap
<1>3. late' \subseteq RequestType
  BY <1>1, RequestTyped DEF Unanswered, CollectorInv, World
<1>4. World'
  BY <1>2, <1>3 DEF World, CollectorInv
<1>5. GivesUp(s, "uploading")
  BY DEF Unanswered
<1> QED BY <1>1, <1>2, <1>4, <1>5, RunGivesUp

\* A step that leaves the store, the runs and the lines as they are.
LEMMA OnlyWorldMoves ==
  ASSUME CollectorInv, UNCHANGED <<store, run, queue>>,
         given \subseteq given', edits' = edits, World'
  PROVE  CollectorInv'
<1>1. Lined'
  BY DEF CollectorInv, Lined, Busy
<1>2. \A x \in Sources : /\ Formed(run[x])' /\ Stored(store[x])'
                         /\ Carried(run[x], store[x])' /\ Believed(run[x])'
  BY OthersStay
<1> QED BY <1>1, <1>2 DEF CollectorInv

LEMMA ArrivesLateKeeps ==
  ASSUME CollectorInv, NEW q \in late, ArrivesLate(q)
  PROVE  CollectorInv'
<1>1. q \in RequestType /\ Receives(q)
  BY DEF CollectorInv, World, ArrivesLate
<1>2. /\ held' \in [Targets -> Files] /\ receipts' \subseteq ReceiptType
      /\ given' \subseteq Targets \X Files /\ given \subseteq given'
      /\ \A p \in receipts' : <<p.target, p.file>> \in given'
  BY <1>1, ServerReceives
<1>3. UNCHANGED <<disk, store, enabled, staged, run, queue, refusing, written, edits>>
  BY DEF ArrivesLate, localVars, boundVars
<1>4. late' \subseteq RequestType
  BY DEF ArrivesLate, CollectorInv, World
<1>5. World'
  BY <1>2, <1>3, <1>4 DEF World, CollectorInv
<1> QED BY <1>2, <1>3, <1>5, OnlyWorldMoves

LEMMA TriggerKeeps ==
  ASSUME CollectorInv, NEW s \in Sources, Trigger(s)
  PROVE  CollectorInv'
<1>1. run[s].pc = "trigger" /\ Busy(run[s])
  BY DEF Trigger, At, Busy
<1>2. World' /\ UNCHANGED <<store, queue, given, edits>>
  BY DEF World, CollectorInv, Trigger, Mishap, serverVars, boundVars
<1>3. CASE Goes(s, "removing")
  <2>1. Delivered(run[s])
    BY <1>1 DEF CollectorInv, Believed
  <2> QED BY <1>1, <1>2, <1>3, <2>1, RunGoes DEF RunPc, Early
<1>4. CASE GivesUp(s, "uploading")
  BY <1>1, <1>2, <1>4, RunGivesUp
<1> QED BY <1>3, <1>4 DEF Trigger

LEMMA RemoveKeeps ==
  ASSUME CollectorInv, NEW s \in Sources, Remove(s)
  PROVE  CollectorInv'
<1>1. /\ run[s].pc = "removing" /\ Busy(run[s]) /\ run[s] \in RunType /\ Formed(run[s])
      /\ Believed(run[s]) /\ Delivered(run[s])
  BY DEF CollectorInv, Remove, At, Busy, Believed
<1>2. UNCHANGED <<store, queue, given, edits>>
  <2>1. UNCHANGED <<store, given, edits>>
    BY DEF Remove, serverVars, boundVars
  <2> QED BY <2>1 DEF Remove
<1>3. World'
  BY DEF World, CollectorInv, Remove, serverVars, boundVars
<1>4. CASE Snapshot(s) \in staged
  <2> PICK o : o = [run[s].outcome EXCEPT !.status = "success", !.file = run[s].file]
    OBVIOUS
  <2> PICK r : r = [run[s] EXCEPT !.pc = "record", !.outcome = o]
    OBVIOUS
  <2>1. o \in OutcomeType /\ o.file = run[s].file
    BY <1>1 DEF OutcomeType, RunType
  <2>2. /\ r \in RunType /\ r.pc = "record" /\ r.outcome = o /\ r.target = run[s].target
        /\ r.source = run[s].source /\ r.current = run[s].current
    BY <1>1, <2>1 DEF RunType, RunPc
  <2>3. Formed(r) /\ Busy(r)
    BY <1>1, <2>2 DEF Formed, Busy
  <2>4. Believed(r)
    BY <1>1, <2>1, <2>2 DEF Believed, Early, Delivered
  <2>5. run' = [run EXCEPT ![s] = r]
    BY <1>1, <1>4 DEF Remove, CollectorInv, RunType
  <2> QED BY <1>1, <1>2, <1>3, <2>2, <2>3, <2>4, <2>5, AllStays, RunMoves
<1>5. CASE Snapshot(s) \notin staged
  <2>1. GivesUp(s, "uploading")
    BY <1>5 DEF Remove
  <2> QED BY <1>1, <1>2, <1>3, <2>1, RunGivesUp
<1> QED BY <1>4, <1>5

LEMMA RecordKeeps ==
  ASSUME CollectorInv, NEW s \in Sources, Record(s)
  PROVE  CollectorInv'
<1> PICK o : o = run[s].outcome
  OBVIOUS
<1> PICK d : d = [store[s] EXCEPT
        !.applied = IF o.status = "failed" THEN @ ELSE o.file,
        !.attempt = NoAttempt, !.last = o]
  OBVIOUS
<1>1. /\ run[s].pc = "record" /\ Busy(run[s]) /\ run[s] \in RunType
      /\ Stored(store[s]) /\ store[s] \in SourceType
      /\ Believed(run[s]) /\ Carried(run[s], store[s])
  BY DEF CollectorInv, Record, At, Busy
<1>2. SavesLast(s, d)
  BY DEF Record
<1>3. World' /\ given' = given /\ edits' = edits
  BY DEF World, CollectorInv, Record, serverVars, boundVars
<1>4. ASSUME store[s].config # NoConfig PROVE Stored(d)
  <2>1. o \in OutcomeType /\ o.file \in Files
    BY <1>1 DEF RunType, OutcomeType
  <2>2. NoAttempt \in AttemptType
    BY NoFile DEF NoAttempt, AttemptType, Phases
  <2>3. /\ d \in SourceType /\ d.config = store[s].config /\ d.last = o
        /\ d.applied = IF o.status = "failed" THEN store[s].applied ELSE o.file
    BY <1>1, <2>1, <2>2 DEF SourceType
  <2>4. \A f : Reached(run[s].current.config, f) => Reached(store[s].config, f)
    BY <1>1 DEF Reached, Carried, Busy
  <2>5. Sound(d)
    BY <1>1, <2>3, <2>4 DEF Sound, Stored, Believed
  <2> QED BY <1>4, <2>3, <2>5 DEF Stored
<1> QED BY <1>1, <1>2, <1>3, <1>4, RunSavesLast

LEMMA KeepAttemptKeeps ==
  ASSUME CollectorInv, NEW s \in Sources, KeepAttempt(s)
  PROVE  CollectorInv'
<1> PICK d : d = Attempt(s, run[s].file, run[s].pc)
  OBVIOUS
<1>1. /\ run[s].pc \in {"uploading", "needs_login", "needs_attention"} /\ Busy(run[s])
      /\ run[s].file \in Files /\ SavesLast(s, d)
  BY DEF CollectorInv, KeepAttempt, Busy, RunType
<1>2. World' /\ given' = given /\ edits' = edits
  BY DEF World, CollectorInv, KeepAttempt, serverVars, boundVars
<1>3. store[s].config # NoConfig => Stored(d)
  BY <1>1, AttemptStored DEF Phases
<1> QED BY <1>1, <1>2, <1>3, RunSavesLast

-----------------------------------------------------------------------------
(* The user, the disk and the process                                        *)

LEMMA WriteKeeps ==
  ASSUME CollectorInv, NEW f \in Directories, Write(f)
  PROVE  CollectorInv'
<1>1. written' \in Files
  BY BoundsAssumption DEF Write, CollectorInv, World, Files
<1>2. UNCHANGED <<store, enabled, staged, run, queue, held, receipts, given, late, edits>>
  BY DEF Write, localVars
<1>3. refusing' \in RefusingType
  BY <1>1 DEF Write, CollectorInv, World, RefusingType
<1>4. disk' \in [Directories -> Files]
  BY <1>1 DEF Write, CollectorInv, World
<1>5. World'
  BY <1>1, <1>2, <1>3, <1>4 DEF World, CollectorInv
<1> QED BY <1>2, <1>5, OnlyWorldMoves

\* What the server refuses for good; the rest stays as it is.
RefusesMore ==
    \/ \E u \in Queries : ReviseQuery(u) \/ DeleteQuery(u)
    \/ \E t \in Targets : DeleteTarget(t)

LEMMA RefusesMoreKeeps ==
  ASSUME CollectorInv, RefusesMore
  PROVE  /\ CollectorInv'
         /\ UNCHANGED <<disk, localVars, held, receipts, given, late, written, edits>>
<1>1. UNCHANGED <<disk, localVars, held, receipts, given, late, written, edits>>
  BY DEF RefusesMore, ReviseQuery, DeleteQuery, DeleteTarget, Mishap
<1>2. refusing \in RefusingType /\ receipts \subseteq ReceiptType
  BY DEF CollectorInv, World
<1>3. refusing' \in RefusingType
  <2>1. ASSUME NEW u \in Queries, ReviseQuery(u) PROVE refusing' \in RefusingType
    <3> DEFINE old == {<<r.target, r.key>> : r \in {r \in receipts : r.query = u}}
    <3>1. PICK unbound \in {refusing.unbound \cup {u}, refusing.unbound \ {u}} :
              refusing' = [refusing EXCEPT !.unbound = unbound, !.keys = @ \cup old]
      BY <2>1 DEF ReviseQuery
    <3>2. old \subseteq Targets \X Keys
      BY <1>2 DEF ReceiptType
    <3> QED BY <1>2, <3>1, <3>2 DEF RefusingType
  <2>2. ASSUME NEW u \in Queries, DeleteQuery(u) PROVE refusing' \in RefusingType
    BY <1>2, <2>2 DEF DeleteQuery, RefusingType
  <2>3. ASSUME NEW t \in Targets, DeleteTarget(t) PROVE refusing' \in RefusingType
    BY <1>2, <2>3 DEF DeleteTarget, RefusingType
  <2> QED BY <2>1, <2>2, <2>3 DEF RefusesMore
<1>4. World'
  BY <1>1, <1>3 DEF World, CollectorInv, localVars
<1> QED BY <1>1, <1>4, OnlyWorldMoves DEF localVars

\* A step that changes the record of one source, not its runs.
LEMMA OneRecordMoves ==
  ASSUME CollectorInv, NEW s \in Sources, NEW d, UNCHANGED <<run, queue>>,
         store' = [store EXCEPT ![s] = d], given' = given,
         edits' = 0 => edits = 0, World',
         Stored(d)', edits' = 0 => run[s].pc = "idle"
  PROVE  CollectorInv'
<1>1. \A c, f : Reached(c, f) => Reached(c, f)'
  BY DEF Reached
<1>2. d \in SourceType /\ store' \in [Sources -> SourceType]
  BY DEF Stored, CollectorInv
<1>3. Lined'
  BY DEF CollectorInv, Lined, Busy
<1>4. \A x \in Sources : /\ Formed(run[x])' /\ Stored(store[x])'
                         /\ Carried(run[x], store[x])' /\ Believed(run[x])'
  <2> SUFFICES ASSUME NEW x \in Sources
               PROVE  /\ Formed(run[x])' /\ Stored(store[x])'
                      /\ Carried(run[x], store[x])' /\ Believed(run[x])'
    OBVIOUS
  <2>1. Formed(run[x]) /\ Stored(store[x]) /\ Carried(run[x], store[x]) /\ Believed(run[x])
    BY DEF CollectorInv
  <2>2. store'[x] = (IF x = s THEN d ELSE store[x]) /\ run'[x] = run[x]
    BY DEF CollectorInv
  <2>3. Formed(run[x])'
    BY <2>1, <2>2 DEF Formed, Busy
  <2>4. Stored(store[x])'
    BY <1>1, <2>1, <2>2 DEF Stored, Sound, Reached
  <2>5. Carried(run[x], store[x])'
    BY <1>1, <2>1, <2>2 DEF Carried, Busy, Sound
  <2>6. Believed(run[x])'
    BY <1>1, <2>1, <2>2 DEF Believed, Delivered, Publishes
  <2> QED BY <2>3, <2>4, <2>5, <2>6
<1> QED BY <1>2, <1>3, <1>4 DEF CollectorInv

LEMMA DeletedIsStored ==
  Stored(Deleted) /\ NoAttempt \in AttemptType
BY NoFile DEF Stored, Deleted, SourceType, NoAttempt, AttemptType, NoOutcome, OutcomeType,
   Phases, Sound

LEMMA CreateKeeps ==
  ASSUME CollectorInv, NEW s \in Sources, NEW c \in Configs, Create(s, c)
  PROVE  CollectorInv'
<1> PICK d : d = [store[s] EXCEPT !.config = c]
  OBVIOUS
<1>1. /\ store[s] \in SourceType /\ run[s].pc = "idle"
      /\ store[s].applied = 0 /\ store[s].last = NoOutcome
  BY DEF CollectorInv, Create, At, Deleted
<1>2. /\ d \in SourceType /\ d.config = c /\ d.applied = 0 /\ d.last = NoOutcome
  BY <1>1 DEF SourceType
<1>3. Stored(d)'
  BY <1>2, ConfigsAssumption DEF Stored, Sound, NoOutcome
<1>4. store' = [store EXCEPT ![s] = d]
  BY DEF Create, CollectorInv
<1>5. UNCHANGED <<run, queue, given, edits>>
  BY DEF Create, serverVars, boundVars
<1>6. World'
  BY DEF Create, World, CollectorInv, serverVars, boundVars
<1> QED BY <1>1, <1>3, <1>4, <1>5, <1>6, OneRecordMoves

LEMMA EditKeeps ==
  ASSUME CollectorInv, NEW s \in Sources, NEW c \in Configs, Edit(s, c)
  PROVE  CollectorInv'
<1> PICK d : d = [store[s] EXCEPT !.config = c, !.attempt = NoAttempt]
  OBVIOUS
<1>1. store[s] \in SourceType /\ Stored(store[s]) /\ edits \in Nat
  BY DEF CollectorInv, World
<1>2. /\ d \in SourceType /\ d.config = c /\ d.applied = store[s].applied
      /\ d.last = store[s].last
  BY <1>1, DeletedIsStored DEF SourceType
<1>3. store' = [store EXCEPT ![s] = d] /\ edits' = edits + 1 /\ UNCHANGED <<run, queue, given>>
  BY DEF Edit, CollectorInv, serverVars
<1>4. edits' \in Nat /\ edits' # 0
  BY <1>1, <1>3
<1>5. World'
  BY <1>4 DEF Edit, World, CollectorInv, serverVars
<1>6. /\ d.applied # 0 => \E t \in Targets : <<t, d.applied>> \in given
      /\ d.last.imported => \E t \in Targets : <<t, d.last.file>> \in given
  BY <1>1, <1>2 DEF Stored, Sound, Reached
<1>7. Stored(d)'
  BY <1>2, <1>3, <1>4, <1>6, ConfigsAssumption DEF Stored, Sound, Reached
<1> QED BY <1>3, <1>4, <1>5, <1>7, OneRecordMoves

LEMMA DeleteKeeps ==
  ASSUME CollectorInv, NEW s \in Sources, Delete(s)
  PROVE  CollectorInv'
<1> PICK d : d = Deleted
  OBVIOUS
<1>1. edits \in Nat /\ edits' = edits + 1
  BY DEF CollectorInv, World, Delete
<1>2. edits' \in Nat /\ edits' # 0
  BY <1>1
<1>3. store' = [store EXCEPT ![s] = d] /\ UNCHANGED <<run, queue, given>>
  BY DEF Delete, serverVars
<1>4. World'
  BY <1>2 DEF Delete, World, CollectorInv, serverVars
<1>5. Stored(d)'
  BY DeletedIsStored DEF Stored, Sound, Deleted, NoOutcome
<1> QED BY <1>2, <1>3, <1>4, <1>5, OneRecordMoves

LEMMA ToggleKeeps ==
  ASSUME CollectorInv, NEW s \in Sources, Toggle(s)
  PROVE  CollectorInv'
<1>1. World' /\ UNCHANGED <<store, run, queue, given, edits>>
  BY DEF World, CollectorInv, Toggle, serverVars, boundVars
<1> QED BY <1>1, OnlyWorldMoves

\* Nothing is under way: as at the start, and after a crash.
NothingRuns == run = [s \in Sources |-> NoRun] /\ queue = [t \in Targets |-> <<>>]
RunsHold ==
    /\ run \in [Sources -> RunType] /\ Lined
    /\ \A s \in Sources : Formed(run[s]) /\ Believed(run[s])

LEMMA NothingRunsHolds == NothingRuns => RunsHold
<1> SUFFICES ASSUME NothingRuns PROVE RunsHold
  OBVIOUS
<1>1. /\ NoRun \in RunType /\ NoRun.pc = "idle" /\ ~NoRun.outcome.imported
  BY NoFile, DeletedIsStored DEF NoRun, RunType, RunPc, Deleted, Stored, NoOutcome, OutcomeType
<1>2. run \in [Sources -> RunType]
  BY <1>1 DEF NothingRuns
<1>3. Lined
  BY <1>1 DEF NothingRuns, Lined, Busy
<1>4. ASSUME NEW s \in Sources PROVE Formed(run[s]) /\ Believed(run[s])
  BY <1>1 DEF NothingRuns, Formed, Busy, Believed
<1> QED BY <1>2, <1>3, <1>4 DEF RunsHold

LEMMA CrashKeeps ==
  ASSUME CollectorInv, Crash
  PROVE  CollectorInv'
<1>1. /\ run' = [s \in Sources |-> NoRun] /\ queue' = [t \in Targets |-> <<>>]
      /\ UNCHANGED <<disk, store, enabled, staged, held, receipts, given, refusing,
                     written, edits>>
  BY DEF Crash
<1>2. late' \subseteq RequestType
  <2>1. \A s \in Sources : At(s, "sending") => Request(s) \in RequestType
    BY RequestTyped DEF At, Busy
  <2> QED BY <2>1 DEF Crash, CollectorInv, World
<1>3. World'
  BY <1>1, <1>2 DEF World, CollectorInv
<1>4. RunsHold'
  <2>1. NothingRuns'
    BY <1>1 DEF NothingRuns
  <2> QED BY <2>1, NothingRunsHolds, PTL
<1>5. store' \in [Sources -> SourceType] /\ \A s \in Sources : Stored(store[s])'
  BY <1>1 DEF CollectorInv, Stored, Sound, Reached
<1>6. \A s \in Sources : Carried(run[s], store[s])'
  BY <1>1 DEF Carried, Busy, NoRun
<1> QED BY <1>3, <1>4, <1>5, <1>6 DEF CollectorInv, RunsHold

-----------------------------------------------------------------------------
(* The theorems                                                              *)

LEMMA InitHolds == Init => CollectorInv
<1> SUFFICES ASSUME Init PROVE CollectorInv
  OBVIOUS
<1>1. World
  BY NoFile, BoundsAssumption DEF Init, World, Files, Welcome, RefusingType
<1>2. RunsHold
  BY NothingRunsHolds DEF Init, NothingRuns
<1>3. store \in [Sources -> SourceType] /\ \A s \in Sources : Stored(store[s])
  BY DeletedIsStored DEF Init, Stored
<1>4. \A s \in Sources : Carried(run[s], store[s])
  BY DEF Init, Carried, Busy, NoRun
<1> QED BY <1>1, <1>2, <1>3, <1>4 DEF CollectorInv, RunsHold

LEMMA NextHolds == CollectorInv /\ [Next]_vars => CollectorInv'
<1> SUFFICES ASSUME CollectorInv, [Next]_vars PROVE CollectorInv'
  OBVIOUS
<1>1. CASE UNCHANGED vars
  <2>1. World' /\ UNCHANGED <<store, run, queue, given, edits>>
    BY <1>1 DEF vars, localVars, serverVars, boundVars, World, CollectorInv
  <2> QED BY <2>1, OnlyWorldMoves
<1>2. ASSUME NEW s \in Sources, Launch(s) PROVE CollectorInv'
  BY <1>2, LaunchKeeps
<1>3. ASSUME NEW s \in Sources, Step(s) PROVE CollectorInv'
  BY <1>3, ExecuteKeeps, ResumeKeeps, RestageKeeps, ScanKeeps, ScanFailsKeeps,
     NoteCopyingKeeps, CopyKeeps, CopyWaitsKeeps, CopyFailsKeeps, NoteWaitingKeeps,
     NoteStagedKeeps, SkipKeeps, IdentifyKeeps, NotePublishingKeeps, OpenSnapshotKeeps,
     AnsweredKeeps, RefusedKeeps, UnansweredKeeps, TriggerKeeps, RemoveKeeps, RecordKeeps,
     KeepAttemptKeeps DEF Step
<1>4. ASSUME NEW s \in Sources, User(s) PROVE CollectorInv'
  BY <1>4, DeleteKeeps, ToggleKeeps, CreateKeeps, EditKeeps DEF User
<1>5. ASSUME NEW f \in Directories, Write(f) PROVE CollectorInv'
  BY <1>5, WriteKeeps
<1>6. ASSUME NEW q \in late, ArrivesLate(q) PROVE CollectorInv'
  BY <1>6, ArrivesLateKeeps
<1>7. CASE Crash
  BY <1>7, CrashKeeps
<1>8. CASE RefusesMore
  BY <1>8, RefusesMoreKeeps
<1> QED BY <1>1, <1>2, <1>3, <1>4, <1>5, <1>6, <1>7, <1>8 DEF Next, RefusesMore

LEMMA CollectorInvHolds == Spec => []CollectorInv
BY InitHolds, NextHolds, PTL DEF Spec

\* Every reachable state is well typed (collector.ts, store.ts).
THEOREM CollectorTypeCorrect == Spec => []TypeOK
<1>1. CollectorInv => TypeOK
  BY DEF CollectorInv, World, Lined, TypeOK, RunType
<1> QED BY <1>1, CollectorInvHolds, PTL

\* Whatever is recorded as applied has been delivered, through lost answers,
\* refusals, crashes at any await, edits and late requests (appendRun).
THEOREM OnlyDeliveredIsApplied == Spec => []AppliedWasGiven
<1>1. CollectorInv => AppliedWasGiven
  BY DEF CollectorInv, Stored, Sound, Reached, AppliedWasGiven
<1> QED BY <1>1, CollectorInvHolds, PTL

\* While nobody edits a source, two sources never upload to one target at once,
\* however many serve it (Collector#runForTarget).
THEOREM UploadsTakeTurns == Spec => []OneUploadPerTarget
<1>1. CollectorInv => OneUploadPerTarget
  <2> SUFFICES ASSUME CollectorInv, NEW s \in Sources, NEW r \in Sources,
                      At(s, "sending"), At(r, "sending"), edits = 0,
                      Request(s).target = Request(r).target
               PROVE  s = r
    BY DEF OneUploadPerTarget
  <2>1. Busy(run[s]) /\ Busy(run[r])
    BY DEF At, Busy
  <2>2. run[s].target = Request(s).target /\ run[r].target = Request(r).target
    BY <2>1 DEF CollectorInv, Carried, Request, Busy
  <2> QED BY <2>1, <2>2 DEF CollectorInv, Lined
<1> QED BY <1>1, CollectorInvHolds, PTL

-----------------------------------------------------------------------------
(* No older file comes back: what the attempts of a trusted source carry     *)

Serves(r, t) == store[r].config \in Configs /\ store[r].config.target = t
Alone(s) ==
    /\ store[s].config \in Configs /\ store[s].config.mode = "saved_query"
    /\ \A r \in Sources \ {s} : ~Serves(r, store[s].config.target)

\* A request for a key that has a receipt changes nothing; the others may.
Receipted(t, k) == \E p \in receipts : p.target = t /\ p.key = k
Loose(t) == {q \in late : q.target = t /\ ~Receipted(t, q.key)}

\* Requests and files reach only targets that a source serves.
Owned ==
    /\ \A q \in late : \E r \in Sources : Serves(r, q.target)
    /\ \A t \in Targets : held[t] # 0 => \E r \in Sources : Serves(r, t)

\* No two sources use one key.
KeysOf(s) == {store[s].attempt.key, run[s].key} \ {NoKey}
Apart == \A s, r \in Sources : s # r => KeysOf(s) \cap KeysOf(r) = {}

\* A run goes by the record that is in the store.
Reread(r, d) ==
    /\ r.pc \in {"checking", "scanning"} => r.source.attempt.key = d.attempt.key
    /\ r.pc = "checking" => r.current = d
    /\ Busy(r) => r.current.applied = d.applied

\* The target holds no newer file than the directory.  A staged snapshot whose
\* key is still good is at least as new as what the target holds; and every
\* request whose sender gave up, and whose key is still good, carries it.
Newest(d) ==
    LET t == d.config.target
        newest == disk[d.config.directory]
        a == d.attempt
    IN  /\ held[t] <= newest /\ a.staged <= newest
        /\ a.staged # 0 /\ ~Receipted(t, a.key) => held[t] <= a.staged
        /\ \A q \in Loose(t) :
               /\ q.key = a.key /\ q.file = a.staged /\ q.file # 0
               /\ <<q.key, q.file>> \in staged /\ q.file # d.applied

\* What a run holds, by its stage: nothing staged, a new snapshot, or the one of
\* the attempt in the store, which is not the file applied last if it is sent.
Looking == {"scanning", "copying", "snapshot", "waiting", "staged"}
Leading == {"identify", "publishing", "open", "sending"}
Holding == Leading \cup {"skipping", "removing", "uploading", "needs_login", "needs_attention"}
InStep(r, d) ==
    LET t == d.config.target
        newest == disk[d.config.directory]
    IN  /\ r.pc # "trigger"
        /\ r.pc = "checking" => d.attempt.staged # 0
        /\ r.pc \in Looking => d.attempt.staged = 0
        /\ r.pc \in {"copying", "snapshot"} => newest # 0
        /\ r.pc = "staged" => r.file # 0 /\ held[t] <= r.file /\ r.file <= newest
        /\ r.pc \in Holding =>
               d.attempt.key = r.key /\ d.attempt.staged = r.file /\ r.file # 0
        /\ r.pc \in Leading => r.file # d.applied
        /\ r.pc = "sending" => <<r.key, r.file>> \in staged
        /\ r.pc = "removing" => Receipted(t, r.key)
        /\ r.pc = "record" => Loose(t) = {}

Newer ==
    /\ Owned /\ Apart
    /\ \A s \in Sources :
        /\ Reread(run[s], store[s])
        /\ Alone(s) => Newest(store[s]) /\ InStep(run[s], store[s])
NewerInv ==
    /\ \A d \in Directories : disk[d] <= written
    /\ edits = 0 => Newer

\* At work, while nobody has edited a source.
LEMMA AtWork ==
  ASSUME CollectorInv, edits = 0, NEW s \in Sources, run[s].pc # "idle"
  PROVE  /\ store[s] \in SourceType /\ run[s] \in RunType
         /\ store[s].config \in Configs /\ store[s].config # NoConfig
         /\ store[s].config.target \in Targets /\ store[s].config.directory \in Directories
         /\ Busy(run[s]) => /\ run[s].source.config = store[s].config
                            /\ run[s].current.config = store[s].config
<1>1. store[s] \in SourceType /\ run[s] \in RunType /\ Carried(run[s], store[s])
  BY DEF CollectorInv
<1> QED BY <1>1, ConfigsAssumption DEF Carried, Targets, Directories

LEMMA Numbers ==
  ASSUME CollectorInv
  PROVE  /\ \A t \in Targets : held[t] \in Nat
         /\ \A d \in Directories : disk[d] \in Nat
         /\ \A s \in Sources : /\ store[s].attempt.staged \in Nat /\ run[s].file \in Nat
                               /\ store[s].config \in Configs =>
                                      /\ store[s].config.target \in Targets
                                      /\ store[s].config.directory \in Directories
<1>1. held \in [Targets -> Files] /\ disk \in [Directories -> Files]
  BY DEF CollectorInv, World
<1>2. \A s \in Sources : store[s].attempt.staged \in Files /\ run[s].file \in Files
  BY DEF CollectorInv, SourceType, AttemptType, RunType
<1>3. Files \subseteq Nat
  BY BoundsAssumption DEF Files
<1> QED BY <1>1, <1>2, <1>3 DEF Targets, Directories

\* A source that a step leaves alone, in a world that is at least as new.
LEMMA OneStays ==
  ASSUME CollectorInv, NEW r, NEW d, d.config \in Configs,
         Newest(d), InStep(r, d), d.attempt.staged \in Nat, r.file \in Nat,
         \A f \in Directories : disk'[f] \in Nat /\ disk[f] <= disk'[f],
         held'[d.config.target] = held[d.config.target],
         receipts \subseteq receipts',
         \A q \in late' : q.target = d.config.target => q \in late,
         \A n \in staged : n[1] \in {d.attempt.key, r.key} => n \in staged'
  PROVE  Newest(d)' /\ InStep(r, d)'
<1> DEFINE t == d.config.target
           f == d.config.directory
<1>1. t \in Targets /\ f \in Directories
  BY DEF Targets, Directories
<1>2. held[t] \in Nat /\ disk[f] \in Nat /\ disk'[f] \in Nat /\ disk[f] <= disk'[f]
  BY <1>1, Numbers
<1>3. \A k : Receipted(t, k) => Receipted(t, k)'
  BY DEF Receipted
<1>4. Loose(t)' \subseteq Loose(t)
  BY <1>3 DEF Loose
<1>5. Newest(d)'
  <2>1. held'[t] <= disk'[f] /\ d.attempt.staged <= disk'[f]
    BY <1>2 DEF Newest
  <2>2. d.attempt.staged # 0 /\ ~Receipted(t, d.attempt.key)' => held'[t] <= d.attempt.staged
    BY <1>3 DEF Newest
  <2>3. \A q \in Loose(t)' :
          /\ q.key = d.attempt.key /\ q.file = d.attempt.staged /\ q.file # 0
          /\ <<q.key, q.file>> \in staged' /\ q.file # d.applied
    BY <1>4 DEF Newest
  <2> QED BY <2>1, <2>2, <2>3 DEF Newest
<1>6. InStep(r, d)'
  <2>1. /\ r.pc \in {"copying", "snapshot"} => disk'[f] # 0
        /\ r.pc = "staged" => r.file # 0 /\ held'[t] <= r.file /\ r.file <= disk'[f]
    <3>1. CASE r.pc = "staged"
      <4>1. held[t] <= r.file /\ r.file <= disk[f] /\ r.file # 0
        BY <3>1 DEF InStep
      <4> QED BY <4>1, <3>1, <1>2
    <3>2. CASE r.pc # "staged"
      BY <3>2, <1>2 DEF InStep
    <3> QED BY <3>1, <3>2
  <2>2. r.pc = "sending" => <<r.key, r.file>> \in staged'
    BY DEF InStep
  <2>3. /\ r.pc = "removing" => Receipted(t, r.key)'
        /\ r.pc = "record" => Loose(t)' = {}
    BY <1>3, <1>4 DEF InStep
  <2> QED BY <2>1, <2>2, <2>3 DEF InStep
<1> QED BY <1>5, <1>6

\* A step of one source that leaves the server and the disk alone.
LEMMA SourceMoves ==
  ASSUME CollectorInv, NewerInv, edits = 0, NEW s \in Sources, NEW r, NEW d,
         run' = [run EXCEPT ![s] = r], store' = [store EXCEPT ![s] = d],
         d.config = store[s].config,
         UNCHANGED <<disk, held, receipts, late, written, edits>>,
         \A n \in staged : n[1] \notin KeysOf(s) => n \in staged',
         {r.key, d.attempt.key} \ {NoKey} \subseteq KeysOf(s) \cup {k \in Keys : Fresh(k)},
         Reread(r, d), Alone(s) => Newest(d)' /\ InStep(r, d)'
  PROVE  NewerInv'
<1>1. run'[s] = r /\ store'[s] = d
  BY DEF CollectorInv
<1>2. \A x \in Sources \ {s} : run'[x] = run[x] /\ store'[x] = store[x]
  BY DEF CollectorInv
<1>3. \A x \in Sources : store'[x].config = store[x].config
  BY <1>1, <1>2
<1>4. \A x \in Sources : \A t : Serves(x, t)' <=> Serves(x, t)
  BY <1>3 DEF Serves
<1>5. \A x \in Sources : Alone(x)' <=> Alone(x)
  BY <1>3, <1>4 DEF Alone
<1>6. Owned'
  BY <1>4 DEF Owned, NewerInv, Newer
<1>7. Apart'
  <2>1. KeysOf(s)' \subseteq KeysOf(s) \cup {k \in Keys : Fresh(k)}
    BY <1>1 DEF KeysOf
  <2>2. \A x \in Sources \ {s} : KeysOf(x)' = KeysOf(x)
    BY <1>2 DEF KeysOf
  <2>3. \A x \in Sources : \A k : Fresh(k) => k \notin KeysOf(x)
    BY DEF Fresh, KeysOf
  <2>4. Apart
    BY DEF NewerInv, Newer
  <2>5. \A x \in Sources \ {s} : KeysOf(x)' \cap KeysOf(s)' = {}
    BY <2>1, <2>2, <2>3, <2>4 DEF Apart
  <2>6. \A x, y \in Sources : x # y => KeysOf(x)' \cap KeysOf(y)' = {}
    BY <2>2, <2>4, <2>5 DEF Apart
  <2> QED BY <2>6 DEF Apart
<1>8. ASSUME NEW x \in Sources
      PROVE  /\ Reread(run[x], store[x])'
             /\ Alone(x)' => (Newest(store[x]) /\ InStep(run[x], store[x]))'
  <2>1. CASE x = s
    <3>1. Reread(run[x], store[x])'
      BY <1>1, <2>1 DEF Reread, Busy
    <3>2. Alone(x)' => Newest(store[x])' /\ InStep(run[x], store[x])'
      BY <1>1, <1>5, <2>1 DEF Newest, InStep, Receipted, Loose
    <3> QED BY <3>1, <3>2
  <2>2. CASE x # s
    <3>1. run'[x] = run[x] /\ store'[x] = store[x]
      BY <1>2, <2>2
    <3>2. Reread(run[x], store[x])'
      BY <3>1 DEF Reread, Busy, NewerInv, Newer
    <3>3. ASSUME Alone(x) PROVE Newest(store[x])' /\ InStep(run[x], store[x])'
      <4> PICK e : e = store[x]
        OBVIOUS
      <4> PICK p : p = run[x]
        OBVIOUS
      <4>1. Newest(e) /\ InStep(p, e) /\ e.config \in Configs
        BY <3>3 DEF NewerInv, Newer, Alone
      <4>2. /\ e.attempt.staged \in Nat /\ p.file \in Nat
            /\ \A f \in Directories : disk'[f] \in Nat /\ disk[f] <= disk'[f]
        BY Numbers
      <4>3. \A n \in staged : n[1] \in Keys /\ n[1] # NoKey
        BY KeysAssumption DEF CollectorInv, World
      <4>4. KeysOf(x) \cap KeysOf(s) = {}
        BY <2>2 DEF NewerInv, Newer, Apart
      <4>5. \A n \in staged : n[1] \in {e.attempt.key, p.key} => n \in staged'
        BY <4>3, <4>4 DEF KeysOf
      <4>6. Newest(e)' /\ InStep(p, e)'
        BY <4>1, <4>2, <4>5, OneStays
      <4> QED BY <3>1, <4>6 DEF Newest, InStep, Receipted, Loose
    <3> QED BY <1>5, <3>2, <3>3
  <2> QED BY <2>1, <2>2
<1>9. \A f \in Directories : disk'[f] <= written'
  BY DEF NewerInv
<1> QED BY <1>6, <1>7, <1>8, <1>9 DEF NewerInv, Newer

\* A step that leaves the record alone as well, and takes away no snapshot.
LEMMA OnlyRunMoves ==
  ASSUME CollectorInv, NewerInv, edits = 0, NEW s \in Sources, NEW r,
         run' = [run EXCEPT ![s] = r],
         UNCHANGED <<disk, held, receipts, late, written, edits, store>>,
         staged \subseteq staged',
         {r.key} \ {NoKey} \subseteq KeysOf(s) \cup {k \in Keys : Fresh(k)},
         Reread(r, store[s]), Alone(s) => InStep(r, store[s])'
  PROVE  NewerInv'
<1> PICK d : d = store[s]
  OBVIOUS
<1>1. Alone(s) => Newest(d)'
  <2> SUFFICES ASSUME Alone(s) PROVE Newest(d)'
    OBVIOUS
  <2>1. Newest(d)
    BY DEF NewerInv, Newer
  <2> QED BY <2>1 DEF Newest, Receipted, Loose
<1>2. store' = [store EXCEPT ![s] = d]
  BY DEF CollectorInv
<1>3. {r.key, d.attempt.key} \ {NoKey} \subseteq KeysOf(s) \cup {k \in Keys : Fresh(k)}
  BY DEF KeysOf
<1>4. Alone(s) => InStep(r, d)'
  BY DEF InStep, Receipted, Loose
<1> QED BY <1>1, <1>2, <1>3, <1>4, SourceMoves

\* The same, with the run where the code puts it.
LEMMA Untouched ==
  ASSUME CollectorInv, NewerInv, edits = 0, NEW s \in Sources
  PROVE  /\ Reread(run[s], store[s])
         /\ Alone(s) => Newest(store[s]) /\ InStep(run[s], store[s])
         /\ {run[s].key, store[s].attempt.key} \ {NoKey} \subseteq KeysOf(s)
BY DEF NewerInv, Newer, KeysOf

\* A run that is over, whether or not its record changed.
LEMMA OverIsInStep ==
  ASSUME NEW d
  PROVE  Reread(NoRun, d) /\ InStep(NoRun, d) /\ NoRun.key = NoKey
BY DEF Reread, Busy, InStep, NoRun, Looking, Leading, Holding

LEMMA LaunchNewer ==
  ASSUME CollectorInv, NewerInv, edits = 0, NEW s \in Sources, Launch(s)
  PROVE  NewerInv'
<1> PICK r : r = [run[s] EXCEPT !.pc = "queued", !.target = store[s].config.target]
  OBVIOUS
<1>1. r.pc = "queued" /\ r.key = run[s].key
  BY DEF CollectorInv, RunType
<1>2. run' = [run EXCEPT ![s] = r]
  BY DEF Launch, CollectorInv
<1>3. UNCHANGED <<disk, held, receipts, late, written, edits, store, staged>>
  BY DEF Launch, serverVars, boundVars
<1>4. Reread(r, store[s]) /\ InStep(r, store[s])'
  BY <1>1 DEF Reread, Busy, InStep, Looking, Leading, Holding
<1>5. {r.key} \ {NoKey} \subseteq KeysOf(s)
  BY <1>1, Untouched
<1> QED BY <1>2, <1>3, <1>4, <1>5, OnlyRunMoves

LEMMA ExecuteNewer ==
  ASSUME CollectorInv, NewerInv, edits = 0, NEW s \in Sources, Execute(s)
  PROVE  NewerInv'
<1>1. run[s].pc = "queued" /\ store[s].config # NoConfig /\ run[s] \in RunType
  BY AtWork DEF Execute, At
<1> PICK pc : pc = IF store[s].attempt.staged = 0 THEN "scanning" ELSE "checking"
  OBVIOUS
<1> PICK r : r = [run[s] EXCEPT !.pc = pc, !.source = store[s], !.current = store[s]]
  OBVIOUS
<1>2. r.pc = pc /\ r.key = run[s].key /\ r.source = store[s] /\ r.current = store[s]
  BY <1>1 DEF RunType
<1>3. run' = [run EXCEPT ![s] = r]
  BY <1>1 DEF Execute, Reads, CollectorInv
<1>4. UNCHANGED <<disk, held, receipts, late, written, edits, store, staged>>
  BY DEF Execute, serverVars, boundVars
<1>5. Reread(r, store[s])
  BY <1>2 DEF Reread
<1>6. InStep(r, store[s])'
  BY <1>2, <1>4 DEF InStep, Looking, Leading, Holding
<1>7. {r.key} \ {NoKey} \subseteq KeysOf(s)
  BY <1>2, Untouched
<1> QED BY <1>3, <1>4, <1>5, <1>6, <1>7, OnlyRunMoves

\* What a run that holds a snapshot does next.
LEMMA HoldsInStep ==
  ASSUME CollectorInv, edits = 0, NEW s \in Sources, Busy(run[s]), NEW key, NEW file, NEW d,
         Holds(s, key, file, d), d.config = store[s].config
  PROVE  \E r : /\ run' = [run EXCEPT ![s] = r] /\ r.key = key
                /\ d.applied = store[s].applied => Reread(r, d)
                /\ Alone(s) /\ d.attempt.key = key /\ d.attempt.staged = file /\ file # 0 =>
                       InStep(r, d)
<1> PICK next : next = Plan(run[s].source, d, file)
  OBVIOUS
<1> PICK r : r = [run[s] EXCEPT !.pc = next, !.current = d, !.key = key, !.file = file,
                                !.outcome.imported = next = "publishing"]
  OBVIOUS
<1>1. run[s] \in RunType /\ run[s].source.config = store[s].config
  BY AtWork DEF Busy
<1>2. r.pc = next /\ r.key = key /\ r.file = file /\ r.current = d
  BY <1>1 DEF RunType
<1>3. /\ next \in {"skipping", "identify", "publishing", "open"}
      /\ next # "skipping" /\ run[s].source.config.mode = "saved_query" => d.applied # file
  BY DEF Plan
<1>4. run' = [run EXCEPT ![s] = r]
  BY DEF Holds
<1>5. d.applied = store[s].applied => Reread(r, d)
  BY <1>2, <1>3 DEF Reread
<1>6. Alone(s) /\ d.attempt.key = key /\ d.attempt.staged = file /\ file # 0 => InStep(r, d)
  BY <1>1, <1>2, <1>3 DEF Alone, InStep, Looking, Leading, Holding
<1> QED BY <1>2, <1>4, <1>5, <1>6

LEMMA ResumeNewer ==
  ASSUME CollectorInv, NewerInv, edits = 0, NEW s \in Sources, Resume(s)
  PROVE  NewerInv'
<1> PICK d : d = store[s]
  OBVIOUS
<1>1. run[s].pc = "checking" /\ Busy(run[s]) /\ run[s].current = d
  BY Untouched DEF Resume, At, Busy, Reread
<1>2. Holds(s, d.attempt.key, d.attempt.staged, d)
  BY <1>1 DEF Resume
<1>3. UNCHANGED <<disk, held, receipts, late, written, edits, store, staged>>
  BY DEF Resume, serverVars, boundVars
<1>4. PICK r : /\ run' = [run EXCEPT ![s] = r] /\ r.key = d.attempt.key /\ Reread(r, d)
               /\ Alone(s) /\ d.attempt.staged # 0 => InStep(r, d)
  BY <1>1, <1>2, HoldsInStep
<1>5. Alone(s) => InStep(r, d)'
  <2>1. Alone(s) => d.attempt.staged # 0
    BY <1>1, Untouched DEF InStep
  <2> QED BY <1>3, <1>4, <2>1 DEF InStep, Receipted, Loose
<1>6. {r.key} \ {NoKey} \subseteq KeysOf(s)
  BY <1>4, Untouched
<1>7. Alone(s) => InStep(r, store[s])'
  BY <1>3, <1>5 DEF InStep
<1> QED BY <1>3, <1>4, <1>6, <1>7, OnlyRunMoves

\* Without a staged snapshot, or without its file, no request is loose.
LEMMA NothingLoose ==
  ASSUME NEW d, Newest(d),
         \/ d.attempt.staged = 0 \/ d.attempt.staged = d.applied
         \/ <<d.attempt.key, d.attempt.staged>> \notin staged
         \/ Receipted(d.config.target, d.attempt.key)
  PROVE  Loose(d.config.target) = {}
BY DEF Newest, Loose

LEMMA RestageNewer ==
  ASSUME CollectorInv, NewerInv, edits = 0, NEW s \in Sources, Restage(s)
  PROVE  NewerInv'
<1> PICK e : e = store[s]
  OBVIOUS
<1> PICK a : a = [e.attempt EXCEPT !.staged = 0, !.phase = "copying"]
  OBVIOUS
<1> PICK d : d = [e EXCEPT !.attempt = a]
  OBVIOUS
<1> PICK r : r = [run[s] EXCEPT !.pc = "scanning", !.source = d, !.current = d]
  OBVIOUS
<1>1. /\ run[s].pc = "checking" /\ Busy(run[s]) /\ run[s].current = e
      /\ <<e.attempt.key, e.attempt.staged>> \notin staged
  BY Untouched DEF Restage, At, Busy, Reread
<1>2. e \in SourceType /\ run[s] \in RunType /\ e.config # NoConfig
  BY <1>1, AtWork
<1>3. /\ d.config = e.config /\ d.applied = e.applied
      /\ d.attempt.key = e.attempt.key /\ d.attempt.staged = 0
  BY <1>2 DEF SourceType, AttemptType
<1>4. r.pc = "scanning" /\ r.key = run[s].key /\ r.source = d /\ r.current = d
  BY <1>2 DEF RunType
<1>5. run' = [run EXCEPT ![s] = r] /\ store' = [store EXCEPT ![s] = d]
  BY <1>1, <1>2 DEF Restage, Reads
<1>6. UNCHANGED <<disk, held, receipts, late, written, edits, staged>>
  BY DEF Restage, serverVars, boundVars
<1>7. Reread(r, d)
  BY <1>4 DEF Reread
<1>8. ASSUME Alone(s) PROVE Newest(d)' /\ InStep(r, d)'
  <2>1. Newest(e) /\ Loose(e.config.target) = {}
    BY <1>1, <1>8, Untouched, NothingLoose
  <2>2. disk[e.config.directory] \in Nat
    BY <1>8, Numbers DEF Alone
  <2>3. Newest(d)'
    BY <1>3, <1>6, <2>1, <2>2 DEF Newest, Loose, Receipted
  <2>4. InStep(r, d)'
    BY <1>3, <1>4 DEF InStep, Looking, Leading, Holding
  <2> QED BY <2>3, <2>4
<1>9. {r.key, d.attempt.key} \ {NoKey} \subseteq KeysOf(s)
  BY <1>3, <1>4, Untouched
<1> QED BY <1>3, <1>5, <1>6, <1>7, <1>8, <1>9, SourceMoves

LEMMA ScanNewer ==
  ASSUME CollectorInv, NewerInv, edits = 0, NEW s \in Sources, Scan(s)
  PROVE  NewerInv'
<1> DEFINE kept == run[s].source.attempt.key
<1> PICK key : key = IF kept # NoKey THEN kept ELSE CHOOSE k \in Keys : Fresh(k)
  OBVIOUS
<1> PICK r : r = [run[s] EXCEPT !.pc = "copying", !.key = key]
  OBVIOUS
<1>1. /\ run[s].pc = "scanning" /\ Busy(run[s]) /\ run[s] \in RunType
      /\ run[s].source.config = store[s].config /\ kept = store[s].attempt.key
  BY AtWork, Untouched DEF Scan, At, Busy, Reread
<1>2. /\ r.pc = "copying" /\ r.key = key /\ r.source = run[s].source
      /\ r.current = run[s].current
  BY <1>1 DEF RunType
<1>3. run' = [run EXCEPT ![s] = r]
  BY DEF Scan, CollectorInv
<1>4. UNCHANGED <<disk, held, receipts, late, written, edits, store, staged>>
  BY DEF Scan, serverVars, boundVars
<1>5. {r.key} \ {NoKey} \subseteq KeysOf(s) \cup {k \in Keys : Fresh(k)}
  <2>1. CASE kept # NoKey
    BY <1>1, <1>2, <2>1, Untouched
  <2>2. CASE kept = NoKey
    <3>1. \E k \in Keys : Fresh(k)
      BY <2>2 DEF Scan
    <3>2. (CHOOSE k \in Keys : Fresh(k)) \in {k \in Keys : Fresh(k)}
      BY <3>1
    <3> QED BY <1>2, <2>2, <3>2
  <2> QED BY <2>1, <2>2
<1>6. Reread(r, store[s])
  BY <1>1, <1>2, Untouched DEF Reread, Busy
<1>7. Alone(s) => InStep(r, store[s])'
  <2>1. disk[store[s].config.directory] # 0
    BY <1>1 DEF Scan
  <2>2. Alone(s) => store[s].attempt.staged = 0
    BY <1>1, Untouched DEF InStep, Looking
  <2> QED BY <1>2, <1>4, <2>1, <2>2 DEF InStep, Looking, Leading, Holding
<1> QED BY <1>3, <1>4, <1>5, <1>6, <1>7, OnlyRunMoves

\* A run that only changes its stage, or fails.
Restaged(r, s, pc) ==
    /\ run' = [run EXCEPT ![s] = r] /\ r.pc = pc /\ r.key = run[s].key /\ r.file = run[s].file
    /\ r.source = run[s].source /\ r.current = run[s].current

LEMMA GoesRestaged ==
  ASSUME CollectorInv, NEW s \in Sources, NEW pc, Goes(s, pc)
  PROVE  \E r : Restaged(r, s, pc)
<1> PICK r : r = [run[s] EXCEPT !.pc = pc]
  OBVIOUS
<1>1. run[s] \in RunType
  BY DEF CollectorInv
<1>2. run' = [run EXCEPT ![s] = r]
  BY DEF Goes, CollectorInv
<1>3. /\ r.pc = pc /\ r.key = run[s].key /\ r.file = run[s].file
      /\ r.source = run[s].source /\ r.current = run[s].current
  BY <1>1 DEF RunType
<1>4. Restaged(r, s, pc)
  BY <1>2, <1>3 DEF Restaged
<1> QED BY <1>4

LEMMA FailsRestaged ==
  ASSUME CollectorInv, NEW s \in Sources, NEW file, NEW imported, Fails(s, file, imported)
  PROVE  \E r : Restaged(r, s, "record")
<1> PICK o : o = [status |-> "failed", file |-> file, imported |-> imported]
  OBVIOUS
<1> PICK r : r = [run[s] EXCEPT !.pc = "record", !.outcome = o]
  OBVIOUS
<1>1. run[s] \in RunType
  BY DEF CollectorInv
<1>2. run' = [run EXCEPT ![s] = r]
  BY DEF Fails, CollectorInv
<1>3. /\ r.pc = "record" /\ r.key = run[s].key /\ r.file = run[s].file
      /\ r.source = run[s].source /\ r.current = run[s].current
  BY <1>1 DEF RunType
<1>4. Restaged(r, s, "record")
  BY <1>2, <1>3 DEF Restaged
<1> QED BY <1>4

LEMMA GivesUpRestaged ==
  ASSUME CollectorInv, edits = 0, NEW s \in Sources, Busy(run[s]), NEW phase,
         GivesUp(s, phase)
  PROVE  \E r, pc : /\ Restaged(r, s, pc) /\ pc \in {phase, "record"}
                    /\ Alone(s) => pc = phase
<1>1. Alone(s) => Saved(s)
  BY AtWork DEF Alone, Saved, Busy
<1>2. CASE Saved(s)
  BY <1>2, GoesRestaged DEF GivesUp
<1>3. CASE ~Saved(s)
  BY <1>1, <1>3, FailsRestaged DEF GivesUp
<1> QED BY <1>2, <1>3

LEMMA RestagedNewer ==
  ASSUME CollectorInv, NewerInv, edits = 0, NEW s \in Sources, NEW r, NEW pc,
         Busy(run[s]), pc \notin {"checking", "scanning"}, Restaged(r, s, pc),
         UNCHANGED <<disk, held, receipts, late, written, edits, store, staged>>,
         Alone(s) => InStep(r, store[s])
  PROVE  NewerInv'
<1>1. Reread(r, store[s])
  BY Untouched DEF Reread, Restaged, Busy
<1>2. {r.key} \ {NoKey} \subseteq KeysOf(s)
  BY Untouched DEF Restaged
<1>3. Alone(s) => InStep(r, store[s])'
  BY DEF InStep, Receipted, Loose
<1> QED BY <1>1, <1>2, <1>3, OnlyRunMoves DEF Restaged

LEMMA ScanFailsNewer ==
  ASSUME CollectorInv, NewerInv, edits = 0, NEW s \in Sources, ScanFails(s)
  PROVE  NewerInv'
<1>1. run[s].pc = "scanning" /\ Busy(run[s])
  BY DEF ScanFails, At, Busy
<1>2. PICK r : Restaged(r, s, "record")
  BY FailsRestaged DEF ScanFails
<1>3. UNCHANGED <<disk, held, receipts, late, written, edits, store, staged>>
  BY DEF ScanFails, serverVars, boundVars, Mishap
<1>4. Alone(s) => InStep(r, store[s])
  <2>1. Alone(s) => store[s].attempt.staged = 0 /\ Newest(store[s])
    BY <1>1, Untouched DEF InStep, Looking
  <2>2. Alone(s) => Loose(store[s].config.target) = {}
    BY <2>1, NothingLoose
  <2> QED BY <1>2, <2>2 DEF Restaged, InStep, Looking, Leading, Holding
<1> QED BY <1>1, <1>2, <1>3, <1>4, RestagedNewer

\* A new attempt in the record: what remains of the source stays.
LEMMA AttemptIs ==
  ASSUME CollectorInv, NEW s \in Sources, NEW file, NEW phase
  PROVE  /\ Attempt(s, file, phase).config = store[s].config
         /\ Attempt(s, file, phase).applied = store[s].applied
         /\ Attempt(s, file, phase).attempt.key = run[s].key
         /\ Attempt(s, file, phase).attempt.staged = file
BY DEF Attempt, CollectorInv, SourceType

\* A record without a staged snapshot, or with the one that was staged before,
\* is as new as the record that it replaces.
LEMMA RecordIsNewest ==
  ASSUME CollectorInv, NEW s \in Sources, Alone(s), Newest(store[s]), NEW d,
         d.config = store[s].config,
         UNCHANGED <<disk, held, receipts, late>>,
         \/ d.attempt.staged = 0 /\ Loose(d.config.target) = {}
         \/ /\ d.attempt.staged = store[s].attempt.staged
            /\ d.attempt.key = store[s].attempt.key
            /\ d.applied = store[s].applied /\ staged \subseteq staged'
  PROVE  Newest(d)'
<1>1. disk[d.config.directory] \in Nat
  BY Numbers DEF Alone
<1> QED BY <1>1 DEF Newest, Receipted, Loose

LEMMA NoteCopyingNewer ==
  ASSUME CollectorInv, NewerInv, edits = 0, NEW s \in Sources, NoteCopying(s)
  PROVE  NewerInv'
<1> PICK d : d = Attempt(s, 0, "copying")
  OBVIOUS
<1> PICK r : r = [run[s] EXCEPT !.current = d, !.pc = "snapshot"]
  OBVIOUS
<1>1. run[s].pc = "copying" /\ Busy(run[s])
  BY DEF NoteCopying, At, Busy
<1>2. run[s] \in RunType /\ store[s].config # NoConfig
  BY <1>1, AtWork
<1>3. /\ d.config = store[s].config /\ d.applied = store[s].applied
      /\ d.attempt.key = run[s].key /\ d.attempt.staged = 0
  BY AttemptIs
<1>4. r.pc = "snapshot" /\ r.key = run[s].key /\ r.current = d
  BY <1>2 DEF RunType
<1>5. run' = [run EXCEPT ![s] = r] /\ store' = [store EXCEPT ![s] = d]
  BY <1>2 DEF NoteCopying, Saves, CollectorInv
<1>6. UNCHANGED <<disk, held, receipts, late, written, edits, staged>>
  BY DEF NoteCopying, serverVars, boundVars
<1>7. Reread(r, d)
  BY <1>4 DEF Reread
<1>8. ASSUME Alone(s) PROVE Newest(d)' /\ InStep(r, d)'
  <2>1. /\ Newest(store[s]) /\ store[s].attempt.staged = 0
        /\ disk[store[s].config.directory] # 0
    BY <1>1, <1>8, Untouched DEF InStep, Looking
  <2>2. Newest(d)'
    BY <1>3, <1>6, <1>8, <2>1, NothingLoose, RecordIsNewest
  <2>3. InStep(r, d)'
    BY <1>3, <1>4, <1>6, <2>1 DEF InStep, Looking, Leading, Holding
  <2> QED BY <2>2, <2>3
<1>9. {r.key, d.attempt.key} \ {NoKey} \subseteq KeysOf(s)
  BY <1>3, <1>4, Untouched
<1> QED BY <1>3, <1>5, <1>6, <1>7, <1>8, <1>9, SourceMoves

LEMMA CopyNewer ==
  ASSUME CollectorInv, NewerInv, edits = 0, NEW s \in Sources, Copy(s)
  PROVE  NewerInv'
<1> PICK file : file = disk[run[s].source.config.directory]
  OBVIOUS
<1> PICK r : r = [run[s] EXCEPT !.pc = "staged", !.file = file]
  OBVIOUS
<1>1. run[s].pc = "snapshot" /\ Busy(run[s])
  BY DEF Copy, At, Busy
<1>2. run[s] \in RunType /\ file = disk[store[s].config.directory]
  BY <1>1, AtWork
<1>3. r.pc = "staged" /\ r.file = file /\ r.key = run[s].key /\ r.current = run[s].current
  BY <1>2 DEF RunType
<1>4. run' = [run EXCEPT ![s] = r]
  BY DEF Copy, CollectorInv
<1>5. /\ UNCHANGED <<disk, held, receipts, late, written, edits, store>>
      /\ staged \subseteq staged'
  BY DEF Copy, serverVars, boundVars
<1>6. Reread(r, store[s])
  BY <1>1, <1>3, Untouched DEF Reread, Busy
<1>7. ASSUME Alone(s) PROVE InStep(r, store[s])'
  <2>1. Newest(store[s]) /\ store[s].attempt.staged = 0 /\ file # 0
    BY <1>1, <1>2, <1>7, Untouched DEF InStep, Looking
  <2>2. file \in Nat /\ held[store[s].config.target] <= file
    BY <1>2, <1>7, <2>1, Numbers DEF Newest, Alone
  <2> QED BY <1>2, <1>3, <1>5, <2>1, <2>2 DEF InStep, Looking, Leading, Holding
<1>8. {r.key} \ {NoKey} \subseteq KeysOf(s)
  BY <1>3, Untouched
<1> QED BY <1>4, <1>5, <1>6, <1>7, <1>8, OnlyRunMoves

LEMMA CopyWaitsNewer ==
  ASSUME CollectorInv, NewerInv, edits = 0, NEW s \in Sources, CopyWaits(s)
  PROVE  NewerInv'
<1>1. run[s].pc = "snapshot" /\ Busy(run[s])
  BY DEF CopyWaits, At, Busy
<1>2. PICK r : Restaged(r, s, "waiting")
  BY GoesRestaged DEF CopyWaits
<1>3. UNCHANGED <<disk, held, receipts, late, written, edits, store, staged>>
  BY DEF CopyWaits, serverVars, Mishap
<1>4. Alone(s) => InStep(r, store[s])
  BY <1>1, <1>2, Untouched DEF Restaged, InStep, Looking, Leading, Holding
<1> QED BY <1>1, <1>2, <1>3, <1>4, RestagedNewer

\* A run that ends and leaves its record.
LEMMA EndsNewer ==
  ASSUME CollectorInv, NewerInv, edits = 0, NEW s \in Sources, Ends(s),
         UNCHANGED <<disk, held, receipts, late, written, edits, store>>,
         staged \subseteq staged'
  PROVE  NewerInv'
<1>1. /\ Reread(NoRun, store[s]) /\ InStep(NoRun, store[s])'
      /\ {NoRun.key} \ {NoKey} \subseteq KeysOf(s)
  <2>1. InStep(NoRun, store[s])'
    BY DEF InStep, NoRun, Looking, Leading, Holding
  <2> QED BY <2>1, OverIsInStep
<1>2. run' = [run EXCEPT ![s] = NoRun]
  BY DEF Ends
<1> QED BY <1>1, <1>2, OnlyRunMoves

LEMMA CopyFailsNewer ==
  ASSUME CollectorInv, NewerInv, edits = 0, NEW s \in Sources, CopyFails(s)
  PROVE  NewerInv'
<1>1. UNCHANGED <<disk, held, receipts, late, written, edits, store, staged>> /\ Ends(s)
  BY DEF CopyFails, serverVars, Mishap
<1> QED BY <1>1, EndsNewer

\* A run that ends with its last mutation of the record.
LEMMA LastSaveNewer ==
  ASSUME CollectorInv, NewerInv, edits = 0, NEW s \in Sources, Busy(run[s]), NEW d,
         SavesLast(s, d), UNCHANGED <<disk, held, receipts, late, written, edits>>,
         \A n \in staged : n[1] \notin KeysOf(s) => n \in staged',
         d.config = store[s].config, {d.attempt.key} \ {NoKey} \subseteq KeysOf(s),
         Alone(s) => Newest(d)'
  PROVE  NewerInv'
<1>1. store[s].config # NoConfig
  BY AtWork DEF Busy
<1>2. store' = [store EXCEPT ![s] = d] /\ run' = [run EXCEPT ![s] = NoRun]
  BY <1>1 DEF SavesLast, Ends
<1>3. Reread(NoRun, d) /\ InStep(NoRun, d)' /\ NoRun.key = NoKey
  BY OverIsInStep DEF InStep, NoRun, Looking, Leading, Holding
<1>4. {NoRun.key, d.attempt.key} \ {NoKey} \subseteq KeysOf(s)
  BY <1>3
<1> QED BY <1>2, <1>3, <1>4, SourceMoves

LEMMA NoteWaitingNewer ==
  ASSUME CollectorInv, NewerInv, edits = 0, NEW s \in Sources, NoteWaiting(s)
  PROVE  NewerInv'
<1> PICK d : d = Attempt(s, 0, "waiting")
  OBVIOUS
<1>1. run[s].pc = "waiting" /\ Busy(run[s]) /\ SavesLast(s, d)
  BY DEF NoteWaiting, At, Busy
<1>2. UNCHANGED <<disk, held, receipts, late, written, edits, staged>>
  BY DEF NoteWaiting, serverVars, boundVars
<1>3. /\ d.config = store[s].config /\ d.applied = store[s].applied
      /\ d.attempt.key = run[s].key /\ d.attempt.staged = 0
  BY AttemptIs
<1>4. ASSUME Alone(s) PROVE Newest(d)'
  <2>1. Newest(store[s]) /\ store[s].attempt.staged = 0
    BY <1>1, <1>4, Untouched DEF InStep, Looking
  <2> QED BY <1>2, <1>3, <1>4, <2>1, NothingLoose, RecordIsNewest
<1>5. {d.attempt.key} \ {NoKey} \subseteq KeysOf(s)
  BY <1>3, Untouched
<1> QED BY <1>1, <1>2, <1>3, <1>4, <1>5, LastSaveNewer

LEMMA NoteStagedNewer ==
  ASSUME CollectorInv, NewerInv, edits = 0, NEW s \in Sources, NoteStaged(s)
  PROVE  NewerInv'
<1> PICK file : file = run[s].file
  OBVIOUS
<1> PICK key : key = run[s].key
  OBVIOUS
<1> PICK d : d = Attempt(s, file, "uploading")
  OBVIOUS
<1>1. run[s].pc = "staged" /\ Busy(run[s])
  BY DEF NoteStaged, At, Busy
<1>2. store[s].config # NoConfig
  BY <1>1, AtWork
<1>3. Holds(s, key, file, d) /\ store' = [store EXCEPT ![s] = d]
  BY <1>2 DEF NoteStaged
<1>4. UNCHANGED <<disk, held, receipts, late, written, edits, staged>>
  BY DEF NoteStaged, serverVars, boundVars
<1>5. /\ d.config = store[s].config /\ d.applied = store[s].applied
      /\ d.attempt.key = key /\ d.attempt.staged = file
  BY AttemptIs
<1>6. PICK r : /\ run' = [run EXCEPT ![s] = r] /\ r.key = key /\ Reread(r, d)
               /\ Alone(s) /\ file # 0 => InStep(r, d)
  BY <1>1, <1>3, <1>5, HoldsInStep
<1>7. ASSUME Alone(s) PROVE Newest(d)' /\ InStep(r, d)'
  <2>1. /\ Newest(store[s]) /\ store[s].attempt.staged = 0 /\ file # 0
        /\ held[d.config.target] <= file /\ file <= disk[d.config.directory]
    BY <1>1, <1>5, <1>7, Untouched DEF InStep, Looking
  <2>2. Loose(d.config.target) = {}
    BY <1>5, <2>1, NothingLoose
  <2>3. Newest(d)'
    BY <1>4, <1>5, <2>1, <2>2 DEF Newest, Receipted, Loose
  <2>4. InStep(r, d)'
    BY <1>4, <1>6, <1>7, <2>1 DEF InStep, Receipted, Loose
  <2> QED BY <2>3, <2>4
<1>8. {r.key, d.attempt.key} \ {NoKey} \subseteq KeysOf(s)
  BY <1>5, <1>6, Untouched
<1> QED BY <1>3, <1>4, <1>5, <1>6, <1>7, <1>8, SourceMoves

\* A run that does not get through keeps its attempt.
LEMMA GivesUpNewer ==
  ASSUME CollectorInv, NewerInv, edits = 0, NEW s \in Sources,
         NEW phase \in {"uploading", "needs_login", "needs_attention"}, GivesUp(s, phase),
         run[s].pc \in Holding \cup {"trigger"},
         UNCHANGED <<disk, held, receipts, late, written, edits, store, staged>>
  PROVE  NewerInv'
<1>1. Busy(run[s])
  BY DEF Busy, Holding, Leading
<1>2. PICK r, pc : /\ Restaged(r, s, pc) /\ pc \in {phase, "record"}
                   /\ Alone(s) => pc = phase
  BY <1>1, GivesUpRestaged
<1>3. Alone(s) => InStep(r, store[s])
  <2> SUFFICES ASSUME Alone(s) PROVE InStep(r, store[s])
    OBVIOUS
  <2>1. InStep(run[s], store[s])
    BY Untouched
  <2>2. /\ store[s].attempt.key = run[s].key /\ store[s].attempt.staged = run[s].file
        /\ run[s].file # 0
    BY <2>1 DEF InStep, Holding, Leading
  <2>3. r.pc = phase /\ r.key = run[s].key /\ r.file = run[s].file
    BY <1>2 DEF Restaged
  <2> QED BY <2>2, <2>3 DEF InStep, Looking, Leading, Holding
<1> QED BY <1>1, <1>2, <1>3, RestagedNewer

\* A run whose snapshot is removed has nothing left to send.
LEMMA SnapshotRemoved ==
  ASSUME CollectorInv, NewerInv, edits = 0, NEW s \in Sources, NEW r,
         Busy(run[s]), Snapshot(s) \in staged, staged' = staged \ {Snapshot(s)},
         run' = [run EXCEPT ![s] = r], r.pc = "record", r.key = run[s].key,
         r.current = run[s].current,
         UNCHANGED <<disk, held, receipts, late, written, edits, store>>,
         Alone(s) => Loose(store[s].config.target) = {}
  PROVE  NewerInv'
<1> PICK d : d = store[s]
  OBVIOUS
<1>1. store' = [store EXCEPT ![s] = d]
  BY DEF CollectorInv
<1>2. run[s].key \in KeysOf(s)
  BY KeysAssumption DEF CollectorInv, World, Snapshot, KeysOf
<1>3. \A n \in staged : n[1] \notin KeysOf(s) => n \in staged'
  BY <1>2 DEF Snapshot
<1>4. Reread(r, d)
  BY Untouched DEF Reread, Busy
<1>5. ASSUME Alone(s) PROVE Newest(d)' /\ InStep(r, d)'
  <2>1. Newest(d) /\ Loose(d.config.target)' = {}
    BY <1>5, Untouched DEF Loose, Receipted
  <2>2. Newest(d)'
    BY <2>1 DEF Newest, Receipted
  <2>3. InStep(r, d)'
    BY <2>1 DEF InStep, Looking, Leading, Holding
  <2> QED BY <2>2, <2>3
<1>6. {r.key, d.attempt.key} \ {NoKey} \subseteq KeysOf(s)
  BY Untouched
<1> QED BY <1>1, <1>3, <1>4, <1>5, <1>6, SourceMoves

LEMMA SkipNewer ==
  ASSUME CollectorInv, NewerInv, edits = 0, NEW s \in Sources, Skip(s)
  PROVE  NewerInv'
<1>1. run[s].pc = "skipping" /\ Busy(run[s]) /\ run[s] \in RunType
  BY DEF Skip, At, Busy, CollectorInv
<1>2. UNCHANGED <<disk, held, receipts, late, written, edits, store>>
  BY DEF Skip, serverVars, boundVars
<1>3. CASE Snapshot(s) \notin staged
  <2>1. Ends(s) /\ staged' = staged
    BY <1>3 DEF Skip
  <2> QED BY <1>2, <2>1, EndsNewer
<1>4. CASE Snapshot(s) \in staged
  <2> PICK o : o = [status |-> "skipped", file |-> run[s].file, imported |-> FALSE]
    OBVIOUS
  <2> PICK r : r = [run[s] EXCEPT !.pc = "record", !.outcome = o]
    OBVIOUS
  <2>1. r.pc = "record" /\ r.key = run[s].key /\ r.current = run[s].current
    BY <1>1 DEF RunType
  <2>2. run' = [run EXCEPT ![s] = r] /\ staged' = staged \ {Snapshot(s)}
    BY <1>4 DEF Skip, CollectorInv
  <2>3. Alone(s) => Loose(store[s].config.target) = {}
    <3>1. run[s].file = store[s].applied
      BY <1>1, Untouched DEF CollectorInv, Believed, Reread
    <3>2. Alone(s) => Newest(store[s]) /\ store[s].attempt.staged = run[s].file
      BY <1>1, Untouched DEF InStep, Holding
    <3> QED BY <3>1, <3>2, NothingLoose
  <2> QED BY <1>1, <1>2, <1>4, <2>1, <2>2, <2>3, SnapshotRemoved
<1> QED BY <1>3, <1>4

LEMMA IdentifyNewer ==
  ASSUME CollectorInv, NewerInv, edits = 0, NEW s \in Sources, Identify(s)
  PROVE  NewerInv'
<1>1. run[s].pc = "identify" /\ Busy(run[s])
  BY DEF Identify, At, Busy
<1>2. UNCHANGED <<disk, held, receipts, late, written, edits, store, staged>>
  BY DEF Identify, serverVars, boundVars, Mishap
<1>3. PICK pc \in {"publishing", "needs_attention", "needs_login", "uploading"} : Goes(s, pc)
  BY DEF Identify
<1>4. PICK r : Restaged(r, s, pc)
  BY <1>3, GoesRestaged
<1>5. Alone(s) => InStep(r, store[s])
  <2> SUFFICES ASSUME Alone(s) PROVE InStep(r, store[s])
    OBVIOUS
  <2>1. /\ store[s].attempt.key = run[s].key /\ store[s].attempt.staged = run[s].file
        /\ run[s].file # 0 /\ run[s].file # store[s].applied
    BY <1>1, Untouched DEF InStep, Holding, Leading
  <2>2. r.pc = pc /\ r.key = run[s].key /\ r.file = run[s].file
    BY <1>4 DEF Restaged
  <2> QED BY <1>3, <2>1, <2>2 DEF InStep, Looking, Leading, Holding
<1> QED BY <1>1, <1>2, <1>3, <1>4, <1>5, RestagedNewer

LEMMA NotePublishingNewer ==
  ASSUME CollectorInv, NewerInv, edits = 0, NEW s \in Sources, NotePublishing(s)
  PROVE  NewerInv'
<1> PICK d : d = Attempt(s, run[s].file, "publishing")
  OBVIOUS
<1> PICK pc : pc = IF Saved(s) THEN "open" ELSE "trigger"
  OBVIOUS
<1> PICK r : r = [run[s] EXCEPT !.current = d, !.pc = pc]
  OBVIOUS
<1>1. run[s].pc = "publishing" /\ Busy(run[s])
  BY DEF NotePublishing, At, Busy
<1>2. run[s] \in RunType /\ store[s].config # NoConfig /\ (Alone(s) => Saved(s))
  BY <1>1, AtWork DEF Alone, Saved
<1>3. /\ d.config = store[s].config /\ d.applied = store[s].applied
      /\ d.attempt.key = run[s].key /\ d.attempt.staged = run[s].file
  BY AttemptIs
<1>4. r.pc = pc /\ r.key = run[s].key /\ r.file = run[s].file /\ r.current = d
  BY <1>2 DEF RunType
<1>5. run' = [run EXCEPT ![s] = r] /\ store' = [store EXCEPT ![s] = d]
  BY <1>2 DEF NotePublishing, Saves, CollectorInv
<1>6. UNCHANGED <<disk, held, receipts, late, written, edits, staged>>
  BY DEF NotePublishing, serverVars, boundVars
<1>7. Reread(r, d)
  BY <1>4 DEF Reread
<1>8. ASSUME Alone(s) PROVE Newest(d)' /\ InStep(r, d)'
  <2>1. /\ Newest(store[s]) /\ store[s].attempt.key = run[s].key
        /\ store[s].attempt.staged = run[s].file
        /\ run[s].file # 0 /\ run[s].file # store[s].applied
    BY <1>1, <1>8, Untouched DEF InStep, Leading, Holding
  <2>2. Newest(d)'
    BY <1>3, <1>6, <1>8, <2>1, RecordIsNewest
  <2>3. pc = "open"
    BY <1>2, <1>8
  <2>4. InStep(r, d)'
    BY <1>3, <1>4, <2>1, <2>3 DEF InStep, Looking, Leading, Holding
  <2> QED BY <2>2, <2>4
<1>9. {r.key, d.attempt.key} \ {NoKey} \subseteq KeysOf(s)
  BY <1>3, <1>4, Untouched
<1> QED BY <1>3, <1>5, <1>6, <1>7, <1>8, <1>9, SourceMoves

LEMMA OpenSnapshotNewer ==
  ASSUME CollectorInv, NewerInv, edits = 0, NEW s \in Sources, OpenSnapshot(s)
  PROVE  NewerInv'
<1>1. run[s].pc = "open" /\ Busy(run[s])
  BY DEF OpenSnapshot, At, Busy
<1>2. UNCHANGED <<disk, held, receipts, late, written, edits, store, staged>>
  BY DEF OpenSnapshot, serverVars, boundVars
<1>3. CASE Snapshot(s) \notin staged
  <2>1. GivesUp(s, "uploading") /\ run[s].pc \in Holding
    BY <1>1, <1>3 DEF OpenSnapshot, Holding, Leading
  <2> QED BY <1>2, <2>1, GivesUpNewer
<1>4. CASE Snapshot(s) \in staged
  <2>1. PICK r : Restaged(r, s, "sending")
    BY <1>4, GoesRestaged DEF OpenSnapshot
  <2>2. Alone(s) => InStep(r, store[s])
    <3> SUFFICES ASSUME Alone(s) PROVE InStep(r, store[s])
      OBVIOUS
    <3>1. /\ store[s].attempt.key = run[s].key /\ store[s].attempt.staged = run[s].file
          /\ run[s].file # 0 /\ run[s].file # store[s].applied
      BY <1>1, Untouched DEF InStep, Holding, Leading
    <3>2. r.pc = "sending" /\ r.key = run[s].key /\ r.file = run[s].file
      BY <2>1 DEF Restaged
    <3> QED BY <1>4, <3>1, <3>2 DEF InStep, Looking, Leading, Holding, Snapshot
  <2> QED BY <1>1, <1>2, <2>1, <2>2, RestagedNewer
<1> QED BY <1>3, <1>4

LEMMA RefusedNewer ==
  ASSUME CollectorInv, NewerInv, edits = 0, NEW s \in Sources, Refused(s)
  PROVE  NewerInv'
<1>1. run[s].pc \in Holding
  BY DEF Refused, At, Holding, Leading
<1>2. UNCHANGED <<disk, held, receipts, late, written, edits, store, staged>>
  BY DEF Refused, serverVars, boundVars, Mishap
<1>3. PICK phase \in {"needs_attention", "needs_login"} : GivesUp(s, phase)
  BY DEF Refused
<1> QED BY <1>1, <1>2, <1>3, GivesUpNewer

LEMMA TriggerNewer ==
  ASSUME CollectorInv, NewerInv, edits = 0, NEW s \in Sources, Trigger(s)
  PROVE  NewerInv'
<1>1. run[s].pc = "trigger" /\ Busy(run[s])
  BY DEF Trigger, At, Busy
<1>2. UNCHANGED <<disk, held, receipts, late, written, edits, store, staged>>
  BY DEF Trigger, serverVars, boundVars, Mishap
<1>3. ~Alone(s)
  BY <1>1, Untouched DEF InStep
<1>4. CASE Goes(s, "removing")
  <2>1. PICK r : Restaged(r, s, "removing")
    BY <1>4, GoesRestaged
  <2> QED BY <1>1, <1>2, <1>3, <2>1, RestagedNewer
<1>5. CASE GivesUp(s, "uploading")
  BY <1>1, <1>2, <1>5, GivesUpNewer
<1> QED BY <1>4, <1>5 DEF Trigger

LEMMA RemoveNewer ==
  ASSUME CollectorInv, NewerInv, edits = 0, NEW s \in Sources, Remove(s)
  PROVE  NewerInv'
<1>1. run[s].pc = "removing" /\ Busy(run[s]) /\ run[s] \in RunType
  BY DEF Remove, At, Busy, CollectorInv
<1>2. UNCHANGED <<disk, held, receipts, late, written, edits, store>>
  BY DEF Remove, serverVars, boundVars
<1>3. CASE Snapshot(s) \notin staged
  <2>1. GivesUp(s, "uploading") /\ run[s].pc \in Holding /\ staged' = staged
    BY <1>1, <1>3 DEF Remove, Holding
  <2> QED BY <1>2, <2>1, GivesUpNewer
<1>4. CASE Snapshot(s) \in staged
  <2> PICK o : o = [run[s].outcome EXCEPT !.status = "success", !.file = run[s].file]
    OBVIOUS
  <2> PICK r : r = [run[s] EXCEPT !.pc = "record", !.outcome = o]
    OBVIOUS
  <2>1. r.pc = "record" /\ r.key = run[s].key /\ r.current = run[s].current
    BY <1>1 DEF RunType
  <2>2. run' = [run EXCEPT ![s] = r] /\ staged' = staged \ {Snapshot(s)}
    BY <1>1, <1>4 DEF Remove, CollectorInv, RunType
  <2>3. Alone(s) => Loose(store[s].config.target) = {}
    <3>1. Alone(s) => /\ Newest(store[s]) /\ store[s].attempt.key = run[s].key
                      /\ Receipted(store[s].config.target, run[s].key)
      BY <1>1, Untouched DEF InStep, Holding
    <3> QED BY <3>1, NothingLoose
  <2> QED BY <1>1, <1>2, <1>4, <2>1, <2>2, <2>3, SnapshotRemoved
<1> QED BY <1>3, <1>4

LEMMA RecordNewer ==
  ASSUME CollectorInv, NewerInv, edits = 0, NEW s \in Sources, Record(s)
  PROVE  NewerInv'
<1> PICK o : o = run[s].outcome
  OBVIOUS
<1> PICK d : d = [store[s] EXCEPT !.applied = IF o.status = "failed" THEN @ ELSE o.file,
                                  !.attempt = NoAttempt, !.last = o]
  OBVIOUS
<1>1. run[s].pc = "record" /\ Busy(run[s]) /\ store[s] \in SourceType /\ SavesLast(s, d)
  BY DEF Record, At, Busy, CollectorInv
<1>2. /\ UNCHANGED <<disk, held, receipts, late, written, edits>>
      /\ staged' = staged \ {Snapshot(s)}
  BY DEF Record, serverVars, boundVars
<1>3. d.config = store[s].config /\ d.attempt.key = NoKey /\ d.attempt.staged = 0
  BY <1>1 DEF SourceType, NoAttempt
<1>4. Alone(s) => Newest(d)'
  <2>1. Alone(s) => Newest(store[s]) /\ Loose(d.config.target) = {}
    BY <1>1, <1>3, Untouched DEF InStep
  <2> QED BY <1>2, <1>3, <2>1, RecordIsNewest
<1>5. \A n \in staged : n[1] \notin KeysOf(s) => n \in staged'
  BY <1>2, KeysAssumption DEF Snapshot, KeysOf, CollectorInv, World
<1> QED BY <1>1, <1>2, <1>3, <1>4, <1>5, LastSaveNewer

LEMMA KeepAttemptNewer ==
  ASSUME CollectorInv, NewerInv, edits = 0, NEW s \in Sources, KeepAttempt(s)
  PROVE  NewerInv'
<1> PICK d : d = Attempt(s, run[s].file, run[s].pc)
  OBVIOUS
<1>1. run[s].pc \in Holding /\ Busy(run[s]) /\ SavesLast(s, d)
  BY DEF KeepAttempt, Busy, Holding
<1>2. UNCHANGED <<disk, held, receipts, late, written, edits, staged>>
  BY DEF KeepAttempt, serverVars, boundVars
<1>3. /\ d.config = store[s].config /\ d.applied = store[s].applied
      /\ d.attempt.key = run[s].key /\ d.attempt.staged = run[s].file
  BY AttemptIs
<1>4. ASSUME Alone(s) PROVE Newest(d)'
  <2>1. /\ Newest(store[s]) /\ store[s].attempt.key = run[s].key
        /\ store[s].attempt.staged = run[s].file
    BY <1>1, <1>4, Untouched DEF InStep
  <2> QED BY <1>2, <1>3, <1>4, <2>1, RecordIsNewest
<1>5. {d.attempt.key} \ {NoKey} \subseteq KeysOf(s)
  BY <1>3, Untouched
<1> QED BY <1>1, <1>2, <1>3, <1>4, <1>5, LastSaveNewer

-----------------------------------------------------------------------------
(* The server, the world and the user                                        *)

\* A step that leaves the store and the files alone: what remains to be shown.
LEMMA StoreStays ==
  ASSUME NewerInv, edits = 0, UNCHANGED store, Owned',
         \A x \in Sources : KeysOf(x)' \subseteq KeysOf(x),
         \A x \in Sources : /\ Reread(run[x], store[x])'
                            /\ Alone(x) => (Newest(store[x]) /\ InStep(run[x], store[x]))'
  PROVE  Newer'
<1>1. Apart'
  BY DEF NewerInv, Newer, Apart
<1>2. \A x \in Sources : Alone(x)' <=> Alone(x)
  BY DEF Alone, Serves
<1> QED BY <1>1, <1>2 DEF Newer

\* A source that the step does not touch, and whose target it does not touch.
LEMMA SourceStays ==
  ASSUME CollectorInv, NewerInv, edits = 0, NEW x \in Sources,
         run'[x] = run[x], store'[x] = store[x],
         \A f \in Directories : disk'[f] \in Nat /\ disk[f] <= disk'[f],
         receipts \subseteq receipts', staged \subseteq staged',
         Alone(x) =>
             /\ held'[store[x].config.target] = held[store[x].config.target]
             /\ \A q \in late' : q.target = store[x].config.target => q \in late
  PROVE  /\ Reread(run[x], store[x])'
         /\ Alone(x) => (Newest(store[x]) /\ InStep(run[x], store[x]))'
<1>1. Reread(run[x], store[x])'
  BY Untouched DEF Reread, Busy
<1>2. ASSUME Alone(x) PROVE Newest(store[x])' /\ InStep(run[x], store[x])'
  <2> PICK d : d = store[x]
    OBVIOUS
  <2> PICK r : r = run[x]
    OBVIOUS
  <2>1. Newest(d) /\ InStep(r, d) /\ d.config \in Configs
    BY <1>2, Untouched DEF Alone
  <2>2. d.attempt.staged \in Nat /\ r.file \in Nat
    BY Numbers
  <2>3. /\ held'[d.config.target] = held[d.config.target]
        /\ \A q \in late' : q.target = d.config.target => q \in late
        /\ \A n \in staged : n[1] \in {d.attempt.key, r.key} => n \in staged'
    BY <1>2
  <2>4. Newest(d)' /\ InStep(r, d)'
    BY <2>1, <2>2, <2>3, OneStays
  <2> QED BY <2>4 DEF Newest, InStep, Receipted, Loose
<1> QED BY <1>1, <1>2

\* A request is for the target of its source, and for no other that is trusted.
LEMMA RequestIs ==
  ASSUME CollectorInv, edits = 0, NEW s \in Sources, At(s, "sending")
  PROVE  /\ Request(s).target = store[s].config.target /\ Request(s).target \in Targets
         /\ Request(s).file = run[s].file /\ Serves(s, Request(s).target)
         /\ Alone(s) => Saved(s) /\ Request(s).key = run[s].key
         /\ \A x \in Sources \ {s} : Alone(x) => store[x].config.target # Request(s).target
<1>1. /\ store[s].config \in Configs /\ store[s].config.target \in Targets
      /\ run[s].source.config = store[s].config /\ run[s].current.config = store[s].config
  BY AtWork DEF At, Busy
<1>2. Request(s).target = store[s].config.target /\ Request(s).file = run[s].file
  BY <1>1 DEF Request
<1>3. Alone(s) => Saved(s) /\ Request(s).key = run[s].key
  BY <1>1 DEF Alone, Saved, Request
<1> QED BY <1>1, <1>2, <1>3 DEF Serves, Alone

\* A request whose sender gives up carries the staged snapshot of its attempt.
LEMMA RequestKept ==
  ASSUME CollectorInv, NewerInv, edits = 0, NEW x \in Sources, Alone(x),
         UNCHANGED <<disk, held, receipts, staged>>,
         \A q \in late' : q \in late \/ \E s \in Sources : At(s, "sending") /\ q = Request(s),
         store'[x] = store[x]
  PROVE  Newest(store[x])'
<1> PICK d : d = store[x]
  OBVIOUS
<1> PICK t : t = d.config.target
  OBVIOUS
<1>1. Newest(d)
  BY Untouched
<1>2. ASSUME NEW q \in Loose(t)'
      PROVE  /\ q.key = d.attempt.key /\ q.file = d.attempt.staged /\ q.file # 0
             /\ <<q.key, q.file>> \in staged /\ q.file # d.applied
  <2>1. q \in late' /\ q.target = t /\ ~Receipted(t, q.key)
    BY DEF Loose, Receipted
  <2>2. CASE q \in late
    BY <1>1, <2>1, <2>2 DEF Newest, Loose
  <2>3. CASE q \notin late
    <3>1. PICK s \in Sources : At(s, "sending") /\ q = Request(s)
      BY <2>1, <2>3
    <3>2. s = x
      BY <2>1, <3>1, RequestIs
    <3>3. q.key = run[x].key /\ q.file = run[x].file
      BY <3>1, <3>2, RequestIs
    <3>4. InStep(run[x], d) /\ run[x].pc = "sending"
      BY <3>1, <3>2, Untouched DEF At
    <3> QED BY <3>3, <3>4 DEF InStep, Holding, Leading
  <2> QED BY <2>2, <2>3
<1>3. Newest(d)'
  BY <1>1, <1>2 DEF Newest, Receipted
<1> QED BY <1>3 DEF Newest, Receipted, Loose

LEMMA RequestsOwned ==
  ASSUME CollectorInv, NewerInv, edits = 0, UNCHANGED <<held, store>>,
         \A q \in late' : q \in late \/ \E s \in Sources : At(s, "sending") /\ q = Request(s)
  PROVE  Owned'
<1>1. \A q \in late' : \E r \in Sources : Serves(r, q.target)
  BY RequestIs DEF NewerInv, Newer, Owned
<1>2. \A r, t : Serves(r, t)' <=> Serves(r, t)
  BY DEF Serves
<1> QED BY <1>1, <1>2 DEF Owned, NewerInv, Newer

\* The server takes the snapshot of the attempt: no loose request remains.
LEMMA Delivers ==
  ASSUME CollectorInv, NEW s \in Sources, NEW d, d = store[s], Alone(s), Newest(d), NEW q,
         q.target = d.config.target, q.key = d.attempt.key, q.file = d.attempt.staged,
         q.key # NoKey, q.file # 0, ~Receipted(q.target, q.key), ~Barred(q), Receives(q),
         UNCHANGED disk, late' \subseteq late
  PROVE  /\ Newest(d)' /\ Receipted(q.target, q.key)' /\ Loose(q.target)' = {}
         /\ held[q.target] <= held'[q.target]
         /\ receipts \subseteq receipts'
<1> DEFINE t == q.target
<1>1. t \in Targets /\ held \in [Targets -> Files]
  BY DEF Alone, Targets, CollectorInv, World
<1>2. ReceiptsFor(q) = {}
  BY DEF ReceiptsFor, Receipted
<1>3. /\ held' = [held EXCEPT ![t] = q.file]
      /\ receipts' = receipts \cup {[target |-> t, key |-> q.key, query |-> q.query,
                                     file |-> q.file, job |-> held[t] # q.file]}
  BY <1>2 DEF Receives
<1>4. held'[t] = q.file
  BY <1>1, <1>3
<1>5. Receipted(t, q.key)' /\ \A k : Receipted(t, k) => Receipted(t, k)'
  <2> PICK p : p = [target |-> t, key |-> q.key, query |-> q.query, file |-> q.file,
                    job |-> held[t] # q.file]
    OBVIOUS
  <2>1. p \in receipts' /\ p.target = t /\ p.key = q.key /\ receipts \subseteq receipts'
    BY <1>3
  <2> QED BY <2>1 DEF Receipted
<1>6. Loose(t)' = {}
  <2>1. \A p \in Loose(t)' : p \in Loose(t) /\ ~Receipted(t, p.key)'
    BY <1>5 DEF Loose
  <2>2. \A p \in Loose(t) : p.key = q.key
    BY DEF Newest
  <2> QED BY <1>5, <2>1, <2>2
<1>7. held[t] <= q.file /\ q.file <= disk[d.config.directory]
  BY DEF Newest
<1>8. Newest(d)'
  BY <1>4, <1>5, <1>6, <1>7 DEF Newest
<1> QED BY <1>3, <1>4, <1>5, <1>6, <1>7, <1>8

\* A request for a key that has a receipt is answered from the receipt.  What is
\* refused changes nothing.
LEMMA ReceiptAnswers ==
  ASSUME CollectorInv, NEW q, Receives(q)
  PROVE  /\ Receipted(q.target, q.key) \/ Barred(q) => UNCHANGED <<held, receipts>>
         /\ receipts \subseteq receipts'
         /\ \A t \in Targets : t # q.target => held'[t] = held[t]
<1>1. held \in [Targets -> Files]
  BY DEF CollectorInv, World
<1>2. CASE ReceiptsFor(q) # {} \/ Barred(q)
  BY <1>2 DEF Receives
<1>3. CASE ReceiptsFor(q) = {} /\ ~Barred(q)
  <2>1. ~Receipted(q.target, q.key)
    BY <1>3 DEF ReceiptsFor, Receipted
  <2>2. held' = [held EXCEPT ![q.target] = q.file] /\ receipts \subseteq receipts'
    BY <1>3 DEF Receives
  <2> QED BY <1>1, <1>3, <2>1, <2>2
<1> QED BY <1>2, <1>3

LEMMA AnsweredNewer ==
  ASSUME CollectorInv, NewerInv, edits = 0, NEW s \in Sources, Answered(s)
  PROVE  NewerInv'
<1> PICK q : q = Request(s)
  OBVIOUS
<1> PICK d : d = store[s]
  OBVIOUS
<1> PICK r : r = run'[s]
  OBVIOUS
<1>1. /\ At(s, "sending") /\ Receives(q) /\ ~Barred(q) /\ run[s] \in RunType /\ Busy(run[s])
      /\ UNCHANGED <<disk, store, staged, late, written, edits>>
  BY DEF Answered, boundVars, CollectorInv, At, Busy
<1>2. /\ r.key = run[s].key /\ r.file = run[s].file /\ r.current = run[s].current
      /\ r.pc = IF Saved(s) THEN "removing" ELSE "publishing"
      /\ \A x \in Sources \ {s} : run'[x] = run[x]
  BY <1>1 DEF Answered, Goes, CollectorInv, RunType
<1>3. /\ q.target = d.config.target /\ q.target \in Targets /\ Serves(s, q.target)
      /\ Alone(s) => Saved(s) /\ q.key = run[s].key /\ q.file = run[s].file
      /\ \A x \in Sources \ {s} : Alone(x) => store[x].config.target # q.target
  BY <1>1, RequestIs
<1>4. Owned'
  <2>1. \A t \in Targets : t # q.target => held'[t] = held[t]
    BY <1>1, ReceiptAnswers
  <2>2. \A x, t : Serves(x, t)' <=> Serves(x, t)
    BY <1>1 DEF Serves
  <2> QED BY <1>1, <1>3, <2>1, <2>2 DEF Owned, NewerInv, Newer
<1>5. ASSUME NEW x \in Sources \ {s}
      PROVE  /\ Reread(run[x], store[x])'
             /\ Alone(x) => (Newest(store[x]) /\ InStep(run[x], store[x]))'
  <2>1. /\ run'[x] = run[x] /\ store'[x] = store[x]
        /\ \A f \in Directories : disk'[f] \in Nat /\ disk[f] <= disk'[f]
        /\ receipts \subseteq receipts' /\ staged \subseteq staged'
    BY <1>1, <1>2, Numbers, ReceiptAnswers
  <2>2. Alone(x) => /\ held'[store[x].config.target] = held[store[x].config.target]
                    /\ \A p \in late' : p.target = store[x].config.target => p \in late
    BY <1>1, <1>3, ReceiptAnswers DEF Alone, Targets
  <2> QED BY <2>1, <2>2, SourceStays
<1>6. Reread(r, d)
  BY <1>1, <1>2, Untouched DEF Reread, Busy
<1>7. ASSUME Alone(s) PROVE Newest(d)' /\ InStep(r, d)'
  <2>1. /\ Newest(d) /\ q.key = d.attempt.key /\ q.file = d.attempt.staged /\ q.file # 0
        /\ <<q.key, q.file>> \in staged
    BY <1>1, <1>3, <1>7, Untouched DEF At, InStep, Holding, Leading
  <2>2. q.key # NoKey
    BY <2>1, KeysAssumption DEF CollectorInv, World
  <2>3. Newest(d)' /\ Receipted(q.target, q.key)'
    <3>1. CASE Receipted(q.target, q.key)
      <4>1. UNCHANGED <<held, receipts>>
        BY <1>1, <3>1, ReceiptAnswers
      <4> QED BY <1>1, <2>1, <3>1, <4>1 DEF Newest, Receipted, Loose
    <3>2. CASE ~Receipted(q.target, q.key)
      BY <1>1, <1>3, <1>7, <2>1, <2>2, <3>2, Delivers
    <3> QED BY <3>1, <3>2
  <2>4. InStep(r, d)'
    BY <1>2, <1>3, <1>7, <2>1, <2>3 DEF InStep, Looking, Leading, Holding
  <2> QED BY <2>3, <2>4
<1>8. Reread(run[s], store[s])' /\ (Alone(s) => (Newest(store[s]) /\ InStep(run[s], store[s]))')
  BY <1>1, <1>6, <1>7 DEF Reread, Busy, Newest, InStep, Receipted, Loose
<1>9. \A x \in Sources : KeysOf(x)' \subseteq KeysOf(x)
  BY <1>1, <1>2 DEF KeysOf
<1>10. Newer'
  BY <1>1, <1>4, <1>5, <1>8, <1>9, StoreStays
<1> QED BY <1>1, <1>10 DEF NewerInv

LEMMA UnansweredNewer ==
  ASSUME CollectorInv, NewerInv, edits = 0, NEW s \in Sources, Unanswered(s)
  PROVE  NewerInv'
<1>1. /\ At(s, "sending") /\ Busy(run[s]) /\ GivesUp(s, "uploading")
      /\ UNCHANGED <<disk, store, staged, held, receipts, written, edits>>
      /\ \A q \in late' : q \in late \/ q = Request(s)
  BY DEF Unanswered, At, Busy, Mishap
<1>2. PICK r, pc : /\ Restaged(r, s, pc) /\ pc \in {"uploading", "record"}
                   /\ Alone(s) => pc = "uploading"
  BY <1>1, GivesUpRestaged
<1>3. /\ run'[s] = r /\ r.pc = pc /\ r.key = run[s].key /\ r.file = run[s].file
      /\ r.current = run[s].current /\ \A x \in Sources \ {s} : run'[x] = run[x]
  BY <1>2 DEF Restaged, CollectorInv
<1>4. Owned'
  BY <1>1, RequestsOwned
<1>5. ASSUME NEW x \in Sources \ {s}
      PROVE  /\ Reread(run[x], store[x])'
             /\ Alone(x) => (Newest(store[x]) /\ InStep(run[x], store[x]))'
  <2>1. /\ run'[x] = run[x] /\ store'[x] = store[x]
        /\ \A f \in Directories : disk'[f] \in Nat /\ disk[f] <= disk'[f]
        /\ receipts \subseteq receipts' /\ staged \subseteq staged'
    BY <1>1, <1>3, Numbers
  <2>2. Alone(x) => /\ held'[store[x].config.target] = held[store[x].config.target]
                    /\ \A p \in late' : p.target = store[x].config.target => p \in late
    BY <1>1, RequestIs
  <2> QED BY <2>1, <2>2, SourceStays
<1>6. Reread(run[s], store[s])'
  BY <1>1, <1>2, <1>3, Untouched DEF Reread, Busy
<1>7. ASSUME Alone(s) PROVE Newest(store[s])' /\ InStep(run[s], store[s])'
  <2>1. Newest(store[s])'
    BY <1>1, <1>7, RequestKept
  <2>2. /\ store[s].attempt.key = run[s].key /\ store[s].attempt.staged = run[s].file
        /\ run[s].file # 0 /\ store'[s] = store[s] /\ r.pc = "uploading"
    BY <1>1, <1>2, <1>3, <1>7, Untouched DEF At, InStep, Holding, Leading
  <2>3. InStep(run[s], store[s])'
    BY <1>3, <2>2 DEF InStep, Looking, Leading, Holding
  <2> QED BY <2>1, <2>3
<1>8. \A x \in Sources : KeysOf(x)' \subseteq KeysOf(x)
  BY <1>1, <1>3 DEF KeysOf
<1>9. Newer'
  BY <1>1, <1>4, <1>5, <1>6, <1>7, <1>8, StoreStays
<1> QED BY <1>1, <1>9 DEF NewerInv

LEMMA ArrivesLateNewer ==
  ASSUME CollectorInv, NewerInv, edits = 0, NEW q \in late, ArrivesLate(q)
  PROVE  NewerInv'
<1>1. /\ Receives(q) /\ late' \subseteq late
      /\ UNCHANGED <<disk, store, staged, run, written, edits>>
  BY DEF ArrivesLate, localVars, boundVars
<1>2. receipts \subseteq receipts' /\ \A t \in Targets : t # q.target => held'[t] = held[t]
  BY <1>1, ReceiptAnswers
<1>3. Owned'
  <2>1. \A x, t : Serves(x, t)' <=> Serves(x, t)
    BY <1>1 DEF Serves
  <2> QED BY <1>1, <1>2, <2>1 DEF Owned, NewerInv, Newer
<1>4. ASSUME NEW x \in Sources
      PROVE  /\ Reread(run[x], store[x])'
             /\ Alone(x) => (Newest(store[x]) /\ InStep(run[x], store[x]))'
  <2>1. /\ run'[x] = run[x] /\ store'[x] = store[x]
        /\ \A f \in Directories : disk'[f] \in Nat /\ disk[f] <= disk'[f]
        /\ staged \subseteq staged'
    BY <1>1, Numbers
  <2>2. CASE /\ Alone(x) /\ store[x].config.target = q.target
             /\ ~Receipted(q.target, q.key) /\ ~Barred(q)
    <3> PICK d : d = store[x]
      OBVIOUS
    <3> PICK r : r = run[x]
      OBVIOUS
    <3>1. Newest(d) /\ InStep(r, d) /\ q \in Loose(d.config.target)
      BY <2>2, Untouched DEF Loose
    <3>2. /\ q.key = d.attempt.key /\ q.file = d.attempt.staged /\ q.file # 0
          /\ <<q.key, q.file>> \in staged
      BY <3>1 DEF Newest
    <3>3. q.key # NoKey
      BY <3>2, KeysAssumption DEF CollectorInv, World
    <3>4. Newest(d)' /\ Receipted(q.target, q.key)' /\ Loose(q.target)' = {}
      BY <1>1, <2>2, <3>1, <3>2, <3>3, Delivers
    <3>5. InStep(r, d)'
      <4>1. r.pc = "removing" => Receipted(d.config.target, r.key)'
        BY <2>2, <3>1, <3>2, <3>4 DEF InStep, Holding
      <4> QED BY <1>1, <2>2, <3>1, <3>2, <3>4, <4>1 DEF InStep, Looking
    <3>6. Newest(store[x])' /\ InStep(run[x], store[x])'
      BY <1>1, <3>4, <3>5 DEF Newest, InStep, Receipted, Loose
    <3> QED BY <1>1, <3>6, Untouched DEF Reread, Busy
  <2>3. CASE ~(/\ Alone(x) /\ store[x].config.target = q.target
               /\ ~Receipted(q.target, q.key) /\ ~Barred(q))
    <3>1. Alone(x) => /\ held'[store[x].config.target] = held[store[x].config.target]
                      /\ \A p \in late' : p.target = store[x].config.target => p \in late
      BY <1>1, <1>2, <2>3, ReceiptAnswers DEF Alone, Targets
    <3> QED BY <1>2, <2>1, <3>1, SourceStays
  <2> QED BY <2>2, <2>3
<1>5. \A x \in Sources : KeysOf(x)' \subseteq KeysOf(x)
  BY <1>1 DEF KeysOf
<1>6. Newer'
  BY <1>1, <1>3, <1>4, <1>5, StoreStays
<1> QED BY <1>1, <1>6 DEF NewerInv

LEMMA CrashNewer ==
  ASSUME CollectorInv, NewerInv, edits = 0, Crash
  PROVE  NewerInv'
<1>1. /\ UNCHANGED <<disk, store, staged, held, receipts, written, edits>>
      /\ \A x \in Sources : run'[x] = NoRun
      /\ \A q \in late' : q \in late \/ \E s \in Sources : At(s, "sending") /\ q = Request(s)
  BY DEF Crash
<1>2. Owned'
  BY <1>1, RequestsOwned
<1>3. ASSUME NEW x \in Sources
      PROVE  /\ Reread(run[x], store[x])'
             /\ Alone(x) => (Newest(store[x]) /\ InStep(run[x], store[x]))'
  <2>1. Reread(run[x], store[x])' /\ InStep(run[x], store[x])'
    BY <1>1 DEF Reread, Busy, InStep, NoRun, Looking, Leading, Holding
  <2>2. Alone(x) => Newest(store[x])'
    BY <1>1, RequestKept
  <2> QED BY <2>1, <2>2
<1>4. \A x \in Sources : KeysOf(x)' \subseteq KeysOf(x)
  BY <1>1 DEF KeysOf, NoRun
<1>5. Newer'
  BY <1>1, <1>2, <1>3, <1>4, StoreStays
<1> QED BY <1>1, <1>5 DEF NewerInv

\* The disk holds nothing that nobody wrote.
LEMMA DiskGrows ==
  ASSUME CollectorInv, NewerInv, NEW f \in Directories, Write(f)
  PROVE  /\ \A e \in Directories : /\ disk[e] \in Nat /\ disk'[e] \in Nat
                                   /\ disk[e] <= disk'[e] /\ disk'[e] <= written'
<1>1. disk \in [Directories -> Files] /\ written \in Files /\ Files \subseteq Nat
  BY BoundsAssumption DEF CollectorInv, World, Files
<1>2. disk' = [disk EXCEPT ![f] = written + 1] /\ written' = written + 1
  BY DEF Write
<1>3. \A e \in Directories : disk[e] \in Nat /\ disk[e] <= written
  BY <1>1 DEF NewerInv
<1>4. written \in Nat
  BY <1>1
<1> QED BY <1>1, <1>2, <1>3, <1>4

LEMMA WriteNewer ==
  ASSUME CollectorInv, NewerInv, edits = 0, NEW f \in Directories, Write(f)
  PROVE  NewerInv'
<1>1. UNCHANGED <<store, staged, run, held, receipts, late, edits>>
  BY DEF Write, localVars
<1>2. Owned'
  BY <1>1 DEF Owned, Serves, NewerInv, Newer
<1>3. ASSUME NEW x \in Sources
      PROVE  /\ Reread(run[x], store[x])'
             /\ Alone(x) => (Newest(store[x]) /\ InStep(run[x], store[x]))'
  BY <1>1, DiskGrows, SourceStays
<1>4. \A x \in Sources : KeysOf(x)' \subseteq KeysOf(x)
  BY <1>1 DEF KeysOf
<1>5. Newer'
  BY <1>1, <1>2, <1>3, <1>4, StoreStays
<1> QED BY <1>5, DiskGrows DEF NewerInv

LEMMA RefusesMoreNewer ==
  ASSUME CollectorInv, NewerInv, RefusesMore
  PROVE  NewerInv'
<1>1. UNCHANGED <<disk, localVars, held, receipts, given, late, written, edits>>
  BY RefusesMoreKeeps
<1> QED BY <1>1 DEF NewerInv, Newer, Owned, Serves, Apart, KeysOf, Reread, Busy, Alone, Newest,
                    InStep, Receipted, Loose, localVars

\* A new source finds its target empty, or shares it.
LEMMA CreateNewer ==
  ASSUME CollectorInv, NewerInv, edits = 0, NEW s \in Sources, NEW c \in Configs, Create(s, c)
  PROVE  NewerInv'
<1> PICK d : d = [Deleted EXCEPT !.config = c]
  OBVIOUS
<1>1. d.config = c /\ d.attempt = NoAttempt
  BY DEF Deleted
<1>2. /\ store[s] = Deleted /\ run[s].pc = "idle"
      /\ UNCHANGED <<disk, staged, run, held, receipts, late, written, edits>>
  BY DEF Create, At, serverVars, boundVars
<1>3. store'[s] = d /\ \A x \in Sources \ {s} : store'[x] = store[x]
  BY <1>2 DEF Create, CollectorInv
<1>4. \A t : ~Serves(s, t)
  BY <1>2, ConfigsAssumption DEF Serves, Deleted
<1>5. \A x \in Sources \ {s} : \A t : Serves(x, t)' <=> Serves(x, t)
  BY <1>3 DEF Serves
<1>6. Owned'
  <2>1. \A x \in Sources : \A t : Serves(x, t) => Serves(x, t)'
    BY <1>4, <1>5
  <2> QED BY <1>2, <2>1 DEF Owned, NewerInv, Newer
<1>7. Apart'
  <2>1. \A x \in Sources : KeysOf(x)' \subseteq KeysOf(x)
    <3>1. KeysOf(s)' \subseteq KeysOf(s)
      BY <1>1, <1>2, <1>3 DEF KeysOf, NoAttempt
    <3>2. \A x \in Sources \ {s} : KeysOf(x)' = KeysOf(x)
      BY <1>2, <1>3 DEF KeysOf
    <3> QED BY <3>1, <3>2
  <2> QED BY <2>1 DEF Apart, NewerInv, Newer
<1>8. ASSUME NEW x \in Sources \ {s}
      PROVE  /\ Reread(run[x], store[x])'
             /\ Alone(x)' => (Newest(store[x]) /\ InStep(run[x], store[x]))'
  <2>1. /\ run'[x] = run[x] /\ store'[x] = store[x]
        /\ \A f \in Directories : disk'[f] \in Nat /\ disk[f] <= disk'[f]
    BY <1>2, <1>3, Numbers
  <2>2. Alone(x)' => Alone(x)
    BY <1>3, <1>4, <1>5 DEF Alone
  <2> QED BY <1>2, <2>1, <2>2, SourceStays
<1>9. Reread(run[s], store[s])' /\ InStep(run[s], store[s])'
  BY <1>2 DEF Reread, Busy, InStep, Looking, Leading, Holding
<1>10. ASSUME Alone(s)' PROVE Newest(store[s])'
  <2> PICK t : t = c.target
    OBVIOUS
  <2>1. t \in Targets /\ c.directory \in Directories
    BY DEF Targets, Directories
  <2>2. \A x \in Sources : ~Serves(x, t)
    BY <1>1, <1>3, <1>4, <1>5, <1>10 DEF Alone
  <2>3. held[t] = 0 /\ \A q \in late : q.target # t
    BY <2>1, <2>2 DEF Owned, NewerInv, Newer
  <2>4. disk[c.directory] \in Nat
    BY <2>1, Numbers
  <2>5. Loose(t)' = {}
    BY <1>2, <2>3 DEF Loose
  <2>6. 0 <= disk[c.directory]
    BY <2>4
  <2> QED BY <1>1, <1>2, <1>3, <2>3, <2>5, <2>6 DEF Newest, NoAttempt
<1>11. Newer'
  BY <1>6, <1>7, <1>8, <1>9, <1>10 DEF Newer
<1> QED BY <1>2, <1>11 DEF NewerInv

LEMMA ToggleNewer ==
  ASSUME CollectorInv, NewerInv, edits = 0, NEW s \in Sources, Toggle(s)
  PROVE  NewerInv'
<1>1. UNCHANGED <<disk, store, staged, run, held, receipts, late, written, edits>>
  BY DEF Toggle, serverVars, boundVars
<1>2. Owned'
  BY <1>1 DEF Owned, Serves, NewerInv, Newer
<1>3. \A x \in Sources : KeysOf(x)' \subseteq KeysOf(x)
  BY <1>1 DEF KeysOf
<1>4. ASSUME NEW x \in Sources
      PROVE  /\ Reread(run[x], store[x])'
             /\ Alone(x) => (Newest(store[x]) /\ InStep(run[x], store[x]))'
  BY <1>1, Numbers, SourceStays
<1>5. Newer'
  BY <1>1, <1>2, <1>3, <1>4, StoreStays
<1> QED BY <1>1, <1>5 DEF NewerInv

\* What the steps do to the disk, the edits and the server.
LEMMA WhatMoves ==
  ASSUME CollectorInv, [Next]_vars
  PROVE  /\ edits' \in {edits, edits + 1}
         /\ UNCHANGED <<disk, written>> \/ \E f \in Directories : Write(f)
         /\ UNCHANGED held \/ (\E s \in Sources : Answered(s)) \/ \E q \in late : ArrivesLate(q)
<1>1. CASE UNCHANGED vars
  BY <1>1 DEF vars, serverVars, boundVars
<1>2. ASSUME NEW s \in Sources, Step(s)
      PROVE  UNCHANGED <<edits, disk, written>> /\ (UNCHANGED held \/ Answered(s))
  <2>1. CASE Execute(s) \/ Resume(s) \/ Restage(s) \/ Scan(s) \/ ScanFails(s) \/ NoteCopying(s)
    BY <2>1 DEF Execute, Resume, Restage, Scan, ScanFails, NoteCopying, serverVars, boundVars,
                Mishap
  <2>2. CASE Copy(s) \/ CopyWaits(s) \/ CopyFails(s) \/ NoteWaiting(s) \/ NoteStaged(s) \/ Skip(s)
    BY <2>2 DEF Copy, CopyWaits, CopyFails, NoteWaiting, NoteStaged, Skip, serverVars, boundVars,
                Mishap
  <2>3. CASE Identify(s) \/ NotePublishing(s) \/ OpenSnapshot(s) \/ Answered(s) \/ Refused(s)
    BY <2>3 DEF Identify, NotePublishing, OpenSnapshot, Answered, Refused, serverVars, boundVars,
                Mishap
  <2>4. CASE Unanswered(s) \/ Trigger(s) \/ Remove(s) \/ Record(s) \/ KeepAttempt(s)
    BY <2>4 DEF Unanswered, Trigger, Remove, Record, KeepAttempt, serverVars, boundVars, Mishap
  <2> QED BY <1>2, <2>1, <2>2, <2>3, <2>4 DEF Step
<1>3. ASSUME NEW s \in Sources, Launch(s) \/ User(s)
      PROVE  UNCHANGED <<disk, written, held>> /\ edits' \in {edits, edits + 1}
  BY <1>3 DEF Launch, User, Delete, Toggle, Create, Edit, serverVars, boundVars
<1>4. ASSUME NEW f \in Directories, Write(f) PROVE UNCHANGED <<edits, held>>
  BY <1>4 DEF Write
<1>5. ASSUME NEW q \in late, ArrivesLate(q) PROVE UNCHANGED <<edits, disk, written>>
  BY <1>5 DEF ArrivesLate, boundVars
<1>6. CASE Crash
  BY <1>6 DEF Crash
<1>7. CASE RefusesMore
  BY <1>7, RefusesMoreKeeps
<1> QED BY <1>1, <1>2, <1>3, <1>4, <1>5, <1>6, <1>7 DEF Next, RefusesMore

LEMMA NewerInit == Init => NewerInv
<1> SUFFICES ASSUME Init PROVE NewerInv
  OBVIOUS
<1>1. \A s \in Sources : ~Alone(s) /\ Reread(run[s], store[s]) /\ KeysOf(s) = {}
  BY ConfigsAssumption DEF Init, Alone, Deleted, Reread, Busy, NoRun, KeysOf, NoAttempt
<1>2. Owned /\ Apart
  BY <1>1 DEF Init, Owned, Apart
<1>3. \A d \in Directories : disk[d] <= written
  BY DEF Init
<1> QED BY <1>1, <1>2, <1>3 DEF NewerInv, Newer

LEMMA NewerNext == CollectorInv /\ NewerInv /\ [Next]_vars => NewerInv'
<1> SUFFICES ASSUME CollectorInv, NewerInv, [Next]_vars PROVE NewerInv'
  OBVIOUS
<1>1. \A f \in Directories : disk'[f] <= written'
  BY WhatMoves, DiskGrows DEF NewerInv
<1>2. CASE edits' # 0
  BY <1>1, <1>2 DEF NewerInv
<1>3. CASE edits' = 0
  <2>1. edits = 0
    BY <1>3, WhatMoves DEF CollectorInv, World
  <2>2. CASE UNCHANGED vars
    BY <2>2 DEF NewerInv, Newer, Owned, Serves, Apart, KeysOf, Reread, Busy, Alone, Newest, InStep,
                Receipted, Loose, vars, localVars, serverVars, boundVars
  <2>3. ASSUME NEW s \in Sources, Launch(s) PROVE NewerInv'
    BY <2>1, <2>3, LaunchNewer
  <2>4. ASSUME NEW s \in Sources, Step(s) PROVE NewerInv'
    BY <2>1, <2>4, ExecuteNewer, ResumeNewer, RestageNewer, ScanNewer, ScanFailsNewer,
       NoteCopyingNewer, CopyNewer, CopyWaitsNewer, CopyFailsNewer, NoteWaitingNewer,
       NoteStagedNewer, SkipNewer, IdentifyNewer, NotePublishingNewer, OpenSnapshotNewer,
       AnsweredNewer, RefusedNewer, UnansweredNewer, TriggerNewer, RemoveNewer, RecordNewer,
       KeepAttemptNewer DEF Step
  <2>5. ASSUME NEW s \in Sources, User(s) PROVE NewerInv'
    <3>1. ~Delete(s) /\ \A c \in Configs : ~Edit(s, c)
      BY <1>3, <2>1 DEF Delete, Edit
    <3> QED BY <2>1, <2>5, <3>1, ToggleNewer, CreateNewer DEF User
  <2>6. ASSUME NEW f \in Directories, Write(f) PROVE NewerInv'
    BY <2>1, <2>6, WriteNewer
  <2>7. ASSUME NEW q \in late, ArrivesLate(q) PROVE NewerInv'
    BY <2>1, <2>7, ArrivesLateNewer
  <2>8. CASE Crash
    BY <2>1, <2>8, CrashNewer
  <2>9. CASE RefusesMore
    BY <2>9, RefusesMoreNewer
  <2> QED BY <2>2, <2>3, <2>4, <2>5, <2>6, <2>7, <2>8, <2>9 DEF Next, RefusesMore
<1> QED BY <1>2, <1>3

LEMMA NewerInvHolds == Spec => []NewerInv
BY CollectorInvHolds, NewerInit, NewerNext, PTL DEF Spec

\* One file of a trusted source replaces another only by being newer.
LEMMA HeldGrows ==
  ASSUME CollectorInv, NewerInv, [Next]_vars, NEW t \in Targets, Trusted(t)
  PROVE  held'[t] >= held[t]
<1>1. edits = 0 /\ held[t] \in Nat
  BY Numbers DEF Trusted
<1>2. PICK s \in Sources : Alone(s) /\ store[s].config.target = t
  BY DEF Trusted, Alone, Serves
<1>3. Newest(store[s]) /\ InStep(run[s], store[s])
  BY <1>1, <1>2, Untouched
<1>4. ASSUME NEW q, Receives(q), q.target = t, UNCHANGED disk, late' \subseteq late,
             ~Receipted(t, q.key), ~Barred(q),
             q.key = store[s].attempt.key, q.file = store[s].attempt.staged, q.file # 0,
             <<q.key, q.file>> \in staged
      PROVE  held[t] <= held'[t]
  <2>1. q.key # NoKey
    BY <1>4, KeysAssumption DEF CollectorInv, World
  <2> QED BY <1>2, <1>3, <1>4, <2>1, Delivers
<1>5. ASSUME NEW x \in Sources, Answered(x) PROVE held'[t] >= held[t]
  <2> PICK q : q = Request(x)
    OBVIOUS
  <2>1. /\ At(x, "sending") /\ Receives(q) /\ ~Barred(q) /\ UNCHANGED <<disk, late>>
    BY <1>5 DEF Answered
  <2>2. CASE q.target # t \/ Receipted(q.target, q.key)
    <3>1. held'[t] = held[t]
      BY <2>1, <2>2, ReceiptAnswers
    <3> QED BY <1>1, <3>1
  <2>3. CASE q.target = t /\ ~Receipted(q.target, q.key)
    <3>1. x = s
      BY <1>1, <1>2, <2>1, <2>3, RequestIs
    <3>2. q.key = run[s].key /\ q.file = run[s].file /\ run[s].pc = "sending"
      BY <1>1, <1>2, <2>1, <3>1, RequestIs DEF At
    <3>3. /\ q.key = store[s].attempt.key /\ q.file = store[s].attempt.staged /\ q.file # 0
          /\ <<q.key, q.file>> \in staged
      BY <1>3, <3>2 DEF InStep, Holding, Leading
    <3>4. held[t] <= held'[t] /\ held'[t] = q.file
      <4>1. held'[t] = q.file
        BY <2>1, <2>3 DEF Receives, ReceiptsFor, Receipted, CollectorInv, World
      <4> QED BY <1>4, <2>1, <2>3, <3>3, <4>1
    <3>5. q.file \in Nat
      BY <3>3, Numbers
    <3> QED BY <1>1, <3>4, <3>5
  <2> QED BY <2>2, <2>3
<1>6. ASSUME NEW q \in late, ArrivesLate(q) PROVE held'[t] >= held[t]
  <2>1. Receives(q) /\ UNCHANGED disk /\ late' \subseteq late
    BY <1>6 DEF ArrivesLate
  <2>2. CASE q.target # t \/ Receipted(q.target, q.key) \/ Barred(q)
    <3>1. held'[t] = held[t]
      BY <2>1, <2>2, ReceiptAnswers
    <3> QED BY <1>1, <3>1
  <2>3. CASE q.target = t /\ ~Receipted(q.target, q.key) /\ ~Barred(q)
    <3>1. q \in Loose(t)
      BY <2>3 DEF Loose
    <3>2. /\ q.key = store[s].attempt.key /\ q.file = store[s].attempt.staged /\ q.file # 0
          /\ <<q.key, q.file>> \in staged
      BY <1>2, <1>3, <3>1 DEF Newest
    <3>3. held[t] <= held'[t] /\ held'[t] = q.file
      <4>1. held'[t] = q.file
        BY <2>1, <2>3 DEF Receives, ReceiptsFor, Receipted, CollectorInv, World
      <4> QED BY <1>4, <2>1, <2>3, <3>2, <4>1
    <3>4. q.file \in Nat
      BY <3>2, Numbers
    <3> QED BY <1>1, <3>3, <3>4
  <2> QED BY <2>2, <2>3
<1> QED BY <1>1, <1>5, <1>6, WhatMoves

\* While nobody edits a source, and one source of the newer recipe serves a
\* target, the file there never grows older: however the file is rewritten
\* during a run, wherever the desktop is killed, and however late a request
\* arrives (execute, uploadTrustedSnapshot and receipts by idempotency key).
THEOREM NeverGoesBack == Spec => NeverBackwards
<1>1. CollectorInv /\ NewerInv /\ [Next]_vars =>
          [\A t \in Targets : Trusted(t) => held'[t] >= held[t]]_vars
  BY HeldGrows
<1> QED BY <1>1, CollectorInvHolds, NewerInvHolds, PTL DEF Spec, NeverBackwards

=============================================================================
