----------------------- MODULE SourceRevisions_proofs -----------------------
(***************************************************************************)
(* Proofs about SourceRevisions: type correctness; the source can always   *)
(* be read; a job keeps the revision it pinned; an answer is the receipt;  *)
(* and the refinement of RefreshPromise.                                   *)
(*                                                                         *)
(* The argument goes through the storage lock: HolderInv says who holds    *)
(* it, StorageInv what it protects, CompareInv why a stale comparison is   *)
(* noticed although requests compare without it.  Every request owns its   *)
(* record, so each of its steps is first reduced to a shape (Goes, Ends,   *)
(* Commits, ...) that the later proofs use instead of the record update.   *)
(***************************************************************************)
EXTENDS SourceRevisions, TLAPS

-----------------------------------------------------------------------------
(* The record of a request, and what the shapes of its updates leave in it. *)

DeliveryPc == {"idle", "received", "new", "unchanged", "waiting", "prepare",
               "publish", "committed", "discard", "recheck"}
DeliveryType ==
    [pc : DeliveryPc, key : Keys \cup {NoKey}, content : Contents \cup {Gone},
     query : {Absent} \cup Nat, base : Revs \cup {NoRev}, config : Nat,
     rev : Revs \cup {NoRev}, job : Jobs \cup {NoJob},
     answer : ReceiptType \cup {NoReceipt}]

Requests == dlv \in [Deliveries -> DeliveryType]

\* Only the record of d changes.
Alone(d) == Requests' /\ \A e \in Deliveries \ {d} : dlv'[e] = dlv[e]

SameFile(d) == dlv'[d].key = dlv[d].key /\ dlv'[d].content = dlv[d].content
SameBase(d) == /\ dlv'[d].query = dlv[d].query /\ dlv'[d].base = dlv[d].base
               /\ dlv'[d].config = dlv[d].config
SameIds(d) == dlv'[d].rev = dlv[d].rev /\ dlv'[d].job = dlv[d].job

Goes(d, pc) ==
    /\ Alone(d) /\ SameFile(d) /\ SameBase(d) /\ SameIds(d)
    /\ dlv'[d].pc = pc /\ dlv'[d].answer = dlv[d].answer

Ends(d, answer) ==
    /\ Alone(d) /\ SameFile(d) /\ dlv'[d].pc = "idle" /\ dlv'[d].answer = answer

Commits(d, answer) ==
    /\ Alone(d) /\ SameFile(d) /\ SameBase(d) /\ SameIds(d)
    /\ dlv'[d].pc = "committed" /\ dlv'[d].answer = answer

LEMMA Replacing ==
  ASSUME Requests, NEW d \in Deliveries, NEW new \in DeliveryType,
         dlv' = [dlv EXCEPT ![d] = new]
  PROVE  Alone(d) /\ dlv'[d] = new
BY DEF Requests, Alone

LEMMA Going ==
  ASSUME Requests, NEW d \in Deliveries, NEW pc \in DeliveryPc,
         dlv' = [dlv EXCEPT ![d].pc = pc]
  PROVE  Goes(d, pc)
<1>1. PICK new : new = [dlv[d] EXCEPT !.pc = pc]
  OBVIOUS
<1>2. dlv' = [dlv EXCEPT ![d] = new]
  BY <1>1
<1>3. dlv[d] \in DeliveryType
  BY DEF Requests
<1>4. /\ new \in DeliveryType /\ new.pc = pc
      /\ new.key = dlv[d].key /\ new.content = dlv[d].content
      /\ new.query = dlv[d].query /\ new.base = dlv[d].base
      /\ new.config = dlv[d].config /\ new.rev = dlv[d].rev /\ new.job = dlv[d].job
      /\ new.answer = dlv[d].answer
  BY <1>1, <1>3 DEF DeliveryType
<1>5. Alone(d) /\ dlv'[d] = new
  BY <1>2, <1>4, Replacing
<1> QED
  BY <1>4, <1>5 DEF Goes, SameFile, SameBase, SameIds

LEMMA Ending ==
  ASSUME Requests, NEW d \in Deliveries, NEW answer \in ReceiptType \cup {NoReceipt},
         Answered(d, answer)
  PROVE  Ends(d, answer)
<1>1. PICK new : new = [NoDelivery EXCEPT !.key = dlv[d].key, !.content = dlv[d].content,
                                          !.answer = answer]
  OBVIOUS
<1>2. dlv' = [dlv EXCEPT ![d] = new]
  BY <1>1 DEF Answered
<1>3. dlv[d].key \in Keys \cup {NoKey} /\ dlv[d].content \in Contents \cup {Gone}
  BY DEF Requests, DeliveryType
<1>5. /\ new \in DeliveryType /\ new.pc = "idle" /\ new.key = dlv[d].key
      /\ new.content = dlv[d].content /\ new.answer = answer
  BY <1>1, <1>3 DEF NoDelivery, DeliveryType, DeliveryPc
<1>6. Alone(d) /\ dlv'[d] = new
  BY <1>2, <1>5, Replacing
<1> QED
  BY <1>5, <1>6 DEF Ends, SameFile

LEMMA Committing ==
  ASSUME Requests, NEW d \in Deliveries, NEW answer \in ReceiptType \cup {NoReceipt},
         dlv' = [dlv EXCEPT ![d].pc = "committed", ![d].answer = answer]
  PROVE  Commits(d, answer)
<1>0. PICK pc \in DeliveryPc : pc = "committed"
  BY DEF DeliveryPc
<1>1. PICK new : new = [dlv[d] EXCEPT !.pc = pc, !.answer = answer]
  OBVIOUS
<1>2. dlv' = [dlv EXCEPT ![d] = new]
  BY <1>0, <1>1 DEF Requests
<1>3. dlv[d] \in DeliveryType
  BY DEF Requests
<1>4. /\ new \in DeliveryType /\ new.pc = pc
      /\ new.key = dlv[d].key /\ new.content = dlv[d].content
      /\ new.query = dlv[d].query /\ new.base = dlv[d].base
      /\ new.config = dlv[d].config /\ new.rev = dlv[d].rev /\ new.job = dlv[d].job
      /\ new.answer = answer
  BY <1>1, <1>3 DEF DeliveryType
<1>5. Alone(d) /\ dlv'[d] = new
  BY <1>2, <1>4, Replacing
<1> QED
  BY <1>0, <1>4, <1>5 DEF Commits, SameFile, SameBase, SameIds

LEMMA Beginning ==
  ASSUME Requests, NEW d \in Deliveries, NEW p \in DeliveryPc, NEW k \in Keys,
         NEW c \in Contents,
         dlv' = [dlv EXCEPT ![d] = [NoDelivery EXCEPT !.pc = p, !.key = k, !.content = c]]
  PROVE  /\ Alone(d) /\ dlv'[d].pc = p /\ dlv'[d].key = k /\ dlv'[d].content = c
         /\ dlv'[d].answer = NoReceipt
<1>1. PICK new : new = [NoDelivery EXCEPT !.pc = p, !.key = k, !.content = c]
  OBVIOUS
<1>2. dlv' = [dlv EXCEPT ![d] = new]
  BY <1>1
<1>4. /\ new \in DeliveryType /\ new.pc = p /\ new.key = k /\ new.content = c
      /\ new.answer = NoReceipt
  BY <1>1 DEF NoDelivery, DeliveryType, DeliveryPc
<1>5. Alone(d) /\ dlv'[d] = new
  BY <1>2, <1>4, Replacing
<1> QED
  BY <1>4, <1>5

LEMMA NoDeliveryRow ==
  /\ NoDelivery \in DeliveryType /\ NoDelivery.pc = "idle"
  /\ NoDelivery.answer = NoReceipt
BY DEF NoDelivery, DeliveryType, DeliveryPc

-----------------------------------------------------------------------------
(* Type correctness, with what the steps of a request rely on.             *)

Typed == TypeOK /\ CarriesInv

CleaningType ==
    [pc : {"idle", "waiting", "rows", "file", "listed"}, todo : SUBSET Revs,
     at : Revs \cup {NoRev}, keep : SUBSET Revs]
DeletionType == [pc : {"idle", "locked", "files"}, paths : SUBSET Revs]

\* TypeOK without the requests, and CarriesInv for one of them.
RestTyped ==
    /\ current \in Revs \cup {NoRev}
    /\ rows \subseteq Revs /\ files \subseteq Revs /\ young \subseteq Revs
    /\ content \in [Revs -> Contents]
    /\ retained \in [Revs -> {"null", "future", "past"}]
    /\ receipts \in [Keys -> ReceiptType \cup {NoReceipt}]
    /\ query \in {Absent} \cup Nat /\ config \in Nat
    /\ status \in [Jobs -> {"none", "done", "deleted"} \cup Active]
    /\ pinned \subseteq Jobs /\ frail \subseteq Jobs
    /\ path \in [Jobs -> Revs \cup {NoRev}]
    /\ wjob \in Jobs \cup {NoJob} /\ wreg \in BOOLEAN
    /\ wreg => wjob \in Jobs
    /\ lock \in Deliveries \cup {Cleaner, Deleter, Nobody}
    /\ clean \in CleaningType /\ del \in DeletionType
    /\ phase \in {"up", "down", "starting"}
    /\ crashes \in 0..MaxCrashes /\ faults \in 0..MaxFaults /\ edits \in 0..MaxEdits
    /\ submitted \in [Keys -> Nat]

CarriesAt(d) ==
    /\ dlv[d].pc # "idle" \/ dlv[d].answer # NoReceipt =>
           dlv[d].key \in Keys /\ dlv[d].content \in Contents
    /\ dlv[d].pc \in Comparing => dlv[d].base \in Revs
    /\ dlv[d].pc \in Holding => dlv[d].rev \in Revs

LEMMA TypedParts == Typed <=> Requests /\ RestTyped /\ \A d \in Deliveries : CarriesAt(d)
BY DEF Typed, TypeOK, CarriesInv, Requests, DeliveryType, DeliveryPc, RestTyped, CarriesAt,
       CleaningType, DeletionType

LEMMA TypedPartsAfter ==
  Typed' <=> Requests' /\ RestTyped' /\ \A d \in Deliveries : CarriesAt(d)'
BY DEF Typed, TypeOK, CarriesInv, Requests, DeliveryType, DeliveryPc, RestTyped, CarriesAt,
       CleaningType, DeletionType

LEMMA TypedAlone ==
  ASSUME Typed, NEW d \in Deliveries, Alone(d), RestTyped', CarriesAt(d)'
  PROVE  Typed'
<1>1. ASSUME NEW e \in Deliveries PROVE CarriesAt(e)'
  <2>1. CASE e = d BY <2>1
  <2>2. CASE e # d
    <3>1. CarriesAt(e) /\ dlv'[e] = dlv[e] BY <2>2, TypedParts DEF Alone
    <3> QED BY <3>1 DEF CarriesAt
  <2> QED BY <2>1, <2>2
<1> QED BY <1>1, TypedPartsAfter DEF Alone

\* What a request knows of its own record at each place.
LEMMA Carried ==
  ASSUME Typed, NEW d \in Deliveries
  PROVE  /\ Requests /\ RestTyped
         /\ dlv[d].pc \in DeliveryPc /\ dlv[d].config \in Nat
         /\ dlv[d].query \in {Absent} \cup Nat
         /\ dlv[d].base \in Revs \cup {NoRev} /\ dlv[d].rev \in Revs \cup {NoRev}
         /\ dlv[d].job \in Jobs \cup {NoJob}
         /\ dlv[d].answer \in ReceiptType \cup {NoReceipt}
         /\ dlv[d].pc # "idle" \/ dlv[d].answer # NoReceipt =>
                dlv[d].key \in Keys /\ dlv[d].content \in Contents
         /\ dlv[d].pc \in Comparing => dlv[d].base \in Revs
         /\ dlv[d].pc \in Holding => dlv[d].rev \in Revs
BY TypedParts DEF Requests, DeliveryType, CarriesAt

LEMMA ReceiptTyped ==
  ASSUME Typed, NEW d \in Deliveries, dlv[d].pc \in Comparing, NEW r \in Revs,
         NEW j \in Jobs \cup {NoJob}, NEW b \in BOOLEAN
  PROVE  /\ Receipt(d, r, j, b) \in ReceiptType /\ Receipt(d, r, j, b) # NoReceipt
         /\ Receipt(d, r, j, b).content = dlv[d].content
         /\ Receipt(d, r, j, b).changed = b
<1>1. dlv[d].content \in Contents /\ dlv[d].query \in {Absent} \cup Nat
  BY Carried DEF Comparing
<1>2. Receipt(d, r, j, b) \in ReceiptType
  BY <1>1 DEF Receipt, ReceiptType
<1> QED
  BY <1>2, ReceiptAssumption DEF Receipt

-----------------------------------------------------------------------------
(* The steps of a request as updates of its record.                        *)

LEMMA LookUpFoundShape ==
  ASSUME Typed, NEW d \in Deliveries, LookUpFound(d)
  PROVE  \/ Ends(d, NoReceipt)
         \/ /\ Ends(d, receipts[dlv[d].key]) /\ receipts[dlv[d].key] # NoReceipt
            /\ receipts[dlv[d].key].content = dlv[d].content
<1>1. dlv[d].key \in Keys /\ Requests
  BY Carried DEF LookUpFound, At
<1>2. receipts[dlv[d].key] \in ReceiptType \cup {NoReceipt}
  BY <1>1, Carried DEF RestTyped
<1>3. \/ Answered(d, NoReceipt)
      \/ /\ Answered(d, receipts[dlv[d].key])
         /\ receipts[dlv[d].key] # NoReceipt
         /\ receipts[dlv[d].key].content = dlv[d].content
  BY DEF LookUpFound
<1> QED BY <1>1, <1>2, <1>3, Ending

LEMMA LookUpMissesShape ==
  ASSUME Typed, NEW d \in Deliveries, LookUpMisses(d)
  PROVE  Goes(d, "new")
BY Carried, Going DEF LookUpMisses, DeliveryPc

Reads(d) ==
    /\ Alone(d) /\ SameFile(d) /\ SameIds(d)
    /\ SourceThere /\ dlv'[d].answer = dlv[d].answer
    /\ dlv'[d].query = QueryFor(dlv[d].key) /\ dlv'[d].base = current
    /\ dlv'[d].pc = IF content[current] = dlv[d].content THEN "unchanged" ELSE "waiting"

LEMMA ReadStateShape ==
  ASSUME Typed, NEW d \in Deliveries, ReadState(d)
  PROVE  Ends(d, NoReceipt) \/ Reads(d)
<1>1. Requests /\ RestTyped
  BY Carried
<1>2. CASE Answered(d, NoReceipt)
  BY <1>1, <1>2, Ending
<1>3. CASE ~Answered(d, NoReceipt)
  <2> DEFINE q == QueryFor(dlv[d].key)
             p == IF content[current] = dlv[d].content THEN "unchanged" ELSE "waiting"
  <2>1. /\ SourceThere
        /\ dlv' = [dlv EXCEPT ![d].query = q, ![d].base = current,
                              ![d].config = config, ![d].pc = p]
    BY <1>3 DEF ReadState
  <2>2. /\ q \in {Absent} \cup Nat /\ p \in DeliveryPc
        /\ current \in Revs \cup {NoRev} /\ config \in Nat
    BY <1>1 DEF RestTyped, QueryFor, DeliveryPc
  <2> HIDE DEF q, p
  <2>3. PICK new : new = [dlv[d] EXCEPT !.query = q, !.base = current, !.config = config,
                                        !.pc = p]
    OBVIOUS
  <2>4. dlv' = [dlv EXCEPT ![d] = new] /\ dlv[d] \in DeliveryType
    BY <1>1, <2>1, <2>3 DEF Requests
  <2>5. /\ new \in DeliveryType /\ new.pc = p
        /\ new.key = dlv[d].key /\ new.content = dlv[d].content
        /\ new.query = q /\ new.base = current
        /\ new.rev = dlv[d].rev /\ new.job = dlv[d].job /\ new.answer = dlv[d].answer
    BY <2>2, <2>3, <2>4 DEF DeliveryType
  <2>6. Alone(d) /\ dlv'[d] = new
    BY <1>1, <2>4, <2>5, Replacing
  <2> QED BY <2>1, <2>5, <2>6 DEF Reads, SameFile, SameIds, q, p
<1> QED BY <1>2, <1>3

LEMMA ConfirmShape ==
  ASSUME Typed, NEW d \in Deliveries, Confirm(d)
  PROVE  /\ Commits(d, Receipt(d, dlv[d].base, NoJob, FALSE))
         /\ Receipt(d, dlv[d].base, NoJob, FALSE) \in ReceiptType
<1>1. dlv[d].pc \in Comparing /\ dlv[d].base \in Revs /\ Requests
  BY Carried DEF Confirm, At, Comparing
<1>2. Receipt(d, dlv[d].base, NoJob, FALSE) \in ReceiptType
  BY <1>1, ReceiptTyped
<1> QED BY <1>1, <1>2, Committing DEF Confirm

LEMMA ConfirmMissesShape ==
  ASSUME Typed, NEW d \in Deliveries, ConfirmMisses(d)
  PROVE  Goes(d, "recheck")
BY Carried, Going DEF ConfirmMisses, DeliveryPc

Reserves(d) ==
    \E r \in Revs, j \in (Jobs \ Foreign) \cup {NoJob} :
        /\ Alone(d) /\ SameFile(d) /\ SameBase(d) /\ dlv'[d].answer = dlv[d].answer
        /\ dlv'[d].pc = "prepare" /\ dlv'[d].rev = r /\ dlv'[d].job = j
        /\ r \notin rows \cup files /\ retained[r] = "null"
        /\ content' = [content EXCEPT ![r] = dlv[d].content]

LEMMA LockShape ==
  ASSUME Typed, NEW d \in Deliveries, Lock(d)
  PROVE  Reserves(d)
<1>1. PICK r \in Revs, j \in (Jobs \ Foreign) \cup {NoJob} :
          /\ r \notin rows \cup files /\ retained[r] = "null"
          /\ dlv' = [dlv EXCEPT ![d].pc = "prepare", ![d].rev = r, ![d].job = j]
          /\ content' = [content EXCEPT ![r] = dlv[d].content]
  BY DEF Lock
<1>2. PICK new : new = [dlv[d] EXCEPT !.pc = "prepare", !.rev = r, !.job = j]
  OBVIOUS
<1>3. Requests /\ dlv' = [dlv EXCEPT ![d] = new] /\ dlv[d] \in DeliveryType
  BY <1>1, <1>2, Carried DEF Requests
<1>4. /\ new \in DeliveryType /\ new.pc = "prepare"
      /\ new.key = dlv[d].key /\ new.content = dlv[d].content
      /\ new.query = dlv[d].query /\ new.base = dlv[d].base
      /\ new.config = dlv[d].config /\ new.rev = r /\ new.job = j
      /\ new.answer = dlv[d].answer
  BY <1>2, <1>3 DEF DeliveryType, DeliveryPc
<1>5. Alone(d) /\ dlv'[d] = new
  BY <1>3, <1>4, Replacing
<1> QED BY <1>1, <1>4, <1>5 DEF Reserves, SameFile, SameBase

LEMMA PrepareShape ==
  ASSUME Typed, NEW d \in Deliveries, Prepare(d)
  PROVE  Goes(d, "publish")
BY Carried, Going DEF Prepare, DeliveryPc

LEMMA PrepareFailsShape ==
  ASSUME Typed, NEW d \in Deliveries, PrepareFails(d)
  PROVE  Ends(d, NoReceipt)
BY Carried, Ending DEF PrepareFails

LEMMA PublishShape ==
  ASSUME Typed, NEW d \in Deliveries, Publish(d)
  PROVE  /\ Commits(d, Receipt(d, dlv[d].rev, dlv[d].job, TRUE))
         /\ Receipt(d, dlv[d].rev, dlv[d].job, TRUE) \in ReceiptType
<1>1. /\ dlv[d].pc \in Comparing /\ dlv[d].rev \in Revs /\ Requests
      /\ dlv[d].job \in Jobs \cup {NoJob}
  BY Carried DEF Publish, At, Comparing, Holding
<1>2. Receipt(d, dlv[d].rev, dlv[d].job, TRUE) \in ReceiptType
  BY <1>1, ReceiptTyped
<1> QED BY <1>1, <1>2, Committing DEF Publish

LEMMA PublishMissesShape ==
  ASSUME Typed, NEW d \in Deliveries, PublishMisses(d)
  PROVE  Goes(d, "discard")
BY Carried, Going DEF PublishMisses, DeliveryPc

LEMMA PublishFaultShape ==
  ASSUME Typed, NEW d \in Deliveries, PublishFault(d)
  PROVE  \/ dlv[d].pc = "publish" /\ Goes(d, "discard")
         \/ dlv[d].pc = "unchanged" /\ Goes(d, "recheck")
BY Carried, Going DEF PublishFault, At, DeliveryPc

LEMMA DiscardShape ==
  ASSUME Typed, NEW d \in Deliveries, Discard(d)
  PROVE  Goes(d, "recheck")
BY Carried, Going DEF Discard, DeliveryPc

LEMMA RecheckShape ==
  ASSUME Typed, NEW d \in Deliveries, Recheck(d)
  PROVE  \/ Ends(d, NoReceipt)
         \/ /\ Ends(d, receipts[dlv[d].key])
            /\ receipts[dlv[d].key] # NoReceipt
            /\ receipts[dlv[d].key].content = dlv[d].content
<1>1. dlv[d].key \in Keys /\ Requests
  BY Carried DEF Recheck, At
<1>2. receipts[dlv[d].key] \in ReceiptType \cup {NoReceipt}
  BY <1>1, Carried DEF RestTyped
<1>3. \/ Answered(d, NoReceipt)
      \/ /\ Answered(d, receipts[dlv[d].key])
         /\ receipts[dlv[d].key] # NoReceipt
         /\ receipts[dlv[d].key].content = dlv[d].content
  BY DEF Recheck, Replayable
<1> QED BY <1>1, <1>2, <1>3, Ending

LEMMA ReplyShape ==
  ASSUME Typed, NEW d \in Deliveries, Reply(d)
  PROVE  Ends(d, dlv[d].answer)
BY Carried, Ending DEF Reply

Begins(d) ==
    /\ Alone(d) /\ dlv'[d].pc = "received" /\ dlv'[d].answer = NoReceipt
    /\ dlv'[d].key \in Keys /\ dlv'[d].content \in Contents

LEMMA DeliverShape ==
  ASSUME Typed, NEW d \in Deliveries, Deliver(d)
  PROVE  Begins(d)
<1>1. PICK k \in Keys, c \in Contents :
          dlv' = [dlv EXCEPT ![d] = [NoDelivery EXCEPT !.pc = "received", !.key = k,
                                                       !.content = c]]
  BY DEF Deliver
<1>2. "received" \in DeliveryPc /\ Requests
  BY Carried DEF DeliveryPc
<1> QED BY <1>1, <1>2, Beginning DEF Begins

LEMMA DroppedShape ==
  ASSUME Typed, NEW d \in Deliveries, Dropped(d)
  PROVE  Alone(d) /\ dlv'[d].pc = "idle" /\ dlv'[d].answer = NoReceipt
BY Carried, Replacing, NoDeliveryRow DEF Dropped

-----------------------------------------------------------------------------
(* Each step keeps the types.                                              *)

LEMMA TypedEnds ==
  ASSUME Typed, NEW d \in Deliveries, NEW a, Ends(d, a), dlv[d].pc # "idle", RestTyped'
  PROVE  Typed'
<1>1. CarriesAt(d)'
  BY Carried DEF Ends, SameFile, CarriesAt, Comparing, Holding
<1> QED BY <1>1, TypedAlone DEF Ends

LEMMA TypedGoes ==
  ASSUME Typed, NEW d \in Deliveries, NEW pc, Goes(d, pc), dlv[d].pc # "idle",
         pc \in Comparing => dlv[d].pc \in Comparing,
         pc \in Holding => dlv[d].pc \in Holding, RestTyped'
  PROVE  Typed'
<1>1. CarriesAt(d)'
  BY Carried DEF Goes, SameFile, SameBase, SameIds, CarriesAt
<1> QED BY <1>1, TypedAlone DEF Goes

LEMMA TypedCommits ==
  ASSUME Typed, NEW d \in Deliveries, NEW a, Commits(d, a), dlv[d].pc # "idle", RestTyped'
  PROVE  Typed'
<1>1. CarriesAt(d)'
  BY Carried DEF Commits, SameFile, CarriesAt, Comparing, Holding
<1> QED BY <1>1, TypedAlone DEF Commits

LEMMA TypeRefresh ==
  ASSUME Typed, NEW d \in Deliveries,
         Refresh(d) \/ Deliver(d) \/ PublishFault(d) \/ Dropped(d)
  PROVE  Typed'
<1> USE DEF revisionVars, tableVars, jobVars, boundVars
<1>1. CASE LookUpFound(d)
  <2>1. RestTyped' BY <1>1, Carried DEF LookUpFound, RestTyped
  <2>2. dlv[d].pc # "idle" BY <1>1 DEF LookUpFound, At
  <2> QED BY <1>1, <2>1, <2>2, LookUpFoundShape, TypedEnds
<1>2. CASE LookUpMisses(d)
  <2>1. RestTyped' BY <1>2, Carried DEF LookUpMisses, RestTyped
  <2>2. dlv[d].pc # "idle" BY <1>2 DEF LookUpMisses, At
  <2> QED BY <1>2, <2>1, <2>2, LookUpMissesShape, TypedGoes DEF LookUpMisses, At, Comparing, Holding
<1>3. CASE ReadState(d)
  <2>1. RestTyped' BY <1>3, Carried DEF ReadState, RestTyped
  <2>2. CASE Ends(d, NoReceipt)
    <3>1. dlv[d].pc # "idle" BY <1>3 DEF ReadState, At
    <3> QED BY <2>1, <2>2, <3>1, TypedEnds
  <2>3. CASE Reads(d)
    <3>1. CarriesAt(d)'
      BY <1>3, <2>3, Carried DEF ReadState, At, CarriesAt, Reads, SameFile, Holding, RestTyped,
         SourceThere
    <3> QED BY <2>1, <2>3, <3>1, TypedAlone DEF Reads
  <2> QED BY <1>3, <2>2, <2>3, ReadStateShape
<1>4. CASE Confirm(d)
  <2>1. /\ dlv[d].pc \in Comparing /\ dlv[d].key \in Keys /\ dlv[d].rev \in Revs \cup {NoRev}
    BY <1>4, Carried DEF Confirm, At, Comparing
  <2>2. RestTyped'
    BY <1>4, <2>1, Carried, ConfirmShape DEF Confirm, RestTyped
  <2> QED BY <1>4, <2>1, <2>2, ConfirmShape, TypedCommits DEF Comparing
<1>5. CASE ConfirmMisses(d)
  <2>1. RestTyped' BY <1>5, Carried DEF ConfirmMisses, RestTyped
  <2>2. dlv[d].pc # "idle" BY <1>5 DEF ConfirmMisses, At
  <2> QED BY <1>5, <2>1, <2>2, ConfirmMissesShape, TypedGoes DEF ConfirmMisses, At, Comparing, Holding
<1>6. CASE Lock(d)
  <2>1. PICK r \in Revs, j \in (Jobs \ Foreign) \cup {NoJob} :
           /\ Alone(d) /\ SameFile(d) /\ SameBase(d) /\ dlv'[d].answer = dlv[d].answer
           /\ dlv'[d].pc = "prepare" /\ dlv'[d].rev = r
           /\ content' = [content EXCEPT ![r] = dlv[d].content]
    BY <1>6, LockShape DEF Reserves
  <2>2. /\ dlv[d].key \in Keys /\ dlv[d].content \in Contents /\ dlv[d].base \in Revs
    BY <1>6, Carried DEF Lock, At, Comparing
  <2>3. RestTyped'
    BY <1>6, <2>1, <2>2, Carried DEF Lock, RestTyped
  <2>4. CarriesAt(d)'
    BY <2>1, <2>2 DEF CarriesAt, SameFile, SameBase
  <2> QED BY <2>1, <2>3, <2>4, TypedAlone
<1>7. CASE Prepare(d)
  <2>1. dlv[d].pc = "prepare" /\ dlv[d].rev \in Revs
    BY <1>7, Carried DEF Prepare, At, Holding
  <2>2. RestTyped'
    BY <1>7, <2>1, Carried DEF Prepare, RestTyped
  <2> QED BY <1>7, <2>1, <2>2, PrepareShape, TypedGoes DEF Comparing, Holding
<1>8. CASE PrepareFails(d)
  <2>1. RestTyped' BY <1>8, Carried DEF PrepareFails, RestTyped
  <2>2. dlv[d].pc # "idle" BY <1>8 DEF PrepareFails, At
  <2> QED BY <1>8, <2>1, <2>2, PrepareFailsShape, TypedEnds
<1>9. CASE Publish(d)
  <2>1. /\ dlv[d].pc \in Comparing /\ dlv[d].key \in Keys /\ dlv[d].rev \in Revs
        /\ dlv[d].job \in Jobs \cup {NoJob}
    BY <1>9, Carried DEF Publish, At, Comparing, Holding
  <2>2. RestTyped'
    <3>1. receipts' \in [Keys -> ReceiptType \cup {NoReceipt}]
      BY <1>9, <2>1, Carried, PublishShape DEF Publish, RestTyped
    <3>2. /\ status' \in [Jobs -> {"none", "done", "deleted"} \cup Active]
          /\ pinned' \subseteq Jobs /\ path' \in [Jobs -> Revs \cup {NoRev}]
          /\ submitted' \in [Keys -> Nat]
      BY <1>9, <2>1, Carried DEF Publish, RestTyped, Active
    <3>3. rows' \subseteq Revs /\ current' \in Revs /\ config' \in Nat
      BY <1>9, <2>1, Carried DEF Publish, RestTyped
    <3>5. retained' \in [Revs -> {"null", "future", "past"}]
      <4>1. retained \in [Revs -> {"null", "future", "past"}]
        BY Carried DEF RestTyped
      <4>2. retained' = [retained EXCEPT ![current] = IF retained[current] = "null"
                                                     THEN "future" ELSE retained[current]]
        BY <1>9 DEF Publish
      <4> QED BY <4>1, <4>2
    <3>4. UNCHANGED <<files, young, content, query, wjob, wreg, frail, lock, clean, del,
                      boundVars>>
      BY <1>9 DEF Publish
    <3> QED BY <3>1, <3>2, <3>3, <3>4, <3>5, Carried DEF RestTyped
  <2> QED BY <1>9, <2>1, <2>2, PublishShape, TypedCommits DEF Comparing
<1>10. CASE PublishMisses(d)
  <2>1. RestTyped' BY <1>10, Carried DEF PublishMisses, RestTyped
  <2>2. dlv[d].pc # "idle" BY <1>10 DEF PublishMisses, At
  <2> QED BY <1>10, <2>1, <2>2, PublishMissesShape, TypedGoes DEF PublishMisses, At, Comparing, Holding
<1>11. CASE Discard(d)
  <2>1. RestTyped' BY <1>11, Carried DEF Discard, RestTyped
  <2>2. dlv[d].pc # "idle" BY <1>11 DEF Discard, At
  <2> QED BY <1>11, <2>1, <2>2, DiscardShape, TypedGoes DEF Discard, At, Comparing, Holding
<1>12. CASE Recheck(d)
  <2>1. RestTyped' BY <1>12, Carried DEF Recheck, RestTyped, Unlocked
  <2>2. dlv[d].pc # "idle" BY <1>12 DEF Recheck, At
  <2> QED BY <1>12, <2>1, <2>2, RecheckShape, TypedEnds
<1>13. CASE Reply(d)
  <2>1. RestTyped' BY <1>13, Carried DEF Reply, RestTyped, Unlocked
  <2>2. dlv[d].pc # "idle" BY <1>13 DEF Reply, At
  <2> QED BY <1>13, <2>1, <2>2, ReplyShape, TypedEnds
<1>14. CASE Deliver(d)
  <2>1. RestTyped' BY <1>14, Carried DEF Deliver, RestTyped
  <2>2. CarriesAt(d)'
    BY <1>14, DeliverShape DEF CarriesAt, Begins, Comparing, Holding
  <2> QED BY <1>14, <2>1, <2>2, DeliverShape, TypedAlone DEF Begins
<1>15. CASE PublishFault(d)
  <2>1. RestTyped' BY <1>15, Carried, BoundsAssumption DEF PublishFault, RestTyped
  <2> QED BY <1>15, <2>1, PublishFaultShape, TypedGoes DEF Comparing, Holding
<1>16. CASE Dropped(d)
  <2>1. RestTyped' BY <1>16, Carried DEF Dropped, RestTyped, Unlocked
  <2>2. CarriesAt(d)'
    BY <1>16, DroppedShape DEF CarriesAt, Comparing, Holding
  <2> QED BY <1>16, <2>1, <2>2, DroppedShape, TypedAlone
<1> QED
  BY <1>1, <1>2, <1>3, <1>4, <1>5, <1>6, <1>7, <1>8, <1>9, <1>10, <1>11, <1>12,
     <1>13, <1>14, <1>15, <1>16 DEF Refresh

\* The steps of everybody else leave the requests alone, or drop them all.
StillTyped ==
    RestTyped' /\ (UNCHANGED dlv \/ dlv' = [d \in Deliveries |-> NoDelivery])

LEMMA TypeJobs ==
  ASSUME RestTyped,
         \/ \E j \in Jobs : Enqueue(j) \/ CancelJob(j) \/ \E i \in Jobs : Retry(i, j)
         \/ Worker
  PROVE  StillTyped
<1> USE DEF StillTyped, RestTyped, Active, CleanerAt, DeletionAt,
            SourceThere, revisionVars, tableVars, jobVars, boundVars
<1>1. ASSUME NEW j \in Jobs, Enqueue(j) PROVE StillTyped
  BY <1>1 DEF Enqueue
<1>2. ASSUME NEW j \in Jobs, CancelJob(j) PROVE StillTyped
  BY <1>2 DEF CancelJob
<1>3. ASSUME NEW i \in Jobs, NEW j \in Jobs, Retry(i, j) PROVE StillTyped
  BY <1>3 DEF Retry
<1>4. ASSUME NEW j \in Jobs, Claim(j) PROVE StillTyped
  BY <1>4 DEF Claim
<1>5. CASE Register BY <1>5 DEF Register
<1>6. CASE Finish BY <1>6 DEF Finish
<1>7. CASE Release BY <1>7 DEF Release
<1> QED
  BY <1>1, <1>2, <1>3, <1>4, <1>5, <1>6, <1>7 DEF Worker

LEMMA TypeClean ==
  ASSUME RestTyped, Clean \/ CleanLock \/ CleanFails
  PROVE  StillTyped
<1> USE DEF StillTyped, RestTyped, CleaningType, DeletionType, Active, CleanerAt, DeletionAt,
            SourceThere, revisionVars, tableVars, jobVars, boundVars
<1>1. CASE CleanBegin
  <2>1. clean' \in CleaningType
    BY <1>1 DEF CleanBegin, NoCleaning
  <2> HIDE DEF CleaningType, DeletionType
  <2> QED BY <1>1, <2>1 DEF CleanBegin
<1>2. CASE CleanLock
  <2>1. clean' \in CleaningType
    <3>1. CASE clean' = NoCleaning BY <3>1 DEF NoCleaning
    <3>2. CASE clean' = [clean EXCEPT !.pc = "rows", !.todo = {r \in rows : MayRemove(r)}]
      BY <3>2
    <3> QED BY <1>2, <3>1, <3>2 DEF CleanLock
  <2> HIDE DEF CleaningType
  <2> QED BY <1>2, <2>1 DEF CleanLock
<1>3. ASSUME NEW r \in Revs, CleanRow(r) PROVE StillTyped
  <2>1. clean' \in CleaningType
    <3> DEFINE left == clean.todo \ {r}
    <3>1. left \subseteq Revs
      OBVIOUS
    <3>2. \/ clean' = [clean EXCEPT !.pc = "file", !.todo = left, !.at = r]
          \/ clean' = [clean EXCEPT !.todo = left]
      BY <1>3 DEF CleanRow
    <3> HIDE DEF left
    <3>3. CASE clean' = [clean EXCEPT !.pc = "file", !.todo = left, !.at = r]
      BY <3>1, <3>3
    <3>4. CASE clean' = [clean EXCEPT !.todo = left]
      BY <3>1, <3>4
    <3> QED BY <3>2, <3>3, <3>4
  <2> HIDE DEF CleaningType
  <2>2. rows' \subseteq Revs /\ pinned' \subseteq Jobs
    BY <1>3 DEF CleanRow
  <2> QED BY <1>3, <2>1, <2>2 DEF CleanRow
<1>4. CASE CleanFile
  <2>1. clean' \in CleaningType
    BY <1>4 DEF CleanFile, NoCleaning
  <2> HIDE DEF CleaningType, DeletionType
  <2> QED BY <1>4, <2>1 DEF CleanFile
<1>5. CASE CleanScan
  <2>1. clean' \in CleaningType
    BY <1>5 DEF CleanScan, NoCleaning
  <2> HIDE DEF CleaningType, DeletionType
  <2> QED BY <1>5, <2>1 DEF CleanScan
<1>6. CASE CleanOrphans
  <2>1. clean' \in CleaningType
    BY <1>6 DEF CleanOrphans, NoCleaning
  <2> HIDE DEF CleaningType, DeletionType
  <2> QED BY <1>6, <2>1 DEF CleanOrphans, Orphaned
<1>7. CASE CleanFails
  <2>1. clean' \in CleaningType
    BY <1>7 DEF CleanFails, NoCleaning
  <2> HIDE DEF CleaningType, DeletionType
  <2> QED BY <1>7, <2>1, BoundsAssumption DEF CleanFails
<1> QED
  BY <1>1, <1>2, <1>3, <1>4, <1>5, <1>6, <1>7 DEF Clean

LEMMA TypeRest ==
  ASSUME RestTyped,
         \/ DeleteLock \/ DeleteRow \/ DeleteFiles \/ DeletionDropped
         \/ Edit \/ HourPasses \/ (\E r \in Revs : RetentionEnds(r)) \/ Crash \/ Start
  PROVE  StillTyped
<1> USE DEF StillTyped, RestTyped, CleaningType, DeletionType, Active, CleanerAt, DeletionAt,
            SourceThere, revisionVars, tableVars, jobVars, boundVars
<1>1. CASE DeleteLock BY <1>1 DEF DeleteLock
<1>2. CASE DeleteRow BY <1>2 DEF DeleteRow
<1>3. CASE DeleteFiles BY <1>3 DEF DeleteFiles, NoDeletion
<1>4. CASE DeletionDropped BY <1>4 DEF DeletionDropped, NoDeletion
<1>5. CASE Edit BY <1>5, BoundsAssumption DEF Edit
<1>6. CASE HourPasses BY <1>6 DEF HourPasses
<1>7. ASSUME NEW r \in Revs, RetentionEnds(r) PROVE StillTyped
  BY <1>7 DEF RetentionEnds
<1>8. CASE Crash
  <2>1. dlv' = [d \in Deliveries |-> NoDelivery] BY <1>8 DEF Crash
  <2>2. clean' \in CleaningType /\ del' \in DeletionType
    BY <1>8 DEF Crash, NoCleaning, NoDeletion
  <2> HIDE DEF CleaningType, DeletionType
  <2>3. crashes' \in 0..MaxCrashes BY <1>8, BoundsAssumption DEF Crash
  <2>4. /\ wjob' \in Jobs \cup {NoJob} /\ wreg' \in BOOLEAN /\ (wreg' => wjob' \in Jobs)
        /\ lock' \in Deliveries \cup {Cleaner, Deleter, Nobody}
        /\ phase' \in {"up", "down", "starting"}
    BY <1>8 DEF Crash
  <2>5. RestTyped' BY <1>8, <2>2, <2>3, <2>4 DEF Crash
  <2> QED BY <2>1, <2>5
<1>9. CASE Start BY <1>9 DEF Start
<1> QED
  BY <1>1, <1>2, <1>3, <1>4, <1>5, <1>6, <1>7, <1>8, <1>9

LEMMA StillTypedStep ==
  ASSUME Typed, StillTyped
  PROVE  Typed'
<1>1. CASE UNCHANGED dlv
  BY <1>1, TypedParts, TypedPartsAfter DEF StillTyped, Requests, CarriesAt
<1>2. CASE dlv' = [d \in Deliveries |-> NoDelivery]
  <2>1. Requests'
    BY <1>2, NoDeliveryRow DEF Requests
  <2>2. \A d \in Deliveries : CarriesAt(d)'
    BY <1>2, NoDeliveryRow DEF CarriesAt, Comparing, Holding
  <2> QED BY <2>1, <2>2, TypedPartsAfter DEF StillTyped
<1> QED BY <1>1, <1>2 DEF StillTyped

LEMMA TypeStep == Typed /\ [Next]_vars => Typed'
<1> SUFFICES ASSUME Typed, [Next]_vars PROVE Typed'
  OBVIOUS
<1>1. RestTyped
  BY TypedParts
<1>2. CASE UNCHANGED vars
  <2>1. StillTyped
    BY <1>1, <1>2 DEF StillTyped, RestTyped, vars, revisionVars, tableVars, jobVars, boundVars
  <2> QED BY <2>1, StillTypedStep
<1>3. CASE \E d \in Deliveries : Deliver(d) \/ Refresh(d) \/ PublishFault(d) \/ Dropped(d)
  BY <1>3, TypeRefresh
<1>4. CASE \/ \E j \in Jobs : Enqueue(j) \/ CancelJob(j) \/ \E i \in Jobs : Retry(i, j)
           \/ Worker
  BY <1>1, <1>4, TypeJobs, StillTypedStep
<1>5. CASE Clean \/ CleanLock \/ CleanFails
  BY <1>1, <1>5, TypeClean, StillTypedStep
<1>6. CASE \/ DeleteLock \/ DeleteRow \/ DeleteFiles \/ DeletionDropped
           \/ Edit \/ HourPasses \/ (\E r \in Revs : RetentionEnds(r)) \/ Crash \/ Start
  BY <1>1, <1>6, TypeRest, StillTypedStep
<1> QED BY <1>2, <1>3, <1>4, <1>5, <1>6 DEF Next

LEMMA TypedInvariant == Spec => []Typed
<1>1. Init => Typed
  <2> SUFFICES ASSUME Init PROVE Typed
    OBVIOUS
  <2>0. clean \in CleaningType /\ del \in DeletionType
    BY DEF Init, NoCleaning, NoDeletion, CleaningType, DeletionType
  <2>3. /\ current \in Revs \cup {NoRev}
        /\ rows \subseteq Revs /\ files \subseteq Revs /\ young \subseteq Revs
    BY RevsAssumption DEF Init
  <2>4. /\ content \in [Revs -> Contents]
        /\ retained \in [Revs -> {"null", "future", "past"}]
    BY ContentsAssumption DEF Init
  <2>5. /\ receipts \in [Keys -> ReceiptType \cup {NoReceipt}]
        /\ query \in {Absent} \cup Nat /\ config \in Nat
        /\ status \in [Jobs -> {"none", "done", "deleted"} \cup Active]
    BY DEF Init
  <2>6. /\ pinned \subseteq Jobs /\ frail \subseteq Jobs
        /\ path \in [Jobs -> Revs \cup {NoRev}]
        /\ wjob \in Jobs \cup {NoJob} /\ wreg \in BOOLEAN
        /\ wreg => wjob \in Jobs
    BY DEF Init
  <2>7. /\ lock \in Deliveries \cup {Cleaner, Deleter, Nobody}
        /\ phase \in {"up", "down", "starting"}
    BY DEF Init
  <2>8. /\ crashes \in 0..MaxCrashes /\ faults \in 0..MaxFaults /\ edits \in 0..MaxEdits
        /\ submitted \in [Keys -> Nat]
    BY BoundsAssumption DEF Init
  <2>1. RestTyped
    BY <2>0, <2>3, <2>4, <2>5, <2>6, <2>7, <2>8 DEF RestTyped
  <2>2. Requests /\ \A d \in Deliveries : CarriesAt(d)
    BY NoDeliveryRow DEF Init, Requests, CarriesAt, Comparing, Holding
  <2> QED BY <2>1, <2>2, TypedParts
<1> QED BY <1>1, TypeStep, PTL DEF Spec

\* Every reachable state is well typed: a receipt is complete, a request that got
\* past its first look-up carries a key and a file, the worker a job.
THEOREM RevisionsTypeCorrect == Spec => []TypeOK
BY TypedInvariant, PTL DEF Typed

-----------------------------------------------------------------------------
(* Whoever is between taking the storage lock and giving it back holds it.   *)

LEMMA HolderAlone ==
  ASSUME HolderInv, NEW d \in Deliveries, Alone(d), UNCHANGED <<clean, del>>,
         dlv'[d].pc \in Holding => lock' = d,
         lock' = lock \/ lock \in {d, Nobody}
  PROVE  HolderInv'
<1>1. ASSUME NEW e \in Deliveries, dlv'[e].pc \in Holding PROVE lock' = e
  BY <1>1, HoldersAssumption DEF HolderInv, Alone
<1>2. clean.pc \in {"rows", "file", "listed"} => lock' = Cleaner
  BY HoldersAssumption DEF HolderInv
<1>3. del.pc # "idle" => lock' = Deleter
  BY HoldersAssumption DEF HolderInv
<1> QED BY <1>1, <1>2, <1>3 DEF HolderInv

LEMMA HolderRefresh ==
  ASSUME Typed, HolderInv, NEW d \in Deliveries,
         Refresh(d) \/ Deliver(d) \/ PublishFault(d) \/ Dropped(d)
  PROVE  HolderInv'
<1> USE DEF At, Goes, Ends, Commits, Reads, Reserves, Begins, Holding, HolderInv,
            Unlocked, revisionVars, tableVars, jobVars, boundVars, CleanerAt,
            DeletionAt
<1>1. CASE LookUpFound(d) BY <1>1, LookUpFoundShape, HolderAlone DEF LookUpFound, Answered, QueryFor
<1>2. CASE LookUpMisses(d) BY <1>2, LookUpMissesShape, HolderAlone DEF LookUpMisses
<1>3. CASE ReadState(d) BY <1>3, ReadStateShape, HolderAlone DEF ReadState, Answered, QueryFor
<1>4. CASE Confirm(d) BY <1>4, ConfirmShape, HolderAlone DEF Confirm, MayConfirm, Receipt
<1>5. CASE ConfirmMisses(d) BY <1>5, ConfirmMissesShape, HolderAlone DEF ConfirmMisses, MayConfirm
<1>6. CASE Lock(d) BY <1>6, LockShape, HolderAlone DEF Lock
<1>7. CASE Prepare(d) BY <1>7, PrepareShape, HolderAlone DEF Prepare
<1>8. CASE PrepareFails(d) BY <1>8, PrepareFailsShape, HolderAlone DEF PrepareFails, Answered
<1>9. CASE Publish(d) BY <1>9, PublishShape, HolderAlone DEF Publish, MayPublish, Receipt
<1>10. CASE PublishMisses(d) BY <1>10, PublishMissesShape, HolderAlone DEF PublishMisses, MayPublish
<1>11. CASE Discard(d) BY <1>11, DiscardShape, HolderAlone DEF Discard
<1>12. CASE Recheck(d) BY <1>12, RecheckShape, HolderAlone DEF Recheck, Answered, Replayable, Unlocked
<1>13. CASE Reply(d) BY <1>13, ReplyShape, HolderAlone DEF Reply, Answered, Unlocked
<1>14. CASE Deliver(d) BY <1>14, DeliverShape, HolderAlone DEF Deliver
<1>15. CASE PublishFault(d) BY <1>15, PublishFaultShape, HolderAlone DEF PublishFault
<1>16. CASE Dropped(d) BY <1>16, DroppedShape, HolderAlone DEF Dropped, Unlocked
<1> QED
  BY <1>1, <1>2, <1>3, <1>4, <1>5, <1>6, <1>7, <1>8, <1>9, <1>10, <1>11, <1>12,
     <1>13, <1>14, <1>15, <1>16 DEF Refresh

LEMMA HolderJobs ==
  ASSUME Typed, HolderInv,
         \/ \E j \in Jobs : Enqueue(j) \/ CancelJob(j) \/ \E i \in Jobs : Retry(i, j)
         \/ Worker
  PROVE  HolderInv'
<1> USE DEF At, Goes, Ends, Commits, Reads, Reserves, Begins, Holding, HolderInv,
            Unlocked, revisionVars, tableVars, jobVars, boundVars, CleanerAt,
            DeletionAt
<1>1. ASSUME NEW j \in Jobs, Enqueue(j) PROVE HolderInv'
  BY <1>1 DEF Enqueue
<1>2. ASSUME NEW j \in Jobs, CancelJob(j) PROVE HolderInv'
  BY <1>2 DEF CancelJob
<1>3. ASSUME NEW i \in Jobs, NEW j \in Jobs, Retry(i, j) PROVE HolderInv'
  BY <1>3 DEF Retry
<1>4. ASSUME NEW j \in Jobs, Claim(j) PROVE HolderInv'
  BY <1>4 DEF Claim
<1>5. CASE Register BY <1>5 DEF Register
<1>6. CASE Finish BY <1>6 DEF Finish
<1>7. CASE Release BY <1>7 DEF Release
<1> QED
  BY <1>1, <1>2, <1>3, <1>4, <1>5, <1>6, <1>7 DEF Worker

LEMMA HolderClean ==
  ASSUME Typed, HolderInv, Clean \/ CleanLock \/ CleanFails
  PROVE  HolderInv'
<1> USE DEF At, Goes, Ends, Commits, Reads, Reserves, Begins, Holding, HolderInv,
            Unlocked, revisionVars, tableVars, jobVars, boundVars, CleanerAt,
            DeletionAt
<1>1. CASE CleanBegin BY <1>1, HoldersAssumption DEF CleanBegin
<1>2. CASE CleanLock BY <1>2, HoldersAssumption DEF CleanLock, MayRemove, NoCleaning
<1>3. ASSUME NEW r \in Revs, CleanRow(r) PROVE HolderInv'
  BY <1>3, HoldersAssumption DEF CleanRow, MayRemove
<1>4. CASE CleanFile BY <1>4, HoldersAssumption DEF CleanFile
<1>5. CASE CleanScan BY <1>5, HoldersAssumption DEF CleanScan
<1>6. CASE CleanOrphans BY <1>6, HoldersAssumption DEF CleanOrphans, Orphaned, NoCleaning
<1>7. CASE CleanFails BY <1>7, HoldersAssumption DEF CleanFails, NoCleaning
<1> QED
  BY <1>1, <1>2, <1>3, <1>4, <1>5, <1>6, <1>7 DEF Clean

LEMMA HolderRest ==
  ASSUME Typed, HolderInv,
         \/ DeleteLock \/ DeleteRow \/ DeleteFiles \/ DeletionDropped
         \/ Edit \/ HourPasses \/ (\E r \in Revs : RetentionEnds(r)) \/ Crash \/ Start
  PROVE  HolderInv'
<1> USE DEF At, Goes, Ends, Commits, Reads, Reserves, Begins, Holding, HolderInv,
            Unlocked, revisionVars, tableVars, jobVars, boundVars, CleanerAt,
            DeletionAt
<1>1. CASE DeleteLock BY <1>1, HoldersAssumption DEF DeleteLock
<1>2. CASE DeleteRow BY <1>2, HoldersAssumption DEF DeleteRow
<1>3. CASE DeleteFiles BY <1>3, HoldersAssumption DEF DeleteFiles, NoDeletion
<1>4. CASE DeletionDropped BY <1>4, HoldersAssumption DEF DeletionDropped, NoDeletion
<1>5. CASE Edit BY <1>5, HoldersAssumption DEF Edit
<1>6. CASE HourPasses BY <1>6, HoldersAssumption DEF HourPasses
<1>7. ASSUME NEW r \in Revs, RetentionEnds(r) PROVE HolderInv'
  BY <1>7, HoldersAssumption DEF RetentionEnds
<1>8. CASE Crash BY <1>8 DEF Crash, NoDelivery, NoCleaning, NoDeletion
<1>9. CASE Start BY <1>9, HoldersAssumption DEF Start
<1> QED
  BY <1>1, <1>2, <1>3, <1>4, <1>5, <1>6, <1>7, <1>8, <1>9

LEMMA HolderStep == Typed /\ HolderInv /\ [Next]_vars => HolderInv'
<1>1. ASSUME HolderInv, UNCHANGED vars PROVE HolderInv'
  BY <1>1 DEF HolderInv, vars
<1> QED
  BY <1>1, HolderRefresh, HolderJobs, HolderClean, HolderRest DEF Next

LEMMA HolderInvariant == Spec => []HolderInv
<1>1. Init => HolderInv
  BY DEF Init, HolderInv, Holding, NoDelivery, NoCleaning, NoDeletion
<1> QED BY <1>1, TypedInvariant, HolderStep, PTL DEF Spec

-----------------------------------------------------------------------------
(* Rows keep their files: nothing removes a file that a row names.           *)

LEMMA StorageAlone ==
  ASSUME StorageInv, NEW d \in Deliveries, Alone(d),
         UNCHANGED <<current, rows, clean, del>>, rows \subseteq files',
         \A e \in Deliveries \ {d} : dlv[e].pc = "publish" => dlv[e].rev \in files',
         dlv'[d].pc \in Holding => dlv'[d].rev \notin rows,
         dlv'[d].pc = "publish" => dlv'[d].rev \in files'
  PROVE  StorageInv'
<1>1. ASSUME NEW e \in Deliveries
      PROVE  /\ dlv'[e].pc \in Holding => dlv'[e].rev \notin rows'
             /\ dlv'[e].pc = "publish" => dlv'[e].rev \in files'
  BY DEF StorageInv, Alone
<1> QED BY <1>1 DEF StorageInv, SourceThere

\* Nobody but the holder of the lock is between taking it and giving it back.
LEMMA OneHolder ==
  ASSUME HolderInv, NEW d \in Deliveries, lock = d
  PROVE  /\ \A e \in Deliveries \ {d} : dlv[e].pc \notin Holding
         /\ clean.pc \notin {"rows", "file", "listed"} /\ del.pc = "idle"
BY HoldersAssumption DEF HolderInv

LEMMA NoRequestHolds ==
  ASSUME HolderInv, lock \notin Deliveries
  PROVE  \A e \in Deliveries : dlv[e].pc \notin Holding
BY DEF HolderInv

LEMMA StorageRefresh ==
  ASSUME Typed, HolderInv, StorageInv, NEW d \in Deliveries,
         Refresh(d) \/ Deliver(d) \/ PublishFault(d) \/ Dropped(d)
  PROVE  StorageInv'
<1> USE DEF At, Goes, Ends, Commits, Reads, Reserves, Begins, SameIds, Holding,
            StorageInv, revisionVars, tableVars, jobVars, boundVars
<1>1. CASE LookUpFound(d) BY <1>1, LookUpFoundShape, StorageAlone DEF LookUpFound, Answered, QueryFor
<1>2. CASE LookUpMisses(d) BY <1>2, LookUpMissesShape, StorageAlone DEF LookUpMisses
<1>3. CASE ReadState(d) BY <1>3, ReadStateShape, StorageAlone DEF ReadState, Answered, QueryFor
<1>4. CASE Confirm(d) BY <1>4, ConfirmShape, StorageAlone DEF Confirm, MayConfirm, Receipt
<1>5. CASE ConfirmMisses(d) BY <1>5, ConfirmMissesShape, StorageAlone DEF ConfirmMisses, MayConfirm
<1>6. CASE Lock(d)
  <2>1. UNCHANGED <<current, rows, files, clean, del>>
    BY <1>6 DEF Lock
  <2>2. Alone(d) /\ dlv'[d].pc = "prepare" /\ dlv'[d].rev \notin rows
    BY <1>6, LockShape DEF Reserves
  <2> QED BY <2>1, <2>2, StorageAlone DEF StorageInv
<1>7. CASE Prepare(d)
  <2>1. /\ UNCHANGED <<current, rows, clean, del>> /\ files' = files \cup {dlv[d].rev}
        /\ dlv[d].pc = "prepare" /\ Goes(d, "publish")
    BY <1>7, PrepareShape DEF Prepare, At
  <2>2. dlv[d].rev \notin rows /\ dlv'[d].rev = dlv[d].rev /\ Alone(d)
    BY <2>1 DEF StorageInv, Holding, Goes, SameIds
  <2> QED BY <2>1, <2>2, StorageAlone DEF StorageInv
<1>8. CASE PrepareFails(d) BY <1>8, PrepareFailsShape, StorageAlone DEF PrepareFails, Answered
<1>9. CASE Publish(d)
  <2> DEFINE r == dlv[d].rev
  <2>1. /\ lock = d /\ r \in Revs /\ r \in files /\ dlv'[d].pc = "committed" /\ Alone(d)
    BY <1>9, PublishShape, Carried DEF Publish, At, Holding, HolderInv, StorageInv, Commits
  <2>2. /\ rows' = rows \cup {r} /\ current' = r /\ UNCHANGED <<files, clean, del>>
    BY <1>9 DEF Publish
  <2>3. \A e \in Deliveries : dlv'[e].pc \notin Holding
    BY <2>1, OneHolder DEF Alone, Holding
  <2>4. clean.pc \notin {"file", "listed"} /\ del.pc = "idle"
    BY <2>1, OneHolder
  <2> QED
    BY <2>1, <2>2, <2>3, <2>4, RevsAssumption DEF StorageInv, SourceThere, Holding
<1>10. CASE PublishMisses(d) BY <1>10, PublishMissesShape, StorageAlone DEF PublishMisses, MayPublish
<1>11. CASE Discard(d)
  <2>1. /\ lock = d /\ dlv[d].rev \notin rows /\ Goes(d, "recheck")
        /\ files' = files \ {dlv[d].rev} /\ UNCHANGED <<current, rows, clean, del>>
    BY <1>11, DiscardShape DEF Discard, At, Holding, HolderInv, StorageInv
  <2>2. \A e \in Deliveries \ {d} : dlv[e].pc \notin Holding
    BY <2>1, OneHolder
  <2> QED BY <2>1, <2>2, StorageAlone DEF Goes, Holding, StorageInv
<1>12. CASE Recheck(d) BY <1>12, RecheckShape, StorageAlone DEF Recheck, Answered, Replayable, Unlocked
<1>13. CASE Reply(d) BY <1>13, ReplyShape, StorageAlone DEF Reply, Answered, Unlocked
<1>14. CASE Deliver(d) BY <1>14, DeliverShape, StorageAlone DEF Deliver
<1>15. CASE PublishFault(d) BY <1>15, PublishFaultShape, StorageAlone DEF PublishFault
<1>16. CASE Dropped(d) BY <1>16, DroppedShape, StorageAlone DEF Dropped, Unlocked
<1> QED
  BY <1>1, <1>2, <1>3, <1>4, <1>5, <1>6, <1>7, <1>8, <1>9, <1>10, <1>11, <1>12,
     <1>13, <1>14, <1>15, <1>16 DEF Refresh

LEMMA StorageJobs ==
  ASSUME Typed, HolderInv, StorageInv,
         \/ \E j \in Jobs : Enqueue(j) \/ CancelJob(j) \/ \E i \in Jobs : Retry(i, j)
         \/ Worker
  PROVE  StorageInv'
<1> USE DEF StorageInv, SourceThere, Holding, CleanerAt, DeletionAt,
            revisionVars, tableVars, jobVars, boundVars
<1>1. ASSUME NEW j \in Jobs, Enqueue(j) PROVE StorageInv'
  BY <1>1 DEF Enqueue
<1>2. ASSUME NEW j \in Jobs, CancelJob(j) PROVE StorageInv'
  BY <1>2 DEF CancelJob
<1>3. ASSUME NEW i \in Jobs, NEW j \in Jobs, Retry(i, j) PROVE StorageInv'
  BY <1>3 DEF Retry
<1>4. ASSUME NEW j \in Jobs, Claim(j) PROVE StorageInv'
  BY <1>4 DEF Claim
<1>5. CASE Register BY <1>5 DEF Register
<1>6. CASE Finish BY <1>6 DEF Finish
<1>7. CASE Release BY <1>7 DEF Release
<1> QED
  BY <1>1, <1>2, <1>3, <1>4, <1>5, <1>6, <1>7 DEF Worker

LEMMA StorageClean ==
  ASSUME Typed, HolderInv, StorageInv, Clean \/ CleanLock \/ CleanFails
  PROVE  StorageInv'
<1> USE DEF StorageInv, SourceThere, Holding, CleanerAt, DeletionAt,
            revisionVars, tableVars, jobVars, boundVars
<1>1. CASE CleanBegin BY <1>1 DEF CleanBegin
<1>2. CASE CleanLock
  <2>1. \/ clean' = NoCleaning
        \/ \E todo : clean' = [clean EXCEPT !.pc = "rows", !.todo = todo]
    BY <1>2 DEF CleanLock
  <2>2. clean'.pc \in {"idle", "rows"}
    <3>1. CASE clean' = NoCleaning
      BY <3>1 DEF NoCleaning
    <3>2. ASSUME NEW todo, clean' = [clean EXCEPT !.pc = "rows", !.todo = todo]
          PROVE  clean'.pc = "rows"
      BY <3>2, TypedParts DEF RestTyped, CleaningType
    <3> QED BY <2>1, <3>1, <3>2
  <2>3. UNCHANGED <<current, rows, files, dlv, del>>
    BY <1>2 DEF CleanLock
  <2> QED BY <2>2, <2>3
<1>3. ASSUME NEW r \in Revs, CleanRow(r) PROVE StorageInv'
  <2>1. PICK todo :
          \/ /\ r # current /\ rows' = rows \ {r}
             /\ clean' = [clean EXCEPT !.pc = "file", !.todo = todo, !.at = r]
          \/ rows' = rows /\ clean' = [clean EXCEPT !.todo = todo]
    BY <1>3 DEF CleanRow, MayRemove
  <2>2. clean.pc = "rows" /\ UNCHANGED <<current, files, dlv, del>>
    BY <1>3 DEF CleanRow
  <2>3. \/ r # current /\ rows' = rows \ {r} /\ clean'.pc = "file" /\ clean'.at = r
        \/ rows' = rows /\ clean'.pc = "rows"
    BY <2>1, <2>2, TypedParts DEF RestTyped, CleaningType
  <2> QED BY <2>2, <2>3
<1>4. CASE CleanFile BY <1>4, NoRequestHolds, HoldersAssumption DEF CleanFile, HolderInv
<1>5. CASE CleanScan BY <1>5 DEF CleanScan
<1>6. CASE CleanOrphans BY <1>6, NoRequestHolds, HoldersAssumption DEF CleanOrphans, Orphaned, NoCleaning, HolderInv
<1>7. CASE CleanFails BY <1>7 DEF CleanFails, NoCleaning
<1> QED
  BY <1>1, <1>2, <1>3, <1>4, <1>5, <1>6, <1>7 DEF Clean

LEMMA StorageRest ==
  ASSUME Typed, HolderInv, StorageInv,
         \/ DeleteLock \/ DeleteRow \/ DeleteFiles \/ DeletionDropped
         \/ Edit \/ HourPasses \/ (\E r \in Revs : RetentionEnds(r)) \/ Crash \/ Start
  PROVE  StorageInv'
<1> USE DEF StorageInv, SourceThere, Holding, CleanerAt, DeletionAt,
            revisionVars, tableVars, jobVars, boundVars
<1>1. CASE DeleteLock BY <1>1 DEF DeleteLock
<1>2. CASE DeleteRow BY <1>2 DEF DeleteRow
<1>3. CASE DeleteFiles BY <1>3, NoRequestHolds, HoldersAssumption DEF DeleteFiles, NoDeletion, HolderInv
<1>4. CASE DeletionDropped BY <1>4 DEF DeletionDropped, NoDeletion
<1>5. CASE Edit BY <1>5 DEF Edit
<1>6. CASE HourPasses BY <1>6 DEF HourPasses
<1>7. ASSUME NEW r \in Revs, RetentionEnds(r) PROVE StorageInv'
  BY <1>7 DEF RetentionEnds
<1>8. CASE Crash BY <1>8 DEF Crash, NoDelivery, NoCleaning, NoDeletion
<1>9. CASE Start BY <1>9 DEF Start
<1> QED
  BY <1>1, <1>2, <1>3, <1>4, <1>5, <1>6, <1>7, <1>8, <1>9

LEMMA StorageStep == Typed /\ HolderInv /\ StorageInv /\ [Next]_vars => StorageInv'
<1>1. ASSUME StorageInv, UNCHANGED vars PROVE StorageInv'
  BY <1>1 DEF StorageInv, SourceThere, vars, revisionVars
<1> QED
  BY <1>1, StorageRefresh, StorageJobs, StorageClean, StorageRest DEF Next

LEMMA StorageInvariant == Spec => []StorageInv
<1>1. Init => StorageInv
  BY RevsAssumption
     DEF Init, StorageInv, SourceThere, Holding, NoDelivery, NoCleaning, NoDeletion
<1> QED BY <1>1, TypedInvariant, HolderInvariant, StorageStep, PTL DEF Spec

\* The source can always be read and the server can always start: whatever fails,
\* is dropped or killed half way, the current revision keeps its row and its file.
THEOREM CurrentIsUsable == Spec => []CurrentUsable
<1>1. StorageInv => CurrentUsable
  BY DEF StorageInv, CurrentUsable
<1> QED BY <1>1, StorageInvariant, PTL

-----------------------------------------------------------------------------
(* A job keeps what it pinned: rows go only when no active job needs them,   *)
(* and StorageInv says that files stay with the rows.                        *)

LEMMA PinnedStays ==
  ASSUME PinnedInputKept, StorageInv', UNCHANGED <<current, rows, status, pinned, path, frail>>
  PROVE  PinnedInputKept'
BY DEF PinnedInputKept, StorageInv, SourceThere

LEMMA PinnedRefresh ==
  ASSUME Typed, StorageInv, StorageInv', PinnedInputKept, NEW d \in Deliveries,
         Refresh(d) \/ Deliver(d) \/ PublishFault(d) \/ Dropped(d)
  PROVE  PinnedInputKept'
<1> USE DEF revisionVars, tableVars, jobVars, boundVars
<1>1. CASE LookUpFound(d) BY <1>1, PinnedStays DEF LookUpFound, Answered, QueryFor
<1>2. CASE LookUpMisses(d) BY <1>2, PinnedStays DEF LookUpMisses
<1>3. CASE ReadState(d) BY <1>3, PinnedStays DEF ReadState, Answered, QueryFor
<1>4. CASE Confirm(d) BY <1>4, PinnedStays DEF Confirm, MayConfirm, Receipt
<1>5. CASE ConfirmMisses(d) BY <1>5, PinnedStays DEF ConfirmMisses, MayConfirm
<1>6. CASE Lock(d) BY <1>6, PinnedStays DEF Lock
<1>7. CASE Prepare(d) BY <1>7, PinnedStays DEF Prepare
<1>8. CASE PrepareFails(d) BY <1>8, PinnedStays DEF PrepareFails, Answered
<1>9. CASE Publish(d)
  <2> DEFINE r == dlv[d].rev
             job == dlv[d].job
  <2>1. /\ SourceThere /\ rows' = rows \cup {r} /\ UNCHANGED frail
        /\ \/ UNCHANGED <<status, pinned, path>>
           \/ /\ status' = [status EXCEPT ![job] = "queued"]
              /\ pinned' = pinned \cup {job} /\ path' = [path EXCEPT ![job] = r]
    BY <1>9 DEF Publish, MayPublish
  <2>2. ASSUME NEW j \in Jobs, status'[j] \in Active, j \notin frail
        PROVE  j \in pinned' /\ path'[j] \in rows'
    <3>1. CASE UNCHANGED <<status, pinned, path>>
      BY <2>1, <2>2, <3>1 DEF PinnedInputKept
    <3>2. CASE /\ status' = [status EXCEPT ![job] = "queued"]
               /\ pinned' = pinned \cup {job} /\ path' = [path EXCEPT ![job] = r]
      BY <2>1, <2>2, <3>2, TypedParts DEF PinnedInputKept, RestTyped
    <3> QED BY <2>1, <3>1, <3>2
  <2> QED BY <2>1, <2>2 DEF PinnedInputKept, StorageInv
<1>10. CASE PublishMisses(d) BY <1>10, PinnedStays DEF PublishMisses, MayPublish
<1>11. CASE Discard(d) BY <1>11, PinnedStays DEF Discard
<1>12. CASE Recheck(d) BY <1>12, PinnedStays DEF Recheck, Answered, Replayable, Unlocked
<1>13. CASE Reply(d) BY <1>13, PinnedStays DEF Reply, Answered, Unlocked
<1>14. CASE Deliver(d) BY <1>14, PinnedStays DEF Deliver
<1>15. CASE PublishFault(d) BY <1>15, PinnedStays DEF PublishFault
<1>16. CASE Dropped(d) BY <1>16, PinnedStays DEF Dropped, Unlocked
<1> QED
  BY <1>1, <1>2, <1>3, <1>4, <1>5, <1>6, <1>7, <1>8, <1>9, <1>10, <1>11, <1>12,
     <1>13, <1>14, <1>15, <1>16 DEF Refresh

LEMMA PinnedJobs ==
  ASSUME Typed, StorageInv, StorageInv', PinnedInputKept,
         \/ \E j \in Jobs : Enqueue(j) \/ CancelJob(j) \/ \E i \in Jobs : Retry(i, j)
         \/ Worker
  PROVE  PinnedInputKept'
<1> USE DEF PinnedInputKept, StorageInv, SourceThere, Active, revisionVars,
            tableVars, jobVars, boundVars
<1>1. ASSUME NEW j \in Jobs, Enqueue(j) PROVE PinnedInputKept'
  BY <1>1, TypedParts DEF Enqueue, RestTyped
<1>2. ASSUME NEW j \in Jobs, CancelJob(j) PROVE PinnedInputKept'
  BY <1>2, TypedParts DEF CancelJob, RestTyped
<1>3. ASSUME NEW i \in Jobs, NEW j \in Jobs, Retry(i, j) PROVE PinnedInputKept'
  <2>1. /\ status' = [status EXCEPT ![j] = "queued"] /\ path' = [path EXCEPT ![j] = path[i]]
        /\ \/ path[i] \in rows /\ pinned' = pinned \cup {j} /\ frail' = frail
           \/ pinned' = pinned /\ frail' = frail \cup {j}
        /\ UNCHANGED <<current, rows>>
    BY <1>3 DEF Retry
  <2>2. ASSUME NEW k \in Jobs, SourceThere, status'[k] \in Active, k \notin frail'
        PROVE  k \in pinned' /\ path'[k] \in rows
    BY <2>1, <2>2, TypedParts DEF RestTyped
  <2> QED BY <2>1, <2>2
<1>4. ASSUME NEW j \in Jobs, Claim(j) PROVE PinnedInputKept'
  BY <1>4, TypedParts DEF Claim, RestTyped
<1>5. CASE Register BY <1>5, PinnedStays DEF Register
<1>6. CASE Finish BY <1>6, TypedParts DEF Finish, RestTyped
<1>7. CASE Release BY <1>7, PinnedStays DEF Release
<1> QED
  BY <1>1, <1>2, <1>3, <1>4, <1>5, <1>6, <1>7 DEF Worker

LEMMA PinnedClean ==
  ASSUME Typed, StorageInv, StorageInv', PinnedInputKept, Clean \/ CleanLock \/ CleanFails
  PROVE  PinnedInputKept'
<1> USE DEF PinnedInputKept, StorageInv, SourceThere, Active, revisionVars,
            tableVars, jobVars, boundVars
<1>1. CASE CleanBegin BY <1>1, PinnedStays DEF CleanBegin
<1>2. CASE CleanLock BY <1>2, PinnedStays DEF CleanLock, MayRemove
<1>3. ASSUME NEW r \in Revs, CleanRow(r) PROVE PinnedInputKept'
  <2>1. CASE MayRemove(r)
    BY <1>3, <2>1 DEF CleanRow, MayRemove
  <2>2. CASE ~MayRemove(r)
    BY <1>3, <2>2 DEF CleanRow
  <2> QED BY <2>1, <2>2
<1>4. CASE CleanFile BY <1>4, PinnedStays DEF CleanFile
<1>5. CASE CleanScan BY <1>5, PinnedStays DEF CleanScan
<1>6. CASE CleanOrphans BY <1>6, PinnedStays DEF CleanOrphans, Orphaned
<1>7. CASE CleanFails BY <1>7, PinnedStays DEF CleanFails
<1> QED
  BY <1>1, <1>2, <1>3, <1>4, <1>5, <1>6, <1>7 DEF Clean

LEMMA PinnedRest ==
  ASSUME Typed, StorageInv, StorageInv', PinnedInputKept,
         \/ DeleteLock \/ DeleteRow \/ DeleteFiles \/ DeletionDropped
         \/ Edit \/ HourPasses \/ (\E r \in Revs : RetentionEnds(r)) \/ Crash \/ Start
  PROVE  PinnedInputKept'
<1> USE DEF PinnedInputKept, StorageInv, SourceThere, Active, revisionVars,
            tableVars, jobVars, boundVars
<1>1. CASE DeleteLock BY <1>1, PinnedStays DEF DeleteLock
<1>2. CASE DeleteRow BY <1>2 DEF DeleteRow
<1>3. CASE DeleteFiles BY <1>3, PinnedStays DEF DeleteFiles
<1>4. CASE DeletionDropped BY <1>4, PinnedStays DEF DeletionDropped
<1>5. CASE Edit BY <1>5, PinnedStays DEF Edit
<1>6. CASE HourPasses BY <1>6, PinnedStays DEF HourPasses
<1>7. ASSUME NEW r \in Revs, RetentionEnds(r) PROVE PinnedInputKept'
  BY <1>7, PinnedStays DEF RetentionEnds
<1>8. CASE Crash BY <1>8, PinnedStays DEF Crash
<1>9. CASE Start BY <1>9, TypedParts DEF Start, RestTyped
<1> QED
  BY <1>1, <1>2, <1>3, <1>4, <1>5, <1>6, <1>7, <1>8, <1>9

LEMMA PinnedStep ==
  Typed /\ StorageInv /\ StorageInv' /\ PinnedInputKept /\ [Next]_vars => PinnedInputKept'
<1>1. ASSUME PinnedInputKept, StorageInv', UNCHANGED vars PROVE PinnedInputKept'
  BY <1>1, PinnedStays DEF vars, revisionVars, jobVars
<1> QED
  BY <1>1, PinnedRefresh, PinnedJobs, PinnedClean, PinnedRest DEF Next

\* A queued or running job that pinned a revision keeps its row and its file until
\* it ends or the source goes, whatever refreshes, clean-ups, retries of other jobs
\* and restarts happen meanwhile.
THEOREM PinnedInputIsKept == Spec => []PinnedInputKept
<1>1. Init => PinnedInputKept
  BY DEF Init, PinnedInputKept, Active
<1> QED BY <1>1, TypedInvariant, StorageInvariant, PinnedStep, PTL DEF Spec

-----------------------------------------------------------------------------
(* Answers come from the receipts.                                           *)

AnsweredWell(d) ==
    dlv[d].answer # NoReceipt =>
        dlv[d].answer = receipts[dlv[d].key] /\ dlv[d].answer.content = dlv[d].content

LEMMA AnswersAlone ==
  ASSUME AnswersAgree, NEW d \in Deliveries, Alone(d), UNCHANGED <<current, receipts>>,
         SourceThere => AnsweredWell(d)'
  PROVE  AnswersAgree'
BY DEF AnswersAgree, Alone, AnsweredWell, SourceThere

\* The record of d changes alone, and its answer is what it was, the receipt, or none.
Answering(d) ==
    /\ Alone(d)
    /\ \/ dlv'[d].answer = NoReceipt
       \/ /\ SameFile(d)
          /\ \/ dlv'[d].answer = dlv[d].answer
             \/ /\ dlv'[d].answer = receipts[dlv[d].key]
                /\ receipts[dlv[d].key].content = dlv[d].content

LEMMA AnswersAfter ==
  ASSUME AnswersAgree, NEW d \in Deliveries, Answering(d), UNCHANGED <<current, receipts>>
  PROVE  AnswersAgree'
<1>1. SourceThere => AnsweredWell(d)
  BY DEF AnswersAgree, AnsweredWell
<1>2. SourceThere => AnsweredWell(d)'
  BY <1>1 DEF Answering, SameFile, AnsweredWell
<1> QED BY <1>2, AnswersAlone DEF Answering

\* A receipt is written where there was none, so no other answer is disturbed.
LEMMA AnswersCommitted ==
  ASSUME Typed, AnswersAgree, NEW d \in Deliveries, dlv[d].pc # "idle", SourceThere,
         NEW receipt \in ReceiptType, receipt.content = dlv[d].content,
         Commits(d, receipt), receipts[dlv[d].key] = NoReceipt,
         receipts' = [receipts EXCEPT ![dlv[d].key] = receipt]
  PROVE  AnswersAgree'
<1>1. receipts \in [Keys -> ReceiptType \cup {NoReceipt}] /\ dlv[d].key \in Keys
  BY Carried DEF RestTyped
<1>2. ASSUME NEW e \in Deliveries PROVE AnsweredWell(e)'
  <2>1. CASE e = d
    BY <1>1, <2>1 DEF Commits, SameFile, AnsweredWell
  <2>2. CASE e # d
    <3>1. dlv'[e] = dlv[e] /\ AnsweredWell(e)
      BY <2>2 DEF Commits, Alone, AnswersAgree, AnsweredWell
    <3>2. dlv[e].answer # NoReceipt => dlv[e].key \in Keys
      BY Carried
    <3> QED BY <1>1, <3>1, <3>2 DEF AnsweredWell
  <2> QED BY <2>1, <2>2
<1> QED BY <1>2 DEF AnswersAgree, AnsweredWell

LEMMA AnswersRefresh ==
  ASSUME Typed, AnswersAgree, NEW d \in Deliveries,
         Refresh(d) \/ Deliver(d) \/ PublishFault(d) \/ Dropped(d)
  PROVE  AnswersAgree'
<1> USE DEF revisionVars
<1>1. CASE LookUpFound(d)
  <2>1. Answering(d) BY <1>1, LookUpFoundShape DEF Answering, Ends
  <2>2. UNCHANGED <<current, receipts>> BY <1>1 DEF LookUpFound
  <2> QED BY <2>1, <2>2, AnswersAfter
<1>2. CASE LookUpMisses(d)
  <2>1. Answering(d) BY <1>2, LookUpMissesShape DEF Answering, Goes
  <2>2. UNCHANGED <<current, receipts>> BY <1>2 DEF LookUpMisses
  <2> QED BY <2>1, <2>2, AnswersAfter
<1>3. CASE ReadState(d)
  <2>1. Answering(d) BY <1>3, ReadStateShape DEF Answering, Ends, Reads
  <2>2. UNCHANGED <<current, receipts>> BY <1>3 DEF ReadState
  <2> QED BY <2>1, <2>2, AnswersAfter
<1>4. CASE Confirm(d)
  <2>1. /\ dlv[d].pc \in Comparing /\ SourceThere /\ receipts[dlv[d].key] = NoReceipt
        /\ receipts' = [receipts EXCEPT ![dlv[d].key] = Receipt(d, dlv[d].base, NoJob, FALSE)]
    BY <1>4, RevsAssumption, Carried DEF Confirm, MayConfirm, At, Comparing, SourceThere
  <2>2. Receipt(d, dlv[d].base, NoJob, FALSE).content = dlv[d].content
    BY DEF Receipt
  <2>3. dlv[d].pc # "idle"
    BY <2>1 DEF Comparing
  <2> QED BY <1>4, <2>1, <2>2, <2>3, ConfirmShape, AnswersCommitted
<1>5. CASE ConfirmMisses(d)
  <2>1. Answering(d) BY <1>5, ConfirmMissesShape DEF Answering, Goes
  <2>2. UNCHANGED <<current, receipts>> BY <1>5 DEF ConfirmMisses
  <2> QED BY <2>1, <2>2, AnswersAfter
<1>6. CASE Lock(d)
  <2>1. Answering(d) BY <1>6, LockShape DEF Answering, Reserves
  <2>2. UNCHANGED <<current, receipts>> BY <1>6 DEF Lock
  <2> QED BY <2>1, <2>2, AnswersAfter
<1>7. CASE Prepare(d)
  <2>1. Answering(d) BY <1>7, PrepareShape DEF Answering, Goes
  <2>2. UNCHANGED <<current, receipts>> BY <1>7 DEF Prepare
  <2> QED BY <2>1, <2>2, AnswersAfter
<1>8. CASE PrepareFails(d)
  <2>1. Answering(d) BY <1>8, PrepareFailsShape DEF Answering, Ends
  <2>2. UNCHANGED <<current, receipts>> BY <1>8 DEF PrepareFails
  <2> QED BY <2>1, <2>2, AnswersAfter
<1>9. CASE Publish(d)
  <2>1. /\ dlv[d].pc \in Comparing /\ SourceThere /\ receipts[dlv[d].key] = NoReceipt
        /\ receipts' = [receipts EXCEPT ![dlv[d].key] = Receipt(d, dlv[d].rev, dlv[d].job, TRUE)]
    BY <1>9, RevsAssumption, Carried DEF Publish, MayPublish, At, Comparing, SourceThere
  <2>2. Receipt(d, dlv[d].rev, dlv[d].job, TRUE).content = dlv[d].content
    BY DEF Receipt
  <2>3. dlv[d].pc # "idle"
    BY <2>1 DEF Comparing
  <2> QED BY <1>9, <2>1, <2>2, <2>3, PublishShape, AnswersCommitted
<1>10. CASE PublishMisses(d)
  <2>1. Answering(d) BY <1>10, PublishMissesShape DEF Answering, Goes
  <2>2. UNCHANGED <<current, receipts>> BY <1>10 DEF PublishMisses
  <2> QED BY <2>1, <2>2, AnswersAfter
<1>11. CASE Discard(d)
  <2>1. Answering(d) BY <1>11, DiscardShape DEF Answering, Goes
  <2>2. UNCHANGED <<current, receipts>> BY <1>11 DEF Discard
  <2> QED BY <2>1, <2>2, AnswersAfter
<1>12. CASE Recheck(d)
  <2>1. Answering(d) BY <1>12, RecheckShape DEF Answering, Ends
  <2>2. UNCHANGED <<current, receipts>> BY <1>12 DEF Recheck
  <2> QED BY <2>1, <2>2, AnswersAfter
<1>13. CASE Reply(d)
  <2>1. Answering(d) BY <1>13, ReplyShape DEF Answering, Ends
  <2>2. UNCHANGED <<current, receipts>> BY <1>13 DEF Reply
  <2> QED BY <2>1, <2>2, AnswersAfter
<1>14. CASE Deliver(d)
  <2>1. Answering(d) BY <1>14, DeliverShape DEF Answering, Begins
  <2>2. UNCHANGED <<current, receipts>> BY <1>14 DEF Deliver
  <2> QED BY <2>1, <2>2, AnswersAfter
<1>15. CASE PublishFault(d)
  <2>1. Answering(d) BY <1>15, PublishFaultShape DEF Answering, Goes
  <2>2. UNCHANGED <<current, receipts>> BY <1>15 DEF PublishFault
  <2> QED BY <2>1, <2>2, AnswersAfter
<1>16. CASE Dropped(d)
  <2>1. Answering(d) BY <1>16, DroppedShape DEF Answering
  <2>2. UNCHANGED <<current, receipts>> BY <1>16 DEF Dropped
  <2> QED BY <2>1, <2>2, AnswersAfter
<1> QED
  BY <1>1, <1>2, <1>3, <1>4, <1>5, <1>6, <1>7, <1>8, <1>9, <1>10, <1>11, <1>12,
     <1>13, <1>14, <1>15, <1>16 DEF Refresh

LEMMA AnswersJobs ==
  ASSUME AnswersAgree,
         \/ \E j \in Jobs : Enqueue(j) \/ CancelJob(j) \/ \E i \in Jobs : Retry(i, j)
         \/ Worker
  PROVE  AnswersAgree'
<1> USE DEF AnswersAgree, SourceThere, revisionVars, tableVars, jobVars,
            boundVars
<1>1. ASSUME NEW j \in Jobs, Enqueue(j) PROVE AnswersAgree'
  BY <1>1 DEF Enqueue
<1>2. ASSUME NEW j \in Jobs, CancelJob(j) PROVE AnswersAgree'
  BY <1>2 DEF CancelJob
<1>3. ASSUME NEW i \in Jobs, NEW j \in Jobs, Retry(i, j) PROVE AnswersAgree'
  BY <1>3 DEF Retry
<1>4. ASSUME NEW j \in Jobs, Claim(j) PROVE AnswersAgree'
  BY <1>4 DEF Claim
<1>5. CASE Register BY <1>5 DEF Register
<1>6. CASE Finish BY <1>6 DEF Finish
<1>7. CASE Release BY <1>7 DEF Release
<1> QED
  BY <1>1, <1>2, <1>3, <1>4, <1>5, <1>6, <1>7 DEF Worker

LEMMA AnswersClean ==
  ASSUME AnswersAgree, Clean \/ CleanLock \/ CleanFails
  PROVE  AnswersAgree'
<1> USE DEF AnswersAgree, SourceThere, revisionVars, tableVars, jobVars,
            boundVars
<1>1. CASE CleanBegin BY <1>1 DEF CleanBegin
<1>2. CASE CleanLock BY <1>2 DEF CleanLock, MayRemove
<1>3. ASSUME NEW r \in Revs, CleanRow(r) PROVE AnswersAgree'
  BY <1>3 DEF CleanRow, MayRemove
<1>4. CASE CleanFile BY <1>4 DEF CleanFile
<1>5. CASE CleanScan BY <1>5 DEF CleanScan
<1>6. CASE CleanOrphans BY <1>6 DEF CleanOrphans, Orphaned
<1>7. CASE CleanFails BY <1>7 DEF CleanFails
<1> QED
  BY <1>1, <1>2, <1>3, <1>4, <1>5, <1>6, <1>7 DEF Clean

LEMMA AnswersRest ==
  ASSUME AnswersAgree,
         \/ DeleteLock \/ DeleteRow \/ DeleteFiles \/ DeletionDropped
         \/ Edit \/ HourPasses \/ (\E r \in Revs : RetentionEnds(r)) \/ Crash \/ Start
  PROVE  AnswersAgree'
<1> USE DEF AnswersAgree, SourceThere, revisionVars, tableVars, jobVars,
            boundVars
<1>1. CASE DeleteLock BY <1>1 DEF DeleteLock
<1>2. CASE DeleteRow BY <1>2 DEF DeleteRow
<1>3. CASE DeleteFiles BY <1>3 DEF DeleteFiles
<1>4. CASE DeletionDropped BY <1>4 DEF DeletionDropped
<1>5. CASE Edit BY <1>5 DEF Edit
<1>6. CASE HourPasses BY <1>6 DEF HourPasses
<1>7. ASSUME NEW r \in Revs, RetentionEnds(r) PROVE AnswersAgree'
  BY <1>7 DEF RetentionEnds
<1>8. CASE Crash BY <1>8 DEF Crash, NoDelivery
<1>9. CASE Start BY <1>9 DEF Start
<1> QED
  BY <1>1, <1>2, <1>3, <1>4, <1>5, <1>6, <1>7, <1>8, <1>9

LEMMA AnswersStep == Typed /\ AnswersAgree /\ [Next]_vars => AnswersAgree'
<1>1. ASSUME AnswersAgree, UNCHANGED vars PROVE AnswersAgree'
  BY <1>1 DEF AnswersAgree, SourceThere, vars, revisionVars
<1> QED
  BY <1>1, AnswersRefresh, AnswersJobs, AnswersClean, AnswersRest DEF Next

\* A client is answered with the receipt on record under its key, for the file it
\* sent, also when another request with that key won the race.
THEOREM AnswersDoAgree == Spec => []AnswersAgree
<1>1. Init => AnswersAgree
  BY DEF Init, AnswersAgree, NoDelivery
<1> QED BY <1>1, TypedInvariant, AnswersStep, PTL DEF Spec

-----------------------------------------------------------------------------
(* What a request found by comparing its file with the current revision is   *)
(* still true when it commits, or the commit notices.                        *)

ComparesWell(d) ==
    /\ dlv[d].pc \in Holding => retained[dlv[d].rev] = "null"
    /\ dlv[d].pc \in {"prepare", "publish"} => content[dlv[d].rev] = dlv[d].content
    /\ dlv[d].pc \in Comparing =>
           IF dlv[d].base = current
           THEN dlv[d].pc = "unchanged" <=> content[current] = dlv[d].content
           ELSE retained[dlv[d].base] # "null"

OncePerKey == \A k \in Keys : receipts[k] = NoReceipt => submitted[k] = 0

LEMMA CompareParts ==
  CompareInv <=> (SourceThere => (\A d \in Deliveries : ComparesWell(d)) /\ OncePerKey)
BY DEF CompareInv, ComparesWell, OncePerKey

LEMMA ComparePartsAfter ==
  CompareInv' <=> (SourceThere' => (\A d \in Deliveries : ComparesWell(d)') /\ OncePerKey')
BY DEF CompareInv, ComparesWell, OncePerKey

LEMMA CompareAlone ==
  ASSUME CompareInv, NEW d \in Deliveries, Alone(d),
         UNCHANGED <<current, content, retained, submitted>>,
         \A k \in Keys : receipts'[k] = NoReceipt => receipts[k] = NoReceipt,
         SourceThere => ComparesWell(d)'
  PROVE  CompareInv'
<1> SUFFICES ASSUME SourceThere PROVE (\A e \in Deliveries : ComparesWell(e)') /\ OncePerKey'
  BY ComparePartsAfter DEF SourceThere
<1>1. ASSUME NEW e \in Deliveries PROVE ComparesWell(e)'
  <2>1. CASE e = d BY <2>1
  <2>2. CASE e # d
    <3>1. ComparesWell(e) /\ dlv'[e] = dlv[e] BY <2>2, CompareParts DEF Alone
    <3> QED BY <3>1 DEF ComparesWell
  <2> QED BY <2>1, <2>2
<1>2. OncePerKey'
  BY CompareParts DEF OncePerKey
<1> QED BY <1>1, <1>2

LEMMA Unaware ==
  ASSUME NEW d \in Deliveries, dlv[d].pc \notin Comparing, dlv[d].pc \notin Holding
  PROVE  ComparesWell(d)
BY DEF ComparesWell, Comparing, Holding

LEMMA UnawareAfter ==
  ASSUME NEW d \in Deliveries, dlv'[d].pc \notin Comparing, dlv'[d].pc \notin Holding
  PROVE  ComparesWell(d)'
BY DEF ComparesWell, Comparing, Holding

\* Steps of a request that end it or move it on without forgetting what it found.
LEMMA CompareGoes ==
  ASSUME CompareInv, NEW d \in Deliveries, Alone(d),
         UNCHANGED <<current, content, retained, receipts, submitted>>,
         \/ dlv'[d].pc \in {"idle", "received", "new", "recheck", "committed"}
         \/ dlv[d].pc = "prepare" /\ Goes(d, "publish")
         \/ dlv[d].pc = "publish" /\ Goes(d, "discard")
  PROVE  CompareInv'
<1>1. CASE dlv'[d].pc \in {"idle", "received", "new", "recheck", "committed"}
  BY <1>1, UnawareAfter, CompareAlone DEF Comparing, Holding
<1>2. CASE \/ dlv[d].pc = "prepare" /\ Goes(d, "publish")
           \/ dlv[d].pc = "publish" /\ Goes(d, "discard")
  <2>1. SourceThere => ComparesWell(d)
    BY CompareParts
  <2>2. SourceThere => ComparesWell(d)'
    BY <1>2, <2>1
       DEF ComparesWell, Comparing, Holding, Goes, SameFile, SameBase, SameIds
  <2> QED BY <2>2, CompareAlone
<1> QED BY <1>1, <1>2

\* Steps of others: no request changes, and stamps are only set.
LEMMA CompareStays ==
  ASSUME CompareInv, UNCHANGED <<current, content, receipts, submitted, dlv>>,
         \A r \in Revs : retained[r] # "null" => retained'[r] # "null",
         \A d \in Deliveries : dlv[d].pc \in Holding =>
             retained'[dlv[d].rev] = retained[dlv[d].rev],
         Typed
  PROVE  CompareInv'
<1> SUFFICES ASSUME SourceThere PROVE (\A e \in Deliveries : ComparesWell(e)') /\ OncePerKey'
  BY ComparePartsAfter DEF SourceThere
<1>1. ASSUME NEW e \in Deliveries PROVE ComparesWell(e)'
  <2>1. ComparesWell(e) /\ (dlv[e].pc \in Comparing => dlv[e].base \in Revs)
    BY CompareParts, Carried
  <2> QED BY <2>1 DEF ComparesWell
<1> QED BY <1>1, CompareParts DEF OncePerKey

LEMMA CompareRefresh ==
  ASSUME Typed, HolderInv, StorageInv, CompareInv, NEW d \in Deliveries,
         Refresh(d) \/ Deliver(d) \/ PublishFault(d) \/ Dropped(d)
  PROVE  CompareInv'
<1>1. CASE LookUpFound(d)
  <2>1. UNCHANGED <<current, content, retained, receipts, submitted>>
    BY <1>1 DEF LookUpFound, revisionVars
  <2> QED BY <1>1, <2>1, LookUpFoundShape, CompareGoes DEF Ends
<1>2. CASE LookUpMisses(d)
  <2>1. UNCHANGED <<current, content, retained, receipts, submitted>>
    BY <1>2 DEF LookUpMisses, revisionVars
  <2> QED BY <1>2, <2>1, LookUpMissesShape, CompareGoes DEF Goes
<1>3. CASE ReadState(d)
  <2>1. UNCHANGED <<current, content, retained, receipts, submitted>>
    BY <1>3 DEF ReadState, revisionVars
  <2>2. CASE Ends(d, NoReceipt)
    BY <2>1, <2>2, CompareGoes DEF Ends
  <2>3. CASE Reads(d)
    <3>1. ComparesWell(d)'
      BY <2>1, <2>3 DEF Reads, ComparesWell, Holding, Comparing, SameFile
    <3> QED BY <2>1, <2>3, <3>1, CompareAlone DEF Reads
  <2> QED BY <1>3, <2>2, <2>3, ReadStateShape
<1>4. CASE Confirm(d)
  <2>1. Alone(d) /\ dlv'[d].pc = "committed"
    BY <1>4, ConfirmShape DEF Commits
  <2>2. UNCHANGED <<current, content, retained, submitted>>
    BY <1>4 DEF Confirm, revisionVars
  <2>3. ASSUME NEW k \in Keys, receipts'[k] = NoReceipt PROVE receipts[k] = NoReceipt
    BY <1>4, <2>3, TypedParts DEF Confirm, MayConfirm, RestTyped
  <2>4. ComparesWell(d)'
    BY <2>1, UnawareAfter DEF Comparing, Holding
  <2> QED BY <2>1, <2>2, <2>3, <2>4, CompareAlone
<1>5. CASE ConfirmMisses(d)
  <2>1. UNCHANGED <<current, content, retained, receipts, submitted>>
    BY <1>5 DEF ConfirmMisses, revisionVars
  <2> QED BY <1>5, <2>1, ConfirmMissesShape, CompareGoes DEF Goes
<1>6. CASE Lock(d)
  <2>1. PICK r \in Revs :
          /\ Alone(d) /\ SameFile(d) /\ SameBase(d)
          /\ dlv'[d].pc = "prepare" /\ dlv'[d].rev = r
          /\ r \notin rows /\ retained[r] = "null"
          /\ content' = [content EXCEPT ![r] = dlv[d].content]
    BY <1>6, LockShape DEF Reserves
  <2>2. /\ dlv[d].pc = "waiting" /\ lock = Nobody
        /\ UNCHANGED <<current, retained, receipts, submitted>>
    BY <1>6 DEF Lock, At
  <2> SUFFICES ASSUME SourceThere
               PROVE  (\A e \in Deliveries : ComparesWell(e)') /\ OncePerKey'
    BY <2>2, ComparePartsAfter DEF SourceThere
  <2>3. /\ r # current /\ current \in Revs /\ content \in [Revs -> Contents]
    BY <2>1, TypedParts DEF StorageInv, RestTyped, SourceThere
  <2>4. content'[r] = dlv[d].content /\ content'[current] = content[current]
    BY <2>1, <2>3
  <2>5. ASSUME NEW e \in Deliveries PROVE ComparesWell(e)'
    <3>1. CASE e = d
      <4>1. ComparesWell(d) BY CompareParts
      <4> QED
        BY <2>1, <2>2, <2>4, <3>1, <4>1
           DEF ComparesWell, Comparing, Holding, SameFile, SameBase
    <3>2. CASE e # d
      <4>1. ComparesWell(e) /\ dlv'[e] = dlv[e]
        BY <2>1, <3>2, CompareParts DEF Alone
      <4>2. dlv[e].pc \notin Holding
        BY <2>2, HoldersAssumption DEF HolderInv
      <4> QED BY <2>2, <2>4, <4>1, <4>2 DEF ComparesWell, Holding
    <3> QED BY <3>1, <3>2
  <2> QED BY <2>2, <2>5, CompareParts DEF OncePerKey
<1>7. CASE Prepare(d)
  <2>1. UNCHANGED <<current, content, retained, receipts, submitted>>
    BY <1>7 DEF Prepare, revisionVars
  <2> QED BY <1>7, <2>1, PrepareShape, CompareGoes DEF Goes, Prepare, At
<1>8. CASE PrepareFails(d)
  <2>1. UNCHANGED <<current, content, retained, receipts, submitted>>
    BY <1>8 DEF PrepareFails, revisionVars
  <2> QED BY <1>8, <2>1, PrepareFailsShape, CompareGoes DEF Ends
<1>9. CASE Publish(d)
  <2> DEFINE r == dlv[d].rev
             k == dlv[d].key
  <2>1. /\ dlv[d].pc = "publish" /\ SourceThere /\ Commits(d, Receipt(d, r, dlv[d].job, TRUE))
        /\ Receipt(d, r, dlv[d].job, TRUE) # NoReceipt
        /\ r \in Revs /\ k \in Keys /\ lock = d /\ r \notin rows /\ retained[r] = "null"
    BY <1>9, PublishShape, Carried, CompareParts, ReceiptAssumption
       DEF Publish, MayPublish, At, Holding, HolderInv, StorageInv, ComparesWell
  <2>2. /\ current' = r /\ UNCHANGED content
        /\ retained' = [retained EXCEPT ![current] =
                            IF retained[current] = "null" THEN "future" ELSE retained[current]]
        /\ receipts' = [receipts EXCEPT ![k] = Receipt(d, r, dlv[d].job, TRUE)]
        /\ \/ UNCHANGED submitted
           \/ submitted' = [submitted EXCEPT ![k] = submitted[k] + 1]
    BY <1>9 DEF Publish
  <2>3. /\ current \in Revs /\ r # current
        /\ retained \in [Revs -> {"null", "future", "past"}]
        /\ receipts \in [Keys -> ReceiptType \cup {NoReceipt}] /\ submitted \in [Keys -> Nat]
    BY <2>1, TypedParts DEF StorageInv, RestTyped, SourceThere
  <2>4. ASSUME NEW e \in Deliveries PROVE ComparesWell(e)'
    <3>1. CASE e = d
      BY <2>1, <3>1, UnawareAfter DEF Commits, Comparing, Holding
    <3>2. CASE e # d
      <4>1. ComparesWell(e) /\ dlv'[e] = dlv[e]
        BY <2>1, <3>2, CompareParts DEF Commits, Alone
      <4>2. dlv[e].pc \notin Holding
        BY <2>1, <3>2 DEF HolderInv
      <4>3. dlv[e].pc \in Comparing =>
                dlv[e].base \in Revs /\ dlv[e].base # r /\ retained'[dlv[e].base] # "null"
        BY <2>1, <2>2, <2>3, <4>1, Carried DEF ComparesWell
      <4> QED BY <2>2, <4>1, <4>2, <4>3 DEF ComparesWell, Holding
    <3> QED BY <3>1, <3>2
  <2>5. OncePerKey'
    <3>1. OncePerKey BY <2>1, CompareParts
    <3> QED BY <2>1, <2>2, <2>3, <3>1 DEF OncePerKey
  <2> QED BY <2>4, <2>5, ComparePartsAfter
<1>10. CASE PublishMisses(d)
  <2>1. UNCHANGED <<current, content, retained, receipts, submitted>>
    BY <1>10 DEF PublishMisses, revisionVars
  <2> QED BY <1>10, <2>1, PublishMissesShape, CompareGoes DEF Goes, PublishMisses, At
<1>11. CASE Discard(d)
  <2>1. UNCHANGED <<current, content, retained, receipts, submitted>>
    BY <1>11 DEF Discard, revisionVars
  <2> QED BY <1>11, <2>1, DiscardShape, CompareGoes DEF Goes
<1>12. CASE Recheck(d)
  <2>1. UNCHANGED <<current, content, retained, receipts, submitted>>
    BY <1>12 DEF Recheck, revisionVars
  <2> QED BY <1>12, <2>1, RecheckShape, CompareGoes DEF Ends
<1>13. CASE Reply(d)
  <2>1. UNCHANGED <<current, content, retained, receipts, submitted>>
    BY <1>13 DEF Reply, revisionVars
  <2> QED BY <1>13, <2>1, ReplyShape, CompareGoes DEF Ends
<1>14. CASE Deliver(d)
  <2>1. UNCHANGED <<current, content, retained, receipts, submitted>>
    BY <1>14 DEF Deliver, revisionVars
  <2> QED BY <1>14, <2>1, DeliverShape, CompareGoes DEF Begins
<1>15. CASE PublishFault(d)
  <2>1. UNCHANGED <<current, content, retained, receipts, submitted>>
    BY <1>15 DEF PublishFault, revisionVars
  <2> QED BY <1>15, <2>1, PublishFaultShape, CompareGoes DEF Goes
<1>16. CASE Dropped(d)
  <2>1. UNCHANGED <<current, content, retained, receipts, submitted>>
    BY <1>16 DEF Dropped, revisionVars
  <2> QED BY <1>16, <2>1, DroppedShape, CompareGoes DEF Dropped
<1> QED
  BY <1>1, <1>2, <1>3, <1>4, <1>5, <1>6, <1>7, <1>8, <1>9, <1>10, <1>11, <1>12,
     <1>13, <1>14, <1>15, <1>16 DEF Refresh

LEMMA CompareJobs ==
  ASSUME Typed, HolderInv, StorageInv, CompareInv,
         \/ \E j \in Jobs : Enqueue(j) \/ CancelJob(j) \/ \E i \in Jobs : Retry(i, j)
         \/ Worker
  PROVE  CompareInv'
<1> USE DEF revisionVars
<1>1. ASSUME NEW j \in Jobs, Enqueue(j) PROVE CompareInv'
  BY <1>1, CompareStays DEF Enqueue
<1>2. ASSUME NEW j \in Jobs, CancelJob(j) PROVE CompareInv'
  BY <1>2, CompareStays DEF CancelJob
<1>3. ASSUME NEW i \in Jobs, NEW j \in Jobs, Retry(i, j) PROVE CompareInv'
  <2>1. /\ UNCHANGED <<current, content, receipts, submitted, dlv>>
        /\ \/ UNCHANGED retained
           \/ path[i] \in rows /\ retained' = [retained EXCEPT ![path[i]] = "future"]
    BY <1>3 DEF Retry
  <2>2. \A r \in Revs : retained[r] # "null" => retained'[r] # "null"
    BY <2>1, TypedParts DEF RestTyped
  <2>3. ASSUME NEW d \in Deliveries, dlv[d].pc \in Holding
        PROVE  retained'[dlv[d].rev] = retained[dlv[d].rev]
    <3>1. dlv[d].rev \in Revs /\ dlv[d].rev \notin rows
      BY <2>3, Carried DEF StorageInv
    <3> QED BY <2>1, <3>1, TypedParts DEF RestTyped
  <2> QED BY <2>1, <2>2, <2>3, CompareStays
<1>4. ASSUME NEW j \in Jobs, Claim(j) PROVE CompareInv'
  BY <1>4, CompareStays DEF Claim
<1>5. CASE Register BY <1>5, CompareStays DEF Register
<1>6. CASE Finish BY <1>6, CompareStays DEF Finish
<1>7. CASE Release BY <1>7, CompareStays DEF Release
<1> QED
  BY <1>1, <1>2, <1>3, <1>4, <1>5, <1>6, <1>7 DEF Worker

LEMMA CompareClean ==
  ASSUME Typed, HolderInv, StorageInv, CompareInv, Clean \/ CleanLock \/ CleanFails
  PROVE  CompareInv'
<1> USE DEF revisionVars
<1>1. CASE CleanBegin BY <1>1, CompareStays DEF CleanBegin
<1>2. CASE CleanLock BY <1>2, CompareStays DEF CleanLock
<1>3. ASSUME NEW r \in Revs, CleanRow(r) PROVE CompareInv'
  BY <1>3, CompareStays DEF CleanRow
<1>4. CASE CleanFile BY <1>4, CompareStays DEF CleanFile
<1>5. CASE CleanScan BY <1>5, CompareStays DEF CleanScan
<1>6. CASE CleanOrphans BY <1>6, CompareStays DEF CleanOrphans
<1>7. CASE CleanFails BY <1>7, CompareStays DEF CleanFails
<1> QED
  BY <1>1, <1>2, <1>3, <1>4, <1>5, <1>6, <1>7 DEF Clean

LEMMA CompareRest ==
  ASSUME Typed, HolderInv, StorageInv, CompareInv,
         \/ DeleteLock \/ DeleteRow \/ DeleteFiles \/ DeletionDropped
         \/ Edit \/ HourPasses \/ (\E r \in Revs : RetentionEnds(r)) \/ Crash \/ Start
  PROVE  CompareInv'
<1> USE DEF revisionVars
<1>1. CASE DeleteLock BY <1>1, CompareStays DEF DeleteLock
<1>2. CASE DeleteRow BY <1>2 DEF DeleteRow, CompareInv, SourceThere
<1>3. CASE DeleteFiles BY <1>3, CompareStays DEF DeleteFiles
<1>4. CASE DeletionDropped BY <1>4, CompareStays DEF DeletionDropped
<1>5. CASE Edit BY <1>5, CompareStays DEF Edit
<1>6. CASE HourPasses BY <1>6, CompareStays DEF HourPasses
<1>7. ASSUME NEW r \in Revs, RetentionEnds(r) PROVE CompareInv'
  <2>1. /\ UNCHANGED <<current, content, receipts, submitted, dlv>>
        /\ retained[r] = "future" /\ retained' = [retained EXCEPT ![r] = "past"]
    BY <1>7 DEF RetentionEnds
  <2> SUFFICES ASSUME SourceThere
               PROVE  (\A e \in Deliveries : ComparesWell(e)') /\ OncePerKey'
    BY <2>1, ComparePartsAfter DEF SourceThere
  <2>2. \A s \in Revs : retained[s] = "null" <=> retained'[s] = "null"
    BY <2>1, TypedParts DEF RestTyped
  <2>3. ASSUME NEW e \in Deliveries PROVE ComparesWell(e)'
    <3>1. /\ ComparesWell(e) /\ (dlv[e].pc \in Comparing => dlv[e].base \in Revs)
          /\ (dlv[e].pc \in Holding => dlv[e].rev \in Revs)
      BY CompareParts, Carried
    <3> QED BY <2>1, <2>2, <3>1 DEF ComparesWell
  <2> QED BY <2>1, <2>3, CompareParts DEF OncePerKey
<1>8. CASE Crash
  <2>1. /\ UNCHANGED <<current, receipts, submitted>>
        /\ dlv' = [d \in Deliveries |-> NoDelivery]
    BY <1>8 DEF Crash, revisionVars
  <2>2. \A d \in Deliveries : ComparesWell(d)'
    BY <2>1, UnawareAfter DEF NoDelivery, Comparing, Holding
  <2> QED BY <2>1, <2>2, CompareParts, ComparePartsAfter DEF SourceThere, OncePerKey
<1>9. CASE Start BY <1>9, CompareStays DEF Start
<1> QED
  BY <1>1, <1>2, <1>3, <1>4, <1>5, <1>6, <1>7, <1>8, <1>9

LEMMA CompareStep ==
  Typed /\ HolderInv /\ StorageInv /\ CompareInv /\ [Next]_vars => CompareInv'
<1>1. ASSUME Typed, CompareInv, UNCHANGED vars PROVE CompareInv'
  BY <1>1, CompareStays DEF vars, revisionVars
<1> QED
  BY <1>1, CompareRefresh, CompareJobs, CompareClean, CompareRest DEF Next

LEMMA CompareInvariant == Spec => []CompareInv
<1>1. Init => CompareInv
  BY DEF Init, CompareInv, NoDelivery, Comparing, Holding
<1> QED
  BY <1>1, TypedInvariant, HolderInvariant, StorageInvariant, CompareStep, PTL DEF Spec

-----------------------------------------------------------------------------
(* Refreshes keep RefreshPromise: Confirm and Publish are the moments at     *)
(* which a request takes effect, DeleteRow ends every promise.               *)

Offered == IF SourceThere THEN content[current] ELSE Gone
Said ==
    [k \in Keys |-> IF receipts[k] = NoReceipt THEN NoReceipt
                    ELSE [content |-> receipts[k].content, changed |-> receipts[k].changed]]
Shown == <<Offered, Said, submitted>>

LEMMA PromiseStays ==
  ASSUME UNCHANGED <<current, content, receipts, submitted>>
  PROVE  [Promise!Next]_Shown
BY DEF Shown, Offered, Said, SourceThere

LEMMA SaidAfter ==
  ASSUME Typed, NEW k \in Keys, NEW receipt \in ReceiptType,
         receipts' = [receipts EXCEPT ![k] = receipt]
  PROVE  Said' = [Said EXCEPT ![k] = [content |-> receipt.content,
                                      changed |-> receipt.changed]]
<1> DEFINE said == [content |-> receipt.content, changed |-> receipt.changed]
<1>1. receipts \in [Keys -> ReceiptType \cup {NoReceipt}] /\ receipt # NoReceipt
  BY TypedParts, ReceiptAssumption DEF RestTyped
<1>2. ASSUME NEW i \in Keys PROVE Said'[i] = IF i = k THEN said ELSE Said[i]
  BY <1>1 DEF Said
<1> HIDE DEF said
<1>3. Said' = [i \in Keys |-> Said'[i]] /\ Said = [i \in Keys |-> Said[i]]
  BY DEF Said
<1>4. Said' = [Said EXCEPT ![k] = said]
  BY <1>2, <1>3
<1> QED BY <1>4 DEF said

LEMMA Confirms ==
  ASSUME NEW k \in Keys, Promise!Confirm(k)
  PROVE  Promise!Next
BY DEF Promise!Next

LEMMA Changes ==
  ASSUME NEW k \in Keys, NEW c \in Contents, Promise!Change(k, c)
  PROVE  Promise!Next
BY DEF Promise!Next

LEMMA ReadsTheSource ==
  ASSUME Typed, SourceThere
  PROVE  current \in Revs /\ Offered = content[current] /\ Offered \in Contents /\ Offered # Gone
BY TypedParts, ContentsAssumption DEF RestTyped, SourceThere, Offered

LEMMA PromiseRefresh ==
  ASSUME Typed, StorageInv, CompareInv, NEW d \in Deliveries,
         Refresh(d) \/ Deliver(d) \/ PublishFault(d) \/ Dropped(d)
  PROVE  [Promise!Next]_Shown
<1> USE DEF revisionVars
<1>1. CASE LookUpFound(d) BY <1>1, PromiseStays DEF LookUpFound
<1>2. CASE LookUpMisses(d) BY <1>2, PromiseStays DEF LookUpMisses
<1>3. CASE ReadState(d) BY <1>3, PromiseStays DEF ReadState
<1>4. CASE Confirm(d)
  <2>0. PICK k \in Keys : k = dlv[d].key
    BY <1>4, Carried DEF Confirm, At
  <2> DEFINE receipt == Receipt(d, dlv[d].base, NoJob, FALSE)
  <2>1. /\ dlv[d].pc = "unchanged" /\ dlv[d].base \in Revs
        /\ current = dlv[d].base /\ receipts[k] = NoReceipt
        /\ receipts' = [receipts EXCEPT ![k] = receipt]
        /\ UNCHANGED <<current, content, submitted>>
    BY <1>4, <2>0, Carried DEF Confirm, MayConfirm, At, Comparing, revisionVars
  <2>2. receipt \in ReceiptType /\ receipt.content = dlv[d].content /\ receipt.changed = FALSE
    BY <2>1, ReceiptTyped DEF Comparing
  <2>3. SourceThere
    BY <2>1, RevsAssumption DEF SourceThere
  <2>4. content[current] = dlv[d].content
    BY <2>1, <2>3 DEF CompareInv, Comparing
  <2>5. Offered = dlv[d].content /\ Offered # Gone /\ Offered' = Offered
    BY <2>1, <2>3, <2>4, ReadsTheSource DEF Offered, SourceThere
  <2>6. Said' = [Said EXCEPT ![k] = [content |-> Offered, changed |-> FALSE]]
    BY <2>1, <2>2, <2>5, SaidAfter
  <2>7. Said[k] = NoReceipt
    BY <2>1 DEF Said
  <2>8. Promise!Confirm(k)
    BY <2>1, <2>5, <2>6, <2>7 DEF Promise!Confirm, Offered, Said
  <2> QED BY <2>8, Confirms
<1>5. CASE ConfirmMisses(d) BY <1>5, PromiseStays DEF ConfirmMisses
<1>6. CASE Lock(d)
  <2>1. PICK r \in Revs : /\ r \notin rows
                          /\ content' = [content EXCEPT ![r] = dlv[d].content]
    BY <1>6 DEF Lock
  <2>2. UNCHANGED <<current, receipts, submitted>>
    BY <1>6 DEF Lock
  <2>3. SourceThere => r # current /\ current \in Revs
    BY <2>1, TypedParts DEF StorageInv, RestTyped, SourceThere
  <2>4. UNCHANGED Offered
    BY <2>1, <2>2, <2>3, TypedParts DEF Offered, SourceThere, RestTyped
  <2> QED BY <2>2, <2>4 DEF Shown, Said
<1>7. CASE Prepare(d) BY <1>7, PromiseStays DEF Prepare
<1>8. CASE PrepareFails(d) BY <1>8, PromiseStays DEF PrepareFails
<1>9. CASE Publish(d)
  <2>0. PICK k \in Keys, c \in Contents : k = dlv[d].key /\ c = dlv[d].content
    BY <1>9, Carried DEF Publish, At
  <2> DEFINE r == dlv[d].rev
             receipt == Receipt(d, r, dlv[d].job, TRUE)
  <2>1. /\ dlv[d].pc = "publish" /\ r \in Revs
        /\ SourceThere /\ current = dlv[d].base /\ receipts[k] = NoReceipt
        /\ current' = r /\ UNCHANGED content
        /\ receipts' = [receipts EXCEPT ![k] = receipt]
        /\ \/ UNCHANGED submitted
           \/ submitted' = [submitted EXCEPT ![k] = submitted[k] + 1]
        /\ dlv[d].job \in Jobs \cup {NoJob}
    BY <1>9, <2>0, Carried DEF Publish, MayPublish, At, Holding
  <2>2. receipt \in ReceiptType /\ receipt.content = c /\ receipt.changed = TRUE
    BY <2>0, <2>1, ReceiptTyped DEF Comparing
  <2>3. /\ content[r] = c /\ content[current] # c /\ submitted[k] = 0
    BY <2>0, <2>1 DEF CompareInv, Comparing
  <2>4. Offered # Gone /\ Offered # c
    BY <2>1, <2>3, ReadsTheSource
  <2>5. Offered' = c
    BY <2>1, <2>3, RevsAssumption DEF Offered, SourceThere
  <2>6. Said' = [Said EXCEPT ![k] = [content |-> c, changed |-> TRUE]]
    BY <2>1, <2>2, SaidAfter
  <2>7. Said[k] = NoReceipt
    BY <2>1 DEF Said
  <2>8. submitted' \in {submitted, [submitted EXCEPT ![k] = 1]}
    BY <2>1, <2>3
  <2>9. Promise!Change(k, c)
    BY <2>3, <2>4, <2>5, <2>6, <2>7, <2>8 DEF Promise!Change, Offered, Said
  <2> QED BY <2>9, Changes
<1>10. CASE PublishMisses(d) BY <1>10, PromiseStays DEF PublishMisses
<1>11. CASE Discard(d) BY <1>11, PromiseStays DEF Discard
<1>12. CASE Recheck(d) BY <1>12, PromiseStays DEF Recheck
<1>13. CASE Reply(d) BY <1>13, PromiseStays DEF Reply
<1>14. CASE Deliver(d) BY <1>14, PromiseStays DEF Deliver
<1>15. CASE PublishFault(d) BY <1>15, PromiseStays DEF PublishFault
<1>16. CASE Dropped(d) BY <1>16, PromiseStays DEF Dropped
<1> QED
  BY <1>1, <1>2, <1>3, <1>4, <1>5, <1>6, <1>7, <1>8, <1>9, <1>10, <1>11, <1>12,
     <1>13, <1>14, <1>15, <1>16 DEF Refresh

LEMMA PromiseJobs ==
  ASSUME Typed, StorageInv, CompareInv,
         \/ \E j \in Jobs : Enqueue(j) \/ CancelJob(j) \/ \E i \in Jobs : Retry(i, j)
         \/ Worker
  PROVE  [Promise!Next]_Shown
<1> USE DEF revisionVars
<1>1. ASSUME NEW j \in Jobs, Enqueue(j) PROVE [Promise!Next]_Shown
  BY <1>1, PromiseStays DEF Enqueue
<1>2. ASSUME NEW j \in Jobs, CancelJob(j) PROVE [Promise!Next]_Shown
  BY <1>2, PromiseStays DEF CancelJob
<1>3. ASSUME NEW i \in Jobs, NEW j \in Jobs, Retry(i, j) PROVE [Promise!Next]_Shown
  BY <1>3, PromiseStays DEF Retry
<1>4. ASSUME NEW j \in Jobs, Claim(j) PROVE [Promise!Next]_Shown
  BY <1>4, PromiseStays DEF Claim
<1>5. CASE Register BY <1>5, PromiseStays DEF Register
<1>6. CASE Finish BY <1>6, PromiseStays DEF Finish
<1>7. CASE Release BY <1>7, PromiseStays DEF Release
<1> QED
  BY <1>1, <1>2, <1>3, <1>4, <1>5, <1>6, <1>7 DEF Worker

LEMMA PromiseClean ==
  ASSUME Typed, StorageInv, CompareInv, Clean \/ CleanLock \/ CleanFails
  PROVE  [Promise!Next]_Shown
<1> USE DEF revisionVars
<1>1. CASE CleanBegin BY <1>1, PromiseStays DEF CleanBegin
<1>2. CASE CleanLock BY <1>2, PromiseStays DEF CleanLock
<1>3. ASSUME NEW r \in Revs, CleanRow(r) PROVE [Promise!Next]_Shown
  BY <1>3, PromiseStays DEF CleanRow
<1>4. CASE CleanFile BY <1>4, PromiseStays DEF CleanFile
<1>5. CASE CleanScan BY <1>5, PromiseStays DEF CleanScan
<1>6. CASE CleanOrphans BY <1>6, PromiseStays DEF CleanOrphans
<1>7. CASE CleanFails BY <1>7, PromiseStays DEF CleanFails
<1> QED
  BY <1>1, <1>2, <1>3, <1>4, <1>5, <1>6, <1>7 DEF Clean

LEMMA PromiseRest ==
  ASSUME Typed, StorageInv, CompareInv,
         \/ DeleteLock \/ DeleteRow \/ DeleteFiles \/ DeletionDropped
         \/ Edit \/ HourPasses \/ (\E r \in Revs : RetentionEnds(r)) \/ Crash \/ Start
  PROVE  [Promise!Next]_Shown
<1> USE DEF revisionVars
<1>1. CASE DeleteLock BY <1>1, PromiseStays DEF DeleteLock
<1>2. CASE DeleteRow
  <2>1. /\ current' = NoRev /\ receipts' = [k \in Keys |-> NoReceipt] /\ UNCHANGED submitted
    BY <1>2 DEF DeleteRow
  <2>2. Promise!Remove
    BY <2>1 DEF Promise!Remove, SourceThere
  <2> QED BY <2>2 DEF Promise!Next
<1>3. CASE DeleteFiles BY <1>3, PromiseStays DEF DeleteFiles
<1>4. CASE DeletionDropped BY <1>4, PromiseStays DEF DeletionDropped
<1>5. CASE Edit BY <1>5, PromiseStays DEF Edit
<1>6. CASE HourPasses BY <1>6, PromiseStays DEF HourPasses
<1>7. ASSUME NEW r \in Revs, RetentionEnds(r) PROVE [Promise!Next]_Shown
  BY <1>7, PromiseStays DEF RetentionEnds
<1>8. CASE Crash BY <1>8, PromiseStays DEF Crash
<1>9. CASE Start BY <1>9, PromiseStays DEF Start
<1> QED
  BY <1>1, <1>2, <1>3, <1>4, <1>5, <1>6, <1>7, <1>8, <1>9

LEMMA PromiseStep ==
  Typed /\ StorageInv /\ CompareInv /\ [Next]_vars => [Promise!Next]_Shown
<1>1. ASSUME UNCHANGED vars PROVE [Promise!Next]_Shown
  BY <1>1, PromiseStays DEF vars, revisionVars
<1> QED
  BY <1>1, PromiseRefresh, PromiseJobs, PromiseClean, PromiseRest DEF Next

\* Publishing implements RefreshPromise: a key takes effect at most once and starts
\* at most one job, and its receipt says "changed" exactly when it replaced the bytes
\* the source then offered.
THEOREM RefreshPromiseIsKept == Spec => RefreshPromiseKept
<1>1. Init => Promise!Init
  BY RevsAssumption DEF Init, Promise!Init, SourceThere
<1> QED
  BY <1>1, PromiseStep, TypedInvariant, StorageInvariant, CompareInvariant, PTL
     DEF Spec, RefreshPromiseKept, Promise!Spec, Promise!promiseVars, Shown, Offered, Said

=============================================================================
