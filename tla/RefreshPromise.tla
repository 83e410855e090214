--------------------------- MODULE RefreshPromise ---------------------------
(***************************************************************************)
(* What refreshing a data source promises its clients: a request is named  *)
(* by an idempotency key, takes effect at most once, and its receipt says  *)
(* truly whether the data changed.  SourceRevisions implements it.         *)
(***************************************************************************)
EXTENDS Naturals

CONSTANTS Keys, Contents, InitialContent, Gone, NoReceipt

VARIABLES
    data,      \* the bytes the source offers, or Gone
    promised,  \* per key: NoReceipt, or what its receipt says
    submitted  \* per key: how many times its request enqueued a query

promiseVars == <<data, promised, submitted>>

Init ==
    /\ data = InitialContent
    /\ promised = [k \in Keys |-> NoReceipt]
    /\ submitted = [k \in Keys |-> 0]

\* The request takes effect: new bytes are published, with a job or without.
Change(k, c) ==
    /\ data # Gone /\ c # data
    /\ promised[k] = NoReceipt /\ submitted[k] = 0
    /\ data' = c
    /\ promised' = [promised EXCEPT ![k] = [content |-> c, changed |-> TRUE]]
    /\ submitted' \in {submitted, [submitted EXCEPT ![k] = 1]}

\* The source already offers these bytes: nothing but the receipt is written.
Confirm(k) ==
    /\ data # Gone
    /\ promised[k] = NoReceipt
    /\ promised' = [promised EXCEPT ![k] = [content |-> data, changed |-> FALSE]]
    /\ UNCHANGED <<data, submitted>>

\* Receipts go with the source and only with it.
Remove ==
    /\ data' = Gone
    /\ promised' = [k \in Keys |-> NoReceipt]
    /\ UNCHANGED submitted

Next ==
    \/ \E k \in Keys : Confirm(k) \/ \E c \in Contents : Change(k, c)
    \/ Remove

Spec == Init /\ [][Next]_promiseVars

=============================================================================
