----------------------------- MODULE MpscQueue -----------------------------
(***************************************************************************)
(* The bounded lock-free queue of nn20_mpsc_queue.h: any number of         *)
(* producers, one consumer.  Position pos of the stream of items uses slot *)
(* pos % Capacity, and the slot's sequence number says whose turn it is:   *)
(*     seq = pos                 free for the producer that claims pos     *)
(*     seq = pos + 1             holds the item of pos for the consumer    *)
(*     seq = pos + Capacity      freed, the next turn's producer may come  *)
(* Every access to an atomic is a step.  The slot's two plain words are    *)
(* written and read between two of them, in steps of their own.            *)
(*                                                                         *)
(* Positions are naturals.  In the code they are size_t and wrap; capacity *)
(* is a power of two, so slot numbers and differences survive the wrap.    *)
(***************************************************************************)
EXTENDS Integers, FiniteSets

CONSTANTS
    Capacity,            \* slots, q->capacity
    Threads,             \* who may push
    Items,               \* what may be pushed
    NoItem               \* what a slot holds before its first item

ASSUME QueueAssumption == Capacity \in Nat \ {0, 1} /\ NoItem \notin Items

VARIABLES
    tail,                \* next position to claim, written by producers
    head,                \* next position to pop, written by the consumer
    slots,               \* [seq, item] of each slot
    push,                \* the push in progress in each thread
    pop                  \* the pop in progress in the consumer

queueVars == <<tail, head, slots, push, pop>>

SlotIds == 0 .. Capacity - 1
Slot(pos) == pos % Capacity

IdlePush == [pc |-> "idle", pos |-> 0, item |-> NoItem]
IdlePop == [pc |-> "idle", item |-> NoItem]

QueueInit ==
    /\ tail = 0
    /\ head = 0
    /\ slots = [i \in SlotIds |-> [seq |-> i, item |-> NoItem]]
    /\ push = [t \in Threads |-> IdlePush]
    /\ pop = IdlePop

GoPush(t, pc) == push' = [push EXCEPT ![t].pc = pc]

-----------------------------------------------------------------------------
(* nn20_mpsc_queue_push(), by thread t.                                    *)

PushBegin(t, item) ==
    /\ push[t].pc = "idle"
    /\ push' = [push EXCEPT ![t] = [pc |-> "load", pos |-> tail, item |-> item]]
    /\ UNCHANGED <<tail, head, slots, pop>>

OverwritingLoad(t) ==    \* fault: takes a slot nobody has freed yet
    /\ push[t].pc = "load"
    /\ IF slots[Slot(push[t].pos)].seq > push[t].pos
         THEN push' = [push EXCEPT ![t].pos = tail]
         ELSE GoPush(t, "claim")
    /\ UNCHANGED <<tail, head, slots, pop>>

(* What the slot's sequence number says of the position: its turn, a turn  *)
(* of the past that nobody has freed, or somebody else got there first.    *)
PushLoadSeq(t) ==
    /\ push[t].pc = "load"
    /\ LET seq == slots[Slot(push[t].pos)].seq
       IN  \/ seq = push[t].pos /\ GoPush(t, "claim")
           \/ seq < push[t].pos /\ GoPush(t, "full")
           \/ seq > push[t].pos
              /\ push' = [push EXCEPT ![t].pos = tail]
    /\ UNCHANGED <<tail, head, slots, pop>>

BlindClaim(t) ==         \* fault: a plain store instead of the exchange
    /\ push[t].pc = "claim"
    /\ tail' = push[t].pos + 1
    /\ GoPush(t, "write")
    /\ UNCHANGED <<head, slots, pop>>

(* The compare-exchange; when it fails it reloads the position.            *)
PushClaim(t) ==
    /\ push[t].pc = "claim"
    /\ \/ /\ tail = push[t].pos
          /\ tail' = tail + 1
          /\ GoPush(t, "write")
       \/ /\ tail # push[t].pos
          /\ push' = [push EXCEPT ![t].pc = "load", ![t].pos = tail]
          /\ UNCHANGED tail
    /\ UNCHANGED <<head, slots, pop>>

PushWrite(t) ==
    /\ push[t].pc = "write"
    /\ slots' = [slots EXCEPT ![Slot(push[t].pos)].item = push[t].item]
    /\ GoPush(t, "publish")
    /\ UNCHANGED <<tail, head, pop>>

PushPublish(t) ==
    /\ push[t].pc = "publish"
    /\ slots' = [slots EXCEPT ![Slot(push[t].pos)].seq = push[t].pos + 1]
    /\ GoPush(t, "pushed")
    /\ UNCHANGED <<tail, head, pop>>

PushStep(t) == PushLoadSeq(t) \/ PushClaim(t) \/ PushWrite(t) \/ PushPublish(t)

(* The caller takes the answer.                                            *)
PushReturn(t) ==
    /\ push[t].pc \in {"pushed", "full"}
    /\ push' = [push EXCEPT ![t] = IdlePush]
    /\ UNCHANGED <<tail, head, slots, pop>>

-----------------------------------------------------------------------------
(* nn20_mpsc_queue_pop(), by the one consumer.                             *)

Published == slots[Slot(head)].seq = head + 1

PopFound ==
    /\ pop.pc = "idle" /\ Published
    /\ pop' = [pop EXCEPT !.pc = "copy"]
    /\ UNCHANGED <<tail, head, slots, push>>

(* The slot at the head is empty, or claimed and not yet published.        *)
PopEmpty ==
    /\ pop.pc = "idle" /\ ~Published
    /\ UNCHANGED queueVars

PopCopy ==
    /\ pop.pc = "copy"
    /\ pop' = [pc |-> "free", item |-> slots[Slot(head)].item]
    /\ UNCHANGED <<tail, head, slots, push>>

PopFree ==
    /\ pop.pc = "free"
    /\ slots' = [slots EXCEPT ![Slot(head)].seq = head + Capacity]
    /\ pop' = [pop EXCEPT !.pc = "advance"]
    /\ UNCHANGED <<tail, head, push>>

PopAdvance ==
    /\ pop.pc = "advance"
    /\ head' = head + 1
    /\ pop' = [pop EXCEPT !.pc = "popped"]
    /\ UNCHANGED <<tail, slots, push>>

PopStep == PopFound \/ PopCopy \/ PopFree \/ PopAdvance

PopReturn ==
    /\ pop.pc = "popped"
    /\ pop' = IdlePop
    /\ UNCHANGED <<tail, head, slots, push>>

-----------------------------------------------------------------------------
(* The queue on its own: producers that push whatever they like, and a     *)
(* consumer that pops in a loop.  Worker drives the same actions.          *)

QueueNext ==
    \/ \E t \in Threads :
         \/ \E item \in Items : PushBegin(t, item)
         \/ PushStep(t)
         \/ PushReturn(t)
    \/ PopStep \/ PopEmpty \/ PopReturn

QueueSpec == QueueInit /\ [][QueueNext]_queueVars

-----------------------------------------------------------------------------
(* The positions between the consumer and the producers.  The consumer     *)
(* frees a slot before it moves `head', so for one step the position it    *)
(* has just taken is no longer the first one.                              *)
First == IF pop.pc = "advance" THEN head + 1 ELSE head

Owner(t, pos) == push[t].pc \in {"write", "publish"} /\ push[t].pos = pos

(* Type invariant.                                                         *)
QueueTypeOK ==
    /\ tail \in Nat /\ head \in Nat
    /\ slots \in [SlotIds -> [seq : Nat, item : Items \cup {NoItem}]]
    /\ push \in [Threads ->
         [pc : {"idle", "load", "claim", "write", "publish", "pushed", "full"},
          pos : Nat, item : Items \cup {NoItem}]]
    /\ pop \in [pc : {"idle", "copy", "free", "advance", "popped"},
                item : Items \cup {NoItem}]

(* No two threads ever touch the plain words of one slot at the same time: *)
(* producers that have claimed are in different slots, and the consumer    *)
(* copies only out of a slot no producer is writing.                       *)
SlotExclusive ==
    /\ \A s, t \in Threads :
         push[s].pc \in {"write", "publish"} /\ push[t].pc \in {"write", "publish"}
           /\ Slot(push[s].pos) = Slot(push[t].pos) => s = t
    /\ pop.pc \in {"copy", "free"} =>
         \A t \in Threads : push[t].pc \in {"write", "publish"} =>
                                Slot(push[t].pos) # Slot(head)

(* The queue holds at most Capacity positions, and the consumer never gets *)
(* ahead of the producers.                                                 *)
QueueBounded == First <= tail /\ tail <= First + Capacity
=============================================================================
