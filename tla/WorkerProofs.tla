---------------------------- MODULE WorkerProofs ----------------------------
(***************************************************************************)
(* The worker and its lock-free queue, for any number of producers, calls  *)
(* and slots: no two threads touch a slot at a time; the worker uses its   *)
(* queue as the queue's own specification says, which makes that a         *)
(* first-in first-out line; it loses no wake-up; stop() runs everything,   *)
(* stop_now() at most one task more; and a synchronous request is answered *)
(* truthfully and never outlives its caller.                               *)
(*                                                                         *)
(* The queue comes first, on its own.  The safety of its plain words rests *)
(* on what the slots' sequence numbers say of every position of the window *)
(*         First .. First + Capacity - 1                                   *)
(* the queue spans at any moment.                                          *)
(***************************************************************************)
EXTENDS Worker, RingIndex, SequenceTheorems

Owned(pos) == \E t \in Threads : Owner(t, pos)

(* A position of the window holds its own number while it is free or being *)
(* written, and the next one once its item is published.                   *)
SeqOK == \A pos \in Nat :
    First <= pos /\ pos < First + Capacity =>
        slots[Slot(pos)].seq = IF pos < tail /\ ~Owned(pos) THEN pos + 1 ELSE pos

(* Where each producer is, and that what it has claimed is its own.        *)
ClaimOK == \A t \in Threads :
    /\ push[t].pc \in {"load", "claim"} => push[t].pos <= tail
    /\ push[t].pc = "claim" /\ push[t].pos = tail => tail < First + Capacity
    /\ push[t].pc \in {"write", "publish"} =>
         First <= push[t].pos /\ push[t].pos < tail

OneOwner == \A s, t \in Threads, pos \in Nat :
    Owner(s, pos) /\ Owner(t, pos) => s = t

(* What the consumer has found stays published until it frees it.          *)
PopOK == pop.pc \in {"copy", "free"} => head < tail /\ ~Owned(head)

(* The invariant that every step preserves.                                *)
QueueInv == QueueTypeOK /\ QueueBounded /\ SeqOK /\ ClaimOK /\ OneOwner /\ PopOK

(* Positions and slots.                                                    *)
LEMMA SlotType == \A pos \in Nat : Slot(pos) \in SlotIds
BY QueueAssumption, DivMod DEF Slot, SlotIds

LEMMA WindowSlots ==
    ASSUME NEW f \in Nat, NEW p \in Nat, NEW q \in Nat,
           f <= p, p < f + Capacity, f <= q, q < f + Capacity,
           Slot(p) = Slot(q)
    PROVE  p = q
<1>1. Capacity \in Nat \ {0}  BY QueueAssumption
<1>2. p < q + Capacity /\ q < p + Capacity  BY <1>1
<1>3. p % Capacity = q % Capacity  BY DEF Slot
<1> QED  BY <1>1, <1>2, <1>3, SameSlot

LEMMA SlotNextTurn == \A pos \in Nat : Slot(pos + Capacity) = Slot(pos)
BY QueueAssumption, NextTurn DEF Slot

-----------------------------------------------------------------------------
LEMMA QueueInitInv == QueueInit => QueueInv
<1> SUFFICES ASSUME QueueInit PROVE QueueInv  OBVIOUS
<1> USE QueueAssumption
<1>1. QueueTypeOK
  BY DEF QueueInit, QueueTypeOK, SlotIds, IdlePush, IdlePop
<1>2. First = 0 /\ tail = 0
  BY DEF QueueInit, First, IdlePop
<1>3. SeqOK
  <2> SUFFICES ASSUME NEW pos \in Nat, pos < Capacity
               PROVE  slots[Slot(pos)].seq = pos
    BY <1>2 DEF SeqOK
  <2>1. pos \in SlotIds  BY DEF SlotIds
  <2>2. pos = (Capacity * 0) + pos  OBVIOUS
  <2>3. pos % Capacity = pos  BY <2>1, <2>2, SplitOnce DEF SlotIds
  <2> QED  BY <2>1, <2>3 DEF QueueInit, Slot
<1>4. ClaimOK /\ OneOwner /\ PopOK
  BY DEF ClaimOK, OneOwner, Owner, PopOK, QueueInit, IdlePush, IdlePop
<1> QED  BY <1>1, <1>2, <1>3, <1>4 DEF QueueInv, QueueBounded

(* Steps of a producer that neither claim nor publish.                     *)
LEMMA QueueKeepsOwners ==
    ASSUME QueueInv, QueueTypeOK', ClaimOK',
           UNCHANGED <<tail, head, pop>>,
           \A i \in SlotIds : slots'[i].seq = slots[i].seq,
           \A s \in Threads, pos \in Nat : Owner(s, pos)' <=> Owner(s, pos)
    PROVE  QueueInv'
<1> USE DEF QueueInv
<1>1. First' = First  BY DEF First
<1>2. First \in Nat  BY DEF First, QueueTypeOK
<1>3. \A pos \in Nat : Owned(pos)' <=> Owned(pos)  BY DEF Owned
<1>4. SeqOK'
  <2> SUFFICES ASSUME NEW pos \in Nat, First <= pos, pos < First + Capacity
               PROVE  slots'[Slot(pos)].seq =
                        IF pos < tail /\ ~Owned(pos) THEN pos + 1 ELSE pos
    BY <1>1, <1>3 DEF SeqOK, Slot
  <2>1. Slot(pos) \in SlotIds  BY SlotType
  <2> QED  BY <2>1 DEF SeqOK
<1>5. PopOK'  BY <1>3 DEF PopOK, QueueTypeOK
<1>6. QueueBounded'  BY <1>1 DEF QueueBounded
<1>7. OneOwner'  BY DEF OneOwner
<1> QED  BY <1>4, <1>5, <1>6, <1>7

LEMMA PushBeginInv ==
    ASSUME QueueInv, NEW t \in Threads, NEW item \in Items, PushBegin(t, item)
    PROVE  QueueInv'
<1> USE DEF QueueInv, PushBegin
<1>1. QueueTypeOK'  BY DEF QueueTypeOK
<1>2. \A s \in Threads, pos \in Nat : Owner(s, pos)' <=> Owner(s, pos)
  BY DEF Owner, QueueTypeOK
<1>3. ClaimOK'
  BY <1>2 DEF ClaimOK, QueueTypeOK, First, Owner
<1> QED  BY <1>1, <1>2, <1>3, QueueKeepsOwners

LEMMA PushLoadSeqInv ==
    ASSUME QueueInv, NEW t \in Threads, PushLoadSeq(t)
    PROVE  QueueInv'
<1> USE DEF QueueInv, PushLoadSeq, GoPush
<1>1. QueueTypeOK'  BY DEF QueueTypeOK
<1>2. \A s \in Threads, pos \in Nat : Owner(s, pos)' <=> Owner(s, pos)
  BY DEF Owner, QueueTypeOK
<1>3. /\ First \in Nat /\ tail \in Nat /\ First' = First
      /\ First <= tail /\ tail <= First + Capacity
  BY DEF First, QueueTypeOK, QueueBounded
(* A full queue: the slot of the tail still belongs to the turn before.    *)
<1>4. tail = First + Capacity => slots[Slot(tail)].seq # tail
  <2> SUFFICES ASSUME tail = First + Capacity
               PROVE  slots[Slot(First)].seq # tail
    BY <1>3, SlotNextTurn
  <2>1. slots[Slot(First)].seq \in {First, First + 1}
    BY <1>3, QueueAssumption DEF SeqOK
  <2> QED  BY <1>3, <2>1, QueueAssumption
<1>5. ClaimOK'
  <2> SUFFICES ASSUME NEW s \in Threads  PROVE
        /\ push'[s].pc \in {"load", "claim"} => push'[s].pos <= tail
        /\ push'[s].pc = "claim" /\ push'[s].pos = tail
             => tail < First + Capacity
        /\ push'[s].pc \in {"write", "publish"} =>
             First <= push'[s].pos /\ push'[s].pos < tail
    BY <1>3 DEF ClaimOK
  <2>1. CASE s # t
    BY <2>1 DEF ClaimOK, QueueTypeOK
  <2>2. push[t].pos <= tail  BY DEF ClaimOK
  <2>3. /\ push'[t].pc \in {"claim", "full", "load"}
        /\ push'[t].pos \in {push[t].pos, tail}
    BY DEF QueueTypeOK
  <2>4. push'[t].pc = "claim" =>
          push'[t].pos = push[t].pos /\ slots[Slot(push[t].pos)].seq = push[t].pos
    BY DEF QueueTypeOK
  <2>5. CASE s = t
    <3>1. push'[t].pc = "claim" /\ push'[t].pos = tail => tail < First + Capacity
      BY <2>4, <1>3, <1>4, QueueAssumption
    <3> QED  BY <2>2, <2>3, <2>5, <3>1, <1>3
  <2> QED  BY <2>1, <2>5
<1> QED  BY <1>1, <1>2, <1>5, QueueKeepsOwners

LEMMA PushReturnInv ==
    ASSUME QueueInv, NEW t \in Threads, PushReturn(t)
    PROVE  QueueInv'
<1> USE DEF QueueInv, PushReturn, IdlePush
<1>1. QueueTypeOK'  BY DEF QueueTypeOK
<1>2. \A s \in Threads, pos \in Nat : Owner(s, pos)' <=> Owner(s, pos)
  BY DEF Owner, QueueTypeOK
<1>3. ClaimOK'
  BY <1>2 DEF ClaimOK, QueueTypeOK, First, Owner
<1> QED  BY <1>1, <1>2, <1>3, QueueKeepsOwners

LEMMA PushWriteInv ==
    ASSUME QueueInv, NEW t \in Threads, PushWrite(t)
    PROVE  QueueInv'
<1> USE DEF QueueInv, PushWrite, GoPush
<1>0. Slot(push[t].pos) \in SlotIds  BY SlotType DEF QueueTypeOK
<1>1. QueueTypeOK'  BY <1>0 DEF QueueTypeOK
<1>2. \A s \in Threads, pos \in Nat : Owner(s, pos)' <=> Owner(s, pos)
  BY DEF Owner, QueueTypeOK
<1>3. \A i \in SlotIds : slots'[i].seq = slots[i].seq
  BY <1>0 DEF QueueTypeOK
<1>4. ClaimOK'
  BY <1>2 DEF ClaimOK, QueueTypeOK, First, Owner
<1> QED  BY <1>1, <1>2, <1>3, <1>4, QueueKeepsOwners

(* The claim: the tail moves over a position of the window, whose owner is *)
(* now the claimer.                                                        *)
LEMMA PushClaimInv ==
    ASSUME QueueInv, NEW t \in Threads, PushClaim(t)
    PROVE  QueueInv'
<1> USE DEF QueueInv, GoPush
<1>1. QueueTypeOK'  BY DEF QueueTypeOK, PushClaim
<1>2. First' = First /\ First \in Nat /\ tail \in Nat
  BY DEF PushClaim, First, QueueTypeOK
<1>3. CASE tail # push[t].pos
  <2>1. \A s \in Threads, pos \in Nat : Owner(s, pos)' <=> Owner(s, pos)
    BY <1>3 DEF Owner, QueueTypeOK, PushClaim
  <2>2. ClaimOK'
    BY <1>3, <2>1, <1>2 DEF ClaimOK, QueueTypeOK, PushClaim, Owner
  <2> QED  BY <1>1, <1>3, <2>1, <2>2, QueueKeepsOwners DEF PushClaim
<1>4. CASE tail = push[t].pos
  <2>1. /\ push[t].pc = "claim" /\ tail' = tail + 1
        /\ push' = [push EXCEPT ![t].pc = "write"]
        /\ UNCHANGED <<head, slots, pop>>
    BY <1>4 DEF PushClaim
  <2>2. tail < First + Capacity  BY <1>4, <2>1 DEF ClaimOK
  <2>3. \A s \in Threads, pos \in Nat :
          Owner(s, pos)' <=> Owner(s, pos) \/ (s = t /\ pos = tail)
    BY <1>4, <2>1 DEF Owner, QueueTypeOK
  <2>4. \A pos \in Nat : Owned(pos)' <=> Owned(pos) \/ pos = tail
    BY <2>3 DEF Owned
  <2>5. \A s \in Threads, pos \in Nat : Owner(s, pos) => pos < tail
    BY DEF Owner, ClaimOK
  <2>6. QueueBounded'  BY <1>2, <2>1, <2>2, QueueAssumption DEF QueueBounded
  <2>7. SeqOK'
    BY <1>2, <2>1, <2>4, QueueAssumption DEF SeqOK, Slot
  <2>8. OneOwner'
    <3> SUFFICES ASSUME NEW r \in Threads, NEW s \in Threads, NEW pos \in Nat,
                        Owner(r, pos)', Owner(s, pos)'
                 PROVE  r = s
      BY DEF OneOwner
    <3>1. CASE pos = tail
      <4>1. ~Owner(r, pos) /\ ~Owner(s, pos)  BY <3>1, <2>5, <1>2
      <4> QED  BY <4>1, <2>3
    <3>2. CASE pos # tail
      BY <3>2, <2>3 DEF OneOwner
    <3> QED  BY <3>1, <3>2
  <2>9. ClaimOK'
    <3> SUFFICES ASSUME NEW s \in Threads  PROVE
          /\ push'[s].pc \in {"load", "claim"} => push'[s].pos <= tail + 1
          /\ push'[s].pc = "claim" => push'[s].pos # tail + 1
          /\ push'[s].pc \in {"write", "publish"} =>
               First <= push'[s].pos /\ push'[s].pos < tail + 1
      BY <1>2, <2>1 DEF ClaimOK
    <3>1. CASE s = t
      <4>1. push'[s].pc = "write" /\ push'[s].pos = tail
        BY <3>1, <2>1, <1>4 DEF QueueTypeOK
      <4> QED  BY <4>1, <1>2 DEF QueueBounded
    <3>2. CASE s # t
      <4>1. push'[s] = push[s] /\ push[s].pos \in Nat
        BY <3>2, <2>1 DEF QueueTypeOK
      <4> QED  BY <4>1, <1>2 DEF ClaimOK
    <3> QED  BY <3>1, <3>2
  <2>10. PopOK'
    <3>1. \A pos \in Nat : Owned(pos)' => Owned(pos) \/ pos >= tail
      BY <2>4, <1>2
    <3>2. pop.pc \in {"copy", "free"} => head < tail /\ ~Owned(head)
      BY DEF PopOK
    <3> QED  BY <3>1, <3>2, <2>1, <1>2 DEF PopOK, QueueTypeOK, Owned, Owner
  <2> QED  BY <1>1, <2>6, <2>7, <2>8, <2>9, <2>10
<1> QED  BY <1>3, <1>4

(* The publication: the position becomes the consumer's.                   *)
LEMMA PushPublishInv ==
    ASSUME QueueInv, NEW t \in Threads, PushPublish(t)
    PROVE  QueueInv'
<1> USE DEF QueueInv, GoPush
<1> DEFINE mine == push[t].pos
<1>0. mine \in Nat /\ Slot(mine) \in SlotIds  BY SlotType DEF QueueTypeOK
<1>1. QueueTypeOK'  BY <1>0 DEF QueueTypeOK, PushPublish
<1>2. First' = First /\ First \in Nat /\ tail \in Nat /\ tail' = tail
  BY DEF PushPublish, First, QueueTypeOK
<1>3. /\ First <= mine /\ mine < tail /\ Owner(t, mine)
      /\ \A s \in Threads : Owner(s, mine) => s = t
  BY <1>0 DEF PushPublish, ClaimOK, OneOwner, Owner
<1>4. \A s \in Threads, pos \in Nat : Owner(s, pos)' <=> Owner(s, pos) /\ s # t
  BY DEF Owner, QueueTypeOK, PushPublish
<1>5. \A pos \in Nat : Owned(pos)' <=> Owned(pos) /\ pos # mine
  BY <1>3, <1>4 DEF Owned, Owner
<1>6. SeqOK'
  <2> SUFFICES ASSUME NEW pos \in Nat, First <= pos, pos < First + Capacity
               PROVE  slots'[Slot(pos)].seq =
                        IF pos < tail /\ ~Owned(pos)' THEN pos + 1 ELSE pos
    BY <1>2 DEF SeqOK, Slot
  <2>1. Slot(pos) \in SlotIds  BY SlotType
  <2>2. CASE pos = mine
    <3>1. slots'[Slot(pos)].seq = pos + 1
      BY <2>1, <2>2 DEF PushPublish, QueueTypeOK
    <3> QED  BY <3>1, <2>2, <1>3, <1>5
  <2>3. CASE pos # mine
    <3>1. Slot(pos) # Slot(mine)
      <4>1. mine < First + Capacity
        BY <1>0, <1>2, <1>3, QueueAssumption DEF QueueBounded
      <4> QED  BY <4>1, <2>3, <1>0, <1>2, <1>3, WindowSlots
    <3>2. slots'[Slot(pos)].seq = slots[Slot(pos)].seq
      BY <3>1, <2>1 DEF PushPublish, QueueTypeOK
    <3> QED  BY <3>2, <2>3, <1>5 DEF SeqOK
  <2> QED  BY <2>2, <2>3
<1>7. ClaimOK' /\ OneOwner'
  BY <1>2, <1>4 DEF ClaimOK, OneOwner, QueueTypeOK, PushPublish
<1>8. PopOK' /\ QueueBounded'
  BY <1>2, <1>5 DEF PopOK, QueueBounded, PushPublish, QueueTypeOK
<1> QED  BY <1>1, <1>6, <1>7, <1>8

-----------------------------------------------------------------------------
(* Steps of the consumer that leave the window where it is.                *)
LEMMA QueueKeepsWindow ==
    ASSUME QueueInv, UNCHANGED <<tail, slots, push>>, First' = First,
           QueueTypeOK', PopOK'
    PROVE  QueueInv'
<1>1. \A t \in Threads, pos \in Nat : Owner(t, pos)' <=> Owner(t, pos)
  BY DEF Owner
<1>2. \A pos \in Nat : Owned(pos)' <=> Owned(pos)  BY <1>1 DEF Owned
<1>3. SeqOK'  BY <1>2 DEF QueueInv, SeqOK, Slot
<1>4. ClaimOK' /\ OneOwner'  BY <1>1 DEF QueueInv, ClaimOK, OneOwner
<1> QED  BY <1>3, <1>4 DEF QueueInv, QueueBounded

(* An item is found where the sequence number says so, and nowhere else.   *)
LEMMA PopFoundInv ==
    ASSUME QueueInv, PopFound
    PROVE  QueueInv'
<1> USE DEF QueueInv, PopFound
<1>1. QueueTypeOK' /\ First' = First /\ First = head /\ head \in Nat /\ tail \in Nat
  BY DEF QueueTypeOK, First
<1>2. head < tail /\ ~Owned(head)
  <2>1. head < First + Capacity /\ First <= head
    BY <1>1, QueueAssumption
  <2>2. slots[Slot(head)].seq = IF head < tail /\ ~Owned(head) THEN head + 1 ELSE head
    BY <1>1, <2>1 DEF SeqOK
  <2> QED  BY <1>1, <2>2 DEF Published
<1>3. PopOK'  BY <1>2 DEF PopOK, Owned, Owner
<1> QED  BY <1>1, <1>3, QueueKeepsWindow

LEMMA PopCopyInv ==
    ASSUME QueueInv, PopCopy
    PROVE  QueueInv'
<1> USE DEF QueueInv, PopCopy
<1>1. QueueTypeOK'
  <2>1. Slot(head) \in SlotIds  BY SlotType DEF QueueTypeOK
  <2> QED  BY <2>1 DEF QueueTypeOK
<1>2. First' = First  BY DEF First
<1>3. PopOK'  BY DEF PopOK, Owned, Owner
<1> QED  BY <1>1, <1>2, <1>3, QueueKeepsWindow

(* The release: the window moves over the position it leaves behind.       *)
LEMMA PopFreeInv ==
    ASSUME QueueInv, PopFree
    PROVE  QueueInv'
<1> USE DEF QueueInv
<1>1. /\ head \in Nat /\ tail \in Nat /\ First = head /\ First' = head + 1
      /\ head' = head /\ tail' = tail /\ push' = push /\ pop'.pc = "advance"
      /\ slots' = [slots EXCEPT ![Slot(head)].seq = head + Capacity]
      /\ Slot(head) \in SlotIds
  BY SlotType DEF PopFree, QueueTypeOK, First
<1>2. QueueTypeOK'
  <2>1. pop' \in [pc : {"idle", "copy", "free", "advance", "popped"},
                   item : Items \cup {NoItem}]
    BY DEF PopFree, QueueTypeOK
  <2>2. head + Capacity \in Nat  BY <1>1, QueueAssumption
  <2>3. slots' \in [SlotIds -> [seq : Nat, item : Items \cup {NoItem}]]
    BY <1>1, <2>2 DEF QueueTypeOK
  <2> QED  BY <1>1, <2>1, <2>3 DEF QueueTypeOK
<1>3. head < tail /\ ~Owned(head)  BY DEF PopFree, PopOK
<1>4. \A t \in Threads, pos \in Nat : Owner(t, pos)' <=> Owner(t, pos)
  BY <1>1 DEF Owner
<1>5. \A pos \in Nat : Owned(pos)' <=> Owned(pos)  BY <1>4 DEF Owned
<1>6. SeqOK'
  <2> SUFFICES ASSUME NEW pos \in Nat, head + 1 <= pos, pos <= head + Capacity
               PROVE  slots'[Slot(pos)].seq =
                        IF pos < tail /\ ~Owned(pos) THEN pos + 1 ELSE pos
    BY <1>1, <1>5, QueueAssumption DEF SeqOK, Slot
  <2>1. Slot(pos) \in SlotIds  BY SlotType
  <2>2. CASE pos = head + Capacity
    <3>1. Slot(pos) = Slot(head)  BY <2>2, <1>1, SlotNextTurn
    <3>2. slots'[Slot(pos)].seq = pos  BY <3>1, <2>2, <1>1 DEF QueueTypeOK
    <3>3. ~(pos < tail)  BY <2>2, <1>1, QueueAssumption DEF QueueBounded
    <3> QED  BY <3>2, <3>3
  <2>3. CASE pos # head + Capacity
    <3>1. pos < head + Capacity /\ head <= pos /\ pos # head
      BY <2>3, <1>1, QueueAssumption
    <3>2. Slot(pos) # Slot(head)
      BY <3>1, <1>1, QueueAssumption, WindowSlots
    <3>3. slots'[Slot(pos)].seq = slots[Slot(pos)].seq
      BY <3>2, <2>1, <1>1 DEF QueueTypeOK
    <3> QED  BY <3>1, <3>3, <1>1 DEF SeqOK
  <2> QED  BY <2>2, <2>3
<1>7. ClaimOK'
  <2> SUFFICES ASSUME NEW t \in Threads  PROVE
        /\ push[t].pc \in {"load", "claim"} => push[t].pos <= tail
        /\ push[t].pc = "claim" /\ push[t].pos = tail
             => tail < head + 1 + Capacity
        /\ push[t].pc \in {"write", "publish"} =>
             head + 1 <= push[t].pos /\ push[t].pos < tail
    BY <1>1 DEF ClaimOK
  <2>1. push[t].pos \in Nat  BY DEF QueueTypeOK
  <2>2. push[t].pc \in {"write", "publish"} => push[t].pos # head
    BY <1>1, <1>3 DEF Owned, Owner
  <2> QED  BY <1>1, <2>1, <2>2, QueueAssumption DEF ClaimOK
<1>8. OneOwner'  BY <1>4 DEF OneOwner
<1>9. QueueBounded' /\ PopOK'
  BY <1>1, <1>3, QueueAssumption DEF QueueBounded, PopOK
<1> QED  BY <1>2, <1>6, <1>7, <1>8, <1>9

LEMMA PopAdvanceInv ==
    ASSUME QueueInv, PopAdvance
    PROVE  QueueInv'
<1> USE DEF QueueInv, PopAdvance
<1>1. QueueTypeOK' /\ First' = First  BY DEF QueueTypeOK, First
<1>2. PopOK'  BY DEF PopOK, QueueTypeOK
<1> QED  BY <1>1, <1>2, QueueKeepsWindow

LEMMA PopReturnInv ==
    ASSUME QueueInv, PopReturn
    PROVE  QueueInv'
<1> USE DEF QueueInv, PopReturn, IdlePop
<1>1. QueueTypeOK' /\ First' = First /\ PopOK'
  BY DEF QueueTypeOK, First, PopOK
<1> QED  BY <1>1, QueueKeepsWindow

LEMMA QueueStutterInv == ASSUME QueueInv, UNCHANGED queueVars PROVE QueueInv'
<1> USE DEF QueueInv, queueVars
<1>1. QueueTypeOK' /\ First' = First /\ PopOK'
  BY DEF QueueTypeOK, First, PopOK, Owned, Owner
<1> QED  BY <1>1, QueueKeepsWindow

LEMMA QueueNextInv == QueueInv /\ [QueueNext]_queueVars => QueueInv'
<1> SUFFICES ASSUME QueueInv, [QueueNext]_queueVars PROVE QueueInv'  OBVIOUS
<1>1. CASE \E t \in Threads, item \in Items : PushBegin(t, item)
  BY <1>1, PushBeginInv
<1>2. ASSUME NEW t \in Threads, PushStep(t) PROVE QueueInv'
  BY <1>2, PushLoadSeqInv, PushClaimInv, PushWriteInv, PushPublishInv
  DEF PushStep
<1>3. CASE \E t \in Threads : PushReturn(t)  BY <1>3, PushReturnInv
<1>4. CASE PopStep
  BY <1>4, PopFoundInv, PopCopyInv, PopFreeInv, PopAdvanceInv DEF PopStep
<1>5. CASE PopReturn  BY <1>5, PopReturnInv
<1>6. CASE PopEmpty \/ UNCHANGED queueVars
  BY <1>6, QueueStutterInv DEF PopEmpty
<1> QED  BY <1>1, <1>2, <1>3, <1>4, <1>5, <1>6 DEF QueueNext

LEMMA QueueInvExclusive == QueueInv => SlotExclusive
<1> SUFFICES ASSUME QueueInv PROVE SlotExclusive  OBVIOUS
<1> USE DEF QueueInv
<1>1. First \in Nat /\ tail \in Nat  BY DEF QueueTypeOK, First
<1>2. ASSUME NEW t \in Threads, push[t].pc \in {"write", "publish"}
      PROVE  /\ push[t].pos \in Nat /\ Owner(t, push[t].pos)
             /\ First <= push[t].pos /\ push[t].pos < First + Capacity
  BY <1>1, <1>2, QueueAssumption
  DEF QueueTypeOK, ClaimOK, QueueBounded, Owner
<1>3. ASSUME NEW s \in Threads, NEW t \in Threads,
             push[s].pc \in {"write", "publish"},
             push[t].pc \in {"write", "publish"},
             Slot(push[s].pos) = Slot(push[t].pos)
      PROVE  s = t
  <2>1. push[s].pos = push[t].pos
    BY <1>1, <1>2, <1>3, WindowSlots
  <2> QED  BY <1>2, <1>3, <2>1 DEF OneOwner
<1>4. ASSUME pop.pc \in {"copy", "free"}, NEW t \in Threads,
             push[t].pc \in {"write", "publish"},
             Slot(push[t].pos) = Slot(head)
      PROVE  FALSE
  <2>1. head = First /\ head \in Nat /\ head < First + Capacity
    BY <1>1, <1>4, QueueAssumption DEF QueueTypeOK, First
  <2>2. push[t].pos = head
    BY <1>1, <1>2, <1>4, <2>1, WindowSlots
  <2> QED  BY <1>2, <1>4, <2>2 DEF PopOK, Owned
<1> QED  BY <1>3, <1>4 DEF SlotExclusive

-----------------------------------------------------------------------------
(* What is published, and so what the consumer gets, was pushed: a slot    *)
(* that has once been written holds an item ever after.                    *)
Written(pos) == slots[Slot(pos)].item \in Items

ItemsOK ==
    /\ \A t \in Threads : /\ push[t].pc # "idle" => push[t].item \in Items
                          /\ push[t].pc = "publish" => Written(push[t].pos)
    /\ \A pos \in Nat : First <= pos /\ pos < tail /\ ~Owned(pos) => Written(pos)
    /\ pop.pc \in {"free", "advance", "popped"} => pop.item \in Items

LEMMA QueueInitItems == QueueInit => ItemsOK
BY DEF QueueInit, ItemsOK, IdlePush, IdlePop, First

LEMMA QueueNextItems == QueueInv /\ ItemsOK /\ [QueueNext]_queueVars => ItemsOK'
<1> SUFFICES ASSUME QueueInv, ItemsOK, [QueueNext]_queueVars PROVE ItemsOK'
  OBVIOUS
<1> USE DEF QueueInv
<1>1. ASSUME NEW t \in Threads, NEW item \in Items, PushBegin(t, item)
      PROVE  ItemsOK'
  <2>1. \A pos \in Nat : Owned(pos)' <=> Owned(pos)
    BY <1>1 DEF Owned, Owner, PushBegin, QueueTypeOK
  <2> QED  BY <1>1, <2>1 DEF PushBegin, ItemsOK, QueueTypeOK, Written, Slot, First
<1>2. ASSUME NEW t \in Threads, PushLoadSeq(t) PROVE ItemsOK'
  <2>1. \A pos \in Nat : Owned(pos)' <=> Owned(pos)
    BY <1>2 DEF Owned, Owner, PushLoadSeq, GoPush, QueueTypeOK
  <2> QED  BY <1>2, <2>1
           DEF PushLoadSeq, GoPush, ItemsOK, QueueTypeOK, Written, Slot, First
<1>3. ASSUME NEW t \in Threads, PushClaim(t) PROVE ItemsOK'
  <2>1. \A pos \in Nat : Owned(pos) => Owned(pos)'
    BY <1>3 DEF Owned, Owner, PushClaim, GoPush, QueueTypeOK
  <2>2. tail' # tail => tail' = tail + 1 /\ Owner(t, push[t].pos)'
                        /\ push[t].pos = tail /\ push'[t].pos = push[t].pos
    BY <1>3 DEF PushClaim, Owner, GoPush, QueueTypeOK
  <2>3. \A pos \in Nat : pos < tail' /\ ~(pos < tail) => Owned(pos)'
    BY <2>2, <1>3 DEF Owned, Owner, QueueTypeOK, PushClaim
  <2> QED  BY <1>3, <2>1, <2>3
           DEF PushClaim, GoPush, ItemsOK, QueueTypeOK, Written, Slot, First
<1>4. ASSUME NEW t \in Threads, PushWrite(t) PROVE ItemsOK'
  <2>1. \A pos \in Nat : Owned(pos)' <=> Owned(pos)
    BY <1>4 DEF Owned, Owner, PushWrite, GoPush, QueueTypeOK
  <2>2. push[t].pos \in Nat /\ Slot(push[t].pos) \in SlotIds /\ push[t].item \in Items
    BY <1>4, SlotType DEF PushWrite, ItemsOK, QueueTypeOK
  <2>3. \A pos \in Nat : Written(pos) \/ pos = push[t].pos => Written(pos)'
    BY <1>4, <2>2, SlotType DEF PushWrite, Written, Slot, QueueTypeOK
  <2>4. \A s \in Threads : /\ push'[s].item = push[s].item
                           /\ push'[s].pos = push[s].pos /\ push[s].pos \in Nat
                           /\ s # t => push'[s].pc = push[s].pc
    BY <1>4 DEF PushWrite, GoPush, QueueTypeOK
  <2> QED  BY <1>4, <2>1, <2>2, <2>3, <2>4
           DEF PushWrite, ItemsOK, First, Written, Slot
<1>5. ASSUME NEW t \in Threads, PushPublish(t) PROVE ItemsOK'
  <2>1. push[t].pos \in Nat /\ Written(push[t].pos) /\ Owner(t, push[t].pos)
    BY <1>5 DEF PushPublish, ItemsOK, QueueTypeOK, Owner
  <2>2. \A pos \in Nat : Owned(pos) => Owned(pos)' \/ pos = push[t].pos
    BY <1>5 DEF Owned, Owner, PushPublish, GoPush, QueueTypeOK
  <2>3. \A pos \in Nat : Written(pos)' <=> Written(pos)
    BY <1>5, SlotType DEF PushPublish, Written, Slot, QueueTypeOK
  <2>4. \A s \in Threads : /\ push'[s].item = push[s].item
                           /\ push'[s].pos = push[s].pos /\ push[s].pos \in Nat
                           /\ push'[s].pc # "idle" => push[s].pc # "idle"
                           /\ push'[s].pc = "publish" => push[s].pc = "publish"
    BY <1>5 DEF PushPublish, GoPush, QueueTypeOK
  <2> QED  BY <1>5, <2>1, <2>2, <2>3, <2>4
           DEF PushPublish, ItemsOK, First, Written, Slot
<1>6. ASSUME NEW t \in Threads, PushReturn(t) PROVE ItemsOK'
  <2>1. \A pos \in Nat : Owned(pos)' <=> Owned(pos)
    BY <1>6 DEF Owned, Owner, PushReturn, IdlePush, QueueTypeOK
  <2> QED  BY <1>6, <2>1
           DEF PushReturn, IdlePush, ItemsOK, QueueTypeOK, Written, Slot, First
<1>7. ASSUME UNCHANGED <<tail, push>>, PopStep \/ PopReturn PROVE ItemsOK'
  <2>1. \A pos \in Nat : Owned(pos)' <=> Owned(pos)  BY <1>7 DEF Owned, Owner
  <2>2. \A pos \in Nat : Written(pos)' <=> Written(pos)
    BY <1>7, SlotType
    DEF PopStep, PopFound, PopCopy, PopFree, PopAdvance, PopReturn, Written,
        Slot, QueueTypeOK
  <2>3. First' >= First /\ First \in Nat /\ First' \in Nat
    BY <1>7
    DEF PopStep, PopFound, PopCopy, PopFree, PopAdvance, PopReturn, IdlePop,
        First, QueueTypeOK
  <2>4. pop'.pc \in {"free", "advance", "popped"} => pop'.item \in Items
    <3>1. CASE PopCopy
      <4>1. head \in Nat /\ First = head /\ head < tail /\ ~Owned(head)
        BY <3>1 DEF PopCopy, PopOK, First, QueueTypeOK
      <4> QED  BY <3>1, <4>1 DEF PopCopy, ItemsOK, Written
    <3> QED  BY <1>7, <3>1
             DEF PopStep, PopFound, PopFree, PopAdvance, PopReturn, IdlePop,
                 ItemsOK, QueueTypeOK
  <2>5. \A s \in Threads : push[s].pc = "publish" => Written(push[s].pos)'
    BY <2>2, <1>7 DEF ItemsOK, QueueTypeOK, Written, Slot
  <2>6. \A pos \in Nat : First' <= pos /\ pos < tail /\ ~Owned(pos)' => Written(pos)'
    BY <2>1, <2>2, <2>3 DEF ItemsOK
  <2> QED  BY <1>7, <2>4, <2>5, <2>6 DEF ItemsOK, Written, Slot
<1>8. CASE PopEmpty \/ UNCHANGED queueVars
  BY <1>8 DEF PopEmpty, queueVars, ItemsOK, First, Owned, Owner, Written, Slot
<1>9. PopStep \/ PopReturn => UNCHANGED <<tail, push>>
  BY DEF PopStep, PopFound, PopCopy, PopFree, PopAdvance, PopReturn
<1> QED  BY <1>1, <1>2, <1>3, <1>4, <1>5, <1>6, <1>7, <1>8, <1>9
         DEF QueueNext, PushStep

-----------------------------------------------------------------------------
(* The queue's state has its type, its window never exceeds the capacity   *)
(* and the consumer never passes the producers, whatever the interleaving. *)
THEOREM QueueInvariant == QueueSpec => [](QueueTypeOK /\ QueueBounded)
<1>1. QueueInv => QueueTypeOK /\ QueueBounded  BY DEF QueueInv
<1> QED  BY QueueInitInv, QueueNextInv, <1>1, PTL DEF QueueSpec

(* No two threads ever touch the plain words of one slot at the same time: *)
(* the sequence numbers order every write and copy of a slot's item.       *)
THEOREM QueueExclusive == QueueSpec => []SlotExclusive
BY QueueInitInv, QueueNextInv, QueueInvExclusive, PTL DEF QueueSpec

-----------------------------------------------------------------------------
(* The worker.                                                             *)


(* The calls in progress: enough to know that what is pushed is a task.    *)
CallsOK ==
    /\ call \in [Threads -> [pc : {"idle", "sync_check", "check", "push",
                                   "signal", "wait"},
                             sync : BOOLEAN, n : Nat]]
    /\ \A t \in Threads : /\ call[t].n <= MaxCalls[t]
                          /\ call[t].pc # "idle" => call[t].n > 0
    /\ owner.pc = "create" => call[Creator].n = 0
    /\ \A t \in Threads : push[t].pc # "idle" => call[t].pc = "push"

LEMMA InitCallsOK == Init => CallsOK
BY WorkerAssumption DEF Init, CallsOK, IdleCall, QueueInit, IdlePush

(* Beginning a call numbers it; every other step leaves the numbers alone. *)
LEMMA BeginCallOK ==
    ASSUME CallsOK, NEW t \in Threads, NEW sync \in BOOLEAN,
           BeginCall(t, sync), call[t].n < MaxCalls[t],
           owner'.pc = "create" => owner.pc = "create" /\ t # Creator,
           push' = push
    PROVE  CallsOK'
<1> USE DEF CallsOK, BeginCall
<1>1. MaxCalls \in [Threads -> Nat]  BY WorkerAssumption
<1>2. /\ call[t].n + 1 \in Nat
      /\ call' = [call EXCEPT ![t] = [pc |-> IF sync THEN "sync_check" ELSE "check",
                                      sync |-> sync, n |-> call[t].n + 1]]
  OBVIOUS
<1>3. call' \in [Threads -> [pc : {"idle", "sync_check", "check", "push",
                                   "signal", "wait"},
                             sync : BOOLEAN, n : Nat]]
  BY <1>2
<1>4. \A s \in Threads : /\ call'[s].n <= MaxCalls[s]
                         /\ call'[s].pc # "idle" => call'[s].n > 0
  <2> SUFFICES ASSUME NEW s \in Threads
               PROVE  /\ call'[s].n <= MaxCalls[s]
                      /\ call'[s].pc # "idle" => call'[s].n > 0
    OBVIOUS
  <2>1. CASE s = t
    <3>1. call'[t].n = call[t].n + 1  BY <1>2
    <3>2. MaxCalls[t] \in Nat /\ call[t].n \in Nat  BY <1>1
    <3> QED  BY <2>1, <3>1, <3>2
  <2>2. CASE s # t
    <3>1. call'[s] = call[s]  BY <2>2, <1>2
    <3> QED  BY <3>1
  <2> QED  BY <2>1, <2>2
<1>5. owner'.pc = "create" => call'[Creator].n = 0
  BY <1>2, WorkerAssumption
<1>6. \A s \in Threads : push'[s].pc # "idle" => call'[s].pc = "push"
  BY <1>2
<1> QED  BY <1>3, <1>4, <1>5, <1>6

LEMMA KeepCallsOK ==
    ASSUME CallsOK, NEW t \in Threads, call[t].pc # "idle",
           \E pc \in {"idle", "check", "push", "signal", "wait"} : GoCall(t, pc),
           owner'.pc = "create" => owner.pc = "create",
           \A s \in Threads : push'[s].pc # "idle" => call'[s].pc = "push"
    PROVE  CallsOK'
<1> USE DEF CallsOK, GoCall
<1>1. call' \in [Threads -> [pc : {"idle", "sync_check", "check", "push",
                                   "signal", "wait"},
                             sync : BOOLEAN, n : Nat]]
  OBVIOUS
<1>2. \A s \in Threads : call'[s].n = call[s].n
                         /\ (call'[s].pc # "idle" => call[s].pc # "idle")
  OBVIOUS
<1> QED  BY <1>1, <1>2, WorkerAssumption


-----------------------------------------------------------------------------
(* Every step of the worker's world is a step of the queue or leaves the   *)
(* queue alone.                                                            *)
LEMMA CallStepUsesQueue ==
    ASSUME CallsOK, NEW t \in Threads, CallStep(t)
    PROVE  [QueueNext]_queueVars
<1>1. CASE Accept(t)
  <2>1. call[t].n \in 1 .. MaxCalls[t] /\ call[t].sync \in BOOLEAN
    BY <1>1, WorkerAssumption DEF Accept, CallsOK
  <2>2. TaskOf(t) \in Items  BY <2>1, WorkerAssumption DEF TaskOf, Tasks
  <2> QED  BY <1>1, <2>2 DEF Accept, QueueNext
<1>2. CASE Push(t)  BY <1>2 DEF Push, QueueNext
<1>3. CASE Full(t) \/ Pushed(t)  BY <1>3 DEF Full, Pushed, QueueNext
<1>4. CASE SyncCheck(t) \/ Refuse(t) \/ SignalPosted(t) \/ WaitOver(t)
  BY <1>4 DEF SyncCheck, Refuse, SignalPosted, WaitOver
<1> QED  BY <1>1, <1>2, <1>3, <1>4 DEF CallStep

LEMMA WorkerUsesQueueStep == CallsOK /\ [Next]_vars => [QueueNext]_queueVars
<1> SUFFICES ASSUME CallsOK, [Next]_vars PROVE [QueueNext]_queueVars  OBVIOUS
<1>1. ASSUME NEW t \in Callers, Call(t) \/ CallStep(t)
      PROVE  [QueueNext]_queueVars
  BY <1>1, CallStepUsesQueue, WorkerAssumption DEF Call
<1>2. CASE CallStep(WorkerThread) \/ CallStep(Creator)
  BY <1>2, CallStepUsesQueue, WorkerAssumption
<1>3. CASE WorkerPop \/ DiscardPop
  BY <1>3 DEF WorkerPop, DiscardPop, QueueNext
<1>4. CASE RunTask \/ DropTask
  BY <1>4 DEF RunTask, DropTask, QueueNext
<1>5. CASE NothingPending \/ Discarded
  BY <1>5 DEF NothingPending, Discarded, PopEmpty
<1>6. CASE \/ Bind \/ Loop \/ CallbackReturns \/ AbandonDrain \/ AbandonStop
           \/ StopCheck \/ Wake \/ ExitLoop \/ Leave \/ NestedPost \/ IdleTimeout
  BY <1>6 DEF Bind, Loop, CallbackReturns, AbandonDrain, AbandonStop,
              StopCheck, Wake, ExitLoop, Leave, NestedPost, IdleTimeout
<1>7. CASE \/ StartupBarrier \/ Created \/ RequestStop \/ StopRunning
           \/ SignalStop \/ JoinThread \/ BeginShutdown \/ DiscardAgain
  BY <1>7 DEF StartupBarrier, Created, RequestStop, StopRunning, SignalStop,
              JoinThread, BeginShutdown, DiscardAgain
<1>8. CASE UNCHANGED vars  BY <1>8 DEF vars
<1> QED  BY <1>1, <1>2, <1>3, <1>4, <1>5, <1>6, <1>7, <1>8
         DEF Next, WorkerStep, OwnerStep

LEMMA CallStepCallsOK ==
    ASSUME QueueTypeOK, CallsOK, NEW t \in Threads, CallStep(t)
    PROVE  CallsOK'
<1> USE DEF CallsOK, GoCall
<1>1. CASE SyncCheck(t)
  BY <1>1, KeepCallsOK DEF SyncCheck, Return, queueVars
<1>2. CASE Refuse(t)
  BY <1>2, KeepCallsOK DEF Refuse, Return, queueVars
<1>3. CASE Accept(t)
  BY <1>3, KeepCallsOK DEF Accept, PushBegin, QueueTypeOK
<1>4. CASE Push(t)
  <2>1. push[t].pc # "idle" /\ UNCHANGED <<call, owner>>
    BY <1>4 DEF Push, PushStep, PushLoadSeq, PushClaim, PushWrite, PushPublish,
                workerVars, callVars
  <2>2. \A s \in Threads \ {t} : push'[s] = push[s]
    BY <1>4 DEF Push, PushStep, PushLoadSeq, PushClaim, PushWrite, PushPublish,
                GoPush, QueueTypeOK
  <2> QED  BY <2>1, <2>2
<1>5. CASE Full(t)
  BY <1>5, KeepCallsOK DEF Full, PushReturn, IdlePush, Return, QueueTypeOK
<1>6. CASE Pushed(t)
  BY <1>6, KeepCallsOK DEF Pushed, PushReturn, IdlePush, QueueTypeOK
<1>7. CASE SignalPosted(t)
  BY <1>7, KeepCallsOK DEF SignalPosted, Return, queueVars
<1>8. CASE WaitOver(t)
  BY <1>8, KeepCallsOK DEF WaitOver, Return, queueVars
<1> QED  BY <1>1, <1>2, <1>3, <1>4, <1>5, <1>6, <1>7, <1>8 DEF CallStep

-----------------------------------------------------------------------------
(* The type invariant, one action at a time.                               *)
TypeInv == TypeOK /\ CallsOK /\ QueueInv /\ ItemsOK

LEMMA InitTypeInv == Init => TypeInv
<1> SUFFICES ASSUME Init PROVE TypeInv  OBVIOUS
<1>1. QueueInv /\ ItemsOK  BY QueueInitInv, QueueInitItems DEF Init
<1>2. CallTypeOK  BY DEF Init, CallTypeOK, IdleCall
<1>3. WorkerTypeOK  BY DEF Init, WorkerTypeOK, IdleWorker
<1>4. OwnerTypeOK  BY DEF Init, OwnerTypeOK
<1>5. FlagTypeOK  BY Zenon DEF Init, FlagTypeOK
<1> QED  BY <1>1, <1>2, <1>3, <1>4, <1>5, InitCallsOK
         DEF TypeInv, TypeOK, QueueInv

(* Who sets a flag sets it to a Boolean.                                   *)
LEMMA NextFlagTypes == FlagTypeOK /\ [Next]_vars => FlagTypeOK'
<1> SUFFICES ASSUME FlagTypeOK, [Next]_vars PROVE FlagTypeOK'  OBVIOUS
<1> USE DEF FlagTypeOK, eventVars, stopVars
<1>1. ASSUME NEW t \in Threads, CallStep(t) PROVE FlagTypeOK'
  BY <1>1, Zenon
  DEF CallStep, SyncCheck, Refuse, Accept, Push, Full, Pushed, SignalPosted,
      Notify, WaitOver, workerVars
<1>2. ASSUME NEW t \in Callers, Call(t) PROVE FlagTypeOK'
  BY <1>2, Zenon DEF Call
<1>3. CASE Bind \/ Loop \/ WorkerPop \/ RunTask \/ CallbackReturns \/ NestedPost
  BY <1>3, Zenon
  DEF Bind, Loop, WorkerPop, RunTask, CallbackReturns, NestedPost, workerVars
<1>4. CASE \/ AbandonDrain \/ AbandonStop \/ NothingPending \/ StopCheck
           \/ Wake \/ IdleTimeout \/ ExitLoop \/ Leave
  BY <1>4, Zenon
  DEF AbandonDrain, AbandonStop, NothingPending, StopCheck, Wake, IdleTimeout,
      ExitLoop, Leave
<1>5. CASE \/ StartupBarrier \/ Created \/ RequestStop \/ StopRunning
           \/ SignalStop \/ JoinThread
  BY <1>5, Zenon
  DEF StartupBarrier, Created, RequestStop, StopRunning, SignalStop, Notify,
      JoinThread
<1>6. CASE DiscardPop \/ DropTask \/ Discarded \/ DiscardAgain
  BY <1>6, Zenon DEF DiscardPop, DropTask, Discarded, DiscardAgain, workerVars
<1>7. ASSUME BeginShutdown PROVE FlagTypeOK'
  <2>1. drain_before_exit' \in BOOLEAN  BY <1>7 DEF BeginShutdown
  <2> QED  BY <1>7, <2>1, Zenon DEF BeginShutdown
<1>8. CASE UNCHANGED vars  BY <1>8, Zenon DEF vars, workerVars
<1> QED  BY <1>1, <1>2, <1>3, <1>4, <1>5, <1>6, <1>7, <1>8, WorkerAssumption
         DEF Next, WorkerStep, OwnerStep

LEMMA BeginCallTypes ==
    ASSUME CallTypeOK, NEW t \in Threads, NEW sync \in BOOLEAN, BeginCall(t, sync)
    PROVE  CallTypeOK'
BY DEF CallTypeOK, BeginCall

LEMMA NextCallTypes == CallTypeOK /\ [Next]_vars => CallTypeOK'
<1> SUFFICES ASSUME CallTypeOK, [Next]_vars PROVE CallTypeOK'  OBVIOUS
<1> USE DEF CallTypeOK, callVars, GoCall, Return
<1>1. ASSUME NEW t \in Threads, CallStep(t) PROVE CallTypeOK'
  <2>1. CASE SyncCheck(t)  BY <2>1 DEF SyncCheck
  <2>2. CASE Refuse(t)  BY <2>2 DEF Refuse
  <2>3. CASE Accept(t)  BY <2>3 DEF Accept
  <2>4. CASE Push(t)  BY <2>4 DEF Push, workerVars
  <2>5. CASE Full(t)  BY <2>5 DEF Full
  <2>6. CASE Pushed(t)  BY <2>6 DEF Pushed
  <2>7. CASE SignalPosted(t)  BY <2>7 DEF SignalPosted
  <2>8. CASE WaitOver(t)  BY <2>8 DEF WaitOver
  <2> QED  BY <1>1, <2>1, <2>2, <2>3, <2>4, <2>5, <2>6, <2>7, <2>8 DEF CallStep
<1>2. ASSUME NEW t \in Callers, Call(t) PROVE CallTypeOK'
  <2>1. PICK sync \in Kinds[t] : BeginCall(t, sync)  BY <1>2 DEF Call
  <2>2. sync \in BOOLEAN /\ t \in Threads  BY WorkerAssumption
  <2> QED  BY <2>1, <2>2, BeginCallTypes
<1>3. CASE NestedPost \/ StartupBarrier
  BY <1>3, BeginCallTypes, WorkerAssumption DEF NestedPost, StartupBarrier
<1>4. CASE CallbackReturns  BY <1>4 DEF CallbackReturns
<1>5. CASE DropTask  BY <1>5 DEF DropTask
<1>6. CASE \/ Bind \/ Loop \/ WorkerPop \/ RunTask \/ AbandonDrain
           \/ AbandonStop \/ NothingPending \/ StopCheck \/ Wake \/ IdleTimeout
           \/ ExitLoop \/ Leave
  BY <1>6
  DEF Bind, Loop, WorkerPop, RunTask, AbandonDrain, AbandonStop, NothingPending,
      StopCheck, Wake, IdleTimeout, ExitLoop, Leave, workerVars
<1>7. CASE \/ Created \/ BeginShutdown \/ RequestStop \/ StopRunning
           \/ SignalStop \/ JoinThread \/ DiscardPop \/ Discarded
           \/ DiscardAgain
  BY <1>7
  DEF Created, BeginShutdown, RequestStop, StopRunning, SignalStop, JoinThread,
      DiscardPop, Discarded, DiscardAgain, workerVars
<1>8. CASE UNCHANGED vars  BY <1>8 DEF vars, workerVars
<1> QED  BY <1>1, <1>2, <1>3, <1>4, <1>5, <1>6, <1>7, <1>8, WorkerAssumption
         DEF Next, WorkerStep, OwnerStep

LEMMA NextWorkerTypes == WorkerTypeOK /\ ItemsOK /\ [Next]_vars => WorkerTypeOK'
<1> SUFFICES ASSUME WorkerTypeOK, ItemsOK, [Next]_vars PROVE WorkerTypeOK'
  OBVIOUS
<1> USE DEF WorkerTypeOK, GoWorker, IdleWorker, history
<1>1. CASE RunTask
  <2>1. pop.item \in Tasks  BY <1>1, WorkerAssumption DEF RunTask, ItemsOK
  <2>2. ran' \in Seq(Tasks)  BY <1>1, <2>1 DEF RunTask
  <2>3. worker' \in [pc : {"callback"}, some : {TRUE}, final : BOOLEAN, task : Tasks]
    BY <1>1, <2>1 DEF RunTask
  <2> QED  BY <2>2, <2>3
<1>2. CASE Bind \/ Loop  BY <1>2 DEF Bind, Loop
<1>3. CASE CallbackReturns \/ AbandonDrain
  BY <1>3 DEF CallbackReturns, AbandonDrain
<1>4. CASE AbandonStop  BY <1>4 DEF AbandonStop, AfterPending
<1>5. CASE NothingPending  BY <1>5 DEF NothingPending, AfterPending
<1>6. CASE StopCheck \/ Wake \/ IdleTimeout \/ ExitLoop
  <2>1. CASE StopCheck  BY <2>1 DEF StopCheck
  <2>2. CASE Wake  BY <2>2 DEF Wake
  <2>3. CASE IdleTimeout  BY <2>3 DEF IdleTimeout
  <2>4. CASE ExitLoop  BY <2>4 DEF ExitLoop
  <2> QED  BY <1>6, <2>1, <2>2, <2>3, <2>4
<1>7. CASE Leave  BY <1>7 DEF Leave
<1>8. ASSUME NEW t \in Threads, CallStep(t) PROVE WorkerTypeOK'
  BY <1>8
  DEF CallStep, SyncCheck, Refuse, Accept, Push, Full, Pushed, SignalPosted,
      WaitOver, workerVars
<1>9. CASE (\E t \in Callers : Call(t)) \/ NestedPost \/ StartupBarrier
  BY <1>9 DEF Call, NestedPost, StartupBarrier
<1>10. CASE \/ Created \/ BeginShutdown \/ RequestStop \/ StopRunning
            \/ SignalStop \/ JoinThread \/ DiscardPop \/ DropTask
            \/ Discarded \/ DiscardAgain \/ WorkerPop
  BY <1>10
  DEF Created, BeginShutdown, RequestStop, StopRunning, SignalStop, JoinThread,
      DiscardPop, DropTask, Discarded, DiscardAgain, WorkerPop, workerVars
<1>11. CASE UNCHANGED vars  BY <1>11 DEF vars, workerVars
<1> QED  BY <1>1, <1>2, <1>3, <1>4, <1>5, <1>6, <1>7, <1>8, <1>9, <1>10, <1>11,
            WorkerAssumption
         DEF Next, WorkerStep, OwnerStep

LEMMA NextOwnerTypes == WorkerTypeOK /\ OwnerTypeOK /\ [Next]_vars => OwnerTypeOK'
<1> SUFFICES ASSUME WorkerTypeOK, OwnerTypeOK, [Next]_vars PROVE OwnerTypeOK'
  OBVIOUS
<1> USE DEF OwnerTypeOK, GoOwner, history
<1>1. CASE StartupBarrier \/ Created \/ SignalStop \/ JoinThread
  BY <1>1 DEF StartupBarrier, Created, SignalStop, JoinThread
<1>2. CASE BeginShutdown  BY <1>2 DEF BeginShutdown
<1>3. CASE RequestStop
  <2>1. owner' \in [pc : {"signal", "halt"}, kind : Stops \cup {"none"}]
    BY <1>3 DEF RequestStop
  <2>2. at_stop' \in [ran : Nat, calls : SUBSET Callers]
    BY <1>3 DEF RequestStop
  <2> QED  BY <2>1, <2>2
<1>4. CASE StopRunning
  <2>1. Len(ran) \in Nat  BY DEF WorkerTypeOK
  <2> QED  BY <1>4, <2>1 DEF StopRunning
<1>5. CASE Discarded \/ DiscardAgain  BY <1>5 DEF Discarded, DiscardAgain
<1>6. CASE DiscardPop \/ DropTask  BY <1>6 DEF DiscardPop, DropTask, workerVars
<1>7. ASSUME NEW t \in Threads, CallStep(t) PROVE OwnerTypeOK'
  BY <1>7
  DEF CallStep, SyncCheck, Refuse, Accept, Push, Full, Pushed, SignalPosted,
      WaitOver, workerVars
<1>8. CASE (\E t \in Callers : Call(t)) \/ NestedPost
  BY <1>8 DEF Call, NestedPost
<1>9. CASE \/ Bind \/ Loop \/ WorkerPop \/ RunTask \/ CallbackReturns
           \/ AbandonDrain \/ AbandonStop \/ NothingPending \/ StopCheck \/ Wake
           \/ IdleTimeout \/ ExitLoop \/ Leave
  BY <1>9
  DEF Bind, Loop, WorkerPop, RunTask, CallbackReturns, AbandonDrain,
      AbandonStop, NothingPending, StopCheck, Wake, IdleTimeout, ExitLoop,
      Leave, workerVars
<1>10. CASE UNCHANGED vars  BY <1>10 DEF vars, workerVars
<1> QED  BY <1>1, <1>2, <1>3, <1>4, <1>5, <1>6, <1>7, <1>8, <1>9, <1>10,
            WorkerAssumption
         DEF Next, WorkerStep, OwnerStep

(* Who else touches a call: a new one begins, and the rest leave them be.  *)
LEMMA NextCallsOK == TypeOK /\ CallsOK /\ [Next]_vars => CallsOK'
<1> SUFFICES ASSUME TypeOK, CallsOK, [Next]_vars PROVE CallsOK'  OBVIOUS
<1>1. ASSUME NEW t \in Callers, Call(t) PROVE CallsOK'
  BY <1>1, BeginCallOK, WorkerAssumption DEF Call, queueVars
<1>2. CASE NestedPost
  BY <1>2, BeginCallOK, WorkerAssumption DEF NestedPost, queueVars
<1>3. CASE StartupBarrier
  <2>1. owner'.pc = "creating"
    BY <1>3 DEF StartupBarrier, GoOwner, TypeOK, OwnerTypeOK
  <2>2. call[Creator].n < MaxCalls[Creator]
    BY <1>3, WorkerAssumption DEF StartupBarrier, CallsOK
  <2> QED  BY <1>3, <2>1, <2>2, BeginCallOK, WorkerAssumption
           DEF StartupBarrier, queueVars
<1>4. ASSUME NEW t \in Threads, CallStep(t) PROVE CallsOK'
  BY <1>4, CallStepCallsOK DEF TypeOK
<1>5. CASE \/ Bind \/ Loop \/ CallbackReturns \/ AbandonDrain \/ AbandonStop
           \/ NothingPending \/ StopCheck \/ Wake \/ ExitLoop \/ Leave
           \/ WorkerPop \/ RunTask \/ IdleTimeout
  <2>1. UNCHANGED <<push, call, owner>>
    BY <1>5
    DEF Bind, Loop, CallbackReturns, AbandonDrain, AbandonStop, NothingPending,
        StopCheck, Wake, ExitLoop, Leave, WorkerPop, RunTask, IdleTimeout,
        queueVars, callVars, workerVars, PopEmpty, PopReturn, PopStep, PopFound,
        PopCopy, PopFree, PopAdvance
  <2> QED  BY <2>1 DEF CallsOK
<1>6. CASE \/ Created \/ RequestStop \/ StopRunning \/ SignalStop \/ JoinThread
           \/ DiscardPop \/ DropTask \/ Discarded \/ BeginShutdown
           \/ DiscardAgain
  <2>1. UNCHANGED <<push, call>>
    BY <1>6
    DEF Created, RequestStop, StopRunning, SignalStop, JoinThread, DiscardPop,
        DropTask, Discarded, BeginShutdown, DiscardAgain, queueVars, callVars,
        workerVars, PopEmpty, PopReturn, PopStep, PopFound, PopCopy, PopFree,
        PopAdvance
  <2>2. owner'.pc = "create" => owner.pc = "create"
    BY <1>6
    DEF Created, RequestStop, StopRunning, SignalStop, JoinThread, DiscardPop,
        DropTask, Discarded, BeginShutdown, DiscardAgain, GoOwner, workerVars,
        TypeOK, OwnerTypeOK
  <2> QED  BY <2>1, <2>2 DEF CallsOK
<1>7. CASE UNCHANGED vars
  BY <1>7 DEF vars, queueVars, workerVars, callVars, CallsOK
<1> QED  BY <1>1, <1>2, <1>3, <1>4, <1>5, <1>6, <1>7, WorkerAssumption
         DEF Next, WorkerStep, OwnerStep

LEMMA NextTypeInv == TypeInv /\ [Next]_vars => TypeInv'
<1> SUFFICES ASSUME TypeInv, [Next]_vars PROVE TypeInv'  OBVIOUS
<1> USE DEF TypeInv
<1>1. [QueueNext]_queueVars  BY WorkerUsesQueueStep
<1>2. QueueInv' /\ ItemsOK'  BY <1>1, QueueNextInv, QueueNextItems
<1>3. QueueTypeOK'  BY <1>2 DEF QueueInv
<1>4. CallsOK'  BY NextCallsOK
<1>5. CallTypeOK' /\ WorkerTypeOK' /\ OwnerTypeOK' /\ FlagTypeOK'
  BY NextCallTypes, NextWorkerTypes, NextOwnerTypes, NextFlagTypes DEF TypeOK
<1> QED  BY <1>2, <1>3, <1>4, <1>5 DEF TypeOK

(* The state of the worker, its callers and its queue keeps its type; what *)
(* runs is a task somebody posted.                                         *)
THEOREM WorkerTypeCorrect == Spec => []TypeOK
<1>1. TypeInv => TypeOK  BY DEF TypeInv
<1> QED  BY InitTypeInv, NextTypeInv, <1>1, PTL DEF Spec

(* The worker, its callers and its owner drive the queue as QueueSpec has  *)
(* it, the hand-over of the consumer's side to the owner included.         *)
THEOREM WorkerUsesQueue == Spec => QueueSpec
<1>1. Init => QueueInit  BY DEF Init
<1>2. TypeInv /\ [Next]_vars => [QueueNext]_queueVars
  BY WorkerUsesQueueStep DEF TypeInv
<1> QED  BY <1>1, <1>2, InitTypeInv, NextTypeInv, PTL DEF Spec, QueueSpec

(* So its threads never touch one slot's plain words at the same time.     *)
THEOREM WorkerSlotExclusive == Spec => []SlotExclusive
BY WorkerUsesQueue, QueueExclusive, PTL

-----------------------------------------------------------------------------
(* The wake-up.  Whoever has published and not yet returned from its post  *)
(* still has its notification to give.                                     *)
Announced == \E t \in Threads : push[t].pc = "pushed" \/ call[t].pc = "signal"

(* From the moment the worker finds the queue empty until it looks again,  *)
(* a ready task is one whose notification is pending or still to come; and *)
(* the notification latches, for the worker has registered for it.         *)
Asleep == worker.pc \in {"stop_check", "wait"}

WakeInv ==
    /\ worker.pc # "start" => bound
    /\ worker.pc \in {"callback", "abandon", "abandon_stop"} => worker.some
    /\ owner.pc \in {"discard", "stopped"} => worker.pc = "gone"
    /\ Asleep /\ Published => flag \/ Announced

LEMMA InitWakeInv == Init => WakeInv
BY DEF Init, WakeInv, IdleWorker, Asleep

(* Calls that have not published and are not about to notify.              *)
LEMMA CallKeepsWake ==
    ASSUME TypeInv, WakeInv, NEW t \in Threads,
           push[t].pc # "pushed", call[t].pc # "signal",
           \A s \in Threads \ {t} : push'[s] = push[s] /\ call'[s] = call[s],
           Published' => Published,
           UNCHANGED <<worker, owner, flag, bound>>
    PROVE  WakeInv'
<1>1. Announced => Announced'  BY DEF Announced
<1> QED  BY <1>1 DEF WakeInv, Asleep

LEMMA PushKeepsWake ==
    ASSUME TypeInv, WakeInv, NEW t \in Threads, Push(t)
    PROVE  WakeInv'
<1>1. UNCHANGED <<worker, owner, flag, bound, call>> /\ QueueTypeOK
  BY DEF Push, workerVars, eventVars, callVars, TypeInv, TypeOK
<1>2. CASE PushPublish(t)
  <2>1. Announced'  BY <1>1, <1>2 DEF PushPublish, GoPush, Announced, QueueTypeOK
  <2> QED  BY <1>1, <2>1 DEF WakeInv, Asleep
<1>3. CASE PushWrite(t)
  <2>1. Slot(push[t].pos) \in SlotIds /\ Slot(head) \in SlotIds
    BY <1>1, SlotType DEF QueueTypeOK
  <2>2. Published' <=> Published
    BY <1>1, <1>3, <2>1 DEF PushWrite, Published, Slot, QueueTypeOK
  <2> QED  BY <1>1, <1>3, <2>2, CallKeepsWake
           DEF PushWrite, GoPush, QueueTypeOK, TypeInv, CallsOK
<1>4. CASE PushLoadSeq(t) \/ PushClaim(t)
  <2>1. Published' <=> Published
    BY <1>4 DEF PushLoadSeq, PushClaim, Published, Slot
  <2> QED  BY <1>1, <1>4, <2>1, CallKeepsWake
           DEF PushLoadSeq, PushClaim, GoPush, QueueTypeOK, TypeInv, CallsOK
<1> QED  BY <1>2, <1>3, <1>4 DEF Push, PushStep

LEMMA CallStepWake ==
    ASSUME TypeInv, WakeInv, NEW t \in Threads, CallStep(t)
    PROVE  WakeInv'
<1> USE DEF queueVars, eventVars
<1>1. QueueTypeOK /\ CallTypeOK  BY DEF TypeInv, TypeOK
<1>2. push[t].pc # "idle" => call[t].pc = "push"  BY DEF TypeInv, CallsOK
<1>3. CASE SyncCheck(t) \/ Refuse(t) \/ WaitOver(t)
  <2>1. Published' <=> Published
    BY <1>3 DEF SyncCheck, Refuse, WaitOver, Published, Slot
  <2> QED  BY <1>1, <1>2, <1>3, <2>1, CallKeepsWake
           DEF SyncCheck, Refuse, WaitOver, GoCall, Return, CallTypeOK
<1>4. CASE Accept(t)
  <2>1. Published' <=> Published
    BY <1>4 DEF Accept, PushBegin, Published, Slot
  <2> QED  BY <1>1, <1>2, <1>4, <2>1, CallKeepsWake
           DEF Accept, PushBegin, GoCall, CallTypeOK, QueueTypeOK
<1>5. CASE Push(t)  BY <1>5, PushKeepsWake
<1>6. CASE Full(t)
  <2>1. Published' <=> Published
    BY <1>6 DEF Full, PushReturn, Published, Slot
  <2> QED  BY <1>1, <1>2, <1>6, <2>1, CallKeepsWake
           DEF Full, PushReturn, Return, GoCall, CallTypeOK, QueueTypeOK
<1>7. CASE Pushed(t)
  <2>1. Announced'
    BY <1>1, <1>7 DEF Pushed, GoCall, Announced, CallTypeOK
  <2> QED  BY <1>7, <2>1 DEF Pushed, WakeInv, Asleep
<1>8. CASE SignalPosted(t)
  <2>1. UNCHANGED <<worker, owner, bound>> /\ (bound => flag')
    BY <1>8 DEF SignalPosted, Notify
  <2>2. Asleep => bound  BY DEF WakeInv, Asleep
  <2> QED  BY <2>1, <2>2 DEF WakeInv, Asleep
<1> QED  BY <1>3, <1>4, <1>5, <1>6, <1>7, <1>8 DEF CallStep

LEMMA BeginCallWake ==
    ASSUME TypeInv, WakeInv, NEW t \in Threads, NEW sync \in BOOLEAN,
           BeginCall(t, sync), UNCHANGED <<queueVars, worker, flag, bound>>,
           owner'.pc \in {"discard", "stopped"} => owner.pc \in {"discard", "stopped"}
    PROVE  WakeInv'
<1>1. Published' <=> Published  BY DEF queueVars, Published, Slot
<1>2. Announced => Announced'
  BY DEF BeginCall, Announced, queueVars, TypeInv, TypeOK, CallTypeOK
<1> QED  BY <1>1, <1>2 DEF WakeInv, Asleep

LEMMA WorkerWake ==
    ASSUME TypeInv, WakeInv,
           \/ Bind \/ Loop \/ WorkerPop \/ RunTask \/ CallbackReturns
           \/ AbandonDrain \/ AbandonStop \/ NothingPending \/ StopCheck \/ Wake
           \/ IdleTimeout \/ ExitLoop \/ Leave
    PROVE  WakeInv'
<1> USE DEF WakeInv, Asleep, GoWorker, eventVars, queueVars
<1>1. worker \in [pc : {"start", "loop", "pop", "callback", "abandon",
                        "abandon_stop", "stop_check", "wait", "exit", "leave",
                        "gone"},
                  some : BOOLEAN, final : BOOLEAN, task : Tasks \cup {NoItem}]
  BY DEF TypeInv, TypeOK, WorkerTypeOK
<1>2. CASE Bind \/ Loop  BY <1>1, <1>2 DEF Bind, Loop, IdleWorker
<1>3. CASE WorkerPop  BY <1>1, <1>3 DEF WorkerPop, workerVars
<1>4. CASE RunTask \/ CallbackReturns \/ AbandonDrain
  BY <1>1, <1>4 DEF RunTask, CallbackReturns, AbandonDrain
<1>5. CASE AbandonStop
  <2>1. worker'.pc \in {"leave", "loop", "pop"} /\ worker.pc = "abandon_stop"
    BY <1>1, <1>5 DEF AbandonStop, AfterPending
  <2> QED  BY <1>5, <2>1 DEF AbandonStop
(* Going to sleep: the queue was just found empty.                         *)
<1>6. CASE NothingPending
  <2>1. ~Published' /\ worker'.pc \in {"leave", "loop", "stop_check"}
    BY <1>1, <1>6 DEF NothingPending, PopEmpty, Published, Slot, AfterPending
  <2> QED  BY <1>6, <2>1 DEF NothingPending
<1>7. CASE StopCheck
  <2>1. Published' <=> Published  BY <1>7 DEF StopCheck, Published, Slot
  <2>2. Announced' <=> Announced
    BY <1>7 DEF StopCheck, Announced, callVars
  <2> QED  BY <1>1, <1>7, <2>1, <2>2 DEF StopCheck
<1>8. CASE Wake \/ IdleTimeout  BY <1>1, <1>8 DEF Wake, IdleTimeout
<1>9. CASE ExitLoop \/ Leave  BY <1>1, <1>9 DEF ExitLoop, Leave, IdleWorker
<1> QED  BY <1>2, <1>3, <1>4, <1>5, <1>6, <1>7, <1>8, <1>9

LEMMA OwnerWake ==
    ASSUME TypeInv, WakeInv,
           \/ Created \/ BeginShutdown \/ RequestStop \/ StopRunning
           \/ SignalStop \/ JoinThread \/ DiscardPop \/ DropTask \/ Discarded
           \/ DiscardAgain
    PROVE  WakeInv'
<1> USE DEF WakeInv, Asleep, GoOwner, eventVars, queueVars
<1>1. owner \in [pc : {"create", "creating", "up", "request", "halt", "signal",
                       "join", "discard", "stopped"},
                 kind : Stops \cup {"none"}]
  BY DEF TypeInv, TypeOK, OwnerTypeOK
<1>2. CASE Created \/ BeginShutdown \/ RequestStop \/ StopRunning
  <2>1. Published' <=> Published
    BY <1>2 DEF Created, BeginShutdown, RequestStop, StopRunning, Published, Slot
  <2>2. Announced' <=> Announced
    BY <1>2 DEF Created, BeginShutdown, RequestStop, StopRunning, Announced,
                callVars
  <2> QED  BY <1>1, <1>2, <2>1, <2>2
           DEF Created, BeginShutdown, RequestStop, StopRunning
<1>3. CASE SignalStop
  <2>1. UNCHANGED <<worker, bound>> /\ (bound => flag') /\ owner'.pc = "join"
    BY <1>1, <1>3 DEF SignalStop, Notify
  <2> QED  BY <2>1
(* From the join on the worker's thread is gone.                           *)
<1>4. CASE JoinThread  BY <1>1, <1>4 DEF JoinThread
<1>5. CASE DiscardPop \/ DropTask \/ Discarded \/ DiscardAgain
  <2>1. owner.pc \in {"discard", "stopped"} /\ UNCHANGED <<worker, bound>>
    BY <1>5
    DEF DiscardPop, DropTask, Discarded, DiscardAgain, workerVars
  <2> QED  BY <2>1
<1> QED  BY <1>2, <1>3, <1>4, <1>5

LEMMA NextWakeInv == TypeInv /\ WakeInv /\ [Next]_vars => WakeInv'
<1> SUFFICES ASSUME TypeInv, WakeInv, [Next]_vars PROVE WakeInv'  OBVIOUS
<1>1. ASSUME NEW t \in Threads, CallStep(t) PROVE WakeInv'
  BY <1>1, CallStepWake
<1>2. ASSUME NEW t \in Callers, Call(t) PROVE WakeInv'
  <2>1. PICK sync \in Kinds[t] : BeginCall(t, sync)  BY <1>2 DEF Call
  <2>2. sync \in BOOLEAN /\ t \in Threads  BY WorkerAssumption
  <2> QED  BY <1>2, <2>1, <2>2, BeginCallWake DEF Call, eventVars
<1>3. CASE NestedPost
  BY <1>3, BeginCallWake, WorkerAssumption DEF NestedPost, eventVars
<1>4. CASE StartupBarrier
  <2>1. owner'.pc = "creating"
    BY <1>4 DEF StartupBarrier, GoOwner, TypeInv, TypeOK, OwnerTypeOK
  <2> QED  BY <1>4, <2>1, BeginCallWake, WorkerAssumption
           DEF StartupBarrier, eventVars
<1>5. CASE UNCHANGED vars
  BY <1>5 DEF vars, queueVars, workerVars, callVars, eventVars, WakeInv, Asleep,
              Announced, Published, Slot
<1> QED  BY <1>1, <1>2, <1>3, <1>4, <1>5, WorkerWake, OwnerWake, WorkerAssumption
         DEF Next, WorkerStep, OwnerStep

(* A worker asleep with no notification pending has no ready task that     *)
(* nobody is about to announce: the idle time out is a safety net that the *)
(* code does not need, however many threads post at once.                  *)
THEOREM NoWakeupLost == Spec => []NoLostWakeup
<1>1. WakeInv => NoLostWakeup  BY DEF WakeInv, NoLostWakeup, Asleep, Announced
<1> QED  BY InitTypeInv, NextTypeInv, InitWakeInv, NextWakeInv, <1>1, PTL DEF Spec

-----------------------------------------------------------------------------
(* The line.  What a producer has written is what it brought, and what the *)
(* consumer has copied is what the slot at the head holds.                 *)
Copies ==
    /\ \A t \in Threads : push[t].pc = "publish" =>
           slots[Slot(push[t].pos)].item = push[t].item
    /\ pop.pc = "free" => pop.item = slots[Slot(head)].item

LEMMA InitCopies == Init => Copies
BY DEF Init, QueueInit, Copies, IdlePush, IdlePop

LEMMA WriterApart ==
    ASSUME QueueInv, NEW t \in Threads, push[t].pc \in {"write", "publish"}
    PROVE  /\ push[t].pos \in Nat /\ First <= push[t].pos /\ push[t].pos < tail
           /\ Owner(t, push[t].pos)
           /\ \A pos \in Nat : First <= pos /\ pos < tail /\ pos # push[t].pos =>
                  Slot(pos) # Slot(push[t].pos)
<1> USE DEF QueueInv
<1>1. /\ First \in Nat /\ tail \in Nat /\ tail <= First + Capacity /\ push[t].pos \in Nat
  BY DEF QueueTypeOK, First, QueueBounded
<1>2. First <= push[t].pos /\ push[t].pos < tail /\ Owner(t, push[t].pos)
  BY DEF ClaimOK, Owner
<1>3. ASSUME NEW pos \in Nat, First <= pos, pos < tail, Slot(pos) = Slot(push[t].pos)
      PROVE  pos = push[t].pos
  <2>1. pos < First + Capacity /\ push[t].pos < First + Capacity
    BY <1>1, <1>2, <1>3, QueueAssumption
  <2> QED  BY <1>1, <1>2, <1>3, <2>1, WindowSlots
<1> QED  BY <1>1, <1>2, <1>3

LEMMA NextCopies == QueueInv /\ Copies /\ [QueueNext]_queueVars => Copies'
<1> SUFFICES ASSUME QueueInv, Copies, [QueueNext]_queueVars PROVE Copies'
  OBVIOUS
<1>0. QueueTypeOK /\ SlotExclusive  BY QueueInvExclusive DEF QueueInv
<1>1. ASSUME NEW t \in Threads, NEW item \in Items, PushBegin(t, item) PROVE Copies'
  BY <1>0, <1>1 DEF PushBegin, Copies, QueueTypeOK, Slot
<1>2. ASSUME NEW t \in Threads, PushLoadSeq(t) PROVE Copies'
  BY <1>0, <1>2 DEF PushLoadSeq, GoPush, Copies, QueueTypeOK, Slot
<1>3. ASSUME NEW t \in Threads, PushClaim(t) PROVE Copies'
  BY <1>0, <1>3 DEF PushClaim, GoPush, Copies, QueueTypeOK, Slot
<1>4. ASSUME NEW t \in Threads, PushWrite(t) PROVE Copies'
  <2>1. /\ push[t].pc = "write" /\ push[t].pos \in Nat /\ UNCHANGED <<head, pop>>
        /\ slots' = [slots EXCEPT ![Slot(push[t].pos)].item = push[t].item]
        /\ push' = [push EXCEPT ![t].pc = "publish"]
    BY <1>0, <1>4 DEF PushWrite, GoPush, QueueTypeOK
  <2>2. Slot(push[t].pos) \in SlotIds  BY <2>1, SlotType
  <2>3. ASSUME NEW s \in Threads, push'[s].pc = "publish"
        PROVE  slots'[Slot(push'[s].pos)].item = push'[s].item
    <3>1. push'[s].pos = push[s].pos /\ push'[s].item = push[s].item
      BY <1>0, <2>1 DEF QueueTypeOK
    <3>2. CASE s = t
      BY <1>0, <2>1, <2>2, <3>1, <3>2 DEF QueueTypeOK
    <3>3. CASE s # t
      <4>1. push[s].pc = "publish" /\ push[s].pos \in Nat
        BY <1>0, <2>1, <2>3, <3>3 DEF QueueTypeOK
      <4>2. Slot(push[s].pos) # Slot(push[t].pos)
        BY <1>0, <2>1, <3>3, <4>1 DEF SlotExclusive
      <4>3. Slot(push[s].pos) \in SlotIds  BY <4>1, SlotType
      <4> QED  BY <1>0, <2>1, <2>2, <3>1, <4>1, <4>2, <4>3 DEF Copies, QueueTypeOK
    <3> QED  BY <3>2, <3>3
  <2>4. pop.pc = "free" => pop.item = slots'[Slot(head)].item
    <3> SUFFICES ASSUME pop.pc = "free" PROVE pop.item = slots'[Slot(head)].item
      OBVIOUS
    <3>1. Slot(push[t].pos) # Slot(head)
      BY <1>0, <2>1 DEF SlotExclusive
    <3>2. Slot(head) \in SlotIds  BY <1>0, SlotType DEF QueueTypeOK
    <3> QED  BY <1>0, <2>1, <2>2, <3>1, <3>2 DEF Copies, QueueTypeOK
  <2> QED  BY <2>1, <2>3, <2>4 DEF Copies, Slot
<1>5. ASSUME NEW t \in Threads, PushPublish(t) PROVE Copies'
  <2>1. Slot(push[t].pos) \in SlotIds
    BY <1>0, SlotType DEF QueueTypeOK
  <2>2. \A i \in SlotIds : slots'[i].item = slots[i].item
    BY <1>0, <1>5, <2>1 DEF PushPublish, QueueTypeOK
  <2>3. \A s \in Threads : Slot(push[s].pos) \in SlotIds
    BY <1>0, SlotType DEF QueueTypeOK
  <2>4. Slot(head) \in SlotIds  BY <1>0, SlotType DEF QueueTypeOK
  <2>5. \A s \in Threads : /\ push'[s].pos = push[s].pos /\ push'[s].item = push[s].item
                           /\ push'[s].pc = "publish" => push[s].pc = "publish"
    BY <1>0, <1>5 DEF PushPublish, GoPush, QueueTypeOK
  <2>6. UNCHANGED <<head, pop>>  BY <1>5 DEF PushPublish
  <2> QED  BY <2>2, <2>3, <2>4, <2>5, <2>6 DEF Copies, Slot
<1>6. ASSUME NEW t \in Threads, PushReturn(t) PROVE Copies'
  BY <1>0, <1>6 DEF PushReturn, IdlePush, Copies, QueueTypeOK, Slot
<1>7. CASE PopStep \/ PopReturn
  <2>1. Slot(head) \in SlotIds  BY <1>0, SlotType DEF QueueTypeOK
  <2>2. push' = push /\ \A i \in SlotIds : slots'[i].item = slots[i].item
    BY <1>0, <1>7, <2>1
    DEF PopStep, PopFound, PopCopy, PopFree, PopAdvance, PopReturn, QueueTypeOK
  <2>3. \A s \in Threads : Slot(push[s].pos) \in SlotIds
    BY <1>0, SlotType DEF QueueTypeOK
  <2>4. pop'.pc = "free" => head' = head /\ pop'.item = slots[Slot(head)].item
    BY <1>0, <1>7
    DEF PopStep, PopFound, PopCopy, PopFree, PopAdvance, PopReturn, IdlePop, QueueTypeOK
  <2> QED  BY <2>1, <2>2, <2>3, <2>4 DEF Copies, Slot
<1>8. CASE PopEmpty \/ UNCHANGED queueVars
  BY <1>8 DEF PopEmpty, queueVars, Copies, Slot
<1> QED  BY <1>1, <1>2, <1>3, <1>4, <1>5, <1>6, <1>7, <1>8 DEF QueueNext, PushStep

(* The item of a position, by its owner or in its slot.                    *)
ItemsPlaced ==
    \A pos \in Nat :
        /\ \A t \in Threads : Owner(t, pos) => ItemAt(pos) = push[t].item
        /\ ~Owned(pos) => ItemAt(pos) = slots[Slot(pos)].item

LEMMA QueuePlacesItems == QueueInv => ItemsPlaced
<1> SUFFICES ASSUME QueueInv, NEW pos \in Nat
             PROVE  /\ \A t \in Threads : Owner(t, pos) => ItemAt(pos) = push[t].item
                    /\ ~Owned(pos) => ItemAt(pos) = slots[Slot(pos)].item
  BY DEF ItemsPlaced
<1>1. ASSUME NEW t \in Threads, Owner(t, pos) PROVE ItemAt(pos) = push[t].item
  <2>1. (CHOOSE s \in Threads : Owner(s, pos)) = t
    BY <1>1 DEF QueueInv, OneOwner
  <2> QED  BY <1>1, <2>1 DEF ItemAt
<1>2. ~Owned(pos) => ItemAt(pos) = slots[Slot(pos)].item
  BY DEF ItemAt, Owned
<1> QED  BY <1>1, <1>2

(* The line is a sequence of items, as long as the queue has positions.    *)
LineShape ==
    /\ Line \in Seq(Items) /\ Len(Line) = tail - First /\ tail - First \in Nat
    /\ First \in Nat /\ tail \in Nat
    /\ \A k \in 1 .. tail - First : Line[k] = ItemAt(First + k - 1)

LEMMA LineIsSeq == QueueInv /\ ItemsOK => LineShape
<1> SUFFICES ASSUME QueueInv, ItemsOK PROVE LineShape  OBVIOUS
<1>1. First \in Nat /\ tail \in Nat /\ tail - First \in Nat
  BY DEF QueueInv, QueueTypeOK, QueueBounded, First
<1>2. ASSUME NEW k \in 1 .. tail - First PROVE ItemAt(First + k - 1) \in Items
  <2> DEFINE pos == First + k - 1
  <2>1. pos \in Nat /\ First <= pos /\ pos < tail  BY <1>1
  <2> HIDE DEF pos
  <2>2. CASE Owned(pos)
    <3>1. PICK t \in Threads : Owner(t, pos)  BY <2>2 DEF Owned
    <3>2. ItemAt(pos) = push[t].item
      BY <2>1, <3>1, QueuePlacesItems DEF ItemsPlaced
    <3> QED  BY <3>1, <3>2 DEF ItemsOK, Owner, pos
  <2>3. CASE ~Owned(pos)
    BY <2>1, <2>3, QueuePlacesItems DEF ItemsPlaced, ItemsOK, Written, pos
  <2> QED  BY <2>2, <2>3
<1>3. Line \in [1 .. tail - First -> Items]  BY <1>2 DEF Line
<1>4. Line \in Seq(Items)  BY <1>1, <1>3, SeqDef
<1>5. Len(Line) = tail - First  BY <1>1, <1>3, <1>4, LenProperties
<1> QED  BY <1>1, <1>4, <1>5 DEF Line, LineShape

(* A position keeps its item through a step that keeps its owner.          *)
LEMMA ItemKept ==
    ASSUME ItemsPlaced, ItemsPlaced', NEW pos \in Nat,
           \A t \in Threads : Owner(t, pos)' <=> Owner(t, pos),
           \A t \in Threads : push[t].pc # "idle" /\ push'[t].pc # "idle" =>
                                  push'[t].item = push[t].item,
           Owned(pos) \/ slots'[Slot(pos)].item = slots[Slot(pos)].item
    PROVE  ItemAt(pos)' = ItemAt(pos)
<1>1. ASSUME NEW t \in Threads, Owner(t, pos) PROVE ItemAt(pos)' = ItemAt(pos)
  <2>1. ItemAt(pos) = push[t].item  BY <1>1 DEF ItemsPlaced
  <2>2. Owner(t, pos)'  BY <1>1
  <2>3. ItemAt(pos)' = push'[t].item  BY <2>2 DEF ItemsPlaced
  <2> QED  BY <1>1, <2>1, <2>2, <2>3 DEF Owner
<1>2. CASE ~Owned(pos)
  <2>1. ~Owned(pos)'  BY <1>2 DEF Owned
  <2>2. ItemAt(pos) = slots[Slot(pos)].item  BY <1>2 DEF ItemsPlaced
  <2>3. ItemAt(pos)' = slots'[Slot(pos)].item  BY <2>1 DEF ItemsPlaced, Slot
  <2> QED  BY <1>2, <2>2, <2>3
<1> QED  BY <1>1, <1>2 DEF Owned

LEMMA LineStays ==
    ASSUME LineShape, UNCHANGED <<First, tail>>,
           \A pos \in Nat : First <= pos /\ pos < tail => ItemAt(pos)' = ItemAt(pos)
    PROVE  Line' = Line
<1>1. First \in Nat /\ tail \in Nat  BY DEF LineShape
<1>2. ASSUME NEW k \in 1 .. tail - First
      PROVE  ItemAt(First + k - 1)' = ItemAt(First + k - 1)
  BY <1>1
<1> QED  BY <1>2 DEF Line

LineInv == QueueInv /\ ItemsOK /\ Copies

(* What is known of the line before and after a step.                      *)
LineKnown == LineShape /\ ItemsPlaced

LEMMA LineInvKnown == LineInv => LineKnown
BY LineIsSeq, QueuePlacesItems DEF LineInv, LineKnown

LEMMA LineInvKnownNext == LineInv' => LineKnown'
BY LineInvKnown, PTL

-----------------------------------------------------------------------------
(* What each step of the queue does to the line.                           *)
LEMMA PushBeginLine ==
    ASSUME LineInv, LineInv', NEW t \in Threads, NEW item \in Items, PushBegin(t, item)
    PROVE  Line' = Line
<1>1. LineKnown /\ LineKnown'  BY LineInvKnown, LineInvKnownNext
<1>2. QueueTypeOK  BY DEF LineInv, QueueInv
<1>3. ASSUME NEW pos \in Nat PROVE ItemAt(pos)' = ItemAt(pos)
  <2>1. \A s \in Threads : Owner(s, pos)' <=> Owner(s, pos)
    BY <1>2 DEF PushBegin, Owner, QueueTypeOK
  <2>2. /\ \A s \in Threads : push[s].pc # "idle" => push'[s].item = push[s].item
        /\ slots' = slots
    BY <1>2 DEF PushBegin, QueueTypeOK
  <2> QED  BY <1>1, <2>1, <2>2, ItemKept DEF LineKnown
<1>4. UNCHANGED <<First, tail>>  BY DEF PushBegin, First
<1> QED  BY <1>1, <1>3, <1>4, LineStays DEF LineKnown

LEMMA PushReturnLine ==
    ASSUME LineInv, LineInv', NEW t \in Threads, PushReturn(t)
    PROVE  Line' = Line
<1>1. LineKnown /\ LineKnown'  BY LineInvKnown, LineInvKnownNext
<1>2. QueueTypeOK  BY DEF LineInv, QueueInv
<1>3. ASSUME NEW pos \in Nat PROVE ItemAt(pos)' = ItemAt(pos)
  <2>1. \A s \in Threads : Owner(s, pos)' <=> Owner(s, pos)
    BY <1>2 DEF PushReturn, IdlePush, Owner, QueueTypeOK
  <2>2. /\ \A s \in Threads : push'[s].pc # "idle" => push'[s].item = push[s].item
        /\ slots' = slots
    BY <1>2 DEF PushReturn, IdlePush, QueueTypeOK
  <2> QED  BY <1>1, <2>1, <2>2, ItemKept DEF LineKnown
<1>4. UNCHANGED <<First, tail>>  BY DEF PushReturn, First
<1> QED  BY <1>1, <1>3, <1>4, LineStays DEF LineKnown

(* A producer writes into the slot of the position it owns, and publishes  *)
(* what it wrote: the position keeps its item.                             *)
LEMMA PushWriteLine ==
    ASSUME LineInv, LineInv', NEW t \in Threads, PushWrite(t)
    PROVE  Line' = Line
<1>1. LineKnown /\ LineKnown'  BY LineInvKnown, LineInvKnownNext
<1>2. QueueInv /\ QueueTypeOK  BY DEF LineInv, QueueInv
<1>3. ASSUME NEW pos \in Nat, First <= pos, pos < tail PROVE ItemAt(pos)' = ItemAt(pos)
  <2>1. \A s \in Threads : Owner(s, pos)' <=> Owner(s, pos)
    BY <1>2 DEF PushWrite, GoPush, Owner, QueueTypeOK
  <2>2. \A s \in Threads : push'[s].item = push[s].item
    BY <1>2 DEF PushWrite, GoPush, QueueTypeOK
  <2>3. Owned(pos) \/ slots'[Slot(pos)].item = slots[Slot(pos)].item
    <3>1. CASE pos = push[t].pos
      BY <3>1 DEF PushWrite, Owned, Owner
    <3>2. CASE pos # push[t].pos
      <4>1. Slot(pos) # Slot(push[t].pos)
        BY <1>2, <1>3, <3>2, WriterApart DEF PushWrite
      <4>2. Slot(pos) \in SlotIds /\ Slot(push[t].pos) \in SlotIds
        BY <1>2, SlotType DEF QueueTypeOK
      <4> QED  BY <1>2, <4>1, <4>2 DEF PushWrite, QueueTypeOK
    <3> QED  BY <3>1, <3>2
  <2> QED  BY <1>1, <2>1, <2>2, <2>3, ItemKept DEF LineKnown
<1>4. UNCHANGED <<First, tail>>  BY DEF PushWrite, First
<1> QED  BY <1>1, <1>3, <1>4, LineStays DEF LineKnown

LEMMA PushPublishLine ==
    ASSUME LineInv, LineInv', NEW t \in Threads, PushPublish(t)
    PROVE  Line' = Line
<1>1. LineKnown /\ LineKnown'  BY LineInvKnown, LineInvKnownNext
<1>2. QueueTypeOK /\ push[t].pc = "publish" /\ push[t].pos \in Nat
  BY DEF LineInv, QueueInv, PushPublish, QueueTypeOK
<1>3. \A pos \in Nat : slots'[Slot(pos)].item = slots[Slot(pos)].item
  <2>1. Slot(push[t].pos) \in SlotIds  BY <1>2, SlotType
  <2>2. \A i \in SlotIds : slots'[i].item = slots[i].item
    BY <1>2, <2>1 DEF PushPublish, QueueTypeOK
  <2> QED  BY <2>2, SlotType
<1>4. ASSUME NEW pos \in Nat, pos # push[t].pos PROVE ItemAt(pos)' = ItemAt(pos)
  <2>1. \A s \in Threads : Owner(s, pos)' <=> Owner(s, pos)
    BY <1>2, <1>4 DEF PushPublish, GoPush, Owner, QueueTypeOK
  <2>2. \A s \in Threads : push'[s].item = push[s].item
    BY <1>2 DEF PushPublish, GoPush, QueueTypeOK
  <2> QED  BY <1>1, <1>3, <2>1, <2>2, ItemKept DEF LineKnown
<1>5. ASSUME NEW pos \in Nat, pos = push[t].pos PROVE ItemAt(pos)' = ItemAt(pos)
  <2>1. Owner(t, pos)  BY <1>2, <1>5 DEF Owner
  <2>2. \A s \in Threads : Owner(s, pos) => s = t
    BY <2>1 DEF LineInv, QueueInv, OneOwner
  <2>3. push'[t].pc = "pushed" /\ \A s \in Threads \ {t} : push'[s] = push[s]
    BY <1>2 DEF PushPublish, GoPush, QueueTypeOK
  <2>4. ~Owned(pos)'  BY <2>2, <2>3 DEF Owned, Owner
  <2>5. ItemAt(pos) = push[t].item  BY <1>1, <2>1 DEF LineKnown, ItemsPlaced
  <2>6. ItemAt(pos)' = slots'[Slot(pos)].item
    BY <1>1, <2>4 DEF LineKnown, ItemsPlaced, Slot
  <2>7. slots[Slot(pos)].item = push[t].item
    BY <1>2, <1>5 DEF LineInv, Copies
  <2> QED  BY <1>3, <2>5, <2>6, <2>7
<1>6. UNCHANGED <<First, tail>>  BY DEF PushPublish, First
<1>7. \A pos \in Nat : ItemAt(pos)' = ItemAt(pos)  BY <1>2, <1>4, <1>5
<1> QED  BY <1>1, <1>6, <1>7, LineStays DEF LineKnown

(* The claim joins the line at its end, and only when there is room.       *)
LEMMA PushClaimLine ==
    ASSUME LineInv, LineInv', NEW t \in Threads, PushClaim(t)
    PROVE  IF push[t].pos = tail
             THEN /\ Line' = Append(Line, push[t].item) /\ Len(Line) < Capacity
                  /\ push'[t].pc = "write"
             ELSE Line' = Line /\ push'[t].pc = "load"
<1>1. LineShape /\ ItemsPlaced /\ LineShape' /\ ItemsPlaced'
  BY LineInvKnown, LineInvKnownNext DEF LineKnown
<1>2. QueueTypeOK /\ push[t].pc = "claim" /\ push[t].item \in Items
  BY DEF LineInv, QueueInv, PushClaim, ItemsOK
<1>3. /\ First' = First /\ slots' = slots /\ First \in Nat /\ tail \in Nat
      /\ \A s \in Threads : push'[s].item = push[s].item
  <2>1. First \in Nat /\ tail \in Nat  BY <1>1 DEF LineShape
  <2>2. First' = First /\ slots' = slots  BY DEF PushClaim, First
  <2>3. \A s \in Threads : push'[s].item = push[s].item
    BY <1>2 DEF PushClaim, GoPush, QueueTypeOK
  <2> QED  BY <2>1, <2>2, <2>3
<1>4. CASE push[t].pos # tail
  <2>1. ASSUME NEW pos \in Nat PROVE ItemAt(pos)' = ItemAt(pos)
    <3>1. \A s \in Threads : Owner(s, pos)' <=> Owner(s, pos)
      BY <1>2, <1>4 DEF PushClaim, Owner, QueueTypeOK
    <3> QED  BY <1>1, <1>3, <3>1, ItemKept
  <2>2. tail' = tail /\ push'[t].pc = "load"
    BY <1>2, <1>4 DEF PushClaim, QueueTypeOK
  <2> QED  BY <1>1, <1>3, <1>4, <2>1, <2>2, LineStays
<1>5. CASE push[t].pos = tail
  <2>1. tail' = tail + 1 /\ push'[t].pc = "write" /\ push'[t].pos = tail
        /\ \A s \in Threads \ {t} : push'[s] = push[s]
    BY <1>2, <1>5 DEF PushClaim, GoPush, QueueTypeOK
  <2>2. Len(Line) < Capacity
    <3>1. tail < First + Capacity  BY <1>2, <1>5 DEF LineInv, QueueInv, ClaimOK
    <3>2. Len(Line) = tail - First  BY <1>1 DEF LineShape
    <3> QED  BY <1>3, <3>1, <3>2, QueueAssumption
  <2>3. ASSUME NEW pos \in Nat, pos # tail PROVE ItemAt(pos)' = ItemAt(pos)
    <3>1. \A s \in Threads : Owner(s, pos)' <=> Owner(s, pos)
      BY <1>2, <1>5, <2>1, <2>3 DEF Owner
    <3> QED  BY <1>1, <1>3, <3>1, ItemKept
  <2>5. ASSUME NEW pos \in Nat, pos = tail PROVE ItemAt(pos)' = push[t].item
    <3>1. Owner(t, pos)'  BY <2>1, <2>5 DEF Owner
    <3>2. ItemAt(pos)' = push'[t].item  BY <1>1, <3>1 DEF ItemsPlaced
    <3> QED  BY <1>3, <3>2
  <2> DEFINE new == Append(Line, push[t].item)
             n == tail - First
  <2>6. /\ new \in Seq(Items) /\ Len(new) = n + 1 /\ n \in Nat
        /\ \A k \in 1 .. n : new[k] = Line[k]
        /\ new[n + 1] = push[t].item
    BY <1>1, <1>2, AppendProperties DEF LineShape
  <2>7. /\ Line' \in Seq(Items) /\ Len(Line') = n + 1
        /\ \A k \in 1 .. n + 1 : Line'[k] = ItemAt(First + k - 1)'
    <3>1. tail' - First' = n + 1  BY <1>3, <2>1
    <3>2. /\ Line' \in Seq(Items) /\ Len(Line') = tail' - First'
          /\ \A k \in 1 .. tail' - First' : Line'[k] = ItemAt(First + k - 1)'
      BY <1>1 DEF LineShape
    <3> QED  BY <3>1, <3>2
  <2>8. ASSUME NEW k \in 1 .. n + 1 PROVE Line'[k] = new[k]
    <3>1. CASE k = n + 1
      <4>1. First + k - 1 = tail  BY <1>3, <3>1
      <4>2. ItemAt(First + k - 1)' = push[t].item
        BY <1>3, <2>5, <4>1
      <4> QED  BY <2>6, <2>7, <3>1, <4>2
    <3>2. CASE k # n + 1
      <4>1. k \in 1 .. n /\ First + k - 1 \in Nat /\ First + k - 1 # tail
        BY <1>3, <2>6, <3>2
      <4>2. Line[k] = ItemAt(First + k - 1)  BY <1>1, <4>1 DEF LineShape
      <4>3. ItemAt(First + k - 1)' = ItemAt(First + k - 1)
        BY <1>3, <2>3, <4>1
      <4> QED  BY <2>6, <2>7, <4>1, <4>2, <4>3
    <3> QED  BY <3>1, <3>2
  <2> HIDE DEF new, n
  <2>9. Line' = new
    BY <2>6, <2>7, <2>8, SeqEqual
  <2> QED  BY <1>5, <2>1, <2>2, <2>9 DEF new
<1> QED  BY <1>4, <1>5

LEMMA PushStepLine ==
    ASSUME LineInv, LineInv', NEW t \in Threads, PushStep(t)
    PROVE  IF push[t].pc = "claim" /\ push[t].pos = tail
             THEN /\ Line' = Append(Line, push[t].item) /\ Len(Line) < Capacity
                  /\ push'[t].pc = "write"
             ELSE Line' = Line
<1>1. CASE PushLoadSeq(t)
  <2>1. LineKnown /\ LineKnown'  BY LineInvKnown, LineInvKnownNext
  <2>2. QueueTypeOK  BY DEF LineInv, QueueInv
  <2>3. ASSUME NEW pos \in Nat PROVE ItemAt(pos)' = ItemAt(pos)
    <3>1. \A s \in Threads : Owner(s, pos)' <=> Owner(s, pos)
      BY <1>1, <2>2 DEF PushLoadSeq, GoPush, Owner, QueueTypeOK
    <3>2. (\A s \in Threads : push'[s].item = push[s].item) /\ slots' = slots
      BY <1>1, <2>2 DEF PushLoadSeq, GoPush, QueueTypeOK
    <3> QED  BY <2>1, <3>1, <3>2, ItemKept DEF LineKnown
  <2>4. UNCHANGED <<First, tail>> /\ push[t].pc = "load"
    BY <1>1 DEF PushLoadSeq, First
  <2> QED  BY <2>1, <2>3, <2>4, LineStays DEF LineKnown
<1>2. CASE PushClaim(t)
  BY <1>2, PushClaimLine DEF PushClaim
<1>3. CASE PushWrite(t)  BY <1>3, PushWriteLine DEF PushWrite
<1>4. CASE PushPublish(t)  BY <1>4, PushPublishLine DEF PushPublish
<1> QED  BY <1>1, <1>2, <1>3, <1>4 DEF PushStep

(* The consumer takes the first of the line, and the release of its slot   *)
(* is what takes it out.                                                   *)
LEMMA PopFreeLine ==
    ASSUME LineInv, LineInv', PopFree
    PROVE  /\ Line # << >> /\ Line' = Tail(Line)
           /\ pop.item = Line[1] /\ pop'.item = pop.item
<1>1. LineShape /\ ItemsPlaced /\ LineShape' /\ ItemsPlaced'
  BY LineInvKnown, LineInvKnownNext DEF LineKnown
<1>2. QueueTypeOK /\ pop.pc = "free" /\ head \in Nat /\ tail \in Nat
  BY DEF LineInv, QueueInv, PopFree, QueueTypeOK
<1>3. First = head /\ First' = head + 1 /\ tail' = tail /\ push' = push
  BY <1>2 DEF PopFree, First, QueueTypeOK
<1>4. head < tail /\ ~Owned(head)
  BY <1>2 DEF LineInv, QueueInv, PopOK
<1>5. \A pos \in Nat : slots'[Slot(pos)].item = slots[Slot(pos)].item
  <2>1. Slot(head) \in SlotIds  BY <1>2, SlotType
  <2>2. \A i \in SlotIds : slots'[i].item = slots[i].item
    BY <1>2, <2>1 DEF PopFree, QueueTypeOK
  <2> QED  BY <2>2, SlotType
<1>6. ASSUME NEW pos \in Nat PROVE ItemAt(pos)' = ItemAt(pos)
  <2>1. \A s \in Threads : Owner(s, pos)' <=> Owner(s, pos)
    BY <1>3 DEF Owner
  <2>2. \A s \in Threads : push'[s].item = push[s].item  BY <1>3
  <2> QED  BY <1>1, <1>5, <2>1, <2>2, ItemKept
<1> DEFINE n == tail - First
<1>7. /\ Line \in Seq(Items) /\ Len(Line) = n /\ n \in Nat /\ n > 0
      /\ \A k \in 1 .. n : Line[k] = ItemAt(head + k - 1)
  <2>1. /\ Line \in Seq(Items) /\ Len(Line) = n
        /\ \A k \in 1 .. n : Line[k] = ItemAt(head + k - 1)
    BY <1>1, <1>3 DEF LineShape
  <2> QED  BY <1>2, <1>3, <1>4, <2>1
<1>8. Line # << >>  BY <1>7, EmptySeq
<1>9. pop.item = Line[1]
  <2>1. Line[1] = ItemAt(head)  BY <1>2, <1>7
  <2>2. ItemAt(head) = slots[Slot(head)].item
    BY <1>1, <1>2, <1>4 DEF ItemsPlaced
  <2> QED  BY <1>2, <2>1, <2>2 DEF LineInv, Copies
<1>10. /\ Line' \in Seq(Items) /\ Len(Line') = n - 1
       /\ \A k \in 1 .. n - 1 : Line'[k] = ItemAt(head + k)'
  <2>1. /\ Line' \in Seq(Items) /\ Len(Line') = tail' - First'
        /\ \A k \in 1 .. tail' - First' : Line'[k] = ItemAt(First + k - 1)'
    BY <1>1 DEF LineShape
  <2>2. tail' - First' = n - 1  BY <1>2, <1>3
  <2>3. ASSUME NEW k \in 1 .. n - 1 PROVE Line'[k] = ItemAt(head + k)'
    <3>1. Line'[k] = ItemAt(First + k - 1)'  BY <2>1, <2>2
    <3>2. First' + k - 1 = head + k /\ head' + k = head + k
      BY <1>2, <1>3 DEF PopFree
    <3> QED  BY <3>1, <3>2
  <2> QED  BY <2>1, <2>2, <2>3
<1>11. /\ Tail(Line) \in Seq(Items) /\ Len(Tail(Line)) = n - 1
       /\ \A k \in 1 .. n - 1 : Tail(Line)[k] = Line[k + 1]
  BY <1>7, <1>8, HeadTailProperties
<1>12. ASSUME NEW k \in 1 .. n - 1 PROVE Line'[k] = Tail(Line)[k]
  <2>1. head + k \in Nat /\ k + 1 \in 1 .. n /\ head + (k + 1) - 1 = head + k
    BY <1>2, <1>7
  <2>2. Line[k + 1] = ItemAt(head + k)  BY <1>7, <2>1
  <2>3. ASSUME NEW pos \in Nat, pos = head + k PROVE ItemAt(pos)' = Line[k + 1]
    BY <1>6, <2>2, <2>3
  <2>4. head' = head  BY DEF PopFree
  <2> QED  BY <1>10, <1>11, <2>1, <2>3, <2>4
<1> HIDE DEF n
<1>13. Line' = Tail(Line)
  BY <1>10, <1>11, <1>12, SeqEqual
<1>14. pop'.item = pop.item  BY <1>2 DEF PopFree, QueueTypeOK
<1> QED  BY <1>8, <1>9, <1>13, <1>14

LEMMA PopOtherLine ==
    ASSUME LineInv, LineInv', PopFound \/ PopCopy \/ PopAdvance \/ PopReturn
    PROVE  Line' = Line
<1>1. LineKnown /\ LineKnown'  BY LineInvKnown, LineInvKnownNext
<1>2. UNCHANGED <<tail, slots, push>>
  BY DEF PopFound, PopCopy, PopAdvance, PopReturn
<1>3. First' = First
  <2>1. QueueTypeOK  BY DEF LineInv, QueueInv
  <2> QED  BY <2>1 DEF PopFound, PopCopy, PopAdvance, PopReturn, IdlePop, First,
                       QueueTypeOK
<1>4. ASSUME NEW pos \in Nat PROVE ItemAt(pos)' = ItemAt(pos)
  <2>1. \A s \in Threads : Owner(s, pos)' <=> Owner(s, pos)
    BY <1>2 DEF Owner
  <2> QED  BY <1>1, <1>2, <2>1, ItemKept DEF LineKnown
<1> QED  BY <1>1, <1>2, <1>3, <1>4, LineStays DEF LineKnown

LEMMA PopStepLine ==
    ASSUME LineInv, LineInv', PopStep
    PROVE  IF pop.pc = "free"
             THEN /\ Line # << >> /\ Line' = Tail(Line)
                  /\ pop.item = Line[1] /\ pop'.item = pop.item
             ELSE Line' = Line
<1>1. CASE PopFree  BY <1>1, PopFreeLine DEF PopFree
<1>2. CASE PopFound \/ PopCopy \/ PopAdvance
  <2>1. pop.pc # "free"  BY <1>2 DEF PopFound, PopCopy, PopAdvance
  <2> QED  BY <1>2, <2>1, PopOtherLine
<1> QED  BY <1>1, <1>2 DEF PopStep

LEMMA QueueRestsLine == ASSUME UNCHANGED queueVars PROVE Line' = Line
BY DEF queueVars, Line, ItemAt, Owner, First, Slot

-----------------------------------------------------------------------------
LEMMA InitLineInv == Init => LineInv
BY InitCopies, InitTypeInv DEF LineInv, TypeInv

LEMMA NextLineInv == LineInv /\ [QueueNext]_queueVars => LineInv'
BY QueueNextInv, QueueNextItems, NextCopies DEF LineInv

LEMMA InitLine == Init => Line = << >>
<1> SUFFICES ASSUME Init PROVE Line = << >>  OBVIOUS
<1>1. LineShape  BY InitLineInv, LineInvKnown DEF LineKnown
<1>2. tail = 0 /\ First = 0  BY DEF Init, QueueInit, First, IdlePop
<1>3. Line \in Seq(Items) /\ Len(Line) = 0  BY <1>1, <1>2 DEF LineShape
<1> QED  BY <1>3, EmptySeq

LEMMA QueueIsFifo == LineInv /\ LineInv' /\ [QueueNext]_queueVars => [Fifo!Next]_Line
<1> SUFFICES ASSUME LineInv, LineInv', [QueueNext]_queueVars PROVE [Fifo!Next]_Line
  OBVIOUS
<1> USE DEF Fifo!Next, Fifo!Join, Fifo!Leave
<1>1. ASSUME NEW t \in Threads, NEW item \in Items, PushBegin(t, item)
      PROVE  Line' = Line
  BY <1>1, PushBeginLine
<1>2. ASSUME NEW t \in Threads, PushStep(t) PROVE [Fifo!Next]_Line
  <2>1. push[t].pc = "claim" => push[t].item \in Tasks
    BY WorkerAssumption DEF LineInv, ItemsOK
  <2> QED  BY <1>2, <2>1, PushStepLine
<1>3. ASSUME NEW t \in Threads, PushReturn(t) PROVE Line' = Line
  BY <1>3, PushReturnLine
<1>4. CASE PopStep  BY <1>4, PopStepLine
<1>5. CASE PopReturn  BY <1>5, PopOtherLine
<1>6. CASE PopEmpty \/ UNCHANGED queueVars
  BY <1>6, QueueRestsLine DEF PopEmpty
<1> QED  BY <1>1, <1>2, <1>3, <1>4, <1>5, <1>6 DEF QueueNext

(* The lock-free queue, step for step and with its consumer handed from    *)
(* the worker's thread to its owner's, implements a bounded first-in       *)
(* first-out line: a claim joins it if there is room, a release takes its  *)
(* first, and no other step of any thread is seen.                         *)
THEOREM QueueImplementsFifo == Spec => ImplementsFifo
<1>1. Init => LineInv /\ Fifo!Init
  BY InitLineInv, InitLine DEF Fifo!Init
<1>2. TypeInv /\ LineInv /\ [Next]_vars => LineInv' /\ [Fifo!Next]_Line
  BY WorkerUsesQueueStep, NextLineInv, QueueIsFifo DEF TypeInv
<1> QED  BY <1>1, <1>2, InitTypeInv, NextTypeInv, PTL
         DEF Spec, ImplementsFifo, Fifo!Spec

-----------------------------------------------------------------------------
(* The shutdown.  How far the owner has asked, and what each kind of stop  *)
(* has told the worker's thread by then.                                   *)
Asked == owner.pc \notin {"create", "creating", "up", "request"}
Halted == owner.pc \notin {"create", "creating", "up", "request", "halt"}
InPost(t) == call[t].pc \in {"push", "signal"}

ShutdownOK ==
    /\ stop_requested <=> Asked
    /\ owner.pc \in {"create", "creating", "up"} <=> owner.kind = "none"
    /\ drain_before_exit <=> owner.kind = Drain
    /\ owner.pc = "halt" => owner.kind # Drain
    /\ worker.pc \in {"exit", "leave", "gone"} \/ worker.final => Asked
    /\ worker.final => drain_before_exit
                       /\ worker.pc \in {"pop", "callback", "abandon", "leave", "gone"}
    /\ ~Asked \/ (owner.kind = Drain /\ worker.pc # "gone") => running

LEMMA InitShutdownOK == Init => ShutdownOK
BY DEF Init, ShutdownOK, Asked, IdleWorker, Drain

Shapes ==
    /\ worker \in [pc : {"start", "loop", "pop", "callback", "abandon",
                         "abandon_stop", "stop_check", "wait", "exit", "leave",
                         "gone"},
                   some : BOOLEAN, final : BOOLEAN, task : Tasks \cup {NoItem}]
    /\ owner \in [pc : {"create", "creating", "up", "request", "halt", "signal",
                        "join", "discard", "stopped"},
                  kind : Stops \cup {"none"}]
    /\ Stops \subseteq {"stop", "stop_now"}

LEMMA ShapesKnown == TypeInv => Shapes
BY WorkerAssumption
DEF TypeInv, TypeOK, WorkerTypeOK, OwnerTypeOK, Shapes, Drain, Discard

(* The steps of a call change nothing of the shutdown.                     *)
LEMMA CallStepApart ==
    ASSUME NEW t \in Threads, CallStep(t)
    PROVE  UNCHANGED <<worker, owner, stopVars, history>>
BY DEF CallStep, SyncCheck, Refuse, Accept, Push, Full, Pushed, SignalPosted,
       WaitOver, workerVars, history, stopVars

LEMMA CallApart ==
    (\E t \in Callers : Call(t)) \/ NestedPost =>
        UNCHANGED <<worker, owner, stopVars, history>>
BY DEF Call, NestedPost

LEMMA NextShutdownOK == TypeInv /\ WakeInv /\ ShutdownOK /\ [Next]_vars => ShutdownOK'
<1> SUFFICES ASSUME TypeInv, WakeInv, ShutdownOK, [Next]_vars PROVE ShutdownOK'
  OBVIOUS
<1>0. Shapes  BY ShapesKnown
<1> USE DEF stopVars
<1>1. CASE UNCHANGED <<worker, owner, stopVars>>
  BY <1>1 DEF ShutdownOK, Asked
<1>2. ASSUME NEW t \in Threads, CallStep(t) PROVE UNCHANGED <<worker, owner, stopVars>>
  BY <1>2, CallStepApart
<1>3. CASE (\E t \in Callers : Call(t)) \/ NestedPost
  BY <1>1, <1>3, CallApart
<1>4. CASE Bind \/ RunTask \/ CallbackReturns
  <2>1. /\ worker.pc \in {"start", "pop", "callback"}
        /\ worker'.pc \in {"loop", "callback", "abandon"}
        /\ worker'.final = worker.final /\ UNCHANGED <<owner, stopVars>>
        /\ worker'.pc = "loop" => worker.pc = "start"
    BY <1>0, <1>4 DEF Bind, RunTask, CallbackReturns, GoWorker, Shapes
  <2> QED  BY <2>1 DEF ShutdownOK, Asked
<1>17. CASE Loop
  BY <1>0, <1>17 DEF Loop, IdleWorker, ShutdownOK, Asked, Shapes
<1>5. CASE AbandonDrain \/ StopCheck
  BY <1>0, <1>5 DEF AbandonDrain, StopCheck, GoWorker, ShutdownOK, Asked, Shapes
<1>6. CASE AbandonStop \/ NothingPending
  BY <1>0, <1>6
  DEF AbandonStop, NothingPending, AfterPending, GoWorker, ShutdownOK, Asked, Shapes
<1>7. CASE Wake \/ IdleTimeout
  BY <1>0, <1>7 DEF Wake, IdleTimeout, GoWorker, ShutdownOK, Asked, Shapes
<1>8. CASE ExitLoop
  BY <1>0, <1>8 DEF ExitLoop, IdleWorker, ShutdownOK, Asked, Shapes
<1>9. CASE Leave
  BY <1>0, <1>9 DEF Leave, GoWorker, ShutdownOK, Asked, Shapes
<1>10. CASE StartupBarrier \/ Created
  <2>1. /\ owner.pc \in {"create", "creating"} /\ owner'.pc \in {"creating", "up"}
        /\ owner'.kind = owner.kind /\ UNCHANGED <<worker, stopVars>>
    BY <1>0, <1>10 DEF StartupBarrier, Created, GoOwner, Shapes
  <2> QED  BY <2>1 DEF ShutdownOK, Asked
<1>18. CASE SignalStop
  BY <1>0, <1>18 DEF SignalStop, GoOwner, ShutdownOK, Asked, Shapes
<1>11. CASE BeginShutdown
  <2>1. PICK kind \in Stops : /\ owner' = [pc |-> "request", kind |-> kind]
                             /\ drain_before_exit' = (kind = Drain)
    BY <1>11 DEF BeginShutdown
  <2>2. owner'.pc = "request" /\ owner'.kind = kind /\ kind # "none"
    BY <1>0, <2>1 DEF Shapes
  <2>3. drain_before_exit' <=> owner'.kind = Drain  BY <2>1, <2>2
  <2>4. /\ owner.pc = "up" /\ ~Asked /\ ~Asked'
        /\ UNCHANGED <<worker, running, stop_requested>>
    BY <1>11, <2>2 DEF BeginShutdown, Asked
  <2> QED  BY <2>2, <2>3, <2>4 DEF ShutdownOK
<1>12. CASE RequestStop
  BY <1>0, <1>12 DEF RequestStop, GoOwner, ShutdownOK, Asked, Shapes, Drain
<1>13. CASE StopRunning
  BY <1>0, <1>13 DEF StopRunning, GoOwner, ShutdownOK, Asked, Shapes, Drain
<1>14. CASE JoinThread
  BY <1>0, <1>14 DEF JoinThread, GoOwner, ShutdownOK, Asked, Shapes, Drain
<1>15. CASE Discarded \/ DiscardAgain
  BY <1>0, <1>15 DEF Discarded, DiscardAgain, GoOwner, ShutdownOK, Asked, Shapes
<1>16. CASE WorkerPop \/ DiscardPop \/ DropTask \/ UNCHANGED vars
  BY <1>1, <1>16 DEF WorkerPop, DiscardPop, DropTask, workerVars, vars
<1> QED  BY <1>1, <1>2, <1>3, <1>4, <1>5, <1>6, <1>7, <1>8, <1>9, <1>10, <1>11,
            <1>12, <1>13, <1>14, <1>15, <1>16, <1>17, <1>18, WorkerAssumption
         DEF Next, WorkerStep, OwnerStep

(* After stop_now() has lowered `running', at most the task the thread was *)
(* already popping begins: behind it lies the way out.                     *)
HaltOK ==
    owner.kind = Discard /\ Halted =>
        /\ ~running
        /\ \/ Len(ran) = at_stop.ran
           \/ /\ Len(ran) = at_stop.ran + 1
              /\ worker.pc \in {"callback", "abandon", "abandon_stop", "loop",
                                "exit", "leave", "gone"}

LEMMA InitHaltOK == Init => HaltOK
BY DEF Init, HaltOK, Discard

LEMMA NextHaltOK ==
    TypeInv /\ WakeInv /\ ShutdownOK /\ HaltOK /\ [Next]_vars => HaltOK'
<1> SUFFICES ASSUME TypeInv, WakeInv, ShutdownOK, HaltOK, [Next]_vars PROVE HaltOK'
  OBVIOUS
<1>0. Shapes /\ ran \in Seq(Tasks) /\ Len(ran) \in Nat /\ at_stop.ran \in Nat
  BY ShapesKnown DEF TypeInv, TypeOK, WorkerTypeOK, OwnerTypeOK
<1>1. CASE UNCHANGED <<worker, owner, running, history>>
  BY <1>1 DEF HaltOK, Halted, history
<1>2. ASSUME NEW t \in Threads, CallStep(t)
      PROVE  UNCHANGED <<worker, owner, running, history>>
  BY <1>2, CallStepApart DEF stopVars
<1>3. CASE (\E t \in Callers : Call(t)) \/ NestedPost
  BY <1>1, <1>3, CallApart DEF stopVars
(* The worker's thread.  A stop that discards has told it by now.          *)
<1>4. owner.kind = Discard /\ Halted =>
        stop_requested /\ ~drain_before_exit /\ ~worker.final
  BY <1>0 DEF ShutdownOK, Halted, Asked, Discard, Drain
<1>5. CASE RunTask
  <2>1. Len(ran') = Len(ran) + 1  BY <1>0, <1>5 DEF RunTask, TypeInv, ItemsOK
  <2>2. /\ worker.pc = "pop" /\ worker'.pc = "callback"
        /\ UNCHANGED <<owner, running, at_stop>>
    BY <1>0, <1>5 DEF RunTask, Shapes, stopVars
  <2> QED  BY <1>0, <2>1, <2>2 DEF HaltOK, Halted
<1>6. CASE Loop
  <2>1. worker'.pc = (IF running THEN "pop" ELSE "exit")
        /\ UNCHANGED <<owner, running, history>>
    BY <1>0, <1>6 DEF Loop, IdleWorker, stopVars
  <2> QED  BY <2>1 DEF HaltOK, Halted, history
<1>7. CASE AbandonStop
  <2>1. /\ worker.pc = "abandon_stop" /\ UNCHANGED <<owner, running, history>>
        /\ worker'.pc = (IF stop_requested THEN AfterPending ELSE "pop")
    BY <1>0, <1>7 DEF AbandonStop, GoWorker, Shapes, stopVars
  <2>2. owner.kind = Discard /\ Halted => worker'.pc = "loop"
    BY <1>4, <2>1 DEF AfterPending, WakeInv
  <2> QED  BY <2>1, <2>2 DEF HaltOK, Halted, history
<1>8. CASE AbandonDrain \/ ExitLoop
  <2>1. /\ worker.pc \in {"abandon", "exit"} /\ UNCHANGED <<owner, running, history>>
        /\ ~drain_before_exit => worker'.pc \in {"abandon_stop", "leave"}
    BY <1>0, <1>8 DEF AbandonDrain, ExitLoop, GoWorker, IdleWorker, Shapes, stopVars
  <2> QED  BY <1>4, <2>1 DEF HaltOK, Halted, history
<1>9. CASE CallbackReturns \/ Leave
  <2>1. /\ worker.pc \in {"callback", "leave"} /\ worker'.pc \in {"abandon", "gone"}
        /\ UNCHANGED <<owner, history>> /\ (~running => ~running')
    BY <1>0, <1>9 DEF CallbackReturns, Leave, GoWorker, Shapes, stopVars
  <2> QED  BY <2>1 DEF HaltOK, Halted, history
<1>10. CASE Bind \/ NothingPending \/ StopCheck \/ Wake \/ IdleTimeout
  <2>1. /\ worker.pc \in {"start", "pop", "stop_check", "wait"}
        /\ UNCHANGED <<owner, running, history>>
    BY <1>10 DEF Bind, NothingPending, StopCheck, Wake, IdleTimeout, stopVars
  <2> QED  BY <2>1 DEF HaltOK, Halted, history
(* The owner.                                                              *)
<1>11. CASE StartupBarrier \/ Created \/ BeginShutdown \/ RequestStop
  <2>1. CASE StartupBarrier \/ Created
    BY <1>0, <2>1 DEF StartupBarrier, Created, GoOwner, Shapes, Halted, HaltOK
  <2>2. CASE BeginShutdown
    BY <1>0, <2>2 DEF BeginShutdown, Shapes, Halted, HaltOK
  <2>3. CASE RequestStop
    <3>1. owner'.kind = owner.kind
          /\ owner'.pc = (IF owner.kind = Drain THEN "signal" ELSE "halt")
      BY <1>0, <2>3 DEF RequestStop, GoOwner, Shapes
    <3> QED  BY <3>1 DEF HaltOK, Halted, Drain, Discard
  <2> QED  BY <1>11, <2>1, <2>2, <2>3
<1>12. CASE StopRunning
  <2>1. ~running' /\ ran' = ran /\ at_stop'.ran = Len(ran)
    BY <1>0, <1>12 DEF StopRunning, TypeInv, TypeOK, OwnerTypeOK
  <2> QED  BY <2>1 DEF HaltOK
<1>13. CASE SignalStop \/ JoinThread \/ Discarded \/ DiscardAgain
  <2>1. /\ Halted /\ owner'.kind = owner.kind /\ UNCHANGED <<worker, history>>
        /\ ~running => ~running'
    BY <1>0, <1>13
    DEF SignalStop, JoinThread, Discarded, DiscardAgain, GoOwner, Shapes,
        Halted, stopVars
  <2> QED  BY <2>1 DEF HaltOK, history
<1>14. CASE WorkerPop \/ DiscardPop \/ DropTask \/ UNCHANGED vars
  BY <1>1, <1>14 DEF WorkerPop, DiscardPop, DropTask, workerVars, stopVars, vars
<1> QED  BY <1>1, <1>2, <1>3, <1>5, <1>6, <1>7, <1>8, <1>9, <1>10, <1>11,
            <1>12, <1>13, <1>14, WorkerAssumption
         DEF Next, WorkerStep, OwnerStep

(* stop_now() lets the task in hand finish and at most one more begin, the *)
(* one the thread was already popping, however many are queued.            *)
THEOREM StopNowSparesTheQueue == Spec => []StopNowStartsAtMostOne
<1>1. TypeInv /\ ShutdownOK /\ HaltOK => StopNowStartsAtMostOne
  <2> SUFFICES ASSUME TypeInv, ShutdownOK, HaltOK, owner.kind = Discard,
                      owner.pc \notin {"request", "halt"}
               PROVE  Len(ran) <= at_stop.ran + 1
    BY DEF StopNowStartsAtMostOne
  <2>1. Halted  BY DEF ShutdownOK, Halted, Discard
  <2>2. Len(ran) \in Nat /\ at_stop.ran \in Nat
    BY DEF TypeInv, TypeOK, WorkerTypeOK, OwnerTypeOK
  <2> QED  BY <2>1, <2>2 DEF HaltOK
<1> QED  BY InitTypeInv, NextTypeInv, InitWakeInv, NextWakeInv, InitShutdownOK,
            NextShutdownOK, InitHaltOK, NextHaltOK, <1>1, PTL DEF Spec

-----------------------------------------------------------------------------
(* A stop that drains.  Once it is asked for, no caller that was outside a *)
(* post gets into one; so what the thread finds empty, last, stays empty.  *)
DrainOK ==
    /\ call[Creator].pc # "idle" => owner.pc = "creating"
    /\ call[WorkerThread].pc # "idle" => worker.pc = "callback"
    /\ owner.kind = Drain /\ Asked /\ at_stop.calls = {} =>
         /\ \A t \in Callers : ~InPost(t)
         /\ worker.pc \in {"leave", "gone"} => Line = << >>
LEMMA InitDrainOK == Init => DrainOK
BY WorkerAssumption DEF Init, DrainOK, IdleCall, Drain

(* When nobody is writing, an unpublished head is the end of the line.     *)
LEMMA EmptyLine ==
    ASSUME LineInv, ~Published, pop.pc = "idle",
           \A t \in Threads : push[t].pc \notin {"write", "publish"}
    PROVE  Line = << >>
<1>1. LineShape  BY LineInvKnown DEF LineKnown
<1>2. First = head /\ head \in Nat /\ tail \in Nat /\ head <= tail
  BY DEF LineInv, QueueInv, QueueTypeOK, QueueBounded, First
<1>3. ~Owned(head)  BY DEF Owned, Owner
<1>4. slots[Slot(head)].seq = IF head < tail THEN head + 1 ELSE head
  <2>1. head < First + Capacity /\ First <= head  BY <1>2, QueueAssumption
  <2> QED  BY <1>2, <1>3, <2>1 DEF LineInv, QueueInv, SeqOK
<1>5. tail - First = 0  BY <1>2, <1>4 DEF Published
<1>6. Line \in Seq(Items) /\ Len(Line) = 0  BY <1>1, <1>5 DEF LineShape
<1> QED  BY <1>6, EmptySeq

(* The steps of a call touch that call alone, and none gets into a post    *)
(* once the stop has been asked for.                                       *)
LEMMA CallStepOwn ==
    ASSUME TypeInv, NEW t \in Threads, CallStep(t)
    PROVE  /\ call[t].pc # "idle" /\ \A s \in Threads \ {t} : call'[s] = call[s]
           /\ stop_requested => (call'[t].pc \in {"push", "signal"} => InPost(t))
<1> USE DEF InPost, GoCall, Return, TypeInv, TypeOK, CallTypeOK, CallsOK
<1>1. CASE SyncCheck(t)  BY <1>1 DEF SyncCheck
<1>2. CASE Refuse(t) \/ Accept(t)  BY <1>2 DEF Refuse, Accept
<1>3. CASE Push(t)
  BY <1>3 DEF Push, PushStep, PushLoadSeq, PushClaim, PushWrite, PushPublish,
              workerVars, callVars
<1>4. CASE Full(t) \/ Pushed(t)  BY <1>4 DEF Full, Pushed
<1>5. CASE SignalPosted(t) \/ WaitOver(t)  BY <1>5 DEF SignalPosted, WaitOver
<1> QED  BY <1>1, <1>2, <1>3, <1>4, <1>5 DEF CallStep

(* Outside Push() the steps of a call leave the line as it is.             *)
LEMMA CallStepLine ==
    ASSUME TypeInv, LineInv, LineInv', NEW t \in Threads, CallStep(t), ~Push(t)
    PROVE  Line' = Line
<1>1. CASE Accept(t)
  <2>1. call[t].n \in 1 .. MaxCalls[t] /\ call[t].sync \in BOOLEAN
    BY <1>1, WorkerAssumption DEF Accept, TypeInv, CallsOK
  <2>2. TaskOf(t) \in Items  BY <2>1, WorkerAssumption DEF TaskOf, Tasks
  <2> QED  BY <1>1, <2>2, PushBeginLine DEF Accept
<1>2. CASE Full(t) \/ Pushed(t)  BY <1>2, PushReturnLine DEF Full, Pushed
<1>3. CASE SyncCheck(t) \/ Refuse(t) \/ SignalPosted(t) \/ WaitOver(t)
  BY <1>3, QueueRestsLine DEF SyncCheck, Refuse, SignalPosted, WaitOver
<1> QED  BY <1>1, <1>2, <1>3 DEF CallStep

(* The callers' part.                                                      *)
LEMMA CallStepDrainOK ==
    ASSUME TypeInv, ShutdownOK, LineInv, LineInv', DrainOK,
           NEW t \in Threads, CallStep(t)
    PROVE  DrainOK'
<1>1. /\ call[t].pc # "idle" /\ \A s \in Threads \ {t} : call'[s] = call[s]
      /\ stop_requested => (call'[t].pc \in {"push", "signal"} => InPost(t))
  BY CallStepOwn
<1>2. UNCHANGED <<worker, owner, at_stop>>  BY CallStepApart DEF history
<1>3. t \in Callers \/ t = Creator \/ t = WorkerThread  BY WorkerAssumption
<1>4. /\ call'[Creator].pc # "idle" => owner'.pc = "creating"
      /\ call'[WorkerThread].pc # "idle" => worker'.pc = "callback"
  BY <1>1, <1>2, WorkerAssumption DEF DrainOK
<1>5. ASSUME owner.kind = Drain, Asked, at_stop.calls = {}
      PROVE  /\ \A s \in Callers : call'[s].pc \notin {"push", "signal"}
             /\ worker.pc \in {"leave", "gone"} => Line' = << >>
  <2>1. stop_requested  BY <1>5 DEF ShutdownOK
  <2>2. \A s \in Callers : call'[s].pc \notin {"push", "signal"}
    BY <1>1, <1>5, <2>1, WorkerAssumption DEF DrainOK, InPost
  <2>3. ASSUME worker.pc \in {"leave", "gone"} PROVE ~Push(t)
    <3>1. SUFFICES ASSUME Push(t) PROVE FALSE  OBVIOUS
    <3>2. call[t].pc = "push"
      BY <3>1 DEF Push, PushStep, PushLoadSeq, PushClaim, PushWrite, PushPublish,
                  TypeInv, CallsOK
    <3> QED  BY <1>3, <1>5, <2>3, <3>2 DEF DrainOK, InPost, Asked
  <2>4. worker.pc \in {"leave", "gone"} => Line' = << >>
    BY <1>5, <2>3, CallStepLine DEF DrainOK
  <2> QED  BY <2>2, <2>4
<1> QED  BY <1>2, <1>4, <1>5 DEF DrainOK, InPost, Asked

(* A step that begins no call and none of the worker's thread's steps that *)
(* matter here.                                                            *)
LEMMA RestDrainOK ==
    ASSUME DrainOK, UNCHANGED <<call, at_stop>>,
           owner.pc = "creating" => owner'.pc = "creating" \/ call[Creator].pc = "idle",
           worker.pc = "callback" =>
               worker'.pc = "callback" \/ call[WorkerThread].pc = "idle",
           owner'.kind = Drain /\ Asked' => owner.kind = Drain /\ Asked,
           owner.kind = Drain /\ worker'.pc \in {"leave", "gone"} =>
               \/ worker.pc \in {"leave", "gone"} /\ (Line = << >> => Line' = << >>)
               \/ Line' = << >>
    PROVE  DrainOK'
BY DEF DrainOK, InPost

LEMMA WorkerDrainOK ==
    ASSUME TypeInv, WakeInv, ShutdownOK, LineInv, LineInv', DrainOK,
           \/ Bind \/ Loop \/ WorkerPop \/ RunTask \/ CallbackReturns
           \/ AbandonDrain \/ AbandonStop \/ NothingPending \/ StopCheck \/ Wake
           \/ IdleTimeout \/ ExitLoop \/ Leave
    PROVE  DrainOK'
<1>0. Shapes  BY ShapesKnown
<1> USE DEF Asked
<1>1. CASE Bind \/ Loop \/ AbandonDrain \/ StopCheck \/ Wake \/ IdleTimeout
  <2>1. /\ UNCHANGED <<call, at_stop, owner>>
        /\ worker.pc \in {"start", "loop", "abandon", "stop_check", "wait"}
        /\ worker'.pc \notin {"leave", "gone"}
    BY <1>0, <1>1
    DEF Bind, Loop, AbandonDrain, StopCheck, Wake, IdleTimeout, GoWorker,
        IdleWorker, Shapes, callVars, history
  <2> QED  BY <2>1, RestDrainOK
<1>2. CASE WorkerPop
  <2>1. worker.pc = "pop" /\ UNCHANGED <<call, at_stop, owner, worker>>
    BY <1>2 DEF WorkerPop, workerVars, callVars, history
  <2> QED  BY <2>1, RestDrainOK
<1>3. CASE RunTask
  <2>1. /\ worker.pc = "pop" /\ worker'.pc = "callback"
        /\ UNCHANGED <<call, at_stop, owner>>
    BY <1>0, <1>3 DEF RunTask, Shapes, callVars
  <2> QED  BY <2>1, RestDrainOK
<1>4. CASE CallbackReturns
  <2>1. /\ call[WorkerThread].pc = "idle" /\ worker'.pc = "abandon"
        /\ UNCHANGED <<call, at_stop, owner>>
    BY <1>0, <1>4 DEF CallbackReturns, GoWorker, Shapes, history
  <2> QED  BY <2>1, RestDrainOK
(* Between two tasks the last pass does not give up.                       *)
<1>5. CASE AbandonStop
  <2>1. /\ worker.pc = "abandon_stop" /\ UNCHANGED <<call, at_stop, owner>>
        /\ worker'.pc \in {AfterPending, "pop"}
    BY <1>0, <1>5 DEF AbandonStop, GoWorker, Shapes, callVars, history
  <2>2. ~worker.final  BY <2>1 DEF ShutdownOK
  <2>3. worker'.pc \notin {"leave", "gone"}  BY <2>1, <2>2 DEF AfterPending
  <2> QED  BY <2>1, <2>3, RestDrainOK
(* The thread finds nothing more: its last pass ends here.                 *)
<1>6. CASE NothingPending
  <2>1. /\ worker.pc = "pop" /\ pop.pc = "idle" /\ ~Published
        /\ UNCHANGED <<queueVars, call, at_stop, owner>>
        /\ worker'.pc = AfterPending
    BY <1>0, <1>6
    DEF NothingPending, PopEmpty, GoWorker, Shapes, callVars, history
  <2>2. ASSUME owner.kind = Drain, Asked, at_stop.calls = {}, worker.final
        PROVE  Line = << >>
    <3>1. ASSUME NEW t \in Threads PROVE push[t].pc \notin {"write", "publish"}
      <4>1. t \in Callers => call[t].pc # "push"
        BY <2>2 DEF DrainOK, InPost
      <4>2. t = Creator => call[t].pc = "idle"  BY <2>2 DEF DrainOK
      <4>3. t = WorkerThread => call[t].pc = "idle"  BY <2>1 DEF DrainOK
      <4> QED  BY <4>1, <4>2, <4>3, WorkerAssumption DEF TypeInv, CallsOK
    <3> QED  BY <2>1, <3>1, EmptyLine
  <2>3. Line' = Line  BY <2>1, QueueRestsLine
  <2>4. worker'.pc \in {"leave", "gone"} => worker.final
    BY <2>1 DEF AfterPending
  <2> QED  BY <2>1, <2>2, <2>3, <2>4 DEF DrainOK, InPost
<1>7. CASE ExitLoop
  <2>1. /\ worker.pc = "exit" /\ UNCHANGED <<call, at_stop, owner>>
        /\ drain_before_exit => worker'.pc = "pop"
    BY <1>0, <1>7 DEF ExitLoop, IdleWorker, Shapes, callVars, history
  <2>2. owner.kind = Drain => worker'.pc = "pop"  BY <2>1 DEF ShutdownOK
  <2> QED  BY <2>1, <2>2, RestDrainOK
<1>8. CASE Leave
  <2>1. /\ worker.pc = "leave" /\ worker'.pc = "gone"
        /\ UNCHANGED <<queueVars, call, at_stop, owner>>
    BY <1>0, <1>8 DEF Leave, GoWorker, Shapes, callVars, history
  <2>2. Line' = Line  BY <2>1, QueueRestsLine
  <2> QED  BY <2>1, <2>2, RestDrainOK
<1> QED  BY <1>1, <1>2, <1>3, <1>4, <1>5, <1>6, <1>7, <1>8

LEMMA OwnerDrainOK ==
    ASSUME TypeInv, WakeInv, ShutdownOK, LineInv, LineInv', DrainOK,
           \/ Created \/ BeginShutdown \/ RequestStop \/ StopRunning
           \/ SignalStop \/ JoinThread \/ DiscardPop \/ DropTask \/ Discarded
           \/ DiscardAgain
    PROVE  DrainOK'
<1>0. Shapes /\ at_stop \in [ran : Nat, calls : SUBSET Callers]
  BY ShapesKnown DEF TypeInv, TypeOK, OwnerTypeOK
<1> USE DEF Asked
<1>1. CASE Created
  <2>1. /\ call[Creator].pc = "idle" /\ owner'.pc = "up"
        /\ UNCHANGED <<call, at_stop, worker>>
    BY <1>0, <1>1 DEF Created, GoOwner, Shapes, callVars, history
  <2>2. owner.kind # Drain  BY <1>1 DEF Created, ShutdownOK, Drain
  <2> QED  BY <2>1, <2>2, RestDrainOK
<1>2. CASE BeginShutdown
  <2>1. /\ owner.pc = "up" /\ owner'.pc = "request"
        /\ UNCHANGED <<call, at_stop, worker>>
    BY <1>0, <1>2 DEF BeginShutdown, callVars, history
  <2>2. owner.kind # Drain  BY <2>1 DEF ShutdownOK, Drain
  <2> QED  BY <2>1, <2>2, RestDrainOK
(* The request takes down who is inside a post.                            *)
<1>3. CASE RequestStop
  <2>1. /\ owner.pc = "request" /\ owner'.pc # "creating"
        /\ UNCHANGED <<call, worker>>
        /\ at_stop'.calls = {t \in Callers : call[t].pc \notin {"idle", "wait"}}
    BY <1>0, <1>3 DEF RequestStop, GoOwner, Shapes, callVars
  <2>2. worker.pc \notin {"leave", "gone"}  BY <2>1 DEF ShutdownOK
  <2>3. at_stop'.calls = {} => \A t \in Callers : call[t].pc \in {"idle", "wait"}
    BY <2>1
  <2> QED  BY <2>1, <2>2, <2>3 DEF DrainOK, InPost
<1>4. CASE StopRunning
  <2>1. /\ owner.pc = "halt" /\ owner'.pc = "signal" /\ owner'.kind = owner.kind
        /\ UNCHANGED <<call, worker>> /\ owner.kind # Drain
    BY <1>0, <1>4 DEF StopRunning, GoOwner, Shapes, callVars, ShutdownOK
  <2> QED  BY <2>1 DEF DrainOK, InPost
<1>5. CASE SignalStop \/ JoinThread \/ Discarded \/ DiscardAgain
  <2>1. /\ UNCHANGED <<queueVars, call, at_stop, worker>>
        /\ owner'.kind = owner.kind
        /\ owner.pc \in {"signal", "join", "discard", "stopped"}
    BY <1>0, <1>5
    DEF SignalStop, JoinThread, Discarded, DiscardAgain, PopEmpty, GoOwner,
        Shapes, callVars, history
  <2>2. Line' = Line  BY <2>1, QueueRestsLine
  <2> QED  BY <2>1, <2>2, RestDrainOK
(* The owner, as the consumer, finds nothing.                              *)
<1>6. CASE DiscardPop \/ DropTask
  <2>1. UNCHANGED <<call, at_stop, worker, owner>>
    BY <1>6 DEF DiscardPop, DropTask, workerVars, callVars, history
  <2>2. Line = << >> => Line' = << >>
    BY <1>6, PopStepLine, PopOtherLine DEF DiscardPop, DropTask
  <2> QED  BY <2>1, <2>2, RestDrainOK
<1> QED  BY <1>1, <1>2, <1>3, <1>4, <1>5, <1>6

LEMMA NextDrainOK ==
    TypeInv /\ WakeInv /\ ShutdownOK /\ LineInv /\ LineInv' /\ DrainOK /\ [Next]_vars
        => DrainOK'
<1> SUFFICES ASSUME TypeInv, WakeInv, ShutdownOK, LineInv, LineInv', DrainOK,
                    [Next]_vars
             PROVE  DrainOK'
  OBVIOUS
<1>0. Shapes /\ call \in [Threads -> [pc : {"idle", "sync_check", "check", "push",
                                            "signal", "wait"},
                                      sync : BOOLEAN, n : Nat]]
  BY ShapesKnown DEF TypeInv, TypeOK, CallTypeOK
<1>1. ASSUME NEW t \in Threads, CallStep(t) PROVE DrainOK'
  BY <1>1, CallStepDrainOK
<1>2. ASSUME NEW t \in Callers, Call(t) PROVE DrainOK'
  <2>1. /\ UNCHANGED <<queueVars, worker, owner, at_stop>>
        /\ call'[t].pc \in {"sync_check", "check"}
        /\ \A s \in Threads \ {t} : call'[s] = call[s]
    BY <1>0, <1>2, WorkerAssumption DEF Call, BeginCall, history
  <2>2. Line' = Line  BY <2>1, QueueRestsLine
  <2> QED  BY <2>1, <2>2, WorkerAssumption DEF DrainOK, InPost, Asked
<1>3. CASE NestedPost
  <2>1. /\ UNCHANGED <<queueVars, worker, owner, at_stop>> /\ worker.pc = "callback"
        /\ \A s \in Threads \ {WorkerThread} : call'[s] = call[s]
    BY <1>0, <1>3 DEF NestedPost, BeginCall, history
  <2> QED  BY <2>1, WorkerAssumption DEF DrainOK, InPost, Asked
<1>4. CASE StartupBarrier
  <2>1. /\ UNCHANGED <<worker, at_stop>> /\ owner'.pc = "creating"
        /\ \A s \in Threads \ {Creator} : call'[s] = call[s]
    BY <1>0, <1>4 DEF StartupBarrier, BeginCall, GoOwner, Shapes, history
  <2> QED  BY <2>1, WorkerAssumption DEF DrainOK, InPost, Asked
<1>5. CASE UNCHANGED vars
  <2>1. UNCHANGED <<queueVars, call, worker, owner, at_stop>>
    BY <1>5 DEF vars, workerVars, callVars, history
  <2>2. Line' = Line  BY <2>1, QueueRestsLine
  <2> QED  BY <2>1, <2>2, RestDrainOK DEF Asked
<1> QED  BY <1>1, <1>2, <1>3, <1>4, <1>5, WorkerDrainOK, OwnerDrainOK, WorkerAssumption
         DEF Next, WorkerStep, OwnerStep

(* What the thread keeps of the queue's invariants, for the line's sake.   *)
LEMMA NextLineKept == TypeInv /\ LineInv /\ [Next]_vars => LineInv'
BY WorkerUsesQueueStep, NextLineInv DEF TypeInv

(* stop() leaves nothing behind: if no caller was in the middle of a post  *)
(* when it was asked for, the queue is empty when it returns, whatever the *)
(* callbacks themselves posted meanwhile.                                  *)
THEOREM StopDrainsTheQueue == Spec => []DrainRunsEverything
<1>1. WakeInv /\ DrainOK => DrainRunsEverything
  BY DEF WakeInv, DrainOK, DrainRunsEverything, Asked
<1> QED  BY InitTypeInv, NextTypeInv, InitWakeInv, NextWakeInv, InitShutdownOK,
            NextShutdownOK, InitLineInv, NextLineKept, InitDrainOK, NextDrainOK,
            <1>1, PTL DEF Spec

-----------------------------------------------------------------------------
(* The tasks.  Where a posted task is: in the line, in the consumer's hand *)
(* between its slot and its callback, or among those that have begun, of   *)
(* which the last may still be running.                                    *)
TasksIn(seq) == {seq[k] : k \in 1 .. Len(seq)}
OneEach(seq) == \A j, k \in 1 .. Len(seq) : seq[j] = seq[k] => j = k

Queued == TasksIn(Line)
InHand == IF pop.pc \in {"advance", "popped"} THEN {pop.item} ELSE {}
Begun == TasksIn(ran)
Current == IF worker.pc = "callback" THEN {worker.task} ELSE {}
Pending == Queued \cup InHand \cup Current
Known == Queued \cup InHand \cup Begun

Placed(t) == \/ push[t].pc \in {"write", "publish", "pushed"}
             \/ call[t].pc \in {"signal", "wait", "idle"}

(* A task is in one place, and once.                                       *)
Apart ==
    /\ Queued \cap InHand = {} /\ Queued \cap Begun = {} /\ InHand \cap Begun = {}
    /\ OneEach(Line) /\ Current \subseteq Begun

(* A task is numbered by its thread's calls, and the one of the call in    *)
(* progress is known only once the call has claimed its place.             *)
Numbered ==
    \A task \in Known :
        /\ task \in Tasks /\ task.n <= call[task.by].n
        /\ task.n = call[task.by].n =>
             task.sync = call[task.by].sync /\ Placed(task.by)

Carried == \A t \in Threads : push[t].pc # "idle" => push[t].item = TaskOf(t)

(* A task with a request on its caller's stack still has that caller.      *)
Alive ==
    \A task \in Pending : task.sync =>
        /\ call[task.by].pc \in {"push", "signal", "wait"}
        /\ call[task.by].n = task.n
        /\ done[task.by] = "pending"

(* What the completion of a call in progress says of its task.             *)
CompletedAt(t) ==
    /\ call[t].pc = "wait" => call[t].sync
    /\ call[t].sync /\ call[t].pc \in {"check", "push", "signal", "wait"} =>
         /\ done[t] # "none"
         /\ ~Placed(t) => done[t] = "pending"
         /\ done[t] = "ran" => TaskOf(t) \in Begun /\ TaskOf(t) \notin Current
         /\ done[t] = "dropped" => TaskOf(t) \notin Known

(* What the answer of the last call says of its task.                      *)
AnsweredAt(t) ==
    call[t].pc = "idle" /\ call[t].sync =>
        IF answer[t] = "ok" THEN TaskOf(t) \in Begun /\ TaskOf(t) \notin Current
                            ELSE TaskOf(t) \notin Known

TaskInv ==
    /\ Apart /\ Numbered /\ Carried /\ Alive
    /\ \A t \in Threads : CompletedAt(t) /\ AnsweredAt(t)

LEMMA AppendTasks ==
    ASSUME NEW S, NEW seq \in Seq(S), NEW x \in S
    PROVE  /\ TasksIn(Append(seq, x)) = TasksIn(seq) \cup {x}
           /\ OneEach(seq) /\ x \notin TasksIn(seq) => OneEach(Append(seq, x))
<1> DEFINE n == Len(seq)
           new == Append(seq, x)
<1>1. /\ n \in Nat /\ Len(new) = n + 1 /\ new[n + 1] = x
      /\ \A k \in 1 .. n : new[k] = seq[k]
  BY AppendProperties, LenProperties
<1>2. 1 .. n + 1 = (1 .. n) \cup {n + 1}  BY <1>1
<1> HIDE DEF n, new
<1>3. TasksIn(new) = {new[k] : k \in 1 .. n + 1}  BY <1>1 DEF TasksIn
<1>4. TasksIn(seq) = {seq[k] : k \in 1 .. n}  BY DEF TasksIn, n
<1>5. TasksIn(new) = TasksIn(seq) \cup {x}  BY <1>1, <1>2, <1>3, <1>4
<1>6. ASSUME OneEach(seq), x \notin TasksIn(seq) PROVE OneEach(new)
  <2>1. \A k \in 1 .. n : seq[k] # x  BY <1>4, <1>6
  <2>2. \A j, k \in 1 .. n : seq[j] = seq[k] => j = k  BY <1>6 DEF OneEach, n
  <2> QED  BY <1>1, <1>2, <2>1, <2>2 DEF OneEach
<1> QED  BY <1>5, <1>6 DEF new

LEMMA TailTasks ==
    ASSUME NEW S, NEW seq \in Seq(S), seq # << >>, OneEach(seq)
    PROVE  /\ seq[1] \in TasksIn(seq)
           /\ TasksIn(Tail(seq)) = TasksIn(seq) \ {seq[1]}
           /\ OneEach(Tail(seq))
<1> DEFINE n == Len(seq)
           rest == Tail(seq)
<1>1. /\ n \in Nat /\ n > 0 /\ Len(rest) = n - 1
      /\ \A k \in 1 .. n - 1 : rest[k] = seq[k + 1]
  BY HeadTailProperties, LenProperties, EmptySeq
<1>2. \A j, k \in 1 .. n : seq[j] = seq[k] => j = k  BY DEF OneEach
<1> HIDE DEF n, rest
<1>3. TasksIn(rest) = {rest[k] : k \in 1 .. n - 1}  BY <1>1 DEF TasksIn
<1>4. TasksIn(seq) = {seq[k] : k \in 1 .. n}  BY DEF TasksIn, n
<1>5. seq[1] \in TasksIn(seq)  BY <1>1, <1>4
<1>6. ASSUME NEW x \in TasksIn(rest) PROVE x \in TasksIn(seq) \ {seq[1]}
  <2>1. PICK k \in 1 .. n - 1 : x = rest[k]  BY <1>3, <1>6
  <2>2. k + 1 \in 1 .. n /\ k + 1 # 1 /\ 1 \in 1 .. n /\ x = seq[k + 1]
    BY <1>1, <2>1
  <2> QED  BY <1>2, <1>4, <2>2
<1>7. ASSUME NEW x \in TasksIn(seq), x # seq[1] PROVE x \in TasksIn(rest)
  <2>1. PICK k \in 1 .. n : x = seq[k]  BY <1>4, <1>7
  <2>2. k - 1 \in 1 .. n - 1 /\ (k - 1) + 1 = k  BY <1>1, <1>7, <2>1
  <2>3. rest[k - 1] = x  BY <1>1, <2>1, <2>2
  <2> QED  BY <1>3, <2>2, <2>3
<1>8. OneEach(rest)
  <2> SUFFICES ASSUME NEW j \in 1 .. n - 1, NEW k \in 1 .. n - 1, rest[j] = rest[k]
               PROVE  j = k
    BY <1>1 DEF OneEach
  <2>1. j + 1 \in 1 .. n /\ k + 1 \in 1 .. n /\ seq[j + 1] = seq[k + 1]
    BY <1>1
  <2> QED  BY <1>2, <2>1
<1> QED  BY <1>5, <1>6, <1>7, <1>8 DEF rest

LEMMA InitTaskInv == Init => TaskInv
<1> SUFFICES ASSUME Init PROVE TaskInv  OBVIOUS
<1>1. Line = << >> /\ ran = << >>  BY InitLine DEF Init
<1>2. Queued = {} /\ Begun = {} /\ OneEach(Line)
  BY <1>1 DEF Queued, Begun, TasksIn, OneEach
<1>3. InHand = {} /\ Current = {}
  BY DEF Init, QueueInit, IdlePop, IdleWorker, InHand, Current
<1>4. Apart /\ Numbered /\ Alive
  BY <1>2, <1>3 DEF Apart, Numbered, Alive, Pending, Known
<1>5. Carried  BY DEF Init, QueueInit, IdlePush, Carried
<1>6. \A t \in Threads : CompletedAt(t) /\ AnsweredAt(t)
  BY DEF Init, IdleCall, CompletedAt, AnsweredAt
<1> QED  BY <1>4, <1>5, <1>6 DEF TaskInv

(* A step of one call that moves no task.                                  *)
PlacesRest == UNCHANGED <<Queued, InHand, Begun, Current>> /\ Line' = Line

LEMMA PlacesRestBy ==
    ASSUME Line' = Line, UNCHANGED <<ran, worker>>, InHand' = InHand
    PROVE  PlacesRest
BY DEF PlacesRest, Queued, Begun, Current

LEMMA CallTasks ==
    ASSUME TaskInv, PlacesRest, NEW t \in Threads,
           \A s \in Threads \ {t} :
               /\ call'[s] = call[s] /\ answer'[s] = answer[s]
               /\ done'[s] = done[s] /\ push'[s] = push[s],
           push'[t].pc # "idle" => push'[t].item = TaskOf(t)',
           call[t].n \in Nat, call'[t].n \in Nat, call[t].n <= call'[t].n,
           call'[t].n = call[t].n =>
               call'[t].sync = call[t].sync /\ (Placed(t) => Placed(t)'),
           \A task \in Pending : task.by = t /\ task.sync =>
               /\ call'[t].pc \in {"push", "signal", "wait"}
               /\ call'[t].n = call[t].n
               /\ done'[t] = "pending",
           CompletedAt(t)', AnsweredAt(t)'
    PROVE  TaskInv'
<1>1. \A s \in Threads \ {t} : /\ TaskOf(s)' = TaskOf(s)
                               /\ Placed(s)' <=> Placed(s)
  BY DEF TaskOf, Placed
<1>2. /\ Known' = Known /\ Pending' = Pending /\ Begun' = Begun
      /\ Current' = Current /\ Queued' = Queued /\ InHand' = InHand
  BY DEF PlacesRest, Known, Pending
<1>3. Apart'  BY <1>2 DEF TaskInv, Apart, PlacesRest, OneEach
<1>4. Numbered'
  <2> SUFFICES ASSUME NEW task \in Known
               PROVE  /\ task \in Tasks /\ task.n <= call'[task.by].n
                      /\ task.n = call'[task.by].n =>
                           task.sync = call'[task.by].sync /\ Placed(task.by)'
    BY <1>2 DEF Numbered
  <2>1. /\ task \in Tasks /\ task.n <= call[task.by].n
        /\ task.n = call[task.by].n =>
             task.sync = call[task.by].sync /\ Placed(task.by)
    BY DEF TaskInv, Numbered
  <2>2. task.by \in Threads /\ task.n \in Nat  BY <2>1 DEF Tasks
  <2>3. CASE task.by # t  BY <1>1, <2>1, <2>2, <2>3
  <2>4. CASE task.by = t  BY <2>1, <2>2, <2>4
  <2> QED  BY <2>3, <2>4
<1>5. Carried'  BY <1>1 DEF TaskInv, Carried
<1>6. Alive'
  <2> SUFFICES ASSUME NEW task \in Pending, task.sync
               PROVE  /\ call'[task.by].pc \in {"push", "signal", "wait"}
                      /\ call'[task.by].n = task.n
                      /\ done'[task.by] = "pending"
    BY <1>2 DEF Alive
  <2>1. /\ call[task.by].pc \in {"push", "signal", "wait"}
        /\ call[task.by].n = task.n
        /\ done[task.by] = "pending"
    BY DEF TaskInv, Alive
  <2>2. task.by \in Threads
    BY DEF TaskInv, Numbered, Apart, Pending, Known, Tasks
  <2> QED  BY <2>1, <2>2
<1>7. \A s \in Threads \ {t} : CompletedAt(s)' /\ AnsweredAt(s)'
  BY <1>1, <1>2 DEF TaskInv, CompletedAt, AnsweredAt
<1> QED  BY <1>3, <1>4, <1>5, <1>6, <1>7 DEF TaskInv

(* What a thread's own call knows.                                         *)
LEMMA CallKnows ==
    ASSUME TypeInv, TaskInv, NEW t \in Threads
    PROVE  /\ call[t].n \in Nat /\ call[t].sync \in BOOLEAN
           /\ ~Placed(t) => TaskOf(t) \notin Known
           /\ \A task \in Pending : task.by = t /\ task.sync =>
                /\ call[t].pc \in {"push", "signal", "wait"} /\ call[t].sync
                /\ call[t].n = task.n /\ Placed(t) /\ done[t] = "pending"
                /\ task = TaskOf(t)
           /\ Pending \subseteq Known /\ CompletedAt(t) /\ AnsweredAt(t)
           /\ push[t].pc # "idle" => push[t].item = TaskOf(t)
<1>1. call[t].n \in Nat /\ call[t].sync \in BOOLEAN
  BY DEF TypeInv, TypeOK, CallTypeOK
<1>2. Pending \subseteq Known  BY DEF TaskInv, Apart, Pending, Known
<1>3. TaskOf(t).by = t /\ TaskOf(t).n = call[t].n  BY DEF TaskOf
<1>4. ~Placed(t) => TaskOf(t) \notin Known
  BY <1>3 DEF TaskInv, Numbered
<1>5. ASSUME NEW task \in Pending, task.by = t, task.sync
      PROVE  /\ call[t].pc \in {"push", "signal", "wait"} /\ call[t].sync
             /\ call[t].n = task.n /\ Placed(t) /\ done[t] = "pending"
             /\ task = TaskOf(t)
  <2>1. call[t].pc \in {"push", "signal", "wait"} /\ call[t].n = task.n
        /\ done[t] = "pending"
    BY <1>5 DEF TaskInv, Alive
  <2>2. task \in Tasks /\ task.sync = call[t].sync /\ Placed(t)
    BY <1>2, <1>5, <2>1 DEF TaskInv, Numbered
  <2>3. task = TaskOf(t)  BY <1>5, <2>1, <2>2 DEF Tasks, TaskOf
  <2> QED  BY <1>5, <2>1, <2>2, <2>3
<1> QED  BY <1>1, <1>2, <1>4, <1>5 DEF TaskInv, Carried

LEMMA BeginCallTasks ==
    ASSUME TypeInv, TaskInv, NEW t \in Threads, NEW sync \in BOOLEAN,
           BeginCall(t, sync), UNCHANGED <<queueVars, worker, ran>>
    PROVE  TaskInv'
<1>1. PlacesRest  BY QueueRestsLine, PlacesRestBy DEF queueVars, InHand
<1>2. /\ call[t].pc = "idle" /\ push[t].pc = "idle" /\ call[t].n \in Nat
      /\ call'[t].pc \in {"sync_check", "check"} /\ call'[t].n = call[t].n + 1
      /\ call'[t].sync = sync /\ (sync => call'[t].pc = "sync_check")
      /\ \A s \in Threads \ {t} : call'[s] = call[s] /\ answer'[s] = answer[s]
      /\ UNCHANGED <<push, done>>
  BY DEF BeginCall, queueVars, TypeInv, TypeOK, CallTypeOK, CallsOK
<1>3. \A task \in Pending : ~(task.by = t /\ task.sync)
  BY <1>2, CallKnows
<1>4. CompletedAt(t)' /\ AnsweredAt(t)'
  BY <1>2 DEF CompletedAt, AnsweredAt
<1> QED  BY <1>1, <1>2, <1>3, <1>4, CallTasks

(* A call that returns with nothing placed leaves nothing behind.          *)
LEMMA RefusedTasks ==
    ASSUME TypeInv, TaskInv, NEW t \in Threads, ~Placed(t), PlacesRest,
           \A s \in Threads \ {t} : push'[s] = push[s],
           push'[t].pc = "idle", NEW result \in {"refused", "full"},
           Return(t, result), UNCHANGED done
    PROVE  TaskInv'
<1>1. /\ call'[t].pc = "idle" /\ call'[t].n = call[t].n
      /\ call'[t].sync = call[t].sync /\ answer'[t] = result
      /\ \A s \in Threads \ {t} : call'[s] = call[s] /\ answer'[s] = answer[s]
  BY DEF Return, GoCall, TypeInv, TypeOK, CallTypeOK
<1>2. TaskOf(t)' = TaskOf(t) /\ TaskOf(t) \notin Known
  BY <1>1, CallKnows DEF TaskOf
<1>3. Known' = Known  BY DEF PlacesRest, Known
<1>4. \A task \in Pending : ~(task.by = t /\ task.sync)  BY CallKnows
<1>5. CompletedAt(t)' /\ AnsweredAt(t)'
  BY <1>1, <1>2, <1>3 DEF CompletedAt, AnsweredAt
<1>6. call[t].n \in Nat  BY CallKnows
<1> QED  BY <1>1, <1>4, <1>5, <1>6, CallTasks

(* A call that goes on to where it is as much placed as before.            *)
LEMMA GoesOnTasks ==
    ASSUME TypeInv, TaskInv, NEW t \in Threads, PlacesRest,
           \A s \in Threads \ {t} : push'[s] = push[s] /\ call'[s] = call[s],
           push'[t].pc # "idle" => push'[t].item = TaskOf(t),
           call'[t].n = call[t].n, call'[t].sync = call[t].sync,
           UNCHANGED <<answer, done>>, Placed(t)' <=> Placed(t),
           \/ call'[t].pc = call[t].pc
           \/ call[t].pc = "check" /\ call'[t].pc = "push"
           \/ call[t].pc = "push" /\ call'[t].pc = "signal"
           \/ call[t].pc = "signal" /\ call'[t].pc = "wait" /\ call[t].sync
    PROVE  TaskInv'
<1>1. TaskOf(t)' = TaskOf(t)  BY DEF TaskOf
<1>2. Known' = Known /\ Begun' = Begun /\ Current' = Current
  BY DEF PlacesRest, Known
<1>3. CompletedAt(t) /\ AnsweredAt(t) /\ call[t].n \in Nat  BY CallKnows
<1>4. \A task \in Pending : task.by = t /\ task.sync =>
        /\ call[t].pc \in {"push", "signal", "wait"}
        /\ done[t] = "pending"
  BY CallKnows
<1>5. \A task \in Pending : task.by = t /\ task.sync =>
        /\ call'[t].pc \in {"push", "signal", "wait"}
        /\ call'[t].n = call[t].n
        /\ done'[t] = "pending"
  BY <1>4
<1>6. CompletedAt(t)' /\ AnsweredAt(t)'
  BY <1>1, <1>2, <1>3 DEF CompletedAt, AnsweredAt
<1> QED  BY <1>1, <1>3, <1>5, <1>6, CallTasks

LEMMA CallStepTasks ==
    ASSUME TypeInv, LineInv, LineInv', TaskInv, NEW t \in Threads,
           CallStep(t), ~Push(t)
    PROVE  TaskInv'
<1>1. PlacesRest
  <2>1. UNCHANGED <<ran, worker>>  BY CallStepApart DEF history
  <2>2. pop' = pop
    BY DEF CallStep, SyncCheck, Refuse, Accept, Full, Pushed, SignalPosted,
           WaitOver, PushBegin, PushReturn, queueVars
  <2>3. InHand' = InHand  BY <2>2 DEF InHand
  <2> QED  BY <2>1, <2>3, CallStepLine, PlacesRestBy
<1>2. /\ push \in [Threads -> [pc : {"idle", "load", "claim", "write", "publish",
                                     "pushed", "full"},
                               pos : Nat, item : Items \cup {NoItem}]]
      /\ call \in [Threads -> [pc : {"idle", "sync_check", "check", "push",
                                     "signal", "wait"},
                               sync : BOOLEAN, n : Nat]]
      /\ done \in [Threads -> {"none", "pending", "ran", "dropped"}]
      /\ answer \in [Threads -> {"none", "ok", "refused", "full"}]
  BY DEF TypeInv, TypeOK, QueueTypeOK, CallTypeOK
<1>3. push[t].pc # "idle" => call[t].pc = "push"  BY DEF TypeInv, CallsOK
<1>4. CASE SyncCheck(t)
  <2>1. /\ call[t].pc = "sync_check" /\ push[t].pc = "idle" /\ ~Placed(t)
        /\ push' = push
    BY <1>3, <1>4 DEF SyncCheck, Placed, queueVars
  <2>2. CASE stop_requested
    BY <1>1, <1>4, <2>1, <2>2, RefusedTasks DEF SyncCheck
  <2>3. CASE ~stop_requested
    <3>1. /\ done' = [done EXCEPT ![t] = "pending"] /\ answer' = answer
          /\ call'[t].pc = "check" /\ call'[t].n = call[t].n
          /\ call'[t].sync = call[t].sync
          /\ \A s \in Threads \ {t} : call'[s] = call[s]
      BY <1>2, <1>4, <2>3 DEF SyncCheck, GoCall
    <3>2. done'[t] = "pending" /\ \A s \in Threads \ {t} : done'[s] = done[s]
      BY <1>2, <3>1
    <3>3. \A task \in Pending : ~(task.by = t /\ task.sync)
      BY <2>1, CallKnows
    <3>4. CompletedAt(t)' /\ AnsweredAt(t)'
      BY <3>1, <3>2 DEF CompletedAt, AnsweredAt
    <3> QED  BY <1>1, <1>2, <2>1, <3>1, <3>2, <3>3, <3>4, CallTasks
  <2> QED  BY <2>2, <2>3
<1>5. CASE Refuse(t)
  <2>1. call[t].pc = "check" /\ push[t].pc = "idle" /\ ~Placed(t) /\ push' = push
    BY <1>3, <1>5 DEF Refuse, Placed, queueVars
  <2> QED  BY <1>1, <1>5, <2>1, RefusedTasks DEF Refuse
<1>6. CASE Accept(t)
  <2>1. /\ call[t].pc = "check" /\ push[t].pc = "idle"
        /\ push'[t].pc = "load" /\ push'[t].item = TaskOf(t)
        /\ call'[t].pc = "push" /\ call'[t].n = call[t].n
        /\ call'[t].sync = call[t].sync /\ UNCHANGED <<answer, done>>
        /\ \A s \in Threads \ {t} : push'[s] = push[s] /\ call'[s] = call[s]
    BY <1>2, <1>3, <1>6 DEF Accept, PushBegin, GoCall
  <2>2. Placed(t)' <=> Placed(t)  BY <2>1 DEF Placed
  <2> QED  BY <1>1, <2>1, <2>2, GoesOnTasks
<1>7. CASE Full(t)
  <2>1. /\ push[t].pc = "full" /\ call[t].pc = "push" /\ ~Placed(t)
        /\ push'[t].pc = "idle" /\ \A s \in Threads \ {t} : push'[s] = push[s]
    BY <1>2, <1>3, <1>7 DEF Full, PushReturn, IdlePush, Placed
  <2> QED  BY <1>1, <1>7, <2>1, RefusedTasks DEF Full
<1>8. CASE Pushed(t)
  <2>1. /\ push[t].pc = "pushed" /\ call[t].pc = "push"
        /\ push'[t].pc = "idle" /\ call'[t].pc = "signal"
        /\ call'[t].n = call[t].n /\ call'[t].sync = call[t].sync
        /\ UNCHANGED <<answer, done>>
        /\ \A s \in Threads \ {t} : push'[s] = push[s] /\ call'[s] = call[s]
    BY <1>2, <1>3, <1>8 DEF Pushed, PushReturn, IdlePush, GoCall
  <2>2. Placed(t)' <=> Placed(t)  BY <2>1 DEF Placed
  <2> QED  BY <1>1, <2>1, <2>2, GoesOnTasks
<1>9. CASE SignalPosted(t)
  <2>1. call[t].pc = "signal" /\ push[t].pc = "idle" /\ UNCHANGED <<push, done>>
    BY <1>3, <1>9 DEF SignalPosted, queueVars
  <2>2. CASE call[t].sync
    <3>1. /\ call'[t].pc = "wait" /\ call'[t].n = call[t].n
          /\ call'[t].sync = call[t].sync /\ answer' = answer
          /\ \A s \in Threads \ {t} : call'[s] = call[s]
      <4>1. call' = [call EXCEPT ![t].pc = "wait"] /\ answer' = answer
        BY <1>9, <2>2 DEF SignalPosted, GoCall
      <4> QED  BY <1>2, <4>1
    <3>2. Placed(t)' <=> Placed(t)  BY <2>1, <3>1 DEF Placed
    <3> QED  BY <1>1, <2>1, <2>2, <3>1, <3>2, GoesOnTasks
  <2>3. CASE ~call[t].sync
    <3>1. /\ call'[t].pc = "idle" /\ call'[t].n = call[t].n
          /\ call'[t].sync = call[t].sync
          /\ \A s \in Threads \ {t} : call'[s] = call[s] /\ answer'[s] = answer[s]
      BY <1>2, <1>9, <2>3 DEF SignalPosted, Return, GoCall
    <3>2. Placed(t)' <=> Placed(t)  BY <2>1, <3>1 DEF Placed
    <3>3. \A task \in Pending : ~(task.by = t /\ task.sync)
      BY <2>3, CallKnows
    <3>4. CompletedAt(t)' /\ AnsweredAt(t)'
      BY <2>3, <3>1 DEF CompletedAt, AnsweredAt
    <3> QED  BY <1>1, <1>2, <2>1, <3>1, <3>2, <3>3, <3>4, CallTasks
  <2> QED  BY <2>2, <2>3
(* Whoever is released was waiting for a completion that has come.         *)
<1>10. CASE WaitOver(t)
  <2>1. /\ call[t].pc = "wait" /\ push[t].pc = "idle" /\ UNCHANGED <<push, done>>
        /\ done[t] # "pending" /\ call'[t].pc = "idle"
        /\ call'[t].n = call[t].n /\ call'[t].sync = call[t].sync
        /\ answer'[t] = (IF done[t] = "ran" THEN "ok" ELSE "refused")
        /\ \A s \in Threads \ {t} : call'[s] = call[s] /\ answer'[s] = answer[s]
    BY <1>2, <1>3, <1>10 DEF WaitOver, Return, GoCall, queueVars
  <2>2. CompletedAt(t)  BY CallKnows
  <2>3. /\ call[t].sync /\ done[t] \in {"ran", "dropped"}
        /\ done[t] = "ran" => TaskOf(t) \in Begun /\ TaskOf(t) \notin Current
        /\ done[t] = "dropped" => TaskOf(t) \notin Known
    BY <1>2, <2>1, <2>2 DEF CompletedAt
  <2>4. TaskOf(t)' = TaskOf(t)  BY <2>1 DEF TaskOf
  <2>5. Known' = Known /\ Begun' = Begun /\ Current' = Current
    BY <1>1 DEF PlacesRest, Known
  <2>6. \A task \in Pending : ~(task.by = t /\ task.sync)
    BY <2>1, CallKnows
  <2>7. CompletedAt(t)' /\ AnsweredAt(t)'
    BY <2>1, <2>3, <2>4, <2>5 DEF CompletedAt, AnsweredAt
  <2>8. Placed(t)' <=> Placed(t)  BY <2>1 DEF Placed
  <2> QED  BY <1>1, <1>2, <2>1, <2>6, <2>7, <2>8, CallTasks
<1> QED  BY <1>4, <1>5, <1>6, <1>7, <1>8, <1>9, <1>10 DEF CallStep

(* A claim: the task of the call in progress joins those that are queued.  *)
LEMMA ClaimTasks ==
    ASSUME TypeInv, TaskInv, NEW t \in Threads, ~Placed(t), Placed(t)',
           push[t].pc = "claim", Line \in Seq(Items),
           Line' = Append(Line, push[t].item), push'[t].item = push[t].item,
           \A s \in Threads \ {t} : push'[s] = push[s],
           UNCHANGED <<workerVars, pop>>
    PROVE  TaskInv'
<1> DEFINE mine == TaskOf(t)
<1>1. /\ call[t].pc = "push" /\ call[t].n \in 1 .. MaxCalls[t]
      /\ call[t].sync \in BOOLEAN /\ UNCHANGED <<call, answer, done, worker, ran>>
  BY WorkerAssumption
  DEF TypeInv, TypeOK, CallTypeOK, CallsOK, workerVars, callVars, history
<1>2. /\ mine \in Tasks /\ mine \in Items /\ mine \notin Known
      /\ mine.by = t /\ mine.n = call[t].n /\ mine.sync = call[t].sync
      /\ push[t].item = mine
  BY <1>1, CallKnows, WorkerAssumption DEF Tasks, TaskOf
<1>3. /\ \A s \in Threads : TaskOf(s)' = TaskOf(s) /\ (Placed(s) => Placed(s)')
      /\ \A s \in Threads \ {t} : (Placed(s)' <=> Placed(s)) /\ TaskOf(s) # mine
  BY <1>1, <1>2 DEF TaskOf, Placed
<1>4. OneEach(Line) /\ Line \in Seq(Items)  BY DEF TaskInv, Apart
<1>5. Queued' = Queued \cup {mine} /\ OneEach(Line')
  BY <1>2, <1>4, AppendTasks DEF Queued, Known
<1>6. InHand' = InHand /\ Begun' = Begun /\ Current' = Current
  BY <1>1 DEF InHand, Begun, Current
<1>7. Known' = Known \cup {mine} /\ Pending' = Pending \cup {mine}
  BY <1>5, <1>6 DEF Known, Pending
<1> HIDE DEF mine
<1>8. Apart'
  BY <1>2, <1>5, <1>6 DEF TaskInv, Apart, Known
<1>9. Numbered'
  <2> SUFFICES ASSUME NEW task \in Known \cup {mine}
               PROVE  /\ task \in Tasks /\ task.n <= call[task.by].n
                      /\ task.n = call[task.by].n =>
                           task.sync = call[task.by].sync /\ Placed(task.by)'
    BY <1>1, <1>7 DEF Numbered
  <2>1. CASE task = mine  BY <1>1, <1>2, <2>1
  <2>2. CASE task \in Known
    <3>1. task \in Tasks /\ task.by \in Threads
      BY <2>2 DEF TaskInv, Numbered, Tasks
    <3> QED  BY <1>3, <2>2, <3>1 DEF TaskInv, Numbered
  <2> QED  BY <2>1, <2>2
<1>10. Carried'
  BY <1>2, <1>3 DEF TaskInv, Carried, mine
<1>11. Alive'
  <2> SUFFICES ASSUME NEW task \in Pending \cup {mine}, task.sync
               PROVE  /\ call[task.by].pc \in {"push", "signal", "wait"}
                      /\ call[task.by].n = task.n
                      /\ done[task.by] = "pending"
    BY <1>1, <1>7 DEF Alive
  <2>1. CASE task = mine
    <3>1. CompletedAt(t)  BY CallKnows
    <3> QED  BY <1>1, <1>2, <2>1, <3>1 DEF CompletedAt
  <2>2. CASE task \in Pending  BY <2>2 DEF TaskInv, Alive
  <2> QED  BY <2>1, <2>2
<1>12. ASSUME NEW s \in Threads PROVE CompletedAt(s)' /\ AnsweredAt(s)'
  <2>1. CASE s = t
    <3>1. CompletedAt(t)  BY CallKnows
    <3>2. call[t].sync => done[t] = "pending"  BY <1>1, <3>1 DEF CompletedAt
    <3> QED  BY <1>1, <2>1, <3>2 DEF CompletedAt, AnsweredAt
  <2>2. CASE s # t
    <3>1. TaskOf(s)' = TaskOf(s) /\ (Placed(s)' <=> Placed(s)) /\ TaskOf(s) # mine
      BY <1>3, <2>2
    <3>2. CompletedAt(s) /\ AnsweredAt(s)  BY CallKnows
    <3> QED  BY <1>1, <1>6, <1>7, <3>1, <3>2 DEF CompletedAt, AnsweredAt
  <2> QED  BY <2>1, <2>2
<1> QED  BY <1>8, <1>9, <1>10, <1>11, <1>12 DEF TaskInv

LEMMA PushTasks ==
    ASSUME TypeInv, LineInv, LineInv', TaskInv, NEW t \in Threads, Push(t)
    PROVE  TaskInv'
<1>1. PushStep(t) /\ UNCHANGED workerVars  BY DEF Push
<1>2. /\ push \in [Threads -> [pc : {"idle", "load", "claim", "write", "publish",
                                     "pushed", "full"},
                               pos : Nat, item : Items \cup {NoItem}]]
  BY DEF TypeInv, TypeOK, QueueTypeOK
<1>3. /\ push[t].pc \in {"load", "claim", "write", "publish"} /\ pop' = pop
      /\ push'[t].item = push[t].item
      /\ \A s \in Threads \ {t} : push'[s] = push[s]
  BY <1>1, <1>2
  DEF PushStep, PushLoadSeq, PushClaim, PushWrite, PushPublish, GoPush
<1>4. /\ call[t].pc = "push" /\ UNCHANGED <<call, answer, done, worker, ran>>
  BY <1>1, <1>3 DEF TypeInv, CallsOK, workerVars, callVars, history
<1>5. CASE push[t].pc = "claim" /\ push[t].pos = tail
  <2>1. Line' = Append(Line, push[t].item) /\ push'[t].pc = "write"
    BY <1>1, <1>5, PushStepLine
  <2>2. ~Placed(t) /\ Placed(t)'  BY <1>4, <1>5, <2>1 DEF Placed
  <2>3. Line \in Seq(Items)  BY LineInvKnown DEF LineKnown, LineShape
  <2> QED  BY <1>1, <1>3, <1>5, <2>1, <2>2, <2>3, ClaimTasks
<1>6. CASE ~(push[t].pc = "claim" /\ push[t].pos = tail)
  <2>1. Line' = Line  BY <1>1, <1>6, PushStepLine
  <2>2. InHand' = InHand  BY <1>3 DEF InHand
  <2>3. PlacesRest  BY <1>4, <2>1, <2>2, PlacesRestBy
  <2>4. push'[t].pc \in {"write", "publish", "pushed"} <=>
        push[t].pc \in {"write", "publish", "pushed"}
    <3>1. CASE PushLoadSeq(t)
      BY <1>2, <3>1 DEF PushLoadSeq, GoPush
    <3>2. CASE PushClaim(t)
      BY <1>2, <1>6, <3>2 DEF PushClaim
    <3>3. CASE PushWrite(t) \/ PushPublish(t)
      BY <1>2, <3>3 DEF PushWrite, PushPublish, GoPush
    <3> QED  BY <1>1, <3>1, <3>2, <3>3 DEF PushStep
  <2>5. Placed(t)' <=> Placed(t)  BY <1>4, <2>4 DEF Placed
  <2>6. push[t].item = TaskOf(t)  BY <1>3, CallKnows
  <2> QED  BY <1>3, <1>4, <2>3, <2>5, <2>6, GoesOnTasks
<1> QED  BY <1>5, <1>6

(* The consumer moves a task on, or is done with it.                       *)
LEMMA MoveTasks ==
    ASSUME TaskInv, UNCHANGED <<call, answer, push>>, Apart',
           Known' \subseteq Known, Pending' \subseteq Pending,
           \A task \in Begun \ Current : task \in Begun' \ Current',
           \A task \in Pending' : task.sync => done'[task.by] = done[task.by],
           \A t \in Threads : done'[t] = done[t] \/ CompletedAt(t)'
    PROVE  TaskInv'
<1>1. \A t \in Threads : TaskOf(t)' = TaskOf(t) /\ (Placed(t)' <=> Placed(t))
  BY DEF TaskOf, Placed
<1>2. \A t : Placed(t)' <=> Placed(t)  BY DEF Placed
<1>3. Numbered'  BY <1>2 DEF TaskInv, Numbered
<1>4. Carried'  BY <1>1 DEF TaskInv, Carried
<1>5. Alive'  BY DEF TaskInv, Alive
<1>6. ASSUME NEW t \in Threads PROVE CompletedAt(t)' /\ AnsweredAt(t)'
  <2>1. CompletedAt(t) /\ AnsweredAt(t)  BY DEF TaskInv
  <2>2. done'[t] = done[t] => CompletedAt(t)'
    BY <1>1, <2>1 DEF CompletedAt
  <2>3. AnsweredAt(t)'  BY <1>1, <2>1 DEF AnsweredAt
  <2> QED  BY <2>2, <2>3
<1> QED  BY <1>3, <1>4, <1>5, <1>6 DEF TaskInv

LEMMA PopStepTasks ==
    ASSUME TypeInv, LineInv, LineInv', TaskInv, PopStep, UNCHANGED workerVars
    PROVE  TaskInv'
<1>1. /\ UNCHANGED <<call, answer, done, worker, ran>> /\ push' = push
      /\ pop \in [pc : {"idle", "copy", "free", "advance", "popped"},
                  item : Items \cup {NoItem}]
  BY DEF workerVars, callVars, history, PopStep, PopFound, PopCopy, PopFree,
         PopAdvance, TypeInv, TypeOK, QueueTypeOK
<1>2. CASE pop.pc = "free"
  <2>1. /\ Line # << >> /\ Line' = Tail(Line)
        /\ pop.item = Line[1] /\ pop'.item = pop.item
    BY <1>2, PopStepLine
  <2>2. pop'.pc = "advance"
    BY <1>1, <1>2 DEF PopStep, PopFound, PopCopy, PopFree, PopAdvance
  <2>3. Line \in Seq(Items)  BY LineInvKnown DEF LineKnown, LineShape
  <2>4. OneEach(Line)  BY DEF TaskInv, Apart
  <2>5. /\ pop.item \in Queued /\ Queued' = Queued \ {pop.item} /\ OneEach(Line')
    BY <2>1, <2>3, <2>4, TailTasks DEF Queued
  <2>6. InHand = {} /\ InHand' = {pop.item} /\ Begun' = Begun /\ Current' = Current
    BY <1>1, <1>2, <2>1, <2>2 DEF InHand, Begun, Current
  <2>7. Apart'  BY <2>5, <2>6 DEF TaskInv, Apart
  <2>8. Known' = Known /\ Pending' = Pending
    BY <2>5, <2>6 DEF Known, Pending
  <2> QED  BY <1>1, <2>6, <2>7, <2>8, MoveTasks
<1>3. CASE pop.pc # "free"
  <2>1. Line' = Line  BY <1>3, PopStepLine
  <2>2. /\ pop.pc \in {"advance", "popped"} <=> pop'.pc \in {"advance", "popped"}
        /\ pop.pc = "advance" => pop'.item = pop.item
        /\ pop.pc # "popped"
    BY <1>1, <1>3 DEF PopStep, PopFound, PopCopy, PopFree, PopAdvance
  <2>3. InHand' = InHand  BY <2>2 DEF InHand
  <2>4. PlacesRest  BY <1>1, <2>1, <2>3, PlacesRestBy
  <2>5. Apart'  BY <2>4 DEF PlacesRest, TaskInv, Apart
  <2>6. Known' = Known /\ Pending' = Pending /\ Begun' = Begun /\ Current' = Current
    BY <2>4 DEF PlacesRest, Known, Pending
  <2> QED  BY <1>1, <2>5, <2>6, MoveTasks
<1> QED  BY <1>2, <1>3

(* The callback begins.                                                    *)
LEMMA RunTaskTasks ==
    ASSUME TypeInv, LineInv, LineInv', TaskInv, RunTask
    PROVE  TaskInv'
<1>1. /\ worker.pc = "pop" /\ pop.pc = "popped" /\ PopReturn
      /\ worker'.pc = "callback" /\ worker'.task = pop.item
      /\ ran' = Append(ran, pop.item) /\ UNCHANGED <<call, answer, done, push>>
      /\ pop' = IdlePop
  BY DEF RunTask, PopReturn, callVars, TypeInv, TypeOK, WorkerTypeOK
<1>2. ran \in Seq(Tasks) /\ pop.item \in Tasks
  BY <1>1, WorkerAssumption DEF TypeInv, TypeOK, WorkerTypeOK, ItemsOK
<1>3. Line' = Line  BY <1>1, PopOtherLine
<1>4. Queued' = Queued  BY <1>3 DEF Queued
<1>5. Begun' = Begun \cup {pop.item}  BY <1>1, <1>2, AppendTasks DEF Begun
<1>6. /\ InHand = {pop.item} /\ InHand' = {}
      /\ Current = {} /\ Current' = {pop.item}
  BY <1>1 DEF InHand, Current, IdlePop
<1>7. Apart'  BY <1>3, <1>4, <1>5, <1>6 DEF TaskInv, Apart
<1>8. Known' = Known /\ Pending' = Pending
  BY <1>4, <1>5, <1>6 DEF Known, Pending
<1>9. pop.item \notin Begun  BY <1>6 DEF TaskInv, Apart
<1> QED  BY <1>1, <1>5, <1>6, <1>7, <1>8, <1>9, MoveTasks

(* The only caller a task has is the one that waits for it.                *)
LEMMA OneRequest ==
    ASSUME TaskInv, NEW task \in Pending, NEW other \in Pending,
           task.sync, other.sync, other.by = task.by
    PROVE  other = task
<1>1. task \in Tasks /\ other \in Tasks
  BY DEF TaskInv, Numbered, Apart, Pending, Known
<1>2. task.n = call[task.by].n /\ other.n = call[task.by].n
  BY DEF TaskInv, Alive
<1>3. task.sync = call[task.by].sync /\ other.sync = call[task.by].sync
  BY <1>2 DEF TaskInv, Numbered, Apart, Pending, Known
<1> QED  BY <1>1, <1>2, <1>3 DEF Tasks

LEMMA CallbackReturnsTasks ==
    ASSUME TypeInv, TaskInv, CallbackReturns
    PROVE  TaskInv'
<1> DEFINE task == worker.task
<1>1. /\ worker.pc = "callback" /\ worker'.pc = "abandon"
      /\ UNCHANGED <<queueVars, call, answer, ran>>
      /\ done' = IF task.sync THEN [done EXCEPT ![task.by] = "ran"] ELSE done
      /\ done \in [Threads -> {"none", "pending", "ran", "dropped"}]
  BY DEF CallbackReturns, GoWorker, history, TypeInv, TypeOK, WorkerTypeOK, CallTypeOK
<1>2. /\ Line' = Line /\ Queued' = Queued /\ InHand' = InHand /\ Begun' = Begun
      /\ Current = {task} /\ Current' = {} /\ push' = push
  BY <1>1, QueueRestsLine DEF Queued, InHand, Begun, Current, queueVars
<1> HIDE DEF task
<1>3. Apart'  BY <1>2 DEF TaskInv, Apart
<1>4. Known' = Known /\ Pending' = Queued \cup InHand
  BY <1>2 DEF Known, Pending
<1>5. task \in Begun /\ task \in Pending /\ task \in Tasks /\ task.by \in Threads
  BY <1>2 DEF TaskInv, Apart, Numbered, Pending, Known, Tasks
<1>6. task \notin Pending'  BY <1>4, <1>5 DEF TaskInv, Apart
<1>7. ASSUME NEW other \in Pending', other.sync
      PROVE  done'[other.by] = done[other.by]
  <2>1. other \in Pending /\ other # task
    BY <1>4, <1>6, <1>7 DEF Pending
  <2>2. task.sync => other.by # task.by  BY <1>5, <1>7, <2>1, OneRequest
  <2> QED  BY <1>1, <2>2
<1>8. ASSUME NEW t \in Threads PROVE done'[t] = done[t] \/ CompletedAt(t)'
  <2>1. CASE task.sync /\ t = task.by
    <3>1. done'[t] = "ran"  BY <1>1, <1>5, <2>1
    <3>2. /\ call[t].pc \in {"push", "signal", "wait"} /\ call[t].n = task.n
          /\ Placed(t) /\ task = TaskOf(t) /\ CompletedAt(t)
      BY <1>5, <2>1, CallKnows
    <3>3. TaskOf(t)' = TaskOf(t) /\ Placed(t)'
      BY <1>1, <1>2, <3>2 DEF TaskOf, Placed
    <3> QED  BY <1>1, <1>2, <1>5, <3>1, <3>2, <3>3 DEF CompletedAt
  <2>2. CASE ~(task.sync /\ t = task.by)
    BY <1>1, <2>2
  <2> QED  BY <2>1, <2>2
<1>9. Pending' \subseteq Pending  BY <1>4 DEF Pending
<1> QED  BY <1>1, <1>2, <1>3, <1>4, <1>7, <1>8, <1>9, MoveTasks

LEMMA DropTaskTasks ==
    ASSUME TypeInv, LineInv, LineInv', TaskInv, DropTask
    PROVE  TaskInv'
<1> DEFINE task == pop.item
<1>1. /\ pop.pc = "popped" /\ PopReturn /\ pop' = IdlePop
      /\ UNCHANGED <<push, call, answer, worker, ran>>
      /\ done' = IF task.sync THEN [done EXCEPT ![task.by] = "dropped"] ELSE done
      /\ done \in [Threads -> {"none", "pending", "ran", "dropped"}]
  BY DEF DropTask, PopReturn, history, TypeInv, TypeOK, CallTypeOK
<1>2. Line' = Line  BY <1>1, PopOtherLine
<1>3. /\ Queued' = Queued /\ InHand = {task} /\ InHand' = {} /\ Begun' = Begun
      /\ Current' = Current
  BY <1>1, <1>2 DEF Queued, InHand, Begun, Current, IdlePop
<1> HIDE DEF task
<1>4. Apart'  BY <1>2, <1>3 DEF TaskInv, Apart
<1>5. /\ task \in Pending /\ task \in Tasks /\ task.by \in Threads
      /\ task \notin Queued \cup Begun /\ Current \subseteq Begun
  BY <1>3 DEF TaskInv, Apart, Numbered, Pending, Known, Tasks
<1>6. /\ Known' = Queued \cup Begun /\ Pending' = Queued \cup Current
      /\ Known' \subseteq Known /\ Pending' \subseteq Pending
      /\ task \notin Known' /\ task \notin Pending'
  BY <1>3, <1>5 DEF Known, Pending
<1>7. ASSUME NEW other \in Pending', other.sync
      PROVE  done'[other.by] = done[other.by]
  <2>1. other \in Pending /\ other # task  BY <1>6, <1>7
  <2>2. task.sync => other.by # task.by  BY <1>5, <1>7, <2>1, OneRequest
  <2> QED  BY <1>1, <2>2
<1>8. ASSUME NEW t \in Threads PROVE done'[t] = done[t] \/ CompletedAt(t)'
  <2>1. CASE task.sync /\ t = task.by
    <3>1. done'[t] = "dropped"  BY <1>1, <1>5, <2>1
    <3>2. /\ call[t].pc \in {"push", "signal", "wait"} /\ call[t].n = task.n
          /\ Placed(t) /\ task = TaskOf(t) /\ CompletedAt(t)
      BY <1>5, <2>1, CallKnows
    <3>3. TaskOf(t)' = TaskOf(t) /\ Placed(t)'
      BY <1>1, <3>2 DEF TaskOf, Placed
    <3> QED  BY <1>1, <1>6, <3>1, <3>2, <3>3 DEF CompletedAt
  <2>2. CASE ~(task.sync /\ t = task.by)
    BY <1>1, <2>2
  <2> QED  BY <2>1, <2>2
<1>9. \A other \in Begun \ Current : other \in Begun' \ Current'  BY <1>3
<1> QED  BY <1>1, <1>4, <1>6, <1>7, <1>8, <1>9, MoveTasks

LEMMA TasksRest ==
    ASSUME TaskInv, UNCHANGED <<queueVars, call, answer, done, ran>>,
           Current' = Current
    PROVE  TaskInv'
<1>1. Line' = Line /\ UNCHANGED <<push, pop>>  BY QueueRestsLine DEF queueVars
<1>2. Queued' = Queued /\ InHand' = InHand /\ Begun' = Begun
  BY <1>1 DEF Queued, InHand, Begun
<1>3. Apart'  BY <1>1, <1>2 DEF TaskInv, Apart
<1>4. Known' = Known /\ Pending' = Pending  BY <1>2 DEF Known, Pending
<1> QED  BY <1>1, <1>2, <1>3, <1>4, MoveTasks

LEMMA NextTaskInv ==
    TypeInv /\ LineInv /\ LineInv' /\ TaskInv /\ [Next]_vars => TaskInv'
<1> SUFFICES ASSUME TypeInv, LineInv, LineInv', TaskInv, [Next]_vars PROVE TaskInv'
  OBVIOUS
<1>0. Shapes  BY ShapesKnown
<1> USE DEF callVars, history
<1>1. ASSUME NEW t \in Threads, CallStep(t) PROVE TaskInv'
  BY <1>1, CallStepTasks, PushTasks
<1>2. ASSUME NEW t \in Callers, Call(t) PROVE TaskInv'
  <2>1. PICK sync \in Kinds[t] : BeginCall(t, sync)  BY <1>2 DEF Call
  <2>2. sync \in BOOLEAN /\ t \in Threads  BY WorkerAssumption
  <2> QED  BY <1>2, <2>1, <2>2, BeginCallTasks DEF Call
<1>3. CASE NestedPost \/ StartupBarrier
  BY <1>3, BeginCallTasks, WorkerAssumption DEF NestedPost, StartupBarrier
<1>4. CASE WorkerPop \/ DiscardPop
  BY <1>4, PopStepTasks DEF WorkerPop, DiscardPop
<1>5. CASE RunTask \/ CallbackReturns \/ DropTask
  BY <1>5, RunTaskTasks, CallbackReturnsTasks, DropTaskTasks
<1>6. CASE \/ Bind \/ Loop \/ AbandonDrain \/ StopCheck \/ Wake \/ IdleTimeout
           \/ ExitLoop \/ Leave
  <2>1. /\ worker.pc # "callback" /\ worker'.pc # "callback"
        /\ UNCHANGED <<queueVars, call, answer, done, ran>>
    BY <1>0, <1>6
    DEF Bind, Loop, AbandonDrain, StopCheck, Wake, IdleTimeout, ExitLoop, Leave,
        GoWorker, IdleWorker, Shapes
  <2> QED  BY <2>1, TasksRest DEF Current
<1>7. CASE AbandonStop \/ NothingPending
  <2>1. /\ worker.pc # "callback" /\ worker'.pc # "callback"
        /\ UNCHANGED <<queueVars, call, answer, done, ran>>
    BY <1>0, <1>7
    DEF AbandonStop, NothingPending, PopEmpty, AfterPending, GoWorker, Shapes
  <2> QED  BY <2>1, TasksRest DEF Current
<1>8. CASE \/ Created \/ BeginShutdown \/ RequestStop \/ StopRunning \/ SignalStop
           \/ JoinThread \/ Discarded \/ DiscardAgain
  <2>1. UNCHANGED <<queueVars, call, answer, done, ran, worker>>
    BY <1>8
    DEF Created, BeginShutdown, RequestStop, StopRunning, SignalStop, JoinThread,
        Discarded, DiscardAgain, PopEmpty
  <2> QED  BY <2>1, TasksRest DEF Current
<1>9. CASE UNCHANGED vars
  <2>1. UNCHANGED <<queueVars, call, answer, done, ran, worker>>
    BY <1>9 DEF vars, workerVars
  <2> QED  BY <2>1, TasksRest DEF Current
<1> QED  BY <1>1, <1>2, <1>3, <1>4, <1>5, <1>6, <1>7, <1>8, <1>9, WorkerAssumption
         DEF Next, WorkerStep, OwnerStep

(* The request that a synchronous post queues lives on its caller's stack: *)
(* as long as it is queued or running its caller is inside that same call, *)
(* with any number of callers, calls and slots, through either shutdown.   *)
THEOREM RequestsNeverDangle == Spec => []NoDanglingRequest
<1>1. LineInv /\ TaskInv => NoDanglingRequest
  <2> SUFFICES ASSUME LineInv, TaskInv PROVE NoDanglingRequest  OBVIOUS
  <2>1. Line \in Seq(Items)  BY LineInvKnown DEF LineKnown, LineShape
  <2>2. \A k \in DOMAIN Line : Line[k] \in Pending
    BY <2>1 DEF Pending, Queued, TasksIn
  <2>3. worker.pc = "callback" => worker.task \in Pending
    BY DEF Pending, Current
  <2> QED  BY <2>2, <2>3 DEF NoDanglingRequest, TaskInv, Alive
<1> QED  BY InitTypeInv, NextTypeInv, InitLineInv, NextLineKept, InitTaskInv,
            NextTaskInv, <1>1, PTL DEF Spec

(* What nn20_worker_post_sync() returns is true: 0 of a callback that has  *)
(* run and returned, anything else of one that has not and never will.     *)
THEOREM AnswersAreTrue == Spec => []SyncAnswersAreTrue
<1>1. TypeInv /\ LineInv /\ TaskInv => SyncAnswersAreTrue
  <2> SUFFICES ASSUME TypeInv, LineInv, TaskInv, NEW t \in Callers,
                      call[t].pc = "idle", call[t].sync
               PROVE  LET task == TaskOf(t)
                          began == \E k \in DOMAIN ran : ran[k] = task
                      IN  /\ answer[t] = "ok" <=> began
                          /\ began => ~(worker.pc = "callback" /\ worker.task = task)
                          /\ \A k \in DOMAIN Line : Line[k] # task
    BY DEF SyncAnswersAreTrue
  <2>1. Line \in Seq(Items) /\ ran \in Seq(Tasks)
    BY LineInvKnown DEF LineKnown, LineShape, TypeInv, TypeOK, WorkerTypeOK
  <2>2. /\ (\E k \in DOMAIN ran : ran[k] = TaskOf(t)) <=> TaskOf(t) \in Begun
        /\ \A k \in DOMAIN Line : Line[k] \in Queued
    BY <2>1 DEF Begun, Queued, TasksIn
  <2>3. AnsweredAt(t)  BY WorkerAssumption DEF TaskInv
  <2>4. /\ answer[t] = "ok" <=> TaskOf(t) \in Begun
        /\ TaskOf(t) \in Begun => TaskOf(t) \notin Current
        /\ TaskOf(t) \notin Queued
    BY <2>3 DEF AnsweredAt, Known, TaskInv, Apart
  <2>5. worker.pc = "callback" /\ worker.task = TaskOf(t) => TaskOf(t) \in Current
    BY DEF Current
  <2> QED  BY <2>2, <2>4, <2>5
<1> QED  BY InitTypeInv, NextTypeInv, InitLineInv, NextLineKept, InitTaskInv,
            NextTaskInv, <1>1, PTL DEF Spec
=============================================================================
