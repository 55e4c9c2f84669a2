------------------------------ MODULE Ringbuf ------------------------------
(***************************************************************************)
(* The sliding window of nn20clock_ringbuf.c: a byte buffer addressed by   *)
(* offsets into the file.  Byte o of the file lives in slot                *)
(* (o - base) % Capacity.  `produced' belongs to the producer, `consumed'  *)
(* to the consumer, and `base' moves only when neither is working.         *)
(*                                                                         *)
(* The module holds the arithmetic and the stores; who runs them, and what *)
(* can happen between two of them, is the matter of ReadAhead.             *)
(* Offsets are naturals: the code keeps them in 32 bits, and a RIFF file   *)
(* cannot address more than that, so they do not wrap within a window.     *)
(***************************************************************************)
EXTENDS Integers

CONSTANT Capacity        \* bytes in the buffer

ASSUME CapacityAssumption == Capacity \in Nat \ {0}

VARIABLES
    data,                \* what each slot of the buffer holds
    produced,            \* file offset one past the last byte filled
    consumed,            \* first file offset the consumer still wants
    base                 \* file offset the window was started at

ringVars == <<data, produced, consumed, base>>

Slots == 0 .. Capacity - 1

Lesser(a, b) == IF a <= b THEN a ELSE b

Index(offset) == (offset - base) % Capacity

(* The number of bytes in the window, nn20clock_ringbuf_available().       *)
Available == produced - consumed

ToTheEnd == Capacity - Index(produced)  \* fault: forgets what is still held

(* How many bytes may be written at `produced' in one piece: the free      *)
(* space, stopping at the end of the buffer rather than wrapping.          *)
Writable == Lesser(Capacity - Available, Capacity - Index(produced))

NotBehind(offset, size) ==              \* fault: does not look at `produced'
    /\ size <= Capacity
    /\ consumed <= offset

(* Whether nn20clock_ringbuf_read() would copy `size' bytes at `offset':   *)
(* all of them are in the window, or none is given.                        *)
Readable(offset, size) ==
    /\ size <= Capacity
    /\ consumed <= offset
    /\ offset <= produced
    /\ size <= produced - offset

(* Where nn20clock_ringbuf_consume_to(offset) leaves `consumed': never     *)
(* backwards, and never past what exists.                                  *)
ConsumeTarget(offset) ==
    IF offset <= consumed THEN consumed ELSE Lesser(offset, produced)

Reset(start) ==
    /\ base' = start
    /\ produced' = start
    /\ consumed' = start
    /\ UNCHANGED data

Produced(bytes) ==
    /\ produced' = produced + bytes
    /\ UNCHANGED <<data, consumed, base>>

StoreConsumed(offset) ==
    /\ consumed' = offset
    /\ UNCHANGED <<data, produced, base>>

PutByte(offset, byte) ==
    /\ data' = [data EXCEPT ![Index(offset)] = byte]
    /\ UNCHANGED <<produced, consumed, base>>
=============================================================================
