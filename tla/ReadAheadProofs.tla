---------------------------- MODULE ReadAheadProofs ----------------------------
(***************************************************************************)
(* The read-ahead window, for any file, any window of whole blocks and any *)
(* reads that fit it: the player gets the file's bytes, the descriptor is  *)
(* in one hand at a time, and a read comes back short only at an end.      *)
(***************************************************************************)
EXTENDS ReadAhead, RingIndex, SequenceTheorems

Typed ==
    /\ data \in [Slots -> Bytes \cup {Junk}]
    /\ produced \in Nat /\ consumed \in Nat /\ base \in Nat
    /\ stream_end \in Nat
    /\ halt \in BOOLEAN /\ reader_halt \in BOOLEAN /\ reader_eof \in BOOLEAN
    /\ card_failed \in BOOLEAN
    /\ reader \in [pc : {"idle", "fill", "read"}, want : Nat, done : Nat]
    /\ player \in [pc : PlayerPcs, cursor : Nat, offset : Nat, size : Nat,
                   target : Nat, take : Nat, dst : Seq(Bytes \cup {Junk})]

LEMMA Constants ==
    /\ Capacity \in Nat \ {0} /\ Block \in Nat \ {0}
    /\ Sizes \subseteq 1 .. Capacity /\ Starts \subseteq Nat /\ StreamEnds \subseteq Nat
    /\ MaxSkip \in Nat
  BY CapacityAssumption, ReadAheadAssumption

(* The file is its first bytes, as many as there are.                      *)
LEMMA FileIsPrefix ==
  ASSUME NEW o \in FileBytes, NEW p \in Nat, p <= o
  PROVE  p \in FileBytes
  <1>1. o \in Nat /\ 0 .. o \subseteq FileBytes
    BY ReadAheadAssumption
  <1>. QED BY <1>1

(* Slots of the window: one for each offset, and two offsets less than a   *)
(* window apart never share one.                                           *)
LEMMA IndexInSlots ==
  ASSUME base \in Nat, NEW o \in Nat, base <= o
  PROVE  Index(o) \in Slots
  <1>1. o - base \in Nat
    OBVIOUS
  <1>. QED BY <1>1, Constants, DivMod DEF Index, Slots

LEMMA IndexApart ==
  ASSUME base \in Nat, NEW a \in Nat, NEW b \in Nat, base <= a, base <= b,
         a < b + Capacity, b < a + Capacity, Index(a) = Index(b)
  PROVE  a = b
  <1>1. a - base \in Nat /\ b - base \in Nat
    OBVIOUS
  <1>2. a - base < (b - base) + Capacity /\ b - base < (a - base) + Capacity
    BY Constants
  <1>3. (a - base) % Capacity = (b - base) % Capacity
    BY DEF Index
  <1>4. a - base = b - base
    BY <1>1, <1>2, <1>3, Constants, SameSlot
  <1>. QED BY <1>4

(***************************************************************************)
(* Blocks.                                                                 *)
(***************************************************************************)
LEMMA AlignDownAligned ==
  ASSUME NEW o \in Nat
  PROVE  AlignDown(o) \in Nat /\ AlignDown(o) % Block = 0 /\ AlignDown(o) <= o
  <1> DEFINE q == o \div Block
             r == o % Block
  <1>1. o = (Block * q) + r /\ q \in Nat /\ r \in 0 .. Block - 1
    BY Constants, DivMod
  <1>2. AlignDown(o) = o - r
    BY DEF AlignDown
  <1> HIDE DEF q, r
  <1>3. Block * q \in Nat
    BY <1>1, Constants
  <1>4. AlignDown(o) = (Block * q) + 0 /\ AlignDown(o) \in Nat /\ AlignDown(o) <= o
    BY <1>1, <1>2, <1>3
  <1>5. 0 \in 0 .. Block - 1
    BY Constants
  <1>6. ASSUME NEW a \in Nat, a = (Block * q) + 0 PROVE a % Block = 0
    <2>1. q \in Int /\ Block \in Nat \ {0}
      BY <1>1, Constants
    <2>. QED BY <2>1, <1>5, <1>6, SplitOnce
  <1>. QED BY <1>4, <1>6

LEMMA NextBlockAligned ==
  ASSUME NEW o \in Nat, o % Block = 0
  PROVE  (o + Block) % Block = 0
  BY Constants, NextTurn

(***************************************************************************)
(* The inductive invariant.                                                *)
(***************************************************************************)
(* The window, with the block that is being filled behind it.              *)
Window ==
    /\ base <= consumed /\ consumed <= produced /\ produced <= consumed + Capacity
    /\ reader.done <= reader.want
    /\ produced + reader.want <= consumed + Capacity
    /\ reader.pc # "read" => reader.want = 0

Held ==
    \A o \in consumed .. produced + reader.done - 1 :
        o \in FileBytes /\ data[Index(o)] = File[o]

Aligned ==
    /\ reader.pc # "idle" => \/ produced % Block = 0
                             \/ produced \notin FileBytes
                             \/ produced >= stream_end
    /\ reader.pc = "read" => \/ reader.want = Block
                             \/ produced + reader.want = stream_end
    /\ reader.pc = "read" => produced < stream_end

(* Between reader_start() and reader_stop().                               *)
Passing == player.pc \notin {"idle", "parse", "start"}

(* The reader is idle once it says that no more will come, and it has a    *)
(* reason to say so.                                                       *)
EofIsTrue ==
    /\ reader_eof => reader.pc = "idle"
    /\ reader_eof /\ Passing =>
          \/ card_failed \/ produced = base
          \/ produced \notin FileBytes \/ produced >= stream_end

(* What the player holds on to at each point of stream_read().             *)
Reading ==
    /\ player.pc \in {"consume", "consume_store", "try", "missing", "eof"} =>
          player.take = 0 /\ player.dst = << >>
    /\ player.pc \in {"consume", "consume_store", "try", "missing", "eof", "copy",
                      "release_store", "returned"} => player.size \in 1 .. Capacity
    /\ player.pc \in {"consume", "consume_store", "try", "missing", "eof", "copy",
                      "release_store"} => consumed <= player.offset
    /\ player.pc = "next" => consumed <= player.cursor
    /\ player.pc = "returned" /\ player.take = player.size => consumed <= player.cursor
    /\ player.pc \in {"consume_store", "release_store"} =>
          /\ consumed <= player.target /\ player.target <= produced
          /\ player.target <= player.offset + player.take
    /\ player.pc = "copy" => player.offset + player.take <= produced
    /\ player.pc = "copy" => Len(player.dst) <= player.take
    /\ player.pc \in {"copy", "release_store", "returned"} => player.take <= player.size
    /\ player.pc = "eof" => reader_eof
    /\ player.pc \in {"copy", "release_store"} /\ player.take < player.size =>
          reader_eof /\ produced <= player.offset + player.take
    /\ player.pc = "returned" /\ player.take < player.size =>
          halt \/ (reader_eof /\ produced <= player.offset + player.take)

IInv ==
    /\ Typed /\ Window /\ Held /\ Aligned
    /\ FileHandover /\ EofIsTrue /\ Reading /\ ReadsAreFileBytes

LEMMA InitHolds == Init => IInv
  <1> SUFFICES ASSUME Init PROVE IInv
    OBVIOUS
  <1> USE DEF Init, IdleReader, IdlePlayer
  <1>1. Typed
    <2>1. << >> \in Seq(Bytes \cup {Junk})
      BY EmptySeq
    <2>2. data \in [Slots -> Bytes \cup {Junk}]
      OBVIOUS
    <2>. QED BY <2>1, <2>2, Constants DEF Typed, PlayerPcs
  <1>2. Window
    BY Constants DEF Window
  <1>3. Held
    BY DEF Held
  <1>4. Aligned /\ FileHandover /\ EofIsTrue /\ Reading
    BY DEF Aligned, FileHandover, EofIsTrue, Reading
  <1>5. ReadsAreFileBytes
    BY EmptySeq DEF ReadsAreFileBytes
  <1>. QED BY <1>1, <1>2, <1>3, <1>4, <1>5 DEF IInv

(***************************************************************************)
(* The reader's steps: they leave the player and what it has read alone.   *)
(***************************************************************************)
LEMMA ReaderStepFrame ==
  ASSUME ReaderStep
  PROVE  UNCHANGED <<consumed, base, stream_end, halt, reader_halt, player>>
  BY DEF ReaderStep, FillHalted, FillEnd, FillBlock, ReadByte, FillProduced, FillNothing,
         PutByte, Produced, ringVars, rest

LEMMA ReaderStepTyped ==
  ASSUME Typed, Window, ReaderStep
  PROVE  Typed'
  <1> USE DEF Typed
  <1>1. CASE FillHalted
    BY <1>1 DEF FillHalted, ringVars, rest, IdleReader
  <1>2. CASE FillEnd
    BY <1>2 DEF FillEnd, ringVars, IdleReader
  <1>3. CASE FillBlock
    <2>1. Lesser(Block, stream_end - produced) \in Nat
      BY <1>3, Constants DEF FillBlock, Lesser
    <2>2. [reader EXCEPT !.pc = "read", !.done = 0,
                         !.want = Lesser(Block, stream_end - produced)] \in
            [pc : {"idle", "fill", "read"}, want : Nat, done : Nat]
      BY <2>1
    <2>. QED BY <1>3, <2>2 DEF FillBlock, ringVars, rest
  <1>4. CASE ReadByte
    <2>1. data' \in [Slots -> Bytes \cup {Junk}]
      BY <1>4 DEF ReadByte, PutByte, Bytes
    <2>2. reader' \in [pc : {"idle", "fill", "read"}, want : Nat, done : Nat]
      <3>1. reader.done + 1 \in Nat
        OBVIOUS
      <3>2. [reader EXCEPT !.done = reader.done + 1] \in
              [pc : {"idle", "fill", "read"}, want : Nat, done : Nat]
        BY <3>1
      <3>3. reader' = [reader EXCEPT !.done = reader.done + 1]
        BY <1>4 DEF ReadByte
      <3>. QED BY <3>2, <3>3
    <2>. QED BY <1>4, <2>1, <2>2 DEF ReadByte, PutByte, rest
  <1>5. CASE FillProduced
    <2>1. [IdleReader EXCEPT !.pc = "fill"] \in
            [pc : {"idle", "fill", "read"}, want : Nat, done : Nat]
      BY DEF IdleReader
    <2>2. produced + reader.done \in Nat
      OBVIOUS
    <2>. QED BY <1>5, <2>1, <2>2 DEF FillProduced, Produced, rest
  <1>6. CASE FillNothing
    BY <1>6 DEF FillNothing, ringVars, IdleReader
  <1>. QED BY <1>1, <1>2, <1>3, <1>4, <1>5, <1>6 DEF ReaderStep

(* A step that writes no byte and claims no more of them.                  *)
LEMMA HeldShrinks ==
  ASSUME Typed, Held, UNCHANGED <<data, base>>,
         consumed' \in Nat, consumed <= consumed',
         produced' \in Nat, reader'.done \in Nat,
         produced' + reader'.done <= produced + reader.done
  PROVE  Held'
  <1>1. produced \in Nat /\ consumed \in Nat /\ reader.done \in Nat
    BY DEF Typed
  <1>2. SUFFICES ASSUME NEW o \in consumed' .. produced' + reader'.done - 1
                 PROVE  o \in FileBytes /\ data'[Index(o)'] = File[o]
    BY DEF Held
  <1>3. o \in consumed .. produced + reader.done - 1
    BY <1>1, <1>2
  <1>4. Index(o)' = Index(o) /\ data' = data
    BY DEF Index
  <1>. QED BY <1>3, <1>4 DEF Held

LEMMA WritableFits ==
  ASSUME Typed, Window
  PROVE  Writable \in Int /\ Writable <= Capacity - (produced - consumed)
  <1>1. produced \in Nat /\ consumed \in Nat /\ base \in Nat /\ base <= produced
    BY DEF Typed, Window
  <1>2. Index(produced) \in 0 .. Capacity - 1
    BY <1>1, IndexInSlots DEF Slots
  <1>. QED BY <1>1, <1>2, Constants DEF Writable, Lesser, Available

LEMMA ReaderStepWindow ==
  ASSUME Typed, Window, Held, ReaderStep
  PROVE  Window' /\ Held' /\ produced <= produced'
  <1>1. /\ produced \in Nat /\ consumed \in Nat /\ base \in Nat /\ stream_end \in Nat
        /\ reader.want \in Nat /\ reader.done \in Nat
        /\ data \in [Slots -> Bytes \cup {Junk}]
    BY DEF Typed
  <1>2. /\ base <= consumed /\ consumed <= produced /\ produced <= consumed + Capacity
        /\ reader.done <= reader.want
        /\ produced + reader.want <= consumed + Capacity
        /\ reader.pc # "read" => reader.want = 0
    BY DEF Window
  <1>3. CASE FillHalted \/ FillEnd \/ FillNothing
    <2>1. UNCHANGED <<data, produced, consumed, base>> /\ reader' = IdleReader
      BY <1>3 DEF FillHalted, FillEnd, FillNothing, ringVars
    <2>2. reader'.want = 0 /\ reader'.done = 0 /\ reader'.pc = "idle"
      BY <2>1 DEF IdleReader
    <2>3. Window'
      BY <1>1, <1>2, <2>1, <2>2 DEF Window
    <2>4. Held'
      BY <1>1, <2>1, <2>2, HeldShrinks
    <2>. QED BY <1>1, <2>1, <2>3, <2>4
  <1>4. CASE FillBlock
    <2>1. UNCHANGED <<data, produced, consumed, base>> /\ Writable >= Block
          /\ produced < stream_end
          /\ reader' = [reader EXCEPT !.pc = "read", !.done = 0,
                                      !.want = Lesser(Block, stream_end - produced)]
      BY <1>4 DEF FillBlock, ringVars
    <2>2. reader'.want = Lesser(Block, stream_end - produced) /\ reader'.done = 0
          /\ reader'.pc = "read"
      BY <2>1 DEF Typed
    <2>3. Block <= Capacity - (produced - consumed)
      BY <1>1, <2>1, WritableFits, Constants
    <2>4. reader'.want \in 0 .. Block
      BY <1>1, <2>1, <2>2, Constants DEF Lesser
    <2>5. Window'
      BY <1>1, <1>2, <2>1, <2>2, <2>3, <2>4, Constants DEF Window
    <2>6. Held'
      BY <1>1, <2>1, <2>2, HeldShrinks
    <2>. QED BY <1>1, <2>1, <2>5, <2>6
  <1>5. CASE ReadByte
    <2> DEFINE p == produced + reader.done
    <2>1. /\ reader.pc = "read" /\ reader.done < reader.want /\ p \in FileBytes /\ p \in Nat
          /\ data' = [data EXCEPT ![Index(p)] = File[p]]
          /\ UNCHANGED <<produced, consumed, base>>
          /\ reader' = [reader EXCEPT !.done = reader.done + 1]
      BY <1>1, <1>5 DEF ReadByte, PutByte
    <2>2. reader'.done = reader.done + 1 /\ reader'.want = reader.want /\ reader'.pc = "read"
      BY <2>1 DEF Typed
    <2>3. Window'
      BY <1>1, <1>2, <2>1, <2>2, Constants DEF Window
    <2>4. /\ base <= p /\ consumed <= p /\ p < consumed + Capacity
          /\ p = produced + reader.done
      BY <1>1, <1>2, <2>1, Constants
    <2> HIDE DEF p
    <2>5. Held'
      <3> SUFFICES ASSUME NEW o \in consumed .. produced + reader.done
                   PROVE  o \in FileBytes /\ data'[Index(o)] = File[o]
        <4>1. produced' + reader'.done - 1 = produced + reader.done
          BY <1>1, <2>1, <2>2
        <4>2. base' = base /\ consumed' = consumed
          BY <2>1
        <4>. QED BY <4>1, <4>2 DEF Held, Index
      <3>1. o \in Nat /\ base <= o /\ o < p + Capacity /\ p < o + Capacity
        BY <1>1, <1>2, <2>1, <2>4, Constants
      <3>2. Index(o) \in Slots /\ Index(p) \in Slots
        BY <1>1, <2>1, <2>4, <3>1, IndexInSlots
      <3>3. CASE o = p
        BY <1>1, <2>1, <3>2, <3>3
      <3>4. CASE o # p
        <4>1. Index(o) # Index(p)
          BY <1>1, <2>1, <2>4, <3>1, <3>4, IndexApart
        <4>2. o \in consumed .. produced + reader.done - 1
          BY <1>1, <2>4, <3>4
        <4>3. o \in FileBytes /\ data[Index(o)] = File[o]
          BY <4>2 DEF Held
        <4>. QED BY <1>1, <2>1, <3>2, <4>1, <4>3
      <3>. QED BY <3>3, <3>4
    <2>. QED BY <1>1, <2>1, <2>3, <2>5
  <1>6. CASE FillProduced
    <2>1. /\ reader.done > 0 /\ produced' = produced + reader.done
          /\ UNCHANGED <<data, consumed, base>>
          /\ reader' = [IdleReader EXCEPT !.pc = "fill"]
      BY <1>6 DEF FillProduced, Produced
    <2>2. reader'.want = 0 /\ reader'.done = 0 /\ reader'.pc = "fill"
      BY <2>1 DEF IdleReader
    <2>3. Window'
      BY <1>1, <1>2, <2>1, <2>2, Constants DEF Window
    <2>4. Held'
      BY <1>1, <2>1, <2>2, HeldShrinks
    <2>. QED BY <1>1, <2>1, <2>3, <2>4
  <1>. QED BY <1>3, <1>4, <1>5, <1>6 DEF ReaderStep

LEMMA ReaderStepAligned ==
  ASSUME Typed, Window, Held, Aligned, ReaderStep
  PROVE  Aligned'
  <1> USE Constants DEF Typed, Window, Aligned
  <1>1. CASE FillHalted \/ FillEnd \/ FillNothing
    <2>1. reader'.pc = "idle"
      BY <1>1 DEF FillHalted, FillEnd, FillNothing, IdleReader
    <2>. QED BY <2>1
  <1>2. CASE FillBlock
    <2>1. /\ UNCHANGED <<produced, stream_end>> /\ produced < stream_end /\ reader.pc = "fill"
          /\ reader' = [reader EXCEPT !.pc = "read", !.done = 0,
                                      !.want = Lesser(Block, stream_end - produced)]
      BY <1>2 DEF FillBlock, ringVars, rest
    <2>2. reader'.pc = "read" /\ reader'.want = Lesser(Block, stream_end - produced)
      BY <2>1
    <2>3. reader'.want = Block \/ produced + reader'.want = stream_end
      BY <2>1, <2>2 DEF Lesser
    <2>. QED BY <2>1, <2>2, <2>3
  <1>3. CASE ReadByte
    <2>1. /\ UNCHANGED <<produced, stream_end>> /\ reader.pc = "read"
          /\ reader'.pc = reader.pc /\ reader'.want = reader.want
      BY <1>3 DEF ReadByte, PutByte, rest
    <2>. QED BY <2>1
  <1>4. CASE FillProduced
    <2>1. /\ produced' = produced + reader.done /\ stream_end' = stream_end
          /\ reader.pc = "read" /\ reader.done > 0 /\ reader'.pc = "fill"
          /\ reader.done = reader.want \/ produced + reader.done \notin FileBytes
      BY <1>4 DEF FillProduced, Produced, IdleReader, rest
    <2>2. produced \in FileBytes
      <3>1. produced \in consumed .. produced + reader.done - 1
        <4>1. /\ produced \in Nat /\ consumed \in Nat /\ consumed <= produced
              /\ reader.done \in Nat
          OBVIOUS
        <4>. QED BY <2>1, <4>1
      <3>. QED BY <3>1 DEF Held
    <2>3. produced % Block = 0
      BY <2>1, <2>2
    <2>4. CASE produced + reader.done \notin FileBytes
      BY <2>1, <2>4
    <2>5. CASE reader.done = reader.want /\ reader.want = Block
      BY <2>1, <2>3, <2>5, NextBlockAligned
    <2>6. CASE reader.done = reader.want /\ produced + reader.want = stream_end
      BY <2>1, <2>6
    <2>. QED BY <2>1, <2>4, <2>5, <2>6
  <1>. QED BY <1>1, <1>2, <1>3, <1>4 DEF ReaderStep

LEMMA ReaderStepEof ==
  ASSUME Typed, Window, Aligned, FileHandover, EofIsTrue, ReaderStep
  PROVE  /\ FileHandover' /\ EofIsTrue'
         /\ reader_eof => reader_eof' /\ produced' = produced
  <1> USE DEF Typed, FileHandover, EofIsTrue, Passing
  <1>1. CASE FillHalted
    BY <1>1 DEF FillHalted, IdleReader, ringVars, rest
  <1>2. CASE FillEnd
    BY <1>2 DEF FillEnd, IdleReader, ringVars
  <1>3. CASE FillBlock
    BY <1>3 DEF FillBlock, ringVars, rest
  <1>4. CASE ReadByte
    BY <1>4 DEF ReadByte, PutByte, rest
  <1>5. CASE FillProduced
    BY <1>5 DEF FillProduced, Produced, IdleReader, rest
  <1>6. CASE FillNothing
    BY <1>6 DEF FillNothing, IdleReader, ringVars
  <1>. QED BY <1>1, <1>2, <1>3, <1>4, <1>5, <1>6 DEF ReaderStep

LEMMA ReaderStepReading ==
  ASSUME Typed, Reading, UNCHANGED <<consumed, halt, player>>,
         produced' \in Nat, produced <= produced',
         reader_eof => reader_eof' /\ produced' = produced
  PROVE  Reading'
  <1> USE DEF Typed, Reading
  <1>1. player.pc \in {"consume_store", "release_store"} =>
          /\ consumed <= player.target /\ player.target <= produced'
          /\ player.target <= player.offset + player.take
    OBVIOUS
  <1>2. player.pc = "copy" => player.offset + player.take <= produced'
    OBVIOUS
  <1>3. player.pc = "eof" => reader_eof'
    OBVIOUS
  <1>4. player.pc \in {"copy", "release_store"} /\ player.take < player.size =>
          reader_eof' /\ produced' <= player.offset + player.take
    OBVIOUS
  <1>5. player.pc = "returned" /\ player.take < player.size =>
          halt \/ (reader_eof' /\ produced' <= player.offset + player.take)
    OBVIOUS
  <1>. QED BY <1>1, <1>2, <1>3, <1>4, <1>5

LEMMA ReaderStepPreserves ==
  ASSUME IInv, ReaderStep
  PROVE  IInv'
  <1> USE DEF IInv
  <1>1. Typed'
    BY ReaderStepTyped
  <1>2. Window' /\ Held' /\ produced <= produced'
    BY ReaderStepWindow
  <1>3. Aligned'
    BY ReaderStepAligned
  <1>4. /\ FileHandover' /\ EofIsTrue'
        /\ reader_eof => reader_eof' /\ produced' = produced
    BY ReaderStepEof
  <1>5. Reading'
    BY <1>1, <1>2, <1>4, ReaderStepFrame, ReaderStepReading DEF Typed
  <1>6. ReadsAreFileBytes'
    BY ReaderStepFrame DEF ReadsAreFileBytes
  <1>. QED BY <1>1, <1>2, <1>3, <1>4, <1>5, <1>6

(***************************************************************************)
(* The player's steps that touch neither the window nor the reader.        *)
(***************************************************************************)
Quiet ==
    \/ Parsed \/ NotPlayable \/ NextRead \/ NextPiece \/ ConsumeLoad \/ TryRead
    \/ MissingHalted \/ MissingWait \/ ReadAtEof \/ CopyByte \/ ReleaseLoad
    \/ Returned \/ PassEnds \/ PassLoops \/ Stopped \/ Rewound

LEMMA QuietFrame ==
  ASSUME Quiet
  PROVE  /\ UNCHANGED <<data, produced, consumed, base, reader>>
         /\ UNCHANGED <<stream_end, halt, reader_halt, reader_eof, card_failed>>
  BY DEF Quiet, Parsed, NotPlayable, NextRead, NextPiece, ConsumeLoad, TryRead, MissingHalted,
         MissingWait, ReadAtEof, CopyByte, ReleaseLoad, Returned, PassEnds, PassLoops,
         Stopped, Rewound, ringVars, rest

PlayerType ==
    [pc : PlayerPcs, cursor : Nat, offset : Nat, size : Nat,
     target : Nat, take : Nat, dst : Seq(Bytes \cup {Junk})]

LEMMA IdleTyped == IdlePlayer \in PlayerType
  <1> DEFINE none == << >>
  <1>1. none \in Seq(Bytes \cup {Junk})
    BY EmptySeq
  <1>2. IdlePlayer = [pc |-> "idle", cursor |-> 0, offset |-> 0, size |-> 0,
                      target |-> 0, take |-> 0, dst |-> none]
    BY DEF IdlePlayer
  <1> HIDE DEF none
  <1>. QED BY <1>1, <1>2 DEF PlayerType, PlayerPcs

LEMMA ConsumeTargetTyped ==
  ASSUME Typed, Window, NEW o \in Nat
  PROVE  /\ ConsumeTarget(o) \in Nat /\ consumed <= ConsumeTarget(o)
         /\ ConsumeTarget(o) <= produced
         /\ consumed <= o => ConsumeTarget(o) <= o
  BY DEF Typed, Window, ConsumeTarget, Lesser

LEMMA CopiedByte ==
  ASSUME Typed, Window, Reading, CopyByte
  PROVE  /\ player.pc = "copy" /\ Len(player.dst) \in Nat /\ Len(player.dst) < player.take
         /\ base <= player.offset + Len(player.dst)
         /\ data[Index(player.offset + Len(player.dst))] \in Bytes \cup {Junk}
         /\ player'.pc = "copy" /\ player'.take = player.take
         /\ player'.size = player.size /\ player'.offset = player.offset
         /\ player'.dst = Append(player.dst, data[Index(player.offset + Len(player.dst))])
         /\ player'.dst \in Seq(Bytes \cup {Junk})
         /\ Len(player'.dst) = Len(player.dst) + 1
         /\ player'.dst[Len(player.dst) + 1] = data[Index(player.offset + Len(player.dst))]
         /\ \A k \in 1 .. Len(player.dst) : player'.dst[k] = player.dst[k]
  <1>1. /\ player \in PlayerType /\ player.dst \in Seq(Bytes \cup {Junk})
        /\ player.offset \in Nat /\ player.take \in Nat /\ base \in Nat /\ consumed \in Nat
    BY DEF Typed, PlayerType
  <1>2. /\ player.pc = "copy" /\ Len(player.dst) < player.take
        /\ player' = [player EXCEPT
               !.dst = Append(player.dst, data[Index(player.offset + Len(player.dst))])]
    BY DEF CopyByte
  <1>3. Len(player.dst) \in Nat
    BY <1>1, LenProperties
  <1>4. player.offset + Len(player.dst) \in Nat /\ base <= player.offset + Len(player.dst)
    BY <1>1, <1>2, <1>3 DEF Reading, Window
  <1>5. data[Index(player.offset + Len(player.dst))] \in Bytes \cup {Junk}
    BY <1>1, <1>4, IndexInSlots DEF Typed
  <1>6. /\ player'.pc = "copy" /\ player'.take = player.take
        /\ player'.size = player.size /\ player'.offset = player.offset
        /\ player'.dst = Append(player.dst, data[Index(player.offset + Len(player.dst))])
    BY <1>1, <1>2 DEF PlayerType
  <1> DEFINE byte == data[Index(player.offset + Len(player.dst))]
             dst == player.dst
  <1>7. dst \in Seq(Bytes \cup {Junk}) /\ byte \in Bytes \cup {Junk}
    BY <1>1, <1>5
  <1>8. /\ Append(dst, byte) \in Seq(Bytes \cup {Junk})
        /\ Len(Append(dst, byte)) = Len(dst) + 1
        /\ \A k \in 1 .. Len(dst) : Append(dst, byte)[k] = dst[k]
        /\ Append(dst, byte)[Len(dst) + 1] = byte
    <2> HIDE DEF byte, dst
    <2>. QED BY <1>7, AppendProperties
  <1>. QED BY <1>2, <1>3, <1>4, <1>5, <1>6, <1>8

LEMMA QuietTyped ==
  ASSUME Typed, Window, Reading, Quiet
  PROVE  Typed'
  <1>1. player \in PlayerType /\ produced \in Nat /\ consumed \in Nat /\ base \in Nat
    BY DEF Typed, PlayerType
  <1>2. << >> \in Seq(Bytes \cup {Junk})
    BY EmptySeq
  <1> USE DEF PlayerType, GoPlayer
  <1>3. SUFFICES player' \in PlayerType
    BY QuietFrame DEF Typed
  <1>4. CASE Parsed
    BY <1>1, <1>4, Constants DEF Parsed, PlayerPcs
  <1>5. CASE NotPlayable \/ Stopped
    BY <1>5, IdleTyped DEF NotPlayable, Stopped
  <1>6. CASE NextRead
    <2>1. PICK skip \in 0 .. MaxSkip, size \in Sizes :
             player' = [player EXCEPT !.pc = "consume", !.offset = player.cursor + skip,
                                      !.size = size, !.dst = << >>, !.take = 0]
      BY <1>6 DEF NextRead, BeginRead
    <2>2. player.cursor + skip \in Nat /\ size \in Nat
      BY <1>1, Constants
    <2>. QED BY <1>1, <1>2, <2>1, <2>2 DEF PlayerPcs
  <1>7. CASE NextPiece
    <2>1. PICK size \in Sizes :
             player' = [player EXCEPT !.pc = "consume", !.offset = player.cursor,
                                      !.size = size, !.dst = << >>, !.take = 0]
      BY <1>7 DEF NextPiece, BeginRead
    <2>2. size \in Nat
      BY Constants
    <2>. QED BY <1>1, <1>2, <2>1, <2>2 DEF PlayerPcs
  <1>8. CASE ConsumeLoad
    <2>1. ConsumeTarget(player.offset) \in Nat
      BY <1>1, ConsumeTargetTyped
    <2>. QED BY <1>1, <1>8, <2>1 DEF ConsumeLoad, PlayerPcs
  <1>9. CASE TryRead
    BY <1>1, <1>9 DEF TryRead, PlayerPcs
  <1>10. CASE MissingHalted \/ MissingWait
    BY <1>1, <1>10 DEF MissingHalted, MissingWait, PlayerPcs
  <1>11. CASE ReadAtEof
    <2> DEFINE take == Lesser(produced - player.offset, player.size)
    <2>1. \/ player' = [player EXCEPT !.pc = "returned"]
          \/ /\ player.offset < produced
             /\ player' = [player EXCEPT !.pc = "copy", !.take = take]
      BY <1>11 DEF ReadAtEof
    <2>2. player.offset < produced => take \in Nat
      BY <1>1 DEF Lesser
    <2> HIDE DEF take
    <2>. QED BY <1>1, <2>1, <2>2 DEF PlayerPcs
  <1>12. CASE CopyByte
    <2>1. player' = [player EXCEPT
               !.dst = Append(player.dst, data[Index(player.offset + Len(player.dst))])]
      BY <1>12 DEF CopyByte
    <2>2. Append(player.dst, data[Index(player.offset + Len(player.dst))])
             \in Seq(Bytes \cup {Junk})
      BY <1>12, CopiedByte
    <2>. QED BY <1>1, <2>1, <2>2
  <1>13. CASE ReleaseLoad
    <2>1. player.offset + player.take \in Nat
      BY <1>1
    <2>2. ConsumeTarget(player.offset + player.take) \in Nat
      BY <2>1, ConsumeTargetTyped
    <2>. QED BY <1>1, <1>13, <2>2 DEF ReleaseLoad, PlayerPcs
  <1>14. CASE Returned
    BY <1>1, <1>14 DEF Returned, PlayerPcs
  <1>15. CASE PassEnds \/ PassLoops
    BY <1>1, <1>15 DEF PassEnds, PassLoops, PlayerPcs
  <1>16. CASE Rewound
    <2>1. PICK from \in Starts :
             player' = [IdlePlayer EXCEPT !.pc = "start", !.cursor = from]
      BY <1>16 DEF Rewound
    <2>2. from \in Nat /\ "start" \in PlayerPcs
      BY Constants DEF PlayerPcs
    <2>. QED BY <2>1, <2>2, IdleTyped
  <1>. QED BY <1>4, <1>5, <1>6, <1>7, <1>8, <1>9, <1>10, <1>11, <1>12, <1>13, <1>14,
              <1>15, <1>16 DEF Quiet

LEMMA QuietHandover ==
  ASSUME Typed, FileHandover, EofIsTrue, Quiet
  PROVE  FileHandover' /\ EofIsTrue'
  <1>1. /\ reader' = reader /\ reader_eof' = reader_eof /\ card_failed' = card_failed
        /\ produced' = produced /\ base' = base /\ stream_end' = stream_end
    BY QuietFrame
  <1> DEFINE Resting == {"idle", "parse", "start"}
  <1>2. /\ player'.pc \in Resting => player.pc \in Resting \/ reader.pc = "idle"
        /\ player.pc \in Resting => player'.pc \in Resting
    <2> USE DEF Typed, GoPlayer, BeginRead, IdlePlayer
    <2>1. CASE Parsed
      BY <2>1 DEF Parsed
    <2>7. CASE NotPlayable \/ Stopped
      BY <2>7 DEF NotPlayable, Stopped
    <2>8. CASE Rewound
      BY <2>8 DEF Rewound
    <2>2. CASE NextRead \/ NextPiece \/ ConsumeLoad
      BY <2>2 DEF NextRead, NextPiece, ConsumeLoad
    <2>3. CASE TryRead \/ MissingHalted \/ MissingWait
      BY <2>3 DEF TryRead, MissingHalted, MissingWait
    <2>4. CASE ReadAtEof
      BY <2>4 DEF ReadAtEof
    <2>5. CASE CopyByte \/ ReleaseLoad
      BY <2>5 DEF CopyByte, ReleaseLoad
    <2>6. CASE Returned \/ PassEnds \/ PassLoops
      BY <2>6 DEF Returned, PassEnds, PassLoops
    <2>. QED BY <2>1, <2>2, <2>3, <2>4, <2>5, <2>6, <2>7, <2>8 DEF Quiet
  <1>. QED BY <1>1, <1>2 DEF FileHandover, EofIsTrue, Passing

(* A step of the player that begins no read and ends none.                 *)
LEMMA NothingHeld ==
  ASSUME player'.pc \in {"idle", "parse", "start", "stop", "stopping", "rewind", "rewinding"}
  PROVE  Reading'
  BY DEF Reading

LEMMA BeginReadReading ==
  ASSUME Typed, NEW o \in Nat, consumed <= o, NEW size \in Sizes, BeginRead(o, size),
         UNCHANGED <<consumed, produced, halt, reader_eof>>
  PROVE  Reading'
  <1>1. /\ player'.pc = "consume" /\ player'.offset = o /\ player'.size = size
        /\ player'.dst = << >> /\ player'.take = 0
    BY DEF BeginRead, Typed
  <1>2. size \in 1 .. Capacity
    BY Constants
  <1>. QED BY <1>1, <1>2 DEF Reading

LEMMA QuietReading ==
  ASSUME Typed, Window, Reading, Quiet
  PROVE  Reading'
  <1>1. /\ player \in PlayerType
        /\ produced \in Nat /\ consumed \in Nat /\ base \in Nat
        /\ player.cursor \in Nat /\ player.offset \in Nat /\ player.size \in Nat
        /\ player.take \in Nat
    BY DEF Typed, PlayerType
  <1>2. UNCHANGED <<consumed, produced, halt, reader_eof>>
    BY QuietFrame
  <1> USE DEF PlayerType, GoPlayer
  <1>3. CASE Parsed \/ NotPlayable \/ PassEnds \/ PassLoops \/ Stopped \/ Rewound
    <2>1. player'.pc \in {"idle", "start", "stop", "rewind"}
      <3>1. CASE Parsed
        BY <1>1, <3>1 DEF Parsed
      <3>2. CASE NotPlayable \/ Stopped
        BY <3>2 DEF NotPlayable, Stopped, IdlePlayer
      <3>4. CASE Rewound
        <4>1. PICK from \in Starts :
                 player' = [IdlePlayer EXCEPT !.pc = "start", !.cursor = from]
          BY <3>4 DEF Rewound
        <4>. QED BY <4>1, IdleTyped DEF IdlePlayer
      <3>3. CASE PassEnds \/ PassLoops
        BY <1>1, <3>3 DEF PassEnds, PassLoops
      <3>. QED BY <1>3, <3>1, <3>2, <3>3, <3>4
    <2>. QED BY <2>1, NothingHeld
  <1>4. CASE NextRead
    <2>1. PICK skip \in 0 .. MaxSkip, size \in Sizes : BeginRead(player.cursor + skip, size)
      BY <1>4 DEF NextRead
    <2>2. skip \in Nat /\ consumed <= player.cursor
      BY <1>4, Constants DEF NextRead, Reading
    <2>3. player.cursor + skip \in Nat /\ consumed <= player.cursor + skip
      BY <1>1, <2>2
    <2>. QED BY <1>2, <2>1, <2>3, BeginReadReading
  <1>5. CASE NextPiece
    <2>1. PICK size \in Sizes : BeginRead(player.cursor, size)
      BY <1>5 DEF NextPiece
    <2>2. consumed <= player.cursor
      BY <1>5 DEF NextPiece, Reading
    <2>. QED BY <1>1, <1>2, <2>1, <2>2, BeginReadReading
  <1>6. CASE ConsumeLoad
    <2>1. /\ player.pc = "consume"
          /\ player' = [player EXCEPT !.pc = "consume_store",
                                      !.target = ConsumeTarget(player.offset)]
      BY <1>6 DEF ConsumeLoad
    <2>2. /\ player'.pc = "consume_store" /\ player'.target = ConsumeTarget(player.offset)
          /\ player'.take = player.take /\ player'.dst = player.dst
          /\ player'.size = player.size /\ player'.offset = player.offset
      BY <1>1, <2>1
    <2>3. /\ player.take = 0 /\ player.dst = << >> /\ player.size \in 1 .. Capacity
          /\ consumed <= player.offset
      BY <2>1 DEF Reading
    <2>4. /\ consumed <= player'.target /\ player'.target <= produced
          /\ player'.target <= player.offset
      BY <1>1, <2>2, <2>3, ConsumeTargetTyped
    <2>. QED BY <1>1, <1>2, <2>2, <2>3, <2>4 DEF Reading
  <1>7. CASE TryRead
    <2>1. /\ player.pc = "try"
          /\ \/ /\ Readable(player.offset, player.size)
                /\ player' = [player EXCEPT !.pc = "copy", !.take = player.size]
             \/ player' = [player EXCEPT !.pc = "missing"]
      BY <1>7 DEF TryRead
    <2>2. /\ player.take = 0 /\ player.dst = << >> /\ player.size \in 1 .. Capacity
          /\ consumed <= player.offset
      BY <2>1 DEF Reading
    <2>3. CASE player' = [player EXCEPT !.pc = "missing"]
      <3>1. /\ player'.pc = "missing" /\ player'.take = 0 /\ player'.dst = << >>
            /\ player'.size = player.size /\ player'.offset = player.offset
        BY <1>1, <2>2, <2>3
      <3>. QED BY <1>2, <2>2, <3>1 DEF Reading
    <2>4. CASE /\ Readable(player.offset, player.size)
               /\ player' = [player EXCEPT !.pc = "copy", !.take = player.size]
      <3>1. /\ player'.pc = "copy" /\ player'.take = player.size /\ player'.dst = << >>
            /\ player'.size = player.size /\ player'.offset = player.offset
        BY <1>1, <2>2, <2>4
      <3>2. player.offset + player.size <= produced
        BY <1>1, <2>4 DEF Readable
      <3>3. Len(player'.dst) = 0
        BY <3>1, EmptySeq
      <3>. QED BY <1>1, <1>2, <2>2, <3>1, <3>2, <3>3 DEF Reading
    <2>. QED BY <2>1, <2>3, <2>4
  <1>8. CASE MissingHalted
    <2>1. /\ player.pc = "missing" /\ halt
          /\ player'.pc = "returned" /\ player'.take = player.take
          /\ player'.size = player.size /\ player'.offset = player.offset
      BY <1>1, <1>8 DEF MissingHalted
    <2>2. player.take = 0 /\ player.size \in 1 .. Capacity
      BY <2>1 DEF Reading
    <2>. QED BY <1>1, <1>2, <2>1, <2>2 DEF Reading
  <1>9. CASE MissingWait
    <2>1. /\ player.pc = "missing"
          /\ (player'.pc = "eof" /\ reader_eof) \/ player'.pc = "try"
          /\ player'.take = player.take /\ player'.dst = player.dst
          /\ player'.size = player.size /\ player'.offset = player.offset
      BY <1>1, <1>9 DEF MissingWait
    <2>2. /\ player.take = 0 /\ player.dst = << >> /\ player.size \in 1 .. Capacity
          /\ consumed <= player.offset
      BY <2>1 DEF Reading
    <2>. QED BY <1>2, <2>1, <2>2 DEF Reading
  <1>10. CASE ReadAtEof
    <2> DEFINE take == Lesser(produced - player.offset, player.size)
    <2>1. /\ player.pc = "eof"
          /\ \/ /\ player.offset < produced /\ Readable(player.offset, take)
                /\ player' = [player EXCEPT !.pc = "copy", !.take = take]
             \/ /\ ~(player.offset < produced /\ Readable(player.offset, take))
                /\ player' = [player EXCEPT !.pc = "returned"]
      BY <1>10 DEF ReadAtEof
    <2>2. /\ player.take = 0 /\ player.dst = << >> /\ player.size \in 1 .. Capacity
          /\ consumed <= player.offset /\ reader_eof
      BY <2>1 DEF Reading
    <2>3. player.offset < produced => Readable(player.offset, take)
      BY <1>1, <2>2, Constants DEF Readable, Lesser
    <2>4. player.offset < produced =>
             /\ take \in Nat /\ take <= player.size /\ player.offset + take <= produced
             /\ take < player.size => player.offset + take = produced
      BY <1>1, <2>2 DEF Lesser
    <2> HIDE DEF take
    <2>5. CASE /\ player.offset < produced
               /\ player' = [player EXCEPT !.pc = "copy", !.take = take]
      <3>1. /\ player'.pc = "copy" /\ player'.take = take /\ player'.dst = << >>
            /\ player'.size = player.size /\ player'.offset = player.offset
        BY <1>1, <2>2, <2>5
      <3>2. Len(player'.dst) = 0
        BY <3>1, EmptySeq
      <3>. QED BY <1>1, <1>2, <2>2, <2>4, <2>5, <3>1, <3>2 DEF Reading
    <2>6. CASE ~(player.offset < produced) /\ player' = [player EXCEPT !.pc = "returned"]
      <3>1. /\ player'.pc = "returned" /\ player'.take = 0
            /\ player'.size = player.size /\ player'.offset = player.offset
        BY <1>1, <2>2, <2>6
      <3>2. 0 < player.size /\ produced <= player.offset + 0
        BY <1>1, <2>2, <2>6
      <3>. QED BY <1>1, <1>2, <2>2, <3>1, <3>2 DEF Reading
    <2>. QED BY <2>1, <2>3, <2>5, <2>6
  <1>11. CASE CopyByte
    <2>1. /\ player.pc = "copy" /\ player'.pc = "copy" /\ player'.take = player.take
          /\ player'.size = player.size /\ player'.offset = player.offset
          /\ Len(player'.dst) <= player'.take
      BY <1>1, <1>11, CopiedByte DEF CopyByte
    <2>. QED BY <1>2, <2>1 DEF Reading
  <1>12. CASE ReleaseLoad
    <2>1. /\ player.pc = "copy"
          /\ player' = [player EXCEPT !.pc = "release_store",
                             !.target = ConsumeTarget(player.offset + player.take)]
      BY <1>12 DEF ReleaseLoad
    <2>2. /\ player'.pc = "release_store"
          /\ player'.target = ConsumeTarget(player.offset + player.take)
          /\ player'.take = player.take
          /\ player'.size = player.size /\ player'.offset = player.offset
      BY <1>1, <2>1
    <2>3. player.offset + player.take \in Nat /\ consumed <= player.offset
          /\ consumed <= player.offset + player.take
      BY <1>1, <2>1 DEF Reading
    <2>4. /\ consumed <= player'.target /\ player'.target <= produced
          /\ player'.target <= player.offset + player.take
      BY <2>2, <2>3, ConsumeTargetTyped
    <2>. QED BY <1>1, <1>2, <2>1, <2>2, <2>3, <2>4 DEF Reading
  <1>13. CASE Returned
    <2>1. /\ player.pc = "returned"
          /\ \/ player.take = player.size /\ player'.pc = "next"
             \/ player'.pc = "stop"
          /\ player'.cursor = player.cursor
      BY <1>1, <1>13 DEF Returned
    <2>2. player.take = player.size => consumed <= player.cursor
      BY <2>1 DEF Reading
    <2>. QED BY <1>2, <2>1, <2>2 DEF Reading
  <1>. QED BY <1>3, <1>4, <1>5, <1>6, <1>7, <1>8, <1>9, <1>10, <1>11, <1>12, <1>13 DEF Quiet

LEMMA QuietBytes ==
  ASSUME Typed, Window, Held, Reading, ReadsAreFileBytes, Quiet
  PROVE  ReadsAreFileBytes'
  <1> USE DEF PlayerType, GoPlayer
  <1>1. player \in PlayerType
    BY DEF Typed
  <1>2. ASSUME player'.dst = << >> PROVE ReadsAreFileBytes'
    <2>1. Len(player'.dst) = 0
      BY <1>2, EmptySeq
    <2>. QED BY <2>1 DEF ReadsAreFileBytes
  <1>3. ASSUME player'.dst = player.dst, player'.offset = player.offset
        PROVE  ReadsAreFileBytes'
    BY <1>3 DEF ReadsAreFileBytes
  <1>4. CASE NotPlayable \/ Stopped
    BY <1>2, <1>4 DEF NotPlayable, Stopped, IdlePlayer
  <1>5. CASE Rewound
    <2>1. PICK from \in Starts :
             player' = [IdlePlayer EXCEPT !.pc = "start", !.cursor = from]
      BY <1>5 DEF Rewound
    <2>. QED BY <1>2, <2>1, IdleTyped DEF IdlePlayer
  <1>6. CASE NextRead \/ NextPiece
    BY <1>1, <1>2, <1>6 DEF NextRead, NextPiece, BeginRead
  <1>7. CASE Parsed
    BY <1>1, <1>3, <1>7 DEF Parsed
  <1>8. CASE ConsumeLoad \/ TryRead
    BY <1>1, <1>3, <1>8 DEF ConsumeLoad, TryRead
  <1>9. CASE MissingHalted \/ MissingWait
    BY <1>1, <1>3, <1>9 DEF MissingHalted, MissingWait
  <1>10. CASE ReadAtEof
    BY <1>1, <1>3, <1>10 DEF ReadAtEof
  <1>11. CASE ReleaseLoad \/ Returned
    BY <1>1, <1>3, <1>11 DEF ReleaseLoad, Returned
  <1>12. CASE PassEnds \/ PassLoops
    BY <1>1, <1>3, <1>12 DEF PassEnds, PassLoops
  <1>13. CASE CopyByte
    <2> DEFINE n == Len(player.dst)
    <2>1. /\ player.pc = "copy" /\ n \in Nat /\ n < player.take
          /\ player'.offset = player.offset
          /\ Len(player'.dst) = n + 1
          /\ player'.dst[n + 1] = data[Index(player.offset + n)]
          /\ \A k \in 1 .. n : player'.dst[k] = player.dst[k]
      BY <1>13, CopiedByte
    <2>2. /\ produced \in Nat /\ consumed \in Nat /\ reader.done \in Nat
          /\ player.offset \in Nat /\ player.take \in Nat
      BY <1>1 DEF Typed
    <2>3. consumed <= player.offset /\ player.offset + player.take <= produced
      BY <2>1 DEF Reading
    <2> HIDE DEF n
    <2>4. player.offset + n \in consumed .. produced + reader.done - 1
      BY <2>1, <2>2, <2>3
    <2>5. /\ player.offset + n \in FileBytes
          /\ data[Index(player.offset + n)] = File[player.offset + n]
      BY <2>4 DEF Held
    <2>6. SUFFICES ASSUME NEW k \in 1 .. n + 1
                   PROVE  /\ player'.offset + k - 1 \in FileBytes
                          /\ player'.dst[k] = File[player'.offset + k - 1]
      BY <2>1 DEF ReadsAreFileBytes
    <2>7. CASE k = n + 1
      <3>1. player.offset + k - 1 = player.offset + n
        BY <2>1, <2>2, <2>7
      <3>. QED BY <2>1, <2>5, <2>7, <3>1
    <2>8. CASE k # n + 1
      <3>1. k \in 1 .. n
        BY <2>1, <2>8
      <3>2. /\ player.offset + k - 1 \in FileBytes
            /\ player.dst[k] = File[player.offset + k - 1]
        BY <3>1 DEF ReadsAreFileBytes, n
      <3>. QED BY <2>1, <3>1, <3>2
    <2>. QED BY <2>7, <2>8
  <1>. QED BY <1>4, <1>5, <1>6, <1>7, <1>8, <1>9, <1>10, <1>11, <1>12, <1>13 DEF Quiet

LEMMA QuietPreserves ==
  ASSUME IInv, Quiet
  PROVE  IInv'
  <1> USE DEF IInv
  <1>1. Typed' /\ Reading' /\ ReadsAreFileBytes'
    BY QuietTyped, QuietReading, QuietBytes
  <1>2. FileHandover' /\ EofIsTrue'
    BY QuietHandover
  <1>3. /\ UNCHANGED <<data, produced, consumed, base, reader, stream_end>>
    BY QuietFrame
  <1>4. Window' /\ Aligned'
    BY <1>3 DEF Window, Aligned
  <1>5. Held'
    BY <1>3, HeldShrinks DEF Typed
  <1>. QED BY <1>1, <1>2, <1>4, <1>5

(***************************************************************************)
(* The steps that hand something over: a pass begins, room is given back,  *)
(* the reader is told to stop; and the two callers from outside.           *)
(***************************************************************************)
LEMMA ReaderStartPreserves ==
  ASSUME IInv, ReaderStart
  PROVE  IInv'
  <1> USE DEF IInv
  <1> DEFINE start == AlignDown(player.cursor)
  <1>1. /\ player.pc = "start"
        /\ base' = start /\ produced' = start /\ consumed' = start /\ data' = data
        /\ reader_halt' = FALSE
        /\ \/ reader_eof' = FALSE /\ reader' = [IdleReader EXCEPT !.pc = "fill"]
           \/ reader_eof' = TRUE /\ reader' = reader
        /\ player' = [player EXCEPT !.pc = "next"]
        /\ UNCHANGED <<stream_end, halt, card_failed>>
    BY DEF ReaderStart, Reset, GoPlayer
  <1>2. player.cursor \in Nat /\ reader.want \in Nat /\ reader.done \in Nat
    BY DEF Typed
  <1>3. start \in Nat /\ start % Block = 0 /\ start <= player.cursor
    BY <1>2, AlignDownAligned
  <1> HIDE DEF start
  <1>4. reader.pc = "idle" /\ reader.want = 0 /\ reader.done = 0
    <2>1. reader.pc = "idle"
      BY <1>1 DEF FileHandover
    <2>. QED BY <1>2, <2>1 DEF Window
  <1>5. /\ reader'.want = 0 /\ reader'.done = 0
        /\ reader'.pc = "idle" \/ (reader'.pc = "fill" /\ ~reader_eof')
    BY <1>1, <1>4 DEF IdleReader
  <1>6. Typed'
    <2>1. reader' \in [pc : {"idle", "fill", "read"}, want : Nat, done : Nat]
      BY <1>1 DEF Typed, IdleReader
    <2>2. player' \in [pc : PlayerPcs, cursor : Nat, offset : Nat, size : Nat,
                       target : Nat, take : Nat, dst : Seq(Bytes \cup {Junk})]
      BY <1>1 DEF Typed, PlayerPcs
    <2>. QED BY <1>1, <1>3, <2>1, <2>2 DEF Typed
  <1>7. Window'
    BY <1>1, <1>3, <1>5, Constants DEF Window
  <1>8. Held'
    BY <1>1, <1>3, <1>5 DEF Held
  <1>9. Aligned'
    BY <1>1, <1>3, <1>5 DEF Aligned
  <1>10. player'.pc = "next" /\ player'.cursor = player.cursor /\ player'.dst = player.dst
         /\ player'.offset = player.offset
    BY <1>1 DEF Typed
  <1>11. FileHandover' /\ EofIsTrue'
    BY <1>1, <1>5, <1>10 DEF FileHandover, EofIsTrue
  <1>12. Reading'
    BY <1>1, <1>3, <1>10 DEF Reading
  <1>13. ReadsAreFileBytes'
    BY <1>10 DEF ReadsAreFileBytes
  <1>. QED BY <1>6, <1>7, <1>8, <1>9, <1>11, <1>12, <1>13

LEMMA StorePreserves ==
  ASSUME IInv, ConsumeStore \/ ReleaseStore
  PROVE  IInv'
  <1> USE DEF IInv
  <1>1. /\ player.pc \in {"consume_store", "release_store"}
        /\ consumed' = player.target /\ UNCHANGED <<data, produced, base, reader>>
        /\ UNCHANGED <<stream_end, halt, reader_halt, reader_eof, card_failed>>
    BY DEF ConsumeStore, ReleaseStore, StoreConsumed, rest
  <1>2. /\ player \in PlayerType /\ produced \in Nat /\ consumed \in Nat /\ base \in Nat
        /\ player.target \in Nat /\ player.offset \in Nat /\ player.take \in Nat
        /\ reader.want \in Nat /\ reader.done \in Nat /\ player.size \in Nat
    BY DEF Typed, PlayerType
  <1>3. /\ consumed <= player.target /\ player.target <= produced
        /\ player.target <= player.offset + player.take
    BY <1>1 DEF Reading
  <1>4. /\ player'.dst = player.dst /\ player'.offset = player.offset
        /\ player'.take = player.take /\ player'.size = player.size
        /\ \/ player.pc = "consume_store" /\ player'.pc = "try"
           \/ /\ player.pc = "release_store" /\ player'.pc = "returned"
              /\ player'.cursor = player.offset + player.take
    BY <1>2 DEF ConsumeStore, ReleaseStore, GoPlayer, PlayerType
  <1>5. Typed'
    <2>1. player' \in PlayerType
      <3>1. player.offset + player.take \in Nat
        BY <1>2
      <3>2. CASE ConsumeStore
        BY <1>2, <3>2 DEF ConsumeStore, GoPlayer, PlayerType, PlayerPcs
      <3>3. CASE ReleaseStore
        BY <1>2, <3>1, <3>3 DEF ReleaseStore, PlayerType, PlayerPcs
      <3>. QED BY <3>2, <3>3
    <2>. QED BY <1>1, <1>2, <2>1 DEF Typed, PlayerType
  <1>6. Window'
    BY <1>1, <1>2, <1>3, Constants DEF Window
  <1>7. Held'
    BY <1>1, <1>2, <1>3, HeldShrinks
  <1>8. Aligned'
    BY <1>1 DEF Aligned
  <1>9. FileHandover' /\ EofIsTrue'
    BY <1>1, <1>4 DEF FileHandover, EofIsTrue, Passing
  <1>10. Reading'
    <2>1. CASE player.pc = "consume_store" /\ player'.pc = "try"
      BY <1>1, <1>2, <1>3, <1>4, <2>1 DEF Reading
    <2>2. CASE /\ player.pc = "release_store" /\ player'.pc = "returned"
               /\ player'.cursor = player.offset + player.take
      BY <1>1, <1>2, <1>3, <1>4, <2>2 DEF Reading
    <2>. QED BY <1>4, <2>1, <2>2
  <1>11. ReadsAreFileBytes'
    BY <1>4 DEF ReadsAreFileBytes
  <1>. QED BY <1>5, <1>6, <1>7, <1>8, <1>9, <1>10, <1>11

LEMMA ReaderStopPreserves ==
  ASSUME IInv, ReaderStop
  PROVE  IInv'
  <1> USE DEF IInv
  <1>1. /\ player.pc \in {"stop", "rewind"} /\ reader_halt' = TRUE
        /\ UNCHANGED <<data, produced, consumed, base, reader>>
        /\ UNCHANGED <<stream_end, halt, reader_eof, card_failed>>
        /\ \/ player' = [player EXCEPT !.pc = "stopping"]
           \/ player' = [player EXCEPT !.pc = "rewinding"]
    BY DEF ReaderStop, GoPlayer, ringVars
  <1>2. /\ player'.pc \in {"stopping", "rewinding"}
        /\ player'.dst = player.dst /\ player'.offset = player.offset
    BY <1>1 DEF Typed
  <1>3. Typed'
    <2>1. player' \in PlayerType
      <3>1. player \in PlayerType
        BY DEF Typed, PlayerType
      <3>2. \A pc \in PlayerPcs : [player EXCEPT !.pc = pc] \in PlayerType
        BY <3>1 DEF PlayerType
      <3>. QED BY <1>1, <3>2 DEF PlayerPcs
    <2>. QED BY <1>1, <2>1 DEF Typed, PlayerType
  <1>4. Window' /\ Aligned'
    BY <1>1 DEF Window, Aligned
  <1>5. Held'
    BY <1>1, HeldShrinks DEF Typed
  <1>6. FileHandover' /\ EofIsTrue' /\ Reading'
    BY <1>1, <1>2, NothingHeld DEF FileHandover, EofIsTrue, Passing
  <1>7. ReadsAreFileBytes'
    BY <1>2 DEF ReadsAreFileBytes
  <1>. QED BY <1>3, <1>4, <1>5, <1>6, <1>7

LEMMA PlayPreserves ==
  ASSUME IInv, Play
  PROVE  IInv'
  <1> USE DEF IInv
  <1>1. /\ player.pc = "idle" /\ halt' = FALSE /\ stream_end' \in StreamEnds
        /\ card_failed' = FALSE
        /\ UNCHANGED <<data, produced, consumed, base, reader, reader_halt, reader_eof>>
        /\ player' = [player EXCEPT !.pc = "parse"]
    BY DEF Play, GoPlayer, ringVars
  <1>2. player'.pc = "parse" /\ player'.dst = player.dst /\ player'.offset = player.offset
    BY <1>1 DEF Typed
  <1>3. reader.pc = "idle"
    BY <1>1 DEF FileHandover
  <1>4. Typed'
    <2>1. player' \in PlayerType
      BY <1>1 DEF Typed, PlayerType, PlayerPcs
    <2>2. stream_end' \in Nat
      BY <1>1, Constants
    <2>. QED BY <1>1, <2>1, <2>2 DEF Typed, PlayerType
  <1>5. Window' /\ Aligned'
    BY <1>1, <1>3 DEF Window, Aligned
  <1>6. Held'
    BY <1>1, HeldShrinks DEF Typed
  <1>7. FileHandover' /\ EofIsTrue' /\ Reading'
    BY <1>1, <1>2, <1>3, NothingHeld DEF FileHandover, EofIsTrue, Passing
  <1>8. ReadsAreFileBytes'
    BY <1>2 DEF ReadsAreFileBytes
  <1>. QED BY <1>4, <1>5, <1>6, <1>7, <1>8

LEMMA HaltPreserves ==
  ASSUME IInv, Halt
  PROVE  IInv'
  <1>1. /\ halt' = TRUE
        /\ UNCHANGED <<data, produced, consumed, base, stream_end, reader_halt, reader_eof,
                       card_failed, reader, player>>
    BY DEF Halt, ringVars
  <1>2. Typed' /\ Window' /\ Aligned' /\ FileHandover' /\ EofIsTrue' /\ ReadsAreFileBytes'
    BY <1>1 DEF IInv, Typed, Window, Aligned, FileHandover, EofIsTrue, Passing,
                ReadsAreFileBytes
  <1>3. Held'
    BY <1>1, HeldShrinks DEF IInv, Typed
  <1>4. Reading'
    BY <1>1 DEF IInv, Reading
  <1>. QED BY <1>2, <1>3, <1>4 DEF IInv

LEMMA StutterPreserves ==
  ASSUME IInv, UNCHANGED vars
  PROVE  IInv'
  BY DEF IInv, vars, ringVars, rest, Typed, Window, Held, Index, Aligned, FileHandover,
         EofIsTrue, Passing, Reading, ReadsAreFileBytes

LEMMA StepHolds == IInv /\ [Next]_vars => IInv'
  <1> SUFFICES ASSUME IInv, [Next]_vars PROVE IInv'
    OBVIOUS
  <1>1. CASE ReaderStep
    BY <1>1, ReaderStepPreserves
  <1>2. CASE PlayerStep
    <2>1. CASE Quiet
      BY <2>1, QuietPreserves
    <2>2. CASE ReaderStart
      BY <2>2, ReaderStartPreserves
    <2>3. CASE ConsumeStore \/ ReleaseStore
      BY <2>3, StorePreserves
    <2>4. CASE ReaderStop
      BY <2>4, ReaderStopPreserves
    <2>. QED BY <1>2, <2>1, <2>2, <2>3, <2>4 DEF PlayerStep, Quiet
  <1>3. CASE Play
    BY <1>3, PlayPreserves
  <1>4. CASE Halt
    BY <1>4, HaltPreserves
  <1>5. CASE UNCHANGED vars
    BY <1>5, StutterPreserves
  <1>. QED BY <1>1, <1>2, <1>3, <1>4, <1>5 DEF Next

LEMMA Always == Spec => []IInv
  BY InitHolds, StepHolds, PTL DEF Spec

(***************************************************************************)
(* What follows.                                                           *)
(***************************************************************************)
(* The types of the window, of the two jobs and of what they share: no     *)
(* offset goes below zero, whatever order the two threads run in.          *)
THEOREM ReadAheadTypeCorrect == Spec => []TypeOK
  <1>1. IInv => TypeOK
    BY DEF IInv, Typed, TypeOK
  <1>. QED BY <1>1, Always, PTL

(* nn20clock_ringbuf.c: between what was consumed and what was produced    *)
(* there is never more than the buffer holds, and every slot in between    *)
(* holds the file's byte, also while the reader writes the slots that the  *)
(* player gave back a moment ago.                                          *)
THEOREM WindowAlwaysHoldsFile == Spec => []WindowHoldsFile
  <1>1. IInv => WindowHoldsFile
    <2> SUFFICES ASSUME IInv PROVE WindowHoldsFile
      OBVIOUS
    <2>1. /\ produced \in Nat /\ consumed \in Nat /\ reader.done \in Nat
          /\ consumed <= produced /\ produced <= consumed + Capacity
      BY DEF IInv, Typed, Window
    <2>2. ASSUME NEW o \in consumed .. produced - 1
          PROVE  o \in FileBytes /\ data[Index(o)] = File[o]
      <3>1. o \in consumed .. produced + reader.done - 1
        BY <2>1
      <3>. QED BY <3>1 DEF IInv, Held
    <2>. QED BY <2>1, <2>2, Constants DEF WindowHoldsFile
  <1>. QED BY <1>1, Always, PTL

(* stream_read() hands out the file's bytes and no others.                 *)
THEOREM ReadsAlwaysFileBytes == Spec => []ReadsAreFileBytes
  <1>1. IInv => ReadsAreFileBytes
    BY DEF IInv
  <1>. QED BY <1>1, Always, PTL

(* stream_read() comes back short only when it was told to stop or there   *)
(* is no more: the second look at `produced', after reader_eof was seen,   *)
(* leaves no block behind.                                                 *)
THEOREM ShortReadsAreTheLast == Spec => []ShortReadOnlyAtEnd
  <1>1. IInv => ShortReadOnlyAtEnd
    <2> SUFFICES ASSUME IInv, player.pc = "returned", player.take < player.size, ~halt,
                        ~card_failed, produced # base,
                        player.offset + player.take \in FileBytes
                 PROVE  player.offset + player.take >= produced /\ produced >= stream_end
      BY DEF ShortReadOnlyAtEnd
    <2>1. reader_eof /\ produced <= player.offset + player.take
      BY DEF IInv, Reading
    <2>2. /\ produced \in Nat /\ player.offset + player.take \in Nat
          /\ player.offset + player.take >= produced
      BY <2>1 DEF IInv, Typed
    <2>3. produced \in FileBytes
      BY <2>1, <2>2, FileIsPrefix
    <2>4. produced >= stream_end
      BY <2>1, <2>3 DEF IInv, EofIsTrue, Passing
    <2>. QED BY <2>2, <2>4
  <1>. QED BY <1>1, Always, PTL

(* reader_start() and reader_stop(): the descriptor and the window are the *)
(* player's alone from the stop of one pass to the start of the next.      *)
THEOREM DescriptorInOneHand == Spec => []FileHandover
  <1>1. IInv => FileHandover
    BY DEF IInv
  <1>. QED BY <1>1, Always, PTL

(* nn20clock_ringbuf.h: "every fill boundary is a block boundary".         *)
THEOREM FillsAreAligned == Spec => []AlignedFills
  <1>1. IInv => AlignedFills
    BY DEF IInv, Typed, Aligned, AlignedFills
  <1>. QED BY <1>1, Always, PTL
=============================================================================
