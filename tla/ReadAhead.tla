----------------------------- MODULE ReadAhead -----------------------------
(***************************************************************************)
(* Streaming a film: the reader worker fills the window a block at a time  *)
(* (fill_private) while the player's worker reads chunks out of it         *)
(* (stream_read), and the file descriptor passes between the two           *)
(* (reader_start, reader_stop).  There is no lock; every access to an      *)
(* atomic shared by the two threads is a step of its own, and the bytes    *)
(* are copied one at a time, so the copies interleave.                     *)
(***************************************************************************)
EXTENDS Ringbuf, Sequences

CONSTANTS
    Block,               \* RING_BLOCK_BYTES
    File,                \* the bytes on the card: a function on 0..n-1
    Starts,              \* offsets a pass may start from: movi_start, a resume
    StreamEnds,          \* values of movi_end the parser may report
    Sizes,               \* sizes of the player's reads; a read larger than
                         \* the window is refused at once
    MinChunk,            \* CHUNK_HEADER_BYTES: less than this ends a pass
    MaxSkip,             \* bound: most bytes a pass steps over between reads
    CardFails            \* whether read() may fail

FileBytes == DOMAIN File
Junk == -1               \* a slot that holds no byte of the file

ASSUME ReadAheadAssumption ==
    /\ Block \in Nat \ {0}
    /\ Capacity % Block = 0
    /\ Sizes \subseteq 1 .. Capacity
    /\ Starts \subseteq Nat /\ StreamEnds \subseteq Nat
    /\ MinChunk \in Nat \ {0} /\ MaxSkip \in Nat
    /\ CardFails \in BOOLEAN
    /\ \A o \in FileBytes : o \in Nat /\ 0 .. o \subseteq FileBytes

VARIABLES
    stream_end,          \* one past the last byte the reader will fetch
    halt,                \* the player has been told to stop
    reader_halt, reader_eof,
    reader,              \* the fill job: [pc, want, done]
    player,              \* the playback job, see below
    card_failed          \* history: read() has failed in this streaming

rest == <<stream_end, halt, reader_halt, reader_eof, card_failed>>
vars == <<ringVars, rest, reader, player>>

IdleReader == [pc |-> "idle", want |-> 0, done |-> 0]

(* player.cursor: where the pass is.  offset, size: the arguments of the   *)
(* stream_read() in progress.  target: the offset consume_to() is about to *)
(* store.  take: how many bytes it will copy.  dst: the bytes copied.      *)
IdlePlayer == [pc |-> "idle", cursor |-> 0, offset |-> 0, size |-> 0,
               target |-> 0, take |-> 0, dst |-> << >>]

Init ==
    /\ data = [i \in Slots |-> Junk]
    /\ produced = 0 /\ consumed = 0 /\ base = 0
    /\ stream_end \in StreamEnds
    /\ halt = FALSE /\ reader_halt = FALSE /\ reader_eof = FALSE
    /\ card_failed = FALSE
    /\ reader = IdleReader
    /\ player = IdlePlayer

GoReader(pc) == reader' = [reader EXCEPT !.pc = pc]
GoPlayer(pc) == player' = [player EXCEPT !.pc = pc]

-----------------------------------------------------------------------------
(* The reader worker: fill_private().                                      *)

(* The top of the loop: the halt flag, then how much room there is.  Only  *)
(* the two loads of the consumer's variables matter to the other thread,   *)
(* and nothing the player does depends on the instant between them.        *)
FillHalted ==
    /\ reader.pc = "fill" /\ reader_halt
    /\ reader' = IdleReader
    /\ UNCHANGED <<ringVars, rest, player>>

FillEnd ==
    /\ reader.pc = "fill" /\ ~reader_halt
    /\ produced >= stream_end
    /\ reader_eof' = TRUE
    /\ reader' = IdleReader
    /\ UNCHANGED <<ringVars, stream_end, halt, reader_halt, card_failed, player>>

GapFill ==            \* fault: fills whatever gap there is
    /\ reader.pc = "fill" /\ ~reader_halt
    /\ produced < stream_end
    /\ Writable > 0
    /\ reader' = [reader EXCEPT !.pc = "read", !.done = 0,
         !.want = Lesser(Lesser(Block, Writable), stream_end - produced)]
    /\ UNCHANGED <<ringVars, rest, player>>

(* Less than a block free is waited for, not filled.                       *)
FillBlock ==
    /\ reader.pc = "fill" /\ ~reader_halt
    /\ produced < stream_end
    /\ Writable >= Block
    /\ reader' = [reader EXCEPT !.pc = "read", !.done = 0,
                                !.want = Lesser(Block, stream_end - produced)]
    /\ UNCHANGED <<ringVars, rest, player>>

(* file_read(): bytes arrive in the window one by one, and stop at the end *)
(* of the file on the card.                                                *)
ReadByte ==
    /\ reader.pc = "read"
    /\ reader.done < reader.want
    /\ produced + reader.done \in FileBytes
    /\ PutByte(produced + reader.done, File[produced + reader.done])
    /\ reader' = [reader EXCEPT !.done = @ + 1]
    /\ UNCHANGED <<rest, player>>

FillProduced ==
    /\ reader.pc = "read"
    /\ reader.done > 0
    /\ \/ reader.done = reader.want
       \/ produced + reader.done \notin FileBytes
    /\ Produced(reader.done)
    /\ reader' = [IdleReader EXCEPT !.pc = "fill"]
    /\ UNCHANGED <<rest, player>>

QuietFillNothing ==   \* fault: leaves without saying that no more will come
    /\ reader.pc = "read"
    /\ \/ reader.done = 0 /\ produced \notin FileBytes /\ UNCHANGED card_failed
       \/ CardFails /\ card_failed' = TRUE
    /\ reader' = IdleReader
    /\ UNCHANGED <<ringVars, stream_end, halt, reader_halt, reader_eof, player>>

(* read() returned nothing: the end of the file, or a card that failed.    *)
FillNothing ==
    /\ reader.pc = "read"
    /\ \/ reader.done = 0 /\ produced \notin FileBytes /\ UNCHANGED card_failed
       \/ CardFails /\ card_failed' = TRUE
    /\ reader_eof' = TRUE
    /\ reader' = IdleReader
    /\ UNCHANGED <<ringVars, stream_end, halt, reader_halt, player>>

ReaderStep ==
    FillHalted \/ FillEnd \/ FillBlock \/ ReadByte \/ FillProduced \/ FillNothing

-----------------------------------------------------------------------------
(* The player's worker: playback_private(), play_once() and stream_read(). *)

(* nn20clock_player_play(): accepted once the last playback is over.  The  *)
(* job it posts opens the file and parses its headers through the          *)
(* descriptor itself.                                                      *)
Play ==
    /\ player.pc = "idle"
    /\ halt' = FALSE
    /\ stream_end' \in StreamEnds
    /\ card_failed' = FALSE
    /\ GoPlayer("parse")
    /\ UNCHANGED <<ringVars, reader_halt, reader_eof, reader>>

Parsed ==
    /\ player.pc = "parse"
    /\ \E from \in Starts :
         /\ from < stream_end
         /\ player' = [player EXCEPT !.pc = "start", !.cursor = from]
    /\ UNCHANGED <<ringVars, rest, reader>>

(* begin_file() failed, or the file has nothing to play.                   *)
NotPlayable ==
    /\ player.pc = "parse"
    /\ player' = IdlePlayer
    /\ UNCHANGED <<ringVars, rest, reader>>

AlignDown(offset) == offset - (offset % Block)

(* reader_start(): point the window at the block that holds the cursor and *)
(* post the fill job.  A worker that refuses the job leaves reader_eof set.*)
ReaderStart ==
    /\ player.pc = "start"
    /\ Reset(AlignDown(player.cursor))
    /\ reader_halt' = FALSE
    /\ \/ reader_eof' = FALSE /\ reader' = [IdleReader EXCEPT !.pc = "fill"]
       \/ reader_eof' = TRUE /\ UNCHANGED reader
    /\ GoPlayer("next")
    /\ UNCHANGED <<stream_end, halt, card_failed>>

(* The next read of the pass, at or after the cursor: a chunk header, a    *)
(* payload, or a piece of one.  What lies between was stepped over.        *)
BeginRead(offset, size) ==
    /\ offset + size <= stream_end
    /\ player' = [player EXCEPT !.pc = "consume", !.offset = offset,
                                !.size = size, !.dst = << >>, !.take = 0]

NextRead ==
    /\ player.pc = "next" /\ ~halt
    /\ player.cursor + MinChunk <= stream_end
    /\ \E skip \in 0 .. MaxSkip, size \in Sizes :
         BeginRead(player.cursor + skip, size)
    /\ UNCHANGED <<ringVars, rest, reader>>

(* A payload read in several pieces does not look at `halt' between them.  *)
NextPiece ==
    /\ player.pc = "returned"
    /\ player.take = player.size
    /\ \E size \in Sizes : BeginRead(player.cursor, size)
    /\ UNCHANGED <<ringVars, rest, reader>>

(* The first thing stream_read() does: release what lies before `offset'.  *)
ConsumeLoad ==
    /\ player.pc = "consume"
    /\ player' = [player EXCEPT !.pc = "consume_store",
                                !.target = ConsumeTarget(player.offset)]
    /\ UNCHANGED <<ringVars, rest, reader>>

ConsumeStore ==
    /\ player.pc = "consume_store"
    /\ StoreConsumed(player.target)
    /\ GoPlayer("try")
    /\ UNCHANGED <<rest, reader>>

(* nn20clock_ringbuf_read(): all of it, or try again.                      *)
TryRead ==
    /\ player.pc = "try"
    /\ IF Readable(player.offset, player.size)
         THEN player' = [player EXCEPT !.pc = "copy", !.take = player.size]
         ELSE GoPlayer("missing")
    /\ UNCHANGED <<ringVars, rest, reader>>

MissingHalted ==
    /\ player.pc = "missing" /\ halt
    /\ GoPlayer("returned")
    /\ UNCHANGED <<ringVars, rest, reader>>

MissingWait ==
    /\ player.pc = "missing" /\ ~halt
    /\ GoPlayer(IF reader_eof THEN "eof" ELSE "try")
    /\ UNCHANGED <<ringVars, rest, reader>>

GiveUpAtEof ==        \* fault: trusts the read that failed before the flag
    /\ player.pc = "eof"
    /\ GoPlayer("returned")
    /\ UNCHANGED <<ringVars, rest, reader>>

(* The reader is done, so look again at where the window ends and hand     *)
(* back what there is.                                                     *)
ReadAtEof ==
    /\ player.pc = "eof"
    /\ LET take == Lesser(produced - player.offset, player.size)
       IN  IF player.offset < produced /\ Readable(player.offset, take)
             THEN player' = [player EXCEPT !.pc = "copy", !.take = take]
             ELSE GoPlayer("returned")
    /\ UNCHANGED <<ringVars, rest, reader>>

CopyByte ==
    /\ player.pc = "copy"
    /\ Len(player.dst) < player.take
    /\ player' = [player EXCEPT
         !.dst = Append(@, data[Index(player.offset + Len(player.dst))])]
    /\ UNCHANGED <<ringVars, rest, reader>>

ReleaseLoad ==
    /\ player.pc = "copy"
    /\ Len(player.dst) = player.take
    /\ player' = [player EXCEPT !.pc = "release_store",
                       !.target = ConsumeTarget(player.offset + player.take)]
    /\ UNCHANGED <<ringVars, rest, reader>>

ReleaseStore ==
    /\ player.pc = "release_store"
    /\ StoreConsumed(player.target)
    /\ player' = [player EXCEPT !.pc = "returned",
                                !.cursor = player.offset + player.take]
    /\ UNCHANGED <<rest, reader>>

(* Back in the loop of play_once().                                        *)
Returned ==
    /\ player.pc = "returned"
    /\ player' = [player EXCEPT
                    !.pc = IF player.take = player.size THEN "next" ELSE "stop"]
    /\ UNCHANGED <<ringVars, rest, reader>>

(* The end of a pass: halted, the sleep timer has run out, or there is no  *)
(* room for another chunk.  The timer may run out before any chunk.        *)
PassEnds ==
    /\ player.pc = "next"
    /\ GoPlayer("stop")
    /\ UNCHANGED <<ringVars, rest, reader>>

PassLoops ==
    /\ player.pc \in {"next", "returned"} /\ ~halt
    /\ player.pc = "next" => player.cursor + MinChunk > stream_end
    /\ player.pc = "returned" => player.take < player.size
    /\ GoPlayer("rewind")
    /\ UNCHANGED <<ringVars, rest, reader>>

QuietReaderStop ==    \* fault: waits for the fill job without telling it
    /\ player.pc \in {"stop", "rewind"}
    /\ GoPlayer(IF player.pc = "stop" THEN "stopping" ELSE "rewinding")
    /\ UNCHANGED <<ringVars, rest, reader>>

(* reader_stop(): raise the flag, then wait behind the fill job.           *)
ReaderStop ==
    /\ player.pc \in {"stop", "rewind"}
    /\ reader_halt' = TRUE
    /\ GoPlayer(IF player.pc = "stop" THEN "stopping" ELSE "rewinding")
    /\ UNCHANGED <<ringVars, stream_end, halt, reader_eof, card_failed, reader>>

HastyStopped ==       \* fault: does not wait behind the fill job
    /\ player.pc = "stopping"
    /\ player' = IdlePlayer
    /\ UNCHANGED <<ringVars, rest, reader>>

Stopped ==
    /\ player.pc = "stopping"
    /\ reader.pc = "idle"
    /\ player' = IdlePlayer
    /\ UNCHANGED <<ringVars, rest, reader>>

Rewound ==
    /\ player.pc = "rewinding"
    /\ reader.pc = "idle"
    /\ \E from \in Starts :
         /\ \A s \in Starts : from <= s
         /\ player' = [IdlePlayer EXCEPT !.pc = "start", !.cursor = from]
    /\ UNCHANGED <<ringVars, rest, reader>>

PlayerStep ==
    \/ Parsed \/ NotPlayable \/ ReaderStart \/ NextRead \/ NextPiece
    \/ ConsumeLoad \/ ConsumeStore \/ TryRead \/ MissingHalted \/ MissingWait
    \/ ReadAtEof \/ CopyByte \/ ReleaseLoad \/ ReleaseStore \/ Returned
    \/ PassEnds \/ PassLoops \/ ReaderStop \/ Stopped \/ Rewound

(* nn20clock_player_halt(), from any thread at any time.                   *)
Halt ==
    /\ ~halt
    /\ halt' = TRUE
    /\ UNCHANGED <<ringVars, stream_end, reader_halt, reader_eof, card_failed,
                   reader, player>>

Next == ReaderStep \/ PlayerStep \/ Play \/ Halt

Spec == Init /\ [][Next]_vars

(* Both are threads of their own that the scheduler keeps running; nobody  *)
(* is obliged to press play or stop.                                       *)
FairSpec == Spec /\ WF_vars(ReaderStep) /\ WF_vars(PlayerStep)

-----------------------------------------------------------------------------
(* What the two threads promise each other.                                *)

PlayerPcs == {"idle", "parse", "start", "next", "consume", "consume_store",
              "try", "missing", "eof", "copy", "release_store", "returned",
              "stop", "stopping", "rewind", "rewinding"}

Bytes == {File[o] : o \in FileBytes}

(* Type invariant.                                                         *)
TypeOK ==
    /\ data \in [Slots -> Bytes \cup {Junk}]
    /\ produced \in Nat /\ consumed \in Nat /\ base \in Nat
    /\ stream_end \in Nat
    /\ halt \in BOOLEAN /\ reader_halt \in BOOLEAN /\ reader_eof \in BOOLEAN
    /\ card_failed \in BOOLEAN
    /\ reader \in [pc : {"idle", "fill", "read"}, want : Nat, done : Nat]
    /\ player \in [pc : PlayerPcs, cursor : Nat, offset : Nat, size : Nat,
                   target : Nat, take : Nat, dst : Seq(Bytes \cup {Junk})]

(* The window never claims more bytes than the buffer has slots, and every *)
(* byte it claims is the file's byte at that offset: no fill in progress   *)
(* overwrites a byte the player may still read.                            *)
WindowHoldsFile ==
    /\ consumed <= produced
    /\ produced - consumed <= Capacity
    /\ \A o \in consumed .. produced - 1 :
         o \in FileBytes /\ data[Index(o)] = File[o]

(* Whatever stream_read() has copied out is the file's, byte for byte, even *)
(* while the reader is filling the slots next to them.                     *)
ReadsAreFileBytes ==
    \A k \in 1 .. Len(player.dst) :
        /\ player.offset + k - 1 \in FileBytes
        /\ player.dst[k] = File[player.offset + k - 1]

(* stream_read() comes back short for three reasons only: the player was   *)
(* stopped, the card failed or its worker took no job, or the file ended   *)
(* inside the read.  A block that lands between the failed read and the    *)
(* look at reader_eof is not lost.                                         *)
ShortReadOnlyAtEnd ==
    player.pc = "returned" /\ player.take < player.size =>
        \/ halt
        \/ card_failed
        \/ produced = base
        \/ player.offset + player.take \notin FileBytes
        \/ player.offset + player.take >= produced /\ produced >= stream_end

(* The descriptor, the window's base and the end of the stream belong to   *)
(* the player only while no fill job is queued or running.                 *)
FileHandover ==
    player.pc \in {"idle", "parse", "start"} => reader.pc = "idle"

(* Every read of the card is a whole block on a block boundary, except the *)
(* last one of the stream (nn20clock_ringbuf.h: "every fill boundary is a  *)
(* block boundary"), and one that finds a file over which is shorter than  *)
(* its header claims.                                                      *)
AlignedFills ==
    reader.pc = "read" => /\ produced % Block = 0 \/ produced \notin FileBytes
                          /\ \/ reader.want = Block
                             \/ produced + reader.want = stream_end

(* A file that is over before its header says: an upload cut short.        *)
CutShort == produced \notin FileBytes /\ produced < stream_end

(* A read that began comes back: the two threads never wait for each other *)
(* in a circle, whatever the room left and however the reads straddle the  *)
(* blocks.  A file cut short is the exception: its last bytes leave the    *)
(* window off a block boundary, and room for a block may never come.       *)
ReadReturns == player.pc = "consume" ~> player.pc = "returned" \/ CutShort

(* Stopping is prompt: a halt ends the playback, wherever the reader is.   *)
HaltEndsPlayback == halt ~> player.pc = "idle" \/ ~halt
=============================================================================
