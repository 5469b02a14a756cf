------------------------------- MODULE Codec -------------------------------
(***************************************************************************)
(* An encoder and a decoder joined by a link that keeps the order of the   *)
(* packets and may lose any of them, as the README of the codec requires   *)
(* of the network.                                                         *)
(*                                                                         *)
(* The encoder side is the abstract PacketStream, which module Encoder     *)
(* implements; the decoder side is the Decoder, thread by thread.  A       *)
(* packet that is not lost is put on the link and read by the dispatcher   *)
(* in one step: nothing on the encoder side depends on the decoder, so the *)
(* steps of the stream can be taken to happen when their packets arrive.   *)
(***************************************************************************)
EXTENDS PacketStream, Decoder

CONSTANTS
  EsiOrder,    \* EsiOrder[i] is the esi of the i-th packet of a block
  MaxDecoders  \* bound on the input streams that run_decoder goes through

(* vector::interleave yields every packet of the block exactly once.       *)
ASSUME EsiOrderAssumption ==
  /\ EsiOrder \in [1 .. PacketsPerBlock -> Esi]
  /\ \A i, j \in 1 .. PacketsPerBlock : EsiOrder[i] = EsiOrder[j] => i = j
  /\ MaxDecoders \in Nat

VARIABLES
  arrived,   \* packets that the dispatcher of the running decoder has read
  starts     \* starts[k]: blocks written when the k-th decoder was created

linkVars == <<arrived, starts>>
vars == <<streamVars, codecVars, linkVars>>

Wire(p) == [id |-> blocks[p.block], esi |-> EsiOrder[p.idx], block |-> p.block]

TypeOK ==
  /\ blocks \in Seq(BlockId)
  /\ sessions \in 1 .. MaxSessions
  /\ encoders \in Seq(1 .. sessions)
  /\ Len(encoders) = Len(blocks)
  /\ emitted \subseteq PacketsOf(1 .. Len(blocks))
  /\ arrived \subseteq emitted
  /\ starts \in Seq(0 .. Len(output))
  /\ DecoderTypeOK

Init == StreamInit /\ DecoderInit /\ arrived = {} /\ starts = <<0>>

Stream ==
  /\ \/ \E id \in BlockId : ReadBlock(id)
     \/ NextConnection
  /\ UNCHANGED <<codecVars, linkVars>>

Lose(p) ==
  /\ Emit(p)
  /\ UNCHANGED <<codecVars, linkVars>>

Arrive(p) ==
  /\ Emit(p)
  /\ DispatcherRead(Wire(p))
  /\ arrived' = arrived \cup {p}
  /\ UNCHANGED starts

Decode == DecoderNext /\ UNCHANGED <<streamVars, linkVars>>

(* The input of a decoder has ended or failed, as a raw socket does when   *)
(* its interface goes down, and run_decoder takes the next one.  Packets   *)
(* that are emitted in between are lost.                                   *)
Restart ==
  /\ Len(starts) < MaxDecoders
  /\ NextDecoder
  /\ arrived' = {}
  /\ starts' = Append(starts, Len(output))
  /\ UNCHANGED streamVars

(* No more input for the decoder; the stream may be over.                  *)
Terminated ==
  /\ caller \in {"returned", "start_failed"}
  /\ NoThreadRuns
  /\ UNCHANGED vars

Next ==
  \/ Stream
  \/ \E p \in PacketsOf(OpenBlocks) : Lose(p) \/ Arrive(p)
  \/ Decode
  \/ Restart
  \/ Terminated

Spec == Init /\ [][Next]_vars

(* As for the encoder: threads are scheduled, writes return, reads time    *)
(* out.  Nothing obliges the stream to go on or a packet to arrive.        *)
Fairness ==
  /\ WF_vars(DispatcherSteps /\ UNCHANGED <<streamVars, linkVars>>)
  /\ WF_vars(DispatcherInterrupted /\ UNCHANGED <<streamVars, linkVars>>)
  /\ \A w \in DecoderIds :
       WF_vars(DecoderSteps(w) /\ UNCHANGED <<streamVars, linkVars>>)
  /\ WF_vars(ForwarderSteps /\ UNCHANGED <<streamVars, linkVars>>)
  /\ WF_vars(WaitReturns /\ UNCHANGED <<streamVars, linkVars>>)

FairSpec == Spec /\ Fairness

-----------------------------------------------------------------------------
(* When block ids are mistaken for one another.                            *)

Block == 1 .. Len(blocks)

(* The blocks of the lane of a and b that lie between them.                *)
LaneBetween(a, b) == {c \in a + 1 .. b - 1 : LaneOf(c) = LaneOf(a)}

(* The only excuse for taking block b for the earlier block a: they have   *)
(* the same id, and either they come from two encoders or a block of their *)
(* lane with another id lies between; a packet of a has arrived at this    *)
(* decoder and, of the blocks between, none that has another id.           *)
Aliased(a, b) ==
  /\ a < b
  /\ blocks[a] = blocks[b]
  /\ encoders[a] = encoders[b] =>
       \E c \in LaneBetween(a, b) : blocks[c] # blocks[a]
  /\ \E p \in arrived : p.block = a
  /\ \A p \in arrived :
       p.block \in LaneBetween(a, b) => blocks[p.block] = blocks[a]

-----------------------------------------------------------------------------
(* Safety.                                                                 *)

(* "The packet received belongs to the current block": what decode has     *)
(* kept under the id of the packet it looks at comes from the same block,  *)
(* however packets are lost, lanes interleaved and decoders replaced,      *)
(* unless the ids are aliased.                                             *)
CurrentBlockIsRight ==
  \A w \in DecoderIds :
    LET p == Head(packet_queue[w]) IN
      packet_queue[w] # << >> /\ IsCurrent(w, p) =>
        \A q \in current_decoder[w] : q.block = p.block \/ Aliased(q.block, p.block)

(* A block that the decoder puts out is the one that was sent, unless ids  *)
(* were aliased while it was being decoded.                                *)
BlocksAreIntact ==
  \A i \in starts[Len(starts)] + 1 .. Len(output) :
    \A a, b \in output[i] : a < b => Aliased(a, b)

(* The decoder that wrote the i-th block of the output.                    *)
WrittenBy(i) == CHOOSE k \in 1 .. Len(starts) :
                  /\ starts[k] < i
                  /\ k < Len(starts) => i <= starts[k + 1]

(* Blocks of one lane are written in the order in which they were read.    *)
(* No decoder writes a block twice; the next one writes it again if enough *)
(* of its packets are still to come.                                       *)
LaneOutputOrder ==
  \A i, j \in 1 .. Len(output) : i < j =>
    \A a \in output[i], b \in output[j] :
      LaneOf(a) = LaneOf(b) =>
        a < b \/ (a = b /\ WrittenBy(i) < WrittenBy(j))

SourcesArrived(b) ==
  \A i \in 1 .. PacketsPerBlock :
    EsiOrder[i] < SourcePackets => Packet(b, i) \in arrived

Excused(b) == b \in Block /\ \E a \in Block : Aliased(a, b)

(* When the forwarder has ended without an error, every block whose source *)
(* packets all arrived at its decoder has been written, however the        *)
(* dispatcher ended and whatever decoders came before.                     *)
ReceivedBlocksWritten ==
  forwarder = "done" =>
    \A b \in Block : SourcesArrived(b) /\ ~Excused(b) =>
      \E i \in 1 .. Len(output) : output[i] = {b}

(* Threads of the decoder that wait for one another: a send to a full      *)
(* channel, a receive from an empty one that still has a sender, a join.   *)
DispatcherWaits ==
  dispatcher = "sending" => Alive(decoder[Target]) /\ ~HasRoom(packet_queue[Target])

DecoderWaits(w) ==
  /\ decoder[w] = "receiving" => packet_queue[w] = << >> /\ ~PacketQueuesDropped
  /\ HasBlock(w) => Alive(forwarder) /\ ~HasRoom(block_queue)

ForwarderWaits ==
  /\ forwarder # "writing"
  /\ forwarder = "receiving" => block_queue = << >> /\ ~BlockQueueDropped

Joined == Ended(dispatcher) /\ Ended(forwarder) /\ \A w \in DecoderIds : Ended(decoder[w])

Idle ==
  /\ DispatcherWaits /\ ForwarderWaits
  /\ \A w \in DecoderIds : DecoderWaits(w)
  /\ caller = "waiting" => ~Joined

(* The threads never wait for one another in a circle, and none sits on a  *)
(* block: when no thread can go on, either all have ended and nobody waits *)
(* for them, or the dispatcher waits for a packet and every block whose    *)
(* source packets all arrived has been written, unless a write has failed. *)
WaitsOnlyForPackets ==
  Idle =>
    \/ NoThreadRuns /\ caller # "waiting"
    \/ /\ dispatcher = "reading"
       /\ Alive(forwarder) =>
            \A b \in Block : SourcesArrived(b) /\ ~Excused(b) =>
              \E i \in 1 .. Len(output) : output[i] = {b}

-----------------------------------------------------------------------------
(* The promise to the users of the codec.                                  *)

(* The block that was put out; one that is not intact is none of those     *)
(* that went in.                                                           *)
Intact(S) == IF \E b \in Block : S = {b} THEN CHOOSE b \in Block : S = {b} ELSE 0

Transfer == INSTANCE BlockTransfer WITH
  Lanes     <- DecoderIds,
  lanes     <- [b \in Block |-> LaneOf(b)],
  delivered <- [i \in 1 .. Len(output) |->
                  [block |-> Intact(output[i]), decoder |-> WrittenBy(i)]],
  decoders  <- Len(starts)

(* Encoder, link and decoders implement BlockTransfer, as long as no ids   *)
(* are aliased (here: fewer blocks than ids, one encoder).                 *)
TransferSpec == Transfer!TransferSpec

-----------------------------------------------------------------------------
(* Liveness.                                                               *)

(* A block whose source packets all arrived is handed to the output stream *)
(* without waiting for the end of the input, or else an output error has   *)
(* ended the forwarder.  forward_blocks flushes nothing: when the standard *)
(* output passes on what it buffers is not part of the model.              *)
WrittenPromptly ==
  \A b \in 1 .. MaxBlocks :
    b \in Block /\ SourcesArrived(b) ~>
      \/ \E i \in 1 .. Len(output) : b \in output[i]
      \/ Excused(b)
      \/ forwarder = "failed"

(* The end of the input, stop or an error ends every thread.               *)
EndDrains == PacketQueuesDropped ~> NoThreadRuns

(* After stop, wait returns, provided that the reads of the input time out.*)
StopThenWaitReturns ==
  should_stop /\ caller = "waiting" ~> caller = "returned"

-----------------------------------------------------------------------------
(* "The block has already been decoded, ignore the packet": a packet that  *)
(* decode ignores is of a block it has put out, at least while nothing is  *)
(* lost.                                                                   *)
IgnoredBlockWasDecoded ==
  \A w \in DecoderIds :
    LET p == Head(packet_queue[w]) IN
      /\ emitted = arrived
      /\ packet_queue[w] # << >>
      /\ IsCurrent(w, p)
      /\ current_block_is_decoded[w]
      => p.block \in decoded_block[w]
=============================================================================
