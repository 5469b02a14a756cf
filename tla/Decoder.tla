------------------------------ MODULE Decoder ------------------------------
(***************************************************************************)
(* The decoder of garuda-codec-core: one packet dispatcher thread, a pool  *)
(* of block decoder threads and one block forwarder thread, joined by      *)
(* bounded mpsc channels,                                                  *)
(*                                                                         *)
(*   input -> dispatcher -> packet_queue[w] -> decoder[w]                  *)
(*                               -> block_queue -> forwarder -> output     *)
(*                                                                         *)
(* and the thread that owns the Decoder.  Threads end, fail and drop their *)
(* channels as in module Encoder.                                          *)
(*                                                                         *)
(* A packet on the wire carries the u8 id of its block and the encoding    *)
(* symbol id (esi); its payload is represented by the block it was made    *)
(* from, which no step of the decoder looks at.  What a block decoder puts *)
(* out is the set of blocks whose symbols went into it: a singleton when   *)
(* the block is the one that was sent.                                     *)
(***************************************************************************)
EXTENDS Packets, FiniteSets

CONSTANTS
  NumBlockDecoders,  \* num_block_decoders, -w on the command line
  QueueCapacity,     \* bound of every sync_channel: 10 in the code
  SourcePackets      \* source symbols of a block: block_size / symbol_size

ASSUME DecoderAssumption ==
  /\ NumBlockDecoders \in Nat \ {0}
  /\ QueueCapacity \in Nat \ {0}
  /\ SourcePackets \in 1 .. PacketsPerBlock

DecoderIds == 0 .. NumBlockDecoders - 1

Esi == 0 .. PacketsPerBlock - 1

WirePacket == [id : BlockId, esi : Esi, block : Nat]

(* Option::None for a block id, and a packet and a block to hold before    *)
(* there is one.                                                           *)
NoId     == BlockIds
NoPacket == [id |-> 0, esi |-> 0, block |-> 0]

VARIABLES
  caller,                    \* the owner of the Decoder
  should_stop,               \* the flag that stop() sets
  dispatcher,                \* the packet dispatcher thread
  dispatching,               \* the packet that the dispatcher is sending
  packet_queue,              \* packet_queue[w]: channel to block decoder w
  decoder,                   \* the block decoder threads
  current_block_id,          \* per block decoder, Some(id) or NoId
  current_decoder,           \* per block decoder, the packets it has kept
  current_block_is_decoded,  \* per block decoder
  decoded_block,             \* per block decoder, the block it is sending
  block_queue,               \* channel from the decoders to the forwarder
  forwarder,                 \* the block forwarder thread
  forwarding,                \* the block that forward_blocks is writing
  output                     \* what has been written to the output stream

dispatcherVars == <<dispatcher, dispatching>>
blockVars      == <<current_block_id, current_decoder,
                    current_block_is_decoded, decoded_block>>
decoderVars    == <<decoder, current_block_id, current_decoder,
                    current_block_is_decoded, decoded_block>>
forwarderVars  == <<forwarder, forwarding, output>>

codecVars == <<caller, should_stop, dispatcher, dispatching, packet_queue,
               decoder, current_block_id, current_decoder,
               current_block_is_decoded, decoded_block, block_queue,
               forwarder, forwarding, output>>

CallerState    == {"new", "started", "waiting", "returned", "start_failed"}
ThreadState(S) == {"none", "done", "failed"} \cup S

Ended(t) == t \in {"done", "failed"}
Alive(t) == t \notin {"none", "done", "failed"}

DecoderTypeOK ==
  /\ caller \in CallerState
  /\ should_stop \in BOOLEAN
  /\ dispatcher \in ThreadState({"reading", "sending"})
  /\ dispatching \in WirePacket
  /\ packet_queue \in [DecoderIds -> Seq(WirePacket)]
  /\ \A w \in DecoderIds : Len(packet_queue[w]) <= QueueCapacity
  /\ decoder \in [DecoderIds -> ThreadState({"receiving", "sending"})]
  /\ current_block_id \in [DecoderIds -> BlockId \cup {NoId}]
  /\ current_decoder \in [DecoderIds -> SUBSET WirePacket]
  /\ current_block_is_decoded \in [DecoderIds -> BOOLEAN]
  /\ decoded_block \in [DecoderIds -> SUBSET Nat]
  /\ block_queue \in Seq(SUBSET Nat)
  /\ Len(block_queue) <= QueueCapacity
  /\ forwarder \in ThreadState({"receiving", "writing"})
  /\ forwarding \in SUBSET Nat
  /\ output \in Seq(SUBSET Nat)

(* Decoder::new. *)
DecoderInit ==
  /\ caller = "new"
  /\ should_stop = FALSE
  /\ dispatcher = "none"
  /\ dispatching = NoPacket
  /\ packet_queue = [w \in DecoderIds |-> << >>]
  /\ decoder = [w \in DecoderIds |-> "none"]
  /\ current_block_id = [w \in DecoderIds |-> NoId]
  /\ current_decoder = [w \in DecoderIds |-> {}]
  /\ current_block_is_decoded = [w \in DecoderIds |-> FALSE]
  /\ decoded_block = [w \in DecoderIds |-> {}]
  /\ block_queue = << >>
  /\ forwarder = "none"
  /\ forwarding = {}
  /\ output = << >>

-----------------------------------------------------------------------------
(* The owner of the Decoder.                                               *)

(* Mutant: the block decoders of the last Decoder live on in the next.     *)
KeepsBlocks == UNCHANGED blockVars

NewBlockDecoders ==
  /\ current_block_id' = [w \in DecoderIds |-> NoId]
  /\ current_decoder' = [w \in DecoderIds |-> {}]
  /\ current_block_is_decoded' = [w \in DecoderIds |-> FALSE]
  /\ decoded_block' = [w \in DecoderIds |-> {}]

(* run_decoder goes on to the next input stream with a new Decoder, which  *)
(* writes to the same output.                                              *)
NextDecoder ==
  /\ caller = "returned"
  /\ caller' = "new"
  /\ should_stop' = FALSE
  /\ dispatcher' = "none"
  /\ dispatching' = NoPacket
  /\ packet_queue' = [w \in DecoderIds |-> << >>]
  /\ decoder' = [w \in DecoderIds |-> "none"]
  /\ NewBlockDecoders
  /\ block_queue' = << >>
  /\ forwarder' = "none"
  /\ forwarding' = {}
  /\ UNCHANGED output

StartDecoding ==
  /\ caller = "new"
  /\ caller' = "started"
  /\ forwarder' = "receiving"
  /\ decoder' = [w \in DecoderIds |-> "receiving"]
  /\ dispatcher' = "reading"
  /\ should_stop' = FALSE
  /\ UNCHANGED <<dispatching, packet_queue, blockVars, block_queue,
                 forwarding, output>>

(* start_decoding returns early and drops its local ends of the channels.  *)
(* BlockDecoder::new refuses the configuration: only the forwarder runs.   *)
ConfigurationRefused ==
  /\ caller = "new"
  /\ caller' = "start_failed"
  /\ forwarder' = "receiving"
  /\ UNCHANGED <<should_stop, dispatcherVars, packet_queue, decoderVars,
                 block_queue, forwarding, output>>

(* infer_packet_size refuses it, which checks more: the block decoders run.*)
PacketSizeUnknown ==
  /\ caller = "new"
  /\ caller' = "start_failed"
  /\ forwarder' = "receiving"
  /\ decoder' = [w \in DecoderIds |-> "receiving"]
  /\ UNCHANGED <<should_stop, dispatcherVars, packet_queue, blockVars,
                 block_queue, forwarding, output>>

StartFails == ConfigurationRefused \/ PacketSizeUnknown

Stop ==
  /\ caller \in {"new", "started"}
  /\ ~should_stop
  /\ should_stop' = TRUE
  /\ UNCHANGED <<caller, dispatcherVars, packet_queue, decoderVars,
                 block_queue, forwarderVars>>

Wait ==
  /\ caller = "started"
  /\ caller' = "waiting"
  /\ UNCHANGED <<should_stop, dispatcherVars, packet_queue, decoderVars,
                 block_queue, forwarderVars>>

WaitReturns ==
  /\ caller = "waiting"
  /\ Ended(dispatcher)
  /\ \A w \in DecoderIds : Ended(decoder[w])
  /\ Ended(forwarder)
  /\ caller' = "returned"
  /\ UNCHANGED <<should_stop, dispatcherVars, packet_queue, decoderVars,
                 block_queue, forwarderVars>>

-----------------------------------------------------------------------------
(* The packet dispatcher thread.                                           *)

(* read_exact fills the buffer with packet p, which is deserialized.       *)
DispatcherRead(p) ==
  /\ dispatcher = "reading"
  /\ dispatching' = p
  /\ dispatcher' = "sending"
  /\ UNCHANGED <<caller, should_stop, packet_queue, decoderVars, block_queue,
                 forwarderVars>>

(* Mutant: the ids are split into ranges instead of residues.              *)
RangeTarget == (dispatching.id * NumBlockDecoders) \div BlockIds

Target == Lane(dispatching.id, NumBlockDecoders)

(* Mutant: the channels have no bound.                                     *)
AlwaysRoom(queue) == TRUE

(* send on a sync_channel goes through.                                    *)
HasRoom(queue) == Len(queue) < QueueCapacity

DispatcherSend ==
  /\ dispatcher = "sending"
  /\ Alive(decoder[Target])
  /\ HasRoom(packet_queue[Target])
  /\ packet_queue' = [packet_queue EXCEPT ![Target] = Append(@, dispatching)]
  /\ dispatcher' = "reading"
  /\ UNCHANGED <<caller, should_stop, dispatching, decoderVars, block_queue,
                 forwarderVars>>

DispatcherSendFails ==
  /\ dispatcher = "sending"
  /\ ~Alive(decoder[Target])
  /\ dispatcher' = "failed"
  /\ UNCHANGED <<caller, should_stop, dispatching, packet_queue, decoderVars,
                 block_queue, forwarderVars>>

DispatcherEnds(state) ==
  /\ dispatcher = "reading"
  /\ dispatcher' = state
  /\ UNCHANGED <<caller, should_stop, dispatching, packet_queue, decoderVars,
                 block_queue, forwarderVars>>

DispatcherEof == DispatcherEnds("done")

(* Mutant: a read that times out is always resumed.                        *)
DispatcherResumes == FALSE /\ DispatcherEnds("done")

DispatcherInterrupted == should_stop /\ DispatcherEnds("done")

DispatcherReadFails == DispatcherEnds("failed")

-----------------------------------------------------------------------------
(* SourceBlockDecoder of the raptorq crate.  It keeps one packet per esi.  *)
(* All the source packets are enough, fewer packets than source packets    *)
(* are not; anything between succeeds with high probability only.          *)

Esis(S)       == {p.esi : p \in S}
SourcesIn(S)  == {p \in S : p.esi < SourcePackets}
Keep(S, p)    == IF p.esi \in Esis(S) THEN S ELSE S \cup {p}
MayDecode(S)  == Cardinality(S) >= SourcePackets
MustDecode(S) == Cardinality(SourcesIn(S)) = SourcePackets

(* The blocks whose symbols the result is computed from. *)
Contents(S) ==
  {p.block : p \in IF MustDecode(S) THEN SourcesIn(S) ELSE S}

-----------------------------------------------------------------------------
(* Block decoder thread w: BlockDecoder::decode_stream.                    *)

(* The packet is of the block that decode considers current.               *)
IsCurrent(w, p) == current_block_id[w] = p.id

(* decode: the current block is already decoded, the packet is ignored.    *)
DecoderIgnores(w) ==
  /\ decoder[w] = "receiving"
  /\ packet_queue[w] # << >>
  /\ IsCurrent(w, Head(packet_queue[w]))
  /\ current_block_is_decoded[w]
  /\ packet_queue' = [packet_queue EXCEPT ![w] = Tail(@)]
  /\ UNCHANGED <<caller, should_stop, dispatcherVars, decoderVars,
                 block_queue, forwarderVars>>

(* Mutant: the packets of the previous block are kept.                     *)
KeptWithoutReset(w, p) == Keep(current_decoder[w], p)

(* The current SourceBlockDecoder, or a new one if the packet carries      *)
(* another id (reset_current_decoder), with packet p.                      *)
KeptFor(w, p) == Keep(IF IsCurrent(w, p) THEN current_decoder[w] ELSE {}, p)

(* Mutants: a decoded block is not marked; a new block inherits the mark   *)
(* of the one before.                                                      *)
NeverMarked(w, decoded) == FALSE
MarkInherited(w, decoded) == decoded \/ current_block_is_decoded[w]

Marked(w, decoded) == decoded

(* decode: try_decode with packet p, which comes out or not.               *)
DecoderTries(w, decoded) ==
  LET p    == Head(packet_queue[w])
      kept == KeptFor(w, p)
  IN
  /\ decoder[w] = "receiving"
  /\ packet_queue[w] # << >>
  /\ ~(IsCurrent(w, p) /\ current_block_is_decoded[w])
  /\ IF decoded THEN MayDecode(kept) ELSE ~MustDecode(kept)
  /\ packet_queue' = [packet_queue EXCEPT ![w] = Tail(@)]
  /\ current_block_id' = [current_block_id EXCEPT ![w] = p.id]
  /\ current_decoder' = [current_decoder EXCEPT ![w] = kept]
  /\ current_block_is_decoded' =
       [current_block_is_decoded EXCEPT ![w] = Marked(w, decoded)]
  /\ IF decoded
       THEN /\ decoded_block' = [decoded_block EXCEPT ![w] = Contents(kept)]
            /\ decoder' = [decoder EXCEPT ![w] = "sending"]
       ELSE UNCHANGED <<decoded_block, decoder>>
  /\ UNCHANGED <<caller, should_stop, dispatcherVars, block_queue,
                 forwarderVars>>

(* Mutant: a block is held back until another packet comes.                *)
HoldsBack(w) ==
  /\ decoder[w] = "sending"
  /\ packet_queue[w] # << >> \/ Ended(dispatcher)

HasBlock(w) == decoder[w] = "sending"

DecoderSend(w) ==
  /\ HasBlock(w)
  /\ Alive(forwarder)
  /\ HasRoom(block_queue)
  /\ block_queue' = Append(block_queue, decoded_block[w])
  /\ decoder' = [decoder EXCEPT ![w] = "receiving"]
  /\ UNCHANGED <<caller, should_stop, dispatcherVars, packet_queue,
                 blockVars, forwarderVars>>

(* The forwarder is gone: decode_stream returns Err and the packets still  *)
(* queued for this thread are dropped with its receiver.                   *)
DecoderSendFails(w) ==
  /\ HasBlock(w)
  /\ ~Alive(forwarder)
  /\ decoder' = [decoder EXCEPT ![w] = "failed"]
  /\ packet_queue' = [packet_queue EXCEPT ![w] = << >>]
  /\ UNCHANGED <<caller, should_stop, dispatcherVars, blockVars,
                 block_queue, forwarderVars>>

PacketQueuesDropped == caller = "start_failed" \/ Ended(dispatcher)

DecoderEnds(w) ==
  /\ decoder[w] = "receiving"
  /\ packet_queue[w] = << >>
  /\ PacketQueuesDropped
  /\ decoder' = [decoder EXCEPT ![w] = "done"]
  /\ UNCHANGED <<caller, should_stop, dispatcherVars, packet_queue,
                 blockVars, block_queue, forwarderVars>>

-----------------------------------------------------------------------------
(* The block forwarder thread: forward_blocks.                             *)

ForwarderReceive ==
  /\ forwarder = "receiving"
  /\ block_queue # << >>
  /\ forwarding' = Head(block_queue)
  /\ block_queue' = Tail(block_queue)
  /\ forwarder' = "writing"
  /\ UNCHANGED <<caller, should_stop, dispatcherVars, packet_queue,
                 decoderVars, output>>

ForwarderWrite ==
  /\ forwarder = "writing"
  /\ output' = Append(output, forwarding)
  /\ forwarder' = "receiving"
  /\ UNCHANGED <<caller, should_stop, dispatcherVars, packet_queue,
                 decoderVars, block_queue, forwarding>>

ForwarderWriteFails ==
  /\ forwarder = "writing"
  /\ forwarder' = "failed"
  /\ block_queue' = << >>
  /\ UNCHANGED <<caller, should_stop, dispatcherVars, packet_queue,
                 decoderVars, forwarding, output>>

(* Mutant: the original sender is kept in the Decoder until wait.          *)
BlockQueueDroppedInWait ==
  /\ caller \notin {"new", "started"}
  /\ \A w \in DecoderIds : ~Alive(decoder[w])

BlockQueueDropped ==
  /\ caller # "new"
  /\ \A w \in DecoderIds : ~Alive(decoder[w])

ForwarderEnds ==
  /\ forwarder = "receiving"
  /\ block_queue = << >>
  /\ BlockQueueDropped
  /\ forwarder' = "done"
  /\ UNCHANGED <<caller, should_stop, dispatcherVars, packet_queue,
                 decoderVars, block_queue, forwarding, output>>

-----------------------------------------------------------------------------
DispatcherSteps == DispatcherSend \/ DispatcherSendFails
DecoderSteps(w) == \/ DecoderIgnores(w)
                   \/ \E decoded \in BOOLEAN : DecoderTries(w, decoded)
                   \/ DecoderSend(w) \/ DecoderSendFails(w) \/ DecoderEnds(w)
ForwarderSteps  == \/ ForwarderReceive \/ ForwarderWrite
                   \/ ForwarderWriteFails \/ ForwarderEnds

NoThreadRuns ==
  /\ ~Alive(dispatcher)
  /\ \A w \in DecoderIds : ~Alive(decoder[w])
  /\ ~Alive(forwarder)

(* Every step of a decoder but the arrival of a packet.                    *)
DecoderNext ==
  \/ StartDecoding \/ StartFails \/ Stop \/ Wait \/ WaitReturns
  \/ DispatcherEof \/ DispatcherInterrupted \/ DispatcherReadFails
  \/ DispatcherSteps
  \/ \E w \in DecoderIds : DecoderSteps(w)
  \/ ForwarderSteps
=============================================================================
