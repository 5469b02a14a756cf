------------------------------ MODULE Encoder ------------------------------
(***************************************************************************)
(* The encoder of garuda-codec-core: one block dispatcher thread, a pool   *)
(* of block encoder threads and one packet forwarder thread, joined by     *)
(* bounded mpsc channels,                                                  *)
(*                                                                         *)
(*   input -> dispatcher -> block_queue[w] -> encoder[w]                   *)
(*                               -> packet_queue -> forwarder -> output    *)
(*                                                                         *)
(* and the thread that owns the Encoder and calls start_encoding, stop and *)
(* wait on it.  Those take &mut self, so one thread makes all three calls. *)
(*                                                                         *)
(* A thread that ends drops its ends of its channels.  A send to a channel *)
(* whose receiver is gone fails; a receive from an empty channel whose     *)
(* senders are all gone ends the receiving loop.  "done" is the state of a *)
(* thread whose function returned Ok, "failed" of one that returned Err:   *)
(* the code logs the error and nobody else learns of it.                   *)
(***************************************************************************)
EXTENDS Packets

CONSTANTS
  NumBlockEncoders,  \* num_block_encoders, -w on the command line
  QueueCapacity,     \* bound of every sync_channel: 10 in the code
  MaxBlocks          \* bound on the blocks the input stream holds

ASSUME EncoderAssumption ==
  /\ NumBlockEncoders \in Nat \ {0}
  /\ QueueCapacity \in Nat \ {0}
  /\ MaxBlocks \in Nat

Workers == 0 .. NumBlockEncoders - 1

VARIABLES
  caller,            \* the owner of the Encoder
  should_stop,       \* the flag that stop() sets and read_exact polls
  dispatcher,        \* the block dispatcher thread
  current_block_id,  \* id of the block being read or sent
  blocks,            \* blocks[b] is the id given to the b-th block read
  block_queue,       \* block_queue[w]: channel from dispatcher to encoder w
  encoder,           \* the block encoder threads
  next_packet,       \* next_packet[w]: what encode's iterator yields next
  packet_queue,      \* channel from the encoders to the forwarder
  forwarder,         \* the packet forwarder thread
  forwarding,        \* the packet that forward_packets is writing
  output             \* what has been written to the output stream

vars == <<caller, should_stop, dispatcher, current_block_id, blocks,
          block_queue, encoder, next_packet, packet_queue, forwarder,
          forwarding, output>>

dispatcherVars == <<dispatcher, current_block_id, blocks>>
encoderVars    == <<encoder, next_packet>>
forwarderVars  == <<forwarder, forwarding, output>>

CallerState    == {"new", "started", "waiting", "returned", "start_failed"}
ThreadState(S) == {"none", "done", "failed"} \cup S

Block == 1 .. Len(blocks)

Ended(t) == t \in {"done", "failed"}
Alive(t) == t \notin {"none", "done", "failed"}

TypeOK ==
  /\ caller \in CallerState
  /\ should_stop \in BOOLEAN
  /\ dispatcher \in ThreadState({"reading", "sending"})
  /\ current_block_id \in BlockId
  /\ blocks \in Seq(BlockId)
  /\ Len(blocks) <= MaxBlocks
  /\ block_queue \in [Workers -> Seq(Block)]
  /\ \A w \in Workers : Len(block_queue[w]) <= QueueCapacity
  /\ encoder \in [Workers -> ThreadState({"receiving", "sending"})]
  /\ next_packet \in [Workers -> PacketsOf(Nat)]
  /\ \A w \in Workers : encoder[w] = "sending" => next_packet[w].block \in Block
  /\ packet_queue \in Seq(PacketsOf(Block))
  /\ Len(packet_queue) <= QueueCapacity
  /\ forwarder \in ThreadState({"receiving", "writing"})
  /\ forwarding \in PacketsOf(Nat)
  /\ forwarder = "writing" => forwarding.block \in Block
  /\ output \in Seq(PacketsOf(Block))

(* Encoder::new.  No thread exists; the flag belongs to nobody yet.        *)
Init ==
  /\ caller = "new"
  /\ should_stop = FALSE
  /\ dispatcher = "none"
  /\ current_block_id = 0
  /\ blocks = << >>
  /\ block_queue = [w \in Workers |-> << >>]
  /\ encoder = [w \in Workers |-> "none"]
  /\ next_packet = [w \in Workers |-> Packet(0, 1)]
  /\ packet_queue = << >>
  /\ forwarder = "none"
  /\ forwarding = Packet(0, 1)
  /\ output = << >>

-----------------------------------------------------------------------------
(* The owner of the Encoder.                                               *)

(* start_encoding spawns every thread; the dispatcher brings a new stop    *)
(* flag, so that a stop() made before the start is forgotten, and a random *)
(* first block id.                                                         *)
StartEncoding ==
  /\ caller = "new"
  /\ caller' = "started"
  /\ forwarder' = "receiving"
  /\ encoder' = [w \in Workers |-> "receiving"]
  /\ dispatcher' = "reading"
  /\ should_stop' = FALSE
  /\ current_block_id' \in BlockId
  /\ UNCHANGED <<blocks, block_queue, next_packet, packet_queue, forwarding,
                 output>>

(* start_encoding returns early and drops its local ends of the channels.  *)
(* BlockEncoder::new refuses the configuration: only the forwarder runs.   *)
ConfigurationRefused ==
  /\ caller = "new"
  /\ caller' = "start_failed"
  /\ forwarder' = "receiving"
  /\ UNCHANGED <<should_stop, dispatcherVars, block_queue, encoderVars,
                 packet_queue, forwarding, output>>

(* BlockDispatcher::new cannot draw its random id: the block encoders run. *)
NoRandomId ==
  /\ caller = "new"
  /\ caller' = "start_failed"
  /\ forwarder' = "receiving"
  /\ encoder' = [w \in Workers |-> "receiving"]
  /\ UNCHANGED <<should_stop, dispatcherVars, block_queue, next_packet,
                 packet_queue, forwarding, output>>

StartFails == ConfigurationRefused \/ NoRandomId

Stop ==
  /\ caller \in {"new", "started"}
  /\ ~should_stop
  /\ should_stop' = TRUE
  /\ UNCHANGED <<caller, dispatcherVars, block_queue, encoderVars,
                 packet_queue, forwarderVars>>

Wait ==
  /\ caller = "started"
  /\ caller' = "waiting"
  /\ UNCHANGED <<should_stop, dispatcherVars, block_queue, encoderVars,
                 packet_queue, forwarderVars>>

(* The three joins have succeeded: wait returns Ok, whatever the threads   *)
(* returned.                                                               *)
WaitReturns ==
  /\ caller = "waiting"
  /\ Ended(dispatcher)
  /\ \A w \in Workers : Ended(encoder[w])
  /\ Ended(forwarder)
  /\ caller' = "returned"
  /\ UNCHANGED <<should_stop, dispatcherVars, block_queue, encoderVars,
                 packet_queue, forwarderVars>>

-----------------------------------------------------------------------------
(* The block dispatcher thread.                                            *)

(* Mutant: blocks are dealt out in turn instead of by their ids.           *)
RoundRobinTarget == Len(blocks) % NumBlockEncoders

Target == Lane(current_block_id, NumBlockEncoders)

(* read_exact fills the buffer with the next block.                        *)
DispatcherRead ==
  /\ dispatcher = "reading"
  /\ Len(blocks) < MaxBlocks
  /\ blocks' = Append(blocks, current_block_id)
  /\ dispatcher' = "sending"
  /\ UNCHANGED <<caller, should_stop, current_block_id, block_queue,
                 encoderVars, packet_queue, forwarderVars>>

(* Mutant: the channel has no bound.                                       *)
DispatcherSendUnbounded ==
  /\ dispatcher = "sending"
  /\ Alive(encoder[Target])
  /\ block_queue' = [block_queue EXCEPT ![Target] = Append(@, Len(blocks))]
  /\ current_block_id' = NextId(current_block_id)
  /\ dispatcher' = "reading"
  /\ UNCHANGED <<caller, should_stop, blocks, encoderVars, packet_queue,
                 forwarderVars>>

(* Mutant: the id is not incremented.                                      *)
DispatcherSendKeepsId ==
  /\ dispatcher = "sending"
  /\ Alive(encoder[Target])
  /\ Len(block_queue[Target]) < QueueCapacity
  /\ block_queue' = [block_queue EXCEPT ![Target] = Append(@, Len(blocks))]
  /\ dispatcher' = "reading"
  /\ UNCHANGED <<caller, should_stop, current_block_id, blocks, encoderVars,
                 packet_queue, forwarderVars>>

DispatcherSend ==
  /\ dispatcher = "sending"
  /\ Alive(encoder[Target])
  /\ Len(block_queue[Target]) < QueueCapacity
  /\ block_queue' = [block_queue EXCEPT ![Target] = Append(@, Len(blocks))]
  /\ current_block_id' = NextId(current_block_id)
  /\ dispatcher' = "reading"
  /\ UNCHANGED <<caller, should_stop, blocks, encoderVars, packet_queue,
                 forwarderVars>>

(* The block encoder is gone: the block in hand is lost.                   *)
DispatcherSendFails ==
  /\ dispatcher = "sending"
  /\ ~Alive(encoder[Target])
  /\ dispatcher' = "failed"
  /\ UNCHANGED <<caller, should_stop, current_block_id, blocks, block_queue,
                 encoderVars, packet_queue, forwarderVars>>

DispatcherEnds(state) ==
  /\ dispatcher = "reading"
  /\ dispatcher' = state
  /\ UNCHANGED <<caller, should_stop, current_block_id, blocks, block_queue,
                 encoderVars, packet_queue, forwarderVars>>

(* UnexpectedEof: the stream ended, possibly inside a block.               *)
DispatcherEof == DispatcherEnds("done")

(* Mutant: a read that times out is always resumed.                        *)
DispatcherResumes == FALSE /\ DispatcherEnds("done")

(* A read timed out or was interrupted, and read_exact saw the flag.       *)
DispatcherInterrupted == should_stop /\ DispatcherEnds("done")

DispatcherReadFails == DispatcherEnds("failed")

-----------------------------------------------------------------------------
(* Block encoder thread w: BlockEncoder::encode_stream.                    *)

EncoderReceive(w) ==
  /\ encoder[w] = "receiving"
  /\ block_queue[w] # << >>
  /\ next_packet' = [next_packet EXCEPT ![w] = Packet(Head(block_queue[w]), 1)]
  /\ block_queue' = [block_queue EXCEPT ![w] = Tail(@)]
  /\ encoder' = [encoder EXCEPT ![w] = "sending"]
  /\ UNCHANGED <<caller, should_stop, dispatcherVars, packet_queue,
                 forwarderVars>>

EncoderSend(w) ==
  /\ encoder[w] = "sending"
  /\ Alive(forwarder)
  /\ Len(packet_queue) < QueueCapacity
  /\ packet_queue' = Append(packet_queue, next_packet[w])
  /\ \/ /\ next_packet[w].idx < PacketsPerBlock
        /\ next_packet' =
             [next_packet EXCEPT ![w] = Packet(@.block, @.idx + 1)]
        /\ UNCHANGED encoder
     \/ /\ next_packet[w].idx = PacketsPerBlock
        /\ encoder' = [encoder EXCEPT ![w] = "receiving"]
        /\ UNCHANGED next_packet
  /\ UNCHANGED <<caller, should_stop, dispatcherVars, block_queue,
                 forwarderVars>>

(* Mutant: the error of send is ignored and the next block is encoded.     *)
EncoderSendIgnored(w) ==
  /\ encoder[w] = "sending"
  /\ ~Alive(forwarder)
  /\ encoder' = [encoder EXCEPT ![w] = "receiving"]
  /\ UNCHANGED <<caller, should_stop, dispatcherVars, block_queue, next_packet,
                 packet_queue, forwarderVars>>

(* The forwarder is gone: encode_stream returns Err and the blocks still   *)
(* queued for this thread are dropped with its receiver.                   *)
EncoderSendFails(w) ==
  /\ encoder[w] = "sending"
  /\ ~Alive(forwarder)
  /\ encoder' = [encoder EXCEPT ![w] = "failed"]
  /\ block_queue' = [block_queue EXCEPT ![w] = << >>]
  /\ UNCHANGED <<caller, should_stop, dispatcherVars, next_packet,
                 packet_queue, forwarderVars>>

(* Mutant: the loop ends when the channel is empty, try_iter for iter.     *)
BlockQueuesPolled == caller # "new"

BlockQueuesDropped == caller = "start_failed" \/ Ended(dispatcher)

EncoderEnds(w) ==
  /\ encoder[w] = "receiving"
  /\ block_queue[w] = << >>
  /\ BlockQueuesDropped
  /\ encoder' = [encoder EXCEPT ![w] = "done"]
  /\ UNCHANGED <<caller, should_stop, dispatcherVars, block_queue,
                 next_packet, packet_queue, forwarderVars>>

-----------------------------------------------------------------------------
(* The packet forwarder thread: forward_packets.                           *)

ForwarderReceive ==
  /\ forwarder = "receiving"
  /\ packet_queue # << >>
  /\ forwarding' = Head(packet_queue)
  /\ packet_queue' = Tail(packet_queue)
  /\ forwarder' = "writing"
  /\ UNCHANGED <<caller, should_stop, dispatcherVars, block_queue,
                 encoderVars, output>>

ForwarderWrite ==
  /\ forwarder = "writing"
  /\ output' = Append(output, forwarding)
  /\ forwarder' = "receiving"
  /\ UNCHANGED <<caller, should_stop, dispatcherVars, block_queue,
                 encoderVars, packet_queue, forwarding>>

(* write_all fails: the packets still queued are dropped with the receiver.*)
ForwarderWriteFails ==
  /\ forwarder = "writing"
  /\ forwarder' = "failed"
  /\ packet_queue' = << >>
  /\ UNCHANGED <<caller, should_stop, dispatcherVars, block_queue,
                 encoderVars, forwarding, output>>

(* Mutant: the first block encoder to end closes the packet queue.         *)
PacketQueueDroppedByFirst ==
  /\ caller # "new"
  /\ \E w \in Workers : ~Alive(encoder[w])

(* Mutant: the original sender is kept in the Encoder until wait.          *)
PacketQueueDroppedInWait ==
  /\ caller \notin {"new", "started"}
  /\ \A w \in Workers : ~Alive(encoder[w])

(* Every packet_queue_tx is gone: the encoders' clones, and the original   *)
(* that start_encoding drops when it returns.                              *)
PacketQueueDropped ==
  /\ caller # "new"
  /\ \A w \in Workers : ~Alive(encoder[w])

ForwarderEnds ==
  /\ forwarder = "receiving"
  /\ packet_queue = << >>
  /\ PacketQueueDropped
  /\ forwarder' = "done"
  /\ UNCHANGED <<caller, should_stop, dispatcherVars, block_queue,
                 encoderVars, packet_queue, forwarding, output>>

-----------------------------------------------------------------------------
DispatcherSteps  == DispatcherSend \/ DispatcherSendFails
EncoderSteps(w)  == \/ EncoderReceive(w) \/ EncoderSend(w)
                    \/ EncoderSendFails(w) \/ EncoderEnds(w)
ForwarderSteps   == \/ ForwarderReceive \/ ForwarderWrite
                    \/ ForwarderWriteFails \/ ForwarderEnds

NoThreadRuns ==
  /\ ~Alive(dispatcher)
  /\ \A w \in Workers : ~Alive(encoder[w])
  /\ ~Alive(forwarder)

(* The program has nothing left to do: the only state it may stop in.      *)
Terminated ==
  /\ caller \in {"returned", "start_failed"}
  /\ NoThreadRuns
  /\ UNCHANGED vars

Next ==
  \/ StartEncoding \/ StartFails \/ Stop \/ Wait \/ WaitReturns
  \/ DispatcherRead \/ DispatcherEof \/ DispatcherInterrupted
  \/ DispatcherReadFails \/ DispatcherSteps
  \/ \E w \in Workers : EncoderSteps(w)
  \/ ForwarderSteps
  \/ Terminated

Spec == Init /\ [][Next]_vars

(* A runnable thread is scheduled, a write returns, and a read of a stream *)
(* with a receive timeout keeps timing out while it has nothing to return. *)
Fairness ==
  /\ WF_vars(DispatcherSteps)
  /\ WF_vars(DispatcherInterrupted)
  /\ \A w \in Workers : WF_vars(EncoderSteps(w))
  /\ WF_vars(ForwarderSteps)
  /\ WF_vars(WaitReturns)

FairSpec == Spec /\ Fairness

-----------------------------------------------------------------------------
(* Safety.                                                                 *)

LaneOfPacket(p) == Lane(blocks[p.block], NumBlockEncoders)

(* Packets of one lane reach the output stream in the order of their       *)
(* blocks and, inside a block, in the order encode yields them, and none   *)
(* is written twice: the threads of the pool never mix up a lane.  The     *)
(* decoder depends on it, since BlockDecoder::decode abandons a block as   *)
(* soon as it sees a packet of another one.                                *)
LaneOrder ==
  \A i, j \in 1 .. Len(output) :
    i < j /\ LaneOfPacket(output[i]) = LaneOfPacket(output[j])
      => Precedes(output[i], output[j])

(* When the forwarder has ended without an error, everything was written:  *)
(* every packet of every block that the dispatcher read from the input,    *)
(* however the dispatcher ended.  A graceful stop loses nothing.           *)
NothingLostWithoutError ==
  forwarder = "done" =>
    \A p \in PacketsOf(Block) : \E i \in 1 .. Len(output) : output[i] = p

(* An error of the output is the only thing that makes a block encoder or  *)
(* a dispatcher that was sending fail: no thread loses its peer in normal  *)
(* operation.                                                              *)
FailuresComeFromOutput ==
  /\ (\E w \in Workers : encoder[w] = "failed") => forwarder = "failed"
  /\ dispatcher = "sending" /\ ~Alive(encoder[Target]) => forwarder = "failed"

(* Threads that wait for one another: a send to a full channel, a receive  *)
(* from an empty one that still has a sender, a join.                      *)
DispatcherWaits ==
  dispatcher = "sending" =>
    Alive(encoder[Target]) /\ Len(block_queue[Target]) >= QueueCapacity

EncoderWaits(w) ==
  /\ encoder[w] = "receiving" => block_queue[w] = << >> /\ ~BlockQueuesDropped
  /\ encoder[w] = "sending" => Alive(forwarder) /\ Len(packet_queue) >= QueueCapacity

ForwarderWaits ==
  /\ forwarder # "writing"
  /\ forwarder = "receiving" => packet_queue = << >> /\ ~PacketQueueDropped

Joined == Ended(dispatcher) /\ Ended(forwarder) /\ \A w \in Workers : Ended(encoder[w])

Idle ==
  /\ DispatcherWaits /\ ForwarderWaits
  /\ \A w \in Workers : EncoderWaits(w)
  /\ caller = "waiting" => ~Joined

(* The threads never wait for one another in a circle, and none sits on    *)
(* data: when no thread can go on, either all have ended and nobody waits  *)
(* for them, or the dispatcher waits for input and every packet of what it *)
(* has read is out, unless a write has failed.                             *)
WaitsOnlyForInput ==
  Idle =>
    \/ NoThreadRuns /\ caller # "waiting"
    \/ /\ dispatcher = "reading"
       /\ Alive(forwarder) =>
            \A p \in PacketsOf(Block) : \E i \in 1 .. Len(output) : output[i] = p

-----------------------------------------------------------------------------
(* Liveness.                                                               *)

(* Once the dispatcher has ended (end of input, stop, or an error) or the  *)
(* start has failed, every thread ends: no channel stays open for ever.    *)
EndDrains == BlockQueuesDropped ~> NoThreadRuns

(* There is a block for thread w, in its hands, in its queue or in those   *)
(* of the dispatcher.                                                      *)
HasWork(w) ==
  \/ encoder[w] = "sending"
  \/ block_queue[w] # << >>
  \/ dispatcher = "sending" /\ Target = w

(* A write error travels up the channels: every block encoder that has a   *)
(* block, or is about to be given one, ends, and the next block for it     *)
(* ends the dispatcher, so that the input is not read for nothing.         *)
OutputErrorSpreads ==
  \A w \in Workers :
    /\ forwarder = "failed" /\ HasWork(w) ~> Ended(encoder[w])
    /\ encoder[w] = "failed" /\ HasWork(w) ~> Ended(dispatcher)

(* After stop, wait returns, provided that the reads of the input stream   *)
(* time out.                                                               *)
StopThenWaitReturns ==
  should_stop /\ caller = "waiting" ~> caller = "returned"

-----------------------------------------------------------------------------
(* The encoder implements the packet stream that the decoder relies on.    *)
Stream == INSTANCE PacketStream WITH
  NumLanes    <- NumBlockEncoders,
  MaxSessions <- 1,
  encoders    <- [b \in Block |-> 1],
  emitted     <- {output[i] : i \in 1 .. Len(output)},
  sessions    <- 1

StreamSpec == Stream!StreamSpec
=============================================================================
