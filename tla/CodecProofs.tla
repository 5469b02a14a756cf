---------------------------- MODULE CodecProofs ----------------------------
(***************************************************************************)
(* Safety of the encoder, the link and the decoder together, for any       *)
(* number of workers, ids, packets and blocks, any capacity of the         *)
(* channels, any losses and any number of encoders and decoders.           *)
(***************************************************************************)
EXTENDS Codec, SequenceTheorems, FiniteSetTheorems, TLAPS

USE PacketsAssumption, PacketStreamAssumption, DecoderAssumption,
    EsiOrderAssumption

(* Facts about the helpers.                                                *)

LEMMA NextIdType == ASSUME NEW id \in BlockId PROVE NextId(id) \in BlockId
  BY DEF BlockId, NextId

LEMMA LaneType ==
  ASSUME NEW id \in BlockId PROVE Lane(id, NumBlockDecoders) \in DecoderIds
  BY DEF BlockId, Lane, DecoderIds

LEMMA PacketFields ==
  ASSUME NEW n \in Nat, NEW p \in PacketsOf(1 .. n)
  PROVE  /\ p.block \in 1 .. n
         /\ p.idx \in 1 .. PacketsPerBlock
  BY DEF PacketsOf

LEMMA WireType ==
  ASSUME blocks \in Seq(BlockId), NEW p \in PacketsOf(1 .. Len(blocks))
  PROVE  Wire(p) \in WirePacket
<1>1. /\ p.block \in 1 .. Len(blocks)
      /\ p.idx \in 1 .. PacketsPerBlock
  BY PacketFields
<1>2. blocks[p.block] \in BlockId /\ EsiOrder[p.idx] \in Esi /\ p.block \in Nat
  BY <1>1
<1> QED
  BY <1>2 DEF Wire, WirePacket

LEMMA KeepType ==
  ASSUME NEW S \in SUBSET WirePacket, NEW p \in WirePacket
  PROVE  Keep(S, p) \in SUBSET WirePacket
  BY DEF Keep

LEMMA ContentsType ==
  ASSUME NEW S \in SUBSET WirePacket
  PROVE  /\ Contents(S) \in SUBSET Nat
         /\ Contents(S) \subseteq {p.block : p \in S}
  BY DEF Contents, SourcesIn, WirePacket

-----------------------------------------------------------------------------
(* Every variable keeps its type, through every step.                      *)

LEMMA InitTypeOK == Init => TypeOK
<1> SUFFICES ASSUME Init PROVE TypeOK
  OBVIOUS
<1> USE DEF Init, StreamInit, DecoderInit
<1>1. /\ blocks \in Seq(BlockId) /\ sessions \in 1 .. MaxSessions
      /\ encoders \in Seq(1 .. sessions) /\ Len(encoders) = Len(blocks)
      /\ emitted \subseteq PacketsOf(1 .. Len(blocks)) /\ arrived \subseteq emitted
      /\ starts \in Seq(0 .. Len(output))
  OBVIOUS
<1>2. /\ caller \in CallerState /\ should_stop \in BOOLEAN
      /\ dispatcher \in ThreadState({"reading", "sending"})
      /\ decoder \in [DecoderIds -> ThreadState({"receiving", "sending"})]
      /\ forwarder \in ThreadState({"receiving", "writing"})
  BY DEF CallerState, ThreadState
<1>3. dispatching \in WirePacket
  BY DEF NoPacket, WirePacket, BlockId, Esi
<1>4. /\ packet_queue \in [DecoderIds -> Seq(WirePacket)]
      /\ \A w \in DecoderIds : Len(packet_queue[w]) <= QueueCapacity
      /\ block_queue \in Seq(SUBSET Nat) /\ Len(block_queue) <= QueueCapacity
      /\ forwarding \in SUBSET Nat /\ output \in Seq(SUBSET Nat)
  OBVIOUS
<1>5. /\ current_block_id \in [DecoderIds -> BlockId \cup {NoId}]
      /\ current_decoder \in [DecoderIds -> SUBSET WirePacket]
      /\ current_block_is_decoded \in [DecoderIds -> BOOLEAN]
      /\ decoded_block \in [DecoderIds -> SUBSET Nat]
  OBVIOUS
<1> QED
  BY <1>1, <1>2, <1>3, <1>4, <1>5 DEF TypeOK, DecoderTypeOK

LEMMA StreamKeepsTypeOK == TypeOK /\ Stream => TypeOK'
<1> SUFFICES ASSUME TypeOK, Stream PROVE TypeOK'
  OBVIOUS
<1> USE DEF TypeOK
<1>1. DecoderTypeOK'
  BY DEF Stream, codecVars, DecoderTypeOK
<1>2. CASE \E id \in BlockId : ReadBlock(id)
  <2>1. PICK id \in BlockId : ReadBlock(id)
    BY <1>2
  <2>2. /\ blocks' \in Seq(BlockId) /\ Len(blocks') = Len(blocks) + 1
        /\ encoders' \in Seq(1 .. sessions) /\ Len(encoders') = Len(encoders) + 1
    BY <2>1 DEF ReadBlock
  <2>3. PacketsOf(1 .. Len(blocks)) \subseteq PacketsOf(1 .. Len(blocks'))
    BY <2>2 DEF PacketsOf
  <2> QED
    BY <1>1, <2>1, <2>2, <2>3 DEF ReadBlock, Stream, linkVars, codecVars
<1>3. CASE NextConnection
  <2>1. sessions' \in 1 .. MaxSessions /\ 1 .. sessions \subseteq 1 .. sessions'
    BY <1>3 DEF NextConnection
  <2>2. encoders' \in Seq(1 .. sessions')
    BY <1>3, <2>1 DEF NextConnection
  <2> QED
    BY <1>1, <1>3, <2>1, <2>2 DEF NextConnection, Stream, linkVars, codecVars
<1> QED
  BY <1>2, <1>3 DEF Stream

LEMMA EmitType ==
  ASSUME TypeOK, NEW p, Emit(p)
  PROVE  /\ p \in PacketsOf(1 .. Len(blocks))
         /\ emitted' \subseteq PacketsOf(1 .. Len(blocks))
<1>1. OpenBlocks \subseteq 1 .. Len(blocks)
  BY DEF OpenBlocks
<1>2. PacketsOf(OpenBlocks) \subseteq PacketsOf(1 .. Len(blocks))
  BY <1>1 DEF PacketsOf
<1> QED
  BY <1>2 DEF Emit, TypeOK

LEMMA LoseKeepsTypeOK == ASSUME NEW p, TypeOK, Lose(p) PROVE TypeOK'
<1>1. DecoderTypeOK'
  BY DEF Lose, codecVars, DecoderTypeOK, TypeOK
<1> QED
  BY <1>1, EmitType DEF Lose, Emit, codecVars, linkVars, TypeOK

LEMMA ArriveKeepsTypeOK == ASSUME NEW p, TypeOK, Arrive(p) PROVE TypeOK'
<1>1. Wire(p) \in WirePacket
  BY EmitType, WireType DEF Arrive, TypeOK
<1>2. /\ dispatching' \in WirePacket
      /\ dispatcher' \in ThreadState({"reading", "sending"})
  BY <1>1 DEF Arrive, DispatcherRead, ThreadState
<1>3. DecoderTypeOK'
  BY <1>2 DEF Arrive, DispatcherRead, TypeOK, DecoderTypeOK, decoderVars,
              forwarderVars
<1> QED
  BY <1>3, EmitType DEF Arrive, Emit, DispatcherRead, forwarderVars, TypeOK

LEMMA HeadTail ==
  ASSUME NEW S, NEW s \in Seq(S), s # << >>
  PROVE  /\ Head(s) \in S
         /\ Tail(s) \in Seq(S)
         /\ Len(Tail(s)) = Len(s) - 1
         /\ Len(s) \in Nat
  OBVIOUS

LEMMA SeqSubset ==
  ASSUME NEW S, NEW T, S \subseteq T, NEW s \in Seq(S) PROVE s \in Seq(T)
  OBVIOUS

LEMMA QueueTypes ==
  DecoderTypeOK => /\ packet_queue \in [DecoderIds -> Seq(WirePacket)]
                   /\ \A w \in DecoderIds : Len(packet_queue[w]) <= QueueCapacity
                   /\ block_queue \in Seq(SUBSET Nat)
                   /\ Len(block_queue) <= QueueCapacity
                   /\ output \in Seq(SUBSET Nat)
                   /\ dispatching \in WirePacket
  BY DEF DecoderTypeOK

LEMMA CallerKeepsTypeOK ==
  DecoderTypeOK /\ (StartDecoding \/ StartFails \/ Stop \/ Wait \/ WaitReturns)
    => DecoderTypeOK' /\ output' = output
<1> USE DEF DecoderTypeOK, CallerState, ThreadState, dispatcherVars,
            decoderVars, blockVars, forwarderVars
<1>1. DecoderTypeOK /\ StartDecoding => DecoderTypeOK' /\ output' = output
  BY DEF StartDecoding
<1>2. DecoderTypeOK /\ StartFails => DecoderTypeOK' /\ output' = output
  BY DEF StartFails, ConfigurationRefused, PacketSizeUnknown
<1>3. DecoderTypeOK /\ (Stop \/ Wait \/ WaitReturns)
        => DecoderTypeOK' /\ output' = output
  BY DEF Stop, Wait, WaitReturns
<1> QED
  BY <1>1, <1>2, <1>3

LEMMA TargetType == DecoderTypeOK => Target \in DecoderIds
  BY LaneType DEF DecoderTypeOK, WirePacket, Target

LEMMA DispatcherKeepsTypeOK ==
  DecoderTypeOK /\ (DispatcherSteps \/ DispatcherEof \/ DispatcherInterrupted
                      \/ DispatcherReadFails)
    => DecoderTypeOK' /\ output' = output
<1> SUFFICES ASSUME DecoderTypeOK
             PROVE  DispatcherSteps \/ DispatcherEof \/ DispatcherInterrupted
                      \/ DispatcherReadFails => DecoderTypeOK' /\ output' = output
  OBVIOUS
<1> USE DEF ThreadState, dispatcherVars, decoderVars, forwarderVars
<1>1. ASSUME DispatcherSend PROVE DecoderTypeOK' /\ output' = output
  <2>1. Append(packet_queue[Target], dispatching) \in Seq(WirePacket)
    BY TargetType, QueueTypes
  <2>2. Len(Append(packet_queue[Target], dispatching)) <= QueueCapacity
    BY <1>1, TargetType, QueueTypes DEF DispatcherSend, HasRoom
  <2>3. /\ packet_queue' \in [DecoderIds -> Seq(WirePacket)]
        /\ \A w \in DecoderIds : Len(packet_queue'[w]) <= QueueCapacity
    BY <1>1, <2>1, <2>2, TargetType DEF DispatcherSend, DecoderTypeOK
  <2> QED
    BY <1>1, <2>3 DEF DispatcherSend, DecoderTypeOK
<1>2. ASSUME DispatcherSendFails PROVE DecoderTypeOK' /\ output' = output
  BY <1>2 DEF DispatcherSendFails, DecoderTypeOK
<1>3. ASSUME NEW state \in {"done", "failed"}, DispatcherEnds(state)
      PROVE  DecoderTypeOK' /\ output' = output
  BY <1>3 DEF DispatcherEnds, DecoderTypeOK
<1> QED
  BY <1>1, <1>2, <1>3 DEF DispatcherSteps, DispatcherEof,
       DispatcherInterrupted, DispatcherReadFails

LEMMA DecoderKeepsTypeOK ==
  ASSUME NEW w \in DecoderIds, DecoderTypeOK, DecoderSteps(w)
  PROVE  DecoderTypeOK' /\ output' = output
<1> USE DEF ThreadState, dispatcherVars, decoderVars, blockVars, forwarderVars
<1>0. packet_queue[w] # << >> => Tail(packet_queue[w]) \in Seq(WirePacket)
                                 /\ Len(Tail(packet_queue[w])) <= QueueCapacity
                                 /\ Head(packet_queue[w]) \in WirePacket
  <2>1. packet_queue[w] \in Seq(WirePacket) /\ Len(packet_queue[w]) <= QueueCapacity
    BY QueueTypes
  <2> QED
    BY <2>1, HeadTail
<1>1. ASSUME DecoderIgnores(w) PROVE DecoderTypeOK' /\ output' = output
  BY <1>0, <1>1 DEF DecoderIgnores, DecoderTypeOK
<1>2. ASSUME NEW decoded \in BOOLEAN, DecoderTries(w, decoded)
      PROVE  DecoderTypeOK' /\ output' = output
  <2> DEFINE p    == Head(packet_queue[w])
             kept == KeptFor(w, p)
  <2>1. kept \in SUBSET WirePacket /\ p.id \in BlockId
    <3>1. p \in WirePacket
      BY <1>0, <1>2 DEF DecoderTries
    <3>2. (IF IsCurrent(w, p) THEN current_decoder[w] ELSE {}) \in SUBSET WirePacket
      BY DEF DecoderTypeOK
    <3> QED
      BY <3>1, <3>2, KeepType DEF KeptFor, WirePacket
  <2>2. Contents(kept) \in SUBSET Nat
    BY <2>1, ContentsType
  <2>3. /\ packet_queue' = [packet_queue EXCEPT ![w] = Tail(@)]
        /\ packet_queue[w] # << >>
        /\ current_block_id' = [current_block_id EXCEPT ![w] = p.id]
        /\ current_decoder' = [current_decoder EXCEPT ![w] = kept]
        /\ current_block_is_decoded' = [current_block_is_decoded EXCEPT ![w] = decoded]
        /\ \/ /\ decoded_block' = [decoded_block EXCEPT ![w] = Contents(kept)]
              /\ decoder' = [decoder EXCEPT ![w] = "sending"]
           \/ UNCHANGED <<decoded_block, decoder>>
        /\ UNCHANGED <<caller, should_stop, dispatcher, dispatching, block_queue,
                       forwarder, forwarding, output>>
    BY <1>2 DEF DecoderTries, Marked
  <2> HIDE DEF p, kept
  <2>4. /\ packet_queue' \in [DecoderIds -> Seq(WirePacket)]
        /\ \A v \in DecoderIds : Len(packet_queue'[v]) <= QueueCapacity
    BY <1>0, <2>3 DEF DecoderTypeOK
  <2>5. /\ current_block_id' \in [DecoderIds -> BlockId \cup {NoId}]
        /\ current_decoder' \in [DecoderIds -> SUBSET WirePacket]
        /\ current_block_is_decoded' \in [DecoderIds -> BOOLEAN]
        /\ decoded_block' \in [DecoderIds -> SUBSET Nat]
        /\ decoder' \in [DecoderIds -> ThreadState({"receiving", "sending"})]
    BY <2>1, <2>2, <2>3 DEF DecoderTypeOK
  <2> QED
    BY <2>3, <2>4, <2>5 DEF DecoderTypeOK
<1>3. ASSUME DecoderSend(w) PROVE DecoderTypeOK' /\ output' = output
  <2>1. decoded_block[w] \in SUBSET Nat
    BY DEF DecoderTypeOK
  <2>2. block_queue' \in Seq(SUBSET Nat) /\ Len(block_queue') <= QueueCapacity
    BY <1>3, <2>1, QueueTypes DEF DecoderSend, HasRoom
  <2> QED
    BY <1>3, <2>2 DEF DecoderSend, DecoderTypeOK
<1>4. ASSUME DecoderSendFails(w) PROVE DecoderTypeOK' /\ output' = output
  <2>1. << >> \in Seq(WirePacket) /\ Len(<< >>) <= QueueCapacity
    OBVIOUS
  <2>2. /\ packet_queue' \in [DecoderIds -> Seq(WirePacket)]
        /\ \A v \in DecoderIds : Len(packet_queue'[v]) <= QueueCapacity
    BY <1>4, <2>1, QueueTypes DEF DecoderSendFails
  <2> QED
    BY <1>4, <2>2 DEF DecoderSendFails, DecoderTypeOK
<1>5. ASSUME DecoderEnds(w) PROVE DecoderTypeOK' /\ output' = output
  BY <1>5 DEF DecoderEnds, DecoderTypeOK
<1> QED
  BY <1>1, <1>2, <1>3, <1>4, <1>5 DEF DecoderSteps

LEMMA ForwarderKeepsTypeOK ==
  DecoderTypeOK /\ ForwarderSteps =>
    DecoderTypeOK' /\ Len(output) <= Len(output')
<1> SUFFICES ASSUME DecoderTypeOK, ForwarderSteps
             PROVE  DecoderTypeOK' /\ Len(output) <= Len(output')
  OBVIOUS
<1> USE DEF ThreadState, dispatcherVars, decoderVars
<1>1. CASE ForwarderReceive
  <2>1. /\ Head(block_queue) \in SUBSET Nat
        /\ Tail(block_queue) \in Seq(SUBSET Nat)
        /\ Len(Tail(block_queue)) <= QueueCapacity
    BY <1>1, QueueTypes, HeadTail DEF ForwarderReceive
  <2> QED
    BY <1>1, <2>1 DEF ForwarderReceive, DecoderTypeOK
<1>2. CASE ForwarderWrite
  BY <1>2 DEF ForwarderWrite, DecoderTypeOK
<1>3. CASE ForwarderWriteFails
  <2>1. block_queue' \in Seq(SUBSET Nat) /\ Len(block_queue') <= QueueCapacity
    BY <1>3 DEF ForwarderWriteFails
  <2> QED
    BY <1>3, <2>1 DEF ForwarderWriteFails, DecoderTypeOK
<1>4. CASE ForwarderEnds
  BY <1>4 DEF ForwarderEnds, DecoderTypeOK
<1> QED
  BY <1>1, <1>2, <1>3, <1>4 DEF ForwarderSteps

LEMMA DecodeKeepsTypeOK == TypeOK /\ Decode => TypeOK'
<1> SUFFICES ASSUME TypeOK, Decode PROVE TypeOK'
  OBVIOUS
<1>1. DecoderTypeOK
  BY DEF TypeOK
<1>2. DecoderTypeOK' /\ (output' = output \/ Len(output) <= Len(output'))
  BY <1>1, CallerKeepsTypeOK, DispatcherKeepsTypeOK, DecoderKeepsTypeOK,
     ForwarderKeepsTypeOK DEF Decode, DecoderNext
<1>3. 0 .. Len(output) \subseteq 0 .. Len(output')
  <2>1. output \in Seq(SUBSET Nat) /\ output' \in Seq(SUBSET Nat)
    BY <1>1, <1>2 DEF DecoderTypeOK
  <2>2. Len(output) <= Len(output')
    BY <1>2, <2>1
  <2> QED
    BY <2>1, <2>2
<1>4. starts \in Seq(0 .. Len(output'))
  <2>1. starts \in Seq(0 .. Len(output))
    BY DEF TypeOK
  <2> QED
    BY <1>3, <2>1, SeqSubset
<1> QED
  BY <1>2, <1>4 DEF Decode, TypeOK, streamVars, linkVars

LEMMA RestartKeepsTypeOK == TypeOK /\ Restart => TypeOK'
<1> SUFFICES ASSUME TypeOK, Restart PROVE TypeOK'
  OBVIOUS
<1>1. DecoderTypeOK'
  <2>1. NoPacket \in WirePacket
    BY DEF NoPacket, WirePacket, BlockId, Esi
  <2>2. /\ dispatching' \in WirePacket /\ caller' \in CallerState
        /\ should_stop' \in BOOLEAN
        /\ dispatcher' \in ThreadState({"reading", "sending"})
        /\ forwarder' \in ThreadState({"receiving", "writing"})
        /\ decoder' \in [DecoderIds -> ThreadState({"receiving", "sending"})]
    BY <2>1 DEF Restart, NextDecoder, CallerState, ThreadState
  <2>3. << >> \in Seq(WirePacket) /\ << >> \in Seq(SUBSET Nat) /\ Len(<< >>) = 0
    OBVIOUS
  <2>4. /\ packet_queue' \in [DecoderIds -> Seq(WirePacket)]
        /\ \A w \in DecoderIds : Len(packet_queue'[w]) <= QueueCapacity
    BY <2>3 DEF Restart, NextDecoder
  <2>5. /\ current_block_id' \in [DecoderIds -> BlockId \cup {NoId}]
        /\ current_decoder' \in [DecoderIds -> SUBSET WirePacket]
        /\ current_block_is_decoded' \in [DecoderIds -> BOOLEAN]
        /\ decoded_block' \in [DecoderIds -> SUBSET Nat]
    BY DEF Restart, NextDecoder, NewBlockDecoders
  <2>6. /\ block_queue' \in Seq(SUBSET Nat) /\ Len(block_queue') <= QueueCapacity
        /\ forwarding' \in SUBSET Nat /\ output' \in Seq(SUBSET Nat)
    BY <2>3, QueueTypes DEF Restart, NextDecoder, TypeOK
  <2> QED
    BY <2>2, <2>4, <2>5, <2>6 DEF DecoderTypeOK
<1>2. output' = output /\ Len(output) \in 0 .. Len(output)
  BY DEF Restart, NextDecoder, TypeOK, DecoderTypeOK
<1>3. starts' \in Seq(0 .. Len(output'))
  BY <1>2 DEF Restart, TypeOK
<1> QED
  BY <1>1, <1>3 DEF Restart, TypeOK, streamVars

LEMMA TypeOKInductive == TypeOK /\ [Next]_vars => TypeOK'
<1>1. TypeOK /\ UNCHANGED vars => TypeOK'
  BY DEF vars, streamVars, codecVars, linkVars, TypeOK, DecoderTypeOK
<1> QED
  BY <1>1, StreamKeepsTypeOK, LoseKeepsTypeOK, ArriveKeepsTypeOK,
     DecodeKeepsTypeOK, RestartKeepsTypeOK DEF Next, Terminated

(* The types of the whole system, the bounds of the channels included.     *)
THEOREM CodecTypeOK == Spec => []TypeOK
  BY InitTypeOK, TypeOKInductive, PTL DEF Spec

-----------------------------------------------------------------------------
(* The stream of packets: encoders follow one another, the ids of one      *)
(* encoder count up and wrap, and a packet is on the link only after all   *)
(* that its encoder has to send before it in its lane.                     *)

EncodersInOrder ==
  \A a, b \in Block : a <= b => encoders[a] <= encoders[b]

(* The id that comes d blocks after id.                                    *)
IdAfter(id, d) == IF id + d < BlockIds THEN id + d ELSE id + d - BlockIds

IdsFollow ==
  \A a, b \in Block :
    a <= b /\ b - a < BlockIds /\ encoders[a] = encoders[b] =>
      blocks[b] = IdAfter(blocks[a], b - a)

PrefixEmitted ==
  \A q \in emitted, r \in PacketsOf(OpenBlocks) :
    LaneOf(r.block) = LaneOf(q.block) /\ Precedes(r, q) => r \in emitted

StreamInv == EncodersInOrder /\ IdsFollow /\ PrefixEmitted

LEMMA NextIdWraps ==
  ASSUME NEW id \in BlockId PROVE NextId(id) = IdAfter(id, 1)
  BY DEF NextId, IdAfter, BlockId

LEMMA QuotientUnique ==
  ASSUME NEW n \in Nat \ {0}, NEW q \in Nat, NEW r \in 0 .. n - 1
  PROVE  (n * q + r) % n = r
  OBVIOUS

LEMMA ModShift ==
  ASSUME NEW x \in Nat, NEW n \in Nat \ {0} PROVE (x + n) % n = x % n
<1> DEFINE q == x \div n
           r == x % n
<1>1. x = n * q + r /\ q \in Nat /\ r \in 0 .. n - 1
  OBVIOUS
<1> HIDE DEF q, r
<1>2. x + n = n * (q + 1) + r
  BY <1>1
<1>3. (n * (q + 1) + r) % n = r
  BY <1>1, QuotientUnique
<1> QED
  BY <1>1, <1>2, <1>3 DEF r

LEMMA StreamTypes ==
  TypeOK => /\ Len(blocks) \in Nat /\ Len(encoders) = Len(blocks)
            /\ sessions \in Nat
            /\ \A b \in Block : b \in Nat /\ blocks[b] \in BlockId /\ encoders[b] \in 1 .. sessions
            /\ \A p \in emitted : p.block \in Block /\ p.idx \in Nat
            /\ \A p \in arrived : p \in emitted
            /\ emitted \subseteq PacketsOf(Block)
<1> SUFFICES ASSUME TypeOK
             PROVE  /\ Len(blocks) \in Nat /\ Len(encoders) = Len(blocks)
                    /\ sessions \in Nat
                    /\ \A b \in Block : b \in Nat /\ blocks[b] \in BlockId /\ encoders[b] \in 1 .. sessions
                    /\ \A p \in emitted : p.block \in Block /\ p.idx \in Nat
                    /\ \A p \in arrived : p \in emitted
                    /\ emitted \subseteq PacketsOf(Block)
  OBVIOUS
<1>1. Len(blocks) \in Nat /\ Len(encoders) = Len(blocks)
      /\ sessions \in Nat
      /\ \A b \in Block : b \in Nat /\ blocks[b] \in BlockId /\ encoders[b] \in 1 .. sessions
  BY DEF TypeOK, Block
<1>2. \A p \in emitted : p.block \in Block /\ p.idx \in Nat
  BY <1>1, PacketFields DEF TypeOK, Block
<1> QED
  BY <1>1, <1>2 DEF TypeOK, Block

(* What is on the link of the lane of a new packet comes from earlier      *)
(* blocks, or from its own.                                                *)
LEMMA EmittedInOrder ==
  ASSUME TypeOK, StreamInv, NEW p, Emit(p), NEW q \in emitted,
         LaneOf(q.block) = LaneOf(p.block)
  PROVE  q.block <= p.block
<1>1. p \in PacketsOf(OpenBlocks) /\ p \notin emitted
  BY DEF Emit
<1>2. p.block \in OpenBlocks /\ p.block \in Block
  BY <1>1 DEF OpenBlocks, Block, PacketsOf
<1>3. q.block \in Block /\ p.block \in Nat /\ q.block \in Nat
  BY <1>2, StreamTypes
<1>4. ~Precedes(p, q)
  BY <1>1 DEF StreamInv, PrefixEmitted
<1> QED
  BY <1>3, <1>4 DEF Precedes

LEMMA ReadBlockKeepsStreamInv ==
  ASSUME TypeOK, StreamInv, NEW id \in BlockId, ReadBlock(id) PROVE StreamInv'
<1> DEFINE n == Len(blocks)
<1>1. /\ n \in Nat /\ Len(encoders) = n
      /\ Block = 1 .. n /\ Block' = 1 .. n + 1
      /\ \A b \in 1 .. n : blocks'[b] = blocks[b] /\ encoders'[b] = encoders[b]
      /\ blocks'[n + 1] = id /\ encoders'[n + 1] = sessions
      /\ UNCHANGED <<emitted, sessions>>
      /\ \A b \in 1 .. n : b \in Nat /\ blocks[b] \in BlockId /\ encoders[b] \in 1 .. sessions
  BY StreamTypes DEF ReadBlock, TypeOK, Block
<1>2. sessions \in Nat
  BY StreamTypes
<1> HIDE DEF n
<1>3. EncodersInOrder'
  BY <1>1, <1>2 DEF StreamInv, EncodersInOrder
<1>4. IdsFollow'
  <2> SUFFICES ASSUME NEW a \in 1 .. n, encoders[a] = sessions, n + 1 - a < BlockIds
               PROVE  id = IdAfter(blocks[a], n + 1 - a)
    <3>1. IdAfter(id, 0) = id
      BY DEF IdAfter, BlockId
    <3>2. (n + 1) - (n + 1) = 0
      BY <1>1
    <3> SUFFICES ASSUME NEW a \in 1 .. n + 1, NEW b \in 1 .. n + 1,
                        a <= b, b - a < BlockIds, encoders'[a] = encoders'[b]
                 PROVE  blocks'[b] = IdAfter(blocks'[a], b - a)
      BY <1>1 DEF IdsFollow
    <3>3. CASE b \in 1 .. n
      BY <1>1, <3>3 DEF StreamInv, IdsFollow
    <3>4. CASE b = n + 1 /\ a = n + 1
      BY <1>1, <3>1, <3>2, <3>4
    <3>5. CASE b = n + 1 /\ a \in 1 .. n
      BY <1>1, <3>5
    <3> QED
      BY <1>1, <3>3, <3>4, <3>5
  <2>1. encoders[n] = sessions /\ n \in 1 .. n
    BY <1>1, <1>2 DEF StreamInv, EncodersInOrder
  <2>2. OpenBlocks # {}
    BY <2>1, <1>1 DEF OpenBlocks, Block
  <2>3. id = IdAfter(blocks[n], 1)
    BY <2>1, <2>2, <1>1, NextIdWraps DEF ReadBlock, n
  <2>4. blocks[n] = IdAfter(blocks[a], n - a)
    BY <2>1, <1>1 DEF StreamInv, IdsFollow
  <2>5. blocks[a] \in 0 .. BlockIds - 1 /\ n - a \in Nat /\ (n - a) + 1 < BlockIds
    BY <1>1 DEF BlockId
  <2>6. IdAfter(IdAfter(blocks[a], n - a), 1) = IdAfter(blocks[a], (n - a) + 1)
    BY <2>5 DEF IdAfter
  <2>7. (n - a) + 1 = n + 1 - a
    BY <1>1
  <2> QED
    BY <2>3, <2>4, <2>6, <2>7
<1>5. PrefixEmitted'
  <2> SUFFICES ASSUME NEW q \in emitted, NEW r \in PacketsOf(OpenBlocks'),
                      LaneOf(r.block)' = LaneOf(q.block)', Precedes(r, q)
               PROVE  r \in emitted
    BY <1>1 DEF PrefixEmitted
  <2>1. q.block \in 1 .. n /\ q.block \in Nat
    BY <1>1, StreamTypes
  <2>2. r.block \in OpenBlocks' /\ r.idx \in 1 .. PacketsPerBlock
        /\ r = [block |-> r.block, idx |-> r.idx]
    BY DEF PacketsOf
  <2>3. r.block \in 1 .. n + 1 /\ encoders'[r.block] = sessions
    BY <2>2, <1>1 DEF OpenBlocks, Block
  <2>4. r.block \in 1 .. n /\ r.block \in OpenBlocks
    BY <2>1, <2>3, <1>1 DEF Precedes, OpenBlocks, Block
  <2>5. r \in PacketsOf(OpenBlocks)
    BY <2>2, <2>4 DEF PacketsOf
  <2>6. LaneOf(r.block) = LaneOf(q.block)
    BY <2>1, <2>4, <1>1 DEF LaneOf
  <2> QED
    BY <2>5, <2>6 DEF StreamInv, PrefixEmitted
<1> QED
  BY <1>3, <1>4, <1>5 DEF StreamInv

LEMMA NextConnectionKeepsStreamInv ==
  ASSUME TypeOK, StreamInv, NextConnection PROVE StreamInv'
<1>1. OpenBlocks' = {}
  BY StreamTypes DEF NextConnection, OpenBlocks, Block
<1>2. PrefixEmitted'
  BY <1>1 DEF PrefixEmitted, PacketsOf
<1> QED
  BY <1>2 DEF NextConnection, StreamInv, EncodersInOrder, IdsFollow, Block

LEMMA EmitKeepsStreamInv ==
  ASSUME TypeOK, StreamInv, NEW p, Emit(p) PROVE StreamInv'
<1>1. PrefixEmitted'
  <2> SUFFICES ASSUME NEW q \in emitted', NEW r \in PacketsOf(OpenBlocks),
                      LaneOf(r.block) = LaneOf(q.block), Precedes(r, q)
               PROVE  r \in emitted'
    BY DEF PrefixEmitted, Emit, OpenBlocks, LaneOf
  <2>1. CASE q \in emitted
    BY <2>1 DEF StreamInv, PrefixEmitted, Emit
  <2>2. CASE q = p
    BY <2>2 DEF Emit, Before
  <2> QED
    BY <2>1, <2>2 DEF Emit
<1> QED
  BY <1>1 DEF Emit, StreamInv, EncodersInOrder, IdsFollow, Block

LEMMA StreamInvInductive == TypeOK /\ StreamInv /\ [Next]_vars => StreamInv'
<1> SUFFICES ASSUME TypeOK, StreamInv, [Next]_vars PROVE StreamInv'
  OBVIOUS
<1>1. ASSUME UNCHANGED streamVars PROVE StreamInv'
  BY <1>1 DEF streamVars, StreamInv, EncodersInOrder, IdsFollow, PrefixEmitted,
              Block, OpenBlocks, LaneOf
<1>2. CASE Stream
  BY <1>2, ReadBlockKeepsStreamInv, NextConnectionKeepsStreamInv DEF Stream
<1>3. ASSUME NEW p, Lose(p) \/ Arrive(p) PROVE StreamInv'
  BY <1>3, EmitKeepsStreamInv DEF Lose, Arrive
<1> QED
  BY <1>1, <1>2, <1>3 DEF Next, Decode, Restart, Terminated, vars

LEMMA InitStreamInv == Init => StreamInv
  BY DEF Init, StreamInit, StreamInv, EncodersInOrder, IdsFollow, PrefixEmitted, Block

(* Two blocks of one encoder with the same id are a full turn of the ids   *)
(* apart, and as long as every lane has two ids the lane has a block with  *)
(* another id in between.                                                  *)
LEMMA OtherIdBetween ==
  ASSUME TypeOK, StreamInv, 2 * NumLanes <= BlockIds,
         NEW a \in Block, NEW b \in Block, a < b,
         encoders[a] = encoders[b], blocks[a] = blocks[b]
  PROVE  \E c \in LaneBetween(a, b) : blocks[c] # blocks[a]
<1>1. /\ a \in Nat /\ b \in Nat /\ blocks[a] \in Nat /\ blocks[a] < BlockIds
      /\ \A c \in a .. b : c \in Block
      /\ \A c \in Block : encoders[c] \in Nat
  BY StreamTypes DEF Block, BlockId
<1>2. \A c \in a .. b : encoders[c] = encoders[a]
  BY <1>1 DEF StreamInv, EncodersInOrder
<1>3. \A c \in a .. b : c - a < BlockIds => blocks[c] = IdAfter(blocks[a], c - a)
  BY <1>1, <1>2 DEF StreamInv, IdsFollow
<1>4. b - a >= BlockIds
  BY <1>1, <1>3 DEF IdAfter
<1>5. CASE blocks[a] + NumLanes < BlockIds
  <2>1. a + NumLanes \in a + 1 .. b - 1 /\ blocks[a + NumLanes] = blocks[a] + NumLanes
    BY <1>1, <1>3, <1>4, <1>5 DEF IdAfter
  <2>2. (blocks[a] + NumLanes) % NumLanes = blocks[a] % NumLanes
    BY <1>1, ModShift
  <2> QED
    BY <1>1, <2>1, <2>2 DEF LaneBetween, LaneOf, Lane
<1>6. CASE blocks[a] + NumLanes >= BlockIds
  <2> DEFINE c == a + (BlockIds - NumLanes)
  <2>1. c \in a + 1 .. b - 1 /\ blocks[c] = blocks[a] - NumLanes /\ blocks[c] \in Nat
    BY <1>1, <1>3, <1>4, <1>6 DEF IdAfter
  <2>2. (blocks[c] + NumLanes) % NumLanes = blocks[c] % NumLanes
    BY <2>1, ModShift
  <2> HIDE DEF c
  <2>3. LaneOf(c) = LaneOf(a)
    BY <1>1, <2>1, <2>2 DEF LaneOf, Lane
  <2> QED
    BY <1>1, <2>1, <2>3 DEF LaneBetween
<1> QED
  BY <1>1, <1>5, <1>6

-----------------------------------------------------------------------------
(* The packets on their way to a block decoder: in its channel, or being   *)
(* sent to it.  A channel keeps the order of the blocks.                   *)

(* "-w specifies the number of worker threads to use, it should be         *)
(* identical between the encoder and the decoder."                         *)
SameWorkers == NumLanes = NumBlockDecoders

Elements(s) == {s[i] : i \in 1 .. Len(s)}

Sorted(s) == \A i, j \in 1 .. Len(s) : i < j => s[i].block <= s[j].block

Ahead(w) == Elements(packet_queue[w]) \cup
              {x \in {dispatching} : dispatcher = "sending" /\ Target = w}

Got(b)  == \E p \in arrived : p.block = b
Seen(b) == \E p \in emitted : p.block = b

(* The threads run only between the start of a decoder and its end.        *)
Lifecycle ==
  /\ caller = "new" =>
       /\ dispatcher = "none"
       /\ \A w \in DecoderIds : decoder[w] = "none"
       /\ forwarder = "none"
  /\ dispatcher # "none" => \A w \in DecoderIds : decoder[w] # "none"
  /\ caller = "returned" => Ended(forwarder)
  /\ \A w \in DecoderIds : ~Alive(decoder[w]) => packet_queue[w] = << >>

QueuesSorted ==
  \A w \in DecoderIds :
    /\ Sorted(packet_queue[w])
    /\ dispatcher = "sending" /\ Target = w =>
         \A x \in Elements(packet_queue[w]) : x.block <= dispatching.block

PacketsAhead ==
  \A w \in DecoderIds : \A x \in Ahead(w) :
    /\ x \in WirePacket
    /\ Got(x.block)
    /\ x.id = blocks[x.block]
    /\ Lane(x.id, NumBlockDecoders) = w

PipeInv == Lifecycle /\ QueuesSorted /\ PacketsAhead

LEMMA SortedAppend ==
  ASSUME NEW s \in Seq(WirePacket), NEW p \in WirePacket, Sorted(s),
         \A x \in Elements(s) : x.block <= p.block
  PROVE  /\ Sorted(Append(s, p))
         /\ Elements(Append(s, p)) = Elements(s) \cup {p}
<1>1. Len(Append(s, p)) = Len(s) + 1 /\ Len(s) \in Nat
      /\ \A i \in 1 .. Len(s) : Append(s, p)[i] = s[i]
      /\ Append(s, p)[Len(s) + 1] = p
  OBVIOUS
<1>2. Sorted(Append(s, p))
  <2> SUFFICES ASSUME NEW i \in 1 .. Len(s) + 1, NEW j \in 1 .. Len(s) + 1, i < j
               PROVE  Append(s, p)[i].block <= Append(s, p)[j].block
    BY <1>1 DEF Sorted
  <2>1. i \in 1 .. Len(s) /\ Append(s, p)[i] = s[i]
    BY <1>1
  <2>2. CASE j = Len(s) + 1
    <3>1. s[i] \in Elements(s)
      BY <2>1 DEF Elements
    <3>2. s[i].block <= p.block
      BY <3>1
    <3> QED
      BY <1>1, <2>1, <2>2, <3>2
  <2>3. CASE j # Len(s) + 1
    <3>1. j \in 1 .. Len(s) /\ Append(s, p)[j] = s[j]
      BY <1>1, <2>3
    <3>2. s[i].block <= s[j].block
      BY <2>1, <3>1 DEF Sorted
    <3> QED
      BY <2>1, <3>1, <3>2
  <2> QED
    BY <2>2, <2>3
<1>3. Elements(Append(s, p)) = Elements(s) \cup {p}
  BY <1>1 DEF Elements
<1> QED
  BY <1>2, <1>3

LEMMA SortedTail ==
  ASSUME NEW s \in Seq(WirePacket), s # << >>, Sorted(s)
  PROVE  /\ Sorted(Tail(s))
         /\ Elements(s) = {Head(s)} \cup Elements(Tail(s))
         /\ \A x \in Elements(s) : Head(s).block <= x.block
<1>1. /\ Len(Tail(s)) = Len(s) - 1 /\ Len(s) \in Nat \ {0} /\ Head(s) = s[1]
      /\ \A i \in 1 .. Len(s) - 1 : Tail(s)[i] = s[i + 1]
      /\ \A i \in 1 .. Len(s) : s[i] \in WirePacket
  OBVIOUS
<1>2. Sorted(Tail(s))
  BY <1>1 DEF Sorted
<1>3. Elements(s) = {Head(s)} \cup Elements(Tail(s))
  <2>1. \A i \in 2 .. Len(s) : i - 1 \in 1 .. Len(s) - 1 /\ s[i] = Tail(s)[i - 1]
    BY <1>1
  <2>2. Elements(s) \subseteq {Head(s)} \cup Elements(Tail(s))
    <3> SUFFICES ASSUME NEW i \in 1 .. Len(s)
                 PROVE  s[i] = Head(s) \/ s[i] \in Elements(Tail(s))
      BY DEF Elements
    <3>1. CASE i = 1
      BY <1>1, <3>1
    <3>2. CASE i # 1
      <4>1. i \in 2 .. Len(s)
        BY <1>1, <3>2
      <4>2. i - 1 \in 1 .. Len(Tail(s)) /\ s[i] = Tail(s)[i - 1]
        BY <1>1, <2>1, <4>1
      <4> QED
        BY <4>2 DEF Elements
    <3> QED
      BY <3>1, <3>2
  <2>3. Elements(Tail(s)) \subseteq Elements(s)
    BY <1>1 DEF Elements
  <2>4. Head(s) \in Elements(s)
    BY <1>1 DEF Elements
  <2> QED
    BY <2>2, <2>3, <2>4
<1>4. \A i \in 1 .. Len(s) : s[1].block <= s[i].block
  BY <1>1 DEF Sorted, WirePacket
<1>5. \A x \in Elements(s) : Head(s).block <= x.block
  BY <1>1, <1>4 DEF Elements
<1> QED
  BY <1>2, <1>3, <1>5

LEMMA WireLane ==
  ASSUME SameWorkers, TypeOK, NEW p, Emit(p)
  PROVE  /\ Wire(p).block = p.block
         /\ Wire(p).id = blocks[p.block]
         /\ Wire(p) \in WirePacket
         /\ p.block \in Block
         /\ Lane(Wire(p).id, NumBlockDecoders) = LaneOf(p.block)
         /\ LaneOf(p.block) \in DecoderIds
<1>1. p \in PacketsOf(1 .. Len(blocks)) /\ blocks \in Seq(BlockId) /\ Len(blocks) \in Nat
  BY EmitType DEF TypeOK
<1>2. Wire(p) \in WirePacket /\ p.block \in 1 .. Len(blocks)
  BY <1>1, WireType, PacketFields
<1>3. blocks[p.block] \in BlockId
  BY <1>1, <1>2
<1> QED
  BY <1>2, <1>3, LaneType DEF Wire, Block, LaneOf, SameWorkers

(* An arriving packet comes from no earlier block than the packets ahead   *)
(* of it.                                                                  *)
LEMMA ArriveLast ==
  ASSUME SameWorkers, TypeOK, StreamInv, PacketsAhead, NEW p, Emit(p),
         NEW x \in Ahead(LaneOf(p.block))
  PROVE  x.block <= p.block
<1>1. LaneOf(p.block) \in DecoderIds
  BY WireLane
<1>2. PICK q \in arrived : q.block = x.block
  BY <1>1 DEF PacketsAhead, Got
<1>3. q \in emitted /\ LaneOf(q.block) = LaneOf(p.block)
  BY <1>1, <1>2 DEF PacketsAhead, TypeOK, LaneOf, SameWorkers
<1> QED
  BY <1>2, <1>3, EmittedInOrder

LEMMA ArriveAhead ==
  ASSUME SameWorkers, TypeOK, NEW p, Arrive(p), NEW w \in DecoderIds
  PROVE  /\ Ahead(w) = Elements(packet_queue[w])
         /\ Ahead(w)' = IF w = LaneOf(p.block) THEN Ahead(w) \cup {Wire(p)}
                                               ELSE Ahead(w)
<1>1. Target' = LaneOf(p.block)
  BY WireLane DEF Arrive, DispatcherRead, Target
<1> QED
  BY <1>1 DEF Arrive, DispatcherRead, Ahead

-----------------------------------------------------------------------------
(* What the steps do to the packets on their way.                          *)

(* Packets leave only from the front, and only the thread that is their    *)
(* target, or its end, makes them leave.                                   *)
FromTheFront(w) ==
  /\ Ahead(w)' \subseteq Ahead(w)
  /\ \A y \in Ahead(w) \ Ahead(w)', x \in Ahead(w)' : y.block <= x.block

Waits(w) == ~Ended(decoder[w])' => ~Ended(decoder[w]) /\ Ahead(w)' = Ahead(w)

LEMMA AheadUnchanged ==
  ASSUME NEW w, UNCHANGED <<dispatcher, dispatching, packet_queue>>
  PROVE  Ahead(w)' = Ahead(w)
  BY DEF Ahead, Target

LEMMA ReadAhead ==
  ASSUME NEW w, dispatcher # "sending", dispatcher' # "sending",
         packet_queue' = packet_queue
  PROVE  Ahead(w)' = Ahead(w)
  BY DEF Ahead

LEMMA SendAhead ==
  ASSUME TypeOK, PipeInv, DispatcherSend, NEW w \in DecoderIds
  PROVE  Ahead(w)' = Ahead(w) /\ QueuesSorted'
<1>1. /\ Target \in DecoderIds /\ dispatching \in WirePacket
      /\ packet_queue[Target] \in Seq(WirePacket)
      /\ packet_queue \in [DecoderIds -> Seq(WirePacket)]
  BY TargetType, QueueTypes DEF TypeOK
<1>2. /\ Sorted(Append(packet_queue[Target], dispatching))
      /\ Elements(Append(packet_queue[Target], dispatching)) =
           Elements(packet_queue[Target]) \cup {dispatching}
  BY <1>1, SortedAppend DEF PipeInv, QueuesSorted, DispatcherSend
<1>3. /\ dispatcher = "sending" /\ dispatcher' = "reading"
      /\ packet_queue' = [packet_queue EXCEPT ![Target] =
                            Append(packet_queue[Target], dispatching)]
  BY DEF DispatcherSend
<1>4. Ahead(w)' = Ahead(w)
  BY <1>1, <1>2, <1>3 DEF Ahead
<1>5. QueuesSorted'
  BY <1>1, <1>2, <1>3 DEF PipeInv, QueuesSorted
<1> QED
  BY <1>4, <1>5

LEMMA SendFailsAhead ==
  ASSUME TypeOK, PipeInv, DispatcherSendFails, NEW w \in DecoderIds
  PROVE  FromTheFront(w) /\ Waits(w)
<1>1. /\ dispatcher = "sending" /\ dispatcher' = "failed"
      /\ ~Alive(decoder[Target]) /\ UNCHANGED <<packet_queue, decoder>>
      /\ Target \in DecoderIds
  BY TargetType DEF DispatcherSendFails, decoderVars, TypeOK
<1>2. Ahead(w)' = Elements(packet_queue[w])
  BY <1>1 DEF Ahead
<1>3. CASE w # Target
  BY <1>1, <1>2, <1>3 DEF Ahead, FromTheFront, Waits
<1>4. CASE w = Target
  <2>1. packet_queue[w] = << >> /\ Ended(decoder[w])
    BY <1>1, <1>4 DEF PipeInv, Lifecycle, Alive, Ended, TypeOK, DecoderTypeOK
  <2>2. Ahead(w)' = {}
    BY <1>2, <2>1 DEF Elements
  <2> QED
    BY <1>1, <2>1, <2>2 DEF FromTheFront, Waits
<1> QED
  BY <1>3, <1>4

LEMMA TakeAhead ==
  ASSUME TypeOK, PipeInv, NEW v \in DecoderIds, NEW w \in DecoderIds,
         packet_queue[v] # << >>, UNCHANGED <<dispatcher, dispatching>>,
         packet_queue' = [packet_queue EXCEPT ![v] = Tail(@)]
  PROVE  /\ w # v => Ahead(w)' = Ahead(w)
         /\ Ahead(v) = {Head(packet_queue[v])} \cup Ahead(v)'
         /\ \A x \in Ahead(v) : Head(packet_queue[v]).block <= x.block
         /\ QueuesSorted'
<1>1. packet_queue \in [DecoderIds -> Seq(WirePacket)]
  BY QueueTypes DEF TypeOK
<1>2. /\ Sorted(Tail(packet_queue[v]))
      /\ Elements(packet_queue[v]) =
           {Head(packet_queue[v])} \cup Elements(Tail(packet_queue[v]))
      /\ \A x \in Elements(packet_queue[v]) : Head(packet_queue[v]).block <= x.block
  BY <1>1, SortedTail DEF PipeInv, QueuesSorted
<1>3. /\ packet_queue'[v] = Tail(packet_queue[v])
      /\ \A u \in DecoderIds : u # v => packet_queue'[u] = packet_queue[u]
      /\ Target' = Target
  BY <1>1 DEF Target
<1>4. w # v => Ahead(w)' = Ahead(w)
  BY <1>3 DEF Ahead
<1>5. Ahead(v) = {Head(packet_queue[v])} \cup Ahead(v)'
  BY <1>2, <1>3 DEF Ahead
<1>6. \A x \in Ahead(v) : Head(packet_queue[v]).block <= x.block
  BY <1>2 DEF Ahead, PipeInv, QueuesSorted
<1>7. QueuesSorted'
  BY <1>2, <1>3 DEF PipeInv, QueuesSorted
<1> QED
  BY <1>4, <1>5, <1>6, <1>7

LEMMA DropAhead ==
  ASSUME TypeOK, PipeInv, NEW v \in DecoderIds, NEW w \in DecoderIds,
         DecoderSendFails(v)
  PROVE  FromTheFront(w) /\ Waits(w) /\ QueuesSorted'
<1>1. /\ packet_queue \in [DecoderIds -> Seq(WirePacket)]
      /\ decoder \in [DecoderIds -> ThreadState({"receiving", "sending"})]
      /\ dispatching.block \in Nat
  BY QueueTypes DEF TypeOK, DecoderTypeOK, WirePacket
<1>2. /\ packet_queue'[v] = << >> /\ decoder'[v] = "failed"
      /\ \A u \in DecoderIds :
           u # v => packet_queue'[u] = packet_queue[u] /\ decoder'[u] = decoder[u]
      /\ UNCHANGED <<dispatcher, dispatching>>
      /\ Target' = Target
  BY <1>1 DEF DecoderSendFails, dispatcherVars, Target
<1>3. QueuesSorted'
  <2>1. Sorted(<< >>)
    BY DEF Sorted
  <2>2. Elements(<< >>) = {}
    BY DEF Elements
  <2>3. ASSUME NEW u \in DecoderIds, u # v
        PROVE  /\ Sorted(packet_queue'[u])
               /\ dispatcher = "sending" /\ Target = u =>
                    \A x \in Elements(packet_queue'[u]) : x.block <= dispatching.block
    BY <1>2, <2>3 DEF PipeInv, QueuesSorted
  <2>4. /\ Sorted(packet_queue'[v])
        /\ \A x \in Elements(packet_queue'[v]) : x.block <= dispatching.block
    BY <1>2, <2>1, <2>2
  <2> QED
    BY <1>2, <2>3, <2>4 DEF QueuesSorted
<1>4. CASE w # v
  <2>1. Ahead(w)' = Ahead(w) /\ decoder'[w] = decoder[w]
    BY <1>2, <1>4 DEF Ahead
  <2> QED
    BY <1>3, <2>1 DEF FromTheFront, Waits, Ended
<1>5. CASE w = v
  <2>1. Ahead(w)' = {x \in {dispatching} : dispatcher = "sending" /\ Target = w}
    BY <1>2, <1>5 DEF Ahead, Elements
  <2>2. FromTheFront(w)
    BY <1>1, <2>1 DEF FromTheFront, Ahead, PipeInv, QueuesSorted
  <2> QED
    BY <1>2, <1>3, <1>5, <2>2 DEF Waits, Ended
<1> QED
  BY <1>3, <1>4, <1>5

(* The blocks put out: written, being written or on their way to the       *)
(* forwarder.                                                              *)
Put == output \o (IF forwarder = "writing" THEN <<forwarding>> ELSE << >>)
              \o block_queue

PrefixOf(s, t) ==
  /\ Len(s) <= Len(t)
  /\ \A i \in 1 .. Len(s) : s[i] = t[i]

(* A step of a decoder in which no packet arrives or is taken and no block *)
(* is put out; some may be dropped.                                        *)
Quiet ==
  /\ UNCHANGED <<streamVars, linkVars, blockVars>>
  /\ QueuesSorted'
  /\ PrefixOf(Put', Put)
  /\ \A w \in DecoderIds :
       /\ FromTheFront(w)
       /\ Waits(w)
       /\ decoder'[w] = "sending" => decoder[w] = "sending"

LEMMA PutType ==
  ASSUME TypeOK
  PROVE  /\ Put \in Seq(SUBSET Nat)
         /\ output \in Seq(SUBSET Nat)
         /\ PrefixOf(output, Put)
         /\ Len(Put) \in Nat /\ Len(output) \in Nat
         /\ Len(output) <= Len(Put)
<1> DEFINE f == IF forwarder = "writing" THEN <<forwarding>> ELSE << >>
<1>1. /\ output \in Seq(SUBSET Nat) /\ block_queue \in Seq(SUBSET Nat)
      /\ forwarding \in SUBSET Nat
  BY DEF TypeOK, DecoderTypeOK
<1>2. f \in Seq(SUBSET Nat)
  <2>1. <<forwarding>> \in Seq(SUBSET Nat) /\ << >> \in Seq(SUBSET Nat)
    BY <1>1
  <2> QED
    BY <2>1, Zenon
<1>3. Put = (output \o f) \o block_queue
  BY DEF Put
<1> HIDE DEF f
<1> QED
  BY <1>1, <1>2, <1>3 DEF PrefixOf

LEMMA PrefixRefl == ASSUME NEW s \in Seq(SUBSET Nat) PROVE PrefixOf(s, s)
  BY DEF PrefixOf

LEMMA ForwarderPut ==
  ASSUME TypeOK, ForwarderSteps
  PROVE  PrefixOf(Put', Put) /\ (forwarder' # "failed" => Put' = Put)
<1>1. /\ output \in Seq(SUBSET Nat) /\ block_queue \in Seq(SUBSET Nat)
      /\ forwarding \in SUBSET Nat /\ Put \in Seq(SUBSET Nat)
  BY PutType DEF TypeOK, DecoderTypeOK
<1>2. CASE ForwarderReceive
  <2>1. block_queue = <<Head(block_queue)>> \o Tail(block_queue)
    BY <1>1, <1>2 DEF ForwarderReceive
  <2>2. Head(block_queue) \in SUBSET Nat /\ Tail(block_queue) \in Seq(SUBSET Nat)
    BY <1>1, <1>2 DEF ForwarderReceive
  <2>3. Put' = output \o <<Head(block_queue)>> \o Tail(block_queue)
    BY <1>2 DEF ForwarderReceive, Put
  <2>4. Put = output \o block_queue
    BY <1>1, <1>2 DEF ForwarderReceive, Put
  <2>5. Put' = output \o (<<Head(block_queue)>> \o Tail(block_queue))
    BY <1>1, <2>2, <2>3, ConcatAssociative
  <2> QED
    BY <1>1, <2>1, <2>4, <2>5, PrefixRefl
<1>3. CASE ForwarderWrite
  <2>1. Put' = Append(output, forwarding) \o << >> \o block_queue
    BY <1>3 DEF ForwarderWrite, Put
  <2>2. Append(output, forwarding) = output \o <<forwarding>>
    BY <1>1, AppendIsConcat
  <2>3. Append(output, forwarding) \o << >> = Append(output, forwarding)
    BY <1>1
  <2>4. Put = output \o <<forwarding>> \o block_queue
    BY <1>3 DEF ForwarderWrite, Put
  <2> QED
    BY <1>1, <2>1, <2>2, <2>3, <2>4, PrefixRefl
<1>4. CASE ForwarderWriteFails
  <2>1. Put' = output \o << >> \o << >>
    BY <1>4 DEF ForwarderWriteFails, Put
  <2>2. Put' = output /\ forwarder' = "failed"
    BY <1>1, <1>4, <2>1 DEF ForwarderWriteFails
  <2> QED
    BY <2>2, PutType
<1>5. CASE ForwarderEnds
  <2>1. Put' = Put
    BY <1>5 DEF ForwarderEnds, Put
  <2> QED
    BY <1>1, <2>1, PrefixRefl
<1> QED
  BY <1>2, <1>3, <1>4, <1>5 DEF ForwarderSteps

LEMMA LaneZero == 0 \in DecoderIds
  BY DEF DecoderIds

LEMMA QueuesSortedUnchanged ==
  ASSUME PipeInv, packet_queue' = packet_queue,
         dispatcher' = "sending" => dispatcher = "sending", dispatching' = dispatching
  PROVE  QueuesSorted'
  BY DEF PipeInv, QueuesSorted, Target

(* Nothing but these steps of a decoder is not quiet.                      *)
LEMMA QuietSteps ==
  ASSUME TypeOK, PipeInv, UNCHANGED <<streamVars, linkVars>>,
         \/ StartDecoding \/ StartFails \/ Stop \/ Wait \/ WaitReturns
         \/ DispatcherEof \/ DispatcherInterrupted \/ DispatcherReadFails
         \/ DispatcherSteps
         \/ \E w \in DecoderIds : DecoderSendFails(w) \/ DecoderEnds(w)
         \/ ForwarderSteps
         \/ UNCHANGED codecVars
  PROVE  Quiet
<1>0. Put \in Seq(SUBSET Nat) /\ decoder \in [DecoderIds -> ThreadState({"receiving", "sending"})]
  BY PutType DEF TypeOK, DecoderTypeOK
<1> USE DEF dispatcherVars, decoderVars, blockVars, forwarderVars
(* The packets on their way do not move and no thread ends.                *)
<1>1. ASSUME packet_queue' = packet_queue, UNCHANGED blockVars,
             \/ UNCHANGED <<dispatcher, dispatching>>
             \/ /\ dispatcher # "sending" /\ dispatcher' # "sending"
                /\ dispatching' = dispatching,
             PrefixOf(Put', Put),
             \A w \in DecoderIds :
               /\ ~Ended(decoder'[w]) => ~Ended(decoder[w])
               /\ decoder'[w] = "sending" => decoder[w] = "sending"
      PROVE  Quiet
  <2>1. \A w \in DecoderIds : Ahead(w)' = Ahead(w)
    BY <1>1, AheadUnchanged, ReadAhead
  <2>2. QueuesSorted'
    BY <1>1, QueuesSortedUnchanged
  <2>3. \A w \in DecoderIds : FromTheFront(w) /\ Waits(w)
    BY <1>1, <2>1 DEF FromTheFront, Waits, Ended
  <2> QED
    BY <1>1, <2>2, <2>3 DEF Quiet
<1>2. ASSUME UNCHANGED <<output, forwarding, block_queue>>,
             forwarder' = forwarder \/ (forwarder # "writing" /\ forwarder' # "writing")
      PROVE  PrefixOf(Put', Put)
  BY <1>0, <1>2, PrefixRefl DEF Put
<1>3. CASE StartDecoding \/ PacketSizeUnknown
  <2>1. /\ dispatcher # "sending" /\ dispatcher' # "sending"
        /\ forwarder # "writing" /\ forwarder' # "writing"
        /\ \A w \in DecoderIds : ~Ended(decoder[w]) /\ decoder'[w] # "sending"
        /\ UNCHANGED <<packet_queue, blockVars, dispatching, output, forwarding, block_queue>>
    BY <1>3 DEF StartDecoding, PacketSizeUnknown, PipeInv, Lifecycle, Ended
  <2> QED
    BY <1>1, <1>2, <2>1
<1>4. CASE ConfigurationRefused \/ Stop \/ Wait \/ WaitReturns
  <2>1. /\ UNCHANGED <<packet_queue, blockVars, dispatcher, dispatching, decoder,
                       output, forwarding, block_queue>>
        /\ forwarder' = forwarder \/ (forwarder # "writing" /\ forwarder' # "writing")
    BY <1>4 DEF ConfigurationRefused, Stop, Wait, WaitReturns, PipeInv, Lifecycle
  <2> QED
    BY <1>1, <1>2, <2>1
<1>5. CASE DispatcherEof \/ DispatcherInterrupted \/ DispatcherReadFails
  <2>1. /\ UNCHANGED <<packet_queue, blockVars, dispatching, decoder,
                       output, forwarding, block_queue, forwarder>>
        /\ dispatcher # "sending" /\ dispatcher' # "sending"
    BY <1>5 DEF DispatcherEof, DispatcherInterrupted, DispatcherReadFails,
                DispatcherEnds
  <2> QED
    BY <1>1, <1>2, <2>1
<1>6. CASE DispatcherSend
  <2>1. /\ UNCHANGED <<blockVars, decoder, output, forwarding, block_queue, forwarder>>
    BY <1>6 DEF DispatcherSend
  <2>2. PrefixOf(Put', Put)
    BY <1>2, <2>1
  <2>3. QueuesSorted' /\ \A w \in DecoderIds : Ahead(w)' = Ahead(w)
    BY <1>6, SendAhead, LaneZero
  <2>4. \A w \in DecoderIds : FromTheFront(w) /\ Waits(w)
    BY <2>1, <2>3 DEF FromTheFront, Waits, Ended
  <2> QED
    BY <2>1, <2>2, <2>3, <2>4 DEF Quiet
<1>7. CASE DispatcherSendFails
  <2>1. /\ UNCHANGED <<blockVars, decoder, output, forwarding, block_queue, forwarder,
                       packet_queue, dispatching>>
        /\ dispatcher' # "sending"
    BY <1>7 DEF DispatcherSendFails
  <2>2. PrefixOf(Put', Put) /\ QueuesSorted'
    BY <1>2, <2>1, QueuesSortedUnchanged
  <2>3. \A w \in DecoderIds : FromTheFront(w) /\ Waits(w)
    BY <1>7, SendFailsAhead
  <2> QED
    BY <2>1, <2>2, <2>3 DEF Quiet
<1>8. ASSUME NEW v \in DecoderIds, DecoderSendFails(v) PROVE Quiet
  <2>1. /\ UNCHANGED <<blockVars, output, forwarding, block_queue, forwarder>>
        /\ \A w \in DecoderIds : decoder'[w] = "sending" => decoder[w] = "sending"
    BY <1>0, <1>8 DEF DecoderSendFails
  <2>2. PrefixOf(Put', Put)
    BY <1>2, <2>1
  <2>3. QueuesSorted' /\ \A w \in DecoderIds : FromTheFront(w) /\ Waits(w)
    BY <1>8, DropAhead
  <2> QED
    BY <2>1, <2>2, <2>3 DEF Quiet
<1>9. ASSUME NEW v \in DecoderIds, DecoderEnds(v) PROVE Quiet
  <2>1. /\ UNCHANGED <<packet_queue, dispatcher, dispatching, blockVars, output,
                       forwarding, block_queue, forwarder>>
        /\ \A w \in DecoderIds :
             /\ ~Ended(decoder'[w]) => ~Ended(decoder[w])
             /\ decoder'[w] = "sending" => decoder[w] = "sending"
    BY <1>0, <1>9 DEF DecoderEnds, Ended
  <2> QED
    BY <1>1, <1>2, <2>1
<1>10. CASE ForwarderSteps
  <2>1. UNCHANGED <<packet_queue, dispatcher, dispatching, blockVars, decoder>>
    BY <1>10 DEF ForwarderSteps, ForwarderReceive, ForwarderWrite,
                 ForwarderWriteFails, ForwarderEnds
  <2> QED
    BY <1>1, <1>10, <2>1, ForwarderPut
<1>11. CASE UNCHANGED codecVars
  <2>1. UNCHANGED <<packet_queue, dispatcher, dispatching, blockVars, decoder,
                    output, forwarding, block_queue, forwarder>>
    BY <1>11 DEF codecVars
  <2> QED
    BY <1>1, <1>2, <2>1
<1> QED
  BY <1>3, <1>4, <1>5, <1>6, <1>7, <1>8, <1>9, <1>10, <1>11 DEF DispatcherSteps, StartFails

(* The steps that are not quiet: the stream goes on, a packet is taken, a  *)
(* block is put out, a decoder is replaced.                                *)
Takes(w) ==
  /\ UNCHANGED <<streamVars, linkVars>>
  /\ DecoderIgnores(w) \/ \E decoded \in BOOLEAN : DecoderTries(w, decoded)

PutsOut(w) == UNCHANGED <<streamVars, linkVars>> /\ DecoderSend(w)

LEMMA NextCases ==
  ASSUME TypeOK, PipeInv, [Next]_vars
  PROVE  \/ Stream
         \/ \E p : Lose(p) \/ Arrive(p)
         \/ Quiet
         \/ \E w \in DecoderIds : Takes(w) \/ PutsOut(w)
         \/ Restart
<1>1. CASE Decode
  <2>1. DecoderNext /\ UNCHANGED <<streamVars, linkVars>>
    BY <1>1 DEF Decode
  <2>2. CASE \E w \in DecoderIds : DecoderSteps(w)
    BY <2>1, <2>2, QuietSteps DEF DecoderSteps, Takes, PutsOut
  <2> QED
    BY <2>1, <2>2, QuietSteps DEF DecoderNext
<1>2. CASE Terminated \/ UNCHANGED vars
  <2>1. UNCHANGED <<streamVars, linkVars>> /\ UNCHANGED codecVars
    BY <1>2 DEF Terminated, vars
  <2> QED
    BY <2>1, QuietSteps
<1> QED
  BY <1>1, <1>2 DEF Next

LEMMA LifecycleInductive == TypeOK /\ Lifecycle /\ [Next]_vars => Lifecycle'
<1> SUFFICES ASSUME TypeOK, Lifecycle, [Next]_vars PROVE Lifecycle'
  OBVIOUS
<1>0. /\ packet_queue \in [DecoderIds -> Seq(WirePacket)]
      /\ decoder \in [DecoderIds -> ThreadState({"receiving", "sending"})]
      /\ Target \in DecoderIds
  BY TargetType DEF TypeOK, DecoderTypeOK
<1> USE DEF Lifecycle, Alive, Ended, dispatcherVars, decoderVars, blockVars, forwarderVars
<1>1. CASE UNCHANGED codecVars
  BY <1>1 DEF codecVars
<1>2. ASSUME NEW p, Arrive(p) PROVE Lifecycle'
  BY <1>2 DEF Arrive, DispatcherRead
<1>3. CASE Restart
  BY <1>3 DEF Restart, NextDecoder
<1>4. CASE StartDecoding \/ StartFails \/ Stop \/ Wait \/ WaitReturns
  BY <1>4 DEF StartDecoding, StartFails, ConfigurationRefused, PacketSizeUnknown, Stop,
              Wait, WaitReturns
<1>5. CASE DispatcherEof \/ DispatcherInterrupted \/ DispatcherReadFails
  BY <1>5 DEF DispatcherEof, DispatcherInterrupted, DispatcherReadFails, DispatcherEnds
<1>6. CASE DispatcherSteps
  BY <1>0, <1>6 DEF DispatcherSteps, DispatcherSend, DispatcherSendFails
<1>7. ASSUME NEW w \in DecoderIds, DecoderSteps(w) PROVE Lifecycle'
  <2>1. CASE DecoderIgnores(w)
    BY <1>0, <2>1 DEF DecoderIgnores
  <2>2. ASSUME NEW decoded \in BOOLEAN, DecoderTries(w, decoded) PROVE Lifecycle'
    <3>1. /\ decoder[w] = "receiving" /\ decoder' \in {decoder, [decoder EXCEPT ![w] = "sending"]}
          /\ packet_queue' = [packet_queue EXCEPT ![w] = Tail(@)]
          /\ UNCHANGED <<caller, dispatcher, forwarder>>
      BY <2>2 DEF DecoderTries
    <3> QED
      BY <1>0, <3>1
  <2>3. CASE DecoderSend(w) \/ DecoderSendFails(w) \/ DecoderEnds(w)
    BY <1>0, <2>3 DEF DecoderSend, HasBlock, DecoderSendFails, DecoderEnds
  <2> QED
    BY <1>7, <2>1, <2>2, <2>3 DEF DecoderSteps
<1>8. CASE ForwarderSteps
  BY <1>8 DEF ForwarderSteps, ForwarderReceive, ForwarderWrite, ForwarderWriteFails,
              ForwarderEnds
<1> QED
  BY <1>1, <1>2, <1>3, <1>4, <1>5, <1>6, <1>7, <1>8
     DEF Next, Stream, Lose, Decode, DecoderNext, Terminated, vars

(* What is known of a block does not change when the stream goes on.       *)
LEMMA StreamGrows ==
  ASSUME TypeOK, Stream
  PROVE  /\ \A b \in Block : /\ b \in Block'
                             /\ blocks'[b] = blocks[b]
                             /\ encoders'[b] = encoders[b]
                             /\ LaneOf(b)' = LaneOf(b)
         /\ emitted' = emitted
         /\ UNCHANGED <<codecVars, linkVars>>
<1>1. ASSUME NEW id \in BlockId, ReadBlock(id)
      PROVE  \A b \in Block : /\ b \in Block' /\ blocks'[b] = blocks[b]
                              /\ encoders'[b] = encoders[b]
  BY <1>1, StreamTypes DEF ReadBlock, TypeOK, Block
<1>2. ASSUME NextConnection
      PROVE  \A b \in Block : /\ b \in Block' /\ blocks'[b] = blocks[b]
                              /\ encoders'[b] = encoders[b]
  BY <1>2 DEF NextConnection, Block
<1> QED
  BY <1>1, <1>2 DEF Stream, ReadBlock, NextConnection, LaneOf

LEMMA InitPipeInv == Init => PipeInv
<1> SUFFICES ASSUME Init PROVE PipeInv
  OBVIOUS
<1>1. \A w \in DecoderIds : Ahead(w) = {} /\ Elements(packet_queue[w]) = {}
  BY DEF Init, DecoderInit, Ahead, Elements
<1>2. \A w \in DecoderIds : Sorted(packet_queue[w])
  BY DEF Init, DecoderInit, Sorted
<1>3. Lifecycle
  BY DEF Init, DecoderInit, Lifecycle
<1> QED
  BY <1>1, <1>2, <1>3 DEF PipeInv, QueuesSorted, PacketsAhead

LEMMA TakesHead ==
  ASSUME TypeOK, PipeInv, NEW v \in DecoderIds, Takes(v), NEW w \in DecoderIds
  PROVE  /\ w # v => Ahead(w)' = Ahead(w)
         /\ Ahead(v) = {Head(packet_queue[v])} \cup Ahead(v)'
         /\ \A x \in Ahead(v) : Head(packet_queue[v]).block <= x.block
         /\ QueuesSorted'
         /\ Head(packet_queue[v]) \in WirePacket
         /\ UNCHANGED <<streamVars, linkVars, Put>>
<1>1. /\ packet_queue[v] # << >> /\ UNCHANGED <<dispatcher, dispatching>>
      /\ packet_queue' = [packet_queue EXCEPT ![v] = Tail(@)]
      /\ UNCHANGED <<streamVars, linkVars, block_queue, forwarder, forwarding, output>>
  BY DEF Takes, DecoderIgnores, DecoderTries, dispatcherVars, forwarderVars
<1>2. Put' = Put
  BY <1>1 DEF Put
<1>3. Head(packet_queue[v]) \in WirePacket
  BY <1>1, QueueTypes, HeadTail DEF TypeOK
<1> QED
  BY <1>1, <1>2, <1>3, TakeAhead

LEMMA PipeInvInductive ==
  ASSUME SameWorkers, TypeOK, StreamInv, PipeInv, [Next]_vars
  PROVE  PipeInv'
<1>1. Lifecycle'
  BY LifecycleInductive DEF PipeInv
<1>2. ASSUME UNCHANGED <<blocks, arrived>>, QueuesSorted',
             \A w \in DecoderIds : Ahead(w)' \subseteq Ahead(w)
      PROVE  PipeInv'
  <2>1. PacketsAhead'
    BY <1>2 DEF PipeInv, PacketsAhead, Got
  <2> QED
    BY <1>1, <1>2, <2>1 DEF PipeInv
<1>3. CASE Stream
  <2>1. /\ \A w \in DecoderIds : Ahead(w)' = Ahead(w)
        /\ QueuesSorted'
    BY <1>3, StreamGrows, AheadUnchanged, QueuesSortedUnchanged DEF codecVars
  <2>2. \A p \in arrived : p.block \in Block
    BY StreamTypes
  <2>3. PacketsAhead'
    BY <1>3, <2>1, <2>2, StreamGrows DEF PipeInv, PacketsAhead, Got, linkVars
  <2> QED
    BY <1>1, <2>1, <2>3 DEF PipeInv
<1>4. ASSUME NEW p, Lose(p) PROVE PipeInv'
  <2>1. /\ \A w \in DecoderIds : Ahead(w)' = Ahead(w)
        /\ QueuesSorted'
    BY <1>4, AheadUnchanged, QueuesSortedUnchanged DEF Lose, codecVars
  <2> QED
    BY <1>2, <1>4, <2>1 DEF Lose, Emit, linkVars
<1>5. ASSUME NEW p, Arrive(p) PROVE PipeInv'
  <2>0. Emit(p) /\ packet_queue' = packet_queue /\ arrived' = arrived \cup {p}
        /\ blocks' = blocks /\ dispatching' = Wire(p)
    BY <1>5 DEF Arrive, DispatcherRead, Emit
  <2>1. \A w \in DecoderIds : /\ Ahead(w) = Elements(packet_queue[w])
                              /\ Ahead(w)' = IF w = LaneOf(p.block) THEN Ahead(w) \cup {Wire(p)}
                                               ELSE Ahead(w)
    BY <1>5, ArriveAhead
  <2>2. QueuesSorted'
    <3>1. \A w \in DecoderIds : Sorted(packet_queue'[w])
      BY <2>0 DEF PipeInv, QueuesSorted
    <3>2. Target' = LaneOf(p.block) /\ Wire(p).block = p.block
      BY <2>0, WireLane DEF Target
    <3>3. \A w \in DecoderIds : w = LaneOf(p.block) =>
            \A x \in Elements(packet_queue[w]) : x.block <= p.block
      BY <2>0, <2>1, ArriveLast DEF PipeInv
    <3> QED
      BY <2>0, <3>1, <3>2, <3>3 DEF QueuesSorted
  <2>3. PacketsAhead'
    BY <2>0, <2>1, WireLane DEF PipeInv, PacketsAhead, Got
  <2> QED
    BY <1>1, <2>2, <2>3 DEF PipeInv
<1>6. CASE Quiet
  BY <1>2, <1>6 DEF Quiet, FromTheFront, streamVars, linkVars
<1>7. ASSUME NEW v \in DecoderIds, Takes(v) PROVE PipeInv'
  <2>1. \A w \in DecoderIds : Ahead(w)' \subseteq Ahead(w)
    BY <1>7, TakesHead
  <2> QED
    BY <1>2, <1>7, <2>1, TakesHead DEF streamVars, linkVars
<1>8. ASSUME NEW v \in DecoderIds, PutsOut(v) PROVE PipeInv'
  <2>1. /\ \A w \in DecoderIds : Ahead(w)' = Ahead(w)
        /\ QueuesSorted'
    BY <1>8, AheadUnchanged, QueuesSortedUnchanged DEF PutsOut, DecoderSend, dispatcherVars
  <2> QED
    BY <1>2, <1>8, <2>1 DEF PutsOut, streamVars, linkVars
<1>9. CASE Restart
  <2>1. \A w \in DecoderIds : Ahead(w)' = {} /\ Elements(packet_queue'[w]) = {}
    BY <1>9 DEF Restart, NextDecoder, Ahead, Elements
  <2>2. \A w \in DecoderIds : Sorted(packet_queue'[w])
    BY <1>9 DEF Restart, NextDecoder, Sorted
  <2> QED
    BY <1>1, <2>1, <2>2 DEF PipeInv, QueuesSorted, PacketsAhead
<1> QED
  BY <1>3, <1>4, <1>5, <1>6, <1>7, <1>8, <1>9, NextCases

-----------------------------------------------------------------------------
(* The order of the blocks of a lane: what has been put out is no later    *)
(* than what is kept, which is no later than what is on its way.           *)

(* The blocks put out before the running decoder was created.              *)
Last == starts[Len(starts)]

KeptRight ==
  \A w \in DecoderIds :
    /\ \A q \in current_decoder[w] :
         /\ Got(q.block)
         /\ q.id = blocks[q.block] /\ q.id = current_block_id[w]
         /\ LaneOf(q.block) = w
    /\ current_block_id[w] = NoId => current_decoder[w] = {}

SendingRight ==
  \A w \in DecoderIds : decoder[w] = "sending" =>
    /\ current_block_is_decoded[w]
    /\ decoded_block[w] \subseteq {q.block : q \in current_decoder[w]}

PutSeen == \A i \in 1 .. Len(Put) : \A a \in Put[i] : Seen(a)

PutBelowAhead ==
  \A w \in DecoderIds : \A i \in 1 .. Len(Put) : \A a \in Put[i] :
    LaneOf(a) = w => \A x \in Ahead(w) : a <= x.block

(* A block that the block decoder has yet to put out comes after those of  *)
(* its lane that were, or is put out again by another decoder.             *)
PutBelowKept ==
  \A w \in DecoderIds : \A i \in 1 .. Len(Put) : \A a \in Put[i] :
    LaneOf(a) = w => \A q \in current_decoder[w] :
      \/ current_block_is_decoded[w] /\ decoder[w] # "sending"
      \/ a < q.block
      \/ a = q.block /\ i <= Last

(* Block c is the last that the block decoder has looked at and found to   *)
(* be new, or that has added to what it keeps.                             *)
MarkAt(w, c) ==
  /\ Seen(c)
  /\ LaneOf(c) = w
  /\ blocks[c] = current_block_id[w]
  /\ \A x \in Ahead(w) : c <= x.block
  /\ \A q \in current_decoder[w] : q.block <= c
  /\ \A i \in Last + 1 .. Len(Put) : \A a \in Put[i] : LaneOf(a) = w =>
       a <= c /\ (~current_block_is_decoded[w] => a < c)

CurrentMark ==
  \A w \in DecoderIds :
    /\ current_block_id[w] = NoId =>
         \A i \in Last + 1 .. Len(Put) : \A a \in Put[i] : LaneOf(a) # w
    /\ current_block_id[w] # NoId => \E c \in Block : MarkAt(w, c)

OlderDecoder(i, j) == \E k \in 1 .. Len(starts) : i <= starts[k] /\ starts[k] < j

PutOrder ==
  \A i, j \in 1 .. Len(Put) : i < j =>
    \A a \in Put[i], b \in Put[j] :
      LaneOf(a) = LaneOf(b) => a < b \/ (a = b /\ OlderDecoder(i, j))

OrderInv ==
  /\ KeptRight /\ SendingRight
  /\ PutSeen /\ PutBelowAhead /\ PutBelowKept
  /\ CurrentMark
  /\ PutOrder

LEMMA OrderTypes ==
  ASSUME TypeOK, starts # << >>
  PROVE  /\ Last \in Nat /\ Last <= Len(output) /\ Last <= Len(Put) /\ Len(Put) \in Nat
         /\ Len(starts) \in Nat /\ Len(starts) \in 1 .. Len(starts)
         /\ \A k \in 1 .. Len(starts) : starts[k] \in Nat /\ starts[k] <= Len(Put)
         /\ \A w \in DecoderIds : \A q \in current_decoder[w] : q \in WirePacket /\ q.block \in Nat
         /\ \A i \in 1 .. Len(Put) : \A a \in Put[i] : a \in Nat
<1>1. /\ starts \in Seq(0 .. Len(output)) /\ Len(output) \in Nat /\ Len(Put) \in Nat
      /\ Len(output) <= Len(Put) /\ Put \in Seq(SUBSET Nat)
  BY PutType DEF TypeOK
<1>2. Len(starts) \in Nat /\ Len(starts) \in 1 .. Len(starts)
  BY <1>1
<1>3. \A k \in 1 .. Len(starts) : starts[k] \in 0 .. Len(output)
  BY <1>1
<1>4. \A w \in DecoderIds : \A q \in current_decoder[w] : q \in WirePacket /\ q.block \in Nat
  BY DEF TypeOK, DecoderTypeOK, WirePacket
<1>5. \A i \in 1 .. Len(Put) : \A a \in Put[i] : a \in Nat
  BY <1>1
<1> QED
  BY <1>1, <1>2, <1>3, <1>4, <1>5 DEF Last

(* Steps that take nothing and put nothing out.                            *)
LEMMA NothingTakenKeepsOrder ==
  ASSUME TypeOK, OrderInv, starts # << >>,
         UNCHANGED <<starts, arrived, blockVars>>,
         \A p \in emitted : p \in emitted',
         \A b \in Block : b \in Block' /\ blocks'[b] = blocks[b] /\ LaneOf(b)' = LaneOf(b),
         PrefixOf(Put', Put),
         \A w \in DecoderIds :
           /\ Ahead(w)' \subseteq Ahead(w)
           /\ decoder'[w] = "sending" => decoder[w] = "sending",
         TypeOK'
  PROVE  OrderInv'
<1> USE DEF blockVars
<1>1. /\ \A b : Seen(b) => Seen(b)' /\ b \in Block /\ LaneOf(b)' = LaneOf(b) /\ blocks'[b] = blocks[b]
      /\ \A b : Got(b) => Got(b)' /\ Seen(b)
      /\ Last' = Last
  BY StreamTypes DEF Seen, Got, Last
<1>2. Len(Put) \in Nat /\ Len(Put') \in Nat /\ Last \in Nat /\ Len(Put') <= Len(Put)
  BY PutType, OrderTypes DEF PrefixOf
<1>3. \A i \in 1 .. Len(Put') : /\ i \in 1 .. Len(Put) /\ Put'[i] = Put[i]
                                /\ \A a \in Put'[i] : Seen(a)
  BY <1>2 DEF PrefixOf, OrderInv, PutSeen
<1>4. \A i \in Last + 1 .. Len(Put') : i \in Last + 1 .. Len(Put) /\ i \in 1 .. Len(Put')
  BY <1>2
<1>5. KeptRight'
  BY <1>1 DEF OrderInv, KeptRight
<1>6. SendingRight'
  BY DEF OrderInv, SendingRight
<1>7. PutSeen'
  BY <1>1, <1>3 DEF PutSeen
<1>8. PutBelowAhead'
  BY <1>1, <1>3 DEF OrderInv, PutBelowAhead
<1>9. PutBelowKept'
  BY <1>1, <1>3 DEF OrderInv, PutBelowKept
<1>10. CurrentMark'
  <2> SUFFICES ASSUME NEW w \in DecoderIds
               PROVE  /\ current_block_id[w] = NoId =>
                           \A i \in Last + 1 .. Len(Put') : \A a \in Put'[i] : LaneOf(a)' # w
                      /\ current_block_id[w] # NoId => \E c \in Block' : MarkAt(w, c)'
    BY <1>1 DEF CurrentMark
  <2>1. CASE current_block_id[w] = NoId
    BY <1>1, <1>3, <1>4, <2>1 DEF OrderInv, CurrentMark
  <2>2. CASE current_block_id[w] # NoId
    <3>1. PICK c \in Block : MarkAt(w, c)
      BY <2>2 DEF OrderInv, CurrentMark
    <3>2. MarkAt(w, c)'
      BY <1>1, <1>3, <1>4, <3>1 DEF MarkAt
    <3> QED
      BY <2>2, <3>2
  <2> QED
    BY <2>1, <2>2
<1>11. PutOrder'
  BY <1>1, <1>3 DEF OrderInv, PutOrder, OlderDecoder
<1> QED
  BY <1>5, <1>6, <1>7, <1>8, <1>9, <1>10, <1>11 DEF OrderInv

LEMMA ArriveKeepsOrder ==
  ASSUME SameWorkers, TypeOK, StreamInv, PipeInv, OrderInv, starts # << >>,
         NEW p, Arrive(p)
  PROVE  OrderInv'
<1>0. /\ Emit(p) /\ blocks' = blocks /\ arrived' = arrived \cup {p}
      /\ emitted' = emitted \cup {p}
      /\ UNCHANGED <<starts, decoder, current_block_id, current_decoder,
                     current_block_is_decoded, decoded_block, output, forwarder,
                     forwarding, block_queue>>
  BY DEF Arrive, DispatcherRead, Emit, decoderVars, forwarderVars
<1>1. Put' = Put /\ Last' = Last /\ Block' = Block /\ \A b : LaneOf(b)' = LaneOf(b)
  BY <1>0 DEF Put, Last, Block, LaneOf
<1>2. \A b : (Seen(b) => Seen(b)' /\ b \in Block) /\ (Got(b) => Got(b)')
  BY <1>0, StreamTypes DEF Seen, Got
<1>3. \A b : Seen(b) /\ LaneOf(b) = LaneOf(p.block) => b <= p.block
  BY <1>0, EmittedInOrder DEF Seen
<1>4. \A w \in DecoderIds : Ahead(w)' = IF w = LaneOf(p.block) THEN Ahead(w) \cup {Wire(p)}
                                         ELSE Ahead(w)
  BY ArriveAhead
<1>5. Wire(p).block = p.block
  BY <1>0, WireLane
<1>6. KeptRight' /\ SendingRight' /\ PutSeen'
  BY <1>0, <1>1, <1>2 DEF OrderInv, KeptRight, SendingRight, PutSeen
<1>7. PutBelowAhead'
  BY <1>1, <1>3, <1>4, <1>5 DEF OrderInv, PutBelowAhead, PutSeen
<1>8. PutBelowKept' /\ PutOrder'
  BY <1>0, <1>1 DEF OrderInv, PutBelowKept, PutOrder, OlderDecoder
<1>9. CurrentMark'
  <2>1. \A w \in DecoderIds, c \in Block : MarkAt(w, c) => MarkAt(w, c)'
    BY <1>0, <1>1, <1>2, <1>3, <1>4, <1>5 DEF MarkAt
  <2> QED
    BY <1>0, <1>1, <2>1 DEF OrderInv, CurrentMark
<1> QED
  BY <1>6, <1>7, <1>8, <1>9 DEF OrderInv

(* What is known of the packet that a block decoder looks at.              *)
LEMMA HeadFacts ==
  ASSUME SameWorkers, TypeOK, PipeInv, NEW v \in DecoderIds, packet_queue[v] # << >>
  PROVE  LET h == Head(packet_queue[v]) IN
           /\ h \in Ahead(v) /\ h \in WirePacket
           /\ Got(h.block) /\ Seen(h.block) /\ h.block \in Block /\ h.block \in Nat
           /\ h.id = blocks[h.block] /\ h.id \in BlockId
           /\ LaneOf(h.block) = v
           /\ \A x \in Ahead(v) : h.block <= x.block
<1> DEFINE h == Head(packet_queue[v])
<1>1. packet_queue[v] \in Seq(WirePacket) /\ Sorted(packet_queue[v])
  BY QueueTypes DEF TypeOK, PipeInv, QueuesSorted
<1>2. h \in Ahead(v)
  BY <1>1, SortedTail DEF Ahead
<1>3. /\ h \in WirePacket /\ Got(h.block) /\ h.id = blocks[h.block]
      /\ Lane(h.id, NumBlockDecoders) = v
  BY <1>2 DEF PipeInv, PacketsAhead
<1>4. Seen(h.block) /\ h.block \in Block /\ h.block \in Nat
  BY <1>3, StreamTypes DEF Got, Seen
<1>5. LaneOf(h.block) = v /\ h.id \in BlockId
  BY <1>3 DEF LaneOf, SameWorkers, WirePacket
<1>6. \A x \in Ahead(v) : h.block <= x.block
  <2>1. \A x \in Elements(packet_queue[v]) : h.block <= x.block
    BY <1>1, SortedTail
  <2>2. h \in Elements(packet_queue[v])
    BY <1>1, SortedTail
  <2> QED
    BY <2>1, <2>2 DEF Ahead, PipeInv, QueuesSorted
<1> QED
  BY <1>2, <1>3, <1>4, <1>5, <1>6

(* What try_decode works on: the packet, and what was kept of the current  *)
(* block if the packet carries its id.                                     *)
LEMMA KeptForElements ==
  ASSUME NEW w, NEW p, NEW q \in KeptFor(w, p)
  PROVE  q = p \/ (IsCurrent(w, p) /\ q \in current_decoder[w])
  BY DEF KeptFor, Keep, Esis

LEMMA TriesEffect ==
  ASSUME TypeOK, NEW v \in DecoderIds, NEW decoded \in BOOLEAN,
         DecoderTries(v, decoded)
  PROVE  LET h == Head(packet_queue[v]) IN
           /\ packet_queue[v] # << >> /\ decoder[v] = "receiving"
           /\ ~(IsCurrent(v, h) /\ current_block_is_decoded[v])
           /\ current_block_id'[v] = h.id
           /\ current_decoder'[v] = KeptFor(v, h)
           /\ current_block_is_decoded'[v] = decoded
           /\ decoder'[v] = IF decoded THEN "sending" ELSE "receiving"
           /\ decoded => decoded_block'[v] = Contents(KeptFor(v, h))
           /\ \A w \in DecoderIds : w # v =>
                /\ current_block_id'[w] = current_block_id[w]
                /\ current_decoder'[w] = current_decoder[w]
                /\ current_block_is_decoded'[w] = current_block_is_decoded[w]
                /\ decoder'[w] = decoder[w]
                /\ decoded_block'[w] = decoded_block[w]
  BY DEF DecoderTries, Marked, TypeOK, DecoderTypeOK

LEMMA TriesKeepsOrder ==
  ASSUME SameWorkers, TypeOK, PipeInv, OrderInv, starts # << >>,
         NEW v \in DecoderIds, NEW decoded \in BOOLEAN,
         DecoderTries(v, decoded), Takes(v)
  PROVE  OrderInv'
<1> DEFINE h    == Head(packet_queue[v])
           kept == KeptFor(v, h)
<1>1. /\ packet_queue[v] # << >> /\ decoder[v] = "receiving"
      /\ ~(IsCurrent(v, h) /\ current_block_is_decoded[v])
      /\ current_block_id'[v] = h.id
      /\ current_decoder'[v] = kept
      /\ current_block_is_decoded'[v] = decoded
      /\ decoder'[v] = IF decoded THEN "sending" ELSE "receiving"
      /\ decoded => decoded_block'[v] = Contents(kept)
      /\ \A w \in DecoderIds : w # v =>
           /\ current_block_id'[w] = current_block_id[w]
           /\ current_decoder'[w] = current_decoder[w]
           /\ current_block_is_decoded'[w] = current_block_is_decoded[w]
           /\ decoder'[w] = decoder[w]
           /\ decoded_block'[w] = decoded_block[w]
  BY TriesEffect
<1>2. /\ h \in Ahead(v) /\ h \in WirePacket
      /\ Got(h.block) /\ Seen(h.block) /\ h.block \in Block /\ h.block \in Nat
      /\ h.id = blocks[h.block] /\ h.id \in BlockId
      /\ LaneOf(h.block) = v
      /\ \A x \in Ahead(v) : h.block <= x.block
  BY <1>1, HeadFacts
<1>3. \A q \in kept : q = h \/ (IsCurrent(v, h) /\ q \in current_decoder[v])
  BY KeptForElements
<1>4. /\ UNCHANGED <<blocks, emitted, arrived, starts, Put>>
      /\ \A w \in DecoderIds : Ahead(w)' \subseteq Ahead(w)
  BY TakesHead DEF streamVars, linkVars
<1>5. /\ Last' = Last /\ Block' = Block /\ \A b : LaneOf(b)' = LaneOf(b)
      /\ \A b : Seen(b)' = Seen(b) /\ Got(b)' = Got(b)
  BY <1>4 DEF Last, Block, LaneOf, Seen, Got
<1>6. kept \in SUBSET WirePacket
  BY <1>2, <1>3 DEF TypeOK, DecoderTypeOK
<1>7. h.id # NoId
  BY <1>2 DEF BlockId, NoId
<1> HIDE DEF h, kept
<1>8. KeptRight'
  <2>1. \A q \in kept : /\ Got(q.block) /\ q.id = blocks[q.block] /\ q.id = h.id
                        /\ LaneOf(q.block) = v
    BY <1>2, <1>3 DEF OrderInv, KeptRight, IsCurrent
  <2> QED
    BY <1>1, <1>4, <1>5, <1>7, <2>1 DEF OrderInv, KeptRight
<1>9. SendingRight'
  <2>1. Contents(kept) \subseteq {q.block : q \in kept}
    BY <1>6, ContentsType
  <2>2. decoded => current_block_is_decoded'[v]
    BY <1>1
  <2> QED
    BY <1>1, <2>1, <2>2 DEF OrderInv, SendingRight
<1>10. PutSeen' /\ PutOrder'
  BY <1>4, <1>5 DEF OrderInv, PutSeen, PutOrder, OlderDecoder
<1>11. PutBelowAhead'
  BY <1>4, <1>5 DEF OrderInv, PutBelowAhead
<1>12. ASSUME NEW i \in 1 .. Len(Put), NEW a \in Put[i], LaneOf(a) = v
       PROVE  a < h.block \/ (a = h.block /\ i <= Last)
  <2>1. a <= h.block /\ a \in Nat /\ Last \in Nat
    BY <1>2, <1>12, OrderTypes DEF OrderInv, PutBelowAhead
  <2>2. ASSUME i > Last, a = h.block PROVE FALSE
    <3>1. i \in Last + 1 .. Len(Put)
      BY <2>1, <2>2
    <3>2. PICK c \in Block : MarkAt(v, c)
      BY <1>12, <3>1 DEF OrderInv, CurrentMark
    <3>3. /\ a <= c /\ c <= h.block /\ c \in Nat
          /\ ~current_block_is_decoded[v] => a < c
      BY <1>2, <1>12, <3>1, <3>2, StreamTypes DEF MarkAt
    <3>4. c = h.block
      BY <2>1, <2>2, <3>3
    <3>5. IsCurrent(v, h)
      BY <1>2, <3>2, <3>4 DEF MarkAt, IsCurrent
    <3> QED
      BY <1>1, <2>1, <2>2, <3>3, <3>4, <3>5
  <2>3. i \in Nat /\ h.block \in Nat
    BY <1>2, OrderTypes
  <2> QED
    BY <2>1, <2>2, <2>3
<1>13. PutBelowKept'
  <2>1. ASSUME NEW i \in 1 .. Len(Put), NEW a \in Put[i], LaneOf(a) = v, NEW q \in kept
        PROVE  a < q.block \/ (a = q.block /\ i <= Last)
    <3>1. CASE q = h
      BY <1>12, <2>1, <3>1
    <3>2. CASE IsCurrent(v, h) /\ q \in current_decoder[v]
      BY <1>1, <2>1, <3>2 DEF OrderInv, PutBelowKept
    <3> QED
      BY <1>3, <3>1, <3>2
  <2> QED
    BY <1>1, <1>4, <1>5, <2>1 DEF OrderInv, PutBelowKept
<1>14. CurrentMark'
  <2>0. PICK d \in Block : d = h.block
    BY <1>2
  <2>1. MarkAt(v, d)'
    <3>1. \A q \in kept : q.block <= h.block
      <4> SUFFICES ASSUME NEW q \in kept, IsCurrent(v, h), q \in current_decoder[v]
                   PROVE  q.block <= h.block
        BY <1>2, <1>3
      <4>1. PICK c \in Block : MarkAt(v, c)
        BY <1>7 DEF OrderInv, CurrentMark, IsCurrent
      <4>2. q.block <= c /\ c <= h.block /\ q.block \in Nat /\ c \in Nat
        BY <1>2, <4>1, OrderTypes, StreamTypes DEF MarkAt
      <4> QED
        BY <1>2, <4>2
    <3>2. \A i \in Last + 1 .. Len(Put) : \A a \in Put[i] : LaneOf(a) = v => a < h.block
      <4> SUFFICES ASSUME NEW i \in Last + 1 .. Len(Put), NEW a \in Put[i], LaneOf(a) = v
                   PROVE  a < h.block
        OBVIOUS
      <4>1. i \in 1 .. Len(Put) /\ ~(i <= Last)
        BY OrderTypes
      <4> QED
        BY <1>12, <4>1
    <3>3. \A i \in Last + 1 .. Len(Put) : \A a \in Put[i] : a \in Nat
      BY OrderTypes
    <3> QED
      BY <1>1, <1>2, <1>4, <1>5, <2>0, <3>1, <3>2, <3>3 DEF MarkAt
  <2>2. \A w \in DecoderIds, c \in Block : w # v /\ MarkAt(w, c) => MarkAt(w, c)'
    BY <1>1, <1>4, <1>5 DEF MarkAt
  <2> QED
    BY <1>1, <1>4, <1>5, <1>7, <2>1, <2>2 DEF OrderInv, CurrentMark
<1> QED
  BY <1>8, <1>9, <1>10, <1>11, <1>13, <1>14 DEF OrderInv

LEMMA PutsOutEffect ==
  ASSUME TypeOK, NEW v \in DecoderIds, PutsOut(v)
  PROVE  /\ Put' = Append(Put, decoded_block[v])
         /\ decoder[v] = "sending" /\ decoder'[v] = "receiving"
         /\ \A w \in DecoderIds : w # v => decoder'[w] = decoder[w]
         /\ \A w \in DecoderIds : Ahead(w)' = Ahead(w)
         /\ UNCHANGED <<streamVars, linkVars, blockVars>>
<1>1. /\ block_queue' = Append(block_queue, decoded_block[v])
      /\ UNCHANGED <<packet_queue, dispatcher, dispatching, output, forwarder, forwarding>>
      /\ decoder' = [decoder EXCEPT ![v] = "receiving"] /\ decoder[v] = "sending"
      /\ UNCHANGED <<streamVars, linkVars, blockVars>>
  BY DEF PutsOut, DecoderSend, HasBlock, dispatcherVars, forwarderVars
<1> DEFINE front == output \o (IF forwarder = "writing" THEN <<forwarding>> ELSE << >>)
<1>2. /\ block_queue \in Seq(SUBSET Nat) /\ decoded_block[v] \in SUBSET Nat
      /\ decoder \in [DecoderIds -> ThreadState({"receiving", "sending"})]
      /\ output \in Seq(SUBSET Nat) /\ forwarding \in SUBSET Nat
  BY DEF TypeOK, DecoderTypeOK
<1>3. front \in Seq(SUBSET Nat)
  <2>1. <<forwarding>> \in Seq(SUBSET Nat) /\ << >> \in Seq(SUBSET Nat)
    BY <1>2
  <2>2. (IF forwarder = "writing" THEN <<forwarding>> ELSE << >>) \in Seq(SUBSET Nat)
    BY <2>1, Zenon
  <2> QED
    BY <1>2, <2>2
<1>4. Put = front \o block_queue /\ Put' = front \o Append(block_queue, decoded_block[v])
  BY <1>1 DEF Put
<1> HIDE DEF front
<1>5. front \o Append(block_queue, decoded_block[v]) =
        Append(front \o block_queue, decoded_block[v])
  BY <1>2, <1>3
<1>6. \A w \in DecoderIds : Ahead(w)' = Ahead(w)
  BY <1>1, AheadUnchanged
<1> QED
  BY <1>1, <1>2, <1>4, <1>5, <1>6

LEMMA PutsOutKeepsOrder ==
  ASSUME TypeOK, PipeInv, OrderInv, starts # << >>, NEW v \in DecoderIds, PutsOut(v)
  PROVE  OrderInv'
<1> DEFINE S == decoded_block[v]
           n == Len(Put)
<1>1. /\ Put' = Append(Put, S)
      /\ decoder[v] = "sending" /\ decoder'[v] = "receiving"
      /\ \A w \in DecoderIds : w # v => decoder'[w] = decoder[w]
      /\ \A w \in DecoderIds : Ahead(w)' = Ahead(w)
      /\ UNCHANGED <<blocks, emitted, arrived, starts, current_block_id, current_decoder,
                     current_block_is_decoded, decoded_block>>
  BY PutsOutEffect DEF streamVars, linkVars, blockVars
<1>2. /\ n \in Nat /\ Len(Put') = n + 1 /\ Put'[n + 1] = S
      /\ \A i \in 1 .. n : Put'[i] = Put[i]
  BY <1>1, PutType
<1>3. /\ Last' = Last /\ Block' = Block /\ \A b : LaneOf(b)' = LaneOf(b)
      /\ \A b : Seen(b)' = Seen(b) /\ Got(b)' = Got(b)
      /\ Last \in Nat /\ Last <= n
      /\ Len(starts) \in 1 .. Len(starts)
  BY <1>1, OrderTypes DEF Last, Block, LaneOf, Seen, Got
<1>4. \A b \in S : \E q \in current_decoder[v] : q.block = b
  BY <1>1 DEF OrderInv, SendingRight
<1>5. current_block_is_decoded[v]
  BY <1>1 DEF OrderInv, SendingRight
<1>6. \A b \in S : Seen(b) /\ LaneOf(b) = v /\ current_block_id[v] # NoId
  BY <1>4, StreamTypes DEF OrderInv, KeptRight, Got, Seen
<1> HIDE DEF S, n
<1>7. KeptRight' /\ SendingRight'
  BY <1>1, <1>3 DEF OrderInv, KeptRight, SendingRight
<1>8. PutSeen'
  BY <1>2, <1>3, <1>6 DEF OrderInv, PutSeen, n
<1>9. ASSUME NEW c \in Block, MarkAt(v, c)
      PROVE  MarkAt(v, c)' /\ \A b \in S : \A x \in Ahead(v) : b <= x.block
  <2>1. \A b \in S : b <= c /\ b \in Nat /\ c \in Nat
    BY <1>4, <1>9, OrderTypes, StreamTypes DEF MarkAt
  <2>2. \A i \in Last + 1 .. n + 1 : i = n + 1 \/ i \in Last + 1 .. n
    BY <1>2, <1>3
  <2>3. \A i \in Last + 1 .. n : i \in 1 .. n
    BY <1>2, <1>3
  <2>4. \A i \in Last + 1 .. n + 1 : \A a \in Put'[i] : LaneOf(a) = v => a <= c
    BY <1>2, <1>9, <2>1, <2>2, <2>3 DEF MarkAt, n
  <2>5. MarkAt(v, c)'
    BY <1>1, <1>2, <1>3, <1>5, <1>9, <2>4 DEF MarkAt
  <2>6. ASSUME NEW b \in S, NEW x \in Ahead(v) PROVE b <= x.block
    <3>1. PICK q \in current_decoder[v] : q.block = b
      BY <1>4, <2>6
    <3>2. b <= c /\ c <= x.block /\ b \in Nat /\ c \in Nat
      BY <1>9, <2>1, <2>6 DEF MarkAt
    <3>3. x.block \in Nat
      BY <2>6 DEF PipeInv, PacketsAhead, WirePacket
    <3> QED
      BY <3>2, <3>3
  <2> QED
    BY <2>5, <2>6
<1>10. S # {} => \E c \in Block : MarkAt(v, c)
  BY <1>6 DEF OrderInv, CurrentMark
<1>11. PutBelowAhead'
  BY <1>1, <1>2, <1>3, <1>6, <1>9, <1>10 DEF OrderInv, PutBelowAhead, n
<1>12. PutBelowKept'
  BY <1>1, <1>2, <1>3, <1>5, <1>6 DEF OrderInv, PutBelowKept, n
<1>13. CurrentMark'
  <2>1. \A i \in Last + 1 .. n + 1 : i = n + 1 \/ (i \in Last + 1 .. n /\ i \in 1 .. n)
    BY <1>2, <1>3
  <2>2. \A w \in DecoderIds, c \in Block : w # v /\ MarkAt(w, c) => MarkAt(w, c)'
    BY <1>1, <1>2, <1>3, <1>6, <2>1 DEF MarkAt, n
  <2>3. \A w \in DecoderIds :
          (\A i \in Last + 1 .. n : \A a \in Put[i] : LaneOf(a) # w)
            /\ (S = {} \/ w # v) =>
          \A i \in Last + 1 .. n + 1 : \A a \in Put'[i] : LaneOf(a) # w
    BY <1>2, <1>6, <2>1
  <2>4. S # {} => current_block_id[v] # NoId
    BY <1>6
  <2> QED
    BY <1>1, <1>2, <1>3, <1>9, <2>2, <2>3, <2>4 DEF OrderInv, CurrentMark, n
<1>14. PutOrder'
  <2> SUFFICES ASSUME NEW i \in 1 .. n + 1, NEW j \in 1 .. n + 1, i < j,
                      NEW a \in Put'[i], NEW b \in Put'[j], LaneOf(a) = LaneOf(b)
               PROVE  a < b \/ (a = b /\ OlderDecoder(i, j))
    BY <1>1, <1>2, <1>3 DEF PutOrder, OlderDecoder
  <2>1. CASE j \in 1 .. n
    <3>1. i \in 1 .. n
      BY <1>2, <2>1
    <3> QED
      BY <1>2, <2>1, <3>1 DEF OrderInv, PutOrder, n
  <2>2. CASE j = n + 1
    <3>1. i \in 1 .. n /\ a \in Put[i] /\ b \in S
      BY <1>2, <2>2
    <3>2. PICK q \in current_decoder[v] : q.block = b
      BY <1>4, <3>1
    <3>3. LaneOf(a) = v
      BY <1>6, <3>1
    <3>4. a < b \/ (a = b /\ i <= Last)
      BY <1>1, <3>1, <3>2, <3>3 DEF OrderInv, PutBelowKept, n
    <3>5. i <= Last => OlderDecoder(i, j)
      BY <1>2, <1>3, <2>2 DEF OlderDecoder, Last
    <3> QED
      BY <3>4, <3>5
  <2> QED
    BY <1>2, <2>1, <2>2
<1> QED
  BY <1>7, <1>8, <1>11, <1>12, <1>13, <1>14 DEF OrderInv

LEMMA RestartKeepsOrder ==
  ASSUME TypeOK, PipeInv, OrderInv, starts # << >>, Restart
  PROVE  OrderInv'
<1>1. Put' = output /\ PrefixOf(output, Put) /\ Len(output) \in Nat /\ Len(Put) \in Nat
      /\ Len(output) <= Len(Put)
  <2>1. Put' = output \o << >> \o << >>
    BY DEF Restart, NextDecoder, Put
  <2>2. Put' = output
    BY <2>1, PutType
  <2> QED
    BY <2>2, PutType
<1>2. /\ starts \in Seq(0 .. Len(output)) /\ starts' = Append(starts, Len(output))
      /\ UNCHANGED <<blocks, emitted>>
  BY DEF Restart, TypeOK, streamVars
<1>3. /\ Last' = Len(output)
      /\ Len(starts') = Len(starts) + 1
      /\ \A k \in 1 .. Len(starts) : starts'[k] = starts[k] /\ k \in 1 .. Len(starts')
  BY <1>1, <1>2 DEF Last
<1>4. Block' = Block /\ (\A b : LaneOf(b)' = LaneOf(b)) /\ \A b : Seen(b)' = Seen(b)
  BY <1>2 DEF Block, LaneOf, Seen
<1>5. \A i \in 1 .. Len(Put') : i \in 1 .. Len(Put) /\ Put'[i] = Put[i]
  BY <1>1 DEF PrefixOf
<1>6. \A w \in DecoderIds : /\ Ahead(w)' = {} /\ current_decoder'[w] = {}
                            /\ current_block_id'[w] = NoId /\ decoder'[w] = "none"
  BY DEF Restart, NextDecoder, NewBlockDecoders, Ahead, Elements
<1>7. KeptRight' /\ SendingRight' /\ PutBelowAhead' /\ PutBelowKept'
  BY <1>6 DEF KeptRight, SendingRight, PutBelowAhead, PutBelowKept
<1>8. PutSeen'
  BY <1>4, <1>5 DEF OrderInv, PutSeen
<1>9. CurrentMark'
  <2>1. (Last + 1 .. Len(Put))' = {}
    BY <1>1, <1>3
  <2> QED
    BY <1>6, <2>1 DEF CurrentMark
<1>10. PutOrder'
  <2>1. \A i, j : OlderDecoder(i, j) => OlderDecoder(i, j)'
    BY <1>3 DEF OlderDecoder
  <2> QED
    BY <1>4, <1>5, <2>1 DEF OrderInv, PutOrder
<1> QED
  BY <1>7, <1>8, <1>9, <1>10 DEF OrderInv

LEMMA IgnoresKeepsOrder ==
  ASSUME TypeOK, PipeInv, OrderInv, starts # << >>, NEW v \in DecoderIds,
         DecoderIgnores(v), Takes(v), TypeOK'
  PROVE  OrderInv'
<1>1. UNCHANGED <<streamVars, linkVars, Put, blockVars, decoder>>
      /\ \A w \in DecoderIds : Ahead(w)' \subseteq Ahead(w)
  BY TakesHead DEF DecoderIgnores, decoderVars, blockVars
<1>2. PrefixOf(Put', Put)
  BY <1>1, PutType, PrefixRefl
<1>3. \A b \in Block : b \in Block' /\ blocks'[b] = blocks[b] /\ LaneOf(b)' = LaneOf(b)
  BY <1>1 DEF streamVars, Block, LaneOf
<1> QED
  BY <1>1, <1>2, <1>3, NothingTakenKeepsOrder DEF streamVars, linkVars

(* Every block that has been written was written by one decoder.           *)
Wrote(k, i) == starts[k] < i /\ (k < Len(starts) => i <= starts[k + 1])

StartsInv ==
  /\ starts # << >>
  /\ \A k, l \in 1 .. Len(starts) : k <= l => starts[k] <= starts[l]
  /\ \A i \in 1 .. Len(output) : \E k \in 1 .. Len(starts) : Wrote(k, i)

LEMMA StartsTypes ==
  TypeOK => /\ Len(output) \in Nat /\ Len(starts) \in Nat
            /\ \A k \in 1 .. Len(starts) : starts[k] \in Nat /\ starts[k] <= Len(output)
<1> SUFFICES ASSUME TypeOK
             PROVE  /\ Len(output) \in Nat /\ Len(starts) \in Nat
                    /\ \A k \in 1 .. Len(starts) : starts[k] \in Nat /\ starts[k] <= Len(output)
  OBVIOUS
<1>1. starts \in Seq(0 .. Len(output)) /\ Len(output) \in Nat
  BY PutType DEF TypeOK
<1> QED
  BY <1>1

LEMMA OutputGrows ==
  ASSUME TypeOK, [Next]_vars, ~Restart
  PROVE  starts' = starts /\ (output' = output \/ Len(output') = Len(output) + 1)
<1>1. ASSUME Decode PROVE starts' = starts /\ (output' = output \/ Len(output') = Len(output) + 1)
  <2>1. CASE ForwarderSteps
    <3>1. output \in Seq(SUBSET Nat) /\ forwarding \in SUBSET Nat
      BY DEF TypeOK, DecoderTypeOK
    <3> QED
      BY <1>1, <2>1, <3>1 DEF Decode, linkVars, ForwarderSteps, ForwarderReceive,
         ForwarderWrite, ForwarderWriteFails, ForwarderEnds
  <2> QED
    BY <1>1, <2>1, CallerKeepsTypeOK, DispatcherKeepsTypeOK, DecoderKeepsTypeOK
       DEF Decode, DecoderNext, linkVars, TypeOK
<1> QED
  BY <1>1 DEF Next, Stream, Lose, Arrive, DispatcherRead, Terminated, vars, linkVars,
              codecVars, forwarderVars

LEMMA StartsInvInductive == TypeOK /\ StartsInv /\ [Next]_vars => StartsInv'
<1> SUFFICES ASSUME TypeOK, StartsInv, [Next]_vars PROVE StartsInv'
  OBVIOUS
<1>1. /\ Len(output) \in Nat /\ Len(starts) \in Nat /\ Len(starts) \in 1 .. Len(starts)
      /\ \A k \in 1 .. Len(starts) : starts[k] \in Nat /\ starts[k] <= Len(output)
  BY StartsTypes DEF StartsInv, TypeOK
<1>2. CASE Restart
  <2>1. /\ Len(starts') = Len(starts) + 1 /\ output' = output
        /\ \A k \in 1 .. Len(starts) : starts'[k] = starts[k]
        /\ starts'[Len(starts) + 1] = Len(output) /\ starts' # << >>
    <3>1. /\ starts \in Seq(0 .. Len(output)) /\ output' = output
          /\ starts' = Append(starts, Len(output))
      BY <1>2 DEF Restart, NextDecoder, TypeOK
    <3> QED
      BY <1>1, <3>1
  <2>2. \A k, l \in 1 .. Len(starts') : k <= l => starts'[k] <= starts'[l]
    BY <1>1, <2>1 DEF StartsInv
  <2>3. ASSUME NEW i \in 1 .. Len(output), NEW k \in 1 .. Len(starts), Wrote(k, i)
        PROVE  Wrote(k, i)'
    BY <1>1, <2>1, <2>3 DEF Wrote
  <2> QED
    BY <1>1, <2>1, <2>2, <2>3 DEF StartsInv
<1>3. CASE ~Restart
  <2>1. starts' = starts /\ (output' = output \/ Len(output') = Len(output) + 1)
    BY <1>3, OutputGrows
  <2>2. Wrote(Len(starts), Len(output) + 1)
    BY <1>1 DEF Wrote
  <2>3. \A i \in 1 .. Len(output') : i \in 1 .. Len(output) \/ i = Len(output) + 1
    BY <1>1, <2>1
  <2>4. \A i \in 1 .. Len(output') : \E k \in 1 .. Len(starts) : Wrote(k, i)
    BY <1>1, <2>2, <2>3 DEF StartsInv
  <2> QED
    BY <2>1, <2>4 DEF StartsInv, Wrote
<1> QED
  BY <1>2, <1>3

(* The inductive invariant of the order of the blocks.                     *)
LInv == TypeOK /\ StreamInv /\ PipeInv /\ StartsInv /\ OrderInv

LEMMA OrderInvInductive ==
  ASSUME SameWorkers, LInv, [Next]_vars, TypeOK' PROVE OrderInv'
<1> USE DEF LInv
<1>0. starts # << >>
  BY DEF StartsInv
<1>1. CASE Stream
  <2>1. UNCHANGED <<starts, arrived, blockVars, packet_queue, dispatcher, dispatching,
                    decoder, output, forwarder, forwarding, block_queue>>
    BY <1>1, StreamGrows DEF codecVars, linkVars, blockVars
  <2>2. PrefixOf(Put', Put)
    BY <2>1, PutType, PrefixRefl DEF Put
  <2> QED
    BY <1>0, <1>1, <2>1, <2>2, StreamGrows, AheadUnchanged, NothingTakenKeepsOrder
<1>2. ASSUME NEW p, Lose(p) PROVE OrderInv'
  <2>1. /\ UNCHANGED <<starts, arrived, blockVars, packet_queue, dispatcher, dispatching,
                       decoder, output, forwarder, forwarding, block_queue, blocks>>
        /\ \A q \in emitted : q \in emitted'
    BY <1>2 DEF Lose, Emit, codecVars, linkVars, blockVars
  <2>2. PrefixOf(Put', Put)
    BY <2>1, PutType, PrefixRefl DEF Put
  <2>3. \A b \in Block : b \in Block' /\ blocks'[b] = blocks[b] /\ LaneOf(b)' = LaneOf(b)
    BY <2>1 DEF Block, LaneOf
  <2> QED
    BY <1>0, <2>1, <2>2, <2>3, AheadUnchanged, NothingTakenKeepsOrder
<1>3. ASSUME NEW p, Arrive(p) PROVE OrderInv'
  BY <1>0, <1>3, ArriveKeepsOrder
<1>4. CASE Quiet
  <2>1. /\ UNCHANGED <<starts, arrived, blockVars, blocks, emitted>>
        /\ PrefixOf(Put', Put)
        /\ \A w \in DecoderIds : /\ Ahead(w)' \subseteq Ahead(w)
                                 /\ decoder'[w] = "sending" => decoder[w] = "sending"
    BY <1>4 DEF Quiet, FromTheFront, streamVars, linkVars
  <2>2. \A b \in Block : b \in Block' /\ blocks'[b] = blocks[b] /\ LaneOf(b)' = LaneOf(b)
    BY <2>1 DEF Block, LaneOf
  <2> QED
    BY <1>0, <2>1, <2>2, NothingTakenKeepsOrder
<1>5. ASSUME NEW v \in DecoderIds, Takes(v) PROVE OrderInv'
  BY <1>0, <1>5, IgnoresKeepsOrder, TriesKeepsOrder DEF Takes
<1>6. ASSUME NEW v \in DecoderIds, PutsOut(v) PROVE OrderInv'
  BY <1>0, <1>6, PutsOutKeepsOrder
<1>7. CASE Restart
  BY <1>0, <1>7, RestartKeepsOrder
<1> QED
  BY <1>1, <1>2, <1>3, <1>4, <1>5, <1>6, <1>7, NextCases

LEMMA InitLInv == Init => LInv
<1> SUFFICES ASSUME Init PROVE LInv
  OBVIOUS
<1>1. /\ starts = <<0>> /\ output = << >> /\ Len(output) = 0 /\ Len(starts) = 1
      /\ starts[1] = 0
  BY DEF Init, DecoderInit
<1>2. StartsInv
  BY <1>1 DEF StartsInv
<1>3. Put = << >>
  BY DEF Init, DecoderInit, Put
<1>4. Len(Put) = 0 /\ Last = 0
  BY <1>1, <1>3 DEF Last
<1>5. OrderInv
  <2>1. KeptRight /\ SendingRight
    BY DEF Init, DecoderInit, KeptRight, SendingRight
  <2>2. PutSeen /\ PutBelowAhead /\ PutBelowKept /\ PutOrder
    BY <1>4 DEF PutSeen, PutBelowAhead, PutBelowKept, PutOrder
  <2>3. CurrentMark
    BY <1>4 DEF Init, DecoderInit, CurrentMark
  <2> QED
    BY <2>1, <2>2, <2>3 DEF OrderInv
<1> QED
  BY <1>2, <1>5, InitTypeOK, InitStreamInv, InitPipeInv DEF LInv

LEMMA LInvInvariant == ASSUME SameWorkers PROVE Spec => []LInv
<1>1. LInv /\ [Next]_vars => LInv'
  BY TypeOKInductive, StreamInvInductive, PipeInvInductive, StartsInvInductive,
     OrderInvInductive DEF LInv
<1> QED
  BY <1>1, InitLInv, PTL DEF Spec

LEMMA WrittenByOne ==
  ASSUME TypeOK, StartsInv, NEW i \in 1 .. Len(output)
  PROVE  WrittenBy(i) \in 1 .. Len(starts) /\ Wrote(WrittenBy(i), i)
  BY DEF StartsInv, WrittenBy, Wrote

LEMMA OlderWrites ==
  ASSUME TypeOK, StartsInv, NEW i \in 1 .. Len(output), NEW j \in 1 .. Len(output),
         OlderDecoder(i, j)
  PROVE  WrittenBy(i) < WrittenBy(j)
<1> DEFINE k1 == WrittenBy(i)
           k2 == WrittenBy(j)
<1>1. k1 \in 1 .. Len(starts) /\ k2 \in 1 .. Len(starts) /\ Wrote(k1, i) /\ Wrote(k2, j)
  BY WrittenByOne
<1>2. PICK k \in 1 .. Len(starts) : i <= starts[k] /\ starts[k] < j
  BY DEF OlderDecoder
<1> HIDE DEF k1, k2
<1>3. /\ Len(starts) \in Nat /\ \A l \in 1 .. Len(starts) : starts[l] \in Nat
      /\ i \in Nat /\ j \in Nat
  BY StartsTypes
<1>4. k1 < k
  BY <1>1, <1>2, <1>3 DEF Wrote, StartsInv
<1>5. k <= k2
  <2>1. ASSUME k2 < k PROVE FALSE
    <3>1. k2 + 1 \in 1 .. Len(starts) /\ k2 < Len(starts) /\ k2 + 1 <= k
      BY <1>1, <1>3, <2>1
    <3>2. starts[k2 + 1] <= starts[k] /\ j <= starts[k2 + 1]
      BY <1>1, <3>1 DEF Wrote, StartsInv
    <3> QED
      BY <1>2, <1>3, <3>1, <3>2
  <2> QED
    BY <1>1, <1>3, <2>1
<1> QED
  BY <1>1, <1>3, <1>4, <1>5 DEF k1, k2

(* For any number of workers, ids and packets, whatever is lost and        *)
(* however often encoders and decoders are replaced, the blocks of a lane  *)
(* are written in the order in which they were read, and no decoder writes *)
(* one twice.                                                              *)
THEOREM CodecLaneOutputOrder ==
  ASSUME SameWorkers PROVE Spec => []LaneOutputOrder
<1>1. LInv => LaneOutputOrder
  <2> SUFFICES ASSUME LInv, NEW i \in 1 .. Len(output), NEW j \in 1 .. Len(output), i < j,
                      NEW a \in output[i], NEW b \in output[j], LaneOf(a) = LaneOf(b)
               PROVE  a < b \/ (a = b /\ WrittenBy(i) < WrittenBy(j))
    BY DEF LaneOutputOrder
  <2>1. /\ i \in 1 .. Len(Put) /\ j \in 1 .. Len(Put)
        /\ output[i] = Put[i] /\ output[j] = Put[j]
    BY PutType DEF PrefixOf, LInv
  <2>2. a < b \/ (a = b /\ OlderDecoder(i, j))
    BY <2>1 DEF LInv, OrderInv, PutOrder
  <2> QED
    BY <2>2, OlderWrites DEF LInv
<1> QED
  BY <1>1, LInvInvariant, PTL

-----------------------------------------------------------------------------
(* Packets of different blocks end up together only when their ids are     *)
(* aliased.                                                                *)

(* Every block encoder and decoder has two ids: 128 workers at most.       *)
TwoIdsPerLane == 2 * NumLanes <= BlockIds

(* Nothing that arrived is missing among the packets on their way, behind  *)
(* the first of them.                                                      *)
NothingSkipped ==
  \A w \in DecoderIds : \A r \in arrived, x \in Ahead(w) :
    LaneOf(r.block) = w /\ x.block < r.block => \E y \in Ahead(w) : y.block = r.block

(* What has arrived since the kept packets and is no longer on its way     *)
(* carried the current id, or it would have reset the block decoder.       *)
SinceKept ==
  \A w \in DecoderIds : ~Ended(decoder[w]) =>
    \A q \in current_decoder[w], r \in arrived :
      /\ LaneOf(r.block) = w
      /\ q.block < r.block
      /\ \A x \in Ahead(w) : r.block < x.block
      => blocks[r.block] = current_block_id[w]

KeptAliased ==
  \A w \in DecoderIds : \A q, r \in current_decoder[w] :
    q.block < r.block => Aliased(q.block, r.block)

PutAliased ==
  \A i \in Last + 1 .. Len(Put) : \A a, b \in Put[i] : a < b => Aliased(a, b)

AliasInv == NothingSkipped /\ SinceKept /\ KeptAliased /\ PutAliased

(* Packets kept with the packet that decode takes for one of the same      *)
(* block come from that block, or their ids are aliased.                   *)
LEMMA CurrentIsAliased ==
  ASSUME SameWorkers, TwoIdsPerLane, LInv, SinceKept,
         NEW w \in DecoderIds, packet_queue[w] # << >>,
         IsCurrent(w, Head(packet_queue[w])), NEW q \in current_decoder[w]
  PROVE  /\ q.block <= Head(packet_queue[w]).block
         /\ \/ q.block = Head(packet_queue[w]).block
            \/ Aliased(q.block, Head(packet_queue[w]).block)
<1> DEFINE h == Head(packet_queue[w])
<1> USE DEF LInv
<1>1. /\ h \in Ahead(w) /\ h \in WirePacket
      /\ Got(h.block) /\ Seen(h.block) /\ h.block \in Block /\ h.block \in Nat
      /\ h.id = blocks[h.block] /\ h.id \in BlockId
      /\ LaneOf(h.block) = w
      /\ \A x \in Ahead(w) : h.block <= x.block /\ x.block \in Nat
  BY HeadFacts DEF PipeInv, PacketsAhead, WirePacket
<1>2. /\ Got(q.block) /\ q.id = blocks[q.block] /\ q.id = current_block_id[w]
      /\ LaneOf(q.block) = w
  BY DEF OrderInv, KeptRight
<1>3. current_block_id[w] = h.id /\ h.id # NoId
  BY <1>1 DEF IsCurrent, BlockId, NoId
<1>4. ~Ended(decoder[w])
  BY DEF PipeInv, Lifecycle, Alive, Ended
<1> HIDE DEF h
<1>5. q.block \in Block /\ q.block \in Nat
  BY <1>2, StreamTypes DEF Got
<1>6. q.block <= h.block
  <2>1. PICK c \in Block : MarkAt(w, c)
    BY <1>3 DEF OrderInv, CurrentMark
  <2>2. q.block <= c /\ c <= h.block /\ c \in Nat
    BY <1>1, <2>1, StreamTypes DEF MarkAt
  <2> QED
    BY <1>1, <1>5, <2>2
<1>7. ASSUME q.block < h.block PROVE Aliased(q.block, h.block)
  <2>1. blocks[q.block] = blocks[h.block]
    BY <1>1, <1>2, <1>3
  <2>2. encoders[q.block] = encoders[h.block] =>
          \E c \in LaneBetween(q.block, h.block) : blocks[c] # blocks[q.block]
    BY <1>1, <1>5, <1>7, <2>1, OtherIdBetween DEF TwoIdsPerLane
  <2>3. ASSUME NEW p \in arrived, p.block \in LaneBetween(q.block, h.block)
        PROVE  blocks[p.block] = blocks[q.block]
    <3>1. /\ LaneOf(p.block) = w /\ q.block < p.block /\ p.block < h.block
          /\ p.block \in Nat
      BY <1>1, <1>2, <1>5, <2>3 DEF LaneBetween
    <3>2. \A x \in Ahead(w) : p.block < x.block
      BY <1>1, <3>1
    <3> QED
      BY <1>2, <1>4, <3>1, <3>2 DEF SinceKept
  <2> QED
    BY <1>2, <1>7, <2>1, <2>2, <2>3 DEF Aliased, Got
<1> QED
  BY <1>1, <1>5, <1>6, <1>7 DEF h

(* An alias stays one: later arrivals of the lane are of later blocks.     *)
LEMMA AliasedStays ==
  ASSUME TypeOK, NEW a \in Block, NEW b \in Block, Aliased(a, b),
         \A c \in Block : /\ c \in Block' /\ blocks'[c] = blocks[c]
                          /\ encoders'[c] = encoders[c] /\ LaneOf(c)' = LaneOf(c),
         arrived \subseteq arrived',
         \A p \in arrived' : p \in arrived \/ LaneOf(p.block) # LaneOf(b) \/ b <= p.block,
         \A p \in arrived' : p.block \in Block /\ p.block \in Nat
  PROVE  Aliased(a, b)'
<1>1. a \in Nat /\ b \in Nat /\ \A c \in a + 1 .. b - 1 : c \in Block /\ c \in Nat
  BY StreamTypes DEF Block
<1>2. LaneBetween(a, b)' = LaneBetween(a, b)
  BY <1>1 DEF LaneBetween
<1>3. LaneOf(a) = LaneOf(b) /\ a < b
  BY DEF Aliased, LaneOf
<1>4. \A p \in arrived' : p.block \in LaneBetween(a, b) => p \in arrived
  BY <1>1, <1>3 DEF LaneBetween
<1>5. \A c \in LaneBetween(a, b) : c \in Block
  BY <1>1 DEF LaneBetween
<1> QED
  BY <1>2, <1>4, <1>5 DEF Aliased

LEMMA KnownBlocks ==
  ASSUME LInv
  PROVE  /\ \A w \in DecoderIds : \A q \in current_decoder[w] :
              q.block \in Block /\ q.block \in Nat /\ Seen(q.block) /\ LaneOf(q.block) = w
         /\ \A i \in Last + 1 .. Len(Put) : \A a \in Put[i] :
              i \in 1 .. Len(Put) /\ a \in Block /\ a \in Nat /\ Seen(a)
         /\ \A p \in arrived : p.block \in Block /\ p.block \in Nat
         /\ \A w \in DecoderIds : \A x \in Ahead(w) : x.block \in Nat
<1> USE DEF LInv
<1>1. \A w \in DecoderIds : \A q \in current_decoder[w] :
        q.block \in Block /\ q.block \in Nat /\ Seen(q.block) /\ LaneOf(q.block) = w
  BY StreamTypes DEF OrderInv, KeptRight, Got, Seen
<1>2. \A i \in Last + 1 .. Len(Put) : i \in 1 .. Len(Put)
  BY OrderTypes DEF StartsInv
<1>3. \A i \in 1 .. Len(Put) : \A a \in Put[i] : a \in Block /\ a \in Nat /\ Seen(a)
  BY StreamTypes DEF OrderInv, PutSeen, Seen
<1>4. \A p \in arrived : p.block \in Block /\ p.block \in Nat
  BY StreamTypes
<1>5. \A w \in DecoderIds : \A x \in Ahead(w) : x.block \in Nat
  BY DEF PipeInv, PacketsAhead, WirePacket
<1> QED
  BY <1>1, <1>2, <1>3, <1>4, <1>5

LEMMA NothingTakenKeepsAlias ==
  ASSUME LInv, AliasInv, TypeOK',
         UNCHANGED <<starts, arrived, blockVars>>,
         \A b \in Block : /\ b \in Block' /\ blocks'[b] = blocks[b]
                          /\ encoders'[b] = encoders[b] /\ LaneOf(b)' = LaneOf(b),
         PrefixOf(Put', Put),
         \A w \in DecoderIds : FromTheFront(w) /\ Waits(w)
  PROVE  AliasInv'
<1>1. ASSUME NEW a \in Block, NEW b \in Block, Aliased(a, b) PROVE Aliased(a, b)'
  BY <1>1, AliasedStays, KnownBlocks DEF LInv
<1>2. KeptAliased'
  BY <1>1, KnownBlocks DEF AliasInv, KeptAliased, blockVars
<1>3. PutAliased'
  <2>1. /\ Last' = Last /\ Last \in Nat /\ Len(Put) \in Nat /\ Len(Put') \in Nat
        /\ Len(Put') <= Len(Put)
    BY OrderTypes, PutType DEF Last, PrefixOf, LInv, StartsInv
  <2>2. \A i \in Last + 1 .. Len(Put') : i \in Last + 1 .. Len(Put) /\ Put'[i] = Put[i]
    BY <2>1 DEF PrefixOf
  <2> QED
    BY <1>1, <2>1, <2>2, KnownBlocks DEF AliasInv, PutAliased
<1>4. NothingSkipped'
  <2> SUFFICES ASSUME NEW w \in DecoderIds, NEW r \in arrived, NEW x \in Ahead(w)',
                      LaneOf(r.block)' = w, x.block < r.block
               PROVE  \E y \in Ahead(w)' : y.block = r.block
    BY DEF NothingSkipped
  <2>1. LaneOf(r.block) = w /\ x \in Ahead(w) /\ x.block \in Nat /\ r.block \in Nat
    BY KnownBlocks DEF FromTheFront
  <2>2. PICK y \in Ahead(w) : y.block = r.block
    BY <2>1 DEF AliasInv, NothingSkipped
  <2>3. y \in Ahead(w)'
    BY <2>1, <2>2 DEF FromTheFront
  <2> QED
    BY <2>2, <2>3
<1>5. SinceKept'
  BY KnownBlocks DEF AliasInv, SinceKept, Waits, blockVars, Ended
<1> QED
  BY <1>2, <1>3, <1>4, <1>5 DEF AliasInv

LEMMA ArriveKeepsAlias ==
  ASSUME SameWorkers, LInv, AliasInv, NEW p, Arrive(p) PROVE AliasInv'
<1> USE DEF LInv
<1>0. /\ Emit(p) /\ UNCHANGED <<blocks, encoders>> /\ arrived' = arrived \cup {p}
      /\ UNCHANGED <<starts, decoder, current_block_id, current_decoder, output,
                     forwarder, forwarding, block_queue>>
  BY DEF Arrive, DispatcherRead, Emit, decoderVars, forwarderVars
<1>1. Put' = Put /\ Last' = Last /\ Block' = Block /\ \A b : LaneOf(b)' = LaneOf(b)
  BY <1>0 DEF Put, Last, Block, LaneOf
<1>2. \A b : Seen(b) /\ LaneOf(b) = LaneOf(p.block) => b <= p.block
  BY <1>0, EmittedInOrder DEF Seen
<1>3. \A w \in DecoderIds : Ahead(w)' = IF w = LaneOf(p.block) THEN Ahead(w) \cup {Wire(p)}
                                         ELSE Ahead(w)
  BY ArriveAhead
<1>4. Wire(p).block = p.block /\ p.block \in Block /\ p.block \in Nat
  BY <1>0, WireLane, StreamTypes
<1>5. ASSUME NEW a \in Block, NEW b \in Block, Seen(b), Aliased(a, b) PROVE Aliased(a, b)'
  BY <1>0, <1>1, <1>2, <1>4, <1>5, AliasedStays, KnownBlocks
<1>6. KeptAliased'
  BY <1>0, <1>5, KnownBlocks DEF AliasInv, KeptAliased
<1>7. PutAliased'
  BY <1>1, <1>5, KnownBlocks DEF AliasInv, PutAliased
<1>8. NothingSkipped'
  <2> SUFFICES ASSUME NEW w \in DecoderIds, NEW r \in arrived', NEW x \in Ahead(w)',
                      LaneOf(r.block) = w, x.block < r.block
               PROVE  \E y \in Ahead(w)' : y.block = r.block
    BY <1>1 DEF NothingSkipped
  <2>1. CASE r = p
    BY <1>3, <1>4, <2>1
  <2>2. CASE r \in arrived
    <3>1. Seen(r.block) /\ r.block \in Nat
      BY <2>2, KnownBlocks, StreamTypes DEF Seen
    <3>2. x \in Ahead(w)
      BY <1>2, <1>3, <1>4, <3>1
    <3> QED
      BY <1>3, <2>2, <3>2 DEF AliasInv, NothingSkipped
  <2> QED
    BY <1>0, <2>1, <2>2
<1>9. SinceKept'
  <2> SUFFICES ASSUME NEW w \in DecoderIds, ~Ended(decoder[w]),
                      NEW q \in current_decoder[w], NEW r \in arrived',
                      LaneOf(r.block) = w, q.block < r.block,
                      \A x \in Ahead(w)' : r.block < x.block
               PROVE  blocks[r.block] = current_block_id[w]
    BY <1>0, <1>1 DEF SinceKept, Ended
  <2>1. r # p
    BY <1>3, <1>4
  <2> QED
    BY <1>0, <1>3, <2>1 DEF AliasInv, SinceKept
<1> QED
  BY <1>6, <1>7, <1>8, <1>9 DEF AliasInv

LEMMA TakesKeepsAlias ==
  ASSUME SameWorkers, TwoIdsPerLane, LInv, AliasInv, NEW v \in DecoderIds, Takes(v)
  PROVE  AliasInv'
<1> DEFINE h == Head(packet_queue[v])
<1> USE DEF LInv
<1>1. packet_queue[v] # << >> /\ decoder[v] = "receiving"
  BY DEF Takes, DecoderIgnores, DecoderTries
<1>2. /\ h \in Ahead(v) /\ h.block \in Block /\ h.block \in Nat
      /\ h.id = blocks[h.block]
      /\ LaneOf(h.block) = v
  BY <1>1, HeadFacts
<1>3. /\ \A w \in DecoderIds : w # v => Ahead(w)' = Ahead(w)
      /\ Ahead(v) = {h} \cup Ahead(v)'
      /\ \A x \in Ahead(v) : h.block <= x.block
      /\ UNCHANGED <<blocks, encoders, arrived, starts, Put>>
  BY TakesHead DEF streamVars, linkVars
<1>4. /\ Last' = Last /\ Block' = Block
      /\ \A b : LaneOf(b)' = LaneOf(b)
      /\ \A a, b : Aliased(a, b)' = Aliased(a, b)
  BY <1>3 DEF Last, Block, LaneOf, Aliased, LaneBetween
(* The packets kept next: those of the current block, with the one taken.  *)
<1>5. /\ \A w \in DecoderIds : w # v =>
           /\ current_block_id'[w] = current_block_id[w]
           /\ current_decoder'[w] = current_decoder[w]
           /\ decoder'[w] = decoder[w]
      /\ current_block_id'[v] = h.id
      /\ \A q \in current_decoder'[v] :
           q = h \/ (IsCurrent(v, h) /\ q \in current_decoder[v])
  <2>1. ASSUME DecoderIgnores(v)
        PROVE  /\ UNCHANGED <<current_block_id, current_decoder, decoder>>
               /\ IsCurrent(v, h)
    BY <2>1 DEF DecoderIgnores, decoderVars
  <2>2. ASSUME NEW decoded \in BOOLEAN, DecoderTries(v, decoded)
        PROVE  /\ current_block_id'[v] = h.id
               /\ current_decoder'[v] = KeptFor(v, h)
               /\ \A w \in DecoderIds : w # v =>
                    /\ current_block_id'[w] = current_block_id[w]
                    /\ current_decoder'[w] = current_decoder[w]
                    /\ decoder'[w] = decoder[w]
    BY <2>2, TriesEffect
  <2>3. \A q \in KeptFor(v, h) : q = h \/ (IsCurrent(v, h) /\ q \in current_decoder[v])
    BY KeptForElements
  <2> HIDE DEF h
  <2> QED
    BY <2>1, <2>2, <2>3 DEF Takes, IsCurrent
<1>6. ASSUME IsCurrent(v, h), NEW q \in current_decoder[v]
      PROVE  q.block <= h.block /\ (q.block = h.block \/ Aliased(q.block, h.block))
  BY <1>1, <1>6, CurrentIsAliased DEF AliasInv
<1> HIDE DEF h
<1>7. KeptAliased'
  <2>1. ASSUME NEW q \in current_decoder'[v], NEW r \in current_decoder'[v],
               q.block < r.block
        PROVE  Aliased(q.block, r.block)
    <3>1. CASE q = h
      BY <1>2, <1>5, <1>6, <2>1, <3>1, KnownBlocks
    <3>2. CASE q \in current_decoder[v] /\ IsCurrent(v, h)
      <4>1. q.block \in Nat
        BY <3>2, KnownBlocks
      <4> QED
        BY <1>2, <1>5, <1>6, <2>1, <3>2, <4>1 DEF AliasInv, KeptAliased
    <3> QED
      BY <1>5, <3>1, <3>2
  <2> QED
    BY <1>4, <1>5, <2>1 DEF AliasInv, KeptAliased
<1>8. PutAliased'
  BY <1>3, <1>4 DEF AliasInv, PutAliased
<1>9. NothingSkipped'
  <2> SUFFICES ASSUME NEW r \in arrived, NEW x \in Ahead(v)',
                      LaneOf(r.block) = v, x.block < r.block
               PROVE  \E y \in Ahead(v)' : y.block = r.block
    BY <1>3, <1>4 DEF AliasInv, NothingSkipped
  <2>1. x \in Ahead(v) /\ h.block <= x.block /\ x.block \in Nat /\ r.block \in Nat
    BY <1>3, KnownBlocks
  <2>2. PICK y \in Ahead(v) : y.block = r.block
    BY <2>1 DEF AliasInv, NothingSkipped
  <2>3. y # h
    BY <1>2, <2>1, <2>2
  <2> QED
    BY <1>3, <2>2, <2>3
<1>10. ASSUME NEW r \in arrived, LaneOf(r.block) = v,
              \A x \in Ahead(v)' : r.block < x.block
       PROVE  blocks[r.block] = h.id \/ \A x \in Ahead(v) : r.block < x.block
  <2>1. r.block \in Nat
    BY KnownBlocks
  <2>2. ASSUME h.block < r.block PROVE FALSE
    <3>1. PICK y \in Ahead(v) : y.block = r.block
      BY <1>2, <1>10, <2>2 DEF AliasInv, NothingSkipped
    <3> QED
      BY <1>2, <1>3, <1>10, <2>1, <2>2, <3>1
  <2>3. CASE r.block = h.block
    BY <1>2, <2>3
  <2>4. CASE r.block < h.block
    BY <1>3, <1>10, <2>4
  <2> QED
    BY <1>2, <2>1, <2>2, <2>3, <2>4
<1>11. SinceKept'
  <2> SUFFICES ASSUME NEW q \in current_decoder'[v], NEW r \in arrived,
                      LaneOf(r.block) = v, q.block < r.block,
                      \A x \in Ahead(v)' : r.block < x.block
               PROVE  blocks[r.block] = h.id
    BY <1>3, <1>4, <1>5 DEF AliasInv, SinceKept, Ended
  <2>1. CASE \A x \in Ahead(v) : r.block < x.block
    <3>1. r.block < h.block /\ r.block \in Nat /\ q # h
      BY <1>2, <2>1, KnownBlocks
    <3>2. IsCurrent(v, h) /\ q \in current_decoder[v]
      BY <1>5, <3>1
    <3> QED
      BY <1>1, <2>1, <3>2 DEF AliasInv, SinceKept, IsCurrent, Ended
  <2> QED
    BY <1>10, <2>1
<1> QED
  BY <1>7, <1>8, <1>9, <1>11 DEF AliasInv

LEMMA PutsOutKeepsAlias ==
  ASSUME LInv, AliasInv, NEW v \in DecoderIds, PutsOut(v) PROVE AliasInv'
<1> USE DEF LInv
<1>1. /\ Put' = Append(Put, decoded_block[v])
      /\ decoder[v] = "sending" /\ decoder'[v] = "receiving"
      /\ \A w \in DecoderIds : w # v => decoder'[w] = decoder[w]
      /\ \A w \in DecoderIds : Ahead(w)' = Ahead(w)
      /\ UNCHANGED <<blocks, encoders, arrived, starts, current_block_id, current_decoder>>
  BY PutsOutEffect DEF streamVars, linkVars, blockVars
<1>2. /\ Last' = Last /\ Block' = Block
      /\ \A b : LaneOf(b)' = LaneOf(b)
      /\ \A a, b : Aliased(a, b)' = Aliased(a, b)
  BY <1>1 DEF Last, Block, LaneOf, Aliased, LaneBetween
<1>3. KeptAliased' /\ NothingSkipped' /\ SinceKept'
  BY <1>1, <1>2 DEF AliasInv, KeptAliased, NothingSkipped, SinceKept, Ended
<1>4. PutAliased'
  <2>1. \A a, b \in decoded_block[v] : a < b => Aliased(a, b)
    BY <1>1 DEF OrderInv, SendingRight, AliasInv, KeptAliased
  <2>2. Last \in Nat /\ Len(Put) \in Nat /\ Put \in Seq(SUBSET Nat)
    BY OrderTypes, PutType DEF StartsInv
  <2>3. \A i \in Last + 1 .. Len(Put') :
          \/ i \in Last + 1 .. Len(Put) /\ Put'[i] = Put[i]
          \/ Put'[i] = decoded_block[v]
    BY <1>1, <2>2
  <2> QED
    BY <1>2, <2>1, <2>3 DEF AliasInv, PutAliased
<1> QED
  BY <1>3, <1>4 DEF AliasInv

LEMMA RestartKeepsAlias == ASSUME LInv, Restart PROVE AliasInv'
<1>1. arrived' = {} /\ \A w \in DecoderIds : current_decoder'[w] = {}
  BY DEF Restart, NextDecoder, NewBlockDecoders
<1>2. (Last + 1 .. Len(Put))' = {}
  <2>1. Put' = output \o << >> \o << >>
    BY DEF Restart, NextDecoder, Put
  <2>2. Put' = output /\ Len(output) \in Nat
    BY <2>1, PutType DEF LInv
  <2>3. Last' = Len(output)
    BY DEF Restart, Last, LInv, TypeOK
  <2> QED
    BY <2>2, <2>3
<1> QED
  BY <1>1, <1>2 DEF AliasInv, NothingSkipped, SinceKept, KeptAliased, PutAliased

LEMMA AliasInvInductive ==
  ASSUME SameWorkers, TwoIdsPerLane, LInv, AliasInv, [Next]_vars PROVE AliasInv'
<1> USE DEF LInv
<1>0. TypeOK'
  BY TypeOKInductive
<1>1. ASSUME UNCHANGED <<codecVars, linkVars>>,
             \A b \in Block : /\ b \in Block' /\ blocks'[b] = blocks[b]
                              /\ encoders'[b] = encoders[b] /\ LaneOf(b)' = LaneOf(b)
      PROVE  AliasInv'
  <2>1. UNCHANGED <<starts, arrived, blockVars, packet_queue, dispatcher, dispatching,
                    decoder, output, forwarder, forwarding, block_queue>>
    BY <1>1 DEF codecVars, linkVars, blockVars
  <2>2. PrefixOf(Put', Put)
    BY <2>1, PutType, PrefixRefl DEF Put
  <2>3. \A w \in DecoderIds : FromTheFront(w) /\ Waits(w)
    BY <2>1, AheadUnchanged DEF FromTheFront, Waits, Ended
  <2> QED
    BY <1>0, <1>1, <2>1, <2>2, <2>3, NothingTakenKeepsAlias
<1>2. CASE Stream
  BY <1>1, <1>2, StreamGrows
<1>3. ASSUME NEW p, Lose(p) PROVE AliasInv'
  BY <1>1, <1>3 DEF Lose, Emit, Block, LaneOf
<1>4. ASSUME NEW p, Arrive(p) PROVE AliasInv'
  BY <1>4, ArriveKeepsAlias
<1>5. CASE Quiet
  BY <1>0, <1>5, NothingTakenKeepsAlias DEF Quiet, streamVars, linkVars, Block, LaneOf
<1>6. ASSUME NEW v \in DecoderIds, Takes(v) \/ PutsOut(v) PROVE AliasInv'
  BY <1>6, TakesKeepsAlias, PutsOutKeepsAlias
<1>7. CASE Restart
  BY <1>7, RestartKeepsAlias
<1> QED
  BY <1>2, <1>3, <1>4, <1>5, <1>6, <1>7, NextCases

LEMMA InitAliasInv == Init => AliasInv
<1> SUFFICES ASSUME Init PROVE AliasInv
  OBVIOUS
<1>1. arrived = {} /\ (\A w \in DecoderIds : current_decoder[w] = {}) /\ Put = << >>
      /\ Last = 0
  BY DEF Init, DecoderInit, Put, Last
<1>2. Last + 1 .. Len(Put) = {}
  BY <1>1
<1> QED
  BY <1>1, <1>2 DEF AliasInv, NothingSkipped, SinceKept, KeptAliased, PutAliased

LEMMA AliasInvInvariant ==
  ASSUME SameWorkers, TwoIdsPerLane PROVE Spec => [](LInv /\ AliasInv)
<1>1. LInv /\ AliasInv /\ [Next]_vars => AliasInv'
  BY AliasInvInductive
<1> QED
  BY <1>1, InitAliasInv, LInvInvariant, PTL DEF Spec

(* The id and the reset on another id are enough to keep blocks apart: a   *)
(* block decoder adds a packet to those of another block only if their ids *)
(* are aliased, whatever is lost, as long as every lane has two ids.       *)
THEOREM CodecCurrentBlockIsRight ==
  ASSUME SameWorkers, TwoIdsPerLane PROVE Spec => []CurrentBlockIsRight
<1>1. LInv /\ AliasInv => CurrentBlockIsRight
  BY CurrentIsAliased DEF CurrentBlockIsRight, AliasInv
<1> QED
  BY <1>1, AliasInvInvariant, PTL

(* A block that comes out of a decoder is one that went into the encoder,  *)
(* or was put together from aliased blocks while it was decoded.           *)
THEOREM CodecBlocksAreIntact ==
  ASSUME SameWorkers, TwoIdsPerLane PROVE Spec => []BlocksAreIntact
<1>1. LInv /\ AliasInv => BlocksAreIntact
  <2> SUFFICES ASSUME LInv, AliasInv,
                      NEW i \in starts[Len(starts)] + 1 .. Len(output),
                      NEW a \in output[i], NEW b \in output[i], a < b
               PROVE  Aliased(a, b)
    BY DEF BlocksAreIntact
  <2>1. Last \in Nat /\ Len(output) \in Nat /\ Len(Put) \in Nat /\ Len(output) <= Len(Put)
        /\ PrefixOf(output, Put)
    BY OrderTypes, PutType DEF LInv, StartsInv
  <2>2. i \in Last + 1 .. Len(Put) /\ i \in 1 .. Len(output)
    BY <2>1 DEF Last
  <2>3. Put[i] = output[i]
    BY <2>1, <2>2 DEF PrefixOf
  <2> QED
    BY <2>2, <2>3 DEF AliasInv, PutAliased
<1> QED
  BY <1>1, AliasInvInvariant, PTL

-----------------------------------------------------------------------------
(* The promise to the users of the codec, as long as no ids can be aliased.*)

(* One encoder, and no more blocks than ids.                               *)
IdsAreUnique == MaxSessions = 1 /\ MaxBlocks <= BlockIds

BlocksBounded == Len(blocks) <= MaxBlocks

OneBlock(S) == \E b \in Block : S = {b}

PutWhole ==
  /\ \A i \in 1 .. Len(Put) : OneBlock(Put[i])
  /\ \A w \in DecoderIds : decoder[w] = "sending" => OneBlock(decoded_block[w])

TInv == LInv /\ BlocksBounded /\ PutWhole

LEMMA SameIdSameBlock ==
  ASSUME IdsAreUnique, LInv, BlocksBounded, NEW a \in Block, NEW b \in Block,
         blocks[a] = blocks[b]
  PROVE  a = b
<1>1. /\ a \in 1 .. Len(blocks) /\ b \in 1 .. Len(blocks) /\ Len(blocks) \in Nat
      /\ blocks[a] \in 0 .. BlockIds - 1
      /\ encoders[a] \in 1 .. sessions /\ encoders[b] \in 1 .. sessions
  BY StreamTypes DEF LInv, Block, BlockId
<1>2. sessions = 1
  BY DEF LInv, TypeOK, IdsAreUnique
<1>3. encoders[a] = encoders[b]
  BY <1>1, <1>2
<1>4. ASSUME NEW c \in Block, NEW d \in Block, c < d, blocks[c] = blocks[d],
             encoders[c] = encoders[d], c \in Nat, d \in Nat, blocks[c] \in 0 .. BlockIds - 1,
             d - c < BlockIds
      PROVE  FALSE
  BY <1>4 DEF LInv, StreamInv, IdsFollow, IdAfter
<1>5. a - b < BlockIds /\ b - a < BlockIds
  BY <1>1 DEF BlocksBounded, IdsAreUnique
<1> QED
  BY <1>1, <1>3, <1>4, <1>5

LEMMA ContentsNonempty ==
  ASSUME NEW S, MayDecode(S) PROVE Contents(S) # {}
<1>1. Cardinality({}) = 0
  BY FS_EmptySet
<1>2. S # {}
  <2>1. ASSUME S = {} PROVE FALSE
    <3>1. Cardinality(S) = 0
      BY <1>1, <2>1
    <3> QED
      BY <3>1 DEF MayDecode
  <2> QED
    BY <2>1
<1>3. CASE MustDecode(S)
  <2>1. SourcesIn(S) # {}
    BY <1>1, <1>3 DEF MustDecode
  <2>2. Contents(S) = {p.block : p \in SourcesIn(S)}
    BY <1>3 DEF Contents
  <2>3. PICK p : p \in SourcesIn(S)
    BY <2>1
  <2>4. p.block \in Contents(S)
    BY <2>2, <2>3
  <2> QED
    BY <2>4
<1>4. CASE ~MustDecode(S)
  <2>1. Contents(S) = {p.block : p \in S}
    BY <1>4 DEF Contents
  <2>2. PICK p : p \in S
    BY <1>2
  <2>3. p.block \in Contents(S)
    BY <2>1, <2>2
  <2> QED
    BY <2>3
<1> QED
  BY <1>3, <1>4

LEMMA BlocksBoundedInductive ==
  TypeOK /\ BlocksBounded /\ [Next]_vars => BlocksBounded'
<1> SUFFICES ASSUME TypeOK, BlocksBounded, [Next]_vars PROVE BlocksBounded'
  OBVIOUS
<1>1. ASSUME NEW id \in BlockId, ReadBlock(id) PROVE BlocksBounded'
  BY <1>1, StreamTypes DEF ReadBlock, BlocksBounded, TypeOK
<1> QED
  BY <1>1 DEF BlocksBounded, Next, Stream, NextConnection, Lose, Arrive, Emit, Decode,
              Restart, Terminated, vars, streamVars

LEMMA PutWholeInductive ==
  ASSUME SameWorkers, IdsAreUnique, TInv, [Next]_vars PROVE PutWhole'
<1> USE DEF TInv, LInv
<1>0. TypeOK'
  BY TypeOKInductive
<1>1. ASSUME NEW S, OneBlock(S), \A b \in Block : b \in Block' PROVE OneBlock(S)'
  BY <1>1 DEF OneBlock
<1>2. ASSUME \A b \in Block : b \in Block', PrefixOf(Put', Put), decoded_block' = decoded_block,
             \A w \in DecoderIds : decoder'[w] = "sending" => decoder[w] = "sending"
      PROVE  PutWhole'
  <2>1. Len(Put') \in Nat /\ Len(Put) \in Nat
    BY <1>0, PutType
  <2>2. \A i \in 1 .. Len(Put') : i \in 1 .. Len(Put) /\ Put'[i] = Put[i]
    BY <1>2, <2>1 DEF PrefixOf
  <2> QED
    BY <1>1, <1>2, <2>2 DEF PutWhole
<1>3. ASSUME UNCHANGED codecVars, \A b \in Block : b \in Block' PROVE PutWhole'
  <2>1. PrefixOf(Put', Put) /\ decoded_block' = decoded_block /\ decoder' = decoder
    BY <1>3, PutType, PrefixRefl DEF codecVars, Put
  <2> QED
    BY <1>2, <1>3, <2>1
<1>4. CASE Stream
  BY <1>3, <1>4, StreamGrows
<1>5. ASSUME NEW p, Lose(p) PROVE PutWhole'
  BY <1>3, <1>5 DEF Lose, Emit, Block
<1>6. ASSUME NEW p, Arrive(p) PROVE PutWhole'
  <2>1. UNCHANGED <<output, forwarder, forwarding, block_queue, decoder, decoded_block, blocks>>
    BY <1>6 DEF Arrive, DispatcherRead, Emit, decoderVars, forwarderVars
  <2>2. PrefixOf(Put', Put)
    BY <2>1, PutType, PrefixRefl DEF Put
  <2> QED
    BY <1>2, <2>1, <2>2 DEF Block
<1>7. CASE Quiet
  BY <1>2, <1>7 DEF Quiet, blockVars, streamVars, Block
<1>8. ASSUME NEW v \in DecoderIds, Takes(v) PROVE PutWhole'
  <2>1. UNCHANGED <<blocks, Put>> /\ Block' = Block
    BY <1>8, TakesHead DEF streamVars, Block
  <2>2. PrefixOf(Put', Put)
    BY <2>1, PutType, PrefixRefl
  <2>3. CASE DecoderIgnores(v)
    BY <1>2, <2>1, <2>2, <2>3 DEF DecoderIgnores, decoderVars
  <2>4. ASSUME NEW decoded \in BOOLEAN, DecoderTries(v, decoded) PROVE PutWhole'
    <3> DEFINE h    == Head(packet_queue[v])
               kept == KeptFor(v, h)
    <3>1. /\ packet_queue[v] # << >>
          /\ decoder'[v] = IF decoded THEN "sending" ELSE "receiving"
          /\ decoded => decoded_block'[v] = Contents(kept)
          /\ \A w \in DecoderIds : w # v => /\ decoder'[w] = decoder[w]
                                           /\ decoded_block'[w] = decoded_block[w]
      BY <2>4, TriesEffect
    <3>2. decoded => MayDecode(kept)
      BY <2>4 DEF DecoderTries
    <3>3. /\ h \in WirePacket /\ h.block \in Block /\ h.id = blocks[h.block]
      BY <3>1, HeadFacts
    <3>4. \A q \in kept : q = h \/ (IsCurrent(v, h) /\ q \in current_decoder[v])
      BY KeptForElements
    <3> HIDE DEF h, kept
    <3>5. \A q \in kept : q.block = h.block /\ q \in WirePacket
      <4> SUFFICES ASSUME NEW q \in current_decoder[v], IsCurrent(v, h)
                   PROVE  q.block = h.block /\ q \in WirePacket
        BY <3>3, <3>4
      <4>1. blocks[q.block] = blocks[h.block] /\ q.block \in Block /\ q \in WirePacket
        <5>1. q.block \in Block
          BY KnownBlocks
        <5>2. q \in WirePacket
          BY OrderTypes DEF StartsInv
        <5>3. blocks[q.block] = blocks[h.block]
          BY <3>3 DEF OrderInv, KeptRight, IsCurrent
        <5> QED
          BY <5>1, <5>2, <5>3
      <4> QED
        BY <3>3, <4>1, SameIdSameBlock
    <3>6. Contents(kept) \subseteq {h.block}
      <4>1. kept \in SUBSET WirePacket
        BY <3>5
      <4> QED
        BY <3>5, <4>1, ContentsType
    <3>7. decoded => Contents(kept) = {h.block}
      BY <3>2, <3>6, ContentsNonempty
    <3>8. decoded => \E b \in Block : decoded_block'[v] = {b}
      BY <3>1, <3>3, <3>7
    <3>9. \A w \in DecoderIds : decoder'[w] = "sending" => OneBlock(decoded_block'[w])
      BY <3>1, <3>8 DEF PutWhole, OneBlock
    <3> QED
      BY <2>1, <3>9 DEF PutWhole, OneBlock
  <2> QED
    BY <1>8, <2>3, <2>4 DEF Takes
<1>9. ASSUME NEW v \in DecoderIds, PutsOut(v) PROVE PutWhole'
  <2>1. /\ Put' = Append(Put, decoded_block[v])
        /\ decoder[v] = "sending" /\ decoder'[v] = "receiving"
        /\ \A w \in DecoderIds : w # v => decoder'[w] = decoder[w]
        /\ UNCHANGED <<blocks, decoded_block>>
    BY <1>9, PutsOutEffect DEF streamVars, blockVars
  <2>2. Put \in Seq(SUBSET Nat)
    BY PutType
  <2>3. \A i \in 1 .. Len(Put') : \/ i \in 1 .. Len(Put) /\ Put'[i] = Put[i]
                                  \/ Put'[i] = decoded_block[v]
    BY <2>1, <2>2
  <2>4. Block' = Block
    BY <2>1 DEF Block
  <2>5. OneBlock(decoded_block[v]) /\ \A i \in 1 .. Len(Put) : OneBlock(Put[i])
    BY <2>1 DEF PutWhole
  <2>6. \A i \in 1 .. Len(Put') : \E b \in Block : Put'[i] = {b}
    BY <2>3, <2>5 DEF OneBlock
  <2>7. \A w \in DecoderIds : decoder'[w] = "sending" =>
          \E b \in Block : decoded_block'[w] = {b}
    BY <2>1 DEF PutWhole, OneBlock
  <2> QED
    BY <2>4, <2>6, <2>7 DEF PutWhole, OneBlock
<1>10. CASE Restart
  <2>1. Put' = output \o << >> \o << >>
    BY <1>10 DEF Restart, NextDecoder, Put
  <2>2. PrefixOf(Put', Put)
    BY <2>1, PutType
  <2>3. \A w \in DecoderIds : decoder'[w] = "none"
    BY <1>10 DEF Restart, NextDecoder
  <2>4. Block' = Block
    BY <1>10 DEF Restart, streamVars, Block
  <2>5. \A i \in 1 .. Len(Put') : i \in 1 .. Len(Put) /\ Put'[i] = Put[i]
    BY <1>0, <2>2, PutType DEF PrefixOf
  <2> QED
    BY <2>3, <2>4, <2>5 DEF PutWhole, OneBlock
<1> QED
  BY <1>4, <1>5, <1>6, <1>7, <1>8, <1>9, <1>10, NextCases

LEMMA TInvInvariant == ASSUME SameWorkers, IdsAreUnique PROVE Spec => []TInv
<1>1. Init => BlocksBounded /\ PutWhole
  <2> SUFFICES ASSUME Init PROVE BlocksBounded /\ PutWhole
    OBVIOUS
  <2>1. Len(blocks) = 0 /\ Put = << >>
    BY DEF Init, StreamInit, DecoderInit, Put
  <2> QED
    BY <2>1 DEF Init, DecoderInit, BlocksBounded, PutWhole
<1>2. TInv /\ [Next]_vars => BlocksBounded' /\ PutWhole'
  BY PutWholeInductive, BlocksBoundedInductive DEF TInv, LInv
<1>3. LInv /\ BlocksBounded /\ PutWhole <=> TInv
  BY DEF TInv
<1> QED
  BY <1>1, <1>2, <1>3, LInvInvariant, PTL DEF Spec

(* The abstract state that the state of the codec stands for.              *)
LanesRead == [b \in Block |-> LaneOf(b)]
Delivered == [i \in 1 .. Len(output) |->
                [block |-> Intact(output[i]), decoder |-> WrittenBy(i)]]

LEMMA IntactBlock ==
  ASSUME NEW b \in Block PROVE Intact({b}) = b
<1>1. \A c \in Block : {b} = {c} => c = b
  OBVIOUS
<1> QED
  BY <1>1 DEF Intact

LEMMA WrittenByUnique ==
  ASSUME TypeOK, StartsInv, NEW i \in Nat, NEW k \in 1 .. Len(starts), Wrote(k, i)
  PROVE  WrittenBy(i) = k
<1>1. /\ Len(starts) \in Nat /\ \A l \in 1 .. Len(starts) : starts[l] \in Nat
  BY StartsTypes
<1>2. ASSUME NEW m \in 1 .. Len(starts), NEW l \in 1 .. Len(starts), m < l,
             Wrote(m, i), Wrote(l, i)
      PROVE  FALSE
  <2>1. m + 1 \in 1 .. Len(starts) /\ m < Len(starts) /\ m + 1 <= l
    BY <1>1, <1>2
  <2>2. starts[m + 1] <= starts[l] /\ i <= starts[m + 1] /\ starts[l] < i
    BY <1>2, <2>1 DEF Wrote, StartsInv
  <2> QED
    BY <1>1, <2>1, <2>2
<1>3. \A l \in 1 .. Len(starts) : Wrote(l, i) => l = k
  BY <1>1, <1>2
<1> QED
  BY <1>3 DEF WrittenBy, Wrote

LEMMA WrittenByUniqueNext ==
  TypeOK' /\ StartsInv' =>
    \A i \in Nat, k \in 1 .. Len(starts)' : Wrote(k, i)' => WrittenBy(i)' = k
<1>1. TypeOK /\ StartsInv =>
        \A i \in Nat, k \in 1 .. Len(starts) : Wrote(k, i) => WrittenBy(i) = k
  BY WrittenByUnique
<1>2. (TypeOK /\ StartsInv =>
        \A i \in Nat, k \in 1 .. Len(starts) : Wrote(k, i) => WrittenBy(i) = k)'
  BY <1>1, PTL
<1> QED
  BY <1>2

LEMMA DeliveredUnchanged ==
  ASSUME TInv, TInv', UNCHANGED <<output, starts>>, \A b \in Block : b \in Block'
  PROVE  Delivered' = Delivered
<1>1. \A i \in 1 .. Len(output) : Intact(output[i])' = Intact(output[i])
  <2> SUFFICES ASSUME NEW i \in 1 .. Len(output) PROVE Intact(output[i])' = Intact(output[i])
    OBVIOUS
  <2>1. i \in 1 .. Len(Put) /\ output[i] = Put[i]
    BY PutType DEF TInv, LInv, PrefixOf
  <2>2. PICK b \in Block : output[i] = {b}
    BY <2>1 DEF TInv, PutWhole, OneBlock
  <2>3. Intact(output[i]) = b
    BY <2>2, IntactBlock
  <2>4. b \in Block' /\ output'[i] = {b}
    BY <2>2
  <2>5. \A c \in Block' : {b} = {c} => c = b
    OBVIOUS
  <2>6. Intact(output[i])' = b
    BY <2>4, <2>5 DEF Intact
  <2> QED
    BY <2>3, <2>6
<1>2. \A i : WrittenBy(i)' = WrittenBy(i)
  BY DEF WrittenBy
<1> QED
  BY <1>1, <1>2 DEF Delivered

LEMMA ReadIsWrite ==
  ASSUME SameWorkers, TInv, TInv', NEW id \in BlockId, ReadBlock(id),
         UNCHANGED <<codecVars, linkVars>>
  PROVE  Transfer!Write(Lane(id, NumLanes)) /\ Lane(id, NumLanes) \in DecoderIds
<1>1. /\ Len(blocks) \in Nat /\ Block = 1 .. Len(blocks) /\ Block' = 1 .. Len(blocks) + 1
      /\ \A b \in Block : blocks'[b] = blocks[b]
      /\ blocks'[Len(blocks) + 1] = id
      /\ UNCHANGED <<output, starts>>
  BY StreamTypes DEF ReadBlock, Block, TInv, LInv, TypeOK, codecVars, linkVars
<1>2. Delivered' = Delivered
  BY <1>1, DeliveredUnchanged
<1>3. LanesRead' = Append(LanesRead, Lane(id, NumLanes))
  <2>1. LanesRead' = [b \in 1 .. Len(blocks) + 1 |-> Lane(blocks'[b], NumLanes)]
    BY <1>1 DEF LanesRead, LaneOf
  <2>2. LanesRead = [b \in 1 .. Len(blocks) |-> Lane(blocks[b], NumLanes)]
    BY <1>1 DEF LanesRead, LaneOf
  <2>3. \A b \in 1 .. Len(blocks) + 1 :
          Lane(blocks'[b], NumLanes) = IF b <= Len(blocks) THEN Lane(blocks[b], NumLanes)
                                                         ELSE Lane(id, NumLanes)
    BY <1>1
  <2>4. LanesRead \in Seq(Nat) /\ Len(LanesRead) = Len(blocks) /\ Lane(id, NumLanes) \in Nat
    <3>1. \A b \in 1 .. Len(blocks) : Lane(blocks[b], NumLanes) \in Nat
      BY <1>1, StreamTypes, LaneType DEF TInv, LInv, SameWorkers, DecoderIds
    <3>2. Lane(id, NumLanes) \in Nat
      BY LaneType DEF SameWorkers, DecoderIds
    <3> QED
      BY <1>1, <2>2, <3>1, <3>2
  <2> QED
    BY <1>1, <2>1, <2>2, <2>3, <2>4
<1>4. Lane(id, NumLanes) \in DecoderIds
  BY LaneType DEF SameWorkers
<1> QED
  BY <1>1, <1>2, <1>3, <1>4 DEF Transfer!Write, LanesRead, Delivered

LEMMA WrittenIsPut ==
  TypeOK => PrefixOf(output, Put) /\ Len(Put) \in Nat /\ Len(output) <= Len(Put)
  BY PutType

LEMMA WrittenIsPutNext ==
  TypeOK' => PrefixOf(output, Put)' /\ Len(Put') \in Nat /\ Len(output') <= Len(Put')
<1>1. (TypeOK => PrefixOf(output, Put) /\ Len(Put) \in Nat /\ Len(output) <= Len(Put))'
  BY WrittenIsPut, PTL
<1> QED
  BY <1>1

LEMMA ForwarderWriteIsDeliver ==
  ASSUME TInv, TInv', ForwarderWrite, UNCHANGED <<streamVars, linkVars>>
  PROVE  \E b \in 1 .. Len(LanesRead) : Transfer!Deliver(b)
<1> USE DEF TInv, LInv
<1> DEFINE n == Len(output)
<1>1. /\ output \in Seq(SUBSET Nat) /\ n \in Nat /\ forwarding \in SUBSET Nat
      /\ output' = Append(output, forwarding) /\ forwarder = "writing"
      /\ UNCHANGED <<blocks, starts>>
  BY PutType DEF TypeOK, DecoderTypeOK, ForwarderWrite, streamVars, linkVars
<1>2. /\ Len(output') = n + 1 /\ output'[n + 1] = forwarding
      /\ \A i \in 1 .. n : output'[i] = output[i]
  BY <1>1
<1>3. \A i \in 1 .. n + 1 : i \in 1 .. Len(Put)' /\ Put'[i] = output'[i]
  <2>1. /\ PrefixOf(output, Put)' /\ Len(Put') \in Nat
        /\ Len(output') <= Len(Put')
    BY WrittenIsPutNext
  <2> QED
    BY <1>1, <1>2, <2>1 DEF PrefixOf
<1>4. Block' = Block /\ (\A b : LaneOf(b)' = LaneOf(b)) /\ \A S : Intact(S)' = Intact(S)
  BY <1>1 DEF Block, LaneOf, Intact
<1>5. PICK b \in Block : forwarding = {b}
  BY <1>2, <1>3, <1>4 DEF PutWhole, OneBlock
<1>6. \A i \in 1 .. n : \E a \in Block : output[i] = {a}
  BY <1>2, <1>3, <1>4 DEF PutWhole, OneBlock
<1>7. \A i : WrittenBy(i)' = WrittenBy(i)
  BY <1>1 DEF WrittenBy
<1>8. WrittenBy(n + 1) = Len(starts)
  <2>1. Len(starts) \in 1 .. Len(starts) /\ Len(starts) \in Nat /\ starts[Len(starts)] < n + 1
        /\ n + 1 \in Nat
    BY <1>1, OrderTypes DEF StartsInv, Last
  <2>2. Wrote(Len(starts), n + 1)
    BY <2>1 DEF Wrote
  <2> QED
    BY <2>1, <2>2, WrittenByUnique
<1>9. Delivered' = Append(Delivered, [block |-> b, decoder |-> Len(starts)])
  <2>1. Delivered' = [i \in 1 .. n + 1 |->
                        [block |-> Intact(output'[i]), decoder |-> WrittenBy(i)]]
    BY <1>2, <1>4, <1>7 DEF Delivered
  <2>2. Intact(output'[n + 1]) = b
    BY <1>2, <1>5, IntactBlock
  <2> DEFINE D == [block : {Intact(output[i]) : i \in 1 .. n} \cup {b},
                   decoder : {WrittenBy(i) : i \in 1 .. n} \cup {Len(starts)}]
  <2>3. Delivered \in Seq(D) /\ Len(Delivered) = n
        /\ [block |-> b, decoder |-> Len(starts)] \in D
    BY <1>1 DEF Delivered
  <2> HIDE DEF D
  <2>4. \A i \in 1 .. n + 1 :
          [block |-> Intact(output'[i]), decoder |-> WrittenBy(i)] =
             IF i <= n THEN Delivered[i] ELSE [block |-> b, decoder |-> Len(starts)]
    BY <1>1, <1>2, <1>8, <2>2 DEF Delivered
  <2> QED
    BY <1>1, <2>1, <2>3, <2>4
<1>10. ASSUME NEW i \in 1 .. n
       PROVE  \/ LanesRead[Delivered[i].block] # LanesRead[b]
              \/ Delivered[i].block < b
              \/ Delivered[i].block = b /\ Delivered[i].decoder < Len(starts)
  <2>1. PICK a \in Block : output[i] = {a}
    BY <1>6
  <2>2. Delivered[i].block = a /\ Delivered[i].decoder = WrittenBy(i)
    BY <2>1, IntactBlock DEF Delivered
  <2>3. LanesRead[a] = LaneOf(a) /\ LanesRead[b] = LaneOf(b)
    BY DEF LanesRead
  <2>4. ASSUME LaneOf(a) = LaneOf(b) PROVE a < b \/ (a = b /\ OlderDecoder(i, n + 1))
    <3>1. a \in Put'[i] /\ b \in Put'[n + 1] /\ i < n + 1
          /\ i \in 1 .. Len(Put)' /\ n + 1 \in 1 .. Len(Put)'
      BY <1>1, <1>2, <1>3, <1>5, <2>1
    <3>2. PICK m \in Nat : m = n + 1
      BY <1>1
    <3>3. OlderDecoder(i, m)' = OlderDecoder(i, m)
      BY <1>1 DEF OlderDecoder
    <3>4. LaneOf(a)' = LaneOf(b)'
      BY <1>4, <2>4
    <3>5. PutOrder'
      BY DEF OrderInv
    <3>6. a \in Put'[i] /\ b \in Put'[m] /\ i < m /\ i \in 1 .. Len(Put)' /\ m \in 1 .. Len(Put)'
      BY <3>1, <3>2
    <3>7. a < b \/ (a = b /\ OlderDecoder(i, m)')
      BY <3>4, <3>5, <3>6 DEF PutOrder
    <3> QED
      BY <3>2, <3>3, <3>7
  <2>5. OlderDecoder(i, n + 1) => WrittenBy(i) < Len(starts)
    <3> SUFFICES ASSUME NEW k \in 1 .. Len(starts), i <= starts[k]
                 PROVE  WrittenBy(i) < Len(starts)
      BY DEF OlderDecoder
    <3>1. WrittenBy(i) \in 1 .. Len(starts) /\ starts[WrittenBy(i)] < i
      BY WrittenByOne DEF Wrote
    <3>2. /\ Len(starts) \in Nat /\ \A l \in 1 .. Len(starts) : starts[l] \in Nat
          /\ i \in Nat
      BY <1>1, StartsTypes
    <3>3. WrittenBy(i) < k
      BY <3>1, <3>2 DEF StartsInv
    <3> QED
      BY <3>1, <3>2, <3>3
  <2> QED
    BY <2>2, <2>3, <2>4, <2>5
<1>11. Len(Delivered) = n /\ Len(LanesRead) = Len(blocks) /\ Block = 1 .. Len(blocks)
  BY <1>1, StreamTypes DEF Delivered, LanesRead, Block
<1>12. LanesRead' = LanesRead /\ Len(starts') = Len(starts)
  BY <1>1, <1>4 DEF LanesRead
<1> QED
  BY <1>9, <1>10, <1>11, <1>12
     DEF Transfer!Deliver, Transfer!MayPrecede, LanesRead, Delivered

LEMMA RestartIsNextDecoder ==
  ASSUME TInv, TInv', Restart PROVE Transfer!NextDecoder
<1> USE DEF TInv, LInv
<1>1. /\ starts \in Seq(0 .. Len(output)) /\ starts' = Append(starts, Len(output))
      /\ UNCHANGED <<blocks, output>> /\ Len(output) \in Nat
  BY PutType DEF Restart, NextDecoder, TypeOK, streamVars
<1>2. /\ Len(starts') = Len(starts) + 1 /\ Len(starts) \in Nat
      /\ \A k \in 1 .. Len(starts) : starts'[k] = starts[k] /\ k \in 1 .. Len(starts')
      /\ starts'[Len(starts) + 1] = Len(output)
  BY <1>1
<1>3. \A i \in 1 .. Len(output) : WrittenBy(i)' = WrittenBy(i)
  <2> SUFFICES ASSUME NEW i \in 1 .. Len(output) PROVE WrittenBy(i)' = WrittenBy(i)
    OBVIOUS
  <2>1. PICK k \in 1 .. Len(starts) : k = WrittenBy(i) /\ Wrote(k, i)
    BY WrittenByOne
  <2>2. Wrote(k, i)'
    BY <1>1, <1>2, <2>1 DEF Wrote
  <2>3. WrittenBy(i)' = k
    BY <1>1, <1>2, <2>2, WrittenByUniqueNext
  <2> QED
    BY <2>1, <2>3
<1>4. Delivered' = Delivered
  <2>1. \A S : Intact(S)' = Intact(S)
    BY <1>1 DEF Intact, Block
  <2> QED
    BY <1>1, <1>3, <2>1 DEF Delivered
<1>5. LanesRead' = LanesRead
  BY <1>1 DEF LanesRead, Block, LaneOf
<1> QED
  BY <1>2, <1>4, <1>5 DEF Transfer!NextDecoder, LanesRead, Delivered

LEMMA NextIsTransfer ==
  ASSUME SameWorkers, TInv, TInv', [Next]_vars
  PROVE  [Transfer!TransferNext]_(Transfer!transferVars)
<1> USE DEF TInv, LInv
<1>1. ASSUME UNCHANGED <<blocks, output, starts>>
      PROVE  UNCHANGED Transfer!transferVars
  <2>1. Delivered' = Delivered /\ LanesRead' = LanesRead
    BY <1>1, DeliveredUnchanged DEF LanesRead, LaneOf, Block
  <2> QED
    BY <1>1, <2>1 DEF Transfer!transferVars, LanesRead, Delivered
<1>2. CASE Stream
  <2>1. ASSUME NEW id \in BlockId, ReadBlock(id) PROVE Transfer!TransferNext
    BY <1>2, <2>1, ReadIsWrite DEF Stream, Transfer!TransferNext
  <2>2. ASSUME NextConnection PROVE UNCHANGED Transfer!transferVars
    BY <1>1, <1>2, <2>2 DEF Stream, NextConnection, codecVars, linkVars
  <2> QED
    BY <1>2, <2>1, <2>2 DEF Stream
<1>3. ASSUME NEW p, Lose(p) \/ Arrive(p) PROVE UNCHANGED Transfer!transferVars
  BY <1>1, <1>3 DEF Lose, Arrive, Emit, DispatcherRead, codecVars, linkVars, forwarderVars
<1>4. CASE Decode
  <2>1. CASE ForwarderWrite
    BY <1>4, <2>1, ForwarderWriteIsDeliver DEF Decode, Transfer!TransferNext, LanesRead
  <2>2. CASE ~ForwarderWrite
    <3>1. output' = output
      BY <1>4, <2>2, CallerKeepsTypeOK, DispatcherKeepsTypeOK, DecoderKeepsTypeOK
         DEF Decode, DecoderNext, TypeOK, ForwarderSteps, ForwarderReceive,
             ForwarderWriteFails, ForwarderEnds
    <3> QED
      BY <1>1, <1>4, <3>1 DEF Decode, streamVars, linkVars
  <2> QED
    BY <2>1, <2>2
<1>5. CASE Restart
  BY <1>5, RestartIsNextDecoder DEF Transfer!TransferNext
<1>6. CASE Terminated \/ UNCHANGED vars
  BY <1>1, <1>6 DEF Terminated, vars, streamVars, codecVars, linkVars
<1> QED
  BY <1>2, <1>3, <1>4, <1>5, <1>6 DEF Next

(* As long as one encoder sends no more blocks than there are ids, the     *)
(* encoder, the lossy link and any number of decoders one after the other  *)
(* implement BlockTransfer: what comes out went in, in the order of its    *)
(* lane, and is repeated only by another decoder.                          *)
THEOREM CodecImplementsTransfer ==
  ASSUME SameWorkers, IdsAreUnique PROVE Spec => TransferSpec
<1>1. Init => Transfer!TransferInit
  <2> SUFFICES ASSUME Init PROVE Transfer!TransferInit
    OBVIOUS
  <2>1. blocks = << >> /\ output = << >> /\ starts = <<0>>
    BY DEF Init, StreamInit, DecoderInit
  <2>2. Block = 1 .. 0 /\ Len(output) = 0 /\ Len(starts) = 1
    BY <2>1 DEF Block
  <2> QED
    BY <2>1, <2>2 DEF Transfer!TransferInit
<1>2. TInv /\ TInv' /\ [Next]_vars => [Transfer!TransferNext]_(Transfer!transferVars)
  BY NextIsTransfer
<1> QED
  BY <1>1, <1>2, TInvInvariant, PTL DEF Spec, TransferSpec, Transfer!TransferSpec

-----------------------------------------------------------------------------
(* Nothing that arrived is lost in the decoder, unless a write fails.      *)

(* Threads end from the dispatcher to the forwarder: only a failed write   *)
(* makes one find the receiver of its channel gone.                        *)
EndsInOrder ==
  /\ forwarder = "none" => \A w \in DecoderIds : decoder[w] = "none"
  /\ forwarder = "done" =>
       block_queue = << >> /\ \A w \in DecoderIds : ~Alive(decoder[w])
  /\ \A w \in DecoderIds :
       /\ decoder[w] = "failed" => forwarder = "failed"
       /\ decoder[w] = "done" => ~Alive(dispatcher)
  /\ caller = "start_failed" => dispatcher = "none"

LEMMA EndsInOrderInductive ==
  TypeOK /\ Lifecycle /\ EndsInOrder /\ [Next]_vars => EndsInOrder'
<1> SUFFICES ASSUME TypeOK, Lifecycle, EndsInOrder, [Next]_vars PROVE EndsInOrder'
  OBVIOUS
<1>0. /\ decoder \in [DecoderIds -> ThreadState({"receiving", "sending"})]
      /\ dispatcher \in ThreadState({"reading", "sending"})
      /\ forwarder \in ThreadState({"receiving", "writing"})
      /\ Target \in DecoderIds
  BY TargetType DEF TypeOK, DecoderTypeOK
<1> USE DEF EndsInOrder, Lifecycle, Alive, Ended, ThreadState, dispatcherVars, decoderVars,
            blockVars, forwarderVars
<1>1. CASE UNCHANGED codecVars
  BY <1>1 DEF codecVars
<1>2. ASSUME NEW p, Arrive(p) PROVE EndsInOrder'
  BY <1>0, <1>2 DEF Arrive, DispatcherRead
<1>3. CASE Restart
  BY <1>3 DEF Restart, NextDecoder
<1>4. CASE StartDecoding \/ StartFails \/ Stop \/ Wait \/ WaitReturns
  <2>1. CASE StartDecoding \/ StartFails
    BY <1>0, <2>1 DEF StartDecoding, StartFails, ConfigurationRefused, PacketSizeUnknown
  <2>2. CASE Stop \/ Wait \/ WaitReturns
    BY <1>0, <2>2 DEF Stop, Wait, WaitReturns
  <2> QED
    BY <1>4, <2>1, <2>2
<1>5. CASE DispatcherEof \/ DispatcherInterrupted \/ DispatcherReadFails
  BY <1>0, <1>5 DEF DispatcherEof, DispatcherInterrupted, DispatcherReadFails, DispatcherEnds
<1>6. CASE DispatcherSteps
  BY <1>0, <1>6 DEF DispatcherSteps, DispatcherSend, DispatcherSendFails
<1>7. ASSUME NEW w \in DecoderIds, DecoderSteps(w) PROVE EndsInOrder'
  <2>1. CASE DecoderIgnores(w)
    BY <1>0, <2>1 DEF DecoderIgnores
  <2>2. ASSUME NEW decoded \in BOOLEAN, DecoderTries(w, decoded) PROVE EndsInOrder'
    <3>1. /\ decoder[w] = "receiving" /\ decoder' \in {decoder, [decoder EXCEPT ![w] = "sending"]}
          /\ UNCHANGED <<caller, dispatcher, forwarder, block_queue>>
      BY <2>2 DEF DecoderTries
    <3> QED
      BY <1>0, <3>1
  <2>3. CASE DecoderSend(w)
    BY <1>0, <2>3 DEF DecoderSend, HasBlock
  <2>4. CASE DecoderSendFails(w)
    BY <1>0, <2>4 DEF DecoderSendFails, HasBlock
  <2>5. CASE DecoderEnds(w)
    BY <1>0, <2>5 DEF DecoderEnds, PacketQueuesDropped
  <2> QED
    BY <1>7, <2>1, <2>2, <2>3, <2>4, <2>5 DEF DecoderSteps
<1>8. CASE ForwarderSteps
  BY <1>0, <1>8 DEF ForwarderSteps, ForwarderReceive, ForwarderWrite, ForwarderWriteFails,
              ForwarderEnds, BlockQueueDropped
<1> QED
  BY <1>1, <1>2, <1>3, <1>4, <1>5, <1>6, <1>7, <1>8
     DEF Next, Stream, Lose, Decode, DecoderNext, Terminated, vars

(* A step that changes nothing of what arrived, is kept and was put out.   *)
Steady ==
  /\ UNCHANGED <<streamVars, linkVars, blockVars, Put>>
  /\ \A w \in DecoderIds :
       /\ Ahead(w)' = Ahead(w)
       /\ decoder'[w] = "sending" <=> decoder[w] = "sending"

LEMMA SteadySteps ==
  ASSUME TypeOK, PipeInv, EndsInOrder, UNCHANGED <<streamVars, linkVars>>,
         \/ StartDecoding \/ StartFails \/ Stop \/ Wait \/ WaitReturns
         \/ DispatcherEof \/ DispatcherInterrupted \/ DispatcherReadFails
         \/ DispatcherSteps
         \/ \E w \in DecoderIds : DecoderSendFails(w) \/ DecoderEnds(w)
         \/ ForwarderSteps
         \/ UNCHANGED codecVars,
         forwarder' # "failed"
  PROVE  Steady /\ forwarder # "failed"
<1>0. /\ decoder \in [DecoderIds -> ThreadState({"receiving", "sending"})]
      /\ Target \in DecoderIds
  BY TargetType DEF TypeOK, DecoderTypeOK
<1> USE DEF dispatcherVars, decoderVars, blockVars, forwarderVars
<1>1. ASSUME packet_queue' = packet_queue, UNCHANGED blockVars,
             \/ UNCHANGED <<dispatcher, dispatching>>
             \/ /\ dispatcher # "sending" /\ dispatcher' # "sending"
                /\ dispatching' = dispatching,
             Put' = Put,
             \A w \in DecoderIds : decoder'[w] = "sending" <=> decoder[w] = "sending"
      PROVE  Steady
  BY <1>1, AheadUnchanged, ReadAhead DEF Steady
<1>2. ASSUME UNCHANGED <<output, forwarding, block_queue>>,
             forwarder' = forwarder \/ (forwarder # "writing" /\ forwarder' # "writing")
      PROVE  Put' = Put
  BY <1>2 DEF Put
<1>3. CASE StartDecoding \/ PacketSizeUnknown
  <2>1. /\ dispatcher # "sending" /\ dispatcher' # "sending"
        /\ forwarder = "none" /\ forwarder' = "receiving"
        /\ \A w \in DecoderIds : decoder[w] # "sending" /\ decoder'[w] # "sending"
        /\ UNCHANGED <<packet_queue, blockVars, dispatching, output, forwarding, block_queue>>
    BY <1>3 DEF StartDecoding, PacketSizeUnknown, PipeInv, Lifecycle
  <2> QED
    BY <1>1, <1>2, <2>1
<1>4. CASE ConfigurationRefused \/ Stop \/ Wait \/ WaitReturns
  <2>1. /\ UNCHANGED <<packet_queue, blockVars, dispatcher, dispatching, decoder,
                       output, forwarding, block_queue>>
        /\ forwarder' = forwarder \/ (forwarder = "none" /\ forwarder' = "receiving")
    BY <1>4 DEF ConfigurationRefused, Stop, Wait, WaitReturns, PipeInv, Lifecycle
  <2> QED
    BY <1>1, <1>2, <2>1
<1>5. CASE DispatcherEof \/ DispatcherInterrupted \/ DispatcherReadFails
  <2>1. /\ UNCHANGED <<packet_queue, blockVars, dispatching, decoder,
                       output, forwarding, block_queue, forwarder>>
        /\ dispatcher # "sending" /\ dispatcher' # "sending"
    BY <1>5 DEF DispatcherEof, DispatcherInterrupted, DispatcherReadFails,
                DispatcherEnds
  <2> QED
    BY <1>1, <1>2, <2>1
<1>6. CASE DispatcherSend
  <2>1. /\ UNCHANGED <<blockVars, decoder, output, forwarding, block_queue, forwarder>>
    BY <1>6 DEF DispatcherSend
  <2>2. Put' = Put
    BY <1>2, <2>1
  <2>3. \A w \in DecoderIds : Ahead(w)' = Ahead(w)
    BY <1>6, SendAhead
  <2> QED
    BY <2>1, <2>2, <2>3 DEF Steady
<1>7. ASSUME DispatcherSendFails PROVE FALSE
  <2>1. dispatcher = "sending" /\ decoder[Target] \in {"none", "done", "failed"}
        /\ forwarder' = forwarder
    BY <1>7 DEF DispatcherSendFails, Alive
  <2> QED
    BY <1>0, <2>1 DEF PipeInv, Lifecycle, EndsInOrder, Alive
<1>8. ASSUME NEW v \in DecoderIds, DecoderSendFails(v) PROVE FALSE
  <2>1. decoder[v] = "sending" /\ forwarder \in {"none", "done", "failed"}
        /\ forwarder' = forwarder
    BY <1>8 DEF DecoderSendFails, HasBlock, Alive
  <2> QED
    BY <2>1 DEF EndsInOrder, Alive
<1>9. ASSUME NEW v \in DecoderIds, DecoderEnds(v) PROVE Steady /\ forwarder # "failed"
  <2>1. /\ UNCHANGED <<packet_queue, dispatcher, dispatching, blockVars, output,
                       forwarding, block_queue, forwarder>>
        /\ \A w \in DecoderIds : decoder'[w] = "sending" <=> decoder[w] = "sending"
    BY <1>0, <1>9 DEF DecoderEnds
  <2> QED
    BY <1>1, <1>2, <2>1
<1>10. CASE ForwarderSteps
  <2>1. /\ UNCHANGED <<packet_queue, dispatcher, dispatching, blockVars, decoder>>
        /\ forwarder # "failed"
    BY <1>10 DEF ForwarderSteps, ForwarderReceive, ForwarderWrite,
                 ForwarderWriteFails, ForwarderEnds
  <2> QED
    BY <1>1, <1>10, <2>1, ForwarderPut
<1>11. CASE UNCHANGED codecVars
  <2>1. UNCHANGED <<packet_queue, dispatcher, dispatching, blockVars, decoder,
                    output, forwarding, block_queue, forwarder>>
    BY <1>11 DEF codecVars
  <2> QED
    BY <1>1, <1>2, <2>1
<1>12. CASE DispatcherSend
  BY <1>6, <1>12 DEF DispatcherSend
<1> QED
  BY <1>3, <1>4, <1>5, <1>6, <1>7, <1>8, <1>9, <1>10, <1>11, <1>12
     DEF DispatcherSteps, StartFails

(* As NextCases, while no write fails.                                     *)
LEMMA NextCasesWhileWritten ==
  ASSUME TypeOK, PipeInv, EndsInOrder, [Next]_vars, forwarder' # "failed"
  PROVE  \/ Restart
         \/ /\ forwarder # "failed"
            /\ \/ Stream
               \/ \E p : Lose(p) \/ Arrive(p)
               \/ Steady
               \/ \E w \in DecoderIds : Takes(w) \/ PutsOut(w)
<1>1. CASE Decode
  <2>1. DecoderNext /\ UNCHANGED <<streamVars, linkVars>>
    BY <1>1 DEF Decode
  <2>2. ASSUME NEW w \in DecoderIds, DecoderSteps(w)
        PROVE  (Steady \/ Takes(w) \/ PutsOut(w)) /\ forwarder # "failed"
    <3>1. CASE DecoderSendFails(w) \/ DecoderEnds(w)
      BY <2>1, <3>1, SteadySteps
    <3>2. CASE DecoderIgnores(w) \/ \E decoded \in BOOLEAN : DecoderTries(w, decoded)
      BY <2>1, <3>2 DEF Takes, DecoderIgnores, DecoderTries, forwarderVars
    <3>3. CASE DecoderSend(w)
      BY <2>1, <3>3 DEF PutsOut, DecoderSend, forwarderVars
    <3> QED
      BY <2>2, <3>1, <3>2, <3>3 DEF DecoderSteps
  <2> QED
    BY <2>1, <2>2, SteadySteps DEF DecoderNext
<1>2. CASE Terminated \/ UNCHANGED vars
  <2>1. UNCHANGED <<streamVars, linkVars>> /\ UNCHANGED codecVars
    BY <1>2 DEF Terminated, vars
  <2> QED
    BY <2>1, SteadySteps
<1>3. CASE Stream
  BY <1>3 DEF Stream, codecVars
<1>4. ASSUME NEW p, Lose(p) \/ Arrive(p) PROVE forwarder # "failed"
  BY <1>4 DEF Lose, Arrive, DispatcherRead, codecVars, forwarderVars
<1> QED
  BY <1>1, <1>2, <1>3, <1>4 DEF Next

(* An undecoded block lacks a source packet, and what was decoded has been *)
(* put out or is about to be.                                              *)
Undecoded ==
  \A w \in DecoderIds :
    ~current_block_is_decoded[w] => ~MustDecode(current_decoder[w])

IsPut(S, w) ==
  \/ decoder[w] = "sending" /\ decoded_block[w] = S
  \/ \E i \in 1 .. Len(Put) : Put[i] = S

DecodedIsPut ==
  \A w \in DecoderIds : current_block_is_decoded[w] =>
    /\ MayDecode(current_decoder[w])
    /\ IsPut(Contents(current_decoder[w]), w)

(* What becomes of a block of which something has arrived: its block       *)
(* decoder has put it out; or has, or will get, all that arrived of it; or *)
(* it is incomplete and the stream has gone on.                            *)
InHand(b) ==
  /\ \A r \in arrived :
       r.block = b => Wire(r) \in Ahead(LaneOf(b)) \cup current_decoder[LaneOf(b)]
  /\ \A q \in current_decoder[LaneOf(b)] : q.block <= b

GivenUp(b) ==
  /\ ~SourcesArrived(b)
  /\ \E c \in Block : b < c /\ LaneOf(c) = LaneOf(b) /\ Seen(c)

Accounted ==
  \A b \in Block : Got(b) /\ ~Excused(b) =>
    IsPut({b}, LaneOf(b)) \/ InHand(b) \/ GivenUp(b)

NothingLost == forwarder # "failed" => DecodedIsPut /\ Accounted

RInv == EndsInOrder /\ Undecoded /\ NothingLost

(* interleave yields every packet: a permutation of the esis.              *)
LEMMA EveryEsiSent == \A e \in Esi : \E i \in 1 .. PacketsPerBlock : EsiOrder[i] = e
<1>1. IsFiniteSet(Esi) /\ Cardinality(Esi) = PacketsPerBlock
  BY FS_Interval DEF Esi
<1>2. Cardinality(1 .. PacketsPerBlock) = PacketsPerBlock
  BY FS_Interval
<1>3. EsiOrder \in Injection(1 .. PacketsPerBlock, Esi)
  BY DEF Injection, IsInjective
<1>4. EsiOrder \in Surjection(1 .. PacketsPerBlock, Esi)
  BY <1>1, <1>2, <1>3, FS_Injection
<1> QED
  BY <1>4 DEF Surjection

(* Every source packet of a block, and nothing else, decodes it.           *)
LEMMA AllSourcesDecode ==
  ASSUME NEW S \in SUBSET WirePacket, NEW b, NEW id,
         \A q \in S : q.block = b /\ q.id = id,
         \A e \in 0 .. SourcePackets - 1 : \E q \in S : q.esi = e
  PROVE  MustDecode(S)
<1> DEFINE D == 0 .. SourcePackets - 1
           f == [e \in D |-> [id |-> id, esi |-> e, block |-> b]]
<1>1. \A q \in S : q = [id |-> id, esi |-> q.esi, block |-> b] /\ q.esi \in Nat
  BY DEF WirePacket, Esi
<1>2. \A q \in SourcesIn(S) : q.esi \in D /\ f[q.esi] = q
  BY <1>1 DEF SourcesIn
<1>3. \A e \in D : f[e] \in SourcesIn(S)
  <2> SUFFICES ASSUME NEW e \in D PROVE f[e] \in SourcesIn(S)
    OBVIOUS
  <2>1. PICK q \in S : q.esi = e
    OBVIOUS
  <2>2. q = f[e] /\ e < SourcePackets
    BY <1>1, <2>1
  <2> QED
    BY <2>1, <2>2 DEF SourcesIn
<1>4. \A d, e \in D : f[d] = f[e] => d = e
  <2> SUFFICES ASSUME NEW d \in D, NEW e \in D, f[d] = f[e] PROVE d = e
    OBVIOUS
  <2>1. f[d].esi = d /\ f[e].esi = e
    OBVIOUS
  <2> QED
    BY <2>1
<1>5. f \in [D -> SourcesIn(S)]
  BY <1>3
<1> HIDE DEF f
<1>6. f \in Bijection(D, SourcesIn(S))
  BY <1>2, <1>4, <1>5 DEF Bijection, Injection, Surjection, IsInjective
<1>7. ExistsBijection(D, SourcesIn(S))
  BY <1>6 DEF ExistsBijection
<1>8. IsFiniteSet(D) /\ Cardinality(D) = SourcePackets
  BY FS_Interval
<1> HIDE DEF D
<1>9. Cardinality(SourcesIn(S)) = Cardinality(D)
  BY <1>7, <1>8, FS_Bijection
<1> QED
  BY <1>8, <1>9 DEF MustDecode

LEMMA OneBlockIsPut ==
  ASSUME TypeOK, DecodedIsPut, NEW w \in DecoderIds, current_block_is_decoded[w],
         NEW b, \A q \in current_decoder[w] : q.block = b
  PROVE  IsPut({b}, w)
<1>1. current_decoder[w] \in SUBSET WirePacket
  BY DEF TypeOK, DecoderTypeOK
<1>2. Contents(current_decoder[w]) # {}
  BY ContentsNonempty DEF DecodedIsPut
<1>3. Contents(current_decoder[w]) \subseteq {q.block : q \in current_decoder[w]}
  BY <1>1, ContentsType
<1>4. Contents(current_decoder[w]) = {b}
  BY <1>2, <1>3
<1> QED
  BY <1>4 DEF DecodedIsPut

(* When all that arrived of a block has reached the block decoder, either  *)
(* the block has been put out or a source packet of it is missing.         *)
LEMMA ReceivedIsPut ==
  ASSUME SameWorkers, LInv, AliasInv, Undecoded, DecodedIsPut,
         NEW b \in Block, Got(b), ~Excused(b), InHand(b),
         \A x \in Ahead(LaneOf(b)) : x.block # b, SourcesArrived(b)
  PROVE  IsPut({b}, LaneOf(b))
<1> DEFINE w == LaneOf(b)
<1>0. TypeOK /\ b \in Nat /\ blocks[b] \in BlockId
  BY StreamTypes DEF LInv
<1>1. w \in DecoderIds
  BY <1>0, LaneType DEF LaneOf, SameWorkers
<1>2. \A r \in arrived : r.block = b => Wire(r) \in current_decoder[w]
  <2>1. \A r : Wire(r).block = r.block
    BY DEF Wire
  <2> QED
    BY <2>1 DEF InHand
<1>3. PICK r \in arrived : r.block = b
  BY DEF Got
<1>4. Wire(r) \in current_decoder[w] /\ Wire(r).block = b
  BY <1>2, <1>3 DEF Wire
<1>5. \A q \in current_decoder[w] : /\ q.block \in Block /\ q.block \in Nat
                                    /\ q.id = blocks[q.block]
  BY <1>1, KnownBlocks DEF LInv, OrderInv, KeptRight
<1> HIDE DEF w
<1>6. \A q \in current_decoder[w] : q.block = b
  <2> SUFFICES ASSUME NEW q \in current_decoder[w] PROVE q.block = b
    OBVIOUS
  <2>1. q.block <= b
    BY DEF InHand, w
  <2>2. ASSUME q.block < b PROVE FALSE
    <3>1. Aliased(q.block, b)
      BY <1>1, <1>4, <2>2 DEF AliasInv, KeptAliased
    <3> QED
      BY <1>5, <3>1 DEF Excused
  <2> QED
    BY <1>0, <1>5, <2>1, <2>2
<1>7. CASE current_block_is_decoded[w]
  BY <1>0, <1>1, <1>6, <1>7, OneBlockIsPut DEF w
<1>8. ASSUME ~current_block_is_decoded[w] PROVE FALSE
  <2>1. current_decoder[w] \in SUBSET WirePacket
    BY <1>0, <1>1 DEF TypeOK, DecoderTypeOK
  <2>2. ASSUME NEW e \in 0 .. SourcePackets - 1
        PROVE  \E q \in current_decoder[w] : q.esi = e
    <3>1. e \in Esi /\ e < SourcePackets
      BY DEF Esi
    <3>2. PICK i \in 1 .. PacketsPerBlock : EsiOrder[i] = e
      BY <3>1, EveryEsiSent
    <3>3. Packet(b, i) \in arrived
      BY <3>1, <3>2 DEF SourcesArrived
    <3>4. Packet(b, i).block = b /\ Packet(b, i).idx = i
      BY DEF Packet
    <3>5. Wire(Packet(b, i)) \in current_decoder[w] /\ Wire(Packet(b, i)).esi = e
      BY <1>2, <3>2, <3>3, <3>4 DEF Wire
    <3> QED
      BY <3>5
  <2>3. \A q \in current_decoder[w] : q.block = b /\ q.id = blocks[b]
    BY <1>5, <1>6
  <2>4. MustDecode(current_decoder[w])
    BY <2>1, <2>2, <2>3, AllSourcesDecode
  <2> QED
    BY <1>1, <1>8, <2>4 DEF Undecoded
<1> QED
  BY <1>7, <1>8

(* Steps that take nothing and put nothing out.                            *)
LEMMA NothingTakenKeepsFates ==
  ASSUME SameWorkers, LInv, Undecoded, DecodedIsPut, Accounted, TypeOK',
         UNCHANGED <<arrived, blockVars, Put>>,
         \A p \in emitted : p \in emitted',
         \A b \in Block : /\ b \in Block' /\ blocks'[b] = blocks[b]
                          /\ encoders'[b] = encoders[b] /\ LaneOf(b)' = LaneOf(b),
         \A w \in DecoderIds :
           /\ Ahead(w)' = Ahead(w)
           /\ decoder'[w] = "sending" <=> decoder[w] = "sending"
  PROVE  Undecoded' /\ DecodedIsPut' /\ Accounted'
<1> USE DEF blockVars
<1>1. Undecoded'
  BY DEF Undecoded
<1>2. \A w \in DecoderIds : \A S : IsPut(S, w)' <=> IsPut(S, w)
  BY DEF IsPut
<1>3. DecodedIsPut'
  BY <1>2 DEF DecodedIsPut
<1>4. Accounted'
  <2> SUFFICES ASSUME NEW b \in Block', Got(b)', ~Excused(b)'
               PROVE  (IsPut({b}, LaneOf(b)) \/ InHand(b) \/ GivenUp(b))'
    BY DEF Accounted
  <2>1. PICK r \in arrived : r.block = b
    BY DEF Got
  <2>2. b \in Block /\ Got(b) /\ b \in Nat /\ blocks[b] \in BlockId
    BY <2>1, StreamTypes DEF LInv, Got
  <2>3. LaneOf(b) \in DecoderIds /\ LaneOf(b)' = LaneOf(b)
    BY <2>2, LaneType DEF LaneOf, SameWorkers
  <2>4. ~Excused(b)
    <3> SUFFICES ASSUME NEW a \in Block, Aliased(a, b) PROVE FALSE
      BY DEF Excused
    <3>1. Aliased(a, b)'
      BY <2>2, AliasedStays, KnownBlocks DEF LInv
    <3> QED
      BY <3>1 DEF Excused
  <2>5. CASE IsPut({b}, LaneOf(b))
    <3>1. PICK w \in DecoderIds : w = LaneOf(b)
      BY <2>3
    <3>2. IsPut({b}, w)'
      BY <1>2, <2>5, <3>1
    <3> QED
      BY <2>3, <3>1, <3>2
  <2>6. CASE InHand(b)
    <3>1. \A s \in arrived : s.block = b => Wire(s)' = Wire(s)
      BY <2>2 DEF Wire
    <3>2. Ahead(LaneOf(b))' = Ahead(LaneOf(b))
      <4>1. PICK w \in DecoderIds : w = LaneOf(b)
        BY <2>3
      <4>2. Ahead(w)' = Ahead(w)
        OBVIOUS
      <4> QED
        BY <2>3, <4>1, <4>2 DEF Ahead
    <3> QED
      BY <2>3, <2>6, <3>1, <3>2 DEF InHand
  <2>7. CASE GivenUp(b)
    <3>1. ~SourcesArrived(b)'
      BY <2>7 DEF GivenUp, SourcesArrived
    <3> QED
      BY <2>3, <2>7, <3>1 DEF GivenUp, Seen
  <2> QED
    BY <2>2, <2>4, <2>5, <2>6, <2>7 DEF Accounted
<1> QED
  BY <1>1, <1>3, <1>4

LEMMA ArriveKeepsFates ==
  ASSUME SameWorkers, LInv, Undecoded, DecodedIsPut, Accounted, NEW p, Arrive(p)
  PROVE  Undecoded' /\ DecodedIsPut' /\ Accounted'
<1> USE DEF LInv
<1>0. /\ Emit(p) /\ UNCHANGED <<blocks, encoders>> /\ arrived' = arrived \cup {p}
      /\ emitted' = emitted \cup {p}
      /\ UNCHANGED <<starts, decoder, current_block_id, current_decoder,
                     current_block_is_decoded, decoded_block, output,
                     forwarder, forwarding, block_queue>>
  BY DEF Arrive, DispatcherRead, Emit, decoderVars, forwarderVars
<1>1. /\ Put' = Put /\ Block' = Block /\ (\A b : LaneOf(b)' = LaneOf(b))
      /\ \A s : Wire(s)' = Wire(s)
  BY <1>0 DEF Put, Block, LaneOf, Wire
<1>2. \A b : Seen(b) /\ LaneOf(b) = LaneOf(p.block) => b <= p.block
  BY <1>0, EmittedInOrder DEF Seen
<1>3. \A w \in DecoderIds : Ahead(w)' = IF w = LaneOf(p.block) THEN Ahead(w) \cup {Wire(p)}
                                         ELSE Ahead(w)
  BY ArriveAhead
<1>4. p.block \in Block /\ p.block \in Nat /\ LaneOf(p.block) \in DecoderIds
  BY <1>0, WireLane, StreamTypes
<1>5. Undecoded' /\ DecodedIsPut'
  BY <1>0, <1>1 DEF Undecoded, DecodedIsPut, IsPut
<1>6. Accounted'
  <2> SUFFICES ASSUME NEW b \in Block, Got(b)', ~Excused(b)'
               PROVE  (IsPut({b}, LaneOf(b)) \/ InHand(b) \/ GivenUp(b))'
    BY <1>1 DEF Accounted
  <2>0. b \in Nat /\ LaneOf(b) \in DecoderIds
    BY StreamTypes, LaneType DEF LaneOf, SameWorkers
  <2>1. \A s : Wire(s) \in Ahead(LaneOf(b)) => Wire(s) \in Ahead(LaneOf(b))'
    <3>1. PICK w \in DecoderIds : w = LaneOf(b)
      BY <2>0
    <3>2. Ahead(w) \subseteq Ahead(w)'
      BY <1>3
    <3> QED
      BY <1>1, <3>1, <3>2
  <2>2. b = p.block => Wire(p) \in Ahead(LaneOf(b))'
    <3>1. PICK w \in DecoderIds : w = LaneOf(b)
      BY <2>0
    <3>2. b = p.block => Wire(p) \in Ahead(w)'
      BY <1>3, <3>1
    <3> QED
      BY <1>1, <3>1, <3>2
  <2>3. CASE ~Got(b)
    <3>1. b = p.block /\ \A s \in arrived' : s.block = b => s = p
      BY <1>0, <2>3 DEF Got
    <3>2. \A q \in current_decoder[LaneOf(b)] : q.block <= b
      BY <1>2, <2>0, <3>1, KnownBlocks
    <3>3. InHand(b)'
      BY <1>0, <1>1, <2>2, <3>1, <3>2 DEF InHand
    <3> QED
      BY <3>3
  <2>4. CASE Got(b)
    <3>1. Seen(b)
      BY <2>4, StreamTypes DEF Got, Seen
    <3>2. ~Excused(b)
      <4> SUFFICES ASSUME NEW a \in Block, Aliased(a, b) PROVE FALSE
        BY DEF Excused
      <4>1. Aliased(a, b)'
        <5>1. \A s \in arrived' : s \in arrived \/ LaneOf(s.block) # LaneOf(b) \/ b <= s.block
          BY <1>0, <1>2, <3>1
        <5>2. \A s \in arrived' : s.block \in Block /\ s.block \in Nat
          BY <1>0, <1>4, KnownBlocks
        <5> QED
          BY <1>0, <1>1, <5>1, <5>2, AliasedStays
      <4> QED
        BY <1>1, <4>1 DEF Excused
    <3>3. CASE IsPut({b}, LaneOf(b))
      BY <1>0, <1>1, <3>3 DEF IsPut
    <3>4. CASE InHand(b)
      <4>1. \A s \in arrived' : s.block = b =>
              Wire(s) \in Ahead(LaneOf(b))' \cup current_decoder[LaneOf(b)]
        BY <1>0, <2>1, <2>2, <3>4 DEF InHand
      <4>2. InHand(b)'
        BY <1>0, <1>1, <3>4, <4>1 DEF InHand
      <4> QED
        BY <4>2
    <3>5. CASE GivenUp(b)
      <4>1. PICK c \in Block : b < c /\ LaneOf(c) = LaneOf(b) /\ Seen(c)
        BY <3>5 DEF GivenUp
      <4>2. c \in Nat
        BY StreamTypes
      <4>3. p.block # b
        BY <1>2, <2>0, <4>1, <4>2
      <4>4. \A i : p # Packet(b, i)
        BY <4>3 DEF Packet
      <4>5. ~SourcesArrived(b)'
        BY <1>0, <3>5, <4>4 DEF GivenUp, SourcesArrived
      <4>6. Seen(c)'
        BY <1>0, <4>1 DEF Seen
      <4>7. GivenUp(b)'
        BY <1>1, <4>1, <4>5, <4>6 DEF GivenUp
      <4> QED
        BY <4>7
    <3> QED
      BY <2>4, <3>2, <3>3, <3>4, <3>5 DEF Accounted
  <2> QED
    BY <2>3, <2>4
<1> QED
  BY <1>5, <1>6

LEMMA PutsOutKeepsFates ==
  ASSUME LInv, Undecoded, DecodedIsPut, Accounted, NEW v \in DecoderIds, PutsOut(v),
         SameWorkers
  PROVE  Undecoded' /\ DecodedIsPut' /\ Accounted'
<1>1. /\ Put' = Append(Put, decoded_block[v])
      /\ decoder[v] = "sending" /\ decoder'[v] = "receiving"
      /\ \A w \in DecoderIds : w # v => decoder'[w] = decoder[w]
      /\ \A w \in DecoderIds : Ahead(w)' = Ahead(w)
      /\ UNCHANGED <<blocks, encoders, emitted, sessions, arrived, starts,
                     current_block_id, current_decoder,
                     current_block_is_decoded, decoded_block>>
  BY PutsOutEffect DEF LInv, streamVars, linkVars, blockVars
<1>2. /\ Block' = Block
      /\ \A b : LaneOf(b)' = LaneOf(b) /\ Got(b)' = Got(b) /\ Seen(b)' = Seen(b)
      /\ \A b : SourcesArrived(b)' = SourcesArrived(b)
      /\ \A a, b : Aliased(a, b)' = Aliased(a, b)
      /\ \A s : Wire(s)' = Wire(s)
  BY <1>1 DEF Block, LaneOf, Aliased, LaneBetween, Got, Seen, SourcesArrived, Wire
<1>3. Put \in Seq(SUBSET Nat) /\ decoded_block[v] \in SUBSET Nat
  BY PutType DEF LInv, TypeOK, DecoderTypeOK
<1>4. /\ \A i \in 1 .. Len(Put) : i \in 1 .. Len(Put') /\ Put'[i] = Put[i]
      /\ Len(Put) + 1 \in 1 .. Len(Put') /\ Put'[Len(Put) + 1] = decoded_block[v]
  BY <1>1, <1>3
<1>5. ASSUME NEW w \in DecoderIds, NEW S, IsPut(S, w) PROVE IsPut(S, w)'
  BY <1>1, <1>4, <1>5 DEF IsPut
<1>6. Undecoded' /\ DecodedIsPut'
  BY <1>1, <1>5 DEF Undecoded, DecodedIsPut
<1>7. Accounted'
  <2> SUFFICES ASSUME NEW b \in Block, Got(b), ~Excused(b)
               PROVE  (IsPut({b}, LaneOf(b)) \/ InHand(b) \/ GivenUp(b))'
    BY <1>2 DEF Accounted, Excused
  <2>1. PICK w \in DecoderIds : w = LaneOf(b)
    BY StreamTypes, LaneType DEF LInv, LaneOf, SameWorkers
  <2>2. CASE IsPut({b}, LaneOf(b))
    <3>1. IsPut({b}, w)'
      BY <1>5, <2>1, <2>2
    <3> QED
      BY <1>2, <2>1, <3>1
  <2>3. CASE InHand(b)
    <3>1. Ahead(w)' = Ahead(w) /\ LaneOf(b)' = w
      BY <1>1, <1>2, <2>1
    <3>2. InHand(b)'
      BY <1>1, <1>2, <2>1, <2>3, <3>1 DEF InHand
    <3> QED
      BY <3>2
  <2>4. CASE GivenUp(b)
    BY <1>2, <2>4 DEF GivenUp
  <2> QED
    BY <2>2, <2>3, <2>4 DEF Accounted
<1> QED
  BY <1>6, <1>7

(* A packet taken changes only its block decoder.                          *)
LEMMA TakesEffect ==
  ASSUME SameWorkers, LInv, NEW v \in DecoderIds, Takes(v)
  PROVE  LET h == Head(packet_queue[v]) IN
           /\ decoder[v] = "receiving" /\ packet_queue[v] # << >>
           /\ \A w \in DecoderIds : w # v =>
                /\ current_decoder'[w] = current_decoder[w]
                /\ current_block_is_decoded'[w] = current_block_is_decoded[w]
                /\ decoder'[w] = decoder[w]
                /\ decoded_block'[w] = decoded_block[w]
           /\ \/ /\ IsCurrent(v, h) /\ current_block_is_decoded[v]
                 /\ UNCHANGED <<current_decoder, current_block_is_decoded, decoder,
                                decoded_block>>
              \/ /\ current_decoder'[v] = KeptFor(v, h)
                 /\ \/ /\ ~current_block_is_decoded'[v]
                       /\ ~MustDecode(KeptFor(v, h))
                    \/ /\ current_block_is_decoded'[v] /\ MayDecode(KeptFor(v, h))
                       /\ decoder'[v] = "sending"
                       /\ decoded_block'[v] = Contents(KeptFor(v, h))
<1> DEFINE h == Head(packet_queue[v])
<1>1. CASE DecoderIgnores(v)
  BY <1>1 DEF DecoderIgnores, decoderVars
<1>2. ASSUME NEW decoded \in BOOLEAN, DecoderTries(v, decoded)
      PROVE  /\ decoder[v] = "receiving" /\ packet_queue[v] # << >>
             /\ \A w \in DecoderIds : w # v =>
                  /\ current_decoder'[w] = current_decoder[w]
                  /\ current_block_is_decoded'[w] = current_block_is_decoded[w]
                  /\ decoder'[w] = decoder[w]
                  /\ decoded_block'[w] = decoded_block[w]
             /\ current_decoder'[v] = KeptFor(v, h)
             /\ \/ /\ ~current_block_is_decoded'[v]
                   /\ ~MustDecode(KeptFor(v, h))
                \/ /\ current_block_is_decoded'[v] /\ MayDecode(KeptFor(v, h))
                   /\ decoder'[v] = "sending"
                   /\ decoded_block'[v] = Contents(KeptFor(v, h))
  <2>1. IF decoded THEN MayDecode(KeptFor(v, h)) ELSE ~MustDecode(KeptFor(v, h))
    BY <1>2 DEF DecoderTries
  <2>2. /\ decoder[v] = "receiving" /\ packet_queue[v] # << >>
        /\ \A w \in DecoderIds : w # v =>
             /\ current_decoder'[w] = current_decoder[w]
             /\ current_block_is_decoded'[w] = current_block_is_decoded[w]
             /\ decoder'[w] = decoder[w]
             /\ decoded_block'[w] = decoded_block[w]
        /\ current_decoder'[v] = KeptFor(v, h)
        /\ current_block_is_decoded'[v] = decoded
        /\ decoder'[v] = IF decoded THEN "sending" ELSE "receiving"
        /\ decoded => decoded_block'[v] = Contents(KeptFor(v, h))
    BY <1>2, TriesEffect DEF LInv
  <2> HIDE DEF h
  <2> QED
    BY <2>1, <2>2
<1> HIDE DEF h
<1> QED
  BY <1>1, <1>2 DEF Takes, h

(* try_decode adds the packet to those kept of its block, all of them.     *)
LEMMA KeptForBlock ==
  ASSUME SameWorkers, LInv, NEW v \in DecoderIds, packet_queue[v] # << >>,
         \A q \in current_decoder[v] :
           IsCurrent(v, Head(packet_queue[v])) => q.block = Head(packet_queue[v]).block
  PROVE  LET h == Head(packet_queue[v]) IN
           /\ h \in KeptFor(v, h)
           /\ \A q \in current_decoder[v] : q.block = h.block => q \in KeptFor(v, h)
<1> DEFINE h == Head(packet_queue[v])
<1>1. h \in WirePacket /\ h.id = blocks[h.block]
  BY HeadFacts DEF LInv
<1>2. \A q \in current_decoder[v] : /\ q \in WirePacket /\ q.id = blocks[q.block]
                                    /\ q.id = current_block_id[v]
  BY DEF LInv, TypeOK, DecoderTypeOK, OrderInv, KeptRight
<1> HIDE DEF h
<1>3. \A q \in current_decoder[v] : q.block = h.block => IsCurrent(v, h)
  BY <1>1, <1>2 DEF IsCurrent
<1>4. \A q \in current_decoder[v] : IsCurrent(v, h) /\ q.esi = h.esi => q = h
  BY <1>1, <1>2 DEF h, WirePacket
<1> QED
  BY <1>3, <1>4 DEF h, KeptFor, Keep, Esis

LEMMA TakesKeepsFates ==
  ASSUME SameWorkers, TwoIdsPerLane, LInv, AliasInv, Undecoded, DecodedIsPut, Accounted,
         NEW v \in DecoderIds, Takes(v)
  PROVE  Undecoded' /\ DecodedIsPut' /\ Accounted'
<1> DEFINE h == Head(packet_queue[v])
           Ignored == /\ IsCurrent(v, h) /\ current_block_is_decoded[v]
                      /\ UNCHANGED <<current_decoder, current_block_is_decoded,
                                     decoder, decoded_block>>
<1>1. /\ decoder[v] = "receiving" /\ packet_queue[v] # << >>
      /\ \A w \in DecoderIds : w # v =>
           /\ current_decoder'[w] = current_decoder[w]
           /\ current_block_is_decoded'[w] = current_block_is_decoded[w]
           /\ decoder'[w] = decoder[w]
           /\ decoded_block'[w] = decoded_block[w]
      /\ \/ Ignored
         \/ /\ current_decoder'[v] = KeptFor(v, h)
            /\ \/ /\ ~current_block_is_decoded'[v]
                  /\ ~MustDecode(KeptFor(v, h))
               \/ /\ current_block_is_decoded'[v] /\ MayDecode(KeptFor(v, h))
                  /\ decoder'[v] = "sending"
                  /\ decoded_block'[v] = Contents(KeptFor(v, h))
  BY TakesEffect
<1>2. /\ h \in Ahead(v) /\ h.block \in Block /\ h.block \in Nat /\ Seen(h.block)
      /\ LaneOf(h.block) = v
  BY <1>1, HeadFacts DEF LInv
<1>3. /\ \A w \in DecoderIds : w # v => Ahead(w)' = Ahead(w)
      /\ Ahead(v) = {h} \cup Ahead(v)'
      /\ \A x \in Ahead(v) : h.block <= x.block
      /\ UNCHANGED <<blocks, encoders, emitted, arrived, Put>>
  BY TakesHead DEF LInv, streamVars, linkVars
<1>4. /\ Block' = Block
      /\ \A b : LaneOf(b)' = LaneOf(b) /\ Got(b)' = Got(b) /\ Seen(b)' = Seen(b)
      /\ \A b : SourcesArrived(b)' = SourcesArrived(b)
      /\ \A a, b : Aliased(a, b)' = Aliased(a, b)
      /\ \A s : Wire(s)' = Wire(s)
  BY <1>3 DEF Block, LaneOf, Aliased, LaneBetween, Got, Seen, SourcesArrived, Wire
<1>5. \A q \in KeptFor(v, h) : q = h \/ q \in current_decoder[v]
  BY KeptForElements
<1> HIDE DEF h
<1>6. \A q \in current_decoder'[v] : q = h \/ q \in current_decoder[v]
  BY <1>1, <1>5
<1>7. ASSUME NEW w \in DecoderIds, NEW S, IsPut(S, w) PROVE IsPut(S, w)'
  BY <1>1, <1>3, <1>7 DEF IsPut
<1>8. Undecoded'
  <2>1. ~current_block_is_decoded'[v] => ~MustDecode(current_decoder'[v])
    BY <1>1 DEF Undecoded
  <2> QED
    BY <1>1, <2>1 DEF Undecoded
<1>9. DecodedIsPut'
  <2>1. ASSUME current_block_is_decoded'[v]
        PROVE  MayDecode(current_decoder'[v]) /\ IsPut(Contents(current_decoder[v]), v)'
    <3>1. CASE Ignored
      <4>1. /\ MayDecode(current_decoder[v]) /\ IsPut(Contents(current_decoder[v]), v)
            /\ UNCHANGED <<current_decoder, decoder, decoded_block, Put>>
        BY <1>3, <3>1 DEF DecodedIsPut
      <4> QED
        BY <4>1 DEF IsPut
    <3>2. CASE /\ current_decoder'[v] = KeptFor(v, h) /\ MayDecode(KeptFor(v, h))
               /\ decoder'[v] = "sending"
               /\ decoded_block'[v] = Contents(KeptFor(v, h))
      BY <3>2 DEF IsPut
    <3> HIDE DEF Ignored
    <3> QED
      BY <1>1, <2>1, <3>1, <3>2
  <2>2. ASSUME NEW w \in DecoderIds, w # v, current_block_is_decoded'[w]
        PROVE  MayDecode(current_decoder'[w]) /\ IsPut(Contents(current_decoder[w]), w)'
    BY <1>1, <1>3, <2>2 DEF DecodedIsPut, IsPut
  <2> QED
    BY <2>1, <2>2 DEF DecodedIsPut
<1>10. Accounted'
  <2> SUFFICES ASSUME NEW b \in Block, Got(b), ~Excused(b)
               PROVE  (IsPut({b}, LaneOf(b)) \/ InHand(b) \/ GivenUp(b))'
    BY <1>4 DEF Accounted, Excused
  <2>1. PICK w \in DecoderIds : w = LaneOf(b)
    BY StreamTypes, LaneType DEF LInv, LaneOf, SameWorkers
  <2>2. b \in Nat
    BY StreamTypes DEF LInv
  <2>3. ASSUME IsPut({b}, w) PROVE IsPut({b}, LaneOf(b))'
    <3>1. IsPut({b}, w)'
      BY <1>7, <2>3
    <3> QED
      BY <1>4, <2>1, <3>1
  <2>4. CASE GivenUp(b)
    BY <1>4, <2>4 DEF GivenUp
  <2>5. ASSUME \A r \in arrived : r.block = b => Wire(r) \in Ahead(w)' \cup current_decoder'[w],
               \A q \in current_decoder'[w] : q.block <= b
        PROVE  InHand(b)'
    <3>1. LaneOf(b)' = w
      BY <1>4, <2>1
    <3> QED
      BY <1>3, <1>4, <2>1, <2>5, <3>1 DEF InHand
  <2>6. CASE InHand(b) /\ w # v
    BY <1>1, <1>3, <2>1, <2>5, <2>6 DEF InHand
  <2>7. CASE InHand(b) /\ w = v
    <3>1. /\ \A r \in arrived : r.block = b => Wire(r) \in Ahead(v) \cup current_decoder[v]
          /\ \A q \in current_decoder[v] : q.block <= b
      BY <2>1, <2>7 DEF InHand
    <3>2. \A r : Wire(r).block = r.block
      BY DEF Wire
    (* Nothing more of the block is on its way.                            *)
    <3>3. CASE b < h.block
      <4>1. \A x \in Ahead(LaneOf(b)) : x.block # b
        BY <1>2, <1>3, <2>1, <2>2, <2>7, <3>3, KnownBlocks
      <4>2. CASE SourcesArrived(b)
        BY <2>1, <2>3, <2>7, <4>1, <4>2, ReceivedIsPut
      <4>3. CASE ~SourcesArrived(b)
        <5>1. GivenUp(b)
          BY <1>2, <2>1, <2>7, <3>3, <4>3 DEF GivenUp
        <5> QED
          BY <1>4, <5>1 DEF GivenUp
      <4> QED
        BY <4>2, <4>3
    (* The packet is of this block.                                        *)
    <3>4. CASE b = h.block
      <4>1. ASSUME IsCurrent(v, h), NEW q \in current_decoder[v] PROVE q.block = b
        <5>1. q.block = b \/ Aliased(q.block, b)
          BY <1>1, <3>4, <4>1, CurrentIsAliased DEF h, AliasInv
        <5> QED
          BY <5>1, KnownBlocks DEF Excused
      <4>2. CASE Ignored
        <5>1. IsPut({b}, v)
          BY <4>1, <4>2, OneBlockIsPut DEF LInv
        <5> QED
          BY <2>3, <2>7, <5>1
      <4>3. CASE current_decoder'[v] = KeptFor(v, h)
        <5>1. /\ h \in KeptFor(v, h)
              /\ \A q \in current_decoder[v] : q.block = b => q \in KeptFor(v, h)
          BY <1>1, <3>4, <4>1, KeptForBlock DEF h
        <5>2. \A r \in arrived : r.block = b => Wire(r) \in Ahead(v)' \cup current_decoder'[v]
          BY <1>3, <3>1, <3>2, <4>3, <5>1
        <5>3. \A q \in current_decoder'[v] : q.block <= b
          BY <1>6, <2>2, <3>1, <3>4
        <5> QED
          BY <2>5, <2>7, <5>2, <5>3
      <4> QED
        BY <1>1, <4>2, <4>3
    (* Nothing of the block has reached the block decoder.                 *)
    <3>5. CASE h.block < b
      <4>1. ASSUME NEW q \in current_decoder[v] PROVE q.block # b
        <5>1. current_block_id[v] # NoId
          BY DEF LInv, OrderInv, KeptRight
        <5>2. PICK c \in Block : MarkAt(v, c)
          BY <5>1 DEF LInv, OrderInv, CurrentMark
        <5>3. q.block <= c /\ c <= h.block /\ c \in Nat /\ q.block \in Nat
          BY <1>2, <5>2, StreamTypes, KnownBlocks DEF MarkAt, LInv
        <5> QED
          BY <1>2, <2>2, <3>5, <5>3
      <4>2. \A r \in arrived : r.block = b => Wire(r) \in Ahead(v)'
        BY <1>2, <1>3, <2>2, <3>1, <3>2, <3>5, <4>1
      <4>3. \A q \in current_decoder'[v] : q.block <= b
        BY <1>2, <1>6, <2>2, <3>1, <3>5
      <4> QED
        BY <2>5, <2>7, <4>2, <4>3
    <3> QED
      BY <1>2, <2>2, <3>3, <3>4, <3>5
  <2>8. CASE IsPut({b}, LaneOf(b))
    BY <2>1, <2>3, <2>8
  <2> QED
    BY <2>4, <2>6, <2>7, <2>8 DEF Accounted
<1> QED
  BY <1>8, <1>9, <1>10

(* Nothing kept is nothing to decode.                                      *)
LEMMA NothingToDecode == ~MustDecode({})
<1>1. SourcesIn({}) = {}
  BY DEF SourcesIn
<1>2. Cardinality(SourcesIn({})) = 0
  BY <1>1, FS_EmptySet
<1> QED
  BY <1>2 DEF MustDecode

(* A new decoder has received nothing.                                     *)
LEMMA RestartKeepsFates ==
  ASSUME Restart PROVE Undecoded' /\ DecodedIsPut' /\ Accounted'
<1>1. /\ arrived' = {}
      /\ \A w \in DecoderIds : current_decoder'[w] = {} /\ ~current_block_is_decoded'[w]
  BY DEF Restart, NextDecoder, NewBlockDecoders
<1> QED
  BY <1>1, NothingToDecode DEF Undecoded, DecodedIsPut, Accounted, Got

(* Undecoded blocks stay so also while nothing can be put out any more.    *)
LEMMA UndecodedInductive ==
  ASSUME SameWorkers, LInv, Undecoded, [Next]_vars PROVE Undecoded'
<1>1. ASSUME UNCHANGED blockVars PROVE Undecoded'
  BY <1>1 DEF Undecoded, blockVars
<1>2. CASE Stream
  BY <1>1, <1>2 DEF Stream, codecVars, blockVars
<1>3. ASSUME NEW p, Lose(p) \/ Arrive(p) PROVE Undecoded'
  BY <1>1, <1>3 DEF Lose, Arrive, DispatcherRead, codecVars, blockVars, decoderVars
<1>4. CASE Quiet
  BY <1>1, <1>4 DEF Quiet
<1>5. ASSUME NEW v \in DecoderIds, Takes(v) PROVE Undecoded'
  <2> DEFINE h == Head(packet_queue[v])
  <2>1. /\ \A w \in DecoderIds : w # v =>
             /\ current_decoder'[w] = current_decoder[w]
             /\ current_block_is_decoded'[w] = current_block_is_decoded[w]
        /\ \/ UNCHANGED <<current_decoder, current_block_is_decoded>>
           \/ /\ current_decoder'[v] = KeptFor(v, h)
              /\ current_block_is_decoded'[v] \/ ~MustDecode(KeptFor(v, h))
    BY <1>5, TakesEffect
  <2> HIDE DEF h
  <2> QED
    BY <2>1 DEF Undecoded
<1>6. ASSUME NEW v \in DecoderIds, PutsOut(v) PROVE Undecoded'
  BY <1>1, <1>6 DEF PutsOut, DecoderSend, blockVars
<1>7. CASE Restart
  BY <1>7, RestartKeepsFates
<1> QED
  BY <1>2, <1>3, <1>4, <1>5, <1>6, <1>7, NextCases DEF LInv

LEMMA NothingLostInductive ==
  ASSUME SameWorkers, TwoIdsPerLane, LInv, AliasInv, RInv, [Next]_vars
  PROVE  NothingLost'
<1> SUFFICES ASSUME forwarder' # "failed" PROVE DecodedIsPut' /\ Accounted'
  BY DEF NothingLost
<1>0. TypeOK'
  BY TypeOKInductive DEF LInv
<1>1. CASE Restart
  BY <1>1, RestartKeepsFates
<1>2. CASE forwarder # "failed"
  <2>1. Undecoded /\ DecodedIsPut /\ Accounted
    BY <1>2 DEF RInv, NothingLost
  <2>2. ASSUME UNCHANGED <<codecVars, linkVars>>, \A p \in emitted : p \in emitted',
               \A b \in Block : /\ b \in Block' /\ blocks'[b] = blocks[b]
                                /\ encoders'[b] = encoders[b] /\ LaneOf(b)' = LaneOf(b)
        PROVE  DecodedIsPut' /\ Accounted'
    <3>1. UNCHANGED <<arrived, blockVars, packet_queue, dispatcher, dispatching,
                      decoder, output, forwarder, forwarding, block_queue>>
      BY <2>2 DEF codecVars, linkVars, blockVars
    <3>2. Put' = Put
      BY <3>1 DEF Put
    <3>3. \A w \in DecoderIds : Ahead(w)' = Ahead(w)
      BY <3>1, AheadUnchanged
    <3> QED
      BY <1>0, <2>1, <2>2, <3>1, <3>2, <3>3, NothingTakenKeepsFates
  <2>3. CASE Stream
    BY <2>2, <2>3, StreamGrows DEF LInv
  <2>4. ASSUME NEW p, Lose(p) PROVE DecodedIsPut' /\ Accounted'
    BY <2>2, <2>4 DEF Lose, Emit, Block, LaneOf
  <2>5. ASSUME NEW p, Arrive(p) PROVE DecodedIsPut' /\ Accounted'
    BY <2>1, <2>5, ArriveKeepsFates
  <2>6. CASE Steady
    BY <1>0, <2>1, <2>6, NothingTakenKeepsFates
       DEF Steady, streamVars, linkVars, Block, LaneOf
  <2>7. ASSUME NEW v \in DecoderIds, Takes(v) \/ PutsOut(v)
        PROVE  DecodedIsPut' /\ Accounted'
    BY <2>1, <2>7, TakesKeepsFates, PutsOutKeepsFates
  <2> QED
    BY <1>1, <1>2, <2>3, <2>4, <2>5, <2>6, <2>7, NextCasesWhileWritten DEF LInv, RInv
<1> QED
  BY <1>1, <1>2, NextCasesWhileWritten DEF LInv, RInv

LEMMA InitRInv == Init => RInv
<1> SUFFICES ASSUME Init PROVE RInv
  OBVIOUS
<1>1. EndsInOrder
  BY DEF Init, DecoderInit, EndsInOrder
<1>2. /\ arrived = {}
      /\ \A w \in DecoderIds : current_decoder[w] = {} /\ ~current_block_is_decoded[w]
  BY DEF Init, DecoderInit
<1> QED
  BY <1>1, <1>2, NothingToDecode
     DEF RInv, NothingLost, Undecoded, DecodedIsPut, Accounted, Got

LEMMA RInvInvariant ==
  ASSUME SameWorkers, TwoIdsPerLane PROVE Spec => [](LInv /\ AliasInv /\ RInv)
<1>1. LInv /\ AliasInv /\ RInv /\ [Next]_vars => RInv'
  BY EndsInOrderInductive, UndecodedInductive, NothingLostInductive DEF RInv, LInv, PipeInv
<1> QED
  BY <1>1, InitRInv, AliasInvInvariant, PTL DEF Spec

(* When nothing is ahead of its block decoder, a block whose source packets*)
(* all arrived has been put out.                                           *)
LEMMA CompleteIsPut ==
  ASSUME SameWorkers, LInv, AliasInv, RInv, forwarder # "failed",
         NEW b \in Block, SourcesArrived(b), ~Excused(b), Ahead(LaneOf(b)) = {}
  PROVE  IsPut({b}, LaneOf(b))
<1>1. Undecoded /\ DecodedIsPut /\ Accounted
  BY DEF RInv, NothingLost
<1>2. Got(b)
  <2>1. 0 \in Esi /\ 0 < SourcePackets
    BY DEF Esi
  <2>2. PICK i \in 1 .. PacketsPerBlock : EsiOrder[i] = 0
    BY <2>1, EveryEsiSent
  <2>3. Packet(b, i) \in arrived /\ Packet(b, i).block = b
    BY <2>1, <2>2 DEF SourcesArrived, Packet
  <2> QED
    BY <2>3 DEF Got
<1>3. ~GivenUp(b)
  BY DEF GivenUp
<1>4. CASE InHand(b)
  BY <1>1, <1>2, <1>4, ReceivedIsPut
<1> QED
  BY <1>1, <1>2, <1>3, <1>4 DEF Accounted

(* A graceful end loses nothing: when the forwarder has ended without an   *)
(* error, every block whose source packets reached the decoder has been    *)
(* written, whatever the order of the threads and however full the queues. *)
THEOREM CodecReceivedBlocksWritten ==
  ASSUME SameWorkers, TwoIdsPerLane PROVE Spec => []ReceivedBlocksWritten
<1>1. LInv /\ AliasInv /\ RInv => ReceivedBlocksWritten
  <2> SUFFICES ASSUME LInv, AliasInv, RInv, forwarder = "done",
                      NEW b \in Block, SourcesArrived(b), ~Excused(b)
               PROVE  \E i \in 1 .. Len(output) : output[i] = {b}
    BY DEF ReceivedBlocksWritten
  <2>1. EndsInOrder
    BY DEF RInv
  <2>2. LaneOf(b) \in DecoderIds
    BY StreamTypes, LaneType DEF LInv, LaneOf, SameWorkers
  <2>3. \A w \in DecoderIds : ~Alive(decoder[w]) /\ decoder[w] # "sending"
    BY <2>1 DEF EndsInOrder, Alive
  <2>4. Ahead(LaneOf(b)) = {}
    <3> DEFINE w == LaneOf(b)
    <3>1. packet_queue[w] = << >>
      BY <2>2, <2>3 DEF LInv, PipeInv, Lifecycle
    <3>2. dispatcher # "sending"
      BY <2>1, <2>2, <2>3 DEF LInv, PipeInv, Lifecycle, EndsInOrder, Alive
    <3> QED
      BY <3>1, <3>2 DEF Ahead, Elements
  <2>5. IsPut({b}, LaneOf(b))
    BY <2>4, CompleteIsPut
  <2>6. Put = output
    <3>1. Put = output \o << >> \o << >>
      BY <2>1 DEF EndsInOrder, Put
    <3> QED
      BY <3>1, PutType DEF LInv
  <2> QED
    BY <2>2, <2>3, <2>5, <2>6 DEF IsPut
<1> QED
  BY <1>1, RInvInvariant, PTL

-----------------------------------------------------------------------------
(* Nobody waits in a circle.                                               *)

(* wait joins threads that exist.                                          *)
HasThreads ==
  /\ caller \notin {"new", "start_failed"} => dispatcher # "none"
  /\ caller # "new" => forwarder # "none"

LEMMA HasThreadsInvariant == Spec => []HasThreads
<1> USE DEF HasThreads
<1>1. Init => HasThreads
  BY DEF Init, DecoderInit
<1>2. HasThreads /\ [Next]_vars => HasThreads'
  <2> SUFFICES ASSUME HasThreads, [Next]_vars PROVE HasThreads'
    OBVIOUS
  <2>1. CASE UNCHANGED codecVars
    BY <2>1 DEF codecVars
  <2>2. ASSUME NEW p, Arrive(p) PROVE HasThreads'
    BY <2>2 DEF Arrive, DispatcherRead, forwarderVars
  <2>3. CASE Restart
    BY <2>3 DEF Restart, NextDecoder
  <2>4. CASE StartDecoding \/ StartFails \/ Stop \/ Wait \/ WaitReturns
    BY <2>4 DEF StartDecoding, StartFails, ConfigurationRefused, PacketSizeUnknown, Stop, Wait,
                WaitReturns, dispatcherVars, forwarderVars
  <2>5. CASE DispatcherEof \/ DispatcherInterrupted \/ DispatcherReadFails \/ DispatcherSteps
    BY <2>5 DEF DispatcherEof, DispatcherInterrupted, DispatcherReadFails, DispatcherEnds,
                DispatcherSteps, DispatcherSend, DispatcherSendFails, forwarderVars
  <2>6. ASSUME NEW w \in DecoderIds, DecoderSteps(w) PROVE HasThreads'
    <3>1. UNCHANGED <<caller, dispatcherVars, forwarderVars>>
      BY <2>6 DEF DecoderSteps, DecoderIgnores, DecoderTries, DecoderSend, DecoderSendFails,
                  DecoderEnds
    <3> QED
      BY <3>1 DEF dispatcherVars, forwarderVars
  <2>7. CASE ForwarderSteps
    BY <2>7 DEF ForwarderSteps, ForwarderReceive, ForwarderWrite, ForwarderWriteFails,
                ForwarderEnds, dispatcherVars
  <2> QED
    BY <2>1, <2>2, <2>3, <2>4, <2>5, <2>6, <2>7
       DEF Next, Stream, Lose, Decode, DecoderNext, Terminated, vars
<1> QED
  BY <1>1, <1>2, PTL DEF Spec

(* From the forwarder back to the dispatcher, as in the encoder.           *)
LEMMA IdleQueues ==
  ASSUME TypeOK, Lifecycle, HasThreads, Idle
  PROVE  /\ \A w \in DecoderIds : decoder[w] # "sending"
         /\ dispatcher # "sending"
         /\ \A w \in DecoderIds : Alive(decoder[w]) => packet_queue[w] = << >> /\ dispatcher = "reading"
         /\ Alive(forwarder) => block_queue = << >> /\ dispatcher = "reading"
<1>0. /\ dispatcher \in ThreadState({"reading", "sending"})
      /\ decoder \in [DecoderIds -> ThreadState({"receiving", "sending"})]
      /\ forwarder \in ThreadState({"receiving", "writing"})
      /\ Target \in DecoderIds
  BY TargetType DEF TypeOK, DecoderTypeOK
<1>1. HasRoom(<< >>)
  <2>1. Len(<< >>) = 0 /\ 0 < QueueCapacity
    BY DecoderAssumption
  <2> QED
    BY <2>1 DEF HasRoom
<1>2. Alive(forwarder) => forwarder = "receiving" /\ block_queue = << >>
  BY <1>0 DEF Idle, ForwarderWaits, ThreadState, Alive
<1>3. ASSUME NEW w \in DecoderIds PROVE decoder[w] # "sending"
  BY <1>1, <1>2 DEF Idle, DecoderWaits, HasBlock
<1>4. ASSUME NEW w \in DecoderIds, Alive(decoder[w])
      PROVE  decoder[w] = "receiving" /\ packet_queue[w] = << >> /\ ~PacketQueuesDropped
  <2>1. decoder[w] = "receiving"
    BY <1>0, <1>3, <1>4 DEF ThreadState, Alive
  <2> QED
    BY <2>1 DEF Idle, DecoderWaits
<1>5. dispatcher # "sending"
  BY <1>0, <1>1, <1>4 DEF Idle, DispatcherWaits
<1>6. ASSUME NEW w \in DecoderIds, Alive(decoder[w]) PROVE dispatcher = "reading"
  <2>1. caller \notin {"new", "start_failed"} /\ ~Ended(dispatcher)
    BY <1>4, <1>6 DEF Lifecycle, PacketQueuesDropped, Alive
  <2> QED
    BY <1>0, <1>5, <2>1 DEF HasThreads, ThreadState, Ended
<1>7. Alive(forwarder) => \E w \in DecoderIds : Alive(decoder[w])
  BY <1>2 DEF Idle, ForwarderWaits, BlockQueueDropped, Lifecycle, Alive
<1> QED
  BY <1>2, <1>3, <1>4, <1>5, <1>6, <1>7

(* The decoder has no deadlock and never holds a complete block back while *)
(* it waits for more packets: for any number of block decoders, any        *)
(* channel capacity and any losses.                                        *)
THEOREM CodecWaitsOnlyForPackets ==
  ASSUME SameWorkers, TwoIdsPerLane PROVE Spec => []WaitsOnlyForPackets
<1>1. LInv /\ AliasInv /\ RInv /\ HasThreads => WaitsOnlyForPackets
  <2> SUFFICES ASSUME LInv, AliasInv, RInv, HasThreads, Idle
               PROVE  \/ NoThreadRuns /\ caller # "waiting"
                      \/ /\ dispatcher = "reading"
                         /\ Alive(forwarder) =>
                              \A b \in Block : SourcesArrived(b) /\ ~Excused(b) =>
                                \E i \in 1 .. Len(output) : output[i] = {b}
    BY DEF WaitsOnlyForPackets
  <2>1. TypeOK /\ Lifecycle
    BY DEF LInv, PipeInv
  <2>2. /\ \A w \in DecoderIds : decoder[w] # "sending"
        /\ dispatcher # "sending"
        /\ \A w \in DecoderIds : Alive(decoder[w]) => packet_queue[w] = << >> /\ dispatcher = "reading"
        /\ Alive(forwarder) => block_queue = << >> /\ dispatcher = "reading"
    BY <2>1, IdleQueues
  <2>3. CASE dispatcher # "reading"
    <3>1. ~Alive(dispatcher)
      BY <2>1, <2>2, <2>3 DEF TypeOK, DecoderTypeOK, ThreadState, Alive
    <3>2. NoThreadRuns
      BY <2>2, <2>3, <3>1 DEF NoThreadRuns
    <3>3. ASSUME caller = "waiting" PROVE FALSE
      <4>1. dispatcher # "none" /\ forwarder # "none" /\ \A w \in DecoderIds : decoder[w] # "none"
        BY <2>1, <3>3 DEF HasThreads, Lifecycle
      <4>2. Joined
        BY <3>2, <4>1 DEF NoThreadRuns, Joined, Alive, Ended
      <4> QED
        BY <3>3, <4>2 DEF Idle
    <3> QED
      BY <3>2, <3>3
  <2>4. ASSUME Alive(forwarder), NEW b \in Block, SourcesArrived(b), ~Excused(b)
        PROVE  \E i \in 1 .. Len(output) : output[i] = {b}
    <3>1. forwarder # "writing" /\ forwarder # "failed" /\ block_queue = << >>
      BY <2>2, <2>4 DEF Idle, ForwarderWaits, Alive
    <3>2. Put = output
      <4>1. Put = output \o << >> \o << >>
        BY <3>1 DEF Put
      <4> QED
        BY <4>1, PutType DEF LInv
    <3>3. LaneOf(b) \in DecoderIds
      BY StreamTypes, LaneType DEF LInv, LaneOf, SameWorkers
    <3>4. packet_queue[LaneOf(b)] = << >>
      BY <2>1, <2>2, <3>3 DEF Lifecycle
    <3>5. Ahead(LaneOf(b)) = {}
      BY <2>2, <3>4 DEF Ahead, Elements
    <3>6. IsPut({b}, LaneOf(b))
      BY <2>4, <3>1, <3>5, CompleteIsPut
    <3> QED
      BY <2>2, <3>2, <3>3, <3>6 DEF IsPut
  <2> QED
    BY <2>3, <2>4
<1> QED
  BY <1>1, RInvInvariant, HasThreadsInvariant, PTL
=============================================================================
