--------------------------- MODULE EncoderProofs ---------------------------
(***************************************************************************)
(* Safety of the encoder for any number of block encoders, any capacity of *)
(* the channels, any number of packets per block and any input.            *)
(***************************************************************************)
EXTENDS Encoder, TLAPS

USE PacketsAssumption, EncoderAssumption

(* Facts about the helpers.                                                *)

LEMMA NextIdType == ASSUME NEW id \in BlockId PROVE NextId(id) \in BlockId
  BY DEF BlockId, NextId

LEMMA LaneType ==
  ASSUME NEW id \in BlockId PROVE Lane(id, NumBlockEncoders) \in Workers
  BY DEF BlockId, Lane, Workers

LEMMA SeqSubset ==
  ASSUME NEW S, NEW T, S \subseteq T, NEW s \in Seq(S) PROVE s \in Seq(T)
  OBVIOUS

LEMMA PacketsOfSubset ==
  ASSUME NEW S, NEW T, S \subseteq T PROVE PacketsOf(S) \subseteq PacketsOf(T)
  BY DEF PacketsOf

LEMMA PacketFields ==
  \A q \in PacketsOf(Block) : q.block \in Nat /\ q.idx \in Nat
<1>1. \A b \in Block : b \in Nat
  BY DEF Block
<1> QED
  BY <1>1 DEF PacketsOf

-----------------------------------------------------------------------------
(* Every variable keeps its type, through every step.                      *)

LEMMA InitTypeOK == Init => TypeOK
<1> SUFFICES ASSUME Init PROVE TypeOK
  OBVIOUS
<1>1. Packet(0, 1) \in PacketsOf(Nat)
  BY DEF Packet, PacketsOf
<1>2. /\ blocks \in Seq(BlockId) /\ Len(blocks) <= MaxBlocks
      /\ packet_queue \in Seq(PacketsOf(Block)) /\ Len(packet_queue) <= QueueCapacity
      /\ output \in Seq(PacketsOf(Block))
  BY DEF Init
<1>3. /\ block_queue \in [Workers -> Seq(Block)]
      /\ \A w \in Workers : Len(block_queue[w]) <= QueueCapacity
  BY DEF Init
<1>4. /\ caller \in CallerState /\ should_stop \in BOOLEAN
      /\ dispatcher \in ThreadState({"reading", "sending"})
      /\ encoder \in [Workers -> ThreadState({"receiving", "sending"})]
      /\ next_packet \in [Workers -> PacketsOf(Nat)]
      /\ \A w \in Workers : encoder[w] = "none"
      /\ forwarder \in ThreadState({"receiving", "writing"})
      /\ forwarder = "none"
      /\ forwarding \in PacketsOf(Nat)
  BY <1>1 DEF Init, CallerState, ThreadState
<1>5. current_block_id \in BlockId
  BY DEF Init, BlockId
<1> QED
  BY <1>2, <1>3, <1>4, <1>5 DEF TypeOK

LEMMA CallerKeepsTypeOK ==
  TypeOK /\ (StartEncoding \/ StartFails \/ Stop \/ Wait \/ WaitReturns)
    => TypeOK'
<1> USE DEF TypeOK, Block, CallerState, ThreadState, dispatcherVars,
            encoderVars, forwarderVars
<1>1. TypeOK /\ StartEncoding => TypeOK'
  BY DEF StartEncoding
<1>2. TypeOK /\ StartFails => TypeOK'
  BY DEF StartFails, ConfigurationRefused, NoRandomId
<1>3. TypeOK /\ (Stop \/ Wait \/ WaitReturns) => TypeOK'
  BY DEF Stop, Wait, WaitReturns
<1> QED
  BY <1>1, <1>2, <1>3

LEMMA DispatcherReadKeepsTypeOK == TypeOK /\ DispatcherRead => TypeOK'
<1> SUFFICES ASSUME TypeOK, DispatcherRead PROVE TypeOK'
  OBVIOUS
<1>1. /\ blocks' \in Seq(BlockId) /\ Len(blocks') = Len(blocks) + 1
      /\ Len(blocks) \in Nat /\ Len(blocks') <= MaxBlocks
  BY DEF TypeOK, DispatcherRead
<1>2. Block \subseteq Block'
  BY <1>1 DEF Block
<1>3. PacketsOf(Block) \subseteq PacketsOf(Block')
  BY <1>2, PacketsOfSubset
<1>4. /\ packet_queue' \in Seq(PacketsOf(Block')) /\ output' \in Seq(PacketsOf(Block'))
  BY <1>3, SeqSubset DEF TypeOK, DispatcherRead, forwarderVars
<1>5. block_queue' \in [Workers -> Seq(Block')]
  BY <1>2, SeqSubset DEF TypeOK, DispatcherRead
<1>6. UNCHANGED <<caller, should_stop, current_block_id, block_queue, encoder,
                  next_packet, packet_queue, forwarder, forwarding, output>>
      /\ dispatcher' = "sending"
  BY DEF DispatcherRead, encoderVars, forwarderVars
<1>7. /\ \A w \in Workers : encoder'[w] = "sending" => next_packet'[w].block \in Block'
      /\ forwarder' = "writing" => forwarding'.block \in Block'
  BY <1>2, <1>6 DEF TypeOK
<1>8. /\ caller' \in CallerState /\ should_stop' \in BOOLEAN
      /\ dispatcher' \in ThreadState({"reading", "sending"})
      /\ current_block_id' \in BlockId
      /\ \A w \in Workers : Len(block_queue'[w]) <= QueueCapacity
      /\ encoder' \in [Workers -> ThreadState({"receiving", "sending"})]
      /\ next_packet' \in [Workers -> PacketsOf(Nat)]
      /\ Len(packet_queue') <= QueueCapacity
      /\ forwarder' \in ThreadState({"receiving", "writing"})
      /\ forwarding' \in PacketsOf(Nat)
  BY <1>6 DEF TypeOK, ThreadState
<1> QED
  BY <1>1, <1>4, <1>5, <1>7, <1>8 DEF TypeOK

LEMMA DispatcherSendKeepsTypeOK ==
  TypeOK /\ dispatcher = "sending" /\ blocks # << >> /\ DispatcherSend => TypeOK'
<1> SUFFICES ASSUME TypeOK, blocks # << >>, DispatcherSend PROVE TypeOK'
  OBVIOUS
<1>1. Target \in Workers
  BY LaneType DEF TypeOK, Target
<1>2. Len(blocks) \in Block
  BY DEF TypeOK, Block
<1>3. /\ block_queue' \in [Workers -> Seq(Block)]
      /\ \A w \in Workers : Len(block_queue'[w]) <= QueueCapacity
  BY <1>1, <1>2 DEF TypeOK, DispatcherSend
<1>4. current_block_id' \in BlockId
  BY NextIdType DEF TypeOK, DispatcherSend
<1> QED
  BY <1>3, <1>4 DEF TypeOK, DispatcherSend, Block, ThreadState, encoderVars, forwarderVars

LEMMA DispatcherEndsKeepsTypeOK ==
  TypeOK /\ (\/ DispatcherSendFails \/ DispatcherEof \/ DispatcherInterrupted
             \/ DispatcherReadFails) => TypeOK'
  BY DEF TypeOK, Block, DispatcherSendFails, DispatcherEof, DispatcherInterrupted,
         DispatcherReadFails, DispatcherEnds, ThreadState, encoderVars, forwarderVars

LEMMA EncoderKeepsTypeOK ==
  ASSUME TypeOK, NEW w \in Workers, EncoderSteps(w) PROVE TypeOK'
<1>1. CASE EncoderReceive(w)
  <2>1. Head(block_queue[w]) \in Block /\ Tail(block_queue[w]) \in Seq(Block)
        /\ Len(Tail(block_queue[w])) <= QueueCapacity
    BY <1>1 DEF EncoderReceive, TypeOK
  <2>2. Packet(Head(block_queue[w]), 1) \in PacketsOf(Nat)
        /\ Packet(Head(block_queue[w]), 1).block \in Block
    BY <2>1 DEF Packet, PacketsOf, Block, TypeOK
  <2>3. /\ block_queue' \in [Workers -> Seq(Block)]
        /\ \A v \in Workers : Len(block_queue'[v]) <= QueueCapacity
    BY <1>1, <2>1 DEF EncoderReceive, TypeOK
  <2>4. /\ next_packet' \in [Workers -> PacketsOf(Nat)]
        /\ encoder' \in [Workers -> ThreadState({"receiving", "sending"})]
        /\ \A v \in Workers : encoder'[v] = "sending" => next_packet'[v].block \in Block
    BY <1>1, <2>2 DEF EncoderReceive, TypeOK, ThreadState
  <2> QED
    BY <1>1, <2>3, <2>4 DEF EncoderReceive, TypeOK, Block, dispatcherVars, forwarderVars
<1>2. CASE EncoderSend(w)
  <2>1. next_packet[w] \in PacketsOf(Block)
    BY <1>2 DEF EncoderSend, TypeOK, PacketsOf
  <2>2. packet_queue' \in Seq(PacketsOf(Block)) /\ Len(packet_queue') <= QueueCapacity
    BY <1>2, <2>1 DEF EncoderSend, TypeOK
  <2>3. CASE next_packet[w].idx < PacketsPerBlock
    <3> DEFINE p == Packet(next_packet[w].block, next_packet[w].idx + 1)
    <3>1. p \in PacketsOf(Nat) /\ p.block \in Block
      BY <2>1, <2>3 DEF PacketsOf, Packet, Block, TypeOK
    <3>2. next_packet' = [next_packet EXCEPT ![w] = p] /\ encoder' = encoder
      BY <1>2, <2>3 DEF EncoderSend, TypeOK
    <3> HIDE DEF p
    <3>3. /\ next_packet' \in [Workers -> PacketsOf(Nat)]
          /\ \A v \in Workers : encoder'[v] = "sending" => next_packet'[v].block \in Block
      BY <3>1, <3>2 DEF TypeOK
    <3> QED
      BY <1>2, <2>2, <3>2, <3>3
      DEF EncoderSend, TypeOK, Block, dispatcherVars, forwarderVars
  <2>4. CASE ~(next_packet[w].idx < PacketsPerBlock)
    <3>1. /\ encoder' \in [Workers -> ThreadState({"receiving", "sending"})]
          /\ \A v \in Workers : encoder'[v] = "sending" => encoder[v] = "sending"
          /\ next_packet' = next_packet
      BY <1>2, <2>4 DEF EncoderSend, TypeOK, ThreadState
    <3> QED
      BY <1>2, <2>2, <3>1
      DEF EncoderSend, TypeOK, Block, dispatcherVars, forwarderVars
  <2> QED
    BY <2>3, <2>4
<1>3. CASE EncoderSendFails(w)
  <2>1. /\ block_queue' \in [Workers -> Seq(Block)]
        /\ \A v \in Workers : Len(block_queue'[v]) <= QueueCapacity
        /\ encoder' \in [Workers -> ThreadState({"receiving", "sending"})]
        /\ \A v \in Workers : encoder'[v] = "sending" => encoder[v] = "sending"
    BY <1>3 DEF EncoderSendFails, TypeOK, ThreadState
  <2> QED
    BY <1>3, <2>1 DEF EncoderSendFails, TypeOK, Block, dispatcherVars, forwarderVars
<1>4. CASE EncoderEnds(w)
  <2>1. /\ encoder' \in [Workers -> ThreadState({"receiving", "sending"})]
        /\ \A v \in Workers : encoder'[v] = "sending" => encoder[v] = "sending"
    BY <1>4 DEF EncoderEnds, TypeOK, ThreadState
  <2> QED
    BY <1>4, <2>1 DEF EncoderEnds, TypeOK, Block, dispatcherVars, forwarderVars
<1> QED
  BY <1>1, <1>2, <1>3, <1>4 DEF EncoderSteps

LEMMA ForwarderKeepsTypeOK == TypeOK /\ ForwarderSteps => TypeOK'
<1> SUFFICES ASSUME TypeOK, ForwarderSteps PROVE TypeOK'
  OBVIOUS
<1>1. CASE ForwarderReceive
  <2>1. /\ Head(packet_queue) \in PacketsOf(Block)
        /\ Tail(packet_queue) \in Seq(PacketsOf(Block))
        /\ Len(Tail(packet_queue)) <= QueueCapacity
    BY <1>1 DEF ForwarderReceive, TypeOK
  <2>2. Head(packet_queue) \in PacketsOf(Nat) /\ Head(packet_queue).block \in Block
    BY <2>1 DEF PacketsOf, Block, TypeOK
  <2> QED
    BY <1>1, <2>1, <2>2
    DEF ForwarderReceive, TypeOK, Block, ThreadState, dispatcherVars, encoderVars
<1>2. CASE ForwarderWrite
  <2>1. forwarding \in PacketsOf(Block)
    BY <1>2 DEF ForwarderWrite, TypeOK, PacketsOf
  <2>2. output' \in Seq(PacketsOf(Block))
    BY <1>2, <2>1 DEF ForwarderWrite, TypeOK
  <2> QED
    BY <1>2, <2>2
    DEF ForwarderWrite, TypeOK, Block, ThreadState, dispatcherVars, encoderVars
<1>3. CASE ForwarderWriteFails
  BY <1>3 DEF ForwarderWriteFails, TypeOK, Block, ThreadState, dispatcherVars, encoderVars
<1>4. CASE ForwarderEnds
  BY <1>4 DEF ForwarderEnds, TypeOK, Block, ThreadState, dispatcherVars, encoderVars
<1> QED
  BY <1>1, <1>2, <1>3, <1>4 DEF ForwarderSteps

-----------------------------------------------------------------------------
(* The order of a lane.  LaneOrder speaks of the output alone; to be       *)
(* inductive it must reach back through the pipeline, to the packet being  *)
(* written, the packets queued, the packet each encoder yields next, the   *)
(* blocks queued for it and the block the dispatcher is sending.           *)

Elements(s) == {s[i] : i \in 1 .. Len(s)}

Held == IF forwarder = "writing" THEN {forwarding} ELSE {}

Sent == Elements(output) \cup Held \cup Elements(packet_queue)

InOrder(p, q) == LaneOfPacket(p) = LaneOfPacket(q) => Precedes(p, q)

SentInOrder ==
  /\ \A p \in Elements(output) :
       \A q \in Held \cup Elements(packet_queue) : InOrder(p, q)
  /\ \A p \in Held : \A q \in Elements(packet_queue) : InOrder(p, q)
  /\ \A i, j \in 1 .. Len(packet_queue) :
       i < j => InOrder(packet_queue[i], packet_queue[j])

EncodersInOrder ==
  \A w \in Workers : encoder[w] = "sending" =>
    /\ LaneOfPacket(next_packet[w]) = w
    /\ \A p \in Sent : LaneOfPacket(p) = w => Precedes(p, next_packet[w])

QueuesInOrder ==
  \A w \in Workers : \A k \in 1 .. Len(block_queue[w]) :
    /\ Lane(blocks[block_queue[w][k]], NumBlockEncoders) = w
    /\ \A p \in Sent : LaneOfPacket(p) = w => p.block < block_queue[w][k]
    /\ encoder[w] = "sending" => next_packet[w].block < block_queue[w][k]
    /\ \A j \in 1 .. Len(block_queue[w]) :
         j < k => block_queue[w][j] < block_queue[w][k]

DispatcherInOrder ==
  dispatcher = "sending" =>
    /\ blocks # << >>
    /\ blocks[Len(blocks)] = current_block_id
    /\ \A p \in Sent : p.block < Len(blocks)
    /\ \A w \in Workers :
         /\ encoder[w] = "sending" => next_packet[w].block < Len(blocks)
         /\ \A k \in 1 .. Len(block_queue[w]) : block_queue[w][k] < Len(blocks)

Order == /\ LaneOrder /\ SentInOrder /\ EncodersInOrder
         /\ QueuesInOrder /\ DispatcherInOrder

OInv == TypeOK /\ Order

LEMMA ElementsAppend ==
  ASSUME NEW S, NEW s \in Seq(S), NEW e \in S
  PROVE  Elements(Append(s, e)) = Elements(s) \cup {e}
<1>1. /\ Len(Append(s, e)) = Len(s) + 1 /\ Len(s) \in Nat
      /\ Append(s, e)[Len(s) + 1] = e
      /\ \A i \in 1 .. Len(s) : Append(s, e)[i] = s[i]
  OBVIOUS
<1>2. 1 .. Len(s) + 1 = (1 .. Len(s)) \cup {Len(s) + 1}
  BY <1>1
<1> QED
  BY <1>1, <1>2 DEF Elements

LEMMA ElementsHeadTail ==
  ASSUME NEW S, NEW s \in Seq(S), s # << >>
  PROVE  Elements(s) = Elements(Tail(s)) \cup {Head(s)}
<1>1. /\ Len(s) \in Nat /\ Len(s) >= 1 /\ Len(Tail(s)) = Len(s) - 1
      /\ Head(s) = s[1]
      /\ \A i \in 1 .. Len(s) - 1 : Tail(s)[i] = s[i + 1]
  OBVIOUS
<1>2. \A i \in 1 .. Len(s) : i = 1 \/ (i - 1 \in 1 .. Len(s) - 1 /\ s[i] = Tail(s)[i - 1])
  BY <1>1
<1>3. \A i \in 1 .. Len(s) : s[i] = Head(s) \/ s[i] \in Elements(Tail(s))
  <2> SUFFICES ASSUME NEW i \in 1 .. Len(s), i # 1
               PROVE  s[i] \in Elements(Tail(s))
    BY <1>1
  <2>1. i - 1 \in 1 .. Len(Tail(s)) /\ s[i] = Tail(s)[i - 1]
    BY <1>1, <1>2
  <2> QED
    BY <2>1 DEF Elements
<1>4. \A i \in 1 .. Len(Tail(s)) : Tail(s)[i] \in Elements(s)
  <2> SUFFICES ASSUME NEW i \in 1 .. Len(Tail(s)) PROVE Tail(s)[i] \in Elements(s)
    OBVIOUS
  <2>1. i + 1 \in 1 .. Len(s) /\ Tail(s)[i] = s[i + 1]
    BY <1>1
  <2> QED
    BY <2>1 DEF Elements
<1>5. Head(s) \in Elements(s)
  <2>1. 1 \in 1 .. Len(s) /\ Head(s) = s[1]
    BY <1>1
  <2> QED
    BY <2>1 DEF Elements
<1> QED
  BY <1>3, <1>4, <1>5 DEF Elements

LEMMA SentType == TypeOK => Sent \subseteq PacketsOf(Block)
<1> SUFFICES ASSUME TypeOK PROVE Sent \subseteq PacketsOf(Block)
  OBVIOUS
<1>1. Held \subseteq PacketsOf(Block)
  BY DEF TypeOK, Held, PacketsOf
<1>2. Elements(output) \subseteq PacketsOf(Block)
  BY DEF TypeOK, Elements
<1>3. Elements(packet_queue) \subseteq PacketsOf(Block)
  BY DEF TypeOK, Elements
<1> QED
  BY <1>1, <1>2, <1>3 DEF Sent

LEMMA InitOrder == Init => Order
<1> SUFFICES ASSUME Init PROVE Order
  OBVIOUS
<1>1. /\ Len(output) = 0 /\ Len(packet_queue) = 0 /\ forwarder = "none"
      /\ dispatcher = "none" /\ Sent = {}
      /\ \A w \in Workers : encoder[w] = "none" /\ Len(block_queue[w]) = 0
  BY DEF Init, Sent, Held, Elements
<1> QED
  BY <1>1 DEF Order, LaneOrder, SentInOrder, EncodersInOrder, QueuesInOrder,
              DispatcherInOrder, Held, Elements

(* Steps that move no packet and no block forward: a call of the owner, or *)
(* the end of a thread, which empties the channels it received from.       *)
LEMMA NothingMovesKeepsOrder ==
  ASSUME Order,
         blocks' = blocks, output' = output, current_block_id' = current_block_id,
         next_packet' = next_packet, forwarding' = forwarding,
         packet_queue' = packet_queue \/ packet_queue' = << >>,
         \A w \in Workers :
           block_queue'[w] = block_queue[w] \/ block_queue'[w] = << >>,
         forwarder' = "writing" => forwarder = "writing",
         dispatcher' = "sending" => dispatcher = "sending",
         \A w \in Workers : encoder'[w] = "sending" => encoder[w] = "sending"
  PROVE  Order'
<1>1. /\ Elements(output') = Elements(output) /\ Held' \subseteq Held
      /\ Elements(packet_queue') \subseteq Elements(packet_queue)
      /\ Sent' \subseteq Sent
  BY DEF Elements, Held, Sent
<1>2. \A p, q : InOrder(p, q)' <=> InOrder(p, q)
  BY DEF InOrder, LaneOfPacket
<1>3. LaneOrder'
  BY DEF Order, LaneOrder, LaneOfPacket
<1>4. SentInOrder'
  <2>1. \A i, j \in 1 .. Len(packet_queue') :
          i < j => InOrder(packet_queue'[i], packet_queue'[j])
    BY DEF Order, SentInOrder
  <2> QED
    BY <1>1, <1>2, <2>1 DEF Order, SentInOrder
<1>5. EncodersInOrder'
  BY <1>1 DEF Order, EncodersInOrder, LaneOfPacket
<1>6. QueuesInOrder'
  <2> SUFFICES ASSUME NEW w \in Workers, NEW k \in 1 .. Len(block_queue'[w])
               PROVE  /\ block_queue'[w] = block_queue[w]
                      /\ k \in 1 .. Len(block_queue[w])
    BY <1>1 DEF Order, QueuesInOrder, LaneOfPacket
  <2> QED
    OBVIOUS
<1>7. DispatcherInOrder'
  <2> SUFFICES ASSUME dispatcher = "sending",
                      NEW w \in Workers, NEW k \in 1 .. Len(block_queue'[w])
               PROVE  /\ block_queue'[w] = block_queue[w]
                      /\ k \in 1 .. Len(block_queue[w])
    BY <1>1 DEF Order, DispatcherInOrder
  <2> QED
    OBVIOUS
<1> QED
  BY <1>3, <1>4, <1>5, <1>6, <1>7 DEF Order

LEMMA DispatcherReadKeepsOrder == OInv /\ DispatcherRead => Order'
<1> SUFFICES ASSUME TypeOK, Order, DispatcherRead PROVE Order'
  BY DEF OInv
<1>1. /\ Len(blocks) \in Nat /\ Len(blocks') = Len(blocks) + 1
      /\ blocks'[Len(blocks')] = current_block_id' /\ blocks' # << >>
      /\ \A b \in Block : blocks'[b] = blocks[b]
  <2>1. /\ blocks \in Seq(BlockId) /\ current_block_id \in BlockId
        /\ blocks' = Append(blocks, current_block_id)
        /\ current_block_id' = current_block_id
    BY DEF TypeOK, DispatcherRead
  <2> QED
    BY <2>1 DEF Block
<1>2. UNCHANGED <<block_queue, encoder, next_packet, packet_queue, forwarder,
                  forwarding, output>>
  BY DEF DispatcherRead, encoderVars, forwarderVars
<1>3. Sent' = Sent /\ Held' = Held /\ Elements(output') = Elements(output)
      /\ Elements(packet_queue') = Elements(packet_queue)
  BY <1>2 DEF Sent, Held, Elements
<1>4. \A p \in Sent : p.block \in Block /\ LaneOfPacket(p)' = LaneOfPacket(p)
  BY <1>1, SentType DEF PacketsOf, LaneOfPacket
<1>5. \A p, q \in Sent : InOrder(p, q)' <=> InOrder(p, q)
  BY <1>4 DEF InOrder
<1>6. LaneOrder'
  <2>1. \A i \in 1 .. Len(output) : output[i] \in Sent
    BY DEF Sent, Elements
  <2> QED
    BY <1>2, <1>4, <2>1 DEF Order, LaneOrder
<1>7. SentInOrder'
  <2>1. \A i \in 1 .. Len(packet_queue) : packet_queue[i] \in Sent
    BY DEF Sent, Elements
  <2>2. \A p \in Elements(output) :
          \A q \in Held \cup Elements(packet_queue) : InOrder(p, q)'
    BY <1>5 DEF Order, SentInOrder, Sent
  <2>3. \A p \in Held : \A q \in Elements(packet_queue) : InOrder(p, q)'
    BY <1>5 DEF Order, SentInOrder, Sent
  <2> QED
    BY <1>2, <1>3, <1>5, <2>1, <2>2, <2>3 DEF Order, SentInOrder
<1>8. EncodersInOrder'
  <2>1. \A w \in Workers : encoder[w] = "sending" =>
          LaneOfPacket(next_packet[w])' = LaneOfPacket(next_packet[w])
    BY <1>1, <1>2 DEF TypeOK, LaneOfPacket
  <2> QED
    BY <1>2, <1>3, <1>4, <2>1 DEF Order, EncodersInOrder
<1>9. \A w \in Workers : \A k \in 1 .. Len(block_queue[w]) :
        block_queue[w][k] \in Block
  BY DEF TypeOK
<1>10. QueuesInOrder'
  BY <1>1, <1>2, <1>3, <1>4, <1>9 DEF Order, QueuesInOrder
<1>11. DispatcherInOrder'
  BY <1>1, <1>2, <1>3, <1>4, <1>9 DEF DispatcherInOrder, TypeOK, Block
<1> QED
  BY <1>6, <1>7, <1>8, <1>10, <1>11 DEF Order

LEMMA DispatcherSendKeepsOrder == OInv /\ DispatcherSend => Order'
<1> SUFFICES ASSUME TypeOK, Order, DispatcherSend PROVE Order'
  BY DEF OInv
<1>1. UNCHANGED <<blocks, encoder, next_packet, packet_queue, forwarder,
                  forwarding, output>>
  BY DEF DispatcherSend, encoderVars, forwarderVars
<1>2. LaneOrder' /\ SentInOrder' /\ EncodersInOrder' /\ Sent' = Sent
  BY <1>1 DEF Order, LaneOrder, SentInOrder, EncodersInOrder, Sent, Held,
              Elements, InOrder, LaneOfPacket
<1>3. /\ dispatcher = "sending" /\ dispatcher' = "reading"
      /\ Target \in Workers /\ Len(blocks) \in Nat
      /\ blocks[Len(blocks)] = current_block_id
      /\ \A p \in Sent : p.block < Len(blocks)
      /\ \A w \in Workers :
           /\ encoder[w] = "sending" => next_packet[w].block < Len(blocks)
           /\ \A k \in 1 .. Len(block_queue[w]) : block_queue[w][k] < Len(blocks)
  BY LaneType DEF Order, DispatcherInOrder, DispatcherSend, TypeOK, Target
<1>4. DispatcherInOrder'
  BY <1>3 DEF DispatcherInOrder
<1>5. QueuesInOrder'
  <2> SUFFICES ASSUME NEW w \in Workers, NEW k \in 1 .. Len(block_queue'[w])
               PROVE
      /\ Lane(blocks[block_queue'[w][k]], NumBlockEncoders) = w
      /\ \A p \in Sent : LaneOfPacket(p) = w => p.block < block_queue'[w][k]
      /\ encoder[w] = "sending" => next_packet[w].block < block_queue'[w][k]
      /\ \A j \in 1 .. Len(block_queue'[w]) :
           j < k => block_queue'[w][j] < block_queue'[w][k]
    BY <1>1, <1>2 DEF QueuesInOrder, LaneOfPacket
  <2>1. CASE w # Target
    BY <1>3, <2>1 DEF Order, QueuesInOrder, DispatcherSend, TypeOK
  <2>2. CASE w = Target
    <3>1. block_queue'[w] = Append(block_queue[w], Len(blocks))
          /\ block_queue[w] \in Seq(Block)
      BY <1>3, <2>2 DEF DispatcherSend, TypeOK
    <3>2. /\ Len(block_queue'[w]) = Len(block_queue[w]) + 1
          /\ Len(block_queue[w]) \in Nat
          /\ block_queue'[w][Len(block_queue[w]) + 1] = Len(blocks)
          /\ \A j \in 1 .. Len(block_queue[w]) : block_queue'[w][j] = block_queue[w][j]
      BY <3>1
    <3>3. CASE k \in 1 .. Len(block_queue[w])
      BY <3>2, <3>3 DEF Order, QueuesInOrder
    <3>4. CASE k = Len(block_queue[w]) + 1
      <4>1. block_queue'[w][k] = Len(blocks)
        BY <3>2, <3>4
      <4>2. Lane(blocks[Len(blocks)], NumBlockEncoders) = w
        BY <1>3, <2>2 DEF Target
      <4>3. \A j \in 1 .. Len(block_queue'[w]) : j < k => j \in 1 .. Len(block_queue[w])
        BY <3>2, <3>4
      <4>4. \A j \in 1 .. Len(block_queue'[w]) :
              j < k => block_queue'[w][j] < Len(blocks)
        BY <1>3, <3>2, <4>3
      <4> QED
        BY <1>3, <4>1, <4>2, <4>4
    <3> QED
      BY <3>2, <3>3, <3>4
  <2> QED
    BY <2>1, <2>2
<1> QED
  BY <1>2, <1>4, <1>5 DEF Order

LEMMA EncoderReceiveKeepsOrder ==
  ASSUME OInv, NEW w \in Workers, EncoderReceive(w) PROVE Order'
<1> USE DEF OInv
<1> DEFINE b == Head(block_queue[w])
<1>1. UNCHANGED <<blocks, current_block_id, dispatcher, packet_queue, forwarder,
                  forwarding, output>>
  BY DEF EncoderReceive, dispatcherVars, forwarderVars
<1>2. LaneOrder' /\ SentInOrder' /\ Sent' = Sent
  BY <1>1 DEF Order, LaneOrder, SentInOrder, Sent, Held, Elements, InOrder,
              LaneOfPacket
<1>3. /\ block_queue[w] \in Seq(Block) /\ block_queue[w] # << >>
      /\ block_queue'[w] = Tail(block_queue[w])
      /\ next_packet'[w] = Packet(b, 1) /\ encoder'[w] = "sending"
      /\ \A v \in Workers : v # w =>
           /\ block_queue'[v] = block_queue[v]
           /\ next_packet'[v] = next_packet[v]
           /\ encoder'[v] = encoder[v]
  BY DEF EncoderReceive, TypeOK
<1>4. /\ Len(block_queue[w]) \in Nat /\ 1 \in 1 .. Len(block_queue[w])
      /\ b = block_queue[w][1]
      /\ Len(block_queue'[w]) = Len(block_queue[w]) - 1
      /\ \A k \in 1 .. Len(block_queue'[w]) :
           k + 1 \in 1 .. Len(block_queue[w])
             /\ block_queue'[w][k] = block_queue[w][k + 1]
  BY <1>3
<1>5. /\ Lane(blocks[b], NumBlockEncoders) = w
      /\ \A p \in Sent : LaneOfPacket(p) = w => p.block < b
      /\ \A k \in 1 .. Len(block_queue'[w]) : b < block_queue'[w][k]
  BY <1>4 DEF Order, QueuesInOrder
<1>6. Packet(b, 1).block = b
  BY DEF Packet
<1>7. EncodersInOrder'
  BY <1>1, <1>2, <1>3, <1>5, <1>6
  DEF Order, EncodersInOrder, LaneOfPacket, Precedes
<1>8. QueuesInOrder'
  <2> SUFFICES ASSUME NEW v \in Workers, NEW k \in 1 .. Len(block_queue'[v])
               PROVE
      /\ Lane(blocks[block_queue'[v][k]], NumBlockEncoders) = v
      /\ \A p \in Sent : LaneOfPacket(p) = v => p.block < block_queue'[v][k]
      /\ encoder'[v] = "sending" => next_packet'[v].block < block_queue'[v][k]
      /\ \A j \in 1 .. Len(block_queue'[v]) :
           j < k => block_queue'[v][j] < block_queue'[v][k]
    BY <1>1, <1>2 DEF QueuesInOrder, LaneOfPacket
  <2>1. CASE v # w
    BY <1>3, <2>1 DEF Order, QueuesInOrder
  <2>2. CASE v = w
    <3>1. /\ k + 1 \in 1 .. Len(block_queue[w])
          /\ block_queue'[w][k] = block_queue[w][k + 1]
      BY <1>4, <2>2
    <3>2. ASSUME NEW j \in 1 .. Len(block_queue'[w]), j < k
          PROVE  block_queue'[w][j] < block_queue'[w][k]
      <4>1. /\ j + 1 \in 1 .. Len(block_queue[w])
            /\ block_queue'[w][j] = block_queue[w][j + 1]
            /\ j + 1 < k + 1
        BY <1>4, <2>2, <3>2
      <4> QED
        BY <3>1, <4>1 DEF Order, QueuesInOrder
    <3>3. /\ Lane(blocks[block_queue'[w][k]], NumBlockEncoders) = w
          /\ \A p \in Sent : LaneOfPacket(p) = w => p.block < block_queue'[w][k]
      BY <3>1 DEF Order, QueuesInOrder
    <3>4. next_packet'[w].block < block_queue'[w][k]
      BY <1>3, <1>5, <1>6, <2>2
    <3> QED
      BY <2>2, <3>2, <3>3, <3>4
  <2> QED
    BY <2>1, <2>2
<1>9. DispatcherInOrder'
  <2> SUFFICES ASSUME dispatcher = "sending", NEW v \in Workers
               PROVE  /\ encoder'[v] = "sending" => next_packet'[v].block < Len(blocks)
                      /\ \A k \in 1 .. Len(block_queue'[v]) :
                           block_queue'[v][k] < Len(blocks)
    BY <1>1, <1>2 DEF Order, DispatcherInOrder
  <2>1. CASE v # w
    BY <1>3, <2>1 DEF Order, DispatcherInOrder
  <2>2. CASE v = w
    BY <1>3, <1>4, <1>6, <2>2 DEF Order, DispatcherInOrder
  <2> QED
    BY <2>1, <2>2
<1> QED
  BY <1>2, <1>7, <1>8, <1>9 DEF Order

LEMMA EncoderSendKeepsOrder ==
  ASSUME OInv, NEW w \in Workers, EncoderSend(w) PROVE Order'
<1> USE DEF OInv
<1> DEFINE p == next_packet[w]
<1>1. UNCHANGED <<blocks, block_queue, current_block_id, dispatcher, forwarder,
                  forwarding, output>>
  BY DEF EncoderSend, dispatcherVars, forwarderVars
<1>2. /\ packet_queue \in Seq(PacketsOf(Block)) /\ p \in PacketsOf(Block)
      /\ packet_queue' = Append(packet_queue, p) /\ encoder[w] = "sending"
      /\ LaneOfPacket(p) = w
      /\ \A q \in Sent : LaneOfPacket(q) = w => Precedes(q, p)
  BY DEF EncoderSend, TypeOK, PacketsOf, Order, EncodersInOrder
<1>3. /\ Elements(packet_queue') = Elements(packet_queue) \cup {p}
      /\ Held' = Held /\ Elements(output') = Elements(output)
      /\ Sent' = Sent \cup {p}
  <2>1. Elements(packet_queue') = Elements(packet_queue) \cup {p}
    BY <1>2, ElementsAppend
  <2> QED
    BY <1>1, <2>1 DEF Held, Sent
<1>4. \A q, r : InOrder(q, r)' <=> InOrder(q, r)
  BY <1>1 DEF InOrder, LaneOfPacket
<1>5. \A q \in Sent : InOrder(q, p)
  BY <1>2 DEF InOrder
<1>6. LaneOrder'
  BY <1>1 DEF Order, LaneOrder, LaneOfPacket
<1>7. SentInOrder'
  <2>1. /\ Len(packet_queue') = Len(packet_queue) + 1
        /\ Len(packet_queue) \in Nat
        /\ packet_queue'[Len(packet_queue) + 1] = p
        /\ \A i \in 1 .. Len(packet_queue) :
             packet_queue'[i] = packet_queue[i] /\ packet_queue[i] \in Sent
    BY <1>2 DEF Sent, Elements
  <2>2. \A i, j \in 1 .. Len(packet_queue') :
          i < j => InOrder(packet_queue'[i], packet_queue'[j])
    BY <1>5, <2>1 DEF Order, SentInOrder
  <2>3. \A q \in Elements(output) :
          \A r \in Held \cup Elements(packet_queue') : InOrder(q, r)
    BY <1>3, <1>5 DEF Order, SentInOrder, Sent
  <2>4. \A q \in Held : \A r \in Elements(packet_queue') : InOrder(q, r)
    BY <1>3, <1>5 DEF Order, SentInOrder, Sent
  <2> QED
    BY <1>3, <1>4, <2>2, <2>3, <2>4 DEF SentInOrder
<1>8. \A v \in Workers : encoder'[v] = "sending" =>
        /\ encoder[v] = "sending"
        /\ v # w => next_packet'[v] = next_packet[v]
        /\ v = w => next_packet'[v] = Packet(p.block, p.idx + 1)
  BY DEF EncoderSend, TypeOK
<1>9. Packet(p.block, p.idx + 1).block = p.block
      /\ Packet(p.block, p.idx + 1).idx = p.idx + 1
  BY DEF Packet
<1>10. EncodersInOrder'
  <2> SUFFICES ASSUME NEW v \in Workers, encoder'[v] = "sending"
               PROVE  /\ LaneOfPacket(next_packet'[v]) = v
                      /\ \A q \in Sent' : LaneOfPacket(q) = v =>
                           Precedes(q, next_packet'[v])
    BY <1>1 DEF EncodersInOrder, LaneOfPacket
  <2>1. CASE v # w
    BY <1>2, <1>3, <1>8, <2>1 DEF Order, EncodersInOrder
  <2>2. CASE v = w
    <3>1. \A q \in Sent \cup {p} : q.block \in Nat /\ q.idx \in Nat
      BY <1>2, SentType, PacketFields
    <3>2. \A q \in Sent \cup {p} : LaneOfPacket(q) = w =>
            Precedes(q, Packet(p.block, p.idx + 1))
      BY <1>2, <1>9, <3>1 DEF Precedes
    <3>3. LaneOfPacket(Packet(p.block, p.idx + 1)) = w
      BY <1>2, <1>9 DEF LaneOfPacket
    <3> QED
      BY <1>3, <1>8, <2>2, <3>2, <3>3
  <2> QED
    BY <2>1, <2>2
<1>11. QueuesInOrder'
  <2> SUFFICES ASSUME NEW v \in Workers, NEW k \in 1 .. Len(block_queue[v])
               PROVE
      /\ \A q \in Sent' : LaneOfPacket(q) = v => q.block < block_queue[v][k]
      /\ encoder'[v] = "sending" => next_packet'[v].block < block_queue[v][k]
    BY <1>1 DEF Order, QueuesInOrder, LaneOfPacket
  <2> QED
    BY <1>2, <1>3, <1>8, <1>9 DEF Order, QueuesInOrder
<1>12. DispatcherInOrder'
  BY <1>1, <1>2, <1>3, <1>8, <1>9 DEF Order, DispatcherInOrder
<1> QED
  BY <1>6, <1>7, <1>10, <1>11, <1>12 DEF Order

LEMMA ForwarderReceiveKeepsOrder == OInv /\ ForwarderReceive => Order'
<1> SUFFICES ASSUME TypeOK, Order, ForwarderReceive PROVE Order'
  BY DEF OInv
<1>1. UNCHANGED <<blocks, block_queue, current_block_id, dispatcher, encoder,
                  next_packet, output>>
  BY DEF ForwarderReceive, dispatcherVars, encoderVars
<1>2. /\ packet_queue \in Seq(PacketsOf(Block)) /\ packet_queue # << >>
      /\ packet_queue' = Tail(packet_queue)
      /\ forwarding' = Head(packet_queue)
      /\ Held = {} /\ Held' = {Head(packet_queue)}
  BY DEF ForwarderReceive, TypeOK, Held
<1>3. Elements(packet_queue) = Elements(packet_queue') \cup Held'
  BY <1>2, ElementsHeadTail
<1>4. Sent' = Sent /\ Elements(output') = Elements(output)
  BY <1>1, <1>2, <1>3 DEF Sent
<1>5. \A q, r : InOrder(q, r)' <=> InOrder(q, r)
  BY <1>1 DEF InOrder, LaneOfPacket
<1>6. LaneOrder' /\ EncodersInOrder' /\ QueuesInOrder' /\ DispatcherInOrder'
  BY <1>1, <1>4 DEF Order, LaneOrder, EncodersInOrder, QueuesInOrder,
                    DispatcherInOrder, LaneOfPacket
<1>7. SentInOrder'
  <2>1. /\ Len(packet_queue) \in Nat /\ 1 \in 1 .. Len(packet_queue)
        /\ Head(packet_queue) = packet_queue[1]
        /\ Len(packet_queue') = Len(packet_queue) - 1
        /\ \A i \in 1 .. Len(packet_queue') :
             /\ i + 1 \in 1 .. Len(packet_queue) /\ 1 < i + 1
             /\ packet_queue'[i] = packet_queue[i + 1]
    BY <1>2
  <2>2. \A i, j \in 1 .. Len(packet_queue') :
          i < j => InOrder(packet_queue'[i], packet_queue'[j])
    <3> SUFFICES ASSUME NEW i \in 1 .. Len(packet_queue'),
                        NEW j \in 1 .. Len(packet_queue'), i < j
                 PROVE  InOrder(packet_queue'[i], packet_queue'[j])
      OBVIOUS
    <3>1. i + 1 < j + 1
      BY <2>1
    <3> QED
      BY <2>1, <3>1 DEF Order, SentInOrder
  <2>3. \A r \in Elements(packet_queue') : InOrder(Head(packet_queue), r)
    BY <2>1 DEF Order, SentInOrder, Elements
  <2>4. \A q \in Elements(output) :
          \A r \in Held' \cup Elements(packet_queue') : InOrder(q, r)
    BY <1>3 DEF Order, SentInOrder
  <2> QED
    BY <1>2, <1>4, <1>5, <2>2, <2>3, <2>4 DEF SentInOrder
<1> QED
  BY <1>6, <1>7 DEF Order

LEMMA ForwarderWriteKeepsOrder == OInv /\ ForwarderWrite => Order'
<1> SUFFICES ASSUME TypeOK, Order, ForwarderWrite PROVE Order'
  BY DEF OInv
<1>1. UNCHANGED <<blocks, block_queue, current_block_id, dispatcher, encoder,
                  next_packet, packet_queue>>
  BY DEF ForwarderWrite, dispatcherVars, encoderVars
<1>2. /\ output \in Seq(PacketsOf(Block)) /\ forwarding \in PacketsOf(Block)
      /\ output' = Append(output, forwarding)
      /\ Held = {forwarding} /\ Held' = {}
  BY DEF ForwarderWrite, TypeOK, Held, PacketsOf
<1>3. Elements(output') = Elements(output) \cup {forwarding}
  BY <1>2, ElementsAppend
<1>4. Sent' = Sent
  BY <1>1, <1>2, <1>3 DEF Sent
<1>5. \A q, r : InOrder(q, r)' <=> InOrder(q, r)
  BY <1>1 DEF InOrder, LaneOfPacket
<1>6. EncodersInOrder' /\ QueuesInOrder' /\ DispatcherInOrder'
  BY <1>1, <1>4 DEF Order, EncodersInOrder, QueuesInOrder, DispatcherInOrder,
                    LaneOfPacket
<1>7. SentInOrder'
  BY <1>1, <1>2, <1>3, <1>5 DEF Order, SentInOrder
<1>8. LaneOrder'
  <2>1. /\ Len(output') = Len(output) + 1 /\ Len(output) \in Nat
        /\ output'[Len(output) + 1] = forwarding
        /\ \A i \in 1 .. Len(output) :
             output'[i] = output[i] /\ output[i] \in Elements(output)
    BY <1>2 DEF Elements
  <2>2. \A i \in 1 .. Len(output) : InOrder(output[i], forwarding)
    BY <1>2, <2>1 DEF Order, SentInOrder
  <2>3. \A i, j \in 1 .. Len(output) : i < j => InOrder(output[i], output[j])
    BY DEF Order, LaneOrder, InOrder
  <2>4. \A i, j \in 1 .. Len(output') : i < j => InOrder(output'[i], output'[j])
    BY <2>1, <2>2, <2>3
  <2> QED
    BY <1>1, <2>4 DEF LaneOrder, InOrder, LaneOfPacket
<1> QED
  BY <1>6, <1>7, <1>8 DEF Order

-----------------------------------------------------------------------------
LEMMA OInvInductive == OInv /\ [Next]_vars => OInv'
<1> SUFFICES ASSUME OInv, [Next]_vars PROVE OInv'
  OBVIOUS
<1>0. TypeOK /\ Order
  BY DEF OInv
<1>1. CASE StartEncoding \/ StartFails \/ Stop \/ Wait \/ WaitReturns
  <2>1. TypeOK'
    BY <1>0, <1>1, CallerKeepsTypeOK
  <2>2. /\ UNCHANGED <<blocks, output, next_packet, forwarding, packet_queue, block_queue>>
        /\ forwarder' = "writing" => forwarder = "writing"
        /\ dispatcher' = "sending" => dispatcher = "sending"
        /\ \A w \in Workers : encoder'[w] = "sending" => encoder[w] = "sending"
    BY <1>0, <1>1 DEF StartEncoding, StartFails, ConfigurationRefused,
                      NoRandomId, Stop, Wait, WaitReturns, dispatcherVars,
                      encoderVars, forwarderVars
  <2>3. CASE current_block_id' = current_block_id
    BY <1>0, <2>1, <2>2, <2>3, NothingMovesKeepsOrder DEF OInv
  <2>4. CASE StartEncoding
    <3>1. dispatcher' # "sending"
      BY <2>4 DEF StartEncoding
    <3>2. LaneOrder' /\ SentInOrder' /\ EncodersInOrder' /\ QueuesInOrder'
      <4>1. Sent' \subseteq Sent /\ Held' \subseteq Held
        BY <2>2 DEF Sent, Held, Elements
      <4> QED
        BY <1>0, <2>2, <4>1
        DEF Order, LaneOrder, SentInOrder, EncodersInOrder, QueuesInOrder,
            LaneOfPacket, InOrder, Elements
    <3> QED
      BY <2>1, <3>1, <3>2 DEF OInv, Order, DispatcherInOrder
  <2> QED
    BY <1>1, <2>3, <2>4 DEF StartFails, ConfigurationRefused, NoRandomId, Stop,
                            Wait, WaitReturns, dispatcherVars
<1>2. CASE DispatcherRead
  BY <1>0, <1>2, DispatcherReadKeepsTypeOK, DispatcherReadKeepsOrder DEF OInv
<1>3. CASE DispatcherSend
  <2>1. dispatcher = "sending" /\ blocks # << >>
    BY <1>0, <1>3 DEF DispatcherSend, Order, DispatcherInOrder
  <2> QED
    BY <1>0, <1>3, <2>1, DispatcherSendKeepsTypeOK, DispatcherSendKeepsOrder DEF OInv
<1>4. CASE \/ DispatcherSendFails \/ DispatcherEof \/ DispatcherInterrupted
           \/ DispatcherReadFails
  <2>1. TypeOK'
    BY <1>0, <1>4, DispatcherEndsKeepsTypeOK
  <2>2. /\ UNCHANGED <<blocks, output, current_block_id, next_packet, forwarding,
                       packet_queue, block_queue, forwarder, encoder>>
        /\ dispatcher' # "sending"
    BY <1>4 DEF DispatcherSendFails, DispatcherEof, DispatcherInterrupted,
                DispatcherReadFails, DispatcherEnds, encoderVars, forwarderVars
  <2> QED
    BY <1>0, <2>1, <2>2, NothingMovesKeepsOrder DEF OInv
<1>5. ASSUME NEW w \in Workers, EncoderSteps(w) PROVE OInv'
  <2>1. TypeOK'
    BY <1>0, <1>5, EncoderKeepsTypeOK
  <2>2. CASE EncoderReceive(w)
    BY <2>1, <2>2, EncoderReceiveKeepsOrder DEF OInv
  <2>3. CASE EncoderSend(w)
    BY <2>1, <2>3, EncoderSendKeepsOrder DEF OInv
  <2>4. CASE EncoderSendFails(w) \/ EncoderEnds(w)
    <3>1. /\ UNCHANGED <<blocks, output, current_block_id, next_packet, forwarding,
                         packet_queue, forwarder, dispatcher>>
          /\ \A v \in Workers :
               block_queue'[v] = block_queue[v] \/ block_queue'[v] = << >>
          /\ \A v \in Workers : encoder'[v] = "sending" => encoder[v] = "sending"
      BY <1>0, <2>4 DEF EncoderSendFails, EncoderEnds, TypeOK, dispatcherVars, forwarderVars
    <3> QED
      BY <1>0, <2>1, <3>1, NothingMovesKeepsOrder DEF OInv
  <2> QED
    BY <1>5, <2>2, <2>3, <2>4 DEF EncoderSteps
<1>6. CASE ForwarderSteps
  <2>1. TypeOK'
    BY <1>0, <1>6, ForwarderKeepsTypeOK
  <2>2. CASE ForwarderReceive
    BY <2>1, <2>2, ForwarderReceiveKeepsOrder DEF OInv
  <2>3. CASE ForwarderWrite
    BY <2>1, <2>3, ForwarderWriteKeepsOrder DEF OInv
  <2>4. CASE ForwarderWriteFails \/ ForwarderEnds
    <3>1. /\ UNCHANGED <<blocks, output, current_block_id, next_packet, forwarding,
                         block_queue, encoder, dispatcher>>
          /\ packet_queue' = packet_queue \/ packet_queue' = << >>
          /\ forwarder' # "writing"
      BY <2>4 DEF ForwarderWriteFails, ForwarderEnds, dispatcherVars, encoderVars
    <3> QED
      BY <1>0, <2>1, <3>1, NothingMovesKeepsOrder DEF OInv
  <2> QED
    BY <1>6, <2>2, <2>3, <2>4 DEF ForwarderSteps
<1>7. CASE UNCHANGED vars
  <2>1. TypeOK'
    BY <1>0, <1>7 DEF vars, TypeOK, Block
  <2> QED
    BY <1>0, <1>7, <2>1, NothingMovesKeepsOrder DEF OInv, vars
<1> QED
  BY <1>1, <1>2, <1>3, <1>4, <1>5, <1>6, <1>7 DEF Next, DispatcherSteps, Terminated

LEMMA OInvInvariant == Spec => []OInv
<1>1. Init => OInv
  BY InitTypeOK, InitOrder DEF OInv
<1> QED
  BY <1>1, OInvInductive, PTL DEF Spec

(* Every variable of the encoder keeps its type; in particular no channel  *)
(* ever holds more than its capacity and no thread handles a packet of a   *)
(* block that was not read.                                                *)
THEOREM EncoderTypeOK == Spec => []TypeOK
<1>1. OInv => TypeOK
  BY DEF OInv
<1> QED
  BY <1>1, OInvInvariant, PTL

(* Packets of one lane are written in the order of their blocks and, in a  *)
(* block, in the order of encode, and never twice: for every number of     *)
(* workers and ids, 256 % NumBlockEncoders # 0 included, where adjacent    *)
(* blocks share a lane when the id wraps.                                  *)
THEOREM EncoderLaneOrder == Spec => []LaneOrder
<1>1. OInv => LaneOrder
  BY DEF OInv, Order
<1> QED
  BY <1>1, OInvInvariant, PTL

-----------------------------------------------------------------------------
(* Who can fail.  A thread's life as the others see it.                    *)

Lifecycle ==
  /\ caller = "new" =>
       /\ dispatcher = "none" /\ forwarder = "none"
       /\ \A w \in Workers : encoder[w] = "none"
  /\ caller = "start_failed" => dispatcher = "none"
  /\ dispatcher # "none" => \A w \in Workers : encoder[w] # "none"
  /\ caller # "new" => forwarder # "none"
  /\ forwarder = "done" => \A w \in Workers : ~Alive(encoder[w])
  /\ \A w \in Workers : encoder[w] = "done" => BlockQueuesDropped
  /\ \A w \in Workers : encoder[w] = "failed" => forwarder = "failed"

LEMMA LifecycleInductive == TypeOK /\ Lifecycle /\ [Next]_vars => Lifecycle'
<1> SUFFICES ASSUME TypeOK, Lifecycle, [Next]_vars PROVE Lifecycle'
  OBVIOUS
<1> USE DEF Lifecycle, Alive, Ended, BlockQueuesDropped
<1>1. CASE StartEncoding \/ StartFails
  BY <1>1 DEF StartEncoding, StartFails, ConfigurationRefused, NoRandomId,
              dispatcherVars, encoderVars
<1>2. CASE Stop \/ Wait \/ WaitReturns
  BY <1>2 DEF Stop, Wait, WaitReturns, dispatcherVars, encoderVars, forwarderVars
<1>3. CASE DispatcherRead \/ DispatcherSend \/ DispatcherSendFails
  BY <1>3 DEF DispatcherRead, DispatcherSend, DispatcherSendFails, encoderVars,
              forwarderVars
<1>4. CASE DispatcherEof \/ DispatcherInterrupted \/ DispatcherReadFails
  BY <1>4 DEF DispatcherEof, DispatcherInterrupted, DispatcherReadFails,
              DispatcherEnds, encoderVars, forwarderVars
<1>5. ASSUME NEW w \in Workers, EncoderSteps(w) PROVE Lifecycle'
  <2>1. /\ UNCHANGED <<caller, dispatcher, forwarder>>
        /\ encoder \in [Workers -> ThreadState({"receiving", "sending"})]
        /\ forwarder \in ThreadState({"receiving", "writing"})
    BY <1>5 DEF EncoderSteps, EncoderReceive, EncoderSend, EncoderSendFails,
                EncoderEnds, dispatcherVars, forwarderVars, TypeOK
  <2>2. CASE EncoderReceive(w) \/ EncoderSend(w)
    BY <2>1, <2>2 DEF EncoderReceive, EncoderSend
  <2>3. CASE EncoderSendFails(w)
    <3>1. forwarder = "failed"
      BY <2>1, <2>3 DEF EncoderSendFails, ThreadState
    <3> QED
      BY <2>1, <2>3, <3>1 DEF EncoderSendFails
  <2>4. CASE EncoderEnds(w)
    BY <2>1, <2>4 DEF EncoderEnds
  <2> QED
    BY <1>5, <2>2, <2>3, <2>4 DEF EncoderSteps
<1>6. CASE ForwarderSteps
  BY <1>6 DEF ForwarderSteps, ForwarderReceive, ForwarderWrite, ForwarderWriteFails,
              ForwarderEnds, PacketQueueDropped, dispatcherVars, encoderVars
<1>7. CASE UNCHANGED vars
  BY <1>7 DEF vars
<1> QED
  BY <1>1, <1>2, <1>3, <1>4, <1>5, <1>6, <1>7 DEF Next, DispatcherSteps, Terminated

(* A block encoder fails, and a dispatcher finds its block encoder gone,   *)
(* only after the output stream has refused a write.                       *)
THEOREM EncoderFailuresComeFromOutput == Spec => []FailuresComeFromOutput
<1>1. Init => Lifecycle
  BY DEF Init, Lifecycle, Alive, BlockQueuesDropped
<1>2. TypeOK /\ Lifecycle => FailuresComeFromOutput
  <2> SUFFICES ASSUME TypeOK, Lifecycle, dispatcher = "sending", ~Alive(encoder[Target])
               PROVE  forwarder = "failed"
    BY DEF Lifecycle, FailuresComeFromOutput
  <2>1. Target \in Workers
    BY LaneType DEF TypeOK, Target
  <2> QED
    BY <2>1 DEF Lifecycle, Alive, Ended, BlockQueuesDropped
<1> QED
  BY <1>1, <1>2, EncoderTypeOK, LifecycleInductive, PTL DEF Spec

-----------------------------------------------------------------------------
(* Nothing is lost.  As long as no write has failed, a packet of a block   *)
(* that was read is either past its block encoder or still on its way to   *)
(* be produced; and what a thread leaves behind when it ends is empty.     *)

Pending(p) ==
  \/ dispatcher = "sending" /\ p.block = Len(blocks)
  \/ \E k \in 1 .. Len(block_queue[LaneOfPacket(p)]) :
       block_queue[LaneOfPacket(p)][k] = p.block
  \/ /\ encoder[LaneOfPacket(p)] = "sending"
     /\ next_packet[LaneOfPacket(p)].block = p.block
     /\ next_packet[LaneOfPacket(p)].idx <= p.idx

Complete ==
  forwarder # "failed" => \A p \in PacketsOf(Block) : p \in Sent \/ Pending(p)

Drained ==
  /\ \A w \in Workers : ~Alive(encoder[w]) => block_queue[w] = << >>
  /\ ~Alive(forwarder) => packet_queue = << >>

(* The id that the next block will get follows the last one given.         *)
IdsFollow ==
  /\ dispatcher = "none" => blocks = << >>
  /\ dispatcher = "reading" /\ blocks # << >> =>
       current_block_id = NextId(blocks[Len(blocks)])

CInv == OInv /\ Lifecycle /\ Complete /\ Drained /\ IdsFollow

LEMMA PacketLane ==
  ASSUME TypeOK, NEW p \in PacketsOf(Block)
  PROVE  /\ p.block \in Block /\ p.idx \in 1 .. PacketsPerBlock
         /\ LaneOfPacket(p) \in Workers
<1>1. p.block \in Block /\ p.idx \in 1 .. PacketsPerBlock
  BY DEF PacketsOf
<1>2. blocks[p.block] \in BlockId
  BY <1>1 DEF TypeOK, Block
<1> QED
  BY <1>1, <1>2, LaneType DEF LaneOfPacket

(* What is pending stays pending until it is sent.                         *)
LEMMA StillComplete ==
  ASSUME Complete, blocks' = blocks,
         forwarder' # "failed" => forwarder # "failed",
         Sent \subseteq Sent',
         \A p \in PacketsOf(Block) : Pending(p) => p \in Sent' \/ Pending(p)'
  PROVE  Complete'
  BY DEF Complete, Block

LEMMA DispatcherReadKeepsComplete == OInv /\ Complete /\ DispatcherRead => Complete'
<1> SUFFICES ASSUME TypeOK, Complete, DispatcherRead, forwarder # "failed",
                    NEW p \in PacketsOf(Block')
             PROVE  p \in Sent' \/ Pending(p)'
  BY DEF OInv, Complete, DispatcherRead, forwarderVars
<1>1. /\ blocks \in Seq(BlockId) /\ current_block_id \in BlockId
      /\ blocks' = Append(blocks, current_block_id)
  BY DEF TypeOK, DispatcherRead
<1>2. /\ Len(blocks) \in Nat /\ Len(blocks') = Len(blocks) + 1
      /\ \A b \in Block : blocks'[b] = blocks[b]
  BY <1>1 DEF Block
<1>3. UNCHANGED <<block_queue, encoder, next_packet, packet_queue, forwarder,
                  forwarding, output>>
      /\ dispatcher = "reading" /\ dispatcher' = "sending"
  BY DEF DispatcherRead, encoderVars, forwarderVars
<1>4. Sent' = Sent
  BY <1>3 DEF Sent, Held, Elements
<1>5. CASE p.block = Len(blocks')
  BY <1>3, <1>5 DEF Pending
<1>6. CASE p.block # Len(blocks')
  <2>1. p.block \in Block /\ p \in PacketsOf(Block)
    BY <1>2, <1>6 DEF PacketsOf, Block
  <2>2. LaneOfPacket(p)' = LaneOfPacket(p)
    BY <1>2, <2>1 DEF LaneOfPacket
  <2>3. Pending(p) => Pending(p)'
    BY <1>3, <2>2 DEF Pending
  <2> QED
    BY <1>4, <2>1, <2>3 DEF Complete
<1> QED
  BY <1>5, <1>6

LEMMA DispatcherSendKeepsComplete == OInv /\ Complete /\ DispatcherSend => Complete'
<1> SUFFICES ASSUME TypeOK, Order, Complete, DispatcherSend PROVE Complete'
  BY DEF OInv
<1>1. UNCHANGED <<blocks, encoder, next_packet, packet_queue, forwarder,
                  forwarding, output>>
  BY DEF DispatcherSend, encoderVars, forwarderVars
<1>2. Sent' = Sent
  BY <1>1 DEF Sent, Held, Elements
<1>3. Target \in Workers /\ blocks[Len(blocks)] = current_block_id
  BY LaneType DEF TypeOK, Target, DispatcherSend, Order, DispatcherInOrder
<1>4. ASSUME NEW p \in PacketsOf(Block), Pending(p) PROVE Pending(p)'
  <2> DEFINE w == LaneOfPacket(p)
  <2>0. w \in Workers /\ p.block \in Block
    BY PacketLane
  <2>1. LaneOfPacket(p)' = w
    BY <1>1 DEF LaneOfPacket
  <2> HIDE DEF w
  <2>2. block_queue[w] \in Seq(Block) /\ Len(blocks) \in Nat
    BY <2>0 DEF TypeOK
  <2>3. /\ w = Target => block_queue'[w] = Append(block_queue[w], Len(blocks))
        /\ w # Target => block_queue'[w] = block_queue[w]
    BY <1>3, <2>0 DEF DispatcherSend, TypeOK
  <2>4. \A k \in 1 .. Len(block_queue[w]) :
          k \in 1 .. Len(block_queue'[w]) /\ block_queue'[w][k] = block_queue[w][k]
    BY <2>2, <2>3
  <2>5. CASE p.block = Len(blocks)
    <3>1. w = Target
      BY <1>3, <2>5 DEF w, LaneOfPacket, Target
    <3>2. Len(block_queue'[w]) \in 1 .. Len(block_queue'[w])
          /\ block_queue'[w][Len(block_queue'[w])] = p.block
      BY <2>2, <2>3, <2>5, <3>1
    <3> QED
      BY <2>1, <3>2 DEF Pending
  <2>6. CASE p.block # Len(blocks)
    BY <1>1, <1>4, <2>1, <2>4, <2>6 DEF Pending, w
  <2> QED
    BY <2>5, <2>6
<1> QED
  BY <1>1, <1>2, <1>4, StillComplete

LEMMA EncoderReceiveKeepsComplete ==
  ASSUME OInv, Complete, NEW w \in Workers, EncoderReceive(w) PROVE Complete'
<1>0. TypeOK
  BY DEF OInv
<1>1. UNCHANGED <<blocks, dispatcher, packet_queue, forwarder, forwarding, output>>
  BY DEF EncoderReceive, dispatcherVars, forwarderVars
<1>2. Sent' = Sent
  BY <1>1 DEF Sent, Held, Elements
<1>3. ASSUME NEW p \in PacketsOf(Block), Pending(p) PROVE Pending(p)'
  <2> DEFINE v == LaneOfPacket(p)
  <2>0. v \in Workers /\ p.block \in Block /\ p.idx \in Nat /\ 1 <= p.idx
    BY <1>0, PacketLane
  <2>1. LaneOfPacket(p)' = v
    BY <1>1 DEF LaneOfPacket
  <2> HIDE DEF v
  <2>2. CASE v # w
    <3>1. /\ block_queue'[v] = block_queue[v] /\ encoder'[v] = encoder[v]
          /\ next_packet'[v] = next_packet[v]
      BY <1>0, <2>0, <2>2 DEF EncoderReceive, TypeOK
    <3> QED
      BY <1>1, <1>3, <2>1, <3>1 DEF Pending, v
  <2>3. CASE v = w
    <3>1. /\ block_queue[w] \in Seq(Block) /\ block_queue[w] # << >>
          /\ block_queue'[w] = Tail(block_queue[w])
          /\ encoder[w] = "receiving" /\ encoder'[w] = "sending"
          /\ next_packet'[w] = Packet(Head(block_queue[w]), 1)
      BY <1>0 DEF EncoderReceive, TypeOK
    <3>2. next_packet'[w].block = Head(block_queue[w]) /\ next_packet'[w].idx = 1
      BY <3>1 DEF Packet
    <3>3. \A k \in 1 .. Len(block_queue[w]) :
            \/ block_queue[w][k] = Head(block_queue[w])
            \/ /\ k - 1 \in 1 .. Len(block_queue'[w])
               /\ block_queue'[w][k - 1] = block_queue[w][k]
      BY <3>1
    <3> QED
      BY <1>1, <1>3, <2>0, <2>1, <2>3, <3>1, <3>2, <3>3 DEF Pending, v
  <2> QED
    BY <2>2, <2>3
<1> QED
  BY <1>1, <1>2, <1>3, StillComplete

LEMMA EncoderSendKeepsComplete ==
  ASSUME OInv, Complete, NEW w \in Workers, EncoderSend(w) PROVE Complete'
<1>0. TypeOK
  BY DEF OInv
<1>1. UNCHANGED <<blocks, dispatcher, block_queue, forwarder, forwarding, output>>
  BY DEF EncoderSend, dispatcherVars, forwarderVars
<1>2. next_packet[w] \in PacketsOf(Block)
  BY <1>0 DEF EncoderSend, TypeOK, PacketsOf
<1>3. Elements(packet_queue') = Elements(packet_queue) \cup {next_packet[w]}
  BY <1>0, <1>2, ElementsAppend DEF EncoderSend, TypeOK
<1>4. Sent' = Sent \cup {next_packet[w]}
  BY <1>1, <1>3 DEF Sent, Held, Elements
<1>5. ASSUME NEW p \in PacketsOf(Block), Pending(p) PROVE p \in Sent' \/ Pending(p)'
  <2> DEFINE v == LaneOfPacket(p)
  <2>0. v \in Workers /\ p.idx \in 1 .. PacketsPerBlock
    BY <1>0, PacketLane
  <2>1. LaneOfPacket(p)' = v
    BY <1>1 DEF LaneOfPacket
  <2> HIDE DEF v
  <2>2. CASE v # w
    <3>1. encoder'[v] = encoder[v] /\ next_packet'[v] = next_packet[v]
      BY <1>0, <2>0, <2>2 DEF EncoderSend, TypeOK
    <3> QED
      BY <1>1, <1>5, <2>1, <3>1 DEF Pending, v
  <2>3. CASE p = next_packet[w]
    BY <1>4, <2>3
  <2>4. CASE /\ v = w /\ p # next_packet[w]
             /\ next_packet[w].block = p.block /\ next_packet[w].idx <= p.idx
    <3>1. next_packet[w].idx # p.idx
      BY <1>2, <2>4 DEF PacketsOf
    <3>2. next_packet[w].idx \in 1 .. PacketsPerBlock
      BY <1>2 DEF PacketsOf
    <3>3. next_packet[w].idx + 1 <= p.idx /\ next_packet[w].idx < PacketsPerBlock
      BY <2>0, <2>4, <3>1, <3>2
    <3>4. encoder'[w] = "sending"
          /\ next_packet'[w] = Packet(next_packet[w].block, next_packet[w].idx + 1)
      BY <1>0, <3>3, <3>2 DEF EncoderSend, TypeOK
    <3>5. next_packet'[w].block = p.block /\ next_packet'[w].idx <= p.idx
      BY <2>4, <3>3, <3>4 DEF Packet
    <3> QED
      BY <2>1, <2>4, <3>4, <3>5 DEF Pending
  <2>5. CASE /\ v = w
             /\ ~(next_packet[w].block = p.block /\ next_packet[w].idx <= p.idx)
    BY <1>1, <1>5, <2>1, <2>5 DEF Pending, v
  <2> QED
    BY <2>2, <2>3, <2>4, <2>5
<1> QED
  BY <1>1, <1>4, <1>5, StillComplete

LEMMA ForwarderKeepsSent ==
  TypeOK /\ (ForwarderReceive \/ ForwarderWrite) => Sent' = Sent
<1> SUFFICES ASSUME TypeOK, ForwarderReceive \/ ForwarderWrite PROVE Sent' = Sent
  OBVIOUS
<1>1. CASE ForwarderReceive
  <2>1. /\ packet_queue \in Seq(PacketsOf(Block)) /\ packet_queue # << >>
        /\ packet_queue' = Tail(packet_queue) /\ output' = output
        /\ Held = {} /\ Held' = {Head(packet_queue)}
    BY <1>1 DEF ForwarderReceive, TypeOK, Held
  <2>2. Elements(packet_queue) = Elements(packet_queue') \cup Held'
    BY <2>1, ElementsHeadTail
  <2> QED
    BY <2>1, <2>2 DEF Sent
<1>2. CASE ForwarderWrite
  <2>1. /\ output \in Seq(PacketsOf(Block)) /\ forwarding \in PacketsOf(Block)
        /\ output' = Append(output, forwarding) /\ packet_queue' = packet_queue
        /\ Held = {forwarding} /\ Held' = {}
    BY <1>2 DEF ForwarderWrite, TypeOK, Held, PacketsOf
  <2>2. Elements(output') = Elements(output) \cup {forwarding}
    BY <2>1, ElementsAppend
  <2> QED
    BY <2>1, <2>2 DEF Sent
<1> QED
  BY <1>1, <1>2

(* A step that moves nothing and ends no thread before its time.           *)
LEMMA NothingMovesKeepsComplete ==
  ASSUME Complete, UNCHANGED <<blocks, block_queue, next_packet>>, Sent' = Sent,
         dispatcher = "sending" => dispatcher' = "sending",
         \A w : encoder[w] = "sending" => encoder'[w] = "sending",
         forwarder' # "failed" => forwarder # "failed"
  PROVE  Complete'
<1>1. \A p \in PacketsOf(Block) : Pending(p) => Pending(p)'
  BY DEF Pending, LaneOfPacket
<1> QED
  BY <1>1, StillComplete

LEMMA CompleteInductive ==
  OInv /\ Lifecycle /\ Complete /\ [Next]_vars => Complete'
<1> SUFFICES ASSUME OInv, TypeOK, Lifecycle, Complete, [Next]_vars PROVE Complete'
  BY DEF OInv
<1>1. CASE StartEncoding \/ StartFails
  <2>1. /\ blocks' = blocks /\ Sent' = Sent
        /\ UNCHANGED <<block_queue, next_packet>>
        /\ dispatcher # "sending" /\ \A w \in Workers : encoder[w] # "sending"
        /\ forwarder # "failed"
    BY <1>1 DEF StartEncoding, StartFails, ConfigurationRefused, NoRandomId, Lifecycle,
                dispatcherVars, encoderVars, Sent, Held, Elements
  <2>2. ASSUME NEW p \in PacketsOf(Block), Pending(p) PROVE Pending(p)'
    <3>1. LaneOfPacket(p) \in Workers
      BY PacketLane
    <3> QED
      BY <2>1, <2>2, <3>1 DEF Pending, LaneOfPacket
  <2> QED
    BY <2>1, <2>2, StillComplete
<1>2. CASE Stop \/ Wait \/ WaitReturns
  BY <1>2, NothingMovesKeepsComplete
  DEF Stop, Wait, WaitReturns, dispatcherVars, encoderVars, forwarderVars, Sent,
      Held, Elements
<1>3. CASE DispatcherRead \/ DispatcherSend
  BY <1>3, DispatcherReadKeepsComplete, DispatcherSendKeepsComplete
<1>4. CASE DispatcherSendFails
  <2>1. Target \in Workers
    BY LaneType DEF TypeOK, Target
  <2>2. forwarder = "failed"
    BY <1>4, <2>1 DEF DispatcherSendFails, Lifecycle, Alive, Ended, BlockQueuesDropped
  <2> QED
    BY <1>4, <2>2 DEF DispatcherSendFails, forwarderVars, Complete
<1>5. CASE DispatcherEof \/ DispatcherInterrupted \/ DispatcherReadFails
  BY <1>5, NothingMovesKeepsComplete
  DEF DispatcherEof, DispatcherInterrupted, DispatcherReadFails, DispatcherEnds,
      encoderVars, forwarderVars, Sent, Held, Elements
<1>6. ASSUME NEW w \in Workers, EncoderSteps(w) PROVE Complete'
  <2>1. CASE EncoderReceive(w) \/ EncoderSend(w)
    BY <2>1, EncoderReceiveKeepsComplete, EncoderSendKeepsComplete
  <2>2. CASE EncoderSendFails(w)
    <3>1. forwarder = "failed"
      BY <2>2 DEF EncoderSendFails, Lifecycle, Alive, TypeOK, ThreadState
    <3> QED
      BY <2>2, <3>1 DEF EncoderSendFails, forwarderVars, Complete
  <2>3. CASE EncoderEnds(w)
    <3>1. \A v : encoder[v] = "sending" => encoder'[v] = "sending"
      BY <2>3 DEF EncoderEnds, TypeOK
    <3> QED
      BY <2>3, <3>1, NothingMovesKeepsComplete
      DEF EncoderEnds, dispatcherVars, forwarderVars, Sent, Held, Elements
  <2> QED
    BY <1>6, <2>1, <2>2, <2>3 DEF EncoderSteps
<1>7. CASE ForwarderReceive \/ ForwarderWrite
  BY <1>7, ForwarderKeepsSent, NothingMovesKeepsComplete
  DEF ForwarderReceive, ForwarderWrite, dispatcherVars, encoderVars
<1>8. CASE ForwarderWriteFails
  BY <1>8 DEF ForwarderWriteFails, Complete
<1>9. CASE ForwarderEnds
  BY <1>9, NothingMovesKeepsComplete
  DEF ForwarderEnds, dispatcherVars, encoderVars, Sent, Held, Elements
<1>10. CASE UNCHANGED vars
  BY <1>10, NothingMovesKeepsComplete DEF vars, Sent, Held, Elements
<1> QED
  BY <1>1, <1>2, <1>3, <1>4, <1>5, <1>6, <1>7, <1>8, <1>9, <1>10
  DEF Next, DispatcherSteps, ForwarderSteps, Terminated

LEMMA DrainedInductive == TypeOK /\ Lifecycle /\ Drained /\ [Next]_vars => Drained'
<1> SUFFICES ASSUME TypeOK, Lifecycle, Drained, [Next]_vars PROVE Drained'
  OBVIOUS
<1> USE DEF Drained, Alive
<1>1. CASE StartEncoding \/ StartFails
  BY <1>1 DEF StartEncoding, StartFails, ConfigurationRefused, NoRandomId,
              Lifecycle, dispatcherVars, encoderVars
<1>2. CASE Stop \/ Wait \/ WaitReturns
  BY <1>2 DEF Stop, Wait, WaitReturns, encoderVars, forwarderVars
<1>3. CASE DispatcherSend
  <2>1. \A w \in Workers : ~Alive(encoder[w]) => block_queue'[w] = block_queue[w]
    BY <1>3 DEF DispatcherSend, TypeOK
  <2> QED
    BY <1>3, <2>1 DEF DispatcherSend, encoderVars, forwarderVars
<1>4. CASE \/ DispatcherRead \/ DispatcherSendFails \/ DispatcherEof
           \/ DispatcherInterrupted \/ DispatcherReadFails
  BY <1>4 DEF DispatcherRead, DispatcherSendFails, DispatcherEof, DispatcherInterrupted,
              DispatcherReadFails, DispatcherEnds, encoderVars, forwarderVars
<1>5. ASSUME NEW w \in Workers, EncoderSteps(w) PROVE Drained'
  <2>1. ASSUME NEW v \in Workers, ~Alive(encoder'[v]) PROVE block_queue'[v] = << >>
    BY <1>5, <2>1 DEF EncoderSteps, EncoderReceive, EncoderSend, EncoderSendFails,
                      EncoderEnds, TypeOK
  <2>2. ~Alive(forwarder') => packet_queue' = << >>
    BY <1>5 DEF EncoderSteps, EncoderReceive, EncoderSend, EncoderSendFails,
                EncoderEnds, forwarderVars
  <2> QED
    BY <2>1, <2>2
<1>6. CASE ForwarderSteps
  BY <1>6 DEF ForwarderSteps, ForwarderReceive, ForwarderWrite, ForwarderWriteFails,
              ForwarderEnds, encoderVars
<1>7. CASE UNCHANGED vars
  BY <1>7 DEF vars
<1> QED
  BY <1>1, <1>2, <1>3, <1>4, <1>5, <1>6, <1>7 DEF Next, DispatcherSteps, Terminated

LEMMA IdsFollowInductive ==
  OInv /\ Lifecycle /\ IdsFollow /\ [Next]_vars => IdsFollow'
<1> SUFFICES ASSUME TypeOK, Order, Lifecycle, IdsFollow, [Next]_vars PROVE IdsFollow'
  BY DEF OInv
<1>1. CASE StartEncoding
  BY <1>1 DEF StartEncoding, IdsFollow, Lifecycle
<1>2. CASE DispatcherSend
  BY <1>2 DEF DispatcherSend, IdsFollow, Order, DispatcherInOrder
<1>3. CASE \/ DispatcherRead \/ DispatcherSendFails \/ DispatcherEof
           \/ DispatcherInterrupted \/ DispatcherReadFails
  BY <1>3 DEF DispatcherRead, DispatcherSendFails, DispatcherEof, DispatcherInterrupted,
              DispatcherReadFails, DispatcherEnds, IdsFollow
<1>4. CASE UNCHANGED dispatcherVars
  BY <1>4 DEF dispatcherVars, IdsFollow
<1>5. CASE \E w \in Workers : EncoderSteps(w)
  BY <1>4, <1>5 DEF EncoderSteps, EncoderReceive, EncoderSend, EncoderSendFails, EncoderEnds
<1>6. CASE \/ StartFails \/ Stop \/ Wait \/ WaitReturns \/ ForwarderSteps \/ UNCHANGED vars
  BY <1>4, <1>6 DEF StartFails, ConfigurationRefused, NoRandomId, Stop, Wait, WaitReturns,
       ForwarderSteps, ForwarderReceive, ForwarderWrite, ForwarderWriteFails,
       ForwarderEnds, vars, dispatcherVars
<1> QED
  BY <1>1, <1>2, <1>3, <1>5, <1>6 DEF Next, DispatcherSteps, Terminated

LEMMA CInvInvariant == Spec => []CInv
<1>1. Init => CInv
  <2> SUFFICES ASSUME Init PROVE CInv
    OBVIOUS
  <2>1. OInv
    BY InitTypeOK, InitOrder DEF OInv
  <2>2. Lifecycle /\ IdsFollow /\ Drained
    BY DEF Init, Lifecycle, Alive, BlockQueuesDropped, IdsFollow, Drained
  <2>3. \A p \in PacketsOf(Block) : FALSE
    BY DEF Init, Block, PacketsOf
  <2> QED
    BY <2>1, <2>2, <2>3 DEF CInv, Complete
<1>2. CInv /\ [Next]_vars => CInv'
  <2> SUFFICES ASSUME OInv, TypeOK, Lifecycle, Complete, Drained, IdsFollow, [Next]_vars
               PROVE  CInv'
    BY DEF CInv, OInv
  <2> QED
    BY OInvInductive, LifecycleInductive, CompleteInductive, DrainedInductive,
       IdsFollowInductive DEF CInv
<1> QED
  BY <1>1, <1>2, PTL DEF Spec

(* When the forwarder has ended without an error, every packet of every    *)
(* block read has been written, however the input ended and whenever stop  *)
(* was called: for any number of block encoders and any channel capacity.  *)
THEOREM EncoderLosesNothing == Spec => []NothingLostWithoutError
<1>1. CInv => NothingLostWithoutError
  <2> SUFFICES ASSUME CInv, forwarder = "done", NEW p \in PacketsOf(Block)
               PROVE  \E i \in 1 .. Len(output) : output[i] = p
    BY DEF NothingLostWithoutError
  <2>1. TypeOK /\ Lifecycle /\ Complete /\ Drained
    BY DEF CInv, OInv
  <2>2. Sent = Elements(output)
    BY <2>1 DEF Drained, Alive, Sent, Held, Elements
  <2>3. LaneOfPacket(p) \in Workers
    BY <2>1, PacketLane
  <2>4. \A w \in Workers : ~Alive(encoder[w]) /\ Len(block_queue[w]) = 0
    BY <2>1 DEF Lifecycle, Drained
  <2>5. dispatcher # "sending"
    BY <2>1, <2>3, <2>4 DEF Lifecycle, Alive, BlockQueuesDropped, Ended
  <2>6. ~Pending(p)
    BY <2>3, <2>4, <2>5 DEF Pending, Alive
  <2> QED
    BY <2>1, <2>2, <2>6 DEF Complete, Elements
<1> QED
  BY <1>1, CInvInvariant, PTL

-----------------------------------------------------------------------------
(* Nobody waits in a circle.                                               *)

(* wait joins threads that exist.                                          *)
HasThreads == caller \notin {"new", "start_failed"} => dispatcher # "none"

LEMMA HasThreadsInvariant == Spec => []HasThreads
<1> USE DEF HasThreads
<1>1. Init => HasThreads
  BY DEF Init
<1>2. HasThreads /\ [Next]_vars => HasThreads'
  <2> SUFFICES ASSUME HasThreads, [Next]_vars PROVE HasThreads'
    OBVIOUS
  <2>1. CASE StartEncoding \/ StartFails \/ Stop \/ Wait \/ WaitReturns
    BY <2>1 DEF StartEncoding, StartFails, ConfigurationRefused, NoRandomId, Stop, Wait,
                WaitReturns, dispatcherVars
  <2>2. CASE \/ DispatcherRead \/ DispatcherEof \/ DispatcherInterrupted
             \/ DispatcherReadFails \/ DispatcherSteps
    BY <2>2 DEF DispatcherRead, DispatcherEof, DispatcherInterrupted, DispatcherReadFails,
                DispatcherEnds, DispatcherSteps, DispatcherSend, DispatcherSendFails
  <2>3. ASSUME NEW w \in Workers, EncoderSteps(w) PROVE HasThreads'
    BY <2>3 DEF EncoderSteps, EncoderReceive, EncoderSend, EncoderSendFails, EncoderEnds,
                dispatcherVars
  <2>4. CASE ForwarderSteps
    BY <2>4 DEF ForwarderSteps, ForwarderReceive, ForwarderWrite, ForwarderWriteFails,
                ForwarderEnds, dispatcherVars
  <2>5. CASE UNCHANGED vars
    BY <2>5 DEF vars
  <2> QED
    BY <2>1, <2>2, <2>3, <2>4, <2>5 DEF Next, Terminated
<1> QED
  BY <1>1, <1>2, PTL DEF Spec

(* From the forwarder back to the dispatcher: an idle forwarder has an     *)
(* empty queue, so no block encoder waits to send; an idle block encoder   *)
(* has an empty queue, so the dispatcher does not wait to send.            *)
LEMMA IdleQueues ==
  ASSUME TypeOK, Lifecycle, HasThreads, Idle
  PROVE  /\ \A w \in Workers : encoder[w] # "sending"
         /\ dispatcher # "sending"
         /\ \A w \in Workers : Alive(encoder[w]) => block_queue[w] = << >> /\ dispatcher = "reading"
         /\ Alive(forwarder) => packet_queue = << >> /\ dispatcher = "reading"
<1>0. /\ dispatcher \in ThreadState({"reading", "sending"})
      /\ encoder \in [Workers -> ThreadState({"receiving", "sending"})]
      /\ forwarder \in ThreadState({"receiving", "writing"})
      /\ Target \in Workers /\ QueueCapacity \in Nat \ {0}
  BY LaneType, EncoderAssumption DEF TypeOK, Target
<1>1. Alive(forwarder) => forwarder = "receiving" /\ packet_queue = << >>
  BY <1>0 DEF Idle, ForwarderWaits, ThreadState, Alive
<1>2. ASSUME NEW w \in Workers PROVE encoder[w] # "sending"
  <2>1. Len(<< >>) = 0 /\ ~(0 >= QueueCapacity)
    BY <1>0
  <2> QED
    BY <1>1, <2>1 DEF Idle, EncoderWaits
<1>3. ASSUME NEW w \in Workers, Alive(encoder[w])
      PROVE  encoder[w] = "receiving" /\ block_queue[w] = << >> /\ ~BlockQueuesDropped
  <2>1. encoder[w] = "receiving"
    BY <1>0, <1>2, <1>3 DEF ThreadState, Alive
  <2> QED
    BY <2>1 DEF Idle, EncoderWaits
<1>4. dispatcher # "sending"
  <2>1. ASSUME dispatcher = "sending" PROVE FALSE
    <3>1. Alive(encoder[Target]) /\ Len(block_queue[Target]) >= QueueCapacity
      BY <2>1 DEF Idle, DispatcherWaits
    <3>2. block_queue[Target] = << >>
      BY <1>0, <1>3, <3>1
    <3>3. Len(<< >>) = 0 /\ ~(0 >= QueueCapacity)
      BY <1>0
    <3> QED
      BY <3>1, <3>2, <3>3
  <2> QED
    BY <2>1
<1>5. ASSUME NEW w \in Workers, Alive(encoder[w]) PROVE dispatcher = "reading"
  <2>1. caller \notin {"new", "start_failed"} /\ ~Ended(dispatcher)
    BY <1>3, <1>5 DEF Lifecycle, BlockQueuesDropped, Alive
  <2> QED
    BY <1>0, <1>4, <2>1 DEF HasThreads, ThreadState, Ended
<1>6. Alive(forwarder) => \E w \in Workers : Alive(encoder[w])
  BY <1>1 DEF Idle, ForwarderWaits, PacketQueueDropped, Lifecycle, Alive
<1> QED
  BY <1>1, <1>2, <1>3, <1>4, <1>5, <1>6

(* The encoder has no deadlock and never holds data back while it waits    *)
(* for more: for any number of block encoders and any channel capacity.    *)
THEOREM EncoderWaitsOnlyForInput == Spec => []WaitsOnlyForInput
<1>1. CInv /\ HasThreads => WaitsOnlyForInput
  <2> SUFFICES ASSUME CInv, HasThreads, Idle
               PROVE  \/ NoThreadRuns /\ caller # "waiting"
                      \/ /\ dispatcher = "reading"
                         /\ Alive(forwarder) => \A p \in PacketsOf(Block) :
                              \E i \in 1 .. Len(output) : output[i] = p
    BY DEF WaitsOnlyForInput
  <2>1. TypeOK /\ Lifecycle /\ Complete /\ Drained
    BY DEF CInv, OInv
  <2>2. /\ \A w \in Workers : encoder[w] # "sending"
        /\ dispatcher # "sending"
        /\ \A w \in Workers : Alive(encoder[w]) => block_queue[w] = << >> /\ dispatcher = "reading"
        /\ Alive(forwarder) => packet_queue = << >> /\ dispatcher = "reading"
    BY <2>1, IdleQueues
  <2>3. CASE dispatcher # "reading"
    <3>1. ~Alive(dispatcher)
      BY <2>1, <2>2, <2>3 DEF TypeOK, ThreadState, Alive
    <3>2. NoThreadRuns
      BY <2>2, <2>3, <3>1 DEF NoThreadRuns
    <3>3. ASSUME caller = "waiting" PROVE FALSE
      <4>1. dispatcher # "none" /\ forwarder # "none" /\ \A w \in Workers : encoder[w] # "none"
        BY <2>1, <3>3 DEF HasThreads, Lifecycle
      <4>2. Joined
        BY <3>2, <4>1 DEF NoThreadRuns, Joined, Alive, Ended
      <4> QED
        BY <3>3, <4>2 DEF Idle
    <3> QED
      BY <3>2, <3>3
  <2>4. ASSUME Alive(forwarder), NEW p \in PacketsOf(Block)
        PROVE  \E i \in 1 .. Len(output) : output[i] = p
    <3>1. forwarder # "writing" /\ forwarder # "failed" /\ packet_queue = << >>
      BY <2>2, <2>4 DEF Idle, ForwarderWaits, Alive
    <3>2. Sent = Elements(output)
      BY <3>1 DEF Sent, Held, Elements
    <3>3. LaneOfPacket(p) \in Workers
      BY <2>1, PacketLane
    <3>4. Len(block_queue[LaneOfPacket(p)]) = 0
      BY <2>1, <2>2, <3>3 DEF Drained
    <3>5. ~Pending(p)
      BY <2>2, <3>3, <3>4 DEF Pending
    <3> QED
      BY <2>1, <3>1, <3>2, <3>5 DEF Complete, Elements
  <2> QED
    BY <2>3, <2>4
<1> QED
  BY <1>1, CInvInvariant, HasThreadsInvariant, PTL

-----------------------------------------------------------------------------
(* The refinement.  A read is a read of the stream, the write of a packet  *)
(* puts it on the link, and every other step leaves the stream alone.      *)

LEMMA WrittenAfterItsLane ==
  ASSUME CInv, forwarder = "writing"
  PROVE  /\ forwarding \in PacketsOf(Block) \ Elements(output)
         /\ \A q \in PacketsOf(Block) :
              LaneOfPacket(q) = LaneOfPacket(forwarding) /\ Precedes(q, forwarding)
                => q \in Elements(output)
<1>1. TypeOK /\ Order /\ Complete
  BY DEF CInv, OInv
<1>2. forwarding \in PacketsOf(Block) /\ Held = {forwarding} /\ forwarding \in Sent
  BY <1>1 DEF TypeOK, PacketsOf, Held, Sent
<1>3. \A q, r \in PacketsOf(Block) : ~(Precedes(q, r) /\ Precedes(r, q))
  BY PacketFields DEF Precedes
<1>4. forwarding \notin Elements(output)
  BY <1>1, <1>2, <1>3 DEF Order, SentInOrder, InOrder
<1>5. ASSUME NEW q \in PacketsOf(Block),
             LaneOfPacket(q) = LaneOfPacket(forwarding), Precedes(q, forwarding)
      PROVE  q \in Elements(output)
  <2> DEFINE w == LaneOfPacket(q)
  <2>1. w \in Workers
    BY <1>1, PacketLane
  <2>2. /\ q.block \in Nat /\ q.idx \in Nat
        /\ forwarding.block \in Nat /\ forwarding.idx \in Nat
        /\ q.block <= forwarding.block
    BY <1>2, <1>5, PacketFields DEF Precedes
  <2>3. ~(dispatcher = "sending" /\ q.block = Len(blocks))
    BY <1>1, <1>2, <2>2 DEF Order, DispatcherInOrder
  <2>4. ASSUME NEW k \in 1 .. Len(block_queue[w]), block_queue[w][k] = q.block PROVE FALSE
    BY <1>1, <1>2, <1>5, <2>1, <2>2, <2>4 DEF Order, QueuesInOrder
  <2>5. ~(/\ encoder[w] = "sending" /\ next_packet[w].block = q.block
          /\ next_packet[w].idx <= q.idx)
    <3>1. ASSUME encoder[w] = "sending", next_packet[w].block = q.block,
                 next_packet[w].idx <= q.idx
          PROVE  FALSE
      <4>1. Precedes(forwarding, next_packet[w])
        BY <1>1, <1>2, <1>5, <2>1, <3>1 DEF Order, EncodersInOrder
      <4>2. next_packet[w].idx \in Nat
        BY <1>1, <2>1 DEF TypeOK, PacketsOf
      <4> QED
        BY <1>5, <2>2, <3>1, <4>1, <4>2 DEF Precedes
    <3> QED
      BY <3>1
  <2>6. q \in Sent
    BY <1>1, <2>3, <2>4, <2>5 DEF Complete, Pending
  <2>7. q # forwarding
    BY <1>2, <1>3, <1>5
  <2>8. q \notin Elements(packet_queue)
    BY <1>1, <1>2, <1>3, <1>5 DEF Order, SentInOrder, InOrder
  <2> QED
    BY <1>2, <2>6, <2>7, <2>8 DEF Sent
<1> QED
  BY <1>2, <1>4, <1>5

LEMMA ReadIsStreamRead == CInv /\ DispatcherRead => Stream!StreamNext
<1> SUFFICES ASSUME CInv, DispatcherRead PROVE Stream!ReadBlock(current_block_id)
  BY DEF Stream!StreamNext, CInv, OInv, TypeOK, BlockId, Stream!BlockId
<1>1. TypeOK /\ IdsFollow
  BY DEF CInv, OInv
<1>2. Stream!OpenBlocks # {} => blocks # << >>
  BY <1>1 DEF Stream!OpenBlocks, TypeOK
<1>3. [b \in Block' |-> 1] = Append([b \in Block |-> 1], 1)
  <2>1. Len(blocks) \in Nat /\ Len(blocks') = Len(blocks) + 1
    BY <1>1 DEF DispatcherRead, TypeOK
  <2>2. /\ [b \in Block |-> 1] \in Seq({1})
        /\ Len([b \in Block |-> 1]) = Len(blocks)
    BY <2>1 DEF Block
  <2> QED
    BY <2>1, <2>2 DEF Block
<1> QED
  BY <1>1, <1>2, <1>3 DEF Stream!ReadBlock, DispatcherRead, IdsFollow,
                          NextId, Stream!NextId, forwarderVars

LEMMA WriteIsEmit == CInv /\ ForwarderWrite => Stream!StreamNext
<1> SUFFICES ASSUME CInv, ForwarderWrite PROVE Stream!StreamNext
  OBVIOUS
<1>1. TypeOK /\ forwarder = "writing"
  BY DEF CInv, OInv, ForwarderWrite
<1>2. Stream!OpenBlocks = Block
  BY DEF Stream!OpenBlocks, Block
<1>3. \A B : Stream!PacketsOf(B) = PacketsOf(B)
  BY DEF Stream!PacketsOf, PacketsOf
<1>4. \A q : /\ Stream!LaneOf(q.block) = LaneOfPacket(q)
             /\ \A r : Stream!Precedes(q, r) <=> Precedes(q, r)
  BY DEF Stream!LaneOf, Stream!Lane, LaneOfPacket, Lane, Stream!Precedes, Precedes
<1>5. Stream!Before(forwarding) \subseteq Elements(output)
  BY <1>1, <1>2, <1>3, <1>4, WrittenAfterItsLane DEF Stream!Before
<1>6. forwarding \in Stream!PacketsOf(Stream!OpenBlocks) \ Elements(output)
  BY <1>1, <1>2, <1>3, WrittenAfterItsLane
<1>7. Elements(output') = Elements(output) \cup {forwarding}
  BY <1>1, <1>2, <1>3, <1>6, ElementsAppend DEF ForwarderWrite, TypeOK
<1>8. PICK p \in Stream!PacketsOf(Stream!OpenBlocks) : p = forwarding
  BY <1>6
<1>9. Stream!Emit(p)
  BY <1>5, <1>6, <1>7, <1>8 
  DEF Stream!Emit, Elements, ForwarderWrite, dispatcherVars, Block
<1> QED
  BY <1>9 DEF Stream!StreamNext

(* The encoder implements the packet stream: whatever its threads do, what *)
(* it writes is, lane by lane, the packets of the blocks it read, in order *)
(* and with none skipped or repeated, and the ids of the blocks follow one *)
(* another modulo the number of ids.                                       *)
THEOREM EncoderImplementsStream == Spec => StreamSpec
<1>1. Init => Stream!StreamInit
  BY DEF Init, Stream!StreamInit, Block
<1>2. CInv /\ [Next]_vars => [Stream!StreamNext]_(Stream!streamVars)
  <2> SUFFICES ASSUME CInv, [Next]_vars
               PROVE  Stream!StreamNext \/ UNCHANGED <<blocks, output>>
    BY DEF Stream!streamVars, Block
  <2>1. CASE DispatcherRead \/ ForwarderWrite
    BY <2>1, ReadIsStreamRead, WriteIsEmit
  <2>2. CASE StartEncoding \/ StartFails \/ Stop \/ Wait \/ WaitReturns \/ Terminated
    BY <2>2 DEF StartEncoding, StartFails, ConfigurationRefused, NoRandomId, Stop, Wait,
                WaitReturns, Terminated, vars, dispatcherVars, forwarderVars
  <2>3. CASE DispatcherEof \/ DispatcherInterrupted \/ DispatcherReadFails \/ DispatcherSteps
    BY <2>3 DEF DispatcherEof, DispatcherInterrupted, DispatcherReadFails, DispatcherEnds,
                DispatcherSteps, DispatcherSend, DispatcherSendFails, forwarderVars
  <2>4. CASE \E w \in Workers : EncoderSteps(w)
    BY <2>4 DEF EncoderSteps, EncoderReceive, EncoderSend, EncoderSendFails, EncoderEnds,
                dispatcherVars, forwarderVars
  <2>5. CASE ForwarderReceive \/ ForwarderWriteFails \/ ForwarderEnds
    BY <2>5 DEF ForwarderReceive, ForwarderWriteFails, ForwarderEnds, dispatcherVars
  <2>6. CASE UNCHANGED vars
    BY <2>6 DEF vars
  <2> QED
    BY <2>1, <2>2, <2>3, <2>4, <2>5, <2>6 DEF Next, ForwarderSteps
<1> QED
  BY <1>1, <1>2, CInvInvariant, PTL DEF Spec, StreamSpec, Stream!StreamSpec
=============================================================================
