---------------------------- MODULE PacketStream ----------------------------
(***************************************************************************)
(* What an encoder promises of the packets it puts on the link, whatever   *)
(* its threads do: the packets of one lane (the blocks whose ids select    *)
(* the same block encoder) appear one block after the other, each block in *)
(* the order of its packets, with nothing skipped and nothing repeated.    *)
(* Packets of different lanes may be interleaved in any way.               *)
(*                                                                         *)
(* The specification covers a sequence of encoders, one for every input    *)
(* connection that run_encoder accepts: each draws its first block id at   *)
(* random, and starts when the previous one has ended, whether or not it   *)
(* sent everything it read.                                                *)
(***************************************************************************)
EXTENDS Packets

CONSTANTS
  NumLanes,     \* number of block encoder threads of an encoder
  MaxBlocks,    \* bound on the blocks read
  MaxSessions   \* bound on the input connections

ASSUME PacketStreamAssumption ==
  /\ NumLanes \in Nat \ {0}
  /\ MaxBlocks \in Nat
  /\ MaxSessions \in Nat \ {0}

VARIABLES
  blocks,     \* blocks[b] is the id of the b-th block read
  encoders,   \* encoders[b] is the number of the encoder that read it
  emitted,    \* the packets put on the link
  sessions    \* encoders started so far

streamVars == <<blocks, encoders, emitted, sessions>>

LaneOf(b) == Lane(blocks[b], NumLanes)

(* The blocks of the encoder that is running. *)
OpenBlocks == {b \in 1 .. Len(blocks) : encoders[b] = sessions}

(* The packets of p's lane that must be on the link before p. *)
Before(p) ==
  {q \in PacketsOf(OpenBlocks) :
      LaneOf(q.block) = LaneOf(p.block) /\ Precedes(q, p)}

StreamInit ==
  /\ blocks = << >>
  /\ encoders = << >>
  /\ emitted = {}
  /\ sessions = 1

(* A block is read and given the next id, or a random id if it is the      *)
(* first block of its encoder.                                             *)
ReadBlock(id) ==
  /\ Len(blocks) < MaxBlocks
  /\ OpenBlocks # {} => id = NextId(blocks[Len(blocks)])
  /\ blocks' = Append(blocks, id)
  /\ encoders' = Append(encoders, sessions)
  /\ UNCHANGED <<emitted, sessions>>

(* A packet is put on the link after everything that precedes it.          *)
Emit(p) ==
  /\ p \in PacketsOf(OpenBlocks) \ emitted
  /\ Before(p) \subseteq emitted
  /\ emitted' = emitted \cup {p}
  /\ UNCHANGED <<blocks, encoders, sessions>>

(* encoder.wait() has returned and run_encoder accepts another connection. *)
NextConnection ==
  /\ OpenBlocks # {}
  /\ sessions < MaxSessions
  /\ sessions' = sessions + 1
  /\ UNCHANGED <<blocks, encoders, emitted>>

StreamNext ==
  \/ \E id \in BlockId : ReadBlock(id)
  \/ \E p \in PacketsOf(OpenBlocks) : Emit(p)
  \/ NextConnection

StreamSpec == StreamInit /\ [][StreamNext]_streamVars
=============================================================================
