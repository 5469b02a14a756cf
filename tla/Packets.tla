------------------------------ MODULE Packets ------------------------------
(***************************************************************************)
(* What travels between the encoder and the decoder.                       *)
(*                                                                         *)
(* A block is known by its position b in the stream of blocks that was     *)
(* read (1, 2, 3, ...): its content is never looked at, only compared.     *)
(* The id it carries is a u8 and wraps, so two blocks may share an id; the *)
(* position is what tells them apart in the properties.                    *)
(***************************************************************************)
EXTENDS Naturals, Sequences

CONSTANTS
  BlockIds,          \* number of block ids: 256 in the code, ids are u8
  PacketsPerBlock    \* source packets plus repair packets of one block

ASSUME PacketsAssumption ==
  /\ BlockIds \in Nat \ {0}
  /\ PacketsPerBlock \in Nat \ {0}

BlockId == 0 .. BlockIds - 1

(* u8::wrapping_add(1) on a block id. *)
NextId(id) == (id + 1) % BlockIds

(* The idx-th packet that BlockEncoder::encode yields for block b. *)
Packet(b, idx) == [block |-> b, idx |-> idx]

PacketsOf(B) == [block : B, idx : 1 .. PacketsPerBlock]

(* The queue, among n, that a dispatcher chooses for a block id. *)
Lane(id, n) == id % n

(* Order in which one block encoder thread produces its packets. *)
Precedes(p, q) ==
  \/ p.block < q.block
  \/ p.block = q.block /\ p.idx < q.idx
=============================================================================
