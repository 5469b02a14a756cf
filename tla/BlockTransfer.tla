--------------------------- MODULE BlockTransfer ---------------------------
(***************************************************************************)
(* What the codec promises to those who write blocks to an encoder and     *)
(* read blocks from a decoder: every block that comes out is one that went *)
(* in; the blocks of a lane come out in the order in which they went in;   *)
(* none comes out twice, except that a decoder which takes over from       *)
(* another may put out once more the last block of a lane.  Blocks may be  *)
(* missing, and lanes are not ordered among themselves.                    *)
(***************************************************************************)
EXTENDS Naturals, Sequences

CONSTANT Lanes   \* the lanes that a block may belong to

VARIABLES
  lanes,      \* lanes[b] is the lane of the b-th block written
  delivered,  \* the blocks that came out, each with its decoder
  decoders    \* decoders so far

transferVars == <<lanes, delivered, decoders>>

TransferInit ==
  /\ lanes = << >>
  /\ delivered = << >>
  /\ decoders = 1

Write(lane) ==
  /\ lanes' = Append(lanes, lane)
  /\ UNCHANGED <<delivered, decoders>>

(* d may come out before b, or before b once more.                         *)
MayPrecede(d, b) ==
  \/ lanes[d.block] # lanes[b]
  \/ d.block < b
  \/ d.block = b /\ d.decoder < decoders

Deliver(b) ==
  /\ \A i \in 1 .. Len(delivered) : MayPrecede(delivered[i], b)
  /\ delivered' = Append(delivered, [block |-> b, decoder |-> decoders])
  /\ UNCHANGED <<lanes, decoders>>

NextDecoder ==
  /\ decoders' = decoders + 1
  /\ UNCHANGED <<lanes, delivered>>

TransferNext ==
  \/ \E lane \in Lanes : Write(lane)
  \/ \E b \in 1 .. Len(lanes) : Deliver(b)
  \/ NextDecoder

TransferSpec == TransferInit /\ [][TransferNext]_transferVars
=============================================================================
