---------------------------- MODULE Configuration ----------------------------
(***************************************************************************)
(* How an encoder and a decoder that are given the same block size and     *)
(* packet size check them.  run_encoder looks at them once before it       *)
(* listens, to compute the number of repair packets, and each Encoder      *)
(* again when it starts; run_decoder leaves everything to the Decoder.     *)
(*                                                                         *)
(* The size of a symbol, which the raptorq crate derives from the packet   *)
(* size, is an input.  An integer type is the number of its values.  The   *)
(* command line accepts a block size of 0, and nothing in this code        *)
(* refuses it.                                                             *)
(***************************************************************************)
EXTENDS Naturals

CONSTANTS
  MaxBlockSize,   \* bound on the block size
  SymbolSizes,    \* symbol sizes to consider
  Redundancies,   \* redundancy factors to consider, in percent
  CountValues,    \* values of the type of symbol_count: 2^16 in the code
  ProductValues   \* of num_source_symbols * redundancy_factor: 2^32

ASSUME ConfigurationAssumption ==
  /\ MaxBlockSize \in Nat
  /\ SymbolSizes \subseteq Nat \ {0}
  /\ Redundancies \subseteq Nat
  /\ CountValues \in Nat \ {0}
  /\ ProductValues \in Nat
  /\ CountValues <= ProductValues

VARIABLES
  block_size, symbol_size, redundancy,   \* from the command lines
  repair_packets_per_block,              \* what run_encoder computes
  encoder,   \* "new", "listening", "started", "refused", "refused_late"
  decoder    \* "listening", "started", "refused"

args == <<block_size, symbol_size, redundancy>>
vars == <<args, repair_packets_per_block, encoder, decoder>>

Symbols == block_size \div symbol_size

(* get_configuration: block_size.is_multiple_of(symbol_size).              *)
ConfigurationIsValid == block_size % symbol_size = 0

(* BlockEncoder::new: the number of symbols must also fit in a u16.        *)
BlockEncoderIsValid == ConfigurationIsValid /\ Symbols < CountValues

(* BlockDecoder::new.                                                      *)
BlockDecoderIsValid == ConfigurationIsValid

(* Mutant: the packet size is computed from the configuration alone.       *)
PacketSizeFromConfiguration == ConfigurationIsValid

(* infer_packet_size: a BlockEncoder, made to encode a dummy block with    *)
(* one repair packet, always yields a packet.                              *)
PacketSizeIsKnown == BlockEncoderIsValid

(* Mutant: the division is rounded down.                                   *)
RepairPacketsRoundedDown == ((Symbols * redundancy) % ProductValues) \div 100

(* (num_source_symbols * redundancy_factor).div_ceil(100), whose product   *)
(* wraps in a release build.                                               *)
RepairPackets == (((Symbols * redundancy) % ProductValues) + 99) \div 100

(* compute_repair_packets_per_block returns Ok.                            *)
RedundancyIsComputed == ConfigurationIsValid /\ Symbols < ProductValues

-----------------------------------------------------------------------------
Init ==
  /\ block_size \in 0 .. MaxBlockSize
  /\ symbol_size \in SymbolSizes
  /\ redundancy \in Redundancies
  /\ repair_packets_per_block = 0
  /\ encoder = "new"
  /\ decoder = "listening"

(* run_encoder up to its loop.                                             *)
EncoderListens ==
  /\ encoder = "new"
  /\ IF RedundancyIsComputed
       THEN /\ repair_packets_per_block' = RepairPackets
            /\ encoder' = "listening"
       ELSE encoder' = "refused" /\ UNCHANGED repair_packets_per_block
  /\ UNCHANGED <<args, decoder>>

(* A connection: start_encoding.                                           *)
EncoderStarts ==
  /\ encoder = "listening"
  /\ encoder' = IF BlockEncoderIsValid THEN "started" ELSE "refused_late"
  /\ UNCHANGED <<args, repair_packets_per_block, decoder>>

(* A connection: start_decoding.                                           *)
DecoderStarts ==
  /\ decoder = "listening"
  /\ decoder' = IF BlockDecoderIsValid /\ PacketSizeIsKnown THEN "started"
                                                            ELSE "refused"
  /\ UNCHANGED <<args, repair_packets_per_block, encoder>>

Terminated ==
  /\ encoder \notin {"new", "listening"}
  /\ decoder # "listening"
  /\ UNCHANGED vars

Next == EncoderListens \/ EncoderStarts \/ DecoderStarts \/ Terminated

Spec == Init /\ [][Next]_vars

-----------------------------------------------------------------------------
(* Given the same arguments an encoder and a decoder both start or are     *)
(* both refused, though they check in different places.                    *)
SidesAgree ==
  encoder \notin {"new", "listening"} /\ decoder # "listening" =>
    (encoder = "started" <=> decoder = "started")

(* "Redundancy factor (percentage of repair packets to generate per        *)
(* block)": the encoder generates at least that percentage of the source   *)
(* packets, and not a packet more than it takes, as long as the product    *)
(* does not exceed its type.  It may: no bound is put on the factor.       *)
RedundancyIsMet ==
  encoder = "started" /\ Symbols * redundancy < ProductValues =>
    /\ repair_packets_per_block * 100 >= Symbols * redundancy
    /\ repair_packets_per_block * 100 < Symbols * redundancy + 100
=============================================================================
