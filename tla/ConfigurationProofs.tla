------------------------- MODULE ConfigurationProofs -------------------------
(***************************************************************************)
(* The configuration of the two sides, for all block sizes, symbol sizes   *)
(* and redundancies and all widths of the integers with CountValues <=     *)
(* ProductValues.                                                          *)
(***************************************************************************)
EXTENDS Configuration, TLAPS

USE ConfigurationAssumption

TypeOK ==
  /\ block_size \in Nat
  /\ symbol_size \in Nat \ {0}
  /\ redundancy \in Nat
  /\ repair_packets_per_block \in Nat
  /\ encoder \in {"new", "listening", "started", "refused", "refused_late"}
  /\ decoder \in {"listening", "started", "refused"}

(* What each verdict stands for.  run_encoder refuses before it listens    *)
(* only what a BlockEncoder would refuse as well.                          *)
Verdicts ==
  /\ encoder = "started" => BlockEncoderIsValid
  /\ encoder \in {"refused", "refused_late"} => ~BlockEncoderIsValid
  /\ decoder = "started" => BlockEncoderIsValid
  /\ decoder = "refused" => ~BlockEncoderIsValid

(* The number that run_encoder has computed is still the one for its       *)
(* arguments when an encoder starts with it.                               *)
RepairsComputed ==
  encoder \in {"listening", "started", "refused_late"} =>
    repair_packets_per_block = RepairPackets

Inv == TypeOK /\ Verdicts /\ RepairsComputed

LEMMA SymbolsType == TypeOK => Symbols \in Nat
  BY DEF TypeOK, Symbols

LEMMA RepairPacketsType == TypeOK => RepairPackets \in Nat
<1> SUFFICES ASSUME TypeOK PROVE RepairPackets \in Nat
  OBVIOUS
<1>1. Symbols * redundancy \in Nat
  BY SymbolsType DEF TypeOK
<1>2. (Symbols * redundancy) % ProductValues \in Nat
  BY <1>1
<1> QED
  BY <1>2 DEF RepairPackets

(* Fewer symbols than fit in a u16 also fit in the type of the product.    *)
LEMMA CountFits == TypeOK /\ BlockEncoderIsValid => RedundancyIsComputed
  BY SymbolsType DEF BlockEncoderIsValid, RedundancyIsComputed

LEMMA InvInit == Init => Inv
  BY DEF Init, Inv, TypeOK, Verdicts, RepairsComputed

LEMMA InvNext == Inv /\ [Next]_vars => Inv'
<1> SUFFICES ASSUME Inv, [Next]_vars PROVE Inv'
  OBVIOUS
<1>1. ASSUME UNCHANGED args
      PROVE  /\ BlockEncoderIsValid' = BlockEncoderIsValid
             /\ RepairPackets' = RepairPackets
  BY <1>1 DEF args, BlockEncoderIsValid, ConfigurationIsValid, RepairPackets, Symbols
<1>2. CASE EncoderListens
  <2>1. UNCHANGED args
    BY <1>2 DEF EncoderListens
  <2>2. TypeOK'
    BY <1>2, RepairPacketsType DEF EncoderListens, args, Inv, TypeOK
  <2>3. Verdicts'
    BY <1>1, <1>2, <2>1, CountFits DEF EncoderListens, Inv, Verdicts
  <2> QED
    BY <1>1, <1>2, <2>1, <2>2, <2>3 DEF EncoderListens, Inv, RepairsComputed
<1>3. CASE EncoderStarts
  <2>1. UNCHANGED args
    BY <1>3 DEF EncoderStarts
  <2>2. TypeOK'
    BY <1>3 DEF EncoderStarts, args, Inv, TypeOK
  <2>3. Verdicts'
    BY <1>1, <1>3, <2>1 DEF EncoderStarts, Inv, Verdicts
  <2> QED
    BY <1>1, <1>3, <2>1, <2>2, <2>3 DEF EncoderStarts, Inv, RepairsComputed
<1>4. CASE DecoderStarts
  <2>1. UNCHANGED args
    BY <1>4 DEF DecoderStarts
  <2>2. TypeOK'
    BY <1>4 DEF DecoderStarts, args, Inv, TypeOK
  <2>3. BlockDecoderIsValid /\ PacketSizeIsKnown <=> BlockEncoderIsValid
    BY DEF BlockDecoderIsValid, PacketSizeIsKnown, BlockEncoderIsValid
  <2>4. Verdicts'
    BY <1>1, <1>4, <2>1, <2>3 DEF DecoderStarts, Inv, Verdicts
  <2> QED
    BY <1>1, <1>4, <2>1, <2>2, <2>4 DEF DecoderStarts, Inv, RepairsComputed
<1>5. CASE UNCHANGED vars
  BY <1>1, <1>5 DEF vars, args, Inv, TypeOK, Verdicts, RepairsComputed
<1> QED
  BY <1>2, <1>3, <1>4, <1>5 DEF Next, Terminated

LEMMA InvAlways == Spec => []Inv
  BY InvInit, InvNext, PTL DEF Spec

(* Encoder and decoder never disagree on a configuration: a decoder of     *)
(* packets that no encoder sends is not left waiting, nor the reverse.     *)
THEOREM ConfigurationSidesAgree == Spec => []SidesAgree
<1>1. Inv => SidesAgree
  BY DEF Inv, TypeOK, Verdicts, SidesAgree
<1> QED
  BY <1>1, InvAlways, PTL

(* compute_repair_packets_per_block rounds up, for all sizes and factors   *)
(* whose product fits its type.                                            *)
THEOREM ConfigurationRedundancyIsMet == Spec => []RedundancyIsMet
<1>1. Inv => RedundancyIsMet
  <2> SUFFICES ASSUME Inv, encoder = "started",
                      Symbols * redundancy < ProductValues
               PROVE  /\ repair_packets_per_block * 100 >= Symbols * redundancy
                      /\ repair_packets_per_block * 100 < Symbols * redundancy + 100
    BY DEF RedundancyIsMet
  <2>1. PICK n \in Nat : n = Symbols * redundancy
    BY SymbolsType DEF Inv, TypeOK
  <2>2. n % ProductValues = n
    BY <2>1
  <2>3. repair_packets_per_block = (n + 99) \div 100
    BY <2>1, <2>2 DEF Inv, RepairsComputed, RepairPackets
  <2> HIDE <2>2
  <2>4. repair_packets_per_block * 100 >= n /\ repair_packets_per_block * 100 < n + 100
    BY <2>3
  <2> QED
    BY <2>1, <2>4
<1> QED
  BY <1>1, InvAlways, PTL
=============================================================================
