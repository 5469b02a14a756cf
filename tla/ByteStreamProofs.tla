-------------------------- MODULE ByteStreamProofs --------------------------
(* Theorems about the reader of a byte stream, for every size of a block   *)
(* and any length of the input.                                            *)
EXTENDS ByteStream, Integers, TLAPS

USE SizeAssumption, MaxBytesAssumption

Buffers == [Index -> 0 .. MaxBytes]

(* The u-th buffer that was returned holds the u-th block of the input.    *)
UnitIsRight(unit, u) == \A i \in Index : unit[i] = (u - 1) * Size + i

UnitsAreRight == \A u \in 1 .. Len(units) : UnitIsRight(units[u], u)

(* The block being read begins where the last one ended.                   *)
FilledIsRight ==
  /\ position = Len(units) * Size + filled
  /\ \A i \in 1 .. filled : buffer[i] = Len(units) * Size + i

(* After the end of the input nothing more comes.                          *)
EofIsFinal == reader = "eof" => closed /\ position = written

Inv == TypeOK /\ UnitsAreRight /\ FilledIsRight /\ EofIsFinal

-----------------------------------------------------------------------------
(* Less than a block behind L blocks does not make another one.            *)
LEMMA WholeBlocks ==
  ASSUME NEW L \in Nat, NEW r \in 0 .. Size - 1
  PROVE  (L * Size + r) \div Size = L
<1> DEFINE q == (L * Size + r) \div Size
<1>1. L * Size + r \in Nat /\ q \in Int
  OBVIOUS
<1>2. q * Size <= L * Size + r /\ L * Size + r < q * Size + Size
  BY <1>1
<1> HIDE DEF q
<1>3. ASSUME q > L PROVE FALSE
  BY <1>1, <1>2, <1>3
<1>4. ASSUME q < L PROVE FALSE
  BY <1>1, <1>2, <1>4
<1> QED
  BY <1>1, <1>3, <1>4 DEF q

(* A read of any size keeps the bytes in their places.                     *)
LEMMA ReadKeepsInv ==
  ASSUME Inv, NEW k \in Index, Read(k)
  PROVE  Inv'
<1> DEFINE chunk == [i \in 1 .. k |-> position + i]
           new == Fill(chunk, k)
           base == Len(units) * Size
<1>1. /\ k <= Available /\ ReadOk(chunk, k) /\ position' = position + k
      /\ UNCHANGED <<written, closed>>
  BY DEF Read
<1>2. /\ buffer \in Buffers /\ units \in Seq(Buffers) /\ filled \in 0 .. Size - 1
      /\ written \in 0 .. MaxBytes /\ position \in 0 .. written
      /\ Len(units) \in Nat
  BY DEF Inv, TypeOK, ReadTypeOK, Buffers
<1>3. base \in Nat /\ (Len(units) + 1) * Size = base + Size
  BY <1>2
<1>4. k \in 1 .. Room /\ Room = Size - filled /\ position + k \in 0 .. written
  BY <1>1, <1>2 DEF ReadOk, Room, Available
<1>5. position = base + filled /\ \A i \in 1 .. filled : buffer[i] = base + i
  BY DEF Inv, FilledIsRight
<1> HIDE DEF base
<1>6. \A i \in 1 .. k : chunk[i] = position + i /\ chunk[i] \in 0 .. MaxBytes
  BY <1>2, <1>4
<1> HIDE DEF chunk
<1>7. /\ new \in Buffers
      /\ \A i \in 1 .. filled + k : new[i] = base + i
  <2>1. \A i \in Index : filled < i /\ i <= filled + k => i - filled \in 1 .. k
    BY <1>2, <1>4 DEF Index
  <2>2. new \in Buffers
    BY <1>2, <1>6, <2>1 DEF Fill, Buffers
  <2>3. ASSUME NEW i \in 1 .. filled + k PROVE new[i] = base + i
    <3>1. i \in Index
      BY <1>2, <1>4 DEF Index
    <3>2. CASE i <= filled
      <4>1. i \in 1 .. filled /\ ~(filled < i)
        BY <1>2, <3>2
      <4>2. new[i] = buffer[i]
        BY <3>1, <4>1 DEF Fill
      <4> QED
        BY <1>5, <4>1, <4>2
    <3>3. CASE filled < i
      <4>1. i <= filled + k /\ i - filled \in 1 .. k
        BY <1>2, <1>4, <3>3 DEF Index
      <4>2. new[i] = chunk[i - filled]
        BY <3>1, <3>3, <4>1 DEF Fill
      <4>3. new[i] = position + (i - filled)
        BY <1>6, <4>1, <4>2
      <4> QED
        BY <1>2, <1>3, <1>5, <4>3
    <3> QED
      BY <1>2, <3>2, <3>3
  <2> QED
    BY <2>2, <2>3
<1> HIDE DEF new
<1>8. /\ buffer' = new /\ should_stop' = should_stop /\ reader' = reader
      /\ reader = "reading"
      /\ k = Room => filled' = 0 /\ units' = Append(units, new)
      /\ k # Room => filled' = filled + k /\ units' = units
  BY <1>1 DEF ReadOk, new, Reading
<1>9. filled' \in 0 .. Size - 1 /\ position' \in 0 .. written'
  BY <1>1, <1>2, <1>4, <1>8
<1>10. units' \in Seq(Buffers)
  <2>1. Append(units, new) \in Seq(Buffers)
    BY <1>2, <1>7
  <2> QED
    BY <1>2, <1>8, <2>1
<1>11. TypeOK'
  BY <1>1, <1>2, <1>7, <1>8, <1>9, <1>10 DEF Inv, TypeOK, ReadTypeOK, Buffers, Index
<1>12. EofIsFinal'
  BY <1>8 DEF EofIsFinal
<1>13. CASE k # Room
  <2>1. FilledIsRight'
    <3>1. position' = base + filled'
      BY <1>1, <1>2, <1>3, <1>4, <1>5, <1>8, <1>13
    <3> QED
      BY <1>7, <1>8, <1>13, <3>1 DEF FilledIsRight, base
  <2>2. UnitsAreRight'
    BY <1>8, <1>13 DEF Inv, UnitsAreRight, UnitIsRight
  <2> QED
    BY <1>11, <1>12, <2>1, <2>2 DEF Inv
<1>14. CASE k = Room
  <2>1. units' = Append(units, new) /\ filled' = 0 /\ filled + k = Size
    BY <1>2, <1>4, <1>8, <1>14
  <2>2. Len(units') = Len(units) + 1
    BY <1>2, <2>1
  <2>3. FilledIsRight'
    <3>1. position' = base + Size
      BY <1>1, <1>2, <1>3, <1>4, <1>5, <2>1
    <3>2. position' = Len(units') * Size + filled'
      BY <1>3, <2>1, <2>2, <3>1
    <3> QED
      BY <2>1, <3>2 DEF FilledIsRight
  <2>4. UnitIsRight(new, Len(units) + 1)
    <3>1. (Len(units) + 1 - 1) * Size = base
      BY <1>2 DEF base
    <3> QED
      BY <1>7, <2>1, <3>1 DEF UnitIsRight, Index
  <2>5. ASSUME NEW u \in 1 .. Len(units') PROVE UnitIsRight(units'[u], u)
    <3>1. CASE u = Len(units) + 1
      <4>1. units'[u] = new
        BY <1>2, <2>1, <3>1
      <4> QED
        BY <2>4, <3>1, <4>1
    <3>2. CASE u # Len(units) + 1
      <4>1. u \in 1 .. Len(units) /\ units'[u] = units[u]
        BY <1>2, <2>1, <2>2, <3>2
      <4> QED
        BY <4>1 DEF Inv, UnitsAreRight
    <3> QED
      BY <3>1, <3>2
  <2>6. UnitsAreRight'
    BY <2>5 DEF UnitsAreRight
  <2> QED
    BY <1>11, <1>12, <2>3, <2>6 DEF Inv
<1> QED
  BY <1>13, <1>14

(* A step that reads nothing.                                              *)
LEMMA NothingReadKeepsInv ==
  ASSUME Inv, UNCHANGED <<buffer, filled, units, position>>,
         written' \in 0 .. MaxBytes, written <= written', closed' \in BOOLEAN,
         should_stop' \in BOOLEAN,
         reader' \in {"reading", "eof", "interrupted", "failed"},
         EofIsFinal'
  PROVE  Inv'
<1>1. position' \in 0 .. written'
  BY DEF Inv, TypeOK
<1>2. TypeOK'
  BY <1>1 DEF Inv, TypeOK, ReadTypeOK
<1> QED
  BY <1>2 DEF Inv, UnitsAreRight, UnitIsRight, FilledIsRight

-----------------------------------------------------------------------------
LEMMA InitInv == Init => Inv
<1> SUFFICES ASSUME Init PROVE Inv
  OBVIOUS
<1>1. /\ buffer = [i \in Index |-> 0] /\ filled = 0 /\ units = << >>
      /\ should_stop = FALSE /\ reader = "reading"
      /\ written = 0 /\ position = 0 /\ closed = FALSE
  BY DEF Init, ReadInit
<1>2. TypeOK
  <2>1. buffer \in [Index -> 0 .. MaxBytes] /\ filled \in 0 .. Size - 1
    BY <1>1
  <2>2. units \in Seq([Index -> 0 .. MaxBytes])
    BY <1>1
  <2>3. written \in 0 .. MaxBytes /\ position \in 0 .. written
    BY <1>1
  <2> QED
    BY <1>1, <2>1, <2>2, <2>3 DEF TypeOK, ReadTypeOK
<1>3. UnitsAreRight /\ EofIsFinal
  BY <1>1 DEF UnitsAreRight, EofIsFinal
<1>4. FilledIsRight
  BY <1>1 DEF FilledIsRight
<1> QED
  BY <1>2, <1>3, <1>4 DEF Inv

LEMMA NextInv == Inv /\ [Next]_vars => Inv'
<1> SUFFICES ASSUME Inv, [Next]_vars PROVE Inv'
  OBVIOUS
<1>1. /\ written \in 0 .. MaxBytes /\ closed \in BOOLEAN /\ should_stop \in BOOLEAN
      /\ reader \in {"reading", "eof", "interrupted", "failed"} /\ EofIsFinal
  BY DEF Inv, TypeOK, ReadTypeOK
<1>2. CASE PeerWrites
  <2>1. /\ written' = written + 1 /\ written < MaxBytes /\ ~closed
        /\ UNCHANGED <<buffer, filled, units, should_stop, reader, position, closed>>
    BY <1>2 DEF PeerWrites, readVars
  <2>2. EofIsFinal'
    BY <1>1, <2>1 DEF EofIsFinal
  <2>3. written' \in 0 .. MaxBytes /\ written <= written'
    BY <1>1, <2>1
  <2> QED
    BY <1>1, <2>1, <2>2, <2>3, NothingReadKeepsInv
<1>3. CASE PeerCloses
  BY <1>1, <1>3, NothingReadKeepsInv DEF PeerCloses, readVars, EofIsFinal
<1>4. ASSUME NEW k \in Index, Read(k) PROVE Inv'
  BY <1>4, ReadKeepsInv
<1>5. CASE ReadEnds
  BY <1>1, <1>5, NothingReadKeepsInv DEF ReadEnds, ReadEof, streamVars, EofIsFinal
<1>6. CASE Interrupt
  BY <1>1, <1>6, NothingReadKeepsInv
     DEF Interrupt, ReadTimesOut, Reading, streamVars, EofIsFinal
<1>7. CASE Fail
  BY <1>1, <1>7, NothingReadKeepsInv DEF Fail, ReadFails, streamVars, EofIsFinal
<1>8. CASE StopReads
  BY <1>1, <1>8, NothingReadKeepsInv DEF StopReads, Stop, streamVars, EofIsFinal
<1>9. CASE UNCHANGED vars
  BY <1>1, <1>9, NothingReadKeepsInv DEF vars, readVars, streamVars, EofIsFinal
<1> QED
  BY <1>2, <1>3, <1>4, <1>5, <1>6, <1>7, <1>8, <1>9 DEF Next, Terminated

LEMMA SpecInv == Spec => []Inv
  BY InitInv, NextInv, PTL DEF Spec

-----------------------------------------------------------------------------
(* Types; what is filled is always less than a block.                      *)
THEOREM ByteStreamTypeOK == Spec => []TypeOK
<1>1. Inv => TypeOK
  BY DEF Inv
<1> QED
  BY <1>1, SpecInv, PTL

(* read_exact cuts the input into consecutive blocks and drops less than   *)
(* one at its end, whatever the sizes of the reads and the interruptions.  *)
THEOREM ByteStreamBlocksPartitionInput == Spec => []BlocksPartitionInput
<1>1. ASSUME Inv PROVE BlocksPartitionInput
  <2>1. /\ Len(units) \in Nat /\ filled \in 0 .. Size - 1
        /\ position = Len(units) * Size + filled
        /\ reader = "eof" => position = written
    BY <1>1 DEF Inv, TypeOK, ReadTypeOK, FilledIsRight, EofIsFinal
  <2>2. reader = "eof" => Len(units) = written \div Size
    BY <2>1, WholeBlocks
  <2> QED
    BY <1>1, <2>2 DEF Inv, UnitsAreRight, UnitIsRight, FilledIsRight,
                      BlocksPartitionInput
<1> QED
  BY <1>1, SpecInv, PTL
=============================================================================
