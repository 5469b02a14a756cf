--------------------------- MODULE RawFramesProofs ---------------------------
(* Theorems about the reader of a raw socket, for every size of a packet,  *)
(* every length of a frame and any number of frames.                       *)
EXTENDS RawFrames, FiniteSetTheorems, TLAPS

USE SizeAssumption, RawFramesAssumption

(* A byte of a foreign frame among the first n of fs.                      *)
ForeignIn(byte, fs, n) == byte.frame \in 1 .. n /\ ~fs[byte.frame].codec

(* One packet of the codec among the first n frames of fs, or partly       *)
(* foreign.                                                                *)
UnitIsRight(unit, fs, n) ==
  \/ \E f \in 1 .. n : fs[f].codec /\ IsWhole(unit, f)
  \/ \E i \in Index : ForeignIn(unit[i], fs, n)

(* What the running call has filled is foreign.                            *)
FilledIsForeign == \A i \in 1 .. filled : ForeignIn(buffer[i], frames, taken)

UnitsAreRight ==
  \A u \in 1 .. Len(units) : UnitIsRight(units[u], frames, taken)

Inv == TypeOK /\ FilledIsForeign /\ UnitsAreRight

-----------------------------------------------------------------------------
(* A frame is not empty, and one of the codec holds a packet.              *)
LEMMA FrameLength ==
  ASSUME NEW frame \in Frame
  PROVE  /\ frame.length \in Nat \ {0}
         /\ frame.codec => frame.length >= Size
<1>1. CASE frame \in [codec : {TRUE}, length : {CodecLength}]
  <2>1. frame.length = CodecLength
    BY <1>1
  <2> QED
    BY <2>1
<1>2. CASE frame \in [codec : {FALSE}, length : ForeignLengths]
  <2>1. frame.length \in ForeignLengths /\ frame.codec = FALSE
    BY <1>2
  <2> QED
    BY <2>1
<1> QED
  BY <1>1, <1>2 DEF Frame

(* A read is given room, and takes some of it; a frame of the codec takes  *)
(* all of it.                                                              *)
LEMMA ReadTakesSome ==
  ASSUME TypeOK, taken < Len(frames)
  PROVE  /\ taken + 1 \in 1 .. Len(frames)
         /\ Room \in 1 .. Size
         /\ Received(frames[taken + 1]) \in 1 .. Room
         /\ frames[taken + 1].codec => Received(frames[taken + 1]) = Room
<1>1. taken + 1 \in 1 .. Len(frames)
  BY DEF TypeOK
<1>2. frames[taken + 1] \in Frame
  BY <1>1 DEF TypeOK
<1>3. /\ frames[taken + 1].length \in Nat \ {0}
      /\ frames[taken + 1].codec => frames[taken + 1].length >= Size
  BY <1>2, FrameLength
<1>4. Room \in 1 .. Size
  BY DEF TypeOK, ReadTypeOK, Room
<1> QED
  BY <1>1, <1>3, <1>4 DEF Received

(* What is right stays right when frames come in or are taken.             *)
LEMMA RightStaysRight ==
  ASSUME NEW fs, NEW fs2, NEW n \in Nat, NEW n2 \in Nat, n <= n2,
         \A f \in 1 .. n : fs2[f] = fs[f]
  PROVE  /\ \A byte : ForeignIn(byte, fs, n) => ForeignIn(byte, fs2, n2)
         /\ \A unit : UnitIsRight(unit, fs, n) => UnitIsRight(unit, fs2, n2)
<1>1. 1 .. n \subseteq 1 .. n2
  OBVIOUS
<1>2. \A byte : ForeignIn(byte, fs, n) => ForeignIn(byte, fs2, n2)
  BY <1>1 DEF ForeignIn
<1>3. ASSUME NEW unit, UnitIsRight(unit, fs, n) PROVE UnitIsRight(unit, fs2, n2)
  <2>1. CASE \E f \in 1 .. n : fs[f].codec /\ IsWhole(unit, f)
    BY <1>1, <2>1 DEF UnitIsRight
  <2>2. CASE \E i \in Index : ForeignIn(unit[i], fs, n)
    BY <1>2, <2>2 DEF UnitIsRight
  <2> QED
    BY <1>3, <2>1, <2>2 DEF UnitIsRight
<1> QED
  BY <1>2, <1>3

(* A step that reads nothing.                                              *)
LEMMA NothingReadKeepsInv ==
  ASSUME Inv, UNCHANGED <<buffer, filled, units, taken>>,
         frames' \in Seq(Frame), Len(frames) <= Len(frames'),
         \A f \in 1 .. taken : frames'[f] = frames[f],
         should_stop' \in BOOLEAN,
         reader' \in {"reading", "eof", "interrupted", "failed"}
  PROVE  Inv'
<1>1. taken \in Nat /\ taken <= Len(frames) /\ Len(frames) \in Nat /\ Len(frames') \in Nat
  BY DEF Inv, TypeOK
<1>2. taken' \in 0 .. Len(frames')
  BY <1>1
<1>3. TypeOK'
  BY <1>2 DEF Inv, TypeOK, ReadTypeOK
<1>4. /\ \A byte : ForeignIn(byte, frames, taken) => ForeignIn(byte, frames', taken')
      /\ \A unit : UnitIsRight(unit, frames, taken) => UnitIsRight(unit, frames', taken')
  BY <1>1, RightStaysRight
<1>5. FilledIsForeign'
  BY <1>4 DEF Inv, FilledIsForeign
<1>6. UnitsAreRight'
  BY <1>4 DEF Inv, UnitsAreRight
<1> QED
  BY <1>3, <1>5, <1>6 DEF Inv

(* A read that fills the buffer returns a right unit: what was filled      *)
(* before is foreign, and if nothing was, all of it is of one frame.  One  *)
(* that does not fill it is of a foreign frame.                            *)
LEMMA ReadKeepsInv ==
  ASSUME Inv, Read
  PROVE  Inv'
<1> DEFINE f == taken + 1
           k == Received(frames[f])
           chunk == [i \in Index |-> ByteOf(f, i)]
           new == Fill(chunk, k)
<1>1. /\ taken < Len(frames) /\ ReadOk(chunk, k)
      /\ taken' = f /\ frames' = frames
  BY DEF Read
<1>2. TypeOK
  BY DEF Inv
<1>3. /\ f \in 1 .. Len(frames) /\ Room \in 1 .. Size /\ k \in 1 .. Room
      /\ frames[f].codec => k = Room
  BY <1>1, <1>2, ReadTakesSome
<1>4. /\ filled \in 0 .. Size - 1 /\ Room = Size - filled
      /\ taken \in Nat /\ f = taken + 1 /\ Len(frames) \in Nat
  BY <1>2 DEF TypeOK, ReadTypeOK, Room
<1>5. buffer \in [Index -> Byte] /\ units \in Seq([Index -> Byte])
  BY <1>2 DEF TypeOK, ReadTypeOK
<1> HIDE DEF k, f
<1>6. /\ chunk \in [Index -> Byte]
      /\ \A i \in Index : chunk[i] = ByteOf(f, i) /\ chunk[i].frame = f
  BY <1>3, <1>4 DEF Byte, ByteOf, Index
<1> HIDE DEF chunk
<1>7. /\ new \in [Index -> Byte]
      /\ \A i \in Index : filled < i /\ i <= filled + k => new[i] = chunk[i - filled]
      /\ \A i \in 1 .. filled : new[i] = buffer[i]
  <2>1. \A i \in Index : filled < i /\ i <= filled + k => i - filled \in Index
    BY <1>3, <1>4 DEF Index
  <2>2. 1 .. filled \subseteq Index
    BY <1>4 DEF Index
  <2>3. \A i \in 1 .. filled : ~(filled < i)
    BY <1>4
  <2> QED
    BY <1>5, <1>6, <2>1, <2>2, <2>3 DEF Fill
<1> HIDE DEF new
<1>8. /\ buffer' = new /\ should_stop' = should_stop /\ reader' = reader
      /\ k = Room => filled' = 0 /\ units' = Append(units, new)
      /\ k # Room => filled' = filled + k /\ units' = units
  BY <1>1 DEF ReadOk, new
<1>9. taken' \in 0 .. Len(frames') /\ filled' \in 0 .. Size - 1
  BY <1>1, <1>3, <1>4, <1>8
<1>10. TypeOK'
  <2>1. units' \in Seq([Index -> Byte])
    <3> DEFINE Buffers == [Index -> Byte]
    <3>1. units \in Seq(Buffers) /\ new \in Buffers
      BY <1>5, <1>7
    <3> HIDE DEF Buffers
    <3>2. Append(units, new) \in Seq(Buffers)
      BY <3>1
    <3>3. units' \in Seq(Buffers)
      BY <1>8, <3>1, <3>2
    <3> QED
      BY <3>3 DEF Buffers
  <2>2. ReadTypeOK(Byte)'
    BY <1>2, <1>7, <1>8, <1>9, <2>1 DEF TypeOK, ReadTypeOK, Index, Byte
  <2> QED
    BY <1>1, <1>2, <1>9, <2>2 DEF TypeOK
<1>11. /\ \A byte : ForeignIn(byte, frames, taken) => ForeignIn(byte, frames', taken')
       /\ \A unit : UnitIsRight(unit, frames, taken) => UnitIsRight(unit, frames', taken')
  BY <1>1, <1>3, <1>4, RightStaysRight
<1>12. \A i \in 1 .. filled : ForeignIn(new[i], frames', taken')
  BY <1>7, <1>11 DEF Inv, FilledIsForeign
<1>13. FilledIsForeign'
  <2>1. CASE k = Room
    BY <1>8, <2>1 DEF FilledIsForeign
  <2>2. CASE k # Room
    <3> SUFFICES ASSUME NEW i \in 1 .. filled + k
                 PROVE  ForeignIn(new[i], frames', taken')
      BY <1>8, <2>2 DEF FilledIsForeign
    <3>1. CASE i \in 1 .. filled
      BY <1>12, <3>1
    <3>2. CASE i \notin 1 .. filled
      <4>1. i \in Index /\ i - filled \in Index /\ filled < i /\ i <= filled + k
        BY <1>3, <1>4, <3>2 DEF Index
      <4>2. new[i].frame = f
        BY <1>6, <1>7, <4>1
      <4>3. ~frames[f].codec /\ f \in 1 .. taken'
        BY <1>1, <1>3, <1>4, <2>2
      <4> QED
        BY <1>1, <4>2, <4>3 DEF ForeignIn
    <3> QED
      BY <3>1, <3>2
  <2> QED
    BY <2>1, <2>2
<1>14. ASSUME k = Room PROVE UnitIsRight(new, frames', taken')
  <2>1. CASE filled > 0
    <3>1. 1 \in 1 .. filled /\ 1 \in Index
      BY <1>4, <2>1 DEF Index
    <3> QED
      BY <1>12, <3>1 DEF UnitIsRight
  <2>2. CASE filled = 0
    <3>1. \A i \in Index : new[i] = ByteOf(f, i) /\ new[i].frame = f
      <4> SUFFICES ASSUME NEW i \in Index
                   PROVE  new[i] = ByteOf(f, i) /\ new[i].frame = f
        OBVIOUS
      <4>1. filled < i /\ i <= filled + k /\ i - filled = i
        BY <1>4, <1>14, <2>2 DEF Index
      <4> QED
        BY <1>6, <1>7, <4>1
    <3>2. f \in 1 .. taken' /\ 1 \in Index
      BY <1>1, <1>3, <1>4 DEF Index
    <3>3. CASE frames[f].codec
      BY <1>1, <3>1, <3>2, <3>3 DEF UnitIsRight, IsWhole
    <3>4. CASE ~frames[f].codec
      BY <1>1, <3>1, <3>2, <3>4 DEF UnitIsRight, ForeignIn
    <3> QED
      BY <3>3, <3>4
  <2> QED
    BY <1>4, <2>1, <2>2
<1>15. UnitsAreRight'
  <2>1. \A u \in 1 .. Len(units) : UnitIsRight(units[u], frames', taken')
    BY <1>11 DEF Inv, UnitsAreRight
  <2>2. CASE k # Room
    BY <1>8, <2>1, <2>2 DEF UnitsAreRight
  <2>3. CASE k = Room
    <3>1. units' = Append(units, new) /\ UnitIsRight(new, frames', taken')
      BY <1>8, <1>14, <2>3
    <3>2. ASSUME NEW u \in 1 .. Len(units')
          PROVE  \/ u \in 1 .. Len(units) /\ units'[u] = units[u]
                 \/ units'[u] = new
      BY <1>5, <1>7, <3>1
    <3> QED
      BY <2>1, <3>1, <3>2 DEF UnitsAreRight
  <2> QED
    BY <2>2, <2>3
<1> QED
  BY <1>10, <1>13, <1>15 DEF Inv

-----------------------------------------------------------------------------
LEMMA InitInv == Init => Inv
<1> SUFFICES ASSUME Init PROVE Inv
  OBVIOUS
<1>1. /\ buffer = [i \in Index |-> ByteOf(0, 0)] /\ filled = 0 /\ units = << >>
      /\ should_stop = FALSE /\ reader = "reading" /\ frames = << >> /\ taken = 0
  BY DEF Init, ReadInit
<1>2. ByteOf(0, 0) \in Byte
  BY DEF ByteOf, Byte
<1>3. TypeOK
  <2>1. buffer \in [Index -> Byte] /\ filled \in 0 .. Size - 1
    BY <1>1, <1>2
  <2>2. units \in Seq([Index -> Byte]) /\ frames \in Seq(Frame)
    BY <1>1
  <2>3. taken \in 0 .. Len(frames)
    BY <1>1
  <2> QED
    BY <1>1, <2>1, <2>2, <2>3 DEF TypeOK, ReadTypeOK
<1>4. FilledIsForeign /\ UnitsAreRight
  BY <1>1 DEF FilledIsForeign, UnitsAreRight
<1> QED
  BY <1>3, <1>4 DEF Inv

LEMMA NextInv == Inv /\ [Next]_vars => Inv'
<1> SUFFICES ASSUME Inv, [Next]_vars PROVE Inv'
  OBVIOUS
<1>1. /\ frames \in Seq(Frame) /\ Len(frames) \in Nat /\ taken \in 0 .. Len(frames)
      /\ should_stop \in BOOLEAN
      /\ reader \in {"reading", "eof", "interrupted", "failed"}
  BY DEF Inv, TypeOK, ReadTypeOK
<1>2. ASSUME NEW frame \in Frame, FrameComesIn(frame) PROVE Inv'
  <2>1. /\ frames' = Append(frames, frame)
        /\ UNCHANGED <<buffer, filled, units, taken, should_stop, reader>>
    BY <1>2 DEF FrameComesIn, readVars
  <2>2. /\ frames' \in Seq(Frame) /\ Len(frames) <= Len(frames')
        /\ \A f \in 1 .. taken : frames'[f] = frames[f]
    BY <1>1, <2>1
  <2> QED
    BY <1>1, <2>1, <2>2, NothingReadKeepsInv
<1>3. CASE Read
  BY <1>3, ReadKeepsInv
<1>4. CASE Interrupt
  BY <1>1, <1>4, NothingReadKeepsInv DEF Interrupt, ReadTimesOut, frameVars
<1>5. CASE Fail
  BY <1>1, <1>5, NothingReadKeepsInv DEF Fail, ReadFails, frameVars
<1>6. CASE StopReads
  BY <1>1, <1>6, NothingReadKeepsInv DEF StopReads, Stop, frameVars
<1>7. CASE UNCHANGED vars
  BY <1>1, <1>7, NothingReadKeepsInv DEF vars, readVars, frameVars
<1> QED
  BY <1>2, <1>3, <1>4, <1>5, <1>6, <1>7 DEF Next, Terminated

LEMMA SpecInv == Spec => []Inv
  BY InitInv, NextInv, PTL DEF Spec

-----------------------------------------------------------------------------
(* Types, the bound of what is filled included.                            *)
THEOREM RawFramesTypeOK == Spec => []TypeOK
<1>1. Inv => TypeOK
  BY DEF Inv
<1> QED
  BY <1>1, SpecInv, PTL

(* Only foreign frames keep read_exact out of step: whatever was received  *)
(* before, the next frame of the codec brings it back.                     *)
THEOREM RawFramesCodecFrameRealigns == Spec => []CodecFrameRealigns
<1>1. Inv => CodecFrameRealigns
  BY DEF Inv, FilledIsForeign, ForeignIn, CodecFrameRealigns, IsForeign
<1> QED
  BY <1>1, SpecInv, PTL

(* What read_exact returns is a packet, whole and alone, or holds bytes of *)
(* a foreign frame.                                                        *)
THEOREM RawFramesPacketsNeverMix == Spec => []PacketsNeverMix
<1>1. Inv => PacketsNeverMix
  BY DEF Inv, UnitsAreRight, UnitIsRight, ForeignIn, PacketsNeverMix, IsForeign
<1> QED
  BY <1>1, SpecInv, PTL

-----------------------------------------------------------------------------
(* The loss.  Spoilt and ShortForeign as functions of the frames, how many *)
(* of them were taken and what was returned.                               *)
SpoiltIn(fs, m, us) ==
  {f \in 1 .. m : fs[f].codec /\ \A u \in 1 .. Len(us) : ~IsWhole(us[u], f)}

ShortIn(fs, m) == {f \in 1 .. m : ~fs[f].codec /\ fs[f].length < Size}

(* A buffer that is filled in part owes one packet, to the foreign frame   *)
(* that began to fill it.                                                  *)
Owed == IF filled = 0 THEN 0 ELSE 1

LossOwed ==
  Cardinality(SpoiltIn(frames, taken, units)) + Owed
    <= Cardinality(ShortIn(frames, taken))

LEMMA LossIsFinite ==
  ASSUME NEW fs, NEW m \in Nat, NEW us
  PROVE  /\ IsFiniteSet(SpoiltIn(fs, m, us)) /\ IsFiniteSet(ShortIn(fs, m))
         /\ Cardinality(SpoiltIn(fs, m, us)) \in Nat
         /\ Cardinality(ShortIn(fs, m)) \in Nat
<1>1. IsFiniteSet(1 .. m)
  BY FS_Interval
<1>2. SpoiltIn(fs, m, us) \in SUBSET (1 .. m) /\ ShortIn(fs, m) \in SUBSET (1 .. m)
  BY DEF SpoiltIn, ShortIn
<1>3. IsFiniteSet(SpoiltIn(fs, m, us)) /\ IsFiniteSet(ShortIn(fs, m))
  BY <1>1, <1>2, FS_Subset
<1> QED
  BY <1>3, FS_CardinalityType

(* Neither set changes while no frame is taken.                            *)
LEMMA NothingReadKeepsLoss ==
  ASSUME Inv, LossOwed, UNCHANGED <<filled, units, taken>>,
         \A f \in 1 .. taken : frames'[f] = frames[f]
  PROVE  LossOwed'
<1>1. /\ SpoiltIn(frames', taken, units) = SpoiltIn(frames, taken, units)
      /\ ShortIn(frames', taken) = ShortIn(frames, taken)
  BY DEF SpoiltIn, ShortIn
<1> QED
  BY <1>1 DEF LossOwed, Owed

(* What one read does: a frame of the codec, or any that is as long as a   *)
(* packet, ends the call of read_exact, and a frame of the codec that      *)
(* comes first in the buffer is returned whole.                            *)
LEMMA ReadEffect ==
  ASSUME Inv, Read
  PROVE  /\ taken + 1 \in 1 .. Len(frames) /\ taken' = taken + 1 /\ frames' = frames
         /\ \A u \in 1 .. Len(units) :
              u \in 1 .. Len(units') /\ units'[u] = units[u]
         /\ frames[taken + 1].length >= Size => filled' = 0
         /\ frames[taken + 1].codec /\ filled = 0 =>
              \E u \in 1 .. Len(units') : IsWhole(units'[u], taken + 1)
<1> DEFINE f == taken + 1
           k == Received(frames[f])
           chunk == [i \in Index |-> ByteOf(f, i)]
           new == Fill(chunk, k)
           Buffers == [Index -> Byte]
<1>1. /\ taken < Len(frames) /\ ReadOk(chunk, k)
      /\ taken' = f /\ frames' = frames
  BY DEF Read
<1>2. TypeOK
  BY DEF Inv
<1>3. /\ f \in 1 .. Len(frames) /\ Room \in 1 .. Size
      /\ frames[f].codec => k = Room
  BY <1>1, <1>2, ReadTakesSome
<1>4. filled \in 0 .. Size - 1 /\ Room = Size - filled /\ units \in Seq(Buffers)
  BY <1>2 DEF TypeOK, ReadTypeOK, Room
<1>5. frames[f].length \in Nat
  BY <1>2, <1>3, FrameLength DEF TypeOK
<1>6. frames[f].length >= Size => k = Room
  BY <1>3, <1>4, <1>5 DEF Received
<1>7. new \in Buffers
  <2>1. buffer \in [Index -> Byte] /\ taken \in Nat /\ \A i \in Index : i \in Nat
    BY <1>2 DEF TypeOK, ReadTypeOK, Index
  <2>2. chunk \in [Index -> Byte]
    BY <2>1 DEF Byte, ByteOf
  <2>3. k \in 1 .. Room
    BY <1>1 DEF ReadOk
  <2> HIDE DEF chunk, k
  <2>4. \A i \in Index : filled < i /\ i <= filled + k => i - filled \in Index
    BY <1>3, <1>4, <2>3 DEF Index
  <2> QED
    BY <2>1, <2>2, <2>4 DEF Fill
<1>8. filled = 0 /\ k = Room => IsWhole(new, f)
  <2> SUFFICES ASSUME filled = 0, k = Room, NEW i \in Index PROVE new[i] = ByteOf(f, i)
    BY DEF IsWhole
  <2>1. filled < i /\ i <= filled + k /\ i - filled = i
    BY <1>4 DEF Index
  <2> QED
    BY <2>1 DEF Fill
<1>9. /\ k = Room => filled' = 0 /\ units' = Append(units, new)
      /\ k # Room => units' = units
  BY <1>1 DEF ReadOk
<1> HIDE DEF f, k, chunk, new, Buffers
<1>10. \A u \in 1 .. Len(units) : u \in 1 .. Len(units') /\ units'[u] = units[u]
  BY <1>4, <1>7, <1>9
<1>11. ASSUME k = Room, filled = 0
       PROVE  \E u \in 1 .. Len(units') : IsWhole(units'[u], f)
  <2>1. Len(units') \in 1 .. Len(units') /\ units'[Len(units')] = new
    BY <1>4, <1>7, <1>9, <1>11
  <2> QED
    BY <1>8, <1>11, <2>1
<1> QED
  BY <1>1, <1>3, <1>6, <1>9, <1>10, <1>11 DEF f

(* The frame that is taken is spoilt only if the buffer was filled in part,*)
(* and only a short foreign frame leaves it so.                            *)
LEMMA ReadKeepsLoss ==
  ASSUME Inv, LossOwed, Read PROVE LossOwed'
<1> DEFINE f == taken + 1
           S == SpoiltIn(frames, taken, units)
           S2 == SpoiltIn(frames', taken', units')
           F == ShortIn(frames, taken)
           F2 == ShortIn(frames', taken')
<1>1. taken \in Nat /\ filled \in Nat /\ frames \in Seq(Frame) /\ filled' \in Nat
  BY ReadKeepsInv DEF Inv, TypeOK, ReadTypeOK
<1>2. /\ IsFiniteSet(S) /\ IsFiniteSet(F) /\ IsFiniteSet(S2) /\ IsFiniteSet(F2)
      /\ Cardinality(S) \in Nat /\ Cardinality(F) \in Nat
      /\ Cardinality(S2) \in Nat /\ Cardinality(F2) \in Nat
  <2>1. taken' \in Nat
    BY <1>1, ReadEffect
  <2> QED
    BY <1>1, <2>1, LossIsFinite
<1>3. /\ f \in 1 .. Len(frames) /\ taken' = f /\ frames' = frames
      /\ 1 .. f = (1 .. taken) \cup {f} /\ f \notin 1 .. taken
  BY <1>1, ReadEffect
<1>4. S2 \subseteq S \cup {f}
  BY <1>3, ReadEffect DEF SpoiltIn
<1>5. frames[f].codec /\ filled = 0 => f \notin S2
  BY <1>3, ReadEffect DEF SpoiltIn
<1>6. ~frames[f].codec => f \notin S2
  BY <1>3 DEF SpoiltIn
<1>7. frames[f].length \in Nat /\ (frames[f].codec => frames[f].length >= Size)
  BY <1>1, <1>3, FrameLength
<1>8. F \subseteq F2
  BY <1>3 DEF ShortIn
<1>9. ~frames[f].codec /\ frames[f].length < Size => F2 = F \cup {f} /\ f \notin F
  BY <1>3 DEF ShortIn
<1>10. frames[f].length >= Size => filled' = 0
  BY ReadEffect
<1>11. Cardinality(S) + Owed <= Cardinality(F)
  BY DEF LossOwed
<1>12. Owed = 0 \/ (Owed = 1 /\ filled # 0)
  BY DEF Owed
<1>13. Owed' = 0 \/ (Owed' = 1 /\ filled' # 0)
  BY DEF Owed
<1> SUFFICES Cardinality(S2) + Owed' <= Cardinality(F2)
  BY DEF LossOwed
<1>14. S2 \in SUBSET (S \cup {f}) /\ F \in SUBSET F2
  BY <1>4, <1>8
<1>15. f \notin S2 => S2 \in SUBSET S
  BY <1>4
<1> HIDE DEF S, S2, F, F2, f
<1>16. f \notin S2 => Cardinality(S2) <= Cardinality(S)
  BY <1>2, <1>15, FS_Subset
<1>17. Cardinality(S2) <= Cardinality(S) + 1
  <2>0. /\ IsFiniteSet(S \cup {f})
        /\ Cardinality(S \cup {f}) = IF f \in S THEN Cardinality(S) ELSE Cardinality(S) + 1
    BY <1>2, FS_AddElement
  <2>1. /\ IsFiniteSet(S \cup {f}) /\ Cardinality(S \cup {f}) <= Cardinality(S) + 1
        /\ Cardinality(S \cup {f}) \in Nat
    BY <1>2, <2>0
  <2>2. Cardinality(S2) <= Cardinality(S \cup {f})
    BY <1>14, <2>1, FS_Subset
  <2> QED
    BY <1>2, <2>1, <2>2
<1>18. Cardinality(F) <= Cardinality(F2)
  BY <1>2, <1>14, FS_Subset
<1>19. CASE frames[f].codec
  BY <1>2, <1>5, <1>7, <1>10, <1>11, <1>12, <1>13, <1>16, <1>17, <1>18, <1>19 DEF Owed
<1>20. CASE ~frames[f].codec /\ frames[f].length >= Size
  BY <1>2, <1>6, <1>10, <1>11, <1>12, <1>13, <1>16, <1>18, <1>20
<1>21. CASE ~frames[f].codec /\ frames[f].length < Size
  <2>1. Cardinality(F2) = Cardinality(F) + 1
    BY <1>2, <1>9, <1>21, FS_AddElement
  <2> QED
    BY <1>2, <1>6, <1>11, <1>12, <1>13, <1>16, <1>21, <2>1
<1> QED
  BY <1>7, <1>19, <1>20, <1>21

(* A foreign frame costs at most one packet and one that is as long as a   *)
(* packet costs none, for every mix of frames, every packet size and any   *)
(* timeouts in between.                                                    *)
THEOREM RawFramesLossIsBounded == Spec => []LossIsBounded
<1>1. Init => LossOwed
  <2> SUFFICES ASSUME Init PROVE LossOwed
    OBVIOUS
  <2>1. filled = 0 /\ taken = 0
    BY DEF Init, ReadInit
  <2>2. SpoiltIn(frames, taken, units) = {} /\ ShortIn(frames, taken) = {}
    BY <2>1 DEF SpoiltIn, ShortIn
  <2> QED
    BY <2>1, <2>2, FS_EmptySet DEF LossOwed, Owed
<1>2. Inv /\ LossOwed /\ [Next]_vars => LossOwed'
  <2> SUFFICES ASSUME Inv, LossOwed, [Next]_vars PROVE LossOwed'
    OBVIOUS
  <2>1. frames \in Seq(Frame) /\ taken \in 0 .. Len(frames)
    BY DEF Inv, TypeOK
  <2>2. ASSUME NEW frame \in Frame, FrameComesIn(frame) PROVE LossOwed'
    <3>1. \A f \in 1 .. taken : frames'[f] = frames[f]
      BY <2>1, <2>2 DEF FrameComesIn
    <3> QED
      BY <2>2, <3>1, NothingReadKeepsLoss DEF FrameComesIn, readVars
  <2>3. CASE Read
    BY <2>3, ReadKeepsLoss
  <2>4. CASE Interrupt \/ Fail \/ StopReads \/ UNCHANGED vars
    BY <2>4, NothingReadKeepsLoss
    DEF Interrupt, ReadTimesOut, Fail, ReadFails, StopReads, Stop, vars, readVars, frameVars
  <2> QED
    BY <2>2, <2>3, <2>4 DEF Next, Terminated
<1>3. Inv /\ LossOwed => LossIsBounded
  <2> SUFFICES ASSUME Inv, LossOwed PROVE LossIsBounded
    OBVIOUS
  <2>1. taken \in Nat
    BY DEF Inv, TypeOK
  <2>2. Spoilt = SpoiltIn(frames, taken, units) /\ ShortForeign = ShortIn(frames, taken)
    BY DEF Spoilt, SpoiltIn, ShortForeign, ShortIn
  <2>3. Cardinality(Spoilt) \in Nat /\ Cardinality(ShortForeign) \in Nat
    BY <2>1, <2>2, LossIsFinite
  <2> QED
    BY <2>2, <2>3 DEF LossOwed, Owed, LossIsBounded
<1> QED
  BY <1>1, <1>2, <1>3, SpecInv, PTL DEF Spec
=============================================================================
