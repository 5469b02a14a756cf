------------------------------ MODULE RawFrames ------------------------------
(***************************************************************************)
(* read_exact on a raw socket, as the packet dispatcher of a decoder reads *)
(* it.  recvfrom returns one frame per call and discards what does not fit *)
(* in the buffer.  A frame of the codec is at least as long as a packet    *)
(* (the link may pad it), so it fills the buffer by itself; a foreign      *)
(* frame, of a host that shares the link against the advice of the         *)
(* README, may have any length and leave the buffer filled in part.        *)
(*                                                                         *)
(* A byte is the frame it comes from and its position there.               *)
(***************************************************************************)
EXTENDS ReadExact, FiniteSets

CONSTANTS
  CodecLength,     \* length of the frames of the codec
  ForeignLengths,  \* lengths of the other frames
  MaxFrames        \* bound on the frames that come in

ASSUME RawFramesAssumption ==
  /\ CodecLength \in Nat /\ CodecLength >= Size
  /\ ForeignLengths \subseteq Nat \ {0}
  /\ MaxFrames \in Nat

VARIABLES
  frames,   \* the frames that have come in
  taken     \* how many of them recvfrom has returned

frameVars == <<frames, taken>>
vars == <<readVars, frameVars>>

Frame == [codec : {TRUE}, length : {CodecLength}]
           \cup [codec : {FALSE}, length : ForeignLengths]

ByteOf(f, i) == [frame |-> f, at |-> i]
Byte == [frame : Nat, at : Nat]

TypeOK ==
  /\ ReadTypeOK(Byte)
  /\ frames \in Seq(Frame)
  /\ taken \in 0 .. Len(frames)

(* RawSocket::bind has returned the reader.                                *)
Init ==
  /\ ReadInit(ByteOf(0, 0))
  /\ frames = << >>
  /\ taken = 0

FrameComesIn(frame) ==
  /\ Len(frames) < MaxFrames
  /\ frames' = Append(frames, frame)
  /\ UNCHANGED <<readVars, taken>>

(* recvfrom returns the length of the frame or of the buffer, whichever is *)
(* less.                                                                   *)
Received(frame) == IF frame.length < Room THEN frame.length ELSE Room

(* Mutant: what does not fit is kept for the next read, as in a stream.    *)
ReadKeepsRest ==
  /\ taken < Len(frames)
  /\ LET f == taken + 1
         k == Received(frames[f])
     IN  /\ ReadOk([i \in Index |-> ByteOf(f, i)], k)
         /\ IF k < frames[f].length
              THEN /\ frames' = [frames EXCEPT ![f].length = @ - k]
                   /\ UNCHANGED taken
              ELSE taken' = f /\ UNCHANGED frames

Read ==
  /\ taken < Len(frames)
  /\ LET f == taken + 1
     IN  ReadOk([i \in Index |-> ByteOf(f, i)], Received(frames[f]))
  /\ taken' = taken + 1
  /\ UNCHANGED frames

(* The receive timeout of one second, or a signal.                         *)
Interrupt == ReadTimesOut /\ UNCHANGED frameVars

Fail      == ReadFails /\ UNCHANGED frameVars
StopReads == Stop /\ UNCHANGED frameVars

Terminated == ~Reading /\ UNCHANGED vars

Next ==
  \/ \E frame \in Frame : FrameComesIn(frame)
  \/ Read \/ Interrupt \/ Fail \/ StopReads
  \/ Terminated

Spec == Init /\ [][Next]_vars

(* recvfrom returns a frame that is there, and times out when none is.     *)
FairSpec ==
  /\ Spec
  /\ WF_vars(Read)
  /\ WF_vars(taken = Len(frames) /\ Interrupt)

-----------------------------------------------------------------------------
IsForeign(byte) == ~frames[byte.frame].codec
IsWhole(unit, f) == \A i \in Index : unit[i] = ByteOf(f, i)

(* Only a foreign frame keeps the buffer filled in part: whatever has come *)
(* before, the next frame of the codec ends the disturbance.               *)
CodecFrameRealigns == \A i \in 1 .. filled : IsForeign(buffer[i])

(* Whatever the dispatcher is given is one packet of the codec, whole and  *)
(* alone, or holds bytes of a foreign frame: two packets never mix.        *)
PacketsNeverMix ==
  \A u \in 1 .. Len(units) :
    \/ \E f \in 1 .. taken : frames[f].codec /\ IsWhole(units[u], f)
    \/ \E i \in Index : IsForeign(units[u][i])

(* The packets among the frames taken that the dispatcher was not given.   *)
Spoilt ==
  {f \in 1 .. taken : /\ frames[f].codec
                      /\ \A u \in 1 .. Len(units) : ~IsWhole(units[u], f)}

ShortForeign ==
  {f \in 1 .. taken : ~frames[f].codec /\ frames[f].length < Size}

(* A foreign frame costs at most one packet, and one that is as long as a  *)
(* packet costs none.                                                      *)
LossIsBounded == Cardinality(Spoilt) <= Cardinality(ShortForeign)

(* The reader notices the flag once no more frames come in.                *)
StopIsNoticed == should_stop ~> ~Reading
=============================================================================
