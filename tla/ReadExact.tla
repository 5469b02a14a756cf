----------------------------- MODULE ReadExact -----------------------------
(***************************************************************************)
(* read_exact, called again and again by a dispatcher: the loop over       *)
(* reader.read that fills the buffer of a block or of a packet, and the    *)
(* four ways in which a call of it ends.  What a read returns is left to   *)
(* the modules that extend this one: ByteStream and RawFrames.             *)
(*                                                                         *)
(* The buffer keeps what it held before, as the one that the packet        *)
(* dispatcher uses for every packet does.                                  *)
(***************************************************************************)
EXTENDS Naturals, Sequences

CONSTANT Size   \* bytes of the buffer: block_size or packet_size

ASSUME SizeAssumption == Size \in Nat \ {0}

VARIABLES
  buffer,       \* the whole buffer
  filled,       \* how much of it the running call has filled
  units,        \* the buffers that were returned full, in order
  should_stop,  \* the flag
  reader        \* "reading", "eof", "interrupted" or "failed"

readVars == <<buffer, filled, units, should_stop, reader>>

Index == 1 .. Size
Reading == reader = "reading"

(* The length of the slice that the next read is given.                    *)
Room == Size - filled

ReadTypeOK(Byte) ==
  /\ buffer \in [Index -> Byte]
  /\ filled \in 0 .. Size - 1
  /\ units \in Seq([Index -> Byte])
  /\ should_stop \in BOOLEAN
  /\ reader \in {"reading", "eof", "interrupted", "failed"}

ReadInit(zero) ==
  /\ buffer = [i \in Index |-> zero]
  /\ filled = 0
  /\ units = << >>
  /\ should_stop = FALSE
  /\ reader = "reading"

(* The buffer with chunk[1], ..., chunk[k] behind what is filled.          *)
Fill(chunk, k) ==
  [i \in Index |-> IF filled < i /\ i <= filled + k THEN chunk[i - filled]
                                                    ELSE buffer[i]]

(* Ok(k) with k > 0.  A full buffer is returned and read_exact called      *)
(* again.                                                                  *)
ReadOk(chunk, k) ==
  /\ Reading
  /\ k \in 1 .. Room
  /\ buffer' = Fill(chunk, k)
  /\ IF k = Room
       THEN filled' = 0 /\ units' = Append(units, Fill(chunk, k))
       ELSE filled' = filled + k /\ UNCHANGED units
  /\ UNCHANGED <<should_stop, reader>>

(* Ok(0): UnexpectedEof, since the buffer is not full.                     *)
ReadEof ==
  /\ Reading
  /\ reader' = "eof"
  /\ UNCHANGED <<buffer, filled, units, should_stop>>

(* Mutants: a read that times out starts the buffer anew; the flag is not  *)
(* looked at.                                                              *)
TimeoutRestarts ==
  /\ Reading
  /\ IF should_stop THEN reader' = "interrupted" /\ UNCHANGED filled
                    ELSE filled' = 0 /\ UNCHANGED reader
  /\ UNCHANGED <<buffer, units, should_stop>>
TimeoutResumes == Reading /\ UNCHANGED readVars

(* Interrupted, WouldBlock or TimedOut: filling goes on, unless the flag   *)
(* is set.                                                                 *)
ReadTimesOut ==
  /\ Reading
  /\ reader' = IF should_stop THEN "interrupted" ELSE reader
  /\ UNCHANGED <<buffer, filled, units, should_stop>>

ReadFails ==
  /\ Reading
  /\ reader' = "failed"
  /\ UNCHANGED <<buffer, filled, units, should_stop>>

Stop ==
  /\ ~should_stop
  /\ should_stop' = TRUE
  /\ UNCHANGED <<buffer, filled, units, reader>>
=============================================================================
