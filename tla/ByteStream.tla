----------------------------- MODULE ByteStream -----------------------------
(***************************************************************************)
(* read_exact on a stream of bytes (stdin, TCP, Unix socket), as the block *)
(* dispatcher of an encoder reads it.  A byte is its position in the       *)
(* stream; a read returns any part of what has come, and may be            *)
(* interrupted or time out at any point of a block.                        *)
(***************************************************************************)
EXTENDS ReadExact

CONSTANT MaxBytes   \* bound on the bytes that the peer writes

ASSUME MaxBytesAssumption == MaxBytes \in Nat

VARIABLES
  written,   \* bytes the peer has written
  position,  \* bytes that were read
  closed     \* the peer has closed its end

streamVars == <<written, position, closed>>
vars == <<readVars, streamVars>>

TypeOK ==
  /\ ReadTypeOK(0 .. MaxBytes)
  /\ written \in 0 .. MaxBytes
  /\ position \in 0 .. written
  /\ closed \in BOOLEAN

Init ==
  /\ ReadInit(0)
  /\ written = 0
  /\ position = 0
  /\ closed = FALSE

PeerWrites ==
  /\ ~closed
  /\ written < MaxBytes
  /\ written' = written + 1
  /\ UNCHANGED <<readVars, position, closed>>

PeerCloses ==
  /\ ~closed
  /\ closed' = TRUE
  /\ UNCHANGED <<readVars, written, position>>

(* Mutant: the last byte is held back until another one follows.           *)
AvailableBehindLast == written - position - (IF closed THEN 0 ELSE 1)

Available == written - position

Read(k) ==
  /\ k <= Available
  /\ ReadOk([i \in 1 .. k |-> position + i], k)
  /\ position' = position + k
  /\ UNCHANGED <<written, closed>>

ReadEnds == closed /\ position = written /\ ReadEof /\ UNCHANGED streamVars
Interrupt == ReadTimesOut /\ UNCHANGED streamVars
Fail      == ReadFails /\ UNCHANGED streamVars
StopReads == Stop /\ UNCHANGED streamVars

Terminated == ~Reading /\ UNCHANGED vars

Next ==
  \/ PeerWrites \/ PeerCloses
  \/ \E k \in Index : Read(k)
  \/ ReadEnds \/ Interrupt \/ Fail \/ StopReads
  \/ Terminated

Spec == Init /\ [][Next]_vars

(* A read returns when there is something to return.                       *)
FairSpec ==
  Spec /\ WF_vars(ReadEnds \/ \E k \in Index : Read(k))

-----------------------------------------------------------------------------
(* Blocks are consecutive pieces of the input, whatever the sizes of the   *)
(* reads and wherever they are interrupted: no byte is skipped, repeated   *)
(* or taken from an earlier content of the buffer.  At the end of the      *)
(* input less than a block is dropped, without an error.                   *)
BlocksPartitionInput ==
  /\ position = Len(units) * Size + filled
  /\ \A u \in 1 .. Len(units) : \A i \in Index :
       units[u][i] = (u - 1) * Size + i
  /\ \A i \in 1 .. filled : buffer[i] = Len(units) * Size + i
  /\ reader = "eof" => Len(units) = written \div Size

(* A block is returned as soon as its last byte was written, without       *)
(* waiting for more input or for the end of it.                            *)
WholeBlocksReturned ==
  \A u \in 1 .. MaxBytes \div Size :
    written >= u * Size ~> Len(units) >= u \/ ~Reading
=============================================================================
