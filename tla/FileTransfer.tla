---------------------------- MODULE FileTransfer ----------------------------
(***************************************************************************)
(* The send and receive commands on top of the codec.                      *)
(*                                                                         *)
(* send cuts a file into chunks and writes each one, behind a header and   *)
(* padded, as one block to an encoder; receive writes the payload of every *)
(* block it gets at the offset its header names.  In between, the codec    *)
(* may lose blocks, reorder them, since its lanes are not ordered among    *)
(* themselves, and repeat them, when a decoder takes over from another in  *)
(* the middle of a block.  It never alters one: the blocks that receive    *)
(* reads are those of send.  Encoders take one connection at a time, so    *)
(* the transfers follow one another.                                       *)
(*                                                                         *)
(* A byte is the transfer it comes from and its position in the file, so   *)
(* that a byte in the wrong place can be told from one in the right place. *)
(* A file on disk is a function from the positions that were written to    *)
(* bytes; a position below the last one that is missing is a hole.         *)
(***************************************************************************)
EXTENDS Integers

CONSTANTS
  NumTransfers,   \* bound: calls of send
  MaxStreams,     \* bound: connections of a decoder to the receiver
  PayloadSize,    \* block_size - DATAGRAM_HEADER_LEN
  FileLength,     \* FileLength[t] is the length of the file of transfer t
  WireName,       \* WireName[t] is its name as deserialize returns it
  OldLength,      \* OldLength[w] is the length of file w before the transfers
  Unopenable      \* names that are directories, such as the empty name

Transfer == 1 .. NumTransfers
Names == DOMAIN OldLength

ASSUME FileTransferAssumption ==
  /\ NumTransfers \in Nat /\ MaxStreams \in Nat
  /\ PayloadSize \in Nat
  /\ FileLength \in [Transfer -> Nat]
  /\ WireName \in [Transfer -> Names]
  /\ OldLength \in [Names -> Nat]
  /\ Unopenable \subseteq Names

VARIABLES
  transfer,    \* the last call of send, 0 before the first
  sender,      \* "idle", "reading", "writing"
  outcome,     \* what the calls of send returned
  position,    \* of the open file: where the next read starts
  offset,      \* the chunk_offset of the next header
  n,           \* bytes of buffer that the last read has filled
  buffer,      \* the buffer of send
  sent,        \* blocks written to the encoder so far
  in_flight,   \* those that are neither lost nor read by the receiver
  listener,    \* Listener: "socket", "stdin" or "stdin_closed"
  receiver,    \* "accepting", "reading", "returned", "failed"
  decoder,     \* "absent", "connecting", "connected", "disconnected"
  streams,     \* connections so far
  disk,        \* the files of output_path
  received     \* those whose payload was written completely

sendVars == <<transfer, sender, outcome, position, offset, n, buffer, sent>>
receiveVars == <<listener, receiver, decoder, streams, disk, received>>
vars == <<sendVars, in_flight, receiveVars>>

Zero == [from |-> 0, at |-> 0]
Old(i) == [from |-> NumTransfers + 1, at |-> i]
ByteOf(t, i) == [from |-> t, at |-> i]

Byte == [from : 0 .. NumTransfers + 1, at : Nat]
BufferIndex == 0 .. PayloadSize - 1

(* file_id and file_length are in the header and receive ignores them; the *)
(* transfer stands for the former and for the name.                        *)
Block == [transfer : Transfer, chunk_offset : Nat, payload_length : 1 .. PayloadSize,
          payload : [BufferIndex -> Byte]]

Positions(b) == b.chunk_offset .. b.chunk_offset + b.payload_length - 1

TypeOK ==
  /\ transfer \in 0 .. NumTransfers
  /\ sender \in {"idle", "reading", "writing"}
  /\ sender # "idle" => transfer \in Transfer
  /\ outcome \in [Transfer -> {"none", "ok", "error"}]
  /\ position \in Nat /\ offset \in Nat
  /\ n \in 0 .. PayloadSize
  /\ buffer \in [BufferIndex -> Byte]
  /\ sent \subseteq Block
  /\ in_flight \subseteq sent
  /\ listener \in {"socket", "stdin", "stdin_closed"}
  /\ receiver \in {"accepting", "reading", "returned", "failed"}
  /\ decoder \in {"absent", "connecting", "connected", "disconnected"}
  /\ streams \in 0 .. MaxStreams
  /\ DOMAIN disk = Names
  /\ \A w \in Names : DOMAIN disk[w] \subseteq Nat
  /\ received \subseteq sent

Init ==
  /\ transfer = 0
  /\ sender = "idle"
  /\ outcome = [t \in Transfer |-> "none"]
  /\ position = 0
  /\ offset = 0
  /\ n = 0
  /\ buffer = [i \in BufferIndex |-> Zero]
  /\ sent = {}
  /\ in_flight = {}
  /\ listener \in {"socket", "stdin"}
  /\ receiver = "accepting"
  /\ decoder = "absent"
  /\ streams = 0
  /\ disk = [w \in Names |-> [i \in 0 .. OldLength[w] - 1 |-> Old(i)]]
  /\ received = {}

-----------------------------------------------------------------------------
(* send                                                                    *)

SendStarts ==
  /\ sender = "idle"
  /\ transfer < NumTransfers
  /\ transfer' = transfer + 1
  /\ sender' = "reading"
  /\ position' = 0
  /\ offset' = 0
  /\ n' = 0
  /\ buffer' = [i \in BufferIndex |-> Zero]
  /\ UNCHANGED <<outcome, sent, in_flight, receiveVars>>

(* Mutant: n adds up over the reads instead of being set by each.          *)
AddedUp(k) == n + k

BytesRead(k) == k

(* file.read may return fewer bytes than fit, also before the end.         *)
SendReads(k) ==
  /\ sender = "reading"
  /\ k \in 1 .. PayloadSize
  /\ position + k <= FileLength[transfer]
  /\ n' = BytesRead(k)
  /\ position' = position + k
  /\ buffer' = [i \in BufferIndex |->
                  IF i < k THEN ByteOf(transfer, position + i) ELSE buffer[i]]
  /\ sender' = "writing"
  /\ UNCHANGED <<transfer, outcome, offset, sent, in_flight, receiveVars>>

Datagram ==
  [transfer |-> transfer, chunk_offset |-> offset, payload_length |-> n,
   payload |-> buffer]

(* Mutant: the offset advances by the size of the buffer.                  *)
OffsetByBuffer == offset + PayloadSize

NextOffset == offset + n

(* The header and the whole buffer, padding included, make one block.      *)
SendWrites ==
  /\ sender = "writing"
  /\ sent' = sent \cup {Datagram}
  /\ in_flight' = in_flight \cup {Datagram}
  /\ offset' = NextOffset
  /\ sender' = "reading"
  /\ UNCHANGED <<transfer, outcome, position, n, buffer, receiveVars>>

SendReturns(result) ==
  /\ outcome' = [outcome EXCEPT ![transfer] = result]
  /\ sender' = "idle"
  /\ UNCHANGED <<transfer, position, offset, n, buffer, sent, in_flight>>
  /\ UNCHANGED receiveVars

(* Mutant: a chunk that does not fill the buffer is taken for the last.    *)
AfterShortRead == position >= FileLength[transfer] \/ n \in 1 .. PayloadSize - 1

(* read returns zero: at the end of the file, or with no room to read to.  *)
ReadsNothing == position >= FileLength[transfer] \/ PayloadSize = 0

(* The loop breaks.                                                        *)
SendEnds ==
  /\ sender = "reading"
  /\ ReadsNothing
  /\ SendReturns("ok")

(* The file or the connection fails, at any point.  What was written of    *)
(* the current block is dropped by the encoder, whose read_exact meets the *)
(* end of its input.                                                       *)
SendFails ==
  /\ sender # "idle"
  /\ SendReturns("error")

-----------------------------------------------------------------------------
(* The codec and the decoder process.                                      *)

(* A block is lost on the link, or at a decoder that is not connected.     *)
Lose(b) ==
  /\ b \in in_flight
  /\ in_flight' = in_flight \ {b}
  /\ UNCHANGED <<sendVars, receiveVars>>

(* run_decoder opens its output once, before it decodes anything.          *)
DecoderConnects ==
  /\ decoder = "absent"
  /\ streams < MaxStreams
  /\ streams' = streams + 1
  /\ decoder' = "connecting"
  /\ UNCHANGED <<sendVars, in_flight, listener, receiver, disk, received>>

(* One that exits while it connects is accepted all the same, if receive   *)
(* goes on, and then found to be gone.                                     *)
DecoderExits ==
  /\ decoder # "absent"
  /\ decoder = "connecting" => receiver \in {"returned", "failed"}
  /\ decoder' = "absent"
  /\ UNCHANGED <<sendVars, in_flight, listener, receiver, streams, disk,
                 received>>

-----------------------------------------------------------------------------
(* receive                                                                 *)

(* Incoming::next for a stream that can be had: stdin is had once.         *)
Accept ==
  /\ receiver = "accepting"
  /\ decoder = "connecting"
  /\ listener # "stdin_closed"
  /\ receiver' = "reading"
  /\ decoder' = "connected"
  /\ listener' = IF listener = "stdin" THEN "stdin_closed" ELSE listener
  /\ UNCHANGED <<sendVars, in_flight, streams, disk, received>>

(* accept returns an error, which ends receive.                            *)
AcceptFails ==
  /\ receiver = "accepting"
  /\ listener = "socket"
  /\ receiver' = "failed"
  /\ UNCHANGED <<sendVars, in_flight, listener, decoder, streams, disk,
                 received>>

(* Incoming::next returns None.                                            *)
NoMoreStreams ==
  /\ receiver = "accepting"
  /\ listener = "stdin_closed"
  /\ receiver' = "returned"
  /\ UNCHANGED <<sendVars, in_flight, listener, decoder, streams, disk,
                 received>>

(* Mutant: the file is opened with truncate(true).                         *)
WrittenTruncated(file, b, k) ==
  [i \in b.chunk_offset .. b.chunk_offset + k - 1 |->
     b.payload[i - b.chunk_offset]]

(* The file after seek and a write_all that has come to k bytes.           *)
Written(file, b, k) ==
  [i \in DOMAIN file \cup b.chunk_offset .. b.chunk_offset + k - 1 |->
     IF i \in b.chunk_offset .. b.chunk_offset + k - 1
       THEN b.payload[i - b.chunk_offset]
       ELSE file[i]]

(* A block that was delivered may be delivered again.                      *)
ReadBlock(b) ==
  /\ receiver = "reading"
  /\ decoder = "connected"
  /\ b \in in_flight
  /\ in_flight' \in {in_flight, in_flight \ {b}}

(* The header is accepted (module FileName) and the payload is not longer  *)
(* than the block, since send has made both.                               *)
ProcessBlock(b) ==
  /\ ReadBlock(b)
  /\ WireName[b.transfer] \notin Unopenable
  /\ disk' = [disk EXCEPT ![WireName[b.transfer]] = Written(@, b, b.payload_length)]
  /\ received' = received \cup {b}
  /\ UNCHANGED <<sendVars, listener, receiver, decoder, streams>>

(* Mutant: the error is returned with ? from the loop over the streams.    *)
LeavesReceive ==
  /\ receiver' = "returned"
  /\ decoder' = IF decoder = "connected" THEN "disconnected" ELSE decoder

(* process_stream returns an error: it is logged, the stream is dropped    *)
(* and the loop goes on to the next stream.                                *)
DropsStream ==
  /\ receiver' = "accepting"
  /\ decoder' = IF decoder = "connected" THEN "disconnected" ELSE decoder

(* The file cannot be opened.                                              *)
OpenFails(b) ==
  /\ ReadBlock(b)
  /\ DropsStream
  /\ UNCHANGED <<sendVars, listener, streams, disk, received>>

(* seek fails, or write_all does after k bytes.                            *)
WriteFails(b, k) ==
  /\ ReadBlock(b)
  /\ WireName[b.transfer] \notin Unopenable
  /\ k < b.payload_length
  /\ disk' = [disk EXCEPT ![WireName[b.transfer]] = Written(@, b, k)]
  /\ DropsStream
  /\ UNCHANGED <<sendVars, listener, streams, received>>

(* read_exact fails: the decoder is gone, in the middle of a block or not. *)
StreamEnds ==
  /\ receiver = "reading"
  /\ decoder # "connected"
  /\ DropsStream
  /\ UNCHANGED <<sendVars, in_flight, listener, streams, disk, received>>

-----------------------------------------------------------------------------
Send ==
  \/ SendStarts \/ SendWrites \/ SendEnds \/ SendFails
  \/ \E k \in 1 .. PayloadSize : SendReads(k)

Receive ==
  \/ Accept \/ NoMoreStreams \/ StreamEnds
  \/ \E b \in in_flight :
       \/ ProcessBlock(b)
       \/ OpenFails(b)
       \/ \E k \in 0 .. PayloadSize - 1 : WriteFails(b, k)

Terminated ==
  /\ transfer = NumTransfers /\ sender = "idle"
  /\ streams = MaxStreams /\ decoder = "absent"
  /\ in_flight = {}
  /\ receiver \in {"returned", "failed"}
  /\ UNCHANGED vars

Next ==
  \/ Send
  \/ \E b \in in_flight : Lose(b)
  \/ DecoderConnects
  \/ DecoderExits
  \/ Receive
  \/ AcceptFails
  \/ Terminated

Spec == Init /\ [][Next]_vars

(* The receiver is scheduled.  Nothing obliges anyone to send or connect.  *)
FairSpec == Spec /\ WF_vars(Receive)

-----------------------------------------------------------------------------
(* Every byte of a file is at the position it had in a file sent under     *)
(* that name, or is an old byte of the file: whatever is lost, reordered   *)
(* or cut short, no padding and no byte of another chunk gets in.          *)
BytesInPlace ==
  \A w \in Names : \A i \in DOMAIN disk[w] :
    \/ disk[w][i] = Old(i)
    \/ \E t \in Transfer : WireName[t] = w /\ disk[w][i] = ByteOf(t, i)

(* What was received stays: a byte of a chunk that was written is never    *)
(* lost again to an earlier content of the file, a hole or an error; only  *)
(* another transfer of the same name may replace it.                       *)
ReceivedBytesStay ==
  \A b \in received :
    LET file == disk[WireName[b.transfer]] IN
      \A i \in Positions(b) : i \in DOMAIN file /\ file[i] # Old(i)

Chunks(t) == {b \in sent : b.transfer = t}

(* If send returned Ok and the codec delivered everything it wrote, every  *)
(* byte of the file is there and none beyond its end comes from it, short  *)
(* reads of the sender, disorder and repetition of the blocks              *)
(* notwithstanding.  Only another transfer of the same name may have       *)
(* replaced a byte.  With blocks that have no room for a payload send      *)
(* returns Ok and sends nothing.                                           *)
WholeFileArrives ==
  \A t \in Transfer :
    PayloadSize > 0 /\ outcome[t] = "ok" /\ Chunks(t) \subseteq received =>
      LET file == disk[WireName[t]] IN
        /\ \A i \in 0 .. FileLength[t] - 1 :
             /\ i \in DOMAIN file
             /\ \/ file[i] = ByteOf(t, i)
                \/ \E u \in Transfer \ {t} :
                     /\ WireName[u] = WireName[t]
                     /\ Chunks(u) # {}
                     /\ file[i] = ByteOf(u, i)
        /\ \A i \in DOMAIN file : file[i].from = t => i < FileLength[t]

-----------------------------------------------------------------------------
(* A decoder that connects is served, also after the receiver has dropped  *)
(* the stream of an earlier one because a file could not be written: only  *)
(* a failing accept, or the end of stdin, ends receive.                    *)
DecoderServed ==
  decoder = "connecting" ~>
    \/ decoder # "connecting"
    \/ receiver = "failed"
    \/ listener = "stdin_closed"
=============================================================================
