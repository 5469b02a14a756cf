------------------------- MODULE FileTransferProofs -------------------------
(***************************************************************************)
(* What the file transfer keeps right for any number of transfers, any     *)
(* file lengths and names, any size of the payload: every byte on disk is  *)
(* in its place, and what was received stays.                              *)
(*                                                                         *)
(* Neither is inductive.  That a byte is in its place on disk needs the    *)
(* same of the blocks on their way (BlocksRight) and of the buffer of send *)
(* (BufferRight), which in turn needs that the offset send counts is the   *)
(* position of the file (OffsetRight), short reads included.  The padding  *)
(* of a block is not constrained at all: it holds what an earlier read has *)
(* left there.                                                             *)
(*                                                                         *)
(* The last part is about the names of the files in the headers, for any   *)
(* characters, any names and any size of the field.                        *)
(***************************************************************************)
EXTENDS FileTransfer, FileName, FiniteSetTheorems, TLAPS

OffsetRight ==
  /\ sender = "reading" => position = offset
  /\ sender = "writing" => n > 0 /\ position = offset + n

BufferRight ==
  sender = "writing" =>
    \A i \in 0 .. n - 1 : buffer[i] = ByteOf(transfer, offset + i)

PayloadRight(b) ==
  \A i \in 0 .. b.payload_length - 1 :
    b.payload[i] = ByteOf(b.transfer, b.chunk_offset + i)

BlocksRight == \A b \in sent : PayloadRight(b)

Inv ==
  /\ TypeOK
  /\ OffsetRight
  /\ BufferRight
  /\ BlocksRight
  /\ BytesInPlace
  /\ ReceivedBytesStay

(* The initial state satisfies the invariant: all files are old.           *)
LEMMA InitInv == Init => Inv
  <1> SUFFICES ASSUME Init PROVE Inv
    OBVIOUS
  <1> USE FileTransferAssumption
  <1>1. disk = [w \in Names |-> [i \in 0 .. OldLength[w] - 1 |-> Old(i)]]
    BY DEF Init
  <1>2. \A w \in Names : OldLength[w] \in Nat
    OBVIOUS
  <1>3. DOMAIN disk = Names
    BY <1>1
  <1>4. \A w \in Names : DOMAIN disk[w] = 0 .. OldLength[w] - 1
    BY <1>1
  <1>5. \A w \in Names : \A i \in DOMAIN disk[w] : disk[w][i] = Old(i)
    BY <1>1, <1>4
  <1>6. \A w \in Names : DOMAIN disk[w] \subseteq Nat
    BY <1>2, <1>4
  <1>7. buffer \in [BufferIndex -> Byte]
    BY DEF Init, Byte, Zero, BufferIndex
  <1>8. TypeOK
    BY <1>3, <1>6, <1>7 DEF Init, TypeOK
  <1>9. OffsetRight /\ BufferRight
    BY DEF Init, OffsetRight, BufferRight
  <1>10. BlocksRight /\ ReceivedBytesStay
    BY DEF Init, BlocksRight, ReceivedBytesStay
  <1>11. BytesInPlace
    BY <1>5 DEF BytesInPlace
  <1> QED
    BY <1>8, <1>9, <1>10, <1>11 DEF Inv

(* A step that is not one of receive leaves the files as they are ...      *)
LEMMA DiskUntouchedKeepsFiles ==
  ASSUME Inv, UNCHANGED <<disk, received>>
  PROVE  BytesInPlace' /\ ReceivedBytesStay'
  BY DEF Inv, BytesInPlace, ReceivedBytesStay, Positions, Old, ByteOf

(* ... and, if it is not SendWrites either, what was sent.                 *)
LEMMA NothingWrittenKeepsFiles ==
  ASSUME Inv, UNCHANGED <<sent, disk, received>>
  PROVE  BlocksRight' /\ BytesInPlace' /\ ReceivedBytesStay'
  BY DiskUntouchedKeepsFiles DEF Inv, BlocksRight, PayloadRight, ByteOf

(* Only send itself changes its own state.                                 *)
LEMMA SenderIdleKeepsSender ==
  ASSUME Inv, UNCHANGED <<transfer, sender, position, offset, n, buffer>>
  PROVE  OffsetRight' /\ BufferRight'
  BY DEF Inv, OffsetRight, BufferRight, ByteOf

(* Writing at most the payload of a block puts bytes in their places.      *)
LEMMA WrittenInPlace ==
  ASSUME Inv, NEW b \in sent, NEW k \in 0 .. b.payload_length,
         disk' = [disk EXCEPT ![WireName[b.transfer]]
                    = Written(disk[WireName[b.transfer]], b, k)]
  PROVE  /\ BytesInPlace'
         /\ DOMAIN disk' = Names
         /\ \A w \in Names : DOMAIN disk'[w] \subseteq Nat
         /\ \A w \in Names : DOMAIN disk[w] \subseteq DOMAIN disk'[w]
         /\ \A w \in Names : \A i \in DOMAIN disk[w] :
              disk'[w][i] = Old(i) => disk[w][i] = Old(i)
         /\ \A i \in b.chunk_offset .. b.chunk_offset + k - 1 :
              /\ i \in DOMAIN disk'[WireName[b.transfer]]
              /\ disk'[WireName[b.transfer]][i] # Old(i)
  <1> USE FileTransferAssumption
  <1> DEFINE v == WireName[b.transfer]
             R == b.chunk_offset .. b.chunk_offset + k - 1
  <1>1. /\ b.transfer \in Transfer
        /\ b.chunk_offset \in Nat
        /\ b.payload_length \in 1 .. PayloadSize
    BY DEF Inv, TypeOK, Block
  <1>2. v \in Names
    BY <1>1
  <1>3. k \in Nat
    BY <1>1
  <1>4. R \subseteq Nat
    BY <1>1, <1>3
  <1>5. \A i \in R : b.payload[i - b.chunk_offset] = ByteOf(b.transfer, i)
    <2> SUFFICES ASSUME NEW i \in R
                 PROVE  b.payload[i - b.chunk_offset] = ByteOf(b.transfer, i)
      OBVIOUS
    <2>1. /\ i - b.chunk_offset \in 0 .. b.payload_length - 1
          /\ b.chunk_offset + (i - b.chunk_offset) = i
      BY <1>1, <1>3, <1>4
    <2> QED
      BY <2>1 DEF Inv, BlocksRight, PayloadRight
  <1>6. \A i : ByteOf(b.transfer, i) # Old(i)
    BY <1>1 DEF ByteOf, Old, Transfer
  <1>7. DOMAIN disk = Names /\ \A w \in Names : DOMAIN disk[w] \subseteq Nat
    BY DEF Inv, TypeOK
  <1>8. DOMAIN disk' = Names
    BY <1>7
  <1>9. \A w \in Names \ {v} : disk'[w] = disk[w]
    BY <1>7
  <1>10. disk'[v] = Written(disk[v], b, k)
    BY <1>2, <1>7
  <1>11. DOMAIN disk'[v] = DOMAIN disk[v] \cup R
    BY <1>10 DEF Written
  <1>12. \A i \in R : disk'[v][i] = ByteOf(b.transfer, i)
    BY <1>5, <1>10 DEF Written
  <1>13. \A i \in DOMAIN disk[v] \ R : disk'[v][i] = disk[v][i]
    BY <1>10 DEF Written
  <1>14. BytesInPlace'
    <2> SUFFICES ASSUME NEW w \in Names, NEW i \in DOMAIN disk'[w]
                 PROVE  \/ disk'[w][i] = Old(i)
                        \/ \E t \in Transfer :
                             WireName[t] = w /\ disk'[w][i] = ByteOf(t, i)
      BY DEF BytesInPlace, Old, ByteOf
    <2>1. CASE w = v /\ i \in R
      BY <2>1, <1>1, <1>12
    <2>2. CASE w = v /\ i \notin R
      BY <2>2, <1>11, <1>13 DEF Inv, BytesInPlace
    <2>3. CASE w # v
      BY <2>3, <1>9 DEF Inv, BytesInPlace
    <2> QED
      BY <2>1, <2>2, <2>3
  <1>15. \A w \in Names : DOMAIN disk[w] \subseteq DOMAIN disk'[w]
    BY <1>9, <1>11
  <1>16. \A w \in Names : DOMAIN disk'[w] \subseteq Nat
    BY <1>4, <1>7, <1>9, <1>11
  <1>17. \A w \in Names : \A i \in DOMAIN disk[w] :
           disk'[w][i] = Old(i) => disk[w][i] = Old(i)
    <2> SUFFICES ASSUME NEW w \in Names, NEW i \in DOMAIN disk[w],
                        disk'[w][i] = Old(i)
                 PROVE  disk[w][i] = Old(i)
      OBVIOUS
    <2>1. CASE w = v /\ i \in R
      BY <2>1, <1>6, <1>12
    <2>2. CASE w = v /\ i \notin R
      BY <2>2, <1>13
    <2>3. CASE w # v
      BY <2>3, <1>9
    <2> QED
      BY <2>1, <2>2, <2>3
  <1>18. \A i \in R : i \in DOMAIN disk'[v] /\ disk'[v][i] # Old(i)
    BY <1>6, <1>11, <1>12
  <1> QED
    BY <1>8, <1>14, <1>15, <1>16, <1>17, <1>18

(* Hence nothing that was received is lost when a block is written.        *)
LEMMA WrittenKeepsReceived ==
  ASSUME Inv, NEW b \in sent, NEW k \in 0 .. b.payload_length,
         disk' = [disk EXCEPT ![WireName[b.transfer]]
                    = Written(disk[WireName[b.transfer]], b, k)]
  PROVE  \A c \in received :
           \A i \in Positions(c) :
             /\ i \in DOMAIN disk'[WireName[c.transfer]]
             /\ disk'[WireName[c.transfer]][i] # Old(i)
  <1> USE FileTransferAssumption
  <1> SUFFICES ASSUME NEW c \in received, NEW i \in Positions(c)
               PROVE  /\ i \in DOMAIN disk'[WireName[c.transfer]]
                      /\ disk'[WireName[c.transfer]][i] # Old(i)
    OBVIOUS
  <1>1. WireName[c.transfer] \in Names
    BY DEF Inv, TypeOK, Block
  <1>2. /\ i \in DOMAIN disk[WireName[c.transfer]]
        /\ disk[WireName[c.transfer]][i] # Old(i)
    BY DEF Inv, ReceivedBytesStay
  <1> QED
    BY <1>1, <1>2, WrittenInPlace

(* Every step preserves the invariant.                                     *)
LEMMA NextInv == Inv /\ [Next]_vars => Inv'
  <1> SUFFICES ASSUME Inv, [Next]_vars PROVE Inv'
    OBVIOUS
  <1> USE FileTransferAssumption
  <1>1. CASE SendStarts
    <2>1. TypeOK'
      <3>1. buffer' \in [BufferIndex -> Byte]
        BY <1>1 DEF SendStarts, Byte, Zero
      <3> QED
        BY <1>1, <3>1 DEF SendStarts, receiveVars, Inv, TypeOK, Transfer, Block
    <2>2. OffsetRight' /\ BufferRight'
      BY <1>1 DEF SendStarts, OffsetRight, BufferRight
    <2> QED
      BY <1>1, <2>1, <2>2, NothingWrittenKeepsFiles DEF SendStarts, receiveVars, Inv
  <1>2. ASSUME NEW k \in 1 .. PayloadSize, SendReads(k) PROVE Inv'
    <2>1. TypeOK'
      <3>1. \A i \in BufferIndex : i < k => ByteOf(transfer, position + i) \in Byte
        BY <1>2 DEF SendReads, BytesRead, Inv, TypeOK, ByteOf, Byte, BufferIndex, Transfer
      <3>2. buffer' \in [BufferIndex -> Byte]
        BY <1>2, <3>1 DEF SendReads, BytesRead, Inv, TypeOK
      <3> QED
        BY <1>2, <3>2 DEF SendReads, BytesRead, receiveVars, Inv, TypeOK, Block
    <2>2. OffsetRight' /\ BufferRight'
      <3>1. position = offset /\ position \in Nat /\ k \in Nat /\ k > 0
        BY <1>2 DEF SendReads, BytesRead, Inv, OffsetRight, TypeOK
      <3>2. OffsetRight'
        BY <1>2, <3>1 DEF SendReads, BytesRead, OffsetRight
      <3>3. \A i \in 0 .. k - 1 : i \in BufferIndex /\ i < k
        BY <3>1 DEF BufferIndex
      <3>4. BufferRight'
        BY <1>2, <3>1, <3>3 DEF SendReads, BytesRead, BufferRight, ByteOf
      <3> QED
        BY <3>2, <3>4
    <2> QED
      BY <1>2, <2>1, <2>2, NothingWrittenKeepsFiles DEF SendReads, BytesRead, receiveVars, Inv
  <1>3. CASE SendWrites
    <2>1. Datagram \in Block
      BY <1>3 DEF SendWrites, NextOffset, Inv, TypeOK, OffsetRight, Datagram, Block
    <2>2. TypeOK'
      BY <1>3, <2>1 DEF SendWrites, NextOffset, receiveVars, Inv, TypeOK, Block
    <2>3. OffsetRight' /\ BufferRight'
      BY <1>3 DEF SendWrites, NextOffset, Inv, TypeOK, OffsetRight, BufferRight
    <2>4. PayloadRight(Datagram)
      BY <1>3 DEF SendWrites, NextOffset, Inv, BufferRight, PayloadRight, Datagram
    <2>5. BlocksRight'
      BY <1>3, <2>4 DEF SendWrites, NextOffset, Inv, BlocksRight, PayloadRight, ByteOf
    <2>6. UNCHANGED <<disk, received>>
      BY <1>3 DEF SendWrites, NextOffset, receiveVars
    <2> QED
      BY <2>2, <2>3, <2>5, <2>6, DiskUntouchedKeepsFiles DEF Inv
  <1>4. CASE SendEnds \/ SendFails
    <2>1. PICK r \in {"ok", "error"} : SendReturns(r)
      BY <1>4 DEF SendEnds, SendFails
    <2>2. TypeOK'
      BY <2>1 DEF SendReturns, receiveVars, Inv, TypeOK, Block
    <2>3. OffsetRight' /\ BufferRight'
      BY <2>1 DEF SendReturns, OffsetRight, BufferRight
    <2> QED
      BY <2>1, <2>2, <2>3, NothingWrittenKeepsFiles DEF SendReturns, receiveVars, Inv
  <1>5. ASSUME NEW b \in in_flight, Lose(b) \/ OpenFails(b) PROVE Inv'
    <2>1. UNCHANGED <<sendVars, disk, received>>
      BY <1>5 DEF Lose, OpenFails, receiveVars
    <2>2. TypeOK'
      BY <1>5, <2>1 DEF Lose, OpenFails, ReadBlock, DropsStream, sendVars,
                        receiveVars, Inv, TypeOK, Block
    <2> QED
      BY <2>1, <2>2, NothingWrittenKeepsFiles, SenderIdleKeepsSender
         DEF sendVars, Inv
  <1>6. CASE \/ DecoderConnects \/ DecoderExits \/ Accept \/ AcceptFails
             \/ NoMoreStreams \/ StreamEnds
    <2>1. UNCHANGED <<sendVars, in_flight, disk, received>>
      BY <1>6 DEF DecoderConnects, DecoderExits, Accept, AcceptFails,
                  NoMoreStreams, StreamEnds
    <2>2. /\ listener' \in {"socket", "stdin", "stdin_closed"}
          /\ receiver' \in {"accepting", "reading", "returned", "failed"}
          /\ decoder' \in {"absent", "connecting", "connected", "disconnected"}
          /\ streams' \in 0 .. MaxStreams
      BY <1>6 DEF DecoderConnects, DecoderExits, Accept, AcceptFails,
                  NoMoreStreams, StreamEnds, DropsStream, Inv, TypeOK
    <2>3. TypeOK'
      BY <2>1, <2>2 DEF sendVars, Inv, TypeOK, Block
    <2> QED
      BY <2>1, <2>3, NothingWrittenKeepsFiles, SenderIdleKeepsSender
         DEF sendVars, Inv
  <1>7. ASSUME NEW b \in in_flight, ProcessBlock(b) PROVE Inv'
    <2>1. /\ b \in sent
          /\ b.payload_length \in 0 .. b.payload_length
      BY DEF Inv, TypeOK, Block
    <2>2. disk' = [disk EXCEPT ![WireName[b.transfer]]
                     = Written(disk[WireName[b.transfer]], b, b.payload_length)]
      BY <1>7 DEF ProcessBlock
    <2>3. TypeOK'
      <3>1. DOMAIN disk' = Names /\ \A w \in Names : DOMAIN disk'[w] \subseteq Nat
        BY <2>1, <2>2, WrittenInPlace
      <3> QED
        BY <1>7, <2>1, <3>1 DEF ProcessBlock, ReadBlock, sendVars, Inv, TypeOK, Block
    <2>4. OffsetRight' /\ BufferRight'
      BY <1>7, SenderIdleKeepsSender DEF ProcessBlock, sendVars
    <2>5. BlocksRight'
      BY <1>7 DEF ProcessBlock, sendVars, Inv, BlocksRight, PayloadRight, ByteOf
    <2>6. BytesInPlace'
      BY <2>1, <2>2, WrittenInPlace
    <2>7. ReceivedBytesStay'
      <3> SUFFICES ASSUME NEW c \in received', NEW i \in Positions(c)
                   PROVE  /\ i \in DOMAIN disk'[WireName[c.transfer]]
                          /\ disk'[WireName[c.transfer]][i] # Old(i)
        BY DEF ReceivedBytesStay, Positions, Old
      <3>1. CASE c = b
        BY <3>1, <2>1, <2>2, WrittenInPlace DEF Positions
      <3>2. CASE c \in received
        BY <3>2, <2>1, <2>2, WrittenKeepsReceived
      <3> QED
        BY <1>7, <3>1, <3>2 DEF ProcessBlock
    <2> QED
      BY <2>3, <2>4, <2>5, <2>6, <2>7 DEF Inv
  <1>8. ASSUME NEW b \in in_flight, NEW k \in 0 .. PayloadSize - 1, WriteFails(b, k)
        PROVE Inv'
    <2>1. b \in sent /\ k \in 0 .. b.payload_length
      BY <1>8 DEF Inv, TypeOK, Block, WriteFails
    <2>2. disk' = [disk EXCEPT ![WireName[b.transfer]]
                     = Written(disk[WireName[b.transfer]], b, k)]
      BY <1>8 DEF WriteFails
    <2>3. TypeOK'
      <3>1. DOMAIN disk' = Names /\ \A w \in Names : DOMAIN disk'[w] \subseteq Nat
        BY <2>1, <2>2, WrittenInPlace
      <3> QED
        BY <1>8, <3>1 DEF WriteFails, ReadBlock, DropsStream, sendVars, Inv, TypeOK, Block
    <2>4. OffsetRight' /\ BufferRight'
      BY <1>8, SenderIdleKeepsSender DEF WriteFails, sendVars
    <2>5. BlocksRight'
      BY <1>8 DEF WriteFails, sendVars, Inv, BlocksRight, PayloadRight, ByteOf
    <2>6. BytesInPlace'
      BY <2>1, <2>2, WrittenInPlace
    <2>7. ReceivedBytesStay'
      BY <1>8, <2>1, <2>2, WrittenKeepsReceived
         DEF WriteFails, ReceivedBytesStay, Positions, Old
    <2> QED
      BY <2>3, <2>4, <2>5, <2>6, <2>7 DEF Inv
  <1>9. CASE UNCHANGED vars
    <2>1. TypeOK'
      BY <1>9 DEF vars, sendVars, receiveVars, Inv, TypeOK, Block
    <2> QED
      BY <1>9, <2>1, NothingWrittenKeepsFiles, SenderIdleKeepsSender
         DEF vars, sendVars, receiveVars, Inv
  <1> QED
    BY <1>1, <1>2, <1>3, <1>4, <1>5, <1>6, <1>7, <1>8, <1>9
       DEF Next, Send, Receive, Terminated

(* Types of the state of a file transfer.                                  *)
THEOREM FileTransferTypeOK == Spec => []TypeOK
  <1>1. Inv => TypeOK
    BY DEF Inv
  <1> QED
    BY <1>1, InitInv, NextInv, PTL DEF Spec

(* No byte ever gets to a place where it was not in a file of that name.   *)
THEOREM FileTransferBytesInPlace == Spec => []BytesInPlace
  <1>1. Inv => BytesInPlace
    BY DEF Inv
  <1> QED
    BY <1>1, InitInv, NextInv, PTL DEF Spec

(* What receive has written stays, whatever comes after it.                *)
THEOREM FileTransferReceivedBytesStay == Spec => []ReceivedBytesStay
  <1>1. Inv => ReceivedBytesStay
    BY DEF Inv
  <1> QED
    BY <1>1, InitInv, NextInv, PTL DEF Spec

-----------------------------------------------------------------------------
(* The whole file.  The chunks that send has written of a file cover it up *)
(* to the offset it counts, and up to its end when it returns Ok; none of  *)
(* them reaches beyond the end; and a byte on disk that is not an old one  *)
(* comes from a chunk that covers its position.                            *)

Covers(S, t, m) ==
  \A i \in 0 .. m - 1 : \E b \in S : b.transfer = t /\ i \in Positions(b)

SentCovers ==
  /\ sender # "idle" => Covers(sent, transfer, offset)
  /\ \A t \in Transfer :
       PayloadSize > 0 /\ outcome[t] = "ok" => Covers(sent, t, FileLength[t])

InsideFile ==
  /\ sender # "idle" => position <= FileLength[transfer]
  /\ \A b \in sent : b.chunk_offset + b.payload_length <= FileLength[b.transfer]

ComesFrom(w, i, byte, b) ==
  /\ WireName[b.transfer] = w
  /\ i \in Positions(b)
  /\ byte = ByteOf(b.transfer, i)

HasSource(S, w, i, byte) == byte = Old(i) \/ \E b \in S : ComesFrom(w, i, byte, b)

BytesFromChunks ==
  \A w \in Names : \A i \in DOMAIN disk[w] : HasSource(sent, w, i, disk[w][i])

WholeInv == SentCovers /\ InsideFile /\ BytesFromChunks

(* A step that does not change what was sent and read of the file ...      *)
LEMMA SenderIdleKeepsCover ==
  ASSUME SentCovers, InsideFile,
         UNCHANGED <<transfer, sender, outcome, position, offset, sent>>
  PROVE  SentCovers' /\ InsideFile'
  BY DEF SentCovers, InsideFile, Covers, Positions

(* ... and one that does not change the files.                             *)
LEMMA DiskUntouchedKeepsSources ==
  ASSUME BytesFromChunks, UNCHANGED disk, sent \subseteq sent'
  PROVE  BytesFromChunks'
  <1>1. \A w, i, byte : HasSource(sent, w, i, byte) => HasSource(sent', w, i, byte)
    BY DEF HasSource
  <1> QED
    BY <1>1 DEF BytesFromChunks

LEMMA WrittenFromChunk ==
  ASSUME Inv, BytesFromChunks, NEW b \in sent, NEW k \in 0 .. b.payload_length,
         sent' = sent,
         disk' = [disk EXCEPT ![WireName[b.transfer]]
                    = Written(disk[WireName[b.transfer]], b, k)]
  PROVE  BytesFromChunks'
  <1> USE FileTransferAssumption
  <1> DEFINE v == WireName[b.transfer]
             R == b.chunk_offset .. b.chunk_offset + k - 1
  <1>1. /\ b.transfer \in Transfer /\ b.chunk_offset \in Nat
        /\ b.payload_length \in Nat /\ k \in Nat /\ k <= b.payload_length
    BY DEF Inv, TypeOK, Block
  <1>2. v \in Names /\ DOMAIN disk = Names
    BY <1>1 DEF Inv, TypeOK
  <1>3. R \subseteq Positions(b) /\ \A i \in R : i \in Nat
    BY <1>1 DEF Positions
  <1>4. \A i \in R : b.payload[i - b.chunk_offset] = ByteOf(b.transfer, i)
    <2> SUFFICES ASSUME NEW i \in R
                 PROVE  b.payload[i - b.chunk_offset] = ByteOf(b.transfer, i)
      OBVIOUS
    <2>1. /\ i - b.chunk_offset \in 0 .. b.payload_length - 1
          /\ b.chunk_offset + (i - b.chunk_offset) = i
      BY <1>1, <1>3
    <2> QED
      BY <2>1 DEF Inv, BlocksRight, PayloadRight
  <1>5. \A w \in Names \ {v} : disk'[w] = disk[w]
    BY <1>2
  <1>6. disk'[v] = Written(disk[v], b, k)
    BY <1>2
  <1>7. /\ DOMAIN disk'[v] = DOMAIN disk[v] \cup R
        /\ \A i \in R : disk'[v][i] = ByteOf(b.transfer, i)
        /\ \A i \in DOMAIN disk[v] \ R : disk'[v][i] = disk[v][i]
    BY <1>4, <1>6 DEF Written
  <1> SUFFICES ASSUME NEW w \in Names, NEW i \in DOMAIN disk'[w]
               PROVE  HasSource(sent, w, i, disk'[w][i])
    BY DEF BytesFromChunks
  <1>8. CASE w = v /\ i \in R
    BY <1>3, <1>7, <1>8 DEF ComesFrom, HasSource
  <1>9. CASE w = v /\ i \notin R
    BY <1>7, <1>9 DEF BytesFromChunks
  <1>10. CASE w # v
    BY <1>5, <1>10 DEF BytesFromChunks
  <1> QED
    BY <1>8, <1>9, <1>10

LEMMA SendWritesKeepsCover ==
  ASSUME Inv, SentCovers, InsideFile, SendWrites PROVE SentCovers' /\ InsideFile'
  <1> USE FileTransferAssumption
  <1>1. /\ sender = "writing" /\ sent' = sent \cup {Datagram}
        /\ UNCHANGED <<transfer, outcome, position>>
        /\ offset' = offset + n /\ position = offset + n
        /\ offset \in Nat /\ n \in Nat /\ transfer \in Transfer
    BY DEF SendWrites, NextOffset, Inv, OffsetRight, TypeOK
  <1>2. /\ Datagram.transfer = transfer /\ Datagram.chunk_offset = offset
        /\ Datagram.payload_length = n
    BY DEF Datagram
  <1>3. InsideFile'
    BY <1>1, <1>2 DEF InsideFile
  <1>4. Covers(sent', transfer, offset + n)
    <2> SUFFICES ASSUME NEW i \in 0 .. offset + n - 1
                 PROVE  \E b \in sent' : b.transfer = transfer /\ i \in Positions(b)
      BY <1>1 DEF Covers
    <2>1. CASE i < offset
      <3>1. i \in 0 .. offset - 1
        BY <1>1, <2>1
      <3> QED
        BY <1>1, <3>1 DEF SentCovers, Covers
    <2>2. CASE ~(i < offset)
      <3>1. i \in Positions(Datagram)
        BY <1>1, <1>2, <2>2 DEF Positions
      <3> QED
        BY <1>1, <1>2, <3>1
    <2> QED
      BY <2>1, <2>2
  <1>5. \A t, m : Covers(sent, t, m) => Covers(sent', t, m)
    BY <1>1 DEF Covers
  <1>6. SentCovers'
    BY <1>1, <1>4, <1>5 DEF SentCovers
  <1> QED
    BY <1>3, <1>6

LEMMA SendReturnsKeepsCover ==
  ASSUME Inv, SentCovers, InsideFile, SendEnds \/ SendFails
  PROVE  SentCovers' /\ InsideFile'
  <1> USE FileTransferAssumption
  <1>1. /\ UNCHANGED <<transfer, position, offset, sent>> /\ sender' = "idle"
        /\ transfer \in Transfer /\ outcome \in [Transfer -> {"none", "ok", "error"}]
    BY DEF SendEnds, SendFails, SendReturns, Inv, TypeOK
  <1>2. InsideFile'
    BY <1>1 DEF InsideFile
  <1>3. ASSUME NEW t \in Transfer, PayloadSize > 0, outcome'[t] = "ok"
        PROVE  Covers(sent, t, FileLength[t])
    <2>1. CASE outcome[t] = "ok"
      BY <1>3, <2>1 DEF SentCovers
    <2>2. CASE outcome[t] # "ok"
      <3>1. t = transfer /\ SendEnds
        BY <1>1, <1>3, <2>2 DEF SendEnds, SendFails, SendReturns
      <3>2. position >= FileLength[transfer] /\ position = offset /\ sender # "idle"
            /\ position \in Nat
        BY <1>3, <3>1 DEF SendEnds, ReadsNothing, Inv, OffsetRight, TypeOK
      <3>3. offset = FileLength[transfer]
        BY <1>1, <3>2 DEF InsideFile
      <3> QED
        BY <3>1, <3>2, <3>3 DEF SentCovers
    <2> QED
      BY <2>1, <2>2
  <1> QED
    BY <1>1, <1>2, <1>3 DEF SentCovers

LEMMA WholeInvInductive == Inv /\ WholeInv /\ [Next]_vars => WholeInv'
  <1> SUFFICES ASSUME Inv, SentCovers, InsideFile, BytesFromChunks, [Next]_vars
               PROVE  WholeInv'
    BY DEF WholeInv
  <1> USE FileTransferAssumption
  <1>1. CASE SendStarts
    <2>1. /\ offset' = 0 /\ position' = 0 /\ transfer' \in Transfer
          /\ UNCHANGED <<outcome, sent, disk>>
      BY <1>1 DEF SendStarts, receiveVars, Inv, TypeOK, Transfer
    <2>2. Covers(sent, transfer', 0)
      BY DEF Covers
    <2>3. SentCovers' /\ InsideFile'
      BY <2>1, <2>2 DEF SentCovers, InsideFile
    <2> QED
      BY <2>1, <2>3, DiskUntouchedKeepsSources DEF WholeInv
  <1>2. ASSUME NEW k \in 1 .. PayloadSize, SendReads(k) PROVE WholeInv'
    <2>1. /\ UNCHANGED <<transfer, outcome, offset, sent, disk>>
          /\ sender = "reading"
          /\ position' <= FileLength[transfer]
      BY <1>2 DEF SendReads, receiveVars
    <2>2. SentCovers' /\ InsideFile'
      BY <2>1 DEF SentCovers, InsideFile
    <2> QED
      BY <2>1, <2>2, DiskUntouchedKeepsSources DEF WholeInv
  <1>3. CASE SendWrites
    BY <1>3, SendWritesKeepsCover, DiskUntouchedKeepsSources
       DEF WholeInv, SendWrites, receiveVars
  <1>4. CASE SendEnds \/ SendFails
    BY <1>4, SendReturnsKeepsCover, DiskUntouchedKeepsSources
       DEF WholeInv, SendEnds, SendFails, SendReturns, receiveVars
  <1>5. ASSUME NEW b \in in_flight, Lose(b) \/ OpenFails(b) PROVE WholeInv'
    BY <1>5, SenderIdleKeepsCover, DiskUntouchedKeepsSources
       DEF WholeInv, Lose, OpenFails, sendVars, receiveVars
  <1>6. CASE \/ DecoderConnects \/ DecoderExits \/ Accept \/ AcceptFails
             \/ NoMoreStreams \/ StreamEnds
    <2>1. UNCHANGED <<sendVars, disk>>
      BY <1>6 DEF DecoderConnects, DecoderExits, Accept, AcceptFails,
                  NoMoreStreams, StreamEnds
    <2> QED
      BY <2>1, SenderIdleKeepsCover, DiskUntouchedKeepsSources DEF WholeInv, sendVars
  <1>7. ASSUME NEW b \in in_flight, NEW k \in Nat, k <= b.payload_length,
               UNCHANGED sendVars,
               disk' = [disk EXCEPT ![WireName[b.transfer]]
                          = Written(disk[WireName[b.transfer]], b, k)]
        PROVE  WholeInv'
    <2>1. b \in sent /\ k \in 0 .. b.payload_length
      BY <1>7 DEF Inv, TypeOK, Block
    <2> QED
      BY <1>7, <2>1, WrittenFromChunk, SenderIdleKeepsCover DEF WholeInv, sendVars
  <1>8. ASSUME NEW b \in in_flight, ProcessBlock(b) PROVE WholeInv'
    <2>1. b.payload_length \in Nat /\ b.payload_length <= b.payload_length
      BY DEF Inv, TypeOK, Block
    <2> QED
      BY <1>7, <1>8, <2>1 DEF ProcessBlock
  <1>9. ASSUME NEW b \in in_flight, NEW k \in 0 .. PayloadSize - 1, WriteFails(b, k)
        PROVE  WholeInv'
    <2>1. k \in Nat /\ k <= b.payload_length
      BY <1>9 DEF Inv, TypeOK, Block, WriteFails
    <2> QED
      BY <1>7, <1>9, <2>1 DEF WriteFails
  <1>10. CASE UNCHANGED vars
    BY <1>10, SenderIdleKeepsCover, DiskUntouchedKeepsSources
       DEF WholeInv, vars, sendVars, receiveVars
  <1> QED
    BY <1>1, <1>2, <1>3, <1>4, <1>5, <1>6, <1>8, <1>9, <1>10
       DEF Next, Send, Receive, Terminated

LEMMA WholeFileFromInv == Inv /\ WholeInv => WholeFileArrives
  <1> SUFFICES ASSUME Inv, WholeInv, NEW t \in Transfer, PayloadSize > 0,
                      outcome[t] = "ok", Chunks(t) \subseteq received
               PROVE
        /\ \A i \in 0 .. FileLength[t] - 1 :
             /\ i \in DOMAIN disk[WireName[t]]
             /\ \/ disk[WireName[t]][i] = ByteOf(t, i)
                \/ \E u \in Transfer \ {t} :
                     /\ WireName[u] = WireName[t]
                     /\ Chunks(u) # {}
                     /\ disk[WireName[t]][i] = ByteOf(u, i)
        /\ \A i \in DOMAIN disk[WireName[t]] :
             disk[WireName[t]][i].from = t => i < FileLength[t]
    BY DEF WholeFileArrives
  <1> USE FileTransferAssumption
  <1> DEFINE w == WireName[t]
  <1>1. w \in Names /\ t \in Nat /\ t < NumTransfers + 1
    BY DEF Transfer
  <1>2. \A b \in sent : /\ b.transfer \in Transfer /\ b.chunk_offset \in Nat
                        /\ b.payload_length \in Nat /\ FileLength[b.transfer] \in Nat
    BY DEF Inv, TypeOK, Block
  <1>3. ASSUME NEW i \in 0 .. FileLength[t] - 1
        PROVE  /\ i \in DOMAIN disk[w]
               /\ \/ disk[w][i] = ByteOf(t, i)
                  \/ \E u \in Transfer \ {t} :
                       /\ WireName[u] = WireName[t] /\ Chunks(u) # {}
                       /\ disk[w][i] = ByteOf(u, i)
    <2>1. PICK b \in sent : b.transfer = t /\ i \in Positions(b)
      BY <1>3 DEF WholeInv, SentCovers, Covers
    <2>2. b \in received
      BY <2>1 DEF Chunks
    <2>3. i \in DOMAIN disk[w] /\ disk[w][i] # Old(i)
      BY <2>1, <2>2 DEF Inv, ReceivedBytesStay
    <2>4. PICK c \in sent : ComesFrom(w, i, disk[w][i], c)
      BY <1>1, <2>3 DEF WholeInv, BytesFromChunks, HasSource
    <2>5. c \in Chunks(c.transfer)
      BY DEF Chunks
    <2> QED
      BY <1>2, <2>3, <2>4, <2>5 DEF ComesFrom
  <1>4. ASSUME NEW i \in DOMAIN disk[w], disk[w][i].from = t PROVE i < FileLength[t]
    <2>1. disk[w][i] # Old(i)
      BY <1>1, <1>4 DEF Old
    <2>2. PICK c \in sent : ComesFrom(w, i, disk[w][i], c)
      BY <1>1, <2>1 DEF WholeInv, BytesFromChunks, HasSource
    <2>3. c.transfer = t
      BY <1>4, <2>2 DEF ComesFrom, ByteOf
    <2>4. i \in Positions(c) /\ c.chunk_offset + c.payload_length <= FileLength[t]
      BY <2>2, <2>3 DEF ComesFrom, WholeInv, InsideFile
    <2> QED
      BY <1>2, <2>3, <2>4 DEF Positions
  <1> QED
    BY <1>3, <1>4

(* If send returned Ok and every block it wrote was processed, the file is *)
(* there, all of it and nothing more, whatever the sizes of the reads, the *)
(* order and the repetition of the blocks; for every file, name and size   *)
(* of the blocks.                                                          *)
THEOREM FileTransferWholeFileArrives == Spec => []WholeFileArrives
  <1>1. Init => WholeInv
    <2> SUFFICES ASSUME Init PROVE WholeInv
      OBVIOUS
    <2>1. \A w \in Names : \A i \in DOMAIN disk[w] : disk[w][i] = Old(i)
      BY DEF Init
    <2>2. SentCovers /\ InsideFile
      BY DEF Init, SentCovers, InsideFile
    <2> QED
      BY <2>1, <2>2 DEF WholeInv, BytesFromChunks, HasSource
  <1> QED
    BY <1>1, InitInv, NextInv, WholeInvInductive, WholeFileFromInv, PTL DEF Spec

-----------------------------------------------------------------------------
(* The name of the file in the header (module FileName).  That the name    *)
(* which comes out is the longest beginning that fits is carried through   *)
(* the three loops: TruncateInv, FilterInv and, for the field, HeaderInv.  *)

(* What truncate_utf8 has found out so far.                                *)
TruncateInv ==
  /\ name \in FileNames
  /\ end \in Nat /\ end <= FileNameLen
  /\ step = "truncate" =>
       /\ at = 0 /\ file_name = << >>
       /\ Len(name) > FileNameLen =>
            \A m \in end + 1 .. FileNameLen : ~IsCharBoundary(name, m)
  /\ step # "truncate" =>
       /\ end <= Len(name)
       /\ IsCharBoundary(name, end)
       /\ \A m \in end + 1 .. Len(name) : IsCharBoundary(name, m) => m > FileNameLen

(* What the filter has let through of the characters so far.               *)
FilterInv ==
  /\ at \in Nat
  /\ step # "truncate" => at <= end
  /\ IsCharBoundary(name, at)
  /\ file_name \in Seq(Utf8Byte)
  /\ IsUtf8(file_name)
  /\ IsFiltered(file_name, at)

HeaderInv ==
  /\ step \in {"truncate", "filter", "deserialize", "done"}
  /\ step \in {"deserialize", "done"} =>
       /\ at = end
       /\ field = file_name \o [i \in 1 .. Padding |-> Nul]
  /\ step = "done" => result = file_name

NameInv == TruncateInv /\ FilterInv /\ HeaderInv

LEMMA NameTypes ==
  ASSUME name \in FileNames
  PROVE  /\ name \in Seq(Utf8Byte) /\ Len(name) \in Nat
         /\ IsUtf8(name)
         /\ \A i \in 1 .. Len(name) : name[i] \in Utf8Byte
  BY FileNameAssumption

LEMMA ByteTypes ==
  ASSUME NEW b \in Utf8Byte
  PROVE  /\ b.char \in Char /\ Width[b.char] \in 1 .. 4
         /\ b.byte \in 1 .. Width[b.char] /\ b.byte \in Nat
         /\ b # Nul
<1>1. PICK c \in Char : b \in [char : {c}, byte : 1 .. Width[c]]
  BY DEF Utf8Byte
<1>2. b.char = c /\ b.byte \in 1 .. Width[c] /\ Width[c] \in 1 .. 4
  BY <1>1, FileNameAssumption
<1>3. b.byte \in Nat
  BY <1>2
<1>4. b # Nul
  BY <1>2, FileNameAssumption DEF Nul
<1> QED
  BY <1>2, <1>3, <1>4

(* A character is whole: from a boundary on, its bytes follow one another, *)
(* and after the last there is a boundary.                                 *)
LEMMA WholeChar ==
  ASSUME name \in FileNames, at \in Nat, at < Len(name), IsCharBoundary(name, at)
  PROVE  LET c == name[at + 1].char IN
         /\ c \in Char /\ Width[c] \in 1 .. 4
         /\ at + Width[c] <= Len(name)
         /\ \A j \in 1 .. Width[c] : name[at + j].char = c /\ name[at + j].byte = j
         /\ IsCharBoundary(name, at + Width[c])
         /\ \A m \in at + 1 .. at + Width[c] - 1 : ~IsCharBoundary(name, m)
<1> DEFINE c == name[at + 1].char
           w == Width[c]
           R(j) == at + j <= Len(name) /\ name[at + j].char = c /\ name[at + j].byte = j
<1>1. /\ Len(name) \in Nat
      /\ \A i \in 1 .. Len(name) : /\ name[i].byte \in 1 .. Width[name[i].char]
                                   /\ name[i].byte \in Nat
  BY NameTypes, ByteTypes
<1>2. at + 1 \in 1 .. Len(name)
  BY <1>1
<1>3. c \in Char /\ w \in 1 .. 4
  BY <1>2, NameTypes, ByteTypes
<1>4. R(1)
  <2>1. name[at + 1].byte = 1
    <3>1. CASE at = 0
      <4>1. ~(name[at + 1].byte > 1)
        BY <1>2, <3>1, NameTypes DEF IsUtf8
      <4> QED
        BY <1>1, <1>2, <4>1
    <3>2. CASE at # 0
      BY <3>2, <1>1 DEF IsCharBoundary
    <3> QED
      BY <3>1, <3>2
  <2> QED
    BY <1>2, <2>1
<1>5. ASSUME NEW j \in 1 .. 3, j < w, R(j) PROVE R(j + 1)
  <2>1. at + j \in 1 .. Len(name) /\ name[at + j].byte < Width[name[at + j].char]
    BY <1>1, <1>3, <1>5
  <2>2. at + j < Len(name) /\ Follows(name[(at + j) + 1], name[at + j])
    BY <2>1, NameTypes DEF IsUtf8
  <2>3. (at + j) + 1 = at + (j + 1)
    OBVIOUS
  <2> QED
    BY <1>1, <1>5, <2>2, <2>3 DEF Follows
<1> HIDE DEF R
<1>6. ASSUME NEW j \in 1 .. w PROVE R(j)
  <2>1. R(1) /\ (2 <= w => R(2))
    BY <1>3, <1>4, <1>5
  <2>2. 3 <= w => R(3)
    BY <1>3, <1>5, <2>1
  <2>3. 4 <= w => R(4)
    BY <1>3, <1>5, <2>2
  <2>4. j \in {1, 2, 3, 4}
    BY <1>3
  <2> QED
    BY <1>3, <2>1, <2>2, <2>3, <2>4
<1>7. R(w)
  BY <1>3, <1>6
<1>8. IsCharBoundary(name, at + w)
  <2>1. CASE at + w < Len(name)
    <3> DEFINE m == at + w
    <3>1. m + 1 \in 1 .. Len(name) /\ m \in 1 .. Len(name) /\ m + 1 > 1 /\ (m + 1) - 1 = m
      <4>1. w \in Nat /\ w >= 1 /\ Len(name) \in Nat
        BY <1>1, <1>3
      <4> HIDE DEF w
      <4> QED
        BY <2>1, <4>1
    <3>2. name[m].byte = w /\ name[m].char = c
      BY <1>7 DEF R
    <3>3. ASSUME name[m + 1].byte > 1 PROVE FALSE
      <4>1. Follows(name[m + 1], name[m])
        BY <3>1, <3>3, NameTypes DEF IsUtf8
      <4>2. name[m + 1].char = c /\ name[m + 1].byte = w + 1
        BY <3>2, <4>1 DEF Follows
      <4>3. name[m + 1].byte \in 1 .. w
        BY <1>1, <3>1, <4>2
      <4> QED
        BY <1>3, <4>2, <4>3
    <3>4. name[m + 1].byte \in Nat /\ name[m + 1].byte >= 1
      BY <1>1, <3>1
    <3>5. name[m + 1].byte = 1
      BY <3>3, <3>4
    <3> QED
      BY <3>5 DEF IsCharBoundary
  <2>2. CASE at + w = Len(name)
    BY <2>2 DEF IsCharBoundary
  <2>3. at + w <= Len(name)
    BY <1>7 DEF R
  <2> QED
    BY <1>1, <1>3, <2>1, <2>2, <2>3
<1>9. ASSUME NEW m \in at + 1 .. at + w - 1 PROVE ~IsCharBoundary(name, m)
  <2>1. PICK j \in 1 .. 3 : m = at + j /\ j < w
    <3>1. m - at \in 1 .. 3 /\ m = at + (m - at) /\ m - at < w
      BY <1>3
    <3> QED
      BY <3>1
  <2>2. R(j + 1) /\ R(w)
    BY <1>3, <1>6, <1>7, <2>1
  <2>3. name[at + (j + 1)].byte = j + 1 /\ m + 1 = at + (j + 1) /\ j + 1 # 1
    BY <2>1, <2>2 DEF R
  <2>4. m # 0 /\ m # Len(name)
    BY <1>1, <1>3, <2>1, <2>2 DEF R
  <2> QED
    BY <2>3, <2>4 DEF IsCharBoundary
<1> QED
  BY <1>3, <1>6, <1>7, <1>8, <1>9 DEF R

(* How many bytes are kept.                                                *)
LEMMA KeptCount ==
  ASSUME NEW k \in Nat
  PROVE  /\ IsFiniteSet(Kept(k))
         /\ Cardinality(Kept(k)) \in Nat /\ Cardinality(Kept(k)) <= k
<1>1. IsFiniteSet(1 .. k) /\ Cardinality(1 .. k) = k
  <2>1. IsFiniteSet(1 .. k) /\ Cardinality(1 .. k) = IF 1 > k THEN 0 ELSE k - 1 + 1
    BY FS_Interval
  <2> QED
    BY <2>1
<1>2. Kept(k) \subseteq 1 .. k
  BY DEF Kept
<1>3. IsFiniteSet(Kept(k)) /\ Cardinality(Kept(k)) <= Cardinality(1 .. k)
  BY <1>1, <1>2, FS_Subset
<1> QED
  BY <1>1, <1>3, FS_CardinalityType

LEMMA KeptNext ==
  ASSUME NEW k \in Nat
  PROVE  Cardinality(Kept(k + 1)) =
           IF name[k + 1].char \in Whitespace THEN Cardinality(Kept(k))
                                              ELSE Cardinality(Kept(k)) + 1
<1>1. CASE name[k + 1].char \in Whitespace
  <2>1. Kept(k + 1) = Kept(k)
    BY <1>1 DEF Kept
  <2> QED
    BY <1>1, <2>1
<1>2. CASE name[k + 1].char \notin Whitespace
  <2>1. Kept(k + 1) = Kept(k) \cup {k + 1} /\ k + 1 \notin Kept(k)
    BY <1>2 DEF Kept
  <2>2. Cardinality(Kept(k) \cup {k + 1}) = Cardinality(Kept(k)) + 1
    BY <2>1, KeptCount, FS_AddElement
  <2> QED
    BY <1>2, <2>1, <2>2
<1> QED
  BY <1>1, <1>2

(* The count over the bytes of one character that is not whitespace, ...   *)
LEMMA KeptChar ==
  ASSUME NEW k \in Nat, NEW w \in 1 .. 4,
         \A j \in 1 .. w : name[k + j].char \notin Whitespace
  PROVE  \A j \in 1 .. w : Cardinality(Kept(k + j)) = Cardinality(Kept(k)) + j
<1> DEFINE C(j) == Cardinality(Kept(k + j)) = Cardinality(Kept(k)) + j
<1>0. Cardinality(Kept(k)) \in Nat
  BY KeptCount
<1>1. C(1)
  BY KeptNext
<1>2. ASSUME NEW j \in 1 .. 3, j < w, C(j) PROVE C(j + 1)
  <2>1. (k + j) + 1 = k + (j + 1) /\ j + 1 \in 1 .. w /\ k + j \in Nat
    BY <1>2
  <2>2. name[(k + j) + 1].char \notin Whitespace
    BY <2>1
  <2>3. Cardinality(Kept((k + j) + 1)) = Cardinality(Kept(k + j)) + 1
    BY <2>1, <2>2, KeptNext
  <2> QED
    BY <1>0, <1>2, <2>1, <2>3
<1> HIDE DEF C
<1>3. ASSUME NEW j \in 1 .. w PROVE C(j)
  <2>1. 2 <= w => C(2)
    BY <1>1, <1>2
  <2>2. 3 <= w => C(3)
    BY <1>2, <2>1
  <2>3. 4 <= w => C(4)
    BY <1>2, <2>2
  <2>4. j \in {1, 2, 3, 4}
    OBVIOUS
  <2> QED
    BY <1>1, <2>1, <2>2, <2>3, <2>4
<1> QED
  BY <1>3 DEF C

(* ... and of one that is.                                                 *)
LEMMA KeptBlank ==
  ASSUME NEW k \in Nat, NEW w \in 1 .. 4,
         \A j \in 1 .. w : name[k + j].char \in Whitespace
  PROVE  Kept(k + w) = Kept(k)
<1>1. ASSUME NEW i \in 1 .. k + w, i \notin 1 .. k PROVE name[i].char \in Whitespace
  <2>1. i - k \in 1 .. w /\ k + (i - k) = i
    BY <1>1
  <2> QED
    BY <2>1
<1> QED
  BY <1>1 DEF Kept

(* A string followed by a character is a string.                           *)
LEMMA AppendChar ==
  ASSUME NEW s \in Seq(Utf8Byte), IsUtf8(s), NEW t \in Seq(Utf8Byte), NEW c \in Char,
         Len(t) = Width[c], Width[c] \in 1 .. 4,
         \A j \in 1 .. Width[c] : t[j].char = c /\ t[j].byte = j
  PROVE  IsUtf8(s \o t)
<1> DEFINE u == s \o t
           n1 == Len(s)
           w == Width[c]
<1>1. /\ n1 \in Nat /\ w \in 1 .. 4 /\ Len(u) = n1 + w /\ Len(s \o t) = n1 + w
      /\ \A i \in 1 .. n1 : u[i] = s[i]
      /\ \A j \in 1 .. w : u[n1 + j] = t[j]
  OBVIOUS
<1> HIDE DEF u
<1> SUFFICES ASSUME NEW i \in 1 .. n1 + w
             PROVE  /\ u[i].byte > 1 => i > 1 /\ Follows(u[i], u[i - 1])
                    /\ u[i].byte < Width[u[i].char] => i < n1 + w /\ Follows(u[i + 1], u[i])
  BY <1>1 DEF IsUtf8, u
<1>2. CASE i \in 1 .. n1
  <2>1. u[i] = s[i]
    BY <1>1, <1>2
  <2>2. i > 1 => i - 1 \in 1 .. n1 /\ u[i - 1] = s[i - 1]
    <3>1. i > 1 => i - 1 \in 1 .. n1
      BY <1>1, <1>2
    <3> QED
      BY <1>1, <3>1
  <2>3. i < n1 => i + 1 \in 1 .. n1 /\ u[i + 1] = s[i + 1]
    BY <1>1, <1>2
  <2>4. /\ s[i].byte > 1 => i > 1 /\ Follows(s[i], s[i - 1])
        /\ s[i].byte < Width[s[i].char] => i < n1 /\ Follows(s[i + 1], s[i])
    BY <1>2 DEF IsUtf8
  <2> QED
    BY <1>1, <2>1, <2>2, <2>3, <2>4
<1>3. CASE i \notin 1 .. n1
  <2>0. ASSUME NEW k \in 1 .. w PROVE u[n1 + k].char = c /\ u[n1 + k].byte = k
    <3>1. u[n1 + k] = t[k]
      BY <1>1
    <3> QED
      BY <3>1
  <2> DEFINE j == i - n1
  <2>1. j \in 1 .. w /\ n1 + j = i /\ i \in Nat
    BY <1>1, <1>3
  <2>2. u[i].char = c /\ u[i].byte = j
    BY <2>0, <2>1
  <2>3. j > 1 => i > 1 /\ u[i - 1].char = c /\ u[i - 1].byte = j - 1
    <3> SUFFICES ASSUME j > 1 PROVE i > 1 /\ u[i - 1].char = c /\ u[i - 1].byte = j - 1
      OBVIOUS
    <3>1. j - 1 \in 1 .. w /\ n1 + (j - 1) = i - 1 /\ i > 1
      BY <1>1, <2>1
    <3> HIDE DEF j
    <3>2. PICK k \in 1 .. w : k = j - 1
      BY <3>1
    <3>3. u[n1 + k].char = c /\ u[n1 + k].byte = k
      BY <2>0
    <3> QED
      BY <3>1, <3>2, <3>3
  <2>4. j < w => i < n1 + w /\ u[i + 1].char = c /\ u[i + 1].byte = j + 1
    <3> SUFFICES ASSUME j < w PROVE i < n1 + w /\ u[i + 1].char = c /\ u[i + 1].byte = j + 1
      OBVIOUS
    <3>1. j + 1 \in 1 .. w /\ n1 + (j + 1) = i + 1 /\ i < n1 + w
      BY <1>1, <2>1
    <3> HIDE DEF j
    <3>2. PICK k \in 1 .. w : k = j + 1
      BY <3>1
    <3>3. u[n1 + k].char = c /\ u[n1 + k].byte = k
      BY <2>0
    <3> QED
      BY <3>1, <3>2, <3>3
  <2>5. j \in Nat /\ (j - 1) + 1 = j
    BY <2>1
  <2> HIDE DEF j
  <2> QED
    BY <2>2, <2>3, <2>4, <2>5 DEF Follows
<1> QED
  BY <1>2, <1>3

LEMMA InitNameInv == NameInit => NameInv
<1> SUFFICES ASSUME NameInit PROVE NameInv
  OBVIOUS
<1>1. TruncateInv
  BY FileNameAssumption DEF NameInit, TruncateInv
<1>2. FilterInv
  <2>1. Len(<< >>) = 0 /\ << >> \in Seq(Utf8Byte)
    OBVIOUS
  <2>2. Kept(0) = {} /\ Cardinality({}) = 0
    BY FS_EmptySet DEF Kept
  <2>3. IsUtf8(<< >>)
    BY <2>1 DEF IsUtf8
  <2> QED
    BY <2>1, <2>2, <2>3 DEF NameInit, FilterInv, IsFiltered, IsCharBoundary
<1>3. HeaderInv
  BY DEF NameInit, HeaderInv
<1> QED
  BY <1>1, <1>2, <1>3 DEF NameInv

(* The loop of truncate_utf8 ends at 0 at the latest.                      *)
LEMMA TruncateKeepsInv ==
  NameInv /\ (KeepWhole \/ MoveBack \/ Cut) => TruncateInv'
<1> SUFFICES ASSUME NameInv, KeepWhole \/ MoveBack \/ Cut PROVE TruncateInv'
  OBVIOUS
<1> USE DEF NameInv, TruncateInv
<1>1. /\ name' = name /\ name \in FileNames /\ Len(name) \in Nat /\ FileNameLen \in Nat
      /\ at' = at /\ file_name' = file_name /\ end \in Nat /\ step = "truncate"
  BY NameTypes, FileNameAssumption DEF KeepWhole, MoveBack, Cut
<1>2. CASE KeepWhole
  BY <1>1, <1>2 DEF KeepWhole, IsCharBoundary
<1>3. CASE MoveBack
  <2>1. end # 0 /\ ~IsCharBoundary(name, end) /\ end' = end - 1 /\ step' = step
        /\ Len(name) > FileNameLen
    BY <1>3 DEF MoveBack, AtBoundary, IsCharBoundary
  <2>2. ASSUME NEW m \in end' + 1 .. FileNameLen PROVE ~IsCharBoundary(name, m)
    <3>1. m = end \/ m \in end + 1 .. FileNameLen
      BY <1>1, <2>1
    <3> QED
      BY <1>1, <2>1, <3>1
  <2>3. end' \in Nat /\ end' <= FileNameLen
    BY <1>1, <2>1
  <2> QED
    BY <1>1, <2>1, <2>2, <2>3
<1>4. CASE Cut
  <2>1. end' = end /\ IsCharBoundary(name, end) /\ Len(name) > FileNameLen /\ step' = "filter"
    BY <1>4 DEF Cut, AtBoundary
  <2>2. ASSUME NEW m \in end + 1 .. Len(name), ~(m > FileNameLen)
        PROVE  ~IsCharBoundary(name, m)
    <3>1. m \in end + 1 .. FileNameLen
      BY <1>1, <2>2
    <3> QED
      BY <1>1, <2>1, <3>1
  <2> QED
    BY <1>1, <2>1, <2>2
<1> QED
  BY <1>2, <1>3, <1>4

(* The filter stops exactly at the end of the truncated name.              *)
LEMMA CollectKeepsInv == NameInv /\ CollectChar => FilterInv'
<1> SUFFICES ASSUME NameInv, CollectChar PROVE FilterInv'
  OBVIOUS
<1> DEFINE c == name[at + 1].char
           w == Width[c]
           t == SubSeq(name, at + 1, at + w)
<1>1. /\ name \in FileNames /\ name \in Seq(Utf8Byte) /\ Len(name) \in Nat
      /\ at \in Nat /\ end \in Nat /\ end <= Len(name) /\ at < end
      /\ IsCharBoundary(name, at) /\ IsCharBoundary(name, end)
      /\ file_name \in Seq(Utf8Byte) /\ IsUtf8(file_name) /\ IsFiltered(file_name, at)
      /\ name' = name /\ end' = end /\ step' = step /\ at' = at + w
      /\ file_name' = IF c \in Whitespace THEN file_name ELSE file_name \o t
  BY NameTypes DEF NameInv, TruncateInv, FilterInv, CollectChar, NextChar
<1>2. /\ c \in Char /\ w \in 1 .. 4 /\ at + w <= Len(name)
      /\ \A j \in 1 .. w : name[at + j].char = c /\ name[at + j].byte = j
      /\ IsCharBoundary(name, at + w)
      /\ \A m \in at + 1 .. at + w - 1 : ~IsCharBoundary(name, m)
  BY <1>1, WholeChar
<1> HIDE DEF c, w
<1>3. at + w \in Nat /\ at + w <= end
  <2>1. ASSUME end < at + w PROVE FALSE
    <3>1. end \in at + 1 .. at + w - 1
      BY <1>1, <1>2, <2>1
    <3> QED
      BY <1>1, <1>2, <3>1
  <2> QED
    BY <1>1, <1>2, <2>1
<1>4. \A k : Kept(k)' = Kept(k)
  BY <1>1 DEF Kept
<1>5. CASE c \in Whitespace
  <2>1. Kept(at + w) = Kept(at)
    BY <1>1, <1>2, <1>5, KeptBlank
  <2>2. IsFiltered(file_name, at)
    BY <1>1
  <2>3. /\ Len(file_name) = Cardinality(Kept(at + w))
        /\ \A i \in Kept(at + w) : file_name[Cardinality(Kept(i))] = name[i]
    BY <2>1, <2>2 DEF IsFiltered
  <2>4. PICK k \in Nat : k = at + w
    BY <1>3
  <2>5. IsFiltered(file_name, k)'
    BY <1>1, <1>4, <1>5, <2>3, <2>4 DEF IsFiltered
  <2>6. IsCharBoundary(name, k)'
    BY <1>1, <1>2, <2>4 DEF IsCharBoundary
  <2> QED
    BY <1>1, <1>3, <1>5, <2>4, <2>5, <2>6 DEF FilterInv
<1>6. CASE c \notin Whitespace
  <2> DEFINE n0 == Len(file_name)
             u == file_name \o t
  <2>1. /\ t \in Seq(Utf8Byte) /\ Len(t) = w
        /\ \A j \in 1 .. w : t[j] = name[at + j]
    BY <1>1, <1>2
  <2> HIDE DEF t
  <2>2. /\ u \in Seq(Utf8Byte) /\ n0 \in Nat /\ Len(u) = n0 + w
        /\ \A i \in 1 .. n0 : u[i] = file_name[i]
        /\ \A j \in 1 .. w : u[n0 + j] = name[at + j]
    BY <1>1, <1>2, <2>1
  <2>3. IsUtf8(u)
    <3>1. Width[c] = w /\ \A j \in 1 .. w : t[j].char = c /\ t[j].byte = j
      BY <1>2, <2>1 DEF w
    <3> QED
      BY <1>1, <1>2, <2>1, <3>1, AppendChar
  <2> HIDE DEF u
  <2>4. n0 = Cardinality(Kept(at)) /\ \A i \in Kept(at) : file_name[Cardinality(Kept(i))] = name[i]
    BY <1>1 DEF IsFiltered
  <2>5. \A j \in 1 .. w : Cardinality(Kept(at + j)) = n0 + j
    BY <1>1, <1>2, <1>6, <2>4, KeptChar
  <2>6. ASSUME NEW i \in Kept(at + w) PROVE u[Cardinality(Kept(i))] = name[i]
    <3>1. CASE i \in 1 .. at
      <4>1. i \in Kept(at) /\ i \in Nat /\ i \in Kept(i)
        BY <2>6, <3>1 DEF Kept
      <4>2. Kept(i) \subseteq Kept(at)
        BY <1>1, <3>1 DEF Kept
      <4>3. Cardinality(Kept(i)) <= Cardinality(Kept(at))
        BY <1>1, <4>2, KeptCount, FS_Subset
      <4>4. Cardinality(Kept(i)) # 0
        BY <4>1, KeptCount, FS_EmptySet
      <4>5. Cardinality(Kept(i)) \in 1 .. n0
        BY <2>2, <2>4, <4>1, <4>3, <4>4, KeptCount
      <4> QED
        BY <2>2, <2>4, <4>1, <4>5
    <3>2. CASE i \notin 1 .. at
      <4>1. i \in 1 .. at + w
        BY <2>6 DEF Kept
      <4>2. i - at \in 1 .. w /\ at + (i - at) = i
        BY <1>1, <1>2, <3>2, <4>1
      <4> QED
        BY <2>2, <2>5, <4>2
    <3> QED
      BY <3>1, <3>2
  <2>7. Len(u) = Cardinality(Kept(at + w))
    BY <1>2, <2>2, <2>5
  <2>8. PICK k \in Nat : k = at + w
    BY <1>3
  <2>9. file_name' = u
    BY <1>1, <1>6 DEF u
  <2>10. IsFiltered(file_name, k)'
    BY <1>1, <1>4, <2>6, <2>7, <2>8, <2>9 DEF IsFiltered
  <2>11. IsCharBoundary(name, k)'
    BY <1>1, <1>2, <2>8 DEF IsCharBoundary
  <2>12. IsUtf8(file_name')
    BY <2>3, <2>9
  <2> QED
    BY <1>1, <1>3, <2>2, <2>8, <2>9, <2>10, <2>11, <2>12 DEF FilterInv
<1> QED
  BY <1>5, <1>6

(* deserialize finds the name that serialize has put into the field.       *)
LEMMA FieldHoldsName ==
  ASSUME NEW s \in Seq(Utf8Byte), NEW p \in Nat, Len(s) + p = FileNameLen,
         field = s \o [i \in 1 .. p |-> Nul]
  PROVE  Len(field) = FileNameLen /\ RawName = s
<1> DEFINE k == Len(s)
<1>1. /\ k \in Nat /\ FileNameLen \in Nat /\ Len(field) = k + p
      /\ \A i \in 1 .. k : field[i] = s[i]
      /\ \A j \in 1 .. p : field[k + j] = Nul
      /\ field \in Seq(Utf8Byte \cup {Nul})
  BY FileNameAssumption
<1>2. \A i \in 1 .. k : field[i] # Nul
  BY <1>1, ByteTypes
<1>3. ASSUME NEW i \in k + 1 .. k + p PROVE field[i] = Nul
  <2>1. i - k \in 1 .. p /\ k + (i - k) = i
    BY <1>1
  <2> QED
    BY <1>1, <2>1
<1>4. Nuls = k + 1 .. k + p
  BY <1>1, <1>2, <1>3 DEF Nuls
<1>5. RawNameEnd = k
  <2>1. CASE p = 0
    BY <1>1, <1>4, <2>1 DEF RawNameEnd
  <2>2. CASE p # 0
    <3>1. k + 1 \in Nuls /\ \A j \in Nuls : j \in Nat /\ k + 1 <= j
      BY <1>1, <1>4, <2>2
    <3>2. FirstNul \in Nuls /\ \A j \in Nuls : FirstNul <= j
      BY <3>1 DEF FirstNul
    <3>3. FirstNul = k + 1
      BY <1>1, <3>1, <3>2
    <3> QED
      BY <1>1, <3>1, <3>3 DEF RawNameEnd
  <2> QED
    BY <2>1, <2>2
<1>6. SubSeq(field, 1, k) = s
  BY <1>1
<1> QED
  BY <1>1, <1>5, <1>6 DEF RawName

LEMMA FitsField ==
  ASSUME NameInv, step # "truncate"
  PROVE  Padding \in Nat /\ Len(file_name) + Padding = FileNameLen /\ Len(file_name) \in Nat
<1>1. /\ at \in Nat /\ end \in Nat /\ at <= end /\ end <= FileNameLen /\ FileNameLen \in Nat
      /\ file_name \in Seq(Utf8Byte) /\ Len(file_name) = Cardinality(Kept(at))
  BY FileNameAssumption DEF NameInv, TruncateInv, FilterInv, IsFiltered
<1>2. Len(file_name) <= at /\ Len(file_name) \in Nat
  BY <1>1, KeptCount
<1> QED
  BY <1>1, <1>2 DEF Padding

LEMMA NameInvInductive == NameInv /\ [NameNext]_nameVars => NameInv'
<1> SUFFICES ASSUME NameInv, [NameNext]_nameVars PROVE NameInv'
  OBVIOUS
<1>1. CASE KeepWhole \/ MoveBack \/ Cut
  <2>1. TruncateInv'
    BY <1>1, TruncateKeepsInv
  <2>2. UNCHANGED <<name, at, file_name, field, result>> /\ step = "truncate"
        /\ step' \in {"truncate", "filter"}
    BY <1>1 DEF KeepWhole, MoveBack, Cut
  <2>3. FilterInv'
    <3>1. at = 0 /\ end' \in Nat
      BY <2>1, <2>2 DEF NameInv, TruncateInv
    <3> QED
      BY <2>2, <3>1 DEF NameInv, FilterInv, IsFiltered, IsCharBoundary, Kept
  <2>4. HeaderInv'
    BY <2>2 DEF HeaderInv
  <2> QED
    BY <2>1, <2>3, <2>4 DEF NameInv
<1>2. CASE CollectChar
  <2>1. FilterInv'
    BY <1>2, CollectKeepsInv
  <2>2. UNCHANGED <<name, end, field, result, step>> /\ step = "filter"
    BY <1>2 DEF CollectChar
  <2>3. TruncateInv' /\ HeaderInv'
    BY <2>2 DEF NameInv, TruncateInv, HeaderInv, IsCharBoundary
  <2> QED
    BY <2>1, <2>3 DEF NameInv
<1>3. ASSUME UNCHANGED <<name, end, at, file_name>>, step # "truncate", step' # "truncate"
      PROVE  TruncateInv' /\ FilterInv'
  BY <1>3 DEF NameInv, TruncateInv, FilterInv, IsFiltered, IsCharBoundary, Kept
<1>4. CASE Serialize
  <2>1. TruncateInv' /\ FilterInv'
    BY <1>3, <1>4 DEF Serialize
  <2>2. /\ at = end /\ UNCHANGED <<end, at, file_name>> /\ step' = "deserialize"
        /\ field' = file_name \o [i \in 1 .. Padding |-> Nul]
    BY <1>4 DEF NameInv, TruncateInv, FilterInv, Serialize
  <2>3. Padding' = Padding
    BY <2>2 DEF Padding
  <2> QED
    BY <2>1, <2>2, <2>3 DEF NameInv, HeaderInv
<1>5. CASE Deserialize
  <2>1. TruncateInv' /\ FilterInv'
    BY <1>3, <1>5 DEF Deserialize
  <2>2. /\ file_name \in Seq(Utf8Byte) /\ IsUtf8(file_name) /\ at = end
        /\ field = file_name \o [i \in 1 .. Padding |-> Nul]
    BY <1>5 DEF NameInv, FilterInv, HeaderInv, Deserialize
  <2>3. RawName = file_name
    BY <1>5, <2>2, FitsField, FieldHoldsName DEF Deserialize
  <2>4. /\ UNCHANGED <<end, at, file_name, field>> /\ step' = "done" /\ result' = file_name
    BY <1>5, <2>2, <2>3 DEF Deserialize
  <2>5. Padding' = Padding
    BY <2>4 DEF Padding
  <2> QED
    BY <2>1, <2>2, <2>4, <2>5 DEF NameInv, HeaderInv
<1>6. CASE UNCHANGED nameVars
  BY <1>6 DEF nameVars, NameInv, TruncateInv, FilterInv, HeaderInv, IsFiltered,
              IsCharBoundary, Kept, Padding
<1> QED
  BY <1>1, <1>2, <1>4, <1>5, <1>6 DEF NameNext, Finished

LEMMA NameInvInvariant == NameSpec => []NameInv
  BY InitNameInv, NameInvInductive, PTL DEF NameSpec

(* The field that serialize makes has the same size for every name.        *)
THEOREM FileNameFieldHasItsSize == NameSpec => []FieldHasItsSize
<1>1. NameInv => FieldHasItsSize
  <2> SUFFICES ASSUME NameInv, step \in {"deserialize", "done"}
               PROVE  Len(field) = FileNameLen
    BY DEF NameInv, HeaderInv, FieldHasItsSize
  <2>1. file_name \in Seq(Utf8Byte) /\ field = file_name \o [i \in 1 .. Padding |-> Nul]
    BY DEF NameInv, FilterInv, HeaderInv
  <2> QED
    BY <2>1, FitsField, FieldHoldsName
<1> QED
  BY <1>1, NameInvInvariant, PTL

(* deserialize accepts every header that serialize has made.               *)
THEOREM FileNameIsAccepted == NameSpec => []NameIsAccepted
<1>1. NameInv => NameIsAccepted
  BY DEF NameInv, HeaderInv, NameIsAccepted
<1> QED
  BY <1>1, NameInvInvariant, PTL

(* The name that arrives is the longest beginning of the name that fits,   *)
(* without its whitespace: for any characters of up to four bytes, any     *)
(* name and any size of the field.                                         *)
THEOREM FileNameIsLongestPrefix == NameSpec => []NameIsLongestPrefix
<1>1. NameInv => NameIsLongestPrefix
  <2> SUFFICES ASSUME NameInv, step = "done"
               PROVE  \E k \in 0 .. Len(name) :
                        /\ k <= FileNameLen
                        /\ IsCharBoundary(name, k)
                        /\ \A m \in k + 1 .. Len(name) :
                             IsCharBoundary(name, m) => m > FileNameLen
                        /\ IsFiltered(result, k)
    BY DEF NameIsLongestPrefix
  <2>1. end \in 0 .. Len(name)
    BY NameTypes DEF NameInv, TruncateInv
  <2>2. /\ end <= FileNameLen
        /\ IsCharBoundary(name, end)
        /\ \A m \in end + 1 .. Len(name) : IsCharBoundary(name, m) => m > FileNameLen
    BY DEF NameInv, TruncateInv
  <2>3. IsFiltered(result, end)
    BY DEF NameInv, FilterInv, HeaderInv
  <2> QED
    BY <2>1, <2>2, <2>3
<1> QED
  BY <1>1, NameInvInvariant, PTL
=============================================================================
