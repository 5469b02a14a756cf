SPECIFICATION FairSpec
CONSTANTS
  NumTransfers = 2
  MaxStreams = 2
  PayloadSize = 2
  FileLength <- ThreeAndTwo
  WireName <- SameName
  OldLength <- OldAb
  Unopenable = {}
INVARIANTS TypeOK BytesInPlace ReceivedBytesStay WholeFileArrives
PROPERTY DecoderServed
