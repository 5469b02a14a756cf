# TLA+ models of garuda-codec

garuda-codec sends a stream of bytes over a one-way link that may lose packets.
The encoder cuts its input into blocks, turns each block into RaptorQ source and
repair packets and writes them to the link; the decoder rebuilds the blocks from
the packets that arrive.  Both are small pipelines of threads joined by bounded
`mpsc` channels.  This directory holds the models of those pipelines, the TLC
configurations that check them and the TLAPS proofs about them.

## Inventory

| component | state it keeps | operations | interacts with |
|---|---|---|---|
| `Encoder` (`encoder.rs`, `block_encoder.rs`) | thread handles, stop flag, current block id, channels | `start_encoding`, `stop`, `wait`; dispatcher, block encoder and forwarder loops | reads the input stream, writes packets to the output stream |
| `vector::interleave` | counters of an iterator | `next` | orders the packets of a block |
| `Decoder` (`decoder.rs`, `block_decoder.rs`) | thread handles, stop flag, channels; per block decoder the current id, the symbols kept, the decoded mark | `start_decoding`, `stop`, `wait`; dispatcher, block decoder and forwarder loops | reads packets, writes blocks |
| `read_exact` (`io.rs`) | how much of the buffer is filled | one call per block or packet | polls the stop flag on a timeout |
| configuration (`block_encoder.rs`, `block_decoder.rs`) | none | `get_configuration`, `BlockEncoder::new`, `BlockDecoder::new`, `compute_repair_packets_per_block`, `infer_packet_size` | decides, before or after a side listens, whether a start succeeds |
| streams and listeners (`io_stream.rs`) | descriptors, `is_closed` of stdin | `from_uri`, `incoming`, `read`, `write`, `try_clone`, drop | carry blocks and packets; each session owns an input and a clone of the output |
| raw socket (`socket.rs`) | a bare descriptor | `new`, `bind`, `set_receive_timeout`, `read`, `write`, `clone`, `drop` | one frame per read, at most as long as the buffer |
| command line (`main.rs`) | none | `run_encoder`, `run_decoder` | one encoder or decoder per connection, one after the other |
| file transfer (`transfer.rs`, `protocol.rs`, `string.rs`) | files on disk | `send`, `receive` | cuts a file into blocks with a header; writes chunks at their offsets |

What is hard here:

* *Order.* Several threads of a pool write to one queue.  A block decoder gives
  up a block as soon as it sees a packet of another one, so the packets of one
  lane (the blocks whose ids select the same worker) must never be mixed up, in
  the encoder or in the decoder.  Between lanes nothing is ordered.
* *Identity.* A block is known by a `u8` id that wraps, and every new encoder
  starts at a random one.
* *Loss.* Any packet may disappear; none is repeated and their order is kept
  (the repository's README requires that of the network).
* *Framing.* `read_exact` fills a buffer from short reads, timeouts and
  interrupts; on a raw socket every read is a frame, also one of somebody else.
* *Resources.* One process serves any number of sessions, and descriptors that
  are closed are given out again at once.
* *Failure and shutdown.* A thread learns of the end of another only through its
  channels; `wait` returns `Ok` whatever the threads returned; `stop` is a flag
  seen only when a read times out.

The hazards, each at its line, are listed in `PROJECT.json`.

## Modules

| module | models |
|---|---|
| `Packets` | block ids, packets, the choice of a lane: shared vocabulary |
| `PacketStream` | abstract: what successive encoders promise of the packets on the link |
| `Encoder` | the encoder, thread by thread; implements `PacketStream` |
| `EncoderProofs` | theorems about `Encoder` |
| `Interleave`, `InterleaveProofs` | `vector::interleave` and theorems about it |
| `Decoder` | the decoder, thread by thread (actions only: it has no input of its own) |
| `BlockTransfer` | abstract: what the codec as a whole promises of the blocks that come out |
| `Codec` | `PacketStream`, a link that loses packets, and `Decoder`s in succession; implements `BlockTransfer` |
| `CodecProofs` | theorems about `Codec` and the `Decoder` in it |
| `MCCodec` | packet orders and the constraint for TLC |
| `ReadExact` | `read_exact`, whatever it reads from (actions only) |
| `ByteStream` | `ReadExact` over stdin or a stream socket, as an encoder reads it |
| `RawFrames` | `ReadExact` over the frames of a raw socket, as a decoder reads it |
| `ByteStreamProofs`, `RawFramesProofs` | theorems about the two |
| `Streams`, `StreamsProofs` | the streams of `run_encoder` and `run_decoder` and their descriptors, and theorems about them |
| `Configuration`, `ConfigurationProofs` | what each side accepts of block size, packet size and redundancy, and when, and theorems about it |
| `FileTransfer` | `send` and `receive`, a codec that loses, repeats and reorders blocks between them, the files on disk |
| `FileTransferProofs` | theorems about `FileTransfer` and `FileName` |
| `FileName` | the name field of a header: `truncate_utf8`, `serialize`, `deserialize` |
| `MCFileTransfer`, `MCFileName` | names, lengths and characters for TLC |

### State and actions

Variables keep the names of the source (`should_stop`, `current_block_id`,
`block_queue`, `packet_queue`, `current_decoder`, `current_block_is_decoded`).
A thread is a variable with its program counter: `"reading"`/`"sending"` for a
dispatcher, `"receiving"`/`"sending"` for a pool thread,
`"receiving"`/`"writing"` for a forwarder, `"none"` before it is spawned,
`"done"` or `"failed"` once its function returned `Ok` or `Err`.  An action is
what a thread does between two points where another thread can see it: a channel
operation, a read or a write.  `send` on a full channel is a disabled action;
on a channel whose receiver is gone it is a `...SendFails` action, and what the
channel held is dropped with the receiver.  A `for x in rx` loop ends
(`...Ends`) when the channel is empty and every sender is gone, which is what
`BlockQueuesDropped` and `PacketQueueDropped` spell out.

The owner of an `Encoder` or `Decoder` calls `start`, `stop` and `wait`, all of
which take `&mut self`, so one thread makes all three calls.  A failed start
leaves the threads spawned so far to themselves.  `start_encoding` is one step:
the threads it spawns can do nothing visible before the dispatcher runs.  A
second `start_encoding` on the same object, which nothing in the repository
does, is not modelled, nor is a `wait` that returns `InvalidState`, which changes
nothing that matters.

A block is its position in the input; its `u8` id is what the code sees, and
the two are compared only in properties.  A packet is its block and its index in
the order of `encode`; on the wire it also has its encoding symbol id (esi).
What a block decoder puts out is the *set of blocks* whose symbols went into it,
so that a corrupted block is a set with more than one member.

RaptorQ is external.  `SourceBlockDecoder` keeps one packet per esi, surely
decodes with all source packets, never with fewer packets than there are source
packets, and may or may not decode in between (`MustDecode`, `MayDecode`).

In `Codec` a packet that is not lost is emitted and read in one step.  Nothing
on the encoder side depends on the decoder, so the stream's steps can be taken to
happen when their packets arrive; packets in flight add no behaviour.  When all
threads of a decoder have ended and `wait` has returned, `run_decoder` takes the
next input and makes a new `Decoder` (`Restart`): its output goes on where the old
one's ended, its block decoders are new, and it may begin in the middle of a
block.  `arrived` is what reached the decoder that runs, `starts` where the output
of each began.

`BlockTransfer` is the codec for somebody who knows nothing of packets: `Write`
puts a block in, `Deliver` takes one out, `NextDecoder` replaces the decoder.  The
refinement mapping of `Codec` hides packets, ids and threads; a block that is not
intact maps to block 0, which `BlockTransfer` never delivers.

`ReadExact` is the loop of `read_exact` with the call that a dispatcher makes
again as soon as one returns; `buffer` keeps its old content.  In `ByteStream` a
read returns any prefix of what has come.  In `RawFrames` a read returns one
frame, cut to the room that is left; frames of the codec are at least as long as
a packet, others have any length.  In `Encoder` and `Decoder` the whole of
`read_exact` is one step with the same four outcomes.

`Streams` is a table of descriptors.  `Opens` gives out the lowest free one, as
POSIX does, so that a descriptor closed too early or twice is soon another file;
stream objects hold the numbers, `files` what is behind them.  The kinds of
streams on the command line are chosen in `Init`.  A start that fails ends the
process; the model lets its forwarder go on for a while, which is more than the
code allows.

In `Configuration` the symbol size, which the `raptorq` crate derives from the
packet size, is an input.  An integer type is a constant, the number of its values.
A block size of 0 passes every check of this code, so both sides accept it in the
model; what the crate makes of it is external.

In `FileTransfer` a byte is the transfer it comes from and its position there,
and a file is a function from the positions written to bytes, so that a byte out
of place and a hole can be seen.  The buffer of `send` keeps what earlier reads
left behind what the last one filled: that is the padding of a short chunk.  The
codec is a set of blocks in flight from which any may be lost or delivered next,
and one that was delivered may be delivered again.  It never alters a block.  The
codec does not promise that without exception: where ids are aliased
(`BlocksAreIntact`) a block may come out mixed.  Then `deserialize` may refuse the
header, and `process_stream` goes on with the next block, which is no more than a
loss; or it may accept one with wrong fields, write the payload elsewhere or panic on
a `payload_length` beyond the block.  The theorems about the file transfer say
nothing of that case.  But for alteration the model's codec is weaker than
`BlockTransfer`: the order within a lane is not used, since two lanes already give
any order of two blocks, and a block is repeated at any time and not only at the
seam between two decoders.  A payload size of 0 is allowed; every read then returns
nothing (`ReadsNothing`).  A decoder process connects once, and a receiver that fails to open or write a
file drops the connection (`DropsStream`); that decoder never comes back.  One
decoder is connected at a time: a second one would wait until the first has gone.
What a
sender that failed has written of its last block is dropped by the encoder
(`DispatcherEof` of `Encoder`).  A file that was created and holds nothing is the
same as no file.

In `FileName` a string is the sequence of its bytes in UTF-8, and a byte is its
character and its place in it, so that a character cut in two can be seen.  The
loop of `truncate_utf8` moves `end`, the filter of `serialize` takes one character
a step, and `deserialize` looks for the first NUL.

## Runs

Deadlock checking is on in every run: the only states a model may stop in have
no live thread and a returned or failed owner (`Terminated`).

| run | question | bounds |
|---|---|---|
| `encoder` | Do lanes keep their order, does a clean end lose nothing, do failures only come from the output, can the threads wait for each other in a circle or with a block in hand, is every behaviour one of `PacketStream`; does the pipeline drain, does a write error end the other threads, does `wait` return after `stop`? | 2 workers, 3 ids (3 % 2 # 0, so the wrap puts adjacent blocks in one lane), 2 packets a block, 3 blocks, channels of capacity 1 |
| `codec_sessions` | Are blocks intact, in order, unique and complete under any loss, across two encoders and two decoders? | 1 lane, 2 ids, 3 blocks of 2 source and 1 repair packets |
| `codec_lanes` | Is every behaviour one of `BlockTransfer`, do complete blocks come out, and does the decoder rest only for want of packets, with lanes interleaved in every way? | 2 lanes, 5 ids, 3 blocks of 2 source packets, 1 encoder, 2 decoders |
| `codec_liveness` | Is a complete block written promptly; does the decoder drain and stop? | 2 lanes, 5 ids, 2 blocks, 1 decoder |
| `codec_reconnect` | (violation) Is an ignored packet always of a block already decoded? | 2 encoders, 4 ids |
| `interleave` | Does `interleave` yield everything once, evenly? | vectors of up to 8 items |
| `byte_stream` | Are blocks consecutive pieces of the input, and returned as soon as they are complete? | 8 bytes, blocks of 3: two blocks and a rest |
| `raw_frames` | What does a foreign frame cost; is `stop` noticed? | 4 frames, packets of 3, frames of the codec of 4, foreign ones of 1, 2 (two of them fill a packet) and 5 |
| `streams` | Does every thread use its own stream, and does a session leave nothing open? | 3 sessions, 7 descriptors: what a session between two sockets needs and no more |
| `configuration` | Do both sides accept the same configurations; are there as many repair packets as asked for? | block sizes to 40, symbols of 1 to 4, redundancies to 150 %, symbol counts of 4 bits and products of 10 (16 and 1024 values), so that both are exceeded |
| `file_transfer` | Are bytes on disk in their places, does what was received stay, is a transfer delivered whole on disk, is every decoder served? | 2 transfers of 3 and 2 bytes received under one name, an old file of 4 bytes, payloads of 2, 2 connections |
| `file_name` | Does a name keep its longest whole prefix, in a field of constant size, and is it always accepted? | names of up to 4 characters of 1, 2 and 3 bytes, blanks of 1 and 3 bytes, a field of 4 bytes |

Capacity 1 instead of 10 makes channels full as often as possible; a larger one
only adds slack.  Three blocks are what it takes for a lane to see an id, another
one, and the first again (`codec_sessions`).  Two source packets are what it
takes to mix two blocks.  The safety runs of `Codec` use the constraint
`AsRunDecoder` (the owner waits at once and never calls `stop`, as in
`run_decoder`); `codec_liveness` has no constraint.

Payloads of two bytes are what it takes for a short read, hence for stale
padding; a field of four bytes is cut inside, before and after a character of
each width and filled exactly.

The runs of `FileTransfer` also bring out what the code does not promise.  A
complete transfer may be followed on disk by the tail of an older file, two
transfers of one name may mix, a receiver cannot tell a file with a hole from a
whole one, an empty file is never created, and with a block size that leaves no
room for a payload `send` returns Ok and sends nothing: `WholeFileArrives` says
exactly what is left.

`raw_frames` shows what keeps a decoder in step on a link that is not its own.
Since `recvfrom` throws away what does not fit, the next frame of the codec always
fills the buffer: a foreign frame that is shorter than a packet costs one packet,
and a longer one none.  Were the rest of a frame kept, as a stream keeps it, the
reader would never be in step again (this is the mutant of the run).  A packet
that is partly foreign does reach the decoder; what it then does to a block is up
to its header and not modelled.

`configuration` shows where the two sides differ.  `run_encoder` does not look at
the number of symbols before it listens (`refused_late`); the decoder refuses the
same configurations at its own start, because `infer_packet_size` makes a
`BlockEncoder`.  `SidesAgree` is about that agreement; that the encoder refuses late is
what the code does.  The `u32` product behind the number of repair packets wraps from
a redundancy of about 65538 % on; `RedundancyIsMet` is claimed below that.

What the runs of `Codec` show is exact about ids.  `Aliased(a, b)` names the only
situation in which block `b` is taken for the earlier block `a`: same id, a packet
of `a` arrived at this decoder, and of the blocks of their lane between them nothing
did that has another id; and, if both come from one encoder, there was such a block,
so that a whole block of the lane was lost.  Outside of it `CurrentBlockIsRight`,
`BlocksAreIntact` and `ReceivedBlocksWritten` hold without exception.  The variable
`encoders`, the number of the encoder that read a block, serves only to say this
(and which blocks may still be emitted).

`WrittenPromptly` (`codec_liveness`) and `WaitsOnlyForPackets` say that a block is
handed to the output stream.  `forward_blocks` does not flush it: on the standard
output, the end of a block behind its last newline may stay in the buffer of the
library until more is written or the process ends.

`OutputErrorSpreads` (`encoder`) follows a write error upwards.  A block encoder
notices it only when it sends, so one without work lives on until the input ends;
the dispatcher notices it only when it has a block for a lane whose thread has
failed, and may wait for input until then.

### Findings

* `codec_reconnect`: `run_encoder` creates an encoder with a random first id for
  each connection while the decoder goes on.  If the first id is the one the
  block decoder of that lane decoded last, the whole first block is ignored as
  "already decoded", without any loss on the link.

A limit of the code that no run is devoted to: with more than 128 workers some
block decoder handles a single id.  It never sees another one, so it never resets
and ignores every block after its first.  `Aliased` does not excuse that:
`CurrentBlockIsRight` fails with 2 workers, 3 ids and 4 blocks.  The passing runs
keep two ids per lane or have too few blocks for an id to come back.

### Fairness

Weak fairness on each thread's own steps (the operating system schedules a
runnable thread, a write returns, with success or an error), on the return of
`wait`, and on `DispatcherInterrupted`: a stream with a receive timeout, as the
raw socket has, keeps timing out while nothing arrives (`StopIsNoticed` of
`raw_frames` derives it from weak fairness of the reads and of the timeout while
no frame is there).  For a stream without a
timeout the last assumption does not hold and `StopThenWaitReturns` is not
claimed.  Nothing obliges the input to deliver data or to end.  In `FileTransfer`
only the steps of `receive` are fair, in `ByteStream` a read that has something to
return.

## Proofs

All theorems hold for every value of the constants allowed by the named
assumptions (`PacketsAssumption`, `EncoderAssumption`, `InterleaveAssumption`,
`FileTransferAssumption`, `SizeAssumption`, `MaxBytesAssumption`,
`RawFramesAssumption`, `PacketStreamAssumption`, `DecoderAssumption`,
`EsiOrderAssumption`, `StreamsAssumption`, `ConfigurationAssumption`,
`FileNameAssumption`: counts are
naturals, at least one worker, one id, one packet per block and a capacity of at
least one; a payload size of zero is allowed; buffers are not empty and a frame of
the codec holds a packet; a character has one to four bytes and file names are
valid UTF-8 without NUL).

`EncoderProofs`:

* `EncoderTypeOK` and `EncoderLaneOrder` from the inductive invariant `OInv`.
  `LaneOrder` speaks of the output; to be preserved it must be known of what is
  still on its way.  `Order` extends it backwards: output, packet being written,
  packet queue (`SentInOrder`), next packet of each block encoder
  (`EncodersInOrder`), blocks queued for it (`QueuesInOrder`), block in the
  dispatcher's hands (`DispatcherInOrder`).  Each forward step moves one item
  across one boundary; every other step is covered by `NothingMovesKeepsOrder`.
  `TypeOK` alone is not inductive: that a sending dispatcher has read a block is
  part of `DispatcherInOrder`.
* `EncoderFailuresComeFromOutput` from `Lifecycle`, which relates the states of
  the threads: the forwarder is done only when no block encoder lives, a block
  encoder is done only when the dispatcher has ended, and so on.
* `EncoderLosesNothing` and the refinement `EncoderImplementsStream` from `CInv`.
  `Complete` says that every packet of every block read is written or pending, and
  `Pending` lists the places where it can be; `Drained`, that threads which have
  ended left nothing behind.  With `Order` it also gives the guard of `Emit`: what
  precedes the packet being written in its lane is no longer pending.
* `EncoderWaitsOnlyForInput`: `Idle` is written out from the guards, since
  `ENABLED` is out of the prover's reach.  `IdleQueues` goes through the
  pipeline from its end: a forwarder that cannot move has an empty queue, so no
  block encoder waits to send, so their queues are empty, so the dispatcher does
  not wait to send either; with `Complete`, every packet of what was read is then
  written.  If the dispatcher has ended, every channel has lost its senders, and no
  thread can be waiting.  `HasThreads` (threads exist once the start has succeeded)
  completes `Lifecycle`.

`InterleaveProofs`: `EvenlySpread` says that after n items the number s of items
taken from the shorter vector satisfies `n*S <= s*T < n*S + T`.  That the shorter
vector is popped exactly when its share falls behind (`TakesShortWhenDue`, which
turns the integer division into two inequalities) makes it inductive, and it
implies that neither vector is ever empty when it is popped
(`LongIsNotEmpty`), hence `InterleaveYieldsEveryItemOnce`.

`FileTransferProofs`: `FileTransferBytesInPlace` and
`FileTransferReceivedBytesStay` from `Inv`.  A byte is in its place on disk
because it was in the block (`BlocksRight`), there because it was in the buffer
(`BufferRight`), and there because `offset` is the position of the file at every
read (`OffsetRight`).  `WrittenInPlace` is the lemma about a write of any part of a
payload; the padding is constrained nowhere and never reaches the disk.
`FileTransferWholeFileArrives` needs the converse (`WholeInv`): what `send` has
read of a file is covered by the chunks it sent (`SentCovers`), no chunk reaches
beyond the end (`InsideFile`), and a byte on disk comes from a chunk received or was
there before (`BytesFromChunks`), so that a position once written keeps a source.

The theorems about `FileName` (`FileNameFieldHasItsSize`, `FileNameIsAccepted`,
`FileNameIsLongestPrefix`) come from `NameInv`, one part per loop.  `TruncateInv`:
no position that `end` has moved past was a character boundary.  `FilterInv`: the
iterator stands on a boundary, and what was collected is valid UTF-8 without NUL and
has the bytes before it that are not whitespace, each at the place that its rank
among them gives (`IsFiltered`).  `HeaderInv`: the field is that and its padding.
`WholeChar` is the lemma behind all of it: from a boundary within a valid string,
the bytes of one whole character follow and no boundary is among them.  A character
has at most four bytes, so this takes four steps and no induction; describing the
result of the filter by ranks rather than by a recursion is what makes it provable.

`ByteStreamProofs`: `ByteStreamBlocksPartitionInput` from `Inv`.  That a unit is the
u-th piece of the input (`UnitsAreRight`) follows from what was filled when it was
returned (`FilledIsRight`: the block being read begins where the last one ended).
The claim about the end of the input also needs that nothing comes after it
(`EofIsFinal`) and `WholeBlocks`, about the integer division.
Here and in `RawFramesProofs` the types, which no run checks, are part of `Inv`: what is
filled stays below the size of the buffer.  So are those of `InterleaveProofs`, which
say that no vector is popped beyond its length.

`RawFramesProofs`: `RawFramesCodecFrameRealigns` and `RawFramesPacketsNeverMix`.
Both are strengthened by the frames that bytes come from having been taken, since
frames that come in later must not change them.  `ReadKeepsInv` is the argument: a
read that does not fill the buffer is of a foreign frame (`ReadTakesSome`), so a
buffer that is full is either all of one frame or begins with a foreign byte.
`RawFramesLossIsBounded` is not inductive because the loss comes after the frame
that causes it: `LossOwed` counts a buffer that is partly filled as a loss to come.

`StreamsProofs`: `StreamsThreadsUseTheirStreams` and
`StreamsSessionsLeaveNothingOpen` from `Inv`, which says at every point of a session
what each descriptor in use stands for, that a clone is not the output itself, and
that nothing else is open.  `LowestIsFree` (a nonempty set of descriptors has a
least one) is why an open never takes a descriptor in use.

`CodecProofs` holds for any number of workers, ids, packets, blocks, encoders,
decoders and any capacity and losses.  Three hypotheses appear in the statements:

* `SameWorkers`, the same `-w` on both sides, which the repository's README asks for.
  Without it the packets of one lane of the encoder reach several block decoders.
  `CodecTypeOK` does without it.
* `TwoIdsPerLane`, at most 128 workers: the limit stated above under Findings.
* `IdsAreUnique`, one encoder and no more blocks than ids, for the refinement only:
  `BlockTransfer` knows nothing of ids, so it is what the codec promises as long as
  none comes back.

The argument is the same for all.  `LInv` follows a lane through the decoder.  In
`StreamInv` the stream keeps its order and ids count up within an encoder.  In
`PipeInv` the packets ahead of a block decoder (its queue and the packet in the
dispatcher's hands, `Ahead`) arrived, belong to its lane and are in the order of
their blocks.  `OrderInv` puts everything else behind them: blocks kept, blocks
decoded (`Put`: output, block being written, block queue), in that order.  The step
that is hard is a packet whose id is the current one although its block is another:
the packets kept may then be older than blocks already put out.  `CurrentMark`
therefore remembers the last block that the block decoder took for new; that is
what makes `LaneOutputOrder` inductive.  `AliasInv` adds what is needed to know
when that happens: no packet of the lane that arrived is skipped
(`NothingSkipped`), and what has arrived since the packets kept and is not ahead
carried the current id (`SinceKept`), or it would have reset the block decoder.
`CurrentIsAliased` is the conclusion, and where two ids per lane are used: between
two blocks of one encoder with the same id there is a block of their lane with
another one (`OtherIdBetween`).  For the refinement, `PutWhole` says that what is
put out is a single block.  `NextCases` sorts the steps into those that move a
packet or a block across one of these boundaries and those that do not (`Quiet`).

`CodecReceivedBlocksWritten` is about what is not lost.  `EndsInOrder` says that
threads end from the dispatcher to the forwarder, so that while no write fails no
thread finds a receiver gone and nothing is dropped (`Steady`, `NextCasesWhileWritten`).
`Accounted` gives every block of which something arrived one of three fates: it is
put out; all that arrived of it is ahead of its block decoder or kept there
(`InHand`); or a source packet of it is missing and the stream has gone on, so that
none will come any more (`GivenUp`).  The step that matters is the first packet of a
later block, which may reset the block decoder: by then all that arrived of the
block is kept, and if that is all its source packets, it must have been decoded
(`ReceivedIsPut`, from `Undecoded` and `DecodedIsPut`).  That a set with every
source esi has as many source packets as there are (`AllSourcesDecode`), and that
every esi is sent (`EveryEsiSent`), are counting arguments.

`CodecWaitsOnlyForPackets` is the same argument as in `EncoderProofs`, from the
forwarder back to the dispatcher, joined to `Accounted`: when nothing is queued, a
block whose source packets all arrived is neither ahead of its block decoder nor
given up, and if it is kept it has been decoded and put out.

`ConfigurationProofs`: `ConfigurationSidesAgree` and `ConfigurationRedundancyIsMet`
from `Inv`, which says what each verdict stands for.  They need that the type of the
product has at least as many values as that of the count (`CountFits`): then what
`run_encoder` refuses before it listens, an encoder would refuse as well.

Only model-checked: liveness, which is out of the prover's reach: `EndDrains`,
`OutputErrorSpreads`, `StopThenWaitReturns`, `WrittenPromptly`, `DecoderServed`, `WholeBlocksReturned` and
`StopIsNoticed`.  `WaitsOnlyForInput` and `WaitsOnlyForPackets` are the safety half
of the first three: a pipeline can only come to rest where they want it to.  That it
does come to rest is what fairness adds, and TLC checks.

## Plan

Done: the encoder, the decoder, both over a lossy link with encoders and decoders
that follow one another, `interleave`, reading, streams, the configuration, the
file transfer; the abstract specifications `PacketStream` and `BlockTransfer`.
Both refinements and every safety property are proved for all values of the
constants (under the hypotheses named for `CodecProofs`).  What is left: the same
theorems with weaker hypotheses where the code allows it, and the lemmas of `CodecProofs` about
sequences and threads, which `EncoderProofs` could share.

## Not modelled

Block contents and the RaptorQ arithmetic (external), serialisation of packets,
the parsing of arguments (by the `clap` crate) and of URIs, log messages, the
system calls themselves, panics of a worker thread (with zero workers the modulo
of a dispatcher panics; the models assume one worker).  `RawSocketReader::clone`
is not used by the program.  What a block decoder makes of a packet that is partly
or wholly foreign depends on the bytes of its header and on RaptorQ.  A client
that connects and then neither writes nor closes keeps every other one waiting:
the code has no provision against it and no property claims otherwise.
