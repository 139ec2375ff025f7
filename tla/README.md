# Verification of plz4

plz4 reads and writes LZ4 frames in parallel.  This directory holds TLA+
models of it, the TLC configurations that check them on small instances, and
proofs that TLAPS checks for every instance.  Line numbers refer to the
sources under `src/`.

## 1. The system

| component | source | state it keeps | operations |
|---|---|---|---|
| public API | `plz4_writer.go`, `plz4_reader.go` | none of its own | `NewWriter`, `NewReader`: which implementation the options select |
| async writer | `internal/pkg/async/writer.go` | the block being filled, its index, the first error, whether it was reported; per goroutine: tasks, `writeLoop` with `nextIdx`, `flushIdx` and the pending map | `Write`, `ReadFrom`, `Flush`, `Close` |
| async hash | `internal/pkg/async/hash.go` | a channel of block references, the number of blocks hashed | `Queue`, `Free`, `Done`, `Run` |
| async reader | `internal/pkg/async/reader.go` | next index, pending map, tokens, finish channel | `NextBlock`, `Close`; `dispatch`, tasks |
| stream reader | `internal/pkg/rdr/rdr.go` | mode (header or body), current block, source and destination positions, options mutated by headers | `Read`, `WriteTo`, `Close` |
| frame reader | `internal/pkg/blk/frame.go` | running content hash and options of the frame | `Read` |
| sync writer, sync reader | `internal/pkg/sync/` | the block being filled, the error state; the decoder and its dictionary | `Write`, `ReadFrom`, `Flush`, `Close`; `NextBlock` |
| block pool, block compression | `internal/pkg/blk/pool.go`, `blk.go` | free blocks per size, the count of borrowed ones | `BorrowBlk`, `ReturnBlk`, `CompressToBlk`, `Decompress` |
| dictionaries, compressors | `internal/pkg/compress/` | the last 64 KB of output of linked blocks | `Update`, `Compress`, `Decompress` |
| lz4 library | `internal/pkg/clz4/lz4.c`, `lz4hc.c` | stream contexts: hash table, chain table, the dictionary and the indexes of its positions | compress (one shot, `continue`, filling the output), `loadDict`, `attach`, `saveDict`, reset; decompress (whole, partial, with a dictionary) |
| lz4 binding | `internal/pkg/clz4/clz4.go` | none | one cgo call per function |
| header, trailer, descriptors | `internal/pkg/header/`, `trailer/`, `descriptor/` | none | encode, decode, skip frames |
| sparse writer | `pkg/sparse/sparse.go` | bytes to skip before the next write | `Write`, `ReadFrom`, `Flush`, `Close` |
| options | `internal/pkg/opts/opts.go`, `plz4_opts.go` | parallelism, pending limit, worker pool | `CalcPending` |
| command line tool | `cmd/plz4/` | none of its own | compress, decompress, verify, bakeoff |
| xxh32 | `internal/pkg/xxh32/` | third-party hash | |

How they interact.  A writer cuts the caller's bytes into blocks.  The async
writer hands them over unbuffered channels to compression tasks that run in a
worker pool, and `writeLoop` puts their results back in order and is the only
goroutine that calls the `io.Writer`.  A semaphore (`semChan`) bounds the
blocks in flight, an atomic pointer keeps the first error for all goroutines,
and the content hasher runs beside the tasks and shares the ownership of the
source blocks with them.  The reader is the same shape backwards: `dispatch`
reads blocks, tasks decompress them, the caller's `NextBlock` reorders them,
and `rdr.go` turns frames into one stream and calls the user's progress
callback.  Both sides borrow every buffer from the block pool, and compress and
decompress with the lz4 library through cgo.  The command line tool puts the
sparse writer under the reader.

What is hard, and what correctness means:

* *async writer*: bytes in stream order whatever order tasks finish in;
  `Flush` durable; errors of any goroutine reported once, never lost; no
  deadlock between tokens, channels, the hasher and a small pool; no block used
  after it was returned; no goroutine, token or block left after `Close`.
* *async reader*: the same, plus `Close` at any moment.
* *stream reader*: every frame independent of the one before it; no byte lost
  between `Read` and `WriteTo`.
* *sync writer and reader*: the same promise as the parallel ones.
* *linked blocks*: writer and reader agree on the dictionary of every block.
* *compressors*: every block decodes to its source though the tables keep
  entries of other streams, of failed calls and from before an index overflow,
  and though the source may lie over the dictionary; nothing is written behind
  the output, whose checks leave room for copies that overshoot.
* *decoder*: copies that write behind their end and read what they wrote are
  only used where both buffers have the room; good blocks are accepted and what
  is returned is right, in every combination of loop, dictionary and partial
  decoding.
* *sparse writer*: the file equals the one a plain writer would have left,
  whatever seek or write fails.
* *options*: at least one task, at least one token, for every legal option.

PROJECT.json lists each hazard at its line with the properties that cover it,
or the reason why none does.

## 2. Plan

Done: `WriterSpec` (what any writer promises) with `AsyncWriter` and
`SyncWriter`, composed in `Writer`; `ReaderSpec` (what a block reader promises)
with `AsyncReader` and `SyncReader`, composed in `BlkReader`, with the window of
linked blocks; `StreamReader`; `Lz4Format`, `Lz4Emit` (what the sequence
writers promise), `Lz4Fast`, `Lz4HC` and `Lz4Decode`; `SparseWriter`.  Proved:
every invariant of both writers with their refinement of `WriterSpec`, of both
block readers with their refinement of `ReaderSpec`, of the stream reader, of
`SparseWriter`, of the decoder `Lz4Decode` and of the fast compressor `Lz4Fast`
with its refinement of `Lz4Emit`; the bounds and coverage of `Lz4Emit`.

Left, in this order:

1. Proofs of the invariants of `Lz4HC`, which needs the lemmas of `Lz4Fast` on
   decoding and an invariant for its chains and its three matches.
2. Several writers on one finite pool; the arithmetic of `opts.go` and
   `NewAsyncWriter`.

## 3. Modules

Writers:

* `WriterSpec` - the abstract writer.  State: bytes accepted, header present,
  bytes written, frame open, complete or broken, error, closed, last call and
  its result.  The frame only grows, never past the bytes accepted, and is
  complete only when every byte is in it and no error occurred.  After a failed
  write it is broken for good, and what still follows is not part of it: the
  two writers differ there (see `OutputInOrder` and `FrameExact`).  `Flush`
  returns nil only when everything is written.
* `AsyncWriter` - `writer.go`, `AsyncHashIdx` of `hash.go`, and the pool as
  the writer uses it.  Each goroutine has a place (`cpc` caller, `wpc` tasks,
  `lpc` writeLoop, `hpc` hasher) and its own variables; an action is the code
  between two points where goroutines can affect each other.  Unbuffered
  channels are joint actions (`Meet`), `semChan` is the counter `sem`, the
  hasher's channel the sequence `hch`, closed channels are in `chClosed`.
  `_flushBlk` is the chain `QueueHash`, `Acquire`, `SendBlk`, `NextBlk`, entered
  by `EnterFlush` with the place to return to.  `starts` records where each
  block begins in the stream, so that `srcIdx` is its length less one; blocks
  carry the range of bytes they stand for.  `live` names the pool blocks out,
  `cntBorrowed` is the pool's own count, so a double return shows.
* `AsyncWriterProps` - its properties.
* `SyncWriter` - the serial writer: `srcOff` bytes cached, the blocks cut from
  them or straight from the caller's slice, `state` against the error `err` of
  the call, and `Close`, which goes through its cached block even in an error
  state.  `FrameExact` is in the module.
* `Writer` - `NewWriter`: the options select one of the two, whose behaviours
  are checked together against `WriterSpec`.  Linked frames are written by the
  parallel one only; the serial one meets failing compressors, too.

Readers:

* `ReaderSpec` - the abstract block reader (`blk.BlkRdrI`).  Packets are
  fetched from the `io.Reader`, at most `ahead` of the deliveries and none
  after the end of the frame; they are delivered in order, once each, with the
  outcome each must have, which depends on whether the content hash is
  `checked`; nothing is fetched once `Close` has returned.
* `AsyncReader` - `reader.go` and `AsyncHash` of `hash.go`, in the style of
  `AsyncWriter`: `cpc` caller, `dpc` dispatch, `wpc` tasks, `hpc` hasher.  A
  packet is known by what it turns out to be (raw, packed, corrupt, end mark,
  end mark with a wrong hash, failed read) and is chosen when it is read;
  `hasher` says whether the frame has a content hash.
* `AsyncReaderProps` - its properties.  `NothingLost` says that the packets
  between dispatch and caller are exactly those read and not delivered, and that
  the tokens count them, which is what makes reordering right.
* `SyncReader` - the serial block reader with the dictionary its decompressor
  keeps (`dict.go`): bytes of the content are numbered, `dict` holds the numbers
  in the window, `Update` is its three cases, `first` the begin of the user's
  dictionary.  `RawLinked` lets linked frames hold uncompressed blocks; it is
  FALSE where the rest is checked, because of `linked_raw` (section 7).
* `BlkReader` - `makeBlockReader`: the options select one of the two, checked
  together against `ReaderSpec`.  A linked frame gets the serial one.
* `StreamReader` - `rdr.go` above any block reader that keeps `ReaderSpec`'s
  promise: `Read`, `WriteTo`, `Close`; headers, skippable frames, read offset;
  the options `off`, `size`, `skipSz` that headers change and nothing resets.
  `OpenFrame` and `SkipFails` are the two ends of `skipOffset`.  The stream is
  chosen while it is read and is not restricted.  `damage` (what is wrong, and
  whether in a frame opened with a read offset), `led`, `cut`, `fdec`, `pos` and
  `marks` record what is really so and are never read by the modelled code;
  `unread` and `cut` only say what comes next in the stream.
* `StreamReaderProps` - its properties.

lz4:

* `Lz4Format` - the block format: the parsing restrictions, what a sequence
  costs, the output checks of the encoders as written in `lz4.c`, and what a
  block means (`Decoded`), which is the reference of every round trip.
* `Lz4Emit` - the sequence writer of `LZ4_compress_generic_validated` with the
  search abstracted to a choice of literals and match lengths: the three output
  directives, all their checks, the copies that overshoot (`top` is the first
  byte never written).
* `Lz4Fast` - the fast compressor: a context with its hash table of indexes, the
  entry points (`LZ4_compress_fast_extState`, `..._fastReset`, `destSize`,
  `fast_continue`, `loadDict` fast and slow, `attach_dictionary`, `saveDict`,
  `resetStream_fast`) with their choice of table type, reset, renormalisation
  and cut of an overlapped dictionary, and the search one iteration at a time.
  Memory is a function of addresses, so that a source can overlap a dictionary;
  `stray` records a read of a candidate outside its segment.  It implements
  `Lz4Emit`.
* `Lz4HC` - the hash chain compressor (levels 3 to 9): heads and chains,
  `LZ4HC_InsertAndGetWiderMatch` with its pattern analysis and external
  dictionary, the parser that weighs up to three overlapping matches
  (`Search1` to `EncodeFirstOfThree`), and the entry points.
* `Lz4Decode` - `LZ4_decompress_generic` with its fast loop, its shortcut and
  its safe loop, in each dictionary mode, whole and partial.  The input is
  chosen field by field as it is read, bytes are symbolic (a byte of the output
  names the place it comes from), and the copies are as wide as in the code.

Sparse writer:

* `SparseWriter` - `sparse.go` over a file with an offset.  Slices are chosen
  block by block as they are scanned; `plain` is what a plain writer would have
  left of the bytes reported written, `nRead` is `ReadFrom`'s count, and `lost`
  records that a seek moved behind a hole and no byte followed.  Calls come in
  any order, `Close` included.

`MCWriter`, `MCAsyncWriter`, `MCStreamReader`, `MCLz4Fast`, `MCLz4HC` give the
instances: the symmetry of tasks, frame headers, texts and places in memory.
`AsyncWriterProofs` (types, errors, the output, then tokens, blocks, `Flush` and
`Close`) holds the theorems about the parallel writer, `WriterProofs` those
about the serial one and about both together; `BlkReaderProofs` those about the
parallel reader, the serial one and both; `StreamReaderProofs`,
`Lz4EmitProofs`, `Lz4FastProofs`, `Lz4DecodeProofs` and `SparseWriterProofs`
the others.  The parts of the inductive invariants are at
the end of `AsyncWriterProps`, `SyncWriter`, `AsyncReaderProps`, `SyncReader`,
`StreamReaderProps` and `Lz4Decode`, under "Why they hold"; those of `Lz4Fast` are
in its proofs (`IInv` at their head, `RTInv` before the round trip).

A definition with the comment `mutant` is a plausible bug in the definition
that follows it; PROJECT.json pairs each with the property it must break.

## 4. Runs

| run | instance | what it shows |
|---|---|---|
| `writer` | both writers; 2 tasks, 2 tokens, 2 pool slots, blocks of 2 bytes, 5 bytes, hasher, linked, faults in header, block, trailer and source | stream order, whole frames, durability, no silent loss, ownership and count of pool blocks, clean shutdown, refinement of `WriterSpec` |
| `writer_returns` | parallel writer; pool of 1 slot, blocks of 2 bytes, 3 bytes, all faults | every call returns |
| `writer_panic` | 2 tasks, failing compressor | violation: see section 7 |
| `reader` | both block readers; 2 tasks, 2 slots, 3 tokens, up to 3 blocks of every kind, window of 3 bytes, dictionaries of 0, 2 and 5, blocks of 1, 2 and 4 | nothing lost or repeated, errors in their places, ownership and count of pool blocks, the window is the writer's, `Close` at any time, refinement of `ReaderSpec`, calls return |
| `linked_raw` | serial reader, window of 3 bytes, up to 4 blocks | violation: see section 7 |
| `stream` | up to 3 frames, with and without size, hash, linked blocks, skippable frames, read offsets 0, 7, 15 and 23, 2 blocks of up to 2 bytes each, any damage, cuts before the offset | no byte lost, damage reported and kept unless an offset hides it, every error has its reason, progress off by footers only |
| `stream_size_kept` | 2 frames | violation: see section 7 |
| `lz4_emit` | sources of 13, 34 and 290 bytes, rooms from 1 to the bound, lengths at the steps of their encoding | nothing written behind the destination, the source covered |
| `lz4_fast` | 2 calls, 64 KB scaled to 16, 2 GB to 60, 5 buckets, 4 texts, 2 dictionaries, 3 places for the source, 3 rooms | blocks decode to their sources, no stray read, table entries behind the search, refinement of `Lz4Emit` |
| `lz4_hc` | 2 calls, 64 KB scaled to 40, texts with overlapping matches, with runs, in pieces behind a dictionary, rooms from 1 to 80 | blocks decode to their sources, legal sequences, output bounds, no stray read, positions enter once |
| `lz4_decode` | 2 sequences and the last literals, inputs of 0 to 60 bytes, outputs of 0 to 90, 64 KB scaled to 24, dictionaries below, one byte below and of that size, all dictionary modes | no stray write or read, what is returned is right, only bad blocks are refused |
| `sparse` | 8 bytes, blocks and buffer of 5, groups of 2, every seek, write and read may fail | the file and its pending hole are the bytes reported; a closed file is short just when the seek of a `Flush` or of a failed write was the last to move behind a hole |

Bounds.  `MaxBytes` bounds the bytes handed to a writer in a behaviour; nothing
else of a writer is cut: calls may be made in any order and any number of
times.  Blocks of two bytes make partial blocks, flushes of partial blocks and
`Write`s that span blocks happen; five bytes are three blocks for two tokens, so
the caller has to wait and a block can overtake its predecessor.  With one slot
a task starts only at `Close`.  `MaxBlks` bounds the blocks of a frame the
readers meet: three suffice for dispatch to send to a `Close` that both tasks
have left, and errors and end marks may come at each place.  `MaxFrames`,
`MaxBlks`, `MaxLen` and `MaxDst` of `StreamReader` let a frame's state be left
over to a next one and to one after that, a `Read` end inside, at the end of,
and beyond a block, and a size be missed from both sides.  Headers have 7 or 15
bytes and blocks 8, so a read offset of 7 or 15 is the size of a header, that of
a block behind it, or too small, by the frame it meets, and 15 and 23 skip one
block or two, with a block to read behind them or none.

The lz4 models scale the limits that decide which branch is taken (64 KB, 4 KB,
1 GB, 2 GB, the size of the hash table) and leave the constants of the format
alone (`MINMATCH`, `MFLIMIT`, the eight-byte copies, the 64 bytes the fast loop
keeps).  Texts are a few words that repeat with a change of phase, or runs, over
small alphabets, so that matches of every kind and false candidates occur; the
hash functions are coarsened to five buckets.  Two calls, with any loading,
attaching, saving and reset between, let each call meet what the one before it
left; what takes a third call is listed in section 6.

Fairness is used for `CallsReturn` only.  Writer: weak fairness of the caller
inside a call, of each task, of `writeLoop`, of the hasher and of the channel
meetings.  Reader: the same, with `dispatch` in the place of `writeLoop`, which
includes that a call of the `io.Reader` returns; the serial reader's call is one
process.  Go's scheduler runs every runnable goroutine, channel waiters are
queued, and the worker pool starts a submitted task when it has a slot
(opts.go:100 starts a goroutine for each).  No fairness is assumed of the user:
new calls may never come.

Deadlock checking is on in the runs of the writers, of the stream reader and of
the sparse writer: there the user can always make another call, so a program
stuck in one is reported.  It is off in `reader` and `linked_raw`, whose serial
reader really stops once it is closed (`CallsReturn` shows in `reader` that no
call is stuck), and in the lz4 runs, which end with their last call.

## 5. Proofs

For every finite set of tasks, token count, pool size, block size, bound on the
bytes and set of faults (the `ASSUME`s of `AsyncWriter`, which TLC evaluates):

* `TypeCorrect`: `Spec => []TypeOK`, by one lemma per goroutine.  `TypeOK` is a
  conjunction per group of variables, so a step proves only the groups it
  touches and `Frames` carries the others.
* `FirstErrorKept`: `Spec => FirstErrorStays`, from `ErrorStep`.
* `OutputOrdered`: `Spec => [](OrderInv /\ OutputInOrder)`.  `OutputInOrder` is
  not inductive: it says nothing of blocks not written yet.  `OrderInv` adds
  that every block in a task, in the pending map or in `writeLoop` carries the
  bytes of its index (`TaskBytes`, `LoopBytes`), and that while `writeLoop` is
  healthy exactly the header and the first `nextIdx` blocks are out
  (`LoopPlace`).  The argument rests on `StreamStep`: what was handed to a task
  is never changed by the caller afterwards.  It covers any number of tasks,
  the run only two.

* `NothingUsedAfterReturn`: `Spec => []NoUseAfterReturn`, `PoolKept`:
  `Spec => [](NoPanic => PoolBalanced)`, `PanicNeedsFailure`, `FlushedIsWritten`,
  `TrailerIsTrue` and `LossIsReported`, from `PipeInv`, which says of each channel,
  map and queue what is in it.  `ChannelPhase` ties the closed channels to the
  places of the goroutines; `CarrierInv` has each block handed to a task and not
  written in one place only, with its token; `HashOrder` and `FreeOrder` have the
  hasher's channel in order, a block's bytes before its release; `Held` names
  the blocks that are out by who has them, so that a return is never of a block
  that is not out.  None of them is inductive alone: a block is freed once
  because it is in one place, and it stays in one place because tasks get
  different indexes.  The panic of `writer_panic` breaks `CarrierInv` (the token
  is kept), so `PipeInv` holds until it, and `PoolKept` has `NoPanic` as its
  premise; `PanicNeedsFailure` shows that only a failing compressor leads there.
  What `Flush` and `Close` promise holds after a panic, too.
* `FrameIsExact`: `WriterProcess => []FrameExact`, the serial writer's frame.
  What is in the `io.Writer` says nothing of the bytes still cached, so
  `FrameInv` adds the place of each call (`InCall`), the account of the bytes
  taken over, cut into blocks and cached (`Books`), and that the blocks written
  end where the cached ones begin until a `Write` fails (`FrameGrows`); a block
  whose compression failed stays cached, and `Close` meets it again.
* `KeepsPromise` of `WriterProofs`: `WriterProcess => ImplementsPromise`.  Each
  step of a writer is one of `WriterSpec` or a stutter: entering a call is
  `Begin` or `ReturnError`, taking bytes over (`Copy`, `Fill`, and the serial
  `WriteTop`, `ReadTop`) is `Accept`, `WriteHeader` and `WriteBlk` are `Header`
  and `Advance`, or `Break` when the `Write` fails, an error met by a task is
  `Fail` when `writeLoop` takes it up, the trailer is `Complete` or `Break`, and
  the last step of `Flush` and `Close` is `ReturnFlush` or `ReturnClose`.  That
  `Advance` never passes the bytes accepted and that `ReturnFlush` finds them
  all written is `PipeInv` with `OrderInv`, which hold in every state a step
  leaves from, since nothing follows a panic.

For every finite set of tasks, number of tokens and slots, and for every size of
the window, the dictionary and the blocks (the `ASSUME`s of `AsyncReader` and
`BlkReader`):

* `FrameArrivesWhole` (`NothingLost`), `NothingUsedAfterReturn` and `PoolKept`
  (`PoolBalanced`) of the parallel reader, from `HeldInvs`: `FrameRead` (dispatch
  stops at the first packet that ends the frame), `ChannelPhase`, `CallPhase`,
  `CarrierInv` (a packet above those delivered is with dispatch, a task, the map
  or the caller, in one place only, and carries what was read at its place, and
  tokens count the places), `HashOrder`, `Held` and `Counted`.
* `FrameReadWhole` and `NoBlockLeaks` say the same, and `BlocksReturned`, of
  whichever reader `makeBlockReader` makes; the serial one's invariant is
  `InFrame` and `OneOut`.
* `WindowFollows`: `WindowHolds` if `RawLinked = FALSE`, which is the hypothesis
  that `linked_raw` shows to be needed.  `DictFollows` is the invariant, and the
  lemma `DictMovesOn` is the three cases of `dict.go`: the update of the last
  64 KB of a run of bytes by the next bytes is the last 64 KB of the longer run.
* `KeepsPromise`: `ReaderProcess => ImplementsPromise`.  Each step of a reader
  is one of `ReaderSpec` or a stutter: `ReadFrame` is `Fetch`, taking a packet
  is `Deliver`, except the end mark of a hashed frame, which is delivered by
  `CheckSum`; the block of the call before is given back by `NextBlock`, the
  hasher's queue or `Reader.Close`, and the last step of `Close` is `Close`.
  That the fetch is not too far ahead is the token count of `CarrierInv`, that
  it ends is `ChannelPhase`, and that the sum is that of all blocks `HashOrder`.

For every set of frames, read offsets, block and slice lengths (the `ASSUME`s of
`StreamReader`):

* `AllBytesHanded` (`NoByteLost`, `EndMeansAll`) and `ErrorKept` (`ErrorStays`),
  from `InCall` and `Handed`, which say what is true in the middle of a call;
  `ProgressCounted` (`ProgressDrifts`), with `Counted`: in every frame, not only
  the first, `srcPos` lacks the end marks and content hashes and nothing else.
* `DamageAlwaysReported` (`DamageReported`) and `FalseAlarmsExplained`
  (`AlarmsExplained`), with no hypothesis on the offsets or the frames.
  `FrameKnown` ties what the reader knows of a frame to what is so, `OffsetUsed`
  says which offset can outlive a frame, and `Reporting` and `Deserved` follow
  an error from the block reader to the caller.  The exceptions in the two
  properties are the deviations of section 7, each with the state that brings
  it about.

For every set of source sizes, rooms and lengths (`SizesAssumption`):

* `NoOverrun`: `Spec => []WritesInBounds` and `Covered`:
  `Spec => []SourceCovered` of `Lz4Emit`.  The inductive invariant `IInv` adds to
  the types how far the output may be ahead of the source in a call without
  limit (`Ahead`: one byte in 255), and the room the check before it has left in
  the others (`AtSeq`, `AtMatch`, `AtLast`), since `WritesInBounds` alone says
  nothing of the bytes still to come.  The arithmetic is in lemmas about
  the cost operators of `Lz4Format` (`LengthBytesBound`, `WildEndBound`,
  `TopOfMatchBound`, ...).  They hold of the compressor because it implements
  `Lz4Emit` (`EmitsAsAllowed` below); that last conclusion is drawn here and not
  by the prover, which cannot use a theorem of an instantiated module.

For every set of texts, dictionaries, places in memory and rooms, and every size
of the table and of the scaled limits (`FastAssumption`: 64 KB of indexes stay
free below 2 GB, the distance limit is the 64 KB that a dictionary may have, the
sources, the dictionary and the saved one lie in memory in this order):

* `SearchReadsInside` (`NoStrayRead`) and `EntriesLieBehind` (`TableBehind`) of
  `Lz4Fast`, from `IInv` of `Lz4FastProofs`.  What makes a read safe is history: an
  entry was made by this call, by an earlier one, by `LZ4_loadDict` or for another
  type of table, and nothing in the entry tells which.  `ContextOK` is what holds
  between calls (an entry is free or has eight bytes of the stream behind it, the
  dictionary of a stream ends where the stream does, an attached one is whole),
  and each entry point has a lemma for what it makes of it (`ContinueKeeps`,
  `LoadDictKeeps`, `FastResetKeeps`, ..., from `RenormIs`, `PrepareIs`, `LoadIs`
  on the contexts).  `EntriesOK` is what holds during a call: an entry
  from before the call that passes the checks of the mode (`FromBefore`) has its
  four bytes in the dictionary (`BeforeOK`), any other was entered by this call
  and is behind the search (`EnteredBefore`).  A call on a `byU16` table that does
  not begin at index 0 relies on `dictSmall`, since that table has no check of
  the distance.
* The invariant also gives what the encoder relies on: the bytes compared are
  equal (`CanCopy`), and `fillOutput` leaves room for the last literals (`FillOK`),
  where a match that was cut short ends before positions already entered in the
  table.
* `EmitsAsAllowed`: `Spec => ImplementsEmit`.  `EncodeLiterals`, `EncodeMatch`
  and `LastLiterals` are the actions of that name of `Lz4Emit`, or its `Fail`
  where the output check of a limited call fails, a hit of `TestNextPosition` is
  its `NextMatch`, a call that starts its `Call`; the search, `Return` and what is
  done to a stream or a dictionary are stutters.  `IInv` says why the literals and
  lengths are ones `Lz4Emit` may choose: a match is found before `mflimit`, ends
  at `matchlimit` or before, and `Fits` holds at every entry point.
* `BlocksDecode`: `Spec => []RoundTrip`, from `IInv` and `RTInv`.  `Remembered`
  ties the memory to the decoder: the bytes between two addresses are those the
  history ends with.  Between two calls it holds of the dictionary of the stream
  or of the attached one (`HistoryKept`), and each entry point has a lemma that
  what it keeps is neither moved nor overwritten (`RTContinue`, `RTSaveDict`,
  ...); during a call it holds of what the mode refers to (`HistoryOK`).  An
  offset is the distance of the bytes compared in the decoder's output, though
  the dictionary lies elsewhere in memory, and at most 65535 (`DistanceOK`): by
  the check of the distance, or on a `byU16` table by the size of the source
  (`SizeOK`).  So a sequence repeats the bytes the decoder has (`Repeats`), and
  `DecodedMatch` adds it to the prefix decoded so far (`BlockOK`).  `EndOK`
  carries from match to match what the end of the block needs.  That `Decoded`
  adds one sequence to what the sequences before it give (`DecodedMore`), and
  that a copy with a period shorter than its length repeats it (`CopyBackIs`),
  are shown by taking the least place where they would fail.

For every block, group and buffer size and number of bytes (`SparseAssumption`):

* `FileAlwaysHolds`: `Spec => []FileHolds` of `SparseWriter`.  The invariant adds
  that the file is empty behind its offset, so that zeros that are only counted,
  or skipped by a seek, are the zeros a reader of the file finds
  (`ZerosSkipped`).  `Counts` adds the loop of `ReadFrom`: what it counted is
  what went into the file and the slice in work, until it returns an error.
* `ClosedFileWhole`: `Spec => []ClosedWhole`, for every order of calls.
  `ClosedWhole` says when a closed file is short, and that it is whole else;
  `Behind` is why: with nothing put off, the file ends before its offset just
  when the last seek over a hole was not followed by a byte (section 7).

For every size of the input, the output, the prefix and the dictionary, every
literal and match length and every offset below 64 KB (`DecodeAssumption`):

* `StaysInBounds` (`NoStrayWrite`, `NoStrayRead`), `OutputIsRight`
  (`DecodesRight`) and `RefusalDeserved` (`RefusesOnlyBad`) of `Lz4Decode`, from
  `IInv`.  Its parts: the distance to the end of both buffers each place of the
  code may rely on (`Distance`), what lies before the destination in each mode
  (`Reach`), the literals or the match in progress as part of what is wanted
  (`Pending`, `MatchPending`), and that the reason of a later refusal is known
  when the field is read (`Blamed`).  The run checks `IInv` on its instance, the
  proof has no bound on sequences, sizes or the scaled 64 KB.
* The heart is that the wide copies leave what copying byte by byte would.  A
  copy of n units is a recursive function (`Chunks`), and what it leaves is
  shown by induction over n (`ChunksFollow`, with `SetInduction`, an induction
  over a set drawn from the library's theorem on well-founded relations, which
  needs no operator as a parameter): each byte equals the one `dist` before it,
  where a copy of 8 or 16 may have a `dist` that is a multiple of the offset.
  `Period` then gives the offset itself, `Tables` that the entries of
  `inc32table` and `dec64table` make such a multiple for each offset below 8,
  and `FirstEightIs`, `UsingOffsetCopied`, `Wild32Copied`, `BlockMatchCopied`,
  `DictMatchCopied` and `PartialCopied` that each way to copy a match leaves it
  whole and touches nothing else that is wanted.

Only model-checked: the properties of `Lz4HC`, under the named assumptions on its
constants (`HCAssumption`): that a chain never leaves the segments it may read is
an invariant of the chain table through wrapping sixteen-bit steps, which the lemmas on
`Lz4Fast` do not give.  Liveness under fairness (`CallsReturn`) is out of the
prover's reach and stays with TLC.

## 6. Not modelled

* The LZ4MID and the optimal parser of `lz4hc.c`, which plz4 uses at level 2 and
  at levels 10 to 12, with `chainSwap` and `favorDecSpeed`, which only the latter
  uses: other searches over the same kinds of tables, each of the size of the
  hash chain parser.
* What plz4 does not call: `LZ4_compress_HC_continue_destSize`, `LZ4_saveDictHC`
  before any compression, the obsolete entry points and `LZ4_decompress_fast`.
* xxh32 (third-party; a sum is the ordered range of what it covers), the
  encoding of headers and flags, error texts, the progress callback of the
  writer, dictionary and skip callbacks of the reader, the arithmetic of the
  options, and the command line tool.
* The bytes of blocks in the models of frames: what a compressor or decompressor
  returns is an input there, and its bytes are the subject of the lz4 models.
* Two writers on one finite pool: their product is beyond TLC at the bounds at
  which one writer meets its own cases.
* Branches no instance reaches: in `Lz4HC` the drop of an old external dictionary
  before a third segment, which takes three calls, and a second match that falls
  below four bytes; in the decoder's fast loop the refusal of a match that is
  longer than what the dictionary can give, which earlier checks already
  exclude.
* In `SparseWriter`, a seek that fails has not moved the offset, and the one-byte
  write of `Close` has not written when it fails.
* Read offsets that lead into the middle of a block: what is read there is
  whatever the bytes happen to say.
* `lz4_hc` runs one level of the hash chains, that is one number of attempts.
* `HashOn = FALSE` of the parallel writer occurs in `writer_panic` only.

## 7. Findings

* `writer_panic`: a block whose compression fails after it has overtaken its
  predecessor is put in the pending map with its error (writer.go:319), popped
  in its turn without a look at it (writer.go:349), and written through a nil
  block (writer.go:330), which panics.  The comment at writer.go:323 says that
  an error on an incoming block puts the writer in its error state.  It takes
  two tasks running at once and a compressor error that is not `ErrCompress`;
  `linkedCompressorHC` (linked.go:42) returns such errors.
* `stream_size_kept`: the content size of a frame stays in `r.opts`
  (rdr.go:284) and is compared with a later frame that has none (rdr.go:86), so
  that two valid frames in a row fail, against "Each frame is considered
  independent" (docs/lz4_Frame_Format.md:113).  `NoFalseAlarm` is the claim,
  `AlarmsExplained` what holds instead.
* `linked_raw`: both readers return an uncompressed block of a linked frame
  without adding its bytes to the dictionary (sync/reader.go:76,
  async/reader.go:149), though the writer takes them as the dictionary of the
  next block (`_genDict`, async/writer.go:415-440) and the format says so
  (docs/lz4_Frame_Format.md:157-158): that block is decompressed with the wrong
  window.

Other deviations met while modelling.  They are behaviours of the passing runs:
the property named says in which states each happens, and that it happens in no
other; without its exception for them it is violated.

* `EndMeansAll`, `cut`: with a read offset, a stream that is no `io.Seeker` and
  ends before the offset makes `io.CopyN` return `io.EOF` (rdr.go:357), which
  `Read` gives on as the end of the stream and `WriteTo` turns into nil, though
  the comment at rdr.go:148 says that io.EOF on readHeader "simply means read
  stream is done".  `DamageReported` has it as the damage `"skip"` that is
  always hidden.
* `AlarmsExplained`, `"hdr"`: with a read offset behind the header the content
  checksum flag is cleared (rdr.go:274) before the block reader is made, which
  then leaves the checksum in the stream, to be read as the next header, though
  it is part of the frame's footer (docs/lz4_Frame_Format.md:103).
* `AlarmsExplained`, `"offset"`, and `DamageReported`: a read offset that is the
  size of the header (7 or 15 here) skips nothing and is not cleared
  (rdr.go:257), so that a later frame is refused or opened at the offset,
  against "Read offset only applies to first of possible consecutive frames"
  (rdr.go:270); and the frame's hash is read but not compared.
* `DamageReported`, `skipSz`: it is set by a read offset and stays
  (rdr.go:277), so that the sizes of later frames are not checked either.
* `NoByteLost`, `"size"`: a wrong content size is returned together with the
  data of the same `Read` (rdr.go:59), against the comment at rdr.go:65.
* `ProgressDrifts`: end marks and content hashes are not counted in `srcPos`, so
  that from the second frame on the progress callback's offset is neither that
  in the stream (opts.go:18) nor, headers and skippable frames before the frame
  counted as they are, that in the frame (plz4_opts.go:116).
* `ClosedWhole`: a hole that `Flush` skipped (sparse.go:117), or a seek before a
  write that failed with no byte written (sparse.go:46), is forgotten, so that
  `Close` writes nothing, returns nil, and leaves a file that lacks the zeros at
  its end, against the comment at sparse.go:140.
