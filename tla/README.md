# Formal models of lucanthrope's storage core

This directory holds TLA+ models of the storage substrate of lucanthrope
(`src/lib/IO`, `src/lib/storage`, `src/include/lucanthrope/{IO,storage}`),
the TLC configurations that check them, and TLAPS proofs about them.
`PROJECT.json` lists every component, run, mutant, finding, hazard and
theorem, and maps each modelled definition to the lines of source it
translates.

## 1. Inventory

### Components and their state

| Component | Source | State | Operations |
|---|---|---|---|
| Buffered stream base `IndexIOBase` | `IO/IndexIOBase.h` | `bufStart`, `bufCur`, `bufEnd`, `pos` | `set`, `setExternalBuffer`, `seek` (abstract), `initInternalBuffer` (abstract) |
| Buffered reader `IndexInput` | `IO/IndexInput.{h,cpp}` | base + `sentinel` | `readByte`, `read`, `readInt32/64`, `readVarint32/64`, `readString`, `eof`; refill through `fillImpl` |
| Buffered writer `IndexOutput` | `IO/IndexOutput.{h,cpp}` | base | `writeByte`, `write`, `writeInt32/64`, `writeVarint32/64`, `writeString`, `flush`, `sync`; drain through `writeImpl` |
| Block file `RAMDirectory::RAMFile` | `storage/RAMDirectory.h` | `blocks_`, `length`, `refs_`, `name`, `parent` | `alloc`, `finish_writing` (commit), `finish_reading` (unref), destructor |
| Block writer `RAMFileIndexOutput` | `lib/IO/RAMFileIndexOutput.h` | its RAMFile, `current_block` | constructor (allocate file), `initInternalBuffer`, `writeImpl`, `seek`, destructor (commit) |
| Block reader `RAMFileIndexInput` | `lib/IO/RAMFileIndexInput.h` | its RAMFile, `current_block`, `last_block`, `last_block_bytes` | constructor, `initInternalBuffer`, `fillImpl`, `seek`, destructor (unref) |
| Directory interface | `storage/Directory.h` | — | `listAll`, `deleteFile`, `fileLength`, `createOutput`, `rename`, `openInput`, `obtainLock`, `fileExists`, `deleteSegment` |
| In-memory directory `RAMDirectory` | `lib/storage/RAMDirectory.cpp` | `files` (name → RAMFile*, `&dummy_file` as placeholder), `mu_` | the interface, plus `commit`, `unrefReader`, `releaseLock`, destructor |
| Lock handle `RAMDirectoryLockFile` | `lib/storage/RAMDirectoryLockFile.h` | directory, name | destructor → `releaseLock` |

Not part of the storage core and not modelled: the text-analysis classes
(`analysis/*`), the document model (`document/Document.h`) and the
`Exception` value type (a thrown exception is an early return that changes
no state).

### How they interact

A client calls `createOutput(name)`: under `mu_` the directory checks the
name is free, builds a `RAMFileIndexOutput` (which allocates a fresh
`RAMFile`), and puts the shared placeholder `&dummy_file` under the name.
Writes go through the `IndexOutput` buffer, which is the current block
itself; `writeImpl` moves to the next block (allocating it) and raises
`length`. The output's destructor calls `commit`, which under `mu_` asserts
the placeholder is still there, installs the file and sets `refs_ = 1`.
`openInput(name)` asserts the entry is a committed file, builds a
`RAMFileIndexInput` (asserting the file is not empty) and increments
`refs_`; the reader refills from successive blocks; its destructor calls
`unrefReader`, which decrements under `mu_` and deletes the file after
unlocking if the count reached zero. `deleteFile` erases the entry and
decrements the same count. `obtainLock` puts the same placeholder under
the lock name; the handle's destructor calls `releaseLock`, which erases
it. `rename` moves an entry; `deleteSegment` erases every entry whose name
starts with a prefix.

### What is hard

* Threads share one directory: every method is atomic under `mu_`, but the
  deletion of a RAMFile runs after unlocking, and the count it rests on is
  kept by hand across five methods and three destructors.
* Placeholders carry no owner: `rename`, `releaseLock` and `deleteSegment`
  can act on a placeholder some other object reserved.
* Assertions are the error channel for broken invariants: a failed one ends
  the process.
* Block boundaries: the block writer and reader convert between a linear
  position and (block, offset) with the edge cases at exact multiples of the
  block size, seeks, and trailing empty blocks.
* Byte codecs: fixed-width little-endian and LEB128 varints with 32- and
  64-bit wrap-around.

### Properties that make each component correct

* Directory: reference counts exact; a RAMFile freed exactly once, only when
  unreachable, and never leaked; every placeholder owned by exactly one live
  output or lock; lock exclusion; no assertion reachable by a client that
  keeps the documented preconditions; cleanup by `deleteSegment` complete.
* Block writer: the blocks hold, at positions `[0, length)`, exactly the
  bytes of an abstract file written and seeked the same way (refinement).
* Block reader: reading from any seek position yields exactly the bytes of
  the file up to `length`, then EOF; the position it reports is the cursor.
* Codecs: decode(encode(v)) = v and the documented encoded lengths.

## 2. Modules

| Module | Models | Used by |
|---|---|---|
| `RAMDirectory` | the directory, its RAMFiles' life cycle, the streams' and lock handles' constructors and destructors | `MCRAMDirectory`, `RAMDirectoryProofs` |
| `Codec` | the fixed-width and varint encoders and decoders, on bit vectors | `MCCodec` |
| `RAMFile` | a RAMFile's blocks, `alloc`, the position layout, `last_block` arithmetic | the stream modules, `RAMFileProofs` |
| `ByteFile` | abstract: what a writer promises (a byte sequence and a cursor) | `RAMFileOutput` (refinement) |
| `RAMFileOutput` | `RAMFileIndexOutput` with `IndexOutput`'s buffer protocol | `RAMFileIO` |
| `RAMFileInput` | `RAMFileIndexInput` with `IndexInput`'s refill protocol | `RAMFileIO` |
| `ByteStream` | abstract: the writer, then readers that return exactly the bytes written | `RAMFileIO` (refinement) |
| `RAMFileIO` | composition: one file written, committed, then read | `MCRAMFileIO`, `RAMFileIOProofs`, `RAMFileOutputProofs`, `StreamProofs` |

The directory and the streams are separate models of one system: the
directory abstracts a file's bytes to "empty or not" and a stream's life to
its constructor and destructor; the stream models take the directory's
side of a file (placeholder, commit, reference count) as given and follow
the bytes.

## 3. The model of the directory (`RAMDirectory.tla`)

State: `files` (the map; `Absent` is no entry, `Dummy` is `&dummy_file`),
`fstate` (a RAMFile is `unalloc`, `writing`, `shared` or `freed`),
`fname`, `empty` (`length = 0`), `refs`, `dummyRefs` (`dummy_file.refs_`),
`readers` (live `RAMFileIndexInput` objects per file), `pendingFree` (files
a thread saw reach zero and will delete after unlocking), `locks` (live lock
handles per name), `fault` (the assertion that aborted the process).

Actions, one per method or destructor: `CreateOutput`, `Write` (any write
through the output; only "non-empty" matters here), `CloseOutput`
(destructor + `commit`), `OpenInput`, `CloseInput` (destructor +
`unrefReader`'s locked part), `FreeFile` (the `delete` after unlocking),
`DeleteFile`, `Rename`, `ObtainLock`, `ReleaseLock`, `DeleteSegment`.
Each assertion that can fail is a disjunct ending in `Abort`, after which
only `Halted` (stuttering) is possible: the modelled build is the debug
build the tests use. Erasing from the map inside `deleteSegment`'s
range-for is undefined behaviour; the model lets the loop either complete
or crash.

`Contract` restricts callers to open, delete and rename committed files
only. The first two clauses follow the documentation: spec 4.6 and 7 say
that a file may be read only after it is committed, and `openInput` and
`deleteFile` assert it. The rename clause is a restriction of this project.
`Directory.h:50-53` asks only that the target not exist.
`dir_rename_reservation` shows what goes wrong without it: a rename that
moves an output's placeholder. With `Contract = FALSE` every call is
allowed on every name.

Bounds: two names (one of them in the one segment prefix), three RAMFiles,
two readers per file, one or two lock handles per name, two decrements of
`dummy_file.refs_`. Two names are the least that lets rename, a second
writer and a lock coexist; three files let one be written, one be read and
one be pending deletion at once; two readers let the last-reader race with
deleteFile happen with a second reader either side of it. The RAMFiles are
symmetric (no property tells them apart), which TLC uses.

### The codecs (`Codec.tla`, checked by `MCCodec.tla`)

The encoders and decoders of `IndexOutput.cpp` and `IndexInput.cpp` are
operators on words: a w-bit unsigned integer is a function from `1..w` to
bits, because values such as 2^64 - 1 do not fit TLC's integers. Each C++
operator has its translation: `>>` is `Shr`, a cast to `char`/`uint8_t` is
`LowByte`, `| B` is `OrB`, `num < (1 << k)` is `Below`. `writeVarint32`
keeps its five branches as written; `writeVarint64`'s loop is a recursive
function over the number of shifts. A decoder takes the bytes left in the
stream and returns `[ok, value, used]`; `ok = FALSE` is the
`IndexCorruption` exception (too few bytes, or no terminating byte within
5 / 10 bytes). `RefVarint` is the LEB128 encoding of spec section 6, the
reference the encoders are compared with.

`MCCodec` walks a set of 332 words that holds `2^k - 1`, `2^k` and
`2^k + 1` for every `k < 64`, all values up to 160 and the values of the
unit tests: every branch boundary of both encoders. Each decode runs on the
encoding followed by one more byte with its continuation bit set, so a
decoder that reads too far is caught.

### The streams (`RAMFile`, `RAMFileOutput`, `RAMFileInput`, `RAMFileIO`)

A stream is one record variable, a field per member: the writer `out` has
`blocks`, `length` (the RAMFile's), `cur` (`current_block`), `buf`
(`bufStart != nullptr`), `bs`, `bc` (`bufStart`, `bufCur` as offsets in the
current block; `bufEnd` is always the block's end), `pos`, `open`, `err`
and `pend` (the bytes a pending recursive call of `write` still has to
write); the reader `rd` has `cur`, `buf`, `bc`, `sent` (the sentinel),
`pos`, `lastBlock`, `lastBlockBytes`, `open`, `err`, and `reading`, `want`,
`got` for a `read(ptr, size)` in progress (its size and the bytes copied so
far, `bytes_copied` being `Len(got)`), and `res` is its
last call: kind, argument and the bytes returned, each tagged with the
file position the reader took it from. Private methods (`writeImpl`,
`flushNonEmpty`, `copyToBuffer`, `set`, `initInternalBuffer`, `fillImpl`,
`eof`) are operators from record to record; each public call is one action
that applies the whole call, except the two that loop. `write` recurses
after it sets up the first buffer or flushes a full one: each activation is
one step (`Write` for the call, `WriteRest` for the recursive call left in
`pend`), and while `pend` is not empty it is the writer's only step.
`read` loops: `ReadStart` is the call, and each `ReadIter` is one iteration
of `while (bytes_copied < size && !eof())` (the test, which may refill the
buffer, then the exit or one copy). While a read is in progress it is the
reader's only step. A failed assertion or an index
past `blocks_.size()` (undefined behaviour, taken as a crash) sets `err`
and leaves the rest of the record as it was; the call returns nothing, and
no step follows. `new char[kBlockSize]` leaves bytes uninitialised: they are
the model value `Undef`, so a byte nobody wrote is told apart from every
byte written.

`RAMFileIO` runs the writer's calls (`writeByte`, `write` of 1 to
`MaxWrite` bytes, `flush`, `seek`, the destructor) and, once the
destructor has committed the file, readers one after another (`openInput`,
`readByte`, `read(n)`, `eof`, `seek`, the destructor). `readInt*`,
`readVarint*` and `readString` are `read`/`readByte` calls plus checks
that change nothing, so the read actions and `ReadByte` cover what they do to the
reader. Two constants describe the clients: `ReadPastEnd` (whether they
read and ask `eof()` at the end of the file) and `SeekToEnd` (whether they
seek to `length`, which spec section 8 allows).

Refinement. `ByteFile` is the writer's promise: a sequence of bytes and a
cursor; a write stores bytes at the cursor and moves it; a seek moves it
anywhere in `[0, length]`. `ByteStream` adds readers: a cursor in
`[0, N]`, `readByte` returns the byte at the cursor or throws at `N`,
`read(n)` returns `min(n, N - cursor)` bytes, `eof()` is `cursor = N`.
The mapping is `content <- Content(blocks, max(length, pos))` (the writer's
`length` lags behind `pos` until the next flush, seek or destructor),
`cursor <- pos`, `rcursor <- ` the position of `bufCur` in the file,
`rres <- res`. During a read the reader's cursor is `CallerAt`, the
position of `bufCur` less the bytes copied so far: it does not move while
the loop copies, so every iteration but the exit is a stutter and the exit
is `RRead`. A crashed call maps to a stutter, so the refinement says
what every call that returns returns; crashes are `NoCrash`'s business.

Bounds: blocks of 2 bytes, files of up to 5 bytes (three blocks, one full
in the middle, the last full or partial), two byte values, writes of up to
3 bytes (a write that crosses a block boundary, one that fills a block
exactly, and one that crosses after a partial block), reads of up to
`BlockSize + 1` bytes (a read that refills). The four-byte files of the
violation runs already show each disagreement.

## 4. Runs

| Run | Properties | Shows |
|---|---|---|
| `dir_memory` (pass) | TypeOK, RefCountSound, NoUseAfterFree, NoLeak | With any call on any name, `deleteSegment` included, counts stay exact, and each RAMFile is deleted once, only when unreachable, never leaked (246k distinct states under symmetry of the RAMFiles). |
| `dir_reservation` (pass) | ReservationIntegrity | Under the contract and without `deleteSegment`, every placeholder belongs to exactly one live output or lock handle. |
| `dir_lock_segment` (violation) | LockExclusion | `deleteSegment` erases a held lock's placeholder; a second `obtainLock` succeeds. |
| `dir_segment_abort` (violation) | NoAbort | `deleteSegment` on any match crashes (iterator invalidation) or aborts (inverted assertion on committed files). |
| `dir_empty_open` (violation) | NoAbort | `createOutput`, close without writing, `openInput`: the reader's constructor aborts. |
| `dir_rename_reservation` (violation) | ReservationIntegrity | `rename` moves an output's placeholder; its commit will abort. |
| `codec_roundtrip` (pass) | FixedRoundTrip, Varint64Exact | Fixed-width codecs round-trip every boundary value; `writeVarint64` emits exactly LEB128 and `readVarint64` reads back exactly those bytes. |
| `codec_varint32` (violation) | Varint32Exact | `writeVarint32` of any value in [2^21, 2^28) drops its low 7 bits (`IndexOutput.cpp:106-109`); `writeString` of a string of 2 MiB to 256 MiB writes a wrong length. |
| `io_stream` (pass) | IOTypeOK, NoCrash, StreamRefines | Any interleaving of `writeByte`, `write`, `flush`, `seek` and close, then readers that read within the file and seek below its length. No stream crashes, both buffer windows stay ordered, and every call returns what `ByteStream` says (135k states). |
| `io_read_past_end` (violation) | StreamRefines | A reader at the end of a file whose last block is partial: `eof()` says "more" and `readByte` returns an uninitialised byte from past the end. Cause: `last_block` is a count, not an index (`RAMFileIndexInput.h:26`). |
| `io_seek_end` (violation) | NoCrash | `seek(length)`, which spec section 8 allows, fails the assertion `seek < length` (`RAMFileIndexInput.h:66`). |
| `io_seek_pos` (violation) | PosTracks | After `seek(s)`, the reader's `getCurrentPosition()` still reports the old position, because `seek` never sets `pos` (`RAMFileIndexInput.h:65`). |

Every property of a passing run has a mutant in `PROJECT.json` (a dropped
guard, an off-by-one in the delete decision, a rename that overwrites an
existing target, a deleteFile that never deletes, a byte of `writeInt64` shifted
by 48 instead of 56, a varint loop that stops at `num > B`, a delete that never frees, a
`set()` that leaves `bufStart` behind, an off-by-one in `writeImpl`'s
allocation test, a reader `seek` that drops the offset in the block) that
TLC catches.

No fairness is assumed anywhere. The directory's properties are all
safety properties: nothing forces a client to close a stream. The RAMFile
objects are interchangeable model values, so the directory runs use
symmetry over them.

Findings of the io runs:

* The reader's `last_block` makes a file whose length is not a multiple of
  the block size read past its end, and `eof()` is never true there.
* `seek` asserts `< length` where the spec allows `<= length`.
* `seek` leaves `pos` stale, so the reported position is wrong after
  every seek. `MaxRead` bounds how far the stale `pos` climbs.

## 5. Proofs

`RAMDirectoryProofs.tla` proves, for every value of the constants that
satisfies `ConstAssumption` (finite names, `Absent` and `Dummy` distinct
from every RAMFile, natural bounds, either value of `Contract`, any
segment membership):

* `TypeCorrect`: `Spec => []TypeOK`, through the step lemma `TypeStep`.
* `RefCountCorrect`, `NoUseAfterFreeCorrect`, `NoLeakCorrect`:
  `Spec => []RefCountSound`, `[]NoUseAfterFree`, `[]NoLeak` — the
  properties `dir_memory` checks, now for any number of names, files,
  readers and segments.

None of the three invariants is inductive alone: a step of `CloseOutput`
or `DeleteFile` preserves the counts only if it knows facts about files
the property does not mention. The inductive invariant `IInv` adds:

* `Unique` — no RAMFile under two names (otherwise erasing one entry would
  leave the file reachable while its count says otherwise);
* `TableShared`, `ReadersShared` — only committed files are in the map or
  have readers (so a commit never finds its own file already counted);
* `Counts` — `refs = readers + [in the map]` for every shared file;
* `PendingExact` — a file is pending deletion exactly when it is shared
  and its count is zero (so `Unref` adds it once, and `FreeFile` frees an
  unreachable file);
* `WritingNamed` — a file being written has a name, and that name holds
  the placeholder or nothing (so the commit installs it under a name
  no other file holds).

`InitIInv` and `NextIInv` (one step per action, split into the abort and
the success branch where an action has both) establish `IInv`;
`IInvSafe` derives the three properties; each theorem ends `PTL DEF Spec`.
TLC checked `IInv` as an invariant of `dir_memory` before it was proved.

`RAMFileProofs.tla` proves facts about the block layout, for every block
size that `BlockAssumption` allows (any positive natural):

* `LastBlockIsPastEnd`: for every length `len > 0`, the block that
  `last_block` names starts at or past `len`, and the last byte lies in
  block `last_block - 1`. So the misplaced sentinel behind
  `io_read_past_end` is not an artefact of 2-byte blocks: it happens for
  every block size.
* `SeekNeverLastBlock`: every position that `seek`'s assertion lets
  through lies in a block below `last_block`, so `seek`'s last-block
  branch is dead code.
* `TrailingBlockHarmless`: a block that `alloc()` appends after the data
  does not change what a reader of the first `len` bytes sees. This
  justifies how the refinement mapping reads the writer's blocks.

These rest on two lemmas on integer division (`DivMod`, `BlockBelow`) and
on `AppendProperties` from the sequence theorems.

The same module proves two results about names and handles:

* `ReservationCorrect` and `LockExclusionCorrect`. They assume
  `ContractOnly`: callers keep the contract and `Segments = {}`, so
  `deleteSegment` is never called. They prove `Spec => []ReservationIntegrity`
  and `Spec => []LockExclusion`. Their inductive invariant is
  `RInv == IInv /\ Reserved`, where `Reserved` says that every placeholder
  belongs to exactly one live output or lock handle. The run
  `dir_reservation` checks the first on one instance. The run
  `dir_lock_segment` shows that `deleteSegment` breaks the second. With
  the contract off, the second also fails another way: `obtainLock(n1)`,
  then `rename(n1, n2)` moves the lock's placeholder, and a second
  `obtainLock(n1)` succeeds.

`CodecProofs.tla` proves `FixedCodecsRoundTrip`: for every 32-bit and
64-bit word and any bytes after it, the fixed-width decoder returns the
word and consumes 4 or 8 bytes. `FixedRoundTripCorrect` derives the
`codec_roundtrip` run's fixed-width property from it. The varint checks
stay with TLC. Their operators recurse over the value's 7-bit groups, and
the provers cannot unfold that recursion for every input.

`RAMFileIOProofs.tla` proves the two invariants `io_stream` checks, for
every block size, byte set and bound, under `ReaderContract` (readers
neither read past the end nor seek to `length`: the two violation runs show
that without it the properties fail):

* `IOTypeCorrect`: `Spec => []IOTypeOK`, the buffer windows of both
  streams stay ordered and the writer's current block exists;
* `NoCrashCorrect`: `Spec => []NoCrash`, no assertion fails and no block
  index passes `blocks_.size()`.

Neither is inductive. `IOTypeOK` says `bufCur <= bufEnd`, but a step keeps
that only if it knows where `bufCur` stands in the file and that the blocks
hold the whole length. The inductive invariant `IInv` is therefore the full
layout of both streams:

* `OutOK`: `pos = current_block * kBlockSize + bufCur`, the current block
  exists, `length <= blocks * kBlockSize`, `bufStart` is below the block's
  end (so a full buffer always has bytes to flush, and `flushNonEmpty`'s
  assertion holds), and a pending write stays within the bound;
* `InOK`: the reader's `last_block` is that of the committed length, its
  sentinel is the block's end, its block starts inside the file, and what a
  read in progress still wants lies inside the file (so `fillImpl` never
  steps past the last block);
* a reader is open only on a committed, non-empty file.

Each helper (`initInternalBuffer`, `writeImpl`/`flushNonEmpty`,
`copyToBuffer`, `seek`, `fillImpl`, `eof`, one loop iteration of `read`)
has a lemma that it keeps the layout. `OutNextOK` and `InNextOK` combine
them per action, and `NextIInv` per component. TLC checked `IInv` on
`io_stream` before it was proved.

`RAMFileOutputProofs.tla` proves `WriterRefinesFile`: `Spec =>
File!FSpec`, where `File` is `RAMFileOutput`'s instance of `ByteFile`. So
the writer implements `ByteFile` for every block size and bound, with no
assumption on the readers. It needs only `OutOK`, which is inductive on
its own because readers never touch the writer. Under the mapping, the
argument runs as follows:

* `CopyContent` shows that copying `d` into block `k` at offset `bc` is
  `Overwrite(content, k * kBlockSize + bc, d)` with the length raised. Its
  lemmas are `DivUnique` (a position between the starts of blocks `k` and
  `k + 1` is in block `k`) and `AtPut` (the copy changes exactly the
  positions it covers).
* `writeByte` and each activation of `write` are a `Put` of the bytes they
  copy. An activation that only sets up the first buffer, or finds the
  buffer full, is a stutter.
* `flush`, the allocation of a trailing block, and raising `length` to
  `pos` change no byte of `Content(blocks, max(length, pos))` (via
  `TrailingBlockHarmless`).
* `seek` is `Seek`, and the destructor is `Close`.

`StreamProofs.tla` proves `StreamRefinesCorrect`: under `ReaderContract`,
`Spec => StreamRefines`. So the writer and the readers of one file
implement `ByteStream` for every block size, byte set and bound, which is
what `io_stream` checks on one instance. The `io_read_past_end` violation
shows that the contract cannot be dropped. The caller's position
`rcursor` is mapped to `CallerAt`, which is `bufCur`'s place minus the bytes
copied by a read in progress. Each reader call maps as follows:

* `openInput()` is `ROpen`, `readByte()` is `RByte`, `eof()` is `REof`
  (answering "more", since the contract keeps the caller below the length),
  `seek(s)` is `RSeek(s)`, and the destructor is `RClose`.
* The call of `read(ptr, size)` and every iteration of its loop that only
  copies are stutters: `CallerAt` stays put while `bufCur` and the bytes
  copied both advance.
* The loop's exit is `RRead(size)`. It returns the `size` bytes from the
  caller's position, tagged with their positions.

The exit step needs a fact that `IInv` lacks: the bytes copied so far are
the file's bytes just before `bufCur`, in order. `ReadInv` adds it, as
`GotAt`, together with `want >= 1` during a read. `IInv /\ ReadInv` is
inductive: `GotCopy` shows that one copy of `copyToBuffer` appends the next
bytes of the block at `bufCur`, and `IterStep` shows the loop either exits
with `size` bytes or copies. The writer's steps keep `ReadInv` because no
reader is open while the writer is. They are `ByteStream`'s writer steps
via `WriterRefinesFile`'s `OutNextStep`. The proof has one lemma per reader
call (`OpenMaps`, `ByteMaps`, `EofMaps`, `SeekMaps`, `StartMaps`,
`CloseMaps`, `IterMaps`), combined in `ReaderStep`. `InitStream` maps the
initial state. The theorem ends `PTL DEF Spec, StreamRefines,
Stream!SSpec`.

What stays with TLC:

* Liveness and ENABLED, which the provers do not reach. The project
  states no liveness property: the code frees a RAMFile in the same call
  that drops its last reference, so `NoLeak` (every unreachable file is
  being freed by the thread that dropped it) already covers it.
* The codec checks (recursive functions over bit vectors) and the
  violations.

## 6. Not modelled, and why

* The analysis and document code, which lie outside the storage core.
* The rehash inside `rename`. It needs more map entries than the
  instances have, and the rehash itself is the standard library's.
* Allocation failures: `new` or the map's insertion throwing inside
  `createOutput` or `obtainLock` while `mu_` is held. The hazard is real
  (the output's destructor would call `commit`, which locks `mu_` again).
  Modelling it would add a second branch to every allocating action, and
  the outcome is decided by the library's exception behaviour.
* The directory's destructor and the static `dummy_file`'s destructor at
  exit. Both run at the end of a directory's or the process's life. The
  runs take the directory to outlive its streams, as the tests do.
* `IndexIOBase::setExternalBuffer`. Both stream classes return false from
  `supportsExternalBuffer()`, so the call always fails its first assertion.
* What `readInt*`, `readVarint*` and `readString` return. These are
  `read` and `readByte` calls followed by decoding, and the decoding is
  `Codec`'s.
