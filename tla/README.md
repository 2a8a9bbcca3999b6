# Formal models of the archiver

This directory holds TLA+ models of the archiver in `src/` (FreeArc in Haskell,
with compressors in C++), TLC configurations that check them on small instances,
and proofs that the TLA+ proof system checks for instances of any size. Every
definition was translated from the source. `PROJECT.json` maps each one to its
lines, lists the runs and, for every property, a mutant of the model: a plausible
bug the property is known to catch.

## The system

An *archive* is a sequence of blocks: a header, *solid blocks* with the data of
many files each, a directory, a footer, possibly a recovery record. A command that
creates or updates an archive runs these parts:

| part | code | state it keeps | operations |
|---|---|---|---|
| command dispatch | `Arc.hs` | queue of parsed commands, lock file | run the commands one by one |
| update of an archive | `ArcCreate.hs` | files: the archive, the temporary one, the input | archive, test, delete files, remove, rename or copy, test again |
| errors and finalizers | `Errors.hs` | list of finalizers, `operationTerminated`, `programFinished`, warnings | `registerError`, `shutdown`, `handleFinalizer`, `failOnTerminated`, Ctrl-Break |
| layout and reading | `ArcvProcessRead.hs` | position in the layout, directory of the current block | write header, solid blocks, directory, footer, recovery record; read files; collect descriptors |
| read-ahead cache | `allocator` in `Utils.hs`, `makeFileCache` | two cursors in a heap, blocks in flight | `getBlock`, `shrinkBlock`, `waitReleasingMemory` |
| packing and writing | `ArcvProcessCompress.hs` | block being packed, data inside the packers, the archive file | `CompressData`, `DataChunk`, `CopySolidBlock`, `DataEnd`, `Directory`, `TheEnd` |
| pipes | `Process.hs` | channel of instructions, channel back | `sendP`, `receiveP`, `send_backP`, `receive_backP`, `createP`, `runP` |
| 4x4 | `Compression/4x4` | jobs, three queues, an event per job, an error flag | read, process, write, recycle; start and stop of the threads |
| GRZip | `Compression/MultiThreading.h`, `GRZip/C_GRZip.cpp` | jobs, two queues, three events per job, compression slots, an error flag | create the jobs, read, process, write, free; end the threads |
| SREP | `Compression/SREP` | a ring with the dictionary, two sets of buffers, three events, an error flag, list of matches | read ahead and save in the background, compress, a second pass |
| decompression | `ArcvProcessExtract.hs`, `ArcExtract.hs` | solid block being unpacked, position in it; a chain of decompressors | request a file, go on, skip, start over; acknowledge |
| structure, lists | `ArhiveStructure.hs`, `ArhiveDirectory.hs`, `ArhiveFileList.hs` | none | encode, sort, split into solid blocks, merge |
| recovery record | `ArcRecover.hs` | XOR sectors and their CRCs | compute, find damaged sectors, restore |

How they interact. `tempfileWrapper` (ArcCreate.hs) calls `archiveWrite`, which runs
the *reader* and the *packer* as two threads joined by a pipe. The reader puts
instructions into the pipe and data into buffers of the cache; the packer runs the
chain of compressors, which may have threads of their own (4x4, GRZip, SREP), and returns a
buffer when the first compressor consumed it. Two more links bypass the pipe: the
*backdoor*, an `MVar` through which the packer delivers the descriptor of each block
it wrote, and the handle of the archive file, whose position the reader asks for while the packer
writes, and which it takes back to the beginning to make a recovery record. When files of an old archive are packed again, the reader is the client of
the decompression server. Any thread may register an error, which runs the finalizers
and ends the process while the other threads go on. A recovery record is written behind the
footer; testing or extracting an archive looks for damage first, and a repair writes a new archive.

### What is hard, and what makes each part correct

`PROJECT.json` lists the hazards at their lines. In short:

* **cache**: equal cursors mean *full*; wrap-around, alignment, and a heap that is no
  multiple of a buffer meet in three lines. Correct: the area being filled overlaps
  nothing in flight; a returned block is always the one at the end of the free space
  (else `addToAvail!`); an empty heap is recognised; a request is served however small
  the heap.
* **reader and packer**: descriptors are matched with blocks by order only; files may
  vanish; the position of the file is read, and for a recovery record moved, by a thread that
  does not write it; both threads block on bounded resources. Correct: each descriptor describes its block,
  positions are those of the blocks, the packer never meets an instruction it has no
  case for, no buffer is lost, creation completes.
* **update**: at every instant a crash may come, and another thread may be running
  the finalizers; another program may create or replace the archive meanwhile. Correct: the data
  of the old archive and of deleted files are in a whole file on disk; success means that the new
  archive is in place; what another program put there is left alone.
* **4x4**: jobs and events are reused, null pointers share the queues with jobs, any
  thread may fail. Correct: one user per buffer, blocks out in order, success only when
  all are out, the call returns.
* **GRZip**: four places hand jobs on without a lock; the number of slots is smaller than
  that of the jobs; any thread may fail or not exist. Correct: as for 4x4.
* **SREP**: two threads, kept apart by three events only, share a ring in which one
  overwrites what the other searches; input and matches may be bad. Correct: the whole dictionary is there while a block is
  compressed; each block is saved with its own matches and digest; nothing is
  freed too early; compression ends.
* **recovery record**: which sector belongs to which recovery sector is counted from the
  end, by three loops; the record may be damaged itself. Correct: a repair restores exactly what
  can be restored and changes nothing else; a burst as long as the record is repaired.
* **decompression**: the server goes on, skips or starts over depending on a triple of
  state and on the next request, and a damaged block may end too early; each stage of the chain sends one acknowledgement
  more than it gets data. Correct: a file gets exactly its bytes; no stage hangs, no buffer is overwritten before it was copied.

## Modules

| module | models | in the code |
|---|---|---|
| `BufferPool` | what a read-ahead cache promises: areas that are private, handed over and reclaimed in order | abstract; no code |
| `CyclicAllocator` | the allocator and its client | `allocator` (Utils.hs), `makeFileCache` (ArcvProcessRead.hs) |
| `CyclicAllocator_proof` | theorems about it | |
| `CreatePipeline` | reader and packer | ArcvProcessRead.hs, ArcvProcessCompress.hs |
| `MCCreatePipeline` | small archives for it | |
| `CreatePipeline_proof` | theorems about it | |
| `OrderedFilter` | what a block compressor promises to its caller | abstract |
| `FourByFour` | 4x4 | Compression/4x4/C_4x4.cpp |
| `FourByFour_proof` | theorems about it | |
| `GRZipThreads` | the threads of GRZip | `WorkerThread`, `MTCompressor` (MultiThreading.h), both `main_cycle`s (C_GRZip.cpp) |
| `GRZipThreads_proof` | theorems about it | |
| `SrepBackground` | the threads of SREP's compression | `BG_COMPRESSION_THREAD` (io.cpp), the compression in `srep_main` (srep.cpp) |
| `SrepBackground_proof` | theorems about it | |
| `DecompressChain` | the decompressors of a solid block, a thread each | `deCompressProcess`, `deCompressProcess1`, `resendData` (ArcvProcessExtract.hs) |
| `DecompressChain_proof` | theorems about it | |
| `DecompressServer` | unpacking files on request, and the client | `decompressFile`, `decompressProcess`, `decompressBlock`, `decompressStep` (ArcvProcessExtract.hs), `runAsyncP` (Process.hs) |
| `DecompressServer_proof` | theorems about it | |
| `UpdateArchive` | replacement of the archive, finalizers, three threads that may end the program | ArcCreate.hs, Errors.hs |
| `ArcRecover` | dimensions of a recovery record, writing it, scan, repair | ArcRecover.hs |
| `UpdateArchive_proof` | theorems about the archive file: `UpdateArchive` and `ArcRecover` | |

Definitions named `Mut...` are the mutants. No other definition uses them.

### CyclicAllocator

`start`, `end` are the two `IORef`s of the allocator, as offsets in the heap. `phase`
says where the owner is: `asking` is the loop of `getBlock`, `filling` the time between
`getBlock` and `shrinkBlock`, when the code leaves an error thunk in `start`. `sent` is
what the code keeps implicitly: the blocks in the pipe, in the packer or in the back
channel. `GetBlock`, `WaitReleasingMemory` and `SendBuf` are the closures of the same
names, `ReturnBlock` is `send_backP` in `storingProcess`. Addresses, sizes and
alignment are numbers, so `nextAvail` is arithmetic on any sizes. `PoolSpec` says that
the module implements `BufferPool`; this is why `CreatePipeline` may merely count
buffers.

### CreatePipeline

`Plan` is the layout: the blocks that
`createArchiveAtructureAndReadFilesProcess` writes, in order; a recovery record is two of them (`r0` and
`r1` in ArcRecover.hs), each with its descriptor, and a second footer. The reader walks through
it with `blk`, `file`, `chunks`; `rpc` is its place in `writeBlock`, `readFile` and
`createDirBlock`. The packer's `cpc` is its place in the main loop,
`copy_block` and `compress_block`. `pipe`, `returned`, `backdoor` are the channels.
`pos` is the position of the handle of the archive, which both share: the packer writes where it is,
over what is there (`WriteAt`), and before `r0` the reader remembers it (`rrPos`), takes it
back to the beginning, reads `left` sectors and puts it back (`StartScan`, `SeekStart`, `ScanSector`, `SeekBack`).
The instructions that concern only the user (`DebugLog`, `CorrectTotals`) are in the pipe,
too, since the packer has cases for them in some places and not in others.
`archive` is what is in the file: one entry per chunk, naming the block and the file it
came from, so that `DescriptorsTrue` can compare a descriptor with what is there: its
directory must cut that part of the archive into the files it lists (`Lists`).
`store` abstracts the chain of compressors to a FIFO that may hold anything and write at
any time. Bytes, checksums and the encoding of a directory are left out. A file's
length is nondeterministic, 0 to `MaxChunks` buffers, whatever was listed.

### FourByFour

One variable per queue, per event and per job buffer; a job is its number; a buffer
holds the number of a block. `Caller` is `do_compress` or `do_decompress` (`direction`)
with `pool_init` and `pool_finish`; `Worker(w)` and `Writer` are the two thread
functions. A `PQueue` operation is one step: it runs under a mutex. In decompression a
block may have been stored raw and then bypasses the workers. After a failure an
output buffer holds `NoBlock`. `FilterSpec` says that, seen from the caller, the module
implements `OrderedFilter`.

`ReturnsOrStranded` excludes `Stranded` by name, see "What the models found".

### GRZipThreads

`WriterJobs` and `FreeJobs` are the two `SyncQueue`s: a sequence and the event that says
that it is not empty. `Put` and the test in `Get` run under a mutex and are one step; the wait for
the event is another (`sleep`, `asleep`), so a wakeup that comes too early or is taken by
nobody is in the model. There are more jobs than slots, and a thread for each job
(`tpc`); `cpc` is the place of the calling thread in `CreateJobs`, the `main_cycle` of
its `direction`, and `WaitJobsFinished`, whose three statements are three steps.
`InSize` is whether the field of that name is positive: the test that ends a thread, and a test of
the writer. `allocated` says whether a job has its buffers, which compression
allocates once and decompression for each block. `FilterSpec`: the module implements
`OrderedFilter` as 4x4 does. `ReturnsOrHangs` excludes two states by name.

### SrepBackground

`bpc` and `mpc` are the places of the two threads, `n` the block the background thread
reads, `k` the set of buffers the main thread has in hand. `dict` says which block is in each part
of the ring, `Torn` while it is read; `block`, `prepared`, `stat` say whose data,
digest and matches are in the sets. So what is saved is a record of three numbers, and
`InOrder` wants all three to be those of the block. `mode` is one of I/O LZ, Index-LZ and
Future-LZ, which differ in who writes and whether matches are kept in a list for the second
pass. Two faults leave no trace in the code's error flag: `ReadFails`, where what `file_read` returns is the end of
the input (`end` is the last block before it), and `BadMatches`, where `save_data` returns false (`bad`).
`FilterSpec` excludes `LostSilently`, success after one of them, by name: such a call counts as one that has
not answered.

### ArcRecover

A sector is a set and xor the symmetric difference: sector `n` is `{n}` and damage adds an
element nothing else has. So a CRC tells everything apart that was not equal, which is what
the code relies on. The dimensions (`sector_size`, `rec_size`, `rec_sectors`) are the code's
arithmetic on numbers, checked for every combination of archive size and option of the instance.
`Damage` is the world: any sectors of the archive and of the record, and a second source that is
missing, unusable or damaged elsewhere. `RepairExact` is a reference definition (`Restorable`, with
classes counted from the ends) against what the loops compute.

### UpdateArchive

`arc`, `tmp`, `src` are the files and what is in them; `pc` is the place of the main
thread in `tempfileWrapper`; `finalizers`, `terminated`, `finished` are the `IORef`s of
Errors.hs, and `spc[t]`, `todo[t]` where thread `t` is in `shutdown`. All options that
steer the wrapper are chosen in `Init` (`-t`, `-kb`, `-w`, `-d`, archive exists or not).
A crash of the machine needs no action: what must survive it is an invariant of the
files. `CreateForeign` is another program, which may create an archive of the same name or replace the old one at
any time. A test of a good archive may raise an exception as well (`TestFails`), and the files to delete and the
old archive may resist. `seen` only remembers, for the properties, that the old archive was replaced by somebody
else and that a copy differs from its source. `OnDisk` counts only `new` as a whole archive. What it does not hold of
has a name: `NothingLost` excludes `OnlyBadCopy`, `ForeignKept` excludes the two steps in which the code does not look
(`Unlooked`), see "What the models found".

### DecompressChain

One stage per method; `pc[s]` says whether it is in the code of the method (`codec`),
in its read or write callback, or in the end of `deCompressProcess1`. `link[s]` is the
`MVar` between two stages, `acks[s]` the channel back. `rest` and `size` are `remains`:
what of the buffer in hand was not copied yet. A buffer holds no bytes but where it begins
in the producer's output, so that `InputComplete` can say that reads of any size from
buffers of any size yield the stream without a gap. A method reads and writes as it
likes; once a callback refused, it returns. Errors go to `operationTerminated` as in
file-manager mode; in the other mode the first one ends the program (`UpdateArchive`).
A method may return success before its input is at its end (`Succeed`): formats say themselves where
they end, and a damaged block may say so anywhere.
Why the chain ends is subtle: `copyData`, when it emptied a buffer, waits for the next
even if nothing more is wanted. Therefore a method never runs with an empty hand
(the first part of `BufferIntact`), and the acknowledgement a stage sends at its end wakes a producer
that waits for exactly that one.
Two assumptions about methods are in this model. A stage is in one callback at a time, which holds for methods that
work in one thread; 4x4 and GRZip read in one thread and write in another, so for them "never with an empty hand"
says nothing of the thread that writes. And methods return if their callbacks do, which `StarvedOfJobs` of
`GRZipThreads` contradicts: a hang inside of a method hangs the chain.

`ChainEnds` excludes `Stranded` by name: `checkingCtrlBreak` may stop a stage before its
first read, and then a buffer nobody takes stays in the `MVar` on which the last word of
the producer waits. It takes an error in a stage at the moment another one starts.

### DecompressServer

`spc` is the server's place in `decompressProcess`, `decompressBlock` and
`decompressStep`, `cpc` the client's in `decompressFile` and in the `bracket` around all
requests. `income`, `outcome`, `back` are the three `MVar`s. `state` is the triple of the
code; `at` and `buf` are what really is in hand: a position in the unpacked block and a
length. `DataTrue` compares the two through the messages that arrive. Memory outside of the
buffer has no position, so an offset that leaves it is noticed. The chain is any partition of
the block into buffers, and it may end anywhere (`ChainEnds`): because it was refused, because the operation was
terminated, or without an error before the file is through, as copying without compression does at the end of its
input. Then `decompressProcess` opens the block for the same file once more and its bytes are sent from the
beginning; `short` remembers this until the next request, and `taken` counts what came since the block was
last opened.

`Joined` excludes two things by name. `Abandoned`: when the client's writer throws an exception
(`FailInWriter`: the disk is full; or `receiveBuf` when the operation is terminated), the server waits for an
acknowledgement and not for the request to stop, and `joinP` waits for the server. `TriesAgain`, if it happens for
ever: a block that ends too early each time it is opened.

In the cases where threads wait for each other, and in finding 1, GHC's runtime may notice that nobody can wake the threads, and
raise `BlockedIndefinitelyOnMVar`; this depends on what else can still reach the `MVar`
and is not modelled.

## Runs

`tlc -config <cfg> <module>`; the longest, `filter` and `create`, take two minutes on two cores.

| run | configuration | question |
|---|---|---|
| `cache` | CyclicAllocator_cache: heap 13, buffer 7, alignment 2 | is every block private, `addToAvail!` never raised, the empty heap recognised, does `getBlock` return, does the allocator implement the pool |
| `create` | MCCreatePipeline_all: one solid block of each kind (directories, disk, copied, faked, from an archive), files and control blocks of up to 3 buffers, a recovery record, 2 buffers of cache; 646545 states | are descriptors and positions right, is nothing left over, does the packer always get an instruction it expects, does creation complete or get stuck in the one known way |
| `replace` | UpdateArchive_all: all events, all options | is anything lost, is success the new archive, is an interruption harmless, is the archive of another program left alone |
| `filter` | FourByFour_filter: 2 workers, 4 jobs, 5 blocks, failures of allocation, reading, writing and the codec | is 4x4 an ordered filter, does it return |
| `grzip` | GRZipThreads_all: 2 slots, 4 jobs, 5 blocks, failures of memory, reading, writing and the codec, both directions | is GRZip an ordered filter, has a job one user, does the call return |
| `srep` | SrepBackground_all: 5 blocks, a dictionary of 2, all modes, failures of both threads, input that cannot be read, bad matches | is the dictionary intact, is each block saved with what belongs to it, does compression end |
| `chain` | DecompressChain_three: 3 stages, 3 bytes written by each, reads and buffers of up to 2, any errors | is a buffer ever overwritten, a byte lost; does the chain end |
| `server` | DecompressServer_files: 3 requests, a solid and a stored block of 4 bytes, buffers of up to 3, a chain that ends anywhere, a writer that fails | is each request answered with its file; can the server be stopped |
| `damage` | ArcRecover_damage: archives of 1, 2 and 5 sectors, 0 to 6 recovery sectors, any damage | is the repair exact, is a burst repaired |
| `backdoor` | MCCreatePipeline_backdoor: three solid blocks, 1 buffer | *finding*: creation does not complete |
| `lost` | UpdateArchive_lost: Ctrl-Break | *finding*: it can remove the only archive |
| `sizes` | ArcRecover_sizes: archives of 1023 and 1024 sectors of 4 kB | *finding*: `-rr0.1%` of a large archive fails |

Why the bounds are enough. *Allocator*: a heap of less than two buffers makes every request
after the first wait, and only there the reset of an empty heap matters; shrunk
blocks of every length from 0 give aligned and unaligned ends. Larger heaps, with blocks on
both sides of a wrap, are covered by the proofs, which hold for all sizes. *Pipeline*: the cache has two buffers and the second solid block takes up to
six, the control blocks up to three each. So the reader comes to wait with no buffer free and none returned
in all three situations: in the second solid block, where the packer is still packing, in a control block or one
of the recovery blocks, where the backdoor is empty, and in the last solid block, where the packer may have a second
descriptor to deliver. In the first two the packer gives buffers back and creation goes on; only the last is
`WaitForEachOther`. Of the five solid blocks the last is the one with data behind two others, which is
what the deadlock needs. The handle is taken back to the beginning over an archive of every length that
results.
The counters are bounded by `Plan` and `MaxChunks` (the length of a block's data by
`Longest`, which follows from them); there is no other bound. *4x4*: five blocks with
four jobs reuse a job and its event; two workers finish out of order. *GRZip*: two slots make four
jobs, so threads wait for slots, and five blocks reuse a job. *SREP*: five blocks
in a ring of four parts overwrite a part, and use each set of buffers twice and more. *Chain*: three
stages have a first, a middle and a last one; reads are shorter, equal and longer than
buffers; `MaxOut` bounds what a stage writes, and it may end or fail after any of them. *Server*: a file may begin and end anywhere in a buffer and the next lie before,
in and behind it, in the same block or another; three requests go back and forth; the block is cut off at any position, any number of times.
*Recovery*: fewer, as many and more recovery sectors than sectors, a number that divides them and one
that does not, an incomplete last sector. *Update*: the state space is finite and complete.

`CHECK_DEADLOCK FALSE` appears where the system stops by itself: an archive is finished,
a call has returned, a process has ended. Where a deadlock would be a bug it is excluded by a
liveness property, but for states that have a name.

### Fairness

Weak fairness of each thread, no more: GHC's scheduler and the operating system run
every thread that can go on. In `CyclicAllocator`, `ReturnBlock` is fair since
`storingProcess` returns each buffer it consumed and compressors consume what they get.
In `CreatePipeline`, the packer's fairness includes that compressors write
what they got by the end of a block. In `FourByFour` it includes that the inner method and
the callbacks return. In `DecompressChain` each stage is
fair, which includes that a method returns in the end: it writes at most `MaxOut` bytes and
reads on. In `GRZipThreads` and `SrepBackground` each
thread is, which includes that the codec, reads and writes return. In `DecompressServer` both threads are; the chain goes on
until it wrote a buffer or ended, but nothing says that it unpacks the whole block. None is assumed of failures, of files that vanish, of Ctrl-Break,
or of the choice to ask for another buffer. A reader that asks for buffers does so
finitely often per file because `MaxChunks` bounds files. `UpdateArchive` and `ArcRecover` have no
fairness and no liveness property.

## What the models found

Three runs end in a counterexample to what the repository says of itself:

1. **Archive creation can hang** (`backdoor`; ArcCreate.hs:164, ArcvProcessRead.hs:106).
   The backdoor holds one descriptor and the reader takes none until all solid blocks are
   sent. The packer waits with the second descriptor; if the rest of the input does not
   fit in the cache, the reader waits for a buffer that only the packer would return.
   (If the runtime notices, the program ends with an exception instead.)
   `CompletesOrStuck` shows on the `create` instance, where the cache runs out in other places, too, that
   there is no other way to get stuck.
2. **Ctrl-Break can remove the only archive** (`lost`; Errors.hs:118). The thread of
   Ctrl-Break reads the list of finalizers and works through it while the main thread
   leaves the scope of a finalizer and deletes the old archive. `NothingLost`, which holds,
   is the same statement without Ctrl-Break, and without a copy that differs (see below).
3. **`-rr0.1%` of an archive of 4 MB or more fails** (`sizes`; ArcRecover.hs:141). The size asked for
   is 0, the CRCs alone take a sector, and the number of recovery sectors is negative.

The other runs pass because their property names the state in which the code does not do what
one would hope for. Each of these names is an observation about the code:

* `Stranded` (`FourByFour`; C_4x4.cpp:387, 449): when memory is short, `pool_finish` puts null pointers
  into queues that were not initialised and have capacity 0, or waits for threads that were
  never created.
* `StarvedOfJobs` (`GRZipThreads`; MultiThreading.h:186, 189): the writer ends after an error
  without freeing its job, and nobody frees those queued behind it, while the calling
  thread waits in `FreeJobs.Get()`. Decompression does not even look at the error code.
* `WaitsForNoThread` (`GRZipThreads`; MultiThreading.h:203): `WaitJobsFinished` waits for the end of every
  thread, one that could not be created included.
* `StarvedOfBlocks` (`SrepBackground`; io.cpp:162, srep.cpp:632): when the disk is full the background
  thread ends without a signal, and if the main thread has already looked at `errcode`, it waits
  for the next block for ever. When matches do not fit their block (io.cpp:185) `errcode` is not even set.
* `LostSilently` (`SrepBackground`; io.cpp:147, 165 and 185): a read that fails or comes back early is taken for the end of the
  input, and the bytes read are only compared with `filesize` to see that they are not too many: the rest
  of the input is missing and compression returns success. So it does when `save_data` gives up at the
  last block, whose data are then missing from the output.
* `MainFailed` (`SrepBackground`; srep.cpp:599): after an error of its own the main thread closes the files and
  returns while the background thread still works.
* `mode # "future"` in `InOrder` (`SrepBackground`; srep.cpp:650): in Future-LZ the header of a block is
  copied after `write()`, when the background thread may already put the digest of the block after next
  into it. If it does, decompression finds a checksum error in an archive that is whole.
* `Stranded` (`DecompressChain`), `Abandoned` (`DecompressServer`): see there.
* `TriesAgain` (`DecompressServer`; ArcvProcessExtract.hs:55-61): a chain that returns without an error before the
  file is through leaves the state as it was, and `repeat_until` opens the block for the same file again. The bytes that the
  client already has are sent once more, and if the block ends early each time, this goes on for ever.
* `OnlyBadCopy` (`UpdateArchive`; ArcCreate.hs:207, 213-216): where the temporary file is copied, nothing compares the two. If
  the copy differs, the old archive is gone already and the good temporary file is removed next. Without `-t` and `-w` nobody
  notices, and with them the second test removes (or, with `-kb` or `-d`, keeps) the bad copy as the last thing
  that was left. The repository's README.md:287 promises of `-d` that files are deleted "after successful archiving".
* `Unlooked` (`UpdateArchive`; ArcCreate.hs:207, 210): an archive that another program put in the place of the old one while
  archiving went on is removed in its stead; the comment says that it would be good to check. One that appears
  between the second test and the rename is overwritten.
* With `-t -kb` a broken archive is announced as kept (message 0313, ArcCreate.hs:238), and the
  finalizer of the enclosing `handleCtrlBreak` removes it (ArcCreate.hs:197).

## What is proved

`CyclicAllocator_proof`, for every heap, buffer and alignment size that satisfy
`SizesAssumption`: the alignment is positive and the heap holds a
buffer, which Cmdline.hs:362 ensures. No relation between the heap and the alignment, or
the buffer and the alignment, is assumed.

* `Invariance`: `Spec => []IInv`.
* From it: `TypeCorrect`, `AddToAvailNeverRaised`, `NothingEverOverlaps` (of which the parts are
  `FillingNeverOverlaps` and `SentNeverOverlaps`), `NothingEverLeaks`.
* `AllocatorImplementsPool`: `Spec` implements `BufferPool` under the refinement mapping.
* `SomethingToWaitFor` and `WaitIsBounded`: what liveness needs apart from fairness. A `getBlock` without
  enough room always has a block in flight to wait for, and while it waits every step lowers `StepsLeft`, a natural
  number. That the steps are taken, and hence `GetBlockReturns`, is checked by TLC.

Why a strengthening is needed: that a returned block lies at the end of the free space
cannot be concluded from the blocks being disjoint. `IInv` says that blocks in flight
*tile* the used part in the order of sending: the oldest begins at `end`, each other one
where its predecessor ends once aligned, or at 0 if that was too near the end of the heap, and
`start` is where the youngest ends (`Tiling`). From this, `WaitReleasingMemory`
finds the block it expects, and the next oldest is where the new `end` is.
`InUsedPart` and `InOrder` make the tiles disjoint across a wrap, and
`FillingAtStart` relates the block being filled to the cursors. All cursors are *places*:
aligned with a whole buffer behind them, or the end of the heap.

The lemmas: arithmetic of `Align` and `NextAvail` (the least place not below its
argument), `NextAvailInBuffer` (a shrunk block ends within the area that was
granted), what an `IInv` state says of one block and of `WrappedStart`, then one lemma
per action, the longest being `WaitReleasingMemory` with its cases empty, wrapped and in
one piece. `StepRefinement` maps each step to a step of the pool or a stutter.

`SrepBackground_proof`, for any number of blocks, any size of the dictionary and any of the faults in `AllFaults`
(`ParametersAssumption`: the first two are natural numbers):

* `Invariance`: `Spec => []IInv`.
* From it: `TypeCorrect`, `DictionaryNeverOverwritten`, `NothingFreedEarly`.
* `SrepImplementsFilter`: `Spec` implements `OrderedFilter`, with the two exceptions `FilterSpec` names: success when data
  were lost silently, and the digests of Future-LZ.

Here the difficulty is that three binary events are all that keeps the threads apart: an event that is set
twice before it is waited for loses a signal. `IInv` counts the blocks on their way: read
(`ReadIn`), released to the main thread (`Released`), compressed, given back (`Delivered`) and taken over
(`Awaited`). `Signals` says that each event is set exactly when its sender is one block ahead of its
receiver, and that it is never further ahead. This holds as long as there is no error, which is when it
matters: after an error the background thread touches nothing more. From the counters follow which
blocks the two sets hold and which parts of the ring are whole (`Contents`), that
the dictionary is intact (`DictionaryFollows`), and what is saved (`BlockToSave`). The one fact about the ring
itself is `PartsDiffer`: blocks less than `dictsize` apart have different parts. The lemmas `...Kept` go through
all actions for one part of the invariant each.

`FourByFour_proof`, for any number of workers and blocks and any faults (`ParametersAssumption`: the
workers are a finite set that is not empty, the number of blocks is natural):

* `Invariance`, and from it `TypeCorrect` and `BuffersHaveOneUser`.
* `ImplementsFilter`: `Spec` implements `OrderedFilter`.

`OneUser` says what must not happen to a job; that it does not follows from where jobs are. `Owned` says
that a job is free, in the caller's hand, queued for the writer or in the writer's hand, and nowhere twice.
`Lent` adds that workers have only jobs that the writer awaits (`Awaited`), each at one place, until the
event is set: this is why `Recycle` may put the job away and reset the event without asking a worker.
`Stopping` says that the null pointer for the writer comes last, once. `Ordered`, which holds until the
first error, says that the writer's queue *is* the sequence of blocks: its `i`-th job carries block
`Len(written) + i`, or one more while the writer waits for another one. The order of the output follows from
the order of this queue alone, so the workers may finish as they like. After an error nothing is written that is
not the next block (`Sound`), so the step is still one of the filter.

`GRZipThreads_proof`, for any number of threads and blocks, any faults and both directions: the same
four theorems. `OneUser` says more here: buffers exist as long as they are used and are freed in the end.
`Owned`, `Lent` and `Ordered` have the same tasks, and three parts come from the code's own way to work.
`Slots`: free slots and threads that process add up to `CompressionThreads`, so `LimitThreads` never leaves its
range. `Lifecycle`: the jobs that have a thread are those below `i` while `CreateJobs` runs, and those that ended
are those below `i` in `WaitJobsFinished`; an end is never mistaken for a block, since `InSize` is positive for
whatever the writer awaits. `Memory`: which jobs have buffers; in compression those whose thread lives, in
decompression those on their way.

`DecompressChain_proof`, for a chain of any length, buffers and outputs of any size
(`ParametersAssumption`): `Invariance`, `TypeCorrect`, `BufferNeverOverwritten`, `NothingLostBetweenStages`.
The invariant is local: `Joint(s)` says what the two stages of one link know of each other, and
`Balance(s)` that every byte the left one wrote was read, is in the hand of the right one, or on the way in
one message. An acknowledgement is under way only when the producer waits and the consumer has an
empty hand, or when the consumer has ended; this makes the surplus acknowledgement at a stage's end harmless,
and with it the channel back never holds two.

`DecompressServer_proof`, for any blocks, files, buffers and number of requests: `Invariance`,
`TypeCorrect`, `ClientGetsItsFile`, `BufferLentToClient`. `Dialogue` lists which messages can be under way at
each place of the client, and where the server then is. `Position` relates the code's triple to the true position
in the block: `state.block_pos` is the beginning of the buffer in hand, or its end when it was used up; and
position plus size is the end of the file. `Account` counts what the client has got. All three together
give `DataTrue` for a file that is before, in or behind the buffer in hand. After a chain that ended early `Account` starts
again with the block.

`UpdateArchive_proof`, for all options and every interleaving of the three threads: `Invariance`,
`TypeCorrect`, `NoFileLost`, `SuccessLeavesNew`, `FirstPartHarmless`, and the action property
`ForeignLeftAlone`. The module has no parameter and TLC covers its whole state space; the proof says why.
`Registered` gives the list of finalizers at each place of the main thread, `Pending` what a thread may
still run although it was unregistered meanwhile, `Untouched` and `Moved` what is on disk. `Moved` is needed
only if nobody pressed Ctrl-Break: with it, finding 2 shows that it is false. `NoFileLost` and `ForeignLeftAlone` hold but
for the states that `OnlyBadCopy` and `Unlooked` name, in which the code really does what it should not.

The second part of `UpdateArchive_proof` is about `ArcRecover`, which has names of its own for its formulas (`RecordSpec`, ...)
so that one module can extend both: what becomes of the archive file after it was replaced. For any sizes of archives and
sectors and anything that can be asked for (`ParametersAssumption`: the sizes of archives and sectors are positive, the others
natural numbers), any damage and any second source: `RecordInvariance`, `RecordTypeCorrect`, `RepairIsExact`,
`BurstsRecovered`.
`RepairExact` is about the end, when the recovery sectors have been xor'ed with each sector twice, once before the damage and
once after it. The invariant says what they hold all the way. `Mixture`: recovery sector `j` holds the sectors `s` with
`Index(s) = j` that were put in and not yet taken out (from `From` to `To`), the damage of those that were taken
out damaged, and damage of its own (`Content`, `Wrong`). `PutIn` and `TakeOut` are the steps of the two loops. So after
a scan nothing is left but damage, and a sector that is alone with its damage can be had back if the recovery sector
has none (`Restored`). `Index` is the closed form of the code's running index (`Turns`), and `Indices` says that it is the class
as counted from the ends in `Restorable`, and that the code's test by remainders from the beginning of the archive
gives the same classes. `Found` and `Repaired` follow the scan and the repair sector by sector (`SectorRecovered`).
For `BurstRecovered`: sectors less than `rec_sectors` apart are in different classes, and the recovery sector of a
sector is at least `rec_sectors` behind it, where the record follows the archive, so that no burst hits both (`BurstSpreads`).
That there is a greatest power of two below a number, which makes `lb` well defined, needs induction; it comes from
`Least`, that every set of numbers has a least one, an instance of the library's `WFMin`.

`CreatePipeline_proof`, for every layout of solid blocks and control blocks, any number of buffers in the cache,
files of any number and of 0 to `MaxChunks` buffers (`ParametersAssumption`): `Invariance`, `TypeCorrect`,
`PackerUnderstands`, `DescriptorsAreTrue`, `NothingLeftBehind`.
None of these properties is inductive: what the packer will meet depends on instructions that were sent long before. The
core of `IInv` is `Conversation`. A *view* is what the instructions up to some point say: which one may come next, the
block, its data so far, and the number of buffers. `Executes` says how one instruction changes it, and
`Leads(q, from, to)` that those in `q` do so one after the other. `Conversation` is that the instructions in the
pipe lead from the packer's view to the reader's, and that the two numbers of buffers differ by those
that are travelling, that is neither free, nor returned, nor in somebody's hand. Sending appends at one end (`Put`) and
receiving takes from the other (`Understood`), so each side is proved against the views alone, and the order of steps
of the two does not matter. `Path` and `Leads` allow the log's instructions between two blocks (a `DebugLog` is followed by its block, `LeadsBoth`).
`Handled` says that the shared handle is at the end of the archive but while the reader has it. By then all
descriptors were taken, so the pipe is empty, the packer is in its main loop and has nothing to write (the lemmas
`Idle` and `AtEnd`): what is written is appended. From it follow:

* the packer's next instruction is one it has a case for;
* a `Directory` instruction describes the data the packer has taken since the block began. `Packing` says that
  these are what lies in the archive behind `begun.pos`, in the store and in its hand, and after
  the flush the last two are empty (`Delivered`, `DescriptorsAreTrue`);
* the position of a control block, which the reader asks for before it sends the block, is right: `Collecting`
  says that all descriptors before it were taken, so both are at the same block, the
  views' block numbers never decrease, the pipe is empty, and nothing is still to be written (`Marked`);
* in the end both have the same view, so no buffer and no descriptor is missing (`NothingLeftBehind`).

How the proofs are laid out: one lemma `...Kept` for each part of the invariant, with a step for each
action. What an operation does to a queue (`TakeJobQueue`, `GetJobQueue`, ...) is a
lemma of its own, stated in terms of elements, domains and order, since these are all that the invariants
mention; the proofs of actions then need no reasoning about sequences. `FilterStep` maps each step to a
step of `OrderedFilter` or a stutter. Each `IInv` was checked by TLC on a small instance before it was proved.

Only model-checked:

* Liveness (`GetBlockReturns`, `CompletesOrStuck`, `ReturnsOrStranded`, `ReturnsOrHangs`, `EndsOrStarves`,
  `ChainEnds`, `Joined`), which the prover does not handle under fairness.

All other properties of the passing runs - the invariants, the action property and the refinements - are proved, with the
exclusions that they state.

## Not modelled

* The `__MHS__` build, which packs or unpacks a whole block in one C call.
* Of decompression: passwords, and an exception in the server, which kills the client; methods that read and write in
  two threads at once.
* Of GRZip: the block codec. In the adaptive mode the rest of a block is copied out of the
  buffer of a job that was already given away (C_GRZip.cpp:469); contents of buffers are not in the model.
* Of SREP: decompression with the memory manager of Future-LZ, the threads of
  content-defined chunking, input that is mapped into memory.
* Of the recovery record: the bound of half the memory, the list of bad ranges, and the full
  test of `-pt2` and `-pt3`; a CRC that is right by chance.
* Volumes (`-v`), the file manager, which does not exit after an error, and warnings.
* That a second caller of `shutdown` exits the process while the first still runs its
  finalizers is in the model (`ShutdownCheck`), but that the temporary file may then stay
  behind is not stated as a property: nothing in the repository promises the contrary.
* `ArhiveStructure.hs`, `ArhiveDirectory.hs`: byte layouts.
* Other compressors, encryption, 7z, the user interface, parsing of
  commands and options, file access: data-heavy, vendored, or without state of interest.
  Most of the code of the repository is of this kind: vendored codecs (libbsc, Zstd, LZMA, LZ4, ...),
  whose algorithms work on bytes.
* `MVar`, `Chan`, mutexes, events of the operating system: taken as what they are
  documented to be.
* Not yet: file lists, `Process.hs` below the level of FIFO channels. See the plan.

## Plan

In this order; those above the line are done.

1. `BufferPool`, `CyclicAllocator`, its proof.
2. `CreatePipeline`.
3. `OrderedFilter`, `FourByFour`.
4. `UpdateArchive`.
5. `DecompressChain`, `DecompressServer`.
6. `GRZipThreads`, `SrepBackground` with its proof, `ArcRecover`.
7. Proofs of `DecompressServer`, `DecompressChain`, `UpdateArchive`, `FourByFour` and `GRZipThreads`.
8. Proofs of `CreatePipeline` and `ArcRecover`.

---

9. `FutureLZ`: the heap of matches of SREP's decompression and its virtual memory. When no match on the
   heap can be moved to disk, `save_to_disk` (decompress.cpp:233) writes empty blocks in a loop.
10. `Channel`: `OurChan` of Process.hs shown to implement a FIFO with a stream of holes; `PQueue`
   with its condition variables shown to implement a bounded FIFO, which `FourByFour`
   assumes.
11. `Finalizers`: the registry as an `IORef` read and written in two steps.
12. Splitting of file lists into solid blocks.
