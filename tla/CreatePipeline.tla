--------------------------- MODULE CreatePipeline ---------------------------
(***************************************************************************)
(* Creation of an archive: the process that lays the archive out and reads *)
(* the input (createArchiveAtructureAndReadFilesProcess, ArcvProcessRead)  *)
(* and the process that packs and writes (compressAndWriteToArchiveProcess,*)
(* ArcvProcessCompress), run as  read |>>> compress  (ArcCreate.hs:165).    *)
(*                                                                         *)
(* They share: `pipe', a FIFO of unbounded length with the instructions;   *)
(* `returned', the back channel with the buffers that were consumed;       *)
(* `backdoor', an MVar that holds one block descriptor; and one handle of  *)
(* the archive file: the packer writes where it stands, the reader asks    *)
(* for its position and, to make a recovery record, takes it back to the   *)
(* beginning and reads all that is written.                                *)
(*                                                                         *)
(* The read-ahead cache is counted in buffers (CyclicAllocator shows that  *)
(* counting is all a client has to know).  A chunk of data is identified   *)
(* by the block and the file it belongs to; packing passes chunks through  *)
(* a store of the packer's own and writes them out later, in order.        *)
(***************************************************************************)
EXTENDS Integers, Sequences

CONSTANTS
  Solid,         \* splitToSolidBlocks: per solid block, [how, files]
  CacheBuffers,  \* buffers in the read-ahead cache
  MaxChunks,     \* bound: buffers a file or a control block takes
  NoDir,         \* option --nodir: no control block is written
  Recovery       \* TRUE when a recovery record is requested (option -rr)

\* "dirs": directories, which have no data; "disk": files read from disk;
\* "archive": files of an input archive, unpacked and packed again; "copy": a
\* whole solid block copied as it is; "fake": only the directory entries are
\* recorded (--nodata).  Control blocks are a "stream" of data made in memory.
Hows == {"dirs", "disk", "archive", "copy", "fake"}

ASSUME ParametersAssumption ==
  /\ Solid \in Seq([how : Hows, files : Nat \ {0}])
  /\ CacheBuffers \in Nat \ {0} /\ MaxChunks \in Nat \ {0}
  /\ NoDir \in BOOLEAN /\ Recovery \in BOOLEAN

-----------------------------------------------------------------------------
(***************************************************************************)
(* The layout of the archive: its blocks in the order they are written.    *)
(***************************************************************************)
Control(type) ==
  IF NoDir THEN <<>>
  ELSE LET One(t) == [type |-> t, how |-> "stream", files |-> 1]
       IN <<One(type), One("DESCR")>>   \* a block and then its descriptor

SolidBlocks ==
  [i \in 1 .. Len(Solid) |->
     [type |-> "DATA", how |-> Solid[i].how, files |-> Solid[i].files]]

\* A recovery record is two blocks, r0 with the sectors and r1 with their checksums,
\* behind an archive that is complete; a footer that knows of them follows.
Archived == Control("HEADER") \o SolidBlocks \o Control("DIR") \o Control("FOOTER")
Recovered ==
  IF Recovery THEN Control("RECOVERY") \o Control("RECOVERY") \o Control("FOOTER") ELSE <<>>
Plan == Archived \o Recovered

LastBlock == Len(Plan)
SolidBefore == Len(Control("HEADER"))
LastSolid == SolidBefore + Len(Solid)

\* writeRecoveryBlocks reads the archive before it writes r0: block b, or the end when
\* there are no control blocks.
Scans(b) == Recovery /\ b = Len(Archived) + 1

\* Blocks whose position the reader asks for before it writes them.
Located(b) == Plan[b].type \in {"DIR", "FOOTER", "RECOVERY"}

\* Bound: the buffers a file of the block takes.  Headers, descriptors and footers
\* are a few dozen bytes and never fill one.
Longest(b) == IF Plan[b].type \in {"DATA", "DIR", "RECOVERY"} THEN MaxChunks ELSE 1

-----------------------------------------------------------------------------
VARIABLES
  \* the reading process
  rpc,        \* where it is
  blk,        \* index in Plan of the block it writes
  file,       \* files of the block it has finished
  chunks,     \* buffers of the current file already sent
  dir,        \* directory of the block: [file, chunks] of each file read
  marks,      \* marks[b]: the archive position read for a located block, else -1
  due,        \* descriptors it waits for before it goes on
  infos,      \* descriptors received through the backdoor
  free,       \* free buffers in the cache
  rrPos,      \* where the recovery record is to begin, -1 until it is known
  left,       \* sectors of the archive it still has to read
  \* between the processes
  pipe, returned, backdoor,
  pos,        \* the position of the archive's handle
  \* the packing process
  cpc,        \* where it is
  begun,      \* the block being packed: its index and where it begins
  inHand,     \* the chunk storingProcess waits to have consumed
  store,      \* chunks inside the packers
  archive     \* what has been written, chunk by chunk

reader == <<rpc, blk, file, chunks, dir, marks, due, infos, free>>
packer == <<cpc, begun, inHand, store, archive>>
handle == <<pos, rrPos, left>>
vars == <<reader, pipe, returned, backdoor, packer, handle>>

Instruction(op) == [op |-> op]
Chunk == [blk |-> blk, file |-> file + 1]

Init == /\ rpc = "open" /\ blk = 1 /\ file = 0 /\ chunks = 0 /\ dir = <<>>
        /\ marks = [b \in 1 .. LastBlock |-> -1] /\ due = 0 /\ infos = <<>>
        /\ free = CacheBuffers
        /\ pipe = <<>> /\ returned = 0 /\ backdoor = <<>>
        /\ cpc = "loop" /\ begun = [blk |-> 0, pos |-> 0]
        /\ inHand = <<>> /\ store = <<>> /\ archive = <<>>
        /\ pos = 0 /\ rrPos = -1 /\ left = 0

-----------------------------------------------------------------------------
(***************************************************************************)
(* The reading process.                                                    *)
(***************************************************************************)
Send(msg) == pipe' = Append(pipe, msg)
SendBoth(first, second) == pipe' = pipe \o <<first, second>>

\* The mutants of this module (Mut...) are definitions with a bug the code does
\* not have; no other definition uses them.

\* createDirBlock collects once all solid blocks are sent; writeControlBlock
\* after each block.
MustCollect == IF blk < LastSolid /\ blk > SolidBefore THEN 0
               ELSE IF blk = LastSolid /\ Len(Solid) > 0 THEN Len(Solid) ELSE 1

\* writeRecoveryBlocks: the position is the size of what is to be protected, the handle
\* goes to the beginning, sector after sector is read, and the handle goes back.
StartScan == /\ rpc = "open" /\ Scans(blk) /\ rrPos = -1
             /\ rrPos' = pos
             /\ rpc' = "seek"
             /\ UNCHANGED <<blk, file, chunks, dir, marks, due, infos, free, pipe,
                            returned, backdoor, packer, pos, left>>

SeekStart == /\ rpc = "seek"
             /\ pos' = 0 /\ left' = rrPos
             /\ rpc' = "scan"
             /\ UNCHANGED <<blk, file, chunks, dir, marks, due, infos, free, pipe,
                            returned, backdoor, packer, rrPos>>

\* A sector is a chunk; at the end of the file nothing is read.
ScanSector == /\ rpc = "scan" /\ left > 0
              /\ left' = left - 1
              /\ pos' = IF pos < Len(archive) THEN pos + 1 ELSE pos
              /\ UNCHANGED <<reader, pipe, returned, backdoor, packer, rrPos>>

SeekBack == /\ rpc = "scan" /\ left = 0
            /\ pos' = rrPos
            /\ rpc' = "open"
            /\ UNCHANGED <<blk, file, chunks, dir, marks, due, infos, free, pipe,
                           returned, backdoor, packer, rrPos, left>>

\* The archive was read, if it has to be.
Scanned == Scans(blk) => rrPos # -1

\* writeBlock begins: CompressData goes out.  archiveGetPos comes before it for
\* the blocks that record where they are, and messages for the log (printDebugInfo)
\* for solid blocks: always when they are packed, on demand when they are copied.
OpenBlock ==
  /\ rpc = "open" /\ blk <= LastBlock /\ Scanned
  /\ marks' = [marks EXCEPT ![blk] = IF ~Located(blk) THEN -1
                                     ELSE IF Scans(blk) THEN rrPos ELSE pos]
  /\ LET block == [op |-> "CompressData", blk |-> blk, copy |-> Plan[blk].how = "copy"]
     IN \/ Plan[blk].type = "DATA" /\ SendBoth(Instruction("DebugLog"), block)
        \/ (Plan[blk].type = "DATA" => Plan[blk].how = "copy") /\ Send(block)
  /\ rpc' = CASE Plan[blk].how = "copy" -> "copy"
              [] Plan[blk].how = "fake" -> "fake"
              [] OTHER                  -> "file"
  /\ UNCHANGED <<blk, file, chunks, dir, due, infos, free, returned, backdoor, packer,
                 handle>>

WholeDir == [f \in 1 .. Plan[blk].files |-> [file |-> f, chunks |-> 1]]
\* Fake files are listed, and none of their data is in the archive.
FakeDir  == [f \in 1 .. Plan[blk].files |-> [file |-> f, chunks |-> 0]]

\* createSolidBlock for a block that is copied whole or not read at all.
SendWhole == /\ rpc \in {"copy", "fake"}
             /\ Send(Instruction(IF rpc = "copy" THEN "CopySolidBlock" ELSE "FakeFiles"))
             /\ dir' = IF rpc = "copy" THEN WholeDir ELSE FakeDir
             /\ rpc' = "close"
             /\ UNCHANGED <<blk, file, chunks, marks, due, infos, free, returned,
                            backdoor, packer, handle>>

\* readFile begins: the file is opened.  The totals are corrected before when its size is
\* no longer the one that was listed.
StartFile == /\ rpc = "file" /\ file < Plan[blk].files
             /\ Plan[blk].how \notin {"dirs", "stream"}
             /\ \/ Send(Instruction("FileStart"))
                \/ /\ Plan[blk].how = "disk"
                   /\ SendBoth(Instruction("CorrectTotals"), Instruction("FileStart"))
             /\ chunks' = 0
             /\ rpc' = "read"
             /\ UNCHANGED <<blk, file, dir, marks, due, infos, free, returned, backdoor,
                            packer, handle>>

\* The action of writeControlBlock begins: it writes into buffers as they come.
OpenStream == /\ rpc = "file" /\ file < Plan[blk].files
              /\ Plan[blk].how = "stream"
              /\ chunks' = 0
              /\ rpc' = "read"
              /\ UNCHANGED <<blk, file, dir, marks, due, infos, free, pipe, returned,
                             backdoor, packer, handle>>

\* readFile for a directory: it is listed, nothing is read.
ReadDirectory == /\ rpc = "file" /\ file < Plan[blk].files
                 /\ Plan[blk].how = "dirs"
                 /\ Send(Instruction("FileStart"))
                 /\ file' = file + 1
                 /\ dir' = Append(dir, [file |-> file + 1, chunks |-> 0])
                 /\ UNCHANGED <<rpc, blk, chunks, marks, due, infos, free, returned,
                                backdoor, packer, handle>>

\* A file that cannot be opened is left in the directory.
MutSkipListed == /\ rpc = "file" /\ file < Plan[blk].files
                 /\ Plan[blk].type = "DATA" /\ Plan[blk].how = "disk"
                 /\ Send(Instruction("CorrectTotals"))
                 /\ file' = file + 1
                 /\ dir' = Append(dir, [file |-> file + 1, chunks |-> 1])
                 /\ UNCHANGED <<rpc, blk, chunks, marks, due, infos, free, returned,
                                backdoor, packer, handle>>

\* readFile cannot open the file, or cannot read its attributes again: the file
\* is left out of the block, and of the totals.  Control blocks and input archives have no
\* such path.
SkipFile == /\ rpc = "file" /\ file < Plan[blk].files
            /\ Plan[blk].type = "DATA" /\ Plan[blk].how = "disk"
            /\ Send(Instruction("CorrectTotals"))
            /\ file' = file + 1
            /\ UNCHANGED <<rpc, blk, chunks, dir, marks, due, infos, free, returned,
                           backdoor, packer, handle>>

\* receiveBuf: a free buffer of the cache, or wait for one that comes back.
TakeBuffer == /\ rpc = "read"
              /\ chunks < Longest(blk) \/ Plan[blk].how = "disk"
              /\ free > 0
              /\ free' = free - 1
              /\ rpc' = "fill"
              /\ UNCHANGED <<blk, file, chunks, dir, marks, due, infos, pipe, returned,
                             backdoor, packer, handle>>

ReclaimBuffer == /\ rpc = "read"
                 /\ free = 0 /\ returned > 0
                 /\ free' = 1 /\ returned' = returned - 1
                 /\ UNCHANGED <<rpc, blk, file, chunks, dir, marks, due, infos, pipe,
                                backdoor, packer, handle>>

\* sendBuf with data.
SendBuf == /\ rpc = "fill" /\ chunks < Longest(blk)
           /\ Send([op |-> "DataChunk", chunk |-> Chunk])
           /\ chunks' = chunks + 1
           /\ rpc' = "read"
           /\ UNCHANGED <<blk, file, dir, marks, due, infos, free, returned, backdoor,
                          packer, handle>>

FinishFile == /\ file' = file + 1
              /\ dir' = Append(dir, [file |-> file + 1, chunks |-> chunks])
              /\ rpc' = "file"
              /\ UNCHANGED <<blk, chunks, marks, due, infos, returned, backdoor, packer,
                             handle>>

\* The buffer nothing was read into is not put back.
MutEndOfDiskFile == /\ rpc = "fill" /\ Plan[blk].how = "disk"
                    /\ UNCHANGED <<free, pipe>>
                    /\ FinishFile

\* The end of a disk file is seen when nothing is read into a further buffer,
\* which sendBuf then keeps.  The totals are corrected when it was not as long as it said.
EndOfDiskFile == /\ rpc = "fill" /\ Plan[blk].how = "disk"
                 /\ free' = free + 1
                 /\ UNCHANGED pipe \/ Send(Instruction("CorrectTotals"))
                 /\ FinishFile

\* decompress_file returned: the data of a file of an input archive are over.
\* The same holds for the stream a control block is written through: closeOut
\* (ByteStream.hs) sends what is in its last buffer.  Only the
\* former can have no data at all.
EndOfArchivedFile == /\ rpc = "read" /\ Plan[blk].how \in {"archive", "stream"}
                     /\ chunks > 0 \/ Plan[blk].how = "archive"
                     /\ UNCHANGED <<free, pipe>>
                     /\ FinishFile

\* The rest of writeBlock: DataEnd, then the directory of the block.  A control
\* block has an empty one.
CloseBlock ==
  /\ \/ rpc = "close"
     \/ rpc = "file" /\ file = Plan[blk].files
  /\ SendBoth(Instruction("DataEnd"),
              [op |-> "Directory", dir |-> IF Plan[blk].type = "DATA" THEN dir ELSE <<>>])
  /\ rpc' = IF MustCollect = 0 THEN "open" ELSE "collect"
  /\ blk' = IF MustCollect = 0 THEN blk + 1 ELSE blk
  /\ due' = MustCollect
  /\ file' = 0 /\ dir' = <<>>
  /\ UNCHANGED <<chunks, marks, infos, free, returned, backdoor, packer, handle>>

\* getP backdoor.  The next block starts when all that is due has come.
Collect == /\ rpc = "collect"
           /\ backdoor # <<>>
           /\ backdoor' = <<>>
           /\ infos' = infos \o backdoor
           /\ due' = due - 1
           /\ IF due = 1 THEN rpc' = "open" /\ blk' = blk + 1
                         ELSE UNCHANGED <<rpc, blk>>
           /\ UNCHANGED <<file, chunks, dir, marks, free, pipe, returned, packer,
                          handle>>

SendTheEnd == /\ rpc = "open" /\ blk = LastBlock + 1 /\ Scanned
              /\ Send(Instruction("TheEnd"))
              /\ rpc' = "end"
              /\ UNCHANGED <<blk, file, chunks, dir, marks, due, infos, free, returned,
                             backdoor, packer, handle>>

Reader == \/ StartScan \/ SeekStart \/ ScanSector \/ SeekBack
          \/ OpenBlock \/ SendWhole \/ ReadDirectory \/ StartFile \/ OpenStream \/ SkipFile
          \/ TakeBuffer \/ ReclaimBuffer \/ SendBuf
          \/ EndOfDiskFile \/ EndOfArchivedFile
          \/ CloseBlock \/ Collect \/ SendTheEnd

-----------------------------------------------------------------------------
(***************************************************************************)
(* The packing process.                                                    *)
(***************************************************************************)
Receive == pipe # <<>> /\ pipe' = Tail(pipe)
Instr == Head(pipe).op

\* archiveWriteBuf: data go where the handle is, over what is there, and move it on.
WriteAt(data) ==
  /\ archive' = SubSeq(archive, 1, pos) \o data
                  \o SubSeq(archive, pos + Len(data) + 1, Len(archive))
  /\ pos' = pos + Len(data)
  /\ UNCHANGED <<rrPos, left>>

\* repeat_while (receiveP pipe) notTheEnd: a block begins, the archive ends, or there is
\* something to log.
\* Any other instruction here is one the code has no case for.
MainLoop ==
  /\ cpc = "loop" /\ Receive
  /\ begun' = IF Instr = "CompressData"
              THEN [blk |-> Head(pipe).blk, pos |-> pos] ELSE begun
  /\ cpc' = CASE Instr = "CompressData" -> IF Head(pipe).copy THEN "copying" ELSE "packing"
              [] Instr = "TheEnd"       -> "done"
              [] Instr = "DebugLog"     -> "loop"
              [] OTHER                  -> "no_case"
  /\ UNCHANGED <<reader, returned, backdoor, inHand, store, archive, handle>>

\* archiveCopyData: the data of the files of the block.
Whole(b) == [f \in 1 .. Plan[b].files |-> [blk |-> b, file |-> f]]

\* copy_block leaves DataEnd in the pipe.
MutCopyBlock ==
  /\ cpc = "copying" /\ Receive
  /\ WriteAt(Whole(begun.blk))
  /\ cpc' = "directory"
  /\ UNCHANGED <<reader, returned, backdoor, begun, inHand, store>>

\* copy_block: CopySolidBlock and DataEnd, and nothing else, are expected.
CopyBlock ==
  /\ cpc = "copying" /\ Receive
  /\ IF Instr = "CopySolidBlock"
     THEN WriteAt(Whole(begun.blk)) /\ cpc' = "copied"
     ELSE cpc' = "no_case" /\ UNCHANGED <<archive, handle>>
  /\ UNCHANGED <<reader, returned, backdoor, begun, inHand, store>>

CopyEnd == /\ cpc = "copied" /\ Receive
           /\ cpc' = IF Instr = "DataEnd" THEN "directory" ELSE "no_case"
           /\ UNCHANGED <<reader, returned, backdoor, begun, inHand, store, archive,
                          handle>>

\* storingProcess receives: data go to the first packer, DataEnd ends the
\* block, everything else concerns the user interface only.
ReceiveInstruction ==
  /\ cpc = "packing" /\ inHand = <<>> /\ Receive
  /\ inHand' = IF Instr = "DataChunk" THEN <<Head(pipe).chunk>> ELSE <<>>
  /\ cpc' = IF Instr = "DataEnd" THEN "flushing" ELSE "packing"
  /\ UNCHANGED <<reader, returned, backdoor, begun, store, archive, handle>>

\* The buffer is returned although it is already being returned.
MutReturnTwice == /\ inHand # <<>>
                  /\ store' = store \o inHand
                  /\ inHand' = <<>>
                  /\ returned' = returned + 2
                  /\ UNCHANGED <<reader, pipe, backdoor, cpc, begun, archive, handle>>

\* The first packer has consumed the chunk: its buffer goes back to the reader.
ReturnBuffer == /\ inHand # <<>>
                /\ store' = store \o inHand
                /\ inHand' = <<>>
                /\ returned' = returned + 1
                /\ UNCHANGED <<reader, pipe, backdoor, cpc, begun, archive, handle>>

\* The last packer writes (write_to_archive).
WriteToArchive == /\ store # <<>>
                  /\ WriteAt(<<Head(store)>>)
                  /\ store' = Tail(store)
                  /\ UNCHANGED <<reader, pipe, returned, backdoor, cpc, begun, inHand>>

\* All stages of the chain have finished: compress_block returns.
FinishBlock == /\ cpc = "flushing" /\ store = <<>>
               /\ cpc' = "directory"
               /\ UNCHANGED <<reader, pipe, returned, backdoor, begun, inHand, store,
                              archive, handle>>

\* (Directory dir0) <- receiveP pipe, then putP backdoor: the descriptor.  The
\* two are one step unless the backdoor is occupied, when the packer waits.
PutBackdoor ==
  /\ cpc = "directory" /\ Receive
  /\ backdoor = <<>>
  /\ IF Instr = "Directory"
     THEN /\ backdoor' = <<[blk |-> begun.blk, pos |-> begun.pos,
                            size |-> Len(archive) - begun.pos,
                            dir |-> Head(pipe).dir]>>
          /\ cpc' = "loop"
     ELSE cpc' = "no_case" /\ UNCHANGED backdoor
  /\ UNCHANGED <<reader, returned, begun, inHand, store, archive, handle>>

Packer == \/ MainLoop \/ CopyBlock \/ CopyEnd \/ ReceiveInstruction
          \/ ReturnBuffer \/ WriteToArchive \/ FinishBlock \/ PutBackdoor

Next == Reader \/ Packer

Spec == Init /\ [][Next]_vars

\* Both threads are scheduled whenever they can run, and the packers, which
\* get all the data of a block, write all of it.
FairSpec == Spec /\ WF_vars(Reader) /\ WF_vars(Packer)

-----------------------------------------------------------------------------
Messages ==
  [op : {"FileStart", "CorrectTotals", "CopySolidBlock", "FakeFiles", "DataEnd", "TheEnd",
         "DebugLog"}]
    \union [op : {"CompressData"}, blk : 1 .. LastBlock, copy : BOOLEAN]
    \union [op : {"DataChunk"}, chunk : [blk : 1 .. LastBlock, file : Nat]]
    \union [op : {"Directory"}, dir : Seq([file : Nat, chunks : 0 .. MaxChunks])]

TypeOK ==
  /\ rpc \in {"open", "seek", "scan", "copy", "fake", "file", "read", "fill", "close",
              "collect", "end"}
  /\ blk \in 1 .. LastBlock + 1 /\ file \in Nat /\ chunks \in 0 .. MaxChunks
  /\ dir \in Seq([file : Nat, chunks : 0 .. MaxChunks])
  /\ marks \in [1 .. LastBlock -> Int] /\ due \in 0 .. LastBlock
  /\ free \in 0 .. CacheBuffers /\ returned \in 0 .. CacheBuffers
  /\ pipe \in Seq(Messages) /\ Len(backdoor) <= 1
  /\ cpc \in {"loop", "packing", "flushing", "copying", "copied", "directory",
              "done", "no_case"}
  /\ Len(inHand) <= 1
  /\ pos \in Nat /\ rrPos \in Nat \union {-1} /\ left \in Nat

\* The packer never gets an instruction it has no case for, whatever the reader
\* skips or copies (the patterns in ArcvProcessCompress.hs:58-62, 231).
ProtocolKept == cpc # "no_case"

\* The entries of a directory cut the data of block b into files, in their order.
Lists(d, b, data) ==
  \E cut \in [0 .. Len(d) -> 0 .. Len(data)] :
    /\ cut[0] = 0 /\ cut[Len(d)] = Len(data)
    /\ \A i \in 1 .. Len(d) :
         /\ cut[i] = cut[i - 1] + d[i].chunks
         /\ \A k \in cut[i - 1] + 1 .. cut[i] : data[k] = [blk |-> b, file |-> d[i].file]

\* The n-th descriptor the reader gets is that of the n-th block, and the
\* directory in it lists exactly the data that lie between its position and its
\* end (writeBlock and createDirBlock, ArcvProcessRead.hs:102-112, 262-266).  The
\* position the reader had asked for is where the block then begins: nothing was
\* still to be written (comment at ArcvProcessRead.hs:106-109).
DescriptorsTrue ==
  \A n \in 1 .. Len(infos) :
    /\ infos[n].blk = n
    /\ infos[n].pos + infos[n].size <= Len(archive)
    /\ Located(n) => marks[n] = infos[n].pos
    /\ LET data == SubSeq(archive, infos[n].pos + 1, infos[n].pos + infos[n].size)
       IN IF Plan[n].type = "DATA" THEN Lists(infos[n].dir, n, data)
          ELSE infos[n].dir = <<>> /\ \A i \in DOMAIN data : data[i].blk = n

\* When both processes are through, every descriptor was taken and every
\* instruction executed, the descriptors cover the archive, and every buffer of
\* the cache is free or on its way back (sendBuf, storingProcess).
NothingLeft ==
  rpc = "end" /\ cpc = "done" =>
    /\ pipe = <<>> /\ backdoor = <<>> /\ store = <<>> /\ inHand = <<>>
    /\ Len(infos) = LastBlock
    /\ \A n \in 1 .. LastBlock :
         infos[n].pos = IF n = 1 THEN 0 ELSE infos[n - 1].pos + infos[n - 1].size
    /\ free + returned = CacheBuffers

\* The only way the two processes can wait for each other: the packer has a
\* second descriptor to deliver while the reader, which has yet to send a third
\* solid block, waits for a buffer.
WaitForEachOther ==
  /\ cpc = "directory" /\ backdoor # <<>>
  /\ rpc = "read" /\ free = 0 /\ returned = 0
  /\ blk > SolidBefore + 2 /\ blk <= LastSolid

\* Archive creation completes, or ends in the one known deadlock (comment at
\* ArcvProcessRead.hs:106-107: waiting at the backdoor "forces completion of
\* packing of all previously sent data").
CompletesOrStuck == <>((rpc = "end" /\ cpc = "done") \/ []WaitForEachOther)

\* Archive creation completes: what that comment says.
Completes == <>(rpc = "end" /\ cpc = "done")
=============================================================================
