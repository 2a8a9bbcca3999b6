-------------------------- MODULE CyclicAllocator --------------------------
(***************************************************************************)
(* The cyclic memory allocator of the read-ahead cache (allocator,         *)
(* Utils.hs), with the client that drives it (sendBuf, makeFileCache in    *)
(* ArcvProcessRead.hs) and the packing process that returns the buffers.   *)
(*                                                                         *)
(* Addresses are offsets in the heap.  The free space runs from `start' to *)
(* `end', cyclically; the two cursors being equal means there is none.     *)
(* A buffer is obtained with BufferSize bytes, then shrunk to the bytes    *)
(* that were read into it and sent on.  Buffers travel through a FIFO and  *)
(* come back through a FIFO, so they come back in the order they were sent:*)
(* `sent' holds the buffers not yet reclaimed, oldest first, and the first *)
(* `acked' of them have been returned by the packing process and wait in   *)
(* the back channel.                                                       *)
(***************************************************************************)
EXTENDS Integers, Sequences

CONSTANTS HeapSize,    \* heapsize: the value of option -cache
          BufferSize,  \* aBUFFER_SIZE: 64 or 256 kb, size of an unshrunk block
          Alignment    \* aALIGN: every block starts at a multiple of it

\* Cmdline.hs:362 gives the cache at least one buffer.
ASSUME SizesAssumption ==
  /\ HeapSize \in Nat /\ BufferSize \in Nat \ {0} /\ Alignment \in Nat \ {0}
  /\ BufferSize <= HeapSize

VARIABLES start,   \* first free address
          end,     \* end of the free space
          phase,   \* where the owner of the cache is, see Phases
          block,   \* the block obtained last
          sent,    \* blocks sent on and not yet reclaimed, oldest first
          acked    \* how many of them were returned by the packing process

vars == <<start, end, phase, block, sent, acked>>

\* "idle": no block is held; "asking": inside getBlock; "filling": a block
\* was obtained and not yet shrunk, so `start' is an error thunk in the code
\* and its value here is never read; "failed": "addToAvail!" was raised.
Phases == {"idle", "asking", "filling", "failed"}

Blocks == [addr : 0 .. HeapSize, size : 1 .. BufferSize]

-----------------------------------------------------------------------------
Align(n) == (((n - 1) \div Alignment) + 1) * Alignment

\* The mutants of this module (Mut...) are definitions with a bug the code does
\* not have; no other definition uses them.
MutNextAvail(n) == Align(n)      \* a block may reach past the end of the heap

\* First aligned address >= n with a whole buffer before the end of the heap;
\* the end of the heap if there is none.
NextAvail(n) == IF HeapSize - Align(n) < BufferSize THEN HeapSize ELSE Align(n)

\* `available' moves an exhausted `start' to the beginning of the heap before
\* it measures the free space.
WrappedStart == IF start > end /\ start >= HeapSize THEN 0 ELSE start

Available == IF WrappedStart <= end THEN end - WrappedStart
                                    ELSE HeapSize - WrappedStart
-----------------------------------------------------------------------------
Init == /\ start = 0 /\ end = HeapSize
        /\ phase = "idle" /\ block = 0
        /\ sent = <<>> /\ acked = 0

\* receiveBuf is called.
Request == /\ phase = "idle"
           /\ phase' = "asking"
           /\ UNCHANGED <<start, end, block, sent, acked>>

\* getBlock finds enough room and poisons `start'.
GetBlock == /\ phase = "asking"
            /\ Available >= BufferSize
            /\ block' = WrappedStart
            /\ start' = WrappedStart
            /\ phase' = "filling"
            /\ UNCHANGED <<end, sent, acked>>

\* Without the reset of an empty heap.
MutNoReset ==
  /\ phase = "asking"
  /\ Available < BufferSize
  /\ acked > 0
  /\ sent' = Tail(sent) /\ acked' = acked - 1
  /\ start' = WrappedStart /\ end' = NextAvail(Head(sent).addr + Head(sent).size)
  /\ UNCHANGED <<phase, block>>

\* The returned block is looked at and not taken out of the channel.
MutPeek ==
  /\ phase = "asking"
  /\ Available < BufferSize
  /\ acked > 0
  /\ start' = WrappedStart
  /\ end' = NextAvail(Head(sent).addr + Head(sent).size)
  /\ UNCHANGED <<phase, block, sent, acked>>

\* waitReleasingMemory with the oldest returned block.
WaitReleasingMemory ==
  /\ phase = "asking"
  /\ Available < BufferSize
  /\ acked > 0
  /\ LET old    == Head(sent)
         newEnd == NextAvail(old.addr + old.size)
         known  == \/ old.addr = end
                   \/ old.addr = 0 /\ HeapSize - end < BufferSize
     IN /\ sent' = Tail(sent) /\ acked' = acked - 1
        /\ IF ~known THEN /\ phase' = "failed"
                          /\ start' = WrappedStart /\ UNCHANGED end
           ELSE /\ UNCHANGED phase
                /\ IF newEnd = WrappedStart
                     THEN start' = 0 /\ end' = HeapSize
                     ELSE start' = WrappedStart /\ end' = newEnd
        /\ UNCHANGED block

\* shrinkBlock keeps the bytes that were read and not the alignment.
MutSendUnaligned(len) ==
  /\ phase = "filling"
  /\ start' = IF HeapSize - (block + len) < BufferSize THEN HeapSize ELSE block + len
  /\ phase' = "idle"
  /\ sent' = IF len = 0 THEN sent
             ELSE Append(sent, [addr |-> block, size |-> len])
  /\ UNCHANGED <<end, block, acked>>

\* sendBuf: shrinkBlock, then send the block unless nothing was read into it.
SendBuf(len) ==
  /\ phase = "filling"
  /\ start' = NextAvail(block + len)
  /\ phase' = "idle"
  /\ sent' = IF len = 0 THEN sent
             ELSE Append(sent, [addr |-> block, size |-> len])
  /\ UNCHANGED <<end, block, acked>>

\* A buffer is returned once more than it was sent.
MutReturnTwice == /\ acked <= Len(sent)
                  /\ acked' = acked + 1
                  /\ UNCHANGED <<start, end, phase, block, sent>>

\* The packing process returns the oldest block it holds (send_backP in
\* storingProcess): it has consumed it.
ReturnBlock == /\ acked < Len(sent)
               /\ acked' = acked + 1
               /\ UNCHANGED <<start, end, phase, block, sent>>

Next == \/ Request \/ GetBlock \/ WaitReleasingMemory \/ ReturnBlock
        \/ \E len \in 0 .. BufferSize : SendBuf(len)

Spec == Init /\ [][Next]_vars

\* The steps inside getBlock run to completion in the reading thread, and the
\* packing process returns every buffer it consumed.
FairSpec == Spec /\ WF_vars(GetBlock) /\ WF_vars(WaitReleasingMemory)
                 /\ WF_vars(ReturnBlock)
-----------------------------------------------------------------------------
TypeOK == /\ start \in 0 .. HeapSize /\ end \in 0 .. HeapSize
          /\ phase \in Phases /\ block \in 0 .. HeapSize
          /\ sent \in Seq(Blocks) /\ acked \in 0 .. Len(sent)

\* waitReleasingMemory never raises "addToAvail!" (Utils.hs:996): the block
\* that comes back is always the one at the end of the free space.
NeverAddToAvail == phase # "failed"

\* The area being filled has BufferSize bytes inside the heap, and shares no
\* byte with a block the packing process may still be reading (Utils.hs:1005).
FillingIsPrivate ==
  phase = "filling" =>
    /\ block + BufferSize <= HeapSize
    /\ \A i \in 1 .. Len(sent) :
          \/ sent[i].addr + sent[i].size <= block
          \/ block + BufferSize <= sent[i].addr

\* No two blocks in the hands of the packing process or in the back channel
\* share a byte: what it reads is what was written for it (Utils.hs:1016-1021).
SentDisjoint ==
  \A i, j \in 1 .. Len(sent) :
    i < j => \/ sent[i].addr + sent[i].size <= sent[j].addr
             \/ sent[j].addr + sent[j].size <= sent[i].addr

\* No byte has two uses, whatever is asked for, filled and lent: what the packing
\* process reads is what the reading process wrote for it.
NoOverlap == FillingIsPrivate /\ SentDisjoint

\* The cursors being equal is never taken for a full heap when it is an empty
\* one, or the reverse: when every block has been reclaimed the whole heap is
\* available again (the reset in Utils.hs:998-999).
NothingLeaks == (phase # "filling" /\ sent = <<>>) => Available = HeapSize

\* The allocator implements a pool of disjoint areas.
Pool == INSTANCE BufferPool WITH
          wanted  <- phase = "asking",
          filling <- IF phase = "filling" THEN {block} ELSE {},
          lent    <- sent

PoolSpec == Pool!Spec

\* getBlock returns: an owner that asks for a buffer eventually gets one,
\* however small the heap (Utils.hs:1005-1013).
GetBlockReturns == (phase = "asking") ~> (phase = "filling")
-----------------------------------------------------------------------------
(***************************************************************************)
(* The inductive invariant behind the safety properties above.             *)
(***************************************************************************)
\* Values a cursor can have: aligned with a whole buffer behind it, or the end.
Places == {n \in 0 .. HeapSize :
             n = HeapSize \/ (n % Alignment = 0 /\ n + BufferSize <= HeapSize)}

\* Where the allocator goes on after block i.
After(i) == NextAvail(sent[i].addr + sent[i].size)

\* Every block lies in the used part of the heap: between `end' and `start' if
\* the used part is in one piece, else above `end' or below `start'.
InUsedPart ==
  \A i \in 1 .. Len(sent) :
    IF start <= end THEN sent[i].addr >= end \/ After(i) <= start
                    ELSE sent[i].addr >= end /\ After(i) <= start

\* Older blocks precede younger ones, or they are on the two sides of a wrap.
InOrder ==
  \A i, j \in 1 .. Len(sent) :
    i < j => \/ After(i) <= sent[j].addr
             \/ sent[i].addr >= end /\ After(j) <= start /\ start <= end

\* The blocks tile the used part: the oldest is at its beginning, each other
\* one where its predecessor ends, and `start' where the youngest ends.
Tiling ==
  LET Follows(addr, place) == addr = place \/ (addr = 0 /\ place = HeapSize)
  IN IF sent = <<>> THEN start = 0 /\ end = HeapSize
     ELSE /\ Follows(sent[1].addr, end)
          /\ \A i \in 1 .. Len(sent) - 1 : Follows(sent[i + 1].addr, After(i))
          /\ Follows(start, After(Len(sent)))

\* While a block is filled, it is the one at `start' and it is whole.
FillingAtStart ==
  phase = "filling" =>
    /\ block = start
    /\ IF start <= end THEN start + BufferSize <= end
                       ELSE start + BufferSize <= HeapSize

IInv == /\ TypeOK
        /\ phase # "failed"
        /\ start \in Places /\ end \in Places \ {0}
        /\ \A i \in 1 .. Len(sent) : sent[i].addr \in Places \ {HeapSize}
        /\ FillingAtStart
        /\ InUsedPart
        /\ InOrder
        /\ Tiling
=============================================================================
