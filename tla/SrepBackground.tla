--------------------------- MODULE SrepBackground ---------------------------
(***************************************************************************)
(* The two threads of srep's compression: BG_COMPRESSION_THREAD (io.cpp)   *)
(* reads and saves blocks, the main thread (srep.cpp) compresses them.     *)
(*                                                                         *)
(* There are two sets of buffers; block n is in set n % 2.  The data of    *)
(* the blocks are in a ring, where matches are searched for, too: it has   *)
(* room for the dictionary and for two blocks more.  The background thread *)
(* reads block n while the main thread compresses block n - 1; then it     *)
(* saves n - 1, while the main thread compresses n.  Three auto-reset      *)
(* events are all that keeps the threads apart.                            *)
(*                                                                         *)
(* A block is its number; the one after the last is the empty one at the   *)
(* end of the input.  The input is not mapped into memory.                 *)
(***************************************************************************)
EXTENDS Integers, Sequences

CONSTANTS NumBlocks,    \* blocks in the input
          DictBlocks,   \* blocks of the dictionary (inmem_dictsize, rounded up)
          Faults        \* what may fail: some of AllFaults

\* "size": there is more input than announced; "read": the input cannot be read, which
\* no one is told; "save": the background thread cannot write the output; "matches":
\* the matches of a block do not fit it; "main": the main thread cannot write a file.
AllFaults == {"size", "read", "save", "matches", "main"}

ASSUME ParametersAssumption ==
  /\ NumBlocks \in Nat /\ DictBlocks \in Nat /\ Faults \subseteq AllFaults

BUFFERS == 2
Sets    == 0 .. BUFFERS - 1
Torn    == 0                   \* no block, or half of one

VARIABLES
  mode,        \* "plain", "index" or "future" (IO_LZ, INDEX_LZ, FUTURE_LZ)
  dict,        \* block in each part of the ring
  block,       \* block that bufptr and len of each set stand for
  prepared,    \* block whose digest is in the header and whose hashes are in the
               \* hash table of each set
  stat,        \* block whose matches and sizes are in statbuf and header
  ReadDone, WriteReady, BgThreadFinished,
  errcode,     \* whether the background thread recorded an error
  bpc, n,      \* background thread: where it is, the block it reads
  end,         \* last block that is in the input, as far as it can be read
  bad,         \* whether the matches of a block did not fit it
  out,         \* what was written to the output, block by block
  mpc, k,      \* main thread: where it is, the set in hand
  len,         \* the block in hand, as read() returned it
  store,       \* the list of COMPRESSED_BLOCKs
  result       \* "none", and then "ok" or "error"

sets   == <<dict, block, prepared>>
events == <<ReadDone, WriteReady, BgThreadFinished>>
lost   == <<end, bad>>
bg     == <<errcode, bpc, n, lost>>
main   == <<mpc, k, len, store, result>>
vars   == <<mode, sets, stat, events, bg, out, main>>

\* The additional space is for one block only (a mutant, see below).
MutDictsize == DictBlocks + 1

dictsize == DictBlocks + BUFFERS
Ring     == 0 .. dictsize - 1
Part(b)  == (b - 1) % dictsize     \* buf_offset of block b

Init ==
  /\ mode \in {"plain", "index", "future"}
  /\ dict = [part \in Ring |-> Torn]
  /\ block = [s \in Sets |-> Torn] /\ prepared = [s \in Sets |-> Torn]
  /\ stat = [s \in Sets |-> Torn]
  /\ ReadDone = FALSE /\ WriteReady = FALSE /\ BgThreadFinished = FALSE
  /\ errcode = FALSE /\ bpc = "read" /\ n = 1 /\ end = NumBlocks /\ bad = FALSE
  /\ out = <<>> /\ store = <<>>
  /\ mpc = "head" /\ k = 0 /\ len = Torn /\ result = "none"

-----------------------------------------------------------------------------
(***************************************************************************)
(* The background thread (run, save_data).                                 *)
(***************************************************************************)
\* The mutants of this module (Mut...) are definitions with a bug the code does
\* not have; no other definition uses them.

\* The block is being read over whatever was in its part of the ring.
BeginRead == /\ bpc = "read"
             /\ dict' = IF n <= end THEN [dict EXCEPT ![Part(n)] = Torn] ELSE dict
             /\ bpc' = "prepare"
             /\ UNCHANGED <<block, prepared, stat, events, errcode, n, lost, out, main>>

\* The background processing of the input: the block is hashed.
EndRead == /\ bpc = "prepare"
           /\ dict' = IF n <= end THEN [dict EXCEPT ![Part(n)] = n] ELSE dict
           /\ block' = [block EXCEPT ![n % BUFFERS] = n]
           /\ prepared' = [prepared EXCEPT ![n % BUFFERS] = n]
           /\ bpc' = IF n = 1 THEN "release" ELSE "await"
           /\ UNCHANGED <<stat, events, errcode, n, lost, out, main>>

\* file_read fails, or comes back with less than there is (a block that is shorter, and
\* then one that fails): this is the end of the input, as len[i] = 0 says.
ReadFails == /\ bpc = "prepare" /\ "read" \in Faults /\ n <= end
             /\ end' = n - 1
             /\ UNCHANGED <<sets, stat, events, errcode, bpc, n, bad, out, main>>

\* More data than filesize: the main thread is woken to see the error.
ReadTooMuch == /\ bpc = "prepare" /\ "size" \in Faults /\ n <= end
               /\ block' = [block EXCEPT ![n % BUFFERS] = n]
               /\ errcode' = TRUE /\ ReadDone' = TRUE
               /\ bpc' = "finish"
               /\ UNCHANGED <<dict, prepared, stat, WriteReady, BgThreadFinished, n,
                              lost, out, main>>

\* The output of the previous block is not waited for.
MutAwaitOutput == /\ bpc = "await"
                  /\ bpc' = "release"
                  /\ UNCHANGED <<sets, stat, events, errcode, n, lost, out, main>>

\* Waits for the output of the previous block.
AwaitOutput == /\ bpc = "await" /\ WriteReady
               /\ WriteReady' = FALSE
               /\ bpc' = "release"
               /\ UNCHANGED <<sets, stat, ReadDone, BgThreadFinished, errcode, n, lost,
                              out, main>>

\* The end of the loop for block n.
GoOn == IF n > end THEN bpc' = "finish" /\ UNCHANGED n
                         ELSE bpc' = "read" /\ n' = n + 1

\* The block is given to the main thread; there may be a previous one to save.
Release == /\ bpc = "release"
           /\ ReadDone' = TRUE
           /\ IF n > 1 /\ mode # "future" THEN bpc' = "save" /\ UNCHANGED n ELSE GoOn
           /\ UNCHANGED <<sets, stat, WriteReady, BgThreadFinished, errcode, lost, out,
                          main>>

\* What is written of a block: the digest and the matches, and the data, from which
\* the matches are cut out.
Written(s, data) == [digest |-> prepared[s], matches |-> stat[s], data |-> data]

\* The set that was just read is saved.
MutSave == /\ bpc = "save"
           /\ out' = Append(out, Written(n % BUFFERS, dict[Part(n)]))
           /\ GoOn
           /\ UNCHANGED <<sets, stat, events, errcode, lost, main>>

Save == /\ bpc = "save"
        /\ LET s == (n - 1 + BUFFERS) % BUFFERS
           IN  out' = Append(out, Written(s, dict[Part(block[s])]))
        /\ GoOn
        /\ UNCHANGED <<sets, stat, events, errcode, lost, main>>

SaveFails == /\ bpc = "save" /\ "save" \in Faults
             /\ errcode' = TRUE
             /\ bpc' = "finish"
             /\ UNCHANGED <<sets, stat, events, n, lost, out, main>>

\* "Bad compressed data": the thread ends as after an error, but records none.
BadMatches == /\ bpc = "save" /\ "matches" \in Faults
              /\ bad' = TRUE
              /\ bpc' = "finish"
              /\ UNCHANGED <<sets, stat, events, errcode, n, end, out, main>>

Finish == /\ bpc = "finish"
          /\ BgThreadFinished' = TRUE
          /\ bpc' = "ended"
          /\ UNCHANGED <<sets, stat, ReadDone, WriteReady, errcode, n, lost, out, main>>

\* The program ends when the main thread returns.
Background == /\ mpc # "returned"
              /\ \/ BeginRead \/ EndRead \/ ReadFails \/ ReadTooMuch \/ AwaitOutput
                 \/ Release \/ Save \/ SaveFails \/ BadMatches \/ Finish
              /\ UNCHANGED mode

-----------------------------------------------------------------------------
(***************************************************************************)
(* The main thread (the compression of srep_main; read, write, wait).      *)
(***************************************************************************)
Go(place) == mpc' = place /\ UNCHANGED result

\* Goes to the label cleanup.
GiveUp == mpc' = "cleanup" /\ result' = "error"

\* The header of the file, with the background thread already at work.
WriteHead == /\ mpc = "head"
             /\ \/ Go("read")
                \/ "main" \in Faults /\ GiveUp
             /\ UNCHANGED <<sets, stat, events, bg, out, k, len, store>>

Read == /\ mpc = "read" /\ ReadDone
        /\ ReadDone' = FALSE
        /\ k' = (k + 1) % BUFFERS
        /\ len' = block[k']
        /\ Go("check")
        /\ UNCHANGED <<sets, stat, WriteReady, BgThreadFinished, bg, out, store>>

\* The empty block at the end is compressed, too.
MutCheckRead == /\ mpc = "check"
                /\ IF errcode THEN GiveUp ELSE Go("compress")
                /\ UNCHANGED <<sets, stat, events, bg, out, k, len, store>>

\* The copy of the block in the temporary file, when there is one, may fail.
CheckRead == /\ mpc = "check"
             /\ \/ errcode /\ GiveUp
                \/ ~errcode /\ len > end /\ Go("wait")
                \/ ~errcode /\ len <= end /\ Go("compress")
                \/ ~errcode /\ len <= end /\ "main" \in Faults /\ GiveUp
             /\ UNCHANGED <<sets, stat, events, bg, out, k, len, store>>

\* The block was compressed into the set in hand, and its header filled.
Compress == /\ mpc = "compress"
            /\ stat' = [stat EXCEPT ![k] = len]
            /\ Go("write")
            /\ UNCHANGED <<sets, events, bg, out, k, len, store>>

Write == /\ mpc = "write"
         /\ WriteReady' = TRUE
         /\ Go("written")
         /\ UNCHANGED <<sets, stat, ReadDone, BgThreadFinished, bg, out, k, len, store>>

CheckWritten == /\ mpc = "written"
                /\ \/ errcode /\ GiveUp
                   \/ ~errcode /\ Go(IF mode = "plain" THEN "read" ELSE "store")
                /\ UNCHANGED <<sets, stat, events, bg, out, k, len, store>>

\* header[] and statbuf[] are copied to a COMPRESSED_BLOCK.
Store == /\ mpc = "store"
         /\ store' = Append(store, Written(k, len))
         /\ Go("read")
         /\ UNCHANGED <<sets, stat, events, bg, out, k, len>>

\* Nobody waits for the background thread.
MutWait == /\ mpc = "wait" /\ Go("final")
           /\ UNCHANGED <<sets, stat, events, bg, out, k, len, store>>

Wait == /\ mpc = "wait" /\ BgThreadFinished
        /\ BgThreadFinished' = FALSE
        /\ Go("final")
        /\ UNCHANGED <<sets, stat, ReadDone, WriteReady, bg, out, k, len, store>>

\* With matches in memory a second pass follows.
LastCheck == /\ mpc = "final"
             /\ CASE errcode                     -> GiveUp
                  [] ~errcode /\ mode = "plain"  -> mpc' = "cleanup" /\ result' = "ok"
                  [] ~errcode /\ mode # "plain"  -> Go("second")
             /\ UNCHANGED <<sets, stat, events, bg, out, k, len, store>>

\* The second pass: the matches are written at their source, for "future" after the
\* header and before the data, which are read once more.
SecondPass == /\ mpc = "second"
              /\ \/ /\ mode = "future" /\ Len(out) < Len(store)
                    /\ out' = Append(out, store[Len(out) + 1])
                    /\ Go("second")
                 \/ /\ mode = "future" => Len(out) = Len(store)
                    /\ mpc' = "cleanup" /\ result' = "ok" /\ UNCHANGED out
                 \/ "main" \in Faults /\ GiveUp /\ UNCHANGED out
              /\ UNCHANGED <<sets, stat, events, bg, k, len, store>>

\* Files are closed, and removed after an error.
CleanUp == /\ mpc = "cleanup"
           /\ mpc' = "returned"
           /\ UNCHANGED <<sets, stat, events, bg, out, k, len, store, result>>

Main == /\ \/ WriteHead \/ Read \/ CheckRead \/ Compress \/ Write \/ CheckWritten
           \/ Store \/ Wait \/ LastCheck \/ SecondPass \/ CleanUp
        /\ UNCHANGED mode

Next == Background \/ Main

Spec == Init /\ [][Next]_vars

\* Both threads run on, and their reads and writes return.
FairSpec == Spec /\ WF_vars(Background) /\ WF_vars(Main)

-----------------------------------------------------------------------------
Blocks == 0 .. NumBlocks + 1
Record == [digest : Blocks, matches : Blocks, data : Blocks]

TypeOK ==
  /\ mode \in {"plain", "index", "future"}
  /\ dict \in [Ring -> 0 .. NumBlocks]
  /\ block \in [Sets -> Blocks] /\ prepared \in [Sets -> Blocks]
  /\ stat \in [Sets -> 0 .. NumBlocks]
  /\ {ReadDone, WriteReady, BgThreadFinished, errcode} \subseteq BOOLEAN
  /\ bpc \in {"read", "prepare", "await", "release", "save", "finish", "ended"}
  /\ n \in 1 .. NumBlocks + 1 /\ end \in 0 .. NumBlocks /\ bad \in BOOLEAN
  /\ out \in Seq(Record) /\ store \in Seq(Record)
  /\ mpc \in {"head", "read", "check", "compress", "write", "written", "store", "wait",
              "final", "second", "cleanup", "returned"}
  /\ k \in Sets /\ len \in Blocks /\ result \in {"none", "ok", "error"}

\* While a block is compressed it has its own hashes, and it and the whole dictionary
\* before it are in the ring, although the next block is being read into it
\* (DataStart, compress_inmem.cpp:92: "not yet overwritten by the b/g read cycle").
DictionaryIntact ==
  mpc = "compress" =>
    /\ prepared[k] = len
    /\ \A b \in 1 .. len : b >= len - DictBlocks => dict[Part(b)] = b

\* The user sees a filter: blocks come out with their own matches and data in the
\* order of the input, and success is returned when all are out and, where they are
\* needed, all matches are in the list - unless data were lost without an error
\* (LostSilently): a call that returned success then counts as one without an answer.
\* The digest in the header of a block is its own (io.cpp:152), but for "future" mode:
\* there the main thread copies the header (srep.cpp:650) after the background thread
\* was told to go on, which may meanwhile have put the digest of the next block but one
\* into it (io.cpp:153).
InOrder == /\ \A b \in DOMAIN out :
                /\ out[b].data = b /\ out[b].matches = b
                /\ mode # "future" => out[b].digest = b
           /\ \A b \in DOMAIN store : store[b].matches = b
           /\ result = "ok" /\ mode = "index" => Len(store) = end

\* Success is returned, although the input could not be read to its end (io.cpp:147:
\* what file_read returns is not looked at, and the number of bytes read is never
\* compared with filesize), or its last block could not be saved (io.cpp:185).
LostSilently == result = "ok" /\ (end < NumBlocks \/ bad)

Filter == INSTANCE OrderedFilter WITH
            emitted <- IF InOrder THEN Len(out) ELSE -1,
            answer  <- IF mpc = "returned" /\ ~LostSilently THEN result ELSE "none"

FilterSpec == Filter!Spec

\* Files are closed and buffers freed when the background thread has no more use for
\* them, unless it was the main thread that failed.
MainFailed == mpc = "cleanup" /\ result = "error" /\ ~errcode

CleanedUpAlone == mpc = "cleanup" => bpc \in {"finish", "ended"} \/ MainFailed

\* The background thread ended with an error after the main thread looked for one, or
\* for matches that do not fit, and the block the main thread waits for will not come.
StarvedOfBlocks == mpc = "read" /\ ~ReadDone /\ bpc = "ended" /\ (errcode \/ bad)

\* But for this case compression ends, whatever fails and when.
EndsOrStarves == <>(mpc = "returned" \/ StarvedOfBlocks)
=============================================================================
