-------------------------- MODULE DecompressServer --------------------------
(***************************************************************************)
(* The thread that unpacks files of archives on request (decompressProcess,*)
(* decompressBlock, decompressStep in ArcvProcessExtract.hs) and its client*)
(* (decompressFile; extraction, or archiving of files that are packed      *)
(* again).  They are joined by three MVars (runAsyncP, Process.hs).        *)
(*                                                                         *)
(* A file is a part of a block.  A block can only be unpacked from its     *)
(* beginning, unless it was stored without compression.  When a file is    *)
(* through, the server waits inside the callback of the decompressor for   *)
(* the next request, and goes on in the same block if that lies ahead.     *)
(*                                                                         *)
(* The chain of decompressors is `at', the position of the unpacked stream,*)
(* and a buffer of any length; DecompressChain models what is inside.  It  *)
(* may end early without an error: a damaged block may unpack to less than *)
(* the directory says, and storing (copy_data) ends where its input does.  *)
(* Then the block is opened again for the same file.                       *)
(***************************************************************************)
EXTENDS Integers, Sequences

CONSTANTS Blocks,       \* solid blocks of the archives
          Stored,       \* those without compression (aNO_COMPRESSION)
          NoBlock,
          BlockSize,    \* unpacked bytes of a block
          MaxBuf,       \* bound: bytes in a buffer
          MaxFiles      \* bound: files the client asks for

ASSUME ParametersAssumption ==
  /\ Stored \subseteq Blocks /\ NoBlock \notin Blocks
  /\ BlockSize \in Nat /\ MaxBuf \in Nat \ {0} /\ MaxFiles \in Nat

\* A file with data (decompressFile asks for no other) lies within its block.
Files == {f \in [blk : Blocks, pos : 0 .. BlockSize, size : 1 .. BlockSize] :
            f.pos + f.size <= BlockSize}

VARIABLES
  \* the client
  cpc,        \* where it is
  file,       \* the file it asked for last
  taken,      \* bytes of it that came since the server began with it
  asked,      \* files asked for
  \* the MVars: at most one message in each
  income,     \* a file, or Stop
  outcome,    \* [blk, from, len], with len negative for a code
  back,       \* the acknowledgement of a buffer
  \* the server
  spc,        \* where it is
  cfile,      \* the file it unpacks
  state,      \* block_pos, pos and size as decompressStep sees them
  open,       \* the block that is being unpacked
  at, buf,    \* where the buffer in hand begins in it, and its length
  short,      \* for the properties: the chain ended too early for this request
  terminated  \* operationTerminated

client == <<cpc, file, taken, asked>>
server == <<spc, cfile, state, open, at, buf, short>>
vars == <<client, income, outcome, back, server, terminated>>

None == [blk |-> NoBlock, pos |-> 0, size |-> 0]     \* no file yet
Stop == [blk |-> NoBlock, pos |-> 0, size |-> -1]    \* Nothing
Code == [blk |-> NoBlock, from |-> 0, len |-> -1]

\* Values of block_pos with a meaning of their own.  pos and size are then error
\* thunks in the code.
Reopen == [block_pos |-> -1, pos |-> 0, size |-> 0]
StopDecompressThread == [block_pos |-> -99, pos |-> 0, size |-> 0]

Init == /\ cpc = "idle" /\ file = None /\ taken = 0 /\ asked = 0
        /\ income = <<>> /\ outcome = <<>> /\ back = <<>>
        /\ spc = "new" /\ cfile = None /\ state = Reopen /\ open = NoBlock
        /\ at = 0 /\ buf = 0 /\ short = FALSE
        /\ terminated = FALSE

-----------------------------------------------------------------------------
(***************************************************************************)
(* The client.                                                             *)
(***************************************************************************)
\* decompressFile: the request goes out.
Ask == /\ cpc = "idle" /\ asked < MaxFiles
       /\ income = <<>>
       /\ \E f \in Files : file' = f /\ income' = <<f>>
       /\ taken' = 0 /\ asked' = asked + 1
       /\ cpc' = "receiving"
       /\ UNCHANGED <<outcome, back, server, terminated>>

\* repeat_while: data go to the writer, a negative length ends the file, and the
\* exception of failOnTerminated the client.
TakeData == /\ cpc = "receiving" /\ outcome # <<>>
            /\ outcome' = <<>>
            /\ LET msg == Head(outcome)
               IN IF msg.len >= 0
                  THEN cpc' = "writing" /\ taken' = taken + msg.len
                  ELSE /\ cpc' = IF terminated THEN "close" ELSE "idle"
                       /\ UNCHANGED taken
            /\ UNCHANGED <<file, asked, income, back, server, terminated>>

\* The writer has used the buffer and gives it back.
GiveBack == /\ cpc = "writing" /\ back = <<>>
            /\ back' = <<"used">>
            /\ cpc' = "receiving"
            /\ UNCHANGED <<file, taken, asked, income, outcome, server, terminated>>

\* The writer raises an exception: the disk is full; or, for a file that is packed
\* again, it waits for a buffer of the cache (receiveBuf) when the operation is
\* terminated.
FailInWriter == /\ cpc = "writing"
                /\ cpc' = "close"
                /\ UNCHANGED <<file, taken, asked, income, outcome, back, server,
                               terminated>>

\* There are no more files, or an error between two of them.
Leave == /\ cpc = "idle"
         /\ cpc' = "close"
         /\ UNCHANGED <<file, taken, asked, income, outcome, back, server, terminated>>

\* The end of `bracket': sendP Nothing, then joinP.
SendStop == /\ cpc = "close" /\ income = <<>>
            /\ income' = <<Stop>>
            /\ cpc' = "join"
            /\ UNCHANGED <<file, taken, asked, outcome, back, server, terminated>>

Join == /\ cpc = "join" /\ spc = "exited"
        /\ cpc' = "joined"
        /\ UNCHANGED <<file, taken, asked, income, outcome, back, server, terminated>>

Client == Ask \/ TakeData \/ GiveBack \/ FailInWriter \/ Leave \/ SendStop \/ Join

-----------------------------------------------------------------------------
(***************************************************************************)
(* The server.                                                             *)
(***************************************************************************)
\* The mutants of this module (Mut...) are definitions with a bug the code does
\* not have; no other definition uses them.

\* The first request.
FirstRequest ==
  /\ spc = "new" /\ income # <<>>
  /\ income' = <<>>
  /\ IF Head(income) = Stop THEN spc' = "exited" /\ UNCHANGED cfile
                            ELSE spc' = "open" /\ cfile' = Head(income)
  /\ UNCHANGED <<client, outcome, back, state, open, at, buf, short, terminated>>

\* decompressBlock: the state is set, the archive positioned, the chain started.  If
\* that is for the same file once more, it is sent from its beginning again.
OpenBlock ==
  /\ spc = "open"
  /\ LET startPos == IF cfile.blk \in Stored THEN cfile.pos ELSE 0
     IN /\ state' = [block_pos |-> startPos, pos |-> cfile.pos, size |-> cfile.size]
        /\ at' = startPos
  /\ open' = cfile.blk /\ buf' = 0
  /\ spc' = "codec"
  /\ taken' = IF short THEN 0 ELSE taken
  /\ UNCHANGED <<cpc, file, asked, income, outcome, back, cfile, short, terminated>>

\* The chain writes its next buffer: decompressStep begins.
WriteBuffer ==
  /\ spc = "codec"
  /\ \E n \in 1 .. MaxBuf : at + buf + n <= BlockSize /\ buf' = n
  /\ at' = at + buf
  /\ spc' = "step"
  /\ UNCHANGED <<client, income, outcome, back, cfile, state, open, short, terminated>>

Min2(a, b) == IF a < b THEN a ELSE b
SkipBytes == Min2(state.pos - state.block_pos, buf)
DataSize  == Min2(state.size, buf - SkipBytes)

\* What data_start points at: memory outside of the buffer holds anything else.
DataStart == IF SkipBytes \in 0 .. buf THEN at + SkipBytes ELSE -1

\* The acknowledgement is not waited for.
MutSend ==
  /\ spc = "step" /\ DataSize > 0
  /\ outcome = <<>>
  /\ outcome' = <<[blk |-> open, from |-> DataStart, len |-> DataSize]>>
  /\ spc' = "update"
  /\ UNCHANGED <<client, income, back, cfile, state, open, at, buf, short, terminated>>

\* Part of the buffer belongs to the file: it is sent...
SendData ==
  /\ spc = "step" /\ DataSize > 0
  /\ outcome = <<>>
  /\ outcome' = <<[blk |-> open, from |-> DataStart, len |-> DataSize]>>
  /\ spc' = "await_ack"
  /\ UNCHANGED <<client, income, back, cfile, state, open, at, buf, short, terminated>>

\* ... and the server waits until it was used.
ReceiveAck ==
  /\ spc = "await_ack" /\ back # <<>>
  /\ back' = <<>>
  /\ spc' = "update"
  /\ UNCHANGED <<client, income, outcome, cfile, state, open, at, buf, short,
                 terminated>>

\* None of the buffer belongs to the file.
SkipBuffer ==
  /\ spc = "step" /\ DataSize = 0
  /\ spc' = "update"
  /\ UNCHANGED <<client, income, outcome, back, cfile, state, open, at, buf, short,
                 terminated>>

\* The state moves to the end of the buffer; the callback returns unless the file
\* is through.
UpdateState ==
  /\ spc = "update"
  /\ state' = [block_pos |-> state.block_pos + buf,
               pos       |-> state.pos + DataSize,
               size      |-> state.size - DataSize]
  /\ spc' = IF DataSize < state.size THEN "codec" ELSE "file_end"
  /\ UNCHANGED <<client, income, outcome, back, cfile, open, at, buf, short,
                 terminated>>

SendEnd == /\ spc = "file_end" /\ outcome = <<>>
           /\ outcome' = <<Code>>
           /\ spc' = "await_request"
           /\ UNCHANGED <<client, income, back, cfile, state, open, at, buf, short,
                          terminated>>

\* The beginning of the buffer in hand, which decompressStep remembers while the
\* state already says where it ends.
BlockPos == state.block_pos - buf

\* The next file goes on in the open block even if it was passed.
MutNextRequest ==
  /\ spc = "await_request" /\ income # <<>>
  /\ income' = <<>>
  /\ LET next == Head(income)
     IN IF next = Stop
        THEN state' = StopDecompressThread /\ spc' = "refusing" /\ UNCHANGED cfile
        ELSE /\ cfile' = next
             /\ IF next.blk # cfile.blk
                   \/ (next.pos > state.block_pos /\ next.blk \in Stored)
                THEN state' = Reopen /\ spc' = "refusing"
                ELSE /\ state' = [block_pos |-> BlockPos, pos |-> next.pos,
                                  size |-> next.size]
                     /\ spc' = "step"
  /\ short' = FALSE
  /\ UNCHANGED <<client, outcome, back, open, at, buf, terminated>>

\* The next file is looked for behind the buffer in hand.
MutGoOn ==
  /\ spc = "await_request" /\ income # <<>>
  /\ income' = <<>>
  /\ LET next == Head(income)
     IN IF next = Stop
        THEN state' = StopDecompressThread /\ spc' = "refusing" /\ UNCHANGED cfile
        ELSE /\ cfile' = next
             /\ IF next.blk # cfile.blk \/ next.pos < BlockPos
                   \/ (next.pos > state.block_pos /\ next.blk \in Stored)
                THEN state' = Reopen /\ spc' = "refusing"
                ELSE /\ state' = [block_pos |-> state.block_pos, pos |-> next.pos,
                                  size |-> next.size]
                     /\ spc' = "codec"
  /\ short' = FALSE
  /\ UNCHANGED <<client, outcome, back, open, at, buf, terminated>>

\* The next request decides: stop; open a block, if the file is in another one or
\* was passed, or can be reached by seeking; or go on with the buffer in hand.
NextRequest ==
  /\ spc = "await_request" /\ income # <<>>
  /\ income' = <<>>
  /\ LET next == Head(income)
     IN IF next = Stop
        THEN state' = StopDecompressThread /\ spc' = "refusing" /\ UNCHANGED cfile
        ELSE /\ cfile' = next
             /\ IF next.blk # cfile.blk \/ next.pos < BlockPos
                   \/ (next.pos > state.block_pos /\ next.blk \in Stored)
                THEN state' = Reopen /\ spc' = "refusing"
                ELSE /\ state' = [block_pos |-> BlockPos, pos |-> next.pos,
                                  size |-> next.size]
                     /\ spc' = "step"
  /\ short' = FALSE
  /\ UNCHANGED <<client, outcome, back, open, at, buf, terminated>>

\* The chain was told that no more data are required, and may write once more all
\* the same, to be told again.  Then it ends, as it does when a callback sees that
\* the operation was terminated, or when its input is at its end.
ChainEnds ==
  /\ spc \in {"refusing", "codec"}
  /\ short' = (short \/ spc = "codec")
  /\ spc' = "block_end"
  /\ UNCHANGED <<client, income, outcome, back, cfile, state, open, at, buf,
                 terminated>>

\* Without a message about the termination.
MutLoopTest ==
  /\ spc = "block_end"
  /\ spc' = IF terminated \/ state = StopDecompressThread THEN "exited" ELSE "open"
  /\ UNCHANGED <<client, income, outcome, back, cfile, state, open, at, buf, short,
                 terminated>>

\* repeat_until in decompressProcess.
LoopTest ==
  /\ spc = "block_end"
  /\ spc' = IF terminated THEN "terminating"
            ELSE IF state = StopDecompressThread THEN "exited" ELSE "open"
  /\ UNCHANGED <<client, income, outcome, back, cfile, state, open, at, buf, short,
                 terminated>>

SendTerminated ==
  /\ spc = "terminating" /\ outcome = <<>>
  /\ outcome' = <<Code>>
  /\ spc' = "exited"
  /\ UNCHANGED <<client, income, back, cfile, state, open, at, buf, short, terminated>>

Server == \/ FirstRequest \/ OpenBlock \/ WriteBuffer
          \/ SendData \/ ReceiveAck \/ SkipBuffer \/ UpdateState
          \/ SendEnd \/ NextRequest \/ ChainEnds \/ LoopTest \/ SendTerminated

\* Ctrl-Break or an error in another thread, of the chain for instance.
Terminate == /\ ~terminated /\ terminated' = TRUE
             /\ UNCHANGED <<client, income, outcome, back, server>>

Next == Client \/ Server \/ Terminate

Spec == Init /\ [][Next]_vars

\* Both threads go on whenever they can, and the chain writes or ends: a client runs
\* out of files or of luck in the end.
FairSpec == Spec /\ WF_vars(Client) /\ WF_vars(Server)
-----------------------------------------------------------------------------
TypeOK ==
  /\ cpc \in {"idle", "receiving", "writing", "close", "join", "joined"}
  /\ file \in Files \union {None} /\ taken \in 0 .. BlockSize /\ asked \in 0 .. MaxFiles
  /\ income \in {<<>>, <<Stop>>} \union {<<f>> : f \in Files}
  /\ outcome \in {<<>>, <<Code>>}
       \union {<<m>> : m \in [blk : Blocks, from : 0 .. BlockSize, len : 1 .. MaxBuf]}
  /\ back \in {<<>>, <<"used">>}
  /\ spc \in {"new", "open", "codec", "step", "await_ack", "update", "file_end",
              "await_request", "refusing", "block_end", "terminating", "exited"}
  /\ cfile \in Files \union {None} /\ open \in Blocks \union {NoBlock}
  /\ state \in {Reopen, StopDecompressThread}
       \union [block_pos : 0 .. BlockSize, pos : 0 .. BlockSize, size : 0 .. BlockSize]
  /\ at \in 0 .. BlockSize /\ buf \in 0 .. MaxBuf /\ terminated \in BOOLEAN
  /\ short \in BOOLEAN

\* What comes are the next bytes of the file that was asked for, whatever was
\* asked before and however the block falls into buffers (decompressStep).  A file
\* ends when all of it has come, unless the operation is terminated.  Only if the
\* chain ended early does it begin once more, and its bytes come again.
DataTrue ==
  /\ outcome # <<>> /\ Head(outcome).len > 0 /\ cpc = "receiving" =>
       /\ Head(outcome).blk = file.blk
       /\ Head(outcome).from = file.pos + taken
       /\ taken + Head(outcome).len <= file.size
  /\ outcome = <<Code>> /\ cpc = "receiving" /\ ~terminated => taken = file.size

\* While the client uses a buffer the server waits: nothing it does can make the
\* chain overwrite the data (receive_backP, ArcvProcessExtract.hs:311).  When the
\* client asks, nothing that was said about another file is still under way
\* (decompressFile).
BufferLent ==
  /\ cpc = "writing" => spc = "await_ack" /\ back = <<>>
  /\ cpc = "idle" => outcome = <<>> /\ back = <<>> /\ income = <<>>

\* The client failed while the server waits for an acknowledgement, which takes
\* no request.
Abandoned == cpc = "join" /\ income = <<Stop>> /\ spc = "await_ack" /\ back = <<>>

\* The server opens a block once more for the same file.
TriesAgain == spc = "open" /\ short

\* Every request is answered and `bracket' ends, with two exceptions ("ensure it
\* terminates correctly", ArcvProcessRead.hs:62): that one, and a block that ends
\* before the file is through each time it is opened (ArcvProcessExtract.hs:55),
\* which nothing bounds.
Joined == <>(cpc = "joined" \/ Abandoned) \/ []<>TriesAgain
=============================================================================
