------------------------ MODULE DecompressServer_proof ------------------------
(***************************************************************************)
(* Proofs about the decompression server and its client, for any blocks,   *)
(* any files in them, any buffers and any number of requests.              *)
(***************************************************************************)
EXTENDS DecompressServer, TLAPS

-----------------------------------------------------------------------------
(***************************************************************************)
(* The inductive invariant.                                                *)
(***************************************************************************)
\* Where the server is when it works on a request and said nothing yet.
Busy == {"open", "codec", "step", "update", "file_end", "refusing", "block_end",
         "terminating"}

\* The messages under way, which say what each of the two threads knows of the
\* other: a request not yet taken, ...
Requested == /\ income = <<file>> /\ outcome = <<>> /\ back = <<>>
             /\ spc \in {"new", "await_request"} /\ taken = 0

\* ... or one that is worked on, data not yet taken, data given back, or the end of
\* the file.
Answering == /\ income = <<>> /\ cfile = file
             /\ \/ spc \in Busy /\ outcome = <<>> /\ back = <<>>
                \/ spc = "await_ack" /\ outcome # <<>> /\ outcome # <<Code>> /\ back = <<>>
                \/ spc = "await_ack" /\ outcome = <<>> /\ back = <<"used">>
                \/ outcome = <<Code>> /\ back = <<>>
                     /\ (spc = "await_request" \/ (spc = "exited" /\ terminated))

Quiet == income = <<>> /\ outcome = <<>> /\ back = <<>>

\* The request to stop has gone out.
Stopping == \/ /\ income = <<Stop>> /\ outcome = <<>> /\ back = <<>>
               /\ spc \in {"new", "await_request", "await_ack", "exited"}
            \/ /\ income = <<>> /\ back = <<>>
               /\ \/ spc = "exited"
                  \/ /\ spc \in {"refusing", "block_end", "terminating"}
                     /\ outcome = <<>> /\ state = StopDecompressThread

Dialogue ==
  /\ cpc = "idle" => Quiet /\ spc \in {"new", "await_request"}
  /\ cpc = "receiving" => Requested \/ Answering
  /\ cpc = "writing" => Quiet /\ spc = "await_ack" /\ cfile = file
  /\ cpc = "close" => Quiet /\ spc \in {"new", "await_request", "await_ack", "exited"}
  /\ cpc \in {"join", "joined"} => Stopping
  /\ cpc \in {"receiving", "writing"} => file \in Files

\* Where the server is in the block.
Unpacking == {"codec", "step", "await_ack", "update", "file_end", "await_request"}

Position ==
  /\ spc \notin {"new", "exited"} => cfile \in Files
  /\ spc \in Unpacking =>
       /\ open = cfile.blk /\ at + buf <= BlockSize
       /\ state \in [block_pos : 0 .. BlockSize, pos : 0 .. BlockSize, size : 0 .. BlockSize]
       /\ state.pos + state.size = cfile.pos + cfile.size
       /\ state.block_pos = IF spc \in {"step", "await_ack", "update"} THEN at ELSE at + buf
  /\ spc \in {"codec", "step", "await_ack", "update"} =>
       state.block_pos <= state.pos /\ state.size > 0
  /\ spc = "await_ack" => DataSize > 0
  /\ spc \in {"file_end", "await_request"} => state.size = 0
  /\ spc = "refusing" => state \in {Reopen, StopDecompressThread}
  /\ spc = "block_end" => short \/ state \in {Reopen, StopDecompressThread}
  /\ spc = "terminating" => terminated

\* What the client has got of the file it asked for, since the server began with it,
\* and what is sent to it.
Account ==
  /\ cpc \in {"receiving", "writing"} /\ income = <<>> =>
       /\ spc = "open" \/ state = Reopen => taken = 0 \/ short
       /\ spc \in {"codec", "step"} => taken = state.pos - file.pos
       /\ spc = "update" \/ (spc = "await_ack" /\ outcome = <<>>) =>
            taken = state.pos - file.pos + DataSize
       /\ spc = "await_ack" /\ outcome # <<>> => taken = state.pos - file.pos
       /\ spc \in {"file_end", "await_request"} => taken = file.size
  /\ spc = "await_ack" /\ outcome # <<>> =>
       outcome = <<[blk |-> open, from |-> DataStart, len |-> DataSize]>>
  /\ cpc \in {"idle", "receiving", "writing", "close"} => state # StopDecompressThread

IInv == TypeOK /\ Dialogue /\ Position /\ Account

-----------------------------------------------------------------------------
(***************************************************************************)
(* Arithmetic of decompressStep.                                           *)
(***************************************************************************)
\* A file lies within its block.
LEMMA FileTyped ==
  ASSUME NEW f \in Files
  PROVE  /\ f.blk \in Blocks /\ f.pos \in 0 .. BlockSize /\ f.size \in 1 .. BlockSize
         /\ f.pos + f.size <= BlockSize /\ f # None /\ f # Stop
BY ParametersAssumption DEF Files, None, Stop

\* The part of the buffer in hand that belongs to the file lies inside it, and begins
\* where the file is to be continued.
LEMMA PartOfBuffer ==
  ASSUME TypeOK, Position, spc \in {"step", "await_ack", "update"}
  PROVE  /\ SkipBytes \in 0 .. buf
         /\ DataSize \in 0 .. buf - SkipBytes /\ DataSize <= state.size
         /\ DataSize > 0 => DataStart = state.pos /\ DataStart \in 0 .. BlockSize
         /\ DataSize < state.size => state.block_pos + buf <= state.pos + DataSize
         /\ state.block_pos = at /\ at + buf <= BlockSize
         /\ state.pos + state.size = cfile.pos + cfile.size
         /\ cfile \in Files /\ open = cfile.blk
         /\ state \in [block_pos : 0 .. BlockSize, pos : 0 .. BlockSize, size : 0 .. BlockSize]
         /\ state.size > 0
<1>1. /\ state.block_pos = at /\ at + buf <= BlockSize /\ at <= state.pos
      /\ state \in [block_pos : 0 .. BlockSize, pos : 0 .. BlockSize, size : 0 .. BlockSize]
      /\ state.pos + state.size = cfile.pos + cfile.size
      /\ cfile \in Files /\ open = cfile.blk /\ state.size > 0
  BY DEF Position, Unpacking
<1>2. /\ at \in Nat /\ buf \in Nat /\ BlockSize \in Nat
      /\ state.pos \in 0 .. BlockSize /\ state.size \in 0 .. BlockSize
  <2>1. at \in Nat /\ buf \in Nat /\ BlockSize \in Nat
    BY ParametersAssumption DEF TypeOK
  <2>2. state.pos \in 0 .. BlockSize /\ state.size \in 0 .. BlockSize
    BY <1>1
  <2>. QED BY <2>1, <2>2
<1>3. SkipBytes = IF state.pos - at < buf THEN state.pos - at ELSE buf
  BY <1>1 DEF SkipBytes, Min2
<1>4. DataSize = IF state.size < buf - SkipBytes THEN state.size ELSE buf - SkipBytes
  BY DEF DataSize, Min2
<1>5. SkipBytes \in 0 .. buf
  BY <1>1, <1>2, <1>3
<1>6. DataStart = at + SkipBytes
  BY <1>5 DEF DataStart
<1>7. DataSize \in 0 .. buf - SkipBytes /\ DataSize <= state.size
  BY <1>2, <1>4, <1>5
<1>8. DataSize > 0 => DataStart = state.pos /\ DataStart \in 0 .. BlockSize
  BY <1>1, <1>2, <1>3, <1>4, <1>5, <1>6
<1>9. DataSize < state.size => state.block_pos + buf <= state.pos + DataSize
  BY <1>1, <1>2, <1>3, <1>4, <1>5
<1>. QED BY <1>1, <1>5, <1>7, <1>8, <1>9
-----------------------------------------------------------------------------
(***************************************************************************)
(* A step keeps each part of the invariant.                                *)
(***************************************************************************)
\* What the client takes are data the server has just sent or the end of the file.
LEMMA WhatIsTaken ==
  ASSUME IInv, cpc = "receiving", outcome # <<>>
  PROVE  /\ income = <<>> /\ back = <<>> /\ cfile = file /\ file \in Files
         /\ \/ /\ spc = "await_ack"
               /\ Head(outcome).blk = open /\ Head(outcome).from = DataStart
               /\ Head(outcome).len = DataSize
               /\ DataSize > 0 /\ DataSize \in Int /\ taken = state.pos - file.pos
               /\ taken \in Nat /\ taken + DataSize <= file.size
            \/ /\ outcome = <<Code>> /\ Head(outcome).len = -1
               /\ spc = "await_request" \/ (spc = "exited" /\ terminated)
<1>1. /\ income = <<>> /\ back = <<>> /\ cfile = file /\ file \in Files
      /\ \/ spc = "await_ack"
         \/ /\ outcome = <<Code>>
            /\ spc = "await_request" \/ (spc = "exited" /\ terminated)
  BY DEF IInv, Dialogue, Requested, Answering
<1>2. CASE spc = "await_ack"
  <2>1. /\ outcome = <<[blk |-> open, from |-> DataStart, len |-> DataSize]>>
        /\ taken = state.pos - file.pos
    BY <1>1, <1>2 DEF IInv, Account
  <2>2. DataSize > 0
    BY <1>2 DEF IInv, Position
  <2>3. /\ DataSize \in Int /\ DataSize <= state.size /\ state.pos \in Nat
        /\ state.size \in Nat
        /\ state.pos + state.size = cfile.pos + cfile.size
    BY <1>2, PartOfBuffer, ParametersAssumption DEF IInv, TypeOK
  <2>4. file.pos \in Nat /\ file.size \in Nat
    BY <1>1, FileTyped, ParametersAssumption
  <2>5. taken \in Nat
    BY ParametersAssumption DEF IInv, TypeOK
  <2>. QED BY <1>1, <1>2, <2>1, <2>2, <2>3, <2>4, <2>5, SMTT(30)
<1>. QED BY <1>1, <1>2 DEF Code

\* The part of the buffer depends on the server's variables only.
LEMMA SamePart ==
  ASSUME UNCHANGED <<state, at, buf>>
  PROVE  SkipBytes' = SkipBytes /\ DataSize' = DataSize /\ DataStart' = DataStart
BY DEF SkipBytes, DataSize, DataStart, Min2

\* A step keeps the types.
LEMMA TypeKept ==
  ASSUME IInv, [Next]_vars
  PROVE  TypeOK'
<1>. USE ParametersAssumption DEF IInv, TypeOK
<1>1. CASE Ask
  BY <1>1 DEF Ask, client, server
<1>2. CASE TakeData
  <2>1. taken' \in 0 .. BlockSize
    <3>1. CASE Head(outcome).len >= 0
      <4>1. /\ taken \in Nat /\ DataSize \in Nat /\ taken + DataSize <= file.size
            /\ taken' = taken + DataSize /\ file \in Files
        BY <1>2, <3>1, WhatIsTaken DEF TakeData
      <4>2. file.size \in 0 .. BlockSize
        BY <4>1, FileTyped
      <4>. QED BY <4>1, <4>2
    <3>2. CASE ~(Head(outcome).len >= 0)
      BY <1>2, <3>2 DEF TakeData
    <3>. QED BY <3>1, <3>2
  <2>. QED BY <1>2, <2>1 DEF TakeData, client, server
<1>3. CASE GiveBack
  BY <1>3 DEF GiveBack, client, server
<1>4. CASE FailInWriter
  BY <1>4 DEF FailInWriter, client, server
<1>5. CASE Leave
  BY <1>5 DEF Leave, client, server
<1>6. CASE SendStop
  BY <1>6 DEF SendStop, client, server
<1>7. CASE Join
  BY <1>7 DEF Join, client, server
<1>8. CASE FirstRequest
  BY <1>8 DEF FirstRequest, client, server
<1>9. CASE OpenBlock
  <2>1. cfile \in Files
    BY <1>9 DEF OpenBlock, Position
  <2>2. /\ cfile.blk \in Blocks /\ cfile.pos \in 0 .. BlockSize
        /\ cfile.size \in 0 .. BlockSize
    BY <2>1, FileTyped
  <2>3. /\ at' \in 0 .. BlockSize
        /\ state' \in [block_pos : 0 .. BlockSize, pos : 0 .. BlockSize, size : 0 .. BlockSize]
    BY <1>9, <2>2 DEF OpenBlock
  <2>. QED BY <1>9, <2>2, <2>3 DEF OpenBlock, client, server
<1>10. CASE WriteBuffer
  BY <1>10 DEF WriteBuffer, client, server
<1>11. CASE SendData
  <2>1. /\ DataSize \in 1 .. MaxBuf /\ DataStart \in 0 .. BlockSize /\ open = cfile.blk
        /\ cfile \in Files
    BY <1>11, PartOfBuffer DEF SendData
  <2>2. open \in Blocks
    BY <2>1, FileTyped
  <2>3. [blk |-> open, from |-> DataStart, len |-> DataSize]
          \in [blk : Blocks, from : 0 .. BlockSize, len : 1 .. MaxBuf]
    BY <2>1, <2>2
  <2>. QED BY <1>11, <2>3 DEF SendData, client, server
<1>12. CASE ReceiveAck
  BY <1>12 DEF ReceiveAck, client, server
<1>13. CASE SkipBuffer
  BY <1>13 DEF SkipBuffer, client, server
<1>14. CASE UpdateState
  <2>1. /\ DataSize \in Nat /\ DataSize <= state.size /\ state.block_pos = at
        /\ at + buf <= BlockSize /\ state.pos + state.size = cfile.pos + cfile.size
        /\ cfile \in Files
        /\ state \in [block_pos : 0 .. BlockSize, pos : 0 .. BlockSize, size : 0 .. BlockSize]
    BY <1>14, PartOfBuffer DEF UpdateState
  <2>2. cfile.pos + cfile.size <= BlockSize
    BY <2>1, FileTyped
  <2>3. state' \in [block_pos : 0 .. BlockSize, pos : 0 .. BlockSize, size : 0 .. BlockSize]
    BY <1>14, <2>1, <2>2, SMTT(30) DEF UpdateState
  <2>. QED BY <1>14, <2>3 DEF UpdateState, client, server
<1>15. CASE SendEnd
  BY <1>15 DEF SendEnd, client, server
<1>16. CASE NextRequest
  <2>1. CASE Head(income) = Stop
    BY <1>16, <2>1 DEF NextRequest, client, server
  <2>2. CASE Head(income) # Stop
    <3>1. Head(income) \in Files /\ cfile' = Head(income)
      BY <1>16, <2>2 DEF NextRequest
    <3>2. Head(income).pos \in 0 .. BlockSize /\ Head(income).size \in 0 .. BlockSize
      BY <3>1, FileTyped
    <3>3. BlockPos \in 0 .. BlockSize
      BY <1>16 DEF NextRequest, BlockPos, Position, Unpacking
    <3>4. state' \in {Reopen, StopDecompressThread}
           \union [block_pos : 0 .. BlockSize, pos : 0 .. BlockSize, size : 0 .. BlockSize]
      BY <1>16, <2>2, <3>2, <3>3 DEF NextRequest
    <3>. QED BY <1>16, <3>1, <3>4, <2>2 DEF NextRequest, client, server
  <2>. QED BY <2>1, <2>2
<1>17. CASE ChainEnds
  BY <1>17 DEF ChainEnds, client, server
<1>18. CASE LoopTest
  BY <1>18 DEF LoopTest, client, server
<1>19. CASE SendTerminated
  BY <1>19 DEF SendTerminated, client, server
<1>20. CASE Terminate
  BY <1>20 DEF Terminate, client, server
<1>21. CASE UNCHANGED vars
  BY <1>21 DEF vars, client, server
<1>. QED
  BY <1>1, <1>2, <1>3, <1>4, <1>5, <1>6, <1>7, <1>8, <1>9, <1>10, <1>11, <1>12,
     <1>13, <1>14, <1>15, <1>16, <1>17, <1>18, <1>19, <1>20, <1>21
  DEF Next, Client, Server

\* A step keeps what the threads know of each other.
LEMMA DialogueKept ==
  ASSUME IInv, [Next]_vars
  PROVE  Dialogue'
<1>. USE ParametersAssumption DEF IInv, Dialogue, Requested, Answering, Quiet, Stopping,
                                  Busy
<1>1. CASE Ask
  BY <1>1 DEF Ask, client, server
<1>2. CASE TakeData
  <2>1. CASE Head(outcome).len >= 0
    BY <1>2, <2>1, WhatIsTaken DEF TakeData, client, server
  <2>2. CASE ~(Head(outcome).len >= 0)
    BY <1>2, <2>2, WhatIsTaken DEF TakeData, client, server
  <2>. QED BY <2>1, <2>2
<1>3. CASE GiveBack
  BY <1>3 DEF GiveBack, client, server
<1>4. CASE FailInWriter
  BY <1>4 DEF FailInWriter, client, server
<1>5. CASE Leave
  BY <1>5 DEF Leave, client, server
<1>6. CASE SendStop
  BY <1>6 DEF SendStop, client, server
<1>7. CASE Join
  BY <1>7 DEF Join, client, server
<1>8. CASE FirstRequest
  <2>1. cpc = "receiving" \/ cpc \in {"join", "joined"}
    BY <1>8 DEF FirstRequest, TypeOK
  <2>2. CASE cpc = "receiving"
    <3>1. Head(income) = file /\ file \in Files /\ outcome = <<>> /\ back = <<>>
      BY <1>8, <2>2 DEF FirstRequest
    <3>2. Head(income) # Stop
      BY <3>1, FileTyped
    <3>. QED BY <1>8, <2>2, <3>1, <3>2 DEF FirstRequest, client
  <2>3. CASE cpc \in {"join", "joined"}
    BY <1>8, <2>3 DEF FirstRequest, client
  <2>. QED BY <2>1, <2>2, <2>3
<1>9. CASE OpenBlock
  BY <1>9 DEF OpenBlock, client, server
<1>10. CASE WriteBuffer
  BY <1>10 DEF WriteBuffer, client, server
<1>11. CASE SendData
  <2>1. outcome' # <<>>
    BY <1>11 DEF SendData
  <2>2. outcome' # <<Code>>
    <3>1. DataSize # -1
      BY <1>11, PartOfBuffer DEF SendData
    <3>. QED BY <1>11, <3>1 DEF SendData, Code
  <2>3. cpc = "receiving"
    BY <1>11 DEF SendData, TypeOK
  <2>. QED BY <1>11, <2>1, <2>2, <2>3 DEF SendData, client
<1>12. CASE ReceiveAck
  BY <1>12 DEF ReceiveAck, client, server
<1>13. CASE SkipBuffer
  BY <1>13 DEF SkipBuffer, client, server
<1>14. CASE UpdateState
  BY <1>14 DEF UpdateState, client, server
<1>15. CASE SendEnd
  BY <1>15 DEF SendEnd, client, server
<1>16. CASE NextRequest
  <2>1. cpc = "receiving" \/ cpc \in {"join", "joined"}
    BY <1>16 DEF NextRequest, TypeOK
  <2>2. CASE cpc = "receiving"
    <3>1. Head(income) = file /\ file \in Files /\ outcome = <<>> /\ back = <<>>
      BY <1>16, <2>2 DEF NextRequest
    <3>2. Head(income) # Stop
      BY <3>1, FileTyped
    <3>. QED BY <1>16, <2>2, <3>1, <3>2 DEF NextRequest, client
  <2>3. CASE cpc \in {"join", "joined"}
    BY <1>16, <2>3 DEF NextRequest, client
  <2>. QED BY <2>1, <2>2, <2>3
<1>17. CASE ChainEnds
  BY <1>17 DEF ChainEnds, client, server
<1>18. CASE LoopTest
  <2>1. CASE cpc = "receiving"
    <3>1. income = <<>> /\ outcome = <<>> /\ back = <<>> /\ cfile = file
      BY <1>18, <2>1 DEF LoopTest
    <3>2. state # StopDecompressThread
      BY <1>18, <2>1, <3>1 DEF LoopTest, Account
    <3>. QED BY <1>18, <2>1, <3>1, <3>2 DEF LoopTest, client
  <2>2. CASE cpc \in {"join", "joined"}
    BY <1>18, <2>2 DEF LoopTest, client, Position
  <2>3. cpc = "receiving" \/ cpc \in {"join", "joined"}
    BY <1>18 DEF LoopTest, TypeOK
  <2>. QED BY <2>1, <2>2, <2>3
<1>19. CASE SendTerminated
  <2>1. terminated
    BY <1>19 DEF SendTerminated, Position
  <2>. QED BY <1>19, <2>1 DEF SendTerminated, client
<1>20. CASE Terminate
  BY <1>20 DEF Terminate, client, server
<1>21. CASE UNCHANGED vars
  BY <1>21 DEF vars, client, server
<1>. QED
  BY <1>1, <1>2, <1>3, <1>4, <1>5, <1>6, <1>7, <1>8, <1>9, <1>10, <1>11, <1>12,
     <1>13, <1>14, <1>15, <1>16, <1>17, <1>18, <1>19, <1>20, <1>21
  DEF Next, Client, Server

\* A step keeps the position in the block.
LEMMA PositionKept ==
  ASSUME IInv, [Next]_vars
  PROVE  Position'
<1>. USE ParametersAssumption DEF IInv, Position, Unpacking
<1>a. ASSUME UNCHANGED <<server, terminated>>
      PROVE  Position'
  <2>1. DataSize' = DataSize
    BY <1>a, SamePart DEF server
  <2>. QED BY <1>a, <2>1 DEF server
<1>1. CASE Ask
  BY <1>1, <1>a DEF Ask, server
<1>2. CASE TakeData
  BY <1>2, <1>a DEF TakeData, server
<1>3. CASE GiveBack
  BY <1>3, <1>a DEF GiveBack, server
<1>4. CASE FailInWriter
  BY <1>4, <1>a DEF FailInWriter, server
<1>5. CASE Leave
  BY <1>5, <1>a DEF Leave, server
<1>6. CASE SendStop
  BY <1>6, <1>a DEF SendStop, server
<1>7. CASE Join
  BY <1>7, <1>a DEF Join, server
<1>8. CASE FirstRequest
  <2>1. spc' \in {"exited", "open"} /\ (spc' = "open" => cfile' \in Files)
    BY <1>8 DEF FirstRequest, TypeOK, Stop
  <2>. QED BY <2>1
<1>9. CASE OpenBlock
  <2>1. cfile \in Files
    BY <1>9 DEF OpenBlock
  <2>2. /\ cfile.pos \in 0 .. BlockSize /\ cfile.size \in 1 .. BlockSize
        /\ cfile.pos + cfile.size <= BlockSize
    BY <2>1, FileTyped
  <2>. QED BY <1>9, <2>1, <2>2 DEF OpenBlock
<1>10. CASE WriteBuffer
  BY <1>10 DEF WriteBuffer, client, server
<1>11. CASE SendData
  <2>1. DataSize' = DataSize
    BY <1>11, SamePart DEF SendData
  <2>. QED BY <1>11, <2>1 DEF SendData
<1>12. CASE ReceiveAck
  BY <1>12 DEF ReceiveAck, client, server
<1>13. CASE SkipBuffer
  BY <1>13 DEF SkipBuffer, client, server
<1>14. CASE UpdateState
  <2>1. /\ DataSize \in Nat /\ DataSize <= state.size /\ state.block_pos = at
        /\ at + buf <= BlockSize /\ state.pos + state.size = cfile.pos + cfile.size
        /\ cfile \in Files /\ open = cfile.blk
        /\ DataSize < state.size => state.block_pos + buf <= state.pos + DataSize
    BY <1>14, PartOfBuffer DEF UpdateState
  <2>2. cfile.pos \in Nat /\ cfile.size \in Nat /\ cfile.pos + cfile.size <= BlockSize
    BY <2>1, FileTyped
  <2>3. /\ at \in Nat /\ buf \in Nat
        /\ state.pos \in Nat /\ state.size \in Nat
    BY <1>14, PartOfBuffer DEF UpdateState, TypeOK
  <2>4. /\ state'.block_pos = at' + buf'
        /\ state'.pos + state'.size = cfile'.pos + cfile'.size
        /\ state' \in [block_pos : 0 .. BlockSize, pos : 0 .. BlockSize, size : 0 .. BlockSize]
    BY <1>14, <2>1, <2>2, <2>3 DEF UpdateState
  <2>5. /\ spc' = "codec" => state'.block_pos <= state'.pos /\ state'.size > 0
        /\ spc' = "file_end" => state'.size = 0
    BY <1>14, <2>1, <2>3 DEF UpdateState
  <2>6. cfile' \in Files /\ open' = cfile'.blk /\ at' + buf' <= BlockSize
        /\ spc' \in {"codec", "file_end"}
    BY <1>14, <2>1 DEF UpdateState
  <2>. QED BY <2>4, <2>5, <2>6
<1>15. CASE SendEnd
  BY <1>15 DEF SendEnd, client, server
<1>16. CASE NextRequest
  <2>1. CASE Head(income) = Stop
    BY <1>16, <2>1 DEF NextRequest
  <2>2. CASE Head(income) # Stop
    <3>. DEFINE next == Head(income)
    <3>1. next \in Files /\ cfile' = next
      BY <1>16, <2>2 DEF NextRequest, TypeOK
    <3>2. /\ next.pos \in 0 .. BlockSize /\ next.size \in 1 .. BlockSize
          /\ next.pos + next.size <= BlockSize
      BY <3>1, FileTyped
    <3>3. /\ BlockPos = at /\ at \in 0 .. BlockSize /\ at + buf <= BlockSize
          /\ open = cfile.blk
      BY <1>16 DEF NextRequest, BlockPos, TypeOK
    <3>. HIDE DEF next
    <3>4. CASE spc' = "refusing"
      BY <1>16, <2>2, <3>1, <3>4 DEF NextRequest, next
    <3>5. CASE spc' = "step"
      <4>1. /\ state' = [block_pos |-> at, pos |-> next.pos, size |-> next.size]
            /\ next.blk = cfile.blk /\ next.pos >= at /\ UNCHANGED <<open, at, buf>>
        BY <1>16, <2>2, <3>2, <3>3, <3>5 DEF NextRequest, next
      <4>. QED BY <3>1, <3>2, <3>3, <3>5, <4>1
    <3>. QED BY <1>16, <2>2, <3>4, <3>5 DEF NextRequest
  <2>. QED BY <2>1, <2>2
<1>17. CASE ChainEnds
  BY <1>17 DEF ChainEnds, client, server
<1>18. CASE LoopTest
  BY <1>18 DEF LoopTest, client, server
<1>19. CASE SendTerminated
  BY <1>19 DEF SendTerminated, client, server
<1>20. CASE Terminate
  <2>1. DataSize' = DataSize
    BY <1>20, SamePart DEF Terminate, server
  <2>. QED BY <1>20, <2>1 DEF Terminate, server
<1>21. CASE UNCHANGED vars
  BY <1>21, <1>a DEF vars, server
<1>. QED
  BY <1>1, <1>2, <1>3, <1>4, <1>5, <1>6, <1>7, <1>8, <1>9, <1>10, <1>11, <1>12,
     <1>13, <1>14, <1>15, <1>16, <1>17, <1>18, <1>19, <1>20, <1>21
  DEF Next, Client, Server

\* A step keeps the account of the bytes that came.
LEMMA AccountKept ==
  ASSUME IInv, [Next]_vars
  PROVE  Account'
<1>. USE ParametersAssumption DEF IInv, Account
<1>1. CASE Ask
  <2>1. DataSize' = DataSize /\ DataStart' = DataStart
    BY <1>1, SamePart DEF Ask, server
  <2>. QED BY <1>1, <2>1
           DEF Ask, client, server, Dialogue, Requested, Answering, Quiet, Stopping, Busy
<1>2. CASE TakeData
  <2>1. DataSize' = DataSize /\ DataStart' = DataStart
    BY <1>2, SamePart DEF TakeData, server
  <2>2. UNCHANGED <<server, income, terminated, file>> /\ outcome' = <<>>
    BY <1>2 DEF TakeData
  <2>3. CASE Head(outcome).len >= 0
    <3>1. /\ spc = "await_ack" /\ taken = state.pos - file.pos
          /\ Head(outcome).len = DataSize /\ DataSize > 0
      BY <1>2, <2>3, WhatIsTaken DEF TakeData
    <3>2. taken' = state.pos - file.pos + DataSize
      BY <1>2, <2>3, <3>1 DEF TakeData
    <3>3. state # Reopen
      BY <3>1 DEF Position, Unpacking, Reopen
    <3>4. state # StopDecompressThread
      BY <1>2 DEF TakeData
    <3>. QED BY <2>1, <2>2, <3>1, <3>2, <3>3, <3>4 DEF server
  <2>4. CASE ~(Head(outcome).len >= 0)
    <3>1. cpc' \in {"close", "idle"} /\ spc \in {"await_request", "exited"}
      BY <1>2, <2>4, WhatIsTaken DEF TakeData
    <3>2. state # StopDecompressThread
      BY <1>2 DEF TakeData
    <3>. QED BY <2>2, <3>1, <3>2 DEF server
  <2>. QED BY <2>3, <2>4
<1>3. CASE GiveBack
  <2>1. DataSize' = DataSize /\ DataStart' = DataStart
    BY <1>3, SamePart DEF GiveBack, server
  <2>. QED BY <1>3, <2>1 DEF GiveBack, client, server
<1>4. CASE FailInWriter
  <2>1. DataSize' = DataSize /\ DataStart' = DataStart
    BY <1>4, SamePart DEF FailInWriter, server
  <2>. QED BY <1>4, <2>1 DEF FailInWriter, client, server
<1>5. CASE Leave
  <2>1. DataSize' = DataSize /\ DataStart' = DataStart
    BY <1>5, SamePart DEF Leave, server
  <2>. QED BY <1>5, <2>1 DEF Leave, client, server
<1>6. CASE SendStop
  <2>1. DataSize' = DataSize /\ DataStart' = DataStart
    BY <1>6, SamePart DEF SendStop, server
  <2>. QED BY <1>6, <2>1 DEF SendStop, client, server
<1>7. CASE Join
  BY <1>7 DEF Join, client, server
<1>8. CASE FirstRequest
  <2>1. outcome' = outcome /\ spc' \in {"open", "exited"}
    BY <1>8 DEF FirstRequest
  <2>2. CASE cpc \in {"receiving", "writing"}
    <3>1. taken = 0
      BY <1>8, <2>2 DEF FirstRequest, Dialogue, Requested, Answering, Quiet, Stopping, Busy
    <3>. QED BY <1>8, <2>1, <3>1 DEF FirstRequest, client
  <2>3. CASE cpc \notin {"receiving", "writing"}
    BY <1>8, <2>1, <2>3 DEF FirstRequest, client
  <2>. QED BY <2>2, <2>3
<1>9. CASE OpenBlock
  <2>1. cfile \in Files
    BY <1>9 DEF OpenBlock, Position
  <2>2. cfile.pos \in Nat /\ cfile.size \in Nat
    BY <2>1, FileTyped
  <2>3. cpc \in {"receiving", "writing"} /\ income = <<>> => cfile = file
    BY <1>9 DEF OpenBlock, Dialogue, Requested, Answering, Quiet, Stopping, Busy
  <2>4. state' # Reopen /\ state' # StopDecompressThread
    BY <1>9, <2>2 DEF OpenBlock, Reopen, StopDecompressThread
  <2>5. cpc \in {"receiving", "writing"} /\ income = <<>> => taken' = 0
    BY <1>9 DEF OpenBlock
  <2>6. outcome' = outcome /\ spc' = "codec" /\ UNCHANGED <<cpc, file, income>>
    BY <1>9 DEF OpenBlock
  <2>. QED BY <1>9, <2>2, <2>3, <2>4, <2>5, <2>6 DEF OpenBlock
<1>10. CASE WriteBuffer
  BY <1>10 DEF WriteBuffer, client, server
<1>11. CASE SendData
  <2>1. DataSize' = DataSize /\ DataStart' = DataStart
    BY <1>11, SamePart DEF SendData
  <2>. QED BY <1>11, <2>1 DEF SendData, client
<1>12. CASE ReceiveAck
  <2>1. DataSize' = DataSize
    BY <1>12, SamePart DEF ReceiveAck
  <2>2. cpc = "receiving" => outcome = <<>>
    BY <1>12 DEF ReceiveAck, Dialogue, Requested, Answering, Quiet, Stopping, Busy
  <2>3. cpc # "writing"
    BY <1>12 DEF ReceiveAck, Dialogue, Requested, Answering, Quiet, Stopping, Busy
  <2>. QED BY <1>12, <2>1, <2>2, <2>3 DEF ReceiveAck, client
<1>13. CASE SkipBuffer
  <2>1. DataSize' = DataSize
    BY <1>13, SamePart DEF SkipBuffer
  <2>2. state.pos \in Nat /\ cfile \in Files
    BY <1>13, PartOfBuffer DEF SkipBuffer
  <2>3. cfile.pos \in Nat
    BY <2>2, FileTyped
  <2>4. cpc \in {"receiving", "writing"} /\ income = <<>> => cfile = file
    BY <1>13 DEF SkipBuffer, Dialogue, Requested, Answering, Quiet, Stopping, Busy
  <2>. QED BY <1>13, <2>1, <2>2, <2>3, <2>4 DEF SkipBuffer, client
<1>14. CASE UpdateState
  <2>1. /\ DataSize \in Nat /\ state.pos \in Nat /\ state.size \in Nat
        /\ state.pos + state.size = cfile.pos + cfile.size /\ DataSize <= state.size
        /\ cfile \in Files /\ at \in Nat /\ buf \in Nat /\ state.block_pos = at
    BY <1>14, PartOfBuffer DEF UpdateState, TypeOK
  <2>2. cfile.pos \in Nat /\ cfile.size \in Nat
    BY <2>1, FileTyped
  <2>3. cpc \in {"receiving", "writing"} /\ income = <<>> =>
          cfile = file /\ taken = state.pos - file.pos + DataSize
    BY <1>14 DEF UpdateState, Dialogue, Requested, Answering, Quiet, Stopping, Busy
  <2>4. state' # Reopen /\ state' # StopDecompressThread
    BY <1>14, <2>1 DEF UpdateState, Reopen, StopDecompressThread
  <2>5. /\ state'.pos = state.pos + DataSize /\ state'.size = state.size - DataSize
        /\ spc' = IF DataSize < state.size THEN "codec" ELSE "file_end"
    BY <1>14 DEF UpdateState
  <2>6. cpc' = cpc /\ file' = file /\ taken' = taken /\ income' = income
    BY <1>14 DEF UpdateState, client
  <2>7. CASE cpc \in {"receiving", "writing"} /\ income = <<>>
    BY <2>1, <2>2, <2>3, <2>4, <2>5, <2>6, <2>7, SMTT(30)
  <2>8. CASE ~(cpc \in {"receiving", "writing"} /\ income = <<>>)
    BY <2>4, <2>5, <2>6, <2>8
  <2>. QED BY <2>7, <2>8
<1>15. CASE SendEnd
  BY <1>15 DEF SendEnd, client, server
<1>16. CASE NextRequest
  <2>1. outcome' = outcome /\ spc' \in {"step", "refusing"} /\ UNCHANGED client
    BY <1>16 DEF NextRequest
  <2>2. CASE cpc \in {"receiving", "writing"}
    <3>1. taken = 0 /\ Head(income) = file /\ file \in Files
      BY <1>16, <2>2 DEF NextRequest, Dialogue, Requested, Answering, Quiet, Stopping, Busy
    <3>2. Head(income) # Stop /\ file.pos \in Nat
      BY <3>1, FileTyped
    <3>3. /\ spc' = "step" => taken = state'.pos - file.pos
          /\ state' # StopDecompressThread
      <4>1. BlockPos \in Nat
        BY <1>16 DEF NextRequest, BlockPos, Position, Unpacking, TypeOK
      <4>. QED BY <1>16, <3>1, <3>2, <4>1 DEF NextRequest, Reopen, StopDecompressThread
    <3>. QED BY <2>1, <3>1, <3>3 DEF client
  <2>3. CASE cpc \notin {"receiving", "writing"}
    <3>1. cpc \notin {"idle", "close"}
      BY <1>16 DEF NextRequest, Dialogue, Requested, Answering, Quiet, Stopping, Busy
    <3>. QED BY <2>1, <2>3, <3>1 DEF client
  <2>. QED BY <2>2, <2>3
<1>17. CASE ChainEnds
  BY <1>17 DEF ChainEnds, client, server
<1>18. CASE LoopTest
  <2>1. cpc \in {"receiving", "writing"} /\ income = <<>> /\ spc' = "open" =>
          taken = 0 \/ short
    BY <1>18 DEF LoopTest, Position, Dialogue, Requested, Answering, Quiet, Stopping, Busy
  <2>. QED BY <1>18, <2>1 DEF LoopTest, client
<1>19. CASE SendTerminated
  BY <1>19 DEF SendTerminated, client, server
<1>20. CASE Terminate
  <2>1. DataSize' = DataSize /\ DataStart' = DataStart
    BY <1>20, SamePart DEF Terminate, server
  <2>. QED BY <1>20, <2>1 DEF Terminate, client, server
<1>21. CASE UNCHANGED vars
  <2>1. DataSize' = DataSize /\ DataStart' = DataStart
    BY <1>21, SamePart DEF vars, server
  <2>. QED BY <1>21, <2>1 DEF vars, client, server
<1>. QED
  BY <1>1, <1>2, <1>3, <1>4, <1>5, <1>6, <1>7, <1>8, <1>9, <1>10, <1>11, <1>12,
     <1>13, <1>14, <1>15, <1>16, <1>17, <1>18, <1>19, <1>20, <1>21
  DEF Next, Client, Server

-----------------------------------------------------------------------------
(***************************************************************************)
(* The theorems.                                                           *)
(***************************************************************************)
\* The invariant holds in every state of every behavior of the dialogue between
\* client and server.
THEOREM Invariance == Spec => []IInv
<1>1. Init => IInv
  <2>1. SUFFICES ASSUME Init PROVE IInv
    OBVIOUS
  <2>2. TypeOK
    <3>1. 0 \in 0 .. BlockSize /\ 0 \in 0 .. MaxFiles /\ 0 \in 0 .. MaxBuf
      BY ParametersAssumption
    <3>. QED BY <2>1, <3>1 DEF Init, TypeOK
  <2>3. Dialogue /\ Position
    BY <2>1 DEF Init, Dialogue, Quiet, Position, Unpacking
  <2>4. Account
    BY <2>1 DEF Init, Account, Reopen, StopDecompressThread
  <2>. QED BY <2>2, <2>3, <2>4 DEF IInv
<1>2. IInv /\ [Next]_vars => IInv'
  <2>1. SUFFICES ASSUME IInv, [Next]_vars PROVE IInv'
    OBVIOUS
  <2>. QED BY <2>1, TypeKept, DialogueKept, PositionKept, AccountKept DEF IInv
<1>. QED BY <1>1, <1>2, PTL DEF Spec

\* Every variable has its type: no position leaves the block (decompressStep).
THEOREM TypeCorrect == Spec => []TypeOK
<1>1. IInv => TypeOK
  BY DEF IInv
<1>. QED BY <1>1, Invariance, PTL

\* The client gets the bytes of the file it asked for, in order and all of them,
\* whatever it asked for before (decompressStep, ArcvProcessExtract.hs); from the
\* first one again when a chain ended early and its block was opened once more.
THEOREM ClientGetsItsFile == Spec => []DataTrue
<1>1. IInv => DataTrue
  <2>1. SUFFICES ASSUME IInv PROVE DataTrue
    OBVIOUS
  <2>2. ASSUME outcome # <<>>, Head(outcome).len > 0, cpc = "receiving"
        PROVE  /\ Head(outcome).blk = file.blk
               /\ Head(outcome).from = file.pos + taken
               /\ taken + Head(outcome).len <= file.size
    <3>1. /\ spc = "await_ack" /\ cfile = file /\ file \in Files
          /\ Head(outcome).blk = open /\ Head(outcome).from = DataStart
          /\ Head(outcome).len = DataSize
          /\ DataSize > 0 /\ taken = state.pos - file.pos
          /\ taken + DataSize <= file.size
      BY <2>1, <2>2, WhatIsTaken
    <3>2. open = cfile.blk /\ DataStart = state.pos /\ state.pos \in Nat
      BY <2>1, <3>1, PartOfBuffer, ParametersAssumption DEF IInv
    <3>3. file.pos \in Nat
      BY <3>1, FileTyped
    <3>. QED BY <3>1, <3>2, <3>3
  <2>3. ASSUME outcome = <<Code>>, cpc = "receiving", ~terminated
        PROVE  taken = file.size
    <3>1. income = <<>> /\ spc \in {"await_request", "await_ack"}
      BY <2>1, <2>3, WhatIsTaken
    <3>2. CASE spc = "await_ack"
      <4>1. /\ outcome = <<[blk |-> open, from |-> DataStart, len |-> DataSize]>>
            /\ DataSize > 0
        BY <2>1, <2>3, <3>2 DEF IInv, Account, Position
      <4>. QED BY <2>3, <4>1 DEF Code
    <3>3. CASE spc = "await_request"
      BY <2>1, <2>3, <3>1, <3>3 DEF IInv, Account
    <3>. QED BY <3>1, <3>2, <3>3
  <2>. QED BY <2>2, <2>3 DEF DataTrue
<1>. QED BY <1>1, Invariance, PTL

\* While the client uses a buffer the server does nothing that could overwrite it,
\* and a new request finds no messages about an old one (receive_backP).
THEOREM BufferLentToClient == Spec => []BufferLent
<1>1. IInv => BufferLent
  BY DEF IInv, Dialogue, Quiet, BufferLent
<1>. QED BY <1>1, Invariance, PTL
=============================================================================
