--------------------------- MODULE DecompressChain ---------------------------
(***************************************************************************)
(* The chain of decompressors that unpacks a solid block (decompressBlock, *)
(* deCompressProcess, ArcvProcessExtract.hs): one thread for each method,  *)
(* joined by `|>' (createP, Process.hs).                                   *)
(*                                                                         *)
(* Between two stages are an MVar, through which the producer passes a     *)
(* buffer of its own, and an unbounded channel back, through which the     *)
(* consumer says that it has copied all of it: until then the producer     *)
(* waits in its write callback.  The last stage writes to decompressStep   *)
(* (DecompressServer), which refuses data when no more are needed; that    *)
(* refusal travels back through the chain.                                 *)
(*                                                                         *)
(* What a method computes is left open: it reads, writes, ends and fails   *)
(* as it likes, but once a callback returned a negative number it returns. *)
(* It is in one callback at a time, which holds for methods that work in   *)
(* one thread; 4x4 and GRZip have a thread that reads and one that writes  *)
(* (FourByFour, GRZipThreads).  The program is in file-manager mode, where *)
(* an error of a method does not end the process.                          *)
(***************************************************************************)
EXTENDS Integers, Sequences

CONSTANTS NumStages,   \* methods in the chain
          MaxOut,      \* bound: bytes a stage writes
          MaxBuf       \* bound: bytes in one read or write

ASSUME ParametersAssumption ==
  NumStages \in Nat \ {0} /\ MaxOut \in Nat /\ MaxBuf \in Nat \ {0}

Stages == 1 .. NumStages
Links  == 1 .. NumStages - 1     \* link s joins stage s to stage s + 1

VARIABLES
  pc,          \* each stage: where it is
  rest,        \* bytes of the buffer in hand not yet copied: 0 before the first
               \* buffer came, Over when the producer said it was the last
  size,        \* all bytes of that buffer
  room,        \* bytes the current read callback has still to fill
  batch,       \* bytes the current write callback has to pass on
  got, out,    \* bytes read and written so far
  link,        \* the MVar of each link: at most one message
  acks,        \* the channel back
  terminated   \* operationTerminated

vars == <<pc, rest, size, room, batch, got, out, link, acks, terminated>>

Over       == -1
NoMoreData == [first |-> 0, bytes |-> 0]
Refused    == -1         \* aFREEARC_ERRCODE_NO_MORE_DATA_REQUIRED

Init == /\ pc = [s \in Stages |-> IF s = 1 THEN "codec" ELSE "start"]
        /\ rest = [s \in Stages |-> 0] /\ size = [s \in Stages |-> 0]
        /\ room = [s \in Stages |-> 0] /\ batch = [s \in Stages |-> 0]
        /\ got = [s \in Stages |-> 0] /\ out = [s \in Stages |-> 0]
        /\ link = [s \in Links |-> <<>>] /\ acks = [s \in Links |-> <<>>]
        /\ terminated = FALSE

GoTo(s, place) == pc' = [pc EXCEPT ![s] = place]

-----------------------------------------------------------------------------
(***************************************************************************)
(* Reading (read_data).  The first stage reads the archive instead, which  *)
(* no other stage sees.                                                    *)
(***************************************************************************)
\* The mutants of this module (Mut...) are definitions with a bug the code does
\* not have; no other definition uses them.

\* A method begins with a read of no bytes, which waits for the first buffer
\* (checkingCtrlBreak); copying without compression begins with a real one.
FirstRead(s) == /\ pc[s] = "start"
                /\ room' \in {[room EXCEPT ![s] = n] : n \in {0, MaxBuf}}
                /\ GoTo(s, "reading")
                /\ UNCHANGED <<rest, size, batch, got, out, link, acks, terminated>>

\* The read callback for n bytes.  After the end there are none.
Read(s) == /\ s > 1 /\ pc[s] = "codec" /\ rest[s] # Over
           /\ \E n \in 1 .. MaxBuf : room' = [room EXCEPT ![s] = n]
           /\ GoTo(s, "reading")
           /\ UNCHANGED <<rest, size, batch, got, out, link, acks, terminated>>

\* processNextInstruction: the MVar is emptied, or the end is seen.
Receive(s) ==
  /\ pc[s] = "reading" /\ rest[s] = 0
  /\ link[s - 1] # <<>>
  /\ link' = [link EXCEPT ![s - 1] = <<>>]
  /\ LET msg == Head(link[s - 1])
     IN IF msg = NoMoreData
        THEN /\ rest' = [rest EXCEPT ![s] = Over]
             /\ GoTo(s, "codec") /\ UNCHANGED size
        ELSE /\ rest' = [rest EXCEPT ![s] = msg.bytes]
             /\ size' = [size EXCEPT ![s] = msg.bytes]
             /\ UNCHANGED pc
  /\ UNCHANGED <<room, batch, got, out, acks, terminated>>

Copied(s) == IF rest[s] < room[s] THEN rest[s] ELSE room[s]

\* The callback returns when its buffer is full, even if all was copied.
MutCopyData(s) ==
  /\ pc[s] = "reading" /\ rest[s] > 0
  /\ rest' = [rest EXCEPT ![s] = @ - Copied(s)]
  /\ room' = [room EXCEPT ![s] = @ - Copied(s)]
  /\ got'  = [got EXCEPT ![s] = @ + Copied(s)]
  /\ acks' = IF Copied(s) = rest[s]
             THEN [acks EXCEPT ![s - 1] = Append(@, size[s])] ELSE acks
  /\ IF Copied(s) = room[s] THEN GoTo(s, "codec") ELSE UNCHANGED pc
  /\ UNCHANGED <<size, batch, out, link, terminated>>

\* The buffer is acknowledged when copying begins.
MutAckFirst(s) ==
  /\ pc[s] = "reading" /\ rest[s] > 0
  /\ rest' = [rest EXCEPT ![s] = @ - Copied(s)]
  /\ room' = [room EXCEPT ![s] = @ - Copied(s)]
  /\ got'  = [got EXCEPT ![s] = @ + Copied(s)]
  /\ acks' = IF rest[s] = size[s]
             THEN [acks EXCEPT ![s - 1] = Append(@, size[s])] ELSE acks
  /\ IF Copied(s) = rest[s] THEN UNCHANGED pc ELSE GoTo(s, "codec")
  /\ UNCHANGED <<size, batch, out, link, terminated>>

\* What did not fit is dropped.
MutDropRest(s) ==
  /\ pc[s] = "reading" /\ rest[s] > 0
  /\ rest' = [rest EXCEPT ![s] = 0]
  /\ room' = [room EXCEPT ![s] = @ - Copied(s)]
  /\ got'  = [got EXCEPT ![s] = @ + Copied(s)]
  /\ acks' = [acks EXCEPT ![s - 1] = Append(@, size[s])]
  /\ UNCHANGED <<pc, size, batch, out, link, terminated>>

\* copyData: what fits is copied.  A buffer that is through is acknowledged, and
\* then the next one is waited for even if nothing more is wanted of it.
CopyData(s) ==
  /\ pc[s] = "reading" /\ rest[s] > 0
  /\ rest' = [rest EXCEPT ![s] = @ - Copied(s)]
  /\ room' = [room EXCEPT ![s] = @ - Copied(s)]
  /\ got'  = [got EXCEPT ![s] = @ + Copied(s)]
  /\ IF Copied(s) = rest[s]
     THEN acks' = [acks EXCEPT ![s - 1] = Append(@, size[s])] /\ UNCHANGED pc
     ELSE GoTo(s, "codec") /\ UNCHANGED acks
  /\ UNCHANGED <<size, batch, out, link, terminated>>

-----------------------------------------------------------------------------
(***************************************************************************)
(* Writing (resendData), and the end of a stage (deCompressProcess1).      *)
(***************************************************************************)
Write(s) == /\ pc[s] = "codec"
            /\ \E n \in 1 .. MaxBuf :
                  /\ out[s] + n <= MaxOut
                  /\ batch' = [batch EXCEPT ![s] = n]
            /\ GoTo(s, "writing")
            /\ UNCHANGED <<rest, size, room, got, out, link, acks, terminated>>

\* putMVar, which waits while the MVar is occupied.
SendData(s) ==
  /\ s < NumStages /\ pc[s] = "writing" /\ link[s] = <<>>
  /\ link' = [link EXCEPT ![s] = <<[first |-> out[s], bytes |-> batch[s]]>>]
  /\ out' = [out EXCEPT ![s] = @ + batch[s]]
  /\ GoTo(s, "waiting")
  /\ UNCHANGED <<rest, size, room, batch, got, acks, terminated>>

\* receive_backP: the write callback returns what the consumer sent, and the
\* method returns if that was negative.
ReceiveAck(s) ==
  /\ pc[s] = "waiting" /\ acks[s] # <<>>
  /\ acks' = [acks EXCEPT ![s] = Tail(@)]
  /\ GoTo(s, IF Head(acks[s]) = Refused THEN "ending" ELSE "codec")
  /\ UNCHANGED <<rest, size, room, batch, got, out, link, terminated>>

\* The last stage hands its data to the writer of the block, who may refuse.
Deliver(s) ==
  /\ s = NumStages /\ pc[s] = "writing"
  /\ \/ GoTo(s, "codec") /\ out' = [out EXCEPT ![s] = @ + batch[s]]
     \/ GoTo(s, "ending") /\ UNCHANGED out
  /\ UNCHANGED <<rest, size, room, batch, got, link, acks, terminated>>

\* A method returns success: at the end of its input, or before it, when its own
\* format says that the data are over (a damaged block may say so anywhere).
Succeed(s) == /\ pc[s] = "codec"
              /\ GoTo(s, "ending")
              /\ UNCHANGED <<rest, size, room, batch, got, out, link, acks, terminated>>

\* A method fails: the error is registered and the operation terminated.
Fail(s) == /\ pc[s] = "codec"
           /\ GoTo(s, "ending")
           /\ terminated' = TRUE
           /\ UNCHANGED <<rest, size, room, batch, got, out, link, acks>>

\* A callback sees that the operation was terminated and the method returns.
Stop(s) == /\ terminated /\ pc[s] \in {"start", "codec"}
           /\ GoTo(s, "ending")
           /\ UNCHANGED <<rest, size, room, batch, got, out, link, acks, terminated>>

\* The producer is told that no more data are needed.
Refuse(s) ==
  /\ pc[s] = "ending"
  /\ acks' = IF s > 1 THEN [acks EXCEPT ![s - 1] = Append(@, Refused)] ELSE acks
  /\ GoTo(s, "last_word")
  /\ UNCHANGED <<rest, size, room, batch, got, out, link, terminated>>

\* The consumer is told that there are no more data.  The writer of the block
\* ignores that.
SendEnd(s) == /\ pc[s] = "last_word"
              /\ s < NumStages => link[s] = <<>>
              /\ link' = IF s < NumStages THEN [link EXCEPT ![s] = <<NoMoreData>>]
                         ELSE link
              /\ GoTo(s, "finished")
              /\ UNCHANGED <<rest, size, room, batch, got, out, acks, terminated>>

\* Ctrl-Break, or an error elsewhere in the program.
Terminate == /\ ~terminated /\ terminated' = TRUE
             /\ UNCHANGED <<pc, rest, size, room, batch, got, out, link, acks>>

Stage(s) == \/ FirstRead(s) \/ Read(s) \/ Receive(s) \/ CopyData(s)
            \/ Write(s) \/ SendData(s) \/ ReceiveAck(s) \/ Deliver(s)
            \/ Succeed(s) \/ Fail(s) \/ Stop(s) \/ Refuse(s) \/ SendEnd(s)

Next == Terminate \/ \E s \in Stages : Stage(s)

Spec == Init /\ [][Next]_vars

\* Every thread that can go on does, and every method returns if its callbacks do,
\* having written finitely much.  (That is assumed of the methods; the hangs found in
\* GRZip, GRZipThreads!ReturnsOrHangs, would hang the chain as well.)
FairSpec == Spec /\ \A s \in Stages : WF_vars(Stage(s))
-----------------------------------------------------------------------------
Finished(s) == pc[s] = "finished"
Ended(s) == pc[s] \in {"last_word", "finished"}

Messages == [first : 0 .. MaxOut, bytes : 0 .. MaxBuf]

TypeOK ==
  /\ pc \in [Stages -> {"start", "codec", "reading", "writing", "waiting", "ending",
                        "last_word", "finished"}]
  /\ rest \in [Stages -> Over .. MaxBuf] /\ size \in [Stages -> 0 .. MaxBuf]
  /\ room \in [Stages -> 0 .. MaxBuf] /\ batch \in [Stages -> 0 .. MaxBuf]
  /\ got \in [Stages -> 0 .. MaxOut] /\ out \in [Stages -> 0 .. MaxOut]
  /\ link \in [Links -> {<<>>} \union {<<m>> : m \in Messages}]
  /\ acks \in [Links -> Seq(Refused .. MaxBuf)] /\ \A s \in Links : Len(acks[s]) <= 1
  /\ terminated \in BOOLEAN

\* A buffer belongs to its producer, which may overwrite it as soon as the write
\* callback returns: while a consumer still has bytes to copy, its producer waits
\* and there is nothing that could wake it (resendData, copyData).  The code of a
\* method never runs without such a buffer in hand, unless it has seen the end: this
\* is why copyData waits for a buffer nobody wants (ArcvProcessExtract.hs:186-196), and
\* a stage that ends early leaves the MVar free for the last word of its producer.
BufferIntact ==
  \A s \in Links :
    /\ rest[s + 1] > 0 /\ ~Ended(s + 1) => pc[s] = "waiting" /\ acks[s] = <<>>
    /\ pc[s + 1] \in {"codec", "writing", "waiting"} => rest[s + 1] # 0

\* Each buffer continues where the consumer is, whatever the sizes of reads and
\* writes, and no byte is lost when the end is seen (read_data).
InputComplete ==
  \A s \in Links :
    /\ link[s] # <<>> /\ ~Ended(s + 1) /\ Head(link[s]) # NoMoreData
         => Head(link[s]).first = got[s + 1]
    /\ rest[s + 1] = Over => got[s + 1] = out[s]

\* The producer of a stage that was stopped before its first read: that stage has
\* taken nothing, the first buffer stays in the MVar, and the last word waits.
Stranded(s) == /\ pc[s] = "last_word" /\ link[s] # <<>>
               /\ Ended(s + 1) /\ rest[s + 1] = 0 /\ got[s + 1] = 0

\* The chain ends, so that createP returns, whichever stage ends first and why,
\* with that one exception (deCompressProcess1, ArcvProcessExtract.hs:278-281).
ChainEnds == <>((\A s \in Stages : Finished(s)) \/ \E s \in Links : Stranded(s))
=============================================================================
