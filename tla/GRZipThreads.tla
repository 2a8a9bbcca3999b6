---------------------------- MODULE GRZipThreads ----------------------------
(***************************************************************************)
(* The threads of the GRZip method: MTCompressor of MultiThreading.h with  *)
(* the two main cycles of C_GRZip.cpp.                                     *)
(*                                                                         *)
(* There are more jobs than compression slots, and a thread for each job.  *)
(* The calling thread takes a free job, reads a block into it, queues it   *)
(* for the writer and starts its thread.  The thread waits for a slot,     *)
(* processes the block and tells the writer, who writes the blocks in      *)
(* order and frees the jobs.  A null job ends the writer; then the threads *)
(* are ended one by one.                                                   *)
(*                                                                         *)
(* A block is its number in the input.  A queue is a SyncQueue: a sequence *)
(* and a manual-reset event that says it is not empty; Put and the test    *)
(* in Get run under its mutex, the wait for the event does not.  What the  *)
(* adaptive mode leaves over of a block becomes the beginning of the next. *)
(***************************************************************************)
EXTENDS Integers, Sequences

CONSTANTS CompressionThreads,   \* GetCompressionThreads()
          NumBlocks,            \* blocks in the input
          Faults                \* what may fail: some of AllFaults

\* "memory": a buffer cannot be allocated; "read", "write": a callback of the
\* caller returns an error; "codec": a block cannot be decompressed.
AllFaults == {"memory", "read", "write", "codec"}

ASSUME ParametersAssumption ==
  /\ CompressionThreads \in Nat \ {0} /\ NumBlocks \in Nat
  /\ Faults \subseteq AllFaults

NumThreads == CompressionThreads + CompressionThreads \div 2 + 1
Jobs       == 1 .. NumThreads
Null       == 0        \* the job that ends the writer; no job
NoBlock    == 0
Failed     == -1       \* OutSize after an error, which is not the size of a block

VARIABLES
  direction,             \* "compress" or "decompress"
  WriterJobs, FreeJobs,  \* the two SyncQueues
  InBuf, OutBuf,         \* block in the buffers of each job
  InSize,                \* whether InSize of each job is positive
  allocated,             \* whether each job has its buffers
  StartOperation, OperationFinished, Finished,   \* events of each job
  LimitThreads,          \* free compression slots
  errcode,               \* whether an error was recorded
  next,                  \* next block of the input
  cpc, job, i,           \* the caller: where it is, job in hand, loop counter
  tpc,                   \* each thread: where it is
  wpc, wjob,             \* the writer: where it is, its job
  written,               \* blocks that were written, in order
  AllWritten             \* the event the writer sets at its end (Finished)

queues  == <<WriterJobs, FreeJobs>>
buffers == <<InBuf, OutBuf, InSize, allocated>>
events  == <<StartOperation, OperationFinished, Finished>>
caller  == <<next, cpc, job, i>>
writer  == <<wpc, wjob, written, AllWritten>>
vars    == <<direction, queues, buffers, events, LimitThreads, errcode, caller, tpc,
             writer>>

Compressing == direction = "compress"

EmptyQueue == [jobs |-> <<>>, ObjectAdded |-> FALSE]

Init ==
  /\ direction \in {"compress", "decompress"}
  /\ WriterJobs = EmptyQueue /\ FreeJobs = EmptyQueue
  /\ InBuf = [j \in Jobs |-> NoBlock] /\ OutBuf = [j \in Jobs |-> NoBlock]
  /\ InSize = [j \in Jobs |-> FALSE] /\ allocated = [j \in Jobs |-> FALSE]
  /\ StartOperation = [j \in Jobs |-> FALSE]
  /\ OperationFinished = [j \in Jobs |-> FALSE]
  /\ Finished = [j \in Jobs |-> FALSE]
  /\ LimitThreads = CompressionThreads
  /\ errcode = FALSE
  /\ next = 1 /\ cpc = "create" /\ job = Null /\ i = 1
  /\ tpc = [j \in Jobs |-> "none"]
  /\ wpc = "none" /\ wjob = Null /\ written = <<>> /\ AllWritten = FALSE

-----------------------------------------------------------------------------
(***************************************************************************)
(* SyncQueue.                                                              *)
(***************************************************************************)
\* The mutants of this module (Mut...) are definitions with a bug the code does
\* not have; no other definition uses them.

Put(queue, j) == [jobs |-> Append(queue.jobs, j),
                  ObjectAdded |-> queue.ObjectAdded \/ queue.jobs = <<>>]

\* Get when there is an object; the event is reset when it was the last one.
Rest(queue) == [jobs |-> Tail(queue.jobs),
                ObjectAdded |-> queue.ObjectAdded /\ Len(queue.jobs) > 1]

-----------------------------------------------------------------------------
(***************************************************************************)
(* The calling thread (run, CreateJobs, main_cycle, WaitJobsFinished).     *)
(***************************************************************************)
\* CreateJobs, for one job: its thread is created, or there is no memory for
\* the buffers, which only compression allocates now.
CreateJob ==
  /\ cpc = "create" /\ i <= NumThreads
  /\ \/ /\ tpc' = [tpc EXCEPT ![i] = "idle"]
        /\ FreeJobs' = Put(FreeJobs, i)
        /\ allocated' = [allocated EXCEPT ![i] = Compressing]
     \/ /\ "memory" \in Faults /\ Compressing
        /\ UNCHANGED <<tpc, FreeJobs, allocated>>
  /\ i' = i + 1
  /\ UNCHANGED <<WriterJobs, InBuf, OutBuf, InSize, events, LimitThreads, errcode, next,
                 cpc, job, writer>>

\* All jobs were tried: the writer is started, or there is no thread at all.
JobsCreated ==
  /\ cpc = "create" /\ i > NumThreads
  /\ IF \E j \in Jobs : tpc[j] # "none"
     THEN /\ wpc' = "looking"
          /\ cpc' = IF Compressing THEN "acquire" ELSE "sign"
          /\ UNCHANGED <<errcode, i>>
     ELSE /\ errcode' = TRUE /\ cpc' = "clear" /\ i' = 1
          /\ UNCHANGED wpc
  /\ UNCHANGED <<queues, buffers, events, LimitThreads, next, job, tpc, wjob, written,
                 AllWritten>>

\* main_cycle returns an error code or 0.
LeaveCycle(error) == cpc' = "eof" /\ errcode' = (errcode \/ error)

\* Decompression reads the header of a block before it takes a job.  It does not
\* look at errcode.
ReadSign ==
  /\ cpc = "sign"
  /\ \/ next <= NumBlocks /\ cpc' = "acquire" /\ UNCHANGED errcode
     \/ next > NumBlocks /\ LeaveCycle(FALSE)
     \/ "read" \in Faults /\ LeaveCycle(TRUE)
  /\ UNCHANGED <<queues, buffers, events, LimitThreads, next, job, i, tpc, writer>>

\* FreeJobs.Get().
AcquireJob ==
  /\ cpc = "acquire"
  /\ IF FreeJobs.jobs = <<>>
     THEN cpc' = "sleep" /\ UNCHANGED <<FreeJobs, job>>
     ELSE /\ job' = Head(FreeJobs.jobs) /\ FreeJobs' = Rest(FreeJobs)
          /\ cpc' = "read"
  /\ UNCHANGED <<WriterJobs, buffers, events, LimitThreads, errcode, next, i, tpc,
                 writer>>

WakeCaller == /\ cpc = "sleep" /\ FreeJobs.ObjectAdded
              /\ cpc' = "acquire"
              /\ UNCHANGED <<queues, buffers, events, LimitThreads, errcode, next, job, i,
                             tpc, writer>>

\* The block is read into the job.  Compression first looks whether another
\* thread has failed; decompression has allocated the buffers.
ReadBlock ==
  /\ cpc = "read" /\ next <= NumBlocks /\ (Compressing => ~errcode)
  /\ InBuf' = [InBuf EXCEPT ![job] = next]
  /\ InSize' = [InSize EXCEPT ![job] = TRUE]
  /\ allocated' = [allocated EXCEPT ![job] = TRUE]
  /\ next' = next + 1
  /\ cpc' = "queue"
  /\ UNCHANGED <<queues, OutBuf, events, LimitThreads, errcode, job, i, tpc, writer>>

\* Compression: the end of the input, a failed read, or a block that is dropped
\* because another thread has failed.  The job in hand is abandoned.
ReadNothing ==
  /\ cpc = "read" /\ Compressing
  /\ \/ next > NumBlocks /\ LeaveCycle(FALSE) /\ InSize' = [InSize EXCEPT ![job] = FALSE]
     \/ "read" \in Faults /\ LeaveCycle(TRUE) /\ InSize' = [InSize EXCEPT ![job] = FALSE]
     \/ /\ next <= NumBlocks /\ errcode /\ LeaveCycle(FALSE)
        /\ InSize' = [InSize EXCEPT ![job] = TRUE]
  /\ UNCHANGED <<queues, InBuf, OutBuf, allocated, events, LimitThreads, next, job, i,
                 tpc, writer>>

\* Decompression: no memory for one of the buffers, or a read that failed or was
\* too short.  The job is abandoned with what was allocated for it.
ReadBroken ==
  /\ cpc = "read" /\ ~Compressing /\ LeaveCycle(TRUE)
  /\ \/ /\ "memory" \in Faults /\ UNCHANGED InSize
        /\ \E some \in BOOLEAN : allocated' = [allocated EXCEPT ![job] = some]
     \/ /\ "read" \in Faults /\ allocated' = [allocated EXCEPT ![job] = TRUE]
        /\ \E short \in BOOLEAN : InSize' = [InSize EXCEPT ![job] = short]
  /\ UNCHANGED <<queues, InBuf, OutBuf, events, LimitThreads, next, job, i, tpc, writer>>

\* The writer gets the job before its thread does.
QueueJob == /\ cpc = "queue"
            /\ WriterJobs' = Put(WriterJobs, job)
            /\ cpc' = "start"
            /\ UNCHANGED <<FreeJobs, buffers, events, LimitThreads, errcode, next, job, i,
                           tpc, writer>>

StartJob == /\ cpc = "start"
            /\ StartOperation' = [StartOperation EXCEPT ![job] = TRUE]
            /\ cpc' = IF Compressing THEN "acquire" ELSE "sign"
            /\ job' = Null
            /\ UNCHANGED <<queues, buffers, OperationFinished, Finished, LimitThreads,
                           errcode, next, i, tpc, writer>>

\* WriterJobs.Put(NULL).
QueueNull == /\ cpc = "eof"
             /\ WriterJobs' = Put(WriterJobs, Null)
             /\ cpc' = "written"
             /\ UNCHANGED <<FreeJobs, buffers, events, LimitThreads, errcode, next, job,
                            i, tpc, writer>>

AwaitWriter == /\ cpc = "written" /\ AllWritten
               /\ AllWritten' = FALSE
               /\ cpc' = "clear" /\ i' = 1
               /\ UNCHANGED <<queues, buffers, events, LimitThreads, errcode, next, job,
                              tpc, wpc, wjob, written>>

\* WaitJobsFinished, three statements for each job.
ClearSize == /\ cpc = "clear" /\ i <= NumThreads
             /\ InSize' = [InSize EXCEPT ![i] = FALSE]
             /\ cpc' = "stop"
             /\ UNCHANGED <<queues, InBuf, OutBuf, allocated, events, LimitThreads,
                            errcode, next, job, i, tpc, writer>>

StopThread == /\ cpc = "stop"
              /\ StartOperation' = [StartOperation EXCEPT ![i] = TRUE]
              /\ cpc' = "join"
              /\ UNCHANGED <<queues, buffers, OperationFinished, Finished, LimitThreads,
                             errcode, next, job, i, tpc, writer>>

JoinThread == /\ cpc = "join" /\ Finished[i]
              /\ Finished' = [Finished EXCEPT ![i] = FALSE]
              /\ cpc' = "clear" /\ i' = i + 1
              /\ UNCHANGED <<queues, buffers, StartOperation, OperationFinished,
                             LimitThreads, errcode, next, job, tpc, writer>>

Return == /\ cpc = "clear" /\ i > NumThreads
          /\ cpc' = "returned"
          /\ UNCHANGED <<queues, buffers, events, LimitThreads, errcode, next, job, i,
                         tpc, writer>>

Caller == /\ \/ CreateJob \/ JobsCreated \/ ReadSign \/ AcquireJob \/ WakeCaller
             \/ ReadBlock \/ ReadNothing \/ ReadBroken \/ QueueJob \/ StartJob \/ QueueNull
             \/ AwaitWriter \/ ClearSize \/ StopThread \/ JoinThread \/ Return
          /\ UNCHANGED direction

-----------------------------------------------------------------------------
(***************************************************************************)
(* The thread of a job (WorkerThread::run).                                *)
(***************************************************************************)
GoTo(j, place) == tpc' = [tpc EXCEPT ![j] = place]

Start(j) == /\ tpc[j] = "idle" /\ StartOperation[j]
            /\ StartOperation' = [StartOperation EXCEPT ![j] = FALSE]
            /\ GoTo(j, "started")
            /\ UNCHANGED <<queues, buffers, OperationFinished, Finished, LimitThreads,
                           errcode, caller, writer>>

\* InSize says whether there is a block or the thread has to end.
TestSize(j) == /\ tpc[j] = "started"
               /\ GoTo(j, IF InSize[j] THEN "slot" ELSE "done")
               /\ UNCHANGED <<queues, buffers, events, LimitThreads, errcode, caller,
                              writer>>

\* The slot is tested but not taken.
MutTakeSlot(j) == /\ tpc[j] = "slot" /\ LimitThreads > 0
                  /\ GoTo(j, "process")
                  /\ UNCHANGED <<queues, buffers, events, LimitThreads, errcode, caller,
                                 writer>>

TakeSlot(j) == /\ tpc[j] = "slot" /\ LimitThreads > 0
               /\ LimitThreads' = LimitThreads - 1
               /\ GoTo(j, "process")
               /\ UNCHANGED <<queues, buffers, events, errcode, caller, writer>>

\* process(), SetErrCode and the release of the slot: between them the slot merely
\* holds other threads back.  Compression can lack memory only: what does not get
\* smaller is stored.
Process(j) ==
  /\ tpc[j] = "process"
  /\ \/ OutBuf' = [OutBuf EXCEPT ![j] = InBuf[j]] /\ UNCHANGED errcode
     \/ /\ "memory" \in Faults \/ ("codec" \in Faults /\ ~Compressing)
        /\ OutBuf' = [OutBuf EXCEPT ![j] = Failed] /\ errcode' = TRUE
  /\ LimitThreads' = LimitThreads + 1
  /\ GoTo(j, "signal")
  /\ UNCHANGED <<queues, InBuf, InSize, allocated, events, caller, writer>>

SignalWriter(j) == /\ tpc[j] = "signal"
                   /\ OperationFinished' = [OperationFinished EXCEPT ![j] = TRUE]
                   /\ GoTo(j, "idle")
                   /\ UNCHANGED <<queues, buffers, StartOperation, Finished, LimitThreads,
                                  errcode, caller, writer>>

\* done(), which frees the buffers in compression only, and Finished.Signal().
End(j) == /\ tpc[j] = "done"
          /\ allocated' = [allocated EXCEPT ![j] = @ /\ ~Compressing]
          /\ Finished' = [Finished EXCEPT ![j] = TRUE]
          /\ GoTo(j, "ended")
          /\ UNCHANGED <<queues, InBuf, OutBuf, InSize, StartOperation,
                         OperationFinished, LimitThreads, errcode, caller, writer>>

Thread(j) == /\ \/ Start(j) \/ TestSize(j) \/ TakeSlot(j) \/ Process(j)
                \/ SignalWriter(j) \/ End(j)
             /\ UNCHANGED direction

-----------------------------------------------------------------------------
(***************************************************************************)
(* The writer (WriterThread).                                              *)
(***************************************************************************)
\* WriterJobs.Get().  A null job ends the writer.
GetJob ==
  /\ wpc = "looking"
  /\ IF WriterJobs.jobs = <<>>
     THEN wpc' = "asleep" /\ UNCHANGED <<WriterJobs, wjob>>
     ELSE /\ wjob' = Head(WriterJobs.jobs) /\ WriterJobs' = Rest(WriterJobs)
          /\ wpc' = IF wjob' = Null \/ ~InSize[wjob'] THEN "ending" ELSE "await"
  /\ UNCHANGED <<FreeJobs, buffers, events, LimitThreads, errcode, caller, tpc, written,
                 AllWritten>>

WakeWriter == /\ wpc = "asleep" /\ WriterJobs.ObjectAdded
              /\ wpc' = "looking"
              /\ UNCHANGED <<queues, buffers, events, LimitThreads, errcode, caller, tpc,
                             wjob, written, AllWritten>>

\* The event of the job is not waited for.
MutAwaitJob == /\ wpc = "await"
               /\ wpc' = "write"
               /\ UNCHANGED <<queues, buffers, events, LimitThreads, errcode, caller, tpc,
                              wjob, written, AllWritten>>

AwaitJob == /\ wpc = "await" /\ OperationFinished[wjob]
            /\ OperationFinished' = [OperationFinished EXCEPT ![wjob] = FALSE]
            /\ wpc' = "write"
            /\ UNCHANGED <<queues, buffers, StartOperation, Finished, LimitThreads,
                           errcode, caller, tpc, wjob, written, AllWritten>>

WriteBlock == /\ wpc = "write" /\ OutBuf[wjob] # Failed
              /\ written' = Append(written, OutBuf[wjob])
              /\ wpc' = "written"
              /\ UNCHANGED <<queues, buffers, events, LimitThreads, errcode, caller, tpc,
                             wjob, AllWritten>>

\* The error of the callback is not recorded.
MutWriteFails == /\ wpc = "write" /\ (OutBuf[wjob] = Failed \/ "write" \in Faults)
                 /\ wpc' = "ending"
                 /\ UNCHANGED <<queues, buffers, events, LimitThreads, errcode, caller, tpc,
                                wjob, written, AllWritten>>

\* The callback returns an error; or OutSize is an error code, which the callback
\* gets as the size and returns (decompressStep).  The job is not freed.
WriteFails == /\ wpc = "write" /\ (OutBuf[wjob] = Failed \/ "write" \in Faults)
              /\ errcode' = TRUE
              /\ wpc' = "ending"
              /\ UNCHANGED <<queues, buffers, events, LimitThreads, caller, tpc, wjob,
                             written, AllWritten>>

\* after_write(), which frees the buffers in decompression only.
AfterWrite == /\ wpc = "written"
              /\ allocated' = [allocated EXCEPT ![wjob] = @ /\ Compressing]
              /\ wpc' = "free"
              /\ UNCHANGED <<queues, InBuf, OutBuf, InSize, events, LimitThreads, errcode,
                             caller, tpc, wjob, written, AllWritten>>

FreeJob == /\ wpc = "free"
           /\ FreeJobs' = Put(FreeJobs, wjob)
           /\ wjob' = Null
           /\ wpc' = "looking"
           /\ UNCHANGED <<WriterJobs, buffers, events, LimitThreads, errcode, caller, tpc,
                          written, AllWritten>>

\* A writer that met an error ends without the signal.
MutEndWriter == /\ wpc = "ending"
                /\ AllWritten' = ~errcode
                /\ wpc' = "ended"
                /\ UNCHANGED <<queues, buffers, events, LimitThreads, errcode, caller, tpc,
                               wjob, written>>

EndWriter == /\ wpc = "ending"
             /\ AllWritten' = TRUE
             /\ wpc' = "ended"
             /\ UNCHANGED <<queues, buffers, events, LimitThreads, errcode, caller, tpc,
                            wjob, written>>

Writer == /\ \/ GetJob \/ WakeWriter \/ AwaitJob \/ WriteBlock \/ WriteFails
             \/ AfterWrite \/ FreeJob \/ EndWriter
          /\ UNCHANGED direction

Next == Caller \/ Writer \/ \E j \in Jobs : Thread(j)

Spec == Init /\ [][Next]_vars

\* Threads are scheduled whenever they can run; process() and the callbacks
\* return.  A slot is handed to some thread that waits for it again and again:
\* it is released whenever it was taken, so weak fairness for each thread and
\* the bounded input are enough.
FairSpec == Spec /\ WF_vars(Caller) /\ WF_vars(Writer)
                 /\ \A j \in Jobs : WF_vars(Thread(j))
-----------------------------------------------------------------------------
Queues == [jobs : Seq(Jobs \union {Null}), ObjectAdded : BOOLEAN]

TypeOK ==
  /\ direction \in {"compress", "decompress"}
  /\ WriterJobs \in Queues /\ FreeJobs \in Queues
  /\ InBuf \in [Jobs -> 0 .. NumBlocks] /\ OutBuf \in [Jobs -> -1 .. NumBlocks]
  /\ InSize \in [Jobs -> BOOLEAN] /\ allocated \in [Jobs -> BOOLEAN]
  /\ StartOperation \in [Jobs -> BOOLEAN] /\ OperationFinished \in [Jobs -> BOOLEAN]
  /\ Finished \in [Jobs -> BOOLEAN] /\ AllWritten \in BOOLEAN
  /\ LimitThreads \in 0 .. CompressionThreads /\ errcode \in BOOLEAN
  /\ next \in 1 .. NumBlocks + 1 /\ job \in Jobs \union {Null} /\ i \in 1 .. NumThreads + 1
  /\ cpc \in {"create", "sign", "acquire", "sleep", "read", "queue", "start", "eof",
              "written", "clear", "stop", "join", "returned"}
  /\ tpc \in [Jobs -> {"none", "idle", "started", "slot", "process", "signal",
                       "done", "ended"}]
  /\ wpc \in {"none", "looking", "asleep", "await", "write", "written", "free", "ending",
              "ended"}
  /\ wjob \in Jobs \union {Null} /\ written \in Seq(0 .. NumBlocks)

Busy(j) == tpc[j] \in {"slot", "process", "signal"}
Elements(queue) == {queue.jobs[n] : n \in DOMAIN queue.jobs}

\* The buffers of a job have one user, and are there as long as they are used:
\* a job that is free, or that the caller fills, or that the writer writes, is not
\* with its thread; and the caller never fills what waits for the writer.  (The
\* jobs are reused, and four places hand them on without a lock.)  Decompression
\* allocates buffers for each block and frees them when the block was written,
\* compression keeps its own until its threads end: only a decompression that
\* failed leaves memory behind (C_GRZip.cpp:475-496, 536-541).
OneUser ==
  /\ \A j \in Jobs :
       /\ j \in Elements(FreeJobs) \/ (j = job /\ cpc \in {"read", "queue"})
            => ~Busy(j) /\ j \notin Elements(WriterJobs) /\ j # wjob
       /\ j = wjob /\ wpc \in {"write", "written", "free"} => ~Busy(j)
       /\ tpc[j] = "process" \/ (j = wjob /\ wpc = "write") => allocated[j]
       /\ cpc = "returned" /\ (Compressing \/ ~errcode) => ~allocated[j]

\* The caller sees a filter: blocks come out whole and in the order of the input,
\* and success is returned when all are out.
InOrder == \A n \in DOMAIN written : written[n] = n

Filter == INSTANCE OrderedFilter WITH
            emitted <- IF InOrder THEN Len(written) ELSE -1,
            answer  <- CASE cpc # "returned" -> "none"
                         [] cpc = "returned" /\ errcode -> "error"
                         [] cpc = "returned" /\ ~errcode -> "ok"

FilterSpec == Filter!Spec

\* The two ways the call hangs.  The writer ended with an error and frees no job,
\* while the caller wants one; or a thread could not be created, and the caller
\* waits for its end.
StarvedOfJobs == cpc = "sleep" /\ wpc = "ended" /\ errcode /\ FreeJobs.jobs = <<>>
WaitsForNoThread == cpc = "join" /\ tpc[i] = "none"

\* Except in these two, the call returns, whatever fails and when.
ReturnsOrHangs == <>(cpc = "returned" \/ StarvedOfJobs \/ WaitsForNoThread)

=============================================================================
