----------------------------- MODULE FourByFour -----------------------------
(***************************************************************************)
(* 4x4, the method that applies another method to the blocks of its input  *)
(* on several threads (Compression/4x4/C_4x4.cpp).                         *)
(*                                                                         *)
(* The calling thread reads blocks into jobs and submits each job to two   *)
(* queues: to the workers, which process it and signal it ready, and to    *)
(* the writer, which waits for it and writes it out.  The writer puts the  *)
(* job back among the free ones.  When the input is over, or after an      *)
(* error, the caller stops the threads with null pointers and joins them.  *)
(*                                                                         *)
(* A block is its number in the input; the two buffers of a job hold block *)
(* numbers.  A queue operation is atomic: PQueue does it under a mutex.    *)
(***************************************************************************)
EXTENDS Integers, Sequences, FiniteSets

CONSTANTS Workers,         \* worker threads: num_workers of them
          NumBlocks,       \* blocks in the input
          Faults           \* what may fail: some of AllFaults

\* "alloc": a buffer cannot be allocated; "read", "write": a callback of the
\* caller returns an error; "codec": the inner method does.
AllFaults == {"alloc", "read", "write", "codec"}

ASSUME ParametersAssumption ==
  /\ IsFiniteSet(Workers) /\ Workers # {}
  /\ NumBlocks \in Nat /\ Faults \subseteq AllFaults

NumWorkers == Cardinality(Workers)
NumJobs    == NumWorkers + 2
Jobs       == 1 .. NumJobs
Null       == 0               \* the pointer that stops a thread
NoBlock    == 0

VARIABLES
  direction,        \* 0 for compression, 1 for decompression
  cap,              \* capacity of the queues: 0 before they are initialised
  freeQ, workQ, writerQ,
  input, output,    \* block in in_buf and in out_buf of each job
  ready,            \* the event of each job
  err,              \* the shared error flag
  next,             \* next block of the input
  cpc, held,        \* the calling thread: where it is, the job it holds
  stops,            \* null pointers it still has to put for the workers
  result,           \* what it returns
  wpc, wjob,        \* each worker: where it is, its job
  rpc, rjob,        \* the writer: where it is, its job
  written           \* blocks that were written, in order

queues == <<cap, freeQ, workQ, writerQ>>
buffers == <<input, output, ready>>
caller == <<next, cpc, held, stops, result>>
workers == <<wpc, wjob>>
writer == <<rpc, rjob, written>>
vars == <<direction, queues, buffers, err, caller, workers, writer>>

Decompressing == direction = 1

Init ==
  /\ direction \in {0, 1}
  /\ cap = 0 /\ freeQ = <<>> /\ workQ = <<>> /\ writerQ = <<>>
  /\ input = [j \in Jobs |-> NoBlock] /\ output = [j \in Jobs |-> NoBlock]
  /\ ready = [j \in Jobs |-> FALSE]
  /\ err = FALSE
  /\ next = 1 /\ cpc = "init" /\ held = Null /\ stops = 0 /\ result = "none"
  /\ wpc = [w \in Workers |-> "new"] /\ wjob = [w \in Workers |-> Null]
  /\ rpc = "new" /\ rjob = Null /\ written = <<>>

HasRoom(queue) == Len(queue) < cap

-----------------------------------------------------------------------------
(***************************************************************************)
(* The calling thread (do_compress, do_decompress, pool_init, pool_finish).*)
(***************************************************************************)
\* The mutants of this module (Mut...) are definitions with a bug the code does
\* not have; no other definition uses them.

\* pool_init: all jobs are free, the threads start.
PoolInit == /\ cpc = "init"
            /\ cap' = NumJobs + 1
            /\ freeQ' = [j \in Jobs |-> j]
            /\ wpc' = [w \in Workers |-> "idle"] /\ rpc' = "idle"
            /\ cpc' = "loop"
            /\ UNCHANGED <<workQ, writerQ, buffers, err, next, held, stops, result,
                           wjob, rjob, written>>

\* The calling thread leaves the loop; errcode is its local variable.
Finish(errcode) == cpc' = "stop_workers" /\ stops' = NumWorkers /\ result' = errcode

\* pool_init returns before the queues are initialised and the threads started,
\* and pool_finish is called all the same.
PoolInitFails == /\ cpc = "init" /\ "alloc" \in Faults
                 /\ Finish("error")
                 /\ UNCHANGED <<queues, buffers, err, next, held, workers, writer>>

\* The head of the loop.  Decompression reads the header of a block before it
\* takes a job, and finds the end of the input there.
CheckErr ==
  /\ cpc = "loop"
  /\ \/ err /\ Finish("error")
     \/ ~err /\ Decompressing /\ next > NumBlocks /\ Finish("ok")
     \/ ~err /\ Decompressing /\ "read" \in Faults /\ Finish("error")
     \/ ~err /\ (Decompressing => next <= NumBlocks)
          /\ cpc' = "take" /\ UNCHANGED <<stops, result>>
  /\ UNCHANGED <<queues, buffers, err, next, held, workers, writer>>

TakeJob == /\ cpc = "take" /\ freeQ # <<>>
           /\ held' = Head(freeQ) /\ freeQ' = Tail(freeQ)
           /\ cpc' = "read"
           /\ UNCHANGED <<cap, workQ, writerQ, buffers, err, next, stops, result,
                          workers, writer>>

\* What the read callback returns is not looked at.
MutReadBlock == /\ cpc = "read"
                /\ input' = [input EXCEPT ![held] = IF next <= NumBlocks THEN next ELSE @]
                /\ next' = next + 1
                /\ cpc' = "put_work"
                /\ UNCHANGED <<queues, output, ready, err, held, stops, result, workers,
                               writer>>

\* The next block is read into the job.
ReadBlock == /\ cpc = "read" /\ next <= NumBlocks
             /\ input' = [input EXCEPT ![held] = next]
             /\ next' = next + 1
             /\ cpc' = "put_work"
             /\ UNCHANGED <<queues, output, ready, err, held, stops, result, workers,
                            writer>>

\* A block that was stored raw is read into the output buffer: no worker gets it.
ReadRawBlock == /\ cpc = "read" /\ next <= NumBlocks /\ Decompressing
                /\ output' = [output EXCEPT ![held] = next]
                /\ ready' = [ready EXCEPT ![held] = TRUE]
                /\ next' = next + 1
                /\ cpc' = "put_writer"
                /\ UNCHANGED <<queues, input, err, held, stops, result, workers,
                               writer>>

\* End of the input (seen here by compression only) or a failed read: the job
\* is returned unused.  Only compression sets the shared flag.
ReadNothing ==
  /\ cpc = "read" /\ HasRoom(freeQ)
  /\ \/ ~Decompressing /\ next > NumBlocks /\ Finish("ok") /\ UNCHANGED err
     \/ "read" \in Faults /\ Finish("error") /\ err' = (err \/ ~Decompressing)
  /\ freeQ' = Append(freeQ, held) /\ held' = Null
  /\ UNCHANGED <<cap, workQ, writerQ, buffers, next, workers, writer>>

PutWork == /\ cpc = "put_work" /\ HasRoom(workQ)
           /\ workQ' = Append(workQ, held)
           /\ cpc' = "put_writer"
           /\ UNCHANGED <<cap, freeQ, writerQ, buffers, err, next, held, stops, result,
                          workers, writer>>

PutWriter == /\ cpc = "put_writer" /\ HasRoom(writerQ)
             /\ writerQ' = Append(writerQ, held)
             /\ held' = Null
             /\ cpc' = "loop"
             /\ UNCHANGED <<cap, freeQ, workQ, buffers, err, next, stops, result,
                            workers, writer>>

\* pool_finish: one null pointer for each worker.
StopWorker == /\ cpc = "stop_workers" /\ stops > 0 /\ HasRoom(workQ)
              /\ workQ' = Append(workQ, Null)
              /\ stops' = stops - 1
              /\ UNCHANGED <<cap, freeQ, writerQ, buffers, err, next, cpc, held, result,
                             workers, writer>>

\* All workers are joined, then the writer gets its null pointer.
StopWriter == /\ cpc = "stop_workers" /\ stops = 0
              /\ \A w \in Workers : wpc[w] = "exited"
              /\ HasRoom(writerQ)
              /\ writerQ' = Append(writerQ, Null)
              /\ cpc' = "join_writer"
              /\ UNCHANGED <<cap, freeQ, workQ, buffers, err, next, held, stops, result,
                             workers, writer>>

\* The writer is joined; an error that was seen by nobody yet is returned.
Return == /\ cpc = "join_writer" /\ rpc = "exited"
          /\ cpc' = "returned"
          /\ result' = IF result = "ok" /\ err THEN "error" ELSE result
          /\ UNCHANGED <<queues, buffers, err, next, held, stops, workers, writer>>

Caller == /\ \/ PoolInit \/ PoolInitFails \/ CheckErr \/ TakeJob
             \/ ReadBlock \/ ReadRawBlock \/ ReadNothing \/ PutWork \/ PutWriter
             \/ StopWorker \/ StopWriter \/ Return
          /\ UNCHANGED direction

-----------------------------------------------------------------------------
(***************************************************************************)
(* A worker (worker_thread).                                               *)
(***************************************************************************)
GetWork(w) == /\ wpc[w] = "idle" /\ workQ # <<>>
              /\ workQ' = Tail(workQ)
              /\ IF Head(workQ) = Null
                 THEN wpc' = [wpc EXCEPT ![w] = "exited"] /\ UNCHANGED wjob
                 ELSE /\ wpc' = [wpc EXCEPT ![w] = "processing"]
                      /\ wjob' = [wjob EXCEPT ![w] = Head(workQ)]
              /\ UNCHANGED <<cap, freeQ, writerQ, buffers, err, caller, writer>>

\* The inner method succeeds, or fails and the error is recorded.  What an
\* output buffer holds after a failure is not defined.
Process(w) ==
  /\ wpc[w] = "processing"
  /\ \/ output' = [output EXCEPT ![wjob[w]] = input[wjob[w]]] /\ UNCHANGED err
     \/ "codec" \in Faults /\ err' = TRUE
          /\ output' = [output EXCEPT ![wjob[w]] = NoBlock]
  /\ wpc' = [wpc EXCEPT ![w] = "signalling"]
  /\ UNCHANGED <<queues, input, ready, caller, wjob, writer>>

Signal(w) == /\ wpc[w] = "signalling"
             /\ ready' = [ready EXCEPT ![wjob[w]] = TRUE]
             /\ wpc' = [wpc EXCEPT ![w] = "idle"]
             /\ wjob' = [wjob EXCEPT ![w] = Null]
             /\ UNCHANGED <<queues, input, output, err, caller, writer>>

Worker(w) == /\ GetWork(w) \/ Process(w) \/ Signal(w)
             /\ UNCHANGED direction

-----------------------------------------------------------------------------
(***************************************************************************)
(* The writer (writer_thread_fn).                                          *)
(***************************************************************************)
GetJob == /\ rpc = "idle" /\ writerQ # <<>>
          /\ writerQ' = Tail(writerQ)
          /\ rjob' = Head(writerQ)
          /\ rpc' = IF Head(writerQ) = Null THEN "exited" ELSE "waiting"
          /\ UNCHANGED <<cap, freeQ, workQ, buffers, err, caller, workers, written>>

\* The event is not waited for.
MutWriteBlock == /\ rpc = "waiting"
                 /\ IF err THEN UNCHANGED written
                           ELSE written' = Append(written, output[rjob])
                 /\ rpc' = "recycling"
                 /\ UNCHANGED <<queues, buffers, err, caller, workers, rjob>>

\* The job is ready and no error is known: it is written, or that fails.
WriteBlock == /\ rpc = "waiting" /\ ready[rjob]
              /\ \/ ~err /\ written' = Append(written, output[rjob]) /\ UNCHANGED err
                 \/ ~err /\ "write" \in Faults /\ err' = TRUE /\ UNCHANGED written
                 \/ err /\ UNCHANGED <<err, written>>   \* it is dropped
              /\ rpc' = "recycling"
              /\ UNCHANGED <<queues, buffers, caller, workers, rjob>>

\* The event is not reset.
MutNoReset == /\ rpc = "recycling" /\ HasRoom(freeQ)
              /\ freeQ' = Append(freeQ, rjob)
              /\ rjob' = Null
              /\ rpc' = "idle"
              /\ UNCHANGED <<cap, workQ, writerQ, buffers, err, caller, workers, written>>

\* After an error the jobs are dropped.
MutDrop == /\ rpc = "recycling"
           /\ ready' = [ready EXCEPT ![rjob] = FALSE]
           /\ freeQ' = IF err THEN freeQ ELSE Append(freeQ, rjob)
           /\ rjob' = Null
           /\ rpc' = "idle"
           /\ UNCHANGED <<cap, workQ, writerQ, input, output, err, caller, workers,
                          written>>

\* ready.reset(), then free_q.put().
Recycle == /\ rpc = "recycling" /\ HasRoom(freeQ)
           /\ ready' = [ready EXCEPT ![rjob] = FALSE]
           /\ freeQ' = Append(freeQ, rjob)
           /\ rjob' = Null
           /\ rpc' = "idle"
           /\ UNCHANGED <<cap, workQ, writerQ, input, output, err, caller, workers,
                          written>>

Writer == /\ GetJob \/ WriteBlock \/ Recycle
          /\ UNCHANGED direction

Next == Caller \/ Writer \/ \E w \in Workers : Worker(w)

Spec == Init /\ [][Next]_vars

\* Threads are scheduled whenever they can run, and the inner method and the
\* callbacks return.
FairSpec == Spec /\ WF_vars(Caller) /\ WF_vars(Writer)
                 /\ \A w \in Workers : WF_vars(Worker(w))
-----------------------------------------------------------------------------
Callers == {"init", "loop", "take", "read", "put_work", "put_writer",
            "stop_workers", "join_writer", "returned"}

TypeOK ==
  /\ direction \in {0, 1} /\ cap \in {0, NumJobs + 1}
  /\ freeQ \in Seq(Jobs) /\ workQ \in Seq(Jobs \union {Null})
  /\ writerQ \in Seq(Jobs \union {Null})
  /\ input \in [Jobs -> 0 .. NumBlocks] /\ output \in [Jobs -> 0 .. NumBlocks]
  /\ ready \in [Jobs -> BOOLEAN] /\ err \in BOOLEAN
  /\ next \in 1 .. NumBlocks + 1 /\ cpc \in Callers /\ held \in Jobs \union {Null}
  /\ stops \in 0 .. NumWorkers /\ result \in {"none", "ok", "error"}
  /\ wpc \in [Workers -> {"new", "idle", "processing", "signalling", "exited"}]
  /\ wjob \in [Workers -> Jobs \union {Null}]
  /\ rpc \in {"new", "idle", "waiting", "recycling", "exited"}
  /\ rjob \in Jobs \union {Null}
  /\ written \in Seq(0 .. NumBlocks)

Elements(queue) == {queue[i] : i \in DOMAIN queue}
WithWorkers == Elements(workQ) \union {wjob[w] : w \in Workers}

\* The buffers of a job have one user at a time: a job that is free, or that
\* the caller fills, or whose buffers the writer reads, is with no worker, and
\* two workers never have the same job.  A job that is free or with a worker was
\* reset: a stale event would let the writer use it too (C_4x4.cpp:264, 286).
OneUser ==
  /\ \A j \in Jobs :
       (j \in Elements(freeQ) \/ (j = held /\ cpc \in {"read", "put_work"})
          \/ (j = rjob /\ rpc = "recycling"))
         => j \notin WithWorkers
  /\ \A v, w \in Workers : v # w /\ wjob[v] # Null => wjob[v] # wjob[w]
  /\ \A j \in Elements(freeQ) \union WithWorkers : j # Null => ~ready[j]

\* The caller sees 4x4 as a filter: blocks come out whole, in the order of the
\* input, none after an error, and success is returned when all are out.  Output
\* in any other order counts as no state of the filter.
InOrder == \A i \in DOMAIN written : written[i] = i

Filter == INSTANCE OrderedFilter WITH
            emitted <- IF InOrder THEN Len(written) ELSE -1,
            answer  <- IF cpc = "returned" THEN result ELSE "none"

FilterSpec == Filter!Spec

\* The queues of a pool that was not initialised have room for nothing, and
\* pool_finish waits to put its null pointers into them (C_4x4.cpp:331, 387).
Stranded == cpc = "stop_workers" /\ cap = 0

\* Whatever fails, the call returns; but not when the buffers cannot be allocated.
ReturnsOrStranded == <>(cpc = "returned" \/ []Stranded)
=============================================================================
