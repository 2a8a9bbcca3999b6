------------------------- MODULE GRZipThreads_proof -------------------------
(***************************************************************************)
(* Proofs about the threads of GRZip, for any number of them, any number   *)
(* of blocks and any faults, in both directions.                           *)
(***************************************************************************)
EXTENDS GRZipThreads, SequenceTheorems, FiniteSetTheorems, TLAPS

-----------------------------------------------------------------------------
(***************************************************************************)
(* The inductive invariant.                                                *)
(***************************************************************************)
\* The caller ends the threads, or has ended them.
Closing == cpc \in {"clear", "stop", "join", "returned"}
Ended   == wpc \in {"ending", "ended"}

\* No job is twice in a queue.
Distinct(q) == \A m, n \in DOMAIN q : m # n /\ q[m] # Null => q[m] # q[n]

\* A slot is free or taken by a thread that processes a block.
Processing == {j \in Jobs : tpc[j] = "process"}
Slots == LimitThreads + Cardinality(Processing) = CompressionThreads

\* A job is free, or in the caller's hand, or queued for the writer, or with the writer,
\* or abandoned.
Owned ==
  /\ Distinct(FreeJobs.jobs) /\ Distinct(WriterJobs.jobs)
  /\ Null \notin Elements(FreeJobs)
  /\ \A j \in Elements(FreeJobs) : j \notin Elements(WriterJobs)
  /\ cpc \in {"read", "queue", "start"} => job # Null /\ job \notin Elements(FreeJobs)
  /\ cpc \in {"read", "queue"} => job \notin Elements(WriterJobs) /\ job # wjob
  /\ wpc \in {"await", "write", "written", "free"} => wjob # Null
  /\ wpc \in {"none", "looking", "asleep"} => wjob = Null
  /\ wjob # Null => wjob \notin Elements(FreeJobs) \union Elements(WriterJobs)

\* What the writer will get, and what it waits for.
Awaited == {j \in Jobs : j \in Elements(WriterJobs) \/ (j = wjob /\ wpc = "await")}

\* The thread of a job is asked to process a block, does it, or has done it.
Asked(j)   == InSize[j] /\ StartOperation[j]
Begun(j)   == InSize[j] /\ tpc[j] = "started"
Working(j) == Asked(j) \/ Begun(j) \/ Busy(j) \/ OperationFinished[j]

\* Only awaited jobs are with their threads, and each is at one place of its way.
Lent ==
  /\ \A j \in Jobs : Working(j) => j \in Awaited
  /\ \A j \in Jobs : Asked(j) => ~Begun(j) /\ ~Busy(j) /\ ~OperationFinished[j]
  /\ \A j \in Jobs : OperationFinished[j] => ~Begun(j) /\ ~Busy(j)
  /\ cpc = "start" => job \in Awaited /\ ~Working(job)
  /\ cpc = "queue" => InSize[job]
  /\ ~Closing => \A j \in Jobs : j \in Awaited \/ StartOperation[j] \/ tpc[j] = "started"
                                   => InSize[j]
  /\ cpc = "stop" => ~InSize[i]

\* The threads are there before the jobs are used, and are ended one by one.
Lifecycle ==
  /\ cpc = "create" => wpc = "none" /\ \A j \in Jobs : j >= i => tpc[j] = "none"
  /\ \A j \in Jobs : tpc[j] = "none" =>
       /\ j \notin Elements(FreeJobs) \union Elements(WriterJobs) \union {wjob}
       /\ cpc \in {"read", "queue", "start"} => j # job
  /\ \A j \in Jobs : tpc[j] \in {"done", "ended"} => Closing
  /\ \A j \in Jobs : Finished[j] => tpc[j] = "ended"
  /\ Closing => \A j \in Jobs : j < i => tpc[j] = "ended"
  /\ cpc \in {"stop", "join"} => i <= NumThreads
  /\ cpc = "returned" => i > NumThreads

\* Compression has the buffers of a job as long as its thread lives, decompression
\* those of the blocks on their way; what remains after an error is abandoned.
Memory ==
  IF Compressing
  THEN \A j \in Jobs : allocated[j] <=> tpc[j] \notin {"none", "ended"}
  ELSE \A j \in Jobs :
         LET used == \/ j \in Awaited \/ (j = job /\ cpc = "queue")
                     \/ j = wjob /\ wpc \in {"write", "written"}
         IN (used => allocated[j]) /\ (~errcode /\ allocated[j] => used)

\* The null job comes last, once, and the writer ends with it or with an error.
Stopping ==
  /\ \A n \in DOMAIN WriterJobs.jobs : WriterJobs.jobs[n] = Null =>
       n = Len(WriterJobs.jobs) /\ (cpc = "written" \/ Closing)
  /\ cpc = "written" /\ ~Ended =>
       WriterJobs.jobs # <<>> /\ WriterJobs.jobs[Len(WriterJobs.jobs)] = Null
  /\ wpc = "none" => WriterJobs.jobs = <<>> /\ (cpc = "create" \/ (Closing /\ errcode))
  /\ AllWritten => wpc = "ended"
  /\ Closing => wpc \in {"none", "ended"}
  /\ (cpc \in {"eof", "written"} \/ Closing) /\ ~errcode => next = NumBlocks + 1
  /\ Ended /\ ~errcode => /\ WriterJobs.jobs = <<>> /\ Len(written) = NumBlocks
                          /\ cpc = "written" \/ Closing

One(condition) == IF condition THEN 1 ELSE 0

\* Block b goes through job j: it is in the buffer where the next user looks for it,
\* or an error is there instead.
Carries(j, b) == /\ InBuf[j] = b
                 /\ tpc[j] = "signal" \/ OperationFinished[j] => OutBuf[j] \in {b, Failed}

\* How many blocks were written or are with the writer, and how many wait.
Passed == Len(written) + One(wpc \in {"await", "write"})
Queued == Len(WriterJobs.jobs) - One(cpc = "written") + One(cpc = "queue")

\* The blocks of the jobs that wait follow each other and those that were written.
Ordered ==
  ~Ended =>
    /\ \A n \in DOMAIN WriterJobs.jobs : WriterJobs.jobs[n] # Null =>
         Carries(WriterJobs.jobs[n], Passed + n)
    /\ wpc = "await" => Carries(wjob, Len(written) + 1)
    /\ wpc = "write" => OutBuf[wjob] \in {Len(written) + 1, Failed}
    /\ cpc = "queue" => Carries(job, next - 1)
    /\ next - 1 = Passed + Queued

IInv == /\ TypeOK /\ Slots /\ Owned /\ Lent /\ Lifecycle /\ Memory /\ Stopping /\ Ordered
        /\ InOrder

-----------------------------------------------------------------------------
(***************************************************************************)
(* Queues.                                                                 *)
(***************************************************************************)
\* The parameters, and the jobs they give.
LEMMA Parameters ==
  /\ CompressionThreads \in Nat \ {0} /\ NumThreads \in Nat \ {0} /\ NumBlocks \in Nat
  /\ Null \notin Jobs /\ \A j \in Jobs : j \in Int
  /\ \A n \in Int : n \in Jobs <=> n >= 1 /\ n <= NumThreads
<1>1. CompressionThreads \in Nat \ {0} /\ NumBlocks \in Nat
  BY ParametersAssumption
<1>2. CompressionThreads \div 2 \in Nat
  BY <1>1, SMTT(30)
<1>. QED BY <1>1, <1>2 DEF NumThreads, Jobs, Null

\* What Put and Get do to a queue: the new one has x behind the others, or lacks the first.
Grown(old, new, x) ==
  LET q == old.jobs
      r == new.jobs
  IN /\ new \in Queues
     /\ Len(q) \in Nat /\ Len(r) = Len(q) + 1 /\ r # <<>>
     /\ DOMAIN q = 1 .. Len(q) /\ DOMAIN r = 1 .. Len(q) + 1
     /\ \A n \in 1 .. Len(q) : r[n] = q[n]
     /\ r[Len(q) + 1] = x
     /\ \A n \in DOMAIN r : n \in DOMAIN q \/ n = Len(q) + 1
     /\ Elements(new) = Elements(old) \union {x}
     /\ Distinct(q) /\ (x = Null \/ x \notin Elements(old)) => Distinct(r)

Shrunk(old, new) ==
  LET q == old.jobs
      r == new.jobs
  IN /\ new \in Queues
     /\ Head(q) \in Jobs \union {Null} /\ Head(q) = q[1] /\ 1 \in DOMAIN q
     /\ Len(q) \in Nat /\ Len(r) = Len(q) - 1 /\ Len(r) \in Nat
     /\ DOMAIN q = 1 .. Len(q) /\ DOMAIN r = 1 .. Len(q) - 1
     /\ r = <<>> <=> Len(q) = 1
     /\ \A n \in DOMAIN r : n + 1 \in DOMAIN q /\ r[n] = q[n + 1]
     /\ Elements(old) = Elements(new) \union {Head(q)}
     /\ Distinct(q) =>
          Distinct(r) /\ (Head(q) # Null => Head(q) \notin Elements(new))

\* Put adds a job behind the others (SyncQueue::Put).
LEMMA PutEffect ==
  ASSUME NEW queue \in Queues, NEW x \in Jobs \union {Null}
  PROVE  Grown(queue, Put(queue, x), x)
<1>. DEFINE q == queue.jobs
            r == Append(q, x)
<1>0. /\ q \in Seq(Jobs \union {Null})
      /\ Put(queue, x).jobs = r
      /\ r \in Seq(Jobs \union {Null}) => Put(queue, x) \in Queues
  BY DEF Queues, Put
<1>1. /\ r \in Seq(Jobs \union {Null}) /\ Len(q) \in Nat /\ Len(r) = Len(q) + 1
      /\ \A n \in 1 .. Len(q) : r[n] = q[n]
      /\ r[Len(q) + 1] = x /\ r # <<>>
  BY <1>0, LenProperties, AppendProperties
<1>2. DOMAIN q = 1 .. Len(q) /\ DOMAIN r = 1 .. Len(q) + 1
  BY <1>0, <1>1, LenProperties
<1>. HIDE DEF r
<1>3. \A n \in DOMAIN r : n \in DOMAIN q \/ n = Len(q) + 1
  BY <1>1, <1>2
<1>4. Elements(Put(queue, x)) = Elements(queue) \union {x}
  BY <1>0, <1>1, <1>2, <1>3 DEF Elements
<1>5. ASSUME Distinct(q), x = Null \/ x \notin Elements(queue)
      PROVE  Distinct(r)
  <2>. SUFFICES ASSUME NEW m \in DOMAIN r, NEW n \in DOMAIN r, m # n, r[m] # Null,
                       r[m] = r[n]
                PROVE  FALSE
    BY DEF Distinct
  <2>1. CASE m \in DOMAIN q /\ n \in DOMAIN q
    BY <1>1, <1>2, <1>5, <2>1 DEF Distinct
  <2>2. CASE m = Len(q) + 1 /\ n \in DOMAIN q
    BY <1>1, <1>2, <1>5, <2>2 DEF Elements
  <2>3. CASE m \in DOMAIN q /\ n = Len(q) + 1
    BY <1>1, <1>2, <1>5, <2>3 DEF Elements
  <2>. QED BY <1>3, <2>1, <2>2, <2>3
<1>. QED BY <1>0, <1>1, <1>2, <1>3, <1>4, <1>5 DEF Grown

\* Get takes the first job (SyncQueue::Get).
LEMMA GetEffect ==
  ASSUME NEW queue \in Queues, queue.jobs # <<>>
  PROVE  Shrunk(queue, Rest(queue))
<1>. DEFINE q == queue.jobs
            r == Tail(q)
<1>0. /\ q \in Seq(Jobs \union {Null}) /\ q # <<>>
      /\ Rest(queue).jobs = r
      /\ Len(q) \in Nat /\ r \in Seq(Jobs \union {Null}) => Rest(queue) \in Queues
  BY DEF Queues, Rest
<1>1. /\ Head(q) \in Jobs \union {Null} /\ Head(q) = q[1] /\ r \in Seq(Jobs \union {Null})
      /\ Len(q) \in Nat \ {0} /\ Len(r) = Len(q) - 1 /\ Len(r) \in Nat
      /\ \A n \in 1 .. Len(r) : r[n] = q[n + 1]
  BY <1>0, EmptySeq, LenProperties, HeadTailProperties
<1>2. DOMAIN q = 1 .. Len(q) /\ DOMAIN r = 1 .. Len(q) - 1 /\ 1 \in DOMAIN q
  BY <1>0, <1>1, LenProperties
<1>7. r = <<>> <=> Len(q) = 1
  <2>1. r = <<>> <=> Len(r) = 0
    BY <1>1, EmptySeq
  <2>. QED BY <1>1, <2>1
<1>. HIDE DEF r
<1>3. \A n \in DOMAIN r : n + 1 \in DOMAIN q /\ r[n] = q[n + 1] /\ n + 1 # 1
  BY <1>1, <1>2
<1>4. \A n \in DOMAIN q : n = 1 \/ (n - 1 \in DOMAIN r /\ r[n - 1] = q[n])
  <2>. SUFFICES ASSUME NEW n \in DOMAIN q, n # 1
                PROVE  n - 1 \in DOMAIN r /\ r[n - 1] = q[n]
    OBVIOUS
  <2>1. n - 1 \in DOMAIN r /\ (n - 1) + 1 = n
    BY <1>1, <1>2
  <2>. QED BY <1>3, <2>1
<1>5. Elements(queue) = Elements(Rest(queue)) \union {Head(q)}
  <2>1. ASSUME NEW n \in DOMAIN q
        PROVE  q[n] \in Elements(Rest(queue)) \union {Head(q)}
    BY <1>0, <1>1, <1>4 DEF Elements
  <2>2. Elements(Rest(queue)) \union {Head(q)} \subseteq Elements(queue)
    BY <1>0, <1>1, <1>2, <1>3 DEF Elements
  <2>. QED BY <2>1, <2>2 DEF Elements
<1>6. ASSUME Distinct(q)
      PROVE  Distinct(r) /\ (Head(q) # Null => Head(q) \notin Elements(Rest(queue)))
  <2>1. \A m, n \in DOMAIN r : m # n => m + 1 # n + 1
    BY <1>1, <1>2
  <2>2. \A m, n \in DOMAIN q : m # n /\ q[m] # Null => q[m] # q[n]
    BY <1>6 DEF Distinct
  <2>3. Distinct(r)
    BY <1>3, <2>1, <2>2 DEF Distinct
  <2>4. ASSUME Head(q) # Null
        PROVE  \A n \in DOMAIN r : Head(q) # r[n]
    BY <1>1, <1>2, <1>3, <2>2, <2>4
  <2>. QED BY <1>0, <2>3, <2>4 DEF Elements
<1>. QED BY <1>0, <1>1, <1>2, <1>3, <1>5, <1>6, <1>7 DEF Shrunk

\* The jobs in a queue are jobs.
LEMMA ElementsOf ==
  ASSUME NEW queue \in Queues
  PROVE  Elements(queue) \subseteq Jobs \union {Null}
BY LenProperties DEF Elements, Queues

\* A job becomes free when its thread was created.
LEMMA CreateJobQueue ==
  ASSUME TypeOK, CreateJob
  PROVE  i \in Jobs /\ (FreeJobs' = FreeJobs \/ Grown(FreeJobs, FreeJobs', i))
<1>1. i \in Jobs /\ FreeJobs \in Queues
  BY Parameters DEF TypeOK, CreateJob
<1>2. FreeJobs' = FreeJobs \/ FreeJobs' = Put(FreeJobs, i)
  BY DEF CreateJob
<1>. QED BY <1>1, <1>2, PutEffect

\* The caller takes the first free job.
LEMMA AcquireJobQueue ==
  ASSUME TypeOK, AcquireJob, FreeJobs.jobs # <<>>
  PROVE  /\ Shrunk(FreeJobs, FreeJobs') /\ Head(FreeJobs.jobs) \in Elements(FreeJobs)
         /\ job' = Head(FreeJobs.jobs) /\ cpc' = "read"
<1>1. FreeJobs \in Queues /\ FreeJobs' = Rest(FreeJobs)
  BY DEF TypeOK, AcquireJob
<1>2. Shrunk(FreeJobs, FreeJobs')
  BY <1>1, GetEffect
<1>. QED BY <1>2 DEF Shrunk, AcquireJob

\* The job goes to the end of the queue of the writer.
LEMMA QueueJobQueue ==
  ASSUME TypeOK, QueueJob
  PROVE  Grown(WriterJobs, WriterJobs', job)
BY PutEffect DEF TypeOK, QueueJob

\* So does the null job.
LEMMA QueueNullQueue ==
  ASSUME TypeOK, QueueNull
  PROVE  Grown(WriterJobs, WriterJobs', Null)
BY PutEffect DEF TypeOK, QueueNull

\* The writer takes the first job.
LEMMA GetJobQueue ==
  ASSUME TypeOK, GetJob, WriterJobs.jobs # <<>>
  PROVE  /\ Shrunk(WriterJobs, WriterJobs') /\ wjob' = Head(WriterJobs.jobs)
         /\ wjob' \in Elements(WriterJobs)
         /\ wpc' = IF wjob' = Null \/ ~InSize[wjob'] THEN "ending" ELSE "await"
<1>1. WriterJobs \in Queues /\ WriterJobs' = Rest(WriterJobs)
  BY DEF TypeOK, GetJob
<1>2. Shrunk(WriterJobs, WriterJobs')
  BY <1>1, GetEffect
<1>. QED BY <1>2 DEF Shrunk, GetJob

\* The job goes to the end of the free ones.
LEMMA FreeJobQueue ==
  ASSUME TypeOK, FreeJob
  PROVE  Grown(FreeJobs, FreeJobs', wjob)
BY PutEffect DEF TypeOK, FreeJob

\* What the cases need to know of the types.
LEMMA Typed ==
  ASSUME TypeOK
  PROVE  /\ FreeJobs \in Queues /\ WriterJobs \in Queues
         /\ job \in Jobs \union {Null} /\ wjob \in Jobs \union {Null}
         /\ StartOperation \in [Jobs -> BOOLEAN] /\ OperationFinished \in [Jobs -> BOOLEAN]
         /\ Finished \in [Jobs -> BOOLEAN] /\ InSize \in [Jobs -> BOOLEAN]
         /\ allocated \in [Jobs -> BOOLEAN] /\ errcode \in BOOLEAN
         /\ tpc \in [Jobs -> {"none", "idle", "started", "slot", "process", "signal",
                              "done", "ended"}]
         /\ i \in Nat \ {0} /\ Null \notin Jobs /\ NumThreads \in Nat
         /\ \A j \in Jobs : j \in Int
         /\ \A n \in Int : n \in Jobs <=> n >= 1 /\ n <= NumThreads
<1>1. i \in 1 .. NumThreads + 1
  BY DEF TypeOK
<1>2. i \in Nat \ {0}
  BY <1>1, Parameters
<1>. QED BY <1>2, Parameters DEF TypeOK

\* The numbers.
LEMMA Written ==
  ASSUME TypeOK
  PROVE  Len(written) \in Nat /\ next \in 1 .. NumBlocks + 1 /\ NumBlocks \in Nat
<1>1. written \in Seq(0 .. NumBlocks) /\ next \in 1 .. NumBlocks + 1
  BY DEF TypeOK
<1>. QED BY <1>1, Parameters, LenProperties

\* The job that the writer takes stays awaited.
LEMMA JobTaken ==
  ASSUME TypeOK, Owned, Lent, Lifecycle, Stopping, GetJob
  PROVE  /\ wpc = "looking" /\ ~Closing /\ ~Ended /\ cpc # "create"
         /\ Awaited' = Awaited
         /\ WriterJobs.jobs # <<>> /\ wjob' # Null => wpc' = "await" /\ wjob' \in Jobs
<1>1. /\ wpc = "looking" /\ ~Closing /\ ~Ended /\ cpc # "create"
      /\ Null \notin Jobs
  BY Parameters DEF GetJob, Stopping, Lifecycle, Ended
<1>2. CASE WriterJobs.jobs = <<>>
  BY <1>1, <1>2 DEF GetJob, Awaited
<1>3. CASE WriterJobs.jobs # <<>>
  <2>1. /\ Elements(WriterJobs) = Elements(WriterJobs') \union {wjob'}
        /\ wjob' \in Jobs \union {Null}
        /\ wjob' # Null => wpc' = "await"
    BY <1>1, <1>3, GetJobQueue DEF Shrunk, Lent, Awaited
  <2>. QED BY <1>1, <1>3, <2>1, GetJobQueue DEF Awaited
<1>. QED BY <1>1, <1>2, <1>3

\* There are finitely many threads.
LEMMA SlotCount ==
  /\ IsFiniteSet(Processing) /\ Cardinality(Processing) \in Nat
  /\ IsFiniteSet(Processing') /\ Cardinality(Processing') \in Nat
<1>1. IsFiniteSet(Jobs) /\ Processing \subseteq Jobs /\ Processing' \subseteq Jobs
  BY FS_Interval, Parameters DEF Jobs, Processing
<1>. QED BY <1>1, FS_Subset, FS_CardinalityType

\* A slot is taken before a block is processed and given back afterwards.
LEMMA SlotsKept ==
  ASSUME IInv, [Next]_vars
  PROVE  Slots'
<1>1. TypeOK /\ Slots
  BY DEF IInv
<1>2. /\ LimitThreads \in Nat /\ CompressionThreads \in Nat
      /\ IsFiniteSet(Processing) /\ Cardinality(Processing) \in Nat
      /\ tpc \in [Jobs -> {"none", "idle", "started", "slot", "process", "signal",
                           "done", "ended"}]
  BY <1>1, SlotCount, Parameters DEF TypeOK
<1>3. ASSUME UNCHANGED <<tpc, LimitThreads>>
      PROVE  Slots'
  BY <1>1, <1>3 DEF Slots, Processing
<1>4. CASE CreateJob
  <2>1. i \in Jobs /\ tpc[i] = "none" /\ (tpc' = tpc \/ tpc' = [tpc EXCEPT ![i] = "idle"])
    BY <1>1, <1>4, CreateJobQueue, Parameters DEF CreateJob, IInv, Lifecycle
  <2>2. Processing' = Processing
    BY <1>1, <1>2, <2>1 DEF Processing
  <2>. QED BY <1>1, <1>4, <2>2 DEF CreateJob, Slots
<1>5. ASSUME NEW j \in Jobs, Start(j)
       PROVE  Slots'
  <2>1. Processing' = Processing
    BY <1>1, <1>2, <1>5 DEF Start, GoTo, Processing
  <2>. QED BY <1>1, <1>5, <2>1 DEF Start, Slots
<1>6. ASSUME NEW j \in Jobs, TestSize(j)
       PROVE  Slots'
  <2>1. Processing' = Processing
    BY <1>1, <1>2, <1>6 DEF TestSize, GoTo, Processing
  <2>. QED BY <1>1, <1>6, <2>1 DEF TestSize, Slots
<1>7. ASSUME NEW j \in Jobs, TakeSlot(j)
       PROVE  Slots'
  <2>1. Processing' = Processing \union {j} /\ j \notin Processing
    BY <1>2, <1>7 DEF TakeSlot, GoTo, Processing
  <2>2. Cardinality(Processing') = Cardinality(Processing) + 1
    BY <1>2, <2>1, FS_AddElement
  <2>. QED BY <1>1, <1>2, <1>7, <2>2 DEF TakeSlot, Slots
<1>8. ASSUME NEW j \in Jobs, Process(j)
       PROVE  Slots'
  <2>1. Processing' = Processing \ {j} /\ j \in Processing
    BY <1>2, <1>8 DEF Process, GoTo, Processing
  <2>2. Cardinality(Processing') = Cardinality(Processing) - 1
    BY <1>2, <2>1, FS_RemoveElement
  <2>. QED BY <1>1, <1>2, <1>8, <2>2 DEF Process, Slots
<1>9. ASSUME NEW j \in Jobs, SignalWriter(j)
       PROVE  Slots'
  <2>1. Processing' = Processing
    BY <1>1, <1>2, <1>9 DEF SignalWriter, GoTo, Processing
  <2>. QED BY <1>1, <1>9, <2>1 DEF SignalWriter, Slots
<1>10. ASSUME NEW j \in Jobs, End(j)
       PROVE  Slots'
  <2>1. Processing' = Processing
    BY <1>1, <1>2, <1>10 DEF End, GoTo, Processing
  <2>. QED BY <1>1, <1>10, <2>1 DEF End, Slots
<1>11. CASE JobsCreated \/ ReadSign \/ AcquireJob \/ WakeCaller \/ ReadBlock \/
            ReadNothing
  BY <1>3, <1>11
  DEF JobsCreated, queues, buffers, events, ReadSign, writer, LeaveCycle, AcquireJob,
      WakeCaller, ReadBlock, ReadNothing
<1>12. CASE ReadBroken \/ QueueJob \/ StartJob \/ QueueNull \/ AwaitWriter \/
            ClearSize
  BY <1>3, <1>12
  DEF ReadBroken, queues, events, writer, LeaveCycle, QueueJob, buffers, StartJob,
      QueueNull, AwaitWriter, ClearSize
<1>13. CASE StopThread \/ JoinThread \/ Return \/ GetJob \/ WakeWriter \/ AwaitJob
  BY <1>3, <1>13
  DEF StopThread, queues, buffers, writer, JoinThread, Return, events, GetJob, caller,
      WakeWriter, AwaitJob
<1>14. CASE WriteBlock \/ WriteFails \/ AfterWrite \/ FreeJob \/ EndWriter
  BY <1>3, <1>14
  DEF WriteBlock, queues, buffers, events, caller, WriteFails, AfterWrite, FreeJob,
      EndWriter
<1>15. CASE UNCHANGED vars
  BY <1>3, <1>15 DEF vars, queues, buffers, events, caller, writer
<1>. QED
  BY <1>4, <1>5, <1>6, <1>7, <1>8, <1>9, <1>10, <1>11, <1>12, <1>13, <1>14, <1>15
  DEF Next, Caller, Writer, Thread

\* Every step keeps the types.
LEMMA TypeKept ==
  ASSUME IInv, [Next]_vars
  PROVE  TypeOK'
<1>1. TypeOK /\ Owned /\ Lent /\ Lifecycle /\ Stopping /\ Slots
  BY DEF IInv
<1>2. /\ FreeJobs \in Queues /\ WriterJobs \in Queues
      /\ job \in Jobs \union {Null} /\ wjob \in Jobs \union {Null}
      /\ StartOperation \in [Jobs -> BOOLEAN] /\ OperationFinished \in [Jobs -> BOOLEAN]
      /\ Finished \in [Jobs -> BOOLEAN] /\ InSize \in [Jobs -> BOOLEAN]
      /\ allocated \in [Jobs -> BOOLEAN] /\ errcode \in BOOLEAN
      /\ tpc \in [Jobs -> {"none", "idle", "started", "slot", "process", "signal",
                           "done", "ended"}]
      /\ i \in Nat \ {0} /\ Null \notin Jobs /\ NumThreads \in Nat
      /\ \A j \in Jobs : j \in Int
      /\ \A n \in Int : n \in Jobs <=> n >= 1 /\ n <= NumThreads
  BY <1>1, Typed
<1>0. direction' = direction
  BY DEF Next, Caller, Writer, Thread, vars
<1>3. CASE CreateJob
  <2>0. i \in Jobs
    BY <1>1, <1>3, CreateJobQueue
  <2>1. i' \in 1 .. NumThreads + 1 /\ FreeJobs' \in Queues
    BY <1>1, <1>2, <1>3, <2>0, CreateJobQueue, Parameters DEF CreateJob, Grown
  <2>2. allocated' \in [Jobs -> BOOLEAN]
        /\ tpc' \in [Jobs -> {"none", "idle", "started", "slot", "process", "signal",
                           "done", "ended"}]
    BY <1>1, <1>2, <1>3, <2>0 DEF CreateJob, TypeOK, Compressing
  <2>3. UNCHANGED <<WriterJobs, InBuf, OutBuf, InSize, StartOperation, OperationFinished,
                 Finished, LimitThreads, errcode, next, cpc, job, wpc, wjob, written,
                 AllWritten>>
    BY <1>3 DEF CreateJob, events, writer
  <2>. QED BY <1>0, <1>1, <2>1, <2>2, <2>3, SMTT(60) DEF TypeOK
<1>4. CASE JobsCreated
  <2>1. 1 \in 1 .. NumThreads + 1
    BY Parameters
  <2>. QED
    BY <1>0, <1>1, <1>2, <1>4, <2>1 DEF JobsCreated, queues, buffers, events, TypeOK
<1>5. CASE ReadSign
  <2>1. errcode' \in BOOLEAN
        /\ cpc' \in {"create", "sign", "acquire", "sleep", "read", "queue", "start", "eof",
                    "written", "clear", "stop", "join", "returned"}
    BY <1>1, <1>5 DEF ReadSign, LeaveCycle, TypeOK
  <2>2. UNCHANGED <<WriterJobs, FreeJobs, InBuf, OutBuf, InSize, allocated, StartOperation,
                 OperationFinished, Finished, LimitThreads, next, job, i, tpc, wpc, wjob,
                 written, AllWritten>>
    BY <1>5 DEF ReadSign, queues, buffers, events, writer, LeaveCycle
  <2>. QED BY <1>0, <1>1, <2>1, <2>2 DEF TypeOK
<1>6. CASE AcquireJob
  <2>1. FreeJobs' \in Queues /\ job' \in Jobs \union {Null}
    <3>1. CASE FreeJobs.jobs = <<>>
      BY <1>1, <1>6, <3>1 DEF AcquireJob, TypeOK
    <3>2. CASE FreeJobs.jobs # <<>>
      BY <1>1, <1>6, <3>2, AcquireJobQueue DEF Shrunk
    <3>. QED BY <3>1, <3>2
  <2>. QED
    BY <1>0, <1>1, <1>6, <2>1, SMTT(20) DEF AcquireJob, buffers, events, writer, TypeOK
<1>7. CASE WakeCaller
  BY <1>0, <1>1, <1>7 DEF WakeCaller, queues, buffers, events, writer, TypeOK
<1>8. CASE ReadBlock
  <2>1. next \in 0 .. NumBlocks /\ next + 1 \in 1 .. NumBlocks + 1
    BY <1>1, <1>8, Written DEF ReadBlock
  <2>. QED
    BY <1>0, <1>1, <1>2, <1>8, <2>1 DEF ReadBlock, queues, events, writer, TypeOK
<1>9. CASE ReadNothing
  BY <1>0, <1>1, <1>9 DEF ReadNothing, queues, events, writer, LeaveCycle, TypeOK
<1>10. CASE ReadBroken
  <2>1. errcode' \in BOOLEAN
        /\ cpc' \in {"create", "sign", "acquire", "sleep", "read", "queue", "start", "eof",
                    "written", "clear", "stop", "join", "returned"}
    BY <1>1, <1>10 DEF ReadBroken, LeaveCycle, TypeOK
  <2>2. allocated' \in [Jobs -> BOOLEAN] /\ InSize' \in [Jobs -> BOOLEAN]
    BY <1>2, <1>10 DEF ReadBroken
  <2>3. UNCHANGED <<WriterJobs, FreeJobs, InBuf, OutBuf, StartOperation, OperationFinished,
                 Finished, LimitThreads, next, job, i, tpc, wpc, wjob, written, AllWritten>>
    BY <1>10 DEF ReadBroken, queues, events, writer, LeaveCycle
  <2>. QED BY <1>0, <1>1, <2>1, <2>2, <2>3 DEF TypeOK
<1>11. CASE QueueJob
  <2>1. WriterJobs' \in Queues
    BY <1>1, <1>2, <1>11, QueueJobQueue DEF QueueJob, TypeOK, Grown
  <2>. QED
    BY <1>0, <1>1, <1>2, <1>11, <2>1, SMTT(20) DEF QueueJob, buffers, events, writer, TypeOK
<1>12. CASE StartJob
  BY <1>0, <1>1, <1>12 DEF StartJob, queues, buffers, writer, TypeOK
<1>13. CASE QueueNull
  <2>1. WriterJobs' \in Queues
    BY <1>1, <1>2, <1>13, QueueNullQueue DEF QueueNull, TypeOK, Grown
  <2>. QED
    BY <1>0, <1>1, <1>2, <1>13, <2>1, SMTT(20)
    DEF QueueNull, buffers, events, writer, TypeOK
<1>14. CASE AwaitWriter
  <2>1. 1 \in 1 .. NumThreads + 1
    BY Parameters
  <2>. QED
    BY <1>0, <1>1, <1>2, <1>14, <2>1 DEF AwaitWriter, queues, buffers, events, TypeOK
<1>15. CASE ClearSize
  BY <1>0, <1>1, <1>15 DEF ClearSize, queues, events, writer, TypeOK
<1>16. CASE StopThread
  BY <1>0, <1>1, <1>16 DEF StopThread, queues, buffers, writer, TypeOK
<1>17. CASE JoinThread
  <2>1. i + 1 \in 1 .. NumThreads + 1
    BY <1>1, <1>2, <1>17, Parameters DEF JoinThread, Lifecycle
  <2>. QED
    BY <1>0, <1>1, <1>2, <1>17, <2>1 DEF JoinThread, queues, buffers, writer, TypeOK
<1>18. CASE Return
  BY <1>0, <1>1, <1>18 DEF Return, queues, buffers, events, writer, TypeOK
<1>19. CASE GetJob
  <2>1. WriterJobs' \in Queues /\ wjob' \in Jobs \union {Null}
    <3>1. CASE WriterJobs.jobs = <<>>
      BY <1>1, <1>19, <3>1 DEF GetJob, TypeOK
    <3>2. CASE WriterJobs.jobs # <<>>
      BY <1>1, <1>19, <3>2, GetJobQueue DEF Shrunk
    <3>. QED BY <3>1, <3>2
  <2>. QED
    BY <1>0, <1>1, <1>19, <2>1, SMTT(20) DEF GetJob, buffers, events, caller, TypeOK
<1>20. CASE WakeWriter
  BY <1>0, <1>1, <1>20 DEF WakeWriter, queues, buffers, events, caller, TypeOK
<1>21. CASE AwaitJob
  BY <1>0, <1>1, <1>21 DEF AwaitJob, queues, buffers, caller, TypeOK
<1>22. CASE WriteBlock
  <2>1. OutBuf[wjob] \in 0 .. NumBlocks /\ written \in Seq(0 .. NumBlocks)
    BY <1>1, <1>2, <1>22, Written DEF WriteBlock, Owned, TypeOK, Failed
  <2>2. written' \in Seq(0 .. NumBlocks)
    BY <1>22, <2>1, AppendProperties DEF WriteBlock
  <2>3. wpc' = "written"
    BY <1>22 DEF WriteBlock
  <2>4. UNCHANGED <<WriterJobs, FreeJobs, InBuf, OutBuf, InSize, allocated, StartOperation,
                 OperationFinished, Finished, LimitThreads, errcode, next, cpc, job, i, tpc,
                 wjob, AllWritten>>
    BY <1>22 DEF WriteBlock, queues, buffers, events, caller
  <2>. QED BY <1>0, <1>1, <2>1, <2>2, <2>3, <2>4 DEF TypeOK
<1>23. CASE WriteFails
  BY <1>0, <1>1, <1>23 DEF WriteFails, queues, buffers, events, caller, TypeOK
<1>24. CASE AfterWrite
  BY <1>0, <1>1, <1>24 DEF AfterWrite, queues, events, caller, TypeOK
<1>25. CASE FreeJob
  <2>1. FreeJobs' \in Queues
    BY <1>1, <1>2, <1>25, FreeJobQueue DEF FreeJob, TypeOK, Grown
  <2>. QED
    BY <1>0, <1>1, <1>2, <1>25, <2>1, SMTT(20) DEF FreeJob, buffers, events, caller, TypeOK
<1>26. CASE EndWriter
  BY <1>0, <1>1, <1>26 DEF EndWriter, queues, buffers, events, caller, TypeOK
<1>27. ASSUME NEW j \in Jobs, Start(j)
       PROVE  TypeOK'
  BY <1>0, <1>1, <1>27 DEF Start, queues, buffers, caller, writer, GoTo, TypeOK
<1>28. ASSUME NEW j \in Jobs, TestSize(j)
       PROVE  TypeOK'
  BY <1>0, <1>1, <1>28 DEF TestSize, queues, buffers, events, caller, writer, GoTo, TypeOK
<1>29. ASSUME NEW j \in Jobs, TakeSlot(j)
       PROVE  TypeOK'
  <2>1. LimitThreads \in 0 .. CompressionThreads /\ LimitThreads > 0
    BY <1>1, <1>29 DEF TakeSlot, TypeOK
  <2>2. LimitThreads - 1 \in 0 .. CompressionThreads
    BY <2>1, Parameters
  <2>. QED
    BY <1>0, <1>1, <1>2, <1>29, <2>2
    DEF TakeSlot, queues, buffers, events, caller, writer, GoTo, TypeOK
<1>30. ASSUME NEW j \in Jobs, Process(j)
       PROVE  TypeOK'
  <2>1. LimitThreads' \in 0 .. CompressionThreads
    <3>1. LimitThreads' \in Nat /\ Slots'
      BY <1>1, <1>30, SlotsKept DEF Process, TypeOK
    <3>2. Cardinality(Processing') \in Nat
      BY SlotCount
    <3>. QED BY <3>1, <3>2, Parameters DEF Slots
  <2>2. OutBuf' \in [Jobs -> -1 .. NumBlocks] /\ errcode' \in BOOLEAN
    <3>1. InBuf[j] \in -1 .. NumBlocks /\ Failed \in -1 .. NumBlocks
      BY <1>1, <1>30, Parameters DEF TypeOK, Failed
    <3>2. OutBuf \in [Jobs -> -1 .. NumBlocks] /\ errcode \in BOOLEAN
      BY <1>1 DEF TypeOK
    <3>. QED BY <1>30, <3>1, <3>2 DEF Process
  <2>3. tpc' \in [Jobs -> {"none", "idle", "started", "slot", "process", "signal",
                           "done", "ended"}]
    BY <1>2, <1>30 DEF Process, GoTo
  <2>4. UNCHANGED <<WriterJobs, FreeJobs, InBuf, InSize, allocated, StartOperation,
                 OperationFinished, Finished, next, cpc, job, i, wpc, wjob, written,
                 AllWritten>>
    BY <1>30 DEF Process, queues, events, caller, writer, GoTo
  <2>5. /\ LimitThreads' \in 0 .. CompressionThreads /\ errcode' \in BOOLEAN
        /\ OutBuf' \in [Jobs -> -1 .. NumBlocks]
    BY <2>1, <2>2
  <2>. QED BY <1>0, <1>1, <2>3, <2>4, <2>5, SMTT(60) DEF TypeOK
<1>31. ASSUME NEW j \in Jobs, SignalWriter(j)
       PROVE  TypeOK'
  BY <1>0, <1>1, <1>31 DEF SignalWriter, queues, buffers, caller, writer, GoTo, TypeOK
<1>32. ASSUME NEW j \in Jobs, End(j)
       PROVE  TypeOK'
  BY <1>0, <1>1, <1>32 DEF End, queues, caller, writer, GoTo, TypeOK
<1>33. CASE UNCHANGED vars
  BY <1>0, <1>1, <1>33 DEF vars, queues, buffers, events, caller, writer, TypeOK
<1>. QED
  BY <1>3, <1>4, <1>5, <1>6, <1>7, <1>8, <1>9, <1>10, <1>11, <1>12, <1>13, <1>14, <1>15,
     <1>16, <1>17, <1>18, <1>19, <1>20, <1>21, <1>22, <1>23, <1>24, <1>25, <1>26, <1>27,
     <1>28, <1>29, <1>30, <1>31, <1>32, <1>33
  DEF Next, Caller, Writer, Thread

\* A job passes from one owner to the next.
LEMMA OwnedKept ==
  ASSUME IInv, [Next]_vars
  PROVE  Owned'
<1>1. TypeOK /\ Owned /\ Lent /\ Lifecycle /\ Stopping
  BY DEF IInv
<1>2. /\ FreeJobs \in Queues /\ WriterJobs \in Queues
      /\ job \in Jobs \union {Null} /\ wjob \in Jobs \union {Null}
      /\ StartOperation \in [Jobs -> BOOLEAN] /\ OperationFinished \in [Jobs -> BOOLEAN]
      /\ Finished \in [Jobs -> BOOLEAN] /\ InSize \in [Jobs -> BOOLEAN]
      /\ allocated \in [Jobs -> BOOLEAN] /\ errcode \in BOOLEAN
      /\ tpc \in [Jobs -> {"none", "idle", "started", "slot", "process", "signal",
                           "done", "ended"}]
      /\ i \in Nat \ {0} /\ Null \notin Jobs /\ NumThreads \in Nat
      /\ \A j \in Jobs : j \in Int
      /\ \A n \in Int : n \in Jobs <=> n >= 1 /\ n <= NumThreads
  BY <1>1, Typed
<1>3. ASSUME UNCHANGED <<FreeJobs, WriterJobs, cpc, job, wpc, wjob>>
      PROVE  Owned'
  BY <1>1, <1>2, <1>3 DEF Owned
<1>4. CASE CreateJob
  BY <1>1, <1>2, <1>4, CreateJobQueue DEF CreateJob, events, writer, Grown, Owned, Lifecycle
<1>5. CASE JobsCreated
  BY <1>1, <1>2, <1>5 DEF JobsCreated, queues, buffers, events, Owned, Lifecycle
<1>6. CASE ReadSign
  BY <1>1, <1>2, <1>6 DEF ReadSign, queues, buffers, events, writer, LeaveCycle, Owned
<1>7. CASE AcquireJob
  BY <1>1, <1>2, <1>7, AcquireJobQueue
  DEF AcquireJob, buffers, events, writer, Shrunk, Owned
<1>8. CASE WakeCaller
  BY <1>1, <1>2, <1>8 DEF WakeCaller, queues, buffers, events, writer, Owned
<1>9. CASE ReadBlock
  BY <1>1, <1>2, <1>9 DEF ReadBlock, queues, events, writer, Owned
<1>10. CASE ReadNothing
  BY <1>1, <1>2, <1>10 DEF ReadNothing, queues, events, writer, LeaveCycle, Owned
<1>11. CASE ReadBroken
  BY <1>1, <1>2, <1>11 DEF ReadBroken, queues, events, writer, LeaveCycle, Owned
<1>12. CASE QueueJob
  BY <1>1, <1>2, <1>12, QueueJobQueue DEF QueueJob, buffers, events, writer, Grown, Owned
<1>13. CASE StartJob
  BY <1>1, <1>2, <1>13 DEF StartJob, queues, buffers, writer, Owned
<1>14. CASE QueueNull
  BY <1>1, <1>2, <1>14, QueueNullQueue DEF QueueNull, buffers, events, writer, Grown, Owned
<1>15. CASE AwaitWriter
  BY <1>1, <1>2, <1>15 DEF AwaitWriter, queues, buffers, events, Owned
<1>16. CASE ClearSize
  BY <1>1, <1>2, <1>16 DEF ClearSize, queues, events, writer, Owned
<1>17. CASE StopThread
  BY <1>1, <1>2, <1>17 DEF StopThread, queues, buffers, writer, Owned
<1>18. CASE JoinThread
  BY <1>1, <1>2, <1>18 DEF JoinThread, queues, buffers, writer, Owned
<1>19. CASE Return
  BY <1>1, <1>2, <1>19 DEF Return, queues, buffers, events, writer, Owned
<1>20. CASE GetJob
  BY <1>1, <1>2, <1>20, GetJobQueue DEF GetJob, buffers, events, caller, Shrunk, Owned
<1>21. CASE WakeWriter
  BY <1>1, <1>2, <1>21 DEF WakeWriter, queues, buffers, events, caller, Owned
<1>22. CASE AwaitJob
  BY <1>1, <1>2, <1>22 DEF AwaitJob, queues, buffers, caller, Owned
<1>23. CASE WriteBlock
  BY <1>1, <1>2, <1>23 DEF WriteBlock, queues, buffers, events, caller, Owned
<1>24. CASE WriteFails
  BY <1>1, <1>2, <1>24 DEF WriteFails, queues, buffers, events, caller, Owned
<1>25. CASE AfterWrite
  BY <1>1, <1>2, <1>25 DEF AfterWrite, queues, events, caller, Owned
<1>26. CASE FreeJob
  <2>1. /\ wpc = "free" /\ wjob # Null
        /\ cpc \in {"read", "queue", "start"} => job # wjob
    BY <1>1, <1>2, <1>26 DEF FreeJob, Owned, Lent, Awaited
  <2>. QED
    BY <1>1, <1>2, <1>26, <2>1, FreeJobQueue DEF FreeJob, caller, Grown, Owned
<1>27. CASE EndWriter
  BY <1>1, <1>2, <1>27 DEF EndWriter, queues, buffers, events, caller, Owned
<1>28. ASSUME NEW j \in Jobs, Start(j) \/ TestSize(j) \/ TakeSlot(j) \/ Process(j)
                                \/ SignalWriter(j) \/ End(j)
       PROVE  Owned'
  BY <1>3, <1>28
  DEF Start, queues, buffers, caller, writer, GoTo, TestSize, events, TakeSlot, Process,
      SignalWriter, End
<1>29. CASE UNCHANGED vars
  BY <1>3, <1>29 DEF vars, queues, buffers, events, caller, writer
<1>. QED
  BY <1>4, <1>5, <1>6, <1>7, <1>8, <1>9, <1>10, <1>11, <1>12, <1>13, <1>14, <1>15, <1>16,
     <1>17, <1>18, <1>19, <1>20, <1>21, <1>22, <1>23, <1>24, <1>25, <1>26, <1>27, <1>28,
     <1>29
  DEF Next, Caller, Writer, Thread

\* A job comes back from its thread once, and then it is ready to be written.
LEMMA LentKept ==
  ASSUME IInv, [Next]_vars
  PROVE  Lent'
<1>1. TypeOK /\ Owned /\ Lent /\ Lifecycle /\ Stopping
  BY DEF IInv
<1>2. /\ FreeJobs \in Queues /\ WriterJobs \in Queues
      /\ job \in Jobs \union {Null} /\ wjob \in Jobs \union {Null}
      /\ StartOperation \in [Jobs -> BOOLEAN] /\ OperationFinished \in [Jobs -> BOOLEAN]
      /\ Finished \in [Jobs -> BOOLEAN] /\ InSize \in [Jobs -> BOOLEAN]
      /\ allocated \in [Jobs -> BOOLEAN] /\ errcode \in BOOLEAN
      /\ tpc \in [Jobs -> {"none", "idle", "started", "slot", "process", "signal",
                           "done", "ended"}]
      /\ i \in Nat \ {0} /\ Null \notin Jobs /\ NumThreads \in Nat
      /\ \A j \in Jobs : j \in Int
      /\ \A n \in Int : n \in Jobs <=> n >= 1 /\ n <= NumThreads
  BY <1>1, Typed
<1>3. CASE CreateJob
  BY <1>1, <1>2, <1>3, CreateJobQueue
  DEF CreateJob, events, writer, Grown, Lent, Awaited, Working, Asked, Begun, Busy, Closing
<1>4. CASE JobsCreated
  BY <1>1, <1>2, <1>4
  DEF JobsCreated, queues, buffers, events, Lent, Awaited, Working, Asked, Begun, Busy,
      Closing, Lifecycle
<1>5. CASE ReadSign
  BY <1>1, <1>2, <1>5
  DEF ReadSign, queues, buffers, events, writer, LeaveCycle, Lent, Awaited, Working, Asked,
      Begun, Busy, Closing
<1>6. CASE AcquireJob
  BY <1>1, <1>2, <1>6, AcquireJobQueue
  DEF AcquireJob, buffers, events, writer, Shrunk, Lent, Awaited, Working, Asked, Begun,
      Busy, Closing
<1>7. CASE WakeCaller
  BY <1>1, <1>2, <1>7
  DEF WakeCaller, queues, buffers, events, writer, Lent, Awaited, Working, Asked, Begun,
      Busy, Closing
<1>8. CASE ReadBlock
  <2>1. /\ job \in Jobs /\ job \notin Awaited /\ ~Working(job)
    BY <1>1, <1>2, <1>8 DEF ReadBlock, Owned, Lent, Awaited
  <2>. QED
    BY <1>1, <1>2, <1>8, <2>1
    DEF ReadBlock, queues, events, writer, Lent, Awaited, Working, Asked, Begun, Busy,
        Closing
<1>9. CASE ReadNothing
  <2>1. /\ job \in Jobs /\ job \notin Awaited /\ ~Working(job)
    BY <1>1, <1>2, <1>9 DEF ReadNothing, Owned, Lent, Awaited
  <2>. QED
    BY <1>1, <1>2, <1>9, <2>1
    DEF ReadNothing, queues, events, writer, LeaveCycle, Lent, Awaited, Working, Asked,
        Begun, Busy, Closing
<1>10. CASE ReadBroken
  <2>1. /\ job \in Jobs /\ job \notin Awaited /\ ~Working(job)
    BY <1>1, <1>2, <1>10 DEF ReadBroken, Owned, Lent, Awaited
  <2>. QED
    BY <1>1, <1>2, <1>10, <2>1
    DEF ReadBroken, queues, events, writer, LeaveCycle, Lent, Awaited, Working, Asked,
        Begun, Busy, Closing
<1>11. CASE QueueJob
  <2>1. /\ job \in Jobs /\ job \notin Awaited /\ ~Working(job)
    BY <1>1, <1>2, <1>11 DEF QueueJob, Owned, Lent, Awaited
  <2>2. Awaited' = Awaited \union {job}
    BY <1>1, <1>2, <1>11, <2>1, QueueJobQueue DEF QueueJob, writer, Grown, Awaited
  <2>. QED
    BY <1>1, <1>2, <1>11, <2>1, <2>2
    DEF QueueJob, buffers, events, Lent, Working, Asked, Begun, Busy, Closing
<1>12. CASE StartJob
  BY <1>1, <1>2, <1>12
  DEF StartJob, queues, buffers, writer, Lent, Awaited, Working, Asked, Begun, Busy, Closing
<1>13. CASE QueueNull
  BY <1>1, <1>2, <1>13, QueueNullQueue
  DEF QueueNull, buffers, events, writer, Grown, Lent, Awaited, Working, Asked, Begun, Busy,
      Closing
<1>14. CASE AwaitWriter
  BY <1>1, <1>2, <1>14
  DEF AwaitWriter, queues, buffers, events, Lent, Awaited, Working, Asked, Begun, Busy,
      Closing
<1>15. CASE ClearSize
  BY <1>1, <1>2, <1>15
  DEF ClearSize, queues, events, writer, Lent, Awaited, Working, Asked, Begun, Busy, Closing
<1>16. CASE StopThread
  BY <1>1, <1>2, <1>16
  DEF StopThread, queues, buffers, writer, Lent, Awaited, Working, Asked, Begun, Busy,
      Closing
<1>17. CASE JoinThread
  BY <1>1, <1>2, <1>17
  DEF JoinThread, queues, buffers, writer, Lent, Awaited, Working, Asked, Begun, Busy,
      Closing
<1>18. CASE Return
  BY <1>1, <1>2, <1>18
  DEF Return, queues, buffers, events, writer, Lent, Awaited, Working, Asked, Begun, Busy,
      Closing
<1>19. CASE GetJob
  BY <1>1, <1>19, JobTaken
  DEF GetJob, buffers, events, caller, Lent, Working, Asked, Begun, Busy, Closing
<1>20. CASE WakeWriter
  BY <1>1, <1>2, <1>20
  DEF WakeWriter, queues, buffers, events, caller, Lent, Awaited, Working, Asked, Begun,
      Busy, Closing
<1>21. CASE AwaitJob
  BY <1>1, <1>2, <1>21
  DEF AwaitJob, queues, buffers, caller, Lent, Awaited, Working, Asked, Begun, Busy, Closing
<1>22. CASE WriteBlock
  BY <1>1, <1>2, <1>22
  DEF WriteBlock, queues, buffers, events, caller, Lent, Awaited, Working, Asked, Begun,
      Busy, Closing
<1>23. CASE WriteFails
  BY <1>1, <1>2, <1>23
  DEF WriteFails, queues, buffers, events, caller, Lent, Awaited, Working, Asked, Begun,
      Busy, Closing
<1>24. CASE AfterWrite
  BY <1>1, <1>2, <1>24
  DEF AfterWrite, queues, events, caller, Lent, Awaited, Working, Asked, Begun, Busy,
      Closing
<1>25. CASE FreeJob
  BY <1>1, <1>2, <1>25, FreeJobQueue
  DEF FreeJob, buffers, events, caller, Grown, Lent, Awaited, Working, Asked, Begun, Busy,
      Closing
<1>26. CASE EndWriter
  BY <1>1, <1>2, <1>26
  DEF EndWriter, queues, buffers, events, caller, Lent, Awaited, Working, Asked, Begun,
      Busy, Closing
<1>27. ASSUME NEW j \in Jobs, Start(j)
       PROVE  Lent'
  BY <1>1, <1>2, <1>27
  DEF Start, queues, buffers, caller, writer, GoTo, Lent, Awaited, Working, Asked, Begun,
      Busy, Closing
<1>28. ASSUME NEW j \in Jobs, TestSize(j)
       PROVE  Lent'
  BY <1>1, <1>2, <1>28
  DEF TestSize, queues, buffers, events, caller, writer, GoTo, Lent, Awaited, Working,
      Asked, Begun, Busy, Closing
<1>29. ASSUME NEW j \in Jobs, TakeSlot(j)
       PROVE  Lent'
  BY <1>1, <1>2, <1>29
  DEF TakeSlot, queues, buffers, events, caller, writer, GoTo, Lent, Awaited, Working,
      Asked, Begun, Busy, Closing
<1>30. ASSUME NEW j \in Jobs, Process(j)
       PROVE  Lent'
  BY <1>1, <1>2, <1>30
  DEF Process, queues, events, caller, writer, GoTo, Lent, Awaited, Working, Asked, Begun,
      Busy, Closing
<1>31. ASSUME NEW j \in Jobs, SignalWriter(j)
       PROVE  Lent'
  BY <1>1, <1>2, <1>31
  DEF SignalWriter, queues, buffers, caller, writer, GoTo, Lent, Awaited, Working, Asked,
      Begun, Busy, Closing
<1>32. ASSUME NEW j \in Jobs, End(j)
       PROVE  Lent'
  BY <1>1, <1>2, <1>32
  DEF End, queues, caller, writer, GoTo, Lent, Awaited, Working, Asked, Begun, Busy, Closing
<1>33. CASE UNCHANGED vars
  BY <1>1, <1>2, <1>33
  DEF vars, queues, buffers, events, caller, writer, Lent, Awaited, Working, Asked, Begun,
      Busy, Closing
<1>. QED
  BY <1>3, <1>4, <1>5, <1>6, <1>7, <1>8, <1>9, <1>10, <1>11, <1>12, <1>13, <1>14, <1>15,
     <1>16, <1>17, <1>18, <1>19, <1>20, <1>21, <1>22, <1>23, <1>24, <1>25, <1>26, <1>27,
     <1>28, <1>29, <1>30, <1>31, <1>32, <1>33
  DEF Next, Caller, Writer, Thread

\* The threads end when they are told to.
LEMMA LifecycleKept ==
  ASSUME IInv, [Next]_vars
  PROVE  Lifecycle'
<1>1. TypeOK /\ Owned /\ Lent /\ Lifecycle /\ Stopping
  BY DEF IInv
<1>2. /\ FreeJobs \in Queues /\ WriterJobs \in Queues
      /\ job \in Jobs \union {Null} /\ wjob \in Jobs \union {Null}
      /\ StartOperation \in [Jobs -> BOOLEAN] /\ OperationFinished \in [Jobs -> BOOLEAN]
      /\ Finished \in [Jobs -> BOOLEAN] /\ InSize \in [Jobs -> BOOLEAN]
      /\ allocated \in [Jobs -> BOOLEAN] /\ errcode \in BOOLEAN
      /\ tpc \in [Jobs -> {"none", "idle", "started", "slot", "process", "signal",
                           "done", "ended"}]
      /\ i \in Nat \ {0} /\ Null \notin Jobs /\ NumThreads \in Nat
      /\ \A j \in Jobs : j \in Int
      /\ \A n \in Int : n \in Jobs <=> n >= 1 /\ n <= NumThreads
  BY <1>1, Typed
<1>3. CASE CreateJob
  <2>1. /\ i \in Jobs /\ i' = i + 1 /\ cpc = "create"
        /\ UNCHANGED <<cpc, job, wpc, wjob, WriterJobs, Finished>>
        /\ tpc' = tpc \/ tpc' = [tpc EXCEPT ![i] = "idle"]
    BY <1>1, <1>3, CreateJobQueue DEF CreateJob, events, writer
  <2>2. /\ FreeJobs' = FreeJobs
           \/ Elements(FreeJobs') = Elements(FreeJobs) \union {i}
        /\ tpc' = tpc => FreeJobs' = FreeJobs
    <3>1. tpc[i] = "none"
      BY <1>1, <1>2, <2>1 DEF Lifecycle
    <3>. QED BY <1>1, <1>2, <1>3, <2>1, <3>1, CreateJobQueue DEF CreateJob, Grown
  <2>. QED BY <1>1, <1>2, <2>1, <2>2 DEF Lifecycle, Closing
<1>4. CASE JobsCreated
  BY <1>1, <1>2, <1>4
  DEF JobsCreated, queues, buffers, events, Lifecycle, Closing, Owned, Stopping
<1>5. CASE ReadSign
  BY <1>1, <1>2, <1>5
  DEF ReadSign, queues, buffers, events, writer, LeaveCycle, Lifecycle, Closing
<1>6. CASE AcquireJob
  BY <1>1, <1>2, <1>6, AcquireJobQueue
  DEF AcquireJob, buffers, events, writer, Shrunk, Lifecycle, Closing
<1>7. CASE WakeCaller
  BY <1>1, <1>2, <1>7 DEF WakeCaller, queues, buffers, events, writer, Lifecycle, Closing
<1>8. CASE ReadBlock
  BY <1>1, <1>2, <1>8 DEF ReadBlock, queues, events, writer, Lifecycle, Closing
<1>9. CASE ReadNothing
  BY <1>1, <1>2, <1>9
  DEF ReadNothing, queues, events, writer, LeaveCycle, Lifecycle, Closing
<1>10. CASE ReadBroken
  BY <1>1, <1>2, <1>10
  DEF ReadBroken, queues, events, writer, LeaveCycle, Lifecycle, Closing
<1>11. CASE QueueJob
  BY <1>1, <1>2, <1>11, QueueJobQueue
  DEF QueueJob, buffers, events, writer, Grown, Lifecycle, Closing
<1>12. CASE StartJob
  BY <1>1, <1>2, <1>12 DEF StartJob, queues, buffers, writer, Lifecycle, Closing
<1>13. CASE QueueNull
  BY <1>1, <1>2, <1>13, QueueNullQueue
  DEF QueueNull, buffers, events, writer, Grown, Lifecycle, Closing
<1>14. CASE AwaitWriter
  BY <1>1, <1>2, <1>14 DEF AwaitWriter, queues, buffers, events, Lifecycle, Closing, Owned
<1>15. CASE ClearSize
  BY <1>1, <1>2, <1>15 DEF ClearSize, queues, events, writer, Lifecycle, Closing
<1>16. CASE StopThread
  BY <1>1, <1>2, <1>16 DEF StopThread, queues, buffers, writer, Lifecycle, Closing
<1>17. CASE JoinThread
  BY <1>1, <1>2, <1>17 DEF JoinThread, queues, buffers, writer, Lifecycle, Closing
<1>18. CASE Return
  BY <1>1, <1>2, <1>18 DEF Return, queues, buffers, events, writer, Lifecycle, Closing
<1>19. CASE GetJob
  BY <1>1, <1>2, <1>19, GetJobQueue
  DEF GetJob, buffers, events, caller, Shrunk, Lifecycle, Closing
<1>20. CASE WakeWriter
  BY <1>1, <1>2, <1>20 DEF WakeWriter, queues, buffers, events, caller, Lifecycle, Closing
<1>21. CASE AwaitJob
  BY <1>1, <1>2, <1>21 DEF AwaitJob, queues, buffers, caller, Lifecycle, Closing
<1>22. CASE WriteBlock
  BY <1>1, <1>2, <1>22 DEF WriteBlock, queues, buffers, events, caller, Lifecycle, Closing
<1>23. CASE WriteFails
  BY <1>1, <1>2, <1>23 DEF WriteFails, queues, buffers, events, caller, Lifecycle, Closing
<1>24. CASE AfterWrite
  BY <1>1, <1>2, <1>24 DEF AfterWrite, queues, events, caller, Lifecycle, Closing
<1>25. CASE FreeJob
  BY <1>1, <1>2, <1>25, FreeJobQueue
  DEF FreeJob, buffers, events, caller, Grown, Lifecycle, Closing
<1>26. CASE EndWriter
  BY <1>1, <1>2, <1>26 DEF EndWriter, queues, buffers, events, caller, Lifecycle, Closing
<1>27. ASSUME NEW j \in Jobs, Start(j)
       PROVE  Lifecycle'
  BY <1>1, <1>2, <1>27 DEF Start, queues, buffers, caller, writer, GoTo, Lifecycle, Closing
<1>28. ASSUME NEW j \in Jobs, TestSize(j)
       PROVE  Lifecycle'
  BY <1>1, <1>2, <1>28
  DEF TestSize, queues, buffers, events, caller, writer, GoTo, Lifecycle, Closing, Lent
<1>29. ASSUME NEW j \in Jobs, TakeSlot(j)
       PROVE  Lifecycle'
  BY <1>1, <1>2, <1>29
  DEF TakeSlot, queues, buffers, events, caller, writer, GoTo, Lifecycle, Closing
<1>30. ASSUME NEW j \in Jobs, Process(j)
       PROVE  Lifecycle'
  BY <1>1, <1>2, <1>30 DEF Process, queues, events, caller, writer, GoTo, Lifecycle, Closing
<1>31. ASSUME NEW j \in Jobs, SignalWriter(j)
       PROVE  Lifecycle'
  BY <1>1, <1>2, <1>31
  DEF SignalWriter, queues, buffers, caller, writer, GoTo, Lifecycle, Closing
<1>32. ASSUME NEW j \in Jobs, End(j)
       PROVE  Lifecycle'
  <2>1. /\ tpc[j] = "done" /\ tpc' = [tpc EXCEPT ![j] = "ended"]
        /\ Finished' = [Finished EXCEPT ![j] = TRUE]
        /\ UNCHANGED <<cpc, job, i, wpc, wjob, FreeJobs, WriterJobs>>
    BY <1>32 DEF End, GoTo, queues, caller, writer
  <2>. QED BY <1>1, <1>2, <2>1 DEF Lifecycle, Closing
<1>33. CASE UNCHANGED vars
  BY <1>1, <1>2, <1>33 DEF vars, queues, buffers, events, caller, writer, Lifecycle, Closing
<1>. QED
  BY <1>3, <1>4, <1>5, <1>6, <1>7, <1>8, <1>9, <1>10, <1>11, <1>12, <1>13, <1>14, <1>15,
     <1>16, <1>17, <1>18, <1>19, <1>20, <1>21, <1>22, <1>23, <1>24, <1>25, <1>26, <1>27,
     <1>28, <1>29, <1>30, <1>31, <1>32, <1>33
  DEF Next, Caller, Writer, Thread

\* Buffers come and go with the threads or with the blocks.
LEMMA MemoryKept ==
  ASSUME IInv, [Next]_vars
  PROVE  Memory'
<1>1. TypeOK /\ Owned /\ Lent /\ Lifecycle /\ Stopping /\ Memory
  BY DEF IInv
<1>2. /\ FreeJobs \in Queues /\ WriterJobs \in Queues
      /\ job \in Jobs \union {Null} /\ wjob \in Jobs \union {Null}
      /\ StartOperation \in [Jobs -> BOOLEAN] /\ OperationFinished \in [Jobs -> BOOLEAN]
      /\ Finished \in [Jobs -> BOOLEAN] /\ InSize \in [Jobs -> BOOLEAN]
      /\ allocated \in [Jobs -> BOOLEAN] /\ errcode \in BOOLEAN
      /\ tpc \in [Jobs -> {"none", "idle", "started", "slot", "process", "signal",
                           "done", "ended"}]
      /\ i \in Nat \ {0} /\ Null \notin Jobs /\ NumThreads \in Nat
      /\ \A j \in Jobs : j \in Int
      /\ \A n \in Int : n \in Jobs <=> n >= 1 /\ n <= NumThreads
  BY <1>1, Typed
<1>0. direction' = direction
  BY DEF Next, Caller, Writer, Thread, vars
<1>3. CASE CreateJob
  <2>1. /\ i \in Jobs /\ tpc[i] = "none" /\ i \notin Elements(WriterJobs) \union {wjob}
        /\ cpc = "create" /\ wpc = "none"
    BY <1>1, <1>2, <1>3, CreateJobQueue DEF CreateJob, Lifecycle
  <2>2. /\ \/ UNCHANGED <<tpc, allocated>>
           \/ /\ tpc' = [tpc EXCEPT ![i] = "idle"]
              /\ allocated' = [allocated EXCEPT ![i] = Compressing]
        /\ UNCHANGED <<WriterJobs, cpc, wpc, wjob, errcode, job>>
    BY <1>3 DEF CreateJob, writer
  <2>3. Awaited' = Awaited /\ Compressing' = Compressing /\ i \notin Awaited
    BY <1>0, <2>1, <2>2 DEF Awaited, Compressing
  <2>4. CASE Compressing
    BY <1>1, <1>2, <2>1, <2>2, <2>3, <2>4 DEF Memory
  <2>5. CASE ~Compressing
    BY <1>1, <1>2, <2>1, <2>2, <2>3, <2>5 DEF Memory
  <2>. QED BY <2>4, <2>5
<1>4. CASE JobsCreated
  <2>1. wpc = "none" /\ cpc = "create" /\ cpc' # "queue" /\ (errcode => errcode')
    BY <1>1, <1>4 DEF JobsCreated, Lifecycle
  <2>. QED
    BY <1>0, <1>1, <1>2, <1>4, <2>1
    DEF JobsCreated, queues, buffers, events, Memory, Compressing, Awaited
<1>5. CASE ReadSign
  BY <1>0, <1>1, <1>2, <1>5
  DEF ReadSign, queues, buffers, events, writer, LeaveCycle, Memory, Compressing, Awaited
<1>6. CASE AcquireJob
  BY <1>0, <1>1, <1>2, <1>6, AcquireJobQueue
  DEF AcquireJob, buffers, events, writer, Shrunk, Memory, Compressing, Awaited
<1>7. CASE WakeCaller
  BY <1>0, <1>1, <1>2, <1>7
  DEF WakeCaller, queues, buffers, events, writer, Memory, Compressing, Awaited
<1>8. CASE ReadBlock
  <2>1. /\ job \in Jobs /\ tpc[job] \notin {"none", "ended"}
    BY <1>1, <1>2, <1>8 DEF ReadBlock, Owned, Lifecycle, Closing
  <2>. QED
    BY <1>0, <1>1, <1>2, <1>8, <2>1
    DEF ReadBlock, queues, events, writer, Memory, Compressing, Awaited
<1>9. CASE ReadNothing
  BY <1>0, <1>1, <1>2, <1>9
  DEF ReadNothing, queues, events, writer, LeaveCycle, Memory, Compressing, Awaited
<1>10. CASE ReadBroken
  <2>1. /\ job \in Jobs /\ job \notin Awaited /\ job # wjob /\ errcode' = TRUE
    BY <1>1, <1>2, <1>10 DEF ReadBroken, LeaveCycle, Owned, Awaited
  <2>. QED
    BY <1>0, <1>1, <1>2, <1>10, <2>1
    DEF ReadBroken, queues, events, writer, LeaveCycle, Memory, Compressing, Awaited
<1>11. CASE QueueJob
  BY <1>0, <1>1, <1>2, <1>11, QueueJobQueue
  DEF QueueJob, buffers, events, writer, Grown, Memory, Compressing, Awaited
<1>12. CASE StartJob
  BY <1>0, <1>1, <1>2, <1>12
  DEF StartJob, queues, buffers, writer, Memory, Compressing, Awaited
<1>13. CASE QueueNull
  BY <1>0, <1>1, <1>2, <1>13, QueueNullQueue
  DEF QueueNull, buffers, events, writer, Grown, Memory, Compressing, Awaited
<1>14. CASE AwaitWriter
  BY <1>0, <1>1, <1>2, <1>14
  DEF AwaitWriter, queues, buffers, events, Memory, Compressing, Awaited
<1>15. CASE ClearSize
  BY <1>0, <1>1, <1>2, <1>15
  DEF ClearSize, queues, events, writer, Memory, Compressing, Awaited
<1>16. CASE StopThread
  BY <1>0, <1>1, <1>2, <1>16
  DEF StopThread, queues, buffers, writer, Memory, Compressing, Awaited
<1>17. CASE JoinThread
  BY <1>0, <1>1, <1>2, <1>17
  DEF JoinThread, queues, buffers, writer, Memory, Compressing, Awaited
<1>18. CASE Return
  BY <1>0, <1>1, <1>2, <1>18
  DEF Return, queues, buffers, events, writer, Memory, Compressing, Awaited
<1>19. CASE GetJob
  <2>1. /\ Awaited' = Awaited /\ wpc = "looking" /\ wpc' \notin {"write", "written"}
        /\ UNCHANGED <<allocated, tpc, cpc, job, errcode>>
    BY <1>1, <1>19, JobTaken DEF GetJob, buffers, caller
  <2>. QED BY <1>0, <1>1, <2>1 DEF Memory, Compressing
<1>20. CASE WakeWriter
  BY <1>0, <1>1, <1>2, <1>20
  DEF WakeWriter, queues, buffers, events, caller, Memory, Compressing, Awaited
<1>21. CASE AwaitJob
  BY <1>0, <1>1, <1>2, <1>21
  DEF AwaitJob, queues, buffers, caller, Memory, Compressing, Awaited
<1>22. CASE WriteBlock
  BY <1>0, <1>1, <1>2, <1>22
  DEF WriteBlock, queues, buffers, events, caller, Memory, Compressing, Awaited
<1>23. CASE WriteFails
  BY <1>0, <1>1, <1>2, <1>23
  DEF WriteFails, queues, buffers, events, caller, Memory, Compressing, Awaited
<1>24. CASE AfterWrite
  <2>1. /\ wjob \in Jobs /\ wjob \notin Elements(WriterJobs) /\ wpc = "written"
        /\ cpc = "queue" => job # wjob
    BY <1>1, <1>2, <1>24 DEF AfterWrite, Owned
  <2>. QED
    BY <1>0, <1>1, <1>2, <1>24, <2>1
    DEF AfterWrite, queues, events, caller, Memory, Compressing, Awaited
<1>25. CASE FreeJob
  BY <1>0, <1>1, <1>2, <1>25, FreeJobQueue
  DEF FreeJob, buffers, events, caller, Grown, Memory, Compressing, Awaited
<1>26. CASE EndWriter
  BY <1>0, <1>1, <1>2, <1>26
  DEF EndWriter, queues, buffers, events, caller, Memory, Compressing, Awaited
<1>27. ASSUME NEW j \in Jobs, Start(j)
       PROVE  Memory'
  BY <1>0, <1>1, <1>2, <1>27
  DEF Start, queues, buffers, caller, writer, GoTo, Memory, Compressing, Awaited
<1>28. ASSUME NEW j \in Jobs, TestSize(j)
       PROVE  Memory'
  BY <1>0, <1>1, <1>2, <1>28
  DEF TestSize, queues, buffers, events, caller, writer, GoTo, Memory, Compressing, Awaited
<1>29. ASSUME NEW j \in Jobs, TakeSlot(j)
       PROVE  Memory'
  BY <1>0, <1>1, <1>2, <1>29
  DEF TakeSlot, queues, buffers, events, caller, writer, GoTo, Memory, Compressing, Awaited
<1>30. ASSUME NEW j \in Jobs, Process(j)
       PROVE  Memory'
  BY <1>0, <1>1, <1>2, <1>30
  DEF Process, queues, events, caller, writer, GoTo, Memory, Compressing, Awaited
<1>31. ASSUME NEW j \in Jobs, SignalWriter(j)
       PROVE  Memory'
  BY <1>0, <1>1, <1>2, <1>31
  DEF SignalWriter, queues, buffers, caller, writer, GoTo, Memory, Compressing, Awaited
<1>32. ASSUME NEW j \in Jobs, End(j)
       PROVE  Memory'
  BY <1>0, <1>1, <1>2, <1>32
  DEF End, queues, caller, writer, GoTo, Memory, Compressing, Awaited
<1>33. CASE UNCHANGED vars
  BY <1>0, <1>1, <1>2, <1>33
  DEF vars, queues, buffers, events, caller, writer, Memory, Compressing, Awaited
<1>. QED
  BY <1>3, <1>4, <1>5, <1>6, <1>7, <1>8, <1>9, <1>10, <1>11, <1>12, <1>13, <1>14, <1>15,
     <1>16, <1>17, <1>18, <1>19, <1>20, <1>21, <1>22, <1>23, <1>24, <1>25, <1>26, <1>27,
     <1>28, <1>29, <1>30, <1>31, <1>32, <1>33
  DEF Next, Caller, Writer, Thread

\* The null job is the last that the writer gets.
LEMMA StoppingKept ==
  ASSUME IInv, [Next]_vars
  PROVE  Stopping'
<1>1. TypeOK /\ Owned /\ Lent /\ Lifecycle /\ Stopping /\ Ordered
  BY DEF IInv
<1>2. /\ FreeJobs \in Queues /\ WriterJobs \in Queues
      /\ job \in Jobs \union {Null} /\ wjob \in Jobs \union {Null}
      /\ StartOperation \in [Jobs -> BOOLEAN] /\ OperationFinished \in [Jobs -> BOOLEAN]
      /\ Finished \in [Jobs -> BOOLEAN] /\ InSize \in [Jobs -> BOOLEAN]
      /\ allocated \in [Jobs -> BOOLEAN] /\ errcode \in BOOLEAN
      /\ tpc \in [Jobs -> {"none", "idle", "started", "slot", "process", "signal",
                           "done", "ended"}]
      /\ i \in Nat \ {0} /\ Null \notin Jobs /\ NumThreads \in Nat
      /\ \A j \in Jobs : j \in Int
      /\ \A n \in Int : n \in Jobs <=> n >= 1 /\ n <= NumThreads
  BY <1>1, Typed
<1>3. CASE CreateJob
  BY <1>1, <1>2, <1>3, CreateJobQueue
  DEF CreateJob, events, writer, Grown, Stopping, Closing, Ended
<1>4. CASE JobsCreated
  BY <1>1, <1>2, <1>4
  DEF JobsCreated, queues, buffers, events, Stopping, Closing, Ended, Lifecycle
<1>5. CASE ReadSign
  <2>1. next \in 1 .. NumBlocks + 1 /\ NumBlocks \in Nat
    BY <1>1, Written
  <2>2. /\ cpc = "sign" /\ cpc' \in {"acquire", "eof"}
        /\ \/ errcode' = TRUE
           \/ errcode' = errcode /\ (cpc' = "eof" => next > NumBlocks)
        /\ UNCHANGED <<WriterJobs, wpc, AllWritten, next, written>>
    BY <1>2, <1>5 DEF ReadSign, LeaveCycle, queues, writer
  <2>. QED BY <1>1, <2>1, <2>2 DEF Stopping, Closing, Ended
<1>6. CASE AcquireJob
  BY <1>1, <1>2, <1>6, AcquireJobQueue
  DEF AcquireJob, buffers, events, writer, Shrunk, Stopping, Closing, Ended
<1>7. CASE WakeCaller
  BY <1>1, <1>2, <1>7
  DEF WakeCaller, queues, buffers, events, writer, Stopping, Closing, Ended
<1>8. CASE ReadBlock
  BY <1>1, <1>2, <1>8 DEF ReadBlock, queues, events, writer, Stopping, Closing, Ended
<1>9. CASE ReadNothing
  <2>1. next \in 1 .. NumBlocks + 1 /\ NumBlocks \in Nat
    BY <1>1, Written
  <2>2. /\ cpc = "read" /\ cpc' = "eof"
        /\ errcode' = TRUE \/ (errcode' = errcode /\ next > NumBlocks)
        /\ UNCHANGED <<WriterJobs, wpc, AllWritten, next, written>>
    BY <1>2, <1>9 DEF ReadNothing, LeaveCycle, queues, writer
  <2>. QED BY <1>1, <2>1, <2>2 DEF Stopping, Closing, Ended
<1>10. CASE ReadBroken
  BY <1>1, <1>2, <1>10
  DEF ReadBroken, queues, events, writer, LeaveCycle, Stopping, Closing, Ended
<1>11. CASE QueueJob
  <2>1. /\ cpc = "queue" /\ cpc' = "start" /\ job # Null
        /\ UNCHANGED <<errcode, next, wpc, AllWritten, written>>
    BY <1>1, <1>11 DEF QueueJob, Owned, writer
  <2>2. wpc # "none" /\ ~Closing /\ ~(Ended /\ ~errcode)
    BY <1>1, <2>1 DEF Stopping, Closing
  <2>. QED BY <1>1, <1>2, <2>1, <2>2, <1>11, QueueJobQueue
           DEF Stopping, Closing, Ended, Grown
<1>12. CASE StartJob
  BY <1>1, <1>2, <1>12 DEF StartJob, queues, buffers, writer, Stopping, Closing, Ended
<1>13. CASE QueueNull
  <2>1. /\ cpc = "eof" /\ cpc' = "written"
        /\ UNCHANGED <<errcode, next, wpc, AllWritten, written>>
    BY <1>13 DEF QueueNull, caller, writer
  <2>2. wpc # "none" /\ ~Closing /\ ~(Ended /\ ~errcode)
    BY <1>1, <2>1 DEF Stopping, Closing
  <2>. QED BY <1>1, <1>2, <2>1, <2>2, <1>13, QueueNullQueue
           DEF Stopping, Closing, Ended, Grown
<1>14. CASE AwaitWriter
  BY <1>1, <1>2, <1>14 DEF AwaitWriter, queues, buffers, events, Stopping, Closing, Ended
<1>15. CASE ClearSize
  BY <1>1, <1>2, <1>15 DEF ClearSize, queues, events, writer, Stopping, Closing, Ended
<1>16. CASE StopThread
  BY <1>1, <1>2, <1>16 DEF StopThread, queues, buffers, writer, Stopping, Closing, Ended
<1>17. CASE JoinThread
  BY <1>1, <1>2, <1>17 DEF JoinThread, queues, buffers, writer, Stopping, Closing, Ended
<1>18. CASE Return
  BY <1>1, <1>2, <1>18 DEF Return, queues, buffers, events, writer, Stopping, Closing, Ended
<1>19. CASE GetJob
  <2>1. /\ wpc = "looking" /\ cpc' = cpc
        /\ UNCHANGED <<errcode, next, AllWritten, written>>
    BY <1>19 DEF GetJob, caller
  <2>2. ~Closing /\ ~Ended /\ cpc # "create"
    BY <1>1, <1>19, JobTaken
  <2>3. CASE WriterJobs.jobs = <<>>
    BY <1>1, <1>19, <2>1, <2>2, <2>3 DEF GetJob, Stopping, Closing, Ended
  <2>4. CASE WriterJobs.jobs # <<>> /\ wjob' # Null
    <3>1. wpc' = "await"
      BY <1>1, <1>19, <2>4, JobTaken
    <3>4. Shrunk(WriterJobs, WriterJobs') /\ wjob' = WriterJobs.jobs[1]
      BY <1>1, <1>19, <2>4, GetJobQueue DEF Shrunk
    <3>2. ASSUME NEW n \in DOMAIN WriterJobs'.jobs, WriterJobs'.jobs[n] = Null
          PROVE  n = Len(WriterJobs'.jobs) /\ cpc = "written"
      <4>1. n + 1 \in DOMAIN WriterJobs.jobs /\ WriterJobs.jobs[n + 1] = Null /\ n \in Int
        BY <3>2, <3>4 DEF Shrunk
      <4>2. n + 1 = Len(WriterJobs.jobs) /\ cpc = "written"
        BY <1>1, <2>2, <4>1 DEF Stopping
      <4>. QED BY <3>4, <4>1, <4>2 DEF Shrunk
    <3>3. cpc = "written" => WriterJobs'.jobs # <<>>
                             /\ WriterJobs'.jobs[Len(WriterJobs'.jobs)] = Null
      <4>1. cpc = "written" => WriterJobs.jobs[Len(WriterJobs.jobs)] = Null
        BY <1>1, <2>2 DEF Stopping
      <4>2. cpc = "written" => Len(WriterJobs.jobs) # 1
        BY <2>4, <3>4, <4>1
      <4>3. cpc = "written" => Len(WriterJobs'.jobs) \in DOMAIN WriterJobs'.jobs
        BY <3>4, <4>2 DEF Shrunk
      <4>. QED BY <3>4, <4>1, <4>2, <4>3 DEF Shrunk
    <3>. QED BY <1>1, <2>1, <2>2, <3>1, <3>2, <3>3 DEF Stopping, Closing, Ended
  <2>5. CASE WriterJobs.jobs # <<>> /\ wjob' = Null
    <3>1. wpc' = "ending" /\ Len(WriterJobs.jobs) = 1 /\ cpc = "written"
      BY <1>1, <1>2, <1>19, <2>2, <2>5, GetJobQueue DEF Shrunk, Stopping
    <3>2. WriterJobs'.jobs = <<>> /\ DOMAIN WriterJobs'.jobs = {}
      BY <1>1, <1>2, <1>19, <2>5, <3>1, GetJobQueue DEF Shrunk
    <3>3. ~errcode => Len(written) = NumBlocks
      BY <1>1, <2>1, <2>2, <3>1, Written DEF Stopping, Ordered, Passed, Queued, One
    <3>. QED BY <1>1, <2>1, <2>2, <3>1, <3>2, <3>3 DEF Stopping, Closing, Ended
  <2>. QED BY <2>3, <2>4, <2>5
<1>20. CASE WakeWriter
  BY <1>1, <1>2, <1>20
  DEF WakeWriter, queues, buffers, events, caller, Stopping, Closing, Ended
<1>21. CASE AwaitJob
  BY <1>1, <1>2, <1>21 DEF AwaitJob, queues, buffers, caller, Stopping, Closing, Ended
<1>22. CASE WriteBlock
  BY <1>1, <1>2, <1>22
  DEF WriteBlock, queues, buffers, events, caller, Stopping, Closing, Ended
<1>23. CASE WriteFails
  BY <1>1, <1>2, <1>23
  DEF WriteFails, queues, buffers, events, caller, Stopping, Closing, Ended
<1>24. CASE AfterWrite
  BY <1>1, <1>2, <1>24 DEF AfterWrite, queues, events, caller, Stopping, Closing, Ended
<1>25. CASE FreeJob
  BY <1>1, <1>2, <1>25, FreeJobQueue
  DEF FreeJob, buffers, events, caller, Grown, Stopping, Closing, Ended
<1>26. CASE EndWriter
  BY <1>1, <1>2, <1>26
  DEF EndWriter, queues, buffers, events, caller, Stopping, Closing, Ended
<1>27. ASSUME NEW j \in Jobs, Start(j)
       PROVE  Stopping'
  BY <1>1, <1>2, <1>27
  DEF Start, queues, buffers, caller, writer, GoTo, Stopping, Closing, Ended
<1>28. ASSUME NEW j \in Jobs, TestSize(j)
       PROVE  Stopping'
  BY <1>1, <1>2, <1>28
  DEF TestSize, queues, buffers, events, caller, writer, GoTo, Stopping, Closing, Ended
<1>29. ASSUME NEW j \in Jobs, TakeSlot(j)
       PROVE  Stopping'
  BY <1>1, <1>2, <1>29
  DEF TakeSlot, queues, buffers, events, caller, writer, GoTo, Stopping, Closing, Ended
<1>30. ASSUME NEW j \in Jobs, Process(j)
       PROVE  Stopping'
  BY <1>1, <1>2, <1>30
  DEF Process, queues, events, caller, writer, GoTo, Stopping, Closing, Ended
<1>31. ASSUME NEW j \in Jobs, SignalWriter(j)
       PROVE  Stopping'
  BY <1>1, <1>2, <1>31
  DEF SignalWriter, queues, buffers, caller, writer, GoTo, Stopping, Closing, Ended
<1>32. ASSUME NEW j \in Jobs, End(j)
       PROVE  Stopping'
  BY <1>1, <1>2, <1>32 DEF End, queues, caller, writer, GoTo, Stopping, Closing, Ended
<1>33. CASE UNCHANGED vars
  BY <1>1, <1>2, <1>33
  DEF vars, queues, buffers, events, caller, writer, Stopping, Closing, Ended
<1>. QED
  BY <1>3, <1>4, <1>5, <1>6, <1>7, <1>8, <1>9, <1>10, <1>11, <1>12, <1>13, <1>14, <1>15,
     <1>16, <1>17, <1>18, <1>19, <1>20, <1>21, <1>22, <1>23, <1>24, <1>25, <1>26, <1>27,
     <1>28, <1>29, <1>30, <1>31, <1>32, <1>33
  DEF Next, Caller, Writer, Thread

\* The blocks keep their order on their way through the jobs.
LEMMA OrderKept ==
  ASSUME IInv, [Next]_vars
  PROVE  Ordered'
<1>1. TypeOK /\ Owned /\ Lent /\ Lifecycle /\ Stopping /\ Ordered
  BY DEF IInv
<1>2. /\ FreeJobs \in Queues /\ WriterJobs \in Queues
      /\ job \in Jobs \union {Null} /\ wjob \in Jobs \union {Null}
      /\ StartOperation \in [Jobs -> BOOLEAN] /\ OperationFinished \in [Jobs -> BOOLEAN]
      /\ Finished \in [Jobs -> BOOLEAN] /\ InSize \in [Jobs -> BOOLEAN]
      /\ allocated \in [Jobs -> BOOLEAN] /\ errcode \in BOOLEAN
      /\ tpc \in [Jobs -> {"none", "idle", "started", "slot", "process", "signal",
                           "done", "ended"}]
      /\ i \in Nat \ {0} /\ Null \notin Jobs /\ NumThreads \in Nat
      /\ \A j \in Jobs : j \in Int
      /\ \A n \in Int : n \in Jobs <=> n >= 1 /\ n <= NumThreads
  BY <1>1, Typed
<1>0. /\ Len(written) \in Nat /\ next \in 1 .. NumBlocks + 1 /\ NumBlocks \in Nat
      /\ \A n \in DOMAIN WriterJobs.jobs : WriterJobs.jobs[n] \in Jobs \union {Null}
      /\ DOMAIN WriterJobs.jobs = 1 .. Len(WriterJobs.jobs) /\ Len(WriterJobs.jobs) \in Nat
      /\ One(TRUE) = 1 /\ One(FALSE) = 0
  <2>1. WriterJobs.jobs \in Seq(Jobs \union {Null})
    BY <1>2 DEF Queues
  <2>. QED BY <1>1, <2>1, Written, LenProperties DEF One
<1>3. ASSUME \A k \in Jobs : \A b : Carries(k, b) => Carries(k, b)',
            wpc = "write" => OutBuf'[wjob] = OutBuf[wjob],
            UNCHANGED <<WriterJobs, wpc, wjob, written, cpc, job, next>>
     PROVE  Ordered'
  <2>1. /\ wpc = "await" => wjob \in Jobs
        /\ cpc = "queue" => job \in Jobs
    BY <1>1, <1>2 DEF Owned
  <2>2. Ended' = Ended /\ Passed' = Passed /\ Queued' = Queued
    BY <1>3 DEF Ended, Passed, Queued
  <2>. SUFFICES ASSUME ~Ended
                PROVE  Ordered'
    BY <2>2 DEF Ordered
  <2>3. ASSUME NEW n \in DOMAIN WriterJobs.jobs, WriterJobs.jobs[n] # Null
        PROVE  Carries(WriterJobs.jobs[n], Passed + n)'
    <3>1. Carries(WriterJobs.jobs[n], Passed + n)
      BY <1>1, <2>3 DEF Ordered
    <3>. QED BY <1>0, <1>3, <2>2, <2>3, <3>1 DEF Carries
  <2>4. /\ wpc = "await" => Carries(wjob, Len(written) + 1)'
        /\ cpc = "queue" => Carries(job, next - 1)'
    BY <1>1, <1>3, <2>1 DEF Ordered, Carries
  <2>. QED BY <1>1, <1>3, <2>2, <2>3, <2>4 DEF Ordered
<1>4. CASE CreateJob
  <2>1. /\ UNCHANGED <<WriterJobs, wpc, wjob, written, cpc, job, next, InBuf, OutBuf>>
        /\ UNCHANGED OperationFinished
        /\ \A k \in Jobs : tpc'[k] = "signal" => tpc[k] = "signal"
    BY <1>2, <1>4 DEF CreateJob, events, writer
  <2>. QED BY <1>3, <2>1 DEF Carries
<1>5. CASE JobsCreated
  <2>1. /\ wpc = "none" /\ wpc' \in {"none", "looking"} /\ WriterJobs.jobs = <<>>
        /\ cpc = "create" /\ cpc' \notin {"queue", "written"}
        /\ UNCHANGED <<WriterJobs, written, next>>
    BY <1>1, <1>5 DEF JobsCreated, Lifecycle, Stopping, queues
  <2>2. ~Ended /\ DOMAIN WriterJobs.jobs = {}
    BY <2>1 DEF Ended
  <2>. QED BY <1>1, <2>1, <2>2 DEF Ordered, Passed, Queued, One
<1>6. CASE ReadSign
  BY <1>0, <1>1, <1>2, <1>6
  DEF ReadSign, queues, buffers, events, writer, LeaveCycle, Ordered, Ended, Carries,
      Passed, Queued, One
<1>7. CASE AcquireJob
  BY <1>0, <1>1, <1>2, <1>7, AcquireJobQueue
  DEF AcquireJob, buffers, events, writer, Shrunk, Ordered, Ended, Carries, Passed, Queued,
      One
<1>8. CASE WakeCaller
  BY <1>0, <1>1, <1>2, <1>8
  DEF WakeCaller, queues, buffers, events, writer, Ordered, Ended, Carries, Passed, Queued,
      One
<1>9. CASE ReadBlock
  <2>1. /\ cpc = "read" /\ cpc' = "queue" /\ next' = next + 1
        /\ InBuf' = [InBuf EXCEPT ![job] = next]
        /\ UNCHANGED <<WriterJobs, OutBuf, OperationFinished, tpc, job, wpc, wjob, written>>
    BY <1>9 DEF ReadBlock, queues, events, writer
  <2>2. job \in Jobs /\ job \notin Awaited /\ job # wjob
    BY <1>1, <1>2, <2>1 DEF Owned, Awaited
  <2>3. tpc[job] # "signal" /\ ~OperationFinished[job] /\ InBuf'[job] = next
    BY <1>1, <2>1, <2>2 DEF Lent, Working, Busy, TypeOK
  <2>4. ASSUME NEW k \in Jobs, NEW b, k # job, Carries(k, b)
        PROVE  Carries(k, b)'
    BY <1>1, <2>1, <2>4 DEF Carries, TypeOK
  <2>5. \A n \in DOMAIN WriterJobs.jobs : WriterJobs.jobs[n] # job
    BY <2>2 DEF Awaited, Elements
  <2>. SUFFICES ASSUME ~Ended'
                PROVE  Ordered'
    BY DEF Ordered
  <2>6. /\ ~Ended /\ Passed' = Passed /\ Passed \in Int
        /\ Queued' = Queued + 1 /\ Queued \in Int
    BY <1>0, <2>1 DEF Ended, Passed, Queued, One
  <2>7. ASSUME NEW n \in DOMAIN WriterJobs.jobs, WriterJobs.jobs[n] # Null
        PROVE  Carries(WriterJobs.jobs[n], Passed + n)'
    <3>1. Carries(WriterJobs.jobs[n], Passed + n)
      BY <1>1, <2>6, <2>7 DEF Ordered
    <3>. QED BY <1>0, <2>1, <2>4, <2>5, <2>6, <2>7, <3>1 DEF Carries
  <2>8. wpc = "await" => Carries(wjob, Len(written) + 1)'
    BY <1>1, <1>2, <2>1, <2>2, <2>4, <2>6 DEF Ordered, Owned, Carries
  <2>9. Carries(job, next - 1)'
    BY <1>0, <2>1, <2>3 DEF Carries
  <2>10. next' - 1 = Passed' + Queued'
    BY <1>0, <1>1, <2>1, <2>6 DEF Ordered
  <2>. QED BY <1>1, <2>1, <2>6, <2>7, <2>8, <2>9, <2>10 DEF Ordered
<1>10. CASE ReadNothing
  BY <1>0, <1>1, <1>2, <1>10
  DEF ReadNothing, queues, events, writer, LeaveCycle, Ordered, Ended, Carries, Passed,
      Queued, One
<1>11. CASE ReadBroken
  BY <1>0, <1>1, <1>2, <1>11
  DEF ReadBroken, queues, events, writer, LeaveCycle, Ordered, Ended, Carries, Passed,
      Queued, One
<1>12. CASE QueueJob
  <2>1. /\ cpc = "queue" /\ cpc' = "start"
       
        /\ UNCHANGED <<InBuf, OutBuf, OperationFinished, tpc, job, next, wpc, wjob,
                        written>>
    BY <1>12 DEF QueueJob, buffers, events, caller, writer
  <2>2. /\ Grown(WriterJobs, WriterJobs', job) /\ Ended' = Ended /\ Passed' = Passed
        /\ Passed \in Int
    BY <1>0, <1>1, <1>12, <2>1, QueueJobQueue DEF Ended, Passed, One
  <2>3. Queued' = Queued /\ Queued \in Int
    BY <1>0, <2>1, <2>2 DEF Queued, Grown, One
  <2>. SUFFICES ASSUME ~Ended
                PROVE  Ordered'
    BY <2>2 DEF Ordered
  <2>4. Len(WriterJobs.jobs) + 1 = Queued
    BY <1>0, <2>1 DEF Queued, One
  <2>5. Carries(job, Passed + (Len(WriterJobs.jobs) + 1))
    BY <1>0, <1>1, <2>1, <2>2, <2>3, <2>4 DEF Ordered
  <2>6. ASSUME NEW n \in DOMAIN WriterJobs'.jobs, WriterJobs'.jobs[n] # Null
        PROVE  Carries(WriterJobs'.jobs[n], Passed + n)
    <3>1. CASE n \in DOMAIN WriterJobs.jobs
      BY <1>0, <1>1, <2>2, <2>6, <3>1 DEF Ordered, Grown
    <3>2. CASE n = Len(WriterJobs.jobs) + 1
      BY <2>2, <2>5, <3>2 DEF Grown
    <3>. QED BY <2>2, <3>1, <3>2 DEF Grown
  <2>. QED BY <1>1, <2>1, <2>2, <2>3, <2>6 DEF Ordered, Carries
<1>13. CASE StartJob
  BY <1>0, <1>1, <1>2, <1>13
  DEF StartJob, queues, buffers, writer, Ordered, Ended, Carries, Passed, Queued, One
<1>14. CASE QueueNull
  <2>1. /\ cpc = "eof" /\ cpc' = "written"
       
        /\ UNCHANGED <<InBuf, OutBuf, OperationFinished, tpc, job, next, wpc, wjob,
                        written>>
    BY <1>14 DEF QueueNull, buffers, events, caller, writer
  <2>2. /\ Grown(WriterJobs, WriterJobs', Null) /\ Ended' = Ended /\ Passed' = Passed
        /\ Passed \in Int
    BY <1>0, <1>1, <1>14, <2>1, QueueNullQueue DEF Ended, Passed, One
  <2>3. Queued' = Queued /\ Queued \in Int
    BY <1>0, <2>1, <2>2 DEF Queued, Grown, One
  <2>. SUFFICES ASSUME ~Ended
                PROVE  Ordered'
    BY <2>2 DEF Ordered
  <2>4. ASSUME NEW n \in DOMAIN WriterJobs'.jobs, WriterJobs'.jobs[n] # Null
        PROVE  Carries(WriterJobs'.jobs[n], Passed + n)
    BY <1>0, <1>1, <2>2, <2>4 DEF Ordered, Grown
  <2>. QED BY <1>1, <2>1, <2>2, <2>3, <2>4 DEF Ordered, Carries
<1>15. CASE AwaitWriter
  <2>1. Ended'
    BY <1>1, <1>15 DEF AwaitWriter, Stopping, Ended
  <2>. QED BY <2>1 DEF Ordered
<1>16. CASE ClearSize
  BY <1>0, <1>1, <1>2, <1>16
  DEF ClearSize, queues, events, writer, Ordered, Ended, Carries, Passed, Queued, One
<1>17. CASE StopThread
  BY <1>0, <1>1, <1>2, <1>17
  DEF StopThread, queues, buffers, writer, Ordered, Ended, Carries, Passed, Queued, One
<1>18. CASE JoinThread
  BY <1>0, <1>1, <1>2, <1>18
  DEF JoinThread, queues, buffers, writer, Ordered, Ended, Carries, Passed, Queued, One
<1>19. CASE Return
  BY <1>0, <1>1, <1>2, <1>19
  DEF Return, queues, buffers, events, writer, Ordered, Ended, Carries, Passed, Queued, One
<1>20. CASE GetJob
  <2>1. /\ wpc = "looking" /\ ~Ended
        /\ UNCHANGED <<InBuf, OutBuf, OperationFinished, tpc, cpc, job, next, written>>
    BY <1>1, <1>20, JobTaken DEF GetJob, buffers, events, caller
  <2>2. CASE WriterJobs.jobs = <<>>
    BY <1>1, <1>20, <2>1, <2>2 DEF GetJob, Ordered, Ended, Carries, Passed, Queued, One
  <2>3. CASE WriterJobs.jobs # <<>> /\ wjob' = Null
    BY <1>1, <1>20, <2>3, GetJobQueue DEF Ended, Ordered
  <2>4. CASE WriterJobs.jobs # <<>> /\ wjob' # Null
    <3>1. wpc' = "await" /\ Shrunk(WriterJobs, WriterJobs') /\ wjob' = WriterJobs.jobs[1]
      BY <1>1, <1>20, <2>4, JobTaken, GetJobQueue DEF Shrunk
    <3>2. /\ Passed = Len(written) /\ Passed' = Len(written) + 1
          /\ Queued' = Queued - 1 /\ Queued \in Int
      BY <1>0, <2>1, <3>1 DEF Passed, Queued, Shrunk, One
    <3>3. Carries(wjob', Len(written) + 1)
      BY <1>0, <1>1, <2>1, <2>4, <3>1, <3>2 DEF Ordered, Shrunk
    <3>4. ASSUME NEW n \in DOMAIN WriterJobs'.jobs, WriterJobs'.jobs[n] # Null
          PROVE  Carries(WriterJobs'.jobs[n], Passed' + n)
      <4>1. n + 1 \in DOMAIN WriterJobs.jobs /\ WriterJobs'.jobs[n] = WriterJobs.jobs[n + 1]
        BY <3>1 DEF Shrunk
      <4>2. Carries(WriterJobs.jobs[n + 1], Passed + (n + 1))
        BY <1>1, <2>1, <3>4, <4>1 DEF Ordered
      <4>3. Passed + (n + 1) = Passed' + n
        BY <1>0, <3>1, <3>2 DEF Shrunk
      <4>. QED BY <4>1, <4>2, <4>3
    <3>5. next' - 1 = Passed' + Queued'
      BY <1>0, <1>1, <2>1, <3>2 DEF Ordered
    <3>. QED BY <1>1, <2>1, <3>1, <3>3, <3>4, <3>5 DEF Ordered, Carries
  <2>. QED BY <2>2, <2>3, <2>4
<1>21. CASE WakeWriter
  BY <1>0, <1>1, <1>2, <1>21
  DEF WakeWriter, queues, buffers, events, caller, Ordered, Ended, Carries, Passed, Queued,
      One
<1>22. CASE AwaitJob
  <2>1. /\ wpc = "await" /\ OperationFinished[wjob] /\ wpc' = "write"
        /\ OperationFinished' = [OperationFinished EXCEPT ![wjob] = FALSE]
        /\ UNCHANGED <<WriterJobs, InBuf, OutBuf, tpc, cpc, job, next, wjob, written>>
    BY <1>22 DEF AwaitJob, queues, buffers, caller
  <2>2. \A k \in Jobs : \A b : Carries(k, b) => Carries(k, b)'
    BY <1>2, <2>1 DEF Carries
  <2>3. ~Ended /\ OutBuf[wjob] \in {Len(written) + 1, Failed}
    BY <1>1, <2>1 DEF Ordered, Ended, Carries
  <2>4. cpc = "queue" => job \in Jobs
    BY <1>1, <1>2 DEF Owned
  <2>5. Passed' = Passed /\ Queued' = Queued
    BY <2>1 DEF Passed, Queued, One
  <2>6. ASSUME NEW n \in DOMAIN WriterJobs.jobs, WriterJobs.jobs[n] # Null
        PROVE  Carries(WriterJobs.jobs[n], Passed + n)'
    <3>1. Carries(WriterJobs.jobs[n], Passed + n)
      BY <1>1, <2>3, <2>6 DEF Ordered
    <3>. QED BY <1>0, <2>1, <2>2, <2>5, <2>6, <3>1 DEF Carries
  <2>7. cpc = "queue" => Carries(job, next - 1)'
    BY <1>1, <2>1, <2>2, <2>3, <2>4 DEF Ordered, Carries
  <2>. QED BY <1>1, <2>1, <2>3, <2>5, <2>6, <2>7 DEF Ordered
<1>23. CASE WriteBlock
  <2>1. /\ wpc = "write" /\ wpc' = "written"
        /\ written' = Append(written, OutBuf[wjob])
       
        /\ UNCHANGED <<WriterJobs, InBuf, OutBuf, OperationFinished, tpc, cpc, job,
                        next, wjob>>
    BY <1>23 DEF WriteBlock, queues, buffers, events, caller
  <2>2. Len(written') = Len(written) + 1
    BY <1>1, <2>1 DEF TypeOK
  <2>3. ~Ended /\ Passed' = Passed /\ Queued' = Queued
    BY <1>0, <2>1, <2>2 DEF Ended, Passed, Queued, One
  <2>. QED BY <1>1, <2>1, <2>3 DEF Ordered, Carries
<1>24. CASE WriteFails
  BY <1>0, <1>1, <1>2, <1>24
  DEF WriteFails, queues, buffers, events, caller, Ordered, Ended, Carries, Passed, Queued,
      One
<1>25. CASE AfterWrite
  BY <1>0, <1>1, <1>2, <1>25
  DEF AfterWrite, queues, events, caller, Ordered, Ended, Carries, Passed, Queued, One
<1>26. CASE FreeJob
  BY <1>0, <1>1, <1>2, <1>26, FreeJobQueue
  DEF FreeJob, buffers, events, caller, Grown, Ordered, Ended, Carries, Passed, Queued, One
<1>27. CASE EndWriter
  BY <1>0, <1>1, <1>2, <1>27
  DEF EndWriter, queues, buffers, events, caller, Ordered, Ended, Carries, Passed, Queued,
      One
<1>28. ASSUME NEW j \in Jobs, Start(j)
       PROVE  Ordered'
  <2>1. /\ UNCHANGED <<WriterJobs, wpc, wjob, written, cpc, job, next, InBuf, OutBuf>>
        /\ UNCHANGED OperationFinished
        /\ \A k \in Jobs : tpc'[k] = "signal" => tpc[k] = "signal"
    BY <1>2, <1>28 DEF Start, GoTo, queues, buffers, caller, writer
  <2>. QED BY <1>3, <2>1 DEF Carries
<1>29. ASSUME NEW j \in Jobs, TestSize(j)
       PROVE  Ordered'
  <2>1. /\ UNCHANGED <<WriterJobs, wpc, wjob, written, cpc, job, next, InBuf, OutBuf>>
        /\ UNCHANGED OperationFinished
        /\ \A k \in Jobs : tpc'[k] = "signal" => tpc[k] = "signal"
    BY <1>2, <1>29 DEF TestSize, GoTo, queues, buffers, events, caller, writer
  <2>. QED BY <1>3, <2>1 DEF Carries
<1>30. ASSUME NEW j \in Jobs, TakeSlot(j)
       PROVE  Ordered'
  <2>1. /\ UNCHANGED <<WriterJobs, wpc, wjob, written, cpc, job, next, InBuf, OutBuf>>
        /\ UNCHANGED OperationFinished
        /\ \A k \in Jobs : tpc'[k] = "signal" => tpc[k] = "signal"
    BY <1>2, <1>30 DEF TakeSlot, GoTo, queues, buffers, events, caller, writer
  <2>. QED BY <1>3, <2>1 DEF Carries
<1>31. ASSUME NEW j \in Jobs, Process(j)
       PROVE  Ordered'
  <2>1. /\ UNCHANGED <<WriterJobs, wpc, wjob, written, cpc, job, next, InBuf>>
        /\ UNCHANGED OperationFinished
        /\ tpc[j] = "process" /\ tpc' = [tpc EXCEPT ![j] = "signal"]
        /\ \E b \in {InBuf[j], Failed} : OutBuf' = [OutBuf EXCEPT ![j] = b]
    BY <1>31 DEF Process, GoTo, queues, events, caller, writer
  <2>2. OutBuf \in [Jobs -> -1 .. NumBlocks]
    BY <1>1 DEF TypeOK
  <2>3. ASSUME NEW k \in Jobs, NEW b, Carries(k, b)
        PROVE  Carries(k, b)'
    BY <1>2, <2>1, <2>2, <2>3 DEF Carries
  <2>4. wpc = "write" => wjob # j
    BY <1>1, <1>2, <2>1 DEF Owned, Lent, Awaited, Working, Busy
  <2>5. wpc = "write" => OutBuf'[wjob] = OutBuf[wjob]
    BY <2>1, <2>2, <2>4
  <2>. QED BY <1>3, <2>1, <2>3, <2>5
<1>32. ASSUME NEW j \in Jobs, SignalWriter(j)
       PROVE  Ordered'
  <2>1. /\ UNCHANGED <<WriterJobs, wpc, wjob, written, cpc, job, next, InBuf, OutBuf>>
        /\ tpc[j] = "signal" /\ tpc' = [tpc EXCEPT ![j] = "idle"]
        /\ OperationFinished' = [OperationFinished EXCEPT ![j] = TRUE]
    BY <1>32 DEF SignalWriter, GoTo, queues, buffers, caller, writer
  <2>2. ASSUME NEW k \in Jobs, NEW b, Carries(k, b)
        PROVE  Carries(k, b)'
    BY <1>2, <2>1, <2>2 DEF Carries
  <2>. QED BY <1>3, <2>1, <2>2
<1>33. ASSUME NEW j \in Jobs, End(j)
       PROVE  Ordered'
  <2>1. /\ UNCHANGED <<WriterJobs, wpc, wjob, written, cpc, job, next, InBuf, OutBuf>>
        /\ UNCHANGED OperationFinished
        /\ \A k \in Jobs : tpc'[k] = "signal" => tpc[k] = "signal"
    BY <1>2, <1>33 DEF End, GoTo, queues, caller, writer
  <2>. QED BY <1>3, <2>1 DEF Carries
<1>34. CASE UNCHANGED vars
  BY <1>0, <1>1, <1>2, <1>34
  DEF vars, queues, buffers, events, caller, writer, Ordered, Ended, Carries, Passed,
      Queued, One
<1>. QED
  BY <1>4, <1>5, <1>6, <1>7, <1>8, <1>9, <1>10, <1>11, <1>12, <1>13, <1>14, <1>15, <1>16,
     <1>17, <1>18, <1>19, <1>20, <1>21, <1>22, <1>23, <1>24, <1>25, <1>26, <1>27, <1>28,
     <1>29, <1>30, <1>31, <1>32, <1>33, <1>34
  DEF Next, Caller, Writer, Thread

\* What is written is the next block.
LEMMA InOrderKept ==
  ASSUME IInv, [Next]_vars
  PROVE  InOrder'
<1>1. TypeOK /\ Owned /\ Lent /\ Lifecycle /\ Stopping /\ Ordered /\ InOrder
  BY DEF IInv
<1>3. ASSUME UNCHANGED <<written>>
      PROVE  InOrder'
  BY <1>1, <1>3 DEF InOrder
<1>4. CASE WriteBlock
  <2>1. /\ written \in Seq(0 .. NumBlocks) /\ OutBuf[wjob] = Len(written) + 1
        /\ written' = Append(written, OutBuf[wjob])
    BY <1>1, <1>4 DEF WriteBlock, TypeOK, Ordered, Ended, Failed
  <2>2. OutBuf[wjob] \in 0 .. NumBlocks
    BY <1>1, Parameters, <1>4 DEF WriteBlock, Owned, TypeOK, Failed
  <2>3. /\ Len(written) \in Nat /\ DOMAIN written = 1 .. Len(written)
        /\ DOMAIN written' = 1 .. Len(written) + 1
        /\ \A n \in 1 .. Len(written) : written'[n] = written[n]
        /\ written'[Len(written) + 1] = OutBuf[wjob]
    BY <2>1, <2>2, AppendProperties, LenProperties
  <2>4. \A n \in DOMAIN written' : n \in DOMAIN written \/ n = Len(written) + 1
    BY <2>3
  <2>. QED BY <1>1, <2>1, <2>3, <2>4 DEF InOrder
<1>5. CASE CreateJob \/ JobsCreated \/ ReadSign \/ AcquireJob \/ WakeCaller \/
            ReadBlock
  BY <1>3, <1>5
  DEF CreateJob, events, writer, JobsCreated, queues, buffers, ReadSign, LeaveCycle,
      AcquireJob, WakeCaller, ReadBlock
<1>6. CASE ReadNothing \/ ReadBroken \/ QueueJob \/ StartJob \/ QueueNull \/
            AwaitWriter
  BY <1>3, <1>6
  DEF ReadNothing, queues, events, writer, LeaveCycle, ReadBroken, QueueJob, buffers,
      StartJob, QueueNull, AwaitWriter
<1>7. CASE ClearSize \/ StopThread \/ JoinThread \/ Return \/ GetJob \/ WakeWriter
  BY <1>3, <1>7
  DEF ClearSize, queues, events, writer, StopThread, buffers, JoinThread, Return, GetJob,
      caller, WakeWriter
<1>8. CASE AwaitJob \/ WriteFails \/ AfterWrite \/ FreeJob \/ EndWriter
  BY <1>3, <1>8
  DEF AwaitJob, queues, buffers, caller, WriteFails, events, AfterWrite, FreeJob, EndWriter
<1>9. ASSUME NEW j \in Jobs, Start(j) \/ TestSize(j) \/ TakeSlot(j) \/ Process(j)
                                \/ SignalWriter(j) \/ End(j)
       PROVE  InOrder'
  BY <1>3, <1>9
  DEF Start, queues, buffers, caller, writer, GoTo, TestSize, events, TakeSlot, Process,
      SignalWriter, End
<1>10. CASE UNCHANGED vars
  BY <1>3, <1>10 DEF vars, queues, buffers, events, caller, writer
<1>. QED
  BY <1>4, <1>5, <1>6, <1>7, <1>8, <1>9, <1>10 DEF Next, Caller, Writer, Thread

-----------------------------------------------------------------------------
(***************************************************************************)
(* Theorems.                                                               *)
(***************************************************************************)
\* The inductive invariant holds in the beginning.
LEMMA InitInv ==
  ASSUME Init
  PROVE  IInv
<1>1. TypeOK
  <2>1. /\ 0 \in 0 .. NumBlocks /\ 0 \in -1 .. NumBlocks /\ 1 \in 1 .. NumBlocks + 1
        /\ 1 \in 1 .. NumThreads + 1 /\ CompressionThreads \in 0 .. CompressionThreads
    BY Parameters
  <2>2. EmptyQueue \in Queues /\ <<>> \in Seq(0 .. NumBlocks)
    <3>1. <<>> \in Seq(Jobs \union {Null})
      OBVIOUS
    <3>. QED BY <3>1 DEF EmptyQueue, Queues
  <2>3. /\ [j \in Jobs |-> NoBlock] \in [Jobs -> 0 .. NumBlocks]
        /\ [j \in Jobs |-> NoBlock] \in [Jobs -> -1 .. NumBlocks]
        /\ [j \in Jobs |-> FALSE] \in [Jobs -> BOOLEAN]
    BY <2>1 DEF NoBlock
  <2>. QED BY <2>1, <2>2, <2>3 DEF Init, TypeOK
<1>2. FreeJobs.jobs = <<>> /\ WriterJobs.jobs = <<>> /\ \A j \in Jobs : tpc[j] = "none"
  BY DEF Init, EmptyQueue
<1>3. Elements(FreeJobs) = {} /\ Elements(WriterJobs) = {}
  BY <1>2 DEF Elements
<1>4. Slots
  <2>1. Processing = {}
    BY <1>2 DEF Processing
  <2>. QED BY <2>1, FS_EmptySet, Parameters DEF Slots, Init
<1>5. Owned
  BY <1>2, <1>3 DEF Init, Owned, Distinct
<1>6. Lent
  BY <1>2, <1>3 DEF Init, Lent, Awaited, Working, Asked, Begun, Busy, Closing
<1>7. Lifecycle
  BY <1>2, <1>3, Parameters DEF Init, Lifecycle, Closing
<1>8. Memory
  BY <1>2, <1>3 DEF Init, Memory, Awaited
<1>9. Stopping
  BY <1>2 DEF Init, Stopping, Ended, Closing
<1>10. Ordered /\ InOrder
  BY <1>2 DEF Init, Ordered, Passed, Queued, One, InOrder
<1>. QED BY <1>1, <1>4, <1>5, <1>6, <1>7, <1>8, <1>9, <1>10 DEF IInv

\* The inductive invariant holds in every state.
THEOREM Invariance == Spec => []IInv
<1>1. Init => IInv
  BY InitInv
<1>2. IInv /\ [Next]_vars => IInv'
  BY TypeKept, SlotsKept, OwnedKept, LentKept, LifecycleKept, MemoryKept, StoppingKept,
     OrderKept, InOrderKept DEF IInv
<1>. QED BY <1>1, <1>2, PTL DEF Spec

\* Every variable has its type.  The deepest part is that the slots never go below zero or
\* above their number: each is given back as often as it was taken (C_GRZip.cpp, process).
THEOREM TypeCorrect == Spec => []TypeOK
<1>1. IInv => TypeOK
  BY DEF IInv
<1>. QED BY <1>1, Invariance, PTL

\* The buffers of a job have one user, are there as long as they are used, and are freed in
\* the end unless a decompression failed (C_GRZip.cpp:475-496, 536-541).
THEOREM BuffersHaveOneUser == Spec => []OneUser
<1>1. IInv => OneUser
  <2>. SUFFICES ASSUME IInv
                PROVE  OneUser
    OBVIOUS
  <2>1. TypeOK /\ Owned /\ Lent /\ Lifecycle /\ Memory /\ Stopping
    BY DEF IInv
  <2>2. /\ Null \notin Jobs /\ i \in Nat /\ NumThreads \in Nat
        /\ \A j \in Jobs : j \in Int /\ j <= NumThreads
        /\ job \in Jobs \union {Null} /\ wjob \in Jobs \union {Null}
        /\ allocated \in [Jobs -> BOOLEAN]
    BY <2>1, Parameters, Typed
  <2>3. \A j \in Jobs : Busy(j) => j \in Awaited
    BY <2>1 DEF Lent, Working
  <2>4. ASSUME NEW j \in Jobs
        PROVE  /\ j \in Elements(FreeJobs) \/ (j = job /\ cpc \in {"read", "queue"})
                    => ~Busy(j) /\ j \notin Elements(WriterJobs) /\ j # wjob
               /\ j = wjob /\ wpc \in {"write", "written", "free"} => ~Busy(j)
    BY <2>1, <2>2, <2>3, <2>4 DEF Owned, Awaited
  <2>5. ASSUME NEW j \in Jobs, tpc[j] = "process" \/ (j = wjob /\ wpc = "write")
        PROVE  allocated[j]
    <3>1. CASE Compressing
      <4>1. tpc[j] \notin {"none", "ended"}
        BY <2>1, <2>5 DEF Lifecycle, Stopping
      <4>. QED BY <2>1, <3>1, <4>1 DEF Memory
    <3>2. CASE ~Compressing
      <4>1. tpc[j] = "process" => j \in Awaited
        BY <2>3 DEF Busy
      <4>. QED BY <2>1, <2>5, <3>2, <4>1 DEF Memory
    <3>. QED BY <3>1, <3>2
  <2>6. ASSUME NEW j \in Jobs, cpc = "returned", Compressing \/ ~errcode
        PROVE  ~allocated[j]
    <3>1. tpc[j] = "ended"
      BY <2>1, <2>2, <2>6 DEF Lifecycle, Closing
    <3>2. CASE Compressing
      BY <2>1, <3>1, <3>2 DEF Memory
    <3>3. CASE ~Compressing
      <4>1. wpc = "ended" /\ WriterJobs.jobs = <<>>
        BY <2>1, <2>6, <3>3 DEF Stopping, Closing, Ended
      <4>2. j \notin Awaited
        BY <4>1 DEF Awaited, Elements
      <4>. QED BY <2>1, <2>6, <3>3, <4>1, <4>2 DEF Memory
    <3>. QED BY <3>2, <3>3
  <2>. QED BY <2>4, <2>5, <2>6 DEF OneUser
<1>. QED BY <1>1, Invariance, PTL

\* A step of the threads is a step of the filter, or none.
LEMMA FilterStep ==
  ASSUME IInv, IInv', [Next]_vars
  PROVE  [Filter!Next]_Filter!vars
<1>1. /\ TypeOK /\ Owned /\ Lent /\ Lifecycle /\ Stopping /\ Ordered /\ InOrder /\ InOrder'
      /\ Len(written) \in Nat /\ next \in 1 .. NumBlocks + 1 /\ NumBlocks \in Nat
      /\ errcode \in BOOLEAN
  BY Written DEF IInv, TypeOK
<1>2. ASSUME written' = written, cpc' = "returned" <=> cpc = "returned",
             cpc = "returned" => errcode' = errcode
      PROVE  [Filter!Next]_Filter!vars
  BY <1>1, <1>2 DEF Filter!vars
<1>3. ASSUME cpc = "returned"
      PROVE  wpc \in {"none", "ended"} /\ \A j \in Jobs : tpc[j] = "ended"
  <2>1. i \in Nat /\ NumThreads \in Nat /\ \A j \in Jobs : j \in Int /\ j <= NumThreads
    BY <1>1, Parameters DEF TypeOK
  <2>. QED BY <1>1, <1>3, <2>1 DEF Lifecycle, Stopping, Closing
<1>4. CASE WriteBlock
  <2>1. cpc # "returned" /\ cpc' # "returned" /\ written' = Append(written, OutBuf[wjob])
    BY <1>3, <1>4 DEF WriteBlock, caller
  <2>2. Len(written') = Len(written) + 1
    BY <1>1, <2>1 DEF TypeOK
  <2>3. Len(written) < NumBlocks
    <3>1. /\ wpc = "write" /\ Passed = Len(written) + 1 /\ next - 1 = Passed + Queued
      BY <1>1, <1>4 DEF WriteBlock, Ordered, Ended, Passed, One
    <3>2. Queued \in Nat
      <4>1. WriterJobs.jobs \in Seq(Jobs \union {Null})
        BY <1>1 DEF TypeOK, Queues
      <4>2. Len(WriterJobs.jobs) \in Nat /\ (cpc = "written" => Len(WriterJobs.jobs) > 0)
        BY <1>1, <3>1, <4>1, LenProperties, EmptySeq DEF Stopping, Ended
      <4>3. /\ One(cpc = "written") \in {0, 1} /\ One(cpc = "queue") \in {0, 1}
            /\ cpc # "written" => One(cpc = "written") = 0
        BY DEF One
      <4>. QED BY <4>2, <4>3 DEF Queued
    <3>. QED BY <1>1, <3>1, <3>2
  <2>. QED BY <1>1, <2>1, <2>2, <2>3 DEF Filter!Next, Filter!Emit
<1>5. CASE Return
  <2>1. /\ cpc = "clear" /\ cpc' = "returned" /\ UNCHANGED <<written, errcode>>
    BY <1>5 DEF Return, writer
  <2>2. CASE errcode
    BY <1>1, <2>1, <2>2 DEF Filter!Next, Filter!Fail
  <2>3. CASE ~errcode
    <3>1. Len(written) = NumBlocks
      BY <1>1, <2>1, <2>3 DEF Stopping, Closing, Ended
    <3>. QED BY <1>1, <2>1, <2>3, <3>1 DEF Filter!Next, Filter!Succeed
  <2>. QED BY <2>2, <2>3
<1>6. CASE CreateJob \/ JobsCreated \/ ReadSign \/ AcquireJob \/ WakeCaller \/ ReadBlock
  BY <1>2, <1>6 DEF CreateJob, JobsCreated, ReadSign, AcquireJob, WakeCaller, ReadBlock,
                    LeaveCycle, writer
<1>7. CASE ReadNothing \/ ReadBroken \/ QueueJob \/ StartJob \/ QueueNull \/ AwaitWriter
  BY <1>2, <1>7 DEF ReadNothing, ReadBroken, QueueJob, StartJob, QueueNull, AwaitWriter,
                    LeaveCycle, writer
<1>8. CASE ClearSize \/ StopThread \/ JoinThread
  BY <1>2, <1>8 DEF ClearSize, StopThread, JoinThread, writer
<1>9. CASE GetJob \/ WakeWriter \/ AwaitJob \/ AfterWrite \/ FreeJob \/ EndWriter
  BY <1>2, <1>9 DEF GetJob, WakeWriter, AwaitJob, AfterWrite, FreeJob, EndWriter, caller
<1>10. CASE WriteFails
  BY <1>2, <1>3, <1>10 DEF WriteFails, caller
<1>11. ASSUME NEW j \in Jobs, Start(j) \/ TestSize(j) \/ TakeSlot(j)
                                \/ SignalWriter(j) \/ End(j)
       PROVE  [Filter!Next]_Filter!vars
  BY <1>2, <1>11 DEF Start, TestSize, TakeSlot, SignalWriter, End, caller, writer
<1>12. ASSUME NEW j \in Jobs, Process(j)
       PROVE  [Filter!Next]_Filter!vars
  BY <1>2, <1>3, <1>12 DEF Process, caller, writer
<1>13. CASE UNCHANGED vars
  BY <1>2, <1>13 DEF vars, caller, writer
<1>. QED
  BY <1>4, <1>5, <1>6, <1>7, <1>8, <1>9, <1>10, <1>11, <1>12, <1>13
  DEF Next, Caller, Writer, Thread

\* GRZip implements the filter: its blocks come out whole and in order, and success means
\* all of them, for any number of threads and blocks and any faults.
THEOREM ImplementsFilter == Spec => FilterSpec
<1>1. Init => Filter!Init
  BY DEF Init, Filter!Init, InOrder
<1>2. IInv /\ IInv' /\ [Next]_vars => [Filter!Next]_Filter!vars
  BY FilterStep
<1>. QED BY <1>1, <1>2, Invariance, PTL DEF Spec, FilterSpec, Filter!Spec
=============================================================================
