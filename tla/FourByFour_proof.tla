-------------------------- MODULE FourByFour_proof --------------------------
(***************************************************************************)
(* Proofs about 4x4, for any number of workers and blocks and any faults.  *)
(***************************************************************************)
EXTENDS FourByFour, SequenceTheorems, FiniteSetTheorems, TLAPS

-----------------------------------------------------------------------------
(***************************************************************************)
(* The inductive invariant.                                                *)
(***************************************************************************)
\* No job is twice in a queue.
Distinct(queue) == \A i, k \in DOMAIN queue :
                     i # k /\ queue[i] # Null => queue[i] # queue[k]

\* A job is free, or with the caller, or queued for the writer, or with the writer.
Owned ==
  /\ held # Null <=> cpc \in {"read", "put_work", "put_writer"}
  /\ rjob # Null <=> rpc \in {"waiting", "recycling"}
  /\ \A w \in Workers : wjob[w] # Null <=> wpc[w] \in {"processing", "signalling"}
  /\ Distinct(freeQ) /\ Distinct(workQ) /\ Distinct(writerQ)
  /\ held # Null => held \notin Elements(freeQ) \union Elements(writerQ) \union {rjob}
  /\ rjob # Null => rjob \notin Elements(freeQ) \union Elements(writerQ)
  /\ \A j \in Elements(freeQ) : j \notin Elements(writerQ)

\* What the writer will get, and what it waits for.
Awaited == {j \in Jobs : \/ j \in Elements(writerQ)
                         \/ j = held /\ cpc = "put_writer"
                         \/ j = rjob /\ rpc = "waiting"}

\* Only such a job is with the workers, and it is with one of them until it is ready.
Lent ==
  /\ \A j \in Elements(workQ) : j # Null => j \in Awaited /\ ~ready[j]
  /\ \A w \in Workers : wjob[w] # Null =>
       /\ wjob[w] \in Awaited /\ ~ready[wjob[w]]
       /\ wjob[w] \notin Elements(workQ)
       /\ \A v \in Workers : v # w => wjob[v] # wjob[w]
  /\ \A j \in Jobs : ready[j] => j \in Awaited \/ (j = rjob /\ rpc = "recycling")
  /\ rpc = "recycling" => ready[rjob]

\* The null pointer for the writer comes last, once, and after it the writer is gone.
LastPointer == cpc \in {"join_writer", "returned"} /\ rpc # "exited"
Stopping ==
  /\ \A i \in DOMAIN writerQ : writerQ[i] = Null <=> LastPointer /\ i = Len(writerQ)
  /\ LastPointer => writerQ # <<>>
  /\ rpc = "exited" => writerQ = <<>> /\ cpc \in {"join_writer", "returned"}
  /\ cpc = "returned" => rpc = "exited"
  /\ cpc \in {"stop_workers", "join_writer", "returned"} => result # "none"
  /\ result = "ok" => next = NumBlocks + 1

One(condition) == IF condition THEN 1 ELSE 0

\* Block b goes through job j: it is in the buffer where the next user looks for it.
Carries(j, b) ==
  /\ j \in Elements(workQ) => input[j] = b
  /\ \A w \in Workers : wjob[w] = j =>
       IF wpc[w] = "processing" THEN input[j] = b ELSE output[j] = b
  /\ ready[j] => output[j] = b

\* The blocks of the jobs that wait follow each other and those that were written.
Ordered ==
  /\ \A i \in DOMAIN writerQ : writerQ[i] # Null =>
       Carries(writerQ[i], Len(written) + One(rpc = "waiting") + i)
  /\ rpc = "waiting" => Carries(rjob, Len(written) + 1)
  /\ cpc = "put_writer" => Carries(held, next - 1)
  /\ next - 1 = Len(written) + One(rpc = "waiting") + Len(writerQ) - One(LastPointer)
                + One(cpc \in {"put_work", "put_writer"})

\* What was written is in order, and the block just read is in the buffer.
Sound == /\ InOrder /\ Len(written) < next
         /\ cpc = "put_work" => input[held] = next - 1

IInv == /\ TypeOK /\ Owned /\ Lent /\ Stopping /\ Sound
        /\ cpc = "init" => /\ writerQ = <<>> /\ rpc = "new"
                           /\ \A w \in Workers : wpc[w] = "new"
        /\ ~err => Ordered


-----------------------------------------------------------------------------
(***************************************************************************)
(* Queues.                                                                 *)
(***************************************************************************)
\* A job put into a queue comes last (PQueue::put).
LEMMA Put ==
  ASSUME NEW S, NEW q \in Seq(S), NEW x \in S
  PROVE  LET r == Append(q, x)
         IN /\ r \in Seq(S) /\ Len(q) \in Nat /\ Len(r) = Len(q) + 1
            /\ DOMAIN q = 1 .. Len(q) /\ DOMAIN r = 1 .. Len(q) + 1
            /\ \A i \in 1 .. Len(q) : r[i] = q[i]
            /\ r[Len(q) + 1] = x
            /\ Elements(r) = Elements(q) \union {x}
            /\ Distinct(q) /\ (x = Null \/ x \notin Elements(q)) => Distinct(r)
<1>. DEFINE r == Append(q, x)
<1>1. /\ r \in Seq(S) /\ Len(q) \in Nat /\ Len(r) = Len(q) + 1
      /\ \A i \in 1 .. Len(q) : r[i] = q[i]
      /\ r[Len(q) + 1] = x
  BY LenProperties, AppendProperties
<1>2. DOMAIN q = 1 .. Len(q) /\ DOMAIN r = 1 .. Len(q) + 1
  BY <1>1, LenProperties
<1>. HIDE DEF r
<1>3. \A i \in DOMAIN r : i \in DOMAIN q \/ i = Len(q) + 1
  BY <1>1, <1>2
<1>4. Elements(r) = Elements(q) \union {x}
  BY <1>1, <1>2, <1>3 DEF Elements
<1>5. ASSUME Distinct(q), x = Null \/ x \notin Elements(q)
      PROVE  Distinct(r)
  <2>. SUFFICES ASSUME NEW i \in DOMAIN r, NEW k \in DOMAIN r, i # k, r[i] # Null,
                       r[i] = r[k]
                PROVE  FALSE
    BY DEF Distinct
  <2>1. CASE i \in DOMAIN q /\ k \in DOMAIN q
    BY <1>1, <1>2, <1>5, <2>1 DEF Distinct
  <2>2. CASE i = Len(q) + 1 /\ k \in DOMAIN q
    BY <1>1, <1>2, <1>5, <2>2 DEF Elements
  <2>3. CASE i \in DOMAIN q /\ k = Len(q) + 1
    BY <1>1, <1>2, <1>5, <2>3 DEF Elements
  <2>. QED BY <1>3, <2>1, <2>2, <2>3
<1>. QED BY <1>1, <1>2, <1>4, <1>5 DEF r

\* A job taken from a queue was the first (PQueue::get).
LEMMA Get ==
  ASSUME NEW S, NEW q \in Seq(S), q # <<>>
  PROVE  LET r == Tail(q)
         IN /\ Head(q) \in S /\ Head(q) = q[1] /\ 1 \in DOMAIN q
            /\ r \in Seq(S) /\ Len(q) \in Nat /\ Len(r) = Len(q) - 1
            /\ DOMAIN q = 1 .. Len(q) /\ DOMAIN r = 1 .. Len(q) - 1
            /\ \A i \in DOMAIN r : i + 1 \in DOMAIN q /\ r[i] = q[i + 1]
            /\ Elements(q) = Elements(r) \union {Head(q)}
            /\ Distinct(q) =>
                 Distinct(r) /\ (Head(q) # Null => Head(q) \notin Elements(r))
<1>. DEFINE r == Tail(q)
<1>1. /\ Head(q) \in S /\ Head(q) = q[1] /\ r \in Seq(S)
      /\ Len(q) \in Nat \ {0} /\ Len(r) = Len(q) - 1
      /\ \A i \in 1 .. Len(r) : r[i] = q[i + 1]
  BY EmptySeq, LenProperties, HeadTailProperties
<1>2. DOMAIN q = 1 .. Len(q) /\ DOMAIN r = 1 .. Len(q) - 1 /\ 1 \in DOMAIN q
  BY <1>1, LenProperties
<1>. HIDE DEF r
<1>3. \A i \in DOMAIN r : i + 1 \in DOMAIN q /\ r[i] = q[i + 1] /\ i + 1 # 1
  BY <1>1, <1>2
<1>4. \A i \in DOMAIN q : i = 1 \/ (i - 1 \in DOMAIN r /\ r[i - 1] = q[i])
  <2>. SUFFICES ASSUME NEW i \in DOMAIN q, i # 1
                PROVE  i - 1 \in DOMAIN r /\ r[i - 1] = q[i]
    OBVIOUS
  <2>1. i - 1 \in DOMAIN r /\ (i - 1) + 1 = i
    BY <1>1, <1>2
  <2>. QED BY <1>3, <2>1
<1>5. Elements(q) = Elements(r) \union {Head(q)}
  <2>1. ASSUME NEW i \in DOMAIN q
        PROVE  q[i] \in Elements(r) \union {Head(q)}
    BY <1>1, <1>4 DEF Elements
  <2>2. Elements(r) \union {Head(q)} \subseteq Elements(q)
    BY <1>1, <1>2, <1>3 DEF Elements
  <2>. QED BY <2>1, <2>2 DEF Elements
<1>6. ASSUME Distinct(q)
      PROVE  Distinct(r) /\ (Head(q) # Null => Head(q) \notin Elements(r))
  <2>1. \A i, k \in DOMAIN r : i # k => i + 1 # k + 1
    BY <1>2
  <2>. QED BY <1>1, <1>2, <1>3, <1>6, <2>1 DEF Distinct, Elements
<1>. QED BY <1>1, <1>2, <1>3, <1>5, <1>6 DEF r

\* What is in a queue of jobs is a job.
LEMMA ElementsOf ==
  ASSUME NEW S, NEW q \in Seq(S)
  PROVE  Elements(q) \subseteq S
BY LenProperties DEF Elements

\* The parameters.
LEMMA JobsTyped ==
  /\ NumWorkers \in Nat \ {0} /\ NumJobs \in Nat \ {0} /\ Null \notin Jobs
  /\ NumBlocks \in Nat
<1>1. NumWorkers \in Nat /\ NumWorkers # 0
  BY ParametersAssumption, FS_CardinalityType, FS_EmptySet DEF NumWorkers
<1>. QED BY <1>1, ParametersAssumption DEF NumJobs, Jobs, Null

\* The caller takes the first free job.
LEMMA TakeJobQueue ==
  ASSUME TypeOK, Owned, TakeJob
  PROVE  /\ freeQ # <<>> /\ freeQ' = Tail(freeQ) /\ freeQ' \in Seq(Jobs)
         /\ Head(freeQ) \in Jobs /\ Head(freeQ) = freeQ[1] /\ 1 \in DOMAIN freeQ
         /\ Elements(freeQ) = Elements(freeQ') \union {Head(freeQ)}
         /\ Len(freeQ) \in Nat /\ Len(freeQ') = Len(freeQ) - 1
         /\ DOMAIN freeQ = 1 .. Len(freeQ) /\ DOMAIN freeQ' = 1 .. Len(freeQ) - 1
         /\ \A i \in DOMAIN freeQ' : i + 1 \in DOMAIN freeQ /\ freeQ'[i] = freeQ[i + 1]
         /\ Distinct(freeQ) =>
              /\ Distinct(freeQ')
              /\ (Head(freeQ) # Null => Head(freeQ) \notin Elements(freeQ'))
<1>1. freeQ \in Seq(Jobs) /\ freeQ # <<>> /\ freeQ' = Tail(freeQ)
  BY DEF TypeOK, TakeJob
<1>. QED BY <1>1, Get

\* An unused job is free again.
LEMMA ReadNothingQueue ==
  ASSUME TypeOK, Owned, ReadNothing
  PROVE  /\ freeQ' = Append(freeQ, held) /\ freeQ' \in Seq(Jobs)
         /\ Elements(freeQ') = Elements(freeQ) \union {held}
         /\ freeQ' # <<>> /\ Len(freeQ') = Len(freeQ) + 1 /\ Len(freeQ) \in Nat
         /\ DOMAIN freeQ = 1 .. Len(freeQ) /\ DOMAIN freeQ' = 1 .. Len(freeQ) + 1
         /\ freeQ'[Len(freeQ) + 1] = held /\ \A i \in 1 .. Len(freeQ) : freeQ'[i] = freeQ[i]
         /\ Distinct(freeQ) /\ held \notin Elements(freeQ) => Distinct(freeQ')
<1>1. freeQ \in Seq(Jobs) /\ freeQ' = Append(freeQ, held)
  BY DEF TypeOK, ReadNothing
<1>2. held \in Jobs /\ (held = Null \/ held \in Jobs)
  BY JobsTyped DEF TypeOK, Owned, ReadNothing
<1>3. freeQ' # <<>>
  BY <1>1, <1>2, AppendProperties
<1>. QED BY <1>1, <1>2, <1>3, Put

\* A job goes to the workers.
LEMMA PutWorkQueue ==
  ASSUME TypeOK, Owned, PutWork
  PROVE  /\ workQ' = Append(workQ, held) /\ workQ' \in Seq(Jobs \union {Null})
         /\ Elements(workQ') = Elements(workQ) \union {held}
         /\ workQ' # <<>> /\ Len(workQ') = Len(workQ) + 1 /\ Len(workQ) \in Nat
         /\ DOMAIN workQ = 1 .. Len(workQ) /\ DOMAIN workQ' = 1 .. Len(workQ) + 1
         /\ workQ'[Len(workQ) + 1] = held /\ \A i \in 1 .. Len(workQ) : workQ'[i] = workQ[i]
         /\ Distinct(workQ) /\ held \notin Elements(workQ) => Distinct(workQ')
<1>1. workQ \in Seq(Jobs \union {Null}) /\ workQ' = Append(workQ, held)
  BY DEF TypeOK, PutWork
<1>2. held \in Jobs \union {Null} /\ (held = Null \/ held \in Jobs)
  BY JobsTyped DEF TypeOK, Owned, PutWork
<1>3. workQ' # <<>>
  BY <1>1, <1>2, AppendProperties
<1>. QED BY <1>1, <1>2, <1>3, Put

\* A job goes to the writer.
LEMMA PutWriterQueue ==
  ASSUME TypeOK, Owned, PutWriter
  PROVE  /\ writerQ' = Append(writerQ, held) /\ writerQ' \in Seq(Jobs \union {Null})
         /\ Elements(writerQ') = Elements(writerQ) \union {held}
         /\ writerQ' # <<>> /\ Len(writerQ') = Len(writerQ) + 1 /\ Len(writerQ) \in Nat
         /\ DOMAIN writerQ = 1 .. Len(writerQ) /\ DOMAIN writerQ' = 1 .. Len(writerQ) + 1
         /\ writerQ'[Len(writerQ) + 1] = held
         /\ \A i \in 1 .. Len(writerQ) : writerQ'[i] = writerQ[i]
         /\ Distinct(writerQ) /\ held \notin Elements(writerQ) => Distinct(writerQ')
<1>1. writerQ \in Seq(Jobs \union {Null}) /\ writerQ' = Append(writerQ, held)
  BY DEF TypeOK, PutWriter
<1>2. held \in Jobs \union {Null} /\ (held = Null \/ held \in Jobs)
  BY JobsTyped DEF TypeOK, Owned, PutWriter
<1>3. writerQ' # <<>>
  BY <1>1, <1>2, AppendProperties
<1>. QED BY <1>1, <1>2, <1>3, Put

\* A null pointer goes to the workers.
LEMMA StopWorkerQueue ==
  ASSUME TypeOK, Owned, StopWorker
  PROVE  /\ workQ' = Append(workQ, Null) /\ workQ' \in Seq(Jobs \union {Null})
         /\ Elements(workQ') = Elements(workQ) \union {Null}
         /\ workQ' # <<>> /\ Len(workQ') = Len(workQ) + 1 /\ Len(workQ) \in Nat
         /\ DOMAIN workQ = 1 .. Len(workQ) /\ DOMAIN workQ' = 1 .. Len(workQ) + 1
         /\ workQ'[Len(workQ) + 1] = Null /\ \A i \in 1 .. Len(workQ) : workQ'[i] = workQ[i]
         /\ Distinct(workQ) => Distinct(workQ')
<1>1. workQ \in Seq(Jobs \union {Null}) /\ workQ' = Append(workQ, Null)
  BY DEF TypeOK, StopWorker
<1>2. Null \in Jobs \union {Null} /\ (Null = Null \/ Null \in Jobs)
  BY JobsTyped DEF TypeOK, Owned, StopWorker
<1>3. workQ' # <<>>
  BY <1>1, <1>2, AppendProperties
<1>. QED BY <1>1, <1>2, <1>3, Put

\* A null pointer goes to the writer.
LEMMA StopWriterQueue ==
  ASSUME TypeOK, Owned, StopWriter
  PROVE  /\ writerQ' = Append(writerQ, Null) /\ writerQ' \in Seq(Jobs \union {Null})
         /\ Elements(writerQ') = Elements(writerQ) \union {Null}
         /\ writerQ' # <<>> /\ Len(writerQ') = Len(writerQ) + 1 /\ Len(writerQ) \in Nat
         /\ DOMAIN writerQ = 1 .. Len(writerQ) /\ DOMAIN writerQ' = 1 .. Len(writerQ) + 1
         /\ writerQ'[Len(writerQ) + 1] = Null
         /\ \A i \in 1 .. Len(writerQ) : writerQ'[i] = writerQ[i]
         /\ Distinct(writerQ) => Distinct(writerQ')
<1>1. writerQ \in Seq(Jobs \union {Null}) /\ writerQ' = Append(writerQ, Null)
  BY DEF TypeOK, StopWriter
<1>2. Null \in Jobs \union {Null} /\ (Null = Null \/ Null \in Jobs)
  BY JobsTyped DEF TypeOK, Owned, StopWriter
<1>3. writerQ' # <<>>
  BY <1>1, <1>2, AppendProperties
<1>. QED BY <1>1, <1>2, <1>3, Put

\* A worker takes the first job that waits.
LEMMA GetWorkQueue ==
  ASSUME TypeOK, Owned, NEW w \in Workers, GetWork(w)
  PROVE  /\ workQ # <<>> /\ workQ' = Tail(workQ) /\ workQ' \in Seq(Jobs \union {Null})
         /\ Head(workQ) \in Jobs \union {Null} /\ Head(workQ) = workQ[1]
         /\ 1 \in DOMAIN workQ
         /\ Elements(workQ) = Elements(workQ') \union {Head(workQ)}
         /\ Len(workQ) \in Nat /\ Len(workQ') = Len(workQ) - 1
         /\ DOMAIN workQ = 1 .. Len(workQ) /\ DOMAIN workQ' = 1 .. Len(workQ) - 1
         /\ \A i \in DOMAIN workQ' : i + 1 \in DOMAIN workQ /\ workQ'[i] = workQ[i + 1]
         /\ Distinct(workQ) =>
              /\ Distinct(workQ')
              /\ (Head(workQ) # Null => Head(workQ) \notin Elements(workQ'))
<1>1. workQ \in Seq(Jobs \union {Null}) /\ workQ # <<>> /\ workQ' = Tail(workQ)
  BY DEF TypeOK, GetWork
<1>. QED BY <1>1, Get

\* The writer takes the first job that waits.
LEMMA GetJobQueue ==
  ASSUME TypeOK, Owned, GetJob
  PROVE  /\ writerQ # <<>> /\ writerQ' = Tail(writerQ)
         /\ writerQ' \in Seq(Jobs \union {Null})
         /\ Head(writerQ) \in Jobs \union {Null} /\ Head(writerQ) = writerQ[1]
         /\ 1 \in DOMAIN writerQ
         /\ Elements(writerQ) = Elements(writerQ') \union {Head(writerQ)}
         /\ Len(writerQ) \in Nat /\ Len(writerQ') = Len(writerQ) - 1
         /\ DOMAIN writerQ = 1 .. Len(writerQ) /\ DOMAIN writerQ' = 1 .. Len(writerQ) - 1
         /\ \A i \in DOMAIN writerQ' : i + 1 \in DOMAIN writerQ /\ writerQ'[i] = writerQ[i + 1]
         /\ Distinct(writerQ) =>
              /\ Distinct(writerQ')
              /\ (Head(writerQ) # Null => Head(writerQ) \notin Elements(writerQ'))
<1>1. writerQ \in Seq(Jobs \union {Null}) /\ writerQ # <<>> /\ writerQ' = Tail(writerQ)
  BY DEF TypeOK, GetJob
<1>. QED BY <1>1, Get

\* The writer puts its job among the free ones.
LEMMA RecycleQueue ==
  ASSUME TypeOK, Owned, Recycle
  PROVE  /\ freeQ' = Append(freeQ, rjob) /\ freeQ' \in Seq(Jobs)
         /\ Elements(freeQ') = Elements(freeQ) \union {rjob}
         /\ freeQ' # <<>> /\ Len(freeQ') = Len(freeQ) + 1 /\ Len(freeQ) \in Nat
         /\ DOMAIN freeQ = 1 .. Len(freeQ) /\ DOMAIN freeQ' = 1 .. Len(freeQ) + 1
         /\ freeQ'[Len(freeQ) + 1] = rjob /\ \A i \in 1 .. Len(freeQ) : freeQ'[i] = freeQ[i]
         /\ Distinct(freeQ) /\ rjob \notin Elements(freeQ) => Distinct(freeQ')
<1>1. freeQ \in Seq(Jobs) /\ freeQ' = Append(freeQ, rjob)
  BY DEF TypeOK, Recycle
<1>2. rjob \in Jobs /\ (rjob = Null \/ rjob \in Jobs)
  BY JobsTyped DEF TypeOK, Owned, Recycle
<1>3. freeQ' # <<>>
  BY <1>1, <1>2, AppendProperties
<1>. QED BY <1>1, <1>2, <1>3, Put
\* A job passes from one owner to the next.
LEMMA OwnedKept ==
  ASSUME IInv, [Next]_vars
  PROVE  Owned'
<1>1. TypeOK /\ Owned /\ Lent /\ Stopping
  BY DEF IInv
<1>2. /\ freeQ \in Seq(Jobs) /\ workQ \in Seq(Jobs \union {Null})
      /\ writerQ \in Seq(Jobs \union {Null})
      /\ held \in Jobs \union {Null} /\ rjob \in Jobs \union {Null}
      /\ wjob \in [Workers -> Jobs \union {Null}] /\ ready \in [Jobs -> BOOLEAN]
      /\ wpc \in [Workers -> {"new", "idle", "processing", "signalling", "exited"}]
      /\ input \in [Jobs -> 0 .. NumBlocks] /\ output \in [Jobs -> 0 .. NumBlocks]
      /\ next \in 1 .. NumBlocks + 1 /\ NumBlocks \in Nat
      /\ Null \notin Jobs
  BY <1>1, JobsTyped DEF TypeOK
<1>3. CASE PoolInit
  <2>1. /\ writerQ = <<>> /\ rpc = "new" /\ cpc = "init"
        /\ \A w \in Workers : wpc[w] = "new"
    BY <1>3 DEF IInv, PoolInit
  <2>2. /\ freeQ' = [j \in Jobs |-> j] /\ rpc' = "idle" /\ cpc' = "loop"
        /\ wpc' = [w \in Workers |-> "idle"]
        /\ UNCHANGED <<workQ, writerQ, ready, held, rjob, wjob, result, next>>
    BY <1>3 DEF PoolInit, buffers
  <2>3. Distinct(freeQ') /\ Distinct(writerQ') /\ Elements(writerQ') = {}
    BY <1>1, <2>1, <2>2 DEF Distinct, Elements, Owned
  <2>4. held = Null /\ rjob = Null /\ \A w \in Workers : wjob[w] = Null
    BY <1>1, <1>2, <2>1 DEF Owned
  <2>5. \A w \in Workers : wpc'[w] = "idle"
    BY <2>2
  <2>. QED BY <1>1, <2>2, <2>3, <2>4, <2>5 DEF Owned
<1>4. CASE PoolInitFails
  BY <1>1, <1>2, <1>4
  DEF PoolInitFails, queues, buffers, workers, writer, Finish, Owned
<1>5. CASE CheckErr
  BY <1>1, <1>2, <1>5
  DEF CheckErr, queues, buffers, workers, writer, Finish, Owned
<1>6. CASE TakeJob
  BY <1>1, <1>2, <1>6, TakeJobQueue
  DEF TakeJob, buffers, workers, writer, Owned
<1>7. CASE ReadBlock
  BY <1>1, <1>2, <1>7
  DEF ReadBlock, queues, workers, writer, Owned
<1>8. CASE ReadRawBlock
  BY <1>1, <1>2, <1>8
  DEF ReadRawBlock, queues, workers, writer, Owned
<1>9. CASE ReadNothing
  BY <1>1, <1>2, <1>9, ReadNothingQueue
  DEF ReadNothing, buffers, workers, writer, Finish, Owned
<1>10. CASE PutWork
  <2>1. held \in Jobs
    BY <1>1, <1>2, <1>10 DEF PutWork, Owned
  <2>2. held \notin Elements(workQ)
    BY <1>1, <1>2, <2>1, <1>10 DEF PutWork, Owned, Lent, Awaited
  <2>. QED BY <1>1, <1>2, <1>10, <2>1, <2>2, PutWorkQueue
        DEF PutWork, buffers, workers, writer, Owned
<1>11. CASE PutWriter
  BY <1>1, <1>2, <1>11, PutWriterQueue
  DEF PutWriter, buffers, workers, writer, Owned
<1>12. CASE StopWorker
  BY <1>1, <1>2, <1>12, StopWorkerQueue
  DEF StopWorker, buffers, workers, writer, Owned
<1>13. CASE StopWriter
  <2>1. Elements(freeQ) \subseteq Jobs
    BY <1>2, ElementsOf
  <2>. QED BY <1>1, <1>2, <1>13, <2>1, StopWriterQueue
        DEF StopWriter, buffers, workers, writer, Owned
<1>14. CASE Return
  BY <1>1, <1>2, <1>14
  DEF Return, queues, buffers, workers, writer, Owned
<1>15. CASE GetJob
  BY <1>1, <1>2, <1>15, GetJobQueue
  DEF GetJob, buffers, caller, workers, Owned
<1>16. CASE WriteBlock
  BY <1>1, <1>2, <1>16
  DEF WriteBlock, queues, buffers, caller, workers, Owned
<1>17. CASE Recycle
  BY <1>1, <1>2, <1>17, RecycleQueue
  DEF Recycle, caller, workers, Owned
<1>18. ASSUME NEW w \in Workers, GetWork(w)
      PROVE  Owned'
  BY <1>1, <1>2, <1>18, GetWorkQueue
  DEF GetWork, buffers, caller, writer, Owned
<1>19. ASSUME NEW w \in Workers, Process(w)
      PROVE  Owned'
  BY <1>1, <1>2, <1>19
  DEF Process, queues, caller, writer, Owned
<1>20. ASSUME NEW w \in Workers, Signal(w)
      PROVE  Owned'
  BY <1>1, <1>2, <1>20
  DEF Signal, queues, caller, writer, Owned
<1>21. CASE UNCHANGED vars
  BY <1>1, <1>21 DEF vars, queues, buffers, caller, workers, writer, Owned
<1>. QED
  BY <1>3, <1>4, <1>5, <1>6, <1>7, <1>8, <1>9, <1>10, <1>11, <1>12, <1>13, <1>14, <1>15,
     <1>16, <1>17, <1>18, <1>19, <1>20, <1>21
  DEF Next, Caller, Writer, Worker

\* A job comes back from the workers once, and then it is ready.
LEMMA LentKept ==
  ASSUME IInv, [Next]_vars
  PROVE  Lent'
<1>1. TypeOK /\ Owned /\ Lent /\ Stopping
  BY DEF IInv
<1>2. /\ freeQ \in Seq(Jobs) /\ workQ \in Seq(Jobs \union {Null})
      /\ writerQ \in Seq(Jobs \union {Null})
      /\ held \in Jobs \union {Null} /\ rjob \in Jobs \union {Null}
      /\ wjob \in [Workers -> Jobs \union {Null}] /\ ready \in [Jobs -> BOOLEAN]
      /\ wpc \in [Workers -> {"new", "idle", "processing", "signalling", "exited"}]
      /\ input \in [Jobs -> 0 .. NumBlocks] /\ output \in [Jobs -> 0 .. NumBlocks]
      /\ next \in 1 .. NumBlocks + 1 /\ NumBlocks \in Nat
      /\ Null \notin Jobs
  BY <1>1, JobsTyped DEF TypeOK
<1>3. CASE PoolInit
  <2>1. /\ writerQ = <<>> /\ rpc = "new" /\ cpc = "init"
        /\ \A w \in Workers : wpc[w] = "new"
    BY <1>3 DEF IInv, PoolInit
  <2>2. /\ freeQ' = [j \in Jobs |-> j] /\ rpc' = "idle" /\ cpc' = "loop"
        /\ wpc' = [w \in Workers |-> "idle"]
        /\ UNCHANGED <<workQ, writerQ, ready, held, rjob, wjob, result, next>>
    BY <1>3 DEF PoolInit, buffers
  <2>3. held = Null /\ rjob = Null
    BY <1>1, <2>1 DEF Owned
  <2>4. Awaited' = Awaited
    BY <1>2, <2>1, <2>2, <2>3 DEF Awaited
  <2>. QED BY <1>1, <2>1, <2>2, <2>4 DEF Lent
<1>4. CASE PoolInitFails
  BY <1>1, <1>2, <1>4
  DEF PoolInitFails, queues, buffers, workers, writer, Finish, Lent, Awaited, Owned
<1>5. CASE CheckErr
  BY <1>1, <1>2, <1>5
  DEF CheckErr, queues, buffers, workers, writer, Finish, Lent, Awaited, Owned
<1>6. CASE TakeJob
  BY <1>1, <1>2, <1>6, TakeJobQueue
  DEF TakeJob, buffers, workers, writer, Lent, Awaited, Owned
<1>7. CASE ReadBlock
  BY <1>1, <1>2, <1>7
  DEF ReadBlock, queues, workers, writer, Lent, Awaited, Owned
<1>8. CASE ReadRawBlock
  BY <1>1, <1>2, <1>8
  DEF ReadRawBlock, queues, workers, writer, Lent, Awaited, Owned
<1>9. CASE ReadNothing
  BY <1>1, <1>2, <1>9, ReadNothingQueue
  DEF ReadNothing, buffers, workers, writer, Finish, Lent, Awaited, Owned
<1>10. CASE PutWork
  BY <1>1, <1>2, <1>10, PutWorkQueue
  DEF PutWork, buffers, workers, writer, Lent, Awaited, Owned
<1>11. CASE PutWriter
  BY <1>1, <1>2, <1>11, PutWriterQueue
  DEF PutWriter, buffers, workers, writer, Lent, Awaited, Owned
<1>12. CASE StopWorker
  BY <1>1, <1>2, <1>12, StopWorkerQueue
  DEF StopWorker, buffers, workers, writer, Lent, Awaited, Owned
<1>13. CASE StopWriter
  BY <1>1, <1>2, <1>13, StopWriterQueue
  DEF StopWriter, buffers, workers, writer, Lent, Awaited, Owned
<1>14. CASE Return
  BY <1>1, <1>2, <1>14
  DEF Return, queues, buffers, workers, writer, Lent, Awaited, Owned
<1>15. CASE GetJob
  BY <1>1, <1>2, <1>15, GetJobQueue
  DEF GetJob, buffers, caller, workers, Lent, Awaited, Owned
<1>16. CASE WriteBlock
  BY <1>1, <1>2, <1>16
  DEF WriteBlock, queues, buffers, caller, workers, Lent, Awaited, Owned
<1>17. CASE Recycle
  BY <1>1, <1>2, <1>17, RecycleQueue
  DEF Recycle, caller, workers, Lent, Awaited, Owned
<1>18. ASSUME NEW w \in Workers, GetWork(w)
      PROVE  Lent'
  <2>1. UNCHANGED <<writerQ, ready, held, cpc, rjob, rpc>> /\ workQ # <<>>
    BY <1>18 DEF GetWork, buffers, caller, writer
  <2>2. Awaited' = Awaited
    BY <2>1 DEF Awaited
  <2>3. CASE Head(workQ) = Null
    BY <1>1, <1>18, <2>1, <2>2, <2>3, GetWorkQueue DEF GetWork, Lent
  <2>4. CASE Head(workQ) # Null
    <3>1. wjob' = [wjob EXCEPT ![w] = Head(workQ)]
      BY <1>18, <2>4 DEF GetWork
    <3>2. /\ Head(workQ) \in Awaited /\ ~ready[Head(workQ)]
          /\ Head(workQ) \notin Elements(workQ')
          /\ Elements(workQ') \subseteq Elements(workQ)
          /\ Head(workQ) \in Elements(workQ)
      BY <1>1, <1>18, <2>4, GetWorkQueue DEF Lent, Owned
    <3>3. \A v \in Workers : wjob[v] # Head(workQ)
      BY <1>1, <2>4, <3>2 DEF Lent
    <3>4. /\ wjob'[w] = Head(workQ)
          /\ \A v \in Workers : v # w => wjob'[v] = wjob[v]
      BY <1>2, <3>1
    <3>. QED BY <1>1, <2>1, <2>2, <2>4, <3>2, <3>3, <3>4 DEF Lent
  <2>. QED BY <2>3, <2>4
<1>19. ASSUME NEW w \in Workers, Process(w)
      PROVE  Lent'
  BY <1>1, <1>2, <1>19
  DEF Process, queues, caller, writer, Lent, Awaited, Owned
<1>20. ASSUME NEW w \in Workers, Signal(w)
      PROVE  Lent'
  BY <1>1, <1>2, <1>20
  DEF Signal, queues, caller, writer, Lent, Awaited, Owned
<1>21. CASE UNCHANGED vars
  BY <1>1, <1>21 DEF vars, queues, buffers, caller, workers, writer, Lent, Awaited
<1>. QED
  BY <1>3, <1>4, <1>5, <1>6, <1>7, <1>8, <1>9, <1>10, <1>11, <1>12, <1>13, <1>14, <1>15,
     <1>16, <1>17, <1>18, <1>19, <1>20, <1>21
  DEF Next, Caller, Writer, Worker

\* The writer is stopped last.
LEMMA StoppingKept ==
  ASSUME IInv, [Next]_vars
  PROVE  Stopping'
<1>1. TypeOK /\ Owned /\ Lent /\ Stopping
  BY DEF IInv
<1>2. /\ freeQ \in Seq(Jobs) /\ workQ \in Seq(Jobs \union {Null})
      /\ writerQ \in Seq(Jobs \union {Null})
      /\ held \in Jobs \union {Null} /\ rjob \in Jobs \union {Null}
      /\ wjob \in [Workers -> Jobs \union {Null}] /\ ready \in [Jobs -> BOOLEAN]
      /\ wpc \in [Workers -> {"new", "idle", "processing", "signalling", "exited"}]
      /\ input \in [Jobs -> 0 .. NumBlocks] /\ output \in [Jobs -> 0 .. NumBlocks]
      /\ next \in 1 .. NumBlocks + 1 /\ NumBlocks \in Nat
      /\ Null \notin Jobs
  BY <1>1, JobsTyped DEF TypeOK
<1>3. CASE PoolInit
  BY <1>1, <1>2, <1>3
  DEF PoolInit, buffers, Stopping, LastPointer
<1>4. CASE PoolInitFails
  BY <1>1, <1>2, <1>4
  DEF PoolInitFails, queues, buffers, workers, writer, Finish, Stopping, LastPointer
<1>5. CASE CheckErr
  <2>1. UNCHANGED <<writerQ, rpc, next>> /\ cpc = "loop"
    BY <1>5 DEF CheckErr, queues, writer
  <2>2. \/ cpc' = "stop_workers" /\ result' \in {"ok", "error"}
           /\ (result' = "ok" => next > NumBlocks)
        \/ cpc' = "take" /\ result' = result
    BY <1>5 DEF CheckErr, Finish
  <2>. QED BY <1>1, <1>2, <2>1, <2>2 DEF Stopping, LastPointer
<1>6. CASE TakeJob
  BY <1>1, <1>2, <1>6, TakeJobQueue
  DEF TakeJob, buffers, workers, writer, Stopping, LastPointer
<1>7. CASE ReadBlock
  <2>1. result # "ok"
    BY <1>1, <1>2, <1>7 DEF Stopping, ReadBlock
  <2>. QED BY <1>1, <1>7, <2>1 DEF ReadBlock, queues, workers, writer, Stopping, LastPointer
<1>8. CASE ReadRawBlock
  <2>1. result # "ok"
    BY <1>1, <1>2, <1>8 DEF Stopping, ReadRawBlock
  <2>. QED BY <1>1, <1>8, <2>1
           DEF ReadRawBlock, queues, workers, writer, Stopping, LastPointer
<1>9. CASE ReadNothing
  <2>1. UNCHANGED <<writerQ, rpc, next>> /\ cpc = "read" /\ cpc' = "stop_workers"
        /\ result' \in {"ok", "error"} /\ (result' = "ok" => next > NumBlocks)
    BY <1>9 DEF ReadNothing, Finish, writer
  <2>. QED BY <1>1, <1>2, <2>1 DEF Stopping, LastPointer
<1>10. CASE PutWork
  BY <1>1, <1>2, <1>10, PutWorkQueue
  DEF PutWork, buffers, workers, writer, Stopping, LastPointer
<1>11. CASE PutWriter
  <2>1. /\ cpc = "put_writer" /\ cpc' = "loop" /\ UNCHANGED <<rpc, result, next>>
    BY <1>11 DEF PutWriter, writer
  <2>2. held # Null /\ rpc # "exited"
    BY <1>1, <1>11, <2>1 DEF Owned, Stopping
  <2>3. \A i \in DOMAIN writerQ' : i \in DOMAIN writerQ \/ i = Len(writerQ) + 1
    BY <1>1, <1>11, PutWriterQueue
  <2>4. \A i \in DOMAIN writerQ' : writerQ'[i] # Null
    BY <1>1, <1>11, <2>1, <2>2, <2>3, PutWriterQueue DEF Stopping, LastPointer
  <2>. QED BY <1>1, <2>1, <2>2, <2>4 DEF Stopping, LastPointer
<1>12. CASE StopWorker
  BY <1>1, <1>2, <1>12, StopWorkerQueue
  DEF StopWorker, buffers, workers, writer, Stopping, LastPointer
<1>13. CASE StopWriter
  BY <1>1, <1>2, <1>13, StopWriterQueue
  DEF StopWriter, buffers, workers, writer, Stopping, LastPointer
<1>14. CASE Return
  BY <1>1, <1>2, <1>14
  DEF Return, queues, buffers, workers, writer, Stopping, LastPointer
<1>15. CASE GetJob
  <2>1. UNCHANGED <<cpc, result, next>> /\ writerQ # <<>> /\ rpc = "idle"
        /\ rpc' = IF Head(writerQ) = Null THEN "exited" ELSE "waiting"
    BY <1>15 DEF GetJob, caller
  <2>2. CASE Head(writerQ) = Null
    <3>1. LastPointer /\ Len(writerQ) = 1
      BY <1>1, <1>15, <2>2, GetJobQueue DEF Stopping
    <3>2. writerQ' = <<>>
      BY <1>1, <1>15, <3>1, GetJobQueue, EmptySeq
    <3>. QED BY <1>1, <2>1, <2>2, <3>1, <3>2 DEF Stopping, LastPointer
  <2>3. CASE Head(writerQ) # Null
    <3>1. LastPointer' <=> LastPointer
      BY <2>1, <2>3 DEF LastPointer
    <3>2. LastPointer => Len(writerQ) # 1
      BY <1>1, <1>15, <2>3, GetJobQueue DEF Stopping
    <3>3. LastPointer => writerQ' # <<>>
      BY <1>1, <1>15, <2>1, <3>2, GetJobQueue, EmptySeq
    <3>4. \A i \in DOMAIN writerQ' : writerQ'[i] = Null <=> LastPointer /\ i = Len(writerQ')
      BY <1>1, <1>15, GetJobQueue DEF Stopping
    <3>. QED BY <1>1, <2>1, <2>3, <3>1, <3>3, <3>4 DEF Stopping
  <2>. QED BY <2>2, <2>3
<1>16. CASE WriteBlock
  BY <1>1, <1>2, <1>16
  DEF WriteBlock, queues, buffers, caller, workers, Stopping, LastPointer
<1>17. CASE Recycle
  BY <1>1, <1>2, <1>17, RecycleQueue
  DEF Recycle, caller, workers, Stopping, LastPointer
<1>18. ASSUME NEW w \in Workers, GetWork(w)
      PROVE  Stopping'
  BY <1>1, <1>2, <1>18, GetWorkQueue
  DEF GetWork, buffers, caller, writer, Stopping, LastPointer
<1>19. ASSUME NEW w \in Workers, Process(w)
      PROVE  Stopping'
  BY <1>1, <1>2, <1>19
  DEF Process, queues, caller, writer, Stopping, LastPointer
<1>20. ASSUME NEW w \in Workers, Signal(w)
      PROVE  Stopping'
  BY <1>1, <1>2, <1>20
  DEF Signal, queues, caller, writer, Stopping, LastPointer
<1>21. CASE UNCHANGED vars
  BY <1>1, <1>21 DEF vars, queues, buffers, caller, workers, writer, Stopping, LastPointer
<1>. QED
  BY <1>3, <1>4, <1>5, <1>6, <1>7, <1>8, <1>9, <1>10, <1>11, <1>12, <1>13, <1>14, <1>15,
     <1>16, <1>17, <1>18, <1>19, <1>20, <1>21
  DEF Next, Caller, Writer, Worker

\* Every step keeps the types.
LEMMA TypeKept ==
  ASSUME IInv, [Next]_vars
  PROVE  TypeOK'
<1>1. TypeOK /\ Owned /\ Lent /\ Stopping
  BY DEF IInv
<1>2. /\ freeQ \in Seq(Jobs) /\ workQ \in Seq(Jobs \union {Null})
      /\ writerQ \in Seq(Jobs \union {Null})
      /\ held \in Jobs \union {Null} /\ rjob \in Jobs \union {Null}
      /\ wjob \in [Workers -> Jobs \union {Null}] /\ ready \in [Jobs -> BOOLEAN]
      /\ wpc \in [Workers -> {"new", "idle", "processing", "signalling", "exited"}]
      /\ input \in [Jobs -> 0 .. NumBlocks] /\ output \in [Jobs -> 0 .. NumBlocks]
      /\ next \in 1 .. NumBlocks + 1 /\ NumBlocks \in Nat
      /\ Null \notin Jobs
  BY <1>1, JobsTyped DEF TypeOK
<1>0. direction' = direction
  BY DEF Next, Caller, Writer, Worker, vars
<1>3. CASE PoolInit
  <2>0. DOMAIN [j \in Jobs |-> j] = 1 .. NumJobs /\ [j \in Jobs |-> j] \in Seq(Jobs)
    BY JobsTyped DEF Jobs
  <2>1. cap' \in {0, NumJobs + 1} /\ freeQ' \in Seq(Jobs)
    BY <1>1, <1>2, <1>3, JobsTyped, <2>0 DEF TypeOK, PoolInit
  <2>2. /\ wpc' \in [Workers -> {"new", "idle", "processing", "signalling", "exited"}]
        /\ rpc' \in {"new", "idle", "waiting", "recycling", "exited"} /\ cpc' \in Callers
    BY <1>1, <1>2, <1>3 DEF TypeOK, PoolInit, Callers
  <2>3. UNCHANGED <<workQ, writerQ, input, output, ready, err, next, held, stops,
                    result, wjob, rjob, written>>
    BY <1>3 DEF PoolInit, buffers
  <2>. QED BY <1>0, <1>1, <2>1, <2>2, <2>3 DEF TypeOK
<1>4. CASE PoolInitFails
  <2>1. /\ cpc' \in Callers /\ stops' \in 0 .. NumWorkers
        /\ result' \in {"none", "ok", "error"}
    BY <1>1, <1>2, <1>4, JobsTyped DEF TypeOK, PoolInitFails, Finish, Callers
  <2>2. UNCHANGED <<cap, freeQ, workQ, writerQ, input, output, ready, err, next,
                    held, wpc, wjob, rpc, rjob, written>>
    BY <1>4 DEF PoolInitFails, queues, buffers, workers, writer
  <2>. QED BY <1>0, <1>1, <2>1, <2>2 DEF TypeOK
<1>5. CASE CheckErr
  <2>1. /\ cpc' \in Callers /\ stops' \in 0 .. NumWorkers
        /\ result' \in {"none", "ok", "error"}
    BY <1>1, <1>2, <1>5, JobsTyped DEF TypeOK, CheckErr, Finish, Callers
  <2>2. UNCHANGED <<cap, freeQ, workQ, writerQ, input, output, ready, err, next,
                    held, wpc, wjob, rpc, rjob, written>>
    BY <1>5 DEF CheckErr, queues, buffers, workers, writer
  <2>. QED BY <1>0, <1>1, <2>1, <2>2 DEF TypeOK
<1>6. CASE TakeJob
  BY <1>0, <1>1, <1>2, <1>6, TakeJobQueue
  DEF TakeJob, buffers, workers, writer, TypeOK, Callers
<1>7. CASE ReadBlock
  <2>0. next \in 0 .. NumBlocks
    BY <1>2, <1>7 DEF ReadBlock
  <2>1. input' \in [Jobs -> 0 .. NumBlocks]
    BY <1>2, <1>7, <2>0 DEF ReadBlock
  <2>2. next' \in 1 .. NumBlocks + 1 /\ cpc' \in Callers
    BY <1>1, <1>2, <1>7 DEF TypeOK, ReadBlock, Callers
  <2>3. UNCHANGED <<cap, freeQ, workQ, writerQ, output, ready, err, held, stops,
                    result, wpc, wjob, rpc, rjob, written>>
    BY <1>7 DEF ReadBlock, queues, workers, writer
  <2>. QED BY <1>0, <1>1, <2>1, <2>2, <2>3 DEF TypeOK
<1>8. CASE ReadRawBlock
  <2>0. next \in 0 .. NumBlocks
    BY <1>2, <1>8 DEF ReadRawBlock
  <2>1. output' \in [Jobs -> 0 .. NumBlocks] /\ ready' \in [Jobs -> BOOLEAN]
    BY <1>2, <1>8, <2>0 DEF ReadRawBlock
  <2>2. next' \in 1 .. NumBlocks + 1 /\ cpc' \in Callers
    BY <1>1, <1>2, <1>8 DEF TypeOK, ReadRawBlock, Callers
  <2>3. UNCHANGED <<cap, freeQ, workQ, writerQ, input, err, held, stops, result, wpc,
                    wjob, rpc, rjob, written>>
    BY <1>8 DEF ReadRawBlock, queues, workers, writer
  <2>. QED BY <1>0, <1>1, <2>1, <2>2, <2>3 DEF TypeOK
<1>9. CASE ReadNothing
  <2>1. freeQ' \in Seq(Jobs)
    BY <1>1, <1>2, <1>9, ReadNothingQueue DEF TypeOK, ReadNothing
  <2>2. held' \in Jobs \union {Null} /\ err' \in BOOLEAN
    BY <1>1, <1>2, <1>9 DEF TypeOK, ReadNothing
  <2>3. /\ cpc' \in Callers /\ stops' \in 0 .. NumWorkers
        /\ result' \in {"none", "ok", "error"}
    BY <1>1, <1>2, <1>9, JobsTyped DEF TypeOK, ReadNothing, Finish, Callers
  <2>4. UNCHANGED <<cap, workQ, writerQ, input, output, ready, next, wpc, wjob, rpc,
                    rjob, written>>
    BY <1>9 DEF ReadNothing, buffers, workers, writer
  <2>. QED BY <1>0, <1>1, <2>1, <2>2, <2>3, <2>4 DEF TypeOK
<1>10. CASE PutWork
  BY <1>0, <1>1, <1>2, <1>10, PutWorkQueue
  DEF PutWork, buffers, workers, writer, TypeOK, Callers
<1>11. CASE PutWriter
  BY <1>0, <1>1, <1>2, <1>11, PutWriterQueue
  DEF PutWriter, buffers, workers, writer, TypeOK, Callers
<1>12. CASE StopWorker
  <2>1. workQ' \in Seq(Jobs \union {Null})
    BY <1>1, <1>2, <1>12, StopWorkerQueue DEF TypeOK, StopWorker
  <2>2. stops' \in 0 .. NumWorkers
    BY <1>1, <1>2, <1>12, JobsTyped DEF TypeOK, StopWorker
  <2>3. UNCHANGED <<cap, freeQ, writerQ, input, output, ready, err, next, cpc, held,
                    result, wpc, wjob, rpc, rjob, written>>
    BY <1>12 DEF StopWorker, buffers, workers, writer
  <2>. QED BY <1>0, <1>1, <2>1, <2>2, <2>3 DEF TypeOK
<1>13. CASE StopWriter
  BY <1>0, <1>1, <1>2, <1>13, StopWriterQueue, SMTT(30)
  DEF StopWriter, buffers, workers, writer, TypeOK, Callers
<1>14. CASE Return
  BY <1>0, <1>1, <1>2, <1>14
  DEF Return, queues, buffers, workers, writer, TypeOK, Callers
<1>15. CASE GetJob
  BY <1>0, <1>1, <1>2, <1>15, GetJobQueue
  DEF GetJob, buffers, caller, workers, TypeOK, Callers
<1>16. CASE WriteBlock
  <2>0. rjob \in Jobs /\ output[rjob] \in 0 .. NumBlocks
    BY <1>1, <1>2, <1>16 DEF WriteBlock, Owned
  <2>1. written' \in Seq(0 .. NumBlocks)
    <3>1. written \in Seq(0 .. NumBlocks)
      BY <1>1 DEF TypeOK
    <3>2. Append(written, output[rjob]) \in Seq(0 .. NumBlocks)
      BY <2>0, <3>1, AppendProperties
    <3>. QED BY <1>16, <3>1, <3>2 DEF WriteBlock
  <2>2. err' \in BOOLEAN /\ rpc' \in {"new", "idle", "waiting", "recycling", "exited"}
    BY <1>1, <1>2, <1>16 DEF TypeOK, WriteBlock
  <2>3. UNCHANGED <<cap, freeQ, workQ, writerQ, input, output, ready, next, cpc,
                    held, stops, result, wpc, wjob, rjob>>
    BY <1>16 DEF WriteBlock, queues, buffers, caller, workers
  <2>. QED BY <1>0, <1>1, <2>1, <2>2, <2>3 DEF TypeOK
<1>17. CASE Recycle
  BY <1>0, <1>1, <1>2, <1>17, RecycleQueue
  DEF Recycle, caller, workers, TypeOK, Callers
<1>18. ASSUME NEW w \in Workers, GetWork(w)
      PROVE  TypeOK'
  <2>1. workQ' \in Seq(Jobs \union {Null})
    BY <1>1, <1>2, <1>18, GetWorkQueue DEF TypeOK, GetWork
  <2>2. /\ wpc' \in [Workers -> {"new", "idle", "processing", "signalling", "exited"}]
        /\ wjob' \in [Workers -> Jobs \union {Null}]
    BY <1>1, <1>2, <1>18, GetWorkQueue DEF TypeOK, GetWork
  <2>3. UNCHANGED <<cap, freeQ, writerQ, input, output, ready, err, next, cpc, held,
                    stops, result, rpc, rjob, written>>
    BY <1>18 DEF GetWork, buffers, caller, writer
  <2>. QED BY <1>0, <1>1, <2>1, <2>2, <2>3 DEF TypeOK
<1>19. ASSUME NEW w \in Workers, Process(w)
      PROVE  TypeOK'
  <2>0. wjob[w] \in Jobs /\ input[wjob[w]] \in 0 .. NumBlocks /\ NoBlock \in 0 .. NumBlocks
    BY <1>1, <1>2, <1>19 DEF Process, Owned, NoBlock
  <2>1. output' \in [Jobs -> 0 .. NumBlocks]
    BY <1>1, <1>2, <1>19, <2>0 DEF TypeOK, Process
  <2>2. /\ err' \in BOOLEAN
        /\ wpc' \in [Workers -> {"new", "idle", "processing", "signalling", "exited"}]
    BY <1>1, <1>2, <1>19 DEF TypeOK, Process
  <2>3. UNCHANGED <<cap, freeQ, workQ, writerQ, input, ready, next, cpc, held, stops,
                    result, wjob, rpc, rjob, written>>
    BY <1>19 DEF Process, queues, caller, writer
  <2>. QED BY <1>0, <1>1, <2>1, <2>2, <2>3 DEF TypeOK
<1>20. ASSUME NEW w \in Workers, Signal(w)
      PROVE  TypeOK'
  <2>1. ready' \in [Jobs -> BOOLEAN]
    BY <1>1, <1>2, <1>20 DEF TypeOK, Signal
  <2>2. /\ wpc' \in [Workers -> {"new", "idle", "processing", "signalling", "exited"}]
        /\ wjob' \in [Workers -> Jobs \union {Null}]
    BY <1>1, <1>2, <1>20 DEF TypeOK, Signal
  <2>3. UNCHANGED <<cap, freeQ, workQ, writerQ, input, output, err, next, cpc, held,
                    stops, result, rpc, rjob, written>>
    BY <1>20 DEF Signal, queues, caller, writer
  <2>. QED BY <1>0, <1>1, <2>1, <2>2, <2>3 DEF TypeOK
<1>21. CASE UNCHANGED vars
  BY <1>1, <1>21 DEF vars, queues, buffers, caller, workers, writer, TypeOK
<1>. QED
  BY <1>3, <1>4, <1>5, <1>6, <1>7, <1>8, <1>9, <1>10, <1>11, <1>12, <1>13, <1>14, <1>15,
     <1>16, <1>17, <1>18, <1>19, <1>20, <1>21
  DEF Next, Caller, Writer, Worker

\* What is written is next in order.
LEMMA SoundKept ==
  ASSUME IInv, [Next]_vars
  PROVE  Sound'
<1>1. TypeOK /\ Owned /\ Lent /\ Stopping /\ Sound /\ (~err => Ordered)
  BY DEF IInv
<1>2. /\ freeQ \in Seq(Jobs) /\ workQ \in Seq(Jobs \union {Null})
      /\ writerQ \in Seq(Jobs \union {Null})
      /\ held \in Jobs \union {Null} /\ rjob \in Jobs \union {Null}
      /\ wjob \in [Workers -> Jobs \union {Null}] /\ ready \in [Jobs -> BOOLEAN]
      /\ wpc \in [Workers -> {"new", "idle", "processing", "signalling", "exited"}]
      /\ input \in [Jobs -> 0 .. NumBlocks] /\ output \in [Jobs -> 0 .. NumBlocks]
      /\ next \in 1 .. NumBlocks + 1 /\ NumBlocks \in Nat
      /\ Null \notin Jobs
  BY <1>1, JobsTyped DEF TypeOK
<1>3. CASE PoolInit
  BY <1>1, <1>2, <1>3
  DEF PoolInit, buffers, Sound, InOrder, Owned
<1>4. CASE PoolInitFails
  BY <1>1, <1>2, <1>4
  DEF PoolInitFails, queues, buffers, workers, writer, Finish, Sound, InOrder, Owned
<1>5. CASE CheckErr
  BY <1>1, <1>2, <1>5
  DEF CheckErr, queues, buffers, workers, writer, Finish, Sound, InOrder, Owned
<1>6. CASE TakeJob
  BY <1>1, <1>2, <1>6, TakeJobQueue
  DEF TakeJob, buffers, workers, writer, Sound, InOrder, Owned
<1>7. CASE ReadBlock
  BY <1>1, <1>2, <1>7
  DEF ReadBlock, queues, workers, writer, Sound, InOrder, Owned
<1>8. CASE ReadRawBlock
  BY <1>1, <1>2, <1>8
  DEF ReadRawBlock, queues, workers, writer, Sound, InOrder, Owned
<1>9. CASE ReadNothing
  BY <1>1, <1>2, <1>9, ReadNothingQueue
  DEF ReadNothing, buffers, workers, writer, Finish, Sound, InOrder, Owned
<1>10. CASE PutWork
  BY <1>1, <1>2, <1>10, PutWorkQueue
  DEF PutWork, buffers, workers, writer, Sound, InOrder, Owned
<1>11. CASE PutWriter
  BY <1>1, <1>2, <1>11, PutWriterQueue
  DEF PutWriter, buffers, workers, writer, Sound, InOrder, Owned
<1>12. CASE StopWorker
  BY <1>1, <1>2, <1>12, StopWorkerQueue
  DEF StopWorker, buffers, workers, writer, Sound, InOrder, Owned
<1>13. CASE StopWriter
  BY <1>1, <1>2, <1>13, StopWriterQueue
  DEF StopWriter, buffers, workers, writer, Sound, InOrder, Owned
<1>14. CASE Return
  BY <1>1, <1>2, <1>14
  DEF Return, queues, buffers, workers, writer, Sound, InOrder, Owned
<1>15. CASE GetJob
  BY <1>1, <1>2, <1>15, GetJobQueue
  DEF GetJob, buffers, caller, workers, Sound, InOrder, Owned
<1>16. CASE WriteBlock
  <2>1. CASE err
    BY <1>1, <1>16, <2>1 DEF WriteBlock, queues, buffers, caller, workers, InOrder, Sound
  <2>2. CASE ~err /\ written' = written
    BY <1>1, <1>16, <2>2 DEF WriteBlock, queues, buffers, caller, workers, InOrder, Sound
  <2>3. CASE ~err /\ written' = Append(written, output[rjob])
    <3>1. /\ rpc = "waiting" /\ ready[rjob] /\ UNCHANGED <<cpc, input, held, next>>
      BY <1>16 DEF WriteBlock, queues, buffers, caller
    <3>2. Ordered
      BY <1>1, <2>3
    <3>3. output[rjob] = Len(written) + 1
      BY <3>1, <3>2 DEF Ordered, Carries
    <3>4. /\ written \in Seq(0 .. NumBlocks) /\ output[rjob] \in 0 .. NumBlocks
      BY <1>1, <1>2, <3>1 DEF TypeOK, Owned
    <3>5. /\ Len(written') = Len(written) + 1 /\ Len(written) \in Nat
          /\ DOMAIN written = 1 .. Len(written) /\ DOMAIN written' = 1 .. Len(written) + 1
          /\ \A i \in 1 .. Len(written) : written'[i] = written[i]
          /\ written'[Len(written) + 1] = output[rjob]
      BY <2>3, <3>4, AppendProperties, LenProperties
    <3>6. \A i \in DOMAIN written' : written'[i] = i
      <4>1. \A i \in DOMAIN written' : i \in 1 .. Len(written) \/ i = Len(written) + 1
        BY <3>5
      <4>. QED BY <1>1, <3>3, <3>5, <4>1 DEF InOrder, Sound
    <3>7. Len(written) + 1 < next
      <4>1. /\ Len(writerQ) \in Nat /\ (LastPointer => Len(writerQ) > 0)
        BY <1>1, <1>2, EmptySeq, LenProperties DEF Stopping
      <4>. QED BY <1>2, <3>1, <3>2, <3>5, <4>1 DEF Ordered, One
    <3>. QED BY <1>1, <3>1, <3>5, <3>6, <3>7 DEF InOrder, Sound
  <2>. QED BY <1>16, <2>1, <2>2, <2>3 DEF WriteBlock
<1>17. CASE Recycle
  BY <1>1, <1>2, <1>17, RecycleQueue
  DEF Recycle, caller, workers, Sound, InOrder, Owned
<1>18. ASSUME NEW w \in Workers, GetWork(w)
      PROVE  Sound'
  BY <1>1, <1>2, <1>18, GetWorkQueue
  DEF GetWork, buffers, caller, writer, Sound, InOrder, Owned
<1>19. ASSUME NEW w \in Workers, Process(w)
      PROVE  Sound'
  BY <1>1, <1>2, <1>19
  DEF Process, queues, caller, writer, Sound, InOrder, Owned
<1>20. ASSUME NEW w \in Workers, Signal(w)
      PROVE  Sound'
  BY <1>1, <1>2, <1>20
  DEF Signal, queues, caller, writer, Sound, InOrder, Owned
<1>21. CASE UNCHANGED vars
  BY <1>1, <1>21 DEF vars, queues, buffers, caller, workers, writer, Sound, InOrder
<1>. QED
  BY <1>3, <1>4, <1>5, <1>6, <1>7, <1>8, <1>9, <1>10, <1>11, <1>12, <1>13, <1>14, <1>15,
     <1>16, <1>17, <1>18, <1>19, <1>20, <1>21
  DEF Next, Caller, Writer, Worker

\* The blocks of the jobs stay in order, as long as there is no error.
LEMMA OrderKept ==
  ASSUME IInv, [Next]_vars, ~err'
  PROVE  Ordered'
<1>0. ~err
  BY DEF Next, Caller, Writer, Worker, vars, PoolInit, PoolInitFails, CheckErr, TakeJob,
         ReadBlock, ReadRawBlock, ReadNothing, PutWork, PutWriter, StopWorker, StopWriter,
         Return, GetJob, WriteBlock, Recycle, GetWork, Process, Signal, caller
<1>1. /\ TypeOK /\ Owned /\ Lent /\ Stopping
      /\ Len(written) < next /\ (cpc = "put_work" => input[held] = next - 1)
  BY DEF IInv, Sound
<1>2. /\ freeQ \in Seq(Jobs) /\ workQ \in Seq(Jobs \union {Null})
      /\ writerQ \in Seq(Jobs \union {Null})
      /\ held \in Jobs \union {Null} /\ rjob \in Jobs \union {Null}
      /\ wjob \in [Workers -> Jobs \union {Null}] /\ ready \in [Jobs -> BOOLEAN]
      /\ wpc \in [Workers -> {"new", "idle", "processing", "signalling", "exited"}]
      /\ input \in [Jobs -> 0 .. NumBlocks] /\ output \in [Jobs -> 0 .. NumBlocks]
      /\ next \in 1 .. NumBlocks + 1 /\ NumBlocks \in Nat
      /\ Null \notin Jobs
  BY <1>1, JobsTyped DEF TypeOK
<1>3. Ordered
  BY <1>0 DEF IInv
<1>4. /\ Len(written) \in Nat /\ Len(writerQ) \in Nat /\ next \in Nat
      /\ DOMAIN writerQ = 1 .. Len(writerQ)
  BY <1>1, <1>2, LenProperties DEF TypeOK
<1>5. \A i \in DOMAIN writerQ : writerQ[i] # Null =>
        /\ writerQ[i] \in Jobs
        /\ held # Null => writerQ[i] # held
        /\ rjob # Null => writerQ[i] # rjob
  <2>1. \A i \in DOMAIN writerQ : writerQ[i] \in Elements(writerQ)
    BY DEF Elements
  <2>2. Elements(writerQ) \subseteq Jobs \union {Null}
    BY <1>2, ElementsOf
  <2>. QED BY <1>1, <2>1, <2>2 DEF Owned
<1>6. CASE PoolInit
  <2>1. /\ cpc = "init" /\ writerQ = <<>> /\ rpc = "new" /\ cpc' = "loop" /\ rpc' = "idle"
        /\ UNCHANGED <<writerQ, written, next>>
    BY <1>6 DEF IInv, PoolInit
  <2>. QED BY <1>3, <1>4, <2>1 DEF Ordered, LastPointer, One
<1>7. CASE PoolInitFails
  BY <1>1, <1>2, <1>3, <1>4, <1>7
  DEF PoolInitFails, queues, buffers, workers, writer, Finish, Ordered, Carries,
      LastPointer, One
<1>8. CASE CheckErr
  BY <1>1, <1>2, <1>3, <1>4, <1>8
  DEF CheckErr, queues, buffers, workers, writer, Finish, Ordered, Carries, LastPointer, One
<1>9. CASE TakeJob
  BY <1>1, <1>2, <1>3, <1>4, <1>9, TakeJobQueue
  DEF TakeJob, buffers, workers, writer, Ordered, Carries, LastPointer, One
<1>10. CASE ReadBlock
  <2>1. /\ cpc = "read" /\ cpc' = "put_work" /\ next' = next + 1
        /\ UNCHANGED <<writerQ, rpc, rjob, written>>
    BY <1>10 DEF ReadBlock, queues, writer
  <2>2. \A j \in Jobs : \A b : j # held /\ Carries(j, b) => Carries(j, b)'
    BY <1>2, <1>10 DEF ReadBlock, queues, workers, Carries
  <2>3. held # Null /\ (rpc = "waiting" => rjob # held /\ rjob \in Jobs)
    BY <1>1, <1>2, <2>1 DEF Owned
  <2>. QED BY <1>3, <1>4, <1>5, <2>1, <2>2, <2>3 DEF Ordered, LastPointer, One
<1>11. CASE ReadRawBlock
  <2>1. /\ cpc = "read" /\ cpc' = "put_writer" /\ next' = next + 1
        /\ UNCHANGED <<writerQ, rpc, rjob, written, held>>
        /\ output' = [output EXCEPT ![held] = next]
        /\ UNCHANGED <<workQ, wpc, wjob, input>>
    BY <1>11 DEF ReadRawBlock, queues, workers, writer
  <2>2. \A j \in Jobs : \A b : j # held /\ Carries(j, b) => Carries(j, b)'
    BY <1>2, <1>11 DEF ReadRawBlock, queues, workers, Carries
  <2>3. held \in Jobs /\ (rpc = "waiting" => rjob # held /\ rjob \in Jobs)
    BY <1>1, <1>2, <2>1 DEF Owned
  <2>4. held \notin Elements(workQ) /\ \A w \in Workers : wjob[w] # held
    BY <1>1, <1>2, <2>1, <2>3 DEF Owned, Lent, Awaited
  <2>5. output'[held'] = next' - 1
    BY <1>2, <2>1, <2>3
  <2>6. Carries(held, next - 1)'
    BY <2>1, <2>4, <2>5 DEF Carries
  <2>. QED BY <1>3, <1>4, <1>5, <2>1, <2>2, <2>3, <2>6 DEF Ordered, LastPointer, One
<1>12. CASE ReadNothing
  <2>1. \A j, b : Carries(j, b)' <=> Carries(j, b)
    BY <1>12 DEF ReadNothing, buffers, workers, writer, Carries
  <2>2. /\ cpc = "read" /\ cpc' = "stop_workers"
        /\ UNCHANGED <<writerQ, rpc, rjob, written, next>>
    BY <1>12 DEF ReadNothing, Finish, writer
  <2>. QED BY <1>3, <1>4, <2>1, <2>2 DEF Ordered, LastPointer, One
<1>13. CASE PutWork
  <2>1. /\ cpc = "put_work" /\ cpc' = "put_writer"
        /\ UNCHANGED <<writerQ, rpc, rjob, written, held, next>>
        /\ UNCHANGED <<wpc, wjob, input, output, ready>>
    BY <1>13 DEF PutWork, buffers, workers, writer
  <2>2. held \in Jobs /\ (rpc = "waiting" => rjob # held /\ rjob \in Jobs)
    BY <1>1, <1>2, <2>1 DEF Owned
  <2>3. Elements(workQ') = Elements(workQ) \union {held}
    BY <1>1, <1>13, PutWorkQueue
  <2>4. \A j \in Jobs : \A b : j # held /\ Carries(j, b) => Carries(j, b)'
    BY <2>1, <2>3 DEF Carries
  <2>5. ~ready[held] /\ \A w \in Workers : wjob[w] # held
    BY <1>1, <1>2, <2>1, <2>2 DEF Owned, Lent, Awaited
  <2>6. Carries(held, next - 1)'
    BY <1>1, <2>1, <2>5 DEF Carries
  <2>. QED BY <1>3, <1>4, <1>5, <2>1, <2>2, <2>4, <2>6 DEF Ordered, LastPointer, One
<1>14. CASE PutWriter
  <2>1. \A j, b : Carries(j, b)' <=> Carries(j, b)
    BY <1>14 DEF PutWriter, buffers, workers, writer, Carries
  <2>2. /\ cpc = "put_writer" /\ cpc' = "loop"
        /\ UNCHANGED <<rpc, rjob, written, next>>
    BY <1>14 DEF PutWriter, writer
  <2>3. /\ next - 1 = Len(written) + One(rpc = "waiting") + Len(writerQ) + 1
        /\ Carries(held, next - 1) /\ ~LastPointer /\ ~LastPointer'
    BY <1>3, <1>4, <2>2 DEF Ordered, LastPointer, One
  <2>4. ASSUME NEW i \in DOMAIN writerQ', writerQ'[i] # Null
        PROVE  Carries(writerQ[i], Len(written) + One(rpc = "waiting") + i)'
    <3>1. CASE i \in 1 .. Len(writerQ)
      BY <1>1, <1>3, <1>14, <2>1, <2>2, <2>4, <3>1, PutWriterQueue DEF Ordered
    <3>2. CASE i = Len(writerQ) + 1
      <4>1. Len(written) + One(rpc = "waiting") + i = next - 1
        <5>1. One(rpc = "waiting") \in {0, 1}
          BY DEF One
        <5>2. next - 1 = Len(written) + One(rpc = "waiting") + Len(writerQ) + 1
          BY <2>3
        <5>. QED BY <1>4, <3>2, <5>1, <5>2
      <4>2. writerQ'[i] = held
        BY <1>1, <1>14, <3>2, PutWriterQueue
      <4>. QED BY <2>1, <2>2, <2>3, <4>1, <4>2
    <3>. QED BY <1>1, <1>14, <2>4, <3>1, <3>2, PutWriterQueue
  <2>5. next' - 1 = Len(written') + One(rpc' = "waiting") + Len(writerQ')
                    - One(LastPointer') + One(cpc' \in {"put_work", "put_writer"})
    BY <1>1, <1>4, <1>14, <2>2, <2>3, PutWriterQueue DEF One
  <2>. QED BY <1>3, <2>1, <2>2, <2>4, <2>5 DEF Ordered
<1>15. CASE StopWorker
  <2>1. UNCHANGED <<cpc, writerQ, rpc, rjob, written, held, next>>
        /\ UNCHANGED <<wpc, wjob, input, output, ready>> /\ cpc = "stop_workers"
    BY <1>15 DEF StopWorker, buffers, workers, writer
  <2>2. Elements(workQ') = Elements(workQ) \union {Null}
    BY <1>1, <1>15, StopWorkerQueue
  <2>3. \A j \in Jobs : \A b : Carries(j, b) => Carries(j, b)'
    BY <1>2, <2>1, <2>2 DEF Carries
  <2>4. rpc = "waiting" => rjob \in Jobs
    BY <1>1, <1>2 DEF Owned
  <2>. QED BY <1>3, <1>4, <1>5, <2>1, <2>3, <2>4 DEF Ordered, LastPointer, One
<1>16. CASE StopWriter
  <2>1. \A j, b : Carries(j, b)' <=> Carries(j, b)
    BY <1>16 DEF StopWriter, buffers, workers, writer, Carries
  <2>2. /\ cpc = "stop_workers" /\ cpc' = "join_writer"
        /\ UNCHANGED <<rpc, rjob, written, next>>
    BY <1>16 DEF StopWriter, writer
  <2>3. ASSUME NEW i \in DOMAIN writerQ', writerQ'[i] # Null
        PROVE  Carries(writerQ[i], Len(written) + One(rpc = "waiting") + i)'
    <3>1. i \in DOMAIN writerQ /\ writerQ'[i] = writerQ[i]
      BY <1>1, <1>16, <2>3, StopWriterQueue
    <3>. QED BY <1>3, <2>1, <2>2, <2>3, <3>1 DEF Ordered
  <2>4. rpc # "exited"
    BY <1>1, <2>2 DEF Stopping
  <2>5. next' - 1 = Len(written') + One(rpc' = "waiting") + Len(writerQ')
                    - One(LastPointer') + One(cpc' \in {"put_work", "put_writer"})
    BY <1>1, <1>3, <1>4, <1>16, <2>2, <2>4, StopWriterQueue DEF Ordered, One, LastPointer
  <2>. QED BY <1>3, <2>1, <2>2, <2>3, <2>5 DEF Ordered
<1>17. CASE Return
  BY <1>1, <1>2, <1>3, <1>4, <1>17
  DEF Return, queues, buffers, workers, writer, Ordered, Carries, LastPointer, One
<1>18. CASE GetJob
  <2>1. \A j, b : Carries(j, b)' <=> Carries(j, b)
    BY <1>18 DEF GetJob, buffers, caller, workers, Carries
  <2>2. /\ rpc = "idle" /\ rjob' = Head(writerQ) /\ UNCHANGED <<cpc, held, written, next>>
        /\ rpc' = IF Head(writerQ) = Null THEN "exited" ELSE "waiting"
    BY <1>18 DEF GetJob, caller
  <2>3. CASE Head(writerQ) = Null
    <3>1. LastPointer /\ Len(writerQ) = 1
      BY <1>1, <1>18, <2>3, GetJobQueue DEF Stopping
    <3>2. DOMAIN writerQ' = {} /\ Len(writerQ') = 0
      BY <1>1, <1>18, <3>1, GetJobQueue
    <3>. QED BY <1>3, <1>4, <2>1, <2>2, <2>3, <3>1, <3>2 DEF Ordered, LastPointer, One
  <2>4. CASE Head(writerQ) # Null
    <3>1. Carries(Head(writerQ), Len(written) + 1)
      <4>1. Carries(writerQ[1], Len(written) + One(rpc = "waiting") + 1)
        BY <1>1, <1>3, <1>18, <2>4, GetJobQueue DEF Ordered
      <4>. QED BY <1>1, <1>4, <1>18, <2>2, <4>1, GetJobQueue DEF One
    <3>2. ASSUME NEW i \in DOMAIN writerQ', writerQ'[i] # Null
          PROVE  Carries(writerQ[i], Len(written) + One(rpc = "waiting") + i)'
      <4>1. i + 1 \in DOMAIN writerQ /\ writerQ'[i] = writerQ[i + 1]
        BY <1>1, <1>18, GetJobQueue
      <4>2. Carries(writerQ[i + 1], Len(written) + One(rpc = "waiting") + (i + 1))
        BY <1>3, <3>2, <4>1 DEF Ordered
      <4>3. Len(written) + One(rpc = "waiting") + (i + 1)
              = Len(written') + One(rpc' = "waiting") + i
        BY <1>1, <1>4, <1>18, <2>2, <2>4, GetJobQueue DEF One
      <4>. QED BY <2>1, <4>1, <4>2, <4>3
    <3>3. next' - 1 = Len(written') + One(rpc' = "waiting") + Len(writerQ')
                      - One(LastPointer') + One(cpc' \in {"put_work", "put_writer"})
      BY <1>1, <1>3, <1>4, <1>18, <2>2, <2>4, GetJobQueue, SMTT(30)
      DEF Ordered, One, LastPointer
    <3>. QED BY <1>3, <2>1, <2>2, <2>4, <3>1, <3>2, <3>3 DEF Ordered
  <2>. QED BY <2>3, <2>4
<1>19. CASE WriteBlock
  <2>1. \A j, b : Carries(j, b)' <=> Carries(j, b)
    BY <1>19 DEF WriteBlock, queues, buffers, caller, workers, Carries
  <2>2. /\ rpc = "waiting" /\ rpc' = "recycling" /\ UNCHANGED <<cpc, held, writerQ, next>>
        /\ written' = Append(written, output[rjob])
    BY <1>19 DEF WriteBlock, queues, caller
  <2>3. Len(written') = Len(written) + 1
    BY <1>1, <2>2 DEF TypeOK
  <2>4. Len(written') + One(rpc' = "waiting") = Len(written) + One(rpc = "waiting")
    BY <1>4, <2>2, <2>3 DEF One
  <2>5. LastPointer' <=> LastPointer
    BY <2>2 DEF LastPointer
  <2>. QED BY <1>3, <2>1, <2>2, <2>4, <2>5 DEF Ordered
<1>20. CASE Recycle
  BY <1>1, <1>2, <1>3, <1>4, <1>20, RecycleQueue
  DEF Recycle, caller, workers, Ordered, Carries, LastPointer, One
<1>21. ASSUME NEW w \in Workers, GetWork(w)
      PROVE  Ordered'
  <2>1. /\ Elements(workQ) = Elements(workQ') \union {Head(workQ)}
        /\ Head(workQ) # Null => Head(workQ) \notin Elements(workQ')
    BY <1>1, <1>21, GetWorkQueue DEF Owned
  <2>2. /\ UNCHANGED <<input, output, ready>> /\ wpc[w] = "idle"
        /\ IF Head(workQ) = Null
           THEN wpc' = [wpc EXCEPT ![w] = "exited"] /\ wjob' = wjob
           ELSE /\ wpc' = [wpc EXCEPT ![w] = "processing"]
                /\ wjob' = [wjob EXCEPT ![w] = Head(workQ)]
    BY <1>21 DEF GetWork, buffers
  <2>3. ASSUME NEW j \in Jobs, NEW b, Carries(j, b)
        PROVE  Carries(j, b)'
    <3>1. wjob[w] = Null
      BY <1>1, <2>2 DEF Owned
    <3>2. CASE Head(workQ) = Null
      <4>1. \A v \in Workers : wjob'[v] = j => v # w /\ wjob[v] = j /\ wpc'[v] = wpc[v]
        BY <1>2, <2>2, <3>1, <3>2
      <4>. QED BY <2>1, <2>2, <2>3, <4>1 DEF Carries
    <3>3. CASE Head(workQ) # Null
      <4>1. \A v \in Workers : wjob'[v] = j =>
              \/ v = w /\ j = Head(workQ) /\ wpc'[v] = "processing"
              \/ v # w /\ wjob[v] = j /\ wpc'[v] = wpc[v]
        BY <1>2, <2>2, <3>1, <3>3
      <4>. QED BY <2>1, <2>2, <2>3, <4>1 DEF Carries
    <3>. QED BY <3>2, <3>3
  <2>8. /\ rpc = "waiting" => rjob \in Jobs
        /\ cpc = "put_writer" => held \in Jobs
    BY <1>1, <1>2 DEF Owned
  <2>9. UNCHANGED <<cpc, held, next, writerQ, rpc, rjob, written>>
    BY <1>21 DEF GetWork, buffers, caller, writer
  <2>. QED BY <1>3, <1>4, <1>5, <2>3, <2>8, <2>9 DEF Ordered, LastPointer, One
<1>22. ASSUME NEW w \in Workers, Process(w)
      PROVE  Ordered'
  <2>1. /\ UNCHANGED <<workQ, wjob, input, ready>> /\ wpc[w] = "processing"
        /\ output' = [output EXCEPT ![wjob[w]] = input[wjob[w]]]
        /\ wpc' = [wpc EXCEPT ![w] = "signalling"]
    BY <1>22 DEF Process, queues
  <2>2. /\ wjob[w] \in Jobs /\ wjob[w] \notin Elements(workQ) /\ ~ready[wjob[w]]
        /\ \A v \in Workers : v # w => wjob[v] # wjob[w]
    BY <1>1, <1>2, <2>1 DEF Owned, Lent
  <2>3. ASSUME NEW j \in Jobs, NEW b, Carries(j, b)
        PROVE  Carries(j, b)'
    <3>1. CASE j = wjob[w]
      <4>1. input[j] = b /\ output'[j] = b
        BY <1>2, <2>1, <2>2, <2>3, <3>1 DEF Carries
      <4>2. \A v \in Workers : wjob'[v] = j => v = w /\ wpc'[v] = "signalling"
        BY <1>2, <2>1, <2>2, <3>1
      <4>. QED BY <2>1, <2>2, <3>1, <4>1, <4>2 DEF Carries
    <3>2. CASE j # wjob[w]
      <4>1. output'[j] = output[j] /\ \A v \in Workers : wjob[v] = j => wpc'[v] = wpc[v]
        BY <1>2, <2>1, <2>2, <3>2
      <4>. QED BY <2>1, <2>3, <4>1 DEF Carries
    <3>. QED BY <3>1, <3>2
  <2>8. /\ rpc = "waiting" => rjob \in Jobs
        /\ cpc = "put_writer" => held \in Jobs
    BY <1>1, <1>2 DEF Owned
  <2>9. UNCHANGED <<cpc, held, next, writerQ, rpc, rjob, written>>
    BY <1>22 DEF Process, queues, caller, writer
  <2>. QED BY <1>3, <1>4, <1>5, <2>3, <2>8, <2>9 DEF Ordered, LastPointer, One
<1>23. ASSUME NEW w \in Workers, Signal(w)
      PROVE  Ordered'
  <2>1. /\ UNCHANGED <<workQ, input, output>> /\ wpc[w] = "signalling"
        /\ ready' = [ready EXCEPT ![wjob[w]] = TRUE]
        /\ wpc' = [wpc EXCEPT ![w] = "idle"]
        /\ wjob' = [wjob EXCEPT ![w] = Null]
    BY <1>23 DEF Signal, queues
  <2>2. wjob[w] \in Jobs
    BY <1>1, <1>2, <2>1 DEF Owned
  <2>3. ASSUME NEW j \in Jobs, NEW b, Carries(j, b)
        PROVE  Carries(j, b)'
    <3>1. \A v \in Workers : wjob'[v] = j => wjob[v] = j /\ wpc'[v] = wpc[v]
      BY <1>2, <2>1
    <3>2. ready'[j] => ready[j] \/ j = wjob[w]
      BY <1>2, <2>1, <2>2
    <3>3. j = wjob[w] => output[j] = b
      BY <2>1, <2>3 DEF Carries
    <3>. QED BY <2>1, <2>3, <3>1, <3>2, <3>3 DEF Carries
  <2>8. /\ rpc = "waiting" => rjob \in Jobs
        /\ cpc = "put_writer" => held \in Jobs
    BY <1>1, <1>2 DEF Owned
  <2>9. UNCHANGED <<cpc, held, next, writerQ, rpc, rjob, written>>
    BY <1>23 DEF Signal, queues, caller, writer
  <2>. QED BY <1>3, <1>4, <1>5, <2>3, <2>8, <2>9 DEF Ordered, LastPointer, One
<1>24. CASE UNCHANGED vars
  BY <1>3, <1>24
  DEF vars, queues, buffers, caller, workers, writer, Ordered, Carries, LastPointer
<1>. QED
  BY <1>6, <1>7, <1>8, <1>9, <1>10, <1>11, <1>12, <1>13, <1>14, <1>15, <1>16, <1>17, <1>18,
     <1>19, <1>20, <1>21, <1>22, <1>23, <1>24
  DEF Next, Caller, Writer, Worker

-----------------------------------------------------------------------------
(***************************************************************************)
(* Theorems.                                                               *)
(***************************************************************************)
\* The inductive invariant holds in the beginning.
LEMMA InitInv ==
  ASSUME Init
  PROVE  IInv
<1>1. TypeOK
  <2>1. 0 \in 0 .. NumBlocks /\ 1 \in 1 .. NumBlocks + 1 /\ 0 \in 0 .. NumWorkers
    BY JobsTyped
  <2>2. /\ <<>> \in Seq(Jobs) /\ <<>> \in Seq(Jobs \union {Null})
        /\ <<>> \in Seq(0 .. NumBlocks)
    OBVIOUS
  <2>3. /\ [j \in Jobs |-> NoBlock] \in [Jobs -> 0 .. NumBlocks]
        /\ [j \in Jobs |-> FALSE] \in [Jobs -> BOOLEAN]
        /\ [w \in Workers |-> Null] \in [Workers -> Jobs \union {Null}]
    BY <2>1 DEF NoBlock
  <2>. QED BY <2>1, <2>2, <2>3 DEF Init, TypeOK, Callers
<1>2. Owned
  BY DEF Init, Owned, Distinct, Elements
<1>3. Lent
  BY DEF Init, Lent, Elements
<1>4. Stopping /\ Sound /\ Ordered
  BY DEF Init, Stopping, LastPointer, Sound, InOrder, Ordered, One
<1>. QED BY <1>1, <1>2, <1>3, <1>4 DEF Init, IInv

\* The writer is idle until the pool is initialised.
LEMMA FreshKept ==
  ASSUME IInv, [Next]_vars
  PROVE  (cpc = "init" => /\ writerQ = <<>> /\ rpc = "new"
                          /\ \A w \in Workers : wpc[w] = "new")'
<1>1. cpc' = "init" => cpc = "init"
  BY DEF Next, Caller, Writer, Worker, vars, PoolInit, PoolInitFails, CheckErr, TakeJob,
         ReadBlock, ReadRawBlock, ReadNothing, PutWork, PutWriter, StopWorker, StopWriter,
         Return, GetJob, WriteBlock, Recycle, GetWork, Process, Signal, caller, Finish
<1>2. cpc = "init" => /\ writerQ = <<>> /\ rpc = "new"
                      /\ \A w \in Workers : wpc[w] = "new"
  BY DEF IInv
<1>3. cpc = "init" => PoolInit \/ PoolInitFails \/ UNCHANGED vars
  BY <1>2 DEF Next, Caller, Writer, Worker, CheckErr, TakeJob,
         ReadBlock, ReadRawBlock, ReadNothing, PutWork, PutWriter, StopWorker, StopWriter,
         Return, GetJob, WriteBlock, Recycle, GetWork, Process, Signal
<1>. QED BY <1>1, <1>2, <1>3 DEF PoolInit, PoolInitFails, Finish, vars, queues, workers,
                                 writer, caller

\* The inductive invariant holds in every state.
THEOREM Invariance == Spec => []IInv
<1>1. Init => IInv
  BY InitInv
<1>2. IInv /\ [Next]_vars => IInv'
  BY TypeKept, OwnedKept, LentKept, StoppingKept, SoundKept, OrderKept, FreshKept DEF IInv
<1>. QED BY <1>1, <1>2, PTL DEF Spec

\* Every variable has its type: in particular, the event, the buffers and the queues of
\* the pool are only ever used for a job that is one.
THEOREM TypeCorrect == Spec => []TypeOK
<1>1. IInv => TypeOK
  BY DEF IInv
<1>. QED BY <1>1, Invariance, PTL

\* The buffers of a job have one user at a time, for any number of workers
\* (C_4x4.cpp:264, 286).
THEOREM BuffersHaveOneUser == Spec => []OneUser
<1>1. IInv => OneUser
  <2>. SUFFICES ASSUME IInv
                PROVE  OneUser
    OBVIOUS
  <2>1. TypeOK /\ Owned /\ Lent
    BY DEF IInv
  <2>2. Null \notin Jobs /\ Elements(freeQ) \subseteq Jobs
    BY <2>1, JobsTyped, ElementsOf DEF TypeOK
  <2>3. \A j \in Jobs : j \in WithWorkers => j \in Awaited /\ ~ready[j]
    BY <2>1, <2>2 DEF Lent, WithWorkers
  <2>4. \A j \in Jobs : j \in Awaited =>
          /\ j \notin Elements(freeQ)
          /\ ~(j = held /\ cpc \in {"read", "put_work"})
          /\ ~(j = rjob /\ rpc = "recycling")
    BY <2>1, <2>2 DEF Owned, Awaited
  <2>5. \A j \in Elements(freeQ) : ~ready[j]
    BY <2>1, <2>2, <2>4 DEF Owned, Lent
  <2>6. WithWorkers \subseteq Jobs \union {Null}
    BY <2>1, ElementsOf DEF TypeOK, WithWorkers
  <2>. QED BY <2>1, <2>2, <2>3, <2>4, <2>5, <2>6 DEF OneUser, Lent
<1>. QED BY <1>1, Invariance, PTL

\* A step of the pool is a step of the filter, or none.
LEMMA FilterStep ==
  ASSUME IInv, IInv', [Next]_vars
  PROVE  [Filter!Next]_Filter!vars
<1>1. /\ TypeOK /\ Owned /\ Stopping /\ InOrder /\ InOrder' /\ Len(written') < next'
      /\ next' \in 1 .. NumBlocks + 1 /\ NumBlocks \in Nat /\ (~err => Ordered)
      /\ written \in Seq(0 .. NumBlocks)
  BY JobsTyped DEF IInv, Sound, TypeOK
<1>2. Len(written) \in Nat
  BY <1>1, LenProperties
<1>3. ASSUME written' = written, cpc' = "returned" <=> cpc = "returned",
             cpc = "returned" => result' = result
      PROVE  [Filter!Next]_Filter!vars
  BY <1>1, <1>3 DEF Filter!vars
<1>4. CASE WriteBlock
  <2>1. cpc # "returned" /\ cpc' # "returned"
    BY <1>1, <1>4 DEF WriteBlock, caller, Stopping
  <2>2. CASE written' = written
    BY <1>3, <2>1, <2>2
  <2>3. CASE written' = Append(written, output[rjob])
    <3>1. rjob \in Jobs /\ output[rjob] \in 0 .. NumBlocks
      BY <1>1, <1>4 DEF WriteBlock, TypeOK, Owned
    <3>2. Len(written') = Len(written) + 1
      BY <1>1, <2>3, <3>1, AppendProperties
    <3>3. Len(written) < NumBlocks
      BY <1>1, <1>2, <3>2
    <3>. QED BY <1>1, <2>1, <3>2, <3>3 DEF Filter!Next, Filter!Emit
  <2>. QED BY <1>4, <2>2, <2>3 DEF WriteBlock
<1>5. CASE Return
  <2>1. /\ cpc = "join_writer" /\ rpc = "exited" /\ cpc' = "returned"
        /\ UNCHANGED written
        /\ result' = IF result = "ok" /\ err THEN "error" ELSE result
    BY <1>5 DEF Return, writer
  <2>2. result \in {"ok", "error"}
    BY <1>1, <2>1 DEF TypeOK, Stopping
  <2>3. CASE result' = "error"
    BY <1>1, <2>1, <2>3 DEF Filter!Next, Filter!Fail
  <2>4. CASE result' = "ok"
    <3>1. /\ ~err /\ next = NumBlocks + 1 /\ writerQ = <<>> /\ ~LastPointer
      BY <1>1, <2>1, <2>4 DEF Stopping, LastPointer
    <3>2. Len(written) = NumBlocks
      BY <1>1, <1>2, <2>1, <3>1, EmptySeq DEF Ordered, One
    <3>. QED BY <1>1, <2>1, <2>4, <3>2 DEF Filter!Next, Filter!Succeed
  <2>. QED BY <2>1, <2>2, <2>3, <2>4
<1>6. CASE PoolInit
  BY <1>3, <1>6 DEF PoolInit
<1>7. CASE PoolInitFails \/ CheckErr \/ ReadNothing
  BY <1>3, <1>7 DEF PoolInitFails, CheckErr, ReadNothing, Finish, writer
<1>8. CASE TakeJob \/ ReadBlock \/ ReadRawBlock \/ PutWork \/ PutWriter
  BY <1>3, <1>8 DEF TakeJob, ReadBlock, ReadRawBlock, PutWork, PutWriter, writer
<1>9. CASE StopWorker \/ StopWriter
  BY <1>3, <1>9 DEF StopWorker, StopWriter, writer
<1>10. CASE GetJob \/ Recycle
  BY <1>3, <1>10 DEF GetJob, Recycle, caller
<1>11. ASSUME NEW w \in Workers, GetWork(w) \/ Process(w) \/ Signal(w)
       PROVE  [Filter!Next]_Filter!vars
  BY <1>3, <1>11 DEF GetWork, Process, Signal, caller, writer
<1>12. CASE UNCHANGED vars
  BY <1>3, <1>12 DEF vars, caller, writer
<1>. QED
  BY <1>4, <1>5, <1>6, <1>7, <1>8, <1>9, <1>10, <1>11, <1>12
  DEF Next, Caller, Writer, Worker

\* 4x4 implements the filter: its blocks come out whole and in order, and success means
\* all of them, for any number of workers and blocks and any faults.
THEOREM ImplementsFilter == Spec => FilterSpec
<1>1. Init => Filter!Init
  BY DEF Init, Filter!Init, InOrder
<1>2. IInv /\ IInv' /\ [Next]_vars => [Filter!Next]_Filter!vars
  BY FilterStep
<1>. QED BY <1>1, <1>2, Invariance, PTL DEF Spec, FilterSpec, Filter!Spec
=============================================================================
