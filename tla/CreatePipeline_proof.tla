----------------------- MODULE CreatePipeline_proof -----------------------
(***************************************************************************)
(* Proofs about the reading and the packing process, for any layout of the *)
(* archive, any number of buffers and any files that vanish or shrink.     *)
(***************************************************************************)
EXTENDS CreatePipeline, SequenceTheorems, TLAPS

-----------------------------------------------------------------------------
(***************************************************************************)
(* The inductive invariant.                                                *)
(***************************************************************************)
Chunks == [blk : 1 .. LastBlock, file : Nat]
Entries == [file : Nat, chunks : 0 .. MaxChunks]
Descriptors == [blk : 1 .. LastBlock, pos : Nat, size : Nat, dir : Seq(Entries)]

Typed == /\ TypeOK
         /\ dir \in Seq(Entries)
         /\ infos \in Seq(Descriptors) /\ backdoor \in Seq(Descriptors)
         /\ archive \in Seq(Chunks) /\ store \in Seq(Chunks) /\ inHand \in Seq(Chunks)
         /\ begun \in [blk : 0 .. LastBlock, pos : Nat]

\* The descriptors of the blocks that are packed, and where the n-th of them ends.
delivered == infos \o backdoor
End(n) == IF n = 0 THEN 0 ELSE delivered[n].pos + delivered[n].size

\* The reader: which blocks of the layout are sent in which way.
Walking ==
  /\ rpc \notin {"open", "seek", "scan", "end"} => blk <= LastBlock
  /\ rpc = "end" => blk = LastBlock + 1
  /\ rpc \in {"open", "seek", "scan", "collect"} => dir = <<>>
  /\ rpc = "copy" => Plan[blk].how = "copy"
  /\ rpc = "fake" => Plan[blk].how = "fake"
  /\ rpc = "close" => Plan[blk].how \in {"copy", "fake"}
  /\ rpc \in {"file", "read", "fill"} => Plan[blk].how \notin {"copy", "fake"}

\* The descriptors that the reader has: those of all blocks before the one it sends, but
\* for solid blocks, whose descriptors it takes after the last of them.
Behind == IF blk > SolidBefore /\ blk <= LastSolid THEN SolidBefore ELSE blk - 1

Collecting ==
  IF rpc = "collect"
  THEN /\ due > 0 /\ Len(infos) + due = blk /\ Len(infos) >= Behind
       /\ blk <= SolidBefore \/ blk >= LastSolid
  ELSE Len(infos) = Behind

\* The packer: a block begins where the last one ended, and is written before its
\* descriptor is made.
Packing ==
  /\ inHand # <<>> => cpc = "packing"
  /\ store # <<>> => cpc \in {"packing", "flushing"}
  /\ IF cpc \in {"loop", "done"}
     THEN Len(archive) = End(Len(delivered))
     ELSE /\ begun = [blk |-> Len(delivered) + 1, pos |-> End(Len(delivered))]
          /\ begun.pos <= Len(archive)

\* What is delivered is true.
Describes(d, b, data) ==
  IF Plan[b].type = "DATA" THEN Lists(d, b, data)
  ELSE d = <<>> /\ \A i \in DOMAIN data : data[i].blk = b

Delivered ==
  \A n \in 1 .. Len(delivered) :
    /\ delivered[n].blk = n /\ delivered[n].pos = End(n - 1) /\ End(n) <= Len(archive)
    /\ Located(n) => marks[n] = delivered[n].pos
    /\ Describes(delivered[n].dir, n, SubSeq(archive, delivered[n].pos + 1, End(n)))

\* The position the reader has asked for is that of the next block to be delivered.
Marked ==
  rpc \notin {"open", "seek", "scan", "end"} /\ Located(blk) /\ Len(delivered) = blk - 1 =>
    marks[blk] = End(blk - 1)

\* The handle stands at the end of the archive, but for the time the reader has taken it back:
\* then the recovery record is to begin at the end.
Handled ==
  /\ rpc \notin {"seek", "scan"} => pos = Len(archive)
  /\ rpc \in {"seek", "scan"} => Scans(blk) /\ rrPos = Len(archive)
  /\ rrPos # -1 => blk > Len(Archived)
  /\ rpc = "open" /\ Scans(blk) /\ rrPos # -1 => rrPos = Len(archive)

\* What one of the two has done: which instruction may come next, the block it is at, the
\* data of that block so far, and how many buffers it has seen.
View(mode, b, data, sent) == [mode |-> mode, blk |-> b, data |-> data, sent |-> sent]
Views == [mode : {"loop", "copying", "copied", "packing", "directory", "done"},
          blk : Nat, data : Seq(Chunks), sent : Nat]

\* One instruction leads from view v to view w.
Executes(v, m, w) ==
  \/ /\ m.op = "CompressData" /\ v.mode = "loop"
     /\ m.blk = v.blk /\ m.copy = (Plan[v.blk].how = "copy")
     /\ w = View(IF m.copy THEN "copying" ELSE "packing", v.blk, v.data, v.sent)
  \/ /\ m.op = "CopySolidBlock" /\ v.mode = "copying" /\ v.data = <<>>
     /\ w = View("copied", v.blk, Whole(v.blk), v.sent)
  \/ /\ m.op \in {"FileStart", "CorrectTotals", "FakeFiles"} /\ v.mode = "packing"
     /\ w = v
  \/ /\ m.op = "DebugLog" /\ v.mode = "loop"
     /\ w = v
  \/ /\ m.op = "DataChunk" /\ v.mode = "packing" /\ m.chunk.blk = v.blk
     /\ w = View("packing", v.blk, Append(v.data, m.chunk), v.sent + 1)
  \/ /\ m.op = "DataEnd" /\ v.mode \in {"copied", "packing"}
     /\ w = View("directory", v.blk, v.data, v.sent)
  \/ /\ m.op = "Directory" /\ v.mode = "directory" /\ Describes(m.dir, v.blk, v.data)
     /\ w = View("loop", v.blk + 1, <<>>, v.sent)
  \/ /\ m.op = "TheEnd" /\ v.mode = "loop" /\ v.blk = LastBlock + 1
     /\ w = View("done", v.blk, v.data, v.sent)

\* The instructions in q lead from one view to the other.
Path(q, from, to) ==
  \E view \in [0 .. Len(q) -> Views] :
    /\ view[0] = from /\ view[Len(q)] = to
    /\ \A i \in 1 .. Len(q) : Executes(view[i - 1], q[i], view[i])
    /\ \A i, j \in 0 .. Len(q) :
         i <= j => view[i].blk <= view[j].blk /\ view[i].sent <= view[j].sent

\* The same, and something to log is followed by the block it is about.
Leads(q, from, to) == Path(q, from, to) /\ (q # <<>> => q[Len(q)].op # "DebugLog")

PackerMode == IF cpc = "flushing" THEN "directory" ELSE cpc
PackerData == IF cpc \in {"loop", "done"} THEN <<>>
              ELSE SubSeq(archive, begun.pos + 1, Len(archive)) \o (store \o inHand)
PackerView(sent) == View(PackerMode, Len(delivered) + 1, PackerData, sent)

ReaderMode ==
  IF rpc \in {"open", "seek", "scan", "collect"} THEN "loop"
  ELSE IF rpc = "copy" THEN "copying"
  ELSE IF rpc = "close" /\ Plan[blk].how = "copy" THEN "copied"
  ELSE IF rpc = "end" THEN "done" ELSE "packing"
ReaderView(data, sent) ==
  View(ReaderMode, IF rpc = "collect" THEN blk + 1 ELSE blk, data, sent)

\* The data the reader has sent of its block are those it will list.
Sending(data) ==
  /\ rpc \in {"open", "seek", "scan", "collect", "end", "copy", "fake"} => data = <<>>
  /\ rpc \in {"file", "close"} => Lists(dir, blk, data)
  /\ rpc \in {"read", "fill"} =>
       Lists(Append(dir, [file |-> file + 1, chunks |-> chunks]), blk, data)
  /\ \A i \in DOMAIN data : data[i].blk = blk

\* The buffers in the pipe.
Travelling == CacheBuffers - free - returned - Len(inHand) - (IF rpc = "fill" THEN 1 ELSE 0)

\* What is in the pipe leads the packer to where the reader is.
Conversation ==
  \E sent, got \in Nat, data \in Seq(Chunks) :
    /\ sent - got = Travelling
    /\ Sending(data)
    /\ Leads(pipe, PackerView(got), ReaderView(data, sent))

IInv == /\ Typed /\ Walking /\ Collecting
        /\ Packing /\ Delivered /\ Marked /\ Handled /\ Conversation

-----------------------------------------------------------------------------
(***************************************************************************)
(* Sequences.                                                              *)
(***************************************************************************)
\* A sequence with one entry.
LEMMA OneEntry ==
  ASSUME NEW S, NEW e \in S
  PROVE  /\ <<e>> \in Seq(S) /\ <<e>> # <<>> /\ Len(<<e>>) = 1 /\ <<e>>[1] = e
         /\ Head(<<e>>) = e /\ Tail(<<e>>) = <<>>
OBVIOUS

\* What is nowhere in an empty sequence.
LEMMA Emptied ==
  ASSUME NEW S, NEW q \in Seq(S)
  PROVE  /\ Len(q) \in Nat /\ DOMAIN q = 1 .. Len(q)
         /\ q = <<>> <=> Len(q) = 0
         /\ \A i \in 1 .. Len(q) : q[i] \in S
BY EmptySeq, LenProperties

\* What is behind a position, after one more entry.
LEMMA OneMoreBehind ==
  ASSUME NEW S, NEW q \in Seq(S), NEW e \in S, NEW p \in 0 .. Len(q)
  PROVE  /\ Append(q, e) \in Seq(S) /\ Len(Append(q, e)) = Len(q) + 1
         /\ SubSeq(Append(q, e), p + 1, Len(q) + 1) = Append(SubSeq(q, p + 1, Len(q)), e)
<1>. DEFINE s == SubSeq(Append(q, e), p + 1, Len(q) + 1)
            u == SubSeq(q, p + 1, Len(q))
            t == Append(u, e)
<1>1. /\ Append(q, e) \in Seq(S) /\ Len(Append(q, e)) = Len(q) + 1
      /\ \A i \in 1 .. Len(q) : Append(q, e)[i] = q[i]
      /\ Append(q, e)[Len(q) + 1] = e
  BY AppendProperties
<1>2. Len(q) \in Nat /\ \A i \in 1 .. Len(q) : q[i] \in S
  BY Emptied
<1>3. \A i \in p + 1 .. Len(q) + 1 : Append(q, e)[i] \in S
  BY <1>1, <1>2
<1>4. /\ s \in Seq(S) /\ Len(s) = Len(q) + 1 - p
      /\ \A i \in 1 .. Len(q) + 1 - p : s[i] = Append(q, e)[p + i]
  <2>1. /\ s \in Seq(S)
        /\ Len(s) = IF p + 1 <= Len(q) + 1 THEN (Len(q) + 1) - (p + 1) + 1 ELSE 0
        /\ \A i \in 1 .. (Len(q) + 1) - (p + 1) + 1 : s[i] = Append(q, e)[p + 1 + i - 1]
    BY <1>2, <1>3, SubSeqProperties
  <2>. QED BY <1>2, <2>1
<1>5. u \in Seq(S) /\ Len(u) = Len(q) - p /\ \A i \in 1 .. Len(q) - p : u[i] = q[p + i]
  <2>1. /\ u \in Seq(S)
        /\ Len(u) = IF p + 1 <= Len(q) THEN Len(q) - (p + 1) + 1 ELSE 0
        /\ \A i \in 1 .. Len(q) - (p + 1) + 1 : u[i] = q[p + 1 + i - 1]
    BY <1>2, SubSeqProperties
  <2>. QED BY <1>2, <2>1
<1>. HIDE DEF s, u
<1>6. /\ t \in Seq(S) /\ Len(t) = Len(q) - p + 1
      /\ \A i \in 1 .. Len(q) - p : t[i] = q[p + i]
      /\ t[Len(q) - p + 1] = e
  <2>1. /\ t \in Seq(S) /\ Len(t) = Len(u) + 1
        /\ \A i \in 1 .. Len(u) : t[i] = u[i]
        /\ t[Len(u) + 1] = e
    BY <1>5, AppendProperties
  <2>. HIDE DEF t
  <2>. QED BY <1>2, <1>5, <2>1
<1>. HIDE DEF t
<1>7. ASSUME NEW i \in 1 .. Len(s)
      PROVE  s[i] = t[i]
  <2>1. i \in 1 .. Len(q) - p \/ i = Len(q) + 1 - p
    <3>1. Len(s) = Len(q) + 1 - p /\ Len(q) \in Nat /\ p \in Nat
      BY <1>2, <1>4
    <3>2. i \in 1 .. Len(q) + 1 - p
      BY <3>1
    <3>. QED BY <3>1, <3>2
  <2>2. p + i \in 1 .. Len(q) \/ p + i = Len(q) + 1
    BY <1>2, <2>1
  <2>. QED BY <1>1, <1>2, <1>4, <1>6, <2>1, <2>2
<1>8. s = t
  BY <1>2, <1>4, <1>6, <1>7, SeqEqual
<1>. QED BY <1>1, <1>8 DEF s, t, u

\* What is written stays what it is when more is written.
LEMMA Prefix ==
  ASSUME NEW S, NEW q \in Seq(S), NEW r \in Seq(S), NEW m \in Nat, NEW n \in Nat, n <= Len(q)
  PROVE  SubSeq(q \o r, m + 1, n) = SubSeq(q, m + 1, n)
<1>1. Len(q) \in Nat
  BY Emptied
<1>2. CASE n < m + 1
  BY <1>2, SubSeqEmpty
<1>3. CASE n >= m + 1
  BY <1>1, <1>3, SubSeqOfConcat1
<1>. QED BY <1>2, <1>3

\* What is behind a position when a whole block is added there.
LEMMA AddedBehind ==
  ASSUME NEW S, NEW q \in Seq(S), NEW r \in Seq(S)
  PROVE  SubSeq(q \o r, Len(q) + 1, Len(q \o r)) = r
<1>1. Len(q) \in Nat /\ Len(r) \in Nat /\ Len(q \o r) = Len(q) + Len(r)
  BY Emptied, ConcatProperties
<1>2. CASE r = <<>>
  BY <1>1, <1>2, SubSeqEmpty, EmptySeq
<1>3. CASE r # <<>>
  <2>1. Len(r) > 0
    BY <1>3, Emptied
  <2>2. SubSeq(q \o r, Len(q) + 1, Len(q) + Len(r))
          = SubSeq(r, Len(q) + 1 - Len(q), Len(q) + Len(r) - Len(q))
    BY <1>1, <2>1, SubSeqOfConcat2
  <2>3. Len(q) + 1 - Len(q) = 1 /\ Len(q) + Len(r) - Len(q) = Len(r)
    BY <1>1
  <2>. QED BY <1>1, <2>2, <2>3, SubSeqFull
<1>. QED BY <1>2, <1>3

\* An equality of two sequences under a name of its own: the provers compare sequences that
\* they see entry by entry, and take this one as it is.
Same(s, t) == s = t

\* The first entry of the rest moves to the end of the beginning.
LEMMA Moved ==
  ASSUME NEW S, NEW a \in Seq(S), NEW q \in Seq(S), NEW r \in Seq(S), q # <<>>
  PROVE  Same(a \o (q \o r), Append(a, Head(q)) \o (Tail(q) \o r))
<1>a. PICK e, t, all : e = Head(q) /\ t = Tail(q) /\ all = a \o (q \o r)
  OBVIOUS
<1>. DEFINE qr == q \o r
            tr == t \o r
            b == Append(a, e)
            y == b \o tr
<1>. PICK la, lq, lr : la = Len(a) /\ lq = Len(q) /\ lr = Len(r)
  OBVIOUS
<1>1. /\ e \in S /\ e = q[1] /\ t \in Seq(S) /\ Len(t) = lq - 1
      /\ \A i \in 1 .. lq - 1 : t[i] = q[i + 1]
  BY <1>a, HeadTailProperties
<1>2. lq \in Nat /\ lq > 0 /\ la \in Nat /\ lr \in Nat
  <2>1. lq \in Nat /\ la \in Nat /\ lr \in Nat
    BY LenProperties
  <2>2. lq # 0
    BY Emptied
  <2>. QED BY <2>1, <2>2
<1>3. /\ qr \in Seq(S) /\ Len(qr) = lq + lr
      /\ \A i \in 1 .. lq + lr : qr[i] = IF i <= lq THEN q[i] ELSE r[i - lq]
  BY ConcatProperties
<1>. HIDE DEF qr
<1>4. /\ tr \in Seq(S) /\ Len(tr) = lq - 1 + lr
      /\ \A i \in 1 .. lq - 1 + lr : tr[i] = IF i <= lq - 1 THEN t[i] ELSE r[i - (lq - 1)]
  <2>1. t \in Seq(S)
    BY <1>1
  <2>2. /\ tr \in Seq(S) /\ Len(tr) = Len(t) + lr
        /\ \A i \in 1 .. Len(t) + lr : tr[i] = IF i <= Len(t) THEN t[i] ELSE r[i - Len(t)]
    BY <2>1, ConcatProperties
  <2>. HIDE DEF tr
  <2>. QED BY <1>1, <2>2
<1>5. /\ b \in Seq(S) /\ Len(b) = la + 1
      /\ \A i \in 1 .. la : b[i] = a[i]
      /\ b[la + 1] = e
  <2>1. e \in S
    BY <1>1
  <2>. QED BY <2>1, AppendProperties
<1>6. /\ all \in Seq(S) /\ Len(all) = la + lq + lr
      /\ \A i \in 1 .. la + (lq + lr) : all[i] = IF i <= la THEN a[i] ELSE qr[i - la]
  <2>1. qr \in Seq(S)
    BY <1>3
  <2>. DEFINE x == a \o qr
  <2>2. /\ x \in Seq(S) /\ Len(x) = la + Len(qr)
        /\ \A i \in 1 .. la + Len(qr) : x[i] = IF i <= la THEN a[i] ELSE qr[i - la]
    BY <2>1, ConcatProperties
  <2>3. all = x
    BY <1>a DEF qr
  <2>. HIDE DEF x
  <2>4. la + Len(qr) = la + (lq + lr) /\ la + (lq + lr) = la + lq + lr
    BY <1>2, <1>3
  <2>. QED BY <2>2, <2>3, <2>4
<1>. HIDE DEF tr, b
<1>7. /\ y \in Seq(S) /\ Len(y) = la + lq + lr
      /\ \A i \in 1 .. la + lq + lr : y[i] = IF i <= la + 1 THEN b[i] ELSE tr[i - (la + 1)]
  <2>1. b \in Seq(S) /\ tr \in Seq(S)
    BY <1>4, <1>5
  <2>2. /\ y \in Seq(S) /\ Len(y) = Len(b) + Len(tr)
        /\ \A i \in 1 .. Len(b) + Len(tr) : y[i] = IF i <= Len(b) THEN b[i] ELSE tr[i - Len(b)]
    BY <2>1, ConcatProperties
  <2>. HIDE DEF y
  <2>3. Len(b) + Len(tr) = la + lq + lr
    BY <1>2, <1>4, <1>5
  <2>. QED BY <1>5, <2>2, <2>3
<1>. HIDE DEF y
<1>8. ASSUME NEW i \in 1 .. la + lq + lr
      PROVE  all[i] = y[i]
  <2>1. CASE i <= la
    <3>1. all[i] = a[i]
      BY <1>2, <1>6, <2>1
    <3>2. y[i] = b[i] /\ b[i] = a[i]
      BY <1>2, <1>5, <1>7, <2>1
    <3>. QED BY <3>1, <3>2
  <2>2. CASE i = la + 1
    <3>1. all[i] = qr[1] /\ qr[1] = q[1]
      BY <1>2, <1>3, <1>6, <2>2
    <3>2. y[i] = e
      BY <1>2, <1>5, <1>7, <2>2
    <3>. QED BY <1>1, <3>1, <3>2
  <2>3. CASE i > la + 1
    <3>. PICK k \in 1 .. lq - 1 + lr : i = la + 1 + k
      <4>1. i - la - 1 \in 1 .. lq - 1 + lr /\ i = la + 1 + (i - la - 1)
        BY <1>2, <2>3
      <4>. QED BY <4>1
    <3>1. all[i] = qr[k + 1] /\ k + 1 \in 1 .. lq + lr
      <4>1. i - la = k + 1 /\ ~(i <= la) /\ i \in 1 .. la + (lq + lr) /\ k + 1 \in 1 .. lq + lr
        BY <1>2
      <4>. QED BY <1>6, <4>1
    <3>2. y[i] = tr[k]
      <4>1. i - (la + 1) = k /\ ~(i <= la + 1)
        BY <1>2
      <4>. QED BY <1>7, <4>1
    <3>. PICK j : j = k + 1
      OBVIOUS
    <3>3. CASE k <= lq - 1
      <4>1. k \in 1 .. lq - 1 /\ j <= lq
        BY <1>2, <3>3
      <4>2. qr[j] = q[j]
        BY <1>3, <3>1, <4>1
      <4>3. tr[k] = t[k]
        <5>1. k <= lq - 1 /\ k \in 1 .. lq - 1 + lr
          BY <3>3
        <5>. QED BY <1>4, <5>1
      <4>4. t[k] = q[j]
        BY <1>1, <4>1
      <4>. QED BY <3>1, <3>2, <4>2, <4>3, <4>4
    <3>4. CASE k > lq - 1
      <4>1. qr[j] = r[j - lq]
        <5>1. ~(j <= lq)
          BY <1>2, <3>4
        <5>. QED BY <1>3, <3>1, <5>1
      <4>2. tr[k] = r[k - (lq - 1)]
        <5>1. ~(k <= lq - 1)
          BY <1>2, <3>4
        <5>. QED BY <1>4, <5>1
      <4>3. j - lq = k - (lq - 1)
        BY <1>2
      <4>. QED BY <3>1, <3>2, <4>1, <4>2, <4>3
    <3>5. k <= lq - 1 \/ k > lq - 1
      BY <1>2
    <3>. QED BY <3>3, <3>4, <3>5
  <2>. QED BY <1>2, <2>1, <2>2, <2>3
<1>9. all = y
  BY <1>6, <1>7, <1>8, SeqEqual
<1>. QED BY <1>a, <1>9, Zenon DEF y, b, tr, Same

\* Adding is associative.
LEMMA Associative ==
  ASSUME NEW S, NEW s \in Seq(S), NEW t \in Seq(S), NEW u \in Seq(S)
  PROVE  Same((s \o t) \o u, s \o (t \o u))
BY ConcatAssociative DEF Same

\* Two more entries are one and another.
LEMMA TwoMore ==
  ASSUME NEW S, NEW q \in Seq(S), NEW a \in S, NEW b \in S
  PROVE  q \o <<a, b>> = Append(Append(q, a), b)
<1>1. /\ <<a>> \in Seq(S) /\ <<b>> \in Seq(S) /\ <<a>> \o <<b>> = <<a, b>>
  <2>. DEFINE x == <<a>>
              y == <<b>>
              z == <<a, b>>
              u == x \o y
  <2>1. /\ x \in Seq(S) /\ Len(x) = 1 /\ x[1] = a
        /\ y \in Seq(S) /\ Len(y) = 1 /\ y[1] = b
    BY OneEntry
  <2>2. z \in Seq(S) /\ Len(z) = 2 /\ z[1] = a /\ z[2] = b
    OBVIOUS
  <2>. HIDE DEF x, y, z
  <2>3. /\ u \in Seq(S) /\ Len(u) = Len(x) + Len(y)
        /\ \A i \in 1 .. Len(x) + Len(y) : u[i] = IF i <= Len(x) THEN x[i] ELSE y[i - Len(x)]
    BY <2>1, ConcatProperties
  <2>. HIDE DEF u
  <2>4. Len(u) = Len(z) /\ \A i \in 1 .. Len(u) : u[i] = z[i]
    <3>1. u[1] = a /\ u[2] = b /\ Len(u) = 2
      <4>1. 1 \in 1 .. Len(x) + Len(y) /\ 2 \in 1 .. Len(x) + Len(y) /\ 2 - Len(x) = 1
        BY <2>1
      <4>. QED BY <2>1, <2>3, <4>1
    <3>2. \A i \in 1 .. Len(u) : i = 1 \/ i = 2
      BY <3>1
    <3>. QED BY <2>2, <3>1, <3>2
  <2>5. u = z
    BY <2>2, <2>3, <2>4, SeqEqual
  <2>. QED BY <2>1, <2>5 DEF u, x, y, z
<1>2. Append(q, a) = q \o <<a>> /\ Append(q, a) \in Seq(S)
  BY AppendIsConcat, AppendProperties
<1>3. Append(Append(q, a), b) = Append(q, a) \o <<b>>
  BY <1>2, AppendIsConcat
<1>4. (q \o <<a>>) \o <<b>> = q \o (<<a>> \o <<b>>)
  BY <1>1, ConcatAssociative
<1>. QED BY <1>1, <1>2, <1>3, <1>4

-----------------------------------------------------------------------------
(***************************************************************************)
(* Directories.                                                            *)
(***************************************************************************)
\* No entries, no data.
LEMMA ListsNothing ==
  ASSUME NEW b
  PROVE  Lists(<<>>, b, <<>>)
<1>. DEFINE cut == [i \in 0 .. 0 |-> 0]
<1>1. cut \in [0 .. Len(<<>>) -> 0 .. Len(<<>>)] /\ cut[0] = 0 /\ cut[Len(<<>>)] = Len(<<>>)
  BY EmptySeq
<1>. HIDE DEF cut
<1>2. 1 .. Len(<<>>) = {}
  BY EmptySeq
<1>. QED BY <1>1, <1>2 DEF Lists

\* A file without data.
LEMMA ListsEmptyFile ==
  ASSUME NEW d \in Seq(Entries), NEW b, NEW data \in Seq(Chunks), Lists(d, b, data),
         NEW f \in Nat
  PROVE  Lists(Append(d, [file |-> f, chunks |-> 0]), b, data)
<1>. DEFINE e == [file |-> f, chunks |-> 0]
            n == Len(d)
<1>1. PICK cut \in [0 .. n -> 0 .. Len(data)] :
        /\ cut[0] = 0 /\ cut[n] = Len(data)
        /\ \A i \in 1 .. n :
             /\ cut[i] = cut[i - 1] + d[i].chunks
             /\ \A k \in cut[i - 1] + 1 .. cut[i] : data[k] = [blk |-> b, file |-> d[i].file]
  BY DEF Lists
<1>2. n \in Nat /\ Len(data) \in Nat /\ e \in Entries
  BY Emptied, ParametersAssumption DEF Entries
<1>. DEFINE dd == Append(d, e)
<1>3. /\ Len(dd) = n + 1 /\ dd[n + 1] = e
      /\ \A i \in 1 .. n : dd[i] = d[i]
  BY <1>2, AppendProperties
<1>. DEFINE more == [i \in 0 .. n + 1 |-> IF i = n + 1 THEN Len(data) ELSE cut[i]]
<1>4. /\ more \in [0 .. n + 1 -> 0 .. Len(data)]
      /\ more[0] = 0 /\ more[n + 1] = Len(data) /\ \A i \in 0 .. n : more[i] = cut[i]
  BY <1>1, <1>2
<1>. HIDE DEF more, n, e, dd
<1>5. ASSUME NEW i \in 1 .. n + 1
      PROVE  /\ more[i] = more[i - 1] + dd[i].chunks
             /\ \A k \in more[i - 1] + 1 .. more[i] :
                  data[k] = [blk |-> b, file |-> dd[i].file]
  <2>1. CASE i \in 1 .. n
    <3>1. i - 1 \in 0 .. n /\ i \in 0 .. n
      BY <1>2, <2>1
    <3>. QED BY <1>1, <1>3, <1>4, <2>1, <3>1
  <2>2. CASE i = n + 1
    <3>1. more[i - 1] = Len(data) /\ more[i] = Len(data) /\ dd[i].chunks = 0
      BY <1>1, <1>2, <1>3, <1>4, <2>2 DEF e
    <3>2. more[i - 1] + 1 .. more[i] = {}
      BY <1>2, <3>1
    <3>. QED BY <1>2, <3>1, <3>2
  <2>. QED BY <1>2, <2>1, <2>2
<1>6. Lists(dd, b, data)
  <2>1. /\ more \in [0 .. Len(dd) -> 0 .. Len(data)]
        /\ more[0] = 0 /\ more[Len(dd)] = Len(data)
    BY <1>3, <1>4
  <2>2. \A i \in 1 .. Len(dd) :
          /\ more[i] = more[i - 1] + dd[i].chunks
          /\ \A k \in more[i - 1] + 1 .. more[i] : data[k] = [blk |-> b, file |-> dd[i].file]
    BY <1>3, <1>5
  <2>. QED BY <2>1, <2>2, Zenon DEF Lists
<1>. QED BY <1>6 DEF e, dd

\* One more buffer of the last file.
LEMMA ListsChunk ==
  ASSUME NEW d \in Seq(Entries), NEW b, NEW data \in Seq(Chunks), NEW f \in Nat, NEW c \in Nat,
         c < MaxChunks, [blk |-> b, file |-> f] \in Chunks,
         Lists(Append(d, [file |-> f, chunks |-> c]), b, data)
  PROVE  Lists(Append(d, [file |-> f, chunks |-> c + 1]), b,
               Append(data, [blk |-> b, file |-> f]))
<1>. DEFINE e == [file |-> f, chunks |-> c]
            g == [file |-> f, chunks |-> c + 1]
            x == [blk |-> b, file |-> f]
            n == Len(d)
            dd == Append(d, e)
            dg == Append(d, g)
            longer == Append(data, x)
<1>1. n \in Nat /\ Len(data) \in Nat /\ e \in Entries /\ g \in Entries /\ x \in Chunks
  BY Emptied, ParametersAssumption DEF Entries
<1>2. /\ Len(dd) = n + 1 /\ dd[n + 1] = e
      /\ \A i \in 1 .. n : dd[i] = d[i]
  BY <1>1, AppendProperties
<1>3. /\ Len(dg) = n + 1 /\ dg[n + 1] = g
      /\ \A i \in 1 .. n : dg[i] = d[i]
  BY <1>1, AppendProperties
<1>4. /\ Len(longer) = Len(data) + 1 /\ longer[Len(data) + 1] = x
      /\ \A i \in 1 .. Len(data) : longer[i] = data[i]
  BY <1>1, AppendProperties
<1>. HIDE DEF n, e, g, x, dd, dg, longer
<1>5. PICK cut \in [0 .. n + 1 -> 0 .. Len(data)] :
        /\ cut[0] = 0 /\ cut[n + 1] = Len(data)
        /\ \A i \in 1 .. n + 1 :
             /\ cut[i] = cut[i - 1] + dd[i].chunks
             /\ \A k \in cut[i - 1] + 1 .. cut[i] :
                  data[k] = [blk |-> b, file |-> dd[i].file]
  <2>1. Lists(dd, b, data)
    BY DEF e, dd
  <2>2. PICK cut \in [0 .. Len(dd) -> 0 .. Len(data)] :
          /\ cut[0] = 0 /\ cut[Len(dd)] = Len(data)
          /\ \A i \in 1 .. Len(dd) :
               /\ cut[i] = cut[i - 1] + dd[i].chunks
               /\ \A k \in cut[i - 1] + 1 .. cut[i] :
                    data[k] = [blk |-> b, file |-> dd[i].file]
    BY <2>1, Zenon DEF Lists
  <2>3. Len(dd) = n + 1
    BY <1>2
  <2>. QED BY <2>2, <2>3, Zenon
<1>. DEFINE more == [i \in 0 .. n + 1 |-> IF i = n + 1 THEN Len(data) + 1 ELSE cut[i]]
<1>6. /\ more \in [0 .. n + 1 -> 0 .. Len(data) + 1]
      /\ more[0] = 0 /\ more[n + 1] = Len(data) + 1 /\ \A i \in 0 .. n : more[i] = cut[i]
  BY <1>1, <1>5
<1>. HIDE DEF more
<1>7. ASSUME NEW i \in 1 .. n + 1
      PROVE  /\ more[i] = more[i - 1] + dg[i].chunks
             /\ \A k \in more[i - 1] + 1 .. more[i] :
                  longer[k] = [blk |-> b, file |-> dg[i].file]
  <2>1. CASE i \in 1 .. n
    <3>1. i - 1 \in 0 .. n /\ i \in 0 .. n /\ i \in 1 .. n + 1
      BY <1>1, <2>1
    <3>2. more[i] = cut[i] /\ more[i - 1] = cut[i - 1] /\ dg[i] = dd[i]
      BY <1>2, <1>3, <1>6, <2>1, <3>1
    <3>3. ASSUME NEW k \in more[i - 1] + 1 .. more[i]
          PROVE  longer[k] = data[k]
      <4>. PICK l, p, q : l = Len(data) /\ p = cut[i - 1] /\ q = cut[i]
        OBVIOUS
      <4>1. q \in 0 .. l /\ p \in 0 .. l /\ l \in Nat
        <5>1. cut[i] \in 0 .. Len(data) /\ cut[i - 1] \in 0 .. Len(data)
          <6>1. i \in 0 .. n + 1 /\ i - 1 \in 0 .. n + 1
            BY <1>1, <3>1
          <6>. QED BY <6>1
        <5>. QED BY <1>1, <5>1
      <4>2. k \in p + 1 .. q
        BY <3>2
      <4>3. k \in 1 .. l
        BY <4>1, <4>2
      <4>4. k \in 1 .. Len(data)
        BY <4>3
      <4>. QED BY <1>4, <4>4
    <3>. QED BY <1>5, <3>1, <3>2, <3>3
  <2>2. CASE i = n + 1
    <3>1. /\ cut[n + 1] = cut[n] + c /\ cut[n] \in 0 .. Len(data)
          /\ \A k \in cut[n] + 1 .. Len(data) : data[k] = x
      <4>1. n + 1 \in 1 .. n + 1 /\ (n + 1) - 1 = n /\ n \in 0 .. n + 1
        BY <1>1
      <4>2. dd[n + 1].chunks = c /\ dd[n + 1].file = f
        BY <1>2 DEF e
      <4>. QED BY <1>5, <4>1, <4>2 DEF x
    <3>2. /\ more[i - 1] = cut[n] /\ more[i] = Len(data) + 1 /\ dg[i].chunks = c + 1
          /\ dg[i].file = f
      BY <1>1, <1>3, <1>6, <2>2 DEF g
    <3>3. ASSUME NEW k \in cut[n] + 1 .. Len(data) + 1
          PROVE  longer[k] = x
      <4>1. CASE k = Len(data) + 1
        BY <1>4, <4>1
      <4>2. CASE k \in cut[n] + 1 .. Len(data)
        <5>1. k \in 1 .. Len(data)
          BY <1>1, <3>1, <4>2
        <5>. QED BY <1>4, <3>1, <4>2, <5>1
      <4>3. k = Len(data) + 1 \/ k \in cut[n] + 1 .. Len(data)
        <5>. PICK l, p : l = Len(data) /\ p = cut[n]
          OBVIOUS
        <5>1. l \in Nat /\ p \in 0 .. l
          BY <1>1, <3>1
        <5>2. k \in p + 1 .. l + 1
          OBVIOUS
        <5>3. k = l + 1 \/ k \in p + 1 .. l
          BY <5>1, <5>2
        <5>. QED BY <5>3
      <4>. QED BY <4>1, <4>2, <4>3
    <3>4. Len(data) + 1 = cut[n] + (c + 1)
      BY <1>1, <1>5, <3>1
    <3>. QED BY <3>2, <3>3, <3>4 DEF x
  <2>. QED BY <1>1, <2>1, <2>2
<1>8. Lists(dg, b, longer)
  <2>1. /\ more \in [0 .. Len(dg) -> 0 .. Len(longer)]
        /\ more[0] = 0 /\ more[Len(dg)] = Len(longer)
    BY <1>3, <1>4, <1>6
  <2>2. \A i \in 1 .. Len(dg) :
          /\ more[i] = more[i - 1] + dg[i].chunks
          /\ \A k \in more[i - 1] + 1 .. more[i] :
               longer[k] = [blk |-> b, file |-> dg[i].file]
    BY <1>3, <1>7
  <2>. QED BY <2>1, <2>2, Zenon DEF Lists
<1>. QED BY <1>8 DEF g, x, dg, longer

\* A block that is copied, and one without data.
LEMMA ListsWhole ==
  ASSUME blk \in 1 .. LastBlock, Plan[blk].files \in Nat
  PROVE  Lists(WholeDir, blk, Whole(blk)) /\ Lists(FakeDir, blk, <<>>)
<1>. DEFINE n == Plan[blk].files
            cut == [i \in 0 .. n |-> i]
            none == [i \in 0 .. n |-> 0]
<1>1. /\ Len(WholeDir) = n /\ Len(FakeDir) = n /\ Len(Whole(blk)) = n
      /\ \A f \in 1 .. n : /\ WholeDir[f] = [file |-> f, chunks |-> 1]
                           /\ FakeDir[f] = [file |-> f, chunks |-> 0]
                           /\ Whole(blk)[f] = [blk |-> blk, file |-> f]
  BY DEF WholeDir, FakeDir, Whole
<1>2. /\ cut \in [0 .. n -> 0 .. n] /\ \A i \in 0 .. n : cut[i] = i
      /\ none \in [0 .. n -> 0 .. 0] /\ \A i \in 0 .. n : none[i] = 0
  OBVIOUS
<1>. HIDE DEF cut, none, n
<1>3. n \in Nat
  BY DEF n
<1>4. ASSUME NEW i \in 1 .. n
      PROVE  /\ cut[i] = cut[i - 1] + WholeDir[i].chunks
             /\ \A k \in cut[i - 1] + 1 .. cut[i] :
                  Whole(blk)[k] = [blk |-> blk, file |-> WholeDir[i].file]
             /\ none[i] = none[i - 1] + FakeDir[i].chunks
             /\ none[i - 1] + 1 .. none[i] = {}
  <2>1. /\ i - 1 \in 0 .. n /\ i \in 0 .. n
        /\ cut[i - 1] = i - 1 /\ cut[i] = i /\ none[i - 1] = 0 /\ none[i] = 0
    BY <1>2, <1>3
  <2>2. WholeDir[i].chunks = 1 /\ WholeDir[i].file = i /\ FakeDir[i].chunks = 0
    BY <1>1
  <2>3. \A k \in (i - 1) + 1 .. i : k = i
    OBVIOUS
  <2>. QED BY <1>1, <2>1, <2>2, <2>3
<1>5. Lists(WholeDir, blk, Whole(blk))
  <2>. PICK d, w : d = WholeDir /\ w = Whole(blk)
    OBVIOUS
  <2>1. Len(d) = n /\ Len(w) = n
    BY <1>1
  <2>2. /\ cut \in [0 .. Len(d) -> 0 .. Len(w)]
        /\ cut[0] = 0 /\ cut[Len(d)] = Len(w)
    BY <1>2, <1>3, <2>1
  <2>3. \A i \in 1 .. Len(d) :
          /\ cut[i] = cut[i - 1] + d[i].chunks
          /\ \A k \in cut[i - 1] + 1 .. cut[i] : w[k] = [blk |-> blk, file |-> d[i].file]
    BY <1>4, <2>1
  <2>4. Lists(d, blk, w)
    BY <2>2, <2>3, Zenon DEF Lists
  <2>. QED BY <2>4
<1>6. Lists(FakeDir, blk, <<>>)
  <2>. PICK d, w : d = FakeDir /\ w = <<>>
    OBVIOUS
  <2>1. Len(d) = n /\ Len(w) = 0
    BY <1>1, EmptySeq
  <2>2. /\ none \in [0 .. Len(d) -> 0 .. Len(w)]
        /\ none[0] = 0 /\ none[Len(d)] = Len(w)
    BY <1>2, <1>3, <2>1
  <2>3. \A i \in 1 .. Len(d) :
          /\ none[i] = none[i - 1] + d[i].chunks
          /\ \A k \in none[i - 1] + 1 .. none[i] : w[k] = [blk |-> blk, file |-> d[i].file]
    <3>1. ASSUME NEW i \in 1 .. n
          PROVE  none[i] = none[i - 1] + d[i].chunks /\ none[i - 1] + 1 .. none[i] = {}
      BY <1>4
    <3>. QED BY <2>1, <3>1
  <2>4. Lists(d, blk, w)
    BY <2>2, <2>3, Zenon DEF Lists
  <2>. QED BY <2>4
<1>. QED BY <1>5, <1>6

-----------------------------------------------------------------------------
(***************************************************************************)
(* The layout.                                                             *)
(***************************************************************************)
Blocks == [type : {"HEADER", "DATA", "DIR", "FOOTER", "RECOVERY", "DESCR"},
           how : Hows \union {"stream"}, files : Nat]

\* A control block comes with its descriptor, or not at all.
LEMMA ControlTyped ==
  ASSUME NEW t \in {"HEADER", "DIR", "FOOTER", "RECOVERY"}
  PROVE  /\ Control(t) \in Seq(Blocks) /\ Len(Control(t)) \in {0, 2}
         /\ \A i \in 1 .. Len(Control(t)) : Control(t)[i].type \in {t, "DESCR"}
<1>1. CASE NoDir
  <2>1. Control(t) = <<>>
    BY <1>1 DEF Control
  <2>. QED BY <2>1, EmptySeq
<1>2. CASE ~NoDir
  <2>. DEFINE a == [type |-> t, how |-> "stream", files |-> 1]
              d == [type |-> "DESCR", how |-> "stream", files |-> 1]
  <2>1. Control(t) = <<a, d>>
    BY <1>2 DEF Control
  <2>2. a \in Blocks /\ d \in Blocks
    BY DEF Blocks
  <2>3. a.type = t /\ d.type = "DESCR"
    OBVIOUS
  <2>. HIDE DEF a, d
  <2>4. /\ <<a, d>> \in Seq(Blocks) /\ Len(<<a, d>>) = 2
        /\ <<a, d>>[1] = a /\ <<a, d>>[2] = d
    BY <2>2
  <2>. QED BY <2>1, <2>3, <2>4
<1>. QED BY <1>1, <1>2

\* Blocks that record where they are come behind the solid blocks.
LEMMA PlanTyped ==
  /\ LastBlock \in Nat /\ SolidBefore \in Nat /\ Len(Solid) \in Nat
  /\ LastSolid = SolidBefore + Len(Solid) /\ LastSolid <= LastBlock
  /\ \A b \in 1 .. LastBlock : Plan[b] \in Blocks /\ (Located(b) => b > LastSolid)
  /\ Len(Archived) \in Nat /\ LastSolid <= Len(Archived) /\ Len(Archived) <= LastBlock
<1>. DEFINE h == Control("HEADER")
            s == SolidBlocks
            r == Recovered
            u == h \o s
            v == u \o Control("DIR")
            w == v \o Control("FOOTER")
<1>1. /\ h \in Seq(Blocks) /\ Len(h) \in {0, 2}
      /\ \A i \in 1 .. Len(h) : h[i].type \in {"HEADER", "DESCR"}
      /\ Control("DIR") \in Seq(Blocks) /\ Control("FOOTER") \in Seq(Blocks)
      /\ Control("RECOVERY") \in Seq(Blocks)
  BY ControlTyped
<1>2. /\ s \in Seq(Blocks) /\ Len(s) = Len(Solid) /\ Len(Solid) \in Nat
      /\ \A i \in 1 .. Len(s) : s[i].type = "DATA"
  <2>1. /\ Len(Solid) \in Nat
        /\ \A i \in 1 .. Len(Solid) : Solid[i] \in [how : Hows, files : Nat \ {0}]
    <3>1. Solid \in Seq([how : Hows, files : Nat \ {0}])
      BY ParametersAssumption
    <3>. QED BY <3>1, Emptied, Zenon
  <2>2. \A i \in 1 .. Len(Solid) :
          [type |-> "DATA", how |-> Solid[i].how, files |-> Solid[i].files] \in Blocks
    BY <2>1 DEF Blocks
  <2>. DEFINE e(i) == [type |-> "DATA", how |-> Solid[i].how, files |-> Solid[i].files]
  <2>3. s = [i \in 1 .. Len(Solid) |-> e(i)]
    BY DEF SolidBlocks
  <2>4. /\ \A i \in 1 .. Len(Solid) : e(i) \in Blocks
        /\ \A i \in 1 .. Len(Solid) : e(i).type = "DATA"
    BY <2>2
  <2>. HIDE DEF e, s
  <2>5. s \in Seq(Blocks) /\ Len(s) = Len(Solid) /\ \A i \in 1 .. Len(Solid) : s[i] = e(i)
    BY <2>1, <2>3, <2>4
  <2>. QED BY <2>1, <2>4, <2>5
<1>3. r \in Seq(Blocks)
  <2>. PICK a, b : a = Control("RECOVERY") /\ b = Control("FOOTER")
    OBVIOUS
  <2>1. a \in Seq(Blocks) /\ b \in Seq(Blocks)
    BY <1>1
  <2>2. a \o a \in Seq(Blocks)
    BY <2>1, ConcatProperties
  <2>3. (a \o a) \o b \in Seq(Blocks)
    <3>. DEFINE c == a \o a
    <3>1. c \in Seq(Blocks)
      BY <2>2
    <3>. HIDE DEF c
    <3>2. c \o b \in Seq(Blocks)
      BY <2>1, <3>1, ConcatProperties
    <3>. QED BY <3>2 DEF c
  <2>. QED BY <2>3, EmptySeq DEF Recovered
<1>4. Plan = w \o r /\ Archived = w
  BY Zenon DEF Plan, Archived
<1>. HIDE DEF h, s, r
<1>5. /\ u \in Seq(Blocks) /\ Len(u) = Len(h) + Len(s)
      /\ \A i \in 1 .. Len(h) + Len(s) : u[i] = IF i <= Len(h) THEN h[i] ELSE s[i - Len(h)]
  <2>1. h \in Seq(Blocks) /\ s \in Seq(Blocks)
    BY <1>1, <1>2
  <2>. QED BY <2>1, ConcatProperties
<1>. HIDE DEF u
<1>6. /\ v \in Seq(Blocks) /\ Len(v) = Len(u) + Len(Control("DIR"))
      /\ \A i \in 1 .. Len(u) + Len(Control("DIR")) :
           v[i] = IF i <= Len(u) THEN u[i] ELSE Control("DIR")[i - Len(u)]
  <2>1. u \in Seq(Blocks) /\ Control("DIR") \in Seq(Blocks)
    BY <1>1, <1>5
  <2>. QED BY <2>1, ConcatProperties
<1>. HIDE DEF v
<1>7. /\ w \in Seq(Blocks) /\ Len(w) = Len(v) + Len(Control("FOOTER"))
      /\ \A i \in 1 .. Len(v) + Len(Control("FOOTER")) :
           w[i] = IF i <= Len(v) THEN v[i] ELSE Control("FOOTER")[i - Len(v)]
  <2>1. v \in Seq(Blocks) /\ Control("FOOTER") \in Seq(Blocks)
    BY <1>1, <1>6
  <2>. QED BY <2>1, ConcatProperties
<1>. HIDE DEF w
<1>8. /\ Plan \in Seq(Blocks) /\ Len(Plan) = Len(w) + Len(r)
      /\ \A i \in 1 .. Len(w) + Len(r) :
           Plan[i] = IF i <= Len(w) THEN w[i] ELSE r[i - Len(w)]
  <2>1. w \in Seq(Blocks) /\ r \in Seq(Blocks)
    BY <1>3, <1>7
  <2>. DEFINE x == w \o r
  <2>2. /\ x \in Seq(Blocks) /\ Len(x) = Len(w) + Len(r)
        /\ \A i \in 1 .. Len(w) + Len(r) : x[i] = IF i <= Len(w) THEN w[i] ELSE r[i - Len(w)]
    BY <2>1, ConcatProperties
  <2>3. Plan = x
    BY <1>4
  <2>. HIDE DEF x
  <2>. QED BY <2>2, <2>3
<1>9. /\ Len(u) \in Nat /\ Len(v) \in Nat /\ Len(w) \in Nat /\ Len(r) \in Nat
      /\ Len(Plan) \in Nat /\ Len(h) \in Nat /\ Len(s) \in Nat
      /\ Len(Control("DIR")) \in Nat /\ Len(Control("FOOTER")) \in Nat
  BY <1>1, <1>2, <1>3, <1>5, <1>6, <1>7, <1>8, LenProperties
<1>10. SolidBefore = Len(h) /\ LastSolid = Len(u) /\ LastBlock = Len(Plan)
  BY <1>2, <1>5 DEF SolidBefore, LastSolid, LastBlock, h
<1>11. ASSUME NEW b \in 1 .. LastBlock
       PROVE  Plan[b] \in Blocks /\ (Located(b) => b > LastSolid)
  <2>1. Plan[b] \in Blocks
    BY <1>8, <1>10, LenProperties
  <2>2. ASSUME b <= LastSolid
        PROVE  Plan[b].type \in {"HEADER", "DESCR", "DATA"}
    <3>1. b \in 1 .. Len(u) /\ b \in 1 .. Len(v) /\ b \in 1 .. Len(w)
      <4>1. Len(v) = Len(u) + Len(Control("DIR")) /\ Len(w) = Len(v) + Len(Control("FOOTER"))
        BY <1>6, <1>7
      <4>2. b \in 1 .. Len(u)
        BY <1>9, <1>10, <2>2
      <4>3. Len(u) <= Len(v) /\ Len(v) <= Len(w)
        BY <1>9, <4>1
      <4>. QED BY <1>9, <4>2, <4>3
    <3>2. Plan[b] = u[b]
      BY <1>6, <1>7, <1>8, <1>9, <3>1
    <3>3. CASE b <= Len(h)
      BY <1>1, <1>5, <1>9, <3>1, <3>2, <3>3
    <3>4. CASE b > Len(h)
      <4>1. b - Len(h) \in 1 .. Len(s) /\ u[b] = s[b - Len(h)]
        BY <1>5, <1>9, <3>1, <3>4
      <4>. QED BY <1>2, <3>2, <4>1
    <3>. QED BY <1>9, <3>3, <3>4
  <2>3. Located(b) => b > LastSolid
    BY <1>9, <1>10, <2>2 DEF Located
  <2>. QED BY <2>1, <2>3
<1>12. Len(Archived) = Len(w)
  BY <1>4
<1>13. Len(u) <= Len(w) /\ Len(w) <= Len(Plan)
  BY <1>6, <1>7, <1>8, <1>9
<1>14. SolidBefore \in Nat /\ LastSolid = SolidBefore + Len(Solid)
  BY <1>9, <1>10 DEF LastSolid
<1>. QED BY <1>2, <1>9, <1>10, <1>11, <1>12, <1>13, <1>14

-----------------------------------------------------------------------------
(***************************************************************************)
(* The conversation.                                                       *)
(***************************************************************************)
\* An instruction never takes a view back.
LEMMA Onward ==
  ASSUME NEW v \in Views, NEW m, NEW w, Executes(v, m, w)
  PROVE  v.blk <= w.blk /\ v.sent <= w.sent
BY DEF Executes, View, Views

\* Nothing is in the pipe: the packer is where the reader is.
LEMMA LeadsEmpty ==
  ASSUME NEW from, NEW to
  PROVE  /\ Leads(<<>>, from, to) => from = to
         /\ from \in Views /\ from = to => Leads(<<>>, from, to)
<1>1. Len(<<>>) = 0
  OBVIOUS
<1>2. Leads(<<>>, from, to) => from = to
  BY <1>1 DEF Leads, Path
<1>3. ASSUME from \in Views, from = to
      PROVE  Leads(<<>>, from, to)
  <2>. DEFINE view == [i \in 0 .. 0 |-> from]
  <2>1. view \in [0 .. 0 -> Views] /\ view[0] = from
    BY <1>3
  <2>2. from.blk <= from.blk /\ from.sent <= from.sent
    BY <1>3 DEF Views
  <2>. HIDE DEF view
  <2>3. 1 .. 0 = {} /\ \A i \in 0 .. 0 : i = 0
    OBVIOUS
  <2>. QED BY <1>1, <1>3, <2>1, <2>2, <2>3 DEF Leads, Path
<1>. QED BY <1>2, <1>3

\* The packer is never ahead of the reader.
LEMMA LeadsOnward ==
  ASSUME NEW q \in Seq(Messages), NEW from, NEW to, Leads(q, from, to)
  PROVE  /\ from \in Views /\ to \in Views
         /\ from.blk <= to.blk /\ from.sent <= to.sent
<1>1. Len(q) \in Nat
  BY Emptied
<1>2. PICK view \in [0 .. Len(q) -> Views] :
        /\ view[0] = from /\ view[Len(q)] = to
        /\ \A i, j \in 0 .. Len(q) :
             i <= j => view[i].blk <= view[j].blk /\ view[i].sent <= view[j].sent
  BY DEF Leads, Path
<1>3. 0 \in 0 .. Len(q) /\ Len(q) \in 0 .. Len(q) /\ 0 <= Len(q)
  BY <1>1
<1>. QED BY <1>2, <1>3

\* The reader sends an instruction.
LEMMA PathSent ==
  ASSUME NEW q \in Seq(Messages), NEW m \in Messages, NEW from, NEW to, NEW w \in Views,
         Path(q, from, to), Executes(to, m, w)
  PROVE  Append(q, m) \in Seq(Messages) /\ Path(Append(q, m), from, w)
<1>. DEFINE n == Len(q)
            p == Append(q, m)
<1>1. n \in Nat
  BY Emptied
<1>2. /\ p \in Seq(Messages) /\ Len(p) = n + 1 /\ p[n + 1] = m
      /\ \A i \in 1 .. n : p[i] = q[i]
  BY AppendProperties
<1>3. PICK view \in [0 .. n -> Views] :
        /\ view[0] = from /\ view[n] = to
        /\ \A i \in 1 .. n : Executes(view[i - 1], q[i], view[i])
        /\ \A i, j \in 0 .. n :
             i <= j => view[i].blk <= view[j].blk /\ view[i].sent <= view[j].sent
  BY DEF Path
<1>. DEFINE more == [i \in 0 .. n + 1 |-> IF i = n + 1 THEN w ELSE view[i]]
<1>4. /\ more \in [0 .. n + 1 -> Views] /\ more[n + 1] = w
      /\ \A i \in 0 .. n : more[i] = view[i]
  BY <1>1, <1>3
<1>. HIDE DEF more, n, p
<1>5. to \in Views /\ to.blk <= w.blk /\ to.sent <= w.sent
  <2>1. n \in 0 .. n
    BY <1>1
  <2>. QED BY <1>3, <2>1, Onward
<1>6. ASSUME NEW i \in 1 .. n + 1
      PROVE  Executes(more[i - 1], p[i], more[i])
  <2>1. CASE i \in 1 .. n
    <3>1. i - 1 \in 0 .. n /\ i \in 0 .. n
      BY <1>1, <2>1
    <3>2. more[i - 1] = view[i - 1] /\ more[i] = view[i] /\ p[i] = q[i]
      BY <1>2, <1>4, <2>1, <3>1
    <3>. QED BY <1>3, <2>1, <3>2
  <2>2. CASE i = n + 1
    <3>1. more[i - 1] = to /\ more[i] = w /\ p[i] = m
      <4>1. i - 1 = n /\ n \in 0 .. n
        BY <1>1, <2>2
      <4>. QED BY <1>2, <1>3, <1>4, <2>2, <4>1
    <3>. QED BY <3>1
  <2>. QED BY <1>1, <2>1, <2>2
<1>7. ASSUME NEW i \in 0 .. n + 1, NEW j \in 0 .. n + 1, i <= j
      PROVE  more[i].blk <= more[j].blk /\ more[i].sent <= more[j].sent
  <2>1. CASE j \in 0 .. n
    <3>1. i \in 0 .. n
      BY <1>1, <1>7, <2>1
    <3>. QED BY <1>3, <1>4, <1>7, <2>1, <3>1
  <2>2. CASE j = n + 1 /\ i \in 0 .. n
    <3>1. n \in 0 .. n /\ i <= n
      BY <1>1, <2>2
    <3>2. view[i].blk <= to.blk /\ view[i].sent <= to.sent /\ view[i] \in Views
      BY <1>3, <2>2, <3>1
    <3>3. more[i] = view[i] /\ more[j] = w
      BY <1>4, <2>2
    <3>. QED BY <1>5, <3>2, <3>3 DEF Views
  <2>3. CASE j = n + 1 /\ i = n + 1
    <3>1. w.blk \in Nat /\ w.sent \in Nat
      BY DEF Views
    <3>. QED BY <1>4, <2>3, <3>1
  <2>. QED BY <1>1, <2>1, <2>2, <2>3
<1>8. more[0] = from
  BY <1>1, <1>3, <1>4
<1>9. Path(p, from, w)
  <2>1. more \in [0 .. Len(p) -> Views] /\ more[Len(p)] = w
    BY <1>2, <1>4
  <2>2. \A i \in 1 .. Len(p) : Executes(more[i - 1], p[i], more[i])
    BY <1>2, <1>6
  <2>3. \A i, j \in 0 .. Len(p) :
          i <= j => more[i].blk <= more[j].blk /\ more[i].sent <= more[j].sent
    BY <1>2, <1>7
  <2>. QED BY <1>8, <2>1, <2>2, <2>3, Zenon DEF Path
<1>. QED BY <1>2, <1>9 DEF p

\* The same, when there is more than something to log.
LEMMA LeadsSent ==
  ASSUME NEW q \in Seq(Messages), NEW m \in Messages, NEW from, NEW to, NEW w \in Views,
         Leads(q, from, to), Executes(to, m, w), m.op # "DebugLog"
  PROVE  Append(q, m) \in Seq(Messages) /\ Leads(Append(q, m), from, w)
<1>. DEFINE p == Append(q, m)
<1>1. p \in Seq(Messages) /\ Len(p) = Len(q) + 1 /\ p[Len(q) + 1] = m
  BY AppendProperties
<1>2. Path(p, from, w)
  BY PathSent DEF Leads
<1>. HIDE DEF p
<1>3. Leads(p, from, w)
  BY <1>1, <1>2 DEF Leads
<1>. QED BY <1>1, <1>3 DEF p

\* The reader sends two instructions, one after the other.
LEMMA LeadsBoth ==
  ASSUME NEW q \in Seq(Messages), NEW a \in Messages, NEW b \in Messages, NEW from, NEW to,
         NEW v \in Views, NEW w \in Views,
         Leads(q, from, to), Executes(to, a, v), Executes(v, b, w), b.op # "DebugLog"
  PROVE  q \o <<a, b>> \in Seq(Messages) /\ Leads(q \o <<a, b>>, from, w)
<1>. DEFINE p == Append(q, a)
            r == Append(p, b)
<1>1. p \in Seq(Messages) /\ Path(p, from, v)
  BY PathSent DEF Leads
<1>2. q \o <<a, b>> = r
  BY TwoMore
<1>. HIDE DEF p
<1>3. /\ r \in Seq(Messages) /\ Len(r) = Len(p) + 1 /\ r[Len(p) + 1] = b
      /\ Path(r, from, w)
  BY <1>1, PathSent, AppendProperties
<1>. HIDE DEF r
<1>4. Leads(r, from, w)
  BY <1>3 DEF Leads
<1>. QED BY <1>2, <1>3, <1>4

\* The packer takes an instruction.
LEMMA LeadsTaken ==
  ASSUME NEW q \in Seq(Messages), q # <<>>, NEW from, NEW to, Leads(q, from, to)
  PROVE  /\ Head(q) \in Messages /\ Tail(q) \in Seq(Messages)
         /\ from \in Views
         /\ \E w \in Views : Executes(from, Head(q), w) /\ Leads(Tail(q), w, to)
<1>. DEFINE n == Len(q)
            p == Tail(q)
<1>1. n \in Nat /\ n > 0 /\ Head(q) = q[1]
  BY Emptied
<1>2. /\ Head(q) \in Messages /\ p \in Seq(Messages) /\ Len(p) = n - 1
      /\ \A i \in 1 .. n - 1 : p[i] = q[i + 1]
  BY HeadTailProperties
<1>3. PICK view \in [0 .. n -> Views] :
        /\ view[0] = from /\ view[n] = to
        /\ \A i \in 1 .. n : Executes(view[i - 1], q[i], view[i])
        /\ \A i, j \in 0 .. n :
             i <= j => view[i].blk <= view[j].blk /\ view[i].sent <= view[j].sent
  BY DEF Leads, Path
<1>. DEFINE less == [i \in 0 .. n - 1 |-> view[i + 1]]
<1>4. /\ less \in [0 .. n - 1 -> Views] /\ \A i \in 0 .. n - 1 : less[i] = view[i + 1]
  BY <1>1, <1>3
<1>. HIDE DEF less, n, p
<1>5. /\ from \in Views /\ view[1] \in Views /\ Executes(from, Head(q), view[1])
  <2>1. 0 \in 0 .. n /\ 1 \in 0 .. n /\ 1 \in 1 .. n /\ 1 - 1 = 0
    BY <1>1
  <2>2. Executes(view[1 - 1], q[1], view[1])
    BY <1>3, <2>1
  <2>. QED BY <1>1, <1>3, <2>1, <2>2
<1>6. Leads(p, view[1], to)
  <2>1. less \in [0 .. Len(p) -> Views] /\ less[0] = view[1] /\ less[Len(p)] = to
    <3>1. 0 \in 0 .. n - 1 /\ n - 1 \in 0 .. n - 1 /\ 0 + 1 = 1 /\ (n - 1) + 1 = n
      BY <1>1
    <3>. QED BY <1>2, <1>3, <1>4, <3>1
  <2>2. ASSUME NEW i \in 1 .. Len(p)
        PROVE  Executes(less[i - 1], p[i], less[i])
    <3>1. /\ i - 1 \in 0 .. n - 1 /\ i \in 0 .. n - 1 /\ i + 1 \in 1 .. n
          /\ (i - 1) + 1 = i /\ (i + 1) - 1 = i /\ i \in 1 .. n - 1
      BY <1>1, <1>2
    <3>2. less[i - 1] = view[i] /\ less[i] = view[i + 1] /\ p[i] = q[i + 1]
      BY <1>2, <1>4, <3>1
    <3>3. Executes(view[(i + 1) - 1], q[i + 1], view[i + 1])
      BY <1>3, <3>1
    <3>. QED BY <3>1, <3>2, <3>3
  <2>3. ASSUME NEW i \in 0 .. Len(p), NEW j \in 0 .. Len(p), i <= j
        PROVE  less[i].blk <= less[j].blk /\ less[i].sent <= less[j].sent
    <3>1. /\ i \in 0 .. n - 1 /\ j \in 0 .. n - 1 /\ i + 1 \in 0 .. n /\ j + 1 \in 0 .. n
          /\ i + 1 <= j + 1
      BY <1>1, <1>2, <2>3
    <3>. QED BY <1>3, <1>4, <3>1
  <2>4. Path(p, view[1], to)
    BY <2>1, <2>2, <2>3, Zenon DEF Path
  <2>5. ASSUME p # <<>>
        PROVE  p[Len(p)].op # "DebugLog"
    <3>1. q[n].op # "DebugLog"
      BY DEF Leads, n
    <3>2. Len(p) # 0
      BY <1>2, <2>5, Emptied
    <3>3. n - 1 \in 1 .. n - 1 /\ (n - 1) + 1 = n
      BY <1>1, <1>2, <3>2
    <3>. QED BY <1>2, <3>1, <3>3
  <2>. QED BY <2>4, <2>5 DEF Leads
<1>. QED BY <1>2, <1>5, <1>6 DEF p

\* The reader is between two blocks and the packer has come to the next one: it has
\* executed everything.
LEMMA LeadsNowhere ==
  ASSUME NEW q \in Seq(Messages), NEW from, NEW to, Leads(q, from, to),
         from.blk = to.blk, to.mode = "loop"
  PROVE  q = <<>>
<1>. DEFINE n == Len(q)
<1>1. n \in Nat /\ (q # <<>> => n > 0)
  BY Emptied
<1>2. PICK view \in [0 .. n -> Views] :
        /\ view[0] = from /\ view[n] = to
        /\ \A i \in 1 .. n : Executes(view[i - 1], q[i], view[i])
        /\ \A i, j \in 0 .. n :
             i <= j => view[i].blk <= view[j].blk /\ view[i].sent <= view[j].sent
  BY DEF Leads, Path
<1>. HIDE DEF n
<1>3. ASSUME q # <<>>
      PROVE  FALSE
  <2>1. n \in 1 .. n /\ n \in 0 .. n /\ n - 1 \in 0 .. n /\ 0 \in 0 .. n /\ 0 <= n - 1
    BY <1>1, <1>3
  <2>2. /\ Executes(view[n - 1], q[n], to) /\ from.blk <= view[n - 1].blk
        /\ view[n - 1] \in Views /\ from \in Views
    BY <1>2, <2>1
  <2>3. q[n].op # "DebugLog"
    BY <1>3 DEF Leads, n
  <2>4. to.blk = view[n - 1].blk + 1
    BY <2>2, <2>3 DEF Executes, View, Views
  <2>. QED BY <2>2, <2>4 DEF Views
<1>. QED BY <1>3

-----------------------------------------------------------------------------
(***************************************************************************)
(* What the invariant says of one state.                                   *)
(***************************************************************************)
\* The descriptors and where their blocks end.
LEMMA DeliveredTyped ==
  ASSUME Typed
  PROVE  /\ delivered \in Seq(Descriptors) /\ Len(delivered) = Len(infos) + Len(backdoor)
         /\ Len(infos) \in Nat /\ Len(backdoor) \in {0, 1} /\ Len(delivered) \in Nat
         /\ \A n \in 1 .. Len(infos) : delivered[n] = infos[n]
         /\ \A n \in 1 .. Len(delivered) : delivered[n] \in Descriptors
         /\ \A n \in 0 .. Len(delivered) : End(n) \in Nat
<1>1. /\ delivered \in Seq(Descriptors) /\ Len(delivered) = Len(infos) + Len(backdoor)
      /\ \A n \in 1 .. Len(infos) + Len(backdoor) :
           delivered[n] = IF n <= Len(infos) THEN infos[n] ELSE backdoor[n - Len(infos)]
  <2>1. infos \in Seq(Descriptors) /\ backdoor \in Seq(Descriptors)
    BY DEF Typed
  <2>. QED BY <2>1, ConcatProperties DEF delivered
<1>2. Len(infos) \in Nat /\ Len(backdoor) \in {0, 1}
  <2>1. /\ infos \in Seq(Descriptors) /\ backdoor \in Seq(Descriptors)
        /\ Len(backdoor) <= 1
    BY DEF Typed, TypeOK
  <2>2. Len(infos) \in Nat /\ Len(backdoor) \in Nat
    BY <2>1, LenProperties
  <2>3. \A n \in Nat : n <= 1 => n \in {0, 1}
    OBVIOUS
  <2>. QED BY <2>1, <2>2, <2>3, Zenon
<1>3. \A n \in 1 .. Len(delivered) : delivered[n] \in Descriptors
  BY <1>1, Emptied
<1>4. \A n \in 0 .. Len(delivered) : End(n) \in Nat
  <2>1. ASSUME NEW n \in 1 .. Len(delivered)
        PROVE  delivered[n].pos + delivered[n].size \in Nat
    BY <1>3 DEF Descriptors
  <2>. QED BY <1>1, <1>2, <2>1 DEF End
<1>. QED BY <1>1, <1>2, <1>3, <1>4

\* The packer expects the instruction that comes, and is never ahead of the reader.
LEMMA Expected ==
  ASSUME IInv
  PROVE  \E got, sent \in Nat, data \in Seq(Chunks) :
           /\ sent - got = Travelling /\ got <= sent
           /\ Sending(data)
           /\ Leads(pipe, PackerView(got), ReaderView(data, sent))
           /\ PackerView(got) \in Views /\ ReaderView(data, sent) \in Views
           /\ Len(delivered) + 1 <= (IF rpc = "collect" THEN blk + 1 ELSE blk)
           /\ pipe # <<>> => \E w \in Views : Executes(PackerView(got), Head(pipe), w)
<1>1. PICK sent \in Nat, got \in Nat, data \in Seq(Chunks) :
        /\ sent - got = Travelling
        /\ Sending(data)
        /\ Leads(pipe, PackerView(got), ReaderView(data, sent))
  BY DEF IInv, Conversation
<1>2. pipe \in Seq(Messages)
  BY DEF IInv, Typed, TypeOK
<1>3. /\ PackerView(got) \in Views /\ ReaderView(data, sent) \in Views
      /\ PackerView(got).blk <= ReaderView(data, sent).blk
      /\ PackerView(got).sent <= ReaderView(data, sent).sent
  BY <1>1, <1>2, LeadsOnward
<1>4. /\ PackerView(got).blk = Len(delivered) + 1 /\ PackerView(got).sent = got
      /\ ReaderView(data, sent).blk = (IF rpc = "collect" THEN blk + 1 ELSE blk)
      /\ ReaderView(data, sent).sent = sent
  BY DEF PackerView, ReaderView, View
<1>5. pipe # <<>> => \E w \in Views : Executes(PackerView(got), Head(pipe), w)
  BY <1>1, <1>2, LeadsTaken
<1>. QED BY <1>1, <1>3, <1>4, <1>5

\* In particular: no buffer is lost, and the packer is at a block of the layout.
LEMMA Bounds ==
  ASSUME IInv
  PROVE  /\ free + returned + Len(inHand) + (IF rpc = "fill" THEN 1 ELSE 0) <= CacheBuffers
         /\ Len(delivered) + 1 <= (IF rpc = "collect" THEN blk + 1 ELSE blk)
         /\ cpc # "no_case"
<1>1. PICK got \in Nat, sent \in Nat, data \in Seq(Chunks) :
        /\ sent - got = Travelling /\ got <= sent
        /\ PackerView(got) \in Views
        /\ Len(delivered) + 1 <= (IF rpc = "collect" THEN blk + 1 ELSE blk)
  BY Expected
<1>2. /\ free \in Nat /\ returned \in Nat /\ Len(inHand) \in Nat /\ CacheBuffers \in Nat
  BY ParametersAssumption, Emptied DEF IInv, Typed, TypeOK
<1>3. Travelling >= 0
  BY <1>1
<1>4. cpc # "no_case"
  BY <1>1 DEF PackerView, View, Views, PackerMode
<1>. QED BY <1>1, <1>2, <1>3, <1>4 DEF Travelling

\* The packer receives what it has a case for, and knows what it is about.
LEMMA Understood ==
  ASSUME IInv, pipe # <<>>
  PROVE  /\ Head(pipe) \in Messages /\ Tail(pipe) \in Seq(Messages)
         /\ cpc = "loop" => Instr \in {"CompressData", "TheEnd", "DebugLog"}
         /\ cpc = "loop" /\ Instr = "CompressData" => Head(pipe).blk = Len(delivered) + 1
         /\ cpc = "copying" => Instr = "CopySolidBlock"
         /\ cpc = "copied" => Instr = "DataEnd"
         /\ cpc = "packing" =>
              Instr \in {"FileStart", "CorrectTotals", "FakeFiles", "DataChunk", "DataEnd"}
         /\ cpc = "directory" => /\ Instr = "Directory"
                                 /\ Describes(Head(pipe).dir, Len(delivered) + 1, PackerData)
         /\ cpc # "done"
<1>1. PICK got \in Nat, w \in Views : Executes(PackerView(got), Head(pipe), w)
  BY Expected
<1>2. /\ PackerView(got).mode = PackerMode /\ PackerView(got).blk = Len(delivered) + 1
      /\ PackerView(got).data = PackerData
  BY DEF PackerView, View
<1>3. Head(pipe) \in Messages /\ Tail(pipe) \in Seq(Messages)
  BY HeadTailProperties DEF IInv, Typed, TypeOK
<1>4. Instr = Head(pipe).op
  BY DEF Instr
<1>. QED BY <1>1, <1>2, <1>3, <1>4 DEF Executes, PackerMode

\* The types of what an instruction carries.
LEMMA Carried ==
  ASSUME NEW m \in Messages
  PROVE  /\ m.op = "CompressData" => m.blk \in 1 .. LastBlock /\ m.copy \in BOOLEAN
         /\ m.op = "DataChunk" => m.chunk \in Chunks
         /\ m.op = "Directory" => m.dir \in Seq(Entries)
BY DEF Messages, Chunks, Entries

\* What is written for a block that is copied.
LEMMA WholeTyped ==
  ASSUME NEW b \in 1 .. LastBlock
  PROVE  Whole(b) \in Seq(Chunks) /\ \A i \in DOMAIN Whole(b) : Whole(b)[i].blk = b
<1>. DEFINE n == Plan[b].files
            w(f) == [blk |-> b, file |-> f]
<1>1. \A f \in 1 .. n : w(f) \in Chunks /\ w(f).blk = b
  BY DEF Chunks
<1>2. Whole(b) = [f \in 1 .. n |-> w(f)]
  BY DEF Whole
<1>3. n \in Nat
  BY PlanTyped DEF Blocks
<1>. HIDE DEF n, w
<1>. QED BY <1>1, <1>2, <1>3

\* The type of every variable.
LEMMA TypedFacts ==
  ASSUME Typed
  PROVE  /\ rpc \in {"open", "seek", "scan", "copy", "fake", "file", "read", "fill", "close",
                    "collect", "end"}
         /\ blk \in 1 .. LastBlock + 1 /\ file \in Nat /\ chunks \in 0 .. MaxChunks
         /\ dir \in Seq(Entries) /\ marks \in [1 .. LastBlock -> Int] /\ due \in 0 .. LastBlock
         /\ free \in 0 .. CacheBuffers /\ returned \in 0 .. CacheBuffers
         /\ pipe \in Seq(Messages)
         /\ infos \in Seq(Descriptors) /\ backdoor \in Seq(Descriptors) /\ Len(backdoor) <= 1
         /\ cpc \in {"loop", "packing", "flushing", "copying", "copied", "directory",
                     "done", "no_case"}
         /\ inHand \in Seq(Chunks) /\ Len(inHand) <= 1
         /\ archive \in Seq(Chunks) /\ store \in Seq(Chunks)
         /\ begun \in [blk : 0 .. LastBlock, pos : Nat]
         /\ pos \in Nat /\ rrPos \in Nat \union {-1} /\ left \in Nat
BY DEF Typed, TypeOK

-----------------------------------------------------------------------------
(***************************************************************************)
(* Who changes what.                                                       *)
(***************************************************************************)
\* The reader reads the archive that is to be protected.
ScanStep == StartScan \/ SeekStart \/ ScanSector \/ SeekBack

\* What such a step leaves alone, and where it leads.
LEMMA ScanKeeps ==
  ASSUME ScanStep
  PROVE  /\ UNCHANGED <<blk, file, chunks, dir, marks, due, infos, free, pipe, returned,
                        backdoor, packer>>
         /\ rpc \in {"open", "seek", "scan"} /\ rpc' \in {"open", "seek", "scan"}
         /\ rpc = "open" => Scans(blk)
BY DEF ScanStep, StartScan, SeekStart, ScanSector, SeekBack, reader

\* The other steps of the reader leave the handle alone.
LEMMA HandleKept ==
  ASSUME Reader, ~ScanStep
  PROVE  UNCHANGED <<pos, rrPos, left>>
BY DEF ScanStep, Reader, OpenBlock, SendWhole, ReadDirectory, StartFile, OpenStream, SkipFile,
   TakeBuffer, ReclaimBuffer, SendBuf, EndOfDiskFile, EndOfArchivedFile, FinishFile, CloseBlock,
   Collect, SendTheEnd, handle

\* The reader does nothing to the packer, and takes descriptors only.
LEMMA ReaderKeeps ==
  ASSUME Typed, Reader
  PROVE  /\ UNCHANGED packer
         /\ delivered' = delivered
         /\ UNCHANGED <<infos, backdoor, due>> \/ Collect \/ CloseBlock
<1>1. CASE Collect
  <2>1. /\ UNCHANGED packer /\ backdoor' = <<>> /\ infos' = infos \o backdoor
    BY <1>1 DEF Collect
  <2>2. delivered \in Seq(Descriptors)
    BY DeliveredTyped
  <2>3. delivered' = delivered
    BY <2>1, <2>2, ConcatEmptySeq DEF delivered
  <2>. QED BY <1>1, <2>1, <2>3
<1>2. CASE ScanStep
  BY <1>2, ScanKeeps DEF delivered
<1>3. CASE ~Collect /\ ~ScanStep
  <2>1. UNCHANGED <<packer, infos, backdoor>> /\ (UNCHANGED due \/ CloseBlock)
    BY <1>3 DEF Reader, OpenBlock, SendWhole, ReadDirectory, StartFile, OpenStream, SkipFile,
       TakeBuffer, ReclaimBuffer, SendBuf, EndOfDiskFile, EndOfArchivedFile, FinishFile,
       CloseBlock, SendTheEnd, ScanStep
  <2>. QED BY <2>1 DEF delivered
<1>. QED BY <1>1, <1>2, <1>3

\* The packer does nothing to the reader.
LEMMA PackerKeeps ==
  ASSUME Packer
  PROVE  UNCHANGED <<reader, rrPos, left>> /\ (UNCHANGED delivered \/ PutBackdoor)
BY DEF Packer, MainLoop, CopyBlock, CopyEnd, ReceiveInstruction, ReturnBuffer,
   WriteToArchive, WriteAt, FinishBlock, PutBackdoor, delivered, reader, handle

-----------------------------------------------------------------------------
(***************************************************************************)
(* The handle.                                                             *)
(***************************************************************************)
\* Before a block whose position is asked for nothing is left to pack, and the packer waits.
LEMMA Idle ==
  ASSUME IInv, rpc \in {"open", "seek", "scan"}, blk > LastSolid
  PROVE  /\ pipe = <<>> /\ cpc = "loop" /\ ~Packer
         /\ Len(delivered) = blk - 1 /\ Len(archive) = End(blk - 1)
<1>1. /\ Typed /\ Packing /\ Collecting /\ Len(delivered) \in Nat
      /\ Len(delivered) = Len(infos) + Len(backdoor) /\ Len(infos) \in Nat
      /\ Len(backdoor) \in Nat
      /\ blk \in 1 .. LastBlock + 1 /\ LastBlock \in Nat /\ SolidBefore \in Nat
      /\ LastSolid \in Nat /\ pipe \in Seq(Messages)
      /\ Len(delivered) + 1 <= blk
  <2>1. Typed
    BY DEF IInv
  <2>2. LastBlock \in Nat /\ SolidBefore \in Nat /\ LastSolid \in Nat
    BY PlanTyped
  <2>3. /\ Len(delivered) \in Nat /\ Len(delivered) = Len(infos) + Len(backdoor)
        /\ Len(infos) \in Nat /\ Len(backdoor) \in Nat
    BY <2>1, DeliveredTyped
  <2>4. Len(delivered) + 1 <= blk
    BY Bounds
  <2>. QED BY <2>1, <2>2, <2>3, <2>4, TypedFacts DEF IInv
<1>2. Len(delivered) = blk - 1
  <2>1. Behind = blk - 1
    BY <1>1 DEF Behind
  <2>2. Len(infos) = blk - 1
    BY <1>1, <2>1 DEF Collecting
  <2>. QED BY <1>1, <2>2
<1>3. PICK got \in Nat, sent \in Nat, data \in Seq(Chunks) :
        Leads(pipe, PackerView(got), ReaderView(data, sent))
  BY Expected
<1>4. ReaderView(data, sent).mode = "loop" /\ ReaderView(data, sent).blk = blk
  BY DEF ReaderView, View, ReaderMode
<1>5. PackerView(got).blk = blk /\ PackerView(got).mode = PackerMode
  BY <1>1, <1>2 DEF PackerView, View
<1>6. pipe = <<>>
  BY <1>1, <1>3, <1>4, <1>5, LeadsNowhere
<1>7. PackerView(got) = ReaderView(data, sent)
  BY <1>3, <1>6, LeadsEmpty
<1>8. cpc = "loop"
  BY <1>4, <1>5, <1>7 DEF PackerMode
<1>9. inHand = <<>> /\ store = <<>> /\ Len(archive) = End(Len(delivered))
  BY <1>1, <1>8 DEF Packing
<1>10. ~Packer
  BY <1>6, <1>8, <1>9 DEF Packer, MainLoop, CopyBlock, CopyEnd, ReceiveInstruction,
     ReturnBuffer, WriteToArchive, FinishBlock, PutBackdoor, Receive
<1>11. Len(archive) = End(blk - 1)
  BY <1>2, <1>9 DEF End
<1>. QED BY <1>2, <1>6, <1>8, <1>10, <1>11

\* The block that begins with reading the archive is none of those.
LEMMA ScansLate ==
  ASSUME NEW b, Scans(b)
  PROVE  b > LastSolid /\ b = Len(Archived) + 1
BY PlanTyped DEF Scans

\* When the packer does something the handle is at the end.
LEMMA AtEnd ==
  ASSUME IInv, Packer
  PROVE  pos = Len(archive) /\ rpc \notin {"seek", "scan"}
<1>1. rpc \notin {"seek", "scan"}
  <2>1. ASSUME rpc \in {"seek", "scan"}
        PROVE  FALSE
    <3>1. blk > LastSolid
      BY <2>1, ScansLate DEF IInv, Handled
    <3>. QED BY <2>1, <3>1, Idle
  <2>. QED BY <2>1
<1>. QED BY <1>1 DEF IInv, Handled

\* So it writes behind what is there.
LEMMA WritesBehind ==
  ASSUME IInv, Packer, NEW data \in Seq(Chunks), WriteAt(data)
  PROVE  archive' = archive \o data /\ pos' = Len(archive')
<1>. PICK n, a, d : n = Len(archive) /\ a = archive /\ d = data
  OBVIOUS
<1>1. a \in Seq(Chunks) /\ d \in Seq(Chunks) /\ pos = n
  BY AtEnd, TypedFacts DEF IInv
<1>2. n \in Nat /\ Len(d) \in Nat
  BY <1>1, LenProperties
<1>3. SubSeq(a, 1, n) = a
  BY <1>1, SubSeqFull
<1>4. SubSeq(a, n + Len(d) + 1, n) = <<>>
  BY <1>1, <1>2, SubSeqEmpty
<1>5. a \o d \in Seq(Chunks) /\ Len(a \o d) = n + Len(d)
  BY <1>1, ConcatProperties
<1>6. (a \o d) \o <<>> = a \o d
  BY <1>5, ConcatEmptySeq
<1>7. archive' = SubSeq(a, 1, n) \o d \o SubSeq(a, n + Len(d) + 1, n) /\ pos' = n + Len(d)
  BY <1>1 DEF WriteAt
<1>8. archive' = a \o d
  BY <1>3, <1>4, <1>6, <1>7
<1>. QED BY <1>5, <1>7, <1>8

\* The same of each step that writes.
LEMMA Writes ==
  ASSUME IInv, WriteToArchive
  PROVE  /\ store # <<>> /\ archive' = Append(archive, Head(store)) /\ store' = Tail(store)
         /\ UNCHANGED <<pipe, returned, backdoor, cpc, begun, inHand>> /\ pos' = Len(archive')
<1>1. store \in Seq(Chunks) /\ archive \in Seq(Chunks) /\ store # <<>>
  BY TypedFacts DEF IInv, WriteToArchive
<1>2. Head(store) \in Chunks
  BY <1>1, HeadTailProperties
<1>. DEFINE d == <<Head(store)>>
<1>3. d \in Seq(Chunks)
  BY <1>2, OneEntry
<1>4. /\ WriteAt(d) /\ store' = Tail(store)
      /\ UNCHANGED <<pipe, returned, backdoor, cpc, begun, inHand>>
  BY DEF WriteToArchive
<1>. HIDE DEF d
<1>5. archive' = archive \o d /\ pos' = Len(archive')
  BY <1>3, <1>4, WritesBehind DEF Packer
<1>6. archive' = Append(archive, Head(store))
  BY <1>1, <1>2, <1>5, AppendIsConcat DEF d
<1>. QED BY <1>1, <1>4, <1>5, <1>6

LEMMA Copies ==
  ASSUME IInv, CopyBlock
  PROVE  /\ cpc = "copying" /\ cpc' = "copied" /\ pipe # <<>> /\ pipe' = Tail(pipe)
         /\ Instr = "CopySolidBlock"
         /\ begun.blk \in 1 .. LastBlock /\ Whole(begun.blk) \in Seq(Chunks)
         /\ archive' = archive \o Whole(begun.blk) /\ pos' = Len(archive')
         /\ UNCHANGED <<returned, backdoor, begun, inHand, store>>
<1>1. /\ cpc = "copying" /\ cpc' = "copied" /\ pipe # <<>> /\ pipe' = Tail(pipe)
      /\ Instr = "CopySolidBlock" /\ WriteAt(Whole(begun.blk))
      /\ UNCHANGED <<returned, backdoor, begun, inHand, store>>
  BY Understood DEF CopyBlock, Receive
<1>2. begun.blk \in 1 .. LastBlock
  <2>1. begun.blk = Len(delivered) + 1 /\ begun.blk \in 0 .. LastBlock
    BY <1>1, TypedFacts DEF IInv, Packing
  <2>2. Len(delivered) \in Nat /\ LastBlock \in Nat
    BY DeliveredTyped, PlanTyped DEF IInv
  <2>. QED BY <2>1, <2>2
<1>3. Whole(begun.blk) \in Seq(Chunks)
  BY <1>2, WholeTyped
<1>4. archive' = archive \o Whole(begun.blk) /\ pos' = Len(archive')
  BY <1>1, <1>3, WritesBehind DEF Packer
<1>. QED BY <1>1, <1>2, <1>3, <1>4

LEMMA Begins ==
  ASSUME IInv, MainLoop
  PROVE  /\ cpc = "loop" /\ pipe # <<>> /\ pipe' = Tail(pipe)
         /\ Instr \in {"CompressData", "TheEnd", "DebugLog"} /\ Head(pipe).op = Instr
         /\ begun' = IF Instr = "CompressData"
                     THEN [blk |-> Head(pipe).blk, pos |-> Len(archive)] ELSE begun
         /\ cpc' = IF Instr = "CompressData"
                   THEN IF Head(pipe).copy THEN "copying" ELSE "packing"
                   ELSE IF Instr = "TheEnd" THEN "done" ELSE "loop"
         /\ UNCHANGED <<returned, backdoor, inHand, store, archive, pos>>
<1>1. pos = Len(archive)
  BY AtEnd DEF Packer
<1>2. cpc = "loop" /\ pipe # <<>> /\ pipe' = Tail(pipe)
  BY DEF MainLoop, Receive
<1>3. Instr \in {"CompressData", "TheEnd", "DebugLog"} /\ Head(pipe).op = Instr
  BY <1>2, Understood DEF Instr
<1>. QED BY <1>1, <1>2, <1>3 DEF MainLoop, handle

-----------------------------------------------------------------------------
(***************************************************************************)
(* A step keeps the types.                                                 *)
(***************************************************************************)
\* Every instruction is one.
LEMMA Instructions ==
  /\ \A o \in {"FileStart", "CorrectTotals", "CopySolidBlock", "FakeFiles", "DataEnd", "TheEnd",
               "DebugLog"} :
       Instruction(o) \in Messages /\ Instruction(o).op = o
  /\ \A b \in 1 .. LastBlock, c \in BOOLEAN :
       [op |-> "CompressData", blk |-> b, copy |-> c] \in Messages
  /\ \A c \in Chunks : [op |-> "DataChunk", chunk |-> c] \in Messages
  /\ \A d \in Seq(Entries) : [op |-> "Directory", dir |-> d] \in Messages
BY DEF Messages, Chunks, Entries, Instruction

\* The directories that are made in one step.
LEMMA DirTyped ==
  ASSUME Plan[blk].files \in Nat
  PROVE  /\ WholeDir \in Seq(Entries) /\ FakeDir \in Seq(Entries)
<1>. DEFINE n == Plan[blk].files
            w(f) == [file |-> f, chunks |-> 1]
            z(f) == [file |-> f, chunks |-> 0]
<1>1. \A f \in 1 .. n : w(f) \in Entries /\ z(f) \in Entries
  BY ParametersAssumption DEF Entries
<1>2. WholeDir = [f \in 1 .. n |-> w(f)] /\ FakeDir = [f \in 1 .. n |-> z(f)]
  BY DEF WholeDir, FakeDir
<1>3. n \in Nat
  OBVIOUS
<1>. HIDE DEF n, w, z
<1>. QED BY <1>1, <1>2, <1>3

\* The same of the state after a step.
LEMMA TypedMade ==
  ASSUME /\ rpc' \in {"open", "seek", "scan", "copy", "fake", "file", "read", "fill", "close",
                     "collect", "end"}
         /\ blk' \in 1 .. LastBlock + 1 /\ file' \in Nat /\ chunks' \in 0 .. MaxChunks
         /\ dir' \in Seq(Entries) /\ marks' \in [1 .. LastBlock -> Int]
         /\ due' \in 0 .. LastBlock
         /\ free' \in 0 .. CacheBuffers /\ returned' \in 0 .. CacheBuffers
         /\ pipe' \in Seq(Messages)
         /\ infos' \in Seq(Descriptors) /\ backdoor' \in Seq(Descriptors)
         /\ Len(backdoor') <= 1
         /\ cpc' \in {"loop", "packing", "flushing", "copying", "copied", "directory",
                      "done", "no_case"}
         /\ inHand' \in Seq(Chunks) /\ Len(inHand') <= 1
         /\ archive' \in Seq(Chunks) /\ store' \in Seq(Chunks)
         /\ begun' \in [blk : 0 .. LastBlock, pos : Nat]
         /\ pos' \in Nat /\ rrPos' \in Nat \union {-1} /\ left' \in Nat
  PROVE  Typed'
BY DEF Typed, TypeOK, Entries

\* Sending keeps the pipe a pipe.
LEMMA SendTyped ==
  ASSUME pipe \in Seq(Messages), NEW m \in Messages, Send(m)
  PROVE  pipe' \in Seq(Messages) /\ pipe' = Append(pipe, m)
BY AppendProperties DEF Send

LEMMA SendBothTyped ==
  ASSUME pipe \in Seq(Messages), NEW a \in Messages, NEW b \in Messages, SendBoth(a, b)
  PROVE  pipe' \in Seq(Messages) /\ pipe' = pipe \o <<a, b>>
<1>1. Append(pipe, a) \in Seq(Messages)
  BY AppendProperties
<1>2. Append(Append(pipe, a), b) \in Seq(Messages)
  BY <1>1, AppendProperties
<1>. QED BY <1>2, TwoMore DEF SendBoth

\* The entry of a file that was read.
LEMMA EntryTyped ==
  ASSUME Typed, NEW c \in 0 .. MaxChunks
  PROVE  /\ [file |-> file + 1, chunks |-> c] \in Entries
         /\ Append(dir, [file |-> file + 1, chunks |-> c]) \in Seq(Entries)
<1>. DEFINE e == [file |-> file + 1, chunks |-> c]
<1>1. e \in Entries /\ dir \in Seq(Entries)
  BY DEF Typed, TypeOK, Entries
<1>. HIDE DEF e
<1>2. Append(dir, e) \in Seq(Entries)
  BY <1>1, AppendProperties
<1>. QED BY <1>1, <1>2 DEF e

\* The reader keeps the types.
LEMMA ReaderTyped ==
  ASSUME IInv, Reader
  PROVE  Typed'
<1>. DEFINE modes == {"open", "seek", "scan", "copy", "fake", "file", "read", "fill", "close",
                      "collect", "end"}
<1>1. /\ Typed /\ Walking /\ Collecting
      /\ free + returned + Len(inHand) + (IF rpc = "fill" THEN 1 ELSE 0) <= CacheBuffers
  BY Bounds DEF IInv
<1>2. /\ rpc \in modes
      /\ blk \in 1 .. LastBlock + 1 /\ file \in Nat /\ chunks \in 0 .. MaxChunks
      /\ dir \in Seq(Entries) /\ marks \in [1 .. LastBlock -> Int] /\ due \in 0 .. LastBlock
      /\ free \in 0 .. CacheBuffers /\ returned \in 0 .. CacheBuffers
      /\ pipe \in Seq(Messages)
      /\ infos \in Seq(Descriptors) /\ backdoor \in Seq(Descriptors) /\ Len(backdoor) <= 1
      /\ Len(inHand) <= 1 /\ Len(inHand) \in Nat /\ Len(archive) \in Nat
      /\ Len(infos) \in Nat /\ Len(backdoor) \in Nat
      /\ pos \in Nat /\ rrPos \in Nat \union {-1} /\ left \in Nat
  <2>1. /\ inHand \in Seq(Chunks) /\ archive \in Seq(Chunks)
        /\ infos \in Seq(Descriptors) /\ backdoor \in Seq(Descriptors)
    BY <1>1, TypedFacts
  <2>2. /\ Len(inHand) \in Nat /\ Len(archive) \in Nat /\ Len(infos) \in Nat
        /\ Len(backdoor) \in Nat
    BY <2>1, LenProperties
  <2>. QED BY <1>1, <2>2, TypedFacts
<1>3. /\ LastBlock \in Nat /\ SolidBefore \in Nat /\ Len(Solid) \in Nat
      /\ LastSolid = SolidBefore + Len(Solid) /\ LastSolid <= LastBlock
      /\ \A b \in 1 .. LastBlock : Plan[b] \in Blocks
      /\ CacheBuffers \in Nat /\ MaxChunks \in Nat /\ MaxChunks >= 1
  BY PlanTyped, ParametersAssumption
<1>4. SUFFICES /\ rpc' \in modes
               /\ blk' \in 1 .. LastBlock + 1 /\ file' \in Nat /\ chunks' \in 0 .. MaxChunks
               /\ dir' \in Seq(Entries) /\ marks' \in [1 .. LastBlock -> Int]
               /\ due' \in 0 .. LastBlock
               /\ free' \in 0 .. CacheBuffers /\ returned' \in 0 .. CacheBuffers
               /\ pipe' \in Seq(Messages)
               /\ infos' \in Seq(Descriptors) /\ backdoor' \in Seq(Descriptors)
               /\ Len(backdoor') <= 1
  <2>1. UNCHANGED packer
    BY <1>1, ReaderKeeps
  <2>2. pos' \in Nat /\ rrPos' \in Nat \union {-1} /\ left' \in Nat
    <3>1. rpc \in {"seek", "scan"} => rrPos \in Nat
      <4>1. rpc \in {"seek", "scan"} => rrPos = Len(archive)
        BY DEF IInv, Handled
      <4>. QED BY <1>2, <4>1
    <3>2. CASE ScanStep
      <4>. PICK p, r, l : p = pos /\ r = rrPos /\ l = left
        OBVIOUS
      <4>1. p \in Nat /\ l \in Nat /\ r \in Nat \union {-1}
        BY <1>2
      <4>2. \/ rrPos' = p /\ pos' = p /\ left' = l
            \/ rpc = "seek" /\ pos' = 0 /\ left' = r /\ rrPos' = r
            \/ rpc = "scan" /\ l > 0 /\ left' = l - 1 /\ pos' \in {p, p + 1} /\ rrPos' = r
            \/ rpc = "scan" /\ pos' = r /\ rrPos' = r /\ left' = l
        BY <3>2 DEF ScanStep, StartScan, SeekStart, ScanSector, SeekBack
      <4>3. pos' \in Nat
        BY <3>1, <4>1, <4>2
      <4>4. left' \in Nat
        BY <3>1, <4>1, <4>2
      <4>5. rrPos' \in Nat \/ rrPos' = r
        BY <4>1, <4>2
      <4>. QED BY <4>1, <4>3, <4>4, <4>5
    <3>3. CASE ~ScanStep
      BY <1>2, <3>3, HandleKept
    <3>. QED BY <3>2, <3>3
  <2>. QED BY <1>1, <1>4, <2>1, <2>2, TypedFacts, TypedMade DEF packer
<1>5. CASE OpenBlock
  <2>. DEFINE l == Instruction("DebugLog")
              m == [op |-> "CompressData", blk |-> blk, copy |-> Plan[blk].how = "copy"]
              v == IF ~Located(blk) THEN -1 ELSE IF Scans(blk) THEN rrPos ELSE pos
  <2>1. blk \in 1 .. LastBlock /\ v \in Int
    <3>1. blk <= LastBlock
      BY <1>5 DEF OpenBlock
    <3>2. pos \in Int /\ rrPos \in Int /\ -1 \in Int
      BY <1>2
    <3>. QED BY <1>2, <1>3, <3>1, <3>2
  <2>2. l \in Messages /\ m \in Messages
    <3>1. (Plan[blk].how = "copy") \in BOOLEAN
      OBVIOUS
    <3>. QED BY <2>1, <3>1, Instructions
  <2>3. /\ (SendBoth(l, m) \/ Send(m)) /\ marks' = [marks EXCEPT ![blk] = v]
        /\ UNCHANGED <<blk, file, chunks, dir, due, infos, free, returned, backdoor>>
    BY <1>5, Zenon DEF OpenBlock
  <2>4. rpc' \in modes
    BY <1>5 DEF OpenBlock
  <2>. HIDE DEF l, m, v
  <2>5. pipe' \in Seq(Messages)
    BY <1>2, <2>2, <2>3, SendTyped, SendBothTyped
  <2>6. marks' \in [1 .. LastBlock -> Int]
    BY <1>2, <2>1, <2>3
  <2>. QED BY <1>2, <2>3, <2>4, <2>5, <2>6
<1>6. CASE SendWhole
  <2>. DEFINE m == Instruction(IF rpc = "copy" THEN "CopySolidBlock" ELSE "FakeFiles")
  <2>1. /\ Send(m) /\ rpc' = "close" /\ (dir' = WholeDir \/ dir' = FakeDir)
        /\ UNCHANGED <<blk, file, chunks, marks, due, infos, free, returned, backdoor>>
        /\ rpc \in {"copy", "fake"}
    BY <1>6 DEF SendWhole
  <2>2. m \in Messages
    BY Instructions
  <2>3. dir' \in Seq(Entries)
    <3>1. blk \in 1 .. LastBlock
      <4>1. blk <= LastBlock
        BY <1>1, <2>1 DEF Walking
      <4>. QED BY <1>2, <1>3, <4>1
    <3>2. Plan[blk].files \in Nat
      BY <1>3, <3>1 DEF Blocks
    <3>. QED BY <2>1, <3>2, DirTyped
  <2>. HIDE DEF m
  <2>4. pipe' \in Seq(Messages)
    BY <1>2, <2>1, <2>2, SendTyped
  <2>. QED BY <1>2, <2>1, <2>3, <2>4
<1>7. CASE ReadDirectory
  <2>1. /\ Send(Instruction("FileStart")) /\ file' = file + 1
        /\ dir' = Append(dir, [file |-> file + 1, chunks |-> 0])
        /\ UNCHANGED <<rpc, blk, chunks, marks, due, infos, free, returned, backdoor>>
    BY <1>7 DEF ReadDirectory
  <2>2. dir' \in Seq(Entries) /\ pipe' \in Seq(Messages)
    BY <1>1, <1>2, <1>3, <2>1, SendTyped, Instructions, EntryTyped
  <2>. QED BY <1>2, <2>1, <2>2
<1>8. CASE StartFile
  <2>. DEFINE c == Instruction("CorrectTotals")
              m == Instruction("FileStart")
  <2>1. /\ (Send(m) \/ SendBoth(c, m)) /\ chunks' = 0 /\ rpc' = "read"
        /\ UNCHANGED <<blk, file, dir, marks, due, infos, free, returned, backdoor>>
    BY <1>8 DEF StartFile
  <2>2. c \in Messages /\ m \in Messages
    BY Instructions
  <2>. HIDE DEF c, m
  <2>3. pipe' \in Seq(Messages)
    BY <1>2, <2>1, <2>2, SendTyped, SendBothTyped
  <2>. QED BY <1>2, <1>3, <2>1, <2>3
<1>9. CASE SkipFile
  <2>1. /\ Send(Instruction("CorrectTotals")) /\ file' = file + 1
        /\ UNCHANGED <<rpc, blk, chunks, dir, marks, due, infos, free, returned, backdoor>>
    BY <1>9 DEF SkipFile
  <2>2. pipe' \in Seq(Messages)
    BY <1>2, <2>1, SendTyped, Instructions
  <2>. QED BY <1>2, <2>1, <2>2
<1>10. CASE TakeBuffer
  BY <1>2, <1>3, <1>10 DEF TakeBuffer
<1>11. CASE ReclaimBuffer
  <2>1. /\ returned > 0 /\ free' = 1 /\ returned' = returned - 1
        /\ UNCHANGED <<rpc, blk, file, chunks, dir, marks, due, infos, pipe, backdoor>>
    BY <1>11 DEF ReclaimBuffer
  <2>2. free' \in 0 .. CacheBuffers /\ returned' \in 0 .. CacheBuffers
    BY <1>2, <1>3, <2>1
  <2>. QED BY <1>2, <2>1, <2>2
<1>12. CASE SendBuf
  <2>. DEFINE m == [op |-> "DataChunk", chunk |-> Chunk]
  <2>1. /\ Send(m) /\ chunks' = chunks + 1 /\ chunks < Longest(blk) /\ rpc' = "read"
        /\ UNCHANGED <<blk, file, dir, marks, due, infos, free, returned, backdoor>>
        /\ rpc = "fill"
    BY <1>12 DEF SendBuf
  <2>2. m \in Messages /\ chunks + 1 \in 0 .. MaxChunks
    <3>1. blk \in 1 .. LastBlock
      <4>1. blk <= LastBlock
        BY <1>1, <2>1 DEF Walking
      <4>. QED BY <1>2, <1>3, <4>1
    <3>2. Chunk \in Chunks
      BY <1>2, <3>1 DEF Chunk, Chunks
    <3>3. Longest(blk) \in {1, MaxChunks}
      BY DEF Longest
    <3>. QED BY <1>2, <1>3, <2>1, <3>2, <3>3, Instructions
  <2>. HIDE DEF m
  <2>3. pipe' \in Seq(Messages)
    BY <1>2, <2>1, <2>2, SendTyped
  <2>. QED BY <1>2, <2>1, <2>2, <2>3
<1>13. CASE EndOfDiskFile
  <2>1. /\ rpc = "fill" /\ free' = free + 1 /\ file' = file + 1 /\ rpc' = "file"
        /\ dir' = Append(dir, [file |-> file + 1, chunks |-> chunks])
        /\ (pipe' = pipe \/ Send(Instruction("CorrectTotals")))
        /\ UNCHANGED <<blk, chunks, marks, due, infos, returned, backdoor>>
    BY <1>13 DEF EndOfDiskFile, FinishFile
  <2>2. dir' \in Seq(Entries)
    BY <1>1, <1>2, <2>1, EntryTyped
  <2>3. free' \in 0 .. CacheBuffers
    BY <1>1, <1>2, <1>3, <2>1
  <2>4. pipe' \in Seq(Messages)
    BY <1>2, <2>1, SendTyped, Instructions
  <2>. QED BY <1>2, <2>1, <2>2, <2>3, <2>4
<1>14. CASE EndOfArchivedFile
  <2>1. /\ free' = free /\ file' = file + 1 /\ rpc' = "file"
        /\ dir' = Append(dir, [file |-> file + 1, chunks |-> chunks])
        /\ UNCHANGED <<blk, chunks, marks, due, infos, pipe, returned, backdoor>>
    BY <1>14 DEF EndOfArchivedFile, FinishFile
  <2>2. dir' \in Seq(Entries)
    BY <1>1, <1>2, <2>1, EntryTyped
  <2>. QED BY <1>2, <2>1, <2>2
<1>15. CASE CloseBlock
  <2>. DEFINE d == IF Plan[blk].type = "DATA" THEN dir ELSE <<>>
              a == Instruction("DataEnd")
              b == [op |-> "Directory", dir |-> d]
  <2>1. /\ SendBoth(a, b) /\ rpc' \in {"open", "collect"}
        /\ blk' \in {blk, blk + 1} /\ due' = MustCollect /\ file' = 0 /\ dir' = <<>>
        /\ UNCHANGED <<chunks, marks, infos, free, returned, backdoor>>
        /\ rpc \in {"close", "file"}
    BY <1>15 DEF CloseBlock
  <2>2. blk \in 1 .. LastBlock
    BY <1>1, <1>2, <1>3, <2>1 DEF Walking
  <2>3. due' \in 0 .. LastBlock
    BY <1>2, <1>3, <2>1, <2>2 DEF MustCollect
  <2>4. d \in Seq(Entries) /\ dir' \in Seq(Entries)
    BY <1>2, <2>1, EmptySeq
  <2>. HIDE DEF d
  <2>5. a \in Messages /\ b \in Messages
    BY <2>4, Instructions
  <2>. HIDE DEF a, b
  <2>6. pipe' \in Seq(Messages)
    BY <1>2, <2>1, <2>5, SendBothTyped
  <2>9. /\ blk' \in 1 .. LastBlock + 1 /\ rpc' \in modes /\ file' \in Nat
    <3>1. blk \in 1 .. LastBlock + 1 /\ blk + 1 \in 1 .. LastBlock + 1
      BY <1>3, <2>2
    <3>. QED BY <2>1, <3>1
  <2>. QED BY <1>2, <2>1, <2>3, <2>4, <2>6, <2>9
<1>16. CASE Collect
  <2>1. /\ rpc = "collect" /\ backdoor' = <<>> /\ infos' = infos \o backdoor
        /\ due' = due - 1
        /\ \/ due = 1 /\ rpc' = "open" /\ blk' = blk + 1
           \/ UNCHANGED <<rpc, blk>>
        /\ UNCHANGED <<file, chunks, dir, marks, free, pipe, returned>>
    BY <1>16 DEF Collect
  <2>2. infos' \in Seq(Descriptors) /\ backdoor' \in Seq(Descriptors) /\ Len(backdoor') = 0
    BY <1>2, <2>1, ConcatProperties, EmptySeq
  <2>3. due > 0 /\ blk \in 1 .. LastBlock
    BY <1>1, <1>2, <1>3, <2>1 DEF Collecting, Walking
  <2>4. blk' \in 1 .. LastBlock + 1 /\ rpc' \in modes
    <3>1. blk \in 1 .. LastBlock + 1 /\ blk + 1 \in 1 .. LastBlock + 1
      BY <1>3, <2>3
    <3>. QED BY <1>2, <2>1, <3>1
  <2>5. due' \in 0 .. LastBlock
    BY <1>2, <1>3, <2>1, <2>3
  <2>. QED BY <1>2, <2>1, <2>2, <2>4, <2>5
<1>17. CASE SendTheEnd
  <2>1. /\ Send(Instruction("TheEnd")) /\ rpc' = "end"
        /\ UNCHANGED <<blk, file, chunks, dir, marks, due, infos, free, returned, backdoor>>
    BY <1>17 DEF SendTheEnd
  <2>2. pipe' \in Seq(Messages)
    BY <1>2, <2>1, SendTyped, Instructions
  <2>. QED BY <1>2, <2>1, <2>2
<1>18. CASE OpenStream
  BY <1>2, <1>3, <1>18 DEF OpenStream
<1>19. CASE ScanStep
  BY <1>2, <1>19, ScanKeeps
<1>. QED BY <1>5, <1>6, <1>7, <1>8, <1>9, <1>10, <1>11, <1>12, <1>13, <1>14, <1>15, <1>16, <1>17,
            <1>18, <1>19
     DEF Reader, ScanStep

\* The packer keeps the types.
LEMMA PackerTyped ==
  ASSUME IInv, Packer
  PROVE  Typed'
<1>. DEFINE modes == {"loop", "packing", "flushing", "copying", "copied", "directory", "done",
                      "no_case"}
            Begun == [blk : 0 .. LastBlock, pos : Nat]
<1>1. /\ Typed /\ Packing
      /\ free + returned + Len(inHand) + (IF rpc = "fill" THEN 1 ELSE 0) <= CacheBuffers
  BY Bounds DEF IInv
<1>2. /\ cpc \in modes
      /\ free \in 0 .. CacheBuffers /\ returned \in 0 .. CacheBuffers
      /\ pipe \in Seq(Messages)
      /\ infos \in Seq(Descriptors) /\ backdoor \in Seq(Descriptors) /\ Len(backdoor) <= 1
      /\ inHand \in Seq(Chunks) /\ Len(inHand) <= 1
      /\ archive \in Seq(Chunks) /\ store \in Seq(Chunks)
      /\ begun \in Begun /\ pos \in Nat
  BY <1>1, TypedFacts
<1>3. /\ Len(inHand) \in Nat /\ Len(archive) \in Nat /\ Len(delivered) \in Nat
      /\ \A n \in 0 .. Len(delivered) : End(n) \in Nat
  <2>1. Len(inHand) \in Nat /\ Len(archive) \in Nat
    BY <1>2, LenProperties
  <2>. QED BY <1>1, <2>1, DeliveredTyped
<1>4. cpc \notin {"loop", "done"} =>
        /\ begun.blk \in 1 .. LastBlock /\ begun.blk = Len(delivered) + 1
        /\ begun.pos \in Nat /\ begun.pos <= Len(archive)
  <2>1. cpc \notin {"loop", "done"} =>
          /\ begun = [blk |-> Len(delivered) + 1, pos |-> End(Len(delivered))]
          /\ begun.pos <= Len(archive)
    BY <1>1 DEF Packing
  <2>. QED BY <1>2, <1>3, <2>1
<1>5. SUFFICES /\ returned' \in 0 .. CacheBuffers
               /\ pipe' \in Seq(Messages)
               /\ backdoor' \in Seq(Descriptors) /\ Len(backdoor') <= 1
               /\ cpc' \in modes
               /\ inHand' \in Seq(Chunks) /\ Len(inHand') <= 1
               /\ archive' \in Seq(Chunks) /\ store' \in Seq(Chunks)
               /\ begun' \in Begun
               /\ pos' \in Nat
  <2>1. UNCHANGED <<reader, rrPos, left>>
    BY PackerKeeps
  <2>. QED BY <1>1, <1>5, <2>1, TypedFacts, TypedMade DEF reader
<1>6. pipe # <<>> => Head(pipe) \in Messages /\ Tail(pipe) \in Seq(Messages)
  BY <1>2, HeadTailProperties
<1>7. CASE MainLoop
  <2>1. /\ pipe # <<>> /\ pipe' = Tail(pipe) /\ cpc' \in modes
        /\ \/ begun' = begun
           \/ /\ Head(pipe).op = "CompressData"
              /\ begun' = [blk |-> Head(pipe).blk, pos |-> Len(archive)]
        /\ UNCHANGED <<returned, backdoor, inHand, store, archive, pos>>
    BY <1>7, Begins
  <2>2. begun' \in Begun
    <3>1. PICK m : m = Head(pipe) /\ m \in Messages
      BY <1>6, <2>1
    <3>2. CASE m.op = "CompressData" /\ begun' = [blk |-> m.blk, pos |-> Len(archive)]
      <4>1. m.blk \in 1 .. LastBlock
        BY <3>1, <3>2, Carried
      <4>2. m.blk \in 0 .. LastBlock
        BY <4>1
      <4>. QED BY <1>3, <3>2, <4>2
    <3>. QED BY <1>2, <2>1, <3>1, <3>2
  <2>. QED BY <1>2, <1>6, <2>1, <2>2
<1>8. CASE CopyBlock
  <2>. DEFINE w == Whole(begun.blk)
  <2>1. /\ pipe # <<>> /\ pipe' = Tail(pipe) /\ cpc' \in modes
        /\ w \in Seq(Chunks) /\ archive' = archive \o w /\ pos' = Len(archive')
        /\ UNCHANGED <<returned, backdoor, begun, inHand, store>>
    BY <1>8, Copies
  <2>. HIDE DEF w
  <2>2. archive' \in Seq(Chunks)
    BY <1>2, <2>1, ConcatProperties
  <2>3. pos' \in Nat
    BY <2>1, <2>2, LenProperties
  <2>. QED BY <1>2, <1>6, <2>1, <2>2, <2>3
<1>9. CASE CopyEnd
  <2>1. /\ pipe # <<>> /\ pipe' = Tail(pipe) /\ cpc' \in modes
        /\ UNCHANGED <<returned, backdoor, begun, inHand, store, archive, pos>>
    BY <1>9 DEF CopyEnd, Receive, Instr, handle
  <2>. QED BY <1>2, <1>6, <2>1
<1>10. CASE ReceiveInstruction
  <2>1. /\ pipe # <<>> /\ pipe' = Tail(pipe) /\ cpc' \in modes
        /\ \/ inHand' = <<>>
           \/ Head(pipe).op = "DataChunk" /\ inHand' = <<Head(pipe).chunk>>
        /\ UNCHANGED <<returned, backdoor, begun, store, archive, pos>>
    BY <1>10 DEF ReceiveInstruction, Receive, Instr, handle
  <2>2. inHand' \in Seq(Chunks) /\ Len(inHand') <= 1
    <3>1. CASE inHand' = <<>>
      BY <3>1, EmptySeq
    <3>2. CASE Head(pipe).op = "DataChunk" /\ inHand' = <<Head(pipe).chunk>>
      <4>1. Head(pipe).chunk \in Chunks
        BY <1>6, <2>1, <3>2, Carried
      <4>. QED BY <3>2, <4>1, OneEntry
    <3>. QED BY <2>1, <3>1, <3>2
  <2>. QED BY <1>2, <1>6, <2>1, <2>2
<1>11. CASE ReturnBuffer
  <2>1. /\ inHand # <<>> /\ store' = store \o inHand /\ inHand' = <<>>
        /\ returned' = returned + 1
        /\ UNCHANGED <<pipe, backdoor, cpc, begun, archive, pos>>
    BY <1>11 DEF ReturnBuffer, handle
  <2>2. /\ store' \in Seq(Chunks) /\ inHand' \in Seq(Chunks) /\ Len(inHand') = 0
    BY <1>2, <2>1, ConcatProperties, EmptySeq
  <2>3. Len(inHand) > 0
    BY <1>2, <1>3, <2>1, Emptied
  <2>4. returned' \in 0 .. CacheBuffers
    <3>1. CacheBuffers \in Nat
      BY ParametersAssumption
    <3>. QED BY <1>1, <1>2, <1>3, <2>1, <2>3, <3>1
  <2>. QED BY <1>2, <2>1, <2>2, <2>4
<1>12. CASE WriteToArchive
  <2>1. /\ store # <<>> /\ archive' = Append(archive, Head(store)) /\ store' = Tail(store)
        /\ UNCHANGED <<pipe, returned, backdoor, cpc, begun, inHand>> /\ pos' = Len(archive')
    BY <1>12, Writes
  <2>2. Head(store) \in Chunks /\ Tail(store) \in Seq(Chunks)
    BY <1>2, <2>1, HeadTailProperties
  <2>3. archive' \in Seq(Chunks)
    BY <1>2, <2>1, <2>2, AppendProperties
  <2>4. pos' \in Nat
    BY <2>1, <2>3, LenProperties
  <2>. QED BY <1>2, <2>1, <2>2, <2>3, <2>4
<1>13. CASE FinishBlock
  <2>1. /\ cpc' = "directory"
        /\ UNCHANGED <<pipe, returned, backdoor, begun, inHand, store, archive, pos>>
    BY <1>13 DEF FinishBlock, handle
  <2>. QED BY <1>2, <2>1
<1>14. CASE PutBackdoor
  <2>. DEFINE d == [blk |-> begun.blk, pos |-> begun.pos, size |-> Len(archive) - begun.pos,
                    dir |-> Head(pipe).dir]
  <2>1. /\ pipe # <<>> /\ pipe' = Tail(pipe) /\ cpc' \in modes /\ cpc = "directory"
        /\ \/ backdoor' = backdoor
           \/ Head(pipe).op = "Directory" /\ backdoor' = <<d>>
        /\ UNCHANGED <<returned, begun, inHand, store, archive, pos>>
    BY <1>14 DEF PutBackdoor, Receive, Instr, handle
  <2>2. Head(pipe).op = "Directory" => d \in Descriptors
    <3>1. Head(pipe).op = "Directory" => Head(pipe).dir \in Seq(Entries)
      BY <1>6, <2>1, Carried
    <3>. QED BY <1>3, <1>4, <2>1, <3>1 DEF Descriptors
  <2>. HIDE DEF d
  <2>3. backdoor' \in Seq(Descriptors) /\ Len(backdoor') <= 1
    <3>1. CASE backdoor' = backdoor
      BY <1>2, <3>1
    <3>2. CASE Head(pipe).op = "Directory" /\ backdoor' = <<d>>
      BY <2>2, <3>2, OneEntry
    <3>. QED BY <2>1, <3>1, <3>2
  <2>. QED BY <1>2, <1>6, <2>1, <2>3
<1>. QED BY <1>7, <1>8, <1>9, <1>10, <1>11, <1>12, <1>13, <1>14 DEF Packer

-----------------------------------------------------------------------------
(***************************************************************************)
(* A step keeps the way of each of the two.                                *)
(***************************************************************************)
\* Where a step of the reader takes it.
LEMMA WalkingKept ==
  ASSUME IInv, Next
  PROVE  Walking'
<1>2. CASE Packer
  <2>1. UNCHANGED reader
    BY <1>2, PackerKeeps
  <2>. QED BY <2>1 DEF IInv, Walking, reader
<1>3. CASE Reader
  <2>1. Walking /\ blk \in 1 .. LastBlock + 1 /\ LastBlock \in Nat
    BY PlanTyped, TypedFacts DEF IInv
  <2>2. CASE OpenBlock
    BY <2>1, <2>2 DEF Walking, OpenBlock
  <2>3. CASE SendWhole
    BY <2>1, <2>3 DEF Walking, SendWhole
  <2>4. CASE \/ ReadDirectory \/ StartFile \/ OpenStream \/ SkipFile \/ TakeBuffer
             \/ ReclaimBuffer
    BY <2>1, <2>4 DEF Walking, ReadDirectory, StartFile, OpenStream, SkipFile, TakeBuffer,
       ReclaimBuffer
  <2>5. CASE SendBuf \/ EndOfDiskFile \/ EndOfArchivedFile
    BY <2>1, <2>5 DEF Walking, SendBuf, EndOfDiskFile, EndOfArchivedFile, FinishFile
  <2>6. CASE CloseBlock \/ Collect \/ SendTheEnd
    BY <2>1, <2>6 DEF Walking, CloseBlock, Collect, SendTheEnd
  <2>7. CASE ScanStep
    BY <2>1, <2>7, ScanKeeps DEF Walking
  <2>. QED BY <1>3, <2>2, <2>3, <2>4, <2>5, <2>6, <2>7 DEF Reader, ScanStep
<1>. QED BY <1>2, <1>3 DEF Next

\* The descriptors that are due.
LEMMA CollectingKept ==
  ASSUME IInv, Next
  PROVE  Collecting'
<1>1. /\ Walking /\ Collecting /\ Typed
      /\ infos \in Seq(Descriptors) /\ backdoor \in Seq(Descriptors) /\ due \in 0 .. LastBlock
      /\ Len(infos) \in Nat /\ Len(backdoor) \in Nat /\ Len(backdoor) <= 1
      /\ blk \in 1 .. LastBlock + 1 /\ LastBlock \in Nat /\ SolidBefore \in Nat
      /\ Len(Solid) \in Nat /\ LastSolid = SolidBefore + Len(Solid) /\ LastSolid <= LastBlock
  <2>1. Typed
    BY DEF IInv
  <2>. QED BY <2>1, PlanTyped, TypedFacts, DeliveredTyped DEF IInv
<1>2. CASE CloseBlock
  <2>1. /\ rpc # "collect" /\ rpc # "open" /\ rpc # "end" /\ due' = MustCollect /\ infos' = infos
        /\ IF MustCollect = 0 THEN rpc' = "open" /\ blk' = blk + 1
                              ELSE rpc' = "collect" /\ blk' = blk
    BY <1>2 DEF CloseBlock
  <2>2. Len(infos) = Behind
    BY <1>1, <2>1 DEF Collecting
  <2>3. CASE MustCollect = 0
    <3>1. blk < LastSolid /\ blk > SolidBefore
      BY <1>1, <2>3 DEF MustCollect
    <3>2. Behind = SolidBefore /\ Behind' = SolidBefore
      BY <1>1, <2>1, <2>3, <3>1 DEF Behind
    <3>. QED BY <1>1, <2>1, <2>2, <2>3, <3>2 DEF Collecting
  <2>4. CASE MustCollect # 0
    <3>1. /\ MustCollect > 0 /\ Behind + MustCollect = blk
          /\ blk <= SolidBefore \/ blk >= LastSolid
      <4>1. ~(blk < LastSolid /\ blk > SolidBefore)
        BY <2>4 DEF MustCollect
      <4>2. CASE blk = LastSolid /\ Len(Solid) > 0
        <5>1. MustCollect = Len(Solid)
          BY <4>1, <4>2 DEF MustCollect
        <5>2. Behind = SolidBefore
          BY <1>1, <4>2 DEF Behind
        <5>. QED BY <1>1, <4>2, <5>1, <5>2
      <4>3. CASE ~(blk = LastSolid /\ Len(Solid) > 0)
        <5>1. MustCollect = 1
          BY <4>1, <4>3 DEF MustCollect
        <5>2. blk <= SolidBefore \/ blk > LastSolid
          BY <1>1, <4>1, <4>3
        <5>3. Behind = blk - 1
          BY <1>1, <5>2 DEF Behind
        <5>. QED BY <1>1, <5>1, <5>2, <5>3
      <4>. QED BY <4>2, <4>3
    <3>2. Behind' = Behind
      BY <2>1, <2>4 DEF Behind
    <3>. QED BY <1>1, <2>1, <2>2, <2>4, <3>1, <3>2 DEF Collecting
  <2>. QED BY <2>3, <2>4
<1>3. CASE Collect
  <2>1. /\ rpc = "collect" /\ backdoor # <<>> /\ infos' = infos \o backdoor /\ due' = due - 1
        /\ IF due = 1 THEN rpc' = "open" /\ blk' = blk + 1
                      ELSE UNCHANGED <<rpc, blk>>
    BY <1>3 DEF Collect
  <2>2. Len(infos') = Len(infos) + 1
    <3>1. infos \in Seq(Descriptors) /\ backdoor \in Seq(Descriptors)
      BY <1>1
    <3>2. Len(backdoor) # 0
      BY <2>1, <3>1, Emptied
    <3>3. Len(infos \o backdoor) = Len(infos) + Len(backdoor)
      BY <3>1, ConcatProperties
    <3>. QED BY <1>1, <2>1, <3>2, <3>3
  <2>. QED BY <1>1, <2>1, <2>2 DEF Collecting, Behind
<1>4. CASE Packer
  <2>1. UNCHANGED reader
    BY <1>4, PackerKeeps
  <2>. QED BY <1>1, <2>1 DEF Collecting, Behind, reader
<1>5. CASE Reader /\ ~CloseBlock /\ ~Collect
  <2>1. UNCHANGED <<infos, due, blk>> /\ rpc # "collect" /\ rpc' # "collect"
    <3>1. CASE ScanStep
      BY <3>1, ScanKeeps
    <3>2. CASE ~ScanStep
      BY <1>5, <3>2 DEF Reader, OpenBlock, SendWhole, ReadDirectory, StartFile, OpenStream,
         SkipFile, TakeBuffer, ReclaimBuffer, SendBuf, EndOfDiskFile, EndOfArchivedFile,
         FinishFile, SendTheEnd, ScanStep
    <3>. QED BY <3>1, <3>2
  <2>. QED BY <1>1, <2>1 DEF Collecting, Behind
<1>. QED BY <1>2, <1>3, <1>4, <1>5 DEF Next

\* The descriptor the packer makes is that of the next block, which is written.
LEMMA Put ==
  ASSUME IInv, PutBackdoor, NEW D, D = Len(delivered)
  PROVE  /\ D \in Nat /\ D = Len(infos)
         /\ cpc = "directory" /\ cpc' = "loop" /\ inHand = <<>> /\ store = <<>>
         /\ UNCHANGED <<reader, archive, inHand, store, returned>>
         /\ pipe # <<>> /\ pipe' = Tail(pipe) /\ Instr = "Directory"
         /\ Len(delivered') = D + 1
         /\ \A n \in 1 .. D : delivered'[n] = delivered[n]
         /\ delivered'[D + 1].blk = D + 1 /\ delivered'[D + 1].pos = End(D)
         /\ delivered'[D + 1].dir = Head(pipe).dir
         /\ \A n \in 0 .. D : End(n)' = End(n)
         /\ End(D + 1)' = Len(archive) /\ End(D) <= Len(archive)
         /\ Describes(Head(pipe).dir, D + 1, SubSeq(archive, End(D) + 1, Len(archive)))
<1>1. /\ cpc = "directory" /\ pipe # <<>> /\ pipe' = Tail(pipe) /\ backdoor = <<>>
      /\ UNCHANGED <<reader, archive, inHand, store, returned>>
  BY DEF PutBackdoor, Receive
<1>2. Instr = "Directory" /\ Describes(Head(pipe).dir, D + 1, PackerData)
  BY <1>1, Understood
<1>. DEFINE d == [blk |-> begun.blk, pos |-> begun.pos, size |-> Len(archive) - begun.pos,
                  dir |-> Head(pipe).dir]
<1>3. cpc' = "loop" /\ backdoor' = <<d>> /\ infos' = infos
  BY <1>1, <1>2 DEF PutBackdoor, Instr, reader
<1>4. /\ infos \in Seq(Descriptors) /\ archive \in Seq(Chunks) /\ Len(archive) \in Nat
      /\ D \in Nat /\ D = Len(infos) /\ End(D) \in Nat
      /\ \A n \in 0 .. D : End(n) \in Nat
  <2>1. Typed
    BY DEF IInv
  <2>2. Len(backdoor) = 0
    BY <1>1, EmptySeq
  <2>3. /\ infos \in Seq(Descriptors) /\ archive \in Seq(Chunks)
    BY <2>1, TypedFacts
  <2>4. Len(archive) \in Nat /\ Len(infos) \in Nat
    BY <2>3, LenProperties
  <2>5. D = Len(infos) + 0 /\ D \in Nat /\ \A n \in 0 .. D : End(n) \in Nat
    BY <2>1, <2>2, DeliveredTyped
  <2>. QED BY <2>3, <2>4, <2>5
<1>5. begun.blk = D + 1 /\ begun.pos = End(D) /\ End(D) <= Len(archive)
      /\ inHand = <<>> /\ store = <<>>
  <2>1. begun = [blk |-> D + 1, pos |-> End(D)] /\ begun.pos <= Len(archive)
    BY <1>1 DEF IInv, Packing
  <2>. QED BY <1>1, <2>1 DEF IInv, Packing
<1>6. PackerData = SubSeq(archive, End(D) + 1, Len(archive))
  <2>. DEFINE s == SubSeq(archive, End(D) + 1, Len(archive))
  <2>1. s \in Seq(Chunks)
    <3>1. \A i \in End(D) + 1 .. Len(archive) : archive[i] \in Chunks
      BY <1>4, Emptied
    <3>. QED BY <1>4, <3>1, SubSeqProperties
  <2>2. PackerData = s \o (<<>> \o <<>>)
    BY <1>1, <1>5 DEF PackerData
  <2>. HIDE DEF s
  <2>3. <<>> \o <<>> = <<>> /\ s \o <<>> = s
    BY <2>1, EmptySeq, ConcatEmptySeq
  <2>. QED BY <2>2, <2>3 DEF s
<1>7. /\ d.blk = D + 1 /\ d.pos = End(D) /\ d.size = Len(archive) - End(D)
      /\ d.dir = Head(pipe).dir
  BY <1>5
<1>. HIDE DEF d
<1>8. delivered' = infos \o <<d>> /\ delivered = infos
  BY <1>1, <1>3, <1>4, ConcatEmptySeq DEF delivered
<1>9. /\ Len(delivered') = D + 1 /\ delivered'[D + 1] = d
      /\ \A n \in 1 .. D : delivered'[n] = delivered[n]
  <2>. DEFINE S == Descriptors \union {d}
              u == <<d>>
  <2>1. infos \in Seq(S)
    <3>1. Len(infos) \in Nat /\ DOMAIN infos = 1 .. Len(infos)
          /\ \A i \in 1 .. Len(infos) : infos[i] \in S
      BY <1>4, Emptied
    <3>2. infos = [i \in 1 .. Len(infos) |-> infos[i]]
      BY <1>4
    <3>. QED BY <3>1, <3>2
  <2>2. u \in Seq(S) /\ Len(u) = 1 /\ u[1] = d
    BY OneEntry
  <2>. HIDE DEF S, u
  <2>3. /\ Len(infos \o u) = Len(infos) + Len(u)
        /\ \A i \in 1 .. Len(infos) + Len(u) :
             (infos \o u)[i] = IF i <= Len(infos) THEN infos[i] ELSE u[i - Len(infos)]
    BY <2>1, <2>2, ConcatProperties
  <2>4. /\ D + 1 \in 1 .. Len(infos) + Len(u) /\ ~(D + 1 <= Len(infos)) /\ D + 1 - Len(infos) = 1
        /\ \A n \in 1 .. D : n \in 1 .. Len(infos) + Len(u) /\ n <= Len(infos)
    BY <1>4, <2>2
  <2>5. delivered' = infos \o u
    BY <1>8 DEF u
  <2>. QED BY <1>4, <1>8, <2>2, <2>3, <2>4, <2>5
<1>10. /\ \A n \in 0 .. D : End(n)' = End(n)
       /\ End(D + 1)' = Len(archive)
  <2>1. ASSUME NEW n \in 0 .. D
        PROVE  End(n)' = End(n)
    <3>1. n = 0 \/ n \in 1 .. D
      BY <1>4
    <3>. QED BY <1>9, <3>1 DEF End
  <2>2. End(D + 1)' = d.pos + d.size
    BY <1>4, <1>9 DEF End
  <2>. QED BY <1>4, <1>7, <2>1, <2>2
<1>. QED BY <1>1, <1>2, <1>3, <1>4, <1>5, <1>6, <1>7, <1>9, <1>10

\* The reader waits for the descriptor of a block whose position it has asked for.
LEMMA PutLocated ==
  ASSUME IInv, PutBackdoor, Located(Len(delivered) + 1)
  PROVE  rpc = "collect" /\ blk = Len(delivered) + 1
<1>. DEFINE D == Len(delivered)
            at == IF rpc = "collect" THEN blk + 1 ELSE blk
<1>1. /\ D \in Nat /\ D = Len(infos) /\ pipe # <<>> /\ Instr = "Directory"
  BY Put
<1>2. PICK got \in Nat, sent \in Nat, data \in Seq(Chunks) :
        Leads(pipe, PackerView(got), ReaderView(data, sent))
  BY Expected
<1>3. /\ pipe \in Seq(Messages) /\ blk \in 1 .. LastBlock + 1 /\ LastBlock \in Nat
      /\ SolidBefore \in Nat /\ LastSolid \in Nat /\ LastSolid <= LastBlock
      /\ due \in 0 .. LastBlock
  BY TypedFacts, PlanTyped DEF IInv
<1>4. PICK w \in Views : /\ Executes(PackerView(got), Head(pipe), w)
                         /\ Leads(Tail(pipe), w, ReaderView(data, sent))
  BY <1>1, <1>2, <1>3, LeadsTaken
<1>5. w.blk = D + 2
  <2>1. Head(pipe).op = "Directory"
    BY <1>1 DEF Instr
  <2>2. w = View("loop", PackerView(got).blk + 1, <<>>, PackerView(got).sent)
    BY <1>4, <2>1 DEF Executes
  <2>. QED BY <1>1, <2>2 DEF View, PackerView
<1>6. Tail(pipe) \in Seq(Messages)
  BY <1>1, <1>3, HeadTailProperties
<1>7. D + 2 <= at
  <2>1. w.blk <= ReaderView(data, sent).blk
    BY <1>4, <1>6, LeadsOnward
  <2>2. ReaderView(data, sent).blk = at
    BY DEF ReaderView, View
  <2>. QED BY <1>5, <2>1, <2>2
<1>. HIDE DEF at, D
<1>8. D + 1 > LastSolid
  <2>1. D + 1 \in 1 .. LastBlock
    <3>1. cpc = "directory"
      BY DEF PutBackdoor
    <3>2. begun.blk = D + 1 /\ begun.blk \in 0 .. LastBlock
      BY <1>1, <3>1, TypedFacts DEF IInv, Packing, D
    <3>. QED BY <1>1, <3>2
  <2>. QED BY <2>1, PlanTyped DEF D
<1>9. Collecting /\ Len(infos) \in Nat
  BY <1>1 DEF IInv
<1>10. CASE rpc = "collect"
  <2>1. at = blk + 1 /\ blk > LastSolid
    BY <1>1, <1>3, <1>7, <1>8, <1>10 DEF at
  <2>2. Behind = blk - 1
    BY <1>3, <2>1 DEF Behind
  <2>. QED BY <1>1, <1>3, <1>7, <1>9, <1>10, <2>1, <2>2 DEF Collecting, D
<1>11. CASE rpc # "collect"
  <2>1. at = blk /\ blk > LastSolid
    BY <1>1, <1>3, <1>7, <1>8, <1>11 DEF at
  <2>2. Behind = blk - 1
    BY <1>3, <2>1 DEF Behind
  <2>. QED BY <1>1, <1>3, <1>7, <1>9, <1>11, <2>1, <2>2 DEF Collecting
<1>. QED BY <1>10, <1>11 DEF D

\* Nothing but a descriptor moves the ends of the blocks.
LEMMA EndsKept ==
  ASSUME delivered' = delivered
  PROVE  Len(delivered)' = Len(delivered) /\ \A n : End(n)' = End(n)
BY DEF End

\* Where a step takes the packer.
LEMMA PackingKept ==
  ASSUME IInv, Next
  PROVE  Packing'
<1>1. /\ Typed /\ Packing
      /\ archive \in Seq(Chunks) /\ store \in Seq(Chunks) /\ inHand \in Seq(Chunks)
      /\ Len(delivered) \in Nat /\ Len(archive) \in Nat
      /\ \A n \in 0 .. Len(delivered) : End(n) \in Nat
  <2>1. Typed /\ Packing
    BY DEF IInv
  <2>2. archive \in Seq(Chunks) /\ store \in Seq(Chunks) /\ inHand \in Seq(Chunks)
    BY <2>1, TypedFacts
  <2>3. Len(archive) \in Nat
    BY <2>2, LenProperties
  <2>. QED BY <2>1, <2>2, <2>3, DeliveredTyped
<1>2. CASE Reader
  <2>1. UNCHANGED packer /\ delivered' = delivered
    BY <1>1, <1>2, ReaderKeeps
  <2>2. Len(delivered)' = Len(delivered) /\ \A n : End(n)' = End(n)
    BY <2>1, EndsKept
  <2>. QED BY <1>1, <2>1, <2>2 DEF Packing, packer
<1>3. CASE PutBackdoor
  <2>. PICK D : D = Len(delivered)
    OBVIOUS
  <2>1. /\ cpc' = "loop" /\ inHand' = <<>> /\ store' = <<>> /\ archive' = archive
        /\ Len(delivered') = D + 1 /\ End(D + 1)' = Len(archive)
    BY <1>3, Put, Zenon
  <2>2. End(Len(delivered))' = Len(archive)
    BY <2>1 DEF End
  <2>. QED BY <2>1, <2>2 DEF Packing
<1>4. CASE Packer /\ ~PutBackdoor
  <2>1. delivered' = delivered
    BY <1>4, PackerKeeps
  <2>2. Len(delivered)' = Len(delivered) /\ \A n : End(n)' = End(n)
    BY <2>1, EndsKept
  <2>. DEFINE D == Len(delivered)
              E == End(D)
  <2>3. Len(delivered)' = D /\ End(Len(delivered))' = E
    BY <2>1, <2>2 DEF End
  <2>4. E \in Nat /\ D \in Nat
    BY <1>1
  <2>5. SUFFICES /\ inHand' # <<>> => cpc' = "packing"
                 /\ store' # <<>> => cpc' \in {"packing", "flushing"}
                 /\ IF cpc' \in {"loop", "done"} THEN Len(archive') = E
                    ELSE begun' = [blk |-> D + 1, pos |-> E] /\ begun'.pos <= Len(archive')
    BY <2>3 DEF Packing
  <2>6. /\ inHand # <<>> => cpc = "packing"
        /\ store # <<>> => cpc \in {"packing", "flushing"}
        /\ IF cpc \in {"loop", "done"} THEN Len(archive) = E
           ELSE begun = [blk |-> D + 1, pos |-> E] /\ begun.pos <= Len(archive)
    BY <1>1 DEF Packing
  <2>. HIDE DEF D, E
  <2>7. CASE MainLoop
    <3>1. /\ Instr \in {"CompressData", "TheEnd", "DebugLog"} /\ cpc = "loop"
          /\ UNCHANGED <<inHand, store, archive>>
          /\ begun' = IF Instr = "CompressData"
                      THEN [blk |-> Head(pipe).blk, pos |-> Len(archive)] ELSE begun
          /\ cpc' = IF Instr = "CompressData"
                    THEN IF Head(pipe).copy THEN "copying" ELSE "packing"
                    ELSE IF Instr = "TheEnd" THEN "done" ELSE "loop"
      BY <2>7, Begins
    <3>2. Instr = "CompressData" => Head(pipe).blk = D + 1
      BY <2>7, <3>1, Understood DEF MainLoop, Receive, D
    <3>3. Len(archive) = E /\ inHand = <<>> /\ store = <<>>
      BY <2>6, <3>1
    <3>4. CASE Instr = "CompressData"
      BY <1>1, <2>4, <3>1, <3>2, <3>3, <3>4
    <3>5. CASE Instr # "CompressData"
      BY <1>1, <2>4, <3>1, <3>3, <3>5
    <3>. QED BY <3>4, <3>5
  <2>8. CASE CopyBlock
    <3>1. /\ cpc = "copying" /\ cpc' = "copied" /\ UNCHANGED <<begun, inHand, store>>
          /\ archive' = archive \o Whole(begun.blk)
      BY <2>8, Copies
    <3>2. Whole(begun.blk) \in Seq(Chunks)
      BY <2>8, Copies
    <3>. DEFINE w == Whole(begun.blk)
    <3>. HIDE DEF w
    <3>3. w \in Seq(Chunks) /\ archive \in Seq(Chunks)
      BY <1>1, <3>2 DEF w
    <3>4. Len(archive \o w) = Len(archive) + Len(w) /\ Len(w) \in Nat
      BY <3>3, ConcatProperties, LenProperties
    <3>5. archive' = archive \o w
      BY <3>1 DEF w
    <3>. QED BY <1>1, <2>4, <2>6, <3>1, <3>4, <3>5
  <2>9. CASE CopyEnd
    BY <2>6, <2>9 DEF CopyEnd
  <2>10. CASE ReceiveInstruction
    BY <2>6, <2>10 DEF ReceiveInstruction
  <2>11. CASE ReturnBuffer
    BY <2>6, <2>11 DEF ReturnBuffer
  <2>12. CASE WriteToArchive
    <3>1. /\ store # <<>> /\ archive' = Append(archive, Head(store)) /\ store' = Tail(store)
          /\ UNCHANGED <<cpc, begun, inHand>>
      BY <2>12, Writes
    <3>2. Head(store) \in Chunks
      BY <1>1, <3>1, HeadTailProperties
    <3>3. Len(archive') = Len(archive) + 1
      BY <1>1, <3>1, <3>2, AppendProperties
    <3>. QED BY <1>1, <2>4, <2>6, <3>1, <3>3
  <2>13. CASE FinishBlock
    BY <2>6, <2>13 DEF FinishBlock
  <2>. QED BY <1>4, <2>7, <2>8, <2>9, <2>10, <2>11, <2>12, <2>13 DEF Packer
<1>. QED BY <1>2, <1>3, <1>4 DEF Next

\* What a step of the packer does to the archive: nothing that is there changes.
LEMMA Written ==
  ASSUME IInv, Packer
  PROVE  \E r \in Seq(Chunks) : archive' = archive \o r
<1>1. /\ Typed /\ archive \in Seq(Chunks) /\ store \in Seq(Chunks) /\ <<>> \in Seq(Chunks)
  BY TypedFacts, EmptySeq DEF IInv
<1>2. CASE archive' = archive
  <2>1. archive' = archive \o <<>>
    BY <1>1, <1>2, ConcatEmptySeq
  <2>. QED BY <1>1, <2>1
<1>3. CASE CopyBlock
  <2>1. archive' = archive \o Whole(begun.blk) /\ Whole(begun.blk) \in Seq(Chunks)
    BY <1>3, Copies
  <2>. QED BY <2>1, Zenon
<1>4. CASE WriteToArchive
  <2>1. store # <<>> /\ archive' = Append(archive, Head(store))
    BY <1>4, Writes
  <2>2. Head(store) \in Chunks
    BY <1>1, <2>1, HeadTailProperties
  <2>3. <<Head(store)>> \in Seq(Chunks)
    BY <2>2, OneEntry
  <2>4. archive' = archive \o <<Head(store)>>
    BY <1>1, <2>1, <2>2, AppendIsConcat
  <2>. QED BY <2>3, <2>4, Zenon
<1>5. archive' = archive \/ CopyBlock \/ WriteToArchive
  BY DEF Packer, MainLoop, CopyBlock, CopyEnd, ReceiveInstruction, ReturnBuffer,
     WriteToArchive, FinishBlock, PutBackdoor
<1>. QED BY <1>2, <1>3, <1>4, <1>5

\* What has been delivered stays true.
LEMMA DeliveredKept ==
  ASSUME IInv, Next
  PROVE  Delivered'
<1>1. /\ Typed /\ Delivered
      /\ archive \in Seq(Chunks) /\ Len(archive) \in Nat
      /\ Len(delivered) \in Nat /\ \A n \in 0 .. Len(delivered) : End(n) \in Nat
      /\ \A n \in 1 .. Len(delivered) : delivered[n] \in Descriptors
  <2>1. Typed /\ Delivered
    BY DEF IInv
  <2>2. archive \in Seq(Chunks)
    BY <2>1, TypedFacts
  <2>3. Len(archive) \in Nat
    BY <2>2, LenProperties
  <2>. QED BY <2>1, <2>2, <2>3, DeliveredTyped
<1>2. CASE Reader
  <2>1. UNCHANGED archive /\ delivered' = delivered
    BY <1>1, <1>2, ReaderKeeps DEF packer
  <2>2. \A n : End(n)' = End(n)
    BY <2>1, EndsKept
  <2>3. \A n \in 1 .. Len(delivered) : marks'[n] = marks[n]
    <3>1. CASE OpenBlock
      <4>. PICK v : v = IF ~Located(blk) THEN -1 ELSE IF Scans(blk) THEN rrPos ELSE pos
        OBVIOUS
      <4>1. marks' = [marks EXCEPT ![blk] = v] /\ rpc = "open"
        BY <3>1 DEF OpenBlock
      <4>2. Len(delivered) + 1 <= blk /\ marks \in [1 .. LastBlock -> Int]
            /\ blk \in 1 .. LastBlock + 1 /\ LastBlock \in Nat
        BY <1>1, <4>1, Bounds, TypedFacts, PlanTyped
      <4>3. \A n \in 1 .. Len(delivered) : n # blk /\ n \in 1 .. LastBlock
        BY <1>1, <4>2
      <4>. QED BY <4>1, <4>2, <4>3
    <3>2. CASE ~OpenBlock
      <4>1. marks' = marks
        <5>1. CASE ScanStep
          BY <5>1, ScanKeeps
        <5>2. CASE ~ScanStep
          BY <1>2, <3>2, <5>2 DEF Reader, SendWhole, ReadDirectory, StartFile, OpenStream,
             SkipFile, TakeBuffer, ReclaimBuffer, SendBuf, EndOfDiskFile, EndOfArchivedFile,
             FinishFile, CloseBlock, Collect, SendTheEnd, ScanStep
        <5>. QED BY <5>1, <5>2
      <4>. QED BY <4>1
    <3>. QED BY <3>1, <3>2
  <2>4. ASSUME NEW n \in 1 .. Len(delivered)
        PROVE  /\ delivered'[n].blk = n /\ delivered'[n].pos = End(n - 1)'
               /\ End(n)' <= Len(archive')
               /\ Located(n) => marks'[n] = delivered'[n].pos
               /\ Describes(delivered'[n].dir, n,
                            SubSeq(archive', delivered'[n].pos + 1, End(n)'))
    BY <1>1, <2>1, <2>2, <2>3 DEF Delivered
  <2>5. Len(delivered)' = Len(delivered)
    BY <2>1
  <2>. QED BY <2>4, <2>5 DEF Delivered
<1>3. CASE Packer /\ ~PutBackdoor
  <2>1. delivered' = delivered /\ marks' = marks
    BY <1>3, PackerKeeps DEF reader
  <2>2. \A n : End(n)' = End(n)
    BY <2>1, EndsKept
  <2>3. PICK r \in Seq(Chunks) : archive' = archive \o r
    BY <1>3, Written
  <2>4. ASSUME NEW n \in 1 .. Len(delivered)
        PROVE  /\ delivered'[n].blk = n /\ delivered'[n].pos = End(n - 1)'
               /\ End(n)' <= Len(archive')
               /\ Located(n) => marks'[n] = delivered'[n].pos
               /\ Describes(delivered'[n].dir, n,
                            SubSeq(archive', delivered'[n].pos + 1, End(n)'))
    <3>1. /\ delivered[n].blk = n /\ delivered[n].pos = End(n - 1) /\ End(n) <= Len(archive)
          /\ Located(n) => marks[n] = delivered[n].pos
          /\ Describes(delivered[n].dir, n, SubSeq(archive, delivered[n].pos + 1, End(n)))
      BY <1>1 DEF Delivered
    <3>2. End(n) \in Nat /\ delivered[n].pos \in Nat
      BY <1>1 DEF Descriptors
    <3>3. SubSeq(archive', delivered[n].pos + 1, End(n))
            = SubSeq(archive, delivered[n].pos + 1, End(n))
      <4>. DEFINE m == delivered[n].pos
                  e == End(n)
      <4>1. m \in Nat /\ e \in Nat /\ e <= Len(archive)
        BY <3>1, <3>2
      <4>. HIDE DEF m, e
      <4>2. archive \in Seq(Chunks)
        BY <1>1
      <4>3. SubSeq(archive \o r, m + 1, e) = SubSeq(archive, m + 1, e)
        BY <4>1, <4>2, Prefix
      <4>. QED BY <2>3, <4>3 DEF m, e
    <3>4. Len(archive) <= Len(archive')
      <4>1. Len(archive \o r) = Len(archive) + Len(r) /\ Len(r) \in Nat
        BY <1>1, ConcatProperties, LenProperties
      <4>. QED BY <1>1, <2>3, <4>1
    <3>5. End(n)' <= Len(archive')
      <4>1. Len(archive') \in Nat
        <5>1. archive \o r \in Seq(Chunks)
          BY <1>1, ConcatProperties
        <5>. QED BY <2>3, <5>1, LenProperties
      <4>. QED BY <1>1, <2>2, <3>1, <3>2, <3>4, <4>1
    <3>. QED BY <2>1, <2>2, <3>1, <3>3, <3>5
  <2>5. Len(delivered)' = Len(delivered)
    BY <2>1
  <2>. QED BY <2>4, <2>5 DEF Delivered
<1>4. CASE PutBackdoor
  <2>. PICK D : D = Len(delivered)
    OBVIOUS
  <2>1. /\ D \in Nat /\ UNCHANGED <<reader, archive>>
        /\ Len(delivered') = D + 1
        /\ \A n \in 1 .. D : delivered'[n] = delivered[n]
        /\ delivered'[D + 1].blk = D + 1 /\ delivered'[D + 1].pos = End(D)
        /\ delivered'[D + 1].dir = Head(pipe).dir
        /\ \A n \in 0 .. D : End(n)' = End(n)
        /\ End(D + 1)' = Len(archive)
        /\ Describes(Head(pipe).dir, D + 1, SubSeq(archive, End(D) + 1, Len(archive)))
    BY <1>4, Put, Zenon
  <2>2. archive' = archive /\ marks' = marks
    BY <2>1 DEF reader
  <2>3. ASSUME NEW n \in 1 .. D
        PROVE  /\ delivered'[n].blk = n /\ delivered'[n].pos = End(n - 1)'
               /\ End(n)' <= Len(archive')
               /\ Located(n) => marks'[n] = delivered'[n].pos
               /\ Describes(delivered'[n].dir, n,
                            SubSeq(archive', delivered'[n].pos + 1, End(n)'))
    <3>1. n \in 0 .. D /\ n - 1 \in 0 .. D
      BY <2>1
    <3>. QED BY <1>1, <2>1, <2>2, <3>1 DEF Delivered
  <2>4. Located(D + 1) => marks[D + 1] = End(D)
    <3>1. ASSUME Located(D + 1)
          PROVE  marks[D + 1] = End(D)
      <4>1. rpc = "collect" /\ blk = D + 1
        BY <1>4, <3>1, PutLocated
      <4>2. blk - 1 = D
        BY <2>1, <4>1
      <4>. QED BY <3>1, <4>1, <4>2 DEF IInv, Marked
    <3>. QED BY <3>1
  <2>5. /\ delivered'[D + 1].blk = D + 1 /\ delivered'[D + 1].pos = End(D)'
        /\ End(D + 1)' <= Len(archive')
        /\ Located(D + 1) => marks'[D + 1] = delivered'[D + 1].pos
        /\ Describes(delivered'[D + 1].dir, D + 1,
                     SubSeq(archive', delivered'[D + 1].pos + 1, End(D + 1)'))
    <3>1. End(D)' = End(D)
      BY <2>1
    <3>2. End(D + 1)' <= Len(archive')
      BY <1>1, <2>1, <2>2
    <3>. QED BY <2>1, <2>2, <2>4, <3>1, <3>2
  <2>6. (D + 1) - 1 = D /\ \A n \in 1 .. D + 1 : n \in 1 .. D \/ n = D + 1
    BY <2>1
  <2>7. \A n \in 1 .. D + 1 :
          /\ delivered'[n].blk = n /\ delivered'[n].pos = End(n - 1)'
          /\ End(n)' <= Len(archive')
          /\ Located(n) => marks'[n] = delivered'[n].pos
          /\ Describes(delivered'[n].dir, n,
                       SubSeq(archive', delivered'[n].pos + 1, End(n)'))
    BY <2>3, <2>5, <2>6
  <2>. QED BY <2>1, <2>7 DEF Delivered
<1>. QED BY <1>2, <1>3, <1>4 DEF Next

\* The position the reader asks for is the one it thinks.
LEMMA MarkedKept ==
  ASSUME IInv, Next
  PROVE  Marked'
<1>1. /\ Typed /\ Marked /\ Packing /\ Collecting /\ Len(delivered) \in Nat
      /\ blk \in 1 .. LastBlock + 1 /\ LastBlock \in Nat /\ SolidBefore \in Nat
      /\ LastSolid \in Nat /\ marks \in [1 .. LastBlock -> Int] /\ due \in 0 .. LastBlock
      /\ pipe \in Seq(Messages)
  <2>1. Typed
    BY DEF IInv
  <2>2. LastBlock \in Nat /\ SolidBefore \in Nat /\ LastSolid \in Nat
    BY PlanTyped
  <2>3. Len(delivered) \in Nat
    BY <2>1, DeliveredTyped
  <2>. QED BY <2>1, <2>2, <2>3, TypedFacts DEF IInv
<1>. PICK b : b = blk
  OBVIOUS
<1>2. CASE Reader
  <2>1. delivered' = delivered
    BY <1>1, <1>2, ReaderKeeps
  <2>2. Len(delivered)' = Len(delivered) /\ End(b - 1)' = End(b - 1)
    BY <2>1, EndsKept
  <2>3. CASE OpenBlock
    <3>. PICK v : v = IF ~Located(blk) THEN -1 ELSE IF Scans(blk) THEN rrPos ELSE pos
      OBVIOUS
    <3>1. /\ rpc = "open" /\ blk' = blk /\ blk \in 1 .. LastBlock
          /\ marks' = [marks EXCEPT ![blk] = v]
          /\ Scans(blk) => rrPos # -1
      BY <1>1, <2>3 DEF OpenBlock, Scanned
    <3>2. ASSUME Located(blk)
          PROVE  v = End(blk - 1)
      <4>1. v = Len(archive)
        BY <3>1, <3>2 DEF IInv, Handled
      <4>2. blk > LastSolid
        BY <3>1, <3>2, PlanTyped
      <4>. QED BY <3>1, <4>1, <4>2, Idle
    <3>3. marks'[blk] = v
      BY <1>1, <3>1
    <3>. QED BY <2>2, <3>1, <3>2, <3>3 DEF Marked, End
  <2>4. CASE ~OpenBlock
    <3>1. \/ rpc' \in {"open", "seek", "scan", "end"}
          \/ /\ rpc \notin {"open", "seek", "scan", "end"}
             /\ blk' = blk /\ marks' = marks
      <4>1. CASE ScanStep
        BY <4>1, ScanKeeps
      <4>2. CASE ~ScanStep
        BY <1>2, <2>4, <4>2 DEF Reader, SendWhole, ReadDirectory, StartFile, OpenStream,
           SkipFile, TakeBuffer, ReclaimBuffer, SendBuf, EndOfDiskFile, EndOfArchivedFile,
           FinishFile, CloseBlock, Collect, SendTheEnd, ScanStep
      <4>. QED BY <4>1, <4>2
    <3>. QED BY <1>1, <2>1, <2>2, <3>1 DEF Marked, End
  <2>. QED BY <2>3, <2>4
<1>3. CASE Packer /\ ~PutBackdoor
  <2>1. delivered' = delivered /\ marks' = marks /\ rpc' = rpc /\ blk' = blk
    BY <1>3, PackerKeeps DEF reader
  <2>. QED BY <1>1, <2>1 DEF Marked, End
<1>4. CASE PutBackdoor
  <2>. PICK D : D = Len(delivered)
    OBVIOUS
  <2>1. D \in Nat /\ D = Len(infos) /\ UNCHANGED reader /\ Len(delivered') = D + 1
    BY <1>4, Put, Zenon
  <2>2. rpc' = rpc /\ blk' = blk
    BY <2>1 DEF reader
  <2>3. ASSUME rpc \notin {"open", "seek", "scan", "end"}, Located(blk), D + 1 = blk - 1
        PROVE  FALSE
    <3>1. blk \in 1 .. LastBlock
      BY <1>1, <2>3 DEF IInv, Walking
    <3>2. blk > LastSolid
      BY <2>3, <3>1, PlanTyped
    <3>3. Behind = blk - 1
      BY <1>1, <3>2 DEF Behind
    <3>. QED BY <1>1, <2>1, <2>3, <3>3 DEF Collecting
  <2>. QED BY <2>1, <2>2, <2>3 DEF Marked
<1>. QED BY <1>2, <1>3, <1>4 DEF Next

\* Where the handle is after a step.
LEMMA HandledKept ==
  ASSUME IInv, Next
  PROVE  Handled'
<1>1. Typed /\ Handled
  BY DEF IInv
<1>2. blk \in 1 .. LastBlock + 1 /\ LastBlock \in Nat /\ Len(Archived) \in Nat
  BY <1>1, TypedFacts, PlanTyped
<1>3. CASE ScanStep
  <2>1. /\ UNCHANGED <<blk, archive>>
        /\ \/ rpc' = "seek" /\ rrPos' = pos /\ Scans(blk) /\ rpc = "open"
           \/ rpc' = "scan" /\ rrPos' = rrPos /\ rpc \in {"seek", "scan"}
           \/ rpc' = "open" /\ rrPos' = rrPos /\ rpc = "scan" /\ pos' = rrPos
    BY <1>3 DEF ScanStep, StartScan, SeekStart, ScanSector, SeekBack, packer, reader
  <2>2. Scans(blk) => blk > Len(Archived)
    BY <1>2 DEF Scans
  <2>. QED BY <1>1, <2>1, <2>2 DEF Handled, Scans
<1>4. CASE Reader /\ ~ScanStep
  <2>1. UNCHANGED <<pos, rrPos, left>> /\ archive' = archive
    BY <1>1, <1>4, HandleKept, ReaderKeeps DEF packer
  <2>2. /\ rpc \notin {"seek", "scan"} /\ rpc' \notin {"seek", "scan"}
        /\ blk' \in {blk, blk + 1} /\ (rpc' = "open" => blk' = blk + 1)
    BY <1>4 DEF Reader, OpenBlock, SendWhole, ReadDirectory, StartFile, OpenStream, SkipFile,
       TakeBuffer, ReclaimBuffer, SendBuf, EndOfDiskFile, EndOfArchivedFile, FinishFile,
       CloseBlock, Collect, SendTheEnd, ScanStep
  <2>3. pos' = Len(archive')
    BY <1>1, <2>1, <2>2 DEF Handled
  <2>4. rrPos' # -1 => blk' > Len(Archived)
    BY <1>1, <1>2, <2>1, <2>2 DEF Handled
  <2>5. rpc' = "open" /\ Scans(blk') => rrPos' = -1
    BY <1>1, <1>2, <2>1, <2>2 DEF Handled, Scans
  <2>. QED BY <2>2, <2>3, <2>4, <2>5 DEF Handled, Scans
<1>5. CASE Packer
  <2>1. UNCHANGED <<rpc, blk, rrPos>>
    BY <1>5, PackerKeeps DEF reader
  <2>2. pos = Len(archive) /\ rpc \notin {"seek", "scan"}
    BY <1>5, AtEnd
  <2>3. ~(rpc = "open" /\ Scans(blk))
    BY <1>5, Idle, ScansLate
  <2>4. pos' = Len(archive')
    <3>1. CASE MainLoop
      BY <2>2, <3>1, Begins
    <3>2. CASE CopyBlock
      BY <3>2, Copies
    <3>3. CASE WriteToArchive
      BY <3>3, Writes
    <3>4. CASE \/ CopyEnd \/ ReceiveInstruction \/ ReturnBuffer \/ FinishBlock \/ PutBackdoor
      BY <2>2, <3>4 DEF CopyEnd, ReceiveInstruction, ReturnBuffer, FinishBlock, PutBackdoor,
         handle
    <3>. QED BY <1>5, <3>1, <3>2, <3>3, <3>4 DEF Packer
  <2>. QED BY <1>1, <2>1, <2>2, <2>3, <2>4 DEF Handled, Scans
<1>. QED BY <1>3, <1>4, <1>5 DEF Next, Reader, ScanStep

\* A view of the reader is one.
LEMMA ViewTyped ==
  ASSUME NEW m \in {"loop", "copying", "copied", "packing", "directory", "done"},
         NEW b \in Nat, NEW d \in Seq(Chunks), NEW s \in Nat
  PROVE  /\ View(m, b, d, s) \in Views
         /\ View(m, b, d, s).mode = m /\ View(m, b, d, s).blk = b
         /\ View(m, b, d, s).data = d /\ View(m, b, d, s).sent = s
BY DEF View, Views

\* What the reader has sent leads to where a step takes it.
LEMMA ReaderTalks ==
  ASSUME IInv, Reader
  PROVE  Conversation'
<1>1. PICK got \in Nat, sent \in Nat, data \in Seq(Chunks) :
        /\ sent - got = Travelling /\ Sending(data)
        /\ Leads(pipe, PackerView(got), ReaderView(data, sent))
  BY Expected
<1>2. /\ Typed /\ Walking
      /\ rpc \in {"open", "seek", "scan", "copy", "fake", "file", "read", "fill", "close",
                 "collect", "end"}
      /\ blk \in 1 .. LastBlock + 1 /\ file \in Nat /\ chunks \in 0 .. MaxChunks
      /\ dir \in Seq(Entries) /\ pipe \in Seq(Messages) /\ LastBlock \in Nat
      /\ free \in Nat /\ returned \in Nat /\ Len(inHand) \in Nat /\ CacheBuffers \in Nat
      /\ MaxChunks \in Nat /\ MaxChunks >= 1
      /\ \A b \in 1 .. LastBlock : Plan[b] \in Blocks
  <2>1. Typed /\ Walking
    BY DEF IInv
  <2>2. inHand \in Seq(Chunks)
    BY <2>1, TypedFacts
  <2>3. Len(inHand) \in Nat
    BY <2>2, LenProperties
  <2>4. CacheBuffers \in Nat /\ MaxChunks \in Nat /\ MaxChunks >= 1
    BY ParametersAssumption
  <2>. QED BY <2>1, <2>3, <2>4, PlanTyped, TypedFacts
<1>. DEFINE from == PackerView(got)
            to == ReaderView(data, sent)
            at == IF rpc = "collect" THEN blk + 1 ELSE blk
<1>3. /\ UNCHANGED packer /\ inHand' = inHand /\ PackerView(got)' = from
  <2>1. UNCHANGED packer /\ delivered' = delivered
    BY <1>2, ReaderKeeps
  <2>. QED BY <2>1 DEF packer, PackerView, PackerMode, PackerData
<1>4. SUFFICES \E s \in Nat, d \in Seq(Chunks) :
        s - got = Travelling' /\ Sending(d)' /\ Leads(pipe', from, ReaderView(d, s)')
  <2>1. PICK s \in Nat, d \in Seq(Chunks) :
          s - got = Travelling' /\ Sending(d)' /\ Leads(pipe', from, ReaderView(d, s)')
    BY <1>4
  <2>. QED BY <1>3, <2>1, Zenon DEF Conversation
<1>5. /\ to = View(ReaderMode, at, data, sent)
      /\ ReaderMode \in {"loop", "copying", "copied", "packing", "done"}
      /\ at \in Nat
  BY <1>2 DEF ReaderView, ReaderMode
<1>. HIDE DEF from, to
<1>6. DOMAIN <<>> = {} /\ <<>> \in Seq(Chunks) /\ Lists(<<>>, blk, <<>>)
  BY EmptySeq, ListsNothing
<1>7. CASE TakeBuffer \/ ReclaimBuffer
  <2>1. /\ UNCHANGED <<blk, dir, chunks, pipe, file>> /\ ReaderMode' = ReaderMode
        /\ rpc = "read" /\ rpc' \in {"read", "fill"}
    BY <1>7 DEF TakeBuffer, ReclaimBuffer, ReaderMode
  <2>2. Travelling' = Travelling
    <3>1. CASE TakeBuffer
      <4>1. rpc = "read" /\ rpc' = "fill" /\ free' = free - 1 /\ returned' = returned
        BY <3>1 DEF TakeBuffer
      <4>. QED BY <1>2, <1>3, <4>1 DEF Travelling
    <3>2. CASE ReclaimBuffer
      <4>1. /\ rpc = "read" /\ rpc' = rpc /\ free = 0 /\ free' = 1
            /\ returned' = returned - 1
        BY <3>2 DEF ReclaimBuffer
      <4>. QED BY <1>2, <1>3, <4>1 DEF Travelling
    <3>. QED BY <1>7, <3>1, <3>2
  <2>3. Sending(data)'
    BY <1>1, <2>1 DEF Sending
  <2>4. ReaderView(data, sent)' = to
    BY <1>5, <2>1 DEF ReaderView
  <2>. QED BY <1>1, <2>1, <2>2, <2>3, <2>4 DEF from, to
<1>8. CASE EndOfDiskFile \/ EndOfArchivedFile
  <2>1. /\ blk' = blk /\ ReaderMode' = ReaderMode /\ rpc' = "file"
        /\ rpc \in {"read", "fill"}
        /\ dir' = Append(dir, [file |-> file + 1, chunks |-> chunks])
        /\ pipe' = pipe \/ Send(Instruction("CorrectTotals"))
    BY <1>8 DEF EndOfDiskFile, EndOfArchivedFile, FinishFile, ReaderMode
  <2>2. Travelling' = Travelling
    <3>1. /\ returned' = returned /\ rpc' = "file"
          /\ \/ rpc = "fill" /\ free' = free + 1
             \/ rpc = "read" /\ free' = free
      BY <1>8 DEF EndOfDiskFile, EndOfArchivedFile, FinishFile
    <3>2. CASE rpc = "fill"
      BY <1>2, <1>3, <3>1, <3>2 DEF Travelling
    <3>3. CASE rpc = "read"
      BY <1>2, <1>3, <3>1, <3>3 DEF Travelling
    <3>. QED BY <2>1, <3>2, <3>3
  <2>3. Sending(data)'
    BY <1>1, <2>1 DEF Sending
  <2>4. ReaderView(data, sent)' = to
    BY <1>5, <2>1 DEF ReaderView
  <2>5. Leads(pipe', from, to)
    <3>1. CASE pipe' = pipe
      BY <1>1, <3>1 DEF from, to
    <3>2. CASE Send(Instruction("CorrectTotals"))
      <4>. DEFINE m == Instruction("CorrectTotals")
      <4>1. m \in Messages /\ m.op = "CorrectTotals" /\ pipe' = Append(pipe, m)
        BY <3>2, Instructions DEF Send
      <4>2. Leads(pipe, from, to)
        BY <1>1 DEF from, to
      <4>3. to \in Views
        BY <1>2, <4>2, LeadsOnward
      <4>4. ReaderMode = "packing"
        BY <2>1 DEF ReaderMode
      <4>5. Executes(to, m, to)
        BY <1>5, <4>1, <4>4 DEF Executes, View
      <4>. HIDE DEF m
      <4>. QED BY <1>2, <4>1, <4>2, <4>3, <4>5, LeadsSent
    <3>. QED BY <2>1, <3>1, <3>2
  <2>. QED BY <1>1, <2>2, <2>3, <2>4, <2>5
<1>9. CASE Collect
  <2>1. /\ UNCHANGED <<pipe, free, returned>> /\ rpc = "collect" /\ rpc' \in {"open", "collect"}
        /\ blk' = IF rpc' = "open" THEN blk + 1 ELSE blk
    BY <1>9 DEF Collect
  <2>2. Travelling' = Travelling
    BY <1>3, <2>1 DEF Travelling
  <2>3. data = <<>>
    BY <1>1, <2>1 DEF Sending
  <2>4. Sending(data)'
    BY <1>6, <2>1, <2>3 DEF Sending
  <2>5. ReaderView(data, sent)' = to
    BY <1>2, <1>5, <2>1 DEF ReaderView, ReaderMode
  <2>. QED BY <1>1, <2>1, <2>2, <2>4, <2>5 DEF from, to
<1>10. CASE ScanStep
  <2>1. /\ UNCHANGED <<blk, dir, pipe, free, returned>>
        /\ rpc \in {"open", "seek", "scan"} /\ rpc' \in {"open", "seek", "scan"}
    BY <1>10, ScanKeeps
  <2>2. Travelling' = Travelling
    BY <1>3, <2>1 DEF Travelling
  <2>3. data = <<>>
    BY <1>1, <2>1 DEF Sending
  <2>4. Sending(data)'
    BY <1>6, <2>1, <2>3 DEF Sending
  <2>5. ReaderView(data, sent)' = to
    BY <1>5, <2>1 DEF ReaderView, ReaderMode
  <2>. QED BY <1>1, <2>1, <2>2, <2>4, <2>5 DEF from, to
<1>11. CASE OpenStream
  <2>1. /\ UNCHANGED <<blk, dir, file, pipe, free, returned>> /\ chunks' = 0
        /\ rpc = "file" /\ rpc' = "read"
    BY <1>11 DEF OpenStream
  <2>2. Travelling' = Travelling
    BY <1>3, <2>1 DEF Travelling
  <2>3. Lists(Append(dir, [file |-> file + 1, chunks |-> 0]), blk, data)
        /\ \A i \in DOMAIN data : data[i].blk = blk
    <3>1. Lists(dir, blk, data) /\ \A i \in DOMAIN data : data[i].blk = blk
      BY <1>1, <2>1 DEF Sending
    <3>2. file + 1 \in Nat
      BY <1>2
    <3>. QED BY <1>2, <3>1, <3>2, ListsEmptyFile
  <2>4. Sending(data)'
    BY <2>1, <2>3 DEF Sending
  <2>5. ReaderView(data, sent)' = to
    BY <1>5, <2>1 DEF ReaderView, ReaderMode
  <2>. QED BY <1>1, <2>1, <2>2, <2>4, <2>5 DEF from, to
<1>12. SUFFICES ASSUME OpenBlock \/ SendWhole \/ ReadDirectory \/ StartFile \/ SkipFile
                         \/ SendBuf \/ CloseBlock \/ SendTheEnd,
                       rpc # "collect"
                PROVE  \E s \in Nat, d \in Seq(Chunks) :
        s - got = Travelling' /\ Sending(d)' /\ Leads(pipe', from, ReaderView(d, s)')
  BY <1>7, <1>8, <1>9, <1>10, <1>11 DEF Reader, OpenBlock, SendWhole, ReadDirectory, StartFile,
     SkipFile, SendBuf, CloseBlock, SendTheEnd, ScanStep
<1>13. to = View(ReaderMode, blk, data, sent) /\ Leads(pipe, from, to)
  BY <1>1, <1>5, <1>12 DEF from, to
<1>14. to \in Views
  BY <1>2, <1>13, LeadsOnward
<1>. HIDE DEF at
\* One instruction is sent.
<1>15. ASSUME NEW m \in Messages, Send(m), NEW s \in Nat, NEW d \in Seq(Chunks),
              NEW o \in {"loop", "copying", "copied", "packing", "done"},
              ReaderMode' = o, blk' = blk, rpc' # "collect",
              s - got = Travelling', Sending(d)', Executes(to, m, View(o, blk, d, s)),
              m.op # "DebugLog"
       PROVE  \E ss \in Nat, dd \in Seq(Chunks) :
        ss - got = Travelling' /\ Sending(dd)' /\ Leads(pipe', from, ReaderView(dd, ss)')
  <2>1. ReaderView(d, s)' = View(o, blk, d, s)
    BY <1>15 DEF ReaderView
  <2>2. View(o, blk, d, s) \in Views
    <3>1. blk \in Nat
      BY <1>2
    <3>. QED BY <1>15, <3>1, ViewTyped
  <2>. DEFINE w == View(o, blk, d, s)
  <2>. HIDE DEF w
  <2>3. Executes(to, m, w) /\ w \in Views
    BY <1>15, <2>2 DEF w
  <2>4. pipe' = Append(pipe, m)
    BY <1>15 DEF Send
  <2>5. Leads(pipe', from, w)
    BY <1>2, <1>13, <1>15, <2>3, <2>4, LeadsSent
  <2>6. Leads(pipe', from, ReaderView(d, s)')
    BY <2>1, <2>5 DEF w
  <2>. QED BY <1>15, <2>6
\* Another one, that does not concern the packer, is sent before.
<1>16. ASSUME NEW a \in Messages, NEW m \in Messages, SendBoth(a, m),
              NEW s \in Nat, NEW d \in Seq(Chunks),
              NEW o \in {"loop", "copying", "copied", "packing", "done"},
              ReaderMode' = o, blk' = blk, rpc' # "collect",
              s - got = Travelling', Sending(d)', Executes(to, a, to),
              Executes(to, m, View(o, blk, d, s)), m.op # "DebugLog"
       PROVE  \E ss \in Nat, dd \in Seq(Chunks) :
        ss - got = Travelling' /\ Sending(dd)' /\ Leads(pipe', from, ReaderView(dd, ss)')
  <2>1. ReaderView(d, s)' = View(o, blk, d, s)
    BY <1>16 DEF ReaderView
  <2>2. View(o, blk, d, s) \in Views
    <3>1. blk \in Nat
      BY <1>2
    <3>. QED BY <1>16, <3>1, ViewTyped
  <2>. DEFINE w == View(o, blk, d, s)
  <2>. HIDE DEF w
  <2>3. Executes(to, a, to) /\ Executes(to, m, w) /\ w \in Views
    BY <1>16, <2>2 DEF w
  <2>4. pipe' = pipe \o <<a, m>>
    BY <1>16 DEF SendBoth
  <2>5. Leads(pipe', from, w)
    BY <1>2, <1>13, <1>14, <1>16, <2>3, <2>4, LeadsBoth
  <2>6. Leads(pipe', from, ReaderView(d, s)')
    BY <2>1, <2>5 DEF w
  <2>. QED BY <1>16, <2>6
<1>17. CASE OpenBlock
  <2>. DEFINE l == Instruction("DebugLog")
              m == [op |-> "CompressData", blk |-> blk, copy |-> Plan[blk].how = "copy"]
              o == IF Plan[blk].how = "copy" THEN "copying" ELSE "packing"
  <2>1. /\ rpc = "open" /\ (SendBoth(l, m) \/ Send(m)) /\ blk \in 1 .. LastBlock
        /\ UNCHANGED <<blk, dir, free, returned>>
        /\ rpc' = IF Plan[blk].how = "copy" THEN "copy"
                  ELSE IF Plan[blk].how = "fake" THEN "fake" ELSE "file"
    <3>1. /\ rpc = "open" /\ (SendBoth(l, m) \/ Send(m)) /\ blk <= LastBlock
          /\ UNCHANGED <<blk, dir, free, returned>>
      BY <1>17, Zenon DEF OpenBlock
    <3>2. rpc' = IF Plan[blk].how = "copy" THEN "copy"
                 ELSE IF Plan[blk].how = "fake" THEN "fake" ELSE "file"
      BY <1>17 DEF OpenBlock
    <3>3. blk \in 1 .. LastBlock
      BY <1>2, <3>1
    <3>. QED BY <3>1, <3>2, <3>3
  <2>2. l \in Messages /\ m \in Messages /\ l.op = "DebugLog" /\ m.op # "DebugLog"
    BY <2>1, Instructions
  <2>3. data = <<>> /\ dir = <<>>
    BY <1>1, <1>2, <2>1 DEF Sending, Walking
  <2>4. Sending(<<>>)'
    BY <1>6, <2>1, <2>3 DEF Sending
  <2>5. Travelling' = Travelling
    BY <1>3, <2>1 DEF Travelling
  <2>6. /\ ReaderMode' = o /\ ReaderMode = "loop"
        /\ o \in {"loop", "copying", "copied", "packing", "done"}
    BY <2>1 DEF ReaderMode
  <2>7. Executes(to, m, View(o, blk, <<>>, sent))
    BY <1>13, <2>3, <2>6 DEF Executes, View
  <2>8. Executes(to, l, to)
    BY <1>13, <2>2, <2>6 DEF Executes, View
  <2>. HIDE DEF l, m, o
  <2>9. rpc' # "collect" /\ blk' = blk
    BY <2>1
  <2>10. CASE Send(m)
    BY <1>1, <1>6, <1>15, <2>2, <2>4, <2>5, <2>6, <2>7, <2>9, <2>10
  <2>11. CASE SendBoth(l, m)
    BY <1>1, <1>6, <1>16, <2>2, <2>4, <2>5, <2>6, <2>7, <2>8, <2>9, <2>11
  <2>. QED BY <2>1, <2>10, <2>11
<1>18. CASE SendWhole
  <2>1. /\ rpc \in {"copy", "fake"} /\ rpc' = "close" /\ UNCHANGED <<blk, free, returned>>
        /\ Send(Instruction(IF rpc = "copy" THEN "CopySolidBlock" ELSE "FakeFiles"))
        /\ dir' = IF rpc = "copy" THEN WholeDir ELSE FakeDir
    BY <1>18 DEF SendWhole
  <2>2. blk \in 1 .. LastBlock /\ Plan[blk].files \in Nat
    <3>1. blk \in 1 .. LastBlock
      BY <1>2, <2>1 DEF Walking
    <3>. QED BY <1>2, <3>1 DEF Blocks
  <2>3. Travelling' = Travelling
    BY <1>3, <2>1 DEF Travelling
  <2>4. /\ data = <<>>
        /\ rpc = "copy" => Plan[blk].how = "copy"
        /\ rpc = "fake" => Plan[blk].how = "fake"
    BY <1>1, <1>2, <2>1 DEF Sending, Walking
  <2>5. Lists(WholeDir, blk, Whole(blk)) /\ Lists(FakeDir, blk, <<>>)
    BY <2>2, ListsWhole
  <2>6. Whole(blk) \in Seq(Chunks) /\ \A i \in DOMAIN Whole(blk) : Whole(blk)[i].blk = blk
    BY <2>2, WholeTyped
  <2>7. CASE rpc = "copy"
    <3>. PICK d \in Seq(Chunks) : d = Whole(blk)
      BY <2>6
    <3>. DEFINE m == Instruction("CopySolidBlock")
    <3>1. ReaderMode = "copying" /\ ReaderMode' = "copied"
      BY <2>1, <2>4, <2>7 DEF ReaderMode
    <3>2. m \in Messages /\ m.op = "CopySolidBlock" /\ Send(m)
      BY <2>1, <2>7, Instructions
    <3>3. Executes(to, m, View("copied", blk, d, sent))
      BY <1>13, <2>4, <3>1, <3>2 DEF Executes, View
    <3>4. Sending(d)'
      BY <2>1, <2>5, <2>6, <2>7 DEF Sending
    <3>. HIDE DEF m
    <3>. QED BY <1>1, <1>15, <2>1, <2>3, <3>1, <3>2, <3>3, <3>4
  <2>8. CASE rpc = "fake"
    <3>. DEFINE m == Instruction("FakeFiles")
    <3>1. ReaderMode = "packing" /\ ReaderMode' = "packing"
      BY <2>1, <2>4, <2>8 DEF ReaderMode
    <3>2. m \in Messages /\ m.op = "FakeFiles" /\ Send(m)
      BY <2>1, <2>8, Instructions
    <3>3. Executes(to, m, View("packing", blk, <<>>, sent))
      BY <1>13, <2>4, <3>1, <3>2 DEF Executes, View
    <3>4. Sending(<<>>)'
      BY <1>6, <2>1, <2>5, <2>8 DEF Sending
    <3>. HIDE DEF m
    <3>. QED BY <1>1, <1>6, <1>15, <2>1, <2>3, <3>1, <3>2, <3>3, <3>4
  <2>. QED BY <2>1, <2>7, <2>8
<1>19. CASE ReadDirectory \/ StartFile
  <2>. DEFINE c == Instruction("CorrectTotals")
              m == Instruction("FileStart")
              e == Append(dir, [file |-> file + 1, chunks |-> 0])
  <2>1. /\ rpc = "file" /\ rpc' \in {"file", "read"} /\ (SendBoth(c, m) \/ Send(m))
        /\ UNCHANGED <<blk, free, returned>>
        /\ rpc' = "file" => dir' = e
        /\ rpc' = "read" => dir' = dir /\ file' = file /\ chunks' = 0
    BY <1>19 DEF ReadDirectory, StartFile
  <2>2. m \in Messages /\ m.op = "FileStart" /\ c \in Messages /\ c.op = "CorrectTotals"
    BY Instructions
  <2>3. Travelling' = Travelling
    BY <1>3, <2>1 DEF Travelling
  <2>4. ReaderMode = "packing" /\ ReaderMode' = "packing"
    BY <2>1 DEF ReaderMode
  <2>5. Lists(e, blk, data) /\ \A i \in DOMAIN data : data[i].blk = blk
    <3>1. Lists(dir, blk, data) /\ \A i \in DOMAIN data : data[i].blk = blk
      BY <1>1, <2>1 DEF Sending
    <3>2. file + 1 \in Nat
      BY <1>2
    <3>. QED BY <1>2, <3>1, <3>2, ListsEmptyFile
  <2>6. Sending(data)'
    BY <2>1, <2>5 DEF Sending
  <2>7. Executes(to, m, View("packing", blk, data, sent))
    BY <1>13, <2>2, <2>4 DEF Executes, View
  <2>8. Executes(to, c, to)
    BY <1>13, <2>2, <2>4 DEF Executes, View
  <2>9. rpc' # "collect" /\ blk' = blk
    BY <2>1
  <2>. HIDE DEF c, m, e
  <2>10. CASE Send(m)
    BY <1>1, <1>15, <2>2, <2>3, <2>4, <2>6, <2>7, <2>9, <2>10
  <2>11. CASE SendBoth(c, m)
    BY <1>1, <1>16, <2>2, <2>3, <2>4, <2>6, <2>7, <2>8, <2>9, <2>11
  <2>. QED BY <2>1, <2>10, <2>11
<1>20. CASE SkipFile
  <2>. DEFINE m == Instruction("CorrectTotals")
  <2>1. /\ rpc = "file" /\ rpc' = "file" /\ Send(m) /\ UNCHANGED <<blk, dir, free, returned>>
    BY <1>20 DEF SkipFile
  <2>2. m \in Messages /\ m.op = "CorrectTotals"
    BY Instructions
  <2>3. Travelling' = Travelling
    BY <1>3, <2>1 DEF Travelling
  <2>4. ReaderMode = "packing" /\ ReaderMode' = "packing"
    BY <2>1 DEF ReaderMode
  <2>5. Sending(data)'
    BY <1>1, <2>1 DEF Sending
  <2>6. Executes(to, m, View("packing", blk, data, sent))
    BY <1>13, <2>2, <2>4 DEF Executes, View
  <2>. HIDE DEF m
  <2>. QED BY <1>1, <1>15, <2>1, <2>2, <2>3, <2>4, <2>5, <2>6
<1>21. CASE SendBuf
  <2>. DEFINE m == [op |-> "DataChunk", chunk |-> Chunk]
  <2>1. /\ rpc = "fill" /\ rpc' = "read" /\ Send(m) /\ chunks' = chunks + 1
        /\ chunks < Longest(blk) /\ UNCHANGED <<blk, file, dir, free, returned>>
    BY <1>21 DEF SendBuf
  <2>2. /\ Chunk \in Chunks /\ Chunk = [blk |-> blk, file |-> file + 1]
        /\ chunks < MaxChunks /\ chunks \in Nat /\ file + 1 \in Nat
    <3>1. blk \in 1 .. LastBlock
      <4>1. blk <= LastBlock
        BY <1>2, <2>1 DEF Walking
      <4>. QED BY <1>2, <4>1
    <3>2. Chunk \in Chunks /\ Chunk = [blk |-> blk, file |-> file + 1]
      BY <1>2, <3>1 DEF Chunk, Chunks
    <3>3. Longest(blk) \in {1, MaxChunks}
      BY DEF Longest
    <3>. QED BY <1>2, <2>1, <3>2, <3>3
  <2>. PICK d \in Seq(Chunks) : d = Append(data, Chunk)
    BY <2>2, AppendProperties
  <2>3. m \in Messages /\ m.op = "DataChunk" /\ m.chunk = Chunk /\ m.chunk.blk = blk
    BY <2>2, Instructions
  <2>. PICK s \in Nat : s = sent + 1
    OBVIOUS
  <2>4. s - got = Travelling'
    <3>1. Travelling' = Travelling + 1
      BY <1>2, <1>3, <2>1 DEF Travelling
    <3>. QED BY <1>1, <3>1
  <2>5. ReaderMode = "packing" /\ ReaderMode' = "packing"
    BY <2>1 DEF ReaderMode
  <2>6. Lists(Append(dir, [file |-> file + 1, chunks |-> chunks + 1]), blk, d)
    <3>1. Lists(Append(dir, [file |-> file + 1, chunks |-> chunks]), blk, data)
      BY <1>1, <2>1 DEF Sending
    <3>. QED BY <1>2, <2>2, <3>1, ListsChunk
  <2>7. d \in Seq(Chunks) /\ \A i \in DOMAIN d : d[i].blk = blk
    <3>1. /\ d \in Seq(Chunks) /\ Len(d) = Len(data) + 1
          /\ \A i \in 1 .. Len(data) : d[i] = data[i]
          /\ d[Len(data) + 1] = Chunk
      BY <2>2, AppendProperties
    <3>2. /\ Len(data) \in Nat /\ DOMAIN data = 1 .. Len(data)
          /\ \A i \in DOMAIN data : data[i].blk = blk
      BY <1>1, Emptied DEF Sending
    <3>3. DOMAIN d = 1 .. Len(data) + 1
      BY <3>1, Emptied
    <3>4. Chunk.blk = blk
      BY <2>2
    <3>5. \A i \in 1 .. Len(data) + 1 : i \in 1 .. Len(data) \/ i = Len(data) + 1
      BY <3>2
    <3>. QED BY <3>1, <3>2, <3>3, <3>4, <3>5
  <2>8. Sending(d)'
    BY <2>1, <2>6, <2>7 DEF Sending
  <2>9. Executes(to, m, View("packing", blk, d, s))
    BY <1>13, <2>3, <2>5 DEF Executes, View
  <2>10. rpc' # "collect" /\ blk' = blk
    BY <2>1
  <2>. HIDE DEF m
  <2>. QED BY <1>15, <2>1, <2>3, <2>4, <2>5, <2>7, <2>8, <2>9, <2>10
<1>22. CASE SendTheEnd
  <2>. DEFINE m == Instruction("TheEnd")
  <2>1. /\ rpc = "open" /\ rpc' = "end" /\ blk = LastBlock + 1 /\ Send(m)
        /\ UNCHANGED <<blk, free, returned>>
    BY <1>22 DEF SendTheEnd
  <2>2. m \in Messages /\ m.op = "TheEnd"
    BY Instructions
  <2>3. Travelling' = Travelling
    BY <1>3, <2>1 DEF Travelling
  <2>4. ReaderMode = "loop" /\ ReaderMode' = "done" /\ data = <<>>
    BY <1>1, <2>1 DEF ReaderMode, Sending
  <2>5. Sending(<<>>)'
    BY <1>6, <2>1 DEF Sending
  <2>6. Executes(to, m, View("done", blk, <<>>, sent))
    BY <1>13, <2>1, <2>2, <2>4 DEF Executes, View
  <2>. HIDE DEF m
  <2>. QED BY <1>1, <1>6, <1>15, <2>1, <2>2, <2>3, <2>4, <2>5, <2>6
<1>23. CASE CloseBlock
  <2>. DEFINE l == IF Plan[blk].type = "DATA" THEN dir ELSE <<>>
              a == Instruction("DataEnd")
              b == [op |-> "Directory", dir |-> l]
              v == View("directory", blk, data, sent)
              w == View("loop", blk + 1, <<>>, sent)
  <2>1. /\ rpc \in {"close", "file"} /\ SendBoth(a, b) /\ UNCHANGED <<free, returned>>
        /\ \/ rpc' = "open" /\ blk' = blk + 1
           \/ rpc' = "collect" /\ blk' = blk
    BY <1>23 DEF CloseBlock
  <2>2. ReaderMode \in {"copied", "packing"}
    BY <1>2, <2>1 DEF ReaderMode, Walking
  <2>3. Lists(dir, blk, data) /\ \A i \in DOMAIN data : data[i].blk = blk
    BY <1>1, <2>1 DEF Sending
  <2>4. Describes(l, blk, data)
    BY <2>3 DEF Describes
  <2>5. l \in Seq(Entries)
    BY <1>2, EmptySeq
  <2>. HIDE DEF l
  <2>6. a \in Messages /\ a.op = "DataEnd" /\ b \in Messages /\ b.op = "Directory" /\ b.dir = l
    BY <2>5, Instructions
  <2>. HIDE DEF a, b
  <2>7. Executes(to, a, v) /\ Executes(v, b, w)
    BY <1>13, <2>2, <2>4, <2>6 DEF Executes, View
  <2>8. v \in Views /\ w \in Views
    <3>1. blk \in Nat /\ blk + 1 \in Nat
      BY <1>2
    <3>. QED BY <1>6, <3>1, ViewTyped
  <2>9. ReaderView(<<>>, sent)' = w
    BY <2>1 DEF ReaderView, ReaderMode
  <2>. HIDE DEF v, w
  <2>10. Leads(pipe', from, w)
    <3>1. pipe' = pipe \o <<a, b>>
      BY <2>1 DEF SendBoth
    <3>. QED BY <1>2, <1>13, <2>6, <2>7, <2>8, <3>1, LeadsBoth
  <2>11. Leads(pipe', from, ReaderView(<<>>, sent)')
    BY <2>9, <2>10
  <2>12. Travelling' = Travelling
    BY <1>3, <2>1 DEF Travelling
  <2>13. Sending(<<>>)'
    BY <1>6, <2>1 DEF Sending
  <2>. QED BY <1>1, <1>6, <2>11, <2>12, <2>13
<1>. QED BY <1>12, <1>17, <1>18, <1>19, <1>21, <1>22, <1>23, <1>20

\* Where the packer is after a step leads to where the reader is.
LEMMA PackerTalks ==
  ASSUME IInv, Packer
  PROVE  Conversation'
<1>1. PICK got \in Nat, sent \in Nat, data \in Seq(Chunks) :
        /\ sent - got = Travelling /\ Sending(data)
        /\ Leads(pipe, PackerView(got), ReaderView(data, sent))
  BY Expected
<1>. DEFINE D == Len(delivered)
            packed == SubSeq(archive, begun.pos + 1, Len(archive))
            to == ReaderView(data, sent)
<1>2. /\ Typed /\ Packing /\ pipe \in Seq(Messages)
      /\ archive \in Seq(Chunks) /\ store \in Seq(Chunks) /\ inHand \in Seq(Chunks)
      /\ packed \in Seq(Chunks)
      /\ Len(archive) \in Nat /\ Len(inHand) \in Nat /\ Len(inHand) <= 1 /\ D \in Nat
      /\ free \in Nat /\ returned \in Nat /\ CacheBuffers \in Nat
      /\ begun.pos \in Nat /\ begun.blk \in Nat /\ End(D) \in Nat
      /\ \A q \in Seq(Chunks) : q \o <<>> = q /\ <<>> \o q = q
      /\ <<>> \in Seq(Chunks) /\ Len(<<>>) = 0
  <2>1. Typed /\ Packing
    BY DEF IInv
  <2>2. /\ pipe \in Seq(Messages) /\ archive \in Seq(Chunks) /\ store \in Seq(Chunks)
        /\ inHand \in Seq(Chunks) /\ Len(inHand) <= 1
        /\ begun.pos \in Nat /\ begun.blk \in Nat
        /\ free \in 0 .. CacheBuffers /\ returned \in 0 .. CacheBuffers
    BY <2>1, TypedFacts
  <2>3. Len(archive) \in Nat /\ Len(inHand) \in Nat
    BY <2>2, LenProperties
  <2>4. CacheBuffers \in Nat
    BY ParametersAssumption
  <2>5. D \in Nat /\ End(D) \in Nat
    BY <2>1, DeliveredTyped
  <2>6. packed \in Seq(Chunks)
    <3>1. \A i \in begun.pos + 1 .. Len(archive) : archive[i] \in Chunks
      BY <2>2, Emptied
    <3>. QED BY <2>2, <2>3, <3>1, SubSeqProperties
  <2>. HIDE DEF D, packed
  <2>7. \A q \in Seq(Chunks) : q \o <<>> = q /\ <<>> \o q = q
    BY ConcatEmptySeq
  <2>. QED BY <2>1, <2>2, <2>3, <2>4, <2>5, <2>6, <2>7, EmptySeq
<1>3. /\ UNCHANGED reader /\ free' = free /\ rpc' = rpc
      /\ ReaderView(data, sent)' = to /\ Sending(data)'
  <2>1. UNCHANGED reader
    BY PackerKeeps
  <2>. QED BY <1>1, <2>1 DEF reader, ReaderView, ReaderMode, Sending
<1>4. SUFFICES \E g \in Nat : sent - g = Travelling' /\ Leads(pipe', PackerView(g)', to)
  <2>1. PICK g \in Nat : sent - g = Travelling' /\ Leads(pipe', PackerView(g)', to)
    BY <1>4
  <2>. QED BY <1>3, <2>1, Zenon DEF Conversation
<1>5. /\ cpc \notin {"loop", "done"} => /\ begun.blk = D + 1 /\ begun.pos = End(D)
                                        /\ begun.pos <= Len(archive)
      /\ inHand # <<>> => cpc = "packing"
      /\ store # <<>> => cpc \in {"packing", "flushing"}
  BY <1>2 DEF Packing
<1>6. Leads(pipe, PackerView(got), to)
  BY <1>1
<1>. HIDE DEF to
<1>7. PackerData = IF cpc \in {"loop", "done"} THEN <<>> ELSE packed \o (store \o inHand)
  BY DEF PackerData
<1>. HIDE DEF packed
<1>8. ASSUME pipe' = pipe, delivered' = delivered, PackerMode' = PackerMode,
             PackerData' = PackerData, Travelling' = Travelling
      PROVE  \E g \in Nat : sent - g = Travelling' /\ Leads(pipe', PackerView(g)', to)
  <2>1. PackerView(got)' = PackerView(got)
    BY <1>8 DEF PackerView
  <2>. QED BY <1>1, <1>6, <1>8, <2>1
<1>9. CASE ReturnBuffer
  <2>1. /\ inHand # <<>> /\ store' = store \o inHand /\ inHand' = <<>>
        /\ returned' = returned + 1
        /\ UNCHANGED <<pipe, cpc, begun, archive>>
    BY <1>9 DEF ReturnBuffer
  <2>2. delivered' = delivered /\ PackerMode' = PackerMode
    BY <1>9, <2>1, PackerKeeps DEF PackerMode, ReturnBuffer, PutBackdoor
  <2>3. Travelling' = Travelling
    <3>1. Len(inHand) = 1
      <4>1. inHand \in Seq(Chunks)
        BY <1>2
      <4>2. Len(inHand) # 0
        BY <2>1, <4>1, Emptied
      <4>3. Len(inHand) \in Nat /\ Len(inHand) <= 1
        BY <1>2
      <4>4. \A n \in Nat : n <= 1 /\ n # 0 => n = 1
        OBVIOUS
      <4>. QED BY <4>2, <4>3, <4>4, Zenon
    <3>2. Len(inHand') = 0
      BY <1>2, <2>1
    <3>. QED BY <1>2, <1>3, <2>1, <3>1, <3>2 DEF Travelling
  <2>4. store \o inHand \in Seq(Chunks)
    BY <1>2, ConcatProperties
  <2>5. (store \o inHand) \o <<>> = store \o inHand
    BY <1>2, <2>4
  <2>6. PackerData' = PackerData
    BY <2>1, <2>5 DEF PackerData
  <2>. QED BY <1>8, <2>1, <2>2, <2>3, <2>6
<1>10. CASE WriteToArchive
  <2>1. /\ store # <<>> /\ archive' = Append(archive, Head(store)) /\ store' = Tail(store)
        /\ UNCHANGED <<pipe, returned, cpc, begun, inHand>>
    BY <1>10, Writes
  <2>2. delivered' = delivered /\ PackerMode' = PackerMode
    BY <1>10, <2>1, PackerKeeps DEF PackerMode, WriteToArchive, PutBackdoor
  <2>3. Travelling' = Travelling
    BY <1>3, <2>1 DEF Travelling
  <2>4. PICK h, T : h = Head(store) /\ T = Tail(store)
    OBVIOUS
  <2>5. /\ h \in Chunks /\ T \in Seq(Chunks)
        /\ packed \o (store \o inHand) = Append(packed, h) \o (T \o inHand)
    <3>1. /\ store \in Seq(Chunks) /\ inHand \in Seq(Chunks) /\ packed \in Seq(Chunks)
          /\ store # <<>>
      BY <1>2, <2>1
    <3>2. h \in Chunks /\ T \in Seq(Chunks)
      BY <2>4, <3>1, HeadTailProperties
    <3>3. Same(packed \o (store \o inHand),
               Append(packed, Head(store)) \o (Tail(store) \o inHand))
      BY <3>1, Moved
    <3>. QED BY <2>4, <3>2, <3>3, Zenon DEF Same
  <2>6. begun.pos \in 0 .. Len(archive)
    <3>1. begun.pos \in Nat /\ Len(archive) \in Nat
      BY <1>2
    <3>2. begun.pos <= Len(archive)
      BY <1>5, <2>1
    <3>. QED BY <3>1, <3>2
  <2>7. SubSeq(Append(archive, h), begun.pos + 1, Len(Append(archive, h))) = Append(packed, h)
    <3>. DEFINE p == begun.pos
    <3>1. p \in 0 .. Len(archive)
      BY <2>6
    <3>. HIDE DEF p
    <3>2. archive \in Seq(Chunks)
      BY <1>2
    <3>3. /\ Len(Append(archive, h)) = Len(archive) + 1
          /\ SubSeq(Append(archive, h), p + 1, Len(archive) + 1)
               = Append(SubSeq(archive, p + 1, Len(archive)), h)
      BY <2>5, <3>1, <3>2, OneMoreBehind
    <3>. QED BY <3>3 DEF p, packed
  <2>8. PackerData' = Append(packed, h) \o (T \o inHand)
    <3>1. cpc \notin {"loop", "done"}
      BY <1>5, <2>1
    <3>. QED BY <2>1, <2>4, <2>7, <3>1 DEF PackerData
  <2>9. PackerData = packed \o (store \o inHand)
    BY <1>5, <1>7, <2>1
  <2>. QED BY <1>8, <2>1, <2>2, <2>3, <2>4, <2>5, <2>8, <2>9
<1>11. CASE FinishBlock
  <2>1. /\ cpc = "flushing" /\ cpc' = "directory"
        /\ UNCHANGED <<pipe, returned, begun, inHand, store, archive>>
    BY <1>11 DEF FinishBlock
  <2>2. delivered' = delivered
    BY <1>11, <2>1, PackerKeeps DEF FinishBlock, PutBackdoor
  <2>3. Travelling' = Travelling
    BY <1>3, <2>1 DEF Travelling
  <2>4. PackerMode' = PackerMode /\ PackerData' = PackerData
    BY <2>1 DEF PackerMode, PackerData
  <2>. QED BY <1>8, <2>1, <2>2, <2>3, <2>4
\* An instruction is received.
<1>12. SUFFICES ASSUME MainLoop \/ CopyBlock \/ CopyEnd \/ ReceiveInstruction \/ PutBackdoor
                PROVE  \E g \in Nat : sent - g = Travelling' /\ Leads(pipe', PackerView(g)', to)
  BY <1>9, <1>10, <1>11 DEF Packer
<1>13. pipe # <<>> /\ pipe' = Tail(pipe)
  BY <1>12 DEF MainLoop, CopyBlock, CopyEnd, ReceiveInstruction, PutBackdoor, Receive
<1>14. PICK w \in Views : Executes(PackerView(got), Head(pipe), w) /\ Leads(Tail(pipe), w, to)
  BY <1>2, <1>6, <1>13, LeadsTaken
<1>15. /\ PackerView(got).mode = PackerMode /\ PackerView(got).blk = D + 1
       /\ PackerView(got).data = PackerData /\ PackerView(got).sent = got
  BY DEF PackerView, View
<1>16. ASSUME NEW g \in Nat, sent - g = Travelling', NEW b, b = Len(delivered') + 1,
              w = View(PackerMode', b, PackerData', g)
       PROVE  \E gg \in Nat : sent - gg = Travelling' /\ Leads(pipe', PackerView(gg)', to)
  <2>1. PackerView(g)' = w
    BY <1>16 DEF PackerView
  <2>. QED BY <1>13, <1>14, <1>16, <2>1
<1>17. ~PutBackdoor => delivered' = delivered /\ Len(delivered') = D
  BY PackerKeeps
<1>18. cpc \notin {"packing", "flushing"} => inHand = <<>> /\ store = <<>>
  BY <1>5
<1>19. CASE MainLoop
  <2>1. /\ cpc = "loop" /\ UNCHANGED <<returned, inHand, store, archive>>
        /\ Instr \in {"CompressData", "TheEnd", "DebugLog"} /\ Head(pipe).op = Instr
        /\ begun' = IF Instr = "CompressData"
                    THEN [blk |-> Head(pipe).blk, pos |-> Len(archive)] ELSE begun
        /\ cpc' = IF Instr = "CompressData"
                  THEN IF Head(pipe).copy THEN "copying" ELSE "packing"
                  ELSE IF Instr = "TheEnd" THEN "done" ELSE "loop"
    BY <1>19, Begins
  <2>2. Travelling' = Travelling
    BY <1>3, <2>1 DEF Travelling
  <2>3. delivered' = delivered
    BY <1>17, <2>1 DEF PutBackdoor
  <2>4. PackerMode = "loop" /\ PackerData = <<>>
    BY <1>7, <2>1 DEF PackerMode
  <2>5. CASE Instr = "CompressData"
    <3>1. /\ cpc' = IF Head(pipe).copy THEN "copying" ELSE "packing"
          /\ begun' = [blk |-> Head(pipe).blk, pos |-> Len(archive)]
      BY <2>1, <2>5
    <3>2. w = View(IF Head(pipe).copy THEN "copying" ELSE "packing", D + 1, <<>>, got)
      BY <1>14, <1>15, <2>1, <2>4, <2>5 DEF Executes
    <3>3. PackerMode' = IF Head(pipe).copy THEN "copying" ELSE "packing"
      BY <3>1 DEF PackerMode
    <3>4. PackerData' = <<>>
      <4>1. SubSeq(archive, Len(archive) + 1, Len(archive)) = <<>>
        BY <1>2, SubSeqEmpty
      <4>2. inHand = <<>> /\ store = <<>> /\ <<>> \o <<>> = <<>>
        BY <1>2, <1>18, <2>1
      <4>3. begun'.pos = Len(archive) /\ cpc' \notin {"loop", "done"}
        BY <3>1
      <4>. QED BY <2>1, <4>1, <4>2, <4>3 DEF PackerData
    <3>. QED BY <1>1, <1>16, <2>2, <2>3, <3>2, <3>3, <3>4
  <2>6. CASE Instr = "TheEnd"
    <3>1. cpc' = "done"
      BY <2>1, <2>6
    <3>2. w = View("done", D + 1, <<>>, got)
      BY <1>14, <1>15, <2>1, <2>4, <2>6 DEF Executes
    <3>3. PackerMode' = "done" /\ PackerData' = <<>>
      BY <3>1 DEF PackerMode, PackerData
    <3>. QED BY <1>1, <1>16, <2>2, <2>3, <3>2, <3>3
  <2>7. CASE Instr = "DebugLog"
    <3>1. cpc' = "loop"
      BY <2>1, <2>7
    <3>2. w = PackerView(got)
      BY <1>14, <1>15, <2>1, <2>4, <2>7 DEF Executes
    <3>3. w = View("loop", D + 1, <<>>, got)
      BY <2>4, <3>2 DEF PackerView
    <3>4. PackerMode' = "loop" /\ PackerData' = <<>>
      BY <3>1 DEF PackerMode, PackerData
    <3>. QED BY <1>1, <1>16, <2>2, <2>3, <3>3, <3>4
  <2>. QED BY <2>1, <2>5, <2>6, <2>7
<1>20. CASE CopyBlock
  <2>1. /\ cpc = "copying" /\ UNCHANGED <<returned, begun, inHand, store>>
        /\ Head(pipe).op = "CopySolidBlock" /\ cpc' = "copied"
        /\ archive' = archive \o Whole(begun.blk)
    BY <1>20, Copies DEF Instr
  <2>2. Travelling' = Travelling
    BY <1>3, <2>1 DEF Travelling
  <2>3. delivered' = delivered
    BY <1>17, <2>1 DEF PutBackdoor
  <2>4. PackerMode' = "copied" /\ inHand = <<>> /\ store = <<>>
    BY <1>18, <2>1 DEF PackerMode
  <2>5. PackerData = <<>> /\ w = View("copied", D + 1, Whole(D + 1), got)
    BY <1>14, <1>15, <2>1 DEF Executes
  <2>6. packed = <<>>
    BY <1>2, <1>7, <2>1, <2>4, <2>5
  <2>7. begun.pos = Len(archive)
    <3>1. Len(packed) = IF begun.pos + 1 <= Len(archive)
                        THEN Len(archive) - (begun.pos + 1) + 1 ELSE 0
      <4>1. \A i \in begun.pos + 1 .. Len(archive) : archive[i] \in Chunks
        BY <1>2, Emptied
      <4>. QED BY <1>2, <4>1, SubSeqProperties DEF packed
    <3>2. begun.pos <= Len(archive)
      BY <1>5, <2>1
    <3>. QED BY <1>2, <2>6, <3>1, <3>2
  <2>8. begun.blk = D + 1 /\ Whole(D + 1) \in Seq(Chunks)
    <3>1. begun.blk = D + 1 /\ begun.blk \in 0 .. LastBlock
      BY <1>2, <1>5, <2>1, TypedFacts
    <3>2. D + 1 \in 1 .. LastBlock
      BY <1>2, <3>1, PlanTyped
    <3>. QED BY <3>1, <3>2, WholeTyped
  <2>9. PackerData' = Whole(D + 1)
    <3>. DEFINE r == Whole(D + 1)
    <3>1. r \in Seq(Chunks) /\ archive' = archive \o r
      BY <2>1, <2>8
    <3>. HIDE DEF r
    <3>2. SubSeq(archive \o r, Len(archive) + 1, Len(archive \o r)) = r
      BY <1>2, <3>1, AddedBehind
    <3>3. r \o (<<>> \o <<>>) = r
      BY <1>2, <3>1
    <3>4. PackerData' = r \o (<<>> \o <<>>)
      BY <2>1, <2>4, <2>7, <3>1, <3>2 DEF PackerData
    <3>. QED BY <3>3, <3>4 DEF r
  <2>. QED BY <1>1, <1>16, <2>2, <2>3, <2>4, <2>5, <2>9
<1>21. CASE CopyEnd
  <2>1. /\ cpc = "copied" /\ UNCHANGED <<returned, begun, inHand, store, archive>>
        /\ Head(pipe).op = "DataEnd" /\ cpc' = "directory"
    BY <1>13, <1>21, Understood DEF CopyEnd, Instr
  <2>2. Travelling' = Travelling
    BY <1>3, <2>1 DEF Travelling
  <2>3. delivered' = delivered
    BY <1>17, <2>1 DEF PutBackdoor
  <2>4. PackerMode' = "directory" /\ PackerData' = PackerData
    BY <2>1 DEF PackerMode, PackerData
  <2>5. w = View("directory", D + 1, PackerData, got)
    BY <1>14, <1>15, <2>1 DEF Executes
  <2>. QED BY <1>1, <1>16, <2>2, <2>3, <2>4, <2>5
<1>22. CASE ReceiveInstruction
  <2>1. /\ cpc = "packing" /\ inHand = <<>> /\ UNCHANGED <<returned, begun, store, archive>>
        /\ Instr \in {"FileStart", "CorrectTotals", "FakeFiles", "DataChunk", "DataEnd"}
        /\ Head(pipe).op = Instr
        /\ inHand' = IF Instr = "DataChunk" THEN <<Head(pipe).chunk>> ELSE <<>>
        /\ cpc' = IF Instr = "DataEnd" THEN "flushing" ELSE "packing"
    BY <1>13, <1>22, Understood DEF ReceiveInstruction, Instr
  <2>2. delivered' = delivered
    BY <1>17, <2>1 DEF PutBackdoor
  <2>3. PackerMode = "packing" /\ PackerData = packed \o (store \o inHand)
    BY <1>7, <2>1 DEF PackerMode
  <2>4. CASE Instr = "DataChunk"
    <3>. PICK g \in Nat : g = got + 1
      OBVIOUS
    <3>. DEFINE c == Head(pipe).chunk
    <3>1. c \in Chunks
      <4>1. Head(pipe) \in Messages
        BY <1>2, <1>13, HeadTailProperties
      <4>. QED BY <2>1, <2>4, <4>1, Carried
    <3>2. inHand' = <<c>> /\ cpc' = "packing"
      BY <2>1, <2>4
    <3>3. w = View("packing", D + 1, Append(PackerData, c), g)
      BY <1>14, <1>15, <2>1, <2>3, <2>4 DEF Executes
    <3>. HIDE DEF c
    <3>4. sent - g = Travelling'
      <4>1. Len(inHand') = 1 /\ Len(inHand) = 0
        BY <1>2, <2>1, <3>1, <3>2, OneEntry
      <4>2. Travelling' = Travelling - 1
        BY <1>2, <1>3, <2>1, <4>1 DEF Travelling
      <4>. QED BY <1>1, <4>2
    <3>5. PackerData' = packed \o (store \o <<c>>)
      BY <2>1, <3>2 DEF PackerData, packed
    <3>6. packed \o (store \o <<c>>) = Append(PackerData, c)
      <4>. DEFINE e == <<c>>
                  q == packed \o store
      <4>1. e \in Seq(Chunks)
        BY <3>1, OneEntry
      <4>2. q \in Seq(Chunks) /\ PackerData = q
        BY <1>2, <2>1, <2>3, ConcatProperties
      <4>. HIDE DEF e
      <4>3. (packed \o store) \o e = packed \o (store \o e)
        <5>1. packed \in Seq(Chunks) /\ store \in Seq(Chunks)
          BY <1>2
        <5>2. Same((packed \o store) \o e, packed \o (store \o e))
          BY <4>1, <5>1, Associative
        <5>. QED BY <5>2, Zenon DEF Same
      <4>. HIDE DEF q
      <4>4. Append(q, c) = q \o <<c>>
        BY <3>1, <4>2, AppendIsConcat
      <4>. QED BY <4>2, <4>3, <4>4 DEF e, q
    <3>7. PackerMode' = "packing"
      BY <3>2 DEF PackerMode
    <3>. QED BY <1>16, <2>2, <3>3, <3>4, <3>5, <3>6, <3>7
  <2>5. CASE Instr # "DataChunk"
    <3>1. inHand' = inHand /\ PackerData' = PackerData
      BY <2>1, <2>5 DEF PackerData
    <3>2. Travelling' = Travelling
      BY <1>3, <2>1, <3>1 DEF Travelling
    <3>3. PackerMode' = IF Instr = "DataEnd" THEN "directory" ELSE "packing"
      BY <2>1 DEF PackerMode
    <3>4. CASE Instr = "DataEnd"
      <4>1. w = View("directory", D + 1, PackerData, got)
        BY <1>14, <1>15, <2>1, <3>4 DEF Executes
      <4>. QED BY <1>1, <1>16, <2>2, <3>1, <3>2, <3>3, <3>4, <4>1
    <3>5. CASE Instr \in {"FileStart", "CorrectTotals", "FakeFiles"}
      <4>1. w = View("packing", D + 1, PackerData, got)
        BY <1>14, <1>15, <2>1, <2>3, <3>5 DEF Executes, PackerView
      <4>. QED BY <1>1, <1>16, <2>2, <3>1, <3>2, <3>3, <3>5, <4>1
    <3>. QED BY <2>1, <2>5, <3>4, <3>5
  <2>. QED BY <2>4, <2>5
<1>23. CASE PutBackdoor
  <2>. PICK n : n = D
    OBVIOUS
  <2>1. /\ cpc' = "loop" /\ UNCHANGED <<returned, inHand>> /\ Len(delivered') = n + 1
        /\ Instr = "Directory"
    BY <1>23, Put, Zenon DEF D
  <2>2. Travelling' = Travelling
    BY <1>3, <2>1 DEF Travelling
  <2>3. w = View("loop", (D + 1) + 1, <<>>, got)
    BY <1>14, <1>15, <2>1 DEF Executes, Instr
  <2>4. PackerMode' = "loop" /\ PackerData' = <<>>
    BY <2>1 DEF PackerMode, PackerData
  <2>5. (n + 1) + 1 = Len(delivered') + 1
    BY <2>1
  <2>. QED BY <1>1, <1>16, <2>2, <2>3, <2>4, <2>5
<1>. QED BY <1>12, <1>19, <1>20, <1>21, <1>22, <1>23

-----------------------------------------------------------------------------
(***************************************************************************)
(* The theorems.                                                           *)
(***************************************************************************)
\* The invariant holds when nothing has been sent.
LEMMA InitInv == Init => IInv
<1>. SUFFICES ASSUME Init PROVE IInv
  OBVIOUS
<1>1. /\ rpc = "open" /\ blk = 1 /\ file = 0 /\ chunks = 0 /\ dir = <<>>
      /\ marks = [b \in 1 .. LastBlock |-> -1] /\ due = 0 /\ infos = <<>>
      /\ free = CacheBuffers
      /\ pipe = <<>> /\ returned = 0 /\ backdoor = <<>>
      /\ cpc = "loop" /\ begun = [blk |-> 0, pos |-> 0]
      /\ inHand = <<>> /\ store = <<>> /\ archive = <<>>
      /\ pos = 0 /\ rrPos = -1 /\ left = 0
  BY DEF Init
<1>2. /\ LastBlock \in Nat /\ SolidBefore \in Nat /\ LastSolid \in Nat
      /\ CacheBuffers \in Nat /\ MaxChunks \in Nat
  BY PlanTyped, ParametersAssumption
<1>3. /\ \A T : <<>> \in Seq(T)
      /\ Len(<<>>) = 0 /\ <<>> \o <<>> = <<>> /\ DOMAIN <<>> = {}
  BY EmptySeq
<1>4. Typed
  BY <1>1, <1>2, <1>3 DEF Typed, TypeOK, Entries
<1>5. Walking
  BY <1>1 DEF Walking
<1>6. delivered = <<>> /\ Len(delivered) = 0 /\ End(0) = 0
  BY <1>1, <1>3 DEF delivered, End
<1>7. Collecting
  BY <1>1, <1>2, <1>3 DEF Collecting, Behind
<1>8. Packing /\ Marked /\ Handled
  BY <1>1, <1>3, <1>6 DEF Packing, Marked, Handled
<1>9. Delivered
  <2>1. 1 .. Len(delivered) = {}
    BY <1>6
  <2>. QED BY <2>1 DEF Delivered
<1>10. Conversation
  <2>1. Travelling = 0
    <3>1. Len(inHand) = 0 /\ rpc # "fill"
      BY <1>1, <1>3
    <3>2. free = CacheBuffers /\ returned = 0 /\ CacheBuffers \in Nat
      BY <1>1, <1>2
    <3>3. CacheBuffers - CacheBuffers - 0 - 0 - 0 = 0
      BY <3>2
    <3>4. Travelling = CacheBuffers - CacheBuffers - 0 - 0 - 0
      BY <3>1, <3>2, Zenon DEF Travelling
    <3>. QED BY <3>3, <3>4
  <2>2. Sending(<<>>)
    BY <1>1, <1>3 DEF Sending
  <2>3. /\ PackerView(0) = View("loop", 1, <<>>, 0)
        /\ ReaderView(<<>>, 0) = View("loop", 1, <<>>, 0)
    BY <1>1, <1>6 DEF PackerView, PackerMode, PackerData, ReaderView, ReaderMode
  <2>4. View("loop", 1, <<>>, 0) \in Views
    BY <1>3, ViewTyped
  <2>5. Leads(pipe, PackerView(0), ReaderView(<<>>, 0))
    BY <1>1, <2>3, <2>4, LeadsEmpty
  <2>6. 0 - 0 = Travelling /\ 0 \in Nat /\ <<>> \in Seq(Chunks)
    BY <1>3, <2>1
  <2>. QED BY <2>2, <2>5, <2>6, Zenon DEF Conversation
<1>. QED BY <1>4, <1>5, <1>7, <1>8, <1>9, <1>10 DEF IInv

\* Every step keeps the invariant.
LEMMA NextInv == IInv /\ [Next]_vars => IInv'
<1>. SUFFICES ASSUME IInv, [Next]_vars PROVE IInv'
  OBVIOUS
<1>1. CASE Next
  <2>1. Typed'
    BY <1>1, ReaderTyped, PackerTyped DEF Next
  <2>2. Conversation'
    BY <1>1, ReaderTalks, PackerTalks DEF Next
  <2>. QED BY <1>1, <2>1, <2>2, WalkingKept, CollectingKept, PackingKept, DeliveredKept,
           MarkedKept, HandledKept DEF IInv
<1>2. CASE UNCHANGED vars
  <2>1. UNCHANGED <<rpc, blk, file, chunks, dir, marks, due, infos, free, pipe, returned, backdoor>>
    BY <1>2 DEF vars, reader
  <2>2. UNCHANGED <<cpc, begun, inHand, store, archive>>
    BY <1>2 DEF vars, packer
  <2>3. UNCHANGED <<pos, rrPos, left>>
    BY <1>2 DEF vars, handle
  <2>4. delivered' = delivered /\ Len(delivered)' = Len(delivered) /\ \A n : End(n)' = End(n)
    BY <2>1 DEF delivered, End
  <2>5. Typed'
    BY <2>1, <2>2, <2>3 DEF IInv, Typed, TypeOK
  <2>6. Walking' /\ Collecting'
    BY <2>1 DEF IInv, Walking, Collecting, Behind
  <2>7. Packing' /\ Delivered' /\ Marked'
    BY <2>1, <2>2, <2>4 DEF IInv, Packing, Delivered, Marked, End
  <2>8. Handled'
    BY <2>1, <2>2, <2>3 DEF IInv, Handled, Scans
  <2>9. Conversation'
    BY <2>1, <2>2, <2>4 DEF IInv, Conversation, Sending, Travelling, PackerView, PackerMode,
       PackerData, ReaderView, ReaderMode
  <2>. QED BY <2>5, <2>6, <2>7, <2>9, <2>8 DEF IInv
<1>. QED BY <1>1, <1>2

\* The invariant holds of every state of the creation of an archive.
THEOREM Invariance == Spec => []IInv
BY InitInv, NextInv, PTL DEF Spec

\* Every variable keeps its type; in particular the counters of buffers stay within the cache.
THEOREM TypeCorrect == Spec => []TypeOK
<1>1. IInv => TypeOK
  BY DEF IInv, Typed
<1>. QED BY <1>1, Invariance, PTL

\* The packer never gets an instruction it has no case for (the patterns in
\* ArcvProcessCompress.hs:58-62, 231).
THEOREM PackerUnderstands == Spec => []ProtocolKept
<1>1. IInv => ProtocolKept
  BY Bounds DEF ProtocolKept
<1>. QED BY <1>1, Invariance, PTL

\* The descriptors the reader has are those of the blocks in their order, each lists what lies
\* between its position and its end, and a position that was asked for is where the block
\* begins (writeBlock and createDirBlock, ArcvProcessRead.hs:102-112, 262-266).
THEOREM DescriptorsAreTrue == Spec => []DescriptorsTrue
<1>1. ASSUME IInv
      PROVE  DescriptorsTrue
  <2>1. Typed /\ Delivered
    BY <1>1 DEF IInv
  <2>2. ASSUME NEW n \in 1 .. Len(infos)
        PROVE  /\ infos[n].blk = n
               /\ infos[n].pos + infos[n].size <= Len(archive)
               /\ Located(n) => marks[n] = infos[n].pos
               /\ Describes(infos[n].dir, n,
                            SubSeq(archive, infos[n].pos + 1, infos[n].pos + infos[n].size))
    <3>1. /\ n \in 1 .. Len(delivered) /\ delivered[n] = infos[n] /\ n # 0
      BY <2>1, DeliveredTyped
    <3>2. End(n) = infos[n].pos + infos[n].size
      BY <3>1 DEF End
    <3>. QED BY <2>1, <3>1, <3>2 DEF Delivered
  <2>. QED BY <2>2 DEF DescriptorsTrue, Describes
<1>. QED BY <1>1, Invariance, PTL

\* When both processes are through, every descriptor was taken, the blocks follow each other
\* without a gap, and every buffer of the cache is free or on its way back (sendBuf,
\* storingProcess).
THEOREM NothingLeftBehind == Spec => []NothingLeft
<1>1. ASSUME IInv, rpc = "end", cpc = "done"
      PROVE  /\ pipe = <<>> /\ backdoor = <<>> /\ store = <<>> /\ inHand = <<>>
             /\ Len(infos) = LastBlock
             /\ \A n \in 1 .. LastBlock :
                  infos[n].pos = IF n = 1 THEN 0 ELSE infos[n - 1].pos + infos[n - 1].size
             /\ free + returned = CacheBuffers
  <2>1. Typed /\ Walking /\ Collecting /\ Packing /\ Delivered
    BY <1>1 DEF IInv
  <2>2. store = <<>> /\ inHand = <<>>
    BY <1>1, <2>1 DEF Packing
  <2>3. pipe = <<>>
    BY <1>1, Understood
  <2>4. PICK got \in Nat, sent \in Nat, data \in Seq(Chunks) :
          /\ sent - got = Travelling
          /\ Leads(pipe, PackerView(got), ReaderView(data, sent))
    BY <1>1, Expected
  <2>5. PackerView(got) = ReaderView(data, sent)
    BY <2>3, <2>4, LeadsEmpty
  <2>6. Len(delivered) + 1 = blk /\ got = sent
    BY <1>1, <2>5 DEF PackerView, ReaderView, View
  <2>7. /\ LastBlock \in Nat /\ SolidBefore \in Nat /\ LastSolid <= LastBlock
        /\ blk = LastBlock + 1
    BY <1>1, <2>1, PlanTyped DEF Walking
  <2>8. /\ Len(delivered) = Len(infos) + Len(backdoor) /\ Len(infos) \in Nat
        /\ Len(backdoor) \in {0, 1} /\ Len(delivered) \in Nat
        /\ \A n \in 1 .. Len(infos) : delivered[n] = infos[n]
    BY <2>1, DeliveredTyped
  <2>9. Len(infos) = LastBlock
    <3>1. LastSolid \in Nat
      BY PlanTyped
    <3>2. Behind = LastBlock
      BY <2>7, <3>1 DEF Behind
    <3>. QED BY <1>1, <2>1, <3>2 DEF Collecting
  <2>10. backdoor = <<>>
    <3>1. Len(backdoor) = 0
      BY <2>6, <2>7, <2>8, <2>9
    <3>2. backdoor \in Seq(Descriptors)
      BY <2>1, TypedFacts
    <3>. QED BY <3>1, <3>2, Emptied
  <2>11. ASSUME NEW n \in 1 .. LastBlock
         PROVE  infos[n].pos = IF n = 1 THEN 0 ELSE infos[n - 1].pos + infos[n - 1].size
    <3>1. n \in 1 .. Len(delivered) /\ delivered[n] = infos[n]
      BY <2>6, <2>7, <2>8, <2>9
    <3>2. infos[n].pos = End(n - 1)
      BY <2>1, <3>1 DEF Delivered
    <3>3. n = 1 => End(n - 1) = 0
      BY DEF End
    <3>4. n # 1 => End(n - 1) = infos[n - 1].pos + infos[n - 1].size
      <4>1. n # 1 => n - 1 \in 1 .. Len(infos) /\ n - 1 # 0
        BY <2>7, <2>9
      <4>. QED BY <2>8, <4>1 DEF End
    <3>. QED BY <3>2, <3>3, <3>4
  <2>12. free + returned = CacheBuffers
    <3>1. Travelling = 0
      BY <2>4, <2>6
    <3>2. free \in Nat /\ returned \in Nat /\ CacheBuffers \in Nat
      BY <2>1, TypedFacts, ParametersAssumption
    <3>3. Len(inHand) = 0
      BY <2>2, EmptySeq
    <3>. QED BY <1>1, <3>1, <3>2, <3>3 DEF Travelling
  <2>. QED BY <2>2, <2>3, <2>9, <2>10, <2>11, <2>12
<1>2. IInv => NothingLeft
  BY <1>1 DEF NothingLeft
<1>. QED BY <1>2, Invariance, PTL
=============================================================================
