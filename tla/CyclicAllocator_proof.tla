----------------------- MODULE CyclicAllocator_proof -----------------------
(***************************************************************************)
(* Proofs about the cyclic allocator, for every heap, buffer and alignment *)
(* that satisfy SizesAssumption.                                           *)
(***************************************************************************)
EXTENDS CyclicAllocator, TLAPS

-----------------------------------------------------------------------------
(***************************************************************************)
(* Alignment arithmetic.                                                   *)
(***************************************************************************)

\* A multiple of the alignment is the product of its quotient (align, Utils.hs).
LEMMA Multiple ==
  ASSUME NEW n \in Int, n % Alignment = 0
  PROVE  \E k \in Int : n = k * Alignment
<1>1. Alignment \in Nat \ {0}
  BY SizesAssumption
<1>2. n = (n \div Alignment) * Alignment /\ n \div Alignment \in Int
  BY <1>1, SMTT(30)
<1>. QED BY <1>2

\* A product with the alignment is aligned: what align (Utils.hs:968) returns.
LEMMA ProductIsMultiple ==
  ASSUME NEW k \in Int
  PROVE  (k * Alignment) % Alignment = 0
<1>1. Alignment \in Nat \ {0}
  BY SizesAssumption
<1>. QED BY <1>1, SMTT(30)

\* Rounding up to the alignment gives the least multiple not below n.
LEMMA AlignIsLeast ==
  ASSUME NEW n \in Int
  PROVE  /\ Align(n) \in Int /\ Align(n) >= n
         /\ Align(n) % Alignment = 0
         /\ \A m \in Int : m % Alignment = 0 /\ m >= n => Align(n) <= m
<1>. DEFINE q == (n - 1) \div Alignment
<1>1. Alignment \in Nat \ {0}
  BY SizesAssumption
<1>2. q \in Int /\ q * Alignment <= n - 1 /\ n - 1 < q * Alignment + Alignment
  BY <1>1, SMTT(30)
<1>3. Align(n) = q * Alignment + Alignment
  BY <1>1, <1>2, SMTT(30) DEF Align
<1>4. ASSUME NEW m \in Int, m % Alignment = 0, m >= n
      PROVE  Align(n) <= m
  <2>1. PICK k \in Int : m = k * Alignment
    BY <1>4, Multiple
  <2>2. k * Alignment > q * Alignment
    BY <1>1, <1>2, <1>4, <2>1
  <2>3. k > q
    BY <1>1, <1>2, <2>1, <2>2, SMTT(30)
  <2>4. k * Alignment >= (q + 1) * Alignment
    BY <1>1, <1>2, <2>1, <2>3, SMTT(30)
  <2>. QED BY <1>1, <1>2, <1>3, <2>1, <2>4, SMTT(30)
<1>5. Align(n) % Alignment = 0
  BY <1>1, <1>2, SMTT(30) DEF Align
<1>. QED BY <1>1, <1>2, <1>3, <1>4, <1>5

\* What nextAvail returns for an address in the heap (Utils.hs:971-974): a
\* place, not below the address, and the least such place.
LEMMA NextAvailIsLeast ==
  ASSUME NEW n \in 0 .. HeapSize
  PROVE  /\ NextAvail(n) \in Places
         /\ NextAvail(n) >= n
         /\ \A p \in Places : p >= n => NextAvail(n) <= p
<1>1. HeapSize \in Nat /\ BufferSize \in Nat
  BY SizesAssumption
<1>2. /\ Align(n) \in Int /\ Align(n) >= n
      /\ Align(n) % Alignment = 0
      /\ \A m \in Int : m % Alignment = 0 /\ m >= n => Align(n) <= m
  BY AlignIsLeast
<1>3. CASE HeapSize - Align(n) < BufferSize
  <2>1. NextAvail(n) = HeapSize
    BY <1>3 DEF NextAvail
  <2>. QED BY <1>1, <1>2, <1>3, <2>1 DEF Places
<1>4. CASE ~(HeapSize - Align(n) < BufferSize)
  <2>1. NextAvail(n) = Align(n)
    BY <1>4 DEF NextAvail
  <2>. QED BY <1>1, <1>2, <1>4, <2>1 DEF Places
<1>. QED BY <1>3, <1>4

\* Shrinking the block at a place p to len bytes moves on to a place that is
\* p itself only for an empty block, and that is not beyond any place a whole
\* buffer away from p.
LEMMA NextAvailInBuffer ==
  ASSUME NEW p \in Places, p + BufferSize <= HeapSize,
         NEW len \in 0 .. BufferSize
  PROVE  /\ p + len \in 0 .. HeapSize
         /\ NextAvail(p + len) \in Places
         /\ NextAvail(p + len) >= p + len
         /\ len = 0 => NextAvail(p + len) = p
         /\ \A e \in Places : p + BufferSize <= e => NextAvail(p + len) <= e
<1>1. HeapSize \in Nat /\ BufferSize \in Nat \ {0}
  BY SizesAssumption
<1>2. p \in Nat /\ p + len \in 0 .. HeapSize
  BY <1>1 DEF Places
<1>3. /\ NextAvail(p + len) \in Places
      /\ NextAvail(p + len) >= p + len
      /\ \A e \in Places : e >= p + len => NextAvail(p + len) <= e
  BY <1>2, NextAvailIsLeast
<1>4. NextAvail(p + len) \in Nat
  BY <1>1, <1>3 DEF Places
<1>5. ASSUME len = 0 PROVE NextAvail(p + len) = p
  BY <1>2, <1>3, <1>4, <1>5
<1>6. ASSUME NEW e \in Places, p + BufferSize <= e
      PROVE  NextAvail(p + len) <= e
  <2>1. e \in Nat
    BY <1>1 DEF Places
  <2>2. e >= p + len
    BY <1>1, <1>2, <1>6, <2>1
  <2>. QED BY <1>3, <2>2
<1>. QED BY <1>2, <1>3, <1>5, <1>6

-----------------------------------------------------------------------------
(***************************************************************************)
(* The invariant is inductive: one lemma per action.                       *)
(***************************************************************************)

\* Facts about the blocks in flight that every step uses.
LEMMA BlockFacts ==
  ASSUME TypeOK, \A i \in 1 .. Len(sent) : sent[i].addr \in Places \ {HeapSize},
         NEW i \in 1 .. Len(sent)
  PROVE  /\ sent[i].addr \in Nat /\ sent[i].size \in 1 .. BufferSize
         /\ sent[i].addr + BufferSize <= HeapSize
         /\ After(i) \in Places /\ After(i) \in Nat
         /\ After(i) <= HeapSize
         /\ After(i) >= sent[i].addr + sent[i].size
         /\ After(i) > sent[i].addr
<1>1. HeapSize \in Nat /\ BufferSize \in Nat \ {0}
  BY SizesAssumption
<1>2. sent[i] \in Blocks
  BY DEF TypeOK
<1>3. sent[i].addr \in Nat /\ sent[i].size \in 1 .. BufferSize
  BY <1>1, <1>2 DEF Blocks
<1>4. sent[i].addr \in Places /\ sent[i].addr + BufferSize <= HeapSize
  BY <1>1, <1>3 DEF Places
<1>5. /\ After(i) \in Places
      /\ After(i) >= sent[i].addr + sent[i].size
  BY <1>1, <1>3, <1>4, NextAvailInBuffer DEF After
<1>6. After(i) \in Nat /\ After(i) <= HeapSize
  BY <1>1, <1>5 DEF Places
<1>. QED BY <1>3, <1>4, <1>5, <1>6

\* Moving an exhausted start to the beginning of the heap (available,
\* Utils.hs:977-989) keeps it a place.
LEMMA WrappedStartFacts ==
  ASSUME IInv
  PROVE  /\ start \in Nat /\ end \in Nat /\ start <= HeapSize /\ end <= HeapSize
         /\ WrappedStart \in Places /\ WrappedStart \in Nat
         /\ \/ WrappedStart = start /\ ~(start > end /\ start = HeapSize)
            \/ WrappedStart = 0 /\ start = HeapSize /\ start > end
<1>1. HeapSize \in Nat /\ BufferSize \in Nat \ {0} /\ Alignment \in Nat \ {0}
      /\ BufferSize <= HeapSize
  BY SizesAssumption
<1>2. 0 % Alignment = 0
  BY <1>1, SMTT(30)
<1>3. 0 \in Places
  BY <1>1, <1>2 DEF Places
<1>4. start \in Nat /\ end \in Nat /\ start <= HeapSize /\ end <= HeapSize
      /\ start \in Places
  BY <1>1 DEF IInv, TypeOK
<1>. QED BY <1>1, <1>3, <1>4 DEF WrappedStart

\* The heap as memoryAllocator sets it up (Utils.hs:950-964) satisfies the invariant.
LEMMA InitIInv == Init => IInv
<1>. SUFFICES ASSUME Init PROVE IInv
  OBVIOUS
<1>1. HeapSize \in Nat /\ BufferSize \in Nat \ {0} /\ Alignment \in Nat \ {0}
      /\ BufferSize <= HeapSize
  BY SizesAssumption
<1>2. 0 % Alignment = 0
  BY <1>1, SMTT(30)
<1>3. 0 \in Places /\ HeapSize \in Places \ {0}
  BY <1>1, <1>2 DEF Places
<1>4. TypeOK
  BY <1>1 DEF Init, TypeOK, Phases
<1>5. Len(sent) = 0
  BY DEF Init
<1>6. Tiling
  BY DEF Init, Tiling
<1>7. InUsedPart /\ InOrder
  BY <1>5 DEF InUsedPart, InOrder
<1>. QED BY <1>3, <1>4, <1>5, <1>6, <1>7 DEF Init, IInv, FillingAtStart

\* Taking a block at the start of the free space keeps the invariant (getBlock,
\* Utils.hs:1005-1013).
LEMMA GetBlockIInv ==
  ASSUME IInv, GetBlock
  PROVE  IInv'
<1>1. HeapSize \in Nat /\ BufferSize \in Nat \ {0} /\ BufferSize <= HeapSize
  BY SizesAssumption
<1>2. /\ block' = WrappedStart /\ start' = WrappedStart /\ phase' = "filling"
      /\ end' = end /\ sent' = sent /\ acked' = acked
      /\ Available >= BufferSize
  BY DEF GetBlock
<1>3. /\ start \in Nat /\ end \in Nat /\ start <= HeapSize /\ end <= HeapSize
      /\ WrappedStart \in Places /\ WrappedStart \in Nat
      /\ \/ WrappedStart = start /\ ~(start > end /\ start = HeapSize)
         \/ WrappedStart = 0 /\ start = HeapSize /\ start > end
  BY WrappedStartFacts
<1>4. TypeOK'
  BY <1>1, <1>2, <1>3 DEF IInv, TypeOK, Phases, Places
<1>5. FillingAtStart'
  BY <1>1, <1>2, <1>3 DEF FillingAtStart, Available
<1>6. \A i \in 1 .. Len(sent) :
         /\ sent[i].addr \in Nat /\ After(i) \in Nat /\ After(i)' = After(i)
  BY <1>2, BlockFacts DEF IInv, After
<1>7. InUsedPart'
  <2>. SUFFICES ASSUME NEW i \in 1 .. Len(sent)
                PROVE  (IF start <= end THEN sent[i].addr >= end \/ After(i) <= start
                           ELSE sent[i].addr >= end /\ After(i) <= start)'
    BY <1>2 DEF InUsedPart
  <2>. QED BY <1>2, <1>3, <1>6 DEF IInv, InUsedPart
<1>8. InOrder'
  <2>. SUFFICES ASSUME NEW i \in 1 .. Len(sent), NEW j \in 1 .. Len(sent), i < j
                PROVE  (\/ After(i) <= sent[j].addr
                        \/ sent[i].addr >= end /\ After(j) <= start /\ start <= end)'
    BY <1>2 DEF InOrder
  <2>. QED BY <1>2, <1>3, <1>6 DEF IInv, InOrder
<1>9. Tiling'
  <2>1. CASE sent = <<>>
    BY <1>1, <1>2, <1>3, <2>1 DEF IInv, Tiling
  <2>2. CASE sent # <<>>
    <3>1. Len(sent) \in Nat \ {0}
      BY <2>2 DEF IInv, TypeOK
    <3>2. \A i \in 1 .. Len(sent) : After(i)' = After(i)
      BY <1>6
    <3>. QED BY <1>1, <1>2, <1>3, <2>2, <3>1, <3>2 DEF IInv, Tiling
  <2>. QED BY <2>1, <2>2
<1>. QED BY <1>2, <1>3, <1>4, <1>5, <1>7, <1>8, <1>9 DEF IInv

\* Reclaiming the oldest block keeps the invariant, and never meets a block that is
\* not at the end of the free space (waitReleasingMemory, Utils.hs:992-1001).
LEMMA WaitReleasingMemoryIInv ==
  ASSUME IInv, WaitReleasingMemory
  PROVE  IInv'
<1>1. HeapSize \in Nat /\ BufferSize \in Nat \ {0} /\ BufferSize <= HeapSize
  BY SizesAssumption
<1>2. /\ start \in Nat /\ end \in Nat /\ start <= HeapSize /\ end <= HeapSize
      /\ WrappedStart \in Places /\ WrappedStart \in Nat
      /\ \/ WrappedStart = start /\ ~(start > end /\ start = HeapSize)
         \/ WrappedStart = 0 /\ start = HeapSize /\ start > end
  BY WrappedStartFacts
<1>3. \A i \in 1 .. Len(sent) :
        /\ sent[i].addr \in Nat /\ sent[i].addr + BufferSize <= HeapSize
        /\ After(i) \in Places /\ After(i) \in Nat /\ After(i) <= HeapSize
        /\ After(i) > sent[i].addr
  BY BlockFacts DEF IInv
<1>4. /\ sent \in Seq(Blocks) /\ Len(sent) \in Nat /\ Len(sent) >= 1
      /\ sent # <<>> /\ acked \in Nat /\ acked >= 1 /\ acked <= Len(sent)
  BY DEF IInv, TypeOK, WaitReleasingMemory
<1>5. /\ sent' = Tail(sent) /\ acked' = acked - 1
      /\ phase = "asking" /\ block' = block
  BY DEF WaitReleasingMemory
<1>6. /\ sent' \in Seq(Blocks) /\ Len(sent') = Len(sent) - 1
      /\ \A i \in 1 .. Len(sent') : sent'[i] = sent[i + 1]
  BY <1>4, <1>5
<1>7. \/ sent[1].addr = end
      \/ sent[1].addr = 0 /\ end = HeapSize
  BY <1>4 DEF IInv, Tiling
<1>8. /\ phase' = "asking"
      /\ IF After(1) = WrappedStart
           THEN start' = 0 /\ end' = HeapSize
           ELSE start' = WrappedStart /\ end' = After(1)
  <2>1. Head(sent) = sent[1] /\ NextAvail(Head(sent).addr + Head(sent).size) = After(1)
    BY <1>4 DEF After
  <2>2. Head(sent).addr = end \/ (Head(sent).addr = 0 /\ HeapSize - end < BufferSize)
    BY <1>1, <1>2, <1>7, <2>1
  <2>. QED BY <1>5, <2>1, <2>2 DEF WaitReleasingMemory
<1>9. \A i \in 1 .. Len(sent') : After(i)' = After(i + 1)
  BY <1>6 DEF After
<1>10. /\ start' \in Places /\ start' \in Nat /\ start' <= HeapSize
       /\ end' \in Places \ {0} /\ end' \in Nat /\ end' <= HeapSize
  <2>1. 0 \in Places /\ HeapSize \in Places
    <3>1. Alignment \in Nat \ {0}
      BY SizesAssumption
    <3>2. 0 % Alignment = 0
      BY <3>1, SMTT(30)
    <3>. QED BY <1>1, <3>2 DEF Places
  <2>2. After(1) \in Places /\ After(1) > 0 /\ After(1) \in Nat /\ After(1) <= HeapSize
    BY <1>3, <1>4
  <2>. QED BY <1>1, <1>2, <1>8, <2>1, <2>2 DEF Places
<1>11. TypeOK'
  BY <1>1, <1>4, <1>5, <1>6, <1>8, <1>10 DEF IInv, TypeOK, Phases
<1>12. FillingAtStart'
  BY <1>8 DEF FillingAtStart
\* With one block in flight the heap becomes empty; with more, the oldest of
\* the others is found where the reclaimed one ended.
<1>13. CASE Len(sent) = 1
  <2>1. Len(sent') = 0 /\ sent' = <<>>
    BY <1>4, <1>5, <1>6, <1>13
  <2>2. After(1) = start \/ (After(1) = HeapSize /\ start = 0)
    BY <1>4, <1>13 DEF IInv, Tiling
  <2>3. start' = 0 /\ end' = HeapSize
    <3>. USE <1>1, <1>2, <1>3, <1>4
    <3>1. CASE After(1) = WrappedStart
      BY <3>1, <1>8
    <3>2. CASE After(1) # WrappedStart
      BY <3>2, <2>2, <1>8
    <3>. QED BY <3>1, <3>2
  <2>4. InUsedPart' /\ InOrder' /\ Tiling'
    BY <2>1, <2>3 DEF InUsedPart, InOrder, Tiling
  <2>. QED BY <1>8, <1>10, <1>11, <1>12, <2>1, <2>4 DEF IInv
<1>14. CASE Len(sent) > 1
  <2>1. 1 \in 1 .. Len(sent) /\ 2 \in 1 .. Len(sent) /\ 1 \in 1 .. Len(sent) - 1
    BY <1>4, <1>14
  <2>0. /\ sent[1].addr \in Nat /\ sent[1].addr + BufferSize <= HeapSize
        /\ After(1) \in Nat /\ After(1) <= HeapSize /\ After(1) > sent[1].addr
    BY <1>3, <2>1
  <2>2. sent[2].addr = After(1) \/ (sent[2].addr = 0 /\ After(1) = HeapSize)
    <3>1. sent[1 + 1].addr = After(1) \/ (sent[1 + 1].addr = 0 /\ After(1) = HeapSize)
      BY <1>4, <2>1 DEF IInv, Tiling
    <3>. QED BY <3>1
  <2>3. \A i \in 2 .. Len(sent) :
           \/ After(1) <= sent[i].addr
           \/ sent[1].addr >= end /\ After(i) <= start /\ start <= end
    BY <1>4, <2>1 DEF IInv, InOrder
  <2>4. \A i \in 1 .. Len(sent) :
           IF start <= end THEN sent[i].addr >= end \/ After(i) <= start
                           ELSE sent[i].addr >= end /\ After(i) <= start
    BY DEF IInv, InUsedPart
  <2>5. After(1) # WrappedStart
    <3>1. \/ After(1) <= sent[2].addr
          \/ sent[1].addr >= end /\ After(2) <= start /\ start <= end
      BY <1>4, <1>14, <2>3
    <3>2. IF start <= end THEN sent[2].addr >= end \/ After(2) <= start
                          ELSE sent[2].addr >= end /\ After(2) <= start
      BY <2>1, <2>4
    <3>. QED BY <1>1, <1>2, <1>3, <1>7, <2>1, <2>2, <3>1, <3>2
  <2>6. start' = WrappedStart /\ end' = After(1)
    BY <1>8, <2>5
  <2>7. InUsedPart'
    <3>. SUFFICES ASSUME NEW i \in 1 .. Len(sent')
                  PROVE  IF start' <= end'
                           THEN sent'[i].addr >= end' \/ After(i)' <= start'
                           ELSE sent'[i].addr >= end' /\ After(i)' <= start'
      BY DEF InUsedPart
    <3>. DEFINE k == i + 1
    <3>1. k \in 2 .. Len(sent) /\ k \in 1 .. Len(sent)
      BY <1>4, <1>6
    <3>2. sent'[i] = sent[k] /\ After(i)' = After(k)
      BY <1>6, <1>9
    <3>3. \/ After(1) <= sent[k].addr
          \/ sent[1].addr >= end /\ After(k) <= start /\ start <= end
      BY <2>3, <3>1
    <3>4. IF start <= end THEN sent[k].addr >= end \/ After(k) <= start
                          ELSE sent[k].addr >= end /\ After(k) <= start
      BY <2>4, <3>1
    <3>5. /\ sent[k].addr \in Nat /\ sent[k].addr + BufferSize <= HeapSize
          /\ After(k) \in Nat /\ After(k) <= HeapSize /\ After(k) > sent[k].addr
      BY <1>3, <3>1
    <3>. HIDE DEF k
    <3>. QED BY <1>1, <1>2, <1>7, <2>0, <2>6, <3>2, <3>3, <3>4, <3>5
  <2>8. InOrder'
    <3>. SUFFICES ASSUME NEW i \in 1 .. Len(sent'), NEW j \in 1 .. Len(sent'), i < j
                  PROVE  \/ After(i)' <= sent'[j].addr
                         \/ sent'[i].addr >= end' /\ After(j)' <= start' /\ start' <= end'
      BY DEF InOrder
    <3>. DEFINE k == i + 1
                l == j + 1
    <3>1. k \in 2 .. Len(sent) /\ k \in 1 .. Len(sent) /\ l \in 1 .. Len(sent) /\ k < l
      BY <1>4, <1>6
    <3>2. /\ sent'[i] = sent[k] /\ After(i)' = After(k)
          /\ sent'[j] = sent[l] /\ After(j)' = After(l)
      BY <1>6, <1>9
    <3>3. \/ After(1) <= sent[k].addr
          \/ sent[1].addr >= end /\ After(k) <= start /\ start <= end
      BY <2>3, <3>1
    <3>4. \/ After(k) <= sent[l].addr
          \/ sent[k].addr >= end /\ After(l) <= start /\ start <= end
      BY <3>1 DEF IInv, InOrder
    <3>5. /\ sent[k].addr \in Nat /\ sent[k].addr + BufferSize <= HeapSize
          /\ After(k) \in Nat /\ After(k) > sent[k].addr
          /\ After(l) \in Nat /\ sent[l].addr \in Nat
      BY <1>3, <3>1
    <3>6. \/ After(k) <= sent[l].addr
          \/ sent[k].addr >= After(1) /\ After(l) <= WrappedStart /\ WrappedStart <= After(1)
      <4>. HIDE DEF k, l
      <4>1. CASE sent[k].addr >= end /\ After(l) <= start /\ start <= end
        <5>1. WrappedStart = start
          BY <1>2, <4>1
        <5>2. After(1) <= sent[k].addr
          BY <1>2, <3>3, <3>5, <4>1
        <5>3. start <= After(1)
          BY <1>1, <1>2, <1>7, <2>0, <3>5, <4>1
        <5>. QED BY <4>1, <5>1, <5>2, <5>3, <3>5, <2>0
      <4>. QED BY <3>4, <4>1
    <3>. QED BY <2>6, <3>2, <3>6
  <2>9. Tiling'
    <3>1. Len(sent') \in Nat /\ Len(sent') >= 1 /\ sent' # <<>>
          /\ Len(sent') + 1 = Len(sent)
      BY <1>4, <1>6, <1>14
    <3>2. sent'[1].addr = end' \/ (sent'[1].addr = 0 /\ end' = HeapSize)
      <4>1. sent'[1] = sent[2]
        BY <1>6, <3>1
      <4>. QED BY <2>2, <2>6, <4>1
    <3>3. ASSUME NEW i \in 1 .. Len(sent') - 1
          PROVE  \/ sent'[i + 1].addr = After(i)'
                 \/ sent'[i + 1].addr = 0 /\ After(i)' = HeapSize
      <4>1. /\ i + 1 \in 1 .. Len(sent) - 1 /\ i \in 1 .. Len(sent')
            /\ i + 1 \in 1 .. Len(sent')
        BY <3>1
      <4>2. sent'[i + 1] = sent[(i + 1) + 1] /\ After(i)' = After(i + 1)
        BY <1>6, <1>9, <4>1
      <4>3. \/ sent[(i + 1) + 1].addr = After(i + 1)
            \/ sent[(i + 1) + 1].addr = 0 /\ After(i + 1) = HeapSize
        BY <1>4, <4>1 DEF IInv, Tiling
      <4>. QED BY <4>2, <4>3
    <3>4. start' = After(Len(sent))' \/ (start' = 0 /\ After(Len(sent))' = HeapSize)
      <4>1. After(Len(sent))' = After(Len(sent))
        <5>1. NextAvail(sent'[Len(sent')].addr + sent'[Len(sent')].size)
                = NextAvail(sent[Len(sent)].addr + sent[Len(sent)].size)
          <6>1. sent'[Len(sent')] = sent[Len(sent')+1]
            BY <1>6, <3>1
          <6>. QED BY <3>1, <6>1
        <5>. QED BY <5>1 DEF After
      <4>2. start = After(Len(sent)) \/ (start = 0 /\ After(Len(sent)) = HeapSize)
        BY <1>4 DEF IInv, Tiling
      <4>. QED BY <1>2, <2>6, <4>1, <4>2
    <3>. QED BY <3>1, <3>2, <3>3, <3>4 DEF Tiling
  <2>10. \A i \in 1 .. Len(sent') : sent'[i].addr \in Places \ {HeapSize}
    <3>. SUFFICES ASSUME NEW i \in 1 .. Len(sent')
                  PROVE  sent[i + 1].addr \in Places \ {HeapSize}
      BY <1>6
    <3>1. i + 1 \in 1 .. Len(sent)
      BY <1>4, <1>6
    <3>. QED BY <3>1 DEF IInv
  <2>. QED BY <1>8, <1>10, <1>11, <1>12, <2>7, <2>8, <2>9, <2>10 DEF IInv
<1>15. Len(sent) = 1 \/ Len(sent) > 1
  <2>1. \A n \in Nat : n >= 1 => n = 1 \/ n > 1
    OBVIOUS
  <2>. QED BY <1>4, <2>1, Zenon
<1>. QED BY <1>13, <1>14, <1>15

\* Shrinking the block to what was read into it and sending it on keeps the
\* invariant (shrinkBlock, Utils.hs:1016-1021; sendBuf, ArcvProcessRead.hs:254).
LEMMA SendBufIInv ==
  ASSUME IInv, NEW len \in 0 .. BufferSize, SendBuf(len)
  PROVE  IInv'
<1>1. HeapSize \in Nat /\ BufferSize \in Nat \ {0} /\ BufferSize <= HeapSize
  BY SizesAssumption
<1>2. /\ phase = "filling" /\ phase' = "idle" /\ end' = end /\ block' = block
      /\ acked' = acked
      /\ sent' = IF len = 0 THEN sent
                 ELSE Append(sent, [addr |-> block, size |-> len])
      /\ start' = NextAvail(block + len)
  BY DEF SendBuf
<1>3. /\ block = start /\ start \in Nat /\ end \in Nat /\ end <= HeapSize
      /\ start \in Places /\ end \in Places
      /\ start + BufferSize <= HeapSize
      /\ start <= end => start + BufferSize <= end
  BY <1>1, <1>2 DEF IInv, FillingAtStart, TypeOK
<1>4. /\ start' \in Places /\ start' >= start + len
      /\ len = 0 => start' = start
      /\ start <= end => start' <= end
  BY <1>2, <1>3, NextAvailInBuffer
<1>5. start' \in Nat /\ start' <= HeapSize
  BY <1>1, <1>4 DEF Places
<1>6. FillingAtStart'
  BY <1>2 DEF FillingAtStart
<1>7. CASE len = 0
  <2>1. sent' = sent /\ start' = start
    BY <1>2, <1>4, <1>7
  <2>2. TypeOK'
    BY <1>2, <2>1 DEF IInv, TypeOK, Phases
  <2>3. InUsedPart' /\ InOrder' /\ Tiling'
    BY <1>2, <2>1 DEF IInv, InUsedPart, InOrder, Tiling, After
  <2>. QED BY <1>2, <1>6, <2>1, <2>2, <2>3 DEF IInv
<1>8. CASE len # 0
  <2>. DEFINE n == Len(sent) + 1
              new == [addr |-> start, size |-> len]
  <2>1. new \in Blocks /\ sent \in Seq(Blocks) /\ Len(sent) \in Nat
    BY <1>1, <1>3, <1>8 DEF IInv, TypeOK, Blocks
  <2>2. sent' = Append(sent, new)
    BY <1>2, <1>3, <1>8
  <2>. HIDE DEF new
  <2>3. /\ sent' \in Seq(Blocks) /\ Len(sent') = n /\ sent'[n] = new
        /\ \A i \in 1 .. Len(sent) : sent'[i] = sent[i]
    BY <2>1, <2>2
  <2>4. new.addr = start /\ new.size = len
    BY DEF new
  <2>5. /\ \A i \in 1 .. Len(sent) : After(i)' = After(i)
        /\ NextAvail(sent'[n].addr + sent'[n].size) = start'
    BY <1>2, <1>3, <2>3, <2>4 DEF After
  <2>6. start' > start
    BY <1>3, <1>4, <1>5, <1>8
  <2>7. TypeOK'
    BY <1>1, <1>2, <1>5, <2>1, <2>3 DEF IInv, TypeOK, Phases
  <2>8. \A i \in 1 .. Len(sent) :
          /\ sent[i].addr \in Nat /\ After(i) \in Nat
          /\ IF start <= end THEN sent[i].addr >= end \/ After(i) <= start
                             ELSE sent[i].addr >= end /\ After(i) <= start
    BY BlockFacts DEF IInv, InUsedPart
  <2>9. \A i \in 1 .. Len(sent') : i \in 1 .. Len(sent) \/ i = n
    BY <2>1, <2>3
  <2>10. InUsedPart'
    <3>. SUFFICES ASSUME NEW i \in 1 .. Len(sent')
                  PROVE  IF start' <= end'
                           THEN sent'[i].addr >= end' \/ After(i)' <= start'
                           ELSE sent'[i].addr >= end' /\ After(i)' <= start'
      BY DEF InUsedPart
    <3>1. CASE i = n
      <4>1. sent'[i].addr = start /\ After(i)' = start'
        BY <2>3, <2>4, <2>5, <3>1 DEF After
      <4>. QED BY <1>2, <1>3, <1>4, <1>5, <4>1
    <3>2. CASE i \in 1 .. Len(sent)
      <4>1. sent'[i] = sent[i] /\ After(i)' = After(i)
        BY <2>3, <2>5, <3>2
      <4>. QED BY <1>2, <1>3, <1>4, <1>5, <2>6, <2>8, <3>2, <4>1
    <3>. QED BY <2>9, <3>1, <3>2
  <2>11. InOrder'
    <3>. SUFFICES ASSUME NEW i \in 1 .. Len(sent'), NEW j \in 1 .. Len(sent'), i < j
                  PROVE  \/ After(i)' <= sent'[j].addr
                         \/ sent'[i].addr >= end' /\ After(j)' <= start' /\ start' <= end'
      BY DEF InOrder
    <3>1. i \in 1 .. Len(sent)
      BY <2>1, <2>3
    <3>2. sent'[i] = sent[i] /\ After(i)' = After(i)
      BY <2>3, <2>5, <3>1
    <3>3. CASE j = n
      <4>1. sent'[j].addr = start /\ After(j)' = start'
        BY <2>3, <2>4, <2>5, <3>3 DEF After
      <4>. QED BY <1>2, <1>3, <1>4, <1>5, <2>8, <3>1, <3>2, <4>1
    <3>4. CASE j \in 1 .. Len(sent)
      <4>1. sent'[j] = sent[j] /\ After(j)' = After(j)
        BY <2>3, <2>5, <3>4
      <4>2. \/ After(i) <= sent[j].addr
            \/ sent[i].addr >= end /\ After(j) <= start /\ start <= end
        BY <3>1, <3>4 DEF IInv, InOrder
      <4>3. After(j) \in Nat
        BY <2>8, <3>4
      <4>. QED BY <1>2, <1>3, <1>4, <1>5, <2>6, <3>2, <4>1, <4>2, <4>3
    <3>. QED BY <2>9, <3>3, <3>4
  <2>12. Tiling'
    <3>1. sent' # <<>> /\ Len(sent') - 1 = Len(sent)
      BY <2>1, <2>3
    <3>2. sent'[1].addr = end' \/ (sent'[1].addr = 0 /\ end' = HeapSize)
      <4>1. CASE sent = <<>>
        <5>1. sent'[1] = new
          BY <2>3, <4>1
        <5>. QED BY <1>2, <2>4, <4>1, <5>1 DEF IInv, Tiling
      <4>2. CASE sent # <<>>
        <5>1. sent'[1] = sent[1]
          BY <2>1, <2>3, <4>2
        <5>. QED BY <1>2, <4>2, <5>1 DEF IInv, Tiling
      <4>. QED BY <4>1, <4>2
    <3>3. ASSUME NEW i \in 1 .. Len(sent') - 1
          PROVE  \/ sent'[i + 1].addr = After(i)'
                 \/ sent'[i + 1].addr = 0 /\ After(i)' = HeapSize
      <4>1. i \in 1 .. Len(sent) /\ sent # <<>>
        BY <2>1, <3>1
      <4>2. CASE i = Len(sent)
        <5>1. sent'[i + 1].addr = start
          BY <2>3, <2>4, <4>2
        <5>2. start = After(i) \/ (start = 0 /\ After(i) = HeapSize)
          BY <4>1, <4>2 DEF IInv, Tiling
        <5>. QED BY <2>5, <4>1, <5>1, <5>2
      <4>3. CASE i # Len(sent)
        <5>1. i \in 1 .. Len(sent) - 1 /\ i + 1 \in 1 .. Len(sent)
          BY <2>1, <4>1, <4>3
        <5>2. sent'[i + 1] = sent[i + 1] /\ After(i)' = After(i)
          BY <2>3, <2>5, <4>1, <5>1
        <5>. QED BY <4>1, <5>1, <5>2 DEF IInv, Tiling
      <4>. QED BY <4>2, <4>3
    <3>4. NextAvail(sent'[Len(sent')].addr + sent'[Len(sent')].size) = start'
      BY <1>2, <1>3, <2>3, <2>4
    <3>. QED BY <3>1, <3>2, <3>3, <3>4 DEF Tiling, After
  <2>13. \A i \in 1 .. Len(sent') : sent'[i].addr \in Places \ {HeapSize}
    <3>1. start # HeapSize
      BY <1>1, <1>3
    <3>. QED BY <1>3, <2>3, <2>4, <2>9, <3>1 DEF IInv
  <2>. QED BY <1>2, <1>4, <1>6, <2>7, <2>10, <2>11, <2>12, <2>13 DEF IInv
<1>. QED BY <1>7, <1>8

\* The steps that leave the cursors and the blocks alone.
LEMMA OtherStepsIInv ==
  ASSUME IInv, Request \/ ReturnBlock \/ UNCHANGED vars
  PROVE  IInv'
<1>1. start' = start /\ end' = end /\ block' = block /\ sent' = sent
  BY DEF Request, ReturnBlock, vars
<1>2. InUsedPart' /\ InOrder' /\ Tiling'
  BY <1>1 DEF IInv, InUsedPart, InOrder, Tiling, After
<1>3. TypeOK'
  BY <1>1 DEF IInv, TypeOK, Phases, Request, ReturnBlock, vars
<1>4. FillingAtStart' /\ phase' # "failed"
  BY <1>1 DEF IInv, FillingAtStart, Request, ReturnBlock, vars
<1>. QED BY <1>1, <1>2, <1>3, <1>4 DEF IInv

\* The inductive invariant of the allocator holds in every reachable state.
THEOREM Invariance == Spec => []IInv
<1>1. Init => IInv
  BY InitIInv
<1>2. IInv /\ [Next]_vars => IInv'
  <2>. SUFFICES ASSUME IInv, [Next]_vars PROVE IInv'
    OBVIOUS
  <2>1. CASE GetBlock
    BY <2>1, GetBlockIInv
  <2>2. CASE WaitReleasingMemory
    BY <2>2, WaitReleasingMemoryIInv
  <2>3. CASE \E len \in 0 .. BufferSize : SendBuf(len)
    BY <2>3, SendBufIInv
  <2>4. CASE Request \/ ReturnBlock \/ UNCHANGED vars
    BY <2>4, OtherStepsIInv
  <2>. QED BY <2>1, <2>2, <2>3, <2>4 DEF Next
<1>. QED BY <1>1, <1>2, PTL DEF Spec

-----------------------------------------------------------------------------
(***************************************************************************)
(* What the invariant gives the users of the cache.                        *)
(***************************************************************************)

\* The cursors stay in the heap, the blocks in flight are blocks of it, and no
\* more buffers come back than were sent (receive_backP as returnBlock,
\* ArcvProcessRead.hs:247).
THEOREM TypeCorrect == Spec => []TypeOK
<1>1. IInv => TypeOK
  BY DEF IInv
<1>. QED BY <1>1, Invariance, PTL

\* "addToAvail!" (Utils.hs:996) is never raised.
THEOREM AddToAvailNeverRaised == Spec => []NeverAddToAvail
<1>1. IInv => NeverAddToAvail
  BY DEF IInv, NeverAddToAvail
<1>. QED BY <1>1, Invariance, PTL

\* The buffer being filled overlaps no buffer the packing process may read
\* (receiveBuf, ArcvProcessRead.hs:249).
LEMMA InvariantKeepsFillingPrivate == IInv => FillingIsPrivate
<1>1. ASSUME IInv, phase = "filling" PROVE block + BufferSize <= HeapSize
  <2>1. HeapSize \in Nat /\ BufferSize \in Nat
    BY SizesAssumption
  <2>. QED BY <1>1, <2>1 DEF IInv, TypeOK, FillingAtStart
<1>2. ASSUME IInv, phase = "filling", NEW i \in 1 .. Len(sent)
      PROVE  \/ sent[i].addr + sent[i].size <= block
             \/ block + BufferSize <= sent[i].addr
  <2>1. HeapSize \in Nat /\ BufferSize \in Nat
    BY SizesAssumption
  <2>2. /\ sent[i].addr \in Nat /\ sent[i].size \in Nat /\ After(i) \in Nat
        /\ After(i) >= sent[i].addr + sent[i].size
    BY <1>2, <2>1, BlockFacts DEF IInv
  <2>3. IF start <= end THEN sent[i].addr >= end \/ After(i) <= start
                        ELSE sent[i].addr >= end /\ After(i) <= start
    BY <1>2 DEF IInv, InUsedPart
  <2>4. /\ block = start /\ start \in Nat /\ end \in Nat
        /\ start <= end => start + BufferSize <= end
    BY <1>2, <2>1 DEF IInv, TypeOK, FillingAtStart
  <2>. QED BY <2>1, <2>2, <2>3, <2>4
<1>. QED BY <1>1, <1>2 DEF FillingIsPrivate

\* So in every reachable state the buffer being filled is the reader's own
\* (receiveBuf, ArcvProcessRead.hs:249).
THEOREM FillingNeverOverlaps == Spec => []FillingIsPrivate
BY InvariantKeepsFillingPrivate, Invariance, PTL

\* Blocks in flight are pairwise disjoint (sendBuf, ArcvProcessRead.hs:253).
THEOREM SentNeverOverlaps == Spec => []SentDisjoint
<1>1. ASSUME IInv, NEW i \in 1 .. Len(sent), NEW j \in 1 .. Len(sent), i < j
      PROVE  \/ sent[i].addr + sent[i].size <= sent[j].addr
             \/ sent[j].addr + sent[j].size <= sent[i].addr
  <2>1. BufferSize \in Nat
    BY SizesAssumption
  <2>2. /\ sent[i].addr \in Nat /\ sent[i].size \in Nat /\ After(i) \in Nat
        /\ After(i) >= sent[i].addr + sent[i].size
        /\ sent[j].addr \in Nat /\ sent[j].size \in Nat /\ After(j) \in Nat
        /\ After(j) >= sent[j].addr + sent[j].size
    BY <1>1, <2>1, BlockFacts DEF IInv
  <2>3. \/ After(i) <= sent[j].addr
        \/ sent[i].addr >= end /\ After(j) <= start /\ start <= end
    BY <1>1 DEF IInv, InOrder
  <2>4. start \in Int /\ end \in Int
    BY <1>1 DEF IInv, TypeOK
  <2>. QED BY <2>2, <2>3, <2>4
<1>2. IInv => SentDisjoint
  BY <1>1 DEF SentDisjoint
<1>. QED BY <1>2, Invariance, PTL

\* No byte of the cache has two uses (allocator, Utils.hs:946-1021).
THEOREM NothingEverOverlaps == Spec => []NoOverlap
BY FillingNeverOverlaps, SentNeverOverlaps, PTL DEF NoOverlap

\* When every block has come back the whole heap is free (Utils.hs:998-999).
THEOREM NothingEverLeaks == Spec => []NothingLeaks
<1>1. IInv => NothingLeaks
  <2>. SUFFICES ASSUME IInv, sent = <<>> PROVE Available = HeapSize
    BY DEF NothingLeaks
  <2>1. HeapSize \in Nat
    BY SizesAssumption
  <2>. QED BY <2>1 DEF IInv, Tiling, Available, WrappedStart
<1>. QED BY <1>1, Invariance, PTL

-----------------------------------------------------------------------------
(***************************************************************************)
(* The allocator implements the pool of disjoint areas.                    *)
(***************************************************************************)

\* Areas of which one ends before the other begins share no byte.
LEMMA SeparateAreas ==
  ASSUME NEW a \in Nat, NEW m \in Nat, NEW c \in Nat, NEW n \in Nat,
         c + n <= a \/ a + m <= c,
         NEW b, b \in Pool!Bytes(a, m), b \in Pool!Bytes(c, n)
  PROVE  FALSE
BY DEF Pool!Bytes

\* Every step of the allocator is a step of the pool or leaves it unchanged.
LEMMA StepRefinement ==
  ASSUME IInv, IInv', [Next]_vars
  PROVE  [Pool!Next]_(Pool!vars)
<1>1. CASE Request
  <2>1. Pool!Ask
    BY <1>1 DEF Request, Pool!Ask
  <2>. QED BY <2>1 DEF Pool!Next
<1>2. CASE GetBlock
  <2>1. HeapSize \in Nat /\ BufferSize \in Nat \ {0}
    BY SizesAssumption
  <2>2. /\ phase = "asking" /\ phase' = "filling" /\ block' \in Nat /\ sent' = sent
    BY <1>2, <2>1 DEF GetBlock, IInv, TypeOK
  <2>3. FillingIsPrivate'
    BY InvariantKeepsFillingPrivate, PTL
  <2>4. PICK a \in Nat : a = block'
    BY <2>2
  <2>5. /\ a + BufferSize <= HeapSize
        /\ \A i \in 1 .. Len(sent) : \/ sent[i].addr + sent[i].size <= a
                                     \/ a + BufferSize <= sent[i].addr
    BY <2>2, <2>3, <2>4 DEF FillingIsPrivate
  <2>6. a \in 0 .. HeapSize - BufferSize
    BY <2>1, <2>4, <2>5
  <2>7. Pool!Bytes(a, BufferSize) \cap Pool!Used = {}
    <3>. SUFFICES ASSUME NEW b, b \in Pool!Bytes(a, BufferSize),
                         NEW i \in DOMAIN sent,
                         b \in Pool!Bytes(sent[i].addr, sent[i].size)
                  PROVE  FALSE
      BY DEF Pool!Used
    <3>1. i \in 1 .. Len(sent)
      BY DEF IInv, TypeOK
    <3>2. sent[i].addr \in Nat /\ sent[i].size \in Nat
      BY <2>1, <3>1, BlockFacts DEF IInv
    <3>3. \/ sent[i].addr + sent[i].size <= a
          \/ a + BufferSize <= sent[i].addr
      BY <2>5, <3>1
    <3>. QED BY <2>1, <3>2, <3>3, SeparateAreas
  <2>8. Pool!Grant
    BY <2>2, <2>4, <2>6, <2>7 DEF Pool!Grant
  <2>. QED BY <2>8 DEF Pool!Next
<1>3. CASE WaitReleasingMemory
  <2>1. phase = "asking" /\ phase' = "asking" /\ sent' = Tail(sent) /\ sent # <<>>
    BY <1>3 DEF WaitReleasingMemory, IInv, TypeOK
  <2>2. Pool!Reclaim
    BY <2>1 DEF Pool!Reclaim
  <2>. QED BY <2>2 DEF Pool!Next
<1>4. CASE \E len \in 0 .. BufferSize : SendBuf(len)
  <2>1. PICK len \in 0 .. BufferSize : SendBuf(len)
    BY <1>4
  <2>2. Pool!HandOver
    BY <2>1 DEF SendBuf, Pool!HandOver
  <2>. QED BY <2>2 DEF Pool!Next
<1>5. CASE ReturnBlock \/ UNCHANGED vars
  <2>1. phase' = phase /\ block' = block /\ sent' = sent
    BY <1>5 DEF ReturnBlock, vars
  <2>. QED BY <2>1 DEF Pool!vars
<1>. QED BY <1>1, <1>2, <1>3, <1>4, <1>5 DEF Next

\* The allocator of the code is a correct implementation of the cache's promise.
THEOREM AllocatorImplementsPool == Spec => PoolSpec
<1>1. Init => Pool!Init
  BY DEF Init, Pool!Init
<1>2. IInv /\ IInv' /\ [Next]_vars => [Pool!Next]_(Pool!vars)
  BY StepRefinement
<1>. QED BY <1>1, <1>2, Invariance, PTL DEF Spec, PoolSpec, Pool!Spec

-----------------------------------------------------------------------------
(***************************************************************************)
(* What is left of "getBlock returns" without fairness: the wait is never  *)
(* stuck and it is bounded.                                                *)
(***************************************************************************)

\* An owner that waits has a block to wait for: when getBlock does not find
\* BufferSize bytes, some block is in flight, so receiving from the back channel
\* does not wait for a block nobody holds (Utils.hs:1005-1013).
NeverWaitsInVain == (phase = "asking" /\ Available < BufferSize) => sent # <<>>

\* The steps that can still happen before getBlock has every block back: each
\* block in flight is to be returned, if it was not, and then to be reclaimed.
StepsLeft == 2 * Len(sent) - acked

\* Whatever happens while the owner waits brings it closer to its buffer: no
\* block is sent meanwhile, so every step returns a block or reclaims one.
WaitShortens ==
  [][phase = "asking" /\ phase' = "asking" => StepsLeft' < StepsLeft]_vars

\* getBlock always has something to wait for (Utils.hs:1005-1013).
THEOREM SomethingToWaitFor == Spec => []NeverWaitsInVain
<1>1. NothingLeaks => NeverWaitsInVain
  <2>1. HeapSize \in Nat /\ BufferSize \in Nat /\ BufferSize <= HeapSize
    BY SizesAssumption
  <2>. QED BY <2>1 DEF NothingLeaks, NeverWaitsInVain
<1>. QED BY <1>1, NothingEverLeaks, PTL

\* A wait in getBlock ends after at most StepsLeft steps, a natural number, of
\* the packing process and of getBlock itself (Utils.hs:991-1013).
THEOREM WaitIsBounded == Spec => [](StepsLeft \in Nat) /\ WaitShortens
<1>1. IInv => StepsLeft \in Nat
  <2>. SUFFICES ASSUME IInv PROVE StepsLeft \in Nat
    OBVIOUS
  <2>1. Len(sent) \in Nat /\ acked \in 0 .. Len(sent)
    BY DEF IInv, TypeOK
  <2>. QED BY <2>1 DEF StepsLeft
<1>2. ASSUME IInv, [Next]_vars
      PROVE  [phase = "asking" /\ phase' = "asking" => StepsLeft' < StepsLeft]_vars
  <2>. SUFFICES ASSUME Next, phase = "asking", phase' = "asking"
                PROVE  StepsLeft' < StepsLeft
    BY <1>2
  <2>1. Len(sent) \in Nat /\ acked \in 0 .. Len(sent) /\ sent \in Seq(Blocks)
    BY <1>2 DEF IInv, TypeOK
  <2>2. CASE WaitReleasingMemory
    <3>1. acked > 0 /\ sent' = Tail(sent) /\ acked' = acked - 1
      BY <2>2 DEF WaitReleasingMemory
    <3>2. Len(sent') = Len(sent) - 1
      BY <2>1, <3>1
    <3>. QED BY <2>1, <3>1, <3>2 DEF StepsLeft
  <2>3. CASE ReturnBlock
    <3>1. sent' = sent /\ acked' = acked + 1
      BY <2>3 DEF ReturnBlock
    <3>. QED BY <2>1, <3>1 DEF StepsLeft
  <2>4. CASE Request \/ GetBlock \/ \E len \in 0 .. BufferSize : SendBuf(len)
    BY <2>4 DEF Request, GetBlock, SendBuf
  <2>. QED BY <2>2, <2>3, <2>4 DEF Next
<1>. QED BY <1>1, <1>2, Invariance, PTL DEF Spec, WaitShortens
=============================================================================
