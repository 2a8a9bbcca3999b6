------------------------ MODULE DecompressChain_proof ------------------------
(***************************************************************************)
(* Proofs about the chain of decompressors, for any number of methods, any *)
(* sizes of their reads and writes and any order of their failures.        *)
(***************************************************************************)
EXTENDS DecompressChain, SequenceTheorems, TLAPS

-----------------------------------------------------------------------------
(***************************************************************************)
(* The inductive invariant.                                                *)
(***************************************************************************)
\* A stage: what it reads and writes stays within the bounds, and no read begins
\* after the end was seen.  The first stage reads from no other one.
Local(s) ==
  /\ pc[s] = "writing" => batch[s] > 0 /\ out[s] + batch[s] <= MaxOut
  /\ pc[s] \in {"start", "reading"} => rest[s] # Over
  /\ s = 1 => rest[s] = 0 /\ pc[s] \notin {"start", "reading"}

Sent(s) == link[s] # <<>> /\ Head(link[s]) # NoMoreData

\* Stage s and the one it writes to: an acknowledgement is under way only while the
\* producer waits for it and the consumer for the next buffer; a buffer that was sent
\* or taken keeps the producer waiting; the end comes last.
Joint(s) ==
  /\ acks[s] # <<>> => \/ Ended(s + 1)
                       \/ pc[s] = "waiting" /\ pc[s + 1] = "reading" /\ rest[s + 1] = 0
  /\ pc[s + 1] \in {"codec", "writing", "waiting"} => rest[s + 1] # 0
  /\ rest[s + 1] > 0 /\ ~Ended(s + 1) =>
       pc[s] = "waiting" /\ acks[s] = <<>> /\ link[s] = <<>>
  /\ Sent(s) /\ ~Ended(s + 1) =>
       /\ pc[s] = "waiting" /\ acks[s] = <<>> /\ rest[s + 1] = 0
       /\ Head(link[s]).bytes > 0 /\ Head(link[s]).first = got[s + 1]
  /\ link[s] # <<>> /\ ~Sent(s) => pc[s] = "finished"
  /\ rest[s + 1] = Over => pc[s] = "finished" /\ link[s] = <<>> /\ got[s + 1] = out[s]

\* Every byte that was written was read, is in the hands of the consumer, or is on its
\* way to it.
Balance(s) ==
  ~Ended(s + 1) => out[s] = got[s + 1] + (IF rest[s + 1] > 0 THEN rest[s + 1] ELSE 0)
                                       + (IF Sent(s) THEN Head(link[s]).bytes ELSE 0)

IInv == /\ TypeOK
        /\ \A s \in Stages : Local(s)
        /\ \A s \in Links : Joint(s) /\ Balance(s)

-----------------------------------------------------------------------------
(***************************************************************************)
(* What the types say of one stage and of one link.                        *)
(***************************************************************************)
Places == {"start", "codec", "reading", "writing", "waiting", "ending", "last_word",
           "finished"}

\* The type of every register of one stage.
LEMMA StageTyped ==
  ASSUME TypeOK, NEW s \in Stages
  PROVE  /\ pc[s] \in Places /\ rest[s] \in Over .. MaxBuf /\ rest[s] \in Int
         /\ size[s] \in 0 .. MaxBuf /\ size[s] \in Nat
         /\ room[s] \in 0 .. MaxBuf /\ room[s] \in Nat
         /\ batch[s] \in 0 .. MaxBuf /\ batch[s] \in Nat
         /\ got[s] \in 0 .. MaxOut /\ got[s] \in Nat
         /\ out[s] \in 0 .. MaxOut /\ out[s] \in Nat
BY ParametersAssumption DEF TypeOK, Places, Over

\* The domain of every array, for EXCEPT.
LEMMA Domains ==
  ASSUME TypeOK
  PROVE  /\ DOMAIN pc = Stages /\ DOMAIN rest = Stages /\ DOMAIN size = Stages
         /\ DOMAIN room = Stages /\ DOMAIN batch = Stages
         /\ DOMAIN got = Stages /\ DOMAIN out = Stages
         /\ DOMAIN link = Links /\ DOMAIN acks = Links
BY DEF TypeOK

\* A link joins two different stages.
LEMMA LinkedStages ==
  ASSUME NEW s \in Links
  PROVE  /\ s \in Int /\ s \in Stages /\ s + 1 \in Stages /\ s + 1 # s /\ s # NumStages
         /\ s + 1 > 1
         /\ (s + 1) - 1 = s
BY ParametersAssumption DEF Links, Stages

\* The type of the two channels of one link.
LEMMA LinkTyped ==
  ASSUME TypeOK, NEW s \in Links
  PROVE  /\ acks[s] \in Seq(Refused .. MaxBuf) /\ Len(acks[s]) <= 1
         /\ link[s] \in {<<>>} \union {<<m>> : m \in Messages}
         /\ link[s] # <<>> => /\ Head(link[s]) \in Messages
                              /\ Head(link[s]).bytes \in Nat
BY ParametersAssumption DEF TypeOK, Messages

\* One channel changes, and holds one acknowledgement at most.
LEMMA AckRecorded ==
  ASSUME acks \in [Links -> Seq(Refused .. MaxBuf)], \A s \in Links : Len(acks[s]) <= 1,
         NEW s \in Links, NEW q \in Seq(Refused .. MaxBuf), Len(q) <= 1,
         \/ acks' = acks
         \/ acks' = [acks EXCEPT ![s] = q]
  PROVE  acks' \in [Links -> Seq(Refused .. MaxBuf)] /\ \A t \in Links : Len(acks'[t]) <= 1
OBVIOUS

\* Reading the acknowledgement leaves the channel with at most one.
LEMMA AckTaken ==
  ASSUME NEW S, NEW q \in Seq(S), q # <<>>, Len(q) <= 1
  PROVE  Tail(q) \in Seq(S) /\ Len(Tail(q)) <= 1
<1>1. Tail(q) \in Seq(S) /\ Len(q) \in Nat /\ Len(Tail(q)) = Len(q) - 1
  BY HeadTailProperties, LenProperties
<1>. QED BY <1>1

\* Every stage but the last has a link to its right.
LEMMA Neighbour ==
  ASSUME NEW t \in Stages, t # NumStages
  PROVE  t \in Links
BY ParametersAssumption DEF Links, Stages

\* Every stage but the first has a link to its left.
LEMMA Predecessor ==
  ASSUME NEW t \in Stages, t # 1
  PROVE  t - 1 \in Links /\ (t - 1) + 1 = t
BY ParametersAssumption DEF Links, Stages

-----------------------------------------------------------------------------
(***************************************************************************)
(* A step keeps what neighbours know of each other.                        *)
(***************************************************************************)
\* A step keeps the relation between two neighbours.
LEMMA LinkKept ==
  ASSUME IInv, [Next]_vars, NEW s \in Links
  PROVE  Joint(s)' /\ Balance(s)'
<1>. DEFINE c == s + 1
<1>0. TypeOK
  BY DEF IInv
<1>1. /\ c \in Stages /\ s \in Stages /\ s \in Int /\ c # s /\ s # NumStages /\ c > 1
      /\ c - 1 = s
      /\ Joint(s) /\ Balance(s) /\ Local(s) /\ Local(c)
  BY LinkedStages DEF IInv
<1>2. /\ DOMAIN pc = Stages /\ DOMAIN rest = Stages /\ DOMAIN size = Stages
      /\ DOMAIN room = Stages /\ DOMAIN batch = Stages
      /\ DOMAIN got = Stages /\ DOMAIN out = Stages
      /\ DOMAIN link = Links /\ DOMAIN acks = Links
  BY <1>0, Domains
<1>3. /\ pc[s] \in Places /\ pc[c] \in Places /\ out[s] \in Nat /\ batch[s] \in Nat
      /\ rest[c] \in Int /\ rest[c] >= Over /\ got[c] \in Nat /\ room[c] \in Nat
  BY <1>0, <1>1, StageTyped
<1>4. /\ acks[s] \in Seq(Refused .. MaxBuf) /\ Len(acks[s]) <= 1
      /\ link[s] # <<>> => Head(link[s]) \in Messages /\ Head(link[s]).bytes \in Nat
  BY <1>0, LinkTyped
<1>. HIDE DEF c
<1>5. ASSUME UNCHANGED <<pc[s], pc[c], rest[c], got[c], out[s], link[s], acks[s]>>
      PROVE  Joint(s)' /\ Balance(s)'
  BY <1>1, <1>5 DEF c, Joint, Balance, Sent, Ended
<1>6. CASE Terminate
  BY <1>5, <1>6 DEF Terminate
<1>7. CASE UNCHANGED vars
  BY <1>5, <1>7 DEF vars
<1>8. ASSUME NEW t \in Stages, Stage(t)
      PROVE  Joint(s)' /\ Balance(s)'
  <2>1. CASE FirstRead(t)
    <3>1. CASE t # s /\ t # c
      <4>1. t - 1 # s
        BY <1>1, <3>1 DEF c, Stages
      <4>. QED BY <1>2, <1>5, <2>1, <3>1, <4>1 DEF FirstRead, GoTo
    <3>2. CASE t = s
      BY <1>1, <1>2, <1>3, <1>4, <2>1, <3>2
      DEF c, Joint, Balance, Sent, Ended, Local, Places, FirstRead, GoTo
    <3>3. CASE t = c
      BY <1>1, <1>2, <1>3, <1>4, <2>1, <3>3
      DEF c, Joint, Balance, Sent, Ended, Local, Places, FirstRead, GoTo
    <3>. QED BY <3>1, <3>2, <3>3
  <2>2. CASE Read(t)
    <3>1. CASE t # s /\ t # c
      <4>1. t - 1 # s
        BY <1>1, <3>1 DEF c, Stages
      <4>. QED BY <1>2, <1>5, <2>2, <3>1, <4>1 DEF Read, GoTo
    <3>2. CASE t = s
      BY <1>1, <1>2, <1>3, <1>4, <2>2, <3>2
      DEF c, Joint, Balance, Sent, Ended, Local, Places, Read, GoTo
    <3>3. CASE t = c
      BY <1>1, <1>2, <1>3, <1>4, <2>2, <3>3
      DEF c, Joint, Balance, Sent, Ended, Local, Places, Read, GoTo
    <3>. QED BY <3>1, <3>2, <3>3
  <2>3. CASE Receive(t)
    <3>1. CASE t # s /\ t # c
      <4>1. t - 1 # s
        BY <1>1, <3>1 DEF c, Stages
      <4>2. pc'[s] = pc[s] /\ pc'[c] = pc[c]
        BY <1>1, <1>2, <2>3, <3>1 DEF Receive, GoTo
      <4>3. rest'[c] = rest[c] /\ got'[c] = got[c] /\ out'[s] = out[s]
        BY <1>1, <1>2, <2>3, <3>1 DEF Receive
      <4>4. link'[s] = link[s] /\ acks'[s] = acks[s]
        BY <1>1, <1>2, <2>3, <3>1, <4>1 DEF Receive
      <4>. QED BY <1>5, <4>2, <4>3, <4>4
    <3>2. CASE t = s
      BY <1>1, <1>2, <1>3, <1>4, <2>3, <3>2
      DEF c, Joint, Balance, Sent, Ended, Local, Places, Receive, GoTo
    <3>3. CASE t = c
      <4>1. /\ pc[c] = "reading" /\ rest[c] = 0 /\ link[s] # <<>> /\ link'[s] = <<>>
            /\ UNCHANGED <<pc[s], got[c], out[s], acks[s]>>
        BY <1>1, <1>2, <2>3, <3>3 DEF Receive, GoTo
      <4>2. CASE Head(link[s]) = NoMoreData
        <5>1. rest'[c] = Over /\ pc'[c] = "codec"
          BY <1>1, <1>2, <2>3, <3>3, <4>1, <4>2 DEF Receive, GoTo
        <5>2. pc[s] = "finished" /\ out[s] = got[c] /\ acks[s] = <<>>
          BY <1>1, <1>3, <4>1, <4>2 DEF c, Joint, Balance, Sent, Ended
        <5>. QED BY <1>1, <4>1, <5>1, <5>2 DEF c, Joint, Balance, Sent, Ended, Over
      <4>3. CASE Head(link[s]) # NoMoreData
        <5>1. rest'[c] = Head(link[s]).bytes /\ pc'[c] = pc[c]
          BY <1>1, <1>2, <2>3, <3>3, <4>1, <4>3 DEF Receive
        <5>2. /\ pc[s] = "waiting" /\ acks[s] = <<>> /\ Head(link[s]).bytes > 0
              /\ out[s] = got[c] + Head(link[s]).bytes
          BY <1>1, <1>3, <1>4, <4>1, <4>3 DEF c, Joint, Balance, Sent, Ended
        <5>. QED BY <1>1, <1>3, <1>4, <4>1, <5>1, <5>2
                 DEF c, Joint, Balance, Sent, Ended, Over
      <4>. QED BY <4>2, <4>3
    <3>. QED BY <3>1, <3>2, <3>3
  <2>4. CASE CopyData(t)
    <3>1. CASE t # s /\ t # c
      <4>1. t - 1 # s
        BY <1>1, <3>1 DEF c, Stages
      <4>2. pc'[s] = pc[s] /\ pc'[c] = pc[c]
        BY <1>1, <1>2, <2>4, <3>1 DEF CopyData, GoTo
      <4>3. rest'[c] = rest[c] /\ got'[c] = got[c] /\ out'[s] = out[s]
        BY <1>1, <1>2, <2>4, <3>1 DEF CopyData
      <4>4. link'[s] = link[s] /\ acks'[s] = acks[s]
        BY <1>1, <1>2, <2>4, <3>1, <4>1 DEF CopyData
      <4>. QED BY <1>5, <4>2, <4>3, <4>4
    <3>2. CASE t = s
      BY <1>1, <1>2, <1>3, <1>4, <2>4, <3>2
      DEF c, Joint, Balance, Sent, Ended, Local, Places, CopyData, GoTo
    <3>3. CASE t = c
      <4>1. /\ pc[c] = "reading" /\ rest[c] > 0
            /\ UNCHANGED <<pc[s], link[s], out[s]>>
            /\ rest'[c] = rest[c] - Copied(c) /\ got'[c] = got[c] + Copied(c)
        BY <1>1, <1>2, <2>4, <3>3 DEF CopyData, GoTo
      <4>2. /\ pc[s] = "waiting" /\ acks[s] = <<>> /\ link[s] = <<>>
            /\ out[s] = got[c] + rest[c]
        BY <1>1, <1>3, <4>1 DEF c, Joint, Balance, Sent, Ended
      <4>3. Copied(c) \in 0 .. rest[c]
        BY <1>3, <4>1 DEF Copied
      <4>4. CASE Copied(c) = rest[c]
        <5>1. pc'[c] = "reading"
          BY <2>4, <3>3, <4>1, <4>4 DEF CopyData
        <5>. QED BY <1>1, <1>3, <4>1, <4>2, <4>4, <5>1
                 DEF c, Joint, Balance, Sent, Ended, Over
      <4>5. CASE Copied(c) # rest[c]
        <5>1. pc'[c] = "codec" /\ acks'[s] = acks[s]
          BY <1>1, <1>2, <2>4, <3>3, <4>1, <4>5 DEF CopyData, GoTo
        <5>. QED
          BY <1>1, <1>3, <4>1, <4>2, <4>3, <4>5, <5>1, SMTT(30)
          DEF c, Joint, Balance, Sent, Ended, Over
      <4>. QED BY <4>4, <4>5
    <3>. QED BY <3>1, <3>2, <3>3
  <2>5. CASE Write(t)
    <3>1. CASE t # s /\ t # c
      <4>1. t - 1 # s
        BY <1>1, <3>1 DEF c, Stages
      <4>. QED BY <1>2, <1>5, <2>5, <3>1, <4>1 DEF Write, GoTo
    <3>2. CASE t = s
      BY <1>1, <1>2, <1>3, <1>4, <2>5, <3>2
      DEF c, Joint, Balance, Sent, Ended, Local, Places, Write, GoTo
    <3>3. CASE t = c
      BY <1>1, <1>2, <1>3, <1>4, <2>5, <3>3
      DEF c, Joint, Balance, Sent, Ended, Local, Places, Write, GoTo
    <3>. QED BY <3>1, <3>2, <3>3
  <2>6. CASE SendData(t)
    <3>1. CASE t # s /\ t # c
      <4>1. t - 1 # s
        BY <1>1, <3>1 DEF c, Stages
      <4>. QED BY <1>2, <1>5, <2>6, <3>1, <4>1 DEF SendData, GoTo
    <3>2. CASE t = s
      <4>. DEFINE m == [first |-> out[s], bytes |-> batch[s]]
      <4>1. /\ pc'[s] = "waiting" /\ pc'[c] = pc[c] /\ pc[s] = "writing" /\ link[s] = <<>>
            /\ out'[s] = out[s] + batch[s] /\ link'[s] = <<m>>
            /\ UNCHANGED <<rest[c], got[c], acks[s]>>
        BY <1>1, <1>2, <2>6, <3>2 DEF SendData, GoTo
      <4>2. batch[s] > 0
        BY <1>1, <4>1 DEF Local
      <4>3. Head(link'[s]) = m /\ m # NoMoreData /\ m.first = out[s] /\ m.bytes = batch[s]
        BY <1>3, <4>1, <4>2 DEF NoMoreData
      <4>. HIDE DEF m
      <4>4. ~Ended(c) => acks[s] = <<>> /\ rest[c] = 0 /\ out[s] = got[c]
        BY <1>1, <1>3, <4>1, SMTT(30) DEF c, Joint, Balance, Sent, Ended, Over
      <4>5. rest[c] # Over
        BY <1>1, <4>1 DEF c, Joint
      <4>6. link'[s] # <<>>
        BY <4>1
      <4>7. Joint(s)'
        BY <1>1, <4>1, <4>2, <4>3, <4>4, <4>5, <4>6 DEF c, Joint, Sent, Ended
      <4>8. Balance(s)'
        BY <1>1, <1>3, <4>1, <4>2, <4>3, <4>4, <4>6 DEF c, Balance, Sent, Ended
      <4>. QED BY <4>7, <4>8
    <3>3. CASE t = c
      BY <1>1, <1>2, <1>3, <1>4, <2>6, <3>3
      DEF c, Joint, Balance, Sent, Ended, Local, Places, SendData, GoTo
    <3>. QED BY <3>1, <3>2, <3>3
  <2>7. CASE ReceiveAck(t)
    <3>1. CASE t # s /\ t # c
      <4>1. t - 1 # s
        BY <1>1, <3>1 DEF c, Stages
      <4>. QED BY <1>2, <1>5, <2>7, <3>1, <4>1 DEF ReceiveAck, GoTo
    <3>2. CASE t = s
      BY <1>1, <1>2, <1>3, <1>4, <2>7, <3>2
      DEF c, Joint, Balance, Sent, Ended, Local, Places, ReceiveAck, GoTo
    <3>3. CASE t = c
      BY <1>1, <1>2, <1>3, <1>4, <2>7, <3>3
      DEF c, Joint, Balance, Sent, Ended, Local, Places, ReceiveAck, GoTo
    <3>. QED BY <3>1, <3>2, <3>3
  <2>8. CASE Deliver(t)
    <3>1. CASE t # s /\ t # c
      <4>1. t - 1 # s
        BY <1>1, <3>1 DEF c, Stages
      <4>2. pc'[s] = pc[s] /\ pc'[c] = pc[c]
        BY <1>1, <1>2, <2>8, <3>1 DEF Deliver, GoTo
      <4>3. rest'[c] = rest[c] /\ got'[c] = got[c] /\ out'[s] = out[s]
        BY <1>1, <1>2, <2>8, <3>1 DEF Deliver
      <4>4. link'[s] = link[s] /\ acks'[s] = acks[s]
        BY <1>1, <1>2, <2>8, <3>1, <4>1 DEF Deliver
      <4>. QED BY <1>5, <4>2, <4>3, <4>4
    <3>2. CASE t = s
      BY <1>1, <1>2, <1>3, <1>4, <2>8, <3>2
      DEF c, Joint, Balance, Sent, Ended, Local, Places, Deliver, GoTo
    <3>3. CASE t = c
      BY <1>1, <1>2, <1>3, <1>4, <2>8, <3>3
      DEF c, Joint, Balance, Sent, Ended, Local, Places, Deliver, GoTo
    <3>. QED BY <3>1, <3>2, <3>3
  <2>9. CASE Succeed(t)
    <3>1. CASE t # s /\ t # c
      <4>1. t - 1 # s
        BY <1>1, <3>1 DEF c, Stages
      <4>. QED BY <1>2, <1>5, <2>9, <3>1, <4>1 DEF Succeed, GoTo
    <3>2. CASE t = s
      BY <1>1, <1>2, <1>3, <1>4, <2>9, <3>2
      DEF c, Joint, Balance, Sent, Ended, Local, Places, Succeed, GoTo
    <3>3. CASE t = c
      BY <1>1, <1>2, <1>3, <1>4, <2>9, <3>3
      DEF c, Joint, Balance, Sent, Ended, Local, Places, Succeed, GoTo
    <3>. QED BY <3>1, <3>2, <3>3
  <2>10. CASE Fail(t)
    <3>1. CASE t # s /\ t # c
      <4>1. t - 1 # s
        BY <1>1, <3>1 DEF c, Stages
      <4>. QED BY <1>2, <1>5, <2>10, <3>1, <4>1 DEF Fail, GoTo
    <3>2. CASE t = s
      BY <1>1, <1>2, <1>3, <1>4, <2>10, <3>2
      DEF c, Joint, Balance, Sent, Ended, Local, Places, Fail, GoTo
    <3>3. CASE t = c
      BY <1>1, <1>2, <1>3, <1>4, <2>10, <3>3
      DEF c, Joint, Balance, Sent, Ended, Local, Places, Fail, GoTo
    <3>. QED BY <3>1, <3>2, <3>3
  <2>11. CASE Stop(t)
    <3>1. CASE t # s /\ t # c
      <4>1. t - 1 # s
        BY <1>1, <3>1 DEF c, Stages
      <4>. QED BY <1>2, <1>5, <2>11, <3>1, <4>1 DEF Stop, GoTo
    <3>2. CASE t = s
      BY <1>1, <1>2, <1>3, <1>4, <2>11, <3>2
      DEF c, Joint, Balance, Sent, Ended, Local, Places, Stop, GoTo
    <3>3. CASE t = c
      BY <1>1, <1>2, <1>3, <1>4, <2>11, <3>3
      DEF c, Joint, Balance, Sent, Ended, Local, Places, Stop, GoTo
    <3>. QED BY <3>1, <3>2, <3>3
  <2>12. CASE Refuse(t)
    <3>1. CASE t # s /\ t # c
      <4>1. t - 1 # s
        BY <1>1, <3>1 DEF c, Stages
      <4>. QED BY <1>2, <1>5, <2>12, <3>1, <4>1 DEF Refuse, GoTo
    <3>2. CASE t = s
      BY <1>1, <1>2, <1>3, <1>4, <2>12, <3>2
      DEF c, Joint, Balance, Sent, Ended, Local, Places, Refuse, GoTo
    <3>3. CASE t = c
      BY <1>1, <1>2, <1>3, <1>4, <2>12, <3>3
      DEF c, Joint, Balance, Sent, Ended, Local, Places, Refuse, GoTo
    <3>. QED BY <3>1, <3>2, <3>3
  <2>13. CASE SendEnd(t)
    <3>1. CASE t # s /\ t # c
      <4>1. t - 1 # s
        BY <1>1, <3>1 DEF c, Stages
      <4>. QED BY <1>2, <1>5, <2>13, <3>1, <4>1 DEF SendEnd, GoTo
    <3>2. CASE t = s
      BY <1>1, <1>2, <1>3, <1>4, <2>13, <3>2
      DEF c, Joint, Balance, Sent, Ended, Local, Places, SendEnd, GoTo
    <3>3. CASE t = c
      BY <1>1, <1>2, <1>3, <1>4, <2>13, <3>3
      DEF c, Joint, Balance, Sent, Ended, Local, Places, SendEnd, GoTo
    <3>. QED BY <3>1, <3>2, <3>3
  <2>. QED
    BY <1>8, <2>1, <2>2, <2>3, <2>4, <2>5, <2>6, <2>7, <2>8, <2>9, <2>10, <2>11, <2>12,
       <2>13
    DEF Stage
<1>. QED BY <1>6, <1>7, <1>8 DEF Next

\* A step keeps the types.
LEMMA TypeKept ==
  ASSUME IInv, [Next]_vars
  PROVE  TypeOK'
<1>. USE ParametersAssumption
<1>0. TypeOK
  BY DEF IInv
<1>1. pc \in [Stages -> Places]
  BY <1>0 DEF TypeOK, Places
<1>2. rest \in [Stages -> Over .. MaxBuf]
  BY <1>0 DEF TypeOK, Places
<1>3. size \in [Stages -> 0 .. MaxBuf]
  BY <1>0 DEF TypeOK, Places
<1>4. room \in [Stages -> 0 .. MaxBuf]
  BY <1>0 DEF TypeOK, Places
<1>5. batch \in [Stages -> 0 .. MaxBuf]
  BY <1>0 DEF TypeOK, Places
<1>6. got \in [Stages -> 0 .. MaxOut]
  BY <1>0 DEF TypeOK, Places
<1>7. out \in [Stages -> 0 .. MaxOut]
  BY <1>0 DEF TypeOK, Places
<1>8. link \in [Links -> {<<>>} \union {<<m>> : m \in Messages}]
  BY <1>0 DEF TypeOK, Places
<1>9. acks \in [Links -> Seq(Refused .. MaxBuf)] /\ \A s \in Links : Len(acks[s]) <= 1
  BY <1>0 DEF TypeOK, Places
<1>10. terminated \in BOOLEAN
  BY <1>0 DEF TypeOK, Places
<1>20. ASSUME pc' \in [Stages -> Places],
             rest' \in [Stages -> Over .. MaxBuf],
             size' \in [Stages -> 0 .. MaxBuf],
             room' \in [Stages -> 0 .. MaxBuf],
             batch' \in [Stages -> 0 .. MaxBuf],
             got' \in [Stages -> 0 .. MaxOut],
             out' \in [Stages -> 0 .. MaxOut],
             link' \in [Links -> {<<>>} \union {<<m>> : m \in Messages}],
             acks' \in [Links -> Seq(Refused .. MaxBuf)],
             terminated' \in BOOLEAN,
             \A s \in Links : Len(acks'[s]) <= 1
      PROVE  TypeOK'
  BY <1>20 DEF TypeOK, Places
<1>21. CASE Terminate
  BY <1>1, <1>2, <1>3, <1>4, <1>5, <1>6, <1>7, <1>8, <1>9, <1>10, <1>20, <1>21 DEF Terminate
<1>22. CASE UNCHANGED vars
  BY <1>1, <1>2, <1>3, <1>4, <1>5, <1>6, <1>7, <1>8, <1>9, <1>10, <1>20, <1>22 DEF vars
<1>23. ASSUME NEW t \in Stages, Stage(t)
      PROVE  TypeOK'
  <2>1. CASE FirstRead(t)
    <3>1. pc' \in [Stages -> Places]
      BY <1>1, <2>1 DEF FirstRead, GoTo, Places
    <3>2. room' \in [Stages -> 0 .. MaxBuf]
      BY <1>4, <2>1 DEF FirstRead
    <3>. QED BY <1>2, <1>3, <1>5, <1>6, <1>7, <1>8, <1>9, <1>10, <1>20, <2>1, <3>1, <3>2
             DEF FirstRead
  <2>2. CASE Read(t)
    <3>1. pc' \in [Stages -> Places]
      BY <1>1, <2>2 DEF Read, GoTo, Places
    <3>2. room' \in [Stages -> 0 .. MaxBuf]
      BY <1>4, <2>2 DEF Read
    <3>. QED BY <1>2, <1>3, <1>5, <1>6, <1>7, <1>8, <1>9, <1>10, <1>20, <2>2, <3>1, <3>2
             DEF Read
  <2>3. CASE Receive(t)
    <3>1. pc' \in [Stages -> Places]
      BY <1>1, <2>3 DEF Receive, GoTo, Places
    <3>2. rest' \in [Stages -> Over .. MaxBuf]
      <4>1. t # 1
        BY <2>3 DEF Receive, IInv, Local
      <4>2. t - 1 \in Links /\ (t - 1) + 1 = t
        BY <4>1, Predecessor
      <4>3. link[t - 1] # <<>> => Head(link[t - 1]).bytes \in 0 .. MaxBuf
        BY <1>8, <4>2 DEF Messages
      <4>. QED BY <1>2, <2>3, <4>3 DEF Receive, Over
    <3>3. size' \in [Stages -> 0 .. MaxBuf]
      <4>1. t # 1
        BY <2>3 DEF Receive, IInv, Local
      <4>2. t - 1 \in Links /\ (t - 1) + 1 = t
        BY <4>1, Predecessor
      <4>3. link[t - 1] # <<>> => Head(link[t - 1]).bytes \in 0 .. MaxBuf
        BY <1>8, <4>2 DEF Messages
      <4>. QED BY <1>3, <2>3, <4>3 DEF Receive
    <3>4. link' \in [Links -> {<<>>} \union {<<m>> : m \in Messages}]
      BY <1>8, <2>3 DEF Receive
    <3>. QED BY <1>4, <1>5, <1>6, <1>7, <1>9, <1>10, <1>20, <2>3, <3>1, <3>2, <3>3, <3>4
             DEF Receive
  <2>4. CASE CopyData(t)
    <3>1. pc' \in [Stages -> Places]
      BY <1>1, <2>4 DEF CopyData, GoTo, Places
    <3>2. rest' \in [Stages -> Over .. MaxBuf]
      <4>1. Copied(t) \in 0 .. rest[t]
        BY <1>2, <1>4, <2>4 DEF CopyData, Copied, Over
      <4>. QED BY <1>2, <2>4, <4>1 DEF CopyData, Over
    <3>3. room' \in [Stages -> 0 .. MaxBuf]
      <4>1. Copied(t) \in 0 .. room[t]
        BY <1>2, <1>4, <2>4 DEF CopyData, Copied, Over
      <4>. QED BY <1>4, <2>4, <4>1 DEF CopyData
    <3>4. got' \in [Stages -> 0 .. MaxOut]
      <4>1. t # 1
        BY <2>4 DEF CopyData, IInv, Local
      <4>2. t - 1 \in Links /\ (t - 1) + 1 = t
        BY <4>1, Predecessor
      <4>3. Copied(t) \in 0 .. rest[t]
        BY <1>2, <1>4, <2>4 DEF CopyData, Copied, Over
      <4>4. out[t - 1] = got[t] + rest[t]
        <5>1. Joint(t - 1) /\ Balance(t - 1)
          BY <4>2 DEF IInv
        <5>2. pc[t] = "reading" /\ rest[t] > 0 /\ rest[t] \in Int /\ got[t] \in Int
          BY <1>2, <1>6, <2>4 DEF CopyData, Over
        <5>3. link[t - 1] = <<>>
          BY <4>2, <5>1, <5>2 DEF Joint, Ended
        <5>. QED BY <4>2, <5>1, <5>2, <5>3 DEF Balance, Sent, Ended
      <4>5. out[t - 1] \in 0 .. MaxOut
        BY <1>7, <4>2, LinkedStages
      <4>6. got[t] + Copied(t) \in 0 .. MaxOut
        BY <1>2, <1>6, <4>3, <4>4, <4>5 DEF Over
      <4>. QED BY <1>6, <2>4, <4>6 DEF CopyData
    <3>5. acks' \in [Links -> Seq(Refused .. MaxBuf)] /\ \A s \in Links : Len(acks'[s]) <= 1
      <4>1. t # 1
        BY <2>4 DEF CopyData, IInv, Local
      <4>2. t - 1 \in Links /\ (t - 1) + 1 = t
        BY <4>1, Predecessor
      <4>3. acks[t - 1] = <<>>
        <5>1. Joint(t - 1)
          BY <4>2 DEF IInv
        <5>. QED BY <4>2, <5>1, <2>4 DEF CopyData, Joint, Ended
      <4>4. size[t] \in Refused .. MaxBuf
        BY <1>3 DEF Refused
      <4>5. /\ Append(acks[t - 1], size[t]) \in Seq(Refused .. MaxBuf)
            /\ Len(Append(acks[t - 1], size[t])) = 1
        BY <4>3, <4>4
      <4>6. \/ acks' = acks
            \/ acks' = [acks EXCEPT ![t - 1] = Append(acks[t - 1], size[t])]
        BY <2>4 DEF CopyData
      <4>. DEFINE q == Append(acks[t - 1], size[t])
      <4>7. q \in Seq(Refused .. MaxBuf) /\ Len(q) <= 1
        BY <4>5
      <4>8. acks' = acks \/ acks' = [acks EXCEPT ![t - 1] = q]
        BY <4>6
      <4>. HIDE DEF q
      <4>. QED BY <1>9, <4>2, <4>7, <4>8, AckRecorded
    <3>. QED BY <1>3, <1>5, <1>7, <1>8, <1>10, <1>20, <2>4, <3>1, <3>2, <3>3, <3>4, <3>5
             DEF CopyData
  <2>5. CASE Write(t)
    <3>1. pc' \in [Stages -> Places]
      BY <1>1, <2>5 DEF Write, GoTo, Places
    <3>2. batch' \in [Stages -> 0 .. MaxBuf]
      BY <1>5, <2>5 DEF Write
    <3>. QED BY <1>2, <1>3, <1>4, <1>6, <1>7, <1>8, <1>9, <1>10, <1>20, <2>5, <3>1, <3>2
             DEF Write
  <2>6. CASE SendData(t)
    <3>1. pc' \in [Stages -> Places]
      BY <1>1, <2>6 DEF SendData, GoTo, Places
    <3>2. link' \in [Links -> {<<>>} \union {<<m>> : m \in Messages}]
      <4>1. t \in Links
        BY <2>6, Neighbour DEF SendData
      <4>2. [first |-> out[t], bytes |-> batch[t]] \in Messages
        BY <1>5, <1>7 DEF Messages
      <4>. QED BY <1>8, <2>6, <4>1, <4>2 DEF SendData
    <3>3. out' \in [Stages -> 0 .. MaxOut]
      <4>1. out[t] + batch[t] \in 0 .. MaxOut
        BY <1>5, <1>7, <2>6 DEF SendData, IInv, Local
      <4>. QED BY <1>7, <2>6, <4>1 DEF SendData
    <3>. QED BY <1>2, <1>3, <1>4, <1>5, <1>6, <1>9, <1>10, <1>20, <2>6, <3>1, <3>2, <3>3
             DEF SendData
  <2>7. CASE ReceiveAck(t)
    <3>1. pc' \in [Stages -> Places]
      BY <1>1, <2>7 DEF ReceiveAck, GoTo, Places
    <3>2. acks' \in [Links -> Seq(Refused .. MaxBuf)] /\ \A s \in Links : Len(acks'[s]) <= 1
      <4>1. CASE t \in Links
        <5>1. acks[t] \in Seq(Refused .. MaxBuf) /\ acks[t] # <<>> /\ Len(acks[t]) <= 1
          BY <1>9, <2>7, <4>1 DEF ReceiveAck
        <5>2. Tail(acks[t]) \in Seq(Refused .. MaxBuf) /\ Len(Tail(acks[t])) <= 1
          BY <5>1, AckTaken
        <5>3. acks' = [acks EXCEPT ![t] = Tail(acks[t])]
          BY <2>7 DEF ReceiveAck
        <5>. QED BY <1>9, <4>1, <5>2, <5>3, AckRecorded
      <4>2. CASE t \notin Links
        BY <1>9, <2>7, <4>2 DEF ReceiveAck
      <4>. QED BY <4>1, <4>2
    <3>. QED BY <1>2, <1>3, <1>4, <1>5, <1>6, <1>7, <1>8, <1>10, <1>20, <2>7, <3>1, <3>2
             DEF ReceiveAck
  <2>8. CASE Deliver(t)
    <3>1. pc' \in [Stages -> Places]
      BY <1>1, <2>8 DEF Deliver, GoTo, Places
    <3>2. out' \in [Stages -> 0 .. MaxOut]
      <4>1. out[t] + batch[t] \in 0 .. MaxOut
        BY <1>5, <1>7, <2>8 DEF Deliver, IInv, Local
      <4>. QED BY <1>7, <2>8, <4>1 DEF Deliver
    <3>. QED BY <1>2, <1>3, <1>4, <1>5, <1>6, <1>8, <1>9, <1>10, <1>20, <2>8, <3>1, <3>2
             DEF Deliver
  <2>9. CASE Succeed(t)
    <3>1. pc' \in [Stages -> Places]
      BY <1>1, <2>9 DEF Succeed, GoTo, Places
    <3>. QED BY <1>2, <1>3, <1>4, <1>5, <1>6, <1>7, <1>8, <1>9, <1>10, <1>20, <2>9, <3>1
             DEF Succeed
  <2>10. CASE Fail(t)
    <3>1. pc' \in [Stages -> Places]
      BY <1>1, <2>10 DEF Fail, GoTo, Places
    <3>2. terminated' \in BOOLEAN
      BY <1>10, <2>10 DEF Fail
    <3>. QED BY <1>2, <1>3, <1>4, <1>5, <1>6, <1>7, <1>8, <1>9, <1>20, <2>10, <3>1, <3>2
             DEF Fail
  <2>11. CASE Stop(t)
    <3>1. pc' \in [Stages -> Places]
      BY <1>1, <2>11 DEF Stop, GoTo, Places
    <3>. QED BY <1>2, <1>3, <1>4, <1>5, <1>6, <1>7, <1>8, <1>9, <1>10, <1>20, <2>11, <3>1
             DEF Stop
  <2>12. CASE Refuse(t)
    <3>1. pc' \in [Stages -> Places]
      BY <1>1, <2>12 DEF Refuse, GoTo, Places
    <3>2. acks' \in [Links -> Seq(Refused .. MaxBuf)] /\ \A s \in Links : Len(acks'[s]) <= 1
      <4>1. CASE t = 1
        BY <1>9, <2>12, <4>1 DEF Refuse
      <4>2. CASE t # 1
        <5>1. t - 1 \in Links /\ (t - 1) + 1 = t
          BY <4>2, Predecessor
        <5>2. acks[t - 1] = <<>>
          BY <5>1, <2>12 DEF Refuse, IInv, Joint, Ended
        <5>3. Refused \in Refused .. MaxBuf
          BY DEF Refused
        <5>. QED BY <1>9, <2>12, <5>1, <5>2, <5>3 DEF Refuse
      <4>. QED BY <4>1, <4>2
    <3>. QED BY <1>2, <1>3, <1>4, <1>5, <1>6, <1>7, <1>8, <1>10, <1>20, <2>12, <3>1, <3>2
             DEF Refuse
  <2>13. CASE SendEnd(t)
    <3>1. pc' \in [Stages -> Places]
      BY <1>1, <2>13 DEF SendEnd, GoTo, Places
    <3>2. link' \in [Links -> {<<>>} \union {<<m>> : m \in Messages}]
      <4>1. t < NumStages => t \in Links
        BY Neighbour DEF Stages
      <4>2. NoMoreData \in Messages
        BY DEF NoMoreData, Messages
      <4>. QED BY <1>8, <2>13, <4>1, <4>2 DEF SendEnd
    <3>. QED BY <1>2, <1>3, <1>4, <1>5, <1>6, <1>7, <1>9, <1>10, <1>20, <2>13, <3>1, <3>2
             DEF SendEnd
  <2>. QED
    BY <1>23, <2>1, <2>2, <2>3, <2>4, <2>5, <2>6, <2>7, <2>8, <2>9, <2>10, <2>11, <2>12,
       <2>13
    DEF Stage
<1>. QED BY <1>21, <1>22, <1>23 DEF Next

\* A step keeps what concerns one stage.
LEMMA LocalKept ==
  ASSUME IInv, [Next]_vars, NEW s \in Stages
  PROVE  Local(s)'
<1>0. TypeOK
  BY DEF IInv
<1>1. Local(s) /\ s \in Int
  BY DEF IInv, Stages
<1>2. /\ DOMAIN pc = Stages /\ DOMAIN rest = Stages /\ DOMAIN batch = Stages
      /\ DOMAIN out = Stages
  BY <1>0, Domains
<1>3. rest[s] \in Int /\ out[s] \in Nat /\ pc[s] \in Places
  BY <1>0, StageTyped
<1>4. ASSUME UNCHANGED <<pc[s], rest[s], batch[s], out[s]>>
      PROVE  Local(s)'
  BY <1>1, <1>4 DEF Local
<1>5. CASE Terminate
  BY <1>4, <1>5 DEF Terminate
<1>6. CASE UNCHANGED vars
  BY <1>4, <1>6 DEF vars
<1>7. ASSUME NEW t \in Stages, Stage(t)
      PROVE  Local(s)'
  <2>1. CASE FirstRead(t)
    BY <1>1, <1>2, <1>3, <2>1 DEF Local, Places, FirstRead, GoTo
  <2>2. CASE Read(t)
    BY <1>1, <1>2, <1>3, <2>2 DEF Local, Places, Read, GoTo
  <2>3. CASE Receive(t)
    <3>1. CASE t # s
      <4>1. pc'[s] = pc[s] /\ rest'[s] = rest[s]
        BY <1>2, <2>3, <3>1 DEF Receive, GoTo
      <4>. QED BY <1>4, <2>3, <4>1 DEF Receive
    <3>2. CASE t = s
      <4>1. s # 1
        BY <1>1, <2>3, <3>2 DEF Receive, Local
      <4>2. s - 1 \in Links
        BY <4>1, Predecessor
      <4>3. link[s - 1] # <<>> => Head(link[s - 1]).bytes \in Nat
        BY <1>0, <4>2, LinkTyped
      <4>4. pc'[s] = "codec" \/ (rest'[s] \in Nat /\ pc'[s] = "reading")
        BY <1>2, <2>3, <3>2, <4>3 DEF Receive, GoTo
      <4>. QED BY <4>1, <4>4 DEF Local, Over
    <3>. QED BY <3>1, <3>2
  <2>4. CASE CopyData(t)
    <3>1. CASE t # s
      <4>1. pc'[s] = pc[s] /\ rest'[s] = rest[s]
        BY <1>2, <2>4, <3>1 DEF CopyData, GoTo
      <4>. QED BY <1>4, <2>4, <4>1 DEF CopyData
    <3>2. CASE t = s
      <4>1. s # 1
        BY <1>1, <2>4, <3>2 DEF CopyData, Local
      <4>2. room[s] \in Nat
        BY <1>0, StageTyped
      <4>3. Copied(s) \in 0 .. rest[s]
        BY <1>3, <4>2, <2>4, <3>2 DEF CopyData, Copied
      <4>4. rest'[s] \in Nat
        BY <1>2, <1>3, <2>4, <3>2, <4>3 DEF CopyData
      <4>5. pc'[s] \in {"codec", "reading"}
        BY <1>2, <2>4, <3>2 DEF CopyData, GoTo
      <4>. QED BY <4>1, <4>4, <4>5 DEF Local, Over
    <3>. QED BY <3>1, <3>2
  <2>5. CASE Write(t)
    <3>1. CASE t # s
      BY <1>2, <1>4, <2>5, <3>1 DEF Write, GoTo
    <3>2. CASE t = s
      <4>1. PICK n \in 1 .. MaxBuf :
              out[s] + n <= MaxOut /\ batch' = [batch EXCEPT ![s] = n]
        BY <2>5, <3>2 DEF Write
      <4>2. batch'[s] = n /\ pc'[s] = "writing" /\ UNCHANGED <<out, rest>>
        BY <1>2, <2>5, <3>2, <4>1 DEF Write, GoTo
      <4>. QED BY <1>1, <4>1, <4>2 DEF Local
    <3>. QED BY <3>1, <3>2
  <2>6. CASE SendData(t)
    BY <1>1, <1>2, <1>3, <2>6 DEF Local, Places, SendData, GoTo
  <2>7. CASE ReceiveAck(t)
    BY <1>1, <1>2, <1>3, <2>7 DEF Local, Places, ReceiveAck, GoTo
  <2>8. CASE Deliver(t)
    BY <1>1, <1>2, <1>3, <2>8 DEF Local, Places, Deliver, GoTo
  <2>9. CASE Succeed(t)
    BY <1>1, <1>2, <1>3, <2>9 DEF Local, Places, Succeed, GoTo
  <2>10. CASE Fail(t)
    BY <1>1, <1>2, <1>3, <2>10 DEF Local, Places, Fail, GoTo
  <2>11. CASE Stop(t)
    BY <1>1, <1>2, <1>3, <2>11 DEF Local, Places, Stop, GoTo
  <2>12. CASE Refuse(t)
    BY <1>1, <1>2, <1>3, <2>12 DEF Local, Places, Refuse, GoTo
  <2>13. CASE SendEnd(t)
    BY <1>1, <1>2, <1>3, <2>13 DEF Local, Places, SendEnd, GoTo
  <2>. QED
    BY <1>7, <2>1, <2>2, <2>3, <2>4, <2>5, <2>6, <2>7, <2>8, <2>9, <2>10, <2>11, <2>12,
       <2>13
    DEF Stage
<1>. QED BY <1>5, <1>6, <1>7 DEF Next

-----------------------------------------------------------------------------
(***************************************************************************)
(* The theorems.                                                           *)
(***************************************************************************)
\* The invariant holds whatever the methods read and write and whichever fails.
THEOREM Invariance == Spec => []IInv
<1>1. Init => IInv
  <2>1. SUFFICES ASSUME Init PROVE IInv
    OBVIOUS
  <2>2. TypeOK
    <3>1. <<>> \in Seq(Refused .. MaxBuf) /\ Len(<<>>) <= 1
      OBVIOUS
    <3>2. 0 \in 0 .. MaxBuf /\ 0 \in 0 .. MaxOut /\ 0 \in Over .. MaxBuf
      BY ParametersAssumption DEF Over
    <3>. QED BY <2>1, <3>1, <3>2 DEF Init, TypeOK
  <2>3. \A s \in Stages : Local(s)
    BY <2>1 DEF Init, Local, Over
  <2>4. ASSUME NEW s \in Links
        PROVE  Joint(s) /\ Balance(s)
    <3>1. s \in Stages /\ s + 1 \in Stages /\ s + 1 > 1 /\ s + 1 # 1
      BY LinkedStages
    <3>. QED BY <2>1, <3>1 DEF Init, Joint, Balance, Sent, Ended, Over
  <2>. QED BY <2>2, <2>3, <2>4 DEF IInv
<1>2. IInv /\ [Next]_vars => IInv'
  <2>1. SUFFICES ASSUME IInv, [Next]_vars PROVE IInv'
    OBVIOUS
  <2>2. \A s \in Stages : Local(s)'
    BY <2>1, LocalKept
  <2>3. \A s \in Links : Joint(s)' /\ Balance(s)'
    BY <2>1, LinkKept
  <2>. QED BY <2>1, <2>2, <2>3, TypeKept DEF IInv
<1>. QED BY <1>1, <1>2, PTL DEF Spec

\* Every variable has its type: no stage is sent more than one acknowledgement before
\* it takes it (receive_backP).
THEOREM TypeCorrect == Spec => []TypeOK
<1>1. IInv => TypeOK
  BY DEF IInv
<1>. QED BY <1>1, Invariance, PTL

\* No producer goes on while its consumer still reads from its buffer, and no method
\* runs without a buffer before the end was seen (resendData, read_data).
THEOREM BufferNeverOverwritten == Spec => []BufferIntact
<1>1. IInv => BufferIntact
  BY DEF IInv, Joint, BufferIntact
<1>. QED BY <1>1, Invariance, PTL

\* Each stage reads exactly what the one before it wrote: in order, without a gap, and
\* all of it when it sees the end (read_data).
THEOREM NothingLostBetweenStages == Spec => []InputComplete
<1>1. IInv => InputComplete
  BY DEF IInv, Joint, Sent, InputComplete
<1>. QED BY <1>1, Invariance, PTL
=============================================================================
