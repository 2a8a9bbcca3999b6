------------------------ MODULE SrepBackground_proof ------------------------
(***************************************************************************)
(* Proofs about the threads of srep's compression, for any number of       *)
(* blocks, any size of the dictionary and any faults.                      *)
(***************************************************************************)
EXTENDS SrepBackground, TLAPS

-----------------------------------------------------------------------------
(***************************************************************************)
(* The inductive invariant.  It counts blocks on their way: read, given to *)
(* the main thread, compressed, given back, taken over.                    *)
(***************************************************************************)

\* The last block that was read, and the last that was given to the main thread.
ReadIn   == IF bpc \in {"read", "prepare"} THEN n - 1 ELSE n
Released == IF bpc \in {"read", "prepare", "await", "release"} THEN n - 1 ELSE n

\* The last block whose output the background thread has waited for.
Awaited == IF bpc \in {"read", "prepare", "await"} /\ n > 1 THEN n - 2 ELSE n - 1

\* The last block whose output the main thread has given back, and the last one whose
\* matches are in a set.
Delivered  == IF mpc \in {"read", "written", "store"} \/ len = 0 THEN len ELSE len - 1
Compressed == IF mpc = "write" THEN len ELSE Delivered

\* What the places of the threads say of each other.  The background thread ends
\* when it is done, has recorded an error or met matches that do not fit, and nothing is
\* final before it ended.
Places ==
  /\ errcode => bpc \in {"finish", "ended"}
  /\ BgThreadFinished \/ mpc \in {"final", "second"} \/ result = "ok" => bpc = "ended"
  /\ mpc = "second" \/ result = "ok" => ~errcode
  /\ result = "none" <=> mpc \notin {"cleanup", "returned"}
  /\ bpc \in {"finish", "ended"} /\ ~errcode /\ ~bad => n = end + 1
  /\ n <= end + 1
  /\ bad => bpc \in {"finish", "ended"}
  /\ bpc = "await" => n > 1
  /\ bpc = "save" => n > 1 /\ mode # "future"

\* The block in hand, and the list of matches.
Hand ==
  /\ mpc = "head" => len = 0
  /\ mpc = "read" => len <= end
  /\ mpc = "check" /\ ~errcode => len \in 1 .. end + 1
  /\ mpc \in {"compress", "write", "written", "store"} => len \in 1 .. end
  /\ mpc \in {"write", "written", "store"} => stat[k] = len
  /\ mpc \in {"wait", "final", "second"} => len > end
  /\ mpc = "store" => mode # "plain"
  /\ mode # "plain" =>
       /\ mpc \in {"head", "read"} => Len(store) = len
       /\ mpc = "check" /\ ~errcode => Len(store) = len - 1
       /\ mpc \in {"compress", "write", "written", "store"} => Len(store) = len - 1
       /\ mpc \in {"wait", "final", "second"} \/ result = "ok" => Len(store) = end

\* As long as there is no error an event is set when its thread is one block ahead.
Signals ==
  ~errcode => /\ Released \in {len, len + 1} /\ (ReadDone <=> Released = len + 1)
              /\ Delivered \in {Awaited, Awaited + 1}
              /\ WriteReady <=> Delivered = Awaited + 1
              /\ k = len % 2

\* As long as there is no error the sets hold the last two blocks, and the ring all
\* blocks that are not being overwritten.
Contents ==
  ~errcode => /\ \A b \in {ReadIn - 1, ReadIn} : b > 0 =>
                   block[b % 2] = b /\ prepared[b % 2] = b
              /\ \A b \in {Compressed - 1, Compressed} : b > 0 => stat[b % 2] = b
              /\ \A b \in 1 .. ReadIn : b <= end /\ b > n - dictsize =>
                   dict[Part(b)] = b

\* What has come out.
Output ==
  /\ \A b \in DOMAIN out : /\ out[b].data = b /\ out[b].matches = b
                           /\ mode # "future" => out[b].digest = b
  /\ \A b \in DOMAIN store : store[b].data = b /\ store[b].matches = b
  /\ ~errcode /\ ~bad /\ mode # "future" =>
       Len(out) = IF bpc \in {"finish", "ended"} \/ n = 1 THEN n - 1 ELSE n - 2
  /\ result = "ok" /\ ~bad => Len(out) = end

IInv == TypeOK /\ Places /\ Hand /\ Signals /\ Contents /\ Output /\ DictionaryIntact

-----------------------------------------------------------------------------
(***************************************************************************)
(* The ring.                                                               *)
(***************************************************************************)
\* Every block has a part of the ring (buf_offset, io.cpp:141).
LEMMA PartInRing ==
  ASSUME NEW b \in Int
  PROVE  Part(b) \in Ring
<1>1. dictsize \in Nat \ {0}
  BY ParametersAssumption DEF dictsize, BUFFERS
<1>. QED BY <1>1, SMTT(30) DEF Part, Ring

\* Two blocks that are less than the size of the ring apart have different parts.
LEMMA PartsDiffer ==
  ASSUME NEW b \in Nat \ {0}, NEW c \in Nat \ {0}, b < c, c - b < dictsize
  PROVE  Part(b) # Part(c)
<1>. DEFINE q == (b - 1) \div dictsize
            r == (c - 1) \div dictsize
<1>1. dictsize \in Nat \ {0}
  BY ParametersAssumption DEF dictsize, BUFFERS
<1>2. /\ q \in Int /\ b - 1 = dictsize * q + Part(b)
      /\ r \in Int /\ c - 1 = dictsize * r + Part(c)
      /\ Part(b) \in Int /\ Part(c) \in Int
  BY <1>1, SMTT(30) DEF Part
<1>3. SUFFICES ASSUME Part(b) = Part(c) PROVE FALSE
  OBVIOUS
<1>. HIDE DEF q, r
<1>4. c - b = dictsize * (r - q)
  BY <1>2, <1>3, <1>1, SMTT(30)
<1>5. r - q >= 1
  <2>1. SUFFICES ASSUME r - q <= 0 PROVE FALSE
    BY <1>2
  <2>2. dictsize * (r - q) <= 0
    BY <1>1, <1>2, <2>1, SMTT(30)
  <2>. QED BY <1>4, <2>2
<1>6. dictsize * (r - q) >= dictsize
  BY <1>1, <1>2, <1>5, SMTT(30)
<1>. QED BY <1>1, <1>4, <1>6

-----------------------------------------------------------------------------
(***************************************************************************)
(* What an IInv state says of the blocks on their way.                     *)
(***************************************************************************)
\* The main thread gets the next block, in the other set (read, io.cpp:117-126).
LEMMA NextBlockRead ==
  ASSUME IInv, Read, ~errcode
  PROVE  len' = len + 1 /\ k' = len' % 2 /\ len' \in 1 .. end + 1
<1>1. Released = len + 1 /\ k = len % 2
  BY DEF IInv, Signals, Read
<1>2. Released \in {ReadIn - 1, ReadIn} /\ Released \in 1 .. end + 1
  BY <1>1, ParametersAssumption DEF IInv, TypeOK, Places, Blocks, Released, ReadIn
<1>3. block[Released % 2] = Released
  BY <1>2 DEF IInv, Contents
<1>4. (k + 1) % 2 = Released % 2
  BY <1>1, ParametersAssumption DEF IInv, TypeOK, Blocks
<1>5. len' = Released /\ k' = Released % 2
  BY <1>3, <1>4 DEF Read, BUFFERS
<1>. QED BY <1>1, <1>2, <1>5

\* While the main thread has a block in hand that it did not give back, the background
\* thread has taken over the one before and given it no other.
LEMMA BlockInHand ==
  ASSUME TypeOK, Hand, Signals, ~errcode, mpc \in {"check", "compress", "write"}
  PROVE  /\ len \in 1 .. NumBlocks + 1 /\ Released = len
         /\ Awaited = len - 1 /\ ~WriteReady
         /\ n \in {len, len + 1} /\ ReadIn \in {len, len + 1}
BY ParametersAssumption
   DEF TypeOK, Hand, Signals, Blocks, Released, Awaited, Delivered, ReadIn

\* When the output of a block was taken over, no later block has been compressed but
\* the one that was read meanwhile.
LEMMA BlockToSave ==
  ASSUME IInv, bpc = "save"
  PROVE  /\ n \in 2 .. end + 1
         /\ block[(n - 1) % 2] = n - 1 /\ prepared[(n - 1) % 2] = n - 1
         /\ stat[(n - 1) % 2] = n - 1
         /\ dict[Part(n - 1)] = n - 1
         /\ mode # "future" /\ Len(out) = n - 2
<1>. USE ParametersAssumption
<1>1. n \in 2 .. end + 1 /\ ~errcode /\ ~bad /\ mode # "future"
  BY DEF IInv, TypeOK, Places
<1>2. ReadIn = n
  BY DEF ReadIn
<1>3. block[(n - 1) % 2] = n - 1 /\ prepared[(n - 1) % 2] = n - 1
  BY <1>1, <1>2 DEF IInv, Contents
<1>4. n - 1 \in {Compressed - 1, Compressed}
  BY <1>1
     DEF IInv, TypeOK, Hand, Signals, Blocks, Released, Awaited, Delivered, Compressed
<1>5. stat[(n - 1) % 2] = n - 1
  BY <1>1, <1>4 DEF IInv, Contents
<1>6. dict[Part(n - 1)] = n - 1
  <2>1. n - 1 \in 1 .. ReadIn /\ n - 1 <= end /\ n - 1 > n - dictsize
    BY <1>1, <1>2 DEF IInv, TypeOK, dictsize, BUFFERS
  <2>. QED BY <1>1, <2>1 DEF IInv, Contents
<1>. QED BY <1>1, <1>3, <1>5, <1>6 DEF IInv, Output

\* What is in the ring next to a later block is in it next to an earlier one.
LEMMA LaterWindow ==
  ASSUME NEW i \in Nat, NEW j \in Nat, i <= j, NEW size \in Nat,
         NEW b \in Nat, b > j - size
  PROVE  b > i - size
OBVIOUS

\* Two blocks in a row are in different sets.
LEMMA SetsDiffer ==
  ASSUME NEW b \in Nat \ {0}
  PROVE  (b - 1) % 2 # b % 2
OBVIOUS

\* The blocks that were read are blocks.
LEMMA ReadInTyped ==
  ASSUME TypeOK
  PROVE  ReadIn \in 0 .. NumBlocks + 1 /\ ReadIn \in {n - 1, n}
BY ParametersAssumption DEF TypeOK, ReadIn

-----------------------------------------------------------------------------
(***************************************************************************)
(* A step keeps each part of the invariant.                                *)
(***************************************************************************)
\* A step keeps the types.
LEMMA TypeKept ==
  ASSUME IInv, [Next]_vars
  PROVE  TypeOK'
<1>. USE ParametersAssumption DEF IInv, TypeOK, Hand, Places
<1>1. CASE BeginRead /\ mode' = mode
  <2>1. dict' \in [Ring -> 0 .. NumBlocks]
    <3>1. 0 \in 0 .. NumBlocks
      OBVIOUS
    <3>. QED BY <1>1, <3>1 DEF BeginRead, Torn
  <2>. QED BY <1>1, <2>1 DEF BeginRead, sets, events, bg, lost, main
<1>2. CASE EndRead /\ mode' = mode
  <2>1. n \in Blocks /\ (n <= end => n \in 0 .. NumBlocks)
    BY DEF Blocks
  <2>2. dict' \in [Ring -> 0 .. NumBlocks]
    BY <1>2, <2>1 DEF EndRead
  <2>3. block' \in [Sets -> Blocks] /\ prepared' \in [Sets -> Blocks]
    BY <1>2, <2>1 DEF EndRead
  <2>. QED BY <1>2, <2>2, <2>3 DEF EndRead, sets, events, bg, lost, main
<1>3. CASE ReadTooMuch /\ mode' = mode
  <2>1. n \in Blocks
    BY DEF Blocks
  <2>. QED BY <1>3, <2>1 DEF ReadTooMuch, sets, events, bg, lost, main
<1>4. CASE AwaitOutput /\ mode' = mode
  BY <1>4 DEF AwaitOutput, sets, events, bg, lost, main
<1>5. CASE Release /\ mode' = mode
  BY <1>5 DEF Release, sets, events, bg, lost, main, GoOn
<1>6. CASE Save /\ mode' = mode
  <2>1. (n - 1 + BUFFERS) % BUFFERS = (n - 1) % 2 /\ (n - 1) % 2 \in Sets
    BY DEF BUFFERS, Sets
  <2>2. block[(n - 1) % 2] = n - 1 /\ dict[Part(n - 1)] = n - 1
    BY <1>6, BlockToSave DEF Save
  <2>3. out' = Append(out, Written((n - 1) % 2, n - 1))
    BY <1>6, <2>1, <2>2 DEF Save
  <2>4. Written((n - 1) % 2, n - 1) \in Record
    BY <2>1 DEF Written, Record, Blocks
  <2>5. out' \in Seq(Record)
    BY <2>3, <2>4
  <2>. QED BY <1>6, <2>5 DEF Save, sets, events, bg, lost, main, GoOn, Written
<1>7. CASE SaveFails /\ mode' = mode
  BY <1>7 DEF SaveFails, sets, events, bg, lost, main
<1>8. CASE Finish /\ mode' = mode
  BY <1>8 DEF Finish, sets, events, bg, lost, main
<1>9. CASE WriteHead /\ mode' = mode
  BY <1>9 DEF WriteHead, sets, events, bg, lost, main, Go, GiveUp
<1>10. CASE Read /\ mode' = mode
  <2>1. (k + 1) % BUFFERS \in Sets
    BY DEF Sets, BUFFERS
  <2>. QED BY <1>10, <2>1 DEF Read, sets, events, bg, lost, main, Go
<1>11. CASE CheckRead /\ mode' = mode
  BY <1>11 DEF CheckRead, sets, events, bg, lost, main, Go, GiveUp
<1>12. CASE Compress /\ mode' = mode
  BY <1>12 DEF Compress, sets, events, bg, lost, main, Go
<1>13. CASE Write /\ mode' = mode
  BY <1>13 DEF Write, sets, events, bg, lost, main, Go
<1>14. CASE CheckWritten /\ mode' = mode
  BY <1>14 DEF CheckWritten, sets, events, bg, lost, main, Go, GiveUp
<1>15. CASE Store /\ mode' = mode
  <2>1. Written(k, len) \in Record
    BY DEF Written, Record, Blocks
  <2>2. store' \in Seq(Record)
    BY <1>15, <2>1 DEF Store
  <2>. QED BY <1>15, <2>2 DEF Store, sets, events, bg, lost, main, Go, Written
<1>16. CASE Wait /\ mode' = mode
  BY <1>16 DEF Wait, sets, events, bg, lost, main, Go
<1>17. CASE LastCheck /\ mode' = mode
  BY <1>17 DEF LastCheck, sets, events, bg, lost, main, Go, GiveUp
<1>18. CASE SecondPass /\ mode' = mode
  <2>1. out' \in Seq(Record)
    <3>1. CASE Len(out) < Len(store) /\ out' = Append(out, store[Len(out) + 1])
      <4>1. store[Len(out) + 1] \in Record
        BY <3>1
      <4>. QED BY <3>1, <4>1
    <3>2. CASE UNCHANGED out
      BY <3>2
    <3>. QED BY <1>18, <3>1, <3>2 DEF SecondPass
  <2>. QED BY <1>18, <2>1 DEF SecondPass, sets, events, bg, lost, main, Go, GiveUp
<1>19. CASE CleanUp /\ mode' = mode
  BY <1>19 DEF CleanUp, sets, events, bg, lost, main
<1>20. CASE ReadFails /\ mode' = mode
  BY <1>20 DEF ReadFails, sets, events, bg, lost, main
<1>21. CASE BadMatches /\ mode' = mode
  BY <1>21 DEF BadMatches, sets, events, bg, lost, main
<1>22. CASE UNCHANGED vars
  BY <1>22 DEF vars, sets, events, bg, lost, main
<1>. QED
  BY <1>1, <1>2, <1>3, <1>4, <1>5, <1>6, <1>7, <1>8, <1>9, <1>10, <1>11, <1>12,
     <1>13, <1>14, <1>15, <1>16, <1>17, <1>18, <1>19, <1>20, <1>21, <1>22
  DEF Next, Background, Main

\* A step keeps what the places say of each other.
LEMMA PlacesKept ==
  ASSUME IInv, [Next]_vars
  PROVE  Places'
<1>. USE ParametersAssumption DEF IInv, TypeOK, Places
<1>1. CASE BeginRead /\ mode' = mode
  BY <1>1 DEF BeginRead, sets, events, bg, lost, main
<1>2. CASE EndRead /\ mode' = mode
  BY <1>2 DEF EndRead, sets, events, bg, lost, main
<1>3. CASE ReadTooMuch /\ mode' = mode
  BY <1>3 DEF ReadTooMuch, sets, events, bg, lost, main
<1>4. CASE AwaitOutput /\ mode' = mode
  BY <1>4 DEF AwaitOutput, sets, events, bg, lost, main
<1>5. CASE Release /\ mode' = mode
  BY <1>5 DEF Release, sets, events, bg, lost, main, GoOn
<1>6. CASE Save /\ mode' = mode
  <2>1. \/ n > end /\ bpc' = "finish" /\ n' = n
        \/ n <= end /\ bpc' = "read" /\ n' = n + 1
    BY <1>6 DEF Save, GoOn
  <2>2. bpc = "save" /\ UNCHANGED <<events, errcode, lost, main, mode>>
    BY <1>6 DEF Save
  <2>. QED BY <2>1, <2>2 DEF events, lost, main
<1>7. CASE SaveFails /\ mode' = mode
  BY <1>7 DEF SaveFails, sets, events, bg, lost, main
<1>8. CASE Finish /\ mode' = mode
  BY <1>8 DEF Finish, sets, events, bg, lost, main
<1>9. CASE WriteHead /\ mode' = mode
  BY <1>9 DEF WriteHead, sets, events, bg, lost, main, Go, GiveUp
<1>10. CASE Read /\ mode' = mode
  BY <1>10 DEF Read, sets, events, bg, lost, main, Go
<1>11. CASE CheckRead /\ mode' = mode
  BY <1>11 DEF CheckRead, sets, events, bg, lost, main, Go, GiveUp
<1>12. CASE Compress /\ mode' = mode
  BY <1>12 DEF Compress, sets, events, bg, lost, main, Go
<1>13. CASE Write /\ mode' = mode
  BY <1>13 DEF Write, sets, events, bg, lost, main, Go
<1>14. CASE CheckWritten /\ mode' = mode
  BY <1>14 DEF CheckWritten, sets, events, bg, lost, main, Go, GiveUp
<1>15. CASE Store /\ mode' = mode
  BY <1>15 DEF Store, sets, events, bg, lost, main, Go, Written
<1>16. CASE Wait /\ mode' = mode
  BY <1>16 DEF Wait, sets, events, bg, lost, main, Go
<1>17. CASE LastCheck /\ mode' = mode
  BY <1>17 DEF LastCheck, sets, events, bg, lost, main, Go, GiveUp
<1>18. CASE SecondPass /\ mode' = mode
  <2>1. mpc = "second" /\ bpc = "ended" /\ ~errcode'
    BY <1>18 DEF SecondPass, bg, lost
  <2>. QED BY <1>18, <2>1 DEF SecondPass, sets, events, bg, lost, main, Go, GiveUp
<1>19. CASE CleanUp /\ mode' = mode
  BY <1>19 DEF CleanUp, sets, events, bg, lost, main
<1>20. CASE ReadFails /\ mode' = mode
  BY <1>20 DEF ReadFails, sets, events, bg, lost, main
<1>21. CASE BadMatches /\ mode' = mode
  BY <1>21 DEF BadMatches, sets, events, bg, lost, main
<1>22. CASE UNCHANGED vars
  BY <1>22 DEF vars, sets, events, bg, lost, main
<1>. QED
  BY <1>1, <1>2, <1>3, <1>4, <1>5, <1>6, <1>7, <1>8, <1>9, <1>10, <1>11, <1>12,
     <1>13, <1>14, <1>15, <1>16, <1>17, <1>18, <1>19, <1>20, <1>21, <1>22
  DEF Next, Background, Main

\* A step keeps what is known of the block in hand.
LEMMA HandKept ==
  ASSUME IInv, [Next]_vars
  PROVE  Hand'
<1>. USE ParametersAssumption DEF IInv, TypeOK, Places, Hand
<1>1. CASE BeginRead /\ mode' = mode
  BY <1>1 DEF BeginRead, sets, events, bg, lost, main
<1>2. CASE EndRead /\ mode' = mode
  BY <1>2 DEF EndRead, sets, events, bg, lost, main
<1>3. CASE ReadTooMuch /\ mode' = mode
  BY <1>3 DEF ReadTooMuch, sets, events, bg, lost, main
<1>4. CASE AwaitOutput /\ mode' = mode
  BY <1>4 DEF AwaitOutput, sets, events, bg, lost, main
<1>5. CASE Release /\ mode' = mode
  BY <1>5 DEF Release, sets, events, bg, lost, main, GoOn
<1>6. CASE Save /\ mode' = mode
  BY <1>6 DEF Save, sets, events, bg, lost, main, GoOn, Written
<1>7. CASE SaveFails /\ mode' = mode
  BY <1>7 DEF SaveFails, sets, events, bg, lost, main
<1>8. CASE Finish /\ mode' = mode
  BY <1>8 DEF Finish, sets, events, bg, lost, main
<1>9. CASE WriteHead /\ mode' = mode
  BY <1>9 DEF WriteHead, sets, events, bg, lost, main, Go, GiveUp
<1>10. CASE Read /\ mode' = mode
  <2>1. ~errcode => len' = len + 1
    BY <1>10, NextBlockRead
  <2>. QED BY <1>10, <2>1 DEF Read, sets, events, bg, lost, main, Go, Blocks
<1>11. CASE CheckRead /\ mode' = mode
  <2>1. CASE errcode
    BY <1>11, <2>1 DEF CheckRead, sets, events, bg, lost, main, Go, GiveUp
  <2>2. CASE ~errcode
    BY <1>11, <2>2 DEF CheckRead, sets, events, bg, lost, main, Go, GiveUp, Blocks
  <2>. QED BY <2>1, <2>2
<1>12. CASE Compress /\ mode' = mode
  <2>1. stat'[k'] = len'
    BY <1>12 DEF Compress, main
  <2>. QED BY <1>12, <2>1 DEF Compress, sets, events, bg, lost, main, Go
<1>13. CASE Write /\ mode' = mode
  BY <1>13 DEF Write, sets, events, bg, lost, main, Go
<1>14. CASE CheckWritten /\ mode' = mode
  BY <1>14 DEF CheckWritten, sets, events, bg, lost, main, Go, GiveUp
<1>15. CASE Store /\ mode' = mode
  BY <1>15 DEF Store, sets, events, bg, lost, main, Go, Written
<1>16. CASE Wait /\ mode' = mode
  BY <1>16 DEF Wait, sets, events, bg, lost, main, Go
<1>17. CASE LastCheck /\ mode' = mode
  BY <1>17 DEF LastCheck, sets, events, bg, lost, main, Go, GiveUp
<1>18. CASE SecondPass /\ mode' = mode
  BY <1>18 DEF SecondPass, sets, events, bg, lost, main, Go, GiveUp
<1>19. CASE CleanUp /\ mode' = mode
  BY <1>19 DEF CleanUp, sets, events, bg, lost, main
<1>20. CASE ReadFails /\ mode' = mode
  <2>1. ~errcode /\ Released = n - 1 /\ n <= end /\ end' = n - 1 /\ bpc = "prepare"
    BY <1>20 DEF ReadFails, Released
  <2>2. len <= end'
    BY <2>1 DEF Signals, Blocks
  <2>. QED BY <1>20, <2>1, <2>2 DEF ReadFails, sets, events, main, Blocks
<1>21. CASE BadMatches /\ mode' = mode
  BY <1>21 DEF BadMatches, sets, events, bg, lost, main
<1>22. CASE UNCHANGED vars
  BY <1>22 DEF vars, sets, events, bg, lost, main
<1>. QED
  BY <1>1, <1>2, <1>3, <1>4, <1>5, <1>6, <1>7, <1>8, <1>9, <1>10, <1>11, <1>12,
     <1>13, <1>14, <1>15, <1>16, <1>17, <1>18, <1>19, <1>20, <1>21, <1>22
  DEF Next, Background, Main

\* A step keeps the events in time with the blocks.
LEMMA SignalsKept ==
  ASSUME IInv, [Next]_vars
  PROVE  Signals'
<1>. USE ParametersAssumption
   DEF IInv, TypeOK, Places, Hand, Signals, Released, Awaited, Delivered
<1>1. CASE BeginRead /\ mode' = mode
  BY <1>1 DEF BeginRead, sets, events, bg, lost, main
<1>2. CASE EndRead /\ mode' = mode
  BY <1>2 DEF EndRead, sets, events, bg, lost, main
<1>3. CASE ReadTooMuch /\ mode' = mode
  BY <1>3 DEF ReadTooMuch, sets, events, bg, lost, main
<1>4. CASE AwaitOutput /\ mode' = mode
  BY <1>4 DEF AwaitOutput, sets, events, bg, lost, main
<1>5. CASE Release /\ mode' = mode
  <2>1. ~errcode /\ Released = n - 1 /\ Awaited = n - 1
    BY <1>5 DEF Release
  <2>2. len = n - 1
    BY <2>1 DEF Blocks
  <2>3. Released' = n /\ Awaited' = n - 1
    <3>1. CASE bpc' = "save" /\ n' = n
      BY <1>5, <3>1
    <3>2. CASE bpc' = "finish" /\ n' = n
      BY <1>5, <3>2
    <3>3. CASE bpc' = "read" /\ n' = n + 1
      BY <1>5, <3>3
    <3>. QED BY <1>5, <3>1, <3>2, <3>3 DEF Release, GoOn
  <2>4. Delivered' = Delivered
    BY <1>5 DEF Release, main
  <2>. QED BY <1>5, <2>1, <2>2, <2>3, <2>4 DEF Release, main
<1>6. CASE Save /\ mode' = mode
  <2>1. Released' = Released /\ Awaited' = Awaited /\ Delivered' = Delivered
    <3>1. n > 1 /\ n \in Nat /\ bpc = "save" /\ UNCHANGED main
      BY <1>6 DEF Save
    <3>2. GoOn
      BY <1>6 DEF Save
    <3>3. CASE bpc' = "finish" /\ n' = n
      BY <3>1, <3>3 DEF main
    <3>4. CASE bpc' = "read" /\ n' = n + 1
      BY <3>1, <3>4 DEF main
    <3>. QED BY <3>2, <3>3, <3>4 DEF GoOn
  <2>. QED BY <1>6, <2>1 DEF Save, events, bg, lost, main
<1>7. CASE SaveFails /\ mode' = mode
  BY <1>7 DEF SaveFails, sets, events, bg, lost, main
<1>8. CASE Finish /\ mode' = mode
  BY <1>8 DEF Finish, sets, events, bg, lost, main
<1>9. CASE WriteHead /\ mode' = mode
  BY <1>9 DEF WriteHead, sets, events, bg, lost, main, Go, GiveUp
<1>10. CASE Read /\ mode' = mode
  <2>1. ~errcode => len' = len + 1 /\ k' = len' % 2
    BY <1>10, NextBlockRead
  <2>2. mpc = "read" /\ mpc' = "check" /\ ReadDone /\ ~ReadDone'
    BY <1>10 DEF Read, Go
  <2>3. Released' = Released /\ Awaited' = Awaited
    BY <1>10 DEF Read, bg, lost
  <2>4. ~errcode => Delivered' = Delivered
    BY <2>1, <2>2 DEF Blocks
  <2>5. ~errcode => Released' = len' /\ ~ReadDone'
    BY <2>1, <2>2, <2>3 DEF Blocks
  <2>6. errcode' = errcode /\ WriteReady' = WriteReady /\ len' \in Int
    BY <1>10, TypeKept DEF Read, bg, lost, Blocks
  <2>7. CASE errcode
    BY <2>6, <2>7 DEF Signals
  <2>8. CASE ~errcode
    <3>1. /\ Released' \in {len', len' + 1} /\ (ReadDone' <=> Released' = len' + 1)
          /\ k' = len' % 2
      BY <2>1, <2>5, <2>6, <2>8
    <3>2. /\ Delivered' \in {Awaited', Awaited' + 1}
          /\ WriteReady' <=> Delivered' = Awaited' + 1
      <4>1. /\ Delivered \in {Awaited, Awaited + 1}
            /\ WriteReady <=> Delivered = Awaited + 1
        BY <2>8 DEF Signals
      <4>2. UNCHANGED <<Delivered, Awaited, WriteReady>>
        BY <2>3, <2>4, <2>6, <2>8
      <4>. HIDE DEF Delivered, Awaited
      <4>. QED BY <4>1, <4>2
    <3>. QED BY <3>1, <3>2 DEF Signals
  <2>. QED BY <2>7, <2>8
<1>11. CASE CheckRead /\ mode' = mode
  BY <1>11 DEF CheckRead, sets, events, bg, lost, main, Go, GiveUp
<1>12. CASE Compress /\ mode' = mode
  BY <1>12 DEF Compress, sets, events, bg, lost, main, Go
<1>13. CASE Write /\ mode' = mode
  BY <1>13 DEF Write, sets, events, bg, lost, main, Go
<1>14. CASE CheckWritten /\ mode' = mode
  BY <1>14 DEF CheckWritten, sets, events, bg, lost, main, Go, GiveUp
<1>15. CASE Store /\ mode' = mode
  BY <1>15 DEF Store, sets, events, bg, lost, main, Go, Written
<1>16. CASE Wait /\ mode' = mode
  BY <1>16 DEF Wait, sets, events, bg, lost, main, Go
<1>17. CASE LastCheck /\ mode' = mode
  BY <1>17 DEF LastCheck, sets, events, bg, lost, main, Go, GiveUp
<1>18. CASE SecondPass /\ mode' = mode
  BY <1>18 DEF SecondPass, sets, events, bg, lost, main, Go, GiveUp
<1>19. CASE CleanUp /\ mode' = mode
  BY <1>19 DEF CleanUp, sets, events, bg, lost, main
<1>20. CASE ReadFails /\ mode' = mode
  BY <1>20 DEF ReadFails, sets, events, bg, lost, main
<1>21. CASE BadMatches /\ mode' = mode
  BY <1>21 DEF BadMatches, sets, events, bg, lost, main
<1>22. CASE UNCHANGED vars
  BY <1>22 DEF vars, sets, events, bg, lost, main
<1>. QED
  BY <1>1, <1>2, <1>3, <1>4, <1>5, <1>6, <1>7, <1>8, <1>9, <1>10, <1>11, <1>12,
     <1>13, <1>14, <1>15, <1>16, <1>17, <1>18, <1>19, <1>20, <1>21, <1>22
  DEF Next, Background, Main

\* A step keeps the last blocks in the sets and in the ring.
LEMMA ContentsKept ==
  ASSUME IInv, [Next]_vars
  PROVE  Contents'
<1>. USE ParametersAssumption DEF IInv, TypeOK, Contents, Places, Hand
<1>1. CASE BeginRead /\ mode' = mode
  <2>1. ~errcode /\ ~errcode' /\ ReadIn = n - 1 /\ ReadIn' = n - 1 /\ n' = n
    BY <1>1 DEF BeginRead, Places, ReadIn
  <2>2. Compressed' = Compressed
    BY <1>1 DEF BeginRead, main, Compressed, Delivered
  <2>3. ASSUME NEW b \in 1 .. ReadIn', b <= end', b > n' - dictsize
        PROVE  dict'[Part(b)] = b
    <3>1. b \in Nat \ {0} /\ b < n /\ n - b < dictsize /\ n \in Nat \ {0}
      BY <2>1, <2>3 DEF dictsize, BUFFERS
    <3>2. Part(b) # Part(n)
      BY <3>1, PartsDiffer
    <3>3. dict[Part(b)] = b
      BY <1>1, <2>1, <2>3 DEF BeginRead, lost
    <3>. QED BY <1>1, <3>2, <3>3 DEF BeginRead
  <2>. QED BY <1>1, <2>1, <2>2, <2>3 DEF BeginRead
<1>2. CASE EndRead /\ mode' = mode
  <2>1. ~errcode /\ ~errcode' /\ ReadIn = n - 1 /\ ReadIn' = n /\ n' = n
    BY <1>2 DEF EndRead, Places, ReadIn
  <2>2. Compressed' = Compressed /\ stat' = stat
    BY <1>2 DEF EndRead, main, Compressed, Delivered
  <2>3. ASSUME NEW b \in {n - 1, n}, b > 0
        PROVE  block'[b % 2] = b /\ prepared'[b % 2] = b
    <3>1. n % 2 \in Sets /\ b % 2 \in Sets
      BY <2>3, SMTT(30) DEF Sets, BUFFERS
    <3>2. CASE b = n
      BY <1>2, <3>1, <3>2 DEF EndRead, BUFFERS
    <3>3. CASE b = n - 1
      <4>1. b % 2 # n % 2
        BY <3>3, SetsDiffer
      <4>2. block[b % 2] = b /\ prepared[b % 2] = b
        BY <2>1, <2>3, <3>3
      <4>. QED BY <1>2, <3>1, <4>1, <4>2 DEF EndRead, BUFFERS
    <3>. QED BY <2>3, <3>2, <3>3
  <2>4. ASSUME NEW b \in 1 .. n, b <= end, b > n - dictsize
        PROVE  dict'[Part(b)] = b
    <3>1. CASE b = n
      BY <1>2, <2>4, <3>1, PartInRing DEF EndRead
    <3>2. CASE b # n
      <4>1. b \in Nat \ {0} /\ b < n /\ n - b < dictsize /\ n \in Nat \ {0}
        BY <2>4, <3>2 DEF dictsize, BUFFERS
      <4>2. Part(b) # Part(n)
        BY <4>1, PartsDiffer
      <4>3. dict[Part(b)] = b
        <5>1. b \in 1 .. ReadIn
          BY <2>1, <4>1
        <5>. QED BY <2>1, <2>4, <5>1
      <4>. QED BY <1>2, <4>2, <4>3 DEF EndRead
    <3>. QED BY <3>1, <3>2
  <2>. QED BY <1>2, <2>1, <2>2, <2>3, <2>4 DEF EndRead, lost
<1>3. CASE ReadTooMuch /\ mode' = mode
  BY <1>3 DEF ReadTooMuch, sets, events, bg, lost, main, Compressed, Delivered, ReadIn
<1>4. CASE AwaitOutput /\ mode' = mode
  BY <1>4 DEF AwaitOutput, sets, events, bg, lost, main, Compressed, Delivered, ReadIn
<1>5. CASE Release /\ mode' = mode
  <2>1. bpc' = "read" => n' = n + 1
    BY <1>5 DEF Release, GoOn
  <2>2. ReadIn' = ReadIn /\ n' >= n
    BY <1>5, <2>1 DEF Release, GoOn, ReadIn
  <2>3. Compressed' = Compressed
    BY <1>5 DEF Release, main, Compressed, Delivered
  <2>4. dictsize \in Nat /\ n' \in Nat
    BY <1>5, TypeKept DEF dictsize, BUFFERS
  <2>5. ASSUME NEW b \in Nat, b \in 1 .. ReadIn', b <= end', b > n' - dictsize
        PROVE  dict'[Part(b)] = b
    <3>1. b \in 1 .. ReadIn /\ n \in Nat
      BY <2>2, <2>5
    <3>2. b > n - dictsize
      BY <2>2, <2>4, <2>5, <3>1, LaterWindow
    <3>3. b <= end
      BY <1>5, <2>5 DEF Release, lost
    <3>. QED BY <1>5, <2>5, <3>1, <3>2, <3>3 DEF Release, Places, sets
  <2>6. \A b \in 1 .. ReadIn' : b \in Nat
    BY <2>2, ReadInTyped
  <2>. QED BY <1>5, <2>2, <2>3, <2>5, <2>6 DEF Release, Places, sets
<1>6. CASE Save /\ mode' = mode
  <2>1. bpc' = "read" => n' = n + 1
    BY <1>6 DEF Save, GoOn
  <2>2. ReadIn' = ReadIn /\ n' >= n
    BY <1>6, <2>1 DEF Save, GoOn, ReadIn
  <2>3. Compressed' = Compressed
    BY <1>6 DEF Save, main, Compressed, Delivered
  <2>4. dictsize \in Nat /\ n' \in Nat
    BY <1>6, TypeKept DEF dictsize, BUFFERS
  <2>5. ASSUME NEW b \in Nat, b \in 1 .. ReadIn', b <= end', b > n' - dictsize
        PROVE  dict'[Part(b)] = b
    <3>1. b \in 1 .. ReadIn /\ n \in Nat
      BY <2>2, <2>5
    <3>2. b > n - dictsize
      BY <2>2, <2>4, <2>5, <3>1, LaterWindow
    <3>3. b <= end
      BY <1>6, <2>5 DEF Save, lost
    <3>. QED BY <1>6, <2>5, <3>1, <3>2, <3>3 DEF Save, Places, sets
  <2>6. \A b \in 1 .. ReadIn' : b \in Nat
    BY <2>2, ReadInTyped
  <2>. QED BY <1>6, <2>2, <2>3, <2>5, <2>6 DEF Save, Places, sets
<1>7. CASE SaveFails /\ mode' = mode
  BY <1>7 DEF SaveFails, sets, events, bg, lost, main, Compressed, Delivered, ReadIn
<1>8. CASE Finish /\ mode' = mode
  BY <1>8 DEF Finish, sets, events, bg, lost, main, Compressed, Delivered, ReadIn
<1>9. CASE WriteHead /\ mode' = mode
  BY <1>9
     DEF WriteHead, sets, events, bg, lost, main, Go, GiveUp, Compressed, Delivered, ReadIn
<1>10. CASE Read /\ mode' = mode
  <2>. SUFFICES ASSUME ~errcode PROVE Contents'
    BY <1>10 DEF Read, bg, lost
  <2>1. len' = len + 1 /\ len \in Nat
    BY <1>10, NextBlockRead DEF Blocks
  <2>2. Compressed' = Compressed /\ ReadIn' = ReadIn
    BY <1>10, <2>1 DEF Read, bg, lost, Go, Compressed, Delivered, ReadIn
  <2>. QED BY <1>10, <2>2 DEF Read, sets, bg, lost
<1>11. CASE CheckRead /\ mode' = mode
  BY <1>11
     DEF CheckRead, sets, events, bg, lost, main, Go, GiveUp, Compressed, Delivered, ReadIn
<1>12. CASE Compress /\ mode' = mode
  <2>. SUFFICES ASSUME ~errcode PROVE Contents'
    BY <1>12 DEF Compress, bg, lost
  <2>1. len \in 1 .. NumBlocks /\ k = len % 2 /\ len % 2 \in Sets
    BY <1>12 DEF Compress, Hand, Signals, Sets, BUFFERS
  <2>2. Compressed = len - 1 /\ Compressed' = len
    BY <1>12, <2>1 DEF Compress, Go, Compressed, Delivered
  <2>3. ASSUME NEW b \in {len - 1, len}, b > 0
        PROVE  stat'[b % 2] = b
    <3>1. CASE b = len
      BY <1>12, <2>1, <3>1 DEF Compress
    <3>2. CASE b = len - 1
      <4>1. b % 2 # len % 2 /\ stat[b % 2] = b
        BY <2>1, <2>2, <2>3, <3>2, SetsDiffer
      <4>. QED BY <1>12, <2>1, <4>1 DEF Compress
    <3>. QED BY <2>3, <3>1, <3>2
  <2>4. ReadIn' = ReadIn /\ n' = n
    BY <1>12 DEF Compress, bg, lost, ReadIn
  <2>. QED BY <1>12, <2>2, <2>3, <2>4 DEF Compress, sets, bg, lost
<1>13. CASE Write /\ mode' = mode
  BY <1>13 DEF Write, sets, events, bg, lost, main, Go, Compressed, Delivered, ReadIn
<1>14. CASE CheckWritten /\ mode' = mode
  BY <1>14
     DEF CheckWritten, sets, events, bg, lost, main, Go, GiveUp, Compressed, Delivered,
         ReadIn
<1>15. CASE Store /\ mode' = mode
  BY <1>15 DEF Store, sets, events, bg, lost, main, Go, Written, Compressed, Delivered, ReadIn
<1>16. CASE Wait /\ mode' = mode
  BY <1>16 DEF Wait, sets, events, bg, lost, main, Go, Compressed, Delivered, ReadIn
<1>17. CASE LastCheck /\ mode' = mode
  BY <1>17
     DEF LastCheck, sets, events, bg, lost, main, Go, GiveUp, Compressed, Delivered, ReadIn
<1>18. CASE SecondPass /\ mode' = mode
  BY <1>18
     DEF SecondPass, sets, events, bg, lost, main, Go, GiveUp, Compressed, Delivered, ReadIn
<1>19. CASE CleanUp /\ mode' = mode
  BY <1>19 DEF CleanUp, sets, events, bg, lost, main, Compressed, Delivered, ReadIn
<1>20. CASE ReadFails /\ mode' = mode
  BY <1>20 DEF ReadFails, sets, events, bg, lost, main, Compressed, Delivered, ReadIn
<1>21. CASE BadMatches /\ mode' = mode
  BY <1>21 DEF BadMatches, sets, events, bg, lost, main, Compressed, Delivered, ReadIn
<1>22. CASE UNCHANGED vars
  BY <1>22 DEF vars, sets, events, bg, lost, main, Compressed, Delivered, ReadIn
<1>. QED
  BY <1>1, <1>2, <1>3, <1>4, <1>5, <1>6, <1>7, <1>8, <1>9, <1>10, <1>11, <1>12,
     <1>13, <1>14, <1>15, <1>16, <1>17, <1>18, <1>19, <1>20, <1>21, <1>22
  DEF Next, Background, Main

\* A step keeps the order of what has come out.
LEMMA OutputKept ==
  ASSUME IInv, [Next]_vars
  PROVE  Output'
<1>. USE ParametersAssumption DEF IInv, TypeOK, Output
<1>1. CASE BeginRead /\ mode' = mode
  BY <1>1 DEF BeginRead, sets, events, bg, lost, main
<1>2. CASE EndRead /\ mode' = mode
  BY <1>2 DEF EndRead, sets, events, bg, lost, main
<1>3. CASE ReadTooMuch /\ mode' = mode
  BY <1>3 DEF ReadTooMuch, sets, events, bg, lost, main
<1>4. CASE AwaitOutput /\ mode' = mode
  BY <1>4 DEF AwaitOutput, sets, events, bg, lost, main
<1>5. CASE Release /\ mode' = mode
  <2>1. mode # "future" => Len(out) = IF n = 1 THEN n - 1 ELSE n - 2
    BY <1>5 DEF Release, Places
  <2>2. /\ ~errcode /\ result # "ok"
        /\ UNCHANGED <<out, store, result, mode, errcode>>
    BY <1>5 DEF Release, Places, main
  <2>3. mode # "future" =>
          \/ bpc' = "save" /\ n' = n /\ n > 1
          \/ bpc' = "finish" /\ n' = n /\ n = 1
          \/ bpc' = "read" /\ n' = n + 1 /\ n = 1
    BY <1>5 DEF Release, GoOn
  <2>4. mode # "future" =>
          Len(out') = IF bpc' \in {"finish", "ended"} \/ n' = 1 THEN n' - 1 ELSE n' - 2
    BY <2>1, <2>2, <2>3
  <2>. QED BY <2>2, <2>4
<1>6. CASE Save /\ mode' = mode
  <2>. DEFINE s == (n - 1) % 2
              e == Written(s, n - 1)
  <2>1. /\ n \in 2 .. end + 1 /\ Len(out) = n - 2
        /\ block[s] = n - 1 /\ prepared[s] = n - 1 /\ stat[s] = n - 1
        /\ dict[Part(n - 1)] = n - 1
    BY <1>6, BlockToSave DEF Save
  <2>2. (n - 1 + BUFFERS) % BUFFERS = s
    BY <2>1 DEF BUFFERS
  <2>3. out' = Append(out, e)
    BY <1>6, <2>1, <2>2 DEF Save
  <2>4. e.data = n - 1 /\ e.matches = n - 1 /\ e.digest = n - 1
    BY <2>1 DEF Written
  <2>5. /\ ~errcode /\ result # "ok"
        /\ UNCHANGED <<store, result, mode, errcode>>
    BY <1>6 DEF Save, Places, main, bg, lost
  <2>6. Len(out') = n - 1 /\ DOMAIN out' = 1 .. n - 1
    BY <2>1, <2>3
  <2>7. ASSUME NEW b \in DOMAIN out'
        PROVE  /\ out'[b].data = b /\ out'[b].matches = b
               /\ mode # "future" => out'[b].digest = b
    <3>1. CASE b = n - 1
      BY <2>1, <2>3, <2>4, <3>1
    <3>2. CASE b # n - 1
      <4>1. b \in DOMAIN out /\ out'[b] = out[b]
        BY <2>1, <2>3, <2>6, <3>2
      <4>. QED BY <4>1
    <3>. QED BY <3>1, <3>2
  <2>8. \/ bpc' = "finish" /\ n' = n
        \/ bpc' = "read" /\ n' = n + 1
    BY <1>6 DEF Save, GoOn
  <2>. QED BY <2>1, <2>5, <2>6, <2>7, <2>8
<1>7. CASE SaveFails /\ mode' = mode
  BY <1>7 DEF SaveFails, sets, events, bg, lost, main
<1>8. CASE Finish /\ mode' = mode
  BY <1>8 DEF Finish, sets, events, bg, lost, main
<1>9. CASE WriteHead /\ mode' = mode
  BY <1>9 DEF WriteHead, sets, events, bg, lost, main, Go, GiveUp
<1>10. CASE Read /\ mode' = mode
  BY <1>10 DEF Read, sets, events, bg, lost, main, Go
<1>11. CASE CheckRead /\ mode' = mode
  BY <1>11 DEF CheckRead, sets, events, bg, lost, main, Go, GiveUp
<1>12. CASE Compress /\ mode' = mode
  BY <1>12 DEF Compress, sets, events, bg, lost, main, Go
<1>13. CASE Write /\ mode' = mode
  BY <1>13 DEF Write, sets, events, bg, lost, main, Go
<1>14. CASE CheckWritten /\ mode' = mode
  BY <1>14 DEF CheckWritten, sets, events, bg, lost, main, Go, GiveUp
<1>15. CASE Store /\ mode' = mode
  <2>1. /\ Len(store) = len - 1 /\ len \in 1 .. NumBlocks /\ stat[k] = len
        /\ result # "ok" /\ store' = Append(store, Written(k, len))
    BY <1>15 DEF Store, Hand, Places
  <2>2. Written(k, len).data = len /\ Written(k, len).matches = len
    BY <2>1 DEF Written
  <2>3. DOMAIN store' = 1 .. len
    BY <2>1
  <2>4. ASSUME NEW b \in DOMAIN store'
        PROVE  store'[b].data = b /\ store'[b].matches = b
    <3>1. CASE b = len
      BY <2>1, <2>2, <3>1
    <3>2. CASE b # len
      <4>1. b \in DOMAIN store /\ store'[b] = store[b]
        BY <2>1, <2>3, <3>2
      <4>. QED BY <4>1
    <3>. QED BY <3>1, <3>2
  <2>. QED BY <1>15, <2>1, <2>4 DEF Store, Go, bg, lost
<1>16. CASE Wait /\ mode' = mode
  BY <1>16 DEF Wait, sets, events, bg, lost, main, Go
<1>17. CASE LastCheck /\ mode' = mode
  <2>1. bpc = "ended" /\ (~errcode /\ ~bad => n = end + 1)
    BY <1>17 DEF LastCheck, Places
  <2>2. CASE result' = "ok"
    <3>1. ~errcode /\ mode = "plain"
      BY <1>17, <2>2 DEF LastCheck, Go, GiveUp, Places
    <3>. QED BY <1>17, <2>1, <3>1 DEF LastCheck, bg, lost
  <2>. QED BY <1>17, <2>1, <2>2 DEF LastCheck, bg, lost
<1>18. CASE SecondPass /\ mode' = mode
  <2>1. /\ bpc = "ended" /\ ~errcode /\ result # "ok"
        /\ ~bad => n = end + 1
        /\ mode # "plain" => Len(store) = end
        /\ UNCHANGED <<store, mode, bpc, errcode, n, end, bad>>
    BY <1>18 DEF SecondPass, Places, Hand, bg, lost
  <2>2. CASE mode = "future" /\ Len(out) < Len(store) /\ result' = result
             /\ out' = Append(out, store[Len(out) + 1])
    <3>1. /\ store[Len(out) + 1].data = Len(out) + 1
          /\ store[Len(out) + 1].matches = Len(out) + 1
      BY <2>2
    <3>2. DOMAIN out' = 1 .. Len(out) + 1
      BY <2>2
    <3>3. ASSUME NEW b \in DOMAIN out'
          PROVE  out'[b].data = b /\ out'[b].matches = b
      <4>1. CASE b = Len(out) + 1
        BY <2>2, <3>1, <4>1
      <4>2. CASE b # Len(out) + 1
        <5>1. b \in DOMAIN out /\ out'[b] = out[b]
          BY <2>2, <3>2, <4>2
        <5>. QED BY <5>1
      <4>. QED BY <4>1, <4>2
    <3>. QED BY <2>1, <2>2, <3>3
  <2>3. CASE UNCHANGED out /\ (result' = "ok" => (mode = "future" => Len(out) = Len(store)))
    BY <2>1, <2>3
  <2>. QED BY <1>18, <2>1, <2>2, <2>3 DEF SecondPass, Go, GiveUp
<1>19. CASE CleanUp /\ mode' = mode
  BY <1>19 DEF CleanUp, sets, events, bg, lost, main
<1>20. CASE ReadFails /\ mode' = mode
  <2>1. result # "ok" /\ bpc \notin {"finish", "ended"}
    BY <1>20 DEF ReadFails, Places
  <2>. QED BY <1>20, <2>1 DEF ReadFails, sets, events, main
<1>21. CASE BadMatches /\ mode' = mode
  BY <1>21 DEF BadMatches, sets, events, bg, lost, main
<1>22. CASE UNCHANGED vars
  BY <1>22 DEF vars, sets, events, bg, lost, main
<1>. QED
  BY <1>1, <1>2, <1>3, <1>4, <1>5, <1>6, <1>7, <1>8, <1>9, <1>10, <1>11, <1>12,
     <1>13, <1>14, <1>15, <1>16, <1>17, <1>18, <1>19, <1>20, <1>21, <1>22
  DEF Next, Background, Main

-----------------------------------------------------------------------------
(***************************************************************************)
(* The theorems.                                                           *)
(***************************************************************************)
\* As long as there is no error the dictionary follows from where the threads are.
LEMMA DictionaryFollows ==
  TypeOK /\ Places /\ Hand /\ Signals /\ Contents /\ ~errcode => DictionaryIntact
<1>. SUFFICES ASSUME TypeOK, Places, Hand, Signals, Contents, ~errcode, mpc = "compress"
              PROVE  /\ prepared[k] = len
                     /\ \A b \in 1 .. len : b >= len - DictBlocks => dict[Part(b)] = b
  BY DEF DictionaryIntact
<1>1. /\ len \in 1 .. end /\ k = len % 2
      /\ n \in {len, len + 1} /\ ReadIn \in {len, len + 1}
  BY BlockInHand DEF Hand, Signals
<1>2. prepared[k] = len
  BY <1>1 DEF Contents
<1>3. ASSUME NEW b \in 1 .. len, b >= len - DictBlocks
      PROVE  dict[Part(b)] = b
  <2>1. b \in Nat /\ b <= len /\ b >= 1
    BY <1>1, <1>3
  <2>2. b \in 1 .. ReadIn /\ b <= end
    BY <1>1, <2>1, ParametersAssumption DEF ReadIn, TypeOK
  <2>3. b > n - dictsize
    BY <1>1, <1>3, <2>1, ParametersAssumption DEF dictsize, BUFFERS
  <2>. QED BY <2>2, <2>3 DEF Contents
<1>. QED BY <1>2, <1>3

\* After an error the background thread reads no more.
LEMMA DictionaryKept ==
  ASSUME IInv, [Next]_vars,
         ~errcode' => DictionaryIntact'
  PROVE  DictionaryIntact'
<1>. SUFFICES ASSUME errcode', mpc' = "compress" PROVE DictionaryIntact'
  BY DEF DictionaryIntact
<1>1. UNCHANGED <<dict, prepared, mpc, k, len>>
  <2>1. CASE errcode
    BY <2>1 DEF IInv, Places, Next, Background, Main, BeginRead, EndRead, ReadFails, ReadTooMuch,
         AwaitOutput, Release, Save, SaveFails, BadMatches, Finish, WriteHead, Read, CheckRead,
         Compress, Write, CheckWritten, Store, Wait, LastCheck, SecondPass, CleanUp, Go,
         GiveUp, vars, sets, events, bg, lost, main
  <2>2. CASE ~errcode
    <3>1. ReadTooMuch \/ SaveFails
      BY <2>2 DEF IInv, Places, Next, Background, Main, BeginRead, EndRead,
         AwaitOutput, Release, Save, BadMatches, ReadFails, Finish, WriteHead, Read, CheckRead,
         Compress, Write, CheckWritten, Store, Wait, LastCheck, SecondPass, CleanUp,
         vars, sets, events, bg, lost, main
    <3>. QED BY <3>1 DEF ReadTooMuch, SaveFails, sets, main
  <2>. QED BY <2>1, <2>2
<1>2. DictionaryIntact
  BY DEF IInv
<1>. QED BY <1>1, <1>2 DEF DictionaryIntact

\* The initial state.
LEMMA InitInvariant == Init => IInv
<1>. SUFFICES ASSUME Init PROVE IInv
  OBVIOUS
<1>. USE ParametersAssumption DEF Init
<1>1. TypeOK
  BY DEF TypeOK, Sets, BUFFERS, Torn, Blocks
<1>2. Places /\ Hand
  BY DEF Places, Hand, Torn
<1>3. ReadIn = 0 /\ Released = 0 /\ Awaited = 0 /\ Delivered = 0 /\ Compressed = 0
  BY DEF ReadIn, Released, Awaited, Delivered, Compressed, Torn
<1>4. Signals /\ Contents /\ Output
  BY <1>3 DEF Signals, Contents, Output, Torn
<1>5. DictionaryIntact
  BY DEF DictionaryIntact
<1>. QED BY <1>1, <1>2, <1>4, <1>5 DEF IInv

\* The strengthened invariant of both threads (io.cpp:137-170, srep.cpp:589-704).
THEOREM Invariance == Spec => []IInv
<1>1. Init => IInv
  BY InitInvariant
<1>2. ASSUME IInv, [Next]_vars PROVE IInv'
  <2>1. TypeOK' /\ Places' /\ Hand' /\ Signals' /\ Contents' /\ Output'
    BY <1>2, TypeKept, PlacesKept, HandKept, SignalsKept, ContentsKept, OutputKept
  <2>2. ~errcode' => DictionaryIntact'
    BY <2>1, DictionaryFollows, PTL
  <2>3. DictionaryIntact'
    BY <1>2, <2>2, DictionaryKept
  <2>. QED BY <2>1, <2>3 DEF IInv
<1>. QED BY <1>1, <1>2, PTL DEF Spec

\* Types.
THEOREM TypeCorrect == Spec => []TypeOK
<1>1. IInv => TypeOK
  BY DEF IInv
<1>. QED BY <1>1, Invariance, PTL

\* The background thread overwrites nothing that is searched (compress_inmem.cpp:92).
THEOREM DictionaryNeverOverwritten == Spec => []DictionaryIntact
<1>1. IInv => DictionaryIntact
  BY DEF IInv
<1>. QED BY <1>1, Invariance, PTL

\* Only after an error of the main thread is anything freed while the background
\* thread works (srep.cpp:1154-1176).
THEOREM NothingFreedEarly == Spec => []CleanedUpAlone
<1>1. IInv => CleanedUpAlone
  BY DEF IInv, TypeOK, Places, CleanedUpAlone, MainFailed
<1>. QED BY <1>1, Invariance, PTL

\* Invariant states are in order.
LEMMA OrderFollows == IInv => InOrder
<1>. SUFFICES ASSUME IInv PROVE InOrder
  OBVIOUS
<1>1. result = "ok" /\ mode = "index" => Len(store) = end
  BY DEF IInv, Hand
<1>. QED BY <1>1 DEF IInv, Output, InOrder

-----------------------------------------------------------------------------
(***************************************************************************)
(* The two threads implement the filter their caller sees.                 *)
(***************************************************************************)
\* One more block is out, and the call goes on.
LEMMA EmitsNext ==
  ASSUME InOrder, InOrder', mpc # "returned", mpc' # "returned",
         Len(out) \in Nat, Len(out) < NumBlocks, Len(out') = Len(out) + 1
  PROVE  Filter!Emit
BY DEF Filter!Emit

\* Nothing comes out, and the call goes on.
LEMMA EmitsNothing ==
  ASSUME InOrder, InOrder', mpc # "returned", mpc' # "returned", out' = out
  PROVE  UNCHANGED Filter!vars
BY DEF Filter!vars

\* Every step of the threads is a step of the filter or leaves it unchanged.
LEMMA StepRefinement ==
  ASSUME IInv, InOrder, InOrder', [Next]_vars
  PROVE  [Filter!Next]_(Filter!vars)
<1>1. CASE Background /\ Save
  <2>1. /\ n \in 2 .. end + 1 /\ end \in 0 .. NumBlocks /\ Len(out) = n - 2
        /\ mpc # "returned" /\ mpc' = mpc
    BY <1>1, BlockToSave DEF Save, Background, main, IInv, TypeOK
  <2>2. Len(out') = Len(out) + 1
    BY <1>1 DEF Save, IInv, TypeOK
  <2>3. Filter!Emit
    BY <2>1, <2>2, ParametersAssumption, EmitsNext
  <2>. QED BY <2>3 DEF Filter!Next
<1>2. CASE SecondPass
  <2>1. /\ mpc = "second" /\ mpc' # "returned"
        /\ end \in 0 .. NumBlocks
        /\ mode # "plain" => Len(store) = end
    BY <1>2 DEF SecondPass, Go, GiveUp, IInv, TypeOK, Hand
  <2>2. CASE mode = "future" /\ Len(out) < Len(store)
             /\ out' = Append(out, store[Len(out) + 1])
    <3>1. /\ Len(out) \in Nat /\ Len(store) = end /\ Len(out) < Len(store)
          /\ Len(out') = Len(out) + 1
      BY <2>1, <2>2 DEF IInv, TypeOK
    <3>2. Filter!Emit
      BY <2>1, <3>1, ParametersAssumption, EmitsNext
    <3>. QED BY <3>2 DEF Filter!Next
  <2>3. CASE UNCHANGED out
    BY <2>1, <2>3, EmitsNothing
  <2>. QED BY <1>2, <2>2, <2>3 DEF SecondPass
<1>3. CASE CleanUp
  <2>1. /\ mpc = "cleanup" /\ mpc' = "returned" /\ result' = result /\ out' = out
        /\ LostSilently' = LostSilently
        /\ result = "ok" \/ result = "error"
        /\ result = "ok" /\ ~LostSilently => Len(out) = NumBlocks
    BY <1>3, ParametersAssumption
       DEF CleanUp, IInv, TypeOK, Places, Output, LostSilently, bg, lost
  <2>2. CASE LostSilently
    BY <2>1, <2>2 DEF Filter!vars
  <2>3. CASE ~LostSilently
    <3>1. Filter!Succeed \/ Filter!Fail
      BY <2>1, <2>3 DEF Filter!Succeed, Filter!Fail
    <3>. QED BY <3>1 DEF Filter!Next
  <2>. QED BY <2>2, <2>3
<1>4. CASE Background /\ ~Save
  <2>1. UNCHANGED <<out, mpc>> /\ mpc # "returned"
    BY <1>4 DEF Background, BeginRead, EndRead, ReadFails, ReadTooMuch, AwaitOutput, Release,
       SaveFails, BadMatches, Finish, main
  <2>. QED BY <2>1, EmitsNothing
<1>5. CASE Main /\ ~SecondPass /\ ~CleanUp
  <2>1. out' = out /\ mpc # "returned" /\ mpc' # "returned"
    BY <1>5 DEF Main, WriteHead, Read, CheckRead, Compress, Write, CheckWritten, Store,
       Wait, LastCheck, Go, GiveUp
  <2>. QED BY <2>1, EmitsNothing
<1>6. CASE UNCHANGED vars
  BY <1>6 DEF vars, main, bg, lost, LostSilently, Filter!vars
<1>. QED BY <1>1, <1>2, <1>3, <1>4, <1>5, <1>6 DEF Next

\* What comes out of srep's compression (FilterSpec in SrepBackground): blocks in the
\* order of the input, and success when all are out.  It says nothing of a success after
\* the input could not be read or the last block not be saved (LostSilently, io.cpp:147
\* and io.cpp:185), nor of the digests of "future" mode (srep.cpp:650).
THEOREM SrepImplementsFilter == Spec => FilterSpec
<1>1. Init => Filter!Init
  BY DEF Init, Filter!Init, InOrder
<1>2. IInv /\ InOrder /\ InOrder' /\ [Next]_vars => [Filter!Next]_(Filter!vars)
  BY StepRefinement
<1>. QED BY <1>1, <1>2, OrderFollows, Invariance, PTL DEF Spec, FilterSpec, Filter!Spec
=============================================================================
