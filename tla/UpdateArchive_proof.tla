------------------------- MODULE UpdateArchive_proof -------------------------
(***************************************************************************)
(* Proofs about the archive file: its replacement (UpdateArchive), for     *)
(* every command and every set of events, and then the recovery record     *)
(* that repairs it (ArcRecover), for every size of both.                   *)
(***************************************************************************)
EXTENDS UpdateArchive, ArcRecover, SequenceTheorems, WellFoundedInduction, TLAPS

-----------------------------------------------------------------------------
(***************************************************************************)
(* The inductive invariant.                                                *)
(***************************************************************************)
\* What is registered depends on where the main thread is, and on whether it is in
\* shutdown: an error may leave the finalizers of its scope behind.
Registered ==
  /\ spc["main"] = "no" =>
       /\ pc = "archiving" => finalizers = <<"terminate", "remove_tmp">>
       /\ pc \in {"test", "leave"} => finalizers = <<"remove_tmp">>
       /\ pc = "copy" => finalizers = <<"remove_copy">>
       /\ pc \notin {"archiving", "test", "leave", "copy"} => finalizers = <<>>
  /\ spc["main"] # "no" =>
       /\ pc # "begin"
       /\ finalizers # <<"remove_copy">>
       /\ pc \notin {"archiving", "test", "found_broken"} => finalizers = <<>>
  /\ pc = "found_broken" => spc["main"] # "no"

\* What a thread has yet to run was registered when its shutdown began.  Only Ctrl-Break
\* can come while the archive is copied, and the reading thread is gone after archiving.
Pending ==
  /\ \A t \in Threads : spc[t] # "finalize" => todo[t] = <<>>
  /\ todo["main"] # <<>> => pc \in {"archiving", "test", "found_broken"}
  /\ reading \/ spc["reader"] # "no" => pc = "archiving"
  /\ todo["main"] # <<"remove_copy">> /\ todo["reader"] # <<"remove_copy">>
  /\ todo["break"] = <<"remove_copy">> =>
       pc \in {"copy", "remove_tmp", "retest", "finish"}

FirstPart == {"begin", "archiving", "test", "found_broken", "leave", "delete_files",
              "remove_old"}

\* Until the old archive is removed it is there, or what another program put in its
\* place, and so are the files until they are deleted; old_file tells whether it is.
Untouched ==
  /\ pc \in FirstPart => arc \in IF opt.old THEN {"old", "foreign"}
                                          ELSE {"none", "foreign"}
  /\ pc \in FirstPart /\ opt.old /\ arc = "foreign" => "replaced" \in seen
  /\ pc = "begin" => arc # "foreign"
  /\ pc \in FirstPart \ {"delete_files", "remove_old"} => src
  /\ pc # "begin" => oldFile = opt.old

\* Where the new archive is, if Ctrl-Break was not pressed.
Moved ==
  /\ pc = "archiving" /\ spc["main"] = "no" /\ spc["reader"] = "no" => tmp = "partial"
  /\ pc = "test" /\ spc["main"] = "no" => tmp \in {"new", "broken"}
  /\ pc \in {"leave", "delete_files", "remove_old", "rename", "copy", "remove_tmp"}
       => tmp = "new"
  /\ pc = "rename" => arc \in {"none", "foreign"}
  /\ pc = "copy" /\ spc["main"] = "no" => arc = "partial"
  /\ pc = "remove_tmp" => arc \in {"new", "bad_copy"}
  /\ arc = "bad_copy" => "differs" \in seen
  /\ pc = "retest" => /\ tmp = "none"
                      /\ spc["main"] = "no" => arc \in {"new", "bad_copy"}
                      /\ arc # "new" => "differs" \in seen
  /\ pc = "finish" => /\ tmp = "none"
                      /\ arc = "new" \/ (arc = "bad_copy" /\ ~(opt.test /\ opt.workdir))

IInv == /\ TypeOK /\ Registered /\ Pending /\ Untouched
        /\ ~Interrupted => Moved
        /\ ended = "normally" => pc = "finish"

-----------------------------------------------------------------------------
(***************************************************************************)
(* Steps.  Which list is left when a scope ends.                           *)
(***************************************************************************)
LEMMA Singleton ==
  ASSUME NEW S, NEW q \in Seq(S), NEW a \in S, Len(q) = 1, q[1] = a
  PROVE  q = <<a>>
OBVIOUS

\* The part of a list between an index and itself is the entry there.
LEMMA OnePart ==
  ASSUME NEW S, NEW q \in Seq(S), NEW i \in 1 .. Len(q)
  PROVE  SubSeq(q, i, i) = <<q[i]>>
<1>1. i \in Int /\ q[i] \in S /\ \A k \in i .. i : q[k] \in S
  BY LenProperties
<1>2. /\ SubSeq(q, i, i) \in Seq(S) /\ Len(SubSeq(q, i, i)) = 1
      /\ SubSeq(q, i, i)[1] = q[i]
  <2>. DEFINE r == SubSeq(q, i, i)
  <2>1. /\ r \in Seq(S) /\ Len(r) = IF i <= i THEN i - i + 1 ELSE 0
        /\ \A k \in 1 .. i - i + 1 : r[k] = q[i + k - 1]
    BY <1>1, SubSeqProperties
  <2>. HIDE DEF r
  <2>2. Len(r) = 1 /\ r[1] = q[i]
    BY <1>1, <2>1
  <2>. QED BY <2>1, <2>2 DEF r
<1>. QED BY <1>1, <1>2, Singleton

\* A list loses one of at most two entries: RemoveAt, written out for the
\* lengths the list of finalizers has.
LEMMA OneRemoved ==
  ASSUME NEW S, NEW q \in Seq(S)
  PROVE  /\ Len(q) = 1 => RemoveAt(q, 1) = <<>>
         /\ Len(q) = 2 => RemoveAt(q, 1) = <<q[2]>> /\ RemoveAt(q, 2) = <<q[1]>>
<1>1. /\ SubSeq(q, 1, 0) = <<>> /\ SubSeq(q, 2, 1) = <<>> /\ SubSeq(q, 3, 2) = <<>>
      /\ 1 - 1 = 0 /\ 1 + 1 = 2 /\ 2 - 1 = 1 /\ 2 + 1 = 3
  BY SubSeqEmpty
<1>2. CASE Len(q) = 1
  <2>1. RemoveAt(q, 1) = <<>> \o <<>>
    BY <1>1, <1>2 DEF RemoveAt
  <2>. QED BY <1>2, <2>1, ConcatEmptySeq
<1>3. CASE Len(q) = 2
  <2>1. SubSeq(q, 1, 1) = <<q[1]>> /\ SubSeq(q, 2, 2) = <<q[2]>>
    BY <1>3, OnePart
  <2>2. q[1] \in S /\ q[2] \in S
    BY <1>3, LenProperties
  <2>3. RemoveAt(q, 1) = <<>> \o <<q[2]>>
    BY <1>1, <1>3, <2>1 DEF RemoveAt
  <2>4. RemoveAt(q, 2) = <<q[1]>> \o <<>>
    BY <1>1, <1>3, <2>1 DEF RemoveAt
  <2>5. <<q[1]>> \in Seq(S) /\ <<q[2]>> \in Seq(S)
    BY <2>2
  <2>. QED BY <1>3, <2>3, <2>4, <2>5, ConcatEmptySeq
<1>. QED BY <1>2, <1>3

Names == {"terminate", "remove_tmp", "remove_copy"}

\* Leaving a scope takes its own finalizer off the list: removeFinalizer on
\* each list that it meets.
LEMMA Scope ==
  /\ RemoveFinalizer("terminate") /\ finalizers = <<"terminate", "remove_tmp">>
       => finalizers' = <<"remove_tmp">>
  /\ RemoveFinalizer("remove_tmp") /\ finalizers = <<"terminate", "remove_tmp">>
       => finalizers' = <<"terminate">>
  /\ \A name \in {"remove_tmp", "remove_copy"} :
       RemoveFinalizer(name) /\ finalizers = <<name>> => finalizers' = <<>>
<1>1. ASSUME finalizers = <<"terminate", "remove_tmp">>, RemoveFinalizer("terminate")
      PROVE  finalizers' = <<"remove_tmp">>
  <2>1. DOMAIN finalizers = {1, 2} /\ finalizers[1] = "terminate"
        /\ finalizers[2] = "remove_tmp"
    BY <1>1
  <2>2. Place("terminate") = 1
    BY <2>1 DEF Place
  <2>3. finalizers \in Seq(Names) /\ Len(finalizers) = 2
    BY <1>1 DEF Names
  <2>. QED BY <1>1, <2>1, <2>2, <2>3, OneRemoved DEF RemoveFinalizer
<1>2. ASSUME finalizers = <<"terminate", "remove_tmp">>, RemoveFinalizer("remove_tmp")
      PROVE  finalizers' = <<"terminate">>
  <2>1. DOMAIN finalizers = {1, 2} /\ finalizers[1] = "terminate"
        /\ finalizers[2] = "remove_tmp"
    BY <1>2
  <2>2. Place("remove_tmp") = 2
    BY <2>1 DEF Place
  <2>3. finalizers \in Seq(Names) /\ Len(finalizers) = 2
    BY <1>2 DEF Names
  <2>. QED BY <1>2, <2>1, <2>2, <2>3, OneRemoved DEF RemoveFinalizer
<1>3. ASSUME NEW name \in {"remove_tmp", "remove_copy"}, finalizers = <<name>>,
             RemoveFinalizer(name)
      PROVE  finalizers' = <<>>
  <2>1. DOMAIN finalizers = {1} /\ finalizers[1] = name
    BY <1>3
  <2>2. Place(name) = 1
    BY <2>1 DEF Place
  <2>3. finalizers \in Seq(Names) /\ Len(finalizers) = 1
    BY <1>3 DEF Names
  <2>. QED BY <1>3, <2>1, <2>2, <2>3, OneRemoved DEF RemoveFinalizer
<1>. QED BY <1>1, <1>2, <1>3

\* The copy is registered on a list that is empty then.
LEMMA Registering ==
  ASSUME finalizers = <<>>, AddFinalizer("remove_copy")
  PROVE  finalizers' = <<"remove_copy">>
BY ConcatEmptySeq DEF AddFinalizer

\* finalizePrograms runs the first finalizer: what is left is at most the
\* older of the two.
LEMMA ListTail ==
  ASSUME NEW l \in Lists, l # <<>>
  PROVE  Tail(l) \in {<<>>, <<"remove_tmp">>}
<1>1. ASSUME NEW a \in Names
      PROVE  Tail(<<a>>) = <<>>
  <2>1. <<a>> \in Seq(Names) /\ <<a>> # <<>> /\ Len(<<a>>) = 1
    OBVIOUS
  <2>2. Tail(<<a>>) \in Seq(Names) /\ Len(Tail(<<a>>)) = 0
    BY <2>1, HeadTailProperties
  <2>. QED BY <2>2, EmptySeq
<1>2. Tail(<<"terminate", "remove_tmp">>) = <<"remove_tmp">>
  <2>. DEFINE q == <<"terminate", "remove_tmp">>
  <2>1. q \in Seq(Names) /\ q # <<>> /\ Len(q) = 2 /\ q[2] = "remove_tmp"
    BY DEF Names
  <2>. HIDE DEF q
  <2>2. Tail(q) \in Seq(Names) /\ Len(Tail(q)) = 1 /\ Tail(q)[1] = q[2]
    BY <2>1, HeadTailProperties
  <2>3. Tail(q)[1] = "remove_tmp" /\ "remove_tmp" \in Names
    BY <2>1, <2>2 DEF Names
  <2>. DEFINE r == Tail(q)
  <2>. HIDE DEF r
  <2>4. r \in Seq(Names) /\ Len(r) = 1 /\ r[1] = "remove_tmp"
    BY <2>2, <2>3 DEF r
  <2>5. r = <<"remove_tmp">>
    BY <2>3, <2>4, Singleton
  <2>. QED BY <2>5 DEF q, r
<1>3. /\ Tail(<<"terminate">>) = <<>> /\ Tail(<<"remove_tmp">>) = <<>>
      /\ Tail(<<"remove_copy">>) = <<>>
  BY <1>1 DEF Names
<1>4. CASE l \in {<<"terminate">>, <<"remove_tmp">>, <<"remove_copy">>}
  BY <1>3, <1>4
<1>5. CASE l = <<"terminate", "remove_tmp">>
  BY <1>2, <1>5
<1>. QED BY <1>4, <1>5 DEF Lists

\* A scope is left with the finalizers it was entered with.
LEMMA RegisteredKept ==
  ASSUME IInv, [Next]_vars
  PROVE  Registered'
<1>1. TypeOK /\ Registered /\ Pending /\ Untouched /\ (~Interrupted => Moved)
  BY DEF IInv
<1>2. /\ spc \in [Threads -> {"no", "check", "first", "finalize", "exit"}]
      /\ todo \in [Threads -> Lists] /\ finalizers \in Lists
  BY <1>1 DEF TypeOK, Threads, Options
<1>3. RegisterError("main") =>
        /\ spc'["main"] = "check" /\ spc'["reader"] = spc["reader"]
        /\ spc'["break"] = spc["break"]
  BY <1>2 DEF RegisterError, Threads
<1>4. CASE BeginArchiving
  BY <1>1, <1>2, <1>4
  DEF BeginArchiving, At, Registered
<1>5. CASE ArchivingDone
  BY <1>1, <1>2, <1>5, Scope
  DEF ArchivingDone, At, Registered
<1>6. CASE ArchivingFails
  BY <1>1, <1>2, <1>3, <1>6, Scope
  DEF ArchivingFails, At, Registered
<1>7. CASE TestArchive
  BY <1>1, <1>2, <1>3, <1>7
  DEF TestArchive, At, Registered
<1>8. CASE LeaveFirstPart
  BY <1>1, <1>2, <1>3, <1>8, Scope
  DEF LeaveFirstPart, At, disk, Registered
<1>9. CASE DeleteArchivedFiles
  BY <1>1, <1>2, <1>3, <1>9
  DEF DeleteArchivedFiles, At, Registered
<1>10. CASE RemoveOld
  BY <1>1, <1>2, <1>3, <1>10
  DEF RemoveOld, At, Registered
<1>11. CASE Rename
  BY <1>1, <1>2, <1>11
  DEF Rename, At, Registered
<1>12. CASE StartCopy
  <2>1. finalizers = <<>> /\ pc = "rename" /\ spc["main"] = "no"
    BY <1>1, <1>12 DEF StartCopy, At, Registered
  <2>2. \/ spc'["main"] = "check" /\ UNCHANGED <<pc, finalizers>>
        \/ pc' = "copy" /\ finalizers' = <<"remove_copy">> /\ UNCHANGED spc
    BY <1>3, <1>12, <2>1, Registering DEF StartCopy
  <2>. QED BY <2>1, <2>2 DEF Registered
<1>13. CASE CopyDone
  BY <1>1, <1>2, <1>13, Scope
  DEF CopyDone, At, Registered
<1>14. CASE CopyFails
  BY <1>1, <1>2, <1>3, <1>14, Scope
  DEF CopyFails, At, Registered
<1>15. CASE RemoveTemporary
  BY <1>1, <1>2, <1>3, <1>15
  DEF RemoveTemporary, At, Registered
<1>16. CASE TestAgain
  BY <1>1, <1>2, <1>3, <1>16
  DEF TestAgain, At, Registered
<1>17. CASE ReaderFails
  BY <1>1, <1>2, <1>17
  DEF ReaderFails, RegisterError, disk, Registered
<1>18. CASE CreateForeign
  BY <1>1, <1>2, <1>18
  DEF CreateForeign, Registered
<1>19. CASE Break
  BY <1>1, <1>2, <1>19
  DEF Break, RegisterError, disk, Registered
<1>20. ASSUME NEW t \in Threads, ShutdownCheck(t)
      PROVE  Registered'
  BY <1>1, <1>2, <1>20
  DEF ShutdownCheck, disk, Registered
<1>21. ASSUME NEW t \in Threads, ShutdownFirst(t)
      PROVE  Registered'
  BY <1>1, <1>2, <1>21
  DEF ShutdownFirst, disk, Registered
<1>22. ASSUME NEW t \in Threads, RunFinalizer(t)
      PROVE  Registered'
  BY <1>1, <1>2, <1>22
  DEF RunFinalizer, Registered
<1>23. ASSUME NEW t \in Threads, Exit(t)
      PROVE  Registered'
  BY <1>1, <1>2, <1>23
  DEF Exit, disk, Registered
<1>24. CASE UNCHANGED vars
  BY <1>1, <1>24 DEF vars, disk, Registered
<1>25. CASE TestFails
  BY <1>1, <1>2, <1>3, <1>25, Scope
  DEF TestFails, At, Registered
<1>. QED
  BY <1>4, <1>5, <1>6, <1>7, <1>8, <1>9, <1>10, <1>11, <1>12, <1>13, <1>14, <1>15, <1>16,
     <1>17, <1>18, <1>19, <1>20, <1>21, <1>22, <1>23, <1>24, <1>25
  DEF Next, Shutdown

\* What is run was registered.
LEMMA PendingKept ==
  ASSUME IInv, [Next]_vars
  PROVE  Pending'
<1>1. TypeOK /\ Registered /\ Pending /\ Untouched /\ (~Interrupted => Moved)
  BY DEF IInv
<1>2. /\ spc \in [Threads -> {"no", "check", "first", "finalize", "exit"}]
      /\ todo \in [Threads -> Lists] /\ finalizers \in Lists
  BY <1>1 DEF TypeOK, Threads, Options
<1>3. RegisterError("main") =>
        /\ spc'["main"] = "check" /\ spc'["reader"] = spc["reader"]
        /\ spc'["break"] = spc["break"]
  BY <1>2 DEF RegisterError, Threads
<1>4. CASE BeginArchiving
  BY <1>1, <1>2, <1>4
  DEF BeginArchiving, At, Pending, Registered, Threads
<1>5. CASE ArchivingDone
  BY <1>1, <1>2, <1>5, Scope
  DEF ArchivingDone, At, Pending, Registered, Threads
<1>6. CASE ArchivingFails
  BY <1>1, <1>2, <1>3, <1>6, Scope
  DEF ArchivingFails, At, Pending, Registered, Threads
<1>7. CASE TestArchive
  BY <1>1, <1>2, <1>3, <1>7
  DEF TestArchive, At, Pending, Registered, Threads
<1>8. CASE LeaveFirstPart
  BY <1>1, <1>2, <1>3, <1>8, Scope
  DEF LeaveFirstPart, At, disk, Pending, Registered, Threads
<1>9. CASE DeleteArchivedFiles
  BY <1>1, <1>2, <1>3, <1>9
  DEF DeleteArchivedFiles, At, Pending, Registered, Threads
<1>10. CASE RemoveOld
  BY <1>1, <1>2, <1>3, <1>10
  DEF RemoveOld, At, Pending, Registered, Threads
<1>11. CASE Rename
  BY <1>1, <1>2, <1>11
  DEF Rename, At, Pending, Registered, Threads
<1>12. CASE StartCopy
  BY <1>1, <1>2, <1>3, <1>12, Registering
  DEF StartCopy, At, Pending, Registered, Threads
<1>13. CASE CopyDone
  BY <1>1, <1>2, <1>13, Scope
  DEF CopyDone, At, Pending, Registered, Threads
<1>14. CASE CopyFails
  BY <1>1, <1>2, <1>3, <1>14, Scope
  DEF CopyFails, At, Pending, Registered, Threads
<1>15. CASE RemoveTemporary
  BY <1>1, <1>2, <1>3, <1>15
  DEF RemoveTemporary, At, Pending, Registered, Threads
<1>16. CASE TestAgain
  BY <1>1, <1>2, <1>3, <1>16
  DEF TestAgain, At, Pending, Registered, Threads
<1>17. CASE ReaderFails
  BY <1>1, <1>2, <1>17
  DEF ReaderFails, RegisterError, disk, Pending, Registered, Threads
<1>18. CASE CreateForeign
  BY <1>1, <1>2, <1>18
  DEF CreateForeign, Pending, Registered, Threads
<1>19. CASE Break
  BY <1>1, <1>2, <1>19
  DEF Break, RegisterError, disk, Pending, Registered, Threads
<1>20. ASSUME NEW t \in Threads, ShutdownCheck(t)
      PROVE  Pending'
  BY <1>1, <1>2, <1>20
  DEF ShutdownCheck, disk, Pending, Registered, Threads
<1>21. ASSUME NEW t \in Threads, ShutdownFirst(t)
      PROVE  Pending'
  <2>1. /\ t \in {"main", "reader", "break"} /\ spc[t] = "first"
        /\ spc' = [spc EXCEPT ![t] = "finalize"] /\ todo' = [todo EXCEPT ![t] = finalizers]
        /\ UNCHANGED <<pc, reading, finalizers>>
    BY <1>21 DEF ShutdownFirst, Threads
  <2>2. finalizers = <<"remove_copy">> => pc = "copy" /\ spc["main"] = "no"
    BY <1>1 DEF Registered
  <2>3. \A u \in Threads : spc'[u] # "finalize" => todo'[u] = <<>>
    BY <1>1, <1>2, <2>1 DEF Pending
  <2>4. CASE t = "main"
    BY <1>1, <1>2, <2>1, <2>2, <2>3, <2>4 DEF Pending, Registered, Threads
  <2>5. CASE t = "reader"
    BY <1>1, <1>2, <2>1, <2>2, <2>3, <2>5 DEF Pending, Registered, Threads
  <2>6. CASE t = "break"
    BY <1>1, <1>2, <2>1, <2>2, <2>3, <2>6 DEF Pending, Registered, Threads
  <2>. QED BY <2>1, <2>4, <2>5, <2>6
<1>22. ASSUME NEW t \in Threads, RunFinalizer(t)
      PROVE  Pending'
  <2>1. /\ t \in {"main", "reader", "break"} /\ spc[t] = "finalize" /\ todo[t] # <<>>
        /\ todo' = [todo EXCEPT ![t] = Tail(todo[t])] /\ UNCHANGED <<pc, reading, spc>>
    BY <1>22 DEF RunFinalizer, Threads
  <2>2. Tail(todo[t]) # <<"remove_copy">>
    BY <1>2, <2>1, ListTail
  <2>. QED BY <1>1, <1>2, <2>1, <2>2 DEF Pending, Threads
<1>23. ASSUME NEW t \in Threads, Exit(t)
      PROVE  Pending'
  BY <1>1, <1>2, <1>23
  DEF Exit, disk, Pending, Registered, Threads
<1>24. CASE UNCHANGED vars
  BY <1>1, <1>24 DEF vars, disk, Pending, Registered, Threads
<1>25. CASE TestFails
  BY <1>1, <1>2, <1>3, <1>25, Scope
  DEF TestFails, At, Pending, Registered, Threads
<1>. QED
  BY <1>4, <1>5, <1>6, <1>7, <1>8, <1>9, <1>10, <1>11, <1>12, <1>13, <1>14, <1>15, <1>16,
     <1>17, <1>18, <1>19, <1>20, <1>21, <1>22, <1>23, <1>24, <1>25
  DEF Next, Shutdown

\* The first part touches nothing but the temporary file.
LEMMA UntouchedKept ==
  ASSUME IInv, [Next]_vars
  PROVE  Untouched'
<1>1. TypeOK /\ Registered /\ Pending /\ Untouched /\ (~Interrupted => Moved)
  BY DEF IInv
<1>2. /\ spc \in [Threads -> {"no", "check", "first", "finalize", "exit"}]
      /\ todo \in [Threads -> Lists] /\ finalizers \in Lists
      /\ opt.old \in BOOLEAN
  BY <1>1 DEF TypeOK, Threads, Options
<1>3. RegisterError("main") =>
        /\ spc'["main"] = "check" /\ spc'["reader"] = spc["reader"]
        /\ spc'["break"] = spc["break"]
  BY <1>2 DEF RegisterError, Threads
<1>4. CASE BeginArchiving
  BY <1>1, <1>2, <1>4
  DEF BeginArchiving, At, Untouched, Pending, FirstPart
<1>5. CASE ArchivingDone
  BY <1>1, <1>2, <1>5, Scope
  DEF ArchivingDone, At, Untouched, Pending, FirstPart
<1>6. CASE ArchivingFails
  BY <1>1, <1>2, <1>3, <1>6, Scope
  DEF ArchivingFails, At, Untouched, Pending, FirstPart
<1>7. CASE TestArchive
  BY <1>1, <1>2, <1>3, <1>7
  DEF TestArchive, At, Untouched, Pending, FirstPart
<1>8. CASE LeaveFirstPart
  BY <1>1, <1>2, <1>3, <1>8, Scope
  DEF LeaveFirstPart, At, disk, Untouched, Pending, FirstPart
<1>9. CASE DeleteArchivedFiles
  BY <1>1, <1>2, <1>3, <1>9
  DEF DeleteArchivedFiles, At, Untouched, Pending, FirstPart
<1>10. CASE RemoveOld
  BY <1>1, <1>2, <1>3, <1>10
  DEF RemoveOld, At, Untouched, Pending, FirstPart
<1>11. CASE Rename
  BY <1>1, <1>2, <1>11
  DEF Rename, At, Untouched, Pending, FirstPart
<1>12. CASE StartCopy
  BY <1>1, <1>2, <1>3, <1>12, Registering
  DEF StartCopy, At, Untouched, Pending, FirstPart
<1>13. CASE CopyDone
  BY <1>1, <1>2, <1>13, Scope
  DEF CopyDone, At, Untouched, Pending, FirstPart
<1>14. CASE CopyFails
  BY <1>1, <1>2, <1>3, <1>14, Scope
  DEF CopyFails, At, Untouched, Pending, FirstPart
<1>15. CASE RemoveTemporary
  BY <1>1, <1>2, <1>3, <1>15
  DEF RemoveTemporary, At, Untouched, Pending, FirstPart
<1>16. CASE TestAgain
  BY <1>1, <1>2, <1>3, <1>16
  DEF TestAgain, At, Untouched, Pending, FirstPart
<1>17. CASE ReaderFails
  BY <1>1, <1>2, <1>17
  DEF ReaderFails, RegisterError, disk, Untouched, Pending, FirstPart
<1>18. CASE CreateForeign
  BY <1>1, <1>2, <1>18
  DEF CreateForeign, Untouched, Pending, FirstPart
<1>19. CASE Break
  BY <1>1, <1>2, <1>19
  DEF Break, RegisterError, disk, Untouched, Pending, FirstPart
<1>20. ASSUME NEW t \in Threads, ShutdownCheck(t)
      PROVE  Untouched'
  BY <1>1, <1>2, <1>20
  DEF ShutdownCheck, disk, Untouched, Pending, FirstPart
<1>21. ASSUME NEW t \in Threads, ShutdownFirst(t)
      PROVE  Untouched'
  BY <1>1, <1>2, <1>21
  DEF ShutdownFirst, disk, Untouched, Pending, FirstPart
<1>22. ASSUME NEW t \in Threads, RunFinalizer(t)
      PROVE  Untouched'
  <2>1. Head(todo[t]) = "remove_copy" => todo[t] = <<"remove_copy">>
    BY <1>2, <1>22 DEF RunFinalizer, Lists
  <2>2. Head(todo[t]) = "remove_copy" => t = "break"
    BY <1>1, <2>1 DEF Pending, Threads
  <2>3. Head(todo[t]) = "remove_copy" => pc \notin FirstPart
    BY <1>1, <2>1, <2>2 DEF Pending, FirstPart
  <2>. QED BY <1>1, <1>22, <2>3 DEF RunFinalizer, Untouched, FirstPart
<1>23. ASSUME NEW t \in Threads, Exit(t)
      PROVE  Untouched'
  BY <1>1, <1>2, <1>23
  DEF Exit, disk, Untouched, Pending, FirstPart
<1>24. CASE UNCHANGED vars
  BY <1>1, <1>24 DEF vars, disk, Untouched, Pending, FirstPart
<1>25. CASE TestFails
  BY <1>1, <1>2, <1>3, <1>25, Scope
  DEF TestFails, At, Untouched, Pending, FirstPart
<1>. QED
  BY <1>4, <1>5, <1>6, <1>7, <1>8, <1>9, <1>10, <1>11, <1>12, <1>13, <1>14, <1>15, <1>16,
     <1>17, <1>18, <1>19, <1>20, <1>21, <1>22, <1>23, <1>24, <1>25
  DEF Next, Shutdown

\* The new archive is always somewhere.
LEMMA MovedKept ==
  ASSUME IInv, [Next]_vars
  PROVE  (~Interrupted => Moved)'
<1>1. TypeOK /\ Registered /\ Pending /\ Untouched /\ (~Interrupted => Moved)
  BY DEF IInv
<1>2. /\ spc \in [Threads -> {"no", "check", "first", "finalize", "exit"}]
      /\ todo \in [Threads -> Lists] /\ finalizers \in Lists
  BY <1>1 DEF TypeOK, Threads, Options
<1>3. RegisterError("main") =>
        /\ spc'["main"] = "check" /\ spc'["reader"] = spc["reader"]
        /\ spc'["break"] = spc["break"]
  BY <1>2 DEF RegisterError, Threads
<1>4. CASE BeginArchiving
  BY <1>1, <1>2, <1>4
  DEF BeginArchiving, At, Moved, Interrupted, Untouched, Pending, FirstPart
<1>5. CASE ArchivingDone
  BY <1>1, <1>2, <1>5, Scope
  DEF ArchivingDone, At, Moved, Interrupted, Untouched, Pending, FirstPart
<1>6. CASE ArchivingFails
  BY <1>1, <1>2, <1>3, <1>6, Scope
  DEF ArchivingFails, At, Moved, Interrupted, Untouched, Pending, FirstPart
<1>7. CASE TestArchive
  BY <1>1, <1>2, <1>3, <1>7
  DEF TestArchive, At, Moved, Interrupted, Untouched, Pending, FirstPart
<1>8. CASE LeaveFirstPart
  BY <1>1, <1>2, <1>3, <1>8, Scope
  DEF LeaveFirstPart, At, disk, Moved, Interrupted, Untouched, Pending, FirstPart
<1>9. CASE DeleteArchivedFiles
  BY <1>1, <1>2, <1>3, <1>9
  DEF DeleteArchivedFiles, At, Moved, Interrupted, Untouched, Pending, FirstPart
<1>10. CASE RemoveOld
  BY <1>1, <1>2, <1>3, <1>10
  DEF RemoveOld, At, Moved, Interrupted, Untouched, Pending, FirstPart
<1>11. CASE Rename
  BY <1>1, <1>2, <1>11
  DEF Rename, At, Moved, Interrupted, Untouched, Pending, FirstPart
<1>12. CASE StartCopy
  BY <1>1, <1>2, <1>3, <1>12, Registering
  DEF StartCopy, At, Moved, Interrupted, Untouched, Pending, FirstPart
<1>13. CASE CopyDone
  BY <1>1, <1>2, <1>13, Scope
  DEF CopyDone, At, Moved, Interrupted, Untouched, Pending, FirstPart
<1>14. CASE CopyFails
  BY <1>1, <1>2, <1>3, <1>14, Scope
  DEF CopyFails, At, Moved, Interrupted, Untouched, Pending, FirstPart
<1>15. CASE RemoveTemporary
  BY <1>1, <1>2, <1>3, <1>15
  DEF RemoveTemporary, At, Moved, Interrupted, Untouched, Pending, FirstPart
<1>16. CASE TestAgain
  BY <1>1, <1>2, <1>3, <1>16
  DEF TestAgain, At, Moved, Interrupted, Untouched, Pending, FirstPart
<1>17. CASE ReaderFails
  BY <1>1, <1>2, <1>17
  DEF ReaderFails, RegisterError, disk, Moved, Interrupted, Untouched, Pending, FirstPart
<1>18. CASE CreateForeign
  BY <1>1, <1>2, <1>18
  DEF CreateForeign, Moved, Interrupted, Untouched, Pending, FirstPart
<1>19. CASE Break
  BY <1>1, <1>2, <1>19
  DEF Break, RegisterError, disk, Moved, Interrupted, Untouched, Pending, FirstPart
<1>20. ASSUME NEW t \in Threads, ShutdownCheck(t)
      PROVE  (~Interrupted => Moved)'
  BY <1>1, <1>2, <1>20
  DEF ShutdownCheck, disk, Moved, Interrupted, Untouched, Pending, FirstPart
<1>21. ASSUME NEW t \in Threads, ShutdownFirst(t)
      PROVE  (~Interrupted => Moved)'
  BY <1>1, <1>2, <1>21
  DEF ShutdownFirst, disk, Moved, Interrupted, Untouched, Pending, FirstPart
<1>22. ASSUME NEW t \in Threads, RunFinalizer(t)
      PROVE  (~Interrupted => Moved)'
  <2>. SUFFICES ASSUME ~Interrupted
                PROVE  Moved'
    BY <1>22 DEF RunFinalizer, Interrupted
  <2>1. t \in {"main", "reader"} /\ spc[t] = "finalize" /\ todo[t] # <<>>
    BY <1>22 DEF RunFinalizer, Interrupted, Threads
  <2>2. /\ pc \in {"archiving", "test", "found_broken"}
        /\ pc = "test" => spc["main"] # "no"
    BY <1>1, <2>1 DEF Pending
  <2>3. Head(todo[t]) # "remove_copy"
    BY <1>1, <1>2, <2>1 DEF Pending, Lists
  <2>4. /\ UNCHANGED <<seen, pc, spc>> /\ arc' = arc
        /\ pc = "archiving" /\ spc["main"] = "no" => t = "reader"
    BY <1>22, <2>1, <2>3 DEF RunFinalizer
  <2>. QED BY <1>1, <2>1, <2>2, <2>4 DEF Moved
<1>23. ASSUME NEW t \in Threads, Exit(t)
      PROVE  (~Interrupted => Moved)'
  BY <1>1, <1>2, <1>23
  DEF Exit, disk, Moved, Interrupted, Untouched, Pending, FirstPart
<1>24. CASE UNCHANGED vars
  BY <1>1, <1>24 DEF vars, disk, Moved, Interrupted, Untouched, Pending, FirstPart
<1>25. CASE TestFails
  BY <1>1, <1>2, <1>3, <1>25, Scope
  DEF TestFails, At, Moved, Interrupted, Untouched, Pending, FirstPart
<1>. QED
  BY <1>4, <1>5, <1>6, <1>7, <1>8, <1>9, <1>10, <1>11, <1>12, <1>13, <1>14, <1>15, <1>16,
     <1>17, <1>18, <1>19, <1>20, <1>21, <1>22, <1>23, <1>24, <1>25
  DEF Next, Shutdown

\* Every step keeps the types.
LEMMA TypeKept ==
  ASSUME IInv, [Next]_vars
  PROVE  TypeOK'
<1>. DEFINE Shutdowns == {"no", "check", "first", "finalize", "exit"}
<1>1. TypeOK /\ Registered
  BY DEF IInv
<1>2. spc \in [Threads -> Shutdowns] /\ todo \in [Threads -> Lists] /\ finalizers \in Lists
  BY <1>1 DEF TypeOK
<1>3. \A t \in Threads : RegisterError(t) => spc' \in [Threads -> Shutdowns]
  BY <1>2 DEF RegisterError
<1>4. CASE BeginArchiving
  <2>1. spc' \in [Threads -> Shutdowns]
    BY <1>2, <1>3, <1>4 DEF BeginArchiving, Threads
  <2>2. finalizers' \in Lists
    BY <1>2, <1>4 DEF BeginArchiving, Lists
  <2>. QED BY <1>1, <1>4, <2>1, <2>2 DEF TypeOK, Contents, Options, BeginArchiving, At
<1>5. CASE ArchivingDone
  <2>1. spc' \in [Threads -> Shutdowns]
    BY <1>2, <1>3, <1>5 DEF ArchivingDone, Threads
  <2>2. finalizers' \in Lists
    BY <1>1, <1>2, <1>5, Scope DEF ArchivingDone, At, Lists, Registered
  <2>3. tmp' \in Contents \ {"old", "foreign"}
    BY <1>1, <1>5 DEF TypeOK, Contents, ArchivingDone
  <2>4. UNCHANGED <<opt, seen, arc, src, oldFile, terminated, finished, todo, ended>>
    BY <1>5 DEF ArchivingDone
  <2>5. reading' = FALSE /\ pc' \in {"test", "leave"}
    BY <1>5 DEF ArchivingDone
  <2>. QED BY <1>1, <2>1, <2>2, <2>3, <2>4, <2>5 DEF TypeOK
<1>6. CASE ArchivingFails
  <2>1. spc' \in [Threads -> Shutdowns]
    BY <1>2, <1>3, <1>6 DEF ArchivingFails, Threads
  <2>2. finalizers' \in Lists
    BY <1>1, <1>2, <1>6, Scope DEF ArchivingFails, At, Lists, Registered
  <2>. QED BY <1>1, <1>6, <2>1, <2>2 DEF TypeOK, Contents, Options, ArchivingFails, At
<1>7. CASE TestArchive
  <2>1. spc' \in [Threads -> Shutdowns]
    BY <1>2, <1>3, <1>7 DEF TestArchive, Threads
  <2>2. finalizers' \in Lists
    BY <1>2, <1>7 DEF TestArchive, Lists
  <2>. QED BY <1>1, <1>7, <2>1, <2>2 DEF TypeOK, Contents, Options, TestArchive, At
<1>8. CASE LeaveFirstPart
  <2>1. spc' \in [Threads -> Shutdowns]
    BY <1>2, <1>3, <1>8 DEF LeaveFirstPart, Threads
  <2>2. finalizers' \in Lists
    BY <1>1, <1>2, <1>8, Scope DEF LeaveFirstPart, At, Lists, Registered
  <2>. QED BY <1>1, <1>8, <2>1, <2>2 DEF TypeOK, Contents, Options, LeaveFirstPart, At, disk
<1>9. CASE DeleteArchivedFiles
  <2>1. spc' \in [Threads -> Shutdowns]
    BY <1>2, <1>3, <1>9 DEF DeleteArchivedFiles, Threads
  <2>2. finalizers' \in Lists
    BY <1>2, <1>9 DEF DeleteArchivedFiles, Lists
  <2>3. src' \in BOOLEAN /\ pc' \in {"delete_files", "remove_old"}
    BY <1>1, <1>9 DEF TypeOK, Options, DeleteArchivedFiles, At
  <2>. QED BY <1>1, <1>9, <2>1, <2>2, <2>3 DEF TypeOK, DeleteArchivedFiles
<1>10. CASE RemoveOld
  <2>1. spc' \in [Threads -> Shutdowns]
    BY <1>2, <1>3, <1>10 DEF RemoveOld, Threads
  <2>2. finalizers' \in Lists
    BY <1>2, <1>10 DEF RemoveOld, Lists
  <2>. QED BY <1>1, <1>10, <2>1, <2>2 DEF TypeOK, Contents, Options, RemoveOld, At
<1>11. CASE Rename
  <2>1. spc' \in [Threads -> Shutdowns]
    BY <1>2, <1>3, <1>11 DEF Rename, Threads
  <2>2. finalizers' \in Lists
    BY <1>2, <1>11 DEF Rename, Lists
  <2>. QED BY <1>1, <1>11, <2>1, <2>2 DEF TypeOK, Contents, Options, Rename, At
<1>12. CASE StartCopy
  <2>1. spc' \in [Threads -> Shutdowns]
    BY <1>2, <1>3, <1>12 DEF StartCopy, Threads
  <2>2. finalizers' \in Lists
    BY <1>1, <1>2, <1>12, Registering DEF StartCopy, At, Lists, Registered
  <2>. QED BY <1>1, <1>12, <2>1, <2>2 DEF TypeOK, Contents, Options, StartCopy, At
<1>13. CASE CopyDone
  <2>1. spc' \in [Threads -> Shutdowns]
    BY <1>2, <1>3, <1>13 DEF CopyDone, Threads
  <2>2. finalizers' \in Lists
    BY <1>1, <1>2, <1>13, Scope DEF CopyDone, At, Lists, Registered
  <2>3. arc' \in Contents /\ seen' \subseteq {"replaced", "differs"}
    BY <1>1, <1>13 DEF TypeOK, Contents, CopyDone
  <2>. QED BY <1>1, <1>13, <2>1, <2>2, <2>3 DEF TypeOK, CopyDone
<1>14. CASE CopyFails
  <2>1. spc' \in [Threads -> Shutdowns]
    BY <1>2, <1>3, <1>14 DEF CopyFails, Threads
  <2>2. finalizers' \in Lists
    BY <1>1, <1>2, <1>14, Scope DEF CopyFails, At, Lists, Registered
  <2>. QED BY <1>1, <1>14, <2>1, <2>2 DEF TypeOK, Contents, Options, CopyFails, At
<1>15. CASE RemoveTemporary
  <2>1. spc' \in [Threads -> Shutdowns]
    BY <1>2, <1>3, <1>15 DEF RemoveTemporary, Threads
  <2>2. finalizers' \in Lists
    BY <1>2, <1>15 DEF RemoveTemporary, Lists
  <2>. QED BY <1>1, <1>15, <2>1, <2>2 DEF TypeOK, Contents, Options, RemoveTemporary, At
<1>16. CASE TestAgain
  <2>1. spc' \in [Threads -> Shutdowns]
    BY <1>2, <1>3, <1>16 DEF TestAgain, Threads
  <2>2. finalizers' \in Lists
    BY <1>2, <1>16 DEF TestAgain, Lists
  <2>. QED BY <1>1, <1>16, <2>1, <2>2 DEF TypeOK, Contents, Options, TestAgain, At
<1>17. CASE ReaderFails
  <2>1. spc' \in [Threads -> Shutdowns]
    BY <1>2, <1>3, <1>17 DEF ReaderFails, Threads
  <2>2. finalizers' \in Lists
    BY <1>2, <1>17 DEF ReaderFails, Lists
  <2>. QED BY <1>1, <1>17, <2>1, <2>2 DEF TypeOK, Contents, Options, ReaderFails, disk
<1>18. CASE CreateForeign
  <2>1. spc' \in [Threads -> Shutdowns]
    BY <1>2, <1>3, <1>18 DEF CreateForeign, Threads
  <2>2. finalizers' \in Lists
    BY <1>2, <1>18 DEF CreateForeign, Lists
  <2>. QED BY <1>1, <1>18, <2>1, <2>2 DEF TypeOK, Contents, Options, CreateForeign
<1>19. CASE Break
  <2>1. spc' \in [Threads -> Shutdowns]
    BY <1>2, <1>3, <1>19 DEF Break, Threads
  <2>2. finalizers' \in Lists
    BY <1>2, <1>19 DEF Break, Lists
  <2>. QED BY <1>1, <1>19, <2>1, <2>2 DEF TypeOK, Contents, Options, Break, disk
<1>20. ASSUME NEW t \in Threads, ShutdownCheck(t)
      PROVE  TypeOK'
  BY <1>1, <1>20 DEF TypeOK, ShutdownCheck, disk
<1>21. ASSUME NEW t \in Threads, ShutdownFirst(t)
      PROVE  TypeOK'
  BY <1>1, <1>21 DEF TypeOK, ShutdownFirst, disk
<1>22. ASSUME NEW t \in Threads, RunFinalizer(t)
      PROVE  TypeOK'
  <2>1. Tail(todo[t]) \in Lists
    BY <1>2, <1>22, ListTail DEF RunFinalizer, Lists
  <2>. QED BY <1>1, <1>22, <2>1 DEF TypeOK, Contents, RunFinalizer
<1>23. ASSUME NEW t \in Threads, Exit(t)
      PROVE  TypeOK'
  BY <1>1, <1>23 DEF TypeOK, Exit, disk
<1>24. CASE UNCHANGED vars
  BY <1>1, <1>24 DEF vars, disk, TypeOK
<1>25. CASE TestFails
  <2>1. spc' \in [Threads -> Shutdowns]
    BY <1>2, <1>3, <1>25 DEF TestFails, Threads
  <2>2. finalizers' \in Lists
    BY <1>1, <1>2, <1>25, Scope DEF TestFails, At, Lists, Registered
  <2>. QED BY <1>1, <1>25, <2>1, <2>2 DEF TypeOK, Contents, Options, TestFails, At
<1>. QED
  BY <1>4, <1>5, <1>6, <1>7, <1>8, <1>9, <1>10, <1>11, <1>12, <1>13, <1>14, <1>15, <1>16,
     <1>17, <1>18, <1>19, <1>20, <1>21, <1>22, <1>23, <1>24, <1>25
  DEF Next, Shutdown

ForeignLeft == arc = "foreign" /\ ~Unlooked /\ ~Interrupted => arc' = "foreign"

\* No step but those that do not look removes or replaces the archive of another program.
LEMMA ForeignStep ==
  ASSUME IInv, [Next]_vars
  PROVE  ForeignLeft
<1>1. TypeOK /\ Registered /\ Pending /\ Untouched /\ (~Interrupted => Moved)
  BY DEF IInv
<1>2. /\ spc \in [Threads -> {"no", "check", "first", "finalize", "exit"}]
      /\ todo \in [Threads -> Lists] /\ finalizers \in Lists
      /\ opt.old \in BOOLEAN
  BY <1>1 DEF TypeOK, Threads, Options
<1>3. RegisterError("main") =>
        /\ spc'["main"] = "check" /\ spc'["reader"] = spc["reader"]
        /\ spc'["break"] = spc["break"]
  BY <1>2 DEF RegisterError, Threads
<1>4. CASE BeginArchiving
  BY <1>1, <1>2, <1>4
  DEF BeginArchiving, At, ForeignLeft, Unlooked, Interrupted, Moved, Untouched, FirstPart
<1>5. CASE ArchivingDone
  BY <1>1, <1>2, <1>5, Scope
  DEF ArchivingDone, At, ForeignLeft, Unlooked, Interrupted, Moved, Untouched, FirstPart
<1>6. CASE ArchivingFails
  BY <1>1, <1>2, <1>3, <1>6, Scope
  DEF ArchivingFails, At, ForeignLeft, Unlooked, Interrupted, Moved, Untouched, FirstPart
<1>7. CASE TestArchive
  BY <1>1, <1>2, <1>3, <1>7
  DEF TestArchive, At, ForeignLeft, Unlooked, Interrupted, Moved, Untouched, FirstPart
<1>8. CASE LeaveFirstPart
  BY <1>1, <1>2, <1>3, <1>8, Scope
  DEF LeaveFirstPart, At, disk, ForeignLeft, Unlooked, Interrupted, Moved, Untouched, FirstPart
<1>9. CASE DeleteArchivedFiles
  BY <1>1, <1>2, <1>3, <1>9
  DEF DeleteArchivedFiles, At, ForeignLeft, Unlooked, Interrupted, Moved, Untouched, FirstPart
<1>10. CASE RemoveOld
  BY <1>1, <1>2, <1>3, <1>10
  DEF RemoveOld, At, ForeignLeft, Unlooked, Interrupted, Moved, Untouched, FirstPart
<1>11. CASE Rename
  BY <1>1, <1>2, <1>11
  DEF Rename, At, ForeignLeft, Unlooked, Interrupted, Moved, Untouched, FirstPart
<1>12. CASE StartCopy
  BY <1>1, <1>2, <1>3, <1>12, Registering
  DEF StartCopy, At, ForeignLeft, Unlooked, Interrupted, Moved, Untouched, FirstPart
<1>13. CASE CopyDone
  BY <1>1, <1>2, <1>13, Scope
  DEF CopyDone, At, ForeignLeft, Unlooked, Interrupted, Moved, Untouched, FirstPart
<1>14. CASE CopyFails
  BY <1>1, <1>2, <1>3, <1>14, Scope
  DEF CopyFails, At, ForeignLeft, Unlooked, Interrupted, Moved, Untouched, FirstPart
<1>15. CASE RemoveTemporary
  BY <1>1, <1>2, <1>3, <1>15
  DEF RemoveTemporary, At, ForeignLeft, Unlooked, Interrupted, Moved, Untouched, FirstPart
<1>16. CASE TestAgain
  BY <1>1, <1>2, <1>3, <1>16
  DEF TestAgain, At, ForeignLeft, Unlooked, Interrupted, Moved, Untouched, FirstPart
<1>17. CASE ReaderFails
  BY <1>1, <1>2, <1>17
  DEF ReaderFails, RegisterError, disk, ForeignLeft, Unlooked, Interrupted, Moved, Untouched,
      FirstPart
<1>18. CASE CreateForeign
  BY <1>1, <1>2, <1>18
  DEF CreateForeign, At, ForeignLeft, Unlooked, Interrupted, Moved, Untouched, FirstPart
<1>19. CASE Break
  BY <1>1, <1>2, <1>19
  DEF Break, RegisterError, disk, ForeignLeft, Unlooked, Interrupted, Moved, Untouched, FirstPart
<1>20. ASSUME NEW t \in Threads, ShutdownCheck(t)
      PROVE  ForeignLeft
  BY <1>1, <1>2, <1>20
  DEF ShutdownCheck, disk, ForeignLeft, Unlooked, Interrupted, Moved, Untouched, FirstPart
<1>21. ASSUME NEW t \in Threads, ShutdownFirst(t)
      PROVE  ForeignLeft
  BY <1>1, <1>2, <1>21
  DEF ShutdownFirst, disk, ForeignLeft, Unlooked, Interrupted, Moved, Untouched, FirstPart
<1>22. ASSUME NEW t \in Threads, RunFinalizer(t)
      PROVE  ForeignLeft
  <2>. SUFFICES ASSUME ~Interrupted
                PROVE  ForeignLeft
    BY DEF ForeignLeft
  <2>1. t \in {"main", "reader"} /\ todo[t] # <<>>
    BY <1>22 DEF RunFinalizer, Interrupted, Threads, Pending, Registered
  <2>2. todo[t] # <<"remove_copy">>
    BY <1>1, <2>1 DEF Pending
  <2>3. Head(todo[t]) # "remove_copy"
    BY <1>2, <2>1, <2>2, <1>22 DEF Lists
  <2>. QED BY <1>22, <2>3 DEF RunFinalizer, ForeignLeft
<1>23. ASSUME NEW t \in Threads, Exit(t)
      PROVE  ForeignLeft
  BY <1>1, <1>2, <1>23
  DEF Exit, disk, ForeignLeft, Unlooked, Interrupted, Moved, Untouched, FirstPart
<1>24. CASE UNCHANGED vars
  BY <1>1, <1>24 DEF vars, disk, ForeignLeft, Unlooked, Interrupted, Moved, Untouched, FirstPart
<1>25. CASE TestFails
  BY <1>1, <1>2, <1>3, <1>25, Scope
  DEF TestFails, At, ForeignLeft, Unlooked, Interrupted, Moved, Untouched, FirstPart
<1>. QED
  BY <1>4, <1>5, <1>6, <1>7, <1>8, <1>9, <1>10, <1>11, <1>12, <1>13, <1>14, <1>15, <1>16,
     <1>17, <1>18, <1>19, <1>20, <1>21, <1>22, <1>23, <1>24, <1>25
  DEF Next, Shutdown

-----------------------------------------------------------------------------
(***************************************************************************)
(* Theorems.                                                               *)
(***************************************************************************)
LEMMA InitInv ==
  ASSUME Init
  PROVE  IInv
<1>1. /\ opt \in Options /\ arc = IF opt.old THEN "old" ELSE "none"
      /\ tmp = "none" /\ src = TRUE /\ pc = "begin" /\ oldFile = FALSE /\ reading = FALSE
      /\ finalizers = <<>> /\ terminated = FALSE /\ finished = FALSE /\ ended = "no"
      /\ spc = [t \in Threads |-> "no"] /\ todo = [t \in Threads |-> <<>>]
      /\ seen = {}
  BY DEF Init
<1>2. TypeOK
  BY <1>1 DEF TypeOK, Contents, Lists
<1>3. \A t \in Threads : spc[t] = "no" /\ todo[t] = <<>>
  BY <1>1
<1>4. Registered
  BY <1>1, <1>3 DEF Registered, Threads
<1>5. Pending
  BY <1>1, <1>3 DEF Pending, Threads
<1>6. Untouched
  BY <1>1 DEF Untouched, FirstPart
<1>7. Moved
  BY <1>1 DEF Moved
<1>. QED BY <1>1, <1>2, <1>4, <1>5, <1>6, <1>7 DEF IInv

\* Only the main thread ends the program normally, when all is done.
LEMMA EndKept ==
  ASSUME IInv, [Next]_vars
  PROVE  (ended = "normally" => pc = "finish")'
<1>1. ended = "normally" => pc = "finish"
  BY DEF IInv
<1>2. CASE UNCHANGED vars
  BY <1>1, <1>2 DEF vars
<1>3. ASSUME NEW t \in Threads, Exit(t)
      PROVE  (ended = "normally" => pc = "finish")'
  BY <1>3 DEF Exit
<1>4. ASSUME Running, ended' = ended
      PROVE  (ended = "normally" => pc = "finish")'
  BY <1>4 DEF Running
<1>. QED
  BY <1>2, <1>3, <1>4
  DEF Next, Shutdown, ShutdownCheck, ShutdownFirst, RunFinalizer, At,
      BeginArchiving, ArchivingDone, ArchivingFails, TestArchive, TestFails, LeaveFirstPart,
      DeleteArchivedFiles, RemoveOld, Rename, StartCopy, CopyDone, CopyFails,
      RemoveTemporary, TestAgain, ReaderFails, CreateForeign, Break

\* The inductive invariant holds in every state.
THEOREM Invariance == Spec => []IInv
<1>1. Init => IInv
  BY InitInv
<1>2. IInv /\ [Next]_vars => IInv'
  BY TypeKept, RegisteredKept, PendingKept, UntouchedKept, MovedKept, EndKept DEF IInv
<1>. QED BY <1>1, <1>2, PTL DEF Spec

\* Every variable has its type: in particular, only five lists of finalizers occur.
THEOREM TypeCorrect == Spec => []TypeOK
<1>1. IInv => TypeOK
  BY DEF IInv
<1>. QED BY <1>1, Invariance, PTL

\* Whatever fails and whenever the machine crashes, the old archive (unless another
\* program replaced it) or the new one is whole on disk, and the new one is if files were
\* deleted (ArcCreate.hs:197-214); unless Ctrl-Break was pressed, or the copy differs and
\* the temporary file it was made from was removed.
THEOREM NoFileLost == Spec => []NothingLost
<1>1. IInv => NothingLost
  <2>. SUFFICES ASSUME IInv, ~Interrupted, ~OnlyBadCopy
                PROVE  OnDisk
    BY DEF NothingLost
  <2>1. TypeOK /\ Untouched /\ Moved /\ Registered
    BY DEF IInv
  <2>2. CASE pc \in FirstPart \ {"delete_files", "remove_old"}
    BY <2>1, <2>2 DEF OnDisk, Untouched
  <2>3. CASE pc \in {"delete_files", "remove_old"}
    BY <2>1, <2>3 DEF OnDisk, Untouched, FirstPart, Moved, Whole
  <2>4. CASE pc \in {"rename", "copy", "remove_tmp"}
    BY <2>1, <2>4 DEF OnDisk, Moved, Whole
  <2>5. CASE pc \in {"retest", "finish"}
    BY <2>1, <2>5 DEF OnDisk, Moved, Whole, OnlyBadCopy
  <2>. QED BY <2>1, <2>2, <2>3, <2>4, <2>5 DEF TypeOK, FirstPart
<1>. QED BY <1>1, Invariance, PTL

\* A program that ends well leaves the new archive, and no temporary file: whichever way
\* it was moved, and unless a copy that nothing tested differs (ArcCreate.hs:210-216).
THEOREM SuccessLeavesNew == Spec => []SuccessIsNew
<1>1. IInv => SuccessIsNew
  BY DEF IInv, SuccessIsNew, Moved
<1>. QED BY <1>1, Invariance, PTL

\* Whatever ends the program in the first part, Ctrl-Break included, the old archive and
\* the files are untouched (ArcCreate.hs:197).
THEOREM FirstPartHarmless == Spec => []InterruptedHarmless
<1>1. IInv => InterruptedHarmless
  BY DEF IInv, InterruptedHarmless, Untouched, FirstPart
<1>. QED BY <1>1, Invariance, PTL

\* What another program put there meanwhile, in the place of the old archive or of none,
\* stays there whatever fails, except that two steps do not look at it: the removal of
\* the old archive (ArcCreate.hs:207) and the renaming.
THEOREM ForeignLeftAlone == Spec => ForeignKept
<1>1. IInv /\ [Next]_vars => [ForeignLeft]_vars
  BY ForeignStep
<1>. QED BY <1>1, Invariance, PTL DEF Spec, ForeignKept, ForeignLeft
-----------------------------------------------------------------------------
(***************************************************************************)
(* The recovery record.  Its inductive invariant.                          *)
(***************************************************************************)
\* There are recovery sectors.
Made == phase \notin {"begin", "failed"}

\* A scan is over.
Judged == phase \in {"pretested", "archive_ok", "cannot_restore", "recover", "recovered"}

\* The recovery sector of a sector of the archive, counted from the last one.
Index(s) == IF rec_sectors > 0 THEN (s - arc_sectors) % rec_sectors ELSE 0

\* The sectors of the archive that are in the recovery sectors: those from From to To - 1.
From == IF phase = "scan" THEN n
        ELSE IF Judged /\ phase # "pretested" THEN arc_sectors ELSE 0
To   == IF phase = "protect" THEN n ELSE arc_sectors

\* The element that damage adds to sector s.
Broken(s) == -1 - s

\* What is left of sector s.
Left(s, damaged) == IF s \in damaged THEN {s, Broken(s)} ELSE {s}

\* What damage adds to recovery sector j.
Wrong(j) == IF j \in lost THEN {-1 - arc_sectors - j} ELSE {}

\* A recovery sector has those of its sectors that were not taken out yet, the damage
\* of those that were, and damage of its own.
Content(from, to, damaged, j) ==
  {s \in from .. to - 1 : Index(s) = j}
  \union {e \in 0 - from .. -1 : Broken(e) \in damaged /\ Index(Broken(e)) = j}
Mixed(j) == Content(From, To, Damaged, j) \union Wrong(j)

\* Numbers and phases, and whose turn it is when sectors are xor'ed.
Typed ==
  /\ recovery \in Requests /\ arcsize \in ArcSizes
  /\ phase \in {"begin", "failed", "protect", "written", "damaged", "no_record", "scan",
                "pretest", "pretested", "archive_ok", "cannot_restore", "recover",
                "recovered"}
  /\ n \in 0 .. arc_sectors
  /\ Made => rec_sectors >= 0 /\ idx \in RecSectors \union {0}
  /\ phase \in {"protect", "scan", "recover"} => idx = Index(n)
  /\ phase \in {"begin", "failed"} => n = 0
  /\ lost \subseteq RecSectors /\ good \subseteq Sectors
  /\ source \in {"none", "unusable", "usable"}

\* The CRCs that are stored are those of the original sectors.
Stored ==
  /\ crcs \in Seq(SUBSET Int)
  /\ Len(crcs) = IF phase = "protect" THEN n ELSE IF Made THEN arc_sectors ELSE 0
  /\ \A i \in 1 .. Len(crcs) : crcs[i] = Original(i - 1)

\* What damage does to the archive, and when.
Hit ==
  /\ archive \in [Sectors -> SUBSET Int]
  /\ \A s \in Sectors : archive[s] \in {Original(s), {s, Broken(s)}}
  /\ phase \in {"begin", "failed", "protect", "written"} => Damaged = {} /\ lost = {}

\* What is in the recovery sectors, in every phase.
Mixture == Made => sectors = [j \in RecSectors |-> Mixed(j)]

\* What a scan has found.
Found == bad_crcs = IF Judged THEN Damaged
                    ELSE IF phase \in {"scan", "pretest"} THEN {s \in Damaged : s < n}
                    ELSE {}

\* The sectors that were already written are whole if they could be had back; the
\* errors are those that could not, and the damaged ones to come that are not alone.
Repaired ==
  /\ fixed \in Seq(SUBSET Int)
  /\ Len(fixed) = IF phase = "recover" THEN n
                  ELSE IF phase = "recovered" THEN arc_sectors ELSE 0
  /\ \A i \in 1 .. Len(fixed) :
       fixed[i] = IF i - 1 \in errors THEN archive[i - 1] ELSE Original(i - 1)
  /\ recoverable = IF Judged THEN Alone ELSE {}
  /\ errors = IF Judged THEN {s \in Damaged : IF s < Len(fixed) THEN s \notin Restorable
                                                               ELSE s \notin Alone}
              ELSE {}
  /\ phase = "cannot_restore" => Alone = {} /\ source = "none" /\ Damaged # {}

RecordInv == Typed /\ Stored /\ Hit /\ Mixture /\ Found /\ Repaired

-----------------------------------------------------------------------------
(***************************************************************************)
(* Remainders.                                                             *)
(***************************************************************************)
\* A number is a multiple and its remainder.
LEMMA Parts ==
  ASSUME NEW R \in Nat \ {0}, NEW x \in Int
  PROVE  x % R \in 0 .. R - 1 /\ x \div R \in Int /\ x = R * (x \div R) + (x % R)
OBVIOUS

\* There is one way only to write it like this.
LEMMA Rest ==
  ASSUME NEW R \in Nat \ {0}, NEW x \in Int, NEW q \in Int, NEW r \in 0 .. R - 1,
         x = R * q + r
  PROVE  x % R = r
OBVIOUS

\* A multiple that is nearer to 0 than the divisor.
LEMMA NoMultiple ==
  ASSUME NEW R \in Nat \ {0}, NEW q \in Int, R * q < R, R * q > 0 - R
  PROVE  q = 0
<1>1. CASE q >= 1
  <2>1. R * q >= R
    BY <1>1
  <2>. QED BY <2>1
<1>2. CASE q <= 0 - 1
  <2>1. R * q <= 0 - R
    BY <1>2
  <2>. QED BY <2>1
<1>. QED BY <1>1, <1>2

\* Equal remainders mean a difference that is a multiple.
LEMMA Difference ==
  ASSUME NEW R \in Nat \ {0}, NEW x \in Int, NEW y \in Int
  PROVE  x % R = y % R <=> \E q \in Int : x - y = R * q
<1>1. ASSUME x % R = y % R
      PROVE  \E q \in Int : x - y = R * q
  <2>1. PICK a, b, r : /\ a = x \div R /\ b = y \div R /\ r = x % R
    OBVIOUS
  <2>2. a \in Int /\ b \in Int /\ r \in Int /\ x = R * a + r /\ y = R * b + r
    BY <1>1, <2>1, Parts
  <2>3. a - b \in Int /\ x - y = R * (a - b)
    BY <2>2
  <2>. QED BY <2>3
<1>2. ASSUME NEW q \in Int, x - y = R * q
      PROVE  x % R = y % R
  <2>1. PICK b, r : b = y \div R /\ r = y % R
    OBVIOUS
  <2>2. b \in Int /\ r \in 0 .. R - 1 /\ y = R * b + r
    BY <2>1, Parts
  <2>3. q + b \in Int /\ x = R * (q + b) + r
    BY <1>2, <2>2
  <2>4. x % R = r
    BY <2>2, <2>3, Rest
  <2>. QED BY <2>1, <2>4
<1>. QED BY <1>1, <1>2

-----------------------------------------------------------------------------
(***************************************************************************)
(* The dimensions.                                                         *)
(***************************************************************************)
\* A set of numbers that is not empty has a least element.
LEMMA Least ==
  ASSUME NEW S, S \subseteq Nat, S # {}
  PROVE  \E m \in S : \A k \in S : m <= k
<1>1. PICK m \in S : \A k \in S : ~(<<k, m>> \in OpToRel(<, Nat))
  BY NatLessThanWellFounded, WFMin
<1>2. ASSUME NEW k \in S
      PROVE  m <= k
  <2>1. k \in Nat /\ m \in Nat
    OBVIOUS
  <2>2. k < m => <<k, m>> \in OpToRel(<, Nat)
    BY <2>1 DEF OpToRel
  <2>3. ~(k < m)
    BY <1>1, <2>2
  <2>. QED BY <2>1, <2>3
<1>. QED BY <1>2

\* There is a greatest power of two, so that lb is defined for any argument.
LEMMA PowerBelowTyped ==
  ASSUME NEW x \in Nat
  PROVE  PowerBelow(x) \in Nat \ {0}
<1>. DEFINE P == PowersTo(x)
            S == {u \in Nat : \A q \in P : q <= u}
<1>1. P \subseteq Nat \ {0} /\ 1 \in P /\ \A q \in P : q <= x + 1
  BY DEF PowersTo
<1>2. x + 1 \in S
  BY <1>1
<1>3. PICK u \in S : \A k \in S : u <= k
  <2>1. S \subseteq Nat /\ S # {}
    BY <1>2
  <2>. HIDE DEF S
  <2>. QED BY <2>1, Least
<1>4. u \in P
  <2>1. SUFFICES ASSUME u \notin P
                 PROVE  FALSE
    OBVIOUS
  <2>2. u \in Nat /\ \A q \in P : q <= u /\ q # u /\ q \in Nat
    BY <1>1, <2>1
  <2>3. u >= 1
    BY <1>1, <2>2
  <2>4. u - 1 \in S
    BY <2>2, <2>3
  <2>. QED BY <1>3, <2>2, <2>4
<1>5. \A q \in P : q <= u
  OBVIOUS
<1>6. PowerBelow(x) \in P
  BY <1>4, <1>5 DEF PowerBelow
<1>. QED BY <1>1, <1>6

\* There is at least one sector.
LEMMA Dimensions ==
  ASSUME recovery \in Requests, arcsize \in ArcSizes
  PROVE  /\ sector_size \in Nat \ {0} /\ arc_sectors \in Nat \ {0}
         /\ rec_sectors \in Int
<1>1. arcsize \in Nat \ {0}
  BY ParametersAssumption
<1>2. sector_size \in Nat \ {0}
  <2>1. recovery.amount \in Nat /\ recovery.ss \in (SectorSizes \union {Default})
    BY ParametersAssumption DEF Requests
  <2>2. CASE recovery.ss # Default
    BY <2>1, <2>2, ParametersAssumption DEF sector_size
  <2>3. CASE recovery.ss = Default /\ recovery.amount = 0
    BY <2>3 DEF sector_size
  <2>4. CASE recovery.ss = Default /\ recovery.amount # 0
    <3>1. (40 * arcsize) \div recovery.amount \in Nat
      <4>1. PICK a, b : a = 40 * arcsize /\ b = recovery.amount
        OBVIOUS
      <4>2. a \in Nat /\ b \in Nat \ {0}
        BY <1>1, <2>1, <2>4, <4>1
      <4>3. a \div b \in Nat
        BY <4>2
      <4>. QED BY <4>1, <4>3
    <3>2. PowerBelow((40 * arcsize) \div recovery.amount) \in Nat \ {0}
      BY <3>1, PowerBelowTyped
    <3>. QED BY <2>4, <3>2 DEF sector_size
  <2>. QED BY <2>2, <2>3, <2>4
<1>3. ASSUME NEW x \in Int, NEW c \in Nat \ {0}
      PROVE  divRoundUp(x, c) \in Int /\ (x > 0 => divRoundUp(x, c) \in Nat \ {0})
  <2>1. (x - 1) \div c \in Int
    BY Parts
  <2>2. x > 0 => (x - 1) \div c \in Nat
    OBVIOUS
  <2>. QED BY <2>1, <2>2 DEF divRoundUp
<1>4. arc_sectors \in Nat \ {0}
  BY <1>1, <1>2, <1>3 DEF arc_sectors
<1>5. rec_size \in Int /\ crcs_size0 \in Int
  <2>1. recovery.amount \in Nat
    BY ParametersAssumption DEF Requests
  <2>2. crcs_size0 \in Nat
    BY <1>4 DEF crcs_size0, CRC
  <2>. QED BY <1>2, <2>1, <2>2 DEF rec_size
<1>6. rec_sectors \in Int
  <2>1. rec_size - crcs_size0 \in Int
    BY <1>5
  <2>. QED BY <1>2, <1>3, <2>1 DEF rec_sectors
<1>. QED BY <1>2, <1>4, <1>6

\* Which recovery sector is whose.
LEMMA Indices ==
  ASSUME recovery \in Requests, arcsize \in ArcSizes, rec_sectors > 0
  PROVE  /\ FirstIndex = Index(0)
         /\ \A s \in Int : /\ Index(s) \in RecSectors
                           /\ Index(s + 1) = (Index(s) + 1) % rec_sectors
                           /\ Class(s) = Index(s)
         /\ \A s, t \in Int : /\ Index(s) = Index(t) <=> s % rec_sectors = t % rec_sectors
                              /\ (Index(s) = Index(t) /\ s - t < rec_sectors
                                                      /\ t - s < rec_sectors) => s = t
         /\ \A s \in Sectors : arc_sectors + Index(s) - s >= rec_sectors
<1>1. PICK A, R : A = arc_sectors /\ R = rec_sectors
  OBVIOUS
<1>2. A \in Nat \ {0} /\ R \in Nat \ {0}
  BY <1>1, Dimensions
<1>3. \A s \in Int : Index(s) = (s - A) % R
  BY <1>1 DEF Index
<1>4. FirstIndex = Index(0)
  BY <1>1, <1>3 DEF FirstIndex
<1>5. ASSUME NEW s \in Int
      PROVE  /\ (s - A) % R \in 0 .. R - 1
             /\ ((s + 1) - A) % R = (((s - A) % R) + 1) % R
             /\ R - 1 - ((A - 1 - s) % R) = (s - A) % R
  <2>1. PICK q, r : q = (s - A) \div R /\ r = (s - A) % R
    OBVIOUS
  <2>2. q \in Int /\ r \in 0 .. R - 1 /\ s - A = R * q + r
    BY <1>2, <2>1, Parts
  <2>3. ((s + 1) - A) % R = (r + 1) % R
    <3>1. ((s + 1) - A) - (r + 1) = R * q /\ (s + 1) - A \in Int /\ r + 1 \in Int
      BY <1>2, <2>2
    <3>. QED BY <1>2, <2>2, <3>1, Difference
  <2>4. (A - 1 - s) % R = R - 1 - r
    <3>1. A - 1 - s = R * (0 - q - 1) + (R - 1 - r)
      <4>1. R * (0 - q - 1) = 0 - R * q - R
        BY <1>2, <2>2
      <4>. QED BY <1>2, <2>2, <4>1
    <3>2. R - 1 - r \in 0 .. R - 1 /\ 0 - q - 1 \in Int /\ A - 1 - s \in Int
      BY <1>2, <2>2
    <3>. QED BY <1>2, <3>1, <3>2, Rest
  <2>5. R - 1 - (R - 1 - r) = r
    BY <1>2, <2>2
  <2>. QED BY <2>1, <2>2, <2>3, <2>4, <2>5
<1>6. ASSUME NEW s \in Int, NEW t \in Int
      PROVE  /\ (s - A) % R = (t - A) % R <=> s % R = t % R
             /\ (s - A) % R = (t - A) % R /\ s - t < R /\ t - s < R => s = t
  <2>1. (s - A) % R = (t - A) % R <=> \E q \in Int : (s - A) - (t - A) = R * q
    <3>1. s - A \in Int /\ t - A \in Int
      BY <1>2
    <3>. QED BY <1>2, <3>1, Difference
  <2>2. s % R = t % R <=> \E q \in Int : s - t = R * q
    BY <1>2, Difference
  <2>3. (s - A) - (t - A) = s - t
    BY <1>2
  <2>4. ASSUME NEW q \in Int, s - t = R * q, s - t < R, t - s < R
        PROVE  s = t
    <3>1. R * q < R /\ R * q > 0 - R
      BY <1>2, <2>4
    <3>2. q = 0
      BY <1>2, <3>1, NoMultiple
    <3>. QED BY <1>2, <2>4, <3>2
  <2>. QED BY <2>1, <2>2, <2>3, <2>4
<1>7. ASSUME NEW s \in 0 .. A - 1
      PROVE  A + ((s - A) % R) - s >= R
  <2>1. PICK q, r : q = (s - A) \div R /\ r = (s - A) % R
    OBVIOUS
  <2>2. q \in Int /\ r \in 0 .. R - 1 /\ s - A = R * q + r
    <3>1. s - A \in Int
      BY <1>2
    <3>. QED BY <1>2, <2>1, <3>1, Parts
  <2>3. R * q < 0
    BY <1>2, <2>2
  <2>4. q <= 0 - 1
    BY <1>2, <2>2, <2>3
  <2>5. R * q <= 0 - R
    BY <1>2, <2>2, <2>4
  <2>6. A + r - s >= R
    BY <1>2, <2>2, <2>5
  <2>. QED BY <2>1, <2>6
<1>8. \A s \in Int : Index(s) \in RecSectors /\ Class(s) = Index(s)
  BY <1>1, <1>3, <1>5 DEF RecSectors, Class
<1>9. ASSUME NEW s \in Int
      PROVE  Index(s + 1) = (Index(s) + 1) % rec_sectors
  <2>1. Index(s + 1) = ((s + 1) - A) % R /\ Index(s) = (s - A) % R
    <3>1. s + 1 \in Int
      OBVIOUS
    <3>. QED BY <1>3, <3>1
  <2>2. ((s + 1) - A) % R = (((s - A) % R) + 1) % R
    BY <1>5
  <2>. QED BY <1>1, <2>1, <2>2
<1>10. \A s \in Sectors : arc_sectors + Index(s) - s >= rec_sectors
  BY <1>1, <1>3, <1>7 DEF Sectors
<1>11. ASSUME NEW s \in Int, NEW t \in Int
       PROVE  /\ Index(s) = Index(t) <=> s % rec_sectors = t % rec_sectors
              /\ (Index(s) = Index(t) /\ s - t < rec_sectors /\ t - s < rec_sectors) => s = t
  <2>1. Index(s) = (s - A) % R /\ Index(t) = (t - A) % R
    BY <1>3
  <2>. QED BY <1>1, <1>6, <2>1
<1>. QED BY <1>4, <1>8, <1>9, <1>10, <1>11

-----------------------------------------------------------------------------
(***************************************************************************)
(* Numbers and phases.                                                     *)
(***************************************************************************)
\* The dimensions stay as they are.
LEMMA SameSize ==
  ASSUME UNCHANGED request
  PROVE  /\ recovery' = recovery /\ arcsize' = arcsize
         /\ arc_sectors' = arc_sectors /\ rec_sectors' = rec_sectors
         /\ Sectors' = Sectors /\ RecSectors' = RecSectors /\ FirstIndex' = FirstIndex
         /\ \A s : Index(s)' = Index(s) /\ Class(s)' = Class(s)
BY DEF request, arc_sectors, rec_sectors, sector_size, rec_size, crcs_size0, Sectors,
       RecSectors, FirstIndex, Index, Class

\* No step changes what was asked for.
LEMMA SameRequest ==
  ASSUME RecordNext
  PROVE  UNCHANGED request
BY DEF RecordNext, Begin, Protect, WriteBlocks, Damage, StartScan, ScanSector, EndScan,
       RecoverSector, EndRecovery

\* What an invariant state says about numbers.
LEMMA Facts ==
  ASSUME Typed
  PROVE  /\ arc_sectors \in Nat \ {0} /\ rec_sectors \in Int
         /\ Sectors = 0 .. arc_sectors - 1 /\ RecSectors = 0 .. rec_sectors - 1
         /\ n \in 0 .. arc_sectors
         /\ rec_sectors > 0 => /\ FirstIndex = Index(0)
                               /\ \A s \in Int : /\ Index(s) \in RecSectors
                                                 /\ Index(s + 1) = (Index(s) + 1) % rec_sectors
         /\ ~(rec_sectors > 0) => FirstIndex = 0 /\ \A s : Index(s) = 0
         /\ rec_sectors >= 0 => \A s \in Int : Index(s) \in RecSectors \union {0}
<1>1. recovery \in Requests /\ arcsize \in ArcSizes /\ n \in 0 .. arc_sectors
  BY DEF Typed
<1>2. arc_sectors \in Nat \ {0} /\ rec_sectors \in Int
  BY <1>1, Dimensions
<1>3. rec_sectors > 0 => /\ FirstIndex = Index(0)
                         /\ \A s \in Int : /\ Index(s) \in RecSectors
                                           /\ Index(s + 1) = (Index(s) + 1) % rec_sectors
  BY <1>1, Indices
<1>4. ~(rec_sectors > 0) => FirstIndex = 0 /\ \A s : Index(s) = 0
  BY DEF FirstIndex, Index
<1>. QED BY <1>1, <1>2, <1>3, <1>4 DEF Sectors, RecSectors

\* The next sector goes to the next recovery sector.
LEMMA Turns ==
  ASSUME Typed, NextIndex, idx = Index(n), n' = n + 1, UNCHANGED request, rec_sectors >= 0
  PROVE  idx' = Index(n)' /\ idx' \in RecSectors \union {0}
<1>1. n \in Int /\ n + 1 \in Int
  BY Facts
<1>2. Index(n)' = Index(n + 1)
  BY SameSize DEF Index
<1>3. idx' = Index(n + 1)
  <2>1. CASE rec_sectors > 0
    BY <1>1, <2>1, Facts DEF NextIndex
  <2>2. CASE ~(rec_sectors > 0)
    BY <1>1, <2>2, Facts DEF NextIndex
  <2>. QED BY <2>1, <2>2
<1>4. Index(n + 1) \in RecSectors \union {0}
  BY <1>1, Facts
<1>. QED BY <1>2, <1>3, <1>4

\* Numbers, phases and the recovery sector that is next.
LEMMA TypedKept ==
  ASSUME Typed, RecordNext
  PROVE  Typed'
<1>1. UNCHANGED request
  BY SameRequest
<1>2. /\ recovery' = recovery /\ arcsize' = arcsize
      /\ arc_sectors' = arc_sectors /\ rec_sectors' = rec_sectors
      /\ Sectors' = Sectors /\ RecSectors' = RecSectors /\ FirstIndex' = FirstIndex
      /\ \A s : Index(s)' = Index(s)
  BY <1>1, SameSize
<1>3. /\ arc_sectors \in Nat \ {0} /\ rec_sectors \in Int
      /\ FirstIndex = Index(0)
      /\ rec_sectors >= 0 => FirstIndex \in RecSectors \union {0}
  BY Facts
<1>4. ASSUME n' = 0, idx' = FirstIndex
      PROVE  idx' = Index(n)'
  BY <1>2, <1>3, <1>4 DEF Index
<1>5. ASSUME n' = n, idx' = idx, idx = Index(n)
      PROVE  idx' = Index(n)'
  BY <1>2, <1>5 DEF Index
<1>6. CASE Begin
  <2>1. n' = n /\ UNCHANGED <<stored, found>> /\ phase = "begin"
        /\ \/ rec_sectors >= 0 /\ idx' = FirstIndex /\ phase' = "protect"
           \/ phase' = "failed"
    BY <1>6 DEF Begin
  <2>2. n = 0
    BY <2>1 DEF Typed
  <2>. QED BY <1>2, <1>3, <1>4, <2>1, <2>2 DEF Typed, Made, stored
<1>7. CASE Protect
  <2>1. /\ phase = "protect" /\ phase' = phase /\ n' = n + 1 /\ n < arc_sectors
        /\ NextIndex /\ UNCHANGED stored
    BY <1>7 DEF Protect
  <2>2. idx = Index(n) /\ rec_sectors >= 0
    BY <2>1 DEF Typed, Made
  <2>3. idx' = Index(n)' /\ idx' \in RecSectors \union {0}
    BY <1>1, <2>1, <2>2, Turns
  <2>. QED BY <1>2, <1>3, <2>1, <2>2, <2>3 DEF Typed, Made, stored
<1>8. CASE WriteBlocks
  BY <1>2, <1>8 DEF WriteBlocks, Typed, Made, stored
<1>9. CASE Damage
  <2>1. /\ phase = "written" /\ phase' = "damaged" /\ UNCHANGED <<n, idx>>
        /\ lost' \subseteq RecSectors /\ good' \subseteq Sectors
        /\ source' \in {"none", "unusable", "usable"}
    BY <1>9 DEF Damage
  <2>. QED BY <1>2, <2>1 DEF Typed, Made
<1>10. CASE StartScan
  <2>1. /\ phase = "damaged" /\ phase' \in {"scan", "pretest", "no_record"}
        /\ n' = 0 /\ idx' = FirstIndex /\ UNCHANGED stored
    BY <1>10 DEF StartScan
  <2>2. idx' = Index(n)'
    BY <1>4, <2>1
  <2>. QED BY <1>2, <1>3, <2>1, <2>2 DEF Typed, Made, stored
<1>11. CASE ScanSector
  <2>1. /\ phase \in {"scan", "pretest"} /\ phase' = phase /\ n' = n + 1 /\ n < arc_sectors
        /\ phase = "scan" => NextIndex
        /\ phase = "pretest" => UNCHANGED idx
        /\ UNCHANGED stored
    BY <1>11 DEF ScanSector
  <2>2. rec_sectors >= 0 /\ (phase = "scan" => idx = Index(n))
    BY <2>1 DEF Typed, Made
  <2>3. phase = "scan" => idx' = Index(n)' /\ idx' \in RecSectors \union {0}
    BY <1>1, <2>1, <2>2, Turns
  <2>. QED BY <1>2, <1>3, <2>1, <2>2, <2>3 DEF Typed, Made, stored
<1>12. CASE EndScan
  <2>1. /\ phase \in {"scan", "pretest"} /\ n' = 0 /\ idx' = FirstIndex /\ UNCHANGED stored
        /\ phase' \in {"pretested", "archive_ok", "cannot_restore", "recover"}
    BY <1>12 DEF EndScan
  <2>2. idx' = Index(n)'
    BY <1>4, <2>1
  <2>. QED BY <1>2, <1>3, <2>1, <2>2 DEF Typed, Made, stored
<1>13. CASE RecoverSector
  <2>1. /\ phase = "recover" /\ phase' = phase /\ n' = n + 1 /\ n < arc_sectors
        /\ NextIndex /\ UNCHANGED stored
    BY <1>13 DEF RecoverSector
  <2>2. rec_sectors >= 0 /\ idx = Index(n)
    BY <2>1 DEF Typed, Made
  <2>3. idx' = Index(n)' /\ idx' \in RecSectors \union {0}
    BY <1>1, <2>1, <2>2, Turns
  <2>. QED BY <1>2, <1>3, <2>1, <2>2, <2>3 DEF Typed, Made, stored
<1>14. CASE EndRecovery
  BY <1>2, <1>14 DEF EndRecovery, Typed, Made, stored
<1>. QED BY <1>6, <1>7, <1>8, <1>9, <1>10, <1>11, <1>12, <1>13, <1>14 DEF RecordNext


\* A sector of the archive is whole or has the element of its own damage.
LEMMA WholeSector ==
  ASSUME Typed, Hit, NEW s \in Sectors
  PROVE  /\ s \in Nat /\ s < arc_sectors /\ Damaged \subseteq Sectors
         /\ archive[s] = IF s \in Damaged THEN {s, Broken(s)} ELSE {s}
<1>1. s \in Nat /\ s < arc_sectors
  BY Facts
<1>2. s # Broken(s) /\ archive[s] \in {{s}, {s, Broken(s)}}
  BY <1>1 DEF Hit, Original, Broken
<1>3. {s, Broken(s)} # {s}
  BY <1>2
<1>. QED BY <1>1, <1>2, <1>3 DEF Damaged, Original

\* Nothing of the archive changes, so nothing else is damaged.
LEMMA SameDamage ==
  ASSUME UNCHANGED request, UNCHANGED archive
  PROVE  Damaged' = Damaged
BY SameSize DEF Damaged, Original

\* What is in a recovery sector, whatever the state it is said of.
LEMMA SameContent ==
  ASSUME UNCHANGED request, NEW j
  PROVE  Mixed(j)' = Content(From', To', Damaged', j)
                     \union IF j \in lost' THEN {-1 - arc_sectors - j} ELSE {}
BY SameSize DEF Mixed, Content, Wrong, Broken

\* The CRCs of the sectors, in turn.
LEMMA StoredKept ==
  ASSUME Typed, Stored, Hit, RecordNext
  PROVE  Stored'
<1>1. UNCHANGED request
  BY SameRequest
<1>2. arc_sectors' = arc_sectors /\ \A s : Original(s)' = Original(s)
  BY <1>1, SameSize DEF Original
<1>3. CASE Protect
  <2>1. /\ phase = "protect" /\ phase' = phase /\ n < arc_sectors /\ n' = n + 1
        /\ crcs' = Append(crcs, archive[n])
    BY <1>3 DEF Protect
  <2>2. n \in Sectors /\ Damaged = {}
    BY <2>1, Facts DEF Hit
  <2>3. archive[n] = Original(n) /\ archive[n] \in SUBSET Int
    BY <2>2 DEF Damaged, Hit
  <2>4. crcs \in Seq(SUBSET Int) /\ Len(crcs) = n /\ \A i \in 1 .. n : crcs[i] = Original(i - 1)
    BY <2>1 DEF Stored
  <2>5. crcs' \in Seq(SUBSET Int) /\ Len(crcs') = n + 1
    BY <2>1, <2>3, <2>4
  <2>6. ASSUME NEW i \in 1 .. n + 1
        PROVE  crcs'[i] = Original(i - 1)
    <3>1. CASE i = n + 1
      <4>1. crcs'[n + 1] = archive[n]
        BY <2>1, <2>3, <2>4
      <4>2. (n + 1) - 1 = n
        BY Facts
      <4>. QED BY <2>3, <3>1, <4>1, <4>2
    <3>2. CASE i \in 1 .. n
      BY <2>1, <2>3, <2>4, <3>2
    <3>. QED BY <3>1, <3>2, Facts
  <2>. QED BY <1>2, <2>1, <2>5, <2>6 DEF Stored
<1>4. ASSUME UNCHANGED crcs, phase # "protect", Made' = Made, phase' # "protect"
      PROVE  Stored'
  BY <1>2, <1>4 DEF Stored
<1>5. CASE Begin
  BY <1>2, <1>5 DEF Begin, Stored, Typed, Made
<1>6. CASE WriteBlocks
  BY <1>2, <1>6 DEF WriteBlocks, Stored, Typed, Made
<1>7. CASE Damage
  BY <1>4, <1>7 DEF Damage, Made
<1>8. CASE StartScan
  BY <1>4, <1>8 DEF StartScan, Made
<1>9. CASE ScanSector
  BY <1>4, <1>9 DEF ScanSector, Made
<1>10. CASE EndScan
  BY <1>4, <1>10 DEF EndScan, Made
<1>11. CASE RecoverSector
  BY <1>4, <1>11 DEF RecoverSector, Made
<1>12. CASE EndRecovery
  BY <1>4, <1>12 DEF EndRecovery, Made
<1>. QED BY <1>3, <1>5, <1>6, <1>7, <1>8, <1>9, <1>10, <1>11, <1>12 DEF RecordNext

\* Damage comes once, when the record is written.
LEMMA HitKept ==
  ASSUME Typed, Hit, RecordNext
  PROVE  Hit'
<1>1. UNCHANGED request
  BY SameRequest
<1>2. Sectors' = Sectors /\ RecSectors' = RecSectors
  BY <1>1, SameSize
<1>3. ASSUME UNCHANGED <<archive, lost>>,
             phase' \in {"begin", "failed", "protect", "written"} =>
               phase \in {"begin", "failed", "protect", "written"}
      PROVE  Hit'
  BY <1>1, <1>2, <1>3, SameDamage DEF Hit, Original, Broken
<1>4. CASE Damage
  <2>1. PICK hit \in SUBSET Sectors :
          archive' = [s \in Sectors |-> IF s \in hit THEN Xor(archive[s], {-1 - s})
                                                     ELSE archive[s]]
    BY <1>4 DEF Damage
  <2>2. phase = "written" /\ phase' = "damaged" /\ Damaged = {}
    BY <1>4 DEF Damage, Hit
  <2>3. ASSUME NEW s \in Sectors
        PROVE  archive'[s] \in {Original(s), {s, Broken(s)}} /\ archive'[s] \in SUBSET Int
    <3>1. s \in Nat /\ archive[s] = {s}
      BY <2>2, WholeSector
    <3>2. Xor({s}, {-1 - s}) = {s, -1 - s} /\ -1 - s \in Int
      BY <3>1 DEF Xor
    <3>3. archive'[s] = {s} \/ archive'[s] = {s, -1 - s}
      BY <2>1, <3>1, <3>2
    <3>. QED BY <3>1, <3>2, <3>3 DEF Original, Broken
  <2>4. archive' \in [Sectors -> SUBSET Int]
    BY <2>1, <2>3
  <2>. QED BY <1>2, <2>2, <2>3, <2>4 DEF Hit, Original, Broken
<1>5. CASE Begin
  BY <1>3, <1>5 DEF Begin, stored
<1>6. CASE Protect
  BY <1>3, <1>6 DEF Protect, stored
<1>7. CASE WriteBlocks
  BY <1>3, <1>7 DEF WriteBlocks, stored
<1>8. CASE StartScan
  BY <1>3, <1>8 DEF StartScan, stored
<1>9. CASE ScanSector
  BY <1>3, <1>9 DEF ScanSector, stored
<1>10. CASE EndScan
  BY <1>3, <1>10 DEF EndScan, stored
<1>11. CASE RecoverSector
  BY <1>3, <1>11 DEF RecoverSector, stored
<1>12. CASE EndRecovery
  BY <1>3, <1>12 DEF EndRecovery, stored
<1>. QED BY <1>4, <1>5, <1>6, <1>7, <1>8, <1>9, <1>10, <1>11, <1>12 DEF RecordNext

-----------------------------------------------------------------------------
(***************************************************************************)
(* What a recovery sector holds.                                           *)
(***************************************************************************)
\* No sector is in, and none was taken out.
LEMMA Empty ==
  ASSUME NEW damaged, NEW j
  PROVE  Content(0, 0, damaged, j) = {}
BY DEF Content

\* A sector that is xor'ed comes in.
LEMMA PutIn ==
  ASSUME NEW k \in Nat, NEW j
  PROVE  Content(0, k + 1, {}, j) = IF Index(k) = j THEN Xor(Content(0, k, {}, j), {k})
                                    ELSE Content(0, k, {}, j)
<1>1. Content(0, k + 1, {}, j) = {s \in 0 .. k : Index(s) = j}
  BY DEF Content
<1>2. Content(0, k, {}, j) = {s \in 0 .. k - 1 : Index(s) = j}
  BY DEF Content
<1>3. 0 .. k = (0 .. k - 1) \union {k} /\ k \notin 0 .. k - 1
  OBVIOUS
<1>. QED BY <1>1, <1>2, <1>3 DEF Xor

\* A sector that is xor'ed again is taken out, and leaves its damage.
LEMMA TakeOut ==
  ASSUME NEW A \in Nat, NEW k \in 0 .. A - 1, NEW damaged, NEW j
  PROVE  /\ Index(k) = j => Content(k + 1, A, damaged, j)
                            = Xor(Content(k, A, damaged, j), Left(k, damaged))
         /\ Index(k) # j => Content(k + 1, A, damaged, j) = Content(k, A, damaged, j)
<1>1. /\ Content(k + 1, A, damaged, j)
           = {s \in k + 1 .. A - 1 : Index(s) = j}
             \union {e \in 0 - (k + 1) .. -1 : Broken(e) \in damaged /\ Index(Broken(e)) = j}
      /\ Content(k, A, damaged, j)
           = {s \in k .. A - 1 : Index(s) = j}
             \union {e \in 0 - k .. -1 : Broken(e) \in damaged /\ Index(Broken(e)) = j}
  BY DEF Content
<1>2. /\ k .. A - 1 = {k} \union (k + 1 .. A - 1) /\ k \notin k + 1 .. A - 1
      /\ 0 - (k + 1) .. -1 = {Broken(k)} \union (0 - k .. -1) /\ Broken(k) \notin 0 - k .. -1
      /\ k \notin 0 - k .. -1 /\ Broken(k) \notin k .. A - 1
      /\ Broken(Broken(k)) = k /\ k # Broken(k) /\ k \notin 0 - (k + 1) .. -1
  BY DEF Broken
<1>3. CASE Index(k) = j
  <2>1. Content(k, A, damaged, j)
          = {k} \union {s \in k + 1 .. A - 1 : Index(s) = j}
            \union {e \in 0 - k .. -1 : Broken(e) \in damaged /\ Index(Broken(e)) = j}
    BY <1>1, <1>2, <1>3
  <2>2. Content(k + 1, A, damaged, j)
          = {s \in k + 1 .. A - 1 : Index(s) = j}
            \union {e \in 0 - k .. -1 : Broken(e) \in damaged /\ Index(Broken(e)) = j}
            \union IF k \in damaged THEN {Broken(k)} ELSE {}
    BY <1>1, <1>2, <1>3
  <2>3. /\ k \notin Content(k + 1, A, damaged, j)
        /\ Broken(k) \notin Content(k, A, damaged, j)
    BY <1>1, <1>2
  <2>4. CASE k \in damaged
    BY <1>2, <1>3, <2>1, <2>2, <2>3, <2>4 DEF Xor, Left
  <2>5. CASE k \notin damaged
    BY <1>2, <1>3, <2>1, <2>2, <2>3, <2>5 DEF Xor, Left
  <2>. QED BY <2>4, <2>5
<1>4. CASE Index(k) # j
  <2>1. Content(k + 1, A, damaged, j) = Content(k, A, damaged, j)
    BY <1>1, <1>2, <1>4
  <2>. QED BY <1>4, <2>1
<1>. QED BY <1>3, <1>4

\* Its own damage is below everything else.
LEMMA WrongTyped ==
  ASSUME Typed, NEW j \in RecSectors
  PROVE  \A e \in Wrong(j) : e \in Int /\ e < 0 - arc_sectors
BY Facts DEF Wrong

\* Recovery sectors as they are when a step leaves them alone.
LEMMA SameMixture ==
  ASSUME Made, Mixture, UNCHANGED <<request, archive, lost, sectors>>, From' = From, To' = To
  PROVE  Mixture'
<1>1. Damaged' = Damaged /\ RecSectors' = RecSectors
  BY SameDamage, SameSize
<1>2. ASSUME NEW j \in RecSectors
      PROVE  Mixed(j)' = Mixed(j)
  BY <1>1, SameContent DEF Mixed, Wrong
<1>. QED BY <1>1, <1>2 DEF Mixture

\* Recovery sectors hold what is to come, what came wrong and what went wrong with them.
LEMMA MixtureKept ==
  ASSUME Typed, Hit, Mixture, RecordNext
  PROVE  Mixture'
<1>1. UNCHANGED request
  BY SameRequest
<1>2. /\ arc_sectors' = arc_sectors /\ rec_sectors' = rec_sectors
      /\ Sectors' = Sectors /\ RecSectors' = RecSectors
  BY <1>1, SameSize
<1>3. arc_sectors \in Nat \ {0} /\ rec_sectors \in Int /\ RecSectors = 0 .. rec_sectors - 1
      /\ Sectors = 0 .. arc_sectors - 1 /\ n \in 0 .. arc_sectors
  BY Facts
<1>4. CASE Begin
  <2>1. phase = "begin" /\ n' = 0 /\ lost' = {} /\ phase' \in {"protect", "failed"}
    BY <1>4 DEF Begin, Typed, Hit, stored
  <2>2. ASSUME phase' = "protect", NEW j \in RecSectors
        PROVE  Mixed(j)' = {}
    BY <1>1, <2>1, <2>2, SameContent, Empty DEF From, To, Judged
  <2>3. phase' = "protect" => sectors' = [j \in RecSectors |-> {}]
    BY <1>4 DEF Begin
  <2>. QED BY <1>2, <2>1, <2>2, <2>3 DEF Mixture, Made
<1>5. CASE Protect
  <2>1. /\ phase = "protect" /\ phase' = phase /\ n < arc_sectors /\ n' = n + 1
        /\ XorSector /\ UNCHANGED <<archive, lost>>
    BY <1>5 DEF Protect, stored
  <2>2. /\ n \in Sectors /\ Damaged = {} /\ Damaged' = {} /\ lost = {} /\ lost' = {}
        /\ archive[n] = {n}
    BY <1>1, <1>3, <2>1, SameDamage, WholeSector DEF Hit
  <2>3. sectors = [j \in RecSectors |-> Mixed(j)] /\ (rec_sectors > 0 => idx = Index(n))
    BY <2>1 DEF Mixture, Made, Typed
  <2>4. ASSUME NEW j \in RecSectors
        PROVE  /\ Mixed(j) = Content(0, n, {}, j)
               /\ Mixed(j)' = Content(0, n + 1, {}, j)
    <3>1. From = 0 /\ To = n /\ From' = 0 /\ To' = n + 1
      BY <2>1 DEF From, To, Judged
    <3>. QED BY <1>1, <2>2, <3>1, SameContent DEF Mixed, Wrong
  <2>5. ASSUME NEW j \in RecSectors
        PROVE  sectors'[j] = Mixed(j)' /\ sectors' = [i \in RecSectors |-> sectors'[i]]
    <3>1. rec_sectors > 0 /\ sectors' = [sectors EXCEPT ![idx] = Xor(@, archive[n])]
      BY <1>3, <2>1 DEF XorSector
    <3>2. sectors'[j] = IF Index(n) = j THEN Xor(sectors[j], {n}) ELSE sectors[j]
      BY <2>2, <2>3, <3>1
    <3>3. n \in Nat /\ sectors[j] = Content(0, n, {}, j)
      BY <1>3, <2>3, <2>4
    <3>4. sectors' = [i \in RecSectors |-> sectors'[i]]
      BY <2>3, <3>1
    <3>. QED BY <2>4, <3>2, <3>3, <3>4, PutIn
  <2>6. RecSectors = {} => sectors' = [j \in RecSectors |-> Mixed(j)']
    <3>1. RecSectors = {} => sectors' = sectors
      BY <1>3, <2>1 DEF XorSector
    <3>. QED BY <2>3, <3>1
  <2>. QED BY <1>2, <2>5, <2>6 DEF Mixture
<1>6. CASE WriteBlocks
  <2>1. /\ phase = "protect" /\ phase' = "written" /\ n = arc_sectors
        /\ UNCHANGED <<archive, lost, sectors>>
    BY <1>6 DEF WriteBlocks, stored
  <2>2. From' = From /\ To' = To /\ Made
    BY <1>2, <2>1 DEF From, To, Judged, Made
  <2>. QED BY <1>1, <2>1, <2>2, SameMixture
<1>7. CASE Damage
  <2>1. /\ phase = "written" /\ phase' = "damaged" /\ lost' \in SUBSET RecSectors
        /\ sectors' = [j \in RecSectors |-> IF j \in lost'
                                            THEN Xor(sectors[j], {-1 - arc_sectors - j})
                                            ELSE sectors[j]]
    BY <1>7 DEF Damage
  <2>2. /\ From = 0 /\ From' = 0 /\ To = arc_sectors /\ To' = arc_sectors
        /\ Damaged = {} /\ lost = {}
    BY <1>2, <2>1 DEF From, To, Judged, Hit
  <2>3. sectors = [j \in RecSectors |-> Mixed(j)]
    BY <2>1 DEF Mixture, Made
  <2>4. ASSUME NEW j \in RecSectors
        PROVE  Mixed(j)' = IF j \in lost' THEN Xor(sectors[j], {-1 - arc_sectors - j})
                           ELSE sectors[j]
    <3>1. Content(0, arc_sectors, Damaged', j) = {s \in 0 .. arc_sectors - 1 : Index(s) = j}
          /\ Content(0, arc_sectors, {}, j) = {s \in 0 .. arc_sectors - 1 : Index(s) = j}
      BY DEF Content
    <3>2. sectors[j] = Content(0, arc_sectors, {}, j)
      BY <2>2, <2>3 DEF Mixed, Wrong
    <3>3. Mixed(j)' = sectors[j] \union IF j \in lost' THEN {-1 - arc_sectors - j} ELSE {}
      BY <1>1, <2>2, <3>1, <3>2, SameContent
    <3>4. -1 - arc_sectors - j \notin sectors[j]
      BY <1>3, <3>1, <3>2
    <3>. QED BY <3>3, <3>4 DEF Xor
  <2>. QED BY <1>2, <2>1, <2>4 DEF Mixture
<1>8. CASE StartScan
  <2>1. /\ phase = "damaged" /\ phase' \in {"scan", "pretest", "no_record"} /\ n' = 0
        /\ UNCHANGED <<archive, lost, sectors>>
    BY <1>8 DEF StartScan, stored
  <2>2. From' = From /\ To' = To /\ Made
    BY <1>2, <2>1 DEF From, To, Judged, Made
  <2>. QED BY <1>1, <2>1, <2>2, SameMixture
<1>9. CASE ScanSector
  <2>1. /\ phase \in {"scan", "pretest"} /\ phase' = phase /\ n < arc_sectors /\ n' = n + 1
        /\ phase = "scan" => XorSector
        /\ phase = "pretest" => UNCHANGED sectors
        /\ UNCHANGED <<archive, lost>>
    BY <1>9 DEF ScanSector, stored
  <2>2. CASE phase = "pretest"
    <3>1. From' = From /\ To' = To /\ Made
      BY <1>2, <2>1, <2>2 DEF From, To, Judged, Made
    <3>. QED BY <1>1, <2>1, <2>2, <3>1, SameMixture
  <2>3. CASE phase = "scan"
    <3>1. /\ sectors = [j \in RecSectors |-> Mixed(j)] /\ (rec_sectors > 0 => idx = Index(n))
          /\ n \in Sectors
      BY <1>3, <2>1, <2>3 DEF Mixture, Made, Typed
    <3>2. /\ Damaged' = Damaged /\ Damaged \in SUBSET Sectors
          /\ archive[n] = IF n \in Damaged THEN {n, Broken(n)} ELSE {n}
      BY <1>1, <2>1, <3>1, SameDamage, WholeSector
    <3>3. ASSUME NEW j \in RecSectors
          PROVE  /\ Mixed(j) = Content(n, arc_sectors, Damaged, j) \union Wrong(j)
                 /\ Mixed(j)' = Content(n + 1, arc_sectors, Damaged, j) \union Wrong(j)
      <4>1. From = n /\ To = arc_sectors /\ From' = n + 1 /\ To' = arc_sectors
        BY <1>2, <2>1, <2>3 DEF From, To, Judged
      <4>. QED BY <1>1, <2>1, <3>2, <4>1, SameContent DEF Mixed, Wrong
    <3>4. ASSUME NEW j \in RecSectors
          PROVE  sectors'[j] = Mixed(j)' /\ sectors' = [i \in RecSectors |-> sectors'[i]]
      <4>1. rec_sectors > 0 /\ sectors' = [sectors EXCEPT ![idx] = Xor(@, archive[n])]
        BY <1>3, <2>1, <2>3 DEF XorSector
      <4>2. sectors'[j] = IF Index(n) = j THEN Xor(sectors[j], archive[n]) ELSE sectors[j]
        BY <3>1, <4>1
      <4>3. sectors[j] = Content(n, arc_sectors, Damaged, j) \union Wrong(j)
        BY <3>1, <3>3
      <4>4. sectors' = [i \in RecSectors |-> sectors'[i]]
        BY <3>1, <4>1
      <4>5. /\ arc_sectors \in Nat /\ n \in 0 .. arc_sectors - 1
            /\ \A e \in Wrong(j) : e \in Int /\ e < 0 - arc_sectors
        BY <1>3, <3>1, <3>2, WrongTyped
      <4>6. Content(n + 1, arc_sectors, Damaged, j) \union Wrong(j)
              = IF Index(n) = j THEN Xor(Content(n, arc_sectors, Damaged, j) \union Wrong(j),
                                         archive[n])
                ELSE Content(n, arc_sectors, Damaged, j) \union Wrong(j)
        <5>1. Content(n + 1, arc_sectors, Damaged, j)
                = IF Index(n) = j THEN Xor(Content(n, arc_sectors, Damaged, j), archive[n])
                  ELSE Content(n, arc_sectors, Damaged, j)
          <6>1. /\ Index(n) = j => Content(n + 1, arc_sectors, Damaged, j)
                                   = Xor(Content(n, arc_sectors, Damaged, j),
                                         Left(n, Damaged))
                /\ Index(n) # j => Content(n + 1, arc_sectors, Damaged, j)
                                   = Content(n, arc_sectors, Damaged, j)
            BY <4>5, TakeOut
          <6>2. Left(n, Damaged) = archive[n]
            BY <3>2 DEF Left
          <6>. QED BY <6>1, <6>2
        <5>2. archive[n] \intersect Wrong(j) = {}
          <6>1. n \notin Wrong(j) /\ Broken(n) \notin Wrong(j)
            BY <4>5 DEF Broken
          <6>. QED BY <3>2, <6>1
        <5>3. Xor(Content(n, arc_sectors, Damaged, j) \union Wrong(j), archive[n])
                = Xor(Content(n, arc_sectors, Damaged, j), archive[n]) \union Wrong(j)
          BY <5>2 DEF Xor
        <5>. QED BY <5>1, <5>3
      <4>. QED BY <3>3, <4>2, <4>3, <4>4, <4>6
    <3>5. RecSectors = {} => sectors' = [j \in RecSectors |-> Mixed(j)']
      <4>1. RecSectors = {} => sectors' = sectors
        BY <1>3, <2>1, <2>3 DEF XorSector
      <4>. QED BY <3>1, <4>1
    <3>. QED BY <1>2, <3>4, <3>5 DEF Mixture
  <2>. QED BY <2>1, <2>2, <2>3
<1>10. CASE EndScan
  <2>1. /\ phase \in {"scan", "pretest"} /\ n = arc_sectors /\ n' = 0
        /\ phase = "pretest" => phase' = "pretested"
        /\ phase = "scan" => phase' \in {"archive_ok", "cannot_restore", "recover"}
        /\ UNCHANGED <<archive, lost, sectors>>
    BY <1>10 DEF EndScan, stored
  <2>2. From' = From /\ To' = To /\ Made
    BY <1>2, <2>1 DEF From, To, Judged, Made
  <2>. QED BY <1>1, <2>1, <2>2, SameMixture
<1>11. CASE RecoverSector
  <2>1. phase = "recover" /\ phase' = phase /\ UNCHANGED <<archive, lost, sectors>>
    BY <1>11 DEF RecoverSector, stored
  <2>2. From' = From /\ To' = To /\ Made
    BY <1>2, <2>1 DEF From, To, Judged, Made
  <2>. QED BY <1>1, <2>1, <2>2, SameMixture
<1>12. CASE EndRecovery
  <2>1. phase = "recover" /\ phase' = "recovered" /\ UNCHANGED <<archive, lost, sectors>>
    BY <1>12 DEF EndRecovery, stored
  <2>2. From' = From /\ To' = To /\ Made
    BY <1>2, <2>1 DEF From, To, Judged, Made
  <2>. QED BY <1>1, <2>1, <2>2, SameMixture
<1>. QED BY <1>4, <1>5, <1>6, <1>7, <1>8, <1>9, <1>10, <1>11, <1>12 DEF RecordNext

-----------------------------------------------------------------------------
(***************************************************************************)
(* What is found and what is repaired.                                     *)
(***************************************************************************)
\* The CRC of a sector is wrong when the sector is damaged.
LEMMA FoundKept ==
  ASSUME Typed, Stored, Hit, Found, RecordNext
  PROVE  Found'
<1>1. UNCHANGED request
  BY SameRequest
<1>2. ASSUME UNCHANGED <<archive, bad_crcs>>, Judged' = Judged,
             phase' \in {"scan", "pretest"} => phase = phase' /\ n' = n,
             phase' \notin {"scan", "pretest"} => phase \notin {"scan", "pretest"}
      PROVE  Found'
  BY <1>1, <1>2, SameDamage DEF Found
<1>3. CASE Begin
  BY <1>2, <1>3 DEF Begin, stored, found, Judged
<1>4. CASE Protect
  BY <1>2, <1>4 DEF Protect, stored, found, Judged
<1>5. CASE WriteBlocks
  BY <1>2, <1>5 DEF WriteBlocks, stored, found, Judged
<1>6. CASE Damage
  BY <1>6 DEF Damage, found, Judged, Found
<1>7. CASE StartScan
  <2>1. bad_crcs' = {} /\ n' = 0 /\ phase' \in {"scan", "pretest", "no_record"}
        /\ UNCHANGED archive
    BY <1>7 DEF StartScan, found, stored, Found, Judged
  <2>2. Damaged' \subseteq Nat
    <3>1. Damaged \subseteq Sectors /\ Sectors \subseteq Nat
      BY Facts DEF Damaged
    <3>. QED BY <1>1, <2>1, <3>1, SameDamage
  <2>3. {s \in Damaged' : s < 0} = {}
    <3>1. \A s \in Damaged' : ~(s < 0)
      BY <2>2
    <3>. QED BY <3>1
  <2>. QED BY <2>1, <2>3 DEF Found, Judged
<1>8. CASE ScanSector
  <2>1. /\ phase \in {"scan", "pretest"} /\ phase' = phase /\ n < arc_sectors /\ n' = n + 1
        /\ bad_crcs' = IF archive[n] # crcs[n + 1] THEN bad_crcs \union {n} ELSE bad_crcs
        /\ UNCHANGED archive
    BY <1>8 DEF ScanSector, stored
  <2>2. n \in Sectors /\ n \in Nat
    BY <2>1, Facts
  <2>3. crcs[n + 1] = Original(n)
    <3>1. Len(crcs) = arc_sectors /\ n + 1 \in 1 .. Len(crcs) /\ (n + 1) - 1 = n
      <4>1. Len(crcs) = arc_sectors
        BY <2>1 DEF Stored, Made
      <4>2. arc_sectors \in Nat
        BY Facts
      <4>. QED BY <2>1, <2>2, <4>1, <4>2
    <3>. QED BY <3>1 DEF Stored
  <2>4. archive[n] # crcs[n + 1] <=> n \in Damaged
    BY <2>2, <2>3 DEF Damaged
  <2>5. bad_crcs = {s \in Damaged : s < n}
    BY <2>1 DEF Found, Judged
  <2>6. Damaged' = Damaged /\ Damaged \subseteq Nat
    BY <1>1, <2>1, SameDamage, Facts DEF Damaged
  <2>7. {s \in Damaged : s < n + 1} = IF n \in Damaged THEN {s \in Damaged : s < n} \union {n}
                                      ELSE {s \in Damaged : s < n}
    <3>1. \A s \in Damaged : s < n + 1 <=> s < n \/ s = n
      BY <2>2, <2>6
    <3>2. ~(n < n)
      BY <2>2
    <3>. QED BY <3>1, <3>2
  <2>8. bad_crcs' = {s \in Damaged : s < n + 1}
    BY <2>1, <2>4, <2>5, <2>7
  <2>. QED BY <2>1, <2>6, <2>8 DEF Found, Judged
<1>9. CASE EndScan
  <2>1. /\ phase \in {"scan", "pretest"} /\ n = arc_sectors
        /\ phase' \in {"pretested", "archive_ok", "cannot_restore", "recover"}
        /\ UNCHANGED <<archive, bad_crcs>>
    BY <1>9 DEF EndScan, stored
  <2>2. bad_crcs = Damaged
    <3>1. bad_crcs = {s \in Damaged : s < arc_sectors}
      BY <2>1 DEF Found, Judged
    <3>2. \A s \in Damaged : s < arc_sectors
      BY Facts DEF Damaged
    <3>. QED BY <3>1, <3>2
  <2>. QED BY <1>1, <2>1, <2>2, SameDamage DEF Found, Judged
<1>10. CASE RecoverSector
  BY <1>2, <1>10 DEF RecoverSector, stored, Judged
<1>11. CASE EndRecovery
  BY <1>2, <1>11 DEF EndRecovery, stored, found, Judged
<1>. QED BY <1>3, <1>4, <1>5, <1>6, <1>7, <1>8, <1>9, <1>10, <1>11 DEF RecordNext

\* Sectors that are alone, as the code counts them and as they are laid out.
LEMMA AloneMeans ==
  ASSUME Typed, Hit, bad_crcs = Damaged
  PROVE  /\ Alone \subseteq Damaged
         /\ \A s \in Alone : /\ rec_sectors > 0 /\ Index(s) \in RecSectors
                             /\ \A t \in Damaged : Index(t) = Index(s) => t = s
         /\ \A s \in Damaged : s \in Restorable <=> \/ source = "usable" /\ s \in good
                                                    \/ s \in Alone /\ Index(s) \notin lost
<1>1. /\ recovery \in Requests /\ arcsize \in ArcSizes
      /\ Damaged \subseteq Sectors /\ Sectors \subseteq Int
  BY Facts DEF Typed, Damaged
<1>2. ASSUME rec_sectors > 0
      PROVE  \A s \in Damaged :
               /\ Class(s) = Index(s) /\ Index(s) \in RecSectors
               /\ \A t \in Damaged :
                    /\ Class(t) = Index(t)
                    /\ Index(t) = Index(s) <=> t % rec_sectors = s % rec_sectors
  BY <1>1, <1>2, Indices
<1>3. \A s \in Damaged :
        s \in Alone <=> rec_sectors > 0 /\ \A t \in Damaged : Index(t) = Index(s) => t = s
  BY <1>2 DEF Alone
<1>4. \A s \in Alone : s \in Damaged /\ rec_sectors > 0 /\ Index(s) \in RecSectors
  BY <1>2 DEF Alone
<1>5. \A s \in Damaged : s \in Restorable <=> \/ source = "usable" /\ s \in good
                                              \/ s \in Alone /\ Index(s) \notin lost
  BY <1>2, <1>3 DEF Restorable
<1>. QED BY <1>3, <1>4, <1>5

\* A sector that is alone is what it was when it is xor'ed with what the scan left in its
\* recovery sector, unless that is damaged, too.
LEMMA Restored ==
  ASSUME RecordInv, phase = "recover", NEW s \in Alone
  PROVE  Xor(archive[s], sectors[Index(s)]) = Original(s) <=> Index(s) \notin lost
<1>1. bad_crcs = Damaged /\ Typed /\ Hit /\ Mixture
  BY DEF RecordInv, Found, Judged
<1>2. /\ s \in Damaged /\ Index(s) \in RecSectors
      /\ \A t \in Damaged : Index(t) = Index(s) => t = s
  BY <1>1, AloneMeans
<1>3. s \in Nat /\ s < arc_sectors /\ archive[s] = {s, Broken(s)} /\ arc_sectors \in Nat
      /\ Damaged \subseteq Int
  <2>1. Damaged \subseteq Sectors /\ Sectors \subseteq Int /\ arc_sectors \in Nat
    BY <1>1, Facts DEF Damaged
  <2>. QED BY <1>1, <1>2, <2>1, WholeSector
<1>4. sectors[Index(s)] = {Broken(s)} \union Wrong(Index(s))
  <2>1. sectors[Index(s)] = Mixed(Index(s)) /\ From = arc_sectors /\ To = arc_sectors
    BY <1>1, <1>2 DEF Mixture, Made, From, To, Judged
  <2>2. Content(arc_sectors, arc_sectors, Damaged, Index(s)) = {Broken(s)}
    <3>1. \A e \in 0 - arc_sectors .. -1 : Broken(Broken(e)) = e
      BY <1>3 DEF Broken
    <3>2. Broken(s) \in 0 - arc_sectors .. -1 /\ Broken(Broken(s)) = s
      BY <1>3 DEF Broken
    <3>3. arc_sectors .. arc_sectors - 1 = {}
      BY <1>3
    <3>. QED BY <1>2, <3>1, <3>2, <3>3 DEF Content
  <2>. QED BY <2>1, <2>2 DEF Mixed
<1>5. Index(s) \in Int
  BY <1>1, <1>2, Facts
<1>6. CASE Index(s) \in lost
  <2>1. /\ sectors[Index(s)] = {Broken(s), -1 - arc_sectors - Index(s)}
        /\ -1 - arc_sectors - Index(s) \notin {s, Broken(s)} /\ s # Broken(s)
    <3>1. Index(s) >= 0
      BY <1>1, <1>2, Facts
    <3>. QED BY <1>3, <1>4, <1>5, <1>6, <3>1 DEF Wrong, Broken
  <2>2. -1 - arc_sectors - Index(s) \in Xor(archive[s], sectors[Index(s)])
    BY <1>3, <2>1 DEF Xor
  <2>. QED BY <1>6, <2>1, <2>2 DEF Original
<1>7. CASE Index(s) \notin lost
  <2>1. sectors[Index(s)] = {Broken(s)} /\ s # Broken(s)
    BY <1>3, <1>4, <1>7 DEF Wrong, Broken
  <2>. QED BY <1>3, <1>7, <2>1 DEF Xor, Original
<1>. QED BY <1>6, <1>7

\* What can be had back is the same as long as nothing is damaged and nothing found.
LEMMA SameRestorable ==
  ASSUME UNCHANGED request, UNCHANGED <<archive, lost, source, good, bad_crcs>>
  PROVE  Damaged' = Damaged /\ Restorable' = Restorable /\ Alone' = Alone
         /\ \A s : Original(s)' = Original(s)
<1>1. Damaged' = Damaged
  BY SameDamage
<1>2. Restorable' = Restorable
  BY <1>1, SameSize DEF Restorable, Class
<1>3. Alone' = Alone
  BY SameSize DEF Alone
<1>. QED BY <1>1, <1>2, <1>3 DEF Original

\* One sector of the new archive: what becomes of a sector is decided by what can be
\* had back.
LEMMA SectorRecovered ==
  ASSUME RecordInv, RecoverSector
  PROVE  /\ n \in Sectors /\ Len(fixed) = n
         /\ \A s \in Sectors : s # n => (s \in errors' <=> s \in errors)
         /\ errors' \subseteq Damaged
         /\ n \in errors' <=> n \in Damaged \ Restorable
         /\ \E c : /\ fixed' = Append(fixed, c)
                   /\ c = IF n \in errors' THEN archive[n] ELSE Original(n)
<1>1. /\ Typed /\ Stored /\ Hit /\ Mixture /\ Found /\ Repaired
      /\ phase = "recover" /\ n < arc_sectors
  BY DEF RecordInv, RecoverSector
<1>2. /\ n \in Sectors /\ n \in Nat /\ rec_sectors >= 0 /\ idx = Index(n)
      /\ Len(fixed) = n /\ bad_crcs = Damaged /\ recoverable = Alone
      /\ Alone \subseteq Damaged /\ Damaged \subseteq Sectors
  <2>1. n \in Sectors /\ n \in Nat /\ Damaged \subseteq Sectors
    BY <1>1, Facts DEF Damaged
  <2>2. rec_sectors >= 0 /\ idx = Index(n)
    BY <1>1 DEF Typed, Made
  <2>3. Len(fixed) = n /\ bad_crcs = Damaged /\ recoverable = Alone
    BY <1>1 DEF Repaired, Found, Judged
  <2>. QED BY <1>1, <2>1, <2>2, <2>3, AloneMeans
<1>3. errors = {s \in Damaged : IF s < n THEN s \notin Restorable ELSE s \notin Alone}
  BY <1>1, <1>2 DEF Repaired, Judged
<1>4. n \in errors <=> n \in Damaged /\ n \notin Alone
  <2>1. ~(n < n)
    BY <1>2
  <2>. QED BY <1>3, <2>1
<1>5. crcs[n + 1] = Original(n)
  <2>1. Len(crcs) = arc_sectors
    BY <1>1 DEF Stored, Made
  <2>2. n + 1 \in 1 .. Len(crcs) /\ (n + 1) - 1 = n
    BY <1>1, <1>2, <2>1, Facts
  <2>. QED BY <1>1, <2>2 DEF Stored
<1>6. PICK xored, repaired, left, loaded :
        /\ xored    = Xor(archive[n], sectors[idx])
        /\ repaired = (n \in recoverable /\ xored = crcs[n + 1])
        /\ left     = IF n \in recoverable /\ ~repaired THEN errors \union {n} ELSE errors
        /\ loaded   = (n \in left /\ source = "usable" /\ n \in good)
        /\ fixed'   = Append(fixed, IF repaired THEN xored
                                    ELSE IF loaded THEN crcs[n + 1] ELSE archive[n])
        /\ errors'  = IF loaded THEN left \ {n} ELSE left
  BY DEF RecoverSector
<1>7. repaired <=> n \in Alone /\ Index(n) \notin lost
  BY <1>1, <1>2, <1>5, <1>6, Restored
<1>8. n \in left <=> n \in Damaged /\ ~repaired
  BY <1>2, <1>4, <1>6, <1>7
<1>9. loaded <=> n \in Damaged /\ ~repaired /\ source = "usable" /\ n \in good
  BY <1>6, <1>8
<1>10. n \in errors' <=> n \in Damaged /\ ~repaired /\ ~(source = "usable" /\ n \in good)
  BY <1>6, <1>8, <1>9
<1>11. n \in Damaged => (n \in Restorable <=> repaired \/ (source = "usable" /\ n \in good))
  BY <1>1, <1>2, <1>7, AloneMeans
<1>12. \A s \in Sectors : s # n => (s \in errors' <=> s \in errors)
  <2>1. \A s : s # n => (s \in left <=> s \in errors)
    BY <1>6
  <2>. QED BY <1>6, <2>1
<1>13. errors' \subseteq Damaged
  <2>1. errors \subseteq Damaged
    BY <1>3
  <2>2. left \subseteq Damaged
    BY <1>2, <1>6, <2>1
  <2>. QED BY <1>6, <2>2
<1>14. PICK c : c = IF repaired THEN xored ELSE IF loaded THEN crcs[n + 1] ELSE archive[n]
  OBVIOUS
<1>15. c = IF n \in errors' THEN archive[n] ELSE Original(n)
  <2>1. CASE repaired
    BY <1>5, <1>6, <1>10, <1>14, <2>1
  <2>2. CASE ~repaired /\ loaded
    BY <1>5, <1>9, <1>10, <1>14, <2>2
  <2>3. CASE ~repaired /\ ~loaded
    <3>1. n \notin errors' => n \notin Damaged
      BY <1>9, <1>10, <2>3
    <3>2. n \notin Damaged => archive[n] = Original(n)
      BY <1>2 DEF Damaged
    <3>. QED BY <1>14, <2>3, <3>1, <3>2
  <2>. QED BY <2>1, <2>2, <2>3
<1>16. fixed' = Append(fixed, c)
  BY <1>6, <1>14
<1>. QED BY <1>2, <1>10, <1>11, <1>12, <1>13, <1>15, <1>16

\* What is repaired is what can be, sector by sector.
LEMMA RepairedKept ==
  ASSUME RecordInv, RecordNext
  PROVE  Repaired'
<1>1. UNCHANGED request
  BY SameRequest
<1>2. arc_sectors' = arc_sectors /\ \A s : Original(s)' = Original(s)
  BY <1>1, SameSize DEF Original
<1>3. Typed /\ Stored /\ Hit /\ Mixture /\ Found /\ Repaired
  BY DEF RecordInv
<1>4. ASSUME ~Judged, ~Judged', UNCHANGED <<recoverable, errors, fixed>>
      PROVE  Repaired'
  <2>1. fixed = <<>> /\ recoverable = {} /\ errors = {}
    BY <1>3, <1>4 DEF Repaired, Judged
  <2>. QED BY <1>4, <2>1 DEF Repaired, Judged
<1>5. CASE Begin
  BY <1>4, <1>5 DEF Begin, found, Judged
<1>6. CASE Protect
  BY <1>4, <1>6 DEF Protect, found, Judged
<1>7. CASE WriteBlocks
  BY <1>4, <1>7 DEF WriteBlocks, found, Judged
<1>8. CASE Damage
  BY <1>4, <1>8 DEF Damage, found, Judged
<1>9. CASE StartScan
  BY <1>4, <1>9 DEF StartScan, found, Judged
<1>10. CASE ScanSector
  BY <1>4, <1>10 DEF ScanSector, Judged
<1>11. CASE EndScan
  <2>1. /\ phase \in {"scan", "pretest"}
        /\ phase' \in {"pretested", "archive_ok", "cannot_restore", "recover"}
        /\ phase' = "cannot_restore" => Alone = {} /\ source = "none" /\ bad_crcs # {}
        /\ recoverable' = Alone /\ errors' = bad_crcs \ Alone
        /\ UNCHANGED <<archive, lost, source, good, bad_crcs, fixed>>
    BY <1>11 DEF EndScan, stored
  <2>2. Damaged' = Damaged /\ Alone' = Alone
    BY <1>1, <2>1, SameRestorable
  <2>3. Found'
    BY <1>3, <1>11, FoundKept DEF RecordNext
  <2>4. bad_crcs = Damaged
    BY <2>1, <2>2, <2>3 DEF Found, Judged
  <2>5. fixed' = <<>> /\ fixed' \in Seq(SUBSET Int) /\ Len(fixed') = 0
    BY <1>3, <2>1 DEF Repaired
  <2>6. errors' = {s \in Damaged : IF s < 0 THEN s \notin Restorable' ELSE s \notin Alone}
    <3>1. \A s \in Damaged : ~(s < 0)
      BY <1>3, Facts DEF Damaged
    <3>. QED BY <2>1, <2>4, <3>1
  <2>7. errors' = {s \in Damaged' : IF s < Len(fixed)' THEN s \notin Restorable'
                                                       ELSE s \notin Alone'}
    BY <2>2, <2>5, <2>6
  <2>8. Judged' /\ phase' # "recovered" /\ (phase' = "recover" => n' = 0)
    BY <1>11, <2>1 DEF EndScan, Judged
  <2>9. Len(fixed)' = IF phase' = "recover" THEN n'
                      ELSE IF phase' = "recovered" THEN arc_sectors' ELSE 0
    BY <2>5, <2>8
  <2>10. \A i \in 1 .. Len(fixed)' :
           fixed'[i] = IF i - 1 \in errors' THEN archive'[i - 1] ELSE Original(i - 1)'
    BY <2>5
  <2>11. phase' = "cannot_restore" => Alone' = {} /\ source' = "none" /\ Damaged' # {}
    BY <2>1, <2>2, <2>4
  <2>. QED BY <2>1, <2>2, <2>5, <2>7, <2>8, <2>9, <2>10, <2>11 DEF Repaired
<1>12. CASE RecoverSector
  <2>1. /\ phase = "recover" /\ phase' = phase /\ n' = n + 1
        /\ UNCHANGED <<archive, lost, source, good, bad_crcs, recoverable>>
    BY <1>12 DEF RecoverSector, stored
  <2>2. Damaged' = Damaged /\ Alone' = Alone /\ Restorable' = Restorable
    BY <1>1, <2>1, SameRestorable
  <2>3. /\ n \in Sectors /\ Len(fixed) = n
        /\ \A s \in Sectors : s # n => (s \in errors' <=> s \in errors)
        /\ errors' \subseteq Damaged
        /\ n \in errors' <=> n \in Damaged \ Restorable
    BY <1>12, SectorRecovered
  <2>4. PICK c : /\ fixed' = Append(fixed, c)
                 /\ c = IF n \in errors' THEN archive[n] ELSE Original(n)
    BY <1>12, SectorRecovered
  <2>5. n \in Nat /\ Sectors \subseteq Nat /\ Damaged \subseteq Sectors
    BY <1>3, <2>3, Facts DEF Damaged
  <2>6. archive[n] \in SUBSET Int /\ Original(n) \in SUBSET Int
    BY <1>3, <2>3, <2>5 DEF Hit, Original
  <2>7. c \in SUBSET Int
    BY <2>4, <2>6
  <2>8. fixed \in Seq(SUBSET Int)
        /\ \A i \in 1 .. n : fixed[i] = IF i - 1 \in errors THEN archive[i - 1]
                                        ELSE Original(i - 1)
    BY <1>3, <2>3 DEF Repaired
  <2>9. fixed' \in Seq(SUBSET Int) /\ Len(fixed') = n + 1 /\ fixed'[n + 1] = c
        /\ \A i \in 1 .. n : fixed'[i] = fixed[i]
    BY <2>3, <2>4, <2>7, <2>8
  <2>10. ASSUME NEW i \in 1 .. n + 1
         PROVE  fixed'[i] = IF i - 1 \in errors' THEN archive[i - 1] ELSE Original(i - 1)
    <3>1. CASE i = n + 1
      <4>1. i - 1 = n
        BY <2>5, <3>1
      <4>. QED BY <2>4, <2>9, <3>1, <4>1
    <3>2. CASE i \in 1 .. n
      <4>1. i - 1 \in Sectors /\ i - 1 # n
        BY <1>3, <2>3, <2>5, <3>2, Facts
      <4>. QED BY <2>3, <2>8, <2>9, <3>2, <4>1
    <3>. QED BY <2>5, <3>1, <3>2
  <2>11. errors' = {s \in Damaged : IF s < n + 1 THEN s \notin Restorable ELSE s \notin Alone}
    <3>1. errors = {s \in Damaged : IF s < n THEN s \notin Restorable ELSE s \notin Alone}
      BY <1>3, <2>1, <2>3 DEF Repaired, Judged
    <3>2. ASSUME NEW s \in Damaged
          PROVE  s \in errors' <=> IF s < n + 1 THEN s \notin Restorable ELSE s \notin Alone
      <4>1. CASE s = n
        BY <2>3, <2>5, <4>1
      <4>2. CASE s # n
        <5>1. (s < n + 1 <=> s < n) /\ s \in Sectors
          BY <2>5, <4>2
        <5>. QED BY <2>3, <3>1, <4>2, <5>1
      <4>. QED BY <4>1, <4>2
    <3>. QED BY <2>3, <3>2
  <2>. QED BY <1>2, <1>3, <2>1, <2>2, <2>9, <2>10, <2>11 DEF Repaired, Judged
<1>13. CASE EndRecovery
  <2>1. /\ phase = "recover" /\ phase' = "recovered" /\ n = arc_sectors
        /\ UNCHANGED <<archive, lost, source, good, bad_crcs, recoverable, errors, fixed>>
    BY <1>13 DEF EndRecovery, stored, found
  <2>2. Damaged' = Damaged /\ Alone' = Alone /\ Restorable' = Restorable
    BY <1>1, <2>1, SameRestorable
  <2>. QED BY <1>2, <1>3, <2>1, <2>2 DEF Repaired, Judged
<1>. QED BY <1>5, <1>6, <1>7, <1>8, <1>9, <1>10, <1>11, <1>12, <1>13 DEF RecordNext

-----------------------------------------------------------------------------
(***************************************************************************)
(* The invariant.                                                          *)
(***************************************************************************)
\* There is nothing yet.
LEMMA RecordInitInv ==
  ASSUME RecordInit
  PROVE  RecordInv
<1>1. recovery \in Requests /\ arcsize \in ArcSizes /\ phase = "begin" /\ n = 0
  BY DEF RecordInit
<1>2. arc_sectors \in Nat \ {0} /\ rec_sectors \in Int
  BY <1>1, Dimensions
<1>3. Typed
  BY <1>1, <1>2 DEF RecordInit, Typed, Made
<1>4. Stored
  BY <1>1 DEF RecordInit, Stored, Made
<1>5. Hit
  <2>1. Sectors \subseteq Int
    BY <1>3, Facts
  <2>2. archive = [s \in Sectors |-> {s}] /\ lost = {}
    BY DEF RecordInit, Original
  <2>3. archive \in [Sectors -> SUBSET Int] /\ \A s \in Sectors : archive[s] = {s}
    BY <2>1, <2>2
  <2>. QED BY <2>2, <2>3 DEF Hit, Damaged, Original
<1>6. Mixture
  BY <1>1 DEF Mixture, Made
<1>7. Found
  BY <1>1 DEF RecordInit, Found, Judged
<1>8. Repaired
  BY <1>1 DEF RecordInit, Repaired, Judged
<1>. QED BY <1>3, <1>4, <1>5, <1>6, <1>7, <1>8 DEF RecordInv

\* Every step keeps it.
LEMMA RecordNextInv ==
  ASSUME RecordInv, [RecordNext]_record_vars
  PROVE  RecordInv'
<1>1. CASE RecordNext
  <2>1. Typed /\ Stored /\ Hit /\ Mixture /\ Found /\ Repaired
    BY DEF RecordInv
  <2>2. Typed' /\ Stored' /\ Hit' /\ Mixture' /\ Found' /\ Repaired'
    BY <1>1, <2>1, TypedKept, StoredKept, HitKept, MixtureKept, FoundKept, RepairedKept
  <2>. QED BY <2>2 DEF RecordInv
<1>2. CASE UNCHANGED record_vars
  <2>1. /\ UNCHANGED request
        /\ UNCHANGED <<phase, n, idx, sectors, crcs, archive, lost, source, good, bad_crcs,
                        recoverable, errors, fixed>>
    BY <1>2 DEF record_vars, stored, found
  <2>2. Typed /\ Stored /\ Hit /\ Mixture /\ Found /\ Repaired
    BY DEF RecordInv
  <2>3. /\ recovery' = recovery /\ arcsize' = arcsize
        /\ arc_sectors' = arc_sectors /\ rec_sectors' = rec_sectors
        /\ Sectors' = Sectors /\ RecSectors' = RecSectors /\ Index(n)' = Index(n)
        /\ Made' = Made /\ Judged' = Judged /\ From' = From /\ To' = To
    BY <2>1, SameSize DEF Made, Judged, From, To, Index
  <2>4. Damaged' = Damaged /\ Restorable' = Restorable /\ Alone' = Alone
        /\ \A s : Original(s)' = Original(s)
    BY <2>1, SameRestorable
  <2>5. Typed'
    BY <2>1, <2>2, <2>3 DEF Typed
  <2>6. Stored'
    BY <2>1, <2>2, <2>3, <2>4 DEF Stored
  <2>7. Hit'
    BY <2>1, <2>2, <2>3, <2>4 DEF Hit, Broken, Original
  <2>8. Mixture'
    <3>1. CASE Made
      BY <2>1, <2>2, <2>3, <3>1, SameMixture
    <3>2. CASE ~Made
      BY <2>3, <3>2 DEF Mixture
    <3>. QED BY <3>1, <3>2
  <2>9. Found'
    BY <2>1, <2>2, <2>3, <2>4 DEF Found
  <2>10. Repaired'
    BY <2>1, <2>2, <2>3, <2>4 DEF Repaired
  <2>. QED BY <2>5, <2>6, <2>7, <2>8, <2>9, <2>10 DEF RecordInv
<1>. QED BY <1>1, <1>2

\* The recovery record holds what it is meant to hold, from the first sector that is
\* written to the last one that is repaired (writeRecoveryBlocks, scanArchive,
\* runArchiveRecovery).
THEOREM RecordInvariance == RecordSpec => []RecordInv
<1>1. RecordInit => RecordInv
  BY RecordInitInv
<1>2. RecordInv /\ [RecordNext]_record_vars => RecordInv'
  BY RecordNextInv
<1>. QED BY <1>1, <1>2, PTL DEF RecordSpec

-----------------------------------------------------------------------------
(***************************************************************************)
(* The theorems.                                                           *)
(***************************************************************************)
\* The loop counters stay in the archive and the recovery record, a recovery sector
\* has nothing but sectors and damage of this archive, and only damaged sectors that
\* were found are repaired or reported (scanArchive, runArchiveRecovery).
THEOREM RecordTypeCorrect == RecordSpec => []RecordTypeOK
<1>1. ASSUME RecordInv
      PROVE  RecordTypeOK
  <2>1. Typed /\ Stored /\ Hit /\ Mixture /\ Found /\ Repaired
    BY <1>1 DEF RecordInv
  <2>2. /\ arc_sectors \in Nat \ {0} /\ rec_sectors \in Int /\ n \in 0 .. arc_sectors
        /\ Sectors = 0 .. arc_sectors - 1 /\ RecSectors = 0 .. rec_sectors - 1
        /\ Damaged \subseteq Sectors
    BY <2>1, Facts DEF Damaged
  <2>3. ASSUME Made
        PROVE  /\ idx \in RecSectors \union {0} /\ DOMAIN sectors = RecSectors
               /\ \A j \in RecSectors : sectors[j] \subseteq Atoms
    <3>1. idx \in RecSectors \union {0} /\ sectors = [j \in RecSectors |-> Mixed(j)]
      BY <2>1, <2>3 DEF Typed, Mixture
    <3>2. From \in 0 .. arc_sectors /\ To \in 0 .. arc_sectors
      BY <2>2 DEF From, To
    <3>3. ASSUME NEW j \in RecSectors, NEW e \in Mixed(j)
          PROVE  e \in Atoms
      <4>1. \/ e \in From .. To - 1
            \/ e \in 0 - From .. -1
            \/ e = -1 - arc_sectors - j
        BY <3>3 DEF Mixed, Content, Wrong
      <4>2. j \in Int /\ 0 <= j /\ j <= rec_sectors - 1
        BY <2>2
      <4>. QED BY <2>2, <3>2, <4>1, <4>2 DEF Atoms
    <3>. QED BY <3>1, <3>3
  <2>4. Len(crcs) <= arc_sectors /\ Len(fixed) <= arc_sectors
    <3>1. /\ Len(crcs) = n \/ Len(crcs) = arc_sectors \/ Len(crcs) = 0
          /\ Len(fixed) = n \/ Len(fixed) = arc_sectors \/ Len(fixed) = 0
      BY <2>1 DEF Stored, Repaired
    <3>. QED BY <2>2, <3>1
  <2>5. bad_crcs \subseteq Sectors
    BY <2>1, <2>2 DEF Found
  <2>6. recoverable \subseteq bad_crcs
    BY <2>1 DEF Repaired, Alone
  <2>7. errors \subseteq bad_crcs
    BY <2>1 DEF Repaired, Found
  <2>8. DOMAIN archive = Sectors
    BY <2>1 DEF Hit
  <2>. QED BY <2>1, <2>3, <2>4, <2>5, <2>6, <2>7, <2>8 DEF RecordTypeOK, Typed, Made
<1>. QED BY <1>1, RecordInvariance, PTL

\* A scan finds the damaged sectors and no others, and a repaired archive has all that
\* the undamaged part of the record or the original can give back, and everything else
\* as it was, whatever was damaged; what is reported as left over is exactly the rest
\* (runArchiveRecovery).
THEOREM RepairIsExact == RecordSpec => []RepairExact
<1>1. ASSUME RecordInv
      PROVE  RepairExact
  <2>1. Typed /\ Stored /\ Hit /\ Mixture /\ Found /\ Repaired
    BY <1>1 DEF RecordInv
  <2>2. Judged => bad_crcs = Damaged
    BY <2>1 DEF Found
  <2>3. ASSUME phase = "cannot_restore"
        PROVE  Restorable = {}
    <3>1. Alone = {} /\ source = "none" /\ bad_crcs = Damaged
      BY <2>1, <2>2, <2>3 DEF Repaired, Judged
    <3>2. Restorable \subseteq Damaged
      BY DEF Restorable
    <3>. QED BY <2>1, <3>1, <3>2, AloneMeans
  <2>4. ASSUME phase = "recovered"
        PROVE  /\ errors = Damaged \ Restorable
               /\ \A s \in Sectors : fixed[s + 1] = IF s \in errors THEN archive[s]
                                                    ELSE Original(s)
    <3>1. /\ Len(fixed) = arc_sectors
          /\ Sectors = 0 .. arc_sectors - 1 /\ arc_sectors \in Nat
          /\ Damaged \subseteq Sectors
      BY <2>1, <2>4, Facts DEF Repaired, Damaged
    <3>2. errors = {s \in Damaged : IF s < arc_sectors THEN s \notin Restorable
                                                       ELSE s \notin Alone}
      BY <2>1, <2>4, <3>1 DEF Repaired, Judged
    <3>3. \A s \in Damaged : s < arc_sectors
      BY <3>1
    <3>4. errors = Damaged \ Restorable
      BY <3>2, <3>3
    <3>5. ASSUME NEW s \in Sectors
          PROVE  fixed[s + 1] = IF s \in errors THEN archive[s] ELSE Original(s)
      <4>1. s + 1 \in 1 .. Len(fixed) /\ (s + 1) - 1 = s
        BY <3>1
      <4>. QED BY <2>1, <4>1 DEF Repaired
    <3>. QED BY <3>4, <3>5
  <2>. QED BY <2>2, <2>3, <2>4 DEF RepairExact, Judged
<1>. QED BY <1>1, RecordInvariance, PTL

\* In a burst every damaged sector is alone in its class, and its recovery sector is
\* too far away to be hit.
LEMMA BurstSpreads ==
  ASSUME Typed, Hit, Burst, bad_crcs = Damaged, NEW s \in Damaged
  PROVE  s \in Alone /\ s \in Restorable
<1>1. /\ arc_sectors \in Nat \ {0} /\ rec_sectors \in Int
      /\ Sectors = 0 .. arc_sectors - 1 /\ RecSectors = 0 .. rec_sectors - 1
      /\ Damaged \subseteq Sectors
      /\ recovery \in Requests /\ arcsize \in ArcSizes
  BY Facts DEF Typed, Damaged
<1>2. PICK first \in 0 .. arc_sectors + rec_sectors - 1 :
        Damaged \union {arc_sectors + j : j \in lost}
          \subseteq first .. first + rec_sectors - 1
  BY DEF Burst
<1>3. first \in Int /\ \A t \in Damaged : t \in Int /\ first <= t /\ t < first + rec_sectors
  BY <1>1, <1>2
<1>4. rec_sectors > 0
  BY <1>1, <1>3
<1>5. /\ \A t \in Damaged : /\ Index(t) = Index(s) <=> t % rec_sectors = s % rec_sectors
                            /\ (Index(t) = Index(s) /\ t - s < rec_sectors
                                                    /\ s - t < rec_sectors) => t = s
      /\ arc_sectors + Index(s) - s >= rec_sectors /\ Index(s) \in RecSectors
  BY <1>1, <1>3, <1>4, Indices
<1>6. \A t \in Damaged : t - s < rec_sectors /\ s - t < rec_sectors
  BY <1>1, <1>3
<1>7. s \in Alone
  BY <1>4, <1>5, <1>6 DEF Alone
<1>8. Index(s) \notin lost
  <2>1. SUFFICES ASSUME Index(s) \in lost
                 PROVE  FALSE
    OBVIOUS
  <2>2. arc_sectors + Index(s) \in first .. first + rec_sectors - 1
    BY <1>2, <2>1
  <2>. QED BY <1>1, <1>3, <1>5, <2>2
<1>. QED BY <1>7, <1>8, AloneMeans

\* Damage of as many neighbouring sectors as there are recovery sectors is repaired
\* completely, wherever it is, at the end of the archive and in the record, too, for
\* every size of the archive and of the record (ArcRecover.hs:156-159).
THEOREM BurstsRecovered == RecordSpec => []BurstRecovered
<1>1. ASSUME RecordInv
      PROVE  BurstRecovered
  <2>1. Typed /\ Hit /\ Found /\ Repaired
    BY <1>1 DEF RecordInv
  <2>2. ASSUME phase = "recovered", Burst
        PROVE  errors = {}
    <3>1. bad_crcs = Damaged /\ \A s \in Damaged : s \in Restorable
      BY <2>1, <2>2, BurstSpreads DEF Found, Judged
    <3>2. \A s \in Damaged : s \in Alone
      BY <2>1, <2>2, <3>1, BurstSpreads
    <3>. QED BY <2>1, <3>1, <3>2 DEF Repaired
  <2>3. ASSUME phase = "cannot_restore", Burst
        PROVE  FALSE
    <3>1. bad_crcs = Damaged /\ Alone = {} /\ Damaged # {}
      BY <2>1, <2>3 DEF Repaired, Found, Judged
    <3>. QED BY <2>1, <2>3, <3>1, BurstSpreads
  <2>. QED BY <2>2, <2>3 DEF BurstRecovered
<1>. QED BY <1>1, RecordInvariance, PTL
=============================================================================
