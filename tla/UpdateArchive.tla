---------------------------- MODULE UpdateArchive ----------------------------
(***************************************************************************)
(* Replacement of an archive by an updated one (tempfileWrapper,           *)
(* ArcCreate.hs) and the abnormal ends of the program (Errors.hs).         *)
(*                                                                         *)
(* The new archive is written under a temporary name, tested if asked for, *)
(* then the archived files are deleted if asked for, the old archive is    *)
(* removed and the new one renamed, or copied where renaming fails.        *)
(*                                                                         *)
(* Three threads may end the program: the main one, the reading thread of  *)
(* archiving, and the one that serves Ctrl-Break.  Whichever does runs the *)
(* registered finalizers in `shutdown' while the others go on.  A crash of *)
(* the machine needs no action of its own: what must survive one is stated *)
(* of the files in every state.                                            *)
(***************************************************************************)
EXTENDS Integers, Sequences, SequencesExt

CONSTANT Events   \* what may happen: some of AllEvents

\* "break": Ctrl-Break; "fail": archiving or a test fails in the main thread;
\* "reader": the reading thread registers an error; "broken": the new archive turns
\* out broken; "nodelete": an archived file cannot be looked at or deleted;
\* "noremove", "norename": the old archive cannot be removed, the new one renamed;
\* "nocopy", "badcopy": copying it fails, or the copy differs; "foreign": another
\* program creates an archive of that name, or replaces the old one.
AllEvents == {"break", "fail", "reader", "broken", "nodelete", "noremove", "norename",
              "nocopy", "badcopy", "foreign"}

ASSUME EventsAssumption == Events \subseteq AllEvents

\* old: the archive exists when the command begins; test: -t; keep: -kb;
\* workdir: -w, the temporary name is in another directory; delete: -d.
Options == [old : BOOLEAN, test : BOOLEAN, keep : BOOLEAN, workdir : BOOLEAN,
            delete : BOOLEAN]

Threads == {"main", "reader", "break"}

VARIABLES
  opt,         \* the command
  arc,         \* the file with the name of the archive
  tmp,         \* the file with the temporary name
  src,         \* TRUE while the files to archive are on disk
  pc,          \* where the main thread is
  oldFile,     \* old_file: the archive existed when the command began
  reading,     \* TRUE while the reading thread runs
  finalizers,  \* registered, youngest first
  terminated,  \* operationTerminated
  finished,    \* programFinished
  spc,         \* each thread: where it is in shutdown
  todo,        \* each thread: finalizers it has yet to run
  ended,       \* how the process ended
  seen         \* for the properties: what is remembered of the old archive and a copy

disk == <<arc, tmp, src>>
vars == <<opt, seen, disk, pc, oldFile, reading, finalizers, terminated, finished, spc,
          todo, ended>>

\* Contents of a file: "old" and "new" archives, a "partial" one that is being
\* written, a "broken" one, a "bad_copy" of a new one, one of a "foreign" program.
Contents == {"none", "old", "new", "partial", "broken", "bad_copy", "foreign"}

Init ==
  /\ opt \in Options
  /\ arc = IF opt.old THEN "old" ELSE "none"
  /\ tmp = "none" /\ src = TRUE
  /\ pc = "begin" /\ oldFile = FALSE /\ reading = FALSE
  /\ finalizers = <<>> /\ terminated = FALSE /\ finished = FALSE
  /\ spc = [t \in Threads |-> "no"] /\ todo = [t \in Threads |-> <<>>]
  /\ ended = "no" /\ seen = {}

Running == ended = "no"
\* The main thread goes on only while it is not itself in shutdown.
At(place) == Running /\ pc = place /\ spc["main"] = "no"

-----------------------------------------------------------------------------
(***************************************************************************)
(* Finalizers and the end of the program (Errors.hs).                      *)
(***************************************************************************)
AddFinalizer(name) == finalizers' = <<name>> \o finalizers

\* Identifiers are unique (newId), so that at most one entry is filtered out.
Place(name) == CHOOSE i \in DOMAIN finalizers : finalizers[i] = name
RemoveFinalizer(name) ==
  finalizers' = IF \E i \in DOMAIN finalizers : finalizers[i] = name
                THEN RemoveAt(finalizers, Place(name)) ELSE finalizers

\* registerError, or an exception that nobody caught, in thread t.
RegisterError(t) == spc' = [spc EXCEPT ![t] = "check"]

\* unlessM (val programFinished): a second call skips the cleanup.
ShutdownCheck(t) ==
  /\ Running /\ spc[t] = "check"
  /\ spc' = [spc EXCEPT ![t] = IF finished THEN "exit" ELSE "first"]
  /\ UNCHANGED <<opt, seen, disk, pc, oldFile, reading, finalizers, terminated,
                 finished, todo, ended>>

\* programFinished =: True, and the list of finalizers is read.
ShutdownFirst(t) ==
  /\ Running /\ spc[t] = "first"
  /\ finished' = TRUE
  /\ todo' = [todo EXCEPT ![t] = finalizers]
  /\ spc' = [spc EXCEPT ![t] = "finalize"]
  /\ UNCHANGED <<opt, seen, disk, pc, oldFile, reading, finalizers, terminated, ended>>

RunFinalizer(t) ==
  /\ Running /\ spc[t] = "finalize" /\ todo[t] # <<>>
  /\ LET name == Head(todo[t])
     IN /\ tmp' = IF name = "remove_tmp" THEN "none" ELSE tmp
        /\ arc' = IF name = "remove_copy" THEN "none" ELSE arc
        /\ terminated' = (terminated \/ name = "terminate")
  /\ todo' = [todo EXCEPT ![t] = Tail(@)]
  /\ UNCHANGED <<opt, seen, src, pc, oldFile, reading, finalizers, finished, spc,
                 ended>>

Exit(t) ==
  /\ Running
  /\ spc[t] = "exit" \/ (spc[t] = "finalize" /\ todo[t] = <<>>)
  /\ ended' = IF t = "main" /\ pc = "finish" THEN "normally" ELSE "abnormally"
  /\ UNCHANGED <<opt, seen, disk, pc, oldFile, reading, finalizers, terminated,
                 finished, spc, todo>>

\* onBreak: the signal is caught once.
Break == /\ Running /\ "break" \in Events /\ spc["break"] = "no"
         /\ RegisterError("break")
         /\ UNCHANGED <<opt, seen, disk, pc, oldFile, reading, finalizers, terminated,
                        finished, todo, ended>>

Shutdown(t) == ShutdownCheck(t) \/ ShutdownFirst(t) \/ RunFinalizer(t) \/ Exit(t)

-----------------------------------------------------------------------------
(***************************************************************************)
(* The first part of tempfileWrapper: archiving to the temporary file, with *)
(* its removal as a handler and a finalizer.                               *)
(***************************************************************************)
\* The reading thread starts with a finalizer of its own, which stops the
\* packers (ArcvProcessRead.hs:61).
BeginArchiving ==
  /\ At("begin")
  /\ oldFile' = (arc # "none")
  /\ finalizers' = <<"terminate", "remove_tmp">>
  /\ tmp' = "partial"
  /\ reading' = TRUE
  /\ pc' = "archiving"
  /\ UNCHANGED <<opt, seen, arc, src, terminated, finished, spc, todo, ended>>

\* The reading thread registers an error, or sees that it has to stop: that is
\* an exception nobody catches.
ReaderFails ==
  /\ Running /\ reading /\ spc["reader"] = "no"
  /\ "reader" \in Events \/ terminated
  /\ RegisterError("reader")
  /\ UNCHANGED <<opt, seen, disk, pc, oldFile, reading, finalizers, terminated,
                 finished, todo, ended>>

\* Mutant: the archived files are deleted as soon as the archive is written.
MutDeleteEarly ==
  /\ At("archiving") /\ spc["reader"] = "no"
  /\ tmp' = IF tmp = "none" THEN "none" ELSE "new"
  /\ src' = (src /\ ~opt.delete)
  /\ reading' = FALSE
  /\ RemoveFinalizer("terminate")
  /\ pc' = IF opt.test THEN "test" ELSE "leave"
  /\ UNCHANGED <<opt, seen, arc, oldFile, terminated, finished, spc, todo, ended>>

\* Everything is written and the reading thread was joined.  A temporary file
\* that was removed meanwhile does not come back.
ArchivingDone ==
  /\ At("archiving") /\ spc["reader"] = "no"
  /\ \/ tmp' = IF tmp = "none" THEN "none" ELSE "new"
     \/ "broken" \in Events /\ opt.test /\ tmp # "none" /\ tmp' = "broken"
  /\ reading' = FALSE
  /\ RemoveFinalizer("terminate")
  /\ pc' = IF opt.test THEN "test" ELSE "leave"
  /\ UNCHANGED <<opt, seen, arc, src, oldFile, terminated, finished, spc, todo, ended>>

\* The main thread registers an error; or there is an exception in it, raised
\* by failOnTerminated among others: the handler removes the temporary file,
\* and then nobody catches it.
ArchivingFails ==
  /\ At("archiving")
  /\ \/ "fail" \in Events /\ UNCHANGED <<tmp, finalizers>>
     \/ /\ "fail" \in Events \/ terminated
        /\ tmp' = "none" /\ RemoveFinalizer("remove_tmp")
  /\ RegisterError("main")
  /\ UNCHANGED <<opt, seen, arc, src, pc, oldFile, reading, terminated, finished, todo,
                 ended>>

\* Mutant: warnings of the test are not counted.
MutTestIgnored ==
  /\ At("test")
  /\ pc' = "leave"
  /\ UNCHANGED <<opt, seen, disk, oldFile, reading, finalizers, terminated, finished,
                 spc, todo, ended>>

\* test_archive: a broken archive is removed unless -kb was given, and in both
\* cases registerError is called.
TestArchive ==
  /\ At("test")
  /\ IF tmp = "new" THEN pc' = "leave" /\ UNCHANGED <<tmp, spc>>
     ELSE /\ tmp' = IF opt.keep THEN tmp ELSE "none"
          /\ pc' = "found_broken"
          /\ RegisterError("main")
  /\ UNCHANGED <<opt, seen, arc, src, oldFile, reading, finalizers, terminated,
                 finished, todo, ended>>

\* Testing raises an exception, or registers an error, whatever the archive is like.
TestFails ==
  /\ At("test")
  /\ \/ "fail" \in Events /\ UNCHANGED <<tmp, finalizers>>
     \/ /\ "fail" \in Events \/ terminated
        /\ tmp' = "none" /\ RemoveFinalizer("remove_tmp")
  /\ RegisterError("main")
  /\ UNCHANGED <<opt, seen, arc, src, pc, oldFile, reading, terminated, finished, todo,
                 ended>>

\* Mutant: the finalizer outlives its scope.
MutFinalizerStays ==
  /\ At("leave")
  /\ IF terminated THEN RegisterError("main") /\ UNCHANGED pc
                   ELSE pc' = "delete_files" /\ UNCHANGED spc
  /\ UNCHANGED <<opt, seen, disk, oldFile, reading, finalizers, terminated, finished,
                 todo, ended>>

\* The scope of the handler ends; the next one looks at the flag first.
LeaveFirstPart ==
  /\ At("leave")
  /\ RemoveFinalizer("remove_tmp")
  /\ IF terminated THEN RegisterError("main") /\ UNCHANGED pc
                   ELSE pc' = "delete_files" /\ UNCHANGED spc
  /\ UNCHANGED <<opt, seen, disk, oldFile, reading, terminated, finished, todo, ended>>

-----------------------------------------------------------------------------
(***************************************************************************)
(* The second part, in which the temporary file is kept if anything fails. *)
(***************************************************************************)
\* A file that cannot be removed is passed over; one that cannot be looked at raises an
\* exception, when others may already be gone.
DeleteArchivedFiles ==
  /\ At("delete_files")
  /\ \/ src' = (src /\ ~opt.delete)
     \/ "nodelete" \in Events /\ src' = src
  /\ \/ pc' = "remove_old" /\ UNCHANGED spc
     \/ "nodelete" \in Events /\ opt.delete /\ RegisterError("main") /\ UNCHANGED pc
  /\ UNCHANGED <<opt, seen, arc, tmp, oldFile, reading, finalizers, terminated,
                 finished, todo, ended>>

\* Mutant: whatever has the name of the archive is removed.
MutRemoveAny ==
  /\ At("remove_old")
  /\ arc' = "none" /\ pc' = "rename"
  /\ UNCHANGED <<opt, seen, tmp, src, oldFile, reading, finalizers, terminated,
                 finished, spc, todo, ended>>

\* The old archive is removed, or whatever has its name now; if there was none and
\* now there is one, that is an error, as it is if the old one cannot be removed.
RemoveOld ==
  /\ At("remove_old")
  /\ \/ /\ oldFile = (arc # "none")
        /\ arc' = "none" /\ pc' = "rename" /\ UNCHANGED spc
     \/ /\ oldFile # (arc # "none") \/ (oldFile /\ "noremove" \in Events)
        /\ RegisterError("main") /\ UNCHANGED <<arc, pc>>
  /\ UNCHANGED <<opt, seen, tmp, src, oldFile, reading, finalizers, terminated,
                 finished, todo, ended>>

Rename ==
  /\ At("rename") /\ tmp # "none"
  /\ arc' = tmp /\ tmp' = "none"
  /\ pc' = "retest"
  /\ UNCHANGED <<opt, seen, src, oldFile, reading, finalizers, terminated, finished,
                 spc, todo, ended>>

\* Renaming fails and fileCopy begins; it has no source if the temporary file
\* is gone.
StartCopy ==
  /\ At("rename") /\ ("norename" \in Events \/ tmp = "none")
  /\ IF tmp = "none" \/ terminated
     THEN RegisterError("main") /\ UNCHANGED <<arc, pc, finalizers>>
     ELSE /\ arc' = "partial" /\ pc' = "copy" /\ AddFinalizer("remove_copy")
          /\ UNCHANGED spc
  /\ UNCHANGED <<opt, seen, tmp, src, oldFile, reading, terminated, finished, todo,
                 ended>>

\* The source is held open, and the copy stays gone if it was removed meanwhile.
\* Nothing compares the two, and a read that ends early ends the copy (Files.hs:720).
CopyDone ==
  /\ At("copy")
  /\ \/ arc' = (IF arc = "partial" THEN "new" ELSE arc) /\ UNCHANGED seen
     \/ /\ "badcopy" \in Events /\ arc = "partial"
        /\ arc' = "bad_copy" /\ seen' = seen \union {"differs"}
  /\ RemoveFinalizer("remove_copy")
  /\ pc' = "remove_tmp"
  /\ UNCHANGED <<opt, tmp, src, oldFile, reading, terminated, finished, spc, todo,
                 ended>>

CopyFails ==
  /\ At("copy") /\ "nocopy" \in Events
  /\ arc' = "none"
  /\ RemoveFinalizer("remove_copy")
  /\ RegisterError("main")
  /\ UNCHANGED <<opt, seen, tmp, src, pc, oldFile, reading, terminated, finished, todo,
                 ended>>

\* Here too it is an error if the file is not there.
RemoveTemporary ==
  /\ At("remove_tmp")
  /\ IF tmp = "none" THEN RegisterError("main") /\ UNCHANGED pc
                     ELSE pc' = "retest" /\ UNCHANGED spc
  /\ tmp' = "none"
  /\ UNCHANGED <<opt, seen, arc, src, oldFile, reading, finalizers, terminated,
                 finished, todo, ended>>

\* Mutant: the second test is made where the first one was enough.
MutTestAgainInPlace ==
  /\ At("retest")
  /\ IF opt.test /\ ~opt.workdir /\ arc # "new"
     THEN /\ arc' = IF opt.keep \/ opt.delete THEN arc ELSE "none"
          /\ UNCHANGED pc
     ELSE pc' = "finish" /\ UNCHANGED arc
  /\ RegisterError("main")
  /\ UNCHANGED <<opt, seen, tmp, src, oldFile, reading, finalizers, terminated,
                 finished, todo, ended>>

\* With -t and -w the archive is tested again under its own name, outside of
\* the two handlers, which may fail.  Then the command is over and so is the program.
TestAgain ==
  /\ At("retest")
  /\ IF opt.test /\ opt.workdir /\ arc # "new"
     THEN /\ arc' = IF opt.keep \/ opt.delete THEN arc ELSE "none"
          /\ UNCHANGED pc
     ELSE \/ pc' = "finish" /\ UNCHANGED arc
          \/ /\ opt.test /\ opt.workdir /\ ("fail" \in Events \/ terminated)
             /\ UNCHANGED <<arc, pc>>
  /\ RegisterError("main")   \* or plain shutdown, after the last command
  /\ UNCHANGED <<opt, seen, tmp, src, oldFile, reading, finalizers, terminated,
                 finished, todo, ended>>

\* Another program creates an archive of the same name, or replaces the old one
\* (what it does before the command begins makes the old archive).
CreateForeign ==
  /\ Running /\ "foreign" \in Events
  /\ pc # "begin" /\ arc \in {"none", "old"}
  /\ arc' = "foreign"
  /\ seen' = IF arc = "old" THEN seen \union {"replaced"} ELSE seen
  /\ UNCHANGED <<opt, tmp, src, pc, oldFile, reading, finalizers, terminated, finished,
                 spc, todo, ended>>

Next ==
  \/ BeginArchiving \/ ArchivingDone \/ ArchivingFails \/ TestArchive \/ TestFails
  \/ LeaveFirstPart \/ DeleteArchivedFiles \/ RemoveOld
  \/ Rename \/ StartCopy \/ CopyDone \/ CopyFails \/ RemoveTemporary \/ TestAgain
  \/ ReaderFails \/ CreateForeign \/ Break
  \/ \E t \in Threads : Shutdown(t)

Spec == Init /\ [][Next]_vars
-----------------------------------------------------------------------------
\* The lists of finalizers there may be.
Lists == {<<>>, <<"terminate">>, <<"remove_tmp">>, <<"remove_copy">>,
          <<"terminate", "remove_tmp">>}

TypeOK ==
  /\ opt \in Options
  /\ arc \in Contents /\ tmp \in Contents \ {"old", "foreign"} /\ src \in BOOLEAN
  /\ pc \in {"begin", "archiving", "test", "found_broken", "leave", "delete_files",
             "remove_old", "rename", "copy", "remove_tmp", "retest", "finish"}
  /\ oldFile \in BOOLEAN /\ reading \in BOOLEAN
  /\ terminated \in BOOLEAN /\ finished \in BOOLEAN
  /\ finalizers \in Lists /\ todo \in [Threads -> Lists]
  /\ spc \in [Threads -> {"no", "check", "first", "finalize", "exit"}]
  /\ ended \in {"no", "normally", "abnormally"}
  /\ seen \subseteq {"replaced", "differs"}

\* Whenever the machine crashes and wherever the command fails, what was in the
\* old archive is in some whole archive on disk, unless another program replaced the
\* old one, and so are the files that were deleted (the order of the steps in
\* tempfileWrapper, ArcCreate.hs:197-214).  A copy that differs is no whole archive.
Whole == "new" \in {arc, tmp}
OnDisk == /\ opt.old => arc = "old" \/ Whole \/ "replaced" \in seen
          /\ ~src => Whole

\* That holds unless Ctrl-Break was pressed, or the copy differs: the old archive is
\* gone by then, and the good temporary file is removed (ArcCreate.hs:214) before
\* anything but the system's own errors was looked at.
Interrupted == spc["break"] # "no"
OnlyBadCopy == "differs" \in seen /\ pc # "remove_tmp"
NothingLost == ~Interrupted /\ ~OnlyBadCopy => OnDisk

\* When the program ends well, the temporary file is gone and the archive is the
\* new one, by whichever way it was moved; only a copy that nothing tested, for
\* want of -t or -w, may differ (ArcCreate.hs:210-216).
SuccessIsNew ==
  ended = "normally" /\ ~Interrupted =>
    /\ tmp = "none"
    /\ arc = "new" \/ (arc = "bad_copy" /\ ~(opt.test /\ opt.workdir))

\* An archive another program put there meanwhile is left alone (ArcCreate.hs:206,
\* which has to tell it from the old archive), whatever fails and whoever cleans up,
\* except by two steps that do not look: the one that removes what has the name of the
\* old archive ("it would be good to check that it is still the same file", line 207),
\* and renaming or copying to a name that was free a moment before.
Unlooked == At("rename") \/ (At("remove_old") /\ oldFile)
ForeignKept ==
  [][arc = "foreign" /\ ~Unlooked /\ ~Interrupted => arc' = "foreign"]_vars

\* However the program is interrupted, as long as the first part lasts it leaves the
\* old archive and the files alone (the handler of ArcCreate.hs:197 may only remove
\* the temporary file).
InterruptedHarmless ==
  pc \in {"archiving", "test", "found_broken"} =>
    src /\ (opt.old => arc = "old" \/ "replaced" \in seen)
=============================================================================
