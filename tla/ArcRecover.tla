----------------------------- MODULE ArcRecover -----------------------------
(***************************************************************************)
(* The recovery record (ArcRecover.hs): how it is dimensioned and written, *)
(* how an archive is scanned for damage, and how it is repaired.           *)
(*                                                                         *)
(* The archive is divided into sectors.  Sector n is xor'ed into one of    *)
(* rec_sectors recovery sectors, each of them in turn, such that the last  *)
(* sector of the archive goes to the last recovery sector.  A sector whose *)
(* CRC is wrong can be computed from its recovery sector and the other     *)
(* sectors of the same class.                                              *)
(*                                                                         *)
(* The contents of a sector are a set and xor is the symmetric difference: *)
(* sector n is {n}, and damage is an element that nothing else has.  So no *)
(* two sectors are equal, and a CRC tells all contents apart.              *)
(*                                                                         *)
(* The formulas have names of their own (Record...): the module can be     *)
(* extended together with UpdateArchive, which is about the same file.     *)
(***************************************************************************)
EXTENDS Integers, Sequences, FiniteSets

CONSTANTS ArcSizes,      \* possible sizes of an archive, in bytes
          Amounts,       \* sizes that may be asked for: -rr AMOUNT and -rr AMOUNT;SS
          Numbers,       \* numbers of sectors that may be: -rr NUMBER*SS
          SectorSizes    \* values of SS

ASSUME ParametersAssumption ==
  /\ ArcSizes \subseteq Nat \ {0} /\ SectorSizes \subseteq Nat \ {0}
  /\ Amounts \subseteq Nat /\ Numbers \subseteq Nat

CRC     == 4      \* bytes of a CRC
Default == 0      \* no explicit sector size

\* What the option -rr asks for.
Requests == [form : {"amount"}, amount : Amounts, ss : SectorSizes \union {Default}]
            \union [form : {"number"}, amount : Numbers, ss : SectorSizes]

VARIABLES
  recovery, arcsize,   \* the option; size of the archive
  phase,
  n, idx,              \* loop counters: sector of the archive, its recovery sector
  sectors,             \* the recovery sectors (in memory)
  crcs,                \* contents the stored CRCs stand for
  archive,             \* the sectors of the archive
  lost,                \* recovery sectors that were damaged (history)
  source, good,        \* the original for --original; its good sectors
  bad_crcs,            \* damaged sectors that were found
  recoverable, errors,
  fixed                \* the sectors of the new archive

request     == <<recovery, arcsize>>
stored      == <<archive, lost, source, good>>
found       == <<bad_crcs, recoverable, errors, fixed>>
record_vars == <<request, phase, n, idx, sectors, crcs, stored, found>>

Xor(a, b) == (a \ b) \union (b \ a)

-----------------------------------------------------------------------------
(***************************************************************************)
(* The dimensions of a recovery record.                                    *)
(***************************************************************************)
\* The mutants of this module (Mut...) are definitions with a bug the code does
\* not have; no other definition uses them.

divRoundUp(x, chunk) == (x - 1) \div chunk + 1

\* 2^lb x: the greatest power of two that is not above x, and 1 for 0.
PowersTo(x)   == {1} \union {p \in 1 .. x : \E e \in 1 .. x : p = 2 ^ e}
PowerBelow(x) == CHOOSE p \in PowersTo(x) : \A q \in PowersTo(x) : q <= p

sector_size ==
  CASE recovery.ss # Default                           -> recovery.ss
    [] recovery.ss = Default /\ recovery.amount = 0    -> 4096
    [] recovery.ss = Default /\ recovery.amount # 0    ->
         LET p == PowerBelow((40 * arcsize) \div recovery.amount)
         IN  IF p < 512 THEN 512 ELSE p

arc_sectors == divRoundUp(arcsize, sector_size)
crcs_size0  == arc_sectors * CRC

\* An explicit number of sectors is the size of everything.
rec_size == IF recovery.form = "number" THEN recovery.amount * sector_size
            ELSE IF recovery.amount > crcs_size0 THEN recovery.amount ELSE crcs_size0

rec_sectors == divRoundUp(rec_size - crcs_size0, sector_size)

Sectors    == 0 .. arc_sectors - 1
RecSectors == 0 .. rec_sectors - 1

\* The first sector of the archive goes to the first recovery sector.
MutFirstIndex == 0

\* rem instead of mod.
MutFirstIndexRem == IF rec_sectors > 0 THEN 0 - (arc_sectors % rec_sectors) ELSE 0

\* The last sector of the archive goes to the last recovery sector.
FirstIndex == IF rec_sectors > 0 THEN (0 - arc_sectors) % rec_sectors ELSE 0

NextIndex  == idx' = IF rec_sectors > 0 THEN (idx + 1) % rec_sectors ELSE idx

-----------------------------------------------------------------------------
Original(s) == {s}

RecordInit ==
  /\ recovery \in Requests /\ arcsize \in ArcSizes
  /\ phase = "begin" /\ n = 0 /\ idx = 0
  /\ sectors = <<>> /\ crcs = <<>>
  /\ archive = [s \in Sectors |-> Original(s)] /\ lost = {}
  /\ source = "none" /\ good = {}
  /\ bad_crcs = {} /\ recoverable = {} /\ errors = {} /\ fixed = <<>>

\* writeRecoveryBlocks allocates its buffers.  For less than no recovery sectors
\* there is no memory.
Begin == /\ phase = "begin"
         /\ IF rec_sectors >= 0
            THEN /\ sectors' = [j \in RecSectors |-> {}] /\ idx' = FirstIndex
                 /\ phase' = "protect"
            ELSE phase' = "failed" /\ UNCHANGED <<sectors, idx>>
         /\ UNCHANGED <<request, n, crcs, stored, found>>

XorSector == sectors' = IF rec_sectors > 0
                        THEN [sectors EXCEPT ![idx] = Xor(@, archive[n])] ELSE sectors

Protect == /\ phase = "protect" /\ n < arc_sectors
           /\ crcs' = Append(crcs, archive[n])
           /\ XorSector /\ NextIndex /\ n' = n + 1
           /\ UNCHANGED <<request, phase, stored, found>>

\* Both blocks are written.
WriteBlocks == /\ phase = "protect" /\ n = arc_sectors
               /\ phase' = "written"
               /\ UNCHANGED <<request, n, idx, sectors, crcs, stored, found>>

\* The world: any sectors of the archive and of the record are damaged, and an
\* original is or is not at hand, which is damaged, too, or is not the same file.
Damage ==
  /\ phase = "written" /\ phase' = "damaged"
  /\ \E hit \in SUBSET Sectors :
       archive' = [s \in Sectors |-> IF s \in hit THEN Xor(archive[s], {-1 - s})
                                                  ELSE archive[s]]
  /\ lost' \in SUBSET RecSectors
  /\ sectors' = [j \in RecSectors |-> IF j \in lost' THEN Xor(sectors[j], {-1 - arc_sectors - j})
                                                     ELSE sectors[j]]
  /\ \/ source' \in {"none", "unusable"} /\ good' = {}
     \/ source' = "usable" /\ good' \in SUBSET Sectors
  /\ UNCHANGED <<request, n, idx, crcs, found>>

\* pretestArchive or runArchiveRecovery calls scanArchive; the blocks of the record
\* cannot be found or the CRCs are broken, too.
StartScan == /\ phase = "damaged"
             /\ phase' \in {"scan", "pretest", "no_record"}
             /\ n' = 0 /\ idx' = FirstIndex
             /\ UNCHANGED <<request, sectors, crcs, stored, found>>

ScanSector == /\ phase \in {"scan", "pretest"} /\ n < arc_sectors
              /\ IF phase = "scan" THEN XorSector /\ NextIndex ELSE UNCHANGED <<sectors, idx>>
              /\ bad_crcs' = IF archive[n] # crcs[n + 1] THEN bad_crcs \union {n} ELSE bad_crcs
              /\ n' = n + 1
              /\ UNCHANGED <<request, phase, crcs, stored, recoverable, errors, fixed>>

\* The sectors that have a recovery sector for themselves.
Alone == {s \in bad_crcs : rec_sectors > 0 /\ \A t \in bad_crcs :
                             t % rec_sectors = s % rec_sectors => t = s}

\* What to repair is decided, and whether there is anything to do.
EndScan ==
  /\ phase \in {"scan", "pretest"} /\ n = arc_sectors
  /\ phase' = CASE phase = "pretest"                     -> "pretested"
                [] phase = "scan" /\ bad_crcs = {}       -> "archive_ok"
                [] phase = "scan" /\ bad_crcs # {}       ->
                     IF Alone = {} /\ source = "none" THEN "cannot_restore" ELSE "recover"
  /\ recoverable' = Alone /\ errors' = bad_crcs \ Alone
  /\ n' = 0 /\ idx' = FirstIndex
  /\ UNCHANGED <<request, sectors, crcs, stored, bad_crcs, fixed>>

\* The damaged sector is left xor'ed when its CRC is wrong after that, too.
MutRecoverSector ==
  /\ phase = "recover" /\ n < arc_sectors
  /\ LET xored    == Xor(archive[n], sectors[idx])
         wrong    == n \in recoverable /\ xored # crcs[n + 1]
         buf      == IF n \in recoverable THEN xored ELSE archive[n]
         left     == IF wrong THEN errors \union {n} ELSE errors
         loaded   == n \in left /\ source = "usable" /\ n \in good
     IN  /\ fixed' = Append(fixed, IF loaded THEN crcs[n + 1] ELSE buf)
         /\ errors' = IF loaded THEN left \ {n} ELSE left
  /\ NextIndex /\ n' = n + 1
  /\ UNCHANGED <<request, phase, sectors, crcs, stored, bad_crcs, recoverable>>

\* One sector of the new archive: a recoverable one is xor'ed with what the scan left
\* in its recovery sector, and back again when its CRC is still wrong; one that is
\* not repaired is loaded from the original, if that has the right CRC.
RecoverSector ==
  /\ phase = "recover" /\ n < arc_sectors
  /\ LET xored    == Xor(archive[n], sectors[idx])
         repaired == n \in recoverable /\ xored = crcs[n + 1]
         left     == IF n \in recoverable /\ ~repaired THEN errors \union {n} ELSE errors
         loaded   == n \in left /\ source = "usable" /\ n \in good
     IN  /\ fixed' = Append(fixed, IF repaired THEN xored
                                   ELSE IF loaded THEN crcs[n + 1] ELSE archive[n])
         /\ errors' = IF loaded THEN left \ {n} ELSE left
  /\ NextIndex /\ n' = n + 1
  /\ UNCHANGED <<request, phase, sectors, crcs, stored, bad_crcs, recoverable>>

EndRecovery == /\ phase = "recover" /\ n = arc_sectors
               /\ phase' = "recovered"
               /\ UNCHANGED <<request, n, idx, sectors, crcs, stored, found>>

RecordNext ==
  \/ Begin \/ Protect \/ WriteBlocks \/ Damage \/ StartScan \/ ScanSector \/ EndScan
  \/ RecoverSector \/ EndRecovery

RecordSpec == RecordInit /\ [][RecordNext]_record_vars

-----------------------------------------------------------------------------
Atoms == (-1 - arc_sectors - rec_sectors) .. arc_sectors

RecordTypeOK ==
  /\ recovery \in Requests /\ arcsize \in ArcSizes
  /\ phase \in {"begin", "failed", "protect", "written", "damaged", "no_record", "scan",
                "pretest", "pretested", "archive_ok", "cannot_restore", "recover",
                "recovered"}
  /\ n \in 0 .. arc_sectors
  /\ phase \notin {"begin", "failed"} =>
       /\ idx \in RecSectors \union {0} /\ DOMAIN sectors = RecSectors
       /\ \A j \in RecSectors : sectors[j] \subseteq Atoms
  /\ Len(crcs) <= arc_sectors /\ Len(fixed) <= arc_sectors
  /\ DOMAIN archive = Sectors /\ lost \subseteq RecSectors
  /\ source \in {"none", "unusable", "usable"} /\ good \subseteq Sectors
  /\ bad_crcs \subseteq Sectors /\ recoverable \subseteq bad_crcs /\ errors \subseteq bad_crcs

Damaged == {s \in Sectors : archive[s] # Original(s)}

\* The recovery sector of a sector, counted from the ends of both.
Class(s) == rec_sectors - 1 - ((arc_sectors - 1 - s) % rec_sectors)

\* Sectors that can be had back: alone in their class with an intact recovery sector,
\* or in the original.
Restorable == {s \in Damaged :
                 \/ source = "usable" /\ s \in good
                 \/ /\ rec_sectors > 0 /\ Class(s) \notin lost
                    /\ \A t \in Damaged \ {s} : Class(t) # Class(s)}

\* A scan finds what is damaged and nothing else.  The new archive has all that
\* can be had back, and everything else as it was, and the errors reported are what
\* is still damaged - whatever was damaged, the recovery sectors included.
RepairExact ==
  /\ phase \in {"pretested", "archive_ok", "cannot_restore", "recovered"} => bad_crcs = Damaged
  /\ phase = "cannot_restore" => Restorable = {}
  /\ phase = "recovered" =>
       /\ errors = Damaged \ Restorable
       /\ \A s \in Sectors : fixed[s + 1] = IF s \in errors THEN archive[s] ELSE Original(s)

\* Damage of rec_sectors neighbouring sectors, at the end of the archive and the
\* beginning of the recovery sectors, too, is always repaired (the comment at
\* ArcRecover.hs:156-159 promises it).
Burst == \E first \in 0 .. arc_sectors + rec_sectors - 1 :
           Damaged \union {arc_sectors + j : j \in lost} \subseteq first .. first + rec_sectors - 1

BurstRecovered ==
  /\ phase = "recovered" /\ Burst => errors = {}
  /\ phase = "cannot_restore" => ~Burst

\* What the code means to do: with -rr0.1% an archive gets the smallest record, that
\* has CRCs only (ArcRecover.hs:94).
RecordMade == phase # "failed"
=============================================================================
