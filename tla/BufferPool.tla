----------------------------- MODULE BufferPool -----------------------------
(***************************************************************************)
(* What the read-ahead cache of archive creation promises to its two users *)
(* (makeFileCache, ArcvProcessRead.hs): the reading process obtains areas  *)
(* of BufferSize bytes that lie inside the heap and that nobody is using,  *)
(* keeps a prefix of each, hands the prefix to the packing process, and    *)
(* the packing process gives the areas back in the order it got them.      *)
(*                                                                         *)
(* How a free area is found is not said here.  CyclicAllocator does it with *)
(* two cursors and is shown to implement this module.                      *)
(***************************************************************************)
EXTENDS Integers, Sequences

CONSTANTS HeapSize,    \* bytes of the cache
          BufferSize   \* bytes of one area before it is shrunk

VARIABLES wanted,      \* TRUE while the reader asks for an area
          filling,     \* addresses of the areas being filled: at most one
          lent         \* areas handed over and not yet reclaimed, oldest first

vars == <<wanted, filling, lent>>

\* The bytes of the area that starts at addr and has size bytes.
Bytes(addr, size) == addr .. (addr + size - 1)

Used == UNION {Bytes(lent[i].addr, lent[i].size) : i \in DOMAIN lent}

Init == /\ wanted = FALSE
        /\ filling = {}
        /\ lent = <<>>

Ask == /\ ~wanted
       /\ filling = {}
       /\ wanted' = TRUE
       /\ UNCHANGED <<filling, lent>>

Grant == /\ wanted
         /\ \E addr \in 0 .. HeapSize - BufferSize :
               /\ Bytes(addr, BufferSize) \cap Used = {}
               /\ filling' = {addr}
         /\ wanted' = FALSE
         /\ UNCHANGED lent

\* An area that received no data is simply forgotten.
HandOver == \E addr \in filling, size \in 0 .. BufferSize :
               /\ lent' = IF size = 0 THEN lent
                          ELSE Append(lent, [addr |-> addr, size |-> size])
               /\ filling' = {}
               /\ UNCHANGED wanted

Reclaim == /\ wanted
           /\ lent # <<>>
           /\ lent' = Tail(lent)
           /\ UNCHANGED <<wanted, filling>>

Next == Ask \/ Grant \/ HandOver \/ Reclaim

Spec == Init /\ [][Next]_vars
=============================================================================
