---------------------------- MODULE OrderedFilter ----------------------------
(***************************************************************************)
(* What a block compressor promises to its caller (the contract of         *)
(* compress() and decompress() in Compression.h): it writes its blocks one *)
(* by one in the order they were read, returns once, and returns success   *)
(* only when nothing was left out.  FourByFour, GRZipThreads and           *)
(* SrepBackground, which use several threads, are shown to implement it.   *)
(***************************************************************************)
EXTENDS Integers

CONSTANT NumBlocks   \* blocks in the input

VARIABLES emitted,   \* blocks written, which are 1 .. emitted
          answer     \* "none", and then "ok" or "error"

vars == <<emitted, answer>>

Init == emitted = 0 /\ answer = "none"

Emit == /\ answer = "none"
        /\ emitted < NumBlocks
        /\ emitted' = emitted + 1
        /\ UNCHANGED answer

Succeed == /\ answer = "none" /\ emitted = NumBlocks
           /\ answer' = "ok" /\ UNCHANGED emitted

Fail == /\ answer = "none"
        /\ answer' = "error" /\ UNCHANGED emitted

Next == Emit \/ Succeed \/ Fail

Spec == Init /\ [][Next]_vars
=============================================================================
