-------------------------- MODULE TransProperties --------------------------
(***************************************************************************)
(* What must hold of the transpose routines, of the check that tracegen    *)
(* makes of them, and of their misses.                                     *)
(***************************************************************************)
EXTENDS Trans

Finished == pc \in {"valid", "invalid"}

Shape(m, k) == M = m /\ N = k

Supported == Shape(32, 32) \/ Shape(64, 64) \/ Shape(61, 67)

(* tracegen accepts the result exactly for the three sizes that the driver *)
(* asks for: the blocks, the ragged ones and those with a deferred         *)
(* diagonal included, cover the matrix.  Another size is left alone and    *)
(* found wrong.  The student's is_transpose agrees with the check.         *)
ValidForSupported ==
  Finished => /\ pc = "valid" <=> Supported
              /\ is_transpose <=> Supported

(* Together with it: each element is loaded once and stored once, and the  *)
(* element that is put off to the end of a row is not done twice.          *)
EachElementOnce ==
  Finished /\ Supported =>
    hits + misses = Len(Before) + Len(After) + 2 * M * N

(* The linker aligns A to a block of the cache, and B, which follows A and *)
(* has its size, is a multiple of the cache away from it.                  *)
Aligned == at["A"] % 32 = 0 /\ (at["B"] - at["A"]) % 1024 = 0

(* The misses are within the limits of driver.py for full points (300 for  *)
(* 32x32, 2000 for 61x67), wherever the linker puts the globals; those of  *)
(* 64x64 are the 1427 of the comment at trans.c:64 and two more where M    *)
(* and N do not share the block of the marker.                             *)
MissesWithinLimits ==
  Finished => /\ Shape(32, 32) => misses <= 300
              /\ Shape(61, 67) => misses <= 2000
              /\ Shape(64, 64) => misses \in 1427 .. 1429
============================================================================
