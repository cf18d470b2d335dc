------------------------------- MODULE MCCsim ------------------------------
EXTENDS CsimProperties
(* One set of three lines; two sets of two lines with two-byte blocks;     *)
(* four direct-mapped sets; a number too large for pow2; a bad argument.   *)
CommandLines == { [s |-> 0,  E |-> 3, b |-> 0],
                  [s |-> 1,  E |-> 2, b |-> 1],
                  [s |-> 2,  E |-> 1, b |-> 0],
                  [s |-> 31, E |-> 1, b |-> 0],
                  [s |-> 1,  E |-> 1, b |-> -1] }
============================================================================
