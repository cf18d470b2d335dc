-------------------------------- MODULE Trans -------------------------------
(***************************************************************************)
(* The matrix transpose of cache/trans.c as tracegen.c runs and checks it, *)
(* together with the cache on which its misses are counted: the reference  *)
(* simulator has the geometry that main of test-trans.c asks for, a direct *)
(* mapped cache of 1 KB with blocks of 32 bytes.                           *)
(*                                                                         *)
(* Each step is one memory access of the trace.  Accesses to the stack are *)
(* not in it: eval_perf keeps only those to the low 4 GB.  The element     *)
(* A[i][j] of a matrix of N rows and M columns is its own number, i*M + j; *)
(* B is kept as it lies in memory, so that B[j][i] is B[j*N + i] here.     *)
(***************************************************************************)
EXTENDS Integers, SequencesExt

CONSTANTS Sizes,         \* bound: the pairs M, N of the command line
          Layouts        \* where the linker may put the globals of tracegen

ASSUME SizesAssumption == Sizes \subseteq [M : 1 .. 256, N : 1 .. 256]

(* The globals of tracegen that are in its trace; a layout says where.     *)
Globals == {"A", "B", "MARKER_START", "MARKER_END", "func_list", "N", "M"}

ASSUME LayoutsAssumption == Layouts \subseteq [Globals -> Nat]

VARIABLES size,          \* the globals M and N of tracegen
          at,            \* the layout: global -> its address
          pc,            \* where main of tracegen is
          n,             \* accesses of the current stretch of code
          B,             \* the matrix to be filled
          sets, hits, misses, evictions      \* of the cache

vars == <<size, at, pc, n, B, sets, hits, misses, evictions>>

M == size.M
N == size.N

(* The geometry s = 5, E = 1, b = 5 of eval_perf(5, 1, 5).                 *)
Geometry == [S |-> 32, s |-> 5, E |-> 1, b |-> 5]

Cache == INSTANCE Csim
           WITH config <- Geometry, phase <- "simulate", input <- Geometry,
                again <- -1, Inputs <- {Geometry},
                MaxAddress <- 2 ^ 30, MaxRefs <- 2 ^ 30

Junk == -1               \* what initMatrix leaves in B: no element of A

TypeOK ==
  /\ size \in Sizes /\ at \in Layouts
  /\ pc \in {"before", "load", "store", "after", "validate", "valid",
             "invalid"}
  /\ n \in Nat
  /\ B \in [0 .. M * N - 1 -> Junk .. M * N - 1]
  /\ sets \in [0 .. 31 -> Cache!Set]
  /\ hits \in Nat /\ misses \in Nat /\ evictions \in Nat

----------------------------------------------------------------------------
(* The order in which a routine visits the elements <<i, j>> of A: a loop  *)
(* is the concatenation of its rounds.                                     *)

(* Mutant: k <= hi.                                                        *)
ForInclusive(lo, hi, step) ==
  [k \in 1 .. (hi - lo + step) \div step |-> lo + (k - 1) * step]

(* The rounds of for (k = lo; k < hi; k += step).                          *)
For(lo, hi, step) ==
  [k \in 1 .. (hi - lo + step - 1) \div step |-> lo + (k - 1) * step]

(* Elements of row i, one per column.                                      *)
Row(i, cols) == [k \in DOMAIN cols |-> <<i, cols[k]>>]

(* The same for the columns lo to hi - 1, of which last waits for the end. *)
RowButLast(i, lo, hi, last) ==
  [k \in 1 .. hi - lo |-> <<i, IF k = hi - lo THEN last
                              ELSE IF lo + k - 1 < last THEN lo + k - 1
                              ELSE lo + k>>]

(* Mutants: the diagonal element takes its turn; it is done in its turn    *)
(* and again at the end; it is put off and forgotten.                      *)
Row32InOrder(ii, j) == Row(ii, For(j, j + 8, 1))

Row32Twice(ii, j) ==
  Row(ii, For(j, j + 8, 1))
    \o (IF ii \in j .. j + 7 THEN <<<<ii, ii>>>> ELSE <<>>)

Row32Forgets(ii, j) ==
  SelectSeq(Row(ii, For(j, j + 8, 1)), LAMBDA e : e[2] # ii)

(* trans32: one row of a block, its diagonal element last.                 *)
Row32(ii, j) ==
  IF ii \in j .. j + 7 THEN RowButLast(ii, j, j + 8, ii)
                       ELSE Row(ii, For(j, j + 8, 1))

Block32(i, j) ==
  LET rows == For(i, i + 8, 1)
  IN  FlattenSeq([k \in DOMAIN rows |-> Row32(rows[k], j)])

block4x4(i, j) ==
  FlattenSeq([k \in 1 .. 4 |->
          RowButLast(i + k - 1, j, j + 4, j + k - 1)])

(* trans64: the four blocks of a larger one, down, right and up.           *)
Block64(i, j) ==
  block4x4(i, j) \o block4x4(i + 4, j) \o block4x4(i + 4, j + 4)
                 \o block4x4(i, j + 4)

Smaller(a, b) == IF a < b THEN a ELSE b

(* trans61x67: a block is cut where the matrix ends.                       *)
Block61x67(i, j) ==
  LET rows == For(i, Smaller(i + 16, 67), 1)
  IN  FlattenSeq([k \in DOMAIN rows |->
              Row(rows[k], For(j, Smaller(j + 16, 61), 1))])

Corners(height, width, step) ==
  LET top == For(0, height, step)
      left == For(0, width, step)
  IN  FlattenSeq([r \in DOMAIN top |->
              [c \in DOMAIN left |-> <<top[r], left[c]>>]])

trans32 == LET at32 == Corners(32, 32, 8)
           IN  FlattenSeq([k \in DOMAIN at32 |->
                       Block32(at32[k][1], at32[k][2])])

trans64 == LET at64 == Corners(64, 64, 8)
           IN  FlattenSeq([k \in DOMAIN at64 |->
                       Block64(at64[k][1], at64[k][2])])

trans61x67 == LET at61 == Corners(67, 61, 16)
              IN  FlattenSeq([k \in DOMAIN at61 |->
                          Block61x67(at61[k][1], at61[k][2])])

(* Other sizes are left alone.                                             *)
transpose_submit ==
  IF M = 32 /\ N = 32 THEN trans32
  ELSE IF M = 64 /\ N = 64 THEN trans64
  ELSE IF M = 61 /\ N = 67 THEN trans61x67
  ELSE <<>>

----------------------------------------------------------------------------
Element(i, j) == i * M + j

(* What correctTrans makes of A, and the comparisons with it.              *)
correctTrans == [k \in 0 .. M * N - 1 |-> Element(k % N, k \div N)]

validate == B = correctTrans

is_transpose == \A i \in 0 .. N - 1, j \in 0 .. M - 1 :
                  Element(i, j) = B[j * N + i]

(* initMatrix; the cache is empty.                                         *)
Init ==
  /\ size \in Sizes /\ at \in Layouts
  /\ pc = "before" /\ n = 0
  /\ B = [k \in 0 .. M * N - 1 |-> Junk]
  /\ sets = [s \in 0 .. 31 |-> [lines     |-> [k \in {0} |-> [valid |-> FALSE,
                                                              tag |-> 0]],
                                lru_queue |-> [k \in {0} |-> 0]]]
  /\ hits = 0 /\ misses = 0 /\ evictions = 0

(* main of tracegen touches these globals before and after the routine.    *)
Before == <<"MARKER_START", "func_list", "N", "M">>
After  == <<"MARKER_END">>

Goto(label, count) == pc' = label /\ n' = count

Touch(name) == Cache!ref_mem(at[name]) /\ UNCHANGED <<size, at, B>>

Mark == /\ pc = "before"
        /\ Touch(Before[n + 1])
        /\ IF n + 1 < Len(Before) THEN Goto("before", n + 1)
           ELSE IF transpose_submit = <<>> THEN Goto("after", 0)
           ELSE Goto("load", 1)

(* One assignment B[j][i] = A[i][j].                                       *)
Load == /\ pc = "load"
        /\ \E e \in {transpose_submit[n]} :
             Cache!ref_mem(at["A"] + 4 * Element(e[1], e[2]))
        /\ Goto("store", n)
        /\ UNCHANGED <<size, at, B>>

Store == /\ pc = "store"
         /\ \E e \in {transpose_submit[n]} :
              /\ B' = [B EXCEPT ![e[2] * N + e[1]] = Element(e[1], e[2])]
              /\ Cache!ref_mem(at["B"] + 4 * (e[2] * N + e[1]))
         /\ IF n < Len(transpose_submit) THEN Goto("load", n + 1)
                                         ELSE Goto("after", 0)
         /\ UNCHANGED <<size, at>>

MarkEnd == /\ pc = "after"
           /\ Touch(After[n + 1])
           /\ Goto("validate", 0)

Validate == /\ pc = "validate"
            /\ Goto(IF validate THEN "valid" ELSE "invalid", 0)
            /\ UNCHANGED <<size, at, B, sets, hits, misses, evictions>>

Ended == pc \in {"valid", "invalid"} /\ UNCHANGED vars

Next == Mark \/ Load \/ Store \/ MarkEnd \/ Validate \/ Ended

Spec == Init /\ [][Next]_vars
============================================================================
