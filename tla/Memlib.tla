------------------------------- MODULE Memlib -------------------------------
(***************************************************************************)
(* The simulated memory of malloc/memlib.c, counted in 4-byte words.       *)
(*                                                                         *)
(* A heap is a record: the contents of its words, the break, and the start *)
(* of mm.c's free list.  Addresses are offsets from mem_start_brk, so the  *)
(* first word has address 0; no block of mm.c starts there and 0 also      *)
(* stands for NULL.  A request of n bytes is one of n/4 words, rounded up: *)
(* every size in mm.c is a multiple of 8 bytes, so nothing is lost.        *)
(***************************************************************************)
EXTENDS Integers

CONSTANT MAX_HEAP        \* bound: words the break may reach

ASSUME MaxHeapAssumption == MAX_HEAP \in Nat

NULL  == 0
Words == 0 .. MAX_HEAP - 1

Heap == [word : [Words -> Int], brk : 0 .. MAX_HEAP, free_list_start : Int]

(* val is stored at address p.  Outside the memory nothing is stored, and  *)
(* the code would mostly die of it: only the branch of mm_realloc that     *)
(* links user data into the free list (mm.c:183) stores there.             *)
PUT(h, p, val) == IF p \in Words THEN [h EXCEPT !.word[p] = val] ELSE h

memset(h, p, val, n) ==
  [h EXCEPT !.word = [k \in Words |-> IF k \in p .. p + n - 1 THEN val ELSE h.word[k]]]

(* Mutant of memmove: the payload is not copied.                           *)
memmoveForgotten(h, dst, src, n) == h

memmove(h, dst, src, n) ==
  [h EXCEPT !.word = [k \in Words |-> IF k \in dst .. dst + n - 1
                                      THEN h.word[src + k - dst] ELSE h.word[k]]]

mem_reset_brk(h) == [h EXCEPT !.brk = 0]

(* mem_sbrk fails on a negative increment and beyond the limit.            *)
CanSbrk(h, incr) == incr >= 0 /\ h.brk + incr <= MAX_HEAP

mem_sbrk(h, incr) == [h EXCEPT !.brk = @ + incr]
=============================================================================
