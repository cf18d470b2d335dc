--------------------------------- MODULE Mm ---------------------------------
(***************************************************************************)
(* The allocator of malloc/mm.c: blocks with a header and a footer word, an*)
(* explicit LIFO free list threaded through the free blocks, first fit.    *)
(* Every operator takes the heap and returns the heap it leaves behind.    *)
(***************************************************************************)
EXTENDS Memlib

CONSTANT CHUNKSIZE       \* words by which the heap grows at least

(* The heap has room for the prologue, the epilogue and the first chunk.   *)
ASSUME ChunkAssumption ==
  CHUNKSIZE \in Nat /\ CHUNKSIZE % 2 = 0 /\ CHUNKSIZE \in 4 .. MAX_HEAP - 4

MIN_B_SIZE == 4

ALIGN(size) == size + (size % 2)

(* Mutant of AdjustedSize: no room for the tags.                           *)
AdjustedSizeNoTags(size) == ALIGN(size + 1)

AdjustedSize(size) == ALIGN(size + MIN_B_SIZE)

----------------------------------------------------------------------------
(* Words and blocks.  Sizes are even; the low bit of a tag says allocated. *)
PACK(size, alloc)   == size + alloc
GET_SIZE(h, p)      == h.word[p] - (h.word[p] % 2)
GET_ALLOC(h, p)     == h.word[p] % 2

HDRP(bp)            == bp - 1
FTRP(h, bp)         == bp + GET_SIZE(h, HDRP(bp)) - 2
NEXT_BLKP(h, bp)    == bp + GET_SIZE(h, bp - 1)
PREV_BLKP(h, bp)    == bp - GET_SIZE(h, bp - 2)
PRED_BLKP(h, bp)    == h.word[bp]
SUCC_BLKP(h, bp)    == h.word[bp + 1]

(* Header and footer of a block of the given size are written.             *)
Tag(h, bp, size, alloc) ==
  PUT(PUT(h, HDRP(bp), PACK(size, alloc)), bp + size - 2, PACK(size, alloc))

----------------------------------------------------------------------------
(* The free list.                                                          *)

(* The block after pred becomes bp, and the one before succ.               *)
SetSucc(h, pred, bp) == IF pred = NULL THEN [h EXCEPT !.free_list_start = bp]
                        ELSE PUT(h, pred + 1, bp)

SetPred(h, succ, bp) == IF succ = NULL THEN h ELSE PUT(h, succ, bp)

(* A free block takes a place between two list neighbours.                 *)
Link(h, bp, pred, succ) ==
  SetSucc(SetPred(PUT(PUT(h, bp, pred), bp + 1, succ), succ, bp), pred, bp)

add_to_free_list(h, bp) == Link(h, bp, NULL, h.free_list_start)

(* Two blocks of the list become neighbours.                               *)
(* Mutant: only the forward link is mended.                                *)
UnlinkOneWay(h, pred, succ) == SetSucc(h, pred, succ)

Unlink(h, pred, succ) == SetPred(SetSucc(h, pred, succ), succ, pred)

remove_from_free_list(h, bp) == Unlink(h, PRED_BLKP(h, bp), SUCC_BLKP(h, bp))

(* Mutant of find_fit: only the first block of the list is tried.          *)
find_fitFirstOnly(h, asize) ==
  IF h.free_list_start # NULL /\ GET_SIZE(h, HDRP(h.free_list_start)) >= asize
  THEN h.free_list_start ELSE NULL

(* The first block of the list that is large enough, or NULL.  A link that *)
(* leaves the memory has no meaning; a list that mm_check accepts has none.*)
find_fit(h, asize) ==
  LET from[iter \in Words] ==
        IF iter = NULL \/ GET_SIZE(h, HDRP(iter)) >= asize THEN iter
        ELSE IF SUCC_BLKP(h, iter) \in Words THEN from[SUCC_BLKP(h, iter)] ELSE NULL
  IN  from[h.free_list_start]

----------------------------------------------------------------------------
(* Allocating and freeing.  A result is a record of a heap and a pointer.  *)
Result(h, bp) == [heap |-> h, ptr |-> bp]

RemoveIf(cond, h, bp) == IF cond THEN remove_from_free_list(h, bp) ELSE h

(* Mutant of Merge: the block behind stays in the list.                    *)
MergeKeepsNext(h, prev, bp, next, prevFree, nextFree, size) ==
  LET start == IF prevFree THEN prev ELSE bp
  IN  Result(add_to_free_list(Tag(RemoveIf(prevFree, h, prev), start, size, 0),
                              start), start)

(* Free neighbours leave the list, and what they make up with bp enters it.*)
Merge(h, prev, bp, next, prevFree, nextFree, size) ==
  LET start == IF prevFree THEN prev ELSE bp
      rest  == RemoveIf(prevFree, RemoveIf(nextFree, h, next), prev)
  IN  Result(add_to_free_list(Tag(rest, start, size, 0), start), start)

coalesce(h, bp) ==
  LET prev     == PREV_BLKP(h, bp)
      next     == NEXT_BLKP(h, bp)
      prevFree == GET_ALLOC(h, FTRP(h, prev)) = 0
      nextFree == GET_ALLOC(h, HDRP(next)) = 0
  IN  Merge(h, prev, bp, next, prevFree, nextFree,
            GET_SIZE(h, HDRP(bp))
            + (IF prevFree THEN GET_SIZE(h, HDRP(prev)) ELSE 0)
            + (IF nextFree THEN GET_SIZE(h, HDRP(next)) ELSE 0))

(* Succeeds when mem_sbrk does.  The old epilogue becomes the header.      *)
extend_heap(h, words) ==
  LET size == ALIGN(words)
      bp   == h.brk
  IN  coalesce(PUT(Tag(mem_sbrk(h, size), bp, size, 0), HDRP(bp + size), PACK(0, 1)), bp)

(* Block bp becomes allocated with asize words, and the rest behind it is  *)
(* a free block between pred and succ in the list.                         *)
Split(h, bp, asize, rest, pred, succ) ==
  Link(Tag(Tag(h, bp, asize, 1), bp + asize, rest, 0), bp + asize, pred, succ)

place(h, bp, asize) ==
  LET bsize == GET_SIZE(h, HDRP(bp))
  IN  IF bsize - asize >= MIN_B_SIZE
      THEN Split(h, bp, asize, bsize - asize, PRED_BLKP(h, bp), SUCC_BLKP(h, bp))
      ELSE Tag(remove_from_free_list(h, bp), bp, bsize, 1)

(* The prologue and epilogue, and the first free block.                    *)
mm_init(h) ==
  LET none == [mem_sbrk(mem_reset_brk(h), 4) EXCEPT !.free_list_start = NULL]
  IN  extend_heap(PUT(Tag(PUT(none, 0, 0), 2, 2, 1), 3, PACK(0, 1)), CHUNKSIZE).heap

Place(where, asize) == Result(place(where.heap, where.ptr, asize), where.ptr)

Allocate(h, asize, fit, more) ==
  IF fit # NULL THEN Place(Result(h, fit), asize)
  ELSE IF CanSbrk(h, more) THEN Place(extend_heap(h, more), asize)
  ELSE Result(h, NULL)

mm_malloc(h, size) ==
  LET asize == AdjustedSize(size)
  IN  IF size = 0 THEN Result(h, NULL)
      ELSE Allocate(h, asize, find_fit(h, asize),
                    IF asize > CHUNKSIZE THEN asize ELSE CHUNKSIZE)

mm_free(h, bp) == coalesce(Tag(h, bp, GET_SIZE(h, HDRP(bp)), 0), bp).heap

----------------------------------------------------------------------------
(* Reallocating.                                                           *)

Fault == -1              \* the pointer of a call that dies with SIGSEGV

expand_alloc_block_right(h, bp, asize, new_free_block_size) ==
  LET next == NEXT_BLKP(h, bp)
  IN  Split(h, bp, asize, new_free_block_size, PRED_BLKP(h, next), SUCC_BLKP(h, next))

(* Where mm_realloc finds room, and the words left over there.             *)
Room(h, ptr, size) ==
  LET asize    == AdjustedSize(size)
      bsize    == GET_SIZE(h, HDRP(ptr))
      prev     == HDRP(PREV_BLKP(h, ptr))
      next     == HDRP(NEXT_BLKP(h, ptr))
      prevFree == GET_ALLOC(h, prev) = 0
      nextFree == GET_ALLOC(h, next) = 0
      left     == GET_SIZE(h, prev) + bsize
      right    == GET_SIZE(h, next) + bsize
      both     == GET_SIZE(h, prev) + right
      In(where, total) == [where |-> where, rest |-> total - asize]
  IN  IF asize <= bsize THEN In("here", bsize)
      ELSE IF prevFree /\ asize <= left THEN In("left", left)
      ELSE IF nextFree /\ asize <= right THEN In("right", right)
      ELSE IF prevFree /\ nextFree /\ asize <= both THEN In("both", both)
      ELSE In("elsewhere", asize)

(* The rest is cut off and joins a free block behind it.                   *)
Shrink(h, ptr, asize, rest) ==
  IF rest >= MIN_B_SIZE
  THEN Result(coalesce(Tag(Tag(h, ptr, asize, 1), ptr + asize, rest, 0),
                       ptr + asize).heap, ptr)
  ELSE Result(h, ptr)

(* Mutant of GrowLeft: the footer of the moved block is forgotten.         *)
GrowLeftNoFooter(h, prev, asize, rest) ==
  IF rest >= MIN_B_SIZE
  THEN Result(PUT(Tag(h, prev, rest, 0), prev + rest - 1, PACK(asize, 1)), prev + rest)
  ELSE Result(Tag(remove_from_free_list(h, prev), prev, asize + rest, 1), prev)

(* The block moves to the end of itself and the free block before it.      *)
GrowLeft(h, prev, asize, rest) ==
  IF rest >= MIN_B_SIZE
  THEN Result(Tag(Tag(h, prev, rest, 0), prev + rest, asize, 1), prev + rest)
  ELSE Result(Tag(remove_from_free_list(h, prev), prev, asize + rest, 1), prev)

GrowRight(h, ptr, next, asize, rest) ==
  IF rest >= MIN_B_SIZE
  THEN Result(expand_alloc_block_right(h, ptr, asize, rest), ptr)
  ELSE Result(Tag(remove_from_free_list(h, next), ptr, asize + rest, 1), ptr)

(* expand_alloc_block_right takes NEXT_BLKP(prev), which is the grown block*)
(* itself, for a free one, and is told a size without that of prev.        *)
GrowBoth(h, prev, next, asize, rest) ==
  IF rest >= MIN_B_SIZE
  THEN Result(expand_alloc_block_right(remove_from_free_list(h, prev), prev, asize,
                                       rest - GET_SIZE(h, HDRP(prev))), prev)
  ELSE Result(Tag(remove_from_free_list(remove_from_free_list(h, prev), next),
                  prev, asize + rest, 1), prev)

NewBlock(h, ptr, size, room) ==
  LET asize == AdjustedSize(size)
      prev  == PREV_BLKP(h, ptr)
      next  == NEXT_BLKP(h, ptr)
  IN  CASE room.where = "here"      -> Shrink(h, ptr, asize, room.rest)
        [] room.where = "left"      -> GrowLeft(h, prev, asize, room.rest)
        [] room.where = "right"     -> GrowRight(h, ptr, next, asize, room.rest)
        [] room.where = "both"      -> GrowBoth(h, prev, next, asize, room.rest)
        [] room.where = "elsewhere" -> mm_malloc(h, size)

(* A block that has moved gets the data, and one left behind is freed; the *)
(* NULL of a failed mm_malloc is copied to as well.                        *)
Move(h, ptr, copy_size, new, where) ==
  IF new.ptr = NULL THEN Result(h, Fault)
  ELSE IF where = "elsewhere"
  THEN Result(mm_free(memmove(new.heap, new.ptr, ptr, copy_size), ptr), new.ptr)
  ELSE IF new.ptr # ptr
  THEN Result(memmove(new.heap, new.ptr, ptr, copy_size), new.ptr)
  ELSE new

mm_realloc(h, ptr, size) ==
  LET bsize == GET_SIZE(h, HDRP(ptr))
      room  == Room(h, ptr, size)
  IN  IF ptr = NULL THEN mm_malloc(h, size)
      ELSE IF size = 0 THEN Result(mm_free(h, ptr), ptr)
      ELSE Move(h, ptr, IF size < bsize THEN size ELSE bsize,
                NewBlock(h, ptr, size, room), room.where)

----------------------------------------------------------------------------
(* mm_check.  Its walks are the sets of blocks they reach; a pointer that  *)
(* is outside the heap fails the check.                                    *)
BlockPtrs(h) == 2 .. h.brk

Further(reached, next) ==
  reached \cup UNION {next[bp] : bp \in reached \cap DOMAIN next}

Walk(h, first, next) ==
  LET upTo[n \in 0 .. MAX_HEAP] ==
        IF n = 0 THEN first ELSE Further(upTo[n - 1], next)
  IN  upTo[h.brk \div 2]

FreeList(h) ==
  Walk(h, {h.free_list_start} \ {NULL},
       [bp \in BlockPtrs(h) |->
          IF bp + 1 \in Words THEN {SUCC_BLKP(h, bp)} \ {NULL} ELSE {}])

(* The blocks behind the prologue, without the epilogue.                   *)
HeapBlocks(h) ==
  {bp \in Walk(h, {4}, [bp \in BlockPtrs(h) |-> {NEXT_BLKP(h, bp)}]) :
     bp \in BlockPtrs(h) => GET_SIZE(h, HDRP(bp)) # 0}

IsFree(h, bp) == GET_ALLOC(h, HDRP(bp)) = 0

InHeap(h, bp) ==
  bp \in BlockPtrs(h) /\ {HDRP(bp), FTRP(h, bp)} \subseteq 0 .. h.brk - 1

MarkedFree(h, bp) ==
  InHeap(h, bp) /\ IsFree(h, bp) /\ GET_ALLOC(h, FTRP(h, bp)) = 0

free_list_blocks_marked_free(h) ==
  \A bp \in FreeList(h) :
    /\ MarkedFree(h, bp)
    /\ \A other \in {PRED_BLKP(h, bp), SUCC_BLKP(h, bp)} \ {NULL} : MarkedFree(h, other)

contiguous_free_blocks_coalesced(h) ==
  \A bp \in HeapBlocks(h) : IsFree(h, bp) => ~IsFree(h, NEXT_BLKP(h, bp))

all_free_blocks_in_free_list(h) ==
  \A bp \in HeapBlocks(h) : IsFree(h, bp) => bp \in FreeList(h)

check_ptrs_valid_heap_address(h) == \A bp \in HeapBlocks(h) \cup {2} : InHeap(h, bp)

mm_check(h) == /\ check_ptrs_valid_heap_address(h)
               /\ free_list_blocks_marked_free(h)
               /\ contiguous_free_blocks_coalesced(h)
               /\ all_free_blocks_in_free_list(h)
=============================================================================
