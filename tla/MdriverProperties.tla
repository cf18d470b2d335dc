-------------------------- MODULE MdriverProperties ------------------------
(***************************************************************************)
(* What must hold of the allocator under the driver, and what the comments *)
(* of mm.c and mdriver.c say of it.  One branch of mm_realloc destroys the *)
(* heap; GrownHeapIsConsistent refutes it and the other properties speak   *)
(* of the traces that have not taken it.                                   *)
(***************************************************************************)
EXTENDS Mdriver

Sound(P) == grewBoth \/ P

(* A block's footer repeats its header, and no block is too small for the  *)
(* two list pointers and the two tags.                                     *)
TagsAgree ==
  Sound(\A bp \in HeapBlocks(heap) :
          /\ heap.word[HDRP(bp)] = heap.word[FTRP(heap, bp)]
          /\ GET_SIZE(heap, HDRP(bp)) >= MIN_B_SIZE)

(* mm_check succeeds after every request: the blocks tile the heap, no two *)
(* neighbours are free, and the free list holds all the free blocks and    *)
(* nothing else.                                                           *)
HeapIsConsistent == Sound(mm_check(heap))

(* The list is linked both ways: its first block has no predecessor, and   *)
(* the successor of a block has that block as its predecessor.             *)
FreeListIsDoublyLinked ==
  Sound(\A bp \in FreeList(heap) :
          /\ PRED_BLKP(heap, bp) = NULL <=> bp = heap.free_list_start
          /\ SUCC_BLKP(heap, bp) # NULL
               => PRED_BLKP(heap, SUCC_BLKP(heap, bp)) = bp)

(* The allocated blocks are those of the ids in use, each large enough for *)
(* its payload: none is leaked, shared or cut short.                       *)
BlocksAreOwned ==
  Sound(verdict = "ok" =>
    /\ {bp \in HeapBlocks(heap) : ~IsFree(heap, bp)} =
         {blocks[id] : id \in Ids} \ {NULL}
    /\ \A id \in Ids : blocks[id] # NULL =>
         /\ pass # "speed" =>
              block_sizes[id] + 2 <= GET_SIZE(heap, HDRP(blocks[id]))
         /\ \A k \in Ids \ {id} : blocks[k] # blocks[id])

(* No free block is large enough for the request.                          *)
FullFor(size) ==
  \A bp \in HeapBlocks(heap) :
    IsFree(heap, bp) => GET_SIZE(heap, HDRP(bp)) < AdjustedSize(size)

(* The heap grows only for a request that fits in no free block.           *)
GrowsWhenFull ==
  heap'.brk > heap.brk /\ pass # "speed" =>
    \A id \in Ids : blocks'[id] # blocks[id] => FullFor(block_sizes'[id])

(* A malloc fails, and a realloc dies copying to the NULL of one           *)
(* (mm.c:192), only if besides the heap cannot grow by what the request    *)
(* needs, or by the CHUNKSIZE that mm_malloc asks for at least.  The last  *)
(* request that trace' holds is the one that failed.                       *)
FailsWhenFull ==
  verdict' \in {"malloc failed", "fault"} /\ trace' # <<>> =>
    \A size \in {trace'[i'].size} \ {0} :
      /\ FullFor(size)
      /\ \E n \in {AdjustedSize(size), CHUNKSIZE} : ~CanSbrk(heap, n)

(* The heap grows, and a request fails, only when there is no room.        *)
FailsOnlyWhenFull == [][GrowsWhenFull /\ FailsWhenFull]_vars

(* A replay is answered as the first pass was, address by address, though  *)
(* it runs on memory full of old tags, pointers and payloads: mm_init      *)
(* forgets all of it.  So no pass after a valid one fails.                 *)
ReplaysAlike ==
  Sound(pass # "valid" =>
    /\ verdict = "ok"
    /\ i > 0 => blocks[trace[i].index] = trace[i].answer)

(* The payloads of a trace never exceed its heap: utilization, the ratio   *)
(* eval_mm_util returns, is at most 1, and no size is taken off twice.     *)
UtilizationAtMostOne ==
  Sound(pass = "util" => total_size >= 0 /\ max_total_size <= heap.brk)

----------------------------------------------------------------------------
(* The payloads that mdriver believes it has, with what is in the memory.  *)
(* eval_mm_speed keeps no sizes: in it nobody is lent anything.  Where the *)
(* code dies, or the heap does, the client is dead.                        *)
Payload(id) == [lo    |-> blocks[id],
                words |-> [k \in 0 .. block_sizes[id] - 1 |->
                             heap.word[blocks[id] + k]]]

Client == IF grewBoth \/ verdict \in {"assertion", "app_error", "fault"} THEN "dead"
          ELSE IF verdict = "malloc failed" THEN "refused"
          ELSE IF verdict = "ok" THEN "serving"
          ELSE "deceived"

Payloads == [id \in Ids |->
               IF blocks[id] = NULL \/ pass = "speed" \/ Client = "dead"
               THEN [lo |-> 0, words |-> [k \in {} |-> 0]]
               ELSE Payload(id)]

Promise == INSTANCE Allocator
             WITH Memory <- 0 .. MAX_HEAP - 1, client <- Client, payload <- Payloads

(* The allocator under the driver implements what an allocator promises: a *)
(* request leaves the words of every other payload alone, which the driver *)
(* never looks at, and a realloc that moves or splits keeps the data.  The *)
(* driver finds no answer unaligned, outside, overlapping or without its   *)
(* data: such a client would be deceived.                                  *)
ImplementsAllocator == Promise!Spec

----------------------------------------------------------------------------
(* The comments of mm_check (mm.c:363, 389, 414, 427), for every trace.    *)
GrownHeapIsConsistent == mm_check(heap)
============================================================================
