------------------------------ MODULE Mdriver ------------------------------
(***************************************************************************)
(* The loop over the traces in main of malloc/mdriver.c.  eval_mm_valid    *)
(* sends the requests of a trace to the allocator and judges every answer  *)
(* with a list of the payload ranges in use.  eval_mm_util replays a valid *)
(* trace to measure utilization, and fsecs has eval_mm_speed replay it     *)
(* several times (the timer of config.h is gettimeofday), all on the memory*)
(* that the earlier passes left behind.  The requests of a trace are chosen*)
(* freely by the first pass; like the traces of the repository they number *)
(* their ids in the order of allocation, and reallocate and free only what *)
(* is allocated.                                                           *)
(***************************************************************************)
EXTENDS Mm, Sequences

CONSTANTS Ids,           \* bound: the ids of a trace
          Sizes,         \* bound: the sizes it requests, in words
          MaxRequests,   \* bound: the requests of all traces together, counting
                         \* the start of a later trace as one
          MaxReplayed,   \* bound: the requests of a trace that is replayed
          SpeedRuns      \* bound: the runs that are timed, 10 in fsecs.c

ASSUME IdsAssumption == Ids \subseteq Nat
ASSUME SizesAssumption == Sizes \subseteq Nat
ASSUME MaxRequestsAssumption == MaxRequests \in Nat
ASSUME MaxReplayedAssumption == MaxReplayed \in Nat
ASSUME SpeedRunsAssumption == SpeedRuns \in Nat \ {0}

VARIABLES heap,          \* the simulated memory and the allocator in it
          ranges,        \* payloads in use, as add_range recorded them
          blocks,        \* trace->blocks; NULL for an id that is not allocated
          block_sizes,   \* trace->block_sizes; 0 for an id not yet used
          requests,      \* requests chosen
          verdict,       \* "ok" until the driver reports an error or dies
          pass,          \* the function that runs: eval_mm_valid, _util or _speed
          trace,         \* trace->ops; empty once it is too long to be replayed
          i,             \* the requests of the trace this pass has served
          runs,          \* of eval_mm_speed that ftimer_gettod has started
          total_size, max_total_size,    \* of eval_mm_util
          grewBoth       \* history: a realloc split a block it grew both ways

trackers == <<pass, trace, i, runs>>
totals == <<total_size, max_total_size>>
vars == <<heap, ranges, blocks, block_sizes, requests, verdict, trackers,
          totals, grewBoth>>

Verdicts == {"ok", "malloc failed", "unaligned", "outside", "overlap",
             "lost data", "assertion", "app_error", "fault"}

(* A request, and the answer the first pass got (history).                 *)
Op == [type : {"alloc", "realloc", "free"}, index : Ids, size : Sizes \cup {0},
       answer : Words \cup {Fault}]

TypeOK ==
  /\ heap \in Heap
  /\ ranges \subseteq [lo : Words, hi : Words]
  /\ blocks \in [Ids -> Words]
  /\ block_sizes \in [Ids -> Sizes \cup {0}]
  /\ requests \in 0 .. MaxRequests
  /\ verdict \in Verdicts
  /\ pass \in {"valid", "util", "speed"}
  /\ trace \in Seq(Op) /\ Len(trace) <= MaxReplayed
  /\ i \in 0 .. MaxRequests
  /\ runs \in 0 .. SpeedRuns
  /\ total_size \in Nat /\ max_total_size \in Nat
  /\ grewBoth \in BOOLEAN

(* Fresh memory of mem_init; its garbage is never read.                    *)
FreshHeap == [word |-> [k \in Words |-> 0], brk |-> 0, free_list_start |-> NULL]

NoBlocks == [id \in Ids |-> NULL]

Init ==
  /\ heap = mm_init(FreshHeap)
  /\ ranges = {}
  /\ blocks = NoBlocks
  /\ block_sizes = [id \in Ids |-> 0]
  /\ requests = 0
  /\ verdict = "ok"
  /\ pass = "valid" /\ trace = <<>> /\ i = 0 /\ runs = 0
  /\ total_size = 0 /\ max_total_size = 0
  /\ grewBoth = FALSE

----------------------------------------------------------------------------
(* The range list.                                                         *)

(* What add_range says of n words at lo: aligned, inside the heap, and with*)
(* neither end inside a payload in use.                                    *)
add_range(h, used, lo, n) ==
  LET hi == lo + n - 1
  IN  IF n = 0 THEN "assertion"
      ELSE IF lo % 2 # 0 THEN "unaligned"
      ELSE IF ~({lo, hi} \subseteq 0 .. h.brk - 1) THEN "outside"
      ELSE IF \E p \in used : lo \in p.lo .. p.hi \/ hi \in p.lo .. p.hi
      THEN "overlap"
      ELSE "ok"

RangeAt(lo, n) == [lo |-> lo, hi |-> lo + n - 1]

remove_range(used, lo) == {p \in used : p.lo # lo}

----------------------------------------------------------------------------
(* Payloads.  A word filled with the byte id & 0xFF is 0 or, as a pointer, *)
(* an address far outside the heap.                                        *)
Filled(id) == IF id % 256 = 0 THEN 0 ELSE -1 - (id % 256)

(* The comparison of a char, which is signed, with the byte as an int.     *)
ReadsAs(word, id) == word = Filled(id) /\ id % 256 < 128

----------------------------------------------------------------------------
(* The first pass, eval_mm_valid.                                          *)
Running == verdict = "ok" /\ ~grewBoth

(* The trace may go on.                                                    *)
Choosing == Running /\ pass = "valid" /\ requests < MaxRequests

(* It goes on with this request.                                           *)
Request(type, id, size, answer) ==
  /\ requests' = requests + 1 /\ i' = i + 1
  /\ UNCHANGED <<pass, runs, totals>>
  /\ trace' = IF i >= MaxReplayed THEN <<>>
              ELSE Append(trace, [type |-> type, index |-> id,
                                  size |-> size, answer |-> answer])

(* The payload is filled and the answer recorded.                          *)
(* Mutant: the size of the whole block is recorded.                        *)
RememberBlockSize(id, h, ptr, size) ==
  /\ heap' = memset(h, ptr, Filled(id), size)
  /\ blocks' = [blocks EXCEPT ![id] = ptr]
  /\ block_sizes' = [block_sizes EXCEPT ![id] = GET_SIZE(h, HDRP(ptr))]
  /\ UNCHANGED verdict

Remember(id, h, ptr, size) ==
  /\ heap' = memset(h, ptr, Filled(id), size)
  /\ blocks' = [blocks EXCEPT ![id] = ptr]
  /\ block_sizes' = [block_sizes EXCEPT ![id] = size]
  /\ UNCHANGED verdict

(* malloc_error, or the end of the driver.                                 *)
Report(error, h) ==
  verdict' = error /\ heap' = h /\ UNCHANGED <<blocks, block_sizes>>

Alloc(id, size) ==
  /\ Choosing
  /\ \A k \in Ids : block_sizes[k] = 0 <=> k >= id
  /\ \E new \in {mm_malloc(heap, size)} :
       \E judge \in {add_range(new.heap, ranges, new.ptr, size)} :
         /\ Request("alloc", id, size, new.ptr)
         /\ IF new.ptr = NULL
            THEN Report("malloc failed", new.heap) /\ UNCHANGED ranges
            ELSE IF judge # "ok" THEN Report(judge, new.heap) /\ UNCHANGED ranges
            ELSE /\ ranges' = ranges \cup {RangeAt(new.ptr, size)}
                 /\ Remember(id, new.heap, new.ptr, size)
  /\ UNCHANGED grewBoth

Realloc(id, size) ==
  /\ Choosing
  /\ blocks[id] # NULL
  /\ LET room == Room(heap, blocks[id], size)
     IN  grewBoth' = (room.where = "both" /\ room.rest >= MIN_B_SIZE)
  /\ \E new \in {mm_realloc(heap, blocks[id], size)},
        others \in {remove_range(ranges, blocks[id])} :
       \E judge \in {add_range(new.heap, others, new.ptr, size)} :
         /\ Request("realloc", id, size, new.ptr)
         /\ IF new.ptr = Fault THEN Report("fault", heap) /\ UNCHANGED ranges
            ELSE IF judge # "ok" THEN Report(judge, new.heap) /\ ranges' = others
            ELSE /\ ranges' = others \cup {RangeAt(new.ptr, size)}
                 /\ IF \A j \in 0 .. size - 1 :
                         j < block_sizes[id] => ReadsAs(new.heap.word[new.ptr + j], id)
                    THEN Remember(id, new.heap, new.ptr, size)
                    ELSE Report("lost data", new.heap)

Free(id) ==
  /\ Choosing
  /\ blocks[id] # NULL
  /\ Request("free", id, 0, NULL)
  /\ ranges' = remove_range(ranges, blocks[id])
  /\ heap' = mm_free(heap, blocks[id])
  /\ blocks' = [blocks EXCEPT ![id] = NULL]
  /\ UNCHANGED <<block_sizes, verdict, grewBoth>>

----------------------------------------------------------------------------
(* The replays.  They keep no ranges and write no payloads.                *)

(* The trace has been served to its end.                                   *)
Served == Running /\ trace # <<>> /\ i = Len(trace)

(* The next pass over the same trace, on the memory as it is.              *)
(* Mutant: the allocator is not initialised again.                         *)
RestartKeepsHeap(next) ==
  /\ pass' = next /\ i' = 0
  /\ blocks' = NoBlocks
  /\ UNCHANGED <<heap, trace, ranges, block_sizes, requests, verdict, grewBoth>>

Restart(next) ==
  /\ pass' = next /\ i' = 0
  /\ heap' = mm_init(heap)
  /\ blocks' = NoBlocks
  /\ UNCHANGED <<trace, ranges, block_sizes, requests, verdict, grewBoth>>

StartUtil ==
  /\ Served /\ pass = "valid" /\ Restart("util")
  /\ total_size' = 0 /\ max_total_size' = 0
  /\ UNCHANGED runs

(* ftimer_gettod, called by fsecs, calls eval_mm_speed once more.          *)
TimeAgain == runs < SpeedRuns /\ runs' = runs + 1

StartSpeed ==
  /\ Served /\ pass # "valid" /\ TimeAgain
  /\ Restart("speed")
  /\ UNCHANGED totals

(* What the allocator makes of a request of the trace.                     *)
Answer(op) ==
  IF op.type = "alloc" THEN mm_malloc(heap, op.size)
  ELSE IF op.type = "realloc" THEN mm_realloc(heap, blocks[op.index], op.size)
  ELSE [heap |-> mm_free(heap, blocks[op.index]), ptr |-> NULL]

(* The allocator is asked again; a NULL for a pointer ends the driver.     *)
Again(op, new) ==
  /\ heap' = new.heap
  /\ blocks' = [blocks EXCEPT ![op.index] = new.ptr]
  /\ verdict' = IF new.ptr = Fault THEN "fault"
                ELSE IF new.ptr = NULL /\ op.type # "free" THEN "app_error"
                ELSE "ok"
  /\ i' = i + 1
  /\ UNCHANGED <<ranges, requests, pass, trace, runs, grewBoth>>

Replaying(name) == Running /\ pass = name /\ i < Len(trace)

(* The payload a request adds, or takes away.                              *)
(* Mutant: a realloc counts as one more payload.                           *)
GrowthNoOld(op) ==
  CASE op.type = "alloc"   -> op.size
    [] op.type = "realloc" -> op.size
    [] op.type = "free"    -> -block_sizes[op.index]

Growth(op) ==
  CASE op.type = "alloc"   -> op.size
    [] op.type = "realloc" -> op.size - block_sizes[op.index]
    [] op.type = "free"    -> -block_sizes[op.index]

EvalUtil(op) ==
  /\ \E new \in {Answer(op)} : Again(op, new)
  /\ block_sizes' = IF op.type = "free" THEN block_sizes
                    ELSE [block_sizes EXCEPT ![op.index] = op.size]
  /\ total_size' = total_size + Growth(op)
  /\ max_total_size' = IF op.type # "free" /\ total_size' > max_total_size
                       THEN total_size' ELSE max_total_size

EvalSpeed(op) ==
  (\E new \in {Answer(op)} : Again(op, new)) /\ UNCHANGED <<block_sizes, totals>>

----------------------------------------------------------------------------
(* The next trace, after the passes over a valid one or after an error the *)
(* driver only reports, starts on the same memory.                         *)
Timed == runs = SpeedRuns

Reported == verdict \in {"malloc failed", "unaligned", "outside", "overlap",
                         "lost data"}

NextTrace ==
  /\ (Served /\ Timed) \/ (Reported /\ ~grewBoth)
  /\ requests < MaxRequests /\ requests' = requests + 1
  /\ pass' = "valid" /\ trace' = <<>> /\ i' = 0 /\ runs' = 0
  /\ heap' = mm_init(heap)
  /\ ranges' = {}
  /\ blocks' = NoBlocks
  /\ block_sizes' = [id \in Ids |-> 0]
  /\ verdict' = "ok"
  /\ UNCHANGED <<totals, grewBoth>>

(* At the bounds: a trace too long to be replayed is not followed further. *)
Ended ==
  /\ Running => \/ requests = MaxRequests /\ (pass # "valid" => i = Len(trace))
                \/ pass = "valid" /\ i > MaxReplayed
  /\ UNCHANGED vars

Next == \/ \E id \in Ids, n \in Sizes : Alloc(id, n) \/ Realloc(id, n)
        \/ \E id \in Ids : Free(id)
        \/ StartUtil \/ StartSpeed \/ NextTrace
        \/ Replaying("util") /\ EvalUtil(trace[i + 1])
        \/ Replaying("speed") /\ EvalSpeed(trace[i + 1])
        \/ Ended

Spec == Init /\ [][Next]_vars
============================================================================
