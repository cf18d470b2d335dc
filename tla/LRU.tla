-------------------------------- MODULE LRU --------------------------------
(***************************************************************************)
(* What a set-associative cache with least-recently-used replacement       *)
(* promises, without lines, tags or queues: an access hits if and only if  *)
(* fewer than E other blocks of its set were used since the block's own    *)
(* last use; a miss evicts once E blocks of the set have been used.        *)
(***************************************************************************)
EXTENDS Integers, FiniteSets

CONSTANT Blocks          \* numbers of memory blocks

VARIABLES S,             \* number of sets, 0 until the cache is configured
          E,             \* lines per set
          last,          \* block -> time of its last use, 0 for never
          hits, misses, evictions

vars == <<S, E, last, hits, misses, evictions>>

Init == /\ S = 0 /\ E = 0
        /\ last = [x \in Blocks |-> 0]
        /\ hits = 0 /\ misses = 0 /\ evictions = 0

Configure == /\ S = 0
             /\ S' \in Nat \ {0}
             /\ E' \in Nat \ {0}
             /\ UNCHANGED <<last, hits, misses, evictions>>

Used(x) == {y \in Blocks : y % S = x % S /\ last[y] > 0}

UsedSince(x) == {y \in Used(x) : last[y] > last[x]}

Cached(x) == last[x] > 0 /\ Cardinality(UsedSince(x)) < E

Access(x) ==
  /\ S > 0
  /\ last' = [last EXCEPT ![x] = hits + misses + 1]
  /\ \/ /\ Cached(x)
        /\ hits' = hits + 1
        /\ UNCHANGED <<misses, evictions>>
     \/ /\ ~Cached(x)
        /\ misses' = misses + 1
        /\ evictions' = IF Cardinality(Used(x)) < E THEN evictions
                                                    ELSE evictions + 1
        /\ UNCHANGED hits
  /\ UNCHANGED <<S, E>>

Next == Configure \/ \E x \in Blocks : Access(x)

Spec == Init /\ [][Next]_vars
============================================================================
