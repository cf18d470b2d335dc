--------------------------- MODULE CsimProperties --------------------------
(***************************************************************************)
(* Module Csim with a history variable, the time every block was last      *)
(* used, and what must hold of the simulator.                              *)
(***************************************************************************)
EXTENDS Csim, FiniteSets

VARIABLE last          \* block -> time of its last use, 0 for never

Blocks == Addresses    \* a block number is at most its address

Remember(address) ==
  last' = [last EXCEPT ![BlockOf(address)] = hits + misses + 1]

HInit == Init /\ last = [x \in Blocks |-> 0]

HNext ==
  \/ \E op \in {"L", "S", "M"}, a \in Addresses : Reference(op, a) /\ Remember(a)
  \/ ReferenceAgain /\ Remember(again)
  \/ /\ \/ parse_input \/ Usage
        \/ build_config \/ TooManySets
        \/ allocate_cache \/ MallocFails
        \/ FopenFails \/ printSummary
        \/ Ended
     /\ UNCHANGED last

hvars == <<vars, last>>

HSpec == HInit /\ [][HNext]_hvars

----------------------------------------------------------------------------
(* The block a valid line of set i holds.                                  *)
BlockIn(i, line) == sets[i].lines[line].tag * config.S + i

(* Every queue lists every line exactly once: index_of, which has no bound,*)
(* never runs past the end of the queue, and no line is lost for eviction. *)
QueueIsPermutation ==
  Configured =>
    \A i \in SetIds, line \in LineIds :
      \E k \in LineIds : /\ sets[i].lru_queue[k] = line
                         /\ \A j \in LineIds \ {k} :
                              sets[i].lru_queue[j] # line

(* A block is cached in at most one line, so that the hit found first is   *)
(* the only one.                                                           *)
OneLinePerBlock ==
  Configured =>
    \A i \in SetIds : \A k, m \in LineIds :
      /\ sets[i].lines[k].valid /\ sets[i].lines[m].valid
      /\ sets[i].lines[k].tag = sets[i].lines[m].tag
      => k = m

(* The queue is ordered by age: free lines first, then the lines in the    *)
(* order in which their blocks were last used.                             *)
QueueOrderedByAge ==
  Configured =>
    \A i \in SetIds : \A k, m \in LineIds :
      LET older   == sets[i].lru_queue[k]
          younger == sets[i].lru_queue[m]
      IN  k < m /\ sets[i].lines[older].valid =>
            /\ sets[i].lines[younger].valid
            /\ last[BlockIn(i, older)] < last[BlockIn(i, younger)]

(* The misses are the lines in use and the evictions.                      *)
MissesAccountedFor ==
  Configured =>
    misses - evictions =
      Cardinality({l \in SetIds \X LineIds : sets[l[1]].lines[l[2]].valid})

(* The second reference of a modify always hits.                           *)
ModifyHits ==
  [][again # NoAddress /\ again' = NoAddress => hits' = hits + 1]_hvars

(* The counts are those of true least-recently-used replacement, which is  *)
(* defined by the times of use alone.                                      *)
Cache == INSTANCE LRU WITH S <- config.S, E <- config.E

ImplementsLRU == Cache!Spec
============================================================================
