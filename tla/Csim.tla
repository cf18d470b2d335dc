-------------------------------- MODULE Csim -------------------------------
(***************************************************************************)
(* The cache simulator of cache/csim.c: main reads the command line,       *)
(* builds the configuration, allocates the cache and replays a trace.      *)
(*                                                                         *)
(* An array is a function from its indices.  The tag of a line is read     *)
(* only when the line is valid, so the garbage of a fresh line is written  *)
(* as 0.  Instruction fetches of the trace are skipped by the program and  *)
(* are stuttering steps here.                                              *)
(***************************************************************************)
EXTENDS Integers

CONSTANTS Inputs,       \* bound: the values of the options -s, -E and -b
          MaxAddress,   \* bound: the largest address in a trace
          MaxRefs       \* bound: the number of references simulated

(* -E 0 reads past an empty queue and -b 64 shifts by the width of an      *)
(* address: what the program then does is undefined.  The counts are ints. *)
ASSUME InputsAssumption ==
  Inputs \subseteq [s : Int, E : Int \ {0}, b : {n \in Int : n < 64}]
ASSUME MaxAddressAssumption == MaxAddress \in Nat
ASSUME MaxRefsAssumption == MaxRefs \in 0 .. 2147483646

VARIABLES phase,        \* where main is, or how it ended
          input,        \* the Input record of main
          config,       \* the Config record of main
          sets,         \* cache.sets: the array of sets
          again,        \* the address an 'M' line still has to reference
          hits, misses, evictions   \* the Result record of main

result == <<hits, misses, evictions>>
vars   == <<phase, input, config, sets, again, result>>

Addresses == 0 .. MaxAddress

NoAddress == -1

NoConfig == [S |-> 0, s |-> 0, E |-> 0, b |-> 0]

LineIds == 0 .. config.E - 1
SetIds  == 0 .. config.S - 1

Line == [valid : BOOLEAN, tag : Nat]

Set == [lines : [LineIds -> Line], lru_queue : [LineIds -> LineIds]]

Configured == phase \in {"simulate", "summary"}

TypeOK ==
  /\ phase \in {"parse", "build", "allocate", "simulate", "summary",
                "usage", "failed"}
  /\ input \in Inputs
  /\ config \in [S : Nat, s : Nat, E : Nat, b : Nat]
  /\ Configured => sets \in [SetIds -> Set]
  /\ again \in Addresses \cup {NoAddress}
  /\ hits \in Nat /\ misses \in Nat /\ evictions \in Nat

Init ==
  /\ phase = "parse"
  /\ input \in Inputs
  /\ config = NoConfig
  /\ sets = <<>>
  /\ again = NoAddress
  /\ hits = 0 /\ misses = 0 /\ evictions = 0

pow2(i) == IF i > 30 THEN -1 ELSE 2 ^ i

----------------------------------------------------------------------------
(* From the command line to an empty cache.                                *)

Fail(how) == phase' = how /\ UNCHANGED <<input, config, sets, again, result>>

(* parse_input refuses a negative number and what is not a number, which   *)
(* parse_int returns as -1.                                                *)
Refused == input.s < 0 \/ input.E < 0 \/ input.b < 0

parse_input == /\ phase = "parse"
               /\ ~Refused
               /\ phase' = "build"
               /\ UNCHANGED <<input, config, sets, again, result>>

Usage == phase = "parse" /\ Refused /\ Fail("usage")

(* Mutant of build_config: the failure of pow2 goes unnoticed.             *)
build_configUnchecked == /\ phase = "build"
                         /\ config' = [S |-> pow2(input.s), s |-> input.s,
                                       E |-> input.E, b |-> input.b]
                         /\ phase' = "allocate"
                         /\ UNCHANGED <<input, sets, again, result>>

build_config == /\ phase = "build"
                /\ pow2(input.s) # -1
                /\ config' = [S |-> pow2(input.s), s |-> input.s,
                              E |-> input.E, b |-> input.b]
                /\ phase' = "allocate"
                /\ UNCHANGED <<input, sets, again, result>>

TooManySets == phase = "build" /\ pow2(input.s) = -1 /\ Fail("failed")

allocate_cache ==
  /\ phase = "allocate"
  /\ sets' = [i \in SetIds |->
                [lines     |-> [k \in LineIds |-> [valid |-> FALSE, tag |-> 0]],
                 lru_queue |-> [k \in LineIds |-> k]]]
  /\ phase' = "simulate"
  /\ UNCHANGED <<input, config, again, result>>

MallocFails == phase = "allocate" /\ Fail("failed")

----------------------------------------------------------------------------
(* One set.                                                                *)

(* The first index of a true entry; callers know there is one.             *)
FirstOf(I) == CHOOSE i \in I : \A k \in I : i <= k

index_of(lru_queue, line) == FirstOf({i \in LineIds : lru_queue[i] = line})

(* Mutant of update_lru_queue: the old last entry is not put back.         *)
update_lru_queueLosesLast(lru_queue, line) ==
  LET len   == config.E
      index == index_of(lru_queue, line)
  IN  [i \in LineIds |-> IF i = len - 1 THEN lru_queue[index]
                        ELSE IF i \in index .. len - 3 THEN lru_queue[i + 1]
                        ELSE lru_queue[i]]

(* Move a line to the end, the place of the most recently used.            *)
update_lru_queue(lru_queue, line) ==
  LET len   == config.E
      index == index_of(lru_queue, line)
  IN  IF index = len - 1 THEN lru_queue
      ELSE [i \in LineIds |->
              IF i = len - 1 THEN lru_queue[index]
              ELSE IF i = len - 2 THEN lru_queue[len - 1]
              ELSE IF i >= index THEN lru_queue[i + 1]
              ELSE lru_queue[i]]

(* Mutant of Hit: the scan stops one line early.                           *)
HitButLast(set, tag) ==
  {i \in 0 .. config.E - 2 : set.lines[i].valid /\ set.lines[i].tag = tag}

Hit(set, tag) == {i \in LineIds : set.lines[i].valid /\ set.lines[i].tag = tag}

Free(set) == {i \in LineIds : ~set.lines[i].valid}

(* The line is used for tag and becomes the most recently used one.        *)
Fill(set, line, tag) ==
  [lines     |-> [set.lines EXCEPT ![line] = [valid |-> TRUE, tag |-> tag]],
   lru_queue |-> update_lru_queue(set.lru_queue, line)]

(* Mutants of evict_lru: the youngest line is taken; the tag is not set.   *)
evict_lruYoungest(set, tag) == Fill(set, set.lru_queue[config.E - 1], tag)

evict_lruKeepsTag(set, tag) ==
  [set EXCEPT !.lru_queue = update_lru_queue(@, set.lru_queue[0])]

evict_lru(set, tag) == Fill(set, set.lru_queue[0], tag)

update(set, tag) == IF Free(set) # {} THEN Fill(set, FirstOf(Free(set)), tag)
                                      ELSE evict_lru(set, tag)

----------------------------------------------------------------------------
(* The trace.                                                              *)
BlockOf(address) == address \div 2 ^ config.b
IndexOf(block)   == block % pow2(config.s)
TagOf(block)     == block \div 2 ^ config.s

(* Mutants of ref_mem: a hit does not refresh the queue; every miss is     *)
(* counted as an eviction.                                                 *)
ref_memFifo(address) ==
  LET index == IndexOf(BlockOf(address))
      tag   == TagOf(BlockOf(address))
      set   == sets[index]
  IN  IF Hit(set, tag) # {}
      THEN hits' = hits + 1 /\ UNCHANGED <<sets, misses, evictions>>
      ELSE /\ misses' = misses + 1
           /\ sets' = [sets EXCEPT ![index] = update(set, tag)]
           /\ evictions' = IF Free(set) = {} THEN evictions + 1 ELSE evictions
           /\ UNCHANGED hits

ref_memEveryMissEvicts(address) ==
  LET index == IndexOf(BlockOf(address))
      tag   == TagOf(BlockOf(address))
      set   == sets[index]
  IN  IF Hit(set, tag) # {}
      THEN /\ hits' = hits + 1
           /\ sets' = [sets EXCEPT ![index].lru_queue =
                         update_lru_queue(@, FirstOf(Hit(set, tag)))]
           /\ UNCHANGED <<misses, evictions>>
      ELSE /\ misses' = misses + 1
           /\ sets' = [sets EXCEPT ![index] = update(set, tag)]
           /\ evictions' = evictions + 1
           /\ UNCHANGED hits

ref_mem(address) ==
  LET index == IndexOf(BlockOf(address))
      tag   == TagOf(BlockOf(address))
      set   == sets[index]
  IN  IF Hit(set, tag) # {}
      THEN /\ hits' = hits + 1
           /\ sets' = [sets EXCEPT ![index].lru_queue =
                         update_lru_queue(@, FirstOf(Hit(set, tag)))]
           /\ UNCHANGED <<misses, evictions>>
      ELSE /\ misses' = misses + 1
           /\ sets' = [sets EXCEPT ![index] = update(set, tag)]
           /\ evictions' = IF Free(set) = {} THEN evictions + 1 ELSE evictions
           /\ UNCHANGED hits

(* simulate: a load or store is one reference, a modify is two.            *)
Reference(op, address) ==
  /\ phase = "simulate"
  /\ again = NoAddress
  /\ hits + misses < MaxRefs
  /\ ref_mem(address)
  /\ again' = IF op = "M" THEN address ELSE NoAddress
  /\ UNCHANGED <<phase, input, config>>

ReferenceAgain ==
  /\ phase = "simulate"
  /\ again # NoAddress
  /\ ref_mem(again)
  /\ again' = NoAddress
  /\ UNCHANGED <<phase, input, config>>

(* simulate: the trace cannot be opened.                                   *)
FopenFails == /\ phase = "simulate" /\ hits + misses = 0
              /\ Fail("failed")

(* The end of the trace: main prints the result.                           *)
printSummary == /\ phase = "simulate" /\ again = NoAddress
                /\ phase' = "summary"
                /\ UNCHANGED <<input, config, sets, again, result>>

Ended == phase \in {"summary", "usage", "failed"} /\ UNCHANGED vars

Next == \/ parse_input \/ Usage
        \/ build_config \/ TooManySets
        \/ allocate_cache \/ MallocFails
        \/ \E op \in {"L", "S", "M"}, a \in Addresses : Reference(op, a)
        \/ ReferenceAgain
        \/ FopenFails \/ printSummary
        \/ Ended

Spec == Init /\ [][Next]_vars
============================================================================
