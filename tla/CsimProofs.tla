----------------------------- MODULE CsimProofs ----------------------------
(***************************************************************************)
(* The simulator implements least-recently-used replacement, for caches of *)
(* every geometry and traces of every length.                              *)
(***************************************************************************)
EXTENDS CsimProperties, FiniteSetTheorems, WellFoundedInduction, TLAPS

----------------------------------------------------------------------------
(* Natural numbers.                                                        *)

(* A nonempty set of naturals has a least element.                         *)
LEMMA LeastNat ==
  ASSUME NEW T, T \subseteq Nat, T # {}
  PROVE  \E x \in T : \A y \in T : x <= y
<1>1. \A R, S : IsWellFoundedOn(R, S) =>
        \A U : U \subseteq S /\ U # {} => \E x \in U : \A y \in U : ~ (<<y, x>> \in R)
  BY WFMin, Zenon
<1>2. PICK x \in T : \A y \in T : ~ (<<y, x>> \in OpToRel(<, Nat))
  BY <1>1, NatLessThanWellFounded, Zenon
<1>3. \A a, b \in Nat : a < b => <<a, b>> \in OpToRel(<, Nat)
  BY DEF OpToRel
<1>4. \A y \in T : ~ (y < x)
  BY <1>2, <1>3, Zenon
<1>5. x \in Nat /\ \A y \in T : y \in Nat
  OBVIOUS
<1> QED BY <1>4, <1>5

(* A set of n elements has 2^n subsets, so 2^n is a positive number.       *)
LEMMA PowerOfTwo == \A n \in Nat : 2 ^ n \in Nat \ {0}
<1> TAKE n \in Nat
<1>1. IsFiniteSet(1 .. n) /\ Cardinality(1 .. n) = n
  BY FS_Interval
<1>2. IsFiniteSet(SUBSET (1 .. n)) /\ Cardinality(SUBSET (1 .. n)) = 2 ^ n
  BY <1>1, FS_SUBSET
<1>3. 2 ^ n \in Nat
  BY <1>2, FS_CardinalityType
<1>4. SUBSET (1 .. n) # {}
  OBVIOUS
<1>5. 2 ^ n # 0
  BY <1>2, <1>4, FS_EmptySet, Zenon
<1> QED BY <1>3, <1>5

(* Quotient and remainder.                                                 *)
LEMMA Division ==
  ASSUME NEW x \in Nat, NEW k \in Nat \ {0}
  PROVE  /\ x \div k \in 0 .. x
         /\ x % k \in 0 .. k - 1
         /\ x = (x \div k) * k + (x % k)
<1>1. x % k \in 0 .. k - 1
  OBVIOUS
<1>2. x = k * (x \div k) + (x % k)
  OBVIOUS
<1>3. x \div k \in 0 .. x
  OBVIOUS
<1> QED BY <1>1, <1>2, <1>3

(* Quotient and remainder are unique.                                      *)
LEMMA DivisionUnique ==
  ASSUME NEW k \in Nat \ {0}, NEW q \in Nat, NEW r \in 0 .. k - 1
  PROVE  /\ (q * k + r) \div k = q
         /\ (q * k + r) % k = r
<1>1. q * k + r = k * q + r
  OBVIOUS
<1> QED BY <1>1

----------------------------------------------------------------------------
(* The invariants.                                                         *)

Valid(i, l) == sets[i].lines[l].valid

Perm(q) == /\ \A l \in LineIds : \E k \in LineIds : q[k] = l
           /\ \A k, m \in LineIds : q[k] = q[m] => k = m

(* Type correctness of the configured machine.                             *)
ConfigOK == /\ config.S \in Nat \ {0} /\ config.E \in Nat \ {0}
            /\ config.b \in Nat /\ config.s \in 0 .. 30
            /\ config.S = 2 ^ config.s

Shape == ConfigOK /\ sets \in [SetIds -> Set]

(* The three properties of every set that the runs check, and the two that *)
(* make them inductive: a cached block was used, and a used block that is  *)
(* not cached is older than every block of its set, which is full.         *)
Queues == \A i \in SetIds : Perm(sets[i].lru_queue)

Distinct ==
  \A i \in SetIds : \A k, m \in LineIds :
    Valid(i, k) /\ Valid(i, m) /\ sets[i].lines[k].tag = sets[i].lines[m].tag
      => k = m

Ordered ==
  \A i \in SetIds : \A k, m \in LineIds :
    k < m /\ Valid(i, sets[i].lru_queue[k]) =>
      /\ Valid(i, sets[i].lru_queue[m])
      /\ last[BlockIn(i, sets[i].lru_queue[k])]
           < last[BlockIn(i, sets[i].lru_queue[m])]

Known ==
  \A i \in SetIds : \A l \in LineIds :
    Valid(i, l) => BlockIn(i, l) \in Blocks /\ last[BlockIn(i, l)] > 0

InCache(x) == \E l \in LineIds : /\ Valid(IndexOf(x), l)
                                 /\ sets[IndexOf(x)].lines[l].tag = TagOf(x)

OlderThanAll(x) == \A l \in LineIds : /\ Valid(IndexOf(x), l)
                                      /\ last[x] < last[BlockIn(IndexOf(x), l)]

Covered == \A x \in Blocks : last[x] > 0 => InCache(x) \/ OlderThanAll(x)

UsedLines == {l \in SetIds \X LineIds : Valid(l[1], l[2])}

CacheInv == /\ Shape
            /\ Queues /\ Distinct /\ Ordered /\ Known /\ Covered
            /\ again # NoAddress => InCache(BlockOf(again))

Times ==
  /\ last \in [Blocks -> Nat]
  /\ \A x \in Blocks : last[x] <= hits + misses

Fresh == /\ last = [x \in Blocks |-> 0]
         /\ hits = 0 /\ misses = 0 /\ evictions = 0
         /\ again = NoAddress

Ind == /\ TypeOK
       /\ Times
       /\ phase \in {"parse", "build", "allocate"} => Fresh
       /\ phase \in {"parse", "build"} => config = NoConfig
       /\ phase = "build" => ~Refused
       /\ phase = "allocate" => ConfigOK
       /\ Configured => /\ CacheInv
                        /\ Cardinality(UsedLines) = misses - evictions

----------------------------------------------------------------------------
(* A block is its tag and the index of its set.                            *)
LEMMA Split ==
  ASSUME ConfigOK
  PROVE  /\ \A a \in Addresses : BlockOf(a) \in Blocks
         /\ \A x \in Blocks : /\ IndexOf(x) \in SetIds
                              /\ TagOf(x) \in Nat
                              /\ IndexOf(x) = x % config.S
                              /\ x = TagOf(x) * config.S + IndexOf(x)
         /\ \A t \in Nat, i \in SetIds :
              IndexOf(t * config.S + i) = i /\ TagOf(t * config.S + i) = t
<1>1. pow2(config.s) = config.S /\ 2 ^ config.s = config.S
  BY DEF pow2, ConfigOK
<1>2. config.S \in Nat \ {0} /\ 2 ^ config.b \in Nat \ {0}
  BY PowerOfTwo DEF ConfigOK
<1>3. \A a \in Addresses : BlockOf(a) \in Blocks
  <2> TAKE a \in Addresses
  <2>1. a \in Nat /\ a <= MaxAddress /\ MaxAddress \in Nat
    BY MaxAddressAssumption DEF Addresses
  <2>2. BlockOf(a) \in 0 .. a
    BY <1>2, <2>1, Division DEF BlockOf
  <2> QED BY <2>1, <2>2 DEF Blocks, Addresses
<1>4. ASSUME NEW x \in Blocks
      PROVE  /\ IndexOf(x) \in SetIds
             /\ TagOf(x) \in Nat
             /\ IndexOf(x) = x % config.S
             /\ x = TagOf(x) * config.S + IndexOf(x)
  <2>1. x \in Nat
    BY DEF Blocks, Addresses
  <2>2. IndexOf(x) = x % config.S /\ TagOf(x) = x \div config.S
    BY <1>1 DEF IndexOf, TagOf
  <2>3. /\ x \div config.S \in 0 .. x
        /\ x % config.S \in 0 .. config.S - 1
        /\ x = (x \div config.S) * config.S + (x % config.S)
    BY <1>2, <2>1, Division
  <2> QED BY <2>1, <2>2, <2>3 DEF SetIds
<1>5. ASSUME NEW t \in Nat, NEW i \in SetIds
      PROVE  IndexOf(t * config.S + i) = i /\ TagOf(t * config.S + i) = t
  <2>1. i \in 0 .. config.S - 1
    BY DEF SetIds
  <2>2. (t * config.S + i) \div config.S = t /\ (t * config.S + i) % config.S = i
    BY <1>2, <2>1, DivisionUnique
  <2> QED BY <1>1, <2>2 DEF IndexOf, TagOf
<1> QED BY <1>3, <1>4, <1>5

(* Lines and blocks name each other.                                       *)
LEMMA LineOfBlock ==
  ASSUME Shape
  PROVE  /\ \A i \in SetIds, l \in LineIds :
               /\ IndexOf(BlockIn(i, l)) = i
               /\ TagOf(BlockIn(i, l)) = sets[i].lines[l].tag
         /\ \A x \in Blocks, l \in LineIds :
               sets[IndexOf(x)].lines[l].tag = TagOf(x)
                 => BlockIn(IndexOf(x), l) = x
<1>1. \A i \in SetIds, l \in LineIds : sets[i].lines[l].tag \in Nat
  BY DEF Shape, Set, Line
<1>2. ConfigOK
  BY DEF Shape
<1>3. ASSUME NEW i \in SetIds, NEW l \in LineIds
      PROVE  /\ IndexOf(BlockIn(i, l)) = i
             /\ TagOf(BlockIn(i, l)) = sets[i].lines[l].tag
  BY <1>1, <1>2, Split, Zenon DEF BlockIn
<1>4. ASSUME NEW x \in Blocks, NEW l \in LineIds,
             sets[IndexOf(x)].lines[l].tag = TagOf(x)
      PROVE  BlockIn(IndexOf(x), l) = x
  <2>1. x = TagOf(x) * config.S + IndexOf(x)
    BY <1>2, Split, Zenon
  <2> QED BY <1>4, <2>1, Zenon DEF BlockIn
<1> QED BY <1>3, <1>4

(* Moving a line to the end of its queue.                                  *)
LEMMA QueueMove ==
  ASSUME ConfigOK, NEW q \in [LineIds -> LineIds], Perm(q),
         NEW line \in LineIds
  PROVE  LET r == update_lru_queue(q, line)
         IN  /\ r \in [LineIds -> LineIds]
             /\ \E j \in LineIds :
                  /\ q[j] = line
                  /\ \A k \in LineIds :
                       r[k] = IF k = config.E - 1 THEN line
                              ELSE IF k < j THEN q[k] ELSE q[k + 1]
<1> DEFINE r == update_lru_queue(q, line)
<1>1. PICK j \in LineIds : q[j] = line
  BY DEF Perm
<1>2. {i \in LineIds : q[i] = line} = {j}
  BY <1>1 DEF Perm
<1>3. FirstOf({j}) = j
  <2>1. j <= j
    BY DEF LineIds
  <2>2. (CHOOSE i \in {j} : \A k \in {j} : i <= k) = j
    BY <2>1
  <2> QED BY <2>2 DEF FirstOf
<1>4. index_of(q, line) = j
  BY <1>2, <1>3 DEF index_of
<1>5. config.E \in Nat \ {0}
  BY DEF ConfigOK
<1>6. CASE j = config.E - 1
  <2>1. r = q
    BY <1>4, <1>6 DEF update_lru_queue
  <2>2. \A k \in LineIds : r[k] = IF k = config.E - 1 THEN line
                                 ELSE IF k < j THEN q[k] ELSE q[k + 1]
    BY <1>1, <1>5, <1>6, <2>1 DEF LineIds
  <2> QED BY <1>1, <2>1, <2>2
<1>7. CASE j # config.E - 1
  <2>1. r = [i \in LineIds |-> IF i = config.E - 1 THEN q[j]
                              ELSE IF i = config.E - 2 THEN q[config.E - 1]
                              ELSE IF i >= j THEN q[i + 1]
                              ELSE q[i]]
    BY <1>4, <1>7, Zenon DEF update_lru_queue
  <2>2. \A k \in LineIds : r[k] = IF k = config.E - 1 THEN line
                                 ELSE IF k < j THEN q[k] ELSE q[k + 1]
    <3> HIDE DEF r
    <3> QED BY <1>1, <1>5, <1>7, <2>1 DEF LineIds
  <2>3. \A k \in LineIds : r[k] \in LineIds
    <3>1. \A k \in LineIds : q[k] \in LineIds
      OBVIOUS
    <3>2. \A k \in LineIds : k # config.E - 1 => k + 1 \in LineIds
      BY <1>5 DEF LineIds
    <3> HIDE DEF r
    <3> QED BY <2>2, <3>1, <3>2
  <2>4. r \in [LineIds -> LineIds]
    <3> HIDE DEF r
    <3> QED BY <2>1, <2>3
  <2> QED BY <1>1, <2>2, <2>4
<1> QED BY <1>6, <1>7

(* Moving a used line to the end keeps the queue a permutation and the     *)
(* order of the other lines.                                               *)
LEMMA QueueMovePerm ==
  ASSUME ConfigOK, NEW q \in [LineIds -> LineIds], Perm(q),
         NEW line \in LineIds
  PROVE  LET r == update_lru_queue(q, line)
         IN  /\ r \in [LineIds -> LineIds]
             /\ Perm(r)
             /\ \A k, m \in LineIds : k < m =>
                  /\ r[k] # line
                  /\ \/ r[m] = line
                     \/ \E k2, m2 \in LineIds :
                          k2 < m2 /\ q[k2] = r[k] /\ q[m2] = r[m]
<1> DEFINE r == update_lru_queue(q, line)
<1>1. r \in [LineIds -> LineIds]
  BY QueueMove, Zenon
<1>2. PICK j \in LineIds :
        /\ q[j] = line
        /\ \A k \in LineIds : r[k] = IF k = config.E - 1 THEN line
                                     ELSE IF k < j THEN q[k] ELSE q[k + 1]
  BY QueueMove, Zenon
<1> HIDE DEF r
<1>3. config.E \in Nat \ {0}
  BY DEF ConfigOK
<1> DEFINE old(k) == IF k = config.E - 1 THEN j ELSE IF k < j THEN k ELSE k + 1
<1>4. \A k \in LineIds : old(k) \in LineIds /\ r[k] = q[old(k)]
  <2>1. \A k \in LineIds : k # config.E - 1 => k + 1 \in LineIds
    BY <1>3 DEF LineIds
  <2>2. \A k \in LineIds : old(k) \in LineIds
    BY <2>1
  <2> QED BY <1>2, <2>2
<1>5. \A k, m \in LineIds : k # m => old(k) # old(m)
  BY <1>2, <1>3 DEF LineIds
<1>6. \A k, m \in LineIds : r[k] = r[m] => k = m
  <2> HIDE DEF old
  <2> QED BY <1>4, <1>5 DEF Perm
<1>7. ASSUME NEW l \in LineIds PROVE \E k \in LineIds : r[k] = l
  <2>1. PICK k \in LineIds : q[k] = l
    BY DEF Perm
  <2>2. PICK m \in LineIds : old(m) = k
    <3>1. CASE k = j
      <4>1. config.E - 1 \in LineIds /\ old(config.E - 1) = k
        BY <1>3, <3>1 DEF LineIds
      <4> QED BY <4>1
    <3>2. CASE k < j
      <4>1. k \in LineIds /\ old(k) = k
        BY <1>2, <1>3, <3>2 DEF LineIds
      <4> QED BY <4>1
    <3>3. CASE k > j
      <4>1. k - 1 \in LineIds /\ old(k - 1) = k
        BY <1>2, <1>3, <3>3 DEF LineIds
      <4> QED BY <4>1
    <3> QED BY <3>1, <3>2, <3>3 DEF LineIds
  <2> HIDE DEF old
  <2> QED BY <1>4, <2>1, <2>2
<1>8. Perm(r)
  BY <1>6, <1>7 DEF Perm
<1>9. ASSUME NEW k \in LineIds, NEW m \in LineIds, k < m
      PROVE  /\ r[k] # line
             /\ \/ r[m] = line
                \/ \E k2, m2 \in LineIds :
                     k2 < m2 /\ q[k2] = r[k] /\ q[m2] = r[m]
  <2>1. k # config.E - 1 /\ config.E - 1 \in LineIds
    BY <1>3, <1>9 DEF LineIds
  <2>2. r[config.E - 1] = line
    BY <1>2, <2>1
  <2>3. r[k] # line
    BY <1>6, <2>1, <2>2
  <2>4. CASE m = config.E - 1
    BY <2>2, <2>3, <2>4
  <2>5. CASE m # config.E - 1
    <3>1. old(k) < old(m)
      BY <1>2, <1>3, <1>9, <2>1, <2>5 DEF LineIds
    <3> HIDE DEF old
    <3> QED BY <1>4, <2>3, <3>1
  <2> QED BY <2>4, <2>5
<1> QED BY <1>1, <1>8, <1>9 DEF r

(* A scan of lines that finds something finds a line it looks for.         *)
LEMMA FirstOfLines ==
  ASSUME ConfigOK, NEW I, I \subseteq LineIds, I # {}
  PROVE  FirstOf(I) \in I
<1>1. I \subseteq Nat
  BY DEF LineIds, ConfigOK
<1>2. \E i \in I : \A k \in I : i <= k
  BY <1>1, LeastNat
<1> QED BY <1>2 DEF FirstOf

----------------------------------------------------------------------------
(* The three outcomes of a reference to block x that ends up in line k.    *)
IsHit(x, k) ==
  /\ Valid(IndexOf(x), k) /\ sets[IndexOf(x)].lines[k].tag = TagOf(x)
  /\ hits' = hits + 1 /\ misses' = misses /\ evictions' = evictions

IsFill(x, k) ==
  /\ ~InCache(x) /\ ~Valid(IndexOf(x), k)
  /\ hits' = hits /\ misses' = misses + 1 /\ evictions' = evictions

IsEviction(x, k) ==
  /\ ~InCache(x)
  /\ \A l \in LineIds : Valid(IndexOf(x), l)
  /\ k = sets[IndexOf(x)].lru_queue[0]
  /\ hits' = hits /\ misses' = misses + 1 /\ evictions' = evictions + 1

Outcome(x, k) == IsHit(x, k) \/ IsFill(x, k) \/ IsEviction(x, k)

Used1(x, k) ==
  sets' = [sets EXCEPT ![IndexOf(x)] = Fill(sets[IndexOf(x)], k, TagOf(x))]

(* A reference uses one line of the set its address selects, and counts a  *)
(* hit, a miss, or a miss and an eviction.                                 *)
LEMMA RefEffect ==
  ASSUME Shape, NEW a \in Addresses, ref_mem(a)
  PROVE  \E k \in LineIds : Used1(BlockOf(a), k) /\ Outcome(BlockOf(a), k)
<1> DEFINE x == BlockOf(a)
           i == IndexOf(x)
           t == TagOf(x)
           set == sets[i]
<1>1. ConfigOK /\ x \in Blocks /\ i \in SetIds /\ t \in Nat /\ set \in Set
  <2>1. ConfigOK
    BY DEF Shape
  <2>2. x \in Blocks
    BY <2>1, Split, Zenon
  <2>3. i \in SetIds /\ t \in Nat
    BY <2>1, <2>2, Split, Zenon
  <2> QED BY <2>1, <2>2, <2>3 DEF Shape
<1>2. /\ set.lines \in [LineIds -> Line] /\ set.lru_queue \in [LineIds -> LineIds]
      /\ set = [lines |-> set.lines, lru_queue |-> set.lru_queue]
  BY <1>1 DEF Set
<1>3. Hit(set, t) \subseteq LineIds /\ Free(set) \subseteq LineIds
  BY DEF Hit, Free
<1>4. 0 \in LineIds
  BY <1>1 DEF ConfigOK, LineIds
<1>5. /\ Hit(set, t) # {} =>
           /\ hits' = hits + 1
           /\ sets' = [sets EXCEPT ![i].lru_queue =
                         update_lru_queue(@, FirstOf(Hit(set, t)))]
           /\ UNCHANGED <<misses, evictions>>
      /\ Hit(set, t) = {} =>
           /\ misses' = misses + 1
           /\ sets' = [sets EXCEPT ![i] = update(set, t)]
           /\ evictions' = IF Free(set) = {} THEN evictions + 1 ELSE evictions
           /\ UNCHANGED hits
  BY Zenon DEF ref_mem
<1>6. CASE Hit(set, t) # {}
  <2> DEFINE k == FirstOf(Hit(set, t))
  <2>1. k \in Hit(set, t)
    BY <1>1, <1>3, <1>6, FirstOfLines, Zenon
  <2> HIDE DEF k
  <2>2. k \in LineIds /\ set.lines[k].valid /\ set.lines[k].tag = t
    BY <2>1 DEF Hit
  <2>3. set.lines[k] = [valid |-> TRUE, tag |-> t]
    <3>1. set.lines[k] \in Line
      BY <1>2, <2>2
    <3> QED BY <2>2, <3>1 DEF Line
  <2>4. [set.lines EXCEPT ![k] = [valid |-> TRUE, tag |-> t]] = set.lines
    BY <1>2, <2>2, <2>3
  <2>5. [set EXCEPT !.lru_queue = update_lru_queue(@, k)] = Fill(set, k, t)
    <3> DEFINE q == update_lru_queue(set.lru_queue, k)
    <3>1. Fill(set, k, t) = [lines |-> set.lines, lru_queue |-> q]
      BY <2>4 DEF Fill
    <3>2. \A A, B, c : [[lines |-> A, lru_queue |-> B] EXCEPT !.lru_queue = c]
                         = [lines |-> A, lru_queue |-> c]
      OBVIOUS
    <3> HIDE DEF q, set
    <3>3. [set EXCEPT !.lru_queue = q] = [lines |-> set.lines, lru_queue |-> q]
      BY <1>2, <3>2
    <3> QED BY <3>1, <3>3 DEF q
  <2>6. sets' = [sets EXCEPT ![i].lru_queue = update_lru_queue(@, k)]
    BY <1>5, <1>6 DEF k
  <2>7. sets' = [sets EXCEPT ![i] = [set EXCEPT !.lru_queue = update_lru_queue(@, k)]]
    BY <2>6
  <2>8. Used1(x, k)
    BY <2>5, <2>7 DEF Used1
  <2>9. IsHit(x, k)
    BY <1>5, <1>6, <2>2 DEF IsHit, Valid
  <2> QED BY <2>2, <2>8, <2>9 DEF Outcome
<1>7. CASE Hit(set, t) = {}
  <2>1. ~InCache(x)
    BY <1>7 DEF Hit, InCache, Valid
  <2>2. CASE Free(set) # {}
    <3> DEFINE k == FirstOf(Free(set))
    <3>1. k \in Free(set)
      BY <1>1, <1>3, <2>2, FirstOfLines, Zenon
    <3>2. update(set, t) = Fill(set, k, t)
      BY <2>2, Zenon DEF update
    <3> HIDE DEF k
    <3>3. Used1(x, k)
      BY <1>5, <1>7, <3>2, Zenon DEF Used1
    <3>4. k \in LineIds /\ IsFill(x, k)
      BY <1>5, <1>7, <2>1, <2>2, <3>1 DEF IsFill, Free, Valid
    <3> QED BY <3>3, <3>4 DEF Outcome
  <2>3. CASE Free(set) = {}
    <3> DEFINE k == set.lru_queue[0]
    <3>1. update(set, t) = Fill(set, k, t)
      BY <2>3, Zenon DEF update, evict_lru
    <3>2. Used1(x, k)
      BY <1>5, <1>7, <3>1, Zenon DEF Used1
    <3>3. k \in LineIds
      BY <1>2, <1>4
    <3>4. \A l \in LineIds : Valid(i, l)
      BY <2>3 DEF Free, Valid
    <3>5. IsEviction(x, k)
      BY <1>5, <1>7, <2>1, <2>3, <3>4 DEF IsEviction
    <3> QED BY <3>2, <3>3, <3>5 DEF Outcome
  <2> QED BY <2>2, <2>3
<1> QED BY <1>6, <1>7

(* What a reference to block x through line k changes.                     *)
Step(x, k) == /\ Used1(x, k) /\ Outcome(x, k)
              /\ last' = [last EXCEPT ![x] = hits + misses + 1]
              /\ config' = config

(* A use of line k changes that line and the queue of its set, and no      *)
(* other line.                                                             *)
LEMMA StepState ==
  ASSUME Shape, Queues, NEW x \in Blocks, NEW k \in LineIds, Used1(x, k),
         config' = config
  PROVE  LET i == IndexOf(x)
         IN  /\ Shape'
             /\ \A j \in SetIds \ {i} : sets'[j] = sets[j]
             /\ \A l \in LineIds \ {k} : sets'[i].lines[l] = sets[i].lines[l]
             /\ sets'[i].lines[k].valid /\ sets'[i].lines[k].tag = TagOf(x)
             /\ sets'[i].lru_queue = update_lru_queue(sets[i].lru_queue, k)
<1> DEFINE i == IndexOf(x)
           t == TagOf(x)
           set == sets[i]
<1>1. ConfigOK /\ i \in SetIds /\ t \in Nat /\ set \in Set
  <2>1. ConfigOK
    BY DEF Shape
  <2>2. i \in SetIds /\ t \in Nat
    BY <2>1, Split, Zenon
  <2> QED BY <2>1, <2>2 DEF Shape
<1>2. /\ set.lines \in [LineIds -> Line] /\ set.lru_queue \in [LineIds -> LineIds]
  BY <1>1 DEF Set
<1>3. Perm(set.lru_queue)
  BY <1>1 DEF Queues
<1>4. update_lru_queue(set.lru_queue, k) \in [LineIds -> LineIds]
  BY <1>1, <1>2, <1>3, QueueMovePerm, Zenon
<1> DEFINE new == Fill(set, k, t)
<1>5. /\ new.lru_queue = update_lru_queue(set.lru_queue, k)
      /\ new.lines = [set.lines EXCEPT ![k] = [valid |-> TRUE, tag |-> t]]
      /\ new = [lines |-> new.lines, lru_queue |-> new.lru_queue]
  BY DEF Fill
<1> HIDE DEF new
<1>6. [valid |-> TRUE, tag |-> t] \in Line
  BY <1>1 DEF Line
<1>7. new.lines \in [LineIds -> Line]
  BY <1>2, <1>5, <1>6
<1>8. new \in Set
  BY <1>4, <1>5, <1>7 DEF Set
<1>9. sets \in [SetIds -> Set]
  BY DEF Shape
<1>10. sets' = [sets EXCEPT ![i] = new]
  BY DEF Used1, new
<1>11. sets' \in [SetIds -> Set] /\ sets'[i] = new
       /\ \A j \in SetIds \ {i} : sets'[j] = sets[j]
  <2> HIDE DEF i
  <2> QED BY <1>1, <1>8, <1>9, <1>10
<1>12. Shape'
  <2>1. SetIds' = SetIds /\ LineIds' = LineIds
    BY DEF SetIds, LineIds
  <2>2. Set' = Set
    BY <2>1 DEF Set, Line
  <2>3. ConfigOK'
    BY <1>1 DEF ConfigOK
  <2> QED BY <1>11, <2>1, <2>2, <2>3 DEF Shape
<1>13. /\ \A l \in LineIds \ {k} : new.lines[l] = set.lines[l]
       /\ new.lines[k].valid /\ new.lines[k].tag = t
  BY <1>2, <1>5
<1> QED BY <1>5, <1>11, <1>12, <1>13

(* The time of a block that a line held before stays, unless it is x.      *)
LEMMA StepTimes ==
  ASSUME Shape, Known, Times, hits \in Nat, misses \in Nat,
         NEW x \in Blocks, NEW k \in LineIds, Step(x, k)
  PROVE  /\ last' \in [Blocks -> Nat]
         /\ last'[x] = hits + misses + 1
         /\ \A y \in Blocks : last[y] < last'[x]
         /\ \A y \in Blocks \ {x} : last'[y] = last[y]
         /\ \A j \in SetIds, l \in LineIds :
              Valid(j, l) => BlockIn(j, l) \in Blocks
<1>1. last \in [Blocks -> Nat] /\ \A y \in Blocks : last[y] <= hits + misses
  BY DEF Times
<1>2. last' = [last EXCEPT ![x] = hits + misses + 1]
  BY DEF Step
<1>3. last'[x] = hits + misses + 1 /\ \A y \in Blocks \ {x} : last'[y] = last[y]
  BY <1>1, <1>2
<1>4. \A y \in Blocks : last[y] < last'[x]
  BY <1>1, <1>3
<1>5. last' \in [Blocks -> Nat]
  BY <1>1, <1>2
<1> QED BY <1>3, <1>4, <1>5 DEF Known

(* A valid line other than k does not hold x, before or after.             *)
LEMMA StepBlocks ==
  ASSUME Shape, Queues, Distinct, NEW x \in Blocks, NEW k \in LineIds,
         Step(x, k), NEW i, i = IndexOf(x)
  PROVE      /\ i \in SetIds
             /\ SetIds' = SetIds /\ LineIds' = LineIds
             /\ \A j \in SetIds \ {i}, l \in LineIds :
                  /\ Valid(j, l)' = Valid(j, l)
                  /\ BlockIn(j, l)' = BlockIn(j, l)
                  /\ BlockIn(j, l) # x
             /\ \A l \in LineIds \ {k} :
                  /\ Valid(i, l)' = Valid(i, l)
                  /\ BlockIn(i, l)' = BlockIn(i, l)
                  /\ Valid(i, l) => sets[i].lines[l].tag # TagOf(x)
                  /\ Valid(i, l) => BlockIn(i, l) # x
             /\ Valid(i, k)' /\ BlockIn(i, k)' = x
<1>1. Used1(x, k) /\ config' = config /\ Outcome(x, k)
  BY DEF Step
<1>2. i \in SetIds /\ ConfigOK
  BY Split DEF Shape
<1>3. SetIds' = SetIds /\ LineIds' = LineIds
  BY <1>1 DEF SetIds, LineIds
<1>4. /\ \A j \in SetIds \ {i} : sets'[j] = sets[j]
      /\ \A l \in LineIds \ {k} : sets'[i].lines[l] = sets[i].lines[l]
      /\ sets'[i].lines[k].valid /\ sets'[i].lines[k].tag = TagOf(x)
  BY <1>1, StepState, Zenon
<1>5. \A j \in SetIds \ {i}, l \in LineIds :
        /\ Valid(j, l)' = Valid(j, l)
        /\ BlockIn(j, l)' = BlockIn(j, l)
  BY <1>1, <1>4, Zenon DEF Valid, BlockIn
<1>6. \A j \in SetIds \ {i}, l \in LineIds : BlockIn(j, l) # x
  <2>1. \A j \in SetIds, l \in LineIds : IndexOf(BlockIn(j, l)) = j
    BY LineOfBlock, Zenon
  <2> QED BY <2>1
<1>7. \A l \in LineIds \ {k} : /\ Valid(i, l)' = Valid(i, l)
                               /\ BlockIn(i, l)' = BlockIn(i, l)
  BY <1>1, <1>4, Zenon DEF Valid, BlockIn
<1>8. \A l \in LineIds \ {k} :
        Valid(i, l) => sets[i].lines[l].tag # TagOf(x)
  <2>1. CASE IsHit(x, k)
    BY <1>2, <2>1, Zenon DEF IsHit, Distinct
  <2>2. CASE ~InCache(x)
    BY <2>2, Zenon DEF InCache
  <2> QED BY <1>1, <2>1, <2>2, Zenon DEF Outcome, IsFill, IsEviction
<1>9. \A l \in LineIds \ {k} : Valid(i, l) => BlockIn(i, l) # x
  <2>1. \A l \in LineIds : TagOf(BlockIn(i, l)) = sets[i].lines[l].tag
    BY <1>2, LineOfBlock, Zenon
  <2> QED BY <1>8, <2>1, Zenon
<1>10. Valid(i, k)'
  BY <1>4, Zenon DEF Valid
<1>11. BlockIn(i, k)' = x
  <2>1. x = TagOf(x) * config.S + i
    BY <1>2, Split, Zenon
  <2> QED BY <1>1, <1>4, <2>1, Zenon DEF BlockIn
<1> QED BY <1>2, <1>3, <1>5, <1>6, <1>7, <1>8, <1>9, <1>10, <1>11, Zenon

----------------------------------------------------------------------------
(* Every conjunct of the cache invariant survives a reference.             *)
LEMMA StepQueues ==
  ASSUME Shape, Queues, NEW x \in Blocks, NEW k \in LineIds, Step(x, k)
  PROVE  Queues'
<1> PICK i \in SetIds : i = IndexOf(x)
  BY Split DEF Shape
<1>1. Used1(x, k) /\ config' = config
  BY DEF Step
<1>2. SetIds' = SetIds /\ LineIds' = LineIds
  BY <1>1 DEF SetIds, LineIds
<1>3. /\ \A j \in SetIds \ {i} : sets'[j] = sets[j]
      /\ sets'[i].lru_queue = update_lru_queue(sets[i].lru_queue, k)
  BY <1>1, StepState, Zenon
<1>4. ConfigOK /\ sets[i].lru_queue \in [LineIds -> LineIds]
  BY DEF Shape, Set
<1>5. \A j \in SetIds : Perm(sets[j].lru_queue)
  BY DEF Queues
<1>6. Perm(sets'[i].lru_queue)
  <2>1. Perm(update_lru_queue(sets[i].lru_queue, k))
    BY <1>4, <1>5, QueueMovePerm, Zenon
  <2> QED BY <1>3, <2>1, Zenon
<1>7. \A j \in SetIds : Perm(sets'[j].lru_queue)
  BY <1>3, <1>5, <1>6, Zenon
<1>8. ASSUME NEW j \in SetIds PROVE Perm(sets[j].lru_queue)'
  <2>1. Perm(sets'[j].lru_queue)
    BY <1>7
  <2> QED BY <1>2, <2>1, Zenon DEF Perm
<1> QED BY <1>2, <1>8, Zenon DEF Queues

(* A step never makes two valid lines of a set carry the same tag.         *)
LEMMA StepDistinct ==
  ASSUME Shape, Queues, Distinct, NEW x \in Blocks, NEW k \in LineIds,
         Step(x, k)
  PROVE  Distinct'
<1> PICK i \in SetIds : i = IndexOf(x)
  BY Split DEF Shape
<1>1. Used1(x, k) /\ config' = config
  BY DEF Step
<1>2. /\ SetIds' = SetIds /\ LineIds' = LineIds
      /\ \A j \in SetIds \ {i}, l \in LineIds : Valid(j, l)' = Valid(j, l)
      /\ \A l \in LineIds \ {k} :
           /\ Valid(i, l)' = Valid(i, l)
           /\ Valid(i, l) => sets[i].lines[l].tag # TagOf(x)
  BY StepBlocks
<1>3. /\ \A j \in SetIds \ {i} : sets'[j] = sets[j]
      /\ \A l \in LineIds \ {k} : sets'[i].lines[l] = sets[i].lines[l]
      /\ sets'[i].lines[k].tag = TagOf(x)
  BY <1>1, StepState, Zenon
<1>4. SUFFICES ASSUME NEW j \in SetIds, NEW l \in LineIds, NEW m \in LineIds,
                      Valid(j, l)', Valid(j, m)',
                      sets'[j].lines[l].tag = sets'[j].lines[m].tag
               PROVE  l = m
  BY <1>2, Zenon DEF Distinct
<1>5. CASE j # i
  <2>1. Valid(j, l) /\ Valid(j, m) /\ sets'[j] = sets[j]
    BY <1>2, <1>3, <1>4, <1>5, Zenon
  <2> QED BY <1>4, <2>1, Zenon DEF Distinct
<1>6. CASE j = i /\ l # k /\ m # k
  BY <1>2, <1>3, <1>4, <1>6, Zenon DEF Distinct
<1>7. CASE j = i /\ l # k /\ m = k
  BY <1>2, <1>3, <1>4, <1>7, Zenon
<1>8. CASE j = i /\ l = k /\ m # k
  BY <1>2, <1>3, <1>4, <1>8, Zenon
<1> QED BY <1>5, <1>6, <1>7, <1>8

(* After a step the queues still list their lines from the longest unused  *)
(* to the last used.                                                       *)
LEMMA StepOrdered ==
  ASSUME CacheInv, Times, hits \in Nat, misses \in Nat,
         NEW x \in Blocks, NEW k \in LineIds, Step(x, k)
  PROVE  Ordered'
<1> USE DEF CacheInv
<1> PICK i \in SetIds : i = IndexOf(x)
  BY Split DEF Shape
<1>1. Used1(x, k) /\ config' = config
  BY DEF Step
<1>2. /\ SetIds' = SetIds /\ LineIds' = LineIds
      /\ \A j \in SetIds \ {i}, l \in LineIds :
           /\ Valid(j, l)' = Valid(j, l)
           /\ BlockIn(j, l)' = BlockIn(j, l)
           /\ BlockIn(j, l) # x
      /\ \A l \in LineIds \ {k} :
           /\ Valid(i, l)' = Valid(i, l)
           /\ BlockIn(i, l)' = BlockIn(i, l)
           /\ Valid(i, l) => BlockIn(i, l) # x
      /\ Valid(i, k)' /\ BlockIn(i, k)' = x
  BY StepBlocks
<1>3. /\ \A j \in SetIds \ {i} : sets'[j] = sets[j]
      /\ sets'[i].lru_queue = update_lru_queue(sets[i].lru_queue, k)
  BY <1>1, StepState, Zenon
<1>4. /\ \A y \in Blocks : last[y] < last'[x]
      /\ \A y \in Blocks \ {x} : last'[y] = last[y]
      /\ \A j \in SetIds, l \in LineIds : Valid(j, l) => BlockIn(j, l) \in Blocks
  BY StepTimes, Zenon
<1>5. \A j \in SetIds : /\ sets[j].lru_queue \in [LineIds -> LineIds]
                        /\ Perm(sets[j].lru_queue)
  BY DEF Shape, Set, Queues
<1> DEFINE q == sets[i].lru_queue
           r == update_lru_queue(q, k)
<1>6. /\ r \in [LineIds -> LineIds]
      /\ \A a, c \in LineIds : a < c =>
           /\ r[a] # k
           /\ \/ r[c] = k
              \/ \E a2, c2 \in LineIds : a2 < c2 /\ q[a2] = r[a] /\ q[c2] = r[c]
  <2>1. ConfigOK /\ q \in [LineIds -> LineIds] /\ Perm(q)
    BY <1>5 DEF Shape
  <2> QED BY <2>1, QueueMovePerm, Zenon
<1> HIDE DEF r
<1>7. SUFFICES ASSUME NEW j \in SetIds, NEW a \in LineIds, NEW c \in LineIds,
                      a < c, Valid(j, sets[j].lru_queue[a])'
               PROVE  /\ Valid(j, sets[j].lru_queue[c])'
                      /\ last'[BlockIn(j, sets[j].lru_queue[a])']
                           < last'[BlockIn(j, sets[j].lru_queue[c])']
  BY <1>2 DEF Ordered
<1>8. CASE j # i
  <2> DEFINE o == sets[j].lru_queue[a]
             n == sets[j].lru_queue[c]
  <2>1. o \in LineIds /\ n \in LineIds
    BY <1>5
  <2>2. sets'[j].lru_queue[a] = o /\ sets'[j].lru_queue[c] = n
    BY <1>3, <1>8
  <2>3. Valid(j, o) => Valid(j, n) /\ last[BlockIn(j, o)] < last[BlockIn(j, n)]
    BY <1>7 DEF Ordered
  <2> HIDE DEF o, n
  <2>4. /\ Valid(j, sets[j].lru_queue[a])' = Valid(j, o)
        /\ Valid(j, sets[j].lru_queue[c])' = Valid(j, n)
        /\ BlockIn(j, sets[j].lru_queue[a])' = BlockIn(j, o)
        /\ BlockIn(j, sets[j].lru_queue[c])' = BlockIn(j, n)
    BY <1>1, <1>3, <1>8, <2>2, Zenon DEF Valid, BlockIn
  <2>5. BlockIn(j, o) # x /\ BlockIn(j, n) # x
    BY <1>2, <1>8, <2>1, Zenon
  <2>6. Valid(j, o)
    BY <1>7, <2>4, Zenon
  <2> QED BY <1>4, <2>1, <2>3, <2>4, <2>5, <2>6
<1>9. CASE j = i
  <2>1. sets'[j].lru_queue = r
    BY <1>3, <1>9 DEF r
  <2>2. r[a] \in LineIds \ {k} /\ r[c] \in LineIds
    BY <1>6, <1>7
  <2> PICK o \in LineIds \ {k} : o = r[a]
    BY <2>2
  <2> PICK n \in LineIds : n = r[c]
    BY <2>2
  <2>3. /\ Valid(j, sets[j].lru_queue[a])' = Valid(i, o)'
        /\ Valid(j, sets[j].lru_queue[c])' = Valid(i, n)'
        /\ BlockIn(j, sets[j].lru_queue[a])' = BlockIn(i, o)'
        /\ BlockIn(j, sets[j].lru_queue[c])' = BlockIn(i, n)'
    BY <1>9, <2>1, Zenon DEF Valid, BlockIn
  <2>4. Valid(i, o)' /\ Valid(i, o)
    BY <1>2, <1>7, <2>3, Zenon
  <2>5. BlockIn(i, o)' = BlockIn(i, o) /\ BlockIn(i, o) # x
        /\ BlockIn(i, o) \in Blocks
    BY <1>2, <1>4, <2>4, Zenon
  <2>6. CASE n = k
    <3>1. Valid(i, n)' /\ BlockIn(i, n)' = x
      BY <1>2, <2>6, Zenon
    <3>2. last'[BlockIn(i, o)'] < last'[BlockIn(i, n)']
      BY <1>4, <2>5, <3>1
    <3> QED BY <2>3, <3>1, <3>2, Zenon
  <2>7. CASE n # k
    <3>1. PICK a2 \in LineIds, c2 \in LineIds : a2 < c2 /\ q[a2] = o /\ q[c2] = n
      BY <1>6, <1>7, <2>7
    <3>2. Valid(i, n) /\ last[BlockIn(i, o)] < last[BlockIn(i, n)]
      BY <2>4, <3>1, Zenon DEF Ordered
    <3>3. Valid(i, n)' /\ BlockIn(i, n)' = BlockIn(i, n)
          /\ BlockIn(i, n) # x /\ BlockIn(i, n) \in Blocks
      BY <1>2, <1>4, <2>7, <3>2, Zenon
    <3>4. last'[BlockIn(i, o)'] < last'[BlockIn(i, n)']
      BY <1>4, <2>5, <3>2, <3>3
    <3> QED BY <2>3, <3>3, <3>4, Zenon
  <2> QED BY <2>6, <2>7
<1> QED BY <1>8, <1>9

(* After a step the lines in use still hold exactly the blocks used last.  *)
LEMMA StepKnown ==
  ASSUME CacheInv, Times, hits \in Nat, misses \in Nat,
         NEW x \in Blocks, NEW k \in LineIds, Step(x, k)
  PROVE  Known'
<1> USE DEF CacheInv
<1> PICK i \in SetIds : i = IndexOf(x)
  BY Split DEF Shape
<1>1. /\ SetIds' = SetIds /\ LineIds' = LineIds
      /\ \A j \in SetIds \ {i}, l \in LineIds :
           /\ Valid(j, l)' = Valid(j, l)
           /\ BlockIn(j, l)' = BlockIn(j, l)
           /\ BlockIn(j, l) # x
      /\ \A l \in LineIds \ {k} :
           /\ Valid(i, l)' = Valid(i, l)
           /\ BlockIn(i, l)' = BlockIn(i, l)
           /\ Valid(i, l) => BlockIn(i, l) # x
      /\ Valid(i, k)' /\ BlockIn(i, k)' = x
  BY StepBlocks
<1>2. /\ last'[x] > 0
      /\ \A y \in Blocks \ {x} : last'[y] = last[y]
  <2>1. last'[x] = hits + misses + 1 /\ \A y \in Blocks \ {x} : last'[y] = last[y]
    BY StepTimes, Zenon
  <2> QED BY <2>1
<1>3. \A j \in SetIds, l \in LineIds :
        Valid(j, l) => BlockIn(j, l) \in Blocks /\ last[BlockIn(j, l)] > 0
  BY Zenon DEF Known
<1>4. Blocks' = Blocks
  BY DEF Blocks, Addresses
<1>5. SUFFICES ASSUME NEW j \in SetIds, NEW l \in LineIds, Valid(j, l)'
               PROVE  BlockIn(j, l)' \in Blocks /\ last'[BlockIn(j, l)'] > 0
  BY <1>1, <1>4, Zenon DEF Known
<1>6. CASE j = i /\ l = k
  BY <1>1, <1>2, <1>6, Zenon
<1>7. CASE j # i \/ l # k
  <2>1. Valid(j, l) /\ BlockIn(j, l)' = BlockIn(j, l) /\ BlockIn(j, l) # x
    BY <1>1, <1>5, <1>7, Zenon
  <2> QED BY <1>2, <1>3, <2>1, Zenon
<1> QED BY <1>6, <1>7

(* The evicted block is older than every block left in its set.            *)
LEMMA StepCovered ==
  ASSUME CacheInv, Times, hits \in Nat, misses \in Nat,
         NEW x \in Blocks, NEW k \in LineIds, Step(x, k)
  PROVE  Covered' /\ InCache(x)'
<1> USE DEF CacheInv
<1> PICK i \in SetIds : i = IndexOf(x)
  BY Split DEF Shape
<1>1. Used1(x, k) /\ config' = config /\ Outcome(x, k)
  BY DEF Step
<1>2. /\ SetIds' = SetIds /\ LineIds' = LineIds
      /\ \A j \in SetIds \ {i}, l \in LineIds :
           /\ Valid(j, l)' = Valid(j, l)
           /\ BlockIn(j, l)' = BlockIn(j, l)
           /\ BlockIn(j, l) # x
      /\ \A l \in LineIds \ {k} :
           /\ Valid(i, l)' = Valid(i, l)
           /\ BlockIn(i, l)' = BlockIn(i, l)
           /\ Valid(i, l) => BlockIn(i, l) # x
      /\ Valid(i, k)' /\ BlockIn(i, k)' = x
  BY StepBlocks
<1>3. /\ \A j \in SetIds \ {i} : sets'[j] = sets[j]
      /\ \A l \in LineIds \ {k} : sets'[i].lines[l] = sets[i].lines[l]
      /\ sets'[i].lines[k].tag = TagOf(x)
  BY <1>1, StepState, Zenon
<1>4. /\ last' \in [Blocks -> Nat]
      /\ \A y \in Blocks : last[y] < last'[x]
      /\ \A y \in Blocks \ {x} : last'[y] = last[y]
      /\ \A j \in SetIds, l \in LineIds : Valid(j, l) => BlockIn(j, l) \in Blocks
  BY StepTimes, Zenon
<1>5. \A y : IndexOf(y)' = IndexOf(y) /\ TagOf(y)' = TagOf(y)
  BY <1>1 DEF IndexOf, TagOf, pow2
<1>6. InCache(x)'
  <2>1. Valid(i, k)' /\ sets'[i].lines[k].tag = TagOf(x)
    BY <1>2, <1>3
  <2>2. Valid(IndexOf(x), k)' /\ sets'[IndexOf(x)'].lines[k].tag = TagOf(x)'
    BY <1>5, <2>1 DEF Valid
  <2> QED BY <1>2, <2>2, Zenon DEF InCache
<1>7. ASSUME NEW y \in Blocks, last'[y] > 0
      PROVE  InCache(y)' \/ OlderThanAll(y)'
  <2>1. CASE y = x
    BY <1>6, <2>1
  <2>2. CASE y # x
    <3> PICK j \in SetIds : j = IndexOf(y)
      BY Split DEF Shape
    <3>1. last'[y] = last[y]
      BY <1>4, <2>2
    <3>2. InCache(y) \/ OlderThanAll(y)
      BY <1>7, <3>1 DEF Covered
    <3>3. \A l \in LineIds : (Valid(IndexOf(y), l)' <=> Valid(j, l)')
                            /\ BlockIn(IndexOf(y), l)' = BlockIn(j, l)'
      BY <1>5, Zenon DEF Valid, BlockIn
    <3>4. CASE InCache(y)
      <4>1. PICK m \in LineIds : Valid(j, m) /\ sets[j].lines[m].tag = TagOf(y)
        BY <3>4 DEF InCache
      <4>2. BlockIn(j, m) = y
        BY <4>1, LineOfBlock
      <4>3. CASE j # i \/ m # k
        <5>1. Valid(j, m)' /\ sets'[j].lines[m].tag = TagOf(y)
          BY <1>2, <1>3, <4>1, <4>3
        <5>2. Valid(IndexOf(y), m)' /\ sets'[IndexOf(y)'].lines[m].tag = TagOf(y)'
          BY <1>5, <5>1 DEF Valid
        <5> QED BY <1>2, <5>2, Zenon DEF InCache
      <4>4. CASE j = i /\ m = k
        <5>1. ~ IsHit(x, k)
          <6>1. IsHit(x, k) => BlockIn(i, k) = x
            BY LineOfBlock DEF IsHit
          <6> QED BY <2>2, <4>2, <4>4, <6>1
        <5>2. ~ IsFill(x, k)
          BY <4>1, <4>4 DEF IsFill
        <5>3. /\ \A l \in LineIds : Valid(i, l)
              /\ k = sets[i].lru_queue[0]
          BY <1>1, <5>1, <5>2 DEF Outcome, IsEviction
        <5>4. \A l \in LineIds \ {k} : last[y] < last[BlockIn(i, l)]
          <6> TAKE l \in LineIds \ {k}
          <6>1. PICK n \in LineIds : sets[i].lru_queue[n] = l
            BY DEF Queues, Perm
          <6>2. 0 \in LineIds /\ 0 < n
            <7>1. n # 0
              BY <5>3, <6>1
            <7>2. config.E \in Nat \ {0}
              BY DEF Shape, ConfigOK
            <7> QED BY <7>1, <7>2 DEF LineIds
          <6>3. last[BlockIn(i, sets[i].lru_queue[0])] < last[BlockIn(i, sets[i].lru_queue[n])]
            BY <5>3, <6>2, Zenon DEF Ordered
          <6> QED BY <4>2, <4>4, <5>3, <6>1, <6>3
        <5>5. \A l \in LineIds : Valid(i, l)' /\ last'[y] < last'[BlockIn(i, l)']
          <6> TAKE l \in LineIds
          <6>1. CASE l = k
            BY <1>2, <1>4, <3>1, <6>1
          <6>2. CASE l # k
            <7>1. /\ Valid(i, l)' /\ BlockIn(i, l)' = BlockIn(i, l)
                  /\ BlockIn(i, l) # x /\ BlockIn(i, l) \in Blocks
              BY <1>2, <1>4, <5>3, <6>2
            <7> QED BY <1>4, <3>1, <5>4, <6>2, <7>1
          <6> QED BY <6>1, <6>2
        <5> QED BY <1>2, <3>3, <4>4, <5>5 DEF OlderThanAll
      <4> QED BY <4>3, <4>4
    <3>5. CASE OlderThanAll(y)
      <4>1. \A l \in LineIds : Valid(j, l) /\ last[y] < last[BlockIn(j, l)]
        BY <3>5 DEF OlderThanAll
      <4>2. \A l \in LineIds : Valid(j, l)' /\ last'[y] < last'[BlockIn(j, l)']
        <5> TAKE l \in LineIds
        <5>1. CASE j = i /\ l = k
          BY <1>2, <1>4, <3>1, <5>1
        <5>2. CASE j # i \/ l # k
          <6>1. /\ Valid(j, l)' /\ BlockIn(j, l)' = BlockIn(j, l)
                /\ BlockIn(j, l) # x /\ BlockIn(j, l) \in Blocks
            BY <1>2, <1>4, <4>1, <5>2
          <6> QED BY <1>4, <3>1, <4>1, <6>1
        <5> QED BY <5>1, <5>2
      <4> QED BY <1>2, <3>3, <4>2 DEF OlderThanAll
    <3> QED BY <3>2, <3>4, <3>5
  <2> QED BY <2>1, <2>2
<1>8. Blocks' = Blocks
  BY DEF Blocks, Addresses
<1> QED BY <1>6, <1>7, <1>8, Zenon DEF Covered

(* The lines in use and the counters change together.                      *)
LEMMA StepUsedLines ==
  ASSUME CacheInv, Cardinality(UsedLines) = misses - evictions,
         hits \in Nat, misses \in Nat, evictions \in Nat,
         NEW x \in Blocks, NEW k \in LineIds, Step(x, k)
  PROVE  Cardinality(UsedLines') = misses' - evictions'
<1> USE DEF CacheInv
<1> PICK i \in SetIds : i = IndexOf(x)
  BY Split DEF Shape
<1>1. Outcome(x, k)
  BY DEF Step
<1>2. /\ SetIds' = SetIds /\ LineIds' = LineIds
      /\ \A j \in SetIds \ {i}, l \in LineIds : Valid(j, l)' = Valid(j, l)
      /\ \A l \in LineIds \ {k} : Valid(i, l)' = Valid(i, l)
      /\ Valid(i, k)'
  BY StepBlocks
<1>3. IsFiniteSet(UsedLines)
  <2>1. IsFiniteSet(SetIds) /\ IsFiniteSet(LineIds)
    <3>1. config.S - 1 \in Int /\ config.E - 1 \in Int
      BY DEF Shape, ConfigOK
    <3>2. 0 \in Int
      OBVIOUS
    <3> QED BY <3>1, <3>2, FS_Interval, Zenon DEF SetIds, LineIds
  <2>2. IsFiniteSet(SetIds \X LineIds)
    BY <2>1, FS_Product
  <2>3. UsedLines \in SUBSET (SetIds \X LineIds)
    BY DEF UsedLines
  <2> QED BY <2>2, <2>3, FS_Subset, Zenon
<1>4. UsedLines' = UsedLines \cup {<<i, k>>}
  <2>1. UsedLines' = {l \in SetIds \X LineIds : Valid(l[1], l[2])'}
    BY <1>2 DEF UsedLines, Valid
  <2>2. \A j \in SetIds, l \in LineIds :
          Valid(j, l)' <=> Valid(j, l) \/ (j = i /\ l = k)
    BY <1>2
  <2> QED BY <2>1, <2>2 DEF UsedLines
<1>5. <<i, k>> \in UsedLines <=> Valid(i, k)
  BY DEF UsedLines
<1>6. /\ Cardinality(UsedLines) \in Nat
      /\ Cardinality(UsedLines') = IF Valid(i, k) THEN Cardinality(UsedLines)
                                   ELSE Cardinality(UsedLines) + 1
  BY <1>3, <1>4, <1>5, FS_AddElement, FS_CardinalityType
<1>7. CASE Valid(i, k) /\ ~IsFill(x, k)
  <2>1. misses' - evictions' = misses - evictions
    BY <1>1, <1>7 DEF Outcome, IsHit, IsEviction
  <2> QED BY <1>6, <1>7, <2>1
<1>8. CASE IsFill(x, k)
  BY <1>6, <1>8 DEF IsFill
<1>9. Valid(i, k) \/ IsFill(x, k)
  BY <1>1 DEF Outcome, IsHit, IsEviction
<1>10. ~(Valid(i, k) /\ IsFill(x, k))
  BY DEF IsFill
<1> QED BY <1>7, <1>8, <1>9, <1>10

----------------------------------------------------------------------------
(* A reference is a step through some line, and keeps the whole invariant. *)
LEMMA ReferenceStep ==
  ASSUME Ind, phase = "simulate", NEW a \in Addresses, ref_mem(a),
         Remember(a), UNCHANGED <<phase, input, config>>,
         again' \in {a, NoAddress}
  PROVE  /\ \E k \in LineIds : Step(BlockOf(a), k)
         /\ Ind'
<1>1. CacheInv /\ Cardinality(UsedLines) = misses - evictions
  BY DEF Ind, Configured
<1>2. Times /\ hits \in Nat /\ misses \in Nat /\ evictions \in Nat
  BY DEF Ind, TypeOK
<1>3. Shape /\ ConfigOK
  BY <1>1 DEF CacheInv, Shape
<1> PICK x \in Blocks : x = BlockOf(a)
  BY <1>3, Split
<1>4. PICK k \in LineIds : Used1(x, k) /\ Outcome(x, k)
  BY <1>3, RefEffect
<1>5. Step(x, k)
  BY <1>4 DEF Step, Remember
<1>6. Queues /\ Distinct /\ Ordered /\ Known /\ Covered
  BY <1>1 DEF CacheInv
<1>7. Shape'
  BY <1>3, <1>4, <1>6, StepState, Zenon
<1>8. Queues' /\ Distinct'
  BY <1>3, <1>5, <1>6, StepQueues, StepDistinct, Zenon
<1>9. Ordered' /\ Known'
  BY <1>1, <1>2, <1>5, StepOrdered, StepKnown, Zenon
<1>10. Covered' /\ InCache(x)'
  BY <1>1, <1>2, <1>5, StepCovered, Zenon
<1>11. again' # NoAddress => InCache(BlockOf(again))'
  <2>1. SUFFICES ASSUME again' # NoAddress PROVE InCache(BlockOf(again))'
    OBVIOUS
  <2>2. again' = a
    BY <2>1
  <2>3. BlockOf(again)' = x
    BY <2>2 DEF BlockOf
  <2>4. IndexOf(BlockOf(again))' = IndexOf(x)' /\ TagOf(BlockOf(again))' = TagOf(x)'
    BY <2>3, Zenon DEF IndexOf, TagOf
  <2> QED BY <1>10, <2>4, Zenon DEF InCache, Valid
<1>12. CacheInv'
  BY <1>7, <1>8, <1>9, <1>10, <1>11, Zenon DEF CacheInv
<1>13. Cardinality(UsedLines') = misses' - evictions'
  BY <1>1, <1>2, <1>5, StepUsedLines, Zenon
<1>14. hits' \in Nat /\ misses' \in Nat /\ evictions' \in Nat
  BY <1>2, <1>4 DEF Outcome, IsHit, IsFill, IsEviction
<1>15. /\ hits' + misses' = hits + misses + 1
        /\ hits + misses \in Nat
  <2>1. hits \in Nat /\ misses \in Nat
    BY <1>2
  <2> QED BY <1>4, <2>1 DEF Outcome, IsHit, IsFill, IsEviction
<1>16. Times'
  <2>1. last' \in [Blocks -> Nat] /\ last'[x] = hits + misses + 1
        /\ \A y \in Blocks \ {x} : last'[y] = last[y]
    BY <1>2, <1>3, <1>5, <1>6, StepTimes, Zenon
  <2>2. last \in [Blocks -> Nat] /\ \A y \in Blocks : last[y] <= hits + misses
    BY <1>2 DEF Times
  <2>3. \A y \in Blocks : last'[y] <= hits' + misses'
    <3> TAKE y \in Blocks
    <3>1. last[y] \in Nat /\ last[y] <= hits + misses
      BY <2>2
    <3>2. last'[y] = IF y = x THEN hits + misses + 1 ELSE last[y]
      BY <2>1
    <3> QED BY <1>15, <3>1, <3>2
  <2>4. Blocks' = Blocks
    BY DEF Blocks, Addresses
  <2> QED BY <2>1, <2>3, <2>4 DEF Times
<1>17. TypeOK'
  <2>1. sets' \in [SetIds -> Set]'
    BY <1>7 DEF Shape
  <2>2. /\ input' \in Inputs
        /\ phase' = "simulate"
        /\ config' \in [S : Nat, s : Nat, E : Nat, b : Nat]
        /\ again' \in Addresses \cup {NoAddress}
    BY DEF Ind, TypeOK
  <2> QED BY <1>14, <2>1, <2>2 DEF TypeOK, Addresses
<1>18. phase' = "simulate"
  OBVIOUS
<1> QED BY <1>5, <1>12, <1>13, <1>16, <1>17, <1>18 DEF Ind

(* An empty cache.                                                         *)
LEMMA AllocateStep ==
  ASSUME Ind, allocate_cache, UNCHANGED last
  PROVE  Ind'
<1>1. Fresh /\ ConfigOK /\ Times
  BY DEF Ind, allocate_cache
<1>2. UNCHANGED <<input, config, again, result, last>> /\ phase' = "simulate"
  BY DEF allocate_cache
<1>3. SetIds' = SetIds /\ LineIds' = LineIds
  BY <1>2 DEF SetIds, LineIds
<1>4. sets' = [i \in SetIds |->
                [lines     |-> [k \in LineIds |-> [valid |-> FALSE, tag |-> 0]],
                 lru_queue |-> [k \in LineIds |-> k]]]
  BY DEF allocate_cache
<1>5. \A i \in SetIds : /\ sets'[i].lru_queue = [k \in LineIds |-> k]
                        /\ \A l \in LineIds : ~ sets'[i].lines[l].valid
  BY <1>4
<1>6. sets' \in [SetIds -> Set]'
  <2>1. [k \in LineIds |-> [valid |-> FALSE, tag |-> 0]] \in [LineIds -> Line]
    BY DEF Line
  <2>2. [k \in LineIds |-> k] \in [LineIds -> LineIds]
    OBVIOUS
  <2>3. Set' = Set
    BY <1>3 DEF Set, Line
  <2> QED BY <1>3, <1>4, <2>1, <2>2, <2>3 DEF Set
<1>7. Shape'
  BY <1>1, <1>2, <1>6 DEF Shape, ConfigOK
<1>8. Queues'
  <2>1. ASSUME NEW i \in SetIds PROVE Perm(sets[i].lru_queue)'
    <3>1. Perm([k \in LineIds |-> k])
      BY DEF Perm
    <3>2. Perm(sets'[i].lru_queue)
      BY <1>5, <3>1
    <3> QED BY <1>3, <3>2, Zenon DEF Perm
  <2> QED BY <1>3, <2>1, Zenon DEF Queues
<1>9. \A i \in SetIds, l \in LineIds : ~ Valid(i, l)'
  BY <1>5 DEF Valid
<1>10. Distinct' /\ Known'
  BY <1>3, <1>9, Zenon DEF Distinct, Known
<1>11. Ordered'
  <2>1. \A i \in SetIds, k \in LineIds : sets'[i].lru_queue[k] \in LineIds
    BY <1>5
  <2>2. \A i \in SetIds, k \in LineIds : ~ Valid(i, sets[i].lru_queue[k])'
    BY <1>5, <2>1 DEF Valid
  <2> QED BY <1>3, <2>2, Zenon DEF Ordered
<1>12. Covered' /\ again' = NoAddress
  BY <1>1, <1>2 DEF Covered, Fresh, Blocks, Addresses
<1>13. CacheInv'
  BY <1>7, <1>8, <1>10, <1>11, <1>12, Zenon DEF CacheInv, NoAddress
<1>14. Cardinality(UsedLines') = misses' - evictions'
  <2>1. UsedLines' = {}
    BY <1>3, <1>9 DEF UsedLines, Valid
  <2> QED BY <1>1, <1>2, <2>1, FS_EmptySet DEF Fresh, result
<1>15. TypeOK'
  BY <1>2, <1>6 DEF Ind, TypeOK, result, Addresses
<1>16. Times'
  BY <1>1, <1>2 DEF Times, result, Blocks, Addresses
<1> QED BY <1>2, <1>13, <1>14, <1>15, <1>16 DEF Ind

(* The cache invariant speaks of the cache and the history alone.          *)
LEMMA CacheStutter ==
  ASSUME CacheInv, UNCHANGED <<config, sets, again, last>>
  PROVE  CacheInv'
<1>1. SetIds' = SetIds /\ LineIds' = LineIds /\ Blocks' = Blocks
  BY DEF SetIds, LineIds, Blocks, Addresses
<1>2. Shape'
  BY <1>1 DEF CacheInv, Shape, ConfigOK, Set, Line
<1>3. \A j, l : Valid(j, l)' = Valid(j, l) /\ BlockIn(j, l)' = BlockIn(j, l)
  BY Zenon DEF Valid, BlockIn
<1>4. \A q : Perm(q)' <=> Perm(q)
  BY <1>1 DEF Perm
<1>5. Queues'
  BY <1>1, <1>4 DEF CacheInv, Queues
<1>6. Distinct' /\ Ordered' /\ Known'
  BY <1>1, <1>3 DEF CacheInv, Distinct, Ordered, Known
<1>7. \A x : IndexOf(x)' = IndexOf(x) /\ TagOf(x)' = TagOf(x)
            /\ BlockOf(x)' = BlockOf(x)
  BY Zenon DEF IndexOf, TagOf, BlockOf
<1>8. \A x : (InCache(x) => InCache(x)') /\ (OlderThanAll(x) => OlderThanAll(x)')
  <2>1. ASSUME NEW x, InCache(x) PROVE InCache(x)'
    <3>1. PICK l \in LineIds : Valid(IndexOf(x), l)
                             /\ sets[IndexOf(x)].lines[l].tag = TagOf(x)
      BY <2>1 DEF InCache
    <3>2. Valid(IndexOf(x), l)' /\ sets'[IndexOf(x)'].lines[l].tag = TagOf(x)'
      BY <1>7, <3>1 DEF Valid
    <3> QED BY <1>1, <3>2, Zenon DEF InCache
  <2>2. ASSUME NEW x, OlderThanAll(x) PROVE OlderThanAll(x)'
    <3>1. ASSUME NEW l \in LineIds
          PROVE  Valid(IndexOf(x), l)' /\ last'[x] < last'[BlockIn(IndexOf(x), l)']
      <4>1. Valid(IndexOf(x), l) /\ last[x] < last[BlockIn(IndexOf(x), l)]
        BY <2>2 DEF OlderThanAll
      <4>2. Valid(IndexOf(x), l)'
        BY <1>7, <4>1 DEF Valid
      <4>3. BlockIn(IndexOf(x), l)' = BlockIn(IndexOf(x), l)
        BY <1>7, Zenon DEF BlockIn
      <4> QED BY <4>1, <4>2, <4>3
    <3> QED BY <1>1, <3>1, Zenon DEF OlderThanAll
  <2> QED BY <2>1, <2>2
<1>9. Covered'
  BY <1>1, <1>8 DEF CacheInv, Covered
<1>10. (again # NoAddress => InCache(BlockOf(again)))'
  <2>1. SUFFICES ASSUME again' # NoAddress PROVE InCache(BlockOf(again))'
    BY DEF NoAddress
  <2>2. InCache(BlockOf(again))
    BY <2>1 DEF CacheInv, NoAddress
  <2>3. PICK x : x = BlockOf(again)
    OBVIOUS
  <2>4. InCache(x)'
    BY <1>8, <2>2, <2>3
  <2>5. BlockOf(again)' = x
    BY <2>3 DEF BlockOf
  <2>6. IndexOf(BlockOf(again))' = IndexOf(x)' /\ TagOf(BlockOf(again))' = TagOf(x)'
    BY <2>5, Zenon DEF IndexOf, TagOf
  <2> QED BY <2>4, <2>6, Zenon DEF InCache, Valid
<1> QED BY <1>2, <1>5, <1>6, <1>9, <1>10, Zenon DEF CacheInv

(* The inductive invariant holds before the first reference.               *)
LEMMA IndInit == HInit => Ind
<1> SUFFICES ASSUME HInit PROVE Ind
  OBVIOUS
<1>1. Init /\ last = [x \in Blocks |-> 0]
  BY DEF HInit
<1>2. TypeOK
  BY <1>1 DEF Init, TypeOK, NoConfig, Configured
<1>3. Times
  BY <1>1 DEF Init, Times
<1> QED BY <1>1, <1>2, <1>3 DEF Ind, Init, Fresh, Configured

(* Every step of main and of a reference preserves the inductive           *)
(* invariant.                                                              *)
LEMMA IndNext == Ind /\ [HNext]_hvars => Ind'
<1> SUFFICES ASSUME Ind, [HNext]_hvars PROVE Ind'
  OBVIOUS
<1>1. ASSUME NEW op \in {"L", "S", "M"}, NEW a \in Addresses,
             Reference(op, a), Remember(a)
      PROVE  Ind'
  <2>1. /\ phase = "simulate" /\ ref_mem(a)
        /\ UNCHANGED <<phase, input, config>>
        /\ again' \in {a, NoAddress}
    BY <1>1 DEF Reference
  <2> QED BY <1>1, <2>1, ReferenceStep
<1>2. CASE ReferenceAgain /\ Remember(again)
  <2>1. /\ phase = "simulate" /\ ref_mem(again)
        /\ UNCHANGED <<phase, input, config>>
        /\ again' = NoAddress
        /\ again \in Addresses
    BY <1>2 DEF ReferenceAgain, Ind, TypeOK
  <2> PICK a \in Addresses : a = again
    BY <2>1
  <2>2. ref_mem(a) /\ Remember(a)
    BY <1>2, <2>1
  <2> QED BY <2>1, <2>2, ReferenceStep
<1>3. CASE allocate_cache /\ UNCHANGED last
  BY <1>3, AllocateStep
<1>4. CASE build_config /\ UNCHANGED last
  <2>1. /\ phase = "build" /\ ~Refused /\ pow2(input.s) # -1
        /\ config' = [S |-> pow2(input.s), s |-> input.s,
                      E |-> input.E, b |-> input.b]
        /\ phase' = "allocate"
        /\ UNCHANGED <<input, sets, again, result, last>>
        /\ Fresh /\ Times /\ TypeOK
    BY <1>4 DEF build_config, Ind
  <2>2. input.s \in Int /\ input.E \in Int \ {0} /\ input.b \in Int
    BY <2>1, InputsAssumption DEF TypeOK
  <2>3. input.s \in 0 .. 30 /\ input.E \in Nat \ {0} /\ input.b \in Nat
    BY <2>1, <2>2 DEF Refused, pow2
  <2>4. pow2(input.s) = 2 ^ input.s /\ 2 ^ input.s \in Nat \ {0}
    BY <2>3, PowerOfTwo DEF pow2
  <2>5. ConfigOK'
    BY <2>1, <2>3, <2>4 DEF ConfigOK
  <2>6. TypeOK'
    BY <2>1, <2>3, <2>4 DEF TypeOK, Configured, result, Addresses
  <2> QED BY <2>1, <2>5, <2>6 DEF Ind, Configured, Fresh, Times, result,
                                  Blocks, Addresses
<1>5. CASE parse_input /\ UNCHANGED last
  BY <1>5 DEF parse_input, Ind, TypeOK, Configured, Fresh, Times, result, Blocks,
              Addresses, Refused
<1>6. ASSUME UNCHANGED <<input, config, sets, again, result, last>>,
             phase' \in {"usage", "failed"}
      PROVE  Ind'
  BY <1>6 DEF Ind, TypeOK, Configured, Times, result, Blocks, Addresses
<1>7. CASE printSummary /\ UNCHANGED last
  <2>1. /\ phase = "simulate" /\ phase' = "summary"
        /\ UNCHANGED <<input, config, sets, again, result, last>>
    BY <1>7 DEF printSummary
  <2>2. CacheInv /\ Cardinality(UsedLines) = misses - evictions
    BY <2>1 DEF Ind, Configured
  <2>3. CacheInv'
    BY <2>1, <2>2, CacheStutter DEF result
  <2>4. UsedLines' = UsedLines
    BY <2>1 DEF UsedLines, Valid, SetIds, LineIds
  <2>5. TypeOK' /\ Times'
    BY <2>1 DEF Ind, TypeOK, Times, Configured, SetIds, LineIds, Set, Line,
         result, Blocks, Addresses
  <2> QED BY <2>1, <2>2, <2>3, <2>4, <2>5 DEF Ind, result
<1>8. CASE UNCHANGED hvars
  <2>1. /\ UNCHANGED <<phase, input, config, sets, again, last>>
        /\ hits' = hits /\ misses' = misses /\ evictions' = evictions
    BY <1>8 DEF hvars, vars, result
  <2>2. Configured' = Configured
    BY <2>1 DEF Configured
  <2>3. CacheInv => CacheInv'
    BY <2>1, CacheStutter
  <2>4. UsedLines' = UsedLines
    BY <2>1 DEF UsedLines, Valid, SetIds, LineIds
  <2>5. TypeOK' /\ Times'
    BY <2>1 DEF Ind, TypeOK, Times, Configured, SetIds, LineIds, Set, Line,
         Blocks, Addresses
  <2>6. (Fresh => Fresh') /\ (Refused' = Refused) /\ (ConfigOK => ConfigOK')
    BY <2>1 DEF Fresh, Refused, ConfigOK, Blocks, Addresses
  <2> QED BY <2>1, <2>2, <2>3, <2>4, <2>5, <2>6 DEF Ind
<1> QED BY <1>1, <1>2, <1>3, <1>4, <1>5, <1>6, <1>7, <1>8
        DEF HNext, hvars, vars, Usage, TooManySets, MallocFails, FopenFails, Fail,
            Ended

(* The inductive invariant holds of every reachable state.                 *)
THEOREM Inductive == HSpec => []Ind
BY IndInit, IndNext, PTL DEF HSpec

----------------------------------------------------------------------------
(* Type correctness, for every set of command lines and every trace.       *)
THEOREM TypeCorrect == HSpec => []TypeOK
<1>1. Ind => TypeOK
  BY DEF Ind
<1> QED BY <1>1, Inductive, PTL

(* No queue ever loses or repeats a line, so index_of stops in time.       *)
THEOREM QueuesComplete == HSpec => []QueueIsPermutation
<1>1. ASSUME Ind PROVE QueueIsPermutation
  <2>1. SUFFICES ASSUME Configured, NEW i \in SetIds, NEW line \in LineIds
                 PROVE  \E k \in LineIds :
                          /\ sets[i].lru_queue[k] = line
                          /\ \A j \in LineIds \ {k} : sets[i].lru_queue[j] # line
    BY DEF QueueIsPermutation
  <2>2. Perm(sets[i].lru_queue)
    BY <1>1, <2>1 DEF Ind, CacheInv, Queues
  <2> QED BY <2>2 DEF Perm
<1> QED BY <1>1, Inductive, PTL

(* A block is cached at most once.                                         *)
THEOREM BlocksCachedOnce == HSpec => []OneLinePerBlock
<1>1. Ind => OneLinePerBlock
  BY Zenon DEF Ind, CacheInv, Distinct, OneLinePerBlock, Valid
<1> QED BY <1>1, Inductive, PTL

(* The queues are sorted by the age of the blocks.                         *)
THEOREM QueuesSortedByAge == HSpec => []QueueOrderedByAge
<1>1. ASSUME Ind PROVE QueueOrderedByAge
  <2>1. Configured => Ordered
    BY <1>1 DEF Ind, CacheInv
  <2> QED BY <2>1 DEF QueueOrderedByAge, Ordered, Valid
<1> QED BY <1>1, Inductive, PTL

(* Misses are evictions or lines in use.                                   *)
THEOREM MissesAddUp == HSpec => []MissesAccountedFor
<1>1. ASSUME Ind PROVE MissesAccountedFor
  <2>1. Configured => Cardinality(UsedLines) = misses - evictions
    BY <1>1 DEF Ind
  <2>2. UsedLines = {l \in SetIds \X LineIds : sets[l[1]].lines[l[2]].valid}
    BY DEF UsedLines, Valid
  <2> QED BY <2>1, <2>2, Zenon DEF MissesAccountedFor
<1> QED BY <1>1, Inductive, PTL

(* The second reference of a modify hits.                                  *)
THEOREM ModifiesHit == HSpec => ModifyHits
<1>1. ASSUME Ind, [HNext]_hvars, again # NoAddress, again' = NoAddress
      PROVE  hits' = hits + 1
  <2>1. ReferenceAgain /\ Remember(again)
    BY <1>1 DEF HNext, hvars, vars, Reference, parse_input, Usage, build_config,
         TooManySets, allocate_cache, MallocFails, FopenFails, printSummary,
         Fail, Ended
  <2>2. /\ phase = "simulate" /\ ref_mem(again)
        /\ UNCHANGED <<phase, input, config>>
        /\ again \in Addresses
    BY <1>1, <2>1 DEF ReferenceAgain, Ind, TypeOK
  <2> PICK a \in Addresses : a = again
    BY <2>2
  <2>3. ref_mem(a) /\ Remember(a) /\ again' \in {a, NoAddress}
    BY <1>1, <2>1, <2>2
  <2>4. PICK k \in LineIds : Step(BlockOf(a), k)
    BY <1>1, <2>2, <2>3, ReferenceStep
  <2>5. InCache(BlockOf(a))
    BY <1>1, <2>2 DEF Ind, CacheInv, Configured
  <2> QED BY <2>4, <2>5 DEF Step, Outcome, IsHit, IsFill, IsEviction
<1>2. Ind /\ [HNext]_hvars
        => [again # NoAddress /\ again' = NoAddress => hits' = hits + 1]_hvars
  BY <1>1
<1> QED BY <1>2, Inductive, PTL DEF HSpec, ModifyHits

----------------------------------------------------------------------------
(* The blocks in the lines of one set, counted.                            *)
LEMMA CachedBlocks ==
  ASSUME CacheInv, NEW i \in SetIds
  PROVE  LET V == {l \in LineIds : Valid(i, l)}
             C == {BlockIn(i, l) : l \in V}
         IN  /\ IsFiniteSet(C) /\ Cardinality(C) \in Nat
             /\ Cardinality(C) <= config.E
             /\ V # LineIds => Cardinality(C) < config.E
             /\ V = LineIds => Cardinality(C) = config.E
<1> DEFINE V == {l \in LineIds : Valid(i, l)}
           C == {BlockIn(i, l) : l \in V}
<1>1. config.E \in Nat \ {0}
  BY DEF CacheInv, Shape, ConfigOK
<1>2. IsFiniteSet(LineIds) /\ Cardinality(LineIds) = config.E
  <2>1. config.E - 1 \in Int /\ 0 \in Int
    BY <1>1
  <2>2. IsFiniteSet(0 .. config.E - 1)
        /\ Cardinality(0 .. config.E - 1)
              = IF 0 > config.E - 1 THEN 0 ELSE config.E - 1 - 0 + 1
    BY <2>1, FS_Interval, Zenon
  <2> QED BY <1>1, <2>2 DEF LineIds
<1>3. V \in SUBSET LineIds
  OBVIOUS
<1>4. /\ IsFiniteSet(V) /\ Cardinality(V) <= config.E
      /\ Cardinality(LineIds) = Cardinality(V) => LineIds = V
  BY <1>2, <1>3, FS_Subset
<1>5. \A l, m \in V : BlockIn(i, l) = BlockIn(i, m) => l = m
  <2>1. \A l \in V : TagOf(BlockIn(i, l)) = sets[i].lines[l].tag
    BY LineOfBlock DEF CacheInv
  <2> QED BY <2>1 DEF CacheInv, Distinct
<1>6. ExistsBijection(V, C)
  <2> DEFINE f == [l \in V |-> BlockIn(i, l)]
  <2> HIDE DEF V
  <2>1. f \in [V -> C]
    OBVIOUS
  <2>2. \A l, m \in V : f[l] = f[m] => l = m
    BY <1>5
  <2>3. \A y \in C : \E l \in V : f[l] = y
    OBVIOUS
  <2> HIDE DEF f, C
  <2>4. f \in Bijection(V, C)
    BY <2>1, <2>2, <2>3 DEF Bijection, Injection, Surjection, IsInjective
  <2> QED BY <2>4 DEF ExistsBijection
<1> HIDE DEF V, C
<1>7. IsFiniteSet(C) /\ Cardinality(C) = Cardinality(V)
  BY <1>4, <1>6, FS_Bijection
<1>8. Cardinality(V) \in Nat
  BY <1>4, FS_CardinalityType
<1>9. V # LineIds => Cardinality(V) < config.E
  BY <1>1, <1>2, <1>4, <1>8
<1> QED BY <1>2, <1>4, <1>7, <1>8, <1>9 DEF V, C

(* The abstract specification counts as this module does.                  *)
LEMMA SameCardinality == \A T : Cache!Cardinality(T) = Cardinality(T)
BY Zenon DEF Cache!Cardinality, Cardinality, Cache!IsFiniteSet, IsFiniteSet

(* The cache holds exactly what least-recently-used replacement, defined   *)
(* by the times of use, would hold.                                        *)
LEMMA Recency ==
  ASSUME CacheInv, Times, NEW x \in Blocks
  PROVE  /\ InCache(x) <=> Cache!Cached(x)
         /\ ~InCache(x) => (Cardinality(Cache!Used(x)) < config.E
                              <=> \E l \in LineIds : ~Valid(IndexOf(x), l))
<1> PICK i \in SetIds : i = IndexOf(x)
  BY Split DEF CacheInv, Shape
<1> DEFINE V == {l \in LineIds : Valid(i, l)}
           C == {BlockIn(i, l) : l \in V}
           U == Cache!Used(x)
           R == Cache!UsedSince(x)
<1>1. /\ IsFiniteSet(C) /\ Cardinality(C) \in Nat
      /\ Cardinality(C) <= config.E
      /\ V # LineIds => Cardinality(C) < config.E
      /\ V = LineIds => Cardinality(C) = config.E
  BY CachedBlocks, Zenon
<1>2. U = {y \in Blocks : IndexOf(y) = i /\ last[y] > 0}
  <2>1. \A y \in Blocks : IndexOf(y) = y % config.S
    BY Split DEF CacheInv, Shape
  <2> QED BY <2>1 DEF Cache!Used
<1>3. R = {y \in U : last[y] > last[x]}
  BY DEF Cache!UsedSince
<1>4. Cache!Cached(x) <=> last[x] > 0 /\ Cardinality(R) < config.E
  BY SameCardinality, Zenon DEF Cache!Cached
<1>5. \A y \in Blocks : last[y] \in Nat
  BY DEF Times
<1>6. config.E \in Nat \ {0}
  BY DEF CacheInv, Shape, ConfigOK
<1>7. IsFiniteSet(U) /\ IsFiniteSet(R) /\ Cardinality(U) \in Nat /\ Cardinality(R) \in Nat
  <2>1. IsFiniteSet(Blocks)
    BY MaxAddressAssumption, FS_Interval DEF Blocks, Addresses
  <2>2. U \in SUBSET Blocks /\ R \in SUBSET Blocks
    BY <1>2, <1>3
  <2> HIDE DEF U, R
  <2> QED BY <2>1, <2>2, FS_Subset, FS_CardinalityType
<1>8. C \subseteq U
  <2>1. \A l \in V : BlockIn(i, l) \in Blocks /\ last[BlockIn(i, l)] > 0
    BY DEF CacheInv, Known
  <2>2. \A l \in V : IndexOf(BlockIn(i, l)) = i
    BY LineOfBlock DEF CacheInv
  <2> QED BY <1>2, <2>1, <2>2
<1>9. \A y \in Blocks : InCache(y) /\ IndexOf(y) = i => y \in C
  <2> TAKE y \in Blocks
  <2> HAVE InCache(y) /\ IndexOf(y) = i
  <2>1. PICK l \in LineIds : Valid(i, l) /\ sets[i].lines[l].tag = TagOf(y)
    BY DEF InCache
  <2>2. BlockIn(i, l) = y
    BY <2>1, LineOfBlock DEF CacheInv
  <2> QED BY <2>1, <2>2
<1>10. \A y \in U \ C : V = LineIds /\ \A z \in C : last[y] < last[z]
  <2> TAKE y \in U \ C
  <2>1. y \in Blocks /\ IndexOf(y) = i /\ last[y] > 0
    BY <1>2
  <2>2. OlderThanAll(y)
    BY <1>9, <2>1 DEF CacheInv, Covered
  <2> QED BY <2>1, <2>2 DEF OlderThanAll
<1>11. x \in C => InCache(x)
  <2> HAVE x \in C
  <2>1. PICK l \in V : BlockIn(i, l) = x
    OBVIOUS
  <2>2. sets[i].lines[l].tag = TagOf(x)
    BY <2>1, LineOfBlock DEF CacheInv
  <2> QED BY <2>1, <2>2 DEF InCache
<1>12. (V = LineIds) <=> ~ \E l \in LineIds : ~Valid(i, l)
  OBVIOUS
<1>13. \A y \in U : y \in Blocks /\ last[y] > 0 /\ last[y] \in Nat
  BY <1>2, <1>5
<1>14. last[x] > 0 => x \in U
  BY <1>2
<1> HIDE DEF U, C, V, R
<1>15. ASSUME InCache(x) PROVE Cache!Cached(x)
  <2>1. x \in C
    BY <1>9, <1>15
  <2>2. R \subseteq C \ {x}
    <3>1. ASSUME NEW y \in R PROVE y \in C /\ y # x
      <4>1. y \in U /\ last[y] > last[x]
        BY <1>3, <3>1
      <4>2. y # x
        BY <1>5, <4>1
      <4>3. last[y] \in Nat /\ last[x] \in Nat
        BY <1>5, <1>13, <4>1
      <4>4. y \in C
        BY <1>10, <2>1, <4>1, <4>3
      <4> QED BY <4>2, <4>4
    <3> QED BY <3>1
  <2>3. IsFiniteSet(C \ {x}) /\ Cardinality(C \ {x}) = Cardinality(C) - 1
    BY <1>1, <2>1, FS_RemoveElement
  <2>4. Cardinality(R) <= Cardinality(C \ {x})
    BY <2>2, <2>3, FS_Subset
  <2>5. Cardinality(R) < config.E
    BY <1>1, <1>6, <1>7, <2>3, <2>4
  <2> QED BY <1>4, <1>8, <1>13, <2>1, <2>5
<1>16. ASSUME ~InCache(x) PROVE ~Cache!Cached(x)
  <2>1. SUFFICES ASSUME last[x] > 0 PROVE ~(Cardinality(R) < config.E)
    BY <1>4
  <2>2. x \in U \ C
    BY <1>11, <1>14, <1>16, <2>1
  <2>3. V = LineIds /\ \A z \in C : last[x] < last[z]
    BY <1>10, <2>2
  <2>4. C \in SUBSET R
    <3>1. \A z \in C : z \in U /\ last[z] > last[x]
      BY <1>5, <1>8, <1>13, <2>3
    <3> QED BY <1>3, <3>1
  <2>5. Cardinality(C) <= Cardinality(R)
    BY <1>7, <2>4, FS_Subset
  <2> QED BY <1>1, <1>6, <1>7, <2>3, <2>5
<1>17. ASSUME ~InCache(x), V # LineIds PROVE Cardinality(U) < config.E
  <2>1. U = C
    BY <1>8, <1>10, <1>17
  <2> QED BY <1>1, <1>17, <2>1
<1>18. ASSUME V = LineIds PROVE ~(Cardinality(U) < config.E)
  <2>1. Cardinality(C) <= Cardinality(U)
    BY <1>7, <1>8, FS_Subset
  <2> QED BY <1>1, <1>6, <1>7, <1>18, <2>1
<1> QED BY <1>12, <1>15, <1>16, <1>17, <1>18 DEF U

(* The hits, misses and evictions the simulator counts are those of        *)
(* least-recently-used replacement, for every geometry and every trace.    *)
THEOREM Refinement == HSpec => ImplementsLRU
<1>1. HInit => Cache!Init
  BY DEF HInit, Init, NoConfig, Cache!Init
<1>2. ASSUME Ind, NEW a \in Addresses, phase = "simulate", ref_mem(a),
             Remember(a), UNCHANGED <<phase, input, config>>,
             again' \in {a, NoAddress}
      PROVE  Cache!Next
  <2>1. CacheInv /\ Times /\ ConfigOK
    BY <1>2 DEF Ind, Configured, CacheInv, Shape
  <2> PICK x \in Blocks : x = BlockOf(a)
    BY <2>1, Split
  <2>2. PICK k \in LineIds : Step(x, k)
    BY <1>2, ReferenceStep
  <2>3. /\ config' = config /\ config.S > 0
        /\ last' = [last EXCEPT ![x] = hits + misses + 1]
    BY <2>1, <2>2 DEF Step, ConfigOK
  <2>4. /\ InCache(x) <=> Cache!Cached(x)
        /\ ~InCache(x) => (Cardinality(Cache!Used(x)) < config.E
                             <=> \E l \in LineIds : ~Valid(IndexOf(x), l))
    BY <2>1, Recency, Zenon
  <2>5. IsHit(x, k) \/ IsFill(x, k) \/ IsEviction(x, k)
    BY <2>2 DEF Step, Outcome
  <2>6. CASE IsHit(x, k)
    <3>1. InCache(x) /\ hits' = hits + 1 /\ misses' = misses /\ evictions' = evictions
      BY <2>6 DEF IsHit, InCache
    <3>2. Cache!Access(x)
      BY <2>3, <2>4, <3>1 DEF Cache!Access
    <3> QED BY <3>2 DEF Cache!Next
  <2>7. CASE IsFill(x, k)
    <3>1. /\ ~InCache(x)
          /\ hits' = hits /\ misses' = misses + 1 /\ evictions' = evictions
          /\ \E l \in LineIds : ~Valid(IndexOf(x), l)
      BY <2>7 DEF IsFill
    <3>2. ~Cache!Cached(x) /\ Cardinality(Cache!Used(x)) < config.E
      BY <2>4, <3>1, Zenon
    <3>3. evictions' = IF Cardinality(Cache!Used(x)) < config.E
                       THEN evictions ELSE evictions + 1
      BY <3>1, <3>2
    <3>4. UNCHANGED hits /\ config'.S = config.S /\ config'.E = config.E
      BY <2>3, <3>1
    <3>5. Cache!Access(x)
      BY <2>3, <3>1, <3>2, <3>3, <3>4, SameCardinality, Zenon DEF Cache!Access
    <3> QED BY <3>5 DEF Cache!Next
  <2>8. CASE IsEviction(x, k)
    <3>1. /\ ~InCache(x)
          /\ hits' = hits /\ misses' = misses + 1 /\ evictions' = evictions + 1
          /\ ~ \E l \in LineIds : ~Valid(IndexOf(x), l)
      BY <2>8 DEF IsEviction
    <3>2. ~Cache!Cached(x) /\ ~(Cardinality(Cache!Used(x)) < config.E)
      BY <2>4, <3>1, Zenon
    <3>3. evictions' = IF Cardinality(Cache!Used(x)) < config.E
                       THEN evictions ELSE evictions + 1
      BY <3>1, <3>2
    <3>4. UNCHANGED hits /\ config'.S = config.S /\ config'.E = config.E
      BY <2>3, <3>1
    <3>5. Cache!Access(x)
      BY <2>3, <3>1, <3>2, <3>3, <3>4, SameCardinality, Zenon DEF Cache!Access
    <3> QED BY <3>5 DEF Cache!Next
  <2> QED BY <2>5, <2>6, <2>7, <2>8
<1>3. ASSUME Ind, HNext PROVE Cache!Next \/ UNCHANGED Cache!vars
  <2>1. ASSUME NEW op \in {"L", "S", "M"}, NEW a \in Addresses,
               Reference(op, a), Remember(a)
        PROVE  Cache!Next
    <3>1. /\ phase = "simulate" /\ ref_mem(a)
          /\ UNCHANGED <<phase, input, config>>
          /\ again' \in {a, NoAddress}
      BY <2>1 DEF Reference
    <3> QED BY <1>2, <1>3, <2>1, <3>1
  <2>2. CASE ReferenceAgain /\ Remember(again)
    <3>1. /\ phase = "simulate" /\ ref_mem(again)
          /\ UNCHANGED <<phase, input, config>>
          /\ again' = NoAddress
          /\ again \in Addresses
      BY <1>3, <2>2 DEF ReferenceAgain, Ind, TypeOK
    <3> PICK a \in Addresses : a = again
      BY <3>1
    <3>2. ref_mem(a) /\ Remember(a)
      BY <2>2, <3>1
    <3> QED BY <1>2, <1>3, <3>1, <3>2
  <2>3. CASE build_config /\ UNCHANGED last
    <3>1. /\ config = NoConfig
          /\ config' = [S |-> pow2(input.s), s |-> input.s,
                        E |-> input.E, b |-> input.b]
          /\ UNCHANGED <<hits, misses, evictions, last>>
      BY <1>3, <2>3 DEF build_config, Ind, result
    <3>2. Ind' /\ phase' = "allocate"
      BY <1>3, <2>3, IndNext DEF build_config, HNext
    <3>3. config'.S \in Nat \ {0} /\ config'.E \in Nat \ {0}
      BY <3>2 DEF Ind, ConfigOK
    <3>4. Cache!Configure
      BY <3>1, <3>3 DEF Cache!Configure, NoConfig
    <3> QED BY <3>4 DEF Cache!Next
  <2>4. CASE UNCHANGED <<config, last, hits, misses, evictions>>
    BY <2>4 DEF Cache!vars
  <2> QED BY <1>3, <2>1, <2>2, <2>3, <2>4
          DEF HNext, vars, parse_input, Usage, TooManySets, allocate_cache,
              MallocFails, FopenFails, printSummary, Fail, Ended, result
<1>4. Ind /\ [HNext]_hvars => [Cache!Next]_(Cache!vars)
  BY <1>3 DEF hvars, vars, result, Cache!vars
<1> QED BY <1>1, <1>4, Inductive, PTL DEF HSpec, ImplementsLRU, Cache!Spec
============================================================================
