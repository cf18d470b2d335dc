----------------------------- MODULE MdriverProofs --------------------------
(***************************************************************************)
(* The allocator under the driver, for memories of any size, any ids, any  *)
(* sizes and traces of any length: proofs of the properties that the run   *)
(* of module MdriverProperties checks.                                     *)
(***************************************************************************)
EXTENDS MdriverProperties, MmProofs

----------------------------------------------------------------------------
(* A consistent heap has one set of blocks, which mm_check finds.          *)

(* Its blocks, allocated and free.                                         *)
Live(h)   == Taken(h, HeapBlocks(h))
Unused(h) == FreeOf(h, HeapBlocks(h))

Sane(h) == Good(h, HeapBlocks(h))

(* Two heaps that differ in their payloads only.                           *)
Same(h, g) == Alike(h, g, HeapBlocks(h), Unused(h))

(* new has the allocated blocks T, and those of K have their words.        *)
Turns(h, new, T, K) == Sane(new) /\ Live(new) = T /\ Kept(h, new, K)

(* The blocks of a consistent heap are the ones that mm_check walks over.  *)
LEMMA SaneIs ==
  ASSUME NEW h, NEW B, Good(h, B)
  PROVE  HeapBlocks(h) = B /\ Sane(h) /\ Live(h) = Taken(h, B) /\ Unused(h) = FreeOf(h, B)
<1>1. HeapBlocks(h) = B
  BY HeapBlocksIs
<1> QED BY <1>1 DEF Sane, Live, Unused

(* The results of the allocator's operations are consistent heaps.         *)
LEMMA TurnsIs ==
  ASSUME NEW h, NEW new, NEW C, NEW T, NEW K, Becomes(h, new, C, T, K)
  PROVE  Turns(h, new, T, K)
<1>1. Good(new, C) /\ Taken(new, C) = T /\ Kept(h, new, K)
  BY DEF Becomes
<1>2. Sane(new) /\ Live(new) = Taken(new, C)
  BY <1>1, SaneIs
<1> QED BY <1>1, <1>2 DEF Turns

(* Heaps that are alike in the blocks C are the same.                      *)
LEMMA SameIs ==
  ASSUME NEW h, NEW C, Good(h, C), NEW g, Alike(h, g, C, FreeOf(h, C))
  PROVE  Same(h, g)
BY SaneIs DEF Same

(* Where allocated blocks are.                                             *)
LEMMA LiveType ==
  ASSUME NEW h, Sane(h)
  PROVE  /\ h \in Heap /\ h.brk \in Int /\ 4 <= h.brk /\ h.brk <= MAX_HEAP /\ MAX_HEAP \in Int
         /\ NULL \notin Live(h)
         /\ \A b \in Live(h) :
              /\ b \in Int /\ 4 <= b /\ (b % 2) = 0 /\ b \in Words
              /\ Size(h, b) \in Int /\ Size(h, b) >= 4 /\ b + Size(h, b) <= h.brk
<1>1. h \in Heap /\ Tiled(h, HeapBlocks(h))
  BY DEF Sane, Good, Laid
<1>2. Live(h) \subseteq HeapBlocks(h)
  BY DEF Live, Taken
<1>3. /\ h.brk \in Int /\ 4 <= h.brk /\ h.brk <= MAX_HEAP /\ MAX_HEAP \in Int
      /\ \A b \in HeapBlocks(h) :
           /\ b \in Int /\ 4 <= b /\ (b % 2) = 0 /\ b \in Words
           /\ Size(h, b) \in Int /\ Size(h, b) >= 4 /\ b + Size(h, b) <= h.brk
  BY <1>1, TiledApart
<1>4. NULL \notin HeapBlocks(h)
  BY <1>3 DEF NULL
<1> QED BY <1>1, <1>2, <1>3, <1>4

(* No two of them overlap.                                                 *)
LEMMA LiveApart ==
  ASSUME NEW h, Sane(h), NEW a \in Live(h), NEW b \in Live(h), a # b
  PROVE  a + Size(h, a) <= b \/ b + Size(h, b) <= a
<1>1. Tiled(h, HeapBlocks(h))
  BY DEF Sane, Good, Laid
<1>2. \A c, d \in HeapBlocks(h) : c < d => c + Size(h, c) <= d
  BY <1>1 DEF Tiled, Tiles
<1>3. a \in HeapBlocks(h) /\ b \in HeapBlocks(h) /\ a \in Int /\ b \in Int
  BY LiveType DEF Live, Taken
<1> QED BY <1>2, <1>3

(* The same heaps have the same blocks.                                    *)
LEMMA SameSane ==
  ASSUME NEW h, Sane(h), NEW g, Same(h, g)
  PROVE  /\ Sane(g) /\ Live(g) = Live(h) /\ g.brk = h.brk
         /\ \A b \in Live(h) : Size(g, b) = Size(h, b)
<1>1. /\ Good(g, HeapBlocks(h)) /\ SameTags(h, g, HeapBlocks(h))
      /\ Taken(g, HeapBlocks(h)) = Taken(h, HeapBlocks(h))
  BY GoodAlike DEF Sane, Same, Unused
<1>2. Sane(g) /\ Live(g) = Taken(g, HeapBlocks(h))
  BY <1>1, SaneIs
<1>3. Live(g) = Live(h)
  BY <1>1, <1>2 DEF Live
<1>4. \A b \in Live(h) : b \in HeapBlocks(h)
  BY DEF Live, Taken
<1> QED BY <1>1, <1>2, <1>3, <1>4 DEF SameTags

----------------------------------------------------------------------------
(* The allocator's operations on consistent heaps.                         *)

(* No free block has room for the request.                                 *)
NoRoom(h, size) == Full(h, HeapBlocks(h), AdjustedSize(size))

(* Nor can the heap grow by what mm_malloc asks for.                       *)
Exhausted(h, size) == NoRoom(h, size) /\ ~ CanSbrk(h, More(AdjustedSize(size)))

(* The answer r has a block for the request, large enough and instead of   *)
(* bp, if that is one; the heap grows only if it has to.                   *)
Gives(h, bp, size, r) ==
  /\ Turns(h, r.heap, (Live(h) \ {bp}) \cup {r.ptr}, Live(h) \ {bp})
  /\ r.ptr \in Int \ {NULL} /\ r.ptr \notin Live(h) \ {bp}
  /\ Size(r.heap, r.ptr) >= AdjustedSize(size)
  /\ h.brk <= r.heap.brk
  /\ h.brk < r.heap.brk => NoRoom(h, size)

(* mm_malloc gives a block or fails, and changes nothing then.             *)
LEMMA MallocSane ==
  ASSUME NEW h, Sane(h), NEW size \in Nat \ {0}
  PROVE  \/ Exhausted(h, size) /\ mm_malloc(h, size) = Result(h, NULL)
         \/ Gives(h, NULL, size, mm_malloc(h, size))
<1> DEFINE B == HeapBlocks(h)
           asize == AdjustedSize(size)
           r == mm_malloc(h, size)
           C == MallocBlocks(h, B, asize)
<1>1. Fails(h, B, asize, r) \/ Allocates(h, B, asize, r, C)
  BY MallocGood DEF Sane
<1> HIDE DEF r, C
<1>2. CASE Fails(h, B, asize, r)
  BY <1>2 DEF Fails, Exhausted, NoRoom, r
<1>3. CASE Allocates(h, B, asize, r, C)
  <2>1. Turns(h, r.heap, Taken(h, B) \cup {r.ptr}, Taken(h, B))
    BY <1>3, TurnsIs DEF Allocates
  <2>2. Live(h) = Taken(h, B) /\ Live(h) \ {NULL} = Live(h)
    BY LiveType DEF Live
  <2>3. Gives(h, NULL, size, r)
    BY <1>3, <2>1, <2>2 DEF Gives, Allocates, NoRoom
  <2> QED BY <2>3 DEF r
<1> QED BY <1>1, <1>2, <1>3

(* A request of no words is refused.                                       *)
LEMMA MallocZero ==
  ASSUME NEW h
  PROVE  mm_malloc(h, 0) = Result(h, NULL)
BY DEF mm_malloc

(* mm_free takes the block away.                                           *)
LEMMA FreeSane ==
  ASSUME NEW h, Sane(h), NEW bp \in Live(h)
  PROVE  /\ Turns(h, mm_free(h, bp), Live(h) \ {bp}, Live(h) \ {bp})
         /\ mm_free(h, bp).brk = h.brk
<1> DEFINE B == HeapBlocks(h)
<1>1. Good(h, B) /\ bp \in Taken(h, B) /\ Live(h) = Taken(h, B)
  BY DEF Sane, Live
<1>2. /\ Becomes(h, mm_free(h, bp), FreedBlocks(h, B, bp),
                 Taken(h, B) \ {bp}, Taken(h, B) \ {bp})
      /\ SameTags(h, mm_free(h, bp), {})
  BY <1>1, FreeGood
<1>3. Turns(h, mm_free(h, bp), Taken(h, B) \ {bp}, Taken(h, B) \ {bp})
  BY <1>2, TurnsIs
<1> QED BY <1>1, <1>2, <1>3 DEF SameTags

(* mm_realloc gives a block with the data of the old one, or dies, unless  *)
(* it takes the branch that destroys the heap.                             *)
LEMMA ReallocSane ==
  ASSUME NEW h, Sane(h), NEW bp \in Live(h), NEW size \in Nat \ {0},
         ~ SplitsBoth(h, bp, size)
  PROVE  \/ Exhausted(h, size) /\ mm_realloc(h, bp, size) = Result(h, Fault)
         \/ /\ Gives(h, bp, size, mm_realloc(h, bp, size))
            /\ Copied(h, bp, size, mm_realloc(h, bp, size).heap, mm_realloc(h, bp, size).ptr)
<1> DEFINE B == HeapBlocks(h)
           r == mm_realloc(h, bp, size)
           C == ReallocBlocks(h, B, bp, size)
<1>1. Good(h, B) /\ bp \in Taken(h, B) /\ Live(h) = Taken(h, B)
  BY DEF Sane, Live
<1>2. Faults(h, B, bp, size, r) \/ Regrants(h, B, bp, size, r, C)
  BY <1>1, ReallocGood
<1> HIDE DEF r, C
<1>3. CASE Faults(h, B, bp, size, r)
  BY <1>3 DEF Faults, Fails, Exhausted, NoRoom, r
<1>4. CASE Regrants(h, B, bp, size, r, C)
  <2>1. Turns(h, r.heap, (Taken(h, B) \ {bp}) \cup {r.ptr}, Taken(h, B) \ {bp})
    BY <1>4, TurnsIs DEF Regrants
  <2>2. Gives(h, bp, size, r) /\ Copied(h, bp, size, r.heap, r.ptr)
    BY <1>1, <1>4, <2>1 DEF Gives, Regrants, NoRoom
  <2> QED BY <2>2 DEF r
<1> QED BY <1>2, <1>3, <1>4

(* A realloc to no words frees the block.                                  *)
LEMMA ReallocZero ==
  ASSUME NEW h, NEW bp, bp # NULL
  PROVE  mm_realloc(h, bp, 0) = Result(mm_free(h, bp), bp)
BY DEF mm_realloc

(* Filling a payload disturbs no other.                                    *)
LEMMA FillSane ==
  ASSUME NEW h, Sane(h), NEW b \in Live(h), NEW g, Fills(h, g, b)
  PROVE  /\ Turns(h, g, Live(h), Live(h) \ {b})
         /\ g.brk = h.brk /\ \A c \in Live(h) : Size(g, c) = Size(h, c)
<1> DEFINE B == HeapBlocks(h)
<1>1. Good(h, B) /\ b \in Taken(h, B) /\ Live(h) = Taken(h, B)
  BY DEF Sane, Live
<1>2. Becomes(h, g, B, Taken(h, B), Taken(h, B) \ {b}) /\ SameTags(h, g, B)
  BY <1>1, FillGood
<1>3. Turns(h, g, Taken(h, B), Taken(h, B) \ {b})
  BY <1>2, TurnsIs
<1>4. Taken(h, B) \subseteq B
  BY DEF Taken
<1> QED BY <1>1, <1>2, <1>3, <1>4 DEF SameTags

(* mm_init leaves nothing allocated.                                       *)
LEMMA InitSane ==
  ASSUME NEW h \in Heap
  PROVE  Sane(mm_init(h)) /\ Live(mm_init(h)) = {} /\ mm_init(h).brk = 4 + CHUNKSIZE
<1>1. /\ Good(mm_init(h), InitBlocks(h)) /\ Taken(mm_init(h), InitBlocks(h)) = {}
      /\ mm_init(h).brk = 4 + CHUNKSIZE
  BY InitGood
<1> QED BY <1>1, SaneIs

----------------------------------------------------------------------------
(* They do the same in the same heaps.                                     *)

(* Answers that are the same but for what is in the payloads.              *)
SameAnswer(r, s) == s.ptr = r.ptr /\ Same(r.heap, s.heap)

(* mm_init does, whatever is in the memory.                                *)
LEMMA SameInit ==
  ASSUME NEW h \in Heap, NEW g \in Heap
  PROVE  Same(mm_init(h), mm_init(g))
<1>1. Good(mm_init(h), InitBlocks(h))
  BY InitGood
<1>2. Alike(mm_init(h), mm_init(g), InitBlocks(h), FreeOf(mm_init(h), InitBlocks(h)))
  BY AlikeInit
<1> QED BY <1>1, <1>2, SameIs

(* mm_malloc does, and fails in neither or both.                           *)
LEMMA SameMalloc ==
  ASSUME NEW h, Sane(h), NEW size \in Nat \ {0}, NEW g, Same(h, g),
         mm_malloc(h, size).ptr # NULL
  PROVE  SameAnswer(mm_malloc(h, size), mm_malloc(g, size))
<1> DEFINE B == HeapBlocks(h)
           asize == AdjustedSize(size)
           r == mm_malloc(h, size)
           C == MallocBlocks(h, B, asize)
<1>1. Good(h, B) /\ Alike(h, g, B, FreeOf(h, B))
  BY DEF Sane, Same, Unused
<1>2. ~ Fails(h, B, asize, r)
  BY DEF Fails, Result
<1>3. Allocates(h, B, asize, r, C)
  BY <1>1, <1>2, MallocGood
<1>4. AlikeResults(r, mm_malloc(g, size), C)
  BY <1>1, <1>2, AlikeMalloc
<1> HIDE DEF r, C
<1>5. Good(r.heap, C)
  BY <1>3 DEF Allocates, Becomes
<1>6. Same(r.heap, mm_malloc(g, size).heap)
  BY <1>4, <1>5, SameIs DEF AlikeResults
<1> QED BY <1>4, <1>6 DEF AlikeResults, SameAnswer, r

(* mm_free does.                                                           *)
LEMMA SameFree ==
  ASSUME NEW h, Sane(h), NEW bp \in Live(h), NEW g, Same(h, g)
  PROVE  Same(mm_free(h, bp), mm_free(g, bp))
<1> DEFINE B == HeapBlocks(h)
           C == FreedBlocks(h, B, bp)
<1>1. Good(h, B) /\ bp \in Taken(h, B) /\ Alike(h, g, B, FreeOf(h, B))
  BY DEF Sane, Same, Unused, Live
<1>2. Becomes(h, mm_free(h, bp), C, Taken(h, B) \ {bp}, Taken(h, B) \ {bp})
  BY <1>1, FreeGood
<1>3. Alike(mm_free(h, bp), mm_free(g, bp), C, FreeOf(mm_free(h, bp), C))
  BY <1>1, AlikeFree
<1> HIDE DEF C
<1> QED BY <1>2, <1>3, SameIs DEF Becomes

(* mm_realloc does, and dies in neither or both.                           *)
LEMMA SameRealloc ==
  ASSUME NEW h, Sane(h), NEW bp \in Live(h), NEW size \in Nat \ {0},
         ~ SplitsBoth(h, bp, size), NEW g, Same(h, g), mm_realloc(h, bp, size).ptr # Fault
  PROVE  SameAnswer(mm_realloc(h, bp, size), mm_realloc(g, bp, size))
<1> DEFINE B == HeapBlocks(h)
           r == mm_realloc(h, bp, size)
           C == ReallocBlocks(h, B, bp, size)
<1>1. Good(h, B) /\ bp \in Taken(h, B) /\ Alike(h, g, B, FreeOf(h, B))
  BY DEF Sane, Same, Unused, Live
<1>2. ~ Faults(h, B, bp, size, r)
  BY DEF Faults, Result
<1>3. Regrants(h, B, bp, size, r, C)
  BY <1>1, <1>2, ReallocGood
<1>4. AlikeResults(r, mm_realloc(g, bp, size), C)
  BY <1>1, <1>2, AlikeRealloc
<1> HIDE DEF r, C
<1>5. Good(r.heap, C)
  BY <1>3 DEF Regrants, Becomes
<1>6. Same(r.heap, mm_realloc(g, bp, size).heap)
  BY <1>4, <1>5, SameIs DEF AlikeResults
<1> QED BY <1>4, <1>6 DEF AlikeResults, SameAnswer, r

(* The branch that destroys the heap is taken in neither or both.          *)
LEMMA SameSplits ==
  ASSUME NEW h, Sane(h), NEW bp \in Live(h), NEW size, NEW g, Same(h, g)
  PROVE  SplitsBoth(g, bp, size) <=> SplitsBoth(h, bp, size)
<1> DEFINE B == HeapBlocks(h)
<1>1. Good(h, B) /\ bp \in Taken(h, B) /\ Alike(h, g, B, FreeOf(h, B))
  BY DEF Sane, Same, Unused, Live
<1>2. Room(g, bp, size) = Room(h, bp, size)
  BY <1>1, AlikeRoom
<1> QED BY <1>2 DEF SplitsBoth

(* A payload that is filled makes no difference.                           *)
LEMMA SameFilled ==
  ASSUME NEW h, Sane(h), NEW b \in Live(h), NEW new, Fills(h, new, b), NEW g, Same(h, g)
  PROVE  Same(new, g)
<1> DEFINE B == HeapBlocks(h)
<1>1. Good(h, B) /\ b \in Taken(h, B) /\ Alike(h, g, B, FreeOf(h, B))
  BY DEF Sane, Same, Unused, Live
<1>2. Alike(new, g, B, FreeOf(new, B)) /\ Good(new, B)
  BY <1>1, AlikeOne, FillGood DEF Becomes
<1> QED BY <1>2, SameIs

----------------------------------------------------------------------------
(* Blocks and ids.                                                         *)

(* The allocated blocks are k[id] for the ids that have one, each its own, *)
(* with room for sz[id] words.                                             *)
Owned(h, k, sz) ==
  /\ Sane(h)
  /\ k \in [Ids -> Words] /\ sz \in [Ids -> Nat]
  /\ Live(h) = {k[id] : id \in Ids} \ {NULL}
  /\ \A id \in Ids : k[id] # NULL =>
       /\ sz[id] > 0 /\ sz[id] + 2 <= Size(h, k[id])
       /\ \A other \in Ids : k[other] = k[id] => other = id

(* An answer whose payload has been filled, or has not, is one as before.  *)
LEMMA GivesFilled ==
  ASSUME NEW h, Sane(h), NEW bp, NEW size \in Nat \ {0}, NEW r, Gives(h, bp, size, r),
         NEW g, Fills(r.heap, g, r.ptr)
  PROVE  Gives(h, bp, size, Result(g, r.ptr))
<1> DEFINE T == (Live(h) \ {bp}) \cup {r.ptr}
           K == Live(h) \ {bp}
<1>1. Sane(r.heap) /\ Live(r.heap) = T /\ Kept(h, r.heap, K)
  BY DEF Gives, Turns
<1>2. r.ptr \in Live(r.heap) /\ r.ptr \notin K
  BY <1>1 DEF Gives
<1>3. /\ Sane(g) /\ Live(g) = T /\ Kept(r.heap, g, T \ {r.ptr}) /\ g.brk = r.heap.brk
      /\ \A c \in T : Size(g, c) = Size(r.heap, c)
  <2>1. /\ Turns(r.heap, g, Live(r.heap), Live(r.heap) \ {r.ptr})
        /\ g.brk = r.heap.brk /\ \A c \in Live(r.heap) : Size(g, c) = Size(r.heap, c)
    BY <1>1, <1>2, FillSane
  <2> HIDE DEF T, K
  <2>2. Turns(r.heap, g, T, T \ {r.ptr})
    BY <1>1, <2>1
  <2> QED BY <1>1, <2>1, <2>2 DEF Turns
<1>4. Kept(h, g, K)
  <2>1. K \subseteq T \ {r.ptr}
    BY <1>2
  <2>2. Kept(r.heap, g, K)
    BY <1>3, <2>1 DEF Kept
  <2> QED BY <1>1, <2>2, KeptTwice
<1>5. Turns(h, g, T, K) /\ Size(g, r.ptr) = Size(r.heap, r.ptr)
  BY <1>3, <1>4 DEF Turns
<1> DEFINE s == Result(g, r.ptr)
<1>6. s.heap = g /\ s.ptr = r.ptr
  BY DEF Result
<1> HIDE DEF s, T, K
<1>7. Gives(h, bp, size, s)
  BY <1>3, <1>5, <1>6 DEF Gives, T, K
<1> QED BY <1>7 DEF s

(* What the block is that an id is given.                                  *)
LEMMA GivesType ==
  ASSUME NEW h, Sane(h), NEW bp, NEW size \in Nat \ {0}, NEW r, Gives(h, bp, size, r)
  PROVE  /\ Sane(r.heap) /\ r.ptr \in Live(r.heap) /\ r.ptr \in Words \ {NULL}
         /\ r.ptr \in Int /\ (r.ptr % 2) = 0 /\ 4 <= r.ptr
         /\ Size(r.heap, r.ptr) \in Int /\ size + 4 <= Size(r.heap, r.ptr)
         /\ r.ptr + Size(r.heap, r.ptr) <= r.heap.brk
         /\ r.heap.brk \in Int /\ r.heap.brk <= MAX_HEAP /\ MAX_HEAP \in Int
         /\ r.heap \in Heap
<1>1. Sane(r.heap) /\ r.ptr \in Live(r.heap) /\ r.ptr # NULL
      /\ Size(r.heap, r.ptr) >= AdjustedSize(size)
  BY DEF Gives, Turns
<1>2. AdjustedSize(size) \in Int /\ AdjustedSize(size) >= size + 4
  BY AdjustedSizeIs
<1>3. /\ r.ptr \in Int /\ 4 <= r.ptr /\ (r.ptr % 2) = 0 /\ r.ptr \in Words
      /\ Size(r.heap, r.ptr) \in Int /\ r.ptr + Size(r.heap, r.ptr) <= r.heap.brk
      /\ r.heap \in Heap /\ r.heap.brk \in Int /\ r.heap.brk <= MAX_HEAP /\ MAX_HEAP \in Int
  BY <1>1, LiveType
<1> QED BY <1>1, <1>2, <1>3

(* An id is given a block.                                                 *)
LEMMA OwnedGiven ==
  ASSUME NEW h, NEW k, NEW sz, Owned(h, k, sz), NEW id \in Ids, NEW size \in Nat \ {0},
         NEW r, Gives(h, k[id], size, r)
  PROVE  Owned(r.heap, [k EXCEPT ![id] = r.ptr], [sz EXCEPT ![id] = size])
<1> DEFINE K == [k EXCEPT ![id] = r.ptr]
           SZ == [sz EXCEPT ![id] = size]
           g == r.heap
           A == Live(h) \ {k[id]}
<1>1. /\ Sane(h) /\ k \in [Ids -> Words] /\ sz \in [Ids -> Nat]
      /\ Live(h) = {k[x] : x \in Ids} \ {NULL}
      /\ \A x \in Ids : k[x] # NULL =>
           /\ sz[x] > 0 /\ sz[x] + 2 <= Size(h, k[x])
           /\ \A other \in Ids : k[other] = k[x] => other = x
  BY DEF Owned
<1>2. /\ Sane(g) /\ r.ptr \in Words \ {NULL} /\ Size(g, r.ptr) \in Int
      /\ size + 2 <= Size(g, r.ptr)
  BY <1>1, GivesType
<1>3. Live(g) = A \cup {r.ptr} /\ r.ptr \notin A /\ \A b \in A : Size(g, b) = Size(h, b)
  BY DEF Gives, Turns, Kept
<1>4. A = {k[x] : x \in Ids \ {id}} \ {NULL}
  BY <1>1
<1>5. /\ K \in [Ids -> Words] /\ SZ \in [Ids -> Nat]
      /\ K[id] = r.ptr /\ SZ[id] = size
      /\ \A x \in Ids \ {id} : K[x] = k[x] /\ SZ[x] = sz[x]
  BY <1>1, <1>2
<1> HIDE DEF K, SZ, A, g
<1>6. Live(g) = {K[x] : x \in Ids} \ {NULL}
  BY <1>2, <1>3, <1>4, <1>5
<1>7. ASSUME NEW x \in Ids, K[x] # NULL
      PROVE  /\ SZ[x] > 0 /\ SZ[x] + 2 <= Size(g, K[x])
             /\ \A other \in Ids : K[other] = K[x] => other = x
  <2>1. CASE x = id
    <3>1. \A other \in Ids \ {id} : K[other] # K[x]
      <4> TAKE other \in Ids \ {id}
      <4>1. k[other] = NULL \/ k[other] \in A
        BY <1>4
      <4> QED BY <1>2, <1>3, <1>5, <2>1, <4>1
    <3>2. SZ[x] > 0 /\ SZ[x] + 2 <= Size(g, K[x])
      BY <1>2, <1>5, <2>1
    <3> QED BY <2>1, <3>1, <3>2
  <2>2. CASE x # id
    <3>1. k[x] \in A /\ K[x] = k[x] /\ SZ[x] = sz[x]
      BY <1>4, <1>5, <1>7, <2>2
    <3>2. K[id] # K[x]
      BY <1>3, <1>5, <3>1
    <3>3. \A other \in Ids : K[other] = K[x] => other = x
      BY <1>1, <1>5, <1>7, <3>1, <3>2
    <3>4. Size(g, K[x]) = Size(h, k[x])
      BY <1>3, <3>1
    <3> QED BY <1>1, <1>7, <3>1, <3>3, <3>4
  <2> QED BY <2>1, <2>2
<1>8. Owned(g, K, SZ)
  BY <1>2, <1>5, <1>6, <1>7 DEF Owned
<1> QED BY <1>8 DEF g, K, SZ

(* An id gives its block back.                                             *)
LEMMA OwnedFree ==
  ASSUME NEW h, NEW k, NEW sz, Owned(h, k, sz), NEW id \in Ids, k[id] # NULL
  PROVE  Owned(mm_free(h, k[id]), [k EXCEPT ![id] = NULL], sz)
<1> DEFINE K == [k EXCEPT ![id] = NULL]
           g == mm_free(h, k[id])
           A == Live(h) \ {k[id]}
<1>1. /\ Sane(h) /\ k \in [Ids -> Words] /\ sz \in [Ids -> Nat]
      /\ Live(h) = {k[x] : x \in Ids} \ {NULL}
      /\ \A x \in Ids : k[x] # NULL =>
           /\ sz[x] > 0 /\ sz[x] + 2 <= Size(h, k[x])
           /\ \A other \in Ids : k[other] = k[x] => other = x
  BY DEF Owned
<1>2. k[id] \in Live(h)
  BY <1>1
<1>3. Sane(g) /\ Live(g) = A /\ \A b \in A : Size(g, b) = Size(h, b)
  BY <1>1, <1>2, FreeSane DEF Turns, Kept
<1>4. NULL \in Words
  <2>1. k[id] \in Words
    BY <1>1
  <2> QED BY <2>1, MaxHeapAssumption DEF Words, NULL
<1>5. /\ K \in [Ids -> Words] /\ K[id] = NULL
      /\ \A x \in Ids \ {id} : K[x] = k[x]
  BY <1>1, <1>4
<1> HIDE DEF K, g
<1>6. \A x \in Ids : K[x] # NULL => x # id /\ K[x] = k[x] /\ k[x] \in A
  BY <1>1, <1>5
<1>7. Live(g) = {K[x] : x \in Ids} \ {NULL}
  <2>1. \A b \in A : \E x \in Ids : b = K[x] /\ b # NULL
    BY <1>1, <1>5
  <2> QED BY <1>3, <1>6, <2>1
<1>8. \A x \in Ids : K[x] # NULL =>
        /\ sz[x] > 0 /\ sz[x] + 2 <= Size(g, K[x])
        /\ \A other \in Ids : K[other] = K[x] => other = x
  BY <1>1, <1>3, <1>6
<1>9. Owned(g, K, sz)
  BY <1>1, <1>3, <1>5, <1>7, <1>8 DEF Owned
<1> QED BY <1>9 DEF g, K

(* Nobody has a block when mm_init has returned.                           *)
LEMMA OwnedInit ==
  ASSUME NEW h \in Heap, NEW sz \in [Ids -> Nat]
  PROVE  Owned(mm_init(h), NoBlocks, sz)
<1>1. Sane(mm_init(h)) /\ Live(mm_init(h)) = {} /\ mm_init(h).brk = 4 + CHUNKSIZE
  BY InitSane
<1>2. NULL \in Words
  BY ChunkAssumption, MaxHeapAssumption DEF Words, NULL
<1>3. NoBlocks \in [Ids -> Words] /\ \A id \in Ids : NoBlocks[id] = NULL
  BY <1>2 DEF NoBlocks
<1> HIDE DEF NoBlocks
<1>4. {NoBlocks[id] : id \in Ids} \ {NULL} = {}
  BY <1>3
<1> QED BY <1>1, <1>3, <1>4 DEF Owned

(* The same heap is owned the same way.                                    *)
LEMMA OwnedSame ==
  ASSUME NEW h, NEW k, NEW sz, Owned(h, k, sz), NEW g, Same(h, g)
  PROVE  Owned(g, k, sz)
<1>1. /\ Sane(g) /\ Live(g) = Live(h) /\ \A b \in Live(h) : Size(g, b) = Size(h, b)
  BY SameSane DEF Owned
<1>2. \A id \in Ids : k[id] # NULL => k[id] \in Live(h)
  BY DEF Owned
<1> QED BY <1>1, <1>2 DEF Owned

----------------------------------------------------------------------------
(* The words of the payloads in use.                                       *)

(* One of them is in use by x.                                             *)
Uses(k, sz, x, w) == k[x] # NULL /\ w \in k[x] .. k[x] + sz[x] - 1

Used(k, sz)        == {w \in Words : \E x \in Ids : Uses(k, sz, x, w)}
UsedBut(k, sz, id) == {w \in Words : \E x \in Ids \ {id} : Uses(k, sz, x, w)}

Total(k, sz) == Cardinality(Used(k, sz))

(* The words of one payload.                                               *)
Counts(k, sz, id) == IF k[id] = NULL THEN 0 ELSE sz[id]

(* A payload lies in its block, and in no other's.                         *)
LEMMA UsesApart ==
  ASSUME NEW h, NEW k, NEW sz, Owned(h, k, sz), NEW x \in Ids, NEW w, Uses(k, sz, x, w)
  PROVE  /\ w \in 0 .. h.brk - 1 /\ w \in Words
         /\ \A y \in Ids : Uses(k, sz, y, w) => y = x
<1>1. /\ Sane(h) /\ sz \in [Ids -> Nat]
      /\ \A y \in Ids : k[y] # NULL =>
           /\ k[y] \in Live(h) /\ sz[y] > 0 /\ sz[y] + 2 <= Size(h, k[y])
           /\ \A other \in Ids : k[other] = k[y] => other = y
  BY DEF Owned
<1>2. /\ h.brk \in Int /\ h.brk <= MAX_HEAP /\ MAX_HEAP \in Int
      /\ \A b \in Live(h) : b \in Int /\ 4 <= b /\ Size(h, b) \in Int /\ b + Size(h, b) <= h.brk
  BY <1>1, LiveType
<1>3. k[x] \in Live(h) /\ w \in k[x] .. k[x] + sz[x] - 1 /\ sz[x] \in Nat
      /\ sz[x] + 2 <= Size(h, k[x])
  BY <1>1 DEF Uses
<1>4. w \in 0 .. h.brk - 1 /\ w \in Int
  BY <1>2, <1>3
<1>5. w \in Words
  BY <1>2, <1>4 DEF Words
<1>6. ASSUME NEW y \in Ids, Uses(k, sz, y, w), y # x
      PROVE  FALSE
  <2>1. k[y] \in Live(h) /\ w \in k[y] .. k[y] + sz[y] - 1 /\ sz[y] \in Nat
        /\ sz[y] + 2 <= Size(h, k[y]) /\ k[y] # k[x]
    BY <1>1, <1>6 DEF Uses
  <2>2. k[x] + Size(h, k[x]) <= k[y] \/ k[y] + Size(h, k[y]) <= k[x]
    BY <1>1, <1>3, <2>1, LiveApart
  <2>3. k[x] \in Int /\ k[y] \in Int /\ Size(h, k[x]) \in Int /\ Size(h, k[y]) \in Int
    BY <1>2, <1>3, <2>1
  <2> QED BY <1>3, <1>4, <2>1, <2>2, <2>3
<1> QED BY <1>4, <1>5, <1>6

(* The payloads in use fit into the heap.                                  *)
LEMMA UsedFits ==
  ASSUME NEW h, NEW k, NEW sz, Owned(h, k, sz)
  PROVE  /\ IsFiniteSet(Used(k, sz)) /\ Total(k, sz) \in Nat /\ Total(k, sz) <= h.brk
<1>1. Used(k, sz) \subseteq 0 .. h.brk - 1
  BY UsesApart DEF Used
<1>2. h.brk \in Nat
  BY LiveType DEF Owned
<1>3. IsFiniteSet(0 .. h.brk - 1) /\ Cardinality(0 .. h.brk - 1) = h.brk
  <2> DEFINE e == h.brk - 1
  <2>1. e \in Int /\ 0 \in Int /\ e = h.brk - 1
    BY <1>2
  <2> HIDE DEF e
  <2>2. IsFiniteSet(0 .. e) /\ Cardinality(0 .. e) = IF 0 > e THEN 0 ELSE e - 0 + 1
    BY <2>1, FS_Interval
  <2>3. IsFiniteSet(0 .. e) /\ Cardinality(0 .. e) = h.brk
    BY <1>2, <2>1, <2>2
  <2> QED BY <2>3 DEF e
<1>4. IsFiniteSet(Used(k, sz)) /\ Cardinality(Used(k, sz)) <= h.brk
  BY <1>1, <1>3, FS_Subset
<1>5. Cardinality(Used(k, sz)) \in Nat
  BY <1>4, FS_CardinalityType
<1> QED BY <1>4, <1>5 DEF Total

(* One payload counts as many words as it has.                             *)
LEMMA UsedOne ==
  ASSUME NEW h, NEW k, NEW sz, Owned(h, k, sz), NEW id \in Ids
  PROVE  /\ Cardinality(UsedBut(k, sz, id)) \in Nat
         /\ Total(k, sz) = Cardinality(UsedBut(k, sz, id)) + Counts(k, sz, id)
<1> DEFINE U == Used(k, sz)
           V == UsedBut(k, sz, id)
<1>1. IsFiniteSet(U)
  BY UsedFits
<1>2. V \subseteq U
  BY DEF Used, UsedBut
<1>3. IsFiniteSet(V) /\ Cardinality(V) \in Nat
  BY <1>1, <1>2, FS_Subset, FS_CardinalityType
<1>4. CASE k[id] = NULL
  <2>1. \A w : ~ Uses(k, sz, id, w)
    BY <1>4 DEF Uses
  <2>2. U = V
    BY <2>1 DEF Used, UsedBut
  <2> QED BY <1>3, <1>4, <2>2 DEF Total, Counts
<1>5. CASE k[id] # NULL
  <2> DEFINE I == k[id] .. k[id] + sz[id] - 1
  <2>1. /\ k[id] \in Int /\ sz[id] \in Nat
    BY <1>5, LiveType DEF Owned
  <2>2. IsFiniteSet(I) /\ Cardinality(I) = sz[id]
    <3>1. k[id] + sz[id] - 1 \in Int /\ (k[id] + sz[id] - 1) - k[id] + 1 = sz[id]
      BY <2>1
    <3>2. /\ IsFiniteSet(I)
          /\ Cardinality(I) = IF k[id] > k[id] + sz[id] - 1 THEN 0
                              ELSE (k[id] + sz[id] - 1) - k[id] + 1
      BY <2>1, <3>1, FS_Interval
    <3> QED BY <2>1, <3>1, <3>2
  <2>3. \A w : Uses(k, sz, id, w) <=> w \in I
    BY <1>5 DEF Uses
  <2>4. \A w \in I : w \in Words
    BY <2>3, UsesApart
  <2>5. U = V \cup I
    BY <2>3, <2>4 DEF Used, UsedBut
  <2>6. V \cap I = {}
    <3>1. ASSUME NEW w \in V, w \in I PROVE FALSE
      <4>1. PICK x \in Ids \ {id} : Uses(k, sz, x, w)
        BY DEF UsedBut
      <4>2. Uses(k, sz, id, w)
        BY <2>3, <3>1
      <4> QED BY <4>1, <4>2, UsesApart
    <3> QED BY <3>1
  <2>7. Cardinality(U) = Cardinality(V) + Cardinality(I) - Cardinality(V \cap I)
    <3> HIDE DEF U, V, I
    <3> QED BY <1>3, <2>2, <2>5, FS_Union
  <2>8. Cardinality(V \cap I) = 0
    BY <2>6, FS_EmptySet
  <2> HIDE DEF I
  <2> QED BY <1>3, <1>5, <2>1, <2>2, <2>7, <2>8 DEF Total, Counts
<1> QED BY <1>3, <1>4, <1>5

(* What one id is given or gives back does not count for the others.       *)
LEMMA UsedButOther ==
  ASSUME NEW k, NEW sz, NEW K, NEW SZ, NEW id,
         \A x \in Ids \ {id} : K[x] = k[x] /\ SZ[x] = sz[x]
  PROVE  UsedBut(K, SZ, id) = UsedBut(k, sz, id)
<1>1. \A x \in Ids \ {id} : \A w : Uses(K, SZ, x, w) <=> Uses(k, sz, x, w)
  BY DEF Uses
<1> QED BY <1>1, Zenon DEF UsedBut

(* What an id is given or gives back counts, and nothing else does.        *)
LEMMA TotalChanged ==
  ASSUME NEW h, NEW k, NEW sz, Owned(h, k, sz), NEW g, NEW K, NEW SZ, Owned(g, K, SZ),
         NEW id \in Ids, \A x \in Ids \ {id} : K[x] = k[x] /\ SZ[x] = sz[x]
  PROVE  /\ Total(k, sz) \in Nat /\ Counts(k, sz, id) \in Nat /\ Counts(K, SZ, id) \in Nat
         /\ Total(K, SZ) = Total(k, sz) - Counts(k, sz, id) + Counts(K, SZ, id)
<1>1. UsedBut(K, SZ, id) = UsedBut(k, sz, id)
  BY UsedButOther
<1>2. /\ Cardinality(UsedBut(k, sz, id)) \in Nat
      /\ Total(k, sz) = Cardinality(UsedBut(k, sz, id)) + Counts(k, sz, id)
  BY UsedOne
<1>3. Total(K, SZ) = Cardinality(UsedBut(K, SZ, id)) + Counts(K, SZ, id)
  BY UsedOne
<1>4. sz[id] \in Nat /\ SZ[id] \in Nat
  BY DEF Owned
<1>5. Counts(k, sz, id) \in Nat /\ Counts(K, SZ, id) \in Nat
  BY <1>4 DEF Counts
<1> QED BY <1>1, <1>2, <1>3, <1>5

(* Nothing is in use when nobody has a block.                              *)
LEMMA TotalNone ==
  ASSUME NEW sz
  PROVE  Total(NoBlocks, sz) = 0
<1>1. \A x \in Ids : NoBlocks[x] = NULL
  BY DEF NoBlocks
<1>2. Used(NoBlocks, sz) = {}
  BY <1>1 DEF Used, Uses
<1> QED BY <1>2, FS_EmptySet DEF Total

----------------------------------------------------------------------------
(* The requests of a trace.                                                *)

(* What the allocator makes of a request when the blocks of the ids are k. *)
Reply(h, k, op) ==
  IF op.type = "alloc" THEN mm_malloc(h, op.size)
  ELSE IF op.type = "realloc" THEN mm_realloc(h, k[op.index], op.size)
  ELSE [heap |-> mm_free(h, k[op.index]), ptr |-> NULL]

(* It may be asked, and is not the one that destroys the heap.             *)
Legal(op, h, k) ==
  /\ op.index \in Ids
  /\ \/ op.type = "alloc" /\ op.size \in Nat \ {0} /\ k[op.index] = NULL
     \/ /\ op.type = "realloc" /\ op.size \in Nat \ {0} /\ k[op.index] # NULL
        /\ ~ SplitsBoth(h, k[op.index], op.size)
     \/ op.type = "free" /\ k[op.index] # NULL

(* It is answered the way the trace says, and does not fail.               *)
Granted(op, h, k) ==
  /\ Legal(op, h, k)
  /\ op.answer = Reply(h, k, op).ptr
  /\ op.type # "free" => op.answer \notin {NULL, Fault}

(* The heap g, after the answer r and what the program then writes.        *)
Leaves(op, r, g) == IF op.type = "free" THEN g = r.heap ELSE Fills(r.heap, g, r.ptr)

NextBlocks(op, k) == [k EXCEPT ![op.index] = op.answer]

NextSizes(op, sz) == IF op.type = "free" THEN sz ELSE [sz EXCEPT ![op.index] = op.size]

(* Nothing written is something, too.                                      *)
LEMMA FillsNothing ==
  ASSUME NEW h \in Heap, NEW b
  PROVE  Fills(h, h, b)
BY DEF Fills

(* A request that does not fail gives a block.                             *)
LEMMA GrantedGives ==
  ASSUME NEW h, NEW k, NEW sz, Owned(h, k, sz), NEW op, Granted(op, h, k),
         op.type # "free"
  PROVE  /\ op.size \in Nat \ {0} /\ op.index \in Ids
         /\ Gives(h, k[op.index], op.size, Reply(h, k, op))
<1> DEFINE bp == k[op.index]
           r == Reply(h, k, op)
<1>1. /\ op.index \in Ids /\ op.size \in Nat \ {0} /\ r.ptr \notin {NULL, Fault}
      /\ \/ op.type = "alloc" /\ bp = NULL
         \/ op.type = "realloc" /\ bp # NULL /\ ~ SplitsBoth(h, bp, op.size)
  BY DEF Granted, Legal
<1>2. Sane(h) /\ (bp # NULL => bp \in Live(h))
  BY <1>1 DEF Owned
<1>3. CASE op.type = "alloc"
  <2>1. r = mm_malloc(h, op.size) /\ bp = NULL
    BY <1>1, <1>3 DEF Reply
  <2>2. Result(h, NULL).ptr = NULL
    BY DEF Result
  <2>3. Gives(h, NULL, op.size, mm_malloc(h, op.size))
    BY <1>1, <1>2, <2>1, <2>2, MallocSane
  <2> QED BY <1>1, <2>1, <2>3
<1>4. CASE op.type = "realloc"
  <2>1. r = mm_realloc(h, bp, op.size)
    BY <1>4 DEF Reply
  <2>2. Result(h, Fault).ptr = Fault
    BY DEF Result
  <2>3. bp \in Live(h) /\ ~ SplitsBoth(h, bp, op.size) /\ op.size \in Nat \ {0}
    BY <1>1, <1>2, <1>4
  <2> HIDE DEF bp, r
  <2>4. Gives(h, bp, op.size, mm_realloc(h, bp, op.size))
    BY <1>1, <1>2, <2>1, <2>2, <2>3, ReallocSane
  <2> QED BY <1>1, <2>1, <2>4 DEF bp, r
<1> QED BY <1>1, <1>3, <1>4

(* An id that has been given a block, whatever is then written into it.    *)
LEMMA GivenOwned ==
  ASSUME NEW h, NEW k, NEW sz, Owned(h, k, sz), NEW id \in Ids, NEW size \in Nat \ {0},
         NEW r, Gives(h, k[id], size, r), NEW g, Fills(r.heap, g, r.ptr)
  PROVE  /\ Owned(g, [k EXCEPT ![id] = r.ptr], [sz EXCEPT ![id] = size])
         /\ h.brk <= g.brk /\ g.brk = r.heap.brk
<1> DEFINE s == Result(g, r.ptr)
<1>1. Sane(h)
  BY DEF Owned
<1>2. Gives(h, k[id], size, s)
  BY <1>1, GivesFilled
<1>3. s.heap = g /\ s.ptr = r.ptr
  BY DEF Result
<1> HIDE DEF s
<1>4. Owned(s.heap, [k EXCEPT ![id] = s.ptr], [sz EXCEPT ![id] = size])
  BY <1>2, OwnedGiven
<1>5. h.brk <= s.heap.brk /\ g.brk = r.heap.brk
  BY <1>2 DEF Gives, Fills
<1> QED BY <1>3, <1>4, <1>5

(* The blocks stay owned.                                                  *)
LEMMA LeavesOwned ==
  ASSUME NEW h, NEW k, NEW sz, Owned(h, k, sz), NEW op, Granted(op, h, k),
         NEW g, Leaves(op, Reply(h, k, op), g)
  PROVE  /\ Owned(g, NextBlocks(op, k), NextSizes(op, sz))
         /\ h.brk <= g.brk /\ g.brk = Reply(h, k, op).heap.brk
<1> DEFINE r == Reply(h, k, op)
           id == op.index
<1>1. id \in Ids /\ op.answer = r.ptr
  BY DEF Granted, Legal
<1>2. CASE op.type = "free"
  <2>1. k[id] # NULL /\ r = [heap |-> mm_free(h, k[id]), ptr |-> NULL]
    BY <1>2 DEF Granted, Legal, Reply
  <2>2. g = mm_free(h, k[id]) /\ r.heap = mm_free(h, k[id]) /\ r.ptr = NULL
    BY <1>2, <2>1 DEF Leaves
  <2> HIDE DEF r
  <2>3. Owned(mm_free(h, k[id]), [k EXCEPT ![id] = NULL], sz)
    BY <1>1, <2>1, OwnedFree
  <2>4. Sane(h) /\ k[id] \in Live(h) /\ h.brk \in Int
    BY <1>1, <2>1, LiveType DEF Owned
  <2>5. mm_free(h, k[id]).brk = h.brk
    BY <2>4, FreeSane
  <2>6. NextBlocks(op, k) = [k EXCEPT ![id] = NULL] /\ NextSizes(op, sz) = sz
    BY <1>1, <1>2, <2>2 DEF NextBlocks, NextSizes
  <2>7. h.brk <= g.brk /\ g.brk = r.heap.brk
    BY <2>2, <2>4, <2>5
  <2> QED BY <2>2, <2>3, <2>6, <2>7 DEF r
<1>3. CASE op.type # "free"
  <2>1. op.size \in Nat \ {0} /\ Gives(h, k[id], op.size, r)
    BY <1>3, GrantedGives
  <2>2. Fills(r.heap, g, r.ptr)
    BY <1>3 DEF Leaves
  <2> HIDE DEF r, id
  <2>3. /\ Owned(g, [k EXCEPT ![id] = r.ptr], [sz EXCEPT ![id] = op.size])
        /\ h.brk <= g.brk /\ g.brk = r.heap.brk
    BY <1>1, <2>1, <2>2, GivenOwned
  <2>4. /\ NextBlocks(op, k) = [k EXCEPT ![id] = r.ptr]
        /\ NextSizes(op, sz) = [sz EXCEPT ![id] = op.size]
    BY <1>1, <1>3 DEF NextBlocks, NextSizes, id
  <2> QED BY <2>3, <2>4 DEF r
<1> QED BY <1>2, <1>3

(* The allocator answers the same in the same heap, and leaves the same    *)
(* heap behind, whatever was written into the payloads.                    *)
LEMMA SameReply ==
  ASSUME NEW h, NEW k, NEW sz, Owned(h, k, sz), NEW op, Granted(op, h, k),
         NEW new, Leaves(op, Reply(h, k, op), new), NEW g, Same(h, g)
  PROVE  Granted(op, g, k) /\ Same(new, Reply(g, k, op).heap)
<1> DEFINE r == Reply(h, k, op)
           s == Reply(g, k, op)
           bp == k[op.index]
<1>1. /\ op.index \in Ids /\ op.answer = r.ptr
      /\ op.type # "free" => r.ptr \notin {NULL, Fault}
      /\ \/ op.type = "alloc" /\ op.size \in Nat \ {0} /\ bp = NULL
         \/ /\ op.type = "realloc" /\ op.size \in Nat \ {0} /\ bp # NULL
            /\ ~ SplitsBoth(h, bp, op.size)
         \/ op.type = "free" /\ bp # NULL
  BY DEF Granted, Legal
<1>2. Sane(h) /\ (bp # NULL => bp \in Live(h))
  BY <1>1 DEF Owned
<1>3. CASE op.type = "alloc"
  <2>1. r = mm_malloc(h, op.size) /\ s = mm_malloc(g, op.size) /\ bp = NULL
    BY <1>1, <1>3 DEF Reply
  <2>2. SameAnswer(mm_malloc(h, op.size), mm_malloc(g, op.size))
    BY <1>1, <1>2, <1>3, <2>1, SameMalloc
  <2>3. Gives(h, bp, op.size, r)
    BY <1>3, GrantedGives
  <2> HIDE DEF r, s, bp
  <2>4. s.ptr = r.ptr /\ Same(r.heap, s.heap)
    BY <2>1, <2>2 DEF SameAnswer
  <2>5. Fills(r.heap, new, r.ptr)
    BY <1>3 DEF Leaves, r
  <2>6. Sane(r.heap) /\ r.ptr \in Live(r.heap)
    BY <2>3 DEF Gives, Turns
  <2>7. Same(new, s.heap)
    BY <2>4, <2>5, <2>6, SameFilled
  <2>8. Granted(op, g, k)
    BY <1>1, <1>3, <2>4 DEF Granted, Legal, s, bp
  <2> QED BY <2>7, <2>8 DEF s
<1>4. CASE op.type = "realloc"
  <2>1. r = mm_realloc(h, bp, op.size) /\ s = mm_realloc(g, bp, op.size)
    BY <1>4 DEF Reply
  <2>2. bp \in Live(h) /\ ~ SplitsBoth(h, bp, op.size) /\ op.size \in Nat \ {0} /\ bp # NULL
    BY <1>1, <1>2, <1>4
  <2>3. Gives(h, bp, op.size, r)
    BY <1>4, GrantedGives
  <2> HIDE DEF r, s, bp
  <2>4. SameAnswer(mm_realloc(h, bp, op.size), mm_realloc(g, bp, op.size))
    BY <1>1, <1>2, <1>4, <2>1, <2>2, SameRealloc
  <2>5. s.ptr = r.ptr /\ Same(r.heap, s.heap)
    BY <2>1, <2>4 DEF SameAnswer
  <2>6. Fills(r.heap, new, r.ptr)
    BY <1>4 DEF Leaves, r
  <2>7. Sane(r.heap) /\ r.ptr \in Live(r.heap)
    BY <2>3 DEF Gives, Turns
  <2>8. Same(new, s.heap)
    BY <2>5, <2>6, <2>7, SameFilled
  <2>9. ~ SplitsBoth(g, bp, op.size)
    BY <1>2, <2>2, SameSplits
  <2>10. Granted(op, g, k)
    BY <1>1, <1>4, <2>2, <2>5, <2>9 DEF Granted, Legal, s, bp
  <2> QED BY <2>8, <2>10 DEF s
<1>5. CASE op.type = "free"
  <2>1. r.heap = mm_free(h, bp) /\ s.heap = mm_free(g, bp) /\ r.ptr = NULL /\ s.ptr = NULL
    BY <1>5 DEF Reply
  <2>2. new = r.heap /\ bp \in Live(h) /\ bp # NULL
    BY <1>1, <1>2, <1>5 DEF Leaves
  <2> HIDE DEF r, s, bp
  <2>3. Same(new, s.heap)
    BY <1>2, <2>1, <2>2, SameFree
  <2>4. Granted(op, g, k)
    BY <1>1, <1>5, <2>1, <2>2 DEF Granted, Legal, s, bp
  <2> QED BY <2>3, <2>4 DEF s
<1> QED BY <1>1, <1>3, <1>4, <1>5

----------------------------------------------------------------------------
(* The recording of a trace: the heaps and the blocks after each request.  *)

Held(h, k) == \E sz : Owned(h, k, sz)

(* H and K are those that the requests of the trace have left behind.      *)
Recorded(tr, H, K) ==
  /\ \E h \in Heap : H[0] = mm_init(h)
  /\ K[0] = NoBlocks
  /\ \A n \in 0 .. Len(tr) : Held(H[n], K[n])
  /\ \A n \in 1 .. Len(tr) :
       /\ Granted(tr[n], H[n - 1], K[n - 1])
       /\ Leaves(tr[n], Reply(H[n - 1], K[n - 1], tr[n]), H[n])
       /\ K[n] = NextBlocks(tr[n], K[n - 1])

(* The recording ends with the heap h and the blocks k.                    *)
Ends(tr, h, k) == \E H, K : Recorded(tr, H, K) /\ H[Len(tr)] = h /\ K[Len(tr)] = k

(* After n requests of the trace a replay has the heap h and the blocks k. *)
Follows(tr, n, h, k) == \E H, K : Recorded(tr, H, K) /\ Same(H[n], h) /\ K[n] = k

(* A trace starts with what mm_init leaves behind.                         *)
LEMMA EndsInit ==
  ASSUME NEW h \in Heap
  PROVE  Ends(<<>>, mm_init(h), NoBlocks)
<1> DEFINE H == [n \in 0 .. 0 |-> mm_init(h)]
           K == [n \in 0 .. 0 |-> NoBlocks]
           sz == [id \in Ids |-> 0]
<1>1. H[0] = mm_init(h) /\ K[0] = NoBlocks /\ Len(<<>>) = 0
  OBVIOUS
<1>2. sz \in [Ids -> Nat]
  OBVIOUS
<1> HIDE DEF H, K, sz
<1>3. Owned(mm_init(h), NoBlocks, sz)
  BY <1>2, OwnedInit
<1>4. \A n \in 0 .. Len(<<>>) : Held(H[n], K[n])
  BY <1>1, <1>3 DEF Held
<1>5. Recorded(<<>>, H, K)
  BY <1>1, <1>4 DEF Recorded
<1> QED BY <1>1, <1>5 DEF Ends

(* Each request that is granted goes on with it.                           *)
LEMMA EndsMore ==
  ASSUME NEW S, NEW tr \in Seq(S), NEW h, NEW k, Ends(tr, h, k),
         NEW op \in S, Granted(op, h, k), NEW g, Leaves(op, Reply(h, k, op), g),
         Held(g, NextBlocks(op, k))
  PROVE  Ends(Append(tr, op), g, NextBlocks(op, k))
<1>1. PICK H, K : Recorded(tr, H, K) /\ H[Len(tr)] = h /\ K[Len(tr)] = k
  BY DEF Ends
<1> DEFINE m == Len(tr) + 1
           new == Append(tr, op)
           G == [n \in 0 .. m |-> IF n = m THEN g ELSE H[n]]
           L == [n \in 0 .. m |-> IF n = m THEN NextBlocks(op, k) ELSE K[n]]
<1>2. /\ Len(tr) \in Nat /\ Len(new) = m /\ new[m] = op
      /\ \A n \in 1 .. Len(tr) : new[n] = tr[n]
  OBVIOUS
<1>3. /\ G[m] = g /\ L[m] = NextBlocks(op, k)
      /\ \A n \in 0 .. Len(tr) : G[n] = H[n] /\ L[n] = K[n]
  BY <1>2
<1>4. m = Len(tr) + 1
  OBVIOUS
<1> HIDE DEF G, L, m, new
<1>5. /\ \E h0 \in Heap : H[0] = mm_init(h0)
      /\ K[0] = NoBlocks
      /\ \A n \in 0 .. Len(tr) : Held(H[n], K[n])
      /\ \A n \in 1 .. Len(tr) :
           /\ Granted(tr[n], H[n - 1], K[n - 1])
           /\ Leaves(tr[n], Reply(H[n - 1], K[n - 1], tr[n]), H[n])
           /\ K[n] = NextBlocks(tr[n], K[n - 1])
  BY <1>1 DEF Recorded
<1>6. \A n \in 0 .. Len(new) : Held(G[n], L[n])
  <2> TAKE n \in 0 .. Len(new)
  <2>1. n \in 0 .. Len(tr) \/ n = m
    BY <1>2, <1>4
  <2> QED BY <1>3, <1>5, <2>1
<1>7. ASSUME NEW n \in 1 .. Len(new)
      PROVE  /\ Granted(new[n], G[n - 1], L[n - 1])
             /\ Leaves(new[n], Reply(G[n - 1], L[n - 1], new[n]), G[n])
             /\ L[n] = NextBlocks(new[n], L[n - 1])
  <2>1. CASE n \in 1 .. Len(tr)
    <3>1. n - 1 \in 0 .. Len(tr) /\ n \in 0 .. Len(tr)
      BY <1>2, <2>1
    <3> QED BY <1>2, <1>3, <1>5, <2>1, <3>1
  <2>2. CASE n = m
    <3>1. n - 1 = Len(tr) /\ Len(tr) \in 0 .. Len(tr)
      BY <1>2, <1>4, <2>2
    <3> QED BY <1>1, <1>2, <1>3, <2>2, <3>1
  <2>3. n \in 1 .. Len(tr) \/ n = m
    BY <1>2, <1>4
  <2> QED BY <2>1, <2>2, <2>3
<1>8. G[0] = H[0] /\ L[0] = K[0]
  BY <1>2, <1>3
<1>9. Recorded(new, G, L)
  BY <1>5, <1>6, <1>7, <1>8 DEF Recorded
<1>10. Ends(new, g, NextBlocks(op, k))
  BY <1>2, <1>3, <1>9 DEF Ends
<1> QED BY <1>10 DEF new

(* A replay starts with what mm_init makes of any memory.                  *)
LEMMA FollowsInit ==
  ASSUME NEW tr, NEW H, NEW K, Recorded(tr, H, K), NEW g \in Heap
  PROVE  Follows(tr, 0, mm_init(g), NoBlocks)
<1>1. PICK h \in Heap : H[0] = mm_init(h)
  BY DEF Recorded
<1>2. Same(H[0], mm_init(g))
  BY <1>1, SameInit
<1>3. K[0] = NoBlocks
  BY DEF Recorded
<1> QED BY <1>2, <1>3 DEF Follows

(* Its blocks are owned.                                                   *)
LEMMA FollowsHeld ==
  ASSUME NEW tr, NEW n \in 0 .. Len(tr), NEW h, NEW k, Follows(tr, n, h, k)
  PROVE  Held(h, k)
<1>1. PICK H, K : Recorded(tr, H, K) /\ Same(H[n], h) /\ K[n] = k
  BY DEF Follows
<1>2. PICK sz : Owned(H[n], K[n], sz)
  BY <1>1 DEF Recorded, Held
<1>3. Owned(h, K[n], sz)
  BY <1>1, <1>2, OwnedSame
<1> QED BY <1>1, <1>3 DEF Held

(* The request just replayed has been answered as the trace says.          *)
LEMMA FollowsAnswer ==
  ASSUME NEW tr, Len(tr) \in Nat, NEW n \in 1 .. Len(tr), NEW h, NEW k, Follows(tr, n, h, k)
  PROVE  k[tr[n].index] = tr[n].answer
<1>1. PICK H, K : Recorded(tr, H, K) /\ Same(H[n], h) /\ K[n] = k
  BY DEF Follows
<1>2. n - 1 \in 0 .. Len(tr)
  OBVIOUS
<1>3. Granted(tr[n], H[n - 1], K[n - 1]) /\ K[n] = NextBlocks(tr[n], K[n - 1])
      /\ Held(H[n - 1], K[n - 1])
  BY <1>1, <1>2 DEF Recorded
<1>4. tr[n].index \in Ids /\ K[n - 1] \in [Ids -> Words]
  BY <1>3 DEF Granted, Legal, Held, Owned
<1> QED BY <1>1, <1>3, <1>4 DEF NextBlocks

(* A heap that somebody's blocks are in.                                   *)
LEMMA ReplyHeap ==
  ASSUME NEW h, NEW k, NEW sz, Owned(h, k, sz), NEW op, Granted(op, h, k)
  PROVE  Reply(h, k, op).heap \in Heap
<1>1. CASE op.type # "free"
  <2>1. Gives(h, k[op.index], op.size, Reply(h, k, op))
    BY <1>1, GrantedGives
  <2>2. Sane(Reply(h, k, op).heap)
    BY <2>1 DEF Gives, Turns
  <2> QED BY <2>2, LiveType
<1>2. CASE op.type = "free"
  <2>1. Reply(h, k, op).heap = mm_free(h, k[op.index])
    BY <1>2 DEF Reply
  <2>2. Sane(h) /\ k[op.index] \in Live(h)
    BY <1>2 DEF Owned, Granted, Legal
  <2>3. Sane(mm_free(h, k[op.index]))
    BY <2>2, FreeSane DEF Turns
  <2> QED BY <2>1, <2>3, LiveType
<1> QED BY <1>1, <1>2

(* A replay of n requests goes on with the next.                           *)
LEMMA FollowsMore ==
  ASSUME NEW tr, Len(tr) \in Nat, NEW n \in 0 .. Len(tr) - 1, NEW h, NEW k,
         Follows(tr, n, h, k)
  PROVE  /\ Granted(tr[n + 1], h, k)
         /\ Follows(tr, n + 1, Reply(h, k, tr[n + 1]).heap, NextBlocks(tr[n + 1], k))
<1> DEFINE op == tr[n + 1]
<1>1. PICK H, K : Recorded(tr, H, K) /\ Same(H[n], h) /\ K[n] = k
  BY DEF Follows
<1>2. n + 1 \in 1 .. Len(tr) /\ n \in 0 .. Len(tr) /\ (n + 1) - 1 = n
  OBVIOUS
<1>3. Granted(op, H[n], K[n]) /\ Leaves(op, Reply(H[n], K[n], op), H[n + 1])
      /\ K[n + 1] = NextBlocks(op, K[n]) /\ Held(H[n], K[n])
  BY <1>1, <1>2 DEF Recorded
<1>4. PICK sz : Owned(H[n], K[n], sz)
  BY <1>3 DEF Held
<1> HIDE DEF op
<1>5. Granted(op, h, k) /\ Same(H[n + 1], Reply(h, k, op).heap)
  BY <1>1, <1>3, <1>4, SameReply
<1>6. Follows(tr, n + 1, Reply(h, k, op).heap, NextBlocks(op, k))
  BY <1>1, <1>3, <1>5 DEF Follows
<1> QED BY <1>5, <1>6 DEF op

----------------------------------------------------------------------------
(* The inductive invariant.                                                *)

(* TypeOK, in two halves.                                                  *)
CountersOK ==
  /\ requests \in 0 .. MaxRequests
  /\ pass \in {"valid", "util", "speed"}
  /\ trace \in Seq(Op) /\ Len(trace) <= MaxReplayed
  /\ i \in 0 .. MaxRequests
  /\ runs \in 0 .. SpeedRuns

HoldingsOK ==
  /\ heap \in Heap
  /\ ranges \subseteq [lo : Words, hi : Words]
  /\ blocks \in [Ids -> Words]
  /\ block_sizes \in [Ids -> Sizes \cup {0}]
  /\ verdict \in Verdicts
  /\ total_size \in Nat /\ max_total_size \in Nat
  /\ grewBoth \in BOOLEAN

(* The first pass is at the end of the trace, which is as long as it can   *)
(* be replayed, and the replays are inside it.                             *)
Counted ==
  /\ i <= requests /\ Len(trace) <= requests
  /\ pass = "valid" => IF i <= MaxReplayed THEN Len(trace) = i ELSE trace = <<>>
  /\ pass # "valid" => i <= Len(trace)

(* The heap stays consistent, also when a request fails.                   *)
Consistent == ~ grewBoth => Sane(heap) /\ 4 + CHUNKSIZE <= heap.brk

(* The replays do not fail.                                                *)
Proceeding == pass # "valid" => Running

(* The first two passes know who has which block.                          *)
Owning == Running /\ pass # "speed" => Owned(heap, blocks, block_sizes)

(* The first pass is the recording of the trace.                           *)
Recording == Running /\ pass = "valid" /\ i <= MaxReplayed => Ends(trace, heap, blocks)

(* The others follow it.                                                   *)
Replay == pass # "valid" => Follows(trace, i, heap, blocks)

(* The second one adds up the payloads.                                    *)
Counting ==
  pass = "util" => total_size = Total(blocks, block_sizes) /\ max_total_size <= heap.brk

IInv == /\ CountersOK /\ HoldingsOK
        /\ Counted /\ Consistent /\ Proceeding /\ Owning /\ Recording /\ Replay /\ Counting

(* The types of the variables are the invariant's.                         *)
LEMMA TypesSplit == TypeOK <=> CountersOK /\ HoldingsOK
BY DEF TypeOK, CountersOK, HoldingsOK

(* The constants' types.                                                   *)
LEMMA DriverConstants ==
  /\ Ids \subseteq Nat /\ Sizes \subseteq Nat /\ MaxRequests \in Nat
  /\ MaxReplayed \in Nat /\ SpeedRuns \in Nat
  /\ NULL = 0 /\ NULL \in Words /\ Fault = -1 /\ Fault # NULL
BY IdsAssumption, SizesAssumption, MaxRequestsAssumption, MaxReplayedAssumption,
   SpeedRunsAssumption, ChunkAssumption, MaxHeapAssumption DEF NULL, Words, Fault

(* The sizes are numbers.                                                  *)
LEMMA SizesType == \A f \in [Ids -> Sizes \cup {0}] : f \in [Ids -> Nat]
<1>1. Sizes \cup {0} \subseteq Nat
  BY DriverConstants
<1> QED BY <1>1

(* The memory that mem_init gets is one.                                   *)
LEMMA FreshHeapType == FreshHeap \in Heap
BY MaxHeapAssumption DEF FreshHeap, Heap, NULL, Words

(* A fresh trace.                                                          *)
LEMMA StartsAnew ==
  ASSUME NEW h \in Heap
  PROVE  /\ mm_init(h) \in Heap /\ Sane(mm_init(h)) /\ mm_init(h).brk = 4 + CHUNKSIZE
         /\ Ends(<<>>, mm_init(h), NoBlocks)
         /\ NoBlocks \in [Ids -> Words]
         /\ [id \in Ids |-> 0] \in [Ids -> Sizes \cup {0}]
         /\ Owned(mm_init(h), NoBlocks, [id \in Ids |-> 0])
<1>1. Sane(mm_init(h)) /\ mm_init(h).brk = 4 + CHUNKSIZE
  BY InitSane
<1>2. mm_init(h) \in Heap
  BY <1>1, LiveType
<1>3. [id \in Ids |-> 0] \in [Ids -> Nat] /\ [id \in Ids |-> 0] \in [Ids -> Sizes \cup {0}]
  OBVIOUS
<1>4. Owned(mm_init(h), NoBlocks, [id \in Ids |-> 0])
  BY <1>3, OwnedInit
<1>5. NoBlocks \in [Ids -> Words]
  BY <1>4 DEF Owned
<1>6. Ends(<<>>, mm_init(h), NoBlocks)
  BY EndsInit
<1> QED BY <1>1, <1>2, <1>3, <1>4, <1>5, <1>6

(* The driver starts that way.                                             *)
LEMMA InitInv == Init => IInv
<1> SUFFICES ASSUME Init PROVE IInv
  OBVIOUS
<1> USE DEF Init
<1>1. /\ heap \in Heap /\ Sane(heap) /\ heap.brk = 4 + CHUNKSIZE
      /\ Ends(<<>>, heap, NoBlocks)
      /\ NoBlocks \in [Ids -> Words]
      /\ block_sizes \in [Ids -> Sizes \cup {0}]
      /\ Owned(heap, NoBlocks, block_sizes)
  BY FreshHeapType, StartsAnew
<1>2. trace \in Seq(Op) /\ Len(trace) = 0 /\ i = 0 /\ requests = 0 /\ runs = 0
  OBVIOUS
<1>3. CountersOK
  BY <1>2, DriverConstants DEF CountersOK
<1>4. HoldingsOK
  BY <1>1 DEF HoldingsOK, Verdicts
<1>5. Counted
  BY <1>2 DEF Counted
<1>6. Consistent
  BY <1>1, ChunkAssumption DEF Consistent
<1>7. Proceeding /\ Owning /\ Recording /\ Replay /\ Counting
  BY <1>1 DEF Proceeding, Owning, Recording, Replay, Counting
<1> QED BY <1>3, <1>4, <1>5, <1>6, <1>7 DEF IInv

(* A request is appended to the trace, as long as it can be replayed.      *)
LEMMA RequestCounts ==
  ASSUME IInv, Choosing, NEW type \in {"alloc", "realloc", "free"}, NEW id \in Ids,
         NEW size \in Sizes \cup {0}, NEW answer \in Words \cup {Fault},
         Request(type, id, size, answer)
  PROVE  /\ CountersOK' /\ Counted' /\ pass' = "valid" /\ pass = "valid" /\ totals' = totals
         /\ [type |-> type, index |-> id, size |-> size, answer |-> answer] \in Op
         /\ i' <= MaxReplayed =>
              /\ i <= MaxReplayed
              /\ trace' = Append(trace, [type |-> type, index |-> id,
                                         size |-> size, answer |-> answer])
<1> DEFINE op == [type |-> type, index |-> id, size |-> size, answer |-> answer]
<1>1. op \in Op
  BY DEF Op
<1>2. /\ requests' = requests + 1 /\ i' = i + 1 /\ pass' = pass /\ runs' = runs
      /\ totals' = totals /\ requests < MaxRequests /\ pass = "valid"
      /\ trace' = IF i >= MaxReplayed THEN <<>> ELSE Append(trace, op)
  BY DEF Request, Choosing
<1>3. /\ requests \in 0 .. MaxRequests /\ trace \in Seq(Op) /\ Len(trace) <= MaxReplayed
      /\ i \in 0 .. MaxRequests /\ runs \in 0 .. SpeedRuns /\ Len(trace) \in Nat
      /\ i <= requests /\ Len(trace) <= requests
      /\ IF i <= MaxReplayed THEN Len(trace) = i ELSE trace = <<>>
  BY <1>2 DEF IInv, CountersOK, Counted
<1> HIDE DEF op
<1>4. CASE i >= MaxReplayed
  <2>1. trace' = <<>> /\ trace' \in Seq(Op) /\ Len(trace') = 0 /\ ~ (i' <= MaxReplayed)
    BY <1>2, <1>3, <1>4, DriverConstants
  <2>2. CountersOK' /\ Counted'
    BY <1>2, <1>3, <2>1, DriverConstants DEF CountersOK, Counted
  <2> QED BY <1>1, <1>2, <2>1, <2>2 DEF op
<1>5. CASE ~ (i >= MaxReplayed)
  <2>1. trace' = Append(trace, op) /\ trace' \in Seq(Op) /\ Len(trace') = Len(trace) + 1
    BY <1>1, <1>2, <1>3, <1>5
  <2>2. i < MaxReplayed /\ Len(trace) = i
    BY <1>3, <1>5, DriverConstants
  <2>3. CountersOK' /\ Counted'
    BY <1>2, <1>3, <2>1, <2>2, DriverConstants DEF CountersOK, Counted
  <2> QED BY <1>1, <1>2, <2>1, <2>2, <2>3, DriverConstants DEF op
<1> QED BY <1>4, <1>5

(* A request that fails leaves a consistent heap, or the destroyed one.    *)
LEMMA FailureInv ==
  ASSUME CountersOK', HoldingsOK', Counted', pass' = "valid", ~ Running',
         ~ grewBoth' => Sane(heap') /\ 4 + CHUNKSIZE <= heap'.brk
  PROVE  IInv'
BY DEF IInv, Consistent, Proceeding, Owning, Recording, Replay, Counting

(* A request that is granted in the first pass.                            *)
LEMMA GrantInv ==
  ASSUME IInv, Choosing, NEW op \in Op, Granted(op, heap, blocks),
         Leaves(op, Reply(heap, blocks, op), heap'),
         i' <= MaxReplayed => i <= MaxReplayed /\ trace' = Append(trace, op),
         CountersOK', HoldingsOK', Counted', pass' = "valid",
         blocks' = NextBlocks(op, blocks), block_sizes' = NextSizes(op, block_sizes)
  PROVE  IInv'
<1>1. /\ Owned(heap, blocks, block_sizes) /\ 4 + CHUNKSIZE <= heap.brk
      /\ i <= MaxReplayed => Ends(trace, heap, blocks)
      /\ trace \in Seq(Op) /\ heap.brk \in Int
  BY LiveType DEF IInv, Choosing, Owning, Consistent, Recording, Running, CountersOK
<1>2. /\ Owned(heap', NextBlocks(op, blocks), NextSizes(op, block_sizes))
      /\ heap.brk <= heap'.brk
  BY <1>1, LeavesOwned
<1>3. Owned(heap', blocks', block_sizes')
  BY <1>2
<1>4. Sane(heap') /\ heap'.brk \in Int
  BY <1>3, LiveType DEF Owned
<1>5. 4 + CHUNKSIZE <= heap'.brk
  BY <1>1, <1>2, <1>4, ChunkAssumption
<1>6. i' <= MaxReplayed => Ends(trace', heap', blocks')
  <2>1. Held(heap', NextBlocks(op, blocks))
    BY <1>2 DEF Held
  <2>2. ASSUME i' <= MaxReplayed PROVE Ends(trace', heap', blocks')
    <3>1. Ends(trace, heap, blocks) /\ trace' = Append(trace, op)
      BY <1>1, <2>2
    <3>2. Ends(Append(trace, op), heap', NextBlocks(op, blocks))
      BY <1>1, <2>1, <3>1, EndsMore
    <3> QED BY <3>1, <3>2
  <2> QED BY <2>2
<1>7. Consistent' /\ Owning' /\ Recording'
  BY <1>3, <1>4, <1>5, <1>6 DEF Consistent, Owning, Recording
<1>8. Proceeding' /\ Replay' /\ Counting'
  BY DEF Proceeding, Replay, Counting
<1> QED BY <1>7, <1>8 DEF IInv

----------------------------------------------------------------------------
(* The requests of the first pass preserve it.                             *)

(* The request as the trace records it.                                    *)
Requested(type, id, size, answer) ==
  [type |-> type, index |-> id, size |-> size, answer |-> answer]

(* A range that add_range accepts lies in the memory.                      *)
LEMMA AddRangeType ==
  ASSUME NEW h \in Heap, NEW used, NEW lo \in Int, NEW n \in Nat
  PROVE  /\ add_range(h, used, lo, n) \in {"assertion", "unaligned", "outside", "overlap", "ok"}
         /\ add_range(h, used, lo, n) = "ok" => RangeAt(lo, n) \in [lo : Words, hi : Words]
<1>1. h.brk \in Int /\ h.brk <= MAX_HEAP /\ MAX_HEAP \in Int
  BY HeapType, MaxHeapAssumption
<1>2. add_range(h, used, lo, n) \in {"assertion", "unaligned", "outside", "overlap", "ok"}
  BY DEF add_range
<1>3. ASSUME add_range(h, used, lo, n) = "ok"
      PROVE  lo \in 0 .. h.brk - 1 /\ lo + n - 1 \in 0 .. h.brk - 1
  BY <1>3 DEF add_range
<1>4. \A x \in 0 .. h.brk - 1 : x \in Words
  BY <1>1 DEF Words
<1> QED BY <1>2, <1>3, <1>4 DEF RangeAt

(* A payload that is filled with a value.                                  *)
LEMMA RememberFills ==
  ASSUME NEW h, Sane(h), NEW b \in Live(h), NEW val \in Int, NEW n \in Int,
         n + 2 <= Size(h, b)
  PROVE  /\ Fills(h, memset(h, b, val, n), b)
         /\ \A k \in b .. b + n - 1 : memset(h, b, val, n).word[k] = val
<1>1. Good(h, HeapBlocks(h)) /\ b \in Taken(h, HeapBlocks(h))
  BY DEF Sane, Live
<1>2. n <= Size(h, b) - 2
  BY LiveType
<1> QED BY <1>1, <1>2, MemsetFills

(* The byte of an id, as a word.                                           *)
LEMMA FilledType == \A id \in Ids : Filled(id) \in Int
BY DriverConstants DEF Filled

(* What holds when the driver chooses a request.                           *)
LEMMA ChoosingState ==
  ASSUME IInv, Choosing
  PROVE  /\ pass = "valid" /\ verdict = "ok" /\ grewBoth = FALSE
         /\ heap \in Heap /\ Sane(heap) /\ Owned(heap, blocks, block_sizes)
         /\ heap.brk \in Int /\ 4 + CHUNKSIZE <= heap.brk
         /\ ranges \subseteq [lo : Words, hi : Words]
         /\ blocks \in [Ids -> Words] /\ block_sizes \in [Ids -> Sizes \cup {0}]
         /\ total_size \in Nat /\ max_total_size \in Nat
<1>1. /\ pass = "valid" /\ verdict = "ok" /\ grewBoth = FALSE /\ heap \in Heap
      /\ ranges \subseteq [lo : Words, hi : Words]
      /\ blocks \in [Ids -> Words] /\ block_sizes \in [Ids -> Sizes \cup {0}]
      /\ total_size \in Nat /\ max_total_size \in Nat
  BY DEF IInv, Choosing, Running, HoldingsOK
<1>2. Sane(heap) /\ 4 + CHUNKSIZE <= heap.brk /\ Owned(heap, blocks, block_sizes)
  BY <1>1 DEF IInv, Consistent, Owning, Running
<1> QED BY <1>1, <1>2, LiveType

(* A request that the driver reports or dies of.                           *)
LEMMA ReportInv ==
  ASSUME IInv, Choosing, NEW type \in {"alloc", "realloc", "free"}, NEW id \in Ids,
         NEW size \in Sizes \cup {0}, NEW answer \in Words \cup {Fault},
         Request(type, id, size, answer),
         NEW error \in Verdicts \ {"ok"}, NEW h \in Heap, Report(error, h),
         ranges' \subseteq [lo : Words, hi : Words], grewBoth' \in BOOLEAN,
         ~ grewBoth' => Sane(h) /\ heap.brk <= h.brk
  PROVE  IInv'
<1>1. CountersOK' /\ Counted' /\ pass' = "valid" /\ totals' = totals
  BY RequestCounts
<1>2. verdict' = error /\ heap' = h /\ blocks' = blocks /\ block_sizes' = block_sizes
  BY DEF Report
<1>3. total_size' = total_size /\ max_total_size' = max_total_size
  BY <1>1 DEF totals
<1>4. HoldingsOK'
  BY <1>2, <1>3, ChoosingState DEF HoldingsOK
<1>5. ~ Running'
  BY <1>2 DEF Running
<1>6. ~ grewBoth' => Sane(heap') /\ 4 + CHUNKSIZE <= heap'.brk
  <2>1. h.brk \in Int /\ heap.brk \in Int /\ 4 + CHUNKSIZE <= heap.brk /\ CHUNKSIZE \in Int
    BY ChoosingState, HeapType, ChunkAssumption
  <2> QED BY <1>2, <2>1
<1> QED BY <1>1, <1>4, <1>5, <1>6, FailureInv

(* A request that is granted.                                              *)
LEMMA RememberInv ==
  ASSUME IInv, Choosing, NEW type \in {"alloc", "realloc"}, NEW id \in Ids,
         NEW size \in Sizes \ {0}, NEW r, Gives(heap, blocks[id], size, r),
         r = Reply(heap, blocks, Requested(type, id, size, r.ptr)),
         Legal(Requested(type, id, size, r.ptr), heap, blocks),
         Request(type, id, size, r.ptr), Remember(id, r.heap, r.ptr, size),
         ranges' \subseteq [lo : Words, hi : Words], grewBoth' = FALSE
  PROVE  IInv'
<1> DEFINE op == Requested(type, id, size, r.ptr)
<1>1. /\ op.type = type /\ op.index = id /\ op.size = size /\ op.answer = r.ptr
      /\ op = [type |-> type, index |-> id, size |-> size, answer |-> r.ptr]
  BY DEF Requested
<1>2. r = Reply(heap, blocks, op) /\ Legal(op, heap, blocks)
  OBVIOUS
<1> HIDE DEF op
<1>3. size \in Nat \ {0} /\ size \in Sizes \cup {0} /\ size \in Int
  BY DriverConstants
<1>4. /\ Sane(r.heap) /\ r.ptr \in Live(r.heap) /\ r.ptr \in Words \ {NULL}
      /\ r.ptr \in Int /\ 4 <= r.ptr
      /\ Size(r.heap, r.ptr) \in Int /\ size + 4 <= Size(r.heap, r.ptr)
  BY <1>3, ChoosingState, GivesType
<1>5. r.ptr \notin {NULL, Fault}
  BY <1>4, DriverConstants
<1>6. /\ heap' = memset(r.heap, r.ptr, Filled(id), size)
      /\ blocks' = [blocks EXCEPT ![id] = r.ptr]
      /\ block_sizes' = [block_sizes EXCEPT ![id] = size] /\ verdict' = verdict
  BY DEF Remember
<1>7. Fills(r.heap, heap', r.ptr)
  <2>1. size + 2 <= Size(r.heap, r.ptr) /\ Filled(id) \in Int
    BY <1>3, <1>4, FilledType
  <2> QED BY <1>3, <1>4, <1>6, <2>1, RememberFills
<1>8. Granted(op, heap, blocks) /\ Leaves(op, Reply(heap, blocks, op), heap')
  BY <1>1, <1>2, <1>5, <1>7 DEF Granted, Leaves
<1>9. blocks' = NextBlocks(op, blocks) /\ block_sizes' = NextSizes(op, block_sizes)
  BY <1>1, <1>6 DEF NextBlocks, NextSizes
<1>10. /\ CountersOK' /\ Counted' /\ pass' = "valid" /\ totals' = totals
       /\ op \in Op
       /\ i' <= MaxReplayed => i <= MaxReplayed /\ trace' = Append(trace, op)
  BY <1>1, <1>3, <1>4, RequestCounts
<1>11. HoldingsOK'
  <2>1. heap' \in Heap
    BY <1>7 DEF Fills
  <2>2. blocks' \in [Ids -> Words] /\ block_sizes' \in [Ids -> Sizes \cup {0}]
    BY <1>3, <1>4, <1>6, ChoosingState
  <2>3. total_size' \in Nat /\ max_total_size' \in Nat
    BY <1>10, ChoosingState DEF totals
  <2> QED BY <1>6, <2>1, <2>2, <2>3, ChoosingState DEF HoldingsOK, Verdicts
<1> QED BY <1>8, <1>9, <1>10, <1>11, GrantInv

(* malloc.                                                                 *)
LEMMA AllocInv ==
  ASSUME IInv, NEW id \in Ids, NEW size \in Sizes, Alloc(id, size)
  PROVE  IInv'
<1> DEFINE r == mm_malloc(heap, size)
           judge == add_range(r.heap, ranges, r.ptr, size)
<1>1. /\ Choosing /\ (\A k \in Ids : block_sizes[k] = 0 <=> k >= id)
      /\ Request("alloc", id, size, r.ptr)
      /\ IF r.ptr = NULL
         THEN Report("malloc failed", r.heap) /\ ranges' = ranges
         ELSE IF judge # "ok" THEN Report(judge, r.heap) /\ ranges' = ranges
         ELSE /\ ranges' = ranges \cup {RangeAt(r.ptr, size)}
              /\ Remember(id, r.heap, r.ptr, size)
      /\ grewBoth' = grewBoth
  BY DEF Alloc
<1>2. /\ Sane(heap) /\ Owned(heap, blocks, block_sizes) /\ heap \in Heap /\ heap.brk \in Int
      /\ grewBoth' = FALSE /\ ranges \subseteq [lo : Words, hi : Words]
  BY <1>1, ChoosingState
<1>3. blocks[id] = NULL
  <2>1. id \in Nat /\ (block_sizes[id] = 0 <=> id >= id)
    BY <1>1, DriverConstants
  <2>2. block_sizes[id] = 0
    BY <2>1
  <2> QED BY <1>2, <2>2 DEF Owned
<1>4. size \in Nat
  BY DriverConstants
<1>5. r = Result(heap, NULL) \/ (size # 0 /\ Gives(heap, NULL, size, r))
  <2>1. CASE size = 0
    <3>1. mm_malloc(heap, 0) = Result(heap, NULL)
      BY MallocZero
    <3> QED BY <2>1, <3>1
  <2>2. CASE size # 0
    <3>1. size \in Nat \ {0}
      BY <1>4, <2>2
    <3>2. \/ Exhausted(heap, size) /\ mm_malloc(heap, size) = Result(heap, NULL)
          \/ Gives(heap, NULL, size, mm_malloc(heap, size))
      BY <1>2, <3>1, MallocSane
    <3> QED BY <2>2, <3>2
  <2> QED BY <2>1, <2>2
<1>6. CASE r = Result(heap, NULL)
  <2>1. r.ptr = NULL /\ r.heap = heap
    BY <1>6 DEF Result
  <2> HIDE DEF r
  <2>2. Report("malloc failed", heap) /\ Request("alloc", id, size, NULL) /\ ranges' = ranges
    BY <1>1, <2>1
  <2>3. "malloc failed" \in Verdicts \ {"ok"} /\ heap.brk <= heap.brk
    BY <1>2 DEF Verdicts
  <2> QED BY <1>1, <1>2, <2>2, <2>3, DriverConstants, ReportInv
<1>7. CASE size # 0 /\ Gives(heap, NULL, size, r)
  <2>1. /\ Sane(r.heap) /\ r.heap \in Heap /\ r.ptr \in Words \ {NULL} /\ r.ptr \in Int
        /\ heap.brk <= r.heap.brk
    <3> HIDE DEF r
    <3>1. heap.brk <= r.heap.brk
      BY <1>7 DEF Gives
    <3> QED BY <1>2, <1>4, <1>7, <3>1, GivesType
  <2>2. r = Reply(heap, blocks, Requested("alloc", id, size, r.ptr))
    BY DEF Reply, Requested
  <2>3. Legal(Requested("alloc", id, size, r.ptr), heap, blocks)
    BY <1>3, <1>4, <1>7 DEF Legal, Requested
  <2> HIDE DEF r
  <2>4. /\ judge \in {"assertion", "unaligned", "outside", "overlap", "ok"}
        /\ judge = "ok" => RangeAt(r.ptr, size) \in [lo : Words, hi : Words]
    BY <1>4, <2>1, AddRangeType
  <2> HIDE DEF judge
  <2>5. CASE judge # "ok"
    <3>1. judge \in Verdicts \ {"ok"}
      BY <2>4, <2>5 DEF Verdicts
    <3>2. Report(judge, r.heap) /\ ranges' = ranges
      BY <1>1, <2>1, <2>5
    <3> QED BY <1>1, <1>2, <2>1, <3>1, <3>2, ReportInv
  <2>6. CASE judge = "ok"
    <3>1. ranges' = ranges \cup {RangeAt(r.ptr, size)} /\ Remember(id, r.heap, r.ptr, size)
      BY <1>1, <2>1, <2>6
    <3>2. ranges' \subseteq [lo : Words, hi : Words]
      BY <1>2, <2>4, <2>6, <3>1
    <3>3. Gives(heap, blocks[id], size, r) /\ size \in Sizes \ {0}
      BY <1>3, <1>7
    <3> QED BY <1>1, <1>2, <2>2, <2>3, <3>1, <3>2, <3>3, RememberInv
  <2> QED BY <2>5, <2>6
<1> QED BY <1>5, <1>6, <1>7

(* realloc.                                                                *)
LEMMA ReallocInv ==
  ASSUME IInv, NEW id \in Ids, NEW size \in Sizes, Realloc(id, size)
  PROVE  IInv'
<1> DEFINE bp == blocks[id]
           r == mm_realloc(heap, bp, size)
           others == remove_range(ranges, bp)
           judge == add_range(r.heap, others, r.ptr, size)
<1>1. /\ Choosing /\ bp # NULL /\ Request("realloc", id, size, r.ptr)
      /\ grewBoth' = (Room(heap, bp, size).where = "both"
                      /\ Room(heap, bp, size).rest >= MIN_B_SIZE)
      /\ IF r.ptr = Fault THEN Report("fault", heap) /\ ranges' = ranges
         ELSE IF judge # "ok" THEN Report(judge, r.heap) /\ ranges' = others
         ELSE /\ ranges' = others \cup {RangeAt(r.ptr, size)}
              /\ \/ Remember(id, r.heap, r.ptr, size)
                 \/ Report("lost data", r.heap)
  BY DEF Realloc
<1>2. /\ Sane(heap) /\ Owned(heap, blocks, block_sizes) /\ heap \in Heap /\ heap.brk \in Int
      /\ ranges \subseteq [lo : Words, hi : Words]
      /\ verdict = "ok"
  BY <1>1, ChoosingState
<1>3. grewBoth' \in BOOLEAN /\ (grewBoth' <=> SplitsBoth(heap, bp, size))
  BY <1>1 DEF SplitsBoth
<1>4. bp \in Live(heap) /\ size \in Nat
  BY <1>1, <1>2, DriverConstants DEF Owned
<1>5. others \subseteq [lo : Words, hi : Words]
  BY <1>2 DEF remove_range
(* An answer that is a block in a heap is judged.                          *)
<1>6. ASSUME r.heap \in Heap, r.ptr \in Words, r.ptr \in Int, r.ptr # Fault,
             ~ grewBoth' => Sane(r.heap) /\ heap.brk <= r.heap.brk
      PROVE  \/ IInv'
             \/ /\ Remember(id, r.heap, r.ptr, size) /\ judge = "ok"
                /\ ranges' \subseteq [lo : Words, hi : Words]
  <2> HIDE DEF r, others, bp
  <2>1. /\ judge \in {"assertion", "unaligned", "outside", "overlap", "ok"}
        /\ judge = "ok" => RangeAt(r.ptr, size) \in [lo : Words, hi : Words]
    BY <1>4, <1>6, AddRangeType
  <2> HIDE DEF judge
  <2>2. CASE judge # "ok"
    <3>1. judge \in Verdicts \ {"ok"}
      BY <2>1, <2>2 DEF Verdicts
    <3>2. Report(judge, r.heap) /\ ranges' \subseteq [lo : Words, hi : Words]
      BY <1>1, <1>5, <1>6, <2>2
    <3>3. IInv'
      BY <1>1, <1>3, <1>6, <3>1, <3>2, ReportInv
    <3> QED BY <3>3
  <2>3. CASE judge = "ok"
    <3>1. ranges' = others \cup {RangeAt(r.ptr, size)}
          /\ (Remember(id, r.heap, r.ptr, size) \/ Report("lost data", r.heap))
      BY <1>1, <1>6, <2>3
    <3>2. ranges' \subseteq [lo : Words, hi : Words]
      BY <1>5, <2>1, <2>3, <3>1
    <3>3. CASE Report("lost data", r.heap)
      <4>1. "lost data" \in Verdicts \ {"ok"}
        BY DEF Verdicts
      <4>2. IInv'
        BY <1>1, <1>3, <1>6, <3>2, <3>3, <4>1, ReportInv
      <4> QED BY <4>2
    <3> QED BY <2>3, <3>1, <3>2, <3>3
  <2> QED BY <2>2, <2>3
<1>7. CASE size = 0
  <2>1. r.heap = mm_free(heap, bp) /\ r.ptr = bp /\ judge = "assertion"
    BY <1>1, <1>7, ReallocZero DEF Result, add_range
  <2>2. Sane(mm_free(heap, bp)) /\ mm_free(heap, bp).brk = heap.brk
    BY <1>2, <1>4, FreeSane DEF Turns
  <2>3. bp \in Words /\ bp \in Int /\ 4 <= bp
    BY <1>2, <1>4, LiveType
  <2>4. mm_free(heap, bp) \in Heap
    BY <2>2, LiveType
  <2>5. bp # Fault
    BY <2>3, DriverConstants
  <2> HIDE DEF r, judge, bp
  <2>6. r.heap \in Heap /\ r.ptr \in Words /\ r.ptr \in Int /\ r.ptr # Fault
        /\ Sane(r.heap) /\ heap.brk <= r.heap.brk
    BY <1>2, <2>1, <2>2, <2>3, <2>4, <2>5
  <2> QED BY <1>6, <2>1, <2>6
<1>8. CASE size # 0 /\ SplitsBoth(heap, bp, size)
  <2>1. size \in Nat \ {0} /\ Good(heap, HeapBlocks(heap)) /\ bp \in Taken(heap, HeapBlocks(heap))
    BY <1>2, <1>4, <1>8 DEF Sane, Live
  <2>2. r.heap \in Heap /\ r.ptr \in Words \ {NULL}
    <3> HIDE DEF bp
    <3> QED BY <1>8, <2>1, SplitsBothHeap
  <2>3. r.ptr \in Int /\ r.ptr # Fault
    BY <2>2, MaxHeapAssumption DEF Words, Fault
  <2>4. grewBoth'
    BY <1>3, <1>8
  <2>5. CASE Remember(id, r.heap, r.ptr, size) /\ ranges' \subseteq [lo : Words, hi : Words]
    <3> HIDE DEF r, bp
    <3>1. /\ heap' = memset(r.heap, r.ptr, Filled(id), size)
          /\ blocks' = [blocks EXCEPT ![id] = r.ptr]
          /\ block_sizes' = [block_sizes EXCEPT ![id] = size] /\ verdict' = verdict
      BY <2>5 DEF Remember
    <3>2. heap' \in Heap
      BY <1>4, <2>2, <2>3, <3>1, FilledType, MemsetHeap
    <3>3. blocks' \in [Ids -> Words] /\ block_sizes' \in [Ids -> Sizes \cup {0}]
      BY <1>1, <2>2, <3>1, ChoosingState
    <3>4. CountersOK' /\ Counted' /\ pass' = "valid" /\ totals' = totals
      BY <1>1, <2>2, RequestCounts
    <3>5. total_size' \in Nat /\ max_total_size' \in Nat
      BY <1>1, <3>4, ChoosingState DEF totals
    <3>6. HoldingsOK'
      BY <1>2, <1>3, <2>5, <3>1, <3>2, <3>3, <3>5 DEF HoldingsOK, Verdicts
    <3>7. ~ Running'
      BY <2>4 DEF Running
    <3> QED BY <2>4, <3>4, <3>6, <3>7, FailureInv
  <2> QED BY <1>6, <2>2, <2>3, <2>4, <2>5
<1>9. CASE size # 0 /\ ~ SplitsBoth(heap, bp, size)
  <2>1. size \in Nat \ {0} /\ ~ SplitsBoth(heap, bp, size) /\ grewBoth' = FALSE
    BY <1>3, <1>4, <1>9
  <2>2. r = Result(heap, Fault) \/ Gives(heap, bp, size, r)
    <3> HIDE DEF bp
    <3> QED BY <1>2, <1>4, <2>1, ReallocSane
  <2>3. CASE r = Result(heap, Fault)
    <3>1. r.ptr = Fault
      BY <2>3 DEF Result
    <3> HIDE DEF r, bp
    <3>2. Report("fault", heap) /\ Request("realloc", id, size, Fault) /\ ranges' = ranges
      BY <1>1, <3>1
    <3>3. "fault" \in Verdicts \ {"ok"} /\ heap.brk <= heap.brk
      BY <1>2 DEF Verdicts
    <3> QED BY <1>1, <1>2, <2>1, <3>2, <3>3, ReportInv
  <2>4. CASE Gives(heap, bp, size, r)
    <3>1. r = Reply(heap, blocks, Requested("realloc", id, size, r.ptr))
      BY DEF Reply, Requested
    <3>2. Legal(Requested("realloc", id, size, r.ptr), heap, blocks)
      BY <1>1, <2>1 DEF Legal, Requested
    <3>3. Gives(heap, blocks[id], size, r)
      BY <2>4
    <3> HIDE DEF r, bp
    <3>4. /\ Sane(r.heap) /\ r.heap \in Heap /\ r.ptr \in Words \ {NULL} /\ r.ptr \in Int
          /\ 4 <= r.ptr
      BY <1>2, <2>1, <2>4, GivesType
    <3>5. heap.brk <= r.heap.brk /\ r.ptr # Fault
      BY <2>4, <3>4, DriverConstants DEF Gives
    <3>6. CASE /\ Remember(id, r.heap, r.ptr, size)
               /\ ranges' \subseteq [lo : Words, hi : Words]
      BY <1>1, <2>1, <3>1, <3>2, <3>3, <3>6, RememberInv
    <3> QED BY <1>6, <3>4, <3>5, <3>6
  <2> QED BY <2>2, <2>3, <2>4
<1> QED BY <1>7, <1>8, <1>9

(* free.                                                                   *)
LEMMA FreeInv ==
  ASSUME IInv, NEW id \in Ids, Free(id)
  PROVE  IInv'
<1> DEFINE op == Requested("free", id, 0, NULL)
<1>1. /\ Choosing /\ blocks[id] # NULL /\ Request("free", id, 0, NULL)
      /\ ranges' = remove_range(ranges, blocks[id])
      /\ heap' = mm_free(heap, blocks[id])
      /\ blocks' = [blocks EXCEPT ![id] = NULL]
      /\ block_sizes' = block_sizes /\ verdict' = verdict /\ grewBoth' = grewBoth
  BY DEF Free
<1>2. /\ op.type = "free" /\ op.index = id /\ op.answer = NULL
      /\ op = [type |-> "free", index |-> id, size |-> 0, answer |-> NULL]
  BY DEF Requested
<1> HIDE DEF op
<1>3. /\ CountersOK' /\ Counted' /\ pass' = "valid" /\ totals' = totals
      /\ op \in Op
      /\ i' <= MaxReplayed => i <= MaxReplayed /\ trace' = Append(trace, op)
  BY <1>1, <1>2, DriverConstants, RequestCounts
<1>4. Reply(heap, blocks, op) = [heap |-> mm_free(heap, blocks[id]), ptr |-> NULL]
  BY <1>2 DEF Reply
<1>5. Granted(op, heap, blocks) /\ Leaves(op, Reply(heap, blocks, op), heap')
  BY <1>1, <1>2, <1>4 DEF Granted, Legal, Leaves
<1>6. blocks' = NextBlocks(op, blocks) /\ block_sizes' = NextSizes(op, block_sizes)
  BY <1>1, <1>2 DEF NextBlocks, NextSizes
<1>7. HoldingsOK'
  <2>1. Sane(heap) /\ blocks[id] \in Live(heap)
    BY <1>1, ChoosingState DEF Owned
  <2>2. heap' \in Heap
    BY <1>1, <2>1, FreeSane, LiveType DEF Turns
  <2>3. blocks' \in [Ids -> Words]
    BY <1>1, ChoosingState, DriverConstants
  <2>4. total_size' \in Nat /\ max_total_size' \in Nat
    BY <1>1, <1>3, ChoosingState DEF totals
  <2>5. ranges' \subseteq [lo : Words, hi : Words]
    BY <1>1, ChoosingState DEF remove_range
  <2> QED BY <1>1, <2>2, <2>3, <2>4, <2>5, ChoosingState DEF HoldingsOK, Verdicts
<1> QED BY <1>1, <1>3, <1>5, <1>6, <1>7, GrantInv

----------------------------------------------------------------------------
(* The passes and the replays preserve it.                                 *)

(* What holds at the end of a trace that can be replayed.                  *)
LEMMA ServedState ==
  ASSUME IInv, Served
  PROVE  /\ verdict = "ok" /\ grewBoth = FALSE /\ heap \in Heap
         /\ 4 + CHUNKSIZE <= heap.brk
         /\ Len(trace) \in Nat
         /\ \E H, K : Recorded(trace, H, K)
<1>1. verdict = "ok" /\ grewBoth = FALSE /\ heap \in Heap /\ 4 + CHUNKSIZE <= heap.brk
  BY DEF IInv, Served, Running, HoldingsOK, Consistent
<1>2. trace \in Seq(Op) /\ trace # <<>> /\ i = Len(trace) /\ Len(trace) <= MaxReplayed
      /\ pass \in {"valid", "util", "speed"}
  BY DEF IInv, Served, CountersOK
<1>3. CASE pass = "valid"
  <2>1. i <= MaxReplayed
    BY <1>2
  <2>2. Ends(trace, heap, blocks)
    BY <1>3, <2>1 DEF IInv, Recording, Served
  <2> QED BY <1>1, <1>2, <2>2 DEF Ends
<1>4. CASE pass # "valid"
  <2>1. Follows(trace, i, heap, blocks)
    BY <1>4 DEF IInv, Replay
  <2> QED BY <1>1, <1>2, <2>1 DEF Follows
<1> QED BY <1>3, <1>4

(* The next pass starts.                                                   *)
LEMMA RestartInv ==
  ASSUME IInv, Served, NEW next \in {"util", "speed"}, Restart(next),
         runs' \in 0 .. SpeedRuns, total_size' \in Nat, max_total_size' \in Nat,
         next = "util" => total_size' = 0 /\ max_total_size' = 0
  PROVE  IInv'
<1>1. /\ pass' = next /\ i' = 0 /\ heap' = mm_init(heap) /\ blocks' = NoBlocks
      /\ trace' = trace /\ ranges' = ranges /\ block_sizes' = block_sizes
      /\ requests' = requests /\ verdict' = verdict /\ grewBoth' = grewBoth
  BY DEF Restart
<1>2. /\ verdict = "ok" /\ grewBoth = FALSE /\ heap \in Heap /\ Len(trace) \in Nat
  BY ServedState
<1>3. PICK H, K : Recorded(trace, H, K)
  BY ServedState
<1>4. /\ heap' \in Heap /\ Sane(heap') /\ heap'.brk = 4 + CHUNKSIZE
      /\ blocks' \in [Ids -> Words]
  BY <1>1, <1>2, StartsAnew
<1>5. Follows(trace', i', heap', blocks')
  BY <1>1, <1>2, <1>3, FollowsInit
<1>6. block_sizes \in [Ids -> Sizes \cup {0}] /\ block_sizes \in [Ids -> Nat]
  BY SizesType DEF IInv, HoldingsOK
<1>7. Owned(heap', blocks', block_sizes')
  BY <1>1, <1>2, <1>6, OwnedInit
<1>8. CountersOK' /\ Counted'
  BY <1>1, <1>2, DriverConstants DEF IInv, CountersOK, Counted
<1>9. HoldingsOK'
  BY <1>1, <1>4 DEF IInv, HoldingsOK
<1>10. Consistent' /\ Proceeding' /\ Owning' /\ Recording' /\ Replay'
  BY <1>1, <1>2, <1>4, <1>5, <1>7, ChunkAssumption
     DEF Consistent, Proceeding, Owning, Recording, Replay, Running
<1>11. Counting'
  BY <1>1, <1>4, TotalNone, ChunkAssumption DEF Counting
<1> QED BY <1>8, <1>9, <1>10, <1>11 DEF IInv

(* eval_mm_util starts.                                                    *)
LEMMA StartUtilInv == ASSUME IInv, StartUtil PROVE IInv'
<1>1. Served /\ Restart("util") /\ total_size' = 0 /\ max_total_size' = 0 /\ runs' = runs
  BY DEF StartUtil
<1>2. runs' \in 0 .. SpeedRuns
  BY <1>1 DEF IInv, CountersOK
<1> QED BY <1>1, <1>2, RestartInv

(* eval_mm_speed starts.                                                   *)
LEMMA StartSpeedInv == ASSUME IInv, StartSpeed PROVE IInv'
<1>1. Served /\ Restart("speed") /\ totals' = totals /\ runs < SpeedRuns /\ runs' = runs + 1
  BY DEF StartSpeed, TimeAgain
<1>2. runs' \in 0 .. SpeedRuns
  BY <1>1, DriverConstants DEF IInv, CountersOK
<1>3. total_size' \in Nat /\ max_total_size' \in Nat
  BY <1>1 DEF IInv, HoldingsOK, totals
<1> QED BY <1>1, <1>2, <1>3, RestartInv

(* The next trace starts.                                                  *)
LEMMA NextTraceInv == ASSUME IInv, NextTrace PROVE IInv'
<1>1. /\ requests < MaxRequests /\ requests' = requests + 1
      /\ pass' = "valid" /\ trace' = <<>> /\ i' = 0 /\ runs' = 0
      /\ heap' = mm_init(heap) /\ ranges' = {} /\ blocks' = NoBlocks
      /\ block_sizes' = [id \in Ids |-> 0] /\ verdict' = "ok"
      /\ totals' = totals /\ grewBoth' = grewBoth
  BY DEF NextTrace
<1>2. heap \in Heap /\ grewBoth \in BOOLEAN /\ total_size \in Nat /\ max_total_size \in Nat
  BY DEF IInv, HoldingsOK
<1>3. /\ heap' \in Heap /\ Sane(heap') /\ heap'.brk = 4 + CHUNKSIZE
      /\ Ends(<<>>, heap', NoBlocks) /\ NoBlocks \in [Ids -> Words]
      /\ block_sizes' \in [Ids -> Sizes \cup {0}]
      /\ Owned(heap', NoBlocks, block_sizes')
  BY <1>1, <1>2, StartsAnew
<1>4. trace' \in Seq(Op) /\ Len(trace') = 0
  BY <1>1
<1>5. CountersOK' /\ Counted'
  BY <1>1, <1>4, DriverConstants DEF IInv, CountersOK, Counted
<1>6. HoldingsOK'
  BY <1>1, <1>2, <1>3 DEF HoldingsOK, Verdicts, totals
<1>7. Consistent' /\ Proceeding' /\ Owning' /\ Recording' /\ Replay' /\ Counting'
  BY <1>1, <1>3, ChunkAssumption
     DEF Consistent, Proceeding, Owning, Recording, Replay, Counting
<1> QED BY <1>5, <1>6, <1>7 DEF IInv

(* A request that is replayed is answered as in the first pass.            *)
LEMMA ReplayedState ==
  ASSUME IInv, NEW name \in {"util", "speed"}, Replaying(name),
         Again(trace[i + 1], Answer(trace[i + 1]))
  PROVE  /\ pass = name /\ pass' = name /\ Running /\ Running'
         /\ trace[i + 1] \in Op /\ Granted(trace[i + 1], heap, blocks)
         /\ heap' = Reply(heap, blocks, trace[i + 1]).heap
         /\ blocks' = NextBlocks(trace[i + 1], blocks)
         /\ Follows(trace', i', heap', blocks')
         /\ CountersOK' /\ Counted'
         /\ grewBoth' = FALSE /\ verdict' = "ok" /\ ranges' = ranges
<1> DEFINE op == trace[i + 1]
           r == Reply(heap, blocks, op)
<1>1. /\ verdict = "ok" /\ grewBoth = FALSE /\ pass = name /\ i < Len(trace)
      /\ trace \in Seq(Op) /\ Len(trace) \in Nat /\ i \in Nat
      /\ Follows(trace, i, heap, blocks)
  BY DEF Replaying, Running, IInv, CountersOK, Replay
<1>2. op \in Op /\ i \in 0 .. Len(trace) - 1
  BY <1>1
<1>3. Granted(op, heap, blocks) /\ Follows(trace, i + 1, r.heap, NextBlocks(op, blocks))
  BY <1>1, <1>2, FollowsMore
<1>4. Answer(op) = r
  BY DEF Answer, Reply
<1> HIDE DEF op, r
<1>5. /\ heap' = r.heap /\ blocks' = [blocks EXCEPT ![op.index] = r.ptr]
      /\ verdict' = IF r.ptr = Fault THEN "fault"
                    ELSE IF r.ptr = NULL /\ op.type # "free" THEN "app_error"
                    ELSE "ok"
      /\ i' = i + 1
      /\ ranges' = ranges /\ requests' = requests /\ pass' = pass
      /\ trace' = trace /\ runs' = runs /\ grewBoth' = grewBoth
  BY <1>4 DEF Again, op
<1>6. /\ op.answer = r.ptr
      /\ op.type # "free" => r.ptr \notin {NULL, Fault}
      /\ op.type = "free" => r.ptr # Fault
  <2>1. op.type = "free" => r.ptr = NULL
    BY <1>3 DEF r, Reply, Granted, Legal
  <2> QED BY <1>3, <2>1, DriverConstants DEF Granted, r
<1>7. verdict' = "ok" /\ blocks' = NextBlocks(op, blocks)
  BY <1>5, <1>6 DEF NextBlocks
<1>8. CountersOK' /\ Counted'
  <2>1. /\ requests \in 0 .. MaxRequests /\ Len(trace) <= MaxReplayed
        /\ runs \in 0 .. SpeedRuns /\ Len(trace) <= requests
        /\ pass \in {"valid", "util", "speed"} /\ pass # "valid"
    BY <1>1 DEF IInv, CountersOK, Counted
  <2>2. i + 1 <= Len(trace) /\ i + 1 \in 0 .. MaxRequests /\ i + 1 <= requests
    BY <1>1, <2>1, DriverConstants
  <2> QED BY <1>1, <1>5, <2>1, <2>2 DEF CountersOK, Counted
<1>9. Follows(trace', i', heap', blocks')
  BY <1>3, <1>5, <1>7
<1>10. Running /\ Running' /\ grewBoth' = FALSE
  BY <1>1, <1>5, <1>7 DEF Running
<1> QED BY <1>1, <1>2, <1>3, <1>5, <1>7, <1>8, <1>9, <1>10 DEF op, r

(* A replay goes on.                                                       *)
LEMMA ReplayInv ==
  ASSUME IInv, NEW name \in {"util", "speed"}, Replaying(name),
         Again(trace[i + 1], Answer(trace[i + 1])),
         block_sizes' \in [Ids -> Sizes \cup {0}],
         total_size' \in Nat, max_total_size' \in Nat, Owning', Counting'
  PROVE  IInv'
<1> DEFINE op == trace[i + 1]
<1>1. /\ pass' = name /\ Running' /\ Granted(op, heap, blocks)
      /\ heap' = Reply(heap, blocks, op).heap /\ blocks' = NextBlocks(op, blocks)
      /\ Follows(trace', i', heap', blocks') /\ CountersOK' /\ Counted'
      /\ grewBoth' = FALSE /\ verdict' = "ok" /\ ranges' = ranges
  BY ReplayedState
<1>2. Follows(trace, i, heap, blocks) /\ i \in 0 .. Len(trace)
      /\ Sane(heap) /\ 4 + CHUNKSIZE <= heap.brk /\ ranges \subseteq [lo : Words, hi : Words]
  BY DEF Replaying, Running, IInv, CountersOK, HoldingsOK, Counted, Consistent, Replay
<1>3. PICK sz : Owned(heap, blocks, sz)
  BY <1>2, FollowsHeld DEF Held
<1> HIDE DEF op
<1>4. heap' \in Heap
  BY <1>1, <1>3, ReplyHeap
<1>5. Leaves(op, Reply(heap, blocks, op), heap')
  BY <1>1, <1>4, FillsNothing DEF Leaves
<1>6. Owned(heap', blocks', NextSizes(op, sz)) /\ heap.brk <= heap'.brk
  BY <1>1, <1>3, <1>5, LeavesOwned
<1>7. Sane(heap') /\ blocks' \in [Ids -> Words]
  BY <1>6 DEF Owned
<1>8. 4 + CHUNKSIZE <= heap'.brk
  BY <1>2, <1>6, <1>7, LiveType, ChunkAssumption
<1>9. HoldingsOK'
  BY <1>1, <1>2, <1>4, <1>7 DEF HoldingsOK, Verdicts
<1>10. Consistent' /\ Proceeding' /\ Recording' /\ Replay'
  BY <1>1, <1>7, <1>8 DEF Consistent, Proceeding, Recording, Replay
<1> QED BY <1>1, <1>9, <1>10 DEF IInv

(* eval_mm_speed replays a request.                                        *)
LEMMA EvalSpeedInv ==
  ASSUME IInv, Replaying("speed"), EvalSpeed(trace[i + 1])
  PROVE  IInv'
<1>1. Again(trace[i + 1], Answer(trace[i + 1])) /\ block_sizes' = block_sizes
      /\ totals' = totals
  BY DEF EvalSpeed
<1>2. pass' = "speed"
  BY <1>1, ReplayedState
<1>3. Owning' /\ Counting'
  BY <1>2 DEF Owning, Counting
<1>4. block_sizes' \in [Ids -> Sizes \cup {0}] /\ total_size' \in Nat /\ max_total_size' \in Nat
  BY <1>1 DEF IInv, HoldingsOK, totals
<1> QED BY <1>1, <1>3, <1>4, ReplayInv

(* eval_mm_util replays a request and adds up.                             *)
LEMMA EvalUtilInv ==
  ASSUME IInv, Replaying("util"), EvalUtil(trace[i + 1])
  PROVE  IInv'
<1> DEFINE op == trace[i + 1]
<1>1. /\ Again(op, Answer(op))
      /\ block_sizes' = IF op.type = "free" THEN block_sizes
                        ELSE [block_sizes EXCEPT ![op.index] = op.size]
      /\ total_size' = total_size + Growth(op)
      /\ max_total_size' = IF op.type # "free" /\ total_size' > max_total_size
                           THEN total_size' ELSE max_total_size
  BY DEF EvalUtil
<1>2. /\ pass = "util" /\ Running /\ op \in Op /\ Granted(op, heap, blocks)
      /\ heap' = Reply(heap, blocks, op).heap /\ blocks' = NextBlocks(op, blocks)
  BY <1>1, ReplayedState
<1> HIDE DEF op
<1>3. /\ Owned(heap, blocks, block_sizes) /\ heap.brk \in Int
      /\ total_size = Total(blocks, block_sizes) /\ max_total_size <= heap.brk
      /\ max_total_size \in Nat /\ block_sizes \in [Ids -> Sizes \cup {0}]
      /\ blocks \in [Ids -> Words]
  BY <1>2, LiveType DEF IInv, Owning, Counting, Consistent, HoldingsOK, Running
<1>4. Leaves(op, Reply(heap, blocks, op), heap')
  <2>1. heap' \in Heap
    BY <1>2, <1>3, ReplyHeap
  <2> QED BY <1>2, <2>1, FillsNothing DEF Leaves
<1>5. block_sizes' = NextSizes(op, block_sizes)
  BY <1>1 DEF NextSizes
<1>6. Owned(heap', blocks', block_sizes') /\ heap.brk <= heap'.brk
  BY <1>2, <1>3, <1>4, <1>5, LeavesOwned
<1>7. total_size' = Total(blocks', block_sizes')
  <2> DEFINE id == op.index
  <2>1. id \in Ids
    BY <1>2 DEF Granted, Legal
  <2>2. \A x \in Ids \ {id} : blocks'[x] = blocks[x] /\ block_sizes'[x] = block_sizes[x]
    BY <1>1, <1>2, <1>3, <2>1 DEF NextBlocks
  <2>3. /\ Total(blocks, block_sizes) \in Nat
        /\ Counts(blocks, block_sizes, id) \in Nat /\ Counts(blocks', block_sizes', id) \in Nat
        /\ Total(blocks', block_sizes') = Total(blocks, block_sizes)
              - Counts(blocks, block_sizes, id) + Counts(blocks', block_sizes', id)
    <3> HIDE DEF id
    <3> QED BY <1>3, <1>6, <2>1, <2>2, TotalChanged
  <2>4. block_sizes[id] \in Nat /\ blocks'[id] = op.answer
    <3>1. block_sizes \in [Ids -> Nat]
      BY <1>3, SizesType
    <3> QED BY <1>2, <1>3, <2>1, <3>1 DEF NextBlocks
  <2>5. CASE op.type = "free"
    <3>1. blocks[id] # NULL /\ op.answer = NULL
      BY <1>2, <2>5 DEF Granted, Legal, Reply
    <3>2. Growth(op) = -block_sizes[id]
      BY <2>5 DEF Growth
    <3>3. Counts(blocks, block_sizes, id) = block_sizes[id] /\ Counts(blocks', block_sizes', id) = 0
      BY <2>4, <3>1 DEF Counts
    <3> HIDE DEF id
    <3> QED BY <1>1, <1>3, <2>3, <2>4, <3>2, <3>3
  <2>6. CASE op.type # "free"
    <3>1. /\ op.size \in Nat \ {0} /\ op.answer # NULL
          /\ (op.type = "alloc" /\ blocks[id] = NULL)
             \/ (op.type = "realloc" /\ blocks[id] # NULL)
      BY <1>2, <2>6 DEF Granted, Legal
    <3>2. block_sizes'[id] = op.size
      BY <1>1, <1>3, <2>1, <2>6
    <3>3. Growth(op) = op.size - Counts(blocks, block_sizes, id)
      BY <2>4, <3>1 DEF Growth, Counts
    <3>4. Counts(blocks', block_sizes', id) = op.size
      BY <2>4, <3>1, <3>2 DEF Counts
    <3> HIDE DEF id
    <3> QED BY <1>1, <1>3, <2>3, <3>1, <3>3, <3>4
  <2> QED BY <2>5, <2>6
<1>8. total_size' \in Nat /\ total_size' <= heap'.brk /\ heap'.brk \in Int
  <2>1. Total(blocks', block_sizes') \in Nat /\ Total(blocks', block_sizes') <= heap'.brk
    BY <1>6, UsedFits
  <2>2. heap'.brk \in Int
    BY <1>6, LiveType DEF Owned
  <2> QED BY <1>7, <2>1, <2>2
<1>9. max_total_size' \in Nat /\ max_total_size' <= heap'.brk
  BY <1>1, <1>3, <1>6, <1>8
<1>10. block_sizes' \in [Ids -> Sizes \cup {0}]
  <2>1. op.size \in Sizes \cup {0}
    BY <1>2 DEF Op
  <2> QED BY <1>1, <1>3, <2>1
<1>11. Owning' /\ Counting'
  BY <1>6, <1>7, <1>9 DEF Owning, Counting
<1>12. Again(trace[i + 1], Answer(trace[i + 1]))
  BY <1>1 DEF op
<1> QED BY <1>8, <1>9, <1>10, <1>11, <1>12, ReplayInv

----------------------------------------------------------------------------
(* The invariant, and what follows from it.                                *)

(* Every step preserves it.                                                *)
LEMMA NextInv == IInv /\ [Next]_vars => IInv'
<1> SUFFICES ASSUME IInv, [Next]_vars PROVE IInv'
  OBVIOUS
<1>1. ASSUME NEW id \in Ids, NEW n \in Sizes, Alloc(id, n) PROVE IInv'
  BY <1>1, AllocInv
<1>2. ASSUME NEW id \in Ids, NEW n \in Sizes, Realloc(id, n) PROVE IInv'
  BY <1>2, ReallocInv
<1>3. ASSUME NEW id \in Ids, Free(id) PROVE IInv'
  BY <1>3, FreeInv
<1>4. CASE StartUtil
  BY <1>4, StartUtilInv
<1>5. CASE StartSpeed
  BY <1>5, StartSpeedInv
<1>6. CASE NextTrace
  BY <1>6, NextTraceInv
<1>7. CASE Replaying("util") /\ EvalUtil(trace[i + 1])
  BY <1>7, EvalUtilInv
<1>8. CASE Replaying("speed") /\ EvalSpeed(trace[i + 1])
  BY <1>8, EvalSpeedInv
<1>9. CASE UNCHANGED vars
  BY <1>9 DEF vars, trackers, totals, IInv, CountersOK, HoldingsOK, Counted, Consistent,
       Proceeding, Owning, Recording, Replay, Counting, Running
<1>10. CASE Ended
  BY <1>9, <1>10 DEF Ended
<1> QED BY <1>1, <1>2, <1>3, <1>4, <1>5, <1>6, <1>7, <1>8, <1>9, <1>10 DEF Next

(* It holds in every state the driver reaches.                             *)
THEOREM Inductive == Spec => []IInv
<1>1. Init => IInv
  BY InitInv
<1>2. IInv /\ [Next]_vars => IInv'
  BY NextInv
<1> QED BY <1>1, <1>2, PTL DEF Spec

(* Every variable of the driver has its type, the totals of a replay are   *)
(* never negative, and the destroyed heap is still a heap.                 *)
THEOREM TypeCorrect == Spec => []TypeOK
<1>1. IInv => TypeOK
  BY TypesSplit DEF IInv
<1> QED BY <1>1, Inductive, PTL

(* A block's footer repeats its header, and no block is too small.         *)
THEOREM AllTagsAgree == Spec => []TagsAgree
<1>1. ASSUME IInv PROVE TagsAgree
  <2>1. CASE grewBoth
    BY <2>1 DEF TagsAgree, Sound
  <2>2. CASE ~ grewBoth
    <3>1. heap \in Heap /\ Tiled(heap, HeapBlocks(heap))
      BY <1>1, <2>2 DEF IInv, Consistent, Sane, Good, Laid
    <3>2. \A bp \in HeapBlocks(heap) :
            /\ heap.word[HDRP(bp)] = heap.word[FTRP(heap, bp)]
            /\ GET_SIZE(heap, HDRP(bp)) >= MIN_B_SIZE
      BY <3>1, BlockInHeap
    <3> QED BY <3>2 DEF TagsAgree, Sound
  <2> QED BY <2>1, <2>2
<1> QED BY <1>1, Inductive, PTL

(* mm_check succeeds after every request, as long as the trace has not     *)
(* taken the branch of mm_realloc that destroys the heap.                  *)
THEOREM HeapStaysConsistent == Spec => []HeapIsConsistent
<1>1. ASSUME IInv PROVE HeapIsConsistent
  <2>1. CASE grewBoth
    BY <2>1 DEF HeapIsConsistent, Sound
  <2>2. CASE ~ grewBoth
    <3>1. mm_check(heap)
      BY <1>1, <2>2, CheckGood DEF IInv, Consistent, Sane
    <3> QED BY <3>1 DEF HeapIsConsistent, Sound
  <2> QED BY <2>1, <2>2
<1> QED BY <1>1, Inductive, PTL

(* The free list is linked both ways.                                      *)
THEOREM FreeListLinkedBothWays == Spec => []FreeListIsDoublyLinked
<1>1. ASSUME IInv PROVE FreeListIsDoublyLinked
  <2>1. CASE grewBoth
    BY <2>1 DEF FreeListIsDoublyLinked, Sound
  <2>2. CASE ~ grewBoth
    <3>1. Good(heap, HeapBlocks(heap))
      BY <1>1, <2>2 DEF IInv, Consistent, Sane
    <3>2. FreeList(heap) = Unused(heap)
      BY <3>1, FreeListIs DEF Unused
    <3>3. Linked(heap, Unused(heap))
      BY <3>1 DEF Good, Laid, Listed, Unused
    <3>4. \A bp \in FreeList(heap) :
            /\ PRED_BLKP(heap, bp) = NULL <=> bp = heap.free_list_start
            /\ SUCC_BLKP(heap, bp) # NULL => PRED_BLKP(heap, SUCC_BLKP(heap, bp)) = bp
      BY <3>2, <3>3 DEF Linked
    <3> QED BY <3>4 DEF FreeListIsDoublyLinked, Sound
  <2> QED BY <2>1, <2>2
<1> QED BY <1>1, Inductive, PTL

(* The allocated blocks are those of the ids in use, each its own and      *)
(* large enough: no block is leaked, shared or cut short.                  *)
THEOREM AllBlocksOwned == Spec => []BlocksAreOwned
<1>1. ASSUME IInv PROVE BlocksAreOwned
  <2>1. CASE grewBoth \/ verdict # "ok"
    BY <2>1 DEF BlocksAreOwned, Sound
  <2>2. CASE Running
    <3>1. PICK sz : Owned(heap, blocks, sz) /\ (pass # "speed" => sz = block_sizes)
      <4>1. CASE pass # "speed"
        BY <1>1, <2>2, <4>1 DEF IInv, Owning
      <4>2. CASE pass = "speed"
        <5>1. Follows(trace, i, heap, blocks) /\ i \in 0 .. Len(trace)
          BY <1>1, <4>2 DEF IInv, Replay, Counted, CountersOK
        <5>2. Held(heap, blocks)
          BY <5>1, FollowsHeld
        <5> QED BY <4>2, <5>2 DEF Held
      <4> QED BY <4>1, <4>2
    <3>2. /\ Live(heap) = {blocks[id] : id \in Ids} \ {NULL}
          /\ \A id \in Ids : blocks[id] # NULL =>
               /\ sz[id] + 2 <= Size(heap, blocks[id])
               /\ \A other \in Ids : blocks[other] = blocks[id] => other = id
      BY <3>1 DEF Owned
    <3>3. {bp \in HeapBlocks(heap) : ~ IsFree(heap, bp)} = Live(heap)
      BY DEF Live, Taken
    <3>4. \A id \in Ids : blocks[id] # NULL =>
            /\ pass # "speed" =>
                 block_sizes[id] + 2 <= GET_SIZE(heap, HDRP(blocks[id]))
            /\ \A k \in Ids \ {id} : blocks[k] # blocks[id]
      BY <3>1, <3>2 DEF Size
    <3> QED BY <3>2, <3>3, <3>4 DEF BlocksAreOwned, Sound
  <2> QED BY <2>1, <2>2 DEF Running
<1> QED BY <1>1, Inductive, PTL

(* A replay is answered as the first pass was, address by address: what    *)
(* earlier passes have left in the memory makes no difference.             *)
THEOREM ReplaysAnswerAlike == Spec => []ReplaysAlike
<1>1. ASSUME IInv PROVE ReplaysAlike
  <2>1. CASE pass = "valid"
    BY <2>1 DEF ReplaysAlike, Sound
  <2>2. CASE pass # "valid"
    <3>1. /\ verdict = "ok" /\ Follows(trace, i, heap, blocks)
          /\ Len(trace) \in Nat /\ i \in Nat /\ i <= Len(trace)
      BY <1>1, <2>2 DEF IInv, Proceeding, Running, Replay, Counted, CountersOK
    <3>2. ASSUME i > 0 PROVE blocks[trace[i].index] = trace[i].answer
      <4>1. i \in 1 .. Len(trace)
        BY <3>1, <3>2
      <4> QED BY <3>1, <4>1, FollowsAnswer
    <3> QED BY <3>1, <3>2 DEF ReplaysAlike, Sound
  <2> QED BY <2>1, <2>2
<1> QED BY <1>1, Inductive, PTL

(* The payloads of a trace never exceed its heap, and no size is taken off *)
(* twice.                                                                  *)
THEOREM UtilizationBounded == Spec => []UtilizationAtMostOne
<1>1. ASSUME IInv PROVE UtilizationAtMostOne
  BY <1>1 DEF IInv, Counting, HoldingsOK, UtilizationAtMostOne, Sound
<1> QED BY <1>1, Inductive, PTL

----------------------------------------------------------------------------
(* The heap grows, and a request fails, only when there is no room.        *)

(* The blocks that mm_check finds free are the ones that find_fit tries.   *)
LEMMA FullIs ==
  ASSUME Sane(heap), NEW size \in Nat, NoRoom(heap, size)
  PROVE  FullFor(size)
<1>1. heap \in Heap /\ Tiled(heap, HeapBlocks(heap))
  BY DEF Sane, Good, Laid
<1>2. AdjustedSize(size) \in Int
  BY AdjustedSizeIs
<1>3. ASSUME NEW bp \in HeapBlocks(heap), IsFree(heap, bp)
      PROVE  GET_SIZE(heap, HDRP(bp)) < AdjustedSize(size)
  <2>1. Size(heap, bp) \in Int
    BY <1>1, TiledApart
  <2>2. ~ (Size(heap, bp) >= AdjustedSize(size))
    BY <1>3 DEF NoRoom, Full, FreeOf
  <2> QED BY <1>2, <2>1, <2>2 DEF Size
<1> QED BY <1>3 DEF FullFor

(* An exhausted heap can neither serve nor grow.                           *)
LEMMA ExhaustedIs ==
  ASSUME Sane(heap), NEW size \in Nat, Exhausted(heap, size)
  PROVE  /\ FullFor(size)
         /\ \E n \in {AdjustedSize(size), CHUNKSIZE} : ~ CanSbrk(heap, n)
<1>1. FullFor(size)
  BY FullIs DEF Exhausted
<1>2. ~ CanSbrk(heap, More(AdjustedSize(size)))
  BY DEF Exhausted
<1>3. More(AdjustedSize(size)) \in {AdjustedSize(size), CHUNKSIZE}
  BY DEF More
<1> QED BY <1>1, <1>2, <1>3

(* The request that failed is the last one of the trace, if it holds any.  *)
LEMMA LastRequest ==
  ASSUME IInv, Choosing, NEW type \in {"alloc", "realloc", "free"}, NEW id \in Ids,
         NEW size \in Sizes \cup {0}, NEW answer \in Words \cup {Fault},
         Request(type, id, size, answer), trace' # <<>>
  PROVE  trace'[i'].size = size
<1> DEFINE op == [type |-> type, index |-> id, size |-> size, answer |-> answer]
<1>1. /\ Counted' /\ pass' = "valid" /\ op \in Op
      /\ i' <= MaxReplayed => i <= MaxReplayed /\ trace' = Append(trace, op)
  BY RequestCounts
<1>2. op.size = size
  OBVIOUS
<1> HIDE DEF op
<1>3. i' <= MaxReplayed
  BY <1>1 DEF Counted
<1>4. i' = i + 1 /\ pass = "valid"
  BY DEF Request, Choosing
<1>5. trace \in Seq(Op) /\ Len(trace) = i
  BY <1>1, <1>3, <1>4 DEF IInv, CountersOK, Counted
<1>6. trace'[i'] = op
  BY <1>1, <1>3, <1>4, <1>5
<1> QED BY <1>2, <1>6

(* The heap that a request leaves behind has grown only if it had to.      *)
LEMMA GivesGrows ==
  ASSUME NEW bp, NEW size, NEW r, Gives(heap, bp, size, r), r.heap.brk > heap.brk,
         Sane(heap), size \in Nat \ {0}
  PROVE  FullFor(size)
<1>1. Sane(r.heap) /\ (heap.brk < r.heap.brk => NoRoom(heap, size))
  BY DEF Gives, Turns
<1>2. heap.brk \in Int /\ r.heap.brk \in Int
  BY <1>1, LiveType
<1> QED BY <1>1, <1>2, FullIs

(* malloc.                                                                 *)
LEMMA AllocFull ==
  ASSUME IInv, NEW id \in Ids, NEW size \in Sizes, Alloc(id, size)
  PROVE  GrowsWhenFull /\ FailsWhenFull
<1> DEFINE r == mm_malloc(heap, size)
           judge == add_range(r.heap, ranges, r.ptr, size)
<1>1. /\ Choosing /\ Request("alloc", id, size, r.ptr)
      /\ IF r.ptr = NULL
         THEN Report("malloc failed", r.heap)
         ELSE IF judge # "ok" THEN Report(judge, r.heap)
         ELSE Remember(id, r.heap, r.ptr, size)
  BY DEF Alloc
<1>2. Sane(heap) /\ heap.brk \in Int /\ verdict = "ok" /\ blocks \in [Ids -> Words]
      /\ block_sizes \in [Ids -> Sizes \cup {0}] /\ size \in Nat
  BY <1>1, ChoosingState, DriverConstants
<1>3. CASE size = 0 \/ (Exhausted(heap, size) /\ r = Result(heap, NULL))
  <2>1. r = Result(heap, NULL)
    <3>1. mm_malloc(heap, 0) = Result(heap, NULL)
      BY MallocZero
    <3> QED BY <1>3, <3>1
  <2>2. r.ptr = NULL /\ r.heap = heap
    BY <2>1 DEF Result
  <2> HIDE DEF r, judge
  <2>3. heap' = heap
    BY <1>1, <2>2 DEF Report
  <2>4. trace' # <<>> => trace'[i'].size = size
    BY <1>1, <2>2, DriverConstants, LastRequest
  <2>5. size # 0 => /\ FullFor(size)
                    /\ \E n \in {AdjustedSize(size), CHUNKSIZE} : ~ CanSbrk(heap, n)
    BY <1>2, <1>3, ExhaustedIs
  <2>6. GrowsWhenFull
    BY <1>2, <2>3 DEF GrowsWhenFull
  <2>7. FailsWhenFull
    BY <2>4, <2>5 DEF FailsWhenFull
  <2> QED BY <2>6, <2>7
<1>4. CASE size # 0 /\ Gives(heap, NULL, size, r)
  <2>1. /\ Sane(r.heap) /\ r.heap \in Heap /\ r.ptr \in Words \ {NULL} /\ r.ptr \in Int
    <3> HIDE DEF r
    <3> QED BY <1>2, <1>4, GivesType
  <2> HIDE DEF r
  <2>2. judge \in {"assertion", "unaligned", "outside", "overlap", "ok"}
    BY <1>2, <2>1, AddRangeType
  <2> HIDE DEF judge
  <2>3. CASE judge # "ok"
    <3>1. verdict' = judge /\ blocks' = blocks
      BY <1>1, <2>1, <2>3 DEF Report
    <3> QED BY <2>2, <3>1 DEF GrowsWhenFull, FailsWhenFull
  <2>4. CASE judge = "ok"
    <3>1. /\ heap' = memset(r.heap, r.ptr, Filled(id), size)
          /\ blocks' = [blocks EXCEPT ![id] = r.ptr]
          /\ block_sizes' = [block_sizes EXCEPT ![id] = size] /\ verdict' = "ok"
      BY <1>1, <1>2, <2>1, <2>4 DEF Remember
    <3>2. heap'.brk = r.heap.brk
      BY <1>2, <2>1, <3>1, FilledType, MemsetHeap
    <3>3. r.heap.brk > heap.brk => FullFor(size)
      BY <1>2, <1>4, GivesGrows
    <3>4. \A x \in Ids : blocks'[x] # blocks[x] => block_sizes'[x] = size
      BY <1>2, <3>1
    <3> QED BY <3>1, <3>2, <3>3, <3>4 DEF GrowsWhenFull, FailsWhenFull
  <2> QED BY <2>3, <2>4
<1>5. size # 0 => \/ Exhausted(heap, size) /\ mm_malloc(heap, size) = Result(heap, NULL)
                  \/ Gives(heap, NULL, size, mm_malloc(heap, size))
  BY <1>2, MallocSane
<1> QED BY <1>3, <1>4, <1>5

(* realloc.                                                                *)
LEMMA ReallocFull ==
  ASSUME IInv, NEW id \in Ids, NEW size \in Sizes, Realloc(id, size)
  PROVE  GrowsWhenFull /\ FailsWhenFull
<1> DEFINE bp == blocks[id]
           r == mm_realloc(heap, bp, size)
           others == remove_range(ranges, bp)
           judge == add_range(r.heap, others, r.ptr, size)
<1>1. /\ Choosing /\ bp # NULL /\ Request("realloc", id, size, r.ptr)
      /\ IF r.ptr = Fault THEN Report("fault", heap)
         ELSE IF judge # "ok" THEN Report(judge, r.heap)
         ELSE Remember(id, r.heap, r.ptr, size) \/ Report("lost data", r.heap)
  BY DEF Realloc
<1>2. Sane(heap) /\ heap.brk \in Int /\ verdict = "ok" /\ blocks \in [Ids -> Words]
      /\ block_sizes \in [Ids -> Sizes \cup {0}] /\ size \in Nat
      /\ Owned(heap, blocks, block_sizes)
  BY <1>1, ChoosingState, DriverConstants
<1>3. bp \in Live(heap)
  BY <1>1, <1>2 DEF Owned
(* An answer that is a block in a heap.                                    *)
<1>4. ASSUME r.heap \in Heap, r.ptr \in Int, r.ptr # Fault,
             r.heap.brk > heap.brk => FullFor(size)
      PROVE  GrowsWhenFull /\ FailsWhenFull
  <2> HIDE DEF r, bp, others
  <2>1. judge \in {"assertion", "unaligned", "outside", "overlap", "ok"}
    BY <1>2, <1>4, AddRangeType
  <2> HIDE DEF judge
  <2>2. CASE Report(judge, r.heap) /\ judge # "ok"
    <3>1. verdict' = judge /\ blocks' = blocks
      BY <2>2 DEF Report
    <3> QED BY <2>1, <3>1 DEF GrowsWhenFull, FailsWhenFull
  <2>3. CASE Report("lost data", r.heap)
    <3>1. verdict' = "lost data" /\ blocks' = blocks
      BY <2>3 DEF Report
    <3> QED BY <3>1 DEF GrowsWhenFull, FailsWhenFull
  <2>4. CASE Remember(id, r.heap, r.ptr, size)
    <3>1. /\ heap' = memset(r.heap, r.ptr, Filled(id), size)
          /\ blocks' = [blocks EXCEPT ![id] = r.ptr]
          /\ block_sizes' = [block_sizes EXCEPT ![id] = size] /\ verdict' = "ok"
      BY <1>2, <2>4 DEF Remember
    <3>2. heap'.brk = r.heap.brk
      BY <1>2, <1>4, <3>1, FilledType, MemsetHeap
    <3>3. \A x \in Ids : blocks'[x] # blocks[x] => block_sizes'[x] = size
      BY <1>2, <3>1
    <3> QED BY <1>4, <3>1, <3>2, <3>3 DEF GrowsWhenFull, FailsWhenFull
  <2> QED BY <1>1, <1>4, <2>2, <2>3, <2>4
<1>5. CASE size = 0
  <2>1. r.heap = mm_free(heap, bp) /\ r.ptr = bp
    <3>1. bp # NULL
      BY <1>1
    <3>2. mm_realloc(heap, bp, 0) = Result(mm_free(heap, bp), bp)
      <4> HIDE DEF bp
      <4> QED BY <3>1, ReallocZero
    <3> QED BY <1>5, <3>2 DEF Result
  <2> HIDE DEF r, bp
  <2>2. Sane(mm_free(heap, bp)) /\ mm_free(heap, bp).brk = heap.brk
    BY <1>2, <1>3, FreeSane DEF Turns
  <2>3. bp \in Int /\ 4 <= bp /\ mm_free(heap, bp) \in Heap
    BY <1>2, <1>3, <2>2, LiveType
  <2>4. bp # Fault /\ ~ (r.heap.brk > heap.brk)
    BY <1>2, <2>1, <2>2, <2>3, DriverConstants
  <2> QED BY <1>4, <2>1, <2>3, <2>4
<1>6. CASE size # 0 /\ SplitsBoth(heap, bp, size)
  <2>1. size \in Nat \ {0} /\ Good(heap, HeapBlocks(heap)) /\ bp \in Taken(heap, HeapBlocks(heap))
    BY <1>2, <1>3, <1>6 DEF Sane, Live
  <2>2. r.heap \in Heap /\ r.heap.brk = heap.brk /\ r.ptr \in Words \ {NULL}
    <3> HIDE DEF bp
    <3> QED BY <1>6, <2>1, SplitsBothHeap
  <2>3. r.ptr \in Int /\ r.ptr # Fault
    BY <2>2, MaxHeapAssumption DEF Words, Fault
  <2> HIDE DEF r, bp
  <2> QED BY <1>2, <1>4, <2>2, <2>3
<1>7. CASE size # 0 /\ ~ SplitsBoth(heap, bp, size)
  <2>1. size \in Nat \ {0}
    BY <1>2, <1>7
  <2>2. \/ Exhausted(heap, size) /\ r = Result(heap, Fault)
        \/ Gives(heap, bp, size, r)
    <3> HIDE DEF bp
    <3> QED BY <1>2, <1>3, <1>7, <2>1, ReallocSane
  <2> HIDE DEF bp
  <2>3. CASE Exhausted(heap, size) /\ r = Result(heap, Fault)
    <3>1. r.ptr = Fault
      BY <2>3 DEF Result
    <3> HIDE DEF r, judge
    <3>2. heap' = heap
      BY <1>1, <3>1 DEF Report
    <3>3. trace' # <<>> => trace'[i'].size = size
      BY <1>1, <3>1, LastRequest
    <3>4. /\ FullFor(size)
          /\ \E n \in {AdjustedSize(size), CHUNKSIZE} : ~ CanSbrk(heap, n)
      BY <1>2, <2>3, ExhaustedIs
    <3>5. GrowsWhenFull
      BY <1>2, <3>2 DEF GrowsWhenFull
    <3>6. FailsWhenFull
      BY <3>3, <3>4 DEF FailsWhenFull
    <3> QED BY <3>5, <3>6
  <2>4. CASE Gives(heap, bp, size, r)
    <3> HIDE DEF r
    <3>1. Sane(r.heap) /\ r.heap \in Heap /\ r.ptr \in Int /\ 4 <= r.ptr
      BY <1>2, <2>1, <2>4, GivesType
    <3>2. r.ptr # Fault /\ (r.heap.brk > heap.brk => FullFor(size))
      BY <1>2, <2>1, <2>4, <3>1, DriverConstants, GivesGrows
    <3> QED BY <1>4, <3>1, <3>2 DEF r
  <2> QED BY <2>2, <2>3, <2>4
<1> QED BY <1>5, <1>6, <1>7

(* eval_mm_util replays a request.                                         *)
LEMMA EvalUtilFull ==
  ASSUME IInv, Replaying("util"), EvalUtil(trace[i + 1])
  PROVE  GrowsWhenFull /\ FailsWhenFull
<1> DEFINE op == trace[i + 1]
<1>1. /\ Again(op, Answer(op))
      /\ block_sizes' = IF op.type = "free" THEN block_sizes
                        ELSE [block_sizes EXCEPT ![op.index] = op.size]
  BY DEF EvalUtil
<1>2. /\ pass = "util" /\ Running /\ op \in Op /\ Granted(op, heap, blocks)
      /\ heap' = Reply(heap, blocks, op).heap /\ blocks' = NextBlocks(op, blocks)
      /\ verdict' = "ok"
  BY <1>1, ReplayedState
<1> HIDE DEF op
<1>3. /\ Owned(heap, blocks, block_sizes) /\ Sane(heap) /\ heap.brk \in Int
      /\ block_sizes \in [Ids -> Sizes \cup {0}] /\ blocks \in [Ids -> Words]
  BY <1>2, LiveType DEF IInv, Owning, Consistent, HoldingsOK, Running
<1>4. CASE op.type = "free"
  <2>1. heap' = mm_free(heap, blocks[op.index]) /\ blocks[op.index] \in Live(heap)
    BY <1>2, <1>3, <1>4 DEF Reply, Granted, Legal, Owned
  <2>2. heap'.brk = heap.brk
    BY <1>3, <2>1, FreeSane
  <2> QED BY <1>2, <1>3, <2>2 DEF GrowsWhenFull, FailsWhenFull
<1>5. CASE op.type # "free"
  <2>1. /\ op.size \in Nat \ {0} /\ op.index \in Ids
        /\ Gives(heap, blocks[op.index], op.size, Reply(heap, blocks, op))
    BY <1>2, <1>3, <1>5, GrantedGives
  <2>2. heap'.brk > heap.brk => FullFor(op.size)
    BY <1>2, <1>3, <2>1, GivesGrows
  <2>3. \A x \in Ids : blocks'[x] # blocks[x] => block_sizes'[x] = op.size
    BY <1>1, <1>2, <1>3, <1>5, <2>1 DEF NextBlocks
  <2> QED BY <1>2, <2>2, <2>3 DEF GrowsWhenFull, FailsWhenFull
<1> QED BY <1>4, <1>5

(* A pass, or a trace, starts.                                             *)
LEMMA StartFull ==
  ASSUME IInv, heap' = mm_init(heap), 4 + CHUNKSIZE <= heap.brk, verdict' = "ok"
  PROVE  GrowsWhenFull /\ FailsWhenFull
<1>1. heap \in Heap
  BY DEF IInv, HoldingsOK
<1>2. heap'.brk = 4 + CHUNKSIZE /\ heap.brk \in Int
  BY <1>1, InitSane, HeapType
<1>3. ~ (heap'.brk > heap.brk)
  BY <1>2, ChunkAssumption
<1> QED BY <1>3 DEF GrowsWhenFull, FailsWhenFull

(* The heap grows only for a request that fits in no free block, and a     *)
(* request fails only if besides the heap cannot grow.                     *)
THEOREM FailuresOnlyWhenFull == Spec => FailsOnlyWhenFull
<1>1. ASSUME IInv, Next PROVE (GrowsWhenFull /\ FailsWhenFull) \/ UNCHANGED vars
  <2>1. ASSUME NEW id \in Ids, NEW n \in Sizes, Alloc(id, n)
        PROVE  GrowsWhenFull /\ FailsWhenFull
    BY <1>1, <2>1, AllocFull
  <2>2. ASSUME NEW id \in Ids, NEW n \in Sizes, Realloc(id, n)
        PROVE  GrowsWhenFull /\ FailsWhenFull
    BY <1>1, <2>2, ReallocFull
  <2>3. ASSUME NEW id \in Ids, Free(id)
        PROVE  GrowsWhenFull /\ FailsWhenFull
    <3>1. Choosing /\ blocks[id] # NULL /\ heap' = mm_free(heap, blocks[id])
          /\ verdict' = verdict
      BY <2>3 DEF Free
    <3>2. Sane(heap) /\ blocks[id] \in Live(heap) /\ verdict = "ok" /\ heap.brk \in Int
      BY <1>1, <3>1, ChoosingState DEF Owned
    <3>3. heap'.brk = heap.brk
      BY <3>1, <3>2, FreeSane
    <3> QED BY <3>1, <3>2, <3>3 DEF GrowsWhenFull, FailsWhenFull
  <2>4. CASE StartUtil \/ StartSpeed
    <3>1. Served /\ heap' = mm_init(heap) /\ verdict' = verdict
      BY <2>4 DEF StartUtil, StartSpeed, Restart
    <3> QED BY <1>1, <3>1, ServedState, StartFull
  <2>5. CASE NextTrace
    <3>1. heap' = mm_init(heap) /\ verdict' = "ok" /\ (Served \/ ~ grewBoth)
      BY <2>5 DEF NextTrace
    <3>2. 4 + CHUNKSIZE <= heap.brk
      BY <1>1, <3>1, ServedState DEF IInv, Consistent
    <3> QED BY <1>1, <3>1, <3>2, StartFull
  <2>6. CASE Replaying("util") /\ EvalUtil(trace[i + 1])
    BY <1>1, <2>6, EvalUtilFull
  <2>7. CASE Replaying("speed") /\ EvalSpeed(trace[i + 1])
    <3>1. pass = "speed" /\ verdict' = "ok"
      BY <1>1, <2>7, ReplayedState DEF EvalSpeed
    <3> QED BY <3>1 DEF GrowsWhenFull, FailsWhenFull
  <2>8. CASE Ended
    BY <2>8 DEF Ended
  <2> QED BY <1>1, <2>1, <2>2, <2>3, <2>4, <2>5, <2>6, <2>7, <2>8 DEF Next
<1>2. IInv /\ [Next]_vars => [GrowsWhenFull /\ FailsWhenFull]_vars
  BY <1>1
<1>3. Spec => [][GrowsWhenFull /\ FailsWhenFull]_vars
  BY <1>2, Inductive, PTL DEF Spec
<1> QED BY <1>3 DEF FailsOnlyWhenFull

----------------------------------------------------------------------------
(* The range list and the payloads of the first pass.                      *)

(* A payload holds the byte of its id.                                     *)
Stamped(h, k, sz) ==
  \A id \in Ids : k[id] # NULL =>
    \A j \in 0 .. sz[id] - 1 : h.word[k[id] + j] = Filled(id)

(* The ranges of all ids but one, and of all.                              *)
RangesBut(k, sz, id) == {RangeAt(k[x], sz[x]) : x \in {y \in Ids \ {id} : k[y] # NULL}}
RangesOf(k, sz)      == {RangeAt(k[x], sz[x]) : x \in {y \in Ids : k[y] # NULL}}

(* The words of a block that is kept are kept.                             *)
LEMMA WordsKept ==
  ASSUME NEW h, NEW k, NEW sz, Owned(h, k, sz), NEW g, NEW K, Kept(h, g, K),
         NEW x \in Ids, k[x] \in K, k[x] # NULL, NEW j \in 0 .. sz[x] - 1
  PROVE  g.word[k[x] + j] = h.word[k[x] + j]
<1>1. /\ k[x] \in Live(h) /\ Sane(h) /\ sz[x] \in Nat /\ sz[x] + 2 <= Size(h, k[x])
  BY DEF Owned
<1>2. k[x] \in Int /\ Size(h, k[x]) \in Int
  BY <1>1, LiveType
<1>3. k[x] + j \in Span(h, k[x])
  BY <1>1, <1>2 DEF Span
<1> QED BY <1>3 DEF Kept, Stays

(* The range of an id that has none is not missed.                         *)
LEMMA RangesNone ==
  ASSUME NEW k, NEW sz, NEW id \in Ids, k[id] = NULL
  PROVE  RangesOf(k, sz) = RangesBut(k, sz, id)
BY DEF RangesOf, RangesBut

(* remove_range takes away the range of one id.                            *)
LEMMA RangesRemove ==
  ASSUME NEW h, NEW k, NEW sz, Owned(h, k, sz), NEW id \in Ids, k[id] # NULL
  PROVE  remove_range(RangesOf(k, sz), k[id]) = RangesBut(k, sz, id)
<1>1. \A x \in Ids : RangeAt(k[x], sz[x]).lo = k[x]
  BY DEF RangeAt
<1>2. \A x \in Ids : k[x] = k[id] => x = id
  BY DEF Owned
<1> QED BY <1>1, <1>2 DEF remove_range, RangesOf, RangesBut

(* And add_range adds one.                                                 *)
LEMMA RangesGiven ==
  ASSUME NEW k, NEW sz, NEW id \in Ids, NEW K, NEW SZ, K[id] # NULL,
         \A x \in Ids \ {id} : K[x] = k[x] /\ SZ[x] = sz[x]
  PROVE  RangesOf(K, SZ) = RangesBut(k, sz, id) \cup {RangeAt(K[id], SZ[id])}
<1>1. RangesBut(K, SZ, id) = RangesBut(k, sz, id)
  BY DEF RangesBut
<1>2. RangesOf(K, SZ) = RangesBut(K, SZ, id) \cup {RangeAt(K[id], SZ[id])}
  BY DEF RangesOf, RangesBut
<1> QED BY <1>1, <1>2

(* An id that gives its block back has no range.                           *)
LEMMA RangesFreed ==
  ASSUME NEW k \in [Ids -> Words], NEW sz, NEW id \in Ids
  PROVE  RangesOf([k EXCEPT ![id] = NULL], sz) = RangesBut(k, sz, id)
<1> DEFINE K == [k EXCEPT ![id] = NULL]
<1>1. K[id] = NULL /\ \A x \in Ids \ {id} : K[x] = k[x]
  OBVIOUS
<1> HIDE DEF K
<1>2. RangesBut(K, sz, id) = RangesBut(k, sz, id)
  BY <1>1 DEF RangesBut
<1>3. RangesOf(K, sz) = RangesBut(K, sz, id)
  BY <1>1, RangesNone
<1> QED BY <1>2, <1>3 DEF K

(* add_range finds nothing wrong with a block that the allocator gives.    *)
LEMMA GivesJudged ==
  ASSUME NEW h, NEW k, NEW sz, Owned(h, k, sz), NEW id \in Ids, NEW size \in Nat \ {0},
         NEW r, Gives(h, k[id], size, r)
  PROVE  add_range(r.heap, RangesBut(k, sz, id), r.ptr, size) = "ok"
<1> DEFINE lo == r.ptr
           hi == r.ptr + size - 1
<1>1. Sane(h)
  BY DEF Owned
<1>2. /\ Sane(r.heap) /\ r.ptr \in Live(r.heap)
      /\ r.ptr \in Int /\ (r.ptr % 2) = 0 /\ 4 <= r.ptr
      /\ Size(r.heap, r.ptr) \in Int /\ size + 4 <= Size(r.heap, r.ptr)
      /\ r.ptr + Size(r.heap, r.ptr) <= r.heap.brk /\ r.heap.brk \in Int
  BY <1>1, GivesType
<1>3. {lo, hi} \subseteq 0 .. r.heap.brk - 1
  BY <1>2
<1>4. ASSUME NEW p \in RangesBut(k, sz, id)
      PROVE  ~ (lo \in p.lo .. p.hi \/ hi \in p.lo .. p.hi)
  <2>1. PICK x \in Ids \ {id} : k[x] # NULL /\ p = RangeAt(k[x], sz[x])
    BY <1>4 DEF RangesBut
  <2>2. p.lo = k[x] /\ p.hi = k[x] + sz[x] - 1
    BY <2>1 DEF RangeAt
  <2>3. k[x] \in Live(h) /\ k[x] # k[id] /\ sz[x] \in Nat /\ sz[x] + 2 <= Size(h, k[x])
    BY <2>1 DEF Owned
  <2>4. /\ k[x] \in Live(r.heap) /\ k[x] # r.ptr
        /\ Size(r.heap, k[x]) = Size(h, k[x])
    BY <2>3 DEF Gives, Turns, Kept
  <2>5. k[x] \in Int /\ Size(r.heap, k[x]) \in Int
    BY <1>2, <2>4, LiveType
  <2>6. k[x] + Size(r.heap, k[x]) <= r.ptr \/ r.ptr + Size(r.heap, r.ptr) <= k[x]
    BY <1>2, <2>4, LiveApart
  <2> QED BY <1>2, <2>2, <2>3, <2>4, <2>5, <2>6
<1> QED BY <1>2, <1>3, <1>4 DEF add_range

(* The other payloads keep their bytes and the new one is filled.          *)
LEMMA StampedGiven ==
  ASSUME NEW h, NEW k, NEW sz, Owned(h, k, sz), Stamped(h, k, sz),
         NEW id \in Ids, NEW size \in Nat \ {0}, NEW r, Gives(h, k[id], size, r),
         NEW g, Fills(r.heap, g, r.ptr),
         \A w \in r.ptr .. r.ptr + size - 1 : g.word[w] = Filled(id)
  PROVE  Stamped(g, [k EXCEPT ![id] = r.ptr], [sz EXCEPT ![id] = size])
<1> DEFINE K == [k EXCEPT ![id] = r.ptr]
           SZ == [sz EXCEPT ![id] = size]
           s == Result(g, r.ptr)
<1>1. /\ Sane(h) /\ k \in [Ids -> Words] /\ sz \in [Ids -> Nat]
  BY DEF Owned
<1>2. r.ptr \in Int
  BY DEF Gives
<1>3. Gives(h, k[id], size, s)
  BY <1>1, GivesFilled
<1>4. s.heap = g
  BY DEF Result
<1>5. Kept(h, g, Live(h) \ {k[id]})
  <2> HIDE DEF s
  <2> QED BY <1>3, <1>4 DEF Gives, Turns
<1>6. /\ K[id] = r.ptr /\ SZ[id] = size
      /\ \A x \in Ids \ {id} : K[x] = k[x] /\ SZ[x] = sz[x]
  BY <1>1
<1> HIDE DEF K, SZ, s
<1>7. ASSUME NEW x \in Ids, K[x] # NULL, NEW j \in 0 .. SZ[x] - 1
      PROVE  g.word[K[x] + j] = Filled(x)
  <2>1. CASE x = id
    <3>1. K[x] + j \in r.ptr .. r.ptr + size - 1
      BY <1>2, <1>6, <1>7, <2>1
    <3> QED BY <2>1, <3>1
  <2>2. CASE x # id
    <3>1. K[x] = k[x] /\ k[x] # NULL /\ j \in 0 .. sz[x] - 1
      BY <1>6, <1>7, <2>2
    <3>2. k[x] \in Live(h) \ {k[id]}
      BY <2>2, <3>1 DEF Owned
    <3>3. g.word[k[x] + j] = h.word[k[x] + j]
      BY <1>5, <3>1, <3>2, WordsKept
    <3> QED BY <3>1, <3>3 DEF Stamped
  <2> QED BY <2>1, <2>2
<1>8. Stamped(g, K, SZ)
  BY <1>7 DEF Stamped
<1> QED BY <1>8 DEF K, SZ

(* They keep them when a block is given back.                              *)
LEMMA StampedFreed ==
  ASSUME NEW h, NEW k, NEW sz, Owned(h, k, sz), Stamped(h, k, sz), NEW id \in Ids,
         k[id] # NULL
  PROVE  Stamped(mm_free(h, k[id]), [k EXCEPT ![id] = NULL], sz)
<1> DEFINE K == [k EXCEPT ![id] = NULL]
           g == mm_free(h, k[id])
<1>1. Sane(h) /\ k \in [Ids -> Words] /\ k[id] \in Live(h)
  BY DEF Owned
<1>2. Kept(h, g, Live(h) \ {k[id]})
  BY <1>1, FreeSane DEF Turns
<1>3. K[id] = NULL /\ \A x \in Ids \ {id} : K[x] = k[x]
  BY <1>1
<1> HIDE DEF K, g
<1>4. ASSUME NEW x \in Ids, K[x] # NULL, NEW j \in 0 .. sz[x] - 1
      PROVE  g.word[K[x] + j] = Filled(x)
  <2>1. x # id /\ K[x] = k[x] /\ k[x] # NULL
    BY <1>3, <1>4
  <2>2. k[x] \in Live(h) \ {k[id]}
    BY <2>1 DEF Owned
  <2>3. g.word[k[x] + j] = h.word[k[x] + j]
    BY <1>2, <2>1, <2>2, WordsKept
  <2> QED BY <2>1, <2>3 DEF Stamped
<1>5. Stamped(g, K, sz)
  BY <1>4 DEF Stamped
<1> QED BY <1>5 DEF K, g

----------------------------------------------------------------------------
(* The first pass finds nothing wrong.                                     *)

(* The list holds the ranges of the ids in use, which hold their bytes.    *)
Judging ==
  Running /\ pass = "valid" =>
    Stamped(heap, blocks, block_sizes) /\ ranges = RangesOf(blocks, block_sizes)

(* A byte that a signed char holds as it is: see ReadsAs.                  *)
SmallIds == \A id \in Ids : id % 256 < 128

(* The request of id has got the answer r, which the driver remembers.     *)
Serves(id, size, r) ==
  /\ size # 0 /\ Gives(heap, blocks[id], size, r)
  /\ Remember(id, r.heap, r.ptr, size)
  /\ ranges' = RangesBut(blocks, block_sizes, id) \cup {RangeAt(r.ptr, size)}

(* What it remembers.                                                      *)
LEMMA ServesState ==
  ASSUME IInv, Choosing, NEW id \in Ids, NEW size \in Sizes, NEW r, Serves(id, size, r)
  PROVE  /\ Fills(r.heap, heap', r.ptr) /\ size \in Nat \ {0} /\ r.ptr \in Int
         /\ \A w \in r.ptr .. r.ptr + size - 1 : heap'.word[w] = Filled(id)
         /\ blocks' = [blocks EXCEPT ![id] = r.ptr]
         /\ block_sizes' = [block_sizes EXCEPT ![id] = size] /\ verdict' = "ok"
<1>1. /\ Gives(heap, blocks[id], size, r) /\ size \in Nat \ {0} /\ size \in Int
      /\ Sane(heap) /\ verdict = "ok"
  BY ChoosingState, DriverConstants DEF Serves
<1>2. /\ Sane(r.heap) /\ r.ptr \in Live(r.heap) /\ r.ptr \in Int
      /\ Size(r.heap, r.ptr) \in Int /\ size + 4 <= Size(r.heap, r.ptr)
  BY <1>1, GivesType
<1>3. /\ heap' = memset(r.heap, r.ptr, Filled(id), size)
      /\ blocks' = [blocks EXCEPT ![id] = r.ptr]
      /\ block_sizes' = [block_sizes EXCEPT ![id] = size] /\ verdict' = verdict
  BY DEF Serves, Remember
<1>4. size + 2 <= Size(r.heap, r.ptr) /\ Filled(id) \in Int
  BY <1>1, <1>2, FilledType
<1>5. /\ Fills(r.heap, heap', r.ptr)
      /\ \A w \in r.ptr .. r.ptr + size - 1 : heap'.word[w] = Filled(id)
  BY <1>1, <1>2, <1>3, <1>4, RememberFills
<1> QED BY <1>1, <1>2, <1>3, <1>5

(* It goes on as it was.                                                   *)
LEMMA ServesJudging ==
  ASSUME IInv, Judging, Choosing, NEW id \in Ids, NEW size \in Sizes, NEW r,
         Serves(id, size, r)
  PROVE  Judging'
<1>1. /\ Owned(heap, blocks, block_sizes) /\ Stamped(heap, blocks, block_sizes)
      /\ blocks \in [Ids -> Words] /\ block_sizes \in [Ids -> Nat]
  BY ChoosingState DEF Judging, Choosing, Owned
<1>2. /\ Fills(r.heap, heap', r.ptr) /\ size \in Nat \ {0}
      /\ \A w \in r.ptr .. r.ptr + size - 1 : heap'.word[w] = Filled(id)
      /\ blocks' = [blocks EXCEPT ![id] = r.ptr]
      /\ block_sizes' = [block_sizes EXCEPT ![id] = size]
  BY ServesState
<1>3. /\ Gives(heap, blocks[id], size, r) /\ r.ptr # NULL
      /\ ranges' = RangesBut(blocks, block_sizes, id) \cup {RangeAt(r.ptr, size)}
  BY DEF Serves, Gives
<1>4. Stamped(heap', blocks', block_sizes')
  BY <1>1, <1>2, <1>3, StampedGiven
<1>5. /\ blocks'[id] = r.ptr /\ block_sizes'[id] = size
      /\ \A x \in Ids \ {id} : blocks'[x] = blocks[x] /\ block_sizes'[x] = block_sizes[x]
  BY <1>1, <1>2
<1>6. ranges' = RangesOf(blocks', block_sizes')
  BY <1>3, <1>5, RangesGiven
<1> QED BY <1>4, <1>6 DEF Judging

(* malloc serves a request or reports that it failed.                      *)
LEMMA AllocServes ==
  ASSUME IInv, Judging, NEW id \in Ids, NEW size \in Sizes, Alloc(id, size)
  PROVE  /\ Choosing /\ pass' = pass /\ grewBoth' = FALSE /\ blocks[id] = NULL
         /\ \/ verdict' = "malloc failed" /\ UNCHANGED <<heap, blocks, block_sizes>>
            \/ \E r : Serves(id, size, r)
<1> DEFINE r == mm_malloc(heap, size)
           judge == add_range(r.heap, ranges, r.ptr, size)
<1>1. /\ Choosing /\ (\A k \in Ids : block_sizes[k] = 0 <=> k >= id)
      /\ pass' = pass /\ grewBoth' = grewBoth
      /\ IF r.ptr = NULL
         THEN Report("malloc failed", r.heap)
         ELSE IF judge # "ok" THEN Report(judge, r.heap)
         ELSE /\ ranges' = ranges \cup {RangeAt(r.ptr, size)}
              /\ Remember(id, r.heap, r.ptr, size)
  BY DEF Alloc, Request
<1>2. /\ Sane(heap) /\ Owned(heap, blocks, block_sizes) /\ grewBoth = FALSE
      /\ ranges = RangesOf(blocks, block_sizes) /\ size \in Nat
  BY <1>1, ChoosingState, DriverConstants DEF Judging, Choosing
<1>3. blocks[id] = NULL
  <2>1. id \in Nat /\ (block_sizes[id] = 0 <=> id >= id)
    BY <1>1, DriverConstants
  <2>2. block_sizes[id] = 0
    BY <2>1
  <2> QED BY <1>2, <2>2 DEF Owned
<1>4. ASSUME r = Result(heap, NULL)
      PROVE  verdict' = "malloc failed" /\ UNCHANGED <<heap, blocks, block_sizes>>
  <2>1. r.ptr = NULL /\ r.heap = heap
    BY <1>4 DEF Result
  <2> HIDE DEF r
  <2> QED BY <1>1, <2>1 DEF Report
<1>5. ASSUME size # 0, Gives(heap, NULL, size, r)
      PROVE  \E s : Serves(id, size, s)
  <2> HIDE DEF r
  <2>1. Gives(heap, blocks[id], size, r) /\ size \in Nat \ {0}
    BY <1>2, <1>3, <1>5
  <2>2. ranges = RangesBut(blocks, block_sizes, id)
    BY <1>2, <1>3, RangesNone
  <2>3. judge = "ok"
    BY <1>2, <2>1, <2>2, GivesJudged
  <2>4. r.ptr # NULL
    BY <1>5 DEF Gives
  <2> HIDE DEF judge
  <2>5. Serves(id, size, r)
    BY <1>1, <1>5, <2>1, <2>2, <2>3, <2>4 DEF Serves
  <2> QED BY <2>5
<1>6. r = Result(heap, NULL) \/ (size # 0 /\ Gives(heap, NULL, size, r))
  <2>1. CASE size = 0
    <3>1. mm_malloc(heap, 0) = Result(heap, NULL)
      BY MallocZero
    <3> QED BY <2>1, <3>1
  <2>2. CASE size # 0
    <3>1. size \in Nat \ {0}
      BY <1>2, <2>2
    <3>2. \/ Exhausted(heap, size) /\ mm_malloc(heap, size) = Result(heap, NULL)
          \/ Gives(heap, NULL, size, mm_malloc(heap, size))
      BY <1>2, <3>1, MallocSane
    <3> QED BY <2>2, <3>2
  <2> QED BY <2>1, <2>2
<1> HIDE DEF r, judge
<1> QED BY <1>1, <1>2, <1>3, <1>4, <1>5, <1>6

(* realloc serves a request, with the data, unless the driver dies of it   *)
(* or the heap is destroyed.                                               *)
LEMMA ReallocServes ==
  ASSUME SmallIds, IInv, Judging, NEW id \in Ids, NEW size \in Sizes, Realloc(id, size)
  PROVE  /\ Choosing /\ pass' = pass /\ grewBoth' \in BOOLEAN /\ blocks[id] # NULL
         /\ \/ grewBoth' \/ verdict' \in {"assertion", "fault"}
            \/ \E r : Serves(id, size, r)
<1> DEFINE bp == blocks[id]
           r == mm_realloc(heap, bp, size)
           others == remove_range(ranges, bp)
           judge == add_range(r.heap, others, r.ptr, size)
<1>1. /\ Choosing /\ bp # NULL /\ pass' = pass
      /\ grewBoth' = (Room(heap, bp, size).where = "both"
                      /\ Room(heap, bp, size).rest >= MIN_B_SIZE)
      /\ IF r.ptr = Fault THEN Report("fault", heap)
         ELSE IF judge # "ok" THEN Report(judge, r.heap)
         ELSE /\ ranges' = others \cup {RangeAt(r.ptr, size)}
              /\ IF \A j \in 0 .. size - 1 :
                      j < block_sizes[id] => ReadsAs(r.heap.word[r.ptr + j], id)
                 THEN Remember(id, r.heap, r.ptr, size)
                 ELSE Report("lost data", r.heap)
  BY DEF Realloc, Request
<1>2. /\ Sane(heap) /\ Owned(heap, blocks, block_sizes)
      /\ Stamped(heap, blocks, block_sizes) /\ ranges = RangesOf(blocks, block_sizes)
      /\ size \in Nat
  BY <1>1, ChoosingState, DriverConstants DEF Judging, Choosing
<1>3. grewBoth' \in BOOLEAN /\ (grewBoth' <=> SplitsBoth(heap, bp, size))
  BY <1>1 DEF SplitsBoth
<1>4. /\ bp \in Live(heap) /\ block_sizes[id] \in Nat
      /\ block_sizes[id] + 2 <= Size(heap, bp) /\ Size(heap, bp) \in Int
  BY <1>1, <1>2, LiveType DEF Owned
<1>5. others = RangesBut(blocks, block_sizes, id)
  BY <1>1, <1>2, RangesRemove
<1>6. ASSUME size = 0
      PROVE  verdict' \in {"assertion", "fault"}
  <2>1. mm_realloc(heap, bp, 0) = Result(mm_free(heap, bp), bp)
    <3> HIDE DEF bp
    <3> QED BY <1>1, ReallocZero
  <2>2. judge = "assertion"
    BY <1>6 DEF add_range
  <2> HIDE DEF judge, r, others
  <2> QED BY <1>1, <2>2 DEF Report
<1>7. ASSUME size # 0, ~ SplitsBoth(heap, bp, size), r = Result(heap, Fault)
      PROVE  verdict' \in {"assertion", "fault"}
  <2>1. r.ptr = Fault
    BY <1>7 DEF Result
  <2> HIDE DEF r, judge
  <2> QED BY <1>1, <2>1 DEF Report
<1>8. ASSUME size # 0, Gives(heap, bp, size, r), Copied(heap, bp, size, r.heap, r.ptr)
      PROVE  \E s : Serves(id, size, s)
  <2> HIDE DEF r, others
  <2>1. size \in Nat \ {0}
    BY <1>2, <1>8
  <2>2. add_range(r.heap, RangesBut(blocks, block_sizes, id), r.ptr, size) = "ok"
    BY <1>2, <1>8, <2>1, GivesJudged
  <2>3. judge = "ok"
    BY <1>5, <2>2
  <2>4. r.ptr # Fault
    BY <1>2, <1>8, <2>1, GivesType, DriverConstants
  <2> HIDE DEF judge
  <2>5. ASSUME NEW j \in 0 .. size - 1, j < block_sizes[id]
        PROVE  ReadsAs(r.heap.word[r.ptr + j], id)
    <3>1. j < Size(heap, bp) - 2 /\ j \in 0 .. block_sizes[id] - 1
      BY <1>2, <1>4, <2>5
    <3>2. r.heap.word[r.ptr + j] = heap.word[bp + j]
      BY <1>8, <3>1 DEF Copied
    <3>3. heap.word[bp + j] = Filled(id)
      BY <1>1, <1>2, <3>1 DEF Stamped
    <3> QED BY <3>2, <3>3 DEF ReadsAs, SmallIds
  <2>6. /\ Remember(id, r.heap, r.ptr, size)
        /\ ranges' = RangesBut(blocks, block_sizes, id) \cup {RangeAt(r.ptr, size)}
    BY <1>1, <1>5, <2>3, <2>4, <2>5
  <2>7. Serves(id, size, r)
    BY <1>8, <2>6 DEF Serves
  <2> QED BY <2>7
<1>9. ASSUME size # 0, ~ SplitsBoth(heap, bp, size)
      PROVE  \/ r = Result(heap, Fault)
             \/ Gives(heap, bp, size, r) /\ Copied(heap, bp, size, r.heap, r.ptr)
  <2>1. size \in Nat \ {0}
    BY <1>2, <1>9
  <2> HIDE DEF bp
  <2> QED BY <1>2, <1>4, <1>9, <2>1, ReallocSane
<1> HIDE DEF r, judge, others
<1> QED BY <1>1, <1>3, <1>6, <1>7, <1>8, <1>9

(* Judging is what the first pass preserves, and a fresh trace restores.   *)
LEMMA JudgingNext ==
  ASSUME SmallIds, IInv, Judging, Next
  PROVE  Judging'
<1>1. ASSUME NEW id \in Ids, NEW n \in Sizes, Alloc(id, n)
      PROVE  Judging'
  <2>1. \/ verdict' = "malloc failed"
        \/ \E r : Choosing /\ Serves(id, n, r)
    BY <1>1, AllocServes
  <2>2. CASE verdict' = "malloc failed"
    BY <2>2 DEF Judging, Running
  <2> QED BY <2>1, <2>2, ServesJudging
<1>2. ASSUME NEW id \in Ids, NEW n \in Sizes, Realloc(id, n)
      PROVE  Judging'
  <2>1. \/ grewBoth' \/ verdict' \in {"assertion", "fault"}
        \/ \E r : Choosing /\ Serves(id, n, r)
    BY <1>2, ReallocServes
  <2>2. CASE grewBoth' \/ verdict' \in {"assertion", "fault"}
    BY <2>2 DEF Judging, Running
  <2> QED BY <2>1, <2>2, ServesJudging
<1>3. ASSUME NEW id \in Ids, Free(id)
      PROVE  Judging'
  <2>1. /\ Choosing /\ blocks[id] # NULL
        /\ ranges' = remove_range(ranges, blocks[id])
        /\ heap' = mm_free(heap, blocks[id])
        /\ blocks' = [blocks EXCEPT ![id] = NULL] /\ block_sizes' = block_sizes
    BY <1>3 DEF Free
  <2>2. /\ Owned(heap, blocks, block_sizes) /\ Stamped(heap, blocks, block_sizes)
        /\ ranges = RangesOf(blocks, block_sizes) /\ blocks \in [Ids -> Words]
    BY <2>1, ChoosingState DEF Judging, Choosing
  <2>3. Stamped(heap', blocks', block_sizes')
    BY <2>1, <2>2, StampedFreed
  <2>4. ranges' = RangesOf(blocks', block_sizes')
    <3>1. remove_range(RangesOf(blocks, block_sizes), blocks[id])
            = RangesBut(blocks, block_sizes, id)
      BY <2>1, <2>2, RangesRemove
    <3>2. RangesOf([blocks EXCEPT ![id] = NULL], block_sizes) = RangesBut(blocks, block_sizes, id)
      BY <2>2, RangesFreed
    <3> QED BY <2>1, <2>2, <3>1, <3>2
  <2> QED BY <2>3, <2>4 DEF Judging
<1>4. CASE StartUtil \/ StartSpeed
  BY <1>4 DEF StartUtil, StartSpeed, Restart, Judging
<1>5. CASE NextTrace
  <2>1. ranges' = {} /\ blocks' = NoBlocks /\ \A id \in Ids : NoBlocks[id] = NULL
    BY <1>5 DEF NextTrace, NoBlocks
  <2> QED BY <2>1 DEF Judging, Stamped, RangesOf
<1>6. CASE Replaying("util") /\ EvalUtil(trace[i + 1])
  BY <1>6 DEF Replaying, EvalUtil, Again, Judging
<1>7. CASE Replaying("speed") /\ EvalSpeed(trace[i + 1])
  BY <1>7 DEF Replaying, EvalSpeed, Again, Judging
<1>8. CASE Ended
  BY <1>8 DEF Ended, vars, trackers, Judging, Running
<1> QED BY <1>1, <1>2, <1>3, <1>4, <1>5, <1>6, <1>7, <1>8 DEF Next

----------------------------------------------------------------------------
(* The allocator keeps its promise.                                        *)

(* Who is lent what, while nothing has gone wrong.                         *)
LEMMA PayloadsAre ==
  ASSUME Running, pass # "speed"
  PROVE  /\ Client = "serving" /\ Client # "dead"
         /\ \A x \in Ids :
              Payloads[x] = IF blocks[x] = NULL THEN Promise!Nothing ELSE Payload(x)
<1>1. Client = "serving"
  BY DEF Running, Client
<1> QED BY <1>1 DEF Payloads, Promise!Nothing

(* And after the step.                                                     *)
LEMMA PayloadsAreNext ==
  ASSUME Running', pass' # "speed"
  PROVE  /\ Client' = "serving"
         /\ \A x \in Ids :
              Payloads'[x] = IF blocks'[x] = NULL THEN Promise!Nothing
                             ELSE [lo |-> blocks'[x],
                                   words |-> [k \in 0 .. block_sizes'[x] - 1 |->
                                                heap'.word[blocks'[x] + k]]]
<1>1. Client' = "serving"
  BY DEF Running, Client
<1> QED BY <1>1 DEF Payloads, Payload, Promise!Nothing

(* One that is lent.                                                       *)
LEMMA PayloadNow ==
  ASSUME Running, pass # "speed", NEW x \in Ids, blocks[x] # NULL
  PROVE  /\ Payloads[x].lo = blocks[x]
         /\ DOMAIN Payloads[x].words = 0 .. block_sizes[x] - 1
         /\ \A j \in 0 .. block_sizes[x] - 1 : Payloads[x].words[j] = heap.word[blocks[x] + j]
<1> DEFINE words == [k \in 0 .. block_sizes[x] - 1 |-> heap.word[blocks[x] + k]]
<1>1. Payloads[x] = [lo |-> blocks[x], words |-> words]
  BY PayloadsAre DEF Payload
<1>2. /\ DOMAIN words = 0 .. block_sizes[x] - 1
      /\ \A j \in 0 .. block_sizes[x] - 1 : words[j] = heap.word[blocks[x] + j]
  OBVIOUS
<1> HIDE DEF words
<1> QED BY <1>1, <1>2

(* And after the step.                                                     *)
LEMMA PayloadNext ==
  ASSUME Running', pass' # "speed", NEW x \in Ids, blocks'[x] # NULL
  PROVE  /\ Payloads'[x].lo = blocks'[x]
         /\ DOMAIN Payloads'[x].words = 0 .. block_sizes'[x] - 1
         /\ \A j \in 0 .. block_sizes'[x] - 1 :
              Payloads'[x].words[j] = heap'.word[blocks'[x] + j]
<1> DEFINE words == [k \in 0 .. block_sizes'[x] - 1 |-> heap'.word[blocks'[x] + k]]
<1>1. Payloads'[x] = [lo |-> blocks'[x], words |-> words]
  BY PayloadsAreNext
<1>2. /\ DOMAIN words = 0 .. block_sizes'[x] - 1
      /\ \A j \in 0 .. block_sizes'[x] - 1 : words[j] = heap'.word[blocks'[x] + j]
  OBVIOUS
<1> HIDE DEF words
<1> QED BY <1>1, <1>2

(* A payload whose block and words are what they were.                     *)
LEMMA PayloadStays ==
  ASSUME Running, Running', pass # "speed", pass' # "speed", NEW x \in Ids,
         blocks'[x] = blocks[x], block_sizes'[x] = block_sizes[x],
         blocks[x] # NULL => \A j \in 0 .. block_sizes[x] - 1 :
                               heap'.word[blocks[x] + j] = heap.word[blocks[x] + j]
  PROVE  Payloads'[x] = Payloads[x]
<1>1. CASE blocks[x] = NULL
  BY <1>1, PayloadsAre, PayloadsAreNext
<1>2. CASE blocks[x] # NULL
  <2>1. Payloads[x] = [lo |-> blocks[x],
                       words |-> [k \in 0 .. block_sizes[x] - 1 |-> heap.word[blocks[x] + k]]]
    BY <1>2, PayloadsAre DEF Payload
  <2>2. Payloads'[x] = [lo |-> blocks[x],
                        words |-> [k \in 0 .. block_sizes[x] - 1 |-> heap'.word[blocks[x] + k]]]
    BY <1>2, PayloadsAreNext
  <2>3. [k \in 0 .. block_sizes[x] - 1 |-> heap'.word[blocks[x] + k]]
          = [k \in 0 .. block_sizes[x] - 1 |-> heap.word[blocks[x] + k]]
    BY <1>2
  <2> QED BY <2>1, <2>2, <2>3
<1> QED BY <1>1, <1>2

(* The answer to a request, with the data, lends a payload.                *)
LEMMA GivesLends ==
  ASSUME Owned(heap, blocks, block_sizes), Running, Running', pass # "speed", pass' # "speed",
         NEW id \in Ids, NEW size \in Nat \ {0}, NEW r, Gives(heap, blocks[id], size, r),
         Fills(r.heap, heap', r.ptr),
         blocks' = [blocks EXCEPT ![id] = r.ptr],
         block_sizes' = [block_sizes EXCEPT ![id] = size],
         blocks[id] # NULL =>
           \A j \in 0 .. size - 1 : j < block_sizes[id] =>
             heap'.word[r.ptr + j] = heap.word[blocks[id] + j]
  PROVE  Promise!Allocate(id) \/ Promise!Resize(id)
<1> DEFINE K == Live(heap) \ {blocks[id]}
           s == Result(heap', r.ptr)
<1>1. /\ Sane(heap) /\ blocks \in [Ids -> Words] /\ block_sizes \in [Ids -> Nat]
  BY DEF Owned
<1>2. /\ Sane(r.heap) /\ r.ptr \in Words \ {NULL} /\ r.ptr \in Int /\ (r.ptr % 2) = 0
      /\ 4 <= r.ptr /\ Size(r.heap, r.ptr) \in Int /\ size + 4 <= Size(r.heap, r.ptr)
      /\ r.ptr + Size(r.heap, r.ptr) <= r.heap.brk
      /\ r.heap.brk \in Int /\ r.heap.brk <= MAX_HEAP /\ MAX_HEAP \in Int
  BY <1>1, GivesType
<1>3. /\ blocks'[id] = r.ptr /\ block_sizes'[id] = size
      /\ \A x \in Ids \ {id} : blocks'[x] = blocks[x] /\ block_sizes'[x] = block_sizes[x]
  BY <1>1
<1>4. Owned(heap', blocks', block_sizes')
  <2>1. Owned(heap', [blocks EXCEPT ![id] = r.ptr], [block_sizes EXCEPT ![id] = size])
    BY GivenOwned
  <2> QED BY <2>1
<1>5. Kept(heap, heap', K)
  <2>1. Gives(heap, blocks[id], size, s)
    BY <1>1, GivesFilled
  <2>2. s.heap = heap'
    BY DEF Result
  <2> HIDE DEF s
  <2> QED BY <2>1, <2>2 DEF Gives, Turns
<1>6. ASSUME NEW x \in Ids \ {id}
      PROVE  Payloads'[x] = Payloads[x]
  <2>1. ASSUME blocks[x] # NULL, NEW j \in 0 .. block_sizes[x] - 1
        PROVE  heap'.word[blocks[x] + j] = heap.word[blocks[x] + j]
    <3>1. blocks[x] \in K
      BY <2>1 DEF Owned
    <3> HIDE DEF K
    <3> QED BY <1>5, <2>1, <3>1, WordsKept
  <2> QED BY <1>3, <2>1, PayloadStays
(* The words that are lent are those in use.                               *)
<1>7. \A x \in Ids : Promise!Lent(Payloads'[x]) = {w \in Int : Uses(blocks', block_sizes', x, w)}
  <2> SUFFICES ASSUME NEW x \in Ids
               PROVE  Promise!Lent(Payloads'[x]) = {w \in Int : Uses(blocks', block_sizes', x, w)}
    OBVIOUS
  <2>1. CASE blocks'[x] = NULL
    <3>1. Payloads'[x] = Promise!Nothing
      BY <2>1, PayloadsAreNext
    <3> QED BY <2>1, <3>1 DEF Promise!Nothing, Promise!Lent, Uses
  <2>2. CASE blocks'[x] # NULL
    <3>1. /\ Payloads'[x].lo = blocks'[x]
          /\ DOMAIN Payloads'[x].words = 0 .. block_sizes'[x] - 1
      BY <2>2, PayloadNext
    <3>2. blocks'[x] \in Int /\ block_sizes'[x] \in Nat
      <4>1. /\ Sane(heap') /\ blocks'[x] \in Live(heap') /\ block_sizes'[x] \in Nat
        BY <1>4, <2>2 DEF Owned
      <4> QED BY <4>1, LiveType
    <3>3. {blocks'[x] + k : k \in 0 .. block_sizes'[x] - 1}
            = blocks'[x] .. blocks'[x] + block_sizes'[x] - 1
      <4> DEFINE b == blocks'[x]
                 n == block_sizes'[x]
      <4>1. b \in Int /\ n \in Nat
        BY <3>2
      <4> HIDE DEF b, n
      <4>2. ASSUME NEW w \in b .. b + n - 1
            PROVE  w \in {b + k : k \in 0 .. n - 1}
        <5>1. w - b \in 0 .. n - 1 /\ w = b + (w - b)
          BY <4>1, <4>2
        <5> QED BY <5>1
      <4>3. {b + k : k \in 0 .. n - 1} \subseteq b .. b + n - 1
        BY <4>1
      <4>4. {b + k : k \in 0 .. n - 1} = b .. b + n - 1
        BY <4>2, <4>3
      <4> QED BY <4>4 DEF b, n
    <3>4. Promise!Lent(Payloads'[x]) = blocks'[x] .. blocks'[x] + block_sizes'[x] - 1
      BY <3>1, <3>3 DEF Promise!Lent
    <3> QED BY <2>2, <3>2, <3>4 DEF Uses
  <2> QED BY <2>1, <2>2
<1>8. /\ Payloads'[id].lo = r.ptr /\ DOMAIN Payloads'[id].words = 0 .. size - 1
      /\ \A j \in 0 .. size - 1 : Payloads'[id].words[j] = heap'.word[r.ptr + j]
  <2>1. blocks'[id] # NULL
    BY <1>2, <1>3
  <2> QED BY <1>3, <2>1, PayloadNext
<1>9. Payloads'[id] # Promise!Nothing /\ (Payloads'[id].lo % 2) = 0
  BY <1>2, <1>8 DEF Promise!Nothing, NULL
<1>10. Promise!Lent(Payloads'[id]) \subseteq 0 .. MAX_HEAP - 1
  <2>1. \A w : Uses(blocks', block_sizes', id, w) => w \in Words
    BY <1>4, UsesApart
  <2> QED BY <1>7, <2>1 DEF Words
<1>11. ASSUME NEW x \in Ids \ {id}
       PROVE  Promise!Lent(Payloads[x]) \cap Promise!Lent(Payloads'[id]) = {}
  <2>1. \A w : ~ (Uses(blocks', block_sizes', x, w) /\ Uses(blocks', block_sizes', id, w))
    BY <1>4, UsesApart
  <2>2. Promise!Lent(Payloads'[x]) \cap Promise!Lent(Payloads'[id]) = {}
    BY <1>7, <2>1
  <2> QED BY <1>6, <2>2
<1>12. Client' = Client
  BY PayloadsAre, PayloadsAreNext
<1>13. Promise!Lend(id)
  BY <1>6, <1>9, <1>10, <1>11, <1>12 DEF Promise!Lend
<1>14. CASE blocks[id] = NULL
  <2>1. Payloads[id] = Promise!Nothing
    BY <1>14, PayloadsAre
  <2> QED BY <1>13, <2>1 DEF Promise!Allocate
<1>15. CASE blocks[id] # NULL
  <2>1. /\ Payloads[id].lo = blocks[id]
        /\ DOMAIN Payloads[id].words = 0 .. block_sizes[id] - 1
        /\ \A j \in 0 .. block_sizes[id] - 1 :
             Payloads[id].words[j] = heap.word[blocks[id] + j]
    BY <1>15, PayloadNow
  <2>2. Payloads[id] # Promise!Nothing
    BY <1>15, <2>1 DEF Promise!Nothing, NULL
  <2>3. \A j \in DOMAIN Payloads[id].words \cap DOMAIN Payloads'[id].words :
          Payloads'[id].words[j] = Payloads[id].words[j]
    <3> SUFFICES ASSUME NEW j \in 0 .. block_sizes[id] - 1, j \in 0 .. size - 1
                 PROVE  heap'.word[r.ptr + j] = heap.word[blocks[id] + j]
      BY <1>8, <2>1
    <3>1. block_sizes[id] \in Nat
      BY <1>1
    <3> QED BY <1>15, <3>1
  <2> QED BY <1>13, <2>2, <2>3 DEF Promise!Resize
<1> QED BY <1>14, <1>15

(* A block that is given back is lent no more.                             *)
LEMMA FreeReleases ==
  ASSUME Owned(heap, blocks, block_sizes), Running, Running', pass # "speed", pass' # "speed",
         NEW id \in Ids, blocks[id] # NULL, heap' = mm_free(heap, blocks[id]),
         blocks' = [blocks EXCEPT ![id] = NULL], block_sizes' = block_sizes
  PROVE  Promise!Release(id)
<1> DEFINE K == Live(heap) \ {blocks[id]}
<1>1. /\ Sane(heap) /\ blocks \in [Ids -> Words] /\ blocks[id] \in Live(heap)
  BY DEF Owned
<1>2. Kept(heap, heap', K)
  BY <1>1, FreeSane DEF Turns
<1>3. blocks'[id] = NULL /\ \A x \in Ids \ {id} : blocks'[x] = blocks[x]
  BY <1>1
<1>4. ASSUME NEW x \in Ids \ {id}
      PROVE  Payloads'[x] = Payloads[x]
  <2>1. ASSUME blocks[x] # NULL, NEW j \in 0 .. block_sizes[x] - 1
        PROVE  heap'.word[blocks[x] + j] = heap.word[blocks[x] + j]
    <3>1. blocks[x] \in K
      BY <2>1 DEF Owned
    <3> HIDE DEF K
    <3> QED BY <1>2, <2>1, <3>1, WordsKept
  <2> QED BY <1>3, <2>1, PayloadStays
<1>5. Payloads'[id] = Promise!Nothing
  BY <1>3, PayloadsAreNext
<1>6. /\ Payloads[id].lo = blocks[id]
      /\ DOMAIN Payloads[id].words = 0 .. block_sizes[id] - 1
  BY PayloadNow
<1>7. Payloads[id] # Promise!Nothing
  BY <1>6 DEF Promise!Nothing, NULL
<1>8. Client' = Client
  BY PayloadsAre, PayloadsAreNext
<1>9. /\ Payloads = [x \in Ids |-> Payloads[x]]
      /\ Payloads' = [x \in Ids |-> Payloads'[x]]
  BY DEF Payloads
<1>10. Payloads' = [Payloads EXCEPT ![id] = Promise!Nothing]
  BY <1>4, <1>5, <1>9
<1> QED BY <1>7, <1>8, <1>10 DEF Promise!Release

(* The next client starts with nothing.                                    *)
LEMMA StartsClient ==
  ASSUME blocks' = NoBlocks, verdict' = "ok", grewBoth' = FALSE
  PROVE  Promise!Restart
<1>1. Client' = "serving"
  BY DEF Client
<1>2. \A id \in Ids : blocks'[id] = NULL
  BY DEF NoBlocks
<1>3. Payloads' = Promise!Nobody
  BY <1>2 DEF Payloads, Promise!Nobody, Promise!Nothing
<1> QED BY <1>1, <1>3 DEF Promise!Restart

(* Where the driver dies, or the heap does, so does the client.            *)
LEMMA EndsClient ==
  ASSUME grewBoth' \/ verdict' \in {"assertion", "fault"}, grewBoth' \in BOOLEAN
  PROVE  Promise!Die
<1>1. Client' = "dead"
  BY DEF Client
<1>2. Payloads' = Promise!Nobody
  BY <1>1 DEF Payloads, Promise!Nobody, Promise!Nothing
<1> QED BY <1>1, <1>2 DEF Promise!Die

(* A realloc that the trace grants keeps the data.                         *)
LEMMA GrantedCopies ==
  ASSUME NEW h, NEW k, NEW sz, Owned(h, k, sz), NEW op, Granted(op, h, k),
         op.type = "realloc"
  PROVE  Copied(h, k[op.index], op.size, Reply(h, k, op).heap, Reply(h, k, op).ptr)
<1> DEFINE bp == k[op.index]
           r == Reply(h, k, op)
<1>1. /\ op.index \in Ids /\ op.size \in Nat \ {0} /\ bp # NULL /\ r.ptr # Fault
      /\ ~ SplitsBoth(h, bp, op.size)
  BY DEF Granted, Legal
<1>2. Sane(h) /\ bp \in Live(h)
  BY <1>1 DEF Owned
<1>3. r = mm_realloc(h, bp, op.size)
  BY DEF Reply
<1>4. Result(h, Fault).ptr = Fault
  BY DEF Result
<1> HIDE DEF bp
<1>5. \/ Exhausted(h, op.size) /\ mm_realloc(h, bp, op.size) = Result(h, Fault)
      \/ /\ Gives(h, bp, op.size, mm_realloc(h, bp, op.size))
         /\ Copied(h, bp, op.size, mm_realloc(h, bp, op.size).heap,
                   mm_realloc(h, bp, op.size).ptr)
  BY <1>1, <1>2, ReallocSane
<1>6. Copied(h, bp, op.size, r.heap, r.ptr)
  <2> HIDE DEF r
  <2> QED BY <1>1, <1>3, <1>4, <1>5
<1> QED BY <1>6 DEF bp, r

(* A request of the first pass that is served lends a payload.             *)
LEMMA ServesLends ==
  ASSUME IInv, Judging, Choosing, pass' = pass, grewBoth' = FALSE,
         NEW id \in Ids, NEW size \in Sizes, NEW r, Serves(id, size, r)
  PROVE  Promise!Allocate(id) \/ Promise!Resize(id)
<1>1. /\ Fills(r.heap, heap', r.ptr) /\ size \in Nat \ {0} /\ r.ptr \in Int
      /\ \A w \in r.ptr .. r.ptr + size - 1 : heap'.word[w] = Filled(id)
      /\ blocks' = [blocks EXCEPT ![id] = r.ptr]
      /\ block_sizes' = [block_sizes EXCEPT ![id] = size] /\ verdict' = "ok"
  BY ServesState
<1>2. /\ Running /\ pass = "valid" /\ Owned(heap, blocks, block_sizes)
      /\ Stamped(heap, blocks, block_sizes) /\ block_sizes[id] \in Nat
  BY ChoosingState DEF Choosing, Judging, Owned
<1>3. Running' /\ pass # "speed" /\ pass' # "speed"
  BY <1>1, <1>2 DEF Running
<1>4. Gives(heap, blocks[id], size, r)
  BY DEF Serves
<1>5. ASSUME blocks[id] # NULL, NEW j \in 0 .. size - 1, j < block_sizes[id]
      PROVE  heap'.word[r.ptr + j] = heap.word[blocks[id] + j]
  <2>1. r.ptr + j \in r.ptr .. r.ptr + size - 1 /\ j \in 0 .. block_sizes[id] - 1
    BY <1>1, <1>2, <1>5
  <2>2. heap'.word[r.ptr + j] = Filled(id)
    BY <1>1, <2>1
  <2>3. heap.word[blocks[id] + j] = Filled(id)
    BY <1>2, <1>5, <2>1 DEF Stamped
  <2> QED BY <2>2, <2>3
<1> QED BY <1>1, <1>2, <1>3, <1>4, <1>5, GivesLends

(* A request that eval_mm_util replays lends a payload or takes one back.  *)
LEMMA EvalUtilLends ==
  ASSUME IInv, Replaying("util"), EvalUtil(trace[i + 1])
  PROVE  \E id \in Ids : Promise!Allocate(id) \/ Promise!Resize(id) \/ Promise!Release(id)
<1> DEFINE op == trace[i + 1]
           id == op.index
           r == Reply(heap, blocks, op)
<1>1. /\ Again(op, Answer(op))
      /\ block_sizes' = IF op.type = "free" THEN block_sizes
                        ELSE [block_sizes EXCEPT ![op.index] = op.size]
  BY DEF EvalUtil
<1>2. /\ pass = "util" /\ pass' = "util" /\ Running /\ Running'
      /\ op \in Op /\ Granted(op, heap, blocks)
      /\ heap' = Reply(heap, blocks, op).heap /\ blocks' = NextBlocks(op, blocks)
  BY <1>1, ReplayedState
<1> HIDE DEF op
<1>3. pass # "speed" /\ pass' # "speed"
  BY <1>2
<1>4. Owned(heap, blocks, block_sizes)
  BY <1>2 DEF IInv, Owning
<1>5. id \in Ids /\ op.answer = r.ptr
  BY <1>2 DEF Granted, Legal
<1>6. CASE op.type = "free"
  <2>1. /\ heap' = mm_free(heap, blocks[id]) /\ blocks[id] # NULL /\ r.ptr = NULL
    BY <1>2, <1>6 DEF Reply, Granted, Legal
  <2>2. blocks' = [blocks EXCEPT ![id] = NULL] /\ block_sizes' = block_sizes
    BY <1>1, <1>2, <1>5, <1>6, <2>1 DEF NextBlocks
  <2> HIDE DEF id, r
  <2>3. Promise!Release(id)
    BY <1>2, <1>3, <1>4, <1>5, <2>1, <2>2, FreeReleases
  <2> QED BY <1>5, <2>3
<1>7. CASE op.type # "free"
  <2>1. op.size \in Nat \ {0} /\ Gives(heap, blocks[id], op.size, r)
    BY <1>2, <1>4, <1>7, GrantedGives
  <2>2. r.heap \in Heap
    BY <1>2, <1>4, ReplyHeap
  <2>3. heap' = r.heap /\ Fills(r.heap, heap', r.ptr)
    BY <1>2, <2>2, FillsNothing
  <2>4. /\ blocks' = [blocks EXCEPT ![id] = r.ptr]
        /\ block_sizes' = [block_sizes EXCEPT ![id] = op.size]
    BY <1>1, <1>2, <1>5, <1>7 DEF NextBlocks
  <2>5. ASSUME blocks[id] # NULL, NEW j \in 0 .. op.size - 1, j < block_sizes[id]
        PROVE  heap'.word[r.ptr + j] = heap.word[blocks[id] + j]
    <3>1. op.type = "realloc"
      BY <1>2, <1>7, <2>5 DEF Granted, Legal
    <3>2. Copied(heap, blocks[id], op.size, r.heap, r.ptr)
      BY <1>2, <1>4, <3>1, GrantedCopies
    <3>3. /\ block_sizes[id] \in Nat /\ block_sizes[id] + 2 <= Size(heap, blocks[id])
          /\ Sane(heap) /\ blocks[id] \in Live(heap)
      BY <1>4, <1>5, <2>5 DEF Owned
    <3>4. Size(heap, blocks[id]) \in Int
      BY <3>3, LiveType
    <3> HIDE DEF id, r
    <3>5. j < Size(heap, blocks[id]) - 2
      BY <2>1, <2>5, <3>3, <3>4
    <3> QED BY <2>3, <2>5, <3>2, <3>5 DEF Copied
  <2> HIDE DEF id, r
  <2>6. Promise!Allocate(id) \/ Promise!Resize(id)
    BY <1>2, <1>3, <1>4, <1>5, <2>1, <2>3, <2>4, <2>5, GivesLends
  <2> QED BY <1>5, <2>6
<1> QED BY <1>6, <1>7

(* A step of the driver is a step of what an allocator promises, or none.  *)
LEMMA NextPromised ==
  ASSUME SmallIds, IInv, Judging, [Next]_vars
  PROVE  Promise!Next \/ UNCHANGED <<Payloads, Client>>
<1>1. ASSUME Running
      PROVE  Client = "serving"
  BY <1>1 DEF Running, Client
<1>2. ASSUME Running, \E id \in Ids : Promise!Allocate(id) \/ Promise!Resize(id)
      PROVE  Promise!Next
  BY <1>1, <1>2 DEF Promise!Next
<1>3. ASSUME NEW id \in Ids, NEW n \in Sizes, Alloc(id, n)
      PROVE  Promise!Next
  <2>1. /\ Choosing /\ pass' = pass /\ grewBoth' = FALSE
        /\ \/ verdict' = "malloc failed" /\ UNCHANGED <<heap, blocks, block_sizes>>
           \/ \E r : Serves(id, n, r)
    BY <1>3, AllocServes
  <2>2. Running /\ pass = "valid"
    BY <2>1 DEF Choosing
  <2>3. CASE verdict' = "malloc failed" /\ UNCHANGED <<heap, blocks, block_sizes>>
    <3>1. Client' = "refused" /\ Client = "serving"
      BY <1>1, <2>1, <2>2, <2>3 DEF Client
    <3>2. Payloads' = Payloads
      BY <2>1, <2>3, <3>1 DEF Payloads, Payload
    <3> QED BY <3>1, <3>2 DEF Promise!Next, Promise!Refuse
  <2>4. CASE \E r : Serves(id, n, r)
    BY <1>2, <2>1, <2>2, <2>4, ServesLends
  <2> QED BY <2>1, <2>3, <2>4
<1>4. ASSUME NEW id \in Ids, NEW n \in Sizes, Realloc(id, n)
      PROVE  Promise!Next
  <2>1. /\ Choosing /\ pass' = pass /\ grewBoth' \in BOOLEAN
        /\ \/ grewBoth' \/ verdict' \in {"assertion", "fault"}
           \/ \E r : Serves(id, n, r)
    BY <1>4, ReallocServes
  <2>2. Running
    BY <2>1 DEF Choosing
  <2>3. CASE grewBoth' \/ verdict' \in {"assertion", "fault"}
    <3>1. Promise!Die
      BY <2>1, <2>3, EndsClient
    <3> QED BY <1>1, <2>2, <3>1 DEF Promise!Next
  <2>4. CASE grewBoth' = FALSE /\ \E r : Serves(id, n, r)
    BY <1>2, <2>1, <2>2, <2>4, ServesLends
  <2> QED BY <2>1, <2>3, <2>4
<1>5. ASSUME NEW id \in Ids, Free(id)
      PROVE  Promise!Next
  <2>1. /\ Choosing /\ blocks[id] # NULL /\ pass' = pass
        /\ heap' = mm_free(heap, blocks[id])
        /\ blocks' = [blocks EXCEPT ![id] = NULL] /\ block_sizes' = block_sizes
        /\ verdict' = verdict /\ grewBoth' = grewBoth
    BY <1>5 DEF Free, Request
  <2>2. /\ Owned(heap, blocks, block_sizes) /\ Running /\ Running'
        /\ pass # "speed" /\ pass' # "speed"
    BY <2>1, ChoosingState DEF Choosing, Running
  <2>3. Promise!Release(id)
    BY <2>1, <2>2, FreeReleases
  <2> QED BY <1>1, <2>2, <2>3 DEF Promise!Next
<1>6. CASE StartUtil \/ StartSpeed
  <2>1. /\ Served /\ blocks' = NoBlocks /\ verdict' = verdict /\ grewBoth' = grewBoth
    BY <1>6 DEF StartUtil, StartSpeed, Restart
  <2>2. Running /\ verdict' = "ok" /\ grewBoth' = FALSE
    BY <2>1, ServedState DEF Served
  <2>3. Promise!Restart
    BY <2>1, <2>2, StartsClient
  <2> QED BY <1>1, <2>2, <2>3 DEF Promise!Next
<1>7. CASE NextTrace
  <2>1. /\ blocks' = NoBlocks /\ verdict' = "ok" /\ grewBoth' = grewBoth
        /\ (Served /\ Timed) \/ (Reported /\ ~ grewBoth)
    BY <1>7 DEF NextTrace
  <2>2. grewBoth = FALSE /\ Client # "dead"
    <3>1. CASE Served
      BY <1>1, <3>1, ServedState DEF Served
    <3>2. CASE Reported /\ ~ grewBoth
      BY <3>2 DEF Reported, Client, IInv, HoldingsOK
    <3> QED BY <2>1, <3>1, <3>2
  <2>3. Promise!Restart
    BY <2>1, <2>2, StartsClient
  <2> QED BY <2>2, <2>3 DEF Promise!Next
<1>8. CASE Replaying("util") /\ EvalUtil(trace[i + 1])
  <2>1. Running
    BY <1>8 DEF Replaying
  <2> QED BY <1>1, <1>8, <2>1, EvalUtilLends DEF Promise!Next
<1>9. CASE Replaying("speed") /\ EvalSpeed(trace[i + 1])
  <2>1. /\ pass = "speed" /\ pass' = "speed" /\ Running /\ Running'
    BY <1>9, ReplayedState DEF EvalSpeed
  <2> QED BY <2>1 DEF Payloads, Client, Running
<1>10. CASE Ended \/ UNCHANGED vars
  <2>1. UNCHANGED <<heap, blocks, block_sizes, verdict, pass, grewBoth>>
    BY <1>10 DEF Ended, vars, trackers
  <2> QED BY <2>1 DEF Payloads, Payload, Client
<1> QED BY <1>3, <1>4, <1>5, <1>6, <1>7, <1>8, <1>9, <1>10 DEF Next

(* The allocator under the driver implements what an allocator promises:   *)
(* no request disturbs the payload of another id, a realloc keeps the data,*)
(* in the first pass and in the replay, and the driver reports nothing but *)
(* requests that fail.  For ids with a low byte below 128: see ReadsAs.    *)
THEOREM PromiseKept ==
  ASSUME SmallIds
  PROVE  Spec => ImplementsAllocator
<1>1. Init => Judging /\ Promise!Init
  <2> SUFFICES ASSUME Init PROVE Judging /\ Promise!Init
    OBVIOUS
  <2>1. \A id \in Ids : blocks[id] = NULL
    BY DEF Init, NoBlocks
  <2>2. ranges = {} /\ verdict = "ok" /\ grewBoth = FALSE
    BY DEF Init
  <2>3. Judging
    BY <2>1, <2>2 DEF Judging, Stamped, RangesOf
  <2>4. Payloads = Promise!Nobody
    BY <2>1 DEF Payloads, Promise!Nobody, Promise!Nothing
  <2>5. Client = "serving"
    BY <2>2 DEF Client
  <2> QED BY <2>3, <2>4, <2>5 DEF Promise!Init
<1>2. IInv /\ Judging /\ [Next]_vars => Judging'
  <2> SUFFICES ASSUME IInv, Judging, [Next]_vars PROVE Judging'
    OBVIOUS
  <2>1. CASE UNCHANGED vars
    BY <2>1 DEF vars, trackers, Judging, Running
  <2> QED BY <2>1, JudgingNext
<1>3. IInv /\ Judging /\ [Next]_vars => [Promise!Next]_(Promise!vars)
  <2> SUFFICES ASSUME IInv, Judging, [Next]_vars PROVE [Promise!Next]_(Promise!vars)
    OBVIOUS
  <2>1. Promise!Next \/ UNCHANGED <<Payloads, Client>>
    BY NextPromised
  <2> QED BY <2>1 DEF Promise!vars
<1> QED BY <1>1, <1>2, <1>3, Inductive, PTL DEF Spec, ImplementsAllocator, Promise!Spec
============================================================================
