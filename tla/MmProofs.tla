------------------------------ MODULE MmProofs ------------------------------
(***************************************************************************)
(* Facts about the operators of the allocator, for memories of any size.   *)
(***************************************************************************)
EXTENDS Mm, FiniteSetTheorems, WellFoundedInduction, TLAPS

----------------------------------------------------------------------------
(* Natural numbers.                                                        *)

(* A nonempty set of naturals has a least element.                         *)
LEMMA LeastNat ==
  ASSUME NEW T, T \subseteq Nat, T # {}
  PROVE  \E x \in T : \A y \in T : x <= y
<1>1. \A R, S : IsWellFoundedOn(R, S) =>
        \A U : U \subseteq S /\ U # {} => \E x \in U : \A y \in U : ~ (<<y, x>> \in R)
  BY WFMin, Zenon
<1>2. PICK x \in T : \A y \in T : ~ (<<y, x>> \in OpToRel(<, Nat))
  BY <1>1, NatLessThanWellFounded, Zenon
<1>3. \A a, b \in Nat : a < b => <<a, b>> \in OpToRel(<, Nat)
  BY DEF OpToRel
<1>4. \A y \in T : ~ (y < x)
  BY <1>2, <1>3, Zenon
<1>5. x \in Nat /\ \A y \in T : y \in Nat
  OBVIOUS
<1> QED BY <1>4, <1>5

----------------------------------------------------------------------------
(* Stores.                                                                 *)

(* A tag gives back the size and the bit that were packed into it.         *)
LEMMA PackedTag ==
  ASSUME NEW size \in Int, (size % 2) = 0, NEW alloc \in {0, 1}
  PROVE  /\ PACK(size, alloc) \in Int
         /\ PACK(size, alloc) - (PACK(size, alloc) % 2) = size
         /\ (PACK(size, alloc) % 2) = alloc
BY DEF PACK

(* A store changes one word.                                               *)
LEMMA PutWrites ==
  ASSUME NEW h \in Heap, NEW p, NEW val \in Int
  PROVE  /\ PUT(h, p, val) \in Heap
         /\ PUT(h, p, val).brk = h.brk
         /\ PUT(h, p, val).free_list_start = h.free_list_start
         /\ \A k \in Words :
              PUT(h, p, val).word[k] = IF k = p THEN val ELSE h.word[k]
BY DEF PUT, Heap

(* Tags are written to two words.                                          *)
LEMMA TagWrites ==
  ASSUME NEW h \in Heap, NEW bp \in Int, NEW size \in Int, NEW alloc \in {0, 1}
  PROVE  /\ Tag(h, bp, size, alloc) \in Heap
         /\ Tag(h, bp, size, alloc).brk = h.brk
         /\ Tag(h, bp, size, alloc).free_list_start = h.free_list_start
         /\ \A k \in Words :
              Tag(h, bp, size, alloc).word[k] =
                IF k \in {bp - 1, bp + size - 2} THEN size + alloc ELSE h.word[k]
<1> DEFINE one == PUT(h, HDRP(bp), PACK(size, alloc))
<1>1. PACK(size, alloc) \in Int
  BY DEF PACK
<1>2. /\ one \in Heap /\ one.brk = h.brk
      /\ one.free_list_start = h.free_list_start
      /\ \A k \in Words : one.word[k] = IF k = HDRP(bp) THEN PACK(size, alloc)
                                        ELSE h.word[k]
  BY <1>1, PutWrites
<1> HIDE DEF one
<1>3. Tag(h, bp, size, alloc) = PUT(one, bp + size - 2, PACK(size, alloc))
  BY DEF Tag, one
<1> QED
  BY <1>1, <1>2, <1>3, PutWrites DEF HDRP, PACK

(* The head of the list or one word is set, and for a successor a word or  *)
(* nothing.                                                                *)
LEMMA SetSuccWrites ==
  ASSUME NEW h \in Heap, NEW pred \in Int, NEW bp \in Int
  PROVE  /\ SetSucc(h, pred, bp) \in Heap
         /\ SetSucc(h, pred, bp).brk = h.brk
         /\ SetSucc(h, pred, bp).free_list_start =
              IF pred = NULL THEN bp ELSE h.free_list_start
         /\ \A k \in Words :
              SetSucc(h, pred, bp).word[k] =
                IF pred # NULL /\ k = pred + 1 THEN bp ELSE h.word[k]
<1>1. CASE pred = NULL
  BY <1>1 DEF SetSucc, Heap
<1>2. CASE pred # NULL
  BY <1>2, PutWrites DEF SetSucc
<1> QED BY <1>1, <1>2

(* SET_PRED_BLKP, guarded by the test for NULL, writes one word.           *)
LEMMA SetPredWrites ==
  ASSUME NEW h \in Heap, NEW succ \in Int, NEW bp \in Int
  PROVE  /\ SetPred(h, succ, bp) \in Heap
         /\ SetPred(h, succ, bp).brk = h.brk
         /\ SetPred(h, succ, bp).free_list_start = h.free_list_start
         /\ \A k \in Words :
              SetPred(h, succ, bp).word[k] =
                IF succ # NULL /\ k = succ THEN bp ELSE h.word[k]
BY PutWrites DEF SetPred

(* What Link writes.                                                       *)
LEMMA LinkWrites ==
  ASSUME NEW h \in Heap, NEW bp \in Int, NEW pred \in Int, NEW succ \in Int
  PROVE  LET new == Link(h, bp, pred, succ) IN
         /\ new \in Heap
         /\ new.brk = h.brk
         /\ new.free_list_start = IF pred = NULL THEN bp ELSE h.free_list_start
         /\ \A k \in Words :
              new.word[k] = IF pred # NULL /\ k = pred + 1 THEN bp
                            ELSE IF succ # NULL /\ k = succ THEN bp
                            ELSE IF k = bp + 1 THEN succ
                            ELSE IF k = bp THEN pred ELSE h.word[k]
<1> DEFINE one   == PUT(h, bp, pred)
           two   == PUT(one, bp + 1, succ)
           three == SetPred(two, succ, bp)
<1>1. /\ one \in Heap /\ one.brk = h.brk
      /\ one.free_list_start = h.free_list_start
      /\ \A k \in Words : one.word[k] = IF k = bp THEN pred ELSE h.word[k]
  BY PutWrites
<1> HIDE DEF one
<1>2. /\ two \in Heap /\ two.brk = h.brk
      /\ two.free_list_start = h.free_list_start
      /\ \A k \in Words : two.word[k] = IF k = bp + 1 THEN succ ELSE one.word[k]
  BY <1>1, PutWrites
<1> HIDE DEF two
<1>3. /\ three \in Heap /\ three.brk = h.brk
      /\ three.free_list_start = h.free_list_start
      /\ \A k \in Words : three.word[k] =
                            IF succ # NULL /\ k = succ THEN bp ELSE two.word[k]
  BY <1>2, SetPredWrites
<1> HIDE DEF three
<1>4. Link(h, bp, pred, succ) = SetSucc(three, pred, bp)
  BY DEF Link, one, two, three
<1> QED
  BY <1>1, <1>2, <1>3, <1>4, SetSuccWrites

(* What Unlink writes.                                                     *)
LEMMA UnlinkWrites ==
  ASSUME NEW h \in Heap, NEW pred \in Int, NEW succ \in Int
  PROVE  LET new == Unlink(h, pred, succ) IN
         /\ new \in Heap
         /\ new.brk = h.brk
         /\ new.free_list_start = IF pred = NULL THEN succ ELSE h.free_list_start
         /\ \A k \in Words :
              new.word[k] = IF succ # NULL /\ k = succ THEN pred
                            ELSE IF pred # NULL /\ k = pred + 1 THEN succ
                            ELSE h.word[k]
<1> DEFINE one == SetSucc(h, pred, succ)
<1>1. /\ one \in Heap /\ one.brk = h.brk
      /\ one.free_list_start = IF pred = NULL THEN succ ELSE h.free_list_start
      /\ \A k \in Words : one.word[k] =
           IF pred # NULL /\ k = pred + 1 THEN succ ELSE h.word[k]
  BY SetSuccWrites
<1> HIDE DEF one
<1>2. Unlink(h, pred, succ) = SetPred(one, succ, pred)
  BY DEF Unlink, one
<1> QED
  BY <1>1, <1>2, SetPredWrites

----------------------------------------------------------------------------
(* The free list.                                                          *)

(* A set of blocks that the walk along the list passes through.            *)
Passed(h, S) ==
  /\ h.free_list_start # NULL => h.free_list_start \in S
  /\ \A f \in S : SUCC_BLKP(h, f) \in S \cup {NULL}

(* The members F are linked both ways, with a first and a last one.        *)
Linked(h, F) ==
  /\ h.free_list_start \in F \cup {NULL}
  /\ \A f \in F :
       /\ PRED_BLKP(h, f) \in F \cup {NULL}
       /\ SUCC_BLKP(h, f) \in F \cup {NULL}
       /\ PRED_BLKP(h, f) = NULL <=> f = h.free_list_start
       /\ SUCC_BLKP(h, f) # NULL => PRED_BLKP(h, SUCC_BLKP(h, f)) = f
       /\ PRED_BLKP(h, f) # NULL => SUCC_BLKP(h, PRED_BLKP(h, f)) = f
  /\ F # {} => \E f \in F : SUCC_BLKP(h, f) = NULL

(* The list has the members F: they are linked, and every walk along the   *)
(* list passes through all of them.                                        *)
Listed(h, F) ==
  /\ Linked(h, F)
  /\ \A S \in SUBSET F : Passed(h, S) => S = F

(* The two links of each of them are words of the memory, and no link is   *)
(* another's.                                                              *)
Apart(F) == /\ F \subseteq Words \ {NULL}
            /\ \A f \in F : f + 1 \in Words /\ f + 1 \notin F

(* The values of the links are numbers.                                    *)
LEMMA HeapType ==
  ASSUME NEW h \in Heap
  PROVE  /\ h.word \in [Words -> Int] /\ h.brk \in 0 .. MAX_HEAP
         /\ h.free_list_start \in Int /\ NULL \in Int
         /\ \A k \in Words : k \in Int /\ h.word[k] \in Int
<1>1. Words \subseteq Int /\ NULL \in Int
  BY DEF Words, NULL
<1>2. /\ h.word \in [Words -> Int] /\ h.brk \in 0 .. MAX_HEAP
      /\ h.free_list_start \in Int
  BY DEF Heap
<1> QED BY <1>1, <1>2

(* The list is where its links are.                                        *)
LEMMA ListedElsewhere ==
  ASSUME NEW F, Apart(F), NEW h, Listed(h, F), NEW g,
         g.free_list_start = h.free_list_start,
         \A f \in F : g.word[f] = h.word[f] /\ g.word[f + 1] = h.word[f + 1]
  PROVE  Listed(g, F)
<1>1. \A S \in SUBSET F : Passed(g, S) => Passed(h, S)
  BY DEF Passed, SUCC_BLKP
<1>2. Linked(g, F)
  BY DEF Listed, Linked, PRED_BLKP, SUCC_BLKP
<1> QED
  BY <1>1, <1>2 DEF Listed

(* A block enters the list as its first.                                   *)
LEMMA ListedAdd ==
  ASSUME NEW h \in Heap, NEW F, NEW bp, bp \notin F, Listed(h, F),
         NEW G, G = F \cup {bp}, Apart(G)
  PROVE  LET new == add_to_free_list(h, bp) IN
         /\ new \in Heap /\ new.brk = h.brk
         /\ Listed(new, G)
         /\ \A k \in Words : k \notin G /\ k - 1 \notin G => new.word[k] = h.word[k]
<1> DEFINE start == h.free_list_start
           new == add_to_free_list(h, bp)
<1>1. /\ bp \in Words /\ bp # NULL /\ bp \in Int /\ start \in Int
      /\ bp + 1 \in Words /\ NULL \in Int
      /\ start \in F \cup {NULL}
  BY HeapType DEF Apart, Listed, Linked
<1>2. /\ new \in Heap /\ new.brk = h.brk
      /\ new.free_list_start = bp
      /\ \A k \in Words : new.word[k] = IF start # NULL /\ k = start THEN bp
                                      ELSE IF k = bp + 1 THEN start
                                      ELSE IF k = bp THEN NULL ELSE h.word[k]
  <2>1. new = Link(h, bp, NULL, start)
    BY DEF add_to_free_list
  <2> HIDE DEF new
  <2> QED BY <1>1, <2>1, LinkWrites
<1> HIDE DEF new, start
<1>9. \A f \in F : /\ f \in Words /\ f + 1 \in Words /\ f \in Int
                  /\ f # NULL /\ f + 1 \notin F /\ f + 1 # bp /\ f # bp /\ bp + 1 # f
  BY HeapType DEF Apart
<1>3. PRED_BLKP(new, bp) = NULL /\ SUCC_BLKP(new, bp) = start
  BY <1>1, <1>2, <1>9 DEF PRED_BLKP, SUCC_BLKP
<1>4. \A f \in F : /\ SUCC_BLKP(new, f) = SUCC_BLKP(h, f)
                  /\ PRED_BLKP(new, f) = IF f = start THEN bp ELSE PRED_BLKP(h, f)
  <2> TAKE f \in F
  <2>1. new.word[f + 1] = h.word[f + 1]
    BY <1>1, <1>2, <1>9
  <2>2. new.word[f] = IF f = start THEN bp ELSE h.word[f]
    BY <1>1, <1>2, <1>9
  <2> QED BY <2>1, <2>2 DEF PRED_BLKP, SUCC_BLKP
<1>5. ASSUME NEW S \in SUBSET (F \cup {bp}), Passed(new, S)
      PROVE  S = F \cup {bp}
  <2>1. bp \in S
    BY <1>1, <1>2, <1>5 DEF Passed
  <2>2. S \ {bp} \in SUBSET F
    OBVIOUS
  <2>3. Passed(h, S \ {bp})
    BY <1>1, <1>3, <1>4, <1>5, <1>9, <2>1 DEF Passed, Listed, Linked, start
  <2> QED BY <2>1, <2>2, <2>3 DEF Listed
<1>6. \E f \in F \cup {bp} : SUCC_BLKP(new, f) = NULL
  BY <1>1, <1>3, <1>4 DEF Listed, Linked
<1>7. Listed(new, F \cup {bp})
  <2>1. \A f \in F \cup {bp} :
         /\ PRED_BLKP(new, f) \in F \cup {bp, NULL}
         /\ SUCC_BLKP(new, f) \in F \cup {bp, NULL}
         /\ PRED_BLKP(new, f) = NULL <=> f = bp
         /\ SUCC_BLKP(new, f) # NULL => PRED_BLKP(new, SUCC_BLKP(new, f)) = f
         /\ PRED_BLKP(new, f) # NULL => SUCC_BLKP(new, PRED_BLKP(new, f)) = f
    BY <1>1, <1>3, <1>4, <1>9 DEF Listed, Linked, start
  <2> QED BY <1>2, <1>5, <1>6, <2>1 DEF Listed, Linked
<1>8. \A k \in Words : k \notin G /\ k - 1 \notin G => new.word[k] = h.word[k]
  BY <1>1, <1>2, <1>9 DEF Words
<1> QED BY <1>2, <1>7, <1>8 DEF new

(* A block leaves the list.                                                *)
LEMMA ListedRemove ==
  ASSUME NEW h \in Heap, NEW F, NEW bp \in F, Apart(F), Listed(h, F)
  PROVE  LET new == remove_from_free_list(h, bp) IN
         /\ new \in Heap /\ new.brk = h.brk
         /\ Listed(new, F \ {bp})
         /\ \A k \in Words : k \notin F /\ k - 1 \notin F => new.word[k] = h.word[k]
         /\ new.word[bp] = h.word[bp] /\ new.word[bp + 1] = h.word[bp + 1]
<1> DEFINE start == h.free_list_start
           pred == PRED_BLKP(h, bp)
           succ == SUCC_BLKP(h, bp)
           G == F \ {bp}
           new == remove_from_free_list(h, bp)
<1>1. /\ bp \in Words /\ bp # NULL /\ bp \in Int /\ bp + 1 \in Words
      /\ start \in Int /\ pred \in Int /\ succ \in Int
      /\ pred \in F \cup {NULL} /\ succ \in F \cup {NULL}
      /\ pred = NULL <=> bp = start
      /\ succ # NULL => PRED_BLKP(h, succ) = bp
      /\ pred # NULL => SUCC_BLKP(h, pred) = bp
  <2>1. bp \in Words /\ bp # NULL /\ bp + 1 \in Words
    BY DEF Apart
  <2>2. bp \in Int /\ start \in Int /\ pred \in Int /\ succ \in Int
    BY <2>1, HeapType DEF PRED_BLKP, SUCC_BLKP
  <2> QED BY <2>1, <2>2 DEF Listed, Linked
<1>2. /\ new \in Heap /\ new.brk = h.brk
      /\ new.free_list_start = IF pred = NULL THEN succ ELSE start
      /\ \A k \in Words : new.word[k] = IF succ # NULL /\ k = succ THEN pred
                                      ELSE IF pred # NULL /\ k = pred + 1 THEN succ
                                      ELSE h.word[k]
  BY <1>1, UnlinkWrites DEF remove_from_free_list
<1>3. pred # bp /\ succ # bp
  <2>1. CASE succ = bp
    <3>1. {bp} \in SUBSET F /\ pred = bp
      BY <1>1, <2>1
    <3>2. F \ {bp} \in SUBSET F /\ Passed(h, F \ {bp})
      <4>1. start # bp
        BY <1>1, <3>1
      <4>2. \A f \in F \ {bp} : SUCC_BLKP(h, f) # bp
        BY <1>1, <2>1, <3>1 DEF Listed, Linked
      <4> QED BY <4>1, <4>2 DEF Passed, Listed, Linked
    <3> QED BY <3>2 DEF Listed
  <2>2. CASE pred = bp
    <3>1. succ = bp
      BY <1>1, <2>2
    <3> QED BY <2>1, <3>1
  <2> QED BY <2>1, <2>2
<1>4. \A f \in F : /\ f \in Words /\ f + 1 \in Words /\ f \in Int
                  /\ \A g \in F : f + 1 # g
  BY DEF Apart, Words
<1> HIDE DEF new, pred, succ, start
<1>5. \A f \in F : /\ SUCC_BLKP(new, f) = IF f = pred THEN succ ELSE SUCC_BLKP(h, f)
                  /\ PRED_BLKP(new, f) = IF f = succ THEN pred ELSE PRED_BLKP(h, f)
  BY <1>1, <1>2, <1>4 DEF PRED_BLKP, SUCC_BLKP, Apart
<1>6. ASSUME NEW S \in SUBSET G, Passed(new, S)
      PROVE  S = G
  <2>1. CASE pred \in S \/ pred = NULL
    <3>1. S \cup {bp} \in SUBSET F
      OBVIOUS
    <3>2. Passed(h, S \cup {bp})
      BY <1>1, <1>2, <1>5, <1>6, <2>1 DEF Passed, start, succ, Listed, Linked
    <3> QED BY <3>1, <3>2 DEF Listed
  <2>2. CASE pred \notin S /\ pred # NULL
    <3>1. S \in SUBSET F
      OBVIOUS
    <3>2. Passed(h, S)
      BY <1>1, <1>2, <1>5, <1>6, <2>2 DEF Passed, start
    <3> QED BY <3>1, <3>2 DEF Listed
  <2> QED BY <2>1, <2>2
<1>7. \A f \in G :
        /\ PRED_BLKP(new, f) \in G \cup {NULL}
        /\ SUCC_BLKP(new, f) \in G \cup {NULL}
        /\ PRED_BLKP(new, f) = NULL <=> f = new.free_list_start
        /\ SUCC_BLKP(new, f) # NULL => PRED_BLKP(new, SUCC_BLKP(new, f)) = f
        /\ PRED_BLKP(new, f) # NULL => SUCC_BLKP(new, PRED_BLKP(new, f)) = f
  <2> TAKE f \in G
  <2>0. /\ f \in F /\ f # bp
        /\ PRED_BLKP(h, f) \in F \cup {NULL} /\ SUCC_BLKP(h, f) \in F \cup {NULL}
        /\ PRED_BLKP(h, f) = NULL <=> f = start
        /\ SUCC_BLKP(h, f) # NULL => PRED_BLKP(h, SUCC_BLKP(h, f)) = f
        /\ PRED_BLKP(h, f) # NULL => SUCC_BLKP(h, PRED_BLKP(h, f)) = f
        /\ f # NULL
    BY <1>1 DEF Listed, Linked, start, Apart
  <2>1. f = succ \/ PRED_BLKP(h, f) # bp
    BY <2>0, <1>1 DEF succ
  <2>2. f = pred \/ SUCC_BLKP(h, f) # bp
    BY <2>0, <1>1 DEF pred
  <2>3. PRED_BLKP(new, f) \in G \cup {NULL} /\ SUCC_BLKP(new, f) \in G \cup {NULL}
    BY <1>1, <1>3, <1>5, <2>0, <2>1, <2>2
  <2>4. PRED_BLKP(new, f) = NULL <=> f = new.free_list_start
    BY <1>1, <1>2, <1>3, <1>5, <2>0, <2>1
  <2>5. SUCC_BLKP(new, f) # NULL => PRED_BLKP(new, SUCC_BLKP(new, f)) = f
    <3>1. CASE f = pred
      BY <1>1, <1>3, <1>5, <2>3, <3>1
    <3>2. CASE f # pred
      <4>1. SUCC_BLKP(new, f) = SUCC_BLKP(h, f)
        BY <1>5, <2>0, <3>2
      <4>2. SUCC_BLKP(h, f) # NULL => SUCC_BLKP(h, f) # succ
        BY <1>1, <2>0
      <4> QED BY <1>5, <2>0, <2>3, <4>1, <4>2
    <3> QED BY <3>1, <3>2
  <2>6. PRED_BLKP(new, f) # NULL => SUCC_BLKP(new, PRED_BLKP(new, f)) = f
    BY <1>1, <1>3, <1>5, <2>0, <2>1, <2>3
  <2> QED BY <2>3, <2>4, <2>5, <2>6
<1>8. G # {} => \E f \in G : SUCC_BLKP(new, f) = NULL
  <2>1. PICK last \in F : SUCC_BLKP(h, last) = NULL
    BY DEF Listed, Linked
  <2>2. CASE last # bp
    BY <1>1, <1>4, <1>5, <2>1, <2>2 DEF Apart
  <2>3. CASE last = bp /\ pred # NULL
    <3>1. pred \in G /\ succ = NULL
      BY <1>1, <1>3, <2>1, <2>3 DEF succ
    <3> QED BY <1>5, <3>1
  <2>4. CASE last = bp /\ pred = NULL
    <3>1. {bp} \in SUBSET F /\ Passed(h, {bp})
      BY <1>1, <2>1, <2>4 DEF Passed, start
    <3> QED BY <3>1 DEF Listed
  <2> QED BY <2>2, <2>3, <2>4
<1>9. new.free_list_start \in G \cup {NULL}
  BY <1>1, <1>2, <1>3 DEF Listed, Linked, start
<1>10. Listed(new, G)
  <2> HIDE DEF G
  <2>1. Linked(new, G)
    BY <1>7, <1>8, <1>9 DEF Linked
  <2> QED BY <1>6, <2>1 DEF Listed
<1>11. \A k \in Words : k \notin F /\ k - 1 \notin F => new.word[k] = h.word[k]
  BY <1>1, <1>2
<1>12. new.word[bp] = h.word[bp] /\ new.word[bp + 1] = h.word[bp + 1]
  BY <1>1, <1>2, <1>3, <1>4
<1> QED BY <1>2, <1>10, <1>11, <1>12 DEF new

----------------------------------------------------------------------------
(* Blocks.                                                                 *)

Size(h, bp) == GET_SIZE(h, HDRP(bp))

(* The blocks B lie side by side from address s up to address e.           *)
Tiles(h, s, e, B) ==
  /\ B \subseteq s .. e - 1
  /\ s \in B \cup {e}
  /\ \A b \in B :
       /\ (b % 2) = 0
       /\ Size(h, b) >= MIN_B_SIZE
       /\ b + Size(h, b) \in B \cup {e}
       /\ h.word[b + Size(h, b) - 2] = h.word[b - 1]
  /\ \A c \in B \cup {e} : c # s => \E b \in B : b + Size(h, b) = c
  /\ \A b \in B, c \in B : b < c => b + Size(h, b) <= c

(* The prologue and the epilogue.                                          *)
Fenced(h) ==
  /\ h.brk >= 4 /\ (h.brk % 2) = 0
  /\ h.word[1] = 3 /\ h.word[2] = 3 /\ h.word[h.brk - 1] = 1

Tiled(h, B) == Fenced(h) /\ Tiles(h, 4, h.brk, B)

(* The blocks of B in front of an address, and behind it.                  *)
Below(B, m) == {b \in B : b < m}
From(B, m)  == {b \in B : b >= m}

(* The blocks N instead of those from s up to e.                           *)
Replaced(B, s, e, N) == Below(B, s) \cup N \cup From(B, e)

(* The words of a block, its header and footer among them.                 *)
Span(h, bp) == bp - 1 .. bp + Size(h, bp) - 2

(* The sizes of blocks in memory are even numbers.                         *)
LEMMA SizeType ==
  ASSUME NEW h \in Heap, NEW b \in Int, b - 1 \in Words
  PROVE  /\ Size(h, b) \in Int /\ (Size(h, b) % 2) = 0
         /\ Size(h, b) = h.word[b - 1] - (h.word[b - 1] % 2)
         /\ (h.word[b - 1] % 2) \in {0, 1}
<1>1. h.word[b - 1] \in Int
  BY HeapType
<1> QED BY <1>1 DEF Size, GET_SIZE, HDRP

(* The words of the blocks are words of the memory.                        *)
LEMMA TilesType ==
  ASSUME NEW h \in Heap, NEW s \in Int, NEW e \in Int, 1 <= s, e <= h.brk,
         NEW B, Tiles(h, s, e, B)
  PROVE  \A b \in B :
           /\ b \in Int /\ s <= b /\ Size(h, b) \in Int /\ Size(h, b) >= 4
           /\ b + Size(h, b) \in Int /\ b + Size(h, b) <= e
           /\ (Size(h, b) % 2) = 0 /\ (b % 2) = 0
           /\ b - 1 \in Words /\ b \in Words /\ b + 1 \in Words
           /\ b + Size(h, b) - 2 \in Words
<1> TAKE b \in B
<1>1. b \in Int /\ s <= b /\ b <= e - 1
  BY DEF Tiles
<1>2. h.brk \in Int /\ h.brk <= MAX_HEAP /\ MAX_HEAP \in Int
  BY HeapType, MaxHeapAssumption
<1>3. b - 1 \in Words /\ b \in Words
  BY <1>1, <1>2 DEF Words
<1>4. Size(h, b) \in Int /\ (Size(h, b) % 2) = 0
  BY <1>1, <1>3, SizeType
<1>5. Size(h, b) >= 4 /\ b + Size(h, b) \in B \cup {e} /\ (b % 2) = 0
  BY DEF Tiles, MIN_B_SIZE
<1>6. b + Size(h, b) <= e
  <2>1. \A c \in B \cup {e} : c <= e
    BY DEF Tiles
  <2> QED BY <1>5, <2>1
<1> QED BY <1>1, <1>2, <1>3, <1>4, <1>5, <1>6 DEF Words

(* No two blocks have a word in common.                                    *)
LEMMA TilesDisjoint ==
  ASSUME NEW h \in Heap, NEW s \in Int, NEW e \in Int, 1 <= s, e <= h.brk,
         NEW B, Tiles(h, s, e, B), NEW b \in B, NEW c \in B, b # c
  PROVE  \A k \in Int : k \in Span(h, b) => k \notin Span(h, c)
<1>1. /\ b \in Int /\ c \in Int /\ Size(h, b) \in Int /\ Size(h, c) \in Int
      /\ Size(h, b) >= 4 /\ Size(h, c) >= 4
  BY TilesType
<1>2. (b < c => b + Size(h, b) <= c) /\ (c < b => c + Size(h, c) <= b)
  BY DEF Tiles
<1> QED BY <1>1, <1>2 DEF Span

(* Where their tags are the same, the blocks are.                          *)
LEMMA TilesSame ==
  ASSUME NEW h, NEW s, NEW e, NEW B, Tiles(h, s, e, B), NEW g,
         \A b \in B : /\ g.word[b - 1] = h.word[b - 1]
                      /\ g.word[b + Size(h, b) - 2] = h.word[b + Size(h, b) - 2]
  PROVE  Tiles(g, s, e, B) /\ \A b \in B : Size(g, b) = Size(h, b)
<1>1. \A b \in B : Size(g, b) = Size(h, b)
  BY DEF Size, GET_SIZE, HDRP
<1> QED BY <1>1 DEF Tiles

(* One block fills the space.                                              *)
LEMMA TilesOne ==
  ASSUME NEW h, NEW s \in Int, NEW e \in Int, s + 4 <= e, (s % 2) = 0,
         Size(h, s) = e - s, h.word[e - 2] = h.word[s - 1]
  PROVE  Tiles(h, s, e, {s})
<1>1. s + Size(h, s) = e
  OBVIOUS
<1> QED BY <1>1 DEF Tiles, MIN_B_SIZE

(* Two rows of blocks make one.                                            *)
LEMMA TilesJoin ==
  ASSUME NEW h \in Heap, NEW s \in Int, NEW m \in Int, NEW e \in Int,
         1 <= s, s <= m, m <= e, e <= h.brk,
         NEW A, NEW B, Tiles(h, s, m, A), Tiles(h, m, e, B)
  PROVE  Tiles(h, s, e, A \cup B)
<1>0. m <= h.brk /\ h.brk \in Int
  BY HeapType
<1>1. \A b \in A : b \in Int /\ Size(h, b) \in Int /\ b + Size(h, b) <= m
  BY <1>0, TilesType
<1>2. \A b \in B : b \in Int /\ m <= b
  BY TilesType
<1>3. \A b \in A, c \in B : b + Size(h, b) <= c
  BY <1>1, <1>2
<1>4. \A b \in B, c \in A : ~ (b < c)
  <2> TAKE b \in B, c \in A
  <2>1. c \in s .. m - 1
    BY DEF Tiles
  <2> QED BY <1>2, <2>1
<1>5. A \cup B \subseteq s .. e - 1
  BY DEF Tiles
<1>6. s \in A \cup B \cup {e}
  BY DEF Tiles
<1>7. \A b \in A \cup B : b + Size(h, b) \in A \cup B \cup {e}
  BY DEF Tiles
<1>8. \A c \in A \cup B \cup {e} : c # s => \E b \in A \cup B : b + Size(h, b) = c
  <2> TAKE c \in A \cup B \cup {e}
  <2> HAVE c # s
  <2>1. CASE c \in A
    BY <2>1 DEF Tiles
  <2>2. CASE c \in B \cup {e} /\ c # m
    BY <2>2 DEF Tiles
  <2>3. CASE c = m
    BY <2>3 DEF Tiles
  <2> QED BY <2>1, <2>2, <2>3
<1>9. \A b \in A \cup B, c \in A \cup B : b < c => b + Size(h, b) <= c
  BY <1>3, <1>4 DEF Tiles
<1>10. \A b \in A \cup B :
         /\ (b % 2) = 0
         /\ Size(h, b) >= MIN_B_SIZE
         /\ h.word[b + Size(h, b) - 2] = h.word[b - 1]
  BY DEF Tiles
<1> QED BY <1>5, <1>6, <1>7, <1>8, <1>9, <1>10 DEF Tiles

(* A row of blocks can be cut where one begins.                            *)
LEMMA TilesCut ==
  ASSUME NEW h \in Heap, NEW s \in Int, NEW e \in Int, 1 <= s, s <= e, e <= h.brk,
         NEW B, Tiles(h, s, e, B), NEW m \in B \cup {e}
  PROVE  /\ Tiles(h, s, m, Below(B, m))
         /\ Tiles(h, m, e, From(B, m))
         /\ m \in Int /\ s <= m /\ m <= e
<1> DEFINE low == {b \in B : b < m}
           high == {b \in B : b >= m}
<1>1. \A b \in B : /\ b \in Int /\ s <= b /\ b <= e - 1 /\ Size(h, b) \in Int
                   /\ Size(h, b) >= 4 /\ b + Size(h, b) \in Int /\ b + Size(h, b) <= e
                   /\ b + Size(h, b) \in B \cup {e}
  <2>1. \A b \in B : b \in s .. e - 1 /\ b + Size(h, b) \in B \cup {e}
    BY DEF Tiles
  <2> QED BY <2>1, TilesType
<1>2. m \in Int /\ s <= m /\ m <= e
  BY <1>1
<1>3. \A b \in low : b + Size(h, b) <= m
  BY <1>1, <1>2 DEF Tiles
<1>4. \A b \in low : b + Size(h, b) \in low \cup {m}
  BY <1>1, <1>2, <1>3
<1>5. \A b \in high : b + Size(h, b) \in high \cup {e}
  BY <1>1, <1>2
<1>6. \A c \in B \cup {e} : c # s => \E b \in B : b + Size(h, b) = c
  BY DEF Tiles
<1>7. \A c \in low \cup {m} : c # s => \E b \in low : b + Size(h, b) = c
  <2> TAKE c \in low \cup {m}
  <2> HAVE c # s
  <2>1. PICK b \in B : b + Size(h, b) = c
    BY <1>6
  <2>2. b < m
    BY <1>1, <1>2, <2>1
  <2> QED BY <2>1, <2>2
<1>8. \A c \in high \cup {e} : c # m => \E b \in high : b + Size(h, b) = c
  <2> TAKE c \in high \cup {e}
  <2> HAVE c # m
  <2>1. c \in Int /\ c > m /\ c # s
    BY <1>1, <1>2
  <2>2. PICK b \in B : b + Size(h, b) = c
    BY <1>6, <2>1
  <2>3. b >= m
    BY <1>1, <1>2, <1>3, <2>1, <2>2
  <2> QED BY <2>2, <2>3
<1>9. low \subseteq s .. m - 1 /\ high \subseteq m .. e - 1
  <2>1. \A b \in low : b \in s .. m - 1
    BY <1>1, <1>2
  <2>2. \A b \in high : b \in m .. e - 1
    BY <1>1, <1>2
  <2> QED BY <2>1, <2>2
<1>10. s \in low \cup {m} /\ m \in high \cup {e}
  <2>1. s \in B \cup {e}
    BY DEF Tiles
  <2> QED BY <1>1, <1>2, <2>1
<1>11. \A b \in B :
         /\ (b % 2) = 0
         /\ Size(h, b) >= MIN_B_SIZE
         /\ h.word[b + Size(h, b) - 2] = h.word[b - 1]
         /\ \A c \in B : b < c => b + Size(h, b) <= c
  BY DEF Tiles
<1>12. Tiles(h, s, m, low)
  <2>1. low \subseteq B
    OBVIOUS
  <2> HIDE DEF low, high
  <2> QED BY <1>4, <1>7, <1>9, <1>10, <1>11, <2>1 DEF Tiles
<1>13. Tiles(h, m, e, high)
  <2>1. high \subseteq B
    OBVIOUS
  <2> HIDE DEF low, high
  <2> QED BY <1>5, <1>8, <1>9, <1>10, <1>11, <2>1 DEF Tiles
<1> QED BY <1>2, <1>12, <1>13 DEF Below, From

(* The links of a block are words of its own, and none is 0.               *)
LEMMA TiledApart ==
  ASSUME NEW h \in Heap, NEW B, Tiled(h, B)
  PROVE  /\ Apart(B)
         /\ h.brk \in Int /\ 4 <= h.brk /\ h.brk <= MAX_HEAP /\ MAX_HEAP \in Int
         /\ 1 \in Words /\ 2 \in Words /\ h.brk - 1 \in Words
         /\ \A b \in B :
              /\ b \in Int /\ 4 <= b /\ Size(h, b) \in Int /\ Size(h, b) >= 4
              /\ b + Size(h, b) \in Int /\ b + Size(h, b) <= h.brk
              /\ (Size(h, b) % 2) = 0 /\ (b % 2) = 0
              /\ b - 1 \in Words /\ b \in Words /\ b + 1 \in Words
              /\ b + Size(h, b) - 2 \in Words
              /\ b + Size(h, b) \in B \cup {h.brk}
              /\ h.word[b + Size(h, b) - 2] = h.word[b - 1]
<1>1. /\ h.brk \in Int /\ 4 <= h.brk /\ h.brk <= MAX_HEAP /\ MAX_HEAP \in Int
  BY HeapType, MaxHeapAssumption DEF Tiled, Fenced
<1>2. Tiles(h, 4, h.brk, B)
  BY DEF Tiled
<1>3. \A b \in B :
        /\ b \in Int /\ 4 <= b /\ Size(h, b) \in Int /\ Size(h, b) >= 4
        /\ b + Size(h, b) \in Int /\ b + Size(h, b) <= h.brk
        /\ (Size(h, b) % 2) = 0 /\ (b % 2) = 0
        /\ b - 1 \in Words /\ b \in Words /\ b + 1 \in Words
        /\ b + Size(h, b) - 2 \in Words
  BY <1>1, <1>2, TilesType
<1>4. \A b \in B : b + 1 \notin B
  <2> TAKE b \in B
  <2>1. SUFFICES ASSUME b + 1 \in B PROVE FALSE
    OBVIOUS
  <2>2. b < b + 1 => b + Size(h, b) <= b + 1
    BY <1>2, <2>1 DEF Tiles
  <2> QED BY <1>3, <2>2
<1>5. \A b \in B : /\ b + Size(h, b) \in B \cup {h.brk}
                   /\ h.word[b + Size(h, b) - 2] = h.word[b - 1]
  BY <1>2 DEF Tiles
<1>6. Apart(B)
  BY <1>3, <1>4 DEF Apart, NULL
<1>7. 1 \in Words /\ 2 \in Words /\ h.brk - 1 \in Words
  BY <1>1 DEF Words
<1> QED BY <1>1, <1>3, <1>5, <1>6, <1>7

(* What a word is, decides whether a block is free.                        *)
LEMMA FreeBit ==
  ASSUME NEW h \in Heap, NEW g \in Heap, NEW b, g.word[b - 1] = h.word[b - 1]
  PROVE  Size(g, b) = Size(h, b) /\ (IsFree(g, b) <=> IsFree(h, b))
BY DEF Size, GET_SIZE, HDRP, IsFree, GET_ALLOC

(* A block outside a row of blocks has no word in it.                      *)
LEMMA RowApart ==
  ASSUME NEW h \in Heap, NEW B, Tiled(h, B), NEW s \in B, NEW e \in B \cup {h.brk},
         NEW b \in B, b < s \/ b >= e
  PROVE  \A k \in Int : k \in Span(h, b) => k \notin s - 1 .. e - 2
<1>1. /\ b \in Int /\ s \in Int /\ e \in Int
      /\ Size(h, b) \in Int /\ Size(h, b) >= 4
  BY TiledApart
<1>2. b < s => b + Size(h, b) <= s
  BY DEF Tiled, Tiles
<1> QED BY <1>1, <1>2 DEF Span

(* A row of blocks is replaced by others.                                  *)
LEMMA TiledReplace ==
  ASSUME NEW h \in Heap, NEW B, Tiled(h, B), NEW s \in B, NEW e \in B \cup {h.brk},
         s < e, NEW g \in Heap, g.brk = h.brk, NEW N, Tiles(g, s, e, N),
         \A k \in Words : k \notin s - 1 .. e - 2 => g.word[k] = h.word[k]
  PROVE  /\ Tiled(g, Replaced(B, s, e, N))
         /\ \A b \in B : b < s \/ b >= e =>
              /\ Size(g, b) = Size(h, b) /\ (IsFree(g, b) <=> IsFree(h, b))
              /\ \A k \in Span(h, b) : g.word[k] = h.word[k]
<1> DEFINE low == Below(B, s)
           high == From(B, e)
<1>1. /\ s \in Int /\ e \in Int /\ 4 <= s /\ h.brk \in Int
      /\ 4 <= e /\ e <= h.brk /\ 1 \in Words /\ 2 \in Words /\ h.brk - 1 \in Words
  <2>1. \A b \in B : b \in Int /\ 4 <= b /\ b <= h.brk
    <3> TAKE b \in B
    <3>1. /\ b \in Int /\ 4 <= b /\ h.brk \in Int /\ Size(h, b) \in Int
          /\ Size(h, b) >= 4 /\ b + Size(h, b) <= h.brk
      BY TiledApart
    <3> QED BY <3>1
  <2>2. /\ 4 <= h.brk /\ h.brk \in Int
        /\ 1 \in Words /\ 2 \in Words /\ h.brk - 1 \in Words
    BY TiledApart
  <2> QED BY <2>1, <2>2
<1>2. \A b \in B : b < s \/ b >= e => \A k \in Span(h, b) : g.word[k] = h.word[k]
  <2> TAKE b \in B
  <2> HAVE b < s \/ b >= e
  <2> TAKE k \in Span(h, b)
  <2>1. k \in Int /\ k \in Words
    <3>1. /\ b \in Int /\ 4 <= b /\ Size(h, b) \in Int /\ b + Size(h, b) <= h.brk
          /\ h.brk \in Int /\ h.brk <= MAX_HEAP /\ MAX_HEAP \in Int
      BY TiledApart
    <3> QED BY <3>1 DEF Span, Words
  <2>2. k \notin s - 1 .. e - 2
    BY <2>1, RowApart
  <2> QED BY <2>1, <2>2
<1>3. \A b \in B : b < s \/ b >= e =>
        /\ b - 1 \in Span(h, b) /\ b + Size(h, b) - 2 \in Span(h, b)
        /\ g.word[b - 1] = h.word[b - 1]
        /\ g.word[b + Size(h, b) - 2] = h.word[b + Size(h, b) - 2]
        /\ Size(g, b) = Size(h, b) /\ (IsFree(g, b) <=> IsFree(h, b))
  <2> TAKE b \in B
  <2> HAVE b < s \/ b >= e
  <2>1. b \in Int /\ Size(h, b) \in Int /\ Size(h, b) >= 4
    BY TiledApart
  <2>2. b - 1 \in Span(h, b) /\ b + Size(h, b) - 2 \in Span(h, b)
    BY <2>1 DEF Span
  <2>3. g.word[b - 1] = h.word[b - 1]
    BY <1>2, <2>2
  <2> QED BY <1>2, <2>2, <2>3, FreeBit
<1>4. Tiles(h, 4, h.brk, B)
  BY DEF Tiled
<1>5. Tiles(h, 4, s, low) /\ Tiles(h, e, h.brk, high)
  <2>1. /\ 4 \in Int /\ 1 <= 4 /\ 4 <= h.brk /\ h.brk <= h.brk
        /\ s \in B \cup {h.brk}
    BY <1>1
  <2>2. Tiles(h, 4, s, low)
    BY <1>1, <1>4, <2>1, TilesCut
  <2>3. Tiles(h, e, h.brk, high)
    BY <1>1, <1>4, <2>1, TilesCut
  <2> QED BY <2>2, <2>3
<1>6. Tiles(g, 4, s, low) /\ Tiles(g, e, h.brk, high)
  <2>1. \A b \in low \cup high : b \in B /\ (b < s \/ b >= e)
    BY DEF Below, From
  <2> HIDE DEF low, high
  <2> QED BY <1>3, <1>5, <2>1, TilesSame
<1>7. Tiles(g, 4, e, low \cup N)
  BY <1>1, <1>6, TilesJoin
<1>8. Tiles(g, 4, g.brk, (low \cup N) \cup high)
  BY <1>1, <1>6, <1>7, TilesJoin
<1>9. Fenced(g)
  <2>1. 1 \notin s - 1 .. e - 2 /\ 2 \notin s - 1 .. e - 2 /\ h.brk - 1 \notin s - 1 .. e - 2
    BY <1>1
  <2> QED BY <1>1, <2>1 DEF Fenced, Tiled
<1> QED BY <1>2, <1>3, <1>8, <1>9 DEF Tiled, Replaced

----------------------------------------------------------------------------
(* Blocks and list together.                                               *)

(* The heap has the blocks B, and those of F, which are free, are listed.  *)
Laid(h, B, F) ==
  /\ h \in Heap /\ Tiled(h, B)
  /\ F \subseteq B /\ \A f \in F : IsFree(h, f)
  /\ Listed(h, F)

(* Two heaps with the same tags and the same list.                         *)
Alike(h, g, B, F) ==
  /\ g \in Heap /\ g.brk = h.brk /\ g.free_list_start = h.free_list_start
  /\ \A k \in {1, 2, h.brk - 1} : g.word[k] = h.word[k]
  /\ \A b \in B : /\ g.word[b - 1] = h.word[b - 1]
                  /\ g.word[b + Size(h, b) - 2] = h.word[b + Size(h, b) - 2]
  /\ \A f \in F : g.word[f] = h.word[f] /\ g.word[f + 1] = h.word[f + 1]

(* No word of the block has changed.                                       *)
Stays(h, g, b) == \A k \in Span(h, b) : g.word[k] = h.word[k]

(* The blocks have the sizes they had, and the same ones are free.         *)
SameTags(h, g, B) ==
  /\ g.brk = h.brk
  /\ \A b \in B : Size(g, b) = Size(h, b) /\ (IsFree(g, b) <=> IsFree(h, b))

(* The blocks outside the row from s up to e are what they were.           *)
Outside(h, g, B, s, e) ==
  /\ g.brk = h.brk
  /\ \A b \in B : b < s \/ b >= e =>
       /\ Size(g, b) = Size(h, b) /\ (IsFree(g, b) <=> IsFree(h, b))
       /\ Stays(h, g, b)

(* A block of this size, with this bit.                                    *)
Block(h, b, size, alloc) == Size(h, b) = size /\ (IsFree(h, b) <=> alloc = 0)

(* The words that are not in K have not changed.                           *)
Writes(h, g, K) == \A k \in Words : k \notin K => g.word[k] = h.word[k]

(* Part of a list is apart as well.                                        *)
LEMMA ApartSubset ==
  ASSUME NEW B, Apart(B), NEW F \in SUBSET B
  PROVE  Apart(F)
BY DEF Apart

(* Heaps that are alike have the same blocks and the same list.            *)
LEMMA LaidAlike ==
  ASSUME NEW h, NEW B, NEW F, Laid(h, B, F), NEW g, Alike(h, g, B, F)
  PROVE  Laid(g, B, F) /\ SameTags(h, g, B)
<1>1. h \in Heap /\ g \in Heap /\ Tiled(h, B) /\ F \subseteq B /\ Listed(h, F)
  BY DEF Laid, Alike
<1>2. Apart(F)
  BY <1>1, TiledApart, ApartSubset
<1>3. Listed(g, F)
  BY <1>1, <1>2, ListedElsewhere DEF Alike
<1>4. Tiled(g, B)
  BY <1>1, TilesSame DEF Alike, Tiled, Fenced
<1>5. SameTags(h, g, B)
  BY <1>1, FreeBit DEF Alike, SameTags
<1> QED BY <1>1, <1>3, <1>4, <1>5 DEF Laid, SameTags

(* The words of a block are words of the memory.                           *)
LEMMA SpanWords ==
  ASSUME NEW h \in Heap, NEW B, Tiled(h, B), NEW b \in B
  PROVE  /\ Span(h, b) \subseteq Words /\ Span(h, b) \subseteq 3 .. h.brk - 2
         /\ {b - 1, b, b + 1, b + Size(h, b) - 2} \subseteq Span(h, b)
<1>1. /\ b \in Int /\ 4 <= b /\ Size(h, b) \in Int /\ Size(h, b) >= 4
      /\ b + Size(h, b) <= h.brk /\ h.brk \in Int /\ h.brk <= MAX_HEAP
      /\ MAX_HEAP \in Int
  BY TiledApart
<1> QED BY <1>1 DEF Span, Words

(* Where only the links of some blocks are written, tags stay, and so do   *)
(* the other blocks.                                                       *)
LEMMA LinksInside ==
  ASSUME NEW h \in Heap, NEW B, Tiled(h, B), NEW G \in SUBSET B,
         NEW g \in Heap, g.brk = h.brk,
         \A k \in Words : k \notin G /\ k - 1 \notin G => g.word[k] = h.word[k]
  PROVE  /\ Tiled(g, B)
         /\ \A k \in {1, 2, h.brk - 1} : g.word[k] = h.word[k]
         /\ \A b \in B : /\ g.word[b - 1] = h.word[b - 1]
                         /\ g.word[b + Size(h, b) - 2] = h.word[b + Size(h, b) - 2]
                         /\ Size(g, b) = Size(h, b)
                         /\ (IsFree(g, b) <=> IsFree(h, b))
         /\ \A b \in B \ G : Stays(h, g, b)
<1>1. \A b \in B, c \in B : b # c => \A k \in Int : k \in Span(h, b) => k \notin Span(h, c)
  <2>1. 4 \in Int /\ 1 <= 4 /\ h.brk \in Int /\ h.brk <= h.brk /\ Tiles(h, 4, h.brk, B)
    BY HeapType DEF Tiled
  <2> QED BY <2>1, TilesDisjoint
<1>2. \A f \in G : f \in Span(h, f) /\ f + 1 \in Span(h, f) /\ f \in Int
  BY SpanWords, TiledApart
<1>3. \A b \in B \ G : Stays(h, g, b)
  <2> TAKE b \in B \ G
  <2>1. ASSUME NEW k \in Span(h, b)
        PROVE  g.word[k] = h.word[k]
    <3>1. k \in Words /\ k \in Int
      BY SpanWords DEF Words
    <3>2. k \notin G
      BY <1>1, <1>2, <2>1, <3>1
    <3>3. k - 1 \notin G
      <4>1. SUFFICES ASSUME k - 1 \in G PROVE FALSE
        OBVIOUS
      <4>2. k \in Span(h, k - 1)
        BY <1>2, <3>1, <4>1
      <4> QED BY <1>1, <2>1, <3>1, <4>1, <4>2
    <3> QED BY <3>1, <3>2, <3>3
  <2> QED BY <2>1 DEF Stays
<1>4. \A b \in B : /\ g.word[b - 1] = h.word[b - 1]
                   /\ g.word[b + Size(h, b) - 2] = h.word[b + Size(h, b) - 2]
  <2> TAKE b \in B
  <2>1. CASE b \in B \ G
    BY <1>3, <2>1, SpanWords DEF Stays
  <2>2. CASE b \in G
    <3>1. /\ b \in Int /\ Size(h, b) \in Int /\ Size(h, b) >= 4
          /\ b - 1 \in Words /\ b + Size(h, b) - 2 \in Words
      BY TiledApart
    <3>2. ASSUME NEW k \in Words, k \in Span(h, b), k # b, k # b + 1
          PROVE  g.word[k] = h.word[k]
      <4>0. k \in Int
        BY DEF Words
      <4>1. k \notin G
        BY <1>1, <1>2, <2>2, <3>1, <3>2, <4>0
      <4>2. k - 1 \notin G
        <5>1. SUFFICES ASSUME k - 1 \in G PROVE FALSE
          OBVIOUS
        <5>2. k \in Span(h, k - 1) /\ k - 1 # b
          BY <1>2, <3>1, <3>2, <4>0, <5>1
        <5> QED BY <1>1, <2>2, <3>2, <4>0, <5>1, <5>2
      <4> QED BY <4>1, <4>2
    <3>3. b - 1 \in Span(h, b) /\ b + Size(h, b) - 2 \in Span(h, b)
      BY SpanWords
    <3> QED BY <3>1, <3>2, <3>3
  <2> QED BY <2>1, <2>2
<1>5. \A k \in {1, 2, h.brk - 1} : g.word[k] = h.word[k]
  <2> TAKE k \in {1, 2, h.brk - 1}
  <2>1. k \in Words /\ h.brk \in Int /\ 4 <= h.brk
    BY TiledApart
  <2>2. \A f \in G : f \in Int /\ 4 <= f /\ f + 4 <= h.brk
    <3> TAKE f \in G
    <3>1. f \in Int /\ 4 <= f /\ Size(h, f) \in Int /\ Size(h, f) >= 4 /\ f + Size(h, f) <= h.brk
      BY TiledApart
    <3> QED BY <2>1, <3>1
  <2>3. k \notin G /\ k - 1 \notin G
    BY <2>1, <2>2
  <2> QED BY <2>1, <2>3
<1>6. \A b \in B : Size(g, b) = Size(h, b) /\ (IsFree(g, b) <=> IsFree(h, b))
  BY <1>4, FreeBit
<1>7. Tiled(g, B)
  BY <1>4, <1>5, TilesSame DEF Tiled, Fenced
<1> QED BY <1>3, <1>4, <1>5, <1>6, <1>7

(* A free block leaves the list, and the memory is as it was but for links.*)
LEMMA LaidRemove ==
  ASSUME NEW h, NEW B, NEW F, Laid(h, B, F), NEW bp \in F
  PROVE  LET new == remove_from_free_list(h, bp) IN
         /\ Laid(new, B, F \ {bp})
         /\ SameTags(h, new, B)
         /\ \A b \in B \ F : Stays(h, new, b)
<1> DEFINE new == remove_from_free_list(h, bp)
<1>1. h \in Heap /\ Tiled(h, B) /\ F \subseteq B /\ Listed(h, F) /\ Apart(F)
  BY TiledApart, ApartSubset DEF Laid
<1>2. /\ new \in Heap /\ new.brk = h.brk /\ Listed(new, F \ {bp})
      /\ \A k \in Words : k \notin F /\ k - 1 \notin F => new.word[k] = h.word[k]
  <2>1. /\ new \in Heap /\ new.brk = h.brk
        /\ Listed(new, F \ {bp})
        /\ \A k \in Words : k \notin F /\ k - 1 \notin F => new.word[k] = h.word[k]
        /\ new.word[bp] = h.word[bp] /\ new.word[bp + 1] = h.word[bp + 1]
    BY <1>1, ListedRemove
  <2> QED BY <2>1
<1> HIDE DEF new
<1>3. /\ Tiled(new, B)
      /\ \A k \in {1, 2, h.brk - 1} : new.word[k] = h.word[k]
      /\ \A b \in B : /\ new.word[b - 1] = h.word[b - 1]
                      /\ new.word[b + Size(h, b) - 2] = h.word[b + Size(h, b) - 2]
                      /\ Size(new, b) = Size(h, b)
                      /\ (IsFree(new, b) <=> IsFree(h, b))
      /\ \A b \in B \ F : Stays(h, new, b)
  BY <1>1, <1>2, LinksInside
<1>4. Laid(new, B, F \ {bp})
  BY <1>2, <1>3 DEF Laid
<1> QED BY <1>2, <1>3, <1>4 DEF new, SameTags

(* A free block enters the list.                                           *)
LEMMA LaidAdd ==
  ASSUME NEW h, NEW B, NEW F, Laid(h, B, F), NEW bp \in B \ F, IsFree(h, bp)
  PROVE  LET new == add_to_free_list(h, bp) IN
         /\ Laid(new, B, F \cup {bp})
         /\ SameTags(h, new, B)
         /\ \A b \in B \ (F \cup {bp}) : Stays(h, new, b)
<1> DEFINE new == add_to_free_list(h, bp)
           G == F \cup {bp}
<1>1. /\ h \in Heap /\ Tiled(h, B) /\ F \subseteq B /\ G \subseteq B
      /\ Listed(h, F) /\ Apart(G)
  BY TiledApart, ApartSubset DEF Laid
<1>2. /\ new \in Heap /\ new.brk = h.brk /\ Listed(new, G)
      /\ \A k \in Words : k \notin G /\ k - 1 \notin G => new.word[k] = h.word[k]
  <2>1. bp \notin F /\ G = F \cup {bp}
    OBVIOUS
  <2> HIDE DEF G
  <2> QED BY <1>1, <2>1, ListedAdd
<1> HIDE DEF new
<1>4. /\ Tiled(new, B)
      /\ \A k \in {1, 2, h.brk - 1} : new.word[k] = h.word[k]
      /\ \A b \in B : /\ new.word[b - 1] = h.word[b - 1]
                      /\ new.word[b + Size(h, b) - 2] = h.word[b + Size(h, b) - 2]
                      /\ Size(new, b) = Size(h, b)
                      /\ (IsFree(new, b) <=> IsFree(h, b))
      /\ \A b \in B \ G : Stays(h, new, b)
  <2> HIDE DEF G
  <2> QED BY <1>1, <1>2, LinksInside
<1>5. Laid(new, B, G)
  BY <1>1, <1>2, <1>4 DEF Laid
<1> QED BY <1>2, <1>4, <1>5 DEF new, SameTags

(* Tags are written anew between s and e, and the blocks N are there.      *)
LEMMA LaidRetag ==
  ASSUME NEW h, NEW B, NEW F, Laid(h, B, F),
         NEW s \in B, NEW e \in B \cup {h.brk}, s < e,
         NEW new \in Heap, new.brk = h.brk, new.free_list_start = h.free_list_start,
         NEW N, Tiles(new, s, e, N),
         \A k \in Words : k \notin s - 1 .. e - 2 => new.word[k] = h.word[k],
         \A f \in F : \/ f < s \/ f >= e
                      \/ /\ f \in N /\ IsFree(new, f)
                         /\ new.word[f] = h.word[f] /\ new.word[f + 1] = h.word[f + 1]
  PROVE  /\ Laid(new, Replaced(B, s, e, N), F)
         /\ Outside(h, new, B, s, e)
<1>1. h \in Heap /\ Tiled(h, B) /\ F \subseteq B /\ Listed(h, F) /\ Apart(F)
  BY TiledApart, ApartSubset DEF Laid
<1>2. /\ Tiled(new, Replaced(B, s, e, N))
      /\ \A b \in B : b < s \/ b >= e =>
           /\ Size(new, b) = Size(h, b) /\ (IsFree(new, b) <=> IsFree(h, b))
           /\ \A k \in Span(h, b) : new.word[k] = h.word[k]
  BY <1>1, TiledReplace
<1>3. /\ \A b \in B : b < s \/ b >= e => b \in Replaced(B, s, e, N)
      /\ N \subseteq Replaced(B, s, e, N)
  BY DEF Below, From, Replaced
<1>4. \A f \in F : /\ f \in Replaced(B, s, e, N) /\ IsFree(new, f)
                   /\ new.word[f] = h.word[f] /\ new.word[f + 1] = h.word[f + 1]
  <2> TAKE f \in F
  <2>1. CASE f < s \/ f >= e
    <3>1. f \in B /\ IsFree(h, f)
      BY <1>1 DEF Laid
    <3>2. f \in Span(h, f) /\ f + 1 \in Span(h, f)
      BY <1>1, <3>1, SpanWords
    <3> QED BY <1>2, <1>3, <2>1, <3>1, <3>2
  <2>2. CASE ~ (f < s \/ f >= e)
    BY <1>3, <2>2
  <2> QED BY <2>1, <2>2
<1>5. Listed(new, F)
  BY <1>1, <1>4, ListedElsewhere
<1>6. Laid(new, Replaced(B, s, e, N), F)
  BY <1>2, <1>4, <1>5 DEF Laid
<1> QED BY <1>2, <1>6 DEF Stays, Outside

(* Heaps stay alike when the same words are written to both.               *)
LEMMA AlikeFollows ==
  ASSUME NEW h, NEW B, NEW F, Laid(h, B, F), NEW g, Alike(h, g, B, F),
         NEW new, NEW gnew \in Heap, new.brk = h.brk, gnew.brk = g.brk,
         gnew.free_list_start = new.free_list_start,
         \A k \in Words : \/ gnew.word[k] = new.word[k]
                          \/ gnew.word[k] = g.word[k] /\ new.word[k] = h.word[k],
         NEW C, NEW G, Laid(new, C, G),
         \A b \in C : \/ b \in B /\ Size(new, b) = Size(h, b)
                      \/ /\ gnew.word[b - 1] = new.word[b - 1]
                         /\ gnew.word[b + Size(new, b) - 2] = new.word[b + Size(new, b) - 2],
         \A f \in G : \/ f \in F
                      \/ gnew.word[f] = new.word[f] /\ gnew.word[f + 1] = new.word[f + 1]
  PROVE  Alike(new, gnew, C, G)
<1>1. /\ h \in Heap /\ Tiled(h, B) /\ F \subseteq B
      /\ new \in Heap /\ Tiled(new, C) /\ G \subseteq C
  BY DEF Laid
<1>2. \A k \in Words : g.word[k] = h.word[k] => gnew.word[k] = new.word[k]
  OBVIOUS
<1>3. \A k \in {1, 2, new.brk - 1} : gnew.word[k] = new.word[k]
  <2>1. 1 \in Words /\ 2 \in Words /\ h.brk - 1 \in Words
    BY <1>1, TiledApart
  <2> QED BY <1>2, <2>1 DEF Alike
<1>4. \A b \in C : /\ gnew.word[b - 1] = new.word[b - 1]
                   /\ gnew.word[b + Size(new, b) - 2] = new.word[b + Size(new, b) - 2]
  <2> TAKE b \in C
  <2>1. b - 1 \in Words /\ b + Size(new, b) - 2 \in Words
    BY <1>1, TiledApart
  <2>2. CASE b \in B /\ Size(new, b) = Size(h, b)
    <3>1. g.word[b - 1] = h.word[b - 1]
      BY <2>2 DEF Alike
    <3>2. g.word[b + Size(new, b) - 2] = h.word[b + Size(new, b) - 2]
      BY <2>2 DEF Alike
    <3> QED BY <1>2, <2>1, <3>1, <3>2
  <2> QED BY <2>2
<1>5. \A f \in G : gnew.word[f] = new.word[f] /\ gnew.word[f + 1] = new.word[f + 1]
  <2> TAKE f \in G
  <2>1. f \in Words /\ f + 1 \in Words
    BY <1>1, TiledApart
  <2> QED BY <1>2, <2>1 DEF Alike
<1> QED BY <1>3, <1>4, <1>5 DEF Alike

(* A block leaves the lists of two heaps that are alike.                   *)
LEMMA AlikeRemove ==
  ASSUME NEW h, NEW B, NEW F, Laid(h, B, F), NEW bp \in F,
         NEW g, Alike(h, g, B, F)
  PROVE  Alike(remove_from_free_list(h, bp), remove_from_free_list(g, bp), B, F \ {bp})
<1> DEFINE new  == remove_from_free_list(h, bp)
           gnew == remove_from_free_list(g, bp)
           pred == PRED_BLKP(h, bp)
           succ == SUCC_BLKP(h, bp)
<1>1. /\ h \in Heap /\ g \in Heap /\ g.free_list_start = h.free_list_start
      /\ bp \in Words /\ bp + 1 \in Words
  BY TiledApart DEF Laid, Alike
<1>2. /\ PRED_BLKP(g, bp) = pred /\ SUCC_BLKP(g, bp) = succ
      /\ pred \in Int /\ succ \in Int
  BY <1>1, HeapType DEF Alike, PRED_BLKP, SUCC_BLKP
<1>3. new = Unlink(h, pred, succ) /\ gnew = Unlink(g, pred, succ)
  BY <1>2 DEF remove_from_free_list
<1>4. Laid(new, B, F \ {bp}) /\ SameTags(h, new, B)
  BY LaidRemove
<1> HIDE DEF new, gnew, pred, succ
<1>5. /\ new.free_list_start = IF pred = NULL THEN succ ELSE h.free_list_start
      /\ \A k \in Words :
           new.word[k] = IF succ # NULL /\ k = succ THEN pred
                         ELSE IF pred # NULL /\ k = pred + 1 THEN succ
                         ELSE h.word[k]
  BY <1>1, <1>2, <1>3, UnlinkWrites
<1>6. /\ gnew \in Heap /\ gnew.brk = g.brk
      /\ gnew.free_list_start = IF pred = NULL THEN succ ELSE g.free_list_start
      /\ \A k \in Words :
           gnew.word[k] = IF succ # NULL /\ k = succ THEN pred
                          ELSE IF pred # NULL /\ k = pred + 1 THEN succ
                          ELSE g.word[k]
  BY <1>1, <1>2, <1>3, UnlinkWrites
<1>7. gnew.free_list_start = new.free_list_start
  BY <1>1, <1>5, <1>6
<1>8. \A k \in Words : \/ gnew.word[k] = new.word[k]
                       \/ gnew.word[k] = g.word[k] /\ new.word[k] = h.word[k]
  BY <1>5, <1>6
<1>9. \A b \in B : b \in B /\ Size(new, b) = Size(h, b)
  BY <1>4 DEF SameTags
<1>10. Alike(new, gnew, B, F \ {bp})
  <2>1. new.brk = h.brk
    BY <1>4 DEF SameTags
  <2> QED BY <1>4, <1>6, <1>7, <1>8, <1>9, <2>1, AlikeFollows
<1> QED BY <1>10 DEF new, gnew

(* A block enters the lists of two heaps that are alike.                   *)
LEMMA AlikeAdd ==
  ASSUME NEW h, NEW B, NEW F, Laid(h, B, F), NEW bp \in B \ F, IsFree(h, bp),
         NEW g, Alike(h, g, B, F)
  PROVE  Alike(add_to_free_list(h, bp), add_to_free_list(g, bp), B, F \cup {bp})
<1> DEFINE new   == add_to_free_list(h, bp)
           gnew  == add_to_free_list(g, bp)
           start == h.free_list_start
<1>1. /\ h \in Heap /\ g \in Heap /\ g.free_list_start = start
      /\ bp \in Int /\ start \in Int /\ NULL \in Int
      /\ bp \in Words /\ bp + 1 \in Words
  BY TiledApart, HeapType DEF Laid, Alike
<1>2. new = Link(h, bp, NULL, start) /\ gnew = Link(g, bp, NULL, start)
  BY <1>1 DEF add_to_free_list
<1>3. Laid(new, B, F \cup {bp}) /\ SameTags(h, new, B)
  BY LaidAdd
<1> HIDE DEF new, gnew, start
<1>4. /\ new.free_list_start = bp
      /\ \A k \in Words :
           new.word[k] = IF start # NULL /\ k = start THEN bp
                         ELSE IF k = bp + 1 THEN start
                         ELSE IF k = bp THEN NULL ELSE h.word[k]
  <2> DEFINE n == Link(h, bp, NULL, start)
  <2>1. /\ n \in Heap
        /\ n.brk = h.brk
        /\ n.free_list_start = IF NULL = NULL THEN bp ELSE h.free_list_start
        /\ \A k \in Words :
             n.word[k] = IF NULL # NULL /\ k = NULL + 1 THEN bp
                         ELSE IF start # NULL /\ k = start THEN bp
                         ELSE IF k = bp + 1 THEN start
                         ELSE IF k = bp THEN NULL ELSE h.word[k]
    BY <1>1, LinkWrites
  <2> HIDE DEF n
  <2> QED BY <1>2, <2>1 DEF n
<1>5. /\ gnew \in Heap /\ gnew.brk = g.brk
      /\ gnew.free_list_start = bp
      /\ \A k \in Words :
           gnew.word[k] = IF start # NULL /\ k = start THEN bp
                          ELSE IF k = bp + 1 THEN start
                          ELSE IF k = bp THEN NULL ELSE g.word[k]
  <2> DEFINE n == Link(g, bp, NULL, start)
  <2>1. /\ n \in Heap
        /\ n.brk = g.brk
        /\ n.free_list_start = IF NULL = NULL THEN bp ELSE g.free_list_start
        /\ \A k \in Words :
             n.word[k] = IF NULL # NULL /\ k = NULL + 1 THEN bp
                         ELSE IF start # NULL /\ k = start THEN bp
                         ELSE IF k = bp + 1 THEN start
                         ELSE IF k = bp THEN NULL ELSE g.word[k]
    BY <1>1, LinkWrites
  <2> HIDE DEF n
  <2> QED BY <1>2, <2>1 DEF n
<1>6. gnew.free_list_start = new.free_list_start
  BY <1>4, <1>5
<1>7. \A k \in Words : \/ gnew.word[k] = new.word[k]
                       \/ gnew.word[k] = g.word[k] /\ new.word[k] = h.word[k]
  BY <1>4, <1>5
<1>8. \A b \in B : b \in B /\ Size(new, b) = Size(h, b)
  BY <1>3 DEF SameTags
<1>9. \A f \in F \cup {bp} :
        \/ f \in F
        \/ gnew.word[f] = new.word[f] /\ gnew.word[f + 1] = new.word[f + 1]
  BY <1>1, <1>4, <1>5
<1>10. Alike(new, gnew, B, F \cup {bp})
  <2>1. new.brk = h.brk
    BY <1>3 DEF SameTags
  <2> QED BY <1>3, <1>5, <1>6, <1>7, <1>8, <1>9, <2>1, AlikeFollows
<1> QED BY <1>10 DEF new, gnew

(* Neighbouring blocks that are not listed become one.                     *)
LEMMA LaidJoin ==
  ASSUME NEW h, NEW B, NEW F, Laid(h, B, F),
         NEW s \in B, NEW e \in B \cup {h.brk}, s < e,
         NEW size \in Int, s + size = e, NEW alloc \in {0, 1},
         \A f \in F : f < s \/ f >= e
  PROVE  LET new == Tag(h, s, size, alloc) IN
         /\ Laid(new, Replaced(B, s, e, {s}), F)
         /\ Block(new, s, size, alloc)
         /\ Writes(h, new, {s - 1, e - 2})
         /\ Outside(h, new, B, s, e)
<1> DEFINE new == Tag(h, s, size, alloc)
           C == Replaced(B, s, e, {s})
<1>1. h \in Heap /\ Tiled(h, B)
  BY DEF Laid
<1>2. /\ s \in Int /\ (s % 2) = 0 /\ 4 <= s /\ s - 1 \in Words
      /\ e \in Int /\ (e % 2) = 0 /\ e - 2 \in Words
      /\ s + 4 <= e /\ size \in Int /\ (size % 2) = 0
  <2>1. \A b \in B : /\ b \in Int /\ (b % 2) = 0 /\ 4 <= b /\ b - 1 \in Words
                     /\ b <= h.brk
    <3> TAKE b \in B
    <3>1. /\ b \in Int /\ (b % 2) = 0 /\ 4 <= b /\ b - 1 \in Words /\ h.brk \in Int
          /\ Size(h, b) \in Int /\ Size(h, b) >= 4 /\ b + Size(h, b) <= h.brk
      BY <1>1, TiledApart
    <3> QED BY <3>1
  <2>2. h.brk \in Int /\ (h.brk % 2) = 0 /\ h.brk <= MAX_HEAP /\ MAX_HEAP \in Int
    BY <1>1, TiledApart DEF Tiled, Fenced
  <2>3. e \in Int /\ (e % 2) = 0 /\ e <= h.brk
    BY <2>1, <2>2
  <2>4. s + Size(h, s) <= e /\ Size(h, s) \in Int /\ Size(h, s) >= 4
    <3>1. Size(h, s) \in Int /\ Size(h, s) >= 4 /\ s + Size(h, s) <= h.brk
      BY <1>1, TiledApart
    <3>2. e \in B => s + Size(h, s) <= e
      BY <1>1 DEF Tiled, Tiles
    <3> QED BY <3>1, <3>2
  <2> QED BY <2>1, <2>2, <2>3, <2>4 DEF Words
<1>3. /\ new \in Heap /\ new.brk = h.brk
      /\ new.free_list_start = h.free_list_start
      /\ \A k \in Words :
           new.word[k] = IF k \in {s - 1, s + size - 2} THEN size + alloc ELSE h.word[k]
  BY <1>1, <1>2, TagWrites
<1> HIDE DEF new
<1>4. s + size - 2 = e - 2
  BY <1>2
<1>5. new.word[s - 1] = size + alloc /\ new.word[e - 2] = size + alloc
  BY <1>2, <1>3, <1>4
<1>6. Size(new, s) = size /\ (IsFree(new, s) <=> alloc = 0)
  BY <1>2, <1>5, PackedTag DEF Size, GET_SIZE, HDRP, IsFree, GET_ALLOC, PACK
<1>7. Tiles(new, s, e, {s})
  BY <1>2, <1>5, <1>6, TilesOne
<1>8. \A k \in Words : k \notin {s - 1, e - 2} => new.word[k] = h.word[k]
  BY <1>3, <1>4
<1>9. Laid(new, C, F) /\ Outside(h, new, B, s, e)
  <2>1. \A k \in Words : k \notin s - 1 .. e - 2 => new.word[k] = h.word[k]
    BY <1>2, <1>8
  <2>2. \A f \in F : \/ f < s \/ f >= e
                     \/ /\ f \in {s} /\ IsFree(new, f)
                        /\ new.word[f] = h.word[f] /\ new.word[f + 1] = h.word[f + 1]
    OBVIOUS
  <2> QED BY <1>3, <1>7, <2>1, <2>2, LaidRetag
<1> QED BY <1>3, <1>6, <1>8, <1>9 DEF new, Block, Writes, Outside

(* They do in two heaps that are alike.                                    *)
LEMMA AlikeJoin ==
  ASSUME NEW h, NEW B, NEW F, Laid(h, B, F),
         NEW s \in B, NEW e \in B \cup {h.brk}, s < e,
         NEW size \in Int, s + size = e, NEW alloc \in {0, 1},
         \A f \in F : f < s \/ f >= e,
         NEW g, Alike(h, g, B, F)
  PROVE  Alike(Tag(h, s, size, alloc), Tag(g, s, size, alloc), Replaced(B, s, e, {s}), F)
<1> DEFINE new  == Tag(h, s, size, alloc)
           gnew == Tag(g, s, size, alloc)
           C    == Replaced(B, s, e, {s})
<1>1. /\ h \in Heap /\ g \in Heap /\ g.free_list_start = h.free_list_start
      /\ s \in Int /\ s - 1 \in Words
  BY TiledApart DEF Laid, Alike
<1>2. /\ Laid(new, C, F)
      /\ Block(new, s, size, alloc)
      /\ Writes(h, new, {s - 1, e - 2})
      /\ Outside(h, new, B, s, e)
  BY LaidJoin
<1>3. \A b \in C : b = s \/ (b \in B /\ Size(new, b) = Size(h, b))
  BY <1>2 DEF Replaced, Below, From, Outside
<1>4. /\ new.free_list_start = h.free_list_start
      /\ \A k \in Words :
           new.word[k] = IF k \in {s - 1, s + size - 2} THEN size + alloc ELSE h.word[k]
  <2>1. /\ new \in Heap
        /\ new.brk = h.brk
        /\ new.free_list_start = h.free_list_start
        /\ \A k \in Words :
             new.word[k] = IF k \in {s - 1, s + size - 2} THEN size + alloc ELSE h.word[k]
    BY <1>1, TagWrites
  <2> QED BY <2>1
<1>5. /\ gnew \in Heap /\ gnew.brk = g.brk
      /\ gnew.free_list_start = g.free_list_start
      /\ \A k \in Words :
           gnew.word[k] = IF k \in {s - 1, s + size - 2} THEN size + alloc ELSE g.word[k]
  BY <1>1, TagWrites
<1>6. s + size - 2 \in Words
  <2>1. s \in C
    BY DEF Replaced
  <2> HIDE DEF C, new
  <2>2. s + Size(new, s) - 2 \in Words
    BY <1>2, <2>1, TiledApart DEF Laid
  <2> QED BY <1>2, <2>2 DEF Block
<1> HIDE DEF new, gnew, C
<1>7. gnew.free_list_start = new.free_list_start
  BY <1>1, <1>4, <1>5
<1>8. \A k \in Words : \/ gnew.word[k] = new.word[k]
                       \/ gnew.word[k] = g.word[k] /\ new.word[k] = h.word[k]
  BY <1>4, <1>5
<1>9. \A b \in C : \/ b \in B /\ Size(new, b) = Size(h, b)
                   \/ /\ gnew.word[b - 1] = new.word[b - 1]
                      /\ gnew.word[b + Size(new, b) - 2] = new.word[b + Size(new, b) - 2]
  BY <1>1, <1>2, <1>3, <1>4, <1>5, <1>6 DEF Block
<1>10. Alike(new, gnew, C, F)
  <2>1. new.brk = h.brk
    BY <1>2 DEF Outside
  <2> QED BY <1>2, <1>5, <1>7, <1>8, <1>9, <2>1, AlikeFollows
<1> QED BY <1>10 DEF new, gnew, C

----------------------------------------------------------------------------
(* Neighbours.                                                             *)

(* The footer before a block leads to the block before it, and behind the  *)
(* prologue to the prologue, which counts as allocated.                    *)
LEMMA Before ==
  ASSUME NEW h \in Heap, NEW B, Tiled(h, B), NEW bp \in B \cup {h.brk}
  PROVE  LET prev == PREV_BLKP(h, bp) IN
         /\ bp # 4 => prev \in B
         /\ prev \in B => prev + Size(h, prev) = bp
         /\ \A p \in B : p + Size(h, p) = bp => p = prev
         /\ GET_ALLOC(h, FTRP(h, prev)) = 0 <=> (prev \in B /\ IsFree(h, prev))
         /\ GET_ALLOC(h, HDRP(prev)) = 0 <=> (prev \in B /\ IsFree(h, prev))
         /\ bp = 4 => prev = 2 /\ prev \notin B
<1> DEFINE prev == PREV_BLKP(h, bp)
<1>1. bp \in Int
  BY TiledApart
<1>2. \A p \in B : p + Size(h, p) = bp => p = prev
  <2> TAKE p \in B
  <2> HAVE p + Size(h, p) = bp
  <2>1. h.word[bp - 2] = h.word[p - 1] /\ p \in Int /\ Size(h, p) \in Int
    BY TiledApart
  <2>2. GET_SIZE(h, bp - 2) = Size(h, p)
    BY <2>1 DEF GET_SIZE, Size, HDRP
  <2> QED BY <1>1, <2>1, <2>2 DEF PREV_BLKP
<1>3. CASE bp # 4
  <2>1. PICK p \in B : p + Size(h, p) = bp
    BY <1>3 DEF Tiled, Tiles
  <2>2. prev = p
    BY <1>2, <2>1
  <2>3. FTRP(h, p) = p + Size(h, p) - 2
    BY DEF FTRP, Size
  <2>4. h.word[FTRP(h, p)] = h.word[HDRP(p)]
    BY <2>3, TiledApart DEF HDRP
  <2>5. GET_ALLOC(h, FTRP(h, prev)) = GET_ALLOC(h, HDRP(prev))
    BY <2>2, <2>4 DEF GET_ALLOC
  <2> HIDE DEF prev
  <2> QED BY <1>2, <1>3, <2>1, <2>2, <2>5 DEF prev, IsFree
<1>4. CASE bp = 4
  <2>1. h.word[1] = 3 /\ h.word[2] = 3
    BY DEF Tiled, Fenced
  <2>2. prev = 2
    BY <1>4, <2>1 DEF PREV_BLKP, GET_SIZE
  <2>3. \A b \in B : 4 <= b /\ b \in Int
    BY TiledApart
  <2>4. FTRP(h, 2) = 2 /\ HDRP(2) = 1
    BY <2>1 DEF FTRP, GET_SIZE, HDRP
  <2>5. GET_ALLOC(h, 2) = 1 /\ GET_ALLOC(h, 1) = 1
    BY <2>1 DEF GET_ALLOC
  <2>6. 2 \notin B
    BY <2>3
  <2> HIDE DEF prev
  <2>7. /\ prev \notin B /\ GET_ALLOC(h, FTRP(h, prev)) = 1
        /\ GET_ALLOC(h, HDRP(prev)) = 1
    BY <2>2, <2>4, <2>5, <2>6
  <2> QED BY <1>2, <1>4, <2>2, <2>7 DEF prev
<1> QED BY <1>3, <1>4

(* The header behind a block is that of the next one, or the epilogue,     *)
(* which counts as allocated and has no size.                              *)
LEMMA After ==
  ASSUME NEW h \in Heap, NEW B, Tiled(h, B), NEW bp \in B
  PROVE  LET next == NEXT_BLKP(h, bp) IN
         /\ next = bp + Size(h, bp)
         /\ next \in B \cup {h.brk}
         /\ GET_ALLOC(h, HDRP(next)) = 0 <=> (next \in B /\ IsFree(h, next))
<1> DEFINE next == NEXT_BLKP(h, bp)
<1>1. next = bp + Size(h, bp) /\ next \in B \cup {h.brk}
  BY TiledApart DEF NEXT_BLKP, Size, HDRP
<1> HIDE DEF next
<1>2. CASE next \in B
  BY <1>1, <1>2 DEF IsFree, next
<1>3. CASE next \notin B
  <2>1. next = h.brk /\ h.word[h.brk - 1] = 1
    BY <1>1, <1>3 DEF Tiled, Fenced
  <2>2. GET_ALLOC(h, HDRP(next)) = 1
    BY <2>1 DEF GET_ALLOC, HDRP
  <2> QED BY <1>1, <1>3, <2>2 DEF next
<1> QED BY <1>2, <1>3

(* The epilogue's size.                                                    *)
LEMMA EndSize ==
  ASSUME NEW h \in Heap, NEW B, Tiled(h, B)
  PROVE  GET_SIZE(h, HDRP(h.brk)) = 0 /\ h.brk \notin B
<1>1. h.word[h.brk - 1] = 1
  BY DEF Tiled, Fenced
<1>2. h.brk \notin B
  <2>1. SUFFICES ASSUME h.brk \in B PROVE FALSE
    OBVIOUS
  <2>2. /\ Size(h, h.brk) \in Int /\ Size(h, h.brk) >= 4
        /\ h.brk + Size(h, h.brk) <= h.brk /\ h.brk \in Int
    BY <2>1, TiledApart
  <2> QED BY <2>2
<1> QED BY <1>1, <1>2 DEF GET_SIZE, HDRP

----------------------------------------------------------------------------
(* Consistent heaps.                                                       *)

(* The free and the allocated ones of a set of blocks.                     *)
FreeOf(h, B)  == {b \in B : IsFree(h, b)}
Taken(h, B) == {b \in B : ~IsFree(h, b)}

(* The free blocks are all listed, and no two of them are neighbours.      *)
Good(h, B) ==
  /\ Laid(h, B, FreeOf(h, B))
  /\ \A f \in FreeOf(h, B) : f + Size(h, f) \notin FreeOf(h, B)

(* The same but for one block, which is free and not listed yet.           *)
GoodBut(h, B, bp) ==
  /\ bp \in FreeOf(h, B)
  /\ Laid(h, B, FreeOf(h, B) \ {bp})
  /\ \A f \in FreeOf(h, B) \ {bp} :
       f + Size(h, f) \in FreeOf(h, B) => f + Size(h, f) = bp

(* No word of these blocks has changed, and they are blocks as before.     *)
Kept(h, g, A) == \A b \in A : Size(g, b) = Size(h, b) /\ Stays(h, g, b)

(* What is kept twice is kept.                                             *)
LEMMA KeptTwice ==
  ASSUME NEW h, NEW g, NEW new, NEW A, Kept(h, g, A), Kept(g, new, A)
  PROVE  Kept(h, new, A)
BY DEF Kept, Stays, Span

(* A block leaves the list if the condition holds.                         *)
LEMMA LaidRemoveIf ==
  ASSUME NEW h, NEW B, NEW F, Laid(h, B, F), NEW cond \in BOOLEAN,
         NEW bp, cond => bp \in F
  PROVE  LET new == RemoveIf(cond, h, bp)
         IN  /\ Laid(new, B, F \ (IF cond THEN {bp} ELSE {}))
             /\ SameTags(h, new, B)
             /\ \A b \in B \ F : Stays(h, new, b)
<1>1. CASE cond
  <2>1. bp \in F
    BY <1>1
  <2> DEFINE new == remove_from_free_list(h, bp)
  <2>2. /\ Laid(new, B, F \ {bp})
        /\ SameTags(h, new, B)
        /\ \A b \in B \ F : Stays(h, new, b)
    BY <2>1, LaidRemove
  <2>3. RemoveIf(cond, h, bp) = new
    BY <1>1 DEF RemoveIf
  <2> HIDE DEF new
  <2> QED BY <1>1, <2>2, <2>3
<1>2. CASE ~cond
  <2>1. RemoveIf(cond, h, bp) = h /\ F \ (IF cond THEN {bp} ELSE {}) = F
    BY <1>2 DEF RemoveIf
  <2> QED BY <2>1 DEF Stays, SameTags
<1> QED BY <1>1, <1>2

(* Two heaps that are alike stay alike when each gives up a block.         *)
LEMMA AlikeRemoveIf ==
  ASSUME NEW h, NEW B, NEW F, Laid(h, B, F), NEW cond \in BOOLEAN,
         NEW bp, cond => bp \in F, NEW g, Alike(h, g, B, F)
  PROVE  Alike(RemoveIf(cond, h, bp), RemoveIf(cond, g, bp), B,
               F \ (IF cond THEN {bp} ELSE {}))
<1>1. CASE cond
  <2>1. Alike(remove_from_free_list(h, bp), remove_from_free_list(g, bp), B, F \ {bp})
    BY <1>1, AlikeRemove
  <2> QED BY <1>1, <2>1 DEF RemoveIf
<1>2. CASE ~cond
  <2>1. F \ (IF cond THEN {bp} ELSE {}) = F
    BY <1>2
  <2> QED BY <1>2, <2>1 DEF RemoveIf
<1> QED BY <1>1, <1>2

----------------------------------------------------------------------------
(* Dividing.                                                               *)

(* Where a row of blocks begins and ends.                                  *)
LEMMA RowType ==
  ASSUME NEW h \in Heap, NEW B, Tiled(h, B), NEW s \in B, NEW e \in B \cup {h.brk},
         s < e
  PROVE  /\ s \in Int /\ (s % 2) = 0 /\ 4 <= s /\ s - 1 \in Words
         /\ e \in Int /\ (e % 2) = 0 /\ e - 2 \in Words
         /\ s + 4 <= e /\ e <= h.brk /\ s + Size(h, s) <= e
<1>1. \A b \in B : /\ b \in Int /\ (b % 2) = 0 /\ 4 <= b /\ b - 1 \in Words
                   /\ b <= h.brk
  <2> TAKE b \in B
  <2>1. /\ b \in Int /\ (b % 2) = 0 /\ 4 <= b /\ b - 1 \in Words /\ h.brk \in Int
        /\ Size(h, b) \in Int /\ Size(h, b) >= 4 /\ b + Size(h, b) <= h.brk
    BY TiledApart
  <2> QED BY <2>1
<1>2. h.brk \in Int /\ (h.brk % 2) = 0 /\ h.brk <= MAX_HEAP /\ MAX_HEAP \in Int
  BY TiledApart DEF Tiled, Fenced
<1>3. e \in Int /\ (e % 2) = 0 /\ e <= h.brk
  BY <1>1, <1>2
<1>4. s + Size(h, s) <= e /\ Size(h, s) \in Int /\ Size(h, s) >= 4
  <2>1. Size(h, s) \in Int /\ Size(h, s) >= 4 /\ s + Size(h, s) <= h.brk
    BY TiledApart
  <2>2. e \in B => s + Size(h, s) <= e
    BY DEF Tiled, Tiles
  <2> QED BY <2>1, <2>2
<1> QED BY <1>1, <1>2, <1>3, <1>4 DEF Words

(* The tag of a block says what it is.                                     *)
LEMMA TagBlock ==
  ASSUME NEW h \in Heap, NEW s \in Int, s - 1 \in Words, NEW size \in Int,
         (size % 2) = 0, NEW alloc \in {0, 1}, h.word[s - 1] = size + alloc
  PROVE  Block(h, s, size, alloc)
BY PackedTag DEF Block, Size, GET_SIZE, HDRP, IsFree, GET_ALLOC, PACK

(* The space from s to e gets the tags of two blocks, the second one at m. *)
Cut(h, s, m, e, low, high) == Tag(Tag(h, s, m - s, low), m, e - m, high)

(* Nothing but four words changes, and there are two blocks.               *)
IsCut(h, new, s, m, e, low, high) ==
  /\ new \in Heap /\ new.brk = h.brk /\ new.free_list_start = h.free_list_start
  /\ \A k \in Words :
       new.word[k] = IF k \in {m - 1, e - 2} THEN e - m + high
                     ELSE IF k \in {s - 1, m - 2} THEN m - s + low ELSE h.word[k]
  /\ Tiles(new, s, e, {s, m})
  /\ Block(new, s, m - s, low) /\ Block(new, m, e - m, high)

(* What the tags of two blocks make of the space.                          *)
LEMMA TilesDivide ==
  ASSUME NEW h \in Heap, NEW s \in Int, NEW m \in Int, NEW e \in Int,
         4 <= s, s + 4 <= m, m + 4 <= e, e <= h.brk,
         (s % 2) = 0, (m % 2) = 0, (e % 2) = 0, NEW low \in {0, 1}, NEW high \in {0, 1}
  PROVE  IsCut(h, Cut(h, s, m, e, low, high), s, m, e, low, high)
<1> DEFINE one == Tag(h, s, m - s, low)
           new == Cut(h, s, m, e, low, high)
<1>1. s + (m - s) - 2 = m - 2 /\ m + (e - m) - 2 = e - 2 /\ m - s \in Int /\ e - m \in Int
  OBVIOUS
<1>2. /\ one \in Heap /\ one.brk = h.brk /\ one.free_list_start = h.free_list_start
      /\ \A k \in Words : one.word[k] = IF k \in {s - 1, m - 2} THEN m - s + low ELSE h.word[k]
  <2>1. /\ one \in Heap /\ one.brk = h.brk /\ one.free_list_start = h.free_list_start
        /\ \A k \in Words : one.word[k] =
             IF k \in {s - 1, s + (m - s) - 2} THEN (m - s) + low ELSE h.word[k]
    BY <1>1, TagWrites
  <2> QED BY <1>1, <2>1
<1> HIDE DEF one
<1>3. new = Tag(one, m, e - m, high)
  BY DEF Cut, one
<1> HIDE DEF new
<1>4. /\ new \in Heap /\ new.brk = one.brk /\ new.free_list_start = one.free_list_start
      /\ \A k \in Words : new.word[k] = IF k \in {m - 1, e - 2} THEN e - m + high ELSE one.word[k]
  BY <1>1, <1>2, <1>3, TagWrites
<1>5. /\ s - 1 \in Words /\ m - 2 \in Words /\ m - 1 \in Words /\ e - 2 \in Words
      /\ h.brk \in Int
  <2>1. h.brk \in Int /\ h.brk <= MAX_HEAP /\ MAX_HEAP \in Int
    BY HeapType, MaxHeapAssumption
  <2> QED BY <2>1 DEF Words
<1>6. \A k \in Words : new.word[k] =
        IF k \in {m - 1, e - 2} THEN e - m + high
        ELSE IF k \in {s - 1, m - 2} THEN m - s + low ELSE h.word[k]
  BY <1>2, <1>4
<1>7. /\ new.word[s - 1] = m - s + low /\ new.word[m - 2] = m - s + low
      /\ new.word[m - 1] = e - m + high /\ new.word[e - 2] = e - m + high
  BY <1>5, <1>6
<1>8. ((m - s) % 2) = 0 /\ ((e - m) % 2) = 0
  OBVIOUS
<1>9. Block(new, s, m - s, low) /\ Block(new, m, e - m, high)
  <2>1. Block(new, s, m - s, low)
    BY <1>4, <1>5, <1>7, <1>8, TagBlock
  <2>2. Block(new, m, e - m, high)
    <3> DEFINE n == e - m
    <3>1. n \in Int /\ (n % 2) = 0 /\ new.word[m - 1] = n + high /\ m - 1 \in Words
      BY <1>5, <1>7, <1>8
    <3>2. new \in Heap
      BY <1>4
    <3> HIDE DEF n
    <3>3. Block(new, m, n, high)
      BY <3>1, <3>2, TagBlock
    <3> QED BY <3>3 DEF n
  <2> QED BY <2>1, <2>2
<1>10. Tiles(new, s, m, {s}) /\ Tiles(new, m, e, {m})
  BY <1>7, <1>9, TilesOne DEF Block
<1>11. Tiles(new, s, e, {s} \cup {m})
  <2>1. 1 <= s /\ s <= m /\ m <= e /\ e <= new.brk
    BY <1>2, <1>4
  <2> QED BY <1>4, <1>10, <2>1, TilesJoin
<1>12. {s} \cup {m} = {s, m}
  OBVIOUS
<1> QED BY <1>2, <1>4, <1>6, <1>9, <1>11, <1>12 DEF new, IsCut

(* A row of blocks becomes two, and a listed one remains if the first does.*)
LEMMA LaidDivide ==
  ASSUME NEW h, NEW B, NEW F, Laid(h, B, F),
         NEW s \in B, NEW e \in B \cup {h.brk}, NEW m \in Int, (m % 2) = 0,
         s + 4 <= m, m + 4 <= e, NEW low \in {0, 1}, NEW high \in {0, 1},
         \A f \in F : f < s \/ f >= e \/ (f = s /\ low = 0)
  PROVE  /\ Laid(Cut(h, s, m, e, low, high), Replaced(B, s, e, {s, m}), F)
         /\ Outside(h, Cut(h, s, m, e, low, high), B, s, e)
<1> DEFINE new == Cut(h, s, m, e, low, high)
<1>1. h \in Heap /\ Tiled(h, B)
  BY DEF Laid
<1>2. e \in Int /\ s \in Int /\ h.brk \in Int
  BY <1>1, TiledApart
<1>3. s < e
  BY <1>2
<1>4. /\ (s % 2) = 0 /\ 4 <= s /\ s - 1 \in Words
      /\ (e % 2) = 0 /\ e - 2 \in Words /\ e <= h.brk
  BY <1>1, <1>3, RowType
<1>5. /\ new \in Heap /\ new.brk = h.brk /\ new.free_list_start = h.free_list_start
      /\ \A k \in Words :
           new.word[k] = IF k \in {m - 1, e - 2} THEN e - m + high
                         ELSE IF k \in {s - 1, m - 2} THEN m - s + low ELSE h.word[k]
      /\ Tiles(new, s, e, {s, m})
      /\ Block(new, s, m - s, low)
      /\ Block(new, m, e - m, high)
  <2>1. /\ h \in Heap /\ s \in Int /\ m \in Int /\ e \in Int
        /\ 4 <= s /\ s + 4 <= m /\ m + 4 <= e /\ e <= h.brk
        /\ (s % 2) = 0 /\ (m % 2) = 0 /\ (e % 2) = 0 /\ low \in {0, 1} /\ high \in {0, 1}
    BY <1>1, <1>2, <1>4
  <2>2. IsCut(h, new, s, m, e, low, high)
    BY <2>1, TilesDivide
  <2> QED BY <2>2 DEF IsCut
<1> HIDE DEF new
<1>6. \A k \in Words : k \notin s - 1 .. e - 2 => new.word[k] = h.word[k]
  BY <1>2, <1>5
<1>7. \A f \in F : \/ f < s \/ f >= e
                   \/ /\ f \in {s, m} /\ IsFree(new, f)
                      /\ new.word[f] = h.word[f] /\ new.word[f + 1] = h.word[f + 1]
  <2> TAKE f \in F
  <2>1. CASE f = s /\ low = 0
    <3>1. s \in Words /\ s + 1 \in Words
      BY <1>1, TiledApart
    <3>2. new.word[s] = h.word[s] /\ new.word[s + 1] = h.word[s + 1]
      BY <1>2, <1>5, <3>1
    <3>3. IsFree(new, s)
      BY <1>5, <2>1 DEF Block
    <3> QED BY <2>1, <3>2, <3>3
  <2> QED BY <2>1
<1> QED BY <1>3, <1>5, <1>6, <1>7, LaidRetag DEF new

(* It does in two heaps that are alike.                                    *)
LEMMA AlikeDivide ==
  ASSUME NEW h, NEW B, NEW F, Laid(h, B, F),
         NEW s \in B, NEW e \in B \cup {h.brk}, NEW m \in Int, (m % 2) = 0,
         s + 4 <= m, m + 4 <= e, NEW low \in {0, 1}, NEW high \in {0, 1},
         \A f \in F : f < s \/ f >= e \/ (f = s /\ low = 0),
         NEW g, Alike(h, g, B, F)
  PROVE  Alike(Cut(h, s, m, e, low, high), Cut(g, s, m, e, low, high),
               Replaced(B, s, e, {s, m}), F)
<1> DEFINE new == Cut(h, s, m, e, low, high)
           gnew == Cut(g, s, m, e, low, high)
           C == Replaced(B, s, e, {s, m})
<1>1. /\ h \in Heap /\ Tiled(h, B) /\ g \in Heap /\ g.brk = h.brk
      /\ g.free_list_start = h.free_list_start
  BY DEF Laid, Alike
<1>2. e \in Int /\ s \in Int /\ h.brk \in Int
  BY <1>1, TiledApart
<1>3. s < e
  BY <1>2
<1>4. /\ (s % 2) = 0 /\ 4 <= s /\ s - 1 \in Words
      /\ (e % 2) = 0 /\ e - 2 \in Words /\ e <= h.brk
  BY <1>1, <1>3, RowType
<1>5. /\ new \in Heap /\ new.brk = h.brk /\ new.free_list_start = h.free_list_start
      /\ \A k \in Words :
           new.word[k] = IF k \in {m - 1, e - 2} THEN e - m + high
                         ELSE IF k \in {s - 1, m - 2} THEN m - s + low ELSE h.word[k]
      /\ Tiles(new, s, e, {s, m})
      /\ Block(new, s, m - s, low)
      /\ Block(new, m, e - m, high)
  <2>1. /\ h \in Heap /\ s \in Int /\ m \in Int /\ e \in Int
        /\ 4 <= s /\ s + 4 <= m /\ m + 4 <= e /\ e <= h.brk
        /\ (s % 2) = 0 /\ (m % 2) = 0 /\ (e % 2) = 0 /\ low \in {0, 1} /\ high \in {0, 1}
    BY <1>1, <1>2, <1>4
  <2>2. IsCut(h, new, s, m, e, low, high)
    BY <2>1, TilesDivide
  <2> QED BY <2>2 DEF IsCut
<1>6. /\ gnew \in Heap /\ gnew.brk = g.brk /\ gnew.free_list_start = g.free_list_start
      /\ \A k \in Words :
           gnew.word[k] = IF k \in {m - 1, e - 2} THEN e - m + high
                          ELSE IF k \in {s - 1, m - 2} THEN m - s + low ELSE g.word[k]
      /\ Tiles(gnew, s, e, {s, m})
      /\ Block(gnew, s, m - s, low)
      /\ Block(gnew, m, e - m, high)
  <2>1. /\ g \in Heap /\ s \in Int /\ m \in Int /\ e \in Int
        /\ 4 <= s /\ s + 4 <= m /\ m + 4 <= e /\ e <= g.brk
        /\ (s % 2) = 0 /\ (m % 2) = 0 /\ (e % 2) = 0 /\ low \in {0, 1} /\ high \in {0, 1}
    BY <1>1, <1>2, <1>4
  <2>2. IsCut(g, gnew, s, m, e, low, high)
    BY <2>1, TilesDivide
  <2> QED BY <2>2 DEF IsCut
<1>7. /\ Laid(new, C, F)
      /\ Outside(h, new, B, s, e)
  BY LaidDivide
<1>8. \A b \in C : b = s \/ b = m \/ (b \in B /\ Size(new, b) = Size(h, b))
  BY <1>7 DEF Replaced, Below, From, Outside
<1> HIDE DEF new, gnew, C
<1>9. /\ s - 1 \in Words /\ m - 1 \in Words /\ e - 2 \in Words /\ m - 2 \in Words
      /\ s + (m - s) - 2 = m - 2 /\ m + (e - m) - 2 = e - 2
  <2>1. h.brk <= MAX_HEAP /\ MAX_HEAP \in Int
    BY <1>1, TiledApart
  <2> QED BY <1>2, <1>4, <2>1 DEF Words
<1>10. \A k \in Words : \/ gnew.word[k] = new.word[k]
                        \/ gnew.word[k] = g.word[k] /\ new.word[k] = h.word[k]
  BY <1>5, <1>6
<1>11. \A k \in {s - 1, m - 1, e - 2, m - 2} : gnew.word[k] = new.word[k]
  BY <1>5, <1>6, <1>9
<1>12. \A b \in C : \/ b \in B /\ Size(new, b) = Size(h, b)
                    \/ /\ gnew.word[b - 1] = new.word[b - 1]
                       /\ gnew.word[b + Size(new, b) - 2] = new.word[b + Size(new, b) - 2]
  <2>1. Size(new, s) = m - s /\ Size(new, m) = e - m
    BY <1>5 DEF Block
  <2>2. /\ gnew.word[s - 1] = new.word[s - 1]
        /\ gnew.word[s + Size(new, s) - 2] = new.word[s + Size(new, s) - 2]
        /\ gnew.word[m - 1] = new.word[m - 1]
        /\ gnew.word[m + Size(new, m) - 2] = new.word[m + Size(new, m) - 2]
    BY <1>9, <1>11, <2>1
  <2> QED BY <1>8, <2>2
<1>13. gnew.free_list_start = new.free_list_start
  BY <1>1, <1>5, <1>6
<1>14. Alike(new, gnew, C, F)
  BY <1>5, <1>6, <1>7, <1>10, <1>12, <1>13, AlikeFollows
<1> QED BY <1>14 DEF new, gnew, C

(* Another block takes the place of one in the list.                       *)
LEMMA ListedReplace ==
  ASSUME NEW h \in Heap, NEW F, NEW x \in F, Apart(F), Listed(h, F),
         NEW y, y \notin F, NEW G, G = (F \ {x}) \cup {y}, Apart(G),
         NEW g \in Heap, g.free_list_start = h.free_list_start,
         \A f \in F \ {x} : g.word[f] = h.word[f] /\ g.word[f + 1] = h.word[f + 1]
  PROVE  /\ Link(g, y, PRED_BLKP(h, x), SUCC_BLKP(h, x)) \in Heap
         /\ Link(g, y, PRED_BLKP(h, x), SUCC_BLKP(h, x)).brk = g.brk
         /\ Listed(Link(g, y, PRED_BLKP(h, x), SUCC_BLKP(h, x)), G)
         /\ \A k \in Words : k \notin G /\ k - 1 \notin G =>
              Link(g, y, PRED_BLKP(h, x), SUCC_BLKP(h, x)).word[k] = g.word[k]
<1> DEFINE start == h.free_list_start
           pred == PRED_BLKP(h, x)
           succ == SUCC_BLKP(h, x)
           new == Link(g, y, pred, succ)
<1>1. /\ x \in Words /\ x # NULL /\ x \in Int /\ x + 1 \in Words
      /\ start \in Int /\ pred \in Int /\ succ \in Int
      /\ pred \in F \cup {NULL} /\ succ \in F \cup {NULL}
      /\ pred = NULL <=> x = start
      /\ succ # NULL => PRED_BLKP(h, succ) = x
      /\ pred # NULL => SUCC_BLKP(h, pred) = x
  <2>1. x \in Words /\ x # NULL /\ x + 1 \in Words
    BY DEF Apart
  <2>2. x \in Int /\ start \in Int /\ pred \in Int /\ succ \in Int
    BY <2>1, HeapType DEF PRED_BLKP, SUCC_BLKP
  <2> QED BY <2>1, <2>2 DEF Listed, Linked
<1>2. y \in Words /\ y + 1 \in Words /\ y \in Int /\ y # NULL /\ y >= 0
  BY HeapType DEF Apart, Words
<1>3. /\ new \in Heap /\ new.brk = g.brk
      /\ new.free_list_start = IF pred = NULL THEN y ELSE start
      /\ \A k \in Words : new.word[k] = IF pred # NULL /\ k = pred + 1 THEN y
                                        ELSE IF succ # NULL /\ k = succ THEN y
                                        ELSE IF k = y + 1 THEN succ
                                        ELSE IF k = y THEN pred ELSE g.word[k]
  BY <1>1, <1>2, LinkWrites
<1>4. pred # x /\ succ # x
  <2>1. CASE succ = x
    <3>1. pred = x
      BY <1>1, <2>1
    <3>2. F \ {x} \in SUBSET F /\ Passed(h, F \ {x})
      <4>1. start # x
        BY <1>1, <3>1
      <4>2. \A f \in F \ {x} : SUCC_BLKP(h, f) # x
        BY <1>1, <2>1, <3>1 DEF Listed, Linked
      <4> QED BY <4>1, <4>2 DEF Passed, Listed, Linked
    <3> QED BY <3>2 DEF Listed
  <2>2. CASE pred = x
    <3>1. succ = x
      BY <1>1, <2>2
    <3> QED BY <2>1, <3>1
  <2> QED BY <2>1, <2>2
<1> HIDE DEF new, pred, succ, start
<1>5. \A f \in F \ {x} : /\ f \in Words /\ f + 1 \in Words /\ f \in Int /\ f # NULL
                         /\ f # y /\ f + 1 # y /\ y + 1 # f
                         /\ \A e \in F \ {x} : f + 1 # e
  BY <1>2 DEF Apart, Words
<1>6. SUCC_BLKP(new, y) = succ /\ PRED_BLKP(new, y) = pred
  <2>1. succ # y + 1 /\ pred # y /\ succ # y
    BY <1>1, <1>2, <1>4, <1>5 DEF NULL
  <2>2. pred # NULL => pred + 1 # y /\ pred + 1 # y + 1
    BY <1>1, <1>2, <1>4, <1>5
  <2> QED BY <1>2, <1>3, <2>1, <2>2 DEF PRED_BLKP, SUCC_BLKP
<1>7. \A f \in F \ {x} :
        /\ SUCC_BLKP(new, f) = IF f = pred THEN y ELSE SUCC_BLKP(h, f)
        /\ PRED_BLKP(new, f) = IF f = succ THEN y ELSE PRED_BLKP(h, f)
  <2> TAKE f \in F \ {x}
  <2>1. g.word[f] = h.word[f] /\ g.word[f + 1] = h.word[f + 1]
    OBVIOUS
  <2>2. succ # f + 1 \/ succ = NULL
    BY <1>1, <1>4, <1>5
  <2>3. pred # NULL => pred + 1 # f
    BY <1>1, <1>4, <1>5
  <2>4. new.word[f + 1] = IF f = pred THEN y ELSE h.word[f + 1]
    BY <1>1, <1>2, <1>3, <1>5, <2>1, <2>2
  <2>5. new.word[f] = IF f = succ THEN y ELSE h.word[f]
    BY <1>1, <1>2, <1>3, <1>5, <2>1, <2>3
  <2> QED BY <2>4, <2>5 DEF PRED_BLKP, SUCC_BLKP
<1>8. ASSUME NEW S \in SUBSET G, Passed(new, S)
      PROVE  S = G
  <2>1. CASE y \in S
    <3> DEFINE R == (S \ {y}) \cup {x}
    <3>1. R \in SUBSET F /\ \A f \in S : f = y \/ (f \in F \ {x} /\ f \in R)
      BY <1>8
    <3>2. Passed(h, R)
      <4>1. start # NULL => start \in R
        <5>1. CASE pred = NULL
          BY <1>1, <5>1
        <5>2. CASE pred # NULL
          BY <1>3, <1>8, <3>1, <5>2, <1>5, <1>1 DEF Passed, Listed, Linked, start
        <5> QED BY <5>1, <5>2
      <4>2. \A f \in R : SUCC_BLKP(h, f) \in R \cup {NULL}
        <5> TAKE f \in R
        <5>1. CASE f = x
          <6>1. SUCC_BLKP(new, y) \in S \cup {NULL}
            BY <1>8, <2>1 DEF Passed
          <6>2. succ \in R \cup {NULL}
            BY <1>1, <1>6, <6>1
          <6> QED BY <5>1, <6>2 DEF succ
        <5>2. CASE f # x /\ f = pred
          <6>1. f \in F /\ f # NULL
            BY <1>5, <3>1, <5>2
          <6> QED BY <1>1, <5>2, <6>1
        <5>3. CASE f # x /\ f # pred
          <6>1. f \in S /\ f \in F \ {x}
            BY <3>1, <5>3
          <6>2. SUCC_BLKP(new, f) \in S \cup {NULL} /\ SUCC_BLKP(new, f) = SUCC_BLKP(h, f)
            BY <1>7, <1>8, <5>3, <6>1 DEF Passed
          <6>3. SUCC_BLKP(h, f) \in F \cup {NULL}
            BY <6>1 DEF Listed, Linked
          <6> QED BY <6>2, <6>3
        <5> QED BY <5>1, <5>2, <5>3
      <4> HIDE DEF R
      <4> QED BY <4>1, <4>2 DEF Passed, start
    <3>3. R = F
      BY <3>1, <3>2 DEF Listed
    <3> QED BY <1>8, <2>1, <3>3
  <2>2. CASE y \notin S
    <3>1. S \in SUBSET F /\ S \subseteq F \ {x}
      BY <1>8, <2>2
    <3>2. pred # NULL /\ pred \notin S
      BY <1>1, <1>2, <1>3, <1>7, <1>8, <2>2, <3>1 DEF Passed
    <3>3. Passed(h, S)
      BY <1>3, <1>7, <1>8, <3>1, <3>2 DEF Passed, start
    <3> QED BY <3>1, <3>3 DEF Listed
  <2> QED BY <2>1, <2>2
<1>9. \A f \in G :
        /\ PRED_BLKP(new, f) \in G \cup {NULL}
        /\ SUCC_BLKP(new, f) \in G \cup {NULL}
        /\ PRED_BLKP(new, f) = NULL <=> f = new.free_list_start
        /\ SUCC_BLKP(new, f) # NULL => PRED_BLKP(new, SUCC_BLKP(new, f)) = f
        /\ PRED_BLKP(new, f) # NULL => SUCC_BLKP(new, PRED_BLKP(new, f)) = f
  <2> TAKE f \in G
  <2>1. CASE f = y
    <3>1. /\ pred \in (F \ {x}) \cup {NULL}
          /\ succ \in (F \ {x}) \cup {NULL}
      BY <1>1, <1>4
    <3>2. pred = NULL <=> y = new.free_list_start
      BY <1>1, <1>2, <1>3, <1>5 DEF Listed, Linked, start
    <3>3. succ # NULL => PRED_BLKP(new, succ) = y
      BY <1>7, <3>1
    <3>4. pred # NULL => SUCC_BLKP(new, pred) = y
      BY <1>7, <3>1
    <3> QED BY <1>6, <2>1, <3>1, <3>2, <3>3, <3>4
  <2>2. CASE f # y
    <3>0. /\ f \in F /\ f # x
          /\ PRED_BLKP(h, f) \in F \cup {NULL} /\ SUCC_BLKP(h, f) \in F \cup {NULL}
          /\ PRED_BLKP(h, f) = NULL <=> f = start
          /\ SUCC_BLKP(h, f) # NULL => PRED_BLKP(h, SUCC_BLKP(h, f)) = f
          /\ PRED_BLKP(h, f) # NULL => SUCC_BLKP(h, PRED_BLKP(h, f)) = f
          /\ f # NULL
      BY <2>2, <1>5 DEF Listed, Linked, start
    <3>1. f = succ \/ PRED_BLKP(h, f) # x
      BY <3>0, <1>1 DEF succ
    <3>2. f = pred \/ SUCC_BLKP(h, f) # x
      BY <3>0, <1>1 DEF pred
    <3>3. /\ PRED_BLKP(new, f) \in G \cup {NULL} /\ SUCC_BLKP(new, f) \in G \cup {NULL}
      BY <1>7, <3>0, <3>1, <3>2
    <3>4. PRED_BLKP(new, f) = NULL <=> f = new.free_list_start
      BY <1>1, <1>2, <1>3, <1>7, <2>2, <3>0, <3>1
    <3>5. SUCC_BLKP(new, f) # NULL => PRED_BLKP(new, SUCC_BLKP(new, f)) = f
      <4>1. CASE f = pred
        BY <1>6, <1>7, <3>0, <4>1
      <4>2. CASE f # pred
        <5>1. SUCC_BLKP(new, f) = SUCC_BLKP(h, f)
          BY <1>7, <3>0, <4>2
        <5>2. SUCC_BLKP(h, f) # NULL =>
                SUCC_BLKP(h, f) # succ /\ SUCC_BLKP(h, f) \in F \ {x}
          BY <1>1, <3>0, <3>2, <4>2
        <5> QED BY <1>7, <3>0, <5>1, <5>2
      <4> QED BY <4>1, <4>2
    <3>6. PRED_BLKP(new, f) # NULL => SUCC_BLKP(new, PRED_BLKP(new, f)) = f
      <4>1. CASE f = succ
        BY <1>6, <1>7, <3>0, <4>1
      <4>2. CASE f # succ
        <5>1. PRED_BLKP(new, f) = PRED_BLKP(h, f)
          BY <1>7, <3>0, <4>2
        <5>2. PRED_BLKP(h, f) # NULL =>
                PRED_BLKP(h, f) # pred /\ PRED_BLKP(h, f) \in F \ {x}
          BY <1>1, <3>0, <3>1, <4>2
        <5> QED BY <1>7, <3>0, <5>1, <5>2
      <4> QED BY <4>1, <4>2
    <3> QED BY <3>3, <3>4, <3>5, <3>6
  <2> QED BY <2>1, <2>2
<1>10. \E f \in G : SUCC_BLKP(new, f) = NULL
  <2>1. PICK last \in F : SUCC_BLKP(h, last) = NULL
    BY DEF Listed, Linked
  <2>2. CASE last = x
    BY <1>6, <2>1, <2>2 DEF succ
  <2>3. CASE last # x
    <3>1. last # pred
      BY <1>1, <1>5, <2>1, <2>3
    <3> QED BY <1>7, <2>1, <2>3, <3>1
  <2> QED BY <2>2, <2>3
<1>11. new.free_list_start \in G \cup {NULL}
  BY <1>1, <1>3 DEF Listed, Linked, start
<1>12. Listed(new, G)
  <2>1. Linked(new, G)
    BY <1>9, <1>10, <1>11 DEF Linked
  <2> QED BY <1>8, <2>1 DEF Listed
<1>13. \A k \in Words : k \notin G /\ k - 1 \notin G => new.word[k] = g.word[k]
  <2>1. /\ y \in G /\ pred \in G \cup {NULL} /\ succ \in G \cup {NULL}
        /\ (y + 1) - 1 = y /\ (pred + 1) - 1 = pred
    BY <1>1, <1>2, <1>4
  <2> QED BY <1>3, <2>1
<1> QED BY <1>3, <1>12, <1>13 DEF new, pred, succ

(* The blocks outside the row from s up to e are what they were, but for   *)
(* the links of those of F.                                                *)
Around(h, g, B, F, s, e) ==
  /\ g.brk = h.brk
  /\ \A b \in B : b < s \/ b >= e =>
       /\ Size(g, b) = Size(h, b) /\ (IsFree(g, b) <=> IsFree(h, b))
       /\ b \notin F => Stays(h, g, b)

(* The end of the row is free and listed where x was.                      *)
Replace(h, s, m, e, x) == Link(Cut(h, s, m, e, 1, 0), m, PRED_BLKP(h, x), SUCC_BLKP(h, x))

(* A row of blocks becomes two, and the second takes the place of the one  *)
(* of the row that was listed.                                             *)
LEMMA LaidSplit ==
  ASSUME NEW h, NEW B, NEW F, Laid(h, B, F),
         NEW s \in B, NEW e \in B \cup {h.brk}, NEW m \in Int, (m % 2) = 0,
         s + 4 <= m, m + 4 <= e, NEW x \in F, s <= x, x < e, x # m,
         \A f \in F \ {x} : f < s \/ f >= e
  PROVE  /\ Laid(Replace(h, s, m, e, x), Replaced(B, s, e, {s, m}), (F \ {x}) \cup {m})
         /\ Block(Replace(h, s, m, e, x), s, m - s, 1)
         /\ Block(Replace(h, s, m, e, x), m, e - m, 0)
         /\ Around(h, Replace(h, s, m, e, x), B, F, s, e)
         /\ Writes(h, Replace(h, s, m, e, x), Words \ (s .. m - 3))
<1> DEFINE g == Cut(h, s, m, e, 1, 0)
           new == Replace(h, s, m, e, x)
           C == Replaced(B, s, e, {s, m})
           G == (F \ {x}) \cup {m}
<1>1. h \in Heap /\ Tiled(h, B) /\ F \subseteq B /\ Listed(h, F) /\ Apart(F)
  BY TiledApart, ApartSubset DEF Laid
<1>2. e \in Int /\ s \in Int /\ h.brk \in Int /\ x \in Int
  BY <1>1, TiledApart
<1>3. s < e
  BY <1>2
<1>4. /\ (s % 2) = 0 /\ 4 <= s /\ s - 1 \in Words
      /\ (e % 2) = 0 /\ e - 2 \in Words /\ e <= h.brk
  BY <1>1, <1>3, RowType
<1>5. IsCut(h, g, s, m, e, 1, 0)
  <2>1. /\ h \in Heap /\ s \in Int /\ m \in Int /\ e \in Int
        /\ 4 <= s /\ s + 4 <= m /\ m + 4 <= e /\ e <= h.brk
        /\ (s % 2) = 0 /\ (m % 2) = 0 /\ (e % 2) = 0 /\ 1 \in {0, 1} /\ 0 \in {0, 1}
    BY <1>1, <1>2, <1>4
  <2> QED BY <2>1, TilesDivide
<1> HIDE DEF g
<1>6. /\ g \in Heap /\ g.brk = h.brk /\ g.free_list_start = h.free_list_start
      /\ Tiles(g, s, e, {s, m})
      /\ \A k \in Words : k \notin {s - 1, m - 2, m - 1, e - 2} => g.word[k] = h.word[k]
  BY <1>5 DEF IsCut
<1>7. \A k \in Words : k \notin s - 1 .. e - 2 => g.word[k] = h.word[k]
  BY <1>2, <1>6
<1>8. /\ Tiled(g, C)
      /\ \A b \in B : b < s \/ b >= e =>
           /\ Size(g, b) = Size(h, b) /\ (IsFree(g, b) <=> IsFree(h, b))
           /\ \A k \in Span(h, b) : g.word[k] = h.word[k]
  BY <1>1, <1>3, <1>6, <1>7, TiledReplace
<1>9. /\ s \in C /\ m \in C /\ \A f \in F \ {x} : f \in C
      /\ \A b \in B : b < s \/ b >= e => b \in C
      /\ \A b \in C : b = s \/ b = m \/ (b \in B /\ (b < s \/ b >= e))
  BY <1>1 DEF Replaced, Below, From
<1>10. G \subseteq C /\ Apart(C) /\ Apart(G)
  <2>1. G \subseteq C
    BY <1>9
  <2> HIDE DEF G, C
  <2> QED BY <1>6, <1>8, <2>1, TiledApart, ApartSubset
<1>11. m \notin F /\ s \notin G
  BY <1>1, <1>2
<1>12. \A f \in F \ {x} : g.word[f] = h.word[f] /\ g.word[f + 1] = h.word[f + 1]
  <2> TAKE f \in F \ {x}
  <2>1. f \in B /\ (f < s \/ f >= e)
    BY <1>1
  <2>2. f \in Span(h, f) /\ f + 1 \in Span(h, f)
    BY <1>1, <2>1, SpanWords
  <2> QED BY <1>8, <2>1, <2>2
<1>13. /\ new \in Heap /\ new.brk = g.brk /\ Listed(new, G)
       /\ \A k \in Words : k \notin G /\ k - 1 \notin G => new.word[k] = g.word[k]
  <2>1. new = Link(g, m, PRED_BLKP(h, x), SUCC_BLKP(h, x))
    BY DEF Replace, g
  <2>2. G = (F \ {x}) \cup {m}
    OBVIOUS
  <2> HIDE DEF G, new, C
  <2> QED BY <1>1, <1>6, <1>10, <1>11, <1>12, <2>1, <2>2, ListedReplace
<1> HIDE DEF new
<1>14. /\ Tiled(new, C)
       /\ \A b \in C : /\ Size(new, b) = Size(g, b)
                       /\ (IsFree(new, b) <=> IsFree(g, b))
       /\ \A b \in C \ G : Stays(g, new, b)
  <2>1. G \in SUBSET C
    BY <1>10
  <2> HIDE DEF G, C
  <2>2. /\ g \in Heap /\ Tiled(g, C) /\ new \in Heap /\ new.brk = g.brk
        /\ \A k \in Words : k \notin G /\ k - 1 \notin G => new.word[k] = g.word[k]
    BY <1>6, <1>8, <1>13
  <2>3. /\ Tiled(new, C)
        /\ \A k \in {1, 2, g.brk - 1} : new.word[k] = g.word[k]
        /\ \A b \in C : /\ new.word[b - 1] = g.word[b - 1]
                        /\ new.word[b + Size(g, b) - 2] = g.word[b + Size(g, b) - 2]
                        /\ Size(new, b) = Size(g, b)
                        /\ (IsFree(new, b) <=> IsFree(g, b))
        /\ \A b \in C \ G : Stays(g, new, b)
    BY <2>1, <2>2, LinksInside
  <2> QED BY <2>3
<1>15. Block(g, s, m - s, 1) /\ Block(g, m, e - m, 0)
  BY <1>5 DEF IsCut
<1>16. Block(new, s, m - s, 1) /\ Block(new, m, e - m, 0)
  BY <1>9, <1>14, <1>15 DEF Block
<1>17. Laid(new, C, G)
  <2>1. \A f \in G : IsFree(new, f)
    <3> TAKE f \in G
    <3>1. CASE f = m
      BY <1>16, <3>1 DEF Block
    <3>2. CASE f # m
      <4>1. f \in F /\ f \in B /\ f \in C /\ (f < s \/ f >= e) /\ IsFree(h, f)
        BY <1>1, <1>9, <3>2 DEF Laid
      <4> QED BY <1>8, <1>14, <4>1
    <3> QED BY <3>1, <3>2
  <2> QED BY <1>10, <1>13, <1>14, <2>1 DEF Laid
<1>18. Around(h, new, B, F, s, e)
  <2>1. ASSUME NEW b \in B, b < s \/ b >= e
        PROVE  /\ Size(new, b) = Size(h, b) /\ (IsFree(new, b) <=> IsFree(h, b))
               /\ b \notin F => Stays(h, new, b)
    <3>1. b \in C /\ b \in Int
      BY <1>1, <1>9, <2>1, TiledApart
    <3>2. b \notin F => b \in C \ G
      BY <1>2, <2>1, <3>1
    <3>3. Size(g, b) = Size(h, b) /\ (IsFree(g, b) <=> IsFree(h, b)) /\ Stays(h, g, b)
      BY <1>8, <2>1 DEF Stays
    <3>4. Size(new, b) = Size(g, b) /\ (IsFree(new, b) <=> IsFree(g, b))
      BY <1>14, <3>1
    <3>5. b \notin F => Stays(g, new, b)
      BY <1>14, <3>2
    <3>6. b \notin F => Stays(h, new, b)
      BY <3>3, <3>5 DEF Stays, Span
    <3> QED BY <3>3, <3>4, <3>6
  <2> QED BY <1>6, <1>13, <2>1 DEF Around
<1>19. Writes(h, new, Words \ (s .. m - 3))
  <2>1. ASSUME NEW k \in Words, k \in s .. m - 3
        PROVE  new.word[k] = h.word[k]
    <3>1. /\ s \in C /\ s \in C \ G
      BY <1>9, <1>11
    <3>2. Size(g, s) = m - s
      BY <1>15 DEF Block
    <3>3. k \in Span(g, s)
      BY <1>2, <2>1, <3>2 DEF Span
    <3>4. new.word[k] = g.word[k]
      BY <1>14, <3>1, <3>3 DEF Stays
    <3>5. k \notin {s - 1, m - 2, m - 1, e - 2}
      BY <1>2, <2>1
    <3> QED BY <1>6, <3>4, <3>5
  <2> QED BY <2>1 DEF Writes
<1> QED BY <1>16, <1>17, <1>18, <1>19 DEF new, C, G

(* It does in two heaps that are alike.                                    *)
LEMMA AlikeSplit ==
  ASSUME NEW h, NEW B, NEW F, Laid(h, B, F),
         NEW s \in B, NEW e \in B \cup {h.brk}, NEW m \in Int, (m % 2) = 0,
         s + 4 <= m, m + 4 <= e, NEW x \in F, s <= x, x < e, x # m,
         \A f \in F \ {x} : f < s \/ f >= e,
         NEW g, Alike(h, g, B, F)
  PROVE  Alike(Replace(h, s, m, e, x), Replace(g, s, m, e, x),
               Replaced(B, s, e, {s, m}), (F \ {x}) \cup {m})
<1> DEFINE new == Replace(h, s, m, e, x)
           gnew == Replace(g, s, m, e, x)
           hcut == Cut(h, s, m, e, 1, 0)
           gcut == Cut(g, s, m, e, 1, 0)
           pred == PRED_BLKP(h, x)
           succ == SUCC_BLKP(h, x)
           C == Replaced(B, s, e, {s, m})
           G == (F \ {x}) \cup {m}
<1>1. /\ h \in Heap /\ Tiled(h, B) /\ g \in Heap /\ g.brk = h.brk
      /\ g.free_list_start = h.free_list_start /\ F \subseteq B
  BY DEF Laid, Alike
<1>2. /\ e \in Int /\ s \in Int /\ h.brk \in Int /\ x \in Int /\ NULL \in Int
      /\ x \in Words /\ x + 1 \in Words
  BY <1>1, TiledApart, HeapType
<1>3. s < e
  BY <1>2
<1>4. /\ (s % 2) = 0 /\ 4 <= s /\ s - 1 \in Words
      /\ (e % 2) = 0 /\ e - 2 \in Words /\ e <= h.brk
  BY <1>1, <1>3, RowType
<1>5. /\ pred \in Int /\ succ \in Int
      /\ PRED_BLKP(g, x) = pred /\ SUCC_BLKP(g, x) = succ
  BY <1>1, <1>2, HeapType DEF PRED_BLKP, SUCC_BLKP, Alike
<1>6. IsCut(h, hcut, s, m, e, 1, 0) /\ IsCut(g, gcut, s, m, e, 1, 0)
  <2>1. /\ h \in Heap /\ s \in Int /\ m \in Int /\ e \in Int
        /\ 4 <= s /\ s + 4 <= m /\ m + 4 <= e /\ e <= h.brk /\ g \in Heap /\ e <= g.brk
        /\ (s % 2) = 0 /\ (m % 2) = 0 /\ (e % 2) = 0 /\ 1 \in {0, 1} /\ 0 \in {0, 1}
    BY <1>1, <1>2, <1>4
  <2>2. IsCut(h, hcut, s, m, e, 1, 0)
    BY <2>1, TilesDivide
  <2>3. IsCut(g, gcut, s, m, e, 1, 0)
    BY <2>1, TilesDivide
  <2> QED BY <2>2, <2>3
<1>7. new = Link(hcut, m, pred, succ) /\ gnew = Link(gcut, m, pred, succ)
  BY <1>5 DEF Replace
<1>8. /\ Laid(new, C, G)
      /\ Block(new, s, m - s, 1)
      /\ Block(new, m, e - m, 0)
      /\ Around(h, new, B, F, s, e)
      /\ Writes(h, new, Words \ (s .. m - 3))
  BY LaidSplit
<1>9. \A b \in C : b = s \/ b = m \/ (b \in B /\ Size(new, b) = Size(h, b))
  BY <1>8 DEF Replaced, Below, From, Around
<1> HIDE DEF new, gnew, C, hcut, gcut, pred, succ
<1>10. /\ m \in Words /\ m + 1 \in Words
       /\ s - 1 \in Words /\ m - 1 \in Words /\ e - 2 \in Words /\ m - 2 \in Words
       /\ s + (m - s) - 2 = m - 2 /\ m + (e - m) - 2 = e - 2
  <2>1. h.brk <= MAX_HEAP /\ MAX_HEAP \in Int
    BY <1>1, TiledApart
  <2> QED BY <1>2, <1>4, <2>1 DEF Words
<1>11. /\ hcut \in Heap /\ gcut \in Heap /\ hcut.brk = h.brk /\ gcut.brk = g.brk
       /\ hcut.free_list_start = h.free_list_start
       /\ gcut.free_list_start = h.free_list_start
       /\ \A k \in Words : \/ gcut.word[k] = hcut.word[k]
                           \/ gcut.word[k] = g.word[k] /\ hcut.word[k] = h.word[k]
       /\ \A k \in {s - 1, m - 1, e - 2, m - 2} : gcut.word[k] = hcut.word[k]
  <2>1. /\ hcut \in Heap /\ gcut \in Heap /\ hcut.brk = h.brk /\ gcut.brk = g.brk
        /\ hcut.free_list_start = h.free_list_start
        /\ gcut.free_list_start = h.free_list_start
    BY <1>1, <1>6 DEF IsCut
  <2>2. \A k \in Words :
          /\ gcut.word[k] = IF k \in {m - 1, e - 2} THEN e - m + 0
                            ELSE IF k \in {s - 1, m - 2} THEN m - s + 1 ELSE g.word[k]
          /\ hcut.word[k] = IF k \in {m - 1, e - 2} THEN e - m + 0
                            ELSE IF k \in {s - 1, m - 2} THEN m - s + 1 ELSE h.word[k]
    BY <1>6 DEF IsCut
  <2> QED BY <1>10, <2>1, <2>2
<1>12. /\ gnew \in Heap /\ gnew.brk = g.brk /\ new.brk = h.brk
       /\ gnew.free_list_start = new.free_list_start
       /\ \A k \in Words :
            gnew.word[k] = IF pred # NULL /\ k = pred + 1 THEN m
                           ELSE IF succ # NULL /\ k = succ THEN m
                           ELSE IF k = m + 1 THEN succ
                           ELSE IF k = m THEN pred ELSE gcut.word[k]
       /\ \A k \in Words :
            new.word[k] = IF pred # NULL /\ k = pred + 1 THEN m
                          ELSE IF succ # NULL /\ k = succ THEN m
                          ELSE IF k = m + 1 THEN succ
                          ELSE IF k = m THEN pred ELSE hcut.word[k]
  <2>1. /\ gnew \in Heap /\ gnew.brk = gcut.brk
        /\ gnew.free_list_start = IF pred = NULL THEN m ELSE gcut.free_list_start
        /\ \A k \in Words :
             gnew.word[k] = IF pred # NULL /\ k = pred + 1 THEN m
                            ELSE IF succ # NULL /\ k = succ THEN m
                            ELSE IF k = m + 1 THEN succ
                            ELSE IF k = m THEN pred ELSE gcut.word[k]
    <3> DEFINE n == Link(gcut, m, pred, succ)
    <3>1. /\ n \in Heap
          /\ n.brk = gcut.brk
          /\ n.free_list_start = IF pred = NULL THEN m ELSE gcut.free_list_start
          /\ \A k \in Words :
               n.word[k] = IF pred # NULL /\ k = pred + 1 THEN m
                           ELSE IF succ # NULL /\ k = succ THEN m
                           ELSE IF k = m + 1 THEN succ
                           ELSE IF k = m THEN pred ELSE gcut.word[k]
      BY <1>5, <1>11, LinkWrites
    <3>2. gnew = n
      BY <1>7
    <3> HIDE DEF n
    <3> QED BY <3>1, <3>2
  <2>2. /\ new \in Heap /\ new.brk = hcut.brk
        /\ new.free_list_start = IF pred = NULL THEN m ELSE hcut.free_list_start
        /\ \A k \in Words :
             new.word[k] = IF pred # NULL /\ k = pred + 1 THEN m
                           ELSE IF succ # NULL /\ k = succ THEN m
                           ELSE IF k = m + 1 THEN succ
                           ELSE IF k = m THEN pred ELSE hcut.word[k]
    <3> DEFINE n == Link(hcut, m, pred, succ)
    <3>1. /\ n \in Heap
          /\ n.brk = hcut.brk
          /\ n.free_list_start = IF pred = NULL THEN m ELSE hcut.free_list_start
          /\ \A k \in Words :
               n.word[k] = IF pred # NULL /\ k = pred + 1 THEN m
                           ELSE IF succ # NULL /\ k = succ THEN m
                           ELSE IF k = m + 1 THEN succ
                           ELSE IF k = m THEN pred ELSE hcut.word[k]
      BY <1>5, <1>11, LinkWrites
    <3>2. new = n
      BY <1>7
    <3> HIDE DEF n
    <3> QED BY <3>1, <3>2
  <2> QED BY <1>11, <2>1, <2>2
<1>13. \A k \in Words : \/ gnew.word[k] = new.word[k]
                        \/ gnew.word[k] = g.word[k] /\ new.word[k] = h.word[k]
  BY <1>11, <1>12
<1>14. \A k \in {s - 1, m - 1, e - 2, m - 2, m, m + 1} : gnew.word[k] = new.word[k]
  BY <1>10, <1>11, <1>12
<1>15. \A b \in C : \/ b \in B /\ Size(new, b) = Size(h, b)
                    \/ /\ gnew.word[b - 1] = new.word[b - 1]
                       /\ gnew.word[b + Size(new, b) - 2] = new.word[b + Size(new, b) - 2]
  <2>1. Size(new, s) = m - s /\ Size(new, m) = e - m
    BY <1>8 DEF Block
  <2>2. /\ gnew.word[s - 1] = new.word[s - 1]
        /\ gnew.word[s + Size(new, s) - 2] = new.word[s + Size(new, s) - 2]
        /\ gnew.word[m - 1] = new.word[m - 1]
        /\ gnew.word[m + Size(new, m) - 2] = new.word[m + Size(new, m) - 2]
    BY <1>10, <1>14, <2>1
  <2> QED BY <1>9, <2>2
<1>16. \A f \in G :
         \/ f \in F
         \/ gnew.word[f] = new.word[f] /\ gnew.word[f + 1] = new.word[f + 1]
  BY <1>14
<1>17. Alike(new, gnew, C, G)
  <2> HIDE DEF G
  <2> QED BY <1>8, <1>12, <1>13, <1>15, <1>16, AlikeFollows
<1> QED BY <1>17 DEF new, gnew, C

----------------------------------------------------------------------------
(* Coalescing.                                                             *)

(* Whether the neighbours of a block are free, as coalesce reads it.       *)
PrevFree(h, bp) == GET_ALLOC(h, FTRP(h, PREV_BLKP(h, bp))) = 0
NextFree(h, bp) == GET_ALLOC(h, HDRP(NEXT_BLKP(h, bp))) = 0

(* From where to where a free block and its free neighbours reach.         *)
Start(h, bp) == IF PrevFree(h, bp) THEN PREV_BLKP(h, bp) ELSE bp
End(h, bp)   == IF NextFree(h, bp) THEN NEXT_BLKP(h, bp) + Size(h, NEXT_BLKP(h, bp))
                ELSE NEXT_BLKP(h, bp)

(* The blocks when they have become one.                                   *)
Merged(h, B, bp) == Replaced(B, Start(h, bp), End(h, bp), {Start(h, bp)})

(* The allocated blocks are those before, with all their words.            *)
Keeps(h, B, g, C) == Taken(g, C) = Taken(h, B) /\ Kept(h, g, Taken(h, B))

(* A free block that reaches from bp or before it to e or behind it.       *)
Covers(h, B, f, bp, e) == f \in FreeOf(h, B) /\ f <= bp /\ f + Size(h, f) >= e

(* A block and its neighbours.                                             *)
LEMMA MergeRow ==
  ASSUME NEW h \in Heap, NEW B, Tiled(h, B), NEW bp \in B
  PROVE  /\ Start(h, bp) \in B /\ End(h, bp) \in B \cup {h.brk}
         /\ Start(h, bp) <= bp /\ bp < End(h, bp) /\ bp + Size(h, bp) <= End(h, bp)
         /\ Start(h, bp) \in Int /\ End(h, bp) \in Int /\ bp \in Int
         /\ PrevFree(h, bp) <=> (PREV_BLKP(h, bp) \in B /\ IsFree(h, PREV_BLKP(h, bp)))
         /\ NextFree(h, bp) <=> (NEXT_BLKP(h, bp) \in B /\ IsFree(h, NEXT_BLKP(h, bp)))
         /\ PrevFree(h, bp) => PREV_BLKP(h, bp) + Size(h, PREV_BLKP(h, bp)) = bp
         /\ NEXT_BLKP(h, bp) = bp + Size(h, bp)
         /\ \A b \in B : Start(h, bp) <= b /\ b < End(h, bp) =>
              \/ b = bp
              \/ PrevFree(h, bp) /\ b = PREV_BLKP(h, bp)
              \/ NextFree(h, bp) /\ b = NEXT_BLKP(h, bp)
<1> DEFINE prev == PREV_BLKP(h, bp)
           next == NEXT_BLKP(h, bp)
<1>1. /\ PrevFree(h, bp) <=> (prev \in B /\ IsFree(h, prev))
      /\ prev \in B => prev + Size(h, prev) = bp
  BY Before DEF PrevFree
<1>2. /\ next = bp + Size(h, bp) /\ next \in B \cup {h.brk}
      /\ NextFree(h, bp) <=> (next \in B /\ IsFree(h, next))
  BY After DEF NextFree
<1> HIDE DEF prev, next
<1>3. Start(h, bp) = IF PrevFree(h, bp) THEN prev ELSE bp
  BY DEF Start, prev
<1>4. End(h, bp) = IF NextFree(h, bp) THEN next + Size(h, next) ELSE next
  BY DEF End, next
<1>5. /\ bp \in Int /\ Size(h, bp) \in Int /\ Size(h, bp) >= 4
  BY TiledApart
<1>6. PrevFree(h, bp) => prev \in Int /\ Size(h, prev) \in Int /\ Size(h, prev) >= 4
  BY <1>1, TiledApart
<1>7. NextFree(h, bp) =>
        /\ next \in Int /\ Size(h, next) \in Int /\ Size(h, next) >= 4
        /\ next + Size(h, next) \in B \cup {h.brk}
  BY <1>2, TiledApart
<1>8. /\ Start(h, bp) \in B /\ End(h, bp) \in B \cup {h.brk}
      /\ Start(h, bp) <= bp /\ bp < End(h, bp) /\ bp + Size(h, bp) <= End(h, bp)
      /\ Start(h, bp) \in Int /\ End(h, bp) \in Int
  BY <1>1, <1>2, <1>3, <1>4, <1>5, <1>6, <1>7
<1>9. \A b \in B : Start(h, bp) <= b /\ b < End(h, bp) =>
        \/ b = bp
        \/ PrevFree(h, bp) /\ b = prev
        \/ NextFree(h, bp) /\ b = next
  <2> TAKE b \in B
  <2> HAVE Start(h, bp) <= b /\ b < End(h, bp)
  <2>1. b \in Int
    BY TiledApart
  <2>2. \A c \in B : (c < b => c + Size(h, c) <= b) /\ (b < c => b + Size(h, b) <= c)
    BY DEF Tiled, Tiles
  <2>3. CASE b < bp
    <3>1. PrevFree(h, bp) /\ prev <= b
      BY <1>3, <1>5, <2>1, <2>3
    <3>2. b = prev
      BY <1>1, <1>6, <2>1, <2>2, <2>3, <3>1
    <3> QED BY <3>1, <3>2
  <2>4. CASE b > bp
    <3>1. next <= b
      BY <1>2, <2>2, <2>4
    <3>2. NextFree(h, bp) /\ b < next + Size(h, next)
      BY <1>2, <1>4, <1>5, <2>1, <3>1
    <3>3. b = next
      BY <1>2, <1>7, <2>1, <2>2, <3>1, <3>2
    <3> QED BY <3>2, <3>3
  <2> QED BY <1>5, <2>1, <2>3, <2>4
<1> QED BY <1>1, <1>2, <1>5, <1>8, <1>9 DEF prev, next

(* What coalesce does, step by step.                                       *)
CoalesceRest(h, bp) == RemoveIf(PrevFree(h, bp), RemoveIf(NextFree(h, bp), h, NEXT_BLKP(h, bp)),
                                PREV_BLKP(h, bp))

(* The free neighbours are unlisted and the row is tagged as one block.    *)
CoalesceTag(h, bp) == Tag(CoalesceRest(h, bp), Start(h, bp), End(h, bp) - Start(h, bp), 0)

(* coalesce unlists the free neighbours, writes two tags and lists the     *)
(* row.                                                                    *)
LEMMA CoalesceSteps ==
  ASSUME NEW h \in Heap, NEW B, Tiled(h, B), NEW bp \in B
  PROVE  /\ coalesce(h, bp).ptr = Start(h, bp)
         /\ coalesce(h, bp).heap = add_to_free_list(CoalesceTag(h, bp), Start(h, bp))
<1> DEFINE prev == PREV_BLKP(h, bp)
           next == NEXT_BLKP(h, bp)
           size == GET_SIZE(h, HDRP(bp))
                   + (IF PrevFree(h, bp) THEN GET_SIZE(h, HDRP(prev)) ELSE 0)
                   + (IF NextFree(h, bp) THEN GET_SIZE(h, HDRP(next)) ELSE 0)
<1>1. coalesce(h, bp) = Merge(h, prev, bp, next, PrevFree(h, bp), NextFree(h, bp), size)
  BY DEF coalesce, PrevFree, NextFree
<1>2. size = End(h, bp) - Start(h, bp)
  <2>1. /\ bp \in Int /\ Size(h, bp) \in Int /\ next = bp + Size(h, bp)
        /\ PrevFree(h, bp) => prev \in B /\ prev + Size(h, prev) = bp
        /\ NextFree(h, bp) => next \in B
    BY MergeRow, TiledApart
  <2>2. /\ PrevFree(h, bp) => prev \in Int /\ Size(h, prev) \in Int
        /\ NextFree(h, bp) => next \in Int /\ Size(h, next) \in Int
    BY <2>1, TiledApart
  <2>3. size = Size(h, bp) + (IF PrevFree(h, bp) THEN Size(h, prev) ELSE 0)
                           + (IF NextFree(h, bp) THEN Size(h, next) ELSE 0)
    BY DEF Size
  <2>4. /\ Start(h, bp) = IF PrevFree(h, bp) THEN prev ELSE bp
        /\ End(h, bp) = IF NextFree(h, bp) THEN next + Size(h, next) ELSE next
    BY DEF Start, End
  <2> HIDE DEF size, prev, next
  <2> QED BY <2>1, <2>2, <2>3, <2>4
<1>3. Start(h, bp) = IF PrevFree(h, bp) THEN prev ELSE bp
  BY DEF Start
<1> HIDE DEF size
<1> QED BY <1>1, <1>2, <1>3 DEF Merge, Result, CoalesceTag, CoalesceRest

(* The list members that are left when the free neighbours are gone.       *)
RestList(h, B, bp) ==
  ((FreeOf(h, B) \ {bp}) \ (IF NextFree(h, bp) THEN {NEXT_BLKP(h, bp)} ELSE {}))
     \ (IF PrevFree(h, bp) THEN {PREV_BLKP(h, bp)} ELSE {})

(* None of them is in the row.                                             *)
LEMMA RestOutside ==
  ASSUME NEW h, NEW B, NEW bp, GoodBut(h, B, bp)
  PROVE  /\ h \in Heap /\ Tiled(h, B) /\ bp \in B
         /\ \A f \in RestList(h, B, bp) : f \in B /\ (f < Start(h, bp) \/ f >= End(h, bp))
         /\ \A f \in FreeOf(h, B) :
              f < Start(h, bp) \/ f >= End(h, bp) => f \in RestList(h, B, bp)
<1>1. h \in Heap /\ Tiled(h, B) /\ bp \in B /\ IsFree(h, bp)
  BY DEF GoodBut, Laid, FreeOf
<1>2. \A b \in B : Start(h, bp) <= b /\ b < End(h, bp) =>
        \/ b = bp
        \/ PrevFree(h, bp) /\ b = PREV_BLKP(h, bp)
        \/ NextFree(h, bp) /\ b = NEXT_BLKP(h, bp)
  BY <1>1, MergeRow
<1>3. /\ Start(h, bp) \in Int /\ End(h, bp) \in Int
      /\ \A b \in B : b \in Int
  BY <1>1, MergeRow, TiledApart
<1>4. \A f \in RestList(h, B, bp) : f \in B /\ (f < Start(h, bp) \/ f >= End(h, bp))
  BY <1>2, <1>3 DEF RestList, FreeOf
<1>5. \A f \in FreeOf(h, B) :
        f < Start(h, bp) \/ f >= End(h, bp) => f \in RestList(h, B, bp)
  <2>1. Start(h, bp) <= bp /\ bp < End(h, bp) /\ bp \in Int
    BY <1>1, MergeRow
  <2>2. PrevFree(h, bp) => Start(h, bp) = PREV_BLKP(h, bp)
    BY DEF Start
  <2>3. NextFree(h, bp) => NEXT_BLKP(h, bp) < End(h, bp) /\ NEXT_BLKP(h, bp) > bp
                           /\ NEXT_BLKP(h, bp) \in Int
    <3>1. HAVE NextFree(h, bp)
    <3>2. NEXT_BLKP(h, bp) \in B /\ NEXT_BLKP(h, bp) = bp + Size(h, bp)
      BY <1>1, <3>1, MergeRow
    <3>3. /\ Size(h, NEXT_BLKP(h, bp)) \in Int /\ Size(h, NEXT_BLKP(h, bp)) >= 4
          /\ Size(h, bp) \in Int /\ Size(h, bp) >= 4
      BY <1>1, <3>2, TiledApart
    <3>4. End(h, bp) = NEXT_BLKP(h, bp) + Size(h, NEXT_BLKP(h, bp))
      BY <3>1 DEF End
    <3> QED BY <2>1, <3>2, <3>3, <3>4
  <2> TAKE f \in FreeOf(h, B)
  <2> HAVE f < Start(h, bp) \/ f >= End(h, bp)
  <2>4. f \in B /\ f \in Int
    BY <1>3 DEF FreeOf
  <2>5. f # bp /\ (NextFree(h, bp) => f # NEXT_BLKP(h, bp))
        /\ (PrevFree(h, bp) => f # PREV_BLKP(h, bp))
    BY <1>3, <2>1, <2>2, <2>3, <2>4
  <2> QED BY <2>5 DEF RestList
<1> QED BY <1>1, <1>4, <1>5

(* Two heaps with the same tags have a third one's.                        *)
LEMMA SameTagsTwice ==
  ASSUME NEW h, NEW g, NEW new, NEW B, SameTags(h, g, B), SameTags(g, new, B)
  PROVE  SameTags(h, new, B)
BY DEF SameTags

(* A block that stays in two steps stays.                                  *)
LEMMA StaysTwice ==
  ASSUME NEW h, NEW g, NEW new, NEW b, Stays(h, g, b), Stays(g, new, b),
         Size(g, b) = Size(h, b)
  PROVE  Stays(h, new, b)
BY DEF Stays, Span

(* The free neighbours leave the list.                                     *)
LEMMA CoalesceRestLaid ==
  ASSUME NEW h, NEW B, NEW bp, GoodBut(h, B, bp)
  PROVE  /\ Laid(CoalesceRest(h, bp), B, RestList(h, B, bp))
         /\ SameTags(h, CoalesceRest(h, bp), B)
         /\ \A b \in Taken(h, B) : Stays(h, CoalesceRest(h, bp), b)
<1> DEFINE prev == PREV_BLKP(h, bp)
           next == NEXT_BLKP(h, bp)
           F    == FreeOf(h, B) \ {bp}
           one  == RemoveIf(NextFree(h, bp), h, next)
           two  == RemoveIf(PrevFree(h, bp), one, prev)
           F1   == F \ (IF NextFree(h, bp) THEN {next} ELSE {})
           F2   == F1 \ (IF PrevFree(h, bp) THEN {prev} ELSE {})
<1>1. Laid(h, B, F) /\ h \in Heap /\ Tiled(h, B) /\ bp \in B
  BY RestOutside DEF GoodBut
<1>2. /\ NextFree(h, bp) => next \in F
      /\ PrevFree(h, bp) => prev \in F1
      /\ NextFree(h, bp) \in BOOLEAN /\ PrevFree(h, bp) \in BOOLEAN
  <2>1. /\ NextFree(h, bp) => next \in B /\ IsFree(h, next)
        /\ PrevFree(h, bp) => prev \in B /\ IsFree(h, prev) /\ prev + Size(h, prev) = bp
        /\ next = bp + Size(h, bp) /\ bp \in Int
    BY <1>1, MergeRow
  <2>2. \A b \in B : b \in Int /\ Size(h, b) \in Int /\ Size(h, b) >= 4
    BY <1>1, TiledApart
  <2>3. NextFree(h, bp) => next # bp
    BY <1>1, <2>1, <2>2
  <2>4. PrevFree(h, bp) => prev # bp /\ prev # next
    BY <1>1, <2>1, <2>2
  <2> HIDE DEF prev, next
  <2> QED BY <2>1, <2>3, <2>4 DEF FreeOf, NextFree, PrevFree
<1> HIDE DEF prev, next, F
<1>3. /\ Laid(one, B, F1) /\ SameTags(h, one, B)
      /\ \A b \in B \ F : Stays(h, one, b)
  BY <1>1, <1>2, LaidRemoveIf
<1> HIDE DEF one, F1
<1>4. /\ Laid(two, B, F2) /\ SameTags(one, two, B)
      /\ \A b \in B \ F1 : Stays(one, two, b)
  BY <1>2, <1>3, LaidRemoveIf
<1> HIDE DEF two
<1>5. SameTags(h, two, B)
  BY <1>3, <1>4, SameTagsTwice
<1>6. ASSUME NEW b \in Taken(h, B)
      PROVE  Stays(h, two, b)
  <2>1. b \in B /\ b \notin F /\ b \notin F1
    BY DEF Taken, FreeOf, F, F1
  <2>2. Stays(h, one, b) /\ Stays(one, two, b)
    BY <1>3, <1>4, <2>1
  <2>3. Size(one, b) = Size(h, b)
    BY <1>3, <2>1 DEF SameTags
  <2> QED BY <2>2, <2>3, StaysTwice
<1>7. two = CoalesceRest(h, bp) /\ F2 = RestList(h, B, bp)
  BY DEF two, one, prev, next, F1, F, CoalesceRest, RestList
<1> QED BY <1>4, <1>5, <1>6, <1>7

(* The free neighbours and the block become one.                           *)
LEMMA CoalesceTagLaid ==
  ASSUME NEW h, NEW B, NEW bp, GoodBut(h, B, bp)
  PROVE  /\ Laid(CoalesceTag(h, bp), Merged(h, B, bp), RestList(h, B, bp))
         /\ Block(CoalesceTag(h, bp), Start(h, bp), End(h, bp) - Start(h, bp), 0)
         /\ Outside(CoalesceRest(h, bp), CoalesceTag(h, bp), B, Start(h, bp), End(h, bp))
<1> DEFINE s == Start(h, bp)
           e == End(h, bp)
           rest == CoalesceRest(h, bp)
           F == RestList(h, B, bp)
           new == Tag(rest, s, e - s, 0)
<1>1. h \in Heap /\ Tiled(h, B) /\ bp \in B /\ \A f \in F : f < s \/ f >= e
  BY RestOutside
<1>2. s \in B /\ e \in B \cup {h.brk} /\ s < e /\ e - s \in Int /\ s + (e - s) = e
  BY <1>1, MergeRow
<1>3. Laid(rest, B, F) /\ rest.brk = h.brk
  BY CoalesceRestLaid DEF SameTags
<1> HIDE DEF s, e, rest, F
<1>4. /\ Laid(new, Replaced(B, s, e, {s}), F)
      /\ Block(new, s, e - s, 0)
      /\ Writes(rest, new, {s - 1, e - 2})
      /\ Outside(rest, new, B, s, e)
  <2>1. e \in B \cup {rest.brk} /\ 0 \in {0, 1}
    BY <1>2, <1>3
  <2> QED BY <1>1, <1>2, <1>3, <2>1, LaidJoin
<1> QED BY <1>4 DEF s, e, rest, F, CoalesceTag, Merged

(* F is what is free.                                                      *)
FreeAre(h, B, F) == FreeOf(h, B) = F

(* A free block that is not listed is, with its free neighbours, a listed  *)
(* block of a consistent heap, and the allocated blocks keep their words.  *)
THEOREM Coalesce ==
  ASSUME NEW h, NEW B, NEW bp, GoodBut(h, B, bp)
  PROVE  /\ Good(coalesce(h, bp).heap, Merged(h, B, bp))
         /\ Keeps(h, B, coalesce(h, bp).heap, Merged(h, B, bp))
         /\ Covers(coalesce(h, bp).heap, Merged(h, B, bp), coalesce(h, bp).ptr,
                   bp, bp + Size(h, bp))
         /\ SameTags(h, coalesce(h, bp).heap, {})
         /\ FreeAre(coalesce(h, bp).heap, Merged(h, B, bp),
                    RestList(h, B, bp) \cup {Start(h, bp)})
<1> DEFINE s == Start(h, bp)
           e == End(h, bp)
           rest == CoalesceRest(h, bp)
           tag == CoalesceTag(h, bp)
           new == add_to_free_list(tag, s)
           C == Merged(h, B, bp)
           F == RestList(h, B, bp)
           G == F \cup {s}
<1>1. /\ h \in Heap /\ Tiled(h, B) /\ bp \in B
      /\ \A f \in F : f \in B /\ (f < s \/ f >= e)
      /\ \A f \in FreeOf(h, B) : f < s \/ f >= e => f \in F
  BY RestOutside
<1>2. coalesce(h, bp).ptr = s /\ coalesce(h, bp).heap = new
  BY <1>1, CoalesceSteps
<1>3. /\ s \in B /\ e \in B \cup {h.brk} /\ s <= bp /\ bp < e /\ bp + Size(h, bp) <= e
      /\ s \in Int /\ e \in Int /\ bp \in Int /\ s < e
  BY <1>1, MergeRow
<1>4. /\ SameTags(h, rest, B) /\ \A b \in Taken(h, B) : Stays(h, rest, b)
  BY CoalesceRestLaid
<1>5. /\ Laid(tag, C, F)
      /\ Block(tag, s, e - s, 0)
      /\ Outside(rest, tag, B, s, e)
  BY CoalesceTagLaid
<1>6. /\ s \in C /\ \A b \in B : b < s \/ b >= e => b \in C
      /\ \A c \in C : c = s \/ (c \in B /\ (c < s \/ c >= e))
  BY DEF Merged, Replaced, Below, From
<1> HIDE DEF new, C, F, rest, tag, s, e
<1>7. IsFree(tag, s) /\ Size(tag, s) = e - s
  BY <1>5 DEF Block
<1>8. s \in C \ F
  BY <1>1, <1>3, <1>6
<1>9. /\ Laid(new, C, G)
      /\ SameTags(tag, new, C)
      /\ \A b \in C \ G : Stays(tag, new, b)
  BY <1>5, <1>7, <1>8, LaidAdd DEF new
<1>10. IsFree(new, s) /\ Size(new, s) = e - s
  BY <1>6, <1>7, <1>9 DEF SameTags
<1>11. \A b \in B : b < s \/ b >= e =>
         Size(new, b) = Size(h, b) /\ (IsFree(new, b) <=> IsFree(h, b))
  <2> TAKE b \in B
  <2> HAVE b < s \/ b >= e
  <2>1. Size(rest, b) = Size(h, b) /\ (IsFree(rest, b) <=> IsFree(h, b))
    BY <1>4 DEF SameTags
  <2>2. Size(tag, b) = Size(rest, b) /\ (IsFree(tag, b) <=> IsFree(rest, b))
    BY <1>5 DEF Outside
  <2>3. Size(new, b) = Size(tag, b) /\ (IsFree(new, b) <=> IsFree(tag, b))
    BY <1>6, <1>9 DEF SameTags
  <2> QED BY <2>1, <2>2, <2>3
<1>12. FreeOf(new, C) = G
  <2>1. ASSUME NEW c \in C
        PROVE  IsFree(new, c) <=> c \in G
    <3>1. CASE c = s
      BY <1>10, <3>1
    <3>2. CASE c # s
      <4>1. c \in B /\ (c < s \/ c >= e)
        BY <1>6, <3>2
      <4>2. IsFree(new, c) <=> c \in FreeOf(h, B)
        BY <1>11, <4>1 DEF FreeOf
      <4>3. c \in F => c \in FreeOf(h, B)
        BY DEF F, RestList
      <4> QED BY <1>1, <3>2, <4>1, <4>2, <4>3
    <3> QED BY <3>1, <3>2
  <2>2. G \subseteq C
    BY <1>9 DEF Laid
  <2> HIDE DEF G
  <2> QED BY <2>1, <2>2 DEF FreeOf
<1>13. Taken(new, C) = Taken(h, B)
  <2>1. ASSUME NEW b \in Taken(h, B)
        PROVE  b \in B /\ (b < s \/ b >= e) /\ ~ IsFree(h, b)
    <3>1. b \in B /\ ~ IsFree(h, b) /\ b \in Int
      BY <1>1, TiledApart DEF Taken
    <3>2. ~ (s <= b /\ b < e)
      <4>1. s <= b /\ b < e => \/ b = bp
                               \/ PrevFree(h, bp) /\ b = PREV_BLKP(h, bp)
                               \/ NextFree(h, bp) /\ b = NEXT_BLKP(h, bp)
        BY <1>1, <3>1, MergeRow DEF s, e
      <4>2. /\ PrevFree(h, bp) => IsFree(h, PREV_BLKP(h, bp))
            /\ NextFree(h, bp) => IsFree(h, NEXT_BLKP(h, bp))
            /\ IsFree(h, bp)
        BY <1>1, MergeRow DEF GoodBut, FreeOf
      <4> QED BY <3>1, <4>1, <4>2
    <3> QED BY <1>3, <3>1, <3>2
  <2>2. Taken(h, B) \subseteq Taken(new, C)
    BY <1>6, <1>11, <2>1 DEF Taken
  <2>3. Taken(new, C) \subseteq Taken(h, B)
    BY <1>6, <1>10, <1>11 DEF Taken
  <2> QED BY <2>2, <2>3
<1>14. Kept(h, new, Taken(h, B))
  <2>1. ASSUME NEW b \in Taken(h, B)
        PROVE  Size(new, b) = Size(h, b) /\ Stays(h, new, b)
    <3>1. b \in Taken(new, C) /\ b \in B /\ b \in C /\ ~ IsFree(new, b)
      BY <1>13 DEF Taken
    <3>2. b # s /\ (b < s \/ b >= e) /\ b \notin G
      BY <1>6, <1>10, <1>12, <3>1 DEF FreeOf
    <3>3. Stays(h, rest, b) /\ Stays(rest, tag, b) /\ Stays(tag, new, b)
      BY <1>4, <1>5, <1>9, <3>1, <3>2 DEF Outside
    <3>4. Size(rest, b) = Size(h, b) /\ Size(tag, b) = Size(rest, b)
      BY <1>4, <1>5, <3>1, <3>2 DEF Outside, SameTags
    <3>5. Stays(h, tag, b)
      BY <3>3, <3>4, StaysTwice
    <3>6. Stays(h, new, b)
      BY <3>3, <3>4, <3>5, StaysTwice
    <3> QED BY <1>11, <3>1, <3>2, <3>6
  <2> QED BY <2>1 DEF Kept
<1>15. \A f \in G : f + Size(new, f) \notin G
  <2> SUFFICES ASSUME NEW f \in G, f + Size(new, f) \in G
               PROVE  FALSE
    OBVIOUS
  <2>1. \A b \in B : b \in Int /\ Size(h, b) \in Int /\ Size(h, b) >= 4
    BY <1>1, TiledApart
  <2>2. \A b \in F : b \in FreeOf(h, B) \ {bp} /\ (b < s \/ b >= e) /\ b \in B
    BY <1>1 DEF F, RestList
  <2>3. \A b \in FreeOf(h, B) \ {bp} :
          b + Size(h, b) \in FreeOf(h, B) => b + Size(h, b) = bp
    BY DEF GoodBut
  <2>4. CASE f = s
    <3>1. e \in F
      BY <1>3, <1>10, <2>4
    <3>2. e \in FreeOf(h, B) /\ e # bp
      BY <2>2, <3>1
    <3>3. CASE NextFree(h, bp)
      <4>1. NEXT_BLKP(h, bp) \in B /\ IsFree(h, NEXT_BLKP(h, bp))
            /\ NEXT_BLKP(h, bp) = bp + Size(h, bp)
        BY <1>1, <3>3, MergeRow
      <4>2. NEXT_BLKP(h, bp) \in FreeOf(h, B) \ {bp}
        BY <1>1, <1>3, <2>1, <4>1 DEF FreeOf
      <4>3. e = NEXT_BLKP(h, bp) + Size(h, NEXT_BLKP(h, bp))
        BY <3>3 DEF e, End
      <4> QED BY <2>3, <3>2, <4>2, <4>3
    <3>4. CASE ~ NextFree(h, bp)
      <4>1. e = NEXT_BLKP(h, bp)
        BY <3>4 DEF e, End
      <4>2. e \in B /\ IsFree(h, e)
        BY <3>2 DEF FreeOf
      <4> QED BY <1>1, <3>4, <4>1, <4>2, MergeRow
    <3> QED BY <3>3, <3>4
  <2>5. CASE f # s
    <3>1. f \in F /\ f \in FreeOf(h, B) \ {bp} /\ Size(new, f) = Size(h, f)
      BY <1>11, <2>2, <2>5
    <3>2. CASE f + Size(h, f) = s
      <4>1. CASE PrevFree(h, bp)
        <5>1. PREV_BLKP(h, bp) = s /\ s \in FreeOf(h, B)
          BY <1>1, <4>1, MergeRow DEF s, Start, FreeOf
        <5>2. s = bp
          BY <2>3, <3>1, <3>2, <5>1
        <5> QED BY <1>1, <2>1, <4>1, <5>1, <5>2, MergeRow
      <4>2. CASE ~ PrevFree(h, bp)
        <5>1. s = bp
          BY <4>2 DEF s, Start
        <5>2. f \in B /\ IsFree(h, f)
          BY <3>1 DEF FreeOf
        <5>3. f = PREV_BLKP(h, bp)
          BY <1>1, <3>2, <5>1, <5>2, Before
        <5> QED BY <1>1, <4>2, <5>2, <5>3, MergeRow
      <4> QED BY <4>1, <4>2
    <3>3. CASE f + Size(h, f) \in F
      <4>1. f + Size(h, f) = bp
        BY <2>2, <2>3, <3>1, <3>3
      <4> QED BY <2>2, <3>3, <4>1
    <3> QED BY <3>1, <3>2, <3>3
  <2> QED BY <2>4, <2>5
<1>16. Good(new, C)
  BY <1>9, <1>12, <1>15 DEF Good
<1>17. Covers(new, C, s, bp, bp + Size(h, bp))
  BY <1>3, <1>10, <1>12 DEF Covers
<1>18. SameTags(h, new, {})
  BY <1>4, <1>5, <1>9 DEF SameTags, Outside
<1>19. FreeAre(new, C, G)
  BY <1>12 DEF FreeAre
<1> QED BY <1>2, <1>13, <1>14, <1>16, <1>17, <1>18, <1>19 DEF Keeps, C, G, F, s

(* Heaps with the same tags have the same neighbours.                      *)
LEMMA SameNeighbours ==
  ASSUME NEW h \in Heap, NEW B, Tiled(h, B), NEW g \in Heap, Tiled(g, B),
         SameTags(h, g, B), NEW bp \in B
  PROVE  /\ PREV_BLKP(g, bp) = PREV_BLKP(h, bp)
         /\ NEXT_BLKP(g, bp) = NEXT_BLKP(h, bp)
         /\ PrevFree(g, bp) <=> PrevFree(h, bp)
         /\ NextFree(g, bp) <=> NextFree(h, bp)
         /\ Start(g, bp) = Start(h, bp) /\ End(g, bp) = End(h, bp)
<1> DEFINE prev == PREV_BLKP(h, bp)
           next == NEXT_BLKP(h, bp)
<1>1. PREV_BLKP(g, bp) = prev
  <2>1. CASE bp = 4
    BY <2>1, Before
  <2>2. CASE bp # 4
    <3>1. prev \in B /\ prev + Size(h, prev) = bp
      BY <2>2, Before
    <3>2. prev + Size(g, prev) = bp
      BY <3>1 DEF SameTags
    <3> QED BY <3>1, <3>2, Before
  <2> QED BY <2>1, <2>2
<1>2. NEXT_BLKP(g, bp) = next
  <2>1. next = bp + Size(h, bp) /\ NEXT_BLKP(g, bp) = bp + Size(g, bp)
    BY After
  <2> QED BY <2>1 DEF SameTags
<1>3. PrevFree(g, bp) <=> PrevFree(h, bp)
  <2>1. /\ PrevFree(h, bp) <=> (prev \in B /\ IsFree(h, prev))
        /\ PrevFree(g, bp) <=> (prev \in B /\ IsFree(g, prev))
    BY <1>1, MergeRow
  <2> QED BY <2>1 DEF SameTags
<1>4. NextFree(g, bp) <=> NextFree(h, bp)
  <2>1. /\ NextFree(h, bp) <=> (next \in B /\ IsFree(h, next))
        /\ NextFree(g, bp) <=> (next \in B /\ IsFree(g, next))
    BY <1>2, MergeRow
  <2> QED BY <2>1 DEF SameTags
<1>5. NextFree(h, bp) => Size(g, next) = Size(h, next)
  <2>1. NextFree(h, bp) => next \in B
    BY MergeRow
  <2> QED BY <2>1 DEF SameTags
<1> QED BY <1>1, <1>2, <1>3, <1>4, <1>5 DEF Start, End

(* Coalescing does the same in heaps that are alike.                       *)
LEMMA AlikeCoalesce ==
  ASSUME NEW h, NEW B, NEW bp, GoodBut(h, B, bp), NEW g, Alike(h, g, B, FreeOf(h, B) \ {bp})
  PROVE  /\ Alike(coalesce(h, bp).heap, coalesce(g, bp).heap, Merged(h, B, bp),
                  FreeOf(coalesce(h, bp).heap, Merged(h, B, bp)))
         /\ coalesce(g, bp).ptr = coalesce(h, bp).ptr
<1> DEFINE s == Start(h, bp)
           e == End(h, bp)
           prev == PREV_BLKP(h, bp)
           next == NEXT_BLKP(h, bp)
           F    == FreeOf(h, B) \ {bp}
           hone == RemoveIf(NextFree(h, bp), h, next)
           gone == RemoveIf(NextFree(h, bp), g, next)
           htwo == RemoveIf(PrevFree(h, bp), hone, prev)
           gtwo == RemoveIf(PrevFree(h, bp), gone, prev)
           htag == Tag(htwo, s, e - s, 0)
           gtag == Tag(gtwo, s, e - s, 0)
           F1   == F \ (IF NextFree(h, bp) THEN {next} ELSE {})
           F2   == F1 \ (IF PrevFree(h, bp) THEN {prev} ELSE {})
           C    == Merged(h, B, bp)
<1>1. Laid(h, B, F) /\ h \in Heap /\ Tiled(h, B) /\ bp \in B
  BY RestOutside DEF GoodBut
<1>2. g \in Heap /\ Tiled(g, B) /\ SameTags(h, g, B) /\ g.brk = h.brk
  <2>1. Laid(g, B, F) /\ SameTags(h, g, B)
    BY <1>1, LaidAlike
  <2> QED BY <2>1 DEF Laid, SameTags
<1>3. /\ PREV_BLKP(g, bp) = prev /\ NEXT_BLKP(g, bp) = next
      /\ PrevFree(g, bp) = PrevFree(h, bp)
      /\ NextFree(g, bp) = NextFree(h, bp)
      /\ Start(g, bp) = s /\ End(g, bp) = e
  <2>1. /\ PREV_BLKP(g, bp) = prev
        /\ NEXT_BLKP(g, bp) = next
        /\ PrevFree(g, bp) <=> PrevFree(h, bp)
        /\ NextFree(g, bp) <=> NextFree(h, bp)
        /\ Start(g, bp) = s /\ End(g, bp) = e
    BY <1>1, <1>2, SameNeighbours
  <2>2. /\ PrevFree(h, bp) \in BOOLEAN /\ PrevFree(g, bp) \in BOOLEAN
        /\ NextFree(h, bp) \in BOOLEAN /\ NextFree(g, bp) \in BOOLEAN
    BY DEF PrevFree, NextFree
  <2> QED BY <2>1, <2>2
<1>4. /\ NextFree(h, bp) => next \in F
      /\ PrevFree(h, bp) => prev \in F1
      /\ NextFree(h, bp) \in BOOLEAN /\ PrevFree(h, bp) \in BOOLEAN
  <2>1. /\ NextFree(h, bp) => next \in B /\ IsFree(h, next)
        /\ PrevFree(h, bp) => prev \in B /\ IsFree(h, prev) /\ prev + Size(h, prev) = bp
        /\ next = bp + Size(h, bp) /\ bp \in Int
    BY <1>1, MergeRow
  <2>2. \A b \in B : b \in Int /\ Size(h, b) \in Int /\ Size(h, b) >= 4
    BY <1>1, TiledApart
  <2>3. NextFree(h, bp) => next # bp
    BY <1>1, <2>1, <2>2
  <2>4. PrevFree(h, bp) => prev # bp /\ prev # next
    BY <1>1, <2>1, <2>2
  <2> HIDE DEF prev, next
  <2> QED BY <2>1, <2>3, <2>4 DEF FreeOf, NextFree, PrevFree
<1>5. /\ htwo = CoalesceRest(h, bp)
      /\ gtwo = CoalesceRest(g, bp)
      /\ htag = CoalesceTag(h, bp)
      /\ gtag = CoalesceTag(g, bp)
  BY <1>3 DEF CoalesceRest, CoalesceTag
<1>6. /\ coalesce(h, bp).ptr = s
      /\ coalesce(h, bp).heap = add_to_free_list(htag, s)
      /\ coalesce(g, bp).ptr = s
      /\ coalesce(g, bp).heap = add_to_free_list(gtag, s)
  BY <1>1, <1>2, <1>3, <1>5, CoalesceSteps
<1>7. F2 = RestList(h, B, bp)
  BY DEF RestList
<1>8. /\ Laid(htwo, B, F2) /\ Laid(htag, C, F2)
      /\ Block(htag, s, e - s, 0) /\ SameTags(h, htwo, B)
  BY <1>5, <1>7, CoalesceRestLaid, CoalesceTagLaid
<1>9. C = Replaced(B, s, e, {s})
  BY DEF Merged
<1>10. /\ \A f \in F2 : f < s \/ f >= e
       /\ s \in B /\ e \in B \cup {h.brk} /\ s < e
       /\ e - s \in Int /\ s + (e - s) = e /\ s \in Int /\ e \in Int
  BY <1>1, <1>7, RestOutside, MergeRow
<1>11. FreeAre(coalesce(h, bp).heap, C, F2 \cup {s})
  BY <1>7, Coalesce
<1> HIDE DEF htag, gtag, s, e, prev, next, F, C
<1>12. Alike(hone, gone, B, F1) /\ Laid(hone, B, F1)
  BY <1>1, <1>4, AlikeRemoveIf, LaidRemoveIf DEF F
<1> HIDE DEF hone, gone, F1
<1>13. Alike(htwo, gtwo, B, F2)
  BY <1>4, <1>12, AlikeRemoveIf
<1> HIDE DEF htwo, gtwo, F2
<1>14. Alike(htag, gtag, C, F2)
  <2>1. Alike(Tag(htwo, s, e - s, 0), Tag(gtwo, s, e - s, 0), Replaced(B, s, e, {s}), F2)
    <3>1. e \in B \cup {htwo.brk} /\ 0 \in {0, 1}
      BY <1>8, <1>10 DEF SameTags
    <3> QED BY <1>8, <1>10, <1>13, <3>1, AlikeJoin
  <2> QED BY <1>9, <2>1 DEF htag, gtag
<1>15. Alike(add_to_free_list(htag, s), add_to_free_list(gtag, s), C, F2 \cup {s})
  <2>1. s \in C \ F2 /\ IsFree(htag, s)
    <3>1. s \notin F2
      BY <1>10
    <3>2. s \in C
      BY <1>9 DEF Replaced
    <3> QED BY <1>8, <3>1, <3>2 DEF Block
  <2> QED BY <1>8, <1>14, <2>1, AlikeAdd
<1> QED BY <1>6, <1>11, <1>15 DEF FreeAre, C

----------------------------------------------------------------------------
(* Freeing.                                                                *)

(* A block alone is the row from where it begins.                          *)
LEMMA RowOne ==
  ASSUME NEW h \in Heap, NEW B, Tiled(h, B), NEW bp \in B
  PROVE  /\ bp + Size(h, bp) \in B \cup {h.brk} /\ bp < bp + Size(h, bp)
         /\ Replaced(B, bp, bp + Size(h, bp), {bp}) = B
         /\ \A b \in B \ {bp} : b < bp \/ b >= bp + Size(h, bp)
<1>1. \A b \in B : b \in Int /\ Size(h, b) \in Int /\ Size(h, b) >= 4
  BY TiledApart
<1>2. bp + Size(h, bp) \in B \cup {h.brk} /\ bp < bp + Size(h, bp)
  BY <1>1, TiledApart
<1>3. \A b \in B \ {bp} : b < bp \/ b >= bp + Size(h, bp)
  BY <1>1 DEF Tiled, Tiles
<1> QED BY <1>2, <1>3 DEF Replaced, Below, From

(* The heap is good when the free blocks are those of the list and no two  *)
(* of them are neighbours.                                                 *)
LEMMA GoodButOne ==
  ASSUME NEW h, NEW B, NEW bp \in B, NEW F, Laid(h, B, F), FreeOf(h, B) = F \cup {bp},
         bp \notin F,
         \A f \in F : f + Size(h, f) \in F \cup {bp} => f + Size(h, f) = bp
  PROVE  GoodBut(h, B, bp)
<1>1. FreeOf(h, B) \ {bp} = F
  OBVIOUS
<1> QED BY <1>1 DEF GoodBut

(* The tags of an allocated block are set free.                            *)
Untag(h, bp) == Tag(h, bp, Size(h, bp), 0)

(* A heap stays consistent but for that block, and the rest is untouched.  *)
LEMMA UntagGood ==
  ASSUME NEW h, NEW B, Good(h, B), NEW bp \in Taken(h, B)
  PROVE  /\ GoodBut(Untag(h, bp), B, bp)
         /\ FreeAre(Untag(h, bp), B, FreeOf(h, B) \cup {bp})
         /\ Outside(h, Untag(h, bp), B, bp, bp + Size(h, bp))
         /\ Block(Untag(h, bp), bp, Size(h, bp), 0)
<1> DEFINE s == bp
           e == bp + Size(h, bp)
           size == Size(h, bp)
           F == FreeOf(h, B)
           new == Tag(h, s, size, 0)
<1>1. /\ Laid(h, B, F) /\ h \in Heap /\ Tiled(h, B) /\ bp \in B /\ bp \notin F
      /\ ~ IsFree(h, bp)
  BY DEF Good, Laid, Taken, FreeOf
<1>2. /\ e \in B \cup {h.brk} /\ s < e
      /\ Replaced(B, s, e, {s}) = B
      /\ \A b \in B \ {s} : b < s \/ b >= e
      /\ size \in Int /\ s + size = e
  BY <1>1, RowOne, TiledApart
<1>3. \A f \in F : f \in B \ {s}
  BY <1>1 DEF FreeOf
<1> HIDE DEF s, e, size, F
<1>4. /\ Laid(new, Replaced(B, s, e, {s}), F)
      /\ Block(new, s, size, 0)
      /\ Writes(h, new, {s - 1, e - 2})
      /\ Outside(h, new, B, s, e)
  <2>1. \A f \in F : f < s \/ f >= e
    BY <1>2, <1>3
  <2>2. s \in B /\ 0 \in {0, 1}
    BY <1>1 DEF s
  <2> QED BY <1>1, <1>2, <2>1, <2>2, LaidJoin
<1> HIDE DEF new
<1>5. Laid(new, B, F)
  BY <1>2, <1>4
<1>6. \A b \in B \ {s} : Size(new, b) = Size(h, b) /\ (IsFree(new, b) <=> IsFree(h, b))
  BY <1>2, <1>4 DEF Outside
<1>7. IsFree(new, s)
  BY <1>4 DEF Block
<1>8. FreeOf(new, B) = F \cup {s}
  BY <1>1, <1>6, <1>7 DEF FreeOf, F, s
<1>9. \A f \in F : f + Size(new, f) \in F \cup {s} => f + Size(new, f) = s
  BY <1>3, <1>6 DEF Good, F
<1>10. GoodBut(new, B, s)
  <2>1. s \in B /\ s \notin F
    BY <1>1, <1>3 DEF s
  <2> QED BY <1>5, <1>8, <1>9, <2>1, GoodButOne
<1>11. Untag(h, bp) = new
  BY DEF Untag, new, s, size
<1> QED BY <1>4, <1>8, <1>10, <1>11 DEF FreeAre, s, e, F, size

(* The blocks when bp has been freed.                                      *)
FreedBlocks(h, B, bp) == Merged(Untag(h, bp), B, bp)

(* The heap new has the blocks C, of which T are allocated, and those of K *)
(* have the words they had.                                                *)
Becomes(h, new, C, T, K) ==
  /\ Good(new, C) /\ Taken(new, C) = T /\ Kept(h, new, K)

(* mm_free leaves a consistent heap, and every other block as it was.      *)
THEOREM FreeGood ==
  ASSUME NEW h, NEW B, Good(h, B), NEW bp \in Taken(h, B)
  PROVE  /\ Becomes(h, mm_free(h, bp), FreedBlocks(h, B, bp),
                    Taken(h, B) \ {bp}, Taken(h, B) \ {bp})
         /\ SameTags(h, mm_free(h, bp), {})
<1> DEFINE one == Untag(h, bp)
           new == mm_free(h, bp)
           C == FreedBlocks(h, B, bp)
           A == Taken(h, B) \ {bp}
<1>1. h \in Heap /\ Tiled(h, B) /\ bp \in B /\ ~ IsFree(h, bp)
  BY DEF Good, Laid, Taken
<1>2. /\ GoodBut(one, B, bp)
      /\ FreeAre(one, B, FreeOf(h, B) \cup {bp})
      /\ Outside(h, one, B, bp, bp + Size(h, bp))
      /\ Block(one, bp, Size(h, bp), 0)
  BY UntagGood
<1>3. new = coalesce(one, bp).heap
  BY DEF mm_free, Untag, Size
<1> HIDE DEF one, new
<1>4. /\ Good(new, C)
      /\ Keeps(one, B, new, C)
      /\ Covers(new, C, coalesce(one, bp).ptr, bp, bp + Size(one, bp))
      /\ SameTags(one, new, {})
      /\ FreeAre(new, C, RestList(one, B, bp) \cup {Start(one, bp)})
  BY <1>2, <1>3, Coalesce DEF FreedBlocks, one
<1>5. Taken(one, B) = A
  BY <1>1, <1>2 DEF Taken, FreeOf, FreeAre
<1>6. \A b \in A : b \in B /\ Size(one, b) = Size(h, b) /\ Stays(h, one, b)
  <2> TAKE b \in A
  <2>1. b \in B \ {bp}
    BY DEF Taken
  <2>2. b < bp \/ b >= bp + Size(h, bp)
    BY <1>1, <2>1, RowOne
  <2> QED BY <1>2, <2>1, <2>2 DEF Outside
<1>7. Kept(h, one, A) /\ Kept(one, new, A)
  BY <1>4, <1>5, <1>6 DEF Kept, Keeps
<1>8. Kept(h, new, A)
  BY <1>7, KeptTwice
<1>9. Taken(new, C) = A
  BY <1>4, <1>5 DEF Keeps
<1>10. SameTags(h, new, {})
  BY <1>2, <1>4 DEF SameTags, Outside
<1> QED BY <1>4, <1>8, <1>9, <1>10 DEF new, C, A, Becomes

(* Heaps that are alike have the same free and the same allocated blocks.  *)
LEMMA GoodAlike ==
  ASSUME NEW h, NEW B, Good(h, B), NEW g, Alike(h, g, B, FreeOf(h, B))
  PROVE  /\ Good(g, B) /\ SameTags(h, g, B)
         /\ FreeOf(g, B) = FreeOf(h, B) /\ Taken(g, B) = Taken(h, B)
<1>1. Laid(g, B, FreeOf(h, B)) /\ SameTags(h, g, B)
  BY LaidAlike DEF Good
<1>2. FreeOf(g, B) = FreeOf(h, B) /\ Taken(g, B) = Taken(h, B)
  BY <1>1 DEF SameTags, FreeOf, Taken
<1>3. \A f \in FreeOf(h, B) : Size(g, f) = Size(h, f)
  BY <1>1 DEF SameTags, FreeOf
<1> QED BY <1>1, <1>2, <1>3 DEF Good

(* Freeing does the same in heaps that are alike.                          *)
THEOREM AlikeFree ==
  ASSUME NEW h, NEW B, Good(h, B), NEW bp \in Taken(h, B),
         NEW g, Alike(h, g, B, FreeOf(h, B))
  PROVE  Alike(mm_free(h, bp), mm_free(g, bp), FreedBlocks(h, B, bp),
               FreeOf(mm_free(h, bp), FreedBlocks(h, B, bp)))
<1> DEFINE hone == Untag(h, bp)
           gone == Untag(g, bp)
           F == FreeOf(h, B)
           s == bp
           e == bp + Size(h, bp)
           size == Size(h, bp)
<1>1. /\ Laid(h, B, F) /\ h \in Heap /\ Tiled(h, B) /\ bp \in B /\ bp \notin F
  BY DEF Good, Laid, Taken, FreeOf
<1>2. /\ e \in B \cup {h.brk} /\ s < e
      /\ Replaced(B, s, e, {s}) = B
      /\ \A b \in B \ {s} : b < s \/ b >= e
      /\ size \in Int /\ s + size = e
  BY <1>1, RowOne, TiledApart
<1>3. Size(g, bp) = size
  BY <1>1, GoodAlike DEF SameTags
<1>4. hone = Tag(h, s, size, 0) /\ gone = Tag(g, s, size, 0)
  BY <1>3 DEF Untag
<1>5. /\ mm_free(h, bp) = coalesce(hone, bp).heap
      /\ mm_free(g, bp) = coalesce(gone, bp).heap
  BY DEF mm_free, Untag, Size
<1>6. GoodBut(hone, B, bp) /\ FreeAre(hone, B, F \cup {bp})
  BY UntagGood
<1> HIDE DEF hone, gone, F, s, e, size
<1>7. Alike(hone, gone, B, F)
  <2>1. \A f \in F : f < s \/ f >= e
    BY <1>1, <1>2 DEF FreeOf, F, s
  <2>2. s \in B /\ 0 \in {0, 1} /\ Alike(h, g, B, F)
    BY <1>1 DEF s, F
  <2>3. Alike(Tag(h, s, size, 0), Tag(g, s, size, 0), Replaced(B, s, e, {s}), F)
    BY <1>1, <1>2, <2>1, <2>2, AlikeJoin
  <2> QED BY <1>2, <1>4, <2>3
<1>8. FreeOf(hone, B) \ {bp} = F
  BY <1>1, <1>6 DEF FreeAre
<1>9. Alike(coalesce(hone, bp).heap, coalesce(gone, bp).heap, Merged(hone, B, bp),
            FreeOf(coalesce(hone, bp).heap, Merged(hone, B, bp)))
  BY <1>6, <1>7, <1>8, AlikeCoalesce
<1> QED BY <1>5, <1>9 DEF FreedBlocks, hone

----------------------------------------------------------------------------
(* Growing the heap.                                                       *)

(* The break moves, the old epilogue becomes a header and there is a new   *)
(* one.                                                                    *)
Grown(h, size) ==
  PUT(Tag(mem_sbrk(h, size), h.brk, size, 0), HDRP(h.brk + size), PACK(0, 1))

(* The words that growing the heap writes.                                 *)
LEMMA GrownWrites ==
  ASSUME NEW h \in Heap, NEW size \in Int, (size % 2) = 0, size >= 4,
         (h.brk % 2) = 0, h.brk >= 4, h.brk + size <= MAX_HEAP
  PROVE  /\ Grown(h, size) \in Heap
         /\ Grown(h, size).brk = h.brk + size
         /\ Grown(h, size).free_list_start = h.free_list_start
         /\ \A k \in Words : Grown(h, size).word[k] =
              IF k = h.brk + size - 1 THEN 1
              ELSE IF k \in {h.brk - 1, h.brk + size - 2} THEN size ELSE h.word[k]
<1> DEFINE one == mem_sbrk(h, size)
           two == Tag(one, h.brk, size, 0)
           three == PUT(two, h.brk + size - 1, 1)
<1>1. h.brk \in Int /\ MAX_HEAP \in Int /\ h.brk + size \in 0 .. MAX_HEAP
  BY HeapType, MaxHeapAssumption
<1>2. /\ one \in Heap /\ one.brk = h.brk + size /\ one.word = h.word
      /\ one.free_list_start = h.free_list_start
  BY <1>1 DEF mem_sbrk, Heap
<1> HIDE DEF one
<1>3. /\ two \in Heap /\ two.brk = one.brk /\ two.free_list_start = one.free_list_start
      /\ \A k \in Words :
           two.word[k] = IF k \in {h.brk - 1, h.brk + size - 2} THEN size + 0 ELSE one.word[k]
  <2>1. h.brk \in Int /\ 0 \in {0, 1}
    BY <1>1
  <2>2. /\ two \in Heap
        /\ two.brk = one.brk
        /\ two.free_list_start = one.free_list_start
        /\ \A k \in Words :
             two.word[k] = IF k \in {h.brk - 1, h.brk + size - 2} THEN size + 0 ELSE one.word[k]
    BY <1>2, <2>1, TagWrites
  <2> QED BY <2>2
<1> HIDE DEF two
<1>4. /\ three \in Heap /\ three.brk = two.brk
      /\ three.free_list_start = two.free_list_start
      /\ \A k \in Words : three.word[k] = IF k = h.brk + size - 1 THEN 1 ELSE two.word[k]
  BY <1>3, PutWrites
<1>5. Grown(h, size) = three
  <2>1. HDRP(h.brk + size) = h.brk + size - 1 /\ PACK(0, 1) = 1
    BY <1>1 DEF HDRP, PACK
  <2> QED BY <2>1 DEF Grown, one, two
<1> HIDE DEF three
<1> QED BY <1>2, <1>3, <1>4, <1>5

(* There is one more block, which is free and not listed.                  *)
LEMMA GrownGood ==
  ASSUME NEW h, NEW B, Good(h, B), NEW size \in Int, (size % 2) = 0, size >= 4,
         h.brk + size <= MAX_HEAP
  PROVE  /\ GoodBut(Grown(h, size), B \cup {h.brk}, h.brk)
         /\ FreeAre(Grown(h, size), B \cup {h.brk}, FreeOf(h, B) \cup {h.brk})
         /\ Keeps(h, B, Grown(h, size), B \cup {h.brk})
         /\ Block(Grown(h, size), h.brk, size, 0)
         /\ Grown(h, size) \in Heap
<1> DEFINE new == Grown(h, size)
           end == h.brk
           C == B \cup {end}
           F == FreeOf(h, B)
<1>1. h \in Heap /\ Tiled(h, B) /\ F \subseteq B /\ Listed(h, F) /\ Apart(B) /\ Apart(F)
  BY TiledApart, ApartSubset DEF Good, Laid
<1>2. /\ end \in Int /\ end >= 4 /\ (end % 2) = 0 /\ end <= MAX_HEAP /\ MAX_HEAP \in Int
      /\ end \notin B /\ 1 \in Words /\ 2 \in Words
  BY <1>1, TiledApart, EndSize DEF Tiled, Fenced
<1>3. /\ new \in Heap /\ new.brk = end + size
      /\ new.free_list_start = h.free_list_start
      /\ \A k \in Words : new.word[k] =
           IF k = end + size - 1 THEN 1
           ELSE IF k \in {end - 1, end + size - 2} THEN size ELSE h.word[k]
  BY <1>1, <1>2, GrownWrites
<1> HIDE DEF new, end, F
<1>4. end - 1 \in Words /\ end + size - 2 \in Words /\ end + size - 1 \in Words
  BY <1>2 DEF Words, end
<1>5. /\ new.word[1] = 3 /\ new.word[2] = 3 /\ new.word[new.brk - 1] = 1
      /\ new.word[end - 1] = size /\ new.word[end + size - 2] = size
  BY <1>1, <1>2, <1>3, <1>4 DEF Tiled, Fenced
<1>6. Fenced(new)
  BY <1>2, <1>3, <1>5 DEF Fenced
<1>7. \A b \in B : \A k \in Span(h, b) : k \in Words /\ new.word[k] = h.word[k]
  <2> TAKE b \in B
  <2> TAKE k \in Span(h, b)
  <2>1. k \in Words /\ k \in 3 .. h.brk - 2
    BY <1>1, SpanWords
  <2>2. k < end - 1 /\ k \in Int
    BY <1>2, <2>1 DEF end
  <2> QED BY <1>2, <1>3, <2>1, <2>2
<1>8. \A b \in B : /\ b - 1 \in Span(h, b) /\ b + Size(h, b) - 2 \in Span(h, b)
                   /\ b \in Span(h, b) /\ b + 1 \in Span(h, b)
  BY <1>1, SpanWords
<1>9. \A b \in B : Size(new, b) = Size(h, b) /\ (IsFree(new, b) <=> IsFree(h, b))
  BY <1>1, <1>3, <1>7, <1>8, FreeBit
<1>10. Block(new, end, size, 0)
  <2>1. new.word[end - 1] = size + 0 /\ 0 \in {0, 1}
    BY <1>5
  <2> QED BY <1>2, <1>3, <1>4, <2>1, TagBlock
<1>11. Tiles(new, 4, new.brk, C)
  <2>1. Tiles(new, 4, end, B)
    BY <1>1, <1>7, <1>8, TilesSame DEF Tiled, end
  <2>2. Tiles(new, end, new.brk, {end})
    <3>1. Size(new, end) = new.brk - end /\ new.word[new.brk - 2] = new.word[end - 1]
      BY <1>2, <1>3, <1>5, <1>10 DEF Block
    <3>2. new.brk \in Int /\ end + 4 <= new.brk
      BY <1>2, <1>3
    <3> QED BY <1>2, <3>1, <3>2, TilesOne
  <2>3. 4 \in Int /\ new.brk \in Int /\ 1 <= 4 /\ 4 <= end /\ end <= new.brk /\ new.brk <= new.brk
    BY <1>2, <1>3
  <2> QED BY <1>2, <1>3, <2>1, <2>2, <2>3, TilesJoin
<1>12. Listed(new, F)
  BY <1>1, <1>3, <1>7, <1>8, ListedElsewhere
<1>13. IsFree(new, end) /\ Size(new, end) = size
  BY <1>10 DEF Block
<1>14. FreeOf(new, C) = F \cup {end} /\ Taken(new, C) = Taken(h, B)
  BY <1>2, <1>9, <1>13 DEF FreeOf, Taken, F
<1>15. Laid(new, C, F)
  <2>1. F \subseteq C /\ \A f \in F : IsFree(new, f)
    BY <1>1, <1>14 DEF FreeOf
  <2> QED BY <1>3, <1>6, <1>11, <1>12, <2>1 DEF Laid, Tiled
<1>16. GoodBut(new, C, end)
  <2>1. \A f \in F : f + Size(new, f) \in F \cup {end} => f + Size(new, f) = end
    BY <1>1, <1>9 DEF Good, F
  <2>2. end \in C /\ end \notin F
    BY <1>1, <1>2
  <2> QED BY <1>14, <1>15, <2>1, <2>2, GoodButOne
<1>17. Keeps(h, B, new, C)
  BY <1>7, <1>9, <1>14 DEF Keeps, Kept, Stays, Taken
<1> QED BY <1>3, <1>10, <1>14, <1>16, <1>17 DEF FreeAre, new, end, F

(* The same block is there in heaps that are alike.                        *)
LEMMA AlikeGrown ==
  ASSUME NEW h, NEW B, Good(h, B), NEW size \in Int, (size % 2) = 0, size >= 4,
         h.brk + size <= MAX_HEAP, NEW g, Alike(h, g, B, FreeOf(h, B))
  PROVE  Alike(Grown(h, size), Grown(g, size), B \cup {h.brk}, FreeOf(h, B))
<1> DEFINE new == Grown(h, size)
           gnew == Grown(g, size)
           end == h.brk
           F == FreeOf(h, B)
<1>1. /\ h \in Heap /\ Tiled(h, B) /\ g \in Heap /\ g.brk = end
      /\ g.free_list_start = h.free_list_start /\ F \subseteq B
  BY DEF Good, Laid, Alike
<1>2. /\ end \in Int /\ end >= 4 /\ (end % 2) = 0 /\ end <= MAX_HEAP /\ MAX_HEAP \in Int
      /\ end \notin B /\ 1 \in Words /\ 2 \in Words
  BY <1>1, TiledApart, EndSize DEF Tiled, Fenced
<1>3. /\ new \in Heap /\ new.brk = end + size
      /\ new.free_list_start = h.free_list_start
      /\ \A k \in Words : new.word[k] =
           IF k = end + size - 1 THEN 1
           ELSE IF k \in {end - 1, end + size - 2} THEN size ELSE h.word[k]
  BY <1>1, <1>2, GrownWrites
<1>4. /\ gnew \in Heap /\ gnew.brk = end + size
      /\ gnew.free_list_start = g.free_list_start
      /\ \A k \in Words : gnew.word[k] =
           IF k = end + size - 1 THEN 1
           ELSE IF k \in {end - 1, end + size - 2} THEN size ELSE g.word[k]
  <2>1. g.brk + size <= MAX_HEAP /\ (g.brk % 2) = 0 /\ g.brk >= 4
    BY <1>1, <1>2
  <2> QED BY <1>1, <2>1, GrownWrites
<1>5. /\ Keeps(h, B, new, B \cup {end})
      /\ Block(new, end, size, 0)
      /\ GoodBut(new, B \cup {end}, end)
      /\ FreeAre(new, B \cup {end}, F \cup {end})
      /\ new \in Heap
  BY GrownGood
<1>6. \A b \in B : /\ b - 1 \in Words /\ b + Size(h, b) - 2 \in Words
                   /\ b \in Words /\ b + 1 \in Words
                   /\ b \in Int /\ Size(h, b) \in Int
                   /\ 4 <= b /\ Size(h, b) >= 4 /\ b + Size(h, b) <= end
  BY <1>1, TiledApart
<1> HIDE DEF new, gnew, end, F
<1>7. end - 1 \in Words /\ end + size - 2 \in Words /\ end + size - 1 \in Words
  BY <1>2 DEF Words, end
<1>8. \A k \in Words : g.word[k] = h.word[k] => gnew.word[k] = new.word[k]
  BY <1>3, <1>4
<1>9. \A b \in B : Size(new, b) = Size(h, b)
  <2> TAKE b \in B
  <2>1. new.word[b - 1] = h.word[b - 1]
    BY <1>2, <1>3, <1>6
  <2> QED BY <2>1 DEF Size, GET_SIZE, HDRP
<1>10. \A b \in B \cup {end} :
         /\ gnew.word[b - 1] = new.word[b - 1]
         /\ gnew.word[b + Size(new, b) - 2] = new.word[b + Size(new, b) - 2]
  <2> TAKE b \in B \cup {end}
  <2>1. CASE b \in B
    BY <1>6, <1>8, <1>9, <2>1 DEF Alike
  <2>2. CASE b = end
    BY <1>3, <1>4, <1>5, <1>7, <2>2 DEF Block
  <2> QED BY <2>1, <2>2
<1>11. \A f \in F : gnew.word[f] = new.word[f] /\ gnew.word[f + 1] = new.word[f + 1]
  BY <1>1, <1>6, <1>8 DEF Alike, F
<1>12. \A k \in {1, 2, new.brk - 1} : gnew.word[k] = new.word[k]
  BY <1>2, <1>3, <1>4, <1>7, <1>8 DEF Alike
<1> QED BY <1>1, <1>3, <1>4, <1>10, <1>11, <1>12 DEF Alike, new, gnew, end, F

(* The blocks of a heap that has grown.                                    *)
GrownBlocks(h, B, size) == Merged(Grown(h, size), B \cup {h.brk}, h.brk)

(* extend_heap leaves a free block at least as large as was asked for.     *)
LEMMA ExtendGood ==
  ASSUME NEW h, NEW B, Good(h, B), NEW size \in Int, (size % 2) = 0, size >= 4,
         h.brk + size <= MAX_HEAP
  PROVE  /\ Becomes(h, extend_heap(h, size).heap, GrownBlocks(h, B, size),
                    Taken(h, B), Taken(h, B))
         /\ Covers(extend_heap(h, size).heap, GrownBlocks(h, B, size),
                   extend_heap(h, size).ptr, h.brk, h.brk + size)
         /\ extend_heap(h, size).heap.brk = h.brk + size
<1> DEFINE one == Grown(h, size)
           r == coalesce(one, h.brk)
           C == GrownBlocks(h, B, size)
<1>1. extend_heap(h, size) = r
  BY DEF extend_heap, ALIGN, Grown
<1>2. /\ GoodBut(one, B \cup {h.brk}, h.brk)
      /\ FreeAre(one, B \cup {h.brk}, FreeOf(h, B) \cup {h.brk})
      /\ Keeps(h, B, one, B \cup {h.brk})
      /\ Block(one, h.brk, size, 0)
      /\ one \in Heap
  BY GrownGood
<1>3. one.brk = h.brk + size
  <2>1. h \in Heap /\ Tiled(h, B) /\ (h.brk % 2) = 0 /\ h.brk >= 4
    BY DEF Good, Laid, Tiled, Fenced
  <2> QED BY <2>1, GrownWrites
<1> HIDE DEF one, r, C
<1>4. /\ Good(r.heap, C)
      /\ Keeps(one, B \cup {h.brk}, r.heap, C)
      /\ Covers(r.heap, C, r.ptr, h.brk, h.brk + Size(one, h.brk))
      /\ SameTags(one, r.heap, {})
      /\ FreeAre(r.heap, C, RestList(one, B \cup {h.brk}, h.brk) \cup {Start(one, h.brk)})
  BY <1>2, Coalesce DEF GrownBlocks, r, C, one
<1>5. Taken(r.heap, C) = Taken(h, B)
  BY <1>2, <1>4 DEF Keeps
<1>6. Kept(h, r.heap, Taken(h, B))
  <2>1. Kept(h, one, Taken(h, B)) /\ Kept(one, r.heap, Taken(h, B))
    BY <1>2, <1>4 DEF Keeps
  <2> QED BY <2>1, KeptTwice
<1>7. Covers(r.heap, C, r.ptr, h.brk, h.brk + size)
  BY <1>2, <1>4 DEF Block
<1>8. r.heap.brk = h.brk + size
  BY <1>3, <1>4 DEF SameTags
<1> QED BY <1>1, <1>4, <1>5, <1>6, <1>7, <1>8 DEF Becomes, C

(* It does the same in heaps that are alike.                               *)
LEMMA AlikeExtend ==
  ASSUME NEW h, NEW B, Good(h, B), NEW size \in Int, (size % 2) = 0, size >= 4,
         h.brk + size <= MAX_HEAP, NEW g, Alike(h, g, B, FreeOf(h, B))
  PROVE  /\ Alike(extend_heap(h, size).heap, extend_heap(g, size).heap,
                  GrownBlocks(h, B, size),
                  FreeOf(extend_heap(h, size).heap, GrownBlocks(h, B, size)))
         /\ extend_heap(g, size).ptr = extend_heap(h, size).ptr
<1> DEFINE one == Grown(h, size)
           gone == Grown(g, size)
           F == FreeOf(h, B)
           C == B \cup {h.brk}
<1>1. g.brk = h.brk
  BY DEF Alike
<1>2. /\ extend_heap(h, size) = coalesce(one, h.brk)
      /\ extend_heap(g, size) = coalesce(gone, h.brk)
  BY <1>1 DEF extend_heap, ALIGN, Grown
<1>3. Alike(one, gone, C, F)
  BY AlikeGrown
<1>4. GoodBut(one, C, h.brk) /\ FreeAre(one, C, F \cup {h.brk})
  BY GrownGood
<1>5. h.brk \notin F
  BY EndSize DEF Good, Laid, FreeOf
<1> HIDE DEF one, gone, F, C
<1>6. FreeOf(one, C) \ {h.brk} = F
  BY <1>4, <1>5 DEF FreeAre
<1>7. /\ Alike(coalesce(one, h.brk).heap, coalesce(gone, h.brk).heap, Merged(one, C, h.brk),
               FreeOf(coalesce(one, h.brk).heap, Merged(one, C, h.brk)))
      /\ coalesce(gone, h.brk).ptr = coalesce(one, h.brk).ptr
  BY <1>3, <1>4, <1>6, AlikeCoalesce
<1> QED BY <1>2, <1>7 DEF GrownBlocks, one, C

(* The empty heap of mm_init: the prologue and the epilogue.               *)
Blank(h) ==
  PUT(Tag(PUT([mem_sbrk(mem_reset_brk(h), 4) EXCEPT !.free_list_start = NULL], 0, 0), 2, 2, 1),
      3, PACK(0, 1))

(* The empty heap is consistent, and its words are fixed.                  *)
LEMMA BlankGood ==
  ASSUME NEW h \in Heap
  PROVE  /\ Good(Blank(h), {}) /\ Blank(h) \in Heap /\ Blank(h).brk = 4
         /\ Blank(h).free_list_start = NULL
         /\ \A k \in {1, 2, 3} : Blank(h).word[k] = IF k = 3 THEN 1 ELSE 3
         /\ Taken(Blank(h), {}) = {} /\ FreeOf(Blank(h), {}) = {}
<1> DEFINE one == [mem_sbrk(mem_reset_brk(h), 4) EXCEPT !.free_list_start = NULL]
           two == PUT(one, 0, 0)
           three == Tag(two, 2, 2, 1)
           new == PUT(three, 3, PACK(0, 1))
<1>1. MAX_HEAP \in Int /\ MAX_HEAP >= 8 /\ {1, 2, 3} \subseteq Words /\ PACK(0, 1) = 1
  BY ChunkAssumption, MaxHeapAssumption DEF Words, PACK
<1>2. one \in Heap /\ one.brk = 4 /\ one.free_list_start = NULL
  <2>1. NULL \in Int /\ 4 \in 0 .. MAX_HEAP
    BY <1>1 DEF NULL
  <2>2. mem_reset_brk(h) \in Heap /\ mem_reset_brk(h).brk = 0
    <3>1. 0 \in 0 .. MAX_HEAP
      BY <1>1
    <3> QED BY <3>1 DEF mem_reset_brk, Heap
  <2>3. /\ mem_sbrk(mem_reset_brk(h), 4) \in Heap
        /\ mem_sbrk(mem_reset_brk(h), 4).brk = 4
    BY <2>1, <2>2 DEF mem_sbrk, Heap
  <2> QED BY <2>1, <2>3 DEF one, Heap
<1> HIDE DEF one
<1>3. two \in Heap /\ two.brk = 4 /\ two.free_list_start = NULL
  BY <1>2, PutWrites
<1> HIDE DEF two
<1>4. /\ three \in Heap /\ three.brk = 4 /\ three.free_list_start = NULL
      /\ \A k \in Words : three.word[k] = IF k \in {1, 2} THEN 3 ELSE two.word[k]
  <2>1. /\ three \in Heap /\ three.brk = two.brk
        /\ three.free_list_start = two.free_list_start
        /\ \A k \in Words :
             three.word[k] = IF k \in {2 - 1, 2 + 2 - 2} THEN 2 + 1 ELSE two.word[k]
    <3>1. 2 \in Int /\ 1 \in {0, 1}
      OBVIOUS
    <3> QED BY <1>3, <3>1, TagWrites
  <2>2. 2 - 1 = 1 /\ 2 + 2 - 2 = 2 /\ 2 + 1 = 3
    OBVIOUS
  <2> QED BY <1>3, <2>1, <2>2
<1> HIDE DEF three
<1>5. /\ new \in Heap /\ new.brk = 4 /\ new.free_list_start = NULL
      /\ \A k \in Words : new.word[k] = IF k = 3 THEN 1 ELSE three.word[k]
  BY <1>1, <1>4, PutWrites
<1>6. \A k \in {1, 2, 3} : new.word[k] = IF k = 3 THEN 1 ELSE 3
  BY <1>1, <1>4, <1>5
<1>7. Blank(h) = new
  BY DEF Blank, one, two, three
<1> HIDE DEF new
<1>8. FreeOf(new, {}) = {} /\ Taken(new, {}) = {}
  BY DEF FreeOf, Taken
<1>9. Tiled(new, {})
  <2>1. Fenced(new)
    BY <1>5, <1>6 DEF Fenced
  <2>2. Tiles(new, 4, 4, {})
    BY DEF Tiles
  <2> QED BY <1>5, <2>1, <2>2 DEF Tiled
<1>10. Listed(new, {})
  BY <1>5 DEF Listed, Linked
<1>11. Good(new, {})
  BY <1>5, <1>8, <1>9, <1>10 DEF Good, Laid
<1> QED BY <1>5, <1>6, <1>7, <1>8, <1>11

(* The empty heap is the same whatever the memory held before.             *)
LEMMA AlikeBlank ==
  ASSUME NEW h \in Heap, NEW g \in Heap
  PROVE  Alike(Blank(h), Blank(g), {}, FreeOf(Blank(h), {}))
<1>1. /\ Blank(g) \in Heap /\ Blank(g).brk = Blank(h).brk /\ Blank(h).brk - 1 = 3
      /\ Blank(g).free_list_start = Blank(h).free_list_start
      /\ FreeOf(Blank(h), {}) = {}
  BY BlankGood
<1>2. \A k \in {1, 2, 3} : Blank(g).word[k] = Blank(h).word[k]
  BY BlankGood
<1> QED BY <1>1, <1>2 DEF Alike

(* The blocks when mm_init has returned.                                   *)
InitBlocks(h) == GrownBlocks(Blank(h), {}, CHUNKSIZE)

(* mm_init makes a consistent heap, with nothing allocated, of any memory. *)
THEOREM InitGood ==
  ASSUME NEW h \in Heap
  PROVE  /\ Good(mm_init(h), InitBlocks(h)) /\ Taken(mm_init(h), InitBlocks(h)) = {}
         /\ mm_init(h).brk = 4 + CHUNKSIZE
<1>1. mm_init(h) = extend_heap(Blank(h), CHUNKSIZE).heap
  BY DEF mm_init, Blank
<1>2. /\ CHUNKSIZE \in Int /\ (CHUNKSIZE % 2) = 0 /\ CHUNKSIZE >= 4
      /\ 4 + CHUNKSIZE <= MAX_HEAP
  BY ChunkAssumption, MaxHeapAssumption
<1>3. Good(Blank(h), {}) /\ Blank(h).brk = 4 /\ Taken(Blank(h), {}) = {}
  BY BlankGood
<1>4. /\ Becomes(Blank(h), extend_heap(Blank(h), CHUNKSIZE).heap,
                 GrownBlocks(Blank(h), {}, CHUNKSIZE),
                 Taken(Blank(h), {}), Taken(Blank(h), {}))
      /\ Covers(extend_heap(Blank(h), CHUNKSIZE).heap, GrownBlocks(Blank(h), {}, CHUNKSIZE),
                extend_heap(Blank(h), CHUNKSIZE).ptr, Blank(h).brk, Blank(h).brk + CHUNKSIZE)
      /\ extend_heap(Blank(h), CHUNKSIZE).heap.brk = Blank(h).brk + CHUNKSIZE
  BY <1>2, <1>3, ExtendGood
<1> QED BY <1>1, <1>3, <1>4 DEF InitBlocks, Becomes

(* Whatever was in the memory before.                                      *)
LEMMA AlikeInit ==
  ASSUME NEW h \in Heap, NEW g \in Heap
  PROVE  Alike(mm_init(h), mm_init(g), InitBlocks(h), FreeOf(mm_init(h), InitBlocks(h)))
<1>1. /\ mm_init(h) = extend_heap(Blank(h), CHUNKSIZE).heap
      /\ mm_init(g) = extend_heap(Blank(g), CHUNKSIZE).heap
  BY DEF mm_init, Blank
<1>2. /\ CHUNKSIZE \in Int /\ (CHUNKSIZE % 2) = 0 /\ CHUNKSIZE >= 4
      /\ 4 + CHUNKSIZE <= MAX_HEAP
  BY ChunkAssumption, MaxHeapAssumption
<1>3. /\ Good(Blank(h), {}) /\ Blank(h).brk = 4
      /\ Alike(Blank(h), Blank(g), {}, FreeOf(Blank(h), {}))
  BY BlankGood, AlikeBlank
<1> QED BY <1>1, <1>2, <1>3, AlikeExtend DEF InitBlocks

----------------------------------------------------------------------------
(* Finding a fit.                                                          *)

(* find_fit's loop stops at NULL or at a block that is large enough.       *)
Fits(h, x, asize) == x = NULL \/ Size(h, x) >= asize

(* What find_fit's loop makes of each pointer.                             *)
Searched(h, asize, from) ==
  from = [iter \in Words |->
            IF Fits(h, iter, asize) THEN iter
            ELSE IF SUCC_BLKP(h, iter) \in Words THEN from[SUCC_BLKP(h, iter)] ELSE NULL]

(* The function that find_fit defines.                                     *)
Search(h, asize) == CHOOSE from : Searched(h, asize, from)

(* find_fit starts its loop at the head of the list.                       *)
LEMMA FindFitIs ==
  ASSUME NEW h, NEW asize
  PROVE  find_fit(h, asize) = Search(h, asize)[h.free_list_start]
BY DEF find_fit, Search, Searched, Fits, Size

(* Sets of pointers that the loop does not leave.                          *)
Closed(h, asize, S) ==
  \A y \in S : ~ Fits(h, y, asize) /\ SUCC_BLKP(h, y) \in Words => SUCC_BLKP(h, y) \in S

(* The pointers that the loop reaches from x, and those where it stops.    *)
Reached(h, asize, x) ==
  {y \in Words : \A S \in SUBSET Words : x \in S /\ Closed(h, asize, S) => y \in S}

Stops(h, asize, x) == {y \in Reached(h, asize, x) : Fits(h, y, asize)}

(* Where the loop that starts at x ends.                                   *)
Found(h, asize, x) ==
  IF Stops(h, asize, x) = {} THEN NULL ELSE CHOOSE y \in Stops(h, asize, x) : TRUE

(* There is a function as find_fit defines it.                             *)
LEMMA SearchExists ==
  ASSUME NEW h \in Heap, NEW asize
  PROVE  Searched(h, asize, [x \in Words |-> Found(h, asize, x)])
<1>1. ASSUME NEW x \in Words, Fits(h, x, asize)
      PROVE  Found(h, asize, x) = x
  <2>1. Closed(h, asize, {x}) /\ {x} \in SUBSET Words
    BY <1>1 DEF Closed
  <2>2. Reached(h, asize, x) = {x}
    BY <2>1 DEF Reached
  <2>3. Stops(h, asize, x) = {x}
    BY <1>1, <2>2 DEF Stops
  <2> QED BY <2>3 DEF Found
<1>2. ASSUME NEW x \in Words, ~ Fits(h, x, asize), SUCC_BLKP(h, x) \notin Words
      PROVE  Found(h, asize, x) = NULL
  <2>1. Closed(h, asize, {x}) /\ {x} \in SUBSET Words
    BY <1>2 DEF Closed
  <2>2. Reached(h, asize, x) = {x}
    BY <2>1 DEF Reached
  <2>3. Stops(h, asize, x) = {}
    BY <1>2, <2>2 DEF Stops
  <2> QED BY <2>3 DEF Found
<1>3. ASSUME NEW x \in Words, ~ Fits(h, x, asize), SUCC_BLKP(h, x) \in Words
      PROVE  Found(h, asize, x) = Found(h, asize, SUCC_BLKP(h, x))
  <2> DEFINE next == SUCC_BLKP(h, x)
  <2>1. ASSUME NEW y \in Reached(h, asize, next)
        PROVE  y \in Reached(h, asize, x)
    <3>1. \A S \in SUBSET Words : x \in S /\ Closed(h, asize, S) => next \in S
      BY <1>3 DEF Closed
    <3> HIDE DEF next
    <3> QED BY <2>1, <3>1 DEF Reached
  <2>2. ASSUME NEW y \in Reached(h, asize, x), y # x
        PROVE  y \in Reached(h, asize, next)
    <3>1. ASSUME NEW S \in SUBSET Words, next \in S, Closed(h, asize, S)
          PROVE  y \in S
      <4>1. Closed(h, asize, S \cup {x}) /\ S \cup {x} \in SUBSET Words
        BY <1>3, <3>1 DEF Closed
      <4>2. y \in S \cup {x}
        BY <2>2, <4>1 DEF Reached
      <4> QED BY <2>2, <4>2
    <3> HIDE DEF next
    <3> QED BY <2>2, <3>1 DEF Reached
  <2> HIDE DEF next
  <2>3. Stops(h, asize, x) = Stops(h, asize, next)
    BY <1>3, <2>1, <2>2 DEF Stops
  <2> QED BY <2>3 DEF Found, next
<1> QED BY <1>1, <1>2, <1>3 DEF Searched

(* So each pointer leads to the same as the one after it.                  *)
LEMMA SearchSteps ==
  ASSUME NEW h \in Heap, NEW asize
  PROVE  \A x \in Words :
           Search(h, asize)[x] = IF Fits(h, x, asize) THEN x
                                 ELSE IF SUCC_BLKP(h, x) \in Words
                                 THEN Search(h, asize)[SUCC_BLKP(h, x)] ELSE NULL
<1>1. Searched(h, asize, Search(h, asize))
  BY SearchExists DEF Search
<1> HIDE DEF Search
<1> QED BY <1>1 DEF Searched

(* find_fit returns a free block that is large enough, and NULL only if    *)
(* there is none.                                                          *)
THEOREM FindFit ==
  ASSUME NEW h, NEW B, NEW F, Laid(h, B, F), NEW asize \in Int
  PROVE  \/ find_fit(h, asize) \in F /\ Size(h, find_fit(h, asize)) >= asize
         \/ find_fit(h, asize) = NULL /\ \A f \in F : ~ (Size(h, f) >= asize)
<1> DEFINE from == Search(h, asize)
           start == h.free_list_start
           v == from[start]
           S == {f \in F : from[f] = v}
<1>1. /\ h \in Heap /\ Tiled(h, B) /\ F \subseteq B /\ Listed(h, F) /\ Linked(h, F)
  BY DEF Laid, Listed
<1>2. NULL \in Words /\ NULL \notin F /\ start \in F \cup {NULL} /\ F \subseteq Words
  <2>1. Apart(B) /\ 1 \in Words
    BY <1>1, TiledApart
  <2>2. NULL \in Words
    BY <2>1, MaxHeapAssumption DEF NULL, Words
  <2> QED BY <1>1, <2>1, <2>2 DEF Apart, Linked
<1>3. \A x \in Words : from[x] = IF Fits(h, x, asize) THEN x
                                 ELSE IF SUCC_BLKP(h, x) \in Words
                                 THEN from[SUCC_BLKP(h, x)] ELSE NULL
  BY <1>1, SearchSteps
<1> HIDE DEF from
<1>4. from[NULL] = NULL
  BY <1>2, <1>3 DEF Fits
<1>5. \A f \in F : f \in Words /\ f # NULL /\ SUCC_BLKP(h, f) \in F \cup {NULL}
                   /\ SUCC_BLKP(h, f) \in Words
  BY <1>1, <1>2 DEF Linked
<1>6. \A f \in F : from[f] = IF Size(h, f) >= asize THEN f ELSE from[SUCC_BLKP(h, f)]
  BY <1>3, <1>5 DEF Fits
<1>7. CASE \E f \in S : Size(h, f) >= asize
  BY <1>6, <1>7, FindFitIs DEF from
<1>8. CASE ~ \E f \in S : Size(h, f) >= asize
  <2>1. CASE start = NULL
    <3>1. Passed(h, {})
      BY <2>1 DEF Passed
    <3>2. F = {}
      BY <1>1, <3>1 DEF Listed
    <3> QED BY <1>4, <2>1, <3>2, FindFitIs DEF from
  <2>2. CASE start # NULL
    <3>1. start \in S
      BY <1>2, <2>2
    <3>2. \A f \in S : SUCC_BLKP(h, f) \in S \cup {NULL}
      BY <1>5, <1>6, <1>8
    <3>3. S = F
      BY <1>1, <3>1, <3>2 DEF Listed, Passed
    <3>4. PICK last \in F : SUCC_BLKP(h, last) = NULL
      BY <1>1, <3>1 DEF Linked
    <3>5. v = NULL
      BY <1>4, <1>6, <1>8, <3>3, <3>4
    <3> QED BY <1>8, <3>3, <3>5, FindFitIs DEF from
  <2> QED BY <2>1, <2>2
<1> QED BY <1>7, <1>8

(* It is the same in heaps that are alike.                                 *)
LEMMA AlikeFit ==
  ASSUME NEW h, NEW B, NEW F, Laid(h, B, F), NEW asize \in Int,
         NEW g, Alike(h, g, B, F)
  PROVE  find_fit(g, asize) = find_fit(h, asize)
<1> DEFINE hf == Search(h, asize)
           gf == Search(g, asize)
           start == h.free_list_start
           S == {f \in F : hf[f] = hf[start] /\ gf[f] = gf[start]}
<1>1. /\ h \in Heap /\ Tiled(h, B) /\ F \subseteq B /\ Listed(h, F) /\ Linked(h, F)
      /\ Laid(g, B, F) /\ SameTags(h, g, B) /\ g \in Heap
      /\ g.free_list_start = start
  BY LaidAlike DEF Laid, Listed, Alike
<1>2. NULL \in Words /\ NULL \notin F /\ start \in F \cup {NULL} /\ F \subseteq Words
  <2>1. Apart(B) /\ 1 \in Words
    BY <1>1, TiledApart
  <2>2. NULL \in Words
    BY <2>1, MaxHeapAssumption DEF NULL, Words
  <2> QED BY <1>1, <2>1, <2>2 DEF Apart, Linked
<1>3. \A x \in Words :
        /\ hf[x] = IF Fits(h, x, asize) THEN x
                   ELSE IF SUCC_BLKP(h, x) \in Words THEN hf[SUCC_BLKP(h, x)] ELSE NULL
        /\ gf[x] = IF Fits(g, x, asize) THEN x
                   ELSE IF SUCC_BLKP(g, x) \in Words THEN gf[SUCC_BLKP(g, x)] ELSE NULL
  BY <1>1, SearchSteps
<1> HIDE DEF hf, gf
<1>4. \A f \in F : /\ f \in Words /\ f # NULL /\ SUCC_BLKP(h, f) \in F \cup {NULL}
                   /\ SUCC_BLKP(h, f) \in Words
                   /\ SUCC_BLKP(g, f) = SUCC_BLKP(h, f) /\ Size(g, f) = Size(h, f)
  BY <1>1, <1>2 DEF Linked, Alike, SUCC_BLKP, SameTags
<1>5. \A f \in F :
        /\ hf[f] = IF Size(h, f) >= asize THEN f ELSE hf[SUCC_BLKP(h, f)]
        /\ gf[f] = IF Size(h, f) >= asize THEN f ELSE gf[SUCC_BLKP(h, f)]
  BY <1>3, <1>4 DEF Fits
<1>6. hf[NULL] = NULL /\ gf[NULL] = NULL
  BY <1>2, <1>3 DEF Fits
<1>7. hf[start] = gf[start]
  <2>1. CASE \E f \in S : Size(h, f) >= asize
    BY <1>5, <2>1
  <2>2. CASE start = NULL
    BY <1>6, <2>2
  <2>3. CASE start # NULL /\ ~ \E f \in S : Size(h, f) >= asize
    <3>1. start \in S
      BY <1>2, <2>3
    <3>2. \A f \in S : SUCC_BLKP(h, f) \in S \cup {NULL}
      BY <1>4, <1>5, <2>3
    <3>3. S = F
      BY <1>1, <3>1, <3>2 DEF Listed, Passed
    <3>4. PICK last \in F : SUCC_BLKP(h, last) = NULL
      BY <1>1, <3>1 DEF Linked
    <3> QED BY <1>5, <1>6, <2>3, <3>3, <3>4
  <2> QED BY <2>1, <2>2, <2>3
<1> QED BY <1>1, <1>7, FindFitIs DEF hf, gf

----------------------------------------------------------------------------
(* Allocating.                                                             *)

(* The words of a payload are what they were.                              *)
Holds(h, g, b) == \A k \in b .. b + Size(h, b) - 3 : g.word[k] = h.word[k]

(* Up to two free blocks leave the list, and the row from s up to e is an  *)
(* allocated block.                                                        *)
Unlisted(h, c1, x1, c2, x2) == RemoveIf(c2, RemoveIf(c1, h, x1), x2)

(* The row becomes one allocated block.                                    *)
Joined(h, c1, x1, c2, x2, s, e) == Tag(Unlisted(h, c1, x1, c2, x2), s, e - s, 1)

(* The free blocks of the row are these two.                               *)
FreeInRow(h, B, c1, x1, c2, x2, s, e) ==
  /\ s \in B /\ e \in B \cup {h.brk} /\ s < e
  /\ c1 \in BOOLEAN /\ c2 \in BOOLEAN
  /\ c1 => x1 \in FreeOf(h, B) /\ s <= x1 /\ x1 < e
  /\ c2 => x2 \in FreeOf(h, B) /\ s <= x2 /\ x2 < e
  /\ c1 /\ c2 => x1 # x2
  /\ \A f \in FreeOf(h, B) : \/ f < s \/ f >= e
                             \/ c1 /\ f = x1
                             \/ c2 /\ f = x2

(* The set without x if the condition holds.                               *)
Without(F, c, x) == F \ (IF c THEN {x} ELSE {})

(* The list that is left links the other free blocks, and no allocated     *)
(* block is touched.                                                       *)
LEMMA JoinList ==
  ASSUME NEW h, NEW B, Good(h, B), NEW c1, NEW x1, NEW c2, NEW x2, NEW s, NEW e,
         FreeInRow(h, B, c1, x1, c2, x2, s, e)
  PROVE  /\ Laid(Unlisted(h, c1, x1, c2, x2), B, Without(Without(FreeOf(h, B), c1, x1), c2, x2))
         /\ SameTags(h, Unlisted(h, c1, x1, c2, x2), B)
         /\ \A b \in Taken(h, B) : Stays(h, Unlisted(h, c1, x1, c2, x2), b)
         /\ \A f \in Without(Without(FreeOf(h, B), c1, x1), c2, x2) : f < s \/ f >= e
         /\ \A f \in FreeOf(h, B) : f < s \/ f >= e =>
              f \in Without(Without(FreeOf(h, B), c1, x1), c2, x2)
<1> DEFINE F == FreeOf(h, B)
           F1 == F \ (IF c1 THEN {x1} ELSE {})
           F2 == F1 \ (IF c2 THEN {x2} ELSE {})
           one == RemoveIf(c1, h, x1)
           two == RemoveIf(c2, one, x2)
<1>1. /\ Laid(h, B, F) /\ h \in Heap /\ Tiled(h, B)
      /\ c1 \in BOOLEAN /\ c2 \in BOOLEAN
      /\ c1 => x1 \in F
      /\ c2 => x2 \in F1
  BY DEF Good, Laid, FreeInRow
<1>2. \A b \in B : b \in Int
  BY <1>1, TiledApart
<1>3. s \in Int /\ e \in Int
  BY <1>1, <1>2, TiledApart DEF FreeInRow
<1>4. \A f \in F : f \in B
  BY DEF FreeOf
<1> HIDE DEF F
<1>5. /\ Laid(one, B, F1) /\ SameTags(h, one, B)
      /\ \A b \in B \ F : Stays(h, one, b)
  BY <1>1, LaidRemoveIf
<1> HIDE DEF one, F1
<1>6. /\ Laid(two, B, F2) /\ SameTags(one, two, B)
      /\ \A b \in B \ F1 : Stays(one, two, b)
  BY <1>1, <1>5, LaidRemoveIf
<1> HIDE DEF two
<1>7. SameTags(h, two, B)
  BY <1>5, <1>6, SameTagsTwice
<1>8. ASSUME NEW b \in Taken(h, B)
      PROVE  Stays(h, two, b)
  <2>1. b \in B /\ b \notin F /\ b \notin F1
    BY DEF Taken, FreeOf, F, F1
  <2>2. Stays(h, one, b) /\ Stays(one, two, b)
    BY <1>5, <1>6, <2>1
  <2>3. Size(one, b) = Size(h, b)
    BY <1>5, <2>1 DEF SameTags
  <2> QED BY <2>2, <2>3, StaysTwice
<1>9. \A f \in F2 : f < s \/ f >= e
  BY DEF F, F1, FreeInRow
<1>10. \A f \in F : f < s \/ f >= e => f \in F2
  <2>1. \A f \in F : f < s \/ f >= e => ~ (c1 /\ f = x1) /\ ~ (c2 /\ f = x2)
    <3>1. /\ c1 => x1 \in F /\ s <= x1 /\ x1 < e
          /\ c2 => x2 \in F /\ s <= x2 /\ x2 < e
      BY DEF F, FreeInRow
    <3>2. \A f \in F : f \in Int
      BY <1>2, <1>4
    <3> QED BY <1>3, <3>1, <3>2
  <2> QED BY <2>1 DEF F1
<1>11. /\ two = Unlisted(h, c1, x1, c2, x2)
       /\ F2 = Without(Without(F, c1, x1), c2, x2)
  BY DEF two, one, Unlisted, Without, F1
<1> HIDE DEF F2
<1> QED BY <1>6, <1>7, <1>8, <1>9, <1>10, <1>11 DEF F

(* The row is allocated in new, and the payloads in it are where they were.*)
Joins(h, B, c1, x1, c2, x2, s, e, new) ==
  /\ Becomes(h, new, Replaced(B, s, e, {s}),
             (Taken(h, B) \ (s .. e - 1)) \cup {s}, Taken(h, B) \ (s .. e - 1))
  /\ Block(new, s, e - s, 1)
  /\ \A b \in Taken(h, B) : Holds(h, new, b)
  /\ SameTags(h, new, {})
  /\ FreeAre(new, Replaced(B, s, e, {s}), Without(Without(FreeOf(h, B), c1, x1), c2, x2))

(* That is what becomes of it.                                             *)
LEMMA JoinGood ==
  ASSUME NEW h, NEW B, Good(h, B), NEW c1, NEW x1, NEW c2, NEW x2, NEW s, NEW e,
         FreeInRow(h, B, c1, x1, c2, x2, s, e)
  PROVE  Joins(h, B, c1, x1, c2, x2, s, e, Joined(h, c1, x1, c2, x2, s, e))
<1> DEFINE two == Unlisted(h, c1, x1, c2, x2)
           F == Without(Without(FreeOf(h, B), c1, x1), c2, x2)
           new == Tag(two, s, e - s, 1)
           C == Replaced(B, s, e, {s})
           A == Taken(h, B) \ (s .. e - 1)
<1>1. /\ h \in Heap /\ Tiled(h, B) /\ s \in B /\ e \in B \cup {h.brk} /\ s < e
  BY DEF Good, Laid, FreeInRow
<1>2. /\ \A b \in B : b \in Int /\ Size(h, b) \in Int /\ Size(h, b) >= 4
      /\ s \in Int /\ e \in Int
  BY <1>1, TiledApart
<1>3. /\ Laid(two, B, F) /\ SameTags(h, two, B)
      /\ \A b \in Taken(h, B) : Stays(h, two, b)
      /\ \A f \in F : f < s \/ f >= e
      /\ \A f \in FreeOf(h, B) : f < s \/ f >= e => f \in F
  BY JoinList
<1>4. F \subseteq FreeOf(h, B)
  BY DEF Without
<1> HIDE DEF two, F
<1>5. /\ Laid(new, Replaced(B, s, e, {s}), F)
      /\ Block(new, s, e - s, 1)
      /\ Writes(two, new, {s - 1, e - 2})
      /\ Outside(two, new, B, s, e)
  <2>1. /\ e \in B \cup {two.brk} /\ 1 \in {0, 1} /\ e - s \in Int /\ s + (e - s) = e
        /\ s \in B /\ s < e
    BY <1>1, <1>2, <1>3 DEF SameTags
  <2> QED BY <1>3, <2>1, LaidJoin
<1> HIDE DEF new
<1>6. /\ s \in C /\ \A b \in B : b < s \/ b >= e => b \in C
      /\ \A c \in C : c = s \/ (c \in B /\ (c < s \/ c >= e))
  BY DEF Replaced, Below, From
<1> HIDE DEF C
<1>7. \A b \in B : b < s \/ b >= e =>
         /\ Size(new, b) = Size(h, b) /\ (IsFree(new, b) <=> IsFree(h, b))
         /\ b \in Taken(h, B) => Stays(h, new, b)
  <2> TAKE b \in B
  <2> HAVE b < s \/ b >= e
  <2>1. Size(two, b) = Size(h, b) /\ (IsFree(two, b) <=> IsFree(h, b))
    BY <1>3 DEF SameTags
  <2>2. /\ Size(new, b) = Size(two, b) /\ (IsFree(new, b) <=> IsFree(two, b))
        /\ Stays(two, new, b)
    BY <1>5 DEF Outside
  <2>3. b \in Taken(h, B) => Stays(h, new, b)
    BY <1>3, <2>1, <2>2, StaysTwice
  <2> QED BY <2>1, <2>2, <2>3
<1>8. ~ IsFree(new, s) /\ Size(new, s) = e - s
  BY <1>5 DEF Block
<1>9. FreeOf(new, C) = F
  <2>1. ASSUME NEW c \in C
        PROVE  IsFree(new, c) <=> c \in F
    <3>1. CASE c = s
      BY <1>2, <1>1, <1>3, <1>8, <3>1
    <3>2. CASE c # s
      <4>1. c \in B /\ (c < s \/ c >= e)
        BY <1>6, <3>2
      <4>2. IsFree(new, c) <=> c \in FreeOf(h, B)
        BY <1>7, <4>1 DEF FreeOf
      <4> QED BY <1>3, <1>4, <4>1, <4>2
    <3> QED BY <3>1, <3>2
  <2>2. F \subseteq C
    BY <1>5 DEF Laid, C
  <2> QED BY <2>1, <2>2 DEF FreeOf
<1>10. Taken(new, C) = A \cup {s}
  <2>1. \A c \in C : c = s \/ (~ IsFree(new, c) <=> c \in Taken(h, B))
    BY <1>6, <1>7 DEF Taken
  <2>2. \A b \in B : b \in A <=> b \in Taken(h, B) /\ (b < s \/ b >= e)
    BY <1>2
  <2>3. A \subseteq B
    BY DEF Taken
  <2> HIDE DEF A
  <2> QED BY <1>6, <1>8, <2>1, <2>2, <2>3 DEF Taken
<1>11. Kept(h, new, A)
  <2>1. \A b \in A : b \in B /\ (b < s \/ b >= e) /\ b \in Taken(h, B)
    BY <1>2 DEF Taken
  <2> HIDE DEF A
  <2> QED BY <1>7, <2>1 DEF Kept
<1>12. Good(new, C)
  <2>1. \A f \in F : f + Size(new, f) \notin F
    <3> TAKE f \in F
    <3>1. f \in FreeOf(h, B) /\ f \in B /\ (f < s \/ f >= e)
      BY <1>3, <1>4 DEF FreeOf
    <3>2. f + Size(h, f) \notin F
      BY <1>4, <3>1 DEF Good
    <3> QED BY <1>7, <3>1, <3>2
  <2> QED BY <1>5, <1>9, <2>1 DEF Good, C
<1>13. \A b \in Taken(h, B) : Holds(h, new, b)
  <2> TAKE b \in Taken(h, B)
  <2>1. b \in B /\ b \in Int /\ Size(h, b) \in Int /\ Size(h, b) >= 4
    BY <1>2 DEF Taken
  <2>2. ASSUME NEW k \in b .. b + Size(h, b) - 3
        PROVE  new.word[k] = h.word[k]
    <3>1. k \in Span(h, b) /\ k \in Words
      <4>1. k \in Span(h, b)
        BY <2>1 DEF Span
      <4> QED BY <1>1, <2>1, <4>1, SpanWords
    <3>2. two.word[k] = h.word[k]
      BY <1>3, <3>1 DEF Stays
    <3>3. k \notin {s - 1, e - 2}
      <4>1. (s < b => s + Size(h, s) <= b) /\ (b < s => b + Size(h, b) <= s)
        BY <1>1, <2>1 DEF Tiled, Tiles
      <4>2. b < e => b + Size(h, b) <= e
        <5>1. e \in B => (b < e => b + Size(h, b) <= e)
          BY <1>1, <2>1 DEF Tiled, Tiles
        <5>2. b + Size(h, b) <= h.brk
          BY <1>1, <2>1, TiledApart
        <5> QED BY <1>1, <5>1, <5>2
      <4> QED BY <1>2, <2>1, <2>2, <4>1, <4>2
    <3> QED BY <1>5, <3>1, <3>2, <3>3 DEF Writes
  <2> QED BY <2>2 DEF Holds
<1>14. SameTags(h, new, {})
  BY <1>3, <1>5 DEF SameTags, Outside
<1>15. new = Joined(h, c1, x1, c2, x2, s, e)
  BY DEF new, two, Joined
<1> QED BY <1>5, <1>9, <1>10, <1>11, <1>12, <1>13, <1>14, <1>15
        DEF Joins, Becomes, FreeAre, C, F, A

(* It is in heaps that are alike.                                          *)
LEMMA AlikeJoined ==
  ASSUME NEW h, NEW B, Good(h, B), NEW c1, NEW x1, NEW c2, NEW x2, NEW s, NEW e,
         FreeInRow(h, B, c1, x1, c2, x2, s, e), NEW g, Alike(h, g, B, FreeOf(h, B))
  PROVE  Alike(Joined(h, c1, x1, c2, x2, s, e), Joined(g, c1, x1, c2, x2, s, e),
               Replaced(B, s, e, {s}),
               FreeOf(Joined(h, c1, x1, c2, x2, s, e), Replaced(B, s, e, {s})))
<1> DEFINE F == FreeOf(h, B)
           F1 == F \ (IF c1 THEN {x1} ELSE {})
           F2 == F1 \ (IF c2 THEN {x2} ELSE {})
           hone == RemoveIf(c1, h, x1)
           htwo == RemoveIf(c2, hone, x2)
           gone == RemoveIf(c1, g, x1)
           gtwo == RemoveIf(c2, gone, x2)
<1>1. /\ Laid(h, B, F) /\ h \in Heap /\ Tiled(h, B)
      /\ c1 \in BOOLEAN /\ c2 \in BOOLEAN
      /\ c1 => x1 \in F
      /\ c2 => x2 \in F1
      /\ s \in B /\ e \in B \cup {h.brk} /\ s < e
  BY DEF Good, Laid, FreeInRow
<1>2. s \in Int /\ e \in Int
  BY <1>1, TiledApart
<1>3. FreeAre(Joined(h, c1, x1, c2, x2, s, e), Replaced(B, s, e, {s}),
              Without(Without(FreeOf(h, B), c1, x1), c2, x2))
  BY JoinGood DEF Joins
<1>4. /\ Laid(htwo, B, F2) /\ SameTags(h, htwo, B)
      /\ \A f \in F2 : f < s \/ f >= e
  <2>1. /\ Laid(Unlisted(h, c1, x1, c2, x2), B, Without(Without(FreeOf(h, B), c1, x1), c2, x2))
        /\ SameTags(h, Unlisted(h, c1, x1, c2, x2), B)
        /\ \A f \in Without(Without(FreeOf(h, B), c1, x1), c2, x2) : f < s \/ f >= e
    BY JoinList
  <2> QED BY <2>1 DEF Unlisted, Without
<1> HIDE DEF F
<1>5. Alike(hone, gone, B, F1) /\ Laid(hone, B, F1)
  BY <1>1, AlikeRemoveIf, LaidRemoveIf DEF F
<1> HIDE DEF hone, gone, F1
<1>6. Alike(htwo, gtwo, B, F2)
  BY <1>1, <1>5, AlikeRemoveIf
<1> HIDE DEF htwo, gtwo, F2
<1>7. Alike(Tag(htwo, s, e - s, 1), Tag(gtwo, s, e - s, 1), Replaced(B, s, e, {s}), F2)
  <2>1. /\ e \in B \cup {htwo.brk} /\ 1 \in {0, 1} /\ e - s \in Int /\ s + (e - s) = e
        /\ s \in B /\ s < e
    BY <1>1, <1>2, <1>4 DEF SameTags
  <2> QED BY <1>4, <1>6, <2>1, AlikeJoin
<1> QED BY <1>3, <1>7 DEF FreeAre, F2, F1, F, Without, htwo, gtwo, hone, gone, Unlisted, Joined

(* The only free block of the row is x, at its end, and the only allocated *)
(* one begins it.                                                          *)
LastInRow(h, B, s, m, e, x) ==
  /\ s \in B /\ e \in B \cup {h.brk} /\ x \in FreeOf(h, B)
  /\ m \in Int /\ (m % 2) = 0 /\ s + 4 <= m /\ m + 4 <= e
  /\ s <= x /\ x + Size(h, x) = e /\ x # m
  /\ \A f \in FreeOf(h, B) \ {x} : f < s \/ f >= e
  /\ \A b \in Taken(h, B) \ {s} : b < s \/ b >= e

(* The row is divided in new into an allocated and a free block.           *)
Splits(h, B, s, m, e, x, new) ==
  /\ Becomes(h, new, Replaced(B, s, e, {s, m}), Taken(h, B) \cup {s}, Taken(h, B) \ {s})
  /\ Block(new, s, m - s, 1)
  /\ Writes(h, new, Words \ (s .. m - 3))
  /\ SameTags(h, new, {})
  /\ FreeAre(new, Replaced(B, s, e, {s, m}), (FreeOf(h, B) \ {x}) \cup {m})

(* That is what becomes of it.                                             *)
LEMMA SplitGood ==
  ASSUME NEW h, NEW B, Good(h, B), NEW s, NEW m, NEW e, NEW x, LastInRow(h, B, s, m, e, x)
  PROVE  Splits(h, B, s, m, e, x, Replace(h, s, m, e, x))
<1> DEFINE F == FreeOf(h, B)
           G == (F \ {x}) \cup {m}
           C == Replaced(B, s, e, {s, m})
           new == Replace(h, s, m, e, x)
<1>1. /\ h \in Heap /\ Tiled(h, B) /\ Laid(h, B, F)
      /\ s \in B /\ e \in B \cup {h.brk} /\ x \in F /\ x \in B
      /\ m \in Int /\ (m % 2) = 0 /\ s + 4 <= m /\ m + 4 <= e
      /\ s <= x /\ x + Size(h, x) = e /\ x # m
      /\ \A f \in F \ {x} : f < s \/ f >= e
      /\ \A b \in Taken(h, B) \ {s} : b < s \/ b >= e
  BY DEF Good, Laid, LastInRow, FreeOf
<1>2. /\ \A b \in B : /\ b \in Int /\ Size(h, b) \in Int /\ Size(h, b) >= 4
                      /\ b + Size(h, b) \in B \cup {h.brk}
      /\ s \in Int /\ e \in Int /\ h.brk \in Int /\ x \in Int
  BY <1>1, TiledApart
<1>3. x < e /\ s < e /\ e <= h.brk
  <2>1. \A b \in B : b + Size(h, b) <= h.brk
    BY <1>1, TiledApart
  <2> QED BY <1>1, <1>2, <2>1
<1>4. m \notin B /\ m # h.brk /\ m \notin F
  BY <1>1, <1>2, <1>3 DEF Taken, FreeOf
<1>5. /\ Laid(new, C, G)
      /\ Block(new, s, m - s, 1)
      /\ Block(new, m, e - m, 0)
      /\ Around(h, new, B, F, s, e)
      /\ Writes(h, new, Words \ (s .. m - 3))
  BY <1>1, <1>3, LaidSplit
<1>6. /\ s \in C /\ m \in C /\ \A b \in B : b < s \/ b >= e => b \in C
      /\ \A c \in C : c = s \/ c = m \/ (c \in B /\ (c < s \/ c >= e))
  BY DEF Replaced, Below, From
<1> HIDE DEF new, C, F
<1>7. /\ ~ IsFree(new, s) /\ Size(new, s) = m - s
      /\ IsFree(new, m) /\ Size(new, m) = e - m
  BY <1>5 DEF Block
<1>8. \A b \in B : b < s \/ b >= e =>
        /\ Size(new, b) = Size(h, b) /\ (IsFree(new, b) <=> IsFree(h, b))
        /\ b \notin F => Stays(h, new, b)
  BY <1>5 DEF Around
<1>9. FreeOf(new, C) = G
  <2>1. ASSUME NEW c \in C
        PROVE  IsFree(new, c) <=> c \in G
    <3>1. CASE c = s
      BY <1>1, <1>2, <1>7, <3>1
    <3>2. CASE c = m
      BY <1>7, <3>2
    <3>3. CASE c # s /\ c # m
      <4>1. c \in B /\ (c < s \/ c >= e) /\ c # x
        BY <1>1, <1>2, <1>3, <1>6, <3>3
      <4>2. IsFree(new, c) <=> c \in F
        BY <1>8, <4>1 DEF FreeOf, F
      <4> QED BY <3>3, <4>1, <4>2
    <3> QED BY <3>1, <3>2, <3>3
  <2>2. G \subseteq C
    BY <1>5 DEF Laid
  <2> HIDE DEF G
  <2> QED BY <2>1, <2>2 DEF FreeOf
<1>10. Taken(new, C) = Taken(h, B) \cup {s}
  <2>1. \A b \in B : b \in Taken(h, B) <=> ~ IsFree(h, b)
    BY DEF Taken
  <2>2. Taken(h, B) \subseteq B
    BY DEF Taken
  <2>3. \A c \in C : ~ IsFree(new, c) <=> c \in Taken(h, B) \cup {s}
    BY <1>4, <1>6, <1>7, <1>8, <2>1, <2>2
  <2>4. \A b \in Taken(h, B) \cup {s} : b \in C
    BY <1>1, <1>6, <2>2
  <2> QED BY <2>3, <2>4 DEF Taken
<1>11. Kept(h, new, Taken(h, B) \ {s})
  <2>1. \A b \in Taken(h, B) \ {s} : b \in B /\ (b < s \/ b >= e) /\ b \notin F
    BY <1>1 DEF Taken, FreeOf, F
  <2> QED BY <1>8, <2>1 DEF Kept
<1>12. Good(new, C)
  <2>1. \A f \in G : f + Size(new, f) \notin G
    <3> SUFFICES ASSUME NEW f \in G, f + Size(new, f) \in G
                 PROVE  FALSE
      OBVIOUS
    <3>0. \A f1 \in F : f1 + Size(h, f1) \notin F
      BY DEF Good, F
    <3>1. CASE f = m
      <4>1. m + (e - m) = e /\ e # m
        BY <1>1, <1>2
      <4>2. e \in F
        BY <1>7, <3>1, <4>1
      <4> QED BY <1>1, <3>0, <4>2
    <3>2. CASE f # m
      <4>1. f \in F \ {x} /\ f \in B /\ Size(new, f) = Size(h, f)
        BY <1>1, <1>8, <3>2 DEF F, FreeOf
      <4>2. f + Size(h, f) # m
        BY <1>2, <1>4, <4>1
      <4> QED BY <3>0, <4>1, <4>2
    <3> QED BY <3>1, <3>2
  <2> QED BY <1>5, <1>9, <2>1 DEF Good
<1>13. SameTags(h, new, {})
  BY <1>5 DEF Around, SameTags
<1> QED BY <1>5, <1>9, <1>10, <1>11, <1>12, <1>13 DEF Splits, Becomes, FreeAre, new, C, F

(* It is in heaps that are alike.                                          *)
LEMMA AlikeSplitGood ==
  ASSUME NEW h, NEW B, Good(h, B), NEW s, NEW m, NEW e, NEW x, LastInRow(h, B, s, m, e, x),
         NEW g, Alike(h, g, B, FreeOf(h, B))
  PROVE  Alike(Replace(h, s, m, e, x), Replace(g, s, m, e, x), Replaced(B, s, e, {s, m}),
               FreeOf(Replace(h, s, m, e, x), Replaced(B, s, e, {s, m})))
<1> DEFINE F == FreeOf(h, B)
<1>1. /\ h \in Heap /\ Tiled(h, B) /\ Laid(h, B, F)
      /\ s \in B /\ e \in B \cup {h.brk} /\ x \in F /\ x \in B
      /\ m \in Int /\ (m % 2) = 0 /\ s + 4 <= m /\ m + 4 <= e
      /\ s <= x /\ x + Size(h, x) = e /\ x # m
      /\ \A f \in F \ {x} : f < s \/ f >= e
  BY DEF Good, Laid, LastInRow, FreeOf
<1>2. x < e
  BY <1>1, TiledApart
<1>3. FreeAre(Replace(h, s, m, e, x), Replaced(B, s, e, {s, m}), (F \ {x}) \cup {m})
  BY SplitGood DEF Splits
<1> HIDE DEF F
<1>4. Alike(Replace(h, s, m, e, x), Replace(g, s, m, e, x),
            Replaced(B, s, e, {s, m}), (F \ {x}) \cup {m})
  <2>1. Alike(h, g, B, F)
    BY DEF F
  <2> QED BY <1>1, <1>2, <2>1, AlikeSplit
<1> QED BY <1>3, <1>4 DEF FreeAre

(* The blocks when asize words have been allocated at the free block bp.   *)
PlacedBlocks(h, B, bp, asize) ==
  Replaced(B, bp, bp + Size(h, bp),
           IF Size(h, bp) - asize >= MIN_B_SIZE THEN {bp, bp + asize} ELSE {bp})

(* place is one of the two.                                                *)
LEMMA PlaceSteps ==
  ASSUME NEW h, NEW B, Good(h, B), NEW bp \in FreeOf(h, B),
         NEW asize \in Int, (asize % 2) = 0, asize >= 4, asize <= Size(h, bp)
  PROVE  IF Size(h, bp) - asize >= MIN_B_SIZE
         THEN /\ place(h, bp, asize) = Replace(h, bp, bp + asize, bp + Size(h, bp), bp)
              /\ LastInRow(h, B, bp, bp + asize, bp + Size(h, bp), bp)
         ELSE /\ place(h, bp, asize) = Joined(h, TRUE, bp, FALSE, bp, bp, bp + Size(h, bp))
              /\ FreeInRow(h, B, TRUE, bp, FALSE, bp, bp, bp + Size(h, bp))
<1> DEFINE size == Size(h, bp)
           e == bp + size
<1>1. h \in Heap /\ Tiled(h, B) /\ bp \in B
  BY DEF Good, Laid, FreeOf
<1>2. /\ bp \in Int /\ size \in Int /\ (bp % 2) = 0 /\ e \in B \cup {h.brk} /\ bp < e
      /\ \A b \in B \ {bp} : b < bp \/ b >= e
  BY <1>1, TiledApart, RowOne
<1>3. size = GET_SIZE(h, HDRP(bp))
  BY DEF Size
<1>4. FreeOf(h, B) \subseteq B /\ Taken(h, B) \subseteq B
  BY DEF FreeOf, Taken
<1> HIDE DEF size, e
<1>5. CASE size - asize >= MIN_B_SIZE
  <2>1. place(h, bp, asize) = Split(h, bp, asize, size - asize, PRED_BLKP(h, bp), SUCC_BLKP(h, bp))
    BY <1>3, <1>5 DEF place
  <2>2. (bp + asize) - bp = asize /\ e - (bp + asize) = size - asize
    BY <1>2 DEF e
  <2>3. place(h, bp, asize) = Replace(h, bp, bp + asize, e, bp)
    BY <2>1, <2>2 DEF Split, Replace, Cut
  <2>4. LastInRow(h, B, bp, bp + asize, e, bp)
    <3>1. /\ bp + asize \in Int /\ ((bp + asize) % 2) = 0 /\ bp + 4 <= bp + asize
          /\ (bp + asize) + 4 <= e /\ bp <= bp /\ bp # bp + asize
      BY <1>2, <1>5 DEF e, MIN_B_SIZE
    <3>2. bp + Size(h, bp) = e
      BY DEF e, size
    <3> QED BY <1>1, <1>2, <1>4, <3>1, <3>2 DEF LastInRow
  <2> QED BY <1>5, <2>3, <2>4 DEF e, size
<1>6. CASE ~ (size - asize >= MIN_B_SIZE)
  <2>1. place(h, bp, asize) = Tag(remove_from_free_list(h, bp), bp, size, 1)
    BY <1>3, <1>6 DEF place
  <2>2. e - bp = size
    BY <1>2 DEF e
  <2>3. place(h, bp, asize) = Joined(h, TRUE, bp, FALSE, bp, bp, e)
    BY <2>1, <2>2 DEF Joined, Unlisted, RemoveIf
  <2>4. FreeInRow(h, B, TRUE, bp, FALSE, bp, bp, e)
    BY <1>1, <1>2, <1>4 DEF FreeInRow
  <2> QED BY <1>6, <2>3, <2>4 DEF e, size
<1> QED BY <1>5, <1>6 DEF size

(* place allocates the block.                                              *)
LEMMA PlaceGood ==
  ASSUME NEW h, NEW B, Good(h, B), NEW bp \in FreeOf(h, B),
         NEW asize \in Int, (asize % 2) = 0, asize >= 4, asize <= Size(h, bp)
  PROVE  /\ Becomes(h, place(h, bp, asize), PlacedBlocks(h, B, bp, asize),
                    Taken(h, B) \cup {bp}, Taken(h, B))
         /\ SameTags(h, place(h, bp, asize), {})
         /\ Size(place(h, bp, asize), bp) >= asize
<1> DEFINE size == Size(h, bp)
           e == bp + Size(h, bp)
           new == place(h, bp, asize)
<1>1. h \in Heap /\ Tiled(h, B) /\ bp \in B /\ bp \notin Taken(h, B)
  BY DEF Good, Laid, FreeOf, Taken
<1>2. /\ bp \in Int /\ size \in Int
      /\ \A b \in B \ {bp} : b < bp \/ b >= bp + Size(h, bp)
  BY <1>1, TiledApart, RowOne
<1>3. CASE size - asize >= MIN_B_SIZE
  <2> DEFINE m == bp + asize
  <2>0. m - bp = asize
    BY <1>2
  <2>1. new = Replace(h, bp, m, e, bp) /\ LastInRow(h, B, bp, m, e, bp)
    BY <1>3, PlaceSteps
  <2>4. PlacedBlocks(h, B, bp, asize) = Replaced(B, bp, e, {bp, m})
    BY <1>3 DEF PlacedBlocks
  <2> HIDE DEF new, e, m
  <2>2. Splits(h, B, bp, m, e, bp, new)
    BY <2>1, SplitGood
  <2>3. Taken(h, B) \ {bp} = Taken(h, B)
    BY <1>1
  <2>5. /\ Becomes(h, new, PlacedBlocks(h, B, bp, asize), Taken(h, B) \cup {bp}, Taken(h, B))
        /\ SameTags(h, new, {})
    BY <2>2, <2>3, <2>4 DEF Splits
  <2>6. Size(new, bp) = asize
    BY <2>0, <2>2 DEF Splits, Block
  <2> QED BY <2>5, <2>6 DEF new
<1>4. CASE ~ (size - asize >= MIN_B_SIZE)
  <2>1. new = Joined(h, TRUE, bp, FALSE, bp, bp, e) /\ FreeInRow(h, B, TRUE, bp, FALSE, bp, bp, e)
    BY <1>4, PlaceSteps
  <2>4. PlacedBlocks(h, B, bp, asize) = Replaced(B, bp, e, {bp})
    BY <1>4 DEF PlacedBlocks
  <2>3. Taken(h, B) \ (bp .. e - 1) = Taken(h, B)
    <3>1. \A b \in Taken(h, B) : b \in B \ {bp} /\ b \in Int
      BY <1>1, TiledApart DEF Taken
    <3> QED BY <1>2, <3>1
  <2>5. e - bp = size
    BY <1>2
  <2> HIDE DEF new, e
  <2>2. Joins(h, B, TRUE, bp, FALSE, bp, bp, e, new)
    BY <2>1, JoinGood
  <2>6. /\ Becomes(h, new, PlacedBlocks(h, B, bp, asize), Taken(h, B) \cup {bp}, Taken(h, B))
        /\ SameTags(h, new, {})
    BY <2>2, <2>3, <2>4 DEF Joins
  <2>7. Size(new, bp) = size
    BY <2>2, <2>5 DEF Joins, Block
  <2> QED BY <1>2, <2>6, <2>7 DEF new
<1> QED BY <1>3, <1>4

(* It does the same in heaps that are alike.                               *)
LEMMA AlikePlace ==
  ASSUME NEW h, NEW B, Good(h, B), NEW bp \in FreeOf(h, B),
         NEW asize \in Int, (asize % 2) = 0, asize >= 4, asize <= Size(h, bp),
         NEW g, Alike(h, g, B, FreeOf(h, B))
  PROVE  Alike(place(h, bp, asize), place(g, bp, asize), PlacedBlocks(h, B, bp, asize),
               FreeOf(place(h, bp, asize), PlacedBlocks(h, B, bp, asize)))
<1> DEFINE e == bp + Size(h, bp)
<1>1. Good(g, B) /\ Size(g, bp) = Size(h, bp) /\ bp \in FreeOf(g, B)
  BY GoodAlike DEF SameTags, FreeOf
<1>2. CASE Size(h, bp) - asize >= MIN_B_SIZE
  <2>1. /\ place(h, bp, asize) = Replace(h, bp, bp + asize, e, bp)
        /\ LastInRow(h, B, bp, bp + asize, e, bp)
    BY <1>2, PlaceSteps
  <2>2. place(g, bp, asize) = Replace(g, bp, bp + asize, e, bp)
    BY <1>1, <1>2, PlaceSteps
  <2>3. PlacedBlocks(h, B, bp, asize) = Replaced(B, bp, e, {bp, bp + asize})
    BY <1>2 DEF PlacedBlocks
  <2> HIDE DEF e
  <2> QED BY <2>1, <2>2, <2>3, AlikeSplitGood
<1>3. CASE ~ (Size(h, bp) - asize >= MIN_B_SIZE)
  <2>1. /\ place(h, bp, asize) = Joined(h, TRUE, bp, FALSE, bp, bp, e)
        /\ FreeInRow(h, B, TRUE, bp, FALSE, bp, bp, e)
    BY <1>3, PlaceSteps
  <2>2. place(g, bp, asize) = Joined(g, TRUE, bp, FALSE, bp, bp, e)
    BY <1>1, <1>3, PlaceSteps
  <2>3. PlacedBlocks(h, B, bp, asize) = Replaced(B, bp, e, {bp})
    BY <1>3 DEF PlacedBlocks
  <2> HIDE DEF e
  <2>4. Alike(Joined(h, TRUE, bp, FALSE, bp, bp, e), Joined(g, TRUE, bp, FALSE, bp, bp, e),
              Replaced(B, bp, e, {bp}),
              FreeOf(Joined(h, TRUE, bp, FALSE, bp, bp, e), Replaced(B, bp, e, {bp})))
    BY <2>1, AlikeJoined
  <2> QED BY <2>1, <2>2, <2>3, <2>4
<1> QED BY <1>2, <1>3

----------------------------------------------------------------------------
(* mm_malloc.                                                              *)

(* A block has room for the payload and the tags.                          *)
LEMMA AdjustedSizeIs ==
  ASSUME NEW size \in Nat
  PROVE  /\ AdjustedSize(size) \in Int /\ (AdjustedSize(size) % 2) = 0
         /\ AdjustedSize(size) >= size + 4 /\ AdjustedSize(size) >= 4
BY DEF AdjustedSize, ALIGN, MIN_B_SIZE

(* No free block is large enough.                                          *)
Full(h, B, asize) == \A f \in FreeOf(h, B) : ~ (Size(h, f) >= asize)

More(asize) == IF asize > CHUNKSIZE THEN asize ELSE CHUNKSIZE

(* One more block is allocated, it is large enough, and the heap has grown *)
(* only if it had to.                                                      *)
Allocates(h, B, asize, r, C) ==
  /\ Becomes(h, r.heap, C, Taken(h, B) \cup {r.ptr}, Taken(h, B))
  /\ r.ptr \in Int \ {NULL} /\ r.ptr \notin Taken(h, B)
  /\ Size(r.heap, r.ptr) >= asize
  /\ h.brk <= r.heap.brk
  /\ h.brk < r.heap.brk => Full(h, B, asize)

(* Allocating in a free block that is large enough.                        *)
LEMMA PlaceAllocates ==
  ASSUME NEW h, NEW B, Good(h, B), NEW bp \in FreeOf(h, B),
         NEW asize \in Int, (asize % 2) = 0, asize >= 4, Size(h, bp) >= asize
  PROVE  Allocates(h, B, asize, Place(Result(h, bp), asize), PlacedBlocks(h, B, bp, asize))
<1> DEFINE new == place(h, bp, asize)
           C == PlacedBlocks(h, B, bp, asize)
<1>1. h \in Heap /\ Tiled(h, B) /\ bp \in B /\ bp \notin Taken(h, B)
  BY DEF Good, Laid, FreeOf, Taken
<1>2. bp \in Int /\ 4 <= bp /\ Size(h, bp) \in Int /\ h.brk \in Int
  BY <1>1, TiledApart
<1>3. asize <= Size(h, bp)
  BY <1>2
<1>4. /\ Becomes(h, new, C, Taken(h, B) \cup {bp}, Taken(h, B))
      /\ SameTags(h, new, {})
      /\ Size(new, bp) >= asize
  BY <1>3, PlaceGood
<1>5. Place(Result(h, bp), asize) = Result(new, bp)
  BY DEF Place, Result
<1> HIDE DEF new, C
<1>6. new.brk = h.brk
  BY <1>4 DEF SameTags
<1>7. Result(new, bp).heap = new /\ Result(new, bp).ptr = bp
  BY DEF Result
<1>8. bp # NULL
  BY <1>2 DEF NULL
<1>9. Allocates(h, B, asize, Result(new, bp), C)
  BY <1>1, <1>2, <1>4, <1>6, <1>7, <1>8 DEF Allocates
<1> QED BY <1>5, <1>9 DEF C

(* Allocating in the free block that extend_heap has made.                 *)
LEMMA ExtendAllocates ==
  ASSUME NEW h, NEW B, Good(h, B), NEW asize \in Int, (asize % 2) = 0, asize >= 4,
         NEW more \in Int, (more % 2) = 0, more >= asize, h.brk + more <= MAX_HEAP,
         Full(h, B, asize)
  PROVE  Allocates(h, B, asize, Place(extend_heap(h, more), asize),
                   PlacedBlocks(extend_heap(h, more).heap, GrownBlocks(h, B, more),
                                extend_heap(h, more).ptr, asize))
<1> DEFINE one == extend_heap(h, more).heap
           bp == extend_heap(h, more).ptr
           A == GrownBlocks(h, B, more)
           new == place(one, bp, asize)
           C == PlacedBlocks(one, A, bp, asize)
<1>0. h \in Heap /\ h.brk \in Int
  BY HeapType, TiledApart DEF Good, Laid
<1>1. /\ Becomes(h, one, A, Taken(h, B), Taken(h, B))
      /\ Covers(one, A, bp, h.brk, h.brk + more)
      /\ one.brk = h.brk + more
  <2>1. more >= 4
    OBVIOUS
  <2> QED BY <2>1, ExtendGood
<1>5. Place(extend_heap(h, more), asize) = Result(new, bp)
  BY DEF Place, Result
<1> HIDE DEF one, bp, A
<1>2. /\ Good(one, A) /\ Taken(one, A) = Taken(h, B) /\ Kept(h, one, Taken(h, B))
      /\ bp \in FreeOf(one, A) /\ bp <= h.brk /\ bp + Size(one, bp) >= h.brk + more
  BY <1>1 DEF Becomes, Covers
<1>3. one \in Heap /\ Tiled(one, A) /\ bp \in A /\ bp \notin Taken(h, B)
  BY <1>2 DEF Good, Laid, FreeOf, Taken
<1>4. bp \in Int /\ 4 <= bp /\ Size(one, bp) \in Int
  BY <1>3, TiledApart
<1>6. asize <= Size(one, bp)
  BY <1>0, <1>2, <1>4
<1>7. /\ Becomes(one, new, C, Taken(one, A) \cup {bp}, Taken(one, A))
      /\ SameTags(one, new, {})
      /\ Size(new, bp) >= asize
  BY <1>2, <1>6, PlaceGood
<1>8. Result(new, bp).heap = new /\ Result(new, bp).ptr = bp
  BY DEF Result
<1> HIDE DEF new, C
<1>9. Becomes(h, new, C, Taken(h, B) \cup {bp}, Taken(h, B))
  BY <1>2, <1>7, KeptTwice DEF Becomes
<1>10. new.brk = h.brk + more
  BY <1>1, <1>7 DEF SameTags
<1>11. bp # NULL /\ h.brk <= new.brk
  BY <1>0, <1>4, <1>10 DEF NULL
<1>12. Allocates(h, B, asize, Result(new, bp), C)
  BY <1>3, <1>4, <1>7, <1>8, <1>9, <1>11 DEF Allocates
<1> QED BY <1>5, <1>12 DEF C, A, one, bp

(* The blocks when mm_malloc has returned a pointer.                       *)
MallocBlocks(h, B, asize) ==
  IF find_fit(h, asize) # NULL THEN PlacedBlocks(h, B, find_fit(h, asize), asize)
  ELSE PlacedBlocks(extend_heap(h, More(asize)).heap, GrownBlocks(h, B, More(asize)),
                    extend_heap(h, More(asize)).ptr, asize)

(* What mm_malloc asks for.                                                *)
LEMMA MoreIs ==
  ASSUME NEW asize \in Int, (asize % 2) = 0, asize >= 4
  PROVE  More(asize) \in Int /\ (More(asize) % 2) = 0 /\ More(asize) >= asize
<1>1. CHUNKSIZE \in Int /\ (CHUNKSIZE % 2) = 0
  BY ChunkAssumption
<1> QED BY <1>1 DEF More

(* mm_malloc by the result of find_fit.                                    *)
LEMMA MallocIs ==
  ASSUME NEW h, NEW size \in Nat \ {0}, NEW asize, asize = AdjustedSize(size)
  PROVE  mm_malloc(h, size) =
           IF find_fit(h, asize) # NULL THEN Place(Result(h, find_fit(h, asize)), asize)
           ELSE IF CanSbrk(h, More(asize)) THEN Place(extend_heap(h, More(asize)), asize)
           ELSE Result(h, NULL)
BY DEF mm_malloc, Allocate, More

(* mm_malloc fails, and then only if nothing fits and the heap is at its   *)
(* limit.                                                                  *)
Fails(h, B, asize, r) ==
  r = Result(h, NULL) /\ Full(h, B, asize) /\ ~ CanSbrk(h, More(asize))

(* A request is granted a block, or fails for want of memory.              *)
THEOREM MallocGood ==
  ASSUME NEW h, NEW B, Good(h, B), NEW size \in Nat \ {0}
  PROVE  \/ Fails(h, B, AdjustedSize(size), mm_malloc(h, size))
         \/ Allocates(h, B, AdjustedSize(size), mm_malloc(h, size),
                      MallocBlocks(h, B, AdjustedSize(size)))
<1> DEFINE asize == AdjustedSize(size)
           fit == find_fit(h, asize)
           more == More(asize)
           r == mm_malloc(h, size)
<1>1. asize \in Int /\ (asize % 2) = 0 /\ asize >= 4
  BY AdjustedSizeIs
<1>2. r = IF fit # NULL THEN Place(Result(h, fit), asize)
          ELSE IF CanSbrk(h, more) THEN Place(extend_heap(h, more), asize)
          ELSE Result(h, NULL)
  BY MallocIs
<1> HIDE DEF asize, r
<1>3. more \in Int /\ (more % 2) = 0 /\ more >= asize
  BY <1>1, MoreIs
<1>4. Laid(h, B, FreeOf(h, B)) /\ h \in Heap /\ Tiled(h, B)
  BY DEF Good, Laid
<1>5. \/ fit \in FreeOf(h, B) /\ Size(h, fit) >= asize
      \/ fit = NULL /\ Full(h, B, asize)
  BY <1>1, <1>4, FindFit DEF Full
<1>6. MallocBlocks(h, B, asize) =
        IF fit # NULL THEN PlacedBlocks(h, B, fit, asize)
        ELSE PlacedBlocks(extend_heap(h, more).heap, GrownBlocks(h, B, more),
                          extend_heap(h, more).ptr, asize)
  BY DEF MallocBlocks
<1> HIDE DEF fit, more
<1>7. NULL \notin FreeOf(h, B)
  BY <1>4, TiledApart DEF FreeOf, NULL
<1>8. CASE fit \in FreeOf(h, B) /\ Size(h, fit) >= asize
  <2>1. Allocates(h, B, asize, Place(Result(h, fit), asize), PlacedBlocks(h, B, fit, asize))
    BY <1>1, <1>8, PlaceAllocates
  <2> QED BY <1>2, <1>6, <1>7, <1>8, <2>1 DEF asize, r
<1>9. CASE fit = NULL /\ Full(h, B, asize)
  <2>1. CASE CanSbrk(h, more)
    <3>1. h.brk + more <= MAX_HEAP
      BY <2>1 DEF CanSbrk
    <3>2. Allocates(h, B, asize, Place(extend_heap(h, more), asize),
                    PlacedBlocks(extend_heap(h, more).heap, GrownBlocks(h, B, more),
                                 extend_heap(h, more).ptr, asize))
      BY <1>1, <1>3, <1>9, <3>1, ExtendAllocates
    <3> QED BY <1>2, <1>6, <1>9, <2>1, <3>2 DEF asize, r
  <2>2. CASE ~ CanSbrk(h, more)
    BY <1>2, <1>9, <2>2 DEF Fails, more, r, asize
  <2> QED BY <2>1, <2>2
<1> QED BY <1>5, <1>8, <1>9


(* It does the same in heaps that are alike.                               *)
LEMMA AlikeExtendPlace ==
  ASSUME NEW h, NEW B, Good(h, B), NEW asize \in Int, (asize % 2) = 0, asize >= 4,
         NEW more \in Int, (more % 2) = 0, more >= asize, h.brk + more <= MAX_HEAP,
         NEW g, Alike(h, g, B, FreeOf(h, B))
  PROVE  /\ Alike(place(extend_heap(h, more).heap, extend_heap(h, more).ptr, asize),
                  place(extend_heap(g, more).heap, extend_heap(g, more).ptr, asize),
                  PlacedBlocks(extend_heap(h, more).heap, GrownBlocks(h, B, more),
                               extend_heap(h, more).ptr, asize),
                  FreeOf(place(extend_heap(h, more).heap, extend_heap(h, more).ptr, asize),
                       PlacedBlocks(extend_heap(h, more).heap, GrownBlocks(h, B, more),
                                    extend_heap(h, more).ptr, asize)))
         /\ extend_heap(g, more).ptr = extend_heap(h, more).ptr
<1> DEFINE one == extend_heap(h, more).heap
           bp == extend_heap(h, more).ptr
           gone == extend_heap(g, more).heap
           gbp == extend_heap(g, more).ptr
           A == GrownBlocks(h, B, more)
<1>0. h \in Heap /\ h.brk \in Int
  BY HeapType, TiledApart DEF Good, Laid
<1>1. more >= 4
  OBVIOUS
<1>2. /\ Becomes(h, one, A, Taken(h, B), Taken(h, B))
      /\ Covers(one, A, bp, h.brk, h.brk + more)
  BY <1>1, ExtendGood
<1>3. /\ Alike(one, gone, A, FreeOf(one, A))
      /\ gbp = bp
  BY <1>1, AlikeExtend
<1> HIDE DEF one, bp, A, gone, gbp
<1>4. /\ Good(one, A) /\ bp \in FreeOf(one, A)
      /\ bp <= h.brk /\ bp + Size(one, bp) >= h.brk + more
  BY <1>2 DEF Becomes, Covers
<1>5. one \in Heap /\ Tiled(one, A) /\ bp \in A
  BY <1>4 DEF Good, Laid, FreeOf
<1>6. asize <= Size(one, bp)
  BY <1>0, <1>4, <1>5, TiledApart
<1>7. Alike(place(one, bp, asize), place(gone, bp, asize), PlacedBlocks(one, A, bp, asize),
            FreeOf(place(one, bp, asize), PlacedBlocks(one, A, bp, asize)))
  BY <1>3, <1>4, <1>6, AlikePlace
<1> QED BY <1>3, <1>7 DEF one, bp, A, gone, gbp

(* What two heaps that are alike become is alike too.                      *)
AlikeResults(r, s, C) ==
  s.ptr = r.ptr /\ Alike(r.heap, s.heap, C, FreeOf(r.heap, C))

(* mm_malloc answers alike in two heaps that are alike.                    *)
THEOREM AlikeMalloc ==
  ASSUME NEW h, NEW B, Good(h, B), NEW size \in Nat \ {0},
         NEW g, Alike(h, g, B, FreeOf(h, B))
  PROVE  \/ /\ Fails(h, B, AdjustedSize(size), mm_malloc(h, size))
            /\ mm_malloc(g, size) = Result(g, NULL)
         \/ AlikeResults(mm_malloc(h, size), mm_malloc(g, size),
                         MallocBlocks(h, B, AdjustedSize(size)))
<1> DEFINE asize == AdjustedSize(size)
           fit == find_fit(h, asize)
           more == More(asize)
           r == mm_malloc(h, size)
           s == mm_malloc(g, size)
<1>1. asize \in Int /\ (asize % 2) = 0 /\ asize >= 4
  BY AdjustedSizeIs
<1>4. Laid(h, B, FreeOf(h, B)) /\ h \in Heap /\ Tiled(h, B)
  BY DEF Good, Laid
<1>5. find_fit(g, asize) = fit
  BY <1>1, <1>4, AlikeFit
<1>6. CanSbrk(g, more) <=> CanSbrk(h, more)
  BY DEF Alike, CanSbrk
<1>2. /\ r = IF fit # NULL THEN Place(Result(h, fit), asize)
             ELSE IF CanSbrk(h, more) THEN Place(extend_heap(h, more), asize)
             ELSE Result(h, NULL)
      /\ s = IF find_fit(g, asize) # NULL THEN Place(Result(g, find_fit(g, asize)), asize)
             ELSE IF CanSbrk(g, more) THEN Place(extend_heap(g, more), asize)
             ELSE Result(g, NULL)
  BY MallocIs
<1>7. s = IF fit # NULL THEN Place(Result(g, fit), asize)
          ELSE IF CanSbrk(h, more) THEN Place(extend_heap(g, more), asize)
          ELSE Result(g, NULL)
  BY <1>2, <1>5, <1>6
<1> HIDE DEF asize, r, s
<1>3. more \in Int /\ (more % 2) = 0 /\ more >= asize
  BY <1>1, MoreIs
<1>8. \/ fit \in FreeOf(h, B) /\ Size(h, fit) >= asize
      \/ fit = NULL /\ Full(h, B, asize)
  BY <1>1, <1>4, FindFit DEF Full
<1>9. MallocBlocks(h, B, asize) =
        IF fit # NULL THEN PlacedBlocks(h, B, fit, asize)
        ELSE PlacedBlocks(extend_heap(h, more).heap, GrownBlocks(h, B, more),
                          extend_heap(h, more).ptr, asize)
  BY DEF MallocBlocks
<1> HIDE DEF fit, more
<1>10. NULL \notin FreeOf(h, B)
  BY <1>4, TiledApart DEF FreeOf, NULL
<1>11. CASE fit \in FreeOf(h, B) /\ Size(h, fit) >= asize
  <2>1. asize <= Size(h, fit)
    BY <1>1, <1>4, <1>11, TiledApart DEF FreeOf
  <2>2. Alike(place(h, fit, asize), place(g, fit, asize), PlacedBlocks(h, B, fit, asize),
              FreeOf(place(h, fit, asize), PlacedBlocks(h, B, fit, asize)))
    BY <1>1, <1>11, <2>1, AlikePlace
  <2>3. r = Result(place(h, fit, asize), fit) /\ s = Result(place(g, fit, asize), fit)
    BY <1>2, <1>7, <1>10, <1>11 DEF Place, Result
  <2>4. MallocBlocks(h, B, asize) = PlacedBlocks(h, B, fit, asize)
    BY <1>9, <1>10, <1>11
  <2>5. AlikeResults(r, s, MallocBlocks(h, B, asize))
    BY <2>2, <2>3, <2>4 DEF AlikeResults, Result
  <2> QED BY <2>5 DEF r, s, asize
<1>12. CASE fit = NULL /\ Full(h, B, asize) /\ CanSbrk(h, more)
  <2> DEFINE one == extend_heap(h, more)
             gone == extend_heap(g, more)
             A == GrownBlocks(h, B, more)
  <2>1. h.brk + more <= MAX_HEAP
    BY <1>12 DEF CanSbrk
  <2>2. /\ Alike(place(one.heap, one.ptr, asize), place(gone.heap, gone.ptr, asize),
                 PlacedBlocks(one.heap, A, one.ptr, asize),
                 FreeOf(place(one.heap, one.ptr, asize),
                      PlacedBlocks(one.heap, A, one.ptr, asize)))
        /\ gone.ptr = one.ptr
    BY <1>1, <1>3, <2>1, AlikeExtendPlace
  <2>3. MallocBlocks(h, B, asize) = PlacedBlocks(one.heap, A, one.ptr, asize)
    BY <1>9, <1>12
  <2>4. r = Place(one, asize) /\ s = Place(gone, asize)
    BY <1>2, <1>7, <1>12
  <2> HIDE DEF one, gone, A
  <2>5. /\ r.heap = place(one.heap, one.ptr, asize) /\ r.ptr = one.ptr
        /\ s.heap = place(gone.heap, gone.ptr, asize) /\ s.ptr = gone.ptr
    BY <2>4 DEF Place, Result
  <2>6. AlikeResults(r, s, MallocBlocks(h, B, asize))
    BY <2>2, <2>3, <2>5 DEF AlikeResults
  <2> QED BY <2>6 DEF r, s, asize
<1>13. CASE fit = NULL /\ Full(h, B, asize) /\ ~ CanSbrk(h, more)
  <2>1. r = Result(h, NULL) /\ s = Result(g, NULL)
    BY <1>2, <1>7, <1>13
  <2>2. Fails(h, B, asize, r)
    BY <1>13, <2>1 DEF Fails, more
  <2> QED BY <2>1, <2>2 DEF r, s, asize
<1> QED BY <1>8, <1>11, <1>12, <1>13


----------------------------------------------------------------------------
(* mm_realloc.                                                             *)

(* The row from s up to e has one allocated block, bp, and up to two free  *)
(* ones: x1 before it if c1, and x2 behind it if c2.                       *)
Surrounds(h, B, bp, c1, x1, c2, x2, s, e) ==
  /\ FreeInRow(h, B, c1, x1, c2, x2, s, e)
  /\ bp \in Taken(h, B)
  /\ s = IF c1 THEN x1 ELSE bp
  /\ e = IF c2 THEN x2 + Size(h, x2) ELSE bp + Size(h, bp)
  /\ c1 => x1 + Size(h, x1) = bp
  /\ c2 => x2 = bp + Size(h, bp)
  /\ \A b \in Taken(h, B) \ {bp} : b < s \/ b >= e

(* The rows that mm_realloc tells apart.                                   *)
LEMMA RowAround ==
  ASSUME NEW h, NEW B, Good(h, B), NEW bp \in Taken(h, B),
         NEW c1 \in BOOLEAN, NEW x1, NEW c2 \in BOOLEAN, NEW x2, NEW s, NEW e,
         c1 => x1 \in FreeOf(h, B) /\ x1 + Size(h, x1) = bp,
         c2 => x2 \in FreeOf(h, B) /\ x2 = bp + Size(h, bp),
         s = IF c1 THEN x1 ELSE bp,
         e = IF c2 THEN x2 + Size(h, x2) ELSE bp + Size(h, bp)
  PROVE  Surrounds(h, B, bp, c1, x1, c2, x2, s, e)
<1>1. h \in Heap /\ Tiled(h, B) /\ bp \in B
  BY DEF Good, Laid, Taken
<1>2. \A b \in B : /\ b \in Int /\ Size(h, b) \in Int /\ Size(h, b) >= 4
                   /\ b + Size(h, b) \in B \cup {h.brk}
  BY <1>1, TiledApart
<1>3. \A b \in B, c \in B : b < c => b + Size(h, b) <= c
  BY <1>1 DEF Tiled, Tiles
<1>4. /\ c1 => x1 \in B
      /\ c2 => x2 \in B
  BY DEF FreeOf
<1>5. s \in B /\ e \in B \cup {h.brk} /\ s <= bp /\ bp + Size(h, bp) <= e
  BY <1>1, <1>2, <1>4
<1>6. \A b \in B : \/ b < s \/ b >= e \/ b = bp
                   \/ c1 /\ b = x1
                   \/ c2 /\ b = x2
  <2> TAKE b \in B
  <2>1. b < bp => b < s \/ (c1 /\ b = x1)
    BY <1>1, <1>2, <1>3, <1>4
  <2>2. b > bp => b >= e \/ (c2 /\ b = x2)
    <3> HAVE b > bp
    <3>1. bp + Size(h, bp) <= b /\ b \in Int /\ bp \in Int /\ Size(h, bp) \in Int
      BY <1>1, <1>2, <1>3
    <3>2. CASE c2 /\ b # x2
      <4>1. x2 \in B /\ x2 < b
        BY <1>4, <3>1, <3>2
      <4>2. x2 + Size(h, x2) <= b
        BY <1>3, <4>1
      <4> QED BY <1>2, <3>2, <4>1, <4>2
    <3>3. CASE ~ c2
      BY <3>1, <3>3
    <3> QED BY <3>2, <3>3
  <2> QED BY <1>1, <1>2, <2>1, <2>2
<1>7. \A f \in FreeOf(h, B) : f \in B /\ f # bp
  BY DEF FreeOf, Taken
<1>8. \A f \in FreeOf(h, B) : \/ f < s \/ f >= e
                              \/ c1 /\ f = x1
                              \/ c2 /\ f = x2
  BY <1>6, <1>7
<1>9. \A b \in Taken(h, B) \ {bp} : b < s \/ b >= e
  <2> TAKE b \in Taken(h, B) \ {bp}
  <2>1. b \in B /\ b \notin FreeOf(h, B)
    BY DEF Taken, FreeOf
  <2> QED BY <1>6, <2>1
<1>10. /\ c1 => s <= x1 /\ x1 < e
       /\ c2 => s <= x2 /\ x2 < e
       /\ c1 /\ c2 => x1 # x2
       /\ s < e
  <2>1. bp \in Int /\ Size(h, bp) \in Int /\ Size(h, bp) >= 4 /\ s \in Int /\ e \in Int
    BY <1>1, <1>2, <1>5
  <2>2. s < e /\ bp < e
    BY <1>5, <2>1
  <2>3. c1 => s <= x1 /\ x1 < e
    BY <1>2, <1>4, <1>5, <2>2
  <2>4. c2 => s <= x2 /\ x2 < e
    BY <1>2, <1>4, <1>5, <2>1
  <2>5. c1 /\ c2 => x1 # x2
    BY <1>2, <1>4, <2>1
  <2> QED BY <2>2, <2>3, <2>4, <2>5
<1>11. FreeInRow(h, B, c1, x1, c2, x2, s, e)
  BY <1>5, <1>8, <1>10 DEF FreeInRow
<1> QED BY <1>9, <1>11 DEF Surrounds

(* The neighbours of a block, and where it ends.                           *)
PrevOf(h, bp) == PREV_BLKP(h, bp)
NextOf(h, bp) == NEXT_BLKP(h, bp)
Stop(h, bp) == bp + Size(h, bp)

(* The places where mm_realloc finds room.                                 *)
RoomLeft(h, B, bp) ==
  Surrounds(h, B, bp, TRUE, PrevOf(h, bp), FALSE, NextOf(h, bp), PrevOf(h, bp), Stop(h, bp))
RoomRight(h, B, bp) ==
  Surrounds(h, B, bp, FALSE, PrevOf(h, bp), TRUE, NextOf(h, bp), bp, Stop(h, NextOf(h, bp)))
RoomBoth(h, B, bp) ==
  Surrounds(h, B, bp, TRUE, PrevOf(h, bp), TRUE, NextOf(h, bp), PrevOf(h, bp),
            Stop(h, NextOf(h, bp)))

(* What mm_realloc's Room says, case by case.                              *)
RoomCases(h, B, bp, asize, room) ==
  \/ /\ room.where = "here" /\ asize <= Size(h, bp)
     /\ room.rest = Size(h, bp) - asize
  \/ /\ room.where = "left" /\ asize > Size(h, bp) /\ RoomLeft(h, B, bp)
     /\ room.rest = Stop(h, bp) - PrevOf(h, bp) - asize /\ room.rest >= 0
  \/ /\ room.where = "right" /\ asize > Size(h, bp) /\ RoomRight(h, B, bp)
     /\ room.rest = Stop(h, NextOf(h, bp)) - bp - asize /\ room.rest >= 0
  \/ /\ room.where = "both" /\ asize > Size(h, bp) /\ RoomBoth(h, B, bp)
     /\ room.rest = Stop(h, NextOf(h, bp)) - PrevOf(h, bp) - asize /\ room.rest >= 0
  \/ room.where = "elsewhere" /\ asize > Size(h, bp)

(* mm_realloc finds room only where there is some.                         *)
LEMMA RoomIs ==
  ASSUME NEW h, NEW B, Good(h, B), NEW bp \in Taken(h, B), NEW size \in Nat
  PROVE  RoomCases(h, B, bp, AdjustedSize(size), Room(h, bp, size))
<1> DEFINE asize == AdjustedSize(size)
           prev == PrevOf(h, bp)
           next == NextOf(h, bp)
           bsize == Size(h, bp)
           prevFree == GET_ALLOC(h, HDRP(prev)) = 0
           nextFree == GET_ALLOC(h, HDRP(next)) = 0
           room == Room(h, bp, size)
           left == Size(h, prev) + bsize
           right == Size(h, next) + bsize
           both == Size(h, prev) + right
<1>1. h \in Heap /\ Tiled(h, B) /\ bp \in B
  BY DEF Good, Laid, Taken
<1>2. \A b \in B : b \in Int /\ Size(h, b) \in Int
  BY <1>1, TiledApart
<1>3. prevFree => prev \in FreeOf(h, B) /\ prev + Size(h, prev) = bp
  BY <1>1, Before DEF PrevOf, FreeOf
<1>4. next = bp + Size(h, bp) /\ (nextFree => next \in FreeOf(h, B))
  BY <1>1, After DEF NextOf, FreeOf
<1>5. asize \in Int
  BY AdjustedSizeIs
<1>6. room = IF asize <= bsize THEN [where |-> "here", rest |-> bsize - asize]
             ELSE IF prevFree /\ asize <= left THEN [where |-> "left", rest |-> left - asize]
             ELSE IF nextFree /\ asize <= right THEN [where |-> "right", rest |-> right - asize]
             ELSE IF prevFree /\ nextFree /\ asize <= both
             THEN [where |-> "both", rest |-> both - asize]
             ELSE [where |-> "elsewhere", rest |-> asize - asize]
  BY DEF Room, PrevOf, NextOf, Size
<1>7. bp \in Int /\ bsize \in Int
  BY <1>1, <1>2
<1> HIDE DEF asize, prevFree, nextFree, prev, next, room
<1>8. CASE asize <= bsize
  BY <1>6, <1>8 DEF RoomCases, asize, room
<1>9. CASE ~ (asize <= bsize) /\ prevFree /\ asize <= left
  <2>1. prev \in B /\ prev \in Int /\ Size(h, prev) \in Int
    BY <1>2, <1>3, <1>9 DEF FreeOf
  <2>2. room = [where |-> "left", rest |-> left - asize]
    BY <1>6, <1>9
  <2>3. left - asize = Stop(h, bp) - prev - asize /\ left - asize >= 0 /\ asize > bsize
    BY <1>3, <1>5, <1>7, <1>9, <2>1 DEF Stop
  <2>4. RoomLeft(h, B, bp)
    <3>1. Surrounds(h, B, bp, TRUE, prev, FALSE, next, prev, Stop(h, bp))
      BY <1>3, <1>9, RowAround DEF Stop
    <3> QED BY <3>1 DEF RoomLeft, prev, next
  <2>5. RoomCases(h, B, bp, asize, room)
    BY <2>2, <2>3, <2>4 DEF RoomCases, prev
  <2> QED BY <2>5 DEF asize, room
<1>10. CASE ~ (asize <= bsize) /\ ~ (prevFree /\ asize <= left) /\ nextFree /\ asize <= right
  <2>1. next \in B /\ next \in Int /\ Size(h, next) \in Int
    BY <1>2, <1>4, <1>10 DEF FreeOf
  <2>2. room = [where |-> "right", rest |-> right - asize]
    BY <1>6, <1>10
  <2>3. right - asize = Stop(h, next) - bp - asize /\ right - asize >= 0 /\ asize > bsize
    BY <1>4, <1>5, <1>7, <1>10, <2>1 DEF Stop
  <2>4. RoomRight(h, B, bp)
    <3>1. Surrounds(h, B, bp, FALSE, prev, TRUE, next, bp, Stop(h, next))
      BY <1>4, <1>10, RowAround DEF Stop
    <3> QED BY <3>1 DEF RoomRight, prev, next
  <2>5. RoomCases(h, B, bp, asize, room)
    BY <2>2, <2>3, <2>4 DEF RoomCases, next
  <2> QED BY <2>5 DEF asize, room
<1>11. CASE /\ ~ (asize <= bsize) /\ ~ (prevFree /\ asize <= left)
            /\ ~ (nextFree /\ asize <= right)
            /\ prevFree /\ nextFree /\ asize <= both
  <2>1. /\ next \in B /\ next \in Int /\ Size(h, next) \in Int
        /\ prev \in B /\ prev \in Int /\ Size(h, prev) \in Int
    BY <1>2, <1>3, <1>4, <1>11 DEF FreeOf
  <2>2. room = [where |-> "both", rest |-> both - asize]
    BY <1>6, <1>11
  <2>3. both - asize = Stop(h, next) - prev - asize /\ both - asize >= 0 /\ asize > bsize
    BY <1>3, <1>4, <1>5, <1>7, <1>11, <2>1 DEF Stop
  <2>4. RoomBoth(h, B, bp)
    <3>1. Surrounds(h, B, bp, TRUE, prev, TRUE, next, prev, Stop(h, next))
      BY <1>3, <1>4, <1>11, RowAround DEF Stop
    <3> QED BY <3>1 DEF RoomBoth, prev, next
  <2>5. RoomCases(h, B, bp, asize, room)
    BY <2>2, <2>3, <2>4 DEF RoomCases, prev, next
  <2> QED BY <2>5 DEF asize, room
<1>12. CASE /\ ~ (asize <= bsize) /\ ~ (prevFree /\ asize <= left)
            /\ ~ (nextFree /\ asize <= right)
            /\ ~ (prevFree /\ nextFree /\ asize <= both)
  <2>1. room.where = "elsewhere"
    BY <1>6, <1>12
  <2>2. asize > bsize
    BY <1>5, <1>7, <1>12
  <2> QED BY <2>1, <2>2 DEF RoomCases, asize, room
<1> QED BY <1>8, <1>9, <1>10, <1>11, <1>12


(* A block bp becomes the block x, of this size at least, and the other    *)
(* allocated blocks keep their words.                                      *)
Reallocates(h, B, bp, asize, new, x, C) ==
  /\ Becomes(h, new, C, (Taken(h, B) \ {bp}) \cup {x}, Taken(h, B) \ {bp})
  /\ x \in Int \ {NULL} /\ x \notin Taken(h, B) \ {bp}
  /\ Size(new, x) >= asize
  /\ SameTags(h, new, {})

(* The row around the block becomes the block.                             *)
LEMMA TakeRow ==
  ASSUME NEW h, NEW B, Good(h, B), NEW bp, NEW c1, NEW x1, NEW c2, NEW x2, NEW s, NEW e,
         Surrounds(h, B, bp, c1, x1, c2, x2, s, e), NEW asize \in Int, e - s >= asize
  PROVE  /\ Reallocates(h, B, bp, asize, Joined(h, c1, x1, c2, x2, s, e), s,
                        Replaced(B, s, e, {s}))
         /\ Holds(h, Joined(h, c1, x1, c2, x2, s, e), bp)
<1> DEFINE new == Joined(h, c1, x1, c2, x2, s, e)
           C == Replaced(B, s, e, {s})
<1>1. /\ FreeInRow(h, B, c1, x1, c2, x2, s, e) /\ bp \in Taken(h, B)
      /\ \A b \in Taken(h, B) \ {bp} : b < s \/ b >= e
      /\ s \in B /\ e \in B \cup {h.brk} /\ h \in Heap /\ Tiled(h, B)
  BY DEF Surrounds, FreeInRow, Good, Laid
<1>2. Joins(h, B, c1, x1, c2, x2, s, e, new)
  BY <1>1, JoinGood
<1>3. /\ s \in Int /\ 4 <= s /\ e \in Int /\ \A b \in B : b \in Int
  BY <1>1, TiledApart
<1> HIDE DEF new
<1>4. Taken(h, B) \ (s .. e - 1) = Taken(h, B) \ {bp}
  <2>1. bp \in B /\ Taken(h, B) \subseteq B /\ FreeOf(h, B) \cap Taken(h, B) = {}
    BY <1>1 DEF Taken, FreeOf
  <2>2. s <= bp /\ bp < e
    <3>1. /\ c1 => x1 \in B
          /\ c2 => x2 \in B
          /\ c1 \in BOOLEAN /\ c2 \in BOOLEAN
      BY <1>1 DEF FreeInRow, FreeOf
    <3>2. \A b \in B : Size(h, b) \in Int /\ Size(h, b) >= 4
      BY <1>1, TiledApart
    <3>3. /\ s = IF c1 THEN x1 ELSE bp
          /\ e = IF c2 THEN x2 + Size(h, x2) ELSE bp + Size(h, bp)
          /\ c1 => x1 + Size(h, x1) = bp
          /\ c2 => x2 = bp + Size(h, bp)
      BY DEF Surrounds
    <3>4. bp \in Int /\ Size(h, bp) \in Int /\ Size(h, bp) >= 4
      BY <1>3, <2>1, <3>2
    <3>5. s <= bp
      <4>1. CASE c1
        BY <1>3, <3>1, <3>2, <3>3, <3>4, <4>1
      <4>2. CASE ~ c1
        BY <3>3, <3>4, <4>2
      <4> QED BY <4>1, <4>2
    <3>6. bp < e
      <4>1. CASE c2
        BY <1>3, <3>1, <3>2, <3>3, <3>4, <4>1
      <4>2. CASE ~ c2
        BY <3>3, <3>4, <4>2
      <4> QED BY <4>1, <4>2
    <3> QED BY <3>5, <3>6
  <2>3. \A b \in Taken(h, B) : b \in Int
    BY <1>3, <2>1
  <2> QED BY <1>1, <1>3, <2>2, <2>3
<1>5. /\ Becomes(h, new, C, (Taken(h, B) \ {bp}) \cup {s}, Taken(h, B) \ {bp})
      /\ SameTags(h, new, {}) /\ Holds(h, new, bp)
  BY <1>1, <1>2, <1>4 DEF Joins
<1>6. Size(new, s) >= asize
  BY <1>2 DEF Joins, Block
<1>7. s \notin Taken(h, B) \ {bp}
  BY <1>1, <1>3 DEF FreeInRow
<1>8. s # NULL
  BY <1>3 DEF NULL
<1>9. Reallocates(h, B, bp, asize, new, s, C)
  BY <1>3, <1>5, <1>6, <1>7, <1>8 DEF Reallocates
<1> QED BY <1>5, <1>9 DEF new

(* Two blocks from the row whose tags are written.                         *)
LEMMA RowCut ==
  ASSUME NEW h \in Heap, NEW B, Tiled(h, B),
         NEW s \in B, NEW e \in B \cup {h.brk}, NEW m \in Int, (m % 2) = 0,
         s + 4 <= m, m + 4 <= e, NEW low \in {0, 1}, NEW high \in {0, 1}
  PROVE  IsCut(h, Cut(h, s, m, e, low, high), s, m, e, low, high)
<1>1. e \in Int /\ s \in Int /\ h.brk \in Int
  BY TiledApart
<1>2. s < e
  BY <1>1
<1>3. /\ (s % 2) = 0 /\ 4 <= s /\ (e % 2) = 0 /\ e <= h.brk
  BY <1>2, RowType
<1> QED BY <1>1, <1>3, TilesDivide

(* The block bp and the free block before it are divided anew.             *)
LEMMA CutLeft ==
  ASSUME NEW h, NEW B, Good(h, B), NEW bp \in Taken(h, B), NEW s \in FreeOf(h, B),
         s + Size(h, s) = bp, NEW e, e = bp + Size(h, bp),
         NEW m \in Int, (m % 2) = 0, s + 4 <= m, m + 4 <= e, m < bp
  PROVE  /\ Reallocates(h, B, bp, e - m, Cut(h, s, m, e, 0, 1), m, Replaced(B, s, e, {s, m}))
         /\ Holds(h, Cut(h, s, m, e, 0, 1), bp)
         /\ FreeAre(Cut(h, s, m, e, 0, 1), Replaced(B, s, e, {s, m}), FreeOf(h, B))
<1> DEFINE new == Cut(h, s, m, e, 0, 1)
           C == Replaced(B, s, e, {s, m})
           F == FreeOf(h, B)
           A == Taken(h, B) \ {bp}
<1>1. /\ h \in Heap /\ Tiled(h, B) /\ Laid(h, B, F) /\ bp \in B /\ s \in B /\ s \in F
      /\ bp \notin F
  BY DEF Good, Laid, Taken, FreeOf
<1>2. /\ \A b \in B : /\ b \in Int /\ Size(h, b) \in Int /\ Size(h, b) >= 4
                      /\ b + Size(h, b) \in B \cup {h.brk} /\ 4 <= b
                      /\ b + Size(h, b) <= h.brk /\ b - 1 \in Words
      /\ e \in Int /\ h.brk \in Int
  BY <1>1, TiledApart
<1>3. \A b \in B, c \in B : b < c => b + Size(h, b) <= c
  BY <1>1 DEF Tiled, Tiles
<1>4. e \in B \cup {h.brk} /\ s < bp /\ bp < e
  BY <1>1, <1>2
<1>5. \A b \in B : b < s \/ b >= e \/ b = s \/ b = bp
  <2> TAKE b \in B
  <2>1. (s < b => bp <= b) /\ (bp < b => e <= b)
    BY <1>1, <1>3
  <2>2. b \in Int /\ s \in Int /\ bp \in Int /\ e \in Int
    BY <1>1, <1>2
  <2> HIDE DEF F
  <2> QED BY <2>1, <2>2
<1>6. \A f \in F : f < s \/ f >= e \/ (f = s /\ 0 = 0)
  <2> TAKE f \in F
  <2>1. f \in B
    BY DEF FreeOf
  <2> QED BY <1>1, <1>5, <2>1
<1>7. Laid(new, C, F) /\ Outside(h, new, B, s, e)
  <2>1. 0 \in {0, 1} /\ 1 \in {0, 1}
    OBVIOUS
  <2> QED BY <1>1, <1>4, <1>6, <2>1, LaidDivide
<1>8. IsCut(h, new, s, m, e, 0, 1)
  <2>1. 0 \in {0, 1} /\ 1 \in {0, 1}
    OBVIOUS
  <2> QED BY <1>1, <1>4, <2>1, RowCut
<1>9. /\ s \in C /\ m \in C /\ \A b \in B : b < s \/ b >= e => b \in C
      /\ \A c \in C : c = s \/ c = m \/ (c \in B /\ (c < s \/ c >= e))
  BY DEF Replaced, Below, From
<1> HIDE DEF new, C, F
<1>10. /\ IsFree(new, s) /\ Size(new, s) = m - s
       /\ ~ IsFree(new, m) /\ Size(new, m) = e - m
  BY <1>8 DEF IsCut, Block
<1>11. \A b \in B : b < s \/ b >= e =>
         /\ Size(new, b) = Size(h, b) /\ (IsFree(new, b) <=> IsFree(h, b))
         /\ Stays(h, new, b)
  BY <1>7 DEF Outside
<1>12. m \notin B
  <2>1. s < m /\ m < bp
    BY <1>1, <1>2
  <2>2. m \in B => bp <= m
    BY <1>1, <1>3, <2>1
  <2> QED BY <1>1, <1>2, <2>1, <2>2
<1>13. FreeOf(new, C) = F
  <2>1. ASSUME NEW c \in C
        PROVE  IsFree(new, c) <=> c \in F
    <3>1. CASE c = s
      BY <1>1, <1>10, <3>1
    <3>2. CASE c = m
      BY <1>10, <1>12, <3>2 DEF F, FreeOf
    <3>3. CASE c # s /\ c # m
      <4>1. c \in B /\ (c < s \/ c >= e)
        BY <1>9, <3>3
      <4> QED BY <1>11, <4>1 DEF F, FreeOf
    <3> QED BY <3>1, <3>2, <3>3
  <2>2. F \subseteq C
    BY <1>7 DEF Laid
  <2> QED BY <2>1, <2>2 DEF FreeOf
<1>14. A = {b \in B : (b < s \/ b >= e) /\ ~ IsFree(h, b)}
  <2>1. ~ IsFree(h, bp) /\ IsFree(h, s)
    BY <1>1 DEF F, FreeOf
  <2>2. \A b \in B : b # bp /\ ~ IsFree(h, b) <=> (b < s \/ b >= e) /\ ~ IsFree(h, b)
    BY <1>1, <1>2, <1>4, <1>5, <2>1
  <2> QED BY <2>2 DEF Taken
<1>15. Taken(new, C) = A \cup {m}
  <2>1. \A c \in C : ~ IsFree(new, c) <=> c \in A \cup {m}
    <3> TAKE c \in C
    <3>1. CASE c = s
      BY <1>1, <1>2, <1>4, <1>10, <1>14, <3>1
    <3>2. CASE c = m
      BY <1>10, <3>2
    <3>3. CASE c # s /\ c # m
      <4>1. c \in B /\ (c < s \/ c >= e)
        BY <1>9, <3>3
      <4> QED BY <1>11, <1>14, <3>3, <4>1
    <3> QED BY <3>1, <3>2, <3>3
  <2>2. A \cup {m} \subseteq C
    BY <1>9, <1>14
  <2> QED BY <2>1, <2>2 DEF Taken
<1>16. Kept(h, new, A)
  BY <1>11, <1>14 DEF Kept
<1>17. Good(new, C)
  <2>1. \A f \in F : f + Size(new, f) \notin F
    <3> TAKE f \in F
    <3>1. CASE f = s
      <4>1. f + Size(new, f) = m
        BY <1>1, <1>2, <1>10, <3>1
      <4>2. F \subseteq B
        BY DEF F, FreeOf
      <4> QED BY <1>12, <4>1, <4>2
    <3>2. CASE f # s
      <4>1. f \in B /\ (f < s \/ f >= e)
        BY <1>1, <1>5, <3>2 DEF F, FreeOf
      <4>2. f + Size(h, f) \notin F
        BY DEF Good, F
      <4> QED BY <1>11, <4>1, <4>2
    <3> QED BY <3>1, <3>2
  <2> QED BY <1>7, <1>13, <2>1 DEF Good
<1>18. Holds(h, new, bp)
  <2>1. ASSUME NEW k \in bp .. bp + Size(h, bp) - 3
        PROVE  new.word[k] = h.word[k]
    <3>0. bp \in Int /\ Size(h, bp) \in Int /\ h.brk \in Int /\ 4 <= bp
          /\ bp + Size(h, bp) <= h.brk /\ h.brk <= MAX_HEAP /\ MAX_HEAP \in Int
      BY <1>1, TiledApart
    <3>1. k \in Words
      BY <3>0 DEF Words
    <3>2. k \notin {m - 1, e - 2} /\ k \notin {s - 1, m - 2}
      BY <1>1, <1>2, <1>4, <3>0
    <3> QED BY <1>8, <3>1, <3>2 DEF IsCut
  <2> QED BY <2>1 DEF Holds
<1>19. SameTags(h, new, {})
  BY <1>7 DEF Outside, SameTags
<1>20. m # NULL /\ m \notin A
  BY <1>1, <1>2, <1>12, <1>14 DEF NULL
<1>21. Size(new, m) >= e - m
  BY <1>2, <1>10
<1>22. Becomes(h, new, C, A \cup {m}, A)
  BY <1>15, <1>16, <1>17 DEF Becomes
<1>23. Reallocates(h, B, bp, e - m, new, m, C)
  BY <1>19, <1>20, <1>21, <1>22 DEF Reallocates
<1> QED BY <1>13, <1>18, <1>23 DEF FreeAre, new, C, F


(* The block bp takes the beginning of the free block x behind it.         *)
LEMMA SplitRight ==
  ASSUME NEW h, NEW B, Good(h, B), NEW bp \in Taken(h, B), NEW x \in FreeOf(h, B),
         x = bp + Size(h, bp), NEW e, e = x + Size(h, x),
         NEW m \in Int, (m % 2) = 0, x < m, m + 4 <= e
  PROVE  /\ Reallocates(h, B, bp, m - bp, Replace(h, bp, m, e, x), bp,
                        Replaced(B, bp, e, {bp, m}))
         /\ Holds(h, Replace(h, bp, m, e, x), bp)
         /\ LastInRow(h, B, bp, m, e, x)
<1> DEFINE new == Replace(h, bp, m, e, x)
           C == Replaced(B, bp, e, {bp, m})
<1>1. /\ h \in Heap /\ Tiled(h, B) /\ bp \in B /\ x \in B
      /\ \A f \in FreeOf(h, B) : f \in B /\ f # bp
      /\ \A b \in Taken(h, B) : b \in B /\ b # x
  BY DEF Good, Laid, Taken, FreeOf
<1>2. /\ \A b \in B : /\ b \in Int /\ Size(h, b) \in Int /\ Size(h, b) >= 4
                      /\ b + Size(h, b) \in B \cup {h.brk} /\ 4 <= b
                      /\ b + Size(h, b) <= h.brk
      /\ h.brk \in Int /\ h.brk <= MAX_HEAP /\ MAX_HEAP \in Int
  BY <1>1, TiledApart
<1>3. \A b \in B, c \in B : b < c => b + Size(h, b) <= c
  BY <1>1 DEF Tiled, Tiles
<1>4. /\ bp \in Int /\ x \in Int /\ Size(h, bp) \in Int /\ Size(h, x) \in Int
      /\ e \in Int /\ Size(h, bp) >= 4 /\ Size(h, x) >= 4 /\ e \in B \cup {h.brk}
      /\ e <= h.brk /\ 4 <= bp
  BY <1>1, <1>2
<1>5. \A b \in B : b < bp \/ b >= e \/ b = bp \/ b = x
  <2> TAKE b \in B
  <2>1. (bp < b => x <= b) /\ (x < b => e <= b)
    BY <1>1, <1>3
  <2>2. b \in Int
    BY <1>2
  <2> QED BY <1>4, <2>1, <2>2
<1>6. LastInRow(h, B, bp, m, e, x)
  <2>1. \A f \in FreeOf(h, B) \ {x} : f < bp \/ f >= e
    BY <1>1, <1>5
  <2>2. \A b \in Taken(h, B) \ {bp} : b < bp \/ b >= e
    BY <1>1, <1>5
  <2>3. bp + 4 <= m /\ bp <= x /\ x # m
    BY <1>4
  <2> QED BY <1>1, <1>4, <2>1, <2>2, <2>3 DEF LastInRow
<1>7. Splits(h, B, bp, m, e, x, new)
  BY <1>6, SplitGood
<1> HIDE DEF new, C
<1>8. Becomes(h, new, C, (Taken(h, B) \ {bp}) \cup {bp}, Taken(h, B) \ {bp})
  <2>1. (Taken(h, B) \ {bp}) \cup {bp} = Taken(h, B) \cup {bp}
    OBVIOUS
  <2> QED BY <1>7, <2>1 DEF Splits, C
<1>9. SameTags(h, new, {}) /\ Size(new, bp) >= m - bp
  BY <1>4, <1>7 DEF Splits, Block
<1>10. Holds(h, new, bp)
  <2>1. ASSUME NEW k \in bp .. bp + Size(h, bp) - 3
        PROVE  new.word[k] = h.word[k]
    <3>1. k \in Words
      BY <1>2, <1>4 DEF Words
    <3>2. k \notin Words \ (bp .. m - 3)
      BY <1>4
    <3>3. k \in Words
      BY <3>1
    <3> QED BY <1>7, <3>1, <3>2 DEF Splits, Writes
  <2> QED BY <2>1 DEF Holds
<1>11. bp # NULL /\ bp \notin Taken(h, B) \ {bp}
  BY <1>4 DEF NULL
<1>12. Reallocates(h, B, bp, m - bp, new, bp, C)
  BY <1>4, <1>8, <1>9, <1>11 DEF Reallocates
<1> QED BY <1>6, <1>10, <1>12 DEF new, C

(* The words of a payload that a smaller one leaves it are what they were. *)
HoldsUpTo(h, g, bp, m) == \A k \in bp .. m - 3 : g.word[k] = h.word[k]

(* The block bp is cut in two in new, which has the blocks A, and the free *)
(* block at m is not listed.                                               *)
BlockCut(h, B, bp, m, e, new, A) ==
  /\ GoodBut(new, A, m)
  /\ Taken(new, A) = Taken(h, B)
  /\ Kept(h, new, Taken(h, B) \ {bp})
  /\ FreeAre(new, A, FreeOf(h, B) \cup {m})
  /\ m \notin FreeOf(h, B)
  /\ IsCut(h, new, bp, m, e, 1, 0)
  /\ \A f \in FreeOf(h, B) : f < bp \/ f >= e

(* What Shrink makes of the block, before it coalesces the rest.           *)
LEMMA CutBlock ==
  ASSUME NEW h, NEW B, Good(h, B), NEW bp \in Taken(h, B), NEW e, e = bp + Size(h, bp),
         NEW m \in Int, (m % 2) = 0, bp + 4 <= m, m + 4 <= e
  PROVE  BlockCut(h, B, bp, m, e, Cut(h, bp, m, e, 1, 0), Replaced(B, bp, e, {bp, m}))
<1> DEFINE new == Cut(h, bp, m, e, 1, 0)
           C == Replaced(B, bp, e, {bp, m})
           F == FreeOf(h, B)
<1>1. /\ h \in Heap /\ Tiled(h, B) /\ Laid(h, B, F) /\ bp \in B /\ bp \notin F
      /\ ~ IsFree(h, bp) /\ \A f \in F : f \in B
  BY DEF Good, Laid, Taken, FreeOf
<1>2. /\ e \in B \cup {h.brk} /\ bp < e /\ \A b \in B \ {bp} : b < bp \/ b >= e
      /\ bp \in Int /\ e \in Int
  BY <1>1, RowOne, TiledApart
<1>3. m \notin B /\ m \notin F
  BY <1>1, <1>2
<1>4. \A f \in F : f < bp \/ f >= e
  BY <1>1, <1>2
<1>5. \A f \in F : f < bp \/ f >= e \/ (f = bp /\ 1 = 0)
  BY <1>4
<1>6. Laid(new, C, F) /\ Outside(h, new, B, bp, e)
  <2>1. 0 \in {0, 1} /\ 1 \in {0, 1}
    OBVIOUS
  <2> QED BY <1>1, <1>2, <1>5, <2>1, LaidDivide
<1>7. IsCut(h, new, bp, m, e, 1, 0)
  <2>1. 0 \in {0, 1} /\ 1 \in {0, 1}
    OBVIOUS
  <2> QED BY <1>1, <1>2, <2>1, RowCut
<1>8. /\ bp \in C /\ m \in C /\ \A b \in B : b < bp \/ b >= e => b \in C
      /\ \A c \in C : c = bp \/ c = m \/ (c \in B /\ (c < bp \/ c >= e))
  BY DEF Replaced, Below, From
<1> HIDE DEF new, C, F
<1>9. /\ ~ IsFree(new, bp) /\ Size(new, bp) = m - bp
      /\ IsFree(new, m) /\ Size(new, m) = e - m
  BY <1>7 DEF IsCut, Block
<1>10. \A b \in B : b < bp \/ b >= e =>
         /\ Size(new, b) = Size(h, b) /\ (IsFree(new, b) <=> IsFree(h, b))
         /\ Stays(h, new, b)
  BY <1>6 DEF Outside
<1>11. FreeOf(new, C) = F \cup {m}
  <2>1. ASSUME NEW c \in C
        PROVE  IsFree(new, c) <=> c \in F \cup {m}
    <3>1. CASE c = bp
      BY <1>1, <1>2, <1>9, <3>1
    <3>2. CASE c = m
      BY <1>9, <3>2
    <3>3. CASE c # bp /\ c # m
      <4>1. c \in B /\ (c < bp \/ c >= e)
        BY <1>8, <3>3
      <4> QED BY <1>10, <3>3, <4>1 DEF F, FreeOf
    <3> QED BY <3>1, <3>2, <3>3
  <2>2. F \cup {m} \subseteq C
    BY <1>6, <1>8 DEF Laid
  <2> QED BY <2>1, <2>2 DEF FreeOf
<1>12. Taken(new, C) = Taken(h, B)
  <2>1. \A c \in C : ~ IsFree(new, c) <=> c \in Taken(h, B)
    <3> TAKE c \in C
    <3>1. CASE c = bp
      BY <1>9, <3>1
    <3>2. CASE c = m
      BY <1>3, <1>9, <3>2 DEF Taken
    <3>3. CASE c # bp /\ c # m
      <4>1. c \in B /\ (c < bp \/ c >= e)
        BY <1>8, <3>3
      <4> QED BY <1>10, <4>1 DEF Taken
    <3> QED BY <3>1, <3>2, <3>3
  <2>2. Taken(h, B) \subseteq C
    BY <1>2, <1>8 DEF Taken
  <2> QED BY <2>1, <2>2 DEF Taken
<1>13. Kept(h, new, Taken(h, B) \ {bp})
  <2>1. \A b \in Taken(h, B) \ {bp} : b \in B /\ (b < bp \/ b >= e)
    BY <1>2 DEF Taken
  <2> QED BY <1>10, <2>1 DEF Kept
<1>14. GoodBut(new, C, m)
  <2>1. \A f \in F : f + Size(new, f) \notin F
    <3> TAKE f \in F
    <3>1. f \in B /\ (f < bp \/ f >= e)
      BY <1>1, <1>4
    <3>2. f + Size(h, f) \notin F
      BY DEF Good, F
    <3> QED BY <1>10, <3>1, <3>2
  <2> QED BY <1>3, <1>6, <1>8, <1>11, <2>1, GoodButOne
<1> QED BY <1>3, <1>4, <1>7, <1>11, <1>12, <1>13, <1>14 DEF BlockCut, FreeAre, new, C, F

(* The blocks when the block bp has given back what is behind m.           *)
ShrunkBlocks(h, B, bp, m, e) ==
  Merged(Cut(h, bp, m, e, 1, 0), Replaced(B, bp, e, {bp, m}), m)

(* The block bp gives back what is behind m.                               *)
LEMMA ShrinkGood ==
  ASSUME NEW h, NEW B, Good(h, B), NEW bp \in Taken(h, B), NEW e, e = bp + Size(h, bp),
         NEW m \in Int, (m % 2) = 0, bp + 4 <= m, m + 4 <= e
  PROVE  /\ Reallocates(h, B, bp, m - bp, coalesce(Cut(h, bp, m, e, 1, 0), m).heap, bp,
                        ShrunkBlocks(h, B, bp, m, e))
         /\ HoldsUpTo(h, coalesce(Cut(h, bp, m, e, 1, 0), m).heap, bp, m)
<1> DEFINE one == Cut(h, bp, m, e, 1, 0)
           A == Replaced(B, bp, e, {bp, m})
           new == coalesce(one, m).heap
           C == ShrunkBlocks(h, B, bp, m, e)
<1>1. /\ h \in Heap /\ Tiled(h, B) /\ bp \in B
  BY DEF Good, Laid, Taken
<1>2. /\ bp \in Int /\ e \in Int /\ 4 <= bp /\ e <= h.brk /\ h.brk \in Int
      /\ h.brk <= MAX_HEAP /\ MAX_HEAP \in Int
  BY <1>1, TiledApart
<1>3. /\ GoodBut(one, A, m) /\ Taken(one, A) = Taken(h, B)
      /\ Kept(h, one, Taken(h, B) \ {bp})
      /\ IsCut(h, one, bp, m, e, 1, 0)
  <2>1. BlockCut(h, B, bp, m, e, one, A)
    BY CutBlock
  <2> HIDE DEF one, A
  <2> QED BY <2>1 DEF BlockCut
<1>4. C = Merged(one, A, m)
  BY DEF ShrunkBlocks
<1> HIDE DEF one, A, C
<1>5. /\ Good(new, C) /\ Keeps(one, A, new, C) /\ SameTags(one, new, {})
  BY <1>3, <1>4, Coalesce
<1> HIDE DEF new
<1>6. /\ Taken(new, C) = Taken(h, B) /\ Kept(one, new, Taken(h, B))
  BY <1>3, <1>5 DEF Keeps
<1>7. /\ one.brk = h.brk /\ Size(one, bp) = m - bp
      /\ \A k \in Words : k \notin {m - 1, e - 2, bp - 1, m - 2} => one.word[k] = h.word[k]
  BY <1>3 DEF IsCut, Block
<1>8. Size(new, bp) = m - bp /\ Stays(one, new, bp)
  BY <1>6, <1>7 DEF Kept
<1>9. HoldsUpTo(h, new, bp, m)
  <2>1. ASSUME NEW k \in bp .. m - 3
        PROVE  new.word[k] = h.word[k]
    <3>1. k \in Words /\ k \notin {m - 1, e - 2, bp - 1, m - 2}
      BY <1>2 DEF Words
    <3>2. k \in Span(one, bp)
      BY <1>2, <1>7 DEF Span
    <3> QED BY <1>7, <1>8, <3>1, <3>2 DEF Stays
  <2> QED BY <2>1 DEF HoldsUpTo
<1>10. Kept(h, new, Taken(h, B) \ {bp})
  <2>1. Kept(one, new, Taken(h, B) \ {bp})
    BY <1>6 DEF Kept
  <2> QED BY <1>3, <2>1, KeptTwice
<1>11. (Taken(h, B) \ {bp}) \cup {bp} = Taken(h, B)
  OBVIOUS
<1>12. Becomes(h, new, C, (Taken(h, B) \ {bp}) \cup {bp}, Taken(h, B) \ {bp})
  BY <1>5, <1>6, <1>10, <1>11 DEF Becomes
<1>13. SameTags(h, new, {})
  BY <1>5, <1>7 DEF SameTags
<1>14. bp # NULL /\ bp \notin Taken(h, B) \ {bp} /\ Size(new, bp) >= m - bp
  BY <1>2, <1>8 DEF NULL
<1>15. Reallocates(h, B, bp, m - bp, new, bp, C)
  BY <1>2, <1>12, <1>13, <1>14 DEF Reallocates
<1> QED BY <1>9, <1>15 DEF new, one, C


(* The words of the payload that a block of this size has room for.        *)
Saved(h, g, bp, asize) ==
  \A k \in bp .. bp + asize - 5 : k <= bp + Size(h, bp) - 3 => g.word[k] = h.word[k]

(* A block is reallocated where it is, or next to that, and the data is    *)
(* still there.                                                            *)
InPlace(h, B, bp, asize, r, C) ==
  Reallocates(h, B, bp, asize, r.heap, r.ptr, C) /\ Saved(h, r.heap, bp, asize)

(* A payload that is held is saved.                                        *)
LEMMA HoldsSaved ==
  ASSUME NEW h, NEW g, NEW bp \in Int, NEW asize \in Int, Size(h, bp) \in Int, Holds(h, g, bp)
  PROVE  Saved(h, g, bp, asize)
BY DEF Holds, Saved

(* The block stays where it is, and may give something back.               *)
HereBlocks(h, B, bp, asize) ==
  IF Size(h, bp) - asize >= MIN_B_SIZE THEN ShrunkBlocks(h, B, bp, bp + asize, Stop(h, bp))
  ELSE B

(* The block that stays keeps its payload in a consistent heap.            *)
LEMMA HereGood ==
  ASSUME NEW h, NEW B, Good(h, B), NEW bp \in Taken(h, B),
         NEW asize \in Int, (asize % 2) = 0, asize >= 4, asize <= Size(h, bp)
  PROVE  InPlace(h, B, bp, asize, Shrink(h, bp, asize, Size(h, bp) - asize),
                 HereBlocks(h, B, bp, asize))
<1> DEFINE rest == Size(h, bp) - asize
           r == Shrink(h, bp, asize, rest)
           e == Stop(h, bp)
           m == bp + asize
<1>1. /\ h \in Heap /\ Tiled(h, B) /\ bp \in B
  BY DEF Good, Laid, Taken
<1>2. /\ bp \in Int /\ Size(h, bp) \in Int /\ (bp % 2) = 0 /\ 4 <= bp
  BY <1>1, TiledApart
<1>3. m - bp = asize /\ e - m = rest /\ e = bp + Size(h, bp) /\ m \in Int /\ (m % 2) = 0
  BY <1>2 DEF Stop
<1>4. CASE rest >= MIN_B_SIZE
  <2> DEFINE new == coalesce(Cut(h, bp, m, e, 1, 0), m).heap
             C == ShrunkBlocks(h, B, bp, m, e)
  <2>1. bp + 4 <= m /\ m + 4 <= e
    BY <1>2, <1>3, <1>4 DEF MIN_B_SIZE
  <2>2. r = Result(new, bp)
    BY <1>3, <1>4 DEF Shrink, Cut
  <2>3. HereBlocks(h, B, bp, asize) = C
    BY <1>4 DEF HereBlocks
  <2> HIDE DEF r, e, m
  <2>4. Reallocates(h, B, bp, m - bp, new, bp, C) /\ HoldsUpTo(h, new, bp, m)
    BY <1>3, <2>1, ShrinkGood
  <2>5. Saved(h, new, bp, asize)
    BY <1>2, <1>3, <2>4 DEF HoldsUpTo, Saved
  <2> HIDE DEF new, C
  <2>6. Reallocates(h, B, bp, asize, new, bp, C)
    BY <1>3, <2>4
  <2>7. InPlace(h, B, bp, asize, r, C)
    BY <2>2, <2>5, <2>6 DEF InPlace, Result
  <2> QED BY <2>3, <2>7 DEF r
<1>5. CASE ~ (rest >= MIN_B_SIZE)
  <2>1. r = Result(h, bp) /\ HereBlocks(h, B, bp, asize) = B
    BY <1>5 DEF Shrink, HereBlocks
  <2>2. (Taken(h, B) \ {bp}) \cup {bp} = Taken(h, B)
    OBVIOUS
  <2>3. Becomes(h, h, B, Taken(h, B), Taken(h, B) \ {bp})
    BY DEF Becomes, Kept, Stays
  <2>4. SameTags(h, h, {}) /\ Saved(h, h, bp, asize)
    BY DEF SameTags, Saved
  <2>5. bp # NULL /\ bp \notin Taken(h, B) \ {bp} /\ Size(h, bp) >= asize
    BY <1>2 DEF NULL
  <2>6. Reallocates(h, B, bp, asize, h, bp, B)
    BY <1>2, <2>2, <2>3, <2>4, <2>5 DEF Reallocates
  <2> HIDE DEF r
  <2>7. InPlace(h, B, bp, asize, r, B)
    BY <2>1, <2>4, <2>6 DEF InPlace, Result
  <2> QED BY <2>1, <2>7 DEF r
<1> QED BY <1>4, <1>5

(* It moves to the end of itself and the free block before it.             *)
LeftBlocks(h, B, bp, asize) ==
  IF Stop(h, bp) - PrevOf(h, bp) - asize >= MIN_B_SIZE
  THEN Replaced(B, PrevOf(h, bp), Stop(h, bp), {PrevOf(h, bp), Stop(h, bp) - asize})
  ELSE Replaced(B, PrevOf(h, bp), Stop(h, bp), {PrevOf(h, bp)})

(* The block that moves left takes its payload with it.                    *)
LEMMA LeftGood ==
  ASSUME NEW h, NEW B, Good(h, B), NEW bp, RoomLeft(h, B, bp),
         NEW asize \in Int, (asize % 2) = 0, asize > Size(h, bp),
         NEW rest, rest = Stop(h, bp) - PrevOf(h, bp) - asize, rest >= 0
  PROVE  InPlace(h, B, bp, asize, GrowLeft(h, PrevOf(h, bp), asize, rest),
                 LeftBlocks(h, B, bp, asize))
<1> DEFINE s == PrevOf(h, bp)
           e == Stop(h, bp)
           m == e - asize
           r == GrowLeft(h, s, asize, rest)
<1>1. /\ h \in Heap /\ Tiled(h, B)
  BY DEF Good, Laid
<1>2. Surrounds(h, B, bp, TRUE, s, FALSE, NextOf(h, bp), s, e)
  BY DEF RoomLeft
<1>3. /\ bp \in Taken(h, B) /\ s \in FreeOf(h, B) /\ s + Size(h, s) = bp
      /\ FreeInRow(h, B, TRUE, s, FALSE, NextOf(h, bp), s, e)
  BY <1>2 DEF Surrounds, FreeInRow
<1>4. bp \in B /\ s \in B /\ e = bp + Size(h, bp)
  BY <1>3 DEF Taken, FreeOf, Stop
<1>5. /\ bp \in Int /\ s \in Int /\ Size(h, bp) \in Int /\ Size(h, s) \in Int /\ 4 <= s
      /\ (bp % 2) = 0 /\ (Size(h, bp) % 2) = 0 /\ (s % 2) = 0 /\ e \in Int
      /\ Size(h, bp) >= 4
  BY <1>1, <1>4, TiledApart
<1> HIDE DEF s, e
<1>6. rest = e - s - asize
  BY DEF s, e
<1>7. m \in Int /\ (m % 2) = 0 /\ e - m = asize /\ m - s = rest /\ s + rest = m /\ m < bp
  BY <1>4, <1>5, <1>6
<1>8. CASE rest >= MIN_B_SIZE
  <2> DEFINE new == Cut(h, s, m, e, 0, 1)
             C == Replaced(B, s, e, {s, m})
  <2>1. s + 4 <= m /\ m + 4 <= e
    BY <1>4, <1>5, <1>7, <1>8 DEF MIN_B_SIZE
  <2>2. r = Result(new, m)
    BY <1>7, <1>8 DEF GrowLeft, Cut
  <2>3. LeftBlocks(h, B, bp, asize) = C
    BY <1>6, <1>8 DEF LeftBlocks, s, e
  <2> HIDE DEF r, m
  <2>4. Reallocates(h, B, bp, e - m, new, m, C) /\ Holds(h, new, bp)
    BY <1>3, <1>4, <1>7, <2>1, CutLeft
  <2>5. Saved(h, new, bp, asize)
    BY <1>5, <2>4, HoldsSaved
  <2> HIDE DEF new, C
  <2>6. Reallocates(h, B, bp, asize, new, m, C)
    BY <1>7, <2>4
  <2>7. InPlace(h, B, bp, asize, r, C)
    BY <2>2, <2>5, <2>6 DEF InPlace, Result
  <2> QED BY <2>3, <2>7 DEF r, s
<1>9. CASE ~ (rest >= MIN_B_SIZE)
  <2> DEFINE new == Joined(h, TRUE, s, FALSE, NextOf(h, bp), s, e)
             C == Replaced(B, s, e, {s})
  <2>1. r = Result(new, s)
    <3>1. asize + rest = e - s
      BY <1>5, <1>6
    <3> QED BY <1>9, <3>1 DEF GrowLeft, Joined, Unlisted, RemoveIf
  <2>2. LeftBlocks(h, B, bp, asize) = C
    BY <1>6, <1>9 DEF LeftBlocks, s, e
  <2> HIDE DEF r
  <2>3. e - s >= asize
    BY <1>5, <1>6
  <2>4. Reallocates(h, B, bp, asize, new, s, C) /\ Holds(h, new, bp)
    BY <1>2, <2>3, TakeRow
  <2> HIDE DEF new, C
  <2>5. Saved(h, new, bp, asize)
    BY <1>5, <2>4, HoldsSaved
  <2>6. InPlace(h, B, bp, asize, r, C)
    BY <2>1, <2>4, <2>5 DEF InPlace, Result
  <2> QED BY <2>2, <2>6 DEF r, s
<1> QED BY <1>8, <1>9


(* It takes the free block behind it, or the beginning of that.            *)
RightBlocks(h, B, bp, asize) ==
  IF Stop(h, NextOf(h, bp)) - bp - asize >= MIN_B_SIZE
  THEN Replaced(B, bp, Stop(h, NextOf(h, bp)), {bp, bp + asize})
  ELSE Replaced(B, bp, Stop(h, NextOf(h, bp)), {bp})

(* What GrowRight leaves: the row from bp up to e, divided at m or joined. *)
GrowsRight(h, B, bp, asize, rest, x, e, m, r, C) ==
  /\ bp \in Taken(h, B) /\ x \in FreeOf(h, B) /\ x = bp + Size(h, bp) /\ e = x + Size(h, x)
  /\ bp \in Int /\ Size(h, bp) \in Int /\ e \in Int
  /\ m \in Int /\ (m % 2) = 0 /\ x < m /\ m - bp = asize /\ e - bp >= asize
  /\ rest >= MIN_B_SIZE => m + 4 <= e
  /\ r = Result(IF rest >= MIN_B_SIZE THEN Replace(h, bp, m, e, x)
                ELSE Joined(h, FALSE, PrevOf(h, bp), TRUE, x, bp, e), bp)
  /\ C = IF rest >= MIN_B_SIZE THEN Replaced(B, bp, e, {bp, m})
         ELSE Replaced(B, bp, e, {bp})

(* GrowRight joins the block and the free one after it, or splits what is  *)
(* left.                                                                   *)
LEMMA RightSteps ==
  ASSUME NEW h, NEW B, Good(h, B), NEW bp, RoomRight(h, B, bp),
         NEW asize \in Int, (asize % 2) = 0, asize > Size(h, bp),
         NEW rest, rest = Stop(h, NextOf(h, bp)) - bp - asize, rest >= 0
  PROVE  GrowsRight(h, B, bp, asize, rest, NextOf(h, bp), Stop(h, NextOf(h, bp)), bp + asize,
                    GrowRight(h, bp, NextOf(h, bp), asize, rest), RightBlocks(h, B, bp, asize))
<1> DEFINE x == NextOf(h, bp)
           e == Stop(h, x)
           m == bp + asize
           r == GrowRight(h, bp, x, asize, rest)
<1>1. /\ h \in Heap /\ Tiled(h, B)
  BY DEF Good, Laid
<1>2. /\ bp \in Taken(h, B) /\ x \in FreeOf(h, B) /\ x = bp + Size(h, bp)
  BY DEF RoomRight, Surrounds, FreeInRow
<1>3. bp \in B /\ x \in B /\ e = x + Size(h, x)
  BY <1>2 DEF Taken, FreeOf, Stop
<1>4. /\ bp \in Int /\ x \in Int /\ Size(h, bp) \in Int /\ Size(h, x) \in Int
      /\ (bp % 2) = 0 /\ Size(h, x) >= 4
  BY <1>1, <1>3, TiledApart
<1>5. e \in Int /\ (m % 2) = 0 /\ x < m /\ m - bp = asize /\ e - m = rest
      /\ (rest >= MIN_B_SIZE => m + 4 <= e) /\ asize + rest = e - bp
  BY <1>2, <1>3, <1>4 DEF MIN_B_SIZE
<1>6. x = NEXT_BLKP(h, bp)
  BY DEF NextOf
<1>7. r = Result(IF rest >= MIN_B_SIZE THEN Replace(h, bp, m, e, x)
                 ELSE Joined(h, FALSE, PrevOf(h, bp), TRUE, x, bp, e), bp)
  <2> HIDE DEF x, e, m
  <2>1. CASE rest >= MIN_B_SIZE
    <3>1. r = Result(expand_alloc_block_right(h, bp, asize, rest), bp)
      BY <2>1 DEF GrowRight
    <3>2. expand_alloc_block_right(h, bp, asize, rest) =
            Split(h, bp, asize, rest, PRED_BLKP(h, x), SUCC_BLKP(h, x))
      BY <1>6 DEF expand_alloc_block_right
    <3>3. Split(h, bp, asize, rest, PRED_BLKP(h, x), SUCC_BLKP(h, x)) = Replace(h, bp, m, e, x)
      BY <1>5 DEF Split, Replace, Cut, m
    <3> QED BY <2>1, <3>1, <3>2, <3>3
  <2>2. CASE ~ (rest >= MIN_B_SIZE)
    BY <1>5, <2>2 DEF GrowRight, Joined, Unlisted, RemoveIf
  <2> QED BY <2>1, <2>2
<1>8. RightBlocks(h, B, bp, asize) =
        IF rest >= MIN_B_SIZE THEN Replaced(B, bp, e, {bp, m}) ELSE Replaced(B, bp, e, {bp})
  BY DEF RightBlocks
<1>9. m \in Int /\ e - bp >= asize
  BY <1>4, <1>5
<1> HIDE DEF x, e, m, r
<1>10. GrowsRight(h, B, bp, asize, rest, x, e, m, r, RightBlocks(h, B, bp, asize))
  BY <1>2, <1>3, <1>4, <1>5, <1>7, <1>8, <1>9 DEF GrowsRight
<1> QED BY <1>10 DEF x, e, m, r

(* The block that grows to the right keeps its payload.                    *)
LEMMA RightGood ==
  ASSUME NEW h, NEW B, Good(h, B), NEW bp, RoomRight(h, B, bp),
         NEW asize \in Int, (asize % 2) = 0, asize > Size(h, bp),
         NEW rest, rest = Stop(h, NextOf(h, bp)) - bp - asize, rest >= 0
  PROVE  InPlace(h, B, bp, asize, GrowRight(h, bp, NextOf(h, bp), asize, rest),
                 RightBlocks(h, B, bp, asize))
<1> DEFINE x == NextOf(h, bp)
           e == Stop(h, x)
           m == bp + asize
           r == GrowRight(h, bp, x, asize, rest)
           C == RightBlocks(h, B, bp, asize)
<1>0. GrowsRight(h, B, bp, asize, rest, x, e, m, r, C)
  BY RightSteps
<1>3. Surrounds(h, B, bp, FALSE, PrevOf(h, bp), TRUE, x, bp, e)
  BY DEF RoomRight
<1> HIDE DEF x, e, m, r, C
<1>1. /\ bp \in Taken(h, B) /\ x \in FreeOf(h, B) /\ x = bp + Size(h, bp)
      /\ e = x + Size(h, x) /\ bp \in Int /\ Size(h, bp) \in Int /\ e \in Int
      /\ (m % 2) = 0 /\ x < m
      /\ rest >= MIN_B_SIZE => m + 4 <= e
      /\ r = Result(IF rest >= MIN_B_SIZE THEN Replace(h, bp, m, e, x)
                    ELSE Joined(h, FALSE, PrevOf(h, bp), TRUE, x, bp, e), bp)
      /\ C = IF rest >= MIN_B_SIZE THEN Replaced(B, bp, e, {bp, m})
             ELSE Replaced(B, bp, e, {bp})
  BY <1>0 DEF GrowsRight
<1>2. m \in Int /\ m - bp = asize /\ e - bp >= asize
  BY <1>0 DEF GrowsRight
<1>4. CASE rest >= MIN_B_SIZE
  <2> DEFINE new == Replace(h, bp, m, e, x)
  <2>1. Reallocates(h, B, bp, m - bp, new, bp, Replaced(B, bp, e, {bp, m}))
        /\ Holds(h, new, bp)
    BY <1>1, <1>2, <1>4, SplitRight
  <2> HIDE DEF new
  <2>2. Saved(h, new, bp, asize)
    BY <1>1, <2>1, HoldsSaved
  <2>3. r = Result(new, bp) /\ C = Replaced(B, bp, e, {bp, m})
    BY <1>1, <1>4 DEF new
  <2>4. InPlace(h, B, bp, asize, r, C)
    BY <1>2, <2>1, <2>2, <2>3 DEF InPlace, Result
  <2> QED BY <2>4 DEF r, C, x
<1>5. CASE ~ (rest >= MIN_B_SIZE)
  <2> DEFINE new == Joined(h, FALSE, PrevOf(h, bp), TRUE, x, bp, e)
  <2>1. Reallocates(h, B, bp, asize, new, bp, Replaced(B, bp, e, {bp})) /\ Holds(h, new, bp)
    BY <1>2, <1>3, TakeRow
  <2> HIDE DEF new
  <2>2. Saved(h, new, bp, asize)
    BY <1>1, <2>1, HoldsSaved
  <2>3. r = Result(new, bp) /\ C = Replaced(B, bp, e, {bp})
    BY <1>1, <1>5 DEF new
  <2>4. InPlace(h, B, bp, asize, r, C)
    BY <2>1, <2>2, <2>3 DEF InPlace, Result
  <2> QED BY <2>4 DEF r, C, x
<1> QED BY <1>4, <1>5

(* It takes the free blocks on both sides, if nothing is left of them.     *)
BothBlocks(h, B, bp) ==
  Replaced(B, PrevOf(h, bp), Stop(h, NextOf(h, bp)), {PrevOf(h, bp)})

(* The block and its free neighbours, as one allocated block.              *)
BothJoined(h, bp) ==
  Joined(h, TRUE, PrevOf(h, bp), TRUE, NextOf(h, bp), PrevOf(h, bp), Stop(h, NextOf(h, bp)))

(* GrowBoth, when nothing is left over, joins three blocks into one.       *)
LEMMA BothSteps ==
  ASSUME NEW h, NEW B, Good(h, B), NEW bp, RoomBoth(h, B, bp), NEW asize \in Int,
         NEW rest, rest = Stop(h, NextOf(h, bp)) - PrevOf(h, bp) - asize,
         ~ (rest >= MIN_B_SIZE)
  PROVE  /\ bp \in Int /\ Size(h, bp) \in Int
         /\ Stop(h, NextOf(h, bp)) \in Int /\ PrevOf(h, bp) \in Int
         /\ GrowBoth(h, PrevOf(h, bp), NextOf(h, bp), asize, rest) =
              Result(BothJoined(h, bp), PrevOf(h, bp))
<1> DEFINE s == PrevOf(h, bp)
           x == NextOf(h, bp)
           e == Stop(h, x)
<1>1. /\ h \in Heap /\ Tiled(h, B)
  BY DEF Good, Laid
<1>2. /\ bp \in Taken(h, B) /\ x \in FreeOf(h, B) /\ s \in FreeOf(h, B)
  BY DEF RoomBoth, Surrounds, FreeInRow
<1>3. bp \in B /\ x \in B /\ s \in B
  BY <1>2 DEF Taken, FreeOf
<1>4. /\ bp \in Int /\ x \in Int /\ Size(h, bp) \in Int /\ Size(h, x) \in Int /\ s \in Int
  BY <1>1, <1>3, TiledApart
<1>5. e \in Int /\ asize + rest = e - s
  BY <1>4 DEF Stop
<1> HIDE DEF s, x, e
<1>6. GrowBoth(h, s, x, asize, rest) = Result(Joined(h, TRUE, s, TRUE, x, s, e), s)
  BY <1>5 DEF GrowBoth, Joined, Unlisted, RemoveIf
<1> QED BY <1>4, <1>5, <1>6 DEF s, x, e, BothJoined

(* The block that grows to both sides takes its payload with it.           *)
LEMMA BothGood ==
  ASSUME NEW h, NEW B, Good(h, B), NEW bp, RoomBoth(h, B, bp), NEW asize \in Int,
         NEW rest, rest = Stop(h, NextOf(h, bp)) - PrevOf(h, bp) - asize, rest >= 0,
         ~ (rest >= MIN_B_SIZE)
  PROVE  InPlace(h, B, bp, asize, GrowBoth(h, PrevOf(h, bp), NextOf(h, bp), asize, rest),
                 BothBlocks(h, B, bp))
<1> DEFINE s == PrevOf(h, bp)
           x == NextOf(h, bp)
           e == Stop(h, x)
           r == GrowBoth(h, s, x, asize, rest)
           C == BothBlocks(h, B, bp)
           new == BothJoined(h, bp)
<1>1. /\ bp \in Int /\ Size(h, bp) \in Int /\ e \in Int /\ s \in Int
      /\ r = Result(new, s)
  BY BothSteps
<1>2. e - s >= asize
  BY <1>1
<1>3. Surrounds(h, B, bp, TRUE, s, TRUE, x, s, e)
  BY DEF RoomBoth
<1>4. new = Joined(h, TRUE, s, TRUE, x, s, e) /\ C = Replaced(B, s, e, {s})
  BY DEF BothJoined, BothBlocks
<1> HIDE DEF s, x, e, r, C, new
<1>5. Reallocates(h, B, bp, asize, Joined(h, TRUE, s, TRUE, x, s, e), s,
                  Replaced(B, s, e, {s}))
      /\ Holds(h, Joined(h, TRUE, s, TRUE, x, s, e), bp)
  BY <1>2, <1>3, TakeRow
<1>6. Saved(h, new, bp, asize)
  BY <1>1, <1>4, <1>5, HoldsSaved
<1>7. InPlace(h, B, bp, asize, r, C)
  BY <1>1, <1>4, <1>5, <1>6 DEF InPlace, Result
<1> QED BY <1>7 DEF r, s, x, C


----------------------------------------------------------------------------
(* Payloads.                                                               *)

(* What is written into a payload is nobody else's.                        *)
Fills(h, g, b) ==
  /\ g \in Heap /\ g.brk = h.brk /\ g.free_list_start = h.free_list_start
  /\ \A k \in Words : k \notin b .. b + Size(h, b) - 3 => g.word[k] = h.word[k]

(* A heap is alike before and after a payload is filled, and no other      *)
(* block is touched.                                                       *)
LEMMA FillAlike ==
  ASSUME NEW h, NEW B, Good(h, B), NEW b \in Taken(h, B), NEW g, Fills(h, g, b)
  PROVE  /\ Alike(h, g, B, FreeOf(h, B))
         /\ \A c \in B \ {b} : Stays(h, g, c)
<1>1. h \in Heap /\ Tiled(h, B) /\ b \in B /\ b \notin FreeOf(h, B)
  BY DEF Good, Laid, Taken, FreeOf
<1>2. /\ b \in Int /\ Size(h, b) \in Int /\ 4 <= b /\ Size(h, b) >= 4
      /\ b + Size(h, b) <= h.brk /\ h.brk \in Int
      /\ 1 \in Words /\ 2 \in Words /\ h.brk - 1 \in Words
  BY <1>1, TiledApart
<1>3. \A k \in b .. b + Size(h, b) - 3 : k \in Span(h, b)
  BY <1>2 DEF Span
<1>4. \A c \in B \ {b} : Stays(h, g, c)
  <2> TAKE c \in B \ {b}
  <2>1. \A k \in Span(h, c) : k \in Words /\ k \in Int
    BY <1>1, SpanWords DEF Words
  <2>2. Tiles(h, 4, h.brk, B) /\ 4 \in Int /\ 1 <= 4
    BY <1>1 DEF Tiled
  <2>3. \A k \in Int : k \in Span(h, b) => k \notin Span(h, c)
    BY <1>1, <1>2, <2>2, TilesDisjoint
  <2>4. \A k \in Span(h, c) : k \notin b .. b + Size(h, b) - 3
    BY <1>3, <2>1, <2>3
  <2> QED BY <2>1, <2>4 DEF Stays, Fills
<1>5. \A k \in {1, 2, h.brk - 1} : g.word[k] = h.word[k]
  BY <1>2 DEF Fills
<1>6. \A c \in B : /\ g.word[c - 1] = h.word[c - 1]
                   /\ g.word[c + Size(h, c) - 2] = h.word[c + Size(h, c) - 2]
  <2> TAKE c \in B
  <2>1. CASE c = b
    <3>1. b - 1 \in Words /\ b + Size(h, b) - 2 \in Words
      BY <1>1, TiledApart
    <3>2. b - 1 \notin b .. b + Size(h, b) - 3
          /\ b + Size(h, b) - 2 \notin b .. b + Size(h, b) - 3
      BY <1>2
    <3> QED BY <2>1, <3>1, <3>2 DEF Fills
  <2>2. CASE c # b
    <3>1. Stays(h, g, c)
      BY <1>4, <2>2
    <3>2. {c - 1, c + Size(h, c) - 2} \subseteq Span(h, c)
      BY <1>1, SpanWords
    <3> QED BY <3>1, <3>2 DEF Stays
  <2> QED BY <2>1, <2>2
<1>7. \A f \in FreeOf(h, B) : g.word[f] = h.word[f] /\ g.word[f + 1] = h.word[f + 1]
  <2> TAKE f \in FreeOf(h, B)
  <2>1. f \in B \ {b}
    BY <1>1 DEF FreeOf
  <2>2. f \in Span(h, f) /\ f + 1 \in Span(h, f)
    BY <1>1, <2>1, SpanWords
  <2> QED BY <1>4, <2>1, <2>2 DEF Stays
<1> QED BY <1>4, <1>5, <1>6, <1>7 DEF Alike, Fills

(* The heap stays consistent, with the same blocks.                        *)
LEMMA FillGood ==
  ASSUME NEW h, NEW B, Good(h, B), NEW b \in Taken(h, B), NEW g, Fills(h, g, b)
  PROVE  /\ Becomes(h, g, B, Taken(h, B), Taken(h, B) \ {b})
         /\ FreeOf(g, B) = FreeOf(h, B)
         /\ SameTags(h, g, B)
<1>1. /\ Alike(h, g, B, FreeOf(h, B))
      /\ \A c \in B \ {b} : Stays(h, g, c)
  BY FillAlike
<1>2. /\ Good(g, B) /\ SameTags(h, g, B)
      /\ FreeOf(g, B) = FreeOf(h, B) /\ Taken(g, B) = Taken(h, B)
  BY <1>1, GoodAlike
<1>3. Kept(h, g, Taken(h, B) \ {b})
  <2>1. Taken(h, B) \subseteq B
    BY DEF Taken
  <2> QED BY <1>1, <1>2, <2>1 DEF Kept, SameTags
<1> QED BY <1>2, <1>3 DEF Becomes

(* memset fills a payload.                                                 *)
LEMMA MemsetFills ==
  ASSUME NEW h, NEW B, Good(h, B), NEW b \in Taken(h, B), NEW val \in Int, NEW n \in Int,
         n <= Size(h, b) - 2
  PROVE  /\ Fills(h, memset(h, b, val, n), b)
         /\ \A k \in b .. b + n - 1 : memset(h, b, val, n).word[k] = val
<1> DEFINE g == memset(h, b, val, n)
           word == [k \in Words |-> IF k \in b .. b + n - 1 THEN val ELSE h.word[k]]
<1>1. h \in Heap /\ Tiled(h, B) /\ b \in B
  BY DEF Good, Laid, Taken
<1>2. /\ b \in Int /\ Size(h, b) \in Int /\ 4 <= b /\ b + Size(h, b) <= h.brk
      /\ h.brk \in Int /\ h.brk <= MAX_HEAP /\ MAX_HEAP \in Int
  BY <1>1, TiledApart
<1>3. g = [h EXCEPT !.word = word]
  BY DEF memset
<1>4. word \in [Words -> Int]
  BY <1>1, HeapType
<1>5. g \in Heap /\ g.brk = h.brk /\ g.free_list_start = h.free_list_start /\ g.word = word
  <2> HIDE DEF word, g
  <2> QED BY <1>1, <1>3, <1>4 DEF Heap
<1>6. \A k \in Words : g.word[k] = IF k \in b .. b + n - 1 THEN val ELSE h.word[k]
  <2> HIDE DEF g
  <2> QED BY <1>5
<1> HIDE DEF g
<1>7. \A k \in Words : k \notin b .. b + Size(h, b) - 3 => g.word[k] = h.word[k]
  BY <1>2, <1>6
<1>8. \A k \in b .. b + n - 1 : k \in Words
  BY <1>2 DEF Words
<1> QED BY <1>5, <1>6, <1>7, <1>8 DEF Fills, g

(* So does memmove.                                                        *)
LEMMA MemmoveFills ==
  ASSUME NEW h, NEW B, Good(h, B), NEW b \in Taken(h, B), NEW src \in Int, NEW n \in Int,
         n <= Size(h, b) - 2, 0 <= src, src + n <= MAX_HEAP
  PROVE  /\ Fills(h, memmove(h, b, src, n), b)
         /\ \A j \in 0 .. n - 1 : memmove(h, b, src, n).word[b + j] = h.word[src + j]
<1> DEFINE g == memmove(h, b, src, n)
           word == [k \in Words |-> IF k \in b .. b + n - 1
                                    THEN h.word[src + k - b] ELSE h.word[k]]
<1>1. h \in Heap /\ Tiled(h, B) /\ b \in B
  BY DEF Good, Laid, Taken
<1>2. /\ b \in Int /\ Size(h, b) \in Int /\ 4 <= b /\ b + Size(h, b) <= h.brk
      /\ h.brk \in Int /\ h.brk <= MAX_HEAP /\ MAX_HEAP \in Int
  BY <1>1, TiledApart
<1>3. g = [h EXCEPT !.word = word]
  BY DEF memmove
<1>4. word \in [Words -> Int]
  <2>1. ASSUME NEW k \in Words, k \in b .. b + n - 1
        PROVE  src + k - b \in Words
    BY <1>2, <2>1 DEF Words
  <2> QED BY <1>1, <2>1, HeapType
<1>5. g \in Heap /\ g.brk = h.brk /\ g.free_list_start = h.free_list_start /\ g.word = word
  <2> HIDE DEF word, g
  <2> QED BY <1>1, <1>3, <1>4 DEF Heap
<1>6. \A k \in Words : g.word[k] = IF k \in b .. b + n - 1 THEN h.word[src + k - b]
                                   ELSE h.word[k]
  <2> HIDE DEF g
  <2> QED BY <1>5
<1> HIDE DEF g
<1>7. \A k \in Words : k \notin b .. b + Size(h, b) - 3 => g.word[k] = h.word[k]
  BY <1>2, <1>6
<1>8. ASSUME NEW j \in 0 .. n - 1
      PROVE  g.word[b + j] = h.word[src + j]
  <2>1. b + j \in Words /\ b + j \in b .. b + n - 1 /\ src + (b + j) - b = src + j
    BY <1>2 DEF Words
  <2> QED BY <1>6, <2>1
<1> QED BY <1>5, <1>7, <1>8 DEF Fills, g


----------------------------------------------------------------------------
(* The result of mm_realloc.                                               *)

(* The first size words of the payload are where the block has gone.       *)
Copied(h, bp, size, g, x) ==
  \A j \in 0 .. size - 1 : j < Size(h, bp) - 2 => g.word[x + j] = h.word[bp + j]

(* The block bp is reallocated, with its data.                             *)
Regrants(h, B, bp, size, r, C) ==
  /\ Becomes(h, r.heap, C, (Taken(h, B) \ {bp}) \cup {r.ptr}, Taken(h, B) \ {bp})
  /\ r.ptr \in Int \ {NULL} /\ r.ptr \notin Taken(h, B) \ {bp}
  /\ Size(r.heap, r.ptr) >= AdjustedSize(size)
  /\ Copied(h, bp, size, r.heap, r.ptr)
  /\ h.brk <= r.heap.brk
  /\ h.brk < r.heap.brk => Full(h, B, AdjustedSize(size))

(* How many words are copied.                                              *)
Amount(h, bp, size) == IF size < Size(h, bp) THEN size ELSE Size(h, bp)

(* A block that has got room where it was, or next to that, gets its data. *)
LEMMA MoveInPlace ==
  ASSUME NEW h, NEW B, Good(h, B), NEW bp \in Taken(h, B), NEW size \in Nat \ {0},
         NEW new, NEW C, InPlace(h, B, bp, AdjustedSize(size), new, C),
         new = Result(new.heap, new.ptr),
         NEW where, where # "elsewhere"
  PROVE  Regrants(h, B, bp, size, Move(h, bp, Amount(h, bp, size), new, where), C)
<1> DEFINE asize == AdjustedSize(size)
           copy == Amount(h, bp, size)
           g == new.heap
           x == new.ptr
           A == Taken(h, B) \ {bp}
           r == Move(h, bp, copy, new, where)
<1>1. h \in Heap /\ Tiled(h, B) /\ bp \in B
  BY DEF Good, Laid, Taken
<1>2. /\ bp \in Int /\ Size(h, bp) \in Int /\ 4 <= bp /\ bp + Size(h, bp) <= h.brk
      /\ Size(h, bp) >= 4 /\ h.brk \in Int /\ h.brk <= MAX_HEAP /\ MAX_HEAP \in Int
  BY <1>1, TiledApart
<1>3. /\ asize \in Int /\ asize >= size + 4
  BY AdjustedSizeIs
<1>4. /\ copy \in Nat /\ copy <= size /\ copy <= Size(h, bp)
      /\ \A j \in 0 .. size - 1 : j < Size(h, bp) - 2 => j \in 0 .. copy - 1
  BY <1>2 DEF Amount
<1> HIDE DEF asize, copy
<1>5. Reallocates(h, B, bp, asize, g, x, C) /\ Saved(h, g, bp, asize)
  BY DEF InPlace, asize
<1> HIDE DEF g, x
<1>6. /\ Becomes(h, g, C, A \cup {x}, A) /\ x \in Int /\ x # NULL /\ x \notin A
      /\ Size(g, x) >= asize /\ g.brk = h.brk
  BY <1>5 DEF Reallocates, SameTags
<1>7. Good(g, C) /\ Taken(g, C) = A \cup {x} /\ Kept(h, g, A)
  BY <1>6 DEF Becomes
<1>8. \A j \in 0 .. size - 1 : j < Size(h, bp) - 2 => g.word[bp + j] = h.word[bp + j]
  <2> TAKE j \in 0 .. size - 1
  <2> HAVE j < Size(h, bp) - 2
  <2>1. bp + j \in bp .. bp + asize - 5 /\ bp + j <= bp + Size(h, bp) - 3
    BY <1>2, <1>3
  <2> QED BY <1>5, <2>1 DEF Saved
<1>9. new = Result(g, x)
  BY DEF g, x
<1>10. CASE x = bp
  <2>1. r = Result(g, x)
    BY <1>6, <1>9, <1>10 DEF Move, x
  <2>2. Copied(h, bp, size, g, x)
    BY <1>8, <1>10 DEF Copied
  <2>3. ~ (h.brk < g.brk) /\ h.brk <= g.brk
    BY <1>2, <1>6
  <2> HIDE DEF r
  <2>4. r.heap = g /\ r.ptr = x
    BY <2>1 DEF Result
  <2>5. Regrants(h, B, bp, size, r, C)
    BY <1>6, <2>2, <2>3, <2>4 DEF Regrants, asize
  <2> QED BY <2>5 DEF r, copy
<1>11. CASE x # bp
  <2> DEFINE f == memmove(g, x, bp, copy)
  <2>1. r = Result(f, x)
    BY <1>6, <1>11 DEF Move, x, g
  <2>2. x \in Taken(g, C) /\ copy <= Size(g, x) - 2
    <3>1. g \in Heap /\ Tiled(g, C) /\ x \in C
      BY <1>7 DEF Good, Laid, Taken
    <3>2. Size(g, x) \in Int
      BY <3>1, TiledApart
    <3> QED BY <1>3, <1>4, <1>6, <1>7, <3>2
  <2>3. bp + copy <= MAX_HEAP /\ 0 <= bp
    BY <1>2, <1>4
  <2>4. Fills(g, f, x) /\ \A j \in 0 .. copy - 1 : f.word[x + j] = g.word[bp + j]
    <3> HIDE DEF A, r
    <3>1. copy \in Int /\ bp \in Int
      BY <1>2, <1>4
    <3>2. Good(g, C) /\ x \in Taken(g, C) /\ copy <= Size(g, x) - 2
      BY <1>7, <2>2
    <3> QED BY <2>3, <3>1, <3>2, MemmoveFills
  <2> HIDE DEF f, r
  <2>5. Becomes(g, f, C, Taken(g, C), Taken(g, C) \ {x}) /\ SameTags(g, f, C)
    BY <1>7, <2>2, <2>4, FillGood
  <2>6. Becomes(h, f, C, A \cup {x}, A)
    <3>1. Taken(g, C) \ {x} = A
      BY <1>6, <1>7
    <3> QED BY <1>7, <2>5, <3>1, KeptTwice DEF Becomes
  <2>7. Size(f, x) >= asize /\ f.brk = h.brk
    <3>1. x \in C
      BY <2>2 DEF Taken
    <3> QED BY <1>6, <2>5, <3>1 DEF SameTags
  <2>8. Copied(h, bp, size, f, x)
    <3>1. ASSUME NEW j \in 0 .. size - 1, j < Size(h, bp) - 2
          PROVE  f.word[x + j] = h.word[bp + j]
      BY <1>4, <1>8, <2>4, <3>1
    <3> QED BY <3>1 DEF Copied
  <2>9. ~ (h.brk < f.brk) /\ h.brk <= f.brk
    BY <1>2, <2>7
  <2>10. r.heap = f /\ r.ptr = x
    BY <2>1 DEF Result
  <2>11. Regrants(h, B, bp, size, r, C)
    BY <1>6, <2>6, <2>7, <2>8, <2>9, <2>10 DEF Regrants, asize
  <2> QED BY <2>11 DEF r, copy
<1> QED BY <1>10, <1>11

(* The blocks when the data has gone to a new block, and the old is freed. *)
ElsewhereBlocks(h, B, bp, size) ==
  LET new == mm_malloc(h, size)
      C   == MallocBlocks(h, B, AdjustedSize(size))
  IN  FreedBlocks(memmove(new.heap, new.ptr, bp, Amount(h, bp, size)), C, bp)

(* A block that has got room elsewhere.                                    *)
LEMMA MoveElsewhere ==
  ASSUME NEW h, NEW B, Good(h, B), NEW bp \in Taken(h, B), NEW size \in Nat \ {0},
         Allocates(h, B, AdjustedSize(size), mm_malloc(h, size),
                   MallocBlocks(h, B, AdjustedSize(size)))
  PROVE  Regrants(h, B, bp, size,
                  Move(h, bp, Amount(h, bp, size), mm_malloc(h, size), "elsewhere"),
                  ElsewhereBlocks(h, B, bp, size))
<1> DEFINE asize == AdjustedSize(size)
           copy == Amount(h, bp, size)
           new == mm_malloc(h, size)
           g == new.heap
           x == new.ptr
           C == MallocBlocks(h, B, asize)
           T == Taken(h, B)
           A == T \ {bp}
           f == memmove(g, x, bp, copy)
           e == mm_free(f, bp)
           D == FreedBlocks(f, C, bp)
           r == Move(h, bp, copy, new, "elsewhere")
<1>1. h \in Heap /\ Tiled(h, B) /\ bp \in B
  BY DEF Good, Laid, Taken
<1>2. /\ bp \in Int /\ Size(h, bp) \in Int /\ 4 <= bp /\ bp + Size(h, bp) <= h.brk
      /\ Size(h, bp) >= 4 /\ h.brk \in Int /\ h.brk <= MAX_HEAP /\ MAX_HEAP \in Int
  BY <1>1, TiledApart
<1>3. /\ asize \in Int /\ asize >= size + 4
  BY AdjustedSizeIs
<1>4. /\ copy \in Nat /\ copy <= size /\ copy <= Size(h, bp)
      /\ \A j \in 0 .. size - 1 : j < Size(h, bp) - 2 => j \in 0 .. copy - 1
  BY <1>2 DEF Amount
<1>5. /\ Becomes(h, g, C, T \cup {x}, T)
      /\ x \in Int /\ x # NULL /\ x \notin T
      /\ Size(g, x) >= asize
      /\ h.brk <= g.brk
      /\ h.brk < g.brk => Full(h, B, asize)
  BY DEF Allocates
<1>6. ElsewhereBlocks(h, B, bp, size) = D
  BY DEF ElsewhereBlocks
<1>7. r = Result(e, x)
  BY <1>5 DEF Move
<1> HIDE DEF asize, copy, new, g, x, C
<1>8. Good(g, C) /\ Taken(g, C) = T \cup {x} /\ Kept(h, g, T)
  BY <1>5 DEF Becomes
<1>9. x \in Taken(g, C) /\ copy <= Size(g, x) - 2
  <2>1. g \in Heap /\ Tiled(g, C) /\ x \in C
    BY <1>8 DEF Good, Laid, Taken
  <2>2. Size(g, x) \in Int
    BY <2>1, TiledApart
  <2> QED BY <1>3, <1>4, <1>5, <1>8, <2>2
<1>10. bp + copy <= MAX_HEAP /\ 0 <= bp
  BY <1>2, <1>4
<1>11. Fills(g, f, x) /\ \A j \in 0 .. copy - 1 : f.word[x + j] = g.word[bp + j]
  BY <1>2, <1>4, <1>8, <1>9, <1>10, MemmoveFills
<1> HIDE DEF f, r
<1>12. Becomes(g, f, C, Taken(g, C), Taken(g, C) \ {x}) /\ SameTags(g, f, C)
  BY <1>8, <1>9, <1>11, FillGood
<1>13. Good(f, C) /\ Taken(f, C) = T \cup {x} /\ Kept(g, f, T)
  <2>1. Taken(g, C) \ {x} = T
    BY <1>5, <1>8
  <2> QED BY <1>8, <1>12, <2>1 DEF Becomes
<1>14. bp \in Taken(f, C) /\ x \in C /\ x # bp
  BY <1>5, <1>13 DEF Taken
<1>15. /\ Becomes(f, e, D, Taken(f, C) \ {bp}, Taken(f, C) \ {bp})
       /\ SameTags(f, e, {})
  BY <1>13, <1>14, FreeGood
<1> HIDE DEF e, D
<1>16. Good(e, D) /\ Taken(e, D) = A \cup {x} /\ Kept(f, e, A \cup {x})
  <2>1. Taken(f, C) \ {bp} = A \cup {x}
    BY <1>13, <1>14
  <2> QED BY <1>15, <2>1 DEF Becomes
<1>17. Kept(h, e, A)
  <2>1. Kept(h, g, A) /\ Kept(g, f, A) /\ Kept(f, e, A)
    BY <1>8, <1>13, <1>16 DEF Kept
  <2>2. Kept(h, f, A)
    BY <2>1, KeptTwice
  <2> QED BY <2>1, <2>2, KeptTwice
<1>18. Size(f, x) = Size(g, x) /\ Size(e, x) = Size(f, x) /\ Stays(f, e, x)
  BY <1>12, <1>14, <1>16 DEF SameTags, Kept
<1>19. e.brk = g.brk
  BY <1>12, <1>15 DEF SameTags
<1>20. Copied(h, bp, size, e, x)
  <2>1. ASSUME NEW j \in 0 .. size - 1, j < Size(h, bp) - 2
        PROVE  e.word[x + j] = h.word[bp + j]
    <3>1. j \in 0 .. copy - 1 /\ bp \in T
      BY <1>4, <2>1
    <3>2. f.word[x + j] = g.word[bp + j]
      BY <1>11, <3>1
    <3>3. g.word[bp + j] = h.word[bp + j]
      <4>1. Stays(h, g, bp)
        BY <1>8, <3>1 DEF Kept
      <4>2. bp + j \in Span(h, bp)
        BY <1>2, <2>1 DEF Span
      <4> QED BY <4>1, <4>2 DEF Stays
    <3>4. e.word[x + j] = f.word[x + j]
      <4>1. f \in Heap /\ Tiled(f, C)
        BY <1>13 DEF Good, Laid
      <4>2. Size(f, x) \in Int
        BY <1>14, <4>1, TiledApart
      <4>3. x + j \in Span(f, x)
        BY <1>4, <1>5, <1>9, <1>18, <3>1, <4>2 DEF Span
      <4> QED BY <1>18, <4>3 DEF Stays
    <3> QED BY <3>2, <3>3, <3>4
  <2> QED BY <2>1 DEF Copied
<1>21. r.heap = e /\ r.ptr = x
  BY <1>7 DEF Result
<1>22. Becomes(h, e, D, A \cup {x}, A)
  BY <1>16, <1>17 DEF Becomes
<1>23. Regrants(h, B, bp, size, r, D)
  BY <1>5, <1>18, <1>19, <1>20, <1>21, <1>22 DEF Regrants, asize
<1> QED BY <1>6, <1>23 DEF r, new, copy


(* The blocks when mm_realloc has returned.                                *)
ReallocBlocks(h, B, bp, size) ==
  LET asize == AdjustedSize(size)
      where == Room(h, bp, size).where
  IN  IF where = "here" THEN HereBlocks(h, B, bp, asize)
      ELSE IF where = "left" THEN LeftBlocks(h, B, bp, asize)
      ELSE IF where = "right" THEN RightBlocks(h, B, bp, asize)
      ELSE IF where = "both" THEN BothBlocks(h, B, bp)
      ELSE ElsewhereBlocks(h, B, bp, size)

(* The branch that destroys the heap.                                      *)
SplitsBoth(h, bp, size) ==
  Room(h, bp, size).where = "both" /\ Room(h, bp, size).rest >= MIN_B_SIZE

(* mm_realloc copies to the NULL of an mm_malloc that failed.              *)
Faults(h, B, bp, size, r) ==
  /\ Room(h, bp, size).where = "elsewhere"
  /\ Fails(h, B, AdjustedSize(size), mm_malloc(h, size))
  /\ r = Result(h, Fault)

(* mm_realloc moves what NewBlock has made.                                *)
LEMMA ReallocIs ==
  ASSUME NEW h, NEW bp, bp # NULL, NEW size, size # 0
  PROVE  mm_realloc(h, bp, size) =
           Move(h, bp, Amount(h, bp, size), NewBlock(h, bp, size, Room(h, bp, size)),
                Room(h, bp, size).where)
BY DEF mm_realloc, Amount, Size

(* What NewBlock makes.                                                    *)
LEMMA NewBlockIs ==
  ASSUME NEW h, NEW bp, NEW size, NEW room
  PROVE  /\ room.where = "here" =>
              NewBlock(h, bp, size, room) = Shrink(h, bp, AdjustedSize(size), room.rest)
         /\ room.where = "left" =>
              NewBlock(h, bp, size, room) =
                GrowLeft(h, PrevOf(h, bp), AdjustedSize(size), room.rest)
         /\ room.where = "right" =>
              NewBlock(h, bp, size, room) =
                GrowRight(h, bp, NextOf(h, bp), AdjustedSize(size), room.rest)
         /\ room.where = "both" =>
              NewBlock(h, bp, size, room) =
                GrowBoth(h, PrevOf(h, bp), NextOf(h, bp), AdjustedSize(size), room.rest)
         /\ room.where = "elsewhere" => NewBlock(h, bp, size, room) = mm_malloc(h, size)
BY DEF NewBlock, PrevOf, NextOf

(* A result is what it holds.                                              *)
LEMMA Results ==
  ASSUME NEW h, NEW bp, NEW asize, NEW rest, NEW prev, NEW next
  PROVE  /\ LET r == Shrink(h, bp, asize, rest) IN r = Result(r.heap, r.ptr)
         /\ LET r == GrowLeft(h, prev, asize, rest) IN r = Result(r.heap, r.ptr)
         /\ LET r == GrowRight(h, bp, next, asize, rest) IN r = Result(r.heap, r.ptr)
         /\ LET r == GrowBoth(h, prev, next, asize, rest) IN r = Result(r.heap, r.ptr)
<1>1. \A a, b : Result(a, b) = Result(Result(a, b).heap, Result(a, b).ptr)
  BY DEF Result
<1>2. \E a, b : Shrink(h, bp, asize, rest) = Result(a, b)
  BY DEF Shrink
<1>3. \E a, b : GrowLeft(h, prev, asize, rest) = Result(a, b)
  BY DEF GrowLeft
<1>4. \E a, b : GrowRight(h, bp, next, asize, rest) = Result(a, b)
  BY DEF GrowRight
<1>5. \E a, b : GrowBoth(h, prev, next, asize, rest) = Result(a, b)
  BY DEF GrowBoth
<1> QED BY <1>1, <1>2, <1>3, <1>4, <1>5

(* A block is reallocated with its data, but for the branch that destroys  *)
(* the heap; only want of memory lets the program die.                     *)
THEOREM ReallocGood ==
  ASSUME NEW h, NEW B, Good(h, B), NEW bp \in Taken(h, B), NEW size \in Nat \ {0},
         ~ SplitsBoth(h, bp, size)
  PROVE  \/ Faults(h, B, bp, size, mm_realloc(h, bp, size))
         \/ Regrants(h, B, bp, size, mm_realloc(h, bp, size), ReallocBlocks(h, B, bp, size))
<1> DEFINE asize == AdjustedSize(size)
           room == Room(h, bp, size)
           new == NewBlock(h, bp, size, room)
           r == mm_realloc(h, bp, size)
           C == ReallocBlocks(h, B, bp, size)
<1>1. bp # NULL /\ bp \in Int /\ Size(h, bp) \in Int
  BY TiledApart DEF Good, Laid, Taken, NULL
<1>2. asize \in Int /\ (asize % 2) = 0 /\ asize >= 4
  BY AdjustedSizeIs
<1>3. r = Move(h, bp, Amount(h, bp, size), new, room.where)
  BY <1>1, ReallocIs
<1>4. RoomCases(h, B, bp, asize, room)
  BY RoomIs
<1>5. C = IF room.where = "here" THEN HereBlocks(h, B, bp, asize)
          ELSE IF room.where = "left" THEN LeftBlocks(h, B, bp, asize)
          ELSE IF room.where = "right" THEN RightBlocks(h, B, bp, asize)
          ELSE IF room.where = "both" THEN BothBlocks(h, B, bp)
          ELSE ElsewhereBlocks(h, B, bp, size)
  BY DEF ReallocBlocks
<1>6. /\ room.where = "here" => new = Shrink(h, bp, asize, room.rest)
      /\ room.where = "left" => new = GrowLeft(h, PrevOf(h, bp), asize, room.rest)
      /\ room.where = "right" => new = GrowRight(h, bp, NextOf(h, bp), asize, room.rest)
      /\ room.where = "both" => new = GrowBoth(h, PrevOf(h, bp), NextOf(h, bp), asize, room.rest)
      /\ room.where = "elsewhere" => new = mm_malloc(h, size)
  BY NewBlockIs
<1>7. ~ (room.where = "both" /\ room.rest >= MIN_B_SIZE)
  BY DEF SplitsBoth
<1> HIDE DEF asize, room, new, r, C
<1>8. SUFFICES ASSUME room.where # "elsewhere"
               PROVE  InPlace(h, B, bp, asize, new, C) /\ new = Result(new.heap, new.ptr)
  <2>1. CASE room.where # "elsewhere"
    <3>1. InPlace(h, B, bp, AdjustedSize(size), new, C) /\ new = Result(new.heap, new.ptr)
      BY <1>8, <2>1 DEF asize
    <3>2. Regrants(h, B, bp, size, Move(h, bp, Amount(h, bp, size), new, room.where), C)
      BY <2>1, <3>1, MoveInPlace
    <3> QED BY <1>3, <3>2 DEF r, C
  <2>2. CASE room.where = "elsewhere"
    <3>1. new = mm_malloc(h, size) /\ C = ElsewhereBlocks(h, B, bp, size)
      BY <1>5, <1>6, <2>2
    <3>2. CASE Fails(h, B, asize, mm_malloc(h, size))
      <4>1. new.ptr = NULL
        BY <3>1, <3>2 DEF Fails, Result
      <4>2. r = Result(h, Fault)
        BY <1>3, <4>1 DEF Move
      <4> QED BY <2>2, <3>2, <4>2 DEF Faults, r, room, asize
    <3>3. CASE Allocates(h, B, asize, mm_malloc(h, size), MallocBlocks(h, B, asize))
      <4>1. Regrants(h, B, bp, size,
                     Move(h, bp, Amount(h, bp, size), mm_malloc(h, size), "elsewhere"),
                     ElsewhereBlocks(h, B, bp, size))
        BY <3>3, MoveElsewhere DEF asize
      <4> QED BY <1>3, <2>2, <3>1, <4>1 DEF r, C
    <3> QED BY <3>2, <3>3, MallocGood DEF asize
  <2> QED BY <2>1, <2>2
<1>9. CASE /\ room.where = "here" /\ asize <= Size(h, bp)
           /\ room.rest = Size(h, bp) - asize
  <2>1. new = Shrink(h, bp, asize, Size(h, bp) - asize) /\ C = HereBlocks(h, B, bp, asize)
    BY <1>5, <1>6, <1>9
  <2>2. InPlace(h, B, bp, asize, Shrink(h, bp, asize, Size(h, bp) - asize),
                HereBlocks(h, B, bp, asize))
    BY <1>2, <1>9, HereGood
  <2> QED BY <2>1, <2>2, Results
<1>10. CASE /\ room.where = "left" /\ asize > Size(h, bp) /\ RoomLeft(h, B, bp)
            /\ room.rest = Stop(h, bp) - PrevOf(h, bp) - asize /\ room.rest >= 0
  <2>1. new = GrowLeft(h, PrevOf(h, bp), asize, room.rest) /\ C = LeftBlocks(h, B, bp, asize)
    BY <1>5, <1>6, <1>10
  <2>2. InPlace(h, B, bp, asize, GrowLeft(h, PrevOf(h, bp), asize, room.rest),
                LeftBlocks(h, B, bp, asize))
    BY <1>2, <1>10, LeftGood
  <2> QED BY <2>1, <2>2, Results
<1>11. CASE /\ room.where = "right" /\ asize > Size(h, bp) /\ RoomRight(h, B, bp)
            /\ room.rest = Stop(h, NextOf(h, bp)) - bp - asize /\ room.rest >= 0
  <2>1. new = GrowRight(h, bp, NextOf(h, bp), asize, room.rest)
        /\ C = RightBlocks(h, B, bp, asize)
    BY <1>5, <1>6, <1>11
  <2>2. InPlace(h, B, bp, asize, GrowRight(h, bp, NextOf(h, bp), asize, room.rest),
                RightBlocks(h, B, bp, asize))
    BY <1>2, <1>11, RightGood
  <2> QED BY <2>1, <2>2, Results
<1>12. CASE /\ room.where = "both" /\ asize > Size(h, bp) /\ RoomBoth(h, B, bp)
            /\ room.rest = Stop(h, NextOf(h, bp)) - PrevOf(h, bp) - asize /\ room.rest >= 0
  <2>1. new = GrowBoth(h, PrevOf(h, bp), NextOf(h, bp), asize, room.rest)
        /\ C = BothBlocks(h, B, bp)
    BY <1>5, <1>6, <1>12
  <2>2. InPlace(h, B, bp, asize, GrowBoth(h, PrevOf(h, bp), NextOf(h, bp), asize, room.rest),
                BothBlocks(h, B, bp))
    BY <1>2, <1>7, <1>12, BothGood
  <2> QED BY <2>1, <2>2, Results
<1> QED BY <1>4, <1>8, <1>9, <1>10, <1>11, <1>12 DEF RoomCases


----------------------------------------------------------------------------
(* mm_realloc does the same in heaps that are alike.                       *)

(* It finds the same room.                                                 *)
LEMMA AlikeRoom ==
  ASSUME NEW h, NEW B, Good(h, B), NEW bp \in Taken(h, B),
         NEW g, Alike(h, g, B, FreeOf(h, B)), NEW size
  PROVE  /\ Room(g, bp, size) = Room(h, bp, size)
         /\ PrevOf(g, bp) = PrevOf(h, bp) /\ NextOf(g, bp) = NextOf(h, bp)
         /\ Stop(g, bp) = Stop(h, bp)
         /\ Amount(g, bp, size) = Amount(h, bp, size)
<1>1. /\ h \in Heap /\ Tiled(h, B) /\ bp \in B
      /\ g \in Heap /\ Tiled(g, B) /\ SameTags(h, g, B)
  BY GoodAlike DEF Good, Laid, Taken
<1>2. PrevOf(g, bp) = PrevOf(h, bp) /\ NextOf(g, bp) = NextOf(h, bp)
  BY <1>1, SameNeighbours DEF PrevOf, NextOf
<1>3. Size(g, bp) = Size(h, bp)
  BY <1>1 DEF SameTags
<1>4. g.word[bp - 1] = h.word[bp - 1]
  BY <1>1 DEF Alike
<1>5. g.word[PrevOf(h, bp) - 1] = h.word[PrevOf(h, bp) - 1]
  <2>1. PrevOf(h, bp) \in B \/ PrevOf(h, bp) = 2
    BY <1>1, Before DEF PrevOf
  <2>2. g.word[1] = h.word[1] /\ \A b \in B : g.word[b - 1] = h.word[b - 1]
    BY DEF Alike
  <2> QED BY <2>1, <2>2
<1>6. g.word[NextOf(h, bp) - 1] = h.word[NextOf(h, bp) - 1]
  <2>1. NextOf(h, bp) \in B \/ NextOf(h, bp) = h.brk
    BY <1>1, After DEF NextOf
  <2>2. g.word[h.brk - 1] = h.word[h.brk - 1] /\ \A b \in B : g.word[b - 1] = h.word[b - 1]
    BY DEF Alike
  <2> QED BY <2>1, <2>2
<1>7. /\ GET_SIZE(g, HDRP(bp)) = GET_SIZE(h, HDRP(bp))
      /\ GET_SIZE(g, HDRP(PrevOf(h, bp))) = GET_SIZE(h, HDRP(PrevOf(h, bp)))
      /\ GET_SIZE(g, HDRP(NextOf(h, bp))) = GET_SIZE(h, HDRP(NextOf(h, bp)))
      /\ GET_ALLOC(g, HDRP(PrevOf(h, bp))) = GET_ALLOC(h, HDRP(PrevOf(h, bp)))
      /\ GET_ALLOC(g, HDRP(NextOf(h, bp))) = GET_ALLOC(h, HDRP(NextOf(h, bp)))
  BY <1>4, <1>5, <1>6 DEF GET_SIZE, GET_ALLOC, HDRP
<1>8. PREV_BLKP(g, bp) = PrevOf(h, bp) /\ NEXT_BLKP(g, bp) = NextOf(h, bp)
      /\ PREV_BLKP(h, bp) = PrevOf(h, bp) /\ NEXT_BLKP(h, bp) = NextOf(h, bp)
  BY <1>2 DEF PrevOf, NextOf
<1>9. Room(g, bp, size) = Room(h, bp, size)
  BY <1>7, <1>8 DEF Room
<1> QED BY <1>2, <1>3, <1>9 DEF Stop, Amount

(* Shrinking.                                                              *)
LEMMA AlikeHere ==
  ASSUME NEW h, NEW B, Good(h, B), NEW bp \in Taken(h, B),
         NEW asize \in Int, (asize % 2) = 0, asize >= 4, asize <= Size(h, bp),
         NEW g, Alike(h, g, B, FreeOf(h, B))
  PROVE  AlikeResults(Shrink(h, bp, asize, Size(h, bp) - asize),
                      Shrink(g, bp, asize, Size(h, bp) - asize), HereBlocks(h, B, bp, asize))
<1> DEFINE rest == Size(h, bp) - asize
           r == Shrink(h, bp, asize, rest)
           s == Shrink(g, bp, asize, rest)
           e == Stop(h, bp)
           m == bp + asize
           F == FreeOf(h, B)
<1>1. /\ h \in Heap /\ Tiled(h, B) /\ bp \in B /\ Laid(h, B, F)
  BY DEF Good, Laid, Taken
<1>2. /\ bp \in Int /\ Size(h, bp) \in Int /\ (bp % 2) = 0 /\ 4 <= bp
  BY <1>1, TiledApart
<1>3. m - bp = asize /\ e - m = rest /\ e = bp + Size(h, bp) /\ m \in Int /\ (m % 2) = 0
  BY <1>2 DEF Stop
<1>4. CASE rest >= MIN_B_SIZE
  <2> DEFINE one == Cut(h, bp, m, e, 1, 0)
             gone == Cut(g, bp, m, e, 1, 0)
             A == Replaced(B, bp, e, {bp, m})
             C == ShrunkBlocks(h, B, bp, m, e)
             new == coalesce(one, m).heap
             gnew == coalesce(gone, m).heap
  <2>1. bp + 4 <= m /\ m + 4 <= e
    BY <1>2, <1>3, <1>4 DEF MIN_B_SIZE
  <2>2. r = Result(new, bp) /\ s = Result(gnew, bp)
    BY <1>3, <1>4 DEF Shrink, Cut
  <2>3. HereBlocks(h, B, bp, asize) = C /\ C = Merged(one, A, m)
    BY <1>4 DEF HereBlocks, ShrunkBlocks
  <2> HIDE DEF r, s, e, m, new, gnew, C
  <2>4. BlockCut(h, B, bp, m, e, one, A)
    BY <1>3, <2>1, CutBlock
  <2> HIDE DEF F
  <2>5. Alike(one, gone, A, F)
    <3>1. e \in B \cup {h.brk}
      BY <1>1, <1>3, TiledApart
    <3>2. \A f \in F : f < bp \/ f >= e \/ (f = bp /\ 1 = 0)
      BY <2>4 DEF BlockCut, F
    <3>3. 0 \in {0, 1} /\ 1 \in {0, 1} /\ Alike(h, g, B, F)
      BY DEF F
    <3> QED BY <1>1, <1>3, <2>1, <3>1, <3>2, <3>3, AlikeDivide
  <2> HIDE DEF one, gone, A
  <2>6. GoodBut(one, A, m) /\ FreeOf(one, A) \ {m} = F
    BY <2>4 DEF BlockCut, FreeAre, F
  <2>7. Alike(one, gone, A, FreeOf(one, A) \ {m})
    BY <2>5, <2>6
  <2>8. Alike(coalesce(one, m).heap, coalesce(gone, m).heap, Merged(one, A, m),
              FreeOf(coalesce(one, m).heap, Merged(one, A, m)))
    BY <2>6, <2>7, AlikeCoalesce
  <2>9. Alike(new, gnew, C, FreeOf(new, C))
    BY <2>3, <2>8 DEF new, gnew
  <2>10. AlikeResults(r, s, C)
    BY <2>2, <2>9 DEF AlikeResults, Result
  <2> QED BY <2>3, <2>10 DEF r, s
<1>5. CASE ~ (rest >= MIN_B_SIZE)
  <2>1. r = Result(h, bp) /\ s = Result(g, bp) /\ HereBlocks(h, B, bp, asize) = B
    BY <1>5 DEF Shrink, HereBlocks
  <2> HIDE DEF r, s
  <2>2. AlikeResults(r, s, B)
    BY <2>1 DEF AlikeResults, Result
  <2> QED BY <2>1, <2>2 DEF r, s
<1> QED BY <1>4, <1>5

(* Growing to the left.                                                    *)
LEMMA AlikeLeft ==
  ASSUME NEW h, NEW B, Good(h, B), NEW bp, RoomLeft(h, B, bp),
         NEW asize \in Int, (asize % 2) = 0, asize > Size(h, bp),
         NEW rest, rest = Stop(h, bp) - PrevOf(h, bp) - asize, rest >= 0,
         NEW g, Alike(h, g, B, FreeOf(h, B))
  PROVE  AlikeResults(GrowLeft(h, PrevOf(h, bp), asize, rest),
                      GrowLeft(g, PrevOf(h, bp), asize, rest), LeftBlocks(h, B, bp, asize))
<1> DEFINE s == PrevOf(h, bp)
           e == Stop(h, bp)
           m == e - asize
           r == GrowLeft(h, s, asize, rest)
           gr == GrowLeft(g, s, asize, rest)
           F == FreeOf(h, B)
<1>1. /\ h \in Heap /\ Tiled(h, B) /\ Laid(h, B, F)
  BY DEF Good, Laid
<1>2. Surrounds(h, B, bp, TRUE, s, FALSE, NextOf(h, bp), s, e)
  BY DEF RoomLeft
<1>3. /\ bp \in Taken(h, B) /\ s \in F /\ s + Size(h, s) = bp
      /\ FreeInRow(h, B, TRUE, s, FALSE, NextOf(h, bp), s, e)
      /\ e \in B \cup {h.brk} /\ \A f \in F : f < s \/ f >= e \/ f = s
  BY <1>2 DEF Surrounds, FreeInRow
<1>4. bp \in B /\ s \in B /\ e = bp + Size(h, bp)
  BY <1>3 DEF Taken, FreeOf, Stop
<1>5. /\ bp \in Int /\ s \in Int /\ Size(h, bp) \in Int /\ Size(h, s) \in Int /\ 4 <= s
      /\ (bp % 2) = 0 /\ (Size(h, bp) % 2) = 0 /\ (s % 2) = 0 /\ e \in Int
      /\ Size(h, bp) >= 4
  BY <1>1, <1>4, TiledApart
<1> HIDE DEF s, e
<1>6. rest = e - s - asize
  BY DEF s, e
<1>7. m \in Int /\ (m % 2) = 0 /\ e - m = asize /\ m - s = rest /\ s + rest = m /\ m < bp
  BY <1>4, <1>5, <1>6
<1>8. CASE rest >= MIN_B_SIZE
  <2> DEFINE new == Cut(h, s, m, e, 0, 1)
             gnew == Cut(g, s, m, e, 0, 1)
             C == Replaced(B, s, e, {s, m})
  <2>1. s + 4 <= m /\ m + 4 <= e
    BY <1>4, <1>5, <1>7, <1>8 DEF MIN_B_SIZE
  <2>2. r = Result(new, m) /\ gr = Result(gnew, m)
    BY <1>7, <1>8 DEF GrowLeft, Cut
  <2>3. LeftBlocks(h, B, bp, asize) = C
    BY <1>6, <1>8 DEF LeftBlocks, s, e
  <2> HIDE DEF r, gr, m
  <2>4. FreeAre(new, C, F)
    BY <1>3, <1>4, <1>7, <2>1, CutLeft
  <2> HIDE DEF F
  <2>5. Alike(new, gnew, C, F)
    <3>1. \A f \in F : f < s \/ f >= e \/ (f = s /\ 0 = 0)
      BY <1>3
    <3>2. 0 \in {0, 1} /\ 1 \in {0, 1} /\ Alike(h, g, B, F)
      BY DEF F
    <3> QED BY <1>1, <1>3, <1>4, <1>7, <2>1, <3>1, <3>2, AlikeDivide
  <2> HIDE DEF new, gnew, C
  <2>6. AlikeResults(r, gr, C)
    BY <2>2, <2>4, <2>5 DEF AlikeResults, Result, FreeAre
  <2> QED BY <2>3, <2>6 DEF r, gr, s
<1>9. CASE ~ (rest >= MIN_B_SIZE)
  <2> DEFINE new == Joined(h, TRUE, s, FALSE, NextOf(h, bp), s, e)
             gnew == Joined(g, TRUE, s, FALSE, NextOf(h, bp), s, e)
             C == Replaced(B, s, e, {s})
  <2>1. r = Result(new, s) /\ gr = Result(gnew, s)
    <3>1. asize + rest = e - s
      BY <1>5, <1>6
    <3> QED BY <1>9, <3>1 DEF GrowLeft, Joined, Unlisted, RemoveIf
  <2>2. LeftBlocks(h, B, bp, asize) = C
    BY <1>6, <1>9 DEF LeftBlocks, s, e
  <2> HIDE DEF r, gr
  <2>3. Alike(new, gnew, C, FreeOf(new, C))
    BY <1>3, AlikeJoined
  <2> HIDE DEF new, gnew, C
  <2>4. AlikeResults(r, gr, C)
    BY <2>1, <2>3 DEF AlikeResults, Result
  <2> QED BY <2>2, <2>4 DEF r, gr, s
<1> QED BY <1>8, <1>9


(* Growing to the right.                                                   *)
LEMMA AlikeRight ==
  ASSUME NEW h, NEW B, Good(h, B), NEW bp, RoomRight(h, B, bp),
         NEW asize \in Int, (asize % 2) = 0, asize > Size(h, bp),
         NEW rest, rest = Stop(h, NextOf(h, bp)) - bp - asize, rest >= 0,
         NEW g, Alike(h, g, B, FreeOf(h, B))
  PROVE  AlikeResults(GrowRight(h, bp, NextOf(h, bp), asize, rest),
                      GrowRight(g, bp, NextOf(h, bp), asize, rest),
                      RightBlocks(h, B, bp, asize))
<1> DEFINE x == NextOf(h, bp)
           e == Stop(h, x)
           m == bp + asize
           r == GrowRight(h, bp, x, asize, rest)
           gr == GrowRight(g, bp, x, asize, rest)
           C == RightBlocks(h, B, bp, asize)
<1>1. GrowsRight(h, B, bp, asize, rest, x, e, m, r, C)
  BY RightSteps
<1>2. Surrounds(h, B, bp, FALSE, PrevOf(h, bp), TRUE, x, bp, e)
  BY DEF RoomRight
<1>3. m = bp + asize /\ rest = e - bp - asize
  OBVIOUS
<1> HIDE DEF x, e, m, r, C
<1>4. /\ bp \in Taken(h, B) /\ x \in FreeOf(h, B) /\ x = bp + Size(h, bp) /\ e = x + Size(h, x)
      /\ bp \in Int /\ e \in Int /\ m \in Int /\ (m % 2) = 0 /\ x < m /\ m - bp = asize
      /\ rest >= MIN_B_SIZE => m + 4 <= e
      /\ r = Result(IF rest >= MIN_B_SIZE THEN Replace(h, bp, m, e, x)
                    ELSE Joined(h, FALSE, PrevOf(h, bp), TRUE, x, bp, e), bp)
      /\ C = IF rest >= MIN_B_SIZE THEN Replaced(B, bp, e, {bp, m})
             ELSE Replaced(B, bp, e, {bp})
  BY <1>1 DEF GrowsRight
<1>5. NextOf(g, bp) = x
  BY <1>4, AlikeRoom DEF x
<1>6. e - m = rest /\ asize + rest = e - bp
  BY <1>3, <1>4
<1>7. CASE rest >= MIN_B_SIZE
  <2> DEFINE new == Replace(h, bp, m, e, x)
             gnew == Replace(g, bp, m, e, x)
  <2>1. LastInRow(h, B, bp, m, e, x)
    BY <1>4, <1>7, SplitRight
  <2>2. gr = Result(gnew, bp)
    <3>1. gr = Result(expand_alloc_block_right(g, bp, asize, rest), bp)
      BY <1>7 DEF GrowRight
    <3>2. expand_alloc_block_right(g, bp, asize, rest) =
            Split(g, bp, asize, rest, PRED_BLKP(g, x), SUCC_BLKP(g, x))
      BY <1>5 DEF expand_alloc_block_right, NextOf
    <3>3. Split(g, bp, asize, rest, PRED_BLKP(g, x), SUCC_BLKP(g, x)) = gnew
      BY <1>4, <1>6 DEF Split, Replace, Cut, m
    <3> QED BY <3>1, <3>2, <3>3
  <2>3. /\ r = Result(new, bp) /\ C = Replaced(B, bp, e, {bp, m})
    BY <1>4, <1>7
  <2> HIDE DEF gr
  <2>4. Alike(new, gnew, Replaced(B, bp, e, {bp, m}),
              FreeOf(new, Replaced(B, bp, e, {bp, m})))
    BY <2>1, AlikeSplitGood
  <2> HIDE DEF new, gnew
  <2>5. AlikeResults(r, gr, C)
    BY <2>2, <2>3, <2>4 DEF AlikeResults, Result
  <2> QED BY <2>5 DEF r, gr, C, x
<1>8. CASE ~ (rest >= MIN_B_SIZE)
  <2> DEFINE new == Joined(h, FALSE, PrevOf(h, bp), TRUE, x, bp, e)
             gnew == Joined(g, FALSE, PrevOf(h, bp), TRUE, x, bp, e)
  <2>1. gr = Result(gnew, bp)
    BY <1>6, <1>8 DEF GrowRight, Joined, Unlisted, RemoveIf
  <2>2. r = Result(new, bp) /\ C = Replaced(B, bp, e, {bp})
    BY <1>4, <1>8
  <2> HIDE DEF gr
  <2>3. FreeInRow(h, B, FALSE, PrevOf(h, bp), TRUE, x, bp, e)
    BY <1>2 DEF Surrounds
  <2>4. Alike(new, gnew, Replaced(B, bp, e, {bp}), FreeOf(new, Replaced(B, bp, e, {bp})))
    BY <2>3, AlikeJoined
  <2> HIDE DEF new, gnew
  <2>5. AlikeResults(r, gr, C)
    BY <2>1, <2>2, <2>4 DEF AlikeResults, Result
  <2> QED BY <2>5 DEF r, gr, C, x
<1> QED BY <1>7, <1>8

(* Growing to both sides.                                                  *)
LEMMA AlikeBoth ==
  ASSUME NEW h, NEW B, Good(h, B), NEW bp, RoomBoth(h, B, bp), NEW asize \in Int,
         NEW rest, rest = Stop(h, NextOf(h, bp)) - PrevOf(h, bp) - asize,
         ~ (rest >= MIN_B_SIZE), NEW g, Alike(h, g, B, FreeOf(h, B))
  PROVE  AlikeResults(GrowBoth(h, PrevOf(h, bp), NextOf(h, bp), asize, rest),
                      GrowBoth(g, PrevOf(h, bp), NextOf(h, bp), asize, rest),
                      BothBlocks(h, B, bp))
<1> DEFINE s == PrevOf(h, bp)
           x == NextOf(h, bp)
           e == Stop(h, x)
           r == GrowBoth(h, s, x, asize, rest)
           gr == GrowBoth(g, s, x, asize, rest)
           C == BothBlocks(h, B, bp)
           new == Joined(h, TRUE, s, TRUE, x, s, e)
           gnew == Joined(g, TRUE, s, TRUE, x, s, e)
<1>1. /\ e \in Int /\ s \in Int /\ r = Result(new, s)
  BY BothSteps DEF BothJoined
<1>2. asize + rest = e - s
  BY <1>1
<1>3. FreeInRow(h, B, TRUE, s, TRUE, x, s, e)
  BY DEF RoomBoth, Surrounds
<1>4. C = Replaced(B, s, e, {s})
  BY DEF BothBlocks
<1> HIDE DEF s, x, e, r, C
<1>5. gr = Result(gnew, s)
  BY <1>2 DEF GrowBoth, Joined, Unlisted, RemoveIf
<1> HIDE DEF gr
<1>6. Alike(new, gnew, Replaced(B, s, e, {s}), FreeOf(new, Replaced(B, s, e, {s})))
  BY <1>3, AlikeJoined
<1> HIDE DEF new, gnew
<1>7. AlikeResults(r, gr, C)
  BY <1>1, <1>4, <1>5, <1>6 DEF AlikeResults, Result
<1> QED BY <1>7 DEF r, gr, s, x, C

(* What is written into a payload makes no difference.                     *)
LEMMA AlikeFill ==
  ASSUME NEW h, NEW B, Good(h, B), NEW b \in Taken(h, B), NEW new, Fills(h, new, b),
         NEW g, Alike(h, g, B, FreeOf(h, B)), NEW gnew, Fills(g, gnew, b)
  PROVE  Alike(new, gnew, B, FreeOf(new, B))
<1>1. /\ Good(g, B) /\ SameTags(h, g, B) /\ FreeOf(g, B) = FreeOf(h, B)
      /\ Taken(g, B) = Taken(h, B)
  BY GoodAlike
<1>2. Alike(h, new, B, FreeOf(h, B)) /\ Alike(g, gnew, B, FreeOf(g, B))
  BY <1>1, FillAlike
<1>3. FreeOf(new, B) = FreeOf(h, B) /\ SameTags(h, new, B)
  BY FillGood
<1>4. /\ gnew \in Heap /\ gnew.brk = new.brk /\ gnew.free_list_start = new.free_list_start
      /\ \A k \in {1, 2, new.brk - 1} : gnew.word[k] = new.word[k]
  BY <1>2 DEF Alike
<1>5. \A c \in B : /\ gnew.word[c - 1] = new.word[c - 1]
                   /\ gnew.word[c + Size(new, c) - 2] = new.word[c + Size(new, c) - 2]
  <2> TAKE c \in B
  <2>1. Size(new, c) = Size(h, c) /\ Size(g, c) = Size(h, c)
    BY <1>1, <1>3 DEF SameTags
  <2> QED BY <1>2, <2>1 DEF Alike
<1>6. \A f \in FreeOf(h, B) : gnew.word[f] = new.word[f] /\ gnew.word[f + 1] = new.word[f + 1]
  BY <1>1, <1>2 DEF Alike
<1> QED BY <1>3, <1>4, <1>5, <1>6 DEF Alike

(* What is in a payload does not have to be the same.                      *)
LEMMA AlikeOne ==
  ASSUME NEW h, NEW B, Good(h, B), NEW b \in Taken(h, B), NEW new, Fills(h, new, b),
         NEW g, Alike(h, g, B, FreeOf(h, B))
  PROVE  Alike(new, g, B, FreeOf(new, B))
<1>1. Alike(h, new, B, FreeOf(h, B)) /\ Good(new, B) /\ SameTags(h, new, B)
      /\ FreeOf(new, B) = FreeOf(h, B)
  BY FillAlike, FillGood DEF Becomes
<1>2. \A c \in B : /\ g.word[c - 1] = new.word[c - 1]
                   /\ g.word[c + Size(new, c) - 2] = new.word[c + Size(new, c) - 2]
  <2> TAKE c \in B
  <2>1. Size(new, c) = Size(h, c)
    BY <1>1 DEF SameTags
  <2> QED BY <1>1, <2>1 DEF Alike
<1> QED BY <1>1, <1>2 DEF Alike


(* A block that has got room where it was, or next to that, gets the same  *)
(* words.                                                                  *)
LEMMA AlikeMove ==
  ASSUME NEW h, NEW B, Good(h, B), NEW bp \in Taken(h, B), NEW size \in Nat \ {0},
         NEW new, NEW C, InPlace(h, B, bp, AdjustedSize(size), new, C),
         new = Result(new.heap, new.ptr),
         NEW g, NEW gnew, gnew = Result(gnew.heap, gnew.ptr), AlikeResults(new, gnew, C),
         NEW where, where # "elsewhere"
  PROVE  AlikeResults(Move(h, bp, Amount(h, bp, size), new, where),
                      Move(g, bp, Amount(h, bp, size), gnew, where), C)
<1> DEFINE asize == AdjustedSize(size)
           copy == Amount(h, bp, size)
           x == new.ptr
           A == Taken(h, B) \ {bp}
           r == Move(h, bp, copy, new, where)
           s == Move(g, bp, copy, gnew, where)
<1>1. h \in Heap /\ Tiled(h, B) /\ bp \in B
  BY DEF Good, Laid, Taken
<1>2. /\ bp \in Int /\ Size(h, bp) \in Int /\ 4 <= bp /\ bp + Size(h, bp) <= h.brk
      /\ Size(h, bp) >= 4 /\ h.brk \in Int /\ h.brk <= MAX_HEAP /\ MAX_HEAP \in Int
  BY <1>1, TiledApart
<1>3. asize \in Int /\ asize >= size + 4
  BY AdjustedSizeIs
<1>4. copy \in Nat /\ copy <= size /\ copy <= Size(h, bp)
  BY <1>2 DEF Amount
<1> HIDE DEF asize, copy
<1>5. Reallocates(h, B, bp, asize, new.heap, x, C)
  BY DEF InPlace, asize
<1>6. /\ Becomes(h, new.heap, C, A \cup {x}, A) /\ x \in Int /\ x # NULL /\ x \notin A
      /\ Size(new.heap, x) >= asize /\ new.heap.brk = h.brk
  BY <1>5 DEF Reallocates, SameTags
<1>7. gnew.ptr = x /\ Alike(new.heap, gnew.heap, C, FreeOf(new.heap, C))
  BY DEF AlikeResults
<1>8. CASE x = bp
  <2>1. r = new /\ s = gnew
    BY <1>6, <1>7, <1>8 DEF Move
  <2> QED BY <2>1 DEF copy
<1>9. CASE x # bp
  <2> DEFINE f == memmove(new.heap, x, bp, copy)
             gf == memmove(gnew.heap, x, bp, copy)
  <2>1. r = Result(f, x) /\ s = Result(gf, x)
    BY <1>6, <1>7, <1>9 DEF Move
  <2>2. Good(new.heap, C) /\ x \in Taken(new.heap, C)
    BY <1>6 DEF Becomes
  <2>3. Good(gnew.heap, C) /\ x \in Taken(gnew.heap, C) /\ SameTags(new.heap, gnew.heap, C)
    BY <1>7, <2>2, GoodAlike
  <2>4. x \in C /\ Size(new.heap, x) \in Int /\ Size(gnew.heap, x) = Size(new.heap, x)
    <3>1. new.heap \in Heap /\ Tiled(new.heap, C) /\ x \in C
      BY <2>2 DEF Good, Laid, Taken
    <3> QED BY <2>3, <3>1, TiledApart DEF SameTags
  <2>5. copy <= Size(new.heap, x) - 2 /\ copy <= Size(gnew.heap, x) - 2
    BY <1>3, <1>4, <1>6, <2>4
  <2>6. /\ bp + copy <= MAX_HEAP /\ 0 <= bp /\ copy \in Int /\ bp \in Int
    BY <1>2, <1>4
  <2> HIDE DEF r, s, x
  <2>7. Fills(new.heap, f, x)
    BY <2>2, <2>5, <2>6, MemmoveFills
  <2>8. Fills(gnew.heap, gf, x)
    BY <2>3, <2>5, <2>6, MemmoveFills
  <2> HIDE DEF f, gf
  <2>9. Alike(f, gf, C, FreeOf(f, C))
    BY <1>7, <2>2, <2>7, <2>8, AlikeFill
  <2>10. AlikeResults(r, s, C)
    BY <2>1, <2>9 DEF AlikeResults, Result
  <2> QED BY <2>10 DEF r, s, copy
<1> QED BY <1>8, <1>9

(* So does one that has got room elsewhere.                                *)
LEMMA AlikeElsewhere ==
  ASSUME NEW h, NEW B, Good(h, B), NEW bp \in Taken(h, B), NEW size \in Nat \ {0},
         Allocates(h, B, AdjustedSize(size), mm_malloc(h, size),
                   MallocBlocks(h, B, AdjustedSize(size))),
         NEW g, AlikeResults(mm_malloc(h, size), mm_malloc(g, size),
                             MallocBlocks(h, B, AdjustedSize(size)))
  PROVE  AlikeResults(Move(h, bp, Amount(h, bp, size), mm_malloc(h, size), "elsewhere"),
                      Move(g, bp, Amount(h, bp, size), mm_malloc(g, size), "elsewhere"),
                      ElsewhereBlocks(h, B, bp, size))
<1> DEFINE asize == AdjustedSize(size)
           copy == Amount(h, bp, size)
           new == mm_malloc(h, size)
           gnew == mm_malloc(g, size)
           x == new.ptr
           C == MallocBlocks(h, B, asize)
           f == memmove(new.heap, x, bp, copy)
           gf == memmove(gnew.heap, x, bp, copy)
           D == FreedBlocks(f, C, bp)
           r == Move(h, bp, copy, new, "elsewhere")
           s == Move(g, bp, copy, gnew, "elsewhere")
<1>1. h \in Heap /\ Tiled(h, B) /\ bp \in B
  BY DEF Good, Laid, Taken
<1>2. /\ bp \in Int /\ Size(h, bp) \in Int /\ 4 <= bp /\ bp + Size(h, bp) <= h.brk
      /\ Size(h, bp) >= 4 /\ h.brk \in Int /\ h.brk <= MAX_HEAP /\ MAX_HEAP \in Int
  BY <1>1, TiledApart
<1>3. asize \in Int /\ asize >= size + 4
  BY AdjustedSizeIs
<1>4. copy \in Nat /\ copy <= size /\ copy <= Size(h, bp)
  BY <1>2 DEF Amount
<1>5. /\ Becomes(h, new.heap, C, Taken(h, B) \cup {x}, Taken(h, B))
      /\ x \in Int /\ x # NULL /\ x \notin Taken(h, B) /\ Size(new.heap, x) >= asize
  BY DEF Allocates
<1>6. ElsewhereBlocks(h, B, bp, size) = D
  BY DEF ElsewhereBlocks
<1>7. gnew.ptr = x /\ Alike(new.heap, gnew.heap, C, FreeOf(new.heap, C))
  BY DEF AlikeResults
<1>8. r = Result(mm_free(f, bp), x) /\ s = Result(mm_free(gf, bp), x)
  BY <1>5, <1>7 DEF Move
<1> HIDE DEF asize, copy, new, gnew, x, C, r, s
<1>9. Good(new.heap, C) /\ x \in Taken(new.heap, C) /\ bp \in Taken(new.heap, C)
  BY <1>5 DEF Becomes
<1>10. Good(gnew.heap, C) /\ x \in Taken(gnew.heap, C) /\ SameTags(new.heap, gnew.heap, C)
  BY <1>7, <1>9, GoodAlike
<1>11. x \in C /\ Size(new.heap, x) \in Int /\ Size(gnew.heap, x) = Size(new.heap, x)
  <2>1. new.heap \in Heap /\ Tiled(new.heap, C) /\ x \in C
    BY <1>9 DEF Good, Laid, Taken
  <2> QED BY <1>10, <2>1, TiledApart DEF SameTags
<1>12. copy <= Size(new.heap, x) - 2 /\ copy <= Size(gnew.heap, x) - 2
  BY <1>3, <1>4, <1>5, <1>11
<1>13. /\ bp + copy <= MAX_HEAP /\ 0 <= bp /\ copy \in Int /\ bp \in Int
  BY <1>2, <1>4
<1>14. Fills(new.heap, f, x)
  BY <1>9, <1>12, <1>13, MemmoveFills
<1>15. Fills(gnew.heap, gf, x)
  BY <1>10, <1>12, <1>13, MemmoveFills
<1> HIDE DEF f, gf
<1>16. Alike(f, gf, C, FreeOf(f, C))
  BY <1>7, <1>9, <1>14, <1>15, AlikeFill
<1>17. Good(f, C) /\ bp \in Taken(f, C)
  BY <1>9, <1>14, FillGood DEF Becomes
<1>18. Alike(mm_free(f, bp), mm_free(gf, bp), D, FreeOf(mm_free(f, bp), D))
  BY <1>16, <1>17, AlikeFree
<1> HIDE DEF D
<1>19. AlikeResults(r, s, D)
  BY <1>8, <1>18 DEF AlikeResults, Result
<1> QED BY <1>6, <1>19 DEF r, s, new, gnew, copy

(* Reallocating does the same in heaps that are alike.                     *)
THEOREM AlikeRealloc ==
  ASSUME NEW h, NEW B, Good(h, B), NEW bp \in Taken(h, B), NEW size \in Nat \ {0},
         ~ SplitsBoth(h, bp, size), NEW g, Alike(h, g, B, FreeOf(h, B))
  PROVE  \/ /\ Faults(h, B, bp, size, mm_realloc(h, bp, size))
            /\ mm_realloc(g, bp, size) = Result(g, Fault)
         \/ AlikeResults(mm_realloc(h, bp, size), mm_realloc(g, bp, size),
                         ReallocBlocks(h, B, bp, size))
<1> DEFINE asize == AdjustedSize(size)
           room == Room(h, bp, size)
           new == NewBlock(h, bp, size, room)
           gnew == NewBlock(g, bp, size, room)
           r == mm_realloc(h, bp, size)
           s == mm_realloc(g, bp, size)
           C == ReallocBlocks(h, B, bp, size)
<1>1. bp # NULL /\ bp \in Int /\ Size(h, bp) \in Int
  BY TiledApart DEF Good, Laid, Taken, NULL
<1>2. asize \in Int /\ (asize % 2) = 0 /\ asize >= 4
  BY AdjustedSizeIs
<1>3. r = Move(h, bp, Amount(h, bp, size), new, room.where)
  BY <1>1, ReallocIs
<1>4. /\ Room(g, bp, size) = room /\ PrevOf(g, bp) = PrevOf(h, bp) /\ NextOf(g, bp) = NextOf(h, bp)
      /\ Amount(g, bp, size) = Amount(h, bp, size)
  BY AlikeRoom
<1>5. s = Move(g, bp, Amount(h, bp, size), gnew, room.where)
  <2>1. mm_realloc(g, bp, size) =
          Move(g, bp, Amount(g, bp, size), NewBlock(g, bp, size, Room(g, bp, size)),
               Room(g, bp, size).where)
    BY <1>1, ReallocIs
  <2> QED BY <1>4, <2>1
<1>6. RoomCases(h, B, bp, asize, room)
  BY RoomIs
<1>7. C = IF room.where = "here" THEN HereBlocks(h, B, bp, asize)
          ELSE IF room.where = "left" THEN LeftBlocks(h, B, bp, asize)
          ELSE IF room.where = "right" THEN RightBlocks(h, B, bp, asize)
          ELSE IF room.where = "both" THEN BothBlocks(h, B, bp)
          ELSE ElsewhereBlocks(h, B, bp, size)
  BY DEF ReallocBlocks
<1>8. /\ room.where = "here" => new = Shrink(h, bp, asize, room.rest)
      /\ room.where = "left" => new = GrowLeft(h, PrevOf(h, bp), asize, room.rest)
      /\ room.where = "right" => new = GrowRight(h, bp, NextOf(h, bp), asize, room.rest)
      /\ room.where = "both" => new = GrowBoth(h, PrevOf(h, bp), NextOf(h, bp), asize, room.rest)
      /\ room.where = "elsewhere" => new = mm_malloc(h, size)
  BY NewBlockIs
<1>9. /\ room.where = "here" => gnew = Shrink(g, bp, asize, room.rest)
      /\ room.where = "left" => gnew = GrowLeft(g, PrevOf(g, bp), asize, room.rest)
      /\ room.where = "right" => gnew = GrowRight(g, bp, NextOf(g, bp), asize, room.rest)
      /\ room.where = "both" => gnew = GrowBoth(g, PrevOf(g, bp), NextOf(g, bp), asize, room.rest)
      /\ room.where = "elsewhere" => gnew = mm_malloc(g, size)
  BY NewBlockIs
<1>10. ~ (room.where = "both" /\ room.rest >= MIN_B_SIZE)
  BY DEF SplitsBoth
<1> HIDE DEF asize, room, new, gnew, r, s, C
<1>11. SUFFICES ASSUME room.where # "elsewhere"
                PROVE  /\ InPlace(h, B, bp, asize, new, C) /\ new = Result(new.heap, new.ptr)
                       /\ AlikeResults(new, gnew, C) /\ gnew = Result(gnew.heap, gnew.ptr)
  <2>1. CASE room.where # "elsewhere"
    <3>1. /\ InPlace(h, B, bp, AdjustedSize(size), new, C) /\ new = Result(new.heap, new.ptr)
          /\ AlikeResults(new, gnew, C) /\ gnew = Result(gnew.heap, gnew.ptr)
      BY <1>11, <2>1 DEF asize
    <3>2. AlikeResults(Move(h, bp, Amount(h, bp, size), new, room.where),
                       Move(g, bp, Amount(h, bp, size), gnew, room.where), C)
      BY <2>1, <3>1, AlikeMove
    <3> QED BY <1>3, <1>5, <3>2 DEF r, s, C
  <2>2. CASE room.where = "elsewhere"
    <3>1. /\ new = mm_malloc(h, size) /\ gnew = mm_malloc(g, size)
          /\ C = ElsewhereBlocks(h, B, bp, size)
      BY <1>7, <1>8, <1>9, <2>2
    <3>2. CASE /\ Fails(h, B, asize, mm_malloc(h, size))
               /\ mm_malloc(g, size) = Result(g, NULL)
      <4>1. new.ptr = NULL /\ gnew.ptr = NULL
        BY <3>1, <3>2 DEF Fails, Result
      <4>2. r = Result(h, Fault) /\ s = Result(g, Fault)
        BY <1>3, <1>5, <4>1 DEF Move
      <4> QED BY <2>2, <3>2, <4>2 DEF Faults, r, s, room, asize
    <3>3. CASE AlikeResults(mm_malloc(h, size), mm_malloc(g, size), MallocBlocks(h, B, asize))
      <4>1. CASE Fails(h, B, asize, mm_malloc(h, size))
        <5>1. new.ptr = NULL /\ gnew.ptr = NULL
          BY <3>1, <3>3, <4>1 DEF Fails, Result, AlikeResults
        <5>2. r = Result(h, Fault) /\ s = Result(g, Fault)
          BY <1>3, <1>5, <5>1 DEF Move
        <5> QED BY <2>2, <4>1, <5>2 DEF Faults, r, s, room, asize
      <4>2. CASE Allocates(h, B, asize, mm_malloc(h, size), MallocBlocks(h, B, asize))
        <5>1. AlikeResults(Move(h, bp, Amount(h, bp, size), mm_malloc(h, size), "elsewhere"),
                           Move(g, bp, Amount(h, bp, size), mm_malloc(g, size), "elsewhere"),
                           ElsewhereBlocks(h, B, bp, size))
          BY <3>3, <4>2, AlikeElsewhere DEF asize
        <5> QED BY <1>3, <1>5, <2>2, <3>1, <5>1 DEF r, s, C
      <4> QED BY <4>1, <4>2, MallocGood DEF asize
    <3> QED BY <3>2, <3>3, AlikeMalloc DEF asize
  <2> QED BY <2>1, <2>2
<1>12. CASE /\ room.where = "here" /\ asize <= Size(h, bp)
            /\ room.rest = Size(h, bp) - asize
  <2>1. /\ new = Shrink(h, bp, asize, Size(h, bp) - asize)
        /\ gnew = Shrink(g, bp, asize, Size(h, bp) - asize)
        /\ C = HereBlocks(h, B, bp, asize)
    BY <1>7, <1>8, <1>9, <1>12
  <2>2. InPlace(h, B, bp, asize, Shrink(h, bp, asize, Size(h, bp) - asize),
                HereBlocks(h, B, bp, asize))
    BY <1>2, <1>12, HereGood
  <2>3. AlikeResults(Shrink(h, bp, asize, Size(h, bp) - asize),
                     Shrink(g, bp, asize, Size(h, bp) - asize), HereBlocks(h, B, bp, asize))
    BY <1>2, <1>12, AlikeHere
  <2> QED BY <2>1, <2>2, <2>3, Results
<1>13. CASE /\ room.where = "left" /\ asize > Size(h, bp) /\ RoomLeft(h, B, bp)
            /\ room.rest = Stop(h, bp) - PrevOf(h, bp) - asize /\ room.rest >= 0
  <2>1. /\ new = GrowLeft(h, PrevOf(h, bp), asize, room.rest)
        /\ gnew = GrowLeft(g, PrevOf(h, bp), asize, room.rest)
        /\ C = LeftBlocks(h, B, bp, asize)
    BY <1>4, <1>7, <1>8, <1>9, <1>13
  <2>2. InPlace(h, B, bp, asize, GrowLeft(h, PrevOf(h, bp), asize, room.rest),
                LeftBlocks(h, B, bp, asize))
    BY <1>2, <1>13, LeftGood
  <2>3. AlikeResults(GrowLeft(h, PrevOf(h, bp), asize, room.rest),
                     GrowLeft(g, PrevOf(h, bp), asize, room.rest), LeftBlocks(h, B, bp, asize))
    BY <1>2, <1>13, AlikeLeft
  <2> QED BY <2>1, <2>2, <2>3, Results
<1>14. CASE /\ room.where = "right" /\ asize > Size(h, bp) /\ RoomRight(h, B, bp)
            /\ room.rest = Stop(h, NextOf(h, bp)) - bp - asize /\ room.rest >= 0
  <2>1. /\ new = GrowRight(h, bp, NextOf(h, bp), asize, room.rest)
        /\ gnew = GrowRight(g, bp, NextOf(h, bp), asize, room.rest)
        /\ C = RightBlocks(h, B, bp, asize)
    BY <1>4, <1>7, <1>8, <1>9, <1>14
  <2>2. InPlace(h, B, bp, asize, GrowRight(h, bp, NextOf(h, bp), asize, room.rest),
                RightBlocks(h, B, bp, asize))
    BY <1>2, <1>14, RightGood
  <2>3. AlikeResults(GrowRight(h, bp, NextOf(h, bp), asize, room.rest),
                     GrowRight(g, bp, NextOf(h, bp), asize, room.rest),
                     RightBlocks(h, B, bp, asize))
    BY <1>2, <1>14, AlikeRight
  <2> QED BY <2>1, <2>2, <2>3, Results
<1>15. CASE /\ room.where = "both" /\ asize > Size(h, bp) /\ RoomBoth(h, B, bp)
            /\ room.rest = Stop(h, NextOf(h, bp)) - PrevOf(h, bp) - asize /\ room.rest >= 0
  <2>1. /\ new = GrowBoth(h, PrevOf(h, bp), NextOf(h, bp), asize, room.rest)
        /\ gnew = GrowBoth(g, PrevOf(h, bp), NextOf(h, bp), asize, room.rest)
        /\ C = BothBlocks(h, B, bp)
    BY <1>4, <1>7, <1>8, <1>9, <1>15
  <2>2. InPlace(h, B, bp, asize, GrowBoth(h, PrevOf(h, bp), NextOf(h, bp), asize, room.rest),
                BothBlocks(h, B, bp))
    BY <1>2, <1>10, <1>15, BothGood
  <2>3. AlikeResults(GrowBoth(h, PrevOf(h, bp), NextOf(h, bp), asize, room.rest),
                     GrowBoth(g, PrevOf(h, bp), NextOf(h, bp), asize, room.rest),
                     BothBlocks(h, B, bp))
    BY <1>2, <1>10, <1>15, AlikeBoth
  <2> QED BY <2>1, <2>2, <2>3, Results
<1> QED BY <1>6, <1>11, <1>12, <1>13, <1>14, <1>15 DEF RoomCases

----------------------------------------------------------------------------
(* The walks of mm_check.                                                  *)

(* What a walk reaches in up to m steps.                                   *)
UpTo(first, next, m, f) ==
  f = [n \in 0 .. m |-> IF n = 0 THEN first ELSE Further(f[n - 1], next)]

(* The sets that a walk reaches, step by step.                             *)
Reach(first, next) == CHOOSE f : UpTo(first, next, MAX_HEAP, f)

(* There are such sets for any number of steps: for the least number       *)
(* without them there would be those of the number before, and one more.   *)
LEMMA ReachExists ==
  ASSUME NEW first, NEW next, NEW N \in Nat
  PROVE  \E f : UpTo(first, next, N, f)
<1> DEFINE Bad == {n \in Nat : ~ \E f : UpTo(first, next, n, f)}
<1>1. SUFFICES ASSUME Bad # {} PROVE FALSE
  OBVIOUS
<1>2. PICK n \in Bad : \A m \in Bad : n <= m
  <2>1. Bad \subseteq Nat
    OBVIOUS
  <2> HIDE DEF Bad
  <2> QED BY <1>1, <2>1, LeastNat
<1>3. n # 0
  <2>1. UpTo(first, next, 0, [k \in 0 .. 0 |-> first])
    BY DEF UpTo
  <2> QED BY <2>1
<1>4. n - 1 \in Nat /\ n - 1 \notin Bad
  <2>1. n \in Nat
    OBVIOUS
  <2>2. \A m : m \in Bad => n <= m
    BY <1>2
  <2> HIDE DEF Bad
  <2> QED BY <1>3, <2>1, <2>2
<1>5. PICK f : UpTo(first, next, n - 1, f)
  BY <1>4
<1>6. n \in Nat
  OBVIOUS
<1> DEFINE g == [k \in 0 .. n |-> IF k = n THEN Further(f[n - 1], next) ELSE f[k]]
<1>7. \A k \in 0 .. n : g[k] = IF k = 0 THEN first ELSE Further(g[k - 1], next)
  <2> TAKE k \in 0 .. n
  <2>1. CASE k = n
    <3>1. g[k] = Further(f[n - 1], next) /\ g[k - 1] = f[n - 1] /\ k # 0
      BY <1>3, <1>6, <2>1
    <3> QED BY <3>1
  <2>2. CASE k # n
    <3>1. k \in 0 .. n - 1
      BY <1>6, <2>2
    <3>2. f[k] = IF k = 0 THEN first ELSE Further(f[k - 1], next)
      BY <1>5, <3>1 DEF UpTo
    <3>3. g[k] = f[k] /\ (k # 0 => g[k - 1] = f[k - 1])
      BY <1>6, <3>1
    <3> HIDE DEF g
    <3> QED BY <3>2, <3>3
  <2> QED BY <2>1, <2>2
<1>8. UpTo(first, next, n, g)
  <2>1. DOMAIN g = 0 .. n /\ g = [k \in 0 .. n |-> g[k]]
    OBVIOUS
  <2> HIDE DEF g, Bad
  <2> QED BY <1>7, <2>1 DEF UpTo
<1>9. n \notin Bad
  BY <1>8
<1> QED BY <1>9

(* So the walk goes on from what it has reached.                           *)
LEMMA ReachSteps ==
  ASSUME NEW first, NEW next
  PROVE  /\ Reach(first, next)[0] = first
         /\ \A n \in Nat : n + 1 <= MAX_HEAP =>
              Reach(first, next)[n + 1] = Further(Reach(first, next)[n], next)
<1>1. UpTo(first, next, MAX_HEAP, Reach(first, next))
  BY MaxHeapAssumption, ReachExists DEF Reach
<1> DEFINE r == Reach(first, next)
<1> HIDE DEF r
<1>2. \A n \in 0 .. MAX_HEAP : r[n] = IF n = 0 THEN first ELSE Further(r[n - 1], next)
  BY <1>1 DEF UpTo, r
<1>3. r[0] = first
  BY <1>2, MaxHeapAssumption
<1>4. ASSUME NEW n \in Nat, n + 1 <= MAX_HEAP
      PROVE  r[n + 1] = Further(r[n], next)
  <2>1. n + 1 \in 0 .. MAX_HEAP /\ (n + 1) - 1 = n /\ n + 1 # 0
    BY <1>4, MaxHeapAssumption
  <2>2. r[n + 1] = IF n + 1 = 0 THEN first ELSE Further(r[(n + 1) - 1], next)
    BY <1>2, <2>1
  <2> QED BY <2>1, <2>2
<1> QED BY <1>3, <1>4 DEF r

(* The whole walk.                                                         *)
LEMMA WalkIs ==
  ASSUME NEW h, NEW first, NEW next
  PROVE  Walk(h, first, next) = Reach(first, next)[h.brk \div 2]
BY Zenon DEF Walk, Reach, UpTo

(* A walk stays in a set that holds its first blocks and is not left.      *)
LEMMA WalkWithin ==
  ASSUME NEW first, NEW next, NEW S, first \subseteq S,
         \A bp \in S : bp \in DOMAIN next => next[bp] \subseteq S,
         NEW N \in Nat, N <= MAX_HEAP
  PROVE  Reach(first, next)[N] \subseteq S
<1> DEFINE r == Reach(first, next)
           Bad == {n \in Nat : n <= MAX_HEAP /\ ~ (r[n] \subseteq S)}
<1>1. SUFFICES ASSUME Bad # {} PROVE FALSE
  OBVIOUS
<1>2. PICK n \in Bad : \A m \in Bad : n <= m
  <2>1. Bad \subseteq Nat
    OBVIOUS
  <2> HIDE DEF Bad
  <2> QED BY <1>1, <2>1, LeastNat
<1>3. r[0] \subseteq S
  BY ReachSteps
<1> HIDE DEF r
<1>4. n # 0
  BY <1>3
<1>5. n \in Nat /\ n <= MAX_HEAP /\ ~ (r[n] \subseteq S)
  OBVIOUS
<1> HIDE DEF Bad
<1>6. n - 1 \in Nat /\ n - 1 \notin Bad
  <2>1. \A m : m \in Bad => n <= m
    BY <1>2
  <2> QED BY <1>4, <1>5, <2>1
<1>7. r[n - 1] \subseteq S
  <2>1. n - 1 <= MAX_HEAP
    BY <1>5, MaxHeapAssumption
  <2> QED BY <1>6, <2>1 DEF Bad
<1>8. r[n] = Further(r[n - 1], next)
  <2>1. (n - 1) + 1 = n
    BY <1>5
  <2> QED BY <1>5, <1>6, <2>1, ReachSteps DEF r
<1>9. Further(r[n - 1], next) \subseteq S
  BY <1>7 DEF Further
<1> QED BY <1>5, <1>8, <1>9

(* A walk of N steps that stays within F has reached N blocks, or all of F *)
(* if only F is a set that holds its first blocks and is not left.         *)
LEMMA WalkCounts ==
  ASSUME NEW first, NEW next, NEW F, IsFiniteSet(F), first \subseteq F,
         F \subseteq DOMAIN next, \A bp \in F : next[bp] \subseteq F,
         \A S \in SUBSET F : first \subseteq S /\ (\A bp \in S : next[bp] \subseteq S) => S = F,
         NEW N \in Nat, N <= MAX_HEAP
  PROVE  Reach(first, next)[N] = F \/ Cardinality(Reach(first, next)[N]) >= N
<1> DEFINE r == Reach(first, next)
           Bad == {n \in Nat : n <= MAX_HEAP /\ ~ (r[n] = F \/ Cardinality(r[n]) >= n)}
<1>1. SUFFICES ASSUME Bad # {} PROVE FALSE
  OBVIOUS
<1>2. PICK n \in Bad : \A m \in Bad : n <= m
  <2>1. Bad \subseteq Nat
    OBVIOUS
  <2> HIDE DEF Bad
  <2> QED BY <1>1, <2>1, LeastNat
<1>3. r[0] = first
  BY ReachSteps
<1>4. \A k \in Nat : k <= MAX_HEAP => r[k] \subseteq F
  BY WalkWithin
<1> HIDE DEF r
<1>5. n \in Nat /\ n <= MAX_HEAP /\ r[n] # F /\ ~ (Cardinality(r[n]) >= n)
  OBVIOUS
<1>6. n # 0
  <2>1. IsFiniteSet(r[n]) /\ Cardinality(r[n]) \in Nat
    BY <1>4, <1>5, FS_Subset, FS_CardinalityType
  <2> QED BY <1>5, <2>1
<1> DEFINE k == n - 1
<1>7. k \in Nat /\ k <= MAX_HEAP /\ k + 1 = n
  BY <1>5, <1>6, MaxHeapAssumption
<1>8. r[k] = F \/ Cardinality(r[k]) >= k
  <2>1. ~ (n <= k)
    BY <1>7
  <2>2. k \notin Bad
    BY <1>2, <2>1
  <2> HIDE DEF k
  <2> QED BY <1>7, <2>2
<1> HIDE DEF k, Bad
<1>9. r[n] = Further(r[k], next)
  BY <1>5, <1>7, ReachSteps DEF r
<1>10. r[k] \subseteq F /\ r[n] \subseteq F /\ r[k] \subseteq r[n]
  BY <1>4, <1>5, <1>7, <1>9 DEF Further
<1>11. r[k] # F
  BY <1>5, <1>10
<1>12. first \subseteq r[k]
  <2>1. CASE k = 0
    BY <1>3, <2>1
  <2>2. CASE k # 0
    <3> DEFINE S == r[k]
               Late == {m \in Nat : m <= MAX_HEAP /\ ~ (first \subseteq r[m])}
    <3>1. SUFFICES ASSUME Late # {} PROVE FALSE
      BY <1>7
    <3>2. PICK m \in Late : \A l \in Late : m <= l
      <4>1. Late \subseteq Nat
        OBVIOUS
      <4> HIDE DEF Late
      <4> QED BY <3>1, <4>1, LeastNat
    <3>3. m # 0 /\ m \in Nat /\ m <= MAX_HEAP
      BY <1>3
    <3>4. m - 1 \in Nat /\ m - 1 <= MAX_HEAP /\ (m - 1) + 1 = m /\ ~ (m <= m - 1)
      BY <3>3, MaxHeapAssumption
    <3>5. first \subseteq r[m - 1]
      BY <3>2, <3>4
    <3>6. r[m] = Further(r[m - 1], next)
      BY <3>3, <3>4, ReachSteps DEF r
    <3>7. first \subseteq r[m]
      BY <3>5, <3>6 DEF Further
    <3> QED BY <3>7
  <2> QED BY <2>1, <2>2
<1>13. r[n] # r[k]
  <2>1. SUFFICES ASSUME r[n] = r[k] PROVE FALSE
    OBVIOUS
  <2>2. \A bp \in r[k] : next[bp] \subseteq r[k]
    <3> TAKE bp \in r[k]
    <3>1. bp \in DOMAIN next
      BY <1>10
    <3> QED BY <1>9, <2>1, <3>1 DEF Further
  <2>3. r[k] = F
    BY <1>10, <1>12, <2>2
  <2> QED BY <1>11, <2>3
<1>14. /\ IsFiniteSet(r[n]) /\ Cardinality(r[n]) \in Nat
       /\ Cardinality(r[k]) \in Nat
       /\ Cardinality(r[k]) <= Cardinality(r[n]) /\ Cardinality(r[k]) # Cardinality(r[n])
  <2>1. IsFiniteSet(r[n])
    BY <1>10, FS_Subset
  <2>2. IsFiniteSet(r[k])
    BY <1>10, FS_Subset
  <2>3. /\ Cardinality(r[k]) <= Cardinality(r[n])
        /\ Cardinality(r[n]) = Cardinality(r[k]) => r[n] = r[k]
    BY <1>10, <2>1, FS_Subset
  <2> QED BY <1>13, <2>1, <2>2, <2>3, FS_CardinalityType
<1>15. Cardinality(r[n]) >= n
  BY <1>7, <1>8, <1>11, <1>14
<1> QED BY <1>5, <1>15

(* There are fewer blocks than two for each four words.                    *)
LEMMA FewBlocks ==
  ASSUME NEW h \in Heap, NEW B, Tiled(h, B), NEW F \in SUBSET B
  PROVE  /\ IsFiniteSet(F) /\ Cardinality(F) \in Nat
         /\ ~ (Cardinality(F) >= h.brk \div 2)
         /\ h.brk \div 2 \in Nat /\ h.brk \div 2 <= MAX_HEAP
<1> DEFINE T == 1 .. (h.brk \div 2) - 1
           half == [b \in F |-> b \div 2]
<1>1. /\ h.brk \in Int /\ 4 <= h.brk /\ h.brk <= MAX_HEAP /\ MAX_HEAP \in Int
      /\ (h.brk % 2) = 0
      /\ \A b \in B : b \in Int /\ 4 <= b /\ (b % 2) = 0 /\ b < h.brk
  <2>1. \A b \in B : b < h.brk
    <3> TAKE b \in B
    <3>1. b \in Int /\ Size(h, b) \in Int /\ Size(h, b) >= 4 /\ b + Size(h, b) <= h.brk
          /\ h.brk \in Int
      BY TiledApart
    <3> QED BY <3>1
  <2> QED BY <2>1, TiledApart DEF Tiled, Fenced
<1>2. h.brk = 2 * (h.brk \div 2) /\ h.brk \div 2 \in Int /\ h.brk \div 2 >= 2
      /\ h.brk \div 2 <= MAX_HEAP
  BY <1>1
<1>3. \A b \in F : /\ b \div 2 \in T /\ b = 2 * (b \div 2)
  <2> TAKE b \in F
  <2>1. b \in Int /\ 4 <= b /\ (b % 2) = 0 /\ b < h.brk
    BY <1>1
  <2>2. b = 2 * (b \div 2) /\ b \div 2 \in Int
    BY <2>1
  <2> QED BY <1>2, <2>1, <2>2
<1>4. half \in [F -> T] /\ \A a, b \in F : half[a] = half[b] => a = b
  BY <1>3
<1>5. half \in Injection(F, T)
  BY <1>4 DEF Injection, IsInjective
<1>6. IsFiniteSet(T) /\ Cardinality(T) = (h.brk \div 2) - 1
  <2>1. 1 \in Int /\ (h.brk \div 2) - 1 \in Int /\ ~ (1 > (h.brk \div 2) - 1)
    BY <1>2
  <2>2. ((h.brk \div 2) - 1) - 1 + 1 = (h.brk \div 2) - 1
    BY <1>2
  <2> QED BY <2>1, <2>2, FS_Interval
<1> HIDE DEF T, half
<1>7. IsFiniteSet(F) /\ Cardinality(F) <= Cardinality(T)
  BY <1>5, <1>6, FS_Injection
<1>8. Cardinality(F) \in Nat
  BY <1>7, FS_CardinalityType
<1> QED BY <1>2, <1>6, <1>7, <1>8

(* The walk along the list reaches the free blocks.                        *)
LEMMA FreeListIs ==
  ASSUME NEW h, NEW B, Good(h, B)
  PROVE  FreeList(h) = FreeOf(h, B)
<1> DEFINE F == FreeOf(h, B)
           first == {h.free_list_start} \ {NULL}
           next == [bp \in BlockPtrs(h) |->
                      IF bp + 1 \in Words THEN {SUCC_BLKP(h, bp)} \ {NULL} ELSE {}]
           N == h.brk \div 2
<1>1. h \in Heap /\ Tiled(h, B) /\ Listed(h, F) /\ F \in SUBSET B
  BY DEF Good, Laid, FreeOf
<1>2. FreeList(h) = Reach(first, next)[N]
  BY WalkIs DEF FreeList
<1>3. \A f \in F : f \in BlockPtrs(h) /\ f + 1 \in Words
  <2> TAKE f \in F
  <2>1. f \in Int /\ 4 <= f /\ f + Size(h, f) <= h.brk /\ Size(h, f) \in Int
        /\ Size(h, f) >= 4 /\ h.brk \in Int /\ f + 1 \in Words
    BY <1>1, TiledApart
  <2> QED BY <2>1 DEF BlockPtrs
<1>4. F \subseteq DOMAIN next /\ \A f \in F : next[f] = {SUCC_BLKP(h, f)} \ {NULL}
  BY <1>3
<1>5. first \subseteq F /\ \A f \in F : next[f] \subseteq F
  BY <1>1, <1>4 DEF Listed, Linked
<1> HIDE DEF F
<1>6. ASSUME NEW S \in SUBSET F, first \subseteq S, \A bp \in S : next[bp] \subseteq S
      PROVE  S = F
  <2>1. h.free_list_start # NULL => h.free_list_start \in S
    BY <1>6
  <2>2. \A f \in S : {SUCC_BLKP(h, f)} \ {NULL} \subseteq S
    BY <1>4, <1>6
  <2>3. Passed(h, S)
    BY <2>1, <2>2 DEF Passed
  <2> QED BY <1>1, <2>3 DEF Listed
<1> HIDE DEF first, next
<1>7. /\ IsFiniteSet(F) /\ Cardinality(F) \in Nat /\ ~ (Cardinality(F) >= N)
      /\ N \in Nat /\ N <= MAX_HEAP
  BY <1>1, FewBlocks
<1> HIDE DEF N
<1>8. Reach(first, next)[N] = F \/ Cardinality(Reach(first, next)[N]) >= N
  BY <1>4, <1>5, <1>6, <1>7, WalkCounts
<1>9. Reach(first, next)[N] \subseteq F
  BY <1>4, <1>5, <1>7, WalkWithin
<1>10. ~ (Cardinality(Reach(first, next)[N]) >= N)
  <2>1. Cardinality(Reach(first, next)[N]) <= Cardinality(F)
        /\ IsFiniteSet(Reach(first, next)[N])
    BY <1>7, <1>9, FS_Subset
  <2>2. Cardinality(Reach(first, next)[N]) \in Nat
    BY <2>1, FS_CardinalityType
  <2> QED BY <1>7, <2>1, <2>2
<1> QED BY <1>2, <1>8, <1>10 DEF F

(* The walk over the heap reaches the blocks and the epilogue: n steps     *)
(* take it over 4 n words at least.                                        *)
THEOREM HeapBlocksIs ==
  ASSUME NEW h, NEW B, Good(h, B)
  PROVE  HeapBlocks(h) = B
<1> DEFINE first == {4}
           next == [bp \in BlockPtrs(h) |-> {NEXT_BLKP(h, bp)}]
           N == h.brk \div 2
           All == B \cup {h.brk}
           r == Reach(first, next)
           Bad == {n \in Nat : n <= MAX_HEAP /\ ~ \A b \in All : b <= 4 + 4 * n => b \in r[n]}
<1>1. h \in Heap /\ Tiled(h, B) /\ B \in SUBSET B
  BY DEF Good, Laid
<1>2. /\ h.brk \in Int /\ 4 <= h.brk
      /\ \A b \in B : /\ b \in Int /\ 4 <= b /\ Size(h, b) \in Int /\ Size(h, b) >= 4
                      /\ b + Size(h, b) <= h.brk /\ b + Size(h, b) \in All
  BY <1>1, TiledApart
<1>3. \A b \in B : b < h.brk /\ b \in BlockPtrs(h)
  <2> TAKE b \in B
  <2>1. b \in Int /\ 4 <= b /\ Size(h, b) \in Int /\ Size(h, b) >= 4 /\ b + Size(h, b) <= h.brk
    BY <1>2
  <2> QED BY <1>2, <2>1 DEF BlockPtrs
<1>4. h.brk \in BlockPtrs(h) /\ All \subseteq BlockPtrs(h) /\ \A b \in All : b \in Int /\ 4 <= b
  BY <1>2, <1>3 DEF BlockPtrs
<1>5. \A b \in B : next[b] = {b + Size(h, b)}
  BY <1>1, <1>3, After
<1>6. GET_SIZE(h, HDRP(h.brk)) = 0 /\ h.brk \notin B
  BY <1>1, EndSize
<1>7. next[h.brk] = {h.brk}
  <2>1. NEXT_BLKP(h, h.brk) = h.brk
    BY <1>2, <1>6 DEF NEXT_BLKP, HDRP
  <2> QED BY <1>4, <2>1
<1>8. N \in Nat /\ N <= MAX_HEAP /\ h.brk <= 4 + 4 * N
  <2>1. N \in Nat /\ N <= MAX_HEAP
    BY <1>1, FewBlocks
  <2>2. h.brk = 2 * N
    <3>1. (h.brk % 2) = 0
      BY <1>1 DEF Tiled, Fenced
    <3> QED BY <1>2, <3>1
  <2> QED BY <2>1, <2>2
<1>9. HeapBlocks(h) = {bp \in r[N] : bp \in BlockPtrs(h) => GET_SIZE(h, HDRP(bp)) # 0}
  BY WalkIs DEF HeapBlocks
<1>10. 4 \in All
  BY <1>1 DEF Tiled, Tiles
<1>11. \A b \in All : next[b] \subseteq All
  <2>1. \A b \in B : b + Size(h, b) \in All
    BY <1>2
  <2> HIDE DEF next
  <2> QED BY <1>5, <1>7, <2>1
<1>12. \A b \in All : b # 4 => \E c \in B : c + Size(h, c) = b
  BY <1>1 DEF Tiled, Tiles
<1> HIDE DEF next, N, All
<1>13. r[N] \subseteq All
  <2>1. first \subseteq All /\ \A b \in All : b \in DOMAIN next => next[b] \subseteq All
    BY <1>10, <1>11
  <2> QED BY <1>8, <2>1, WalkWithin
<1>14. r[0] = {4}
  BY ReachSteps
<1>15. \A n \in Nat : n + 1 <= MAX_HEAP => r[n + 1] = Further(r[n], next)
  BY ReachSteps
<1>16. B \subseteq DOMAIN next
  BY <1>3 DEF next
<1> HIDE DEF r
<1>17. Bad = {}
  <2>1. SUFFICES ASSUME Bad # {} PROVE FALSE
    OBVIOUS
  <2>2. PICK n \in Bad : \A m \in Bad : n <= m
    <3>1. Bad \subseteq Nat
      OBVIOUS
    <3> HIDE DEF Bad
    <3> QED BY <2>1, <3>1, LeastNat
  <2>3. n \in Nat /\ n <= MAX_HEAP
    OBVIOUS
  <2>4. PICK b \in All : b <= 4 + 4 * n /\ b \notin r[n]
    BY <2>3
  <2>5. n # 0
    <3>1. SUFFICES ASSUME n = 0 PROVE FALSE
      OBVIOUS
    <3>2. b = 4
      BY <1>4, <2>4, <3>1
    <3> QED BY <1>14, <2>4, <3>1, <3>2
  <2>6. n - 1 \in Nat /\ (n - 1) + 1 = n /\ n - 1 <= MAX_HEAP /\ ~ (n <= n - 1)
    BY <2>3, <2>5, MaxHeapAssumption
  <2>7. \A c \in All : c <= 4 + 4 * (n - 1) => c \in r[n - 1]
    <3>1. n - 1 \notin Bad
      BY <2>2, <2>6
    <3> QED BY <2>6, <3>1
  <2> HIDE DEF Bad
  <2>8. r[n] = Further(r[n - 1], next)
    BY <1>15, <2>3, <2>6
  <2>9. CASE b = 4
    <3>1. 4 \in r[n - 1]
      BY <1>10, <2>6, <2>7
    <3> QED BY <2>4, <2>8, <2>9, <3>1 DEF Further
  <2>10. CASE b # 4
    <3>1. PICK c \in B : c + Size(h, c) = b
      BY <1>12, <2>10
    <3>2. c \in All /\ c <= 4 + 4 * (n - 1)
      <4>1. c \in All
        BY DEF All
      <4> QED BY <1>2, <2>3, <2>4, <3>1, <4>1
    <3>3. c \in r[n - 1] /\ c \in DOMAIN next
      BY <1>16, <2>7, <3>2
    <3>4. b \in next[c]
      BY <1>5, <3>1
    <3> QED BY <2>4, <2>8, <3>3, <3>4 DEF Further
  <2> QED BY <2>9, <2>10
<1>18. All \subseteq r[N]
  <2> SUFFICES ASSUME NEW b \in All PROVE b \in r[N]
    OBVIOUS
  <2>1. b <= h.brk
    BY <1>2, <1>3 DEF All
  <2>2. b <= 4 + 4 * N
    BY <1>2, <1>4, <1>8, <2>1
  <2> QED BY <1>8, <1>17, <2>2
<1>19. \A b \in B : GET_SIZE(h, HDRP(b)) # 0
  BY <1>2 DEF Size
<1>20. r[N] = B \cup {h.brk}
  BY <1>13, <1>18 DEF All
<1> QED BY <1>4, <1>6, <1>9, <1>19, <1>20

(* The tags of a block are in the heap, and say the same.                  *)
LEMMA BlockInHeap ==
  ASSUME NEW h \in Heap, NEW B, Tiled(h, B), NEW b \in B
  PROVE  /\ InHeap(h, b) /\ (IsFree(h, b) <=> MarkedFree(h, b))
         /\ h.word[HDRP(b)] = h.word[FTRP(h, b)]
         /\ GET_SIZE(h, HDRP(b)) = Size(h, b) /\ GET_SIZE(h, HDRP(b)) >= MIN_B_SIZE
<1>1. /\ b \in Int /\ 4 <= b /\ Size(h, b) \in Int /\ Size(h, b) >= 4
      /\ b + Size(h, b) <= h.brk /\ h.brk \in Int
      /\ h.word[b + Size(h, b) - 2] = h.word[b - 1]
  BY TiledApart
<1>2. HDRP(b) = b - 1 /\ FTRP(h, b) = b + Size(h, b) - 2
  BY DEF HDRP, FTRP, Size
<1>3. InHeap(h, b)
  BY <1>1, <1>2 DEF InHeap, BlockPtrs
<1>4. h.word[HDRP(b)] = h.word[FTRP(h, b)]
  BY <1>1, <1>2
<1>5. GET_ALLOC(h, FTRP(h, b)) = GET_ALLOC(h, HDRP(b))
  BY <1>4 DEF GET_ALLOC
<1>6. IsFree(h, b) <=> MarkedFree(h, b)
  BY <1>3, <1>5 DEF MarkedFree, IsFree
<1> QED BY <1>1, <1>3, <1>4, <1>6 DEF Size, MIN_B_SIZE

(* mm_check accepts a consistent heap.                                     *)
THEOREM CheckGood ==
  ASSUME NEW h, NEW B, Good(h, B)
  PROVE  mm_check(h)
<1>1. h \in Heap /\ Tiled(h, B) /\ Listed(h, FreeOf(h, B))
  BY DEF Good, Laid
<1>2. HeapBlocks(h) = B /\ FreeList(h) = FreeOf(h, B)
  BY HeapBlocksIs, FreeListIs
<1>3. check_ptrs_valid_heap_address(h)
  <2>1. InHeap(h, 2)
    <3>1. h.word[1] = 3 /\ h.brk \in Int /\ 4 <= h.brk
      BY <1>1, TiledApart DEF Tiled, Fenced
    <3>2. HDRP(2) = 1 /\ FTRP(h, 2) = 2
      BY <3>1 DEF HDRP, FTRP, GET_SIZE
    <3> QED BY <3>1, <3>2 DEF InHeap, BlockPtrs
  <2>2. \A bp \in B : InHeap(h, bp)
    BY <1>1, BlockInHeap
  <2> QED BY <1>2, <2>1, <2>2 DEF check_ptrs_valid_heap_address
<1>4. free_list_blocks_marked_free(h)
  <2>1. \A f \in FreeOf(h, B) : MarkedFree(h, f)
    BY <1>1, BlockInHeap DEF FreeOf
  <2>2. \A f \in FreeOf(h, B) : {PRED_BLKP(h, f), SUCC_BLKP(h, f)} \ {NULL} \subseteq FreeOf(h, B)
    BY <1>1 DEF Listed, Linked
  <2> QED BY <1>2, <2>1, <2>2 DEF free_list_blocks_marked_free
<1>5. contiguous_free_blocks_coalesced(h)
  <2> SUFFICES ASSUME NEW b \in B, IsFree(h, b) PROVE ~ IsFree(h, NEXT_BLKP(h, b))
    BY <1>2 DEF contiguous_free_blocks_coalesced
  <2>1. NEXT_BLKP(h, b) = b + Size(h, b)
    BY <1>1, After
  <2>2. GET_ALLOC(h, HDRP(NEXT_BLKP(h, b))) = 0 <=>
          (NEXT_BLKP(h, b) \in B /\ IsFree(h, NEXT_BLKP(h, b)))
    BY <1>1, After
  <2>3. b + Size(h, b) \notin FreeOf(h, B)
    BY DEF Good, FreeOf
  <2> QED BY <2>1, <2>2, <2>3 DEF IsFree, FreeOf
<1>6. all_free_blocks_in_free_list(h)
  BY <1>2 DEF all_free_blocks_in_free_list, FreeOf
<1> QED BY <1>3, <1>4, <1>5, <1>6 DEF mm_check

----------------------------------------------------------------------------
(* The branch that destroys the heap.                                      *)

(* Whatever is filled in, the heap is one.                                 *)
LEMMA MemsetHeap ==
  ASSUME NEW h \in Heap, NEW p \in Int, NEW val \in Int, NEW n \in Int
  PROVE  memset(h, p, val, n) \in Heap /\ memset(h, p, val, n).brk = h.brk
<1> DEFINE word == [k \in Words |-> IF k \in p .. p + n - 1 THEN val ELSE h.word[k]]
<1>1. memset(h, p, val, n) = [h EXCEPT !.word = word]
  BY DEF memset
<1>2. word \in [Words -> Int]
  BY HeapType
<1> HIDE DEF word
<1> QED BY <1>1, <1>2 DEF Heap

(* So it is when words of the memory are copied.                           *)
LEMMA MemmoveHeap ==
  ASSUME NEW h \in Heap, NEW dst \in Int, NEW src \in Int, NEW n \in Int,
         0 <= src, src + n <= MAX_HEAP
  PROVE  memmove(h, dst, src, n) \in Heap /\ memmove(h, dst, src, n).brk = h.brk
<1> DEFINE word == [k \in Words |-> IF k \in dst .. dst + n - 1
                                    THEN h.word[src + k - dst] ELSE h.word[k]]
<1>1. memmove(h, dst, src, n) = [h EXCEPT !.word = word]
  BY DEF memmove
<1>2. word \in [Words -> Int]
  <2>1. ASSUME NEW k \in Words, k \in dst .. dst + n - 1
        PROVE  src + k - dst \in Words
    BY <2>1, MaxHeapAssumption DEF Words
  <2> QED BY <2>1, HeapType
<1> HIDE DEF word
<1> QED BY <1>1, <1>2 DEF Heap

(* The destroyed heap still has the words and the break of one.            *)
LEMMA SplitsBothHeap ==
  ASSUME NEW h, NEW B, Good(h, B), NEW bp \in Taken(h, B), NEW size \in Nat \ {0},
         SplitsBoth(h, bp, size)
  PROVE  /\ mm_realloc(h, bp, size).heap \in Heap
         /\ mm_realloc(h, bp, size).heap.brk = h.brk
         /\ mm_realloc(h, bp, size).ptr \in Words \ {NULL}
<1> DEFINE asize == AdjustedSize(size)
           rest == Room(h, bp, size).rest
           s == PrevOf(h, bp)
           x == NextOf(h, bp)
           one == remove_from_free_list(h, s)
           two == expand_alloc_block_right(one, s, asize, rest - GET_SIZE(h, HDRP(s)))
           copy == Amount(h, bp, size)
<1>1. h \in Heap /\ Tiled(h, B) /\ bp \in B /\ bp # NULL /\ Laid(h, B, FreeOf(h, B))
  BY TiledApart DEF Good, Laid, Taken, NULL
<1>2. Room(h, bp, size).where = "both" /\ rest >= MIN_B_SIZE
  BY DEF SplitsBoth
<1>3. RoomBoth(h, B, bp) /\ rest = Stop(h, x) - s - asize
  BY <1>2, RoomIs DEF RoomCases
<1>4. /\ s \in FreeOf(h, B) /\ x \in FreeOf(h, B) /\ s + Size(h, s) = bp /\ s \in B /\ x \in B
  BY <1>3 DEF RoomBoth, Surrounds, FreeInRow, FreeOf
<1>5. asize \in Int
  BY AdjustedSizeIs
<1>6. /\ bp \in Int /\ Size(h, bp) \in Int /\ bp + Size(h, bp) <= h.brk /\ 4 <= bp
      /\ h.brk \in Int /\ h.brk <= MAX_HEAP /\ MAX_HEAP \in Int
      /\ s \in Int /\ Size(h, s) \in Int /\ Size(h, s) >= 4 /\ s \in Words /\ s # NULL
      /\ x \in Int /\ Size(h, x) \in Int /\ bp \in Words /\ bp + 1 \in Words
  BY <1>1, <1>4, TiledApart DEF NULL
<1>7. rest \in Int
  BY <1>3, <1>5, <1>6 DEF Stop
<1>8. mm_realloc(h, bp, size) = Move(h, bp, copy, NewBlock(h, bp, size, Room(h, bp, size)), "both")
  BY <1>1, <1>2, ReallocIs
<1>9. NewBlock(h, bp, size, Room(h, bp, size)) = GrowBoth(h, s, x, asize, rest)
  BY <1>2, NewBlockIs
<1>10. GrowBoth(h, s, x, asize, rest) = Result(two, s)
  BY <1>2 DEF GrowBoth
<1>11. Laid(one, B, FreeOf(h, B) \ {s}) /\ SameTags(h, one, B)
  BY <1>1, <1>4, LaidRemove
<1> HIDE DEF rest, asize, one, copy, s, x
<1>12. one \in Heap /\ one.brk = h.brk /\ Size(one, s) = Size(h, s)
  BY <1>4, <1>11 DEF Laid, SameTags
<1>13. two \in Heap /\ two.brk = h.brk
  <2> DEFINE more == rest - GET_SIZE(h, HDRP(s))
             next == NEXT_BLKP(one, s)
             three == Tag(one, s, asize, 1)
             four == Tag(three, s + asize, more, 0)
  <2>1. next = bp
    BY <1>4, <1>12 DEF NEXT_BLKP, Size, HDRP
  <2>2. PRED_BLKP(one, next) \in Int /\ SUCC_BLKP(one, next) \in Int
    BY <1>6, <1>12, <2>1, HeapType DEF PRED_BLKP, SUCC_BLKP
  <2>3. more \in Int
    BY <1>6, <1>7 DEF Size
  <2>4. two = Link(four, s + asize, PRED_BLKP(one, next), SUCC_BLKP(one, next))
    BY DEF expand_alloc_block_right, Split
  <2> HIDE DEF next, more, two
  <2>5. three \in Heap /\ three.brk = h.brk
    BY <1>5, <1>6, <1>12, TagWrites
  <2> HIDE DEF three
  <2>6. four \in Heap /\ four.brk = h.brk
    BY <1>5, <1>6, <2>3, <2>5, TagWrites
  <2> HIDE DEF four
  <2> QED BY <1>5, <1>6, <2>2, <2>4, <2>6, LinkWrites
<1> HIDE DEF two
<1>14. mm_realloc(h, bp, size) = Result(memmove(two, s, bp, copy), s)
  <2>1. s # bp
    BY <1>4, <1>6
  <2> QED BY <1>6, <1>8, <1>9, <1>10, <2>1 DEF Move, Result
<1>15. copy \in Int /\ copy <= Size(h, bp)
  BY <1>6 DEF copy, Amount
<1>16. memmove(two, s, bp, copy) \in Heap /\ memmove(two, s, bp, copy).brk = two.brk
  <2>1. 0 <= bp /\ bp + copy <= MAX_HEAP
    BY <1>6, <1>15
  <2> QED BY <1>6, <1>13, <1>15, <2>1, MemmoveHeap
<1> QED BY <1>6, <1>13, <1>14, <1>16 DEF Result
=============================================================================
