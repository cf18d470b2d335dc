------------------------------ MODULE TransProofs ---------------------------
(***************************************************************************)
(* The transpose under tracegen, for any layout of its globals: what the   *)
(* routines visit, that the result is accepted, and how often they miss.   *)
(***************************************************************************)
EXTENDS TransProperties, SequenceTheorems, WellFoundedInduction, TLAPS

----------------------------------------------------------------------------
(* The concatenation of a sequence of sequences.                           *)

(* A nonempty set of naturals has a least element.                         *)
LEMMA LeastNumber ==
  ASSUME NEW T, T \subseteq Nat, T # {}
  PROVE  \E x \in T : \A y \in T : x <= y
<1>1. \A R, S : IsWellFoundedOn(R, S) =>
        \A U : U \subseteq S /\ U # {} => \E x \in U : \A y \in U : ~ (<<y, x>> \in R)
  BY WFMin, Zenon
<1>2. PICK x \in T : \A y \in T : ~ (<<y, x>> \in OpToRel(<, Nat))
  BY <1>1, NatLessThanWellFounded, Zenon
<1>3. \A a, b \in Nat : a < b => <<a, b>> \in OpToRel(<, Nat)
  BY DEF OpToRel
<1>4. \A y \in T : ~ (y < x)
  BY <1>2, <1>3, Zenon
<1>5. x \in Nat /\ \A y \in T : y \in Nat
  OBVIOUS
<1> QED BY <1>4, <1>5

(* The concatenations of the first 1 .. m sequences.                       *)
Joined(ss, m, f) ==
  f = [k \in 1 .. m |-> IF k = 1 THEN ss[k] ELSE f[k - 1] \o ss[k]]

Join(ss) == CHOOSE f : Joined(ss, Len(ss), f)

(* FlattenSeq returns the last of them.                                    *)
LEMMA FlattenIs ==
  ASSUME NEW ss, Len(ss) # 0
  PROVE  FlattenSeq(ss) = Join(ss)[Len(ss)]
BY DEF FlattenSeq, Join, Joined

(* There are such concatenations for any number of sequences.              *)
LEMMA JoinExists ==
  ASSUME NEW ss, NEW len \in Nat
  PROVE  \E f : Joined(ss, len, f)
<1> DEFINE Bad == {m \in Nat : ~ \E f : Joined(ss, m, f)}
<1>1. SUFFICES ASSUME Bad # {} PROVE FALSE
  OBVIOUS
<1>2. PICK m \in Bad : \A k \in Bad : m <= k
  <2>1. Bad \subseteq Nat
    OBVIOUS
  <2> HIDE DEF Bad
  <2> QED BY <1>1, <2>1, LeastNumber
<1>3. m # 0
  <2>1. Joined(ss, 0, [k \in 1 .. 0 |-> ss])
    BY DEF Joined
  <2> QED BY <2>1
<1>4. m - 1 \in Nat /\ m - 1 \notin Bad
  <2>1. m \in Nat
    OBVIOUS
  <2>2. \A k : k \in Bad => m <= k
    BY <1>2
  <2> HIDE DEF Bad
  <2> QED BY <1>3, <2>1, <2>2
<1>5. PICK f : Joined(ss, m - 1, f)
  BY <1>4
<1>6. m \in Nat
  OBVIOUS
<1> DEFINE g == [k \in 1 .. m |->
                   IF k = m THEN IF m = 1 THEN ss[m] ELSE f[m - 1] \o ss[m] ELSE f[k]]
<1>7. \A k \in 1 .. m : g[k] = IF k = 1 THEN ss[k] ELSE g[k - 1] \o ss[k]
  <2> TAKE k \in 1 .. m
  <2>1. CASE k = m
    BY <1>3, <1>6, <2>1
  <2>2. CASE k # m
    <3>1. k \in 1 .. m - 1
      BY <1>6, <2>2
    <3>2. f[k] = IF k = 1 THEN ss[k] ELSE f[k - 1] \o ss[k]
      BY <1>5, <3>1 DEF Joined
    <3>3. g[k] = f[k] /\ (k # 1 => g[k - 1] = f[k - 1])
      BY <1>6, <3>1
    <3> HIDE DEF g
    <3> QED BY <3>2, <3>3
  <2> QED BY <2>1, <2>2
<1>8. Joined(ss, m, g)
  <2>1. DOMAIN g = 1 .. m /\ g = [k \in 1 .. m |-> g[k]]
    OBVIOUS
  <2> HIDE DEF g, Bad
  <2> QED BY <1>7, <2>1 DEF Joined
<1>9. m \notin Bad
  BY <1>8
<1> QED BY <1>9

(* Each is the one before with a sequence added.                           *)
LEMMA JoinSteps ==
  ASSUME NEW ss, NEW len, len = Len(ss), len \in Nat \ {0}
  PROVE  /\ Join(ss)[1] = ss[1]
         /\ \A k \in 2 .. len : Join(ss)[k] = Join(ss)[k - 1] \o ss[k]
<1>1. Joined(ss, len, Join(ss))
  BY JoinExists DEF Join
<1> DEFINE f == Join(ss)
<1> HIDE DEF f
<1>2. \A k \in 1 .. len : f[k] = IF k = 1 THEN ss[k] ELSE f[k - 1] \o ss[k]
  BY <1>1 DEF Joined, f
<1>3. 1 \in 1 .. len /\ \A k \in 2 .. len : k \in 1 .. len /\ k # 1
  OBVIOUS
<1> QED BY <1>2, <1>3 DEF f

(* off[k] is the length of the first k sequences.                          *)
Offsets(ss, len, off) ==
  /\ off \in [0 .. len -> Nat] /\ off[0] = 0
  /\ \A k \in 1 .. len : off[k] = off[k - 1] + Len(ss[k])

(* They grow.                                                              *)
LEMMA OffsetsGrow ==
  ASSUME NEW ss, NEW len \in Nat, NEW off, Offsets(ss, len, off),
         \A k \in 1 .. len : Len(ss[k]) \in Nat,
         NEW k \in 0 .. len, NEW m \in k .. len
  PROVE  off[k] <= off[m]
<1> DEFINE Late == {x \in k .. len : off[x] < off[k]}
<1>1. \A x \in 0 .. len : off[x] \in Nat
  BY DEF Offsets
<1>2. SUFFICES ASSUME Late # {} PROVE FALSE
  <2>1. m \in k .. len /\ m \in 0 .. len
    OBVIOUS
  <2>2. m \notin Late
    BY <1>2
  <2> QED BY <1>1, <2>1, <2>2
<1>3. PICK x \in Late : \A y \in Late : x <= y
  <2>1. Late \subseteq Nat
    OBVIOUS
  <2> HIDE DEF Late
  <2> QED BY <1>2, <2>1, LeastNumber
<1>4. x \in k .. len /\ off[x] < off[k]
  OBVIOUS
<1>5. x # k
  BY <1>1, <1>4
<1>6. x - 1 \in k .. len /\ x \in 1 .. len /\ x - 1 \in 0 .. len /\ ~ (x <= x - 1)
  BY <1>4, <1>5
<1>7. x - 1 \notin Late
  <2> HIDE DEF Late
  <2> QED BY <1>3, <1>6
<1>8. ~ (off[x - 1] < off[k])
  BY <1>6, <1>7
<1>9. off[x] = off[x - 1] + Len(ss[x]) /\ Len(ss[x]) \in Nat
  BY <1>6 DEF Offsets
<1>10. off[x] \in Nat /\ off[x - 1] \in Nat /\ off[k] \in Nat
  BY <1>1, <1>6
<1> QED BY <1>4, <1>8, <1>9, <1>10

(* A concatenation holds the first m sequences, each where it belongs.     *)
Holds(S, ss, off, m, all) ==
  /\ all \in Seq(S) /\ Len(all) = off[m]
  /\ \A k \in 1 .. m : \A p \in 1 .. Len(ss[k]) : all[off[k - 1] + p] = ss[k][p]

(* One more sequence is added.                                             *)
LEMMA HoldsMore ==
  ASSUME NEW S, NEW ss, NEW len \in Nat, \A k \in 1 .. len : ss[k] \in Seq(S),
         NEW off, Offsets(ss, len, off), NEW m \in 2 .. len,
         NEW a, Holds(S, ss, off, m - 1, a)
  PROVE  Holds(S, ss, off, m, a \o ss[m])
<1> DEFINE b == ss[m]
           all == a \o b
<1>1. a \in Seq(S) /\ Len(a) = off[m - 1] /\ b \in Seq(S)
  BY DEF Holds
<1>2. \A k \in 1 .. len : Len(ss[k]) \in Nat
  OBVIOUS
<1>3. m \in 1 .. len /\ m - 1 \in 1 .. len /\ m - 1 \in 0 .. len
  OBVIOUS
<1>4. off[m] = off[m - 1] + Len(b) /\ off[m - 1] \in Nat /\ Len(b) \in Nat
  BY <1>2, <1>3 DEF Offsets
<1> HIDE DEF b
<1>5. /\ all \in Seq(S) /\ Len(all) = Len(a) + Len(b)
      /\ \A x \in 1 .. Len(a) + Len(b) :
           all[x] = IF x <= Len(a) THEN a[x] ELSE b[x - Len(a)]
  BY <1>1, ConcatProperties
<1> HIDE DEF all
<1>6. ASSUME NEW k \in 1 .. m, NEW p \in 1 .. Len(ss[k])
      PROVE  all[off[k - 1] + p] = ss[k][p]
  <2>1. CASE k = m
    <3>1. p \in 1 .. Len(b) /\ off[k - 1] = Len(a)
      BY <1>1, <1>6, <2>1 DEF b
    <3> DEFINE x == off[k - 1] + p
    <3>2. x \in 1 .. Len(a) + Len(b) /\ ~ (x <= Len(a)) /\ x - Len(a) = p
      <4>1. Len(a) \in Nat /\ Len(b) \in Nat /\ x = Len(a) + p /\ p \in 1 .. Len(b)
        BY <1>1, <1>4, <3>1
      <4> HIDE DEF x
      <4> QED BY <4>1
    <3> HIDE DEF x
    <3>3. all[x] = b[p]
      BY <1>5, <3>2
    <3> QED BY <2>1, <3>3 DEF x, b
  <2>2. CASE k # m
    <3>1. k \in 1 .. m - 1 /\ k \in 1 .. len /\ k \in 0 .. len /\ k - 1 \in 0 .. len
          /\ m - 1 \in k .. len
      BY <1>6, <2>2
    <3>2. a[off[k - 1] + p] = ss[k][p]
      BY <1>6, <3>1 DEF Holds
    <3>3. off[k] <= off[m - 1]
      BY <1>2, <3>1, OffsetsGrow
    <3>4. off[k] = off[k - 1] + Len(ss[k]) /\ off[k - 1] \in Nat /\ Len(ss[k]) \in Nat
          /\ off[k] \in Nat
      BY <1>2, <3>1 DEF Offsets
    <3> DEFINE x == off[k - 1] + p
    <3>5. x \in 1 .. Len(a) + Len(b) /\ x <= Len(a)
      <4>1. p \in Nat /\ 1 <= p /\ p <= Len(ss[k])
        BY <1>6, <3>4
      <4>2. x \in Nat /\ 1 <= x /\ x <= off[k]
        BY <3>4, <4>1
      <4> HIDE DEF x
      <4>3. x <= off[m - 1]
        BY <1>4, <3>3, <3>4, <4>2
      <4> QED BY <1>1, <1>4, <4>2, <4>3
    <3> HIDE DEF x
    <3>6. all[x] = a[x]
      BY <1>5, <3>5
    <3> QED BY <3>2, <3>6 DEF x
  <2> QED BY <2>1, <2>2
<1>7. Len(all) = off[m]
  BY <1>1, <1>4, <1>5
<1> QED BY <1>5, <1>6, <1>7 DEF Holds, all, b

(* FlattenSeq puts every sequence where it belongs.                        *)
LEMMA FlattenAt ==
  ASSUME NEW S, NEW ss, NEW len \in Nat \ {0}, len = Len(ss),
         \A k \in 1 .. len : ss[k] \in Seq(S), NEW off, Offsets(ss, len, off)
  PROVE  Holds(S, ss, off, len, FlattenSeq(ss))
<1> DEFINE f == Join(ss)
           Bad == {m \in 1 .. len : ~ Holds(S, ss, off, m, f[m])}
<1>1. f[1] = ss[1] /\ \A k \in 2 .. len : f[k] = f[k - 1] \o ss[k]
  BY JoinSteps
<1>2. FlattenSeq(ss) = f[len]
  BY FlattenIs
<1> HIDE DEF f
<1>3. 1 \in 1 .. len /\ len \in 1 .. len
  OBVIOUS
<1>4. SUFFICES ASSUME Bad # {} PROVE FALSE
  <2>1. len \notin Bad
    BY <1>4
  <2> QED BY <1>2, <1>3, <2>1
<1>5. PICK m \in Bad : \A k \in Bad : m <= k
  <2>1. Bad \subseteq Nat
    OBVIOUS
  <2> HIDE DEF Bad
  <2> QED BY <1>4, <2>1, LeastNumber
<1>6. m \in 1 .. len /\ ~ Holds(S, ss, off, m, f[m])
  OBVIOUS
<1>7. CASE m = 1
  <2>1. off[1] = off[0] + Len(ss[1]) /\ off[0] = 0
    <3>1. \A k \in 1 .. len : off[k] = off[k - 1] + Len(ss[k])
      BY DEF Offsets
    <3>2. 1 - 1 = 0
      OBVIOUS
    <3> QED BY <1>3, <3>1, <3>2 DEF Offsets
  <2>2. ss[1] \in Seq(S) /\ Len(ss[1]) \in Nat
    BY <1>3
  <2>3. off[1] = Len(ss[1])
    BY <2>1, <2>2
  <2>4. ASSUME NEW k \in 1 .. 1, NEW p \in 1 .. Len(ss[k])
        PROVE  ss[1][off[k - 1] + p] = ss[k][p]
    <3>1. k = 1 /\ k - 1 = 0
      OBVIOUS
    <3>2. off[k - 1] + p = p
      BY <2>1, <2>2, <3>1
    <3> QED BY <3>1, <3>2
  <2>5. Holds(S, ss, off, 1, ss[1])
    BY <2>2, <2>3, <2>4 DEF Holds
  <2> HIDE DEF Bad
  <2> QED BY <1>1, <1>6, <1>7, <2>5
<1>8. CASE m # 1
  <2>1. m \in 2 .. len /\ m - 1 \in 1 .. len /\ ~ (m <= m - 1)
    BY <1>6, <1>8
  <2>2. m - 1 \notin Bad
    <3> HIDE DEF Bad
    <3> QED BY <1>5, <2>1
  <2>3. Holds(S, ss, off, m - 1, f[m - 1])
    BY <2>1, <2>2
  <2>4. Holds(S, ss, off, m, f[m - 1] \o ss[m])
    BY <2>1, <2>3, HoldsMore
  <2> QED BY <1>1, <1>6, <2>1, <2>4
<1> QED BY <1>7, <1>8

(* len sequences over S, each of length w.                                 *)
Even(S, ss, len, w) ==
  Len(ss) = len /\ \A k \in 1 .. len : ss[k] \in Seq(S) /\ Len(ss[k]) = w

(* all has them one after the other.                                       *)
InTurn(S, ss, len, w, all) ==
  /\ all \in Seq(S) /\ Len(all) = len * w
  /\ \A k \in 0 .. len - 1, p \in 1 .. w : all[k * w + p] = ss[k + 1][p]

(* Sequences of the same length.                                           *)
LEMMA FlattenEven ==
  ASSUME NEW S, NEW ss, NEW len \in Nat \ {0}, NEW w \in Nat, Even(S, ss, len, w)
  PROVE  InTurn(S, ss, len, w, FlattenSeq(ss))
<1> DEFINE off == [k \in 0 .. len |-> k * w]
           all == FlattenSeq(ss)
<1>0. len = Len(ss) /\ \A k \in 1 .. len : ss[k] \in Seq(S) /\ Len(ss[k]) = w
  BY DEF Even
<1>1. Offsets(ss, len, off)
  <2>1. \A k \in 0 .. len : k * w \in Nat
    OBVIOUS
  <2>2. off \in [0 .. len -> Nat]
    BY <2>1
  <2>3. 0 * w = 0 /\ 0 \in 0 .. len
    OBVIOUS
  <2>4. ASSUME NEW k \in 1 .. len PROVE off[k] = off[k - 1] + Len(ss[k])
    <3>1. k \in 0 .. len /\ k - 1 \in 0 .. len /\ k * w = (k - 1) * w + w
      OBVIOUS
    <3> QED BY <1>0, <3>1
  <2> QED BY <2>2, <2>3, <2>4 DEF Offsets
<1>2. Holds(S, ss, off, len, all)
  BY <1>0, <1>1, FlattenAt
<1> HIDE DEF all
<1>3. all \in Seq(S) /\ Len(all) = len * w
  BY <1>2 DEF Holds
<1>4. ASSUME NEW k \in 0 .. len - 1, NEW p \in 1 .. w
      PROVE  all[k * w + p] = ss[k + 1][p]
  <2>1. k + 1 \in 1 .. len /\ (k + 1) - 1 = k /\ k \in 0 .. len
    OBVIOUS
  <2>2. p \in 1 .. Len(ss[k + 1])
    BY <1>0, <2>1
  <2>3. all[off[(k + 1) - 1] + p] = ss[k + 1][p]
    BY <1>2, <2>1, <2>2 DEF Holds
  <2> QED BY <2>1, <2>3
<1> QED BY <1>3, <1>4 DEF all, InTurn

----------------------------------------------------------------------------
(* What the routines visit.                                                *)

(* A function on 1 .. w is a sequence of length w.                         *)
LEMMA FunctionIsSeq ==
  ASSUME NEW S, NEW w \in Nat, NEW f, DOMAIN f = 1 .. w, f \in [1 .. w -> S]
  PROVE  f \in Seq(S) /\ Len(f) = w
OBVIOUS

(* The rounds of a loop.                                                   *)
LEMMA ForIs ==
  ASSUME NEW lo \in Int, NEW hi \in Int, NEW step \in Nat \ {0}, NEW w \in Nat,
         w = (hi - lo + step - 1) \div step
  PROVE  /\ DOMAIN For(lo, hi, step) = 1 .. w /\ Len(For(lo, hi, step)) = w
         /\ \A k \in 1 .. w : For(lo, hi, step)[k] = lo + (k - 1) * step
<1> DEFINE f == For(lo, hi, step)
<1>1. f = [k \in 1 .. w |-> lo + (k - 1) * step]
  BY DEF For
<1>2. \A k \in 1 .. w : lo + (k - 1) * step \in Int
  OBVIOUS
<1>3. f \in [1 .. w -> Int] /\ DOMAIN f = 1 .. w
  BY <1>1, <1>2
<1>4. Len(f) = w
  <2> HIDE DEF f
  <2> QED BY <1>3, FunctionIsSeq
<1> QED BY <1>1, <1>3, <1>4

(* f counts w numbers from lo on.                                          *)
Counts(f, lo, w) ==
  DOMAIN f = 1 .. w /\ Len(f) = w /\ \A k \in 1 .. w : f[k] = lo + (k - 1)

(* The rounds of a loop with step 1.                                       *)
LEMMA ForOne ==
  ASSUME NEW lo \in Int, NEW w \in Nat, NEW hi \in Int, hi = lo + w
  PROVE  Counts(For(lo, hi, 1), lo, w)
<1> DEFINE f == For(lo, hi, 1)
<1>1. f = [k \in 1 .. w |-> lo + (k - 1)]
  <2>1. w = (hi - lo + 1 - 1) \div 1 /\ \A k \in 1 .. w : lo + (k - 1) * 1 = lo + (k - 1)
    OBVIOUS
  <2> QED BY <2>1 DEF For
<1> HIDE DEF f
<1>2. DOMAIN f = 1 .. w /\ \A k \in 1 .. w : f[k] = lo + (k - 1)
  BY <1>1
<1>3. Len(f) = w
  <2>1. f = [k \in 1 .. w |-> f[k]]
    BY <1>1, <1>2
  <2> QED BY <1>2, <2>1
<1>4. Counts(f, lo, w)
  BY <1>2, <1>3 DEF Counts
<1> QED BY <1>4 DEF f

(* S has the w elements of row i from column j on.                         *)
HasRow(S, i, j, w) == \A q \in 0 .. w - 1 : <<i, j + q>> \in S

(* row has the w elements of row i from column j on, in order.             *)
IsRow(S, i, j, w, row) ==
  /\ row \in Seq(S) /\ Len(row) = w
  /\ \A q \in 0 .. w - 1 : row[q + 1] = <<i, j + q>>

(* A row in order.                                                         *)
LEMMA RowIs ==
  ASSUME NEW S, NEW i \in Int, NEW j \in Int, NEW w \in Nat, NEW hi \in Int, hi = j + w,
         HasRow(S, i, j, w)
  PROVE  IsRow(S, i, j, w, Row(i, For(j, hi, 1)))
<1> DEFINE row == Row(i, For(j, hi, 1))
<1>1. row = [k \in 1 .. w |-> <<i, j + (k - 1)>>]
  <2>1. DOMAIN For(j, hi, 1) = 1 .. w
        /\ \A k \in 1 .. w : For(j, hi, 1)[k] = j + (k - 1)
    BY ForOne DEF Counts
  <2> QED BY <2>1 DEF Row
<1>2. \A k \in 1 .. w : k - 1 \in 0 .. w - 1
  OBVIOUS
<1>3. row \in [1 .. w -> S] /\ DOMAIN row = 1 .. w
  BY <1>1, <1>2 DEF HasRow
<1>4. row \in Seq(S) /\ Len(row) = w
  <2> HIDE DEF row
  <2> QED BY <1>3, FunctionIsSeq
<1>5. \A q \in 0 .. w - 1 : q + 1 \in 1 .. w /\ (q + 1) - 1 = q
  OBVIOUS
<1> HIDE DEF row
<1>6. \A q \in 0 .. w - 1 : row[q + 1] = <<i, j + q>>
  BY <1>1, <1>5
<1>7. IsRow(S, i, j, w, row)
  BY <1>4, <1>6 DEF IsRow
<1> QED BY <1>7 DEF row

(* The column that has the turn q in a row of width w, whose column r      *)
(* waits.                                                                  *)
Turn(w, r, q) == IF q = w - 1 THEN r ELSE IF q < r THEN q ELSE q + 1

(* row has the w elements of row i from column j on, that of j + r last.   *)
IsRowButLast(S, i, j, w, r, row) ==
  /\ row \in Seq(S) /\ Len(row) = w
  /\ \A q \in 0 .. w - 1 : row[q + 1] = <<i, j + Turn(w, r, q)>>

(* A row whose column r waits for the end.                                 *)
LEMMA RowButLastIs ==
  ASSUME NEW S, NEW i \in Int, NEW j \in Int, NEW w \in Nat, NEW hi \in Int, hi = j + w,
         NEW r \in Nat, r < w, NEW last \in Int, last = j + r,
         HasRow(S, i, j, w)
  PROVE  IsRowButLast(S, i, j, w, r, RowButLast(i, j, hi, last))
<1> DEFINE row == RowButLast(i, j, hi, last)
           el(k) == <<i, IF k = hi - j THEN last
                         ELSE IF j + k - 1 < last THEN j + k - 1 ELSE j + k>>
<1>1. row = [k \in 1 .. w |-> el(k)]
  <2>1. hi - j = w
    OBVIOUS
  <2> QED BY <2>1 DEF RowButLast
<1>2. \A q \in 0 .. w - 1 : /\ el(q + 1) = <<i, j + Turn(w, r, q)>>
                            /\ Turn(w, r, q) \in 0 .. w - 1
  BY DEF Turn
<1> HIDE DEF el
<1>3. \A k \in 1 .. w : k - 1 \in 0 .. w - 1 /\ (k - 1) + 1 = k
  OBVIOUS
<1>4. row \in [1 .. w -> S] /\ DOMAIN row = 1 .. w
  <2>1. ASSUME NEW k \in 1 .. w PROVE el(k) \in S
    <3>1. k - 1 \in 0 .. w - 1 /\ (k - 1) + 1 = k
      BY <1>3
    <3>2. el((k - 1) + 1) = <<i, j + Turn(w, r, k - 1)>> /\ Turn(w, r, k - 1) \in 0 .. w - 1
      BY <1>2, <3>1
    <3>3. el(k) = <<i, j + Turn(w, r, k - 1)>>
      BY <3>1, <3>2
    <3> QED BY <3>2, <3>3 DEF HasRow
  <2> QED BY <1>1, <2>1
<1>5. row \in Seq(S) /\ Len(row) = w
  <2> HIDE DEF row
  <2> QED BY <1>4, FunctionIsSeq
<1>6. \A q \in 0 .. w - 1 : q + 1 \in 1 .. w
  OBVIOUS
<1> HIDE DEF row
<1>7. \A q \in 0 .. w - 1 : row[q + 1] = <<i, j + Turn(w, r, q)>>
  BY <1>1, <1>2, <1>6
<1>8. IsRowButLast(S, i, j, w, r, row)
  BY <1>5, <1>7 DEF IsRowButLast
<1> QED BY <1>8 DEF row

(* The elements of a rectangle at i, j.                                    *)
Rectangle(i, j, height, width) ==
  {<<i + r, j + q>> : r \in 0 .. height - 1, q \in 0 .. width - 1}

(* The column of a row of a block of trans32 that has the turn q.          *)
Turn32(x, y, r, q) == IF x = y THEN Turn(8, r, q) ELSE q

(* row visits row r of the block x, y of trans32.                          *)
IsRow32(S, x, y, r, row) ==
  /\ row \in Seq(S) /\ Len(row) = 8
  /\ \A q \in 0 .. 7 : row[q + 1] = <<8 * x + r, 8 * y + Turn32(x, y, r, q)>>

(* A row of a block of trans32.                                            *)
LEMMA Row32Is ==
  ASSUME NEW S, NEW x \in Nat, NEW y \in Nat, NEW r \in 0 .. 7,
         Rectangle(8 * x, 8 * y, 8, 8) \subseteq S
  PROVE  IsRow32(S, x, y, r, Row32(8 * x + r, 8 * y))
<1> DEFINE i == 8 * x + r
           j == 8 * y
<1>1. i \in Int /\ j \in Int /\ r \in Nat /\ r < 8 /\ 0 .. 8 - 1 = 0 .. 7
  OBVIOUS
<1>2. \A q \in 0 .. 8 - 1 : <<i, j + q>> \in S
  <2>1. \A q \in 0 .. 8 - 1 : <<i, j + q>> \in Rectangle(8 * x, 8 * y, 8, 8)
    BY DEF Rectangle
  <2> QED BY <2>1
<1>3. i \in j .. j + 7 <=> x = y
  OBVIOUS
<1>4. x = y => i = j + r
  OBVIOUS
<1> HIDE DEF i, j
<1>5. CASE x = y
  <2>1. Row32(i, j) = RowButLast(i, j, j + 8, i)
    BY <1>3, <1>5 DEF Row32
  <2>2. /\ RowButLast(i, j, j + 8, i) \in Seq(S) /\ Len(RowButLast(i, j, j + 8, i)) = 8
        /\ \A q \in 0 .. 8 - 1 :
              RowButLast(i, j, j + 8, i)[q + 1] = <<i, j + Turn(8, r, q)>>
    <3> DEFINE w == 8
               hi == j + 8
    <3>1. w \in Nat /\ hi \in Int /\ hi = j + w /\ r \in Nat /\ r < w /\ i = j + r
          /\ HasRow(S, i, j, w)
      BY <1>1, <1>2, <1>4, <1>5 DEF HasRow
    <3> HIDE DEF w, hi
    <3>2. IsRowButLast(S, i, j, w, r, RowButLast(i, j, hi, i))
      BY <1>1, <3>1, RowButLastIs
    <3> QED BY <3>2 DEF w, hi, IsRowButLast
  <2> QED BY <1>1, <1>5, <2>1, <2>2 DEF i, j, Turn32, IsRow32
<1>6. CASE x # y
  <2>1. Row32(i, j) = Row(i, For(j, j + 8, 1))
    BY <1>3, <1>6 DEF Row32
  <2>2. /\ Row(i, For(j, j + 8, 1)) \in Seq(S) /\ Len(Row(i, For(j, j + 8, 1))) = 8
        /\ \A q \in 0 .. 8 - 1 : Row(i, For(j, j + 8, 1))[q + 1] = <<i, j + q>>
    <3> DEFINE w == 8
               hi == j + 8
    <3>1. w \in Nat /\ hi \in Int /\ hi = j + w /\ HasRow(S, i, j, w)
      BY <1>1, <1>2 DEF HasRow
    <3> HIDE DEF w, hi
    <3>2. IsRow(S, i, j, w, Row(i, For(j, hi, 1)))
      BY <1>1, <3>1, RowIs
    <3> QED BY <3>2 DEF w, hi, IsRow
  <2> QED BY <1>1, <1>6, <2>1, <2>2 DEF i, j, Turn32, IsRow32
<1> QED BY <1>5, <1>6

(* block visits the block x, y of trans32.                                 *)
IsBlock32(S, x, y, block) ==
  /\ block \in Seq(S) /\ Len(block) = 64
  /\ \A r \in 0 .. 7, q \in 0 .. 7 :
       block[8 * r + q + 1] = <<8 * x + r, 8 * y + Turn32(x, y, r, q)>>

(* A block of trans32, row by row.                                         *)
LEMMA Block32Is ==
  ASSUME NEW S, NEW x \in Nat, NEW y \in Nat,
         Rectangle(8 * x, 8 * y, 8, 8) \subseteq S
  PROVE  IsBlock32(S, x, y, Block32(8 * x, 8 * y))
<1> DEFINE i == 8 * x
           j == 8 * y
           rows == For(i, i + 8, 1)
           ss == [k \in DOMAIN rows |-> Row32(rows[k], j)]
           all == FlattenSeq(ss)
<1>1. DOMAIN rows = 1 .. 8 /\ \A k \in 1 .. 8 : rows[k] = i + (k - 1)
  <2> DEFINE hi == i + 8
             w == 8
  <2>1. i \in Int /\ hi \in Int /\ hi = i + w /\ w \in Nat
    OBVIOUS
  <2> HIDE DEF i, hi, w
  <2>2. Counts(For(i, hi, 1), i, w)
    BY <2>1, ForOne
  <2> QED BY <2>2 DEF Counts, hi, w
<1>2. \A r \in 0 .. 7 : IsRow32(S, x, y, r, Row32(i + r, j))
  BY Row32Is
<1>3. DOMAIN ss = 1 .. 8 /\ \A k \in 1 .. 8 : ss[k] = Row32(i + (k - 1), j)
  <2> HIDE DEF i, j, rows
  <2> QED BY <1>1
<1>4. Even(S, ss, 8, 8)
  <2>1. Len(ss) = 8
    <3>1. ss = [k \in 1 .. 8 |-> ss[k]]
      BY <1>3
    <3> HIDE DEF ss
    <3> QED BY <3>1
  <2>2. ASSUME NEW k \in 1 .. 8 PROVE ss[k] \in Seq(S) /\ Len(ss[k]) = 8
    <3>1. k - 1 \in 0 .. 7
      OBVIOUS
    <3>2. IsRow32(S, x, y, k - 1, Row32(i + (k - 1), j))
      BY <1>2, <3>1
    <3> HIDE DEF ss, i, j
    <3> QED BY <1>3, <3>2 DEF IsRow32
  <2> HIDE DEF ss
  <2> QED BY <2>1, <2>2 DEF Even
<1>5. all = Block32(i, j)
  BY DEF Block32
<1>6. InTurn(S, ss, 8, 8, all)
  <2>1. 8 \in Nat \ {0}
    OBVIOUS
  <2> HIDE DEF ss
  <2> QED BY <1>4, <2>1, FlattenEven
<1> HIDE DEF all
<1>7. ASSUME NEW r \in 0 .. 7, NEW q \in 0 .. 7
      PROVE  all[8 * r + q + 1] = <<8 * x + r, 8 * y + Turn32(x, y, r, q)>>
  <2>1. 8 * r + q + 1 = r * 8 + (q + 1) /\ r \in 0 .. 8 - 1 /\ q + 1 \in 1 .. 8
        /\ r + 1 \in 1 .. 8 /\ (r + 1) - 1 = r
    OBVIOUS
  <2> HIDE DEF ss
  <2>2. all[r * 8 + (q + 1)] = ss[r + 1][q + 1]
    BY <1>6, <2>1 DEF InTurn
  <2>3. ss[r + 1] = Row32(i + r, j)
    BY <1>3, <2>1
  <2>4. Row32(i + r, j)[q + 1] = <<8 * x + r, 8 * y + Turn32(x, y, r, q)>>
    BY <1>2 DEF IsRow32
  <2> QED BY <2>1, <2>2, <2>3, <2>4
<1>8. all \in Seq(S) /\ Len(all) = 64
  <2> HIDE DEF ss
  <2>1. all \in Seq(S) /\ Len(all) = 8 * 8
    BY <1>6 DEF InTurn
  <2> QED BY <2>1
<1> QED BY <1>5, <1>7, <1>8 DEF IsBlock32

(* c has the corners of a rows of b blocks.                                *)
Cornered(c, step, a, b) ==
  /\ DOMAIN c = 1 .. a * b /\ Len(c) = a * b
  /\ \A x \in 0 .. a - 1, y \in 0 .. b - 1 :
       c[x * b + y + 1] = <<x * step, y * step>>

(* The corners of the blocks.                                              *)
LEMMA CornersAre ==
  ASSUME NEW height \in Nat, NEW width \in Nat, NEW step \in Nat \ {0},
         NEW a \in Nat \ {0}, a = (height - 0 + step - 1) \div step,
         NEW b \in Nat \ {0}, b = (width - 0 + step - 1) \div step
  PROVE  Cornered(Corners(height, width, step), step, a, b)
<1> DEFINE top == For(0, height, step)
           left == For(0, width, step)
           ss == [r \in DOMAIN top |-> [c \in DOMAIN left |-> <<top[r], left[c]>>]]
           all == FlattenSeq(ss)
           S == Int \X Int
<1>1. DOMAIN top = 1 .. a /\ \A k \in 1 .. a : top[k] = 0 + (k - 1) * step
  BY ForIs
<1>2. DOMAIN left = 1 .. b /\ \A k \in 1 .. b : left[k] = 0 + (k - 1) * step
  BY ForIs
<1>3. /\ \A k \in 1 .. a : top[k] = (k - 1) * step /\ top[k] \in Int
      /\ \A k \in 1 .. b : left[k] = (k - 1) * step /\ left[k] \in Int
  <2>1. \A k \in Int : (k - 1) * step \in Int /\ 0 + (k - 1) * step = (k - 1) * step
    OBVIOUS
  <2> HIDE DEF top, left
  <2> QED BY <1>1, <1>2, <2>1
<1> HIDE DEF top, left
<1>4. DOMAIN ss = 1 .. a /\ Len(ss) = a
  <2>1. ss = [r \in 1 .. a |-> ss[r]] /\ DOMAIN ss = 1 .. a
    BY <1>1
  <2> HIDE DEF ss
  <2> QED BY <2>1
<1>5. ASSUME NEW r \in 1 .. a
      PROVE  /\ ss[r] \in Seq(S) /\ Len(ss[r]) = b
             /\ \A c \in 1 .. b : ss[r][c] = <<top[r], left[c]>>
  <2> DEFINE row == [c \in DOMAIN left |-> <<top[r], left[c]>>]
  <2>1. ss[r] = row
    BY <1>1
  <2>2. row \in [1 .. b -> S] /\ DOMAIN row = 1 .. b
    BY <1>2, <1>3
  <2>3. row \in Seq(S) /\ Len(row) = b
    <3> HIDE DEF row, S
    <3> QED BY <2>2, FunctionIsSeq
  <2> HIDE DEF ss
  <2> QED BY <1>2, <2>1, <2>3
<1>6. Even(S, ss, a, b)
  <2> HIDE DEF ss, S
  <2> QED BY <1>4, <1>5 DEF Even
<1>7. all = Corners(height, width, step)
  BY DEF Corners, top, left
<1>8. InTurn(S, ss, a, b, all)
  <2> HIDE DEF ss, S
  <2> QED BY <1>6, FlattenEven
<1> HIDE DEF all
<1>9. DOMAIN all = 1 .. a * b
  BY <1>8 DEF InTurn
<1>10. ASSUME NEW x \in 0 .. a - 1, NEW y \in 0 .. b - 1
       PROVE  all[x * b + y + 1] = <<x * step, y * step>>
  <2>1. x + 1 \in 1 .. a /\ y + 1 \in 1 .. b
        /\ (x + 1) - 1 = x /\ (y + 1) - 1 = y
    OBVIOUS
  <2>2. x * b + y + 1 = x * b + (y + 1)
    <3>1. x * b \in Int
      OBVIOUS
    <3> QED BY <3>1
  <2> HIDE DEF ss
  <2>3. all[x * b + (y + 1)] = ss[x + 1][y + 1]
    BY <1>8, <2>1 DEF InTurn
  <2>4. ss[x + 1][y + 1] = <<top[x + 1], left[y + 1]>>
    BY <1>5, <2>1
  <2> QED BY <1>3, <2>1, <2>2, <2>3, <2>4
<1>11. Len(all) = a * b
  BY <1>8 DEF InTurn
<1> QED BY <1>7, <1>9, <1>10, <1>11 DEF Cornered

(* In which turn trans32 visits what.                                      *)
Place32(x, y, r, q) == 256 * x + 64 * y + 8 * r + q + 1

Seen32(x, y, r, q) == <<8 * x + r, 8 * y + Turn32(x, y, r, q)>>

Order32(all) ==
  \A x \in 0 .. 3, y \in 0 .. 3, r \in 0 .. 7, q \in 0 .. 7 :
    all[Place32(x, y, r, q)] = Seen32(x, y, r, q)

Visits32(all) ==
  /\ all \in Seq((0 .. 31) \X (0 .. 31)) /\ Len(all) = 1024
  /\ Order32(all)

(* Its loops have that order.                                              *)
LEMMA Trans32Is == Visits32(trans32)
<1> DEFINE c == Corners(32, 32, 8)
           ss == [k \in DOMAIN c |-> Block32(c[k][1], c[k][2])]
           all == FlattenSeq(ss)
           S == (0 .. 31) \X (0 .. 31)
<1>1. /\ DOMAIN c = 1 .. 16
      /\ \A x \in 0 .. 3, y \in 0 .. 3 : c[4 * x + y + 1] = <<8 * x, 8 * y>>
  <2> DEFINE a == 4
             height == 32
             step == 8
  <2>1. height \in Nat /\ step \in Nat \ {0} /\ a \in Nat \ {0}
        /\ a = (height - 0 + step - 1) \div step
    OBVIOUS
  <2> HIDE DEF a, height, step
  <2>2. Cornered(Corners(height, height, step), step, a, a)
    BY <2>1, CornersAre
  <2> QED BY <2>2 DEF a, height, step, Cornered
<1> HIDE DEF c
<1>2. DOMAIN ss = 1 .. 16 /\ Len(ss) = 16
  <2>1. ss = [k \in 1 .. 16 |-> ss[k]] /\ DOMAIN ss = 1 .. 16
    BY <1>1
  <2> HIDE DEF ss
  <2> QED BY <2>1
<1>3. ASSUME NEW x \in 0 .. 3, NEW y \in 0 .. 3
      PROVE  IsBlock32(S, x, y, ss[4 * x + y + 1])
  <2>1. 4 * x + y + 1 \in 1 .. 16
    OBVIOUS
  <2>2. ss[4 * x + y + 1] = Block32(8 * x, 8 * y)
    BY <1>1, <2>1
  <2>3. Rectangle(8 * x, 8 * y, 8, 8) \subseteq S
    BY DEF Rectangle
  <2>4. x \in Nat /\ y \in Nat
    OBVIOUS
  <2> HIDE DEF ss, S
  <2>5. IsBlock32(S, x, y, Block32(8 * x, 8 * y))
    BY <2>3, <2>4, Block32Is
  <2> QED BY <2>2, <2>5
<1>4. Even(S, ss, 16, 64)
  <2>1. ASSUME NEW k \in 1 .. 16 PROVE ss[k] \in Seq(S) /\ Len(ss[k]) = 64
    <3>1. PICK x \in 0 .. 3, y \in 0 .. 3 : k = 4 * x + y + 1
      <4>1. (k - 1) \div 4 \in 0 .. 3 /\ (k - 1) % 4 \in 0 .. 3
            /\ k = 4 * ((k - 1) \div 4) + ((k - 1) % 4) + 1
        OBVIOUS
      <4> QED BY <4>1
    <3> HIDE DEF ss, S
    <3> QED BY <1>3, <3>1 DEF IsBlock32
  <2> HIDE DEF ss, S
  <2> QED BY <1>2, <2>1 DEF Even
<1>5. all = trans32
  BY DEF trans32, c
<1>6. InTurn(S, ss, 16, 64, all)
  <2>1. 16 \in Nat \ {0} /\ 64 \in Nat
    OBVIOUS
  <2> HIDE DEF ss, S
  <2> QED BY <1>4, <2>1, FlattenEven
<1> HIDE DEF all
<1>7. ASSUME NEW x \in 0 .. 3, NEW y \in 0 .. 3, NEW r \in 0 .. 7, NEW q \in 0 .. 7
      PROVE  all[Place32(x, y, r, q)] = Seen32(x, y, r, q)
  <2>1. Place32(x, y, r, q) = (4 * x + y) * 64 + (8 * r + q + 1)
        /\ 4 * x + y \in 0 .. 16 - 1 /\ 8 * r + q + 1 \in 1 .. 64
        /\ (4 * x + y) + 1 = 4 * x + y + 1
    BY DEF Place32
  <2> HIDE DEF ss, S
  <2>2. all[(4 * x + y) * 64 + (8 * r + q + 1)] = ss[(4 * x + y) + 1][8 * r + q + 1]
    BY <1>6, <2>1 DEF InTurn
  <2>3. ss[4 * x + y + 1][8 * r + q + 1] = <<8 * x + r, 8 * y + Turn32(x, y, r, q)>>
    <3>1. IsBlock32(S, x, y, ss[4 * x + y + 1])
      BY <1>3
    <3> QED BY <3>1, ZenonT(40) DEF IsBlock32
  <2> QED BY <2>1, <2>2, <2>3 DEF Seen32
<1>8. all \in Seq(S) /\ Len(all) = 1024
  <2> HIDE DEF ss, S
  <2>1. all \in Seq(S) /\ Len(all) = 16 * 64
    BY <1>6 DEF InTurn
  <2> QED BY <2>1
<1>9. Order32(all)
  <2> HIDE DEF S
  <2> QED BY <1>7 DEF Order32
<1>10. Visits32(all)
  BY <1>8, <1>9 DEF Visits32
<1> QED BY <1>5, <1>10

(* block visits a block of four rows, the diagonal element of each last.   *)
IsBlock4x4(S, i, j, block) ==
  /\ block \in Seq(S) /\ Len(block) = 16
  /\ \A r \in 0 .. 3, q \in 0 .. 3 :
       block[4 * r + q + 1] = <<i + r, j + Turn(4, r, q)>>

(* What block4x4 visits.                                                   *)
LEMMA Block4x4Is ==
  ASSUME NEW S, NEW i \in Nat, NEW j \in Nat, Rectangle(i, j, 4, 4) \subseteq S
  PROVE  IsBlock4x4(S, i, j, block4x4(i, j))
<1> DEFINE row(r) == RowButLast(i + r, j, j + 4, j + r)
           ss == [k \in 1 .. 4 |-> RowButLast(i + k - 1, j, j + 4, j + k - 1)]
           all == FlattenSeq(ss)
<1>1. ASSUME NEW r \in 0 .. 3
      PROVE  /\ row(r) \in Seq(S) /\ Len(row(r)) = 4
             /\ \A q \in 0 .. 3 : row(r)[q + 1] = <<i + r, j + Turn(4, r, q)>>
  <2> DEFINE w == 4
             ii == i + r
             hi == j + w
             last == j + r
  <2>1. /\ w \in Nat /\ ii \in Int /\ j \in Int /\ hi \in Int /\ hi = j + w
        /\ r \in Nat /\ r < w /\ last \in Int /\ last = j + r
    OBVIOUS
  <2>2. HasRow(S, ii, j, w)
    <3>1. \A q \in 0 .. w - 1 : <<ii, j + q>> \in Rectangle(i, j, 4, 4)
      BY DEF Rectangle
    <3> QED BY <3>1 DEF HasRow
  <2> HIDE DEF w, ii, hi, last
  <2>3. IsRowButLast(S, ii, j, w, r, RowButLast(ii, j, hi, last))
    BY <2>1, <2>2, RowButLastIs
  <2> QED BY <2>3 DEF w, ii, hi, last, IsRowButLast
<1>2. \A k \in 1 .. 4 : ss[k] = row(k - 1)
  <2>1. \A k \in 1 .. 4 : i + k - 1 = i + (k - 1) /\ j + k - 1 = j + (k - 1)
    OBVIOUS
  <2> QED BY <2>1
<1>3. ss = [k \in 1 .. 4 |-> ss[k]]
  OBVIOUS
<1>4. Even(S, ss, 4, 4)
  <2>1. Len(ss) = 4
    <3> HIDE DEF ss
    <3> QED BY <1>3
  <2>2. ASSUME NEW k \in 1 .. 4 PROVE ss[k] \in Seq(S) /\ Len(ss[k]) = 4
    <3>1. k - 1 \in 0 .. 3
      OBVIOUS
    <3> HIDE DEF ss, row
    <3> QED BY <1>1, <1>2, <3>1
  <2> HIDE DEF ss
  <2> QED BY <2>1, <2>2 DEF Even
<1>5. all = block4x4(i, j)
  BY DEF block4x4
<1>6. InTurn(S, ss, 4, 4, all)
  <2>1. 4 \in Nat \ {0}
    OBVIOUS
  <2> HIDE DEF ss
  <2> QED BY <1>4, <2>1, FlattenEven
<1> HIDE DEF all, ss, row
<1>7. ASSUME NEW r \in 0 .. 3, NEW q \in 0 .. 3
      PROVE  all[4 * r + q + 1] = <<i + r, j + Turn(4, r, q)>>
  <2>1. 4 * r + q + 1 = r * 4 + (q + 1) /\ r \in 0 .. 4 - 1 /\ q + 1 \in 1 .. 4
        /\ r + 1 \in 1 .. 4 /\ (r + 1) - 1 = r
    OBVIOUS
  <2>2. all[r * 4 + (q + 1)] = ss[r + 1][q + 1]
    BY <1>6, <2>1 DEF InTurn
  <2>3. ss[r + 1] = row(r)
    BY <1>2, <2>1
  <2> QED BY <1>1, <2>1, <2>2, <2>3
<1>8. all \in Seq(S) /\ Len(all) = 16
  <2>1. all \in Seq(S) /\ Len(all) = 4 * 4
    BY <1>6 DEF InTurn
  <2> QED BY <2>1
<1>9. IsBlock4x4(S, i, j, all)
  BY <1>7, <1>8 DEF IsBlock4x4
<1> QED BY <1>5, <1>9

(* Where the four blocks of a larger one are.                              *)
Down(z)  == IF z \in {1, 2} THEN 4 ELSE 0
Right(z) == IF z \in {2, 3} THEN 4 ELSE 0

(* What block visits in row r of its small block z.                        *)
Seen64(x, y, z, r, q) ==
  <<8 * x + Down(z) + r, 8 * y + Right(z) + Turn(4, r, q)>>

Visits16(block, x, y, z, r, q) ==
  block[16 * z + 4 * r + q + 1] = Seen64(x, y, z, r, q)

(* block visits the block x, y of trans64.                                 *)
IsBlock64(S, x, y, block) ==
  /\ block \in Seq(S) /\ Len(block) = 64
  /\ \A z \in 0 .. 3, r \in 0 .. 3, q \in 0 .. 3 : Visits16(block, x, y, z, r, q)

(* both has the sequence b, of length 16, after a, of length m.            *)
Has16After(S, a, m, b, both) ==
  /\ both \in Seq(S) /\ Len(both) = m + 16
  /\ \A p \in 1 .. m : both[p] = a[p]
  /\ \A p \in 1 .. 16 : both[m + p] = b[p]

(* So has their concatenation.                                             *)
LEMMA After16 ==
  ASSUME NEW S, NEW a \in Seq(S), NEW b \in Seq(S), Len(b) = 16
  PROVE  Has16After(S, a, Len(a), b, a \o b)
<1>1. a \o b \in Seq(S) /\ Len(a \o b) = Len(a) + Len(b)
      /\ \A p \in 1 .. Len(a) + Len(b) :
            (a \o b)[p] = IF p <= Len(a) THEN a[p] ELSE b[p - Len(a)]
  BY ConcatProperties
<1>2. \A p \in 1 .. Len(a) : (a \o b)[p] = a[p]
  BY <1>1
<1>3. ASSUME NEW p \in 1 .. 16 PROVE (a \o b)[Len(a) + p] = b[p]
  <2> DEFINE t == Len(a) + p
  <2>1. t \in 1 .. Len(a) + Len(b) /\ ~ (t <= Len(a)) /\ t - Len(a) = p
    OBVIOUS
  <2> HIDE DEF t
  <2>2. (a \o b)[t] = b[t - Len(a)]
    BY <1>1, <2>1
  <2> QED BY <2>1, <2>2 DEF t
<1> QED BY <1>1, <1>2, <1>3 DEF Has16After

(* What a block of trans64 visits.                                         *)
LEMMA Block64Is ==
  ASSUME NEW S, NEW x \in Nat, NEW y \in Nat,
         Rectangle(8 * x, 8 * y, 8, 8) \subseteq S
  PROVE  IsBlock64(S, x, y, Block64(8 * x, 8 * y))
<1> DEFINE i == 8 * x
           j == 8 * y
           a == block4x4(i, j)
           b == block4x4(i + 4, j)
           c == block4x4(i + 4, j + 4)
           d == block4x4(i, j + 4)
           block == Block64(i, j)
<1>1. /\ IsBlock4x4(S, i, j, a) /\ IsBlock4x4(S, i + 4, j, b)
      /\ IsBlock4x4(S, i + 4, j + 4, c) /\ IsBlock4x4(S, i, j + 4, d)
  <2>1. /\ Rectangle(i, j, 4, 4) \subseteq S /\ Rectangle(i + 4, j, 4, 4) \subseteq S
        /\ Rectangle(i + 4, j + 4, 4, 4) \subseteq S /\ Rectangle(i, j + 4, 4, 4) \subseteq S
    <3>1. ASSUME NEW u \in {0, 4}, NEW v \in {0, 4}, NEW r \in 0 .. 3, NEW q \in 0 .. 3
          PROVE  <<(i + u) + r, (j + v) + q>> \in S
      <4>1. u + r \in 0 .. 7 /\ v + q \in 0 .. 7
            /\ (i + u) + r = i + (u + r) /\ (j + v) + q = j + (v + q)
        OBVIOUS
      <4>2. <<i + (u + r), j + (v + q)>> \in Rectangle(i, j, 8, 8)
        BY <4>1 DEF Rectangle
      <4> QED BY <4>1, <4>2
    <3>2. i + 0 = i /\ j + 0 = j /\ 0 .. 4 - 1 = 0 .. 3 /\ i \in Nat /\ j \in Nat
      OBVIOUS
    <3> HIDE DEF i, j
    <3>3. ASSUME NEW u \in {0, 4}, NEW v \in {0, 4}
          PROVE  Rectangle(i + u, j + v, 4, 4) \subseteq S
      <4>1. SUFFICES ASSUME NEW e \in Rectangle(i + u, j + v, 4, 4) PROVE e \in S
        OBVIOUS
      <4>2. PICK r \in 0 .. 3, q \in 0 .. 3 : e = <<(i + u) + r, (j + v) + q>>
        BY <3>2 DEF Rectangle
      <4> QED BY <3>1, <4>2
    <3> QED BY <3>2, <3>3
  <2>2. i \in Nat /\ j \in Nat /\ i + 4 \in Nat /\ j + 4 \in Nat
    OBVIOUS
  <2> HIDE DEF i, j
  <2> QED BY <2>1, <2>2, Block4x4Is
<1>2. block = ((a \o b) \o c) \o d
  BY DEF Block64
<1> HIDE DEF a, b, c, d, block
<1>3. /\ a \in Seq(S) /\ Len(a) = 16 /\ b \in Seq(S) /\ Len(b) = 16
      /\ c \in Seq(S) /\ Len(c) = 16 /\ d \in Seq(S) /\ Len(d) = 16
  BY <1>1 DEF IsBlock4x4
<1> DEFINE ab == a \o b
           abc == ab \o c
<1>4. Has16After(S, a, 16, b, ab) /\ ab \in Seq(S) /\ Len(ab) = 32
  <2>1. Has16After(S, a, Len(a), b, a \o b)
    BY <1>3, After16
  <2> HIDE DEF ab
  <2>2. Has16After(S, a, 16, b, ab)
    BY <1>3, <2>1 DEF ab
  <2>3. ab \in Seq(S) /\ Len(ab) = 16 + 16
    BY <2>2 DEF Has16After
  <2> QED BY <2>2, <2>3
<1> HIDE DEF ab
<1>5. Has16After(S, ab, 32, c, abc) /\ abc \in Seq(S) /\ Len(abc) = 48
  <2>1. Has16After(S, ab, Len(ab), c, ab \o c)
    BY <1>3, <1>4, After16
  <2> HIDE DEF abc
  <2>2. Has16After(S, ab, 32, c, abc)
    BY <1>4, <2>1 DEF abc
  <2>3. abc \in Seq(S) /\ Len(abc) = 32 + 16
    BY <2>2 DEF Has16After
  <2> QED BY <2>2, <2>3
<1> HIDE DEF abc
<1>6. Has16After(S, abc, 48, d, block) /\ block \in Seq(S) /\ Len(block) = 64
  <2>1. block = abc \o d
    BY <1>2 DEF ab, abc
  <2>2. Has16After(S, abc, Len(abc), d, abc \o d)
    BY <1>3, <1>5, After16
  <2>3. Has16After(S, abc, 48, d, block)
    BY <1>5, <2>1, <2>2
  <2>4. block \in Seq(S) /\ Len(block) = 48 + 16
    BY <2>3 DEF Has16After
  <2> QED BY <2>3, <2>4
<1>7. ASSUME NEW p \in 1 .. 16
      PROVE  block[p] = a[p] /\ block[16 + p] = b[p] /\ block[32 + p] = c[p]
             /\ block[48 + p] = d[p]
  <2>1. /\ p \in 1 .. 32 /\ p \in 1 .. 48 /\ 16 + p \in 1 .. 32 /\ 16 + p \in 1 .. 48
        /\ 32 + p \in 1 .. 48
    OBVIOUS
  <2>2. block[p] = a[p]
    <3>1. ab[p] = a[p]
      BY <1>4 DEF Has16After
    <3>2. abc[p] = ab[p]
      BY <1>5, <2>1 DEF Has16After
    <3>3. block[p] = abc[p]
      BY <1>6, <2>1 DEF Has16After
    <3> QED BY <3>1, <3>2, <3>3
  <2>3. block[16 + p] = b[p]
    <3>1. ab[16 + p] = b[p]
      BY <1>4 DEF Has16After
    <3>2. abc[16 + p] = ab[16 + p]
      BY <1>5, <2>1 DEF Has16After
    <3>3. block[16 + p] = abc[16 + p]
      BY <1>6, <2>1 DEF Has16After
    <3> QED BY <3>1, <3>2, <3>3
  <2>4. block[32 + p] = c[p]
    BY <1>5, <1>6, <2>1 DEF Has16After
  <2>5. block[48 + p] = d[p]
    BY <1>6 DEF Has16After
  <2> QED BY <2>2, <2>3, <2>4, <2>5
<1>8. ASSUME NEW z \in 0 .. 3, NEW r \in 0 .. 3, NEW q \in 0 .. 3
      PROVE  block[16 * z + 4 * r + q + 1] =
               <<i + Down(z) + r, j + Right(z) + Turn(4, r, q)>>
  <2> DEFINE p == 4 * r + q + 1
  <2>1. p \in 1 .. 16 /\ 16 * z + 4 * r + q + 1 = 16 * z + p
    OBVIOUS
  <2>2. /\ a[p] = <<i + r, j + Turn(4, r, q)>>
        /\ b[p] = <<i + 4 + r, j + Turn(4, r, q)>>
        /\ c[p] = <<i + 4 + r, j + 4 + Turn(4, r, q)>>
        /\ d[p] = <<i + r, j + 4 + Turn(4, r, q)>>
    BY <1>1 DEF IsBlock4x4
  <2>3. Turn(4, r, q) \in Int /\ i \in Int /\ j \in Int
    BY DEF Turn
  <2> HIDE DEF p, i, j
  <2>4. CASE z = 0
    <3>1. 16 * z + p = p /\ Down(z) = 0 /\ Right(z) = 0
      BY <2>1, <2>4 DEF Down, Right
    <3> QED BY <1>7, <2>1, <2>2, <2>3, <3>1
  <2>5. CASE z = 1
    <3>1. 16 * z + p = 16 + p /\ Down(z) = 4 /\ Right(z) = 0
      BY <2>1, <2>5 DEF Down, Right
    <3> QED BY <1>7, <2>1, <2>2, <2>3, <3>1
  <2>6. CASE z = 2
    <3>1. 16 * z + p = 32 + p /\ Down(z) = 4 /\ Right(z) = 4
      BY <2>1, <2>6 DEF Down, Right
    <3> QED BY <1>7, <2>1, <2>2, <2>3, <3>1
  <2>7. CASE z = 3
    <3>1. 16 * z + p = 48 + p /\ Down(z) = 0 /\ Right(z) = 4
      BY <2>1, <2>7 DEF Down, Right
    <3> QED BY <1>7, <2>1, <2>2, <2>3, <3>1
  <2> QED BY <2>4, <2>5, <2>6, <2>7
<1>9. IsBlock64(S, x, y, block)
  BY <1>6, <1>8 DEF IsBlock64, Visits16, Seen64
<1> QED BY <1>9 DEF block

(* In which turn trans64 visits what.                                      *)
Place64(x, y, z, r, q) == 512 * x + 64 * y + 16 * z + 4 * r + q + 1

Order64(all) ==
  \A x \in 0 .. 7, y \in 0 .. 7, z \in 0 .. 3, r \in 0 .. 3, q \in 0 .. 3 :
    all[Place64(x, y, z, r, q)] = Seen64(x, y, z, r, q)

Visits64(all) ==
  /\ all \in Seq((0 .. 63) \X (0 .. 63)) /\ Len(all) = 4096
  /\ Order64(all)

(* Its loops have that order.                                              *)
LEMMA Trans64Is == Visits64(trans64)
<1> DEFINE c == Corners(64, 64, 8)
           ss == [k \in DOMAIN c |-> Block64(c[k][1], c[k][2])]
           all == FlattenSeq(ss)
           S == (0 .. 63) \X (0 .. 63)
<1>1. /\ DOMAIN c = 1 .. 64
      /\ \A x \in 0 .. 7, y \in 0 .. 7 : c[8 * x + y + 1] = <<8 * x, 8 * y>>
  <2> DEFINE a == 8
             height == 64
             step == 8
  <2>1. height \in Nat /\ step \in Nat \ {0} /\ a \in Nat \ {0}
        /\ a = (height - 0 + step - 1) \div step
    OBVIOUS
  <2> HIDE DEF a, height, step
  <2>2. Cornered(Corners(height, height, step), step, a, a)
    BY <2>1, CornersAre
  <2> QED BY <2>2 DEF a, height, step, Cornered
<1> HIDE DEF c
<1>2. DOMAIN ss = 1 .. 64 /\ Len(ss) = 64
  <2>1. ss = [k \in 1 .. 64 |-> ss[k]] /\ DOMAIN ss = 1 .. 64
    BY <1>1
  <2> HIDE DEF ss
  <2> QED BY <2>1
<1>3. ASSUME NEW x \in 0 .. 7, NEW y \in 0 .. 7
      PROVE  IsBlock64(S, x, y, ss[8 * x + y + 1])
  <2>1. 8 * x + y + 1 \in 1 .. 64
    OBVIOUS
  <2>2. ss[8 * x + y + 1] = Block64(8 * x, 8 * y)
    BY <1>1, <2>1
  <2>3. Rectangle(8 * x, 8 * y, 8, 8) \subseteq S
    BY DEF Rectangle
  <2>4. x \in Nat /\ y \in Nat
    OBVIOUS
  <2> HIDE DEF ss, S
  <2>5. IsBlock64(S, x, y, Block64(8 * x, 8 * y))
    BY <2>3, <2>4, Block64Is
  <2> QED BY <2>2, <2>5
<1>4. Even(S, ss, 64, 64)
  <2>1. ASSUME NEW k \in 1 .. 64 PROVE ss[k] \in Seq(S) /\ Len(ss[k]) = 64
    <3>1. PICK x \in 0 .. 7, y \in 0 .. 7 : k = 8 * x + y + 1
      <4>1. (k - 1) \div 8 \in 0 .. 7 /\ (k - 1) % 8 \in 0 .. 7
            /\ k = 8 * ((k - 1) \div 8) + ((k - 1) % 8) + 1
        OBVIOUS
      <4> QED BY <4>1
    <3> HIDE DEF ss, S
    <3> QED BY <1>3, <3>1, ZenonT(40) DEF IsBlock64
  <2> HIDE DEF ss, S
  <2> QED BY <1>2, <2>1 DEF Even
<1>5. all = trans64
  BY DEF trans64, c
<1>6. InTurn(S, ss, 64, 64, all)
  <2>1. 64 \in Nat \ {0} /\ 64 \in Nat
    OBVIOUS
  <2> HIDE DEF ss, S
  <2> QED BY <1>4, <2>1, FlattenEven
<1> HIDE DEF all
<1>7. ASSUME NEW x \in 0 .. 7, NEW y \in 0 .. 7,
             NEW z \in 0 .. 3, NEW r \in 0 .. 3, NEW q \in 0 .. 3
      PROVE  all[Place64(x, y, z, r, q)] = Seen64(x, y, z, r, q)
  <2> DEFINE p == 16 * z + 4 * r + q + 1
  <2>1. Place64(x, y, z, r, q) = (8 * x + y) * 64 + p
        /\ 8 * x + y \in 0 .. 64 - 1 /\ p \in 1 .. 64
        /\ (8 * x + y) + 1 = 8 * x + y + 1
    BY DEF Place64
  <2>3. ss[8 * x + y + 1][p] =
          <<8 * x + Down(z) + r, 8 * y + Right(z) + Turn(4, r, q)>>
    <3> DEFINE block == ss[8 * x + y + 1]
    <3>1. IsBlock64(S, x, y, block)
      BY <1>3
    <3> HIDE DEF ss, S, block
    <3>2. Visits16(block, x, y, z, r, q)
      BY <3>1 DEF IsBlock64
    <3> QED BY <3>2 DEF Visits16, Seen64, block
  <2> HIDE DEF ss, S, p
  <2>2. all[(8 * x + y) * 64 + p] = ss[(8 * x + y) + 1][p]
    BY <1>6, <2>1 DEF InTurn
  <2> QED BY <2>1, <2>2, <2>3 DEF Seen64
<1>8. all \in Seq(S) /\ Len(all) = 4096
  <2> HIDE DEF ss, S
  <2>1. all \in Seq(S) /\ Len(all) = 64 * 64
    BY <1>6 DEF InTurn
  <2> QED BY <2>1
<1>9. Visits64(all)
  <2>1. all \in Seq((0 .. 63) \X (0 .. 63)) /\ Len(all) = 4096
    BY <1>8
  <2>2. Order64(all)
    <3> HIDE DEF S
    <3> QED BY <1>7 DEF Order64
  <2> HIDE DEF S
  <2> QED BY <2>1, <2>2 DEF Visits64
<1> QED BY <1>5, <1>9

(* The rows and the columns of a block of trans61x67.                      *)
High(x) == IF x = 4 THEN 3 ELSE 16
Wide(y) == IF y = 3 THEN 13 ELSE 16

(* block visits the block x, y of trans61x67.                              *)
IsBlock61x67(S, x, y, block) ==
  /\ block \in Seq(S) /\ Len(block) = High(x) * Wide(y)
  /\ \A r \in 0 .. High(x) - 1, q \in 0 .. Wide(y) - 1 :
       block[r * Wide(y) + (q + 1)] = <<16 * x + r, 16 * y + q>>

(* What a block of trans61x67 visits.                                      *)
LEMMA Block61x67Is ==
  ASSUME NEW S, NEW x \in 0 .. 4, NEW y \in 0 .. 3,
         Rectangle(16 * x, 16 * y, High(x), Wide(y)) \subseteq S
  PROVE  IsBlock61x67(S, x, y, Block61x67(16 * x, 16 * y))
<1> DEFINE i == 16 * x
           j == 16 * y
           h == High(x)
           w == Wide(y)
           bottom == Smaller(i + 16, 67)
           hi == Smaller(j + 16, 61)
           rows == For(i, bottom, 1)
           row(ii) == Row(ii, For(j, hi, 1))
           ss == [k \in DOMAIN rows |-> row(rows[k])]
           all == FlattenSeq(ss)
<1>1. /\ i \in Nat /\ j \in Nat /\ h \in Nat \ {0} /\ w \in Nat
      /\ bottom = i + h /\ hi = j + w
  BY DEF Smaller, High, Wide
<1>2. \A r \in 0 .. h - 1, q \in 0 .. w - 1 : <<i + r, j + q>> \in S
  BY DEF Rectangle
<1>3. all = Block61x67(i, j)
  BY DEF Block61x67
<1> HIDE DEF i, j, h, w, bottom, hi
<1>4. Counts(rows, i, h)
  BY <1>1, ForOne
<1> HIDE DEF rows
<1>5. ASSUME NEW r \in 0 .. h - 1
      PROVE  /\ row(i + r) \in Seq(S) /\ Len(row(i + r)) = w
             /\ \A q \in 0 .. w - 1 : row(i + r)[q + 1] = <<i + r, j + q>>
  <2> DEFINE ii == i + r
  <2>1. ii \in Int /\ j \in Int /\ hi \in Int
    BY <1>1
  <2>2. HasRow(S, ii, j, w)
    BY <1>2 DEF HasRow
  <2> HIDE DEF ii
  <2>3. IsRow(S, ii, j, w, Row(ii, For(j, hi, 1)))
    BY <1>1, <2>1, <2>2, RowIs
  <2> QED BY <2>3 DEF ii, IsRow
<1> HIDE DEF row
<1>6. ss = [k \in 1 .. h |-> ss[k]] /\ DOMAIN ss = 1 .. h
      /\ \A k \in 1 .. h : ss[k] = row(i + (k - 1))
  BY <1>4 DEF Counts
<1> HIDE DEF ss
<1>7. Even(S, ss, h, w)
  <2>1. Len(ss) = h
    BY <1>1, <1>6
  <2>2. ASSUME NEW k \in 1 .. h PROVE ss[k] \in Seq(S) /\ Len(ss[k]) = w
    <3>1. k - 1 \in 0 .. h - 1
      BY <1>1
    <3>2. row(i + (k - 1)) \in Seq(S) /\ Len(row(i + (k - 1))) = w
      BY <1>5, <3>1
    <3> QED BY <1>6, <3>2
  <2> QED BY <2>1, <2>2 DEF Even
<1>8. InTurn(S, ss, h, w, all)
  BY <1>1, <1>7, FlattenEven
<1> HIDE DEF all
<1>9. ASSUME NEW r \in 0 .. h - 1, NEW q \in 0 .. w - 1
      PROVE  all[r * w + (q + 1)] = <<i + r, j + q>>
  <2>1. q + 1 \in 1 .. w /\ r + 1 \in 1 .. h /\ (r + 1) - 1 = r
    BY <1>1
  <2>2. all[r * w + (q + 1)] = ss[r + 1][q + 1]
    BY <1>8, <2>1 DEF InTurn
  <2>3. ss[r + 1] = row(i + r)
    BY <1>6, <2>1
  <2>4. row(i + r)[q + 1] = <<i + r, j + q>>
    BY <1>5
  <2> QED BY <2>2, <2>3, <2>4
<1>10. all \in Seq(S) /\ Len(all) = h * w
  BY <1>8 DEF InTurn
<1>11. IsBlock61x67(S, x, y, all)
  BY <1>9, <1>10 DEF IsBlock61x67, h, w, i, j
<1> QED BY <1>3, <1>11 DEF i, j

(* What trans61x67 visited before its block x, y.                          *)
Done61x67(x, y) == 976 * x + 16 * y * High(x)

Place61x67(x, y, r, q) == Done61x67(x, y) + (r * Wide(y) + (q + 1))

(* In which turn trans61x67 visits what.                                   *)
Seen61x67(x, y, r, q) == <<16 * x + r, 16 * y + q>>

Order61x67(all) ==
  \A x \in 0 .. 4, y \in 0 .. 3 :
    \A r \in 0 .. High(x) - 1, q \in 0 .. Wide(y) - 1 :
      all[Place61x67(x, y, r, q)] = Seen61x67(x, y, r, q)

Visits61x67(all) ==
  /\ all \in Seq((0 .. 66) \X (0 .. 60)) /\ Len(all) = 4087
  /\ Order61x67(all)

(* Its loops have that order.                                              *)
LEMMA Trans61x67Is == Visits61x67(trans61x67)
<1> DEFINE c == Corners(67, 61, 16)
           ss == [k \in DOMAIN c |-> Block61x67(c[k][1], c[k][2])]
           all == FlattenSeq(ss)
           S == (0 .. 66) \X (0 .. 60)
           off == [k \in 0 .. 20 |-> IF k = 20 THEN 4087
                                     ELSE Done61x67(k \div 4, k % 4)]
<1>1. /\ DOMAIN c = 1 .. 20
      /\ \A x \in 0 .. 4, y \in 0 .. 3 : c[4 * x + y + 1] = <<16 * x, 16 * y>>
  <2> DEFINE a == 5
             b == 4
             height == 67
             width == 61
             step == 16
  <2>1. height \in Nat /\ width \in Nat /\ step \in Nat \ {0} /\ a \in Nat \ {0}
        /\ a = (height - 0 + step - 1) \div step
        /\ b \in Nat \ {0} /\ b = (width - 0 + step - 1) \div step
    OBVIOUS
  <2> HIDE DEF a, b, height, width, step
  <2>2. Cornered(Corners(height, width, step), step, a, b)
    BY <2>1, CornersAre
  <2> QED BY <2>2 DEF a, b, height, width, step, Cornered
<1> HIDE DEF c
<1>2. DOMAIN ss = 1 .. 20 /\ Len(ss) = 20
  <2>1. ss = [k \in 1 .. 20 |-> ss[k]] /\ DOMAIN ss = 1 .. 20
    BY <1>1
  <2> HIDE DEF ss
  <2> QED BY <2>1
<1>3. ASSUME NEW x \in 0 .. 4, NEW y \in 0 .. 3
      PROVE  IsBlock61x67(S, x, y, ss[4 * x + y + 1])
  <2>1. 4 * x + y + 1 \in 1 .. 20
    OBVIOUS
  <2>2. ss[4 * x + y + 1] = Block61x67(16 * x, 16 * y)
    BY <1>1, <2>1
  <2>3. Rectangle(16 * x, 16 * y, High(x), Wide(y)) \subseteq S
    BY DEF Rectangle, High, Wide
  <2> HIDE DEF ss, S
  <2>4. IsBlock61x67(S, x, y, Block61x67(16 * x, 16 * y))
    BY <2>3, Block61x67Is
  <2> QED BY <2>2, <2>4
<1>4. ASSUME NEW k \in 1 .. 20
      PROVE  /\ ss[k] \in Seq(S)
             /\ Len(ss[k]) = High((k - 1) \div 4) * Wide((k - 1) % 4)
  <2>1. (k - 1) \div 4 \in 0 .. 4 /\ (k - 1) % 4 \in 0 .. 3
        /\ k = 4 * ((k - 1) \div 4) + ((k - 1) % 4) + 1
    OBVIOUS
  <2> HIDE DEF ss, S
  <2>2. IsBlock61x67(S, (k - 1) \div 4, (k - 1) % 4, ss[k])
    BY <1>3, <2>1
  <2> QED BY <2>2 DEF IsBlock61x67
<1>5. Offsets(ss, 20, off)
  <2>1. \A k \in 0 .. 20 : off[k] \in Nat
    BY DEF Done61x67, High
  <2>2. off[0] = 0
    BY DEF Done61x67, High
  <2>3. ASSUME NEW k \in 1 .. 20
        PROVE  off[k] = off[k - 1] + High((k - 1) \div 4) * Wide((k - 1) % 4)
    BY DEF Done61x67, High, Wide
  <2>4. off \in [0 .. 20 -> Nat]
    BY <2>1
  <2> HIDE DEF ss, S, off
  <2> QED BY <1>4, <2>2, <2>3, <2>4 DEF Offsets
<1>6. all = trans61x67
  BY DEF trans61x67, c
<1>7. Holds(S, ss, off, 20, all)
  <2>1. 20 \in Nat \ {0}
    OBVIOUS
  <2> HIDE DEF ss, S, off
  <2>2. \A k \in 1 .. 20 : ss[k] \in Seq(S)
    BY <1>4
  <2> QED BY <1>2, <1>5, <2>1, <2>2, FlattenAt
<1> HIDE DEF all
<1>8. all \in Seq(S) /\ Len(all) = 4087
  <2>1. off[20] = 4087
    OBVIOUS
  <2> HIDE DEF ss, S, off
  <2>2. all \in Seq(S) /\ Len(all) = off[20]
    BY <1>7, Zenon DEF Holds
  <2> QED BY <2>1, <2>2
<1>9. ASSUME NEW x \in 0 .. 4, NEW y \in 0 .. 3,
             NEW r \in 0 .. High(x) - 1, NEW q \in 0 .. Wide(y) - 1
      PROVE  all[Place61x67(x, y, r, q)] = Seen61x67(x, y, r, q)
  <2> DEFINE k == 4 * x + y + 1
             p == r * Wide(y) + (q + 1)
  <2>1. k \in 1 .. 20 /\ k - 1 = 4 * x + y /\ (k - 1) \div 4 = x /\ (k - 1) % 4 = y
        /\ k - 1 \in 0 .. 20 /\ k - 1 # 20
    OBVIOUS
  <2>2. off[k - 1] = Done61x67(x, y)
    BY <2>1
  <2>3. IsBlock61x67(S, x, y, ss[k])
    BY <1>3
  <2>4. p \in 1 .. High(x) * Wide(y)
    <3>1. Wide(y) \in {13, 16} /\ High(x) \in {3, 16}
      BY DEF Wide, High
    <3>2. CASE Wide(y) = 13 /\ High(x) = 3
      BY <3>2
    <3>3. CASE Wide(y) = 13 /\ High(x) = 16
      BY <3>3
    <3>4. CASE Wide(y) = 16 /\ High(x) = 3
      BY <3>4
    <3>5. CASE Wide(y) = 16 /\ High(x) = 16
      BY <3>5
    <3> QED BY <3>1, <3>2, <3>3, <3>4, <3>5
  <2> HIDE DEF k, off, ss, S
  <2>5. p \in 1 .. Len(ss[k])
    BY <2>3, <2>4 DEF IsBlock61x67
  <2>6. ss[k][p] = <<16 * x + r, 16 * y + q>>
    BY <2>3 DEF IsBlock61x67
  <2> HIDE DEF p
  <2>7. all[off[k - 1] + p] = ss[k][p]
    BY <1>7, <2>1, <2>5 DEF Holds
  <2> QED BY <2>2, <2>6, <2>7 DEF p, Place61x67, Seen61x67
<1>10. Order61x67(all)
  <2> HIDE DEF ss, S, off
  <2> QED BY <1>9 DEF Order61x67
<1>11. Visits61x67(all)
  BY <1>8, <1>10 DEF Visits61x67
<1> QED BY <1>6, <1>11

----------------------------------------------------------------------------
(* The cache: 32 sets of one line.                                         *)

(* The block is in the cache.                                              *)
In(cache, block) ==
  /\ cache[block % 32].lines[0].valid
  /\ cache[block % 32].lines[0].tag = block \div 32

Sound(cache) == cache \in [0 .. 31 -> Cache!Set]

(* The geometry as numbers.                                                *)
LEMMA GeometryIs ==
  /\ Cache!LineIds = {0} /\ Geometry.E = 1
  /\ \A address \in Nat :
       /\ Cache!BlockOf(address) = address \div 32
       /\ Cache!IndexOf(address) = address % 32
       /\ Cache!TagOf(address) = address \div 32
<1>1. 2 ^ 5 = 32
  BY SMT
<1>2. Geometry.E = 1 /\ Geometry.b = 5 /\ Geometry.s = 5
  BY DEF Geometry
<1>3. Cache!pow2(5) = 32
  BY <1>1 DEF Cache!pow2
<1> QED BY <1>1, <1>2, <1>3
        DEF Cache!LineIds, Cache!BlockOf, Cache!IndexOf, Cache!TagOf

(* There is only one line to choose.                                       *)
LEMMA FirstIsZero ==
  ASSUME NEW I, I \subseteq {0}, I # {}
  PROVE  Cache!FirstOf(I) = 0
<1>1. 0 \in I /\ \A k \in I : 0 <= k
  <2>1. \A k \in I : k = 0
    OBVIOUS
  <2>2. PICK i \in I : TRUE
    OBVIOUS
  <2>3. i = 0
    BY <2>1
  <2>4. 0 \in I
    BY <2>2, <2>3
  <2>5. \A k \in I : 0 <= k
    BY <2>1
  <2> QED BY <2>4, <2>5
<1>2. Cache!FirstOf(I) \in I
  BY <1>1 DEF Cache!FirstOf
<1> QED BY <1>2

(* The queue of one line never changes.                                    *)
LEMMA QueueStays ==
  ASSUME NEW queue \in [{0} -> {0}]
  PROVE  Cache!update_lru_queue(queue, 0) = queue
<1> DEFINE I == {i \in Cache!LineIds : queue[i] = 0}
<1>1. I \subseteq {0} /\ I # {}
  BY GeometryIs
<1>2. Cache!index_of(queue, 0) = 0
  <2> HIDE DEF I
  <2>1. Cache!FirstOf(I) = 0
    BY <1>1, FirstIsZero
  <2> QED BY <2>1 DEF Cache!index_of, I
<1> QED BY <1>2, GeometryIs DEF Cache!update_lru_queue

(* A set is one line and its queue.                                        *)
LEMMA SetIs ==
  ASSUME NEW set \in Cache!Set
  PROVE  /\ set.lines \in [{0} -> Cache!Line] /\ set.lru_queue \in [{0} -> {0}]
         /\ set.lines[0].valid \in BOOLEAN /\ set.lines[0].tag \in Nat
BY GeometryIs DEF Cache!Set, Cache!Line

(* What a set becomes when a block with tag is brought in.                 *)
LEMMA FillIs ==
  ASSUME NEW set \in Cache!Set, NEW tag \in Nat
  PROVE  /\ Cache!update(set, tag) \in Cache!Set
         /\ Cache!update(set, tag).lines[0] = [valid |-> TRUE, tag |-> tag]
<1> DEFINE filled == [lines |-> [set.lines EXCEPT ![0] = [valid |-> TRUE, tag |-> tag]],
                      lru_queue |-> set.lru_queue]
<1>1. Cache!Fill(set, 0, tag) = filled
  BY SetIs, QueueStays DEF Cache!Fill
<1>2. Cache!update(set, tag) = filled
  <2>1. CASE Cache!Free(set) # {}
    <3>1. Cache!Free(set) \subseteq {0}
      BY GeometryIs DEF Cache!Free
    <3>2. Cache!FirstOf(Cache!Free(set)) = 0
      BY <2>1, <3>1, FirstIsZero
    <3> QED BY <1>1, <2>1, <3>2 DEF Cache!update
  <2>2. CASE Cache!Free(set) = {}
    <3>1. set.lru_queue[0] = 0
      BY SetIs
    <3> QED BY <1>1, <2>2, <3>1 DEF Cache!update, Cache!evict_lru
  <2> QED BY <2>1, <2>2
<1>3. [set.lines EXCEPT ![0] = [valid |-> TRUE, tag |-> tag]] \in [{0} -> Cache!Line]
  BY SetIs DEF Cache!Line
<1>4. filled \in Cache!Set
  BY <1>3, SetIs, GeometryIs DEF Cache!Set
<1>5. filled.lines[0] = [valid |-> TRUE, tag |-> tag]
  BY SetIs
<1> QED BY <1>2, <1>4, <1>5

(* A reference to a block: it misses unless the block is in the cache,     *)
(* brings it there, and leaves the other sets alone.                       *)
Referenced(block) ==
  /\ Sound(sets')
  /\ hits' \in Nat /\ misses' \in Nat /\ evictions' \in Nat
  /\ hits' + misses' = hits + misses + 1
  /\ misses' = IF In(sets, block) THEN misses ELSE misses + 1
  /\ In(sets', block)
  /\ \A other \in Nat :
       other % 32 # block % 32 => (In(sets', other) <=> In(sets, other))

(* That is what ref_mem does.                                              *)
LEMMA ReferenceIs ==
  ASSUME Sound(sets), hits \in Nat, misses \in Nat, evictions \in Nat,
         NEW address \in Nat, Cache!ref_mem(address)
  PROVE  Referenced(address \div 32)
<1> DEFINE block == address \div 32
           index == block % 32
           tag == block \div 32
           set == sets[index]
           line == set.lines[0]
<1>1. block \in Nat /\ index \in 0 .. 31 /\ tag \in Nat
  OBVIOUS
<1>2. /\ Cache!BlockOf(address) = block /\ Cache!IndexOf(block) = index
      /\ Cache!TagOf(block) = tag
  BY <1>1, GeometryIs
<1> HIDE DEF block
<1>3. set \in Cache!Set
  BY <1>1 DEF Sound
<1>4. In(sets, block) <=> line.valid /\ line.tag = tag
  BY DEF In
<1> HIDE DEF index, tag
<1>5. Cache!Hit(set, tag) # {} <=> In(sets, block)
  <2>1. Cache!Hit(set, tag) = {i \in {0} : set.lines[i].valid /\ set.lines[i].tag = tag}
    BY GeometryIs DEF Cache!Hit
  <2> QED BY <1>4, <2>1
<1>6. CASE In(sets, block)
  <2>1. /\ hits' = hits + 1 /\ misses' = misses /\ evictions' = evictions
        /\ sets' = [sets EXCEPT ![index].lru_queue =
                      Cache!update_lru_queue(@, Cache!FirstOf(Cache!Hit(set, tag)))]
    BY <1>2, <1>5, <1>6 DEF Cache!ref_mem
  <2>2. Cache!FirstOf(Cache!Hit(set, tag)) = 0
    <3>1. Cache!Hit(set, tag) \subseteq {0}
      BY GeometryIs DEF Cache!Hit
    <3> QED BY <1>5, <1>6, <3>1, FirstIsZero
  <2>3. Cache!update_lru_queue(set.lru_queue, 0) = set.lru_queue
    BY <1>3, SetIs, QueueStays
  <2>4. sets' = sets
    <3>1. sets' = [sets EXCEPT ![index] = [set EXCEPT !.lru_queue = set.lru_queue]]
      BY <2>1, <2>2, <2>3
    <3>2. [set EXCEPT !.lru_queue = set.lru_queue] = set
      BY <1>3 DEF Cache!Set
    <3>3. sets' = [sets EXCEPT ![index] = set]
      BY <3>1, <3>2
    <3> QED BY <1>1, <3>3 DEF Sound
  <2>5. Sound(sets') /\ In(sets', block)
        /\ \A other \in Nat : In(sets', other) <=> In(sets, other)
    BY <1>6, <2>4 DEF Sound
  <2>6. /\ hits' \in Nat /\ misses' \in Nat /\ evictions' \in Nat
        /\ hits' + misses' = hits + misses + 1
    BY <2>1
  <2>7. Referenced(block)
    BY <1>6, <2>1, <2>5, <2>6 DEF Referenced
  <2> QED BY <2>7 DEF block
<1>7. CASE ~ In(sets, block)
  <2>1. /\ hits' = hits /\ misses' = misses + 1
        /\ evictions' \in Nat
        /\ sets' = [sets EXCEPT ![index] = Cache!update(set, tag)]
    BY <1>2, <1>5, <1>7 DEF Cache!ref_mem
  <2> DEFINE new == Cache!update(set, tag)
  <2>2. new \in Cache!Set /\ new.lines[0] = [valid |-> TRUE, tag |-> tag]
    BY <1>1, <1>3, FillIs
  <2> HIDE DEF new
  <2>3. sets' \in [0 .. 31 -> Cache!Set] /\ sets'[index] = new
        /\ \A k \in 0 .. 31 : k # index => sets'[k] = sets[k]
    BY <1>1, <2>1, <2>2 DEF Sound, new
  <2>4. Sound(sets')
    BY <2>3 DEF Sound
  <2>5. In(sets', block)
    BY <2>2, <2>3 DEF In, index, tag
  <2>6. ASSUME NEW other \in Nat, other % 32 # block % 32
        PROVE  In(sets', other) <=> In(sets, other)
    <3>1. other % 32 \in 0 .. 31 /\ other % 32 # index
      BY <2>6 DEF index
    <3>2. sets'[other % 32] = sets[other % 32]
      BY <2>3, <3>1
    <3> QED BY <3>2 DEF In
  <2>7. /\ hits' \in Nat /\ misses' \in Nat /\ evictions' \in Nat
        /\ hits' + misses' = hits + misses + 1
    BY <2>1
  <2>8. Referenced(block)
    BY <1>7, <2>1, <2>4, <2>5, <2>6, <2>7 DEF Referenced
  <2> QED BY <2>8 DEF block
<1> QED BY <1>6, <1>7

----------------------------------------------------------------------------
(* Each routine visits every element, and nothing else.                    *)

(* Every column of a row has its turn.                                     *)
LEMMA TurnOnto ==
  ASSUME NEW w \in Nat, NEW r \in 0 .. w - 1, NEW c \in 0 .. w - 1
  PROVE  \E q \in 0 .. w - 1 : Turn(w, r, q) = c
<1>1. CASE c = r
  <2>1. w - 1 \in 0 .. w - 1 /\ Turn(w, r, w - 1) = c
    BY <1>1 DEF Turn
  <2> QED BY <2>1
<1>2. CASE c < r
  <2>1. Turn(w, r, c) = c
    BY <1>2 DEF Turn
  <2> QED BY <2>1
<1>3. CASE c > r
  <2>1. c - 1 \in 0 .. w - 1 /\ Turn(w, r, c - 1) = c
    BY <1>3 DEF Turn
  <2> QED BY <2>1
<1> QED BY <1>1, <1>2, <1>3

(* all visits an element.                                                  *)
Visited(all, i, j) == \E k \in 1 .. Len(all) : all[k] = <<i, j>>

(* all visits an array of height rows and width columns.                   *)
Covers(all, height, width) ==
  /\ all \in Seq((0 .. height - 1) \X (0 .. width - 1))
  /\ Len(all) = width * height
  /\ \A i \in 0 .. height - 1, j \in 0 .. width - 1 : Visited(all, i, j)

(* trans32 does.                                                           *)
LEMMA Covers32 == Covers(trans32, 32, 32)
<1> DEFINE all == trans32
<1>1. Visits32(all)
  BY Trans32Is
<1> HIDE DEF all
<1>2. all \in Seq((0 .. 31) \X (0 .. 31)) /\ Len(all) = 1024
  BY <1>1 DEF Visits32
<1>3. ASSUME NEW i \in 0 .. 31, NEW j \in 0 .. 31
      PROVE  Visited(all, i, j)
  <2>1. PICK x \in 0 .. 3, r \in 0 .. 7, y \in 0 .. 3, c \in 0 .. 7 :
          i = 8 * x + r /\ j = 8 * y + c
    <3> DEFINE x == i \div 8
               r == i % 8
               y == j \div 8
               c == j % 8
    <3>1. /\ x \in 0 .. 3 /\ r \in 0 .. 7 /\ y \in 0 .. 3 /\ c \in 0 .. 7
          /\ i = 8 * x + r /\ j = 8 * y + c
      OBVIOUS
    <3> HIDE DEF x, r, y, c
    <3> QED BY <3>1
  <2>2. PICK q \in 0 .. 7 : Turn32(x, y, r, q) = c
    <3>1. CASE x = y
      <4> DEFINE w == 8
      <4>1. w \in Nat /\ r \in 0 .. w - 1 /\ c \in 0 .. w - 1
        OBVIOUS
      <4> HIDE DEF w
      <4>2. PICK q \in 0 .. w - 1 : Turn(w, r, q) = c
        BY <4>1, TurnOnto
      <4> QED BY <3>1, <4>2 DEF w, Turn32
    <3>2. CASE x # y
      BY <2>1, <3>2 DEF Turn32
    <3> QED BY <3>1, <3>2
  <2>4. all[Place32(x, y, r, q)] = Seen32(x, y, r, q)
    <3>1. Order32(all)
      BY <1>1 DEF Visits32
    <3> QED BY <3>1 DEF Order32
  <2> DEFINE k == Place32(x, y, r, q)
  <2>3. k \in 1 .. 1024
    BY <2>1 DEF Place32
  <2> HIDE DEF k
  <2>5. all[k] = <<i, j>>
    <3>1. all[k] = Seen32(x, y, r, q)
      BY <2>4 DEF k
    <3> QED BY <2>1, <2>2, <3>1 DEF Seen32
  <2>6. k \in 1 .. Len(all)
    BY <1>2, <2>3
  <2> QED BY <2>5, <2>6 DEF Visited
<1>4. 32 - 1 = 31 /\ 32 * 32 = 1024
  OBVIOUS
<1>5. Covers(all, 32, 32)
  <2>1. all \in Seq((0 .. 32 - 1) \X (0 .. 32 - 1)) /\ Len(all) = 32 * 32
    BY <1>2, <1>4
  <2>2. ASSUME NEW i \in 0 .. 32 - 1, NEW j \in 0 .. 32 - 1
        PROVE  Visited(all, i, j)
    <3>1. i \in 0 .. 31 /\ j \in 0 .. 31
      OBVIOUS
    <3> QED BY <1>3, <3>1
  <2> QED BY <2>1, <2>2 DEF Covers
<1> QED BY <1>5 DEF all

(* trans64 does.                                                           *)
LEMMA Covers64 == Covers(trans64, 64, 64)
<1> DEFINE all == trans64
<1>1. Visits64(all)
  BY Trans64Is
<1> HIDE DEF all
<1>2. all \in Seq((0 .. 63) \X (0 .. 63)) /\ Len(all) = 4096
  BY <1>1 DEF Visits64
<1>3. ASSUME NEW i \in 0 .. 63, NEW j \in 0 .. 63
      PROVE  Visited(all, i, j)
  <2>1. PICK x \in 0 .. 7, r \in 0 .. 3, y \in 0 .. 7, c \in 0 .. 3 :
          /\ i = 8 * x + r \/ i = 8 * x + 4 + r
          /\ j = 8 * y + c \/ j = 8 * y + 4 + c
    <3> DEFINE x == i \div 8
               r == i % 4
               y == j \div 8
               c == j % 4
    <3>1. /\ x \in 0 .. 7 /\ r \in 0 .. 3 /\ y \in 0 .. 7 /\ c \in 0 .. 3
          /\ i = 8 * x + r \/ i = 8 * x + 4 + r
          /\ j = 8 * y + c \/ j = 8 * y + 4 + c
      OBVIOUS
    <3> HIDE DEF x, r, y, c
    <3> QED BY <3>1
  <2>2. PICK z \in 0 .. 3 : i = 8 * x + Down(z) + r /\ j = 8 * y + Right(z) + c
    <3>1. /\ Down(0) = 0 /\ Down(1) = 4 /\ Down(2) = 4 /\ Down(3) = 0
          /\ Right(0) = 0 /\ Right(1) = 0 /\ Right(2) = 4 /\ Right(3) = 4
      BY DEF Down, Right
    <3>2. CASE i = 8 * x + r /\ j = 8 * y + c
      <4>1. i = 8 * x + Down(0) + r /\ j = 8 * y + Right(0) + c
        BY <2>1, <3>1, <3>2
      <4> QED BY <4>1
    <3>3. CASE i = 8 * x + 4 + r /\ j = 8 * y + c
      <4>1. i = 8 * x + Down(1) + r /\ j = 8 * y + Right(1) + c
        BY <2>1, <3>1, <3>3
      <4> QED BY <4>1
    <3>4. CASE i = 8 * x + 4 + r /\ j = 8 * y + 4 + c
      <4>1. i = 8 * x + Down(2) + r /\ j = 8 * y + Right(2) + c
        BY <2>1, <3>1, <3>4
      <4> QED BY <4>1
    <3>5. CASE i = 8 * x + r /\ j = 8 * y + 4 + c
      <4>1. i = 8 * x + Down(3) + r /\ j = 8 * y + Right(3) + c
        BY <2>1, <3>1, <3>5
      <4> QED BY <4>1
    <3> QED BY <2>1, <3>2, <3>3, <3>4, <3>5
  <2>3. PICK q \in 0 .. 3 : Turn(4, r, q) = c
    <3> DEFINE w == 4
    <3>1. w \in Nat /\ r \in 0 .. w - 1 /\ c \in 0 .. w - 1
      OBVIOUS
    <3> HIDE DEF w
    <3>2. PICK q \in 0 .. w - 1 : Turn(w, r, q) = c
      BY <3>1, TurnOnto
    <3> QED BY <3>2 DEF w
  <2>4. all[Place64(x, y, z, r, q)] = Seen64(x, y, z, r, q)
    <3>1. Order64(all)
      BY <1>1 DEF Visits64
    <3> QED BY <3>1, ZenonT(40) DEF Order64
  <2> DEFINE k == Place64(x, y, z, r, q)
  <2>5. k \in 1 .. 4096
    <3> DEFINE p == 16 * z + 4 * r + q + 1
    <3>1. p \in 1 .. 64 /\ k = 64 * (8 * x + y) + p
      BY DEF Place64
    <3>2. 8 * x + y \in 0 .. 63
      OBVIOUS
    <3> HIDE DEF k, p
    <3> QED BY <3>1, <3>2
  <2> HIDE DEF k
  <2>6. all[k] = <<i, j>>
    <3>1. all[k] = Seen64(x, y, z, r, q)
      BY <2>4 DEF k
    <3> QED BY <2>2, <2>3, <3>1 DEF Seen64
  <2>7. k \in 1 .. Len(all)
    <3> DEFINE len == Len(all)
    <3>1. len = 4096
      BY <1>2
    <3> HIDE DEF len
    <3>2. k \in 1 .. len
      BY <2>5, <3>1
    <3> QED BY <3>2 DEF len
  <2> QED BY <2>6, <2>7 DEF Visited
<1>4. 64 - 1 = 63 /\ 64 * 64 = 4096
  OBVIOUS
<1>5. Covers(all, 64, 64)
  <2>1. all \in Seq((0 .. 64 - 1) \X (0 .. 64 - 1)) /\ Len(all) = 64 * 64
    BY <1>2, <1>4
  <2>2. ASSUME NEW i \in 0 .. 64 - 1, NEW j \in 0 .. 64 - 1
        PROVE  Visited(all, i, j)
    <3>1. i \in 0 .. 63 /\ j \in 0 .. 63
      OBVIOUS
    <3> QED BY <1>3, <3>1
  <2> QED BY <2>1, <2>2 DEF Covers
<1> QED BY <1>5 DEF all

(* trans61x67 does.                                                        *)
LEMMA Covers61x67 == Covers(trans61x67, 67, 61)
<1> DEFINE all == trans61x67
<1>1. Visits61x67(all)
  BY Trans61x67Is
<1> HIDE DEF all
<1>2. all \in Seq((0 .. 66) \X (0 .. 60)) /\ Len(all) = 4087
  BY <1>1 DEF Visits61x67
<1>3. ASSUME NEW i \in 0 .. 66, NEW j \in 0 .. 60
      PROVE  Visited(all, i, j)
  <2>1. PICK x \in 0 .. 4, y \in 0 .. 3, r \in 0 .. 15, q \in 0 .. 15 :
          /\ i = 16 * x + r /\ j = 16 * y + q
          /\ x = 4 => r < 3
          /\ y = 3 => q < 13
    <3> DEFINE x == i \div 16
               r == i % 16
               y == j \div 16
               q == j % 16
    <3>1. /\ x \in 0 .. 4 /\ y \in 0 .. 3 /\ r \in 0 .. 15 /\ q \in 0 .. 15
          /\ i = 16 * x + r /\ j = 16 * y + q
          /\ x = 4 => r < 3
          /\ y = 3 => q < 13
      OBVIOUS
    <3> HIDE DEF x, r, y, q
    <3> QED BY <3>1
  <2>2. r \in 0 .. High(x) - 1 /\ q \in 0 .. Wide(y) - 1
    BY <2>1 DEF High, Wide
  <2> DEFINE k == Place61x67(x, y, r, q)
  <2>3. k \in 1 .. 4087
    <3>1. CASE y = 3
      <4>1. Wide(y) = 13
        BY <3>1 DEF Wide
      <4>2. CASE x = 4
        BY <2>1, <2>2, <3>1, <4>1, <4>2 DEF Place61x67, Done61x67, High
      <4>3. CASE x # 4
        <5>1. High(x) = 16 /\ x \in 0 .. 3 /\ q \in 0 .. 12
          BY <2>1, <3>1, <4>3 DEF High
        <5>2. k = 976 * x + 768 + 13 * r + q + 1
          BY <2>1, <3>1, <4>1, <5>1 DEF Place61x67, Done61x67
        <5> HIDE DEF k
        <5> QED BY <2>1, <5>1, <5>2
      <4> HIDE DEF k
      <4> QED BY <4>2, <4>3
    <3>2. CASE y # 3
      <4>1. Wide(y) = 16
        BY <3>2 DEF Wide
      <4>2. CASE x = 4
        BY <2>1, <2>2, <3>2, <4>1, <4>2 DEF Place61x67, Done61x67, High
      <4>3. CASE x # 4
        <5>1. High(x) = 16 /\ x \in 0 .. 3 /\ y \in 0 .. 2
          BY <2>1, <3>2, <4>3 DEF High
        <5>2. k = 976 * x + 256 * y + 16 * r + q + 1
          BY <2>1, <4>1, <5>1 DEF Place61x67, Done61x67
        <5> HIDE DEF k
        <5> QED BY <2>1, <5>1, <5>2
      <4> HIDE DEF k
      <4> QED BY <4>2, <4>3
    <3> HIDE DEF k
    <3> QED BY <3>1, <3>2
  <2> HIDE DEF k
  <2>4. all[k] = <<i, j>>
    <3>1. Order61x67(all)
      BY <1>1 DEF Visits61x67
    <3>2. all[Place61x67(x, y, r, q)] = Seen61x67(x, y, r, q)
      BY <2>1, <2>2, <3>1 DEF Order61x67
    <3>3. all[k] = Seen61x67(x, y, r, q)
      BY <3>2 DEF k
    <3> QED BY <2>1, <3>3 DEF Seen61x67
  <2>5. k \in 1 .. Len(all)
    <3> DEFINE len == Len(all)
    <3>1. len = 4087
      BY <1>2
    <3> HIDE DEF len
    <3>2. k \in 1 .. len
      BY <2>3, <3>1
    <3> QED BY <3>2 DEF len
  <2> QED BY <2>4, <2>5 DEF Visited
<1>4. 67 - 1 = 66 /\ 61 - 1 = 60 /\ 61 * 67 = 4087
  OBVIOUS
<1>5. Covers(all, 67, 61)
  <2>1. all \in Seq((0 .. 67 - 1) \X (0 .. 61 - 1)) /\ Len(all) = 61 * 67
    BY <1>2, <1>4
  <2>2. ASSUME NEW i \in 0 .. 67 - 1, NEW j \in 0 .. 61 - 1
        PROVE  Visited(all, i, j)
    <3>1. i \in 0 .. 66 /\ j \in 0 .. 60
      OBVIOUS
    <3> QED BY <1>3, <3>1
  <2> QED BY <2>1, <2>2 DEF Covers
<1> QED BY <1>5 DEF all

(* transpose_submit leaves other sizes alone.                              *)
LEMMA SubmitIs ==
  ASSUME size \in Sizes
  PROVE  /\ M \in 1 .. 256 /\ N \in 1 .. 256
         /\ Supported => Covers(transpose_submit, N, M)
         /\ ~ Supported => transpose_submit = <<>>
<1>1. M \in 1 .. 256 /\ N \in 1 .. 256
  BY SizesAssumption DEF M, N
<1>2. CASE Shape(32, 32)
  BY <1>1, <1>2, Covers32 DEF Shape, Supported, transpose_submit
<1>3. CASE Shape(64, 64)
  BY <1>1, <1>3, Covers64 DEF Shape, Supported, transpose_submit
<1>4. CASE Shape(61, 67)
  BY <1>1, <1>4, Covers61x67 DEF Shape, Supported, transpose_submit
<1>5. CASE ~ Supported
  BY <1>1, <1>5 DEF Shape, Supported, transpose_submit
<1> QED BY <1>1, <1>2, <1>3, <1>4, <1>5 DEF Supported

----------------------------------------------------------------------------
(* The run of tracegen.                                                    *)

Cell(e) == e[2] * N + e[1]

(* Each variable in its place, the routine of a supported size under way.  *)
Control ==
  /\ pc = "before" => n \in 0 .. 3
  /\ pc \in {"load", "store"} => Supported /\ n \in 1 .. M * N
  /\ pc \in {"after", "validate", "valid", "invalid"} => n = 0

(* The accesses so far.                                                    *)
Visits == IF Supported THEN M * N ELSE 0

Counted ==
  /\ pc = "before" => hits + misses = n
  /\ pc = "load" => hits + misses = 2 + 2 * n
  /\ pc = "store" => hits + misses = 3 + 2 * n
  /\ pc = "after" => hits + misses = 4 + 2 * Visits
  /\ pc \in {"validate", "valid", "invalid"} => hits + misses = 5 + 2 * Visits

(* The visits whose store is done.                                         *)
Stored == IF pc = "before" THEN 0
          ELSE IF pc \in {"load", "store"} THEN n - 1 ELSE Visits

Filled ==
  /\ Supported => \A k \in 1 .. Stored :
       B[Cell(transpose_submit[k])] = correctTrans[Cell(transpose_submit[k])]
  /\ ~ Supported => B[0] = Junk
  /\ pc = "valid" => Supported
  /\ pc = "invalid" => ~ Supported

(* The element of A that belongs in a cell, and the cell of an element.    *)
LEMMA CellIs ==
  ASSUME size \in Sizes, Supported, NEW e \in (0 .. N - 1) \X (0 .. M - 1)
  PROVE  /\ Cell(e) \in 0 .. M * N - 1
         /\ Element(e[1], e[2]) \in 0 .. M * N - 1
         /\ correctTrans[Cell(e)] = Element(e[1], e[2])
<1> DEFINE height == N
           width == M
           i == e[1]
           j == e[2]
<1>1. height \in {32, 64, 67} /\ width \in {32, 64, 61}
  BY DEF Supported, Shape
<1>2. i \in 0 .. height - 1 /\ j \in 0 .. width - 1
  OBVIOUS
<1> HIDE DEF height, width, i, j
<1>3. /\ j * height + i \in 0 .. width * height - 1
      /\ i * width + j \in 0 .. width * height - 1
      /\ (j * height + i) % height = i /\ (j * height + i) \div height = j
  <2>1. CASE height = 32
    <3>1. CASE width = 32
      BY <1>2, <2>1, <3>1
    <3>2. CASE width = 64
      BY <1>2, <2>1, <3>2
    <3>3. CASE width = 61
      BY <1>2, <2>1, <3>3
    <3> QED BY <1>1, <3>1, <3>2, <3>3
  <2>2. CASE height = 64
    <3>1. CASE width = 32
      BY <1>2, <2>2, <3>1
    <3>2. CASE width = 64
      BY <1>2, <2>2, <3>2
    <3>3. CASE width = 61
      BY <1>2, <2>2, <3>3
    <3> QED BY <1>1, <3>1, <3>2, <3>3
  <2>3. CASE height = 67
    <3>1. CASE width = 32
      BY <1>2, <2>3, <3>1
    <3>2. CASE width = 64
      BY <1>2, <2>3, <3>2
    <3>3. CASE width = 61
      BY <1>2, <2>3, <3>3
    <3> QED BY <1>1, <3>1, <3>2, <3>3
  <2> QED BY <1>1, <2>1, <2>2, <2>3
<1> DEFINE c == e[2] * N + e[1]
<1>4. /\ c \in 0 .. M * N - 1 /\ e[1] * M + e[2] \in 0 .. M * N - 1
      /\ c % N = e[1] /\ c \div N = e[2]
  <2>1. c = j * height + i /\ e[1] * M + e[2] = i * width + j
    BY DEF i, j, height, width
  <2>2. c % height = i /\ c \div height = j
    BY <1>3, <2>1
  <2>3. c \in 0 .. width * height - 1 /\ e[1] * M + e[2] \in 0 .. width * height - 1
    BY <1>3, <2>1
  <2> HIDE DEF c
  <2> QED BY <2>2, <2>3 DEF i, j, height, width
<1>5. Cell(e) = c
  BY DEF Cell
<1> HIDE DEF c
<1>6. correctTrans[c] = Element(c % N, c \div N)
  BY <1>4 DEF correctTrans
<1> QED BY <1>4, <1>5, <1>6 DEF Element

(* A supported routine: what it visits next.                               *)
LEMMA VisitIs ==
  ASSUME size \in Sizes, Supported, NEW k \in 1 .. M * N
  PROVE  /\ transpose_submit[k] \in (0 .. N - 1) \X (0 .. M - 1)
         /\ Len(transpose_submit) = M * N
<1>1. M \in Nat /\ N \in Nat
  BY SubmitIs
<1>2. Covers(transpose_submit, N, M)
  BY SubmitIs
<1> QED BY <1>1, <1>2 DEF Covers

(* No matrix is empty.                                                     *)
LEMMA Product ==
  ASSUME NEW a \in 1 .. 256, NEW b \in 1 .. 256
  PROVE  a * b \in Nat /\ a * b - 1 \in Int /\ 0 <= a * b - 1
<1>1. a * b \in Int /\ (a - 1) * b \in Int /\ a * b = (a - 1) * b + b
  OBVIOUS
<1>2. 0 <= (a - 1) * b
  OBVIOUS
<1> QED BY <1>1, <1>2

(* The sizes are numbers.                                                  *)
LEMMA SizeIs ==
  ASSUME size \in Sizes
  PROVE  M \in Nat /\ N \in Nat /\ M * N \in Nat /\ 0 <= M * N - 1
<1>1. M \in 1 .. 256 /\ N \in 1 .. 256
  BY SubmitIs
<1>2. M * N \in Nat /\ 0 <= M * N - 1
  BY <1>1, Product
<1> QED BY <1>1, <1>2

(* The initial state.                                                      *)
LEMMA InitOK == Init => TypeOK /\ Control /\ Counted /\ Filled
<1> SUFFICES ASSUME Init PROVE TypeOK /\ Control /\ Counted /\ Filled
  OBVIOUS
<1> USE DEF Init
<1>1. M \in 1 .. 256 /\ N \in 1 .. 256
  BY SubmitIs
<1>2. M * N \in Nat /\ M * N - 1 \in Int /\ 0 <= M * N - 1
  BY <1>1, Product
<1>3. B \in [0 .. M * N - 1 -> Junk .. M * N - 1]
  <2>1. Junk \in Junk .. M * N - 1
    <3> DEFINE last == M * N - 1
    <3> HIDE DEF last
    <3>1. last \in Int /\ 0 <= last
      BY <1>2 DEF last
    <3>2. Junk \in Junk .. last
      BY <3>1 DEF Junk
    <3> QED BY <3>2 DEF last
  <2> QED BY <2>1
<1>4. sets \in [0 .. 31 -> Cache!Set]
  <2> DEFINE empty == [lines     |-> [k \in {0} |-> [valid |-> FALSE, tag |-> 0]],
                       lru_queue |-> [k \in {0} |-> 0]]
  <2>1. empty \in Cache!Set
    BY GeometryIs DEF Cache!Set, Cache!Line
  <2>2. sets = [s \in 0 .. 31 |-> empty]
    OBVIOUS
  <2> HIDE DEF empty
  <2> QED BY <2>1, <2>2
<1>5. TypeOK
  BY <1>3, <1>4 DEF TypeOK
<1>6. Control
  BY DEF Control
<1>7. Counted
  BY DEF Counted
<1>8. Filled
  <2>1. Stored = 0
    BY DEF Stored
  <2>2. 0 \in 0 .. M * N - 1
    BY <1>2
  <2> QED BY <2>1, <2>2 DEF Filled
<1> QED BY <1>5, <1>6, <1>7, <1>8

(* What a step that does not touch the size leaves alone.                  *)
LEMMA SizeStays ==
  ASSUME size' = size
  PROVE  /\ M' = M /\ N' = N /\ Supported' = Supported /\ Visits' = Visits
         /\ transpose_submit' = transpose_submit /\ correctTrans' = correctTrans
         /\ \A e : Cell(e)' = Cell(e)
         /\ \A i, j : Element(i, j)' = Element(i, j)
<1>1. M' = M /\ N' = N
  BY DEF M, N
<1>2. Supported' = Supported
  BY <1>1 DEF Supported, Shape
<1>3. Visits' = Visits
  BY <1>1, <1>2 DEF Visits
<1>4. transpose_submit' = transpose_submit
  BY <1>1 DEF transpose_submit
<1>5. \A i, j : Element(i, j)' = Element(i, j)
  BY <1>1 DEF Element
<1>6. correctTrans' = correctTrans
  BY <1>1 DEF correctTrans, Element
<1>7. \A e : Cell(e)' = Cell(e)
  BY <1>1 DEF Cell
<1> QED BY <1>1, <1>2, <1>3, <1>4, <1>5, <1>6, <1>7

(* A reference to some block that leaves the matrices alone.               *)
Refers == /\ size' = size /\ at' = at
          /\ \E block \in Nat : Referenced(block)

(* The globals before the routine.                                         *)
LEMMA MarkIs ==
  ASSUME TypeOK, Control, Mark
  PROVE  /\ pc = "before" /\ n \in 0 .. 3 /\ Refers /\ B' = B
         /\ \/ n < 3 /\ pc' = "before" /\ n' = n + 1
            \/ n = 3 /\ ~ Supported /\ pc' = "after" /\ n' = 0
            \/ n = 3 /\ Supported /\ pc' = "load" /\ n' = 1
<1>1. pc = "before" /\ n \in 0 .. 3
  BY DEF Control, Mark
<1>2. Len(Before) = 4 /\ \A k \in 0 .. 3 : Before[k + 1] \in Globals
  BY DEF Before, Globals
<1>3. size' = size /\ at' = at /\ B' = B /\ Cache!ref_mem(at[Before[n + 1]])
  BY DEF Mark, Touch
<1>4. at[Before[n + 1]] \in Nat
  BY <1>1, <1>2, LayoutsAssumption DEF TypeOK
<1>5. Referenced(at[Before[n + 1]] \div 32)
  BY <1>3, <1>4, ReferenceIs DEF TypeOK, Sound
<1>6. Refers
  <2>1. at[Before[n + 1]] \div 32 \in Nat
    BY <1>4
  <2> QED BY <1>3, <1>5, <2>1 DEF Refers
<1>7. transpose_submit = <<>> <=> ~ Supported
  <2>1. ASSUME Supported PROVE transpose_submit # <<>>
    <3>1. Len(transpose_submit) = M * N /\ M \in 1 .. 256 /\ N \in 1 .. 256
      BY <2>1, SubmitIs DEF TypeOK, Covers
    <3>2. 0 <= M * N - 1 /\ M * N \in Nat
      BY <3>1, Product
    <3>3. Len(transpose_submit) # 0
      BY <3>1, <3>2
    <3> QED BY <3>3
  <2> QED BY <2>1, SubmitIs DEF TypeOK
<1>8. CASE n + 1 < 4
  <2>1. pc' = "before" /\ n' = n + 1
    BY <1>2, <1>8 DEF Mark, Goto
  <2> QED BY <1>1, <1>3, <1>6, <1>8, <2>1
<1>9. CASE ~ (n + 1 < 4)
  <2>1. n = 3
    BY <1>1, <1>9
  <2>2. IF transpose_submit = <<>> THEN Goto("after", 0) ELSE Goto("load", 1)
    BY <1>2, <1>9 DEF Mark
  <2> QED BY <1>1, <1>3, <1>6, <1>7, <2>1, <2>2 DEF Goto
<1> QED BY <1>8, <1>9

(* The element of A that has its turn, and its place in B.                 *)
Source == (at["A"] + 4 * Element(transpose_submit[n][1], transpose_submit[n][2])) \div 32
Target == (at["B"] + 4 * Cell(transpose_submit[n])) \div 32

(* One load.                                                               *)
LEMMA LoadIs ==
  ASSUME TypeOK, Control, Load
  PROVE  /\ pc = "load" /\ Supported /\ n \in 1 .. M * N
         /\ size' = size /\ at' = at /\ B' = B
         /\ Source \in Nat /\ Referenced(Source)
         /\ pc' = "store" /\ n' = n
<1>1. pc = "load" /\ Supported /\ n \in 1 .. M * N
  BY DEF Control, Load
<1> DEFINE e == transpose_submit[n]
           address == at["A"] + 4 * Element(e[1], e[2])
<1>2. e \in (0 .. N - 1) \X (0 .. M - 1)
  BY <1>1, VisitIs DEF TypeOK
<1>3. Element(e[1], e[2]) \in Nat
  <2>1. Element(e[1], e[2]) \in 0 .. M * N - 1
    BY <1>1, <1>2, CellIs DEF TypeOK
  <2> QED BY <2>1
<1>4. address \in Nat
  <2>1. at["A"] \in Nat
    BY LayoutsAssumption DEF TypeOK, Globals
  <2> QED BY <1>3, <2>1
<1>5. Cache!ref_mem(address)
  BY DEF Load
<1>6. Referenced(address \div 32)
  <2> HIDE DEF address
  <2> QED BY <1>4, <1>5, ReferenceIs DEF TypeOK, Sound
<1>7. address \div 32 = Source
  BY DEF Source
<1>8. address \div 32 \in Nat
  <2> HIDE DEF address
  <2> QED BY <1>4
<1>9. size' = size /\ at' = at /\ B' = B /\ pc' = "store" /\ n' = n
  BY DEF Load, Goto
<1> HIDE DEF address
<1> QED BY <1>1, <1>6, <1>7, <1>8, <1>9

(* One store.                                                              *)
LEMMA StoreIs ==
  ASSUME TypeOK, Control, Store
  PROVE  /\ pc = "store" /\ Supported /\ n \in 1 .. M * N
         /\ size' = size /\ at' = at
         /\ Cell(transpose_submit[n]) \in 0 .. M * N - 1
         /\ B' = [B EXCEPT ![Cell(transpose_submit[n])] =
                             correctTrans[Cell(transpose_submit[n])]]
         /\ Target \in Nat /\ Referenced(Target)
         /\ \/ n < M * N /\ pc' = "load" /\ n' = n + 1
            \/ n = M * N /\ pc' = "after" /\ n' = 0
<1>1. pc = "store" /\ Supported /\ n \in 1 .. M * N
  BY DEF Control, Store
<1> DEFINE e == transpose_submit[n]
           address == at["B"] + 4 * (e[2] * N + e[1])
<1>2. e \in (0 .. N - 1) \X (0 .. M - 1) /\ Len(transpose_submit) = M * N
  BY <1>1, VisitIs DEF TypeOK
<1>3. /\ Cell(e) \in 0 .. M * N - 1
      /\ correctTrans[Cell(e)] = Element(e[1], e[2])
  BY <1>1, <1>2, CellIs DEF TypeOK
<1>4. Cell(e) = e[2] * N + e[1]
  BY DEF Cell
<1>5. address \in Nat
  <2>1. at["B"] \in Nat
    BY LayoutsAssumption DEF TypeOK, Globals
  <2>2. Cell(e) \in Nat
    BY <1>3
  <2>3. e[2] * N + e[1] \in Nat
    BY <1>4, <2>2
  <2> QED BY <2>1, <2>3
<1>6. /\ Cache!ref_mem(address)
      /\ B' = [B EXCEPT ![e[2] * N + e[1]] = Element(e[1], e[2])]
  BY DEF Store
<1>7. B' = [B EXCEPT ![Cell(e)] = correctTrans[Cell(e)]]
  BY <1>3, <1>4, <1>6
<1>8. Referenced(address \div 32)
  <2> HIDE DEF address
  <2> QED BY <1>5, <1>6, ReferenceIs DEF TypeOK, Sound
<1>9. address \div 32 = Target
  BY <1>4 DEF Target
<1>10. address \div 32 \in Nat
  <2> HIDE DEF address
  <2> QED BY <1>5
<1>11. size' = size /\ at' = at
  BY DEF Store
<1>12. \/ n < M * N /\ pc' = "load" /\ n' = n + 1
       \/ n = M * N /\ pc' = "after" /\ n' = 0
  <2>1. IF n < M * N THEN Goto("load", n + 1) ELSE Goto("after", 0)
    BY <1>2 DEF Store
  <2>2. ~ (n < M * N) => n = M * N
    <3> DEFINE total == M * N
    <3>1. total \in Int /\ n \in 1 .. total
      BY <1>1, SizeIs DEF TypeOK
    <3> HIDE DEF total
    <3>2. ~ (n < total) => n = total
      BY <3>1
    <3> QED BY <3>2 DEF total
  <2> QED BY <2>1, <2>2 DEF Goto
<1> HIDE DEF address
<1> QED BY <1>1, <1>3, <1>7, <1>8, <1>9, <1>10, <1>11, <1>12

(* The global after it.                                                    *)
LEMMA MarkEndIs ==
  ASSUME TypeOK, Control, MarkEnd
  PROVE  /\ pc = "after" /\ Refers /\ B' = B
         /\ pc' = "validate" /\ n' = 0
<1>1. pc = "after" /\ n = 0
  BY DEF Control, MarkEnd
<1>2. After[n + 1] = "MARKER_END"
  BY <1>1 DEF After
<1>3. size' = size /\ at' = at /\ B' = B /\ Cache!ref_mem(at["MARKER_END"])
  BY <1>2 DEF MarkEnd, Touch
<1>4. at["MARKER_END"] \in Nat
  BY LayoutsAssumption DEF TypeOK, Globals
<1>5. Referenced(at["MARKER_END"] \div 32)
  BY <1>3, <1>4, ReferenceIs DEF TypeOK, Sound
<1>6. Refers
  <2>1. at["MARKER_END"] \div 32 \in Nat
    BY <1>4
  <2> QED BY <1>3, <1>5, <2>1 DEF Refers
<1> QED BY <1>1, <1>3, <1>6 DEF MarkEnd, Goto

(* What a filled matrix says.                                              *)
LEMMA FilledIs ==
  ASSUME TypeOK, Filled, pc \in {"validate", "valid", "invalid"}
  PROVE  /\ validate <=> Supported
         /\ is_transpose <=> Supported
<1>1. M \in 1 .. 256 /\ N \in 1 .. 256
  BY SubmitIs DEF TypeOK
<1>2. M * N \in Nat /\ 0 <= M * N - 1
  BY <1>1, Product
<1>3. CASE Supported
  <2>1. Stored = M * N
    BY <1>3 DEF Stored, Visits
  <2>2. ASSUME NEW i \in 0 .. N - 1, NEW j \in 0 .. M - 1
        PROVE  /\ j * N + i \in 0 .. M * N - 1
               /\ B[j * N + i] = correctTrans[j * N + i]
               /\ B[j * N + i] = Element(i, j)
    <3>1. Visited(transpose_submit, i, j) /\ Len(transpose_submit) = M * N
      BY <1>1, <1>3, SubmitIs DEF Covers, TypeOK
    <3>2. PICK k \in 1 .. M * N : transpose_submit[k] = <<i, j>>
      BY <3>1 DEF Visited
    <3>3. B[Cell(<<i, j>>)] = correctTrans[Cell(<<i, j>>)]
      BY <1>3, <2>1, <3>2 DEF Filled
    <3>4. <<i, j>> \in (0 .. N - 1) \X (0 .. M - 1)
      OBVIOUS
    <3>5. /\ Cell(<<i, j>>) \in 0 .. M * N - 1
          /\ correctTrans[Cell(<<i, j>>)] = Element(<<i, j>>[1], <<i, j>>[2])
      BY <1>3, <3>4, CellIs DEF TypeOK
    <3>6. Cell(<<i, j>>) = j * N + i
      BY DEF Cell
    <3> QED BY <3>3, <3>5, <3>6
  <2>3. ASSUME NEW p \in 0 .. M * N - 1 PROVE B[p] = correctTrans[p]
    <3>1. PICK i \in 0 .. N - 1, j \in 0 .. M - 1 : p = j * N + i
      <4> DEFINE height == N
                 width == M
      <4>1. height \in {32, 64, 67} /\ width \in {32, 64, 61}
        BY <1>3 DEF Supported, Shape
      <4>2. p \in 0 .. width * height - 1
        OBVIOUS
      <4> HIDE DEF height, width
      <4>3. /\ p % height \in 0 .. height - 1 /\ p \div height \in 0 .. width - 1
            /\ p = (p \div height) * height + (p % height)
        <5>1. CASE height = 32
          BY <4>1, <4>2, <5>1
        <5>2. CASE height = 64
          BY <4>1, <4>2, <5>2
        <5>3. CASE height = 67
          BY <4>1, <4>2, <5>3
        <5> QED BY <4>1, <5>1, <5>2, <5>3
      <4> QED BY <4>3 DEF height, width
    <3> QED BY <2>2, <3>1
  <2>4. DOMAIN B = 0 .. M * N - 1
    BY DEF TypeOK
  <2>5. validate
    <3>1. B = [p \in 0 .. M * N - 1 |-> B[p]]
      BY DEF TypeOK
    <3>2. correctTrans = [p \in 0 .. M * N - 1 |-> correctTrans[p]]
      BY DEF correctTrans
    <3> QED BY <2>3, <3>1, <3>2 DEF validate
  <2>6. is_transpose
    BY <2>2 DEF is_transpose
  <2> QED BY <1>3, <2>5, <2>6
<1>4. CASE ~ Supported
  <2>1. B[0] = Junk
    BY <1>4 DEF Filled
  <2>2. 0 \in 0 .. N - 1 /\ 0 \in 0 .. M - 1 /\ 0 \in 0 .. M * N - 1
    BY <1>1, <1>2
  <2>3. Element(0, 0) = 0 /\ 0 * N + 0 = 0 /\ 0 % N = 0 /\ 0 \div N = 0
    BY <1>1 DEF Element
  <2>4. correctTrans[0] = 0
    BY <2>2, <2>3 DEF correctTrans
  <2>5. Junk # 0
    BY DEF Junk
  <2>6. ~ validate
    BY <2>1, <2>4, <2>5 DEF validate
  <2>7. ~ is_transpose
    BY <2>1, <2>2, <2>3, <2>5 DEF is_transpose
  <2> QED BY <1>4, <2>6, <2>7
<1> QED BY <1>3, <1>4

(* The inductive invariant of the results.                                 *)
Inv == TypeOK /\ Control /\ Counted /\ Filled

(* A reference keeps the types of what the cache counts.                   *)
LEMMA TypeKept ==
  ASSUME TypeOK, size' = size, at' = at, NEW block \in Nat, Referenced(block),
         pc' \in {"before", "load", "store", "after", "validate", "valid", "invalid"},
         n' \in Nat, B' \in [0 .. M * N - 1 -> Junk .. M * N - 1]
  PROVE  TypeOK'
<1>1. M' = M /\ N' = N
  BY SizeStays
<1>2. sets' \in [0 .. 31 -> Cache!Set]
  BY DEF Referenced, Sound
<1>3. hits' \in Nat /\ misses' \in Nat /\ evictions' \in Nat
  BY DEF Referenced
<1> QED BY <1>1, <1>2, <1>3 DEF TypeOK, Junk

(* Every step keeps the invariant.                                         *)
LEMMA InvKept == Inv /\ [Next]_vars => Inv'
<1> SUFFICES ASSUME Inv, [Next]_vars PROVE Inv'
  OBVIOUS
<1> USE DEF Inv
<1>1. CASE Mark
  <2>1. /\ pc = "before" /\ n \in 0 .. 3 /\ Refers /\ B' = B
        /\ \/ n < 3 /\ pc' = "before" /\ n' = n + 1
           \/ n = 3 /\ ~ Supported /\ pc' = "after" /\ n' = 0
           \/ n = 3 /\ Supported /\ pc' = "load" /\ n' = 1
    BY <1>1, MarkIs
  <2>2. PICK block \in Nat : Referenced(block)
    BY <2>1 DEF Refers
  <2>3. size' = size /\ at' = at
    BY <2>1 DEF Refers
  <2>4. TypeOK'
    <3>1. pc' \in {"before", "load", "store", "after", "validate", "valid", "invalid"}
          /\ n' \in Nat /\ B' \in [0 .. M * N - 1 -> Junk .. M * N - 1]
      <4>1. n' \in Nat
        BY <2>1
      <4> QED BY <2>1, <4>1 DEF TypeOK
    <3> QED BY <2>2, <2>3, <3>1, TypeKept
  <2>5. /\ M' = M /\ N' = N /\ Supported' = Supported /\ Visits' = Visits
        /\ transpose_submit' = transpose_submit /\ correctTrans' = correctTrans
        /\ \A e : Cell(e)' = Cell(e)
    BY <2>3, SizeStays
  <2>6. 1 \in 1 .. M * N
    <3>1. M \in 1 .. 256 /\ N \in 1 .. 256
      BY SubmitIs DEF TypeOK
    <3> DEFINE total == M * N
    <3>2. total \in Nat /\ 0 <= total - 1
      BY <3>1, Product
    <3> HIDE DEF total
    <3>3. 1 \in 1 .. total
      BY <3>2
    <3> QED BY <3>3 DEF total
  <2>7. Control'
    BY <2>1, <2>5, <2>6 DEF Control
  <2>8. Counted'
    <3>1. hits + misses = n /\ hits' + misses' = hits + misses + 1
      BY <2>1, <2>2 DEF Counted, Referenced
    <3>2. hits' + misses' = n + 1
      BY <3>1
    <3>3. ~ Supported => Visits = 0
      BY DEF Visits
    <3> QED BY <2>1, <2>5, <3>2, <3>3 DEF Counted
  <2>9. Filled'
    <3>1. pc' # "valid" /\ pc' # "invalid" /\ (~ Supported => B[0] = Junk)
      BY <2>1 DEF Filled
    <3>2. Supported => Stored' = 0
      BY <2>1 DEF Stored
    <3> QED BY <2>1, <2>5, <3>1, <3>2 DEF Filled
  <2> QED BY <2>4, <2>7, <2>8, <2>9
<1>2. CASE Load
  <2>1. /\ pc = "load" /\ Supported /\ n \in 1 .. M * N
        /\ size' = size /\ at' = at /\ B' = B
        /\ Source \in Nat /\ Referenced(Source)
        /\ pc' = "store" /\ n' = n
    BY <1>2, LoadIs
  <2>2. TypeOK'
    <3>1. pc' \in {"before", "load", "store", "after", "validate", "valid", "invalid"}
          /\ n' \in Nat /\ B' \in [0 .. M * N - 1 -> Junk .. M * N - 1]
      BY <2>1 DEF TypeOK
    <3> QED BY <2>1, <3>1, TypeKept
  <2>3. /\ M' = M /\ N' = N /\ Supported' = Supported /\ Visits' = Visits
        /\ transpose_submit' = transpose_submit /\ correctTrans' = correctTrans
        /\ \A e : Cell(e)' = Cell(e)
    BY <2>1, SizeStays
  <2>4. Control'
    BY <2>1, <2>3 DEF Control
  <2>5. Counted'
    <3>1. hits + misses = 2 + 2 * n /\ hits' + misses' = hits + misses + 1 /\ n \in Nat
      BY <2>1 DEF Counted, Referenced, TypeOK
    <3>2. hits' + misses' = 3 + 2 * n
      BY <3>1
    <3> QED BY <2>1, <3>2 DEF Counted
  <2>6. Filled'
    <3>1. Stored = n - 1 /\ Stored' = n - 1
      BY <2>1 DEF Stored
    <3> QED BY <2>1, <2>3, <3>1 DEF Filled
  <2> QED BY <2>2, <2>4, <2>5, <2>6
<1>3. CASE Store
  <2> DEFINE cell == Cell(transpose_submit[n])
             total == M * N
  <2>1. /\ pc = "store" /\ Supported /\ n \in 1 .. total
        /\ size' = size /\ at' = at /\ cell \in 0 .. total - 1
        /\ B' = [B EXCEPT ![cell] = correctTrans[cell]]
        /\ Target \in Nat /\ Referenced(Target)
        /\ \/ n < total /\ pc' = "load" /\ n' = n + 1
           \/ n = total /\ pc' = "after" /\ n' = 0
    BY <1>3, StoreIs
  <2>2. total \in Nat /\ B \in [0 .. total - 1 -> Junk .. total - 1]
    <3>1. total \in Nat
      BY SizeIs DEF TypeOK
    <3>2. B \in [0 .. total - 1 -> Junk .. total - 1]
      BY DEF TypeOK
    <3> QED BY <3>1, <3>2
  <2>3. correctTrans[cell] \in Junk .. total - 1
    <3> DEFINE e == transpose_submit[n]
    <3>1. e \in (0 .. N - 1) \X (0 .. M - 1)
      BY <2>1, VisitIs DEF TypeOK
    <3>2. correctTrans[Cell(e)] = Element(e[1], e[2]) /\ Element(e[1], e[2]) \in 0 .. M * N - 1
      BY <2>1, <3>1, CellIs DEF TypeOK
    <3>3. correctTrans[cell] \in 0 .. total - 1
      BY <3>2
    <3> HIDE DEF cell, total
    <3> QED BY <2>2, <3>3 DEF Junk
  <2> HIDE DEF cell, total
  <2>4. /\ B' \in [0 .. total - 1 -> Junk .. total - 1]
        /\ B'[cell] = correctTrans[cell]
        /\ \A p \in 0 .. total - 1 : p # cell => B'[p] = B[p]
    BY <2>1, <2>2, <2>3
  <2>5. TypeOK'
    <3>1. pc' \in {"before", "load", "store", "after", "validate", "valid", "invalid"}
          /\ n' \in Nat
      BY <2>1, <2>2
    <3>2. B' \in [0 .. M * N - 1 -> Junk .. M * N - 1]
      BY <2>4 DEF total
    <3> QED BY <2>1, <3>1, <3>2, TypeKept
  <2>6. /\ M' = M /\ N' = N /\ Supported' = Supported /\ Visits' = Visits
        /\ transpose_submit' = transpose_submit /\ correctTrans' = correctTrans
        /\ \A e : Cell(e)' = Cell(e)
    BY <2>1, SizeStays
  <2>7. Control'
    <3>1. pc' = "load" => n' \in 1 .. total
      BY <2>1, <2>2
    <3> QED BY <2>1, <2>6, <3>1 DEF Control, total
  <2>8. Counted'
    <3>1. hits + misses = 3 + 2 * n /\ hits' + misses' = hits + misses + 1 /\ n \in Nat
      BY <2>1 DEF Counted, Referenced, TypeOK
    <3>2. hits' + misses' = 4 + 2 * n /\ 2 + 2 * (n + 1) = 4 + 2 * n
      BY <3>1
    <3>3. Visits = total
      BY <2>1 DEF Visits, total
    <3> QED BY <2>1, <2>6, <3>2, <3>3 DEF Counted
  <2>9. Filled'
    <3>1. Stored = n - 1 /\ Stored' = n
      <4>1. Visits = total
        BY <2>1 DEF Visits, total
      <4>2. n + 1 - 1 = n
        BY <2>1, <2>2
      <4> QED BY <2>1, <2>6, <4>1, <4>2 DEF Stored
    <3>2. ASSUME NEW k \in 1 .. n
          PROVE  B'[Cell(transpose_submit[k])] = correctTrans[Cell(transpose_submit[k])]
      <4>1. CASE Cell(transpose_submit[k]) = cell
        BY <2>4, <4>1
      <4>2. CASE Cell(transpose_submit[k]) # cell
        <5>1. k \in 1 .. n - 1
          BY <2>1, <2>2, <4>2 DEF cell
        <5>2. k \in 1 .. M * N
          BY <2>1, <2>2, <5>1 DEF total
        <5>3. Cell(transpose_submit[k]) \in 0 .. total - 1
          BY <2>1, <5>2, VisitIs, CellIs DEF TypeOK, total
        <5>4. B[Cell(transpose_submit[k])] = correctTrans[Cell(transpose_submit[k])]
          BY <2>1, <3>1, <5>1 DEF Filled
        <5> QED BY <2>4, <4>2, <5>3, <5>4
      <4> QED BY <4>1, <4>2
    <3> QED BY <2>1, <2>6, <3>1, <3>2 DEF Filled
  <2> QED BY <2>5, <2>7, <2>8, <2>9
<1>4. CASE MarkEnd
  <2>1. /\ pc = "after" /\ Refers /\ B' = B /\ pc' = "validate" /\ n' = 0
    BY <1>4, MarkEndIs
  <2>2. PICK block \in Nat : Referenced(block)
    BY <2>1 DEF Refers
  <2>3. size' = size /\ at' = at
    BY <2>1 DEF Refers
  <2>4. TypeOK'
    <3>1. pc' \in {"before", "load", "store", "after", "validate", "valid", "invalid"}
          /\ n' \in Nat /\ B' \in [0 .. M * N - 1 -> Junk .. M * N - 1]
      BY <2>1 DEF TypeOK
    <3> QED BY <2>2, <2>3, <3>1, TypeKept
  <2>5. /\ M' = M /\ N' = N /\ Supported' = Supported /\ Visits' = Visits
        /\ transpose_submit' = transpose_submit /\ correctTrans' = correctTrans
        /\ \A e : Cell(e)' = Cell(e)
    BY <2>3, SizeStays
  <2>6. Control'
    BY <2>1 DEF Control
  <2>7. Counted'
    <3>1. /\ hits + misses = 4 + 2 * Visits /\ hits' + misses' = hits + misses + 1
          /\ Visits \in Int
      <4>1. M \in Nat /\ N \in Nat
        BY SizeIs DEF TypeOK
      <4> QED BY <2>1, <2>2, <4>1 DEF Counted, Referenced, Visits
    <3>2. hits' + misses' = 5 + 2 * Visits
      BY <3>1
    <3> QED BY <2>1, <2>5, <3>2 DEF Counted
  <2>8. Filled'
    <3>1. Stored' = Stored
      BY <2>1, <2>5 DEF Stored
    <3> QED BY <2>1, <2>5, <3>1 DEF Filled
  <2> QED BY <2>4, <2>6, <2>7, <2>8
<1>5. CASE Validate
  <2>1. /\ pc = "validate" /\ n' = 0 /\ size' = size /\ at' = at /\ B' = B
        /\ sets' = sets /\ hits' = hits /\ misses' = misses /\ evictions' = evictions
        /\ pc' = IF validate THEN "valid" ELSE "invalid"
    BY <1>5 DEF Validate, Goto
  <2>2. validate <=> Supported
    BY <2>1, FilledIs
  <2>3. /\ M' = M /\ N' = N /\ Supported' = Supported /\ Visits' = Visits
        /\ transpose_submit' = transpose_submit /\ correctTrans' = correctTrans
        /\ \A e : Cell(e)' = Cell(e)
    BY <2>1, SizeStays
  <2>4. TypeOK'
    BY <2>1, <2>3 DEF TypeOK, Junk
  <2>5. Control'
    BY <2>1 DEF Control
  <2>6. Counted'
    BY <2>1, <2>3 DEF Counted
  <2>7. Filled'
    <3>1. Stored' = Stored
      BY <2>1, <2>3 DEF Stored
    <3> QED BY <2>1, <2>2, <2>3, <3>1 DEF Filled
  <2> QED BY <2>4, <2>5, <2>6, <2>7
<1>6. CASE UNCHANGED vars
  <2>1. /\ pc' = pc /\ n' = n /\ size' = size /\ at' = at /\ B' = B
        /\ sets' = sets /\ hits' = hits /\ misses' = misses /\ evictions' = evictions
    BY <1>6 DEF vars
  <2>2. /\ M' = M /\ N' = N /\ Supported' = Supported /\ Visits' = Visits
        /\ transpose_submit' = transpose_submit /\ correctTrans' = correctTrans
        /\ \A e : Cell(e)' = Cell(e)
    BY <2>1, SizeStays
  <2>3. TypeOK' /\ Control' /\ Counted'
    BY <2>1, <2>2 DEF TypeOK, Control, Counted, Junk
  <2>4. Filled'
    <3>1. Stored' = Stored
      BY <2>1, <2>2 DEF Stored
    <3> QED BY <2>1, <2>2, <3>1 DEF Filled
  <2> QED BY <2>3, <2>4
<1>7. CASE Ended
  BY <1>6, <1>7 DEF Ended
<1> QED BY <1>1, <1>2, <1>3, <1>4, <1>5, <1>6, <1>7 DEF Next

(* The invariant holds.                                                    *)
LEMMA InvHolds == Spec => []Inv
<1>1. Init => Inv
  BY InitOK DEF Inv
<1> QED BY <1>1, InvKept, PTL DEF Spec

(* The variables have their types, whatever the sizes and the layout.      *)
THEOREM TypeCorrect == Spec => []TypeOK
<1>1. Inv => TypeOK
  BY DEF Inv
<1> QED BY <1>1, InvHolds, PTL

(* tracegen accepts the result of the three sizes and of no other, and the *)
(* student's check says the same.                                          *)
THEOREM ResultsValid == Spec => []ValidForSupported
<1>1. Inv => ValidForSupported
  <2> SUFFICES ASSUME Inv, Finished
               PROVE  (pc = "valid" <=> Supported) /\ (is_transpose <=> Supported)
    BY DEF ValidForSupported
  <2>1. pc \in {"valid", "invalid"}
    BY DEF Finished
  <2>2. is_transpose <=> Supported
    BY <2>1, FilledIs DEF Inv
  <2>3. pc = "valid" <=> Supported
    BY <2>1 DEF Inv, Filled
  <2> QED BY <2>2, <2>3
<1> QED BY <1>1, InvHolds, PTL

(* The trace has a load and a store of each element and the five globals.  *)
THEOREM ElementsOnce == Spec => []EachElementOnce
<1>1. Inv => EachElementOnce
  <2> SUFFICES ASSUME Inv, Finished, Supported
               PROVE  hits + misses = Len(Before) + Len(After) + 2 * M * N
    BY DEF EachElementOnce
  <2>1. hits + misses = 5 + 2 * (M * N)
    BY DEF Inv, Counted, Finished, Visits
  <2>2. Len(Before) = 4 /\ Len(After) = 1
    BY DEF Before, After
  <2>3. 2 * M * N = 2 * (M * N)
    <3>1. M \in Nat /\ N \in Nat
      BY SizeIs DEF Inv, TypeOK
    <3> QED BY <3>1
  <2> QED BY <2>1, <2>2, <2>3
<1> QED BY <1>1, InvHolds, PTL

----------------------------------------------------------------------------
(* The misses of trans32.                                                  *)

(* The linker aligns A to a block of the cache, and B, which has the size  *)
(* of A, is a multiple of the cache away from it.                          *)
Alpha == at["A"] \div 32
Beta  == at["B"] \div 32

(* The block that holds the elements of A in row r of the block x, y, and  *)
(* that of their places in row c of B.                                     *)
ABlock32(x, y, r) == Alpha + 32 * x + 4 * r + y
BBlock32(x, y, c) == Beta + 32 * y + 4 * c + x

(* At visit q of row r, with l of its two accesses done: row c of B is in  *)
(* the cache.  In a block on the diagonal, row r of B is not while row r   *)
(* of A is.                                                                *)
Kept32(x, y, r, q, l, c) ==
  IF r = 0 THEN IF x = y THEN c \in 1 .. q ELSE c < q
           ELSE x = y /\ q + l > 0 => c # r

(* The misses until then: four globals, sixteen in a block, seven more on  *)
(* the diagonal.                                                           *)
Base32(x, y) == 4 + 16 * (4 * x + y) + 7 * (IF y > x THEN x + 1 ELSE x)

Misses32(x, y, r, q, l) ==
  Base32(x, y) + (IF q + l > 0 THEN 1 ELSE 0)
               + (IF r = 0 THEN q ELSE IF x = y THEN 7 + 2 * r ELSE 8 + r)

Progress32(x, y, r, q, l) ==
  /\ misses <= Misses32(x, y, r, q, l)
  /\ q + l > 0 => In(sets, ABlock32(x, y, r))
  /\ \A c \in 0 .. 7 : Kept32(x, y, r, q, l, c) => In(sets, BBlock32(x, y, c))

(* The arrays in blocks.                                                   *)
LEMMA AlignedIs ==
  ASSUME TypeOK, Aligned
  PROVE  /\ Alpha \in Nat /\ Beta \in Nat
         /\ at["A"] = 32 * Alpha /\ at["B"] = 32 * Beta
         /\ Alpha % 32 = Beta % 32
<1>1. at["A"] \in Nat /\ at["B"] \in Nat
  BY LayoutsAssumption DEF TypeOK, Globals
<1> DEFINE a == at["A"]
           b == at["B"]
<1>2. a % 32 = 0 /\ (b - a) % 1024 = 0
  BY DEF Aligned
<1> HIDE DEF a, b
<1>3. a \in Nat /\ b \in Nat
  BY <1>1 DEF a, b
<1>4. /\ a \div 32 \in Nat /\ b \div 32 \in Nat
      /\ a = 32 * (a \div 32) /\ b = 32 * (b \div 32)
      /\ (a \div 32) % 32 = (b \div 32) % 32
  BY <1>2, <1>3
<1> QED BY <1>4 DEF Alpha, Beta, a, b

(* The set of a block that is u blocks and 32 * i blocks after a.          *)
SetOf(a, i, u) == (a + 32 * i + u) % 32

(* Two blocks share a set of the cache only if they are 32 blocks apart.   *)
LEMMA SetsApart ==
  ASSUME NEW a \in Nat, NEW b \in Nat, a % 32 = b % 32,
         NEW i \in Nat, NEW j \in Nat, NEW u \in 0 .. 31, NEW v \in 0 .. 31, u # v
  PROVE  SetOf(a, i, u) # SetOf(b, j, v)
BY DEF SetOf

(* Which of the blocks of trans32 do.                                      *)
LEMMA Apart32 ==
  ASSUME TypeOK, Aligned, NEW x \in 0 .. 3, NEW y \in 0 .. 3, NEW r \in 0 .. 7,
         NEW c \in 0 .. 7
  PROVE  /\ ABlock32(x, y, r) \in Nat /\ BBlock32(x, y, c) \in Nat
         /\ x # y \/ c # r => BBlock32(x, y, c) % 32 # ABlock32(x, y, r) % 32
         /\ \A d \in 0 .. 7 : d # c => BBlock32(x, y, c) % 32 # BBlock32(x, y, d) % 32
<1>1. Alpha \in Nat /\ Beta \in Nat /\ Beta % 32 = Alpha % 32
  BY AlignedIs
<1>2. /\ ABlock32(x, y, r) = Alpha + 32 * x + (4 * r + y)
      /\ BBlock32(x, y, c) = Beta + 32 * y + (4 * c + x)
  BY <1>1 DEF ABlock32, BBlock32
<1>3. /\ 4 * r + y \in 0 .. 31 /\ 4 * c + x \in 0 .. 31
      /\ x # y \/ c # r => 4 * c + x # 4 * r + y
  OBVIOUS
<1>4. x # y \/ c # r => BBlock32(x, y, c) % 32 # ABlock32(x, y, r) % 32
  <2> DEFINE u == 4 * c + x
             v == 4 * r + y
  <2>1. SUFFICES ASSUME x # y \/ c # r
                 PROVE  BBlock32(x, y, c) % 32 # ABlock32(x, y, r) % 32
    OBVIOUS
  <2>2. u \in 0 .. 31 /\ v \in 0 .. 31 /\ u # v /\ x \in Nat /\ y \in Nat
    BY <1>3, <2>1
  <2> HIDE DEF u, v
  <2>3. SetOf(Beta, y, u) # SetOf(Alpha, x, v)
    BY <1>1, <2>2, SetsApart
  <2> QED BY <1>2, <2>3 DEF u, v, SetOf
<1>5. ASSUME NEW d \in 0 .. 7, d # c
      PROVE  BBlock32(x, y, c) % 32 # BBlock32(x, y, d) % 32
  <2>1. BBlock32(x, y, d) = Beta + 32 * y + (4 * d + x)
    BY <1>1 DEF BBlock32
  <2>2. 4 * d + x \in 0 .. 31 /\ 4 * c + x # 4 * d + x
    BY <1>5
  <2> DEFINE u == 4 * c + x
             v == 4 * d + x
  <2>3. u \in 0 .. 31 /\ v \in 0 .. 31 /\ u # v /\ y \in Nat
    BY <1>3, <2>2
  <2> HIDE DEF u, v
  <2>4. SetOf(Beta, y, u) # SetOf(Beta, y, v)
    BY <1>1, <2>3, SetsApart
  <2> QED BY <1>2, <2>1, <2>4 DEF u, v, SetOf
<1>6. ABlock32(x, y, r) \in Nat /\ BBlock32(x, y, c) \in Nat
  BY <1>1, <1>2
<1> QED BY <1>4, <1>5, <1>6

(* The load of a visit.                                                    *)
LEMMA Load32Kept ==
  ASSUME TypeOK, Aligned, at' = at,
         NEW x \in 0 .. 3, NEW y \in 0 .. 3, NEW r \in 0 .. 7, NEW q \in 0 .. 7,
         Progress32(x, y, r, q, 0), Referenced(ABlock32(x, y, r))
  PROVE  Progress32(x, y, r, q, 1)'
<1>1. ABlock32(x, y, r)' = ABlock32(x, y, r)
      /\ \A c : BBlock32(x, y, c)' = BBlock32(x, y, c)
  BY DEF ABlock32, BBlock32, Alpha, Beta
<1>2. misses \in Nat /\ misses' \in Nat
  BY DEF TypeOK, Referenced
<1>3. misses' <= Misses32(x, y, r, q, 1)
  <2>1. CASE q = 0
    <3>1. misses' <= misses + 1 /\ misses <= Misses32(x, y, r, q, 0)
      BY <1>2 DEF Referenced, Progress32
    <3>2. Misses32(x, y, r, q, 1) = Misses32(x, y, r, q, 0) + 1
          /\ Misses32(x, y, r, q, 0) \in Int
      BY <2>1 DEF Misses32, Base32
    <3> QED BY <1>2, <3>1, <3>2
  <2>2. CASE q # 0
    <3>1. q + 0 > 0 /\ q + 1 > 0
      BY <2>2
    <3>2. In(sets, ABlock32(x, y, r)) /\ misses <= Misses32(x, y, r, q, 0)
      BY <3>1 DEF Progress32
    <3>3. Misses32(x, y, r, q, 1) = Misses32(x, y, r, q, 0)
      BY <3>1 DEF Misses32
    <3> QED BY <3>2, <3>3 DEF Referenced
  <2> QED BY <2>1, <2>2
<1>4. In(sets', ABlock32(x, y, r))
  BY DEF Referenced
<1>5. ASSUME NEW c \in 0 .. 7, Kept32(x, y, r, q, 1, c)
      PROVE  In(sets', BBlock32(x, y, c))
  <2>1. Kept32(x, y, r, q, 0, c) /\ (x # y \/ c # r)
    BY <1>5 DEF Kept32
  <2>2. In(sets, BBlock32(x, y, c))
    BY <2>1 DEF Progress32
  <2>3. /\ BBlock32(x, y, c) \in Nat
        /\ BBlock32(x, y, c) % 32 # ABlock32(x, y, r) % 32
    BY <2>1, Apart32
  <2> QED BY <2>2, <2>3 DEF Referenced
<1>6. Kept32(x, y, r, q, 1, 0)' = Kept32(x, y, r, q, 1, 0)
  BY DEF Kept32
<1> QED BY <1>1, <1>3, <1>4, <1>5 DEF Progress32, Misses32, Base32, Kept32

(* The store of a visit: what it finds, and what it leaves.                *)
LEMMA Store32Kept ==
  ASSUME TypeOK, Aligned, at' = at,
         NEW x \in 0 .. 3, NEW y \in 0 .. 3, NEW r \in 0 .. 7, NEW q \in 0 .. 7,
         Progress32(x, y, r, q, 1), NEW t \in 0 .. 7, t = Turn32(x, y, r, q),
         Referenced(BBlock32(x, y, t))
  PROVE  /\ q < 7 => Progress32(x, y, r, q + 1, 0)'
         /\ q = 7 /\ r < 7 => Progress32(x, y, r + 1, 0, 0)'
         /\ q = 7 /\ r = 7 =>
              misses' <= Base32(x, y) + (IF x = y THEN 23 ELSE 16)
<1>1. /\ \A k : ABlock32(x, y, k)' = ABlock32(x, y, k)
      /\ \A c : BBlock32(x, y, c)' = BBlock32(x, y, c)
  BY DEF ABlock32, BBlock32, Alpha, Beta
<1>2. misses \in Nat /\ misses' \in Nat /\ misses' <= misses + 1
  <2>1. misses \in Nat /\ misses' \in Nat /\ (misses' = misses \/ misses' = misses + 1)
    BY DEF TypeOK, Referenced
  <2> QED BY <2>1
<1>3. In(sets', BBlock32(x, y, t))
  BY DEF Referenced
<1>4. misses <= Misses32(x, y, r, q, 1)
  BY DEF Progress32
<1>5. ASSUME NEW c \in 0 .. 7, c = t \/ Kept32(x, y, r, q, 1, c)
      PROVE  In(sets', BBlock32(x, y, c))
  <2>1. CASE c = t
    BY <1>3, <2>1
  <2>2. CASE c # t
    <3>1. In(sets, BBlock32(x, y, c))
      BY <1>5, <2>2 DEF Progress32
    <3>2. /\ BBlock32(x, y, c) \in Nat
          /\ BBlock32(x, y, c) % 32 # BBlock32(x, y, t) % 32
      BY <2>2, Apart32
    <3> QED BY <3>1, <3>2 DEF Referenced
  <2> QED BY <2>1, <2>2
<1>6. ASSUME r # 0, x # y \/ t # r
      PROVE  misses' = misses
  <2>1. Kept32(x, y, r, q, 1, t)
    BY <1>6 DEF Kept32
  <2>2. In(sets, BBlock32(x, y, t))
    BY <2>1 DEF Progress32
  <2> QED BY <2>2 DEF Referenced
<1>7. CASE q < 7
  <2>1. x # y \/ t # r
    BY <1>7 DEF Turn32, Turn
  <2>2. In(sets', ABlock32(x, y, r))
    <3>1. In(sets, ABlock32(x, y, r))
      BY DEF Progress32
    <3>2. /\ ABlock32(x, y, r) \in Nat
          /\ BBlock32(x, y, t) % 32 # ABlock32(x, y, r) % 32
      BY <2>1, Apart32
    <3> QED BY <3>1, <3>2 DEF Referenced
  <2>3. ASSUME NEW c \in 0 .. 7, Kept32(x, y, r, q + 1, 0, c)
        PROVE  In(sets', BBlock32(x, y, c))
    <3>1. c = t \/ Kept32(x, y, r, q, 1, c)
      BY <1>7, <2>3 DEF Kept32, Turn32, Turn
    <3> QED BY <1>5, <3>1
  <2>4. misses' <= Misses32(x, y, r, q + 1, 0)
    <3>1. CASE r = 0
      <4>1. Misses32(x, y, r, q + 1, 0) = Misses32(x, y, r, q, 1) + 1
            /\ Misses32(x, y, r, q, 1) \in Int
        BY <3>1 DEF Misses32, Base32
      <4> QED BY <1>2, <1>4, <4>1
    <3>2. CASE r # 0
      <4>1. Misses32(x, y, r, q + 1, 0) = Misses32(x, y, r, q, 1)
        BY <3>2 DEF Misses32
      <4> QED BY <1>4, <1>6, <2>1, <3>2, <4>1
    <3> QED BY <3>1, <3>2
  <2>5. Progress32(x, y, r, q + 1, 0)'
    BY <1>1, <2>2, <2>3, <2>4 DEF Progress32, Misses32, Base32, Kept32
  <2> QED BY <1>7, <2>5
<1>8. CASE q = 7 /\ r < 7
  <2>1. ASSUME NEW c \in 0 .. 7 PROVE In(sets', BBlock32(x, y, c))
    <3>1. c = t \/ Kept32(x, y, r, q, 1, c)
      BY <1>8 DEF Kept32, Turn32, Turn
    <3> QED BY <1>5, <3>1
  <2>2. misses' <= Misses32(x, y, r + 1, 0, 0)
    <3>1. CASE r = 0 \/ x = y
      <4>1. Misses32(x, y, r + 1, 0, 0) = Misses32(x, y, r, q, 1) + 1
            /\ Misses32(x, y, r, q, 1) \in Int
        BY <1>8, <3>1 DEF Misses32, Base32
      <4> QED BY <1>2, <1>4, <4>1
    <3>2. CASE r # 0 /\ x # y
      <4>1. Misses32(x, y, r + 1, 0, 0) = Misses32(x, y, r, q, 1)
        BY <1>8, <3>2 DEF Misses32, Base32
      <4> QED BY <1>4, <1>6, <3>2, <4>1
    <3> QED BY <3>1, <3>2
  <2>3. Progress32(x, y, r + 1, 0, 0)'
    <3>1. ~ (0 + 0 > 0)
      OBVIOUS
    <3> QED BY <1>1, <2>1, <2>2, <3>1 DEF Progress32, Misses32, Base32, Kept32
  <2> QED BY <1>8, <2>3
<1>9. CASE q = 7 /\ r = 7
  <2>1. Base32(x, y) \in Int
    BY DEF Base32
  <2>2. CASE x = y
    <3>1. Misses32(x, y, r, q, 1) = Base32(x, y) + 22
      BY <1>9, <2>1, <2>2 DEF Misses32
    <3> QED BY <1>2, <1>4, <1>9, <2>1, <2>2, <3>1
  <2>3. CASE x # y
    <3>1. Misses32(x, y, r, q, 1) = Base32(x, y) + 16
      BY <1>9, <2>1, <2>3 DEF Misses32
    <3>2. misses' = misses
      BY <1>6, <1>9, <2>3
    <3> QED BY <1>4, <1>9, <2>3, <3>1, <3>2
  <2> QED BY <2>2, <2>3
<1> QED BY <1>7, <1>8, <1>9

(* A reference misses at most once.                                        *)
LEMMA MissesAtMost ==
  ASSUME TypeOK, NEW block \in Nat, Referenced(block)
  PROVE  misses \in Nat /\ misses' \in Nat /\ misses' <= misses + 1
<1>1. misses \in Nat /\ misses' \in Nat /\ (misses' = misses \/ misses' = misses + 1)
  BY DEF TypeOK, Referenced
<1> QED BY <1>1

(* What a visit of trans32 refers to.                                      *)
LEMMA Visit32Is ==
  ASSUME TypeOK, Aligned, Shape(32, 32),
         NEW x \in 0 .. 3, NEW y \in 0 .. 3, NEW r \in 0 .. 7, NEW q \in 0 .. 7,
         n = Place32(x, y, r, q)
  PROVE  /\ Turn32(x, y, r, q) \in 0 .. 7
         /\ Source = ABlock32(x, y, r)
         /\ Target = BBlock32(x, y, Turn32(x, y, r, q))
<1> DEFINE t == Turn32(x, y, r, q)
           a == Alpha
           b == Beta
<1>1. t \in 0 .. 7
  BY DEF Turn32, Turn
<1>2. transpose_submit[n] = <<8 * x + r, 8 * y + t>>
  <2>1. transpose_submit = trans32
    BY DEF transpose_submit, Shape
  <2>2. Order32(trans32)
    BY Trans32Is DEF Visits32
  <2>3. trans32[Place32(x, y, r, q)] = Seen32(x, y, r, q)
    BY <2>2 DEF Order32
  <2> QED BY <2>1, <2>3 DEF Seen32
<1> HIDE DEF t
<1>3. /\ Element(8 * x + r, 8 * y + t) = (8 * x + r) * 32 + (8 * y + t)
      /\ Cell(<<8 * x + r, 8 * y + t>>) = (8 * y + t) * 32 + (8 * x + r)
  BY DEF Element, Cell, Shape
<1>4. a \in Nat /\ b \in Nat /\ at["A"] = 32 * a /\ at["B"] = 32 * b
  BY AlignedIs
<1> HIDE DEF a, b
<1>5. /\ (32 * a + 4 * ((8 * x + r) * 32 + (8 * y + t))) \div 32 = a + 32 * x + 4 * r + y
      /\ (32 * b + 4 * ((8 * y + t) * 32 + (8 * x + r))) \div 32 = b + 32 * y + 4 * t + x
  BY <1>1, <1>4
<1>6. Source = a + 32 * x + 4 * r + y
  BY <1>2, <1>3, <1>4, <1>5 DEF Source
<1>7. Target = b + 32 * y + 4 * t + x
  BY <1>2, <1>3, <1>4, <1>5 DEF Target
<1> QED BY <1>1, <1>6, <1>7 DEF ABlock32, BBlock32, a, b, t

(* The state of a run of trans32.                                          *)
Under32(l) == \E x \in 0 .. 3, y \in 0 .. 3, r \in 0 .. 7, q \in 0 .. 7 :
                n = Place32(x, y, r, q) /\ Progress32(x, y, r, q, l)

Inv32 ==
  /\ pc = "before" => misses <= n
  /\ pc = "load" => Under32(0)
  /\ pc = "store" => Under32(1)
  /\ pc = "after" => misses <= 288
  /\ pc \in {"validate", "valid", "invalid"} => misses <= 289

(* After a block comes the next one.                                       *)
LEMMA Next32 ==
  ASSUME TypeOK, NEW x \in 0 .. 3, NEW y \in 0 .. 3, misses' \in Nat,
         misses' <= Base32(x, y) + (IF x = y THEN 23 ELSE 16)
  PROVE  /\ y < 3 => Progress32(x, y + 1, 0, 0, 0)'
         /\ y = 3 /\ x < 3 => Progress32(x + 1, 0, 0, 0, 0)'
         /\ y = 3 /\ x = 3 => misses' <= 288
<1>1. \A i, j : \A c \in 0 .. 7 : ~ Kept32(i, j, 0, 0, 0, c)
  BY DEF Kept32
<1>2. ~ (0 + 0 > 0)
  OBVIOUS
<1>3. CASE y < 3
  <2>1. Misses32(x, y + 1, 0, 0, 0) = Base32(x, y + 1)
    BY DEF Misses32, Base32
  <2>2. Base32(x, y + 1) = Base32(x, y) + (IF x = y THEN 23 ELSE 16)
    BY DEF Base32
  <2>3. misses' <= Misses32(x, y + 1, 0, 0, 0)
    BY <2>1, <2>2
  <2>4. Progress32(x, y + 1, 0, 0, 0)'
    BY <1>1, <1>2, <2>3 DEF Progress32, Misses32, Base32, Kept32
  <2> QED BY <1>3, <2>4
<1>4. CASE y = 3 /\ x < 3
  <2>1. Misses32(x + 1, 0, 0, 0, 0) = Base32(x + 1, 0)
    BY DEF Misses32, Base32
  <2>2. Base32(x + 1, 0) = Base32(x, y) + (IF x = y THEN 23 ELSE 16)
    BY <1>4 DEF Base32
  <2>3. misses' <= Misses32(x + 1, 0, 0, 0, 0)
    BY <2>1, <2>2
  <2>4. Progress32(x + 1, 0, 0, 0, 0)'
    BY <1>1, <1>2, <2>3 DEF Progress32, Misses32, Base32, Kept32
  <2> QED BY <1>4, <2>4
<1>5. CASE y = 3 /\ x = 3
  BY <1>5 DEF Base32
<1> QED BY <1>3, <1>4, <1>5

(* Neither the size nor the layout changes.                                *)
LEMMA Fixed ==
  ASSUME Inv, [Next]_vars
  PROVE  size' = size /\ at' = at
<1> USE DEF Inv
<1>1. CASE Mark
  BY <1>1, MarkIs DEF Refers
<1>2. CASE Load
  BY <1>2, LoadIs
<1>3. CASE Store
  BY <1>3, StoreIs
<1>4. CASE MarkEnd
  BY <1>4, MarkEndIs DEF Refers
<1>5. CASE Validate
  BY <1>5 DEF Validate
<1>6. CASE Ended \/ UNCHANGED vars
  BY <1>6 DEF Ended, vars
<1> QED BY <1>1, <1>2, <1>3, <1>4, <1>5, <1>6 DEF Next

(* A load of trans32.                                                      *)
LEMMA Load32Step ==
  ASSUME Inv, Aligned, Shape(32, 32), Inv32, Load
  PROVE  Inv32'
<1>1. /\ pc = "load" /\ n' = n /\ pc' = "store" /\ at' = at /\ Referenced(Source)
  BY LoadIs DEF Inv
<1>2. PICK x \in 0 .. 3, y \in 0 .. 3, r \in 0 .. 7, q \in 0 .. 7 :
        n = Place32(x, y, r, q) /\ Progress32(x, y, r, q, 0)
  BY <1>1 DEF Inv32, Under32
<1>3. Source = ABlock32(x, y, r)
  BY <1>2, Visit32Is DEF Inv
<1>4. Progress32(x, y, r, q, 1)'
  BY <1>1, <1>2, <1>3, Load32Kept DEF Inv
<1>5. Place32(x, y, r, q)' = Place32(x, y, r, q)
  BY DEF Place32
<1>6. Under32(1)'
  BY <1>1, <1>2, <1>4, <1>5 DEF Under32
<1> QED BY <1>1, <1>6 DEF Inv32

(* A store of trans32.                                                     *)
LEMMA Store32Step ==
  ASSUME Inv, Aligned, Shape(32, 32), Inv32, Store
  PROVE  Inv32'
<1>1. /\ pc = "store" /\ at' = at /\ Target \in Nat /\ Referenced(Target)
      /\ \/ n < 1024 /\ pc' = "load" /\ n' = n + 1
         \/ n = 1024 /\ pc' = "after" /\ n' = 0
  <2>1. M * N = 1024
    BY DEF Shape
  <2> QED BY <2>1, StoreIs DEF Inv
<1>2. PICK x \in 0 .. 3, y \in 0 .. 3, r \in 0 .. 7, q \in 0 .. 7 :
        n = Place32(x, y, r, q) /\ Progress32(x, y, r, q, 1)
  BY <1>1 DEF Inv32, Under32
<1> DEFINE t == Turn32(x, y, r, q)
<1>3. t \in 0 .. 7 /\ Target = BBlock32(x, y, t)
  BY <1>2, Visit32Is DEF Inv
<1>4. misses' \in Nat
  BY <1>1 DEF Referenced
<1> HIDE DEF t
<1>5. /\ q < 7 => Progress32(x, y, r, q + 1, 0)'
      /\ q = 7 /\ r < 7 => Progress32(x, y, r + 1, 0, 0)'
      /\ q = 7 /\ r = 7 =>
           misses' <= Base32(x, y) + (IF x = y THEN 23 ELSE 16)
  <2>1. t = Turn32(x, y, r, q) /\ t \in 0 .. 7
    BY <1>3 DEF t
  <2>2. TypeOK /\ at' = at /\ Referenced(BBlock32(x, y, t))
    BY <1>1, <1>3 DEF Inv
  <2>3. Progress32(x, y, r, q, 1)
    BY <1>2
  <2>4. q < 7 => Progress32(x, y, r, q + 1, 0)'
    BY <2>1, <2>2, <2>3, Store32Kept
  <2>5. q = 7 /\ r < 7 => Progress32(x, y, r + 1, 0, 0)'
    BY <2>1, <2>2, <2>3, Store32Kept
  <2>6. q = 7 /\ r = 7 =>
           misses' <= Base32(x, y) + (IF x = y THEN 23 ELSE 16)
    BY <2>1, <2>2, <2>3, Store32Kept
  <2> QED BY <2>4, <2>5, <2>6
<1>6. ASSUME NEW i \in 0 .. 3, NEW j \in 0 .. 3, NEW k \in 0 .. 7, NEW m \in 0 .. 7,
             n + 1 = Place32(i, j, k, m), Progress32(i, j, k, m, 0)'
      PROVE  Inv32'
  <2>1. n < 1024
    BY <1>2, <1>6 DEF Place32
  <2>2. pc' = "load" /\ n' = n + 1
    BY <1>1, <2>1
  <2>3. Place32(i, j, k, m)' = Place32(i, j, k, m)
    BY DEF Place32
  <2>4. Under32(0)'
    BY <1>6, <2>2, <2>3 DEF Under32
  <2> QED BY <2>2, <2>4 DEF Inv32
<1>7. CASE q < 7
  <2>1. q + 1 \in 0 .. 7 /\ n + 1 = Place32(x, y, r, q + 1)
    BY <1>2, <1>7 DEF Place32
  <2> QED BY <1>5, <1>6, <1>7, <2>1
<1>8. CASE q = 7 /\ r < 7
  <2>1. r + 1 \in 0 .. 7 /\ 0 \in 0 .. 7 /\ n + 1 = Place32(x, y, r + 1, 0)
    BY <1>2, <1>8 DEF Place32
  <2> QED BY <1>5, <1>6, <1>8, <2>1
<1>9. CASE q = 7 /\ r = 7
  <2>1. /\ y < 3 => Progress32(x, y + 1, 0, 0, 0)'
        /\ y = 3 /\ x < 3 => Progress32(x + 1, 0, 0, 0, 0)'
        /\ y = 3 /\ x = 3 => misses' <= 288
    BY <1>4, <1>5, <1>9, Next32 DEF Inv
  <2>2. CASE y < 3
    <3>1. y + 1 \in 0 .. 3 /\ 0 \in 0 .. 7 /\ n + 1 = Place32(x, y + 1, 0, 0)
      BY <1>2, <1>9, <2>2 DEF Place32
    <3> QED BY <1>6, <2>1, <2>2, <3>1
  <2>3. CASE y = 3 /\ x < 3
    <3>1. x + 1 \in 0 .. 3 /\ 0 \in 0 .. 3 /\ 0 \in 0 .. 7 /\ n + 1 = Place32(x + 1, 0, 0, 0)
      BY <1>2, <1>9, <2>3 DEF Place32
    <3> QED BY <1>6, <2>1, <2>3, <3>1
  <2>4. CASE y = 3 /\ x = 3
    <3>1. n = 1024
      BY <1>2, <1>9, <2>4 DEF Place32
    <3>2. pc' = "after" /\ misses' <= 288
      BY <1>1, <2>1, <2>4, <3>1
    <3> QED BY <3>2 DEF Inv32
  <2> QED BY <2>2, <2>3, <2>4
<1> QED BY <1>7, <1>8, <1>9

(* Every step of a run of trans32.                                         *)
LEMMA Inv32Kept ==
  ASSUME Inv, Aligned, Shape(32, 32), Inv32, [Next]_vars
  PROVE  Inv32'
<1>1. CASE Mark
  <2>1. /\ pc = "before" /\ n \in 0 .. 3 /\ Refers
        /\ \/ n < 3 /\ pc' = "before" /\ n' = n + 1
           \/ n = 3 /\ ~ Supported /\ pc' = "after" /\ n' = 0
           \/ n = 3 /\ Supported /\ pc' = "load" /\ n' = 1
    BY <1>1, MarkIs DEF Inv
  <2>2. PICK block \in Nat : Referenced(block)
    BY <2>1 DEF Refers
  <2>3. misses \in Nat /\ misses' \in Nat /\ misses' <= misses + 1 /\ misses <= n
    BY <2>1, <2>2, MissesAtMost DEF Inv, Inv32
  <2>4. misses' <= n + 1
    BY <2>1, <2>3
  <2>5. CASE n < 3
    BY <2>1, <2>4, <2>5 DEF Inv32
  <2>6. CASE n = 3
    <3>1. pc' = "load" /\ n' = 1
      BY <2>1, <2>6 DEF Supported
    <3>2. misses' <= Misses32(0, 0, 0, 0, 0)
      BY <2>4, <2>6 DEF Misses32, Base32
    <3>3. ~ (0 + 0 > 0) /\ \A c \in 0 .. 7 : ~ Kept32(0, 0, 0, 0, 0, c)
      BY DEF Kept32
    <3>4. Progress32(0, 0, 0, 0, 0)'
      BY <3>2, <3>3 DEF Progress32, Misses32, Base32, Kept32
    <3>5. n' = Place32(0, 0, 0, 0)' /\ 0 \in 0 .. 3 /\ 0 \in 0 .. 7
      BY <3>1 DEF Place32
    <3>6. Under32(0)'
      BY <3>4, <3>5 DEF Under32
    <3> QED BY <3>1, <3>6 DEF Inv32
  <2> QED BY <2>1, <2>5, <2>6
<1>2. CASE Load
  BY <1>2, Load32Step
<1>3. CASE Store
  BY <1>3, Store32Step
<1>4. CASE MarkEnd
  <2>1. pc = "after" /\ Refers /\ pc' = "validate"
    BY <1>4, MarkEndIs DEF Inv
  <2>2. PICK block \in Nat : Referenced(block)
    BY <2>1 DEF Refers
  <2>3. misses \in Nat /\ misses' \in Nat /\ misses' <= misses + 1 /\ misses <= 288
    BY <2>1, <2>2, MissesAtMost DEF Inv, Inv32
  <2>4. misses' <= 289
    BY <2>3
  <2> QED BY <2>1, <2>4 DEF Inv32
<1>5. CASE Validate
  <2>1. /\ pc = "validate" /\ misses' = misses /\ pc' \in {"valid", "invalid"}
    BY <1>5 DEF Validate, Goto
  <2> QED BY <2>1 DEF Inv32
<1>6. CASE Ended \/ UNCHANGED vars
  <2>1. /\ pc' = pc /\ n' = n /\ misses' = misses /\ sets' = sets /\ at' = at
    BY <1>6 DEF Ended, vars
  <2>2. \A l : Under32(l)' = Under32(l)
    BY <2>1 DEF Under32, Place32, Progress32, Misses32, Base32, Kept32,
                ABlock32, BBlock32, Alpha, Beta, In
  <2> QED BY <2>1, <2>2 DEF Inv32
<1> QED BY <1>1, <1>2, <1>3, <1>4, <1>5, <1>6 DEF Next

(* 32x32: at most 289 misses, eleven below the limit for full points,      *)
(* wherever the linker puts the small globals, if A is aligned to a block. *)
THEOREM Misses32x32 == Spec => [](Aligned /\ Finished /\ Shape(32, 32) => misses <= 289)
<1> DEFINE J == Inv /\ (Aligned /\ Shape(32, 32) => Inv32)
<1>1. Init => J
  <2>1. Init => Inv
    BY InitOK DEF Inv
  <2>2. Init => Inv32
    BY DEF Init, Inv32
  <2> QED BY <2>1, <2>2
<1>2. J /\ [Next]_vars => J'
  <2> SUFFICES ASSUME J, [Next]_vars PROVE J'
    OBVIOUS
  <2>1. Inv'
    BY InvKept
  <2>2. size' = size /\ at' = at
    BY Fixed
  <2>3. Aligned' = Aligned /\ Shape(32, 32)' = Shape(32, 32)
    BY <2>2 DEF Aligned, Shape, M, N
  <2>4. Aligned /\ Shape(32, 32) => Inv32'
    BY Inv32Kept
  <2> QED BY <2>1, <2>3, <2>4
<1>3. J => (Aligned /\ Finished /\ Shape(32, 32) => misses <= 289)
  BY DEF Inv32, Finished
<1> QED BY <1>1, <1>2, <1>3, PTL DEF Spec

----------------------------------------------------------------------------
(* The misses of trans64.                                                  *)

(* Which half of its larger block a small block is in: of the rows of A,   *)
(* and of their columns, the rows of B.                                    *)
Lower(z) == IF z \in {1, 2} THEN 1 ELSE 0
Later(z) == IF z \in {2, 3} THEN 1 ELSE 0

(* Which column of row r comes at visit q.                                 *)
Turn64(r, q) == Turn(4, r, q)

(* The block of the cache that holds row k of half d of the elements of A  *)
(* in the block x, y, and that of row c of half e of their places in B.    *)
(* The two halves of either share their sets.                              *)
ABlock64(x, y, d, k) == Alpha + 32 * (2 * x + d) + 8 * k + y
BBlock64(x, y, e, c) == Beta + 32 * (2 * y + e) + 8 * c + x

(* At visit q of row r of small block z, with l of its two accesses done:  *)
(* the first of these rows of B is stored to for the first time.           *)
Filling(z, r) == z \in {0, 2} /\ r = 0

(* Row c of B is in the cache.  On the diagonal row r is not while row r   *)
(* of A is.                                                                *)
KeptB64(x, y, z, r, q, l, c) ==
  IF Filling(z, r) THEN c \in 1 .. q ELSE x = y /\ q + l > 0 => c # r

(* Row k of A is: the one in use, and off the diagonal the lower half from *)
(* the second small block to the third, which reads it again.              *)
KeptA64(x, y, z, r, q, l, k) ==
  \/ k = r /\ q + l > 0
  \/ x # y /\ (z = 2 \/ (z = 1 /\ k < r))

(* The misses until then: four globals, twenty in a larger block and       *)
(* eighteen more on the diagonal.                                          *)
Base64(x, y) == 4 + 20 * (8 * x + y) + 18 * (IF y > x THEN x + 1 ELSE x)

Start64(x, y, z) ==
  IF x = y THEN IF z = 0 THEN 0 ELSE IF z = 1 THEN 11 ELSE IF z = 2 THEN 19 ELSE 30
  ELSE IF z = 0 THEN 0 ELSE 4 + 4 * z

OfRows(x, y, z, r, q, l) ==
  IF x # y /\ z = 2 THEN 0
  ELSE (IF x = y THEN 2 * r ELSE r) + (IF q + l > 0 THEN 1 ELSE 0)

OfFilling(x, y, z, r, q) ==
  IF z \in {1, 3} THEN 0
  ELSE IF r = 0 THEN q ELSE IF x = y THEN 3 ELSE 4

Misses64(x, y, z, r, q, l) ==
  Base64(x, y) + Start64(x, y, z) + OfRows(x, y, z, r, q, l)
               + OfFilling(x, y, z, r, q)

Progress64(x, y, z, r, q, l) ==
  /\ misses <= Misses64(x, y, z, r, q, l)
  /\ \A k \in 0 .. 3 :
       KeptA64(x, y, z, r, q, l, k) => In(sets, ABlock64(x, y, Lower(z), k))
  /\ \A c \in 0 .. 3 :
       KeptB64(x, y, z, r, q, l, c) => In(sets, BBlock64(x, y, Later(z), c))

(* Progress64 in the next state, from facts about it.                      *)
LEMMA Progress64Next ==
  ASSUME at' = at,
         NEW x \in 0 .. 7, NEW y \in 0 .. 7, NEW z \in 0 .. 3, NEW r \in 0 .. 3,
         NEW q \in 0 .. 3, NEW l \in 0 .. 1,
         misses' <= Misses64(x, y, z, r, q, l),
         \A k \in 0 .. 3 : KeptA64(x, y, z, r, q, l, k) =>
                             In(sets', ABlock64(x, y, Lower(z), k)),
         \A c \in 0 .. 3 : KeptB64(x, y, z, r, q, l, c) =>
                             In(sets', BBlock64(x, y, Later(z), c))
  PROVE  Progress64(x, y, z, r, q, l)'
<1>1. /\ \A k : ABlock64(x, y, Lower(z), k)' = ABlock64(x, y, Lower(z), k)
      /\ \A c : BBlock64(x, y, Later(z), c)' = BBlock64(x, y, Later(z), c)
  BY DEF ABlock64, BBlock64, Alpha, Beta, Lower, Later
<1>2. /\ Misses64(x, y, z, r, q, l)' = Misses64(x, y, z, r, q, l)
      /\ \A k : KeptA64(x, y, z, r, q, l, k)' = KeptA64(x, y, z, r, q, l, k)
      /\ \A c : KeptB64(x, y, z, r, q, l, c)' = KeptB64(x, y, z, r, q, l, c)
  BY DEF Misses64, Base64, Start64, OfRows, OfFilling, KeptA64, KeptB64, Filling
<1>3. \A block : In(sets, block)' = In(sets', block')
  BY DEF In
<1> QED BY <1>1, <1>2, <1>3 DEF Progress64, Lower, Later

(* Which blocks of trans64 do not share a set.                             *)
LEMMA Apart64 ==
  ASSUME TypeOK, Aligned, NEW x \in 0 .. 7, NEW y \in 0 .. 7,
         NEW d \in 0 .. 1, NEW e \in 0 .. 1, NEW k \in 0 .. 3, NEW c \in 0 .. 3
  PROVE  /\ ABlock64(x, y, d, k) \in Nat /\ BBlock64(x, y, e, c) \in Nat
         /\ x # y \/ c # k =>
              ABlock64(x, y, d, k) % 32 # BBlock64(x, y, e, c) % 32
         /\ \A m \in 0 .. 3 : m # k =>
              ABlock64(x, y, d, k) % 32 # ABlock64(x, y, d, m) % 32
         /\ \A m \in 0 .. 3 : m # c =>
              BBlock64(x, y, e, c) % 32 # BBlock64(x, y, e, m) % 32
<1>1. Alpha \in Nat /\ Beta \in Nat /\ Alpha % 32 = Beta % 32
  BY AlignedIs
<1> DEFINE i == 2 * x + d
           j == 2 * y + e
<1>2. i \in Nat /\ j \in Nat
  OBVIOUS
<1>3. /\ \A m \in 0 .. 3 : ABlock64(x, y, d, m) = Alpha + 32 * i + (8 * m + y)
      /\ \A m \in 0 .. 3 : BBlock64(x, y, e, m) = Beta + 32 * j + (8 * m + x)
  BY <1>1 DEF ABlock64, BBlock64
<1> HIDE DEF i, j
<1>4. ASSUME x # y \/ c # k
      PROVE  ABlock64(x, y, d, k) % 32 # BBlock64(x, y, e, c) % 32
  <2> DEFINE u == 8 * k + y
             v == 8 * c + x
  <2>1. u \in 0 .. 31 /\ v \in 0 .. 31 /\ u # v
    BY <1>4
  <2> HIDE DEF u, v
  <2>2. SetOf(Alpha, i, u) # SetOf(Beta, j, v)
    BY <1>1, <1>2, <2>1, SetsApart
  <2> QED BY <1>3, <2>2 DEF u, v, SetOf
<1>5. ASSUME NEW m \in 0 .. 3, m # k
      PROVE  ABlock64(x, y, d, k) % 32 # ABlock64(x, y, d, m) % 32
  <2> DEFINE u == 8 * k + y
             v == 8 * m + y
  <2>1. u \in 0 .. 31 /\ v \in 0 .. 31 /\ u # v
    BY <1>5
  <2> HIDE DEF u, v
  <2>2. SetOf(Alpha, i, u) # SetOf(Alpha, i, v)
    BY <1>1, <1>2, <2>1, SetsApart
  <2> QED BY <1>3, <2>2 DEF u, v, SetOf
<1>6. ASSUME NEW m \in 0 .. 3, m # c
      PROVE  BBlock64(x, y, e, c) % 32 # BBlock64(x, y, e, m) % 32
  <2> DEFINE u == 8 * c + x
             v == 8 * m + x
  <2>1. u \in 0 .. 31 /\ v \in 0 .. 31 /\ u # v
    BY <1>6
  <2> HIDE DEF u, v
  <2>2. SetOf(Beta, j, u) # SetOf(Beta, j, v)
    BY <1>1, <1>2, <2>1, SetsApart
  <2> QED BY <1>3, <2>2 DEF u, v, SetOf
<1>7. ABlock64(x, y, d, k) \in Nat /\ BBlock64(x, y, e, c) \in Nat
  <2>1. ABlock64(x, y, d, k) = Alpha + 32 * i + (8 * k + y)
        /\ BBlock64(x, y, e, c) = Beta + 32 * j + (8 * c + x)
    BY <1>3
  <2> QED BY <1>1, <1>2, <2>1
<1> QED BY <1>4, <1>5, <1>6, <1>7

(* The load of a visit.                                                    *)
LEMMA Load64Kept ==
  ASSUME TypeOK, Aligned, at' = at,
         NEW x \in 0 .. 7, NEW y \in 0 .. 7, NEW z \in 0 .. 3, NEW r \in 0 .. 3,
         NEW q \in 0 .. 3,
         Progress64(x, y, z, r, q, 0), Referenced(ABlock64(x, y, Lower(z), r))
  PROVE  Progress64(x, y, z, r, q, 1)'
<1>1. Lower(z) \in 0 .. 1 /\ Later(z) \in 0 .. 1
  BY DEF Lower, Later
<1>2. /\ misses \in Nat /\ misses' \in Nat /\ misses' <= misses + 1
      /\ misses <= Misses64(x, y, z, r, q, 0)
  <2>1. ABlock64(x, y, Lower(z), r) \in Nat
    BY <1>1, Apart64
  <2> QED BY <2>1, MissesAtMost DEF Progress64
<1>3. misses' <= Misses64(x, y, z, r, q, 1)
  <2>1. CASE KeptA64(x, y, z, r, q, 0, r)
    <3>1. misses' = misses
      BY <2>1 DEF Progress64, Referenced
    <3>2. OfRows(x, y, z, r, q, 1) = OfRows(x, y, z, r, q, 0)
      BY <2>1 DEF KeptA64, OfRows
    <3> QED BY <1>2, <3>1, <3>2 DEF Misses64
  <2>2. CASE ~ KeptA64(x, y, z, r, q, 0, r)
    <3>1. q = 0 /\ ~ (x # y /\ z = 2)
      <4>1. ~ (q + 0 > 0) /\ ~ (x # y /\ z = 2)
        BY <2>2 DEF KeptA64
      <4> QED BY <4>1
    <3>2. OfRows(x, y, z, r, q, 1) = OfRows(x, y, z, r, q, 0) + 1
      BY <3>1 DEF OfRows
    <3>3. /\ OfRows(x, y, z, r, q, 0) \in Int /\ OfFilling(x, y, z, r, q) \in Int
          /\ Base64(x, y) \in Int /\ Start64(x, y, z) \in Int
      BY DEF OfRows, OfFilling, Base64, Start64
    <3>4. Misses64(x, y, z, r, q, 1) = Misses64(x, y, z, r, q, 0) + 1
          /\ Misses64(x, y, z, r, q, 0) \in Int
      BY <3>2, <3>3 DEF Misses64
    <3> QED BY <1>2, <3>4
  <2> QED BY <2>1, <2>2
<1>4. ASSUME NEW k \in 0 .. 3, KeptA64(x, y, z, r, q, 1, k)
      PROVE  In(sets', ABlock64(x, y, Lower(z), k))
  <2>1. CASE k = r
    BY <2>1 DEF Referenced
  <2>2. CASE k # r
    <3>1. KeptA64(x, y, z, r, q, 0, k)
      BY <1>4, <2>2 DEF KeptA64
    <3>2. In(sets, ABlock64(x, y, Lower(z), k))
      BY <3>1 DEF Progress64
    <3>3. /\ ABlock64(x, y, Lower(z), k) \in Nat
          /\ ABlock64(x, y, Lower(z), k) % 32 # ABlock64(x, y, Lower(z), r) % 32
      BY <1>1, <2>2, Apart64
    <3> QED BY <3>2, <3>3 DEF Referenced
  <2> QED BY <2>1, <2>2
<1>5. ASSUME NEW c \in 0 .. 3, KeptB64(x, y, z, r, q, 1, c)
      PROVE  In(sets', BBlock64(x, y, Later(z), c))
  <2>1. KeptB64(x, y, z, r, q, 0, c) /\ (x # y \/ c # r)
    BY <1>5 DEF KeptB64, Filling
  <2>2. In(sets, BBlock64(x, y, Later(z), c))
    BY <2>1 DEF Progress64
  <2>3. /\ BBlock64(x, y, Later(z), c) \in Nat
        /\ BBlock64(x, y, Later(z), c) % 32 # ABlock64(x, y, Lower(z), r) % 32
    BY <1>1, <2>1, Apart64
  <2> QED BY <2>2, <2>3 DEF Referenced
<1>6. 1 \in 0 .. 1
  OBVIOUS
<1> QED BY <1>3, <1>4, <1>5, <1>6, Progress64Next

(* The store of a visit: what it finds, and what it leaves, in terms of    *)
(* what was in the cache before.                                           *)
LEMMA Stored64 ==
  ASSUME TypeOK, Aligned,
         NEW x \in 0 .. 7, NEW y \in 0 .. 7, NEW z \in 0 .. 3, NEW r \in 0 .. 3,
         NEW q \in 0 .. 3, NEW t \in 0 .. 3,
         Progress64(x, y, z, r, q, 1), Referenced(BBlock64(x, y, Later(z), t))
  PROVE  /\ misses \in Nat /\ misses' \in Nat /\ misses' <= misses + 1
         /\ misses <= Misses64(x, y, z, r, q, 1)
         /\ KeptB64(x, y, z, r, q, 1, t) => misses' = misses
         /\ \A k \in 0 .. 3 : KeptA64(x, y, z, r, q, 1, k) /\ (x # y \/ k # t) =>
                                In(sets', ABlock64(x, y, Lower(z), k))
         /\ \A c \in 0 .. 3 : KeptB64(x, y, z, r, q, 1, c) \/ c = t =>
                                In(sets', BBlock64(x, y, Later(z), c))
<1>1. Lower(z) \in 0 .. 1 /\ Later(z) \in 0 .. 1
  BY DEF Lower, Later
<1>2. /\ misses \in Nat /\ misses' \in Nat /\ misses' <= misses + 1
      /\ misses <= Misses64(x, y, z, r, q, 1)
  <2>1. BBlock64(x, y, Later(z), t) \in Nat
    BY <1>1, Apart64
  <2> QED BY <2>1, MissesAtMost DEF Progress64
<1>3. KeptB64(x, y, z, r, q, 1, t) => misses' = misses
  BY DEF Progress64, Referenced
<1>4. ASSUME NEW k \in 0 .. 3, KeptA64(x, y, z, r, q, 1, k), x # y \/ k # t
      PROVE  In(sets', ABlock64(x, y, Lower(z), k))
  <2>1. In(sets, ABlock64(x, y, Lower(z), k))
    BY <1>4 DEF Progress64
  <2>2. /\ ABlock64(x, y, Lower(z), k) \in Nat
        /\ ABlock64(x, y, Lower(z), k) % 32 # BBlock64(x, y, Later(z), t) % 32
    BY <1>1, <1>4, Apart64
  <2> QED BY <2>1, <2>2 DEF Referenced
<1>5. ASSUME NEW c \in 0 .. 3, KeptB64(x, y, z, r, q, 1, c) \/ c = t
      PROVE  In(sets', BBlock64(x, y, Later(z), c))
  <2>1. CASE c = t
    BY <2>1 DEF Referenced
  <2>2. CASE c # t
    <3>1. In(sets, BBlock64(x, y, Later(z), c))
      BY <1>5, <2>2 DEF Progress64
    <3>2. /\ BBlock64(x, y, Later(z), c) \in Nat
          /\ BBlock64(x, y, Later(z), c) % 32 # BBlock64(x, y, Later(z), t) % 32
      BY <1>1, <2>2, Apart64
    <3> QED BY <3>1, <3>2 DEF Referenced
  <2> QED BY <2>1, <2>2
<1> QED BY <1>2, <1>3, <1>4, <1>5

(* The bound is a number.                                                  *)
LEMMA Misses64Is ==
  ASSUME NEW x \in 0 .. 7, NEW y \in 0 .. 7, NEW z \in 0 .. 3, NEW r \in 0 .. 3,
         NEW q \in 0 .. 3, NEW l \in 0 .. 1
  PROVE  Misses64(x, y, z, r, q, l) \in Int
<1>1. Base64(x, y) \in Int /\ Start64(x, y, z) \in Int
  BY DEF Base64, Start64
<1>2. OfRows(x, y, z, r, q, l) \in Int /\ OfFilling(x, y, z, r, q) \in Int
  BY DEF OfRows, OfFilling
<1> QED BY <1>1, <1>2 DEF Misses64

(* After a store within a row.                                             *)
LEMMA NextVisit64 ==
  ASSUME TypeOK, Aligned, at' = at,
         NEW x \in 0 .. 7, NEW y \in 0 .. 7, NEW z \in 0 .. 3, NEW r \in 0 .. 3,
         NEW q \in 0 .. 2, NEW t \in 0 .. 3, t = Turn64(r, q),
         Progress64(x, y, z, r, q, 1), Referenced(BBlock64(x, y, Later(z), t))
  PROVE  Progress64(x, y, z, r, q + 1, 0)'
<1>1. q \in 0 .. 3 /\ q + 1 \in 0 .. 3 /\ 0 \in 0 .. 1 /\ 1 \in 0 .. 1
  OBVIOUS
<1>2. t # r /\ (r = 0 => t = q + 1)
  BY DEF Turn64, Turn
<1>3. ASSUME NEW k \in 0 .. 3, KeptA64(x, y, z, r, q + 1, 0, k)
      PROVE  In(sets', ABlock64(x, y, Lower(z), k))
  <2>1. KeptA64(x, y, z, r, q, 1, k) /\ (x # y \/ k # t)
    BY <1>2, <1>3 DEF KeptA64
  <2> QED BY <1>1, <2>1, Stored64
<1>4. ASSUME NEW c \in 0 .. 3, KeptB64(x, y, z, r, q + 1, 0, c)
      PROVE  In(sets', BBlock64(x, y, Later(z), c))
  <2>1. KeptB64(x, y, z, r, q, 1, c) \/ c = t
    BY <1>2, <1>4 DEF KeptB64, Filling
  <2> QED BY <1>1, <2>1, Stored64
<1>5. misses' <= Misses64(x, y, z, r, q + 1, 0)
  <2>1. /\ misses \in Nat /\ misses' \in Nat /\ misses' <= misses + 1
        /\ misses <= Misses64(x, y, z, r, q, 1)
        /\ KeptB64(x, y, z, r, q, 1, t) => misses' = misses
    BY <1>1, Stored64
  <2>2. OfRows(x, y, z, r, q + 1, 0) = OfRows(x, y, z, r, q, 1)
    BY DEF OfRows
  <2>3. CASE Filling(z, r)
    <3>1. OfFilling(x, y, z, r, q + 1) = OfFilling(x, y, z, r, q) + 1
      BY <2>3 DEF Filling, OfFilling
    <3>2. /\ OfRows(x, y, z, r, q, 1) \in Int /\ OfFilling(x, y, z, r, q) \in Int
          /\ Base64(x, y) \in Int /\ Start64(x, y, z) \in Int
      BY DEF OfRows, OfFilling, Base64, Start64
    <3>3. Misses64(x, y, z, r, q + 1, 0) = Misses64(x, y, z, r, q, 1) + 1
          /\ Misses64(x, y, z, r, q, 1) \in Int
      BY <2>2, <3>1, <3>2 DEF Misses64
    <3> QED BY <2>1, <3>3
  <2>4. CASE ~ Filling(z, r)
    <3>1. misses' = misses
      BY <1>2, <2>1, <2>4 DEF KeptB64
    <3>2. OfFilling(x, y, z, r, q + 1) = OfFilling(x, y, z, r, q)
      BY <2>4 DEF Filling, OfFilling
    <3> QED BY <2>1, <2>2, <3>1, <3>2 DEF Misses64
  <2> QED BY <2>3, <2>4
<1> QED BY <1>1, <1>3, <1>4, <1>5, Progress64Next

(* At the end of a row.                                                    *)
LEMMA NextRow64 ==
  ASSUME TypeOK, Aligned, at' = at,
         NEW x \in 0 .. 7, NEW y \in 0 .. 7, NEW z \in 0 .. 3, NEW r \in 0 .. 2,
         Progress64(x, y, z, r, 3, 1), Referenced(BBlock64(x, y, Later(z), r))
  PROVE  Progress64(x, y, z, r + 1, 0, 0)'
<1>1. /\ 3 \in 0 .. 3 /\ 0 \in 0 .. 3 /\ r \in 0 .. 3 /\ r + 1 \in 0 .. 3
      /\ 0 \in 0 .. 1 /\ 1 \in 0 .. 1
  OBVIOUS
<1>2. ASSUME NEW k \in 0 .. 3, KeptA64(x, y, z, r + 1, 0, 0, k)
      PROVE  In(sets', ABlock64(x, y, Lower(z), k))
  <2>1. ~ (0 + 0 > 0) /\ 3 + 1 > 0
    OBVIOUS
  <2>2. KeptA64(x, y, z, r, 3, 1, k) /\ x # y
    BY <1>2, <2>1 DEF KeptA64
  <2> QED BY <1>1, <2>2, Stored64
<1>3. ASSUME NEW c \in 0 .. 3
      PROVE  In(sets', BBlock64(x, y, Later(z), c))
  <2>1. KeptB64(x, y, z, r, 3, 1, c) \/ c = r
    BY DEF KeptB64, Filling
  <2> QED BY <1>1, <2>1, Stored64
<1>4. misses' <= Misses64(x, y, z, r + 1, 0, 0)
  <2>1. /\ misses \in Nat /\ misses' \in Nat /\ misses' <= misses + 1
        /\ misses <= Misses64(x, y, z, r, 3, 1)
        /\ KeptB64(x, y, z, r, 3, 1, r) => misses' = misses
    BY <1>1, Stored64
  <2> DEFINE before == OfRows(x, y, z, r, 3, 1) + OfFilling(x, y, z, r, 3)
             after  == OfRows(x, y, z, r + 1, 0, 0) + OfFilling(x, y, z, r + 1, 0)
  <2>2. before \in Int /\ after \in Int
    BY DEF OfRows, OfFilling
  <2>3. IF Filling(z, r) \/ x = y THEN after = before + 1 ELSE after = before
    <3>1. CASE x = y
      BY <3>1 DEF Filling, OfRows, OfFilling
    <3>2. CASE x # y
      BY <3>2 DEF Filling, OfRows, OfFilling
    <3> QED BY <3>1, <3>2
  <2>4. Base64(x, y) \in Int /\ Start64(x, y, z) \in Int
    BY DEF Base64, Start64
  <2>5. /\ Misses64(x, y, z, r, 3, 1) = Base64(x, y) + Start64(x, y, z) + before
        /\ Misses64(x, y, z, r + 1, 0, 0) = Base64(x, y) + Start64(x, y, z) + after
    <3>1. /\ OfRows(x, y, z, r, 3, 1) \in Int /\ OfFilling(x, y, z, r, 3) \in Int
          /\ OfRows(x, y, z, r + 1, 0, 0) \in Int
          /\ OfFilling(x, y, z, r + 1, 0) \in Int
      BY DEF OfRows, OfFilling
    <3> QED BY <2>4, <3>1 DEF Misses64
  <2> HIDE DEF before, after
  <2>6. CASE Filling(z, r) \/ x = y
    BY <2>1, <2>2, <2>3, <2>4, <2>5, <2>6
  <2>7. CASE ~ (Filling(z, r) \/ x = y)
    <3>1. misses' = misses
      BY <2>1, <2>7 DEF KeptB64
    <3> QED BY <2>1, <2>3, <2>5, <2>7, <3>1
  <2> QED BY <2>6, <2>7
<1> QED BY <1>1, <1>2, <1>3, <1>4, Progress64Next

(* At the end of a small block.                                            *)
LEMMA NextSmall64 ==
  ASSUME TypeOK, Aligned, at' = at,
         NEW x \in 0 .. 7, NEW y \in 0 .. 7, NEW z \in 0 .. 3,
         Progress64(x, y, z, 3, 3, 1), Referenced(BBlock64(x, y, Later(z), 3))
  PROVE  /\ z < 3 => Progress64(x, y, z + 1, 0, 0, 0)'
         /\ z = 3 => misses' <= Base64(x, y) + (IF x = y THEN 38 ELSE 20)
<1>1. 3 \in 0 .. 3 /\ 0 \in 0 .. 3 /\ 0 \in 0 .. 1 /\ 1 \in 0 .. 1
  OBVIOUS
<1>2. /\ misses \in Nat /\ misses' \in Nat /\ misses' <= misses + 1
      /\ misses <= Misses64(x, y, z, 3, 3, 1)
      /\ KeptB64(x, y, z, 3, 3, 1, 3) => misses' = misses
  BY <1>1, Stored64
<1> DEFINE end == Start64(x, y, z) + (IF x = y THEN IF z \in {0, 2} THEN 11 ELSE 8
                                      ELSE IF z = 0 THEN 8 ELSE 4)
<1>3. Base64(x, y) \in Int /\ end \in Int
  BY DEF Base64, Start64
<1>4. misses' <= Base64(x, y) + end
  <2>1. CASE x = y
    <3>1. Misses64(x, y, z, 3, 3, 1) + 1 = Base64(x, y) + end
      BY <1>3, <2>1 DEF Misses64, Start64, OfRows, OfFilling
    <3>2. Misses64(x, y, z, 3, 3, 1) \in Int
      BY <1>1, Misses64Is
    <3> HIDE DEF end
    <3> QED BY <1>2, <1>3, <3>1, <3>2
  <2>2. CASE x # y
    <3>1. Misses64(x, y, z, 3, 3, 1) = Base64(x, y) + end
      BY <1>3, <2>2 DEF Misses64, Start64, OfRows, OfFilling
    <3>2. misses' = misses
      BY <1>2, <2>2 DEF KeptB64, Filling
    <3> HIDE DEF end
    <3> QED BY <1>2, <3>1, <3>2
  <2> QED BY <2>1, <2>2
<1>5. CASE z < 3
  <2>1. z + 1 \in 0 .. 3
    BY <1>5
  <2>2. ASSUME NEW k \in 0 .. 3, KeptA64(x, y, z + 1, 0, 0, 0, k)
        PROVE  In(sets', ABlock64(x, y, Lower(z + 1), k))
    <3>1. ~ (0 + 0 > 0) /\ ~ (k < 0) /\ 3 + 1 > 0
      OBVIOUS
    <3>2. x # y /\ z + 1 = 2
      BY <2>2, <3>1 DEF KeptA64
    <3>3. z = 1 /\ Lower(z + 1) = Lower(z)
      BY <3>2 DEF Lower
    <3>4. KeptA64(x, y, z, 3, 3, 1, k) /\ x # y
      BY <3>1, <3>2, <3>3 DEF KeptA64
    <3> QED BY <1>1, <3>3, <3>4, Stored64
  <2>3. ASSUME NEW c \in 0 .. 3, KeptB64(x, y, z + 1, 0, 0, 0, c)
        PROVE  In(sets', BBlock64(x, y, Later(z + 1), c))
    <3>1. z + 1 \notin {0, 2}
      BY <2>3 DEF KeptB64, Filling
    <3>2. z \in {0, 2} /\ Later(z + 1) = Later(z)
      BY <1>5, <3>1 DEF Later
    <3>3. KeptB64(x, y, z, 3, 3, 1, c) \/ c = 3
      BY DEF KeptB64, Filling
    <3> QED BY <1>1, <3>2, <3>3, Stored64
  <2>4. misses' <= Misses64(x, y, z + 1, 0, 0, 0)
    <3>1. Start64(x, y, z + 1) = end
      BY <1>5 DEF Start64
    <3>2. OfRows(x, y, z + 1, 0, 0, 0) = 0 /\ OfFilling(x, y, z + 1, 0, 0) = 0
      BY <2>1 DEF OfRows, OfFilling
    <3> HIDE DEF end
    <3> QED BY <1>3, <1>4, <3>1, <3>2 DEF Misses64
  <2>5. Progress64(x, y, z + 1, 0, 0, 0)'
    BY <1>1, <2>1, <2>2, <2>3, <2>4, Progress64Next
  <2> QED BY <1>5, <2>5
<1>6. CASE z = 3
  <2>1. end = IF x = y THEN 38 ELSE 20
    BY <1>6 DEF Start64
  <2> HIDE DEF end
  <2> QED BY <1>4, <1>6, <2>1
<1> QED BY <1>5, <1>6

(* What a visit of trans64 refers to.                                      *)
Touches64(x, y, z, r, q) ==
  /\ Turn64(r, q) \in 0 .. 3
  /\ Source = ABlock64(x, y, Lower(z), r)
  /\ Target = BBlock64(x, y, Later(z), Turn64(r, q))

(* That is so at its place in the order.                                   *)
LEMMA Visit64Is ==
  ASSUME TypeOK, Aligned, Shape(64, 64),
         NEW x \in 0 .. 7, NEW y \in 0 .. 7, NEW z \in 0 .. 3, NEW r \in 0 .. 3,
         NEW q \in 0 .. 3, n = Place64(x, y, z, r, q)
  PROVE  Touches64(x, y, z, r, q)
<1> DEFINE t == Turn64(r, q)
           a == Alpha
           b == Beta
           d == Lower(z)
           e == Later(z)
<1>1. t \in 0 .. 3 /\ d \in 0 .. 1 /\ e \in 0 .. 1
  BY DEF Turn64, Turn, Lower, Later
<1>2. transpose_submit[n] = <<8 * x + 4 * d + r, 8 * y + 4 * e + t>>
  <2>1. transpose_submit = trans64
    BY DEF transpose_submit, Shape
  <2>2. Order64(trans64)
    BY Trans64Is DEF Visits64
  <2>3. trans64[Place64(x, y, z, r, q)] = Seen64(x, y, z, r, q)
    BY <2>2, ZenonT(40) DEF Order64
  <2>4. Down(z) = 4 * d /\ Right(z) = 4 * e
    BY DEF Down, Right, Lower, Later
  <2> QED BY <2>1, <2>3, <2>4 DEF Seen64, Turn64
<1> HIDE DEF t, d, e
<1>3. /\ Element(8 * x + 4 * d + r, 8 * y + 4 * e + t)
           = (8 * x + 4 * d + r) * 64 + (8 * y + 4 * e + t)
      /\ Cell(<<8 * x + 4 * d + r, 8 * y + 4 * e + t>>)
           = (8 * y + 4 * e + t) * 64 + (8 * x + 4 * d + r)
  BY DEF Element, Cell, Shape
<1>4. a \in Nat /\ b \in Nat /\ at["A"] = 32 * a /\ at["B"] = 32 * b
  BY AlignedIs
<1> HIDE DEF a, b
<1>5. (32 * a + 4 * ((8 * x + 4 * d + r) * 64 + (8 * y + 4 * e + t))) \div 32
        = a + 32 * (2 * x + d) + 8 * r + y
  BY <1>1, <1>4
<1>6. (32 * b + 4 * ((8 * y + 4 * e + t) * 64 + (8 * x + 4 * d + r))) \div 32
        = b + 32 * (2 * y + e) + 8 * t + x
  BY <1>1, <1>4
<1>7. Source = a + 32 * (2 * x + d) + 8 * r + y
  BY <1>2, <1>3, <1>4, <1>5 DEF Source
<1>8. Target = b + 32 * (2 * y + e) + 8 * t + x
  BY <1>2, <1>3, <1>4, <1>6 DEF Target
<1> QED BY <1>1, <1>7, <1>8 DEF Touches64, ABlock64, BBlock64, a, b, t, d, e

(* The state of a run of trans64.                                          *)
Under64(l) ==
  \E x \in 0 .. 7, y \in 0 .. 7, z \in 0 .. 3, r \in 0 .. 3, q \in 0 .. 3 :
    n = Place64(x, y, z, r, q) /\ Progress64(x, y, z, r, q, l)

Inv64 ==
  /\ pc = "before" => misses <= n
  /\ pc = "load" => Under64(0)
  /\ pc = "store" => Under64(1)
  /\ pc = "after" => misses <= 1428
  /\ pc \in {"validate", "valid", "invalid"} => misses <= 1429

(* At the beginning of a larger block nothing need be in the cache.        *)
LEMMA Begins64 ==
  ASSUME at' = at, NEW x \in 0 .. 7, NEW y \in 0 .. 7, misses' <= Base64(x, y)
  PROVE  Progress64(x, y, 0, 0, 0, 0)'
<1>1. 0 \in 0 .. 3 /\ 0 \in 0 .. 1 /\ ~ (0 + 0 > 0)
  OBVIOUS
<1>2. \A k \in 0 .. 3 : ~ KeptA64(x, y, 0, 0, 0, 0, k)
  BY <1>1 DEF KeptA64
<1>3. \A c \in 0 .. 3 : ~ KeptB64(x, y, 0, 0, 0, 0, c)
  BY <1>1 DEF KeptB64, Filling
<1>4. Base64(x, y) \in Int
  BY DEF Base64
<1>5. Misses64(x, y, 0, 0, 0, 0) = Base64(x, y)
  BY <1>1, <1>4 DEF Misses64, Start64, OfRows, OfFilling
<1> QED BY <1>1, <1>2, <1>3, <1>5, Progress64Next

(* After a larger block comes the next one.                                *)
LEMMA Next64 ==
  ASSUME at' = at, NEW x \in 0 .. 7, NEW y \in 0 .. 7, misses' \in Nat,
         misses' <= Base64(x, y) + (IF x = y THEN 38 ELSE 20)
  PROVE  /\ y < 7 => Progress64(x, y + 1, 0, 0, 0, 0)'
         /\ y = 7 /\ x < 7 => Progress64(x + 1, 0, 0, 0, 0, 0)'
         /\ y = 7 /\ x = 7 => misses' <= 1428
<1>1. CASE y < 7
  <2>1. y + 1 \in 0 .. 7 /\ misses' <= Base64(x, y + 1)
    BY <1>1 DEF Base64
  <2> QED BY <1>1, <2>1, Begins64
<1>2. CASE y = 7 /\ x < 7
  <2>1. x + 1 \in 0 .. 7 /\ 0 \in 0 .. 7 /\ misses' <= Base64(x + 1, 0)
    BY <1>2 DEF Base64
  <2> QED BY <1>2, <2>1, Begins64
<1>3. CASE y = 7 /\ x = 7
  BY <1>3 DEF Base64
<1> QED BY <1>1, <1>2, <1>3

(* A load of trans64.                                                      *)
LEMMA Load64Step ==
  ASSUME Inv, Aligned, Shape(64, 64), Inv64, Load
  PROVE  Inv64'
<1>1. /\ pc = "load" /\ n' = n /\ pc' = "store" /\ at' = at /\ Referenced(Source)
  BY LoadIs DEF Inv
<1>2. PICK x \in 0 .. 7, y \in 0 .. 7, z \in 0 .. 3, r \in 0 .. 3, q \in 0 .. 3 :
        n = Place64(x, y, z, r, q) /\ Progress64(x, y, z, r, q, 0)
  <2>1. Under64(0)
    BY <1>1 DEF Inv64
  <2> QED BY <2>1 DEF Under64
<1>3. Source = ABlock64(x, y, Lower(z), r)
  BY <1>2, Visit64Is DEF Inv, Touches64
<1>4. Progress64(x, y, z, r, q, 1)'
  <2>1. TypeOK /\ Referenced(ABlock64(x, y, Lower(z), r))
    BY <1>1, <1>3 DEF Inv
  <2> QED BY <1>1, <1>2, <2>1, Load64Kept
<1>5. Place64(x, y, z, r, q)' = Place64(x, y, z, r, q)
  BY DEF Place64
<1>6. Under64(1)'
  BY <1>1, <1>2, <1>4, <1>5 DEF Under64
<1> QED BY <1>1, <1>6 DEF Inv64

(* A store of trans64.                                                     *)
LEMMA Store64Step ==
  ASSUME Inv, Aligned, Shape(64, 64), Inv64, Store
  PROVE  Inv64'
<1>1. /\ pc = "store" /\ at' = at /\ Target \in Nat /\ Referenced(Target)
      /\ \/ n < 4096 /\ pc' = "load" /\ n' = n + 1
         \/ n = 4096 /\ pc' = "after" /\ n' = 0
  <2>1. M * N = 4096
    BY DEF Shape
  <2> QED BY <2>1, StoreIs DEF Inv
<1>2. PICK x \in 0 .. 7, y \in 0 .. 7, z \in 0 .. 3, r \in 0 .. 3, q \in 0 .. 3 :
        n = Place64(x, y, z, r, q) /\ Progress64(x, y, z, r, q, 1)
  <2>1. Under64(1)
    BY <1>1 DEF Inv64
  <2> QED BY <2>1 DEF Under64
<1> DEFINE t == Turn64(r, q)
<1>3. TypeOK /\ t \in 0 .. 3 /\ Referenced(BBlock64(x, y, Later(z), t))
  <2>1. TypeOK
    BY DEF Inv
  <2>2. Touches64(x, y, z, r, q)
    BY <1>2, <2>1, Visit64Is
  <2>3. t \in 0 .. 3 /\ Target = BBlock64(x, y, Later(z), t)
    BY <2>2 DEF Touches64
  <2> HIDE DEF t
  <2> QED BY <1>1, <2>1, <2>3
<1>4. misses' \in Nat
  BY <1>1 DEF Referenced
<1>5. t = Turn64(r, q) /\ (q = 3 => t = r)
  BY DEF Turn64, Turn
<1> HIDE DEF t
<1>6. ASSUME NEW i \in 0 .. 7, NEW j \in 0 .. 7, NEW h \in 0 .. 3, NEW k \in 0 .. 3,
             NEW m \in 0 .. 3,
             n + 1 = Place64(i, j, h, k, m), Progress64(i, j, h, k, m, 0)'
      PROVE  Inv64'
  <2>1. n < 4096
    BY <1>2, <1>6 DEF Place64
  <2>2. pc' = "load" /\ n' = n + 1
    BY <1>1, <2>1
  <2>3. Place64(i, j, h, k, m)' = Place64(i, j, h, k, m)
    BY DEF Place64
  <2>4. Under64(0)'
    BY <1>6, <2>2, <2>3 DEF Under64
  <2> QED BY <2>2, <2>4 DEF Inv64
<1>7. CASE q < 3
  <2>1. q \in 0 .. 2 /\ q + 1 \in 0 .. 3 /\ n + 1 = Place64(x, y, z, r, q + 1)
    BY <1>2, <1>7 DEF Place64
  <2>2. at' = at /\ t = Turn64(r, q) /\ q \in 0 .. 2
    BY <1>1, <1>5, <2>1
  <2>3. Progress64(x, y, z, r, q, 1)
    BY <1>2
  <2>4. Progress64(x, y, z, r, q + 1, 0)'
    BY <1>3, <2>2, <2>3, NextVisit64
  <2> QED BY <1>6, <2>1, <2>4
<1>8. CASE q = 3 /\ r < 3
  <2>1. /\ r \in 0 .. 2 /\ r + 1 \in 0 .. 3 /\ 0 \in 0 .. 3
        /\ n + 1 = Place64(x, y, z, r + 1, 0)
    BY <1>2, <1>8 DEF Place64
  <2>2. Progress64(x, y, z, r, 3, 1) /\ Referenced(BBlock64(x, y, Later(z), r))
    BY <1>2, <1>3, <1>5, <1>8
  <2>3. Progress64(x, y, z, r + 1, 0, 0)'
    BY <1>1, <1>3, <2>1, <2>2, NextRow64
  <2> QED BY <1>6, <2>1, <2>3
<1>9. CASE q = 3 /\ r = 3
  <2>1. Progress64(x, y, z, 3, 3, 1) /\ Referenced(BBlock64(x, y, Later(z), 3))
    BY <1>2, <1>3, <1>5, <1>9
  <2>2. /\ z < 3 => Progress64(x, y, z + 1, 0, 0, 0)'
        /\ z = 3 => misses' <= Base64(x, y) + (IF x = y THEN 38 ELSE 20)
    BY <1>1, <1>3, <2>1, NextSmall64
  <2>3. CASE z < 3
    <3>1. z + 1 \in 0 .. 3 /\ 0 \in 0 .. 3 /\ n + 1 = Place64(x, y, z + 1, 0, 0)
      BY <1>2, <1>9, <2>3 DEF Place64
    <3> QED BY <1>6, <2>2, <2>3, <3>1
  <2>4. CASE z = 3
    <3>1. /\ y < 7 => Progress64(x, y + 1, 0, 0, 0, 0)'
          /\ y = 7 /\ x < 7 => Progress64(x + 1, 0, 0, 0, 0, 0)'
          /\ y = 7 /\ x = 7 => misses' <= 1428
      BY <1>1, <1>4, <2>2, <2>4, Next64
    <3>2. CASE y < 7
      <4>1. y + 1 \in 0 .. 7 /\ 0 \in 0 .. 3 /\ n + 1 = Place64(x, y + 1, 0, 0, 0)
        BY <1>2, <1>9, <2>4, <3>2 DEF Place64
      <4> QED BY <1>6, <3>1, <3>2, <4>1, ZenonT(40)
    <3>3. CASE y = 7 /\ x < 7
      <4>1. /\ x + 1 \in 0 .. 7 /\ 0 \in 0 .. 7 /\ 0 \in 0 .. 3
            /\ n + 1 = Place64(x + 1, 0, 0, 0, 0)
        BY <1>2, <1>9, <2>4, <3>3 DEF Place64
      <4> QED BY <1>6, <3>1, <3>3, <4>1, ZenonT(40)
    <3>4. CASE y = 7 /\ x = 7
      <4>1. n = 4096
        BY <1>2, <1>9, <2>4, <3>4 DEF Place64
      <4>2. pc' = "after" /\ misses' <= 1428
        BY <1>1, <3>1, <3>4, <4>1
      <4> QED BY <4>2 DEF Inv64
    <3> QED BY <3>2, <3>3, <3>4
  <2> QED BY <2>3, <2>4
<1> QED BY <1>7, <1>8, <1>9

(* Every step of a run of trans64.                                         *)
LEMMA Inv64Kept ==
  ASSUME Inv, Aligned, Shape(64, 64), Inv64, [Next]_vars
  PROVE  Inv64'
<1>1. CASE Mark
  <2>1. /\ pc = "before" /\ n \in 0 .. 3 /\ Refers
        /\ \/ n < 3 /\ pc' = "before" /\ n' = n + 1
           \/ n = 3 /\ ~ Supported /\ pc' = "after" /\ n' = 0
           \/ n = 3 /\ Supported /\ pc' = "load" /\ n' = 1
    BY <1>1, MarkIs DEF Inv
  <2>2. PICK block \in Nat : Referenced(block)
    BY <2>1 DEF Refers
  <2>3. misses \in Nat /\ misses' \in Nat /\ misses' <= misses + 1 /\ misses <= n
    BY <2>1, <2>2, MissesAtMost DEF Inv, Inv64
  <2>4. misses' <= n + 1
    BY <2>1, <2>3
  <2>5. CASE n < 3
    BY <2>1, <2>4, <2>5 DEF Inv64
  <2>6. CASE n = 3
    <3>1. pc' = "load" /\ n' = 1
      BY <2>1, <2>6 DEF Supported
    <3>2. 0 \in 0 .. 7 /\ misses' <= Base64(0, 0) /\ at' = at
      BY <2>1, <2>4, <2>6 DEF Base64, Refers
    <3>3. Progress64(0, 0, 0, 0, 0, 0)'
      BY <3>2, Begins64
    <3>4. n' = Place64(0, 0, 0, 0, 0)' /\ 0 \in 0 .. 3
      BY <3>1 DEF Place64
    <3>5. Under64(0)'
      BY <3>2, <3>3, <3>4 DEF Under64
    <3> QED BY <3>1, <3>5 DEF Inv64
  <2> QED BY <2>1, <2>5, <2>6
<1>2. CASE Load
  BY <1>2, Load64Step
<1>3. CASE Store
  BY <1>3, Store64Step
<1>4. CASE MarkEnd
  <2>1. pc = "after" /\ Refers /\ pc' = "validate"
    BY <1>4, MarkEndIs DEF Inv
  <2>2. PICK block \in Nat : Referenced(block)
    BY <2>1 DEF Refers
  <2>3. misses \in Nat /\ misses' \in Nat /\ misses' <= misses + 1 /\ misses <= 1428
    BY <2>1, <2>2, MissesAtMost DEF Inv, Inv64
  <2>4. misses' <= 1429
    BY <2>3
  <2> QED BY <2>1, <2>4 DEF Inv64
<1>5. CASE Validate
  <2>1. /\ pc = "validate" /\ misses' = misses /\ pc' \in {"valid", "invalid"}
    BY <1>5 DEF Validate, Goto
  <2> QED BY <2>1 DEF Inv64
<1>6. CASE Ended \/ UNCHANGED vars
  <2>1. /\ pc' = pc /\ n' = n /\ misses' = misses /\ sets' = sets /\ at' = at
    BY <1>6 DEF Ended, vars
  <2>2. \A l : Under64(l)' = Under64(l)
    BY <2>1 DEF Under64, Place64, Progress64, Misses64, Base64, Start64, OfRows,
                OfFilling, KeptA64, KeptB64, Filling, ABlock64, BBlock64, Lower,
                Later, Alpha, Beta, In
  <2> QED BY <2>1, <2>2 DEF Inv64
<1> QED BY <1>1, <1>2, <1>3, <1>4, <1>5, <1>6 DEF Next

(* 64x64: at most 1429 misses, the 1427 of the comment at trans.c:64 and   *)
(* two more, wherever the linker puts the small globals, if A is aligned   *)
(* to a block.                                                             *)
THEOREM Misses64x64 == Spec => [](Aligned /\ Finished /\ Shape(64, 64) => misses <= 1429)
<1> DEFINE J == Inv /\ (Aligned /\ Shape(64, 64) => Inv64)
<1>1. Init => J
  <2>1. Init => Inv
    BY InitOK DEF Inv
  <2>2. Init => Inv64
    BY DEF Init, Inv64
  <2> QED BY <2>1, <2>2
<1>2. J /\ [Next]_vars => J'
  <2> SUFFICES ASSUME J, [Next]_vars PROVE J'
    OBVIOUS
  <2>1. Inv'
    BY InvKept
  <2>2. size' = size /\ at' = at
    BY Fixed
  <2>3. Aligned' = Aligned /\ Shape(64, 64)' = Shape(64, 64)
    BY <2>2 DEF Aligned, Shape, M, N
  <2>4. Aligned /\ Shape(64, 64) => Inv64'
    BY Inv64Kept
  <2> QED BY <2>1, <2>3, <2>4
<1>3. J => (Aligned /\ Finished /\ Shape(64, 64) => misses <= 1429)
  BY DEF Inv64, Finished
<1> QED BY <1>1, <1>2, <1>3, PTL DEF Spec
============================================================================
