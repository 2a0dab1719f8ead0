---------------------------- MODULE Views_proofs -----------------------------
(***************************************************************************)
(* Proofs about buffers that share a store, for any size of the store and  *)
(* any number of views handed to readv and writev.                         *)
(***************************************************************************)
EXTENDS Views, SequenceTheorems, WellFoundedInduction, TLAPS

-----------------------------------------------------------------------------
(* Induction, and functions defined by recursion over the numbers to m.    *)

(* Induction over numbers, stated of the set of the numbers that have the  *)
(* property, so that provers without operator variables can use it.        *)
LEMMA InductionOverNat ==
  ASSUME NEW T \in SUBSET Nat, 0 \in T, \A n \in T : n + 1 \in T
  PROVE  T = Nat
<1> DEFINE R == OpToRel(<, Nat)
<1>1. ASSUME NEW m \in Nat \ T, \A k \in Nat \ T : <<k, m>> \notin R
      PROVE  FALSE
  <2>1. m - 1 \in Nat /\ m = (m - 1) + 1
    OBVIOUS
  <2>2. <<m - 1, m>> \in R
    BY <2>1 DEF R, OpToRel
  <2> QED
    BY <1>1, <2>1, <2>2
<1>2. IsWellFoundedOn(R, Nat)
  BY NatLessThanWellFounded
<1> HIDE DEF R
<1>3. Nat \ T # {} => \E m \in Nat \ T : \A k \in Nat \ T : ~(<<k, m>> \in R)
  BY <1>2, WFMin
<1> QED
  BY <1>1, <1>3

(* What holds of 0, and of the next number below m, holds of all up to m.  *)
LEMMA InductionUpTo ==
  ASSUME NEW m \in Nat, NEW T, 0 \in T, \A k \in 0..m : k \in T /\ k + 1 <= m => k + 1 \in T
  PROVE  0..m \subseteq T
<1> DEFINE U == {k \in Nat : k <= m => k \in T}
<1>1. 0 \in U /\ \A k \in U : k + 1 \in U
  OBVIOUS
<1>2. U \in SUBSET Nat
  OBVIOUS
<1> HIDE DEF U
<1>3. U = Nat
  BY <1>1, <1>2, InductionOverNat
<1> QED
  BY <1>3 DEF U

(* f is the function that begins with base and goes on by step.            *)
Follows(f, base, step, m) == f = [i \in 0..m |-> IF i = 0 THEN base ELSE step[<<i, f[i - 1]>>]]

LEMMA RecursionExists ==
  ASSUME NEW S, NEW base \in S, NEW m \in Nat, NEW step \in [(1..m) \X S -> S]
  PROVE  \E f \in [0..m -> S] : Follows(f, base, step, m)
<1> DEFINE T == {k \in Nat : k <= m => \E f \in [0..k -> S] : Follows(f, base, step, k)}
<1>1. 0 \in T
  <2> DEFINE f == [i \in 0..0 |-> base]
  <2>1. f \in [0..0 -> S] /\ Follows(f, base, step, 0)
    BY DEF Follows
  <2> QED
    BY <2>1
<1>2. ASSUME NEW k \in T PROVE k + 1 \in T
  <2> SUFFICES ASSUME k + 1 <= m
               PROVE  \E f \in [0..k + 1 -> S] : Follows(f, base, step, k + 1)
    OBVIOUS
  <2>1. PICK g \in [0..k -> S] : Follows(g, base, step, k)
    OBVIOUS
  <2> DEFINE next(i) == IF i = 0 THEN base ELSE step[<<i, g[i - 1]>>]
             f == [i \in 0..k + 1 |-> next(i)]
  <2>2. ASSUME NEW i \in 0..k + 1 PROVE next(i) \in S
    <3>1. CASE i # 0
      <4>1. i \in 1..m /\ i - 1 \in 0..k
        BY <3>1
      <4> QED
        BY <2>1, <3>1, <4>1
    <3> QED
      BY <3>1
  <2>3. ASSUME NEW i \in 0..k PROVE f[i] = g[i]
    <3>1. i \in 0..k + 1
      OBVIOUS
    <3>2. g[i] = next(i)
      BY <2>1 DEF Follows
    <3> QED
      BY <3>1, <3>2
  <2>4. ASSUME NEW i \in 0..k + 1
        PROVE  f[i] = IF i = 0 THEN base ELSE step[<<i, f[i - 1]>>]
    <3>1. CASE i # 0
      <4>1. i - 1 \in 0..k
        BY <3>1
      <4> QED
        BY <2>3, <3>1, <4>1
    <3> QED
      BY <3>1
  <2>5. f \in [0..k + 1 -> S] /\ Follows(f, base, step, k + 1)
    BY <2>2, <2>4 DEF Follows
  <2> QED
    BY <2>5
<1> HIDE DEF T
<1>3. T = Nat
  <2>1. T \subseteq Nat
    BY DEF T
  <2> QED
    BY <1>1, <1>2, <2>1, InductionOverNat
<1> QED
  BY <1>3 DEF T

-----------------------------------------------------------------------------
(* Runs of cells and the bytes put into them.                              *)

LEMMA RunsOfCells ==
  ASSUME NEW from \in Int, NEW len \in Nat, NEW n \in 0..len
  PROVE  /\ Run(from, len) \in Seq(Int) /\ Len(Run(from, len)) = len
         /\ \A i \in 1..len : Run(from, len)[i] = from + i - 1
         /\ SubSeq(Run(from, len), 1, n) = Run(from, n)
         /\ IsPrefix(Run(from, n), Run(from, len))
<1>1. /\ Run(from, len) \in Seq(Int) /\ Len(Run(from, len)) = len
      /\ \A i \in 1..len : Run(from, len)[i] = from + i - 1
  BY DEF Run
<1>2. /\ Run(from, n) \in Seq(Int) /\ Len(Run(from, n)) = n
      /\ \A i \in 1..n : Run(from, n)[i] = from + i - 1
  BY DEF Run
<1>3. SubSeq(Run(from, len), 1, n) = Run(from, n)
  BY <1>1, <1>2
<1>4. SubSeq(Run(from, n), 1, n) = Run(from, n)
  BY <1>2
<1> QED
  BY <1>1, <1>2, <1>3, <1>4 DEF IsPrefix

(* Some cells and a run of further ones.                                   *)
LEMMA JoinedRun ==
  ASSUME NEW cells \in Seq(Int), NEW at \in Int, NEW n \in Nat
  PROVE  /\ cells \o Run(at, n) \in Seq(Int)
         /\ Len(cells) \in Nat /\ Len(cells \o Run(at, n)) = Len(cells) + n
         /\ \A i \in 1..Len(cells) : (cells \o Run(at, n))[i] = cells[i]
         /\ \A i \in Len(cells) + 1..Len(cells) + n :
              (cells \o Run(at, n))[i] = at + (i - Len(cells)) - 1
<1> DEFINE run == Run(at, n)
<1>1. run \in Seq(Int) /\ Len(run) = n /\ \A i \in 1..n : run[i] = at + i - 1
  BY RunsOfCells
<1> HIDE DEF run
<1>2. Len(cells) \in Nat /\ DOMAIN cells = 1..Len(cells)
  OBVIOUS
<1>3. /\ cells \o run \in Seq(Int) /\ Len(cells \o run) = Len(cells) + n
      /\ \A i \in 1..Len(cells) + n :
           (cells \o run)[i] = IF i <= Len(cells) THEN cells[i] ELSE run[i - Len(cells)]
  <2>1. Len(cells \o run) = Len(cells) + Len(run) /\ cells \o run \in Seq(Int)
    BY <1>1, ConcatProperties
  <2>2. \A i \in 1..Len(cells) + Len(run) :
           (cells \o run)[i] = IF i <= Len(cells) THEN cells[i] ELSE run[i - Len(cells)]
    BY <1>1, ConcatProperties
  <2> QED
    BY <1>1, <2>1, <2>2
<1>4. \A i \in Len(cells) + 1..Len(cells) + n :
        (cells \o run)[i] = at + (i - Len(cells)) - 1
  <2>1. ASSUME NEW i \in Len(cells) + 1..Len(cells) + n
        PROVE  i \in 1..Len(cells) + n /\ ~(i <= Len(cells)) /\ i - Len(cells) \in 1..n
    BY <1>2
  <2> QED
    BY <1>1, <1>3, <2>1
<1>5. \A i \in 1..Len(cells) : (cells \o run)[i] = cells[i]
  <2>1. \A i \in 1..Len(cells) : i \in 1..Len(cells) + n /\ i <= Len(cells)
    BY <1>2
  <2> QED
    BY <1>3, <2>1
<1> QED
  BY <1>2, <1>3, <1>4, <1>5 DEF run

(* The last of some places, and 0 when there is none.                      *)
LastOf(places) == IF places = {} THEN 0 ELSE CHOOSE i \in places : \A j \in places : j <= i

LEMMA LastPlace ==
  ASSUME NEW places \in SUBSET Int, NEW k \in places, \A j \in places : j <= k
  PROVE  LastOf(places) = k
<1>1. \E i \in places : \A j \in places : j <= i
  OBVIOUS
<1>2. ASSUME NEW i \in places, \A j \in places : j <= i PROVE i = k
  BY <1>2
<1> QED
  BY <1>1, <1>2 DEF LastOf

(* Bytes put into a run of cells after others: those cells have the new    *)
(* bytes, all other cells what they had.                                   *)
LEMMA FilledMore ==
  ASSUME NEW cells \in Seq(Int), NEW at \in Int, NEW n \in Nat
  PROVE  Filled(cells \o Run(at, n)) =
           [c \in Cells |-> IF c \in at..at + n - 1 THEN Len(cells) + (c - at) + 1
                            ELSE Filled(cells)[c]]
<1> DEFINE all == cells \o Run(at, n)
           places(s, c) == {i \in DOMAIN s : s[i] = c}
<1>1. /\ DOMAIN all = 1..Len(cells) + n /\ DOMAIN cells = 1..Len(cells) /\ Len(cells) \in Nat
      /\ \A i \in 1..Len(cells) : all[i] = cells[i]
      /\ \A i \in Len(cells) + 1..Len(cells) + n : all[i] = at + (i - Len(cells)) - 1
  <2>1. all \in Seq(Int) /\ Len(all) = Len(cells) + n
    BY JoinedRun
  <2>2. /\ \A i \in 1..Len(cells) : all[i] = cells[i]
        /\ \A i \in Len(cells) + 1..Len(cells) + n : all[i] = at + (i - Len(cells)) - 1
    BY JoinedRun
  <2> HIDE DEF all, places
  <2>3. DOMAIN all = 1..Len(all) /\ DOMAIN cells = 1..Len(cells) /\ Len(cells) \in Nat
    BY <2>1
  <2> QED
    BY <2>1, <2>2, <2>3
<1>2. ASSUME NEW s PROVE Filled(s) = [c \in Cells |-> LastOf(places(s, c))]
  BY DEF Filled, LastOf
<1>3. ASSUME NEW c \in Cells, c \in at..at + n - 1
      PROVE  LastOf(places(all, c)) = Len(cells) + (c - at) + 1
  <2> DEFINE k == Len(cells) + (c - at) + 1
  <2>1. k \in Len(cells) + 1..Len(cells) + n /\ at + (k - Len(cells)) - 1 = c /\ c \in Int
    BY <1>1, <1>3 DEF Cells
  <2> HIDE DEF k, all
  <2>2. ASSUME NEW i \in DOMAIN all, all[i] = c PROVE i <= k
    BY <1>1, <1>3, <2>1, <2>2
  <2>3. k \in DOMAIN all /\ all[k] = c
    <3>1. k \in 1..Len(cells) + n
      BY <1>1, <2>1
    <3> QED
      BY <1>1, <2>1, <3>1
  <2>4. k \in places(all, c) /\ places(all, c) \in SUBSET Int /\ \A j \in places(all, c) : j <= k
    BY <1>1, <2>2, <2>3
  <2> HIDE DEF places
  <2>5. LastOf(places(all, c)) = k
    BY <2>4, LastPlace
  <2> QED
    BY <2>5 DEF k
<1>4. ASSUME NEW c \in Cells, c \notin at..at + n - 1
      PROVE  places(all, c) = places(cells, c)
  <2>1. c \in Int
    BY DEF Cells
  <2> QED
    BY <1>1, <1>4, <2>1
<1> HIDE DEF all, places
<1>5. /\ \A c \in Cells : Filled(cells)[c] = LastOf(places(cells, c))
      /\ Filled(all) = [c \in Cells |-> LastOf(places(all, c))]
  BY <1>2
<1>6. Filled(all) = [c \in Cells |-> IF c \in at..at + n - 1 THEN Len(cells) + (c - at) + 1
                                     ELSE Filled(cells)[c]]
  BY <1>3, <1>4, <1>5
<1> QED
  BY <1>6 DEF all
-----------------------------------------------------------------------------
(* The cells of several views.                                             *)

(* They are those of the first views followed by those of the next.        *)
LEMMA CellsOfGrows ==
  ASSUME NEW views \in Seq(Views)
  PROVE  \E upto \in [0..Len(views) -> Seq(Int)] :
           /\ upto[0] = <<>> /\ CellsOf(views) = upto[Len(views)]
           /\ \A i \in 1..Len(views) : upto[i] = upto[i - 1] \o Run(views[i].at, views[i].len)
<1> DEFINE m == Len(views)
           run(i) == Run(views[i].at, views[i].len)
           step == [p \in (1..m) \X Seq(Int) |-> p[2] \o run(p[1])]
<1>1. m \in Nat /\ <<>> \in Seq(Int)
  OBVIOUS
<1>2. ASSUME NEW i \in 1..m PROVE run(i) \in Seq(Int)
  <2>1. views[i] \in Views
    OBVIOUS
  <2>2. views[i].at \in Int /\ views[i].len \in Nat
    BY <2>1, SizesAreNat DEF Views
  <2> QED
    BY <2>2 DEF Run
<1> HIDE DEF run, m
<1>3. step \in [(1..m) \X Seq(Int) -> Seq(Int)]
  BY <1>2
<1>4. PICK f \in [0..m -> Seq(Int)] : Follows(f, <<>>, step, m)
  <2> HIDE DEF step
  <2> QED
    BY <1>1, <1>3, RecursionExists
<1>5. f = [i \in 0..m |-> IF i = 0 THEN <<>> ELSE f[i - 1] \o run(i)]
  <2>1. ASSUME NEW i \in 0..m, i # 0 PROVE step[<<i, f[i - 1]>>] = f[i - 1] \o run(i)
    <3>1. i \in 1..m /\ i - 1 \in 0..m
      BY <1>1, <2>1
    <3> QED
      BY <1>4, <3>1
  <2> HIDE DEF step
  <2> QED
    BY <1>4, <2>1 DEF Follows
<1>6. PICK upto : /\ upto = [i \in 0..m |-> IF i = 0 THEN <<>> ELSE upto[i - 1] \o run(i)]
                  /\ CellsOf(views) = upto[m]
  BY <1>5 DEF CellsOf, m, run
<1>7. upto[0] = <<>> /\ \A i \in 1..m : upto[i] = upto[i - 1] \o run(i)
  <2>1. \A i \in 0..m : upto[i] = IF i = 0 THEN <<>> ELSE upto[i - 1] \o run(i)
    BY <1>6
  <2>2. 0 \in 0..m /\ \A i \in 1..m : i \in 0..m /\ i # 0
    BY <1>1
  <2> QED
    BY <2>1, <2>2
<1> DEFINE T == {k \in 0..m : upto[k] \in Seq(Int)}
<1>8. 0 \in T
  <2>1. 0 \in 0..m
    BY <1>1
  <2> QED
    BY <1>1, <1>7, <2>1
<1>9. ASSUME NEW k \in T, k + 1 <= m PROVE k + 1 \in T
  <2>1. k + 1 \in 1..m /\ k + 1 \in 0..m /\ (k + 1) - 1 = k /\ upto[k] \in Seq(Int)
    BY <1>1, <1>9
  <2>2. run(k + 1) \in Seq(Int) /\ upto[k + 1] = upto[k] \o run(k + 1)
    BY <1>2, <1>7, <2>1
  <2>3. upto[k + 1] \in Seq(Int)
    BY <2>1, <2>2
  <2> QED
    BY <2>1, <2>3
<1> HIDE DEF T
<1>10. 0..m \subseteq T
  BY <1>1, <1>8, <1>9, InductionUpTo
<1>11. upto \in [0..m -> Seq(Int)]
  BY <1>6, <1>10 DEF T
<1> QED
  BY <1>6, <1>7, <1>11 DEF m, run

(* The bytes that were copied when readv has done with these cells.        *)
Copied(cells, total) ==
  LET n == Least(total, Len(cells))
  IN [offset |-> n, store |-> Filled(SubSeq(cells, 1, n))]

LEMMA NothingFilled == Filled(<<>>) = [c \in Cells |-> 0]
  BY DEF Filled

(* One view more.                                                          *)
LEMMA CopyIntoCopiesMore ==
  ASSUME NEW v \in Views, NEW cells \in Seq(Int), NEW total \in Nat
  PROVE  CopyInto(v, Copied(cells, total), total) = Copied(cells \o Run(v.at, v.len), total)
<1> DEFINE more == cells \o Run(v.at, v.len)
           n == Least(total, Len(cells))
<1>1. v.at \in Int /\ v.len \in Nat /\ Len(cells) \in Nat
  BY SizesAreNat DEF Views
<1>2. /\ more \in Seq(Int) /\ Len(more) = Len(cells) + v.len
      /\ \A i \in 1..Len(cells) : more[i] = cells[i]
      /\ \A i \in Len(cells) + 1..Len(cells) + v.len : more[i] = v.at + (i - Len(cells)) - 1
  BY <1>1, JoinedRun
<1>3. Copied(cells, total).offset = n /\ Copied(cells, total).store = Filled(SubSeq(cells, 1, n))
  BY DEF Copied
<1>4. CASE total <= Len(cells)
  <2>1. n = total /\ Least(total, Len(more)) = total
    BY <1>1, <1>2, <1>4 DEF Least
  <2>2. SubSeq(more, 1, total) = SubSeq(cells, 1, total)
    BY <1>1, <1>2, <1>4
  <2>3. CopyInto(v, Copied(cells, total), total) = Copied(cells, total)
    BY <1>3, <2>1 DEF CopyInto
  <2> QED
    BY <2>1, <2>2, <2>3 DEF Copied
<1>5. CASE Len(cells) < total
  <2> DEFINE copied == Least(v.len, total - Len(cells))
  <2>1. /\ n = Len(cells) /\ copied \in 0..v.len /\ copied \in Nat
        /\ Least(total, Len(more)) = Len(cells) + copied
      <3>1. Len(more) = Len(cells) + v.len
      BY <1>2
    <3> HIDE DEF more
    <3> QED
      BY <1>1, <1>5, <3>1 DEF Least
  <2>2. SubSeq(cells, 1, n) = cells
    BY <2>1
  <2>3. SubSeq(more, 1, Len(cells) + copied) = cells \o Run(v.at, copied)
    <3> HIDE DEF copied, more
    <3>1. /\ cells \o Run(v.at, copied) \in Seq(Int)
          /\ Len(cells \o Run(v.at, copied)) = Len(cells) + copied
          /\ \A i \in 1..Len(cells) : (cells \o Run(v.at, copied))[i] = cells[i]
          /\ \A i \in Len(cells) + 1..Len(cells) + copied :
               (cells \o Run(v.at, copied))[i] = v.at + (i - Len(cells)) - 1
      BY <1>1, <2>1, JoinedRun
    <3>2. /\ SubSeq(more, 1, Len(cells) + copied) \in Seq(Int)
          /\ Len(SubSeq(more, 1, Len(cells) + copied)) = Len(cells) + copied
          /\ \A i \in 1..Len(cells) + copied :
               SubSeq(more, 1, Len(cells) + copied)[i] = more[i]
      BY <1>1, <1>2, <2>1
    <3>3. ASSUME NEW i \in 1..Len(cells) + copied
          PROVE  SubSeq(more, 1, Len(cells) + copied)[i] = (cells \o Run(v.at, copied))[i]
      <4>1. i \in 1..Len(cells) \/ i \in Len(cells) + 1..Len(cells) + copied
        BY <1>1, <2>1
      <4>2. Len(cells) + 1..Len(cells) + copied \subseteq Len(cells) + 1..Len(cells) + v.len
        BY <1>1, <2>1
      <4> QED
        BY <1>2, <3>1, <3>2, <4>1, <4>2
    <3> QED
      BY <3>1, <3>2, <3>3, SeqEqual
  <2>4. CopyInto(v, Copied(cells, total), total) =
          [offset |-> Len(cells) + copied,
           store |-> [c \in Cells |-> IF c \in v.at..v.at + copied - 1
                                        THEN Len(cells) + (c - v.at) + 1
                                        ELSE Filled(cells)[c]]]
    <3>1. Copied(cells, total).offset = Len(cells) /\ Copied(cells, total).store = Filled(cells)
      BY <1>3, <2>1, <2>2
    <3>2. ~(Len(cells) >= total)
      BY <1>1, <1>5
    <3> QED
      BY <3>1, <3>2 DEF CopyInto
  <2> HIDE DEF copied, more, n
  <2>5. Copied(more, total) = [offset |-> Len(cells) + copied,
                               store |-> Filled(cells \o Run(v.at, copied))]
    BY <2>1, <2>3 DEF Copied
  <2> QED
    BY <1>1, <2>1, <2>4, <2>5, FilledMore DEF more
<1> QED
  BY <1>1, <1>4, <1>5

(* readv's copies, all of them: the first bytes are in the cells of the    *)
(* views, as if they had been read there.                                  *)
LEMMA CopyBackFillsTheViews ==
  ASSUME NEW views \in Seq(Views), store = [c \in Cells |-> 0],
         NEW total \in 0..Len(CellsOf(views))
  PROVE  CopyBack(views, total) = Filled(SubSeq(CellsOf(views), 1, total))
<1> DEFINE m == Len(views)
<1>1. PICK upto \in [0..m -> Seq(Int)] :
        /\ upto[0] = <<>> /\ CellsOf(views) = upto[m]
        /\ \A i \in 1..m : upto[i] = upto[i - 1] \o Run(views[i].at, views[i].len)
  BY CellsOfGrows
<1>2. m \in Nat /\ m \in 0..m /\ total \in Nat /\ \A i \in 1..m : views[i] \in Views
  <2>1. upto[m] \in Seq(Int)
    BY <1>1
  <2> QED
    BY <1>1, <2>1
<1> HIDE DEF m
<1>3. Copied(<<>>, total) = [offset |-> 0, store |-> store]
  <2>1. Least(total, 0) = 0 /\ Len(<<>>) = 0 /\ SubSeq(<<>>, 1, 0) = <<>>
    BY <1>2 DEF Least
  <2> QED
    BY <2>1, NothingFilled DEF Copied
<1>4. ASSUME NEW i \in 1..m
      PROVE  /\ i - 1 \in 0..m /\ i \in 0..m /\ i # 0
             /\ CopyInto(views[i], Copied(upto[i - 1], total), total) = Copied(upto[i], total)
  <2>1. i - 1 \in 0..m /\ i \in 0..m /\ i # 0
    BY <1>2
  <2>2. views[i] \in Views /\ upto[i - 1] \in Seq(Int)
    BY <1>1, <1>2, <2>1
  <2> QED
    BY <1>1, <1>2, <2>1, <2>2, CopyIntoCopiesMore, ZenonT(40)
<1> DEFINE first == [offset |-> 0, store |-> store]
           Copies(d) == d = [i \in 0..m |-> IF i = 0 THEN first
                                              ELSE CopyInto(views[i], d[i - 1], total)]
<1>5. PICK done : Copies(done) /\ CopyBack(views, total) = done[m].store
  <2> DEFINE d == [i \in 0..m |-> Copied(upto[i], total)]
  <2>1. ASSUME NEW i \in 0..m
        PROVE  d[i] = IF i = 0 THEN first ELSE CopyInto(views[i], d[i - 1], total)
    <3>1. CASE i = 0
      BY <1>1, <1>3, <3>1
    <3>2. CASE i # 0
      <4>1. i \in 1..m
        BY <1>2, <3>2
      <4> HIDE DEF first
      <4> QED
        BY <1>4, <4>1
    <3> QED
      BY <3>1, <3>2
  <2>2. Copies(d)
    BY <2>1
  <2> HIDE DEF d
  <2>3. \E x : Copies(x)
    BY <2>2
  <2> QED
    BY <2>3 DEF CopyBack, m
<1>6. \A i \in 0..m : done[i] = IF i = 0 THEN first ELSE CopyInto(views[i], done[i - 1], total)
  BY <1>5
<1> HIDE DEF Copies, first
<1> DEFINE T == {k \in 0..m : done[k] = Copied(upto[k], total)}
<1>7. 0 \in T
  <2>1. 0 \in 0..m
    BY <1>2
  <2> QED
    BY <1>1, <1>3, <1>6, <2>1 DEF first
<1>8. ASSUME NEW k \in T, k + 1 <= m PROVE k + 1 \in T
  <2>1. k + 1 \in 1..m /\ k + 1 \in 0..m /\ k + 1 # 0 /\ (k + 1) - 1 = k
    BY <1>2, <1>8
  <2>2. done[k + 1] = CopyInto(views[k + 1], Copied(upto[k], total), total)
    BY <1>6, <2>1
  <2>3. done[k + 1] = Copied(upto[k + 1], total)
    BY <1>4, <2>1, <2>2
  <2> QED
    BY <2>1, <2>3
<1> HIDE DEF T
<1>9. 0..m \subseteq T
  BY <1>2, <1>7, <1>8, InductionUpTo
<1>10. done[m] = Copied(CellsOf(views), total)
  BY <1>1, <1>2, <1>9 DEF T
<1>11. Least(total, Len(CellsOf(views))) = total
  <2>1. Len(CellsOf(views)) \in Nat
    BY <1>1, <1>2
  <2> QED
    BY <2>1 DEF Least
<1> QED
  BY <1>5, <1>10, <1>11 DEF Copied

-----------------------------------------------------------------------------
(* The calls                                                               *)

Reads == {"readSync", "read"}
Writes == {"writeSync", "write", "writeShort"}

(* A call has the views of its kind, and moves nothing before it is made.  *)
IInv ==
  /\ call \in Scalars \union Vectors \union Files
  /\ made \in BOOLEAN
  /\ ~made => store = [c \in Cells |-> 0] /\ sent = <<>>
  /\ CallsKeepToTheirViews

LEMMA CallTypes ==
  ASSUME call \in Scalars \union Vectors \union Files
  PROVE  /\ call.views \in Seq(Views)
         /\ call.op \in Reads \union Writes \union {"writeFile"} =>
              Len(call.views) = 1 /\ call.views[1] \in Views
         /\ call.op \in Reads \union Writes =>
              /\ call.off \in Lengths /\ call.len \in Lengths
              /\ Given(call.off, 0) + Given(call.len, 0) <= call.views[1].len
<1>1. ASSUME NEW s \in BoundedSeq(Views, 1) \ {<<>>}
      PROVE  s \in Seq(Views) /\ Len(s) = 1 /\ s[1] \in Views
  <2>1. PICK n \in 0..1 : s \in [1..n -> Views]
    BY DEF BoundedSeq, SeqOf
  <2>2. n # 0
    BY <1>1, <2>1
  <2>3. n = 1
    BY <2>1, <2>2
  <2>4. s \in [1..1 -> Views]
    BY <2>1, <2>3
  <2>5. s \in Seq(Views) /\ Len(s) = 1
    BY <2>4
  <2> QED
    BY <2>4, <2>5
<1>2. ASSUME NEW s \in BoundedSeq(Views, MaxViews) PROVE s \in Seq(Views)
  <2>1. PICK n \in 0..MaxViews : s \in [1..n -> Views]
    BY SizesAreNat DEF BoundedSeq, SeqOf
  <2> QED
    BY <2>1
<1>3. CASE call \in Scalars
  BY <1>1, <1>3 DEF Scalars, Reads, Writes
<1>4. CASE call \in Vectors
  BY <1>2, <1>4 DEF Vectors, Reads, Writes
<1>5. CASE call \in Files
  BY <1>1, <1>5 DEF Files, Reads, Writes
<1> QED
  BY <1>3, <1>4, <1>5

(* The cells a read or a write means are a run within the store.           *)
LEMMA ScalarMeaning ==
  ASSUME call \in Scalars \union Vectors \union Files, call.op \in Reads \union Writes
  PROVE  LET v == call.views[1]
             off == Given(call.off, 0)
             len == Given(call.len, v.len - off)
         IN /\ v.at \in Nat /\ v.len \in Nat /\ v.at + v.len <= StoreSize /\ StoreSize \in Nat
            /\ off \in Nat /\ len \in Nat /\ off + len <= v.len
            /\ Meant = Run(v.at + off, len)
<1> DEFINE v == call.views[1]
           off == Given(call.off, 0)
           len == Given(call.len, v.len - off)
<1>1. /\ v \in Views /\ call.off \in Lengths /\ call.len \in Lengths
      /\ off + Given(call.len, 0) <= v.len
  BY CallTypes
<1>2. v.at \in Nat /\ v.len \in Nat /\ v.at + v.len <= StoreSize /\ StoreSize \in Nat
  BY <1>1, SizesAreNat DEF Views
<1>3. off \in Nat /\ (call.len = Absent \/ call.len \in Nat)
  BY <1>1, SizesAreNat DEF Lengths, Given
<1>4. len \in Nat /\ off + len <= v.len
  <2>1. CASE call.len = Absent
    <3>1. off <= v.len /\ len = v.len - off
      BY <1>1, <1>2, <1>3, <2>1 DEF Given
    <3> HIDE DEF off, len, v
    <3> QED
      BY <1>2, <1>3, <3>1
  <2>2. CASE call.len # Absent
    BY <1>1, <1>3, <2>2 DEF Given
  <2> QED
    BY <2>1, <2>2
<1>5. Meant = Run(v.at + off, len)
  BY DEF Meant, Reads, Writes
<1> QED
  BY <1>2, <1>3, <1>4, <1>5

(* What the native layer moves of the cells it is given.                   *)
LEMMA NativeMoves ==
  ASSUME NEW from \in Nat, NEW len \in Nat, NEW run \in NativeRuns(from, len)
  PROVE  \E n \in 0..len : run = Run(from, n)
<1>1. Run(from, 0) = <<>>
  BY DEF Run
<1> QED
  BY <1>1 DEF NativeRuns

(* Moving nothing is moving a first part of the cells.                     *)
LEMMA NothingIsPrefix ==
  ASSUME NEW cells \in Seq(Int)
  PROVE  IsPrefix(<<>>, cells) /\ 0 \in 0..Len(cells) /\ SubSeq(cells, 1, 0) = <<>>
  BY DEF IsPrefix

(* Bytes that are read go to the cells meant.                              *)
LEMMA ReadStep ==
  ASSUME IInv, ~made, call.op \in Reads, Scalar
  PROVE  sent' = <<>> /\ \E n \in 0..Len(Meant) : store' = Filled(SubSeq(Meant, 1, n))
<1> DEFINE v == call.views[1]
           off == Given(call.off, 0)
           len == Given(call.len, v.len - off)
<1>1. /\ v.at \in Nat /\ off \in Nat /\ len \in Nat /\ Meant = Run(v.at + off, len)
  BY ScalarMeaning DEF IInv
<1>2. PICK run \in NativeRuns(v.at + off, len) : store' = Filled(run)
  BY DEF Scalar, Reads, OffsetInStore, ReadLength
<1> HIDE DEF v, off, len
<1>3. v.at + off \in Nat /\ v.at + off \in Int
  BY <1>1
<1>4. PICK n \in 0..len : run = Run(v.at + off, n)
  BY <1>1, <1>2, <1>3, NativeMoves
<1>5. Len(Meant) = len /\ SubSeq(Meant, 1, n) = Run(v.at + off, n)
  BY <1>1, <1>3, <1>4, RunsOfCells
<1>6. sent' = <<>>
  BY DEF Scalar, Reads, IInv
<1> QED
  BY <1>2, <1>4, <1>5, <1>6

(* What is written comes from the cells meant, but in the known cases.     *)
LEMMA WriteStep ==
  ASSUME IInv, ~made, call.op \in Writes, Scalar
  PROVE  /\ UNCHANGED store
         /\ \/ WritesBeyond
            \/ WritesWhatIsLeft /\ \A i \in DOMAIN sent' :
                 sent'[i] \in call.views[1].at..call.views[1].at + call.views[1].len - 1
            \/ IsPrefix(sent', Meant)
<1> DEFINE v == call.views[1]
           off == Given(call.off, 0)
           len == Given(call.len, v.len - off)
           asked == WriteLength(call, v, off)
<1>1. /\ v.at \in Nat /\ v.len \in Nat /\ off \in Nat /\ len \in Nat /\ off + len <= v.len
      /\ Meant = Run(v.at + off, len)
  BY ScalarMeaning DEF IInv
<1>2. UNCHANGED store /\ sent' \in NativeRuns(v.at + off, asked)
  BY DEF Scalar, Writes, Reads, OffsetInStore
<1>3. CASE call.len # Absent /\ call.len # 0
  <2>1. asked = len
    BY <1>3 DEF WriteLength, Given, Writes
  <2>2. PICK n \in 0..len : sent' = Run(v.at + off, n)
    <3> HIDE DEF v, off, len, asked
    <3> QED
      BY <1>1, <1>2, <2>1, NativeMoves
  <2> HIDE DEF v, off, len, asked
  <2>3. IsPrefix(sent', Meant)
    BY <1>1, <2>2, RunsOfCells
  <2> QED
    BY <1>2, <2>3
<1>4. CASE call.len = 0
  <2>1. asked = v.len - off /\ len = 0
    BY <1>4, AbsentIsNoLength DEF WriteLength, Given, Writes
  <2>2. PICK n \in 0..v.len - off : sent' = Run(v.at + off, n)
    <3> HIDE DEF v, off, len, asked
    <3>1. v.len - off \in Nat /\ v.at + off \in Nat
      BY <1>1
    <3> QED
      BY <1>2, <2>1, <3>1, NativeMoves
  <2>3. ASSUME NEW i \in DOMAIN sent' PROVE sent'[i] \in v.at..v.at + v.len - 1
    <3> HIDE DEF v, off, len, asked
    <3>1. i \in 1..n /\ sent'[i] = v.at + off + i - 1
      BY <2>2, <2>3 DEF Run
    <3> QED
      BY <1>1, <2>2, <3>1
  <2>4. WritesWhatIsLeft
    BY <1>4 DEF WritesWhatIsLeft, Writes
  <2> QED
    BY <1>2, <2>3, <2>4
<1>5. CASE call.len = Absent
  <2>1. len = v.len - off
    BY <1>5 DEF Given
  <2>2. CASE call.op = "write" /\ call.off \notin {0, Absent}
    BY <1>2, <1>5, <2>2 DEF WritesBeyond
  <2>3. CASE ~(call.op = "write" /\ call.off \notin {0, Absent})
    <3>1. call.op = "write" => off = 0
      BY <2>3 DEF Given
    <3>2. asked = len
      <4>1. CASE call.op = "write"
        <5>1. asked = IF v.len = 0 THEN v.len - off ELSE v.len
          BY <1>5, <4>1 DEF WriteLength, Given
        <5> HIDE DEF v, off, len, asked
        <5> QED
          BY <1>1, <2>1, <3>1, <4>1, <5>1
      <4>2. CASE call.op # "write"
        BY <1>5, <2>1, <4>2 DEF WriteLength, Given, Writes
      <4> QED
        BY <4>1, <4>2
    <3> HIDE DEF v, off, len, asked
    <3>3. v.at + off \in Nat
      BY <1>1
    <3>4. PICK n \in 0..len : sent' = Run(v.at + off, n)
      BY <1>1, <1>2, <3>2, <3>3, NativeMoves
    <3>5. IsPrefix(sent', Meant)
      BY <1>1, <3>3, <3>4, RunsOfCells
    <3> QED
      BY <1>2, <3>5
  <2> QED
    BY <2>2, <2>3
<1> QED
  BY <1>3, <1>4, <1>5

(* Copies that are read into go back to the cells of the views, in order.  *)
LEMMA ReadvStep ==
  ASSUME IInv, ~made, call.op = "readv", Readv
  PROVE  sent' = <<>> /\ \E n \in 0..Len(Meant) : store' = Filled(SubSeq(Meant, 1, n))
<1>1. call.views \in Seq(Views) /\ store = [c \in Cells |-> 0] /\ sent = <<>>
  BY CallTypes DEF IInv
<1>2. PICK total \in 0..Len(CellsOf(call.views)) : store' = CopyBack(call.views, total)
  BY DEF Readv
<1>3. store' = Filled(SubSeq(CellsOf(call.views), 1, total))
  BY <1>1, <1>2, CopyBackFillsTheViews
<1>4. Meant = CellsOf(call.views)
  BY DEF Meant
<1> QED
  BY <1>1, <1>2, <1>3, <1>4 DEF Readv

(* The cells of any views are a sequence, and of one view a run.           *)
LEMMA CellsOfIsSequence ==
  ASSUME NEW views \in Seq(Views)
  PROVE  /\ CellsOf(views) \in Seq(Int)
         /\ Len(views) = 1 => CellsOf(views) = Run(views[1].at, views[1].len)
<1>1. PICK upto \in [0..Len(views) -> Seq(Int)] :
        /\ upto[0] = <<>> /\ CellsOf(views) = upto[Len(views)]
        /\ \A i \in 1..Len(views) : upto[i] = upto[i - 1] \o Run(views[i].at, views[i].len)
  BY CellsOfGrows
<1>2. Len(views) \in 0..Len(views)
  OBVIOUS
<1>3. ASSUME Len(views) = 1 PROVE CellsOf(views) = Run(views[1].at, views[1].len)
  <2>1. 1 \in 1..Len(views) /\ 1 - 1 = 0
    BY <1>3
  <2>2. views[1] \in Views
    BY <2>1, ElementOfSeq
  <2>3. views[1].at \in Int /\ views[1].len \in Nat
    BY <2>2, SizesAreNat DEF Views
  <2>4. Run(views[1].at, views[1].len) \in Seq(Int)
    BY <2>3 DEF Run
  <2>5. upto[1] = upto[0] \o Run(views[1].at, views[1].len)
    BY <1>1, <2>1
  <2> QED
    BY <1>1, <1>3, <2>4, <2>5, ConcatEmptySeq
<1> QED
  BY <1>1, <1>2, <1>3

LEMMA MeantIsSequence ==
  ASSUME call \in Scalars \union Vectors \union Files,
         call.op \in Reads \union Writes \union {"readv", "writev", "writeFile"}
  PROVE  Meant \in Seq(Int)
<1>1. CASE call.op \in Reads \union Writes
  <2> DEFINE v == call.views[1]
             off == Given(call.off, 0)
             len == Given(call.len, v.len - off)
  <2>1. v.at \in Nat /\ off \in Nat /\ len \in Nat /\ Meant = Run(v.at + off, len)
    BY <1>1, ScalarMeaning
  <2> HIDE DEF v, off, len
  <2>2. v.at + off \in Int
    BY <2>1
  <2> QED
    BY <2>1, <2>2, RunsOfCells
<1>2. CASE call.op \in {"readv", "writev", "writeFile"}
  <2>1. Meant = CellsOf(call.views) /\ call.views \in Seq(Views)
    BY <1>2, CallTypes DEF Meant
  <2> QED
    BY <2>1, CellsOfIsSequence
<1> QED
  BY <1>1, <1>2

(* Copies that are written come from the cells of the views, in order.     *)
LEMMA WritevStep ==
  ASSUME IInv, ~made, call.op = "writev", Writev
  PROVE  UNCHANGED store /\ IsPrefix(sent', Meant)
<1>1. Meant = CellsOf(call.views) /\ Meant \in Seq(Int)
  BY MeantIsSequence DEF Meant, IInv
<1>2. PICK total \in 0..Len(Meant) : sent' = SubSeq(Meant, 1, total)
  BY <1>1 DEF Writev
<1>3. Len(sent') = total /\ SubSeq(sent', 1, total) = sent' /\ total <= Len(Meant)
  BY <1>1, <1>2
<1> QED
  BY <1>2, <1>3 DEF IsPrefix, Writev

(* writeFile writes the view when it is the whole store.                   *)
LEMMA WriteFileStep ==
  ASSUME IInv, ~made, call.op = "writeFile", WriteFile
  PROVE  UNCHANGED store /\ (WritesBeyond \/ IsPrefix(sent', Meant))
<1> DEFINE v == call.views[1]
<1>1. call.views \in Seq(Views) /\ Len(call.views) = 1 /\ v \in Views
  BY CallTypes DEF IInv
<1>2. v.at \in Nat /\ v.len \in Nat /\ v.at + v.len <= StoreSize /\ StoreSize \in Nat
  BY <1>1, SizesAreNat DEF Views
<1>3. CASE v.len < StoreSize
  BY <1>3 DEF WritesBeyond, WriteFile
<1>4. CASE ~(v.len < StoreSize)
  <2>1. v.at = 0 /\ v.len = StoreSize
    BY <1>2, <1>4
  <2>2. Meant = Run(0, StoreSize)
    BY <1>1, <2>1, CellsOfIsSequence DEF Meant
  <2>3. IsPrefix(Run(0, StoreSize), Run(0, StoreSize))
    BY <1>2, RunsOfCells
  <2> QED
    BY <2>2, <2>3 DEF WriteFile
<1> QED
  BY <1>3, <1>4

(* The inductive invariant: one step per kind of call.                     *)
LEMMA CallStep == IInv /\ [MakeCall]_vars => IInv'
<1> SUFFICES ASSUME IInv, [MakeCall]_vars PROVE IInv'
  OBVIOUS
<1>1. CASE UNCHANGED vars
  BY <1>1 DEF vars, IInv, CallsKeepToTheirViews, Meant, WritesBeyond, WritesWhatIsLeft
<1>2. CASE MakeCall
  <2>1. /\ ~made /\ made' = TRUE /\ UNCHANGED call
        /\ store = [c \in Cells |-> 0] /\ sent = <<>>
        /\ Meant' = Meant /\ WritesBeyond' = WritesBeyond /\ WritesWhatIsLeft' = WritesWhatIsLeft
    BY <1>2 DEF MakeCall, IInv, Meant, WritesBeyond, WritesWhatIsLeft
  <2>2. SUFFICES /\ \E n \in 0..Len(Meant) : store' = Filled(SubSeq(Meant, 1, n))
                 /\ \/ WritesBeyond
                    \/ WritesWhatIsLeft /\ \A i \in DOMAIN sent' :
                         sent'[i] \in call.views[1].at..call.views[1].at + call.views[1].len - 1
                    \/ IsPrefix(sent', Meant)
    BY <2>1 DEF IInv, CallsKeepToTheirViews
  <2>3. call.op \in Reads \union Writes \union {"readv", "writev", "writeFile"}
    BY <1>2 DEF MakeCall, Reads, Writes
  <2>4. Meant \in Seq(Int)
    BY <2>3, MeantIsSequence DEF IInv
  <2>5. IsPrefix(<<>>, Meant) /\ (UNCHANGED store =>
           \E n \in 0..Len(Meant) : store' = Filled(SubSeq(Meant, 1, n)))
    BY <2>1, <2>4, NothingIsPrefix, NothingFilled
  <2>6. CASE call.op \in Reads /\ Scalar
    BY <2>1, <2>5, <2>6, ReadStep
  <2>7. CASE call.op \in Writes /\ Scalar
    BY <2>1, <2>5, <2>7, WriteStep
  <2>8. CASE call.op = "readv" /\ Readv
    BY <2>1, <2>5, <2>8, ReadvStep
  <2>9. CASE call.op = "writev" /\ Writev
    BY <2>1, <2>5, <2>9, WritevStep
  <2>10. CASE call.op = "writeFile" /\ WriteFile
    BY <2>1, <2>5, <2>10, WriteFileStep
  <2> QED
    BY <1>2, <2>6, <2>7, <2>8, <2>9, <2>10 DEF MakeCall, Reads, Writes
<1> QED
  BY <1>1, <1>2

(* Whatever the buffers, offsets and lengths, and however many buffers are *)
(* handed to readv and writev of index.ts: what is read goes to the cells  *)
(* meant and to no others, in order, and what is written comes from the    *)
(* cells meant but in the three known cases.                               *)
THEOREM BuffersKeepApart == Spec => []CallsKeepToTheirViews
<1>1. Init => IInv
  BY DEF Init, IInv, CallsKeepToTheirViews
<1>2. IInv => CallsKeepToTheirViews
  BY DEF IInv
<1> QED
  BY <1>1, <1>2, CallStep, PTL DEF Spec
=============================================================================
