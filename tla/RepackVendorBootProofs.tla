----------------------- MODULE RepackVendorBootProofs -----------------------
(***************************************************************************)
(* Proofs about tools/repack_vendor_boot.py.  First the layout: sections   *)
(* do not overlap, and an image that was put together parses back, for     *)
(* every page size.  Then the runs: what a delivered image holds.          *)
(* ImageRoundTrips and NoEmptyFragmentDelivered are proved for any number  *)
(* of runs at once and with tools that may fail; CompletedF1IsMerge is     *)
(* proved for runs that do not overlap and tools that do not fail, without *)
(* which it does not hold.                                                 *)
(***************************************************************************)
EXTENDS RepackVendorBoot, SequenceTheorems, WellFoundedInduction, TLAPS

\* Euclid: the quotient Python's // computes.
LEMMA Quotient ==
  ASSUME NEW n \in Nat, NEW a \in Nat \ {0}
  PROVE  /\ n \div a \in Nat
         /\ (n \div a) * a \in Nat
         /\ (n \div a) * a <= n
         /\ n < (n \div a) * a + a
  OBVIOUS

\* align() rounds up, by less than a page.
LEMMA AlignRoundsUp ==
  ASSUME NEW v \in Nat, NEW a \in Nat \ {0}
  PROVE  /\ align(v, a) \in Nat
         /\ v <= align(v, a)
         /\ align(v, a) < v + a
<1>1. v + a - 1 \in Nat
  OBVIOUS
<1> DEFINE q == ((v + a - 1) \div a) * a
<1>2. q \in Nat /\ q <= v + a - 1 /\ v + a - 1 < q + a
  BY <1>1, Quotient
<1> HIDE DEF q
<1>3. v <= q /\ q < v + a
  BY <1>2
<1> QED BY <1>2, <1>3 DEF align, q

\* A header has cells, so the ramdisks start behind page 0.
LEMMA FirstPage ==
  ASSUME NEW v \in Nat \ {0}, NEW a \in Nat \ {0}
  PROVE  align(v, a) \in Nat /\ a <= align(v, a)
<1> DEFINE q == (v + a - 1) \div a
<1>1. v + a - 1 \in Nat /\ v + a - 1 >= a
  OBVIOUS
<1>2. q \in Nat /\ q * a \in Nat /\ v + a - 1 < q * a + a
  BY <1>1, Quotient
<1> HIDE DEF q
<1>3. q >= 1
  <2>1. CASE q = 0
    BY <1>1, <1>2, <2>1
  <2> QED BY <1>2, <2>1
<1>4. a <= q * a
  BY <1>2, <1>3
<1> QED BY <1>2, <1>4 DEF align, q

(***************************************************************************)
(* The sections of an image written by repack_vendor_boot.py do not        *)
(* overlap, whatever the sizes of the header, the fragments and the DTB:   *)
(* header, ramdisks, DTB and fragment table follow each other.             *)
(***************************************************************************)
THEOREM SectionsInOrder ==
  ASSUME NEW hs \in Nat, NEW rs \in Nat, NEW ds \in Nat
  PROVE  /\ hs <= RamdiskOffset(hs)
         /\ RamdiskOffset(hs) + rs <= DtbOffset(hs, rs)
         /\ DtbOffset(hs, rs) + ds <= TableOffset(hs, rs, ds)
<1>1. RamdiskOffset(hs) \in Nat /\ hs <= RamdiskOffset(hs)
  BY LayoutAssumption, AlignRoundsUp DEF RamdiskOffset
<1>2. DtbOffset(hs, rs) \in Nat /\ RamdiskOffset(hs) + rs <= DtbOffset(hs, rs)
  BY <1>1, LayoutAssumption, AlignRoundsUp DEF DtbOffset
<1>3. align(ds, PAGE_SIZE) \in Nat /\ ds <= align(ds, PAGE_SIZE)
  BY LayoutAssumption, AlignRoundsUp
<1>4. /\ TableOffset(hs, rs, ds) \in Nat
      /\ DtbOffset(hs, rs) + align(ds, PAGE_SIZE) <= TableOffset(hs, rs, ds)
  <2>1. DtbOffset(hs, rs) + align(ds, PAGE_SIZE) \in Nat
    BY <1>2, <1>3
  <2> QED BY <2>1, LayoutAssumption, AlignRoundsUp DEF TableOffset
<1> QED BY <1>1, <1>2, <1>3, <1>4

-----------------------------------------------------------------------------
\* A slice assignment, from its bounds as Python clips them.
LEMMA ClippedSlice ==
  ASSUME NEW s, NEW a, NEW b, NEW data
  PROVE  SetSlice(s, a, b, data) =
           (SubSeq(s, 1, Least(a, Len(s))) \o data)
              \o SubSeq(s, Most(Least(a, Len(s)), Least(b, Len(s))) + 1, Len(s))
BY SMTT(60) DEF SetSlice

(***************************************************************************)
(* Python's slice assignment keeps a bytearray's length exactly when the   *)
(* data fits: it is the reason why the size assertion of main() notices an *)
(* image whose last section runs past the end of the partition.            *)
(***************************************************************************)
LEMMA SetSliceLength ==
  ASSUME NEW S, NEW s \in Seq(S), NEW data \in Seq(S), NEW a \in Nat
  PROVE  /\ SetSlice(s, a, a + Len(data), data) \in Seq(S)
         /\ a + Len(data) <= Len(s) => Len(SetSlice(s, a, a + Len(data), data)) = Len(s)
         /\ (a + Len(data) > Len(s) /\ Len(data) > 0)
              => Len(SetSlice(s, a, a + Len(data), data)) > Len(s)
<1> DEFINE b  == a + Len(data)
           lo == Least(a, Len(s))
           hi == Most(lo, Least(b, Len(s)))
           head == SubSeq(s, 1, lo)
           tail == SubSeq(s, hi + 1, Len(s))
<1>1. Len(s) \in Nat /\ Len(data) \in Nat /\ b \in Nat
  OBVIOUS
<1>2. lo \in 0..Len(s) /\ hi \in lo..Len(s)
  BY <1>1 DEF Least, Most
<1>3. head \in Seq(S) /\ Len(head) = lo
  BY <1>1, <1>2
<1>4. tail \in Seq(S) /\ Len(tail) = Len(s) - hi
  <2> HIDE DEF lo, hi
  <2>1. hi \in 0..Len(s)
    BY <1>1, <1>2
  <2>2. CASE hi = Len(s)
    BY <1>1, <2>2, SubSeqProperties
  <2>3. CASE hi < Len(s)
    BY <1>1, <2>1, <2>3, SubSeqProperties
  <2> QED BY <1>1, <2>1, <2>2, <2>3
<1>5. SetSlice(s, a, b, data) = (head \o data) \o tail
  <2> HIDE DEF b
  <2> QED BY ClippedSlice
<1>6. /\ SetSlice(s, a, b, data) \in Seq(S)
      /\ Len(SetSlice(s, a, b, data)) = lo + Len(data) + (Len(s) - hi)
  <2> HIDE DEF head, tail, lo, hi
  <2> DEFINE front == head \o data
  <2>1. front \in Seq(S) /\ Len(front) = lo + Len(data)
    BY <1>3, ConcatProperties
  <2> HIDE DEF front
  <2>2. front \o tail \in Seq(S) /\ Len(front \o tail) = Len(front) + Len(tail)
    BY <2>1, <1>4, ConcatProperties
  <2>3. SetSlice(s, a, b, data) = front \o tail
    BY <1>5 DEF front
  <2> QED BY <2>1, <2>2, <2>3, <1>4
<1>7. a + Len(data) <= Len(s) => lo = a /\ hi = b
  BY <1>1 DEF Least, Most
<1>8. (a + Len(data) > Len(s)) => hi = Len(s) /\ (lo = a \/ lo = Len(s))
  BY <1>1 DEF Least, Most
<1> HIDE DEF lo, hi
<1>9. ASSUME a + Len(data) <= Len(s) PROVE Len(SetSlice(s, a, b, data)) = Len(s)
  BY <1>1, <1>6, <1>7, <1>9
<1>10. ASSUME a + Len(data) > Len(s), Len(data) > 0
       PROVE  Len(SetSlice(s, a, b, data)) > Len(s)
  BY <1>1, <1>6, <1>8, <1>10
<1> QED BY <1>6, <1>9, <1>10

\* Cell by cell, a slice assignment that fits replaces the cells it covers.
LEMMA SetSliceCells ==
  ASSUME NEW S, NEW s \in Seq(S), NEW data \in Seq(S), NEW a \in Nat,
         a + Len(data) <= Len(s)
  PROVE  \A i \in 1..Len(s) :
           SetSlice(s, a, a + Len(data), data)[i] =
             IF i \in (a + 1)..(a + Len(data)) THEN data[i - a] ELSE s[i]
<1> DEFINE b == a + Len(data)
           head == SubSeq(s, 1, a)
           tail == SubSeq(s, b + 1, Len(s))
           front == head \o data
<1>1. Len(s) \in Nat /\ Len(data) \in Nat /\ b \in Nat /\ a <= b /\ b <= Len(s)
  OBVIOUS
<1>2. SetSlice(s, a, b, data) = front \o tail
  <2>1. Least(a, Len(s)) = a /\ Least(b, Len(s)) = b /\ Most(a, b) = b
    BY <1>1 DEF Least, Most
  <2> HIDE DEF b
  <2>2. SetSlice(s, a, b, data) =
          (SubSeq(s, 1, Least(a, Len(s))) \o data)
             \o SubSeq(s, Most(Least(a, Len(s)), Least(b, Len(s))) + 1, Len(s))
    BY ClippedSlice
  <2> QED BY <2>1, <2>2
<1>3. head \in Seq(S) /\ Len(head) = a /\ \A i \in 1..a : head[i] = s[i]
  <2>1. \A i \in 1..a : s[i] \in S
    BY <1>1
  <2> QED BY <1>1, <2>1, SubSeqProperties
<1>4. /\ tail \in Seq(S) /\ Len(tail) = Len(s) - b
      /\ \A i \in 1..(Len(s) - b) : tail[i] = s[b + i]
  <2>1. \A i \in (b + 1)..Len(s) : s[i] \in S
    BY <1>1
  <2> QED BY <1>1, <2>1, SubSeqProperties
<1> HIDE DEF head, tail
<1>5. /\ front \in Seq(S) /\ Len(front) = b
      /\ \A i \in 1..b : front[i] = IF i <= a THEN s[i] ELSE data[i - a]
  BY <1>1, <1>3, ConcatProperties
<1> HIDE DEF front
<1>6. \A i \in 1..Len(s) :
        (front \o tail)[i] = IF i <= b THEN front[i] ELSE tail[i - b]
  BY <1>1, <1>4, <1>5, ConcatProperties
<1>7. ASSUME NEW i \in 1..Len(s)
      PROVE  (front \o tail)[i] = IF i \in (a + 1)..b THEN data[i - a] ELSE s[i]
  <2>1. CASE i <= b
    BY <1>1, <1>5, <1>6, <2>1
  <2>2. CASE i > b
    <3>1. i - b \in 1..(Len(s) - b) /\ b + (i - b) = i
      BY <1>1, <2>2
    <3>2. tail[i - b] = s[i]
      BY <1>4, <3>1
    <3>3. i \notin (a + 1)..b /\ ~(i <= b)
      BY <1>1, <2>2
    <3> QED BY <1>6, <3>2, <3>3
  <2>3. i <= b \/ i > b
    BY <1>1
  <2> QED BY <2>1, <2>2, <2>3
<1> QED BY <1>2, <1>7

(***************************************************************************)
(* An assignment that leaves the image as long as it was put its data      *)
(* where it belongs; one that does not has made the image longer.          *)
(***************************************************************************)
LEMMA SetSliceKept ==
  ASSUME NEW S, NEW s \in Seq(S), NEW data \in Seq(S), NEW a \in Nat
  PROVE  LET u == SetSlice(s, a, a + Len(data), data)
         IN  /\ u \in Seq(S)
             /\ Len(u) >= Len(s)
             /\ Len(u) = Len(s) =>
                  \A i \in 1..Len(s) :
                    u[i] = IF i \in (a + 1)..(a + Len(data)) THEN data[i - a] ELSE s[i]
             /\ (Len(u) = Len(s) /\ Len(data) > 0) => a + Len(data) <= Len(s)
<1> DEFINE u == SetSlice(s, a, a + Len(data), data)
<1>1. Len(s) \in Nat /\ Len(data) \in Nat
  OBVIOUS
<1>2. CASE a + Len(data) <= Len(s)
  <2>1. /\ u \in Seq(S) /\ Len(u) = Len(s)
    BY <1>2, SetSliceLength
  <2>2. \A i \in 1..Len(s) :
           u[i] = IF i \in (a + 1)..(a + Len(data)) THEN data[i - a] ELSE s[i]
    BY <1>2, SetSliceCells
  <2> HIDE DEF u
  <2>3. Len(u) >= Len(s)
    BY <1>1, <2>1
  <2> QED BY <1>2, <2>1, <2>2, <2>3 DEF u
<1>3. CASE a + Len(data) > Len(s) /\ Len(data) > 0
  <2>1. u \in Seq(S) /\ Len(u) > Len(s)
    BY <1>3, SetSliceLength
  <2> HIDE DEF u
  <2>2. Len(u) \in Nat
    BY <2>1
  <2>3. Len(u) >= Len(s) /\ Len(u) # Len(s)
    BY <1>1, <2>1, <2>2
  <2> QED BY <2>1, <2>3 DEF u
<1>4. CASE a + Len(data) > Len(s) /\ Len(data) = 0
  <2>1. data = << >>
    BY <1>4
  <2>2. Least(a, Len(s)) = Len(s) /\ Most(Len(s), Least(a + Len(data), Len(s))) = Len(s)
    BY <1>1, <1>4 DEF Least, Most
  <2>3. u = (SubSeq(s, 1, Len(s)) \o data) \o SubSeq(s, Len(s) + 1, Len(s))
    <3> DEFINE b == a + Len(data)
    <3>1. u = SetSlice(s, a, b, data)
      OBVIOUS
    <3> HIDE DEF u, b
    <3>2. SetSlice(s, a, b, data) =
            (SubSeq(s, 1, Least(a, Len(s))) \o data)
               \o SubSeq(s, Most(Least(a, Len(s)), Least(b, Len(s))) + 1, Len(s))
      BY ClippedSlice
    <3>3. Least(a, Len(s)) = Len(s) /\ Most(Len(s), Least(b, Len(s))) = Len(s)
      BY <2>2 DEF b
    <3> QED BY <3>1, <3>2, <3>3
  <2>4. SubSeq(s, Len(s) + 1, Len(s)) = << >>
    BY <1>1, SubSeqEmpty
  <2>5. SubSeq(s, 1, Len(s)) = s
    BY SubSeqFull
  <2>6. u = s
    BY <2>1, <2>3, <2>4, <2>5, ConcatEmptySeq
  <2>7. \A i \in 1..Len(s) : i \notin (a + 1)..(a + Len(data))
    BY <1>1, <1>4
  <2> HIDE DEF u
  <2>8. Len(u) >= Len(s)
    BY <1>1, <2>6
  <2> QED BY <1>1, <1>4, <2>6, <2>7, <2>8 DEF u
<1> QED BY <1>1, <1>2, <1>3, <1>4

-----------------------------------------------------------------------------
\* A run of zero cells.
LEMMA ZeroCells ==
  ASSUME NEW S, Zero \in S, NEW n \in Nat
  PROVE  Zeros(n) \in Seq(S) /\ Len(Zeros(n)) = n
<1> HIDE DEF Zero
<1> QED BY DEF Zeros

\* Page 0 of an image, with the new ramdisk size, is the template's.
LEMMA FirstCell ==
  ASSUME NEW S, NEW s \in Seq(S), NEW p \in Seq(S), Len(p) > 0
  PROVE  SetSlice(s, 0, Len(p), p)[1] = p[1]
<1> DEFINE b == Least(Len(p), Len(s))
           tail == SubSeq(s, b + 1, Len(s))
<1>1. Len(s) \in Nat /\ Len(p) \in Nat /\ b \in Nat /\ b <= Len(s)
  BY DEF Least
<1>2. SetSlice(s, 0, Len(p), p) = (SubSeq(s, 1, 0) \o p) \o tail
  <2>1. Least(0, Len(s)) = 0 /\ Most(0, b) = b
    BY <1>1 DEF Least, Most
  <2> DEFINE z == 0
  <2>2. Least(z, Len(s)) = z /\ Most(z, Least(Len(p), Len(s))) = b
    BY <2>1
  <2> HIDE DEF b, z
  <2>3. SetSlice(s, z, Len(p), p) =
          (SubSeq(s, 1, Least(z, Len(s))) \o p)
             \o SubSeq(s, Most(Least(z, Len(s)), Least(Len(p), Len(s))) + 1, Len(s))
    BY ClippedSlice
  <2>4. SetSlice(s, z, Len(p), p) = (SubSeq(s, 1, z) \o p) \o tail
    BY <2>2, <2>3
  <2> QED BY <2>4 DEF z
<1>3. SubSeq(s, 1, 0) \o p = p
  BY SubSeqEmpty, ConcatEmptySeq
<1>4. tail \in Seq(S)
  <2>1. \A i \in (b + 1)..Len(s) : s[i] \in S
    BY <1>1
  <2> HIDE DEF b
  <2> QED BY <1>1, <2>1, SubSeqProperties
<1> HIDE DEF tail
<1>5. 1 \in 1..(Len(p) + Len(tail)) /\ 1 <= Len(p)
  BY <1>1, <1>4
<1>6. (p \o tail)[1] = p[1]
  BY <1>4, <1>5, ConcatProperties
<1> QED BY <1>2, <1>3, <1>6

\* A table entry fills the template's entry size.
LEMMA TableEntryCells ==
  ASSUME NEW S, NEW es \in Nat \ {0}, NEW size, NEW off, NEW i,
         Zero \in S, Entry(size, off, i) \in S
  PROVE  /\ TableEntry(es, size, off, i) \in Seq(S)
         /\ Len(TableEntry(es, size, off, i)) = es
         /\ TableEntry(es, size, off, i)[1] = Entry(size, off, i)
<1> DEFINE e == Entry(size, off, i)
<1>1. <<e>> \in Seq(S) /\ Len(<<e>>) = 1 /\ <<e>>[1] = e
  <2> HIDE DEF e
  <2> QED BY DEF e
<1>2. Zeros(es - 1) \in Seq(S) /\ Len(Zeros(es - 1)) = es - 1
  BY ZeroCells
<1> HIDE DEF e
<1>3. /\ <<e>> \o Zeros(es - 1) \in Seq(S)
      /\ Len(<<e>> \o Zeros(es - 1)) = 1 + (es - 1)
      /\ (<<e>> \o Zeros(es - 1))[1] = e
  <2>1. 1 \in 1..(1 + (es - 1)) /\ 1 <= Len(<<e>>)
    BY <1>1
  <2> QED BY <1>1, <1>2, <2>1, ConcatProperties
<1>4. TableEntry(es, size, off, i) = <<e>> \o Zeros(es - 1)
  BY DEF TableEntry, e
<1>5. 1 + (es - 1) = es
  OBVIOUS
<1> QED BY <1>3, <1>4, <1>5 DEF e

(***************************************************************************)
(* One section is written into an image: what SetSliceKept says, for an    *)
(* image that must end as long as the partition.                           *)
(***************************************************************************)
Written(u, s, a, b, data, n) ==
  /\ Len(u) >= n
  /\ Len(u) = n =>
       /\ Len(s) = n
       /\ \A i \in 1..n : u[i] = IF i \in (a + 1)..b THEN data[i - a] ELSE s[i]
       /\ Len(data) > 0 => b <= n

LEMMA SectionWritten ==
  ASSUME NEW S, NEW s \in Seq(S), NEW data \in Seq(S), NEW a \in Nat, NEW b,
         b = a + Len(data), NEW n \in Nat, Len(s) >= n,
         NEW u, u = SetSlice(s, a, b, data)
  PROVE  u \in Seq(S) /\ Len(u) >= n /\ Written(u, s, a, b, data, n)
<1> DEFINE v == SetSlice(s, a, a + Len(data), data)
<1>1. /\ v \in Seq(S)
      /\ Len(v) >= Len(s)
      /\ Len(v) = Len(s) =>
           \A i \in 1..Len(s) :
             v[i] = IF i \in (a + 1)..(a + Len(data)) THEN data[i - a] ELSE s[i]
      /\ (Len(v) = Len(s) /\ Len(data) > 0) => a + Len(data) <= Len(s)
  BY SetSliceKept
<1>2. u = v
  OBVIOUS
<1> HIDE DEF v
<1>3. /\ u \in Seq(S)
      /\ Len(u) >= Len(s)
      /\ Len(u) = Len(s) =>
           /\ \A i \in 1..Len(s) :
                u[i] = IF i \in (a + 1)..b THEN data[i - a] ELSE s[i]
           /\ Len(data) > 0 => b <= Len(s)
  BY <1>1, <1>2
<1>4. Len(u) \in Nat /\ Len(s) \in Nat
  BY <1>3
<1>5. Len(u) >= n
  BY <1>3, <1>4
<1>6. Len(u) = n => Len(s) = n
  BY <1>3, <1>4
<1> QED BY <1>3, <1>5, <1>6 DEF Written

(***************************************************************************)
(* The layers s2 to s7 of an image, cell by cell, at offsets that follow   *)
(* each other: no section covers a cell of an earlier one.                 *)
(***************************************************************************)
Layers(n, ro, dtbo, tblo, l0, l1, ld, es,
       g0, g1, dtb, e1, e2, s2, s3, s4, s5, s6, s7) ==
  /\ n \in Nat /\ ro \in Nat /\ dtbo \in Nat /\ tblo \in Nat
  /\ l0 \in Nat /\ l1 \in Nat /\ ld \in Nat /\ es \in Nat \ {0}
  /\ 0 < ro /\ ro + l0 + l1 <= dtbo /\ dtbo + ld <= tblo /\ tblo + es + es <= n
  /\ Len(s7) = n
  /\ Written(s3, s2, ro, ro + l0, g0, n)
  /\ Written(s4, s3, ro + l0, ro + l0 + l1, g1, n)
  /\ Written(s5, s4, dtbo, dtbo + ld, dtb, n)
  /\ Written(s6, s5, tblo, tblo + es, e1, n)
  /\ Written(s7, s6, tblo + es, tblo + es + es, e2, n)

LEMMA LayersDisjoint ==
  ASSUME NEW n, NEW ro, NEW dtbo, NEW tblo, NEW l0, NEW l1, NEW ld, NEW es,
         NEW g0, NEW g1, NEW dtb, NEW e1, NEW e2,
         NEW s2, NEW s3, NEW s4, NEW s5, NEW s6, NEW s7,
         Layers(n, ro, dtbo, tblo, l0, l1, ld, es,
                g0, g1, dtb, e1, e2, s2, s3, s4, s5, s6, s7)
  PROVE  /\ s7[1] = s2[1]
         /\ \A i \in 1..l0 : s7[ro + i] = g0[i]
         /\ \A i \in 1..l1 : s7[ro + l0 + i] = g1[i]
         /\ \A i \in 1..ld : s7[dtbo + i] = dtb[i]
         /\ s7[tblo + 1] = e1[1]
         /\ s7[tblo + es + 1] = e2[1]
<1>a. /\ n \in Nat /\ ro \in Nat /\ dtbo \in Nat /\ tblo \in Nat
      /\ l0 \in Nat /\ l1 \in Nat /\ ld \in Nat /\ es \in Nat \ {0}
      /\ 0 < ro /\ ro + l0 + l1 <= dtbo /\ dtbo + ld <= tblo /\ tblo + es + es <= n
  BY DEF Layers
<1>0. /\ \A i \in 1..n : s3[i] = IF i \in (ro + 1)..(ro + l0)
                                THEN g0[i - ro] ELSE s2[i]
      /\ \A i \in 1..n : s4[i] = IF i \in (ro + l0 + 1)..(ro + l0 + l1)
                                THEN g1[i - (ro + l0)] ELSE s3[i]
      /\ \A i \in 1..n : s5[i] = IF i \in (dtbo + 1)..(dtbo + ld)
                                THEN dtb[i - dtbo] ELSE s4[i]
      /\ \A i \in 1..n : s6[i] = IF i \in (tblo + 1)..(tblo + es)
                                THEN e1[i - tblo] ELSE s5[i]
      /\ \A i \in 1..n : s7[i] = IF i \in (tblo + es + 1)..(tblo + es + es)
                                THEN e2[i - (tblo + es)] ELSE s6[i]
  BY DEF Layers, Written
<1>1. s7[1] = s2[1]
  <2>1. /\ 1 \in 1..n
        /\ 1 \notin (tblo + es + 1)..(tblo + es + es)
        /\ 1 \notin (tblo + 1)..(tblo + es)
        /\ 1 \notin (dtbo + 1)..(dtbo + ld)
        /\ 1 \notin (ro + l0 + 1)..(ro + l0 + l1)
        /\ 1 \notin (ro + 1)..(ro + l0)
    BY <1>a
  <2> QED BY <1>a, <1>0, <2>1
<1>2. ASSUME NEW i \in 1..l0 PROVE s7[ro + i] = g0[i]
  <2>1. ro + i \in 1..n /\ (ro + i) - ro = i
    BY <1>a
  <2> QED BY <1>a, <1>0, <2>1
<1>3. ASSUME NEW i \in 1..l1 PROVE s7[ro + l0 + i] = g1[i]
  <2>1. ro + l0 + i \in 1..n /\ (ro + l0 + i) - (ro + l0) = i
    BY <1>a
  <2> QED BY <1>a, <1>0, <2>1
<1>4. ASSUME NEW i \in 1..ld PROVE s7[dtbo + i] = dtb[i]
  <2>1. dtbo + i \in 1..n /\ (dtbo + i) - dtbo = i
    BY <1>a
  <2> QED BY <1>a, <1>0, <2>1
<1>5. s7[tblo + 1] = e1[1]
  <2>1. tblo + 1 \in 1..n /\ (tblo + 1) - tblo = 1
    BY <1>a
  <2> QED BY <1>a, <1>0, <2>1
<1>6. s7[tblo + es + 1] = e2[1]
  <2>1. tblo + es + 1 \in 1..n /\ (tblo + es + 1) - (tblo + es) = 1
    BY <1>a
  <2> QED BY <1>a, <1>0, <2>1
<1> QED BY <1>1, <1>2, <1>3, <1>4, <1>5, <1>6

\* The offsets are numbers, in the order of the sections.
LEMMA OffsetsInOrder ==
  ASSUME NEW hs \in Nat \ {0}, NEW rs \in Nat, NEW ds \in Nat
  PROVE  /\ RamdiskOffset(hs) \in Nat /\ PAGE_SIZE <= RamdiskOffset(hs)
         /\ DtbOffset(hs, rs) \in Nat /\ RamdiskOffset(hs) + rs <= DtbOffset(hs, rs)
         /\ TableOffset(hs, rs, ds) \in Nat
         /\ DtbOffset(hs, rs) + ds <= TableOffset(hs, rs, ds)
<1>1. RamdiskOffset(hs) \in Nat /\ PAGE_SIZE <= RamdiskOffset(hs)
  BY LayoutAssumption, FirstPage DEF RamdiskOffset
<1>2. DtbOffset(hs, rs) \in Nat
  <2>1. RamdiskOffset(hs) + rs \in Nat
    BY <1>1
  <2> QED BY <2>1, LayoutAssumption, AlignRoundsUp DEF DtbOffset
<1>3. TableOffset(hs, rs, ds) \in Nat
  <2>1. align(ds, PAGE_SIZE) \in Nat
    BY LayoutAssumption, AlignRoundsUp
  <2>2. DtbOffset(hs, rs) + align(ds, PAGE_SIZE) \in Nat
    BY <1>2, <2>1
  <2> QED BY <2>2, LayoutAssumption, AlignRoundsUp DEF TableOffset
<1> QED BY <1>1, <1>2, <1>3, SectionsInOrder

(***************************************************************************)
(* The pieces of template t that AssembleImage puts into an image with the *)
(* new fragment g1, all of them sequences of cells of S.                   *)
(***************************************************************************)
Pieces(S, t, g1, g0, dtb, p0, hdr, ds, es) ==
  /\ g0 \in Seq(S) /\ g1 \in Seq(S) /\ dtb \in Seq(S) /\ p0 \in Seq(S)
  /\ t.ds = ds /\ t.es = es /\ t.p0 = p0 /\ t.frags[1].payload = g0
  /\ Slice(t.raw, DtbStart(t), DtbStart(t) + ds) = dtb
  /\ Len(p0) = PAGE_SIZE /\ Len(dtb) = ds
  /\ hdr = [p0[1] EXCEPT !.rs = Len(g0) + Len(g1)]
  /\ hdr \in S /\ Zero \in S
  /\ Entry(Len(g0), 0, 1) \in S /\ Entry(Len(g1), Len(g0), 2) \in S

\* An image whose sections are whole where the layout puts them.
AssembledAs(S, img, g0, g1, dtb, hdr, hs, ds, es) ==
  LET rsz  == Len(g0) + Len(g1)
      ro   == RamdiskOffset(hs)
      dtbo == DtbOffset(hs, rsz)
      tblo == TableOffset(hs, rsz, ds)
  IN  /\ img \in Seq(S)
      /\ img[1] = hdr
      /\ \A i \in 1..Len(g0) : img[ro + i] = g0[i]
      /\ \A i \in 1..Len(g1) : img[ro + Len(g0) + i] = g1[i]
      /\ \A i \in 1..ds : img[dtbo + i] = dtb[i]
      /\ img[tblo + 1] = Entry(Len(g0), 0, 1)
      /\ img[tblo + es + 1] = Entry(Len(g1), Len(g0), 2)
      /\ tblo + 2 * es <= PART_SZ

(***************************************************************************)
(* The cells of an image that came out exactly as long as the partition:   *)
(* the header with the new ramdisk size, F0, the new F1, the DTB and the   *)
(* two table entries are whole where the layout puts them.                 *)
(***************************************************************************)
LEMMA AssembledCells ==
  ASSUME NEW S, NEW t, NEW g1, NEW g0, NEW dtb, NEW p0, NEW hdr,
         NEW hs \in Nat \ {0}, NEW ds \in Nat, NEW es \in Nat \ {0},
         t.hs = hs, Pieces(S, t, g1, g0, dtb, p0, hdr, ds, es),
         Len(AssembleImage(t, g1)) = PART_SZ
  PROVE  AssembledAs(S, AssembleImage(t, g1), g0, g1, dtb, hdr, hs, ds, es)
<1> DEFINE n    == PART_SZ
           l0   == Len(g0)
           l1   == Len(g1)
           rsz  == l0 + l1
           ro   == RamdiskOffset(hs)
           dtbo == DtbOffset(hs, rsz)
           tblo == TableOffset(hs, rsz, ds)
           e1   == TableEntry(es, l0, 0, 1)
           e2   == TableEntry(es, l1, l0, 2)
           s0   == Zeros(n)
           s1   == SetSlice(s0, 0, PAGE_SIZE, p0)
           s2   == [s1 EXCEPT ![1].rs = rsz]
           s3   == SetSlice(s2, ro, ro + l0, g0)
           s4   == SetSlice(s3, ro + l0, ro + rsz, g1)
           s5   == SetSlice(s4, dtbo, dtbo + ds, dtb)
           s6   == SetSlice(s5, tblo, tblo + es, e1)
           s7   == SetSlice(s6, tblo + es, tblo + 2 * es, e2)
<1>1. AssembleImage(t, g1) = s7
  <2>1. AssembleImage(t, g1)
          = WithTable(WithDtb(WithRamdisks(Page0(t, rsz), ro, g0, g1), dtbo, t),
                      tblo, es, l0, l1)
    BY DEF AssembleImage, Pieces
  <2>2. Page0(t, rsz) = s2
    BY DEF Page0, Pieces
  <2>3. WithRamdisks(s2, ro, g0, g1) = s4
    <3>1. (ro + l0) + l1 = ro + rsz
      <4>1. ro \in Nat
        BY LayoutAssumption, FirstPage DEF RamdiskOffset
      <4>2. l0 \in Nat /\ l1 \in Nat
        BY DEF Pieces
      <4> HIDE DEF ro, l0, l1
      <4> QED BY <4>1, <4>2
    <3> QED BY <3>1 DEF WithRamdisks
  <2>4. WithDtb(s4, dtbo, t) = s5
    BY DEF WithDtb, Pieces
  <2>5. WithTable(s5, tblo, es, l0, l1) = s7
    BY DEF WithTable
  <2> HIDE DEF s2, s4, s5, s7, rsz, ro, dtbo, tblo, l0, l1
  <2> QED BY <2>1, <2>2, <2>3, <2>4, <2>5
<1>2. /\ l0 \in Nat /\ l1 \in Nat /\ rsz \in Nat /\ n \in Nat /\ PAGE_SIZE \in Nat \ {0}
      /\ rsz = l0 + l1
  BY LayoutAssumption DEF Pieces
<1>a. /\ g0 \in Seq(S) /\ g1 \in Seq(S) /\ dtb \in Seq(S) /\ p0 \in Seq(S) /\ hdr \in S
      /\ Len(g0) = l0 /\ Len(g1) = l1 /\ Len(dtb) = ds /\ Len(p0) = PAGE_SIZE
  BY DEF Pieces
<1> HIDE DEF s7, s6, s5, s4, s3, s2, s1
<1>3. s0 \in Seq(S) /\ Len(s0) = n
  BY <1>2, ZeroCells DEF Pieces
<1>4. /\ e1 \in Seq(S) /\ Len(e1) = es /\ e1[1] = Entry(l0, 0, 1)
      /\ e2 \in Seq(S) /\ Len(e2) = es /\ e2[1] = Entry(l1, l0, 2)
  BY TableEntryCells DEF Pieces
<1> HIDE DEF s0, e1, e2, l0, l1
<1>5. /\ ro \in Nat /\ dtbo \in Nat /\ tblo \in Nat
      /\ PAGE_SIZE <= ro /\ ro + rsz <= dtbo /\ dtbo + ds <= tblo
  <2> HIDE DEF rsz
  <2> QED BY <1>2, OffsetsInOrder
<1> HIDE DEF ro, dtbo, tblo, n, rsz
<1>6. s1 \in Seq(S) /\ Len(s1) >= n /\ Len(s1) > 0 /\ s1[1] = p0[1]
  <2>1. Len(p0) > 0 /\ PAGE_SIZE = 0 + Len(p0) /\ Len(s0) >= n
    BY <1>a, <1>2, <1>3
  <2>2. s1[1] = p0[1]
    BY <1>a, <1>3, <2>1, FirstCell DEF s1
  <2>3. s1 \in Seq(S) /\ Len(s1) >= n
    <3>1. s1 = SetSlice(s0, 0, PAGE_SIZE, p0)
      BY DEF s1
    <3> QED BY <1>a, <1>2, <1>3, <2>1, <3>1, SectionWritten
  <2>4. Len(s1) > 0
    <3>1. CASE n > 0
      BY <1>2, <2>3, <3>1
    <3>2. CASE n = 0
      <4>1. s1 = SetSlice(s0, 0, PAGE_SIZE, p0)
        BY DEF s1
      <4>2. Written(s1, s0, 0, PAGE_SIZE, p0, n)
        BY <1>a, <1>2, <1>3, <2>1, <4>1, SectionWritten
      <4>3. Len(s1) # n
        BY <1>2, <2>1, <3>2, <4>2 DEF Written
      <4> QED BY <1>2, <2>3, <3>2, <4>3
    <3> QED BY <1>2, <3>1, <3>2
  <2> QED BY <2>2, <2>3, <2>4
<1>7. s2 \in Seq(S) /\ Len(s2) >= n /\ s2[1] = hdr
  <2>1. s2 = [s1 EXCEPT ![1] = hdr]
    BY <1>6 DEF s2, Pieces, rsz, l0, l1
  <2> QED BY <1>a, <1>6, <2>1
<1>8. s3 \in Seq(S) /\ Len(s3) >= n /\ Written(s3, s2, ro, ro + l0, g0, n)
  <2>1. s3 = SetSlice(s2, ro, ro + l0, g0)
    BY DEF s3
  <2> QED BY <1>a, <1>2, <1>5, <1>7, <2>1, SectionWritten
<1>9. s4 \in Seq(S) /\ Len(s4) >= n /\ Written(s4, s3, ro + l0, ro + rsz, g1, n)
  <2>1. ro + l0 \in Nat /\ ro + rsz = (ro + l0) + l1
    BY <1>2, <1>5
  <2>2. s4 = SetSlice(s3, ro + l0, ro + rsz, g1)
    BY DEF s4
  <2> QED BY <1>a, <1>2, <1>8, <2>1, <2>2, SectionWritten
<1>10. s5 \in Seq(S) /\ Len(s5) >= n /\ Written(s5, s4, dtbo, dtbo + ds, dtb, n)
  <2>1. s5 = SetSlice(s4, dtbo, dtbo + ds, dtb)
    BY DEF s5
  <2> QED BY <1>a, <1>2, <1>5, <1>9, <2>1, SectionWritten
<1>11. s6 \in Seq(S) /\ Len(s6) >= n /\ Written(s6, s5, tblo, tblo + es, e1, n)
  <2>1. s6 = SetSlice(s5, tblo, tblo + es, e1)
    BY DEF s6
  <2> QED BY <1>2, <1>4, <1>5, <1>10, <2>1, SectionWritten
<1>12. s7 \in Seq(S) /\ Written(s7, s6, tblo + es, tblo + 2 * es, e2, n)
  <2>1. tblo + es \in Nat /\ tblo + 2 * es = (tblo + es) + es
    BY <1>5
  <2>2. s7 = SetSlice(s6, tblo + es, tblo + 2 * es, e2)
    BY DEF s7
  <2> QED BY <1>2, <1>4, <1>11, <2>1, <2>2, SectionWritten
<1>13. /\ Len(s7) = n /\ Len(s6) = n /\ Len(s5) = n /\ Len(s4) = n /\ Len(s3) = n
       /\ tblo + es + es <= n
  <2>1. Len(s7) = n
    BY <1>1 DEF n
  <2>2. tblo + 2 * es = tblo + es + es
    BY <1>5
  <2> QED BY <1>4, <1>8, <1>9, <1>10, <1>11, <1>12, <2>1, <2>2 DEF Written
<1>14. /\ s7[1] = hdr
       /\ \A i \in 1..l0 : s7[ro + i] = g0[i]
       /\ \A i \in 1..l1 : s7[ro + l0 + i] = g1[i]
       /\ \A i \in 1..ds : s7[dtbo + i] = dtb[i]
       /\ s7[tblo + 1] = e1[1]
       /\ s7[tblo + es + 1] = e2[1]
  <2>1. /\ 0 < ro /\ ro + rsz = ro + l0 + l1 /\ ro + l0 + l1 <= dtbo
        /\ tblo + 2 * es = tblo + es + es
    BY <1>2, <1>5
  <2>2. /\ Written(s4, s3, ro + l0, ro + l0 + l1, g1, n)
        /\ Written(s7, s6, tblo + es, tblo + es + es, e2, n)
    BY <1>9, <1>12, <2>1
  <2>3. /\ s7[1] = s2[1]
        /\ \A i \in 1..l0 : s7[ro + i] = g0[i]
        /\ \A i \in 1..l1 : s7[ro + l0 + i] = g1[i]
        /\ \A i \in 1..ds : s7[dtbo + i] = dtb[i]
        /\ s7[tblo + 1] = e1[1]
        /\ s7[tblo + es + 1] = e2[1]
    <3>1. /\ n \in Nat /\ ro \in Nat /\ dtbo \in Nat /\ tblo \in Nat
          /\ l0 \in Nat /\ l1 \in Nat /\ ds \in Nat /\ es \in Nat \ {0}
          /\ 0 < ro /\ ro + l0 + l1 <= dtbo /\ dtbo + ds <= tblo /\ tblo + es + es <= n
          /\ Len(s7) = n
      BY <1>2, <1>5, <1>13, <2>1
    <3>2. /\ Written(s3, s2, ro, ro + l0, g0, n)
          /\ Written(s4, s3, ro + l0, ro + l0 + l1, g1, n)
          /\ Written(s5, s4, dtbo, dtbo + ds, dtb, n)
          /\ Written(s6, s5, tblo, tblo + es, e1, n)
          /\ Written(s7, s6, tblo + es, tblo + es + es, e2, n)
      BY <1>8, <1>10, <1>11, <2>2
    <3>3. Layers(n, ro, dtbo, tblo, l0, l1, ds, es,
                 g0, g1, dtb, e1, e2, s2, s3, s4, s5, s6, s7)
      BY <3>1, <3>2 DEF Layers
    <3> QED BY <3>3, LayersDisjoint
  <2> QED BY <1>7, <2>3
<1>15. tblo + 2 * es <= PART_SZ
  BY <1>5, <1>13 DEF n
<1> QED BY <1>1, <1>4, <1>12, <1>14, <1>15 DEF AssembledAs, ro, dtbo, tblo, rsz, l0, l1
-----------------------------------------------------------------------------
\* A Python slice within its sequence.
LEMMA SliceCells ==
  ASSUME NEW S, NEW s \in Seq(S), NEW a \in Nat, NEW b \in Nat, a <= b, b <= Len(s)
  PROVE  /\ Slice(s, a, b) \in Seq(S)
         /\ Len(Slice(s, a, b)) = b - a
         /\ \A i \in 1..(b - a) : Slice(s, a, b)[i] = s[a + i]
<1>1. Len(s) \in Nat /\ Least(b, Len(s)) = b
  BY DEF Least
<1>2. \A i \in (a + 1)..b : s[i] \in S
  BY <1>1
<1>3. /\ SubSeq(s, a + 1, b) \in Seq(S)
      /\ Len(SubSeq(s, a + 1, b)) = IF a + 1 <= b THEN b - (a + 1) + 1 ELSE 0
      /\ \A i \in 1..(b - (a + 1) + 1) : SubSeq(s, a + 1, b)[i] = s[a + 1 + i - 1]
  BY <1>2, SubSeqProperties
<1>4. Slice(s, a, b) = SubSeq(s, a + 1, b)
  BY <1>1 DEF Slice
<1> QED BY <1>3, <1>4

\* The first cells of a sequence.
LEMMA PageZero ==
  ASSUME NEW S, NEW s \in Seq(S), NEW b \in Nat \ {0}, b <= Len(s)
  PROVE  /\ Slice(s, 0, b) \in Seq(S)
         /\ Len(Slice(s, 0, b)) = b
         /\ Slice(s, 0, b)[1] = s[1]
<1> DEFINE z == 0
           u == Slice(s, z, b)
<1>0. z = 0
  OBVIOUS
<1>1. z \in Nat /\ b \in Nat /\ z <= b /\ b <= Len(s)
  OBVIOUS
<1> HIDE DEF z
<1>2. u \in Seq(S) /\ Len(u) = b - z /\ \A i \in 1..(b - z) : u[i] = s[z + i]
  BY <1>1, SliceCells, ZenonT(30)
<1> HIDE DEF u
<1>3. 1 \in 1..(b - z) /\ b - z = b /\ z + 1 = 1
  BY <1>0, <1>1
<1> QED BY <1>0, <1>2, <1>3 DEF u

\* main() copies from the DTB section or from behind its start: DtbFound
\* refuses a magic that is less than DTB_HDR into the section.
LEMMA DtbStartsInFile ==
  ASSUME NEW t, t.dtbo \in Nat, Len(t.raw) \in Nat, DtbFound(t)
  PROVE  DtbStart(t) \in Nat /\ t.dtbo <= DtbStart(t)
<1> DEFINE M == DtbMagics(t)
<1>1. M \subseteq Nat
  BY LayoutAssumption DEF DtbMagics, Least
<1>2. PICK o \in M : \A m \in M : ~(<<m, o>> \in OpToRel(<, Nat))
  BY <1>1, NatLessThanWellFounded, WFMin DEF DtbFound
<1>3. \A m \in M : o <= m
  <2> SUFFICES ASSUME NEW m \in M, ~(o <= m) PROVE FALSE
    OBVIOUS
  <2> HIDE DEF M
  <2>1. m \in Nat /\ o \in Nat /\ m < o
    BY <1>1
  <2>2. <<m, o>> \in OpToRel(<, Nat)
    BY <2>1 DEF OpToRel
  <2> QED BY <1>2, <2>2
<1> DEFINE c == CHOOSE x \in M : \A m \in M : x <= m
<1>4. c \in M /\ \A m \in M : c <= m
  <2> HIDE DEF M
  <2> QED BY <1>3
<1> HIDE DEF c
<1>5. c - DTB_HDR >= t.dtbo
  BY <1>4 DEF DtbFound
<1>6. DtbStart(t) = c - DTB_HDR
  BY DEF DtbStart, c
<1> HIDE DEF M
<1> QED BY <1>1, <1>4, <1>5, <1>6, LayoutAssumption

\* The fields rd() returns.
LEMMA RdFields ==
  ASSUME NEW d
  PROVE  LET h == d[1]
             t == rd(d)
         IN  /\ t.raw = d /\ t.hs = h.hs /\ t.ds = h.ds /\ t.rs = h.rs
             /\ t.ec = h.ec /\ t.es = h.es
             /\ t.p0 = Slice(d, 0, PAGE_SIZE)
             /\ t.ro = RamdiskOffset(h.hs) /\ t.dtbo = DtbOffset(h.hs, h.rs)
             /\ t.tblo = TableOffset(h.hs, h.rs, h.ds)
             /\ DOMAIN t.frags =
                  {i \in 1..h.ec : t.tblo + (i - 1) * h.es + ENTRY_HEAD <= Len(d)}
             /\ \A i \in DOMAIN t.frags :
                  LET eo == t.tblo + (i - 1) * h.es
                      e  == EntryAt(d, eo)
                  IN  /\ t.frags[i].sz = e.sz /\ t.frags[i].off = e.off
                      /\ t.frags[i].typ = e.typ
                      /\ t.frags[i].payload = Payload(d, t.ro, e)
BY DEF rd

\* A payload that is all in the file is as long as its entry says.
LEMMA PayloadWhole ==
  ASSUME NEW S, NEW d \in Seq(S), NEW ro \in Nat, NEW e, e.sz \in Nat, e.off \in Nat,
         ro + e.off + e.sz <= Len(d)
  PROVE  /\ Payload(d, ro, e) \in Seq(S)
         /\ Len(Payload(d, ro, e)) = e.sz
         /\ \A i \in 1..e.sz : Payload(d, ro, e)[i] = d[ro + e.off + i]
<1>1. CASE e.sz = 0
  BY <1>1 DEF Payload
<1>2. CASE e.sz > 0
  <2>1. /\ ro + e.off \in Nat /\ ro + e.off + e.sz \in Nat
        /\ ro + e.off <= ro + e.off + e.sz
        /\ (ro + e.off + e.sz) - (ro + e.off) = e.sz
    OBVIOUS
  <2> DEFINE a == ro + e.off
             b == ro + e.off + e.sz
             u == Slice(d, a, b)
  <2>2. Payload(d, ro, e) = u
    BY <1>2 DEF Payload
  <2>3. a \in Nat /\ b \in Nat /\ a <= b /\ b <= Len(d) /\ b - a = e.sz
    BY <2>1
  <2> HIDE DEF a, b
  <2>4. u \in Seq(S) /\ Len(u) = b - a /\ \A i \in 1..(b - a) : u[i] = d[a + i]
    BY <2>3, SliceCells, ZenonT(30)
  <2>5. u \in Seq(S) /\ Len(u) = e.sz /\ \A i \in 1..e.sz : u[i] = d[a + i]
    BY <2>3, <2>4
  <2> HIDE DEF u
  <2> QED BY <2>2, <2>5 DEF a
<1> QED BY <1>1, <1>2

(***************************************************************************)
(* What a template gives to AssembleImage once rd() has found its second   *)
(* entry: the table lies behind everything else, so all of it is in the    *)
(* file, however short the file was cut.                                   *)
(***************************************************************************)
LEMMA TemplateWhole ==
  ASSUME NEW d, IsVendorBoot(d), 2 \in DOMAIN rd(d).frags
  PROVE  LET t == rd(d)
             R == {d[i] : i \in DOMAIN d}
         IN  /\ d \in Seq(R)
             /\ t.hs \in Nat \ {0} /\ t.ds \in Nat /\ t.es \in Nat \ {0}
             /\ t.dtbo \in Nat /\ t.dtbo + t.ds <= Len(d)
             /\ t.p0 \in Seq(R) /\ Len(t.p0) = PAGE_SIZE /\ t.p0[1] = d[1]
             /\ \A i \in {1, 2} : /\ t.frags[i].payload \in Seq(R)
                                  /\ Len(t.frags[i].payload) = t.frags[i].sz
             /\ Decodes(t.frags[2].payload)
<1> DEFINE t == rd(d)
           R == {d[i] : i \in DOMAIN d}
           h == d[1]
<1>1. /\ d \in Seq(R) /\ d # << >> /\ h.ec = 2
      /\ h.hs \in Nat \ {0} /\ h.ds \in Nat /\ h.rs \in Nat
      /\ h.es \in Nat /\ h.es >= ENTRY_HEAD
  BY DEF IsVendorBoot, Header
<1>2. h.es \in Nat \ {0}
  BY <1>1, LayoutAssumption
<1>3. /\ t.raw = d /\ t.hs = h.hs /\ t.ds = h.ds /\ t.es = h.es
      /\ t.p0 = Slice(d, 0, PAGE_SIZE)
      /\ t.ro = RamdiskOffset(h.hs) /\ t.dtbo = DtbOffset(h.hs, h.rs)
      /\ t.tblo = TableOffset(h.hs, h.rs, h.ds)
      /\ DOMAIN t.frags = {i \in 1..2 : t.tblo + (i - 1) * h.es + ENTRY_HEAD <= Len(d)}
      /\ \A i \in DOMAIN t.frags :
           LET eo == t.tblo + (i - 1) * h.es
               e  == EntryAt(d, eo)
           IN  /\ t.frags[i].sz = e.sz /\ t.frags[i].off = e.off
               /\ t.frags[i].payload = Payload(d, t.ro, e)
  BY <1>1, RdFields
<1>4. /\ t.ro \in Nat /\ PAGE_SIZE <= t.ro
      /\ t.dtbo \in Nat /\ t.ro + h.rs <= t.dtbo
      /\ t.tblo \in Nat /\ t.dtbo + h.ds <= t.tblo
  BY <1>1, <1>3, OffsetsInOrder, ZenonT(30)
<1> HIDE DEF t, h
<1>5. Len(d) \in Nat /\ DOMAIN d = 1..Len(d) /\ Len(d) > 0
  BY <1>1
<1> HIDE DEF R
<1>6. t.tblo + h.es + ENTRY_HEAD <= Len(d)
  <2>1. 2 \in DOMAIN t.frags
    BY DEF t
  <2>2. t.tblo + (2 - 1) * h.es + ENTRY_HEAD <= Len(d)
    BY <1>3, <2>1
  <2> QED BY <1>1, <2>2
<1>7. PAGE_SIZE \in Nat \ {0} /\ ENTRY_HEAD \in Nat \ {0}
  BY LayoutAssumption
<1>8. /\ PAGE_SIZE <= Len(d) /\ t.dtbo + h.ds <= Len(d) /\ t.ro + h.rs <= Len(d)
      /\ t.tblo + 1 <= Len(d) /\ t.tblo + h.es + 1 <= Len(d)
      /\ t.tblo + ENTRY_HEAD <= Len(d)
  <2> DEFINE tb == t.tblo  db == t.dtbo  ro == t.ro  rs == h.rs  ds == h.ds  es == h.es
             L  == Len(d)
  <2>1. /\ tb \in Nat /\ db \in Nat /\ ro \in Nat /\ rs \in Nat /\ ds \in Nat /\ es \in Nat
        /\ L \in Nat /\ PAGE_SIZE <= ro /\ ro + rs <= db /\ db + ds <= tb
        /\ tb + es + ENTRY_HEAD <= L
    BY <1>1, <1>4, <1>5, <1>6
  <2> HIDE DEF tb, db, ro, rs, ds, es, L
  <2>2. /\ PAGE_SIZE <= L /\ db + ds <= L /\ ro + rs <= L /\ tb + 1 <= L /\ tb + es + 1 <= L
        /\ tb + ENTRY_HEAD <= L
    BY <1>7, <2>1
  <2> QED BY <2>2 DEF tb, db, ro, rs, ds, es, L
<1>9. t.p0 \in Seq(R) /\ Len(t.p0) = PAGE_SIZE /\ t.p0[1] = d[1]
  <2> QED BY <1>1, <1>3, <1>7, <1>8, PageZero
<1>10. ASSUME NEW i \in {1, 2}
       PROVE  /\ t.frags[i].payload \in Seq(R)
              /\ Len(t.frags[i].payload) = t.frags[i].sz
              /\ LET from == t.ro + t.frags[i].off
                 IN  t.frags[i].sz > 0 =>
                       t.frags[i].payload = Slice(d, from, from + t.frags[i].sz)
  <2> DEFINE eo == t.tblo + (i - 1) * h.es
             e  == EntryAt(d, eo)
  <2>1. eo \in Nat /\ eo + 1 \in DOMAIN d /\ eo + ENTRY_HEAD <= Len(d)
    <3>1. CASE i = 1
      <4>1. eo = t.tblo
        BY <1>1, <1>4, <3>1
      <4> HIDE DEF eo
      <4>2. 1 <= eo + 1 /\ eo + 1 <= Len(d)
        BY <1>4, <1>8, <4>1
      <4> QED BY <1>4, <1>5, <1>8, <4>1, <4>2
    <3>2. CASE i = 2
      <4>1. eo = t.tblo + h.es
        BY <1>1, <1>4, <3>2
      <4> HIDE DEF eo
      <4>2. eo \in Nat
        BY <1>1, <1>4, <4>1
      <4>3. 1 <= eo + 1 /\ eo + 1 <= Len(d)
        BY <1>8, <4>1, <4>2
      <4> QED BY <1>5, <1>6, <4>1, <4>2, <4>3
    <3> QED BY <3>1, <3>2
  <2>2. i \in DOMAIN t.frags
    BY <1>3, <2>1
  <2> HIDE DEF eo
  <2>3. e.sz \in Nat /\ e.off \in Nat /\ e.off + e.sz <= h.rs
    <3>1. CASE d[eo + 1].kind = "ent"
      <4>1. e = d[eo + 1]
        BY <3>1 DEF EntryAt
      <4> QED BY <2>1, <3>1, <4>1 DEF IsVendorBoot, h
    <3>2. CASE d[eo + 1].kind # "ent"
      <4>1. e = Entry(0, 0, 0)
        BY <3>2 DEF EntryAt
      <4> QED BY <1>1, <4>1 DEF Entry
    <3> QED BY <3>1, <3>2
  <2>4. /\ t.frags[i].sz = e.sz /\ t.frags[i].off = e.off
        /\ t.frags[i].payload = Payload(d, t.ro, e)
    BY <1>3, <2>2 DEF eo
  <2> HIDE DEF e
  <2>5. t.ro + e.off + e.sz <= Len(d)
    <3> DEFINE ro == t.ro  rs == h.rs  sz == e.sz  off == e.off  L == Len(d)
    <3>1. /\ ro \in Nat /\ rs \in Nat /\ sz \in Nat /\ off \in Nat /\ L \in Nat
          /\ ro + rs <= L /\ off + sz <= rs
      BY <1>1, <1>4, <1>5, <1>8, <2>3
    <3> HIDE DEF ro, rs, sz, off, L
    <3>2. ro + off + sz <= L
      BY <3>1
    <3> QED BY <3>2 DEF ro, rs, sz, off, L
  <2>6. t.frags[i].payload \in Seq(R) /\ Len(t.frags[i].payload) = t.frags[i].sz
    BY <1>1, <1>4, <2>3, <2>4, <2>5, PayloadWhole, SMTT(30)
  <2>7. e.sz > 0 => Payload(d, t.ro, e) = Slice(d, t.ro + e.off, t.ro + e.off + e.sz)
    BY <2>5 DEF Payload
  <2> QED BY <2>4, <2>6, <2>7
<1>11. Decodes(t.frags[2].payload)
  <2> DEFINE from == t.ro + t.frags[2].off
  <2>1. t.frags[2].sz > 0 /\ Decodes(Slice(d, from, from + t.frags[2].sz))
    BY DEF IsVendorBoot, t
  <2> QED BY <1>10, <2>1
<1> QED BY <1>1, <1>2, <1>3, <1>4, <1>8, <1>9, <1>10, <1>11 DEF t, R, h

\* A sequence of cells of R is one of cells of S.
LEMMA WiderSeq ==
  ASSUME NEW R, NEW S, R \subseteq S, NEW s \in Seq(R)
  PROVE  s \in Seq(S)
OBVIOUS

\* An entry of the written table hands out the payload it describes.
LEMMA PayloadIs ==
  ASSUME NEW S, NEW img \in Seq(S), NEW ro \in Nat, NEW off \in Nat, NEW typ,
         NEW T, NEW f \in Seq(T), ro + off + Len(f) <= Len(img),
         \A i \in 1..Len(f) : img[ro + off + i] = f[i]
  PROVE  Payload(img, ro, Entry(Len(f), off, typ)) = f
<1> DEFINE e == Entry(Len(f), off, typ)
           p == Payload(img, ro, e)
<1>1. e.sz = Len(f) /\ e.off = off /\ Len(f) \in Nat
  BY DEF Entry
<1>2. p \in Seq(S) /\ Len(p) = Len(f) /\ \A i \in 1..Len(f) : p[i] = img[ro + off + i]
  <2> HIDE DEF e
  <2>1. e.sz \in Nat /\ e.off \in Nat /\ ro + e.off + e.sz <= Len(img)
    BY <1>1
  <2>2. /\ p \in Seq(S) /\ Len(p) = e.sz
        /\ \A i \in 1..e.sz : p[i] = img[ro + e.off + i]
    BY <2>1, PayloadWhole, SMTT(30)
  <2> HIDE DEF p
  <2> QED BY <1>1, <2>2
<1> HIDE DEF p, e
<1>3. \A i \in 1..Len(f) : p[i] = f[i]
  BY <1>2
<1>4. p \in Seq(S \cup T) /\ f \in Seq(S \cup T)
  BY <1>2, WiderSeq
<1>5. p = f
  BY <1>2, <1>3, <1>4, SeqEqual
<1> QED BY <1>5 DEF p, e

(***************************************************************************)
(* The tool can read back what it writes: an image of the partition's size *)
(* assembled from a template whose DTB was found holds, for rd(), two      *)
(* entries typed 1 and 2, F0 of the template, the fragment it was given,   *)
(* and, at the offset that follows from the new ramdisk size, the cells of *)
(* the template from DTB_HDR before its first FDT magic on.  Those are the *)
(* template's DTB only when the magic is DTB_HDR into the section.         *)
(***************************************************************************)
THEOREM ImageParsesBack ==
  ASSUME NEW d, IsVendorBoot(d), 2 \in DOMAIN rd(d).frags, DtbFound(rd(d)),
         DtbInFile(rd(d)),
         NEW T, NEW g1 \in Seq(T), Len(AssembleImage(rd(d), g1)) = PART_SZ
  PROVE  LET t == rd(d)
             o == rd(AssembleImage(t, g1))
         IN  /\ DOMAIN o.frags = {1, 2}
             /\ o.frags[1].payload = t.frags[1].payload
             /\ o.frags[2].payload = g1
             /\ o.frags[1].typ = 1 /\ o.frags[2].typ = 2
             /\ Slice(o.raw, o.dtbo, o.dtbo + o.ds)
                  = Slice(t.raw, DtbStart(t), DtbStart(t) + t.ds)
<1> DEFINE t    == rd(d)
           R    == {d[i] : i \in DOMAIN d}
           hs   == t.hs
           ds   == t.ds
           es   == t.es
           g0   == t.frags[1].payload
           dtb  == Slice(d, DtbStart(t), DtbStart(t) + ds)
           p0   == t.p0
           rsz  == Len(g0) + Len(g1)
           hdr  == [p0[1] EXCEPT !.rs = rsz]
           e1   == Entry(Len(g0), 0, 1)
           e2   == Entry(Len(g1), Len(g0), 2)
           S    == R \cup T \cup {Zero, hdr, e1, e2}
           img  == AssembleImage(t, g1)
           o    == rd(img)
           ro   == RamdiskOffset(hs)
           dtbo == DtbOffset(hs, rsz)
           tblo == TableOffset(hs, rsz, ds)
<1>1. /\ d \in Seq(R)
      /\ hs \in Nat \ {0} /\ ds \in Nat /\ es \in Nat \ {0}
      /\ t.dtbo \in Nat /\ t.dtbo + ds <= Len(d)
      /\ p0 \in Seq(R) /\ Len(p0) = PAGE_SIZE /\ p0[1] = d[1]
      /\ g0 \in Seq(R)
  BY TemplateWhole
<1>2. /\ t.raw = d /\ hs = d[1].hs /\ ds = d[1].ds /\ es = d[1].es
  BY RdFields
<1>3. d[1] = Header(d[1].hs, d[1].ds, d[1].rs, 2, d[1].es) /\ es >= ENTRY_HEAD
  BY <1>2 DEF IsVendorBoot
<1>5. DtbFound(t) /\ DtbInFile(t)
  OBVIOUS
<1>e. t.hs = hs /\ t.ds = ds /\ t.es = es /\ t.p0 = p0 /\ t.frags[1].payload = g0
  OBVIOUS
<1> HIDE DEF t, g0, p0, hs, ds, es
<1>6. DtbStart(t) \in Nat /\ DtbStart(t) + ds <= Len(d)
  <2>1. Len(t.raw) \in Nat
    BY <1>1, <1>2
  <2>2. DtbStart(t) \in Nat
    BY <1>1, <1>5, <2>1, DtbStartsInFile
  <2>3. DtbStart(t) + ds <= Len(d)
    BY <1>2, <1>5, <1>e DEF DtbInFile
  <2> QED BY <2>2, <2>3
<1> HIDE DEF R
<1>7. dtb \in Seq(R) /\ Len(dtb) = ds
  <2> DEFINE a == DtbStart(t)
             b == a + ds
  <2>1. a \in Nat /\ b \in Nat /\ a <= b /\ b <= Len(d) /\ b - a = ds
    BY <1>1, <1>6
  <2> HIDE DEF a, b
  <2>2. Slice(d, a, b) \in Seq(R) /\ Len(Slice(d, a, b)) = b - a
    BY <1>1, <2>1, SliceCells, ZenonT(30)
  <2> QED BY <2>1, <2>2 DEF a, b
<1>8. hdr = Header(hs, ds, rsz, 2, es)
  <2> HIDE DEF rsz
  <2>1. p0[1] = Header(hs, ds, d[1].rs, 2, es)
    BY <1>1, <1>2, <1>3
  <2> QED BY <2>1 DEF Header
<1>9. Len(g0) \in Nat /\ Len(g1) \in Nat /\ rsz \in Nat
  BY <1>1
<1>10. Pieces(S, t, g1, g0, dtb, p0, hdr, ds, es)
  <2>1. /\ R \subseteq S /\ T \subseteq S
        /\ hdr \in S /\ Zero \in S /\ e1 \in S /\ e2 \in S
    <3> HIDE DEF hdr, e1, e2
    <3> QED OBVIOUS
  <2> HIDE DEF S
  <2>2. g0 \in Seq(S) /\ g1 \in Seq(S) /\ dtb \in Seq(S) /\ p0 \in Seq(S)
    <3> HIDE DEF dtb
    <3> QED BY <1>1, <1>7, <2>1, WiderSeq
  <2>3. Slice(t.raw, DtbStart(t), DtbStart(t) + ds) = dtb
    BY <1>2
  <2> HIDE DEF dtb
  <2> QED BY <1>1, <1>7, <1>e, <2>1, <2>2, <2>3 DEF Pieces
<1> HIDE DEF S
<1>11. AssembledAs(S, img, g0, g1, dtb, hdr, hs, ds, es) /\ Len(img) = PART_SZ
  <2>1. Len(img) = PART_SZ
    BY DEF t
  <2> HIDE DEF dtb, hdr
  <2> QED BY <1>1, <1>e, <1>10, <2>1, AssembledCells
<1> HIDE DEF img, hdr, dtb
<1>12. /\ img \in Seq(S) /\ Len(img) = PART_SZ
       /\ img[1] = hdr
       /\ \A i \in 1..Len(g0) : img[ro + i] = g0[i]
       /\ \A i \in 1..Len(g1) : img[ro + Len(g0) + i] = g1[i]
       /\ \A i \in 1..ds : img[dtbo + i] = dtb[i]
       /\ img[tblo + 1] = e1
       /\ img[tblo + es + 1] = e2
       /\ tblo + 2 * es <= PART_SZ
  BY <1>11 DEF AssembledAs
<1>13. /\ ro \in Nat /\ dtbo \in Nat /\ ro + rsz <= dtbo
       /\ tblo \in Nat /\ dtbo + ds <= tblo
  <2> HIDE DEF rsz
  <2> QED BY <1>1, <1>9, OffsetsInOrder
<1>14. /\ o.raw = img /\ o.ds = ds /\ o.ro = ro /\ o.dtbo = dtbo
       /\ DOMAIN o.frags = {i \in 1..2 : tblo + (i - 1) * es + ENTRY_HEAD <= PART_SZ}
       /\ \A i \in DOMAIN o.frags :
            LET e == EntryAt(img, tblo + (i - 1) * es)
            IN  o.frags[i].typ = e.typ /\ o.frags[i].payload = Payload(img, ro, e)
  <2>1. /\ img[1].hs = hs /\ img[1].ds = ds /\ img[1].rs = rsz
        /\ img[1].es = es /\ img[1].ec = 2
    BY <1>8, <1>12 DEF Header
  <2>2. /\ o.raw = img /\ o.ds = img[1].ds
        /\ o.ro = RamdiskOffset(img[1].hs) /\ o.dtbo = DtbOffset(img[1].hs, img[1].rs)
        /\ o.tblo = TableOffset(img[1].hs, img[1].rs, img[1].ds)
        /\ DOMAIN o.frags =
             {i \in 1..img[1].ec : o.tblo + (i - 1) * img[1].es + ENTRY_HEAD <= Len(img)}
        /\ \A i \in DOMAIN o.frags :
             LET e == EntryAt(img, o.tblo + (i - 1) * img[1].es)
             IN  o.frags[i].typ = e.typ /\ o.frags[i].payload = Payload(img, o.ro, e)
    BY RdFields
  <2> HIDE DEF rsz, o
  <2>3. o.ro = ro /\ o.dtbo = dtbo /\ o.tblo = tblo
    BY <2>1, <2>2
  <2> HIDE DEF ro, dtbo, tblo
  <2> QED BY <1>12, <2>1, <2>2, <2>3
<1> HIDE DEF o, ro, dtbo, tblo, rsz
<1>15. ENTRY_HEAD \in Nat \ {0} /\ PART_SZ \in Nat /\ rsz = Len(g0) + Len(g1)
  BY LayoutAssumption DEF rsz
<1>16. DOMAIN o.frags = {1, 2}
  <2>1. tblo + (1 - 1) * es + ENTRY_HEAD <= PART_SZ
    BY <1>1, <1>3, <1>12, <1>13, <1>15
  <2>2. tblo + (2 - 1) * es + ENTRY_HEAD <= PART_SZ
    BY <1>1, <1>3, <1>12, <1>13, <1>15
  <2>3. 1..2 = {1, 2}
    OBVIOUS
  <2> QED BY <1>14, <2>1, <2>2, <2>3
<1>17. ro + rsz <= PART_SZ
  BY <1>1, <1>9, <1>12, <1>13, <1>15, SMTT(30)
<1>18. o.frags[1].typ = 1 /\ o.frags[1].payload = g0
  <2>1. EntryAt(img, tblo) = e1
    BY <1>12 DEF EntryAt, e1, Entry
  <2>2. tblo + (1 - 1) * es = tblo
    BY <1>1, <1>13
  <2>3. o.frags[1].typ = e1.typ /\ o.frags[1].payload = Payload(img, ro, e1)
    BY <1>14, <1>16, <2>1, <2>2
  <2> DEFINE z == 0
  <2>4. e1 = Entry(Len(g0), z, 1)
    BY DEF e1
  <2>5. z = 0
    OBVIOUS
  <2> HIDE DEF z
  <2>6. z \in Nat /\ ro + z + Len(g0) <= Len(img)
    BY <1>9, <1>12, <1>13, <1>15, <1>17, <2>5
  <2>7. \A i \in 1..Len(g0) : img[ro + z + i] = g0[i]
    BY <1>12, <1>13, <2>5
  <2>8. Payload(img, ro, e1) = g0
    <3>1. ro \in Nat /\ img \in Seq(S) /\ g0 \in Seq(R)
      BY <1>1, <1>12, <1>13
    <3> QED BY <2>4, <2>6, <2>7, <3>1, PayloadIs
  <2>9. e1.typ = 1
    BY DEF e1, Entry
  <2> QED BY <2>3, <2>8, <2>9
<1>19. o.frags[2].typ = 2 /\ o.frags[2].payload = g1
  <2>1. EntryAt(img, tblo + es) = e2
    BY <1>12 DEF EntryAt, e2, Entry
  <2>2. tblo + (2 - 1) * es = tblo + es
    BY <1>1, <1>13
  <2>3. o.frags[2].typ = e2.typ /\ o.frags[2].payload = Payload(img, ro, e2)
    BY <1>14, <1>16, <2>1, <2>2
  <2>4. Len(g0) \in Nat /\ ro + Len(g0) + Len(g1) <= Len(img)
    BY <1>9, <1>12, <1>13, <1>15, <1>17
  <2>5. Payload(img, ro, e2) = g1
    BY <1>12, <1>13, <2>4, PayloadIs, SMTT(30) DEF e2
  <2>6. e2.typ = 2
    BY DEF e2, Entry
  <2> QED BY <2>3, <2>5, <2>6
<1>20. Slice(img, dtbo, dtbo + ds) = dtb
  <2> DEFINE a == dtbo
             b == a + ds
             u == Slice(img, a, b)
  <2>0. b - a = ds
    BY <1>1, <1>13
  <2>1. a \in Nat /\ b \in Nat /\ a <= b /\ b <= Len(img) /\ img \in Seq(S)
    BY <1>1, <1>12, <1>13, <1>15
  <2> HIDE DEF b
  <2>2. u \in Seq(S) /\ Len(u) = b - a /\ \A i \in 1..(b - a) : u[i] = img[a + i]
    BY <2>1, SliceCells
  <2> HIDE DEF u
  <2>3. Len(u) = ds /\ \A i \in 1..ds : u[i] = dtb[i]
    BY <1>12, <2>0, <2>2
  <2>4. u \in Seq(S \cup R) /\ dtb \in Seq(S \cup R)
    BY <1>7, <2>2, WiderSeq
  <2>5. u = dtb
    BY <1>7, <2>3, <2>4, SeqEqual
  <2> QED BY <2>5 DEF u, b
<1>21. Slice(o.raw, o.dtbo, o.dtbo + o.ds) = Slice(t.raw, DtbStart(t), DtbStart(t) + t.ds)
  BY <1>2, <1>e, <1>14, <1>20 DEF dtb
<1> QED BY <1>e, <1>16, <1>18, <1>19, <1>21 DEF o, img, t

-----------------------------------------------------------------------------
(***************************************************************************)
(* Runs of the tool.  The inductive invariant.                             *)
(***************************************************************************)
Steps == {"idle", "unpack_ci", "unpack_tpl", "merge", "pack", "image", "write",
          "assert", "cleanup", "done", "failed", "killed"}

Bytes(f) == f \in Seq({f[i] : i \in DOMAIN f})

TypeInv ==
  /\ args \in Args
  /\ pc \in [Runs -> Steps]
  /\ DOMAIN tmp = {"ci_dir", "tp_dir", "f1_dir", "f1_new"}
  /\ DOMAIN f1 = Runs

\* Fragments are read back as bytes, whole or not.
BytesInv ==
  /\ \A r \in Runs : Bytes(f1[r])
  /\ tmp.f1_new = Absent \/ Bytes(tmp.f1_new)

\* A run that goes on found two entries in both of its images.
ReadInv ==
  \A r \in Runs : pc[r] \notin {"idle", "failed", "killed"} =>
    2 \in DOMAIN Tpl(r).frags /\ 2 \in DOMAIN Ci(r).frags

\* Nothing is written without the DTB's magic.
DtbInv ==
  \A r \in Runs : pc[r] \in {"write", "assert", "cleanup", "done"} => DtbFound(Tpl(r))

\* The last writer's image is the one it assembled, and is as long as the
\* partition once that run has asserted it.
OutInv ==
  \A r \in Runs : out.by = r =>
    /\ pc[r] \in {"assert", "cleanup", "done"} => out.img = AssembleImage(Tpl(r), f1[r])
    /\ pc[r] \in {"cleanup", "done"} => Len(out.img) = PART_SZ

Inv == TypeInv /\ BytesInv /\ ReadInv /\ DtbInv /\ OutInv

-----------------------------------------------------------------------------
\* What the scratch paths and f1 hold for the run that is active.
Alone == \A q, r \in Runs : Active(q) /\ Active(r) => q = r

Merged(r) == MergeTree(TplTree(r), CiTree(r))

TreesInv ==
  \A r \in Runs :
    /\ pc[r] \in {"unpack_tpl", "merge"} => tmp.ci_dir = CiTree(r)
    /\ pc[r] = "merge" => tmp.tp_dir = TplTree(r)
    /\ pc[r] = "pack" => tmp.f1_dir = Merged(r)
    /\ pc[r] \in {"image", "write", "assert", "cleanup", "done"} =>
         \E n \in FragSizes : f1[r] = Fragment(Merged(r), n)

MergeInv == Inv /\ Alone /\ TreesInv

-----------------------------------------------------------------------------
\* What lz4 makes of a tree is bytes that decode to that tree.
LEMMA FragmentDecodes ==
  ASSUME NEW T, NEW n \in Nat
  PROVE  /\ Bytes(Fragment(T, n))
         /\ n # 0 => Decodes(Fragment(T, n)) /\ Decoded(Fragment(T, n)) = T
<1> DEFINE f == Fragment(T, n)
           C == {f[i] : i \in DOMAIN f}
<1>1. /\ DOMAIN f = 1..n
      /\ \A i \in 1..n : f[i] = [kind |-> "lz4", tree |-> T, part |-> i, of |-> n]
  BY DEF Fragment
<1>2. f = [i \in 1..n |-> f[i]]
  BY DEF Fragment
<1> HIDE DEF f
<1>3. f \in Seq(C) /\ Len(f) = n
  <2>1. \A i \in 1..n : f[i] \in C
    BY <1>1
  <2> HIDE DEF C
  <2>2. f \in [1..n -> C]
    BY <1>2, <2>1
  <2> QED BY <2>2
<1>4. n # 0 => Decodes(f) /\ Decoded(f) = T
  BY <1>1, <1>3 DEF Decodes, Decoded
<1> QED BY <1>3, <1>4 DEF f, Bytes

\* What pk() may read back is bytes, if what was there before is.
LEMMA PackedBytes ==
  ASSUME NEW old, NEW tree, old = Absent \/ Bytes(old), NEW new \in Packed(old, tree)
  PROVE  new = Absent \/ Bytes(new)
<1>1. CASE \E n \in FragSizes : new = Fragment(tree, n) \/ new = Fragment(EmptyTree, n)
  BY <1>1, RepackAssumption, FragmentDecodes
<1>2. CASE new = old
  BY <1>2
<1>3. CASE new = << >>
  BY <1>3 DEF Bytes
<1> QED BY <1>1, <1>2, <1>3 DEF Packed

(***************************************************************************)
(* The chain of copies and deletions of main() gives, path by path, the    *)
(* tree that ExpectedF1 describes.                                         *)
(***************************************************************************)
THEOREM MergeIsExpected ==
  ASSUME NEW tp, NEW ci
  PROVE  MergeTree(tp, ci) = ExpectedF1(tp, ci)
<1> DEFINE B == DOMAIN tp \cap Bin
           replaced == Over(Only(ci, Bin \cup Lib), Without(tp, Bin \cup Lib))
           trimmed  == Without(replaced, Core)
           pruned   == Without(trimmed, Bin \ B)
           merged   == Over(pruned, Only(tp, B))
<1>1. MergeTree(tp, ci) = merged
  BY DEF MergeTree
<1>2. /\ DOMAIN replaced = (DOMAIN ci \cap (Bin \cup Lib)) \cup (DOMAIN tp \ (Bin \cup Lib))
      /\ \A p \in DOMAIN replaced :
           replaced[p] = IF p \in DOMAIN ci \cap (Bin \cup Lib) THEN ci[p] ELSE tp[p]
  BY DEF Over, Only, Without, Restrict
<1> HIDE DEF replaced
<1>3. /\ DOMAIN pruned = (DOMAIN replaced \ Core) \ (Bin \ B)
      /\ \A p \in DOMAIN pruned : pruned[p] = replaced[p]
  BY DEF Without, Restrict
<1> HIDE DEF pruned
<1>4. merged = [p \in DOMAIN pruned \cup B |-> IF p \in DOMAIN pruned THEN pruned[p] ELSE tp[p]]
  BY DEF Over, Only, Restrict
<1> HIDE DEF merged
<1>5. DOMAIN pruned \cup B = (DOMAIN tp \ Lib) \cup (DOMAIN ci \cap Lib)
  BY <1>2, <1>3, RepackAssumption
<1>6. ASSUME NEW p \in DOMAIN pruned \cup B
      PROVE  (IF p \in DOMAIN pruned THEN pruned[p] ELSE tp[p])
               = IF p \in Lib \/ (p \in Bin \ Core /\ p \in DOMAIN ci) THEN ci[p] ELSE tp[p]
  <2>1. CASE p \in DOMAIN pruned
    BY <1>2, <1>3, <2>1, RepackAssumption
  <2>2. CASE p \notin DOMAIN pruned
    BY <1>2, <1>3, <2>2, RepackAssumption
  <2> QED BY <2>1, <2>2
<1> QED BY <1>1, <1>4, <1>5, <1>6 DEF ExpectedF1

-----------------------------------------------------------------------------
LEMMA InitInv == Init => Inv
<1> SUFFICES ASSUME Init PROVE Inv
  OBVIOUS
<1>1. TypeInv
  BY DEF Init, TypeInv, Steps
<1>2. BytesInv
  BY DEF Init, BytesInv, Bytes
<1>3. ReadInv /\ DtbInv /\ OutInv
  BY DEF Init, ReadInv, DtbInv, OutInv
<1> QED BY <1>1, <1>2, <1>3 DEF Inv

LEMMA StepInv == Inv /\ [Next]_vars => Inv'
<1> SUFFICES ASSUME Inv, [Next]_vars PROVE Inv'
  OBVIOUS
<1>0. TypeInv /\ BytesInv /\ ReadInv /\ DtbInv /\ OutInv
  BY DEF Inv
<1>t. /\ args \in Args
      /\ pc \in [Runs -> Steps]
      /\ DOMAIN tmp = {"ci_dir", "tp_dir", "f1_dir", "f1_new"}
      /\ DOMAIN f1 = Runs
  BY <1>0 DEF TypeInv
<1>1. ASSUME NEW r \in Runs, ReadImages(r) PROVE Inv'
  <2>1. TypeInv'
    BY <1>t, <1>1 DEF ReadImages, TypeInv, Steps
  <2>2. BytesInv'
    BY <1>0, <1>t, <1>1 DEF ReadImages, BytesInv
  <2>3. ReadInv' /\ DtbInv'
    BY <1>0, <1>t, <1>1 DEF ReadImages, ReadInv, DtbInv, Tpl, Ci
  <2>4. OutInv'
    BY <1>0, <1>t, <1>1 DEF ReadImages, OutInv, Tpl
  <2> QED BY <2>1, <2>2, <2>3, <2>4 DEF Inv
<1>2. ASSUME NEW r \in Runs, UnpackCi(r) PROVE Inv'
  <2>1. TypeInv'
    BY <1>t, <1>2 DEF UnpackCi, TypeInv, Steps
  <2>2. BytesInv'
    BY <1>0, <1>t, <1>2 DEF UnpackCi, BytesInv
  <2>3. ReadInv' /\ DtbInv'
    BY <1>0, <1>t, <1>2 DEF UnpackCi, ReadInv, DtbInv, Tpl, Ci
  <2>4. OutInv'
    BY <1>0, <1>t, <1>2 DEF UnpackCi, OutInv, Tpl
  <2> QED BY <2>1, <2>2, <2>3, <2>4 DEF Inv
<1>3. ASSUME NEW r \in Runs, UnpackTemplate(r) PROVE Inv'
  <2>1. TypeInv'
    BY <1>t, <1>3 DEF UnpackTemplate, TypeInv, Steps
  <2>2. BytesInv'
    BY <1>0, <1>t, <1>3 DEF UnpackTemplate, BytesInv
  <2>3. ReadInv' /\ DtbInv'
    BY <1>0, <1>t, <1>3 DEF UnpackTemplate, ReadInv, DtbInv, Tpl, Ci
  <2>4. OutInv'
    BY <1>0, <1>t, <1>3 DEF UnpackTemplate, OutInv, Tpl
  <2> QED BY <2>1, <2>2, <2>3, <2>4 DEF Inv
<1>4. ASSUME NEW r \in Runs, BuildF1Tree(r) PROVE Inv'
  <2>1. TypeInv'
    BY <1>t, <1>4 DEF BuildF1Tree, TypeInv, Steps
  <2>2. BytesInv'
    BY <1>0, <1>t, <1>4 DEF BuildF1Tree, BytesInv
  <2>3. ReadInv' /\ DtbInv'
    BY <1>0, <1>t, <1>4 DEF BuildF1Tree, ReadInv, DtbInv, Tpl, Ci
  <2>4. OutInv'
    BY <1>0, <1>t, <1>4 DEF BuildF1Tree, OutInv, Tpl
  <2> QED BY <2>1, <2>2, <2>3, <2>4 DEF Inv
<1>5. ASSUME NEW r \in Runs, PackF1(r) PROVE Inv'
  <2>1. tmp.f1_dir # Absent => \E new \in Packed(tmp.f1_new, tmp.f1_dir) :
          /\ new = Absent \/ Bytes(new)
          /\ tmp' = [tmp EXCEPT !.f1_new = new]
          /\ f1' = [f1 EXCEPT ![r] = IF new = Absent THEN @ ELSE new]
    BY <1>0, <1>5, PackedBytes DEF PackF1, BytesInv
  <2>2. TypeInv'
    BY <1>t, <1>5, <2>1 DEF PackF1, TypeInv, Steps
  <2>3. BytesInv'
    BY <1>0, <1>t, <1>5, <2>1 DEF PackF1, BytesInv
  <2>4. args' = args /\ out' = out /\ \A q \in Runs \ {r} : f1'[q] = f1[q]
    BY <1>t, <1>5, <2>1 DEF PackF1
  <2>5. pc[r] = "pack" /\ pc' \in [Runs -> Steps] /\ pc'[r] \in {"image", "failed"}
        /\ \A q \in Runs \ {r} : pc'[q] = pc[q]
    BY <1>t, <1>5, <2>2 DEF PackF1, TypeInv
  <2>6. ReadInv' /\ DtbInv'
    BY <1>0, <1>t, <2>4, <2>5 DEF ReadInv, DtbInv, Tpl, Ci
  <2>7. OutInv'
    BY <1>0, <1>t, <2>4, <2>5 DEF OutInv, Tpl
  <2> QED BY <2>2, <2>3, <2>6, <2>7 DEF Inv
<1>6. ASSUME NEW r \in Runs, OpenOutput(r) PROVE Inv'
  <2>1. TypeInv'
    BY <1>t, <1>6 DEF OpenOutput, TypeInv, Steps
  <2>2. BytesInv'
    BY <1>0, <1>t, <1>6 DEF OpenOutput, BytesInv
  <2>3. ReadInv' /\ DtbInv'
    BY <1>0, <1>t, <1>6 DEF OpenOutput, ReadInv, DtbInv, Tpl, Ci
  <2>4. OutInv'
    BY <1>0, <1>t, <1>6 DEF OpenOutput, OutInv, Tpl
  <2> QED BY <2>1, <2>2, <2>3, <2>4 DEF Inv
<1>7. ASSUME NEW r \in Runs, WriteImage(r) PROVE Inv'
  <2>1. TypeInv'
    BY <1>t, <1>7 DEF WriteImage, TypeInv, Steps
  <2>2. BytesInv'
    BY <1>0, <1>t, <1>7 DEF WriteImage, BytesInv
  <2>3. ReadInv' /\ DtbInv'
    BY <1>0, <1>t, <1>7 DEF WriteImage, ReadInv, DtbInv, Tpl, Ci
  <2>4. OutInv'
    BY <1>0, <1>t, <1>7 DEF WriteImage, OutInv, Tpl
  <2> QED BY <2>1, <2>2, <2>3, <2>4 DEF Inv
<1>8. ASSUME NEW r \in Runs, AssertSize(r) PROVE Inv'
  <2>1. TypeInv'
    BY <1>t, <1>8 DEF AssertSize, TypeInv, Steps
  <2>2. BytesInv'
    BY <1>0, <1>t, <1>8 DEF AssertSize, BytesInv
  <2>3. ReadInv' /\ DtbInv'
    BY <1>0, <1>t, <1>8 DEF AssertSize, ReadInv, DtbInv, Tpl, Ci
  <2>4. OutInv'
    BY <1>0, <1>t, <1>8 DEF AssertSize, OutInv, Tpl
  <2> QED BY <2>1, <2>2, <2>3, <2>4 DEF Inv
<1>9. ASSUME NEW r \in Runs, Cleanup(r) PROVE Inv'
  <2>1. TypeInv'
    BY <1>t, <1>9 DEF Cleanup, TypeInv, Steps
  <2>2. BytesInv'
    BY <1>0, <1>t, <1>9 DEF Cleanup, BytesInv
  <2>3. ReadInv' /\ DtbInv'
    BY <1>0, <1>t, <1>9 DEF Cleanup, ReadInv, DtbInv, Tpl, Ci
  <2>4. OutInv'
    BY <1>0, <1>t, <1>9 DEF Cleanup, OutInv, Tpl
  <2> QED BY <2>1, <2>2, <2>3, <2>4 DEF Inv
<1>10. ASSUME NEW r \in Runs, Die(r) PROVE Inv'
  <2>1. TypeInv'
    BY <1>t, <1>10 DEF Die, TypeInv, Steps, Active, Final
  <2>2. BytesInv'
    BY <1>0, <1>t, <1>10 DEF Die, BytesInv
  <2>3. ReadInv' /\ DtbInv'
    BY <1>0, <1>t, <1>10 DEF Die, ReadInv, DtbInv, Tpl, Ci, Active, Final
  <2>4. OutInv'
    BY <1>0, <1>t, <1>10 DEF Die, OutInv, Tpl, Active, Final
  <2> QED BY <2>1, <2>2, <2>3, <2>4 DEF Inv
<1>11. CASE UNCHANGED vars
  BY <1>0, <1>11 DEF Inv, TypeInv, BytesInv, ReadInv, DtbInv, OutInv, Tpl, Ci, vars
<1> QED BY <1>1, <1>2, <1>3, <1>4, <1>5, <1>6, <1>7, <1>8, <1>9, <1>10, <1>11
        DEF Next, AllEnded

LEMMA InvHolds == Spec => []Inv
<1>1. Init => Inv
  BY InitInv
<1>2. Inv /\ [Next]_vars => Inv'
  BY StepInv
<1> QED BY <1>1, <1>2, PTL DEF Spec

-----------------------------------------------------------------------------
LEMMA DeliveredParsesBack == Inv => ImageRoundTrips
<1> SUFFICES ASSUME Inv, NEW r \in Runs, Delivered(r), DtbInFile(Tpl(r))
             PROVE  LET o == rd(out.img)
                        t == Tpl(r)
                    IN  /\ Len(out.img) = PART_SZ
                        /\ DOMAIN o.frags = {1, 2}
                        /\ o.frags[1].payload = t.frags[1].payload
                        /\ o.frags[2].payload = f1[r]
                        /\ o.frags[1].typ = 1 /\ o.frags[2].typ = 2
                        /\ Slice(out.img, o.dtbo, o.dtbo + o.ds)
                             = Slice(t.raw, DtbStart(t), DtbStart(t) + t.ds)
  BY DEF ImageRoundTrips
<1> DEFINE d == args[r].template
           T == {f1[r][i] : i \in DOMAIN f1[r]}
<1>1. /\ out.img = AssembleImage(rd(d), f1[r]) /\ Len(out.img) = PART_SZ
      /\ 2 \in DOMAIN rd(d).frags /\ DtbFound(rd(d)) /\ DtbInFile(rd(d))
      /\ f1[r] \in Seq(T)
  BY DEF Delivered, Inv, OutInv, ReadInv, DtbInv, BytesInv, Bytes, Tpl
<1>2. IsVendorBoot(d)
  BY RepackAssumption DEF Inv, TypeInv
<1>3. rd(out.img).raw = out.img
  BY RdFields
<1> HIDE DEF d, T
<1>4. LET t == rd(d)
          o == rd(out.img)
      IN  /\ DOMAIN o.frags = {1, 2}
          /\ o.frags[1].payload = t.frags[1].payload
          /\ o.frags[2].payload = f1[r]
          /\ o.frags[1].typ = 1 /\ o.frags[2].typ = 2
          /\ Slice(o.raw, o.dtbo, o.dtbo + o.ds)
               = Slice(t.raw, DtbStart(t), DtbStart(t) + t.ds)
  BY <1>1, <1>2, ImageParsesBack
<1> QED BY <1>1, <1>3, <1>4 DEF Tpl, d

(***************************************************************************)
(* An image at --output whose run has passed the size assertion parses     *)
(* back, with the tool's own rd(), to F0 of the template, to the fragment  *)
(* this run compressed and to the t.ds cells of the template that start    *)
(* DTB_HDR before its first FDT magic, wherever that is, for every page    *)
(* and partition size, every layout of the template whose file reaches to  *)
(* the end of those cells, every size of the new fragment, however many    *)
(* runs share /tmp and the output path and whichever of their tools fail.  *)
(***************************************************************************)
THEOREM DeliveredRoundTrips == Spec => []ImageRoundTrips
<1>1. Inv => ImageRoundTrips
  BY DeliveredParsesBack
<1> QED BY <1>1, InvHolds, PTL

(***************************************************************************)
(* A run that delivers an image read both fragments of its template whole, *)
(* however short the template file was cut: rd() reports the second table  *)
(* entry only when the file reaches beyond everything the table describes. *)
(***************************************************************************)
THEOREM DeliveredFragmentsWhole == Spec => []NoEmptyFragmentDelivered
<1>1. Inv => NoEmptyFragmentDelivered
  <2> SUFFICES ASSUME Inv, NEW r \in Runs, Delivered(r), NEW i \in {1, 2}
               PROVE  Tpl(r).frags[i].sz = Len(Tpl(r).frags[i].payload)
    BY DEF NoEmptyFragmentDelivered
  <2> DEFINE d == args[r].template
  <2>1. IsVendorBoot(d) /\ 2 \in DOMAIN rd(d).frags
    BY RepackAssumption DEF Delivered, Inv, TypeInv, ReadInv, Tpl
  <2> HIDE DEF d
  <2>2. Len(rd(d).frags[i].payload) = rd(d).frags[i].sz
    BY <2>1, TemplateWhole
  <2> QED BY <2>2 DEF Tpl, d
<1> QED BY <1>1, InvHolds, PTL

-----------------------------------------------------------------------------
\* One run at a time, tools that work: a fragment that the CI image holds
\* whole is unpacked into the empty directory as the tree it encodes.
LEMMA UnpacksWhole ==
  ASSUME NEW old, NEW data, Decodes(data), ~ToolsFail
  PROVE  uz(old, data) = {Decoded(data)}
BY DEF uz

LEMMA StepMergeInv ==
  ASSUME Serial, ~ToolsFail
  PROVE  MergeInv /\ [Next]_vars => MergeInv'
<1> SUFFICES ASSUME MergeInv, [Next]_vars PROVE MergeInv'
  OBVIOUS
<1>0. Inv /\ Inv' /\ Alone /\ TreesInv
  BY StepInv DEF MergeInv
<1>t. /\ args \in Args
      /\ pc \in [Runs -> Steps]
      /\ DOMAIN tmp = {"ci_dir", "tp_dir", "f1_dir", "f1_new"}
      /\ DOMAIN f1 = Runs
  BY <1>0 DEF Inv, TypeInv
<1>d. ASSUME NEW q \in Runs, pc[q] \notin {"idle", "failed", "killed"}
      PROVE  /\ Decodes(Tpl(q).frags[2].payload)
             /\ Decodes(Ci(q).frags[2].payload)
             /\ CiTree(q) # Absent
  <2>1. /\ 2 \in DOMAIN Tpl(q).frags /\ IsVendorBoot(args[q].template)
        /\ 2 \in DOMAIN Ci(q).frags /\ IsVendorBoot(args[q].ci)
    BY <1>0, <1>t, <1>d, RepackAssumption DEF Inv, ReadInv
  <2>2. Decodes(Tpl(q).frags[2].payload) /\ Decodes(Ci(q).frags[2].payload)
    BY <2>1, TemplateWhole DEF Tpl, Ci
  <2> QED BY <1>t, <2>1, <2>2, RepackAssumption DEF Ci, CiTree
<1>f. \A q \in Runs : CiTree(q)' = CiTree(q) /\ Merged(q)' = Merged(q) /\ TplTree(q)' = TplTree(q)
  BY DEF Next, ReadImages, UnpackCi, UnpackTemplate, BuildF1Tree, PackF1, OpenOutput,
         WriteImage, AssertSize, Cleanup, Die, AllEnded, vars, CiTree, TplTree, Merged, Tpl, Ci
<1>1. ASSUME NEW r \in Runs, ReadImages(r) PROVE Alone' /\ TreesInv'
  <2>1. Alone'
    BY <1>0, <1>t, <1>1 DEF ReadImages, Alone, Active, Final
  <2>2. TreesInv'
    BY <1>0, <1>t, <1>d, <1>f, <1>1, UnpacksWhole DEF ReadImages, TreesInv, Alone, Active, Final
  <2> QED BY <2>1, <2>2
<1>2. ASSUME NEW r \in Runs, UnpackCi(r) PROVE Alone' /\ TreesInv'
  <2>1. Alone'
    BY <1>0, <1>t, <1>2 DEF UnpackCi, Alone, Active, Final
  <2>2. /\ pc[r] = "unpack_ci"
        /\ \A q \in Runs \ {r} : pc[q] \in {"idle", "done", "failed", "killed"}
    BY <1>0, <1>t, <1>2 DEF UnpackCi, Alone, Active, Final
  <2>3. tmp' = [tmp EXCEPT !.ci_dir = CiTree(r)] /\ pc' = [pc EXCEPT ![r] = "unpack_tpl"] /\ f1' = f1
    <3>1. uz(tmp.ci_dir, Ci(r).frags[2].payload) = {CiTree(r)}
      BY <1>d, <2>2, UnpacksWhole DEF CiTree
    <3> QED BY <1>2, <3>1 DEF UnpackCi
  <2>4. tmp'.ci_dir = CiTree(r)
    BY <1>t, <2>3
  <2>5. TreesInv'
    BY <1>0, <1>t, <1>f, <2>2, <2>3, <2>4 DEF TreesInv
  <2> QED BY <2>1, <2>5
<1>3. ASSUME NEW r \in Runs, UnpackTemplate(r) PROVE Alone' /\ TreesInv'
  <2>1. Alone'
    BY <1>0, <1>t, <1>3 DEF UnpackTemplate, Alone, Active, Final
  <2>2. /\ pc[r] = "unpack_tpl"
        /\ \A q \in Runs \ {r} : pc[q] \in {"idle", "done", "failed", "killed"}
    BY <1>0, <1>t, <1>3 DEF UnpackTemplate, Alone, Active, Final
  <2>3. tmp' = [tmp EXCEPT !.tp_dir = TplTree(r)] /\ pc' = [pc EXCEPT ![r] = "merge"] /\ f1' = f1
    <3>1. uz(tmp.tp_dir, Tpl(r).frags[2].payload) = {TplTree(r)}
      BY <1>d, <2>2, UnpacksWhole DEF TplTree
    <3> QED BY <1>3, <3>1 DEF UnpackTemplate
  <2>4. tmp'.tp_dir = TplTree(r) /\ tmp'.ci_dir = CiTree(r)
    BY <1>0, <1>t, <2>2, <2>3 DEF TreesInv
  <2>5. TreesInv'
    BY <1>0, <1>t, <1>f, <2>2, <2>3, <2>4 DEF TreesInv
  <2> QED BY <2>1, <2>5
<1>4. ASSUME NEW r \in Runs, BuildF1Tree(r) PROVE Alone' /\ TreesInv'
  <2>1. Alone'
    BY <1>0, <1>t, <1>4 DEF BuildF1Tree, Alone, Active, Final
  <2>2. /\ pc[r] = "merge"
        /\ \A q \in Runs \ {r} : pc[q] \in {"idle", "done", "failed", "killed"}
    BY <1>0, <1>t, <1>4 DEF BuildF1Tree, Alone, Active, Final
  <2>3. tmp.ci_dir = CiTree(r) /\ tmp.tp_dir = TplTree(r) /\ CiTree(r) # Absent
    BY <1>0, <1>d, <2>2 DEF TreesInv
  <2>4. /\ f1' = f1
        /\ \/ pc' = [pc EXCEPT ![r] = "failed"]
           \/ pc' = [pc EXCEPT ![r] = "pack"] /\ tmp'.f1_dir = Merged(r)
    <3>1. CASE tmp.tp_dir = Absent
      BY <1>4, <3>1 DEF BuildF1Tree
    <3>2. CASE tmp.tp_dir # Absent
      <4>1. tmp' = [tmp EXCEPT !.f1_dir = MergeTree(TplTree(r), CiTree(r))]
        BY <1>4, <2>3, <3>2 DEF BuildF1Tree
      <4>2. tmp'.f1_dir = Merged(r)
        BY <1>t, <4>1 DEF Merged
      <4> QED BY <1>4, <3>2, <4>2 DEF BuildF1Tree
    <3> QED BY <3>1, <3>2
  <2>5. TreesInv'
    BY <1>0, <1>t, <1>f, <2>2, <2>4 DEF TreesInv
  <2> QED BY <2>1, <2>5
<1>5. ASSUME NEW r \in Runs, PackF1(r) PROVE Alone' /\ TreesInv'
  <2>1. Alone'
    BY <1>0, <1>t, <1>5 DEF PackF1, Alone, Active, Final
  <2>2. /\ pc[r] = "pack"
        /\ \A q \in Runs \ {r} : pc[q] \in {"idle", "done", "failed", "killed"}
    BY <1>0, <1>t, <1>5 DEF PackF1, Alone, Active, Final
  <2>3. tmp.f1_dir = Merged(r)
    BY <1>0, <2>2 DEF TreesInv
  <2>4. /\ \A q \in Runs \ {r} : f1'[q] = f1[q]
        /\ \/ pc' = [pc EXCEPT ![r] = "failed"]
           \/ pc' = [pc EXCEPT ![r] = "image"]
              /\ \E n \in FragSizes : f1'[r] = Fragment(Merged(r), n)
    <3>1. CASE tmp.f1_dir = Absent
      BY <1>5, <3>1 DEF PackF1
    <3>2. CASE tmp.f1_dir # Absent
      <4>1. PICK new \in Packed(tmp.f1_new, tmp.f1_dir) :
              /\ f1' = [f1 EXCEPT ![r] = IF new = Absent THEN @ ELSE new]
              /\ pc' = [pc EXCEPT ![r] = IF new = Absent THEN "failed" ELSE "image"]
        BY <1>5, <3>2 DEF PackF1
      <4>2. \E n \in FragSizes : new = Fragment(Merged(r), n)
        BY <2>3 DEF Packed
      <4> QED BY <1>t, <4>1, <4>2
    <3> QED BY <3>1, <3>2
  <2>5. TreesInv'
    BY <1>0, <1>t, <1>f, <2>2, <2>4 DEF TreesInv
  <2> QED BY <2>1, <2>5
<1>6. ASSUME NEW r \in Runs, OpenOutput(r) PROVE Alone' /\ TreesInv'
  <2>1. Alone'
    BY <1>0, <1>t, <1>6 DEF OpenOutput, Alone, Active, Final
  <2>2. TreesInv'
    BY <1>0, <1>t, <1>d, <1>f, <1>6, UnpacksWhole DEF OpenOutput, TreesInv, Alone, Active, Final
  <2> QED BY <2>1, <2>2
<1>7. ASSUME NEW r \in Runs, WriteImage(r) PROVE Alone' /\ TreesInv'
  <2>1. Alone'
    BY <1>0, <1>t, <1>7 DEF WriteImage, Alone, Active, Final
  <2>2. TreesInv'
    BY <1>0, <1>t, <1>d, <1>f, <1>7, UnpacksWhole DEF WriteImage, TreesInv, Alone, Active, Final
  <2> QED BY <2>1, <2>2
<1>8. ASSUME NEW r \in Runs, AssertSize(r) PROVE Alone' /\ TreesInv'
  <2>1. Alone'
    BY <1>0, <1>t, <1>8 DEF AssertSize, Alone, Active, Final
  <2>2. TreesInv'
    BY <1>0, <1>t, <1>d, <1>f, <1>8, UnpacksWhole DEF AssertSize, TreesInv, Alone, Active, Final
  <2> QED BY <2>1, <2>2
<1>9. ASSUME NEW r \in Runs, Cleanup(r) PROVE Alone' /\ TreesInv'
  <2>1. Alone'
    BY <1>0, <1>t, <1>9 DEF Cleanup, Alone, Active, Final
  <2>2. TreesInv'
    BY <1>0, <1>t, <1>d, <1>f, <1>9, UnpacksWhole DEF Cleanup, TreesInv, Alone, Active, Final
  <2> QED BY <2>1, <2>2
<1>10. ASSUME NEW r \in Runs, Die(r) PROVE Alone' /\ TreesInv'
  <2>1. Alone'
    BY <1>0, <1>t, <1>10 DEF Die, Alone, Active, Final
  <2>2. TreesInv'
    BY <1>0, <1>t, <1>d, <1>f, <1>10, UnpacksWhole DEF Die, TreesInv, Alone, Active, Final
  <2> QED BY <2>1, <2>2
<1>11. CASE UNCHANGED vars
  BY <1>0, <1>f, <1>11 DEF MergeInv, Alone, Active, TreesInv, vars
<1> QED BY <1>0, <1>1, <1>2, <1>3, <1>4, <1>5, <1>6, <1>7, <1>8, <1>9, <1>10, <1>11
        DEF MergeInv, Next, AllEnded

LEMMA InitMergeInv == Init => MergeInv
<1> SUFFICES ASSUME Init PROVE MergeInv
  OBVIOUS
<1>1. Alone /\ TreesInv
  BY DEF Init, Alone, Active, TreesInv
<1> QED BY <1>1, InitInv DEF MergeInv

\* The fragment of a delivered image is the one the run compressed, and that
\* one is of the tree the run merged.
LEMMA DeliveredIsMerged == MergeInv => CompletedF1IsMerge
<1> SUFFICES ASSUME MergeInv, NEW r \in Runs, Delivered(r), DtbInFile(Tpl(r))
             PROVE  LET got == Fragments(out.img)[2].payload
                    IN  Decodes(got) /\ Decoded(got) = ExpectedF1(TplTree(r), CiTree(r))
  BY DEF CompletedF1IsMerge
<1>1. Fragments(out.img)[2].payload = f1[r]
  BY DeliveredParsesBack DEF MergeInv, ImageRoundTrips, Fragments
<1>2. PICK n \in FragSizes : f1[r] = Fragment(Merged(r), n)
  BY DEF MergeInv, TreesInv, Delivered
<1>3. n \in Nat /\ n # 0
  BY RepackAssumption
<1>4. Decodes(f1[r]) /\ Decoded(f1[r]) = Merged(r)
  BY <1>2, <1>3, FragmentDecodes
<1>5. Merged(r) = ExpectedF1(TplTree(r), CiTree(r))
  BY MergeIsExpected DEF Merged
<1> QED BY <1>1, <1>4, <1>5

(***************************************************************************)
(* When runs do not overlap and lz4 and cpio work, the F1 of a delivered   *)
(* image is the template's tree with CI's binaries and libraries, path by  *)
(* path, whatever runs that died earlier left in /tmp: uz() empties its    *)
(* directory, and main() builds f1_dir anew.                               *)
(***************************************************************************)
THEOREM CompletedIsMerged ==
  ASSUME Serial, ~ToolsFail
  PROVE  Spec => []CompletedF1IsMerge
<1>1. Init => MergeInv
  BY InitMergeInv
<1>2. MergeInv /\ [Next]_vars => MergeInv'
  BY StepMergeInv
<1>3. MergeInv => CompletedF1IsMerge
  BY DeliveredIsMerged
<1> QED BY <1>1, <1>2, <1>3, PTL DEF Spec
=============================================================================
