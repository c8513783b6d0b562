---------------------------- MODULE VendorBoot ----------------------------
(***************************************************************************)
(* The vendor_boot v4 image as tools/repack_vendor_boot.py reads and       *)
(* writes it.  An image is a sequence of cells; a cell stands for a run of *)
(* bytes that the tool always handles together (the header fields, one     *)
(* piece of a compressed fragment, the size/offset/type words of a table   *)
(* entry, its name).  Offsets are 0-based as in the code: offset o is cell *)
(* o + 1.  All the alignment and slice arithmetic of the tool is kept; the *)
(* sizes of the pieces are constants, so that TLC can use a page of a few  *)
(* cells.                                                                  *)
(***************************************************************************)
EXTENDS Integers, Sequences

CONSTANTS
  PAGE_SIZE,   \* 4096 in the code
  PART_SZ,     \* size of the vendor_boot partition, 64 MiB in the code
  ENTRY_HEAD,  \* cells of an entry's size/offset/type words (12 bytes)
  DTB_HDR,     \* distance from the DTB section to its FDT magic (64 bytes)
  DTB_SCAN     \* how far the tool looks for the magic (256 bytes)

ASSUME LayoutAssumption ==
  /\ PAGE_SIZE \in Nat \ {0}
  /\ PART_SZ \in Nat
  /\ ENTRY_HEAD \in Nat \ {0}
  /\ DTB_HDR \in Nat
  /\ DTB_SCAN \in Nat

(***************************************************************************)
(* Offsets of the sections.                                                *)
(***************************************************************************)
align(v, a) == ((v + a - 1) \div a) * a

RamdiskOffset(hs)       == align(hs, PAGE_SIZE)
DtbOffset(hs, rs)       == align(RamdiskOffset(hs) + rs, PAGE_SIZE)
TableOffset(hs, rs, ds) ==
  align(DtbOffset(hs, rs) + align(ds, PAGE_SIZE), PAGE_SIZE)

(***************************************************************************)
(* Cells.                                                                  *)
(***************************************************************************)
Zero == [kind |-> "zero"]
Zeros(n) == [i \in 1..n |-> Zero]

Header(hs, ds, rs, ec, es) ==
  [kind |-> "hdr", hs |-> hs, ds |-> ds, rs |-> rs, ec |-> ec, es |-> es]

Entry(sz, off, typ) == [kind |-> "ent", sz |-> sz, off |-> off, typ |-> typ]

NameCell(n) == [kind |-> "name", name |-> n]

\* A DTB section of ds cells whose FDT magic is at offset `at`.
Dtb(ds, at) == [i \in 1..ds |-> [kind |-> "dtb", part |-> i, magic |-> i = at + 1]]

\* What `lz4 -l` makes of a CPIO of file tree t: n pieces.
Fragment(t, n) ==
  [i \in 1..n |-> [kind |-> "lz4", tree |-> t, part |-> i, of |-> n]]

\* Does `lz4 -d` accept these cells, and what does it give back?
Decodes(p) ==
  /\ p # << >>
  /\ \A i \in DOMAIN p : p[i].kind = "lz4" /\ p[i].part = i /\ p[i].of = Len(p)
  /\ \A i \in DOMAIN p : p[i].tree = p[1].tree
Decoded(p) == p[1].tree

(***************************************************************************)
(* Python slices.  d[a:b] is cut off at the end of d; the assignment       *)
(* s[a:b] = data shrinks or grows a bytearray, it never fails.             *)
(***************************************************************************)
Least(a, b) == IF a <= b THEN a ELSE b
Most(a, b)  == IF a >= b THEN a ELSE b

Slice(d, a, b) == SubSeq(d, a + 1, Least(b, Len(d)))

SetSlice(s, a, b, data) ==
  LET lo == Least(a, Len(s))
      hi == Most(lo, Least(b, Len(s)))
  IN  SubSeq(s, 1, lo) \o data \o SubSeq(s, hi + 1, Len(s))

(***************************************************************************)
(* rd: parse an image.  The loop over the table stops at the first entry   *)
(* that lies beyond the end of the file; a payload that does is empty.     *)
(***************************************************************************)
EntryAt(d, eo) == IF d[eo + 1].kind = "ent" THEN d[eo + 1] ELSE Entry(0, 0, 0)

NameAt(d, eo) ==
  LET n == Slice(d, eo + ENTRY_HEAD, eo + ENTRY_HEAD + 1)
  IN  IF n # << >> /\ n[1].kind = "name" THEN n[1].name ELSE ""

PayloadShort(d, ro, e) == Slice(d, ro + e.off, ro + e.off + e.sz - 1)

Payload(d, ro, e) ==
  IF e.sz > 0 /\ ro + e.off + e.sz <= Len(d)
  THEN Slice(d, ro + e.off, ro + e.off + e.sz)
  ELSE << >>

rd(d) ==
  LET h    == d[1]
      ro   == RamdiskOffset(h.hs)
      dtbo == DtbOffset(h.hs, h.rs)
      tblo == TableOffset(h.hs, h.rs, h.ds)
      eo(i) == tblo + (i - 1) * h.es
      FragAt(i) == LET e == EntryAt(d, eo(i))
                   IN  [sz |-> e.sz, off |-> e.off, typ |-> e.typ,
                        name |-> NameAt(d, eo(i)), payload |-> Payload(d, ro, e)]
      inFile == {i \in 1..h.ec : eo(i) + ENTRY_HEAD <= Len(d)}
      frags  == [i \in inFile |-> FragAt(i)]
  IN  [raw |-> d, p0 |-> Slice(d, 0, PAGE_SIZE), hs |-> h.hs, ds |-> h.ds,
       rs |-> h.rs, ro |-> ro, dtbo |-> dtbo, tblo |-> tblo,
       ec |-> h.ec, es |-> h.es, frags |-> frags]

(***************************************************************************)
(* The image section of main(): template page 0 with the new ramdisk size, *)
(* F0 and the new F1, the template's DTB, a table of two entries.          *)
(***************************************************************************)
DtbMagics(t) ==
  {o \in t.dtbo .. Least(t.dtbo + DTB_SCAN, Len(t.raw)) - 1 :
      t.raw[o + 1].kind = "dtb" /\ t.raw[o + 1].magic}

DtbFound(t) ==
  /\ DtbMagics(t) # {}
  /\ \A o \in DtbMagics(t) :
        (\A m \in DtbMagics(t) : o <= m) => o - DTB_HDR >= t.dtbo

\* Where main() copies the DTB from: behind t.dtbo when the magic is deeper
\* in the section than DTB_HDR.
DtbStart(t) == (CHOOSE o \in DtbMagics(t) : \A m \in DtbMagics(t) : o <= m) - DTB_HDR

\* The template's file reaches to the end of the piece that is copied.
DtbInFile(t) == DtbStart(t) + t.ds <= Len(t.raw)

TableEntry(es, size, off, i) ==
  <<Entry(size, off, i)>> \o Zeros(es - 1)

\* Page 0 is the template's, with the new ramdisk size in its header.
Page0(t, rsz) ==
  [SetSlice(Zeros(PART_SZ), 0, PAGE_SIZE, t.p0) EXCEPT ![1].rs = rsz]

WithRamdisks(img, ro, f0, f1) ==
  LET mid == ro + Len(f0)
  IN  SetSlice(SetSlice(img, ro, mid, f0), mid, mid + Len(f1), f1)

WithDtb(img, dtbo, t) ==
  SetSlice(img, dtbo, dtbo + t.ds, Slice(t.raw, DtbStart(t), DtbStart(t) + t.ds))

WithTable(img, tblo, es, l0, l1) ==
  SetSlice(SetSlice(img, tblo, tblo + es, TableEntry(es, l0, 0, 1)),
           tblo + es, tblo + 2 * es, TableEntry(es, l1, l0, 2))

AssembleImage(t, f1) ==
  LET f0   == t.frags[1].payload
      rsz  == Len(f0) + Len(f1)
      ram  == WithRamdisks(Page0(t, rsz), RamdiskOffset(t.hs), f0, f1)
      dtb  == WithDtb(ram, DtbOffset(t.hs, rsz), t)
  IN  WithTable(dtb, TableOffset(t.hs, rsz, t.ds), t.es, Len(f0), Len(f1))

(***************************************************************************)
(* An image as mkbootimg lays it out (external): the inputs of the tools.  *)
(* `len` cuts the file short, as an interrupted copy of a partition does.  *)
(***************************************************************************)
Pad(s) == s \o Zeros(align(Len(s), PAGE_SIZE) - Len(s))

MkImage(hs, es, f0, f1, dtb, len) ==
  LET hdr == <<Header(hs, Len(dtb), Len(f0) + Len(f1), 2, es)>> \o Zeros(hs - 1)
      row(e, n) == <<e, NameCell(n)>> \o Zeros(es - 2)
      table == row(Entry(Len(f0), 0, 1), "") \o row(Entry(Len(f1), Len(f0), 2), "recovery")
      full  == Pad(hdr) \o Pad(f0 \o f1) \o Pad(dtb) \o Pad(table)
  IN  SubSeq(full \o Zeros(PART_SZ), 1, len)

(***************************************************************************)
(* What the tool is entitled to expect of its inputs, whole or cut short:  *)
(* the header counts two entries, entries lie in the ramdisk section, and  *)
(* a fragment that is there whole decodes.  Nothing is said of where in    *)
(* the DTB section the first FDT magic is.                                 *)
(***************************************************************************)
IsVendorBoot(d) ==
  /\ d # << >> /\ d \in Seq({d[i] : i \in DOMAIN d})
  /\ d[1] = Header(d[1].hs, d[1].ds, d[1].rs, 2, d[1].es)
  /\ d[1].hs \in Nat \ {0} /\ d[1].ds \in Nat /\ d[1].rs \in Nat
  /\ d[1].es \in Nat /\ d[1].es >= ENTRY_HEAD
  /\ \A i \in DOMAIN d : d[i].kind = "ent" =>
       d[i].sz \in Nat /\ d[i].off \in Nat /\ d[i].off + d[i].sz <= d[1].rs
  /\ 2 \in DOMAIN rd(d).frags =>
       LET e    == rd(d).frags[2]
           from == rd(d).ro + e.off
       IN  e.sz > 0 /\ Decodes(Slice(d, from, from + e.sz))
=============================================================================
