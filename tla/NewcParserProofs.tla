------------------------- MODULE NewcParserProofs -------------------------
(***************************************************************************)
(* Proofs about NewcParser: the spans parse_newc() hands to                *)
(* patch_properties() are disjoint and inside the archive, every iteration *)
(* consumes input, and of an archive that cpio wrote it returns every file *)
(* or, when it was cut or something follows it, none.                      *)
(***************************************************************************)
EXTENDS NewcArchives, WellFoundedInduction, TLAPS

\* Eight hexadecimal digits: what every cpio writes in a numeric field.
Unsigned ==
  \A b \in Blobs : \A o \in DOMAIN b.hdr :
     b.hdr[o].name_size \in Nat /\ b.hdr[o].size \in Nat

\* Blobs is a constant, so the archive in hand stays one of them.
Inv == ParserInv /\ blob \in Blobs

\* aligned() rounds up to the next multiple of four.
LEMMA AlignedRoundsUp ==
  ASSUME NEW v \in Int
  PROVE  /\ aligned(v) \in Int
         /\ aligned(v) >= v
         /\ aligned(v) < v + 4
         /\ aligned(v) % 4 = 0
  BY DEF aligned

(***************************************************************************)
(* Where an accepted header puts its data and the next header.             *)
(***************************************************************************)
LEMMA SpanOfEntry ==
  ASSUME NEW o \in Int, o >= 0, o % 4 = 0,
         NEW h, h.name_size \in Nat, h.size \in Nat, h.name_size >= 1
  PROVE  /\ DataStart(o, h) \in Int /\ DataEnd(o, h) \in Int /\ NextOffset(o, h) \in Int
         /\ o + HEADER < DataStart(o, h)
         /\ o + HEADER + 2 <= DataStart(o, h)
         /\ DataStart(o, h) <= DataEnd(o, h)
         /\ DataEnd(o, h) <= NextOffset(o, h)
         /\ NextOffset(o, h) % 4 = 0
<1> DEFINE ns == h.name_size
           sz == h.size
<1>1. NameEnd(o, h) = o + 110 + ns /\ NameEnd(o, h) \in Int
  BY DEF NameEnd, HEADER
<1>2. /\ DataStart(o, h) \in Int
      /\ DataStart(o, h) >= NameEnd(o, h)
      /\ DataStart(o, h) % 4 = 0
  BY <1>1, AlignedRoundsUp DEF DataStart
<1>3. DataStart(o, h) >= o + 111
  BY <1>1, <1>2
<1>4. DataStart(o, h) >= o + 112
  <2> DEFINE d == DataStart(o, h)
  <2> HIDE DEF d
  <2>1. d \in Int /\ d % 4 = 0 /\ d >= o + 111
    BY <1>2, <1>3 DEF d
  <2>2. d # o + 111
    BY <2>1
  <2> QED BY <2>1, <2>2 DEF d
<1>5. DataEnd(o, h) = DataStart(o, h) + sz /\ DataEnd(o, h) \in Int
  BY <1>2 DEF DataEnd
<1>6. /\ NextOffset(o, h) \in Int
      /\ NextOffset(o, h) >= DataEnd(o, h)
      /\ NextOffset(o, h) % 4 = 0
  BY <1>5, AlignedRoundsUp DEF NextOffset
<1> QED BY <1>2, <1>4, <1>5, <1>6 DEF HEADER

\* The loop starts at offset 0 with no entries.
LEMMA InitInv == ParserInit => Inv
<1> SUFFICES ASSUME ParserInit PROVE Inv
  OBVIOUS
<1>1. entries = << >> /\ Len(entries) = 0 /\ entries \in Seq(Entries)
  BY DEF ParserInit, ParserInitFrom
<1>2. ParserTypeOK
  <2>1. blob.len \in Nat
    BY BlobAssumption DEF ParserInit, ParserInitFrom
  <2>2. trailer_found \in BOOLEAN /\ status \in {"parsing", "done", "error"}
    BY Zenon DEF ParserInit, ParserInitFrom
  <2>3. offset \in Int
    BY DEF ParserInit, ParserInitFrom
  <2> QED BY <1>1, <2>1, <2>2, <2>3 DEF ParserTypeOK
<1>3. EntriesDisjoint
  BY <1>1 DEF EntriesDisjoint
<1> QED BY <1>1, <1>2, <1>3 DEF ParserInit, ParserInitFrom, Inv, ParserInv

(***************************************************************************)
(* The header an accepted iteration works on.                              *)
(***************************************************************************)
LEMMA AcceptedHeader ==
  ASSUME Unsigned, Inv, EntryOK(offset)
  PROVE  /\ offset \in Int /\ offset >= 0 /\ offset % 4 = 0
         /\ blob.hdr[offset] \in Headers
         /\ blob.hdr[offset].name_size \in Nat
         /\ blob.hdr[offset].size \in Nat
         /\ blob.hdr[offset].name_size >= 1
         /\ DataEnd(offset, blob.hdr[offset]) <= blob.len
         /\ blob.len \in Nat
  BY BlobAssumption
  DEF Unsigned, Inv, ParserInv, ParserTypeOK, EntryOK, HeaderOK, NameOK, DataOK

\* The appended entry lies behind every earlier one.
LEMMA AcceptEntryInv ==
  ASSUME Unsigned, Inv, AcceptEntry
  PROVE  Inv'
<1> DEFINE h == blob.hdr[offset]
           e == EntryOf(offset, h)
<1>1. EntryOK(offset)
  BY DEF AcceptEntry
<1>2. /\ offset \in Int /\ offset >= 0 /\ offset % 4 = 0
      /\ h \in Headers
      /\ h.name_size \in Nat /\ h.size \in Nat /\ h.name_size >= 1
      /\ DataEnd(offset, h) <= blob.len /\ blob.len \in Nat
  BY <1>1, AcceptedHeader
<1>3. /\ DataStart(offset, h) \in Int /\ DataEnd(offset, h) \in Int
      /\ NextOffset(offset, h) \in Int
      /\ offset + HEADER < DataStart(offset, h)
      /\ offset + HEADER + 2 <= DataStart(offset, h)
      /\ DataStart(offset, h) <= DataEnd(offset, h)
      /\ DataEnd(offset, h) <= NextOffset(offset, h)
      /\ NextOffset(offset, h) % 4 = 0
  BY <1>2, SpanOfEntry
<1>4. /\ blob' = blob /\ status' = status /\ trailer_found' = trailer_found
      /\ offset' = NextOffset(offset, h)
      /\ entries' = Append(entries, e)
  BY DEF AcceptEntry
<1>5. e \in Entries
  BY <1>2, <1>3 DEF EntryOf, Entries, Headers
<1>6. /\ e.header_start = offset
      /\ e.data_start = DataStart(offset, h)
      /\ e.data_end = DataEnd(offset, h)
  BY DEF EntryOf
<1>7. entries \in Seq(Entries)
  BY DEF Inv, ParserInv, ParserTypeOK
<1>8. /\ entries' \in Seq(Entries)
      /\ Len(entries') = Len(entries) + 1
      /\ Len(entries) \in Nat
      /\ entries'[Len(entries) + 1] = e
      /\ \A i \in 1..Len(entries) : entries'[i] = entries[i] /\ entries[i] \in Entries
  BY <1>4, <1>5, <1>7
<1> HIDE DEF h, e
<1>9. ParserTypeOK'
  BY <1>2, <1>3, <1>4, <1>8 DEF Inv, ParserInv, ParserTypeOK
<1>10. offset' >= 0 /\ offset' % 4 = 0 /\ offset' >= offset + HEADER + 2
  BY <1>2, <1>3, <1>4 DEF HEADER
<1>11. \A i \in 1..Len(entries') : entries'[i].data_end <= offset'
  <2> SUFFICES ASSUME NEW i \in 1..Len(entries')
               PROVE  entries'[i].data_end <= offset'
    OBVIOUS
  <2>1. CASE i = Len(entries) + 1
    BY <2>1, <1>3, <1>4, <1>6, <1>8
  <2>2. CASE i \in 1..Len(entries)
    <3>1. entries[i].data_end <= offset /\ entries[i].data_end \in Int
      BY <2>2, <1>8 DEF Inv, ParserInv, Entries
    <3> QED BY <3>1, <2>2, <1>8, <1>10, <1>2, <1>3, <1>4, SMTT(30) DEF HEADER
  <2> QED BY <2>1, <2>2, <1>8
<1>12. EntriesDisjoint'
  <2>1. ASSUME NEW i \in 1..Len(entries')
        PROVE  /\ 0 <= entries'[i].header_start
               /\ entries'[i].header_start + HEADER < entries'[i].data_start
               /\ entries'[i].data_start <= entries'[i].data_end
               /\ entries'[i].data_end <= blob'.len
    <3>1. CASE i = Len(entries) + 1
      BY <3>1, <1>2, <1>3, <1>4, <1>6, <1>8 DEF HEADER
    <3>2. CASE i \in 1..Len(entries)
      BY <3>2, <1>4, <1>8 DEF Inv, ParserInv, EntriesDisjoint
    <3> QED BY <3>1, <3>2, <1>8
  <2>2. ASSUME NEW i \in 1..Len(entries'), NEW j \in 1..Len(entries'), i < j
        PROVE  entries'[i].data_end <= entries'[j].header_start
    <3>1. i \in 1..Len(entries)
      BY <2>2, <1>8
    <3>2. CASE j = Len(entries) + 1
      BY <3>1, <3>2, <1>6, <1>8 DEF Inv, ParserInv
    <3>3. CASE j \in 1..Len(entries)
      BY <2>2, <3>1, <3>3, <1>8 DEF Inv, ParserInv, EntriesDisjoint
    <3> QED BY <3>2, <3>3, <1>8
  <2> QED BY <2>1, <2>2 DEF EntriesDisjoint
<1> QED BY <1>4, <1>9, <1>10, <1>11, <1>12 DEF Inv, ParserInv

\* The trailer moves the offset past itself and appends nothing.
LEMMA AcceptTrailerInv ==
  ASSUME Unsigned, Inv, AcceptTrailer
  PROVE  Inv'
<1> DEFINE h == blob.hdr[offset]
<1>1. /\ offset \in Int /\ offset >= 0 /\ offset % 4 = 0
      /\ h.name_size \in Nat /\ h.size \in Nat /\ h.name_size >= 1
  BY AcceptedHeader DEF AcceptTrailer
<1>2. /\ DataStart(offset, h) \in Int /\ DataEnd(offset, h) \in Int
      /\ NextOffset(offset, h) \in Int
      /\ offset + HEADER + 2 <= DataStart(offset, h)
      /\ DataStart(offset, h) <= DataEnd(offset, h)
      /\ DataEnd(offset, h) <= NextOffset(offset, h)
      /\ NextOffset(offset, h) % 4 = 0
  BY <1>1, SpanOfEntry
<1>3. /\ blob' = blob /\ status' = status /\ entries' = entries
      /\ trailer_found' = TRUE /\ offset' = NextOffset(offset, h)
  BY DEF AcceptTrailer
<1>4. offset' \in Int /\ offset' >= offset /\ offset' >= 0 /\ offset' % 4 = 0
  BY <1>1, <1>2, <1>3 DEF HEADER
<1>5. ParserTypeOK' /\ EntriesDisjoint'
  BY <1>3, <1>4 DEF Inv, ParserInv, ParserTypeOK, EntriesDisjoint
<1>6. \A i \in 1..Len(entries') : entries'[i].data_end <= offset'
  <2> SUFFICES ASSUME NEW i \in 1..Len(entries)
               PROVE  entries[i].data_end <= offset'
    BY <1>3
  <2>1. entries[i] \in Entries
    BY DEF Inv, ParserInv, ParserTypeOK
  <2>2. entries[i].data_end <= offset /\ entries[i].data_end \in Int
    BY <2>1 DEF Inv, ParserInv, Entries
  <2> QED BY <2>2, <1>1, <1>4
<1> QED BY <1>3, <1>4, <1>5, <1>6 DEF Inv, ParserInv

\* Every iteration, and the end of the loop, keeps the invariant.
LEMMA NextInv ==
  ASSUME Unsigned, Inv, [ParserNext]_parserVars
  PROVE  Inv'
<1>1. CASE AcceptEntry
  BY <1>1, AcceptEntryInv
<1>2. CASE AcceptTrailer
  BY <1>2, AcceptTrailerInv
<1>3. CASE Reject \/ Finish
  BY <1>3 DEF Reject, Finish, Inv, ParserInv, ParserTypeOK, EntriesDisjoint
<1>4. CASE Returned \/ UNCHANGED parserVars
  BY <1>4 DEF Returned, parserVars, Inv, ParserInv, ParserTypeOK, EntriesDisjoint
<1> QED BY <1>1, <1>2, <1>3, <1>4 DEF ParserNext

(***************************************************************************)
(* The spans that parse_newc() returns never overlap and never leave the   *)
(* archive, whatever headers the archive holds.                            *)
(***************************************************************************)
THEOREM SpansAreDisjoint == ASSUME Unsigned PROVE ParserSpec => []EntriesDisjoint
<1>1. Inv => EntriesDisjoint
  BY DEF Inv, ParserInv
<1>2. Inv /\ [ParserNext]_parserVars => Inv'
  BY NextInv
<1> QED BY InitInv, <1>1, <1>2, PTL DEF ParserSpec

(***************************************************************************)
(* Every iteration of the loop of parse_newc() consumes at least 112 bytes *)
(* of the archive.                                                         *)
(***************************************************************************)
THEOREM LoopProgresses == ASSUME Unsigned PROVE ParserSpec => Progress
<1> DEFINE Step == status' = "parsing" => offset' >= offset + HEADER + 2
<1>1. ASSUME Inv, ParserNext
      PROVE  Step \/ UNCHANGED parserVars
  <2> DEFINE h == blob.hdr[offset]
  <2>1. CASE AcceptEntry \/ AcceptTrailer
    <3>1. EntryOK(offset) /\ offset' = NextOffset(offset, h)
      BY <2>1 DEF AcceptEntry, AcceptTrailer
    <3>2. /\ offset \in Int /\ offset >= 0 /\ offset % 4 = 0
          /\ h.name_size \in Nat /\ h.size \in Nat /\ h.name_size >= 1
      BY <1>1, <3>1, AcceptedHeader
    <3>3. /\ DataStart(offset, h) \in Int /\ DataEnd(offset, h) \in Int
          /\ NextOffset(offset, h) \in Int
          /\ offset + HEADER + 2 <= DataStart(offset, h)
          /\ DataStart(offset, h) <= DataEnd(offset, h)
          /\ DataEnd(offset, h) <= NextOffset(offset, h)
      BY <3>2, SpanOfEntry
    <3> QED BY <3>1, <3>2, <3>3 DEF HEADER
  <2>2. CASE Reject \/ Finish
    BY <2>2 DEF Reject, Finish
  <2>3. CASE Returned
    BY <2>3 DEF Returned
  <2> QED BY <1>1, <2>1, <2>2, <2>3 DEF ParserNext
<1>2. Inv /\ [ParserNext]_parserVars => Inv'
  BY NextInv
<1>3. Inv /\ [ParserNext]_parserVars => [Step]_parserVars
  BY <1>1
<1> QED BY InitInv, <1>2, <1>3, PTL DEF ParserSpec, Progress

-----------------------------------------------------------------------------
(***************************************************************************)
(* Archives that cpio wrote, of any number of files of any size.  The      *)
(* writer pads, the parser rounds up.                                      *)
(***************************************************************************)
LEMMA PaddedIsAligned == ASSUME NEW v \in Int PROVE Padded(v) = aligned(v)
BY DEF Padded, aligned

LEMMA FileEndIsNextOffset ==
  ASSUME NEW o \in Int, NEW h, h.name_size \in Int, h.size \in Int
  PROVE  FileEnd(o, h) = NextOffset(o, h)
<1>1. o + HEADER + h.name_size \in Int
  BY DEF HEADER
<1>2. Padded(o + HEADER + h.name_size) = DataStart(o, h) /\ DataStart(o, h) \in Int
  BY <1>1, PaddedIsAligned, AlignedRoundsUp DEF DataStart, NameEnd
<1> QED BY <1>2, PaddedIsAligned DEF FileEnd, NextOffset, DataEnd

LEMMA NatMinimum ==
  ASSUME NEW S \in SUBSET Nat, S # {}
  PROVE  \E m \in S : \A x \in S : m <= x
<1>1. PICK m \in S : \A x \in S : ~(<<x, m>> \in OpToRel(<, Nat))
  BY NatLessThanWellFounded, WFMin
<1>2. ASSUME NEW x \in S, ~(m <= x) PROVE FALSE
  <2>1. x \in Nat /\ m \in Nat /\ x < m
    BY <1>2
  <2>2. <<x, m>> \in OpToRel(<, Nat)
    BY <2>1 DEF OpToRel
  <2> QED BY <1>1, <2>2
<1> QED BY <1>2

\* The archive in hand is one whose layout is known.
Known == blob.sound \/ blob.junk

n == Len(blob.files)
start(k) == blob.starts[k]
header(k) == blob.hdr[blob.starts[k]]

LEMMA Layout ==
  ASSUME blob \in Blobs, Known
  PROVE  /\ n \in Nat /\ blob.len \in Nat
         /\ start(1) = 0
         /\ \A k \in 1..(n + 1) :
              /\ start(k) \in Nat /\ header(k) \in Headers /\ Readable(blob, start(k))
              /\ header(k).name_size \in Nat /\ header(k).size \in Nat
              /\ header(k).name_size >= 1
         /\ \A k \in 1..n :
              /\ header(k).name = blob.files[k].name /\ header(k).name # Trailer
              /\ header(k).size = blob.files[k].size
              /\ start(k + 1) = NextOffset(start(k), header(k))
         /\ header(n + 1).name = Trailer /\ header(n + 1).size = 0
         /\ blob.full = NextOffset(start(n + 1), header(n + 1))
<1>1. Stored(blob)
  BY ArchivesAssumption DEF Known
<1>2. n \in Nat /\ blob.len \in Nat /\ start(1) = 0 /\ blob.starts \in [1..(n + 1) -> Nat]
  BY <1>1, BlobAssumption DEF Stored, n, start
<1>3. ASSUME NEW k \in 1..(n + 1)
      PROVE  /\ start(k) \in Nat /\ header(k) \in Headers /\ Readable(blob, start(k))
             /\ header(k).name_size \in Nat /\ header(k).size \in Nat
             /\ header(k).name_size >= 1
  <2>1. start(k) \in Nat /\ Readable(blob, start(k))
    BY <1>1, <1>2 DEF Stored, n, start
  <2>2. header(k) \in Headers
    BY <2>1, BlobAssumption DEF Readable, header, start
  <2>3. header(k).name_size \in Int /\ header(k).size \in Int
    BY <2>2 DEF Headers
  <2>4. header(k).name_size >= 1 /\ header(k).size >= 0
    BY <2>1 DEF Readable, header, start
  <2> QED BY <2>1, <2>2, <2>3, <2>4
<1>4. ASSUME NEW k \in 1..n
      PROVE  /\ header(k).name = blob.files[k].name /\ header(k).name # Trailer
             /\ header(k).size = blob.files[k].size
             /\ start(k + 1) = NextOffset(start(k), header(k))
  <2>1. /\ header(k).name = blob.files[k].name /\ header(k).name # Trailer
        /\ header(k).size = blob.files[k].size
        /\ start(k + 1) = FileEnd(start(k), header(k))
    BY <1>1 DEF Stored, n, start, header
  <2>2. k \in 1..(n + 1)
    BY <1>2
  <2> QED BY <1>3, <2>1, <2>2, FileEndIsNextOffset
<1>5. /\ header(n + 1).name = Trailer /\ header(n + 1).size = 0
      /\ blob.full = NextOffset(start(n + 1), header(n + 1))
  <2>1. /\ header(n + 1).name = Trailer /\ header(n + 1).size = 0
        /\ blob.full = FileEnd(start(n + 1), header(n + 1))
    BY <1>1 DEF Stored, n, start, header
  <2>2. n + 1 \in 1..(n + 1)
    BY <1>2
  <2> QED BY <1>3, <2>1, <2>2, FileEndIsNextOffset
<1> QED BY <1>2, <1>3, <1>4, <1>5

(***************************************************************************)
(* Headers stand at multiples of four, and every file ends before the      *)
(* archive does: from the first header on, and from the trailer back.      *)
(***************************************************************************)
LEMMA StartsAligned ==
  ASSUME blob \in Blobs, Known
  PROVE  \A k \in 1..(n + 1) : start(k) % 4 = 0
<1> DEFINE Bad == {k \in 1..(n + 1) : start(k) % 4 # 0}
<1>1. SUFFICES Bad = {}
  OBVIOUS
<1>2. SUFFICES ASSUME Bad # {} PROVE FALSE
  OBVIOUS
<1>3. n \in Nat /\ Bad \in SUBSET Nat
  BY Layout
<1>4. PICK k \in Bad : \A j \in Bad : k <= j
  <2> HIDE DEF Bad
  <2> QED BY <1>2, <1>3, NatMinimum
<1>5. k # 1
  BY Layout
<1>6. k - 1 \in 1..n /\ (k - 1) + 1 = k /\ k - 1 \in 1..(n + 1)
  BY <1>3, <1>5
<1>7. start(k - 1) % 4 = 0
  BY <1>3, <1>4, <1>6
<1>8. /\ start(k) = NextOffset(start(k - 1), header(k - 1))
      /\ start(k - 1) \in Nat /\ header(k - 1).name_size \in Nat
      /\ header(k - 1).size \in Nat /\ header(k - 1).name_size >= 1
  BY <1>6, Layout
<1>9. start(k) % 4 = 0
  BY <1>7, <1>8, SpanOfEntry
<1> QED BY <1>4, <1>9

LEMMA FilesEndInFull ==
  ASSUME blob \in Blobs, Known
  PROVE  /\ blob.full \in Int
         /\ \A k \in 1..(n + 1) : /\ NextOffset(start(k), header(k)) \in Int
                                  /\ NextOffset(start(k), header(k)) <= blob.full
                                  /\ start(k) < NextOffset(start(k), header(k))
<1> DEFINE end(k) == NextOffset(start(k), header(k))
           Late == {j \in 0..n : ~(end(n + 1 - j) <= blob.full)}
<1>1. \A k \in 1..(n + 1) : end(k) \in Int /\ start(k) < end(k) /\ start(k) \in Nat
  <2> TAKE k \in 1..(n + 1)
  <2>1. /\ start(k) \in Nat /\ start(k) % 4 = 0 /\ header(k).name_size \in Nat
        /\ header(k).size \in Nat /\ header(k).name_size >= 1
    BY Layout, StartsAligned
  <2>2. /\ DataStart(start(k), header(k)) \in Int /\ DataEnd(start(k), header(k)) \in Int
        /\ end(k) \in Int
        /\ start(k) + HEADER < DataStart(start(k), header(k))
        /\ DataStart(start(k), header(k)) <= DataEnd(start(k), header(k))
        /\ DataEnd(start(k), header(k)) <= end(k)
    BY <2>1, SpanOfEntry
  <2> QED BY <2>1, <2>2 DEF HEADER
<1>2. n \in Nat /\ blob.full = end(n + 1) /\ blob.full \in Int
  BY <1>1, Layout
<1> HIDE DEF end
<1>3. Late = {}
  <2> SUFFICES ASSUME Late # {} PROVE FALSE
    OBVIOUS
  <2>1. Late \in SUBSET Nat
    BY <1>2
  <2>2. PICK j \in Late : \A i \in Late : j <= i
    <3> HIDE DEF Late
    <3> QED BY <2>1, NatMinimum
  <2>3. j \in 0..n /\ j # 0
    BY <1>2, <2>2
  <2>4. j - 1 \in 0..n /\ n + 1 - (j - 1) = (n + 1 - j) + 1 /\ n + 1 - j \in 1..n
    BY <1>2, <2>3
  <2>5. end((n + 1 - j) + 1) <= blob.full
    <3>1. j - 1 \notin Late
      BY <2>2, <2>3
    <3> QED BY <2>4, <3>1
  <2>6. /\ start((n + 1 - j) + 1) = end(n + 1 - j)
        /\ (n + 1 - j) + 1 \in 1..(n + 1) /\ n + 1 - j \in 1..(n + 1)
    BY <1>2, <2>4, Layout DEF end
  <2>7. end(n + 1 - j) <= blob.full
    BY <1>1, <1>2, <2>5, <2>6
  <2> QED BY <2>2, <2>7
<1>4. ASSUME NEW k \in 1..(n + 1) PROVE end(k) <= blob.full
  <2>1. n + 1 - k \in 0..n /\ n + 1 - (n + 1 - k) = k
    BY <1>2
  <2> QED BY <1>3, <2>1
<1> QED BY <1>1, <1>2, <1>4 DEF end

(***************************************************************************)
(* The loop itself is the induction over the files: after k iterations it  *)
(* holds exactly the first k entries and stands at the next header, and    *)
(* behind the trailer it stands at the end of the archive.  It has raised  *)
(* on a sound archive only if the archive was cut.                         *)
(***************************************************************************)
FirstEntries(k) == [i \in 1..k |-> EntryOf(start(i), header(i))]

Reached(k) ==
  /\ entries = FirstEntries(k)
  /\ status = "parsing" /\ ~trailer_found => offset = start(k + 1)
  /\ trailer_found => k = n /\ offset = blob.full

ArchiveInv ==
  /\ blob \in Blobs
  /\ trailer_found \in BOOLEAN /\ status \in {"parsing", "done", "error"}
  /\ Known => \E k \in 0..n : Reached(k)
  /\ status = "done" => trailer_found /\ ~NonZeroFrom(offset)
  /\ status = "error" /\ blob.sound => blob.len < blob.full

LEMMA InitArchiveInv == ParserInit => ArchiveInv
<1> SUFFICES ASSUME ParserInit PROVE ArchiveInv
  OBVIOUS
<1>1. /\ blob \in Blobs /\ offset = 0 /\ entries = << >>
      /\ trailer_found = FALSE /\ status = "parsing"
  BY DEF ParserInit, ParserInitFrom
<1>2. ASSUME Known PROVE 0 \in 0..n /\ Reached(0)
  <2>1. n \in Nat /\ start(1) = 0
    BY <1>1, <1>2, Layout
  <2>2. entries = FirstEntries(0)
    BY <1>1 DEF FirstEntries
  <2> QED BY <1>1, <2>1, <2>2 DEF Reached
<1> QED BY <1>1, <1>2 DEF ArchiveInv

(***************************************************************************)
(* An iteration that accepts a header accepts the next one cpio wrote.     *)
(***************************************************************************)
LEMMA AcceptEntryArchive ==
  ASSUME ArchiveInv, AcceptEntry
  PROVE  ArchiveInv'
<1>1. /\ blob' = blob /\ status' = status /\ status = "parsing"
      /\ trailer_found' = trailer_found /\ ~trailer_found
      /\ entries' = Append(entries, EntryOf(offset, blob.hdr[offset]))
      /\ offset' = NextOffset(offset, blob.hdr[offset])
      /\ blob.hdr[offset].name # Trailer
  BY DEF AcceptEntry, Looping
<1>2. ASSUME Known PROVE \E k \in 0..n : Reached(k)'
  <2>1. PICK k \in 0..n : Reached(k)
    BY <1>2 DEF ArchiveInv
  <2>2. entries = FirstEntries(k) /\ offset = start(k + 1)
    BY <1>1, <2>1 DEF Reached
  <2>3. n \in Nat /\ header(n + 1).name = Trailer
    BY <1>2, Layout DEF ArchiveInv
  <2>4. blob.hdr[offset] = header(k + 1)
    BY <2>2 DEF header, start
  <2>5. k \in Nat /\ k # n /\ k + 1 \in 1..n
    BY <1>1, <2>3, <2>4
  <2>6. offset' = start(k + 2)
    <3>1. start((k + 1) + 1) = NextOffset(start(k + 1), header(k + 1))
      BY <1>2, <2>5, Layout DEF ArchiveInv
    <3>2. (k + 1) + 1 = k + 2
      BY <2>5
    <3> QED BY <1>1, <2>2, <2>4, <3>1, <3>2
  <2>7. entries' = FirstEntries(k + 1)
    <3> DEFINE e(i) == EntryOf(start(i), header(i))
    <3>1. entries = [i \in 1..k |-> e(i)] /\ entries' = Append(entries, e(k + 1))
      BY <1>1, <2>2, <2>4 DEF FirstEntries
    <3> HIDE DEF e
    <3>2. Append([i \in 1..k |-> e(i)], e(k + 1)) = [i \in 1..(k + 1) |-> e(i)]
      BY <2>5
    <3> QED BY <3>1, <3>2 DEF e, FirstEntries
  <2>8. FirstEntries(k + 1)' = FirstEntries(k + 1) /\ start(k + 2)' = start(k + 2) /\ n' = n
    BY <1>1 DEF FirstEntries, start, header, n
  <2>9. Reached(k + 1)'
    <3>1. k + 1 + 1 = k + 2
      BY <2>5
    <3> QED BY <1>1, <2>6, <2>7, <2>8, <3>1 DEF Reached, start
  <2> QED BY <2>5, <2>9
<1> QED BY <1>1, <1>2 DEF ArchiveInv, Known, n

LEMMA AcceptTrailerArchive ==
  ASSUME ArchiveInv, AcceptTrailer
  PROVE  ArchiveInv'
<1>1. /\ blob' = blob /\ status' = status /\ status = "parsing"
      /\ trailer_found' = TRUE /\ ~trailer_found /\ entries' = entries
      /\ offset' = NextOffset(offset, blob.hdr[offset])
      /\ blob.hdr[offset].name = Trailer
  BY DEF AcceptTrailer, Looping
<1>2. ASSUME Known PROVE \E k \in 0..n : Reached(k)'
  <2>1. PICK k \in 0..n : Reached(k)
    BY <1>2 DEF ArchiveInv
  <2>2. entries = FirstEntries(k) /\ offset = start(k + 1) /\ blob.hdr[offset] = header(k + 1)
    BY <1>1, <2>1 DEF Reached, start, header
  <2>3. n \in Nat /\ \A j \in 1..n : header(j).name # Trailer
    BY <1>2, Layout DEF ArchiveInv
  <2>4. k = n
    BY <1>1, <2>2, <2>3
  <2>5. offset' = blob.full
    BY <1>1, <1>2, <2>2, <2>4, Layout DEF ArchiveInv
  <2>6. FirstEntries(k)' = FirstEntries(k) /\ n' = n
    BY <1>1 DEF FirstEntries, start, header, n
  <2> QED BY <1>1, <2>2, <2>3, <2>4, <2>5, <2>6 DEF Reached
<1> QED BY <1>1, <1>2 DEF ArchiveInv, Known, n

\* A header cpio wrote has a magic, hexadecimal numbers and a NUL behind its name.
LEMMA ReadableHeader ==
  ASSUME NEW o \in Int, Readable(blob, o), blob.hdr[o].name_size \in Int
  PROVE  /\ o \in DOMAIN blob.hdr /\ blob.hdr[o].magic \in NEWC_MAGICS
         /\ blob.hdr[o].numeric /\ blob.hdr[o].utf8
         /\ ~NonZero(NameEnd(o, blob.hdr[o]) - 1)
<1>1. /\ o \in DOMAIN blob.hdr /\ blob.hdr[o].magic \in NEWC_MAGICS
      /\ blob.hdr[o].numeric /\ blob.hdr[o].utf8
  BY Zenon DEF Readable
<1>2. ~NonZero(NameEnd(o, blob.hdr[o]) - 1)
  <2> DEFINE nul == o + HEADER + blob.hdr[o].name_size - 1
  <2>1. \A r \in blob.nonzero : ~(r[1] <= nul /\ nul <= r[2])
    BY Zenon DEF Readable
  <2>2. NameEnd(o, blob.hdr[o]) - 1 = nul
    BY DEF NameEnd, HEADER
  <2> HIDE DEF nul
  <2>3. ~NonZero(nul)
    BY <2>1 DEF NonZero
  <2> QED BY <2>2, <2>3
<1> QED BY <1>1, <1>2

(***************************************************************************)
(* On a sound archive no check of an iteration fails but those that find   *)
(* the file too short.                                                     *)
(***************************************************************************)
LEMMA RejectArchive ==
  ASSUME ArchiveInv, Reject
  PROVE  ArchiveInv'
<1>1. /\ UNCHANGED <<blob, offset, entries, trailer_found>>
      /\ status = "parsing" /\ status' = "error" /\ ~trailer_found
      /\ ~ (EntryOK(offset)
            /\ (blob.hdr[offset].name = Trailer => TrailerOK(blob.hdr[offset])))
  BY DEF Reject, Looping
<1>2. ASSUME Known PROVE \E k \in 0..n : Reached(k)'
  BY <1>1, <1>2 DEF ArchiveInv, Reached, FirstEntries, n, start, header
<1>3. ASSUME blob.sound, blob.len >= blob.full PROVE FALSE
  <2>0. Known /\ blob \in Blobs
    BY <1>3 DEF Known, ArchiveInv
  <2>1. PICK k \in 0..n : Reached(k)
    BY <2>0 DEF ArchiveInv
  <2>2. n \in Nat /\ blob.len \in Nat /\ k + 1 \in 1..(n + 1)
    BY <2>0, <2>1, Layout
  <2> DEFINE h == header(k + 1)
             o == start(k + 1)
  <2>3. offset = o /\ blob.hdr[offset] = h
    BY <1>1, <2>1 DEF Reached, start, header
  <2>4. /\ o \in Nat /\ h \in Headers /\ Readable(blob, o)
        /\ h.name_size \in Nat /\ h.size \in Nat /\ h.name_size >= 1 /\ o % 4 = 0
    BY <2>0, <2>2, Layout, StartsAligned
  <2>5. h.name = Trailer => h.size = 0
    BY <2>0, <2>2, Layout
  <2>6. blob.full \in Int /\ NextOffset(o, h) <= blob.full
    BY <2>0, <2>2, FilesEndInFull
  <2>7. /\ o \in DOMAIN blob.hdr /\ h.magic \in NEWC_MAGICS /\ h.numeric /\ h.utf8
        /\ ~NonZero(NameEnd(o, h) - 1)
    BY <2>3, <2>4, ReadableHeader
  <2> HIDE DEF h, o
  <2>8. /\ DataStart(o, h) \in Int /\ DataEnd(o, h) \in Int /\ NextOffset(o, h) \in Int
        /\ o + HEADER < DataStart(o, h)
        /\ DataStart(o, h) <= DataEnd(o, h) /\ DataEnd(o, h) <= NextOffset(o, h)
    BY <2>4, SpanOfEntry
  <2>9. NameEnd(o, h) \in Int /\ NameEnd(o, h) <= DataStart(o, h) /\ o + HEADER <= NameEnd(o, h)
    BY <2>4, AlignedRoundsUp DEF NameEnd, DataStart, HEADER
  <2>10. DataEnd(o, h) <= blob.len /\ NameEnd(o, h) <= blob.len /\ o + HEADER <= blob.len
    BY <1>3, <2>2, <2>4, <2>6, <2>8, <2>9 DEF HEADER
  <2>11. EntryOK(offset)
    BY <2>3, <2>4, <2>7, <2>10 DEF EntryOK, HeaderOK, NameOK, DataOK
  <2> QED BY <1>1, <2>3, <2>5, <2>11 DEF TrailerOK
<1>4. blob.sound => blob.len < blob.full
  <2>1. ASSUME blob.sound PROVE blob.len \in Int /\ blob.full \in Int
    BY <2>1, Layout, FilesEndInFull DEF Known, ArchiveInv
  <2> QED BY <1>3, <2>1
<1> QED BY <1>1, <1>2, <1>4 DEF ArchiveInv, Known, n, NonZeroFrom

(***************************************************************************)
(* The end of the loop: a sound archive has nothing behind its trailer, and*)
(* the loop missed the trailer only because the file ends before it.       *)
(***************************************************************************)
LEMMA FinishArchive ==
  ASSUME ArchiveInv, Finish
  PROVE  ArchiveInv'
<1>1. /\ UNCHANGED <<blob, offset, entries, trailer_found>>
      /\ status = "parsing" /\ ~Looping
      /\ status' = IF trailer_found /\ ~NonZeroFrom(offset) THEN "done" ELSE "error"
  BY DEF Finish
<1>2. ASSUME Known PROVE \E k \in 0..n : Reached(k)'
  BY <1>1, <1>2 DEF ArchiveInv, Reached, FirstEntries, n, start, header
<1>3. ASSUME blob.sound, status' = "error" PROVE blob.len < blob.full
  <2>0. Known /\ blob \in Blobs
    BY <1>3 DEF Known, ArchiveInv
  <2>1. PICK k \in 0..n : Reached(k)
    BY <2>0 DEF ArchiveInv
  <2>2. n \in Nat /\ blob.len \in Nat /\ k + 1 \in 1..(n + 1) /\ blob.full \in Int
    BY <2>0, <2>1, Layout, FilesEndInFull
  <2>3. CASE trailer_found
    <3>1. offset = blob.full /\ NonZeroFrom(offset)
      BY <1>1, <1>3, <2>1, <2>3 DEF Reached
    <3>2. PICK r \in blob.nonzero : blob.full <= r[2]
      BY <3>1 DEF NonZeroFrom
    <3>3. r[2] \in Nat /\ r[2] < blob.full
      BY <1>3, <2>0, ArchivesAssumption
    <3> QED BY <2>2, <3>2, <3>3
  <2>4. CASE ~trailer_found
    <3>1. offset = start(k + 1) /\ ~(offset < blob.len)
      BY <1>1, <2>1, <2>4 DEF Reached, Looping
    <3>2. start(k + 1) \in Nat
      BY <2>0, <2>2, Layout
    <3>3. /\ NextOffset(start(k + 1), header(k + 1)) \in Int
          /\ NextOffset(start(k + 1), header(k + 1)) <= blob.full
          /\ start(k + 1) < NextOffset(start(k + 1), header(k + 1))
      BY <2>0, <2>2, FilesEndInFull
    <3> QED BY <2>2, <3>1, <3>2, <3>3
  <2> QED BY <2>3, <2>4
<1>4. status' = "done" => trailer_found /\ ~NonZeroFrom(offset)
  BY <1>1
<1>5. NonZeroFrom(offset)' = NonZeroFrom(offset)
  BY <1>1 DEF NonZeroFrom
<1>6. status' \in {"parsing", "done", "error"}
  BY <1>1
<1> QED BY <1>1, <1>2, <1>3, <1>4, <1>5, <1>6 DEF ArchiveInv, Known, n

LEMMA NextArchiveInv == ArchiveInv /\ [ParserNext]_parserVars => ArchiveInv'
<1> SUFFICES ASSUME ArchiveInv, [ParserNext]_parserVars PROVE ArchiveInv'
  OBVIOUS
<1>1. CASE AcceptEntry
  BY <1>1, AcceptEntryArchive
<1>2. CASE AcceptTrailer
  BY <1>2, AcceptTrailerArchive
<1>3. CASE Reject
  BY <1>3, RejectArchive
<1>4. CASE Finish
  BY <1>4, FinishArchive
<1>5. CASE Returned \/ UNCHANGED parserVars
  BY <1>5 DEF Returned, parserVars, ArchiveInv, Known, Reached, FirstEntries,
              n, start, header, NonZeroFrom
<1> QED BY <1>1, <1>2, <1>3, <1>4, <1>5 DEF ParserNext

\* What the parser returned is the archive's list of files.
LEMMA ReturnedIsStored == ArchiveInv => NothingLost
<1> SUFFICES ASSUME ArchiveInv, status = "done" PROVE
      /\ ~blob.junk
      /\ blob.sound =>
           /\ Len(entries) = n
           /\ \A i \in DOMAIN entries : /\ entries[i].path = blob.files[i].name
                                        /\ entries[i].size = blob.files[i].size
  BY DEF NothingLost, n
<1>1. blob \in Blobs /\ trailer_found /\ ~NonZeroFrom(offset)
  BY DEF ArchiveInv
<1>2. ASSUME Known
      PROVE  entries = FirstEntries(n) /\ offset = blob.full /\ n \in Nat
  BY <1>1, <1>2, Layout DEF ArchiveInv, Reached
<1>3. ~blob.junk
  <2> SUFFICES ASSUME blob.junk PROVE FALSE
    OBVIOUS
  <2>1. \E r \in blob.nonzero : blob.full <= r[2]
    BY <1>1, ArchivesAssumption
  <2> QED BY <1>1, <1>2, <2>1 DEF Known, NonZeroFrom
<1>4. ASSUME blob.sound
      PROVE  /\ Len(entries) = n
             /\ \A i \in DOMAIN entries : /\ entries[i].path = blob.files[i].name
                                          /\ entries[i].size = blob.files[i].size
  <2>1. Known /\ n \in Nat /\ entries = FirstEntries(n)
    BY <1>2, <1>4 DEF Known
  <2>2. DOMAIN entries = 1..n /\ Len(entries) = n
    BY <2>1 DEF FirstEntries
  <2>3. ASSUME NEW i \in 1..n
        PROVE  entries[i].path = blob.files[i].name /\ entries[i].size = blob.files[i].size
    <3>1. entries[i] = EntryOf(start(i), header(i))
      BY <2>1 DEF FirstEntries
    <3>2. header(i).name = blob.files[i].name /\ header(i).size = blob.files[i].size
      BY <1>1, <2>1, Layout
    <3> QED BY <3>1, <3>2 DEF EntryOf
  <2> QED BY <2>2, <2>3
<1> QED BY <1>3, <1>4

(***************************************************************************)
(* parse_newc() returns every file cpio stored, with its name and size and *)
(* in order, or nothing: however many files there are and wherever the     *)
(* file is cut, and never when other bytes follow the trailer.             *)
(***************************************************************************)
THEOREM EveryFileFound == ParserSpec => []NothingLost
BY InitArchiveInv, NextArchiveInv, ReturnedIsStored, PTL DEF ParserSpec

(***************************************************************************)
(* No check of parse_newc() refuses a whole archive of cpio, whatever the  *)
(* sizes of its files and whatever zero padding follows the trailer.       *)
(***************************************************************************)
THEOREM WholeArchivesAccepted == ParserSpec => []WholeAccepted
<1>1. ArchiveInv => WholeAccepted
  <2> SUFFICES ASSUME ArchiveInv, status = "error", blob.sound, blob.len >= blob.full
               PROVE  FALSE
    BY DEF WholeAccepted
  <2>1. blob.len \in Int /\ blob.full \in Int /\ blob.len < blob.full
    BY Layout, FilesEndInFull DEF ArchiveInv, Known
  <2> QED BY <2>1
<1> QED BY InitArchiveInv, NextArchiveInv, <1>1, PTL DEF ParserSpec
=============================================================================
