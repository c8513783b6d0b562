---------------------------- MODULE NewcArchives ----------------------------
(***************************************************************************)
(* The archives that cpio -H newc writes, and what parse_newc() promises   *)
(* of them.  Beside the bytes, an archive b remembers                      *)
(*    b.files    the names and sizes of the files that were stored,        *)
(*    b.starts   where their headers and the trailer's were written,       *)
(*    b.full     its length as it was written,                             *)
(*    b.sound    only a cut or zero padding changed the file since,        *)
(*    b.junk     other bytes follow the archive.                           *)
(***************************************************************************)
EXTENDS NewcParser

\* cpio pads names and data with zeros to a multiple of four bytes.
Padded(n) == n + ((4 - (n % 4)) % 4)

\* Where the file with this header at offset o ends.
FileEnd(o, h) == Padded(Padded(o + HEADER + h.name_size) + h.size)

\* A header cpio wrote at offset o: its name ends in a NUL.
Readable(b, o) ==
  LET h == b.hdr[o]
  IN  /\ o \in DOMAIN b.hdr
      /\ h.magic \in NEWC_MAGICS /\ h.numeric /\ h.utf8
      /\ h.name_size >= 1 /\ h.size >= 0
      /\ LET nul == o + HEADER + h.name_size - 1
         IN  \A r \in b.nonzero : ~(r[1] <= nul /\ nul <= r[2])

Stored(b) ==
  LET n == Len(b.files)
      start(k) == b.starts[k]
      header(k) == b.hdr[b.starts[k]]
  IN  /\ n \in Nat /\ b.starts \in [1..(n + 1) -> Nat] /\ start(1) = 0
      /\ \A k \in 1..(n + 1) : Readable(b, start(k))
      /\ \A k \in 1..n : /\ header(k).name = b.files[k].name /\ header(k).name # Trailer
                         /\ header(k).size = b.files[k].size
                         /\ start(k + 1) = FileEnd(start(k), header(k))
      /\ header(n + 1).name = Trailer /\ header(n + 1).size = 0
      /\ b.full = FileEnd(start(n + 1), header(n + 1))

ASSUME ArchivesAssumption ==
  \A b \in Blobs :
    /\ b.sound \in BOOLEAN /\ b.junk \in BOOLEAN
    /\ b.nonzero \subseteq Nat \X Nat
    /\ b.sound => Stored(b) /\ \A r \in b.nonzero : r[2] < b.full
    /\ b.junk => Stored(b) /\ \E r \in b.nonzero : b.full <= r[2]

(***************************************************************************)
(* parse_newc() returns exactly the files cpio stored, in order: no cut,   *)
(* however it falls on headers, padding or data, makes it return a shorter *)
(* list, and an archive with bytes behind its trailer is never accepted.   *)
(***************************************************************************)
NothingLost ==
  status = "done" =>
    /\ ~blob.junk
    /\ blob.sound =>
         /\ Len(entries) = Len(blob.files)
         /\ \A i \in DOMAIN entries : /\ entries[i].path = blob.files[i].name
                                      /\ entries[i].size = blob.files[i].size

(***************************************************************************)
(* A whole archive, with or without zero padding behind it, is accepted:   *)
(* no check of parse_newc() refuses what cpio wrote.                       *)
(***************************************************************************)
WholeAccepted ==
  status = "error" =>
    ~ (blob.sound /\ blob.len >= blob.full)
=============================================================================
