---------------------------- MODULE NewcParser ----------------------------
(***************************************************************************)
(* parse_newc() of tools/patch_recovery_adbd_props.py: the loop that walks *)
(* a "newc" CPIO archive.  The archive is kept at byte offsets: its        *)
(* length, the intervals of offsets that hold its non-zero bytes, and what *)
(* the 110 bytes at an offset say when they are read as a header (at an    *)
(* offset outside DOMAIN hdr they do not begin with a magic).              *)
(*                                                                         *)
(* Python's int(text, 16) accepts a sign, so a size or a name size is an   *)
(* integer here and not a natural number.                                  *)
(***************************************************************************)
EXTENDS Integers, Sequences

CONSTANTS
  Blobs,        \* the decompressed fragments the loop may be given
  NEWC_MAGICS,  \* {"070701", "070702"}
  Names         \* names a header may carry

HEADER == 110

Headers == [magic : STRING, numeric : BOOLEAN, utf8 : BOOLEAN, reg : BOOLEAN,
            name : Names, name_size : Int, size : Int]

ASSUME BlobAssumption ==
  \A b \in Blobs : /\ b.len \in Nat
                   /\ \A o \in DOMAIN b.hdr : b.hdr[o] \in Headers

VARIABLES
  blob,           \* the archive
  offset,         \* where the loop is
  entries,        \* the entries it has appended
  trailer_found,
  status          \* "parsing", "done" (entries are returned) or "error"

parserVars == <<blob, offset, entries, trailer_found, status>>

-----------------------------------------------------------------------------
aligned(value) == ((value + 4 - 1) \div 4) * 4

NameEnd(o, h)    == o + HEADER + h.name_size
DataStart(o, h)  == aligned(NameEnd(o, h))
DataEnd(o, h)    == DataStart(o, h) + h.size
NextOffset(o, h) == aligned(DataEnd(o, h))

NonZero(i)     == \E r \in blob.nonzero : r[1] <= i /\ i <= r[2]
NonZeroFrom(i) == \E r \in blob.nonzero : i <= r[2]

\* The checks of one iteration, in the order of the code.
HeaderOK(o) ==
  /\ o + HEADER <= blob.len
  /\ o \in DOMAIN blob.hdr
  /\ blob.hdr[o].magic \in NEWC_MAGICS
  /\ blob.hdr[o].numeric

NameOK(o, h) ==
  /\ h.name_size >= 1
  /\ NameEnd(o, h) <= blob.len
  /\ ~NonZero(NameEnd(o, h) - 1)
  /\ h.utf8

DataOKUnchecked(o, h) == TRUE

DataOKStrict(o, h) == DataEnd(o, h) < blob.len

DataOK(o, h) == DataEnd(o, h) <= blob.len

\* The iteration reaches the construction of `entry`.
EntryOK(o) ==
  /\ HeaderOK(o)
  /\ NameOK(o, blob.hdr[o])
  /\ DataOK(o, blob.hdr[o])

TrailerOK(h) == h.size = 0

EntryOf(o, h) ==
  [path |-> h.name, reg |-> h.reg, size |-> h.size, header_start |-> o,
   data_start |-> DataStart(o, h), data_end |-> DataEnd(o, h)]

Trailer == "TRAILER!!!"

-----------------------------------------------------------------------------
ParserInitFrom(b) ==
  /\ blob = b
  /\ offset = 0
  /\ entries = << >>
  /\ trailer_found = FALSE
  /\ status = "parsing"

ParserInit == \E b \in Blobs : ParserInitFrom(b)

Looping == status = "parsing" /\ offset < blob.len /\ ~trailer_found

\* entries.append(entry)
AcceptEntry ==
  /\ Looping
  /\ EntryOK(offset)
  /\ blob.hdr[offset].name # Trailer
  /\ entries' = Append(entries, EntryOf(offset, blob.hdr[offset]))
  /\ offset' = NextOffset(offset, blob.hdr[offset])
  /\ UNCHANGED <<blob, trailer_found, status>>

\* The trailer ends the loop.
AcceptTrailerInPlace ==
  /\ Looping
  /\ EntryOK(offset)
  /\ blob.hdr[offset].name = Trailer
  /\ TrailerOK(blob.hdr[offset])
  /\ trailer_found' = TRUE
  /\ UNCHANGED <<blob, offset, entries, status>>

AcceptTrailer ==
  /\ Looping
  /\ EntryOK(offset)
  /\ blob.hdr[offset].name = Trailer
  /\ TrailerOK(blob.hdr[offset])
  /\ trailer_found' = TRUE
  /\ offset' = NextOffset(offset, blob.hdr[offset])
  /\ UNCHANGED <<blob, entries, status>>

\* Any check of the iteration raises.
RejectAndContinue ==
  /\ Looping
  /\ ~ (EntryOK(offset)
        /\ (blob.hdr[offset].name = Trailer => TrailerOK(blob.hdr[offset])))
  /\ UNCHANGED parserVars

Reject ==
  /\ Looping
  /\ ~ (EntryOK(offset)
        /\ (blob.hdr[offset].name = Trailer => TrailerOK(blob.hdr[offset])))
  /\ status' = "error"
  /\ UNCHANGED <<blob, offset, entries, trailer_found>>

\* After the loop: no trailer, or non-zero bytes behind it, raises.
FinishWithoutTrailer ==
  /\ status = "parsing" /\ ~Looping
  /\ status' = IF ~NonZeroFrom(offset) THEN "done" ELSE "error"
  /\ UNCHANGED <<blob, offset, entries, trailer_found>>

Finish ==
  /\ status = "parsing" /\ ~Looping
  /\ status' = IF trailer_found /\ ~NonZeroFrom(offset)
               THEN "done" ELSE "error"
  /\ UNCHANGED <<blob, offset, entries, trailer_found>>

Returned == status # "parsing" /\ UNCHANGED parserVars

ParserNext == AcceptEntry \/ AcceptTrailer \/ Reject \/ Finish \/ Returned

\* One thread: the loop runs on as long as it can.
ParserSpec == ParserInit /\ [][ParserNext]_parserVars /\ WF_parserVars(ParserNext)

-----------------------------------------------------------------------------
Entries == [path : Names, reg : BOOLEAN, size : Int, header_start : Int,
            data_start : Int, data_end : Int]

ParserTypeOK ==
  /\ blob.len \in Nat
  /\ offset \in Int
  /\ entries \in Seq(Entries)
  /\ trailer_found \in BOOLEAN
  /\ status \in {"parsing", "done", "error"}

(***************************************************************************)
(* The spans of the entries lie inside the archive, in archive order, and  *)
(* never overlap a header, a name or another entry's data.  This is what   *)
(* makes it safe for patch_properties() to write into the copy at          *)
(* [data_start, data_end) of prop.default and nowhere else.                *)
(***************************************************************************)
EntriesDisjoint ==
  /\ \A i \in 1..Len(entries) :
        /\ 0 <= entries[i].header_start
        /\ entries[i].header_start + HEADER < entries[i].data_start
        /\ entries[i].data_start <= entries[i].data_end
        /\ entries[i].data_end <= blob.len
  /\ \A i, j \in 1..Len(entries) :
        i < j => entries[i].data_end <= entries[j].header_start

(***************************************************************************)
(* Between two iterations of the loop: the offset is where a header may    *)
(* start, and every span appended so far lies before it.  Inductive for    *)
(* archives whose numeric fields are not negative.                         *)
(***************************************************************************)
ParserInv ==
  /\ ParserTypeOK
  /\ offset >= 0 /\ offset % 4 = 0
  /\ \A i \in 1..Len(entries) : entries[i].data_end <= offset
  /\ EntriesDisjoint

(***************************************************************************)
(* Every iteration of the loop that goes on consumes at least a header, a  *)
(* one-byte name and its padding, so the loop ends on every archive.       *)
(***************************************************************************)
Progress == [][status' = "parsing" => offset' >= offset + HEADER + 2]_parserVars

\* The loop of parse_newc() ends on every archive, whatever its headers say.
Terminates == <>(status # "parsing")
=============================================================================
