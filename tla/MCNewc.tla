------------------------------- MODULE MCNewc -------------------------------
(***************************************************************************)
(* Archives for NewcParser: what cpio -H newc writes, whole, cut off at    *)
(* every byte, followed by zeros or by other bytes, and with one header    *)
(* field damaged.                                                          *)
(***************************************************************************)
EXTENDS NewcArchives, TLC

CONSTANTS Sizes

\* A file as cpio stores it: every byte of its data is non-zero.
MCNames == {"prop.default", "init", Trailer}
NameLen(n) == CASE n = "init" -> 4 [] n = Trailer -> 10 [] OTHER -> 12

HeaderFor(n, size) ==
  [magic |-> "070701", numeric |-> TRUE, utf8 |-> TRUE, reg |-> TRUE,
   name |-> n, name_size |-> NameLen(n) + 1, size |-> size]

Files == [name : {"prop.default", "init"}, size : Sizes]

EmptyBlob == [len |-> 0, hdr |-> << >>, nonzero |-> {},
              files |-> << >>, starts |-> << >>, full |-> 0, sound |-> TRUE, junk |-> FALSE]

\* cpio's writer (external): header, name and its NUL, padding, data, padding.
Written(b, n, size) ==
  LET o   == b.len
      nul == o + HEADER + NameLen(n)
      ds  == Padded(nul + 1)
      end == Padded(ds + size)
  IN  [b EXCEPT !.len = end, !.full = end, !.starts = Append(@, o),
                !.hdr = @ @@ (o :> HeaderFor(n, size)),
                !.nonzero = @ \cup {<<o, nul - 1>>}
                             \cup IF size = 0 THEN {} ELSE {<<ds, ds + size - 1>>}]

With(b, f) == [Written(b, f.name, f.size) EXCEPT !.files = Append(@, f)]

\* The archives of up to two files.
One == {With(EmptyBlob, f) : f \in Files}
Two == {With(b, f) : b \in One, f \in Files}
Archives == {Written(b, Trailer, 0) : b \in {EmptyBlob} \cup One \cup Two}

\* The file cut off after n bytes (an interrupted copy).
CutAt(b, n) ==
  [b EXCEPT !.len = n, !.nonzero = {<<r[1], IF r[2] < n THEN r[2] ELSE n - 1>> :
                                        r \in {x \in @ : x[1] < n}}]

\* Zero padding (cpio pads to 512) or other bytes behind the archive.
Extended(b, n, zero) ==
  [b EXCEPT !.len = @ + n, !.nonzero = IF zero THEN @ ELSE @ \cup {<<b.len + n - 1, b.len + n - 1>>},
            !.sound = zero, !.junk = ~zero]

\* One field of one header damaged.
Damage(h) ==
  {[h EXCEPT !.magic = "070707"], [h EXCEPT !.numeric = FALSE], [h EXCEPT !.utf8 = FALSE],
   [h EXCEPT !.name_size = 0], [h EXCEPT !.name_size = @ + 1],
   [h EXCEPT !.size = @ + 1], [h EXCEPT !.size = @ + 200], [h EXCEPT !.name = Trailer]}
Damaged(b) ==
  UNION {{[b EXCEPT !.hdr[o] = h, !.sound = FALSE] : h \in Damage(b.hdr[o])} : o \in DOMAIN b.hdr}

MCBlobs ==
  Archives
  \cup UNION {{CutAt(b, n) : n \in 0..b.len} : b \in Archives}
  \cup {Extended(b, n, z) : b \in Archives, n \in {1, 4, 112, 300}, z \in BOOLEAN}
  \cup UNION {Damaged(b) : b \in Archives}

\* A size field whose eight characters are "-0000074".
SignedBlobs ==
  {[Written(With(EmptyBlob, f), Trailer, 0) EXCEPT !.hdr[0].size = -116, !.sound = FALSE] :
     f \in {[name |-> "init", size |-> 0]}}

=============================================================================
