----------------------------- MODULE PropPatch -----------------------------
(***************************************************************************)
(* patch_properties() of tools/patch_recovery_adbd_props.py.  A CPIO is a  *)
(* record: `whole` says that parse_newc() accepts it (module NewcParser),  *)
(* `files` are its entries in order.  The data of an entry is a sequence   *)
(* of lines; a line's terminator is left out, because an old and a new     *)
(* property line have the same length and the tool never touches it.       *)
(***************************************************************************)
EXTENDS Integers, Sequences

FileType == [path : STRING, reg : BOOLEAN, lines : Seq(STRING)]
CpioType == [whole : BOOLEAN, files : Seq(FileType)]

OldLines == {"ro.secure=1", "ro.debuggable=0"}

\* PROPERTY_PATCHES
NewLine(old) == IF old = "ro.secure=1" THEN "ro.secure=0" ELSE "ro.debuggable=1"
NewLines == {NewLine(old) : old \in OldLines}

\* count_exact_lines
Hits(lines, wanted) == {i \in DOMAIN lines : lines[i] = wanted}

ExactlyOne(S) == \E i \in S : \A j \in S : j = i

Targets(c) == {k \in DOMAIN c.files : c.files[k].path = "prop.default"}

\* Every file but the two lines of prop.default is copied as it is.
PatchedLines(lines) ==
  [i \in DOMAIN lines |-> IF lines[i] \in OldLines THEN NewLine(lines[i]) ELSE lines[i]]

Patched(c) ==
  [c EXCEPT !.files = [k \in DOMAIN c.files |->
      IF k \in Targets(c)
      THEN [c.files[k] EXCEPT !.lines = PatchedLines(c.files[k].lines)]
      ELSE c.files[k]]]

(***************************************************************************)
(* The checks that raise.  The code looks for each old line before it      *)
(* patches, and for each old and each new line afterwards.  (Two bytes     *)
(* have changed as soon as both old lines were found once.)                *)
(***************************************************************************)
LinesOKUncounted(lines) == \A old \in OldLines : Hits(lines, old) # {}

LinesOKAtMostOne(lines) ==
  \A old \in OldLines : \A i, j \in Hits(lines, old) : i = j

LinesOK(lines) ==
  /\ \A old \in OldLines : ExactlyOne(Hits(lines, old))
  /\ \A old \in OldLines : /\ Hits(PatchedLines(lines), old) = {}
                           /\ ExactlyOne(Hits(PatchedLines(lines), NewLine(old)))

PatchOK(c) ==
  /\ c.whole
  /\ ExactlyOne(Targets(c))
  /\ \A k \in Targets(c) : c.files[k].reg /\ LinesOK(c.files[k].lines)
=============================================================================
