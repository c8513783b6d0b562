----------------------------- MODULE Publication -----------------------------
(***************************************************************************)
(* What tools/patch_recovery_adbd_props.py promises of the files it makes, *)
(* whoever runs it, how often and with which paths: a file appears where   *)
(* there was none, is finished once, and stays.  A report is finished when *)
(* the two fragments it names are, the second being the first patched; no  *)
(* other report is about that output, or has worked on it.                 *)
(***************************************************************************)
EXTENDS PropPatch

CONSTANTS
  Paths,    \* the places for files
  Cpios     \* archives that fragments may hold

VARIABLE shelf    \* shelf[f]: nothing, a draft, or a finished file

Nothing == [kind |-> "absent"]
Draft == [kind |-> "draft"]
Fragment(c) == [kind |-> "lz4", cpio |-> c]
Report(r) == [kind |-> "report", of |-> r]

ReportOn(i, o) == [input |-> i, output |-> o,
                   input_cpio |-> shelf[i].cpio, output_cpio |-> shelf[o].cpio]

Init == shelf \in [Paths -> {Nothing} \cup {Fragment(c) : c \in Cpios}]

Begin(f) == shelf[f] = Nothing /\ shelf' = [shelf EXCEPT ![f] = Draft]

\* The draft becomes a fragment, of whatever archive.
FinishFragment(f) ==
  /\ shelf[f] = Draft
  /\ shelf'[f].kind = "lz4" /\ shelf'[f].cpio \in Cpios
  /\ shelf' = [shelf EXCEPT ![f] = Fragment(shelf'[f].cpio)]

\* Both fragments are finished, and the second is the first one patched.
Holds(i, o) ==
  /\ shelf[i].kind = "lz4" /\ shelf[o].kind = "lz4"
  /\ PatchOK(shelf[i].cpio) /\ shelf[o].cpio = Patched(shelf[i].cpio)

\* No report is about its output, nor about a patch of it or of its input.
Unrelated(i, o) ==
  \A f \in Paths : shelf[f].kind = "report" =>
    /\ shelf[f].of.output \notin {o, i}
    /\ shelf[f].of.input # o

FinishReport(f) ==
  /\ shelf[f] = Draft
  /\ \E i, o \in Paths :
       Holds(i, o) /\ Unrelated(i, o) /\ shelf' = [shelf EXCEPT ![f] = Report(ReportOn(i, o))]

Next ==
  \E f \in Paths : Begin(f) \/ FinishFragment(f) \/ FinishReport(f)

Spec == Init /\ [][Next]_shelf
=============================================================================
