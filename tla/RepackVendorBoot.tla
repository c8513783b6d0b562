------------------------- MODULE RepackVendorBoot -------------------------
(***************************************************************************)
(* tools/repack_vendor_boot.py: build a vendor_boot image from a template  *)
(* image and a CI image.  Several runs of the tool share fixed paths under *)
(* /tmp and the output path.  A run can die between any two steps, by a    *)
(* signal, a subprocess timeout or an uncaught exception, and then leaves  *)
(* /tmp as it is: only the last step of main() removes the scratch files.  *)
(*                                                                         *)
(* A file tree is a function from the paths it holds to their contents.    *)
(***************************************************************************)
EXTENDS VendorBoot, FileTrees

CONSTANTS
  Runs,        \* invocations of the tool
  Bin, Lib,    \* paths under system/bin and under system/lib64
  Core,        \* the five binaries of system/bin the tool deletes
  Args,        \* command lines of the runs: the images --template and --ci name
  FragSizes,   \* sizes (in cells) that lz4 may compress a tree to
  Serial,      \* TRUE: a run is only started when no other one is active
  ToolsFail,   \* TRUE: lz4 and cpio may fail; their exit codes are ignored
  Absent       \* a path that does not exist

ASSUME RepackAssumption ==
  /\ \A a \in Args : DOMAIN a = Runs
  /\ \A a \in Args : \A r \in Runs : IsVendorBoot(a[r].template) /\ IsVendorBoot(a[r].ci)
  /\ \A a \in Args : \A r \in Runs :
       2 \in DOMAIN rd(a[r].ci).frags => Decoded(rd(a[r].ci).frags[2].payload) # Absent
  /\ FragSizes \subseteq Nat \ {0}
  /\ Core \subseteq Bin
  /\ Bin \cap Lib = {}
  /\ Serial \in BOOLEAN /\ ToolsFail \in BOOLEAN

VARIABLES
  args,   \* args[r]: the template and CI image run r was given
  pc,     \* pc[r]: the step run r takes next
  tmp,    \* /tmp/ci_dir, /tmp/tp_dir, /tmp/f1_dir and /tmp/f1_new.lz4
  f1,     \* f1[r]: the bytes pk() returned to run r
  out     \* the file at --output: who wrote it last, and its cells

vars == <<args, pc, tmp, f1, out>>

Final == {"done", "failed", "killed"}
Active(r) == pc[r] \notin Final \cup {"idle"}

Tpl(r) == rd(args[r].template)
Ci(r)  == rd(args[r].ci)

(***************************************************************************)
(* The F1 tree: the template's, with system/bin and system/lib64 replaced  *)
(* by CI's, the core binaries deleted, CI binaries the template does not   *)
(* have deleted, and template binaries that are now missing copied back.   *)
(***************************************************************************)
MergeTree(tp, ci) ==
  LET tp_bins  == DOMAIN tp \cap Bin
      replaced == Over(Only(ci, Bin \cup Lib), Without(tp, Bin \cup Lib))
      trimmed  == Without(replaced, Core)
      pruned   == Without(trimmed, Bin \ tp_bins)
  IN  Over(pruned, Only(tp, tp_bins))

(***************************************************************************)
(* uz: empty the directory, then unpack: what it may hold afterwards.  A   *)
(* failed lz4 leaves it empty, a failed cpio with some of the files.       *)
(***************************************************************************)
uzNoRmtree(old, data) ==
  LET left == IF old = Absent THEN EmptyTree ELSE old
  IN  IF Decodes(data) THEN {Over(Decoded(data), left)} ELSE {left}

uz(old, data) ==
  IF ~Decodes(data) THEN {EmptyTree}
  ELSE IF ToolsFail THEN {Restrict(Decoded(data), S) : S \in SUBSET DOMAIN Decoded(data)}
  ELSE {Decoded(data)}

(***************************************************************************)
(* What /tmp/f1_new.lz4 holds after pk().  Nothing looks at the exit codes *)
(* of find, cpio and lz4, so a failure leaves the file of an earlier run,  *)
(* a cut-off file or a fragment without files.                             *)
(***************************************************************************)
Packed(old, tree) ==
  {Fragment(tree, n) : n \in FragSizes}
  \cup IF ToolsFail
       THEN {old, << >>} \cup {Fragment(EmptyTree, n) : n \in FragSizes}
       ELSE {}

-----------------------------------------------------------------------------
Init ==
  /\ args \in Args
  /\ pc = [r \in Runs |-> "idle"]
  /\ tmp = [ci_dir |-> Absent, tp_dir |-> Absent, f1_dir |-> Absent, f1_new |-> Absent]
  /\ f1 = [r \in Runs |-> << >>]
  /\ out = [by |-> Absent, img |-> << >>]

\* Read both images; frags[0] or frags[1] missing is an IndexError.
ReadImages(r) ==
  /\ pc[r] = "idle"
  /\ Serial => \A q \in Runs : ~Active(q)
  /\ pc' = [pc EXCEPT ![r] = IF 2 \in DOMAIN Tpl(r).frags /\ 2 \in DOMAIN Ci(r).frags
                             THEN "unpack_ci" ELSE "failed"]
  /\ UNCHANGED <<args, tmp, f1, out>>

UnpackCi(r) ==
  /\ pc[r] = "unpack_ci"
  /\ \E tree \in uz(tmp.ci_dir, Ci(r).frags[2].payload) :
        tmp' = [tmp EXCEPT !.ci_dir = tree]
  /\ pc' = [pc EXCEPT ![r] = "unpack_tpl"]
  /\ UNCHANGED <<args, f1, out>>

UnpackTemplate(r) ==
  /\ pc[r] = "unpack_tpl"
  /\ \E tree \in uz(tmp.tp_dir, Tpl(r).frags[2].payload) :
        tmp' = [tmp EXCEPT !.tp_dir = tree]
  /\ pc' = [pc EXCEPT ![r] = "merge"]
  /\ UNCHANGED <<args, f1, out>>

\* Another run may have removed the scratch directories: copytree raises
\* without /tmp/tp_dir, and a missing /tmp/ci_dir is passed over in silence.
BuildF1Tree(r) ==
  /\ pc[r] = "merge"
  /\ IF tmp.tp_dir = Absent
     THEN /\ tmp' = [tmp EXCEPT !.f1_dir = Absent]
          /\ pc' = [pc EXCEPT ![r] = "failed"]
     ELSE /\ tmp' = [tmp EXCEPT !.f1_dir =
                        MergeTree(tmp.tp_dir,
                                  IF tmp.ci_dir = Absent THEN EmptyTree ELSE tmp.ci_dir)]
          /\ pc' = [pc EXCEPT ![r] = "pack"]
  /\ UNCHANGED <<args, f1, out>>

\* pk: compress, then read the file back; a missing directory or file raises.
PackF1(r) ==
  /\ pc[r] = "pack"
  /\ IF tmp.f1_dir = Absent
     THEN pc' = [pc EXCEPT ![r] = "failed"] /\ UNCHANGED <<tmp, f1>>
     ELSE \E new \in Packed(tmp.f1_new, tmp.f1_dir) :
            /\ tmp' = [tmp EXCEPT !.f1_new = new]
            /\ f1' = [f1 EXCEPT ![r] = IF new = Absent THEN @ ELSE new]
            /\ pc' = [pc EXCEPT ![r] = IF new = Absent THEN "failed" ELSE "image"]
  /\ UNCHANGED <<args, out>>

\* Without a DTB magic nothing is written; otherwise open(output, "wb")
\* empties the file, and a run that dies now leaves it so.
OpenOutput(r) ==
  /\ pc[r] = "image"
  /\ IF DtbFound(Tpl(r))
     THEN /\ out' = [by |-> r, img |-> << >>]
          /\ pc' = [pc EXCEPT ![r] = "write"]
     ELSE /\ pc' = [pc EXCEPT ![r] = "failed"]
          /\ UNCHANGED out
  /\ UNCHANGED <<args, tmp, f1>>

WriteImage(r) ==
  /\ pc[r] = "write"
  /\ out' = [by |-> r, img |-> AssembleImage(Tpl(r), f1[r])]
  /\ pc' = [pc EXCEPT ![r] = "assert"]
  /\ UNCHANGED <<args, tmp, f1>>

\* The size is asserted after the file has been written.
AssertSizeDropped(r) ==
  /\ pc[r] = "assert"
  /\ pc' = [pc EXCEPT ![r] = "cleanup"]
  /\ UNCHANGED <<args, tmp, f1, out>>

AssertSize(r) ==
  /\ pc[r] = "assert"
  /\ pc' = [pc EXCEPT ![r] = IF Len(out.img) = PART_SZ THEN "cleanup" ELSE "failed"]
  /\ UNCHANGED <<args, tmp, f1, out>>

Cleanup(r) ==
  /\ pc[r] = "cleanup"
  /\ tmp' = [ci_dir |-> Absent, tp_dir |-> Absent, f1_dir |-> Absent, f1_new |-> Absent]
  /\ pc' = [pc EXCEPT ![r] = "done"]
  /\ UNCHANGED <<args, f1, out>>

Die(r) ==
  /\ Active(r)
  /\ pc' = [pc EXCEPT ![r] = "killed"]
  /\ UNCHANGED <<args, tmp, f1, out>>

AllEnded == (\A r \in Runs : pc[r] \in Final) /\ UNCHANGED vars

Next ==
  \/ \E r \in Runs : ReadImages(r) \/ UnpackCi(r) \/ UnpackTemplate(r)
                     \/ BuildF1Tree(r) \/ PackF1(r) \/ OpenOutput(r)
                     \/ WriteImage(r) \/ AssertSize(r) \/ Cleanup(r) \/ Die(r)
  \/ AllEnded

Spec == Init /\ [][Next]_vars

-----------------------------------------------------------------------------
\* The run whose image is at the output path has passed its size assertion.
Delivered(r) == pc[r] \in {"cleanup", "done"} /\ out.by = r

Fragments(img) == rd(img).frags
TplTree(r) == Decoded(Tpl(r).frags[2].payload)
CiTree(r)  == Decoded(Ci(r).frags[2].payload)

(***************************************************************************)
(* An image that is delivered parses back, with the tool's own rd(), to    *)
(* the template's F0 and the fragment this run compressed, typed 1 and 2,  *)
(* and holds, where its header says the DTB is, the t.ds cells of the      *)
(* template that start DTB_HDR before the first FDT magic: growing F1      *)
(* moved every later section without overlap, and nothing ran past the end *)
(* of the partition.  A template cut within the piece that is copied as    *)
(* its DTB is left out: the slice assignment then shrinks the image.       *)
(***************************************************************************)
ImageRoundTrips ==
  \A r \in Runs : Delivered(r) /\ DtbInFile(Tpl(r)) =>
    LET o == rd(out.img)
        t == Tpl(r)
    IN  /\ Len(out.img) = PART_SZ
        /\ DOMAIN o.frags = {1, 2}
        /\ o.frags[1].payload = t.frags[1].payload
        /\ o.frags[2].payload = f1[r]
        /\ o.frags[1].typ = 1 /\ o.frags[2].typ = 2
        /\ Slice(out.img, o.dtbo, o.dtbo + o.ds)
             = Slice(t.raw, DtbStart(t), DtbStart(t) + t.ds)

(***************************************************************************)
(* "The F0/page0/DTB of the reference image are not touched at all"        *)
(* (docstring, line 4): a delivered image holds the template's DTB.        *)
(***************************************************************************)
DtbUntouched ==
  \A r \in Runs : Delivered(r) =>
    LET o == rd(out.img)
        t == Tpl(r)
    IN  Slice(out.img, o.dtbo, o.dtbo + o.ds) = Slice(t.raw, t.dtbo, t.dtbo + t.ds)

(***************************************************************************)
(* A template cut short (an interrupted partition dump or download) never  *)
(* ends in a delivered image with an empty F0 or F1: the fragment table    *)
(* lies behind the ramdisks, so rd() finds fewer than two entries before   *)
(* it can hand out the empty payload of its out-of-file branch.            *)
(***************************************************************************)
NoEmptyFragmentDelivered ==
  \A r \in Runs : Delivered(r) =>
    \A i \in {1, 2} : Tpl(r).frags[i].sz = Len(Tpl(r).frags[i].payload)

(***************************************************************************)
(* What F1 holds, path by path, whatever earlier runs left in /tmp: a      *)
(* binary is there iff the template has it, from CI unless CI lacks it or  *)
(* it is a core binary; the libraries are CI's; the rest is the template's.*)
(* The core binaries are the ones the template has: lines 103-106 delete   *)
(* CI's, and lines 120-135 then copy the template's back, CI or not (see   *)
(* CoreComponentsDeleted for what the comments say).  Templates cut within *)
(* the piece copied as the DTB are left out as above.                      *)
(***************************************************************************)
ExpectedF1(tp, ci) ==
  [p \in (DOMAIN tp \ Lib) \cup (DOMAIN ci \cap Lib) |->
     IF p \in Lib \/ (p \in Bin \ Core /\ p \in DOMAIN ci) THEN ci[p] ELSE tp[p]]

CompletedF1IsMerge ==
  \A r \in Runs : Delivered(r) /\ DtbInFile(Tpl(r)) =>
    LET got == Fragments(out.img)[2].payload
    IN  Decodes(got) /\ Decoded(got) = ExpectedF1(TplTree(r), CiTree(r))

(***************************************************************************)
(* "Delete the core components" (comment above lines 103-106, and the list *)
(* of what the script removes in the repository's README): a delivered F1  *)
(* has no core binary.                                                     *)
(***************************************************************************)
CoreComponentsDeleted ==
  \A r \in Runs : Delivered(r) =>
    LET got == Fragments(out.img)[2].payload
    IN  Decodes(got) /\ DOMAIN Decoded(got) \cap Core = {}

(***************************************************************************)
(* "Replace system/bin + system/lib64 of the reference image's F1 by the   *)
(* CI build products" (docstring of the tool): in a delivered image every  *)
(* library of F1 and every non-core binary both images have is CI's.       *)
(***************************************************************************)
F1CarriesCi ==
  \A r \in Runs : Delivered(r) =>
    LET got == Fragments(out.img)[2].payload
    IN  /\ Decodes(got)
        /\ \A p \in DOMAIN CiTree(r) \cap (Lib \cup ((Bin \ Core) \cap DOMAIN TplTree(r))) :
              p \in DOMAIN Decoded(got) /\ Decoded(got)[p] = CiTree(r)[p]

(***************************************************************************)
(* "Recovery is a distinct type-2/name=recovery vendor ramdisk table       *)
(* entry" (BoardConfig.mk): so is the second entry of a delivered image.   *)
(***************************************************************************)
RecoveryEntryNamed ==
  \A r \in Runs : Delivered(r) =>
    Fragments(out.img)[2].typ = 2 /\ Fragments(out.img)[2].name = "recovery"
=============================================================================
