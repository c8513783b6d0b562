-------------------------- MODULE PrepareFragments --------------------------
(***************************************************************************)
(* tools/prepare_fragments.py and tools/verify_fragments.py.  The first    *)
(* writes <prefix>.f0.lz4, <prefix>.f1.lz4 and <prefix>.manifest.json, the *)
(* second looks at the two fragments.  Runs of the first use one prefix,   *)
(* one after the other; a run may be killed between any two steps.  (The   *)
(* scratch directory is a fresh mkdtemp() in both tools and not shared.)   *)
(*                                                                         *)
(* A file tree is a function from paths <<directory, name>> to contents,   *)
(* which are records: `whole` is FALSE in what has lost its end.           *)
(***************************************************************************)
EXTENDS FileTrees

CONSTANTS
  Runs,             \* invocations of prepare_fragments.py
  TWRP16_LIBS,      \* libraries copied from CI's F1 to twrp16/ of F0
  DT_OVERLAY_RCS,   \* init scripts of the device tree that go into F1
  STAGING_OVERLAY_FILES,
  Stocks, Cis, Validateds,  \* images the arguments may name
  Stagings,         \* trees that --staging may name (empty: not given)
  DeviceTree,       \* the tree at --dtroot
  F1Required,       \* paths verify_f1() wants in F1
  ToolsFail,        \* TRUE: find, cpio and lz4 may fail; nothing looks at it
  Missing, Cut,     \* an image that does not exist, or that parse() cannot read
  Broken            \* the content of a fragment file that lz4 cannot decode

Recovery == <<"system/bin", "recovery">>
Res      == <<"/", "res">>
InitRc   == <<"system/etc/init/hw", "init.rc">>

\* A stock image has no twrp16/ of its own, and verify_f1() asks for a recovery.
ASSUME PrepareAssumption ==
  /\ "nobody" \notin Runs
  /\ \A img \in Stocks \ {Missing, Cut}, lib \in TWRP16_LIBS : <<"twrp16", lib>> \notin DOMAIN img
  /\ Recovery \in F1Required

VARIABLES
  args,    \* args[r]: the command line of run r
  pc,      \* pc[r]: the step run r takes next
  mem,     \* mem[r]: f0_lz4 and f1_lz4 of run r
  disk,    \* the files at the prefix: who wrote them, and what they hold
  verify   \* verify_fragments.py: its step, its `ok`, and the files it read

vars == <<args, pc, mem, disk, verify>>

NoFile == [by |-> "nobody", data |-> Missing]
File(r, x) == [by |-> r, data |-> x]
Final == {"done", "failed", "killed"}
Active(r) == pc[r] \notin Final \cup {"idle"}
Readable(img) == img \notin {Missing, Cut}

-----------------------------------------------------------------------------
\* init.rc: `old` is in the stanzas of rc.stanza, the setenv line in rc.setenv.
AddSetenv(rc) ==
  IF rc.stanza # {} /\ rc.setenv = {} THEN [rc EXCEPT !.setenv = rc.stanza] ELSE rc

Twrp16(ci) ==
  [p \in {<<"twrp16", lib>> : lib \in {l \in TWRP16_LIBS : <<"lib64", l>> \in DOMAIN ci}} |->
     ci[<<"lib64", p[2]>>]]

\* F0: stock + twrp16 + setenv - recovery - res.
F0Tree(stock, ci) ==
  LET t == Over(Twrp16(ci), Without(stock, {Recovery, Res}))
  IN  IF InitRc \in DOMAIN t THEN [t EXCEPT ![InitRc] = AddSetenv(@)] ELSE t

\* The RC files are looked for in recovery/root of the device tree.
RcOverlay(dt) ==
  [p \in {<<"/", rc>> : rc \in {n \in DT_OVERLAY_RCS : <<"recovery/root", n>> \in DOMAIN dt}} |->
     dt[<<"recovery/root", p[2]>>]]

\* F1: validated F1 + staging overlay + device tree RC.
F1Tree(validated, staging) ==
  Over(RcOverlay(DeviceTree), Over(Only(staging, STAGING_OVERLAY_FILES), validated))

\* A content, or a beginning of it.
Beginnings(p, c) ==
  {c} \cup IF p = InitRc
           THEN {[c EXCEPT !.whole = FALSE, !.stanza = S, !.setenv = @ \cap S] : S \in SUBSET c.stanza}
           ELSE {[c EXCEPT !.whole = FALSE]}

\* decompress_fragment: when lz4 or cpio stops early or cannot write, any of
\* the files may be missing or cut off.
Unpacked(tree) ==
  IF ~ToolsFail THEN {tree}
  ELSE {t \in UNION {[S -> UNION {Beginnings(p, tree[p]) : p \in S}] : S \in SUBSET DOMAIN tree} :
          \A p \in DOMAIN t : t[p] \in Beginnings(p, tree[p])}

\* pack_cpio_lz4: find or cpio may skip a file, lz4 may produce nothing.
Packed(tree) ==
  {tree} \cup IF ToolsFail THEN {Broken} \cup {Without(tree, {p}) : p \in DOMAIN tree} ELSE {}

-----------------------------------------------------------------------------
Arguments == [stock : Stocks, ci : Cis, validated : Validateds, staging : Stagings]
NoMemory  == [f0 |-> Broken, f1 |-> Broken]

Init ==
  /\ args = [r \in Runs |-> Missing]
  /\ pc = [r \in Runs |-> "idle"]
  /\ mem = [r \in Runs |-> NoMemory]
  /\ disk = [f0 |-> NoFile, f1 |-> NoFile, manifest |-> NoFile]
  /\ verify = [step |-> "idle", ok |-> FALSE, f0 |-> NoFile, f1 |-> NoFile]

\* Every image exists, and parse() finds the fragments the run indexes.
ReadInputs(r) ==
  /\ pc[r] = "idle"
  /\ \A q \in Runs : ~Active(q)
  /\ verify.step \notin {"f0", "f1"}
  /\ \E a \in Arguments :
       /\ args' = [args EXCEPT ![r] = a]
       /\ pc' = [pc EXCEPT ![r] =
            IF Readable(a.stock) /\ Readable(a.ci) /\ Readable(a.validated)
            THEN "build_f0" ELSE "failed"]
  /\ UNCHANGED <<mem, disk, verify>>

BuildF0(r) ==
  /\ pc[r] = "build_f0"
  /\ \E stock \in Unpacked(args[r].stock), ci \in Unpacked(args[r].ci) :
       \E f0 \in Packed(F0Tree(stock, ci)) : mem' = [mem EXCEPT ![r].f0 = f0]
  /\ pc' = [pc EXCEPT ![r] = "build_f1"]
  /\ UNCHANGED <<args, disk, verify>>

BuildF1(r) ==
  /\ pc[r] = "build_f1"
  /\ \E val \in Unpacked(args[r].validated) :
       \E f1 \in Packed(F1Tree(val, args[r].staging)) : mem' = [mem EXCEPT ![r].f1 = f1]
  /\ pc' = [pc EXCEPT ![r] = "remove_f0"]
  /\ UNCHANGED <<args, disk, verify>>

RemoveF0(r) ==
  /\ pc[r] = "remove_f0"
  /\ disk' = [disk EXCEPT !.f0 = NoFile]
  /\ pc' = [pc EXCEPT ![r] = "remove_f1"]
  /\ UNCHANGED <<args, mem, verify>>

RemoveF1Skipped(r) ==
  /\ pc[r] = "remove_f1"
  /\ pc' = [pc EXCEPT ![r] = "write_f0"]
  /\ UNCHANGED <<args, mem, disk, verify>>

RemoveF1(r) ==
  /\ pc[r] = "remove_f1"
  /\ disk' = [disk EXCEPT !.f1 = NoFile]
  /\ pc' = [pc EXCEPT ![r] = "write_f0"]
  /\ UNCHANGED <<args, mem, verify>>

WriteF0(r) ==
  /\ pc[r] = "write_f0"
  /\ disk' = [disk EXCEPT !.f0 = File(r, mem[r].f0)]
  /\ pc' = [pc EXCEPT ![r] = "write_f1"]
  /\ UNCHANGED <<args, mem, verify>>

WriteF1(r) ==
  /\ pc[r] = "write_f1"
  /\ disk' = [disk EXCEPT !.f1 = File(r, mem[r].f1)]
  /\ pc' = [pc EXCEPT ![r] = "write_manifest"]
  /\ UNCHANGED <<args, mem, verify>>

\* The manifest names the two paths, which are the same in every run.
WriteManifest(r) ==
  /\ pc[r] = "write_manifest"
  /\ disk' = [disk EXCEPT !.manifest = File(r, "f0 and f1")]
  /\ pc' = [pc EXCEPT ![r] = "done"]
  /\ mem' = [mem EXCEPT ![r] = NoMemory]
  /\ UNCHANGED <<args, verify>>

\* A run that is killed while it writes leaves a part of the file.
Die(r) ==
  /\ Active(r)
  /\ pc' = [pc EXCEPT ![r] = "killed"]
  /\ \/ UNCHANGED disk
     \/ pc[r] = "write_f0" /\ disk' = [disk EXCEPT !.f0 = File(r, Broken)]
     \/ pc[r] = "write_f1" /\ disk' = [disk EXCEPT !.f1 = File(r, Broken)]
     \/ pc[r] = "write_manifest" /\ disk' = [disk EXCEPT !.manifest = File(r, Broken)]
  /\ mem' = [mem EXCEPT ![r] = NoMemory]
  /\ UNCHANGED <<args, verify>>

-----------------------------------------------------------------------------
(***************************************************************************)
(* verify_fragments.py, started while no run is active.                    *)
(***************************************************************************)
F0LooksGoodWithoutLibs(t) ==
  /\ t # Broken
  /\ InitRc \in DOMAIN t /\ {Recovery, Res} \cap DOMAIN t = {}
  /\ t[InitRc].setenv # {}

F0LooksGood(t) ==
  /\ t # Broken
  /\ {<<"twrp16", lib>> : lib \in TWRP16_LIBS} \subseteq DOMAIN t
  /\ InitRc \in DOMAIN t /\ {Recovery, Res} \cap DOMAIN t = {}
  /\ t[InitRc].setenv # {}

F1LooksGood(t) == t # Broken /\ F1Required \subseteq DOMAIN t

VerifyStart ==
  /\ verify.step \in {"idle", "ended"}
  /\ \A r \in Runs : ~Active(r)
  /\ LET missing == disk.f0 = NoFile \/ disk.f1 = NoFile
     IN  verify' = [step |-> IF missing THEN "ended" ELSE "f0", ok |-> ~missing,
                    f0 |-> NoFile, f1 |-> NoFile]
  /\ UNCHANGED <<args, pc, mem, disk>>

VerifyF0 ==
  /\ verify.step = "f0"
  /\ verify' = [verify EXCEPT !.step = "f1", !.ok = @ /\ F0LooksGood(disk.f0.data),
                              !.f0 = disk.f0]
  /\ UNCHANGED <<args, pc, mem, disk>>

VerifyF1 ==
  /\ verify.step = "f1"
  /\ verify' = [verify EXCEPT !.step = "ended", !.ok = @ /\ F1LooksGood(disk.f1.data),
                              !.f1 = disk.f1]
  /\ UNCHANGED <<args, pc, mem, disk>>

Next ==
  \/ \E r \in Runs : ReadInputs(r) \/ BuildF0(r) \/ BuildF1(r) \/ RemoveF0(r) \/ RemoveF1(r)
                     \/ WriteF0(r) \/ WriteF1(r) \/ WriteManifest(r) \/ Die(r)
  \/ VerifyStart \/ VerifyF0 \/ VerifyF1

Spec == Init /\ [][Next]_vars

-----------------------------------------------------------------------------
(***************************************************************************)
(* The two fragments at a prefix always come from one run, also after a    *)
(* run was killed half way: both old files are removed before the first    *)
(* new one is written.  The manifest names both, and nothing in it says    *)
(* which run wrote them.                                                   *)
(***************************************************************************)
NoMixedPair ==
  (disk.f0 # NoFile /\ disk.f1 # NoFile) => disk.f0.by = disk.f1.by

(***************************************************************************)
(* "ALL CHECKS PASSED": whatever failed unnoticed in prepare_fragments.py  *)
(* or was killed, the pair comes from one run that got readable images,    *)
(* every twrp16 library is the one in that run's CI image or a beginning   *)
(* of it (the verifier looks at names and sizes are only printed), the     *)
(* stock recovery and res/ are gone, and F1 has a recovery.                *)
(***************************************************************************)
VerifiedIsOnePair ==
  (verify.step = "ended" /\ verify.ok) =>
    LET r == verify.f0.by
    IN  /\ verify.f1.by = r
        /\ \A lib \in TWRP16_LIBS :
             LET from == <<"lib64", lib>>
                 to   == <<"twrp16", lib>>
             IN  /\ from \in DOMAIN args[r].ci /\ to \in DOMAIN verify.f0.data
                 /\ verify.f0.data[to] \in Beginnings(from, args[r].ci[from])
        /\ {Recovery, Res} \cap DOMAIN verify.f0.data = {}
        /\ Recovery \in DOMAIN verify.f1.data

(***************************************************************************)
(* "F1 fragment (validated F1 + staging overlay + RC)" (docstring): a      *)
(* finished run has put the device tree's RC files into F1.                *)
(***************************************************************************)
F1CarriesTreeRc ==
  \A r \in Runs : (pc[r] = "done" /\ disk.f1.by = r) =>
    \A rc \in DT_OVERLAY_RCS :
      /\ <<"/", rc>> \in DOMAIN disk.f1.data
      /\ \E dir \in {"recovery/root", "rootdir"} :
           <<dir, rc>> \in DOMAIN DeviceTree /\ disk.f1.data[<<"/", rc>>] = DeviceTree[<<dir, rc>>]
=============================================================================
