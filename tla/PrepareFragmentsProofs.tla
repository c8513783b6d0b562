----------------------- MODULE PrepareFragmentsProofs -----------------------
(***************************************************************************)
(* Proofs about PrepareFragments: what verify_fragments.py may conclude    *)
(* from the two files it looks at, for any number of runs of               *)
(* prepare_fragments.py, any images, and whatever fails on the way.        *)
(***************************************************************************)
EXTENDS PrepareFragments, TLAPS

Steps == {"idle", "build_f0", "build_f1", "remove_f0", "remove_f1",
          "write_f0", "write_f1", "write_manifest"} \cup Final

\* At most one run is active, and none while verify_fragments.py reads.
TurnsInv ==
  /\ pc \in [Runs -> Steps]
  /\ \A q, r \in Runs : Active(q) /\ Active(r) => q = r
  /\ verify.step \in {"f0", "f1"} =>
       /\ \A r \in Runs : ~Active(r)
       /\ disk.f0 # NoFile /\ disk.f1 # NoFile

\* A run that has not started has been given no images and has no memory.
MemoryInv ==
  /\ args = [r \in Runs |-> args[r]]
  /\ mem = [r \in Runs |-> [f0 |-> mem[r].f0, f1 |-> mem[r].f1]]
  /\ disk = [f0 |-> disk.f0, f1 |-> disk.f1, manifest |-> disk.manifest]
  /\ verify = [step |-> verify.step, ok |-> verify.ok, f0 |-> verify.f0, f1 |-> verify.f1]
  /\ \A r \in Runs : pc[r] = "idle" => mem[r] = NoMemory

\* A file has been written by a run that was started.
Written(file) ==
  file # NoFile => file.by \in Runs /\ pc[file.by] # "idle"

\* How far a run has replaced the two files.
ReplacingInv ==
  /\ Written(disk.f0) /\ Written(disk.f1)
  /\ \A r \in Runs :
       /\ pc[r] = "remove_f1" => disk.f0 = NoFile
       /\ pc[r] = "write_f0" => disk.f0 = NoFile /\ disk.f1 = NoFile
       /\ pc[r] = "write_f1" => disk.f0.by = r /\ disk.f1 = NoFile

\* A twrp16 library in an F0 is the one of that run's CI image or begins it.
LibsFromCi(r, tree) ==
  \A lib \in TWRP16_LIBS :
    <<"twrp16", lib>> \in DOMAIN tree =>
      /\ <<"lib64", lib>> \in DOMAIN args[r].ci
      /\ tree[<<"twrp16", lib>>] \in Beginnings(<<"lib64", lib>>, args[r].ci[<<"lib64", lib>>])

GoodF0(r, data) == data # Broken => LibsFromCi(r, data)

\* F0s are what BuildF0 may make of the run's images.
ContentsInv ==
  /\ \A r \in Runs : GoodF0(r, mem[r].f0)
  /\ \A r \in Runs : pc[r] = "build_f0" => args[r] \in Arguments /\ Readable(args[r].stock)
  /\ disk.f0 # NoFile => GoodF0(disk.f0.by, disk.f0.data)

\* What verify_fragments.py has read and concluded so far.
VerifyInv ==
  /\ verify.step \in {"idle", "f0", "f1", "ended"}
  /\ verify.step = "f1" => verify.f0 = disk.f0
  /\ verify.step \in {"f1", "ended"} /\ verify.ok =>
       /\ verify.f0.by \in Runs /\ pc[verify.f0.by] # "idle"
       /\ F0LooksGood(verify.f0.data)
       /\ LibsFromCi(verify.f0.by, verify.f0.data)
  /\ verify.step = "ended" /\ verify.ok =>
       verify.f1.by = verify.f0.by /\ F1LooksGood(verify.f1.data)

Inv == TurnsInv /\ MemoryInv /\ ReplacingInv /\ ContentsInv /\ VerifyInv /\ NoMixedPair

-----------------------------------------------------------------------------
\* What lz4 and cpio leave of a tree are files of it, whole or cut off.
LEMMA UnpackedIsPart ==
  ASSUME NEW tree, NEW part \in Unpacked(tree), NEW p \in DOMAIN part
  PROVE  p \in DOMAIN tree /\ part[p] \in Beginnings(p, tree[p])
<1>1. CASE ToolsFail
  <2>1. part \in UNION {[S -> UNION {Beginnings(q, tree[q]) : q \in S}] : S \in SUBSET DOMAIN tree}
    BY <1>1 DEF Unpacked
  <2>2. PICK S \in SUBSET DOMAIN tree : part \in [S -> UNION {Beginnings(q, tree[q]) : q \in S}]
    BY <2>1
  <2>3. p \in DOMAIN tree
    BY <2>2
  <2>4. part[p] \in Beginnings(p, tree[p])
    BY <1>1 DEF Unpacked
  <2>5. QED
    BY <2>3, <2>4
<1>2. CASE ~ToolsFail
  BY <1>2 DEF Unpacked, Beginnings
<1>3. QED
  BY <1>1, <1>2

LEMMA PackedIsPart ==
  ASSUME NEW tree, NEW data \in Packed(tree), data # Broken, NEW p \in DOMAIN data
  PROVE  p \in DOMAIN tree /\ data[p] = tree[p]
BY DEF Packed, Without, Restrict

\* What comes out of BuildF0 has CI's libraries in twrp16/, and no others.
LEMMA BuiltF0 ==
  ASSUME NEW r \in Runs, args[r] \in Arguments, Readable(args[r].stock),
         NEW stock \in Unpacked(args[r].stock), NEW ci \in Unpacked(args[r].ci),
         NEW f0 \in Packed(F0Tree(stock, ci))
  PROVE  GoodF0(r, f0)
<1> SUFFICES ASSUME f0 # Broken, NEW lib \in TWRP16_LIBS, <<"twrp16", lib>> \in DOMAIN f0
             PROVE  /\ <<"lib64", lib>> \in DOMAIN args[r].ci
                    /\ f0[<<"twrp16", lib>>] \in Beginnings(<<"lib64", lib>>, args[r].ci[<<"lib64", lib>>])
  BY DEF GoodF0, LibsFromCi
<1> DEFINE path == <<"twrp16", lib>>
           rest == Without(stock, {Recovery, Res})
           tree == Over(Twrp16(ci), rest)
<1>1. path \in DOMAIN F0Tree(stock, ci) /\ f0[path] = F0Tree(stock, ci)[path]
  BY PackedIsPart
<1>2. path # InitRc
  BY DEF InitRc
<1>3. path \in DOMAIN tree /\ F0Tree(stock, ci)[path] = tree[path]
  <2>1. F0Tree(stock, ci) =
          IF InitRc \in DOMAIN tree THEN [tree EXCEPT ![InitRc] = AddSetenv(@)] ELSE tree
    BY DEF F0Tree
  <2> HIDE DEF tree
  <2>2. QED
    BY <1>1, <1>2, <2>1
<1>4. path \notin DOMAIN rest
  <2>1. path \notin DOMAIN args[r].stock
    <3>1. args[r].stock \in Stocks \ {Missing, Cut}
      BY DEF Arguments, Readable
    <3>2. QED
      BY <3>1, PrepareAssumption
  <2>2. path \notin DOMAIN stock
    BY <2>1, UnpackedIsPart
  <2>3. QED
    BY <2>2 DEF Without, Restrict
<1>5. path \in DOMAIN Twrp16(ci) /\ tree[path] = Twrp16(ci)[path]
  BY <1>3, <1>4 DEF Over
<1>6. PICK l \in TWRP16_LIBS : <<"lib64", l>> \in DOMAIN ci /\ path = <<"twrp16", l>>
  BY <1>5 DEF Twrp16
<1>7. l = lib
  BY <1>6
<1>8. <<"lib64", lib>> \in DOMAIN ci /\ Twrp16(ci)[path] = ci[<<"lib64", lib>>]
  BY <1>5, <1>6, <1>7 DEF Twrp16
<1>9. QED
  BY <1>1, <1>3, <1>5, <1>8, UnpackedIsPart

\* No file has been written by nobody.
LEMMA FileIsThere ==
  ASSUME NEW r \in Runs, NEW x
  PROVE  File(r, x) # NoFile /\ File(r, x).by = r /\ File(r, x).data = x
BY PrepareAssumption DEF File, NoFile

LEMMA InitInv == Init => Inv
BY DEF Init, Inv, TurnsInv, MemoryInv, ReplacingInv, ContentsInv, VerifyInv, NoMixedPair,
       Steps, Final, Active, Written, GoodF0, NoMemory, NoFile

(***************************************************************************)
(* The steps of prepare_fragments.py.                                      *)
(***************************************************************************)
LEMMA ReadInputsInv ==
  ASSUME Inv, NEW r \in Runs, ReadInputs(r)
  PROVE  Inv'
<1> USE DEF Inv
<1>1. PICK a \in Arguments :
        /\ args' = [args EXCEPT ![r] = a]
        /\ pc' = [pc EXCEPT ![r] =
             IF Readable(a.stock) /\ Readable(a.ci) /\ Readable(a.validated)
             THEN "build_f0" ELSE "failed"]
  BY DEF ReadInputs
<1>2. /\ pc[r] = "idle" /\ (\A q \in Runs : ~Active(q)) /\ verify.step \notin {"f0", "f1"}
      /\ UNCHANGED <<mem, disk, verify>>
  BY DEF ReadInputs
<1>3. \A q \in Runs \ {r} : pc'[q] = pc[q] /\ args'[q] = args[q]
  BY <1>1 DEF TurnsInv, MemoryInv
<1>4. pc'[r] \in {"build_f0", "failed"} /\ args'[r] = a
  BY <1>1 DEF TurnsInv, MemoryInv
<1>5. TurnsInv'
  BY <1>1, <1>2, <1>3 DEF TurnsInv, Steps, Final, Active
<1>6. MemoryInv'
  BY <1>1, <1>2, <1>3, <1>4 DEF MemoryInv
<1>7. ReplacingInv'
  BY <1>2, <1>3, <1>4 DEF ReplacingInv, Written
<1>8. \A q \in Runs : \A tree : pc[q] # "idle" /\ LibsFromCi(q, tree) => LibsFromCi(q, tree)'
  BY <1>2, <1>3 DEF LibsFromCi
<1>9. ContentsInv'
  <2>1. \A q \in Runs : GoodF0(q, mem[q].f0)'
    <3>1. GoodF0(r, mem[r].f0)'
      BY <1>2 DEF MemoryInv, NoMemory, GoodF0
    <3>2. ASSUME NEW q \in Runs \ {r} PROVE GoodF0(q, mem[q].f0)'
      BY <1>2, <1>3 DEF ContentsInv, GoodF0, LibsFromCi
    <3>3. QED
      BY <3>1, <3>2
  <2>2. \A q \in Runs : (pc[q] = "build_f0" => args[q] \in Arguments /\ Readable(args[q].stock))'
    BY <1>1, <1>3, <1>4 DEF ContentsInv, TurnsInv
  <2>3. (disk.f0 # NoFile => GoodF0(disk.f0.by, disk.f0.data))'
    BY <1>2, <1>8 DEF ContentsInv, GoodF0, ReplacingInv, Written
  <2>4. QED
    BY <2>1, <2>2, <2>3 DEF ContentsInv
<1>10. VerifyInv'
  BY <1>2, <1>3, <1>4, <1>8 DEF VerifyInv
<1>11. QED
  BY <1>2, <1>5, <1>6, <1>7, <1>9, <1>10 DEF NoMixedPair

\* What every step of an active run has in common.
LEMMA RunStep ==
  ASSUME Inv, NEW r \in Runs, NEW step \in Steps \ {"idle"}, Active(r),
         pc' = [pc EXCEPT ![r] = step], UNCHANGED <<args, verify>>
  PROVE  /\ TurnsInv' /\ VerifyInv'
         /\ pc'[r] = step /\ \A q \in Runs \ {r} : ~Active(q) /\ pc'[q] = pc[q]
         /\ \A q \in Runs : pc[q] # "idle" => pc'[q] # "idle"
         /\ \A q, data : GoodF0(q, data)' <=> GoodF0(q, data)
<1> USE DEF Inv
<1>1. /\ pc'[r] = step
      /\ \A q \in Runs \ {r} : ~Active(q) /\ pc'[q] = pc[q]
  BY DEF TurnsInv
<1>2. \A q \in Runs : pc[q] # "idle" => pc'[q] # "idle"
  BY <1>1
<1>3. TurnsInv'
  BY <1>1 DEF TurnsInv, Active
<1>4. \A q, tree : LibsFromCi(q, tree)' <=> LibsFromCi(q, tree)
  BY DEF LibsFromCi
<1>5. VerifyInv'
  BY <1>1, <1>2, <1>4 DEF VerifyInv, TurnsInv
<1>6. \A q, data : GoodF0(q, data)' <=> GoodF0(q, data)
  BY <1>4 DEF GoodF0
<1>7. QED
  BY <1>1, <1>2, <1>3, <1>5, <1>6

LEMMA BuildF0Inv ==
  ASSUME Inv, NEW r \in Runs, BuildF0(r)
  PROVE  Inv'
<1> USE DEF Inv
<1>0. PICK stock \in Unpacked(args[r].stock), ci \in Unpacked(args[r].ci) :
        \E f0 \in Packed(F0Tree(stock, ci)) : mem' = [mem EXCEPT ![r].f0 = f0]
  BY DEF BuildF0
<1>1. PICK f0 \in Packed(F0Tree(stock, ci)) : mem' = [mem EXCEPT ![r].f0 = f0]
  BY <1>0
<1>2. pc[r] = "build_f0" /\ pc' = [pc EXCEPT ![r] = "build_f1"] /\ UNCHANGED <<args, disk, verify>>
  BY DEF BuildF0
<1>3. Active(r) /\ "build_f1" \in Steps \ {"idle"}
  BY <1>2 DEF Active, Final, Steps
<1>4. /\ TurnsInv' /\ VerifyInv'
      /\ pc'[r] = "build_f1" /\ \A q \in Runs \ {r} : ~Active(q) /\ pc'[q] = pc[q]
      /\ \A q \in Runs : pc[q] # "idle" => pc'[q] # "idle"
      /\ \A q, data : GoodF0(q, data)' <=> GoodF0(q, data)
  BY <1>2, <1>3, RunStep
<1>5. mem'[r] = [f0 |-> f0, f1 |-> mem[r].f1] /\ \A q \in Runs \ {r} : mem'[q] = mem[q]
  BY <1>1 DEF MemoryInv
<1>6. MemoryInv'
  BY <1>1, <1>2, <1>4, <1>5 DEF MemoryInv
<1>7. ReplacingInv' /\ NoMixedPair'
  BY <1>2, <1>4 DEF ReplacingInv, Written, NoMixedPair
<1>8. GoodF0(r, f0)
  BY <1>2, BuiltF0 DEF ContentsInv
<1>9. ContentsInv'
  BY <1>2, <1>4, <1>5, <1>8 DEF ContentsInv
<1>10. QED
  BY <1>4, <1>6, <1>7, <1>9

LEMMA BuildF1Inv ==
  ASSUME Inv, NEW r \in Runs, BuildF1(r)
  PROVE  Inv'
<1> USE DEF Inv
<1>1. PICK f1 : mem' = [mem EXCEPT ![r].f1 = f1]
  BY DEF BuildF1
<1>2. pc[r] = "build_f1" /\ pc' = [pc EXCEPT ![r] = "remove_f0"] /\ UNCHANGED <<args, disk, verify>>
  BY DEF BuildF1
<1>3. Active(r) /\ "remove_f0" \in Steps \ {"idle"}
  BY <1>2 DEF Active, Final, Steps
<1>4. /\ TurnsInv' /\ VerifyInv'
      /\ pc'[r] = "remove_f0" /\ \A q \in Runs \ {r} : ~Active(q) /\ pc'[q] = pc[q]
      /\ \A q \in Runs : pc[q] # "idle" => pc'[q] # "idle"
      /\ \A q, data : GoodF0(q, data)' <=> GoodF0(q, data)
  BY <1>2, <1>3, RunStep
<1>5. mem'[r] = [f0 |-> mem[r].f0, f1 |-> f1] /\ \A q \in Runs \ {r} : mem'[q] = mem[q]
  BY <1>1 DEF MemoryInv
<1>6. MemoryInv'
  BY <1>1, <1>2, <1>4, <1>5 DEF MemoryInv
<1>7. ReplacingInv' /\ NoMixedPair'
  BY <1>2, <1>4 DEF ReplacingInv, Written, NoMixedPair
<1>8. ContentsInv'
  BY <1>2, <1>4, <1>5 DEF ContentsInv
<1>9. QED
  BY <1>4, <1>6, <1>7, <1>8

LEMMA RemoveF0Inv ==
  ASSUME Inv, NEW r \in Runs, RemoveF0(r)
  PROVE  Inv'
<1> USE DEF Inv
<1>1. pc[r] = "remove_f0" /\ pc' = [pc EXCEPT ![r] = "remove_f1"] /\ UNCHANGED <<args, mem, verify>>
  BY DEF RemoveF0
<1>2. disk' = [disk EXCEPT !.f0 = NoFile]
  BY DEF RemoveF0
<1>3. Active(r) /\ "remove_f1" \in Steps \ {"idle"}
  BY <1>1 DEF Active, Final, Steps
<1>4. /\ TurnsInv' /\ VerifyInv'
      /\ pc'[r] = "remove_f1" /\ \A q \in Runs \ {r} : ~Active(q) /\ pc'[q] = pc[q]
      /\ \A q \in Runs : pc[q] # "idle" => pc'[q] # "idle"
      /\ \A q, data : GoodF0(q, data)' <=> GoodF0(q, data)
  BY <1>1, <1>3, RunStep
<1>5. disk'.f0 = NoFile /\ disk'.f1 = disk.f1
  BY <1>2 DEF MemoryInv
<1>6. MemoryInv'
  BY <1>1, <1>2, <1>4 DEF MemoryInv
<1>7. ReplacingInv' /\ NoMixedPair'
  BY <1>1, <1>4, <1>5 DEF ReplacingInv, Written, NoMixedPair, Active, Final
<1>8. ContentsInv'
  BY <1>1, <1>4, <1>5 DEF ContentsInv
<1>9. QED
  BY <1>4, <1>6, <1>7, <1>8

LEMMA RemoveF1Inv ==
  ASSUME Inv, NEW r \in Runs, RemoveF1(r)
  PROVE  Inv'
<1> USE DEF Inv
<1>1. pc[r] = "remove_f1" /\ pc' = [pc EXCEPT ![r] = "write_f0"] /\ UNCHANGED <<args, mem, verify>>
  BY DEF RemoveF1
<1>2. disk' = [disk EXCEPT !.f1 = NoFile]
  BY DEF RemoveF1
<1>3. Active(r) /\ "write_f0" \in Steps \ {"idle"}
  BY <1>1 DEF Active, Final, Steps
<1>4. /\ TurnsInv' /\ VerifyInv'
      /\ pc'[r] = "write_f0" /\ \A q \in Runs \ {r} : ~Active(q) /\ pc'[q] = pc[q]
      /\ \A q \in Runs : pc[q] # "idle" => pc'[q] # "idle"
      /\ \A q, data : GoodF0(q, data)' <=> GoodF0(q, data)
  BY <1>1, <1>3, RunStep
<1>5. disk'.f0 = disk.f0 /\ disk'.f1 = NoFile
  BY <1>2 DEF MemoryInv
<1>6. MemoryInv'
  BY <1>1, <1>2, <1>4 DEF MemoryInv
<1>7. ReplacingInv' /\ NoMixedPair'
  BY <1>1, <1>4, <1>5 DEF ReplacingInv, Written, NoMixedPair, Active, Final
<1>8. ContentsInv'
  BY <1>1, <1>4, <1>5 DEF ContentsInv
<1>9. QED
  BY <1>4, <1>6, <1>7, <1>8

LEMMA WriteF0Inv ==
  ASSUME Inv, NEW r \in Runs, WriteF0(r)
  PROVE  Inv'
<1> USE DEF Inv
<1>1. pc[r] = "write_f0" /\ pc' = [pc EXCEPT ![r] = "write_f1"] /\ UNCHANGED <<args, mem, verify>>
  BY DEF WriteF0
<1>2. disk' = [disk EXCEPT !.f0 = File(r, mem[r].f0)]
  BY DEF WriteF0
<1>3. Active(r) /\ "write_f1" \in Steps \ {"idle"}
  BY <1>1 DEF Active, Final, Steps
<1>4. /\ TurnsInv' /\ VerifyInv'
      /\ pc'[r] = "write_f1" /\ \A q \in Runs \ {r} : ~Active(q) /\ pc'[q] = pc[q]
      /\ \A q \in Runs : pc[q] # "idle" => pc'[q] # "idle"
      /\ \A q, data : GoodF0(q, data)' <=> GoodF0(q, data)
  BY <1>1, <1>3, RunStep
<1>5. /\ disk'.f0.by = r /\ disk'.f0.data = mem[r].f0
      /\ disk'.f1 = disk.f1 /\ disk'.f0 # NoFile
  BY <1>2, FileIsThere DEF MemoryInv
<1>6. MemoryInv'
  BY <1>1, <1>2, <1>4 DEF MemoryInv
<1>7. ReplacingInv' /\ NoMixedPair'
  BY <1>1, <1>4, <1>5 DEF ReplacingInv, Written, NoMixedPair, Active, Final
<1>8. ContentsInv'
  BY <1>1, <1>4, <1>5 DEF ContentsInv
<1>9. QED
  BY <1>4, <1>6, <1>7, <1>8

LEMMA WriteF1Inv ==
  ASSUME Inv, NEW r \in Runs, WriteF1(r)
  PROVE  Inv'
<1> USE DEF Inv
<1>1. pc[r] = "write_f1" /\ pc' = [pc EXCEPT ![r] = "write_manifest"] /\ UNCHANGED <<args, mem, verify>>
  BY DEF WriteF1
<1>2. disk' = [disk EXCEPT !.f1 = File(r, mem[r].f1)]
  BY DEF WriteF1
<1>3. Active(r) /\ "write_manifest" \in Steps \ {"idle"}
  BY <1>1 DEF Active, Final, Steps
<1>4. /\ TurnsInv' /\ VerifyInv'
      /\ pc'[r] = "write_manifest" /\ \A q \in Runs \ {r} : ~Active(q) /\ pc'[q] = pc[q]
      /\ \A q \in Runs : pc[q] # "idle" => pc'[q] # "idle"
      /\ \A q, data : GoodF0(q, data)' <=> GoodF0(q, data)
  BY <1>1, <1>3, RunStep
<1>5. /\ disk'.f0 = disk.f0
      /\ disk'.f1.by = r /\ disk'.f1 # NoFile
  BY <1>2, FileIsThere DEF MemoryInv
<1>6. MemoryInv'
  BY <1>1, <1>2, <1>4 DEF MemoryInv
<1>7. ReplacingInv' /\ NoMixedPair'
  BY <1>1, <1>4, <1>5 DEF ReplacingInv, Written, NoMixedPair, Active, Final
<1>8. ContentsInv'
  BY <1>1, <1>4, <1>5 DEF ContentsInv
<1>9. QED
  BY <1>4, <1>6, <1>7, <1>8

\* The last write, and a death at any step, forget what the run had in memory.
LEMMA WriteManifestInv ==
  ASSUME Inv, NEW r \in Runs, WriteManifest(r)
  PROVE  Inv'
<1> USE DEF Inv
<1>1. /\ pc[r] = "write_manifest" /\ pc' = [pc EXCEPT ![r] = "done"]
      /\ mem' = [mem EXCEPT ![r] = NoMemory] /\ UNCHANGED <<args, verify>>
  BY DEF WriteManifest
<1>2. disk' = [disk EXCEPT !.manifest = File(r, "f0 and f1")]
  BY DEF WriteManifest
<1>3. Active(r) /\ "done" \in Steps \ {"idle"}
  BY <1>1 DEF Active, Final, Steps
<1>4. /\ TurnsInv' /\ VerifyInv'
      /\ pc'[r] = "done" /\ \A q \in Runs \ {r} : ~Active(q) /\ pc'[q] = pc[q]
      /\ \A q \in Runs : pc[q] # "idle" => pc'[q] # "idle"
      /\ \A q, data : GoodF0(q, data)' <=> GoodF0(q, data)
  BY <1>1, <1>3, RunStep
<1>5. disk'.f0 = disk.f0 /\ disk'.f1 = disk.f1
  BY <1>2 DEF MemoryInv
<1>6. mem'[r] = NoMemory /\ \A q \in Runs \ {r} : mem'[q] = mem[q]
  BY <1>1 DEF MemoryInv
<1>7. MemoryInv'
  BY <1>1, <1>2, <1>4, <1>6 DEF MemoryInv, NoMemory
<1>8. ReplacingInv' /\ NoMixedPair'
  BY <1>1, <1>4, <1>5 DEF ReplacingInv, Written, NoMixedPair
<1>9. ContentsInv'
  BY <1>1, <1>4, <1>5, <1>6 DEF ContentsInv, GoodF0, NoMemory
<1>10. QED
  BY <1>4, <1>7, <1>8, <1>9

LEMMA DieInv ==
  ASSUME Inv, NEW r \in Runs, Die(r)
  PROVE  Inv'
<1> USE DEF Inv
<1>1. /\ Active(r) /\ pc' = [pc EXCEPT ![r] = "killed"]
      /\ mem' = [mem EXCEPT ![r] = NoMemory] /\ UNCHANGED <<args, verify>>
  BY DEF Die
<1>2. "killed" \in Steps \ {"idle"}
  BY DEF Final, Steps
<1>3. /\ TurnsInv' /\ VerifyInv'
      /\ pc'[r] = "killed" /\ \A q \in Runs \ {r} : ~Active(q) /\ pc'[q] = pc[q]
      /\ \A q \in Runs : pc[q] # "idle" => pc'[q] # "idle"
      /\ \A q, data : GoodF0(q, data)' <=> GoodF0(q, data)
  BY <1>1, <1>2, RunStep
<1>4. mem'[r] = NoMemory /\ \A q \in Runs \ {r} : mem'[q] = mem[q]
  BY <1>1 DEF MemoryInv
<1>5. \/ disk'.f0 = disk.f0 /\ disk'.f1 = disk.f1
      \/ /\ pc[r] = "write_f0" /\ disk'.f1 = disk.f1
         /\ disk'.f0 # NoFile /\ disk'.f0.by = r /\ disk'.f0.data = Broken
      \/ /\ pc[r] = "write_f1" /\ disk'.f0 = disk.f0
         /\ disk'.f1 # NoFile /\ disk'.f1.by = r /\ disk'.f1.data = Broken
  BY FileIsThere DEF Die, MemoryInv
<1>6. MemoryInv'
  <2>1. disk' = [f0 |-> disk'.f0, f1 |-> disk'.f1, manifest |-> disk'.manifest]
    BY DEF Die, MemoryInv
  <2>2. QED
    BY <1>1, <1>3, <1>4, <2>1 DEF MemoryInv, NoMemory
<1>7. Written(disk.f0)' /\ Written(disk.f1)'
  BY <1>3, <1>5, <1>1 DEF ReplacingInv, Written, Active
<1>8. ReplacingInv'
  BY <1>3, <1>7 DEF ReplacingInv, Active, Final
<1>9. NoMixedPair'
  BY <1>5 DEF NoMixedPair, ReplacingInv
<1>10. ContentsInv'
  BY <1>1, <1>3, <1>4, <1>5 DEF ContentsInv, GoodF0, NoMemory
<1>11. QED
  BY <1>3, <1>6, <1>8, <1>9, <1>10

(***************************************************************************)
(* The steps of verify_fragments.py.                                       *)
(***************************************************************************)
LEMMA VerifyInvStep ==
  ASSUME Inv, VerifyStart \/ VerifyF0 \/ VerifyF1
  PROVE  Inv'
<1> USE DEF Inv
<1>1. UNCHANGED <<args, pc, mem, disk>>
  BY DEF VerifyStart, VerifyF0, VerifyF1
<1>2. ReplacingInv' /\ NoMixedPair' /\ ContentsInv'
  BY <1>1 DEF ReplacingInv, Written, NoMixedPair, ContentsInv, GoodF0, LibsFromCi
<1>3. \A q, tree : LibsFromCi(q, tree)' <=> LibsFromCi(q, tree)
  BY <1>1 DEF LibsFromCi
<1>4. MemoryInv'
  <2>1. verify' = [step |-> verify'.step, ok |-> verify'.ok, f0 |-> verify'.f0, f1 |-> verify'.f1]
    BY DEF VerifyStart, VerifyF0, VerifyF1, MemoryInv
  <2>2. QED
    BY <1>1, <2>1 DEF MemoryInv
<1>5. CASE VerifyStart
  <2>1. \/ verify'.step = "ended" /\ ~verify'.ok
        \/ verify'.step = "f0" /\ disk.f0 # NoFile /\ disk.f1 # NoFile
    BY <1>5 DEF VerifyStart
  <2>2. TurnsInv'
    BY <1>1, <1>5, <2>1 DEF VerifyStart, TurnsInv, Active
  <2>3. VerifyInv'
    BY <2>1 DEF VerifyInv
  <2>4. QED
    BY <1>2, <1>4, <2>2, <2>3
<1>6. CASE VerifyF0
  <2>1. /\ verify.step = "f0" /\ verify'.step = "f1" /\ verify'.f0 = disk.f0
        /\ verify'.ok => F0LooksGood(disk.f0.data)
    BY <1>6 DEF VerifyF0, MemoryInv
  <2>2. disk.f0 # NoFile /\ TurnsInv'
    BY <1>1, <2>1 DEF TurnsInv, Active
  <2>3. F0LooksGood(disk.f0.data) => LibsFromCi(disk.f0.by, disk.f0.data)
    BY <2>2 DEF ContentsInv, GoodF0, F0LooksGood
  <2>4. VerifyInv'
    BY <1>1, <1>3, <2>1, <2>2, <2>3 DEF VerifyInv, ReplacingInv, Written
  <2>5. QED
    BY <1>2, <1>4, <2>2, <2>4
<1>7. CASE VerifyF1
  <2>1. /\ verify.step = "f1" /\ verify'.step = "ended"
        /\ verify'.f0 = verify.f0 /\ verify'.f1 = disk.f1
        /\ verify'.ok => verify.ok /\ F1LooksGood(disk.f1.data)
    BY <1>7 DEF VerifyF1, MemoryInv
  <2>2. verify.f0.by = disk.f1.by
    BY <2>1 DEF VerifyInv, TurnsInv, NoMixedPair
  <2>3. TurnsInv' /\ VerifyInv'
    BY <1>1, <1>3, <2>1, <2>2 DEF TurnsInv, Active, VerifyInv
  <2>4. QED
    BY <1>2, <1>4, <2>3
<1>8. QED
  BY <1>5, <1>6, <1>7

LEMMA StepInv == Inv /\ [Next]_vars => Inv'
<1> SUFFICES ASSUME Inv, [Next]_vars PROVE Inv'
  OBVIOUS
<1>1. CASE UNCHANGED vars
  BY <1>1 DEF vars, Inv, TurnsInv, Active, MemoryInv, ReplacingInv, Written, ContentsInv,
              GoodF0, LibsFromCi, VerifyInv, NoMixedPair
<1>2. CASE Next
  BY <1>2, ReadInputsInv, BuildF0Inv, BuildF1Inv, RemoveF0Inv, RemoveF1Inv, WriteF0Inv,
     WriteF1Inv, WriteManifestInv, DieInv, VerifyInvStep DEF Next
<1>3. QED
  BY <1>1, <1>2

LEMMA Invariance == Spec => []Inv
<1>1. Init => Inv
  BY InitInv
<1>2. Inv /\ [Next]_vars => Inv'
  BY StepInv
<1>3. QED
  BY <1>1, <1>2, PTL DEF Spec

(***************************************************************************)
(* For any number of runs and any deaths: the two fragments that lie at a  *)
(* prefix come from one run (the removal of both old files before the      *)
(* first new one in prepare_fragments.py).                                 *)
(***************************************************************************)
THEOREM PairFromOneRun == Spec => []NoMixedPair
<1>1. Inv => NoMixedPair
  BY DEF Inv
<1>2. QED
  BY <1>1, Invariance, PTL

(***************************************************************************)
(* For any images, trees and failures of the tools: what passes            *)
(* verify_fragments.py has every twrp16 library of CI, whole or cut off,   *)
(* no recovery and no res/ in F0, a recovery in F1, and both fragments     *)
(* from one run.                                                           *)
(***************************************************************************)
THEOREM PassedIsOnePair == Spec => []VerifiedIsOnePair
<1>1. Inv => VerifiedIsOnePair
  <2> SUFFICES ASSUME Inv, verify.step = "ended", verify.ok
               PROVE  VerifiedIsOnePair
    BY DEF VerifiedIsOnePair
  <2> DEFINE r == verify.f0.by
  <2>1. /\ F0LooksGood(verify.f0.data) /\ LibsFromCi(r, verify.f0.data)
        /\ verify.f1.by = r /\ F1LooksGood(verify.f1.data)
    BY DEF Inv, VerifyInv
  <2>2. \A lib \in TWRP16_LIBS : <<"twrp16", lib>> \in DOMAIN verify.f0.data
    BY <2>1 DEF F0LooksGood
  <2>3. {Recovery, Res} \cap DOMAIN verify.f0.data = {} /\ Recovery \in DOMAIN verify.f1.data
    BY <2>1, PrepareAssumption DEF F0LooksGood, F1LooksGood
  <2>4. QED
    BY <2>1, <2>2, <2>3 DEF VerifiedIsOnePair, LibsFromCi
<1>2. QED
  BY <1>1, Invariance, PTL
=============================================================================
