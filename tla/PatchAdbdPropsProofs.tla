------------------------ MODULE PatchAdbdPropsProofs ------------------------
(***************************************************************************)
(* Proofs about PatchAdbdProps, for any number of runs, files, command     *)
(* lines and archives, with kills and with an lz4 that writes anything.    *)
(***************************************************************************)
EXTENDS PatchAdbdProps, FiniteSetTheorems, TLAPS

-----------------------------------------------------------------------------
(***************************************************************************)
(* The inductive invariant.  What run r knows about the files it named.    *)
(***************************************************************************)
Patching == {"create", "compress", "recheck", "open_report", "dump"}
Owning   == {"compress", "recheck", "open_report", "dump"}

RunInv(r) ==
  /\ pc[r] = "patch" => \/ fs[args[r].input] = Fragment(incpio[r])
                        \/ ~incpio[r].whole
  /\ pc[r] \in Patching => /\ fs[args[r].input] = Fragment(incpio[r])
                           /\ PatchOK(incpio[r])
                           /\ outcpio[r] = Patched(incpio[r])
  /\ pc[r] = "compress" => fs[args[r].output] = Partial
  /\ pc[r] = "recheck" => fs[args[r].output].kind \in {"partial", "lz4"}
  /\ pc[r] \in {"open_report", "dump"} => fs[args[r].output] = Fragment(outcpio[r])
  /\ pc[r] = "dump" => fs[args[r].report] = PartialReport

\* Created files have one owner.
OwnerInv ==
  \A r, q \in Runs : r # q =>
    /\ (pc[r] \in Owning /\ pc[q] \in Owning) => args[r].output # args[q].output
    /\ (pc[r] = "dump" /\ pc[q] = "dump") => args[r].report # args[q].report

\* No report yet claims the output of a run that has not published its own.
Unclaimed ==
  \A r \in Runs, f \in Paths :
    (pc[r] \in Owning /\ fs[f].kind = "report") => fs[f].of.output # args[r].output

Inv ==
  /\ TypeOK
  /\ \A r \in Runs : RunInv(r)
  /\ OwnerInv
  /\ Unclaimed
  /\ ReportsTruthful
  /\ OneReportPerOutput

-----------------------------------------------------------------------------
\* The kinds of file contents are told apart by their tags.
LEMMA Kinds ==
  /\ Absent.kind = "absent"
  /\ Partial.kind = "partial"
  /\ PartialReport.kind = "partial_report"
  /\ \A c : Fragment(c).kind = "lz4" /\ Fragment(c).cpio = c
  /\ \A r : Report(r).kind = "report" /\ Report(r).of = r
  BY DEF Absent, Partial, PartialReport, Fragment, Report

\* The tag of a file determines the form of its contents.
LEMMA ContentsForms ==
  ASSUME NEW x \in Contents
  PROVE  /\ x.kind = "absent" => x = Absent
         /\ x.kind = "partial" => x = Partial
         /\ x.kind = "lz4" => x.cpio \in Cpios /\ x = Fragment(x.cpio)
         /\ x.kind = "report" => x.of \in Reports /\ x = Report(x.of)
<1>1. CASE x \in {Absent, Partial, PartialReport}
  BY <1>1, Kinds
<1>2. ASSUME NEW c \in Cpios, x = Fragment(c) PROVE x.kind = "lz4" /\ x.cpio = c
  BY <1>2, Kinds
<1>3. ASSUME NEW r \in Reports, x = Report(r) PROVE x.kind = "report" /\ x.of = r
  BY <1>3, Kinds
<1> QED BY <1>1, <1>2, <1>3 DEF Contents

\* Everything the tool or lz4 writes is a possible content of a file.
LEMMA ContentsIntro ==
  /\ Absent \in Contents /\ Partial \in Contents /\ PartialReport \in Contents
  /\ \A c \in Cpios : Fragment(c) \in Contents
  /\ \A r \in Reports : Report(r) \in Contents
  BY DEF Contents

\* patch_properties() leaves the archive parseable ...
LEMMA PatchedWhole ==
  ASSUME NEW c \in Cpios
  PROVE  Patched(c).whole = c.whole
  BY PatchAssumption DEF Patched, CpioType

\* ... and refuses what it has patched: the old lines are gone.
LEMMA PatchedIsRefused ==
  ASSUME NEW c \in Cpios, PatchOK(c)
  PROVE  ~PatchOK(Patched(c))
<1> DEFINE d == Patched(c)
<1>1. PICK k \in Targets(c) : LinesOK(c.files[k].lines)
  BY DEF PatchOK, ExactlyOne
<1>2. c \in CpioType /\ k \in DOMAIN c.files /\ c.files[k].path = "prop.default"
  BY <1>1, PatchAssumption DEF Targets
<1>3. d.files = [m \in DOMAIN c.files |->
                   IF m \in Targets(c)
                   THEN [c.files[m] EXCEPT !.lines = PatchedLines(c.files[m].lines)]
                   ELSE c.files[m]]
  BY <1>2 DEF Patched, CpioType
<1>4. DOMAIN d.files = DOMAIN c.files
  BY <1>3
<1>5. d.files[k] = [c.files[k] EXCEPT !.lines = PatchedLines(c.files[k].lines)]
  BY <1>1, <1>2, <1>3
<1>6. c.files[k] \in FileType
  <2>1. c.files \in Seq(FileType)
    BY <1>2 DEF CpioType
  <2> QED BY <1>2, <2>1
<1>7. d.files[k].path = "prop.default" /\ d.files[k].lines = PatchedLines(c.files[k].lines)
  BY <1>2, <1>5, <1>6 DEF FileType
<1>8. k \in Targets(d)
  BY <1>2, <1>4, <1>7 DEF Targets
<1>9. "ro.secure=1" \in OldLines
  BY DEF OldLines
<1>10. Hits(d.files[k].lines, "ro.secure=1") = {}
  BY <1>1, <1>7, <1>9 DEF LinesOK
<1>11. ~LinesOK(d.files[k].lines)
  BY <1>9, <1>10 DEF LinesOK, ExactlyOne
<1> QED BY <1>8, <1>11 DEF PatchOK

-----------------------------------------------------------------------------
(***************************************************************************)
(* The next-state steps.                                                   *)
(***************************************************************************)
LEMMA InitInv == Init => Inv
<1> SUFFICES ASSUME Init PROVE Inv
  OBVIOUS
<1>1. \A f \in Paths : fs[f] = Absent \/ \E c \in Cpios : fs[f] = Fragment(c)
  BY PatchAssumption DEF Init, InitFrom
<1>2. \A f \in Paths : fs[f].kind # "report"
  BY <1>1, Kinds
<1>3. \A r \in Runs : pc[r] = "check_paths"
  BY DEF Init, InitFrom
<1>4. TypeOK
  <2>1. Unread \in Cpios
    BY PatchAssumption DEF Unread
  <2>2. incpio \in [Runs -> Cpios] /\ outcpio \in [Runs -> Cpios]
    BY <2>1 DEF Init, InitFrom
  <2>3. fs \in [Paths -> Contents]
    BY PatchAssumption, ContentsIntro DEF Init, InitFrom
  <2>4. pc \in [Runs -> Steps]
    BY DEF Init, InitFrom, Steps
  <2>5. args \in [Runs -> Commands]
    BY PatchAssumption DEF Init, InitFrom
  <2> QED BY <2>2, <2>3, <2>4, <2>5 DEF TypeOK
<1>5. (\A r \in Runs : RunInv(r)) /\ OwnerInv /\ Unclaimed
  BY <1>3 DEF RunInv, OwnerInv, Unclaimed, Patching, Owning
<1> QED BY <1>2, <1>4, <1>5 DEF Inv, ReportsTruthful, OneReportPerOutput

(***************************************************************************)
(* A step of run r that changes no file and moves r to a state in which it *)
(* claims nothing: every early return, kill and error.                     *)
(***************************************************************************)
LEMMA IdleStep ==
  ASSUME Inv, NEW r \in Runs, NEW step \in Final \cup {"decode"}, Goto(r, step),
         UNCHANGED <<args, fs, incpio, outcpio>>
  PROVE  Inv'
<1>1. /\ args' = args /\ fs' = fs /\ incpio' = incpio /\ outcpio' = outcpio
      /\ pc \in [Runs -> Steps] /\ pc' = [pc EXCEPT ![r] = step]
      /\ step \in Steps /\ step \notin Patching /\ step \notin Owning /\ step # "patch"
  BY DEF Inv, TypeOK, Goto, Steps, Final, Patching, Owning
<1>2. pc' \in [Runs -> Steps] /\ pc'[r] = step /\ \A q \in Runs : q # r => pc'[q] = pc[q]
  BY <1>1
<1>3. TypeOK'
  BY <1>1, <1>2 DEF Inv, TypeOK
<1>4. ASSUME NEW q \in Runs PROVE RunInv(q)'
  <2>1. CASE q = r
    BY <2>1, <1>1, <1>2 DEF RunInv, Patching, Owning
  <2>2. CASE q # r
    BY <2>2, <1>1, <1>2 DEF Inv, RunInv
  <2> QED BY <2>1, <2>2
<1>5. OwnerInv'
  BY <1>1, <1>2 DEF Inv, OwnerInv, Owning
<1>6. Unclaimed'
  BY <1>1, <1>2 DEF Inv, Unclaimed
<1>7. ReportsTruthful' /\ OneReportPerOutput'
  BY <1>1 DEF Inv, ReportsTruthful, Truthful, OneReportPerOutput
<1> QED BY <1>3, <1>4, <1>5, <1>6, <1>7 DEF Inv

\* A run that raises leaves every file as it is.
LEMMA FailStep ==
  ASSUME Inv, NEW r \in Runs, Fail(r)
  PROVE  Inv'
  BY IdleStep DEF Fail, Final

\* decode_fragment() of the input: a complete fragment, or a cut-off archive.
LEMMA DecodeStep ==
  ASSUME Inv, NEW r \in Runs, Decode(r)
  PROVE  Inv'
<1>1. PICK c \in Decoding(args[r].input) : incpio' = [incpio EXCEPT ![r] = c]
  BY DEF Decode
<1>2. /\ args' = args /\ fs' = fs /\ outcpio' = outcpio
      /\ pc' = [pc EXCEPT ![r] = "patch"]
  BY DEF Decode, Goto
<1>3. args[r] \in Commands
  BY PatchAssumption DEF Inv, TypeOK, Commands
<1>4. fs[args[r].input] \in Contents
  BY <1>3 DEF Inv, TypeOK, Commands
<1>5. c \in Cpios /\ (fs[args[r].input] = Fragment(c) \/ ~c.whole)
  BY <1>1, <1>4, ContentsForms DEF Decoding
<1>6. /\ incpio' \in [Runs -> Cpios] /\ incpio'[r] = c
      /\ \A q \in Runs : q # r => incpio'[q] = incpio[q]
  BY <1>1, <1>5 DEF Inv, TypeOK
<1>7. /\ pc' \in [Runs -> Steps] /\ pc'[r] = "patch"
      /\ \A q \in Runs : q # r => pc'[q] = pc[q]
  BY <1>2 DEF Inv, TypeOK, Steps
<1>8. TypeOK'
  BY <1>2, <1>6, <1>7 DEF Inv, TypeOK
<1>9. ASSUME NEW q \in Runs PROVE RunInv(q)'
  <2>1. CASE q = r
    BY <2>1, <1>2, <1>5, <1>6, <1>7 DEF RunInv, Patching
  <2>2. CASE q # r
    BY <2>2, <1>2, <1>6, <1>7 DEF Inv, RunInv
  <2> QED BY <2>1, <2>2
<1>10. OwnerInv' /\ Unclaimed'
  BY <1>2, <1>7 DEF Inv, OwnerInv, Unclaimed, Owning
<1>11. ReportsTruthful' /\ OneReportPerOutput'
  BY <1>2 DEF Inv, ReportsTruthful, Truthful, OneReportPerOutput
<1> QED BY <1>8, <1>9, <1>10, <1>11 DEF Inv

\* patch_properties() accepts only an archive that parse_newc() accepts.
LEMMA PatchStep ==
  ASSUME Inv, NEW r \in Runs, Patch(r)
  PROVE  Inv'
<1>1. CASE ~PatchOK(incpio[r])
  BY <1>1, FailStep DEF Patch
<1>2. CASE PatchOK(incpio[r])
  <2>1. /\ args' = args /\ fs' = fs /\ incpio' = incpio
        /\ outcpio' = [outcpio EXCEPT ![r] = Patched(incpio[r])]
        /\ pc' = [pc EXCEPT ![r] = "create"] /\ pc[r] = "patch"
    BY <1>2 DEF Patch, Goto
  <2>2. Patched(incpio[r]) \in Cpios
    BY <1>2, PatchAssumption DEF Inv, TypeOK
  <2>3. /\ outcpio' \in [Runs -> Cpios] /\ outcpio'[r] = Patched(incpio[r])
        /\ \A q \in Runs : q # r => outcpio'[q] = outcpio[q]
    BY <2>1, <2>2 DEF Inv, TypeOK
  <2>4. /\ pc' \in [Runs -> Steps] /\ pc'[r] = "create"
        /\ \A q \in Runs : q # r => pc'[q] = pc[q]
    BY <2>1 DEF Inv, TypeOK, Steps
  <2>5. fs[args[r].input] = Fragment(incpio[r])
    BY <1>2, <2>1 DEF Inv, RunInv, PatchOK
  <2>6. TypeOK'
    BY <2>1, <2>3, <2>4 DEF Inv, TypeOK
  <2>7. ASSUME NEW q \in Runs PROVE RunInv(q)'
    <3>1. CASE q = r
      BY <3>1, <1>2, <2>1, <2>3, <2>4, <2>5 DEF RunInv
    <3>2. CASE q # r
      BY <3>2, <2>1, <2>3, <2>4 DEF Inv, RunInv
    <3> QED BY <3>1, <3>2
  <2>8. OwnerInv' /\ Unclaimed'
    BY <2>1, <2>4 DEF Inv, OwnerInv, Unclaimed, Owning
  <2>9. ReportsTruthful' /\ OneReportPerOutput'
    BY <2>1 DEF Inv, ReportsTruthful, Truthful, OneReportPerOutput
  <2> QED BY <2>6, <2>7, <2>8, <2>9 DEF Inv
<1> QED BY <1>1, <1>2

(***************************************************************************)
(* Run r writes to file f, which is not complete and on which no other run *)
(* relies: the other runs and the reports do not notice.                   *)
(***************************************************************************)
LEMMA WriteIsLocal ==
  ASSUME Inv, NEW r \in Runs, NEW f \in Paths, NEW x \in Contents, ~Complete(fs[f]),
         fs' = [fs EXCEPT ![f] = x],
         args' = args, incpio' = incpio, outcpio' = outcpio,
         \A q \in Runs : q # r => pc'[q] = pc[q],
         \A q \in Runs : q # r =>
            /\ pc[q] \in {"compress", "recheck"} => args[q].output # f
            /\ pc[q] = "dump" => args[q].report # f
  PROVE  /\ fs' \in [Paths -> Contents] /\ fs'[f] = x
         /\ \A g \in Paths : g # f => fs'[g] = fs[g]
         /\ \A g \in Paths : Complete(fs[g]) => fs'[g] = fs[g]
         /\ \A q \in Runs : q # r => RunInv(q)'
         /\ \A g \in Paths : fs[g].kind = "report" => Truthful(fs[g].of)'
<1>1. fs \in [Paths -> Contents] /\ args' = args /\ incpio' = incpio /\ outcpio' = outcpio
  BY DEF Inv, TypeOK
<1>2. fs' \in [Paths -> Contents] /\ fs'[f] = x /\ \A g \in Paths : g # f => fs'[g] = fs[g]
  BY <1>1
<1>3. \A g \in Paths : Complete(fs[g]) => fs'[g] = fs[g]
  BY <1>2
<1>4. \A q \in Runs : args[q].input \in Paths /\ args[q].output \in Paths /\ args[q].report \in Paths
  BY PatchAssumption DEF Inv, TypeOK, Commands
<1>5. \A g \in Paths, c \in Cpios : fs[g] = Fragment(c) => fs'[g] = Fragment(c)
  BY <1>3, Kinds DEF Complete
<1>6. ASSUME NEW q \in Runs, q # r PROVE RunInv(q)'
  <2>1. /\ pc'[q] = pc[q] /\ RunInv(q)
        /\ incpio[q] \in Cpios /\ outcpio[q] \in Cpios
    BY <1>6 DEF Inv, TypeOK
  <2>2. pc[q] \in {"compress", "recheck"} => fs'[args[q].output] = fs[args[q].output]
    BY <1>2, <1>4, <1>6
  <2>3. pc[q] = "dump" => fs'[args[q].report] = fs[args[q].report]
    BY <1>2, <1>4, <1>6
  <2> QED BY <1>1, <1>4, <1>5, <2>1, <2>2, <2>3 DEF RunInv
<1>7. ASSUME NEW g \in Paths, fs[g].kind = "report" PROVE Truthful(fs[g].of)'
  <2>1. Truthful(fs[g].of)
    BY <1>7 DEF Inv, ReportsTruthful
  <2>2. fs[g].of \in Reports
    BY <1>1, <1>7, ContentsForms
  <2>3. fs'[g] = fs[g]
    BY <1>3, <1>7 DEF Complete
  <2> QED BY <1>5, <2>1, <2>2, <2>3 DEF Truthful, Reports
<1> QED BY <1>2, <1>3, <1>6, <1>7

\* The files a run works on are the ones its command line names.
LEMMA ArgsInPaths ==
  ASSUME Inv, NEW r \in Runs
  PROVE  args[r].input \in Paths /\ args[r].output \in Paths /\ args[r].report \in Paths
  BY PatchAssumption DEF Inv, TypeOK, Commands

\* open(output, "xb") on a path that does not exist.
LEMMA CreateStep ==
  ASSUME Inv, NEW r \in Runs, Create(r)
  PROVE  Inv' /\ \A g \in Paths : Complete(fs[g]) => fs'[g] = fs[g]
<1>1. CASE Exists(args[r].output)
  <2>1. Fail(r)
    BY <1>1 DEF Create
  <2> QED BY <2>1, FailStep DEF Fail
<1>2. CASE ~Exists(args[r].output)
  <2> DEFINE f == args[r].output
  <2>1. /\ args' = args /\ incpio' = incpio /\ outcpio' = outcpio
        /\ fs' = [fs EXCEPT ![f] = Partial]
        /\ pc' = [pc EXCEPT ![r] = "compress"] /\ pc[r] = "create"
    BY <1>2 DEF Create, Goto
  <2>2. f \in Paths /\ fs[f] = Absent /\ Partial \in Contents /\ ~Complete(fs[f])
    BY <1>2, ArgsInPaths, ContentsIntro, Kinds DEF Exists, Complete
  <2>3. /\ pc' \in [Runs -> Steps] /\ pc'[r] = "compress"
        /\ \A q \in Runs : q # r => pc'[q] = pc[q]
    BY <2>1 DEF Inv, TypeOK, Steps
  <2>4. ASSUME NEW q \in Runs
        PROVE  /\ pc[q] \in Owning => args[q].output # f
               /\ pc[q] = "dump" => args[q].report # f
    BY <2>2, Kinds DEF Inv, RunInv, Owning
  <2> HIDE DEF f
  <2>5. /\ fs' \in [Paths -> Contents] /\ fs'[f] = Partial
        /\ \A g \in Paths : g # f => fs'[g] = fs[g]
        /\ \A g \in Paths : Complete(fs[g]) => fs'[g] = fs[g]
        /\ \A q \in Runs : q # r => RunInv(q)'
        /\ \A g \in Paths : fs[g].kind = "report" => Truthful(fs[g].of)'
    <3>1. \A q \in Runs : q # r =>
            /\ pc[q] \in {"compress", "recheck"} => args[q].output # f
            /\ pc[q] = "dump" => args[q].report # f
      BY <2>4 DEF Owning
    <3> QED BY <2>1, <2>2, <2>3, <3>1, WriteIsLocal
  <2>6. \A g \in Paths : fs'[g].kind = "report" => fs[g].kind = "report" /\ fs'[g] = fs[g]
    BY <2>5, Kinds
  <2>7. TypeOK'
    BY <2>1, <2>3, <2>5 DEF Inv, TypeOK
  <2>8. RunInv(r)'
    <3>1. RunInv(r)
      BY DEF Inv
    <3>2. fs[args[r].input] = Fragment(incpio[r])
      BY <2>1, <3>1 DEF RunInv, Patching
    <3>3. fs'[args[r].input] = Fragment(incpio[r])
      BY <3>2, <2>5, ArgsInPaths, Kinds DEF Complete
    <3> QED BY <2>1, <2>3, <2>5, <3>1, <3>3 DEF RunInv, Patching, f
  <2>9. OwnerInv'
    BY <2>1, <2>3, <2>4 DEF Inv, OwnerInv, Owning, f
  <2>10. Unclaimed'
    <3> SUFFICES ASSUME NEW q \in Runs, NEW g \in Paths,
                        pc'[q] \in Owning, fs'[g].kind = "report"
                 PROVE  fs'[g].of.output # args[q].output
      BY <2>1 DEF Unclaimed
    <3>1. fs[g].kind = "report" /\ fs'[g] = fs[g]
      BY <2>6
    <3>2. CASE q # r
      BY <2>3, <3>1, <3>2 DEF Inv, Unclaimed
    <3>3. CASE q = r
      <4>1. Truthful(fs[g].of)
        BY <3>1 DEF Inv, ReportsTruthful
      <4> QED BY <4>1, <3>1, <3>3, <2>2, Kinds DEF Truthful, f
    <3> QED BY <3>2, <3>3
  <2>11. ReportsTruthful'
    BY <2>5, <2>6 DEF ReportsTruthful
  <2>12. OneReportPerOutput'
    BY <2>6 DEF Inv, OneReportPerOutput
  <2> QED BY <2>5, <2>7, <2>8, <2>9, <2>10, <2>11, <2>12 DEF Inv
<1> QED BY <1>1, <1>2

\* lz4 writes into the file its run created.
LEMMA CompressStep ==
  ASSUME Inv, NEW r \in Runs, Compress(r)
  PROVE  Inv' /\ \A g \in Paths : Complete(fs[g]) => fs'[g] = fs[g]
<1> DEFINE f == args[r].output
<1>1. PICK x \in Compressed(r) : fs' = [fs EXCEPT ![f] = x]
  BY DEF Compress
<1>2. /\ args' = args /\ incpio' = incpio /\ outcpio' = outcpio
      /\ pc' = [pc EXCEPT ![r] = "recheck"] /\ pc[r] = "compress"
  BY DEF Compress, Goto
<1>3. x \in Contents /\ x.kind \in {"partial", "lz4"}
  <2>1. outcpio[r] \in Cpios
    BY DEF Inv, TypeOK
  <2>2. x = Partial \/ \E c \in Cpios : x = Fragment(c)
    BY <2>1, PatchAssumption DEF Compressed
  <2> QED BY <2>2, ContentsIntro, Kinds
<1>4. f \in Paths /\ fs[f] = Partial /\ ~Complete(fs[f])
  BY <1>2, ArgsInPaths, Kinds DEF Inv, RunInv, Complete
<1>5. /\ pc' \in [Runs -> Steps] /\ pc'[r] = "recheck"
      /\ \A q \in Runs : q # r => pc'[q] = pc[q]
  BY <1>2 DEF Inv, TypeOK, Steps
<1>6. ASSUME NEW q \in Runs, q # r
      PROVE  /\ pc[q] \in Owning => args[q].output # f
             /\ pc[q] = "dump" => args[q].report # f
  BY <1>2, <1>4, <1>6, Kinds DEF Inv, RunInv, OwnerInv, Owning
<1> HIDE DEF f
<1>7. /\ fs' \in [Paths -> Contents] /\ fs'[f] = x
      /\ \A g \in Paths : g # f => fs'[g] = fs[g]
      /\ \A g \in Paths : Complete(fs[g]) => fs'[g] = fs[g]
      /\ \A q \in Runs : q # r => RunInv(q)'
      /\ \A g \in Paths : fs[g].kind = "report" => Truthful(fs[g].of)'
  <2>1. \A q \in Runs : q # r =>
          /\ pc[q] \in {"compress", "recheck"} => args[q].output # f
          /\ pc[q] = "dump" => args[q].report # f
    BY <1>6 DEF Owning
  <2> QED BY <1>1, <1>2, <1>3, <1>4, <1>5, <2>1, WriteIsLocal
<1>8. \A g \in Paths : fs'[g].kind = "report" => fs[g].kind = "report" /\ fs'[g] = fs[g]
  BY <1>3, <1>7
<1>9. TypeOK'
  BY <1>2, <1>5, <1>7 DEF Inv, TypeOK
<1>10. RunInv(r)'
  <2>1. RunInv(r)
    BY DEF Inv
  <2>2. fs[args[r].input] = Fragment(incpio[r])
    BY <1>2, <2>1 DEF RunInv, Patching
  <2>3. fs'[args[r].input] = Fragment(incpio[r])
    BY <2>2, <1>7, ArgsInPaths, Kinds DEF Complete
  <2> QED BY <1>2, <1>3, <1>5, <1>7, <2>1, <2>3 DEF RunInv, Patching, f
<1>11. OwnerInv' /\ Unclaimed'
  BY <1>2, <1>5, <1>8 DEF Inv, OwnerInv, Unclaimed, Owning
<1>12. ReportsTruthful' /\ OneReportPerOutput'
  BY <1>7, <1>8 DEF Inv, ReportsTruthful, OneReportPerOutput
<1> QED BY <1>7, <1>9, <1>10, <1>11, <1>12 DEF Inv

\* The output decodes to what patch_properties() returned.
LEMMA RecheckStep ==
  ASSUME Inv, NEW r \in Runs, Recheck(r)
  PROVE  Inv'
<1>1. CASE outcpio[r] \notin Decoding(args[r].output)
  BY <1>1, FailStep DEF Recheck
<1>2. CASE outcpio[r] \in Decoding(args[r].output)
  <2>1. /\ args' = args /\ fs' = fs /\ incpio' = incpio /\ outcpio' = outcpio
        /\ pc' = [pc EXCEPT ![r] = "open_report"] /\ pc[r] = "recheck"
    BY <1>2 DEF Recheck, Goto
  <2>2. /\ pc' \in [Runs -> Steps] /\ pc'[r] = "open_report"
        /\ \A q \in Runs : q # r => pc'[q] = pc[q]
    BY <2>1 DEF Inv, TypeOK, Steps
  <2>3. RunInv(r)
    BY DEF Inv
  <2>4. outcpio[r].whole
    <3>1. incpio[r] \in Cpios /\ incpio[r].whole /\ outcpio[r] = Patched(incpio[r])
      BY <2>1, <2>3 DEF Inv, TypeOK, RunInv, Patching, PatchOK
    <3> QED BY <3>1, PatchedWhole
  <2>5. fs[args[r].output] = Fragment(outcpio[r])
    <3>1. fs[args[r].output] \in Contents
      BY ArgsInPaths DEF Inv, TypeOK
    <3>2. fs[args[r].output].kind = "lz4" /\ fs[args[r].output].cpio = outcpio[r]
      BY <1>2, <2>4, Kinds DEF Decoding
    <3> QED BY <3>1, <3>2, ContentsForms
  <2>6. TypeOK'
    BY <2>1, <2>2 DEF Inv, TypeOK
  <2>7. ASSUME NEW q \in Runs PROVE RunInv(q)'
    <3>1. CASE q = r
      BY <3>1, <2>1, <2>2, <2>3, <2>5 DEF RunInv, Patching
    <3>2. CASE q # r
      BY <3>2, <2>1, <2>2 DEF Inv, RunInv
    <3> QED BY <3>1, <3>2
  <2>8. OwnerInv' /\ Unclaimed'
    BY <2>1, <2>2 DEF Inv, OwnerInv, Unclaimed, Owning
  <2>9. ReportsTruthful' /\ OneReportPerOutput'
    BY <2>1 DEF Inv, ReportsTruthful, Truthful, OneReportPerOutput
  <2> QED BY <2>6, <2>7, <2>8, <2>9 DEF Inv
<1> QED BY <1>1, <1>2

\* open(report, "x") on a path that does not exist.
LEMMA OpenReportStep ==
  ASSUME Inv, NEW r \in Runs, OpenReport(r)
  PROVE  Inv' /\ \A g \in Paths : Complete(fs[g]) => fs'[g] = fs[g]
<1>1. CASE Exists(args[r].report)
  <2>1. Fail(r)
    BY <1>1 DEF OpenReport
  <2> QED BY <2>1, FailStep DEF Fail
<1>2. CASE ~Exists(args[r].report)
  <2> DEFINE f == args[r].report
  <2>1. /\ args' = args /\ incpio' = incpio /\ outcpio' = outcpio
        /\ fs' = [fs EXCEPT ![f] = PartialReport]
        /\ pc' = [pc EXCEPT ![r] = "dump"] /\ pc[r] = "open_report"
    BY <1>2 DEF OpenReport, Goto
  <2>2. f \in Paths /\ fs[f] = Absent /\ PartialReport \in Contents /\ ~Complete(fs[f])
    BY <1>2, ArgsInPaths, ContentsIntro, Kinds DEF Exists, Complete
  <2>3. /\ pc' \in [Runs -> Steps] /\ pc'[r] = "dump"
        /\ \A q \in Runs : q # r => pc'[q] = pc[q]
    BY <2>1 DEF Inv, TypeOK, Steps
  <2>4. ASSUME NEW q \in Runs
        PROVE  /\ pc[q] \in Owning => args[q].output # f
               /\ pc[q] = "dump" => args[q].report # f
    BY <2>2, Kinds DEF Inv, RunInv, Owning
  <2> HIDE DEF f
  <2>5. /\ fs' \in [Paths -> Contents] /\ fs'[f] = PartialReport
        /\ \A g \in Paths : g # f => fs'[g] = fs[g]
        /\ \A g \in Paths : Complete(fs[g]) => fs'[g] = fs[g]
        /\ \A q \in Runs : q # r => RunInv(q)'
        /\ \A g \in Paths : fs[g].kind = "report" => Truthful(fs[g].of)'
    <3>1. \A q \in Runs : q # r =>
            /\ pc[q] \in {"compress", "recheck"} => args[q].output # f
            /\ pc[q] = "dump" => args[q].report # f
      BY <2>4 DEF Owning
    <3> QED BY <2>1, <2>2, <2>3, <3>1, WriteIsLocal
  <2>6. \A g \in Paths : fs'[g].kind = "report" => fs[g].kind = "report" /\ fs'[g] = fs[g]
    BY <2>5, Kinds
  <2>7. TypeOK'
    BY <2>1, <2>3, <2>5 DEF Inv, TypeOK
  <2>8. RunInv(r)'
    <3>1. RunInv(r)
      BY DEF Inv
    <3>2. /\ fs[args[r].input] = Fragment(incpio[r])
          /\ fs[args[r].output] = Fragment(outcpio[r])
      BY <2>1, <3>1 DEF RunInv, Patching
    <3>3. /\ fs'[args[r].input] = Fragment(incpio[r])
          /\ fs'[args[r].output] = Fragment(outcpio[r])
      BY <3>2, <2>5, ArgsInPaths, Kinds DEF Complete
    <3> QED BY <2>1, <2>3, <2>5, <3>1, <3>3 DEF RunInv, Patching, f
  <2>9. OwnerInv'
    <3>1. pc[r] \in Owning /\ pc'[r] \in Owning
      BY <2>1, <2>3 DEF Owning
    <3> QED BY <3>1, <2>1, <2>3, <2>4 DEF Inv, OwnerInv, f
  <2>10. Unclaimed'
    BY <2>1, <2>3, <2>6 DEF Inv, Unclaimed, Owning
  <2>11. ReportsTruthful' /\ OneReportPerOutput'
    BY <2>5, <2>6 DEF Inv, ReportsTruthful, OneReportPerOutput
  <2> QED BY <2>5, <2>7, <2>8, <2>9, <2>10, <2>11 DEF Inv
<1> QED BY <1>1, <1>2

\* The report is published.
LEMMA DumpReportStep ==
  ASSUME Inv, NEW r \in Runs, DumpReport(r)
  PROVE  Inv' /\ \A g \in Paths : Complete(fs[g]) => fs'[g] = fs[g]
<1> DEFINE f == args[r].report
           t == ReportOf(r)
<1>1. /\ args' = args /\ incpio' = incpio /\ outcpio' = outcpio
      /\ fs' = [fs EXCEPT ![f] = Report(t)]
      /\ pc' = [pc EXCEPT ![r] = "done"] /\ pc[r] = "dump"
  BY DEF DumpReport, Goto
<1>2. /\ t \in Reports /\ t.input = args[r].input /\ t.output = args[r].output
      /\ t.input_cpio = incpio[r] /\ t.output_cpio = outcpio[r]
  BY ArgsInPaths DEF ReportOf, Reports, Inv, TypeOK
<1>3. RunInv(r)
  BY DEF Inv
<1>4. f \in Paths /\ fs[f] = PartialReport /\ Report(t) \in Contents /\ ~Complete(fs[f])
  BY <1>1, <1>2, <1>3, ArgsInPaths, ContentsIntro, Kinds DEF RunInv, Complete
<1>5. /\ pc' \in [Runs -> Steps] /\ pc'[r] = "done"
      /\ \A q \in Runs : q # r => pc'[q] = pc[q]
  BY <1>1 DEF Inv, TypeOK, Steps, Final
<1>6. ASSUME NEW q \in Runs, q # r
      PROVE  /\ pc[q] \in Owning => args[q].output # f
             /\ pc[q] = "dump" => args[q].report # f
  BY <1>1, <1>4, <1>6, Kinds DEF Inv, RunInv, OwnerInv, Owning
<1> HIDE DEF f, t
<1>7. /\ fs' \in [Paths -> Contents] /\ fs'[f] = Report(t)
      /\ \A g \in Paths : g # f => fs'[g] = fs[g]
      /\ \A g \in Paths : Complete(fs[g]) => fs'[g] = fs[g]
      /\ \A q \in Runs : q # r => RunInv(q)'
      /\ \A g \in Paths : fs[g].kind = "report" => Truthful(fs[g].of)'
  <2>1. \A q \in Runs : q # r =>
          /\ pc[q] \in {"compress", "recheck"} => args[q].output # f
          /\ pc[q] = "dump" => args[q].report # f
    BY <1>6 DEF Owning
  <2> QED BY <1>1, <1>4, <1>5, <2>1, WriteIsLocal
<1>8. \A g \in Paths : fs'[g].kind = "report" =>
         \/ g = f /\ fs'[g].of = t
         \/ g # f /\ fs[g].kind = "report" /\ fs'[g] = fs[g]
  BY <1>7, Kinds
<1>9. TypeOK'
  BY <1>1, <1>5, <1>7 DEF Inv, TypeOK
<1>10. RunInv(r)'
  BY <1>5 DEF RunInv, Patching
<1>11. OwnerInv'
  BY <1>1, <1>5 DEF Inv, OwnerInv, Owning
<1>12. pc[r] \in Owning /\ pc'[r] \notin Owning
  BY <1>1, <1>5 DEF Owning
<1>13. Unclaimed'
  <2> SUFFICES ASSUME NEW q \in Runs, NEW g \in Paths,
                      pc'[q] \in Owning, fs'[g].kind = "report"
               PROVE  fs'[g].of.output # args[q].output
    BY <1>1 DEF Unclaimed
  <2>1. q # r /\ pc[q] \in Owning
    BY <1>5, <1>12
  <2>2. CASE g = f
    BY <2>1, <2>2, <1>2, <1>8, <1>12 DEF Inv, OwnerInv
  <2>3. CASE g # f
    BY <2>1, <2>3, <1>8 DEF Inv, Unclaimed
  <2> QED BY <2>2, <2>3
<1>14. Truthful(t)'
  <2>1. /\ fs[args[r].input] = Fragment(incpio[r])
        /\ fs[args[r].output] = Fragment(outcpio[r])
        /\ PatchOK(incpio[r]) /\ outcpio[r] = Patched(incpio[r])
    BY <1>1, <1>3 DEF RunInv, Patching
  <2>2. /\ fs'[args[r].input] = Fragment(incpio[r])
        /\ fs'[args[r].output] = Fragment(outcpio[r])
    BY <2>1, <1>7, ArgsInPaths, Kinds DEF Complete
  <2>3. t' = t
    BY <1>1 DEF t, ReportOf
  <2> QED BY <2>1, <2>2, <2>3, <1>2 DEF Truthful
<1>15. ReportsTruthful'
  <2>1. t' = t
    BY <1>1 DEF t, ReportOf
  <2> QED BY <2>1, <1>7, <1>8, <1>14 DEF ReportsTruthful, Truthful
<1>16. OneReportPerOutput'
  <2> SUFFICES ASSUME NEW g \in Paths, NEW k \in Paths, g # k,
                      fs'[g].kind = "report", fs'[k].kind = "report"
               PROVE  fs'[g].of.output # fs'[k].of.output
    BY DEF OneReportPerOutput
  <2>1. \A m \in Paths : fs[m].kind = "report" => fs[m].of.output # args[r].output
    BY <1>12 DEF Inv, Unclaimed
  <2>2. CASE g = f
    BY <2>1, <2>2, <1>2, <1>8
  <2>3. CASE k = f
    BY <2>1, <2>3, <1>2, <1>8
  <2>4. CASE g # f /\ k # f
    BY <2>4, <1>8 DEF Inv, OneReportPerOutput
  <2> QED BY <2>2, <2>3, <2>4
<1> QED BY <1>7, <1>9, <1>10, <1>11, <1>13, <1>15, <1>16 DEF Inv

-----------------------------------------------------------------------------
\* Every step of every run, and a kill anywhere, keeps the invariant.
LEMMA NextStep ==
  ASSUME Inv, [Next]_vars
  PROVE  Inv' /\ \A g \in Paths : Complete(fs[g]) => fs'[g] = fs[g]
<1>1. ASSUME NEW r \in Runs, CheckPaths(r) \/ DecodeFails(r) \/ CompressFails(r) \/ Kill(r)
      PROVE  Inv' /\ fs' = fs
  <2>1. \E step \in Final \cup {"decode"} :
           Goto(r, step) /\ UNCHANGED <<args, fs, incpio, outcpio>>
    BY <1>1 DEF CheckPaths, DecodeFails, CompressFails, Kill, Fail, Final
  <2> QED BY <2>1, IdleStep
<1>2. ASSUME NEW r \in Runs, Decode(r) \/ Patch(r) \/ Recheck(r)
      PROVE  Inv' /\ fs' = fs
  BY <1>2, DecodeStep, PatchStep, RecheckStep DEF Decode, Patch, Recheck, Fail
<1>3. ASSUME NEW r \in Runs, Create(r) \/ Compress(r) \/ OpenReport(r) \/ DumpReport(r)
      PROVE  Inv' /\ \A g \in Paths : Complete(fs[g]) => fs'[g] = fs[g]
  BY <1>3, CreateStep, CompressStep, OpenReportStep, DumpReportStep
<1>4. CASE UNCHANGED vars
  BY <1>4 DEF vars, Inv, TypeOK, RunInv, OwnerInv, Unclaimed, ReportsTruthful, Truthful,
              OneReportPerOutput
<1> QED BY <1>1, <1>2, <1>3, <1>4 DEF Next, Step, AllEnded

\* The inductive invariant holds in every reachable state.
LEMMA InvAlways == Spec => []Inv
<1>1. Inv /\ [Next]_vars => Inv'
  BY NextStep
<1> QED BY InitInv, <1>1, PTL DEF Spec

\* Every file, archive and program counter keeps its type.
THEOREM TypeCorrect == Spec => []TypeOK
<1>1. Inv => TypeOK
  BY DEF Inv
<1> QED BY InvAlways, <1>1, PTL

(***************************************************************************)
(* A published report is true of the files on disk, for any number of runs *)
(* that share paths, are killed, or use an lz4 that writes anything.       *)
(***************************************************************************)
THEOREM ReportsAreTruthful == Spec => []ReportsTruthful
<1>1. Inv => ReportsTruthful
  BY DEF Inv
<1> QED BY InvAlways, <1>1, PTL

\* No output fragment is claimed by two reports.
THEOREM OutputsAreClaimedOnce == Spec => []OneReportPerOutput
<1>1. Inv => OneReportPerOutput
  BY DEF Inv
<1> QED BY InvAlways, <1>1, PTL

\* The input of a reported run is not the output of another one.
LEMMA PatchedOnce == Inv => NotPatchedTwice
<1> SUFFICES ASSUME Inv, NEW f \in Paths, NEW g \in Paths,
                    fs[f].kind = "report", fs[g].kind = "report",
                    fs[f].of.output = fs[g].of.input
             PROVE  FALSE
  BY DEF NotPatchedTwice
<1> DEFINE a == fs[f].of
           b == fs[g].of
<1>1. Truthful(a) /\ Truthful(b)
  BY DEF Inv, ReportsTruthful
<1>2. a \in Reports
  BY ContentsForms DEF Inv, TypeOK
<1> HIDE DEF a, b
<1>3. Fragment(a.output_cpio) = Fragment(b.input_cpio)
  BY <1>1 DEF Truthful, a, b
<1>4. b.input_cpio = Patched(a.input_cpio)
  BY <1>1, <1>3, Kinds DEF Truthful
<1>5. a.input_cpio \in Cpios /\ PatchOK(a.input_cpio) /\ PatchOK(b.input_cpio)
  BY <1>1, <1>2 DEF Truthful, Reports
<1> QED BY <1>4, <1>5, PatchedIsRefused

\* No reported run worked on the output of another reported run.
THEOREM NeverPatchedTwice == Spec => []NotPatchedTwice
  BY PatchedOnce, InvAlways, PTL

\* A complete fragment or report is never changed.
THEOREM CompleteFilesStay == Spec => NeverOverwrites
<1> DEFINE Keeps == \A f \in Paths : Complete(fs[f]) => fs'[f] = fs[f]
<1>1. Inv /\ [Next]_vars => [Keeps]_vars
  BY NextStep
<1> QED BY InvAlways, <1>1, PTL DEF Spec, NeverOverwrites

-----------------------------------------------------------------------------
(***************************************************************************)
(* What patch_properties() changes.                                        *)
(***************************************************************************)
LEMMA PairCardinality ==
  ASSUME NEW x, NEW y, x # y
  PROVE  Cardinality({x, y}) = 2
<1>1. IsFiniteSet({x}) /\ Cardinality({x}) = 1 /\ {x, y} = {x} \cup {y}
  BY FS_Singleton
<1>2. QED
  BY <1>1, FS_AddElement

\* The patched archive, entry by entry.
LEMMA PatchedEntries ==
  ASSUME NEW c \in Cpios, NEW k \in DOMAIN c.files
  PROVE  /\ c.files[k] \in FileType
         /\ DOMAIN Patched(c).files = DOMAIN c.files
         /\ Patched(c).files[k] =
              IF k \in Targets(c)
              THEN [c.files[k] EXCEPT !.lines = PatchedLines(c.files[k].lines)]
              ELSE c.files[k]
<1>1. c \in CpioType /\ c.files \in Seq(FileType)
  BY PatchAssumption DEF CpioType
<1>2. Patched(c).files = [m \in DOMAIN c.files |->
        IF m \in Targets(c)
        THEN [c.files[m] EXCEPT !.lines = PatchedLines(c.files[m].lines)]
        ELSE c.files[m]]
  BY <1>1 DEF Patched, CpioType
<1>3. QED
  BY <1>1, <1>2

\* Names, kinds and numbers of lines stay.
LEMMA PatchKeepsShape ==
  ASSUME NEW c \in Cpios, NEW k \in DOMAIN c.files
  PROVE  LET old == c.files[k]
             new == Patched(c).files[k]
         IN  /\ new.path = old.path /\ new.reg = old.reg
             /\ Len(new.lines) = Len(old.lines)
             /\ new.lines = IF k \in Targets(c) THEN PatchedLines(old.lines) ELSE old.lines
<1> DEFINE old == c.files[k]
           new == Patched(c).files[k]
<1>1. old \in FileType /\ new = IF k \in Targets(c) THEN [old EXCEPT !.lines = PatchedLines(old.lines)] ELSE old
  BY PatchedEntries
<1> HIDE DEF old, new
<1>2. old.lines \in Seq(STRING) /\ old.path \in STRING
  BY <1>1 DEF FileType
<1>3. Len(PatchedLines(old.lines)) = Len(old.lines)
  <2> DEFINE lines == old.lines
             texts == STRING \cup NewLines
  <2>1. lines \in Seq(STRING) /\ DOMAIN lines = 1..Len(lines) /\ Len(lines) \in Nat
    BY <1>2
  <2> HIDE DEF lines
  <2>2. \A i \in DOMAIN lines : (IF lines[i] \in OldLines THEN NewLine(lines[i]) ELSE lines[i]) \in texts
    BY <2>1 DEF NewLines
  <2>3. PatchedLines(lines) = [i \in 1..Len(lines) |-> IF lines[i] \in OldLines THEN NewLine(lines[i]) ELSE lines[i]]
    BY <2>1 DEF PatchedLines
  <2> HIDE DEF texts
  <2>4. PatchedLines(lines) \in Seq(texts) /\ Len(PatchedLines(lines)) = Len(lines)
    BY <2>1, <2>2, <2>3
  <2>5. QED
    BY <2>4 DEF lines
<1>4. QED
  BY <1>1, <1>2, <1>3 DEF FileType, old, new

\* A line is changed exactly if it is one of the two old ones.
LEMMA PatchedLineDiffers ==
  ASSUME NEW lines \in Seq(STRING), NEW i \in DOMAIN lines
  PROVE  lines[i] # PatchedLines(lines)[i] <=> lines[i] \in OldLines
BY DEF PatchedLines, NewLine, OldLines

LEMMA PatchChangesTwoLines ==
  ASSUME NEW c \in Cpios, PatchOK(c)
  PROVE  /\ Cardinality(ChangedLines(c, Patched(c))) = 2
         /\ \A x \in ChangedLines(c, Patched(c)) : c.files[x[1]].path = "prop.default"
<1> DEFINE d == Patched(c)
           differ(k) == {j \in DOMAIN c.files[k].lines : c.files[k].lines[j] # d.files[k].lines[j]}
<1>1. PICK k \in Targets(c) : \A m \in Targets(c) : m = k
  BY DEF PatchOK, ExactlyOne
<1>2. /\ k \in DOMAIN c.files /\ c.files[k].path = "prop.default"
      /\ LinesOK(c.files[k].lines)
  BY <1>1 DEF PatchOK, Targets
<1> DEFINE lines == c.files[k].lines
<1>3. lines \in Seq(STRING)
  BY <1>2, PatchedEntries DEF FileType
<1>4. PICK i \in Hits(lines, "ro.secure=1") : \A m \in Hits(lines, "ro.secure=1") : m = i
  BY <1>2 DEF LinesOK, OldLines, ExactlyOne
<1>5. PICK j \in Hits(lines, "ro.debuggable=0") : \A m \in Hits(lines, "ro.debuggable=0") : m = j
  BY <1>2 DEF LinesOK, OldLines, ExactlyOne
<1>6. differ(k) = {i, j} /\ i # j
  <2>1. \A m \in DOMAIN lines : m \in differ(k) <=> lines[m] \in OldLines
    <3>1. d.files[k].lines = PatchedLines(lines)
      BY <1>1, <1>2, PatchKeepsShape
    <3>2. QED
      BY <1>3, <3>1, PatchedLineDiffers
  <2>2. i \in DOMAIN lines /\ j \in DOMAIN lines /\ lines[i] = "ro.secure=1" /\ lines[j] = "ro.debuggable=0"
    BY <1>4, <1>5 DEF Hits
  <2>3. \A m \in DOMAIN lines : lines[m] \in OldLines <=> m \in {i, j}
    BY <1>4, <1>5, <2>2 DEF Hits, OldLines
  <2>4. differ(k) \subseteq DOMAIN lines
    OBVIOUS
  <2> HIDE DEF differ, lines
  <2>5. QED
    BY <2>1, <2>2, <2>3, <2>4
<1>7. ASSUME NEW m \in DOMAIN c.files, m # k PROVE differ(m) = {}
  <2>1. m \notin Targets(c)
    BY <1>1, <1>7
  <2>2. d.files[m].lines = c.files[m].lines
    BY <2>1, PatchKeepsShape
  <2>3. QED
    BY <2>2
<1>8. ChangedLines(c, d) = {<<k, i>>, <<k, j>>}
  <2>1. ChangedLines(c, d) = UNION {{<<m, n>> : n \in differ(m)} : m \in DOMAIN c.files}
    BY DEF ChangedLines
  <2> HIDE DEF differ, d
  <2>2. \A x \in ChangedLines(c, d) : x \in {<<k, i>>, <<k, j>>}
    BY <1>6, <1>7, <2>1
  <2>3. <<k, i>> \in ChangedLines(c, d) /\ <<k, j>> \in ChangedLines(c, d)
    BY <1>2, <1>6, <2>1
  <2>4. QED
    BY <2>2, <2>3
<1>9. Cardinality(ChangedLines(c, d)) = 2
  <2>1. <<k, i>> # <<k, j>>
    BY <1>6
  <2>2. Cardinality({<<k, i>>, <<k, j>>}) = 2
    BY <2>1, PairCardinality
  <2>3. QED
    BY <1>8, <2>2
<1>10. \A x \in ChangedLines(c, d) : c.files[x[1]].path = "prop.default"
  BY <1>2, <1>8
<1>11. QED
  BY <1>9, <1>10

(***************************************************************************)
(* For every archive and any number of runs: between the two archives that *)
(* a report names, two lines of prop.default differ and nothing else       *)
(* (patch_properties and the report's `preservation`).                     *)
(***************************************************************************)
THEOREM RestIsPreserved == Spec => []PreservesRest
<1>1. Inv => PreservesRest
  <2> SUFFICES ASSUME Inv, NEW f \in Paths, fs[f].kind = "report"
               PROVE  LET c == fs[f].of.input_cpio
                          d == fs[f].of.output_cpio
                      IN  /\ DOMAIN d.files = DOMAIN c.files
                          /\ \A k \in DOMAIN c.files :
                                /\ d.files[k].path = c.files[k].path
                                /\ d.files[k].reg = c.files[k].reg
                                /\ Len(d.files[k].lines) = Len(c.files[k].lines)
                          /\ Cardinality(ChangedLines(c, d)) = 2
                          /\ \A x \in ChangedLines(c, d) : c.files[x[1]].path = "prop.default"
    BY DEF PreservesRest
  <2> DEFINE c == fs[f].of.input_cpio
             d == fs[f].of.output_cpio
  <2>1. c \in Cpios /\ PatchOK(c) /\ d = Patched(c)
    <3>1. fs[f].of \in Reports
      BY ContentsForms DEF Inv, TypeOK
    <3>2. QED
      BY <3>1 DEF Inv, ReportsTruthful, Truthful, Reports
  <2> HIDE DEF c, d
  <2>2. DOMAIN d.files = DOMAIN c.files
    <3>1. c \in CpioType
      BY <2>1, PatchAssumption
    <3>2. QED
      BY <2>1, <3>1 DEF Patched, CpioType
  <2>3. QED
    BY <2>1, <2>2, PatchKeepsShape, PatchChangesTwoLines, SMTT(30) DEF c, d
<1>2. QED
  BY InvAlways, <1>1, PTL

-----------------------------------------------------------------------------
(***************************************************************************)
(* The runs implement Publication.                                         *)
(***************************************************************************)
\* What is seen of a file: nothing, a draft, or the finished file itself.
LEMMA ShelfOf ==
  ASSUME Inv
  PROVE  /\ DOMAIN Shelf = Paths
         /\ \A f \in Paths :
              /\ fs[f] = Absent => Shelf[f] = Outside!Nothing
              /\ fs[f] \in {Partial, PartialReport} => Shelf[f] = Outside!Draft
              /\ Complete(fs[f]) => Shelf[f] = fs[f]
              /\ Shelf[f].kind = "report" => Complete(fs[f])
BY Kinds DEF Shelf, Outside!Nothing, Outside!Draft, Complete, Absent, Partial, PartialReport

\* A step that changes one file changes what is seen of that file only.
LEMMA ShelfStep ==
  ASSUME Inv, NEW f \in Paths, NEW x, fs' = [fs EXCEPT ![f] = x]
  PROVE  Shelf' = [Shelf EXCEPT ![f] = IF x \in {Partial, PartialReport} THEN Outside!Draft ELSE x]
<1>1. fs \in [Paths -> Contents]
  BY DEF Inv, TypeOK
<1>2. Partial' = Partial /\ PartialReport' = PartialReport
  BY DEF Partial, PartialReport
<1> QED BY <1>1, <1>2 DEF Shelf, Outside!Draft

\* Before the runs there are complete fragments and nothing else.
LEMMA InitPublication == Init => Outside!Init
<1> SUFFICES ASSUME Init PROVE Outside!Init
  OBVIOUS
<1>1. \A f \in Paths : fs[f] = Absent \/ \E c \in Cpios : fs[f] = Fragment(c)
  BY PatchAssumption DEF Init, InitFrom
<1>2. \A f \in Paths : fs[f] \notin {Partial, PartialReport}
  BY <1>1, Kinds
<1>3. \A f \in Paths : fs[f] \in {Outside!Nothing} \cup {Outside!Fragment(c) : c \in Cpios}
  BY <1>1 DEF Absent, Fragment, Outside!Nothing, Outside!Fragment
<1> QED BY <1>2, <1>3 DEF Outside!Init, Shelf

\* open() with "x" begins a file that was not there.
LEMMA BeginStep ==
  ASSUME Inv, NEW f \in Paths, fs[f] = Absent,
         NEW x \in {Partial, PartialReport}, fs' = [fs EXCEPT ![f] = x]
  PROVE  Outside!Next
<1>1. Shelf[f] = Outside!Nothing /\ Shelf' = [Shelf EXCEPT ![f] = Outside!Draft]
  BY ShelfOf, ShelfStep
<1> QED BY <1>1 DEF Outside!Next, Outside!Begin

\* lz4 finishes the output, with whatever it wrote, or leaves it unfinished.
LEMMA CompressPublishes ==
  ASSUME Inv, NEW r \in Runs, Compress(r)
  PROVE  [Outside!Next]_Shelf
<1> DEFINE f == args[r].output
<1>1. PICK x \in Compressed(r) : fs' = [fs EXCEPT ![f] = x]
  BY DEF Compress
<1>2. f \in Paths /\ fs[f] = Partial
  BY ArgsInPaths DEF Inv, RunInv, Compress
<1> HIDE DEF f
<1>3. Shelf[f] = Outside!Draft /\ DOMAIN Shelf = Paths
  BY <1>2, ShelfOf
<1>4. CASE x = Partial
  <2>1. Shelf' = [Shelf EXCEPT ![f] = Outside!Draft]
    BY <1>1, <1>2, <1>4, ShelfStep
  <2>2. Shelf' = Shelf
    BY <2>1, <1>3 DEF Shelf
  <2> QED BY <2>2
<1>5. ASSUME NEW c \in Cpios, x = Fragment(c) PROVE Outside!Next
  <2>1. x \notin {Partial, PartialReport}
    BY <1>5, Kinds
  <2>2. Shelf' = [Shelf EXCEPT ![f] = Outside!Fragment(c)]
    BY <1>1, <1>2, <1>5, <2>1, ShelfStep DEF Fragment, Outside!Fragment
  <2>3. Shelf'[f] = Outside!Fragment(c)
    BY <1>2, <1>3, <2>2
  <2>4. Shelf'[f].kind = "lz4" /\ Shelf'[f].cpio = c
    BY <2>3 DEF Outside!Fragment
  <2> QED BY <1>2, <1>3, <1>5, <2>2, <2>4 DEF Outside!Next, Outside!FinishFragment
<1>6. x = Partial \/ \E c \in Cpios : x = Fragment(c)
  BY <1>1, PatchAssumption DEF Compressed, Inv, TypeOK
<1> QED BY <1>4, <1>5, <1>6

\* Publication and the runs mean the same by patching an archive.
LEMMA SameArchives ==
  ASSUME NEW c
  PROVE  (PatchOK(c) <=> Outside!PatchOK(c)) /\ Outside!Patched(c) = Patched(c)
<1>1. Outside!Targets(c) = Targets(c)
  BY DEF Targets, Outside!Targets
<1>2. OldLines = Outside!OldLines /\ \A old : NewLine(old) = Outside!NewLine(old)
  BY DEF OldLines, Outside!OldLines, NewLine, Outside!NewLine
<1>3. \A lines : PatchedLines(lines) = Outside!PatchedLines(lines)
  BY <1>2 DEF PatchedLines, Outside!PatchedLines
<1>4. \A lines : LinesOK(lines) <=> Outside!LinesOK(lines)
  <2>1. \A lines, wanted : Hits(lines, wanted) = Outside!Hits(lines, wanted)
    BY DEF Hits, Outside!Hits
  <2>2. \A S : ExactlyOne(S) <=> Outside!ExactlyOne(S)
    BY DEF ExactlyOne, Outside!ExactlyOne
  <2> QED BY <1>2, <1>3, <2>1, <2>2, Zenon DEF LinesOK, Outside!LinesOK
<1>5. PatchOK(c) <=> Outside!PatchOK(c)
  BY <1>1, <1>4 DEF PatchOK, Outside!PatchOK, ExactlyOne, Outside!ExactlyOne
<1>6. Outside!Patched(c) = Patched(c)
  BY <1>1, <1>3 DEF Patched, Outside!Patched
<1> QED BY <1>5, <1>6

\* The report that appears is true and no other report is about its output.
LEMMA ReportPublishes ==
  ASSUME Inv, Inv', NEW r \in Runs, DumpReport(r)
  PROVE  Outside!Next
<1> DEFINE f == args[r].report
           t == ReportOf(r)
<1>1. /\ args' = args /\ fs' = [fs EXCEPT ![f] = Report(t)] /\ pc[r] = "dump"
  BY DEF DumpReport
<1>2. f \in Paths /\ fs[f] = PartialReport /\ RunInv(r)
  BY <1>1, ArgsInPaths DEF Inv, RunInv
<1>3. /\ t \in Reports /\ t.input = args[r].input /\ t.output = args[r].output
      /\ t.input_cpio = incpio[r] /\ t.output_cpio = outcpio[r]
  BY ArgsInPaths DEF Inv, TypeOK, ReportOf, Reports
<1>4. /\ fs[t.input] = Fragment(t.input_cpio) /\ fs[t.output] = Fragment(t.output_cpio)
      /\ PatchOK(t.input_cpio) /\ t.output_cpio = Patched(t.input_cpio)
  BY <1>1, <1>2, <1>3 DEF RunInv, Patching
<1> HIDE DEF f, t
<1>5. fs'[f] = Report(t) /\ \A g \in Paths : g # f => fs'[g] = fs[g]
  BY <1>1, <1>2 DEF Inv, TypeOK
<1>6. Outside!Holds(t.input, t.output) /\ Outside!ReportOn(t.input, t.output) = t
  <2>1. t.input \in Paths /\ t.output \in Paths
    BY <1>3 DEF Reports
  <2>2. Shelf[t.input] = fs[t.input] /\ Shelf[t.output] = fs[t.output]
    BY <1>4, <2>1, Kinds, ShelfOf DEF Complete
  <2>3. Outside!PatchOK(t.input_cpio) /\ Outside!Patched(t.input_cpio) = Patched(t.input_cpio)
    BY <1>4, SameArchives
  <2>4. /\ Shelf[t.input].kind = "lz4" /\ Shelf[t.input].cpio = t.input_cpio
        /\ Shelf[t.output].kind = "lz4" /\ Shelf[t.output].cpio = t.output_cpio
    BY <1>4, <2>2, Kinds
  <2>5. t = [input |-> t.input, output |-> t.output,
             input_cpio |-> t.input_cpio, output_cpio |-> t.output_cpio]
    BY <1>3 DEF Reports
  <2> QED BY <1>4, <2>3, <2>4, <2>5 DEF Outside!Holds, Outside!ReportOn
<1>7. Outside!Unrelated(t.input, t.output)
  <2> SUFFICES ASSUME NEW g \in Paths, Shelf[g].kind = "report"
               PROVE  /\ Shelf[g].of.output \notin {t.output, t.input}
                      /\ Shelf[g].of.input # t.output
    BY DEF Outside!Unrelated
  <2>1. Shelf[g] = fs[g] /\ fs[g].kind = "report"
    BY ShelfOf
  <2>2. g # f
    BY <1>2, <2>1, Kinds
  <2>3. /\ fs'[g] = fs[g] /\ fs'[g].kind = "report"
        /\ fs'[f].kind = "report" /\ fs'[f].of = t
    BY <1>5, <2>1, <2>2, Kinds
  <2>4. OneReportPerOutput' /\ NotPatchedTwice'
    <3>1. (Inv => NotPatchedTwice)'
      BY PatchedOnce, PTL
    <3> QED BY <3>1 DEF Inv
  <2> QED BY <1>2, <2>1, <2>2, <2>3, <2>4 DEF OneReportPerOutput, NotPatchedTwice
<1>8. Shelf[f] = Outside!Draft /\ Shelf' = [Shelf EXCEPT ![f] = Outside!Report(t)]
  <2>1. Report(t) \notin {Partial, PartialReport}
    BY Kinds
  <2> QED BY <1>1, <1>2, <2>1, ShelfOf, ShelfStep DEF Report, Outside!Report
<1>9. t.input \in Paths /\ t.output \in Paths
  BY <1>3 DEF Reports
<1> QED BY <1>2, <1>6, <1>7, <1>8, <1>9 DEF Outside!Next, Outside!FinishReport

\* Each step of a run is a step of Publication or is not seen.
LEMMA NextPublication ==
  ASSUME Inv, Inv', [Next]_vars
  PROVE  [Outside!Next]_Shelf
<1>1. ASSUME fs' = fs PROVE Shelf' = Shelf
  BY <1>1 DEF Shelf, Partial, PartialReport
<1>2. ASSUME NEW r \in Runs, Create(r) PROVE [Outside!Next]_Shelf
  <2>1. CASE Exists(args[r].output)
    BY <1>1, <1>2, <2>1 DEF Create, Fail
  <2>2. CASE ~Exists(args[r].output)
    BY <1>2, <2>2, ArgsInPaths, BeginStep DEF Create, Exists
  <2> QED BY <2>1, <2>2
<1>3. ASSUME NEW r \in Runs, OpenReport(r) PROVE [Outside!Next]_Shelf
  <2>1. CASE Exists(args[r].report)
    BY <1>1, <1>3, <2>1 DEF OpenReport, Fail
  <2>2. CASE ~Exists(args[r].report)
    BY <1>3, <2>2, ArgsInPaths, BeginStep DEF OpenReport, Exists
  <2> QED BY <2>1, <2>2
<1>4. ASSUME NEW r \in Runs,
             CheckPaths(r) \/ Decode(r) \/ DecodeFails(r) \/ Patch(r)
               \/ CompressFails(r) \/ Recheck(r) \/ Kill(r)
      PROVE  fs' = fs
  BY <1>4 DEF CheckPaths, Decode, DecodeFails, Patch, CompressFails, Recheck, Kill, Fail
<1>5. CASE UNCHANGED vars
  BY <1>1, <1>5 DEF vars
<1> QED
  BY <1>1, <1>2, <1>3, <1>4, <1>5, CompressPublishes, ReportPublishes DEF Next, Step, AllEnded

(***************************************************************************)
(* Every behaviour of any number of runs of main(), killed anywhere and    *)
(* with an lz4 that writes anything, is a behaviour of Publication.        *)
(***************************************************************************)
THEOREM PublicationImplemented == Spec => Publishes
<1>1. Inv /\ Inv' /\ [Next]_vars => [Outside!Next]_Shelf
  BY NextPublication
<1> QED BY InitPublication, InvAlways, <1>1, PTL DEF Spec, Publishes, Outside!Spec
=============================================================================
