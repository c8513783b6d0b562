--------------------------- MODULE PatchAdbdProps ---------------------------
(***************************************************************************)
(* main() of tools/patch_recovery_adbd_props.py: several runs of the tool  *)
(* over one file system.  A run reads an LZ4 fragment, patches the CPIO in *)
(* it, writes a new fragment, reads that back and publishes a report.  The *)
(* paths of different runs may coincide in any way, a run may be killed    *)
(* between any two steps, and lz4 may fail or write something else.        *)
(***************************************************************************)
EXTENDS PropPatch, FiniteSets

CONSTANTS
  Runs,       \* invocations of the tool
  Paths,      \* files the command lines may name
  Cpios,      \* archives that fragments may hold
  Wrong,      \* archives an lz4 that does not work may write instead
  Starts      \* command lines of the runs, and the files they find

Absent  == [kind |-> "absent"]
Partial == [kind |-> "partial"]      \* an output that lz4 is writing
PartialReport == [kind |-> "partial_report"]
Fragment(c) == [kind |-> "lz4", cpio |-> c]
Report(r)   == [kind |-> "report", of |-> r]

Reports == [input : Paths, output : Paths, input_cpio : Cpios, output_cpio : Cpios]
Contents == {Absent, Partial, PartialReport}
            \cup {Fragment(c) : c \in Cpios} \cup {Report(r) : r \in Reports}

\* --input-fragment, --output-fragment, --report, and whether the lz4 that
\* --lz4 names works or may fail.
Commands == [input : Paths, output : Paths, report : Paths, lz4 : {"works", "may_fail"}]

ASSUME PatchAssumption ==
  /\ Starts \subseteq [args : [Runs -> Commands],
                       fs : [Paths -> {Absent} \cup {Fragment(c) : c \in Cpios}]]
  /\ Wrong \subseteq Cpios
  /\ Cpios # {} /\ Cpios \subseteq CpioType
  /\ \A c \in Cpios : PatchOK(c) => Patched(c) \in Cpios

VARIABLES
  args,    \* args[r]: the command line of run r
  fs,      \* fs[f]: what is at path f
  pc,      \* pc[r]: the step run r takes next
  incpio,  \* incpio[r]: what the input fragment decoded to
  outcpio  \* outcpio[r]: what patch_properties() returned

vars == <<args, fs, pc, incpio, outcpio>>

Final == {"done", "failed", "killed"}
Exists(f) == fs[f] # Absent
MayFail(r) == args[r].lz4 = "may_fail"

Goto(r, step) == pc' = [pc EXCEPT ![r] = step]

\* raise: the handler prints the error and the run exits with status 2.
Fail(r) == Goto(r, "failed") /\ UNCHANGED <<args, fs, incpio, outcpio>>

\* What `lz4 -dc` may give for a file.  A fragment that is still being
\* written fails to decode, or ends early at a block boundary.
Decoding(f) ==
  IF fs[f].kind = "lz4" THEN {fs[f].cpio}
  ELSE IF fs[f] = Partial THEN {c \in Cpios : ~c.whole}
  ELSE {}

-----------------------------------------------------------------------------
\* The value of a local that no step has set yet; none reads it.
Unread == CHOOSE c \in Cpios : TRUE

InitFrom(start) ==
  /\ args = start.args /\ fs = start.fs
  /\ pc = [r \in Runs |-> "check_paths"]
  /\ incpio = [r \in Runs |-> Unread]
  /\ outcpio = incpio

Init == \E start \in Starts : InitFrom(start)

\* The input is a file, is not the output, and nothing would be overwritten.
CheckPaths(r) ==
  /\ pc[r] = "check_paths"
  /\ IF /\ Exists(args[r].input)
        /\ args[r].output # args[r].input
        /\ ~Exists(args[r].output) /\ ~Exists(args[r].report)
     THEN Goto(r, "decode") /\ UNCHANGED <<args, fs, incpio, outcpio>>
     ELSE Fail(r)

Decode(r) ==
  /\ pc[r] = "decode"
  /\ \E c \in Decoding(args[r].input) : incpio' = [incpio EXCEPT ![r] = c]
  /\ Goto(r, "patch")
  /\ UNCHANGED <<args, fs, outcpio>>

DecodeFails(r) ==
  /\ pc[r] = "decode"
  /\ MayFail(r) \/ fs[args[r].input].kind # "lz4"
  /\ Fail(r)

Patch(r) ==
  /\ pc[r] = "patch"
  /\ IF PatchOK(incpio[r])
     THEN /\ outcpio' = [outcpio EXCEPT ![r] = Patched(incpio[r])]
          /\ Goto(r, "create")
          /\ UNCHANGED <<args, fs, incpio>>
     ELSE Fail(r)

\* open(output, "xb")
CreateTruncating(r) ==
  /\ pc[r] = "create"
  /\ fs' = [fs EXCEPT ![args[r].output] = Partial]
  /\ Goto(r, "compress")
  /\ UNCHANGED <<args, incpio, outcpio>>

CreateReusing(r) ==
  /\ pc[r] = "create"
  /\ IF Exists(args[r].output)
     THEN Goto(r, "recheck") /\ UNCHANGED <<args, fs, incpio, outcpio>>
     ELSE /\ fs' = [fs EXCEPT ![args[r].output] = Partial]
          /\ Goto(r, "compress")
          /\ UNCHANGED <<args, incpio, outcpio>>

CreateCleaningUp(r) ==
  /\ pc[r] = "create"
  /\ LET taken == Exists(args[r].output)
     IN  /\ fs' = [fs EXCEPT ![args[r].output] = IF taken THEN Absent ELSE Partial]
         /\ Goto(r, IF taken THEN "failed" ELSE "compress")
         /\ UNCHANGED <<args, incpio, outcpio>>

Create(r) ==
  /\ pc[r] = "create"
  /\ IF Exists(args[r].output)
     THEN Fail(r)
     ELSE /\ fs' = [fs EXCEPT ![args[r].output] = Partial]
          /\ Goto(r, "compress")
          /\ UNCHANGED <<args, incpio, outcpio>>

\* lz4 -l writes to the open file; check=True raises when it fails.
Compressed(r) ==
  {Fragment(outcpio[r])}
  \cup IF MayFail(r) THEN {Partial} \cup {Fragment(d) : d \in Wrong} ELSE {}

Compress(r) ==
  /\ pc[r] = "compress"
  /\ \E x \in Compressed(r) : fs' = [fs EXCEPT ![args[r].output] = x]
  /\ Goto(r, "recheck")
  /\ UNCHANGED <<args, incpio, outcpio>>

CompressFails(r) ==
  /\ pc[r] = "compress"
  /\ MayFail(r)
  /\ Fail(r)

\* The magic, `lz4 -t`, and the comparison of the decoded output.
RecheckDropped(r) ==
  /\ pc[r] = "recheck"
  /\ Goto(r, "open_report") /\ UNCHANGED <<args, fs, incpio, outcpio>>

Recheck(r) ==
  /\ pc[r] = "recheck"
  /\ IF outcpio[r] \in Decoding(args[r].output)
     THEN Goto(r, "open_report") /\ UNCHANGED <<args, fs, incpio, outcpio>>
     ELSE Fail(r)

\* Mutant: open(report, "w") replaces what is there.
OpenReportReplacing(r) ==
  /\ pc[r] = "open_report"
  /\ fs' = [fs EXCEPT ![args[r].report] = PartialReport]
  /\ Goto(r, "dump")
  /\ UNCHANGED <<args, incpio, outcpio>>

\* open(report, "x")
OpenReport(r) ==
  /\ pc[r] = "open_report"
  /\ IF Exists(args[r].report)
     THEN Fail(r)
     ELSE /\ fs' = [fs EXCEPT ![args[r].report] = PartialReport]
          /\ Goto(r, "dump")
          /\ UNCHANGED <<args, incpio, outcpio>>

ReportOf(r) == [input |-> args[r].input, output |-> args[r].output,
                input_cpio |-> incpio[r], output_cpio |-> outcpio[r]]

DumpReport(r) ==
  /\ pc[r] = "dump"
  /\ fs' = [fs EXCEPT ![args[r].report] = Report(ReportOf(r))]
  /\ Goto(r, "done")
  /\ UNCHANGED <<args, incpio, outcpio>>

Kill(r) ==
  /\ pc[r] \notin Final
  /\ Goto(r, "killed")
  /\ UNCHANGED <<args, fs, incpio, outcpio>>

Step(r) ==
  \/ CheckPaths(r) \/ Decode(r) \/ DecodeFails(r) \/ Patch(r)
  \/ Create(r) \/ Compress(r) \/ CompressFails(r) \/ Recheck(r)
  \/ OpenReport(r) \/ DumpReport(r)

AllEnded == (\A r \in Runs : pc[r] \in Final) /\ UNCHANGED vars

Next == (\E r \in Runs : Step(r) \/ Kill(r)) \/ AllEnded

\* Every process that is not killed is scheduled again.
Spec == Init /\ [][Next]_vars /\ \A r \in Runs : WF_vars(Step(r))

-----------------------------------------------------------------------------
Steps == Final \cup {"check_paths", "decode", "patch", "create", "compress",
                     "recheck", "open_report", "dump"}

TypeOK ==
  /\ args \in [Runs -> Commands]
  /\ fs \in [Paths -> Contents]
  /\ pc \in [Runs -> Steps]
  /\ incpio \in [Runs -> Cpios]
  /\ outcpio \in [Runs -> Cpios]

(***************************************************************************)
(* The runs implement Publication: seen from outside, where a file that is *)
(* being written is a draft, they only add drafts and finish them, and a   *)
(* report appears when what it says is so.                                 *)
(***************************************************************************)
Shelf ==
  [f \in Paths |-> IF fs[f] \in {Partial, PartialReport} THEN [kind |-> "draft"] ELSE fs[f]]

Outside == INSTANCE Publication WITH shelf <- Shelf

Publishes == Outside!Spec

(***************************************************************************)
(* A complete report tells the truth about what is on disk now: its input  *)
(* and its output still hold the archives it names, and the second is the  *)
(* first with exactly the two lines of prop.default changed.  ("status":   *)
(* ADBD_RECOVERY_PROPS_PATCH_VALID.)                                       *)
(***************************************************************************)
Truthful(r) ==
  /\ fs[r.input] = Fragment(r.input_cpio)
  /\ fs[r.output] = Fragment(r.output_cpio)
  /\ PatchOK(r.input_cpio)
  /\ r.output_cpio = Patched(r.input_cpio)

ReportsTruthful ==
  \A f \in Paths : fs[f].kind = "report" => Truthful(fs[f].of)

(***************************************************************************)
(* "all decompressed CPIO bytes outside the two property value bytes are   *)
(* unchanged" (the report's `preservation`): the archives a report names   *)
(* have the same entries and differ in two lines, both of prop.default.    *)
(***************************************************************************)
ChangedLines(c, d) ==
  UNION {{<<k, i>> : i \in {j \in DOMAIN c.files[k].lines :
                              c.files[k].lines[j] # d.files[k].lines[j]}} :
         k \in DOMAIN c.files}

PreservesRest ==
  \A f \in Paths : fs[f].kind = "report" =>
    LET c == fs[f].of.input_cpio
        d == fs[f].of.output_cpio
    IN  /\ DOMAIN d.files = DOMAIN c.files
        /\ \A k \in DOMAIN c.files :
              /\ d.files[k].path = c.files[k].path /\ d.files[k].reg = c.files[k].reg
              /\ Len(d.files[k].lines) = Len(c.files[k].lines)
        /\ Cardinality(ChangedLines(c, d)) = 2
        /\ \A x \in ChangedLines(c, d) : c.files[x[1]].path = "prop.default"

(***************************************************************************)
(* A fragment or a report that is complete is never changed again          *)
(* ("refusing to overwrite"), even when another run checked the path       *)
(* before it existed.                                                      *)
(***************************************************************************)
Complete(x) == x.kind \in {"lz4", "report"}
NeverOverwrites == [][\A f \in Paths : Complete(fs[f]) => fs'[f] = fs[f]]_vars

(***************************************************************************)
(* No fragment is patched twice: the output of a reported run is never the *)
(* input of another reported one, in whatever order the runs were started. *)
(***************************************************************************)
NotPatchedTwice ==
  \A f, g \in Paths :
    (fs[f].kind = "report" /\ fs[g].kind = "report") => fs[f].of.output # fs[g].of.input

\* An output fragment is claimed by one report at most.
OneReportPerOutput ==
  \A f, g \in Paths :
    (fs[f].kind = "report" /\ fs[g].kind = "report" /\ f # g)
      => fs[f].of.output # fs[g].of.output

(***************************************************************************)
(* Runs that race for the same paths cannot all lose ("refusing to         *)
(* overwrite", whoever comes second): if lz4 works, one run could start    *)
(* now and nobody is killed, some run publishes its report.  One thing can *)
(* prevent it: a circle of runs each of which names as its report the      *)
(* output of one of them (a run alone, with one path for both, or r with   *)
(* output b and report a beside q with output a and report b); each then   *)
(* creates its output before it finds its report path taken.               *)
(***************************************************************************)
Able(r) ==
  /\ fs[args[r].input].kind = "lz4" /\ PatchOK(fs[args[r].input].cpio)
  /\ args[r].output # args[r].input
  /\ ~Exists(args[r].output) /\ ~Exists(args[r].report)

Circle ==
  \E S \in SUBSET Runs : S # {} /\ \A r \in S : \E q \in S : args[r].report = args[q].output

SomeRunReports ==
  ((\E r \in Runs : Able(r)) /\ ~Circle /\ \A r \in Runs : ~MayFail(r))
    => <>(\/ \E f \in Paths : fs[f].kind = "report"
          \/ \E r \in Runs : pc[r] = "killed")
=============================================================================
