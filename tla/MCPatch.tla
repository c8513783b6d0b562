------------------------------ MODULE MCPatch ------------------------------
(***************************************************************************)
(* tools/patch_recovery_adbd_props.py in one instance: its parser over the *)
(* archives of MCNewc, and runs of the tool over a small file system.  A   *)
(* behaviour uses one of the two and leaves the other in its first state.  *)
(***************************************************************************)
EXTENDS MCNewc, PatchAdbdProps

CONSTANTS r1, r2

File(n, lines) == [path |-> n, reg |-> TRUE, lines |-> lines]
Cpio(files) == [whole |-> TRUE, files |-> files]
PropDefault(lines) == File("prop.default", lines)

\* For races: a patchable archive, its patched form, a cut one, an odd one.
Stock == Cpio(<<File("init", <<"ro.secure=1">>),
                PropDefault(<<"ro.secure=1", "other", "ro.debuggable=0">>)>>)
RaceCpios == {Stock, Patched(Stock), [Stock EXCEPT !.whole = FALSE], Cpio(<< >>)}

MCPaths == {"stock", "a", "b", "rep", "rep2"}
FilesWith(cs) == {[f \in MCPaths |-> IF f = "stock" THEN Fragment(c) ELSE Absent] : c \in cs}

\* Any file may be any argument of either run: an output may be the other
\* run's input, output or report, and the report of the run itself.
RaceCommands(lz4) ==
  [input : {"stock", "a"}, output : {"stock", "a", "b"}, report : {"a", "b", "rep", "rep2"},
   lz4 : {lz4}]
RaceStarts ==
  [args : [Runs -> RaceCommands("may_fail")], fs : FilesWith(RaceCpios)]
  \cup [args : [Runs -> RaceCommands("works")], fs : FilesWith({Stock})]

\* For the patch itself: every prop.default of up to three lines, with and
\* without a second entry of that name, regular or not.
Texts == OldLines \cup NewLines \cup {"other"}
ShortFiles == UNION {[1..n -> Texts] : n \in 0..3}
PatchCpios ==
  {Cpio(<<PropDefault(ls)>>) : ls \in ShortFiles}
  \cup {Cpio(<<PropDefault(ls), PropDefault(<< >>)>>) : ls \in [1..2 -> Texts]}
  \cup {Cpio(<<[PropDefault(ls) EXCEPT !.reg = FALSE]>>) : ls \in [1..2 -> Texts]}
  \cup {Cpio(<<PropDefault(ls), File("init", ls)>>) : ls \in [1..2 -> Texts]}
AllCpios == RaceCpios \cup PatchCpios \cup {Patched(c) : c \in PatchCpios}

\* One run is given the archive, the other one what the first makes of it.
PatchArgs ==
  [r \in Runs |-> IF r = r1
     THEN [input |-> "stock", output |-> "a", report |-> "rep", lz4 |-> "works"]
     ELSE [input |-> "a", output |-> "b", report |-> "rep2", lz4 |-> "works"]]
MCStarts == RaceStarts \cup [args : {PatchArgs}, fs : FilesWith(PatchCpios)]

-----------------------------------------------------------------------------
VARIABLE use

allVars == <<use, parserVars, vars>>

ABlob  == CHOOSE b \in Blobs : TRUE
AStart == CHOOSE x \in Starts : \A r \in Runs : x.args[r].lz4 = "may_fail"

MCInit ==
  \/ use = "parser" /\ ParserInit /\ InitFrom(AStart)
  \/ use = "runs" /\ ParserInitFrom(ABlob) /\ Init

ParserStep == use = "parser" /\ ParserNext /\ UNCHANGED <<use, vars>>
RunStep(r) == use = "runs" /\ Step(r) /\ UNCHANGED <<use, parserVars>>

MCNext ==
  \/ ParserStep
  \/ use = "runs" /\ Next /\ UNCHANGED <<use, parserVars>>

MCSpec ==
  /\ MCInit /\ [][MCNext]_allVars
  /\ WF_allVars(ParserStep) /\ \A r \in Runs : WF_allVars(RunStep(r))

(* The loop of parse_newc ends, in the behaviours that parse.              *)
ParserTerminates == use = "parser" => Terminates
=============================================================================
