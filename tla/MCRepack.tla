------------------------------ MODULE MCRepack ------------------------------
(* Small instances of RepackVendorBoot: inputs for the runs.               *)
EXTENDS RepackVendorBoot

CONSTANTS r1, r2

MCBin   == {"bin/recovery", "bin/helper", "bin/init"}
MCCore  == {"bin/init"}
MCLib   == {"lib64/libbase", "lib64/libtwrp"}
MCPaths == MCBin \cup MCLib \cup {"recovery.fstab"}

StockF0(n) == Fragment([p \in {"bin/init"} |-> "stock"], n)
Tree(S, who) == [p \in S |-> who]

\* Layouts: header of one page or less, all alignments of F0/F1/DTB, the FDT
\* magic where a bare DTB or dash's DTB has it, deeper in the section, or nowhere;
\* whole and cut-off files.
LayoutTemplates ==
  {MkImage(hs, 2, StockF0(a), Fragment(Tree({"bin/recovery"}, "tpl"), b), Dtb(ds, at), len) :
     hs \in {2, 3}, a \in 1..3, b \in 1..3, ds \in 2..4, at \in {0, 1, 2, 3},
     len \in {5, 8, 10, 11, 13, 17, 21}}
LayoutCi ==
  {MkImage(2, 2, << >>, Fragment(Tree({"bin/recovery"}, "ci1"), 2), Dtb(2, 1), 21)}

\* Trees: every pair of template and CI trees over MCPaths, one layout.
Image(S, who) == MkImage(2, 2, StockF0(2), Fragment(Tree(S, who), 2), Dtb(3, 1), PART_SZ)
TreeTemplates == {Image(S, "tpl") : S \in SUBSET MCPaths}
TreeCi == {Image(S, "ci1") : S \in SUBSET MCPaths}

BuildPairs == [template : LayoutTemplates, ci : LayoutCi]
              \cup [template : TreeTemplates, ci : TreeCi]

\* Reruns: one template, two CI builds that differ in what they hold.
RerunPairs ==
  [template : {Image(MCPaths \ {"bin/init"}, "tpl")},
   ci : {Image({"bin/recovery", "lib64/libbase"}, "ci1"),
         Image({"bin/recovery", "bin/init", "lib64/libtwrp"}, "ci2")}]

\* Command lines of the two runs: any layout or tree beside a run that was
\* given a truncated template and stops at once, or a rerun in the same /tmp.
CutPair == [template |-> MkImage(2, 2, StockF0(2), StockF0(2), Dtb(3, 1), 5),
            ci |-> Image({"bin/recovery"}, "ci2")]
RerunArgs == [Runs -> RerunPairs]
BuildArgs == {[r \in Runs |-> IF r = r1 THEN a ELSE CutPair] : a \in BuildPairs}
\* A template whose first FDT magic is deeper in the DTB section than DTB_HDR.
DeepArgs ==
  {[r \in Runs |->
      [template |-> MkImage(2, 2, StockF0(2), Fragment(Tree(MCPaths, "tpl"), 2), Dtb(4, 3), PART_SZ),
       ci |-> Image({"bin/recovery"}, ci)]] : ci \in {"ci1", "ci2"}}
\* A template and a CI image that both have every path.
CoreArgs ==
  {[r \in Runs |-> [template |-> Image(MCPaths, "tpl"), ci |-> Image(MCPaths, ci)]] :
     ci \in {"ci1", "ci2"}}
AllArgs == BuildArgs \cup RerunArgs
=============================================================================
