----------------------------- MODULE MCPrepare -----------------------------
(* Small instances of PrepareFragments: images, trees and the device tree. *)
EXTENDS PrepareFragments, TLC

CONSTANTS r1, r2

RunSymmetry == Permutations({r1, r2})

MCLibs == {"libbase.so", "libc++.so"}
MCRcs  == {"init.recovery.project.rc"}
Rc     == <<"/", "init.recovery.project.rc">>

Content(x) == [of |-> x, whole |-> TRUE]
RcText == [of |-> "stock", whole |-> TRUE, stanza |-> {"recovery"}, setenv |-> {}]

GoodStock == {(InitRc :> RcText) @@ (Recovery :> Content("stock")) @@ (Res :> Content("stock"))}
MCStocks == GoodStock \cup {Cut}

FullCi == {[p \in {<<"lib64", l>> : l \in MCLibs} |-> Content("ci")]}

GoodVal == {(Recovery :> Content("val")) @@ (Rc :> Content("val"))}

MCStagings == {EmptyTree, Recovery :> Content("staging")}
NoStaging == {EmptyTree}
MCOverlay == {Recovery}
MCF1Required == {Recovery, Rc}

\* The repository keeps its RC files in rootdir/; there is no recovery/root.
RepoTree == (<<"rootdir", "init.recovery.project.rc">> :> Content("tree"))
OverlayTree == (<<"recovery/root", "init.recovery.project.rc">> :> Content("tree"))
=============================================================================
