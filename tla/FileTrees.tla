----------------------------- MODULE FileTrees -----------------------------
(***************************************************************************)
(* File trees for the models of the packing tools: a tree is a function    *)
(* from the paths it holds to their contents.                              *)
(***************************************************************************)
EXTENDS Functions

EmptyTree == [p \in {} |-> "none"]

Without(t, S) == Restrict(t, DOMAIN t \ S)
Only(t, S)    == Restrict(t, DOMAIN t \cap S)

\* The files of u, with those of t copied over them.
Over(t, u) == [p \in DOMAIN t \cup DOMAIN u |-> IF p \in DOMAIN t THEN t[p] ELSE u[p]]
=============================================================================
