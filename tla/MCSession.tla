------------------------------ MODULE MCSession ------------------------------
(* Small instances of KmSession: the peers and the calls.                  *)
EXTENDS KmSession

\* Every message version, two of them through two keymaster versions.
MCKms == {10, 11, 20, 41, 100, 300}

VersionCommands == {"GetVersion", "GetVersion2"}
MCCalls == Commands \ (VersionCommands \cup {"DeviceLocked"})
=============================================================================
