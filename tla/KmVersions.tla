----------------------------- MODULE KmVersions -----------------------------
(***************************************************************************)
(* Keymaster versions and the message versions they stand for              *)
(* (km_version.h and the head of android_keymaster_messages.h).            *)
(***************************************************************************)
EXTENDS Integers

kInvalidMessageVersion == -1
kDefaultMessageVersion == 3

KmVersion == {10, 11, 20, 30, 40, 41, 100, 200, 300}

MessageVersion(km) ==
  CASE km = 10 -> 1
    [] km = 11 -> 2
    [] km \in {20, 30, 40, 41} -> 3
    [] km \in {100, 200, 300} -> 4
    [] OTHER -> kInvalidMessageVersion

\* Mutant: the maximum of the client is ignored.
NegotiateMaxServer(c_max, s_max) == s_max

\* GetVersion2: the lower of the two maxima.
NegotiateMax(c_max, s_max) == IF c_max < s_max THEN c_max ELSE s_max

\* GetVersion: what the reported version of the server stands for.
NegotiateReported(major, minor) ==
  CASE major = 1 /\ minor = 0 -> 1
    [] major = 1 /\ minor = 1 -> 2
    [] major = 2 -> 3
    [] OTHER -> kInvalidMessageVersion

\* Mutant: the client asks with GetVersion2 again and again.
AskAgain == "hello"

\* Where a client goes on when GetVersion2 failed: it asks with GetVersion.
AfterFailedGetVersion2 == "retry"
=============================================================================
