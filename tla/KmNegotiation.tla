---------------------------- MODULE KmNegotiation ----------------------------
(***************************************************************************)
(* How a keymaster client (the HAL service) and server (the trusted app)   *)
(* agree on a message version: GetVersion2, and GetVersion where one of    *)
(* them does not know GetVersion2 (android_keymaster_messages.h, 79-161).  *)
(* Messages are records here; KmSession refines this module with bytes.    *)
(***************************************************************************)
EXTENDS KmVersions

CONSTANT Kms      \* the keymaster versions a client or a server may have

VARIABLES
  peers,   \* the versions of both sides, and who knows GetVersion2
  cpc,     \* "hello" | "asked2" | "retry" | "asked" | "ready" | "refused"
  cver,    \* the message version the client puts into its messages
  sver,    \* message_version_ of the server
  net      \* the one message under way, or Nothing

vars == <<peers, cpc, cver, sver, net>>

Nothing == [msg |-> "none"]
CMax == MessageVersion(peers.ckm)
SMax == MessageVersion(peers.skm)

(***************************************************************************)
(* A side that does not know GetVersion2 was built for a version that a    *)
(* GetVersion response can name, one that does for the default or a later  *)
(* message version.  A legacy server uses the message version of its own;  *)
(* a newer one starts with the default of its constructor.                 *)
(***************************************************************************)
Knows(v2, km) ==
  IF v2 THEN MessageVersion(km) >= kDefaultMessageVersion ELSE km \in {10, 11, 20}

Peers == {p \in [ckm : Kms, skm : Kms, cv2 : BOOLEAN, sv2 : BOOLEAN] :
            Knows(p.cv2, p.ckm) /\ Knows(p.sv2, p.skm)}

Init ==
  /\ peers \in Peers
  /\ cpc = "hello"
  /\ cver = kInvalidMessageVersion
  /\ sver = IF peers.sv2 THEN kDefaultMessageVersion ELSE SMax
  /\ net = Nothing

\* The first message of a client that knows it carries its maximum.
SendGetVersion2 ==
  /\ cpc = "hello" /\ peers.cv2
  /\ net' = [msg |-> "GetVersion2Request", max |-> CMax]
  /\ cpc' = "asked2"
  /\ UNCHANGED <<peers, cver, sver>>

SendGetVersion ==
  /\ cpc = "retry" \/ (cpc = "hello" /\ ~peers.cv2)
  /\ net' = [msg |-> "GetVersionRequest"]
  /\ cpc' = "asked"
  /\ UNCHANGED <<peers, cver, sver>>

\* A client of this library that does not bother to negotiate.
SkipNegotiation ==
  /\ cpc = "hello" /\ peers.cv2 /\ peers.sv2
  /\ cver' = kDefaultMessageVersion
  /\ cpc' = "ready"
  /\ UNCHANGED <<peers, sver, net>>

ServeGetVersion2 ==
  /\ net.msg = "GetVersion2Request" /\ peers.sv2
  /\ sver' = NegotiateMax(net.max, SMax)
  /\ net' = [msg |-> "GetVersion2Response", max |-> SMax]
  /\ UNCHANGED <<peers, cpc, cver>>

RejectGetVersion2 ==
  /\ net.msg = "GetVersion2Request" /\ ~peers.sv2
  /\ net' = [msg |-> "ErrorResponse"]
  /\ UNCHANGED <<peers, cpc, cver, sver>>

\* A server that knows GetVersion2 says 2.0.0 and uses that message version.
ServeGetVersion ==
  /\ net.msg = "GetVersionRequest"
  /\ net' = IF peers.sv2 THEN [msg |-> "GetVersionResponse", major |-> 2, minor |-> 0]
            ELSE [msg |-> "GetVersionResponse",
                  major |-> peers.skm \div 10, minor |-> peers.skm % 10]
  /\ sver' = IF peers.sv2 THEN kDefaultMessageVersion ELSE sver
  /\ UNCHANGED <<peers, cpc, cver>>

UseGetVersion2 ==
  /\ cpc = "asked2" /\ net.msg = "GetVersion2Response"
  /\ cver' = NegotiateMax(CMax, net.max)
  /\ cpc' = "ready"
  /\ net' = Nothing
  /\ UNCHANGED <<peers, sver>>

FallBack ==
  /\ cpc = "asked2" /\ net.msg = "ErrorResponse"
  /\ cpc' = AfterFailedGetVersion2
  /\ net' = Nothing
  /\ UNCHANGED <<peers, cver, sver>>

\* A version the client does not know ends the session with an error.
UseGetVersion ==
  /\ cpc = "asked" /\ net.msg = "GetVersionResponse"
  /\ LET v == NegotiateReported(net.major, net.minor)
     IN  IF v \in 0..CMax THEN cver' = v /\ cpc' = "ready" ELSE cpc' = "refused" /\ UNCHANGED cver
  /\ net' = Nothing
  /\ UNCHANGED <<peers, sver>>

Next ==
  \/ SendGetVersion2 \/ SendGetVersion \/ SkipNegotiation
  \/ ServeGetVersion2 \/ RejectGetVersion2 \/ ServeGetVersion
  \/ UseGetVersion2 \/ FallBack \/ UseGetVersion

Spec == Init /\ [][Next]_vars

(***************************************************************************)
(* A client that is ready and its server create all messages with the same *)
(* version, one that both of them know and a message accepts (the assert   *)
(* of the KeymasterMessage constructor).                                   *)
(***************************************************************************)
VersionsAgree ==
  cpc = "ready" => cver = sver /\ cver \in 0..CMax /\ cver \in 0..SMax

=============================================================================
