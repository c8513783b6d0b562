------------------------- MODULE KmNegotiationProofs -------------------------
(***************************************************************************)
(* Proofs about KmNegotiation: a client that is ready talks the message    *)
(* version of its server, whatever keymaster versions the two were built   *)
(* for and whichever of them knows GetVersion2.                            *)
(***************************************************************************)
EXTENDS KmNegotiation, TLAPS

\* What the versions of both sides may be.
PeersInv ==
  /\ peers.cv2 \in BOOLEAN /\ peers.sv2 \in BOOLEAN
  /\ Knows(peers.cv2, peers.ckm) /\ Knows(peers.sv2, peers.skm)

\* The version of the server, before and after it was asked.
ServerInv ==
  /\ ~peers.sv2 => sver = SMax
  /\ cpc = "hello" /\ peers.sv2 => sver = kDefaultMessageVersion
  /\ cpc \in {"hello", "retry", "ready"} => net = Nothing
  /\ cpc = "retry" => ~peers.sv2

\* What the message under way says about both sides.
MessageInv ==
  /\ net.msg = "GetVersion2Request" => cpc = "asked2" /\ net.max = CMax
  /\ net.msg = "ErrorResponse" => cpc = "asked2" /\ ~peers.sv2
  /\ net.msg = "GetVersion2Response" =>
       /\ cpc = "asked2" /\ peers.sv2 /\ peers.cv2
       /\ net.max = SMax /\ sver = NegotiateMax(CMax, SMax)
  /\ net.msg = "GetVersionRequest" => cpc = "asked"
  /\ net.msg = "GetVersionResponse" =>
       /\ cpc = "asked"
       /\ NegotiateReported(net.major, net.minor) = sver
       /\ sver \in 0..SMax
  /\ cpc = "asked2" => peers.cv2

Inv == PeersInv /\ ServerInv /\ MessageInv /\ VersionsAgree

\* A side that knows GetVersion2 has message version 3 or 4; one that does
\* not has one of the first three, and its GetVersion response names it.
LEMMA KnownVersions ==
  ASSUME NEW km, NEW v2 \in BOOLEAN, Knows(v2, km)
  PROVE  /\ v2 => MessageVersion(km) \in {3, 4}
         /\ ~v2 => /\ MessageVersion(km) \in {1, 2, 3}
                   /\ NegotiateReported(km \div 10, km % 10) = MessageVersion(km)
<1>1. CASE v2
  BY <1>1 DEF Knows, MessageVersion, kDefaultMessageVersion, kInvalidMessageVersion
<1>2. CASE ~v2
  <2>1. km \in {10, 11, 20}
    BY <1>2 DEF Knows
  <2>2. MessageVersion(km) = IF km = 10 THEN 1 ELSE IF km = 11 THEN 2 ELSE 3
    BY <2>1 DEF MessageVersion
  <2>3. NegotiateReported(km \div 10, km % 10) = IF km = 10 THEN 1 ELSE IF km = 11 THEN 2 ELSE 3
    <3>1. 10 \div 10 = 1 /\ 10 % 10 = 0 /\ 11 \div 10 = 1 /\ 11 % 10 = 1 /\ 20 \div 10 = 2
      OBVIOUS
    <3>2. QED
      BY <2>1, <3>1 DEF NegotiateReported
  <2>4. QED
    BY <1>2, <2>1, <2>2, <2>3
<1>3. QED
  BY <1>1, <1>2

\* The maxima of both sides, under the invariant.
LEMMA Maxima ==
  ASSUME PeersInv
  PROVE  /\ CMax \in 1..4 /\ SMax \in 1..4
         /\ peers.cv2 => CMax >= 3
         /\ peers.sv2 => SMax >= 3
         /\ ~peers.sv2 => NegotiateReported(peers.skm \div 10, peers.skm % 10) = SMax
<1>1. /\ peers.cv2 => CMax \in {3, 4}
      /\ ~peers.cv2 => CMax \in {1, 2, 3}
  BY KnownVersions DEF PeersInv, CMax
<1>2. /\ peers.sv2 => SMax \in {3, 4}
      /\ ~peers.sv2 => /\ SMax \in {1, 2, 3}
                       /\ NegotiateReported(peers.skm \div 10, peers.skm % 10) = SMax
  BY KnownVersions DEF PeersInv, SMax
<1>3. QED
  BY <1>1, <1>2

\* The invariant holds before the first message.
LEMMA InitInv == Init => Inv
<1> SUFFICES ASSUME Init PROVE Inv
  OBVIOUS
<1>1. PeersInv
  BY DEF Init, Peers, PeersInv
<1>2. QED
  BY <1>1 DEF Init, Inv, ServerInv, MessageInv, VersionsAgree, Nothing

\* No step of the client or of the server breaks it.
LEMMA StepInv == Inv /\ [Next]_vars => Inv'
<1> SUFFICES ASSUME Inv, [Next]_vars PROVE Inv'
  OBVIOUS
<1> USE DEF Inv
<1>0. /\ CMax \in 1..4 /\ SMax \in 1..4
      /\ peers.cv2 => CMax >= 3
      /\ peers.sv2 => SMax >= 3
      /\ ~peers.sv2 => NegotiateReported(peers.skm \div 10, peers.skm % 10) = SMax
  BY Maxima
<1>00. peers' = peers /\ PeersInv' /\ CMax' = CMax /\ SMax' = SMax
  BY DEF Next, vars, SendGetVersion2, SendGetVersion, SkipNegotiation, ServeGetVersion2,
         RejectGetVersion2, ServeGetVersion, UseGetVersion2, FallBack, UseGetVersion,
         PeersInv, CMax, SMax
<1> SUFFICES (ServerInv /\ MessageInv /\ VersionsAgree)'
  BY <1>00
<1>1. CASE SendGetVersion2
  BY <1>1, <1>00 DEF SendGetVersion2, ServerInv, MessageInv, VersionsAgree, Nothing
<1>2. CASE SendGetVersion
  BY <1>2, <1>00 DEF SendGetVersion, ServerInv, MessageInv, VersionsAgree, Nothing
<1>3. CASE SkipNegotiation
  BY <1>3, <1>0, <1>00
     DEF SkipNegotiation, ServerInv, MessageInv, VersionsAgree, Nothing, kDefaultMessageVersion
<1>4. CASE ServeGetVersion2
  BY <1>4, <1>00 DEF ServeGetVersion2, ServerInv, MessageInv, VersionsAgree, Nothing
<1>5. CASE RejectGetVersion2
  BY <1>5, <1>00 DEF RejectGetVersion2, ServerInv, MessageInv, VersionsAgree, Nothing
<1>6. CASE ServeGetVersion
  <2>1. cpc = "asked" /\ cpc' = "asked"
    BY <1>6 DEF ServeGetVersion, MessageInv
  <2>2. CASE peers.sv2
    <3>1. NegotiateReported(2, 0) = 3
      BY DEF NegotiateReported
    <3>2. QED
      BY <1>6, <1>0, <1>00, <2>1, <2>2, <3>1
         DEF ServeGetVersion, ServerInv, MessageInv, VersionsAgree, kDefaultMessageVersion
  <2>3. CASE ~peers.sv2
    BY <1>6, <1>0, <1>00, <2>1, <2>3
       DEF ServeGetVersion, ServerInv, MessageInv, VersionsAgree
  <2>4. QED
    BY <2>2, <2>3 DEF PeersInv
<1>7. CASE UseGetVersion2
  BY <1>7, <1>0, <1>00
     DEF UseGetVersion2, ServerInv, MessageInv, VersionsAgree, Nothing, NegotiateMax
<1>8. CASE FallBack
  BY <1>8, <1>00
     DEF FallBack, ServerInv, MessageInv, VersionsAgree, Nothing, AfterFailedGetVersion2
<1>9. CASE UseGetVersion
  BY <1>9, <1>0, <1>00 DEF UseGetVersion, ServerInv, MessageInv, VersionsAgree, Nothing
<1>10. CASE UNCHANGED vars
  BY <1>10, <1>00 DEF vars, ServerInv, MessageInv, VersionsAgree
<1>11. QED
  BY <1>1, <1>2, <1>3, <1>4, <1>5, <1>6, <1>7, <1>8, <1>9, <1>10 DEF Next

(***************************************************************************)
(* For every set of keymaster versions: a client that is ready and its     *)
(* server create their messages with one version, known to both (the       *)
(* negotiation of android_keymaster_messages.h).                           *)
(***************************************************************************)
THEOREM NegotiationAgrees == Spec => []VersionsAgree
<1>1. Init => Inv
  BY InitInv
<1>2. Inv /\ [Next]_vars => Inv'
  BY StepInv
<1>3. Inv => VersionsAgree
  BY DEF Inv
<1>4. QED
  BY <1>1, <1>2, <1>3, PTL DEF Spec
=============================================================================
