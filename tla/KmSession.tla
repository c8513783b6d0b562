------------------------------ MODULE KmSession ------------------------------
(***************************************************************************)
(* A client and a server that negotiate a message version and then call    *)
(* each other, with every message as the bytes it serializes to.  The      *)
(* client gives Serialize a buffer of SerializedSize bytes.                *)
(***************************************************************************)
EXTENDS KmMessages

CONSTANTS Kms, Calls      \* the versions of the peers, the commands called

VARIABLES
  peers, cpc, cver, sver,   \* as in KmNegotiation; cpc is also "calling"
  wire,     \* the message under way: its direction, command and bytes
  call,     \* the call of the client: command and fields, or NoCall
  served,   \* what the server read of that call and answered, or NoCall
  got       \* what the client read of the answer, or NoCall

vars == <<peers, cpc, cver, sver, wire, call, served, got>>

NoCall == [cmd |-> "none"]
Silent == [dir |-> "none", cmd |-> "none", bytes |-> << >>]
Request(c, bytes) == [dir |-> "req", cmd |-> c, bytes |-> bytes]
Response(c, bytes) == [dir |-> "rsp", cmd |-> c, bytes |-> bytes]
CMax == MessageVersion(peers.ckm)
SMax == MessageVersion(peers.skm)

UNKNOWN_ERROR == 232             \* the low byte of KM_ERROR_UNKNOWN_ERROR
MEMORY_ALLOCATION_FAILED == 215  \* the low byte of that error

\* A field holds its default or a value of its own, by its position i.
Value(kind, i, filled) ==
  CASE kind \in {"u32", "u64", "nonce"} -> IF filled THEN i ELSE 0
    [] kind = "u8" -> IF filled THEN 1 ELSE 0
    [] kind \in {"blob", "coll"} -> IF filled THEN <<i, i>> ELSE << >>
    [] kind = "u32s" -> IF filled THEN <<i, 0>> ELSE << >>
    [] kind = "blobs" -> IF filled THEN <<<<i>>, << >>, <<i, i>>>> ELSE << >>
    [] kind = "hmacs" -> IF filled THEN <<[seed |-> <<i>>, nonce |-> i],
                                          [seed |-> << >>, nonce |-> 0]>> ELSE << >>

\* Which fields are filled: none, all, the odd or the even ones.
Fillings == {{}, 1..9, {1, 3, 5, 7, 9}, {2, 4, 6, 8}}
Values(kinds, f) == [i \in DOMAIN kinds |-> Value(kinds[i], i, i \in f)]

Init ==
  /\ peers \in {p \in [ckm : Kms, skm : Kms, cv2 : BOOLEAN, sv2 : BOOLEAN] :
                  /\ IF p.cv2 THEN MessageVersion(p.ckm) >= 3 ELSE p.ckm \in {10, 11, 20}
                  /\ IF p.sv2 THEN MessageVersion(p.skm) >= 3 ELSE p.skm \in {10, 11, 20}}
  /\ cpc = "hello" /\ cver = kInvalidMessageVersion
  /\ sver = IF peers.sv2 THEN kDefaultMessageVersion ELSE SMax
  /\ wire = Silent /\ call = NoCall /\ served = NoCall /\ got = NoCall

(***************************************************************************)
(* The negotiation.  Its messages are not versioned: the constructors pass *)
(* version 0 whatever they are given.                                      *)
(***************************************************************************)
UnversionedRequest(c, vals) ==
  Request(c, Serialize(FieldsAt(c, "req", 0), vals, RequestSize(c, 0, vals)))

UnversionedResponse(c, error, vals) ==
  LET kinds == ResponseKinds(c, 0, error)
      all == IF error = KM_ERROR_OK THEN <<error>> \o vals ELSE <<error>>
  IN  Response(c, Serialize(kinds, all, ResponseSize(c, 0, all)))

ReadRequest(c) == Deserialize(FieldsAt(c, "req", 0), wire.bytes, 0, TRUE)
ReadResponse(c) == DeserializeResponse(c, 0, wire.bytes, TRUE)

SendGetVersion2 ==
  /\ cpc = "hello" /\ peers.cv2
  /\ wire' = UnversionedRequest("GetVersion2", <<CMax>>)
  /\ cpc' = "asked2"
  /\ UNCHANGED <<peers, cver, sver, call, served, got>>

SendGetVersion ==
  /\ cpc = "retry" \/ (cpc = "hello" /\ ~peers.cv2)
  /\ wire' = UnversionedRequest("GetVersion", << >>)
  /\ cpc' = "asked"
  /\ UNCHANGED <<peers, cver, sver, call, served, got>>

SkipNegotiation ==
  /\ cpc = "hello" /\ peers.cv2 /\ peers.sv2
  /\ cver' = kDefaultMessageVersion /\ cpc' = "ready"
  /\ UNCHANGED <<peers, sver, wire, call, served, got>>

ServeGetVersion2 ==
  /\ wire.dir = "req" /\ wire.cmd = "GetVersion2"
  /\ IF peers.sv2
       THEN LET r == ReadRequest("GetVersion2")
            IN  /\ sver' = NegotiateMax(r.val[1], SMax)
                /\ wire' = UnversionedResponse("GetVersion2", KM_ERROR_OK, <<SMax, peers.skm, 0>>)
       ELSE /\ wire' = UnversionedResponse("GetVersion2", UNKNOWN_ERROR, << >>)
            /\ UNCHANGED sver
  /\ UNCHANGED <<peers, cpc, cver, call, served, got>>

ServeGetVersion ==
  /\ wire.dir = "req" /\ wire.cmd = "GetVersion"
  /\ wire' = UnversionedResponse("GetVersion", KM_ERROR_OK,
               IF peers.sv2 THEN <<2, 0, 0>> ELSE <<peers.skm \div 10, peers.skm % 10, 0>>)
  /\ sver' = IF peers.sv2 THEN kDefaultMessageVersion ELSE sver
  /\ UNCHANGED <<peers, cpc, cver, call, served, got>>

\* Mutant: the answer to GetVersion2 is not used, and GetVersion is asked.
ReadVersion2Unused ==
  /\ cpc = "asked2" /\ wire.dir = "rsp" /\ wire.cmd = "GetVersion2"
  /\ cpc' = AfterFailedGetVersion2
  /\ wire' = Silent
  /\ UNCHANGED <<peers, cver, sver, call, served, got>>

ReadVersion2 ==
  /\ cpc = "asked2" /\ wire.dir = "rsp" /\ wire.cmd = "GetVersion2"
  /\ LET r == ReadResponse("GetVersion2")
     IN  IF r.ok /\ r.val[1] = KM_ERROR_OK
           THEN cver' = NegotiateMax(CMax, r.val[2]) /\ cpc' = "ready"
           ELSE cpc' = AfterFailedGetVersion2 /\ UNCHANGED cver
  /\ wire' = Silent
  /\ UNCHANGED <<peers, sver, call, served, got>>

ReadVersion ==
  /\ cpc = "asked" /\ wire.dir = "rsp" /\ wire.cmd = "GetVersion"
  /\ LET r == ReadResponse("GetVersion")
         v == NegotiateReported(r.val[2], r.val[3])
     IN  IF r.ok /\ v \in 0..CMax
           THEN cver' = v /\ cpc' = "ready"
           ELSE cpc' = "refused" /\ UNCHANGED cver
  /\ wire' = Silent
  /\ UNCHANGED <<peers, sver, call, served, got>>

(***************************************************************************)
(* Calls.                                                                  *)
(***************************************************************************)
Call(c, f) ==
  /\ cpc = "ready" /\ call = NoCall
  /\ LET kinds == FieldsAt(c, "req", cver)
         vals == Values(kinds, f)
     IN  /\ call' = [cmd |-> c, vals |-> vals]
         /\ wire' = Request(c, Serialize(kinds, vals, RequestSize(c, cver, vals)))
  /\ cpc' = "calling"
  /\ UNCHANGED <<peers, cver, sver, served, got>>

IsSupportedCall(c) == Schema[c].rsp = SupportedResponse

\* The server answers what it could not read with an error.  An array of
\* results it cannot allocate (SetResults) is an error too.
Answer(c, error, f) ==
  LET kinds == ResponseKinds(c, sver, error)
      vals == <<error>> \o IF error = KM_ERROR_OK THEN Values(FieldsAt(c, "rsp", sver), f) ELSE << >>
  IN  [vals |-> vals, bytes |-> Serialize(kinds, vals, ResponseSize(c, sver, vals))]

Errors(c) == {KM_ERROR_OK, UNKNOWN_ERROR}
             \cup (IF IsSupportedCall(c) THEN {MEMORY_ALLOCATION_FAILED} ELSE {})

\* VerifyAuthorizationResponse sends its error once more, as its first field.
Fixed(c, f) == IF c = "VerifyAuthorization" THEN f \ {1} ELSE f

Serve(f, error) ==
  /\ wire.dir = "req" /\ cpc = "calling"
  /\ LET c == wire.cmd
         r == Deserialize(FieldsAt(c, "req", sver), wire.bytes, 0, TRUE)
         e == IF r.ok THEN error ELSE UNKNOWN_ERROR
         a == Answer(c, e, Fixed(c, f))
     IN  /\ error \in Errors(c)
         /\ error # KM_ERROR_OK => f = {}
         /\ served' = [cmd |-> c, ok |-> r.ok, vals |-> r.val, answer |-> a.vals]
         /\ wire' = Response(c, a.bytes)
  /\ UNCHANGED <<peers, cpc, cver, sver, call, got>>

\* The client reads the answer; new[] may fail under its array of results.
Receive(mem) ==
  /\ cpc = "calling" /\ wire.dir = "rsp" /\ got = NoCall
  /\ mem \/ IsSupportedCall(wire.cmd)
  /\ LET r == DeserializeResponse(wire.cmd, cver, wire.bytes, mem)
     IN  got' = [cmd |-> wire.cmd, ok |-> r.ok, mem |-> mem, read |-> r.pos, vals |-> r.val]
  /\ UNCHANGED <<peers, cpc, cver, sver, wire, call, served>>

Return ==
  /\ got # NoCall
  /\ cpc' = "ready" /\ wire' = Silent /\ call' = NoCall /\ served' = NoCall /\ got' = NoCall
  /\ UNCHANGED <<peers, cver, sver>>

Hello ==
  \/ SendGetVersion2 \/ SendGetVersion \/ SkipNegotiation
  \/ ServeGetVersion2 \/ ServeGetVersion \/ ReadVersion2 \/ ReadVersion

Next ==
  \/ Hello
  \/ \E c \in Calls, f \in Fillings : Call(c, f)
  \/ \E f \in Fillings, e \in {KM_ERROR_OK, UNKNOWN_ERROR, MEMORY_ALLOCATION_FAILED} : Serve(f, e)
  \/ \E mem \in BOOLEAN : Receive(mem)
  \/ Return
  \/ cpc = "refused" /\ UNCHANGED vars

\* Weak fairness of Hello, which is enabled exactly until the session starts.
Greeting == cpc \notin {"ready", "calling", "refused"}
HelloFairness == []<><<Hello>>_vars \/ []<>~Greeting

Spec == Init /\ [][Next]_vars /\ HelloFairness

(***************************************************************************)
(* The bytes implement the negotiation of KmNegotiation: decoded, they are *)
(* its messages, and every step is one of its steps or changes nothing.    *)
(***************************************************************************)
NetOf ==
  CASE wire.cmd = "GetVersion2" /\ wire.dir = "req" ->
         [msg |-> "GetVersion2Request", max |-> wire.bytes[1]]
    [] wire.cmd = "GetVersion" /\ wire.dir = "req" -> [msg |-> "GetVersionRequest"]
    [] wire.dir = "rsp" /\ wire.cmd = "GetVersion2" ->
         IF wire.bytes[1] # KM_ERROR_OK THEN [msg |-> "ErrorResponse"]
         ELSE [msg |-> "GetVersion2Response", max |-> wire.bytes[U32 + 1]]
    [] wire.dir = "rsp" /\ wire.cmd = "GetVersion" ->
         [msg |-> "GetVersionResponse", major |-> wire.bytes[U32 + 1], minor |-> wire.bytes[U32 + 2]]
    [] OTHER -> [msg |-> "none"]

Negotiation == INSTANCE KmNegotiation WITH
  net <- NetOf, cpc <- IF cpc = "calling" THEN "ready" ELSE cpc

Negotiates == Negotiation!Spec

(***************************************************************************)
(* Client and server create all messages of the session with one version   *)
(* that both know, whichever of them is older and whoever had to fall back *)
(* to GetVersion.                                                          *)
(***************************************************************************)
VersionsAgree == Negotiation!VersionsAgree

(***************************************************************************)
(* What the server reads of a request is what the client wrote into a      *)
(* buffer of the SerializedSize() that the message has beside its          *)
(* Serialize(): every field of it, whatever fields are empty.  (Where the  *)
(* header only declares that function the size is taken to be right.)      *)
(***************************************************************************)
RequestsArrive ==
  served # NoCall =>
    /\ served.ok
    /\ served.cmd = call.cmd /\ served.vals = call.vals

(***************************************************************************)
(* What the client reads of an answer, written into a buffer of its        *)
(* SerializedSize() as above, is what the server answered; when its memory *)
(* ran out the read fails and says so.                                     *)
(***************************************************************************)
ResponsesArrive ==
  got # NoCall =>
    IF got.mem \/ served.answer[1] # KM_ERROR_OK
      THEN got.ok /\ got.vals = served.answer /\ got.read = Len(wire.bytes)
      ELSE ~got.ok

(***************************************************************************)
(* A message that lost its tail is not taken for a shorter message: no     *)
(* strict prefix of a request or of a response deserializes.               *)
(***************************************************************************)
NoPrefixAccepted ==
  cpc = "calling" =>
    \A k \in 0..(Len(wire.bytes) - 1) :
      LET cut == SubSeq(wire.bytes, 1, k)
      IN  IF wire.dir = "req"
            THEN ~Deserialize(FieldsAt(wire.cmd, "req", sver), cut, 0, TRUE).ok
            ELSE ~DeserializeResponse(wire.cmd, cver, cut, TRUE).ok

(***************************************************************************)
(* The negotiation ends: the fallback from GetVersion2 to GetVersion is    *)
(* taken once, and the client may call or is told that it cannot.          *)
(***************************************************************************)
SessionsStart == <>(cpc \in {"ready", "refused"})
=============================================================================
