------------------------------ MODULE CoseKeys ------------------------------
(***************************************************************************)
(* CoseKey (cppcose.h): a CBOR map that is parsed as a key of one kind,    *)
(* may get further entries, and is encoded again.  A map is the sequence   *)
(* of its entries <<label, item>>; an item is an integer, or a byte string *)
(* of which only the length counts.  Nothing here keeps a label from       *)
(* being there twice.                                                      *)
(***************************************************************************)
EXTENDS Integers, Sequences, FiniteSets

CONSTANTS
  Lengths,      \* lengths of the byte strings received
  Additions,    \* labels and items added, or received besides the usual ones
  MaxAdded      \* bound on the entries added

VARIABLES
  bytes,    \* the encoded map that was received or encoded last
  key,      \* key_ of the CoseKey parsed from it, or NoKey
  kind      \* the kind it was parsed as, and the map then

coseVars == <<bytes, key, kind>>

CoseKeyLabel == [KEY_TYPE |-> 1, KEY_ID |-> 2, ALGORITHM |-> 3, KEY_OPS |-> 4, CURVE |-> -1,
                 PUBKEY_X |-> -2, PUBKEY_Y |-> -3, PRIVATE_KEY |-> -4, TEST_KEY |-> -70000]
CoseKeyAlgorithm == [ES256 |-> -7, EDDSA |-> -8, ECDH_ES_HKDF_256 |-> -25, ES384 |-> -35]
CoseKeyCurve == [P256 |-> 1, P384 |-> 2, X25519 |-> 4, ED25519 |-> 6]
CoseKeyType == [OCTET_KEY_PAIR |-> 1, EC2 |-> 2, SYMMETRIC_KEY |-> 4]

int(n) == <<"int", n>>
bstr(len) == <<"bstr", len>>
Missing == <<"none", 0>>
NoKey == << >>
NoKind == [name |-> "none", map |-> << >>]

ASSUME AdditionsAssumption ==
  Additions \subseteq (DOMAIN CoseKeyLabel) \X (({"int"} \X Int) \cup ({"bstr"} \X Nat))

(***************************************************************************)
(* cppbor's map: get finds the first entry with a label.  canonicalize     *)
(* sorts in place by the encoding of the labels: short ones first, then by *)
(* value with the negative ones last; of entries with one label, those in  *)
(* front come first.                                                       *)
(***************************************************************************)
Has(map, label) == \E i \in DOMAIN map : map[i][1] = CoseKeyLabel[label]
get(map, label) ==
  IF ~Has(map, label) THEN Missing
  ELSE map[CHOOSE i \in DOMAIN map :
             /\ map[i][1] = CoseKeyLabel[label]
             /\ \A j \in 1..(i - 1) : map[j][1] # CoseKeyLabel[label]][2]

Rank(n) == IF n >= 0 THEN n ELSE 100 - n
canonicalize(map, front) ==
  LET rank(i) == Rank(map[i][1])
      before(i, j) ==
        \/ rank(i) < rank(j)
        \/ rank(i) = rank(j) /\ i \in front /\ j \notin front
        \/ rank(i) = rank(j) /\ (i \in front <=> j \in front) /\ i < j
      at(k) == CHOOSE i \in DOMAIN map : Cardinality({j \in DOMAIN map : before(j, i)}) = k - 1
  IN  [k \in DOMAIN map |-> map[at(k)]]
Repeated(map) == {i \in DOMAIN map : \E j \in DOMAIN map \ {i} : map[j][1] = map[i][1]}

checkIntValue(map, label, n) == get(map, label) = int(n)
isBstr(map, label, len) == get(map, label) = bstr(len)

\* Mutant: the algorithm and the curve are not compared.
parseTypeOnly(map, type, algorithm, curve) == checkIntValue(map, "KEY_TYPE", CoseKeyType[type])

\* parse with the expected type, algorithm and curve.
parse(map, type, algorithm, curve) ==
  /\ checkIntValue(map, "KEY_TYPE", CoseKeyType[type])
  /\ checkIntValue(map, "ALGORITHM", CoseKeyAlgorithm[algorithm])
  /\ checkIntValue(map, "CURVE", CoseKeyCurve[curve])

ED25519_PUBLIC_KEY_LEN == 32
X25519_PUBLIC_VALUE_LEN == 32

parseEd25519(map) ==
  /\ parse(map, "OCTET_KEY_PAIR", "EDDSA", "ED25519")
  /\ isBstr(map, "PUBKEY_X", ED25519_PUBLIC_KEY_LEN)

parseX25519(map, requireKid) ==
  /\ parse(map, "OCTET_KEY_PAIR", "ECDH_ES_HKDF_256", "X25519")
  /\ isBstr(map, "PUBKEY_X", X25519_PUBLIC_VALUE_LEN)
  /\ requireKid => get(map, "KEY_ID")[1] = "bstr"

parseP256(map) ==
  /\ parse(map, "EC2", "ES256", "P256")
  /\ isBstr(map, "PUBKEY_X", 32) /\ isBstr(map, "PUBKEY_Y", 32)

\* Mutant: the length of a P-256 coordinate.
parseP384Short(map) ==
  /\ parse(map, "EC2", "ES384", "P384")
  /\ isBstr(map, "PUBKEY_X", 32) /\ isBstr(map, "PUBKEY_Y", 32)

parseP384(map) ==
  /\ parse(map, "EC2", "ES384", "P384")
  /\ isBstr(map, "PUBKEY_X", 48) /\ isBstr(map, "PUBKEY_Y", 48)

Kinds == {"Ed25519", "X25519", "X25519kid", "P256", "P384"}
Accepts(k, map) ==
  CASE k = "Ed25519" -> parseEd25519(map)
    [] k = "X25519" -> parseX25519(map, FALSE)
    [] k = "X25519kid" -> parseX25519(map, TRUE)
    [] k = "P256" -> parseP256(map)
    [] k = "P384" -> parseP384(map)

\* getEcPublicKey: x then y; its length, or 0 when there is an error message.
getBstrValue(map, label) == IF get(map, label)[1] = "bstr" THEN get(map, label)[2] ELSE 0
getEcPublicKey(map) ==
  LET x == getBstrValue(map, "PUBKEY_X")
      y == getBstrValue(map, "PUBKEY_Y")
  IN  IF x = 0 \/ y = 0 THEN 0 ELSE x + y

(***************************************************************************)
(* Steps.                                                                  *)
(***************************************************************************)
CoseInit == bytes = << >> /\ key = NoKey /\ kind = NoKind

Coordinates == {Missing, int(1)} \cup {bstr(n) : n \in Lengths}
Entry(label, item) == IF item = Missing THEN << >> ELSE <<<<CoseKeyLabel[label], item>>>>
Reversed(map) == [i \in DOMAIN map |-> map[Len(map) + 1 - i]]

\* The first map, from outside: any entries, in the order of the labels or not.
Receive(type, algorithm, curve, x, y, kid, more, reversed) ==
  /\ LET map == Entry("KEY_TYPE", int(CoseKeyType[type])) \o Entry("KEY_ID", kid)
                \o Entry("ALGORITHM", int(CoseKeyAlgorithm[algorithm]))
                \o Entry("CURVE", int(CoseKeyCurve[curve]))
                \o Entry("PUBKEY_X", x) \o Entry("PUBKEY_Y", y) \o Entry(more[1], more[2])
     IN  bytes' = IF reversed THEN Reversed(map) ELSE map
  /\ UNCHANGED <<key, kind>>

Parse(k) ==
  /\ bytes # << >> /\ key = NoKey /\ Accepts(k, bytes)
  /\ key' = bytes /\ kind' = [name |-> k, map |-> bytes]
  /\ UNCHANGED bytes

\* add does not look whether the label is there.
Add(label, item) ==
  /\ key # NoKey /\ Len(key) < Len(kind.map) + MaxAdded
  /\ key' = Append(key, <<CoseKeyLabel[label], item>>)
  /\ UNCHANGED <<bytes, kind>>

Encode(front) ==
  /\ key # NoKey
  /\ key' = canonicalize(key, front) /\ bytes' = key'
  /\ UNCHANGED kind

CoseNext ==
  \/ /\ bytes = << >>
     /\ \E type \in DOMAIN CoseKeyType, algorithm \in DOMAIN CoseKeyAlgorithm,
           curve \in DOMAIN CoseKeyCurve, x, y \in Coordinates,
           kid \in {Missing, bstr(4), int(7)},
           more \in Additions \cup {<<"KEY_ID", Missing>>}, reversed \in BOOLEAN :
          Receive(type, algorithm, curve, x, y, kid, more, reversed)
  \/ \E k \in Kinds : Parse(k)
  \/ \E a \in Additions : Add(a[1], a[2])
  \/ \E front \in SUBSET Repeated(key) : Encode(front)
  \/ bytes # << >> /\ UNCHANGED coseVars

CoseSpec == CoseInit /\ [][CoseNext]_coseVars

(***************************************************************************)
(* What a key had when it was accepted it has in every encoding, however   *)
(* its map was ordered, whatever was added and in whatever order entries   *)
(* with one label are sorted: a label with one item (or with equal ones)   *)
(* is looked up as before, and if the labels its kind is told by are such, *)
(* the encoding is accepted as that kind and no other (X25519 with and     *)
(* without a key identifier is one kind).  With two items under one label  *)
(* nothing in the header refuses the map, and the encoding of the key may  *)
(* be one of another kind.                                                 *)
(***************************************************************************)
Family(k) == IF k = "X25519kid" THEN "X25519" ELSE k

Single(map, label) ==
  \A i, j \in DOMAIN map :
    map[i][1] = CoseKeyLabel[label] /\ map[j][1] = CoseKeyLabel[label] => map[i][2] = map[j][2]

ToldBy(k) ==
  {"KEY_TYPE", "ALGORITHM", "CURVE", "PUBKEY_X"}
    \cup (IF k \in {"P256", "P384"} THEN {"PUBKEY_Y"} ELSE {})
    \cup (IF k = "X25519kid" THEN {"KEY_ID"} ELSE {})

AcceptedStaysItself ==
  kind # NoKind =>
    /\ \A l \in DOMAIN CoseKeyLabel :
         Has(kind.map, l) /\ Single(bytes, l) => get(bytes, l) = get(kind.map, l)
    /\ (\A l \in ToldBy(kind.name) : Single(bytes, l)) =>
         /\ Accepts(kind.name, bytes)
         /\ \A k \in Kinds : Accepts(k, bytes) => Family(k) = Family(kind.name)

(***************************************************************************)
(* getEcPublicKey gives both coordinates, whole, of every P-256 and P-384  *)
(* key that was accepted and has one x and one y, and an error for every   *)
(* key of the other kinds that has no second coordinate.                   *)
(***************************************************************************)
EcPublicKeyWhole ==
  kind # NoKind =>
    IF kind.name \in {"P256", "P384"}
      THEN Single(key, "PUBKEY_X") /\ Single(key, "PUBKEY_Y") =>
             getEcPublicKey(key) = IF kind.name = "P256" THEN 64 ELSE 96
      ELSE ~Has(key, "PUBKEY_Y") => getEcPublicKey(key) = 0
=============================================================================
