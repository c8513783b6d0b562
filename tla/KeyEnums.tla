------------------------------ MODULE KeyEnums ------------------------------
(***************************************************************************)
(* The enumerations of KeyMint that parameters hold: names and the numbers *)
(* that travel.  A static_cast between two enumerations keeps the number   *)
(* (-1 stands for its 32 bits, whatever their sign).                       *)
(***************************************************************************)
EXTENDS Integers

Algorithm == [RSA |-> 1, EC |-> 3, AES |-> 32, TRIPLE_DES |-> 33, HMAC |-> 128]

BlockMode == [ECB |-> 1, CBC |-> 2, CTR |-> 3, GCM |-> 32]

Digest == [NONE |-> 0, MD5 |-> 1, SHA1 |-> 2, SHA_2_224 |-> 3, SHA_2_256 |-> 4,
           SHA_2_384 |-> 5, SHA_2_512 |-> 6]

EcCurve == [P_224 |-> 0, P_256 |-> 1, P_384 |-> 2, P_521 |-> 3, CURVE_25519 |-> 4]

KeyOrigin == [GENERATED |-> 0, DERIVED |-> 1, IMPORTED |-> 2, RESERVED |-> 3,
              SECURELY_IMPORTED |-> 4]

PaddingMode == [NONE |-> 1, RSA_OAEP |-> 2, RSA_PSS |-> 3, RSA_PKCS1_1_5_ENCRYPT |-> 4,
                RSA_PKCS1_1_5_SIGN |-> 5, PKCS7 |-> 64]

KeyPurpose == [ENCRYPT |-> 0, DECRYPT |-> 1, SIGN |-> 2, VERIFY |-> 3, WRAP_KEY |-> 5,
               AGREE_KEY |-> 6, ATTEST_KEY |-> 7]

HardwareAuthenticatorType == [NONE |-> 0, PASSWORD |-> 1, FINGERPRINT |-> 2, ANY |-> -1]

SecurityLevel == [SOFTWARE |-> 0, TRUSTED_ENVIRONMENT |-> 1, STRONGBOX |-> 2, KEYSTORE |-> 100]

\* The enumeration each member of KeyParameterValue holds.
EnumOf ==
  [algorithm |-> Algorithm, blockMode |-> BlockMode, digest |-> Digest, ecCurve |-> EcCurve,
   origin |-> KeyOrigin, paddingMode |-> PaddingMode, keyPurpose |-> KeyPurpose,
   hardwareAuthenticatorType |-> HardwareAuthenticatorType, securityLevel |-> SecurityLevel]

Numbers(enum) == {enum[name] : name \in DOMAIN enum}
=============================================================================
