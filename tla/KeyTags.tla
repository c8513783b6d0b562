------------------------------ MODULE KeyTags ------------------------------
(***************************************************************************)
(* The tags of key parameters: their numbers (Tag.h, TagType.h), and how   *)
(* keymint_tags.h and keymaster_tags.h type them and choose the union      *)
(* member that holds a value.  A tag is named as in the enumeration; what  *)
(* travels is its number.                                                  *)
(***************************************************************************)
EXTENDS Integers, Sequences, KeyEnums

\* Values are numbers; these two are no values.
Null == -2      \* a NullOr that is not ok
Abort == -3     \* __assert2 in KeyParameterValue::get, or a wrong member
True == 1

\* In units of 2^28: the values of TagType are these, as signed 32-bit numbers.
TagType ==
  [INVALID |-> 0, ENUM |-> 1, ENUM_REP |-> 2, UINT |-> 3, UINT_REP |-> 4, ULONG |-> 5,
   DATE |-> 6, BOOL |-> 7, BIGNUM |-> 8, BYTES |-> 9, ULONG_REP |-> 10]

Tag ==
  [INVALID |-> 0, PURPOSE |-> 536870913, ALGORITHM |-> 268435458, KEY_SIZE |-> 805306371,
   BLOCK_MODE |-> 536870916, DIGEST |-> 536870917, PADDING |-> 536870918,
   CALLER_NONCE |-> 1879048199, MIN_MAC_LENGTH |-> 805306376, EC_CURVE |-> 268435466,
   RSA_PUBLIC_EXPONENT |-> 1342177480, INCLUDE_UNIQUE_ID |-> 1879048394,
   RSA_OAEP_MGF_DIGEST |-> 536871115, BOOTLOADER_ONLY |-> 1879048494,
   ROLLBACK_RESISTANCE |-> 1879048495, HARDWARE_TYPE |-> 268435760,
   EARLY_BOOT_ONLY |-> 1879048497, ACTIVE_DATETIME |-> 1610613136,
   ORIGINATION_EXPIRE_DATETIME |-> 1610613137, USAGE_EXPIRE_DATETIME |-> 1610613138,
   MIN_SECONDS_BETWEEN_OPS |-> 805306771, MAX_USES_PER_BOOT |-> 805306772,
   USAGE_COUNT_LIMIT |-> 805306773, USER_ID |-> 805306869, USER_SECURE_ID |-> -1610612234,
   NO_AUTH_REQUIRED |-> 1879048695, USER_AUTH_TYPE |-> 268435960,
   AUTH_TIMEOUT |-> 805306873, ALLOW_WHILE_ON_BODY |-> 1879048698,
   TRUSTED_USER_PRESENCE_REQUIRED |-> 1879048699,
   TRUSTED_CONFIRMATION_REQUIRED |-> 1879048700, UNLOCKED_DEVICE_REQUIRED |-> 1879048701,
   APPLICATION_ID |-> -1879047591, APPLICATION_DATA |-> -1879047492,
   CREATION_DATETIME |-> 1610613437, ORIGIN |-> 268436158, ROOT_OF_TRUST |-> -1879047488,
   OS_VERSION |-> 805307073, OS_PATCHLEVEL |-> 805307074, UNIQUE_ID |-> -1879047485,
   ATTESTATION_CHALLENGE |-> -1879047484, ATTESTATION_APPLICATION_ID |-> -1879047483,
   ATTESTATION_ID_BRAND |-> -1879047482, ATTESTATION_ID_DEVICE |-> -1879047481,
   ATTESTATION_ID_PRODUCT |-> -1879047480, ATTESTATION_ID_SERIAL |-> -1879047479,
   ATTESTATION_ID_IMEI |-> -1879047478, ATTESTATION_ID_MEID |-> -1879047477,
   ATTESTATION_ID_MANUFACTURER |-> -1879047476, ATTESTATION_ID_MODEL |-> -1879047475,
   VENDOR_PATCHLEVEL |-> 805307086, BOOT_PATCHLEVEL |-> 805307087,
   DEVICE_UNIQUE_ATTESTATION |-> 1879048912, IDENTITY_CREDENTIAL_KEY |-> 1879048913,
   STORAGE_KEY |-> 1879048914, ATTESTATION_ID_SECOND_IMEI |-> -1879047469,
   ASSOCIATED_DATA |-> -1879047192, NONCE |-> -1879047191, MAC_LENGTH |-> 805307371,
   RESET_SINCE_ID_ROTATION |-> 1879049196, CONFIRMATION_TOKEN |-> -1879047187,
   CERTIFICATE_SERIAL |-> -2147482642, CERTIFICATE_SUBJECT |-> -1879047185,
   CERTIFICATE_NOT_BEFORE |-> 1610613744, CERTIFICATE_NOT_AFTER |-> 1610613745,
   MAX_BOOT_LEVEL |-> 805307378]

Names == DOMAIN Tag
TypeMask == 268435456    \* 2^28

\* enum_values and toString of TagType; every other type is an unsupported one.
TypeNames == DOMAIN TagType
TypeToString(v) == CHOOSE n \in TypeNames : TagType[n] = v

typeFromTag(t) == TypeToString((t \div TypeMask) % 16)
masked_tag(t) == t % TypeMask
Repeatable(n) == typeFromTag(Tag[n]) \in {"ENUM_REP", "UINT_REP", "ULONG_REP"}

\* toString(Tag): the name of a number; other numbers print as themselves.
NameOf(t) == CHOOSE n \in Names : Tag[n] = t

(***************************************************************************)
(* keymint_tags.h: MAKE_TAG_VALUE_ACCESSOR by type, the enumerations tag   *)
(* by tag.  A KeyParameter holds one member of KeyParameterValue.          *)
(***************************************************************************)
ValueAccessor ==
  [ULONG |-> "longInteger", ULONG_REP |-> "longInteger", DATE |-> "dateTime",
   UINT |-> "integer", UINT_REP |-> "integer", BOOL |-> "boolValue", BYTES |-> "blob",
   BIGNUM |-> "blob"]

EnumValueAccessor ==
  [ALGORITHM |-> "algorithm", BLOCK_MODE |-> "blockMode", DIGEST |-> "digest",
   EC_CURVE |-> "ecCurve", ORIGIN |-> "origin", PADDING |-> "paddingMode",
   PURPOSE |-> "keyPurpose", USER_AUTH_TYPE |-> "hardwareAuthenticatorType",
   HARDWARE_TYPE |-> "securityLevel", RSA_OAEP_MGF_DIGEST |-> "digest"]

unionTag(n) == IF n \in DOMAIN EnumValueAccessor THEN EnumValueAccessor[n]
               ELSE IF n = "INVALID" THEN "invalid"
               ELSE ValueAccessor[typeFromTag(Tag[n])]

\* DECLARE_TYPED_TAG gives every tag of the enumeration a type.
TypedTags == Names

\* KeyParameterValue: make, getTag and the checked get.
Make(field, v) == [field |-> field, v |-> v]
Get(value, field) == IF value.field = field THEN value.v ELSE Abort

\* Authorization: presence is truth for a BOOL.
Authorization(n, v) ==
  [tag |-> Tag[n], value |-> Make(unionTag(n), IF unionTag(n) = "boolValue" THEN True ELSE v)]

accessTagValue(n, param) ==
  IF param.value.field = unionTag(n) THEN Get(param.value, unionTag(n)) ELSE Null

(***************************************************************************)
(* keymaster_tags.h: each declaration names the type of its tag.           *)
(***************************************************************************)
DECLARE_KEYMASTER_TAG ==
  [INVALID |->
     {"INVALID"},
   UINT |->
     {"KEY_SIZE", "MAC_LENGTH", "MIN_MAC_LENGTH", "MIN_SECONDS_BETWEEN_OPS",
      "MAX_USES_PER_BOOT", "USAGE_COUNT_LIMIT", "USER_ID", "AUTH_TIMEOUT", "OS_VERSION",
      "OS_PATCHLEVEL", "BOOT_PATCHLEVEL", "VENDOR_PATCHLEVEL"},
   BOOL |->
     {"CALLER_NONCE", "ECIES_SINGLE_HASH_MODE", "INCLUDE_UNIQUE_ID", "ALL_USERS",
      "NO_AUTH_REQUIRED", "ALLOW_WHILE_ON_BODY", "UNLOCKED_DEVICE_REQUIRED",
      "TRUSTED_CONFIRMATION_REQUIRED", "ALL_APPLICATIONS", "ROLLBACK_RESISTANCE",
      "ROLLBACK_RESISTANT", "BOOTLOADER_ONLY", "RESET_SINCE_ID_ROTATION", "EARLY_BOOT_ONLY",
      "DEVICE_UNIQUE_ATTESTATION", "IDENTITY_CREDENTIAL_KEY", "STORAGE_KEY",
      "TRUSTED_USER_PRESENCE_REQUIRED"},
   ULONG |->
     {"RSA_PUBLIC_EXPONENT"},
   DATE |->
     {"ACTIVE_DATETIME", "ORIGINATION_EXPIRE_DATETIME", "USAGE_EXPIRE_DATETIME",
      "CREATION_DATETIME", "CERTIFICATE_NOT_BEFORE", "CERTIFICATE_NOT_AFTER"},
   ULONG_REP |->
     {"USER_SECURE_ID"},
   BYTES |->
     {"APPLICATION_ID", "APPLICATION_DATA", "ROOT_OF_TRUST", "ASSOCIATED_DATA", "NONCE",
      "AUTH_TOKEN", "UNIQUE_ID", "ATTESTATION_CHALLENGE", "ATTESTATION_APPLICATION_ID",
      "ATTESTATION_ID_BRAND", "ATTESTATION_ID_DEVICE", "ATTESTATION_ID_PRODUCT",
      "ATTESTATION_ID_SERIAL", "ATTESTATION_ID_IMEI", "ATTESTATION_ID_SECOND_IMEI",
      "ATTESTATION_ID_MEID", "ATTESTATION_ID_MANUFACTURER", "ATTESTATION_ID_MODEL",
      "CONFIRMATION_TOKEN", "CERTIFICATE_SUBJECT"},
   BIGNUM |->
     {"CERTIFICATE_SERIAL"}]

DECLARE_KEYMASTER_ENUM_TAG ==
  [ENUM_REP |->
     {"PURPOSE", "BLOCK_MODE", "DIGEST", "PADDING", "KDF", "RSA_OAEP_MGF_DIGEST"},
   ENUM |->
     {"ALGORITHM", "DIGEST_OLD", "PADDING_OLD", "BLOB_USAGE_REQUIREMENTS", "ORIGIN",
      "USER_AUTH_TYPE", "EC_CURVE"}]

DeclaredTags ==
  (UNION {DECLARE_KEYMASTER_TAG[ty] : ty \in DOMAIN DECLARE_KEYMASTER_TAG})
  \cup (UNION {DECLARE_KEYMASTER_ENUM_TAG[ty] : ty \in DOMAIN DECLARE_KEYMASTER_ENUM_TAG})

DeclaredType(n) ==
  CHOOSE ty \in TypeNames :
    \/ ty \in DOMAIN DECLARE_KEYMASTER_TAG /\ n \in DECLARE_KEYMASTER_TAG[ty]
    \/ ty \in DOMAIN DECLARE_KEYMASTER_ENUM_TAG /\ n \in DECLARE_KEYMASTER_ENUM_TAG[ty]

\* Authorization of keymaster_tags.h: the member of keymaster_key_param_t.
KmAuthorization ==
  [BOOL |-> "boolean", UINT |-> "integer", UINT_REP |-> "integer", ULONG |-> "long_integer",
   ULONG_REP |-> "long_integer", DATE |-> "date_time", BYTES |-> "blob", BIGNUM |-> "blob",
   ENUM |-> "enumerated", ENUM_REP |-> "enumerated"]

\* Mutant: a date is read as an integer.
KmGetTagValueDate32 ==
  [ENUM |-> "enumerated", ENUM_REP |-> "enumerated", UINT |-> "integer",
   UINT_REP |-> "integer", ULONG |-> "long_integer", ULONG_REP |-> "long_integer",
   DATE |-> "integer", BYTES |-> "blob", BIGNUM |-> "blob", BOOL |-> "boolean"]

\* GetTagValue of authorization_set.h: the member the overload for a type reads.
KmGetTagValue ==
  [ENUM |-> "enumerated", ENUM_REP |-> "enumerated", UINT |-> "integer",
   UINT_REP |-> "integer", ULONG |-> "long_integer", ULONG_REP |-> "long_integer",
   DATE |-> "long_integer", BYTES |-> "blob", BIGNUM |-> "blob", BOOL |-> "boolean"]

\* Members of the union that lie over each other.
Overlay(member) == IF member = "date_time" THEN "long_integer" ELSE member
=============================================================================
