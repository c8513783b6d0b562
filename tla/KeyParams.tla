----------------------------- MODULE KeyParams -----------------------------
(***************************************************************************)
(* Key parameters on their way into a key and its attestation: a client    *)
(* makes them with the Authorization functions of keymint_tags.h, the HAL  *)
(* takes them over into a keymaster set, adds its own with those of        *)
(* keymaster_tags.h, reads them, and builds a record (attestation_record.h)*)
(* The conversion and the builder are declared in the headers and defined  *)
(* elsewhere; what a malformed parameter becomes there is left out.        *)
(***************************************************************************)
EXTENDS KeyTags, KmVersions, FiniteSets

CONSTANTS
  FirstTags, LaterTags,   \* tags of the first parameter, of later ones
  MaxParams               \* bound on the parameters of a set

ASSUME TagsAssumption == FirstTags \cup LaterTags \subseteq TypedTags \ {"INVALID"}

VARIABLES
  stage,    \* "client", "hal", then "attested"
  client,   \* the parameters of the client
  km,       \* the keymaster set of the HAL
  put,      \* names and values given to the Authorization functions
  record    \* the attestation: format, versions and entries

paramVars == <<stage, client, km, put, record>>

NoRecord == [format |-> "none"]

ParamsInit ==
  /\ stage = "client" /\ client = << >> /\ km = << >> /\ put = {} /\ record = NoRecord

\* An enumerated parameter holds a value of its enumeration, a BOOL is true,
\* another one has a value that tells the parameters of a set apart.
ValuesOf(n, s) ==
  LET field == unionTag(n)
  IN  CASE field \in DOMAIN EnumOf -> Numbers(EnumOf[field])
        [] field = "boolValue" -> {True}
        [] OTHER -> {IF s = << >> THEN 1001 ELSE 1002}
NextTags(s) == IF s = << >> THEN FirstTags ELSE LaterTags

\* Authorization of keymint_tags.h, and push_back.
Authorize(n, v) ==
  /\ stage = "client" /\ Len(client) < MaxParams
  /\ client' = Append(client, Authorization(n, v)) /\ put' = put \cup {<<n, v>>}
  /\ UNCHANGED <<stage, km, record>>

(***************************************************************************)
(* The conversion keeps the number of a tag (legacy_enum_conversion), and  *)
(* the type in the number (typeFromTag) chooses the member.                *)
(***************************************************************************)
MemberOfType ==
  [BOOL |-> "boolean", UINT |-> "integer", UINT_REP |-> "integer", ULONG |-> "long_integer",
   ULONG_REP |-> "long_integer", DATE |-> "date_time", BYTES |-> "blob", BIGNUM |-> "blob",
   ENUM |-> "enumerated", ENUM_REP |-> "enumerated"]

KmParam(param) == [tag |-> param.tag, member |-> MemberOfType[typeFromTag(param.tag)],
                   v |-> accessTagValue(NameOf(param.tag), param)]

aidlKeyParams2Km ==
  /\ stage = "client"
  /\ stage' = "hal" /\ km' = [i \in DOMAIN client |-> KmParam(client[i])]
  /\ UNCHANGED <<client, put, record>>

\* The HAL's own: Authorization of keymaster_tags.h, by the declared type.
HalAuthorize(n, v) ==
  /\ stage = "hal" /\ Len(km) < MaxParams /\ n \in DeclaredTags
  /\ km' = Append(km, [tag |-> Tag[n], member |-> KmAuthorization[DeclaredType(n)], v |-> v])
  /\ put' = put \cup {<<n, v>>}
  /\ UNCHANGED <<stage, client, record>>

\* The entries with a tag, each read by the overload for the declared type.
KmEntries(n) == {i \in DOMAIN km : km[i].tag = Tag[n]}
KmValue(n, i) == IF Overlay(km[i].member) = Overlay(KmGetTagValue[DeclaredType(n)])
                   THEN km[i].v ELSE Abort

(***************************************************************************)
(* attestation_record.h: the fields of the struct KM_AUTH_LIST by kind,    *)
(* and what ASN1_SEQUENCE(KM_AUTH_LIST) encodes them as, under masked_tag. *)
(***************************************************************************)
KM_AUTH_LIST ==
  [SET_OF_INTEGER |->
     {"PURPOSE", "BLOCK_MODE", "DIGEST", "PADDING", "KDF", "RSA_OAEP_MGF_DIGEST"},
   INTEGER |->
     {"ALGORITHM", "KEY_SIZE", "MIN_MAC_LENGTH", "EC_CURVE", "RSA_PUBLIC_EXPONENT",
      "ACTIVE_DATETIME", "ORIGINATION_EXPIRE_DATETIME", "USAGE_EXPIRE_DATETIME",
      "USAGE_COUNT_LIMIT", "USER_AUTH_TYPE", "AUTH_TIMEOUT", "CREATION_DATETIME", "ORIGIN",
      "OS_VERSION", "OS_PATCHLEVEL", "VENDOR_PATCHLEVEL", "BOOT_PATCHLEVEL"},
   NULL |->
     {"CALLER_NONCE", "ROLLBACK_RESISTANCE", "EARLY_BOOT_ONLY", "NO_AUTH_REQUIRED",
      "ALLOW_WHILE_ON_BODY", "TRUSTED_USER_PRESENCE_REQUIRED",
      "TRUSTED_CONFIRMATION_REQUIRED", "UNLOCKED_DEVICE_REQUIRED", "ALL_APPLICATIONS",
      "ROLLBACK_RESISTANT", "DEVICE_UNIQUE_ATTESTATION", "IDENTITY_CREDENTIAL_KEY"},
   OCTET_STRING |->
     {"APPLICATION_ID", "ATTESTATION_APPLICATION_ID", "ATTESTATION_ID_BRAND",
      "ATTESTATION_ID_DEVICE", "ATTESTATION_ID_PRODUCT", "ATTESTATION_ID_SERIAL",
      "ATTESTATION_ID_IMEI", "ATTESTATION_ID_MEID", "ATTESTATION_ID_MANUFACTURER",
      "ATTESTATION_ID_MODEL", "ATTESTATION_ID_SECOND_IMEI"},
   KM_ROOT_OF_TRUST |-> {"ROOT_OF_TRUST"}]

\* Mutant: PURPOSE has not the macro of a SET OF.
ASN1_SET_OF_WithoutPurpose == {"BLOCK_MODE", "DIGEST", "PADDING", "KDF", "RSA_OAEP_MGF_DIGEST"}

ASN1_SET_OF == {"PURPOSE", "BLOCK_MODE", "DIGEST", "PADDING", "KDF", "RSA_OAEP_MGF_DIGEST"}

ASN1_INTEGER ==
  {"ALGORITHM", "KEY_SIZE", "MIN_MAC_LENGTH", "EC_CURVE", "RSA_PUBLIC_EXPONENT",
   "ACTIVE_DATETIME", "ORIGINATION_EXPIRE_DATETIME", "USAGE_EXPIRE_DATETIME",
   "USAGE_COUNT_LIMIT", "USER_AUTH_TYPE", "AUTH_TIMEOUT", "CREATION_DATETIME", "ORIGIN",
   "OS_VERSION", "OS_PATCHLEVEL", "VENDOR_PATCHLEVEL", "BOOT_PATCHLEVEL"}

ASN1_NULL ==
  {"CALLER_NONCE", "ROLLBACK_RESISTANCE", "EARLY_BOOT_ONLY", "NO_AUTH_REQUIRED",
   "ALLOW_WHILE_ON_BODY", "TRUSTED_USER_PRESENCE_REQUIRED", "TRUSTED_CONFIRMATION_REQUIRED",
   "UNLOCKED_DEVICE_REQUIRED", "ALL_APPLICATIONS", "ROLLBACK_RESISTANT",
   "DEVICE_UNIQUE_ATTESTATION", "IDENTITY_CREDENTIAL_KEY"}

ASN1_OCTET_STRING ==
  {"APPLICATION_ID", "ATTESTATION_APPLICATION_ID", "ATTESTATION_ID_BRAND",
   "ATTESTATION_ID_DEVICE", "ATTESTATION_ID_PRODUCT", "ATTESTATION_ID_SERIAL",
   "ATTESTATION_ID_IMEI", "ATTESTATION_ID_MEID", "ATTESTATION_ID_MANUFACTURER",
   "ATTESTATION_ID_MODEL", "ATTESTATION_ID_SECOND_IMEI"}

ASN1_SEQUENCE ==
  [SET_OF_INTEGER |-> ASN1_SET_OF, INTEGER |-> ASN1_INTEGER, NULL |-> ASN1_NULL,
   OCTET_STRING |-> ASN1_OCTET_STRING, KM_ROOT_OF_TRUST |-> {"ROOT_OF_TRUST"}]

EAT_CLAIM_PRIVATE_BASE == -80000
convert_to_eat_claim(t) == EAT_CLAIM_PRIVATE_BASE - masked_tag(t)

EatClaim ==
  {"PURPOSE", "ALGORITHM", "KEY_SIZE", "BLOCK_MODE", "DIGEST", "PADDING", "CALLER_NONCE",
   "MIN_MAC_LENGTH", "EC_CURVE", "RSA_PUBLIC_EXPONENT", "EARLY_BOOT_ONLY",
   "ACTIVE_DATETIME", "ORIGINATION_EXPIRE_DATETIME", "USAGE_EXPIRE_DATETIME",
   "NO_AUTH_REQUIRED", "USER_AUTH_TYPE", "AUTH_TIMEOUT", "ALLOW_WHILE_ON_BODY",
   "TRUSTED_USER_PRESENCE_REQUIRED", "TRUSTED_CONFIRMATION_REQUIRED",
   "UNLOCKED_DEVICE_REQUIRED", "ALL_APPLICATIONS", "APPLICATION_ID", "ORIGIN",
   "ROLLBACK_RESISTANT", "OS_VERSION", "OS_PATCHLEVEL", "ATTESTATION_APPLICATION_ID",
   "ATTESTATION_ID_BRAND", "ATTESTATION_ID_DEVICE", "ATTESTATION_ID_PRODUCT",
   "ATTESTATION_ID_SERIAL", "ATTESTATION_ID_MEID", "ATTESTATION_ID_MANUFACTURER",
   "VENDOR_PATCHLEVEL", "BOOT_PATCHLEVEL", "ATTESTATION_ID_MODEL",
   "DEVICE_UNIQUE_ATTESTATION", "IDENTITY_CREDENTIAL_KEY", "STORAGE_KEY",
   "CONFIRMATION_TOKEN"}

\* The claims that are no tags, below EAT_CLAIM_PRIVATE_NON_KM_BASE.
NonKmClaims == {EAT_CLAIM_PRIVATE_BASE - 2000 - i : i \in 1..6}

version_to_attestation_km_version(v) ==
  CASE v = 20 -> 2 [] v = 30 -> 3 [] v = 40 -> 4 [] v = 41 -> 41
    [] v \in {100, 200, 300} -> v [] OTHER -> 0

version_to_attestation_version(v) ==
  CASE v = 20 -> 1 [] v = 30 -> 2 [] v = 40 -> 3 [] v = 41 -> 4
    [] v \in {100, 200, 300} -> v [] OTHER -> 0

Label(format, t) == IF format = "asn1" THEN masked_tag(t) ELSE convert_to_eat_claim(t)

(***************************************************************************)
(* build_auth_list and build_eat_submod: a field takes values of the types *)
(* its kind can hold, a SET OF all of them, another field the last; the    *)
(* root of trust is no parameter.  A claim takes any item, or an array.    *)
(***************************************************************************)
Holds ==
  [SET_OF_INTEGER |-> {"ENUM_REP", "UINT_REP", "ULONG_REP"},
   INTEGER |-> {"ENUM", "UINT", "ULONG", "DATE"}, NULL |-> {"BOOL"},
   OCTET_STRING |-> {"BYTES"}, KM_ROOT_OF_TRUST |-> {}]

IsLast(i) == \A j \in DOMAIN km : km[j].tag = km[i].tag => j <= i

InField(kind, n, i) ==
  /\ n \in KM_AUTH_LIST[kind] \cap ASN1_SEQUENCE[kind] /\ typeFromTag(Tag[n]) \in Holds[kind]
  /\ kind = "SET_OF_INTEGER" \/ IsLast(i)

Recorded(format, i) ==
  LET n == NameOf(km[i].tag)
  IN  IF format = "asn1" THEN \E kind \in DOMAIN KM_AUTH_LIST : InField(kind, n, i)
      ELSE n \in EatClaim /\ (Repeatable(n) \/ IsLast(i))

BuildRecord(format, ver) ==
  /\ stage = "hal"
  /\ stage' = "attested"
  /\ record' = [format |-> format, version |-> version_to_attestation_version(ver),
                km_version |-> version_to_attestation_km_version(ver),
                entries |-> {<<Label(format, km[i].tag), km[i].v>> :
                               i \in {j \in DOMAIN km : Recorded(format, j)}}]
  /\ UNCHANGED <<client, km, put>>

\* What a reader of the record finds under a tag.
Extracted(n) == {e[2] : e \in {f \in record.entries : f[1] = Label(record.format, Tag[n])}}

ParamsNext ==
  \/ \E n \in NextTags(client) : \E v \in ValuesOf(n, client) : Authorize(n, v)
  \/ aidlKeyParams2Km
  \/ \E n \in NextTags(km) : \E v \in ValuesOf(n, km) : HalAuthorize(n, v)
  \/ \E format \in {"asn1", "eat"}, ver \in KmVersion : BuildRecord(format, ver)
  \/ stage = "attested" /\ UNCHANGED paramVars

ParamsSpec == ParamsInit /\ [][ParamsNext]_paramVars

Put(n) == {p[2] : p \in {q \in put : q[1] = n}}

(***************************************************************************)
(* Whichever Authorization function made a parameter, by the type in the   *)
(* number of its tag or by the type keymaster_tags.h declares, GetTagValue *)
(* of the declared type reads the member that was written.                 *)
(***************************************************************************)
HalReads ==
  stage # "client" =>
    \A n \in (Names \cap DeclaredTags) \ {"INVALID"} :
      {KmValue(n, i) : i \in KmEntries(n)} = Put(n)

(***************************************************************************)
(* A record of either format says what was put under every tag, but for    *)
(* those listed here, of which it says nothing: the root of trust, and     *)
(* tags without a field or a claim.  "With the same values" (line 344) the *)
(* two formats are not: six of the tags with a field have no claim of      *)
(* their own (an IMEI is in UEID), two with a claim have no field.  No tag *)
(* is read in the place of another or of a claim that is no tag, and the   *)
(* two version numbers name one version (from Keymaster 2 on).             *)
(***************************************************************************)
NotAttested ==
  [asn1 |->
     {"INCLUDE_UNIQUE_ID", "BOOTLOADER_ONLY", "HARDWARE_TYPE",
      "MIN_SECONDS_BETWEEN_OPS", "MAX_USES_PER_BOOT", "USER_ID",
      "USER_SECURE_ID", "APPLICATION_DATA", "ROOT_OF_TRUST", "UNIQUE_ID",
      "ATTESTATION_CHALLENGE", "STORAGE_KEY", "ASSOCIATED_DATA", "NONCE",
      "MAC_LENGTH", "RESET_SINCE_ID_ROTATION", "CONFIRMATION_TOKEN",
      "CERTIFICATE_SERIAL", "CERTIFICATE_SUBJECT", "CERTIFICATE_NOT_BEFORE",
      "CERTIFICATE_NOT_AFTER", "MAX_BOOT_LEVEL"},
   eat |->
     {"INCLUDE_UNIQUE_ID", "RSA_OAEP_MGF_DIGEST", "BOOTLOADER_ONLY",
      "ROLLBACK_RESISTANCE", "HARDWARE_TYPE", "MIN_SECONDS_BETWEEN_OPS",
      "MAX_USES_PER_BOOT", "USAGE_COUNT_LIMIT", "USER_ID", "USER_SECURE_ID",
      "APPLICATION_DATA", "CREATION_DATETIME", "ROOT_OF_TRUST", "UNIQUE_ID",
      "ATTESTATION_CHALLENGE", "ATTESTATION_ID_IMEI",
      "ATTESTATION_ID_SECOND_IMEI", "ASSOCIATED_DATA", "NONCE", "MAC_LENGTH",
      "RESET_SINCE_ID_ROTATION", "CERTIFICATE_SERIAL", "CERTIFICATE_SUBJECT",
      "CERTIFICATE_NOT_BEFORE", "CERTIFICATE_NOT_AFTER", "MAX_BOOT_LEVEL"}]

AttestationFaithful ==
  record # NoRecord =>
    /\ \A n \in Names \ {"INVALID"} :
         IF n \in NotAttested[record.format] THEN Extracted(n) = {}
         ELSE Repeatable(n) \/ Cardinality(Put(n)) <= 1 => Extracted(n) = Put(n)
    /\ \A e \in record.entries : e[1] \notin NonKmClaims
    /\ \A v \in KmVersion \ {10, 11} :
         record.version = version_to_attestation_version(v) =>
           record.km_version = version_to_attestation_km_version(v)
=============================================================================
