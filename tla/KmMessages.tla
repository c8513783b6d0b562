----------------------------- MODULE KmMessages -----------------------------
(***************************************************************************)
(* The messages of android_keymaster_messages.h as their fields, in the    *)
(* order they are serialized.  Where a struct only declares its Serialize  *)
(* the fields are its data members in declaration order.  Kinds are those  *)
(* of KmWire.                                                              *)
(***************************************************************************)
EXTENDS KmVersions, KmWire, TLC

(***************************************************************************)
(* Commands, in the order of the enumeration.                              *)
(***************************************************************************)
CommandNames ==
  <<"GenerateKey", "BeginOperation", "UpdateOperation", "FinishOperation", "AbortOperation",
    "ImportKey", "ExportKey", "GetVersion", "AddEntropy", "SupportedAlgorithms",
    "SupportedBlockModes", "SupportedPaddingModes", "SupportedDigests",
    "SupportedImportFormats", "SupportedExportFormats", "GetKeyCharacteristics", "AttestKey",
    "UpgradeKey", "Configure", "GetHmacSharingParameters", "ComputeSharedHmac",
    "VerifyAuthorization", "DeleteKey", "DeleteAllKeys", "DestroyAttestationIds",
    "ImportWrappedKey", "EarlyBootEnded", "DeviceLocked", "GetVersion2", "GenerateRkpKey",
    "GenerateCsr", "GenerateTimestampToken", "ConfigureVendorPatchlevel",
    "ConfigureBootPatchlevel", "ConfigureVerifiedBootInfo", "GetRootOfTrust", "GetHwInfo",
    "GenerateCsrV2", "SetAttestationIds", "SetAttestationIdsKM3">>

Commands == {CommandNames[i] : i \in DOMAIN CommandNames}

(***************************************************************************)
(* Tokens, which other messages contain.                                   *)
(***************************************************************************)
HmacSharingParameters == <<"blob", "nonce">>
HardwareAuthToken == <<"u64", "u64", "u64", "u32", "u64", "blob">>
VerificationToken == <<"u64", "u64", "blob", "u32", "blob">>
TimestampToken == <<"u64", "u64", "u32", "blob">>

(***************************************************************************)
(* Requests and responses, by command; a response is what follows its      *)
(* error.  One definition for each stretch of the header.                  *)
(***************************************************************************)
Message(req, rsp) == [req |-> req, rsp |-> rsp]
EmptyKeymasterRequest == << >>
EmptyKeymasterResponse == << >>

SupportedResponse == <<"u32s">>
SupportedByAlgorithmRequest == <<"u32">>
SupportedByAlgorithmAndPurposeRequest == <<"u32", "u32">>

SupportedMessages ==
  [c \in {"SupportedAlgorithms"} |-> Message(EmptyKeymasterRequest, SupportedResponse)]
  @@ [c \in {"SupportedImportFormats", "SupportedExportFormats"} |->
        Message(SupportedByAlgorithmRequest, SupportedResponse)]
  @@ [c \in {"SupportedBlockModes", "SupportedPaddingModes", "SupportedDigests"} |->
        Message(SupportedByAlgorithmAndPurposeRequest, SupportedResponse)]

GenerateMessages ==
  [GenerateKey    |-> Message(<<"blob", "blob", "blob", "blob">>, <<"blob", "blob", "blob", "blobs">>),
   GenerateRkpKey |-> Message(<<"u8">>, <<"blob", "blob">>),
   GenerateCsr    |-> Message(<<"u8", "blobs", "blob", "blob">>, <<"blob", "blob", "blob">>),
   GenerateCsrV2  |-> Message(<<"blobs", "blob">>, <<"blob">>)]

OperationMessages ==
  [GetKeyCharacteristics |-> Message(<<"blob", "blob">>, <<"blob", "blob">>),
   BeginOperation  |-> Message(<<"u32", "blob", "blob">>, <<"u64", "blob">>),
   UpdateOperation |-> Message(<<"u64", "blob", "blob">>, <<"blob", "u32", "blob">>),
   FinishOperation |-> Message(<<"u64", "blob", "blob", "blob">>, <<"blob", "blob">>),
   AbortOperation  |-> Message(<<"u64">>, EmptyKeymasterResponse)]

KeyMessages ==
  [AddEntropy |-> Message(<<"blob">>, EmptyKeymasterResponse),
   ImportKey  |-> Message(<<"blob", "u32", "blob", "blob", "blob", "blob">>,
                          <<"blob", "blob", "blob", "blobs">>),
   ExportKey  |-> Message(<<"blob", "u32", "blob">>, <<"blob">>),
   DeleteKey  |-> Message(<<"blob">>, EmptyKeymasterResponse),
   DeleteAllKeys |-> Message(EmptyKeymasterRequest, EmptyKeymasterResponse),
   DestroyAttestationIds |-> Message(EmptyKeymasterRequest, EmptyKeymasterResponse),
   GetVersion |-> Message(EmptyKeymasterRequest, <<"u8", "u8", "u8">>)]

AttestMessages ==
  [AttestKey  |-> Message(<<"blob", "blob">>, <<"blobs">>),
   UpgradeKey |-> Message(<<"blob", "blob">>, <<"blob">>),
   Configure  |-> Message(<<"u32", "u32">>, EmptyKeymasterResponse)]

HmacMessages ==
  [GetHmacSharingParameters |-> Message(EmptyKeymasterRequest, HmacSharingParameters),
   ComputeSharedHmac |-> Message(<<"hmacs">>, <<"blob">>),
   ImportWrappedKey  |-> Message(<<"blob", "blob", "blob", "blob", "u64", "u64">>,
                                 <<"blob", "blob", "blob", "blobs">>)]

\* The response carries its error a second time.
VerifyMessages ==
  [VerifyAuthorization |-> Message(<<"u64", "blob">> \o HardwareAuthToken,
                                   <<"u32">> \o VerificationToken)]

BootMessages ==
  [EarlyBootEnded |-> Message(EmptyKeymasterRequest, EmptyKeymasterResponse),
   DeviceLocked   |-> Message(<<"u8">> \o VerificationToken, EmptyKeymasterResponse),
   GetVersion2    |-> Message(<<"u32">>, <<"u32", "u32", "u32">>)]

TimestampMessages ==
  [GenerateTimestampToken |-> Message(<<"u64">>, TimestampToken)]

SetAttestationIdsRequest == [i \in 1..8 |-> "blob"]

AttestationIdMessages ==
  [SetAttestationIds    |-> Message(SetAttestationIdsRequest, EmptyKeymasterResponse),
   SetAttestationIdsKM3 |-> Message(SetAttestationIdsRequest \o <<"blob">>, EmptyKeymasterResponse)]

ConfigureMessages ==
  [ConfigureVendorPatchlevel |-> Message(<<"u32">>, EmptyKeymasterResponse),
   ConfigureBootPatchlevel   |-> Message(<<"u32">>, EmptyKeymasterResponse),
   ConfigureVerifiedBootInfo |-> Message(<<"coll", "coll", "coll">>, EmptyKeymasterResponse)]

InfoMessages ==
  [GetRootOfTrust |-> Message(<<"coll">>, <<"coll">>),
   GetHwInfo      |-> Message(EmptyKeymasterRequest, <<"u32", "coll", "u32", "coll", "u32">>)]

Schema ==
  SupportedMessages @@ GenerateMessages @@ OperationMessages @@ KeyMessages @@ AttestMessages
  @@ HmacMessages @@ VerifyMessages @@ BootMessages @@ TimestampMessages
  @@ AttestationIdMessages @@ ConfigureMessages @@ InfoMessages

(***************************************************************************)
(* Later message versions added trailing fields: the number of fields a    *)
(* message has at version v.  The header declares the fields and has no    *)
(* list of versions; this one is that of the sources it was built from.    *)
(***************************************************************************)
Full == 99
FieldCount(c, side, v) ==
  CASE c \in {"GenerateKey", "ImportKey"} /\ v < 4 ->
         IF side = "rsp" THEN 3 ELSE IF c = "GenerateKey" THEN 1 ELSE 3
    [] c = "ImportWrappedKey" /\ side = "rsp" /\ v < 4 -> 3
    [] c = "UpdateOperation" /\ side = "rsp" /\ v < 2 -> 2
    [] c = "FinishOperation" /\ side = "rsp" /\ v < 2 -> 1
    [] OTHER -> Full

FieldsAt(c, side, v) ==
  LET f == Schema[c][side]
      n == FieldCount(c, side, v)
  IN  IF n < Len(f) THEN SubSeq(f, 1, n) ELSE f

(***************************************************************************)
(* KeymasterResponse: the error first, and nothing else when there is one. *)
(***************************************************************************)
KM_ERROR_OK == 0

ResponseKinds(c, v, error) ==
  <<"u32">> \o (IF error = KM_ERROR_OK THEN FieldsAt(c, "rsp", v) ELSE << >>)

DeserializeResponse(c, v, buf, mem) ==
  LET e == copy_uint32_from_buf(buf, 0)
  IN  Deserialize(IF e.ok THEN ResponseKinds(c, v, e.val) ELSE <<"u32">>, buf, 0, mem)

(***************************************************************************)
(* SerializedSize() as each message writes it beside its Serialize().      *)
(* What a message only declares is DeclaredSize: the contract of           *)
(* Serializable, taken from outside the header.                            *)
(***************************************************************************)
Empty(c, side) == Schema[c][side] = << >>

\* Mutant: the token of VerifyAuthorizationRequest is not counted either.
VerifyAuthorizationSizeWithoutToken(vals) == U64 + SerializedSize("blob", vals[2])

\* challenge, parameters_to_verify, auth_token
VerifyAuthorizationSize(vals) ==
  U64 + SerializedSize("blob", vals[2]) + DeclaredSize(HardwareAuthToken, SubSeq(vals, 3, 8))

SupportedRequestSize(c) ==
  CASE c = "SupportedAlgorithms" -> 0
    [] c \in {"SupportedImportFormats", "SupportedExportFormats"} -> U32
    [] OTHER -> U32 * 2

\* Buffer sizes first, then the three collections.
VerifiedBootInfoSize(vals) == U32 + U32 + U32 + Len(vals[1]) + Len(vals[2]) + Len(vals[3])

AttestationIdsSize(vals) == SumOf([i \in 1..8 |-> SerializedSize("blob", vals[i])])

RequestSize(c, v, vals) ==
  CASE c \in DOMAIN SupportedMessages -> SupportedRequestSize(c)
    [] Empty(c, "req") -> 0
    [] c = "GenerateRkpKey" -> U8
    [] c = "AbortOperation" -> U64
    [] c = "Configure" -> U32 + U32
    [] c = "VerifyAuthorization" -> VerifyAuthorizationSize(vals)
    [] c = "DeviceLocked" -> 1
    [] c = "GetVersion2" -> U32
    [] c = "GenerateTimestampToken" -> U64
    [] c = "SetAttestationIds" -> AttestationIdsSize(vals)
    [] c = "SetAttestationIdsKM3" -> AttestationIdsSize(vals) + SerializedSize("blob", vals[9])
    [] c \in {"ConfigureVendorPatchlevel", "ConfigureBootPatchlevel"} -> U32
    [] c = "ConfigureVerifiedBootInfo" -> VerifiedBootInfoSize(vals)
    [] c = "GetRootOfTrust" -> U32 + Len(vals[1])
    [] OTHER -> DeclaredSize(FieldsAt(c, "req", v), vals)

TimestampTokenSize(vals) == U64 + U64 + U32 + SerializedSize("blob", vals[4])

\* Mutant: the size in front of the unique id is not counted.
HwInfoSizeOneShort(vals) == U32 + U32 + Len(vals[2]) + U32 + Len(vals[4]) + U32

\* version, author, curve, unique id, keys in a CSR
HwInfoSize(vals) == U32 + U32 + Len(vals[2]) + U32 + U32 + Len(vals[4]) + U32

NonErrorSerializedSize(c, v, vals) ==
  CASE c \in DOMAIN SupportedMessages -> U32 + Len(vals[1]) * U32
    [] Empty(c, "rsp") -> 0
    [] c = "VerifyAuthorization" -> U32 + DeclaredSize(VerificationToken, Tail(vals))
    [] c = "GenerateTimestampToken" -> TimestampTokenSize(vals)
    [] c = "GetRootOfTrust" -> U32 + Len(vals[1])
    [] c = "GetHwInfo" -> HwInfoSize(vals)
    [] OTHER -> DeclaredSize(FieldsAt(c, "rsp", v), vals)

\* vals begin with the error.
ResponseSize(c, v, vals) ==
  IF vals[1] = KM_ERROR_OK THEN U32 + NonErrorSerializedSize(c, v, Tail(vals)) ELSE U32
=============================================================================
