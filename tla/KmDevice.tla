------------------------------ MODULE KmDevice ------------------------------
(***************************************************************************)
(* A KeyMint device at work: operations on keys (operation.h,              *)
(* rsa_operation.h, ecdsa_operation.h, operation_table.h) under the lock   *)
(* and boot state of keymaster_enforcement.h, and what a client learns of  *)
(* the results (ErrorCode.h, KeyMintUtils.h).  The handlers themselves are *)
(* elsewhere; they are modelled by the calls they make of these headers.   *)
(***************************************************************************)
EXTENDS Integers, Sequences, FiniteSets

CONSTANTS
  Keys,          \* the keys: algorithm and the tags in their two sets
  Handles,       \* operation handles: as many as the table has places
  MaxClock,      \* bound on the clock, in milliseconds
  MaxInputs,     \* bound on the inputs of an operation
  Reported       \* errors the rest of a handler may report

VARIABLES
  clock,       \* get_current_time_ms()
  enforcer,    \* in_early_boot_, device_locked_at_, password_unlock_only_
  token,       \* the auth token a client holds: time and type; stale since a lock
  lastLock,    \* what the last lock asked for: "never", "any" or "password"
  table,       \* the operation table
  reply,       \* the result of the call just made, and what the client made of it
  open         \* the operations the client takes for open

deviceVars == <<clock, enforcer, token, lastLock, table, reply, open>>

ErrorCode ==
  [OK |-> 0, ROOT_OF_TRUST_ALREADY_SET |-> -1, UNSUPPORTED_PURPOSE |-> -2,
   INCOMPATIBLE_PURPOSE |-> -3, UNSUPPORTED_ALGORITHM |-> -4, INCOMPATIBLE_ALGORITHM |-> -5,
   UNSUPPORTED_KEY_SIZE |-> -6, UNSUPPORTED_BLOCK_MODE |-> -7,
   INCOMPATIBLE_BLOCK_MODE |-> -8, UNSUPPORTED_MAC_LENGTH |-> -9,
   UNSUPPORTED_PADDING_MODE |-> -10, INCOMPATIBLE_PADDING_MODE |-> -11,
   UNSUPPORTED_DIGEST |-> -12, INCOMPATIBLE_DIGEST |-> -13, INVALID_EXPIRATION_TIME |-> -14,
   INVALID_USER_ID |-> -15, INVALID_AUTHORIZATION_TIMEOUT |-> -16,
   UNSUPPORTED_KEY_FORMAT |-> -17, INCOMPATIBLE_KEY_FORMAT |-> -18,
   UNSUPPORTED_KEY_ENCRYPTION_ALGORITHM |-> -19,
   UNSUPPORTED_KEY_VERIFICATION_ALGORITHM |-> -20, INVALID_INPUT_LENGTH |-> -21,
   KEY_EXPORT_OPTIONS_INVALID |-> -22, DELEGATION_NOT_ALLOWED |-> -23,
   KEY_NOT_YET_VALID |-> -24, KEY_EXPIRED |-> -25, KEY_USER_NOT_AUTHENTICATED |-> -26,
   OUTPUT_PARAMETER_NULL |-> -27, INVALID_OPERATION_HANDLE |-> -28,
   INSUFFICIENT_BUFFER_SPACE |-> -29, VERIFICATION_FAILED |-> -30,
   TOO_MANY_OPERATIONS |-> -31, UNEXPECTED_NULL_POINTER |-> -32, INVALID_KEY_BLOB |-> -33,
   IMPORTED_KEY_NOT_ENCRYPTED |-> -34, IMPORTED_KEY_DECRYPTION_FAILED |-> -35,
   IMPORTED_KEY_NOT_SIGNED |-> -36, IMPORTED_KEY_VERIFICATION_FAILED |-> -37,
   INVALID_ARGUMENT |-> -38, UNSUPPORTED_TAG |-> -39, INVALID_TAG |-> -40,
   MEMORY_ALLOCATION_FAILED |-> -41, IMPORT_PARAMETER_MISMATCH |-> -44,
   SECURE_HW_ACCESS_DENIED |-> -45, OPERATION_CANCELLED |-> -46,
   CONCURRENT_ACCESS_CONFLICT |-> -47, SECURE_HW_BUSY |-> -48,
   SECURE_HW_COMMUNICATION_FAILED |-> -49, UNSUPPORTED_EC_FIELD |-> -50,
   MISSING_NONCE |-> -51, INVALID_NONCE |-> -52, MISSING_MAC_LENGTH |-> -53,
   KEY_RATE_LIMIT_EXCEEDED |-> -54, CALLER_NONCE_PROHIBITED |-> -55,
   KEY_MAX_OPS_EXCEEDED |-> -56, INVALID_MAC_LENGTH |-> -57, MISSING_MIN_MAC_LENGTH |-> -58,
   UNSUPPORTED_MIN_MAC_LENGTH |-> -59, UNSUPPORTED_KDF |-> -60,
   UNSUPPORTED_EC_CURVE |-> -61, KEY_REQUIRES_UPGRADE |-> -62,
   ATTESTATION_CHALLENGE_MISSING |-> -63, KEYMINT_NOT_CONFIGURED |-> -64,
   ATTESTATION_APPLICATION_ID_MISSING |-> -65, CANNOT_ATTEST_IDS |-> -66,
   ROLLBACK_RESISTANCE_UNAVAILABLE |-> -67, HARDWARE_TYPE_UNAVAILABLE |-> -68,
   PROOF_OF_PRESENCE_REQUIRED |-> -69, CONCURRENT_PROOF_OF_PRESENCE_REQUESTED |-> -70,
   NO_USER_CONFIRMATION |-> -71, DEVICE_LOCKED |-> -72, EARLY_BOOT_ENDED |-> -73,
   ATTESTATION_KEYS_NOT_PROVISIONED |-> -74, ATTESTATION_IDS_NOT_PROVISIONED |-> -75,
   INVALID_OPERATION |-> -76, STORAGE_KEY_UNSUPPORTED |-> -77,
   INCOMPATIBLE_MGF_DIGEST |-> -78, UNSUPPORTED_MGF_DIGEST |-> -79,
   MISSING_NOT_BEFORE |-> -80, MISSING_NOT_AFTER |-> -81, MISSING_ISSUER_SUBJECT |-> -82,
   INVALID_ISSUER_SUBJECT |-> -83, BOOT_LEVEL_EXCEEDED |-> -84,
   HARDWARE_NOT_YET_AVAILABLE |-> -85, UNIMPLEMENTED |-> -100, VERSION_MISMATCH |-> -101,
   UNKNOWN_ERROR |-> -1000]

\* enum_values, and toString over them.
ErrorCodes == DOMAIN ErrorCode
toString(n) == CHOOSE e \in ErrorCodes : ErrorCode[e] = n

\* Mutant: errors are negative, and not above KM_ERROR_OK.
kmError2ScopedAStatusSigned(e) ==
  IF ErrorCode[e] <= 0 THEN [ok |-> TRUE, code |-> 0] ELSE [ok |-> FALSE, code |-> ErrorCode[e]]

\* kmError2ScopedAStatus, and what the client reads of a status.
kmError2ScopedAStatus(e) ==
  IF e = "OK" THEN [ok |-> TRUE, code |-> 0] ELSE [ok |-> FALSE, code |-> ErrorCode[e]]
Understood(status) == IF status.ok THEN "OK" ELSE toString(status.code)

(***************************************************************************)
(* Every call ends with a status for the client; one that has checked a    *)
(* confirmation token also tells against what.                             *)
(***************************************************************************)
NoBuffer == << >>     \* a UniquePtr<Buffer> is nothing, or one buffer with what it holds
Unverified == [buffer |-> NoBuffer, tagged |-> TRUE, fed |-> << >>]

ReturnsWith(result, verified) ==
  reply' = [result |-> result, client |-> Understood(kmError2ScopedAStatus(result)),
            verified |-> verified]
Returns(result) == ReturnsWith(result, Unverified)

NoOperation == [class |-> "none"]
NoReply == [result |-> "OK", client |-> "OK", verified |-> Unverified]
NoToken == [at |-> 0, password |-> FALSE, stale |-> TRUE]

DeviceInit ==
  /\ clock = 1
  /\ enforcer = [in_early_boot |-> TRUE, device_locked_at |-> 0, password_unlock_only |-> FALSE]
  /\ token = NoToken /\ lastLock = "never" /\ table = [h \in Handles |-> NoOperation]
  /\ reply = NoReply /\ open = {}

(***************************************************************************)
(* Enforcement.  A token is minted by the authenticator with its time.     *)
(***************************************************************************)
Tick ==
  /\ clock < MaxClock /\ clock' = clock + 1 /\ reply' = NoReply
  /\ UNCHANGED <<enforcer, token, lastLock, table, open>>

Mint(password) ==
  /\ token' = [at |-> clock, password |-> password, stale |-> FALSE]
  /\ reply' = NoReply
  /\ UNCHANGED <<clock, enforcer, lastLock, table, open>>

\* Mutant: a device that is locked already keeps the time of the first lock.
device_lockedOnce(password_only) ==
  [enforcer EXCEPT !.device_locked_at = IF @ = 0 THEN clock ELSE @,
                   !.password_unlock_only = password_only]

device_locked(password_only) ==
  [enforcer EXCEPT !.device_locked_at = clock, !.password_unlock_only = password_only]

Lock(password_only) ==
  /\ enforcer' = device_locked(password_only)
  /\ lastLock' = IF password_only THEN "password" ELSE "any"
  /\ token' = [token EXCEPT !.stale = TRUE]
  /\ Returns("OK")
  /\ UNCHANGED <<clock, table, open>>

early_boot_ended ==
  /\ enforcer' = [enforcer EXCEPT !.in_early_boot = FALSE]
  /\ Returns("OK")
  /\ UNCHANGED <<clock, token, lastLock, table, open>>

\* AuthorizeBegin, of the conditions that depend on this state.
AuthorizeBegin(tags, auth) ==
  IF "EARLY_BOOT_ONLY" \in tags /\ ~enforcer.in_early_boot THEN "EARLY_BOOT_ENDED"
  ELSE IF /\ "UNLOCKED_DEVICE_REQUIRED" \in tags /\ enforcer.device_locked_at > 0
          /\ \/ auth.at <= enforcer.device_locked_at
             \/ enforcer.password_unlock_only /\ ~auth.password THEN "DEVICE_LOCKED"
  ELSE "OK"

(***************************************************************************)
(* Operations.  The factory registered for an algorithm and a purpose      *)
(* makes one of its classes, which takes both sets over and hands to its   *)
(* base the purpose that is written into its own constructor.              *)
(***************************************************************************)
Purposes == [RSA |-> {"SIGN", "VERIFY", "ENCRYPT", "DECRYPT"}, EC |-> {"SIGN", "VERIFY"}]

\* Curves are for EC keys; handlers report errors of the enumeration.
ASSUME DeviceAssumption ==
  /\ \A key \in Keys : key.alg \in DOMAIN Purposes
                      /\ ("CURVE_25519" \in key.hw \cup key.sw => key.alg = "EC")
  /\ Reported \subseteq ErrorCodes

registry_key ==
  [RsaSigning |-> <<"RSA", "SIGN">>, RsaVerification |-> <<"RSA", "VERIFY">>,
   RsaEncryption |-> <<"RSA", "ENCRYPT">>, RsaDecryption |-> <<"RSA", "DECRYPT">>,
   EcdsaSign |-> <<"EC", "SIGN">>, EcdsaVerify |-> <<"EC", "VERIFY">>]
GetFactory(alg, purpose) ==
  CHOOSE f \in DOMAIN registry_key : registry_key[f] = <<alg, purpose>>

ClassPurpose ==
  [RsaSignOperation |-> "SIGN", RsaVerifyOperation |-> "VERIFY",
   RsaEncryptOperation |-> "ENCRYPT", RsaDecryptOperation |-> "DECRYPT",
   EcdsaSignOperation |-> "SIGN", EcdsaVerifyOperation |-> "VERIFY",
   Ed25519SignOperation |-> "SIGN"]

IsEd25519Key(hw, sw) == "CURVE_25519" \in hw \cup sw

MadeBy(factory, hw, sw) ==
  CASE factory = "RsaSigning" -> "RsaSignOperation"
    [] factory = "RsaVerification" -> "RsaVerifyOperation"
    [] factory = "RsaEncryption" -> "RsaEncryptOperation"
    [] factory = "RsaDecryption" -> "RsaDecryptOperation"
    [] factory = "EcdsaVerify" -> "EcdsaVerifyOperation"
    [] factory = "EcdsaSign" ->
         IF IsEd25519Key(hw, sw) THEN "Ed25519SignOperation" ELSE "EcdsaSignOperation"

\* Mutant: the sets are moved into the operation before the curve is looked up.
InstantiateOperationMoved(factory, hw, sw, allocates) ==
  LET class == MadeBy(factory, {}, {})
  IN  IF allocates THEN [class |-> class, purpose |-> ClassPurpose[class], hw |-> hw, sw |-> sw]
      ELSE NoOperation

\* new (std::nothrow) gives no operation when there is no storage.
InstantiateOperation(factory, hw, sw, allocates) ==
  LET class == MadeBy(factory, hw, sw)
  IN  IF allocates THEN [class |-> class, purpose |-> ClassPurpose[class], hw |-> hw, sw |-> sw]
      ELSE NoOperation

\* require_digest, checked when an operation begins.
require_digest(class, padding) ==
  \/ class \in {"RsaSignOperation", "RsaVerifyOperation"} /\ padding = "RSA_PSS"
  \/ class \in {"RsaEncryptOperation", "RsaDecryptOperation"} /\ padding = "RSA_OAEP"

Paddings(alg, purpose) ==
  IF alg = "EC" THEN {"NONE"}
  ELSE IF purpose \in {"SIGN", "VERIFY"} THEN {"NONE", "RSA_PSS"} ELSE {"NONE", "RSA_OAEP"}

Digests(alg) == IF alg = "EC" THEN {"SHA_2_256"} ELSE {"NONE", "SHA_2_256"}

\* What the client knows of an operation after a call that ends it or fails.
Closes(h) == open' = IF reply'.client = "OK" THEN open ELSE open \ {h}

\* By the order of events, and not by their times: is the token enough now?
Rightful(tags, auth) ==
  "UNLOCKED_DEVICE_REQUIRED" \in tags /\ lastLock # "never" =>
    ~auth.stale /\ (lastLock = "password" => auth.password)

FreeHandles == {h \in Handles : table[h] = NoOperation}

\* BeginOperation: the checks, the factory, the table.
BeginResult(key, op, padding, digest, auth) ==
  IF AuthorizeBegin(key.hw \cup key.sw, auth) # "OK"
    THEN AuthorizeBegin(key.hw \cup key.sw, auth)
  ELSE IF op = NoOperation THEN "MEMORY_ALLOCATION_FAILED"
  ELSE IF require_digest(op.class, padding) /\ digest = "NONE" THEN "INCOMPATIBLE_DIGEST"
  ELSE IF FreeHandles = {} THEN "TOO_MANY_OPERATIONS" ELSE "OK"

Begin(key, purpose, padding, digest, auth, allocates) ==
  LET op == InstantiateOperation(GetFactory(key.alg, purpose), key.hw, key.sw, allocates)
      result == BeginResult(key, op, padding, digest, auth)
      h == CHOOSE g \in FreeHandles : TRUE
  IN  /\ Returns(result)
      /\ IF result # "OK" THEN UNCHANGED <<table, open>>
         ELSE /\ table' = [table EXCEPT ![h] =
                    [class |-> op.class, purpose |-> op.purpose, hw |-> op.hw, sw |-> op.sw,
                     key |-> key, asked |-> purpose,
                     rightful |-> Rightful(key.hw \cup key.sw, auth),
                     confirmation |-> NoBuffer, tagged |-> TRUE, fed |-> << >>]]
              /\ open' = IF reply'.client = "OK" THEN open \cup {h} ELSE open
      /\ UNCHANGED <<clock, enforcer, token, lastLock>>

(***************************************************************************)
(* The buffer for the confirmation token: the object may have no storage,  *)
(* and then the call says so; or the bytes in it may have none, which the  *)
(* constructor of Buffer keeps to itself.                                  *)
(***************************************************************************)
ConfirmationTag == 0    \* kConfirmationTokenMessageTag; inputs are numbered from 1
Allocations == {"made", "no object", "no bytes"}

NewBuffer(outcome) ==
  CASE outcome = "made" -> [ok |-> TRUE, buffer |-> <<<<ConfirmationTag>>>>]
    [] outcome = "no bytes" -> [ok |-> TRUE, buffer |-> << << >> >>]
    [] outcome = "no object" -> [ok |-> FALSE, buffer |-> NoBuffer]

\* Mutant: every call makes a new buffer.
create_confirmation_verifier_buffer_anew(buffer, outcome) == NewBuffer(outcome)

create_confirmation_verifier_buffer(buffer, outcome) ==
  IF buffer # NoBuffer THEN [ok |-> TRUE, buffer |-> buffer] ELSE NewBuffer(outcome)

Confirmed(op) == "TRUSTED_CONFIRMATION_REQUIRED" \in op.hw \cup op.sw

\* What a handler does with an input before it looks at anything else: for a
\* key to be confirmed it makes the buffer and writes the input behind it.
Buffered(op, data, outcome) ==
  LET made == create_confirmation_verifier_buffer(op.confirmation, outcome)
  IN  IF ~Confirmed(op) THEN [ok |-> TRUE, buffer |-> NoBuffer]
      ELSE IF ~made.ok THEN made
      ELSE [ok |-> TRUE, buffer |-> <<Append(made.buffer[1], data)>>]

Tagged(op, outcome) == IF op.confirmation = NoBuffer THEN outcome # "no bytes" ELSE op.tagged

Fed(op, data, outcome) ==
  [op EXCEPT !.fed = Append(@, data), !.confirmation = Buffered(op, data, outcome).buffer,
             !.tagged = Tagged(op, outcome)]

HandlerResult(h, buffered, result) ==
  IF table[h] = NoOperation THEN "INVALID_OPERATION_HANDLE"
  ELSE IF ~buffered.ok THEN "MEMORY_ALLOCATION_FAILED" ELSE result

\* UpdateOperation: an error deletes the operation.
Update(h, result, outcome) ==
  LET op == table[h]
      data == Len(op.fed) + 1
      b == Buffered(op, data, outcome)
      e == HandlerResult(h, b, result)
  IN  /\ op # NoOperation => Len(op.fed) < MaxInputs
      /\ Returns(e) /\ Closes(h)
      /\ table' = IF e # "OK" THEN [table EXCEPT ![h] = NoOperation]
                  ELSE IF ~Confirmed(op) THEN table
                  ELSE [table EXCEPT ![h] = Fed(op, data, outcome)]
      /\ UNCHANGED <<clock, enforcer, token, lastLock>>

\* FinishOperation has an input of its own, and then the token is checked
\* against the buffer; the operation is deleted either way.
Finish(h, result, outcome) ==
  LET op == table[h]
      data == Len(op.fed) + 1
      b == Buffered(op, data, outcome)
      e == HandlerResult(h, b, result)
      last == Fed(op, data, outcome)
      checked == [buffer |-> last.confirmation, tagged |-> last.tagged, fed |-> last.fed]
  IN  /\ ReturnsWith(e, IF e = "OK" /\ Confirmed(op) THEN checked ELSE Unverified)
      /\ table' = [table EXCEPT ![h] = NoOperation] /\ open' = open \ {h}
      /\ UNCHANGED <<clock, enforcer, token, lastLock>>

AbortOperation(h, result) ==
  /\ Returns(IF table[h] = NoOperation THEN "INVALID_OPERATION_HANDLE" ELSE result)
  /\ table' = [table EXCEPT ![h] = NoOperation] /\ open' = open \ {h}
  /\ UNCHANGED <<clock, enforcer, token, lastLock>>

\* Any other call of the device, with any result.
OtherCall(result) ==
  /\ Returns(result)
  /\ UNCHANGED <<clock, enforcer, token, lastLock, table, open>>

\* A client offers a token only for a key that may need one.
Offered(key) ==
  IF "UNLOCKED_DEVICE_REQUIRED" \in key.hw \cup key.sw THEN {NoToken, token} ELSE {NoToken}

DeviceNext ==
  \/ Tick \/ early_boot_ended
  \/ \E b \in BOOLEAN : Mint(b) \/ Lock(b)
  \/ \E key \in Keys, allocates \in BOOLEAN :
       \E purpose \in Purposes[key.alg], auth \in Offered(key) :
         \E padding \in Paddings(key.alg, purpose), digest \in Digests(key.alg) :
           Begin(key, purpose, padding, digest, auth, allocates)
  \/ \E h \in Handles, result \in {"OK"} \cup Reported :
       \/ \E outcome \in Allocations : Update(h, result, outcome) \/ Finish(h, result, outcome)
       \/ AbortOperation(h, result)
  \/ token = NoToken /\ open = {} /\ lastLock = "never"
       /\ \E result \in ErrorCodes : OtherCall(result)

DeviceSpec == DeviceInit /\ [][DeviceNext]_deviceVars

(***************************************************************************)
(* While the device is locked, an operation with a key that requires it to *)
(* be unlocked was begun with a token that was minted after the last lock  *)
(* before it, not just with a later time; and with a password if that lock *)
(* asked for one.                                                          *)
(***************************************************************************)
LockInvalidatesTokens ==
  \A h \in Handles : table[h] # NoOperation => table[h].rightful

(***************************************************************************)
(* The purpose that the class behind a handle has written into it is the   *)
(* one that was asked for and authorized, and it signs with Ed25519 just   *)
(* when it was asked to sign and a set of the key names Curve 25519: what  *)
(* a factory registers for, which class it makes and what that class says  *)
(* of itself are three tables in three places.                             *)
(***************************************************************************)
OperationMatchesKey ==
  \A h \in Handles :
    LET op == table[h]
    IN  op # NoOperation =>
          /\ op.purpose = op.asked
          /\ (op.class = "Ed25519SignOperation") =
               (op.asked = "SIGN" /\ "CURVE_25519" \in op.key.hw \cup op.key.sw)

(***************************************************************************)
(* The buffer a confirmation token is checked against is the tag and then  *)
(* every input of the operation in order, that of Finish with them, as     *)
(* long as its bytes had storage when it was made: if they had none, the   *)
(* call has said that all is well and only the tag is missing.             *)
(***************************************************************************)
Whole(buffer, tagged, fed) ==
  IF fed = << >> THEN buffer = NoBuffer
  ELSE buffer = <<(IF tagged THEN <<ConfirmationTag>> ELSE << >>) \o fed>>

ConfirmationCoversAll ==
  /\ \A h \in Handles :
       LET op == table[h]
       IN  op # NoOperation => Whole(op.confirmation, op.tagged, op.fed)
  /\ Whole(reply.verified.buffer, reply.verified.tagged, reply.verified.fed)

(***************************************************************************)
(* The client learns the error the device reported, and so it takes for    *)
(* open exactly the operations that are in the table.                      *)
(***************************************************************************)
ClientKnows ==
  /\ reply.client = reply.result
  /\ open = {h \in Handles : table[h] # NoOperation}
=============================================================================
