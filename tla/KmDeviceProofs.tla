--------------------------- MODULE KmDeviceProofs ---------------------------
(***************************************************************************)
(* Proofs about KmDevice, for any number of keys, operations and locks:    *)
(* locking the device takes the tokens that were minted before, operations *)
(* are what their keys call for, and the client knows which are open.      *)
(***************************************************************************)
EXTENDS KmDevice, TLAPS

\* The clock, and the times in the enforcer and in the token.
TimesInv ==
  /\ clock \in Nat /\ clock > 0
  /\ token \in [at : Nat, password : BOOLEAN, stale : BOOLEAN] /\ token.at <= clock
  /\ enforcer \in [in_early_boot : BOOLEAN, device_locked_at : Nat, password_unlock_only : BOOLEAN]

\* The enforcer remembers the last lock, and a token from before it is not
\* later than that lock.
LockInv ==
  /\ lastLock \in {"never", "any", "password"}
  /\ lastLock # "never" => enforcer.device_locked_at > 0
  /\ lastLock = "password" => enforcer.password_unlock_only
  /\ token.stale /\ lastLock # "never" => token.at <= enforcer.device_locked_at

\* The operations in the table know how they were begun.
TableInv ==
  /\ table = [h \in Handles |-> table[h]]
  /\ \A h \in Handles : table[h] # NoOperation =>
       "rightful" \in DOMAIN table[h] /\ table[h].rightful = TRUE

Inv == TimesInv /\ LockInv /\ TableInv

\* AuthorizeBegin lets a token through only if it is enough now.
LEMMA AuthorizedIsRightful ==
  ASSUME Inv, NEW tags, NEW auth \in {NoToken, token}, AuthorizeBegin(tags, auth) = "OK"
  PROVE  Rightful(tags, auth)
<1> SUFFICES ASSUME "UNLOCKED_DEVICE_REQUIRED" \in tags, lastLock # "never"
             PROVE  ~auth.stale /\ (lastLock = "password" => auth.password)
  BY DEF Rightful
<1>1. enforcer.device_locked_at > 0
  BY DEF Inv, LockInv
<1>2. /\ ~(auth.at <= enforcer.device_locked_at)
      /\ enforcer.password_unlock_only => auth.password
  BY <1>1 DEF AuthorizeBegin
<1>3. auth = token
  BY <1>2 DEF NoToken, Inv, TimesInv
<1>4. QED
  BY <1>2, <1>3 DEF Inv, LockInv, TimesInv

\* The invariant holds when the device starts.
LEMMA InitInv == DeviceInit => Inv
BY DEF DeviceInit, Inv, TimesInv, LockInv, TableInv, NoToken, NoOperation

\* An operation is begun only with a rightful token.
LEMMA BeginInv ==
  ASSUME Inv, NEW key, NEW purpose, NEW padding, NEW digest, NEW auth \in {NoToken, token},
         NEW allocates, Begin(key, purpose, padding, digest, auth, allocates)
  PROVE  Inv'
<1> DEFINE i == InstantiateOperation(GetFactory(key.alg, purpose), key.hw, key.sw, allocates)
           result == BeginResult(key, i, padding, digest, auth)
           g == CHOOSE x \in FreeHandles : TRUE
           tags == key.hw \cup key.sw
<1>1. UNCHANGED <<clock, enforcer, token, lastLock>>
  BY DEF Begin
<1>2. TimesInv' /\ LockInv'
  BY <1>1 DEF Inv, TimesInv, LockInv
<1>3. CASE result # "OK"
  <2>1. table' = table
    BY <1>3 DEF Begin
  <2>2. QED
    BY <1>2, <2>1 DEF Inv, TableInv
<1>4. CASE result = "OK"
  <2>1. AuthorizeBegin(tags, auth) = "OK" /\ FreeHandles # {}
    BY <1>4, SMT DEF BeginResult
  <2>2. g \in Handles
    BY <2>1 DEF FreeHandles
  <2>3. Rightful(tags, auth) = TRUE
    BY <2>1, AuthorizedIsRightful DEF Rightful
  <2>4. PICK op : /\ table' = [table EXCEPT ![g] = op]
                  /\ "rightful" \in DOMAIN op /\ op.rightful = Rightful(tags, auth)
    <3> DEFINE new == [class |-> i.class, purpose |-> i.purpose, hw |-> i.hw, sw |-> i.sw,
                       key |-> key, asked |-> purpose, rightful |-> Rightful(tags, auth),
                       confirmation |-> NoBuffer, tagged |-> TRUE, fed |-> << >>]
    <3>1. table' = [table EXCEPT ![g] = new]
      BY <1>4 DEF Begin
    <3> HIDE DEF i
    <3>2. "rightful" \in DOMAIN new /\ new.rightful = Rightful(tags, auth)
      OBVIOUS
    <3>3. QED
      BY <3>1, <3>2
  <2>5. op.rightful = TRUE
    BY <2>3, <2>4
  <2> HIDE DEF g
  <2>6. TableInv'
    BY <2>2, <2>4, <2>5 DEF Inv, TableInv
  <2>7. QED
    BY <1>2, <2>6 DEF Inv
<1>5. QED
  BY <1>3, <1>4

\* Updating an operation leaves alone how it was begun.
LEMMA UpdateInv ==
  ASSUME Inv, NEW h \in Handles, NEW result, NEW outcome, Update(h, result, outcome)
  PROVE  Inv'
<1> DEFINE data == Len(table[h].fed) + 1
           e == HandlerResult(h, Buffered(table[h], data, outcome), result)
<1>1. TimesInv' /\ LockInv'
  BY DEF Update, Inv, TimesInv, LockInv
<1>2. \/ table' = [table EXCEPT ![h] = NoOperation]
      \/ table' = table
      \/ e = "OK" /\ table' = [table EXCEPT ![h] = Fed(table[h], data, outcome)]
  BY DEF Update
<1>3. ASSUME e = "OK", table' = [table EXCEPT ![h] = Fed(table[h], data, outcome)]
      PROVE  TableInv'
  <2>1. table[h] # NoOperation
    BY <1>3 DEF HandlerResult
  <2>2. "rightful" \in DOMAIN table[h] /\ table[h].rightful = TRUE
    BY <2>1 DEF Inv, TableInv
  <2>3. "rightful" \in DOMAIN Fed(table[h], data, outcome)
        /\ Fed(table[h], data, outcome).rightful = TRUE
    BY <2>2 DEF Fed
  <2> HIDE DEF data
  <2>4. QED
    BY <1>3, <2>3 DEF Inv, TableInv
<1>4. TableInv'
  BY <1>2, <1>3 DEF Inv, TableInv
<1>5. QED
  BY <1>1, <1>4 DEF Inv

\* No step of the device breaks the invariant.
LEMMA StepInv == Inv /\ [DeviceNext]_deviceVars => Inv'
<1> SUFFICES ASSUME Inv, [DeviceNext]_deviceVars PROVE Inv'
  OBVIOUS
<1>1. CASE Tick
  BY <1>1 DEF Tick, Inv, TimesInv, LockInv, TableInv
<1>2. CASE early_boot_ended
  BY <1>2 DEF early_boot_ended, Inv, TimesInv, LockInv, TableInv
<1>3. ASSUME NEW b \in BOOLEAN, Mint(b) PROVE Inv'
  BY <1>3 DEF Mint, Inv, TimesInv, LockInv, TableInv
<1>4. ASSUME NEW b \in BOOLEAN, Lock(b) PROVE Inv'
  <2>1. table' = table
    BY <1>4 DEF Lock
  <2>2. TimesInv' /\ LockInv'
    BY <1>4 DEF Lock, device_locked, Inv, TimesInv, LockInv
  <2>3. QED
    BY <2>1, <2>2 DEF Inv, TableInv
<1>5. ASSUME NEW key \in Keys, NEW allocates \in BOOLEAN, NEW purpose \in Purposes[key.alg],
             NEW auth \in Offered(key), NEW padding, NEW digest,
             Begin(key, purpose, padding, digest, auth, allocates)
      PROVE  Inv'
  <2>1. auth \in {NoToken, token}
    BY DEF Offered
  <2>2. QED
    BY <1>5, <2>1, BeginInv
<1>6. ASSUME NEW h \in Handles, NEW result, NEW outcome, Update(h, result, outcome) PROVE Inv'
  BY <1>6, UpdateInv
<1>7. ASSUME NEW h \in Handles, NEW result, NEW outcome,
             Finish(h, result, outcome) \/ AbortOperation(h, result)
      PROVE  Inv'
  <2>1. TimesInv' /\ LockInv'
    BY <1>7 DEF Finish, AbortOperation, Inv, TimesInv, LockInv
  <2>2. TableInv'
    BY <1>7 DEF Finish, AbortOperation, Inv, TableInv
  <2>3. QED
    BY <2>1, <2>2 DEF Inv
<1>8. ASSUME NEW result, OtherCall(result) PROVE Inv'
  BY <1>8 DEF OtherCall, Inv, TimesInv, LockInv, TableInv
<1>9. CASE UNCHANGED deviceVars
  BY <1>9 DEF deviceVars, Inv, TimesInv, LockInv, TableInv
<1>10. QED
  BY <1>1, <1>2, <1>3, <1>4, <1>5, <1>6, <1>7, <1>8, <1>9 DEF DeviceNext

(***************************************************************************)
(* For every set of keys and handles and every clock: an operation that    *)
(* needs an unlocked device is begun only with a token from after the last *)
(* lock, by password if that lock asked for one (device_locked and the     *)
(* checks of AuthorizeBegin in keymaster_enforcement.h).                   *)
(***************************************************************************)
THEOREM LockedOut == DeviceSpec => []LockInvalidatesTokens
<1>1. DeviceInit => Inv
  BY InitInv
<1>2. Inv /\ [DeviceNext]_deviceVars => Inv'
  BY StepInv
<1>3. Inv => LockInvalidatesTokens
  BY DEF Inv, TableInv, LockInvalidatesTokens
<1>4. QED
  BY <1>1, <1>2, <1>3, PTL DEF DeviceSpec

-----------------------------------------------------------------------------
(***************************************************************************)
(* Operations, their buffers, and what the client knows of them.           *)
(***************************************************************************)
\* An operation as Begin makes it and Update changes it.
OperationOK(op) ==
  /\ op = [class |-> op.class, purpose |-> op.purpose, hw |-> op.hw, sw |-> op.sw,
           key |-> op.key, asked |-> op.asked, rightful |-> op.rightful,
           confirmation |-> op.confirmation, tagged |-> op.tagged, fed |-> op.fed]
  /\ op.fed \in Seq(Nat)

OperationsInv ==
  /\ table = [h \in Handles |-> table[h]]
  /\ \A h \in Handles : table[h] # NoOperation => OperationOK(table[h])

\* The properties of one operation, and of the pair of both sides.
Matches(op) ==
  /\ op.purpose = op.asked
  /\ (op.class = "Ed25519SignOperation") =
       (op.asked = "SIGN" /\ "CURVE_25519" \in op.key.hw \cup op.key.sw)

Covers(op) == Whole(op.confirmation, op.tagged, op.fed)

KnownInv ==
  /\ OperationsInv
  /\ \A h \in Handles : table[h] # NoOperation => Matches(table[h]) /\ Covers(table[h])
  /\ Whole(reply.verified.buffer, reply.verified.tagged, reply.verified.fed)
  /\ ClientKnows

(***************************************************************************)
(* No two errors of ErrorCode.h share a number, so a client that reads a   *)
(* status with toString() learns the error the device returned.            *)
(***************************************************************************)
THEOREM ErrorsDistinct ==
  /\ \A e, d \in ErrorCodes : ErrorCode[e] = ErrorCode[d] => e = d
  /\ \A e \in ErrorCodes : Understood(kmError2ScopedAStatus(e)) = e
<1>1. \A e, d \in ErrorCodes : ErrorCode[e] = ErrorCode[d] => e = d
  BY SMTT(60) DEF ErrorCodes, ErrorCode
<1>2. \A e \in ErrorCodes : Understood(kmError2ScopedAStatus(e)) = e
  BY <1>1 DEF Understood, kmError2ScopedAStatus, toString
<1>3. QED
  BY <1>1, <1>2

LEMMA ReturnsKnown ==
  ASSUME NEW e \in ErrorCodes, NEW v, ReturnsWith(e, v)
  PROVE  reply'.client = e /\ reply'.result = e /\ reply'.verified = v
BY ErrorsDistinct DEF ReturnsWith

LEMMA UnverifiedWhole == Whole(Unverified.buffer, Unverified.tagged, Unverified.fed)
BY DEF Whole, Unverified

LEMMA Errors ==
  /\ {"OK"} \cup Reported \subseteq ErrorCodes
  /\ {"OK", "EARLY_BOOT_ENDED", "DEVICE_LOCKED", "MEMORY_ALLOCATION_FAILED", "INCOMPATIBLE_DIGEST",
      "TOO_MANY_OPERATIONS", "INVALID_OPERATION_HANDLE"} \subseteq ErrorCodes
<1>1. {"OK", "EARLY_BOOT_ENDED", "DEVICE_LOCKED", "MEMORY_ALLOCATION_FAILED", "INCOMPATIBLE_DIGEST",
       "TOO_MANY_OPERATIONS", "INVALID_OPERATION_HANDLE"} \subseteq ErrorCodes
  BY DEF ErrorCodes, ErrorCode
<1>2. QED
  BY <1>1, DeviceAssumption

(***************************************************************************)
(* The buffer for the confirmation token.                                  *)
(***************************************************************************)
\* Putting one more input behind the inputs so far, with or without the tag.
LEMMA AppendBehindTag ==
  ASSUME NEW fed \in Seq(Nat), NEW data \in Nat
  PROVE  /\ Append(<<ConfirmationTag>> \o fed, data) = <<ConfirmationTag>> \o Append(fed, data)
         /\ Append(<< >> \o fed, data) = << >> \o Append(fed, data)
         /\ fed = << >> =>
              /\ Append(<<ConfirmationTag>>, data) = <<ConfirmationTag>> \o Append(fed, data)
              /\ Append(<< >>, data) = << >> \o Append(fed, data)
         /\ Append(fed, data) \in Seq(Nat) /\ Append(fed, data) # << >>
BY DEF ConfirmationTag

\* One more input, whatever storage there was for the buffer.
LEMMA BufferedWhole ==
  ASSUME NEW op, OperationOK(op), Covers(op), NEW data \in Nat, NEW outcome \in Allocations,
         Confirmed(op), Buffered(op, data, outcome).ok
  PROVE  Whole(Buffered(op, data, outcome).buffer, Tagged(op, outcome), Append(op.fed, data))
<1> DEFINE made == create_confirmation_verifier_buffer(op.confirmation, outcome)
           tag == IF Tagged(op, outcome) THEN <<ConfirmationTag>> ELSE << >>
<1>1. made.ok /\ Buffered(op, data, outcome).buffer = <<Append(made.buffer[1], data)>>
  <2> HIDE DEF made
  <2>1. Buffered(op, data, outcome) =
          IF ~made.ok THEN made ELSE [ok |-> TRUE, buffer |-> <<Append(made.buffer[1], data)>>]
    BY DEF Buffered, made
  <2>2. QED
    BY <2>1
<1>2. op.fed \in Seq(Nat)
  BY DEF OperationOK
<1>3. Append(made.buffer[1], data) = tag \o Append(op.fed, data)
  <2>1. CASE op.fed = << >>
    <3>1. op.confirmation = NoBuffer
      BY <2>1 DEF Covers, Whole
    <3>2. outcome \in {"made", "no bytes"} /\ made = NewBuffer(outcome)
      <4>1. made = NewBuffer(outcome)
        BY <3>1 DEF create_confirmation_verifier_buffer
      <4>2. ~NewBuffer("no object").ok
        BY DEF NewBuffer
      <4>3. QED
        BY <1>1, <4>1, <4>2 DEF Allocations
    <3>3. Tagged(op, outcome) <=> outcome # "no bytes"
      BY <3>1 DEF Tagged
    <3>4. made.buffer[1] = tag
      <4>1. CASE outcome = "made"
        BY <3>2, <3>3, <4>1 DEF NewBuffer
      <4>2. CASE outcome = "no bytes"
        <5> DEFINE empty == << << >> >>
        <5>1. NewBuffer("no bytes").buffer = empty
          BY DEF NewBuffer
        <5>2. tag = << >>
          BY <3>3, <4>2
        <5>3. empty[1] = << >>
          OBVIOUS
        <5>4. made = NewBuffer("no bytes")
          BY <3>2, <4>2
        <5> HIDE DEF made, tag, empty
        <5>5. made.buffer[1] = empty[1]
          BY <5>1, <5>4
        <5>6. QED
          BY <5>2, <5>3, <5>5
      <4>3. QED
        BY <3>2, <4>1, <4>2
    <3> HIDE DEF made
    <3>5. tag \in {<<ConfirmationTag>>, << >>}
      OBVIOUS
    <3> HIDE DEF tag
    <3>6. QED
      BY <1>2, <2>1, <3>4, <3>5, AppendBehindTag
  <2>2. CASE op.fed # << >>
    <3> DEFINE old == (IF op.tagged THEN <<ConfirmationTag>> ELSE << >>) \o op.fed
    <3>1. op.confirmation = <<old>>
      BY <2>2 DEF Covers, Whole
    <3> HIDE DEF old
    <3>2. op.confirmation # NoBuffer /\ op.confirmation[1] = old
      BY <3>1 DEF NoBuffer
    <3>3. made.buffer = op.confirmation
      BY <3>2 DEF create_confirmation_verifier_buffer
    <3>4. Tagged(op, outcome) = op.tagged
      BY <3>2 DEF Tagged
    <3>5. old = tag \o op.fed
      BY <3>4 DEF old
    <3> HIDE DEF made
    <3>6. tag \in {<<ConfirmationTag>>, << >>}
      OBVIOUS
    <3> HIDE DEF tag
    <3>7. Append(tag \o op.fed, data) = tag \o Append(op.fed, data)
      <4>1. CASE tag = << >>
        BY <1>2, <4>1, AppendBehindTag
      <4>2. CASE tag = <<ConfirmationTag>>
        BY <1>2, <4>2, AppendBehindTag
      <4>3. QED
        BY <3>6, <4>1, <4>2
    <3>8. QED
      BY <3>2, <3>3, <3>5, <3>7
  <2>3. QED
    BY <2>1, <2>2
<1>4. Append(op.fed, data) # << >>
  BY <1>2, AppendBehindTag
<1> HIDE DEF made
<1>5. QED
  BY <1>1, <1>3, <1>4 DEF Whole

\* An operation that has been given one more input.
LEMMA FedOperation ==
  ASSUME NEW op, OperationOK(op), Matches(op), Covers(op), NEW data \in Nat,
         NEW outcome \in Allocations, Confirmed(op), Buffered(op, data, outcome).ok
  PROVE  LET new == Fed(op, data, outcome)
         IN  OperationOK(new) /\ Matches(new) /\ Covers(new) /\ new # NoOperation
<1> DEFINE new == Fed(op, data, outcome)
           b == Buffered(op, data, outcome).buffer
           t == Tagged(op, outcome)
           f == Append(op.fed, data)
<1>1. Whole(b, t, f)
  BY BufferedWhole
<1>2. f \in Seq(Nat)
  BY AppendBehindTag DEF OperationOK
<1>3. new = [op EXCEPT !.fed = f, !.confirmation = b, !.tagged = t]
  BY DEF Fed
<1> HIDE DEF new, b, t, f
<1>4. new = [class |-> op.class, purpose |-> op.purpose, hw |-> op.hw, sw |-> op.sw,
             key |-> op.key, asked |-> op.asked, rightful |-> op.rightful,
             confirmation |-> b, tagged |-> t, fed |-> f]
  <2>1. op = [class |-> op.class, purpose |-> op.purpose, hw |-> op.hw, sw |-> op.sw,
              key |-> op.key, asked |-> op.asked, rightful |-> op.rightful,
              confirmation |-> op.confirmation, tagged |-> op.tagged, fed |-> op.fed]
    BY DEF OperationOK
  <2> DEFINE op1 == [op EXCEPT !.fed = f]
             op2 == [op1 EXCEPT !.confirmation = b]
  <2>2. new = [op2 EXCEPT !.tagged = t]
    BY <1>3
  <2>3. op1 = [class |-> op.class, purpose |-> op.purpose, hw |-> op.hw, sw |-> op.sw,
               key |-> op.key, asked |-> op.asked, rightful |-> op.rightful,
               confirmation |-> op.confirmation, tagged |-> op.tagged, fed |-> f]
    BY <2>1
  <2> HIDE DEF op1
  <2>4. op2 = [class |-> op.class, purpose |-> op.purpose, hw |-> op.hw, sw |-> op.sw,
               key |-> op.key, asked |-> op.asked, rightful |-> op.rightful,
               confirmation |-> b, tagged |-> op.tagged, fed |-> f]
    BY <2>3
  <2> HIDE DEF op2
  <2>5. QED
    BY <2>2, <2>4
<1>5. OperationOK(new) /\ Matches(new) /\ Covers(new)
  BY <1>1, <1>2, <1>4 DEF OperationOK, Matches, Covers
<1>6. new # NoOperation
  <2>1. "fed" \in DOMAIN new /\ "fed" \notin DOMAIN NoOperation
    BY <1>4 DEF NoOperation
  <2>2. QED
    BY <2>1
<1>7. QED
  BY <1>5, <1>6 DEF new

(***************************************************************************)
(* Beginning, updating and ending an operation.                            *)
(***************************************************************************)
\* The factory for an algorithm and a purpose, and the class it makes.
LEMMA FactoryOfPurpose ==
  ASSUME NEW alg \in DOMAIN Purposes, NEW purpose \in Purposes[alg], NEW hw, NEW sw,
         "CURVE_25519" \in hw \cup sw => alg = "EC"
  PROVE  LET class == MadeBy(GetFactory(alg, purpose), hw, sw)
         IN  /\ ClassPurpose[class] = purpose
             /\ (class = "Ed25519SignOperation") =
                  (purpose = "SIGN" /\ "CURVE_25519" \in hw \cup sw)
<1> DEFINE f == GetFactory(alg, purpose)
<1>1. <<alg, purpose>> \in {<<"RSA", "SIGN">>, <<"RSA", "VERIFY">>, <<"RSA", "ENCRYPT">>,
                          <<"RSA", "DECRYPT">>, <<"EC", "SIGN">>, <<"EC", "VERIFY">>}
  BY DEF Purposes
<1>2. \E g \in DOMAIN registry_key : registry_key[g] = <<alg, purpose>>
  BY <1>1 DEF registry_key
<1>3. f \in DOMAIN registry_key /\ registry_key[f] = <<alg, purpose>>
  BY <1>2 DEF GetFactory
<1> HIDE DEF f
<1>4. \/ f = "RsaSigning" /\ alg = "RSA" /\ purpose = "SIGN"
      \/ f = "RsaVerification" /\ alg = "RSA" /\ purpose = "VERIFY"
      \/ f = "RsaEncryption" /\ alg = "RSA" /\ purpose = "ENCRYPT"
      \/ f = "RsaDecryption" /\ alg = "RSA" /\ purpose = "DECRYPT"
      \/ f = "EcdsaSign" /\ alg = "EC" /\ purpose = "SIGN"
      \/ f = "EcdsaVerify" /\ alg = "EC" /\ purpose = "VERIFY"
  BY <1>3 DEF registry_key
<1>5. QED
  BY <1>4 DEF MadeBy, ClassPurpose, IsEd25519Key, f

\* Begin puts an operation of the key's class into a free place.
LEMMA NewOperation ==
  ASSUME NEW key \in Keys, NEW purpose \in Purposes[key.alg], NEW rightful
  PROVE  LET i == InstantiateOperation(GetFactory(key.alg, purpose), key.hw, key.sw, TRUE)
             op == [class |-> i.class, purpose |-> i.purpose, hw |-> i.hw, sw |-> i.sw,
                    key |-> key, asked |-> purpose, rightful |-> rightful,
                    confirmation |-> NoBuffer, tagged |-> TRUE, fed |-> << >>]
         IN  OperationOK(op) /\ Matches(op) /\ Covers(op) /\ op # NoOperation
<1> DEFINE class == MadeBy(GetFactory(key.alg, purpose), key.hw, key.sw)
           op == [class |-> class, purpose |-> ClassPurpose[class], hw |-> key.hw, sw |-> key.sw,
                  key |-> key, asked |-> purpose, rightful |-> rightful,
                  confirmation |-> NoBuffer, tagged |-> TRUE, fed |-> << >>]
<1>1. /\ ClassPurpose[class] = purpose
      /\ (class = "Ed25519SignOperation") =
           (purpose = "SIGN" /\ "CURVE_25519" \in key.hw \cup key.sw)
  BY DeviceAssumption, FactoryOfPurpose
<1> HIDE DEF class
<1>2. OperationOK(op) /\ Matches(op) /\ Covers(op)
  BY <1>1 DEF OperationOK, Matches, Covers, Whole, NoBuffer
<1>3. op # NoOperation
  <2>1. "fed" \in DOMAIN op /\ "fed" \notin DOMAIN NoOperation
    BY DEF NoOperation
  <2>2. QED
    BY <2>1
<1>4. QED
  BY <1>2, <1>3 DEF InstantiateOperation, class

LEMMA BeginKnown ==
  ASSUME KnownInv, NEW key \in Keys, NEW purpose \in Purposes[key.alg], NEW auth,
         NEW allocates \in BOOLEAN, NEW padding, NEW digest,
         Begin(key, purpose, padding, digest, auth, allocates)
  PROVE  KnownInv'
<1> USE DEF KnownInv, OperationsInv
<1> DEFINE g == CHOOSE x \in FreeHandles : TRUE
           i == InstantiateOperation(GetFactory(key.alg, purpose), key.hw, key.sw, allocates)
           result == BeginResult(key, i, padding, digest, auth)
           op == [class |-> i.class, purpose |-> i.purpose, hw |-> i.hw, sw |-> i.sw,
                  key |-> key, asked |-> purpose,
                  rightful |-> Rightful(key.hw \cup key.sw, auth),
                  confirmation |-> NoBuffer, tagged |-> TRUE, fed |-> << >>]
<1>1. result \in ErrorCodes
  <2> HIDE DEF i
  <2>1. QED
    BY Errors DEF BeginResult, AuthorizeBegin
<1>2. ReturnsWith(result, Unverified)
  BY DEF Begin, Returns
<1>3. reply'.client = result /\ reply'.result = result /\ reply'.verified = Unverified
  <2> HIDE DEF result
  <2>1. QED
    BY <1>1, <1>2, ReturnsKnown
<1>4. CASE result # "OK"
  <2>1. UNCHANGED <<table, open>>
    BY <1>4 DEF Begin
  <2> HIDE DEF result
  <2>2. QED
    BY <1>3, <2>1, UnverifiedWhole DEF ClientKnows
<1>5. CASE result = "OK"
  <2>1. i # NoOperation /\ FreeHandles # {}
    <3> HIDE DEF i
    <3>1. QED
      BY <1>5, SMT DEF BeginResult
  <2>2. g \in Handles /\ table[g] = NoOperation
    BY <2>1 DEF FreeHandles
  <2>3. allocates = TRUE
    BY <2>1 DEF InstantiateOperation
  <2>4. OperationOK(op) /\ Matches(op) /\ Covers(op) /\ op # NoOperation
    BY <2>3, NewOperation
  <2>5. /\ table' = [table EXCEPT ![g] = op]
        /\ open' = IF reply'.client = "OK" THEN open \cup {g} ELSE open
    BY <1>5 DEF Begin
  <2> HIDE DEF g, op, result
  <2>6. table'[g] = op /\ \A h \in Handles \ {g} : table'[h] = table[h]
    BY <2>2, <2>5
  <2>7. OperationsInv'
    BY <2>4, <2>5, <2>6
  <2>8. \A h \in Handles : (table[h] # NoOperation => Matches(table[h]) /\ Covers(table[h]))'
    BY <2>4, <2>6
  <2>9. ClientKnows'
    BY <1>3, <1>5, <2>2, <2>4, <2>5, <2>6 DEF ClientKnows
  <2>10. QED
    BY <1>3, <2>7, <2>8, <2>9, UnverifiedWhole
<1>6. QED
  BY <1>4, <1>5

LEMMA UpdateKnown ==
  ASSUME KnownInv, NEW h \in Handles, NEW result \in {"OK"} \cup Reported,
         NEW outcome \in Allocations, Update(h, result, outcome)
  PROVE  KnownInv'
<1> USE DEF KnownInv, OperationsInv
<1> DEFINE data == Len(table[h].fed) + 1
           e == HandlerResult(h, Buffered(table[h], data, outcome), result)
<1>1. e \in ErrorCodes
  BY Errors DEF HandlerResult
<1>2. ReturnsWith(e, Unverified) /\ Closes(h)
  BY DEF Update, Returns
<1>3. reply'.client = e /\ reply'.result = e /\ reply'.verified = Unverified
  <2> HIDE DEF e
  <2>1. QED
    BY <1>1, <1>2, ReturnsKnown
<1>4. open' = IF e = "OK" THEN open ELSE open \ {h}
  BY <1>2, <1>3 DEF Closes
<1>5. CASE e # "OK"
  <2>1. table' = [table EXCEPT ![h] = NoOperation]
    BY <1>5 DEF Update
  <2> HIDE DEF e
  <2>2. QED
    BY <1>3, <1>4, <1>5, <2>1, UnverifiedWhole DEF ClientKnows
<1>6. CASE e = "OK"
  <2>1. table[h] # NoOperation /\ Buffered(table[h], data, outcome).ok
    BY <1>6 DEF HandlerResult
  <2>2. OperationOK(table[h]) /\ Matches(table[h]) /\ Covers(table[h])
    BY <2>1
  <2>3. data \in Nat
    BY <2>2 DEF OperationOK
  <2>4. PICK op : /\ table' = [table EXCEPT ![h] = op]
                  /\ OperationOK(op) /\ Matches(op) /\ Covers(op) /\ op # NoOperation
    <3>1. CASE ~Confirmed(table[h])
      <4>1. table' = table
        BY <1>6, <3>1 DEF Update
      <4>2. table = [table EXCEPT ![h] = table[h]]
        OBVIOUS
      <4>3. QED
        BY <2>1, <2>2, <4>1, <4>2
    <3>2. CASE Confirmed(table[h])
      <4>1. table' = [table EXCEPT ![h] = Fed(table[h], data, outcome)]
        BY <1>6, <3>2 DEF Update
      <4> HIDE DEF data
      <4>2. QED
        BY <2>1, <2>2, <2>3, <3>2, <4>1, FedOperation
    <3>3. QED
      BY <3>1, <3>2
  <2> HIDE DEF e
  <2>5. table'[h] = op /\ \A q \in Handles \ {h} : table'[q] = table[q]
    BY <2>4
  <2>6. OperationsInv'
    BY <2>4, <2>5
  <2>7. \A q \in Handles : (table[q] # NoOperation => Matches(table[q]) /\ Covers(table[q]))'
    BY <2>4, <2>5
  <2>8. ClientKnows'
    BY <1>3, <1>4, <1>6, <2>1, <2>4, <2>5 DEF ClientKnows
  <2>9. QED
    BY <1>3, <2>6, <2>7, <2>8, UnverifiedWhole
<1>7. QED
  BY <1>5, <1>6

\* An operation ends, and what the token was checked against is reported.
LEMMA OperationEnds ==
  ASSUME KnownInv, NEW h \in Handles, NEW e \in ErrorCodes, NEW v, ReturnsWith(e, v),
         Whole(v.buffer, v.tagged, v.fed),
         table' = [table EXCEPT ![h] = NoOperation], open' = open \ {h}
  PROVE  KnownInv'
<1>1. reply'.client = e /\ reply'.result = e /\ reply'.verified = v
  BY ReturnsKnown
<1>2. QED
  BY <1>1 DEF KnownInv, OperationsInv, ClientKnows

LEMMA FinishKnown ==
  ASSUME KnownInv, NEW h \in Handles, NEW result \in {"OK"} \cup Reported,
         NEW outcome \in Allocations, Finish(h, result, outcome)
  PROVE  KnownInv'
<1> DEFINE data == Len(table[h].fed) + 1
           e == HandlerResult(h, Buffered(table[h], data, outcome), result)
           last == Fed(table[h], data, outcome)
           checked == [buffer |-> last.confirmation, tagged |-> last.tagged, fed |-> last.fed]
           v == IF e = "OK" /\ Confirmed(table[h]) THEN checked ELSE Unverified
<1>1. e \in ErrorCodes
  BY Errors DEF HandlerResult
<1>2. /\ ReturnsWith(e, v) /\ table' = [table EXCEPT ![h] = NoOperation]
      /\ open' = open \ {h}
  BY DEF Finish
<1>3. Whole(v.buffer, v.tagged, v.fed)
  <2>1. CASE e = "OK" /\ Confirmed(table[h])
    <3>1. table[h] # NoOperation /\ Buffered(table[h], data, outcome).ok
      BY <2>1 DEF HandlerResult
    <3>2. OperationOK(table[h]) /\ Matches(table[h]) /\ Covers(table[h])
      BY <3>1 DEF KnownInv, OperationsInv
    <3>3. data \in Nat
      BY <3>2 DEF OperationOK
    <3>4. Covers(last)
      <4> HIDE DEF data
      <4>1. QED
        BY <2>1, <3>1, <3>2, <3>3, FedOperation
    <3>5. v = checked
      BY <2>1
    <3> HIDE DEF last, e, v
    <3>6. QED
      BY <3>4, <3>5 DEF Covers
  <2>2. CASE ~(e = "OK" /\ Confirmed(table[h]))
    <3>1. v = Unverified
      BY <2>2
    <3> HIDE DEF v
    <3>2. QED
      BY <3>1, UnverifiedWhole
  <2>3. QED
    BY <2>1, <2>2
<1> HIDE DEF e, v
<1>4. QED
  BY <1>1, <1>2, <1>3, OperationEnds

LEMMA AbortKnown ==
  ASSUME KnownInv, NEW h \in Handles, NEW result \in {"OK"} \cup Reported,
         AbortOperation(h, result)
  PROVE  KnownInv'
<1> DEFINE e == IF table[h] = NoOperation THEN "INVALID_OPERATION_HANDLE" ELSE result
<1>1. e \in ErrorCodes
  BY Errors
<1>2. /\ ReturnsWith(e, Unverified) /\ table' = [table EXCEPT ![h] = NoOperation]
      /\ open' = open \ {h}
  BY DEF AbortOperation, Returns
<1> HIDE DEF e
<1>3. QED
  BY <1>1, <1>2, OperationEnds, UnverifiedWhole

\* No step of the device or of its client breaks the second invariant.
LEMMA StepKnown == KnownInv /\ [DeviceNext]_deviceVars => KnownInv'
<1> SUFFICES ASSUME KnownInv, [DeviceNext]_deviceVars PROVE KnownInv'
  OBVIOUS
<1>1. ASSUME UNCHANGED <<table, open>>, reply'.client = reply'.result,
             reply'.verified = Unverified
      PROVE  KnownInv'
  BY <1>1, UnverifiedWhole DEF KnownInv, OperationsInv, ClientKnows
<1>2. CASE Tick \/ (\E b \in BOOLEAN : Mint(b))
  BY <1>1, <1>2 DEF Tick, Mint, NoReply
<1>3. CASE early_boot_ended \/ (\E b \in BOOLEAN : Lock(b))
  BY <1>1, <1>3, ReturnsKnown, Errors DEF early_boot_ended, Lock, Returns
<1>4. ASSUME NEW key \in Keys, NEW allocates \in BOOLEAN, NEW purpose \in Purposes[key.alg],
             NEW auth \in Offered(key), NEW padding \in Paddings(key.alg, purpose),
             NEW digest \in Digests(key.alg),
             Begin(key, purpose, padding, digest, auth, allocates)
      PROVE  KnownInv'
  BY <1>4, BeginKnown
<1>5. ASSUME NEW h \in Handles, NEW result \in {"OK"} \cup Reported, NEW outcome \in Allocations,
             Update(h, result, outcome) \/ Finish(h, result, outcome)
      PROVE  KnownInv'
  BY <1>5, UpdateKnown, FinishKnown
<1>6. ASSUME NEW h \in Handles, NEW result \in {"OK"} \cup Reported, AbortOperation(h, result)
      PROVE  KnownInv'
  BY <1>6, AbortKnown
<1>7. ASSUME NEW result \in ErrorCodes, OtherCall(result) PROVE KnownInv'
  BY <1>1, <1>7, ReturnsKnown DEF OtherCall, Returns
<1>8. CASE UNCHANGED deviceVars
  BY <1>8 DEF deviceVars, KnownInv, OperationsInv, ClientKnows
<1>9. QED
  BY <1>2, <1>3, <1>4, <1>5, <1>6, <1>7, <1>8 DEF DeviceNext

LEMMA KnownInvariance == DeviceSpec => []KnownInv
<1>1. DeviceInit => KnownInv
  BY UnverifiedWhole DEF DeviceInit, KnownInv, OperationsInv, ClientKnows, NoReply
<1>2. KnownInv /\ [DeviceNext]_deviceVars => KnownInv'
  BY StepKnown
<1>3. QED
  BY <1>1, <1>2, PTL DEF DeviceSpec

(***************************************************************************)
(* For all keys: the operation behind a handle has the purpose that was    *)
(* asked for written into its class, and signs with Ed25519 just when it   *)
(* should (the factories and the classes of rsa_operation.h and            *)
(* ecdsa_operation.h).                                                     *)
(***************************************************************************)
THEOREM OperationsOfTheirKeys == DeviceSpec => []OperationMatchesKey
<1>1. KnownInv => OperationMatchesKey
  BY DEF KnownInv, Matches, OperationMatchesKey
<1>2. QED
  BY <1>1, KnownInvariance, PTL

(***************************************************************************)
(* For any number of inputs, that of Finish with them, and whichever       *)
(* allocation fails: the buffer a confirmation token is checked against is *)
(* the tag, unless its bytes had no storage, and then every input in order *)
(* (create_confirmation_verifier_buffer in operation.h).                   *)
(***************************************************************************)
THEOREM ConfirmationWhole == DeviceSpec => []ConfirmationCoversAll
<1>1. KnownInv => ConfirmationCoversAll
  BY DEF KnownInv, Covers, ConfirmationCoversAll
<1>2. QED
  BY <1>1, KnownInvariance, PTL

(***************************************************************************)
(* For any errors the handlers report: the client reads the error that the *)
(* device returned, and takes for open exactly the operations in the table *)
(* (kmError2ScopedAStatus of KeyMintUtils.h, toString of ErrorCode.h).     *)
(***************************************************************************)
THEOREM ClientInStep == DeviceSpec => []ClientKnows
<1>1. KnownInv => ClientKnows
  BY DEF KnownInv
<1>2. QED
  BY <1>1, KnownInvariance, PTL
=============================================================================
