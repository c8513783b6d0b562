------------------------------ MODULE MCObjects ------------------------------
(***************************************************************************)
(* The objects of the keymaster and KeyMint headers in one instance: blobs *)
(* and chains, lists, results, authorization sets, key parameters, COSE    *)
(* keys, and the device.  They share nothing here, so a behaviour uses one *)
(* of them and leaves the others in their initial state.                   *)
(***************************************************************************)
EXTENDS OwnedBlobs, KmResult, AuthorizationSets, KeyParams, CoseKeys, KmDevice

CONSTANTS Lists, Nodes, Values

VARIABLES
  use, node, live, it

lists == <<node, live, it>>

L == INSTANCE LinkedList

\* A method of each shape; the others differ in the algorithm or the purposes they name.
Builders == {"RsaKey", "HmacKey", "EcdsaSigningKey", "SigningKey", "NoDigestOrPadding", "EcbMode"}

KnownTags == (Names \cap DeclaredTags) \ {"INVALID"}

\* Entries of a COSE key besides the usual ones: second items under a label.
MCAdditions ==
  {<<"KEY_ID", bstr(4)>>, <<"ALGORITHM", int(-25)>>, <<"CURVE", int(4)>>, <<"PUBKEY_X", bstr(48)>>}

DeviceKeys ==
  {[alg |-> "RSA", hw |-> {}, sw |-> {}],
   [alg |-> "EC", hw |-> {"CURVE_25519"}, sw |-> {"UNLOCKED_DEVICE_REQUIRED"}],
   [alg |-> "EC", hw |-> {"TRUSTED_CONFIRMATION_REQUIRED"}, sw |-> {"EARLY_BOOT_ONLY"}]}

MCInit ==
  /\ BlobInit /\ ResultsInit /\ SetsInit /\ ParamsInit /\ DeviceInit /\ L!Init /\ CoseInit
  /\ use \in {"blobs", "lists", "results", "sets", "params", "cose", "device"}

Others(u) ==
  /\ u # "blobs" => UNCHANGED blobVars
  /\ u # "lists" => UNCHANGED lists
  /\ u # "results" => UNCHANGED resultVars
  /\ u # "sets" => UNCHANGED setVars
  /\ u # "params" => UNCHANGED paramVars
  /\ u # "cose" => UNCHANGED coseVars
  /\ u # "device" => UNCHANGED deviceVars

MCNext ==
  /\ \/ use = "blobs" /\ BlobNext
     \/ use = "lists" /\ L!Next
     \/ use = "results" /\ ResultsNext
     \/ use = "sets" /\ SetsNext
     \/ use = "params" /\ ParamsNext
     \/ use = "cose" /\ CoseNext
     \/ use = "device" /\ DeviceNext
  /\ UNCHANGED use /\ Others(use)

MCSpec == MCInit /\ [][MCNext]_<<use, blobVars, lists, resultVars, setVars, paramVars, coseVars,
                                 deviceVars>>

(* List.h implements sequences with iterators, step by step.               *)
ImplementsList == L!ImplementsList

(* The circles of List.h stay whole and own exactly the nodes allocated.   *)
WellLinked == L!WellLinked

=============================================================================
