-------------------------- MODULE AuthorizationSets --------------------------
(***************************************************************************)
(* keymaster's AuthorizationSet, its builder and the AuthProxy over two    *)
(* sets (authorization_set.h).  Storage may run out in any operation that  *)
(* grows or copies a set; the set then records it in error_.  The bodies   *)
(* of push_back, Reinitialize, FreeData, MoveFrom, find and operator[] are *)
(* elsewhere: they do what the comments of the header promise.             *)
(***************************************************************************)
EXTENDS Integers, Sequences, FiniteSets

CONSTANTS
  Sets,            \* the sets; a set is also the one inside a builder
  FirstMethods,    \* builder methods that may come first
  LaterMethods,    \* builder methods that may follow
  MaxElems         \* bound on the elements of a set

VARIABLES
  set,      \* elems_ and error_ of each set
  want,     \* what the calls so far have asked to be in it
  loss,     \* how elements of a set went missing that its error_ does not tell of
  iter      \* an iterator over two sets, and what it has shown

setVars == <<set, want, loss, iter>>

OK == "OK"
ALLOCATION_FAILURE == "ALLOCATION_FAILURE"
EmptySet == [elems |-> << >>, error |-> OK]
Invalid == [elems |-> << >>, error |-> ALLOCATION_FAILURE]

invalid == -1     \* ~size_t(0)
NoIter == [pos |-> invalid, sets |-> << >>, shown |-> << >>]

SetsInit ==
  /\ set = [s \in Sets |-> EmptySet] /\ want = [s \in Sets |-> << >>]
  /\ loss = [s \in Sets |-> "none"] /\ iter = NoIter

(***************************************************************************)
(* The methods of the builder: what each of them pushes, in order.         *)
(***************************************************************************)
SigningKey == <<<<"PURPOSE", "SIGN">>, <<"PURPOSE", "VERIFY">>>>
EncryptionKey == <<<<"PURPOSE", "ENCRYPT">>, <<"PURPOSE", "DECRYPT">>>>
NoDigestOrPadding == <<<<"DIGEST", "NONE">>, <<"PADDING", "NONE">>>>
EcbMode == <<<<"BLOCK_MODE", "ECB">>>>
SizedKey(algorithm) == <<<<"ALGORITHM", algorithm>>, <<"KEY_SIZE", "bits">>>>
RsaKey == SizedKey("RSA") \o <<<<"RSA_PUBLIC_EXPONENT", "e">>>>

Pushes ==
  [RsaKey |-> RsaKey, EcdsaKey |-> SizedKey("EC"), AesKey |-> SizedKey("AES"),
   TripleDesKey |-> SizedKey("TRIPLE_DES"), HmacKey |-> SizedKey("HMAC") \o SigningKey,
   RsaSigningKey |-> RsaKey \o SigningKey, RsaEncryptionKey |-> RsaKey \o EncryptionKey,
   EcdsaSigningKey |-> SizedKey("EC") \o SigningKey,
   AesEncryptionKey |-> SizedKey("AES") \o EncryptionKey,
   TripleDesEncryptionKey |-> SizedKey("TRIPLE_DES") \o EncryptionKey,
   SigningKey |-> SigningKey, EncryptionKey |-> EncryptionKey,
   NoDigestOrPadding |-> NoDigestOrPadding, EcbMode |-> EcbMode]

ASSUME MethodsAssumption == FirstMethods \cup LaterMethods \subseteq DOMAIN Pushes

(***************************************************************************)
(* Operations on sets.  Nobody changes a set that is being iterated over.  *)
(***************************************************************************)
AtRest == iter.pos = invalid
Fits(n) == n <= MaxElems

\* push_back: an invalid set stays invalid, and there may be no storage.
Pushed(c, elems, fails) ==
  IF c.error # OK THEN c
  ELSE IF fails THEN Invalid ELSE [c EXCEPT !.elems = @ \o elems]

\* Reinitialize(elems, count): nothing is allocated for an empty array.
Reinitialized(elems, fails) ==
  IF elems # << >> /\ fails THEN Invalid ELSE [elems |-> elems, error |-> OK]

\* One of the pushes of a method fails, or none does.
Build(s, m, fails) ==
  /\ AtRest /\ Fits(Len(want[s]) + Len(Pushes[m]))
  /\ set' = [set EXCEPT ![s] = Pushed(@, Pushes[m], fails)]
  /\ want' = [want EXCEPT ![s] = @ \o Pushes[m]]
  /\ iter' = NoIter /\ UNCHANGED loss

(***************************************************************************)
(* What the elements of t lack: those of an invalid set are taken without  *)
(* its error_ ("unread") by all that look at the array only; "assigned" is *)
(* a failure that operator= has written over.                              *)
(***************************************************************************)
LossOfElems(t) == IF set[t].error # OK THEN "unread" ELSE loss[t]

\* push_back(set) takes the plain array, valid or not.
PushSet(s, t, fails) ==
  /\ AtRest /\ s # t /\ Fits(Len(want[s]) + Len(want[t]))
  /\ set' = [set EXCEPT ![s] = Pushed(@, set[t].elems, fails)]
  /\ want' = [want EXCEPT ![s] = @ \o want[t]]
  /\ loss' = [loss EXCEPT ![s] = IF @ # "none" THEN @ ELSE LossOfElems(t)]
  /\ iter' = NoIter

\* What becomes of the records of s when it takes the place of a copy of t.
Mirrors(s, t, lost) ==
  /\ want' = [want EXCEPT ![s] = want[t]]
  /\ loss' = [loss EXCEPT ![s] = lost]
  /\ iter' = NoIter

\* Mutant: a copy of an invalid set is a valid one.
CopyConstructForgetting(s, t, fails) ==
  /\ AtRest /\ s # t
  /\ set' = [set EXCEPT ![s] = Reinitialized(set[t].elems, fails)]
  /\ Mirrors(s, t, loss[t])

\* The copy constructor (and build()) into an object of its own.
CopyConstructSet(s, t, fails) ==
  /\ AtRest /\ s # t
  /\ set' = [set EXCEPT ![s] = IF set[t].error # OK THEN [EmptySet EXCEPT !.error = set[t].error]
                               ELSE Reinitialized(set[t].elems, fails)]
  /\ Mirrors(s, t, loss[t])

\* Reinitialize(const AuthorizationSet&) looks at the elements only.
Reinitialize(s, t, fails) ==
  /\ AtRest /\ s # t
  /\ set' = [set EXCEPT ![s] = Reinitialized(set[t].elems, fails)]
  /\ Mirrors(s, t, LossOfElems(t))

\* operator=: error_ is then that of the source, whatever Reinitialize said.
CopyAssignSet(s, t, fails) ==
  /\ AtRest /\ s # t
  /\ set' = [set EXCEPT ![s] = [Reinitialized(set[t].elems, fails) EXCEPT !.error = set[t].error]]
  /\ Mirrors(s, t, IF fails /\ set[t].elems # << >> THEN "assigned" ELSE loss[t])

\* FreeData and MoveFrom; also the move constructor and AuthorizationSet(builder).
MoveAssignSet(s, t) ==
  /\ AtRest
  /\ set' = [[set EXCEPT ![s] = IF s = t THEN EmptySet ELSE set[t]] EXCEPT ![t] = EmptySet]
  /\ want' = [[want EXCEPT ![s] = want[t]] EXCEPT ![t] = << >>]
  /\ loss' = [[loss EXCEPT ![s] = loss[t]] EXCEPT ![t] = "none"]
  /\ iter' = NoIter

ClearSet(s) ==
  /\ AtRest
  /\ set' = [set EXCEPT ![s] = EmptySet] /\ want' = [want EXCEPT ![s] = << >>]
  /\ loss' = [loss EXCEPT ![s] = "none"] /\ iter' = NoIter

(***************************************************************************)
(* AuthProxy: a hardware-enforced set and a software-enforced one.         *)
(***************************************************************************)
At(s, pos) == set[s].elems[pos + 1]
size(s) == Len(set[s].elems)
Instances(s, tag) == {i \in DOMAIN set[s].elems : set[s].elems[i][1] = tag}
First(S) == CHOOSE i \in S : \A j \in S : i <= j

SetContains(s, tag) == Instances(s, tag) # {}
GetTagCount(s, tag) == Cardinality(Instances(s, tag))

(***************************************************************************)
(* The overloads of GetTagValue, and Nothing if one returns false: a tag   *)
(* with one value; a given instance of a repeatable tag; a repeatable      *)
(* enumeration without an instance, which must be the only one.            *)
(***************************************************************************)
Nothing == "nothing"
EnumRep == {"PURPOSE", "DIGEST", "PADDING", "BLOCK_MODE"}

IsInstance(s, tag, k, i) ==
  i \in Instances(s, tag) /\ Cardinality({j \in Instances(s, tag) : j < i}) = k

GetTagValue(s, tag) ==
  IF SetContains(s, tag) THEN set[s].elems[First(Instances(s, tag))][2] ELSE Nothing
GetTagValueRep(s, tag, k) ==
  IF \E i \in Instances(s, tag) : IsInstance(s, tag, k, i)
    THEN set[s].elems[CHOOSE i \in Instances(s, tag) : IsInstance(s, tag, k, i)][2]
    ELSE Nothing
GetOnlyTagValue(s, tag) == IF GetTagCount(s, tag) # 1 THEN Nothing ELSE GetTagValueRep(s, tag, 0)

OrElse(a, b) == IF a # Nothing THEN a ELSE b

ProxyContains(h, s, tag) == SetContains(h, tag) \/ SetContains(s, tag)
ProxyGetTagCount(h, s, tag) == GetTagCount(h, tag) + GetTagCount(s, tag)
ProxyGetTagValue(h, s, tag) == OrElse(GetTagValue(h, tag), GetTagValue(s, tag))
ProxyGetTagValueRep(h, s, tag, k) == OrElse(GetTagValueRep(h, tag, k), GetTagValueRep(s, tag, k))
ProxyGetOnlyTagValue(h, s, tag) == OrElse(GetOnlyTagValue(h, tag), GetOnlyTagValue(s, tag))
ProxyIndex(h, s, pos) ==
  IF pos < size(h) THEN At(h, pos)
  ELSE IF pos - size(h) < size(s) THEN At(s, pos - size(h)) ELSE <<"INVALID", Nothing>>

ProxyBegin(h, s) ==
  /\ AtRest
  /\ iter' = [pos |-> 0, sets |-> <<h, s>>, shown |-> << >>]
  /\ UNCHANGED <<set, want, loss>>

\* operator* of the iterator, past the end too, and operator++.
Outside == <<"OUTSIDE", Nothing>>
Deref(i) ==
  IF i.pos < size(i.sets[1]) THEN At(i.sets[1], i.pos)
  ELSE IF i.pos - size(i.sets[1]) < size(i.sets[2]) THEN At(i.sets[2], i.pos - size(i.sets[1]))
  ELSE Outside

\* Mutant: the iteration ends with the first of the sets.
IncrementFirst(i) == IF i.pos + 1 = size(i.sets[1]) THEN invalid ELSE i.pos + 1

Increment(i) ==
  IF i.pos + 1 = size(i.sets[1]) + size(i.sets[2]) THEN invalid ELSE i.pos + 1

\* An iterator that has run past the end is followed as long as Fits(pos).
Step ==
  /\ ~AtRest /\ (Fits(iter.pos) \/ iter.pos < size(iter.sets[1]) + size(iter.sets[2]))
  /\ iter' = [iter EXCEPT !.shown = Append(@, Deref(iter)), !.pos = Increment(iter)]
  /\ UNCHANGED <<set, want, loss>>

\* The loop over the elements is left before its end.
Break == ~AtRest /\ iter' = NoIter /\ UNCHANGED <<set, want, loss>>

Methods == IF \A s \in Sets : want[s] = << >> THEN FirstMethods ELSE LaterMethods

SetsNext ==
  \/ \E s \in Sets, fails \in BOOLEAN : \E m \in Methods : Build(s, m, fails)
  \/ \E s, t \in Sets, fails \in BOOLEAN :
       PushSet(s, t, fails) \/ CopyConstructSet(s, t, fails)
         \/ Reinitialize(s, t, fails) \/ CopyAssignSet(s, t, fails)
  \/ \E s, t \in Sets : MoveAssignSet(s, t) \/ ProxyBegin(s, t)
  \/ \E s \in Sets : ClearSet(s)
  \/ Step \/ Break

SetsSpec == SetsInit /\ [][SetsNext]_setVars

-----------------------------------------------------------------------------
(***************************************************************************)
(* A set that says it is valid has everything its callers put into it, in  *)
(* order, however it was copied, moved or built and whichever allocation   *)
(* failed: is_valid() tells of every failure, as lines 53-56 and 121-125   *)
(* promise.  Two ways around it are told apart by loss, and go on with the *)
(* elements: operator=, which calls Reinitialize and then (line 105) takes *)
(* the error_ of the source, and a caller that takes the elements of an    *)
(* invalid set without asking it.  No other operation loses anything.      *)
(***************************************************************************)
ValidIsComplete ==
  \A s \in Sets : loss[s] = "none" /\ set[s].error = OK => set[s].elems = want[s]

(***************************************************************************)
(* A proxy is the two sets one after the other: an iteration shows every   *)
(* element once, in order, and ends, unless both are empty (begin() is     *)
(* then not end(), and ++ never gets there); contains, the count, the      *)
(* element at a position and the value of a tag that has one agree with    *)
(* it.  An instance of a repeatable tag, and its only one, is that of the  *)
(* concatenation where one of the sets has the tag; where both have it the *)
(* proxy asks each by itself, so it names an only instance though there    *)
(* are two, and never the last of the second set.                          *)
(***************************************************************************)
TagsIn(elems) == {elems[i][1] : i \in DOMAIN elems}

\* The k-th value of a tag in a sequence, counted from 0, if there is one.
KthValues(elems, tag, k) ==
  LET at == {i \in DOMAIN elems : elems[i][1] = tag}
  IN  {elems[i][2] : i \in {i \in at : Cardinality({j \in at : j < i}) = k}}

IterationIsConcatenation ==
  iter.sets # << >> =>
    LET all == set[iter.sets[1]].elems \o set[iter.sets[2]].elems
    IN  IF all = << >> THEN ~AtRest
        ELSE iter.shown = IF AtRest THEN all ELSE SubSeq(all, 1, iter.pos)

LookupsAreOfConcatenation ==
  \A h, s \in Sets :
    LET all == set[h].elems \o set[s].elems
        at(tag) == {i \in DOMAIN all : all[i][1] = tag}
    IN  /\ \A i \in DOMAIN all : ProxyIndex(h, s, i - 1) = all[i]
        /\ ProxyIndex(h, s, Len(all))[1] = "INVALID"
        /\ \A tag \in TagsIn(all) :
             /\ ProxyContains(h, s, tag)
             /\ ProxyGetTagCount(h, s, tag) = Cardinality(at(tag))
             /\ tag \notin EnumRep =>
                  ProxyGetTagValue(h, s, tag) = all[First(at(tag))][2]
             /\ tag \in EnumRep /\ ~(SetContains(h, tag) /\ SetContains(s, tag)) =>
                  /\ \A k \in 0..Len(all) :
                       {ProxyGetTagValueRep(h, s, tag, k)} \ {Nothing} = KthValues(all, tag, k)
                  /\ {ProxyGetOnlyTagValue(h, s, tag)} \ {Nothing} =
                       IF Cardinality(at(tag)) = 1 THEN KthValues(all, tag, 0) ELSE {}

ProxyIsConcatenation == IterationIsConcatenation /\ LookupsAreOfConcatenation
=============================================================================
