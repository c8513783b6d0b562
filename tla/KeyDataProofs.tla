---------------------------- MODULE KeyDataProofs ----------------------------
(***************************************************************************)
(* Proofs about the data that keys travel with: AuthorizationSet with its  *)
(* builder and AuthProxy, for any number of sets and any bound on their    *)
(* elements; COSE keys, for byte strings of any length; key parameters on  *)
(* their way through the HAL, for any number of them and any tags.         *)
(***************************************************************************)
EXTENDS AuthorizationSets, CoseKeys, KeyParams, SequenceTheorems, FiniteSetTheorems,
        FunctionTheorems, WellFoundedInduction, TLAPS

(***************************************************************************)
(* The elements of a finite set numbered in a strict order R: how many lie *)
(* below an element tells them apart, and every number is taken.           *)
(***************************************************************************)
StrictOrder(S, R) ==
  /\ \A i \in S : <<i, i>> \notin R
  /\ \A i, j, k \in S : <<i, j>> \in R /\ <<j, k>> \in R => <<i, k>> \in R
  /\ \A i, j \in S : i = j \/ <<i, j>> \in R \/ <<j, i>> \in R

BelowIn(S, R, i) == {j \in S : <<j, i>> \in R}
RankIn(S, R, i) == Cardinality(BelowIn(S, R, i))

LEMMA RanksAreNumbers ==
  ASSUME NEW S, IsFiniteSet(S), NEW R, StrictOrder(S, R)
  PROVE  /\ \A i \in S : RankIn(S, R, i) \in 0..(Cardinality(S) - 1)
         /\ \A i, j \in S : RankIn(S, R, i) = RankIn(S, R, j) => i = j
         /\ \A k \in 0..(Cardinality(S) - 1) : \E i \in S : RankIn(S, R, i) = k
<1> DEFINE N == Cardinality(S)
           below(i) == BelowIn(S, R, i)
           c(i) == Cardinality(below(i))
<1>1. N \in Nat
  BY FS_CardinalityType
<1>2. \A i \in S : /\ IsFiniteSet(below(i)) /\ c(i) \in Nat
                   /\ IsFiniteSet(below(i) \cup {i}) /\ c(i) + 1 = Cardinality(below(i) \cup {i})
  <2> TAKE i \in S
  <2>1. IsFiniteSet(below(i)) /\ i \notin below(i)
    BY FS_Subset DEF BelowIn, StrictOrder
  <2> QED BY <2>1, FS_AddElement, FS_CardinalityType
<1>3. \A i \in S : c(i) \in 0..(N - 1)
  <2> TAKE i \in S
  <2>1. below(i) \cup {i} \subseteq S
    BY DEF BelowIn
  <2>2. Cardinality(below(i) \cup {i}) <= N
    <3> HIDE DEF below
    <3> QED BY <2>1, FS_Subset
  <2>3. c(i) \in Nat /\ c(i) + 1 = Cardinality(below(i) \cup {i})
    BY <1>2
  <2> HIDE DEF c, N
  <2> QED BY <1>1, <2>2, <2>3
<1>4. \A i, j \in S : <<i, j>> \in R => c(i) < c(j)
  <2> SUFFICES ASSUME NEW i \in S, NEW j \in S, <<i, j>> \in R PROVE c(i) < c(j)
    OBVIOUS
  <2>2. below(i) \cup {i} \subseteq below(j)
    BY DEF BelowIn, StrictOrder
  <2>3. Cardinality(below(i) \cup {i}) <= Cardinality(below(j))
    <3>1. IsFiniteSet(below(j))
      BY <1>2
    <3> HIDE DEF below
    <3> QED BY <2>2, <3>1, FS_Subset
  <2>4. c(i) \in Nat /\ c(i) + 1 = Cardinality(below(i) \cup {i}) /\ c(j) \in Nat
    BY <1>2
  <2>5. c(i) + 1 <= c(j)
    BY <2>3, <2>4
  <2> HIDE DEF c
  <2> QED BY <2>4, <2>5
<1>5. \A i, j \in S : c(i) = c(j) => i = j
  <2> SUFFICES ASSUME NEW i \in S, NEW j \in S, c(i) = c(j), i # j PROVE FALSE
    OBVIOUS
  <2> HIDE DEF c
  <2>1. <<i, j>> \in R \/ <<j, i>> \in R
    BY DEF StrictOrder
  <2>2. c(i) \in Int /\ c(j) \in Int
    BY <1>3
  <2> QED BY <1>4, <2>1, <2>2
<1>6. ASSUME NEW k \in 0..(N - 1) PROVE \E i \in S : c(i) = k
  <2> DEFINE T == 0..(N - 1)
             f == [i \in S |-> c(i)]
  <2>1. IsFiniteSet(T) /\ Cardinality(T) = N
    <3> HIDE DEF N
    <3>1. N - 1 \in Int /\ 0 \in Int
      BY <1>1
    <3>2. /\ IsFiniteSet(T)
          /\ Cardinality(T) = IF 0 > N - 1 THEN 0 ELSE N - 1 - 0 + 1
      BY <3>1, FS_Interval
    <3> QED BY <1>1, <3>2
  <2> HIDE DEF c, T
  <2>2. f \in [S -> T] /\ \A i, j \in S : f[i] = f[j] => i = j
    BY <1>3, <1>5 DEF T
  <2>3. f \in Injection(S, T)
    BY <2>2 DEF Injection, IsInjective
  <2>4. f \in Surjection(S, T)
    BY <2>1, <2>3, FS_Injection
  <2>5. \E i \in S : f[i] = k
    BY <2>4 DEF Surjection, T
  <2> QED BY <2>5
<1> QED BY <1>3, <1>4, <1>5, <1>6 DEF RankIn

-----------------------------------------------------------------------------
(***************************************************************************)
(* Authorization sets: what the methods push.                              *)
(***************************************************************************)
Pairs ==
  {<<"PURPOSE", "SIGN">>, <<"PURPOSE", "VERIFY">>, <<"PURPOSE", "ENCRYPT">>,
   <<"PURPOSE", "DECRYPT">>, <<"DIGEST", "NONE">>, <<"PADDING", "NONE">>,
   <<"BLOCK_MODE", "ECB">>, <<"ALGORITHM", "RSA">>, <<"ALGORITHM", "EC">>,
   <<"ALGORITHM", "AES">>, <<"ALGORITHM", "TRIPLE_DES">>, <<"ALGORITHM", "HMAC">>,
   <<"KEY_SIZE", "bits">>, <<"RSA_PUBLIC_EXPONENT", "e">>}

LEMMA PushesArePairs == \A m \in DOMAIN Pushes : Pushes[m] \in Seq(Pairs)
<1>1. \A a, b \in Seq(Pairs) : a \o b \in Seq(Pairs)
  OBVIOUS
<1>2. /\ SigningKey \in Seq(Pairs) /\ EncryptionKey \in Seq(Pairs)
      /\ NoDigestOrPadding \in Seq(Pairs) /\ EcbMode \in Seq(Pairs)
  BY DEF Pairs, SigningKey, EncryptionKey, NoDigestOrPadding, EcbMode
<1>3. \A x \in {"RSA", "EC", "AES", "TRIPLE_DES", "HMAC"} : SizedKey(x) \in Seq(Pairs)
  BY DEF Pairs, SizedKey
<1>4. RsaKey \in Seq(Pairs)
  <2>1. <<<<"RSA_PUBLIC_EXPONENT", "e">>>> \in Seq(Pairs)
    BY DEF Pairs
  <2> QED BY <1>1, <1>3, <2>1 DEF RsaKey
<1> HIDE DEF Pairs
<1>5. /\ SizedKey("HMAC") \o SigningKey \in Seq(Pairs)
      /\ RsaKey \o SigningKey \in Seq(Pairs) /\ RsaKey \o EncryptionKey \in Seq(Pairs)
      /\ SizedKey("EC") \o SigningKey \in Seq(Pairs)
      /\ SizedKey("AES") \o EncryptionKey \in Seq(Pairs)
      /\ SizedKey("TRIPLE_DES") \o EncryptionKey \in Seq(Pairs)
  BY <1>1, <1>2, <1>3, <1>4
<1>6. /\ DOMAIN Pushes = {"RsaKey", "EcdsaKey", "AesKey", "TripleDesKey", "HmacKey",
                         "RsaSigningKey", "RsaEncryptionKey", "EcdsaSigningKey",
                         "AesEncryptionKey", "TripleDesEncryptionKey", "SigningKey",
                         "EncryptionKey", "NoDigestOrPadding", "EcbMode"}
      /\ Pushes.RsaKey \in Seq(Pairs) /\ Pushes.EcdsaKey \in Seq(Pairs)
      /\ Pushes.AesKey \in Seq(Pairs) /\ Pushes.TripleDesKey \in Seq(Pairs)
      /\ Pushes.HmacKey \in Seq(Pairs) /\ Pushes.RsaSigningKey \in Seq(Pairs)
      /\ Pushes.RsaEncryptionKey \in Seq(Pairs) /\ Pushes.EcdsaSigningKey \in Seq(Pairs)
      /\ Pushes.AesEncryptionKey \in Seq(Pairs)
      /\ Pushes.TripleDesEncryptionKey \in Seq(Pairs)
      /\ Pushes.SigningKey \in Seq(Pairs) /\ Pushes.EncryptionKey \in Seq(Pairs)
      /\ Pushes.NoDigestOrPadding \in Seq(Pairs) /\ Pushes.EcbMode \in Seq(Pairs)
  BY <1>2, <1>3, <1>4, <1>5 DEF Pushes
<1> QED BY <1>6

-----------------------------------------------------------------------------
(***************************************************************************)
(* The inductive invariant.                                                *)
(***************************************************************************)
Contents == [elems : Seq(Pairs), error : {OK, ALLOCATION_FAILURE}]
Losses == {"none", "assigned", "unread"}

SetsTypeInv ==
  /\ set \in [Sets -> Contents]
  /\ want \in [Sets -> Seq(Pairs)]
  /\ loss \in [Sets -> Losses]

\* Where an iteration over two sets stands.
Both(h, s) == set[h].elems \o set[s].elems

IteratorOf(h, s) == iter = [pos |-> iter.pos, sets |-> <<h, s>>, shown |-> iter.shown]

Inside(h, s) ==
  /\ IteratorOf(h, s) /\ iter.pos \in 0..(Len(Both(h, s)) - 1)
  /\ iter.shown = SubSeq(Both(h, s), 1, iter.pos)
AtEnd(h, s) ==
  /\ IteratorOf(h, s) /\ Both(h, s) # << >>
  /\ iter.pos = invalid /\ iter.shown = Both(h, s)
PastEnd(h, s) == IteratorOf(h, s) /\ Both(h, s) = << >> /\ iter.pos \in Nat

IterInv == iter = NoIter \/ \E h, s \in Sets : Inside(h, s) \/ AtEnd(h, s) \/ PastEnd(h, s)

SetsInv == SetsTypeInv /\ IterInv /\ ValidIsComplete

LEMMA SetsInitInv == SetsInit => SetsInv
<1> SUFFICES ASSUME SetsInit PROVE SetsInv
  OBVIOUS
<1>1. SetsTypeInv
  BY DEF SetsInit, SetsTypeInv, Contents, EmptySet, OK, Losses
<1>2. IterInv /\ ValidIsComplete
  BY DEF SetsInit, IterInv, ValidIsComplete, EmptySet
<1> QED BY <1>1, <1>2 DEF SetsInv

\* One set changes: what was said of the others stays true.
LEMMA OneSetChanges ==
  ASSUME SetsInv, NEW s \in Sets, NEW c \in Contents, NEW w \in Seq(Pairs), NEW l \in Losses,
         set' = [set EXCEPT ![s] = c], want' = [want EXCEPT ![s] = w],
         loss' = [loss EXCEPT ![s] = l], iter' = NoIter,
         l = "none" /\ c.error = OK => c.elems = w
  PROVE  SetsInv'
<1>1. SetsTypeInv'
  BY DEF SetsInv, SetsTypeInv
<1>2. IterInv'
  BY DEF IterInv
<1>3. ValidIsComplete'
  BY DEF SetsInv, SetsTypeInv, ValidIsComplete
<1> QED BY <1>1, <1>2, <1>3 DEF SetsInv

LEMMA PushedContents ==
  ASSUME NEW c \in Contents, NEW e \in Seq(Pairs), NEW fails \in BOOLEAN
  PROVE  /\ Pushed(c, e, fails) \in Contents
         /\ Pushed(c, e, fails).error = OK => c.error = OK /\ Pushed(c, e, fails).elems = c.elems \o e
<1>1. CASE c.error # OK
  BY <1>1 DEF Pushed
<1>2. CASE c.error = OK /\ fails
  BY <1>2 DEF Pushed, Contents, Invalid, OK, ALLOCATION_FAILURE
<1>3. CASE c.error = OK /\ ~fails
  <2>1. c.elems \o e \in Seq(Pairs)
    BY DEF Contents
  <2> DEFINE f == c.elems \o e
  <2> HIDE DEF f
  <2>2. [c EXCEPT !.elems = f] \in Contents /\ [c EXCEPT !.elems = f].elems = f
    BY <2>1 DEF Contents, f
  <2> QED BY <1>3, <2>2 DEF Pushed, f
<1> QED BY <1>1, <1>2, <1>3

LEMMA ReinitializedContents ==
  ASSUME NEW e \in Seq(Pairs), NEW fails \in BOOLEAN
  PROVE  /\ Reinitialized(e, fails) \in Contents
         /\ Reinitialized(e, fails).error = OK => Reinitialized(e, fails).elems = e
         /\ ~(fails /\ e # << >>) => Reinitialized(e, fails).elems = e
BY DEF Reinitialized, Contents, Invalid, OK, ALLOCATION_FAILURE

-----------------------------------------------------------------------------
(***************************************************************************)
(* The steps.                                                              *)
(***************************************************************************)
LEMMA BuildStep ==
  ASSUME SetsInv, NEW s \in Sets, NEW m \in DOMAIN Pushes, NEW fails \in BOOLEAN, Build(s, m, fails)
  PROVE  SetsInv'
<1> DEFINE c == Pushed(set[s], Pushes[m], fails)
           w == want[s] \o Pushes[m]
<1>1. set[s] \in Contents /\ want[s] \in Seq(Pairs) /\ Pushes[m] \in Seq(Pairs)
  BY PushesArePairs DEF SetsInv, SetsTypeInv
<1>2. c \in Contents /\ w \in Seq(Pairs)
  BY <1>1, PushedContents
<1>3. loss[s] \in Losses /\ (loss[s] = "none" /\ c.error = OK => c.elems = w)
  <2>1. c.error = OK => set[s].error = OK /\ c.elems = set[s].elems \o Pushes[m]
    BY <1>1, PushedContents
  <2>2. loss[s] = "none" /\ set[s].error = OK => set[s].elems = want[s]
    BY DEF SetsInv, ValidIsComplete
  <2>3. loss[s] \in Losses
    BY DEF SetsInv, SetsTypeInv
  <2> HIDE DEF c
  <2> QED BY <2>1, <2>2, <2>3
<1>4. /\ set' = [set EXCEPT ![s] = c] /\ want' = [want EXCEPT ![s] = w]
      /\ iter' = NoIter
  BY DEF Build
<1>5. loss' = [loss EXCEPT ![s] = loss[s]]
  BY DEF Build, SetsInv, SetsTypeInv
<1> HIDE DEF c, w
<1> QED BY <1>2, <1>3, <1>4, <1>5, OneSetChanges

LEMMA PushSetStep ==
  ASSUME SetsInv, NEW s \in Sets, NEW t \in Sets, NEW fails \in BOOLEAN, PushSet(s, t, fails)
  PROVE  SetsInv'
<1> DEFINE c == Pushed(set[s], set[t].elems, fails)
           w == want[s] \o want[t]
           l == IF loss[s] # "none" THEN loss[s] ELSE LossOfElems(t)
<1>1. /\ set[s] \in Contents /\ want[s] \in Seq(Pairs)
      /\ set[t].elems \in Seq(Pairs) /\ want[t] \in Seq(Pairs)
  BY DEF SetsInv, SetsTypeInv, Contents
<1>2. c \in Contents /\ w \in Seq(Pairs) /\ l \in Losses
  <2>1. l \in Losses
    BY DEF SetsInv, SetsTypeInv, LossOfElems, Losses
  <2> QED BY <1>1, <2>1, PushedContents
<1>3. l = "none" /\ c.error = OK => c.elems = w
  <2>1. l = "none" => loss[s] = "none" /\ set[t].elems = want[t]
    BY DEF LossOfElems, SetsInv, ValidIsComplete
  <2>2. c.error = OK => set[s].error = OK /\ c.elems = set[s].elems \o set[t].elems
    BY <1>1, PushedContents
  <2>3. loss[s] = "none" /\ set[s].error = OK => set[s].elems = want[s]
    BY DEF SetsInv, ValidIsComplete
  <2> HIDE DEF c, l
  <2> QED BY <2>1, <2>2, <2>3
<1>4. /\ set' = [set EXCEPT ![s] = c] /\ want' = [want EXCEPT ![s] = w]
      /\ iter' = NoIter /\ loss' = [loss EXCEPT ![s] = l]
  BY DEF PushSet
<1> HIDE DEF c, w, l
<1> QED BY <1>2, <1>3, <1>4, OneSetChanges

\* The three ways to make s a copy of t.
LEMMA CopyStep ==
  ASSUME SetsInv, NEW s \in Sets, NEW t \in Sets, NEW fails \in BOOLEAN,
         \/ CopyConstructSet(s, t, fails) \/ Reinitialize(s, t, fails)
         \/ CopyAssignSet(s, t, fails)
  PROVE  SetsInv'
<1> DEFINE r == Reinitialized(set[t].elems, fails)
<1>1. /\ set[t] \in Contents /\ set[t].elems \in Seq(Pairs) /\ want[t] \in Seq(Pairs)
      /\ loss[t] \in Losses
      /\ loss[t] = "none" /\ set[t].error = OK => set[t].elems = want[t]
  BY DEF SetsInv, SetsTypeInv, Contents, ValidIsComplete
<1>2. /\ r \in Contents /\ (r.error = OK => r.elems = set[t].elems)
      /\ ~(fails /\ set[t].elems # << >>) => r.elems = set[t].elems
  BY <1>1, ReinitializedContents
<1>3. CASE CopyConstructSet(s, t, fails)
  <2> DEFINE e == [EmptySet EXCEPT !.error = set[t].error]
             c == IF set[t].error # OK THEN e ELSE r
  <2>1. e \in Contents /\ e.error = set[t].error
    <3>1. set[t].error \in {OK, ALLOCATION_FAILURE} /\ << >> \in Seq(Pairs)
      BY <1>1 DEF Contents
    <3>2. e = [elems |-> << >>, error |-> set[t].error]
      BY DEF EmptySet
    <3> HIDE DEF e
    <3> QED BY <3>1, <3>2 DEF Contents
  <2> HIDE DEF e, r
  <2>2. c \in Contents /\ (loss[t] = "none" /\ c.error = OK => c.elems = want[t])
    BY <1>1, <1>2, <2>1
  <2> USE DEF e, r
  <2>3. /\ set' = [set EXCEPT ![s] = c] /\ want' = [want EXCEPT ![s] = want[t]]
        /\ iter' = NoIter /\ loss' = [loss EXCEPT ![s] = loss[t]]
    BY <1>3 DEF CopyConstructSet, Mirrors
  <2> HIDE DEF c
  <2> QED BY <1>1, <2>2, <2>3, OneSetChanges
<1>4. CASE Reinitialize(s, t, fails)
  <2> DEFINE l == LossOfElems(t)
  <2>1. l \in Losses /\ (l = "none" /\ r.error = OK => r.elems = want[t])
    <3>1. l \in Losses /\ (l = "none" => loss[t] = "none" /\ set[t].error = OK)
      BY <1>1 DEF LossOfElems, Losses
    <3> HIDE DEF l, r
    <3> QED BY <1>1, <1>2, <3>1
  <2>2. /\ set' = [set EXCEPT ![s] = r] /\ want' = [want EXCEPT ![s] = want[t]]
        /\ iter' = NoIter /\ loss' = [loss EXCEPT ![s] = l]
    BY <1>4 DEF Reinitialize, Mirrors
  <2> HIDE DEF r, l
  <2> QED BY <1>1, <1>2, <2>1, <2>2, OneSetChanges
<1>5. CASE CopyAssignSet(s, t, fails)
  <2> DEFINE c == [r EXCEPT !.error = set[t].error]
             l == IF fails /\ set[t].elems # << >> THEN "assigned" ELSE loss[t]
  <2>1. c \in Contents /\ c.elems = r.elems /\ c.error = set[t].error
    <3> HIDE DEF r
    <3> QED BY <1>1, <1>2 DEF Contents
  <2>2. l \in Losses /\ (l = "none" /\ c.error = OK => c.elems = want[t])
    BY <1>1, <1>2, <2>1 DEF Losses
  <2>3. /\ set' = [set EXCEPT ![s] = c] /\ want' = [want EXCEPT ![s] = want[t]]
        /\ iter' = NoIter /\ loss' = [loss EXCEPT ![s] = l]
    BY <1>5 DEF CopyAssignSet, Mirrors
  <2> HIDE DEF c, l
  <2> QED BY <1>1, <2>1, <2>2, <2>3, OneSetChanges
<1> QED BY <1>3, <1>4, <1>5

LEMMA EmptyContents ==
  /\ EmptySet \in Contents /\ EmptySet.elems = << >> /\ EmptySet.error = OK
  /\ << >> \in Seq(Pairs)
BY DEF EmptySet, Contents, OK

LEMMA ClearStep ==
  ASSUME SetsInv, NEW s \in Sets, ClearSet(s)
  PROVE  SetsInv'
<1>1. "none" \in Losses
  BY DEF Losses
<1> QED BY <1>1, OneSetChanges, EmptyContents DEF ClearSet

LEMMA MoveStep ==
  ASSUME SetsInv, NEW s \in Sets, NEW t \in Sets, MoveAssignSet(s, t)
  PROVE  SetsInv'
<1>1. SetsTypeInv'
  <2>1. "none" \in Losses
    BY DEF Losses
  <2> QED BY <2>1, EmptyContents DEF SetsInv, SetsTypeInv, MoveAssignSet
<1>2. IterInv'
  BY DEF IterInv, MoveAssignSet
<1>3. ValidIsComplete'
  <2> SUFFICES ASSUME NEW u \in Sets, loss'[u] = "none", set'[u].error = OK
               PROVE  set'[u].elems = want'[u]
    BY DEF ValidIsComplete
  <2>1. CASE u = t
    BY <2>1, EmptyContents DEF SetsInv, SetsTypeInv, MoveAssignSet
  <2>2. CASE u # t /\ u = s
    <3>1. set'[u] = set[t] /\ want'[u] = want[t] /\ loss[t] = "none"
      BY <2>2 DEF SetsInv, SetsTypeInv, MoveAssignSet
    <3> QED BY <3>1 DEF SetsInv, ValidIsComplete
  <2>3. CASE u # t /\ u # s
    <3>1. set'[u] = set[u] /\ want'[u] = want[u] /\ loss[u] = "none"
      BY <2>3 DEF SetsInv, SetsTypeInv, MoveAssignSet
    <3> QED BY <3>1 DEF SetsInv, ValidIsComplete
  <2> QED BY <2>1, <2>2, <2>3
<1> QED BY <1>1, <1>2, <1>3 DEF SetsInv

-----------------------------------------------------------------------------
(***************************************************************************)
(* An iteration over two sets.                                             *)
(***************************************************************************)
\* The element at a position counted from 0.
LEMMA PositionInBoth ==
  ASSUME NEW a \in Seq(Pairs), NEW b \in Seq(Pairs), NEW p \in 0..(Len(a \o b) - 1)
  PROVE  /\ Len(a \o b) = Len(a) + Len(b)
         /\ p < Len(a) => (a \o b)[p + 1] = a[p + 1]
         /\ ~(p < Len(a)) => p - Len(a) < Len(b) /\ (a \o b)[p + 1] = b[p - Len(a) + 1]
<1>1. Len(a) \in Nat /\ Len(b) \in Nat /\ Len(a \o b) = Len(a) + Len(b)
  OBVIOUS
<1>2. p \in Nat /\ p + 1 \in 1..(Len(a) + Len(b))
  BY <1>1
<1>3. \A i \in 1..(Len(a) + Len(b)) :
        (a \o b)[i] = IF i <= Len(a) THEN a[i] ELSE b[i - Len(a)]
  OBVIOUS
<1>4. CASE p < Len(a)
  BY <1>1, <1>2, <1>3, <1>4
<1>5. CASE ~(p < Len(a))
  <2>1. ~(p + 1 <= Len(a)) /\ p + 1 - Len(a) = p - Len(a) + 1 /\ p - Len(a) < Len(b)
    BY <1>1, <1>2, <1>5
  <2> QED BY <1>1, <1>2, <1>3, <1>5, <2>1
<1> QED BY <1>1, <1>4, <1>5

\* A prefix and the next element.
LEMMA PrefixGrows ==
  ASSUME NEW all \in Seq(Pairs), NEW p \in Nat, p + 1 \in 1..Len(all)
  PROVE  Append(SubSeq(all, 1, p), all[p + 1]) = SubSeq(all, 1, p + 1)
<1>1. Len(all) \in Nat /\ 1 \in 1..Len(all) /\ p + 1 - 1 = p
  OBVIOUS
<1>2. SubSeq(all, 1, p + 1) = SubSeq(all, 1, p) \o <<all[p + 1]>>
  BY <1>1, SubSeqRecursiveSecond
<1>3. SubSeq(all, 1, p) \in Seq(Pairs) /\ all[p + 1] \in Pairs
  BY <1>1, SubSeqProperties
<1> QED BY <1>2, <1>3, AppendIsConcat

LEMMA BeginStep ==
  ASSUME SetsInv, NEW h \in Sets, NEW s \in Sets, ProxyBegin(h, s)
  PROVE  SetsInv'
<1>1. SetsTypeInv' /\ ValidIsComplete'
  BY DEF SetsInv, SetsTypeInv, ValidIsComplete, ProxyBegin
<1>2. set[h].elems \in Seq(Pairs) /\ set[s].elems \in Seq(Pairs)
  BY DEF SetsInv, SetsTypeInv, Contents
<1>3. /\ Both(h, s) \in Seq(Pairs) /\ Len(Both(h, s)) \in Nat
      /\ Both(h, s)' = Both(h, s)
  <2>1. Both(h, s) \in Seq(Pairs)
    BY <1>2 DEF Both
  <2>2. Both(h, s)' = Both(h, s)
    BY DEF ProxyBegin, Both
  <2> HIDE DEF Both
  <2> QED BY <2>1, <2>2
<1>4. Both(h, s) # << >> =>
        0 \in 0..(Len(Both(h, s)) - 1) /\ SubSeq(Both(h, s), 1, 0) = << >>
  <2> HIDE DEF Both
  <2>1. Both(h, s) # << >> => Len(Both(h, s)) > 0
    BY <1>3, EmptySeq
  <2> QED BY <1>3, <2>1, SubSeqEmpty
<1>5. /\ iter' = [pos |-> 0, sets |-> <<h, s>>, shown |-> << >>]
      /\ iter'.pos = 0 /\ iter'.shown = << >>
  BY DEF ProxyBegin
<1>6. IterInv'
  <2>1. CASE Both(h, s) # << >>
    BY <1>3, <1>4, <1>5, <2>1 DEF IterInv, Inside, IteratorOf
  <2>2. CASE Both(h, s) = << >>
    BY <1>3, <1>5, <2>2 DEF IterInv, PastEnd, IteratorOf
  <2> QED BY <2>1, <2>2
<1> QED BY <1>1, <1>6 DEF SetsInv

LEMMA StepStep ==
  ASSUME SetsInv, Step, NEW h \in Sets, NEW s \in Sets, Inside(h, s)
  PROVE  SetsInv'
<1>1. SetsTypeInv' /\ ValidIsComplete'
  BY DEF SetsInv, SetsTypeInv, ValidIsComplete, Step
<1>2. /\ iter = [pos |-> iter.pos, sets |-> <<h, s>>, shown |-> iter.shown]
      /\ iter.pos \in 0..(Len(Both(h, s)) - 1)
      /\ iter.shown = SubSeq(Both(h, s), 1, iter.pos)
  BY DEF Inside, IteratorOf
<1> DEFINE a == set[h].elems
           b == set[s].elems
           p == iter.pos
<1>3. a \in Seq(Pairs) /\ b \in Seq(Pairs) /\ Both(h, s) = a \o b /\ Both(h, s)' = a \o b
  BY DEF SetsInv, SetsTypeInv, Contents, Both, Step
<1>4. iter.sets = <<h, s>> /\ iter.sets[1] = h /\ iter.sets[2] = s
  <2>1. [pos |-> iter.pos, sets |-> <<h, s>>, shown |-> iter.shown].sets = <<h, s>>
    OBVIOUS
  <2> QED BY <1>2, <2>1
<1>5. p \in 0..(Len(a \o b) - 1) /\ iter.shown = SubSeq(a \o b, 1, p)
  BY <1>2, <1>3
<1>6. Deref(iter) = (a \o b)[p + 1] /\ size(h) + size(s) = Len(a \o b)
  <2> HIDE DEF a, b, p
  <2>1. /\ Len(a \o b) = Len(a) + Len(b)
        /\ p < Len(a) => (a \o b)[p + 1] = a[p + 1]
        /\ ~(p < Len(a)) => p - Len(a) < Len(b) /\ (a \o b)[p + 1] = b[p - Len(a) + 1]
    BY <1>3, <1>5, PositionInBoth
  <2>2. /\ size(h) = Len(a) /\ size(s) = Len(b)
        /\ At(h, p) = a[p + 1] /\ At(s, p - Len(a)) = b[p - Len(a) + 1]
    BY DEF size, At, a, b
  <2>3. Deref(iter) = IF p < size(h) THEN At(h, p)
                      ELSE IF p - size(h) < size(s) THEN At(s, p - size(h)) ELSE Outside
    BY <1>4 DEF Deref, p
  <2> QED BY <2>1, <2>2, <2>3
<1>7. a \o b \in Seq(Pairs) /\ Len(a \o b) \in Nat
  <2> HIDE DEF a, b
  <2> QED BY <1>3
<1> DEFINE all == a \o b
<1>8. /\ iter' = [pos |-> Increment(iter), sets |-> <<h, s>>, shown |-> Append(iter.shown, Deref(iter))]
      /\ Increment(iter) = IF p + 1 = Len(all) THEN invalid ELSE p + 1
  <2>1. iter' = [iter EXCEPT !.shown = Append(@, Deref(iter)), !.pos = Increment(iter)]
    BY DEF Step
  <2> DEFINE d == Deref(iter)
             n == Increment(iter)
  <2>2. n = IF p + 1 = Len(all) THEN invalid ELSE p + 1
    BY <1>4, <1>6 DEF Increment
  <2>3. [iter EXCEPT !.shown = Append(@, d), !.pos = n]
          = [pos |-> n, sets |-> <<h, s>>, shown |-> Append(iter.shown, d)]
    <3> DEFINE both == <<h, s>>
               shown == iter.shown
               e == Append(shown, d)
    <3>1. iter = [pos |-> p, sets |-> both, shown |-> shown]
      BY <1>2
    <3> HIDE DEF d, n, p, both, shown, e
    <3> DEFINE new == [iter EXCEPT !.shown = e, !.pos = n]
    <3>2. new \in [pos : {n}, sets : {both}, shown : {e}]
      BY <3>1
    <3> HIDE DEF new
    <3>3. new = [pos |-> n, sets |-> both, shown |-> e]
      BY <3>2
    <3> QED BY <3>3 DEF new, both, shown, e
  <2> HIDE DEF d, n
  <2> QED BY <2>1, <2>2, <2>3 DEF d, n
<1> HIDE DEF a, b, p, all
<1>9. Append(iter.shown, Deref(iter)) = SubSeq(all, 1, p + 1)
  <2>1. /\ all \in Seq(Pairs) /\ p \in Nat /\ p + 1 \in 1..Len(all)
    BY <1>5, <1>7 DEF all
  <2>2. Append(SubSeq(all, 1, p), all[p + 1]) = SubSeq(all, 1, p + 1)
    BY <2>1, PrefixGrows
  <2> QED BY <1>5, <1>6, <2>2 DEF all
<1>10. iter'.pos = Increment(iter) /\ iter'.sets = <<h, s>> /\ iter'.shown = SubSeq(all, 1, p + 1)
  BY <1>8, <1>9
<1>11. a \o b # << >>
  <2>1. Len(all) # 0
    BY <1>5, <1>7 DEF all
  <2> QED BY <1>7, <2>1, EmptySeq DEF all
<1>12. CASE p + 1 = Len(all)
  <2>1. iter'.pos = invalid /\ iter'.shown = Both(h, s)'
    BY <1>3, <1>7, <1>8, <1>10, <1>12, SubSeqFull DEF all
  <2>2. IterInv'
    BY <1>3, <1>8, <1>10, <1>11, <2>1 DEF IterInv, AtEnd, IteratorOf
  <2> QED BY <1>1, <2>2 DEF SetsInv
<1>13. CASE p + 1 # Len(all)
  <2>1. iter'.pos = p + 1
    BY <1>8, <1>10, <1>13
  <2>2. p + 1 \in 0..(Len(all) - 1)
    BY <1>5, <1>7, <1>13 DEF all
  <2>3. IterInv'
    <3>1. Inside(h, s)'
      BY <1>3, <1>8, <1>10, <2>1, <2>2 DEF Inside, IteratorOf, all
    <3> QED BY <3>1 DEF IterInv
  <2> QED BY <1>1, <2>3 DEF SetsInv
<1> QED BY <1>12, <1>13

\* Over two empty sets the iteration goes on past the end.
LEMMA StepOutside ==
  ASSUME SetsInv, Step, NEW h \in Sets, NEW s \in Sets, PastEnd(h, s)
  PROVE  SetsInv'
<1>1. SetsTypeInv' /\ ValidIsComplete'
  BY DEF SetsInv, SetsTypeInv, ValidIsComplete, Step
<1>2. /\ iter = [pos |-> iter.pos, sets |-> <<h, s>>, shown |-> iter.shown]
      /\ iter.sets[1] = h /\ iter.sets[2] = s /\ iter.pos \in Nat
  <2>1. [pos |-> iter.pos, sets |-> <<h, s>>, shown |-> iter.shown].sets = <<h, s>>
    OBVIOUS
  <2> QED BY <2>1 DEF PastEnd, IteratorOf
<1>3. size(h) = 0 /\ size(s) = 0 /\ Both(h, s)' = << >>
  <2>1. set[h].elems \in Seq(Pairs) /\ set[s].elems \in Seq(Pairs)
    BY DEF SetsInv, SetsTypeInv, Contents
  <2> DEFINE a == set[h].elems
             b == set[s].elems
  <2>2. a \o b = << >>
    BY DEF PastEnd, Both
  <2>3. (a \o b)' = a \o b
    BY DEF Step
  <2>4. Len(a) = 0 /\ Len(b) = 0
    <3> HIDE DEF a, b
    <3>1. Len(a \o b) = Len(a) + Len(b) /\ Len(a) \in Nat /\ Len(b) \in Nat
      BY <2>1 DEF a, b
    <3>2. Len(a \o b) = 0
      BY <2>2
    <3> QED BY <3>1, <3>2
  <2> QED BY <2>2, <2>3, <2>4 DEF size, Both
<1> DEFINE n == Increment(iter)
           d == Deref(iter)
           both == <<h, s>>
           e == Append(iter.shown, d)
<1>4. n \in Nat
  BY <1>2, <1>3 DEF Increment
<1>5. iter' = [iter EXCEPT !.shown = e, !.pos = n]
  BY DEF Step
<1>6. iter' \in [pos : {n}, sets : {both}, shown : {e}]
  <2> DEFINE p == iter.pos
             shown == iter.shown
  <2>1. iter = [pos |-> p, sets |-> both, shown |-> shown]
    BY <1>2
  <2> HIDE DEF n, d, e, p, both, shown
  <2> QED BY <1>5, <2>1
<1>7. iter' = [pos |-> iter'.pos, sets |-> <<h, s>>, shown |-> iter'.shown] /\ iter'.pos \in Nat
  <2> HIDE DEF n, e, both
  <2>1. iter' = [pos |-> n, sets |-> both, shown |-> e] /\ iter'.pos = n /\ iter'.shown = e
    BY <1>6
  <2> QED BY <1>4, <2>1 DEF both
<1>8. PastEnd(h, s)'
  BY <1>3, <1>7 DEF PastEnd, IteratorOf
<1> QED BY <1>1, <1>8 DEF SetsInv, IterInv

LEMMA AnyStep == SetsInv /\ Step => SetsInv'
<1> SUFFICES ASSUME SetsInv, Step PROVE SetsInv'
  OBVIOUS
<1>1. ASSUME NEW h \in Sets, NEW s \in Sets PROVE ~AtEnd(h, s)
  BY DEF Step, AtRest, AtEnd
<1>2. iter # NoIter
  BY DEF Step, AtRest, NoIter
<1>3. PICK h \in Sets, s \in Sets : Inside(h, s) \/ PastEnd(h, s)
  BY <1>1, <1>2 DEF SetsInv, IterInv
<1> QED BY <1>3, StepStep, StepOutside

LEMMA BreakStep == SetsInv /\ Break => SetsInv'
BY DEF SetsInv, SetsTypeInv, ValidIsComplete, IterInv, Break

-----------------------------------------------------------------------------
(***************************************************************************)
(* Lookups in a concatenation.                                             *)
(***************************************************************************)
Tagged(e, tag) == {i \in DOMAIN e : e[i][1] = tag}

LEMMA TaggedIn ==
  ASSUME NEW e \in Seq(Pairs), NEW tag
  PROVE  /\ Tagged(e, tag) \in SUBSET Nat /\ IsFiniteSet(Tagged(e, tag))
         /\ Tagged(e, tag) = {i \in 1..Len(e) : e[i][1] = tag}
         /\ Cardinality(Tagged(e, tag)) \in Nat
<1>1. Tagged(e, tag) = {i \in 1..Len(e) : e[i][1] = tag} /\ Len(e) \in Nat
  BY DEF Tagged
<1>2. Tagged(e, tag) \in SUBSET (1..Len(e)) /\ Tagged(e, tag) \in SUBSET Nat
  BY <1>1
<1>3. IsFiniteSet(1..Len(e))
  BY <1>1, FS_Interval
<1> QED BY <1>1, <1>2, <1>3, FS_Subset, FS_CardinalityType

\* The least element of a set of positions is the one First() chooses.
LEMMA FirstIsLeast ==
  ASSUME NEW S \in SUBSET Nat, S # {}
  PROVE  /\ First(S) \in S /\ \A j \in S : First(S) <= j
         /\ \A i \in S : (\A j \in S : i <= j) => First(S) = i
<1>1. PICK m \in S : \A x \in S : ~(<<x, m>> \in OpToRel(<, Nat))
  BY NatLessThanWellFounded, WFMin
<1>2. ASSUME NEW x \in S PROVE m <= x
  <2>1. x \in Nat /\ m \in Nat
    OBVIOUS
  <2>2. x < m => <<x, m>> \in OpToRel(<, Nat)
    BY <2>1 DEF OpToRel
  <2>3. ~(x < m)
    BY <1>1, <2>2
  <2> QED BY <2>1, <2>3
<1>3. First(S) \in S /\ \A j \in S : First(S) <= j
  BY <1>2 DEF First
<1>4. ASSUME NEW i \in S, \A j \in S : i <= j PROVE First(S) = i
  <2>1. First(S) <= i /\ i <= First(S) /\ i \in Nat /\ First(S) \in Nat
    BY <1>3, <1>4
  <2> QED BY <2>1
<1> QED BY <1>3, <1>4

\* Where a tag is in a concatenation.
LEMMA TaggedBoth ==
  ASSUME NEW a \in Seq(Pairs), NEW b \in Seq(Pairs), NEW tag
  PROVE  LET A == Tagged(a, tag)
             B == {i + Len(a) : i \in Tagged(b, tag)}
         IN  /\ Tagged(a \o b, tag) = A \cup B
             /\ \A i \in A : (a \o b)[i] = a[i] /\ i <= Len(a)
             /\ \A i \in Tagged(b, tag) : (a \o b)[i + Len(a)] = b[i] /\ i >= 1
<1> DEFINE A == Tagged(a, tag)
           B == {i + Len(a) : i \in Tagged(b, tag)}
           all == a \o b
<1>1. /\ Len(a) \in Nat /\ Len(b) \in Nat /\ Len(all) = Len(a) + Len(b) /\ all \in Seq(Pairs)
      /\ \A i \in 1..Len(a) : all[i] = a[i]
      /\ \A i \in 1..Len(b) : all[i + Len(a)] = b[i]
  OBVIOUS
<1> HIDE DEF all
<1>2. /\ A = {i \in 1..Len(a) : a[i][1] = tag}
      /\ Tagged(b, tag) = {i \in 1..Len(b) : b[i][1] = tag}
      /\ Tagged(all, tag) = {i \in 1..Len(all) : all[i][1] = tag}
  BY <1>1, TaggedIn
<1>3. /\ \A i \in A : all[i] = a[i] /\ i <= Len(a) /\ i \in Tagged(all, tag)
      /\ \A i \in Tagged(b, tag) :
           all[i + Len(a)] = b[i] /\ i >= 1 /\ i + Len(a) \in Tagged(all, tag)
  BY <1>1, <1>2
<1>4. ASSUME NEW i \in Tagged(all, tag) PROVE i \in A \cup B
  <2>1. i \in 1..(Len(a) + Len(b)) /\ all[i][1] = tag
    BY <1>1, <1>2
  <2>2. CASE i <= Len(a)
    BY <1>1, <1>2, <2>1, <2>2
  <2>3. CASE ~(i <= Len(a))
    <3> DEFINE k == i - Len(a)
    <3>1. k \in 1..Len(b) /\ i = k + Len(a)
      BY <1>1, <2>1, <2>3
    <3> HIDE DEF k
    <3>2. k \in Tagged(b, tag)
      BY <1>1, <1>2, <2>1, <3>1
    <3> QED BY <3>1, <3>2
  <2> QED BY <2>2, <2>3
<1>5. Tagged(all, tag) = A \cup B
  BY <1>3, <1>4
<1> QED BY <1>3, <1>5 DEF all

\* Positions moved by n are as many.
LEMMA MovedCount ==
  ASSUME NEW T \in SUBSET Nat, IsFiniteSet(T), NEW n \in Nat
  PROVE  IsFiniteSet({i + n : i \in T}) /\ Cardinality({i + n : i \in T}) = Cardinality(T)
<1> DEFINE B == {i + n : i \in T}
           f == [i \in T |-> i + n]
<1>1. f \in [T -> B] /\ \A y \in B : \E x \in T : f[x] = y
  OBVIOUS
<1>2. ASSUME NEW x \in T, NEW y \in T, f[x] = f[y] PROVE x = y
  <2>1. f[x] = x + n /\ f[y] = y + n /\ x \in Nat /\ y \in Nat
    OBVIOUS
  <2> QED BY <1>2, <2>1
<1> HIDE DEF f, B
<1>3. f \in Bijection(T, B)
  BY <1>1, <1>2 DEF Bijection, Injection, Surjection, IsInjective
<1>4. ExistsBijection(T, B)
  BY <1>3 DEF ExistsBijection
<1> QED BY <1>4, FS_Bijection DEF B

LEMMA CountBoth ==
  ASSUME NEW a \in Seq(Pairs), NEW b \in Seq(Pairs), NEW tag
  PROVE  Cardinality(Tagged(a \o b, tag)) = Cardinality(Tagged(a, tag)) + Cardinality(Tagged(b, tag))
<1> DEFINE A == Tagged(a, tag)
           T == Tagged(b, tag)
           B == {i + Len(a) : i \in T}
<1>1. /\ IsFiniteSet(A) /\ IsFiniteSet(T) /\ T \in SUBSET Nat /\ Len(a) \in Nat
      /\ A = {i \in 1..Len(a) : a[i][1] = tag}
      /\ Cardinality(A) \in Nat /\ Cardinality(T) \in Nat
  BY TaggedIn
<1>2. \A i \in T : i >= 1
  BY TaggedBoth
<1>3. Tagged(a \o b, tag) = A \cup B
  BY TaggedBoth
<1> HIDE DEF A, T
<1>5. IsFiniteSet(B) /\ Cardinality(B) = Cardinality(T)
  BY <1>1, MovedCount
<1>6. A \cap B = {}
  <2> SUFFICES ASSUME NEW x \in A, x \in B PROVE FALSE
    OBVIOUS
  <2>1. PICK i \in T : x = i + Len(a)
    OBVIOUS
  <2>2. i \in Nat /\ i >= 1 /\ x <= Len(a)
    BY <1>1, <1>2
  <2> QED BY <1>1, <2>1, <2>2
<1>7. Cardinality(A \cap B) = 0
  BY <1>6, FS_EmptySet
<1>8. Cardinality(A \cup B) = Cardinality(A) + Cardinality(B) - Cardinality(A \cap B)
  <2> HIDE DEF B
  <2> QED BY <1>1, <1>5, FS_Union
<1>9. Cardinality(A \cup B) = Cardinality(A) + Cardinality(T)
  <2> HIDE DEF B
  <2> QED BY <1>1, <1>5, <1>7, <1>8
<1> QED BY <1>3, <1>9 DEF A, T

LEMMA FirstBoth ==
  ASSUME NEW a \in Seq(Pairs), NEW b \in Seq(Pairs), NEW tag, Tagged(a \o b, tag) # {}
  PROVE  (a \o b)[First(Tagged(a \o b, tag))] =
           IF Tagged(a, tag) # {} THEN a[First(Tagged(a, tag))] ELSE b[First(Tagged(b, tag))]
<1> DEFINE A == Tagged(a, tag)
           T == Tagged(b, tag)
           B == {i + Len(a) : i \in T}
           all == a \o b
           S == Tagged(all, tag)
<1>1. /\ A \in SUBSET Nat /\ T \in SUBSET Nat /\ Len(a) \in Nat
      /\ S \in SUBSET Nat
  <2>1. all \in Seq(Pairs)
    OBVIOUS
  <2> HIDE DEF all
  <2> QED BY <2>1, TaggedIn
<1>2. /\ S = A \cup B
      /\ \A i \in A : all[i] = a[i] /\ i <= Len(a)
      /\ \A i \in T : all[i + Len(a)] = b[i] /\ i >= 1
  <2>1. S = A \cup B
    BY TaggedBoth
  <2>2. \A i \in A : all[i] = a[i] /\ i <= Len(a)
    BY TaggedBoth
  <2>3. \A i \in T : all[i + Len(a)] = b[i] /\ i >= 1
    BY TaggedBoth, ZenonT(30)
  <2> HIDE DEF A, T, B, all, S
  <2> QED BY <2>1, <2>2, <2>3
<1>3. S # {}
  OBVIOUS
<1> HIDE DEF A, T, all, S
<1>4. CASE A # {}
  <2> DEFINE m == First(A)
  <2>1. m \in A /\ \A j \in A : m <= j
    BY <1>1, <1>4, FirstIsLeast
  <2> HIDE DEF m
  <2>2. \A j \in B : m <= j
    <3> SUFFICES ASSUME NEW i \in T PROVE m <= i + Len(a)
      OBVIOUS
    <3>1. i \in Nat /\ m \in Nat /\ m <= Len(a)
      BY <1>1, <1>2, <2>1
    <3> QED BY <1>1, <3>1
  <2>3. m \in S /\ \A j \in S : m <= j
    BY <1>2, <2>1, <2>2
  <2>4. First(S) = m
    BY <1>1, <1>3, <2>3, FirstIsLeast
  <2> QED BY <1>2, <1>4, <2>1, <2>4 DEF A, T, all, S, m
<1>5. CASE A = {}
  <2> DEFINE m == First(T)
  <2>1. T # {}
    BY <1>2, <1>3, <1>5
  <2>2. m \in T /\ \A j \in T : m <= j
    BY <1>1, <2>1, FirstIsLeast
  <2> HIDE DEF m
  <2>3. m + Len(a) \in S /\ \A j \in S : m + Len(a) <= j
    <3>1. m + Len(a) \in S
      BY <1>2, <2>2
    <3>2. ASSUME NEW i \in T PROVE m + Len(a) <= i + Len(a)
      <4>1. i \in Nat /\ m \in Nat /\ m <= i
        BY <1>1, <2>2
      <4> QED BY <1>1, <4>1
    <3> QED BY <1>2, <1>5, <3>1, <3>2
  <2>4. First(S) = m + Len(a)
    BY <1>1, <1>3, <2>3, FirstIsLeast
  <2>5. all[First(S)] = b[m]
    BY <1>2, <2>2, <2>4
  <2> QED BY <1>5, <2>5 DEF A, T, all, S, m
<1> QED BY <1>4, <1>5

\* The k-th of some positions, counted from 0, is one.
Kth(S, k) == {i \in S : Cardinality({j \in S : j < i}) = k}

LEMMA KthIsOne ==
  ASSUME NEW S \in SUBSET Nat, IsFiniteSet(S), NEW k, NEW i \in Kth(S, k), NEW j \in Kth(S, k)
  PROVE  i = j
<1> DEFINE R == {e \in S \X S : e[1] < e[2]}
<1>1. \A x, y \in S : <<x, y>> \in R <=> x < y
  OBVIOUS
<1>2. \A x \in S : BelowIn(S, R, x) = {y \in S : y < x}
  BY <1>1 DEF BelowIn
<1> HIDE DEF R
<1>3. StrictOrder(S, R)
  <2>1. \A x \in S : x \in Nat
    OBVIOUS
  <2> QED BY <1>1, <2>1 DEF StrictOrder
<1>4. \A x, y \in S : RankIn(S, R, x) = RankIn(S, R, y) => x = y
  BY <1>3, RanksAreNumbers
<1> QED BY <1>2, <1>4 DEF RankIn, Kth

LEMMA KthValuesAre ==
  ASSUME NEW e, NEW tag, NEW k
  PROVE  KthValues(e, tag, k) = {e[i][2] : i \in Kth(Tagged(e, tag), k)}
BY DEF KthValues, Kth, Tagged

\* The k-th value of a tag that only one part of a concatenation has.
LEMMA KthBoth ==
  ASSUME NEW a \in Seq(Pairs), NEW b \in Seq(Pairs), NEW tag, NEW k
  PROVE  /\ Tagged(b, tag) = {} => KthValues(a \o b, tag, k) = KthValues(a, tag, k)
         /\ Tagged(a, tag) = {} => KthValues(a \o b, tag, k) = KthValues(b, tag, k)
<1> DEFINE A == Tagged(a, tag)
           T == Tagged(b, tag)
           n == Len(a)
           all == a \o b
           S == Tagged(all, tag)
<1>1. S = A \cup {i + n : i \in T}
  BY TaggedBoth
<1>2. \A i \in A : all[i] = a[i]
  BY TaggedBoth, ZenonT(30)
<1>3. \A i \in T : all[i + n] = b[i]
  BY TaggedBoth, ZenonT(30)
<1>4. T \in SUBSET Nat /\ IsFiniteSet(T) /\ n \in Nat
  BY TaggedIn
<1> HIDE DEF A, T, n, all, S
<1>5. CASE T = {}
  <2>1. S = A
    BY <1>1, <1>5
  <2>2. {all[i][2] : i \in Kth(S, k)} = {a[i][2] : i \in Kth(A, k)}
    BY <1>2, <2>1 DEF Kth
  <2>3. /\ KthValues(all, tag, k) = {all[i][2] : i \in Kth(S, k)}
        /\ KthValues(a, tag, k) = {a[i][2] : i \in Kth(A, k)}
    BY KthValuesAre DEF A, S
  <2>4. A # {} \/ KthValues(all, tag, k) = KthValues(b, tag, k)
    <3>1. \A i : i \notin Kth({}, k)
      BY DEF Kth
    <3>2. KthValues(b, tag, k) = {b[i][2] : i \in Kth(T, k)}
      BY KthValuesAre DEF T
    <3> QED BY <1>5, <2>1, <2>3, <3>1, <3>2
  <2> QED BY <2>2, <2>3, <2>4 DEF A, all
<1>6. CASE A = {}
  <2>1. S = {i + n : i \in T}
    BY <1>1, <1>6
  <2>2. \A i \in T : Cardinality({j \in S : j < i + n}) = Cardinality({j \in T : j < i})
    <3> TAKE i \in T
    <3> DEFINE U == {j \in T : j < i}
    <3>1. U \in SUBSET Nat /\ IsFiniteSet(U)
      BY <1>4, FS_Subset
    <3>2. {j \in S : j < i + n} = {j + n : j \in U}
      <4>1. \A j \in T : j + n < i + n <=> j < i
        BY <1>4
      <4> QED BY <2>1, <4>1
    <3> HIDE DEF U
    <3>3. Cardinality({j \in S : j < i + n}) = Cardinality(U)
      BY <1>4, <3>1, <3>2, MovedCount
    <3> QED BY <3>3 DEF U
  <2>3. \A i \in T : i + n \in Kth(S, k) <=> i \in Kth(T, k)
    BY <2>1, <2>2 DEF Kth
  <2>4. \A x \in Kth(S, k) : \E i \in T : x = i + n
    BY <2>1 DEF Kth
  <2>5. \A i \in Kth(T, k) : i \in T
    BY DEF Kth
  <2>6. {all[x][2] : x \in Kth(S, k)} = {b[i][2] : i \in Kth(T, k)}
    BY <1>3, <2>3, <2>4, <2>5
  <2>7. /\ KthValues(all, tag, k) = {all[i][2] : i \in Kth(S, k)}
        /\ KthValues(b, tag, k) = {b[i][2] : i \in Kth(T, k)}
    BY KthValuesAre DEF T, S
  <2>8. T # {} \/ KthValues(all, tag, k) = KthValues(a, tag, k)
    <3>1. \A i : i \notin Kth({}, k)
      BY DEF Kth
    <3>2. KthValues(a, tag, k) = {a[i][2] : i \in Kth(A, k)}
      BY KthValuesAre DEF A
    <3>3. T = {} => S = {}
      BY <2>1
    <3> QED BY <1>6, <2>7, <3>1, <3>2, <3>3
  <2> QED BY <2>6, <2>7, <2>8 DEF T, all
<1>7. CASE A # {} /\ T # {}
  BY <1>7 DEF A, T
<1> QED BY <1>5, <1>6, <1>7

\* A set answers for an instance with the k-th value of the tag.
LEMMA InstanceIsKth ==
  ASSUME SetsTypeInv, NEW s \in Sets, NEW tag, NEW k
  PROVE  /\ {GetTagValueRep(s, tag, k)} \ {Nothing} = KthValues(set[s].elems, tag, k)
         /\ Tagged(set[s].elems, tag) = {} => GetTagValueRep(s, tag, k) = Nothing
<1> DEFINE e == set[s].elems
           S == Tagged(e, tag)
<1>1. e \in Seq(Pairs)
  BY DEF SetsTypeInv, Contents
<1>2. Instances(s, tag) = S
  BY DEF Instances, Tagged
<1>3. \A i : IsInstance(s, tag, k, i) <=> i \in Kth(S, k)
  <2> HIDE DEF S
  <2> QED BY <1>2 DEF IsInstance, Kth
<1> HIDE DEF e
<1>4. S \in SUBSET Nat /\ IsFiniteSet(S) /\ \A i \in S : e[i] \in Pairs
  <2>1. \A i \in 1..Len(e) : e[i] \in Pairs
    BY <1>1
  <2>2. S = {i \in 1..Len(e) : e[i][1] = tag}
    BY <1>1, TaggedIn
  <2>3. S \in SUBSET Nat /\ IsFiniteSet(S)
    BY <1>1, TaggedIn
  <2> HIDE DEF S
  <2> QED BY <2>1, <2>2, <2>3
<1>5. \A x \in Pairs : x[2] # Nothing
  BY DEF Pairs, Nothing
<1> DEFINE c == CHOOSE i \in S : IsInstance(s, tag, k, i)
<1> HIDE DEF S
<1>6. CASE Kth(S, k) = {}
  <2>1. GetTagValueRep(s, tag, k) = Nothing
    BY <1>2, <1>3, <1>6 DEF GetTagValueRep
  <2> QED BY <1>6, <2>1, KthValuesAre DEF S, e
<1>7. CASE Kth(S, k) # {}
  <2>1. \E i \in S : IsInstance(s, tag, k, i)
    BY <1>3, <1>7 DEF Kth
  <2>2. c \in S /\ IsInstance(s, tag, k, c)
    BY <2>1
  <2>3. GetTagValueRep(s, tag, k) = e[c][2]
    BY <1>2, <2>1 DEF GetTagValueRep, e
  <2> HIDE DEF c
  <2>4. c \in Kth(S, k)
    BY <1>3, <2>2
  <2>5. \A i \in Kth(S, k) : i = c
    BY <1>4, <2>4, KthIsOne
  <2>6. KthValues(e, tag, k) = {e[c][2]}
    <3>1. Kth(S, k) = {c}
      BY <2>4, <2>5
    <3> QED BY <3>1, KthValuesAre DEF S
  <2>7. e[c][2] # Nothing /\ S # {}
    BY <1>4, <1>5, <2>2
  <2> QED BY <2>3, <2>6, <2>7 DEF e, S
<1> QED BY <1>6, <1>7

LEMMA IterationShows ==
  ASSUME SetsInv, iter.sets # << >>
  PROVE  LET all == set[iter.sets[1]].elems \o set[iter.sets[2]].elems
         IN  IF all = << >> THEN ~AtRest
             ELSE iter.shown = IF AtRest THEN all ELSE SubSeq(all, 1, iter.pos)
<1>1. PICK h \in Sets, s \in Sets : Inside(h, s) \/ AtEnd(h, s) \/ PastEnd(h, s)
  BY DEF SetsInv, IterInv, NoIter
<1>2. iter.sets[1] = h /\ iter.sets[2] = s
  <2>1. [pos |-> iter.pos, sets |-> <<h, s>>, shown |-> iter.shown].sets = <<h, s>>
    OBVIOUS
  <2> QED BY <1>1, <2>1 DEF Inside, AtEnd, PastEnd, IteratorOf
<1>3. CASE AtEnd(h, s)
  BY <1>2, <1>3 DEF AtRest, AtEnd, Both
<1>4. CASE PastEnd(h, s)
  BY <1>2, <1>4 DEF AtRest, PastEnd, Both, invalid
<1>5. CASE Inside(h, s)
  <2>1. ~AtRest
    BY <1>5 DEF Inside, AtRest, invalid
  <2>2. Both(h, s) # << >>
    <3>1. Len(Both(h, s)) # 0
      <4>1. set[h].elems \in Seq(Pairs) /\ set[s].elems \in Seq(Pairs)
        BY DEF SetsInv, SetsTypeInv, Contents
      <4>2. Both(h, s) \in Seq(Pairs)
        BY <4>1 DEF Both
      <4> HIDE DEF Both
      <4>3. Len(Both(h, s)) \in Nat
        BY <4>2
      <4> QED BY <1>5, <4>3 DEF Inside
    <3> QED BY <3>1
  <2> QED BY <1>2, <1>5, <2>1, <2>2 DEF Inside, Both
<1> QED BY <1>1, <1>3, <1>4, <1>5

LEMMA LookupsAgree ==
  ASSUME SetsTypeInv, NEW h \in Sets, NEW s \in Sets
  PROVE  LET all == set[h].elems \o set[s].elems
             at(tag) == {i \in DOMAIN all : all[i][1] = tag}
         IN  /\ \A i \in DOMAIN all : ProxyIndex(h, s, i - 1) = all[i]
             /\ ProxyIndex(h, s, Len(all))[1] = "INVALID"
             /\ \A tag \in TagsIn(all) :
                  /\ ProxyContains(h, s, tag)
                  /\ ProxyGetTagCount(h, s, tag) = Cardinality(at(tag))
                  /\ tag \notin EnumRep =>
                       ProxyGetTagValue(h, s, tag) = all[First(at(tag))][2]
                  /\ tag \in EnumRep /\ ~(SetContains(h, tag) /\ SetContains(s, tag)) =>
                       /\ \A k \in 0..Len(all) :
                            {ProxyGetTagValueRep(h, s, tag, k)} \ {Nothing} = KthValues(all, tag, k)
                       /\ {ProxyGetOnlyTagValue(h, s, tag)} \ {Nothing} =
                            IF Cardinality(at(tag)) = 1 THEN KthValues(all, tag, 0) ELSE {}
<1> DEFINE a == set[h].elems
           b == set[s].elems
           all == a \o b
<1>1. a \in Seq(Pairs) /\ b \in Seq(Pairs)
  BY DEF SetsTypeInv, Contents
<1>2. /\ size(h) = Len(a) /\ size(s) = Len(b)
      /\ \A p : At(h, p) = a[p + 1] /\ At(s, p) = b[p + 1]
      /\ \A tag : Instances(h, tag) = Tagged(a, tag) /\ Instances(s, tag) = Tagged(b, tag)
  BY DEF size, At, Instances, Tagged
<1> HIDE DEF a, b
<1>3. /\ Len(a) \in Nat /\ Len(b) \in Nat /\ Len(all) = Len(a) + Len(b)
      /\ DOMAIN all = 1..Len(all)
  BY <1>1
<1>4. ASSUME NEW i \in DOMAIN all PROVE ProxyIndex(h, s, i - 1) = all[i]
  <2> DEFINE p == i - 1
  <2>1. p \in 0..(Len(all) - 1) /\ p + 1 = i
    BY <1>3
  <2> HIDE DEF p
  <2>2. /\ p < Len(a) => all[p + 1] = a[p + 1]
        /\ ~(p < Len(a)) => p - Len(a) < Len(b) /\ all[p + 1] = b[p - Len(a) + 1]
    BY <1>1, <2>1, PositionInBoth
  <2>3. ProxyIndex(h, s, p) = all[p + 1]
    <3> HIDE DEF all
    <3> QED BY <1>2, <2>2 DEF ProxyIndex
  <2> QED BY <2>1, <2>3 DEF p
<1>5. ProxyIndex(h, s, Len(all))[1] = "INVALID"
  <2>1. ~(Len(all) < Len(a)) /\ ~(Len(all) - Len(a) < Len(b))
    BY <1>3
  <2>2. ProxyIndex(h, s, Len(all)) = <<"INVALID", Nothing>>
    <3> HIDE DEF all
    <3> QED BY <1>2, <2>1 DEF ProxyIndex
  <2> QED BY <2>2
<1>6. ASSUME NEW tag \in TagsIn(all)
      PROVE  /\ ProxyContains(h, s, tag)
             /\ ProxyGetTagCount(h, s, tag) = Cardinality(Tagged(all, tag))
             /\ ProxyGetTagValue(h, s, tag) = all[First(Tagged(all, tag))][2]
             /\ ~(SetContains(h, tag) /\ SetContains(s, tag)) =>
                  /\ \A k \in 0..Len(all) :
                       {ProxyGetTagValueRep(h, s, tag, k)} \ {Nothing} = KthValues(all, tag, k)
                  /\ {ProxyGetOnlyTagValue(h, s, tag)} \ {Nothing} =
                       IF Cardinality(Tagged(all, tag)) = 1 THEN KthValues(all, tag, 0) ELSE {}
  <2>1. Tagged(all, tag) # {}
    <3> HIDE DEF all
    <3> QED BY DEF TagsIn, Tagged
  <2>2. Tagged(a, tag) # {} \/ Tagged(b, tag) # {}
    BY <1>1, <2>1, TaggedBoth
  <2>3. ProxyContains(h, s, tag)
    BY <1>2, <2>2 DEF ProxyContains, SetContains
  <2>4. ProxyGetTagCount(h, s, tag) = Cardinality(Tagged(all, tag))
    BY <1>1, <1>2, CountBoth DEF ProxyGetTagCount, GetTagCount
  <2>5. ProxyGetTagValue(h, s, tag)
          = IF Tagged(a, tag) # {} THEN a[First(Tagged(a, tag))][2] ELSE b[First(Tagged(b, tag))][2]
    <3>1. \A x \in Pairs : x[2] # Nothing
      BY DEF Pairs, Nothing
    <3>2. CASE Tagged(a, tag) # {}
      <4> DEFINE m == First(Tagged(a, tag))
      <4>1. m \in 1..Len(a)
        BY <1>1, <3>2, TaggedIn, FirstIsLeast
      <4>2. a[m] \in Pairs
        BY <1>1, <4>1
      <4> QED BY <1>2, <3>1, <3>2, <4>2
              DEF ProxyGetTagValue, GetTagValue, SetContains, OrElse, a
    <3>3. CASE Tagged(a, tag) = {}
      BY <1>2, <2>2, <3>3 DEF ProxyGetTagValue, GetTagValue, SetContains, OrElse, b
    <3> QED BY <3>2, <3>3
  <2>6. all[First(Tagged(all, tag))]
          = IF Tagged(a, tag) # {} THEN a[First(Tagged(a, tag))] ELSE b[First(Tagged(b, tag))]
    BY <1>1, <2>1, FirstBoth
  <2>7. ASSUME ~(SetContains(h, tag) /\ SetContains(s, tag))
        PROVE  /\ \A k \in 0..Len(all) :
                    {ProxyGetTagValueRep(h, s, tag, k)} \ {Nothing} = KthValues(all, tag, k)
               /\ {ProxyGetOnlyTagValue(h, s, tag)} \ {Nothing} =
                    IF Cardinality(Tagged(all, tag)) = 1 THEN KthValues(all, tag, 0) ELSE {}
    <3>1. CASE Tagged(b, tag) = {}
      <4>1. \A k : GetTagValueRep(s, tag, k) = Nothing
        BY <3>1, InstanceIsKth DEF b
      <4>2. \A k : {GetTagValueRep(h, tag, k)} \ {Nothing} = KthValues(all, tag, k)
        <5> TAKE k
        <5>1. {GetTagValueRep(h, tag, k)} \ {Nothing} = KthValues(a, tag, k)
          BY InstanceIsKth DEF a
        <5> QED BY <1>1, <3>1, <5>1, KthBoth
      <4>3. \A k : ProxyGetTagValueRep(h, s, tag, k) = GetTagValueRep(h, tag, k)
        BY <4>1 DEF ProxyGetTagValueRep, OrElse
      <4>4. /\ ProxyGetOnlyTagValue(h, s, tag) = GetOnlyTagValue(h, tag)
            /\ GetTagCount(h, tag) = Cardinality(Tagged(all, tag))
        <5>1. GetTagCount(s, tag) = 0
          BY <1>2, <3>1, FS_EmptySet DEF GetTagCount
        <5>2. GetOnlyTagValue(s, tag) = Nothing
          BY <5>1 DEF GetOnlyTagValue
        <5>3. Cardinality(Tagged(a, tag)) \in Nat /\ GetTagCount(h, tag) = Cardinality(Tagged(a, tag))
          BY <1>1, <1>2, TaggedIn DEF GetTagCount
        <5> QED BY <2>4, <5>1, <5>2, <5>3 DEF ProxyGetOnlyTagValue, OrElse, ProxyGetTagCount
      <4> HIDE DEF all
      <4> QED BY <4>2, <4>3, <4>4 DEF GetOnlyTagValue
    <3>2. CASE Tagged(a, tag) = {}
      <4>1. \A k : GetTagValueRep(h, tag, k) = Nothing
        BY <3>2, InstanceIsKth DEF a
      <4>2. \A k : {GetTagValueRep(s, tag, k)} \ {Nothing} = KthValues(all, tag, k)
        <5> TAKE k
        <5>1. {GetTagValueRep(s, tag, k)} \ {Nothing} = KthValues(b, tag, k)
          BY InstanceIsKth DEF b
        <5> QED BY <1>1, <3>2, <5>1, KthBoth
      <4>3. \A k : ProxyGetTagValueRep(h, s, tag, k) = GetTagValueRep(s, tag, k)
        BY <4>1 DEF ProxyGetTagValueRep, OrElse
      <4>4. /\ ProxyGetOnlyTagValue(h, s, tag) = GetOnlyTagValue(s, tag)
            /\ GetTagCount(s, tag) = Cardinality(Tagged(all, tag))
        <5>1. GetTagCount(h, tag) = 0
          BY <1>2, <3>2, FS_EmptySet DEF GetTagCount
        <5>2. GetOnlyTagValue(h, tag) = Nothing
          BY <5>1 DEF GetOnlyTagValue
        <5>3. Cardinality(Tagged(b, tag)) \in Nat /\ GetTagCount(s, tag) = Cardinality(Tagged(b, tag))
          BY <1>1, <1>2, TaggedIn DEF GetTagCount
        <5> QED BY <2>4, <5>1, <5>2, <5>3 DEF ProxyGetOnlyTagValue, OrElse, ProxyGetTagCount
      <4> HIDE DEF all
      <4> QED BY <4>2, <4>3, <4>4 DEF GetOnlyTagValue
    <3> QED BY <1>2, <2>7, <3>1, <3>2 DEF SetContains
  <2> HIDE DEF all
  <2> QED BY <2>3, <2>4, <2>5, <2>6, <2>7
<1> QED BY <1>4, <1>5, <1>6 DEF Tagged, a, b

LEMMA SetsInvProperties == SetsInv => ValidIsComplete /\ ProxyIsConcatenation
<1> SUFFICES ASSUME SetsInv PROVE ProxyIsConcatenation
  BY DEF SetsInv
<1>1. SetsTypeInv
  BY DEF SetsInv
<1>2. IterationIsConcatenation
  BY IterationShows DEF IterationIsConcatenation
<1>3. LookupsAreOfConcatenation
  BY <1>1, LookupsAgree DEF LookupsAreOfConcatenation
<1> QED BY <1>2, <1>3 DEF ProxyIsConcatenation

LEMMA SetsNextInv == SetsInv /\ [SetsNext]_setVars => SetsInv'
<1> SUFFICES ASSUME SetsInv, [SetsNext]_setVars PROVE SetsInv'
  OBVIOUS
<1>1. ASSUME NEW s \in Sets, NEW fails \in BOOLEAN, NEW m \in Methods, Build(s, m, fails) PROVE SetsInv'
  <2>1. m \in DOMAIN Pushes
    BY MethodsAssumption DEF Methods
  <2> QED BY <1>1, <2>1, BuildStep
<1>2. CASE UNCHANGED setVars
  <2>1. SetsTypeInv' /\ IterInv' /\ ValidIsComplete'
    BY <1>2 DEF SetsInv, SetsTypeInv, IterInv, Inside, AtEnd, PastEnd, IteratorOf, Both,
                ValidIsComplete, setVars
  <2> QED BY <2>1 DEF SetsInv
<1> QED BY <1>1, <1>2, PushSetStep, CopyStep, MoveStep, ClearStep, BeginStep, AnyStep, BreakStep
       DEF SetsNext

(***************************************************************************)
(* ValidIsComplete: whatever was pushed, copied, moved and cleared in any  *)
(* order over any number of sets, and whichever allocation failed, a set   *)
(* with error_ OK has what its callers put into it.  Exempt are the sets   *)
(* whose elements come from a copy assignment that ran out of storage      *)
(* (line 105 writes over the error), or from an invalid set that was       *)
(* passed on unasked, and no others.                                       *)
(***************************************************************************)
THEOREM ValidSetsAreComplete == SetsSpec => []ValidIsComplete
BY SetsInitInv, SetsNextInv, SetsInvProperties, PTL DEF SetsSpec

(***************************************************************************)
(* ProxyIsConcatenation: an AuthProxy over sets of any size iterates over  *)
(* the first and then the second, without an end if both are empty, and    *)
(* its contains, GetTagCount, operator[] and each overload of GetTagValue  *)
(* answer as the concatenation would, the ones for repeatable tags as long *)
(* as only one of the sets has the tag.                                    *)
(***************************************************************************)
THEOREM ProxyConcatenates == SetsSpec => []ProxyIsConcatenation
BY SetsInitInv, SetsNextInv, SetsInvProperties, PTL DEF SetsSpec

-----------------------------------------------------------------------------
(***************************************************************************)
(* COSE keys: maps with any entries, under labels that may be repeated.    *)
(***************************************************************************)
CoseLabels == {CoseKeyLabel[l] : l \in DOMAIN CoseKeyLabel}
Items == ({"int"} \X Int) \cup ({"bstr"} \X (Lengths \cup Nat))
Maps == Seq(CoseLabels \X Items)
Entries(map) == {map[i] : i \in DOMAIN map}

LEMMA LabelNumbers == \A n \in CoseLabels : n \in Int /\ n <= 100
BY DEF CoseLabels, CoseKeyLabel

\* get() gives the item of an entry with the label, or Missing, which is none.
LEMMA GetIsAnEntry ==
  ASSUME NEW map \in Maps, NEW l
  PROVE  /\ Has(map, l) => \E i \in DOMAIN map : map[i] = <<CoseKeyLabel[l], get(map, l)>>
         /\ ~Has(map, l) => get(map, l) = Missing
<1>1. CASE ~Has(map, l)
  BY <1>1 DEF get
<1>2. CASE Has(map, l)
  <2> DEFINE S == {i \in DOMAIN map : map[i][1] = CoseKeyLabel[l]}
             P(i) == /\ map[i][1] = CoseKeyLabel[l]
                     /\ \A j \in 1..(i - 1) : map[j][1] # CoseKeyLabel[l]
             found == CHOOSE i \in DOMAIN map : P(i)
  <2>1. DOMAIN map = 1..Len(map) /\ Len(map) \in Nat
    BY DEF Maps
  <2>2. S \in SUBSET Nat /\ S # {}
    BY <1>2, <2>1 DEF Has
  <2>3. PICK i \in S : \A j \in S : i <= j
    <3> HIDE DEF S
    <3> QED BY <2>2, FirstIsLeast
  <2>4. i \in DOMAIN map /\ P(i)
    <3>1. ASSUME NEW j \in 1..(i - 1), map[j][1] = CoseKeyLabel[l] PROVE FALSE
      <4>1. j \in S
        BY <2>1, <3>1
      <4> QED BY <2>1, <2>3, <4>1
    <3> QED BY <3>1
  <2>5. found \in DOMAIN map /\ P(found)
    <3> HIDE DEF P
    <3> QED BY <2>4
  <2>6. get(map, l) = map[found][2]
    BY <1>2 DEF get
  <2>7. map[found] \in CoseLabels \X Items
    BY <2>5 DEF Maps
  <2>8. map[found][1] = CoseKeyLabel[l]
    BY <2>5
  <2>9. found \in DOMAIN map
    BY <2>5
  <2> HIDE DEF S, P, found
  <2>10. map[found] = <<CoseKeyLabel[l], get(map, l)>>
    BY <2>6, <2>7, <2>8
  <2> QED BY <1>2, <2>9, <2>10
<1> QED BY <1>1, <1>2

\* A label with a single item is looked up alike in a map with more entries.
LEMMA SingleLookup ==
  ASSUME NEW a \in Maps, NEW b \in Maps, Entries(a) \subseteq Entries(b), NEW l,
         Has(a, l), Single(b, l)
  PROVE  get(b, l) = get(a, l)
<1>1. PICK i \in DOMAIN a : a[i] = <<CoseKeyLabel[l], get(a, l)>>
  BY GetIsAnEntry
<1>2. PICK j \in DOMAIN b : b[j] = a[i]
  BY DEF Entries
<1>3. Has(b, l)
  BY <1>1, <1>2 DEF Has
<1>4. PICK k \in DOMAIN b : b[k] = <<CoseKeyLabel[l], get(b, l)>>
  BY <1>3, GetIsAnEntry
<1> QED BY <1>1, <1>2, <1>4 DEF Single

(***************************************************************************)
(* canonicalize() numbers the entries in a strict order, whatever it does  *)
(* with those of one label, so it keeps them all.                          *)
(***************************************************************************)
LEMMA CanonicalKeepsEntries ==
  ASSUME NEW map \in Maps, NEW front
  PROVE  /\ canonicalize(map, front) \in Maps
         /\ Entries(canonicalize(map, front)) = Entries(map)
<1> DEFINE D == DOMAIN map
           rank(i) == Rank(map[i][1])
           before(i, j) ==
             \/ rank(i) < rank(j)
             \/ rank(i) = rank(j) /\ i \in front /\ j \notin front
             \/ rank(i) = rank(j) /\ (i \in front <=> j \in front) /\ i < j
           R == {e \in D \X D : before(e[1], e[2])}
           at(k) == CHOOSE i \in D : RankIn(D, R, i) = k - 1
<1>1. Len(map) \in Nat /\ D = 1..Len(map) /\ IsFiniteSet(D) /\ Cardinality(D) = Len(map)
  <2>1. Len(map) \in Nat /\ D = 1..Len(map)
    BY DEF Maps
  <2>2. /\ IsFiniteSet(1..Len(map))
        /\ Cardinality(1..Len(map)) = IF 1 > Len(map) THEN 0 ELSE Len(map) - 1 + 1
    BY <2>1, FS_Interval
  <2>3. Cardinality(1..Len(map)) = Len(map)
    BY <2>1, <2>2
  <2>4. IsFiniteSet(D)
    BY <2>1, <2>2, Zenon
  <2>5. Cardinality(D) = Len(map)
    BY <2>1, <2>3, Zenon
  <2> QED BY <2>1, <2>4, <2>5
<1>2. \A i \in D : map[i] \in CoseLabels \X Items /\ rank(i) \in Int /\ i \in Int
  <2>1. \A i \in D : map[i] \in CoseLabels \X Items
    BY DEF Maps
  <2>2. \A n \in Int : Rank(n) \in Int
    BY DEF Rank
  <2>3. \A i \in D : map[i][1] \in CoseLabels
    BY <2>1
  <2> QED BY <1>1, <2>1, <2>2, <2>3, LabelNumbers
<1>3. StrictOrder(D, R)
  <2>1. \A i, j \in D : <<i, j>> \in R <=> before(i, j)
    OBVIOUS
  <2> HIDE DEF R, D, rank
  <2>2. \A i \in D : ~before(i, i)
    BY <1>2
  <2>3. \A i, j, k \in D : before(i, j) /\ before(j, k) => before(i, k)
    BY <1>2
  <2>4. \A i, j \in D : i = j \/ before(i, j) \/ before(j, i)
    BY <1>2
  <2> HIDE DEF before
  <2> QED BY <2>1, <2>2, <2>3, <2>4 DEF StrictOrder
<1>4. \A i \in D : RankIn(D, R, i) = Cardinality({j \in D : before(j, i)})
  <2>1. \A i \in D : BelowIn(D, R, i) = {j \in D : before(j, i)}
    BY DEF BelowIn
  <2> QED BY <2>1 DEF RankIn
<1>5. canonicalize(map, front) = [k \in D |-> map[at(k)]]
  <2> DEFINE to(k) == CHOOSE i \in D : Cardinality({j \in D : before(j, i)}) = k - 1
  <2>1. canonicalize(map, front) = [k \in D |-> map[to(k)]]
    BY DEF canonicalize
  <2> HIDE DEF R, before
  <2>2. \A k \in D : to(k) = at(k)
    BY <1>4, Zenon
  <2> HIDE DEF to, at
  <2> QED BY <2>1, <2>2
<1> HIDE DEF R, before
<1>6. /\ \A i \in D : RankIn(D, R, i) \in 0..(Len(map) - 1)
      /\ \A i, j \in D : RankIn(D, R, i) = RankIn(D, R, j) => i = j
      /\ \A k \in 0..(Len(map) - 1) : \E i \in D : RankIn(D, R, i) = k
  <2>1. Cardinality(D) = Len(map) /\ IsFiniteSet(D)
    BY <1>1
  <2> HIDE DEF D
  <2>2. /\ \A i \in D : RankIn(D, R, i) \in 0..(Cardinality(D) - 1)
        /\ \A i, j \in D : RankIn(D, R, i) = RankIn(D, R, j) => i = j
        /\ \A k \in 0..(Cardinality(D) - 1) : \E i \in D : RankIn(D, R, i) = k
    BY <1>3, <2>1, RanksAreNumbers
  <2> QED BY <2>1, <2>2
<1>7. \A k \in D : at(k) \in D /\ RankIn(D, R, at(k)) = k - 1
  <2> TAKE k \in D
  <2>1. k - 1 \in 0..(Len(map) - 1)
    BY <1>1
  <2>2. \E i \in D : RankIn(D, R, i) = k - 1
    BY <1>6, <2>1
  <2> HIDE DEF D
  <2> QED BY <2>2
<1> HIDE DEF at
<1>8. \A i \in D : \E k \in D : at(k) = i
  <2> TAKE i \in D
  <2> DEFINE k == RankIn(D, R, i) + 1
  <2>1. k \in D /\ k - 1 = RankIn(D, R, i)
    BY <1>1, <1>6
  <2> HIDE DEF k
  <2>2. at(k) \in D /\ RankIn(D, R, at(k)) = RankIn(D, R, i)
    BY <1>7, <2>1
  <2> QED BY <1>6, <2>1, <2>2
<1> DEFINE new == [k \in D |-> map[at(k)]]
<1>9. new \in Maps
  <2>1. \A k \in D : new[k] \in CoseLabels \X Items
    BY <1>2, <1>7
  <2> QED BY <1>1, <2>1 DEF Maps
<1>10. Entries(new) = Entries(map)
  <2>1. \A k \in D : new[k] = map[at(k)] /\ at(k) \in D
    BY <1>7
  <2>2. DOMAIN new = D
    OBVIOUS
  <2> HIDE DEF new
  <2> QED BY <1>8, <2>1, <2>2 DEF Entries
<1> QED BY <1>5, <1>9, <1>10

\* What makes a map a key of a kind are the items of the labels it is told by.
LEMMA KindsByLookup ==
  ASSUME NEW a, NEW b, NEW k \in Kinds, \A l \in ToldBy(k) : get(b, l) = get(a, l)
  PROVE  Accepts(k, a) => Accepts(k, b)
<1>1. /\ get(a, "KEY_TYPE") = get(b, "KEY_TYPE") /\ get(a, "ALGORITHM") = get(b, "ALGORITHM")
      /\ get(a, "CURVE") = get(b, "CURVE") /\ get(a, "PUBKEY_X") = get(b, "PUBKEY_X")
      /\ k \in {"P256", "P384"} => get(a, "PUBKEY_Y") = get(b, "PUBKEY_Y")
      /\ k = "X25519kid" => get(a, "KEY_ID") = get(b, "KEY_ID")
  BY DEF ToldBy
<1>2. \A t, alg, c : parse(a, t, alg, c) => parse(b, t, alg, c)
  BY <1>1, Zenon DEF parse, checkIntValue
<1>3. \A n : /\ isBstr(a, "PUBKEY_X", n) => isBstr(b, "PUBKEY_X", n)
             /\ k \in {"P256", "P384"} /\ isBstr(a, "PUBKEY_Y", n) => isBstr(b, "PUBKEY_Y", n)
  BY <1>1 DEF isBstr
<1>4. CASE k = "Ed25519"
  BY <1>2, <1>3, <1>4 DEF Accepts, parseEd25519
<1>5. CASE k = "X25519"
  BY <1>2, <1>3, <1>5 DEF Accepts, parseX25519
<1>6. CASE k = "X25519kid"
  BY <1>1, <1>2, <1>3, <1>6 DEF Accepts, parseX25519
<1>7. CASE k = "P256"
  BY <1>2, <1>3, <1>7 DEF Accepts, parseP256
<1>8. CASE k = "P384"
  BY <1>2, <1>3, <1>8 DEF Accepts, parseP384
<1> QED BY <1>4, <1>5, <1>6, <1>7, <1>8 DEF Kinds

\* A key that is accepted as a kind has all of them.
LEMMA ToldByWhatItHas ==
  ASSUME NEW map \in Maps, NEW k \in Kinds, Accepts(k, map), NEW l \in ToldBy(k)
  PROVE  Has(map, l)
<1> SUFFICES ASSUME get(map, l) = Missing PROVE FALSE
  BY GetIsAnEntry
<1>1. \A n : Missing # <<"int", n>> /\ Missing # <<"bstr", n>> /\ Missing[1] # "bstr"
  BY DEF Missing
<1>2. \A t, alg, c : parse(map, t, alg, c) => l \notin {"KEY_TYPE", "ALGORITHM", "CURVE"}
  BY <1>1 DEF parse, checkIntValue, int
<1>3. \A n : isBstr(map, l, n) => FALSE
  BY <1>1 DEF isBstr, bstr
<1>4. CASE k = "Ed25519"
  BY <1>2, <1>3, <1>4 DEF Accepts, parseEd25519, ToldBy
<1>5. CASE k = "X25519"
  BY <1>2, <1>3, <1>5 DEF Accepts, parseX25519, ToldBy
<1>6. CASE k = "X25519kid"
  BY <1>1, <1>2, <1>3, <1>6 DEF Accepts, parseX25519, ToldBy
<1>7. CASE k = "P256"
  BY <1>2, <1>3, <1>7 DEF Accepts, parseP256, ToldBy
<1>8. CASE k = "P384"
  BY <1>2, <1>3, <1>8 DEF Accepts, parseP384, ToldBy
<1> QED BY <1>4, <1>5, <1>6, <1>7, <1>8 DEF Kinds

LEMMA KindsApart ==
  ASSUME NEW map, NEW k \in Kinds, NEW m \in Kinds, Accepts(k, map), Accepts(m, map)
  PROVE  Family(k) = Family(m)
<1> DEFINE A == get(map, "ALGORITHM")
<1>1. ASSUME NEW h \in Kinds, Accepts(h, map)
      PROVE  /\ h = "Ed25519" => A = <<"int", -8>>
             /\ h \in {"X25519", "X25519kid"} => A = <<"int", -25>>
             /\ h = "P256" => A = <<"int", -7>>
             /\ h = "P384" => A = <<"int", -35>>
  <2>1. \A t, c : /\ parse(map, t, "EDDSA", c) => A = <<"int", -8>>
                  /\ parse(map, t, "ECDH_ES_HKDF_256", c) => A = <<"int", -25>>
                  /\ parse(map, t, "ES256", c) => A = <<"int", -7>>
                  /\ parse(map, t, "ES384", c) => A = <<"int", -35>>
    BY DEF parse, checkIntValue, int, CoseKeyAlgorithm
  <2>2. h = "Ed25519" => A = <<"int", -8>>
    BY <1>1, <2>1 DEF Accepts, parseEd25519
  <2>3. h = "X25519" => A = <<"int", -25>>
    BY <1>1, <2>1 DEF Accepts, parseX25519
  <2>4. h = "X25519kid" => A = <<"int", -25>>
    BY <1>1, <2>1 DEF Accepts, parseX25519
  <2>5. h = "P256" => A = <<"int", -7>>
    BY <1>1, <2>1 DEF Accepts, parseP256
  <2>6. h = "P384" => A = <<"int", -35>>
    BY <1>1, <2>1 DEF Accepts, parseP384
  <2> QED BY <2>2, <2>3, <2>4, <2>5, <2>6
<1> HIDE DEF A
<1>2. /\ k = "Ed25519" => A[2] = -8
      /\ k \in {"X25519", "X25519kid"} => A[2] = -25
      /\ k = "P256" => A[2] = -7
      /\ k = "P384" => A[2] = -35
  BY <1>1
<1>3. /\ m = "Ed25519" => A[2] = -8
      /\ m \in {"X25519", "X25519kid"} => A[2] = -25
      /\ m = "P256" => A[2] = -7
      /\ m = "P384" => A[2] = -35
  BY <1>1
<1> QED BY <1>2, <1>3 DEF Kinds, Family

-----------------------------------------------------------------------------
(***************************************************************************)
(* The inductive invariant: what was parsed is accepted as its kind, and   *)
(* its entries are in the key and in the last encoding.                    *)
(***************************************************************************)
CoseInv ==
  /\ bytes \in Maps /\ key \in Maps
  /\ kind = NoKind => key = NoKey
  /\ kind # NoKind =>
       /\ kind.name \in Kinds /\ kind.map \in Maps /\ Accepts(kind.name, kind.map)
       /\ Entries(kind.map) \subseteq Entries(bytes) /\ Entries(kind.map) \subseteq Entries(key)

LEMMA EmptyMap == << >> \in Maps /\ \A k \in Kinds : ~Accepts(k, << >>)
<1>1. << >> \in Maps
  BY DEF Maps
<1>2. ASSUME NEW k \in Kinds, Accepts(k, << >>) PROVE FALSE
  <2>1. "KEY_TYPE" \in ToldBy(k)
    BY DEF ToldBy
  <2>2. Has(<< >>, "KEY_TYPE")
    BY <1>1, <1>2, <2>1, ToldByWhatItHas
  <2> QED BY <2>2 DEF Has
<1> QED BY <1>1, <1>2

LEMMA CoseInitInv == CoseInit => CoseInv
BY EmptyMap DEF CoseInit, CoseInv, NoKey

LEMMA EntryIsMap ==
  ASSUME NEW l \in DOMAIN CoseKeyLabel, NEW item \in Items \cup {Missing}
  PROVE  Entry(l, item) \in Maps
<1> DEFINE e == <<CoseKeyLabel[l], item>>
<1>1. item # Missing => e \in CoseLabels \X Items
  BY DEF CoseLabels
<1> HIDE DEF e
<1>2. item # Missing => <<e>> \in Maps
  BY <1>1 DEF Maps
<1> QED BY <1>2, EmptyMap DEF Entry, e

\* The items of a map from outside, and those added.
LEMMA ItemsGiven ==
  /\ \A n \in Int : int(n) \in Items
  /\ \A n \in Lengths \cup Nat : bstr(n) \in Items
  /\ \A type \in DOMAIN CoseKeyType : CoseKeyType[type] \in Int
  /\ \A algorithm \in DOMAIN CoseKeyAlgorithm : CoseKeyAlgorithm[algorithm] \in Int
  /\ \A curve \in DOMAIN CoseKeyCurve : CoseKeyCurve[curve] \in Int
  /\ \A a \in Additions : a[1] \in DOMAIN CoseKeyLabel /\ a[2] \in Items
<1>1. /\ \A n \in Int : int(n) \in Items
      /\ \A n \in Lengths \cup Nat : bstr(n) \in Items
  BY DEF int, bstr, Items
<1>2. /\ \A type \in DOMAIN CoseKeyType : CoseKeyType[type] \in Int
      /\ \A algorithm \in DOMAIN CoseKeyAlgorithm : CoseKeyAlgorithm[algorithm] \in Int
      /\ \A curve \in DOMAIN CoseKeyCurve : CoseKeyCurve[curve] \in Int
  BY DEF CoseKeyType, CoseKeyAlgorithm, CoseKeyCurve
<1>3. \A a \in Additions : a[1] \in DOMAIN CoseKeyLabel /\ a[2] \in Items
  BY AdditionsAssumption DEF Items
<1> QED BY <1>1, <1>2, <1>3

LEMMA ReceiveInv ==
  ASSUME CoseInv, NEW type \in DOMAIN CoseKeyType, NEW algorithm \in DOMAIN CoseKeyAlgorithm,
         NEW curve \in DOMAIN CoseKeyCurve, NEW x \in Coordinates, NEW y \in Coordinates,
         NEW kid \in {Missing, bstr(4), int(7)},
         NEW more \in Additions \cup {<<"KEY_ID", Missing>>}, NEW reversed \in BOOLEAN,
         bytes = << >>, Receive(type, algorithm, curve, x, y, kid, more, reversed)
  PROVE  CoseInv'
<1> DEFINE a == Entry("KEY_TYPE", int(CoseKeyType[type]))
           b == Entry("KEY_ID", kid)
           c == Entry("ALGORITHM", int(CoseKeyAlgorithm[algorithm]))
           d == Entry("CURVE", int(CoseKeyCurve[curve]))
           e == Entry("PUBKEY_X", x)
           f == Entry("PUBKEY_Y", y)
           g == Entry(more[1], more[2])
           map == a \o b \o c \o d \o e \o f \o g
<1>1. kid \in Items \cup {Missing} /\ x \in Items \cup {Missing} /\ y \in Items \cup {Missing}
  BY ItemsGiven DEF Coordinates
<1>2. {"KEY_TYPE", "KEY_ID", "ALGORITHM", "CURVE", "PUBKEY_X", "PUBKEY_Y"} \subseteq DOMAIN CoseKeyLabel
  BY DEF CoseKeyLabel
<1>3. more[1] \in DOMAIN CoseKeyLabel /\ more[2] \in Items \cup {Missing}
  <2>1. CASE more \in Additions
    BY <2>1, ItemsGiven
  <2>2. CASE more = <<"KEY_ID", Missing>>
    BY <1>2, <2>2
  <2> QED BY <2>1, <2>2
<1>4. /\ a \in Maps /\ b \in Maps /\ c \in Maps /\ d \in Maps /\ e \in Maps /\ f \in Maps
      /\ g \in Maps
  BY <1>1, <1>2, <1>3, ItemsGiven, EntryIsMap
<1>5. bytes' = (IF reversed THEN Reversed(map) ELSE map) /\ UNCHANGED <<key, kind>>
  BY DEF Receive
<1> HIDE DEF a, b, c, d, e, f, g
<1>6. \A p, q \in Maps : p \o q \in Maps
  BY DEF Maps
<1>7. map \in Maps
  BY <1>4, <1>6
<1> HIDE DEF map
<1>8. Reversed(map) \in Maps
  <2>1. Len(map) \in Nat /\ DOMAIN map = 1..Len(map)
    BY <1>7 DEF Maps
  <2>2. \A i \in 1..Len(map) : Len(map) + 1 - i \in DOMAIN map
    BY <2>1
  <2>3. \A i \in DOMAIN map : map[i] \in CoseLabels \X Items
    BY <1>7 DEF Maps
  <2>4. \A i \in 1..Len(map) : Reversed(map)[i] \in CoseLabels \X Items
    BY <2>1, <2>2, <2>3 DEF Reversed
  <2> QED BY <2>1, <2>4 DEF Reversed, Maps
<1>9. kind = NoKind
  <2> SUFFICES ASSUME kind # NoKind PROVE FALSE
    OBVIOUS
  <2>1. kind.name \in Kinds /\ kind.map \in Maps /\ Accepts(kind.name, kind.map)
        /\ Entries(kind.map) = {}
    BY DEF CoseInv, Entries
  <2>2. "KEY_TYPE" \in ToldBy(kind.name)
    BY DEF ToldBy
  <2>3. Has(kind.map, "KEY_TYPE")
    BY <2>1, <2>2, ToldByWhatItHas
  <2> QED BY <2>1, <2>3 DEF Has, Entries
<1> QED BY <1>5, <1>7, <1>8, <1>9 DEF CoseInv

LEMMA ParseInv ==
  ASSUME CoseInv, NEW k \in Kinds, Parse(k)
  PROVE  CoseInv'
<1>1. /\ Accepts(k, bytes) /\ key' = bytes /\ bytes' = bytes
      /\ kind' = [name |-> k, map |-> bytes]
  BY DEF Parse
<1>2. kind'.name = k /\ kind'.map = bytes
  BY <1>1
<1>3. kind' # NoKind
  BY <1>2 DEF NoKind, Kinds
<1>4. Entries(bytes)' = Entries(bytes) /\ Entries(key)' = Entries(bytes)
  BY <1>1 DEF Entries
<1> QED BY <1>1, <1>2, <1>3, <1>4 DEF CoseInv

LEMMA AddInv ==
  ASSUME CoseInv, NEW l \in DOMAIN CoseKeyLabel, NEW item \in Items, Add(l, item)
  PROVE  CoseInv'
<1> DEFINE e == <<CoseKeyLabel[l], item>>
<1>1. key' = Append(key, e) /\ UNCHANGED <<bytes, kind>> /\ key # NoKey
  BY DEF Add
<1>2. e \in CoseLabels \X Items /\ key \in Maps
  BY DEF CoseLabels, CoseInv
<1> HIDE DEF e
<1>3. key' \in Maps /\ \A i \in DOMAIN key : i \in DOMAIN key' /\ key'[i] = key[i]
  BY <1>1, <1>2 DEF Maps
<1>4. Entries(key) \subseteq Entries(key')
  BY <1>3 DEF Entries
<1> QED BY <1>1, <1>3, <1>4 DEF CoseInv

LEMMA EncodeInv ==
  ASSUME CoseInv, NEW front, Encode(front)
  PROVE  CoseInv'
<1>1. key' = canonicalize(key, front) /\ bytes' = canonicalize(key, front) /\ UNCHANGED kind
      /\ key # NoKey
  BY DEF Encode
<1>2. /\ canonicalize(key, front) \in Maps
      /\ Entries(canonicalize(key, front)) = Entries(key)
  BY CanonicalKeepsEntries DEF CoseInv
<1> QED BY <1>1, <1>2 DEF CoseInv

LEMMA CoseNextInv == CoseInv /\ [CoseNext]_coseVars => CoseInv'
<1> SUFFICES ASSUME CoseInv, [CoseNext]_coseVars PROVE CoseInv'
  OBVIOUS
<1>1. ASSUME NEW type \in DOMAIN CoseKeyType, NEW algorithm \in DOMAIN CoseKeyAlgorithm,
             NEW curve \in DOMAIN CoseKeyCurve, NEW x \in Coordinates, NEW y \in Coordinates,
             NEW kid \in {Missing, bstr(4), int(7)},
             NEW more \in Additions \cup {<<"KEY_ID", Missing>>}, NEW reversed \in BOOLEAN,
             bytes = << >>, Receive(type, algorithm, curve, x, y, kid, more, reversed)
      PROVE  CoseInv'
  BY <1>1, ReceiveInv
<1>2. ASSUME NEW k \in Kinds, Parse(k) PROVE CoseInv'
  BY <1>2, ParseInv
<1>3. ASSUME NEW a \in Additions, Add(a[1], a[2]) PROVE CoseInv'
  BY <1>3, ItemsGiven, AddInv
<1>4. ASSUME NEW front \in SUBSET Repeated(key), Encode(front) PROVE CoseInv'
  BY <1>4, EncodeInv
<1>5. CASE UNCHANGED coseVars
  BY <1>5 DEF coseVars, CoseInv
<1> QED BY <1>1, <1>2, <1>3, <1>4, <1>5 DEF CoseNext

(***************************************************************************)
(* What an accepted COSE key had it has in every encoding, under every     *)
(* label with one item, whatever order its entries came in and are sorted  *)
(* to, whatever was added, repeated labels included, and however long the  *)
(* byte strings are; told by such labels it stays a key of its own kind.   *)
(***************************************************************************)
THEOREM KeysStayThemselves == CoseSpec => []AcceptedStaysItself
<1>1. CoseInv => AcceptedStaysItself
  <2> SUFFICES ASSUME CoseInv, kind # NoKind PROVE
                 /\ \A l \in DOMAIN CoseKeyLabel :
                      Has(kind.map, l) /\ Single(bytes, l) => get(bytes, l) = get(kind.map, l)
                 /\ (\A l \in ToldBy(kind.name) : Single(bytes, l)) =>
                      /\ Accepts(kind.name, bytes)
                      /\ \A k \in Kinds : Accepts(k, bytes) => Family(k) = Family(kind.name)
    BY DEF AcceptedStaysItself
  <2>1. /\ kind.name \in Kinds /\ kind.map \in Maps /\ Accepts(kind.name, kind.map)
        /\ bytes \in Maps /\ Entries(kind.map) \subseteq Entries(bytes)
    BY DEF CoseInv
  <2>2. \A l : Has(kind.map, l) /\ Single(bytes, l) => get(bytes, l) = get(kind.map, l)
    BY <2>1, SingleLookup
  <2>3. ASSUME \A l \in ToldBy(kind.name) : Single(bytes, l)
        PROVE  Accepts(kind.name, bytes)
    <3>1. \A l \in ToldBy(kind.name) : get(bytes, l) = get(kind.map, l)
      BY <2>1, <2>2, <2>3, ToldByWhatItHas
    <3> QED BY <2>1, <3>1, KindsByLookup
  <2> QED BY <2>1, <2>2, <2>3, KindsApart
<1> QED BY CoseInitInv, CoseNextInv, <1>1, PTL DEF CoseSpec

(***************************************************************************)
(* getEcPublicKey() returns both coordinates in full of an accepted P-256  *)
(* or P-384 key with one x and one y, and reports an error for a key of    *)
(* another kind without a y.                                               *)
(***************************************************************************)
THEOREM EcPublicKeysWhole == CoseSpec => []EcPublicKeyWhole
<1>1. CoseInv => EcPublicKeyWhole
  <2> SUFFICES ASSUME CoseInv, kind # NoKind
               PROVE  IF kind.name \in {"P256", "P384"}
                        THEN Single(key, "PUBKEY_X") /\ Single(key, "PUBKEY_Y") =>
                               getEcPublicKey(key) = IF kind.name = "P256" THEN 64 ELSE 96
                        ELSE ~Has(key, "PUBKEY_Y") => getEcPublicKey(key) = 0
    BY DEF EcPublicKeyWhole
  <2>1. /\ kind.name \in Kinds /\ kind.map \in Maps /\ Accepts(kind.name, kind.map)
        /\ key \in Maps /\ Entries(kind.map) \subseteq Entries(key)
    BY DEF CoseInv
  <2>2. \A l, n : get(key, l) = <<"bstr", n>> => getBstrValue(key, l) = n
    BY DEF getBstrValue
  <2>3. ASSUME kind.name \in {"P256", "P384"}, NEW l \in {"PUBKEY_X", "PUBKEY_Y"}, Single(key, l)
        PROVE  getBstrValue(key, l) = IF kind.name = "P256" THEN 32 ELSE 48
    <3>1. l \in ToldBy(kind.name)
      BY <2>3 DEF ToldBy
    <3>2. Has(kind.map, l)
      BY <2>1, <3>1, ToldByWhatItHas
    <3>3. get(key, l) = get(kind.map, l)
      BY <2>1, <2>3, <3>2, SingleLookup
    <3>4. CASE kind.name = "P256"
      <4>1. get(kind.map, l) = <<"bstr", 32>>
        BY <2>1, <2>3, <3>4 DEF Accepts, parseP256, isBstr, bstr
      <4> QED BY <2>2, <3>3, <3>4, <4>1
    <3>5. CASE kind.name = "P384"
      <4>1. get(kind.map, l) = <<"bstr", 48>>
        BY <2>1, <2>3, <3>5 DEF Accepts, parseP384, isBstr, bstr
      <4> QED BY <2>2, <3>3, <3>5, <4>1
    <3> QED BY <2>3, <3>4, <3>5
  <2>4. CASE kind.name \in {"P256", "P384"}
    <3> SUFFICES ASSUME Single(key, "PUBKEY_X"), Single(key, "PUBKEY_Y")
                 PROVE  getEcPublicKey(key) = IF kind.name = "P256" THEN 64 ELSE 96
      BY <2>4
    <3>1. /\ getBstrValue(key, "PUBKEY_X") = IF kind.name = "P256" THEN 32 ELSE 48
          /\ getBstrValue(key, "PUBKEY_Y") = IF kind.name = "P256" THEN 32 ELSE 48
      BY <2>3, <2>4
    <3> QED BY <3>1 DEF getEcPublicKey
  <2>5. CASE kind.name \notin {"P256", "P384"}
    <3> SUFFICES ASSUME ~Has(key, "PUBKEY_Y") PROVE getEcPublicKey(key) = 0
      BY <2>5
    <3>1. getBstrValue(key, "PUBKEY_Y") = 0
      BY DEF getBstrValue, get, Missing
    <3> QED BY <3>1 DEF getEcPublicKey
  <2> QED BY <2>4, <2>5
<1> QED BY CoseInitInv, CoseNextInv, <1>1, PTL DEF CoseSpec

-----------------------------------------------------------------------------
(***************************************************************************)
(* Key parameters: the tables of tags, types and enumerations.             *)
(***************************************************************************)
Real == Names \ {"INVALID"}

\* Every tag has a number, and its low 28 bits are at most 2000.
LEMMA NumbersOfTags ==
  /\ \A n \in Names : Tag[n] \in Int
  /\ \A n \in Names : masked_tag(Tag[n]) \in Int
  /\ \A n \in Names : masked_tag(Tag[n]) >= 0 /\ masked_tag(Tag[n]) <= 2000
<1>1. \A n \in Names : Tag[n] \in Int
  BY SMTT(60) DEF Names, Tag
<1>2. \A n \in Names : masked_tag(Tag[n]) \in Int /\ masked_tag(Tag[n]) >= 0
  BY <1>1 DEF masked_tag, TypeMask
<1>3. \A n \in Names : masked_tag(Tag[n]) <= 2000
  BY SMTT(60) DEF Names, Tag, masked_tag, TypeMask
<1> QED BY <1>1, <1>2, <1>3

\* No two tags share their low 28 bits, so their type is not needed to tell them apart.
LEMMA MasksDiffer ==
  \A m, n \in Names : masked_tag(Tag[m]) = masked_tag(Tag[n]) => m = n
BY SMTT(120) DEF Names, Tag, masked_tag, TypeMask

\* Numbers of tags are different, so a number has one name.
LEMMA TagsDiffer == \A m, n \in Names : Tag[m] = Tag[n] => m = n
BY MasksDiffer

LEMMA NameOfTag == \A n \in Names : NameOf(Tag[n]) = n
BY TagsDiffer DEF NameOf

\* A type is found again by its number.
LEMMA TypeNumbers == \A ty \in TypeNames : TypeToString(TagType[ty]) = ty
BY SMTT(60) DEF TypeToString, TypeNames, TagType

TypeNumber(n) == (Tag[n] \div TypeMask) % 16

LEMMA TypeOfNumber ==
  ASSUME NEW n, NEW ty \in TypeNames, TypeNumber(n) = TagType[ty]
  PROVE  typeFromTag(Tag[n]) = ty
BY TypeNumbers DEF typeFromTag, TypeNumber

\* The tags that keymaster_tags.h declares with a type.
Declared(ty) ==
  IF ty \in DOMAIN DECLARE_KEYMASTER_TAG THEN DECLARE_KEYMASTER_TAG[ty]
  ELSE IF ty \in DOMAIN DECLARE_KEYMASTER_ENUM_TAG THEN DECLARE_KEYMASTER_ENUM_TAG[ty]
  ELSE {}

\* The number of a declared tag has the type of its declaration.
LEMMA DeclaredNumbers ==
  \A ty \in TypeNames \ {"INVALID"} :
    \A n \in Declared(ty) \cap Names : typeFromTag(Tag[n]) = ty
<1>1. \A n \in Declared("UINT") \cap Names : TypeNumber(n) = 3
  BY SMTT(60) DEF Declared, DECLARE_KEYMASTER_TAG, Names, Tag, TypeNumber, TypeMask
<1>2. \A n \in Declared("BOOL") \cap Names : TypeNumber(n) = 7
  BY SMTT(60) DEF Declared, DECLARE_KEYMASTER_TAG, Names, Tag, TypeNumber, TypeMask
<1>3. \A n \in Declared("ULONG") \cap Names : TypeNumber(n) = 5
  BY SMTT(60) DEF Declared, DECLARE_KEYMASTER_TAG, Names, Tag, TypeNumber, TypeMask
<1>4. \A n \in Declared("DATE") \cap Names : TypeNumber(n) = 6
  BY SMTT(60) DEF Declared, DECLARE_KEYMASTER_TAG, Names, Tag, TypeNumber, TypeMask
<1>5. \A n \in Declared("ULONG_REP") \cap Names : TypeNumber(n) = 10
  BY SMTT(60) DEF Declared, DECLARE_KEYMASTER_TAG, Names, Tag, TypeNumber, TypeMask
<1>6. \A n \in Declared("BYTES") \cap Names : TypeNumber(n) = 9
  BY SMTT(60) DEF Declared, DECLARE_KEYMASTER_TAG, Names, Tag, TypeNumber, TypeMask
<1>7. \A n \in Declared("BIGNUM") \cap Names : TypeNumber(n) = 8
  BY SMTT(60) DEF Declared, DECLARE_KEYMASTER_TAG, Names, Tag, TypeNumber, TypeMask
<1>8. \A n \in Declared("ENUM") \cap Names : TypeNumber(n) = 1
  BY SMTT(60)
  DEF Declared, DECLARE_KEYMASTER_TAG, DECLARE_KEYMASTER_ENUM_TAG, Names, Tag, TypeNumber, TypeMask
<1>9. \A n \in Declared("ENUM_REP") \cap Names : TypeNumber(n) = 2
  BY SMTT(60)
  DEF Declared, DECLARE_KEYMASTER_TAG, DECLARE_KEYMASTER_ENUM_TAG, Names, Tag, TypeNumber, TypeMask
<1>10. Declared("UINT_REP") = {}
  BY DEF Declared, DECLARE_KEYMASTER_TAG, DECLARE_KEYMASTER_ENUM_TAG
<1>11. \A ty \in TypeNames \ {"INVALID"} :
         \A n \in Declared(ty) \cap Names : TypeNumber(n) = TagType[ty]
  BY <1>1, <1>2, <1>3, <1>4, <1>5, <1>6, <1>7, <1>8, <1>9, <1>10 DEF TypeNames, TagType
<1> QED BY <1>11, TypeOfNumber

\* Every declared tag has one of these types.
LEMMA DeclaredTypes ==
  ASSUME NEW n \in Real \cap DeclaredTags
  PROVE  DeclaredType(n) \in TypeNames \ {"INVALID"} /\ n \in Declared(DeclaredType(n))
<1> DEFINE D(ty) == \/ ty \in DOMAIN DECLARE_KEYMASTER_TAG /\ n \in DECLARE_KEYMASTER_TAG[ty]
                    \/ /\ ty \in DOMAIN DECLARE_KEYMASTER_ENUM_TAG
                       /\ n \in DECLARE_KEYMASTER_ENUM_TAG[ty]
<1>1. /\ DOMAIN DECLARE_KEYMASTER_TAG \subseteq TypeNames
      /\ DOMAIN DECLARE_KEYMASTER_ENUM_TAG \subseteq TypeNames
      /\ DOMAIN DECLARE_KEYMASTER_TAG \cap DOMAIN DECLARE_KEYMASTER_ENUM_TAG = {}
      /\ DECLARE_KEYMASTER_TAG["INVALID"] = {"INVALID"}
      /\ "INVALID" \in DOMAIN DECLARE_KEYMASTER_TAG
  BY DEF TypeNames, TagType, DECLARE_KEYMASTER_TAG, DECLARE_KEYMASTER_ENUM_TAG
<1>2. \E ty \in TypeNames : D(ty)
  <2>1. \/ \E ty \in DOMAIN DECLARE_KEYMASTER_TAG : n \in DECLARE_KEYMASTER_TAG[ty]
        \/ \E ty \in DOMAIN DECLARE_KEYMASTER_ENUM_TAG : n \in DECLARE_KEYMASTER_ENUM_TAG[ty]
    <3>1. n \in DeclaredTags
      OBVIOUS
    <3>2. n \in UNION {DECLARE_KEYMASTER_TAG[ty] : ty \in DOMAIN DECLARE_KEYMASTER_TAG}
          \/ n \in UNION {DECLARE_KEYMASTER_ENUM_TAG[ty] :
                           ty \in DOMAIN DECLARE_KEYMASTER_ENUM_TAG}
      BY <3>1 DEF DeclaredTags
    <3> QED BY <3>2
  <2> QED BY <1>1, <2>1, Zenon
<1>3. DeclaredType(n) \in TypeNames /\ D(DeclaredType(n))
  <2>1. DeclaredType(n) = CHOOSE ty \in TypeNames : D(ty)
    BY DEF DeclaredType
  <2> HIDE DEF D
  <2> QED BY <1>2, <2>1
<1>4. DeclaredType(n) # "INVALID"
  BY <1>1, <1>3 DEF Real
<1>5. n \in Declared(DeclaredType(n))
  <2> DEFINE ty == DeclaredType(n)
  <2>1. CASE ty \in DOMAIN DECLARE_KEYMASTER_TAG
    BY <1>1, <1>3, <2>1 DEF Declared
  <2>2. CASE ty \notin DOMAIN DECLARE_KEYMASTER_TAG
    BY <1>1, <1>3, <2>2 DEF Declared
  <2> QED BY <2>1, <2>2
<1> QED BY <1>3, <1>4, <1>5

\* So both Authorization functions write the member that GetTagValue reads.
LEMMA MembersAgree ==
  ASSUME NEW n \in Real \cap DeclaredTags
  PROVE  LET read == Overlay(KmGetTagValue[DeclaredType(n)])
         IN  /\ Overlay(KmAuthorization[DeclaredType(n)]) = read
             /\ Overlay(MemberOfType[typeFromTag(Tag[n])]) = read
<1>1. /\ DeclaredType(n) \in TypeNames \ {"INVALID"}
      /\ typeFromTag(Tag[n]) = DeclaredType(n)
  BY DeclaredTypes, DeclaredNumbers DEF Real
<1>2. \A ty \in TypeNames \ {"INVALID"} :
        /\ Overlay(KmAuthorization[ty]) = Overlay(KmGetTagValue[ty])
        /\ Overlay(MemberOfType[ty]) = Overlay(KmGetTagValue[ty])
  BY DEF TypeNames, TagType, KmAuthorization, KmGetTagValue, MemberOfType, Overlay
<1> QED BY <1>1, <1>2

-----------------------------------------------------------------------------
(***************************************************************************)
(* The tables of the attestation record.                                   *)
(***************************************************************************)
\* The types a field of each kind meets in the numbers of its tags.
LEMMA FieldTypes ==
  /\ \A n \in KM_AUTH_LIST["SET_OF_INTEGER"] \cap Names : typeFromTag(Tag[n]) = "ENUM_REP"
  /\ \A n \in KM_AUTH_LIST["INTEGER"] \cap Names :
       typeFromTag(Tag[n]) \in {"ENUM", "UINT", "ULONG", "DATE"}
  /\ \A n \in KM_AUTH_LIST["NULL"] \cap Names : typeFromTag(Tag[n]) = "BOOL"
  /\ \A n \in KM_AUTH_LIST["OCTET_STRING"] \cap Names : typeFromTag(Tag[n]) = "BYTES"
<1>1. \A n \in KM_AUTH_LIST["SET_OF_INTEGER"] \cap Names : TypeNumber(n) = 2
  BY SMTT(60) DEF KM_AUTH_LIST, Names, Tag, TypeNumber, TypeMask
<1>2. \A n \in KM_AUTH_LIST["INTEGER"] \cap Names : TypeNumber(n) \in {1, 3, 5, 6}
  BY SMTT(60) DEF KM_AUTH_LIST, Names, Tag, TypeNumber, TypeMask
<1>3. \A n \in KM_AUTH_LIST["NULL"] \cap Names : TypeNumber(n) = 7
  BY SMTT(60) DEF KM_AUTH_LIST, Names, Tag, TypeNumber, TypeMask
<1>4. \A n \in KM_AUTH_LIST["OCTET_STRING"] \cap Names : TypeNumber(n) = 9
  BY SMTT(60) DEF KM_AUTH_LIST, Names, Tag, TypeNumber, TypeMask
<1>5. /\ {"ENUM", "ENUM_REP", "UINT", "ULONG", "DATE", "BOOL", "BYTES"} \subseteq TypeNames
      /\ TagType["ENUM"] = 1 /\ TagType["ENUM_REP"] = 2 /\ TagType["UINT"] = 3
      /\ TagType["ULONG"] = 5 /\ TagType["DATE"] = 6 /\ TagType["BOOL"] = 7
      /\ TagType["BYTES"] = 9
  BY DEF TypeNames, TagType
<1> QED BY <1>1, <1>2, <1>3, <1>4, <1>5, TypeOfNumber

\* Struct and macro give a field the same kind.
LEMMA StructIsSequence ==
  /\ DOMAIN KM_AUTH_LIST =
       {"SET_OF_INTEGER", "INTEGER", "NULL", "OCTET_STRING", "KM_ROOT_OF_TRUST"}
  /\ \A slot \in DOMAIN KM_AUTH_LIST : KM_AUTH_LIST[slot] = ASN1_SEQUENCE[slot]
<1>1. DOMAIN KM_AUTH_LIST =
       {"SET_OF_INTEGER", "INTEGER", "NULL", "OCTET_STRING", "KM_ROOT_OF_TRUST"}
  BY DEF KM_AUTH_LIST
<1>2. /\ KM_AUTH_LIST["SET_OF_INTEGER"] = ASN1_SEQUENCE["SET_OF_INTEGER"]
      /\ KM_AUTH_LIST["KM_ROOT_OF_TRUST"] = ASN1_SEQUENCE["KM_ROOT_OF_TRUST"]
  BY DEF KM_AUTH_LIST, ASN1_SEQUENCE, ASN1_SET_OF
<1>3. KM_AUTH_LIST["INTEGER"] = ASN1_SEQUENCE["INTEGER"]
  BY SMTT(60) DEF KM_AUTH_LIST, ASN1_SEQUENCE, ASN1_INTEGER
<1>4. KM_AUTH_LIST["NULL"] = ASN1_SEQUENCE["NULL"]
  BY SMTT(60) DEF KM_AUTH_LIST, ASN1_SEQUENCE, ASN1_NULL
<1>5. KM_AUTH_LIST["OCTET_STRING"] = ASN1_SEQUENCE["OCTET_STRING"]
  BY SMTT(60) DEF KM_AUTH_LIST, ASN1_SEQUENCE, ASN1_OCTET_STRING
<1> QED BY <1>1, <1>2, <1>3, <1>4, <1>5

\* Every tag that is not listed as silent has a field, or a claim, and no other has.
LEMMA FieldsOfTags ==
  /\ \A n \in Real \ NotAttested["asn1"] :
       \E slot \in {"SET_OF_INTEGER", "INTEGER", "NULL", "OCTET_STRING"} : n \in KM_AUTH_LIST[slot]
  /\ \A n \in NotAttested["asn1"] :
       \A slot \in {"SET_OF_INTEGER", "INTEGER", "NULL", "OCTET_STRING"} :
         n \notin KM_AUTH_LIST[slot]
  /\ \A n \in Real \ NotAttested["eat"] : n \in EatClaim
  /\ \A n \in NotAttested["eat"] : n \notin EatClaim
<1>1. \A n \in Real \ NotAttested["asn1"] :
        \/ n \in KM_AUTH_LIST["SET_OF_INTEGER"] \/ n \in KM_AUTH_LIST["INTEGER"]
        \/ n \in KM_AUTH_LIST["NULL"] \/ n \in KM_AUTH_LIST["OCTET_STRING"]
  BY SMTT(60) DEF Real, Names, Tag, NotAttested, KM_AUTH_LIST
<1>2. \A n \in NotAttested["asn1"] :
        /\ n \notin KM_AUTH_LIST["SET_OF_INTEGER"] /\ n \notin KM_AUTH_LIST["INTEGER"]
        /\ n \notin KM_AUTH_LIST["NULL"] /\ n \notin KM_AUTH_LIST["OCTET_STRING"]
  BY SMTT(60) DEF NotAttested, KM_AUTH_LIST
<1>3. \A n \in Real \ NotAttested["eat"] : n \in EatClaim
  BY SMTT(60) DEF Real, Names, Tag, NotAttested, EatClaim
<1>4. \A n \in NotAttested["eat"] : n \notin EatClaim
  BY SMTT(60) DEF NotAttested, EatClaim
<1> QED BY <1>1, <1>2, <1>3, <1>4

\* The labels of a record tell its tags apart, and from the other claims.
LEMMA AttestationLabelsDiffer ==
  ASSUME NEW format \in {"asn1", "eat"}
  PROVE  /\ \A m, n \in Names : Label(format, Tag[m]) = Label(format, Tag[n]) => m = n
         /\ \A n \in Names : Label(format, Tag[n]) \notin NonKmClaims
<1>1. ASSUME NEW n \in Names
      PROVE  /\ masked_tag(Tag[n]) \in Int
             /\ masked_tag(Tag[n]) >= 0 /\ masked_tag(Tag[n]) <= 2000
  BY NumbersOfTags
<1>2. ASSUME NEW m \in Names, NEW n \in Names, Label(format, Tag[m]) = Label(format, Tag[n])
      PROVE  m = n
  <2>1. masked_tag(Tag[m]) = masked_tag(Tag[n])
    BY <1>1, <1>2 DEF Label, convert_to_eat_claim, EAT_CLAIM_PRIVATE_BASE
  <2> QED BY <2>1, MasksDiffer
<1>3. ASSUME NEW n \in Names PROVE Label(format, Tag[n]) \notin NonKmClaims
  BY <1>1 DEF Label, convert_to_eat_claim, EAT_CLAIM_PRIVATE_BASE, NonKmClaims
<1> QED BY <1>2, <1>3

\* Versions with one attestation version have one version of keymaster.
LEMMA VersionsNamed ==
  \A u, v \in KmVersion :
    /\ v \notin {10, 11}
    /\ version_to_attestation_version(u) = version_to_attestation_version(v)
    => version_to_attestation_km_version(u) = version_to_attestation_km_version(v)
BY SMTT(60) DEF KmVersion, version_to_attestation_version, version_to_attestation_km_version

-----------------------------------------------------------------------------
(***************************************************************************)
(* The inductive invariant: the client's parameters, later the entries of  *)
(* the keymaster set, are those that were put, each in the member of the   *)
(* type in its number or of the type declared; the record is built from    *)
(* the set.                                                                *)
(***************************************************************************)
Given == {p \in Real \X Int : p[2] # Null}

ClientParams == {Authorization(p[1], p[2]) : p \in Given}

AnyMember == {MemberOfType[typeFromTag(Tag[n])] : n \in Real}
             \cup {KmAuthorization[DeclaredType(n)] : n \in Real}
KmEntriesSet == [tag : {Tag[n] : n \in Real}, member : AnyMember, v : Int]

InMember(e, n) ==
  \/ e.member = MemberOfType[typeFromTag(Tag[n])]
  \/ n \in DeclaredTags /\ e.member = KmAuthorization[DeclaredType(n)]

IsEntry(e, p) == e.tag = Tag[p[1]] /\ e.v = p[2] /\ InMember(e, p[1])

RecordFrom(format, ver) ==
  [format |-> format, version |-> version_to_attestation_version(ver),
   km_version |-> version_to_attestation_km_version(ver),
   entries |-> {<<Label(format, km[i].tag), km[i].v>> :
                  i \in {j \in DOMAIN km : Recorded(format, j)}}]

ParamsInv ==
  /\ stage \in {"client", "hal", "attested"}
  /\ put \in SUBSET Given
  /\ client \in Seq(ClientParams) /\ km \in Seq(KmEntriesSet)
  /\ stage = "client" =>
       /\ \A i \in DOMAIN client : \E p \in put : client[i] = Authorization(p[1], p[2])
       /\ \A p \in put : \E i \in DOMAIN client : client[i] = Authorization(p[1], p[2])
       /\ \A p \in put : unionTag(p[1]) = "boolValue" => p[2] = True
       /\ record = NoRecord
  /\ stage # "client" =>
       /\ \A i \in DOMAIN km : \E p \in put : IsEntry(km[i], p)
       /\ \A p \in put : \E i \in DOMAIN km : IsEntry(km[i], p)
  /\ stage = "hal" => record = NoRecord
  /\ record # NoRecord =>
       \E format \in {"asn1", "eat"}, ver \in KmVersion : record = RecordFrom(format, ver)

\* What is put has a name and a value that is no Null; a BOOL is true.
LEMMA ValuesGiven ==
  ASSUME NEW s, NEW n \in NextTags(s), NEW v \in ValuesOf(n, s)
  PROVE  /\ n \in Real /\ <<n, v>> \in Given
         /\ unionTag(n) = "boolValue" => v = True
<1>1. n \in Real
  BY TagsAssumption DEF NextTags, TypedTags, Real
<1>2. \A field \in DOMAIN EnumOf : \A w \in Numbers(EnumOf[field]) : w \in Int /\ w # Null
  BY SMTT(60) DEF EnumOf, Numbers, Algorithm, BlockMode, Digest, EcCurve, KeyOrigin, PaddingMode,
     KeyPurpose, HardwareAuthenticatorType, SecurityLevel, Null
<1>3. "boolValue" \notin DOMAIN EnumOf
  BY DEF EnumOf
<1>4. CASE unionTag(n) \in DOMAIN EnumOf
  BY <1>1, <1>2, <1>3, <1>4 DEF ValuesOf, Given
<1>5. CASE unionTag(n) = "boolValue"
  BY <1>1, <1>3, <1>5 DEF ValuesOf, Given, True, Null
<1>6. CASE unionTag(n) \notin DOMAIN EnumOf /\ unionTag(n) # "boolValue"
  BY <1>1, <1>6 DEF ValuesOf, Given, Null
<1> QED BY <1>4, <1>5, <1>6

\* The conversion gives the entry of what was put.
LEMMA ConvertedEntry ==
  ASSUME NEW p \in Given, unionTag(p[1]) = "boolValue" => p[2] = True
  PROVE  /\ IsEntry(KmParam(Authorization(p[1], p[2])), p)
         /\ KmParam(Authorization(p[1], p[2])) \in KmEntriesSet
<1> DEFINE n == p[1]
           a == Authorization(p[1], p[2])
<1>1. n \in Real /\ p[2] \in Int /\ p[2] # Null
  BY DEF Given
<1>2. a.tag = Tag[n] /\ a.value.field = unionTag(n) /\ a.value.v = p[2]
  BY DEF Authorization, Make
<1>3. NameOf(a.tag) = n
  BY <1>1, <1>2, NameOfTag DEF Real
<1> HIDE DEF a
<1>4. accessTagValue(n, a) = p[2]
  BY <1>2 DEF accessTagValue, Get
<1>5. KmParam(a) = [tag |-> Tag[n], member |-> MemberOfType[typeFromTag(Tag[n])], v |-> p[2]]
  BY <1>2, <1>3, <1>4 DEF KmParam
<1>6. MemberOfType[typeFromTag(Tag[n])] \in AnyMember
  BY <1>1 DEF AnyMember
<1> QED BY <1>1, <1>5, <1>6 DEF IsEntry, InMember, KmEntriesSet, a

LEMMA ParamsInitInv == ParamsInit => ParamsInv
<1> SUFFICES ASSUME ParamsInit PROVE ParamsInv
  OBVIOUS
<1>1. << >> \in Seq(ClientParams) /\ << >> \in Seq(KmEntriesSet) /\ DOMAIN << >> = {}
  OBVIOUS
<1> QED BY <1>1 DEF ParamsInit, ParamsInv

LEMMA AuthorizeStep ==
  ASSUME ParamsInv, NEW n \in NextTags(client), NEW v \in ValuesOf(n, client), Authorize(n, v)
  PROVE  ParamsInv'
<1> DEFINE p == <<n, v>>
           a == Authorization(n, v)
<1>1. p \in Given /\ (unionTag(n) = "boolValue" => v = True)
  BY ValuesGiven
<1>2. /\ stage = "client" /\ client' = Append(client, a) /\ put' = put \cup {p}
      /\ UNCHANGED <<stage, km, record>>
  BY DEF Authorize
<1>3. client \in Seq(ClientParams) /\ a \in ClientParams
  BY <1>1 DEF ParamsInv, ClientParams
<1>4. a = Authorization(p[1], p[2]) /\ p[1] = n /\ p[2] = v
  OBVIOUS
<1> HIDE DEF p, a
<1>5. /\ client' \in Seq(ClientParams) /\ DOMAIN client' = DOMAIN client \cup {Len(client) + 1}
      /\ \A i \in DOMAIN client : client'[i] = client[i]
      /\ client'[Len(client) + 1] = a
  BY <1>2, <1>3
<1>6. \A i \in DOMAIN client' : \E q \in put' : client'[i] = Authorization(q[1], q[2])
  BY <1>2, <1>4, <1>5 DEF ParamsInv
<1>7. \A q \in put' : \E i \in DOMAIN client' : client'[i] = Authorization(q[1], q[2])
  BY <1>2, <1>4, <1>5 DEF ParamsInv
<1>8. \A q \in put' : unionTag(q[1]) = "boolValue" => q[2] = True
  BY <1>1, <1>2, <1>4 DEF ParamsInv
<1>9. put' \in SUBSET Given /\ record = NoRecord /\ NoRecord' = NoRecord
  BY <1>1, <1>2 DEF ParamsInv, NoRecord
<1> QED BY <1>2, <1>5, <1>6, <1>7, <1>8, <1>9 DEF ParamsInv

LEMMA ConvertStep == ParamsInv /\ aidlKeyParams2Km => ParamsInv'
<1> SUFFICES ASSUME ParamsInv, aidlKeyParams2Km PROVE ParamsInv'
  OBVIOUS
<1>1. /\ stage = "client" /\ stage' = "hal" /\ UNCHANGED <<client, put, record>>
      /\ km' = [i \in DOMAIN client |-> KmParam(client[i])]
  BY DEF aidlKeyParams2Km
<1>2. \A p \in put : p \in Given /\ (unionTag(p[1]) = "boolValue" => p[2] = True)
  BY <1>1 DEF ParamsInv
<1>3. ASSUME NEW i \in DOMAIN client
      PROVE  /\ \E p \in put : client[i] = Authorization(p[1], p[2]) /\ IsEntry(km'[i], p)
             /\ km'[i] \in KmEntriesSet
  <2>1. PICK p \in put : client[i] = Authorization(p[1], p[2])
    BY <1>1 DEF ParamsInv
  <2>2. IsEntry(KmParam(client[i]), p) /\ KmParam(client[i]) \in KmEntriesSet
    BY <1>2, <2>1, ConvertedEntry
  <2> QED BY <1>1, <2>1, <2>2
<1>4. \A p \in put : \E i \in DOMAIN client : IsEntry(km'[i], p)
  <2> TAKE p \in put
  <2>1. PICK i \in DOMAIN client : client[i] = Authorization(p[1], p[2])
    BY <1>1 DEF ParamsInv
  <2>2. IsEntry(KmParam(client[i]), p)
    BY <1>2, <2>1, ConvertedEntry
  <2> QED BY <1>1, <2>2
<1>5. km' \in Seq(KmEntriesSet) /\ DOMAIN km' = DOMAIN client
  <2>1. DOMAIN client = 1..Len(client) /\ Len(client) \in Nat
    BY DEF ParamsInv
  <2>2. \A i \in DOMAIN client : km'[i] \in KmEntriesSet
    BY <1>3
  <2> QED BY <1>1, <2>1, <2>2
<1>6. record' = NoRecord'
  BY <1>1 DEF ParamsInv, NoRecord
<1>7. /\ \A i \in DOMAIN km' : \E p \in put' : IsEntry(km'[i], p)
      /\ \A p \in put' : \E i \in DOMAIN km' : IsEntry(km'[i], p)
  BY <1>1, <1>3, <1>4, <1>5
<1>8. put' \in SUBSET Given /\ client' \in Seq(ClientParams)
  BY <1>1 DEF ParamsInv
<1> QED BY <1>1, <1>5, <1>6, <1>7, <1>8 DEF ParamsInv

LEMMA HalAuthorizeStep ==
  ASSUME ParamsInv, NEW n \in NextTags(km), NEW v \in ValuesOf(n, km), HalAuthorize(n, v)
  PROVE  ParamsInv'
<1> DEFINE p == <<n, v>>
           e == [tag |-> Tag[n], member |-> KmAuthorization[DeclaredType(n)], v |-> v]
<1>1. p \in Given /\ n \in Real /\ v \in Int
  BY ValuesGiven DEF Given
<1>2. /\ stage = "hal" /\ km' = Append(km, e) /\ put' = put \cup {p} /\ n \in DeclaredTags
      /\ UNCHANGED <<stage, client, record>>
  BY DEF HalAuthorize
<1>3. KmAuthorization[DeclaredType(n)] \in AnyMember
  BY <1>1 DEF AnyMember
<1>4. e \in KmEntriesSet
  BY <1>1, <1>3 DEF KmEntriesSet
<1>5. IsEntry(e, p)
  BY <1>2 DEF IsEntry, InMember
<1>6. km \in Seq(KmEntriesSet)
  BY DEF ParamsInv
<1> HIDE DEF p, e
<1>7. /\ km' \in Seq(KmEntriesSet) /\ DOMAIN km' = DOMAIN km \cup {Len(km) + 1}
      /\ \A i \in DOMAIN km : km'[i] = km[i]
      /\ km'[Len(km) + 1] = e
  BY <1>2, <1>4, <1>6
<1>8. /\ \A i \in DOMAIN km' : \E q \in put' : IsEntry(km'[i], q)
      /\ \A q \in put' : \E i \in DOMAIN km' : IsEntry(km'[i], q)
  <2>1. /\ \A i \in DOMAIN km : \E q \in put : IsEntry(km[i], q)
        /\ \A q \in put : \E i \in DOMAIN km : IsEntry(km[i], q)
    BY <1>2 DEF ParamsInv
  <2>2. \A i \in DOMAIN km : \A q \in put : IsEntry(km[i], q) => IsEntry(km'[i], q)
    BY <1>7
  <2>3. IsEntry(km'[Len(km) + 1], p) /\ p \in put' /\ put \subseteq put'
        /\ \A q \in put' : q \in put \/ q = p
    BY <1>2, <1>5, <1>7
  <2>4. ASSUME NEW i \in DOMAIN km' PROVE \E q \in put' : IsEntry(km'[i], q)
    <3>1. CASE i \in DOMAIN km
      BY <2>1, <2>2, <2>3, <3>1
    <3>2. CASE i = Len(km) + 1
      BY <2>3, <3>2
    <3> QED BY <1>7, <3>1, <3>2
  <2>5. ASSUME NEW q \in put' PROVE \E i \in DOMAIN km' : IsEntry(km'[i], q)
    <3>1. CASE q \in put
      BY <1>7, <2>1, <2>2, <3>1
    <3>2. CASE q = p
      BY <1>7, <2>3, <3>2
    <3> QED BY <2>3, <3>1, <3>2
  <2> QED BY <2>4, <2>5
<1>9. put' \in SUBSET Given /\ record' = NoRecord' /\ client' \in Seq(ClientParams)
  BY <1>1, <1>2 DEF ParamsInv, NoRecord
<1> QED BY <1>2, <1>7, <1>8, <1>9 DEF ParamsInv

LEMMA RecordStep ==
  ASSUME ParamsInv, NEW format \in {"asn1", "eat"}, NEW ver \in KmVersion,
         BuildRecord(format, ver)
  PROVE  ParamsInv'
<1>1. stage' = "attested" /\ stage = "hal" /\ UNCHANGED <<client, km, put>>
  BY DEF BuildRecord
<1>2. record' = RecordFrom(format, ver)
  BY DEF BuildRecord, RecordFrom
<1>3. RecordFrom(format, ver)' = RecordFrom(format, ver)
  BY <1>1 DEF RecordFrom, Recorded, InField, IsLast
<1>4. /\ \A i \in DOMAIN km' : \E p \in put' : IsEntry(km'[i], p)
      /\ \A p \in put' : \E i \in DOMAIN km' : IsEntry(km'[i], p)
  BY <1>1 DEF ParamsInv
<1>5. put' \in SUBSET Given /\ client' \in Seq(ClientParams) /\ km' \in Seq(KmEntriesSet)
  BY <1>1 DEF ParamsInv
<1>6. \E f \in {"asn1", "eat"}, u \in KmVersion : record' = RecordFrom(f, u)'
  BY <1>2, <1>3
<1> QED BY <1>1, <1>4, <1>5, <1>6 DEF ParamsInv

LEMMA ParamsNextInv == ParamsInv /\ [ParamsNext]_paramVars => ParamsInv'
<1> SUFFICES ASSUME ParamsInv, [ParamsNext]_paramVars PROVE ParamsInv'
  OBVIOUS
<1>1. CASE UNCHANGED paramVars
  <2>1. UNCHANGED <<stage, client, km, put, record>>
    BY <1>1 DEF paramVars
  <2>2. \A format, ver : RecordFrom(format, ver)' = RecordFrom(format, ver)
    BY <2>1 DEF RecordFrom, Recorded, InField, IsLast
  <2>3. NoRecord' = NoRecord
    BY DEF NoRecord
  <2> QED BY <2>1, <2>2, <2>3 DEF ParamsInv
<1>2. ASSUME NEW n \in NextTags(client), NEW v \in ValuesOf(n, client), Authorize(n, v)
      PROVE  ParamsInv'
  BY <1>2, AuthorizeStep
<1>3. CASE aidlKeyParams2Km
  BY <1>3, ConvertStep
<1>4. ASSUME NEW n \in NextTags(km), NEW v \in ValuesOf(n, km), HalAuthorize(n, v)
      PROVE  ParamsInv'
  BY <1>4, HalAuthorizeStep
<1>5. ASSUME NEW format \in {"asn1", "eat"}, NEW ver \in KmVersion, BuildRecord(format, ver)
      PROVE  ParamsInv'
  BY <1>5, RecordStep
<1> QED BY <1>1, <1>2, <1>3, <1>4, <1>5 DEF ParamsNext

(***************************************************************************)
(* ParamsInv holds in every state: whatever parameters the client and the  *)
(* HAL made with their Authorization functions, in any order and number,   *)
(* the keymaster set holds those and no others, and the record is built    *)
(* from it.                                                                *)
(***************************************************************************)
THEOREM ParamsInvariant == ParamsSpec => []ParamsInv
BY ParamsInitInv, ParamsNextInv, PTL DEF ParamsSpec

-----------------------------------------------------------------------------
\* The entries with a tag hold what was put under its name.
LEMMA EntriesOfTag ==
  ASSUME ParamsInv, stage # "client", NEW n \in Real
  PROVE  /\ \A i \in KmEntries(n) : km[i].v \in Put(n) /\ InMember(km[i], n)
         /\ \A x \in Put(n) : \E i \in KmEntries(n) : km[i].v = x
<1>1. \A p \in put : p[1] \in Real /\ p \in Given
  BY DEF ParamsInv, Given
<1>2. ASSUME NEW i \in KmEntries(n) PROVE km[i].v \in Put(n) /\ InMember(km[i], n)
  <2>1. i \in DOMAIN km /\ km[i].tag = Tag[n]
    BY DEF KmEntries
  <2>2. PICK p \in put : IsEntry(km[i], p)
    BY <2>1 DEF ParamsInv
  <2>3. p[1] = n
    BY <1>1, <2>1, <2>2, TagsDiffer DEF IsEntry, Real
  <2> QED BY <2>2, <2>3 DEF IsEntry, Put
<1>3. ASSUME NEW x \in Put(n) PROVE \E i \in KmEntries(n) : km[i].v = x
  <2>1. PICK p \in put : p[1] = n /\ p[2] = x
    BY DEF Put
  <2>2. PICK i \in DOMAIN km : IsEntry(km[i], p)
    BY DEF ParamsInv
  <2> QED BY <2>1, <2>2 DEF IsEntry, KmEntries
<1> QED BY <1>2, <1>3

(***************************************************************************)
(* HalReads: GetTagValue, by the type keymaster_tags.h declares for a tag, *)
(* reads of every entry the member that was written, by Authorization of   *)
(* the same header or by the type in the number of the tag.                *)
(***************************************************************************)
THEOREM HalReadsWhatWasPut == ParamsSpec => []HalReads
<1>1. ParamsInv => HalReads
  <2> SUFFICES ASSUME ParamsInv, stage # "client", NEW n \in Real \cap DeclaredTags
               PROVE  {KmValue(n, i) : i \in KmEntries(n)} = Put(n)
    BY DEF HalReads, Real
  <2>1. \A i \in KmEntries(n) : KmValue(n, i) = km[i].v
    BY MembersAgree, EntriesOfTag DEF KmValue, InMember
  <2> QED BY <2>1, EntriesOfTag
<1> QED BY <1>1, ParamsInvariant, PTL

(***************************************************************************)
(* Attestation records.                                                    *)
(***************************************************************************)
\* Which entries a record takes: none of a silent tag, else all or the last.
LEMMA WhatIsRecorded ==
  ASSUME NEW format \in {"asn1", "eat"}, NEW n \in Real, NEW i, km[i].tag = Tag[n]
  PROVE  Recorded(format, i) <=> n \notin NotAttested[format] /\ (Repeatable(n) \/ IsLast(i))
<1>1. NameOf(km[i].tag) = n
  BY NameOfTag DEF Real
<1>2. CASE format = "eat"
  BY <1>1, <1>2, FieldsOfTags DEF Recorded
<1>3. CASE format = "asn1"
  <2> DEFINE ty == typeFromTag(Tag[n])
             Placed(slot) == n \in KM_AUTH_LIST[slot] /\ ty \in Holds[slot]
  <2>1. Recorded(format, i) <=> \E slot \in DOMAIN KM_AUTH_LIST :
                                  Placed(slot) /\ (slot = "SET_OF_INTEGER" \/ IsLast(i))
    BY <1>1, <1>3, StructIsSequence DEF Recorded, InField
  <2>2. /\ n \in KM_AUTH_LIST["SET_OF_INTEGER"] => ty = "ENUM_REP"
        /\ n \in KM_AUTH_LIST["INTEGER"] => ty \in {"ENUM", "UINT", "ULONG", "DATE"}
        /\ n \in KM_AUTH_LIST["NULL"] => ty = "BOOL"
        /\ n \in KM_AUTH_LIST["OCTET_STRING"] => ty = "BYTES"
    BY FieldTypes DEF Real
  <2>3. Repeatable(n) <=> ty \in {"ENUM_REP", "UINT_REP", "ULONG_REP"}
    BY DEF Repeatable
  <2> HIDE DEF ty
  <2>4. \A slot \in {"SET_OF_INTEGER", "INTEGER", "NULL", "OCTET_STRING"} :
          Placed(slot) <=> n \in KM_AUTH_LIST[slot]
    BY <2>2 DEF Holds
  <2>5. \A slot \in {"SET_OF_INTEGER", "INTEGER", "NULL", "OCTET_STRING"} :
          Placed(slot) => (Repeatable(n) <=> slot = "SET_OF_INTEGER")
    BY <2>2, <2>3 DEF Holds
  <2>6. ~Placed("KM_ROOT_OF_TRUST")
    BY DEF Holds
  <2> HIDE DEF Placed
  <2>7. CASE n \in NotAttested["asn1"]
    <3>1. \A slot \in {"SET_OF_INTEGER", "INTEGER", "NULL", "OCTET_STRING"} : ~Placed(slot)
      BY <2>4, <2>7, FieldsOfTags
    <3>2. \A slot \in DOMAIN KM_AUTH_LIST : ~Placed(slot)
      BY <2>6, <3>1, StructIsSequence
    <3> QED BY <1>3, <2>1, <2>7, <3>2
  <2>8. CASE n \notin NotAttested["asn1"]
    <3>1. PICK slot \in {"SET_OF_INTEGER", "INTEGER", "NULL", "OCTET_STRING"} : Placed(slot)
      BY <2>4, <2>8, FieldsOfTags
    <3>2. slot \in DOMAIN KM_AUTH_LIST
      BY StructIsSequence
    <3>3. Recorded(format, i) => Repeatable(n) \/ IsLast(i)
      BY <2>1, <2>5, <2>6, StructIsSequence
    <3>4. Repeatable(n) \/ IsLast(i) => Recorded(format, i)
      BY <2>1, <2>5, <3>1, <3>2
    <3> QED BY <1>3, <2>8, <3>3, <3>4
  <2> QED BY <2>7, <2>8
<1> QED BY <1>2, <1>3

\* Of the entries with a tag there is a last one.
LEMMA LastEntry ==
  ASSUME ParamsInv, NEW n, KmEntries(n) # {}
  PROVE  \E i \in KmEntries(n) : IsLast(i)
<1> DEFINE S == {Len(km) - i : i \in KmEntries(n)}
<1>1. Len(km) \in Nat /\ DOMAIN km = 1..Len(km)
  BY DEF ParamsInv
<1>2. \A i \in KmEntries(n) : i \in 1..Len(km) /\ km[i].tag = Tag[n]
  BY <1>1 DEF KmEntries
<1>3. S \in SUBSET Nat /\ S # {}
  BY <1>1, <1>2
<1>4. PICK m \in S : \A x \in S : m <= x
  <2> HIDE DEF S
  <2> QED BY <1>3, FirstIsLeast
<1>5. PICK i \in KmEntries(n) : m = Len(km) - i
  BY <1>4
<1>6. ASSUME NEW j \in DOMAIN km, km[j].tag = km[i].tag PROVE j <= i
  <2>1. j \in KmEntries(n) /\ j \in 1..Len(km) /\ i \in 1..Len(km)
    BY <1>1, <1>2, <1>6 DEF KmEntries
  <2>2. Len(km) - i <= Len(km) - j
    BY <1>4, <1>5, <2>1
  <2> QED BY <1>1, <2>1, <2>2
<1> QED BY <1>6 DEF IsLast

\* Under a name with at most one value all entries have the same.
LEMMA OneValue ==
  ASSUME ParamsInv, stage # "client", NEW n \in Real, Cardinality(Put(n)) <= 1
  PROVE  \A x, y \in Put(n) : x = y
<1>1. IsFiniteSet(DOMAIN km)
  <2>1. Len(km) \in Nat /\ DOMAIN km = 1..Len(km)
    BY DEF ParamsInv
  <2>2. IsFiniteSet(1..Len(km))
    BY <2>1, FS_Interval
  <2> QED BY <2>1, <2>2, Zenon
<1>2. IsFiniteSet(KmEntries(n))
  BY <1>1, FS_Subset DEF KmEntries
<1>3. Put(n) = {km[i].v : i \in KmEntries(n)}
  BY EntriesOfTag
<1>4. IsFiniteSet(Put(n))
  <2> DEFINE f == [i \in KmEntries(n) |-> km[i].v]
  <2>1. f \in Surjection(KmEntries(n), Put(n))
    BY <1>3, Fun_IsSurj
  <2> QED BY <1>2, <2>1, FS_Surjection
<1>5. Cardinality(Put(n)) \in Nat
  BY <1>4, FS_CardinalityType
<1>6. Cardinality(Put(n)) = 0 \/ Cardinality(Put(n)) = 1
  BY <1>5
<1> QED BY <1>4, <1>6, FS_EmptySet, FS_Singleton

(***************************************************************************)
(* AttestationFaithful: under every tag a record in either format has what *)
(* was put (every value of a repeatable tag, the one value of another),    *)
(* but nothing of the tags NotAttested lists; no tag is read in the place  *)
(* of another or of a claim that is no tag, and its two version numbers    *)
(* name the version that wrote it.                                         *)
(***************************************************************************)
THEOREM RecordsSayWhatWasPut == ParamsSpec => []AttestationFaithful
<1>1. ParamsInv => AttestationFaithful
  <2> SUFFICES ASSUME ParamsInv, record # NoRecord
               PROVE  /\ \A n \in Real :
                           IF n \in NotAttested[record.format] THEN Extracted(n) = {}
                           ELSE Repeatable(n) \/ Cardinality(Put(n)) <= 1 =>
                                  Extracted(n) = Put(n)
                      /\ \A e \in record.entries : e[1] \notin NonKmClaims
                      /\ \A v \in KmVersion \ {10, 11} :
                           record.version = version_to_attestation_version(v) =>
                             record.km_version = version_to_attestation_km_version(v)
    BY DEF AttestationFaithful, Real
  <2>1. stage # "client"
    BY DEF ParamsInv
  <2>2. PICK format \in {"asn1", "eat"}, u \in KmVersion : record = RecordFrom(format, u)
    BY DEF ParamsInv
  <2>3. /\ record.format = format
        /\ record.version = version_to_attestation_version(u)
        /\ record.km_version = version_to_attestation_km_version(u)
        /\ record.entries = {<<Label(format, km[i].tag), km[i].v>> :
                               i \in {j \in DOMAIN km : Recorded(format, j)}}
    BY <2>2 DEF RecordFrom
  <2>4. \A i \in DOMAIN km : \E m \in Real : km[i].tag = Tag[m]
    <3>1. \A i \in DOMAIN km : km[i] \in KmEntriesSet
      BY DEF ParamsInv
    <3>2. \A e \in KmEntriesSet : e.tag \in {Tag[m] : m \in Real}
      BY DEF KmEntriesSet
    <3> QED BY <3>1, <3>2
  <2>5. ASSUME NEW n \in Real
        PROVE  Extracted(n) = {km[i].v : i \in {j \in KmEntries(n) : Recorded(format, j)}}
    <3>1. \A i \in DOMAIN km : Label(format, km[i].tag) = Label(format, Tag[n])
                                <=> i \in KmEntries(n)
      BY <2>4, AttestationLabelsDiffer DEF KmEntries, Real
    <3>2. ASSUME NEW i \in KmEntries(n), Recorded(format, i) PROVE km[i].v \in Extracted(n)
      <4> DEFINE e == <<Label(format, km[i].tag), km[i].v>>
      <4>1. i \in DOMAIN km
        BY DEF KmEntries
      <4>2. e \in record.entries /\ e[1] = Label(record.format, Tag[n]) /\ e[2] = km[i].v
        BY <2>3, <3>1, <3>2, <4>1
      <4> QED BY <4>2 DEF Extracted
    <3>3. ASSUME NEW x \in Extracted(n)
          PROVE  \E i \in KmEntries(n) : Recorded(format, i) /\ km[i].v = x
      <4>1. PICK e \in record.entries : e[1] = Label(format, Tag[n]) /\ e[2] = x
        BY <2>3 DEF Extracted
      <4>2. PICK i \in DOMAIN km : Recorded(format, i) /\ e = <<Label(format, km[i].tag), km[i].v>>
        BY <2>3
      <4>3. i \in KmEntries(n) /\ km[i].v = x
        BY <3>1, <4>1, <4>2
      <4> QED BY <4>2, <4>3
    <3> QED BY <3>2, <3>3
  <2>6. ASSUME NEW n \in Real
        PROVE  IF n \in NotAttested[record.format] THEN Extracted(n) = {}
               ELSE Repeatable(n) \/ Cardinality(Put(n)) <= 1 => Extracted(n) = Put(n)
    <3>1. \A i \in KmEntries(n) :
            Recorded(format, i) <=> n \notin NotAttested[format] /\ (Repeatable(n) \/ IsLast(i))
      BY WhatIsRecorded DEF KmEntries
    <3>2. CASE n \in NotAttested[format]
      BY <2>3, <2>5, <3>1, <3>2
    <3>3. CASE n \notin NotAttested[format] /\ Repeatable(n)
      <4>1. Extracted(n) = {km[i].v : i \in KmEntries(n)}
        BY <2>5, <3>1, <3>3
      <4>2. Extracted(n) = Put(n)
        BY <2>1, <4>1, EntriesOfTag
      <4> QED BY <2>3, <3>3, <4>2
    <3>4. CASE n \notin NotAttested[format] /\ ~Repeatable(n) /\ Cardinality(Put(n)) <= 1
      <4>1. \A x \in Extracted(n) : x \in Put(n)
        BY <2>1, <2>5, EntriesOfTag
      <4>2. ASSUME NEW x \in Put(n) PROVE x \in Extracted(n)
        <5>1. KmEntries(n) # {}
          BY <2>1, EntriesOfTag
        <5>2. PICK i \in KmEntries(n) : IsLast(i)
          BY <5>1, LastEntry
        <5>3. km[i].v \in Extracted(n) /\ km[i].v \in Put(n)
          BY <2>1, <2>5, <3>1, <3>4, <5>2, EntriesOfTag
        <5> QED BY <2>1, <3>4, <5>3, OneValue
      <4>3. Extracted(n) = Put(n)
        BY <4>1, <4>2
      <4> QED BY <2>3, <3>4, <4>3
    <3> QED BY <2>3, <3>2, <3>3, <3>4
  <2>7. \A e \in record.entries : e[1] \notin NonKmClaims
    BY <2>3, <2>4, AttestationLabelsDiffer DEF Real
  <2>8. \A v \in KmVersion \ {10, 11} :
          record.version = version_to_attestation_version(v) =>
            record.km_version = version_to_attestation_km_version(v)
    BY <2>3, VersionsNamed
  <2> QED BY <2>6, <2>7, <2>8
<1> QED BY <1>1, ParamsInvariant, PTL
=============================================================================
