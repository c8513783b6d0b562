-------------------------- MODULE OwnedMemoryProofs --------------------------
(***************************************************************************)
(* Proofs about the objects that own key material and certificates: each   *)
(* allocation has one owner, and what a blob frees has been wiped, for     *)
(* every number of objects, size of the heap and of the buffers.           *)
(***************************************************************************)
EXTENDS OwnedBlobs, KmResult, FiniteSetTheorems, WellFoundedInduction, TLAPS

(***************************************************************************)
(* The inductive invariant.  A blob that has data knows its size: only     *)
(* then does memset_s reach the end of the buffer.                         *)
(***************************************************************************)
Heaps == [Addrs -> [live : BOOLEAN, size : Nat, dirty : BOOLEAN]]

TypeInv ==
  /\ heap \in Heaps
  /\ blob \in [Blobs -> [data : Ptrs, size : Nat]]
  /\ chain \in [Chains -> [entries : Ptrs, certs : Seq(Ptrs)]]
  /\ raw \subseteq Addrs

SizeInv ==
  \A b \in Blobs : blob[b].data # nullptr => blob[b].size = heap[blob[b].data].size

Inv == TypeInv /\ OwnedOnce /\ SizeInv /\ FreedIsWiped

-----------------------------------------------------------------------------
(***************************************************************************)
(* The allocator and the three ways to free, on a heap.                    *)
(***************************************************************************)
Live(h) == {a \in Addrs : h[a].live}
Wiped(h) == \A a \in Addrs : ~h[a].live => ~h[a].dirty
Real(a) == {a} \ {nullptr}

\* A new allocation takes an address that was free and leaves the others.
LEMMA NewTakes ==
  ASSUME NEW h \in Heaps, NEW a, a = nullptr \/ a \in FreeAddrs(h), NEW n \in Nat, NEW d \in BOOLEAN
  PROVE  /\ New(h, a, n, d) \in Heaps
         /\ Real(a) \subseteq Addrs /\ Real(a) \cap Live(h) = {}
         /\ Live(New(h, a, n, d)) = Live(h) \cup Real(a)
         /\ \A c \in Addrs \ Real(a) : New(h, a, n, d)[c] = h[c]
         /\ a # nullptr => New(h, a, n, d)[a].size = n
         /\ Wiped(h) => Wiped(New(h, a, n, d))
BY AddrsAssumption DEF Heaps, FreeAddrs, New, Live, Wiped, Real, nullptr

\* Freeing a buffer of b.size bytes or fewer leaves no key bytes in it.
LEMMA DeleteBlobFrees ==
  ASSUME heap \in Heaps, NEW b \in [data : Ptrs, size : Nat],
         b.data # nullptr => b.size = heap[b.data].size
  PROVE  /\ DeleteBlob(heap, b) \in Heaps
         /\ Live(DeleteBlob(heap, b)) = Live(heap) \ Real(b.data)
         /\ \A c \in Addrs \ Real(b.data) : DeleteBlob(heap, b)[c] = heap[c]
         /\ Wiped(heap) => Wiped(DeleteBlob(heap, b))
<1>1. CASE b.data = nullptr
  BY <1>1 DEF DeleteBlob, Live, Wiped, Real
<1>2. CASE b.data # nullptr
  <2>1. b.data \in Addrs /\ Real(b.data) = {b.data}
    BY <1>2 DEF Ptrs, Real
  <2>2. ~(b.size < heap[b.data].size)
    BY <1>2, <2>1 DEF Heaps
  <2>3. DeleteBlob(heap, b)
          = [heap EXCEPT ![b.data] = [live |-> FALSE, size |-> 0, dirty |-> FALSE]]
    BY <1>2, <2>2 DEF DeleteBlob
  <2> QED BY <2>1, <2>3 DEF Heaps, Live, Wiped
<1> QED BY <1>1, <1>2

LEMMA DeleteAllFrees ==
  ASSUME NEW h \in Heaps, NEW S
  PROVE  /\ DeleteAll(h, S) \in Heaps
         /\ Live(DeleteAll(h, S)) = Live(h) \ S
         /\ \A c \in Addrs \ S : DeleteAll(h, S)[c] = h[c]
         /\ Wiped(h) => Wiped(DeleteAll(h, S))
BY DEF Heaps, DeleteAll, Free, Live, Wiped

-----------------------------------------------------------------------------
(***************************************************************************)
(* Who owns what.                                                          *)
(***************************************************************************)
ChainOk(ch) ==
  /\ ch.entries = nullptr => ch.certs = << >>
  /\ \A i, m \in DOMAIN ch.certs : ch.certs[i] = ch.certs[m] /\ i # m => ch.certs[i] = nullptr
  /\ \A i \in DOMAIN ch.certs : ch.certs[i] # nullptr => ch.certs[i] # ch.entries

\* OwnedOnce in terms of the sets of addresses.
Partition ==
  /\ \A a \in Addrs : a \in Live(heap) <=>
        \/ a \in raw
        \/ \E b \in Blobs : a \in BlobOwned(b)
        \/ \E k \in Chains : a \in AddrsOf(chain[k])
  /\ \A b, c \in Blobs : b # c => BlobOwned(b) \cap BlobOwned(c) = {}
  /\ \A k, j \in Chains : k # j => AddrsOf(chain[k]) \cap AddrsOf(chain[j]) = {}
  /\ \A b \in Blobs : BlobOwned(b) \cap raw = {}
  /\ \A k \in Chains : AddrsOf(chain[k]) \cap raw = {}
  /\ \A k \in Chains, b \in Blobs : AddrsOf(chain[k]) \cap BlobOwned(b) = {}

LEMMA OwnedAddrs ==
  ASSUME TypeInv
  PROVE  /\ \A b \in Blobs : BlobOwned(b) = Real(blob[b].data) /\ BlobOwned(b) \subseteq Addrs
         /\ \A k \in Chains : AddrsOf(chain[k]) \subseteq Addrs
<1>1. ASSUME NEW b \in Blobs
      PROVE  BlobOwned(b) = Real(blob[b].data) /\ BlobOwned(b) \subseteq Addrs
  BY DEF TypeInv, Ptrs, BlobOwned, Real
<1>2. ASSUME NEW k \in Chains PROVE AddrsOf(chain[k]) \subseteq Addrs
  <2> DEFINE ch == chain[k]
  <2>1. ch.entries \in Ptrs /\ ch.certs \in Seq(Ptrs)
    BY DEF TypeInv
  <2> HIDE DEF ch
  <2>2. \A i \in DOMAIN ch.certs : ch.certs[i] \in Ptrs
    BY <2>1
  <2>3. AddrsOf(ch) \subseteq Addrs
    BY <2>1, <2>2 DEF AddrsOf, CertsOf, Ptrs
  <2> QED BY <2>3 DEF ch
<1> QED BY <1>1, <1>2

LEMMA OwnedOnceIsPartition ==
  ASSUME TypeInv
  PROVE  OwnedOnce <=> Partition /\ \A k \in Chains : ChainOk(chain[k])
<1>1. \A a \in Addrs : heap[a].live <=> a \in Live(heap)
  BY DEF Live
<1> QED BY <1>1 DEF OwnedOnce, Partition, ChainOk

\* One blob changes: it frees what it had and holds what was free, if
\* anything.
LEMMA OneBlobChanges ==
  ASSUME TypeInv, TypeInv', Partition, NEW b \in Blobs,
         chain' = chain, raw' = raw,
         \A c \in Blobs \ {b} : blob'[c] = blob[c],
         Live(heap') = (Live(heap) \ Real(blob[b].data)) \cup Real(blob'[b].data),
         Real(blob'[b].data) \cap (Live(heap) \ Real(blob[b].data)) = {}
  PROVE  Partition'
<1>1. /\ \A c \in Blobs : BlobOwned(c) = Real(blob[c].data) /\ BlobOwned(c)' = Real(blob'[c].data)
      /\ \A c \in Blobs \ {b} : BlobOwned(c)' = BlobOwned(c)
      /\ \A k \in Chains : AddrsOf(chain[k])' = AddrsOf(chain[k])
  BY DEF BlobOwned, Real
<1>2. /\ \A c \in Blobs : BlobOwned(c) \subseteq Addrs /\ BlobOwned(c)' \subseteq Addrs
      /\ \A k \in Chains : AddrsOf(chain[k]) \subseteq Addrs
  BY OwnedAddrs DEF TypeInv, BlobOwned, Ptrs
<1>3. /\ Live(heap)' = (Live(heap) \ BlobOwned(b)) \cup BlobOwned(b)'
      /\ BlobOwned(b)' \cap (Live(heap) \ BlobOwned(b)) = {}
      /\ raw \subseteq Addrs
  BY <1>1 DEF Live, TypeInv
<1> HIDE DEF TypeInv
<1> QED BY <1>1, <1>2, <1>3 DEF Partition

LEMMA OneChainChanges ==
  ASSUME TypeInv, TypeInv', Partition, NEW k \in Chains,
         blob' = blob, raw' = raw,
         \A j \in Chains \ {k} : chain'[j] = chain[j],
         Live(heap') = (Live(heap) \ AddrsOf(chain[k])) \cup AddrsOf(chain'[k]),
         AddrsOf(chain'[k]) \cap (Live(heap) \ AddrsOf(chain[k])) = {}
  PROVE  Partition'
<1>1. /\ \A c \in Blobs : BlobOwned(c)' = BlobOwned(c) /\ BlobOwned(c) \subseteq Addrs
      /\ \A j \in Chains \ {k} : AddrsOf(chain[j])' = AddrsOf(chain[j])
      /\ AddrsOf(chain[k])' = AddrsOf(chain'[k])
      /\ \A j \in Chains : AddrsOf(chain[j]) \subseteq Addrs
      /\ raw \subseteq Addrs
      /\ Live(heap)' = Live(heap')
  BY OwnedAddrs DEF BlobOwned, TypeInv, AddrsOf, CertsOf, Live
<1> HIDE DEF TypeInv
<1> QED BY <1>1 DEF Partition

-----------------------------------------------------------------------------
LEMMA InvParts ==
  Inv => /\ TypeInv /\ Partition /\ SizeInv /\ Wiped(heap)
         /\ \A k \in Chains : ChainOk(chain[k])
BY OwnedOnceIsPartition DEF Inv, FreedIsWiped, Wiped

LEMMA InvFromParts ==
  ASSUME TypeInv', Partition', SizeInv', Wiped(heap'), \A k \in Chains : ChainOk(chain'[k])
  PROVE  Inv'
<1>1. OwnedOnce'
  <2>1. \A k \in Chains : ChainOk(chain[k])'
    BY DEF ChainOk
  <2>2. (TypeInv => (OwnedOnce <=> Partition /\ \A k \in Chains : ChainOk(chain[k])))'
    BY OwnedOnceIsPartition, PTL
  <2> QED BY <2>1, <2>2
<1>2. FreedIsWiped'
  BY DEF FreedIsWiped, Wiped
<1> QED BY <1>1, <1>2 DEF Inv

\* The buffers of the other blobs are where they were.
LEMMA SizesKept ==
  ASSUME TypeInv, Partition, SizeInv, NEW b \in Blobs,
         \A c \in Blobs \ {b} : blob'[c] = blob[c],
         \A x \in Live(heap) \ Real(blob[b].data) : heap'[x] = heap[x],
         blob'[b].data # nullptr => blob'[b].size = heap'[blob'[b].data].size
  PROVE  SizeInv'
<1> SUFFICES ASSUME NEW c \in Blobs \ {b}, blob[c].data # nullptr
             PROVE  blob[c].size = heap'[blob[c].data].size
  BY DEF SizeInv
<1>1. blob[c].data \in BlobOwned(c) /\ BlobOwned(b) = Real(blob[b].data)
  BY DEF BlobOwned, Real
<1>2. blob[c].data \in Live(heap) /\ blob[c].data \notin Real(blob[b].data)
  BY <1>1, OwnedAddrs DEF Partition
<1> QED BY <1>2 DEF SizeInv

\* Free what a blob has, then give it n fresh bytes or none: what every
\* constructor, assignment and reset of a TKeymasterBlob comes to.
LEMMA Refilled ==
  ASSUME Inv, NEW b \in Blobs, NEW a \in Ptrs, NEW n \in Nat, NEW s \in Nat,
         Allocates(DeleteBlob(heap, blob[b]), a),
         heap' = New(DeleteBlob(heap, blob[b]), a, n, n > 0),
         blob' = [blob EXCEPT ![b] = [data |-> a, size |-> s]],
         a # nullptr => s = n,
         chain' = chain, raw' = raw
  PROVE  Inv'
<1> DEFINE h == DeleteBlob(heap, blob[b])
           old == Real(blob[b].data)
<1>0. TypeInv /\ Partition /\ SizeInv /\ Wiped(heap) /\ \A k \in Chains : ChainOk(chain[k])
  BY InvParts
<1>1. heap \in Heaps /\ blob[b] \in [data : Ptrs, size : Nat]
      /\ (blob[b].data # nullptr => blob[b].size = heap[blob[b].data].size)
  BY <1>0 DEF TypeInv, SizeInv
<1>2. /\ h \in Heaps
      /\ Live(h) = Live(heap) \ old
      /\ \A c \in Addrs \ old : h[c] = heap[c]
      /\ Wiped(h)
  BY <1>0, <1>1, DeleteBlobFrees
<1> HIDE DEF h
<1>3. /\ heap' \in Heaps
      /\ Real(a) \cap Live(h) = {}
      /\ Live(heap') = Live(h) \cup Real(a)
      /\ \A c \in Addrs \ Real(a) : heap'[c] = h[c]
      /\ a # nullptr => heap'[a].size = n
      /\ Wiped(heap')
  <2> DEFINE d == n > 0
  <2>1. (a = nullptr \/ a \in FreeAddrs(h)) /\ heap' = New(h, a, n, d)
    BY DEF h, Allocates
  <2>2. d \in BOOLEAN
    OBVIOUS
  <2> HIDE DEF d
  <2> QED BY <1>2, <2>1, <2>2, NewTakes
<1>4. blob'[b] = [data |-> a, size |-> s] /\ \A c \in Blobs \ {b} : blob'[c] = blob[c]
  BY <1>0 DEF TypeInv
<1>5. TypeInv'
  BY <1>0, <1>3 DEF TypeInv
<1>6. Partition'
  BY <1>0, <1>2, <1>3, <1>4, <1>5, OneBlobChanges
<1>7. SizeInv'
  <2>1. \A x \in Live(heap) \ old : heap'[x] = heap[x]
    BY <1>2, <1>3 DEF Live
  <2>2. blob'[b].data # nullptr => blob'[b].size = heap'[blob'[b].data].size
    BY <1>3, <1>4
  <2> HIDE DEF old
  <2> QED BY <1>0, <1>4, <2>1, <2>2, SizesKept DEF old
<1> QED BY <1>0, <1>3, <1>5, <1>6, <1>7, InvFromParts

\* Free all a chain has; what it then holds was free.
LEMMA Rebuilt ==
  ASSUME Inv, NEW k \in Chains,
         heap' \in Heaps, chain' \in [Chains -> [entries : Ptrs, certs : Seq(Ptrs)]],
         \A j \in Chains \ {k} : chain'[j] = chain[j],
         Live(heap') = (Live(heap) \ AddrsOf(chain[k])) \cup AddrsOf(chain'[k]),
         AddrsOf(chain'[k]) \cap (Live(heap) \ AddrsOf(chain[k])) = {},
         \A x \in Live(heap) \ AddrsOf(chain[k]) : heap'[x] = heap[x],
         Wiped(heap'), ChainOk(chain'[k]),
         blob' = blob, raw' = raw
  PROVE  Inv'
<1>0. TypeInv /\ Partition /\ SizeInv /\ \A j \in Chains : ChainOk(chain[j])
  BY InvParts
<1>1. TypeInv'
  BY <1>0 DEF TypeInv
<1>2. Partition'
  BY <1>0, <1>1, OneChainChanges
<1>3. SizeInv'
  <2> SUFFICES ASSUME NEW c \in Blobs, blob[c].data # nullptr
               PROVE  blob[c].size = heap'[blob[c].data].size
    BY DEF SizeInv
  <2>1. blob[c].data \in Live(heap) \ AddrsOf(chain[k])
    BY <1>0, OwnedAddrs DEF Partition, BlobOwned, Real
  <2> QED BY <1>0, <2>1 DEF SizeInv
<1>4. \A j \in Chains : ChainOk(chain'[j])
  BY <1>0
<1> QED BY <1>1, <1>2, <1>3, <1>4, InvFromParts

-----------------------------------------------------------------------------
(***************************************************************************)
(* The addresses that n allocations in a row are given.                    *)
(***************************************************************************)
Below(F, a) == {c \in F : c < a}

LEMMA NatMinimum ==
  ASSUME NEW S \in SUBSET Nat, S # {}
  PROVE  \E m \in S : \A x \in S : m <= x
<1>1. PICK m \in S : \A x \in S : ~(<<x, m>> \in OpToRel(<, Nat))
  BY NatLessThanWellFounded, WFMin
<1>2. ASSUME NEW x \in S, ~(m <= x) PROVE FALSE
  <2>1. x \in Nat /\ m \in Nat
    OBVIOUS
  <2>2. x < m
    BY <1>2, <2>1
  <2>3. <<x, m>> \in OpToRel(<, Nat)
    BY <2>1, <2>2 DEF OpToRel
  <2> QED BY <1>1, <2>3
<1> QED BY <1>2

\* A greater element has more elements below it.
LEMMA BelowGrows ==
  ASSUME NEW F \in SUBSET Nat, IsFiniteSet(F), NEW a \in F
  PROVE  /\ IsFiniteSet(Below(F, a))
         /\ Cardinality(Below(F, a)) \in Nat
         /\ \A b \in F : a < b => Cardinality(Below(F, a)) < Cardinality(Below(F, b))
<1>n. \A b \in F : b \in Nat
  OBVIOUS
<1>1. \A b \in F : IsFiniteSet(Below(F, b)) /\ Cardinality(Below(F, b)) \in Nat
  BY FS_Subset, FS_CardinalityType DEF Below
<1>2. ASSUME NEW b \in F, a < b
      PROVE  Cardinality(Below(F, a)) < Cardinality(Below(F, b))
  <2>1. Below(F, a) \cup {a} \in SUBSET Below(F, b) /\ a \notin Below(F, a)
    <3>1. \A x \in F : x < a => x < b
      BY <1>n, <1>2
    <3>2. ~(a < a)
      BY <1>n
    <3> QED BY <1>2, <3>1, <3>2 DEF Below
  <2>2. Cardinality(Below(F, a) \cup {a}) = Cardinality(Below(F, a)) + 1
    BY <1>1, <2>1, FS_AddElement
  <2>3. Cardinality(Below(F, a) \cup {a}) <= Cardinality(Below(F, b))
    BY <1>1, <2>1, FS_Subset
  <2> QED BY <1>1, <2>2, <2>3
<1> QED BY <1>1, <1>2

LEMMA FiniteMaximum ==
  ASSUME NEW F \in SUBSET Nat, IsFiniteSet(F), F # {}
  PROVE  \E m \in F : \A x \in F : x <= m
<1> DEFINE c(a) == Cardinality(Below(F, a))
           T == {Cardinality(F) - c(a) : a \in F}
<1>1. \A a \in F : c(a) \in Nat /\ c(a) <= Cardinality(F) /\ Cardinality(F) \in Nat
  BY BelowGrows, FS_Subset, FS_CardinalityType DEF Below
<1>2. \A a, b \in F : a < b => c(a) < c(b)
  BY BelowGrows
<1>n. \A a \in F : a \in Nat
  OBVIOUS
<1> HIDE DEF c
<1>3. T \in SUBSET Nat /\ T # {}
  <2>1. \A a \in F : Cardinality(F) - c(a) \in Nat
    BY <1>1
  <2> QED BY <2>1
<1>4. PICK t \in T : \A x \in T : t <= x
  BY <1>3, NatMinimum
<1>5. PICK m \in F : t = Cardinality(F) - c(m)
  BY <1>4
<1>6. ASSUME NEW x \in F PROVE x <= m
  <2>1. t <= Cardinality(F) - c(x)
    BY <1>4
  <2>2. ~(c(m) < c(x))
    BY <1>1, <1>5, <2>1
  <2>3. ~(m < x)
    BY <1>2, <2>2
  <2>4. x \in Nat /\ m \in Nat
    BY <1>n
  <2> HIDE DEF T
  <2> QED BY <2>3, <2>4
<1> QED BY <1>6

LEMMA RankedElement ==
  ASSUME NEW F \in SUBSET Nat, IsFiniteSet(F), NEW n \in 1..Cardinality(F)
  PROVE  \E a \in F : Cardinality(Below(F, a)) = n - 1
<1> DEFINE c(a) == Cardinality(Below(F, a))
           G == {a \in F : n - 1 <= c(a)}
<1>0. Cardinality(F) \in Nat /\ n \in Nat /\ 1 <= n /\ n <= Cardinality(F)
  BY FS_CardinalityType
<1>1. \A a \in F : c(a) \in Nat /\ IsFiniteSet(Below(F, a))
  BY BelowGrows
<1>n. \A a \in F : a \in Nat
  OBVIOUS
<1>2. G # {}
  <2>1. F # {}
    BY <1>0, FS_EmptySet
  <2>2. PICK m \in F : \A x \in F : x <= m
    BY <2>1, FiniteMaximum
  <2>3. Below(F, m) = F \ {m}
    <3>1. \A x \in F : x < m <=> x # m
      BY <1>n, <2>2
    <3> QED BY <3>1 DEF Below
  <2>4. c(m) = Cardinality(F) - 1
    BY <2>3, FS_RemoveElement
  <2> QED BY <1>0, <2>4
<1>3. PICK a \in G : \A x \in G : a <= x
  BY <1>2, NatMinimum
<1>4. CASE n - 1 < c(a)
  <2>1. Below(F, a) # {} /\ Below(F, a) \in SUBSET Nat
    <3>1. c(a) # 0
      BY <1>0, <1>1, <1>4
    <3>2. Below(F, a) # {}
      BY <1>1, <3>1, FS_EmptySet
    <3> QED BY <1>n, <3>2 DEF Below
  <2>2. PICK p \in Below(F, a) : \A x \in Below(F, a) : x <= p
    BY <1>1, <2>1, FiniteMaximum
  <2>3. p \in F /\ p < a /\ Below(F, p) = Below(F, a) \ {p}
    <3>1. p \in F /\ p < a
      BY DEF Below
    <3>2. \A x \in F : x < p => x < a
      BY <1>n, <3>1
    <3>3. \A x \in F : x < a /\ x # p => x < p
      BY <1>n, <2>2, <3>1 DEF Below
    <3>4. ~(p < p)
      BY <1>n, <3>1
    <3> QED BY <3>1, <3>2, <3>3, <3>4 DEF Below
  <2>4. c(p) = c(a) - 1
    <3> DEFINE D == Below(F, a)
    <3>1. IsFiniteSet(D) /\ p \in D
      BY <1>1
    <3> HIDE DEF D
    <3>2. Cardinality(D \ {p}) = Cardinality(D) - 1
      BY <3>1, FS_RemoveElement
    <3> QED BY <2>3, <3>2 DEF D
  <2>5. n - 1 <= c(p)
    BY <1>0, <1>1, <1>4, <2>4
  <2>6. a <= p
    BY <1>3, <2>3, <2>5
  <2> QED BY <1>n, <2>3, <2>6
<1>5. CASE ~(n - 1 < c(a))
  BY <1>0, <1>1, <1>3, <1>5
<1> QED BY <1>4, <1>5

\* The n lowest free addresses are n different ones.
LEMMA LowestAreFree ==
  ASSUME TypeInv, NEW n \in Nat, n <= Cardinality(FreeAddrs(heap))
  PROVE  /\ LowestFree(n) \in Seq(Addrs) /\ Len(LowestFree(n)) = n
         /\ \A i \in 1..n : LowestFree(n)[i] \in FreeAddrs(heap)
         /\ \A i, m \in 1..n : i # m => LowestFree(n)[i] # LowestFree(n)[m]
<1> DEFINE F == FreeAddrs(heap)
           f == LowestFree(n)
<1>1. F \in SUBSET Nat /\ IsFiniteSet(F) /\ Cardinality(F) \in Nat
  BY AddrsAssumption, FS_Subset, FS_CardinalityType DEF FreeAddrs
<1>2. f = [i \in 1..n |-> CHOOSE a \in F : Cardinality(Below(F, a)) = i - 1]
  BY DEF LowestFree, Below
<1> HIDE DEF f
<1>3. F \subseteq Addrs
  BY DEF FreeAddrs
<1> HIDE DEF F
<1>4. ASSUME NEW i \in 1..n PROVE f[i] \in F /\ Cardinality(Below(F, f[i])) = i - 1
  <2>1. i \in 1..Cardinality(F)
    BY <1>1 DEF F
  <2>2. \E a \in F : Cardinality(Below(F, a)) = i - 1
    BY <1>1, <2>1, RankedElement
  <2> QED BY <1>2, <2>2
<1>5. f \in Seq(Addrs) /\ Len(f) = n
  BY <1>2, <1>3, <1>4
<1>6. \A i, m \in 1..n : i # m => f[i] # f[m]
  BY <1>4
<1> QED BY <1>4, <1>5, <1>6 DEF f, F

-----------------------------------------------------------------------------
LEMMA InitInv == BlobInit => Inv
<1> SUFFICES ASSUME BlobInit PROVE Inv
  OBVIOUS
<1>1. TypeInv
  BY DEF BlobInit, TypeInv, Heaps, Free, EmptyBlob, EmptyChain, Ptrs
<1>2. OwnedOnce
  BY DEF BlobInit, OwnedOnce, Free, EmptyBlob, EmptyChain, BlobOwned, AddrsOf, CertsOf
<1>3. SizeInv /\ FreedIsWiped
  BY DEF BlobInit, SizeInv, FreedIsWiped, Free, EmptyBlob
<1> QED BY <1>1, <1>2, <1>3 DEF Inv

\* The actions of TKeymasterBlob.
LEMMA BlobStep ==
  ASSUME Inv, NEW b \in Blobs, NEW a \in Ptrs
  PROVE  /\ \A n \in Sizes : Construct(b, n, a) \/ Reset(b, n, a) => Inv'
         /\ \A c \in Blobs : CopyConstruct(b, c, a) \/ CopyAssign(b, c, a) => Inv'
         /\ Clear(b) => Inv'
<1>0. TypeInv
  BY InvParts
<1>1. blob[b] = EmptyBlob => DeleteBlob(heap, blob[b]) = heap
  BY DEF DeleteBlob, EmptyBlob
<1>2. ASSUME NEW n \in Sizes, Construct(b, n, a) PROVE Inv'
  <2>1. n \in Nat
    BY SizesAssumption
  <2> DEFINE s == IF a = nullptr THEN 0 ELSE n
  <2>2. /\ s \in Nat /\ (a # nullptr => s = n)
        /\ blob' = [blob EXCEPT ![b] = [data |-> a, size |-> s]]
        /\ Allocates(DeleteBlob(heap, blob[b]), a)
        /\ heap' = New(DeleteBlob(heap, blob[b]), a, n, n > 0)
        /\ chain' = chain /\ raw' = raw
    BY <1>1, <1>2, <2>1 DEF Construct, Sized
  <2> HIDE DEF s
  <2> QED BY <2>1, <2>2, Refilled
<1>3. ASSUME NEW n \in Sizes, Reset(b, n, a) PROVE Inv'
  <2>1. n \in Nat
    BY SizesAssumption
  <2> DEFINE s == IF a = nullptr THEN 0 ELSE n
  <2>2. /\ s \in Nat /\ (a # nullptr => s = n)
        /\ blob' = [blob EXCEPT ![b] = [data |-> a, size |-> s]]
        /\ Allocates(DeleteBlob(heap, blob[b]), a)
        /\ heap' = New(DeleteBlob(heap, blob[b]), a, n, n > 0)
        /\ chain' = chain /\ raw' = raw
    BY <1>3, <2>1 DEF Reset, Sized
  <2> HIDE DEF s
  <2> QED BY <2>1, <2>2, Refilled
<1>4. ASSUME NEW c \in Blobs, CopyConstruct(b, c, a) PROVE Inv'
  <2> DEFINE n == blob[c].size
             s == IF a = nullptr THEN 0 ELSE n
  <2>1. n \in Nat
    BY <1>0 DEF TypeInv
  <2>2. /\ s \in Nat /\ (a # nullptr => s = n)
        /\ blob' = [blob EXCEPT ![b] = [data |-> a, size |-> s]]
        /\ Allocates(DeleteBlob(heap, blob[b]), a)
        /\ heap' = New(DeleteBlob(heap, blob[b]), a, n, n > 0)
        /\ chain' = chain /\ raw' = raw
    BY <1>1, <1>4, <2>1 DEF CopyConstruct, Sized
  <2> HIDE DEF s, n
  <2> QED BY <2>1, <2>2, Refilled
<1>5. ASSUME NEW c \in Blobs, CopyAssign(b, c, a) PROVE Inv'
  <2> DEFINE n == blob[c].size
  <2>1. n \in Nat
    BY <1>0 DEF TypeInv
  <2>2. /\ blob' = [blob EXCEPT ![b] = [data |-> a, size |-> n]]
        /\ Allocates(DeleteBlob(heap, blob[b]), a)
        /\ heap' = New(DeleteBlob(heap, blob[b]), a, n, n > 0)
        /\ chain' = chain /\ raw' = raw
    BY <1>5 DEF CopyAssign
  <2> HIDE DEF n
  <2> QED BY <2>1, <2>2, Refilled
<1>6. ASSUME Clear(b) PROVE Inv'
  <2>1. /\ nullptr \in Ptrs /\ 0 \in Nat
        /\ blob' = [blob EXCEPT ![b] = [data |-> nullptr, size |-> 0]]
        /\ Allocates(DeleteBlob(heap, blob[b]), nullptr)
        /\ heap' = New(DeleteBlob(heap, blob[b]), nullptr, 0, 0 > 0)
        /\ chain' = chain /\ raw' = raw
    BY <1>6 DEF Clear, EmptyBlob, Allocates, New, Ptrs
  <2> QED BY <2>1, Refilled
<1> QED BY <1>2, <1>3, <1>4, <1>5, <1>6

LEMMA MoveStep ==
  ASSUME Inv, NEW b \in Blobs, NEW c \in Blobs, MoveAssign(b, c)
  PROVE  Inv'
<1>0. TypeInv /\ Partition /\ SizeInv /\ Wiped(heap) /\ \A k \in Chains : ChainOk(chain[k])
  BY InvParts
<1>1. /\ b # c
      /\ heap' = DeleteBlob(heap, blob[b])
      /\ chain' = chain /\ raw' = raw
      /\ blob'[b] = blob[c] /\ blob'[c] = EmptyBlob
      /\ \A q \in Blobs \ {b, c} : blob'[q] = blob[q]
  BY <1>0 DEF MoveAssign, TypeInv
<1>2. blob[b] \in [data : Ptrs, size : Nat]
      /\ (blob[b].data # nullptr => blob[b].size = heap[blob[b].data].size)
  BY <1>0 DEF TypeInv, SizeInv
<1>3. /\ heap' \in Heaps
      /\ Live(heap') = Live(heap) \ Real(blob[b].data)
      /\ \A x \in Addrs \ Real(blob[b].data) : heap'[x] = heap[x]
      /\ Wiped(heap')
  BY <1>0, <1>1, <1>2, DeleteBlobFrees DEF TypeInv
<1>4. TypeInv'
  <2>1. blob' = [blob EXCEPT ![b] = blob[c], ![c] = EmptyBlob]
    BY DEF MoveAssign
  <2>2. EmptyBlob \in [data : Ptrs, size : Nat]
    BY DEF EmptyBlob, Ptrs
  <2> QED BY <1>0, <1>1, <1>3, <2>1, <2>2 DEF TypeInv
<1>5. /\ BlobOwned(b)' = BlobOwned(c) /\ BlobOwned(c)' = {}
      /\ \A q \in Blobs \ {b, c} : BlobOwned(q)' = BlobOwned(q)
      /\ \A k \in Chains : AddrsOf(chain[k])' = AddrsOf(chain[k])
      /\ Live(heap)' = Live(heap) \ BlobOwned(b)
  BY <1>1, <1>3 DEF BlobOwned, EmptyBlob, AddrsOf, CertsOf, Live, Real
<1>6. Partition'
  BY <1>0, <1>1, <1>5 DEF Partition
<1>7. SizeInv'
  <2>1. ASSUME NEW q \in Blobs \ {b}, blob[q].data # nullptr
        PROVE  heap'[blob[q].data].size = blob[q].size
    <3>1. blob[q].data \in Live(heap) /\ blob[q].data \notin Real(blob[b].data)
      BY <1>0, <2>1, OwnedAddrs DEF Partition, BlobOwned, Real
    <3> QED BY <1>0, <1>3, <2>1, <3>1 DEF SizeInv, Live
  <2> QED BY <1>1, <2>1 DEF SizeInv, EmptyBlob
<1> QED BY <1>0, <1>1, <1>3, <1>4, <1>6, <1>7, InvFromParts

LEMMA ReleaseStep ==
  ASSUME Inv, NEW b \in Blobs, Release(b)
  PROVE  Inv'
<1>0. TypeInv /\ Partition /\ SizeInv /\ Wiped(heap) /\ \A k \in Chains : ChainOk(chain[k])
  BY InvParts
<1>1. /\ heap' = heap /\ chain' = chain
      /\ raw' = raw \cup {blob[b].data} /\ blob[b].data # nullptr
      /\ blob' = [blob EXCEPT ![b] = EmptyBlob] /\ blob'[b] = EmptyBlob
      /\ \A q \in Blobs \ {b} : blob'[q] = blob[q]
  BY <1>0 DEF Release, TypeInv
<1>2. TypeInv'
  <2>1. EmptyBlob \in [data : Ptrs, size : Nat] /\ blob[b].data \in Addrs
    BY <1>0, <1>1 DEF EmptyBlob, Ptrs, TypeInv
  <2> QED BY <1>0, <1>1, <2>1 DEF TypeInv
<1>3. /\ BlobOwned(b)' = {} /\ raw' = raw \cup BlobOwned(b)
      /\ \A q \in Blobs \ {b} : BlobOwned(q)' = BlobOwned(q)
      /\ \A k \in Chains : AddrsOf(chain[k])' = AddrsOf(chain[k])
      /\ Live(heap)' = Live(heap)
  BY <1>1 DEF BlobOwned, EmptyBlob, AddrsOf, CertsOf, Live
<1>4. Partition'
  BY <1>0, <1>3 DEF Partition
<1>5. SizeInv'
  BY <1>0, <1>1 DEF SizeInv, EmptyBlob
<1> QED BY <1>0, <1>1, <1>2, <1>4, <1>5, InvFromParts

-----------------------------------------------------------------------------
\* A chain that is emptied frees its entries and its certificates.
LEMMA EmptiedChain ==
  ASSUME Inv, NEW k \in Chains,
         heap' = DeleteAll(heap, AddrsOf(chain[k])),
         chain' = [chain EXCEPT ![k] = EmptyChain],
         blob' = blob, raw' = raw
  PROVE  Inv'
<1>0. TypeInv /\ Wiped(heap)
  BY InvParts
<1>1. /\ heap' \in Heaps
      /\ Live(heap') = Live(heap) \ AddrsOf(chain[k])
      /\ \A x \in Live(heap) \ AddrsOf(chain[k]) : heap'[x] = heap[x]
      /\ Wiped(heap')
  BY <1>0, DeleteAllFrees DEF TypeInv, Live
<1>2. /\ EmptyChain \in [entries : Ptrs, certs : Seq(Ptrs)]
      /\ AddrsOf(EmptyChain) = {} /\ ChainOk(EmptyChain)
  BY DEF EmptyChain, Ptrs, AddrsOf, CertsOf, ChainOk
<1>3. /\ chain' \in [Chains -> [entries : Ptrs, certs : Seq(Ptrs)]]
      /\ chain'[k] = EmptyChain
      /\ \A j \in Chains \ {k} : chain'[j] = chain[j]
  BY <1>0, <1>2 DEF TypeInv
<1> QED BY <1>1, <1>2, <1>3, Rebuilt

LEMMA NewChainStep ==
  ASSUME Inv, NEW k \in Chains, NEW n \in Nat, NEW a \in Ptrs, NewChain(k, n, a)
  PROVE  Inv'
<1> DEFINE ch == chain'[k]
<1>0. TypeInv /\ Wiped(heap)
  BY InvParts
<1>1. /\ heap' \in Heaps
      /\ Real(a) \subseteq Addrs /\ Real(a) \cap Live(heap) = {}
      /\ Live(heap') = Live(heap) \cup Real(a)
      /\ \A x \in Live(heap) : heap'[x] = heap[x]
      /\ Wiped(heap')
  <2> DEFINE d == FALSE
             h == New(heap, a, n, d)
  <2>1. /\ heap \in Heaps /\ (a = nullptr \/ a \in FreeAddrs(heap))
        /\ heap' = New(heap, a, n, d) /\ d \in BOOLEAN
    BY <1>0 DEF NewChain, Allocates, TypeInv
  <2> HIDE DEF d
  <2>2. /\ h \in Heaps
        /\ Real(a) \subseteq Addrs /\ Real(a) \cap Live(heap) = {}
        /\ Live(h) = Live(heap) \cup Real(a)
        /\ \A x \in Addrs \ Real(a) : h[x] = heap[x]
        /\ Wiped(h)
    BY <1>0, <2>1, NewTakes
  <2>3. Live(heap) \subseteq Addrs
    BY DEF Live
  <2> HIDE DEF h
  <2>4. heap' = h
    BY <2>1 DEF h
  <2> QED BY <2>2, <2>3, <2>4
<1>2. chain' = [chain EXCEPT ![k] = IF a = nullptr THEN EmptyChain
                                   ELSE [entries |-> a, certs |-> [i \in 1..n |-> nullptr]]]
      /\ chain[k] = EmptyChain /\ blob' = blob /\ raw' = raw
  BY DEF NewChain
<1>3. ch \in [entries : Ptrs, certs : Seq(Ptrs)] /\ AddrsOf(ch) = Real(a) /\ ChainOk(ch)
  <2>1. CASE a = nullptr
    <3>1. ch = EmptyChain
      BY <1>0, <1>2, <2>1 DEF TypeInv
    <3> HIDE DEF ch
    <3> QED BY <2>1, <3>1 DEF EmptyChain, Ptrs, AddrsOf, CertsOf, ChainOk, Real
  <2>2. CASE a # nullptr
    <3> DEFINE e == [i \in 1..n |-> nullptr]
    <3>1. ch = [entries |-> a, certs |-> e]
      BY <1>0, <1>2, <2>2 DEF TypeInv
    <3>2. e \in Seq(Ptrs) /\ \A i \in DOMAIN e : e[i] = nullptr
      BY DEF Ptrs
    <3> HIDE DEF ch, e
    <3> QED BY <2>2, <3>1, <3>2 DEF AddrsOf, CertsOf, ChainOk, Real
  <2> QED BY <2>1, <2>2
<1>4. AddrsOf(chain[k]) = {}
  BY <1>2 DEF EmptyChain, AddrsOf, CertsOf
<1>5. /\ chain' \in [Chains -> [entries : Ptrs, certs : Seq(Ptrs)]]
      /\ \A j \in Chains \ {k} : chain'[j] = chain[j]
  BY <1>0, <1>2, <1>3 DEF TypeInv
<1> HIDE DEF ch
<1> QED BY <1>1, <1>2, <1>3, <1>4, <1>5, Rebuilt DEF ch

LEMMA MoveChainStep ==
  ASSUME Inv, NEW k \in Chains, NEW j \in Chains, MoveChain(k, j)
  PROVE  Inv'
<1>0. TypeInv /\ Partition /\ SizeInv /\ Wiped(heap) /\ \A q \in Chains : ChainOk(chain[q])
  BY InvParts
<1>1. heap' = DeleteAll(heap, AddrsOf(chain[k])) /\ blob' = blob /\ raw' = raw
  BY DEF MoveChain
<1>2. CASE k = j
  BY <1>1, <1>2, EmptiedChain DEF MoveChain
<1>3. CASE k # j
  <2>1. /\ chain' = [chain EXCEPT ![k] = chain[j], ![j] = EmptyChain]
        /\ chain'[k] = chain[j] /\ chain'[j] = EmptyChain
        /\ \A q \in Chains \ {k, j} : chain'[q] = chain[q]
    BY <1>0, <1>3 DEF MoveChain, TypeInv
  <2>2. /\ EmptyChain \in [entries : Ptrs, certs : Seq(Ptrs)]
        /\ AddrsOf(EmptyChain) = {} /\ ChainOk(EmptyChain)
    BY DEF EmptyChain, Ptrs, AddrsOf, CertsOf, ChainOk
  <2>3. /\ heap' \in Heaps
        /\ Live(heap') = Live(heap) \ AddrsOf(chain[k])
        /\ \A x \in Addrs \ AddrsOf(chain[k]) : heap'[x] = heap[x]
        /\ Wiped(heap')
    BY <1>0, <1>1, DeleteAllFrees DEF TypeInv
  <2>4. TypeInv'
    BY <1>0, <1>1, <2>1, <2>2, <2>3 DEF TypeInv
  <2>5. /\ AddrsOf(chain[k])' = AddrsOf(chain[j]) /\ AddrsOf(chain[j])' = {}
        /\ \A q \in Chains \ {k, j} : AddrsOf(chain[q])' = AddrsOf(chain[q])
        /\ \A b \in Blobs : BlobOwned(b)' = BlobOwned(b)
        /\ Live(heap)' = Live(heap) \ AddrsOf(chain[k])
    <3>1. \A q \in Chains : AddrsOf(chain[q])' = AddrsOf(chain'[q])
      BY DEF AddrsOf, CertsOf
    <3>2. Live(heap)' = Live(heap')
      BY DEF Live
    <3> QED BY <1>1, <2>1, <2>2, <2>3, <3>1, <3>2 DEF BlobOwned
  <2>6. Partition'
    BY <1>0, <1>1, <1>3, <2>5, SMTT(30) DEF Partition
  <2>7. SizeInv'
    <3> SUFFICES ASSUME NEW b \in Blobs, blob[b].data # nullptr
                 PROVE  blob[b].size = heap'[blob[b].data].size
      BY <1>1 DEF SizeInv
    <3>1. blob[b].data \in Addrs \ AddrsOf(chain[k])
      BY <1>0, OwnedAddrs DEF Partition, BlobOwned, Real
    <3> QED BY <1>0, <2>3, <3>1 DEF SizeInv
  <2>8. \A q \in Chains : ChainOk(chain'[q])
    BY <1>0, <2>1, <2>2
  <2> QED BY <2>3, <2>4, <2>6, <2>7, <2>8, InvFromParts
<1> QED BY <1>2, <1>3

LEMMA CloneChainStep ==
  ASSUME Inv, NEW k \in Chains, NEW j \in Chains, NEW n \in Nat, CloneChain(k, j, n)
  PROVE  Inv'
<1> DEFINE h == DeleteAll(heap, AddrsOf(chain[k]))
           fresh == LowestFree(n)
           ch == [entries |-> fresh[1], certs |-> Tail(fresh)]
<1>0. TypeInv /\ Wiped(heap)
  BY InvParts
<1>1. blob' = blob /\ raw' = raw
  BY DEF CloneChain
<1>2. CASE n = Len(chain[j].certs) + 1
  <2>1. /\ chain' = [chain EXCEPT ![k] = ch]
        /\ heap' = [a \in Addrs |->
                      IF \E i \in DOMAIN fresh : fresh[i] = a
                        THEN [live |-> TRUE, size |-> 0, dirty |-> FALSE] ELSE h[a]]
        /\ n <= Cardinality(FreeAddrs(heap)) /\ n # 0
    <3>1. Len(chain[j].certs) \in Nat
      BY <1>0 DEF TypeInv
    <3> QED BY <1>2, <3>1 DEF CloneChain
  <2>2. /\ fresh \in Seq(Addrs) /\ Len(fresh) = n
        /\ \A i \in 1..n : fresh[i] \in Addrs /\ ~heap[fresh[i]].live
        /\ \A i, m \in 1..n : i # m => fresh[i] # fresh[m]
    BY <1>0, <2>1, LowestAreFree DEF FreeAddrs
  <2> HIDE DEF fresh
  <2> DEFINE N == {fresh[i] : i \in 1..n}
             t == Tail(fresh)
  <2>3. /\ t \in Seq(Addrs) /\ DOMAIN t = 1..(n - 1)
        /\ \A i \in 1..(n - 1) : t[i] = fresh[i + 1]
    BY <2>1, <2>2
  <2>4. \A x \in Addrs : x # nullptr
    BY AddrsAssumption DEF nullptr
  <2> HIDE DEF t
  <2>5. fresh[1] \in Addrs /\ N = {fresh[1]} \cup {t[i] : i \in DOMAIN t}
    <3>1. 1 \in 1..n /\ \A i \in 1..(n - 1) : i + 1 \in 1..n
      BY <2>1
    <3>2. \A i \in 1..n : i = 1 \/ (i - 1 \in 1..(n - 1) /\ (i - 1) + 1 = i)
      BY <2>1
    <3>3. \A i \in 1..n : i = 1 \/ \E q \in DOMAIN t : fresh[i] = t[q]
      BY <2>3, <3>2
    <3>4. N \subseteq {fresh[1]} \cup {t[i] : i \in DOMAIN t}
      BY <3>3
    <3>5. \A i \in DOMAIN t : t[i] \in N
      BY <2>3, <3>1
    <3> QED BY <2>2, <3>1, <3>4, <3>5
  <2>6. \A i, m \in DOMAIN t : i # m => t[i] # t[m]
    <3>1. \A i, m \in 1..(n - 1) : i # m => i + 1 # m + 1 /\ i + 1 \in 1..n /\ m + 1 \in 1..n
      OBVIOUS
    <3> QED BY <2>2, <2>3, <3>1
  <2>7. \A i \in DOMAIN t : t[i] # fresh[1]
    <3>1. \A i \in 1..(n - 1) : i + 1 # 1 /\ i + 1 \in 1..n /\ 1 \in 1..n
      OBVIOUS
    <3> QED BY <2>2, <2>3, <3>1
  <2>8. ch \in [entries : Ptrs, certs : Seq(Ptrs)] /\ AddrsOf(ch) = N /\ ChainOk(ch)
    <3>1. t \in Seq(Ptrs) /\ \A i \in DOMAIN t : t[i] \in Addrs
      BY <2>3 DEF Ptrs
    <3>2. ch = [entries |-> fresh[1], certs |-> t]
      BY DEF t
    <3>3. ch \in [entries : Ptrs, certs : Seq(Ptrs)]
      BY <2>5, <3>1, <3>2 DEF Ptrs
    <3> HIDE DEF ch, N
    <3>4. AddrsOf(ch) = N
      BY <2>4, <2>5, <3>1, <3>2 DEF AddrsOf, CertsOf
    <3>5. ChainOk(ch)
      BY <2>4, <2>5, <2>6, <2>7, <3>2 DEF ChainOk
    <3> QED BY <3>3, <3>4, <3>5
  <2>9. /\ h \in Heaps
        /\ Live(h) = Live(heap) \ AddrsOf(chain[k])
        /\ \A x \in Addrs \ AddrsOf(chain[k]) : h[x] = heap[x]
        /\ Wiped(h)
    BY <1>0, DeleteAllFrees DEF TypeInv
  <2>10. N \subseteq Addrs /\ N \cap Live(heap) = {}
    BY <2>2 DEF Live
  <2>11. heap' = [a \in Addrs |-> IF a \in N THEN [live |-> TRUE, size |-> 0, dirty |-> FALSE]
                                  ELSE h[a]]
    <3>1. \A a \in Addrs : (\E i \in DOMAIN fresh : fresh[i] = a) <=> a \in N
      BY <2>2
    <3> QED BY <2>1, <3>1
  <2> HIDE DEF N, h, ch
  <2>12. /\ heap' \in Heaps
         /\ Live(heap') = Live(h) \cup N
         /\ \A x \in Addrs \ N : heap'[x] = h[x]
         /\ Wiped(heap')
    BY <2>9, <2>10, <2>11 DEF Heaps, Live, Wiped
  <2>13. /\ chain' \in [Chains -> [entries : Ptrs, certs : Seq(Ptrs)]]
         /\ chain'[k] = ch
         /\ \A q \in Chains \ {k} : chain'[q] = chain[q]
    BY <1>0, <2>1, <2>8 DEF TypeInv
  <2>14. /\ Live(heap') = (Live(heap) \ AddrsOf(chain[k])) \cup AddrsOf(chain'[k])
         /\ AddrsOf(chain'[k]) \cap (Live(heap) \ AddrsOf(chain[k])) = {}
         /\ \A x \in Live(heap) \ AddrsOf(chain[k]) : heap'[x] = heap[x]
         /\ ChainOk(chain'[k])
    <3>1. Live(heap) \subseteq Addrs
      BY DEF Live
    <3> QED BY <2>8, <2>9, <2>10, <2>12, <2>13, <3>1
  <2> QED BY <1>1, <2>12, <2>13, <2>14, Rebuilt
<1>3. CASE n # Len(chain[j].certs) + 1
  BY <1>1, <1>3, EmptiedChain DEF CloneChain
<1> QED BY <1>2, <1>3

LEMMA Stutters ==
  ASSUME Inv, UNCHANGED blobVars
  PROVE  Inv'
<1>1. heap' = heap /\ blob' = blob /\ chain' = chain /\ raw' = raw
  BY DEF blobVars
<1>2. TypeInv /\ Partition /\ SizeInv /\ Wiped(heap) /\ \A k \in Chains : ChainOk(chain[k])
  BY InvParts
<1>3. /\ \A b \in Blobs : BlobOwned(b)' = BlobOwned(b)
      /\ \A k \in Chains : AddrsOf(chain[k])' = AddrsOf(chain[k])
      /\ Live(heap)' = Live(heap)
  BY <1>1 DEF BlobOwned, AddrsOf, CertsOf, Live
<1>4. TypeInv' /\ SizeInv'
  BY <1>1, <1>2 DEF TypeInv, SizeInv
<1>5. Partition'
  BY <1>1, <1>2, <1>3 DEF Partition
<1> QED BY <1>1, <1>2, <1>4, <1>5, InvFromParts

LEMMA PushFrontStep ==
  ASSUME Inv, NEW k \in Chains, NEW c \in raw, NEW a \in Ptrs, PushFront(k, c, a)
  PROVE  Inv'
<1>0. TypeInv /\ Partition /\ SizeInv /\ Wiped(heap) /\ \A q \in Chains : ChainOk(chain[q])
  BY InvParts
<1>1. CASE a = nullptr
  BY <1>1, Stutters DEF PushFront, blobVars
<1>2. CASE a # nullptr
  <2> DEFINE old == chain[k].entries
             t == chain[k].certs
             s == <<c>> \o t
             ch == [entries |-> a, certs |-> s]
             g == DeleteAll(heap, {old})
             d == FALSE
             h == New(g, a, 0, d)
  <2>1. /\ heap' = [h EXCEPT ![c].dirty = FALSE]
        /\ chain' = [chain EXCEPT ![k] = [entries |-> a, certs |-> <<c>> \o @.certs]]
        /\ raw' = raw \ {c} /\ blob' = blob
        /\ Allocates(heap, a)
    BY <1>2 DEF PushFront
  <2>2. /\ old \in Ptrs /\ t \in Seq(Ptrs) /\ c \in Addrs /\ ~heap[a].live
        /\ a \in Addrs /\ c # nullptr /\ a # nullptr
    BY <1>0, <1>2, <2>1, AddrsAssumption DEF TypeInv, Allocates, FreeAddrs, nullptr
  <2>3. c \in Live(heap) /\ c \notin AddrsOf(chain[k]) /\ a \notin Live(heap)
    BY <1>0, <2>2 DEF Partition, Live
  <2>4. AddrsOf(chain[k]) \subseteq Live(heap)
    BY <1>0, OwnedAddrs DEF Partition
  <2>5. /\ AddrsOf(chain[k]) = ({t[i] : i \in DOMAIN t} \cup {old}) \ {nullptr}
        /\ ChainOk(chain[k])
    BY <1>0 DEF AddrsOf, CertsOf
  <2>6. chain' = [chain EXCEPT ![k] = ch]
    BY <2>1
  <2>7. /\ chain'[k] = ch
        /\ \A j \in Chains \ {k} : chain'[j] = chain[j]
    BY <1>0, <2>6 DEF TypeInv
  <2>8. /\ s \in Seq(Ptrs) /\ DOMAIN s = 1..(Len(t) + 1) /\ DOMAIN t = 1..Len(t)
        /\ Len(t) \in Nat /\ s[1] = c
        /\ \A i \in 1..Len(t) : s[i + 1] = t[i]
    BY <2>2 DEF Ptrs
  <2> HIDE DEF s
  <2>9. \A i \in DOMAIN s : i = 1 \/ \E q \in DOMAIN t : i = q + 1 /\ s[i] = t[q]
    <3> SUFFICES ASSUME NEW i \in DOMAIN s, i # 1
                 PROVE  \E q \in DOMAIN t : i = q + 1 /\ s[i] = t[q]
      OBVIOUS
    <3> HIDE DEF t
    <3> DEFINE q == i - 1
    <3>1. q \in 1..Len(t) /\ i = q + 1
      BY <2>8
    <3> HIDE DEF q
    <3> QED BY <2>8, <3>1
  <2>10. \A q \in DOMAIN t : q + 1 \in DOMAIN s /\ s[q + 1] = t[q]
    BY <2>8
  <2>11. 1 \in DOMAIN s
    BY <2>8
  <2>12. AddrsOf(ch) = (({t[i] : i \in DOMAIN t} \cup {c}) \cup {a}) \ {nullptr}
    <3> HIDE DEF t
    <3>1. {s[i] : i \in DOMAIN s} = {t[i] : i \in DOMAIN t} \cup {c}
      <4>1. \A i \in DOMAIN s : s[i] \in {t[q] : q \in DOMAIN t} \cup {c}
        BY <2>8, <2>9
      <4>2. \A q \in DOMAIN t : t[q] \in {s[i] : i \in DOMAIN s}
        BY <2>10
      <4>3. c \in {s[i] : i \in DOMAIN s}
        BY <2>8, <2>11
      <4> QED BY <4>1, <4>2, <4>3
    <3> QED BY <2>2, <3>1 DEF AddrsOf, CertsOf
  <2>13. \A i \in DOMAIN t : t[i] = nullptr \/ (t[i] \in Live(heap) /\ t[i] # c /\ t[i] # old)
    BY <2>3, <2>4, <2>5 DEF ChainOk
  <2>14. ChainOk(ch)
    <3>1. \A i, m \in DOMAIN s : s[i] = s[m] /\ i # m => s[i] = nullptr
      <4> SUFFICES ASSUME NEW i \in DOMAIN s, NEW m \in DOMAIN s, s[i] = s[m], i # m
                   PROVE  s[i] = nullptr
        OBVIOUS
      <4>1. CASE i = 1
        BY <2>2, <2>8, <2>9, <2>13, <4>1
      <4>2. CASE m = 1
        BY <2>2, <2>8, <2>9, <2>13, <4>2
      <4>3. CASE i # 1 /\ m # 1
        <5>1. PICK p \in DOMAIN t : i = p + 1 /\ s[i] = t[p]
          BY <2>9, <4>3
        <5>2. PICK q \in DOMAIN t : m = q + 1 /\ s[m] = t[q]
          BY <2>9, <4>3
        <5>3. p # q /\ t[p] = t[q]
          BY <5>1, <5>2
        <5> QED BY <2>5, <5>1, <5>3 DEF ChainOk
      <4> QED BY <4>1, <4>2, <4>3
    <3>2. \A i \in DOMAIN s : s[i] # nullptr => s[i] # a
      BY <2>3, <2>8, <2>9, <2>13
    <3> QED BY <2>2, <3>1, <3>2 DEF ChainOk
  <2>15. /\ g \in Heaps
         /\ Live(g) = Live(heap) \ {old}
         /\ \A x \in Addrs \ {old} : g[x] = heap[x]
         /\ Wiped(g)
    BY <1>0, DeleteAllFrees DEF TypeInv
  <2>16. a \in FreeAddrs(g) /\ 0 \in Nat /\ d \in BOOLEAN
    BY <2>2, <2>3, <2>15 DEF Live, FreeAddrs
  <2> HIDE DEF g, d, ch
  <2>17. /\ h \in Heaps
         /\ Live(h) = (Live(heap) \ {old}) \cup {a}
         /\ \A x \in Addrs \ {a} : h[x] = g[x]
         /\ Wiped(h)
    BY <2>2, <2>15, <2>16, NewTakes DEF Real
  <2> HIDE DEF h, t
  <2>18. /\ heap' \in Heaps
         /\ Live(heap') = (Live(heap) \ {old}) \cup {a}
         /\ \A x \in Addrs \ {a, c} : heap'[x] = h[x]
         /\ Wiped(heap')
    <3>1. /\ DOMAIN heap' = Addrs
          /\ \A x \in Addrs \ {c} : heap'[x] = h[x]
          /\ heap'[c] = [h[c] EXCEPT !.dirty = FALSE]
      BY <2>1, <2>2, <2>17 DEF Heaps
    <3>2. h[c] \in [live : BOOLEAN, size : Nat, dirty : BOOLEAN]
      BY <2>2, <2>17 DEF Heaps
    <3>3. /\ heap'[c] \in [live : BOOLEAN, size : Nat, dirty : BOOLEAN]
          /\ heap'[c].live = h[c].live /\ heap'[c].dirty = FALSE
      BY <3>1, <3>2
    <3>4. heap' = [x \in Addrs |-> heap'[x]]
      BY <2>1, <2>17 DEF Heaps
    <3>5. heap' \in Heaps
      BY <2>17, <3>1, <3>3, <3>4 DEF Heaps
    <3> QED BY <2>2, <2>17, <3>1, <3>3, <3>5 DEF Live, Wiped
  <2>19. TypeInv'
    <3>1. ch \in [entries : Ptrs, certs : Seq(Ptrs)]
      BY <2>8 DEF ch
    <3> QED BY <1>0, <2>1, <2>6, <2>18, <3>1 DEF TypeInv
  <2>20. /\ {t[i] : i \in DOMAIN t} \ {nullptr} = AddrsOf(chain[k]) \ {old}
         /\ old # nullptr => old \in AddrsOf(chain[k])
    BY <2>5, <2>13
  <2>21. /\ AddrsOf(chain[k])' = (AddrsOf(chain[k]) \ {old}) \cup {a, c}
         /\ \A j \in Chains \ {k} : AddrsOf(chain[j])' = AddrsOf(chain[j])
         /\ \A b \in Blobs : BlobOwned(b)' = BlobOwned(b)
         /\ Live(heap)' = (Live(heap) \ {old}) \cup {a}
         /\ raw' = raw \ {c}
    <3>1. \A j \in Chains : AddrsOf(chain[j])' = AddrsOf(chain'[j])
      BY DEF AddrsOf, CertsOf
    <3>2. Live(heap)' = Live(heap')
      BY DEF Live
    <3>3. AddrsOf(ch) = (AddrsOf(chain[k]) \ {old}) \cup {a, c}
      BY <2>2, <2>12, <2>20
    <3> QED BY <2>1, <2>7, <2>18, <3>1, <3>2, <3>3 DEF BlobOwned
  <2>22. Partition'
    <3>1. /\ \A b \in Blobs : BlobOwned(b) \subseteq Live(heap)
          /\ \A j \in Chains : AddrsOf(chain[j]) \subseteq Live(heap)
          /\ raw \subseteq Live(heap)
      BY <1>0, OwnedAddrs DEF Partition, TypeInv
    <3>2. old \in AddrsOf(chain[k]) \/ old \notin Addrs
      BY <2>20, AddrsAssumption DEF nullptr
    <3> HIDE DEF old
    <3>3. /\ \A b, q \in Blobs : b # q => BlobOwned(b)' \cap BlobOwned(q)' = {}
          /\ \A b \in Blobs : BlobOwned(b)' \cap raw' = {}
      BY <1>0, <2>21 DEF Partition
    <3>4. \A q, j \in Chains : q # j => AddrsOf(chain[q])' \cap AddrsOf(chain[j])' = {}
      BY <1>0, <2>3, <2>21, <3>1 DEF Partition
    <3>5. /\ \A q \in Chains : AddrsOf(chain[q])' \cap raw' = {}
          /\ \A q \in Chains, b \in Blobs : AddrsOf(chain[q])' \cap BlobOwned(b)' = {}
      BY <1>0, <2>3, <2>21, <3>1 DEF Partition
    <3>6. ASSUME NEW x \in Addrs
          PROVE  x \in Live(heap)' <=>
                   \/ x \in raw'
                   \/ \E b \in Blobs : x \in BlobOwned(b)'
                   \/ \E q \in Chains : x \in AddrsOf(chain[q])'
      <4>1. CASE x \in {a, c}
        BY <2>3, <2>21, <3>2, <4>1, <3>1
      <4>2. CASE x = old /\ x \notin {a, c}
        BY <1>0, <2>3, <2>21, <3>1, <3>2, <4>2 DEF Partition
      <4>3. CASE x # old /\ x \notin {a, c}
        BY <1>0, <2>21, <4>3 DEF Partition
      <4> QED BY <4>1, <4>2, <4>3
    <3> QED BY <3>3, <3>4, <3>5, <3>6 DEF Partition
  <2>23. SizeInv'
    <3> SUFFICES ASSUME NEW b \in Blobs, blob[b].data # nullptr
                 PROVE  blob[b].size = heap'[blob[b].data].size
      BY <2>1 DEF SizeInv
    <3>1. /\ blob[b].data \in Live(heap) /\ blob[b].data \in Addrs
          /\ blob[b].data \notin AddrsOf(chain[k]) /\ blob[b].data \notin raw
      BY <1>0, OwnedAddrs DEF Partition, BlobOwned, Real
    <3>2. blob[b].data \notin {old, a, c}
      BY <2>3, <2>20, <3>1
    <3>3. heap'[blob[b].data] = heap[blob[b].data]
      BY <2>15, <2>17, <2>18, <3>1, <3>2
    <3> QED BY <1>0, <3>3 DEF SizeInv
  <2>24. \A j \in Chains : ChainOk(chain'[j])
    BY <1>0, <2>7, <2>14
  <2> QED BY <2>18, <2>19, <2>22, <2>23, <2>24, InvFromParts
<1> QED BY <1>1, <1>2

-----------------------------------------------------------------------------
LEMMA StepInv == Inv /\ [BlobNext]_blobVars => Inv'
<1> SUFFICES ASSUME Inv, [BlobNext]_blobVars PROVE Inv'
  OBVIOUS
<1>1. ASSUME NEW b \in Blobs, NEW n \in Sizes, NEW a \in Ptrs, Construct(b, n, a) \/ Reset(b, n, a)
      PROVE  Inv'
  BY <1>1, BlobStep
<1>2. ASSUME NEW b \in Blobs, NEW c \in Blobs, NEW a \in Ptrs,
             CopyConstruct(b, c, a) \/ CopyAssign(b, c, a)
      PROVE  Inv'
  BY <1>2, BlobStep
<1>3. ASSUME NEW b \in Blobs, Clear(b) PROVE Inv'
  <2>1. nullptr \in Ptrs
    BY DEF Ptrs
  <2> QED BY <1>3, <2>1, BlobStep
<1>4. ASSUME NEW b \in Blobs, NEW c \in Blobs, MoveAssign(b, c) PROVE Inv'
  BY <1>4, MoveStep
<1>5. ASSUME NEW b \in Blobs, Release(b) PROVE Inv'
  BY <1>5, ReleaseStep
<1>6. ASSUME NEW k \in Chains, NEW n \in 0..MaxCerts, NEW a \in Ptrs, NewChain(k, n, a)
      PROVE  Inv'
  <2>1. n \in Nat
    BY MaxCertsAssumption
  <2> QED BY <1>6, <2>1, NewChainStep
<1>7. ASSUME NEW k \in Chains, NEW j \in Chains, MoveChain(k, j) PROVE Inv'
  BY <1>7, MoveChainStep
<1>8. ASSUME NEW k \in Chains, NEW j \in Chains, NEW n \in 0..(MaxCerts + 1), CloneChain(k, j, n)
      PROVE  Inv'
  <2>1. n \in Nat
    BY MaxCertsAssumption
  <2> QED BY <1>8, <2>1, CloneChainStep
<1>9. ASSUME NEW k \in Chains, NEW c \in raw, NEW a \in Ptrs, PushFront(k, c, a) PROVE Inv'
  BY <1>9, PushFrontStep
<1>10. ASSUME NEW k \in Chains, ClearChain(k) \/ ReleaseChain(k) PROVE Inv'
  BY <1>10, EmptiedChain DEF ClearChain, ReleaseChain
<1>11. CASE UNCHANGED blobVars
  BY <1>11, Stutters
<1> QED BY <1>1, <1>2, <1>3, <1>4, <1>5, <1>6, <1>7, <1>8, <1>9, <1>10, <1>11 DEF BlobNext

LEMMA InvHolds == BlobSpec => []Inv
<1>1. BlobInit => Inv
  BY InitInv
<1>2. Inv /\ [BlobNext]_blobVars => Inv'
  BY StepInv
<1> QED BY <1>1, <1>2, PTL DEF BlobSpec

(***************************************************************************)
(* Each live allocation is held by one blob, one chain or the caller that  *)
(* released it, and by nothing else, through every sequence of             *)
(* constructions, copies, moves, clones, pushes and releases, whichever    *)
(* allocations fail, for any number of objects and any finite heap.        *)
(***************************************************************************)
THEOREM AllocationsOwnedOnce == BlobSpec => []OwnedOnce
<1>1. Inv => OwnedOnce
  BY DEF Inv
<1> QED BY <1>1, InvHolds, PTL

(***************************************************************************)
(* A TKeymasterBlob never frees a buffer with key bytes in it: its size is *)
(* that of the buffer whenever it has one, so memset_s reaches the end.    *)
(***************************************************************************)
THEOREM BlobsFreedWiped == BlobSpec => []FreedIsWiped
<1>1. Inv => FreedIsWiped
  BY DEF Inv
<1> QED BY <1>1, InvHolds, PTL

-----------------------------------------------------------------------------
(***************************************************************************)
(* Results.                                                                *)
(***************************************************************************)
\* The object answers for the result that nobody has looked at.
Holds(o, n) == obj[o].alive /\ obj[o].holds = n /\ ~obj[o].checked

ResultStates ==
  [alive : BOOLEAN, holds : made \cup {0}, ok : BOOLEAN, checked : BOOLEAN]

HeldOnce ==
  \A n \in made \ seen :
    \E o \in Objects : Holds(o, n) /\ \A p \in Objects : Holds(p, n) => p = o

ResultsInv ==
  /\ obj \in [Objects -> ResultStates]
  /\ made \subseteq Outcomes
  /\ HeldOnce

LEMMA ResultsInitInv == ResultsInit => ResultsInv
BY DEF ResultsInit, ResultsInv, ResultStates, Gone, HeldOnce

LEMMA NewStates ==
  /\ Gone \in ResultStates /\ Default \in ResultStates
  /\ Gone.checked /\ Default.checked
BY DEF Gone, Default, ResultStates

\* Objects that hold nothing unchecked come and go.
LEMMA CheckedObjectChanges ==
  ASSUME ResultsInv, NEW o \in Objects, NEW c \in ResultStates,
         obj' = [obj EXCEPT ![o] = c], UNCHANGED made, seen \subseteq seen',
         c.checked,
         obj[o].alive /\ ~obj[o].checked => obj[o].holds \in seen' \/ obj[o].holds = 0
  PROVE  ResultsInv'
<1>1. obj' \in [Objects -> ResultStates]
  BY DEF ResultsInv
<1>2. ResultStates' = ResultStates
  BY DEF ResultStates
<1>3. ASSUME NEW n \in made \ seen'
      PROVE  \E q \in Objects : Holds(q, n)' /\ \A p \in Objects : Holds(p, n)' => p = q
  <2>1. PICK q \in Objects : Holds(q, n) /\ \A p \in Objects : Holds(p, n) => p = q
    BY <1>3 DEF ResultsInv, HeldOnce
  <2>2. n # 0
    BY OutcomesAssumption DEF ResultsInv
  <2>3. q # o
    BY <1>3, <2>1, <2>2 DEF Holds
  <2>4. \A p \in Objects \ {o} : obj'[p] = obj[p]
    BY DEF ResultsInv
  <2>5. obj'[o] = c
    BY DEF ResultsInv
  <2>6. Holds(q, n)' /\ \A p \in Objects : Holds(p, n)' => p = q
    BY <2>1, <2>3, <2>4, <2>5 DEF Holds
  <2> QED BY <2>6
<1>4. HeldOnce'
  BY <1>3 DEF HeldOnce
<1> QED BY <1>1, <1>2, <1>4 DEF ResultsInv

LEMMA ProduceStep ==
  ASSUME ResultsInv, NEW o \in Objects, NEW n \in Outcomes, NEW ok \in BOOLEAN, Produce(o, n, ok)
  PROVE  ResultsInv'
<1> DEFINE c == [alive |-> TRUE, holds |-> n, ok |-> ok, checked |-> FALSE]
<1>1. /\ made' = made \cup {n} /\ n \notin made /\ seen' = seen
      /\ obj' = [obj EXCEPT ![o] = c] /\ ~obj[o].alive
  BY DEF Produce
<1>2. obj' \in [Objects -> ResultStates']
  <2>1. c \in ResultStates'
    BY <1>1 DEF ResultStates
  <2>2. ResultStates \subseteq ResultStates'
    BY <1>1 DEF ResultStates
  <2> HIDE DEF c
  <2> QED BY <1>1, <2>1, <2>2 DEF ResultsInv
<1>3. obj'[o] = c /\ \A p \in Objects \ {o} : obj'[p] = obj[p]
  BY <1>1 DEF ResultsInv
<1>4. \A p \in Objects : obj[p].holds \in made \cup {0}
  BY DEF ResultsInv, ResultStates
<1>5. n # 0
  BY OutcomesAssumption
<1>6. ASSUME NEW m \in made' \ seen'
      PROVE  \E q \in Objects : Holds(q, m)' /\ \A p \in Objects : Holds(p, m)' => p = q
  <2>1. CASE m = n
    <3>1. Holds(o, n)' /\ \A p \in Objects : Holds(p, n)' => p = o
      BY <1>1, <1>3, <1>4, <1>5 DEF Holds
    <3> QED BY <2>1, <3>1
  <2>2. CASE m # n
    <3>1. PICK q \in Objects : Holds(q, m) /\ \A p \in Objects : Holds(p, m) => p = q
      BY <1>1, <1>6, <2>2 DEF ResultsInv, HeldOnce
    <3>2. q # o
      BY <1>1, <3>1 DEF Holds
    <3>3. Holds(q, m)' /\ \A p \in Objects : Holds(p, m)' => p = q
      BY <1>3, <2>2, <3>1, <3>2 DEF Holds
    <3> QED BY <3>3
  <2> QED BY <2>1, <2>2
<1>7. HeldOnce'
  BY <1>6 DEF HeldOnce
<1>8. made' \subseteq Outcomes
  BY <1>1 DEF ResultsInv
<1> QED BY <1>2, <1>7, <1>8 DEF ResultsInv

\* Two objects swap what they hold, or one takes it from another.
LEMMA MoveStepResult ==
  ASSUME ResultsInv, NEW o \in Objects, NEW p \in Objects,
         MoveAssignResult(o, p) \/ MoveConstruct(o, p)
  PROVE  ResultsInv'
<1>1. PICK c \in {obj[o], Default} :
        /\ obj' = [obj EXCEPT ![o] = obj[p], ![p] = c] /\ UNCHANGED <<seen, made>>
        /\ c = obj[o] \/ (c = Default /\ o # p /\ ~obj[o].alive)
  <2>1. CASE MoveAssignResult(o, p)
    BY <2>1 DEF MoveAssignResult
  <2>2. CASE MoveConstruct(o, p)
    <3>1. o # p /\ ~obj[o].alive /\ obj' = [obj EXCEPT ![o] = obj[p], ![p] = Default]
      BY <2>2 DEF MoveConstruct
    <3> QED BY <2>2, <3>1 DEF MoveConstruct
  <2> QED BY <2>1, <2>2
<1>2. c \in ResultStates /\ ResultStates' = ResultStates
  BY <1>1, NewStates DEF ResultsInv, ResultStates
<1>3. obj' \in [Objects -> ResultStates]
  BY <1>1, <1>2 DEF ResultsInv
<1>4. /\ obj'[o] = IF o = p THEN c ELSE obj[p]
      /\ obj'[p] = c
      /\ \A q \in Objects \ {o, p} : obj'[q] = obj[q]
  BY <1>1 DEF ResultsInv
<1>5. ASSUME NEW n \in made' \ seen'
      PROVE  \E q \in Objects : Holds(q, n)' /\ \A r \in Objects : Holds(r, n)' => r = q
  <2>1. PICK q \in Objects : Holds(q, n) /\ \A r \in Objects : Holds(r, n) => r = q
    BY <1>1, <1>5 DEF ResultsInv, HeldOnce
  <2> DEFINE u == IF q = p THEN o ELSE IF q = o THEN p ELSE q
  <2>2. Holds(u, n)' /\ \A r \in Objects : Holds(r, n)' => r = u
    <3>1. CASE c = obj[o]
      BY <1>4, <2>1, <3>1 DEF Holds
    <3>2. CASE c = Default /\ o # p /\ ~obj[o].alive
      BY <1>4, <2>1, <3>2, NewStates DEF Holds
    <3> QED BY <1>1, <3>1, <3>2
  <2>3. u \in Objects
    OBVIOUS
  <2> HIDE DEF u
  <2> QED BY <2>2, <2>3
<1>6. HeldOnce'
  BY <1>5 DEF HeldOnce
<1> QED BY <1>1, <1>2, <1>3, <1>6 DEF ResultsInv

LEMMA ResultsNextInv == ResultsInv /\ [ResultsNext]_resultVars => ResultsInv'
<1> SUFFICES ASSUME ResultsInv, [ResultsNext]_resultVars PROVE ResultsInv'
  OBVIOUS
<1>1. ASSUME NEW o \in Objects, ConstructResult(o) PROVE ResultsInv'
  BY <1>1, NewStates, CheckedObjectChanges DEF ConstructResult
<1>2. ASSUME NEW o \in Objects, isOk(o) PROVE ResultsInv'
  <2> DEFINE c == [obj[o] EXCEPT !.checked = TRUE]
  <2>1. c \in ResultStates /\ c.checked
    BY DEF ResultsInv, ResultStates
  <2>2. obj' = [obj EXCEPT ![o] = c] /\ made' = made
    BY <1>2 DEF isOk
  <2>3. seen \subseteq seen' /\ (obj[o].holds \in seen' \/ obj[o].holds = 0)
    BY <1>2 DEF isOk
  <2> HIDE DEF c
  <2> QED BY <2>1, <2>2, <2>3, CheckedObjectChanges
<1>3. ASSUME NEW o \in Objects, Destroy(o) PROVE ResultsInv'
  <2>1. CASE obj[o].checked
    BY <1>3, <2>1, NewStates, CheckedObjectChanges DEF Destroy
  <2>2. CASE ~obj[o].checked
    BY <1>3, <2>2 DEF Destroy, ResultsInv, ResultStates, HeldOnce, Holds
  <2> QED BY <2>1, <2>2
<1>4. CASE UNCHANGED resultVars
  BY <1>4 DEF resultVars, ResultsInv, ResultStates, HeldOnce, Holds
<1> QED BY <1>1, <1>2, <1>3, <1>4, ProduceStep, MoveStepResult DEF ResultsNext

LEMMA ResultsInvHeld == ResultsInv => UncheckedIsHeld
<1> SUFFICES ASSUME ResultsInv, NEW n \in made \ seen
             PROVE  Cardinality({o \in Objects : Holds(o, n)}) = 1
  BY DEF UncheckedIsHeld, Holds
<1>1. PICK o \in Objects : Holds(o, n) /\ \A p \in Objects : Holds(p, n) => p = o
  BY DEF ResultsInv, HeldOnce
<1>2. {p \in Objects : Holds(p, n)} = {o}
  BY <1>1
<1> QED BY <1>2, FS_Singleton

(***************************************************************************)
(* UncheckedIsHeld: for any number of KmErrorOr objects and results,       *)
(* however they are swapped and moved, a result that nobody has checked is *)
(* held, unchecked, by exactly one object.                                 *)
(***************************************************************************)
THEOREM UncheckedResultsHeld == ResultsSpec => []UncheckedIsHeld
BY ResultsInitInv, ResultsNextInv, ResultsInvHeld, PTL DEF ResultsSpec
=============================================================================
