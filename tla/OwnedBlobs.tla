----------------------------- MODULE OwnedBlobs -----------------------------
(***************************************************************************)
(* The objects that own key material and certificates: TKeymasterBlob and  *)
(* CertificateChain (android_keymaster_utils.h), with the allocations they *)
(* make and free.  An allocation may fail (new (std::nothrow)); it always  *)
(* fails when no address is left.                                          *)
(***************************************************************************)
EXTENDS Naturals, FiniteSets, Sequences

CONSTANTS
  Blobs,      \* TKeymasterBlob objects
  Chains,     \* CertificateChain objects
  Addrs,      \* heap addresses
  Sizes,      \* sizes of buffers
  MaxCerts    \* bound on the certificates of a chain

ASSUME AddrsAssumption == Addrs \subseteq Nat \ {0} /\ IsFiniteSet(Addrs)
ASSUME SizesAssumption == Sizes \subseteq Nat
ASSUME MaxCertsAssumption == MaxCerts \in Nat

nullptr == 0

VARIABLES
  heap,   \* for each address: allocated or not, its size, and whether it
          \* holds key bytes that nobody has overwritten
  blob,   \* data and size of each TKeymasterBlob
  chain,  \* entries and the data of each entry of each CertificateChain
  raw     \* the buffer a caller took with TKeymasterBlob::release(), if any

blobVars == <<heap, blob, chain, raw>>

EmptyBlob == [data |-> nullptr, size |-> 0]
EmptyChain == [entries |-> nullptr, certs |-> << >>]
Free == [live |-> FALSE, size |-> 0, dirty |-> FALSE]

BlobInit ==
  /\ heap = [a \in Addrs |-> Free]
  /\ blob = [b \in Blobs |-> EmptyBlob]
  /\ chain = [k \in Chains |-> EmptyChain]
  /\ raw = {}

(***************************************************************************)
(* The allocator hands out some free address.  dup_buffer allocates and    *)
(* copies; both give null when they fail.                                  *)
(***************************************************************************)
FreeAddrs(h) == {a \in Addrs : ~h[a].live}
Allocates(h, a) == a = nullptr \/ (a \in FreeAddrs(h) /\ \A c \in FreeAddrs(h) : a <= c)
New(h, a, n, dirty) == IF a = nullptr THEN h
                       ELSE [h EXCEPT ![a] = [live |-> TRUE, size |-> n, dirty |-> dirty]]

\* Mutant: delete[] without memset_s.
DeleteBlobUnwiped(h, b) ==
  IF b.data = nullptr THEN h
  ELSE [h EXCEPT ![b.data] = [live |-> FALSE, size |-> 0, dirty |-> heap[b.data].dirty]]

\* memset_s over size bytes and delete[]; both ignore a null pointer.
DeleteBlob(h, b) ==
  IF b.data = nullptr THEN h
  ELSE [h EXCEPT ![b.data] = [live |-> FALSE, size |-> 0,
                              dirty |-> heap[b.data].dirty /\ b.size < heap[b.data].size]]

DeleteAll(h, S) == [a \in Addrs |-> IF a \in S THEN Free ELSE h[a]]

\* Data that a reader of size bytes may read.  Copy assignment keeps the
\* size of its source when its allocation fails; the model does not read on.
Readable(b) == b.data # nullptr \/ b.size = 0

(***************************************************************************)
(* TKeymasterBlob.  Constructors act on an object that holds nothing.      *)
(***************************************************************************)
Sized(a, n) == [data |-> a, size |-> IF a = nullptr THEN 0 ELSE n]

Construct(b, n, a) ==
  /\ blob[b] = EmptyBlob /\ Allocates(heap, a)
  /\ heap' = New(heap, a, n, n > 0)
  /\ blob' = [blob EXCEPT ![b] = Sized(a, n)]
  /\ UNCHANGED <<chain, raw>>

CopyConstruct(b, c, a) ==
  /\ b # c /\ blob[b] = EmptyBlob /\ Readable(blob[c]) /\ Allocates(heap, a)
  /\ heap' = New(heap, a, blob[c].size, blob[c].size > 0)
  /\ blob' = [blob EXCEPT ![b] = Sized(a, blob[c].size)]
  /\ UNCHANGED <<chain, raw>>

\* Clear, then a copy whose size is set whether or not there is data.
CopyAssign(b, c, a) ==
  /\ b # c /\ Readable(blob[c])
  /\ LET h == DeleteBlob(heap, blob[b])
     IN  /\ Allocates(h, a)
         /\ heap' = New(h, a, blob[c].size, blob[c].size > 0)
  /\ blob' = [blob EXCEPT ![b] = [data |-> a, size |-> blob[c].size]]
  /\ UNCHANGED <<chain, raw>>

\* Mutant: the source of the move keeps its pointer.
MoveAssignKeeping(b, c) ==
  /\ b # c
  /\ heap' = DeleteBlob(heap, blob[b])
  /\ blob' = [blob EXCEPT ![b] = blob[c]]
  /\ UNCHANGED <<chain, raw>>

\* Move construction is a move into an empty object.
MoveAssign(b, c) ==
  /\ b # c
  /\ heap' = DeleteBlob(heap, blob[b])
  /\ blob' = [blob EXCEPT ![b] = blob[c], ![c] = EmptyBlob]
  /\ UNCHANGED <<chain, raw>>

\* Clear, and the destructor.
Clear(b) ==
  /\ heap' = DeleteBlob(heap, blob[b])
  /\ blob' = [blob EXCEPT ![b] = EmptyBlob]
  /\ UNCHANGED <<chain, raw>>

\* Reset, and Deserialize of n bytes (a = nullptr: a short or failing read).
Reset(b, n, a) ==
  /\ LET h == DeleteBlob(heap, blob[b])
     IN  Allocates(h, a) /\ heap' = New(h, a, n, n > 0)
  /\ blob' = [blob EXCEPT ![b] = Sized(a, n)]
  /\ UNCHANGED <<chain, raw>>

Release(b) ==
  /\ blob[b].data # nullptr /\ raw = {}
  /\ raw' = raw \cup {blob[b].data}
  /\ blob' = [blob EXCEPT ![b] = EmptyBlob]
  /\ UNCHANGED <<heap, chain>>

(***************************************************************************)
(* CertificateChain.                                                       *)
(***************************************************************************)
CertsOf(ch) == {ch.certs[i] : i \in DOMAIN ch.certs} \ {nullptr}
AddrsOf(ch) == (CertsOf(ch) \cup {ch.entries}) \ {nullptr}

NewChain(k, n, a) ==
  /\ chain[k] = EmptyChain /\ Allocates(heap, a)
  /\ heap' = New(heap, a, n, FALSE)
  /\ chain' = [chain EXCEPT ![k] = IF a = nullptr THEN EmptyChain
                                   ELSE [entries |-> a, certs |-> [i \in 1..n |-> nullptr]]]
  /\ UNCHANGED <<blob, raw>>

\* Clear comes first, without a check for self-assignment.
MoveChain(k, j) ==
  /\ heap' = DeleteAll(heap, AddrsOf(chain[k]))
  /\ chain' = IF k = j THEN [chain EXCEPT ![k] = EmptyChain]
              ELSE [chain EXCEPT ![k] = chain[j], ![j] = EmptyChain]
  /\ UNCHANGED <<blob, raw>>

(***************************************************************************)
(* k = clone(other): entries, then one buffer for each certificate.  When  *)
(* an allocation fails the partial clone is destroyed and an empty chain   *)
(* is returned.  The move into k clears what k held.  n is the number of   *)
(* allocations that succeed; too few, and the clone has failed.  The clone *)
(* of an empty chain owns entries of no elements.                          *)
(***************************************************************************)
LowestFree(n) ==
  [i \in 1..n |-> CHOOSE a \in FreeAddrs(heap) :
                    Cardinality({c \in FreeAddrs(heap) : c < a}) = i - 1]

CloneChain(k, j, n) ==
  /\ n <= Len(chain[j].certs) + 1 /\ n <= Cardinality(FreeAddrs(heap))
  /\ LET h == DeleteAll(heap, AddrsOf(chain[k]))
         fresh == LowestFree(n)
     IN  IF n = Len(chain[j].certs) + 1
           THEN /\ chain' = [chain EXCEPT ![k] = [entries |-> fresh[1], certs |-> Tail(fresh)]]
                /\ heap' = [a \in Addrs |->
                              IF \E i \in DOMAIN fresh : fresh[i] = a
                                THEN [live |-> TRUE, size |-> 0, dirty |-> FALSE] ELSE h[a]]
           ELSE chain' = [chain EXCEPT ![k] = EmptyChain] /\ heap' = h
  /\ UNCHANGED <<blob, raw>>

\* Takes the buffer over on success only.
PushFront(k, c, a) ==
  /\ c \in raw /\ Len(chain[k].certs) < MaxCerts /\ Allocates(heap, a)
  /\ IF a = nullptr THEN UNCHANGED <<heap, chain, raw>>
     ELSE /\ heap' = [New(DeleteAll(heap, {chain[k].entries}), a, 0, FALSE) EXCEPT ![c].dirty = FALSE]
          /\ chain' = [chain EXCEPT ![k] = [entries |-> a, certs |-> <<c>> \o @.certs]]
          /\ raw' = raw \ {c}
  /\ UNCHANGED blob

ClearChain(k) ==
  /\ heap' = DeleteAll(heap, AddrsOf(chain[k]))
  /\ chain' = [chain EXCEPT ![k] = EmptyChain]
  /\ UNCHANGED <<blob, raw>>

\* CertificateChain::release: the caller frees the plain chain it gets.
ReleaseChain(k) ==
  /\ chain[k].entries # nullptr
  /\ heap' = DeleteAll(heap, AddrsOf(chain[k]))
  /\ chain' = [chain EXCEPT ![k] = EmptyChain]
  /\ UNCHANGED <<blob, raw>>

Ptrs == Addrs \cup {nullptr}

BlobNext ==
  \/ \E b \in Blobs, n \in Sizes, a \in Ptrs : Construct(b, n, a) \/ Reset(b, n, a)
  \/ \E b, c \in Blobs, a \in Ptrs : CopyConstruct(b, c, a) \/ CopyAssign(b, c, a)
  \/ \E b, c \in Blobs : MoveAssign(b, c)
  \/ \E b \in Blobs : Clear(b) \/ Release(b)
  \/ \E k \in Chains, n \in 0..MaxCerts, a \in Ptrs : NewChain(k, n, a)
  \/ \E k, j \in Chains : MoveChain(k, j)
  \/ \E k, j \in Chains, n \in 0..(MaxCerts + 1) : CloneChain(k, j, n)
  \/ \E k \in Chains, c \in raw, a \in Ptrs : PushFront(k, c, a)
  \/ \E k \in Chains : ClearChain(k) \/ ReleaseChain(k)

BlobSpec == BlobInit /\ [][BlobNext]_blobVars

-----------------------------------------------------------------------------
(***************************************************************************)
(* Every allocation has one owner and every owner holds an allocation: a   *)
(* buffer is not leaked, not freed twice and not used after it was freed,  *)
(* whatever is copied, moved, cloned, pushed or released, and whichever    *)
(* allocation fails on the way.                                            *)
(***************************************************************************)
BlobOwned(b) == {blob[b].data} \ {nullptr}

OwnedOnce ==
  /\ \A a \in Addrs : heap[a].live <=>
        \/ a \in raw
        \/ \E b \in Blobs : a \in BlobOwned(b)
        \/ \E k \in Chains : a \in AddrsOf(chain[k])
  /\ \A b, c \in Blobs : b # c => BlobOwned(b) \cap BlobOwned(c) = {}
  /\ \A k, j \in Chains : k # j => AddrsOf(chain[k]) \cap AddrsOf(chain[j]) = {}
  /\ \A b \in Blobs : BlobOwned(b) \cap raw = {}
  /\ \A k \in Chains :
        /\ AddrsOf(chain[k]) \cap raw = {}
        /\ \A b \in Blobs : AddrsOf(chain[k]) \cap BlobOwned(b) = {}
        /\ chain[k].entries = nullptr => chain[k].certs = << >>
        /\ \A i, m \in DOMAIN chain[k].certs :
             chain[k].certs[i] = chain[k].certs[m] /\ i # m => chain[k].certs[i] = nullptr
        /\ \A i \in DOMAIN chain[k].certs :
             chain[k].certs[i] # nullptr => chain[k].certs[i] # chain[k].entries

(***************************************************************************)
(* A buffer that a TKeymasterBlob has freed holds no key bytes: Clear      *)
(* overwrites the whole of it first, also after moves and assignments.     *)
(***************************************************************************)
FreedIsWiped == \A a \in Addrs : ~heap[a].live => ~heap[a].dirty
=============================================================================
