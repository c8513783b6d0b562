------------------------------- MODULE KmWire -------------------------------
(***************************************************************************)
(* The byte format of the keymaster messages (serializable.h): how one     *)
(* field is appended to a bounded buffer, how it is copied back, and how   *)
(* large it says it is.  A buffer is a sequence of bytes; integers are     *)
(* little-endian, as the memcpy of the helpers leaves them on ARM, and     *)
(* every value of the model fits into two bytes.                           *)
(***************************************************************************)
EXTENDS Naturals, Sequences

U8  == 1
U32 == 4
U64 == 8
NonceSize == 32            \* uint8_t nonce[32] of HmacSharingParameters

LE(v, n) == [i \in 1..n |-> CASE i = 1 -> v % 256 [] i = 2 -> v \div 256 [] OTHER -> 0]

\* The data of one append_to_buf call: written whole or, when it does not
\* fit below end, not at all (the caller goes on with its next field).
append_to_buf(buf, cap, data) ==
  IF Len(buf) + Len(data) <= cap THEN buf \o data ELSE buf

append_size_and_data(data) == <<LE(Len(data), U32), data>>

append_uint32_array(vals) == <<LE(Len(vals), U32)>> \o [i \in DOMAIN vals |-> LE(vals[i], U32)]

RECURSIVE FlattenChunks(_)
FlattenChunks(ss) == IF ss = << >> THEN << >> ELSE Head(ss) \o FlattenChunks(Tail(ss))

RECURSIVE SumOf(_)
SumOf(s) == IF s = << >> THEN 0 ELSE Head(s) + SumOf(Tail(s))

(***************************************************************************)
(* The append_to_buf calls a field makes.  "blob" is any size-prefixed     *)
(* byte array (KeymasterBlob, key material, Buffer, AuthorizationSet),     *)
(* "blobs" a counted array of them, "hmacs" a counted array of seed and    *)
(* nonce, "coll" a std::string or std::vector.                             *)
(***************************************************************************)
Chunks(kind, v) ==
  CASE kind = "u8"    -> <<LE(v, U8)>>
    [] kind = "u32"   -> <<LE(v, U32)>>
    [] kind = "u64"   -> <<LE(v, U64)>>
    [] kind = "nonce" -> <<LE(v, NonceSize)>>
    [] kind = "u32s"  -> append_uint32_array(v)
    [] kind \in {"blob", "coll"} -> append_size_and_data(v)
    [] kind = "blobs" -> <<LE(Len(v), U32)>>
                         \o FlattenChunks([i \in DOMAIN v |-> append_size_and_data(v[i])])
    [] kind = "hmacs" -> <<LE(Len(v), U32)>>
                         \o FlattenChunks([i \in DOMAIN v |->
                              append_size_and_data(v[i].seed) \o <<LE(v[i].nonce, NonceSize)>>])

SerializedSize(kind, v) ==
  CASE kind = "u8"    -> U8
    [] kind = "u32"   -> U32
    [] kind = "u64"   -> U64
    [] kind = "nonce" -> NonceSize
    [] kind = "u32s"  -> U32 + Len(v) * U32
    [] kind \in {"blob", "coll"} -> U32 + Len(v)
    [] kind = "blobs" -> U32 + SumOf([i \in DOMAIN v |-> U32 + Len(v[i])])
    [] kind = "hmacs" -> U32 + SumOf([i \in DOMAIN v |-> U32 + Len(v[i].seed) + NonceSize])

(***************************************************************************)
(* Reading.  A reader is at byte pos of buf and ends in a record: whether  *)
(* it succeeded, the position it left *buf_ptr at, and the value.          *)
(***************************************************************************)
Fails(pos) == [ok |-> FALSE, pos |-> pos, val |-> << >>]
AndThen(r, Rest(_)) == IF r.ok THEN Rest(r) ELSE r

copy_from_buf(buf, pos, n) ==
  IF pos + n <= Len(buf)
    THEN [ok |-> TRUE, pos |-> pos + n, val |-> SubSeq(buf, pos + 1, pos + n)]
    ELSE Fails(pos)

\* An integer of 2^16 or more, which no field of the model holds but misread
\* bytes may spell, is represented by 2^16.
ValueOf(bytes) ==
  IF \E i \in DOMAIN bytes : i > 2 /\ bytes[i] # 0 THEN 65536
  ELSE bytes[1] + (IF Len(bytes) > 1 THEN 256 * bytes[2] ELSE 0)

copy_uint(buf, pos, n) ==
  AndThen(copy_from_buf(buf, pos, n), LAMBDA r : [r EXCEPT !.val = ValueOf(r.val)])

copy_uint32_from_buf(buf, pos) == copy_uint(buf, pos, U32)
copy_uint64_from_buf(buf, pos) == copy_uint(buf, pos, U64)

\* Mutant: a size that is too large is cut down to the bytes that are there.
copy_size_and_data_clipped(buf, pos) ==
  AndThen(copy_uint32_from_buf(buf, pos),
          LAMBDA n : copy_from_buf(buf, n.pos, IF n.val < Len(buf) - n.pos THEN n.val
                                               ELSE Len(buf) - n.pos))

copy_size_and_data_from_buf(buf, pos) ==
  AndThen(copy_uint32_from_buf(buf, pos), LAMBDA n : copy_from_buf(buf, n.pos, n.val))

HmacFrom(buf, pos) ==
  AndThen(copy_size_and_data_from_buf(buf, pos),
          LAMBDA s : AndThen(copy_uint(buf, s.pos, NonceSize),
                             LAMBDA n : [n EXCEPT !.val = [seed |-> s.val, nonce |-> n.val]]))

\* The collection is extended by what is read: back_inserter, no clear.
copy_collection_from_buf(buf, pos, value) ==
  AndThen(copy_size_and_data_from_buf(buf, pos), LAMBDA r : [r EXCEPT !.val = value \o r.val])

ItemFrom(kind, buf, pos) ==
  CASE kind = "u32s"  -> copy_uint32_from_buf(buf, pos)
    [] kind = "blobs" -> copy_size_and_data_from_buf(buf, pos)
    [] kind = "hmacs" -> HmacFrom(buf, pos)

\* Reads n items of an array one after the other, stopping at a failure.
RECURSIVE ItemsFrom(_, _, _, _)
ItemsFrom(kind, n, buf, pos) ==
  IF n = 0 THEN [ok |-> TRUE, pos |-> pos, val |-> << >>]
  ELSE AndThen(ItemFrom(kind, buf, pos),
               LAMBDA r : AndThen(ItemsFrom(kind, n - 1, buf, r.pos),
                                  LAMBDA rest : [rest EXCEPT !.val = <<r.val>> \o rest.val]))

\* The count is checked against the bytes that are left before anything is
\* allocated; the allocation itself may fail too (mem = FALSE).
copy_uint32_array_from_buf(kind, buf, pos, mem) ==
  AndThen(copy_uint32_from_buf(buf, pos),
          LAMBDA n : IF ~mem \/ n.pos + n.val * U32 > Len(buf) THEN Fails(n.pos)
                     ELSE ItemsFrom(kind, n.val, buf, n.pos))

\* One field read into a fresh object.
Copy(kind, buf, pos, mem) ==
  CASE kind = "u8"    -> copy_uint(buf, pos, U8)
    [] kind = "u32"   -> copy_uint32_from_buf(buf, pos)
    [] kind = "u64"   -> copy_uint64_from_buf(buf, pos)
    [] kind = "nonce" -> copy_uint(buf, pos, NonceSize)
    [] kind = "blob"  -> copy_size_and_data_from_buf(buf, pos)
    [] kind = "coll"  -> copy_collection_from_buf(buf, pos, << >>)
    [] kind \in {"u32s", "blobs", "hmacs"} -> copy_uint32_array_from_buf(kind, buf, pos, mem)

(***************************************************************************)
(* A whole message: its fields in order.                                   *)
(***************************************************************************)
AllChunks(kinds, vals) == FlattenChunks([i \in DOMAIN kinds |-> Chunks(kinds[i], vals[i])])

RECURSIVE AppendAll(_, _, _)
AppendAll(buf, cap, chunks) ==
  IF chunks = << >> THEN buf
  ELSE AppendAll(append_to_buf(buf, cap, Head(chunks)), cap, Tail(chunks))

Serialize(kinds, vals, cap) == AppendAll(<< >>, cap, AllChunks(kinds, vals))

\* The size of a message that only declares its SerializedSize().
DeclaredSize(kinds, vals) ==
  SumOf([i \in DOMAIN kinds |-> SerializedSize(kinds[i], vals[i])])

RECURSIVE Deserialize(_, _, _, _)
Deserialize(kinds, buf, pos, mem) ==
  IF kinds = << >> THEN [ok |-> TRUE, pos |-> pos, val |-> << >>]
  ELSE AndThen(Copy(Head(kinds), buf, pos, mem),
               LAMBDA r : AndThen(Deserialize(Tail(kinds), buf, r.pos, mem),
                                  LAMBDA rest : [rest EXCEPT !.val = <<r.val>> \o rest.val]))
=============================================================================
