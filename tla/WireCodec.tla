------------------------------ MODULE WireCodec ------------------------------
(***************************************************************************)
(* The message payloads of protocol.cpp and the binary Writer and Reader   *)
(* under them.  An encoder writes the fields of a struct in a fixed order  *)
(* and a decoder reads them back in the order of its own statements; the   *)
(* two orders are written down separately, because nothing in the code     *)
(* ties one to the other.  A message is a function from field names to     *)
(* values; the field of a nested struct has the name <<"state", "id">>.    *)
(* A byte holds ByteBase values instead of 256, so that every width of the *)
(* code, its wrap-around included, fits the integers of the model checker. *)
(***************************************************************************)
EXTENDS Integers, Sequences, SequencesExt, TLC

CONSTANTS ByteBase,    \* the number of values of one byte
          MemberCap,   \* the longest member, outcome or receipt list a decoder accepts (1 << 18)
          ModelCap     \* the longest supported_models list dec_worker accepts (4096)

ASSUME CodecAssumption == ByteBase \in Nat \ {0, 1} /\ MemberCap \in Nat /\ ModelCap \in Nat

(* ------------------------------- field lists --------------------------- *)
Fields(kind, names) == [i \in DOMAIN names |-> [kind |-> kind, field |-> <<names[i]>>]]
U8(names) == Fields("u8", names)
U32(names) == Fields("u32", names)
U64(names) == Fields("u64", names)
S64(names) == Fields("s64", names)      \* s64 and ns
Bool(names) == Fields("bool", names)    \* written "? 1 : 0", read "!= 0"
Str(names) == Fields("str", names)      \* str and length-prefixed bytes
List(name, cap, elem) ==
  <<[kind |-> "list", field |-> <<name>>, cap |-> cap, elem |-> elem]>>
Under(name, fields) ==
  [i \in DOMAIN fields |-> [fields[i] EXCEPT !.field = <<name>> \o @]]

(* ------------------------------ binary::Writer ------------------------- *)
Width == [u8 |-> 1, bool |-> 1, u32 |-> 4, u64 |-> 8, s64 |-> 8]

\* u8, u32 and u64: the low w bytes, least significant first.
Unsigned(w, v) == [i \in 1..w |-> (v \div ByteBase ^ (i - 1)) % ByteBase]

WriteScalar(item, v) ==
  CASE item.kind = "str"  -> Unsigned(8, Len(v)) \o v
    [] item.kind = "bool" -> Unsigned(1, IF v THEN 1 ELSE 0)
    [] item.kind = "s64"  -> Unsigned(8, v % ByteBase ^ 8)
    [] OTHER              -> Unsigned(Width[item.kind], v)

WriteFlat(fields, m) ==
  FlattenSeq([i \in DOMAIN fields |-> WriteScalar(fields[i], m[fields[i].field])])

WriteItem(item, m) ==
  IF item.kind = "list"
  THEN LET rows == m[item.field]
       IN  Unsigned(8, Len(rows)) \o
           FlattenSeq([i \in DOMAIN rows |-> WriteFlat(item.elem, rows[i])])
  ELSE WriteScalar(item, m[item.field])

Encode(fields, m) == FlattenSeq([i \in DOMAIN fields |-> WriteItem(fields[i], m)])

(* ------------------------------ binary::Reader ------------------------- *)
(* A reader is the bytes, the position behind the last one read, the value *)
(* it read last, the fields decoded so far and the error that ended the    *)
(* decoding, if any.                                                       *)
NoError == "ok"
NewReader(bytes) ==
  [bytes |-> bytes, pos |-> 0, value |-> 0, msg |-> <<>>, error |-> NoError]

Unread(r) == Len(r.bytes) - r.pos
Ahead(r, n) == SubSeq(r.bytes, r.pos + 1, r.pos + n)
Refuse(r, code) == [r EXCEPT !.error = code]
Take(r, n, v) == [r EXCEPT !.pos = @ + n, !.value = v]
Store(r, field) == [r EXCEPT !.msg = (field :> r.value) @@ @]

Value(bytes) ==
  LET sum[i \in 0..Len(bytes)] ==
        IF i = 0 THEN 0 ELSE sum[i - 1] + bytes[i] * ByteBase ^ (i - 1)
  IN  sum[Len(bytes)]

\* u8(), u32() and u64()
ReadUnsigned(r, w) ==
  IF w > Unread(r) THEN Refuse(r, "truncated") ELSE Take(r, w, Value(Ahead(r, w)))

\* A reader that takes what is left when a byte string runs past the end.
ReadBytes_Clamped(r) ==
  LET n == ReadUnsigned(r, 8)
  IN  IF n.error # NoError THEN n
      ELSE IF n.value > Unread(n) THEN Take(n, Unread(n), Ahead(n, Unread(n)))
      ELSE Take(n, n.value, Ahead(n, n.value))

\* bytes() and str()
ReadBytes(r) ==
  LET n == ReadUnsigned(r, 8)
  IN  IF n.error # NoError THEN n
      ELSE IF n.value > Unread(n) THEN Refuse(n, "truncated")
      ELSE IF n.value > ByteBase ^ 4 THEN Refuse(n, "bounded")
      ELSE Take(n, n.value, Ahead(n, n.value))

FromUnsigned(kind, v) ==
  CASE kind = "bool" -> v # 0
    [] kind = "s64"  -> IF 2 * v >= ByteBase ^ 8 THEN v - ByteBase ^ 8 ELSE v
    [] OTHER         -> v

ReadScalar(r, item) ==
  LET u == IF item.kind = "str" THEN ReadBytes(r) ELSE ReadUnsigned(r, Width[item.kind])
  IN  IF u.error # NoError THEN u
      ELSE Store(Take(u, 0, FromUnsigned(item.kind, u.value)), item.field)

\* The statements of a decoder one after the other, each with its early return.
Reads(r, items, Step(_, _)) ==
  LET after[i \in 0..Len(items)] ==
        IF i = 0 THEN r
        ELSE LET before == after[i - 1]
             IN  IF before.error # NoError THEN before ELSE Step(before, items[i])
  IN  after[Len(items)]

\* One turn of the loop over a list: the rows read so far are the value.
ReadRow(r, elem) ==
  LET row == Reads([r EXCEPT !.msg = <<>>], elem, ReadScalar)
  IN  IF row.error # NoError THEN Refuse(r, row.error)
      ELSE [row EXCEPT !.msg = r.msg, !.value = Append(r.value, row.msg)]

ReadList(r, item) ==
  LET n == ReadUnsigned(r, 8)
      rows == Reads(Take(n, 0, <<>>), [i \in 1..n.value |-> item.elem], ReadRow)
  IN  IF n.error # NoError THEN n
      ELSE IF n.value > item.cap THEN Refuse(n, "invalid")
      ELSE IF rows.error # NoError THEN rows
      ELSE Store(rows, item.field)

ReadItem(r, item) == IF item.kind = "list" THEN ReadList(r, item) ELSE ReadScalar(r, item)

Decode(fields, bytes) ==
  LET r == Reads(NewReader(bytes), fields, ReadItem)
  IN  [error |-> r.error, msg |-> IF r.error = NoError THEN r.msg ELSE <<>>]

=============================================================================
