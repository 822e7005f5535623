-------------------------------- MODULE Wire --------------------------------
(***************************************************************************)
(* How the generated message code writes and reads Protobuf records.  The  *)
(* generated code consists of tables in disguise: which tag a field is     *)
(* written with, how large it is said to be, which field number a match    *)
(* arm reads.  The schema modules state those tables; this module states   *)
(* what micropb and the loops around the tables do with them.              *)
(*                                                                         *)
(* A message is a function from the fields that are present to their       *)
(* values.  An envelope has a head (such a function) and a body: the empty *)
(* sequence or a pair of the chosen variant and its message.  A text is    *)
(* known by its length and its class of characters.  A datagram is a       *)
(* sequence of records as they are on the wire: field number, wire type,   *)
(* size in bytes, value.  The record that opens a body carries the length  *)
(* declared for what follows.                                              *)
(***************************************************************************)
EXTENDS Integers, Sequences, FiniteSets, TLC
LOCAL INSTANCE SequencesExt
LOCAL INSTANCE FiniteSetsExt

(* The types of fields, with the largest size of their contents. *)
U32 == [type |-> "u32", max |-> 5]
Enum == [type |-> "enum", max |-> 10]
Bool == [type |-> "bool", max |-> 1]
F32 == [type |-> "f32", max |-> 4]
Text(capacity) == [type |-> "text", max |-> capacity]

EmptyText == [len |-> 0, class |-> "hex"]

WireOf(type) == CASE type \in {"text", "body"} -> 2 [] type = "f32" -> 5 [] OTHER -> 0

(* A match arm without a condition on the wire type takes all of them. *)
AnyWire == 0..7
Arm(field, wires) == [field |-> field, wires |-> wires]

SizeofVarint(n) ==
  CASE n < 0 -> 10
    [] n \in 0..127 -> 1
    [] n \in 128..16383 -> 2
    [] n \in 16384..2097151 -> 3
    [] n \in 2097152..268435455 -> 4
    [] OTHER -> 5

SizeofLenRecord(len) == SizeofVarint(len) + len

SizeofValue(type, v) ==
  CASE type \in {"u32", "enum"} -> SizeofVarint(v)
    [] type = "text" -> SizeofLenRecord(v.len)
    [] type = "bool" -> 1
    [] type = "f32" -> 4

(* encode_varint32(tag), then the value. *)
Record(tag, type, v) ==
  [num |-> tag \div 8, wire |-> tag % 8, size |-> SizeofVarint(tag) + SizeofValue(type, v), val |-> v]
Opening(tag, len) ==
  [num |-> tag \div 8, wire |-> tag % 8, size |-> SizeofVarint(tag) + SizeofVarint(len), val |-> len]

Bytes(records) == FoldLeft(LAMBDA n, r : n + r.size, 0, records)

(***************************************************************************)
(* A schema has: fields (name to type), arms (number to arm), encode (the  *)
(* writes in their order, each with its tag), sizes (field to the size     *)
(* compute_size takes for its tag), max (MAX_SIZE); an envelope's schema   *)
(* has also the schemas of its bodies, with their opening tags.            *)
(***************************************************************************)
Scalars(S, message) ==
  LET present == SelectSeq(S.encode, LAMBDA e : e[1] \in DOMAIN message)
  IN  [i \in DOMAIN present |->
         Record(present[i][2], S.fields[present[i][1]].type, message[present[i][1]])]

ComputeSize(S, message) ==
  MapThenSumSet(LAMBDA f : S.sizes[f] + SizeofValue(S.fields[f].type, message[f]), DOMAIN message)

Encode(S, envelope) ==
  Scalars(S, envelope.head) \o
    IF envelope.body = <<>> THEN <<>>
    ELSE LET sub == S.bodies[envelope.body[1]]
         IN  <<Opening(sub.tag, ComputeSize(sub.schema, envelope.body[2]))>>
                \o Scalars(sub.schema, envelope.body[2])

ComputeEnvelopeSize(S, envelope) ==
  ComputeSize(S, envelope.head) +
    IF envelope.body = <<>> THEN 0
    ELSE LET sub == S.bodies[envelope.body[1]]
         IN  sub.size + SizeofLenRecord(ComputeSize(sub.schema, envelope.body[2]))

(***************************************************************************)
(* Reading.  The value an arm takes from a record of the right wire type   *)
(* is the record's; from one of another type, whose contents here are      *)
(* always one zero byte, it is what that byte says: zero, or no bytes.     *)
(***************************************************************************)
Zero(type) == CASE type = "bool" -> FALSE [] type = "text" -> EmptyText [] OTHER -> 0
Taken(type, r) == IF r.wire = WireOf(type) THEN r.val ELSE Zero(type)

(* heapless strings refuse a text beyond their capacity; a fixed32 read   *)
(* from one byte runs into the bytes behind it.                           *)
Readable(field, r) ==
  /\ field.type = "text" => Taken("text", r).len =< field.max
  /\ field.type = "f32" => r.wire = 5

Known(S, r) == r.num \in DOMAIN S.arms /\ r.wire \in S.arms[r.num].wires

(* get_or_insert_with, then the value: the last record of a field counts. *)
Stored(S, message, r) == (S.arms[r.num].field :> Taken(S.fields[S.arms[r.num].field].type, r)) @@ message

Fresh == [ok |-> TRUE, head |-> <<>>, body |-> <<>>, left |-> 0]

InBody_SkipsForFree(S, d, r) ==
  LET sub == S.bodies[d.body[1]].schema
  IN  IF ~Known(sub, r) THEN d
      ELSE [d EXCEPT !.ok = Readable(sub.fields[sub.arms[r.num].field], r),
                     !.left = IF r.size < @ THEN @ - r.size ELSE 0,
                     !.body[2] = Stored(sub, @, r)]
InBody(S, d, r) ==
  LET sub == S.bodies[d.body[1]].schema
      after == [d EXCEPT !.left = IF r.size < d.left THEN d.left - r.size ELSE 0]
  IN  IF ~Known(sub, r) THEN after
      ELSE [after EXCEPT !.ok = Readable(sub.fields[sub.arms[r.num].field], r),
                         !.body[2] = Stored(sub, @, r)]

Opened_Afresh(S, d, field, r) ==
  [d EXCEPT !.body = <<field, <<>>>>, !.left = Taken("body", r)]
(* A record of the variant at hand is merged into it; any other variant   *)
(* starts empty and replaces it.                                          *)
Opened(S, d, field, r) ==
  [d EXCEPT !.body = IF @ # <<>> /\ @[1] = field THEN @ ELSE <<field, <<>>>>,
            !.left = Taken("body", r)]

InEnvelope(S, d, r) ==
  IF ~Known(S, r) THEN d
  ELSE LET field == S.arms[r.num].field
       IN  IF field \in DOMAIN S.bodies THEN Opened(S, d, field, r)
           ELSE [d EXCEPT !.ok = Readable(S.fields[field], r), !.head = Stored(S, @, r)]

Step(S, d, r) ==
  IF ~d.ok THEN d ELSE IF d.left > 0 THEN InBody(S, d, r) ELSE InEnvelope(S, d, r)

(* What decode_from_bytes leaves: a body cut short is an error. *)
Decode(S, records) ==
  LET end == FoldLeft(LAMBDA d, r : Step(S, d, r), Fresh, records)
  IN  [end EXCEPT !.ok = @ /\ end.left = 0]
==============================================================================
