------------------------------- MODULE Codec -------------------------------
(***************************************************************************)
(* A datagram from the message it is made of to the verdict on it.  It is  *)
(* made by the codec's own encode, or by a peer that writes what it likes; *)
(* the peer may then edit it (and seal the result), the network may damage *)
(* it; then the codec's decode says what it is.  The codec under test, of  *)
(* the messaging or of the benchmark protocol, is given by the constants.  *)
(***************************************************************************)
EXTENDS Formats
CONSTANTS FormatNames, CrcModes, MaxEdits,
  Messages,            \* what is encoded; some of it is not valid
  Schema,              \* of the envelope
  Strays(_), Mistyped(_),  \* for a message, sequences of records no arm should take
  BodyWith(_, _),      \* the encoded body, without validation
  EncodeWith(_, _, _, _), DecodeWith(_, _, _), SaidSizeOf(_),
  Normal(_),           \* the message as decode gives it
  Suited(_, _, _)      \* the message made fit for a format and a mode

VARIABLES format, crc, stage, message, second, room, datagram, edits, verdict
vars == <<format, crc, stage, message, second, room, datagram, edits, verdict>>

Nothing == [body |-> <<>>, bytes |-> 0, trailer |-> "none"]
None == <<>>

Init ==
  /\ format \in FormatNames /\ crc \in CrcModes
  /\ stage = "idle" /\ message = None /\ second = None /\ room = 0
  /\ datagram = Nothing /\ edits = <<>> /\ verdict = None

(* The capacity of the caller's buffer, around the size that is needed. *)
Rooms(m) ==
  {MAX_DATAGRAM} \cup
    IF format = "protobuf" THEN {SaidSizeOf(m) + extra : extra \in {-1, 0, 7, 8}} ELSE {}

(* The model's texts are bounded strings: it cannot hold a longer one. *)
Holdable(m) ==
  \A f \in DOMAIN m \cap DOMAIN Schema.fields :
    Schema.fields[f].type = "text" => m[f].len =< Schema.fields[f].max

Encoded(m, space) ==
  LET result == EncodeWith(format, crc, m, space)
  IN  /\ stage = "idle" /\ Holdable(m)
      /\ message' = m /\ room' = space /\ edits' = <<"encoded">>
      /\ IF IsOk(result)
         THEN stage' = "sent" /\ datagram' = result[2] /\ verdict' = None
         ELSE stage' = "done" /\ datagram' = Nothing /\ verdict' = result
      /\ UNCHANGED <<format, crc, second>>

(* A peer sends what encode() would refuse as well. *)
Peer(m) ==
  /\ stage = "idle" /\ IsOk(BodyWith(format, m))
  /\ ~IsOk(EncodeWith(format, crc, m, MAX_DATAGRAM))
  /\ message' = m /\ room' = MAX_DATAGRAM /\ edits' = <<"unchecked">>
  /\ stage' = "sent"
  /\ datagram' = [body |-> BodyWith(format, m)[2], bytes |-> 0,
                  trailer |-> IF crc = "on" THEN "good" ELSE "none"]
  /\ UNCHANGED <<format, crc, second, verdict>>

Edits == {edits[i] : i \in DOMAIN edits}

(* One edit of the body, which is then sealed again.  What was sent does  *)
(* not depend on the sender's buffer, nor the body on the trailer, so that *)
(* one capacity and one mode are enough here.                              *)
Edited(name, body) ==
  /\ stage = "sent" /\ room = MAX_DATAGRAM /\ crc = "on"
  /\ Len(edits) =< MaxEdits /\ "cut" \notin Edits
  /\ datagram' = [datagram EXCEPT !.body = body]
  /\ edits' = Append(edits, name)
  /\ UNCHANGED <<format, crc, stage, message, room, verdict>>

Without(s, i) == SubSeq(s, 1, i - 1) \o SubSeq(s, i + 1, Len(s))

(* In Protobuf, what stands before the first body. *)
Movable(i) == format = "protobuf" => \A j \in 1..i : datagram.body[j].num < 20

Drop(i) == Movable(i) /\ Edited("dropped", Without(datagram.body, i)) /\ UNCHANGED second
Repeat(i) ==
  Movable(i) /\ Edited("repeated", Append(datagram.body, datagram.body[i])) /\ UNCHANGED second
Cut(i) ==
  format = "protobuf" /\ Edited("cut", SubSeq(datagram.body, 1, i - 1)) /\ UNCHANGED second
Spoil(i) ==
  /\ format # "protobuf" /\ datagram.body[i].token \in {"number", "flag", "float"}
  /\ Edited("spoilt", [datagram.body EXCEPT ![i].token = "spoilt"]) /\ UNCHANGED second
Stray(records) ==
  /\ format = "protobuf"
  /\ Edited("stray", records \o datagram.body) \/ Edited("stray", datagram.body \o records)
  /\ UNCHANGED second
Mistype(records) ==
  /\ format = "protobuf" /\ Edited("mistyped", datagram.body \o records) /\ UNCHANGED second
Merge(m) ==
  /\ second = None /\ IsOk(BodyWith(format, m))
  /\ second' = m /\ Edited("merged", datagram.body \o BodyWith(format, m)[2])

(* What is damaged or too long need not have been edited before. *)
Unedited == Edits \subseteq {"encoded", "unchecked", "damaged", "swollen"}

(* The network changes bits: the checksum no longer fits, whatever the body is now. *)
Damage ==
  /\ stage = "sent" /\ Unedited /\ datagram.trailer = "good"
  /\ datagram' = [datagram EXCEPT !.trailer = "bad", !.body = <<>>]
  /\ edits' = Append(edits, "damaged")
  /\ UNCHANGED <<format, crc, stage, message, second, room, verdict>>
Swell ==
  /\ stage = "sent" /\ Unedited /\ datagram.bytes =< MAX_BODY
  /\ datagram' = [datagram EXCEPT !.bytes = MAX_BODY + 1]
  /\ edits' = Append(edits, "swollen")
  /\ UNCHANGED <<format, crc, stage, message, second, room, verdict>>

Receive ==
  /\ stage = "sent" /\ stage' = "done"
  /\ verdict' = DecodeWith(format, crc, datagram)
  /\ UNCHANGED <<format, crc, message, second, room, datagram, edits>>

Again ==
  /\ stage = "done" /\ stage' = "idle"
  /\ message' = None /\ second' = None /\ room' = 0 /\ datagram' = Nothing
  /\ edits' = <<>> /\ verdict' = None
  /\ UNCHANGED <<format, crc>>

Next ==
  \/ \E m \in Messages : (\E space \in Rooms(m) : Encoded(m, space)) \/ Peer(m) \/ Merge(m)
  \/ \E i \in DOMAIN datagram.body : Drop(i) \/ Repeat(i) \/ Cut(i) \/ Spoil(i)
  \/ \E records \in Strays(message) : Stray(records)
  \/ \E records \in Mistyped(message) : Mistype(records)
  \/ Damage \/ Swell \/ Receive \/ Again

Spec == Init /\ [][Next]_vars

-----------------------------------------------------------------------------
Unscathed == stage = "done" /\ Edits = {"encoded"} /\ room = MAX_DATAGRAM

(* encode() took it. *)
Suits == datagram # Nothing

(* What encode() made is what decode() gives back, in every format and     *)
(* with or without the trailer: the tables of tags, match arms, sizes and  *)
(* columns, which the generated code has once per direction, agree.        *)
RoundTrip == Unscathed /\ Suits => verdict = Ok(Normal(message))

(* compute_size, from which the length of a body is declared before it is  *)
(* written, is the number of bytes encode() writes, and MAX_SIZE bounds    *)
(* it: a valid message always fits, and what is written fits the buffer.   *)
SizesAgree ==
  format = "protobuf" =>
    /\ stage = "sent" /\ Edits = {"encoded"} =>
         /\ Bytes(datagram.body) = SaidSizeOf(message)
         /\ datagram.bytes + Extra(crc) =< room
         /\ SaidSizeOf(message) =< Schema.max /\ Schema.max =< MAX_BODY
    /\ Unscathed => verdict # Err("size")

(* Records with a number the schema does not have change nothing. *)
UnknownSkipped ==
  stage = "done" /\ Edits = {"encoded", "stray"} => verdict = Ok(Normal(message))

(* Nor do records of a known number with the wrong wire type, in the       *)
(* envelope or in a body: they are unknown fields.                         *)
MistypedSkipped ==
  stage = "done" /\ "encoded" \in Edits /\ Edits \subseteq {"encoded", "stray", "mistyped"}
    /\ room = MAX_DATAGRAM /\ Suits => verdict = Ok(Normal(message))

(* The fields of the message that two encodings in one datagram stand for. *)
Merged(a, b) ==
  LET bodies == DOMAIN Schema.bodies
      Subs(m) == DOMAIN m \cap bodies
      scalars(m) == [f \in DOMAIN m \ bodies |-> m[f]]
      sub == IF Subs(b) = {} THEN [f \in Subs(a) |-> a[f]]
             ELSE IF Subs(a) = Subs(b) THEN [f \in Subs(b) |-> b[f] @@ a[f]]
             ELSE [f \in Subs(b) |-> b[f]]
  IN  sub @@ scalars(b) @@ scalars(a)

(* Two Protobuf messages in a row are their merge: the last value of a     *)
(* field counts, bodies of one variant are merged, another one replaces    *)
(* the first.  It is accepted exactly when the merge is valid.             *)
MergedAsOne ==
  stage = "done" /\ format = "protobuf" /\ Edits \in {{"encoded", "merged"}, {"unchecked", "merged"}}
    /\ Holdable(message) /\ Holdable(second) =>
    LET result == EncodeWith(format, crc, Merged(message, second), MAX_DATAGRAM)
    IN  IF IsOk(result) THEN verdict = Ok(Normal(Merged(message, second))) ELSE verdict = result

(* The first layer that finds fault answers: size before checksum before   *)
(* the body ("Size rejection precedes CRC work; CRC rejection precedes     *)
(* decode/validation").                                                    *)
LayersInOrder ==
  stage = "done" /\ datagram # Nothing =>
    /\ "swollen" \in Edits <=> verdict = Err("size")
    /\ "damaged" \in Edits /\ "swollen" \notin Edits <=> verdict = Err("crc")

(* Whatever is accepted, of whatever origin, is a message every format can *)
(* carry: it is encoded and decoded again without a change.                *)
AcceptedIsStable ==
  stage = "done" /\ verdict # None /\ IsOk(verdict) =>
    \A f \in FormatNames, c \in CrcModes :
      LET m == Suited(verdict[2], f, c)
          again == EncodeWith(f, c, m, MAX_DATAGRAM)
      IN  IsOk(again) /\ DecodeWith(f, c, again[2]) = Ok(m)
=============================================================================
