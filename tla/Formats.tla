------------------------------ MODULE Formats ------------------------------
(***************************************************************************)
(* The integrity trailer around an encoded body (framing.rs) and the two   *)
(* text formats a body can have: a CSV row (csv.rs, cells.rs and the row   *)
(* tables of the models) and a JSON object (serde).  A row is a sequence   *)
(* of cells, an object one of entries; what a cell or an entry says is     *)
(* kept with the kind of token that it is.                                 *)
(***************************************************************************)
EXTENDS Wire
LOCAL INSTANCE SequencesExt

MAX_BODY == 1016
TRAILER_BYTES == 8
MAX_DATAGRAM == MAX_BODY + TRAILER_BYTES

Ok(value) == <<"ok", value>>
Err(error) == <<error>>
IsOk(result) == result[1] = "ok"

Extra(crc) == IF crc = "on" THEN TRAILER_BYTES ELSE 0

(* A datagram: its body, the body's size in bytes, and the trailer, which *)
(* is "good" when it is the checksum of this very body.                   *)
seal(crc, body, bytes, room) ==
  IF bytes > MAX_BODY \/ room < bytes + Extra(crc) THEN Err("size")
  ELSE Ok([body |-> body, bytes |-> bytes, trailer |-> IF crc = "on" THEN "good" ELSE "none"])

open_ChecksumFirst(crc, datagram) ==
  IF crc = "on" /\ datagram.trailer # "good" THEN Err("crc")
  ELSE IF datagram.bytes > MAX_BODY THEN Err("size")
  ELSE Ok(datagram.body)
open(crc, datagram) ==
  IF datagram.bytes > MAX_BODY THEN Err("size")
  ELSE IF crc = "on" /\ datagram.trailer # "good" THEN Err("crc")
  ELSE Ok(datagram.body)

-----------------------------------------------------------------------------
(* CSV: what kind of token a value of each type is written as. *)
TokenOf(type) ==
  CASE type \in {"u32", "enum"} -> "number" [] type = "text" -> "text"
    [] type = "bool" -> "flag" [] type = "f32" -> "float"

Blank == [token |-> "blank", val |-> 0]

(* push_cell: an absent field is an empty cell, and so is an empty text. *)
Cell(fields, message, f) ==
  IF f \notin DOMAIN message THEN Blank
  ELSE IF fields[f].type = "text" /\ message[f].len = 0 THEN Blank
  ELSE [token |-> TokenOf(fields[f].type), val |-> message[f]]

Cells(fields, message, columns) == [i \in DOMAIN columns |-> Cell(fields, message, columns[i])]

(* The text of a number is a text, too.  A spoilt token reads as nothing. *)
Legible(field, cell) ==
  \/ cell.token = "blank"
  \/ cell.token = TokenOf(field.type) /\ (field.type = "text" => cell.val.len =< field.max)
  \/ field.type = "text" /\ cell.token = "number"

CellValue(field, cell) ==
  IF field.type = "text" /\ cell.token = "number" THEN [len |-> 1, class |-> "alnum"] ELSE cell.val

AllLegible(fields, columns, cells) == \A i \in DOMAIN columns : Legible(fields[columns[i]], cells[i])

Uncelled(fields, columns, cells) ==
  [f \in {columns[i] : i \in {j \in DOMAIN columns : cells[j].token # "blank"}} |->
     LET i == CHOOSE j \in DOMAIN columns : columns[j] = f IN CellValue(fields[f], cells[i])]

(* to_cells and the writer: the row of the message's kind, whose body must be there. *)
WriteRow(schema, common, rows, model) ==
  LET kind == model.kind
      row == rows[kind]
  IN  IF "kind" \notin DOMAIN model \/ kind \notin DOMAIN rows \/ row.body \notin DOMAIN model
      THEN Err("validation")
      ELSE Ok(Cells(schema.fields, model, common)
                \o Cells(schema.bodies[row.body].schema.fields, model[row.body], row.columns))

(* from_cells: the common columns, the kind, the number of cells, the body. *)
ReadRow(schema, common, rows, cells) ==
  IF Len(cells) < Len(common) \/ ~AllLegible(schema.fields, common, cells) THEN Err("decode")
  ELSE
    LET head == Uncelled(schema.fields, common, cells)
        row == rows[head.kind]
        fields == schema.bodies[row.body].schema.fields
        rest == SubSeq(cells, Len(common) + 1, Len(cells))
    IN  IF "kind" \notin DOMAIN head \/ head.kind \notin DOMAIN rows THEN Err("validation")
        ELSE IF Len(cells) # row.count \/ ~AllLegible(fields, row.columns, rest) THEN Err("decode")
        ELSE Ok((row.body :> Uncelled(fields, row.columns, rest)) @@ head)

-----------------------------------------------------------------------------
(* JSON: an entry for each field that is present, bodies as objects. *)
Entry(name, token, val) == [name |-> name, token |-> token, val |-> val]

Entries(fields, order, message) ==
  LET present == SelectSeq(order, LAMBDA f : f \in DOMAIN message)
  IN  [i \in DOMAIN present |-> Entry(present[i], TokenOf(fields[present[i]].type), message[present[i]])]

Names(schema) == [i \in DOMAIN schema.encode |-> schema.encode[i][1]]

WriteObject(schema, order, model) ==
  Entries(schema.fields, Names(schema), model) \o
    LET present == SelectSeq(order, LAMBDA b : b \in DOMAIN model)
    IN  [i \in DOMAIN present |->
           LET sub == schema.bodies[present[i]].schema
           IN  Entry(present[i], "object", Entries(sub.fields, Names(sub), model[present[i]]))]

(* serde: no unknown name (deny_unknown_fields), none twice, no null, each value of its type. *)
EntriesRead(fields, entries) ==
  /\ \A i, j \in DOMAIN entries : entries[i].name = entries[j].name => i = j
  /\ \A i \in DOMAIN entries :
       /\ entries[i].name \in DOMAIN fields
       /\ entries[i].token = TokenOf(fields[entries[i].name].type)
       /\ entries[i].token = "text" => entries[i].val.len =< fields[entries[i].name].max

EntryOf(entries, name) == entries[CHOOSE i \in DOMAIN entries : entries[i].name = name].val
NamesIn(entries) == {entries[i].name : i \in DOMAIN entries}

ReadObject(schema, entries) ==
  LET scalars == SelectSeq(entries, LAMBDA e : e.name \notin DOMAIN schema.bodies)
      bodies == SelectSeq(entries, LAMBDA e : e.name \in DOMAIN schema.bodies)
      Sub_fields(b) == schema.bodies[b].schema.fields
  IN  IF /\ EntriesRead(schema.fields, scalars)
         /\ \A i, j \in DOMAIN bodies : bodies[i].name = bodies[j].name => i = j
         /\ \A i \in DOMAIN bodies : /\ bodies[i].token = "object"
                                     /\ EntriesRead(Sub_fields(bodies[i].name), bodies[i].val)
      THEN Ok([f \in NamesIn(scalars) |-> EntryOf(scalars, f)]
                @@ [b \in NamesIn(bodies) |->
                      [f \in NamesIn(EntryOf(bodies, b)) |-> EntryOf(EntryOf(bodies, b), f)]])
      ELSE Err("decode")
==============================================================================
