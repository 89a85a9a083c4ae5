----------------------------- MODULE SbeMessages -----------------------------
(***************************************************************************)
(* The message layouts and the codecs that sbetool generated from          *)
(* sbe/messages.xml.  A byte of a buffer is the k-th byte of some value;   *)
(* which number that makes does not matter, only which value it is a part  *)
(* of.  Bytes that do not stem from one value, in place, decode to Garbage *)
(* even where the numbers would happen to agree: a misread is never        *)
(* mistaken for a good one.                                                *)
(***************************************************************************)
EXTENDS Integers

CONSTANTS
  Values,     (* the field values, as numbers                              *)
  NullValue,  (* the value whose bytes are all ones                        *)
  Garbage     (* what bytes of different values decode to                  *)

ASSUME ValuesAssumption == Values \subseteq Nat /\ NullValue \in Nat /\ Garbage \notin Nat

HeaderLength == 8

U64(offset) == [offset |-> offset, width |-> 8]
U32(offset) == [offset |-> offset, width |-> 4]
U16(offset) == [offset |-> offset, width |-> 2]

(* The fields of the header in front of every message.                     *)
Header == [block_length |-> U16(0), template_id |-> U16(2), schema_id |-> U16(4),
           version |-> U16(6)]

SchemaId == 1
SchemaVersion == 0

Message(template, block, fields) ==
  [template |-> template, block |-> block, fields |-> fields]

NewOrderRequest ==
  Message(1, 24, [order_id |-> U64(0), price |-> U64(8), qty |-> U64(16)])
CancelRequest == Message(2, 8, [order_id |-> U64(0)])
UpdateQtyRequest == Message(3, 16, [order_id |-> U64(0), new_qty |-> U64(8)])
PartialFillRequest == Message(4, 8, [qty_to_fill |-> U64(0)])

TimedResult == Message(10, 12, [timestamp_ns |-> U64(0), result_code |-> U32(8)])

(* Fault: the block ends before the optional field.                        *)
FaultyFillInfo ==
  Message(11, 16, [order_id |-> U64(0), filled_qty |-> U64(8), remaining_qty |-> U64(16)])

FillInfo ==
  Message(11, 24, [order_id |-> U64(0), filled_qty |-> U64(8), remaining_qty |-> U64(16)])
RemoveInfo == Message(12, 16, [order_id |-> U64(0), canceled_qty |-> U64(8)])
QtyUpdatedInfo == Message(13, 16, [order_id |-> U64(0), new_qty |-> U64(8)])

Messages ==
  {NewOrderRequest, CancelRequest, UpdateQtyRequest, PartialFillRequest,
   TimedResult, FillInfo, RemoveInfo, QtyUpdatedInfo}

(* put_u16_at, put_u32_at, put_u64_at: little endian, byte 0 first.        *)
PutAt(buf, at, field, value) ==
  LET first == at + field.offset
  IN  [i \in DOMAIN buf |-> IF i \in first..first + field.width - 1
                            THEN <<value, i - first>> ELSE buf[i]]

(* get_u16_at, get_u32_at, get_u64_at.                                     *)
GetAt(buf, at, field) ==
  LET first == at + field.offset
      value == buf[first][1]
  IN  IF \A k \in 0..field.width - 1 : buf[first + k] = <<value, k>>
      THEN value ELSE Garbage

(* A getter beyond the end of the buffer panics: the slice is out of range. *)
Fits(buf, at, message) ==
  \A f \in DOMAIN message.fields :
    at + message.fields[f].offset + message.fields[f].width - 1 \in DOMAIN buf

(* The encoder's header: its four setters, one after the other.            *)
PutHeader(buf, at, message) ==
  LET b1 == PutAt(buf, at, Header.block_length, message.block)
      b2 == PutAt(b1, at, Header.template_id, message.template)
      b3 == PutAt(b2, at, Header.schema_id, SchemaId)
  IN  PutAt(b3, at, Header.version, SchemaVersion)

(* The decoder's header: what each of its getters answers.                 *)
HeaderAt(buf, at) == [f \in DOMAIN Header |-> GetAt(buf, at, Header[f])]

(* The one optional field of the schema: absent when its value is null.    *)
Presented(message, field, value) ==
  IF message = FillInfo /\ field = "remaining_qty" /\ value = NullValue
  THEN [present |-> FALSE] ELSE [present |-> TRUE, value |-> value]

(* What a caller gets that reads every field of the message at a block.    *)
Decode(buf, at, message) ==
  [f \in DOMAIN message.fields |->
     Presented(message, f, GetAt(buf, at, message.fields[f]))]
=============================================================================
