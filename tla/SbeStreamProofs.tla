--------------------------- MODULE SbeStreamProofs ---------------------------
(***************************************************************************)
(* What a reader decodes is what the writer set, for every buffer, any     *)
(* number of messages and any values; and the reader keeps its way.        *)
(***************************************************************************)
EXTENDS SbeStream, SequenceTheorems, TLAPS

FieldNames == UNION {DOMAIN m.fields : m \in Messages}

(* Fields that were set, with their values.                                *)
Assignments == UNION {[S -> Values] : S \in SUBSET FieldNames}

Draft == [message : Messages, offset : Nat, values : Assignments]

(* Where a message ends, and where its header begins.                      *)
End(d) == d.offset + d.message.block
Front(d) == d.offset - HeaderLength

(* The w bytes from first on are those of v.                               *)
Written(b, first, w, v) == \A k \in 0..w - 1 : b[first + k] = <<v, k>>

HeaderStored(b, at, m) ==
  Written(b, at, 2, m.block) /\ Written(b, at + 2, 2, m.template)

(* The bytes of a message as far as it is set.                             *)
Stored(b, d) ==
  /\ d.offset >= HeaderLength /\ HeaderStored(b, Front(d), d.message)
  /\ \A f \in DOMAIN d.values :
       /\ f \in DOMAIN d.message.fields
       /\ Written(b, d.offset + d.message.fields[f].offset,
                  d.message.fields[f].width, d.values[f])
-----------------------------------------------------------------------------
(* Layouts.                                                                *)

(* The fields of a message lie in its block and do not overlap.            *)
SoundLayout(m) ==
  /\ m.block \in Nat /\ m.template \in Nat
  /\ \A f \in DOMAIN m.fields :
       /\ m.fields[f].offset \in Nat /\ m.fields[f].width \in Nat /\ m.fields[f].width > 0
       /\ m.fields[f].offset + m.fields[f].width <= m.block
  /\ \A f, g \in DOMAIN m.fields :
       \/ f = g
       \/ m.fields[f].offset + m.fields[f].width <= m.fields[g].offset
       \/ m.fields[g].offset + m.fields[g].width <= m.fields[f].offset

(* All eight layouts are sound.                                            *)
LEMMA Layouts == \A m \in Messages : SoundLayout(m)
<1> USE DEF SoundLayout, Message, U64, U32
<1>1. SoundLayout(NewOrderRequest)
  BY DEF NewOrderRequest
<1>2. SoundLayout(CancelRequest)
  BY DEF CancelRequest
<1>3. SoundLayout(UpdateQtyRequest)
  BY DEF UpdateQtyRequest
<1>4. SoundLayout(PartialFillRequest)
  BY DEF PartialFillRequest
<1>5. SoundLayout(TimedResult)
  BY DEF TimedResult
<1>6. SoundLayout(FillInfo)
  BY DEF FillInfo
<1>7. SoundLayout(RemoveInfo)
  BY DEF RemoveInfo
<1>8. SoundLayout(QtyUpdatedInfo)
  BY DEF QtyUpdatedInfo
<1> HIDE DEF SoundLayout
<1> QED
  BY <1>1, <1>2, <1>3, <1>4, <1>5, <1>6, <1>7, <1>8 DEF Messages

(* No two messages have one template id.                                   *)
LEMMA TemplatesDiffer ==
  \A m, n \in Messages : m.template = n.template => m = n
<1>1. /\ NewOrderRequest.template = 1 /\ CancelRequest.template = 2
      /\ UpdateQtyRequest.template = 3 /\ PartialFillRequest.template = 4
      /\ TimedResult.template = 10 /\ FillInfo.template = 11
      /\ RemoveInfo.template = 12 /\ QtyUpdatedInfo.template = 13
  BY DEF Message, NewOrderRequest, CancelRequest, UpdateQtyRequest, PartialFillRequest,
         TimedResult, FillInfo, RemoveInfo, QtyUpdatedInfo
<1> QED
  BY <1>1 DEF Messages
-----------------------------------------------------------------------------
(* Buffers.                                                                *)

(* A write fills its own bytes and leaves all others alone.                *)
LEMMA PutFacts ==
  ASSUME NEW b, NEW len \in Nat, DOMAIN b = 0..len - 1, NEW at \in Nat, NEW field,
         NEW o \in Nat, NEW w \in Nat, field.offset = o, field.width = w, NEW v,
         at + o + w <= len, NEW c, c = PutAt(b, at, field, v)
  PROVE  /\ DOMAIN c = 0..len - 1 /\ Written(c, at + o, w, v)
         /\ \A i \in 0..len - 1 : i < at + o \/ i >= at + o + w => c[i] = b[i]
<1> DEFINE first == at + o
<1>1. c = [i \in 0..len - 1 |-> IF i \in first..first + w - 1
                                THEN <<v, i - first>> ELSE b[i]]
  BY DEF PutAt
<1>2. first \in Nat /\ first + w <= len
  OBVIOUS
<1> HIDE DEF first
<1>3. ASSUME NEW k \in 0..w - 1
      PROVE  c[first + k] = <<v, k>>
  <2>1. /\ first + k \in 0..len - 1 /\ first + k \in first..first + w - 1
        /\ (first + k) - first = k
    BY <1>2
  <2> QED
    BY <1>1, <2>1
<1>4. ASSUME NEW i \in 0..len - 1, i < first \/ i >= first + w
      PROVE  c[i] = b[i]
  BY <1>1, <1>2, <1>4
<1> QED
  BY <1>1, <1>3, <1>4 DEF first, Written

(* A read finds the value of which the bytes are.                          *)
LEMMA GetFacts ==
  ASSUME NEW b, NEW at \in Nat, NEW field, NEW o \in Nat, NEW w \in Nat, w > 0,
         field.offset = o, field.width = w, NEW v, Written(b, at + o, w, v)
  PROVE  GetAt(b, at, field) = v
<1> DEFINE first == at + o
<1>1. first \in Nat /\ \A k \in 0..w - 1 : b[first + k] = <<v, k>>
  BY DEF Written
<1>2. b[first] = <<v, 0>>
  <2>1. 0 \in 0..w - 1 /\ first + 0 = first
    OBVIOUS
  <2> QED
    BY <1>1, <2>1
<1>3. GetAt(b, at, field) =
        IF \A k \in 0..w - 1 : b[first + k] = <<b[first][1], k>>
        THEN b[first][1] ELSE Garbage
  BY DEF GetAt
<1>4. b[first][1] = v
  BY <1>2
<1> HIDE DEF first
<1> QED
  BY <1>1, <1>3, <1>4

(* Bytes keep their value while nobody writes to them.                     *)
LEMMA WrittenKept ==
  ASSUME NEW b, NEW c, NEW first \in Int, NEW w \in Nat, NEW v, Written(b, first, w, v),
         \A i \in first..first + w - 1 : c[i] = b[i]
  PROVE  Written(c, first, w, v)
<1>1. \A k \in 0..w - 1 : first + k \in first..first + w - 1
  OBVIOUS
<1> QED
  BY <1>1 DEF Written

(* A header, once written, is there, and the bytes around it are as before. *)
LEMMA PutHeaderFacts ==
  ASSUME NEW b, NEW len \in Nat, DOMAIN b = 0..len - 1, NEW at \in Nat,
         at + HeaderLength <= len, NEW m
  PROVE  /\ DOMAIN PutHeader(b, at, m) = 0..len - 1
         /\ HeaderStored(PutHeader(b, at, m), at, m)
         /\ \A i \in 0..len - 1 :
              i < at \/ i >= at + HeaderLength => PutHeader(b, at, m)[i] = b[i]
<1>1. PICK b1, b2, b3, b4 :
        /\ b1 = PutAt(b, at, Header.block_length, m.block)
        /\ b2 = PutAt(b1, at, Header.template_id, m.template)
        /\ b3 = PutAt(b2, at, Header.schema_id, SchemaId)
        /\ b4 = PutAt(b3, at, Header.version, SchemaVersion)
        /\ b4 = PutHeader(b, at, m)
  BY DEF PutHeader
<1>2. /\ Header.block_length.offset = 0 /\ Header.block_length.width = 2
      /\ Header.template_id.offset = 2 /\ Header.template_id.width = 2
      /\ Header.schema_id.offset = 4 /\ Header.schema_id.width = 2
      /\ Header.version.offset = 6 /\ Header.version.width = 2
  BY DEF Header, U16
<1>3. at + 8 <= len
  BY DEF HeaderLength
<1>4. /\ DOMAIN b1 = 0..len - 1 /\ Written(b1, at + 0, 2, m.block)
      /\ \A i \in 0..len - 1 : i < at + 0 \/ i >= at + 0 + 2 => b1[i] = b[i]
  <2>1. at + 0 + 2 <= len /\ 0 \in Nat /\ 2 \in Nat
    BY ONLY <1>3, at \in Nat, len \in Nat
  <2>2. /\ b1 = PutAt(b, at, Header.block_length, m.block)
        /\ Header.block_length.offset = 0 /\ Header.block_length.width = 2
        /\ DOMAIN b = 0..len - 1
    BY ONLY <1>1, <1>2, DOMAIN b = 0..len - 1
  <2> QED
    BY ONLY <2>1, <2>2, len \in Nat, at \in Nat, PutFacts
<1>5. /\ DOMAIN b2 = 0..len - 1 /\ Written(b2, at + 2, 2, m.template)
      /\ \A i \in 0..len - 1 : i < at + 2 \/ i >= at + 2 + 2 => b2[i] = b1[i]
  <2>1. at + 2 + 2 <= len /\ 2 \in Nat /\ 2 \in Nat
    BY ONLY <1>3, at \in Nat, len \in Nat
  <2>2. /\ b2 = PutAt(b1, at, Header.template_id, m.template)
        /\ Header.template_id.offset = 2 /\ Header.template_id.width = 2
        /\ DOMAIN b1 = 0..len - 1
    BY ONLY <1>1, <1>2, <1>4
  <2> QED
    BY ONLY <2>1, <2>2, len \in Nat, at \in Nat, PutFacts
<1>6. /\ DOMAIN b3 = 0..len - 1 /\ Written(b3, at + 4, 2, SchemaId)
      /\ \A i \in 0..len - 1 : i < at + 4 \/ i >= at + 4 + 2 => b3[i] = b2[i]
  <2>1. at + 4 + 2 <= len /\ 4 \in Nat /\ 2 \in Nat
    BY ONLY <1>3, at \in Nat, len \in Nat
  <2>2. /\ b3 = PutAt(b2, at, Header.schema_id, SchemaId)
        /\ Header.schema_id.offset = 4 /\ Header.schema_id.width = 2
        /\ DOMAIN b2 = 0..len - 1
    BY ONLY <1>1, <1>2, <1>5
  <2> QED
    BY ONLY <2>1, <2>2, len \in Nat, at \in Nat, PutFacts
<1>7. /\ DOMAIN b4 = 0..len - 1 /\ Written(b4, at + 6, 2, SchemaVersion)
      /\ \A i \in 0..len - 1 : i < at + 6 \/ i >= at + 6 + 2 => b4[i] = b3[i]
  <2>1. at + 6 + 2 <= len /\ 6 \in Nat /\ 2 \in Nat
    BY ONLY <1>3, at \in Nat, len \in Nat
  <2>2. /\ b4 = PutAt(b3, at, Header.version, SchemaVersion)
        /\ Header.version.offset = 6 /\ Header.version.width = 2
        /\ DOMAIN b3 = 0..len - 1
    BY ONLY <1>1, <1>2, <1>6
  <2> QED
    BY ONLY <2>1, <2>2, len \in Nat, at \in Nat, PutFacts
<1>8. ASSUME NEW i \in 0..len - 1, i < at + 6 \/ i >= at + 8
      PROVE  b4[i] = b3[i]
  BY ONLY <1>7, <1>8, at \in Nat, len \in Nat
<1>9. ASSUME NEW i \in 0..len - 1, i < at + 4 \/ i >= at + 8
      PROVE  b4[i] = b2[i]
  <2>1. i < at + 6 \/ i >= at + 8
    BY ONLY <1>9, at \in Nat, len \in Nat
  <2>2. b3[i] = b2[i]
    BY ONLY <1>6, <1>9, at \in Nat, len \in Nat
  <2> QED
    BY ONLY <1>8, <2>1, <2>2, i \in 0..len - 1
<1>10. ASSUME NEW i \in 0..len - 1, i < at + 2 \/ i >= at + 8
       PROVE  b4[i] = b1[i]
  <2>1. i < at + 4 \/ i >= at + 8
    BY ONLY <1>10, at \in Nat, len \in Nat
  <2>2. b2[i] = b1[i]
    BY ONLY <1>5, <1>10, at \in Nat, len \in Nat
  <2> QED
    BY ONLY <1>9, <2>1, <2>2, i \in 0..len - 1
<1>11. ASSUME NEW i \in 0..len - 1, i < at \/ i >= at + 8
       PROVE  b4[i] = b[i]
  <2>1. i < at + 2 \/ i >= at + 8
    BY ONLY <1>11, at \in Nat, len \in Nat
  <2>2. b1[i] = b[i]
    BY ONLY <1>4, <1>11, at \in Nat, len \in Nat
  <2> QED
    BY ONLY <1>10, <2>1, <2>2, i \in 0..len - 1
<1>12. Written(b4, at + 0, 2, m.block)
  <2>1. PICK first \in Int : first = at + 0
    OBVIOUS
  <2>2. ASSUME NEW i \in first..first + 2 - 1
        PROVE  b4[i] = b1[i]
    <3>1. i \in 0..len - 1 /\ i < at + 2
      BY ONLY <1>3, <2>1, <2>2, at \in Nat, len \in Nat
    <3> QED
      BY ONLY <1>10, <3>1
  <2>3. Written(b1, first, 2, m.block) /\ 2 \in Nat
    BY ONLY <1>4, <2>1
  <2>4. Written(b4, first, 2, m.block)
    BY ONLY <2>2, <2>3, first \in Int, WrittenKept
  <2> QED
    BY ONLY <2>1, <2>4
<1>13. Written(b4, at + 2, 2, m.template)
  <2>1. PICK first \in Int : first = at + 2
    OBVIOUS
  <2>2. ASSUME NEW i \in first..first + 2 - 1
        PROVE  b4[i] = b2[i]
    <3>1. i \in 0..len - 1 /\ i < at + 4
      BY ONLY <1>3, <2>1, <2>2, at \in Nat, len \in Nat
    <3> QED
      BY ONLY <1>9, <3>1
  <2>3. Written(b2, first, 2, m.template) /\ 2 \in Nat
    BY ONLY <1>5, <2>1
  <2>4. Written(b4, first, 2, m.template)
    BY ONLY <2>2, <2>3, first \in Int, WrittenKept
  <2> QED
    BY ONLY <2>1, <2>4
<1>14. at + 0 = at
  OBVIOUS
<1> QED
  BY ONLY <1>1, <1>7, <1>11, <1>12, <1>13, <1>14 DEF HeaderStored, HeaderLength
-----------------------------------------------------------------------------
(* Messages in a buffer.                                                   *)

(* The parts of a draft.                                                   *)
LEMMA DraftFacts ==
  ASSUME NEW d \in Draft
  PROVE  /\ d.message \in Messages /\ SoundLayout(d.message)
         /\ d.offset \in Nat /\ d.message.block \in Nat /\ End(d) \in Nat
         /\ d # NoDraft
<1>1. d.message \in Messages /\ d.offset \in Nat
  BY DEF Draft
<1>2. SoundLayout(d.message)
  BY <1>1, Layouts
<1>3. d.message.block \in Nat
  BY <1>2 DEF SoundLayout
<1>4. d # NoDraft
  <2>1. "offset" \in DOMAIN d /\ "offset" \notin DOMAIN NoDraft
    BY DEF Draft, NoDraft
  <2> QED
    BY <2>1
<1> QED
  BY <1>1, <1>2, <1>3, <1>4 DEF End

(* A message stays while nobody writes before its end.                     *)
LEMMA StoredKept ==
  ASSUME NEW b, NEW c, NEW d \in Draft, Stored(b, d), NEW e \in Nat, End(d) <= e,
         \A i \in 0..e - 1 : c[i] = b[i]
  PROVE  Stored(c, d)
<1>1. /\ d.offset \in Nat /\ d.offset >= 8 /\ d.message.block \in Nat
      /\ d.offset + d.message.block <= e /\ SoundLayout(d.message)
  BY DraftFacts DEF Stored, End, HeaderLength
<1>2. HeaderStored(c, Front(d), d.message)
  <2>1. PICK at \in Nat : at = Front(d) /\ at + 8 <= e
    BY <1>1 DEF Front, HeaderLength
  <2>2. Written(b, at, 2, d.message.block) /\ Written(b, at + 2, 2, d.message.template)
    BY <2>1 DEF Stored, HeaderStored
  <2>3. /\ \A i \in at..at + 2 - 1 : c[i] = b[i]
        /\ \A i \in at + 2..at + 2 + 2 - 1 : c[i] = b[i]
    BY <2>1
  <2>4. Written(c, at, 2, d.message.block)
    BY <2>2, <2>3, WrittenKept
  <2>5. Written(c, at + 2, 2, d.message.template)
    BY <2>2, <2>3, WrittenKept
  <2> QED
    BY <2>1, <2>4, <2>5 DEF HeaderStored
<1>3. ASSUME NEW f \in DOMAIN d.values
      PROVE  /\ f \in DOMAIN d.message.fields
             /\ Written(c, d.offset + d.message.fields[f].offset,
                        d.message.fields[f].width, d.values[f])
  <2>1. /\ f \in DOMAIN d.message.fields
        /\ Written(b, d.offset + d.message.fields[f].offset,
                   d.message.fields[f].width, d.values[f])
    BY DEF Stored
  <2>2. PICK o \in Nat, w \in Nat :
          /\ o = d.message.fields[f].offset /\ w = d.message.fields[f].width
          /\ o + w <= d.message.block
    BY <1>1, <2>1 DEF SoundLayout
  <2>3. d.offset + o \in Int /\ \A i \in d.offset + o..d.offset + o + w - 1 : c[i] = b[i]
    BY <1>1, <2>2
  <2>4. Written(c, d.offset + o, w, d.values[f])
    BY <2>1, <2>2, <2>3, WrittenKept
  <2> QED
    BY <2>1, <2>2, <2>4
<1> QED
  BY <1>1, <1>2, <1>3 DEF Stored, HeaderLength

(* The header of a message is read back.                                   *)
LEMMA HeaderRead ==
  ASSUME NEW b, NEW d \in Draft, Stored(b, d)
  PROVE  /\ HeaderAt(b, Front(d)).template_id = d.message.template
         /\ HeaderAt(b, Front(d)).block_length = d.message.block
<1>1. PICK at \in Nat : at = Front(d)
  BY DraftFacts DEF Stored, Front, HeaderLength
<1>2. Written(b, at, 2, d.message.block) /\ Written(b, at + 2, 2, d.message.template)
  BY <1>1 DEF Stored, HeaderStored
<1>3. /\ Header.block_length.offset = 0 /\ Header.block_length.width = 2
      /\ Header.template_id.offset = 2 /\ Header.template_id.width = 2
  BY DEF Header, U16
<1>4. GetAt(b, at, Header.block_length) = d.message.block
  <2>1. 0 \in Nat /\ 2 \in Nat /\ 2 > 0 /\ at + 0 = at
    OBVIOUS
  <2> QED
    BY <1>2, <1>3, <2>1, GetFacts
<1>5. GetAt(b, at, Header.template_id) = d.message.template
  <2>1. 2 \in Nat /\ 2 > 0
    OBVIOUS
  <2> QED
    BY <1>2, <1>3, <2>1, GetFacts
<1>6. /\ HeaderAt(b, at).template_id = GetAt(b, at, Header.template_id)
      /\ HeaderAt(b, at).block_length = GetAt(b, at, Header.block_length)
  BY DEF HeaderAt, Header
<1> QED
  BY <1>1, <1>4, <1>5, <1>6

(* The fields of a message that were set are read back.                    *)
LEMMA FieldsRead ==
  ASSUME NEW b, NEW d \in Draft, Stored(b, d), NEW f \in DOMAIN d.values
  PROVE  Decode(b, d.offset, d.message)[f] = Presented(d.message, f, d.values[f])
<1>1. /\ f \in DOMAIN d.message.fields
      /\ Written(b, d.offset + d.message.fields[f].offset,
                 d.message.fields[f].width, d.values[f])
  BY DEF Stored
<1>2. PICK o \in Nat, w \in Nat :
        /\ o = d.message.fields[f].offset /\ w = d.message.fields[f].width
        /\ w > 0 /\ d.offset \in Nat
  BY <1>1, DraftFacts DEF SoundLayout
<1>3. GetAt(b, d.offset, d.message.fields[f]) = d.values[f]
  BY <1>1, <1>2, GetFacts
<1> QED
  BY <1>1, <1>3 DEF Decode

(* d with one more value.                                                  *)
Assigned(values, f, v) == [g \in DOMAIN values \cup {f} |-> IF g = f THEN v ELSE values[g]]

(* A draft with one more value is a draft.                                 *)
LEMMA AssignedDraft ==
  ASSUME NEW d \in Draft, NEW f \in DOMAIN d.message.fields, NEW v \in Values,
         NEW e, e = [d EXCEPT !.values = Assigned(d.values, f, v)]
  PROVE  /\ e \in Draft /\ e.message = d.message /\ e.offset = d.offset
         /\ e.values = Assigned(d.values, f, v)
<1>1. PICK S \in SUBSET FieldNames : d.values \in [S -> Values]
  BY DEF Draft, Assignments
<1>2. f \in FieldNames
  BY DEF FieldNames, Draft
<1>3. /\ S \cup {f} \in SUBSET FieldNames
      /\ Assigned(d.values, f, v) \in [S \cup {f} -> Values]
  BY <1>1, <1>2 DEF Assigned
<1>4. Assigned(d.values, f, v) \in Assignments
  BY <1>3 DEF Assignments
<1> QED
  BY <1>4 DEF Draft

(* c is b with the w bytes from first on filled with those of v.           *)
Puts(b, c, len, first, w, v) ==
  /\ DOMAIN b = 0..len - 1 /\ DOMAIN c = 0..len - 1 /\ Written(c, first, w, v)
  /\ \A i \in 0..len - 1 : i < first \/ i >= first + w => c[i] = b[i]

(* A setter makes its field the value, keeps the others and the header.    *)
LEMMA FieldSet ==
  ASSUME NEW b, NEW d \in Draft, Stored(b, d), NEW len \in Nat, End(d) <= len,
         NEW f \in DOMAIN d.message.fields, NEW v \in Values, NEW o \in Nat, NEW w \in Nat,
         o = d.message.fields[f].offset, w = d.message.fields[f].width,
         NEW c, Puts(b, c, len, d.offset + o, w, v),
         NEW e \in Draft, e.message = d.message, e.offset = d.offset,
         e.values = Assigned(d.values, f, v)
  PROVE  Stored(c, e)
<1> DEFINE vs == Assigned(d.values, f, v)
<1>1. /\ d.offset \in Nat /\ d.offset >= 8 /\ d.message.block \in Nat
      /\ d.offset + d.message.block <= len
      /\ SoundLayout(d.message) /\ d.message \in Messages
  BY DraftFacts DEF Stored, End, HeaderLength
<1>2. o + w <= d.message.block
  BY <1>1 DEF SoundLayout
<1>3. /\ DOMAIN c = 0..len - 1 /\ Written(c, d.offset + o, w, v)
      /\ \A i \in 0..len - 1 : i < d.offset + o \/ i >= d.offset + o + w => c[i] = b[i]
  BY DEF Puts
<1>4. HeaderStored(c, Front(d), d.message)
  <2>1. PICK at \in Nat : at = Front(d) /\ at + 8 = d.offset
    BY <1>1 DEF Front, HeaderLength
  <2>2. Written(b, at, 2, d.message.block) /\ Written(b, at + 2, 2, d.message.template)
    BY <2>1 DEF Stored, HeaderStored
  <2>3. ASSUME NEW i \in at..at + 3
        PROVE  c[i] = b[i]
    <3>1. i \in 0..len - 1 /\ i < d.offset + o
      BY <1>1, <2>1
    <3> QED
      BY <1>3, <3>1
  <2>4. Written(c, at, 2, d.message.block)
    <3>1. \A i \in at..at + 2 - 1 : c[i] = b[i]
      BY <2>3
    <3> QED
      BY <2>2, <3>1, WrittenKept
  <2>5. Written(c, at + 2, 2, d.message.template)
    <3>1. \A i \in at + 2..at + 2 + 2 - 1 : c[i] = b[i]
      BY <2>3
    <3> QED
      BY <2>2, <3>1, WrittenKept
  <2> QED
    BY <2>1, <2>4, <2>5 DEF HeaderStored
<1> HIDE DEF vs
<1>5. ASSUME NEW g \in DOMAIN vs
      PROVE  /\ g \in DOMAIN d.message.fields
             /\ Written(c, d.offset + d.message.fields[g].offset,
                        d.message.fields[g].width, vs[g])
  <2>1. CASE g = f
    BY <1>2, <1>3, <2>1 DEF vs, Assigned
  <2>2. CASE g # f
    <3>1. g \in DOMAIN d.values /\ vs[g] = d.values[g]
      BY <2>2 DEF vs, Assigned
    <3>2. /\ g \in DOMAIN d.message.fields
          /\ Written(b, d.offset + d.message.fields[g].offset,
                     d.message.fields[g].width, d.values[g])
      BY <3>1 DEF Stored
    <3>3. PICK p \in Nat, u \in Nat :
            /\ p = d.message.fields[g].offset /\ u = d.message.fields[g].width
            /\ p + u <= d.message.block /\ (p + u <= o \/ o + w <= p)
      BY <1>1, <1>2, <2>2, <3>2 DEF SoundLayout
    <3>4. ASSUME NEW i \in d.offset + p..d.offset + p + u - 1
          PROVE  c[i] = b[i]
      <4>1. /\ i \in 0..len - 1
            /\ i < d.offset + o \/ i >= d.offset + o + w
        BY <1>1, <1>2, <3>3
      <4> QED
        BY <1>3, <4>1
    <3>5. Written(c, d.offset + p, u, d.values[g])
      <4>1. d.offset + p \in Int
        BY <1>1
      <4> QED
        BY <3>2, <3>3, <3>4, <4>1, WrittenKept
    <3> QED
      BY <3>1, <3>2, <3>3, <3>5
  <2> QED
    BY <2>1, <2>2
<1> QED
  BY <1>1, <1>4, <1>5 DEF Stored, Front, HeaderLength, vs
-----------------------------------------------------------------------------
(* The stream.                                                             *)

(* Before the edge lie messages that are complete, behind it nothing or    *)
(* the draft.                                                              *)
Edge == IF draft = NoDraft THEN limit ELSE Front(draft)

(* The unread messages lie side by side from the reader's position to the  *)
(* edge.                                                                   *)
Aligned ==
  IF unread = <<>> THEN position = Edge
  ELSE /\ Front(unread[1]) = position /\ End(unread[Len(unread)]) = Edge
       /\ \A i \in 1..Len(unread) - 1 : Front(unread[i + 1]) = End(unread[i])

BufferInv ==
  /\ DOMAIN buf = 0..BufferLength - 1
  /\ limit \in 0..BufferLength /\ position \in Nat
  /\ draft \in Draft \cup {NoDraft} /\ unread \in Seq(Draft)
  /\ draft # NoDraft => Stored(buf, draft) /\ End(draft) = limit
  /\ \A i \in 1..Len(unread) : Stored(buf, unread[i]) /\ End(unread[i]) <= Edge
  /\ Aligned

StreamInv == BufferInv /\ DecodedAsSet /\ MisreadCaught

(* The edge lies in the buffer.                                            *)
LEMMA EdgeFacts ==
  ASSUME BufferInv
  PROVE  Edge \in Nat /\ Edge <= limit /\ limit \in Nat /\ limit <= BufferLength
<1>1. limit \in Nat /\ limit <= BufferLength
  BY BoundsAssumption DEF BufferInv
<1>2. CASE draft = NoDraft
  BY <1>1, <1>2 DEF Edge
<1>3. CASE draft # NoDraft
  <2>1. draft \in Draft /\ Stored(buf, draft) /\ End(draft) = limit
    BY <1>3 DEF BufferInv
  <2>2. /\ draft.offset \in Nat /\ draft.message.block \in Nat /\ draft.offset >= 8
        /\ draft.offset + draft.message.block = limit
    BY <2>1, DraftFacts DEF Stored, End, HeaderLength
  <2> QED
    BY <1>1, <1>3, <2>2 DEF Edge, Front, HeaderLength
<1> QED
  BY <1>2, <1>3

(* The messages before the edge stay while nobody writes there.            *)
LEMMA UnreadKept ==
  ASSUME BufferInv, NEW c, \A i \in 0..Edge - 1 : c[i] = buf[i]
  PROVE  \A i \in 1..Len(unread) : Stored(c, unread[i]) /\ End(unread[i]) <= Edge
<1>1. ASSUME NEW i \in 1..Len(unread)
      PROVE  Stored(c, unread[i]) /\ End(unread[i]) <= Edge
  <2>1. unread[i] \in Draft /\ Stored(buf, unread[i]) /\ End(unread[i]) <= Edge
    BY DEF BufferInv
  <2>2. Edge \in Nat
    BY EdgeFacts
  <2> QED
    BY <2>1, <2>2, StoredKept
<1> QED
  BY <1>1

(* The empty stream.                                                       *)
LEMMA InitStream == Init => StreamInv
<1> SUFFICES ASSUME Init PROVE StreamInv
  OBVIOUS
<1>1. BufferInv
  BY BoundsAssumption DEF Init, BufferInv, Aligned, Edge
<1>2. DecodedAsSet /\ MisreadCaught
  BY DEF Init, NoReading, DecodedAsSet, MisreadCaught
<1> QED
  BY <1>1, <1>2 DEF StreamInv

(* A header goes behind the edge and opens a draft without fields.         *)
LEMMA StartKeeps ==
  ASSUME BufferInv, NEW m \in Used, Start(m)
  PROVE  BufferInv'
<1>1. /\ draft = NoDraft /\ limit + 8 + m.block <= BufferLength
      /\ buf' = PutHeader(buf, limit, m) /\ limit' = limit + 8 + m.block
      /\ draft' = [message |-> m, offset |-> limit + 8, values |-> <<>>]
      /\ unread' = unread /\ position' = position
  BY DEF Start, HeaderLength
<1>2. Edge = limit /\ limit \in Nat /\ BufferLength \in Nat /\ m \in Messages /\ m.block \in Nat
  BY <1>1, EdgeFacts, UsedAssumption, BoundsAssumption, Layouts DEF Edge, SoundLayout
<1>3. /\ DOMAIN buf' = 0..BufferLength - 1 /\ HeaderStored(buf', limit, m)
      /\ \A i \in 0..BufferLength - 1 : i < limit => buf'[i] = buf[i]
  <2>1. limit + HeaderLength <= BufferLength /\ DOMAIN buf = 0..BufferLength - 1
    BY <1>1, <1>2 DEF HeaderLength, BufferInv
  <2> QED
    BY <1>1, <1>2, <2>1, PutHeaderFacts
<1>4. draft' \in Draft
  <2>1. <<>> \in [{} -> Values]
    OBVIOUS
  <2>2. <<>> \in Assignments
    BY <2>1 DEF Assignments
  <2> QED
    BY <1>1, <1>2, <2>2 DEF Draft
<1>5. /\ draft' # NoDraft /\ draft'.message = m /\ draft'.offset = limit + 8
      /\ DOMAIN draft'.values = {}
  BY <1>1, <1>4, DraftFacts
<1>6. Front(draft') = limit /\ End(draft') = limit'
  BY <1>1, <1>2, <1>5 DEF Front, End, HeaderLength
<1>7. Stored(buf', draft')
  BY <1>2, <1>3, <1>5, <1>6 DEF Stored, HeaderLength
<1>8. Edge' = Edge
  BY <1>2, <1>5, <1>6 DEF Edge, NoDraft
<1>9. \A i \in 1..Len(unread') : Stored(buf', unread'[i]) /\ End(unread'[i]) <= Edge'
  <2>1. \A i \in 0..Edge - 1 : buf'[i] = buf[i]
    BY <1>1, <1>2, <1>3
  <2> QED
    BY <1>1, <1>8, <2>1, UnreadKept
<1>10. Aligned'
  BY <1>1, <1>8 DEF Aligned, BufferInv, Front, End
<1>11. limit' \in 0..BufferLength
  BY <1>1, <1>2
<1> QED
  BY <1>1, <1>3, <1>4, <1>6, <1>7, <1>9, <1>10, <1>11 DEF BufferInv, NoDraft, End

(* A setter changes the draft and its bytes.                               *)
LEMMA SetFieldKeeps ==
  ASSUME BufferInv, draft # NoDraft, NEW f \in DOMAIN draft.message.fields,
         NEW v \in Values, SetField(f, v)
  PROVE  BufferInv'
<1>1. /\ draft \in Draft /\ Stored(buf, draft) /\ End(draft) = limit
      /\ DOMAIN buf = 0..BufferLength - 1
  BY DEF BufferInv
<1>2. /\ buf' = PutAt(buf, draft.offset, draft.message.fields[f], v)
      /\ draft' = [draft EXCEPT !.values = Assigned(draft.values, f, v)]
      /\ UNCHANGED <<limit, unread, position>>
  BY DEF SetField, Assigned
<1>3. /\ draft' \in Draft /\ draft'.message = draft.message /\ draft'.offset = draft.offset
      /\ draft'.values = Assigned(draft.values, f, v)
  BY <1>1, <1>2, AssignedDraft
<1>4. /\ draft.offset \in Nat /\ draft.message.block \in Nat /\ draft.offset >= 8
      /\ draft.offset + draft.message.block = limit /\ limit <= BufferLength
      /\ BufferLength \in Nat /\ limit \in Nat /\ SoundLayout(draft.message)
  BY <1>1, DraftFacts, EdgeFacts, BoundsAssumption DEF Stored, End, HeaderLength
<1>5. PICK o \in Nat, w \in Nat :
        /\ draft.message.fields[f].offset = o /\ draft.message.fields[f].width = w
        /\ o + w <= draft.message.block
  BY <1>4 DEF SoundLayout
<1>6. Puts(buf, buf', BufferLength, draft.offset + o, w, v)
  <2>1. draft.offset + o + w <= BufferLength
    BY <1>4, <1>5
  <2>2. PICK at, field :
          /\ at = draft.offset /\ at \in Nat /\ field = draft.message.fields[f]
          /\ field.offset = o /\ field.width = w
    BY <1>4, <1>5
  <2>3. buf' = PutAt(buf, at, field, v) /\ at + o + w <= BufferLength
    BY <1>2, <2>1, <2>2
  <2>4. /\ DOMAIN buf' = 0..BufferLength - 1 /\ Written(buf', at + o, w, v)
        /\ \A i \in 0..BufferLength - 1 : i < at + o \/ i >= at + o + w => buf'[i] = buf[i]
    <3>1. /\ field.offset = o /\ field.width = w /\ DOMAIN buf = 0..BufferLength - 1
          /\ BufferLength \in Nat /\ at \in Nat
      BY <1>1, <1>4, <2>2
    <3> QED
      BY ONLY <2>3, <3>1, PutFacts
  <2> QED
    BY <1>1, <2>2, <2>4 DEF Puts
<1>7. Stored(buf', draft')
  BY <1>1, <1>3, <1>4, <1>5, <1>6, FieldSet
<1>8. draft' # NoDraft /\ End(draft') = limit'
  BY <1>1, <1>2, <1>3, DraftFacts DEF End
<1>9. Edge' = Edge /\ Edge = draft.offset - 8
  BY <1>3, <1>8 DEF Edge, Front, NoDraft, HeaderLength
<1>10. \A i \in 1..Len(unread') : Stored(buf', unread'[i]) /\ End(unread'[i]) <= Edge'
  <2>1. ASSUME NEW i \in 0..Edge - 1
        PROVE  buf'[i] = buf[i]
    <3>1. i \in 0..BufferLength - 1 /\ i < draft.offset + o
      BY <1>4, <1>9
    <3> QED
      BY <1>6, <3>1 DEF Puts
  <2> QED
    BY <1>2, <1>9, <2>1, UnreadKept
<1>11. Aligned'
  BY <1>2, <1>9 DEF Aligned, BufferInv, Front, End
<1>12. DOMAIN buf' = 0..BufferLength - 1 /\ limit' \in 0..BufferLength /\ position' \in Nat
       /\ unread' \in Seq(Draft)
  BY <1>2, <1>6 DEF Puts, BufferInv
<1> QED
  BY <1>3, <1>7, <1>8, <1>10, <1>11, <1>12 DEF BufferInv, NoDraft, End

(* A complete draft is the last of the unread messages.                    *)
LEMMA CompleteKeeps ==
  ASSUME BufferInv, Complete
  PROVE  BufferInv'
<1>1. /\ draft # NoDraft /\ draft \in Draft /\ Stored(buf, draft) /\ End(draft) = limit
      /\ unread \in Seq(Draft)
      /\ unread' = Append(unread, draft) /\ draft' = NoDraft
      /\ UNCHANGED <<buf, limit, position>>
  BY DEF BufferInv, Complete
<1>2. PICK n \in Nat : n = Len(unread)
  BY <1>1
<1>3. /\ unread' \in Seq(Draft) /\ Len(unread') = n + 1 /\ unread'[n + 1] = draft
      /\ \A i \in 1..n : unread'[i] = unread[i]
      /\ unread' # <<>> /\ (unread = <<>> <=> n = 0)
  BY <1>1, <1>2
<1>4. Edge' = limit /\ Edge = Front(draft) /\ Edge <= limit /\ Edge \in Nat /\ limit \in Nat
  BY <1>1, EdgeFacts DEF Edge
<1>5. \A i \in 1..n + 1 : i = n + 1 \/ i \in 1..n
  OBVIOUS
<1>6. \A i \in 1..n + 1 : Stored(buf, unread'[i]) /\ End(unread'[i]) <= limit
  <2>1. ASSUME NEW i \in 1..n
        PROVE  Stored(buf, unread'[i]) /\ End(unread'[i]) <= limit
    <3>1. unread[i] \in Draft /\ Stored(buf, unread[i]) /\ End(unread[i]) <= Edge
      BY <1>2 DEF BufferInv
    <3>2. End(unread[i]) \in Nat
      BY <3>1, DraftFacts
    <3> QED
      BY <1>3, <1>4, <3>1, <3>2
  <2>2. Stored(buf, unread'[n + 1]) /\ End(unread'[n + 1]) <= limit
    BY <1>1, <1>3, <1>4
  <2> QED
    BY <1>5, <2>1, <2>2
<1>7. /\ Front(unread'[1]) = position /\ End(unread'[n + 1]) = limit
      /\ \A i \in 1..n : Front(unread'[i + 1]) = End(unread'[i])
  <2>1. CASE n = 0
    BY <1>1, <1>3, <1>4, <2>1 DEF BufferInv, Aligned
  <2>2. CASE n # 0
    <3>1. /\ Front(unread[1]) = position /\ End(unread[n]) = Edge
          /\ \A i \in 1..n - 1 : Front(unread[i + 1]) = End(unread[i])
      BY <1>2, <1>3, <2>2 DEF BufferInv, Aligned
    <3>2. 1 \in 1..n /\ \A i \in 1..n : i = n \/ (i \in 1..n - 1 /\ i + 1 \in 1..n)
      BY <2>2
    <3>3. ASSUME NEW i \in 1..n
          PROVE  Front(unread'[i + 1]) = End(unread'[i])
      <4>1. CASE i = n
        BY <1>3, <1>4, <3>1, <4>1
      <4>2. CASE i # n
        BY <1>3, <3>1, <3>2, <4>2
      <4> QED
        BY <4>1, <4>2
    <3> QED
      BY <1>1, <1>3, <3>1, <3>2, <3>3
  <2> QED
    BY <2>1, <2>2
<1>8. \A i \in 1..Len(unread') : Stored(buf', unread'[i]) /\ End(unread'[i]) <= Edge'
  BY <1>1, <1>3, <1>4, <1>6
<1>9. Aligned'
  <2>1. Len(unread') - 1 = n
    BY <1>3
  <2> QED
    BY <1>1, <1>3, <1>4, <1>7, <2>1 DEF Aligned, Front, End
<1> QED
  BY <1>1, <1>3, <1>8, <1>9 DEF BufferInv, End

(* What a reader finds at its position: a whole message of its kind.       *)
LEMMA AtPosition ==
  ASSUME BufferInv, unread # <<>>
  PROVE  /\ unread[1] \in Draft /\ Stored(buf, unread[1]) /\ Head(unread) = unread[1]
         /\ Front(unread[1]) = position /\ unread[1].offset = position + HeaderLength
         /\ \A m \in Messages : Announced(m) <=> m = unread[1].message
         /\ Fits(buf, position + HeaderLength, unread[1].message)
         /\ position + HeaderLength + HeaderAt(buf, position).block_length = End(unread[1])
<1> DEFINE d == unread[1]
<1>1. /\ d \in Draft /\ Stored(buf, d) /\ End(d) <= Edge /\ Front(d) = position
      /\ Head(unread) = d /\ DOMAIN buf = 0..BufferLength - 1
  BY DEF BufferInv, Aligned
<1> HIDE DEF d
<1>2. /\ d.offset \in Nat /\ d.offset = position + HeaderLength /\ d.message \in Messages
      /\ d.message.block \in Nat /\ SoundLayout(d.message)
      /\ d.offset + d.message.block <= BufferLength /\ BufferLength \in Nat
  BY <1>1, DraftFacts, EdgeFacts, BoundsAssumption DEF Front, End, HeaderLength
<1>3. /\ HeaderAt(buf, position).template_id = d.message.template
      /\ HeaderAt(buf, position).block_length = d.message.block
  BY <1>1, HeaderRead
<1>4. \A m \in Messages : Announced(m) <=> m = d.message
  BY <1>2, <1>3, TemplatesDiffer DEF Announced
<1>5. Fits(buf, d.offset, d.message)
  <2>1. ASSUME NEW f \in DOMAIN d.message.fields
        PROVE  d.offset + d.message.fields[f].offset + d.message.fields[f].width - 1 \in DOMAIN buf
    <3>1. PICK o \in Nat, w \in Nat :
            /\ d.message.fields[f].offset = o /\ d.message.fields[f].width = w
            /\ w > 0 /\ o + w <= d.message.block
      BY <1>2 DEF SoundLayout
    <3>2. d.offset + o + w - 1 \in 0..BufferLength - 1
      BY <1>2, <3>1
    <3> QED
      BY <1>1, <3>1, <3>2
  <2> QED
    BY <2>1 DEF Fits
<1> QED
  BY <1>1, <1>2, <1>3, <1>4, <1>5 DEF d, End

(* Whichever decoder reads, it ends where the message ends.                *)
LEMMA ReadAsKeeps ==
  ASSUME BufferInv, NEW m \in Used, ReadAs(m)
  PROVE  BufferInv'
<1>1. unread # <<>> /\ UNCHANGED <<buf, limit, draft>>
  BY DEF ReadAs
<1>2. Edge' = Edge
  BY <1>1 DEF Edge, Front
<1>3. CASE UNCHANGED <<unread, position>>
  BY <1>1, <1>2, <1>3 DEF BufferInv, Aligned, Front, End
<1>4. CASE unread' = Tail(unread)
           /\ position' = position + HeaderLength + HeaderAt(buf, position).block_length
  <2>1. PICK n \in Nat : n = Len(unread) /\ n > 0
    BY <1>1 DEF BufferInv
  <2>2. /\ unread' \in Seq(Draft) /\ Len(unread') = n - 1
        /\ \A i \in 1..n - 1 : unread'[i] = unread[i + 1]
        /\ unread' = <<>> <=> n = 1
    <3>1. /\ Tail(unread) \in Seq(Draft) /\ Len(Tail(unread)) = n - 1
          /\ \A i \in 1..n - 1 : Tail(unread)[i] = unread[i + 1]
      BY <1>1, <2>1, HeadTailProperties DEF BufferInv
    <3>2. Len(<<>>) = 0 /\ \A q \in Seq(Draft) : q # <<>> => Len(q) # 0
      BY EmptySeq
    <3>3. Tail(unread) = <<>> <=> n = 1
      <4>1. PICK q \in Seq(Draft) : q = Tail(unread) /\ Len(q) = n - 1
        BY <3>1
      <4>2. CASE n = 1
        BY <3>2, <4>1, <4>2
      <4>3. CASE n # 1
        <5>1. Len(q) # Len(<<>>)
          BY <2>1, <3>2, <4>1, <4>3
        <5> QED
          BY <4>1, <4>3, <5>1
      <4> QED
        BY <4>2, <4>3
    <3> QED
      BY <1>4, <3>1, <3>3
  <2>3. position' = End(unread[1]) /\ position' \in Nat
    BY <1>1, <1>4, AtPosition, DraftFacts
  <2>4. /\ End(unread[n]) = Edge
        /\ \A i \in 1..n - 1 : Front(unread[i + 1]) = End(unread[i])
        /\ \A i \in 1..n : Stored(buf, unread[i]) /\ End(unread[i]) <= Edge
    BY <1>1, <2>1 DEF BufferInv, Aligned
  <2>5. \A i \in 1..n - 1 : Stored(buf, unread'[i]) /\ End(unread'[i]) <= Edge
    <3>1. \A i \in 1..n - 1 : i + 1 \in 1..n
      BY <2>1
    <3> QED
      BY <2>2, <2>4, <3>1
  <2>6. Aligned'
    <3>1. CASE n = 1
      BY <1>2, <2>2, <2>3, <2>4, <3>1 DEF Aligned
    <3>2. CASE n # 1
      <4>1. /\ 1 \in 1..n - 1 /\ n - 1 \in 1..n - 1 /\ (n - 1) + 1 = n
            /\ \A i \in 1..(n - 1) - 1 : i \in 1..n - 1 /\ i + 1 \in 1..n - 1
        BY <2>1, <3>2
      <4>2. Front(unread'[1]) = position'
        BY <2>2, <2>3, <2>4, <4>1
      <4>3. End(unread'[n - 1]) = Edge'
        BY <1>2, <2>2, <2>4, <4>1
      <4>4. \A i \in 1..(n - 1) - 1 : Front(unread'[i + 1]) = End(unread'[i])
        BY <2>2, <2>4, <4>1
      <4> QED
        BY <2>2, <3>2, <4>2, <4>3, <4>4 DEF Aligned, Front, End
    <3> QED
      BY <3>1, <3>2
  <2> QED
    BY <1>1, <1>2, <2>2, <2>3, <2>5, <2>6 DEF BufferInv, End
<1> QED
  BY <1>3, <1>4 DEF ReadAs

(* The right decoder decodes what was set; the assertion stops the others. *)
LEMMA ReadAsReads ==
  ASSUME BufferInv, NEW m \in Used, ReadAs(m)
  PROVE  DecodedAsSet' /\ MisreadCaught'
<1> DEFINE d == unread[1]
<1>1. /\ unread # <<>> /\ m \in Messages /\ d \in Draft /\ Stored(buf, d)
      /\ Head(unread) = d /\ d.offset = position + HeaderLength
      /\ (Announced(m) <=> m = d.message)
      /\ Fits(buf, position + HeaderLength, d.message)
  BY UsedAssumption, AtPosition DEF ReadAs
<1> HIDE DEF d
<1>2. CASE /\ ~Accepted(m)
           /\ reading' = [outcome |-> "panic", sent |-> d, decoder |-> m]
  <2>1. reading'.outcome = "panic" /\ reading'.sent = d /\ reading'.decoder = m
    BY <1>2
  <2>2. DebugBuild => m # d.message
    BY <1>1, <1>2 DEF Accepted
  <2> QED
    BY <2>1, <2>2 DEF DecodedAsSet, MisreadCaught, Panicked
<1>3. CASE /\ Accepted(m)
           /\ reading' = [outcome |-> "decoded", sent |-> d, decoder |-> m,
                          values |-> Decode(buf, position + HeaderLength, m)]
  <2>1. /\ reading'.outcome = "decoded" /\ reading'.sent = d /\ reading'.decoder = m
        /\ reading'.values = Decode(buf, d.offset, m)
    BY <1>1, <1>3
  <2>2. DebugBuild => m = d.message
    BY <1>1, <1>3 DEF Accepted
  <2>3. DecodedAsSet'
    <3>1. m = d.message =>
            \A f \in DOMAIN d.values :
              Decode(buf, d.offset, m)[f] = Presented(m, f, d.values[f])
      BY <1>1, FieldsRead
    <3> QED
      BY <2>1, <3>1 DEF DecodedAsSet
  <2>4. MisreadCaught'
    BY <2>1, <2>2 DEF MisreadCaught, Panicked
  <2> QED
    BY <2>3, <2>4
<1> QED
  BY <1>1, <1>2, <1>3 DEF ReadAs

(* Writer and reader meet again at the front.                              *)
LEMMA ReuseKeeps ==
  ASSUME BufferInv, Reuse
  PROVE  BufferInv' /\ DecodedAsSet' /\ MisreadCaught'
<1>1. BufferInv'
  BY BoundsAssumption DEF Reuse, BufferInv, Aligned, Edge
<1>2. DecodedAsSet' /\ MisreadCaught'
  BY DEF Reuse, NoReading, DecodedAsSet, MisreadCaught
<1> QED
  BY <1>1, <1>2

(* Every step preserves the invariant.                                     *)
LEMMA StreamInvariance == Spec => []StreamInv
<1>1. StreamInv /\ [Next]_vars => StreamInv'
  <2> SUFFICES ASSUME StreamInv, [Next]_vars PROVE StreamInv'
    OBVIOUS
  <2>1. BufferInv /\ DecodedAsSet /\ MisreadCaught
    BY DEF StreamInv
  <2>2. ASSUME UNCHANGED reading
        PROVE  DecodedAsSet' /\ MisreadCaught'
    BY <2>1, <2>2 DEF DecodedAsSet, MisreadCaught, Panicked
  <2>3. ASSUME NEW m \in Used, Start(m)
        PROVE  StreamInv'
    BY <2>1, <2>2, <2>3, StartKeeps DEF StreamInv, Start
  <2>4. ASSUME draft # NoDraft, NEW f \in DOMAIN draft.message.fields, NEW v \in Values,
               SetField(f, v)
        PROVE  StreamInv'
    BY <2>1, <2>2, <2>4, SetFieldKeeps DEF StreamInv, SetField
  <2>5. CASE Complete
    BY <2>1, <2>2, <2>5, CompleteKeeps DEF StreamInv, Complete
  <2>6. ASSUME NEW m \in Used, ReadAs(m)
        PROVE  StreamInv'
    BY <2>1, <2>6, ReadAsKeeps, ReadAsReads DEF StreamInv
  <2>7. CASE Reuse
    BY <2>1, <2>7, ReuseKeeps DEF StreamInv
  <2>8. CASE UNCHANGED vars
    BY <2>1, <2>2, <2>8 DEF vars, StreamInv, BufferInv, Aligned, Edge, Front, End
  <2> QED
    BY <2>3, <2>4, <2>5, <2>6, <2>7, <2>8 DEF Next
<1> QED
  BY <1>1, InitStream, PTL DEF Spec

(* For every buffer, any values and any number of messages: what is set is *)
(* what the decoder of the kind decodes.                                   *)
THEOREM DecodingExact == Spec => []DecodedAsSet
<1>1. StreamInv => DecodedAsSet
  BY DEF StreamInv
<1> QED
  BY <1>1, StreamInvariance, PTL

(* The reader finds every next message, whichever decoders it takes.       *)
THEOREM ReaderKeepsTrack == Spec => []ReaderOnTrack
<1>1. ASSUME StreamInv PROVE ReaderOnTrack
  <2>1. BufferInv
    BY <1>1 DEF StreamInv
  <2>2. CASE unread # <<>>
    BY <2>1, <2>2, AtPosition, DraftFacts DEF ReaderOnTrack
  <2>3. CASE unread = <<>>
    BY <2>1, <2>3 DEF ReaderOnTrack, BufferInv, Aligned, Edge
  <2> QED
    BY <2>2, <2>3
<1> QED
  BY <1>1, StreamInvariance, PTL

(* In a debug build no misread gets through, and nothing else is stopped.  *)
THEOREM AssertionExact == Spec => []MisreadCaught
<1>1. StreamInv => MisreadCaught
  BY DEF StreamInv
<1> QED
  BY <1>1, StreamInvariance, PTL
=============================================================================
