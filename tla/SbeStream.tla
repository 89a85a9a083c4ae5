----------------------------- MODULE SbeStream -----------------------------
(***************************************************************************)
(* Messages encoded one behind the other in a buffer and decoded by a      *)
(* reader that finds its way by the headers.  The buffer is used again     *)
(* once all of it is read and keeps the bytes of its former messages: the  *)
(* encoders clear nothing.  The codecs are the code's; the writer and the  *)
(* reader stand for its callers, who wrap an encoder at the limit of the   *)
(* one before and a decoder at the limit of the one before.  Nothing makes *)
(* the writer call every setter, nor the reader choose the decoder that    *)
(* the header asks for.                                                    *)
(***************************************************************************)
EXTENDS SbeMessages, Sequences

CONSTANTS
  Used,          (* the messages in use                                    *)
  BufferLength,
  MaxMessages,   (* bound on the messages written                          *)
  DebugBuild     (* whether debug_assert_eq! is compiled in                *)

ASSUME UsedAssumption == Used \subseteq Messages
ASSUME BoundsAssumption == BufferLength \in Nat /\ MaxMessages \in Nat
ASSUME BuildAssumption == DebugBuild \in BOOLEAN

VARIABLES
  buf,           (* the bytes                                              *)
  limit,         (* limit of the last encoder, 0 before the first          *)
  draft,         (* the message under construction, or NoDraft             *)
  written,       (* the number of messages started                         *)
  unread,        (* the messages completed and not read yet                *)
  position,      (* limit of the last decoder, 0 before the first          *)
  reading        (* what the last decoder made of which message            *)

vars == <<buf, limit, draft, written, unread, position, reading>>

NoDraft == [message |-> "none"]
NoReading == [outcome |-> "none"]

Init ==
  /\ buf = [i \in 0..BufferLength - 1 |-> <<0, 0>>]
  /\ limit = 0 /\ draft = NoDraft /\ written = 0 /\ unread = <<>>
  /\ position = 0 /\ reading = NoReading

Panicked == reading.outcome = "panic"

(* wrap, header, parent: the header is written, the fields are not.        *)
Start(message) ==
  /\ draft = NoDraft /\ written < MaxMessages
  /\ limit + HeaderLength + message.block <= BufferLength
  /\ buf' = PutHeader(buf, limit, message)
  /\ draft' = [message |-> message, offset |-> limit + HeaderLength, values |-> <<>>]
  /\ limit' = limit + HeaderLength + message.block
  /\ written' = written + 1
  /\ UNCHANGED <<unread, position, reading>>

(* Fault: the fields are counted from the header instead of the block.     *)
FaultySetField(field, value) ==
  /\ buf' = PutAt(buf, draft.offset - HeaderLength, draft.message.fields[field], value)
  /\ draft' = [draft EXCEPT !.values =
                 [f \in DOMAIN @ \cup {field} |-> IF f = field THEN value ELSE @[f]]]
  /\ UNCHANGED <<limit, written, unread, position, reading>>

(* A setter of the encoder; they may be called in any order.               *)
SetField(field, value) ==
  /\ buf' = PutAt(buf, draft.offset, draft.message.fields[field], value)
  /\ draft' = [draft EXCEPT !.values =
                 [f \in DOMAIN @ \cup {field} |-> IF f = field THEN value ELSE @[f]]]
  /\ UNCHANGED <<limit, written, unread, position, reading>>

(* The caller is done, whether or not it set every field: the encoder does *)
(* not count.                                                              *)
Complete ==
  /\ draft # NoDraft
  /\ unread' = Append(unread, draft)
  /\ draft' = NoDraft
  /\ UNCHANGED <<buf, limit, written, position, reading>>

(* Fault: messages are told apart by their block lengths.                  *)
FaultyAnnounced(message) == HeaderAt(buf, position).block_length = message.block

(* The kind of message that the header at the reader's position announces. *)
Announced(message) == HeaderAt(buf, position).template_id = message.template

(* The decoder's assertion, where it is compiled in, and the slices of its *)
(* getters let the reader pass.                                            *)
Accepted(message) ==
  (DebugBuild => Announced(message)) /\ Fits(buf, position + HeaderLength, message)

(* Fault: the decoder ends where a message of its own kind would end.      *)
FaultyReadAs(message) ==
  /\ unread # <<>> /\ Accepted(message)
  /\ reading' = [outcome |-> "decoded", sent |-> Head(unread), decoder |-> message,
                 values |-> Decode(buf, position + HeaderLength, message)]
  /\ unread' = Tail(unread)
  /\ position' = position + HeaderLength + message.block
  /\ UNCHANGED <<buf, limit, draft, written>>

(* header and all getters of a decoder of the reader's choice.             *)
ReadAs(message) ==
  /\ unread # <<>>
  /\ \/ /\ ~Accepted(message)
        /\ reading' = [outcome |-> "panic", sent |-> Head(unread), decoder |-> message]
        /\ UNCHANGED <<unread, position>>
     \/ /\ Accepted(message)
        /\ reading' = [outcome |-> "decoded", sent |-> Head(unread), decoder |-> message,
                       values |-> Decode(buf, position + HeaderLength, message)]
        /\ unread' = Tail(unread)
        /\ position' = position + HeaderLength + HeaderAt(buf, position).block_length
  /\ UNCHANGED <<buf, limit, draft, written>>

(* Writer and reader go back to the front of the buffer.                   *)
Reuse ==
  /\ draft = NoDraft /\ unread = <<>> /\ limit # 0
  /\ limit' = 0 /\ position' = 0 /\ reading' = NoReading
  /\ UNCHANGED <<buf, draft, written, unread>>

(* A panic ends the program.                                               *)
Next ==
  /\ ~Panicked
  /\ \/ \E message \in Used : Start(message)
     \/ /\ draft # NoDraft
        /\ \E field \in DOMAIN draft.message.fields, value \in Values : SetField(field, value)
     \/ Complete
     \/ \E message \in Used : ReadAs(message)
     \/ Reuse

Spec == Init /\ [][Next]_vars
-----------------------------------------------------------------------------
(* A field that was set is decoded with the value set last, by the decoder *)
(* of the message's kind: whatever the templates before and behind, in     *)
(* whatever order the setters were called, whichever fields around it were *)
(* left out, and whatever bytes an earlier use left in the buffer.         *)
DecodedAsSet ==
  reading.outcome = "decoded" /\ reading.decoder = reading.sent.message =>
    \A f \in DOMAIN reading.sent.values :
      reading.values[f] = Presented(reading.decoder, f, reading.sent.values[f])

(* A misread stays local: whichever decoder the reader took, it finds the  *)
(* header of the next message completed, and when there is none its        *)
(* position agrees with the writer's limit.  The writer counts with the    *)
(* block length of its template, the reader with that of the header.       *)
ReaderOnTrack ==
  IF unread # <<>> THEN Announced(Head(unread).message)
  ELSE draft = NoDraft => position = limit

(* In a debug build the assertion in front of every decoder tells exactly  *)
(* the wrong decoders from the right ones, wherever in a used buffer the   *)
(* header lies: no message of another kind gets through, and no message    *)
(* is refused to the decoder of its kind.                                  *)
MisreadCaught ==
  DebugBuild /\ reading # NoReading =>
    (Panicked <=> reading.decoder # reading.sent.message)
=============================================================================
