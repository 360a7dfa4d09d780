---------------------------- MODULE GCMessageCodec ----------------------------
(***************************************************************************)
(* The encoding of coordinator messages: GCMessageWrite                    *)
(* (src/csgo_gc/gc_message.cpp) and what GCMessageRead makes of it, the    *)
(* chunk count of the coordinator's own messages that ProcessChunkMsg      *)
(* takes out (tcp_connection.cpp), and the handlers that read a message    *)
(* field by field (gc_client.cpp, networking_client.cpp), with the places  *)
(* where each asks IsValid.                                                *)
(*                                                                         *)
(* A message is a sequence of bytes.  One that is shorter than its fields, *)
(* or than a size it names, is one that was written whole and cut; one     *)
(* that is longer has something behind what was written.  Numbers have the *)
(* lowest byte first.                                                      *)
(***************************************************************************)
EXTENDS GCMessageRead, SequencesExt

CONSTANTS
  IdBytes,    \* item and steam ids: sequences of eight bytes
  Names,      \* names of items: sequences of bytes other than 0
  Payloads,   \* serialized protobuf messages, and tickets
  Tails,      \* bytes behind the last field of a struct message
  MaxItems    \* items of a trade-up (a bound; the game sends ten)

Byte == 0..255
Bytes == Seq(Byte)

ASSUME CodecAssumption ==
  /\ IdBytes \subseteq [1..8 -> Byte]
  /\ Names \subseteq Seq(1..255)
  /\ Payloads \subseteq Bytes /\ Tails \subseteq Bytes

\* The number of items is written in 16 bits.
ASSUME NumberAssumption == MaxItems \in Nat /\ MaxItems < 65536 /\ SizeLimit \in Nat \ {0}

Uint16(n) == <<n % 256, n \div 256>>
Uint32(n) == Uint16(n % 65536) \o Uint16(n \div 65536)
Uint64Zero == [i \in 1..8 |-> 0]
SizeOf(p) == Uint32(Len(p))

\* What two and four bytes stand for.
Number16(b) == b[1] + 256 * b[2]
Number32(b) == b[1] + 256 * b[2] + 65536 * b[3] + 16777216 * b[4]

-----------------------------------------------------------------------------
(* Types.  The highest byte of a type has the flags: 128 for a protobuf    *)
(* message (ProtobufMask), 128 + 16 for the coordinator's own (CCProtoMask).*)

Struct == 0
Protobuf == 128
CCProto == 144

TypeOf(number, flags) == <<number, 0, 0, flags>>

\* GCMessageRead asks for the one flag, TCPConnection for any of the two.
IsProtobuf(type) == type[4] >= 128
IsCCProto(type) == type[4] >= 128 \/ (type[4] \div 16) % 2 = 1

\* TypeUnmasked, TypeCCUnmasked: the type without the flags of the mask.
WithoutProtobuf(flags) == flags % 128
WithoutCCProto(flags) == WithoutProtobuf(flags) - 16 * ((flags \div 16) % 2)

-----------------------------------------------------------------------------
(* Messages: who reads them, their type and what is written into them.     *)

\* The kinds of messages, numbered by their place.
Kinds == <<"unlock", "name", "nameBase", "removeName", "delete", "craft",
           "connect", "request", "answer", "other">>
NumberOf(kind) == CHOOSE n \in DOMAIN Kinds : Kinds[n] = kind

Message(kind, flags, fields) == [kind |-> kind, flags |-> flags, fields |-> fields]

\* The fields of the game's struct messages; a game server's connect message; the
\* game's protobuf messages and the coordinator's; one of a type nobody handles.
Messages ==
  {Message("unlock", Struct, <<k, c>>) : k \in IdBytes, c \in IdBytes}
  \cup {Message("name", Struct, <<t, i, n>>) : t \in IdBytes, i \in IdBytes, n \in Names}
  \cup {Message("nameBase", Struct, <<t, Uint32(7), n>>) : t \in IdBytes, n \in Names}
  \cup {Message(kind, Struct, <<i>>) : kind \in {"removeName", "delete", "other"}, i \in IdBytes}
  \cup {Message("craft", Struct, <<Uint16(3), Uint16(Len(s))>> \o s) :
          s \in UNION {[1..n -> IdBytes] : n \in 0..MaxItems}}
  \cup {Message("connect", Struct, <<i, SizeOf(p), p>>) : i \in IdBytes, p \in Payloads}
  \cup {Message("request", Protobuf, <<p>>) : p \in Payloads}
  \cup {Message("answer", CCProto, <<p>>) : p \in Payloads}

\* The sentinel before a name, and the zero after it.
Sentinel == <<1>>
Named(fields, n) == SubSeq(fields, 1, n - 1) \o <<Sentinel, fields[n], <<0>>>>

\* What is written after the header.
Written(msg) ==
  FlattenSeq(IF msg.kind \in {"name", "nameBase"} THEN Named(msg.fields, 3) ELSE msg.fields)

\* GCMessageWrite: the header of a struct message, of a protobuf message (the game
\* may put extra bytes there), or of one for the coordinator, with its chunk count.
MaskedType(msg) == TypeOf(NumberOf(msg.kind), msg.flags)
Header(msg, extra) ==
  MaskedType(msg) \o
  (CASE msg.flags = Struct -> Uint32(0) \o Uint64Zero \o Uint16(0)
     [] msg.flags = Protobuf -> SizeOf(extra) \o extra
     [] msg.flags = CCProto -> Uint32(0) \o Uint32(1))

Encoded(msg, extra) == Header(msg, extra) \o Written(msg)

\* The bytes the game may put into a protobuf message's header.
Extras == {<<>>, <<9, 9>>}

\* No message is larger, with what is behind it.
ASSUME SizeAssumption ==
  \A msg \in Messages, extra \in Extras :
    /\ Len(Encoded(msg, extra)) < SizeLimit
    /\ \A tail \in Tails : Len(Encoded(msg, extra)) + Len(tail) < SizeLimit

\* What comes over the coordinator's socket ProcessChunkMsg gives GCMessageRead without
\* the chunk count: that is the third number of the header.
Stripped(msg, bytes) ==
  IF msg.kind = "answer" /\ IsCCProto(MaskedType(msg))
    THEN SubSeq(bytes, 1, 8) \o SubSeq(bytes, 13, Len(bytes)) ELSE bytes

-----------------------------------------------------------------------------
VARIABLES
  message,   \* what was written
  whole,     \* it was not cut
  todo,      \* what the constructor and the handler still do
  outcome    \* "reading", "handled" or "ignored"

codecVars == <<message, whole, buffer, offset, error, todo, got, outcome>>

\* What the constructor and the handlers read, in order; "valid" is a return if
\* IsValid is false.
StructHeader == <<"uint32", "uint64", "uint16", "valid">>
ProtobufHeader == <<"uint32", "data", "valid">>

Handler(kind) ==
  CASE kind = "unlock" -> <<"uint64", "uint64", "valid">>
    [] kind = "name" -> <<"uint64", "uint64", "skip", "string", "valid">>
    [] kind = "nameBase" -> <<"uint64", "uint32", "skip", "string", "valid">>
    [] kind \in {"removeName", "delete"} -> <<"uint64", "valid">>
    [] kind = "craft" -> <<"uint16", "uint16", "items">>
    [] kind = "connect" -> <<"uint64", "uint32", "data", "valid">>
    [] kind \in {"request", "answer"} -> <<"rest", "valid">>
    [] kind = "other" -> <<"unknown">>

\* HandleCraft asks before each item.
ItemsReads(n) == FlattenSeq([i \in 1..n |-> <<"valid", "uint64">>])

Width == [uint16 |-> 2, uint32 |-> 4, uint64 |-> 8, skip |-> 1]

\* A message comes cut or whole, and of a struct message more may come.  The chunk count
\* of the coordinator's messages is there: ProcessChunkMsg does not ask.
CodecInit ==
  /\ message \in Messages
  /\ \E extra \in Extras :
       LET bytes == Stripped(message, Encoded(message, extra)) IN
       \/ \E n \in 0..(Len(bytes) - 1) :
            /\ message.kind = "answer" => n >= 8
            /\ buffer = SubSeq(bytes, 1, n)
            /\ whole = FALSE
       \/ \E tail \in Tails :
            /\ buffer = IF message.flags = Struct THEN bytes \o tail ELSE bytes
            /\ whole = TRUE
  /\ offset = 0 /\ error = FALSE
  /\ todo = <<"uint32", "valid", "type">>
  /\ got = <<>>
  /\ outcome = "reading"

\* The next of the reads is taken off the list.
Doing(op) ==
  /\ outcome = "reading"
  /\ todo # <<>>
  /\ Head(todo) = op
  /\ UNCHANGED <<message, whole, buffer>>

Rest == todo' = Tail(todo) /\ outcome' = outcome

\* ReadUint16, ReadUint32, ReadUint64: zero if it cannot be read.
ReadVariable ==
  \E op \in {"uint16", "uint32", "uint64"} :
    /\ Doing(op) /\ Rest
    /\ ReadData(Width[op], [i \in 1..Width[op] |-> 0])

\* The sentinel is read and not kept.
SkipData ==
  /\ Doing("skip") /\ Rest
  /\ PassOver(Width.skip)

\* ReadData of as many bytes as the number read before says.
ReadSized ==
  /\ Doing("data") /\ Rest
  /\ LET size == Number32(Last(got)) IN size \in Nat /\ ReadData(size, <<>>)

\* ReadProtobuf: everything that is left, which protobuf may not accept if it was cut.
ReadProtobuf ==
  /\ Doing("rest")
  /\ ReadData(Len(buffer) - offset, <<>>)
  /\ \/ Rest
     \/ ~ whole /\ todo' = <<>> /\ outcome' = "ignored"

ReadString == Doing("string") /\ Rest /\ ReadToZero

\* The constructor has the type, and reads the header it calls for; then the message
\* goes to the handler of its type, if one knows it.
Unmasked(m, flags) ==
  IF m.kind = "answer" THEN WithoutCCProto(flags) ELSE WithoutProtobuf(flags)

HandlerOf(type) ==
  IF Unmasked(message, type[4]) = 0 /\ type[1] \in DOMAIN Kinds
    THEN Handler(Kinds[type[1]]) ELSE <<"unknown">>

ReadType ==
  /\ Doing("type")
  /\ todo' = (IF IsProtobuf(Last(got)) THEN ProtobufHeader ELSE StructHeader)
             \o <<"body">> \o HandlerOf(Last(got))
  /\ UNCHANGED <<offset, error, got, outcome>>

\* The handler begins: what the constructor read is not its own.
BeginHandler ==
  /\ Doing("body") /\ Rest
  /\ got' = <<>>
  /\ UNCHANGED <<offset, error>>

\* HandleCraft's loop over the items it has been told of.
ReadItems ==
  /\ Doing("items")
  /\ todo' = ItemsReads(Number16(Last(got)))
  /\ UNCHANGED <<offset, error, got, outcome>>

\* A return unless IsValid.  A slip: no return.
ValidIgnored(e) == FALSE
Invalid(e) == e

CheckValid ==
  /\ Doing("valid")
  /\ todo' = IF Invalid(error) THEN <<>> ELSE Tail(todo)
  /\ outcome' = IF Invalid(error) THEN "ignored" ELSE outcome
  /\ UNCHANGED <<offset, error, got>>

UnknownType ==
  /\ Doing("unknown") /\ todo' = <<>>
  /\ outcome' = "ignored"
  /\ UNCHANGED <<offset, error, got>>

\* The handler has all its fields, and goes on to what the message asks for.
Handled ==
  /\ outcome = "reading" /\ todo = <<>>
  /\ outcome' = "handled"
  /\ UNCHANGED <<message, whole, buffer, offset, error, todo, got>>

CodecNext ==
  \/ ReadVariable \/ SkipData \/ ReadSized \/ ReadProtobuf \/ ReadString
  \/ ReadType \/ BeginHandler \/ ReadItems \/ CheckValid \/ UnknownType \/ Handled

CodecSpec == CodecInit /\ [][CodecNext]_codecVars

-----------------------------------------------------------------------------
(* Properties.                                                             *)

\* A message that was not cut is handled if its type is known: writer, chunk count,
\* header, handler and type masks fit together, also if something is behind its fields.
\* What is handled has the fields that were written: a message cut short is ignored.  There
\* are two that may differ: a protobuf message that is cut and still one, which is the
\* front of what was written; and a trade-up that is cut, in its last item or, cut before the
\* items, in all: HandleCraft asks before each item and not after the last.
HandledAsWritten ==
  /\ outcome # "reading" /\ whole => (outcome = "handled") = (message.kind # "other")
  /\ outcome = "handled" =>
       \/ got = message.fields
       \/ /\ message.flags # Struct /\ ~ whole
          /\ Len(got) = 1 /\ IsPrefix(got[1], message.fields[1])
       \/ /\ message.kind = "craft" /\ ~ whole
          /\ Len(got) > 2 => \A i \in 1..(Len(got) - 1) : got[i] = message.fields[i]
=============================================================================
