----------------------------- MODULE GdpFraming -----------------------------
(***************************************************************************)
(* The wire format of a GDP packet and its parser,                         *)
(* parse_header_payload_pairs (core/src/network/tcp.rs; dtls.rs has a copy *)
(* of the same text).  On the wire a packet is a JSON header, a null byte, *)
(* and as many payload bytes as the header says.                           *)
(*                                                                         *)
(* A byte of a payload is null, text or binary (not UTF-8); the bytes of a *)
(* header are numbered, so that the text of a header is complete exactly   *)
(* when all of them are there, in order.  The action field is part of that *)
(* text: an advertisement is a packet with an empty payload.               *)
(***************************************************************************)
EXTENDS Integers, Sequences, SequencesExt

CONSTANTS
  Packet,       \* the packets, each with a header of its own
  HeaderLen,    \* bytes of a header, without the null byte
  PayloadOf     \* the payload of a packet: a sequence of bytes

Null == <<"null">>
Text == <<"text">>
Binary == <<"binary">>
HeaderByte == {"header"} \X Packet \X (1 .. HeaderLen)
Byte == {Null, Text, Binary} \cup HeaderByte

ASSUME FramingAssumption ==
  /\ HeaderLen \in Nat \ {0}
  /\ PayloadOf \in [Packet -> Seq({Null, Text, Binary})]

(* get_header and serde_json::to_string: the text of the header.           *)
HeaderText(pkt) == [i \in 1 .. HeaderLen |-> <<"header", pkt, i>>]
LengthOf_WithNull(pkt) ==            \* mutant: the null byte is counted
  Len(PayloadOf[pkt]) + 1
LengthOf(pkt) == Len(PayloadOf[pkt])

IsHeader(bytes) ==
  /\ Len(bytes) = HeaderLen
  /\ \E pkt \in Packet : bytes = HeaderText(pkt)

HeaderIn(bytes) == CHOOSE pkt \in Packet : bytes = HeaderText(pkt)

(* What is left over between two reads: nothing, the beginning of a header *)
(* (the code's default header, action Noop), or a header with the beginning*)
(* of its payload.                                                         *)
NoRest == [kind |-> "none"]
HeaderRest(bytes) == [kind |-> "header", bytes |-> bytes]
PayloadRest(pkt, bytes) == [kind |-> "payload", pkt |-> pkt, bytes |-> bytes]

Pair(pkt, bytes) == [pkt |-> pkt, bytes |-> bytes]

Parsed(pairs, rest) == [pairs |-> pairs, rest |-> rest, panic |-> FALSE]
Panicked == [pairs |-> <<>>, rest |-> NoRest, panic |-> TRUE]

FirstNull(buffer, i) ==
  IF \E j \in i .. Len(buffer) : buffer[j] = Null
  THEN CHOOSE j \in i .. Len(buffer) :
         buffer[j] = Null /\ \A k \in i .. j - 1 : buffer[k] # Null
  ELSE Len(buffer) + 1

(* One turn of the loop, at position i; From is what the turns that start   *)
(* further on make of the buffer.  It panics on a header that is not UTF-8, *)
(* and on a complete header without a null byte (header_and_remaining[1]).  *)
(* What follows an incomplete header and a null byte is dropped.            *)
Turn(buffer, i, From) ==
  LET null == FirstNull(buffer, i)
      header_buf == SubSeq(buffer, i, null - 1)
      remaining == Len(buffer) - null
      pkt == HeaderIn(header_buf)
      payload == SubSeq(buffer, null + 1, null + LengthOf(pkt))
      next == From[null + LengthOf(pkt) + 1]
  IN  CASE Contains(header_buf, Binary) -> Panicked
        [] ~Contains(header_buf, Binary) /\ ~IsHeader(header_buf) ->
             Parsed(<<>>, HeaderRest(header_buf))
        [] IsHeader(header_buf) /\ null > Len(buffer) -> Panicked
        [] IsHeader(header_buf) /\ null <= Len(buffer)
             /\ LengthOf(pkt) > remaining ->
             Parsed(<<>>, PayloadRest(pkt, SubSeq(buffer, null + 1,
                                                  Len(buffer))))
        [] IsHeader(header_buf) /\ null <= Len(buffer)
             /\ LengthOf(pkt) = remaining ->
             Parsed(<<Pair(pkt, payload)>>, NoRest)
        [] OTHER ->
             IF next.panic THEN Panicked
             ELSE Parsed(<<Pair(pkt, payload)>> \o next.pairs, next.rest)

parse_header_payload_pairs(buffer) ==
  LET From[i \in 1 .. Len(buffer) + 1] == Turn(buffer, i, From)
  IN  IF buffer = <<>> THEN Parsed(<<>>, NoRest) ELSE From[1]

(* More bytes for a payload that was incomplete: they complete it, and what *)
(* follows it is parsed, or they are only added to it.                      *)
AbsorbPayload(left, chunk) ==
  LET bytes == left.bytes \o chunk
      length == LengthOf(left.pkt)
      parsed == parse_header_payload_pairs(SubSeq(bytes, length + 1, Len(bytes)))
  IN  IF Len(bytes) < length
      THEN Parsed(<<>>, PayloadRest(left.pkt, bytes))
      ELSE IF parsed.panic THEN Panicked
      ELSE Parsed(<<Pair(left.pkt, SubSeq(bytes, 1, length))>> \o parsed.pairs,
                  parsed.rest)
=============================================================================
