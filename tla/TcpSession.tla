----------------------------- MODULE TcpSession -----------------------------
(***************************************************************************)
(* One TCP connection between two routers: handle_tcp_stream               *)
(* (core/src/network/tcp.rs) at both ends, and the two byte streams of the *)
(* connection, each with a bounded amount of data in flight.               *)
(*                                                                         *)
(* A side is one task.  Its select! either reads a chunk, whose packets go *)
(* to the RIB, or takes a packet of m_rx and writes it; while it waits for *)
(* the socket to become writable it does not read.                         *)
(***************************************************************************)
EXTENDS GdpFraming

CONSTANTS
  Side,      \* the two ends
  Outbox,    \* the packets each end is given to send, in order
  Capacity,  \* bytes the kernel buffers of one direction hold
  MayExit    \* the ends whose process may exit

ASSUME SessionAssumption ==
  /\ \E l, r \in Side : l # r /\ Side = {l, r}
  /\ Outbox \in [Side -> Seq(Packet)]
  /\ Capacity \in Nat /\ Capacity > HeaderLen
  /\ MayExit \subseteq Side

Other(s) == CHOOSE o \in Side : o # s

VARIABLES
  m_rx,         \* packets still to send
  pc,           \* where the task of a side is
  current,      \* the packet a side is writing
  unwritten,    \* what is left of its payload
  socket,       \* bytes on their way from a side to the other
  write_ready,  \* the runtime takes the socket for writable
  rest,         \* remaining_gdp_header and remaining_gdp_payload
  received,     \* packets a side has handed to the RIB
  garbled,      \* history: a side has written a part of a header only
  written       \* history: packets a side has written before that

write_history == <<garbled, written>>
write_vars == <<m_rx, current, unwritten, write_history>>
read_vars == <<rest, received>>
vars == <<write_vars, read_vars, pc, socket, write_ready>>

Alive(s) == pc[s] \in {"select", "header", "payload"}

Init ==
  /\ m_rx = Outbox
  /\ pc = [s \in Side |-> "select"]
  /\ current = [s \in Side |-> <<>>]
  /\ unwritten = [s \in Side |-> <<>>]
  /\ socket = [s \in Side |-> <<>>]
  /\ write_ready = [s \in Side |-> TRUE]
  /\ rest = [s \in Side |-> NoRest]
  /\ received = [s \in Side |-> <<>>]
  /\ garbled = [s \in Side |-> FALSE]
  /\ written = [s \in Side |-> <<>>]

-----------------------------------------------------------------------------
(* Reading                                                                 *)

(* What one chunk makes of what the last one left.                         *)
Absorb_KeepChunk(left, chunk) ==   \* mutant: the overflowing bytes stay in
  CASE left.kind = "none"    -> parse_header_payload_pairs(chunk)
    [] left.kind = "header"  -> parse_header_payload_pairs(left.bytes \o chunk)
    [] left.kind = "payload" ->
         IF Len(left.bytes \o chunk) > LengthOf(left.pkt)
         THEN [parse_header_payload_pairs(chunk) EXCEPT !.pairs =
                 <<Pair(left.pkt, SubSeq(left.bytes \o chunk, 1,
                                         LengthOf(left.pkt)))>> \o @]
         ELSE AbsorbPayload(left, chunk)

Absorb(left, chunk) ==
  CASE left.kind = "none"    -> parse_header_payload_pairs(chunk)
    [] left.kind = "header"  -> parse_header_payload_pairs(left.bytes \o chunk)
    [] left.kind = "payload" -> AbsorbPayload(left, chunk)

(* Reading makes room in the socket: the writer's readiness comes back.    *)
Read(s, size) ==
  LET o == Other(s)
      result == Absorb(rest[s], SubSeq(socket[o], 1, size))
  IN  /\ pc[s] = "select"
      /\ size <= Len(socket[o])
      /\ socket' = [socket EXCEPT ![o] = SubSeq(@, size + 1, Len(@))]
      /\ write_ready' = [write_ready EXCEPT ![o] = TRUE]
      /\ rest' = [rest EXCEPT ![s] = result.rest]
      /\ received' = [received EXCEPT ![s] = @ \o result.pairs]
      /\ pc' = [pc EXCEPT ![s] = IF result.panic THEN "panicked" ELSE @]
      /\ UNCHANGED write_vars

(* Ok(0): the other end is gone and everything it wrote has been read.     *)
ReadEof(s) ==
  /\ pc[s] = "select"
  /\ ~Alive(Other(s)) /\ socket[Other(s)] = <<>>
  /\ pc' = [pc EXCEPT ![s] = "closed"]
  /\ UNCHANGED <<write_vars, read_vars, socket, write_ready>>

-----------------------------------------------------------------------------
(* Writing                                                                 *)

TakePacket(s) ==
  /\ pc[s] = "select"
  /\ m_rx[s] # <<>>
  /\ m_rx' = [m_rx EXCEPT ![s] = Tail(@)]
  /\ current' = [current EXCEPT ![s] = Head(m_rx[s])]
  /\ pc' = [pc EXCEPT ![s] = "header"]
  /\ UNCHANGED <<unwritten, write_history, read_vars, socket, write_ready>>

Free(s) == Capacity - Len(socket[s])

(* The header goes out at one try_write, of which the kernel may accept a  *)
(* part; the number of bytes it accepts is only printed.                   *)
WriteHeader(s) ==
  LET pkt == current[s]
      header == HeaderText(pkt) \o <<Null>>
      n == IF Len(header) <= Free(s) THEN Len(header) ELSE Free(s)
      payload == PayloadOf[pkt]
  IN  /\ pc[s] = "header" /\ write_ready[s] /\ Alive(Other(s))
      /\ n > 0
      /\ socket' = [socket EXCEPT ![s] = @ \o SubSeq(header, 1, n)]
      /\ garbled' = [garbled EXCEPT ![s] = @ \/ n < Len(header)]
      /\ written' = [written EXCEPT ![s] =
                       IF garbled'[s] THEN @ ELSE Append(@, pkt)]
      /\ unwritten' = [unwritten EXCEPT ![s] = payload]
      /\ pc' = [pc EXCEPT ![s] = IF payload = <<>> THEN "select" ELSE "payload"]
      /\ UNCHANGED <<m_rx, current, read_vars, write_ready>>

(* WouldBlock: the packet is given up.                                     *)
WriteHeaderBlocked(s) ==
  /\ pc[s] = "header" /\ write_ready[s] /\ Alive(Other(s))
  /\ Free(s) <= HeaderLen
  /\ pc' = [pc EXCEPT ![s] = "select"]
  /\ write_ready' = [write_ready EXCEPT ![s] = FALSE]
  /\ UNCHANGED <<write_vars, read_vars, socket>>

WritePayload_Once(s) ==            \* mutant: a partial write counts as whole
  LET n == IF Len(unwritten[s]) <= Free(s) THEN Len(unwritten[s]) ELSE Free(s)
  IN  /\ pc[s] = "payload" /\ write_ready[s] /\ Alive(Other(s))
      /\ n > 0
      /\ socket' = [socket EXCEPT ![s] = @ \o SubSeq(unwritten[s], 1, n)]
      /\ unwritten' = [unwritten EXCEPT ![s] = <<>>]
      /\ pc' = [pc EXCEPT ![s] = "select"]
      /\ UNCHANGED <<m_rx, current, write_history, read_vars, write_ready>>

WritePayload_Whole(s) ==           \* mutant: try_write taken for write_all
  /\ pc[s] = "payload" /\ write_ready[s] /\ Alive(Other(s))
  /\ Free(s) > 0
  /\ socket' = [socket EXCEPT ![s] = @ \o unwritten[s]]
  /\ unwritten' = [unwritten EXCEPT ![s] = <<>>]
  /\ pc' = [pc EXCEPT ![s] = "select"]
  /\ UNCHANGED <<m_rx, current, write_history, read_vars, write_ready>>

WritePayload_OffByOne(s) ==        \* mutant: while bytes_written <= bytes_read
  LET n == IF Len(unwritten[s]) <= Free(s) THEN Len(unwritten[s]) ELSE Free(s)
  IN  /\ pc[s] = "payload" /\ write_ready[s] /\ Alive(Other(s))
      /\ socket' = [socket EXCEPT ![s] = @ \o SubSeq(unwritten[s], 1, n)]
      /\ unwritten' = [unwritten EXCEPT ![s] = SubSeq(@, n + 1, Len(@))]
      /\ UNCHANGED <<m_rx, current, write_history, read_vars, write_ready, pc>>

WritePayload(s) ==
  LET n == IF Len(unwritten[s]) <= Free(s) THEN Len(unwritten[s]) ELSE Free(s)
  IN  /\ pc[s] = "payload" /\ write_ready[s] /\ Alive(Other(s))
      /\ n > 0
      /\ socket' = [socket EXCEPT ![s] = @ \o SubSeq(unwritten[s], 1, n)]
      /\ unwritten' = [unwritten EXCEPT ![s] = SubSeq(@, n + 1, Len(@))]
      /\ pc' = [pc EXCEPT ![s] =
                  IF n = Len(unwritten[s]) THEN "select" ELSE @]
      /\ UNCHANGED <<m_rx, current, write_history, read_vars, write_ready>>

(* WouldBlock: wait until the socket is writable, without reading.         *)
WritePayloadBlocked(s) ==
  /\ pc[s] = "payload" /\ write_ready[s] /\ Alive(Other(s))
  /\ Free(s) = 0
  /\ write_ready' = [write_ready EXCEPT ![s] = FALSE]
  /\ UNCHANGED <<write_vars, read_vars, pc, socket>>

(* Any other error gives the packet, or the rest of its payload, up.       *)
WriteError(s) ==
  /\ pc[s] \in {"header", "payload"} /\ ~Alive(Other(s))
  /\ pc' = [pc EXCEPT ![s] = "select"]
  /\ UNCHANGED <<write_vars, read_vars, socket, write_ready>>

(* The process of a side ends; the last bytes it wrote may be lost.        *)
Exit(s) ==
  /\ s \in MayExit /\ Alive(s)
  /\ pc' = [pc EXCEPT ![s] = "closed"]
  /\ \E kept \in 0 .. Len(socket[s]) :
       socket' = [socket EXCEPT ![s] = SubSeq(@, 1, kept)]
  /\ UNCHANGED <<write_vars, read_vars, write_ready>>

(* Nothing left to send or to read: the connection idles.                  *)
Idle ==
  /\ \A s \in Side :
       \/ ~Alive(s)
       \/ pc[s] = "select" /\ m_rx[s] = <<>> /\ socket[Other(s)] = <<>>
            /\ Alive(Other(s))
  /\ UNCHANGED vars

ReadSome(s) == \E size \in 1 .. Capacity : Read(s, size)

Write(s) ==
  \/ TakePacket(s)
  \/ WriteHeader(s) \/ WriteHeaderBlocked(s)
  \/ WritePayload(s) \/ WritePayloadBlocked(s)
  \/ WriteError(s)

Next ==
  \/ \E s \in Side : ReadSome(s) \/ ReadEof(s) \/ Write(s) \/ Exit(s)
  \/ Idle

Spec == Init /\ [][Next]_vars

(* select! polls its branches in random order, so that neither is passed   *)
(* over forever; a task whose socket is ready is polled.                   *)
Fairness ==
  \A s \in Side :
    /\ SF_vars(ReadSome(s))
    /\ SF_vars(Write(s))

FairSpec == Spec /\ Fairness

-----------------------------------------------------------------------------
(* Properties                                                              *)

TypeOK ==
  /\ m_rx \in [Side -> Seq(Packet)]
  /\ pc \in [Side -> {"select", "header", "payload", "closed", "panicked"}]
  /\ \A s \in Side : current[s] \in Packet \cup {<<>>}
  /\ unwritten \in [Side -> Seq(Byte)]
  /\ socket \in [Side -> Seq(Byte)]
  /\ \A s \in Side : Len(socket[s]) <= Capacity
  /\ write_ready \in [Side -> BOOLEAN]
  /\ \A s \in Side : rest[s].kind \in {"none", "header", "payload"}
  /\ \A s \in Side : \A i \in DOMAIN received[s] :
       received[s][i].pkt \in Packet /\ received[s][i].bytes \in Seq(Byte)
  /\ garbled \in [Side -> BOOLEAN]
  /\ written \in [Side -> Seq(Packet)]

(* Framing is lossless: whatever the sizes of the chunks the reads return, *)
(* what a side hands to its RIB is a prefix of what the other side wrote,  *)
(* each packet with its own payload.  What is handed over after a header   *)
(* that was written in part is nobody's packet, but everything before it   *)
(* is untouched.                                                           *)
ReceivedIsPrefix ==
  \A s \in Side :
    LET sent == written[Other(s)]
    IN  /\ Len(received[s]) <= Len(sent) \/ garbled[Other(s)]
        /\ \A i \in DOMAIN received[s] \cap DOMAIN sent :
             received[s][i] = Pair(sent[i], PayloadOf[sent[i]])

(* A packet that has been written, and no header in part before it, is     *)
(* handed to the RIB of the other side, unless a side ends.                *)
WrittenIsReceived ==
  \A s \in Side : \A n \in 1 .. Len(Outbox[s]) :
    (Len(written[s]) >= n)
      ~> (Len(received[Other(s)]) >= n \/ \E x \in Side : ~Alive(x))

(* The doc comment of handle_tcp_stream: packets from the RIB are sent to  *)
(* the session.  None waits forever while both sides live.  It fails when  *)
(* both sides write to full sockets and neither reads.                     *)
OutboxDrains ==
  \A s \in Side : []<>(m_rx[s] = <<>> \/ \E x \in Side : ~Alive(x))

(* The doc comment of parse_header_payload_pairs: an incomplete header is  *)
(* returned as remaining.  It fails when only the null byte is missing.    *)
IncompleteHeaderIsReturned ==
  \A s \in Side : pc[s] # "panicked"
=============================================================================
