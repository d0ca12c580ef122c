---------------------------- MODULE DtlsSession ----------------------------
(***************************************************************************)
(* One direction of a DTLS session between two routers: the write branch   *)
(* of handle_dtls_stream (core/src/network/dtls.rs) at one end, the read   *)
(* branch at the other, and the datagrams between them.                    *)
(*                                                                         *)
(* Header and payload travel as two records, each in a datagram that UDP   *)
(* may lose or reorder (DTLS discards duplicates).  The reader has only    *)
(* the framing of a byte stream and a counter, reset_counter, to find back *)
(* to the beginning of a packet.                                           *)
(*                                                                         *)
(* Traffic never ends: the sender writes the packets of traffic, one of    *)
(* the sequences of Traffics, again and again.                             *)
(***************************************************************************)
EXTENDS GdpFraming

CONSTANTS
  Traffics,    \* sequences of packets to send, over and over
  MaxFlight,   \* bound: records in flight
  MaxFaults    \* bound: records lost or overtaken

ASSUME DtlsAssumption ==
  /\ \A traffic \in Traffics : traffic \in Seq(Packet) /\ traffic # <<>>
  /\ MaxFlight \in Nat /\ MaxFlight >= 2
  /\ MaxFaults \in Nat

VARIABLES
  traffic,        \* the packets sent by this session, over and over
  turn,           \* the packet of traffic to send next
  flight,         \* records on their way
  rest,           \* remaining_gdp_header and remaining_gdp_payload
  reset_counter,  \* reads that met an incomplete header
  panicked,       \* the reading task has panicked on what it read
  failed,         \* what has failed: "write", "read", "answer"
  handed,         \* what the last read handed to the RIB
  awaited,        \* history: the packet of traffic to be handed next
  faults          \* history: records lost or overtaken

reader == <<rest, reset_counter, panicked, handed, awaited>>
vars == <<traffic, turn, flight, reader, failed, faults>>

Init ==
  /\ traffic \in Traffics
  /\ turn = 1
  /\ flight = <<>>
  /\ rest = NoRest
  /\ reset_counter = 0
  /\ panicked = FALSE
  /\ failed = {}
  /\ handed = <<>>
  /\ awaited = 1
  /\ faults = 0

Later(position, n) == ((position - 1 + n) % Len(traffic)) + 1

-----------------------------------------------------------------------------
(* write_all of the header with its null byte, then of the payload; each   *)
(* is a record of its own, and an empty payload is none.                   *)
Records(pkt) ==
  <<HeaderText(pkt) \o <<Null>>>>
    \o IF PayloadOf[pkt] = <<>> THEN <<>> ELSE <<PayloadOf[pkt]>>

Write ==
  LET records == Records(traffic[turn])
  IN  /\ "write" \notin failed
      /\ Len(flight) + Len(records) <= MaxFlight
      /\ flight' = flight \o records
      /\ turn' = Later(turn, 1)
      /\ UNCHANGED <<traffic, reader, failed, faults>>

(* The write of a record fails and is unwrapped: the writing task is gone, *)
(* perhaps between the header and the payload.                             *)
WriteFails ==
  /\ "write" \notin failed
  /\ \E n \in 0 .. Len(Records(traffic[turn])) - 1 :
       /\ Len(flight) + n <= MaxFlight
       /\ flight' = flight \o SubSeq(Records(traffic[turn]), 1, n)
  /\ failed' = failed \cup {"write"}
  /\ UNCHANGED <<traffic, turn, reader, faults>>

Lose(i) ==
  /\ faults < MaxFaults
  /\ flight' = RemoveAt(flight, i)
  /\ faults' = faults + 1
  /\ UNCHANGED <<traffic, turn, reader, failed>>

-----------------------------------------------------------------------------
(* One record, together with what the last ones left.  The sixth read that *)
(* still meets an incomplete header throws the buffer and the record away. *)
ResetDue_Early(left) ==            \* mutant: reset_counter >= 5
  left.kind = "header" /\ reset_counter + 1 >= 5

ResetDue_Never(left) == FALSE      \* mutant: there is no reset

ResetDue(left) == left.kind = "header" /\ reset_counter + 1 > 5

Absorb(left, record) ==
  CASE left.kind = "none"    -> parse_header_payload_pairs(record)
    [] left.kind = "payload" -> AbsorbPayload(left, record)
    [] left.kind = "header"  ->
         IF ResetDue(left) THEN Parsed(<<>>, NoRest)
         ELSE parse_header_payload_pairs(left.bytes \o record)

Read(i) ==
  LET result == Absorb(rest, flight[i])
  IN  /\ ~panicked /\ failed \cap {"read", "answer"} = {}
      /\ i > 1 => faults < MaxFaults
      /\ faults' = IF i > 1 THEN faults + 1 ELSE faults
      /\ flight' = RemoveAt(flight, i)
      /\ reset_counter' = IF rest.kind # "header" THEN reset_counter
                          ELSE IF ResetDue(rest) THEN 0
                          ELSE reset_counter + 1
      /\ rest' = result.rest
      /\ handed' = result.pairs
      /\ awaited' = Later(awaited, Len(result.pairs))
      /\ panicked' = result.panic
      /\ UNCHANGED <<traffic, turn, failed>>

(* A read that fails does not match Ok(..): select! is left waiting for a  *)
(* packet of the other direction.                                          *)
ReadFails ==
  /\ ~panicked /\ failed \cap {"read", "answer"} = {}
  /\ failed' = failed \cup {"read"}
  /\ UNCHANGED <<traffic, turn, flight, reader, faults>>

(* The task at the reading end writes a packet of the other direction, and *)
(* reads again; or that write fails, and is unwrapped.                     *)
Answer ==
  /\ ~panicked /\ "answer" \notin failed
  /\ failed' \in {failed \ {"read"}, failed \cup {"answer"}}
  /\ UNCHANGED <<traffic, turn, flight, reader, faults>>

Next ==
  \/ Write \/ WriteFails
  \/ \E i \in DOMAIN flight : Lose(i)
  \/ \E i \in DOMAIN flight : Read(i)
  \/ ReadFails \/ Answer

Spec == Init /\ [][Next]_vars

(* Both tasks are polled while they can move.                              *)
ReadNext == flight # <<>> /\ Read(1)

Fairness == WF_vars(Write) /\ WF_vars(ReadNext)

FairSpec == Spec /\ Fairness

-----------------------------------------------------------------------------
(* Properties                                                              *)

Intact(pair) == pair.bytes = PayloadOf[pair.pkt]

(* The types of the reader's variables; what it keeps between two reads is *)
(* bounded, although an incomplete header grows with each read: never more *)
(* than a payload, or than six records.                                    *)
Record == UNION {Range(Records(pkt)) : pkt \in Packet}

TypeOK ==
  /\ traffic \in Traffics
  /\ turn \in DOMAIN traffic /\ awaited \in DOMAIN traffic
  /\ flight \in Seq(Seq(Byte)) /\ Len(flight) <= MaxFlight
  /\ reset_counter \in 0 .. 5
  /\ panicked \in BOOLEAN /\ failed \subseteq {"write", "read", "answer"}
  /\ rest.kind \in {"none", "header", "payload"}
  /\ rest.kind = "header" =>
       \E record \in Record : Len(rest.bytes) <= 6 * Len(record)
  /\ rest.kind = "payload" => Len(rest.bytes) < LengthOf(rest.pkt)
  /\ faults \in 0 .. MaxFaults

(* As long as the network has lost and reordered nothing, every packet is  *)
(* handed to the RIB in its turn and with its own payload.                 *)
InSequence ==
  faults = 0 =>
    \A i \in DOMAIN handed :
      /\ handed[i].pkt = traffic[Later(awaited, i - 1 - Len(handed))]
      /\ Intact(handed[i])

(* Self-stabilisation, what reset_counter is for: after the last fault the *)
(* reader finds back to the beginning of a packet, and goes on handing     *)
(* intact packets to the RIB for ever, unless a write or a read fails, or a*)
(* payload that is not text is taken for a header, which panics.  A reset  *)
(* takes seven records.  If the traffic repeats itself after a multiple of *)
(* seven, each reset may end at a payload again; it only comes in the end. *)
CarriesBinary ==
  \E i \in DOMAIN traffic : Contains(PayloadOf[traffic[i]], Binary)

Period == FoldLeft(+, 0, [i \in DOMAIN traffic |-> Len(Records(traffic[i]))])

Resynchronises ==
  []<>(\/ handed # <<>> /\ \A i \in DOMAIN handed : Intact(handed[i])
       \/ Period % 7 = 0 /\ rest.kind # "header"
       \/ panicked /\ CarriesBinary
       \/ failed # {})
=============================================================================
