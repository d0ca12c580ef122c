-------------------------- MODULE DtlsSessionProofs --------------------------
(* Theorems of DtlsSession: what its reader keeps is bounded whatever the  *)
(* network loses or reorders, and as long as it does neither, every packet *)
(* is handed over in its turn.                                             *)
EXTENDS DtlsSession, GdpFramingProofs

-----------------------------------------------------------------------------
(* The records of a packet, and the packets of traffic.                    *)
HeaderRecord(pkt) == HeaderText(pkt) \o <<Null>>

LEMMA Two ==
  ASSUME NEW h, NEW p
  PROVE  <<h>> \o <<p>> = <<h, p>>
<1>1. /\ <<h>> \in Seq({h, p}) /\ <<p>> \in Seq({h, p}) /\ <<h, p>> \in Seq({h, p})
      /\ Len(<<h>>) = 1 /\ Len(<<p>>) = 1 /\ Len(<<h, p>>) = 2
      /\ <<h>>[1] = h /\ <<p>>[1] = p /\ <<h, p>>[1] = h /\ <<h, p>>[2] = p
  OBVIOUS
<1>2. PICK a, b, c : a = <<h>> /\ b = <<p>> /\ c = <<h, p>>
  OBVIOUS
<1>3. /\ a \o b \in Seq({h, p}) /\ Len(a \o b) = Len(a) + Len(b)
      /\ \A i \in 1 .. Len(a) + Len(b) :
           (a \o b)[i] = IF i <= Len(a) THEN a[i] ELSE b[i - Len(a)]
  BY <1>1, <1>2, ConcatProperties
<1>4. Len(a) = 1 /\ Len(b) = 1 /\ Len(c) = 2 /\ c \in Seq({h, p})
  BY <1>1, <1>2
<1>5. Len(a \o b) = 2 /\ (a \o b)[1] = a[1] /\ (a \o b)[2] = b[1]
  BY <1>3, <1>4
<1>6. \A i \in 1 .. Len(a \o b) : (a \o b)[i] = c[i]
  <2>1. \A i \in 1 .. 2 : i = 1 \/ i = 2
    OBVIOUS
  <2> QED  BY <1>1, <1>2, <1>5, <2>1
<1> QED  BY <1>2, <1>3, <1>4, <1>5, <1>6, SeqEqual

LEMMA RecordsAre ==
  ASSUME NEW pkt \in Packet
  PROVE  /\ HeaderRecord(pkt) \in Seq(Byte) /\ PayloadOf[pkt] \in Seq(Byte)
         /\ PayloadOf[pkt] = <<>> => Records(pkt) = <<HeaderRecord(pkt)>>
         /\ PayloadOf[pkt] # <<>> =>
              Records(pkt) = <<HeaderRecord(pkt)>> \o <<PayloadOf[pkt]>>
         /\ HeaderRecord(pkt) \in Record
         /\ PayloadOf[pkt] # <<>> => PayloadOf[pkt] \in Record
<1>1. HeaderRecord(pkt) \in Seq(Byte) /\ PayloadOf[pkt] \in Seq(Byte)
  BY WireIs, PayloadIs DEF HeaderRecord
<1>2. PICK h, p : h = HeaderRecord(pkt) /\ p = PayloadOf[pkt]
  OBVIOUS
<1>3. <<h>> \in Seq({h, p}) /\ <<h>> \o <<>> = <<h>>
  <2>1. <<h>> \in Seq({h, p})
    OBVIOUS
  <2> QED  BY <2>1, ConcatEmptySeq
<1>4. /\ p = <<>> => Records(pkt) = <<h>>
      /\ p # <<>> => Records(pkt) = <<h>> \o <<p>>
  BY <1>2, <1>3 DEF Records, HeaderRecord
<1>5. <<h>> \o <<p>> = <<h, p>>
  BY Two
<1>6. h \in Range(Records(pkt)) /\ (p # <<>> => p \in Range(Records(pkt)))
  <2>1. CASE p = <<>>
    BY <1>4, <2>1 DEF Range
  <2>2. CASE p # <<>>
    <3>1. Records(pkt) = <<h, p>> /\ <<h, p>>[1] = h /\ <<h, p>>[2] = p
      BY <1>4, <1>5, <2>2
    <3>2. DOMAIN <<h, p>> = {1, 2}
      OBVIOUS
    <3> QED  BY <3>1, <3>2 DEF Range
  <2> QED  BY <2>1, <2>2
<1> QED  BY <1>1, <1>2, <1>4, <1>6 DEF Record

LEMMA RecordsTyped ==
  /\ \A pkt \in Packet : Records(pkt) \in Seq(Record)
  /\ \A record \in Record : record \in Seq(Byte) /\ Len(record) \in Nat
<1>1. ASSUME NEW pkt \in Packet
      PROVE  /\ Records(pkt) \in Seq(Record)
             /\ \A record \in Range(Records(pkt)) : record \in Seq(Byte)
  <2>1. PICK h, p : h = HeaderRecord(pkt) /\ p = PayloadOf[pkt]
    OBVIOUS
  <2>2. /\ p = <<>> => Records(pkt) = <<h>>
        /\ p # <<>> => Records(pkt) = <<h>> \o <<p>>
        /\ h \in Record /\ (p # <<>> => p \in Record)
        /\ h \in Seq(Byte) /\ p \in Seq(Byte)
    BY <2>1, RecordsAre
  <2>3. CASE p = <<>>
    <3>1. Records(pkt) = <<h>> /\ <<h>> \in Seq(Record)
      BY <2>2, <2>3
    <3>2. Range(<<h>>) = {h}
      BY DEF Range
    <3> QED  BY <2>2, <3>1, <3>2
  <2>4. CASE p # <<>>
    <3>1. Records(pkt) = <<h, p>>
      BY <2>2, <2>4, Two
    <3>2. <<h, p>> \in Seq(Record)
      BY <2>2, <2>4
    <3>3. Range(<<h, p>>) = {h, p}
      <4>1. DOMAIN <<h, p>> = {1, 2} /\ <<h, p>>[1] = h /\ <<h, p>>[2] = p
        OBVIOUS
      <4> QED  BY <4>1 DEF Range
    <3> QED  BY <2>2, <3>1, <3>2, <3>3
  <2> QED  BY <2>3, <2>4
<1>2. ASSUME NEW record \in Record
      PROVE  record \in Seq(Byte) /\ Len(record) \in Nat
  <2>1. record \in Seq(Byte)
    BY <1>1 DEF Record
  <2> QED  BY <2>1, LenProperties
<1> QED  BY <1>1, <1>2

LEMMA Turns ==
  ASSUME NEW n \in Nat, n > 0, NEW p \in 1 .. n
  PROVE  /\ \A k \in Int : ((p - 1 + k) % n) + 1 \in 1 .. n
         /\ ((p - 1 + 0) % n) + 1 = p
         /\ (((((p - 1 + 1) % n) + 1) - 1 + (1 - 1 - 1)) % n) + 1 = p
<1>1. ASSUME NEW k \in Int
      PROVE  ((p - 1 + k) % n) + 1 \in 1 .. n
  <2>1. PICK a \in Int : a = p - 1 + k
    OBVIOUS
  <2>2. a % n \in 0 .. n - 1
    OBVIOUS
  <2> QED  BY <2>1, <2>2
<1>2. PICK a \in 0 .. n - 1 : a = p - 1 /\ a % n = a
  <2>1. PICK a \in 0 .. n - 1 : a = p - 1
    OBVIOUS
  <2>2. a % n = a
    OBVIOUS
  <2> QED  BY <2>1, <2>2
<1>3. ((p - 1 + 0) % n) + 1 = p
  <2>1. p - 1 + 0 = a
    BY <1>2
  <2> QED  BY <1>2, <2>1
<1>4. (((((p - 1 + 1) % n) + 1) - 1 + (1 - 1 - 1)) % n) + 1 = p
  <2>1. CASE p = n
    <3>1. p - 1 + 1 = n /\ n % n = 0
      BY <2>1
    <3>2. (((p - 1 + 1) % n) + 1) - 1 + (1 - 1 - 1) = 0 - 1
      BY <3>1
    <3>3. (0 - 1) % n = n - 1
      OBVIOUS
    <3> QED  BY <2>1, <3>2, <3>3
  <2>2. CASE p # n
    <3>1. p - 1 + 1 = p /\ p % n = p
      <4>1. p \in 0 .. n - 1
        BY <2>2
      <4> QED  BY <4>1
    <3>2. (((p - 1 + 1) % n) + 1) - 1 + (1 - 1 - 1) = a
      BY <1>2, <3>1
    <3> QED  BY <1>2, <3>2
  <2> QED  BY <2>1, <2>2
<1> QED  BY <1>1, <1>3, <1>4

LEMMA LaterIs ==
  ASSUME traffic \in Traffics
  PROVE  /\ traffic \in Seq(Packet) /\ \A p \in DOMAIN traffic : traffic[p] \in Packet
         /\ 1 \in DOMAIN traffic
         /\ \A p \in DOMAIN traffic : \A k \in Int : Later(p, k) \in DOMAIN traffic
         /\ \A p \in DOMAIN traffic : Later(p, 0) = p
         /\ \A p \in DOMAIN traffic : Later(Later(p, 1), 1 - 1 - 1) = p
<1>1. traffic \in Seq(Packet) /\ traffic # <<>>
  BY DtlsAssumption
<1>2. PICK n \in Nat : n = Len(traffic) /\ n > 0 /\ DOMAIN traffic = 1 .. n
  BY <1>1, EmptySeq, LenProperties
<1>3. ASSUME NEW p \in 1 .. n
      PROVE  /\ \A k \in Int : Later(p, k) \in 1 .. n
             /\ Later(p, 0) = p /\ Later(Later(p, 1), 1 - 1 - 1) = p
  BY <1>2, <1>3, Turns DEF Later
<1>4. \A p \in 1 .. n : traffic[p] \in Packet
  BY <1>1, <1>2, ElementOfSeq
<1>5. 1 \in 1 .. n /\ DOMAIN traffic = 1 .. n
  BY <1>2
<1> QED  BY <1>1, <1>3, <1>4, <1>5

LEMMA Removed ==
  ASSUME NEW S, NEW q \in Seq(S), NEW i \in DOMAIN q
  PROVE  /\ RemoveAt(q, i) \in Seq(S) /\ Len(RemoveAt(q, i)) = Len(q) - 1
         /\ q[i] \in S /\ q # <<>>
         /\ i = 1 => RemoveAt(q, i) = Tail(q)
<1>1. PICK n \in Nat : n = Len(q) /\ i \in 1 .. n /\ \A j \in 1 .. n : q[j] \in S
  <2>1. Len(q) \in Nat /\ DOMAIN q = 1 .. Len(q)
    BY LenProperties
  <2>2. \A j \in 1 .. Len(q) : q[j] \in S
    BY ElementOfSeq
  <2> QED  BY <2>1, <2>2
<1>2. PICK a, b : a = SubSeq(q, 1, i - 1) /\ b = SubSeq(q, i + 1, Len(q))
  OBVIOUS
<1>3. a \in Seq(S) /\ Len(a) = i - 1
  BY <1>1, <1>2, SubSeqProperties
<1>4. b \in Seq(S) /\ Len(b) = n - i
  <2>1. /\ SubSeq(q, i + 1, n) \in Seq(S)
        /\ Len(SubSeq(q, i + 1, n)) = IF i + 1 <= n THEN n - (i + 1) + 1 ELSE 0
    BY <1>1, SubSeqProperties
  <2> QED  BY <1>1, <1>2, <2>1
<1>5. RemoveAt(q, i) = a \o b
  BY <1>2 DEF RemoveAt
<1>6. a \o b \in Seq(S) /\ Len(a \o b) = n - 1
  <2>1. a \o b \in Seq(S) /\ Len(a \o b) = Len(a) + Len(b)
    BY <1>3, <1>4, ConcatProperties
  <2>2. (i - 1) + (n - i) = n - 1
    BY <1>1
  <2> QED  BY <1>3, <1>4, <2>1, <2>2
<1>7. q # <<>>
  BY <1>1, EmptySeq
<1>8. ASSUME i = 1
      PROVE  RemoveAt(q, i) = Tail(q)
  <2>1. a = <<>>
    BY <1>2, <1>8, SubSeqEmpty
  <2>2. b = Tail(q)
    BY <1>2, <1>7, <1>8, TailIsSubSeq
  <2> QED  BY <1>4, <1>5, <2>1, <2>2, ConcatEmptySeq
<1> QED  BY <1>1, <1>5, <1>6, <1>7, <1>8

-----------------------------------------------------------------------------
(* Types, and what the reader keeps.  It has gathered a record for each read*)
(* that reset_counter has counted, and one more.                            *)
Gathered(left, counter) ==
  /\ left.kind = "header" =>
       \E record \in Record : Len(left.bytes) <= (counter + 1) * Len(record)
  /\ left.kind = "payload" => Len(left.bytes) < LengthOf(left.pkt)

Types ==
  /\ traffic \in Traffics
  /\ turn \in DOMAIN traffic /\ awaited \in DOMAIN traffic
  /\ flight \in Seq(Record) /\ Len(flight) <= MaxFlight
  /\ reset_counter \in 0 .. 5
  /\ panicked \in BOOLEAN /\ failed \subseteq {"write", "read", "answer"}
  /\ rest \in Rest /\ Gathered(rest, reset_counter)
  /\ handed \in Seq(FoundPair)
  /\ faults \in 0 .. MaxFaults

LEMMA TypesInit == Init => Types
<1> SUFFICES ASSUME Init
             PROVE  Types
  OBVIOUS
<1>1. turn \in DOMAIN traffic /\ awaited \in DOMAIN traffic
  BY LaterIs DEF Init
<1>2. flight \in Seq(Record) /\ Len(flight) <= MaxFlight /\ handed \in Seq(FoundPair)
  BY EmptySeq, DtlsAssumption DEF Init
<1>3. rest \in Rest /\ Gathered(rest, reset_counter)
  BY DEF Init, Rest, NoRest, Gathered
<1>4. 0 \in 0 .. 5 /\ 0 \in 0 .. MaxFaults
  BY DtlsAssumption
<1> QED  BY <1>1, <1>2, <1>3, <1>4 DEF Init, Types

(* One read more: what was gathered, and a record, are no more than as many *)
(* of the longer of the two.                                               *)
LEMMA OneMore ==
  ASSUME NEW c \in 0 .. 4, NEW m \in Nat, NEW k \in Nat, NEW l \in Nat,
         k <= (c + 1) * m
  PROVE  k + l <= ((c + 1) + 1) * m \/ k + l <= ((c + 1) + 1) * l
<1>1. CASE c = 0
  BY <1>1
<1>2. CASE c = 1
  BY <1>2
<1>3. CASE c = 2
  BY <1>3
<1>4. CASE c = 3
  BY <1>4
<1>5. CASE c = 4
  BY <1>5
<1> QED  BY <1>1, <1>2, <1>3, <1>4, <1>5

LEMMA KeptIsGathered ==
  ASSUME NEW left \in Rest, NEW record \in Record, NEW c \in Nat,
         NEW m \in Nat, Keeps(left, m), m <= (c + 1) * Len(record)
  PROVE  Gathered(left, c)
<1>1. Len(record) \in Nat
  BY RecordsTyped
<1>2. ASSUME left.kind = "header"
      PROVE  Len(left.bytes) <= (c + 1) * Len(record)
  <2>1. Len(left.bytes) \in Nat
    BY <1>2, RestTypes, LenProperties
  <2>2. PICK b \in Nat : b = (c + 1) * Len(record)
    BY <1>1
  <2> QED  BY <1>2, <2>1, <2>2 DEF Keeps
<1> QED  BY <1>2 DEF Keeps, Gathered

Counted ==
  IF rest.kind # "header" THEN reset_counter
  ELSE IF ResetDue(rest) THEN 0 ELSE reset_counter + 1

LEMMA AbsorbTypes ==
  ASSUME Types, NEW record \in Record
  PROVE  /\ Counted \in 0 .. 5
         /\ Absorb(rest, record) \in Result
         /\ Gathered(Absorb(rest, record).rest, Counted)
<1>1. record \in Seq(Byte) /\ Len(record) \in Nat
  BY RecordsTyped
<1>2. PICK l \in Nat : l = Len(record)
  BY <1>1
<1>3. rest \in Rest /\ reset_counter \in 0 .. 5
  BY DEF Types
<1>4. ASSUME NEW c \in 0 .. 5
      PROVE  l <= (c + 1) * l
  BY <1>4
<1>5. CASE rest.kind = "none"
  <2>1. Absorb(rest, record) = parse_header_payload_pairs(record)
    BY <1>5 DEF Absorb
  <2>2. /\ Absorb(rest, record) \in Result
        /\ Keeps(Absorb(rest, record).rest, l)
    BY <1>1, <1>2, <2>1, ParserType
  <2>3. Absorb(rest, record).rest \in Rest
    BY <2>2 DEF Result
  <2>4. Counted = reset_counter
    BY <1>5 DEF Counted
  <2>5. Gathered(Absorb(rest, record).rest, reset_counter)
    <3>1. reset_counter \in Nat /\ l <= (reset_counter + 1) * Len(record)
      BY <1>2, <1>3, <1>4
    <3> QED  BY <2>2, <2>3, <3>1, KeptIsGathered
  <2> QED  BY <1>3, <2>2, <2>4, <2>5
<1>6. CASE rest.kind = "payload"
  <2>1. PICK pkt \in Packet, part \in Seq(Byte) :
          /\ rest = PayloadRest(pkt, part) /\ Len(part) < LengthOf(pkt)
    <3>1. /\ rest.pkt \in Packet /\ rest.bytes \in Seq(Byte)
          /\ rest = PayloadRest(rest.pkt, rest.bytes)
          /\ Len(rest.bytes) < LengthOf(rest.pkt)
      BY <1>3, <1>6, RestTypes DEF Types, Gathered
    <3> QED  BY <3>1
  <2>2. Absorb(rest, record) = AbsorbPayload(PayloadRest(pkt, part), record)
    BY <1>6, <2>1 DEF Absorb
  <2>3. /\ Absorb(rest, record) \in Result
        /\ Keeps(Absorb(rest, record).rest, l)
    BY <1>1, <1>2, <2>1, <2>2, AbsorbPayloadType
  <2>4. Absorb(rest, record).rest \in Rest
    BY <2>3 DEF Result
  <2>5. Counted = reset_counter
    BY <1>6 DEF Counted
  <2>6. Gathered(Absorb(rest, record).rest, reset_counter)
    <3>1. reset_counter \in Nat /\ l <= (reset_counter + 1) * Len(record)
      BY <1>2, <1>3, <1>4
    <3> QED  BY <2>3, <2>4, <3>1, KeptIsGathered
  <2> QED  BY <1>3, <2>3, <2>5, <2>6
<1>7. CASE rest.kind = "header"
  <2>1. PICK bytes \in Seq(Byte), old \in Record :
          rest.bytes = bytes /\ Len(bytes) <= (reset_counter + 1) * Len(old)
    <3>1. rest.bytes \in Seq(Byte)
      BY <1>3, <1>7, RestTypes
    <3> QED  BY <1>7, <3>1 DEF Types, Gathered
  <2>2. PICK k \in Nat, m \in Nat : k = Len(bytes) /\ m = Len(old)
    BY LenProperties, RecordsTyped
  <2>3. CASE ResetDue(rest)
    <3>1. Absorb(rest, record) = Parsed(<<>>, NoRest) /\ Counted = 0
      BY <1>7, <2>3 DEF Absorb, Counted
    <3>2. Absorb(rest, record) \in Result
      <4>1. <<>> \in Seq(FoundPair) /\ NoRest \in Rest
        BY EmptySeq DEF Rest
      <4> QED  BY <3>1, <4>1, ResultTypes
    <3>3. Gathered(Absorb(rest, record).rest, 0)
      BY <3>1 DEF Gathered, Parsed, NoRest
    <3> QED  BY <3>1, <3>2, <3>3
  <2>4. CASE ~ResetDue(rest)
    <3>1. reset_counter \in 0 .. 4 /\ Counted = reset_counter + 1
      BY <1>3, <1>7, <2>4 DEF ResetDue, Counted
    <3>2. PICK buffer \in Seq(Byte) : buffer = bytes \o record /\ Len(buffer) = k + l
      BY <1>1, <1>2, <2>2, ConcatProperties
    <3>3. Absorb(rest, record) = parse_header_payload_pairs(buffer)
      BY <1>7, <2>1, <2>4, <3>2 DEF Absorb
    <3>4. /\ Absorb(rest, record) \in Result
          /\ Keeps(Absorb(rest, record).rest, k + l)
      BY <3>2, <3>3, ParserType
    <3>5. PICK longer \in Record : k + l <= (Counted + 1) * Len(longer)
      <4>1. k <= (reset_counter + 1) * m
        BY <2>1, <2>2
      <4>2. \/ k + l <= ((reset_counter + 1) + 1) * m
            \/ k + l <= ((reset_counter + 1) + 1) * l
        BY <3>1, <4>1, OneMore
      <4> QED  BY <1>2, <2>2, <3>1, <4>2
    <3>6. Absorb(rest, record).rest \in Rest /\ Counted \in Nat /\ k + l \in Nat
      BY <3>1, <3>4 DEF Result
    <3>7. Gathered(Absorb(rest, record).rest, Counted)
      BY <3>4, <3>5, <3>6, KeptIsGathered
    <3>8. Counted \in 0 .. 5
      BY <3>1
    <3> QED  BY <3>4, <3>7, <3>8
  <2> QED  BY <2>3, <2>4
<1> QED  BY <1>3, <1>5, <1>6, <1>7, RestTypes

LEMMA WriteTypes ==
  ASSUME Types, Write
  PROVE  Types'
<1>1. traffic[turn] \in Packet /\ Later(turn, 1) \in DOMAIN traffic
  BY LaterIs DEF Types
<1>2. PICK new : new = Records(traffic[turn])
  OBVIOUS
<1>3. /\ Len(flight) + Len(new) <= MaxFlight /\ flight' = flight \o new
      /\ turn' = Later(turn, 1) /\ UNCHANGED <<traffic, reader, failed, faults>>
  BY <1>2 DEF Write
<1>4. flight' \in Seq(Record) /\ Len(flight') <= MaxFlight
  <2>1. flight \in Seq(Record) /\ new \in Seq(Record)
    BY <1>1, <1>2, RecordsTyped DEF Types
  <2>2. flight \o new \in Seq(Record) /\ Len(flight \o new) = Len(flight) + Len(new)
    BY <2>1, ConcatProperties
  <2> QED  BY <1>3, <2>2
<1>5. turn' \in DOMAIN traffic'
  BY <1>1, <1>3
<1>6. Gathered(rest, reset_counter)'
  BY <1>3 DEF Types, reader, Gathered
<1> QED  BY <1>3, <1>4, <1>5, <1>6 DEF Types, reader

(* A write that fails has sent nothing, or the header of a packet with a   *)
(* payload.                                                                *)
LEMMA HalfWritten ==
  ASSUME NEW pkt \in Packet, NEW n \in 0 .. Len(Records(pkt)) - 1
  PROVE  \/ n = 0 /\ SubSeq(Records(pkt), 1, n) = <<>>
         \/ /\ n = 1 /\ PayloadOf[pkt] # <<>>
            /\ SubSeq(Records(pkt), 1, n) = <<HeaderRecord(pkt)>>
<1>1. PICK h, p, rs : /\ h = HeaderRecord(pkt) /\ p = PayloadOf[pkt]
                      /\ rs = Records(pkt)
  OBVIOUS
<1>2. /\ p = <<>> => rs = <<h>>
      /\ p # <<>> => rs = <<h, p>>
  BY <1>1, RecordsAre, Two
<1>3. n \in 0 .. Len(rs) - 1 /\ rs \in Seq(Record)
  BY <1>1, RecordsTyped
<1>4. CASE n = 0
  <2>1. SubSeq(rs, 1, 0) = <<>>
    BY <1>3, SubSeqEmpty
  <2> QED  BY <1>1, <1>4, <2>1
<1>5. CASE n # 0
  <2>1. p # <<>> /\ rs = <<h, p>> /\ n = 1
    <3>1. PICK a, b : a = <<h>> /\ b = <<h, p>> /\ Len(a) = 1 /\ Len(b) = 2
      <4>1. Len(<<h>>) = 1 /\ Len(<<h, p>>) = 2
        OBVIOUS
      <4> QED  BY <4>1
    <3>2. PICK l : l = Len(rs) /\ n \in 0 .. l - 1
      BY <1>3
    <3>3. p = <<>> => l = 1
      BY <1>2, <3>1, <3>2
    <3>4. p # <<>> => l = 2
      BY <1>2, <3>1, <3>2
    <3>5. p # <<>> /\ n = 1
      BY <1>5, <3>2, <3>3, <3>4
    <3> QED  BY <1>2, <3>5
  <2>2. rs[1] = h /\ Len(rs) = 2
    BY <2>1
  <2>3. PICK a : a = SubSeq(rs, 1, 1)
    OBVIOUS
  <2>4. a \in Seq(Record) /\ Len(a) = 1 /\ a[1] = h
    BY <1>3, <2>2, <2>3, SubSeqProperties
  <2>5. a = <<h>>
    <3>1. h \in Record
      BY <1>1, RecordsAre
    <3>2. PICK b \in Seq({h}) : b = <<h>> /\ Len(b) = 1 /\ b[1] = h
      <4>1. <<h>> \in Seq({h}) /\ Len(<<h>>) = 1 /\ <<h>>[1] = h
        OBVIOUS
      <4> QED  BY <4>1
    <3>3. \A i \in 1 .. Len(a) : a[i] = b[i]
      BY <2>4, <3>2
    <3> QED  BY <2>4, <3>2, <3>3, SeqEqual
  <2> QED  BY <1>1, <2>1, <2>3, <2>5
<1> QED  BY <1>4, <1>5

LEMMA WriteFailsTypes ==
  ASSUME Types, WriteFails
  PROVE  Types'
<1>1. PICK n \in 0 .. Len(Records(traffic[turn])) - 1 :
        /\ Len(flight) + n <= MaxFlight
        /\ flight' = flight \o SubSeq(Records(traffic[turn]), 1, n)
  BY DEF WriteFails
<1>2. /\ failed' = failed \cup {"write"}
      /\ UNCHANGED <<traffic, turn, reader, faults>>
  BY DEF WriteFails
<1>3. traffic[turn] \in Packet /\ flight \in Seq(Record)
  BY LaterIs DEF Types
<1>4. PICK new : new = SubSeq(Records(traffic[turn]), 1, n)
  OBVIOUS
<1>5. new \in Seq(Record) /\ Len(new) = n
  <2>1. CASE n = 0 /\ new = <<>>
    BY <2>1, EmptySeq
  <2>2. CASE n = 1 /\ new = <<HeaderRecord(traffic[turn])>>
    <3>1. PICK h \in Record : h = HeaderRecord(traffic[turn])
      BY <1>3, RecordsAre
    <3>2. <<h>> \in Seq(Record) /\ Len(<<h>>) = 1
      OBVIOUS
    <3> QED  BY <2>2, <3>1, <3>2
  <2> QED  BY <1>3, <1>4, <2>1, <2>2, HalfWritten
<1>6. flight' \in Seq(Record) /\ Len(flight') <= MaxFlight
  <2>1. flight \o new \in Seq(Record) /\ Len(flight \o new) = Len(flight) + Len(new)
    BY <1>3, <1>5, ConcatProperties
  <2> QED  BY <1>1, <1>4, <1>5, <2>1
<1>7. Gathered(rest, reset_counter)'
  BY <1>2 DEF Types, reader, Gathered
<1> QED  BY <1>2, <1>6, <1>7 DEF Types, reader

LEMMA LoseTypes ==
  ASSUME Types, NEW i \in DOMAIN flight, Lose(i)
  PROVE  Types'
<1>1. /\ faults < MaxFaults /\ flight' = RemoveAt(flight, i) /\ faults' = faults + 1
      /\ UNCHANGED <<traffic, turn, reader, failed>>
  BY DEF Lose
<1>2. flight \in Seq(Record) /\ Len(flight) \in Nat
  BY LenProperties DEF Types
<1>3. RemoveAt(flight, i) \in Seq(Record) /\ Len(RemoveAt(flight, i)) = Len(flight) - 1
  BY <1>2, Removed
<1>4. Len(flight') <= MaxFlight
  BY <1>1, <1>2, <1>3, DtlsAssumption DEF Types
<1>5. faults' \in 0 .. MaxFaults
  BY <1>1, DtlsAssumption DEF Types
<1>6. Gathered(rest, reset_counter)'
  BY <1>1 DEF Types, reader, Gathered
<1> QED  BY <1>1, <1>3, <1>4, <1>5, <1>6 DEF Types, reader

LEMMA ReadTypes ==
  ASSUME Types, NEW i \in DOMAIN flight, Read(i)
  PROVE  Types'
<1>1. PICK result : result = Absorb(rest, flight[i])
  OBVIOUS
<1>2. /\ i > 1 => faults < MaxFaults
      /\ faults' = IF i > 1 THEN faults + 1 ELSE faults
      /\ flight' = RemoveAt(flight, i) /\ reset_counter' = Counted
      /\ rest' = result.rest /\ handed' = result.pairs
      /\ awaited' = Later(awaited, Len(result.pairs)) /\ panicked' = result.panic
      /\ UNCHANGED <<traffic, turn, failed>>
  BY <1>1 DEF Read, Counted
<1>3. flight \in Seq(Record) /\ Len(flight) \in Nat
  BY LenProperties DEF Types
<1>4. /\ RemoveAt(flight, i) \in Seq(Record) /\ Len(RemoveAt(flight, i)) = Len(flight) - 1
      /\ flight[i] \in Record
  BY <1>3, Removed
<1>5. /\ result \in Result /\ Counted \in 0 .. 5 /\ Gathered(result.rest, Counted)
  BY <1>1, <1>4, AbsorbTypes
<1>6. /\ result.pairs \in Seq(FoundPair) /\ result.rest \in Rest
      /\ result.panic \in BOOLEAN /\ Len(result.pairs) \in Int
  BY <1>5, LenProperties DEF Result
<1>7. awaited' \in DOMAIN traffic'
  BY <1>2, <1>6, LaterIs DEF Types
<1>8. Len(flight') <= MaxFlight
  BY <1>2, <1>3, <1>4, DtlsAssumption DEF Types
<1>9. faults' \in 0 .. MaxFaults
  BY <1>2, DtlsAssumption DEF Types
<1>10. Gathered(rest, reset_counter)'
  BY <1>2, <1>5 DEF Gathered
<1> QED  BY <1>2, <1>4, <1>5, <1>6, <1>7, <1>8, <1>9, <1>10 DEF Types

LEMMA TypesNext == Types /\ [Next]_vars => Types'
<1> SUFFICES ASSUME Types, [Next]_vars
             PROVE  Types'
  OBVIOUS
<1>1. CASE UNCHANGED vars
  BY <1>1 DEF vars, reader, Types, Gathered
<1>2. CASE ReadFails \/ Answer
  <2>1. UNCHANGED <<traffic, turn, flight, reader, faults>>
    BY <1>2 DEF ReadFails, Answer
  <2>2. failed' \subseteq {"write", "read", "answer"}
    BY <1>2 DEF ReadFails, Answer, Types
  <2> QED  BY <2>1, <2>2 DEF reader, Types, Gathered
<1> QED
  BY <1>1, <1>2, WriteTypes, WriteFailsTypes, LoseTypes, ReadTypes DEF Next

(* The types hold, and the reader keeps no more of a header than six       *)
(* records and no whole payload, whatever is lost or reordered.            *)
THEOREM DtlsTypeCorrect == Spec => []TypeOK
<1>1. Types => TypeOK
  <2> SUFFICES ASSUME Types
               PROVE  TypeOK
    OBVIOUS
  <2>1. flight \in Seq(Seq(Byte))
    <3>1. flight \in Seq(Record) /\ Record \subseteq Seq(Byte)
      BY RecordsTyped DEF Types
    <3> QED  BY <3>1, SeqMonotonic
  <2>2. rest.kind \in {"none", "header", "payload"}
    BY RestTypes DEF Types
  <2>3. ASSUME rest.kind = "header"
        PROVE  \E record \in Record : Len(rest.bytes) <= 6 * Len(record)
    <3>1. PICK record \in Record :
            Len(rest.bytes) <= (reset_counter + 1) * Len(record)
      BY <2>3 DEF Types, Gathered
    <3>2. PICK k \in Nat, l \in Nat : k = Len(rest.bytes) /\ l = Len(record)
      BY <2>3, RestTypes, LenProperties, RecordsTyped DEF Types
    <3>3. ASSUME NEW c \in 0 .. 5, k <= (c + 1) * l
          PROVE  k <= 6 * l
      <4>1. c + 1 = 1 \/ c + 1 = 2 \/ c + 1 = 3 \/ c + 1 = 4 \/ c + 1 = 5 \/ c + 1 = 6
        OBVIOUS
      <4> QED  BY <3>3, <4>1
    <3>4. k <= 6 * l
      BY <3>1, <3>2, <3>3 DEF Types
    <3> QED  BY <3>2, <3>4
  <2> QED  BY <2>1, <2>2, <2>3 DEF TypeOK, Types, Gathered
<1> QED  BY <1>1, TypesInit, TypesNext, PTL DEF Spec

-----------------------------------------------------------------------------
(* The order of records.  A mark is a packet of traffic and one of its     *)
(* records.                                                                *)
Mark(p, part) == [of |-> p, part |-> part]

Marks == [of : DOMAIN traffic, part : {"header", "payload"}]

RecordAt(m) ==
  IF m.part = "header" THEN HeaderRecord(traffic[m.of]) ELSE PayloadOf[traffic[m.of]]

Successor(m) ==
  IF m.part = "header" /\ PayloadOf[traffic[m.of]] # <<>>
  THEN Mark(m.of, "payload") ELSE Mark(Later(m.of, 1), "header")

(* The records in q are those from mark `from' on, up to the one ahead of   *)
(* mark `to'.                                                              *)
Marked(q, from, to, mark) ==
  /\ mark[1] = from /\ mark[Len(q) + 1] = to
  /\ \A i \in 1 .. Len(q) :
       q[i] = RecordAt(mark[i]) /\ mark[i + 1] = Successor(mark[i])

Consecutive(q, from, to) == \E mark : Marked(q, from, to, mark)

LEMMA SameTraffic ==
  ASSUME traffic' = traffic, NEW q, NEW from, NEW to, Consecutive(q, from, to)
  PROVE  Consecutive(q, from, to)'
BY DEF Consecutive, Marked, RecordAt, Successor, Later

LEMMA OneMoreRecord ==
  ASSUME NEW S, NEW q \in Seq(S), NEW from, NEW to, Consecutive(q, from, to),
         NEW record \in S, record = RecordAt(to)
  PROVE  Consecutive(q \o <<record>>, from, Successor(to))
<1>1. PICK mark : Marked(q, from, to, mark)
  BY DEF Consecutive
<1>2. PICK n \in Nat : n = Len(q)
  BY LenProperties
<1>3. PICK longer : longer = Append(q, record)
  OBVIOUS
<1>4. /\ longer = q \o <<record>> /\ Len(longer) = n + 1
      /\ \A i \in 1 .. n : longer[i] = q[i]
      /\ longer[n + 1] = record
  BY <1>2, <1>3, AppendIsConcat, AppendProperties
<1>5. PICK more : more = [i \in 1 .. n + 2 |-> IF i <= n + 1 THEN mark[i] ELSE Successor(to)]
  OBVIOUS
<1>6. /\ \A i \in 1 .. n + 1 : more[i] = mark[i]
      /\ more[(n + 1) + 1] = Successor(to)
  BY <1>2, <1>5
<1>7. mark[1] = from /\ mark[n + 1] = to
  BY <1>1, <1>2 DEF Marked
<1>8. ASSUME NEW i \in 1 .. n + 1
      PROVE  longer[i] = RecordAt(more[i]) /\ more[i + 1] = Successor(more[i])
  <2>1. CASE i = n + 1
    BY <1>4, <1>6, <1>7, <2>1
  <2>2. CASE i # n + 1
    <3>1. i \in 1 .. n /\ i + 1 \in 1 .. n + 1
      BY <1>2, <2>2
    <3>2. q[i] = RecordAt(mark[i]) /\ mark[i + 1] = Successor(mark[i])
      BY <1>1, <1>2, <3>1 DEF Marked
    <3> QED  BY <1>4, <1>6, <3>1, <3>2
  <2> QED  BY <2>1, <2>2
<1>9. 1 \in 1 .. n + 1
  BY <1>2
<1>10. Marked(longer, from, Successor(to), more)
  BY <1>4, <1>6, <1>7, <1>8, <1>9 DEF Marked
<1> QED  BY <1>4, <1>10 DEF Consecutive

LEMMA FirstRecord ==
  ASSUME NEW S, NEW q \in Seq(S), q # <<>>, NEW from, NEW to,
         Consecutive(q, from, to)
  PROVE  q[1] = RecordAt(from) /\ Consecutive(Tail(q), Successor(from), to)
<1>1. PICK mark : Marked(q, from, to, mark)
  BY DEF Consecutive
<1>2. PICK n \in Nat : n = Len(q) /\ n > 0
  BY EmptySeq, LenProperties
<1>3. PICK tail : tail = Tail(q)
  OBVIOUS
<1>4. Len(tail) = n - 1 /\ \A i \in 1 .. n - 1 : tail[i] = q[i + 1]
  BY <1>2, <1>3, HeadTailProperties
<1>5. PICK rest_mark : rest_mark = [i \in 1 .. n |-> mark[i + 1]]
  OBVIOUS
<1>6. /\ mark[1] = from /\ mark[n + 1] = to
      /\ \A i \in 1 .. n : q[i] = RecordAt(mark[i]) /\ mark[i + 1] = Successor(mark[i])
  BY <1>1, <1>2 DEF Marked
<1>7. 1 \in 1 .. n /\ n \in 1 .. n
  BY <1>2
<1>8. q[1] = RecordAt(from) /\ rest_mark[1] = Successor(from) /\ rest_mark[n] = to
  <2>1. rest_mark[1] = mark[1 + 1] /\ rest_mark[n] = mark[n + 1]
    BY <1>5, <1>7
  <2> QED  BY <1>6, <1>7, <2>1
<1>9. ASSUME NEW i \in 1 .. n - 1
      PROVE  tail[i] = RecordAt(rest_mark[i]) /\ rest_mark[i + 1] = Successor(rest_mark[i])
  <2>1. i \in 1 .. n /\ i + 1 \in 1 .. n
    BY <1>2
  <2>2. rest_mark[i] = mark[i + 1] /\ rest_mark[i + 1] = mark[(i + 1) + 1]
    BY <1>5, <2>1
  <2>3. q[i + 1] = RecordAt(mark[i + 1]) /\ mark[(i + 1) + 1] = Successor(mark[i + 1])
    BY <1>6, <2>1
  <2> QED  BY <1>4, <2>2, <2>3
<1>10. Len(tail) + 1 = n
  BY <1>2, <1>4
<1>11. Marked(tail, Successor(from), to, rest_mark)
  BY <1>4, <1>8, <1>9, <1>10 DEF Marked
<1> QED  BY <1>3, <1>8, <1>11 DEF Consecutive

-----------------------------------------------------------------------------
(* What a reader in step makes of a record.                                *)
LEMMA HeaderParsed ==
  ASSUME NEW pkt \in Packet
  PROVE  parse_header_payload_pairs(HeaderRecord(pkt)) =
           IF PayloadOf[pkt] = <<>> THEN Parsed(<<Pair(pkt, PayloadOf[pkt])>>, NoRest)
           ELSE Parsed(<<>>, PayloadRest(pkt, <<>>))
<1>1. PICK buffer \in Seq(Byte) :
        /\ buffer = HeaderRecord(pkt) /\ Len(buffer) = HeaderLen + 1
        /\ \A j \in 1 .. HeaderLen + 1 : buffer[j] = WireByte(pkt, j)
  BY WireIs DEF HeaderRecord
<1>2. HeaderLen \in Nat /\ LengthOf(pkt) \in Nat /\ Len(PayloadOf[pkt]) = LengthOf(pkt)
  BY HeaderTextIs, PayloadIs
<1>3. buffer # <<>> /\ 1 \in 1 .. Len(buffer) /\ 1 \in 1 .. Len(buffer) + 1
  BY <1>1, <1>2, EmptySeq
<1>4. PICK F : /\ IsLoop(buffer, F)
               /\ parse_header_payload_pairs(buffer) = F[1]
  BY <1>1, <1>3, ParserIsLoop
<1>5. F[1] = Turn(buffer, 1, F)
  BY <1>3, <1>4 DEF IsLoop
<1>6. StartsAt(buffer, 1, pkt)
  BY <1>1, <1>2 DEF StartsAt, WireLen
<1>7. 1 + HeaderLen <= Len(buffer) /\ Len(buffer) - (1 + HeaderLen) = 0
  BY <1>1, <1>2
<1>8. CASE PayloadOf[pkt] = <<>>
  <2>1. LengthOf(pkt) = Len(buffer) - (1 + HeaderLen)
    BY <1>2, <1>7, <1>8
  <2>2. Turn(buffer, 1, F) = Parsed(<<Pair(pkt, PayloadOf[pkt])>>, NoRest)
    BY <1>1, <1>3, <1>6, <1>7, <2>1, TurnAtEnd
  <2> QED  BY <1>1, <1>4, <1>5, <1>8, <2>2
<1>9. CASE PayloadOf[pkt] # <<>>
  <2>1. LengthOf(pkt) > Len(buffer) - (1 + HeaderLen)
    <3>1. LengthOf(pkt) # 0
      BY <1>2, <1>9, PayloadIs, EmptySeq
    <3> QED  BY <1>2, <1>7, <3>1
  <2>2. PICK part \in Seq(Byte) :
          /\ Turn(buffer, 1, F) = Parsed(<<>>, PayloadRest(pkt, part))
          /\ Len(part) = Len(buffer) - (1 + HeaderLen)
    BY <1>1, <1>3, <1>6, <1>7, <2>1, TurnInPayload
  <2>3. part = <<>>
    BY <1>7, <2>2, EmptySeq
  <2> QED  BY <1>1, <1>4, <1>5, <1>9, <2>2, <2>3
<1> QED  BY <1>8, <1>9

LEMMA PayloadAbsorbed ==
  ASSUME NEW pkt \in Packet
  PROVE  AbsorbPayload(PayloadRest(pkt, <<>>), PayloadOf[pkt]) =
           Parsed(<<Pair(pkt, PayloadOf[pkt])>>, NoRest)
<1>1. PICK p, l : p = PayloadOf[pkt] /\ l = LengthOf(pkt)
  OBVIOUS
<1>2. p \in Seq(Byte) /\ l \in Nat /\ Len(p) = l
  BY <1>1, PayloadIs
<1>3. <<>> \o p = p /\ SubSeq(p, 1, l) = p /\ SubSeq(p, l + 1, Len(p)) = <<>>
  BY <1>2, ConcatEmptySeq, SubSeqFull, SubSeqEmpty
<1>4. parse_header_payload_pairs(<<>>) = Parsed(<<>>, NoRest)
  BY DEF parse_header_payload_pairs
<1>5. PICK found : found = Pair(pkt, p)
  OBVIOUS
<1>6. <<found>> \o <<>> = <<found>>
  <2>1. <<found>> \in Seq({found})
    OBVIOUS
  <2> QED  BY <2>1, ConcatEmptySeq
<1>7. /\ Parsed(<<>>, NoRest).pairs = <<>> /\ Parsed(<<>>, NoRest).rest = NoRest
      /\ Parsed(<<>>, NoRest).panic = FALSE
  BY DEF Parsed
<1>8. PICK left : left = PayloadRest(pkt, <<>>)
  OBVIOUS
<1>9. left.pkt = pkt /\ left.bytes = <<>>
  BY <1>8 DEF PayloadRest
<1>10. ~(Len(p) < l)
  BY <1>2
<1>11. AbsorbPayload(left, p) = Parsed(<<found>>, NoRest)
  BY <1>1, <1>3, <1>4, <1>5, <1>6, <1>7, <1>9, <1>10 DEF AbsorbPayload
<1> QED  BY <1>1, <1>5, <1>8, <1>11

-----------------------------------------------------------------------------
(* As long as there is no fault, the reader waits for a record of the packet*)
(* to be handed over next, the records in flight follow each other from that*)
(* one on to the packet to be written next, or to where a write has failed, *)
(* and the last read has handed over the packet ahead of it or nothing.    *)
Expected == Mark(awaited, IF rest.kind = "payload" THEN "payload" ELSE "header")

InStep ==
  \/ rest = NoRest
  \/ /\ rest = PayloadRest(traffic[awaited], <<>>)
     /\ PayloadOf[traffic[awaited]] # <<>>

HandedInTurn ==
  \/ handed = <<>>
  \/ \E p \in DOMAIN traffic :
       /\ handed = <<Pair(traffic[p], PayloadOf[traffic[p]])>>
       /\ awaited = Later(p, 1)

InOrderTo(to) ==
  /\ Consecutive(flight, Expected, to)
  /\ "write" \notin failed => to = Mark(turn, "header")

Faultless == InStep /\ HandedInTurn /\ \E to : InOrderTo(to)

SequenceInv == Types /\ (faults = 0 => Faultless)

LEMMA FaultlessInit == Init => Faultless
<1> SUFFICES ASSUME Init
             PROVE  Faultless
  OBVIOUS
<1>1. InStep /\ HandedInTurn
  BY DEF Init, InStep, HandedInTurn
<1>2. Expected = Mark(1, "header") /\ flight = <<>> /\ Mark(turn, "header") = Mark(1, "header")
  BY DEF Init, Expected, NoRest
<1>3. PICK mark : mark = [i \in 1 .. 1 |-> Mark(1, "header")]
  OBVIOUS
<1>4. mark[1] = Mark(1, "header")
  BY <1>3
<1>5. Marked(<<>>, Mark(1, "header"), Mark(1, "header"), mark)
  <2>1. Len(<<>>) + 1 = 1 /\ 1 .. Len(<<>>) = {}
    BY EmptySeq
  <2> QED  BY <1>4, <2>1 DEF Marked
<1> QED  BY <1>1, <1>2, <1>5 DEF Faultless, InOrderTo, Consecutive

LEMMA WriteInTurn ==
  ASSUME Types, Write, Faultless
  PROVE  Faultless'
<1>1. PICK pkt, h, p : /\ pkt = traffic[turn] /\ h = HeaderRecord(pkt)
                       /\ p = PayloadOf[pkt]
  OBVIOUS
<1>2. /\ pkt \in Packet /\ flight \in Seq(Record) /\ h \in Record
      /\ p # <<>> => p \in Record
  BY <1>1, LaterIs, RecordsAre DEF Types
<1>3. /\ flight' = flight \o Records(pkt) /\ turn' = Later(turn, 1)
      /\ "write" \notin failed
      /\ UNCHANGED <<traffic, rest, awaited, handed, failed>>
  BY <1>1 DEF Write, reader
<1>4. PICK from : from = Expected
  OBVIOUS
<1>5. PICK to : to = Mark(turn, "header")
  OBVIOUS
<1>6. RecordAt(to) = h /\ to.part = "header" /\ to.of = turn
  BY <1>1, <1>5 DEF RecordAt, Mark
<1>7. Consecutive(flight \o <<h>>, from, Successor(to))
  <2>1. Consecutive(flight, from, to)
    BY <1>3, <1>4, <1>5 DEF Faultless, InOrderTo
  <2> QED  BY <1>2, <1>6, <2>1, OneMoreRecord
<1>8. Consecutive(flight', from, Mark(Later(turn, 1), "header"))
  <2>1. CASE p = <<>>
    <3>1. Successor(to) = Mark(Later(turn, 1), "header")
      BY <1>1, <1>6, <2>1 DEF Successor
    <3>2. flight' = flight \o <<h>>
      BY <1>1, <1>2, <1>3, <2>1, RecordsAre
    <3> QED  BY <1>7, <3>1, <3>2
  <2>2. CASE p # <<>>
    <3>1. PICK mid : mid = Mark(turn, "payload")
      OBVIOUS
    <3>2. Successor(to) = mid
      BY <1>1, <1>6, <2>2, <3>1 DEF Successor
    <3>3. RecordAt(mid) = p /\ Successor(mid) = Mark(Later(turn, 1), "header")
      BY <1>1, <3>1 DEF RecordAt, Successor, Mark
    <3>4. flight \o <<h>> \in Seq(Record)
      <4>1. <<h>> \in Seq(Record)
        BY <1>2
      <4> QED  BY <1>2, <4>1, ConcatProperties
    <3>5. Consecutive((flight \o <<h>>) \o <<p>>, from, Successor(mid))
      BY <1>2, <1>7, <2>2, <3>2, <3>3, <3>4, OneMoreRecord
    <3>6. flight' = (flight \o <<h>>) \o <<p>>
      <4>1. <<h>> \in Seq(Record) /\ <<p>> \in Seq(Record)
        BY <1>2, <2>2
      <4>2. flight' = flight \o (<<h>> \o <<p>>)
        BY <1>1, <1>2, <1>3, <2>2, RecordsAre
      <4> QED  BY <1>2, <4>1, <4>2, ConcatAssociative
    <3> QED  BY <3>3, <3>5, <3>6
  <2> QED  BY <2>1, <2>2
<1>9. PICK q, to2 : q = flight' /\ to2 = Mark(Later(turn, 1), "header")
  OBVIOUS
<1>10. Consecutive(q, from, to2)'
  BY <1>3, <1>8, <1>9, SameTraffic
<1>11. Expected' = from /\ Mark(turn, "header")' = to2
  BY <1>3, <1>4, <1>9 DEF Expected
<1>12. InOrderTo(to2)'
  BY <1>9, <1>10, <1>11 DEF InOrderTo
<1>13. (InStep /\ HandedInTurn)'
  BY <1>3 DEF Faultless, InStep, HandedInTurn, Later
<1> QED  BY <1>12, <1>13 DEF Faultless

(* A write that fails leaves the order as it is, also half-way.            *)
LEMMA WriteFailsInTurn ==
  ASSUME Types, WriteFails, Faultless
  PROVE  Faultless'
<1>1. PICK pkt, h : pkt = traffic[turn] /\ h = HeaderRecord(pkt)
  OBVIOUS
<1>2. pkt \in Packet /\ flight \in Seq(Record) /\ h \in Record
  BY <1>1, LaterIs, RecordsAre DEF Types
<1>3. PICK n \in 0 .. Len(Records(pkt)) - 1 :
        flight' = flight \o SubSeq(Records(pkt), 1, n)
  BY <1>1 DEF WriteFails
<1>4. /\ "write" \notin failed /\ "write" \in failed'
      /\ UNCHANGED <<traffic, turn, rest, awaited, handed>>
  BY DEF WriteFails, reader
<1>5. PICK from, to : from = Expected /\ to = Mark(turn, "header")
  OBVIOUS
<1>6. Consecutive(flight, from, to)
  BY <1>4, <1>5 DEF Faultless, InOrderTo
<1>7. \/ flight' = flight
      \/ flight' = flight \o <<h>>
  <2>1. CASE SubSeq(Records(pkt), 1, n) = <<>>
    BY <1>2, <1>3, <2>1, ConcatEmptySeq
  <2> QED  BY <1>1, <1>2, <1>3, <2>1, HalfWritten
<1>8. PICK q, to2 : q = flight' /\ Consecutive(q, from, to2)
  <2>1. CASE flight' = flight
    BY <1>6, <2>1
  <2>2. CASE flight' = flight \o <<h>>
    <3>1. RecordAt(to) = h
      BY <1>1, <1>5 DEF RecordAt, Mark
    <3>2. Consecutive(flight \o <<h>>, from, Successor(to))
      BY <1>2, <1>6, <3>1, OneMoreRecord
    <3> QED  BY <2>2, <3>2
  <2> QED  BY <1>7, <2>1, <2>2
<1>9. Consecutive(q, from, to2)'
  BY <1>4, <1>8, SameTraffic
<1>10. Expected' = from
  BY <1>4, <1>5 DEF Expected
<1>11. InOrderTo(to2)'
  BY <1>4, <1>8, <1>9, <1>10 DEF InOrderTo
<1>12. (InStep /\ HandedInTurn)'
  BY <1>4 DEF Faultless, InStep, HandedInTurn, Later
<1> QED  BY <1>11, <1>12 DEF Faultless

(* The next record is what the reader waits for.                           *)
LEMMA ReadInTurn ==
  ASSUME Types, Types', Faultless, 1 \in DOMAIN flight, Read(1)
  PROVE  Faultless'
<1>1. PICK pkt, to, from : /\ pkt = traffic[awaited] /\ from = Expected
                           /\ InOrderTo(to)
  BY DEF Faultless
<1>2. pkt \in Packet /\ awaited \in DOMAIN traffic
  BY <1>1, LaterIs DEF Types
<1>3. PICK result : result = Absorb(rest, flight[1])
  OBVIOUS
<1>4. /\ flight' = RemoveAt(flight, 1) /\ rest' = result.rest /\ handed' = result.pairs
      /\ awaited' = Later(awaited, Len(result.pairs))
      /\ UNCHANGED <<traffic, turn, failed>>
  BY <1>3 DEF Read
<1>5. flight' = Tail(flight) /\ flight # <<>> /\ flight \in Seq(Record)
  BY <1>4, Removed DEF Types
<1>6. flight[1] = RecordAt(from) /\ Consecutive(Tail(flight), Successor(from), to)
  <2>1. Consecutive(flight, from, to)
    BY <1>1 DEF InOrderTo
  <2> QED  BY <1>5, <2>1, FirstRecord
<1>7. PICK found : found = Pair(pkt, PayloadOf[pkt])
  OBVIOUS
<1>8. /\ \/ /\ result.rest = NoRest /\ result.pairs = <<found>>
            /\ Successor(from) = Mark(Later(awaited, 1), "header")
         \/ /\ result.rest = PayloadRest(pkt, <<>>) /\ result.pairs = <<>>
            /\ PayloadOf[pkt] # <<>> /\ Successor(from) = Mark(awaited, "payload")
  <2>1. CASE rest = NoRest
    <3>1. from = Mark(awaited, "header")
      BY <1>1, <2>1 DEF Expected, NoRest
    <3>2. from.part = "header" /\ from.of = awaited
      BY <3>1 DEF Mark
    <3>3. flight[1] = HeaderRecord(pkt)
      BY <1>1, <1>6, <3>2 DEF RecordAt
    <3>4. result = parse_header_payload_pairs(HeaderRecord(pkt))
      BY <1>3, <2>1, <3>3 DEF Absorb, NoRest
    <3>5. CASE PayloadOf[pkt] = <<>>
      <4>1. result = Parsed(<<found>>, NoRest)
        BY <1>2, <1>7, <3>4, <3>5, HeaderParsed
      <4>2. Successor(from) = Mark(Later(awaited, 1), "header")
        BY <1>1, <3>2, <3>5 DEF Successor
      <4> QED  BY <4>1, <4>2 DEF Parsed
    <3>6. CASE PayloadOf[pkt] # <<>>
      <4>1. result = Parsed(<<>>, PayloadRest(pkt, <<>>))
        BY <1>2, <3>4, <3>6, HeaderParsed
      <4>2. Successor(from) = Mark(awaited, "payload")
        BY <1>1, <3>2, <3>6 DEF Successor
      <4> QED  BY <3>6, <4>1, <4>2 DEF Parsed
    <3> QED  BY <3>5, <3>6
  <2>2. CASE rest = PayloadRest(pkt, <<>>) /\ PayloadOf[pkt] # <<>>
    <3>1. rest.kind = "payload"
      BY <2>2 DEF PayloadRest
    <3>2. from.part = "payload" /\ from.of = awaited
      BY <1>1, <3>1 DEF Expected, Mark
    <3>3. flight[1] = PayloadOf[pkt]
      BY <1>1, <1>6, <3>2 DEF RecordAt
    <3>4. result = AbsorbPayload(PayloadRest(pkt, <<>>), PayloadOf[pkt])
      BY <1>3, <2>2, <3>1, <3>3 DEF Absorb
    <3>5. result = Parsed(<<found>>, NoRest)
      BY <1>2, <1>7, <3>4, PayloadAbsorbed
    <3>6. Successor(from) = Mark(Later(awaited, 1), "header")
      BY <3>2 DEF Successor
    <3> QED  BY <3>5, <3>6 DEF Parsed
  <2> QED  BY <1>1, <2>1, <2>2 DEF Faultless, InStep
<1>9. PICK q, from2 : q = flight' /\ from2 = Successor(from)
  OBVIOUS
<1>10. Consecutive(q, from2, to)'
  BY <1>4, <1>5, <1>6, <1>9, SameTraffic
<1>11. Expected' = from2 => InOrderTo(to)'
  BY <1>1, <1>4, <1>9, <1>10 DEF InOrderTo, Mark
<1>12. CASE /\ result.rest = NoRest /\ result.pairs = <<found>>
            /\ from2 = Mark(Later(awaited, 1), "header")
  <2>1. Len(<<found>>) = 1
    OBVIOUS
  <2>2. awaited' = Later(awaited, 1)
    BY <1>4, <1>12, <2>1
  <2>3. Expected' = from2
    BY <1>4, <1>12, <2>2 DEF Expected, NoRest
  <2>4. InStep'
    BY <1>4, <1>12 DEF InStep
  <2>5. HandedInTurn'
    <3>1. \E p \in DOMAIN traffic' :
            /\ handed' = <<Pair(traffic'[p], PayloadOf[traffic'[p]])>>
            /\ awaited' = ((p - 1 + 1) % Len(traffic')) + 1
      BY <1>1, <1>2, <1>4, <1>7, <1>12, <2>2 DEF Later
    <3> QED  BY <3>1 DEF HandedInTurn, Later
  <2> QED  BY <1>11, <2>3, <2>4, <2>5 DEF Faultless
<1>13. CASE /\ result.rest = PayloadRest(pkt, <<>>) /\ result.pairs = <<>>
            /\ PayloadOf[pkt] # <<>> /\ from2 = Mark(awaited, "payload")
  <2>1. awaited' = awaited
    <3>1. Len(<<>>) = 0
      BY EmptySeq
    <3>2. Later(awaited, 0) = awaited
      BY <1>2, LaterIs DEF Types
    <3> QED  BY <1>4, <1>13, <3>1, <3>2
  <2>2. Expected' = from2
    BY <1>4, <1>13, <2>1 DEF Expected, PayloadRest
  <2>3. InStep'
    BY <1>1, <1>4, <1>13, <2>1 DEF InStep
  <2>4. HandedInTurn'
    BY <1>4, <1>13 DEF HandedInTurn
  <2> QED  BY <1>11, <2>2, <2>3, <2>4 DEF Faultless
<1> QED  BY <1>8, <1>9, <1>12, <1>13

LEMMA SequenceNext == SequenceInv /\ [Next]_vars => SequenceInv'
<1> SUFFICES ASSUME SequenceInv, [Next]_vars, Types', faults' = 0
             PROVE  Faultless'
  BY TypesNext DEF SequenceInv
<1>1. Types /\ faults \in Nat /\ (faults = 0 => Faultless)
  BY DtlsAssumption DEF SequenceInv, Types
<1>2. CASE Write
  <2>1. faults = 0
    BY <1>2 DEF Write
  <2> QED  BY <1>1, <1>2, <2>1, WriteInTurn
<1>3. ASSUME NEW i \in DOMAIN flight, Lose(i)
      PROVE  FALSE
  BY <1>1, <1>3 DEF Lose
<1>4. ASSUME NEW i \in DOMAIN flight, Read(i)
      PROVE  Faultless'
  <2>1. faults' = IF i > 1 THEN faults + 1 ELSE faults
    BY <1>4 DEF Read
  <2>2. i \in Nat /\ i >= 1
    <3>1. DOMAIN flight = 1 .. Len(flight) /\ Len(flight) \in Nat
      BY <1>1, LenProperties DEF Types
    <3> QED  BY <3>1
  <2>3. i = 1 /\ faults = 0
    BY <1>1, <2>1, <2>2
  <2> QED  BY <1>1, <1>4, <2>3, ReadInTurn
<1>5. CASE UNCHANGED vars \/ ReadFails \/ Answer
  <2>1. /\ UNCHANGED <<traffic, turn, flight, rest, handed, awaited, faults>>
        /\ "write" \in failed' <=> "write" \in failed
    BY <1>5 DEF vars, reader, ReadFails, Answer
  <2>2. Faultless
    BY <1>1, <2>1
  <2>3. (InStep /\ HandedInTurn)'
    BY <2>1, <2>2 DEF Faultless, InStep, HandedInTurn, Later
  <2>4. PICK q, from, to : q = flight /\ from = Expected /\ InOrderTo(to)
    BY <2>2 DEF Faultless
  <2>5. Consecutive(q, from, to)'
    BY <2>1, <2>4, SameTraffic DEF InOrderTo
  <2>6. Expected' = from /\ Mark(turn, "header")' = Mark(turn, "header")
        /\ flight' = q
    BY <2>1, <2>4 DEF Expected, Mark
  <2>7. InOrderTo(to)'
    BY <2>1, <2>4, <2>5, <2>6 DEF InOrderTo
  <2> QED  BY <2>3, <2>7 DEF Faultless
<1>6. CASE WriteFails
  <2>1. faults = 0
    BY <1>6 DEF WriteFails
  <2> QED  BY <1>1, <1>6, <2>1, WriteFailsInTurn
<1> QED  BY <1>2, <1>3, <1>4, <1>5, <1>6 DEF Next

(* As long as nothing is lost and nothing overtaken, every packet is handed *)
(* over in its turn and with its own payload, whatever the traffic.        *)
THEOREM FaultlessInSequence == Spec => []InSequence
<1>1. Init => SequenceInv
  BY TypesInit, FaultlessInit DEF SequenceInv
<1>2. SequenceInv /\ [Next]_vars => SequenceInv'
  BY SequenceNext
<1>3. SequenceInv => InSequence
  <2> SUFFICES ASSUME Types, HandedInTurn, NEW i \in DOMAIN handed
               PROVE  /\ handed[i].pkt = traffic[Later(awaited, i - 1 - Len(handed))]
                      /\ Intact(handed[i])
    BY DEF SequenceInv, Faultless, InSequence
  <2>1. handed # <<>>
    BY EmptySeq
  <2>2. PICK p \in DOMAIN traffic :
          /\ handed = <<Pair(traffic[p], PayloadOf[traffic[p]])>>
          /\ awaited = Later(p, 1)
    BY <2>1 DEF HandedInTurn
  <2>3. PICK found : found = Pair(traffic[p], PayloadOf[traffic[p]])
    OBVIOUS
  <2>4. DOMAIN <<found>> = {1} /\ <<found>>[1] = found /\ Len(<<found>>) = 1
    OBVIOUS
  <2>5. i = 1 /\ handed[i] = found /\ Len(handed) = 1
    BY <2>2, <2>3, <2>4
  <2>6. found.pkt = traffic[p] /\ found.bytes = PayloadOf[traffic[p]]
    BY <2>3 DEF Pair
  <2>7. Later(awaited, 1 - 1 - 1) = p
    BY <2>2, LaterIs DEF Types
  <2> QED  BY <2>5, <2>6, <2>7 DEF Intact
<1> QED  BY <1>1, <1>2, <1>3, PTL DEF Spec
=============================================================================
