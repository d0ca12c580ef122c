--------------------------- MODULE GdpFramingProofs ---------------------------
(* What parse_header_payload_pairs makes of any sequence of bytes, and of a *)
(* window onto a stream of packets, wherever the window begins and ends.    *)
(* TcpSession reads such windows.                                           *)
EXTENDS GdpFraming, WellFoundedInduction, SequenceTheorems, TLAPS

-----------------------------------------------------------------------------
(* Induction from the end of the buffer to its beginning, which is how the *)
(* recursion of the loop unfolds.                                          *)

LEMMA Least ==
  ASSUME NEW T \in SUBSET Nat, T # {}
  PROVE  \E x \in T : \A y \in T : x <= y
<1>1. PICK x \in T : \A y \in T : ~ (<<y, x>> \in OpToRel(<, Nat))
  <2>1. \E x \in T : \A y \in T : ~ (<<y, x>> \in OpToRel(<, Nat))
    BY NatLessThanWellFounded, WFMin
  <2> QED  BY <2>1
<1>2. ASSUME NEW y \in T
      PROVE  x <= y
  <2>1. ~(<<y, x>> \in OpToRel(<, Nat))
    BY <1>1
  <2>2. ~(y < x)
    BY <2>1 DEF OpToRel
  <2> QED  BY <2>2
<1> QED  BY <1>2

LEMMA FromTheEnd ==
  ASSUME NEW N \in Nat, NEW T,
         \A i \in 1 .. N : (\A j \in i + 1 .. N : j \in T) => i \in T
  PROVE  \A i \in 1 .. N : i \in T
<1> DEFINE U == {n \in Nat : n < N /\ N - n \notin T}
<1>1. CASE U = {}
  <2>1. ASSUME NEW i \in 1 .. N, i \notin T
        PROVE  FALSE
    <3>1. N - i \in U
      BY <2>1
    <3> QED  BY <1>1, <3>1
  <2> QED  BY <2>1
<1>2. CASE U # {}
  <2>1. PICK n \in U : \A m \in U : n <= m
    BY <1>2, Least
  <2>2. ASSUME NEW j \in N - n + 1 .. N, j \notin T
        PROVE  FALSE
    <3>1. N - j \in U
      BY <2>1, <2>2
    <3> QED  BY <2>1, <2>2, <3>1
  <2>3. N - n \in 1 .. N /\ N - n \notin T
    BY <2>1
  <2> QED  BY <2>2, <2>3
<1> QED  BY <1>1, <1>2

-----------------------------------------------------------------------------
(* The loop is a function: each turn looks only at what later turns make.  *)

FoundPair == [pkt : Packet, bytes : Seq(Byte)]
Rest == {NoRest} \cup [kind : {"header"}, bytes : Seq(Byte)]
                 \cup [kind : {"payload"}, pkt : Packet, bytes : Seq(Byte)]
Result == {res \in [pairs : Seq(FoundPair), rest : Rest, panic : BOOLEAN] :
             res.panic => res.pairs = <<>>}

(* What is kept: the beginning of a header, no longer than the bytes it was *)
(* found in, or of a payload that is not complete.                         *)
Keeps(rest, m) ==
  /\ rest.kind = "header" => Len(rest.bytes) <= m
  /\ rest.kind = "payload" => Len(rest.bytes) < LengthOf(rest.pkt)

LEMMA ResultTypes ==
  /\ Panicked \in Result /\ Panicked.panic /\ Panicked.pairs = <<>>
  /\ \A pairs \in Seq(FoundPair), rest \in Rest :
       /\ Parsed(pairs, rest) \in Result /\ ~Parsed(pairs, rest).panic
       /\ Parsed(pairs, rest).pairs = pairs /\ Parsed(pairs, rest).rest = rest
  /\ \A bytes \in Seq(Byte) : HeaderRest(bytes) \in Rest
  /\ \A bytes \in Seq(Byte), pkt \in Packet :
       PayloadRest(pkt, bytes) \in Rest /\ Pair(pkt, bytes) \in FoundPair
BY EmptySeq DEF Panicked, Parsed, Result, Rest, HeaderRest, PayloadRest, Pair,
                FoundPair, NoRest

LEMMA RestTypes ==
  ASSUME NEW left \in Rest
  PROVE  /\ left.kind \in {"none", "header", "payload"}
         /\ left.kind = "none" => left = NoRest
         /\ left.kind = "header" => left.bytes \in Seq(Byte)
         /\ left.kind = "payload" =>
              /\ left.pkt \in Packet /\ left.bytes \in Seq(Byte)
              /\ left = PayloadRest(left.pkt, left.bytes)
BY DEF Rest, NoRest, PayloadRest

LEMMA KeepsNothing ==
  /\ \A m : Keeps(Panicked.rest, m)
  /\ \A pairs, m : Keeps(Parsed(pairs, NoRest).rest, m)
BY DEF Keeps, Panicked, Parsed, NoRest

LEMMA FirstNullFound ==
  ASSUME NEW buffer \in Seq(Byte), NEW i \in 1 .. Len(buffer) + 1
  PROVE  /\ FirstNull(buffer, i) \in i .. Len(buffer) + 1
         /\ \A j \in i .. FirstNull(buffer, i) - 1 : buffer[j] # Null
         /\ FirstNull(buffer, i) <= Len(buffer)
              => buffer[FirstNull(buffer, i)] = Null
<1>1. Len(buffer) \in Nat
  BY LenProperties
<1>2. CASE \E j \in i .. Len(buffer) : buffer[j] = Null
  <2> DEFINE T == {j \in i .. Len(buffer) : buffer[j] = Null}
  <2>1. T \in SUBSET Nat /\ T # {}
    BY <1>1, <1>2
  <2>2. PICK j \in T : \A k \in T : j <= k
    BY <2>1, Least
  <2>3. /\ j \in i .. Len(buffer) /\ buffer[j] = Null
        /\ \A k \in i .. j - 1 : buffer[k] # Null
    BY <1>1, <2>2
  <2>4. PICK m : /\ m = FirstNull(buffer, i) /\ m \in i .. Len(buffer)
                 /\ buffer[m] = Null /\ \A k \in i .. m - 1 : buffer[k] # Null
    BY <1>2, <2>3 DEF FirstNull
  <2>5. m \in i .. Len(buffer) + 1
    BY <1>1, <2>4
  <2> QED  BY <2>4, <2>5
<1>3. CASE ~(\E j \in i .. Len(buffer) : buffer[j] = Null)
  BY <1>1, <1>3 DEF FirstNull
<1> QED  BY <1>2, <1>3

(* The part of the buffer between two positions.                           *)
LEMMA PartOfBuffer ==
  ASSUME NEW buffer \in Seq(Byte), NEW i \in Nat \ {0}, NEW n \in Nat,
         n <= Len(buffer)
  PROVE  /\ SubSeq(buffer, i, n) \in Seq(Byte)
         /\ Len(SubSeq(buffer, i, n)) = IF i <= n THEN n - i + 1 ELSE 0
         /\ \A j \in 1 .. n - i + 1 : SubSeq(buffer, i, n)[j] = buffer[i + j - 1]
<1>1. \A j \in i .. n : buffer[j] \in Byte
  BY LenProperties, ElementOfSeq
<1> QED  BY <1>1, SubSeqProperties

LEMMA HeaderTextIs ==
  ASSUME NEW pkt \in Packet
  PROVE  /\ HeaderText(pkt) \in Seq(Byte) /\ Len(HeaderText(pkt)) = HeaderLen
         /\ HeaderLen \in Nat /\ HeaderLen >= 1
         /\ \A j \in 1 .. HeaderLen :
              /\ HeaderText(pkt)[j] = <<"header", pkt, j>>
              /\ HeaderText(pkt)[j] # Null /\ HeaderText(pkt)[j] # Binary
<1>1. \A j \in 1 .. HeaderLen : <<"header", pkt, j>> \in Byte
  BY DEF Byte, HeaderByte
<1>2. HeaderLen \in Nat /\ HeaderLen >= 1
  BY FramingAssumption
<1>3. HeaderText(pkt) \in Seq(Byte)
  BY <1>1, <1>2, IsASeq DEF HeaderText
<1> QED  BY <1>2, <1>3 DEF HeaderText, Null, Binary

LEMMA HeaderIsText ==
  ASSUME NEW bytes, IsHeader(bytes)
  PROVE  /\ HeaderIn(bytes) \in Packet /\ bytes = HeaderText(HeaderIn(bytes))
         /\ ~Contains(bytes, Binary)
<1>1. HeaderIn(bytes) \in Packet /\ bytes = HeaderText(HeaderIn(bytes))
  BY DEF IsHeader, HeaderIn
<1>2. Len(bytes) = HeaderLen /\ \A j \in 1 .. HeaderLen : bytes[j] # Binary
  BY <1>1, HeaderTextIs DEF IsHeader
<1> QED  BY <1>1, <1>2 DEF Contains

LEMMA PayloadIs ==
  ASSUME NEW pkt \in Packet
  PROVE  /\ PayloadOf[pkt] \in Seq(Byte) /\ LengthOf(pkt) \in Nat
         /\ Len(PayloadOf[pkt]) = LengthOf(pkt)
<1>1. PayloadOf[pkt] \in Seq({Null, Text, Binary})
  BY FramingAssumption
<1>2. PayloadOf[pkt] \in Seq(Byte)
  BY <1>1, SeqMonotonic, {Null, Text, Binary} \subseteq Byte DEF Byte
<1> QED  BY <1>2, LenProperties DEF LengthOf

HeaderAt(buffer, i) == SubSeq(buffer, i, FirstNull(buffer, i) - 1)
PacketAt(buffer, i) == HeaderIn(HeaderAt(buffer, i))
PayloadAt(buffer, i) ==
  SubSeq(buffer, FirstNull(buffer, i) + 1,
         FirstNull(buffer, i) + LengthOf(PacketAt(buffer, i)))
NextAt(buffer, i) == FirstNull(buffer, i) + LengthOf(PacketAt(buffer, i)) + 1

(* The case in which the loop goes on behind a whole packet.               *)
GoesOn(buffer, i) ==
  /\ IsHeader(HeaderAt(buffer, i))
  /\ FirstNull(buffer, i) <= Len(buffer)
  /\ LengthOf(PacketAt(buffer, i)) < Len(buffer) - FirstNull(buffer, i)

LEMMA TurnGoesOn ==
  ASSUME NEW buffer \in Seq(Byte), NEW i \in 1 .. Len(buffer) + 1,
         GoesOn(buffer, i)
  PROVE  /\ NextAt(buffer, i) \in i + 1 .. Len(buffer)
         /\ Pair(PacketAt(buffer, i), PayloadAt(buffer, i)) \in FoundPair
         /\ \A From : Turn(buffer, i, From) =
              IF From[NextAt(buffer, i)].panic THEN Panicked
              ELSE Parsed(<<Pair(PacketAt(buffer, i), PayloadAt(buffer, i))>>
                            \o From[NextAt(buffer, i)].pairs,
                          From[NextAt(buffer, i)].rest)
<1>1. Len(buffer) \in Nat /\ FirstNull(buffer, i) \in i .. Len(buffer) + 1
  BY LenProperties, FirstNullFound
<1>2. /\ PacketAt(buffer, i) \in Packet /\ LengthOf(PacketAt(buffer, i)) \in Nat
      /\ ~Contains(HeaderAt(buffer, i), Binary)
  BY HeaderIsText, PayloadIs DEF GoesOn, PacketAt
<1>3. NextAt(buffer, i) \in i + 1 .. Len(buffer)
  BY <1>1, <1>2 DEF NextAt, GoesOn
<1>4. PayloadAt(buffer, i) \in Seq(Byte)
  BY <1>1, <1>2, PartOfBuffer DEF PayloadAt, GoesOn
<1>5. Pair(PacketAt(buffer, i), PayloadAt(buffer, i)) \in FoundPair
  BY <1>2, <1>4, ResultTypes
<1>6. /\ ~(LengthOf(PacketAt(buffer, i)) > Len(buffer) - FirstNull(buffer, i))
      /\ ~(LengthOf(PacketAt(buffer, i)) = Len(buffer) - FirstNull(buffer, i))
      /\ ~(FirstNull(buffer, i) > Len(buffer))
      /\ IsHeader(HeaderAt(buffer, i))
  BY <1>1, <1>2 DEF GoesOn
<1>7. ASSUME NEW From
      PROVE  Turn(buffer, i, From) =
              IF From[NextAt(buffer, i)].panic THEN Panicked
              ELSE Parsed(<<Pair(PacketAt(buffer, i), PayloadAt(buffer, i))>>
                            \o From[NextAt(buffer, i)].pairs,
                          From[NextAt(buffer, i)].rest)
  BY <1>2, <1>6 DEF Turn, HeaderAt, PacketAt, PayloadAt, NextAt
<1> QED  BY <1>3, <1>5, <1>7

LEMMA TurnStops ==
  ASSUME NEW buffer \in Seq(Byte), NEW i \in 1 .. Len(buffer) + 1,
         ~GoesOn(buffer, i)
  PROVE  \E res \in Result : /\ Keeps(res.rest, Len(buffer))
                            /\ \A From : Turn(buffer, i, From) = res
<1> DEFINE null == FirstNull(buffer, i)
           header == HeaderAt(buffer, i)
           pkt == PacketAt(buffer, i)
<1>1. /\ Len(buffer) \in Nat /\ null \in i .. Len(buffer) + 1
      /\ header \in Seq(Byte) /\ Len(header) <= Len(buffer)
  <2>1. Len(buffer) \in Nat /\ null \in i .. Len(buffer) + 1
    BY LenProperties, FirstNullFound
  <2>2. PICK n \in Nat : n = null - 1
    BY <2>1
  <2>3. header \in Seq(Byte) /\ Len(header) = IF i <= n THEN n - i + 1 ELSE 0
    BY <2>1, <2>2, PartOfBuffer DEF HeaderAt
  <2> QED  BY <2>1, <2>2, <2>3
<1>2. CASE ~IsHeader(header) /\ Contains(header, Binary)
  <2>1. \A From : Turn(buffer, i, From) = Panicked
    BY <1>2 DEF Turn, HeaderAt
  <2> QED  BY <2>1, ResultTypes, KeepsNothing
<1>3. CASE ~IsHeader(header) /\ ~Contains(header, Binary)
  <2>1. \A From : Turn(buffer, i, From) = Parsed(<<>>, HeaderRest(header))
    BY <1>3 DEF Turn, HeaderAt
  <2>2. Parsed(<<>>, HeaderRest(header)) \in Result
    BY <1>1, ResultTypes, EmptySeq
  <2>3. Keeps(Parsed(<<>>, HeaderRest(header)).rest, Len(buffer))
    BY <1>1 DEF Keeps, Parsed, HeaderRest
  <2> QED  BY <2>1, <2>2, <2>3
<1>4. CASE IsHeader(header)
  <2>1. /\ pkt \in Packet /\ LengthOf(pkt) \in Nat /\ ~Contains(header, Binary)
    BY <1>4, HeaderIsText, PayloadIs DEF PacketAt
  <2>2. CASE null > Len(buffer)
    <3>1. \A From : Turn(buffer, i, From) = Panicked
      BY <1>1, <1>4, <2>1, <2>2 DEF Turn, HeaderAt
    <3> QED  BY <3>1, ResultTypes, KeepsNothing
  <2>3. CASE null <= Len(buffer) /\ LengthOf(pkt) > Len(buffer) - null
    <3> DEFINE part == SubSeq(buffer, null + 1, Len(buffer))
    <3>1. \A From : Turn(buffer, i, From) = Parsed(<<>>, PayloadRest(pkt, part))
      <4>1. ~(null > Len(buffer))
        BY <1>1, <2>3
      <4> QED  BY <1>4, <2>1, <2>3, <4>1 DEF Turn, HeaderAt, PacketAt
    <3>2. part \in Seq(Byte) /\ Len(part) < LengthOf(pkt)
      <4>1. PICK k \in Nat \ {0} : k = null + 1
        BY <1>1
      <4>2. /\ SubSeq(buffer, k, Len(buffer)) \in Seq(Byte)
            /\ Len(SubSeq(buffer, k, Len(buffer)))
                 = IF k <= Len(buffer) THEN Len(buffer) - k + 1 ELSE 0
        BY <1>1, PartOfBuffer
      <4> QED  BY <1>1, <2>1, <2>3, <4>1, <4>2
    <3>3. Parsed(<<>>, PayloadRest(pkt, part)) \in Result
      BY <2>1, <3>2, ResultTypes, EmptySeq
    <3>4. Keeps(Parsed(<<>>, PayloadRest(pkt, part)).rest, Len(buffer))
      <4> HIDE DEF part, pkt
      <4> QED  BY <3>2 DEF Keeps, Parsed, PayloadRest
    <3> QED  BY <3>1, <3>3, <3>4
  <2>4. CASE null <= Len(buffer) /\ LengthOf(pkt) = Len(buffer) - null
    <3> DEFINE found == Pair(pkt, PayloadAt(buffer, i))
    <3>1. \A From : Turn(buffer, i, From) = Parsed(<<found>>, NoRest)
      <4>1. ~(null > Len(buffer)) /\ ~(LengthOf(pkt) > Len(buffer) - null)
        BY <1>1, <2>4
      <4> QED  BY <1>4, <2>1, <2>4, <4>1 DEF Turn, HeaderAt, PacketAt, PayloadAt
    <3>2. PayloadAt(buffer, i) \in Seq(Byte)
      BY <1>1, <2>1, <2>4, PartOfBuffer DEF PayloadAt
    <3>3. found \in FoundPair
      BY <2>1, <3>2, ResultTypes
    <3>4. <<found>> \in Seq(FoundPair) /\ NoRest \in Rest
      BY <3>3 DEF Rest
    <3>5. Parsed(<<found>>, NoRest) \in Result
      BY <3>4, ResultTypes
    <3> QED  BY <3>1, <3>5, KeepsNothing
  <2> QED  BY <1>1, <1>4, <2>1, <2>2, <2>3, <2>4 DEF GoesOn
<1> QED  BY <1>2, <1>3, <1>4

LEMMA TurnLooksAhead ==
  ASSUME NEW buffer \in Seq(Byte), NEW i \in 1 .. Len(buffer) + 1,
         NEW F, NEW G,
         \A j \in i + 1 .. Len(buffer) + 1 : F[j] = G[j]
  PROVE  Turn(buffer, i, F) = Turn(buffer, i, G)
<1>1. Len(buffer) \in Nat
  BY LenProperties
<1>2. CASE GoesOn(buffer, i)
  <2>1. F[NextAt(buffer, i)] = G[NextAt(buffer, i)]
    <3>1. NextAt(buffer, i) \in i + 1 .. Len(buffer) + 1
      <4>1. NextAt(buffer, i) \in i + 1 .. Len(buffer)
        BY <1>2, TurnGoesOn
      <4> QED  BY <1>1, <4>1
    <3> QED  BY <3>1
  <2> QED  BY <1>2, <2>1, TurnGoesOn
<1>3. CASE ~GoesOn(buffer, i)
  BY <1>3, TurnStops
<1> QED  BY <1>2, <1>3

LEMMA TurnType ==
  ASSUME NEW buffer \in Seq(Byte), NEW i \in 1 .. Len(buffer) + 1,
         NEW F, \A j \in i + 1 .. Len(buffer) + 1 :
                  F[j] \in Result /\ Keeps(F[j].rest, Len(buffer))
  PROVE  /\ Turn(buffer, i, F) \in Result
         /\ Keeps(Turn(buffer, i, F).rest, Len(buffer))
<1>1. CASE GoesOn(buffer, i)
  <2> DEFINE found == Pair(PacketAt(buffer, i), PayloadAt(buffer, i))
             next == F[NextAt(buffer, i)]
  <2>1. /\ found \in FoundPair /\ next \in Result /\ Keeps(next.rest, Len(buffer))
        /\ Turn(buffer, i, F) = IF next.panic THEN Panicked
                                ELSE Parsed(<<found>> \o next.pairs, next.rest)
    <3>1. Len(buffer) \in Nat
      BY LenProperties
    <3> QED  BY <1>1, <3>1, TurnGoesOn
  <2> HIDE DEF found, next
  <2>2. next.pairs \in Seq(FoundPair) /\ next.rest \in Rest
    BY <2>1 DEF Result
  <2>3. <<found>> \o next.pairs \in Seq(FoundPair)
    BY <2>1, <2>2, ConcatProperties
  <2>4. Parsed(<<found>> \o next.pairs, next.rest) \in Result
    BY <2>2, <2>3, ResultTypes
  <2>5. Parsed(<<found>> \o next.pairs, next.rest).rest = next.rest
    BY DEF Parsed
  <2> QED  BY <2>1, <2>4, <2>5, ResultTypes, KeepsNothing
<1>2. CASE ~GoesOn(buffer, i)
  BY <1>2, TurnStops
<1> QED  BY <1>1, <1>2

IsLoop(buffer, F) == F = [i \in 1 .. Len(buffer) + 1 |-> Turn(buffer, i, F)]

LEMMA LoopExists ==
  ASSUME NEW buffer \in Seq(Byte)
  PROVE  \E F : IsLoop(buffer, F)
<1> DEFINE N == Len(buffer) + 1
           T == {i \in 1 .. N : \E F : /\ F = [j \in 1 .. N |-> F[j]]
                                       /\ \A j \in i .. N : F[j] = Turn(buffer, j, F)}
<1>1. N \in Nat /\ N >= 1
  BY LenProperties
<1>2. ASSUME NEW i \in 1 .. N, \A j \in i + 1 .. N : j \in T
      PROVE  i \in T
  <2>1. \E F : /\ F = [j \in 1 .. N |-> F[j]]
               /\ \A j \in i + 1 .. N : F[j] = Turn(buffer, j, F)
    <3>1. CASE i = N
      <4> DEFINE F == [j \in 1 .. N |-> Panicked]
      <4>1. F = [j \in 1 .. N |-> F[j]]
        OBVIOUS
      <4>2. i + 1 .. N = {}
        BY <1>1, <3>1
      <4> HIDE DEF F
      <4> QED  BY <4>1, <4>2
    <3>2. CASE i # N
      <4>1. i + 1 \in i + 1 .. N
        BY <1>1, <3>2
      <4> QED  BY <1>2, <4>1
    <3> QED  BY <3>1, <3>2
  <2>2. PICK F : /\ F = [j \in 1 .. N |-> F[j]]
                 /\ \A j \in i + 1 .. N : F[j] = Turn(buffer, j, F)
    BY <2>1
  <2> DEFINE G == [F EXCEPT ![i] = Turn(buffer, i, F)]
  <2>3. /\ G = [j \in 1 .. N |-> G[j]] /\ G[i] = Turn(buffer, i, F)
        /\ \A j \in 1 .. N : j # i => G[j] = F[j]
    BY <2>2
  <2> HIDE DEF G
  <2>4. ASSUME NEW j \in i .. N
        PROVE  G[j] = Turn(buffer, j, G)
    <3>1. j \in 1 .. Len(buffer) + 1 /\ \A k \in j + 1 .. Len(buffer) + 1 : F[k] = G[k]
      BY <1>1, <2>3
    <3>2. Turn(buffer, j, F) = Turn(buffer, j, G)
      BY <3>1, TurnLooksAhead
    <3>3. G[j] = Turn(buffer, j, F)
      <4>1. CASE j = i
        BY <2>3, <4>1
      <4>2. CASE j # i
        BY <1>1, <2>2, <2>3, <4>2
      <4> QED  BY <4>1, <4>2
    <3> QED  BY <3>2, <3>3
  <2> QED  BY <2>3, <2>4
<1>3. 1 \in T
  <2> HIDE DEF T, N
  <2>1. \A i \in 1 .. N : i \in T
    BY <1>1, <1>2, FromTheEnd
  <2> QED  BY <1>1, <2>1
<1>4. PICK F : /\ F = [j \in 1 .. N |-> F[j]]
               /\ \A j \in 1 .. N : F[j] = Turn(buffer, j, F)
  BY <1>3
<1>5. F = [j \in 1 .. N |-> Turn(buffer, j, F)]
  BY <1>4
<1> QED  BY <1>5 DEF IsLoop

LEMMA LoopType ==
  ASSUME NEW buffer \in Seq(Byte), NEW F, IsLoop(buffer, F)
  PROVE  \A i \in 1 .. Len(buffer) + 1 :
           F[i] \in Result /\ Keeps(F[i].rest, Len(buffer))
<1> DEFINE N == Len(buffer) + 1
           T == {i \in 1 .. N : F[i] \in Result /\ Keeps(F[i].rest, Len(buffer))}
<1>1. N \in Nat
  BY LenProperties
<1>2. ASSUME NEW i \in 1 .. N, \A j \in i + 1 .. N : j \in T
      PROVE  i \in T
  <2>1. F[i] = Turn(buffer, i, F)
    BY DEF IsLoop
  <2>2. Turn(buffer, i, F) \in Result /\ Keeps(Turn(buffer, i, F).rest, Len(buffer))
    BY <1>2, TurnType
  <2> QED  BY <2>1, <2>2
<1> HIDE DEF T, N
<1>3. \A i \in 1 .. N : i \in T
  BY <1>1, <1>2, FromTheEnd
<1> QED  BY <1>3 DEF T, N

(* The parser is the first turn of the loop.                               *)
LEMMA ParserIsLoop ==
  ASSUME NEW buffer \in Seq(Byte), buffer # <<>>
  PROVE  \E F : /\ IsLoop(buffer, F)
                /\ parse_header_payload_pairs(buffer) = F[1]
<1> DEFINE F == CHOOSE f : f = [i \in 1 .. Len(buffer) + 1 |-> Turn(buffer, i, f)]
<1>1. \E G : G = [i \in 1 .. Len(buffer) + 1 |-> Turn(buffer, i, G)]
  BY LoopExists DEF IsLoop
<1>2. F = [i \in 1 .. Len(buffer) + 1 |-> Turn(buffer, i, F)]
  BY <1>1, Zenon
<1>3. parse_header_payload_pairs(buffer) = F[1]
  BY Zenon DEF parse_header_payload_pairs
<1> HIDE DEF F
<1> QED  BY <1>2, <1>3 DEF IsLoop

(* The parser always returns pairs of a packet and bytes, and keeps no more *)
(* of a header than it was given, and never a whole payload.               *)
LEMMA ParserType ==
  ASSUME NEW buffer \in Seq(Byte)
  PROVE  /\ parse_header_payload_pairs(buffer) \in Result
         /\ Keeps(parse_header_payload_pairs(buffer).rest, Len(buffer))
<1>1. CASE buffer = <<>>
  <2>1. parse_header_payload_pairs(buffer) = Parsed(<<>>, NoRest)
    BY <1>1 DEF parse_header_payload_pairs
  <2>2. <<>> \in Seq(FoundPair) /\ NoRest \in Rest
    BY EmptySeq DEF Rest
  <2> QED  BY <2>1, <2>2, ResultTypes, KeepsNothing
<1>2. CASE buffer # <<>>
  <2>1. 1 \in 1 .. Len(buffer) + 1
    BY LenProperties
  <2> QED  BY <1>2, <2>1, ParserIsLoop, LoopType
<1> QED  BY <1>1, <1>2

-----------------------------------------------------------------------------
(* A turn that starts where a packet starts.  The packet may be cut by the *)
(* end of the buffer.                                                      *)

WireLen(pkt) == HeaderLen + 1 + LengthOf(pkt)

WireByte(pkt, j) ==
  IF j <= HeaderLen THEN <<"header", pkt, j>>
  ELSE IF j = HeaderLen + 1 THEN Null
  ELSE PayloadOf[pkt][j - HeaderLen - 1]

StartsAt(buffer, p, pkt) ==
  \A j \in 1 .. WireLen(pkt) :
    p - 1 + j <= Len(buffer) => buffer[p - 1 + j] = WireByte(pkt, j)

LEMMA HeaderStarts ==
  ASSUME NEW buffer \in Seq(Byte), NEW p \in 1 .. Len(buffer),
         NEW pkt \in Packet, StartsAt(buffer, p, pkt)
  PROVE  /\ Len(buffer) \in Nat /\ HeaderLen \in Nat /\ HeaderLen >= 1
         /\ LengthOf(pkt) \in Nat
         /\ \A j \in 1 .. HeaderLen : p - 1 + j <= Len(buffer) =>
              /\ buffer[p - 1 + j] = <<"header", pkt, j>>
              /\ buffer[p - 1 + j] # Null /\ buffer[p - 1 + j] # Binary
         /\ p + HeaderLen <= Len(buffer) => buffer[p + HeaderLen] = Null
         /\ \A j \in 1 .. LengthOf(pkt) : p + HeaderLen + j <= Len(buffer) =>
              buffer[p + HeaderLen + j] = PayloadOf[pkt][j]
<1>1. /\ Len(buffer) \in Nat /\ HeaderLen \in Nat /\ HeaderLen >= 1
      /\ LengthOf(pkt) \in Nat
  BY LenProperties, HeaderTextIs, PayloadIs
<1>2. ASSUME NEW j \in 1 .. HeaderLen, p - 1 + j <= Len(buffer)
      PROVE  /\ buffer[p - 1 + j] = <<"header", pkt, j>>
             /\ buffer[p - 1 + j] # Null /\ buffer[p - 1 + j] # Binary
  <2>1. buffer[p - 1 + j] = <<"header", pkt, j>>
    <3>1. j \in 1 .. WireLen(pkt) /\ j <= HeaderLen
      BY <1>1 DEF WireLen
    <3>2. buffer[p - 1 + j] = WireByte(pkt, j)
      BY <1>2, <3>1 DEF StartsAt
    <3> QED  BY <3>1, <3>2 DEF WireByte
  <2> QED  BY <2>1 DEF Null, Binary
<1>3. ASSUME p + HeaderLen <= Len(buffer)
      PROVE  buffer[p + HeaderLen] = Null
  <2>1. /\ HeaderLen + 1 \in 1 .. WireLen(pkt) /\ ~(HeaderLen + 1 <= HeaderLen)
        /\ p - 1 + (HeaderLen + 1) = p + HeaderLen
    BY <1>1 DEF WireLen
  <2> QED  BY <1>3, <2>1 DEF StartsAt, WireByte
<1>4. ASSUME NEW j \in 1 .. LengthOf(pkt), p + HeaderLen + j <= Len(buffer)
      PROVE  buffer[p + HeaderLen + j] = PayloadOf[pkt][j]
  <2>1. PICK k : k = HeaderLen + 1 + j
    OBVIOUS
  <2>2. /\ k \in 1 .. WireLen(pkt) /\ p - 1 + k = p + HeaderLen + j
        /\ ~(k <= HeaderLen) /\ k # HeaderLen + 1 /\ k - HeaderLen - 1 = j
    BY <1>1, <2>1 DEF WireLen
  <2>3. buffer[p + HeaderLen + j] = WireByte(pkt, k)
    BY <1>4, <2>2 DEF StartsAt
  <2> QED  BY <2>2, <2>3 DEF WireByte
<1> QED  BY <1>1, <1>2, <1>3, <1>4

LEMMA WholeHeader ==
  ASSUME NEW buffer \in Seq(Byte), NEW p \in 1 .. Len(buffer),
         NEW pkt \in Packet, StartsAt(buffer, p, pkt),
         p + HeaderLen <= Len(buffer)
  PROVE  /\ FirstNull(buffer, p) = p + HeaderLen
         /\ IsHeader(HeaderAt(buffer, p)) /\ PacketAt(buffer, p) = pkt
<1>1. FirstNull(buffer, p) = p + HeaderLen
  <2> DEFINE null == FirstNull(buffer, p)
  <2>1. /\ null \in p .. Len(buffer) + 1
        /\ \A j \in p .. null - 1 : buffer[j] # Null
        /\ null <= Len(buffer) => buffer[null] = Null
    <3>1. p \in 1 .. Len(buffer) + 1
      BY HeaderStarts
    <3> QED  BY <3>1, FirstNullFound
  <2>2. /\ buffer[p + HeaderLen] = Null /\ HeaderLen \in Nat /\ Len(buffer) \in Nat
        /\ \A j \in 1 .. HeaderLen : p - 1 + j <= Len(buffer) => buffer[p - 1 + j] # Null
    BY HeaderStarts
  <2> HIDE DEF null
  <2>3. ~(null > p + HeaderLen)
    BY <2>1, <2>2
  <2>4. ASSUME null < p + HeaderLen
        PROVE  FALSE
    <3>1. PICK j : j = null - p + 1
      OBVIOUS
    <3>2. j \in 1 .. HeaderLen /\ p - 1 + j = null /\ null <= Len(buffer)
      BY <2>1, <2>2, <2>4, <3>1
    <3> QED  BY <2>1, <2>2, <3>2
  <2>5. null = p + HeaderLen
    BY <2>1, <2>2, <2>3, <2>4
  <2> QED  BY <2>5 DEF null
<1>2. HeaderAt(buffer, p) = HeaderText(pkt)
  <2>1. PICK n : n = p + HeaderLen - 1
    OBVIOUS
  <2>2. /\ HeaderAt(buffer, p) = SubSeq(buffer, p, n) /\ p \in Nat \ {0}
        /\ n \in Nat /\ n <= Len(buffer) /\ p <= n /\ n - p + 1 = HeaderLen
    <3>1. HeaderLen \in Nat /\ HeaderLen >= 1 /\ Len(buffer) \in Nat
      BY HeaderStarts
    <3>2. /\ p \in Nat \ {0} /\ n \in Nat /\ n <= Len(buffer) /\ p <= n
          /\ n - p + 1 = HeaderLen
      BY <2>1, <3>1
    <3>3. FirstNull(buffer, p) - 1 = n
      BY <1>1, <2>1, <3>1
    <3>4. HeaderAt(buffer, p) = SubSeq(buffer, p, n)
      BY <3>3 DEF HeaderAt
    <3> QED  BY <3>2, <3>4
  <2>3. /\ HeaderAt(buffer, p) \in Seq(Byte) /\ Len(HeaderAt(buffer, p)) = HeaderLen
        /\ \A j \in 1 .. HeaderLen : HeaderAt(buffer, p)[j] = buffer[p + j - 1]
    BY <2>2, PartOfBuffer
  <2>4. ASSUME NEW j \in 1 .. HeaderLen
        PROVE  HeaderAt(buffer, p)[j] = HeaderText(pkt)[j]
    <3>1. p + j - 1 = p - 1 + j /\ p - 1 + j <= Len(buffer)
      BY HeaderStarts
    <3>2. buffer[p - 1 + j] = <<"header", pkt, j>>
      BY <3>1, HeaderStarts
    <3> QED  BY <2>3, <3>1, <3>2, HeaderTextIs
  <2> QED  BY <2>3, <2>4, HeaderTextIs, SeqEqual
<1>3. IsHeader(HeaderAt(buffer, p))
  BY <1>2, HeaderTextIs DEF IsHeader
<1>4. \A q \in Packet : HeaderText(q) = HeaderText(pkt) => q = pkt
  <2>1. \A q \in Packet : HeaderText(q)[1] = <<"header", q, 1>>
    BY HeaderTextIs
  <2> QED  BY <2>1
<1>5. PacketAt(buffer, p) = pkt
  <2>1. /\ PacketAt(buffer, p) \in Packet
        /\ HeaderAt(buffer, p) = HeaderText(PacketAt(buffer, p))
    BY <1>3, HeaderIsText DEF PacketAt
  <2> QED  BY <1>2, <1>4, <2>1
<1> QED  BY <1>1, <1>3, <1>5

LEMMA CutHeader ==
  ASSUME NEW buffer \in Seq(Byte), NEW p \in 1 .. Len(buffer),
         NEW pkt \in Packet, StartsAt(buffer, p, pkt),
         p + HeaderLen > Len(buffer)
  PROVE  /\ FirstNull(buffer, p) = Len(buffer) + 1
         /\ HeaderAt(buffer, p) \in Seq(Byte)
         /\ Len(HeaderAt(buffer, p)) = Len(buffer) - p + 1
         /\ \A j \in 1 .. Len(buffer) - p + 1 :
              HeaderAt(buffer, p)[j] = buffer[p - 1 + j]
         /\ ~Contains(HeaderAt(buffer, p), Binary)
         /\ IsHeader(HeaderAt(buffer, p)) <=> Len(buffer) = p + HeaderLen - 1
<1>1. FirstNull(buffer, p) = Len(buffer) + 1
  <2> DEFINE null == FirstNull(buffer, p)
  <2>1. /\ null \in p .. Len(buffer) + 1
        /\ null <= Len(buffer) => buffer[null] = Null
    <3>1. p \in 1 .. Len(buffer) + 1
      BY HeaderStarts
    <3> QED  BY <3>1, FirstNullFound
  <2>2. /\ HeaderLen \in Nat /\ Len(buffer) \in Nat
        /\ \A j \in 1 .. HeaderLen : p - 1 + j <= Len(buffer) => buffer[p - 1 + j] # Null
    BY HeaderStarts
  <2> HIDE DEF null
  <2>3. ASSUME null <= Len(buffer)
        PROVE  FALSE
    <3>1. PICK j : j = null - p + 1
      OBVIOUS
    <3>2. j \in 1 .. HeaderLen /\ p - 1 + j = null
      BY <2>1, <2>2, <2>3, <3>1
    <3> QED  BY <2>1, <2>2, <2>3, <3>2
  <2>4. null = Len(buffer) + 1
    BY <2>1, <2>2, <2>3
  <2> QED  BY <2>4 DEF null
<1>2. /\ HeaderAt(buffer, p) \in Seq(Byte)
      /\ Len(HeaderAt(buffer, p)) = Len(buffer) - p + 1
      /\ \A j \in 1 .. Len(buffer) - p + 1 :
           HeaderAt(buffer, p)[j] = buffer[p - 1 + j]
  <2>1. /\ HeaderAt(buffer, p) = SubSeq(buffer, p, Len(buffer))
        /\ p \in Nat \ {0} /\ Len(buffer) \in Nat /\ p <= Len(buffer)
    BY <1>1, HeaderStarts DEF HeaderAt
  <2>2. /\ HeaderAt(buffer, p) \in Seq(Byte)
        /\ Len(HeaderAt(buffer, p)) = Len(buffer) - p + 1
        /\ \A j \in 1 .. Len(buffer) - p + 1 :
             HeaderAt(buffer, p)[j] = buffer[p + j - 1]
    BY <2>1, PartOfBuffer
  <2>3. \A j \in 1 .. Len(buffer) - p + 1 : p + j - 1 = p - 1 + j
    BY <2>1
  <2> QED  BY <2>2, <2>3
<1>3. \A j \in 1 .. Len(buffer) - p + 1 :
        /\ HeaderAt(buffer, p)[j] # Binary
        /\ HeaderAt(buffer, p)[j] = <<"header", pkt, j>>
  <2>1. \A j \in 1 .. Len(buffer) - p + 1 : j \in 1 .. HeaderLen /\ p - 1 + j <= Len(buffer)
    BY HeaderStarts
  <2> QED  BY <1>2, <2>1, HeaderStarts
<1>4. ~Contains(HeaderAt(buffer, p), Binary)
  BY <1>2, <1>3 DEF Contains
<1>5. Len(HeaderAt(buffer, p)) = HeaderLen <=> Len(buffer) = p + HeaderLen - 1
  BY <1>2, HeaderStarts
<1>6. ASSUME Len(HeaderAt(buffer, p)) = HeaderLen
      PROVE  HeaderAt(buffer, p) = HeaderText(pkt)
  <2>1. \A j \in 1 .. HeaderLen : HeaderAt(buffer, p)[j] = HeaderText(pkt)[j]
    BY <1>2, <1>3, <1>6, HeaderTextIs
  <2> QED  BY <1>2, <1>6, <2>1, HeaderTextIs, SeqEqual
<1> QED  BY <1>1, <1>2, <1>4, <1>5, <1>6 DEF IsHeader

(* The four ends of a turn in step.                                        *)
LEMMA TurnInHeader ==
  ASSUME NEW buffer \in Seq(Byte), NEW p \in 1 .. Len(buffer),
         NEW pkt \in Packet, StartsAt(buffer, p, pkt),
         p + HeaderLen > Len(buffer), NEW F
  PROVE  \/ Turn(buffer, p, F) = Panicked
         \/ \E part \in Seq(Byte) :
              /\ Turn(buffer, p, F) = Parsed(<<>>, HeaderRest(part))
              /\ Len(part) = Len(buffer) - p + 1 /\ Len(part) < HeaderLen
              /\ \A j \in 1 .. Len(part) : part[j] = buffer[p - 1 + j]
<1>1. /\ Len(buffer) \in Nat /\ HeaderLen \in Nat
      /\ FirstNull(buffer, p) > Len(buffer)
  BY HeaderStarts, CutHeader
<1>2. CASE IsHeader(HeaderAt(buffer, p))
  <2>1. ~Contains(HeaderAt(buffer, p), Binary)
    BY CutHeader
  <2>2. ~(FirstNull(buffer, p) <= Len(buffer))
    <3>1. FirstNull(buffer, p) = Len(buffer) + 1
      BY CutHeader
    <3> QED  BY <1>1, <3>1
  <2>3. Turn(buffer, p, F) = Panicked
    BY <1>1, <1>2, <2>1, <2>2 DEF Turn, HeaderAt
  <2> QED  BY <2>3
<1>3. CASE ~IsHeader(HeaderAt(buffer, p))
  <2> DEFINE part == HeaderAt(buffer, p)
  <2>1. ~Contains(part, Binary)
    BY CutHeader
  <2>2. Turn(buffer, p, F) = Parsed(<<>>, HeaderRest(part))
    BY <1>3, <2>1 DEF Turn, HeaderAt
  <2>3. /\ part \in Seq(Byte) /\ Len(part) = Len(buffer) - p + 1
        /\ \A j \in 1 .. Len(part) : part[j] = buffer[p - 1 + j]
        /\ Len(buffer) # p + HeaderLen - 1
    BY <1>3, CutHeader
  <2> HIDE DEF part
  <2>4. Len(part) < HeaderLen
    <3>1. Len(part) = Len(buffer) - p + 1 /\ Len(buffer) # p + HeaderLen - 1
      BY <2>3
    <3> QED  BY <1>1, <3>1
  <2> QED  BY <2>2, <2>3, <2>4
<1> QED  BY <1>2, <1>3

LEMMA TurnInPayload ==
  ASSUME NEW buffer \in Seq(Byte), NEW p \in 1 .. Len(buffer),
         NEW pkt \in Packet, StartsAt(buffer, p, pkt),
         p + HeaderLen <= Len(buffer),
         LengthOf(pkt) > Len(buffer) - (p + HeaderLen), NEW F
  PROVE  \E part \in Seq(Byte) :
           /\ Turn(buffer, p, F) = Parsed(<<>>, PayloadRest(pkt, part))
           /\ Len(part) = Len(buffer) - (p + HeaderLen)
           /\ Len(part) < LengthOf(pkt)
           /\ \A j \in 1 .. Len(part) : part[j] = buffer[p + HeaderLen + j]
<1>1. PICK null : null = p + HeaderLen
  OBVIOUS
<1>2. /\ FirstNull(buffer, p) = null /\ IsHeader(HeaderAt(buffer, p))
      /\ PacketAt(buffer, p) = pkt /\ null <= Len(buffer)
      /\ LengthOf(pkt) > Len(buffer) - null
  BY <1>1, WholeHeader
<1>3. ~Contains(HeaderAt(buffer, p), Binary)
  BY <1>2, HeaderIsText
<1>4. Len(buffer) \in Nat /\ null \in Nat /\ LengthOf(pkt) \in Nat /\ ~(null > Len(buffer))
  BY <1>1, <1>2, HeaderStarts
<1> DEFINE part == SubSeq(buffer, null + 1, Len(buffer))
<1>5. Turn(buffer, p, F) = Parsed(<<>>, PayloadRest(pkt, part))
  BY <1>2, <1>3, <1>4 DEF Turn, HeaderAt, PacketAt
<1>6. /\ part \in Seq(Byte) /\ Len(part) = Len(buffer) - null
      /\ \A j \in 1 .. Len(buffer) - null : part[j] = buffer[null + j]
  <2>1. PICK i \in Nat \ {0} : i = null + 1
    BY <1>4
  <2>2. /\ SubSeq(buffer, i, Len(buffer)) \in Seq(Byte)
        /\ Len(SubSeq(buffer, i, Len(buffer)))
             = IF i <= Len(buffer) THEN Len(buffer) - i + 1 ELSE 0
        /\ \A j \in 1 .. Len(buffer) - i + 1 :
             SubSeq(buffer, i, Len(buffer))[j] = buffer[i + j - 1]
    BY <1>4, PartOfBuffer
  <2>3. \A j \in 1 .. Len(buffer) - null : i + j - 1 = null + j
    BY <1>4, <2>1
  <2>4. /\ Len(buffer) - i + 1 = Len(buffer) - null
        /\ ~(i <= Len(buffer)) => Len(buffer) - null = 0
    BY <1>2, <1>4, <2>1
  <2> QED  BY <2>1, <2>2, <2>3, <2>4
<1> HIDE DEF part
<1> QED  BY <1>1, <1>2, <1>4, <1>5, <1>6

(* The whole payload is in the buffer.                                     *)
LEMMA PayloadInBuffer ==
  ASSUME NEW buffer \in Seq(Byte), NEW p \in 1 .. Len(buffer),
         NEW pkt \in Packet, StartsAt(buffer, p, pkt),
         p + HeaderLen <= Len(buffer),
         LengthOf(pkt) <= Len(buffer) - (p + HeaderLen)
  PROVE  PayloadAt(buffer, p) = PayloadOf[pkt]
<1>1. PICK null : null = p + HeaderLen
  OBVIOUS
<1>2. /\ FirstNull(buffer, p) = null /\ PacketAt(buffer, p) = pkt
      /\ LengthOf(pkt) <= Len(buffer) - null
  BY <1>1, WholeHeader
<1>3. Len(buffer) \in Nat /\ null \in Nat /\ LengthOf(pkt) \in Nat
  BY <1>1, HeaderStarts
<1>4. PICK i, n : i = null + 1 /\ n = null + LengthOf(pkt)
  OBVIOUS
<1>5. /\ i \in Nat \ {0} /\ n \in Nat /\ n <= Len(buffer)
      /\ n - i + 1 = LengthOf(pkt) /\ (~(i <= n) => LengthOf(pkt) = 0)
  <2>1. i \in Nat \ {0} /\ n \in Nat
    BY <1>3, <1>4
  <2>2. n <= Len(buffer) /\ n - i + 1 = LengthOf(pkt)
    BY <1>2, <1>3, <1>4
  <2> QED  BY <1>3, <2>1, <2>2
<1>6. PayloadAt(buffer, p) = SubSeq(buffer, i, n)
  BY <1>2, <1>4 DEF PayloadAt
<1>7. /\ PayloadAt(buffer, p) \in Seq(Byte)
      /\ Len(PayloadAt(buffer, p)) = LengthOf(pkt)
      /\ \A j \in 1 .. LengthOf(pkt) : PayloadAt(buffer, p)[j] = buffer[i + j - 1]
  BY <1>5, <1>6, PartOfBuffer
<1>8. ASSUME NEW j \in 1 .. LengthOf(pkt)
      PROVE  PayloadAt(buffer, p)[j] = PayloadOf[pkt][j]
  <2>1. i + j - 1 = null + j /\ null + j <= Len(buffer)
    BY <1>2, <1>3, <1>4
  <2>2. p + HeaderLen + j <= Len(buffer)
    BY <1>1, <2>1
  <2>3. buffer[p + HeaderLen + j] = PayloadOf[pkt][j]
    BY <2>2, HeaderStarts
  <2> QED  BY <1>1, <1>7, <2>1, <2>3
<1> QED  BY <1>7, <1>8, PayloadIs, SeqEqual

LEMMA TurnAtEnd ==
  ASSUME NEW buffer \in Seq(Byte), NEW p \in 1 .. Len(buffer),
         NEW pkt \in Packet, StartsAt(buffer, p, pkt),
         p + HeaderLen <= Len(buffer),
         LengthOf(pkt) = Len(buffer) - (p + HeaderLen), NEW F
  PROVE  Turn(buffer, p, F) = Parsed(<<Pair(pkt, PayloadOf[pkt])>>, NoRest)
<1>1. PICK null : null = p + HeaderLen
  OBVIOUS
<1>2. /\ FirstNull(buffer, p) = null /\ IsHeader(HeaderAt(buffer, p))
      /\ PacketAt(buffer, p) = pkt /\ null <= Len(buffer)
      /\ LengthOf(pkt) = Len(buffer) - null
  BY <1>1, WholeHeader
<1>3. ~Contains(HeaderAt(buffer, p), Binary)
  BY <1>2, HeaderIsText
<1>4. /\ Len(buffer) \in Nat /\ null \in Nat /\ LengthOf(pkt) \in Nat
      /\ ~(null > Len(buffer)) /\ ~(LengthOf(pkt) > Len(buffer) - null)
      /\ LengthOf(pkt) <= Len(buffer) - (p + HeaderLen)
  BY <1>1, <1>2, HeaderStarts
<1>5. PayloadAt(buffer, p) = PayloadOf[pkt]
  BY <1>4, PayloadInBuffer
<1>6. Turn(buffer, p, F) = Parsed(<<Pair(pkt, PayloadAt(buffer, p))>>, NoRest)
  BY <1>2, <1>3, <1>4 DEF Turn, HeaderAt, PacketAt, PayloadAt
<1> QED  BY <1>5, <1>6

LEMMA TurnBehind ==
  ASSUME NEW buffer \in Seq(Byte), NEW p \in 1 .. Len(buffer),
         NEW pkt \in Packet, StartsAt(buffer, p, pkt),
         p + HeaderLen <= Len(buffer),
         LengthOf(pkt) < Len(buffer) - (p + HeaderLen), NEW F
  PROVE  /\ p + WireLen(pkt) \in p + 1 .. Len(buffer)
         /\ Turn(buffer, p, F) =
              IF F[p + WireLen(pkt)].panic THEN Panicked
              ELSE Parsed(<<Pair(pkt, PayloadOf[pkt])>> \o F[p + WireLen(pkt)].pairs,
                          F[p + WireLen(pkt)].rest)
<1>1. PICK null : null = p + HeaderLen
  OBVIOUS
<1>2. /\ FirstNull(buffer, p) = null /\ IsHeader(HeaderAt(buffer, p))
      /\ PacketAt(buffer, p) = pkt /\ null <= Len(buffer)
      /\ LengthOf(pkt) < Len(buffer) - null
  BY <1>1, WholeHeader
<1>3. /\ Len(buffer) \in Nat /\ null \in Nat /\ LengthOf(pkt) \in Nat
      /\ LengthOf(pkt) <= Len(buffer) - (p + HeaderLen)
      /\ p \in 1 .. Len(buffer) + 1 /\ HeaderLen \in Nat
  BY <1>1, <1>2, HeaderStarts
<1>4. PayloadAt(buffer, p) = PayloadOf[pkt]
  BY <1>3, PayloadInBuffer
<1>5. NextAt(buffer, p) = p + WireLen(pkt)
  BY <1>1, <1>2, <1>3 DEF NextAt, WireLen
<1>6. GoesOn(buffer, p)
  BY <1>2 DEF GoesOn
<1> QED  BY <1>2, <1>3, <1>4, <1>5, <1>6, TurnGoesOn

(* A packet as it is written: header and null byte, and then the payload.  *)
LEMMA WireIs ==
  ASSUME NEW pkt \in Packet
  PROVE  /\ HeaderText(pkt) \o <<Null>> \in Seq(Byte)
         /\ Len(HeaderText(pkt) \o <<Null>>) = HeaderLen + 1
         /\ \A j \in 1 .. HeaderLen + 1 :
              (HeaderText(pkt) \o <<Null>>)[j] = WireByte(pkt, j)
         /\ \A j \in 1 .. LengthOf(pkt) :
              PayloadOf[pkt][j] = WireByte(pkt, HeaderLen + 1 + j)
<1>1. /\ HeaderText(pkt) \in Seq(Byte) /\ Len(HeaderText(pkt)) = HeaderLen
      /\ HeaderLen \in Nat /\ LengthOf(pkt) \in Nat
      /\ \A j \in 1 .. HeaderLen : HeaderText(pkt)[j] = <<"header", pkt, j>>
  BY HeaderTextIs, PayloadIs
<1>2. <<Null>> \in Seq(Byte) /\ Len(<<Null>>) = 1 /\ <<Null>>[1] = Null
  BY DEF Byte
<1>3. PICK header \in Seq(Byte) :
        /\ header = HeaderText(pkt) \o <<Null>> /\ Len(header) = HeaderLen + 1
        /\ \A j \in 1 .. HeaderLen + 1 : header[j] =
             IF j <= HeaderLen THEN HeaderText(pkt)[j] ELSE <<Null>>[j - HeaderLen]
  <2>1. /\ HeaderText(pkt) \o <<Null>> \in Seq(Byte)
        /\ Len(HeaderText(pkt) \o <<Null>>) = Len(HeaderText(pkt)) + Len(<<Null>>)
        /\ \A j \in 1 .. Len(HeaderText(pkt)) + Len(<<Null>>) :
             (HeaderText(pkt) \o <<Null>>)[j] =
               IF j <= Len(HeaderText(pkt)) THEN HeaderText(pkt)[j]
               ELSE <<Null>>[j - Len(HeaderText(pkt))]
    BY <1>1, <1>2, ConcatProperties
  <2> QED  BY <1>1, <1>2, <2>1
<1>4. ASSUME NEW j \in 1 .. HeaderLen + 1
      PROVE  header[j] = WireByte(pkt, j)
  <2>1. CASE j <= HeaderLen
    BY <1>1, <1>3, <2>1 DEF WireByte
  <2>2. CASE ~(j <= HeaderLen)
    <3>1. j = HeaderLen + 1 /\ j - HeaderLen = 1
      BY <1>1, <2>2
    <3> QED  BY <1>2, <1>3, <2>2, <3>1 DEF WireByte
  <2> QED  BY <2>1, <2>2
<1>5. ASSUME NEW j \in 1 .. LengthOf(pkt)
      PROVE  PayloadOf[pkt][j] = WireByte(pkt, HeaderLen + 1 + j)
  <2>1. PICK i : i = HeaderLen + 1 + j
    OBVIOUS
  <2>2. ~(i <= HeaderLen) /\ i # HeaderLen + 1 /\ i - HeaderLen - 1 = j
    BY <1>1, <2>1
  <2> QED  BY <2>1, <2>2 DEF WireByte
<1> QED  BY <1>3, <1>4, <1>5

-----------------------------------------------------------------------------
(* A stream S of bytes begins with the packets w; cut[k] is the number of  *)
(* bytes ahead of packet k, and at the end of the last packet anything may *)
(* follow.  The stream may also end before the last packet does.           *)
Laid(S, w, cut) ==
  /\ S \in Seq(Byte) /\ w \in Seq(Packet)
  /\ cut \in [1 .. Len(w) + 1 -> Nat]
  /\ \A k \in 1 .. Len(w) :
       /\ cut[k + 1] = cut[k] + WireLen(w[k])
       /\ \A j \in 1 .. WireLen(w[k]) :
            cut[k] + j <= Len(S) => S[cut[k] + j] = WireByte(w[k], j)

(* What a reader in step keeps when it has read `at' bytes of S, of which  *)
(* the first n packets have been handed over.                              *)
Stage(S, w, cut, n, rest, at) ==
  /\ n \in 0 .. Len(w)
  /\ \/ rest = NoRest /\ at = cut[n + 1]
     \/ \E part \in Seq(Byte) :
          /\ n < Len(w)
          /\ \/ /\ rest = HeaderRest(part) /\ Len(part) < HeaderLen
                /\ at = cut[n + 1] + Len(part)
                /\ \A j \in 1 .. Len(part) : part[j] = S[cut[n + 1] + j]
             \/ /\ rest = PayloadRest(w[n + 1], part)
                /\ Len(part) < LengthOf(w[n + 1])
                /\ at = cut[n + 1] + HeaderLen + 1 + Len(part)
                /\ \A j \in 1 .. Len(part) :
                     part[j] = S[cut[n + 1] + HeaderLen + 1 + j]

(* What is found after n packets, in bytes that reach up to `end': the next*)
(* packets of w in order, and then a reader in step, or one that has passed*)
(* the end of w, or a panic.                                               *)
Outcome(S, w, cut, n, res, end) ==
  /\ \A i \in 1 .. Len(res.pairs) :
       n + i <= Len(w) => res.pairs[i] = Pair(w[n + i], PayloadOf[w[n + i]])
  /\ \/ res.panic
     \/ Stage(S, w, cut, n + Len(res.pairs), res.rest, end)
     \/ n + Len(res.pairs) >= Len(w) /\ end > cut[Len(w) + 1]

LEMMA PastTheEnd ==
  ASSUME NEW S, NEW w, NEW cut, Laid(S, w, cut),
         NEW res \in Result, NEW end \in Nat, end > cut[Len(w) + 1]
  PROVE  Outcome(S, w, cut, Len(w), res, end)
<1>1. Len(w) \in Nat /\ Len(res.pairs) \in Nat
  BY LenProperties DEF Laid, Result
<1> QED  BY <1>1 DEF Outcome

LEMMA Found ==
  ASSUME NEW S, NEW w, NEW cut, Laid(S, w, cut), NEW n \in Nat, n < Len(w),
         NEW next \in Result, NEW end \in Nat,
         Outcome(S, w, cut, n + 1, next, end), ~next.panic,
         NEW bytes, bytes = PayloadOf[w[n + 1]]
  PROVE  Outcome(S, w, cut, n,
                 Parsed(<<Pair(w[n + 1], bytes)>> \o next.pairs, next.rest), end)
<1>1. /\ w \in Seq(Packet) /\ Len(w) \in Nat /\ w[n + 1] \in Packet
      /\ next.pairs \in Seq(FoundPair) /\ Len(next.pairs) \in Nat
  <2>1. /\ w \in Seq(Packet) /\ Len(w) \in Nat
        /\ next.pairs \in Seq(FoundPair) /\ Len(next.pairs) \in Nat
    BY LenProperties DEF Laid, Result
  <2>2. n + 1 \in 1 .. Len(w)
    BY <2>1
  <2> QED  BY <2>1, <2>2, ElementOfSeq
<1> DEFINE found == Pair(w[n + 1], bytes)
<1>2. found \in FoundPair
  BY <1>1, PayloadIs, ResultTypes
<1>3. PICK pairs \in Seq(FoundPair) :
        /\ pairs = <<found>> \o next.pairs /\ Len(pairs) = 1 + Len(next.pairs)
        /\ \A i \in 1 .. 1 + Len(next.pairs) :
             pairs[i] = IF i <= 1 THEN <<found>>[i] ELSE next.pairs[i - 1]
  <2>1. <<found>> \in Seq(FoundPair) /\ Len(<<found>>) = 1
    BY <1>2
  <2> HIDE DEF found
  <2>2. /\ <<found>> \o next.pairs \in Seq(FoundPair)
        /\ Len(<<found>> \o next.pairs) = Len(<<found>>) + Len(next.pairs)
        /\ \A i \in 1 .. Len(<<found>>) + Len(next.pairs) :
             (<<found>> \o next.pairs)[i]
               = IF i <= Len(<<found>>) THEN <<found>>[i]
                 ELSE next.pairs[i - Len(<<found>>)]
    BY <1>1, <2>1, ConcatProperties
  <2> QED  BY <2>1, <2>2
<1> HIDE DEF found
<1>8. Len(pairs) = 1 + Len(next.pairs) /\ n + Len(pairs) = (n + 1) + Len(next.pairs)
  <2>1. Len(pairs) = 1 + Len(next.pairs)
    BY <1>3
  <2>2. PICK a, b : a = Len(pairs) /\ b = Len(next.pairs)
    OBVIOUS
  <2>3. b \in Nat /\ a = 1 + b
    BY <1>1, <2>1, <2>2
  <2>4. n + a = (n + 1) + b
    BY <2>3
  <2> QED  BY <2>1, <2>2, <2>4
<1>4. ASSUME NEW i \in 1 .. Len(pairs), n + i <= Len(w)
      PROVE  pairs[i] = Pair(w[n + i], PayloadOf[w[n + i]])
  <2>1. CASE i = 1
    <3>1. pairs[i] = found
      BY <1>1, <1>3, <2>1
    <3> QED  BY <2>1, <3>1 DEF found
  <2>2. CASE i # 1
    <3>1. PICK j : j = i - 1
      OBVIOUS
    <3>2. j \in 1 .. Len(next.pairs) /\ n + i = (n + 1) + j
      BY <1>1, <1>8, <2>2, <3>1
    <3>3. pairs[i] = next.pairs[j]
      BY <1>1, <1>3, <2>2, <3>1
    <3> QED  BY <1>4, <3>2, <3>3 DEF Outcome
  <2> QED  BY <2>1, <2>2
<1>5. \/ Stage(S, w, cut, n + Len(pairs), next.rest, end)
      \/ n + Len(pairs) >= Len(w) /\ end > cut[Len(w) + 1]
  BY <1>8 DEF Outcome
<1> DEFINE res == Parsed(pairs, next.rest)
<1>6. res.pairs = pairs /\ res.rest = next.rest
  BY DEF Parsed
<1> HIDE DEF res
<1>7. Outcome(S, w, cut, n, res, end)
  BY <1>4, <1>5, <1>6 DEF Outcome
<1> QED  BY <1>3, <1>7 DEF res, found

(* A packet of the stream seen through a window: the buffer holds the bytes*)
(* of S from c + 1 on.                                                     *)
Window(buffer, S, c) ==
  /\ buffer \in Seq(Byte) /\ c \in Nat /\ c + Len(buffer) <= Len(S)
  /\ \A i \in 1 .. Len(buffer) : buffer[i] = S[c + i]

LEMMA WindowStarts ==
  ASSUME NEW S, NEW w, NEW cut, Laid(S, w, cut),
         NEW buffer, NEW c, Window(buffer, S, c),
         NEW k \in 1 .. Len(w), NEW p \in 1 .. Len(buffer), cut[k] + 1 = c + p
  PROVE  StartsAt(buffer, p, w[k])
<1>1. /\ Len(w) \in Nat /\ Len(buffer) \in Nat /\ Len(S) \in Nat /\ c \in Nat
      /\ cut[k] \in Nat /\ LengthOf(w[k]) \in Nat /\ HeaderLen \in Nat
      /\ c + Len(buffer) <= Len(S)
  <2>1. /\ w \in Seq(Packet) /\ S \in Seq(Byte) /\ buffer \in Seq(Byte)
        /\ cut \in [1 .. Len(w) + 1 -> Nat]
    BY DEF Laid, Window
  <2>2. Len(w) \in Nat /\ Len(buffer) \in Nat /\ Len(S) \in Nat /\ w[k] \in Packet
    BY <2>1, LenProperties, ElementOfSeq
  <2>3. LengthOf(w[k]) \in Nat /\ HeaderLen \in Nat
    BY <2>2, PayloadIs, HeaderTextIs
  <2>4. cut[k] \in Nat
    <3>1. k \in 1 .. Len(w) + 1
      BY <2>2
    <3> QED  BY <2>1, <3>1
  <2> QED  BY <2>2, <2>3, <2>4 DEF Window
<1>2. ASSUME NEW j \in 1 .. WireLen(w[k]), p - 1 + j <= Len(buffer)
      PROVE  buffer[p - 1 + j] = WireByte(w[k], j)
  <2>1. PICK i : i = p - 1 + j
    OBVIOUS
  <2>2. j \in Nat /\ j >= 1
    BY <1>1 DEF WireLen
  <2>3. i \in 1 .. Len(buffer) /\ c + i = cut[k] + j /\ cut[k] + j <= Len(S)
    <3>1. i \in 1 .. Len(buffer)
      BY <1>1, <1>2, <2>1, <2>2
    <3>2. c + i = cut[k] + j
      <4>1. PICK q : q = cut[k]
        OBVIOUS
      <4>2. q \in Nat /\ q + 1 = c + p
        BY <1>1, <4>1
      <4>3. c + i = q + j
        BY <1>1, <2>1, <2>2, <4>2
      <4> QED  BY <4>1, <4>3
    <3> QED  BY <1>1, <3>1, <3>2
  <2>4. buffer[i] = S[cut[k] + j]
    BY <2>3 DEF Window
  <2> QED  BY <2>1, <2>3, <2>4 DEF Laid
<1> QED  BY <1>2 DEF StartsAt

LEMMA EmptyOutcome ==
  ASSUME NEW S, NEW w, NEW cut, NEW n \in Nat, NEW rest, NEW end,
         Stage(S, w, cut, n, rest, end)
  PROVE  Outcome(S, w, cut, n, Parsed(<<>>, rest), end)
<1> DEFINE res == Parsed(<<>>, rest)
<1>1. Len(res.pairs) = 0 /\ res.rest = rest
  BY EmptySeq DEF Parsed
<1> HIDE DEF res
<1>2. n + Len(res.pairs) = n
  BY <1>1
<1>3. Outcome(S, w, cut, n, res, end)
  BY <1>1, <1>2 DEF Outcome
<1> QED  BY <1>3 DEF res

(* One turn in step, when what the next one makes of the buffer is known.  *)
LEMMA TurnOutcome ==
  ASSUME NEW S, NEW w, NEW cut, Laid(S, w, cut),
         NEW buffer, NEW c, Window(buffer, S, c),
         NEW n \in Nat, n < Len(w), NEW p \in 1 .. Len(buffer),
         cut[n + 1] + 1 = c + p, NEW F,
         LET q == p + WireLen(w[n + 1])
         IN  q <= Len(buffer) =>
               /\ F[q] \in Result
               /\ Outcome(S, w, cut, n + 1, F[q], c + Len(buffer))
  PROVE  Outcome(S, w, cut, n, Turn(buffer, p, F), c + Len(buffer))
<1>1. PICK pkt, end : pkt = w[n + 1] /\ end = c + Len(buffer)
  OBVIOUS
<1>2. /\ w \in Seq(Packet) /\ Len(w) \in Nat /\ n + 1 \in 1 .. Len(w)
      /\ pkt \in Packet /\ buffer \in Seq(Byte) /\ Len(buffer) \in Nat
      /\ c \in Nat /\ end \in Nat
  <2>1. /\ w \in Seq(Packet) /\ Len(w) \in Nat /\ buffer \in Seq(Byte)
        /\ Len(buffer) \in Nat /\ c \in Nat
    BY LenProperties DEF Laid, Window
  <2>2. n + 1 \in 1 .. Len(w)
    BY <2>1
  <2> QED  BY <1>1, <2>1, <2>2, ElementOfSeq
<1>3. StartsAt(buffer, p, pkt)
  BY <1>1, <1>2, WindowStarts
<1>4. PICK q : q = cut[n + 1]
  OBVIOUS
<1>5. /\ q \in Nat /\ q + 1 = c + p /\ HeaderLen \in Nat /\ LengthOf(pkt) \in Nat
      /\ end = c + Len(buffer)
  <2>1. HeaderLen \in Nat /\ LengthOf(pkt) \in Nat
    BY <1>2, <1>3, HeaderStarts
  <2>2. cut \in [1 .. Len(w) + 1 -> Nat] /\ n + 1 \in 1 .. Len(w) + 1
    BY <1>2 DEF Laid
  <2>3. q \in Nat
    BY <1>4, <2>2
  <2> QED  BY <1>1, <1>4, <2>1, <2>3
<1>6. \A i \in 1 .. Len(buffer) : buffer[i] = S[c + i]
  BY DEF Window
<1>7. CASE p + HeaderLen > Len(buffer)
  <2>1. CASE Turn(buffer, p, F) = Panicked
    <3>1. Panicked.panic /\ Len(Panicked.pairs) = 0
      BY ResultTypes, EmptySeq
    <3> QED  BY <2>1, <3>1 DEF Outcome
  <2>2. CASE \E part \in Seq(Byte) :
               /\ Turn(buffer, p, F) = Parsed(<<>>, HeaderRest(part))
               /\ Len(part) = Len(buffer) - p + 1 /\ Len(part) < HeaderLen
               /\ \A j \in 1 .. Len(part) : part[j] = buffer[p - 1 + j]
    <3>1. PICK part \in Seq(Byte) :
               /\ Turn(buffer, p, F) = Parsed(<<>>, HeaderRest(part))
               /\ Len(part) = Len(buffer) - p + 1 /\ Len(part) < HeaderLen
               /\ \A j \in 1 .. Len(part) : part[j] = buffer[p - 1 + j]
      BY <2>2
    <3>2. PICK l \in Nat : l = Len(part) /\ l = Len(buffer) - p + 1
      BY <3>1, LenProperties
    <3>3. end = q + l
      <4>1. PICK b : b = Len(buffer)
        OBVIOUS
      <4>2. b \in Nat /\ l = b - p + 1 /\ end = c + b
        BY <1>2, <1>5, <3>2, <4>1
      <4>3. q \in Nat /\ q + 1 = c + p /\ c \in Nat /\ p \in Nat
        BY <1>2, <1>5
      <4> QED  BY <4>2, <4>3
    <3>4. ASSUME NEW j \in 1 .. Len(part)
          PROVE  part[j] = S[cut[n + 1] + j]
      <4>1. p - 1 + j \in 1 .. Len(buffer) /\ c + (p - 1 + j) = q + j
        BY <1>2, <1>5, <3>2
      <4>2. buffer[p - 1 + j] = S[q + j]
        BY <1>6, <4>1
      <4> QED  BY <1>4, <3>1, <4>2
    <3>5. Stage(S, w, cut, n, HeaderRest(part), end)
      <4>1. n \in 0 .. Len(w) /\ end = cut[n + 1] + Len(part)
        BY <1>2, <1>4, <3>2, <3>3
      <4> QED  BY <3>1, <3>4, <4>1 DEF Stage
    <3> QED  BY <1>1, <1>2, <3>1, <3>5, EmptyOutcome
  <2> QED  BY <1>2, <1>3, <1>7, <2>1, <2>2, TurnInHeader
<1>8. CASE p + HeaderLen <= Len(buffer)
            /\ LengthOf(pkt) > Len(buffer) - (p + HeaderLen)
  <2>1. PICK part \in Seq(Byte) :
           /\ Turn(buffer, p, F) = Parsed(<<>>, PayloadRest(pkt, part))
           /\ Len(part) = Len(buffer) - (p + HeaderLen)
           /\ Len(part) < LengthOf(pkt)
           /\ \A j \in 1 .. Len(part) : part[j] = buffer[p + HeaderLen + j]
    <3>1. /\ p + HeaderLen <= Len(buffer)
          /\ LengthOf(pkt) > Len(buffer) - (p + HeaderLen)
      BY <1>8
    <3>2. buffer \in Seq(Byte) /\ pkt \in Packet /\ StartsAt(buffer, p, pkt)
      BY <1>2, <1>3
    <3>3. PICK t : t = Turn(buffer, p, F)
      OBVIOUS
    <3> QED  BY <3>1, <3>2, <3>3, TurnInPayload
  <2>2. PICK l \in Nat : l = Len(part) /\ l = Len(buffer) - (p + HeaderLen)
    BY <2>1, LenProperties
  <2>3. end = q + HeaderLen + 1 + l
    <3>1. PICK b : b = Len(buffer)
      OBVIOUS
    <3>2. b \in Nat /\ l = b - (p + HeaderLen) /\ end = c + b
      BY <1>2, <1>5, <2>2, <3>1
    <3>3. /\ q \in Nat /\ q + 1 = c + p /\ c \in Nat /\ p \in Nat
          /\ HeaderLen \in Nat
      BY <1>2, <1>5
    <3> QED  BY <3>2, <3>3
  <2>4. ASSUME NEW j \in 1 .. Len(part)
        PROVE  part[j] = S[cut[n + 1] + HeaderLen + 1 + j]
    <3>1. /\ p + HeaderLen + j \in 1 .. Len(buffer)
          /\ c + (p + HeaderLen + j) = q + HeaderLen + 1 + j
      BY <1>2, <1>5, <2>2
    <3>2. buffer[p + HeaderLen + j] = S[q + HeaderLen + 1 + j]
      BY <1>6, <3>1
    <3> QED  BY <1>4, <2>1, <3>2
  <2>5. Stage(S, w, cut, n, PayloadRest(pkt, part), end)
    <3>1. n \in 0 .. Len(w) /\ end = cut[n + 1] + HeaderLen + 1 + Len(part)
      BY <1>2, <1>4, <2>2, <2>3
    <3> QED  BY <1>1, <2>1, <2>4, <3>1 DEF Stage
  <2> QED  BY <1>1, <1>2, <2>1, <2>5, EmptyOutcome
<1>9. CASE p + HeaderLen <= Len(buffer)
            /\ LengthOf(pkt) = Len(buffer) - (p + HeaderLen)
  <2> DEFINE res == Parsed(<<Pair(pkt, PayloadOf[pkt])>>, NoRest)
  <2>1. Turn(buffer, p, F) = res
    BY <1>2, <1>3, <1>9, TurnAtEnd
  <2>2. /\ Len(res.pairs) = 1 /\ res.pairs[1] = Pair(pkt, PayloadOf[pkt])
        /\ res.rest = NoRest
    BY DEF Parsed
  <2> HIDE DEF res
  <2>3. end = q + WireLen(pkt)
    <3>1. PICK b \in Nat, l \in Nat : b = Len(buffer) /\ l = LengthOf(pkt)
      BY <1>2, <1>5
    <3>2. /\ l = b - (p + HeaderLen) /\ end = c + b /\ q + 1 = c + p
          /\ q \in Nat /\ c \in Nat /\ p \in Nat /\ HeaderLen \in Nat
      BY <1>2, <1>5, <1>9, <3>1
    <3>3. end = q + (HeaderLen + 1 + l)
      BY <3>2
    <3> QED  BY <3>1, <3>3 DEF WireLen
  <2>4. cut[n + 1 + 1] = q + WireLen(pkt)
    BY <1>1, <1>2, <1>4 DEF Laid
  <2>5. Stage(S, w, cut, n + Len(res.pairs), res.rest, end)
    BY <1>2, <2>2, <2>3, <2>4 DEF Stage
  <2>6. \A i \in 1 .. Len(res.pairs) :
          n + i <= Len(w) => res.pairs[i] = Pair(w[n + i], PayloadOf[w[n + i]])
    BY <1>1, <2>2
  <2> QED  BY <1>1, <2>1, <2>5, <2>6 DEF Outcome
<1>10. CASE p + HeaderLen <= Len(buffer)
             /\ LengthOf(pkt) < Len(buffer) - (p + HeaderLen)
  <2>1. PICK r : r = p + WireLen(pkt)
    OBVIOUS
  <2>2. /\ r <= Len(buffer)
        /\ Turn(buffer, p, F) =
              IF F[r].panic THEN Panicked
              ELSE Parsed(<<Pair(pkt, PayloadOf[pkt])>> \o F[r].pairs, F[r].rest)
    <3>1. r \in p + 1 .. Len(buffer)
      BY <1>2, <1>3, <1>10, <2>1, TurnBehind
    <3> QED  BY <1>2, <1>3, <1>10, <2>1, <3>1, TurnBehind
  <2>3. F[r] \in Result /\ Outcome(S, w, cut, n + 1, F[r], end)
    BY <1>1, <2>1, <2>2
  <2>4. CASE F[r].panic
    <3>1. Panicked.panic /\ Len(Panicked.pairs) = 0
      BY ResultTypes, EmptySeq
    <3> QED  BY <2>2, <2>4, <3>1 DEF Outcome
  <2>5. CASE ~F[r].panic
    BY <1>1, <1>2, <2>2, <2>3, <2>5, Found
  <2> QED  BY <2>4, <2>5
<1>11. PICK a \in Nat, b \in Nat, l \in Nat :
         a = p + HeaderLen /\ b = Len(buffer) /\ l = LengthOf(pkt)
  <2>1. p + HeaderLen \in Nat
    BY <1>2, <1>5
  <2> QED  BY <1>2, <1>5, <2>1
<1>12. a > b \/ (a <= b /\ l > b - a) \/ (a <= b /\ l = b - a)
               \/ (a <= b /\ l < b - a)
  OBVIOUS
<1> QED  BY <1>7, <1>8, <1>9, <1>10, <1>11, <1>12

(* A buffer that begins with a packet of the stream is parsed in step.     *)
LEMMA ParserInStep ==
  ASSUME NEW S, NEW w, NEW cut, Laid(S, w, cut),
         NEW buffer, NEW c, Window(buffer, S, c), buffer # <<>>,
         NEW n \in 0 .. Len(w), c = cut[n + 1]
  PROVE  Outcome(S, w, cut, n, parse_header_payload_pairs(buffer), c + Len(buffer))
<1>1. /\ buffer \in Seq(Byte) /\ Len(buffer) \in Nat /\ Len(buffer) >= 1
      /\ c \in Nat /\ w \in Seq(Packet) /\ Len(w) \in Nat
      /\ cut \in [1 .. Len(w) + 1 -> Nat]
  <2>1. buffer \in Seq(Byte) /\ Len(buffer) # 0
    BY EmptySeq DEF Window
  <2>2. Len(buffer) \in Nat
    BY <2>1, LenProperties
  <2> QED  BY <2>1, <2>2, LenProperties DEF Window, Laid
<1>2. PICK F : IsLoop(buffer, F) /\ parse_header_payload_pairs(buffer) = F[1]
  BY <1>1, ParserIsLoop
<1>3. \A p \in 1 .. Len(buffer) : F[p] \in Result /\ F[p] = Turn(buffer, p, F)
  <2>1. \A p \in 1 .. Len(buffer) : p \in 1 .. Len(buffer) + 1
    BY <1>1
  <2> QED  BY <1>1, <1>2, <2>1, LoopType DEF IsLoop
<1>4. PICK end \in Nat : end = c + Len(buffer)
  BY <1>1
<1> DEFINE T == {k \in 1 .. Len(w) : \A p \in 1 .. Len(buffer) :
                   cut[k] + 1 = c + p => Outcome(S, w, cut, k - 1, F[p], end)}
<1>5. ASSUME NEW k \in 1 .. Len(w), \A j \in k + 1 .. Len(w) : j \in T
      PROVE  k \in T
  <2>0. SUFFICES ASSUME NEW p \in 1 .. Len(buffer), cut[k] + 1 = c + p
               PROVE  Outcome(S, w, cut, k - 1, F[p], end)
    OBVIOUS
  <2>1. PICK m \in Nat : m = k - 1 /\ m + 1 = k
    BY <1>1
  <2>2. PICK q : q = p + WireLen(w[k])
    OBVIOUS
  <2>3. WireLen(w[k]) \in Nat /\ cut[k + 1] = cut[k] + WireLen(w[k]) /\ cut[k] \in Nat
        /\ WireLen(w[k]) >= 1
    <3>1. w[k] \in Packet
      BY <1>1, ElementOfSeq
    <3>2. LengthOf(w[k]) \in Nat /\ HeaderLen \in Nat
      BY <3>1, PayloadIs, HeaderTextIs
    <3>3. WireLen(w[k]) \in Nat /\ WireLen(w[k]) >= 1
      BY <3>2 DEF WireLen
    <3>4. cut[k + 1] = cut[k] + WireLen(w[k])
      BY DEF Laid
    <3>5. k \in 1 .. Len(w) + 1
      BY <1>1
    <3> QED  BY <1>1, <3>3, <3>4, <3>5
  <2>4. cut[k + 1] + 1 = c + q /\ q \in Nat
    <3>1. PICK x, y : x = cut[k] /\ y = WireLen(w[k])
      OBVIOUS
    <3>2. PICK a, d, z, v \in Nat : a = p /\ d = c /\ z = x /\ v = y
      <4>1. p \in Nat /\ c \in Nat
        BY <1>1
      <4>2. x \in Nat /\ y \in Nat
        BY <2>3, <3>1
      <4> QED  BY <4>1, <4>2
    <3>3. z + 1 = d + a /\ q = a + v
      BY <2>0, <2>2, <3>1, <3>2
    <3>4. (z + v) + 1 = d + (a + v) /\ a + v \in Nat
      BY <3>3
    <3> QED  BY <2>3, <3>1, <3>2, <3>3, <3>4
  <2>5. ASSUME q <= Len(buffer)
        PROVE  F[q] \in Result /\ Outcome(S, w, cut, m + 1, F[q], end)
    <3>1. q \in 1 .. Len(buffer)
      BY <1>1, <2>2, <2>3, <2>4, <2>5
    <3>2. F[q] \in Result
      BY <1>3, <3>1
    <3>3. CASE k < Len(w)
      <4>0. k + 1 \in k + 1 .. Len(w) /\ (k + 1) - 1 = k
        BY <1>1, <3>3
      <4>1. k + 1 \in T /\ (k + 1) - 1 = k
        BY <1>5, <4>0
      <4> QED  BY <2>1, <2>4, <3>1, <3>2, <4>1
    <3>4. CASE k = Len(w)
      <4>1. end > cut[Len(w) + 1]
        <5>1. PICK x : x = cut[k + 1]
          OBVIOUS
        <5>2. x \in Nat /\ x + 1 = c + q /\ end = c + Len(buffer)
          <6>1. k + 1 \in 1 .. Len(w) + 1
            BY <1>1
          <6> QED  BY <1>1, <1>4, <2>4, <5>1, <6>1
        <5>3. end > x
          <6>1. PICK b, d, z, v \in Nat : b = Len(buffer) /\ d = c /\ z = x /\ v = q
            BY <1>1, <2>4, <5>2
          <6>2. v <= b /\ z + 1 = d + v /\ end = d + b
            BY <2>5, <5>2, <6>1
          <6>3. end > z
            BY <6>2
          <6> QED  BY <6>1, <6>3
        <5> QED  BY <3>4, <5>1, <5>3
      <4> QED  BY <2>1, <3>2, <3>4, <4>1, PastTheEnd
    <3> QED  BY <1>1, <3>3, <3>4
  <2>6. /\ m < Len(w) /\ cut[m + 1] + 1 = c + p /\ q = p + WireLen(w[m + 1])
        /\ end = c + Len(buffer)
    BY <1>1, <1>4, <2>0, <2>1, <2>2
  <2>7. Outcome(S, w, cut, m, Turn(buffer, p, F), end)
    BY <2>5, <2>6, TurnOutcome
  <2> QED  BY <1>3, <2>1, <2>7
<1> HIDE DEF T
<1>6. \A k \in 1 .. Len(w) : k \in T
  BY <1>1, <1>5, FromTheEnd
<1>7. CASE n < Len(w)
  <2>1. PICK k \in 1 .. Len(w) : k = n + 1 /\ k - 1 = n
    BY <1>1, <1>7
  <2>2. 1 \in 1 .. Len(buffer) /\ cut[k] + 1 = c + 1
    BY <1>1, <2>1
  <2> QED  BY <1>2, <1>4, <1>6, <2>1, <2>2 DEF T
<1>8. CASE n = Len(w)
  <2>1. end > cut[Len(w) + 1] /\ F[1] \in Result
    BY <1>1, <1>3, <1>4, <1>8
  <2> QED  BY <1>2, <1>4, <1>8, <2>1, PastTheEnd
<1> QED  BY <1>1, <1>7, <1>8

Matches(part, S, c) == \A j \in 1 .. Len(part) : part[j] = S[c + j]

LEMMA WindowGrows ==
  ASSUME NEW S, NEW c \in Nat, NEW part \in Seq(Byte), Matches(part, S, c),
         NEW chunk, NEW d, d = c + Len(part), Window(chunk, S, d)
  PROVE  /\ Window(part \o chunk, S, c)
         /\ Len(part \o chunk) = Len(part) + Len(chunk)
<1>1. chunk \in Seq(Byte) /\ Len(chunk) \in Nat /\ Len(part) \in Nat
  BY LenProperties DEF Window
<1>2. /\ part \o chunk \in Seq(Byte)
      /\ Len(part \o chunk) = Len(part) + Len(chunk)
      /\ \A i \in 1 .. Len(part) + Len(chunk) : (part \o chunk)[i] =
           IF i <= Len(part) THEN part[i] ELSE chunk[i - Len(part)]
  BY <1>1, ConcatProperties
<1>3. ASSUME NEW i \in 1 .. Len(part) + Len(chunk)
      PROVE  (part \o chunk)[i] = S[c + i]
  <2>1. CASE i <= Len(part)
    <3>1. i \in 1 .. Len(part)
      BY <1>1, <2>1
    <3>2. part[i] = S[c + i]
      BY <3>1 DEF Matches
    <3> QED  BY <1>2, <2>1, <3>2
  <2>2. CASE ~(i <= Len(part))
    <3>1. PICK j : j = i - Len(part)
      OBVIOUS
    <3>2. j \in 1 .. Len(chunk) /\ (c + Len(part)) + j = c + i
      BY <1>1, <2>2, <3>1
    <3>3. chunk[j] = S[c + i]
      BY <3>2 DEF Window
    <3> QED  BY <1>2, <2>2, <3>1, <3>3
  <2> QED  BY <2>1, <2>2
<1>4. c + (Len(part) + Len(chunk)) <= Len(S)
  <2>1. (c + Len(part)) + Len(chunk) <= Len(S)
    BY DEF Window
  <2>2. (c + Len(part)) + Len(chunk) = c + (Len(part) + Len(chunk))
    BY <1>1
  <2> QED  BY <2>1, <2>2
<1> QED  BY <1>2, <1>3, <1>4 DEF Window

LEMMA WindowTail ==
  ASSUME NEW S, NEW c, NEW buffer, Window(buffer, S, c),
         NEW m, m \in 0 .. Len(buffer), NEW d, d = c + m
  PROVE  /\ Window(SubSeq(buffer, m + 1, Len(buffer)), S, d)
         /\ Len(SubSeq(buffer, m + 1, Len(buffer))) = Len(buffer) - m
<1>1. buffer \in Seq(Byte) /\ Len(buffer) \in Nat /\ c \in Nat
      /\ c + Len(buffer) <= Len(S)
  BY LenProperties DEF Window
<1>2. PICK i, n : i = m + 1 /\ n = Len(buffer)
  OBVIOUS
<1>3. i \in Nat \ {0} /\ n \in Nat /\ n <= Len(buffer) /\ n - i + 1 = n - m
      /\ (~(i <= n) => n - m = 0) /\ m \in Nat /\ m <= n
  BY <1>1, <1>2
<1> DEFINE tail == SubSeq(buffer, i, n)
<1>4. /\ tail \in Seq(Byte) /\ Len(tail) = n - m
      /\ \A j \in 1 .. n - m : tail[j] = buffer[i + j - 1]
  BY <1>1, <1>3, PartOfBuffer
<1> HIDE DEF tail
<1>5. ASSUME NEW j \in 1 .. n - m
      PROVE  tail[j] = S[(c + m) + j]
  <2>1. PICK l : l = i + j - 1
    OBVIOUS
  <2>2. l \in 1 .. n /\ c + l = (c + m) + j
    BY <1>1, <1>2, <1>3, <2>1
  <2>3. buffer[l] = S[c + l]
    BY <1>2, <2>2 DEF Window
  <2> QED  BY <1>4, <2>1, <2>2, <2>3
<1>6. c + m \in Nat /\ (c + m) + (n - m) <= Len(S)
  BY <1>1, <1>2, <1>3
<1>7. Window(tail, S, c + m) /\ Len(tail) = n - m
  BY <1>4, <1>5, <1>6 DEF Window
<1> QED  BY <1>2, <1>7 DEF tail

(* A payload of the stream behind its header.                              *)
LEMMA WindowPayload ==
  ASSUME NEW S, NEW w, NEW cut, Laid(S, w, cut), NEW k \in 1 .. Len(w),
         NEW buffer, Window(buffer, S, cut[k] + HeaderLen + 1),
         LengthOf(w[k]) <= Len(buffer)
  PROVE  SubSeq(buffer, 1, LengthOf(w[k])) = PayloadOf[w[k]]
<1>1. PICK pkt, l, c : pkt = w[k] /\ l = LengthOf(w[k]) /\ c = cut[k]
  OBVIOUS
<1>2. /\ pkt \in Packet /\ l \in Nat /\ Len(PayloadOf[pkt]) = l /\ c \in Nat
      /\ PayloadOf[pkt] \in Seq(Byte) /\ HeaderLen \in Nat
  <2>1. w \in Seq(Packet) /\ cut \in [1 .. Len(w) + 1 -> Nat] /\ Len(w) \in Nat
    BY LenProperties DEF Laid
  <2>2. pkt \in Packet
    BY <1>1, <2>1, ElementOfSeq
  <2>3. c \in Nat
    <3>1. k \in 1 .. Len(w) + 1
      BY <2>1
    <3> QED  BY <1>1, <2>1, <3>1
  <2> QED  BY <1>1, <2>2, <2>3, PayloadIs, HeaderTextIs
<1>3. /\ buffer \in Seq(Byte) /\ Len(buffer) \in Nat /\ l <= Len(buffer)
      /\ c + HeaderLen + 1 + Len(buffer) <= Len(S)
      /\ Len(S) \in Nat
  BY <1>1, LenProperties DEF Window, Laid
<1>4. PICK one \in Nat \ {0} : one = 1
  OBVIOUS
<1>5. /\ SubSeq(buffer, 1, l) \in Seq(Byte) /\ Len(SubSeq(buffer, 1, l)) = l
      /\ \A j \in 1 .. l : SubSeq(buffer, 1, l)[j] = buffer[j]
  <2>1. /\ SubSeq(buffer, one, l) \in Seq(Byte)
        /\ Len(SubSeq(buffer, one, l)) = IF one <= l THEN l - one + 1 ELSE 0
        /\ \A j \in 1 .. l - one + 1 : SubSeq(buffer, one, l)[j] = buffer[one + j - 1]
    <3>1. l <= Len(buffer)
      BY <1>3
    <3>2. buffer \in Seq(Byte) /\ l \in Nat
      BY <1>2, <1>3
    <3>3. SubSeq(buffer, one, l) \in Seq(Byte)
      BY <3>1, <3>2, PartOfBuffer
    <3>4. Len(SubSeq(buffer, one, l)) = IF one <= l THEN l - one + 1 ELSE 0
      BY <3>1, <3>2, PartOfBuffer
    <3>5. \A j \in 1 .. l - one + 1 : SubSeq(buffer, one, l)[j] = buffer[one + j - 1]
      BY <3>1, <3>2, PartOfBuffer
    <3> QED  BY <3>3, <3>4, <3>5
  <2>2. (IF one <= l THEN l - one + 1 ELSE 0) = l /\ l - one + 1 = l
        /\ \A j \in 1 .. l : one + j - 1 = j
    BY <1>2, <1>4
  <2> QED  BY <1>4, <2>1, <2>2
<1>6. ASSUME NEW j \in 1 .. l
      PROVE  SubSeq(buffer, 1, l)[j] = PayloadOf[pkt][j]
  <2>1. PICK i : i = HeaderLen + 1 + j
    OBVIOUS
  <2>2. /\ i \in 1 .. WireLen(pkt) /\ ~(i <= HeaderLen) /\ i # HeaderLen + 1
        /\ i - HeaderLen - 1 = j
    <3>1. WireLen(pkt) = HeaderLen + 1 + l
      BY <1>1 DEF WireLen
    <3> QED  BY <1>2, <2>1, <3>1
  <2>3. c + i = c + HeaderLen + 1 + j /\ c + i <= Len(S) /\ j \in 1 .. Len(buffer)
    BY <1>2, <1>3, <2>1
  <2>4. buffer[j] = S[c + i]
    BY <1>1, <2>3 DEF Window
  <2>5. S[c + i] = WireByte(pkt, i)
    BY <1>1, <2>2, <2>3 DEF Laid
  <2> QED  BY <1>5, <2>2, <2>4, <2>5 DEF WireByte
<1>7. SubSeq(buffer, 1, l) = PayloadOf[pkt]
  BY <1>2, <1>5, <1>6, SeqEqual
<1> QED  BY <1>1, <1>7

LEMMA AbsorbPayloadType ==
  ASSUME NEW pkt \in Packet, NEW part \in Seq(Byte), NEW chunk \in Seq(Byte)
  PROVE  /\ AbsorbPayload(PayloadRest(pkt, part), chunk) \in Result
         /\ Len(part) < LengthOf(pkt) =>
              Keeps(AbsorbPayload(PayloadRest(pkt, part), chunk).rest, Len(chunk))
<1> DEFINE left == PayloadRest(pkt, part)
           bytes == part \o chunk
           l == LengthOf(pkt)
           parsed == parse_header_payload_pairs(SubSeq(bytes, l + 1, Len(bytes)))
           whole == SubSeq(bytes, 1, l)
<1>1. /\ bytes \in Seq(Byte) /\ Len(bytes) \in Nat /\ l \in Nat
      /\ Len(bytes) = Len(part) + Len(chunk)
      /\ Len(part) \in Nat /\ Len(chunk) \in Nat
  BY ConcatProperties, LenProperties, PayloadIs
<1>2. left.pkt = pkt /\ left.bytes = part
  BY DEF PayloadRest
<1> HIDE DEF left, bytes, l
<1>3. AbsorbPayload(left, chunk) =
        IF Len(bytes) < l THEN Parsed(<<>>, PayloadRest(pkt, bytes))
        ELSE IF parsed.panic THEN Panicked
        ELSE Parsed(<<Pair(pkt, whole)>> \o parsed.pairs, parsed.rest)
  BY <1>2 DEF AbsorbPayload, bytes, l
<1>4. CASE Len(bytes) < l
  <2>1. <<>> \in Seq(FoundPair) /\ PayloadRest(pkt, bytes) \in Rest
    BY <1>1, ResultTypes, EmptySeq
  <2>2. Parsed(<<>>, PayloadRest(pkt, bytes)) \in Result
    BY <2>1, ResultTypes
  <2>3. Keeps(Parsed(<<>>, PayloadRest(pkt, bytes)).rest, Len(chunk))
    BY <1>4 DEF Keeps, Parsed, PayloadRest, l
  <2> QED  BY <1>3, <1>4, <2>2, <2>3 DEF left
<1>5. CASE ~(Len(bytes) < l)
  <2>1. /\ parsed \in Result /\ whole \in Seq(Byte)
        /\ Len(part) < l => Keeps(parsed.rest, Len(chunk))
    <3>1. PICK i, j \in Nat \ {0} : i = l + 1 /\ j = 1
      BY <1>1
    <3>2. /\ SubSeq(bytes, i, Len(bytes)) \in Seq(Byte) /\ SubSeq(bytes, j, l) \in Seq(Byte)
          /\ Len(SubSeq(bytes, i, Len(bytes)))
               = IF i <= Len(bytes) THEN Len(bytes) - i + 1 ELSE 0
      BY <1>1, <1>5, PartOfBuffer
    <3>3. PICK tail \in Seq(Byte) :
            /\ tail = SubSeq(bytes, l + 1, Len(bytes))
            /\ Len(tail) = IF i <= Len(bytes) THEN Len(bytes) - i + 1 ELSE 0
      BY <3>1, <3>2
    <3>4. parsed \in Result /\ Keeps(parsed.rest, Len(tail))
      BY <3>3, ParserType
    <3>5. Len(part) < l => Len(tail) <= Len(chunk)
      BY <1>1, <3>1, <3>3
    <3>6. ASSUME Len(part) < l
          PROVE  Keeps(parsed.rest, Len(chunk))
      <4> HIDE DEF parsed
      <4>1. parsed.rest \in Rest /\ Len(tail) \in Nat
        BY <3>3, <3>4, LenProperties DEF Result
      <4>2. parsed.rest.kind = "header" => Len(parsed.rest.bytes) \in Nat
        <5>1. parsed.rest.kind = "header" => parsed.rest.bytes \in Seq(Byte)
          BY <4>1 DEF Rest, NoRest
        <5> QED  BY <5>1, LenProperties
      <4> QED  BY <1>1, <3>4, <3>5, <3>6, <4>1, <4>2 DEF Keeps
    <3> QED  BY <3>1, <3>2, <3>4, <3>6
  <2>2. <<Pair(pkt, whole)>> \in Seq(FoundPair)
    <3>1. Pair(pkt, whole) \in FoundPair
      BY <2>1, ResultTypes
    <3> QED  BY <3>1
  <2> HIDE DEF parsed, whole
  <2>3. parsed.pairs \in Seq(FoundPair) /\ parsed.rest \in Rest
    BY <2>1 DEF Result
  <2>4. <<Pair(pkt, whole)>> \o parsed.pairs \in Seq(FoundPair)
    BY <2>2, <2>3, ConcatProperties
  <2>5. Parsed(<<Pair(pkt, whole)>> \o parsed.pairs, parsed.rest) \in Result
    BY <2>3, <2>4, ResultTypes
  <2>6. Parsed(<<Pair(pkt, whole)>> \o parsed.pairs, parsed.rest).rest = parsed.rest
    BY DEF Parsed
  <2> QED  BY <1>3, <1>5, <2>1, <2>5, <2>6, ResultTypes, KeepsNothing DEF left, l
<1> QED  BY <1>4, <1>5

(* What a reader in step has kept of a payload.                            *)
LEMMA PayloadStage ==
  ASSUME NEW S, NEW w, NEW cut, Laid(S, w, cut), NEW n, NEW left, NEW at,
         Stage(S, w, cut, n, left, at), left.kind = "payload"
  PROVE  \E part \in Seq(Byte), c \in Nat :
           /\ n \in Nat /\ n + 1 \in 1 .. Len(w) /\ w[n + 1] \in Packet
           /\ left = PayloadRest(w[n + 1], part)
           /\ c = cut[n + 1] + HeaderLen + 1 /\ at = c + Len(part)
           /\ Matches(part, S, c)
<1>1. /\ w \in Seq(Packet) /\ Len(w) \in Nat /\ HeaderLen \in Nat
      /\ cut \in [1 .. Len(w) + 1 -> Nat] /\ n \in 0 .. Len(w)
  BY LenProperties, FramingAssumption DEF Laid, Stage
<1>2. PICK part \in Seq(Byte) :
        /\ n < Len(w) /\ left = PayloadRest(w[n + 1], part)
        /\ at = cut[n + 1] + HeaderLen + 1 + Len(part)
        /\ \A j \in 1 .. Len(part) : part[j] = S[cut[n + 1] + HeaderLen + 1 + j]
  BY DEF Stage, NoRest, HeaderRest
<1>3. n \in Nat /\ n + 1 \in 1 .. Len(w) /\ n + 1 \in 1 .. Len(w) + 1
  BY <1>1, <1>2
<1>4. w[n + 1] \in Packet /\ cut[n + 1] \in Nat
  BY <1>1, <1>3, ElementOfSeq
<1>5. PICK c \in Nat : c = cut[n + 1] + HeaderLen + 1
  BY <1>1, <1>4
<1>6. at = c + Len(part) /\ Matches(part, S, c)
  BY <1>2, <1>5 DEF Matches
<1> QED  BY <1>2, <1>3, <1>4, <1>5, <1>6

(* More bytes for a payload keep the reader in step.                       *)
LEMMA AbsorbPayloadInStep ==
  ASSUME NEW S, NEW w, NEW cut, Laid(S, w, cut), NEW n, NEW left, NEW at,
         Stage(S, w, cut, n, left, at), left.kind = "payload",
         NEW chunk, Window(chunk, S, at), NEW end, end = at + Len(chunk)
  PROVE  Outcome(S, w, cut, n, AbsorbPayload(left, chunk), end)
<1>1. PICK part \in Seq(Byte), c \in Nat :
        /\ n \in Nat /\ n + 1 \in 1 .. Len(w) /\ w[n + 1] \in Packet
        /\ left = PayloadRest(w[n + 1], part)
        /\ c = cut[n + 1] + HeaderLen + 1 /\ at = c + Len(part)
        /\ Matches(part, S, c)
  BY PayloadStage
<1>2. PICK k \in 1 .. Len(w) : k = n + 1
  BY <1>1
<1>3. PICK pkt \in Packet : pkt = w[k]
  BY <1>1, <1>2
<1>4. PICK l \in Nat : l = LengthOf(pkt)
  BY <1>3, PayloadIs
<1>5. left.pkt = pkt /\ left.bytes = part /\ left = PayloadRest(pkt, part)
  BY <1>1, <1>2, <1>3 DEF PayloadRest
<1>6. /\ Len(w) \in Nat /\ chunk \in Seq(Byte) /\ Len(chunk) \in Nat
      /\ Len(part) \in Nat /\ HeaderLen \in Nat
      /\ WireLen(pkt) = HeaderLen + 1 + l
      /\ cut \in [1 .. Len(w) + 1 -> Nat]
  BY <1>4, LenProperties, FramingAssumption DEF Laid, Window, WireLen
<1>7. PICK bytes \in Seq(Byte) :
        /\ bytes = part \o chunk /\ Len(bytes) = Len(part) + Len(chunk)
        /\ Window(bytes, S, c)
  <2>1. /\ Window(part \o chunk, S, c)
        /\ Len(part \o chunk) = Len(part) + Len(chunk)
    BY <1>1, WindowGrows
  <2>2. part \o chunk \in Seq(Byte)
    BY <2>1 DEF Window
  <2> QED  BY <2>1, <2>2
<1>8. PICK length \in Nat : length = Len(bytes)
  BY LenProperties
<1>9. end \in Nat /\ end = c + length
  <2>1. PICK x \in Nat, y \in Nat : x = Len(part) /\ y = Len(chunk)
    BY <1>6
  <2>2. at = c + x /\ length = x + y /\ end = at + y
    BY <1>1, <1>7, <1>8, <2>1
  <2> QED  BY <2>2
<1> DEFINE tail == SubSeq(bytes, l + 1, Len(bytes))
           parsed == parse_header_payload_pairs(tail)
           whole == SubSeq(bytes, 1, l)
           found == AbsorbPayload(left, chunk)
<1>10. found = IF length < l THEN Parsed(<<>>, PayloadRest(pkt, bytes))
               ELSE IF parsed.panic THEN Panicked
               ELSE Parsed(<<Pair(pkt, whole)>> \o parsed.pairs, parsed.rest)
  BY <1>4, <1>5, <1>7, <1>8 DEF AbsorbPayload
<1> HIDE DEF found
<1>11. CASE length < l
  <2>1. \A j \in 1 .. Len(bytes) : bytes[j] = S[cut[n + 1] + HeaderLen + 1 + j]
    BY <1>1, <1>7 DEF Window
  <2>2. /\ n \in 0 .. Len(w) /\ n < Len(w)
        /\ end = cut[n + 1] + HeaderLen + 1 + Len(bytes)
    <3>1. n \in 0 .. Len(w) /\ n < Len(w)
      BY <1>1, <1>6
    <3>2. end = cut[n + 1] + HeaderLen + 1 + Len(bytes)
      BY <1>1, <1>8, <1>9
    <3> QED  BY <3>1, <3>2
  <2>3. Len(bytes) < LengthOf(w[n + 1]) /\ PayloadRest(pkt, bytes) = PayloadRest(w[n + 1], bytes)
    BY <1>2, <1>3, <1>4, <1>8, <1>11
  <2>4. Stage(S, w, cut, n, PayloadRest(pkt, bytes), end)
    BY <2>1, <2>2, <2>3 DEF Stage
  <2>5. Outcome(S, w, cut, n, Parsed(<<>>, PayloadRest(pkt, bytes)), end)
    BY <1>1, <2>4, EmptyOutcome
  <2> QED  BY <1>10, <1>11, <2>5 DEF found
<1>12. CASE ~(length < l)
  <2>1. whole = PayloadOf[pkt]
    <3>1. LengthOf(w[k]) <= Len(bytes)
      BY <1>3, <1>4, <1>8, <1>12
    <3>2. Window(bytes, S, cut[k] + HeaderLen + 1)
      BY <1>1, <1>2, <1>7
    <3>3. SubSeq(bytes, 1, LengthOf(w[k])) = PayloadOf[w[k]]
      BY <3>1, <3>2, WindowPayload
    <3> QED  BY <1>3, <1>4, <3>3
  <2>2. PICK d \in Nat : d = c + l
    OBVIOUS
  <2>3. Window(tail, S, d) /\ Len(tail) = length - l
    <3>1. l \in 0 .. Len(bytes)
      BY <1>8, <1>12
    <3>2. Window(bytes, S, c)
      BY <1>7
    <3> HIDE DEF parsed, whole
    <3>3. Window(tail, S, d) /\ Len(tail) = Len(bytes) - l
      BY <2>2, <3>1, <3>2, WindowTail
    <3> QED  BY <1>8, <3>3
  <2> HIDE DEF tail, whole
  <2>4. end = d + Len(tail)
    BY <1>9, <2>2, <2>3
  <2>5. d = cut[k + 1]
    <3>1. PICK x \in Nat : x = cut[k]
      <4>1. k \in 1 .. Len(w) + 1
        BY <1>6
      <4> QED  BY <1>6, <4>1
    <3>2. c = x + HeaderLen + 1 /\ cut[k + 1] = x + WireLen(pkt)
      BY <1>1, <1>2, <1>3, <3>1 DEF Laid
    <3>3. d = x + (HeaderLen + 1 + l)
      BY <1>6, <2>2, <3>2
    <3> QED  BY <1>6, <3>2, <3>3
  <2>6. parsed \in Result /\ Outcome(S, w, cut, k, parsed, end)
    <3>1. CASE tail = <<>>
      <4>1. parsed = Parsed(<<>>, NoRest)
        BY <3>1 DEF parse_header_payload_pairs
      <4>2. Parsed(<<>>, NoRest) \in Result
        BY ResultTypes, EmptySeq DEF Rest
      <4>3. end = cut[k + 1]
        <5>1. Len(tail) = 0
          BY <3>1, EmptySeq
        <5> QED  BY <2>4, <2>5, <5>1
      <4>4. k \in 0 .. Len(w) /\ k \in Nat
        BY <1>6
      <4>5. Stage(S, w, cut, k, NoRest, end)
        BY <4>3, <4>4 DEF Stage
      <4>6. Outcome(S, w, cut, k, Parsed(<<>>, NoRest), end)
        BY <4>4, <4>5, EmptyOutcome
      <4> QED  BY <4>1, <4>2, <4>6
    <3>2. CASE tail # <<>>
      <4>1. tail \in Seq(Byte)
        BY <2>3 DEF Window
      <4>2. k \in 0 .. Len(w)
        BY <1>6
      <4>3. Outcome(S, w, cut, k, parsed, d + Len(tail))
        BY <2>3, <2>5, <3>2, <4>2, ParserInStep
      <4> QED  BY <2>4, <4>1, <4>3, ParserType
    <3> QED  BY <3>1, <3>2
  <2> HIDE DEF parsed
  <2>7. CASE parsed.panic
    <3>1. Panicked.panic /\ Len(Panicked.pairs) = 0
      BY ResultTypes, EmptySeq
    <3>2. found = Panicked
      BY <1>10, <1>12, <2>7
    <3>3. Outcome(S, w, cut, n, found, end)
      BY <3>1, <3>2 DEF Outcome
    <3> QED  BY <3>3 DEF found
  <2>8. CASE ~parsed.panic
    <3>1. found = Parsed(<<Pair(pkt, whole)>> \o parsed.pairs, parsed.rest)
      BY <1>10, <1>12, <2>8
    <3>2. n < Len(w) /\ n \in Nat /\ Outcome(S, w, cut, n + 1, parsed, end)
      BY <1>1, <1>2, <1>6, <2>6
    <3>3. pkt = w[n + 1] /\ whole = PayloadOf[w[n + 1]]
      BY <1>2, <1>3, <2>1
    <3>4. Outcome(S, w, cut, n,
                  Parsed(<<Pair(w[n + 1], whole)>> \o parsed.pairs, parsed.rest), end)
      BY <1>9, <2>6, <2>8, <3>2, <3>3, Found
    <3> QED  BY <3>1, <3>3, <3>4 DEF found
  <2> QED  BY <2>7, <2>8
<1> QED  BY <1>11, <1>12
=============================================================================
