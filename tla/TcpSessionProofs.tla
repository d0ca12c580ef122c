--------------------------- MODULE TcpSessionProofs ---------------------------
(* Theorems of TcpSession: its types, and that framing is lossless whatever *)
(* the sizes of the chunks, the packets and the socket.                     *)
EXTENDS TcpSession, GdpFramingProofs

-----------------------------------------------------------------------------
(* The two ends.                                                           *)

LEMMA OtherSide ==
  ASSUME NEW s \in Side
  PROVE  /\ Other(s) \in Side /\ Other(s) # s /\ Other(Other(s)) = s
         /\ \A r \in Side : r = s \/ r = Other(s)
<1>1. PICK l, r \in Side : l # r /\ Side = {l, r}
  BY SessionAssumption
<1>2. \A x \in Side : Other(x) \in Side /\ Other(x) # x
  BY <1>1 DEF Other
<1> QED  BY <1>1, <1>2

-----------------------------------------------------------------------------
(* What a chunk makes of what the last one left.                           *)

LEMMA AbsorbType ==
  ASSUME NEW left \in Rest, NEW chunk \in Seq(Byte)
  PROVE  Absorb(left, chunk) \in Result
<1>1. CASE left.kind = "none"
  BY <1>1, ParserType DEF Absorb
<1>2. CASE left.kind = "header"
  <2>1. left.bytes \o chunk \in Seq(Byte)
    BY <1>2, RestTypes, ConcatProperties
  <2> QED  BY <1>2, <2>1, ParserType DEF Absorb
<1>3. CASE left.kind = "payload"
  <2>1. AbsorbPayload(left, chunk) \in Result
    BY <1>3, RestTypes, AbsorbPayloadType
  <2> QED  BY <1>3, <2>1 DEF Absorb
<1> QED  BY <1>1, <1>2, <1>3, RestTypes

(* What a reader in step has kept of a header.                             *)
LEMMA HeaderStage ==
  ASSUME NEW S, NEW w, NEW cut, Laid(S, w, cut), NEW n, NEW left, NEW at,
         Stage(S, w, cut, n, left, at), left.kind = "header"
  PROVE  \E part \in Seq(Byte), c \in Nat :
           /\ n \in 0 .. Len(w) /\ left.bytes = part
           /\ c = cut[n + 1] /\ at = c + Len(part) /\ Matches(part, S, c)
<1>1. /\ w \in Seq(Packet) /\ Len(w) \in Nat
      /\ cut \in [1 .. Len(w) + 1 -> Nat] /\ n \in 0 .. Len(w)
  BY LenProperties DEF Laid, Stage
<1>2. PICK part \in Seq(Byte) :
        /\ left = HeaderRest(part) /\ at = cut[n + 1] + Len(part)
        /\ \A j \in 1 .. Len(part) : part[j] = S[cut[n + 1] + j]
  BY DEF Stage, NoRest, PayloadRest
<1>3. PICK c \in Nat : c = cut[n + 1]
  BY <1>1
<1>4. at = c + Len(part) /\ Matches(part, S, c)
  BY <1>2, <1>3 DEF Matches
<1>5. left.bytes = part
  BY <1>2 DEF HeaderRest
<1> QED  BY <1>1, <1>3, <1>4, <1>5

(* A chunk of the stream keeps a reader in step.                           *)
LEMMA AbsorbInStep ==
  ASSUME NEW S, NEW w, NEW cut, Laid(S, w, cut), NEW n, NEW left, NEW at,
         Stage(S, w, cut, n, left, at), left.kind \in {"none", "header", "payload"},
         NEW chunk, chunk # <<>>, Window(chunk, S, at),
         NEW end, end = at + Len(chunk)
  PROVE  Outcome(S, w, cut, n, Absorb(left, chunk), end)
<1>1. CASE left.kind = "none"
  <2>1. at = cut[n + 1] /\ n \in 0 .. Len(w)
    BY <1>1 DEF Stage, HeaderRest, PayloadRest
  <2>2. Outcome(S, w, cut, n, parse_header_payload_pairs(chunk), at + Len(chunk))
    BY <2>1, ParserInStep
  <2> QED  BY <1>1, <2>2 DEF Absorb
<1>2. CASE left.kind = "header"
  <2>1. PICK part \in Seq(Byte), c \in Nat :
          /\ n \in 0 .. Len(w) /\ left.bytes = part
          /\ c = cut[n + 1] /\ at = c + Len(part) /\ Matches(part, S, c)
    BY <1>2, HeaderStage
  <2>2. PICK bytes : bytes = part \o chunk
    OBVIOUS
  <2>3. Window(bytes, S, c) /\ Len(bytes) = Len(part) + Len(chunk)
    BY <2>1, <2>2, WindowGrows
  <2>4. bytes # <<>> /\ c + Len(bytes) = end
    <3>1. chunk \in Seq(Byte)
      BY DEF Window
    <3>2. PICK x \in Nat, y \in Nat : x = Len(part) /\ y = Len(chunk)
      BY <3>1, LenProperties
    <3>3. y # 0
      BY <3>1, <3>2, EmptySeq
    <3>4. Len(bytes) = x + y /\ end = (c + x) + y
      BY <2>1, <2>3, <3>2
    <3>5. Len(bytes) # 0 /\ c + Len(bytes) = end
      BY <3>3, <3>4
    <3> QED  BY <3>5, EmptySeq
  <2>5. Outcome(S, w, cut, n, parse_header_payload_pairs(bytes), c + Len(bytes))
    BY <2>1, <2>3, <2>4, ParserInStep
  <2> QED  BY <1>2, <2>1, <2>2, <2>4, <2>5 DEF Absorb
<1>3. CASE left.kind = "payload"
  <2>1. Outcome(S, w, cut, n, AbsorbPayload(left, chunk), end)
    BY <1>3, AbsorbPayloadInStep
  <2> QED  BY <1>3, <2>1 DEF Absorb
<1> QED  BY <1>1, <1>2, <1>3

-----------------------------------------------------------------------------
(* A stream that goes on.                                                  *)

Extends(T, U) ==
  /\ T \in Seq(Byte) /\ U \in Seq(Byte) /\ Len(T) <= Len(U)
  /\ \A i \in 1 .. Len(T) : U[i] = T[i]

LEMMA Continued ==
  ASSUME NEW T \in Seq(Byte), NEW tail \in Seq(Byte)
  PROVE  /\ Extends(T, T \o tail) /\ Len(T \o tail) = Len(T) + Len(tail)
         /\ Window(tail, T \o tail, Len(T))
<1>1. Len(T) \in Nat /\ Len(tail) \in Nat
  BY LenProperties
<1>2. PICK U \in Seq(Byte) :
        /\ U = T \o tail /\ Len(U) = Len(T) + Len(tail)
        /\ \A i \in 1 .. Len(T) + Len(tail) :
             U[i] = IF i <= Len(T) THEN T[i] ELSE tail[i - Len(T)]
  <2>1. /\ T \o tail \in Seq(Byte) /\ Len(T \o tail) = Len(T) + Len(tail)
        /\ \A i \in 1 .. Len(T) + Len(tail) :
             (T \o tail)[i] = IF i <= Len(T) THEN T[i] ELSE tail[i - Len(T)]
    BY ConcatProperties
  <2> QED  BY <2>1
<1>3. PICK x \in Nat, y \in Nat : x = Len(T) /\ y = Len(tail)
  BY <1>1
<1>4. Extends(T, U)
  <2>1. Len(T) <= Len(U) /\ \A i \in 1 .. Len(T) : i \in 1 .. x + y /\ i <= Len(T)
    BY <1>2, <1>3
  <2> QED  BY <1>2, <1>3, <2>1 DEF Extends
<1>5. ASSUME NEW i \in 1 .. Len(tail)
      PROVE  tail[i] = U[Len(T) + i]
  <2>1. PICK j : j = x + i
    OBVIOUS
  <2>2. j \in 1 .. x + y /\ ~(j <= x) /\ j - x = i
    BY <1>3, <2>1
  <2> QED  BY <1>2, <1>3, <2>1, <2>2
<1>6. Window(tail, U, Len(T))
  <2>1. Len(T) + Len(tail) <= Len(U)
    BY <1>2, <1>3
  <2> QED  BY <1>1, <1>5, <2>1 DEF Window
<1> QED  BY <1>2, <1>4, <1>6

LEMMA WindowExtends ==
  ASSUME NEW T, NEW U, Extends(T, U), NEW buffer, NEW c, Window(buffer, T, c)
  PROVE  Window(buffer, U, c)
<1>1. /\ buffer \in Seq(Byte) /\ Len(buffer) \in Nat /\ c \in Nat
      /\ Len(T) \in Nat /\ Len(U) \in Nat
  BY LenProperties DEF Window, Extends
<1>2. c + Len(buffer) <= Len(T) /\ Len(T) <= Len(U)
  BY DEF Window, Extends
<1>3. ASSUME NEW i \in 1 .. Len(buffer)
      PROVE  buffer[i] = U[c + i]
  <2>1. c + i \in 1 .. Len(T)
    BY <1>1, <1>2
  <2> QED  BY <2>1 DEF Window, Extends
<1> QED  BY <1>1, <1>2, <1>3 DEF Window

(* Everything w says is ahead of a packet, or of the end, is in the stream.*)
AllBegun(T, w, cut) == \A k \in 1 .. Len(w) + 1 : cut[k] <= Len(T)

LEMMA LaidExtends ==
  ASSUME NEW T, NEW U, Extends(T, U), NEW w, NEW cut, Laid(T, w, cut),
         AllBegun(T, w, cut)
  PROVE  Laid(U, w, cut) /\ AllBegun(U, w, cut)
<1>1. /\ w \in Seq(Packet) /\ Len(w) \in Nat /\ U \in Seq(Byte)
      /\ cut \in [1 .. Len(w) + 1 -> Nat]
      /\ Len(T) \in Nat /\ Len(U) \in Nat /\ Len(T) <= Len(U)
  BY LenProperties DEF Laid, Extends
<1>2. ASSUME NEW k \in 1 .. Len(w)
      PROVE  /\ cut[k + 1] = cut[k] + WireLen(w[k])
             /\ \A j \in 1 .. WireLen(w[k]) :
                  cut[k] + j <= Len(U) => U[cut[k] + j] = WireByte(w[k], j)
  <2>1. k \in 1 .. Len(w) + 1 /\ k + 1 \in 1 .. Len(w) + 1
    BY <1>1
  <2>2. PICK x \in Nat, y \in Nat : x = cut[k] /\ y = cut[k + 1]
    BY <1>1, <2>1
  <2>3. PICK l \in Nat : l = WireLen(w[k])
    <3>1. w[k] \in Packet
      BY <1>1, ElementOfSeq
    <3>2. LengthOf(w[k]) \in Nat /\ HeaderLen \in Nat
      BY <3>1, PayloadIs, FramingAssumption
    <3> QED  BY <3>2 DEF WireLen
  <2>4. y = x + l /\ y <= Len(T)
    BY <2>1, <2>2, <2>3 DEF Laid, AllBegun
  <2>5. ASSUME NEW j \in 1 .. l
        PROVE  U[x + j] = WireByte(w[k], j)
    <3>1. x + j \in 1 .. Len(T) /\ x + j <= Len(T)
      BY <1>1, <2>4
    <3>2. T[x + j] = WireByte(w[k], j)
      BY <2>2, <2>3, <3>1 DEF Laid
    <3> QED  BY <3>1, <3>2 DEF Extends
  <2> QED  BY <2>2, <2>3, <2>4, <2>5
<1>3. AllBegun(U, w, cut)
  <2>1. ASSUME NEW k \in 1 .. Len(w) + 1
        PROVE  cut[k] <= Len(U)
    <3>1. cut[k] \in Nat /\ cut[k] <= Len(T)
      BY <1>1 DEF AllBegun
    <3> QED  BY <1>1, <3>1
  <2> QED  BY <2>1 DEF AllBegun
<1> QED  BY <1>1, <1>2, <1>3 DEF Laid

LEMMA StageExtends ==
  ASSUME NEW T, NEW U, Extends(T, U), NEW w, NEW cut, Laid(T, w, cut),
         NEW n, NEW left, NEW at \in Nat, Stage(T, w, cut, n, left, at),
         at <= Len(T)
  PROVE  Stage(U, w, cut, n, left, at)
<1>1. /\ Len(w) \in Nat /\ n \in 0 .. Len(w) /\ HeaderLen \in Nat
      /\ cut \in [1 .. Len(w) + 1 -> Nat] /\ Len(T) \in Nat
  BY LenProperties, FramingAssumption DEF Laid, Stage, Extends
<1>2. PICK c \in Nat : c = cut[n + 1]
  BY <1>1
<1>3. CASE left = NoRest /\ at = cut[n + 1]
  BY <1>1, <1>3 DEF Stage
<1>4. ASSUME NEW part \in Seq(Byte), NEW d \in Nat, at = d + Len(part),
             NEW j \in 1 .. Len(part)
      PROVE  U[d + j] = T[d + j]
  <2>1. Len(part) \in Nat
    BY LenProperties
  <2>2. d + j \in 1 .. Len(T)
    BY <1>1, <1>4, <2>1
  <2> QED  BY <2>2 DEF Extends
<1>5. ASSUME NEW part \in Seq(Byte), n < Len(w), left = HeaderRest(part),
             Len(part) < HeaderLen, at = cut[n + 1] + Len(part),
             \A j \in 1 .. Len(part) : part[j] = T[cut[n + 1] + j]
      PROVE  Stage(U, w, cut, n, left, at)
  <2>1. \A j \in 1 .. Len(part) : part[j] = U[cut[n + 1] + j]
    BY <1>2, <1>4, <1>5
  <2> QED  BY <1>1, <1>5, <2>1 DEF Stage
<1>6. ASSUME NEW part \in Seq(Byte), n < Len(w),
             left = PayloadRest(w[n + 1], part), Len(part) < LengthOf(w[n + 1]),
             at = cut[n + 1] + HeaderLen + 1 + Len(part),
             \A j \in 1 .. Len(part) : part[j] = T[cut[n + 1] + HeaderLen + 1 + j]
      PROVE  Stage(U, w, cut, n, left, at)
  <2>1. PICK d \in Nat : d = cut[n + 1] + HeaderLen + 1
    BY <1>1, <1>2
  <2>2. \A j \in 1 .. Len(part) : part[j] = U[cut[n + 1] + HeaderLen + 1 + j]
    BY <1>4, <1>6, <2>1
  <2> QED  BY <1>1, <1>6, <2>2 DEF Stage
<1> QED  BY <1>3, <1>5, <1>6 DEF Stage

(* One more packet at the end of the stream.                               *)
CutAfter(w, cut, pkt) ==
  [k \in 1 .. Len(w) + 2 |->
     IF k <= Len(w) + 1 THEN cut[k] ELSE cut[Len(w) + 1] + WireLen(pkt)]

LEMMA CutIs ==
  ASSUME NEW T, NEW w, NEW cut, Laid(T, w, cut), NEW pkt \in Packet
  PROVE  /\ Append(w, pkt) \in Seq(Packet) /\ Len(Append(w, pkt)) = Len(w) + 1
         /\ \A k \in 1 .. Len(w) : Append(w, pkt)[k] = w[k]
         /\ Append(w, pkt)[Len(w) + 1] = pkt
         /\ CutAfter(w, cut, pkt) \in [1 .. Len(w) + 2 -> Nat]
         /\ \A k \in 1 .. Len(w) + 1 : CutAfter(w, cut, pkt)[k] = cut[k]
         /\ CutAfter(w, cut, pkt)[Len(w) + 2] = cut[Len(w) + 1] + WireLen(pkt)
<1>1. /\ w \in Seq(Packet) /\ Len(w) \in Nat /\ cut \in [1 .. Len(w) + 1 -> Nat]
  BY LenProperties DEF Laid
<1>2. /\ Append(w, pkt) \in Seq(Packet) /\ Len(Append(w, pkt)) = Len(w) + 1
      /\ \A k \in 1 .. Len(w) : Append(w, pkt)[k] = w[k]
      /\ Append(w, pkt)[Len(w) + 1] = pkt
  BY <1>1, AppendProperties
<1>3. LengthOf(pkt) \in Nat /\ HeaderLen \in Nat
  BY PayloadIs, FramingAssumption
<1>4. WireLen(pkt) \in Nat
  BY <1>3 DEF WireLen
<1>5. PICK l \in Nat : l = Len(w)
  BY <1>1
<1>6. cut \in [1 .. l + 1 -> Nat] /\ cut[l + 1] \in Nat
  BY <1>1, <1>5
<1>7. CutAfter(w, cut, pkt)
        = [k \in 1 .. l + 2 |-> IF k <= l + 1 THEN cut[k] ELSE cut[l + 1] + WireLen(pkt)]
  BY <1>5 DEF CutAfter
<1>8. /\ CutAfter(w, cut, pkt) \in [1 .. l + 2 -> Nat]
      /\ \A k \in 1 .. l + 1 : CutAfter(w, cut, pkt)[k] = cut[k]
      /\ CutAfter(w, cut, pkt)[l + 2] = cut[l + 1] + WireLen(pkt)
  BY <1>4, <1>6, <1>7
<1> QED  BY <1>2, <1>5, <1>8

LEMMA LaidAppended ==
  ASSUME NEW T, NEW w, NEW cut, Laid(T, w, cut), AllBegun(T, w, cut),
         NEW pkt \in Packet, NEW end \in Nat, end = cut[Len(w) + 1],
         Len(T) = end + WireLen(pkt),
         \A j \in 1 .. WireLen(pkt) : T[end + j] = WireByte(pkt, j)
  PROVE  /\ Laid(T, Append(w, pkt), CutAfter(w, cut, pkt))
         /\ AllBegun(T, Append(w, pkt), CutAfter(w, cut, pkt))
         /\ CutAfter(w, cut, pkt)[Len(Append(w, pkt)) + 1] = Len(T)
<1>1. PICK v, cuts : v = Append(w, pkt) /\ cuts = CutAfter(w, cut, pkt)
  OBVIOUS
<1>2. /\ v \in Seq(Packet) /\ Len(v) = Len(w) + 1
      /\ \A k \in 1 .. Len(w) : v[k] = w[k]
      /\ v[Len(w) + 1] = pkt
      /\ cuts \in [1 .. Len(w) + 2 -> Nat]
      /\ \A k \in 1 .. Len(w) + 1 : cuts[k] = cut[k]
      /\ cuts[Len(w) + 2] = cut[Len(w) + 1] + WireLen(pkt)
  BY <1>1, CutIs
<1>3. PICK l \in Nat : l = Len(w)
  BY LenProperties DEF Laid
<1>4. /\ Len(v) = l + 1 /\ \A k \in 1 .. l : v[k] = w[k]
      /\ v[l + 1] = pkt /\ cuts \in [1 .. l + 2 -> Nat]
      /\ \A k \in 1 .. l + 1 : cuts[k] = cut[k]
      /\ cuts[l + 1] = end /\ cuts[l + 2] = end + WireLen(pkt)
      /\ cuts[l + 2] = Len(T) /\ T \in Seq(Byte)
  <2>1. l + 1 \in 1 .. l + 1
    OBVIOUS
  <2> QED  BY <1>2, <1>3, <2>1 DEF Laid
<1>5. ASSUME NEW k \in 1 .. l + 1
      PROVE  /\ cuts[k + 1] = cuts[k] + WireLen(v[k])
             /\ \A j \in 1 .. WireLen(v[k]) :
                  cuts[k] + j <= Len(T) => T[cuts[k] + j] = WireByte(v[k], j)
  <2>1. CASE k = l + 1
    <3>1. k + 1 = l + 2
      BY <2>1
    <3>2. v[k] = pkt /\ cuts[k] = end /\ cuts[k + 1] = end + WireLen(pkt)
      BY <1>4, <2>1, <3>1
    <3> QED  BY <3>2
  <2>2. CASE k # l + 1
    <3>1. k \in 1 .. l /\ k + 1 \in 1 .. l + 1
      BY <2>2
    <3>2. v[k] = w[k] /\ cuts[k] = cut[k] /\ cuts[k + 1] = cut[k + 1]
      BY <1>4, <3>1
    <3> QED  BY <1>3, <3>1, <3>2 DEF Laid
  <2> QED  BY <2>1, <2>2
<1>6. ASSUME NEW k \in 1 .. l + 2
      PROVE  cuts[k] <= Len(T)
  <2>1. CASE k = l + 2
    <3>1. cuts[k] = Len(T) /\ Len(T) \in Nat
      BY <1>4, <2>1, LenProperties
    <3> QED  BY <3>1
  <2>2. CASE k # l + 2
    <3>1. k \in 1 .. l + 1
      BY <2>2
    <3> QED  BY <1>3, <1>4, <3>1 DEF AllBegun
  <2> QED  BY <2>1, <2>2
<1>7. (l + 1) + 1 = l + 2
  OBVIOUS
<1>8. Laid(T, v, cuts) /\ AllBegun(T, v, cuts) /\ cuts[Len(v) + 1] = Len(T)
  BY <1>2, <1>4, <1>5, <1>6, <1>7 DEF Laid, AllBegun
<1> QED  BY <1>1, <1>8

LEMMA StageAppended ==
  ASSUME NEW T, NEW w, NEW cut, Laid(T, w, cut), NEW pkt \in Packet,
         NEW n, NEW left, NEW at, Stage(T, w, cut, n, left, at)
  PROVE  Stage(T, Append(w, pkt), CutAfter(w, cut, pkt), n, left, at)
<1>1. PICK v, cuts : v = Append(w, pkt) /\ cuts = CutAfter(w, cut, pkt)
  OBVIOUS
<1>2. /\ Len(v) = Len(w) + 1
      /\ \A k \in 1 .. Len(w) : v[k] = w[k]
      /\ \A k \in 1 .. Len(w) + 1 : cuts[k] = cut[k]
  BY <1>1, CutIs
<1>3. Len(w) \in Nat /\ n \in 0 .. Len(w)
  BY LenProperties DEF Laid, Stage
<1>4. /\ n \in 0 .. Len(v) /\ cuts[n + 1] = cut[n + 1]
      /\ n < Len(w) => n < Len(v) /\ v[n + 1] = w[n + 1]
  BY <1>2, <1>3
<1>5. Stage(T, v, cuts, n, left, at)
  BY <1>4 DEF Stage
<1> QED  BY <1>1, <1>5

(* The first bytes of a window.                                            *)
LEMMA WindowHead ==
  ASSUME NEW T, NEW c, NEW buffer, Window(buffer, T, c), NEW m \in 0 .. Len(buffer)
  PROVE  /\ Window(SubSeq(buffer, 1, m), T, c)
         /\ Len(SubSeq(buffer, 1, m)) = m
<1>1. /\ buffer \in Seq(Byte) /\ Len(buffer) \in Nat /\ c \in Nat
      /\ c + Len(buffer) <= Len(T) /\ m \in Nat /\ m <= Len(buffer)
  BY LenProperties DEF Window
<1>2. PICK one \in Nat \ {0} : one = 1
  OBVIOUS
<1>3. PICK part \in Seq(Byte) :
        /\ part = SubSeq(buffer, one, m)
        /\ Len(part) = IF one <= m THEN m - one + 1 ELSE 0
        /\ \A j \in 1 .. m - one + 1 : part[j] = buffer[one + j - 1]
  <2>1. /\ SubSeq(buffer, one, m) \in Seq(Byte)
        /\ Len(SubSeq(buffer, one, m)) = IF one <= m THEN m - one + 1 ELSE 0
        /\ \A j \in 1 .. m - one + 1 : SubSeq(buffer, one, m)[j] = buffer[one + j - 1]
    BY <1>1, PartOfBuffer
  <2> QED  BY <2>1
<1>4. Len(part) = m
  BY <1>1, <1>2, <1>3
<1>5. ASSUME NEW i \in 1 .. m
      PROVE  part[i] = T[c + i]
  <2>1. i \in 1 .. m - one + 1 /\ one + i - 1 = i /\ i \in 1 .. Len(buffer)
    BY <1>1, <1>2
  <2>2. part[i] = buffer[i]
    BY <1>3, <2>1
  <2> QED  BY <2>1, <2>2 DEF Window
<1>6. c + m <= Len(T)
  <2>1. Window(buffer, T, c) => c + Len(buffer) <= Len(T)
    BY DEF Window
  <2>2. PICK y \in Nat : y = Len(buffer)
    BY <1>1
  <2> QED  BY <1>1, <2>2
<1>7. Window(part, T, c)
  BY <1>1, <1>4, <1>5, <1>6 DEF Window
<1> QED  BY <1>2, <1>3, <1>4, <1>7

-----------------------------------------------------------------------------
(* One direction of the connection.                                        *)

(* T is everything the writer has written and has begun to write: the       *)
(* reader has read at bytes of it, sock holds those up to end, and unw, the *)
(* rest of a payload, follows as long as the writer lives.  The reader is in*)
(* step, or it has passed the end of w on a stream with a garbled header.   *)
Along(T, cut, at, end, sock, unw, alive, w, g, left, n) ==
  /\ Laid(T, w, cut) /\ AllBegun(T, w, cut)
  /\ g \/ Len(T) = cut[Len(w) + 1]
  /\ end = at + Len(sock) /\ Window(sock, T, at)
  /\ Stage(T, w, cut, n, left, at) \/ (g /\ n >= Len(w))
  /\ alive => Window(unw, T, end) /\ Len(T) = end + Len(unw)

InStep(sock, unw, alive, w, g, left, n) ==
  \E T, cut : \E at, end \in Nat :
    Along(T, cut, at, end, sock, unw, alive, w, g, left, n)

LEMMA AlongTypes ==
  ASSUME NEW T, NEW cut, NEW at, NEW end, NEW sock, NEW unw, NEW alive, NEW w,
         NEW g, NEW left, NEW n,
         Along(T, cut, at, end, sock, unw, alive, w, g, left, n)
  PROVE  /\ T \in Seq(Byte) /\ Len(T) \in Nat /\ sock \in Seq(Byte)
         /\ Len(sock) \in Nat /\ w \in Seq(Packet) /\ Len(w) \in Nat
         /\ cut[Len(w) + 1] \in Nat /\ at \in Nat /\ end \in Nat
         /\ end <= Len(T)
<1>1. /\ T \in Seq(Byte) /\ sock \in Seq(Byte) /\ w \in Seq(Packet) /\ at \in Nat
      /\ cut \in [1 .. Len(w) + 1 -> Nat] /\ end = at + Len(sock)
      /\ at + Len(sock) <= Len(T)
  BY DEF Along, Laid, Window
<1>2. Len(T) \in Nat /\ Len(sock) \in Nat /\ Len(w) \in Nat
  BY <1>1, LenProperties
<1>3. cut[Len(w) + 1] \in Nat /\ end \in Nat /\ end <= Len(T)
  BY <1>1, <1>2
<1> QED  BY <1>1, <1>2, <1>3

(* What reading a chunk, that leaves tail behind, does to a reader.        *)
Advance(tail, unw, alive, w, g, n, res) ==
  /\ n + Len(res.pairs) <= Len(w) \/ g
  /\ \A i \in 1 .. Len(res.pairs) : n + i <= Len(w) =>
       res.pairs[i] = Pair(w[n + i], PayloadOf[w[n + i]])
  /\ ~res.panic => InStep(tail, unw, alive, w, g, res.rest, n + Len(res.pairs))

LEMMA ReadInStep ==
  ASSUME NEW sock, NEW unw, NEW alive \in BOOLEAN, NEW w, NEW g \in BOOLEAN,
         NEW left \in Rest, NEW n \in Nat,
         InStep(sock, unw, alive, w, g, left, n),
         NEW size, size \in 1 .. Len(sock),
         NEW chunk, chunk = SubSeq(sock, 1, size),
         NEW tail, tail = SubSeq(sock, size + 1, Len(sock)),
         NEW res, res = Absorb(left, chunk)
  PROVE  Advance(tail, unw, alive, w, g, n, res)
<1>1. PICK T, cut : \E at, end \in Nat :
        Along(T, cut, at, end, sock, unw, alive, w, g, left, n)
  BY DEF InStep
<1>2. PICK at \in Nat, end \in Nat :
        Along(T, cut, at, end, sock, unw, alive, w, g, left, n)
  BY <1>1
<1>3. /\ T \in Seq(Byte) /\ Len(T) \in Nat /\ sock \in Seq(Byte)
      /\ Len(sock) \in Nat /\ w \in Seq(Packet) /\ Len(w) \in Nat
      /\ cut[Len(w) + 1] \in Nat /\ end <= Len(T) /\ end = at + Len(sock)
  BY <1>2, AlongTypes DEF Along
<1>4. PICK mid \in Nat : mid = at + size
  OBVIOUS
<1>5. /\ Window(chunk, T, at) /\ Len(chunk) = size
      /\ Window(tail, T, mid) /\ Len(tail) = Len(sock) - size
  <2>1. Window(sock, T, at) /\ size \in 0 .. Len(sock)
    BY <1>2, <1>3 DEF Along
  <2>2. Window(chunk, T, at) /\ Len(chunk) = size
    BY <2>1, WindowHead
  <2>3. Window(SubSeq(sock, size + 1, Len(sock)), T, mid)
    BY <1>4, <2>1, WindowTail
  <2>4. Len(SubSeq(sock, size + 1, Len(sock))) = Len(sock) - size
    BY <1>4, <2>1, WindowTail
  <2> QED  BY <2>2, <2>3, <2>4
<1>6. chunk \in Seq(Byte) /\ chunk # <<>> /\ mid = at + Len(chunk)
  <2>1. Len(chunk) = size /\ size # 0
    BY <1>3, <1>5
  <2>2. Len(chunk) # 0
    BY <2>1
  <2>3. mid = at + Len(chunk)
    BY <1>4, <2>1
  <2> QED  BY <1>5, <2>2, <2>3, EmptySeq DEF Window
<1>7. mid <= Len(T) /\ end = mid + Len(tail)
  <2>1. PICK x, y : x = Len(sock) /\ y = Len(tail)
    OBVIOUS
  <2>2. x \in Nat /\ y = x - size /\ size <= x /\ size \in Nat /\ end = at + x
    BY <1>3, <1>5, <2>1
  <2>3. mid <= end /\ end = mid + y
    BY <1>4, <2>2
  <2>4. mid <= Len(T)
    <3>1. PICK z \in Nat : z = Len(T) /\ end <= z
      BY <1>3
    <3>2. mid <= z
      BY <2>3, <3>1
    <3> QED  BY <3>1, <3>2
  <2>5. end = mid + Len(tail)
    BY <2>1, <2>3
  <2> QED  BY <2>4, <2>5
<1>8. /\ res \in Result /\ res.pairs \in Seq(FoundPair) /\ Len(res.pairs) \in Nat
      /\ res.panic => res.pairs = <<>>
  <2>1. res \in Result
    BY <1>6, AbsorbType
  <2> QED  BY <2>1, LenProperties DEF Result
<1>9. PICK m \in Nat : m = n + Len(res.pairs)
  BY <1>8
<1>10. ASSUME g, m >= Len(w)
       PROVE  InStep(tail, unw, alive, w, g, res.rest, m)
  <2>1. Along(T, cut, mid, end, tail, unw, alive, w, g, res.rest, m)
    BY <1>2, <1>5, <1>7, <1>10 DEF Along
  <2> QED  BY <2>1 DEF InStep
<1>11. ASSUME Stage(T, w, cut, m, res.rest, mid)
       PROVE  InStep(tail, unw, alive, w, g, res.rest, m)
  <2>1. Stage(T, w, cut, m, res.rest, mid) \/ (g /\ m >= Len(w))
    BY <1>11
  <2>2. /\ Laid(T, w, cut) /\ AllBegun(T, w, cut)
        /\ g \/ Len(T) = cut[Len(w) + 1]
        /\ alive => Window(unw, T, end) /\ Len(T) = end + Len(unw)
    BY <1>2 DEF Along
  <2>3. Along(T, cut, mid, end, tail, unw, alive, w, g, res.rest, m)
    BY <1>5, <1>7, <2>1, <2>2 DEF Along
  <2> QED  BY <2>3 DEF InStep
<1>12. CASE Stage(T, w, cut, n, left, at)
  <2>1. Outcome(T, w, cut, n, res, mid)
    <3>1. Laid(T, w, cut) /\ left.kind \in {"none", "header", "payload"}
      BY <1>2, RestTypes DEF Along
    <3>2. Outcome(T, w, cut, n, Absorb(left, chunk), mid)
      BY <1>5, <1>6, <1>12, <3>1, AbsorbInStep
    <3> QED  BY <3>2
  <2>2. n <= Len(w)
    BY <1>3, <1>12 DEF Stage
  <2>3. \/ res.panic
        \/ Stage(T, w, cut, m, res.rest, mid)
        \/ m >= Len(w) /\ mid > cut[Len(w) + 1]
    BY <1>9, <2>1 DEF Outcome
  <2>4. \A i \in 1 .. Len(res.pairs) : n + i <= Len(w) =>
          res.pairs[i] = Pair(w[n + i], PayloadOf[w[n + i]])
    BY <2>1 DEF Outcome
  <2>5. CASE res.panic
    <3>1. Len(res.pairs) = 0
      BY <1>8, <2>5, EmptySeq
    <3>2. m <= Len(w)
      BY <1>9, <2>2, <3>1
    <3> QED  BY <1>9, <2>4, <2>5, <3>2 DEF Advance
  <2>6. CASE Stage(T, w, cut, m, res.rest, mid)
    <3>1. m <= Len(w)
      BY <1>3, <2>6 DEF Stage
    <3>2. InStep(tail, unw, alive, w, g, res.rest, m)
      BY <1>11, <2>6
    <3> QED  BY <1>9, <2>4, <3>1, <3>2 DEF Advance
  <2>7. CASE m >= Len(w) /\ mid > cut[Len(w) + 1]
    <3>1. g
      <4>1. g \/ Len(T) = cut[Len(w) + 1]
        BY <1>2 DEF Along
      <4>2. Len(T) # cut[Len(w) + 1]
        BY <1>3, <1>7, <2>7
      <4> QED  BY <4>1, <4>2
    <3>2. InStep(tail, unw, alive, w, g, res.rest, m)
      BY <1>10, <2>7, <3>1
    <3> QED  BY <1>9, <2>4, <3>1, <3>2 DEF Advance
  <2> QED  BY <2>3, <2>5, <2>6, <2>7
<1>13. CASE g /\ n >= Len(w)
  <2>1. m >= Len(w) /\ \A i \in 1 .. Len(res.pairs) : ~(n + i <= Len(w))
    BY <1>3, <1>8, <1>9, <1>13
  <2>2. InStep(tail, unw, alive, w, g, res.rest, m)
    BY <1>10, <1>13, <2>1
  <2> QED  BY <1>9, <1>13, <2>1, <2>2 DEF Advance
<1>14. Stage(T, w, cut, n, left, at) \/ (g /\ n >= Len(w))
  BY <1>2 DEF Along
<1> QED  BY <1>12, <1>13, <1>14

(* The writer of a direction ends, and some of its last bytes are lost.    *)
LEMMA ExitInStep ==
  ASSUME NEW sock, NEW unw, NEW alive \in BOOLEAN, NEW w, NEW g \in BOOLEAN,
         NEW left, NEW n, InStep(sock, unw, alive, w, g, left, n),
         NEW kept \in 0 .. Len(sock)
  PROVE  InStep(SubSeq(sock, 1, kept), unw, FALSE, w, g, left, n)
<1>1. PICK T, cut : \E at, end \in Nat :
        Along(T, cut, at, end, sock, unw, alive, w, g, left, n)
  BY DEF InStep
<1>2. PICK at \in Nat, end \in Nat :
        Along(T, cut, at, end, sock, unw, alive, w, g, left, n)
  BY <1>1
<1>3. PICK part : part = SubSeq(sock, 1, kept)
  OBVIOUS
<1>4. Window(part, T, at) /\ Len(part) = kept
  BY <1>2, <1>3, WindowHead DEF Along
<1>5. kept \in Nat
  BY <1>2, AlongTypes
<1>6. PICK last \in Nat : last = at + Len(part)
  BY <1>4, <1>5
<1>7. Along(T, cut, at, last, part, unw, FALSE, w, g, left, n)
  BY <1>2, <1>4, <1>6 DEF Along
<1> QED  BY <1>3, <1>7 DEF InStep

(* The writer writes m more bytes of a payload.                            *)
LEMMA PayloadInStep ==
  ASSUME NEW sock, NEW unw, NEW w, NEW g \in BOOLEAN, NEW left, NEW n,
         InStep(sock, unw, TRUE, w, g, left, n),
         NEW m, m \in 0 .. Len(unw)
  PROVE  InStep(sock \o SubSeq(unw, 1, m), SubSeq(unw, m + 1, Len(unw)),
                TRUE, w, g, left, n)
<1>1. PICK T, cut : \E at, end \in Nat :
        Along(T, cut, at, end, sock, unw, TRUE, w, g, left, n)
  BY DEF InStep
<1>2. PICK at \in Nat, end \in Nat :
        Along(T, cut, at, end, sock, unw, TRUE, w, g, left, n)
  BY <1>1
<1>3. /\ sock \in Seq(Byte) /\ Len(sock) \in Nat /\ end = at + Len(sock)
      /\ Window(sock, T, at) /\ Window(unw, T, end)
      /\ Len(T) = end + Len(unw) /\ Len(unw) \in Nat
  <2>1. Window(unw, T, end) /\ Len(T) = end + Len(unw)
    BY <1>2 DEF Along
  <2>2. Len(unw) \in Nat
    BY <2>1, LenProperties DEF Window
  <2> QED  BY <1>2, <2>1, <2>2, AlongTypes DEF Along
<1>4. PICK sent, tail : sent = SubSeq(unw, 1, m)
                        /\ tail = SubSeq(unw, m + 1, Len(unw))
  OBVIOUS
<1>5. PICK last \in Nat : last = end + m
  BY <1>3
<1>6. /\ Window(sent, T, end) /\ Len(sent) = m
      /\ Window(tail, T, last) /\ Len(tail) = Len(unw) - m
  <2>1. Window(SubSeq(unw, 1, m), T, end) /\ Len(SubSeq(unw, 1, m)) = m
    BY <1>3, WindowHead
  <2>2. Window(SubSeq(unw, m + 1, Len(unw)), T, last)
    BY <1>3, <1>5, WindowTail
  <2>3. Len(SubSeq(unw, m + 1, Len(unw))) = Len(unw) - m
    BY <1>3, <1>5, WindowTail
  <2> QED  BY <1>4, <2>1, <2>2, <2>3
<1>7. PICK more : more = sock \o sent
  OBVIOUS
<1>8. Window(more, T, at) /\ Len(more) = Len(sock) + Len(sent)
  <2>1. Matches(sock, T, at)
    BY <1>3 DEF Window, Matches
  <2>2. Window(sock \o sent, T, at)
    BY <1>3, <1>6, <2>1, WindowGrows
  <2>3. Len(sock \o sent) = Len(sock) + Len(sent)
    BY <1>3, <1>6, <2>1, WindowGrows
  <2> QED  BY <1>7, <2>2, <2>3
<1>9. last = at + Len(more) /\ Len(T) = last + Len(tail)
  BY <1>3, <1>5, <1>6, <1>8
<1>10. /\ Laid(T, w, cut) /\ AllBegun(T, w, cut)
       /\ g \/ Len(T) = cut[Len(w) + 1]
       /\ Stage(T, w, cut, n, left, at) \/ (g /\ n >= Len(w))
  BY <1>2 DEF Along
<1>11. Along(T, cut, at, last, more, tail, TRUE, w, g, left, n)
  BY <1>6, <1>8, <1>9, <1>10 DEF Along
<1> QED  BY <1>4, <1>7, <1>11 DEF InStep

(* Two pieces at the end of a stream.                                      *)
LEMMA Grown ==
  ASSUME NEW T \in Seq(Byte), NEW sent \in Seq(Byte), NEW payload \in Seq(Byte),
         NEW end \in Nat, end = Len(T), NEW last \in Nat, last = end + Len(sent)
  PROVE  \E U : /\ Extends(T, U) /\ Len(U) = last + Len(payload)
                /\ Window(sent, U, end) /\ Window(payload, U, last)
<1>1. PICK V \in Seq(Byte) : V = T \o sent
  BY ConcatProperties
<1>2. PICK U \in Seq(Byte) : U = V \o payload
  BY ConcatProperties
<1>3. Extends(T, V) /\ Len(V) = last /\ Window(sent, V, end)
  BY <1>1, Continued
<1>4. Extends(V, U) /\ Len(U) = last + Len(payload) /\ Window(payload, U, last)
  <2>1. /\ Extends(V, V \o payload) /\ Len(V \o payload) = Len(V) + Len(payload)
        /\ Window(payload, V \o payload, Len(V))
    BY Continued
  <2> QED  BY <1>2, <1>3, <2>1
<1>5. Window(sent, U, end)
  BY <1>3, <1>4, WindowExtends
<1>6. Extends(T, U)
  <2>1. /\ T \in Seq(Byte) /\ U \in Seq(Byte) /\ Len(T) \in Nat /\ Len(V) \in Nat
        /\ Len(U) \in Nat /\ Len(T) <= Len(V) /\ Len(V) <= Len(U)
    BY <1>3, <1>4, LenProperties DEF Extends
  <2>2. ASSUME NEW i \in 1 .. Len(T)
        PROVE  U[i] = T[i]
    <3>1. i \in 1 .. Len(V)
      BY <2>1
    <3> QED  BY <1>3, <1>4, <3>1 DEF Extends
  <2> QED  BY <2>1, <2>2 DEF Extends
<1> QED  BY <1>4, <1>5, <1>6

(* The writer writes m bytes of a header: all of it, or the stream is      *)
(* garbled from here on.                                                   *)
LEMMA HeaderInStep ==
  ASSUME NEW sock, NEW w, NEW g \in BOOLEAN, NEW left, NEW n, NEW pkt \in Packet,
         InStep(sock, <<>>, TRUE, w, g, left, n),
         NEW m \in 0 .. HeaderLen + 1,
         NEW g2 \in BOOLEAN, g2 = (g \/ m < HeaderLen + 1),
         NEW v, v = IF g2 THEN w ELSE Append(w, pkt)
  PROVE  InStep(sock \o SubSeq(HeaderText(pkt) \o <<Null>>, 1, m),
                PayloadOf[pkt], TRUE, v, g2, left, n)
<1>1. PICK T, cut : \E at, end \in Nat :
        Along(T, cut, at, end, sock, <<>>, TRUE, w, g, left, n)
  BY DEF InStep
<1>2. PICK at \in Nat, end \in Nat :
        Along(T, cut, at, end, sock, <<>>, TRUE, w, g, left, n)
  BY <1>1
<1>3. /\ sock \in Seq(Byte) /\ Len(sock) \in Nat /\ end = at + Len(sock)
      /\ Window(sock, T, at) /\ end = Len(T) /\ T \in Seq(Byte)
      /\ Laid(T, w, cut) /\ AllBegun(T, w, cut)
      /\ g \/ Len(T) = cut[Len(w) + 1]
      /\ Stage(T, w, cut, n, left, at) \/ (g /\ n >= Len(w))
  <2>1. Len(T) = end + Len(<<>>)
    BY <1>2 DEF Along
  <2>2. end = Len(T)
    BY <2>1, EmptySeq
  <2> QED  BY <1>2, <2>2, AlongTypes DEF Along
<1>4. PICK header \in Seq(Byte) :
        /\ header = HeaderText(pkt) \o <<Null>> /\ Len(header) = HeaderLen + 1
        /\ \A j \in 1 .. HeaderLen + 1 : header[j] = WireByte(pkt, j)
  BY WireIs
<1>5. PICK payload \in Seq(Byte) :
        /\ payload = PayloadOf[pkt] /\ Len(payload) = LengthOf(pkt)
        /\ \A j \in 1 .. LengthOf(pkt) : payload[j] = WireByte(pkt, HeaderLen + 1 + j)
  BY WireIs, PayloadIs
<1>6. HeaderLen \in Nat /\ LengthOf(pkt) \in Nat /\ m \in Nat
  BY PayloadIs, FramingAssumption
<1>7. PICK sent \in Seq(Byte) :
        /\ sent = SubSeq(header, 1, m) /\ Len(sent) = m
        /\ \A j \in 1 .. m : sent[j] = header[j]
  <2>1. PICK one \in Nat \ {0} : one = 1
    OBVIOUS
  <2>2. m <= Len(header)
    BY <1>4, <1>6
  <2>3. PICK part : part = SubSeq(header, one, m)
    OBVIOUS
  <2>4. /\ part \in Seq(Byte) /\ Len(part) = IF one <= m THEN m - one + 1 ELSE 0
        /\ \A j \in 1 .. m - one + 1 : part[j] = header[one + j - 1]
    <3>1. /\ SubSeq(header, one, m) \in Seq(Byte)
          /\ Len(SubSeq(header, one, m)) = IF one <= m THEN m - one + 1 ELSE 0
          /\ \A j \in 1 .. m - one + 1 :
               SubSeq(header, one, m)[j] = header[one + j - 1]
      BY <1>6, <2>2, PartOfBuffer
    <3> QED  BY <2>3, <3>1
  <2>5. /\ (IF one <= m THEN m - one + 1 ELSE 0) = m /\ m - one + 1 = m
        /\ \A j \in 1 .. m : one + j - 1 = j
    BY <1>6, <2>1
  <2> QED  BY <2>1, <2>3, <2>4, <2>5
<1>8. PICK last \in Nat : last = end + m /\ last = end + Len(sent)
  <2>1. PICK last \in Nat : last = end + m
    BY <1>6
  <2> QED  BY <1>7, <2>1
<1>9. PICK U : /\ Extends(T, U) /\ Len(U) = last + Len(payload)
               /\ Window(sent, U, end) /\ Window(payload, U, last)
  BY <1>3, <1>8, Grown
<1>10. PICK more : more = sock \o sent
  OBVIOUS
<1>11. Window(more, U, at) /\ last = at + Len(more)
  <2>1. Window(sock, U, at)
    BY <1>3, <1>9, WindowExtends
  <2>2. Matches(sock, U, at)
    BY <2>1 DEF Window, Matches
  <2>3. Window(more, U, at) /\ Len(more) = Len(sock) + Len(sent)
    BY <1>3, <1>9, <1>10, <2>2, WindowGrows
  <2>4. PICK x \in Nat, y \in Nat : x = Len(sock) /\ y = Len(sent)
    BY <1>3, <1>6, <1>7
  <2>5. end = at + x /\ last = end + y /\ Len(more) = x + y
    BY <1>3, <1>8, <2>3, <2>4
  <2>6. last = at + (x + y)
    BY <2>5
  <2> QED  BY <2>3, <2>5, <2>6
<1>12. Laid(U, w, cut) /\ AllBegun(U, w, cut)
  BY <1>3, <1>9, LaidExtends
<1>13. Stage(U, w, cut, n, left, at) \/ (g /\ n >= Len(w))
  <2>1. at <= Len(T)
    BY <1>3
  <2>2. Stage(T, w, cut, n, left, at) => Stage(U, w, cut, n, left, at)
    BY <1>3, <1>9, <2>1, StageExtends
  <2> QED  BY <1>3, <2>2
<1>14. CASE g2
  <2>1. v = w
    BY <1>14
  <2>2. Stage(U, w, cut, n, left, at) \/ (g2 /\ n >= Len(w))
    BY <1>13, <1>14
  <2>3. Along(U, cut, at, last, more, payload, TRUE, w, g2, left, n)
    BY <1>9, <1>11, <1>12, <1>14, <2>2 DEF Along
  <2>4. InStep(more, payload, TRUE, w, g2, left, n)
    BY <2>3 DEF InStep
  <2> QED  BY <1>4, <1>5, <1>7, <1>10, <2>1, <2>4
<1>15. CASE ~g2
  <2>1. ~g /\ m = HeaderLen + 1 /\ v = Append(w, pkt)
    <3>1. ~(g \/ m < HeaderLen + 1)
      BY <1>15
    <3>2. ~(m < HeaderLen + 1)
      BY <3>1
    <3>3. m = HeaderLen + 1
      BY <1>6, <3>2
    <3> QED  BY <1>15, <3>1, <3>3
  <2>2. end = cut[Len(w) + 1]
    BY <1>3, <2>1
  <2>3. Len(U) = end + WireLen(pkt) /\ last = end + HeaderLen + 1
    BY <1>5, <1>6, <1>7, <1>8, <1>9, <2>1 DEF WireLen
  <2>4. ASSUME NEW j \in 1 .. WireLen(pkt)
        PROVE  U[end + j] = WireByte(pkt, j)
    <3>1. CASE j <= HeaderLen + 1
      <4>1. j \in 1 .. HeaderLen + 1 /\ j \in 1 .. m /\ j \in 1 .. Len(sent)
        BY <1>6, <1>7, <2>1, <3>1
      <4>2. sent[j] = U[end + j]
        BY <1>9, <4>1 DEF Window
      <4> QED  BY <1>4, <1>7, <4>1, <4>2
    <3>2. CASE ~(j <= HeaderLen + 1)
      <4>1. PICK i : i = j - HeaderLen - 1
        OBVIOUS
      <4>2. j \in 1 .. HeaderLen + 1 + LengthOf(pkt)
        BY DEF WireLen
      <4>3. i \in 1 .. LengthOf(pkt) /\ HeaderLen + 1 + i = j /\ last + i = end + j
        BY <1>6, <2>3, <3>2, <4>1, <4>2
      <4>4. payload[i] = U[last + i]
        BY <1>5, <1>9, <4>3 DEF Window
      <4> QED  BY <1>5, <4>3, <4>4
    <3> QED  BY <3>1, <3>2
  <2>5. PICK cuts : cuts = CutAfter(w, cut, pkt)
    OBVIOUS
  <2>6. Laid(U, v, cuts) /\ AllBegun(U, v, cuts) /\ cuts[Len(v) + 1] = Len(U)
    <3>1. /\ Laid(U, Append(w, pkt), CutAfter(w, cut, pkt))
          /\ AllBegun(U, Append(w, pkt), CutAfter(w, cut, pkt))
          /\ CutAfter(w, cut, pkt)[Len(Append(w, pkt)) + 1] = Len(U)
      BY <1>12, <2>2, <2>3, <2>4, LaidAppended
    <3> QED  BY <2>1, <2>5, <3>1
  <2>7. Stage(U, v, cuts, n, left, at)
    BY <1>12, <1>13, <2>1, <2>5, StageAppended
  <2>8. Along(U, cuts, at, last, more, payload, TRUE, v, g2, left, n)
    BY <1>9, <1>11, <2>6, <2>7 DEF Along
  <2>9. InStep(more, payload, TRUE, v, g2, left, n)
    BY <2>8 DEF InStep
  <2> QED  BY <1>4, <1>5, <1>7, <1>10, <2>9
<1> QED  BY <1>14, <1>15

-----------------------------------------------------------------------------
(* The types, with what the handlers rely on: there is a packet when a      *)
(* header is written, and what is left over between two reads is well formed*)
Types ==
  /\ m_rx \in [Side -> Seq(Packet)]
  /\ pc \in [Side -> {"select", "header", "payload", "closed", "panicked"}]
  /\ current \in [Side -> Packet \cup {<<>>}]
  /\ \A s \in Side : pc[s] = "header" => current[s] \in Packet
  /\ unwritten \in [Side -> Seq(Byte)]
  /\ socket \in [Side -> Seq(Byte)]
  /\ \A s \in Side : Len(socket[s]) <= Capacity
  /\ write_ready \in [Side -> BOOLEAN]
  /\ rest \in [Side -> Rest]
  /\ received \in [Side -> Seq(FoundPair)]
  /\ garbled \in [Side -> BOOLEAN]
  /\ written \in [Side -> Seq(Packet)]

LEMMA TypesInit == Init => Types
<1> SUFFICES ASSUME Init
             PROVE  Types
  OBVIOUS
<1>1. NoRest \in Rest /\ <<>> \in Seq(Byte) /\ <<>> \in Seq(FoundPair)
      /\ <<>> \in Seq(Packet) /\ Len(<<>>) = 0 /\ Capacity \in Nat
  BY SessionAssumption, EmptySeq DEF Rest
<1>2. /\ m_rx \in [Side -> Seq(Packet)] /\ current \in [Side -> Packet \cup {<<>>}]
      /\ pc \in [Side -> {"select", "header", "payload", "closed", "panicked"}]
      /\ \A s \in Side : pc[s] = "select"
  BY SessionAssumption DEF Init
<1>3. /\ unwritten \in [Side -> Seq(Byte)] /\ socket \in [Side -> Seq(Byte)]
      /\ \A s \in Side : Len(socket[s]) <= Capacity
      /\ write_ready \in [Side -> BOOLEAN]
  BY <1>1 DEF Init
<1>4. /\ rest \in [Side -> Rest] /\ received \in [Side -> Seq(FoundPair)]
      /\ garbled \in [Side -> BOOLEAN] /\ written \in [Side -> Seq(Packet)]
  BY <1>1 DEF Init
<1> QED  BY <1>2, <1>3, <1>4 DEF Types

(* A part of a sequence of bytes, from its beginning or to its end.        *)
LEMMA PartTypes ==
  ASSUME NEW bytes \in Seq(Byte), NEW m \in 0 .. Len(bytes)
  PROVE  /\ SubSeq(bytes, 1, m) \in Seq(Byte) /\ Len(SubSeq(bytes, 1, m)) = m
         /\ SubSeq(bytes, m + 1, Len(bytes)) \in Seq(Byte)
         /\ Len(SubSeq(bytes, m + 1, Len(bytes))) = Len(bytes) - m
<1>1. PICK k : k = m
  OBVIOUS
<1>2. Len(bytes) \in Nat /\ k \in Nat /\ k <= Len(bytes) /\ k \in 0 .. Len(bytes)
  BY <1>1, LenProperties
<1>3. PICK zero \in Nat : zero = 0
  OBVIOUS
<1>4. Window(bytes, bytes, zero)
  BY <1>2, <1>3 DEF Window
<1>5. k = zero + k
  BY <1>2, <1>3
<1>6. Window(SubSeq(bytes, 1, k), bytes, zero) /\ Len(SubSeq(bytes, 1, k)) = k
  BY <1>2, <1>4, WindowHead
<1>7. Window(SubSeq(bytes, k + 1, Len(bytes)), bytes, k)
  BY <1>2, <1>4, <1>5, WindowTail
<1>8. Len(SubSeq(bytes, k + 1, Len(bytes))) = Len(bytes) - k
  BY <1>2, <1>4, <1>5, WindowTail
<1> QED  BY <1>1, <1>6, <1>7, <1>8 DEF Window

(* Bytes that fit are written to a socket.                                 *)
LEMMA Written ==
  ASSUME Types, NEW s \in Side, NEW bytes \in Seq(Byte), NEW m \in Nat,
         m <= Len(bytes), m <= Free(s),
         socket' = [socket EXCEPT ![s] = @ \o SubSeq(bytes, 1, m)]
  PROVE  socket' \in [Side -> Seq(Byte)]
         /\ \A r \in Side : Len(socket'[r]) <= Capacity
<1>1. /\ socket \in [Side -> Seq(Byte)] /\ Capacity \in Nat
      /\ \A r \in Side : Len(socket[r]) <= Capacity
  BY SessionAssumption DEF Types
<1>2. PICK sock, part : sock = socket[s] /\ part = SubSeq(bytes, 1, m)
  OBVIOUS
<1>3. sock \in Seq(Byte) /\ Len(sock) \in Nat /\ part \in Seq(Byte) /\ Len(part) = m
  <2>1. m \in 0 .. Len(bytes)
    BY LenProperties
  <2>2. part \in Seq(Byte) /\ Len(part) = m
    BY <1>2, <2>1, PartTypes
  <2> QED  BY <1>1, <1>2, <2>2, LenProperties
<1>4. PICK more : more = sock \o part
  OBVIOUS
<1>5. more \in Seq(Byte) /\ Len(more) = Len(sock) + m
  BY <1>3, <1>4, ConcatProperties
<1>6. Len(more) <= Capacity
  <2>1. m <= Capacity - Len(sock)
    BY <1>2 DEF Free
  <2> QED  BY <1>1, <1>3, <1>5, <2>1
<1>7. socket' = [socket EXCEPT ![s] = more]
  BY <1>1, <1>2, <1>4
<1> QED  BY <1>1, <1>5, <1>6, <1>7

(* Some bytes are left in a socket.                                        *)
LEMMA Shortened ==
  ASSUME Types, NEW s \in Side, NEW part \in Seq(Byte),
         Len(part) <= Len(socket[s]), socket' = [socket EXCEPT ![s] = part]
  PROVE  socket' \in [Side -> Seq(Byte)]
         /\ \A r \in Side : Len(socket'[r]) <= Capacity
<1>1. /\ socket \in [Side -> Seq(Byte)] /\ Capacity \in Nat
      /\ \A r \in Side : Len(socket[r]) <= Capacity
      /\ \A r \in Side : Len(socket[r]) \in Nat
  BY SessionAssumption, LenProperties DEF Types
<1>2. Len(part) \in Nat /\ Len(part) <= Capacity
  <2>1. Len(part) \in Nat
    BY LenProperties
  <2> QED  BY <1>1, <2>1
<1> QED  BY <1>1, <1>2

(* What a read makes of the types.                                         *)
LEMMA ReadTypes ==
  ASSUME Types, NEW s \in Side, NEW size \in 1 .. Capacity, Read(s, size)
  PROVE  Types'
<1>1. PICK o \in Side : o = Other(s)
  BY OtherSide
<1>2. PICK chunk, left, res : chunk = SubSeq(socket[o], 1, size)
                        /\ left = SubSeq(socket[o], size + 1, Len(socket[o]))
                        /\ res = Absorb(rest[s], chunk)
  OBVIOUS
<1>3. /\ pc[s] = "select" /\ size <= Len(socket[o])
      /\ socket' = [socket EXCEPT ![o] = left]
      /\ write_ready' = [write_ready EXCEPT ![o] = TRUE]
      /\ rest' = [rest EXCEPT ![s] = res.rest]
      /\ received' = [received EXCEPT ![s] = received[s] \o res.pairs]
      /\ pc' = [pc EXCEPT ![s] = IF res.panic THEN "panicked" ELSE pc[s]]
      /\ UNCHANGED write_vars
  BY <1>1, <1>2 DEF Read, Types
<1>4. /\ socket[o] \in Seq(Byte) /\ Len(socket[o]) \in Nat /\ rest[s] \in Rest
      /\ received[s] \in Seq(FoundPair) /\ Capacity \in Nat
  BY SessionAssumption, LenProperties DEF Types
<1>5. chunk \in Seq(Byte) /\ left \in Seq(Byte) /\ Len(left) <= Len(socket[o])
  <2>1. size \in 0 .. Len(socket[o]) /\ size \in Nat
    BY <1>3, <1>4
  <2>2. chunk \in Seq(Byte) /\ left \in Seq(Byte) /\ Len(left) = Len(socket[o]) - size
    BY <1>2, <1>4, <2>1, PartTypes
  <2> QED  BY <1>4, <2>1, <2>2
<1>6. res.rest \in Rest /\ res.pairs \in Seq(FoundPair)
  <2>1. res \in Result
    BY <1>2, <1>4, <1>5, AbsorbType
  <2> QED  BY <2>1 DEF Result
<1>7. received[s] \o res.pairs \in Seq(FoundPair)
  BY <1>4, <1>6, ConcatProperties
<1>8. socket' \in [Side -> Seq(Byte)] /\ \A r \in Side : Len(socket'[r]) <= Capacity
  BY <1>3, <1>5, Shortened
<1>9. /\ rest' \in [Side -> Rest] /\ received' \in [Side -> Seq(FoundPair)]
      /\ write_ready' \in [Side -> BOOLEAN]
  BY <1>3, <1>6, <1>7 DEF Types
<1>10. /\ pc' \in [Side -> {"select", "header", "payload", "closed", "panicked"}]
       /\ \A r \in Side : pc'[r] = "header" => pc[r] = "header"
  BY <1>3 DEF Types
<1> QED  BY <1>3, <1>8, <1>9, <1>10 DEF Types, write_vars, write_history

LEMMA WriteTypes ==
  ASSUME Types, NEW s \in Side, Write(s)
  PROVE  Types'
<1>1. CASE TakePacket(s)
  <2>1. m_rx[s] \in Seq(Packet) /\ m_rx[s] # <<>>
    BY <1>1 DEF TakePacket, Types
  <2>2. Head(m_rx[s]) \in Packet /\ Tail(m_rx[s]) \in Seq(Packet)
    BY <2>1, HeadTailProperties
  <2>3. /\ m_rx' \in [Side -> Seq(Packet)] /\ current' \in [Side -> Packet \cup {<<>>}]
        /\ pc' \in [Side -> {"select", "header", "payload", "closed", "panicked"}]
        /\ \A r \in Side : pc'[r] = "header" => current'[r] \in Packet
    BY <1>1, <2>2 DEF TakePacket, Types
  <2> QED  BY <1>1, <2>3 DEF TakePacket, Types, write_history, read_vars
<1>2. CASE WriteHeader(s)
  <2>1. PICK pkt, header : pkt = current[s] /\ header = HeaderText(pkt) \o <<Null>>
    OBVIOUS
  <2>2. PICK m : m = IF Len(header) <= Free(s) THEN Len(header) ELSE Free(s)
    OBVIOUS
  <2>3. /\ pc[s] = "header" /\ m > 0
        /\ socket' = [socket EXCEPT ![s] = @ \o SubSeq(header, 1, m)]
        /\ garbled' = [garbled EXCEPT ![s] = @ \/ m < Len(header)]
        /\ written' = [written EXCEPT ![s] =
                         IF garbled'[s] THEN @ ELSE Append(@, pkt)]
        /\ unwritten' = [unwritten EXCEPT ![s] = PayloadOf[pkt]]
        /\ pc' = [pc EXCEPT ![s] =
                    IF PayloadOf[pkt] = <<>> THEN "select" ELSE "payload"]
        /\ UNCHANGED <<m_rx, current, read_vars, write_ready>>
    BY <1>2, <2>1, <2>2 DEF WriteHeader
  <2>4. pkt \in Packet
    BY <2>1, <2>3 DEF Types
  <2>5. /\ header \in Seq(Byte) /\ Len(header) = HeaderLen + 1 /\ HeaderLen \in Nat
        /\ PayloadOf[pkt] \in Seq(Byte)
    BY <2>1, <2>4, WireIs, PayloadIs, FramingAssumption
  <2>6. Free(s) \in Nat
    <3>1. /\ Len(socket[s]) \in Nat /\ Capacity \in Nat /\ Len(socket[s]) <= Capacity
      BY SessionAssumption, LenProperties DEF Types
    <3> QED  BY <3>1 DEF Free
  <2>7. m \in Nat /\ m <= Len(header) /\ m <= Free(s)
    BY <2>2, <2>5, <2>6
  <2>8. socket' \in [Side -> Seq(Byte)] /\ \A r \in Side : Len(socket'[r]) <= Capacity
    BY <2>3, <2>5, <2>7, Written
  <2>9. unwritten' \in [Side -> Seq(Byte)] /\ garbled' \in [Side -> BOOLEAN]
    BY <2>3, <2>5 DEF Types
  <2>10. written' \in [Side -> Seq(Packet)]
    <3>1. Append(written[s], pkt) \in Seq(Packet)
      BY <2>4, AppendProperties DEF Types
    <3> QED  BY <2>3, <3>1 DEF Types
  <2>11. /\ pc' \in [Side -> {"select", "header", "payload", "closed", "panicked"}]
         /\ \A r \in Side : pc'[r] = "header" => pc[r] = "header"
    BY <2>3 DEF Types
  <2> QED  BY <2>3, <2>8, <2>9, <2>10, <2>11 DEF Types, read_vars
<1>3. CASE WriteHeaderBlocked(s)
  BY <1>3 DEF WriteHeaderBlocked, Types, write_vars, write_history, read_vars
<1>4. CASE WritePayload(s)
  <2>1. PICK bytes, m :
          /\ bytes = unwritten[s]
          /\ m = IF Len(bytes) <= Free(s) THEN Len(bytes) ELSE Free(s)
    OBVIOUS
  <2>2. /\ pc[s] = "payload" /\ m > 0
        /\ socket' = [socket EXCEPT ![s] = @ \o SubSeq(bytes, 1, m)]
        /\ unwritten' = [unwritten EXCEPT ![s] = SubSeq(@, m + 1, Len(@))]
        /\ pc' = [pc EXCEPT ![s] = IF m = Len(bytes) THEN "select" ELSE @]
        /\ UNCHANGED <<m_rx, current, write_history, read_vars, write_ready>>
    BY <1>4, <2>1 DEF WritePayload
  <2>3. Free(s) \in Nat
    <3>1. /\ Len(socket[s]) \in Nat /\ Capacity \in Nat /\ Len(socket[s]) <= Capacity
      BY SessionAssumption, LenProperties DEF Types
    <3> QED  BY <3>1 DEF Free
  <2>4. /\ bytes \in Seq(Byte) /\ Len(bytes) \in Nat
        /\ m \in Nat /\ m <= Len(bytes) /\ m <= Free(s)
    <3>1. bytes \in Seq(Byte) /\ Len(bytes) \in Nat
      BY <2>1, LenProperties DEF Types
    <3> QED  BY <2>1, <2>3, <3>1
  <2>5. socket' \in [Side -> Seq(Byte)] /\ \A r \in Side : Len(socket'[r]) <= Capacity
    BY <2>2, <2>4, Written
  <2>6. SubSeq(bytes, m + 1, Len(bytes)) \in Seq(Byte)
    <3>1. m \in 0 .. Len(bytes)
      BY <2>4
    <3> QED  BY <2>4, <3>1, PartTypes
  <2>7. unwritten' \in [Side -> Seq(Byte)]
    <3>1. PICK tail \in Seq(Byte) : tail = SubSeq(bytes, m + 1, Len(bytes))
      BY <2>6
    <3>2. unwritten' = [unwritten EXCEPT ![s] = tail]
      BY <2>1, <2>2, <3>1 DEF Types
    <3> QED  BY <3>2 DEF Types
  <2>8. /\ pc' \in [Side -> {"select", "header", "payload", "closed", "panicked"}]
        /\ \A r \in Side : pc'[r] = "header" => pc[r] = "header"
    BY <2>2 DEF Types
  <2> QED  BY <2>2, <2>5, <2>7, <2>8 DEF Types, write_history, read_vars
<1>5. CASE WritePayloadBlocked(s)
  BY <1>5 DEF WritePayloadBlocked, Types, write_vars, write_history, read_vars
<1>6. CASE WriteError(s)
  BY <1>6 DEF WriteError, Types, write_vars, write_history, read_vars
<1> QED  BY <1>1, <1>2, <1>3, <1>4, <1>5, <1>6 DEF Write

LEMMA TypesNext == Types /\ [Next]_vars => Types'
<1> SUFFICES ASSUME Types, [Next]_vars
             PROVE  Types'
  OBVIOUS
<1>1. ASSUME NEW s \in Side, ReadSome(s)
      PROVE  Types'
  BY <1>1, ReadTypes DEF ReadSome
<1>2. ASSUME NEW s \in Side, ReadEof(s)
      PROVE  Types'
  BY <1>2 DEF ReadEof, Types, write_vars, write_history, read_vars
<1>3. ASSUME NEW s \in Side, Write(s)
      PROVE  Types'
  BY <1>3, WriteTypes
<1>4. ASSUME NEW s \in Side, Exit(s)
      PROVE  Types'
  <2>1. PICK kept \in 0 .. Len(socket[s]) :
          socket' = [socket EXCEPT ![s] = SubSeq(@, 1, kept)]
    BY <1>4 DEF Exit
  <2>2. PICK part : part = SubSeq(socket[s], 1, kept)
    OBVIOUS
  <2>3. part \in Seq(Byte) /\ Len(part) <= Len(socket[s])
    <3>1. socket[s] \in Seq(Byte) /\ Len(socket[s]) \in Nat
      BY LenProperties DEF Types
    <3>2. part \in Seq(Byte) /\ Len(part) = kept
      BY <2>2, <3>1, PartTypes
    <3> QED  BY <3>1, <3>2
  <2>4. socket' = [socket EXCEPT ![s] = part]
    BY <2>1, <2>2 DEF Types
  <2>5. socket' \in [Side -> Seq(Byte)] /\ \A r \in Side : Len(socket'[r]) <= Capacity
    BY <2>3, <2>4, Shortened
  <2> QED  BY <1>4, <2>5 DEF Exit, Types, write_vars, write_history, read_vars
<1>5. CASE Idle \/ UNCHANGED vars
  BY <1>5 DEF Idle, vars, Types, write_vars, write_history, read_vars
<1> QED  BY <1>1, <1>2, <1>3, <1>4, <1>5 DEF Next

(* The types hold, and the socket of a direction never holds more than the  *)
(* kernel buffers: no write is taken for more than there was room for.      *)
THEOREM TcpTypeCorrect == Spec => []TypeOK
<1>1. Types => TypeOK
  <2> SUFFICES ASSUME Types
               PROVE  TypeOK
    OBVIOUS
  <2>1. \A s \in Side : rest[s].kind \in {"none", "header", "payload"}
    BY RestTypes DEF Types
  <2>2. ASSUME NEW s \in Side, NEW i \in DOMAIN received[s]
        PROVE  received[s][i].pkt \in Packet /\ received[s][i].bytes \in Seq(Byte)
    <3>1. received[s] \in Seq(FoundPair)
      BY DEF Types
    <3>2. received[s][i] \in FoundPair
      BY <3>1, <2>2, ElementOfSeq, LenProperties
    <3> QED  BY <3>2 DEF FoundPair
  <2> QED  BY <2>1, <2>2 DEF TypeOK, Types
<1> QED  BY <1>1, TypesInit, TypesNext, PTL DEF Spec

-----------------------------------------------------------------------------
(* Framing.                                                                *)

(* Side s reads what side o writes.                                        *)
Link(s, o) ==
  InStep(socket[o], unwritten[o], Alive(o), written[o], garbled[o], rest[s],
         Len(received[s]))

Handed(s, o) ==
  /\ Len(received[s]) <= Len(written[o]) \/ garbled[o]
  /\ \A i \in 1 .. Len(received[s]) : i <= Len(written[o]) =>
       received[s][i] = Pair(written[o][i], PayloadOf[written[o][i]])

(* Between two packets nothing of a payload is left, unless the payload was *)
(* given up because the other side is gone.                                 *)
Settled(s, o) ==
  Alive(s) /\ pc[o] \in {"select", "header"} => unwritten[o] = <<>>

Framing(s, o) == Handed(s, o) /\ Settled(s, o) /\ (Alive(s) => Link(s, o))

FramingInv ==
  Types /\ \A s, o \in Side : s # o => Framing(s, o)

(* A direction on which nothing is written or read, though its writer may   *)
(* end.                                                                     *)
LEMMA LinkKept ==
  ASSUME NEW s \in Side, NEW o \in Side, Link(s, o), Types, Types',
         socket'[o] = socket[o], unwritten'[o] = unwritten[o],
         written'[o] = written[o], garbled'[o] = garbled[o],
         rest'[s] = rest[s], received'[s] = received[s],
         Alive(o)' => Alive(o)
  PROVE  Link(s, o)'
<1>1. PICK a, b \in BOOLEAN : a = Alive(o) /\ b = Alive(o)'
  <2>1. Alive(o) \in BOOLEAN /\ Alive(o)' \in BOOLEAN
    BY DEF Alive
  <2> QED  BY <2>1
<1>2. InStep(socket[o], unwritten[o], a, written[o], garbled[o], rest[s],
             Len(received[s]))
  BY <1>1 DEF Link
<1>3. InStep(socket[o], unwritten[o], b, written[o], garbled[o], rest[s],
             Len(received[s]))
  <2>1. CASE b
    <3>1. a = b
      BY <1>1, <2>1
    <3> QED  BY <1>2, <3>1
  <2>2. CASE ~b
    <3>1. PICK T, cut : \E at, end \in Nat :
            Along(T, cut, at, end, socket[o], unwritten[o], a, written[o],
                  garbled[o], rest[s], Len(received[s]))
      BY <1>2 DEF InStep
    <3>2. PICK at \in Nat, end \in Nat :
            Along(T, cut, at, end, socket[o], unwritten[o], a, written[o],
                  garbled[o], rest[s], Len(received[s]))
      BY <3>1
    <3>3. Along(T, cut, at, end, socket[o], unwritten[o], b, written[o],
                garbled[o], rest[s], Len(received[s]))
      BY <2>2, <3>2 DEF Along
    <3> QED  BY <3>3 DEF InStep
  <2> QED  BY <2>1, <2>2
<1> QED  BY <1>1, <1>3 DEF Link

LEMMA FramingKept ==
  ASSUME NEW s \in Side, NEW o \in Side, Framing(s, o), Types, Types',
         socket'[o] = socket[o], unwritten'[o] = unwritten[o],
         written'[o] = written[o], garbled'[o] = garbled[o],
         rest'[s] = rest[s], received'[s] = received[s],
         Alive(o)' => Alive(o), Alive(s)' => Alive(s),
         Alive(s)' /\ pc'[o] \in {"select", "header"}
           => pc[o] \in {"select", "header"}
  PROVE  Framing(s, o)'
<1>1. Handed(s, o)'
  BY DEF Framing, Handed
<1>2. Settled(s, o)'
  BY DEF Framing, Settled
<1>3. Alive(s)' => Link(s, o)'
  BY LinkKept DEF Framing
<1> QED  BY <1>1, <1>2, <1>3 DEF Framing

LEMMA FramingInit ==
  ASSUME Init, NEW s \in Side, NEW o \in Side
  PROVE  Framing(s, o)
<1>1. /\ socket[o] = <<>> /\ unwritten[o] = <<>> /\ written[o] = <<>>
      /\ garbled[o] = FALSE /\ rest[s] = NoRest /\ received[s] = <<>>
  BY DEF Init
<1>2. PICK T : T = <<>>
  OBVIOUS
<1>3. PICK cut : cut = [k \in 1 .. 1 |-> 0]
  OBVIOUS
<1>4. PICK zero \in Nat : zero = 0
  OBVIOUS
<1>5. T \in Seq(Byte) /\ T \in Seq(Packet) /\ Len(T) = 0 /\ Len(T) = zero
  BY <1>2, <1>4, EmptySeq
<1>6. /\ cut \in [1 .. Len(T) + 1 -> Nat] /\ cut[Len(T) + 1] = zero
      /\ \A k \in 1 .. Len(T) + 1 : cut[k] <= Len(T)
      /\ 1 .. Len(T) = {}
  BY <1>3, <1>4, <1>5
<1>7. Laid(T, T, cut) /\ AllBegun(T, T, cut) /\ Window(T, T, zero)
  BY <1>4, <1>5, <1>6 DEF Laid, AllBegun, Window
<1>8. Stage(T, T, cut, zero, NoRest, zero)
  BY <1>4, <1>5, <1>6 DEF Stage
<1>9. Along(T, cut, zero, zero, T, T, Alive(o), T, FALSE, NoRest, zero)
  BY <1>4, <1>5, <1>6, <1>7, <1>8 DEF Along
<1>10. Link(s, o)
  <2>1. Len(received[s]) = zero
    BY <1>1, <1>2, <1>5
  <2>2. InStep(T, T, Alive(o), T, FALSE, NoRest, zero)
    BY <1>9 DEF InStep
  <2> QED  BY <1>1, <1>2, <2>1, <2>2 DEF Link
<1>11. Handed(s, o)
  BY <1>1, EmptySeq DEF Handed
<1> QED  BY <1>1, <1>10, <1>11 DEF Framing, Settled

(* The reader of a chunk stays in step.                                    *)
LEMMA ReadFraming ==
  ASSUME Types, Types', NEW s \in Side, NEW size \in 1 .. Capacity, Read(s, size),
         NEW o \in Side, s # o, Framing(s, o)
  PROVE  Framing(s, o)'
<1>1. o = Other(s)
  BY OtherSide
<1>2. PICK chunk, tail, res : chunk = SubSeq(socket[o], 1, size)
                        /\ tail = SubSeq(socket[o], size + 1, Len(socket[o]))
                        /\ res = Absorb(rest[s], chunk)
  OBVIOUS
<1>3. /\ pc[s] = "select" /\ size <= Len(socket[o])
      /\ socket' = [socket EXCEPT ![o] = tail]
      /\ rest' = [rest EXCEPT ![s] = res.rest]
      /\ received' = [received EXCEPT ![s] = received[s] \o res.pairs]
      /\ pc' = [pc EXCEPT ![s] = IF res.panic THEN "panicked" ELSE pc[s]]
      /\ UNCHANGED write_vars
  BY <1>1, <1>2 DEF Read, Types
<1>4. /\ socket'[o] = tail /\ rest'[s] = res.rest
      /\ received'[s] = received[s] \o res.pairs /\ pc'[o] = pc[o]
      /\ pc'[s] = IF res.panic THEN "panicked" ELSE pc[s]
      /\ unwritten'[o] = unwritten[o] /\ written'[o] = written[o]
      /\ garbled'[o] = garbled[o]
  BY <1>3 DEF Types, write_vars, write_history
<1>5. /\ size \in Nat \ {0} /\ rest[s] \in Rest /\ garbled[o] \in BOOLEAN
      /\ received[s] \in Seq(FoundPair) /\ Len(received[s]) \in Nat
      /\ socket[o] \in Seq(Byte) /\ Len(socket[o]) \in Nat
  <2>1. size \in Nat \ {0}
    BY SessionAssumption
  <2>2. /\ rest[s] \in Rest /\ garbled[o] \in BOOLEAN
        /\ received[s] \in Seq(FoundPair) /\ socket[o] \in Seq(Byte)
    BY DEF Types
  <2> QED  BY <2>1, <2>2, LenProperties
<1>6. PICK n \in Nat : n = Len(received[s])
  BY <1>5
<1>7. PICK g \in BOOLEAN : g = garbled[o]
  BY <1>5
<1>8. PICK w : w = written[o]
  OBVIOUS
<1>9. PICK a \in BOOLEAN : a = Alive(o)
  <2>1. Alive(o) \in BOOLEAN
    BY DEF Alive
  <2> QED  BY <2>1
<1>10. InStep(socket[o], unwritten[o], a, w, g, rest[s], n)
  BY <1>3, <1>6, <1>7, <1>8, <1>9 DEF Framing, Link, Alive
<1>11. Advance(tail, unwritten[o], a, w, g, n, res)
  <2>1. PICK sock, unw, left : sock = socket[o] /\ unw = unwritten[o] /\ left = rest[s]
    OBVIOUS
  <2>2. /\ chunk = SubSeq(sock, 1, size) /\ tail = SubSeq(sock, size + 1, Len(sock))
        /\ res = Absorb(left, chunk) /\ size \in 1 .. Len(sock) /\ left \in Rest
    BY <1>2, <1>3, <1>5, <2>1
  <2>3. InStep(sock, unw, a, w, g, left, n)
    BY <1>10, <2>1
  <2>4. Advance(tail, unw, a, w, g, n, res)
    BY <2>2, <2>3, ReadInStep
  <2> QED  BY <2>1, <2>4
<1>12. res.pairs \in Seq(FoundPair) /\ Len(res.pairs) \in Nat
  <2>1. chunk \in Seq(Byte)
    <3>1. size \in 0 .. Len(socket[o])
      BY <1>3, <1>5
    <3> QED  BY <1>2, <1>5, <3>1, PartTypes
  <2>2. res \in Result
    BY <1>2, <1>5, <2>1, AbsorbType
  <2> QED  BY <2>2, LenProperties DEF Result
<1>13. PICK pairs : pairs = received[s] \o res.pairs
  OBVIOUS
<1>14. PICK m \in Nat : m = Len(res.pairs)
  BY <1>12
<1>15. /\ Len(pairs) = n + m
       /\ \A i \in 1 .. n + m : pairs[i] =
            IF i <= n THEN received[s][i] ELSE res.pairs[i - n]
  <2>1. PICK old, new \in Seq(FoundPair) : old = received[s] /\ new = res.pairs
    BY <1>5, <1>12
  <2>2. /\ Len(old \o new) = Len(old) + Len(new)
        /\ \A i \in 1 .. Len(old) + Len(new) : (old \o new)[i] =
             IF i <= Len(old) THEN old[i] ELSE new[i - Len(old)]
    BY ConcatProperties
  <2>3. Len(old) = n /\ Len(new) = m /\ pairs = old \o new
    BY <1>6, <1>13, <1>14, <2>1
  <2> QED  BY <2>1, <2>2, <2>3
<1>16. Handed(s, o)'
  <2>1. n + m <= Len(w) \/ g
    BY <1>11, <1>14 DEF Advance
  <2>2. ASSUME NEW i \in 1 .. n + m, i <= Len(w)
        PROVE  pairs[i] = Pair(w[i], PayloadOf[w[i]])
    <3>1. CASE i <= n
      <4>1. i \in 1 .. Len(received[s])
        BY <1>6, <3>1
      <4> QED  BY <1>7, <1>8, <1>15, <2>2, <3>1, <4>1 DEF Framing, Handed
    <3>2. CASE ~(i <= n)
      <4>1. PICK j : j = i - n
        OBVIOUS
      <4>2. j \in 1 .. m /\ n + j = i
        BY <3>2, <4>1
      <4>3. pairs[i] = res.pairs[j]
        BY <1>15, <3>2, <4>1
      <4> QED  BY <1>11, <1>14, <2>2, <4>2, <4>3 DEF Advance
    <3> QED  BY <3>1, <3>2
  <2>3. received'[s] = pairs /\ written'[o] = w /\ garbled'[o] = g
    BY <1>4, <1>7, <1>8, <1>13
  <2> QED  BY <1>15, <2>1, <2>2, <2>3 DEF Handed
<1>17. Settled(s, o)'
  BY <1>3, <1>4 DEF Framing, Settled, Alive
<1>18. ASSUME Alive(s)'
       PROVE  Link(s, o)'
  <2>1. ~res.panic
    BY <1>4, <1>18 DEF Alive
  <2>2. a = Alive(o)'
    BY <1>4, <1>9 DEF Alive
  <2>3. Len(received'[s]) = n + Len(res.pairs)
    BY <1>4, <1>13, <1>14, <1>15
  <2>4. InStep(tail, unwritten[o], a, w, g, res.rest, n + Len(res.pairs))
    BY <1>11, <2>1 DEF Advance
  <2> QED  BY <1>4, <1>7, <1>8, <2>2, <2>3, <2>4 DEF Link
<1> QED  BY <1>16, <1>17, <1>18 DEF Framing

(* A header, or the part of it there was room for.                         *)
LEMMA HeaderFraming ==
  ASSUME Types, Types', NEW s \in Side, NEW o \in Side, s # o, Framing(s, o),
         WriteHeader(o)
  PROVE  Framing(s, o)'
<1>1. s = Other(o)
  BY OtherSide
<1>2. PICK pkt, header : pkt = current[o] /\ header = HeaderText(pkt) \o <<Null>>
  OBVIOUS
<1>3. PICK m : m = IF Len(header) <= Free(o) THEN Len(header) ELSE Free(o)
  OBVIOUS
<1>4. /\ pc[o] = "header" /\ m > 0 /\ Alive(s)
      /\ socket' = [socket EXCEPT ![o] = @ \o SubSeq(header, 1, m)]
      /\ garbled' = [garbled EXCEPT ![o] = @ \/ m < Len(header)]
      /\ written' = [written EXCEPT ![o] =
                       IF garbled'[o] THEN @ ELSE Append(@, pkt)]
      /\ unwritten' = [unwritten EXCEPT ![o] = PayloadOf[pkt]]
      /\ pc' = [pc EXCEPT ![o] =
                  IF PayloadOf[pkt] = <<>> THEN "select" ELSE "payload"]
      /\ UNCHANGED <<rest, received>>
  BY <1>1, <1>2, <1>3 DEF WriteHeader, read_vars
<1>5. /\ pkt \in Packet /\ written[o] \in Seq(Packet) /\ Len(written[o]) \in Nat
      /\ Len(received[s]) \in Nat
  BY <1>2, <1>4, LenProperties DEF Types
<1>6. Len(header) = HeaderLen + 1 /\ HeaderLen \in Nat
  BY <1>2, <1>5, WireIs, FramingAssumption
<1>7. m \in 0 .. HeaderLen + 1
  <2>1. /\ Len(socket[o]) \in Nat /\ Capacity \in Nat /\ Len(socket[o]) <= Capacity
    BY SessionAssumption, LenProperties DEF Types
  <2>2. Free(o) \in Nat
    BY <2>1 DEF Free
  <2> QED  BY <1>3, <1>6, <2>2
<1>8. PICK g, g2 \in BOOLEAN : g = garbled[o] /\ g2 = garbled'[o]
  BY DEF Types
<1>9. PICK w, v : w = written[o] /\ v = written'[o]
  OBVIOUS
<1>10. /\ g2 = (g \/ m < HeaderLen + 1)
       /\ v = IF g2 THEN w ELSE Append(w, pkt)
  <2>1. garbled'[o] = (garbled[o] \/ m < Len(header))
    BY <1>4 DEF Types
  <2>2. written'[o] = IF garbled'[o] THEN written[o] ELSE Append(written[o], pkt)
    BY <1>4 DEF Types
  <2>3. g2 = (g \/ m < HeaderLen + 1)
    BY <1>6, <1>8, <2>1
  <2> QED  BY <1>8, <1>9, <2>2, <2>3
<1>11. InStep(socket[o], <<>>, TRUE, w, g, rest[s], Len(received[s]))
  <2>1. Alive(o) = TRUE
    BY <1>4 DEF Alive
  <2>2. unwritten[o] = <<>> /\ Link(s, o)
    BY <1>4 DEF Framing, Settled
  <2> QED  BY <1>8, <1>9, <2>1, <2>2 DEF Link
<1>12. PICK sock, left, n : sock = socket[o] /\ left = rest[s] /\ n = Len(received[s])
  OBVIOUS
<1>13. InStep(sock \o SubSeq(HeaderText(pkt) \o <<Null>>, 1, m), PayloadOf[pkt],
              TRUE, v, g2, left, n)
  <2>1. InStep(sock, <<>>, TRUE, w, g, left, n)
    BY <1>11, <1>12
  <2> QED  BY <1>5, <1>7, <1>8, <1>10, <2>1, HeaderInStep
<1>14. Link(s, o)'
  <2>1. Alive(o)' = TRUE
    BY <1>4 DEF Alive, Types
  <2>2. /\ socket'[o] = sock \o SubSeq(HeaderText(pkt) \o <<Null>>, 1, m)
        /\ unwritten'[o] = PayloadOf[pkt] /\ rest'[s] = left
        /\ Len(received'[s]) = n
    BY <1>2, <1>4, <1>12 DEF Types
  <2> QED  BY <1>8, <1>9, <1>13, <2>1, <2>2 DEF Link
<1>15. Settled(s, o)'
  <2>1. PayloadOf[pkt] # <<>> => pc'[o] = "payload"
    BY <1>4 DEF Types
  <2>2. unwritten'[o] = PayloadOf[pkt]
    BY <1>4 DEF Types
  <2> QED  BY <2>1, <2>2 DEF Settled
<1>16. Handed(s, o)'
  <2>1. received'[s] = received[s]
    BY <1>4
  <2>2. CASE g2
    <3>1. v = w
      BY <1>10, <2>2
    <3> QED  BY <1>8, <1>9, <2>1, <2>2, <3>1 DEF Framing, Handed
  <2>3. CASE ~g2
    <3>1. ~g /\ v = Append(w, pkt)
      BY <1>10, <2>3
    <3>2. Len(v) = Len(w) + 1 /\ \A i \in 1 .. Len(w) : v[i] = w[i]
      BY <1>5, <1>9, <3>1, AppendProperties
    <3>3. Len(received[s]) <= Len(w)
      BY <1>8, <1>9, <3>1 DEF Framing, Handed
    <3>4. Len(received[s]) <= Len(v)
      BY <1>5, <1>9, <3>2, <3>3
    <3>5. ASSUME NEW i \in 1 .. Len(received[s])
          PROVE  received[s][i] = Pair(v[i], PayloadOf[v[i]])
      <4>1. i \in 1 .. Len(w) /\ i <= Len(w)
        BY <1>5, <1>9, <3>3
      <4>2. received[s][i] = Pair(w[i], PayloadOf[w[i]])
        BY <1>9, <4>1 DEF Framing, Handed
      <4> QED  BY <3>2, <4>1, <4>2
    <3> QED  BY <1>9, <2>1, <3>4, <3>5 DEF Handed
  <2> QED  BY <2>2, <2>3
<1> QED  BY <1>14, <1>15, <1>16 DEF Framing

LEMMA PayloadFraming ==
  ASSUME Types, Types', NEW s \in Side, NEW o \in Side, s # o, Framing(s, o),
         WritePayload(o)
  PROVE  Framing(s, o)'
<1>1. s = Other(o)
  BY OtherSide
<1>2. PICK unw, m :
        /\ unw = unwritten[o]
        /\ m = IF Len(unw) <= Free(o) THEN Len(unw) ELSE Free(o)
  OBVIOUS
<1>3. /\ pc[o] = "payload" /\ Alive(s)
      /\ socket' = [socket EXCEPT ![o] = @ \o SubSeq(unw, 1, m)]
      /\ unwritten' = [unwritten EXCEPT ![o] = SubSeq(@, m + 1, Len(@))]
      /\ pc' = [pc EXCEPT ![o] = IF m = Len(unw) THEN "select" ELSE @]
      /\ UNCHANGED <<rest, received, garbled, written>>
  BY <1>1, <1>2 DEF WritePayload, read_vars, write_history
<1>4. unw \in Seq(Byte) /\ Len(unw) \in Nat /\ garbled[o] \in BOOLEAN
  BY <1>2, LenProperties DEF Types
<1>5. m \in 0 .. Len(unw)
  <2>1. /\ Len(socket[o]) \in Nat /\ Capacity \in Nat /\ Len(socket[o]) <= Capacity
    BY SessionAssumption, LenProperties DEF Types
  <2>2. Free(o) \in Nat
    BY <2>1 DEF Free
  <2> QED  BY <1>2, <1>4, <2>2
<1>6. PICK g \in BOOLEAN : g = garbled[o]
  BY <1>4
<1>7. PICK sock, w, left, n : /\ sock = socket[o] /\ w = written[o]
                              /\ left = rest[s] /\ n = Len(received[s])
  OBVIOUS
<1>8. InStep(sock, unw, TRUE, w, g, left, n)
  <2>1. Alive(o) = TRUE
    BY <1>3 DEF Alive
  <2> QED  BY <1>2, <1>3, <1>6, <1>7, <2>1 DEF Framing, Link
<1>9. InStep(sock \o SubSeq(unw, 1, m), SubSeq(unw, m + 1, Len(unw)), TRUE,
             w, g, left, n)
  BY <1>5, <1>8, PayloadInStep
<1>10. /\ socket'[o] = sock \o SubSeq(unw, 1, m)
       /\ unwritten'[o] = SubSeq(unw, m + 1, Len(unw))
       /\ written'[o] = w /\ garbled'[o] = g /\ rest'[s] = left
       /\ Len(received'[s]) = n
  BY <1>2, <1>3, <1>6, <1>7 DEF Types
<1>11. Link(s, o)'
  <2>1. Alive(o)' = TRUE
    BY <1>3 DEF Alive, Types
  <2> QED  BY <1>9, <1>10, <2>1 DEF Link
<1>12. Settled(s, o)'
  <2>1. CASE m = Len(unw)
    <3>1. PICK tail : tail = SubSeq(unw, m + 1, Len(unw))
      OBVIOUS
    <3>2. tail \in Seq(Byte) /\ Len(tail) = Len(unw) - m
      BY <1>4, <1>5, <3>1, PartTypes
    <3>3. tail = <<>>
      <4>1. Len(tail) = 0
        BY <1>4, <2>1, <3>2
      <4> QED  BY <3>2, <4>1, EmptySeq
    <3> QED  BY <1>10, <3>1, <3>3 DEF Settled
  <2>2. CASE m # Len(unw)
    <3>1. pc'[o] = "payload"
      BY <1>3, <2>2 DEF Types
    <3> QED  BY <3>1 DEF Settled
  <2> QED  BY <2>1, <2>2
<1>13. Handed(s, o)'
  BY <1>3 DEF Framing, Handed
<1> QED  BY <1>11, <1>12, <1>13 DEF Framing

LEMMA ExitFraming ==
  ASSUME Types, Types', NEW s \in Side, NEW o \in Side, s # o, Framing(s, o),
         Exit(o)
  PROVE  Framing(s, o)'
<1>1. PICK kept \in 0 .. Len(socket[o]) :
        socket' = [socket EXCEPT ![o] = SubSeq(@, 1, kept)]
  BY DEF Exit
<1>2. /\ pc' = [pc EXCEPT ![o] = "closed"]
      /\ UNCHANGED <<unwritten, written, garbled, rest, received>>
  BY DEF Exit, write_vars, write_history, read_vars
<1>3. PICK a, g \in BOOLEAN : a = Alive(o) /\ g = garbled[o]
  <2>1. Alive(o) \in BOOLEAN /\ garbled[o] \in BOOLEAN
    BY DEF Alive, Types
  <2> QED  BY <2>1
<1>4. PICK sock, unw, w, left, n :
        /\ sock = socket[o] /\ w = written[o] /\ unw = unwritten[o]
        /\ left = rest[s] /\ n = Len(received[s])
  OBVIOUS
<1>5. ASSUME Alive(s)
      PROVE  Link(s, o)'
  <2>1. InStep(sock, unw, a, w, g, left, n)
    BY <1>3, <1>4, <1>5 DEF Framing, Link
  <2>2. kept \in 0 .. Len(sock)
    BY <1>4
  <2>3. InStep(SubSeq(sock, 1, kept), unw, FALSE, w, g, left, n)
    BY <2>1, <2>2, ExitInStep
  <2>4. Alive(o)' = FALSE
    BY <1>2 DEF Alive, Types
  <2>5. /\ socket'[o] = SubSeq(sock, 1, kept) /\ unwritten'[o] = unw
        /\ written'[o] = w /\ garbled'[o] = g /\ rest'[s] = left
        /\ Len(received'[s]) = n
    BY <1>1, <1>2, <1>3, <1>4 DEF Types
  <2> QED  BY <2>3, <2>4, <2>5 DEF Link
<1>6. Alive(s)' => Alive(s)
  BY <1>2 DEF Alive, Types
<1>7. Settled(s, o)'
  BY <1>2 DEF Settled, Types
<1>8. Handed(s, o)'
  BY <1>2 DEF Framing, Handed
<1> QED  BY <1>5, <1>6, <1>7, <1>8 DEF Framing

LEMMA FramingNext ==
  ASSUME FramingInv, [Next]_vars
  PROVE  FramingInv'
<1>1. Types /\ Types'
  BY TypesNext DEF FramingInv
<1> SUFFICES ASSUME NEW s \in Side, NEW o \in Side, s # o
             PROVE  Framing(s, o)'
  BY <1>1 DEF FramingInv
<1>2. Framing(s, o) /\ s = Other(o) /\ o = Other(s)
  BY OtherSide DEF FramingInv
<1>3. \A x \in Side : x = s \/ x = o
  BY <1>2, OtherSide
<1>4. ASSUME NEW x \in Side, ReadSome(x)
      PROVE  Framing(s, o)'
  <2>1. PICK size \in 1 .. Capacity : Read(x, size)
    BY <1>4 DEF ReadSome
  <2>2. CASE x = s
    BY <1>1, <1>2, <2>1, <2>2, ReadFraming
  <2>3. CASE x = o
    <3>1. /\ socket'[o] = socket[o] /\ rest'[s] = rest[s]
          /\ received'[s] = received[s] /\ pc'[s] = pc[s]
          /\ pc'[o] \in {pc[o], "panicked"} /\ UNCHANGED write_vars
      BY <1>1, <1>2, <2>1, <2>3 DEF Read, Types
    <3> QED  BY <1>1, <1>2, <3>1, FramingKept DEF Alive, write_vars, write_history
  <2> QED  BY <1>3, <2>2, <2>3
<1>5. ASSUME NEW x \in Side, ReadEof(x)
      PROVE  Framing(s, o)'
  <2>1. /\ UNCHANGED <<write_vars, read_vars, socket>>
        /\ pc'[s] \in {pc[s], "closed"} /\ pc'[o] \in {pc[o], "closed"}
    BY <1>1, <1>5 DEF ReadEof, Types
  <2> QED  BY <1>1, <1>2, <2>1, FramingKept
           DEF Alive, write_vars, write_history, read_vars
<1>6. ASSUME NEW x \in Side, WriteHeader(x)
      PROVE  Framing(s, o)'
  <2>1. CASE x = o
    BY <1>1, <1>2, <1>6, <2>1, HeaderFraming
  <2>2. CASE x = s
    <3>1. /\ socket'[o] = socket[o] /\ unwritten'[o] = unwritten[o]
          /\ written'[o] = written[o] /\ garbled'[o] = garbled[o]
          /\ pc'[o] = pc[o] /\ pc[s] = "header"
          /\ rest'[s] = rest[s] /\ received'[s] = received[s]
      BY <1>1, <1>6, <2>2 DEF WriteHeader, read_vars, Types
    <3> QED  BY <1>1, <1>2, <3>1, FramingKept DEF Alive
  <2> QED  BY <1>3, <2>1, <2>2
<1>7. ASSUME NEW x \in Side, WritePayload(x)
      PROVE  Framing(s, o)'
  <2>1. CASE x = o
    BY <1>1, <1>2, <1>7, <2>1, PayloadFraming
  <2>2. CASE x = s
    <3>1. /\ socket'[o] = socket[o] /\ unwritten'[o] = unwritten[o]
          /\ written'[o] = written[o] /\ garbled'[o] = garbled[o]
          /\ pc'[o] = pc[o] /\ pc[s] = "payload"
          /\ rest'[s] = rest[s] /\ received'[s] = received[s]
      BY <1>1, <1>7, <2>2 DEF WritePayload, read_vars, write_history, Types
    <3> QED  BY <1>1, <1>2, <3>1, FramingKept DEF Alive
  <2> QED  BY <1>3, <2>1, <2>2
<1>8. ASSUME NEW x \in Side,
             TakePacket(x) \/ WriteHeaderBlocked(x) \/ WritePayloadBlocked(x)
      PROVE  Framing(s, o)'
  <2>1. /\ UNCHANGED <<unwritten, written, garbled, rest, received, socket>>
        /\ \A y \in Side : \/ pc'[y] = pc[y]
                           \/ /\ pc[y] \in {"select", "header"}
                              /\ pc'[y] \in {"select", "header"}
    BY <1>1, <1>8 DEF TakePacket, WriteHeaderBlocked, WritePayloadBlocked, Types,
                      write_vars, write_history, read_vars
  <2> QED  BY <1>1, <1>2, <2>1, FramingKept DEF Alive
<1>9. ASSUME NEW x \in Side, WriteError(x)
      PROVE  Framing(s, o)'
  <2>1. UNCHANGED <<unwritten, written, garbled, rest, received, socket>>
    BY <1>9 DEF WriteError, write_vars, write_history, read_vars
  <2>2. CASE x = o
    <3>1. ~Alive(s) /\ pc'[s] = pc[s] /\ Alive(o)
      BY <1>1, <1>2, <1>9, <2>2 DEF WriteError, Alive, Types
    <3> QED  BY <1>1, <1>2, <2>1, <3>1, FramingKept DEF Alive
  <2>3. CASE x = s
    <3>1. pc'[o] = pc[o] /\ pc[s] \in {"header", "payload"}
      BY <1>1, <1>2, <1>9, <2>3 DEF WriteError, Types
    <3> QED  BY <1>1, <1>2, <2>1, <3>1, FramingKept DEF Alive
  <2> QED  BY <1>3, <2>2, <2>3
<1>10. ASSUME NEW x \in Side, Exit(x)
       PROVE  Framing(s, o)'
  <2>1. CASE x = o
    BY <1>1, <1>2, <1>10, <2>1, ExitFraming
  <2>2. CASE x = s
    <3>1. /\ UNCHANGED <<unwritten, written, garbled, rest, received>>
          /\ socket'[o] = socket[o] /\ pc'[o] = pc[o] /\ Alive(s)
      BY <1>1, <1>10, <2>2 DEF Exit, write_vars, write_history, read_vars, Types
    <3> QED  BY <1>1, <1>2, <3>1, FramingKept DEF Alive
  <2> QED  BY <1>3, <2>1, <2>2
<1>11. CASE Idle \/ UNCHANGED vars
  <2>1. UNCHANGED <<pc, unwritten, written, garbled, rest, received, socket>>
    BY <1>11 DEF Idle, vars, write_vars, write_history, read_vars
  <2> QED  BY <1>1, <1>2, <2>1, FramingKept DEF Alive
<1> QED
  BY <1>4, <1>5, <1>6, <1>7, <1>8, <1>9, <1>10, <1>11 DEF Next, Write

(* Framing is lossless: whatever the sizes of the chunks, the packets and   *)
(* the sockets, what a side hands to its RIB is a prefix of what the other  *)
(* side wrote, each packet with its own payload, up to a header that was    *)
(* written in part.                                                         *)
THEOREM FramingLossless == Spec => []ReceivedIsPrefix
<1>1. Init => FramingInv
  BY TypesInit, FramingInit DEF FramingInv
<1>2. FramingInv /\ [Next]_vars => FramingInv'
  BY FramingNext
<1>3. FramingInv => ReceivedIsPrefix
  <2> SUFFICES ASSUME FramingInv, NEW s \in Side, NEW o, o = Other(s)
               PROVE  /\ Len(received[s]) <= Len(written[o]) \/ garbled[o]
                      /\ \A i \in DOMAIN received[s] \cap DOMAIN written[o] :
                           received[s][i] = Pair(written[o][i],
                                                 PayloadOf[written[o][i]])
    BY DEF ReceivedIsPrefix
  <2>1. o \in Side /\ Handed(s, o)
    BY OtherSide DEF FramingInv, Framing
  <2>2. received[s] \in Seq(FoundPair) /\ written[o] \in Seq(Packet)
    BY <2>1 DEF FramingInv, Types
  <2>3. /\ Len(received[s]) \in Nat /\ DOMAIN received[s] = 1 .. Len(received[s])
        /\ Len(written[o]) \in Nat /\ DOMAIN written[o] = 1 .. Len(written[o])
    BY <2>2, LenProperties
  <2> QED  BY <2>1, <2>3 DEF Handed
<1> QED  BY <1>1, <1>2, <1>3, PTL DEF Spec
=============================================================================
