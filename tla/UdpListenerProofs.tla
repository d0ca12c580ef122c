------------------------- MODULE UdpListenerProofs -------------------------
(* Theorems about UdpListener, for every set of addresses, channel length  *)
(* and number of datagrams.  The bound on the number of datagrams plays a  *)
(* part in ListenerTypeCorrect only; before that, a datagram's number is   *)
(* any natural number.                                                     *)
EXTENDS UdpListener, FiniteSetTheorems, SequenceTheorems, TLAPS

AnyDatagram == [from : Addr, number : Nat]

N == Len(peer_addr)

(* What the proofs need of the types: TypeOK without the bounds, and       *)
(* without accepted and failed, which no safety property speaks of.        *)
Typed ==
  /\ streams \in [Addr -> 0 .. N] /\ peer_addr \in Seq(Addr)
  /\ channel \in Seq(Seq(AnyDatagram)) /\ Len(channel) = N
  /\ got \in Seq(Seq(AnyDatagram)) /\ Len(got) = N
  /\ drop \in Seq(BOOLEAN) /\ Len(drop) = N
  /\ receiver \in Seq(BOOLEAN) /\ Len(receiver) = N
  /\ pc \in {"recv", "send", "offer"}
  /\ pc # "recv" => held \in AnyDatagram
  /\ seen \in [Addr -> Nat]
  /\ ended \subseteq 1 .. N

-----------------------------------------------------------------------------
(* One live stream.  The table knows every stream whose flag is not set,   *)
(* but for the one on offer, and while a stream is on offer its address    *)
(* has no entry.                                                           *)

OnOffer(st) == pc = "offer" /\ st = N

Tabled ==
  /\ \A a \in Addr : streams[a] # 0 => peer_addr[streams[a]] = a
  /\ \A st \in 1 .. N :
       drop[st] \/ streams[peer_addr[st]] = st \/ OnOffer(st)
  /\ \A st \in 1 .. N : receiver[st] \/ drop[st]
  /\ \A st \in ended : drop[st]
  /\ pc = "send" => streams[held.from] # 0
  /\ pc = "offer" =>
       N # 0 /\ held.from = peer_addr[N] /\ streams[held.from] = 0

TableInv == Typed /\ Tabled

LEMMA Indices ==
  ASSUME Typed
  PROVE  /\ N \in Nat /\ Stream = 1 .. N
         /\ DOMAIN channel = 1 .. N /\ DOMAIN got = 1 .. N
         /\ DOMAIN drop = 1 .. N /\ DOMAIN receiver = 1 .. N
         /\ \A st \in 1 .. N :
              /\ peer_addr[st] \in Addr
              /\ channel[st] \in Seq(AnyDatagram)
              /\ got[st] \in Seq(AnyDatagram)
              /\ drop[st] \in BOOLEAN /\ receiver[st] \in BOOLEAN
  BY LenProperties, ElementOfSeq DEF Typed, N, Stream

(* Tabled keeps a table from having two live streams of one address.       *)
LEMMA TableIsUnambiguous == TableInv => OneLiveStream
<1> SUFFICES ASSUME TableInv, NEW i \in 1 .. N, NEW j \in 1 .. N, i # j,
                    peer_addr[i] = peer_addr[j], ~drop[i], ~drop[j]
             PROVE  FALSE
  BY Indices DEF TableInv, OneLiveStream
<1>1. N \in Nat
  BY Indices DEF TableInv
<1>2. streams[peer_addr[i]] = i \/ OnOffer(i)
  BY DEF TableInv, Tabled
<1>3. streams[peer_addr[j]] = j \/ OnOffer(j)
  BY DEF TableInv, Tabled
<1> QED
  BY <1>1, <1>2, <1>3 DEF OnOffer, TableInv, Tabled

LEMMA TableInit == Init => TableInv
<1> SUFFICES ASSUME Init PROVE TableInv
  OBVIOUS
<1>1. N = 0
  BY DEF Init, N
<1>2. Typed
  BY <1>1, EmptySeq DEF Init, Typed
<1> QED  BY <1>1, <1>2 DEF Init, TableInv, Tabled

-----------------------------------------------------------------------------
(* The steps that create a stream, and those that do not.                  *)

Opens(a) ==
  LET datagram == [from |-> a, number |-> seen[a] + 1]
  IN  /\ peer_addr' = Append(peer_addr, a)
      /\ channel' = Append(channel, <<datagram>>)
      /\ drop' = Append(drop, FALSE)
      /\ receiver' = Append(receiver, TRUE)
      /\ got' = Append(got, <<>>)

LEMMA Appended ==
  ASSUME NEW S, NEW s \in Seq(S), NEW e \in S, NEW t,
         t = Append(s, e), Len(s) = N
  PROVE  /\ t \in Seq(S) /\ Len(t) = N + 1 /\ t[N + 1] = e
         /\ \A st \in 1 .. N : t[st] = s[st]
  BY AppendProperties

LEMMA OpensStep ==
  ASSUME Typed, NEW a \in Addr, Opens(a)
  PROVE  /\ N' = N + 1
         /\ peer_addr' \in Seq(Addr)
         /\ channel' \in Seq(Seq(AnyDatagram)) /\ Len(channel') = N'
         /\ got' \in Seq(Seq(AnyDatagram)) /\ Len(got') = N'
         /\ drop' \in Seq(BOOLEAN) /\ Len(drop') = N'
         /\ receiver' \in Seq(BOOLEAN) /\ Len(receiver') = N'
         /\ \A st \in 1 .. N :
              /\ peer_addr'[st] = peer_addr[st] /\ channel'[st] = channel[st]
              /\ drop'[st] = drop[st] /\ receiver'[st] = receiver[st]
              /\ got'[st] = got[st]
         /\ peer_addr'[N'] = a /\ got'[N'] = <<>>
         /\ channel'[N'] = <<[from |-> a, number |-> seen[a] + 1]>>
         /\ drop'[N'] = FALSE /\ receiver'[N'] = TRUE
<1> DEFINE d == [from |-> a, number |-> seen[a] + 1]
<1>1. d \in AnyDatagram
  BY DEF Typed, AnyDatagram
<1>2. <<d>> \in Seq(AnyDatagram)
  BY <1>1
<1>3. <<>> \in Seq(AnyDatagram)
  BY EmptySeq
<1>4. /\ peer_addr' = Append(peer_addr, a) /\ channel' = Append(channel, <<d>>)
      /\ drop' = Append(drop, FALSE) /\ receiver' = Append(receiver, TRUE)
      /\ got' = Append(got, <<>>)
  BY DEF Opens
<1> HIDE DEF d
<1>5. /\ peer_addr' \in Seq(Addr) /\ N' = N + 1 /\ peer_addr'[N + 1] = a
      /\ \A st \in 1 .. N : peer_addr'[st] = peer_addr[st]
  BY <1>4, AppendProperties DEF Typed, N
<1>6. /\ channel' \in Seq(Seq(AnyDatagram)) /\ Len(channel') = N + 1
      /\ channel'[N + 1] = <<d>>
      /\ \A st \in 1 .. N : channel'[st] = channel[st]
  BY <1>2, <1>4, AppendProperties DEF Typed
<1>7. /\ got' \in Seq(Seq(AnyDatagram)) /\ Len(got') = N + 1
      /\ got'[N + 1] = <<>> /\ \A st \in 1 .. N : got'[st] = got[st]
  <2> DEFINE none == <<>>
  <2>1. none \in Seq(AnyDatagram) /\ got' = Append(got, none)
    BY <1>3, <1>4
  <2>2. got \in Seq(Seq(AnyDatagram)) /\ Len(got) = N
    BY DEF Typed
  <2> HIDE DEF none
  <2>3. /\ got' \in Seq(Seq(AnyDatagram)) /\ Len(got') = N + 1
        /\ got'[N + 1] = none /\ \A st \in 1 .. N : got'[st] = got[st]
    BY <2>1, <2>2, Appended
  <2> QED  BY <2>3 DEF none
<1>8. /\ drop' \in Seq(BOOLEAN) /\ Len(drop') = N + 1
      /\ drop'[N + 1] = FALSE /\ \A st \in 1 .. N : drop'[st] = drop[st]
  <2> DEFINE flag == FALSE
             Flag == BOOLEAN
  <2>1. flag \in Flag /\ drop' = Append(drop, flag)
    BY <1>4
  <2>2. drop \in Seq(Flag) /\ Len(drop) = N
    BY DEF Typed
  <2> HIDE DEF flag, Flag
  <2>3. /\ drop' \in Seq(Flag) /\ Len(drop') = N + 1
        /\ drop'[N + 1] = flag /\ \A st \in 1 .. N : drop'[st] = drop[st]
    BY <2>1, <2>2, Appended
  <2> QED  BY <2>3 DEF flag, Flag
<1>9. /\ receiver' \in Seq(BOOLEAN) /\ Len(receiver') = N + 1
      /\ receiver'[N + 1] = TRUE
      /\ \A st \in 1 .. N : receiver'[st] = receiver[st]
  <2> DEFINE flag == TRUE
             Flag == BOOLEAN
  <2>1. flag \in Flag /\ receiver' = Append(receiver, flag)
    BY <1>4
  <2>2. receiver \in Seq(Flag) /\ Len(receiver) = N
    BY DEF Typed
  <2> HIDE DEF flag, Flag
  <2>3. /\ receiver' \in Seq(Flag) /\ Len(receiver') = N + 1
        /\ receiver'[N + 1] = flag /\ \A st \in 1 .. N : receiver'[st] = receiver[st]
    BY <2>1, <2>2, Appended
  <2> QED  BY <2>3 DEF flag, Flag
<1> QED  BY <1>5, <1>6, <1>7, <1>8, <1>9 DEF d

LEMMA ReceiveStep ==
  ASSUME TableInv, NEW a \in Addr, Receive(a)
  PROVE  TableInv'
<1>1. /\ pc = "recv" /\ pc' \in {"send", "offer"}
      /\ seen' = [seen EXCEPT ![a] = @ + 1]
      /\ streams' = Swept(streams)
      /\ held' = [from |-> a, number |-> seen[a] + 1]
      /\ ended' = ended
  BY DEF Receive, session_vars
<1>2. /\ N \in Nat /\ Typed /\ Tabled
      /\ \A st \in 1 .. N : peer_addr[st] \in Addr /\ drop[st] \in BOOLEAN
  BY Indices DEF TableInv
<1>3. /\ seen' \in [Addr -> Nat] /\ held' \in AnyDatagram /\ held'.from = a
      /\ streams' \in [Addr -> 0 .. N]
      /\ \A b \in Addr : streams'[b] # 0 => streams'[b] = streams[b]
      /\ \A b \in Addr : streams[b] # 0 /\ streams'[b] = 0
                           => drop[streams[b]]
  BY <1>1, <1>2 DEF Typed, AnyDatagram, Swept
<1>4. \A st \in 1 .. N : drop[st] \/ streams'[peer_addr[st]] = st
  BY <1>1, <1>2, <1>3 DEF Tabled, OnOffer
<1>5. CASE pc' = "send" /\ streams'[a] # 0 /\ UNCHANGED stream_vars
  <2>1. Typed' /\ N' = N
    BY <1>1, <1>2, <1>3, <1>5 DEF Typed, N, stream_vars
  <2>2. Tabled'
    BY <1>1, <1>2, <1>3, <1>4, <1>5, <2>1 DEF Tabled, stream_vars
  <2> QED  BY <2>1, <2>2 DEF TableInv
<1>6. CASE pc' = "offer" /\ streams'[a] = 0 /\ Opens(a)
  <2>1. Typed'
    <3>1. /\ N' = N + 1 /\ peer_addr' \in Seq(Addr)
          /\ channel' \in Seq(Seq(AnyDatagram)) /\ Len(channel') = N'
          /\ got' \in Seq(Seq(AnyDatagram)) /\ Len(got') = N'
          /\ drop' \in Seq(BOOLEAN) /\ Len(drop') = N'
          /\ receiver' \in Seq(BOOLEAN) /\ Len(receiver') = N'
      BY <1>2, <1>6, OpensStep
    <3>2. streams' \in [Addr -> 0 .. N']
      BY <1>2, <1>3, <3>1
    <3>3. ended' \subseteq 1 .. N'
      BY <1>1, <1>2, <3>1 DEF Typed
    <3> QED  BY <1>3, <1>6, <3>1, <3>2, <3>3 DEF Typed
  <2>2. /\ N' = N + 1 /\ peer_addr'[N'] = a /\ receiver'[N'] = TRUE
        /\ \A st \in 1 .. N :
             /\ peer_addr'[st] = peer_addr[st] /\ drop'[st] = drop[st]
             /\ receiver'[st] = receiver[st]
    BY <1>2, <1>6, OpensStep
  <2>3. \A b \in Addr : streams'[b] # 0 => peer_addr'[streams'[b]] = b
    BY <1>2, <1>3, <2>2 DEF Tabled
  <2>4. \A st \in 1 .. N' :
          drop'[st] \/ streams'[peer_addr'[st]] = st \/ OnOffer(st)'
    <3>1. \A st \in 1 .. N' : st \in 1 .. N \/ st = N'
      BY <1>2, <2>2
    <3> QED  BY <1>4, <1>6, <2>2, <3>1 DEF OnOffer
  <2>5. \A st \in 1 .. N' : receiver'[st] \/ drop'[st]
    <3>1. \A st \in 1 .. N' : st \in 1 .. N \/ st = N'
      BY <1>2, <2>2
    <3> QED  BY <1>2, <2>2, <3>1 DEF Tabled
  <2>6. N' # 0
    BY <1>2, <2>2
  <2>7. \A st \in ended' : drop'[st]
    BY <1>1, <1>2, <2>2 DEF Typed, Tabled
  <2>8. Tabled'
    BY <1>3, <1>6, <2>2, <2>3, <2>4, <2>5, <2>6, <2>7 DEF Tabled
  <2> QED  BY <2>1, <2>8 DEF TableInv
<1>7. \/ pc' = "send" /\ streams'[a] # 0 /\ UNCHANGED stream_vars
      \/ pc' = "offer" /\ streams'[a] = 0 /\ Opens(a)
  BY DEF Receive, Opens
<1> QED  BY <1>5, <1>6, <1>7
(* A step that keeps what the table invariant reads, but for drop flags    *)
(* that are set and receivers of dropped streams that go.                  *)
LEMMA SessionStep ==
  ASSUME TableInv, UNCHANGED <<listener_vars, peer_addr>>,
         channel' \in Seq(Seq(AnyDatagram)), Len(channel') = N,
         got' \in Seq(Seq(AnyDatagram)), Len(got') = N,
         drop' \in Seq(BOOLEAN), Len(drop') = N,
         receiver' \in Seq(BOOLEAN), Len(receiver') = N,
         \A st \in 1 .. N : drop[st] => drop'[st],
         \A st \in 1 .. N : receiver'[st] \/ drop'[st],
         ended' \subseteq 1 .. N, \A st \in ended' : drop'[st]
  PROVE  TableInv'
<1>1. /\ UNCHANGED <<streams, peer_addr, pc, held, seen>> /\ N' = N
  BY DEF listener_vars, N
<1>2. Typed'
  BY <1>1 DEF TableInv, Typed
<1>3. Tabled'
  BY <1>1 DEF TableInv, Tabled, OnOffer
<1> QED  BY <1>2, <1>3 DEF TableInv

LEMMA PollReadStep ==
  ASSUME TableInv, NEW st \in Stream, PollRead(st)
  PROVE  TableInv'
<1>1. /\ Typed /\ st \in 1 .. N /\ channel[st] \in Seq(AnyDatagram)
      /\ got[st] \in Seq(AnyDatagram) /\ channel[st] # <<>>
  BY Indices DEF TableInv, PollRead
<1>2. /\ Append(got[st], Head(channel[st])) \in Seq(AnyDatagram)
      /\ Tail(channel[st]) \in Seq(AnyDatagram)
  BY <1>1, HeadTailProperties, AppendProperties
<1>3. /\ got' = [got EXCEPT ![st] = Append(got[st], Head(channel[st]))]
      /\ channel' = [channel EXCEPT ![st] = Tail(channel[st])]
      /\ UNCHANGED <<listener_vars, peer_addr, drop, receiver, ended>>
  BY DEF PollRead, session_vars
<1>4. /\ channel' \in Seq(Seq(AnyDatagram)) /\ Len(channel') = N
      /\ got' \in Seq(Seq(AnyDatagram)) /\ Len(got') = N
  BY <1>1, <1>2, <1>3, ExceptSeq DEF Typed
<1> QED
  BY <1>3, <1>4, SessionStep DEF TableInv, Typed, Tabled

LEMMA SetDropStep ==
  ASSUME TableInv, NEW st \in Stream, SetDrop(st) \/ WriteError(st)
  PROVE  TableInv'
<1>1. Typed /\ st \in 1 .. N /\ Len(drop) = N /\ DOMAIN drop = 1 .. N
  BY Indices DEF TableInv, Typed
<1>2. drop' = [drop EXCEPT ![st] = TRUE]
  BY DEF SetDrop, WriteError
<1>3. drop' \in Seq(BOOLEAN) /\ Len(drop') = N
  <2> DEFINE flag == TRUE
             Flag == BOOLEAN
  <2>1. drop \in Seq(Flag) /\ flag \in Flag /\ st \in 1 .. Len(drop)
    BY <1>1 DEF Typed
  <2>2. drop' = [drop EXCEPT ![st] = flag]
    BY <1>2
  <2> HIDE DEF flag, Flag
  <2>3. drop' \in Seq(Flag) /\ Len(drop') = Len(drop)
    BY <2>1, <2>2, ExceptSeq
  <2> QED  BY <1>1, <2>3 DEF Flag
<1>4. \A s \in 1 .. N : drop[s] => drop'[s]
  BY <1>1, <1>2
<1>5. \A s \in 1 .. N : receiver'[s] \/ drop'[s]
  BY <1>4 DEF TableInv, Tabled, SetDrop, WriteError
<1>6. ended' \subseteq 1 .. N /\ \A s \in ended' : drop'[s]
  <2>1. ended \subseteq 1 .. N /\ (\A s \in ended : drop[s])
        /\ ended' \subseteq ended \cup {st}
    BY DEF TableInv, Typed, Tabled, SetDrop, WriteError, session_vars
  <2> QED  BY <1>1, <1>2, <1>4, <2>1
<1> QED
  BY <1>3, <1>4, <1>5, <1>6, SessionStep
  DEF TableInv, Typed, SetDrop, WriteError

LEMMA DropReceiverStep ==
  ASSUME TableInv, NEW st \in Stream, DropReceiver(st)
  PROVE  TableInv'
<1>1. /\ Typed /\ st \in 1 .. N /\ Len(receiver) = N
      /\ DOMAIN receiver = 1 .. N
  BY Indices DEF TableInv, Typed
<1>2. receiver' = [receiver EXCEPT ![st] = FALSE] /\ drop[st]
  BY DEF DropReceiver, TableInv, Tabled
<1>3. receiver' \in Seq(BOOLEAN) /\ Len(receiver') = N
  <2> DEFINE flag == FALSE
             Flag == BOOLEAN
  <2>1. receiver \in Seq(Flag) /\ flag \in Flag /\ st \in 1 .. Len(receiver)
    BY <1>1 DEF Typed
  <2>2. receiver' = [receiver EXCEPT ![st] = flag]
    BY <1>2
  <2> HIDE DEF flag, Flag
  <2>3. receiver' \in Seq(Flag) /\ Len(receiver') = Len(receiver)
    BY <2>1, <2>2, ExceptSeq
  <2> QED  BY <1>1, <2>3 DEF Flag
<1>4. \A s \in 1 .. N : s # st => receiver'[s] = receiver[s]
  BY <1>1, <1>2
<1>5. \A s \in 1 .. N : receiver'[s] \/ drop'[s]
  BY <1>2, <1>4 DEF TableInv, Tabled, DropReceiver
<1> QED
  BY <1>3, <1>5, SessionStep
  DEF TableInv, Typed, Tabled, DropReceiver, session_vars

(* The listener gets rid of the datagram it holds.                         *)
LEMMA SendStep ==
  ASSUME TableInv, Send
  PROVE  TableInv'
<1> DEFINE st == streams[held.from]
<1>1. Typed /\ Tabled /\ pc = "send" /\ held \in AnyDatagram
  BY DEF TableInv, Typed, Send
<1>2. st \in 1 .. N /\ channel[st] \in Seq(AnyDatagram)
  BY <1>1, Indices DEF AnyDatagram, Typed, Tabled
<1>3. channel' = [channel EXCEPT ![st] = Append(channel[st], held)]
  BY DEF Send
<1>4. channel' \in Seq(Seq(AnyDatagram)) /\ Len(channel') = N
  <2> HIDE DEF st
  <2>1. Append(channel[st], held) \in Seq(AnyDatagram)
    BY <1>1, <1>2, AppendProperties
  <2> QED  BY <1>1, <1>2, <1>3, <2>1, ExceptSeq DEF Typed
<1>5. /\ UNCHANGED <<streams, seen, peer_addr, drop, receiver, got, ended>>
      /\ pc' = "recv" /\ N' = N
  BY DEF Send, N, session_vars
<1>6. Typed' /\ Tabled'
  BY <1>1, <1>4, <1>5 DEF Typed, Tabled, OnOffer
<1> QED  BY <1>6 DEF TableInv

LEMMA SendFailsStep ==
  ASSUME TableInv, SendFails
  PROVE  TableInv'
<1>1. /\ Typed /\ Tabled /\ pc = "send" /\ held.from \in Addr
      /\ N \in Nat /\ \A st \in 1 .. N : peer_addr[st] \in Addr
  BY Indices DEF TableInv, Typed, SendFails, AnyDatagram
<1>2. streams[held.from] \in 1 .. N /\ drop[streams[held.from]]
  BY <1>1 DEF SendFails, Typed, Tabled
<1>3. /\ streams' = [streams EXCEPT ![held.from] = 0]
      /\ UNCHANGED <<seen, peer_addr, channel, drop, receiver, got, ended>>
      /\ pc' = "recv" /\ N' = N
  BY DEF SendFails, stream_vars, session_vars, N
<1>4. Typed'
  BY <1>1, <1>3 DEF Typed
<1>5. \A st \in 1 .. N : drop[st] \/ streams'[peer_addr[st]] = st
  BY <1>1, <1>2, <1>3 DEF Tabled, OnOffer, Typed
<1>6. Tabled'
  BY <1>1, <1>3, <1>5 DEF Tabled, Typed
<1> QED  BY <1>4, <1>6 DEF TableInv

LEMMA OfferStep ==
  ASSUME TableInv, Offer
  PROVE  TableInv'
<1>1. /\ Typed /\ Tabled /\ pc = "offer" /\ held.from \in Addr
      /\ N \in Nat /\ \A st \in 1 .. N : peer_addr[st] \in Addr
  BY Indices DEF TableInv, Typed, Offer, AnyDatagram
<1>2. N \in 1 .. N /\ held.from = peer_addr[N] /\ streams[held.from] = 0
  BY <1>1 DEF Tabled
<1>3. /\ streams' = [streams EXCEPT ![held.from] = N]
      /\ UNCHANGED <<seen, peer_addr, channel, drop, receiver, got, ended>>
      /\ pc' = "recv" /\ N' = N
  BY DEF Offer, stream_vars, N
<1>4. Typed'
  BY <1>1, <1>3 DEF Typed
<1>5. \A st \in 1 .. N : drop[st] \/ streams'[peer_addr[st]] = st
  <2>1. streams'[held.from] = N
    BY <1>1, <1>3 DEF Typed
  <2>2. ASSUME NEW st \in 1 .. N, ~drop[st], st # N
        PROVE  streams'[peer_addr[st]] = st
    <3>1. streams[peer_addr[st]] = st /\ st # 0
      BY <1>1, <2>2 DEF Tabled, OnOffer
    <3> QED  BY <1>1, <1>2, <1>3, <3>1 DEF Typed
  <2> QED  BY <1>2, <2>1, <2>2
<1>6. Tabled'
  BY <1>1, <1>2, <1>3, <1>5 DEF Tabled, Typed
<1> QED  BY <1>4, <1>6 DEF TableInv

LEMMA TableInductive == TableInv /\ [Next]_vars => TableInv'
<1> SUFFICES ASSUME TableInv, [Next]_vars PROVE TableInv'
  OBVIOUS
<1>1. CASE \/ UNCHANGED vars \/ Accept
           \/ \E st \in Stream : ReadFails(st) \/ ReadAgain(st)
  <2>1. UNCHANGED <<listener_vars, stream_vars, ended>>
    BY <1>1 DEF vars, Accept, ReadFails, ReadAgain, session_vars
  <2> QED
    BY <2>1, SessionStep DEF TableInv, Typed, Tabled, stream_vars
<1>2. ASSUME NEW a \in Addr, Receive(a) PROVE TableInv'
  BY <1>2, ReceiveStep
<1>3. CASE Send
  BY <1>3, SendStep
<1>4. CASE SendFails
  BY <1>4, SendFailsStep
<1>5. CASE Offer
  BY <1>5, OfferStep
<1>6. ASSUME NEW st \in Stream,
             \/ PollRead(st) \/ SetDrop(st) \/ WriteError(st)
             \/ DropReceiver(st)
      PROVE  TableInv'
  BY <1>6, PollReadStep, SetDropStep, DropReceiverStep
<1> QED  BY <1>1, <1>2, <1>3, <1>4, <1>5, <1>6 DEF Next

(* A peer never has two streams that are neither dropped nor have failed to*)
(* write.                                                                  *)
THEOREM OneSessionPerPeer == Spec => []OneLiveStream
<1> QED
  BY TableInit, TableInductive, TableIsUnambiguous, PTL DEF Spec
-----------------------------------------------------------------------------
(* Datagrams in order.  The table leads to the newest stream of an address *)
(* (Newest), and what the listener still holds was received after all that *)
(* the streams of its address have been given (Behind).                    *)

Newest ==
  \A a \in Addr, st \in 1 .. N :
    streams[a] # 0 /\ peer_addr[st] = a => st <= streams[a]

Behind ==
  /\ pc # "recv" => held.number <= seen[held.from]
  /\ \A st \in 1 .. N : \A m \in 1 .. Len(Given(st)) :
       /\ Given(st)[m].from = peer_addr[st]
       /\ Given(st)[m].number <= seen[peer_addr[st]]
       /\ pc = "send" /\ held.from = peer_addr[st]
            => Given(st)[m].number < held.number

Ordered ==
  \A i, j \in 1 .. N :
    \A m \in 1 .. Len(Given(i)), n \in 1 .. Len(Given(j)) :
      peer_addr[i] = peer_addr[j] /\ (i < j \/ (i = j /\ m < n))
        => Given(i)[m].number < Given(j)[n].number

OrderInv == Newest /\ Behind /\ Ordered

LEMMA GivenType ==
  ASSUME Typed, NEW st \in 1 .. N
  PROVE  /\ Given(st) \in Seq(AnyDatagram) /\ Len(Given(st)) \in Nat
         /\ DOMAIN Given(st) = 1 .. Len(Given(st))
         /\ \A m \in 1 .. Len(Given(st)) : Given(st)[m] \in AnyDatagram
<1>1. Given(st) \in Seq(AnyDatagram)
  BY Indices, ConcatProperties DEF Given
<1> QED  BY <1>1, LenProperties, ElementOfSeq

LEMMA OrderedIsSorted ==
  ASSUME TableInv, OrderInv
  PROVE  SortedByPeer
<1>1. /\ Stream = 1 .. N
      /\ \A st \in 1 .. N : DOMAIN Given(st) = 1 .. Len(Given(st))
  BY Indices, GivenType DEF TableInv
<1> QED  BY <1>1 DEF OrderInv, Behind, Ordered, SortedByPeer

(* While what the streams were given stays the same, so does its order.    *)
LEMMA OrderedKept ==
  ASSUME Ordered, N' = N, UNCHANGED peer_addr,
         \A st \in 1 .. N : Given(st)' = Given(st)
  PROVE  Ordered'
<1>1. ASSUME NEW i \in 1 .. N, NEW j \in 1 .. N,
             NEW m \in 1 .. Len(Given(i)), NEW n \in 1 .. Len(Given(j)),
             peer_addr[i] = peer_addr[j], i < j \/ (i = j /\ m < n)
      PROVE  Given(i)[m].number < Given(j)[n].number
  BY <1>1 DEF Ordered
<1> QED  BY <1>1 DEF Ordered

LEMMA BehindKept ==
  ASSUME Behind, N' = N, UNCHANGED <<peer_addr, seen>>,
         pc' = "recv" \/ (pc' = pc /\ UNCHANGED held),
         \A st \in 1 .. N : Given(st)' = Given(st)
  PROVE  Behind'
<1>1. /\ pc' # "recv" => pc' = pc /\ held' = held
      /\ pc' = "send" => pc = "send" /\ held' = held
  OBVIOUS
<1>2. \A st \in 1 .. N : \A m \in 1 .. Len(Given(st)) :
       /\ Given(st)[m].from = peer_addr[st]
       /\ Given(st)[m].number <= seen[peer_addr[st]]
       /\ pc' = "send" /\ held'.from = peer_addr[st]
            => Given(st)[m].number < held'.number
  BY <1>1 DEF Behind
<1>3. pc' # "recv" => held'.number <= seen[held'.from]
  BY <1>1 DEF Behind
<1> QED  BY <1>2, <1>3 DEF Behind

(* Steps of sessions pass datagrams from the channel on to the reader.     *)
LEMMA SessionOrder ==
  ASSUME OrderInv, UNCHANGED <<listener_vars, peer_addr>>,
         \A st \in 1 .. N : Given(st)' = Given(st)
  PROVE  OrderInv'
<1>1. UNCHANGED <<streams, peer_addr, pc, held, seen>> /\ N' = N
  BY DEF listener_vars, N
<1>2. Newest'
  BY <1>1 DEF OrderInv, Newest
<1>3. Behind' /\ Ordered'
  BY <1>1, BehindKept, OrderedKept DEF OrderInv
<1> QED  BY <1>2, <1>3 DEF OrderInv

LEMMA Regrouped ==
  ASSUME NEW g \in Seq(AnyDatagram), NEW c \in Seq(AnyDatagram),
         NEW h \in Seq(AnyDatagram)
  PROVE  g \o (c \o h) = (g \o c) \o h
BY ConcatAssociative, SMTT(30)

LEMMA PollReadGives ==
  ASSUME Typed, NEW st \in Stream, PollRead(st), NEW s \in 1 .. N
  PROVE  Given(s)' = Given(s)
<1>1. /\ st \in 1 .. N /\ channel[st] \in Seq(AnyDatagram)
      /\ got[st] \in Seq(AnyDatagram) /\ channel[st] # <<>>
      /\ DOMAIN channel = 1 .. N /\ DOMAIN got = 1 .. N
  BY Indices DEF PollRead
<1>2. CASE s = st
  <2> DEFINE h == Head(channel[st])
             c == Tail(channel[st])
  <2>1. h \in AnyDatagram /\ c \in Seq(AnyDatagram)
    BY <1>1, HeadTailProperties
  <2>2. got'[st] = Append(got[st], h) /\ channel'[st] = c
    BY <1>1 DEF PollRead
  <2> HIDE DEF h, c
  <2>3. <<h>> \in Seq(AnyDatagram) /\ Append(got[st], h) = got[st] \o <<h>>
    BY <1>1, <2>1, AppendIsConcat
  <2>4. (got[st] \o <<h>>) \o c = got[st] \o (<<h>> \o c)
    BY <1>1, <2>1, <2>3, ConcatAssociative
  <2>5. <<h>> \o c = channel[st]
    <3>1. /\ <<h>> \o c \in Seq(AnyDatagram)
          /\ Len(<<h>> \o c) = 1 + Len(c)
          /\ \A i \in 1 .. 1 + Len(c) :
               (<<h>> \o c)[i] = IF i <= 1 THEN <<h>>[i] ELSE c[i - 1]
      BY <2>1, <2>3, ConcatProperties
    <3>2. /\ Len(c) = Len(channel[st]) - 1 /\ h = channel[st][1]
          /\ Len(channel[st]) \in Nat /\ Len(c) \in Nat
          /\ \A i \in 1 .. Len(c) : c[i] = channel[st][i + 1]
      BY <1>1, <2>1, HeadTailProperties, LenProperties DEF h, c
    <3>3. ASSUME NEW i \in 1 .. Len(channel[st])
          PROVE  (<<h>> \o c)[i] = channel[st][i]
      BY <3>1, <3>2
    <3>4. Len(<<h>> \o c) = Len(channel[st])
      BY <3>1, <3>2
    <3> QED  BY <1>1, <3>1, <3>3, <3>4, SeqEqual
  <2> QED  BY <1>2, <2>2, <2>3, <2>4, <2>5 DEF Given
<1>3. CASE s # st
  BY <1>1, <1>3 DEF PollRead, Given
<1> QED  BY <1>2, <1>3
(* Send appends the datagram held to the newest stream of its address.     *)
LEMMA SendOrder ==
  ASSUME TableInv, OrderInv, Send
  PROVE  OrderInv'
<1>0. PICK k : k = streams[held.from]
  OBVIOUS
<1>1. /\ Typed /\ N \in Nat /\ pc = "send" /\ held \in AnyDatagram
      /\ \A st \in 1 .. N : peer_addr[st] \in Addr
  BY Indices DEF TableInv, Typed, Send
<1>2. /\ k \in 1 .. N /\ peer_addr[k] = held.from /\ held.from \in Addr
      /\ held.number \in Nat /\ held.number <= seen[held.from]
      /\ \A st \in 1 .. N : peer_addr[st] = held.from => st <= k
  BY <1>0, <1>1
  DEF TableInv, Typed, Tabled, AnyDatagram, OrderInv, Newest, Behind
<1>3. /\ channel' = [channel EXCEPT ![k] = Append(channel[k], held)]
      /\ UNCHANGED <<streams, seen, peer_addr, got>>
      /\ pc' = "recv" /\ N' = N
  BY <1>0 DEF Send, N
<1>4. \A st \in 1 .. N : st # k => Given(st)' = Given(st)
  BY <1>1, <1>3, Indices DEF Given
<1>5. /\ Len(Given(k)') = Len(Given(k)) + 1
      /\ Given(k)'[Len(Given(k)) + 1] = held
      /\ \A m \in 1 .. Len(Given(k)) : Given(k)'[m] = Given(k)[m]
  <2>1. /\ channel[k] \in Seq(AnyDatagram) /\ got[k] \in Seq(AnyDatagram)
        /\ <<held>> \in Seq(AnyDatagram) /\ k \in DOMAIN channel
    BY <1>1, <1>2, Indices
  <2>2. Given(k)' = got[k] \o (channel[k] \o <<held>>)
    BY <1>1, <1>3, <2>1, AppendIsConcat DEF Given
  <2>3. Given(k)' = Given(k) \o <<held>>
    <3>1. got[k] \o (channel[k] \o <<held>>)
            = (got[k] \o channel[k]) \o <<held>>
      <4> DEFINE g == got[k]
                 c == channel[k]
                 h == <<held>>
      <4>1. /\ g \in Seq(AnyDatagram) /\ c \in Seq(AnyDatagram)
            /\ h \in Seq(AnyDatagram)
        BY <2>1
      <4> HIDE DEF g, c, h
      <4>2. g \o (c \o h) = (g \o c) \o h
        BY <4>1, Regrouped
      <4> QED  BY <4>2 DEF g, c, h
    <3>2. Given(k) = got[k] \o channel[k]
      BY DEF Given
    <3> QED  BY <2>2, <3>1, <3>2
  <2>4. Given(k)' = Append(Given(k), held)
    BY <1>1, <1>2, <2>3, GivenType, AppendIsConcat
  <2> QED  BY <1>1, <1>2, <2>4, GivenType, AppendProperties
<1>6. \A st \in 1 .. N : Len(Given(st)) \in Nat
  BY <1>1, GivenType
<1>7. \A st \in 1 .. N : \A m \in 1 .. Len(Given(st)') :
        \/ m \in 1 .. Len(Given(st)) /\ Given(st)'[m] = Given(st)[m]
        \/ st = k /\ m = Len(Given(k)) + 1 /\ Given(st)'[m] = held
  BY <1>4, <1>5, <1>6
<1>8. Newest'
  BY <1>3 DEF OrderInv, Newest
<1>9. Behind'
  <2>1. ASSUME NEW st \in 1 .. N, NEW m \in 1 .. Len(Given(st)')
        PROVE  /\ Given(st)'[m].from = peer_addr[st]
               /\ Given(st)'[m].number <= seen[peer_addr[st]]
    BY <1>2, <1>7 DEF OrderInv, Behind
  <2> QED  BY <1>3, <2>1 DEF Behind
<1>10. Ordered'
  <2>1. ASSUME NEW i \in 1 .. N, NEW j \in 1 .. N,
               NEW m \in 1 .. Len(Given(i)'), NEW n \in 1 .. Len(Given(j)'),
               peer_addr[i] = peer_addr[j], i < j \/ (i = j /\ m < n)
        PROVE  Given(i)'[m].number < Given(j)'[n].number
    <3>1. CASE i = k /\ m = Len(Given(k)) + 1
      BY <1>1, <1>2, <1>4, <1>5, <1>6, <2>1, <3>1
    <3>2. CASE m \in 1 .. Len(Given(i)) /\ Given(i)'[m] = Given(i)[m]
      <4>1. CASE n \in 1 .. Len(Given(j)) /\ Given(j)'[n] = Given(j)[n]
        BY <2>1, <3>2, <4>1 DEF OrderInv, Ordered
      <4>2. CASE j = k /\ Given(j)'[n] = held
        BY <1>1, <1>2, <2>1, <3>2, <4>2 DEF OrderInv, Behind
      <4> QED  BY <1>7, <4>1, <4>2
    <3> QED  BY <1>7, <3>1, <3>2
  <2> QED  BY <1>3, <2>1 DEF Ordered
<1> QED  BY <1>8, <1>9, <1>10 DEF OrderInv

(* A failed send takes an entry from the table, an offer adds the newest.  *)
LEMMA TableOrder ==
  ASSUME TableInv, OrderInv, SendFails \/ Offer
  PROVE  OrderInv'
<1>1. /\ UNCHANGED <<peer_addr, channel, got, seen>> /\ pc' = "recv"
      /\ N' = N /\ \A st \in 1 .. N : Given(st)' = Given(st)
  BY DEF SendFails, Offer, stream_vars, N, Given
<1>2. /\ Typed /\ N \in Nat /\ held.from \in Addr
  BY Indices DEF TableInv, Typed, SendFails, Offer, AnyDatagram
<1>3. Newest'
  <2>1. \A a \in Addr : streams'[a] \in {0, N, streams[a]}
    BY <1>2 DEF SendFails, Offer, Typed, N
  <2>2. ASSUME NEW a \in Addr, NEW st \in 1 .. N,
               streams'[a] # 0, peer_addr[st] = a
        PROVE  st <= streams'[a]
    BY <1>2, <2>1, <2>2 DEF OrderInv, Newest
  <2> QED  BY <1>1, <2>2 DEF Newest
<1>4. Behind' /\ Ordered'
  BY <1>1, BehindKept, OrderedKept DEF OrderInv
<1> QED  BY <1>3, <1>4 DEF OrderInv

(* The datagram received is newer than all before; a new stream is newer   *)
(* than all others.                                                        *)
LEMMA ReceiveOrder ==
  ASSUME TableInv, OrderInv, NEW a \in Addr, Receive(a)
  PROVE  OrderInv'
<1> DEFINE d == [from |-> a, number |-> seen[a] + 1]
<1>1. /\ Typed /\ Tabled /\ N \in Nat /\ pc = "recv"
      /\ \A st \in 1 .. N : peer_addr[st] \in Addr
      /\ seen[a] \in Nat /\ d \in AnyDatagram /\ d.number = seen[a] + 1
      /\ d.from = a
  BY Indices DEF TableInv, Typed, Receive, AnyDatagram
<1>2. /\ held' = d /\ streams' = Swept(streams)
      /\ seen' = [seen EXCEPT ![a] = seen[a] + 1]
  BY DEF Receive
<1> HIDE DEF d
<1>3. /\ \A b \in Addr : streams'[b] # 0 => streams'[b] = streams[b]
      /\ \A b \in Addr : seen[b] \in Nat /\ seen'[b] \in Nat
                          /\ seen[b] <= seen'[b]
      /\ seen'[a] = seen[a] + 1
  BY <1>1, <1>2 DEF Typed, Swept
<1>4. \A st \in 1 .. N : \A m \in 1 .. Len(Given(st)) :
        /\ Given(st)[m].from = peer_addr[st] /\ Given(st)[m].number \in Nat
        /\ Given(st)[m].number <= seen[peer_addr[st]]
        /\ Given(st)[m].number <= seen'[peer_addr[st]]
        /\ peer_addr[st] = a => Given(st)[m].number < d.number
  <2>1. \A st \in 1 .. N : \A m \in 1 .. Len(Given(st)) :
          /\ Given(st)[m].from = peer_addr[st] /\ Given(st)[m].number \in Nat
          /\ Given(st)[m].number <= seen[peer_addr[st]]
    BY <1>1, GivenType DEF OrderInv, Behind, AnyDatagram
  <2> QED  BY <1>1, <1>3, <2>1
<1>5. CASE pc' = "send" /\ UNCHANGED stream_vars
  <2>1. /\ N' = N /\ peer_addr' = peer_addr
        /\ \A st \in 1 .. N : Given(st)' = Given(st)
    BY <1>5 DEF stream_vars, N, Given
  <2>2. Newest'
    BY <1>3, <2>1 DEF OrderInv, Newest
  <2>3. Behind'
    BY <1>1, <1>2, <1>3, <1>4, <2>1 DEF Behind
  <2>4. Ordered'
    BY <2>1 DEF OrderInv, Ordered
  <2> QED  BY <2>2, <2>3, <2>4 DEF OrderInv
<1>6. CASE pc' = "offer" /\ streams'[a] = 0 /\ Opens(a)
  <2>1. /\ N' = N + 1 /\ peer_addr'[N'] = a
        /\ \A st \in 1 .. N :
             /\ peer_addr'[st] = peer_addr[st] /\ channel'[st] = channel[st]
             /\ got'[st] = got[st]
        /\ got'[N'] = <<>> /\ channel'[N'] = <<d>>
    BY <1>1, <1>6, OpensStep DEF d
  <2>2. \A st \in 1 .. N : Given(st)' = Given(st)
    BY <2>1 DEF Given
  <2>4. \A st \in 1 .. N' : st \in 1 .. N \/ st = N'
    BY <1>1, <2>1
  <2>5. \A st \in 1 .. N' : \A m \in 1 .. Len(Given(st)') :
          \/ /\ st \in 1 .. N /\ m \in 1 .. Len(Given(st))
             /\ Given(st)'[m] = Given(st)[m]
             /\ peer_addr'[st] = peer_addr[st]
          \/ st = N' /\ m = 1 /\ Given(st)'[m] = d /\ peer_addr'[st] = a
    <3>1. ASSUME NEW st, st = N'
          PROVE  Given(st)' = <<d>>
      <4>1. <<d>> \in Seq(AnyDatagram)
        BY <1>1
      <4>2. <<>> \o <<d>> = <<d>>
        BY <4>1, ConcatEmptySeq
      <4> QED  BY <2>1, <3>1, <4>2 DEF Given
    <3>2. Len(<<d>>) = 1 /\ <<d>>[1] = d
      OBVIOUS
    <3>4. ASSUME NEW st \in 1 .. N', NEW m \in 1 .. Len(Given(st)'), st = N'
          PROVE  m = 1 /\ Given(st)'[m] = d /\ peer_addr'[st] = a
      <4>1. Given(st)' = <<d>>
        BY <3>1, <3>4
      <4>2. peer_addr'[st] = a
        BY <2>1, <3>4
      <4>3. m = 1
        BY <3>2, <4>1
      <4> QED  BY <3>2, <4>1, <4>2, <4>3
    <3>5. ASSUME NEW st \in 1 .. N', NEW m \in 1 .. Len(Given(st)'), st \in 1 .. N
          PROVE  /\ m \in 1 .. Len(Given(st)) /\ Given(st)'[m] = Given(st)[m]
                 /\ peer_addr'[st] = peer_addr[st]
      BY <2>1, <2>2, <3>5
    <3> QED  BY <2>4, <3>4, <3>5
  <2>6. Newest'
    BY <1>1, <1>3, <1>6, <2>1, <2>4 DEF OrderInv, Newest
  <2>7. Behind'
    <3>1. held'.number <= seen'[held'.from]
      BY <1>1, <1>2, <1>3
    <3>2. \A st \in 1 .. N' : \A m \in 1 .. Len(Given(st)') :
            /\ Given(st)'[m].from = peer_addr'[st]
            /\ Given(st)'[m].number <= seen'[peer_addr'[st]]
      <4> SUFFICES ASSUME NEW st \in 1 .. N', NEW m \in 1 .. Len(Given(st)')
                   PROVE  /\ Given(st)'[m].from = peer_addr'[st]
                          /\ Given(st)'[m].number <= seen'[peer_addr'[st]]
        OBVIOUS
      <4>1. CASE /\ st \in 1 .. N /\ m \in 1 .. Len(Given(st))
                 /\ Given(st)'[m] = Given(st)[m]
                 /\ peer_addr'[st] = peer_addr[st]
        BY <1>4, <4>1
      <4>2. CASE Given(st)'[m] = d /\ peer_addr'[st] = a
        BY <1>1, <1>3, <4>2
      <4> QED  BY <2>5, <4>1, <4>2
    <3> QED  BY <1>6, <3>1, <3>2 DEF Behind
  <2>8. Ordered'
    <3>1. ASSUME NEW i \in 1 .. N', NEW j \in 1 .. N',
                 NEW m \in 1 .. Len(Given(i)'), NEW n \in 1 .. Len(Given(j)'),
                 peer_addr'[i] = peer_addr'[j], i < j \/ (i = j /\ m < n)
          PROVE  Given(i)'[m].number < Given(j)'[n].number
      <4>1. CASE i = N'
        <5>1. j = N' /\ i \notin 1 .. N /\ m < n
          BY <1>1, <2>1, <3>1, <4>1
        <5>2. m = 1 /\ n = 1
          BY <2>5, <4>1, <5>1
        <5> QED  BY <5>1, <5>2
      <4>2. CASE i \in 1 .. N /\ j = N'
        <5>1. j \notin 1 .. N /\ i # N'
          BY <1>1, <2>1, <4>2
        <5>2. Given(j)'[n] = d /\ peer_addr'[j] = a
          BY <2>5, <4>2, <5>1
        <5>3. /\ m \in 1 .. Len(Given(i)) /\ Given(i)'[m] = Given(i)[m]
              /\ peer_addr'[i] = peer_addr[i]
          BY <2>5, <4>2, <5>1
        <5> QED  BY <1>4, <3>1, <4>2, <5>2, <5>3
      <4>3. CASE i \in 1 .. N /\ j \in 1 .. N
        <5>1. i # N' /\ j # N'
          BY <1>1, <2>1, <4>3
        <5>2. /\ m \in 1 .. Len(Given(i)) /\ Given(i)'[m] = Given(i)[m]
              /\ n \in 1 .. Len(Given(j)) /\ Given(j)'[n] = Given(j)[n]
              /\ peer_addr'[i] = peer_addr[i] /\ peer_addr'[j] = peer_addr[j]
          BY <2>5, <5>1
        <5> QED  BY <3>1, <4>3, <5>2 DEF OrderInv, Ordered
      <4> QED  BY <2>4, <4>1, <4>2, <4>3
    <3> QED  BY <3>1 DEF Ordered
  <2> QED  BY <2>6, <2>7, <2>8 DEF OrderInv
<1>7. \/ pc' = "send" /\ UNCHANGED stream_vars
      \/ pc' = "offer" /\ streams'[a] = 0 /\ Opens(a)
  BY DEF Receive, Opens
<1> QED  BY <1>5, <1>6, <1>7

LEMMA OrderInit == Init => OrderInv
<1> SUFFICES ASSUME Init PROVE OrderInv
  OBVIOUS
<1>1. N = 0 /\ pc = "recv"
  BY DEF Init, N
<1> QED  BY <1>1 DEF OrderInv, Newest, Behind, Ordered

LEMMA OrderInductive == TableInv /\ OrderInv /\ [Next]_vars => OrderInv'
<1> SUFFICES ASSUME TableInv, OrderInv, [Next]_vars PROVE OrderInv'
  OBVIOUS
<1>1. CASE \/ UNCHANGED vars \/ Accept
           \/ \E st \in Stream :
                \/ ReadFails(st) \/ ReadAgain(st) \/ WriteError(st)
                \/ SetDrop(st) \/ DropReceiver(st)
  <2>1. UNCHANGED <<listener_vars, peer_addr, channel, got>>
    BY <1>1
    DEF vars, Accept, ReadFails, ReadAgain, WriteError, SetDrop, DropReceiver,
        stream_vars
  <2> QED  BY <2>1, SessionOrder DEF Given
<1>2. ASSUME NEW st \in Stream, PollRead(st) PROVE OrderInv'
  BY <1>2, PollReadGives, SessionOrder DEF PollRead, TableInv
<1>3. ASSUME NEW a \in Addr, Receive(a) PROVE OrderInv'
  BY <1>3, ReceiveOrder
<1>4. CASE Send
  BY <1>4, SendOrder
<1>5. CASE SendFails \/ Offer
  BY <1>5, TableOrder
<1> QED  BY <1>1, <1>2, <1>3, <1>4, <1>5 DEF Next

(* A session is given the datagrams of its peer only, in the order they    *)
(* were received, and no datagram older than those of an earlier session.  *)
THEOREM DatagramsSorted == Spec => []SortedByPeer
<1> QED
  BY TableInit, TableInductive, OrderInit, OrderInductive, OrderedIsSorted, PTL
  DEF Spec

-----------------------------------------------------------------------------
(* Losses.  A datagram is lost by a send that fails, to a stream that is   *)
(* dropped and still in the table; the stream leaves the table with it.    *)
(* So every loss has a dropped stream of its own, that is neither in the   *)
(* table nor on offer.                                                     *)
Gave(st, d) == \E i \in 1 .. Len(Given(st)) : Given(st)[i] = d

Lost(a) ==
  {n \in 1 .. seen[a] :
     /\ ~(pc = "send" /\ held = [from |-> a, number |-> n])
     /\ \A st \in 1 .. N : ~Gave(st, [from |-> a, number |-> n])}

Gone(a) ==
  {st \in 1 .. N :
     peer_addr[st] = a /\ ~receiver[st] /\ streams[a] # st /\ ~OnOffer(st)}

LossInv == \A a \in Addr : Cardinality(Lost(a)) <= Cardinality(Gone(a))

LEMMA LossesFinite ==
  ASSUME Typed, NEW a \in Addr
  PROVE  /\ IsFiniteSet(Lost(a)) /\ Cardinality(Lost(a)) \in Nat
         /\ IsFiniteSet(Gone(a)) /\ Cardinality(Gone(a)) \in Nat
<1>1. seen[a] \in Nat /\ N \in Nat
  BY Indices DEF Typed
<1>2. IsFiniteSet(1 .. seen[a]) /\ IsFiniteSet(1 .. N)
  BY <1>1, FS_Interval
<1>3. Lost(a) \in SUBSET (1 .. seen[a]) /\ Gone(a) \in SUBSET (1 .. N)
  BY DEF Lost, Gone
<1> QED  BY <1>2, <1>3, FS_Subset, FS_CardinalityType

LEMMA LossStep ==
  ASSUME Typed, Typed', LossInv,
         \A a \in Addr : Lost(a)' \subseteq Lost(a) /\ Gone(a) \subseteq Gone(a)'
  PROVE  LossInv'
<1> SUFFICES ASSUME NEW a \in Addr
             PROVE  Cardinality(Lost(a)') <= Cardinality(Gone(a)')
  BY DEF LossInv
<1>1. PICK lost, gone, lost2, gone2 :
        lost = Lost(a) /\ gone = Gone(a) /\ lost2 = Lost(a)' /\ gone2 = Gone(a)'
  OBVIOUS
<1>2. /\ IsFiniteSet(lost) /\ Cardinality(lost) \in Nat /\ Cardinality(gone) \in Nat
  BY <1>1, LossesFinite
<1>3. /\ IsFiniteSet(gone2) /\ Cardinality(gone2) \in Nat
  <2>1. N' \in Nat
    <3>1. peer_addr' \in Seq(Addr)
      BY DEF Typed
    <3> QED  BY <3>1, LenProperties DEF N
  <2>2. gone2 \in SUBSET (1 .. N')
    BY <1>1 DEF Gone
  <2>3. IsFiniteSet(1 .. N')
    BY <2>1, FS_Interval
  <2> QED  BY <2>2, <2>3, FS_Subset, FS_CardinalityType
<1>4. /\ lost2 \in SUBSET lost /\ gone \in SUBSET gone2
      /\ Cardinality(lost) <= Cardinality(gone)
  BY <1>1 DEF LossInv
<1>5. Cardinality(lost2) <= Cardinality(lost) /\ Cardinality(gone) <= Cardinality(gone2)
  BY <1>2, <1>3, <1>4, FS_Subset
<1>6. Cardinality(lost2) \in Nat
  BY <1>2, <1>4, FS_Subset, FS_CardinalityType
<1> QED  BY <1>1, <1>2, <1>3, <1>4, <1>5, <1>6

(* The steps that neither take a datagram nor touch the table: what the    *)
(* streams were given stays, and at most a receiver goes.                  *)
LEMMA SessionLoss ==
  ASSUME Typed, Typed', LossInv, UNCHANGED <<listener_vars, peer_addr>>,
         \A st \in 1 .. N : Given(st)' = Given(st),
         \A st \in 1 .. N : receiver'[st] => receiver[st]
  PROVE  LossInv'
<1>1. UNCHANGED <<streams, peer_addr, pc, held, seen>> /\ N' = N
  BY DEF listener_vars, N
<1>2. ASSUME NEW a \in Addr
      PROVE  Lost(a)' \subseteq Lost(a) /\ Gone(a) \subseteq Gone(a)'
  <2>1. Lost(a)' \subseteq Lost(a)
    BY <1>1 DEF Lost, Gave
  <2>2. Gone(a) \subseteq Gone(a)'
    BY <1>1 DEF Gone, OnOffer
  <2> QED  BY <2>1, <2>2
<1> QED  BY <1>2, LossStep

(* The datagram received is held, or given to the stream it opens.         *)
LEMMA ReceiveLoss ==
  ASSUME TableInv, TableInv', LossInv, NEW b \in Addr, Receive(b)
  PROVE  LossInv'
<1>0. PICK d : d = [from |-> b, number |-> seen[b] + 1]
  OBVIOUS
<1>1. /\ Typed /\ N \in Nat /\ pc = "recv" /\ seen[b] \in Nat
      /\ seen \in [Addr -> Nat] /\ d \in AnyDatagram
      /\ streams \in [Addr -> 0 .. N]
  BY <1>0, Indices DEF TableInv, Typed, Receive, AnyDatagram
<1>2. /\ held' = d /\ streams' = Swept(streams)
      /\ seen' = [seen EXCEPT ![b] = seen[b] + 1]
  BY <1>0 DEF Receive
<1>3. \A a \in Addr : \A n \in 1 .. seen'[a] :
        n \in 1 .. seen[a] \/ [from |-> a, number |-> n] = d
  BY <1>0, <1>1, <1>2
<1>4. \A a \in Addr : streams'[a] \in {0, streams[a]}
  BY <1>1, <1>2 DEF Swept
<1>5. CASE pc' = "send" /\ UNCHANGED stream_vars
  <2>1. N' = N /\ \A st \in 1 .. N : \A e : Gave(st, e)' <=> Gave(st, e)
    BY <1>5 DEF stream_vars, N, Gave, Given
  <2>2. ASSUME NEW a \in Addr
        PROVE  Lost(a)' \subseteq Lost(a) /\ Gone(a) \subseteq Gone(a)'
    <3>1. ASSUME NEW n \in Lost(a)'
          PROVE  n \in Lost(a)
      <4>1. /\ n \in 1 .. seen'[a]
            /\ [from |-> a, number |-> n] # d
            /\ \A st \in 1 .. N : ~Gave(st, [from |-> a, number |-> n])
        BY <1>2, <1>5, <2>1, <3>1 DEF Lost
      <4> QED  BY <1>1, <1>3, <4>1 DEF Lost
    <3>2. Gone(a) \subseteq Gone(a)'
      BY <1>1, <1>4, <1>5, <2>1 DEF Gone, OnOffer, stream_vars
    <3> QED  BY <3>1, <3>2
  <2> QED  BY <2>2, LossStep DEF TableInv
<1>6. CASE pc' = "offer" /\ Opens(b)
  <2>1. /\ N' = N + 1
        /\ \A st \in 1 .. N :
             /\ peer_addr'[st] = peer_addr[st] /\ channel'[st] = channel[st]
             /\ receiver'[st] = receiver[st] /\ got'[st] = got[st]
        /\ got'[N'] = <<>> /\ channel'[N'] = <<d>>
    BY <1>0, <1>1, <1>6, OpensStep
  <2>2. \A st \in 1 .. N : \A e : Gave(st, e)' <=> Gave(st, e)
    BY <2>1 DEF Gave, Given
  <2>3. \E st \in 1 .. N' : Gave(st, d)'
    <3>1. PICK new : new = N'
      OBVIOUS
    <3>2. <<>> \o <<d>> = <<d>> /\ Len(<<d>>) = 1 /\ <<d>>[1] = d
      <4>1. <<d>> \in Seq(AnyDatagram)
        BY <1>1
      <4> QED  BY <4>1, ConcatEmptySeq
    <3>3. Given(new)' = <<d>>
      BY <2>1, <3>1, <3>2 DEF Given
    <3>4. Gave(new, d)'
      BY <3>2, <3>3 DEF Gave
    <3> QED  BY <1>1, <2>1, <3>1, <3>4
  <2>4. ASSUME NEW a \in Addr
        PROVE  Lost(a)' \subseteq Lost(a) /\ Gone(a) \subseteq Gone(a)'
    <3>1. ASSUME NEW n \in Lost(a)'
          PROVE  n \in Lost(a)
      <4>1. /\ n \in 1 .. seen'[a]
            /\ \A st \in 1 .. N' : ~Gave(st, [from |-> a, number |-> n])'
        BY <3>1 DEF Lost
      <4>2. [from |-> a, number |-> n] # d
        BY <2>3, <4>1
      <4>3. \A st \in 1 .. N : ~Gave(st, [from |-> a, number |-> n])
        BY <1>1, <2>1, <2>2, <4>1
      <4> QED  BY <1>1, <1>3, <4>1, <4>2, <4>3 DEF Lost
    <3>2. Gone(a) \subseteq Gone(a)'
      BY <1>1, <1>4, <1>6, <2>1 DEF Gone, OnOffer
    <3> QED  BY <3>1, <3>2
  <2> QED  BY <2>4, LossStep DEF TableInv
<1>7. \/ pc' = "send" /\ UNCHANGED stream_vars
      \/ pc' = "offer" /\ Opens(b)
  BY DEF Receive, Opens
<1> QED  BY <1>5, <1>6, <1>7

(* Send gives the datagram held to a stream; what was given stays so.      *)
LEMMA SendGives ==
  ASSUME TableInv, Send
  PROVE  /\ \A e : e = held => \E st \in 1 .. N : Gave(st, e)'
         /\ \A st \in 1 .. N : \A e : Gave(st, e) => Gave(st, e)'
<1>0. PICK k, h : k = streams[held.from] /\ h = held
  OBVIOUS
<1>1. /\ Typed /\ N \in Nat /\ pc = "send" /\ h \in AnyDatagram
      /\ k \in 1 .. N
  BY <1>0, Indices DEF TableInv, Typed, Tabled, Send, AnyDatagram
<1>2. channel' = [channel EXCEPT ![k] = Append(channel[k], h)] /\ got' = got
  BY <1>0 DEF Send
<1>3. \A st \in 1 .. N : st # k => Given(st)' = Given(st)
  BY <1>1, <1>2, Indices DEF Given
<1>4. PICK g, c : /\ g = got[k] /\ c = channel[k]
                  /\ g \in Seq(AnyDatagram) /\ c \in Seq(AnyDatagram)
                  /\ k \in DOMAIN channel
  BY <1>1, Indices
<1>5. Given(k) = g \o c /\ Given(k)' = g \o Append(c, h)
  BY <1>2, <1>4 DEF Given
<1>6. /\ Append(c, h) \in Seq(AnyDatagram)
      /\ Len(Append(c, h)) = Len(c) + 1
      /\ Append(c, h)[Len(c) + 1] = h
      /\ \A i \in 1 .. Len(c) : Append(c, h)[i] = c[i]
      /\ Len(c) \in Nat /\ Len(g) \in Nat
  BY <1>1, <1>4, AppendProperties, LenProperties
<1>7. /\ Len(g \o c) = Len(g) + Len(c)
      /\ \A i \in 1 .. Len(g) + Len(c) :
           (g \o c)[i] = IF i <= Len(g) THEN g[i] ELSE c[i - Len(g)]
  BY <1>4, ConcatProperties
<1>8. PICK l : l = Append(c, h)
  OBVIOUS
<1>8a. l \in Seq(AnyDatagram) /\ g \in Seq(AnyDatagram)
  BY <1>4, <1>6, <1>8
<1>9. /\ Len(g \o l) = Len(g) + Len(l)
      /\ \A i \in 1 .. Len(g) + Len(l) :
           (g \o l)[i] = IF i <= Len(g) THEN g[i] ELSE l[i - Len(g)]
  BY <1>8a, ConcatProperties
<1>10. /\ Len(g \o l) = Len(g \o c) + 1
       /\ (g \o l)[Len(g \o l)] = h
       /\ \A i \in 1 .. Len(g \o c) : (g \o l)[i] = (g \o c)[i]
       /\ Len(g \o c) \in Nat
  BY <1>6, <1>7, <1>8, <1>9
<1>11. Gave(k, h)'
  BY <1>5, <1>8, <1>10 DEF Gave
<1>12. \A e : Gave(k, e) => Gave(k, e)'
  BY <1>5, <1>8, <1>10 DEF Gave
<1>13. ASSUME NEW st \in 1 .. N, NEW e, Gave(st, e)
       PROVE  Gave(st, e)'
  <2>1. CASE st = k
    BY <1>12, <1>13, <2>1
  <2>2. CASE st # k
    BY <1>3, <1>13, <2>2 DEF Gave
  <2> QED  BY <2>1, <2>2
<1> QED  BY <1>0, <1>1, <1>11, <1>13

LEMMA SendLoss ==
  ASSUME TableInv, TableInv', LossInv, Send
  PROVE  LossInv'
<1>1. /\ UNCHANGED <<streams, seen, peer_addr, receiver>>
      /\ pc = "send" /\ pc' = "recv" /\ N' = N
  BY DEF Send, N
<1>2. /\ \A e : e = held => \E st \in 1 .. N : Gave(st, e)'
      /\ \A st \in 1 .. N : \A e : Gave(st, e) => Gave(st, e)'
  BY SendGives
<1>3. ASSUME NEW a \in Addr
      PROVE  Lost(a)' \subseteq Lost(a) /\ Gone(a) \subseteq Gone(a)'
  <2>1. ASSUME NEW n \in Lost(a)'
        PROVE  n \in Lost(a)
    <3>1. /\ n \in 1 .. seen[a]
          /\ \A st \in 1 .. N : ~Gave(st, [from |-> a, number |-> n])'
      BY <1>1, <2>1 DEF Lost
    <3>2. held # [from |-> a, number |-> n]
      BY <1>2, <3>1
    <3> QED  BY <1>2, <3>1, <3>2 DEF Lost
  <2>2. Gone(a) \subseteq Gone(a)'
    BY <1>1 DEF Gone, OnOffer
  <2> QED  BY <2>1, <2>2
<1> QED  BY <1>3, LossStep DEF TableInv

(* The stream on offer enters the table: it was in neither set.            *)
LEMMA OfferLoss ==
  ASSUME TableInv, TableInv', LossInv, Offer
  PROVE  LossInv'
<1>1. /\ UNCHANGED <<seen, peer_addr, receiver, channel, got>>
      /\ pc = "offer" /\ pc' = "recv" /\ N' = N
      /\ streams' = [streams EXCEPT ![held.from] = N]
  BY DEF Offer, N, stream_vars
<1>2. streams \in [Addr -> 0 .. N]
  BY DEF TableInv, Typed
<1>3. ASSUME NEW a \in Addr
      PROVE  Lost(a)' \subseteq Lost(a) /\ Gone(a) \subseteq Gone(a)'
  <2>1. Lost(a)' \subseteq Lost(a)
    BY <1>1 DEF Lost, Gave, Given
  <2>2. Gone(a) \subseteq Gone(a)'
    BY <1>1, <1>2 DEF Gone, OnOffer
  <2> QED  BY <2>1, <2>2
<1> QED  BY <1>3, LossStep DEF TableInv

(* A failed send loses the datagram held, and its stream leaves the table. *)
LEMMA SendFailsLoss ==
  ASSUME TableInv, TableInv', LossInv, SendFails
  PROVE  LossInv'
<1>0. PICK k : k = streams[held.from]
  OBVIOUS
<1>1. /\ Typed /\ Typed' /\ N \in Nat /\ pc = "send" /\ held \in AnyDatagram
      /\ k \in 1 .. N /\ peer_addr[k] = held.from /\ held.from \in Addr
      /\ held.number \in Nat /\ ~receiver[k] /\ streams \in [Addr -> 0 .. N]
  <2>1. Typed /\ Typed' /\ Tabled /\ N \in Nat /\ pc = "send" /\ ~receiver[k]
    BY <1>0, Indices DEF TableInv, SendFails
  <2>2. /\ held \in AnyDatagram /\ held.from \in Addr /\ held.number \in Nat
        /\ streams \in [Addr -> 0 .. N]
    BY <2>1 DEF Typed, AnyDatagram
  <2>3. k \in 1 .. N /\ peer_addr[k] = held.from
    BY <1>0, <2>1, <2>2 DEF Tabled
  <2> QED  BY <2>1, <2>2, <2>3
<1>2. /\ UNCHANGED <<seen, peer_addr, receiver, channel, got>>
      /\ pc' = "recv" /\ N' = N
      /\ streams' = [streams EXCEPT ![held.from] = 0]
  BY DEF SendFails, N, stream_vars
<1>3. \A st \in 1 .. N : \A e : Gave(st, e)' <=> Gave(st, e)
  BY <1>2 DEF Gave, Given
<1>4. ASSUME NEW a \in Addr
      PROVE  Cardinality(Lost(a)') <= Cardinality(Gone(a)')
  <2>1. PICK lost, gone, lost2, gone2 :
          lost = Lost(a) /\ gone = Gone(a) /\ lost2 = Lost(a)' /\ gone2 = Gone(a)'
    OBVIOUS
  <2>2. /\ IsFiniteSet(lost) /\ Cardinality(lost) \in Nat
        /\ IsFiniteSet(gone) /\ Cardinality(gone) \in Nat
        /\ Cardinality(lost) <= Cardinality(gone)
    BY <1>1, <2>1, LossesFinite DEF LossInv
  <2>3. /\ IsFiniteSet(gone2)
    <3>1. gone2 \in SUBSET (1 .. N)
      BY <1>2, <2>1 DEF Gone
    <3>2. IsFiniteSet(1 .. N)
      BY <1>1, FS_Interval
    <3> QED  BY <3>1, <3>2, FS_Subset
  <2>4. CASE a = held.from
    <3>1. lost2 \in SUBSET (lost \cup {held.number})
      <4>1. ASSUME NEW n \in lost2, n # held.number
            PROVE  n \in lost
        <5>1. /\ n \in 1 .. seen[a]
              /\ \A st \in 1 .. N : ~Gave(st, [from |-> a, number |-> n])
          BY <1>2, <1>3, <2>1 DEF Lost
        <5>2. held # [from |-> a, number |-> n]
          BY <4>1
        <5> QED  BY <2>1, <5>1, <5>2 DEF Lost
      <4> QED  BY <4>1
    <3>2. k \notin gone
      BY <1>0, <2>1, <2>4 DEF Gone
    <3>3. gone \cup {k} \in SUBSET gone2
      <4>1. k \in gone2
        BY <1>1, <1>2, <2>1, <2>4 DEF Gone, OnOffer
      <4>2. gone \subseteq gone2
        BY <1>1, <1>2, <2>1, <2>4 DEF Gone, OnOffer
      <4> QED  BY <4>1, <4>2
    <3>4. /\ Cardinality(gone \cup {k}) = Cardinality(gone) + 1
          /\ Cardinality(gone \cup {k}) <= Cardinality(gone2)
          /\ Cardinality(gone2) \in Nat
      BY <2>2, <2>3, <3>2, <3>3, FS_AddElement, FS_Subset, FS_CardinalityType
    <3>5. /\ IsFiniteSet(lost \cup {held.number})
          /\ Cardinality(lost \cup {held.number}) <= Cardinality(lost) + 1
          /\ Cardinality(lost \cup {held.number}) \in Nat
      <4>1. PICK n : n = held.number
        OBVIOUS
      <4>2. /\ IsFiniteSet(lost \cup {n})
            /\ Cardinality(lost \cup {n})
                 = IF n \in lost THEN Cardinality(lost) ELSE Cardinality(lost) + 1
        BY <2>2, FS_AddElement
      <4>3. Cardinality(lost \cup {n}) \in Nat
        BY <4>2, FS_CardinalityType
      <4> QED  BY <2>2, <4>1, <4>2, <4>3
    <3>6. /\ Cardinality(lost2) <= Cardinality(lost \cup {held.number})
          /\ Cardinality(lost2) \in Nat
      BY <3>1, <3>5, FS_Subset, FS_CardinalityType
    <3> QED  BY <2>1, <2>2, <3>4, <3>5, <3>6
  <2>5. CASE a # held.from
    <3>1. lost2 \in SUBSET lost
      <4>1. ASSUME NEW n \in lost2
            PROVE  n \in lost
        <5>1. /\ n \in 1 .. seen[a]
              /\ \A st \in 1 .. N : ~Gave(st, [from |-> a, number |-> n])
          BY <1>2, <1>3, <2>1 DEF Lost
        <5>2. held # [from |-> a, number |-> n]
          BY <2>5
        <5> QED  BY <2>1, <5>1, <5>2 DEF Lost
      <4> QED  BY <4>1
    <3>2. gone \in SUBSET gone2
      BY <1>1, <1>2, <2>1, <2>5 DEF Gone, OnOffer
    <3>3. /\ Cardinality(gone) <= Cardinality(gone2)
          /\ Cardinality(gone2) \in Nat
      BY <2>3, <3>2, FS_Subset, FS_CardinalityType
    <3>4. /\ Cardinality(lost2) <= Cardinality(lost)
          /\ Cardinality(lost2) \in Nat
      BY <2>2, <3>1, FS_Subset, FS_CardinalityType
    <3> QED  BY <2>1, <2>2, <3>3, <3>4
  <2> QED  BY <2>4, <2>5
<1> QED  BY <1>4 DEF LossInv

LEMMA LossInit == Init => LossInv
<1> SUFFICES ASSUME Init, NEW a \in Addr
             PROVE  Cardinality(Lost(a)) <= Cardinality(Gone(a))
  BY DEF LossInv
<1>1. N = 0 /\ seen[a] = 0
  BY DEF Init, N
<1>2. Lost(a) = {} /\ Gone(a) = {}
  BY <1>1 DEF Lost, Gone
<1> QED  BY <1>2, FS_EmptySet

LEMMA LossInductive == TableInv /\ LossInv /\ [Next]_vars => LossInv'
<1> SUFFICES ASSUME TableInv, LossInv, [Next]_vars PROVE LossInv'
  OBVIOUS
<1>0. TableInv' /\ Typed /\ Typed'
  BY TableInductive DEF TableInv
<1>1. CASE \/ UNCHANGED vars \/ Accept
           \/ \E st \in Stream :
                ReadFails(st) \/ ReadAgain(st) \/ WriteError(st) \/ SetDrop(st)
  <2>1. UNCHANGED <<listener_vars, peer_addr, channel, got, receiver>>
    BY <1>1
    DEF vars, Accept, ReadFails, ReadAgain, WriteError, SetDrop, stream_vars
  <2> QED  BY <1>0, <2>1, SessionLoss DEF Given
<1>2. ASSUME NEW st \in Stream, DropReceiver(st) PROVE LossInv'
  <2>1. /\ UNCHANGED <<listener_vars, peer_addr, channel, got>>
        /\ \A s \in 1 .. N : receiver'[s] => receiver[s]
    BY <1>0, <1>2, Indices DEF DropReceiver
  <2> QED  BY <1>0, <2>1, SessionLoss DEF Given
<1>3. ASSUME NEW st \in Stream, PollRead(st) PROVE LossInv'
  <2>1. UNCHANGED <<listener_vars, peer_addr, receiver>>
    BY <1>3 DEF PollRead
  <2>2. \A s \in 1 .. N : Given(s)' = Given(s)
    BY <1>0, <1>3, PollReadGives
  <2> QED  BY <1>0, <2>1, <2>2, SessionLoss
<1>4. ASSUME NEW a \in Addr, Receive(a) PROVE LossInv'
  BY <1>0, <1>4, ReceiveLoss
<1>5. CASE Send
  BY <1>0, <1>5, SendLoss
<1>6. CASE SendFails
  BY <1>0, <1>6, SendFailsLoss
<1>7. CASE Offer
  BY <1>0, <1>7, OfferLoss
<1> QED  BY <1>1, <1>2, <1>3, <1>4, <1>5, <1>6, <1>7 DEF Next

LEMMA LossesAreAccounted ==
  ASSUME TableInv, LossInv
  PROVE  LossAccounted
<1> SUFFICES ASSUME NEW a \in Addr
             PROVE  Cardinality(Missing(a)) <=
                      Cardinality({st \in Stream :
                                     peer_addr[st] = a /\ ~receiver[st]})
  BY DEF LossAccounted
<1> DEFINE gone == {st \in Stream : peer_addr[st] = a /\ ~receiver[st]}
<1>1. Typed /\ N \in Nat /\ Stream = 1 .. N
  BY Indices DEF TableInv
<1>2. /\ IsFiniteSet(Lost(a)) /\ Cardinality(Lost(a)) \in Nat
      /\ IsFiniteSet(Gone(a)) /\ Cardinality(Gone(a)) \in Nat
      /\ Cardinality(Lost(a)) <= Cardinality(Gone(a))
  BY <1>1, LossesFinite DEF LossInv
<1>3. Missing(a) \in SUBSET Lost(a)
  <2>1. \A st \in 1 .. N : DOMAIN Given(st) = 1 .. Len(Given(st))
    BY <1>1, GivenType
  <2> QED  BY <1>1, <2>1 DEF Missing, Lost, Gave
<1>4. Gone(a) \in SUBSET gone
  BY <1>1 DEF Gone
<1>5. IsFiniteSet(gone)
  <2>1. gone \in SUBSET (1 .. N)
    BY <1>1
  <2> QED  BY <1>1, <2>1, FS_Interval, FS_Subset
<1> HIDE DEF gone
<1>6. /\ Cardinality(Missing(a)) <= Cardinality(Lost(a))
      /\ Cardinality(Missing(a)) \in Nat
  BY <1>2, <1>3, FS_Subset, FS_CardinalityType
<1>7. /\ Cardinality(Gone(a)) <= Cardinality(gone)
      /\ Cardinality(gone) \in Nat
  BY <1>4, <1>5, FS_Subset, FS_CardinalityType
<1>8. Cardinality(Missing(a)) <= Cardinality(gone)
  BY <1>2, <1>6, <1>7
<1> QED  BY <1>8 DEF gone

(* The listener loses at most one datagram of a peer for every session of  *)
(* the peer that has gone, however full the channels were.                *)
THEOREM LossesBounded == Spec => []LossAccounted
<1> QED
  BY TableInit, TableInductive, LossInit, LossInductive, LossesAreAccounted, PTL
  DEF Spec

-----------------------------------------------------------------------------
(* A peer comes back: the flags of its streams are looked at before its    *)
(* next datagram is, and that empties its entry of the table.              *)
LEMMA DatagramReconnects ==
  ASSUME TableInv, Next, NEW a \in Addr, seen'[a] > seen[a],
         \A st \in Stream : peer_addr[st] = a => drop[st]
  PROVE  Len(peer_addr') > Len(peer_addr)
<1>1. /\ Typed /\ Tabled /\ N \in Nat /\ Stream = 1 .. N
      /\ seen \in [Addr -> Nat] /\ streams \in [Addr -> 0 .. N]
  BY Indices DEF TableInv, Typed
<1>2. seen' # seen
  BY <1>1
<1>3. PICK b \in Addr : Receive(b)
  BY <1>2 DEF Next, Send, SendFails, Offer, Accept, PollRead, ReadFails, ReadAgain,
              WriteError, SetDrop, DropReceiver, listener_vars
<1>4. a = b
  BY <1>1, <1>3 DEF Receive
<1>5. streams'[a] = 0
  <2>1. streams[a] # 0 => streams[a] \in 1 .. N /\ peer_addr[streams[a]] = a
    BY <1>1 DEF Tabled
  <2>2. streams[a] # 0 => drop[streams[a]]
    BY <1>1, <2>1
  <2> QED  BY <1>3, <2>2 DEF Receive, Swept
<1>6. peer_addr' = Append(peer_addr, a)
  BY <1>3, <1>4, <1>5 DEF Receive
<1> QED  BY <1>1, <1>6, AppendProperties DEF Typed, N

(* A peer whose streams have all been dropped, or have failed to write,    *)
(* gets a new one with its very next datagram, at whatever moment that was.*)
THEOREM PeersReconnect == Spec => Reconnects
<1>1. TableInv /\ [Next]_vars =>
        [\A a \in Addr :
           /\ seen'[a] > seen[a]
           /\ \A st \in Stream : peer_addr[st] = a => drop[st]
           => Len(peer_addr') > Len(peer_addr)]_vars
  BY DatagramReconnects
<1> QED  BY <1>1, TableInit, TableInductive, PTL DEF Spec, Reconnects

-----------------------------------------------------------------------------
(* Types with their bounds.  The listener never has more datagrams than    *)
(* the channels hold, and one.                                             *)
Bounded ==
  /\ seen \in [Addr -> 0 .. MaxDatagrams]
  /\ held \in Datagram \cup {Nothing} /\ (held = Nothing <=> pc = "recv")
  /\ channel \in Seq(Seq(Datagram)) /\ got \in Seq(Seq(Datagram))
  /\ \A st \in 1 .. N : Len(channel[st]) <= CHANNEL_LEN
  /\ accepting \in Seq(1 .. N) /\ Len(accepting) <= CHANNEL_LEN
  /\ accepted \subseteq 1 .. N /\ ended \subseteq accepted
  /\ failed \subseteq accepted \ ended

LEMMA BoundedTypes == TableInv /\ Bounded => TypeOK
BY Indices DEF TableInv, Typed, Tabled, Bounded, TypeOK, N, Stream

(* The next datagram of a peer still has a number within the bound.        *)
LEMMA NumberBound ==
  ASSUME Bounded, NEW a \in Addr, Cardinality(Received) < MaxDatagrams
  PROVE  seen[a] + 1 \in 1 .. MaxDatagrams
<1>1. MaxDatagrams \in Nat /\ seen[a] \in 0 .. MaxDatagrams
  BY ListenerAssumption DEF Bounded
<1>2. SUFFICES ASSUME seen[a] = MaxDatagrams
               PROVE  FALSE
  BY <1>1
<1>3. IsFiniteSet(Received)
  <2>1. PICK P : P = Addr \X (1 .. MaxDatagrams)
    OBVIOUS
  <2>2. IsFiniteSet(P)
    <3>1. IsFiniteSet(1 .. MaxDatagrams) /\ IsFiniteSet(Addr)
      BY <1>1, ListenerAssumption, FS_Interval
    <3> QED  BY <2>1, <3>1, FS_Product
  <2>3. PICK g : g = [x \in P |-> [from |-> x[1], number |-> x[2]]]
    OBVIOUS
  <2>4. g \in Surjection(P, Datagram)
    <3>1. g \in [P -> Datagram]
      BY <2>1, <2>3 DEF Datagram
    <3>2. \A d \in Datagram : <<d.from, d.number>> \in P /\ g[<<d.from, d.number>>] = d
      BY <2>1, <2>3 DEF Datagram
    <3> QED  BY <3>1, <3>2 DEF Surjection
  <2>5. IsFiniteSet(Datagram)
    BY <2>2, <2>4, FS_Surjection
  <2> QED  BY <2>5, FS_Subset DEF Received
<1>4. PICK own : own = [n \in 1 .. MaxDatagrams |-> [from |-> a, number |-> n]]
  OBVIOUS
<1>5. own \in Injection(1 .. MaxDatagrams, Received)
  <2>1. \A n \in 1 .. MaxDatagrams : own[n] \in Received /\ own[n].number = n
    BY <1>2, <1>4 DEF Received, Datagram
  <2>2. own \in [1 .. MaxDatagrams -> Received]
    BY <1>4, <2>1
  <2>3. \A m, n \in 1 .. MaxDatagrams : own[m] = own[n] => m = n
    BY <2>1
  <2> QED  BY <2>2, <2>3 DEF Injection, IsInjective
<1>6. Cardinality(1 .. MaxDatagrams) <= Cardinality(Received)
  BY <1>3, <1>5, FS_Injection
<1>7. Cardinality(1 .. MaxDatagrams) = MaxDatagrams
  BY <1>1, FS_Interval
<1>8. Cardinality(Received) \in Nat
  BY <1>3, FS_CardinalityType
<1> QED  BY <1>1, <1>6, <1>7, <1>8

LEMMA BoundedInit == Init => Bounded
<1> SUFFICES ASSUME Init
             PROVE  Bounded
  OBVIOUS
<1>1. N = 0
  BY DEF Init, N
<1>2. CHANNEL_LEN \in Nat /\ MaxDatagrams \in Nat
  BY ListenerAssumption
<1> QED  BY <1>1, <1>2, EmptySeq DEF Init, Bounded

LEMMA ReceiveBounded ==
  ASSUME TableInv, Bounded, NEW a \in Addr, Receive(a)
  PROVE  Bounded'
<1>1. /\ Typed /\ N \in Nat /\ CHANNEL_LEN \in Nat /\ CHANNEL_LEN # 0
      /\ seen \in [Addr -> 0 .. MaxDatagrams] /\ MaxDatagrams \in Nat
  BY Indices, ListenerAssumption DEF TableInv, Bounded
<1>2. /\ seen' = [seen EXCEPT ![a] = seen[a] + 1] /\ pc' \in {"send", "offer"}
      /\ held' = [from |-> a, number |-> seen[a] + 1]
      /\ UNCHANGED session_vars
  BY DEF Receive
<1>3. seen[a] + 1 \in 1 .. MaxDatagrams
  BY NumberBound DEF Receive
<1>4. seen' \in [Addr -> 0 .. MaxDatagrams]
  BY <1>1, <1>2, <1>3
<1>5. held' \in Datagram /\ held' # Nothing
  BY <1>2, <1>3, ListenerAssumption DEF Datagram
<1>6. /\ accepting \in Seq(1 .. N) /\ Len(accepting) <= CHANNEL_LEN
      /\ accepted \subseteq 1 .. N /\ ended \subseteq accepted
      /\ failed \subseteq accepted \ ended
      /\ channel \in Seq(Seq(Datagram)) /\ got \in Seq(Seq(Datagram))
      /\ \A st \in 1 .. N : Len(channel[st]) <= CHANNEL_LEN
  BY DEF Bounded
<1>7. CASE UNCHANGED stream_vars
  BY <1>2, <1>4, <1>5, <1>6, <1>7 DEF Bounded, N, stream_vars, session_vars
<1>8. CASE Opens(a)
  <2>1. /\ N' = N + 1 /\ channel'[N'] = <<held'>>
        /\ \A st \in 1 .. N : channel'[st] = channel[st]
    BY <1>1, <1>2, <1>8, OpensStep
  <2>2. accepting' \in Seq(1 .. N')
    <3>1. 1 .. N \subseteq 1 .. N'
      BY <1>1, <2>1
    <3> QED  BY <1>2, <1>6, <3>1, SeqMonotonic DEF session_vars
  <2>3. channel' \in Seq(Seq(Datagram)) /\ got' \in Seq(Seq(Datagram))
    <3>1. PICK one, none : one = <<held'>> /\ none = <<>>
      OBVIOUS
    <3>2. one \in Seq(Datagram) /\ none \in Seq(Datagram)
      BY <1>5, <3>1, EmptySeq
    <3>3. channel' = Append(channel, one) /\ got' = Append(got, none)
      BY <1>2, <1>8, <3>1 DEF Opens
    <3> QED  BY <1>6, <3>2, <3>3, AppendProperties
  <2>4. ASSUME NEW st \in 1 .. N'
        PROVE  Len(channel'[st]) <= CHANNEL_LEN
    <3>1. CASE st = N'
      <4>1. channel'[st] = <<held'>>
        BY <2>1, <3>1
      <4>2. Len(channel'[st]) = 1
        BY <4>1
      <4> QED  BY <1>1, <4>2
    <3>2. CASE st # N'
      <4>1. st \in 1 .. N
        BY <1>1, <2>1, <3>2
      <4> QED  BY <1>6, <2>1, <4>1
    <3> QED  BY <3>1, <3>2
  <2>5. accepted' \subseteq 1 .. N'
    BY <1>1, <1>2, <1>6, <2>1 DEF session_vars
  <2> QED
    BY <1>2, <1>4, <1>5, <1>6, <2>2, <2>3, <2>4, <2>5 DEF Bounded, session_vars
<1> QED  BY <1>7, <1>8 DEF Receive, Opens

LEMMA SendBounded ==
  ASSUME TableInv, Bounded, Send
  PROVE  Bounded'
<1>1. PICK st : st = streams[held.from]
  OBVIOUS
<1>2. /\ Typed /\ pc = "send" /\ DOMAIN channel = 1 .. N /\ Len(channel) = N
      /\ CHANNEL_LEN \in Nat
      /\ channel' = [channel EXCEPT ![st] = Append(channel[st], held)]
      /\ Len(channel[st]) < CHANNEL_LEN
      /\ UNCHANGED <<seen, peer_addr, got, session_vars>>
      /\ pc' = "recv" /\ held' = Nothing
  BY <1>1, Indices, ListenerAssumption DEF TableInv, Typed, Send
<1>3. st \in 1 .. N
  BY <1>1, <1>2, Indices DEF TableInv, Typed, Tabled, AnyDatagram
<1>4. /\ held \in Datagram /\ channel \in Seq(Seq(Datagram))
      /\ channel[st] \in Seq(Datagram)
  BY <1>2, <1>3, ElementOfSeq DEF Bounded
<1>5. /\ Append(channel[st], held) \in Seq(Datagram)
      /\ Len(Append(channel[st], held)) = Len(channel[st]) + 1
      /\ Len(channel[st]) \in Nat
  BY <1>4, AppendProperties, LenProperties
<1>6. /\ channel' \in Seq(Seq(Datagram))
      /\ \A s \in 1 .. N :
           channel'[s] = IF s = st THEN Append(channel[st], held) ELSE channel[s]
  BY <1>2, <1>3, <1>4, <1>5, ExceptSeq
<1>7. ASSUME NEW s \in 1 .. N
      PROVE  Len(channel'[s]) <= CHANNEL_LEN
  BY <1>2, <1>5, <1>6 DEF Bounded
<1> QED  BY <1>2, <1>6, <1>7 DEF Bounded, N, session_vars

LEMMA PollReadBounded ==
  ASSUME TableInv, Bounded, NEW st \in Stream, PollRead(st)
  PROVE  Bounded'
<1>1. /\ st \in 1 .. N /\ Len(channel) = N /\ Len(got) = N
      /\ channel[st] # <<>> /\ CHANNEL_LEN \in Nat
      /\ channel' = [channel EXCEPT ![st] = Tail(channel[st])]
      /\ got' = [got EXCEPT ![st] = Append(got[st], Head(channel[st]))]
      /\ UNCHANGED <<listener_vars, peer_addr, session_vars>>
  BY Indices, ListenerAssumption DEF TableInv, Typed, PollRead
<1>2. /\ channel \in Seq(Seq(Datagram)) /\ got \in Seq(Seq(Datagram))
      /\ channel[st] \in Seq(Datagram) /\ got[st] \in Seq(Datagram)
  BY <1>1, ElementOfSeq DEF Bounded
<1>3. /\ Tail(channel[st]) \in Seq(Datagram) /\ Len(channel[st]) \in Nat
      /\ Len(Tail(channel[st])) = Len(channel[st]) - 1
      /\ Append(got[st], Head(channel[st])) \in Seq(Datagram)
  BY <1>1, <1>2, HeadTailProperties, LenProperties, AppendProperties
<1>4. /\ channel' \in Seq(Seq(Datagram)) /\ got' \in Seq(Seq(Datagram))
      /\ \A s \in 1 .. N :
           channel'[s] = IF s = st THEN Tail(channel[st]) ELSE channel[s]
  BY <1>1, <1>2, <1>3, ExceptSeq
<1>5. ASSUME NEW s \in 1 .. N
      PROVE  Len(channel'[s]) <= CHANNEL_LEN
  BY <1>1, <1>3, <1>4 DEF Bounded
<1> QED  BY <1>1, <1>4, <1>5 DEF Bounded, N, session_vars, listener_vars

LEMMA OfferBounded ==
  ASSUME TableInv, Bounded, Offer
  PROVE  Bounded'
<1>1. N \in 1 .. N
  BY Indices DEF TableInv, Tabled, Offer
<1>2. accepting' = Append(accepting, N) /\ Len(accepting) < CHANNEL_LEN
  BY DEF Offer, N
<1>3. accepting' \in Seq(1 .. N) /\ Len(accepting') <= CHANNEL_LEN
  <2>1. accepting \in Seq(1 .. N) /\ Len(accepting) \in Nat
    BY LenProperties DEF Bounded
  <2> QED  BY <1>1, <1>2, <2>1, AppendProperties, ListenerAssumption
<1> QED  BY <1>3 DEF Bounded, Offer, N, stream_vars

LEMMA AcceptBounded ==
  ASSUME Bounded, Accept
  PROVE  Bounded'
<1>1. /\ accepting \in Seq(1 .. N) /\ accepting # <<>> /\ Len(accepting) \in Nat
      /\ Len(accepting) <= CHANNEL_LEN
  BY LenProperties DEF Bounded, Accept
<1>2. /\ Head(accepting) \in 1 .. N /\ Tail(accepting) \in Seq(1 .. N)
      /\ Len(Tail(accepting)) = Len(accepting) - 1
  BY <1>1, HeadTailProperties
<1>3. Len(Tail(accepting)) <= CHANNEL_LEN
  BY <1>1, <1>2, ListenerAssumption
<1> QED  BY <1>2, <1>3 DEF Bounded, Accept, N, stream_vars, listener_vars

LEMMA BoundedInductive == TableInv /\ Bounded /\ [Next]_vars => Bounded'
<1> SUFFICES ASSUME TableInv, Bounded, [Next]_vars
             PROVE  Bounded'
  OBVIOUS
<1>1. ASSUME NEW a \in Addr, Receive(a)
      PROVE  Bounded'
  BY <1>1, ReceiveBounded
<1>2. CASE Send \/ Offer \/ Accept
  BY <1>2, SendBounded, OfferBounded, AcceptBounded
<1>3. CASE SendFails
  BY <1>3 DEF SendFails, Bounded, N, stream_vars, session_vars
<1>4. ASSUME NEW st \in Stream, PollRead(st)
      PROVE  Bounded'
  BY <1>4, PollReadBounded
<1>5. ASSUME NEW st \in Stream, ReadFails(st) \/ ReadAgain(st)
      PROVE  Bounded'
  BY <1>5 DEF ReadFails, ReadAgain, Bounded, N, stream_vars, listener_vars
<1>6. ASSUME NEW st \in Stream,
             WriteError(st) \/ SetDrop(st) \/ DropReceiver(st)
      PROVE  Bounded'
  BY <1>6
  DEF WriteError, SetDrop, DropReceiver, Bounded, N, session_vars, listener_vars
<1>7. CASE UNCHANGED vars
  BY <1>7 DEF vars, Bounded, N, stream_vars, session_vars, listener_vars
<1> QED  BY <1>1, <1>2, <1>3, <1>4, <1>5, <1>6, <1>7 DEF Next

(* The channels keep their capacity, the table leads to streams of its     *)
(* addresses, and a datagram has its number within the bound.              *)
THEOREM ListenerTypeCorrect == Spec => []TypeOK
<1> QED
  BY TableInit, TableInductive, BoundedInit, BoundedInductive, BoundedTypes, PTL
  DEF Spec
=============================================================================
