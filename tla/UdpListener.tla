---------------------------- MODULE UdpListener ----------------------------
(***************************************************************************)
(* The UDP "connections" under DTLS (core/src/network/udpstream.rs): the   *)
(* task spawned by UdpListener::bind, which sorts the datagrams of one     *)
(* socket into one UdpStream per peer address, the accept loop of          *)
(* dtls_listener, and the sessions that read the streams and drop them.    *)
(*                                                                         *)
(* A stream is numbered by the order of its creation.  The channel of a    *)
(* stream and the channel of accepted streams are bounded: a send waits    *)
(* until there is room, and with it everything else the listener does.     *)
(***************************************************************************)
EXTENDS Integers, Sequences, FiniteSets

CONSTANTS
  Addr,          \* the addresses of the peers
  Nothing,       \* no datagram (the listener holds none)
  CHANNEL_LEN,   \* capacity of each channel (100 in the code)
  MaxDatagrams   \* bound: datagrams received

ASSUME ListenerAssumption ==
  /\ IsFiniteSet(Addr)
  /\ Nothing \notin [from : Addr, number : Nat]
  /\ CHANNEL_LEN \in Nat \ {0}
  /\ MaxDatagrams \in Nat

VARIABLES
  streams,    \* address -> the stream of the listener's table, or 0
  peer_addr,  \* the address of each stream created so far
  channel,    \* datagrams in the channel of each stream
  drop,       \* the drop flag of each stream
  receiver,   \* whether the receiving half of its channel still exists
  accepting,  \* tx: streams created and not accepted yet
  accepted,   \* streams that have a session
  failed,     \* sessions whose last read has failed, and that live on
  ended,      \* sessions that have ended: their streams are being dropped
  pc,         \* where the listener is: "recv", "send" or "offer"
  held,       \* the datagram the listener is passing on
  seen,       \* history: datagrams received from each address
  got         \* history: datagrams each stream's session has read

stream_vars == <<peer_addr, channel, drop, receiver, got>>
listener_vars == <<streams, pc, held, seen>>
session_vars == <<accepting, accepted, failed, ended>>
vars == <<listener_vars, stream_vars, session_vars>>

Stream == DOMAIN peer_addr

(* A peer numbers its datagrams; Received are those of all peers so far.   *)
Datagram == [from : Addr, number : 1 .. MaxDatagrams]
Received == {d \in Datagram : d.number <= seen[d.from]}

Init ==
  /\ streams = [a \in Addr |-> 0]
  /\ peer_addr = <<>> /\ channel = <<>> /\ drop = <<>> /\ receiver = <<>>
  /\ got = <<>>
  /\ accepting = <<>> /\ accepted = {} /\ failed = {} /\ ended = {}
  /\ pc = "recv" /\ held = Nothing
  /\ seen = [a \in Addr |-> 0]

-----------------------------------------------------------------------------
(* The listener                                                            *)

(* Before a datagram is passed on, every stream whose flag is set leaves   *)
(* the table.                                                              *)
Swept_Nothing(table) == table      \* mutant: the flags are not looked at

Swept(table) ==
  [a \in Addr |-> IF table[a] # 0 /\ drop[table[a]] THEN 0 ELSE table[a]]

Receive(a) ==
  LET datagram == [from |-> a, number |-> seen[a] + 1]
  IN  /\ pc = "recv"
      /\ Cardinality(Received) < MaxDatagrams
      /\ seen' = [seen EXCEPT ![a] = @ + 1]
      /\ streams' = Swept(streams)
      /\ held' = datagram
      /\ \/ /\ streams'[a] # 0
            /\ pc' = "send"
            /\ UNCHANGED stream_vars
         \/ /\ streams'[a] = 0
            /\ pc' = "offer"
            /\ peer_addr' = Append(peer_addr, a)
            /\ channel' = Append(channel, <<datagram>>)
            /\ drop' = Append(drop, FALSE)
            /\ receiver' = Append(receiver, TRUE)
            /\ got' = Append(got, <<>>)
      /\ UNCHANGED session_vars

Send_Try ==                        \* mutant: try_send
  LET st == streams[held.from]
  IN  /\ pc = "send"
      /\ receiver[st]
      /\ channel' = IF Len(channel[st]) < CHANNEL_LEN
                    THEN [channel EXCEPT ![st] = Append(@, held)] ELSE channel
      /\ pc' = "recv" /\ held' = Nothing
      /\ UNCHANGED <<streams, seen, peer_addr, drop, receiver, got,
                     session_vars>>

Send_Unbounded ==                  \* mutant: an unbounded channel
  /\ pc = "send"
  /\ receiver[streams[held.from]]
  /\ channel' = [channel EXCEPT ![streams[held.from]] = Append(@, held)]
  /\ pc' = "recv" /\ held' = Nothing
  /\ UNCHANGED <<streams, seen, peer_addr, drop, receiver, got,
                 session_vars>>

(* child_tx.send to the stream of the table: waits for room ...            *)
Send ==
  LET st == streams[held.from]
  IN  /\ pc = "send"
      /\ receiver[st] /\ Len(channel[st]) < CHANNEL_LEN
      /\ channel' = [channel EXCEPT ![st] = Append(@, held)]
      /\ pc' = "recv" /\ held' = Nothing
      /\ UNCHANGED <<streams, seen, peer_addr, drop, receiver, got,
                     session_vars>>

(* ... and fails when the stream is dropped meanwhile: the datagram is     *)
(* lost and the stream leaves the table.                                   *)
SendFails ==
  /\ pc = "send"
  /\ ~receiver[streams[held.from]]
  /\ streams' = [streams EXCEPT ![held.from] = 0]
  /\ pc' = "recv" /\ held' = Nothing
  /\ UNCHANGED <<seen, stream_vars, session_vars>>

Offer_NotEntered ==                \* mutant: the stream is not entered
  /\ pc = "offer"
  /\ Len(accepting) < CHANNEL_LEN
  /\ accepting' = Append(accepting, Len(peer_addr))
  /\ pc' = "recv" /\ held' = Nothing
  /\ UNCHANGED <<streams, seen, stream_vars, accepted, failed, ended>>

(* tx.send of the new stream: waits for room, then enters it in the table. *)
Offer ==
  LET st == Len(peer_addr)
  IN  /\ pc = "offer"
      /\ Len(accepting) < CHANNEL_LEN
      /\ accepting' = Append(accepting, st)
      /\ streams' = [streams EXCEPT ![held.from] = st]
      /\ pc' = "recv" /\ held' = Nothing
      /\ UNCHANGED <<seen, stream_vars, accepted, failed, ended>>

-----------------------------------------------------------------------------
(* The accept loop of dtls_listener and the sessions it spawns             *)
Accept ==
  /\ accepting # <<>>
  /\ accepting' = Tail(accepting)
  /\ accepted' = accepted \cup {Head(accepting)}
  /\ UNCHANGED <<listener_vars, stream_vars, failed, ended>>

PollRead_Last(st) ==               \* mutant: the newest datagram first
  /\ st \in accepted \ (failed \cup ended)
  /\ channel[st] # <<>>
  /\ got' = [got EXCEPT ![st] = Append(@, channel[st][Len(channel[st])])]
  /\ channel' = [channel EXCEPT ![st] = SubSeq(@, 1, Len(@) - 1)]
  /\ UNCHANGED <<listener_vars, peer_addr, drop, receiver, session_vars>>

PollRead(st) ==
  /\ st \in accepted \ (failed \cup ended)
  /\ channel[st] # <<>>
  /\ got' = [got EXCEPT ![st] = Append(@, Head(channel[st]))]
  /\ channel' = [channel EXCEPT ![st] = Tail(@)]
  /\ UNCHANGED <<listener_vars, peer_addr, drop, receiver, session_vars>>

(* The pattern of the read branch does not match an error: the session     *)
(* only waits for m_rx, and its stream is neither read nor dropped.  (So it*)
(* is when a read returns Ok(0) for ever.)                                 *)
ReadFails(st) ==
  /\ st \in accepted \ (failed \cup ended)
  /\ failed' = failed \cup {st}
  /\ UNCHANGED <<listener_vars, stream_vars, accepting, accepted, ended>>

(* It has had a packet from m_rx, and goes back to reading.                *)
ReadAgain(st) ==
  /\ st \in failed
  /\ failed' = failed \ {st}
  /\ UNCHANGED <<listener_vars, stream_vars, accepting, accepted, ended>>

(* poll_write fails, and sets the flag of a stream that is still there.    *)
WriteError(st) ==
  /\ st \in accepted \ ended /\ ~drop[st]
  /\ drop' = [drop EXCEPT ![st] = TRUE]
  /\ UNCHANGED <<listener_vars, peer_addr, channel, receiver, got,
                 session_vars>>

(* A session ends (a failed handshake or write panics its task): Drop sets *)
(* the flag first, then the fields are dropped, the receiver among them.   *)
(* What the channel held is lost with it; the variable keeps it as history.*)
SetDrop(st) ==
  /\ st \in accepted \ ended
  /\ ended' = ended \cup {st} /\ failed' = failed \ {st}
  /\ drop' = [drop EXCEPT ![st] = TRUE]
  /\ UNCHANGED <<listener_vars, peer_addr, channel, receiver, got,
                 accepting, accepted>>

DropReceiver_Leak(st) == FALSE /\ UNCHANGED vars  \* mutant: it is kept alive

DropReceiver(st) ==
  /\ st \in ended /\ receiver[st]
  /\ receiver' = [receiver EXCEPT ![st] = FALSE]
  /\ UNCHANGED <<listener_vars, peer_addr, channel, drop, got,
                 session_vars>>

Next ==
  \/ \E a \in Addr : Receive(a)
  \/ Send \/ SendFails \/ Offer \/ Accept
  \/ \E st \in Stream :
       \/ PollRead(st) \/ ReadFails(st) \/ ReadAgain(st) \/ WriteError(st)
       \/ SetDrop(st) \/ DropReceiver(st)

Spec == Init /\ [][Next]_vars

(* The tasks are polled while they can move; a session whose reads have    *)
(* not failed goes on reading until it ends.                               *)
Fairness ==
  /\ WF_vars(Send) /\ WF_vars(SendFails) /\ WF_vars(Offer) /\ WF_vars(Accept)
  /\ \A st \in 1 .. MaxDatagrams :
       /\ WF_vars(st \in Stream /\ PollRead(st))
       /\ WF_vars(st \in Stream /\ DropReceiver(st))

FairSpec == Spec /\ Fairness

-----------------------------------------------------------------------------
(* Properties                                                              *)

(* The variables have their types and the channels their capacity; the     *)
(* table maps an address to a stream of that address.                      *)
TypeOK ==
  /\ streams \in [Addr -> 0 .. Len(peer_addr)]
  /\ \A a \in Addr : streams[a] # 0 => peer_addr[streams[a]] = a
  /\ peer_addr \in Seq(Addr)
  /\ channel \in Seq(Seq(Datagram)) /\ Len(channel) = Len(peer_addr)
  /\ \A st \in Stream : Len(channel[st]) <= CHANNEL_LEN
  /\ drop \in Seq(BOOLEAN) /\ Len(drop) = Len(peer_addr)
  /\ receiver \in Seq(BOOLEAN) /\ Len(receiver) = Len(peer_addr)
  /\ got \in Seq(Seq(Datagram)) /\ Len(got) = Len(peer_addr)
  /\ accepting \in Seq(Stream) /\ Len(accepting) <= CHANNEL_LEN
  /\ accepted \subseteq Stream /\ failed \subseteq accepted \ ended
  /\ ended \subseteq accepted /\ \A st \in ended : drop[st]
  /\ pc \in {"recv", "send", "offer"}
  /\ held \in Datagram \cup {Nothing} /\ (held = Nothing <=> pc = "recv")
  /\ pc = "send" => streams[held.from] # 0
  /\ seen \in [Addr -> 0 .. MaxDatagrams]

(* A peer never has two working streams: when one is opened for an address,*)
(* every earlier one has been dropped or has failed to write, whatever the *)
(* sessions did while the listener waited for room in a channel.           *)
OneLiveStream ==
  \A i, j \in Stream :
    i # j /\ peer_addr[i] = peer_addr[j] => drop[i] \/ drop[j]

(* A session is given datagrams of its peer only, in the order they came;  *)
(* and an old datagram never reaches a newer session of the same peer, nor *)
(* a new one an older session that still reads after it failed to write.   *)
Given(st) == got[st] \o channel[st]

SortedByPeer ==
  \A i, j \in Stream : \A m \in DOMAIN Given(i), n \in DOMAIN Given(j) :
    /\ Given(i)[m].from = peer_addr[i]
    /\ peer_addr[i] = peer_addr[j] /\ (i < j \/ (i = j /\ m < n))
         => Given(i)[m].number < Given(j)[n].number

(* The listener itself loses at most one datagram per session that ends:   *)
(* the one it was about to pass on (a full channel makes it wait instead). *)
Missing(a) ==
  {n \in 1 .. seen[a] :
     /\ held # [from |-> a, number |-> n]
     /\ \A st \in Stream : \A i \in DOMAIN Given(st) :
          Given(st)[i] # [from |-> a, number |-> n]}

LossAccounted ==
  \A a \in Addr :
    Cardinality(Missing(a)) <=
      Cardinality({st \in Stream : peer_addr[st] = a /\ ~receiver[st]})

(* A peer whose streams have all been dropped, or have failed to write,    *)
(* gets a new one with its very next datagram: no stale entry of the table *)
(* swallows it.                                                            *)
Reconnects ==
  [][\A a \in Addr :
       /\ seen'[a] > seen[a]
       /\ \A st \in Stream : peer_addr[st] = a => drop[st]
       => Len(peer_addr') > Len(peer_addr)]_vars

(* One full channel stops the listener for everybody, but not for ever:    *)
(* the session of the channel reads, or it ends and releases the listener. *)
(* The one exception is a session whose last read has failed: it does      *)
(* neither, and the peers of all other sessions wait with it.              *)
WaitsForFailed == pc = "send" /\ streams[held.from] \in failed

ListenerReturns == pc # "recv" ~> pc = "recv" \/ WaitsForFailed
=============================================================================
