------------------------------- MODULE PubSub -------------------------------
(***************************************************************************)
(* Connections and pub/sub: the client events of RunAsyncTCPServer         *)
(* (server/async_tcp.go), NewClient and Client.Write (core/comm.go), and   *)
(* core/pubsub.go.                                                         *)
(*                                                                         *)
(* A channel holds pointers to Clients, a Client holds a file descriptor,  *)
(* and the kernel gives the descriptor of a closed connection to the next  *)
(* one: a pointer that outlives its connection would write to a stranger.  *)
(* Subscriptions and messages are written to sockets at once; all other    *)
(* replies of a batch wait in its buffer.  Sockets do not block: a write   *)
(* into a full one fails, or takes a part of the bytes and succeeds.       *)
(*                                                                         *)
(* A command that names several channels is a loop over them, and          *)
(* UNSUBSCRIBE without any is one over the client's own, in map order: its *)
(* rounds are consecutive steps of the batch.                              *)
(*                                                                         *)
(* What is written for a channel goes through Encode, which has no case    *)
(* for it: every confirmation and every message is the same nil.           *)
(***************************************************************************)
EXTENDS Integers, Sequences, FiniteSets

CONSTANTS
    Clients,    \* the addresses NewClient can return
    Fds,        \* the descriptors accept can return
    Channels,
    MaxOut,     \* the items a socket has room for
    MaxBatch,   \* bound on the buffered replies of one batch
    NoClient, NoFd

ASSUME BoundAssumption == MaxOut \in Nat \ {0} /\ MaxBatch \in Nat \ {0}
ASSUME NilAssumption == NoClient \notin Clients /\ NoFd \notin Fds
ASSUME FiniteAssumption == IsFiniteSet(Fds)

VARIABLES
    connectedClients,  \* fd -> *Client
    fdOf,              \* Client.Fd
    channels,          \* channel -> the set of its *Clients
    out,               \* per fd: what the kernel has for the peer
    who,               \* the fd whose batch is being evaluated, or NoFd
    buf,               \* how many replies wait in the batch's buffer
    told               \* the answer of the last PUBLISH

connections == <<connectedClients, fdOf>>
vars == <<connections, channels, out, who, buf, told>>

(* What a socket takes: a part of an item, a reply of the batch, or what   *)
(* Encode made of a value: its RESP form, or a nil.                        *)
Torn == [kind |-> "torn"]
Reply == [kind |-> "reply"]
Nil == [kind |-> "nil"]
Resp(value) == [kind |-> "resp", value |-> value]

(* Encode is a switch over the types of Go; all others are a nil.          *)
Encodable == {"string", "int64", "int", "int32", "uint", "[]string", "error"}
Encode(value) == IF value.type \in Encodable THEN Resp(value) ELSE Nil

(* The kind and the channel are put in a list of any things, with a count  *)
(* or the message behind them.                                             *)
List(kind, ch) == [type |-> "[]interface{}", kind |-> kind, ch |-> ch]
About(kind, ch) == Encode(List(kind, ch))
Items == {Torn, Reply, Nil}

Connected(f) == connectedClients[f] # NoClient
Subscribers(ch) == IF ch \in DOMAIN channels THEN channels[ch] ELSE {}

Init ==
    /\ connectedClients = [f \in Fds |-> NoClient]
    /\ fdOf = [c \in Clients |-> NoFd]
    /\ channels = [ch \in {} |-> {}]
    /\ out = [f \in Fds |-> <<>>]
    /\ who = NoFd /\ buf = 0
    /\ told = 0
-----------------------------------------------------------------------------
(* Client.Write of one item to a socket that holds s: all of it, a part of *)
(* it, or an error, for lack of room or because the peer is gone.          *)
Write(s, item) ==
    {s} \cup IF Len(s) < MaxOut THEN {Append(s, item), Append(s, Torn)} ELSE {}

(* The same for n replies in one call: the socket takes as many as fit.    *)
WriteReplies(s, n) ==
    LET Took(m) == s \o [i \in 1..m |-> Reply]
        room == MaxOut - Len(s) IN
    {Took(m) : m \in {i \in 0..n : i <= room}}
      \cup {Append(Took(m), Torn) : m \in {i \in 0..(n - 1) : i < room}}

(* A connection is accepted: a new Client at an address that nothing       *)
(* refers to, under a descriptor that is free.                             *)
Accept(f, c) ==
    /\ who = NoFd
    /\ ~Connected(f)
    /\ \A g \in Fds : connectedClients[g] # c
    /\ \A ch \in Channels : c \notin Subscribers(ch)
    /\ connectedClients' = [connectedClients EXCEPT ![f] = c]
    /\ fdOf' = [fdOf EXCEPT ![c] = f]
    /\ UNCHANGED <<channels, out, who, buf, told>>

(* The channels once c is taken out of those of D, where it may not be: a  *)
(* channel it leaves empty is deleted.                                     *)
Without(c, D) ==
    [ch \in {d \in DOMAIN channels : d \in D => channels[d] \ {c} # {}} |->
        IF ch \in D THEN channels[ch] \ {c} ELSE channels[ch]]

(* Fault: a closed connection keeps its subscriptions.                     *)
DisconnectDangling(f) ==
    /\ who = NoFd
    /\ Connected(f)
    /\ connectedClients' = [connectedClients EXCEPT ![f] = NoClient]
    /\ out' = [out EXCEPT ![f] = <<>>]
    /\ UNCHANGED <<fdOf, channels, who, buf, told>>

(* A read fails, or what it read is not RESP: RemoveClientFromPubSub,      *)
(* close, and the client is forgotten.                                     *)
Disconnect(f) ==
    /\ who = NoFd
    /\ Connected(f)
    /\ channels' = Without(connectedClients[f], Channels)
    /\ connectedClients' = [connectedClients EXCEPT ![f] = NoClient]
    /\ out' = [out EXCEPT ![f] = <<>>]
    /\ UNCHANGED <<fdOf, who, buf, told>>

(* EvalAndRespond begins on a batch of f's client.                         *)
Serve(f) ==
    /\ who = NoFd
    /\ Connected(f)
    /\ who' = f /\ buf' = 0
    /\ UNCHANGED <<connections, channels, out, told>>

Me == connectedClients[who]
Serving == who # NoFd

(* The confirmation goes to the socket ahead of the buffered replies.      *)
Confirm(kind, ch) ==
    \E s \in Write(out[fdOf[Me]], About(kind, ch)) : out' = [out EXCEPT ![fdOf[Me]] = s]

Subscribe(ch) ==
    /\ Serving
    /\ channels' = [d \in DOMAIN channels \cup {ch} |->
                       IF d = ch THEN Subscribers(ch) \cup {Me} ELSE channels[d]]
    /\ Confirm("subscribe", ch)
    /\ UNCHANGED <<connections, who, buf, told>>

(* Fault: the last one to leave a channel leaves it there.                 *)
UnsubscribeLeavingEmpty(ch) ==
    /\ Serving
    /\ channels' = [d \in DOMAIN channels |-> channels[d] \ IF d = ch THEN {Me} ELSE {}]
    /\ Confirm("unsubscribe", ch)
    /\ UNCHANGED <<connections, who, buf, told>>

Unsubscribe(ch) ==
    /\ Serving
    /\ channels' = Without(Me, {ch})
    /\ Confirm("unsubscribe", ch)
    /\ UNCHANGED <<connections, who, buf, told>>

(* Fault: every subscriber counts, whether the write succeeded or not.     *)
PublishCountingAll(ch) ==
    LET receivers == {fdOf[c] : c \in Subscribers(ch)} IN
    /\ Serving /\ buf < MaxBatch
    /\ out' \in {o \in [Fds -> UNION {Write(out[f], About("message", ch)) : f \in Fds}] :
                    \A f \in Fds : IF f \in receivers
                                   THEN o[f] \in Write(out[f], About("message", ch))
                                   ELSE o[f] = out[f]}
    /\ told' = Cardinality(receivers)
    /\ buf' = buf + 1
    /\ UNCHANGED <<connections, channels, who>>

(* The message goes to the descriptor each subscriber holds; the writes    *)
(* that succeed are counted.                                               *)
Publish(ch) ==
    LET receivers == {fdOf[c] : c \in Subscribers(ch)} IN
    /\ Serving /\ buf < MaxBatch
    /\ out' \in {o \in [Fds -> UNION {Write(out[f], About("message", ch)) : f \in Fds}] :
                    \A f \in Fds : IF f \in receivers
                                   THEN o[f] \in Write(out[f], About("message", ch))
                                   ELSE o[f] = out[f]}
    /\ told' = Cardinality({f \in Fds : out'[f] # out[f]})
    /\ buf' = buf + 1
    /\ UNCHANGED <<connections, channels, who>>

(* Any other command: its reply waits in the buffer.                       *)
Command ==
    /\ Serving /\ buf < MaxBatch
    /\ buf' = buf + 1
    /\ UNCHANGED <<connections, channels, out, who, told>>

(* Fault: the socket is taken to have room for every reply.                *)
RespondUnbounded ==
    /\ Serving
    /\ out' = [out EXCEPT ![fdOf[Me]] = @ \o [i \in 1..buf |-> Reply]]
    /\ who' = NoFd /\ buf' = 0
    /\ UNCHANGED <<connections, channels, told>>

(* One write for the whole buffer; what the socket does not take is lost.  *)
Respond ==
    /\ Serving
    /\ \E s \in WriteReplies(out[fdOf[Me]], buf) : out' = [out EXCEPT ![fdOf[Me]] = s]
    /\ who' = NoFd /\ buf' = 0
    /\ UNCHANGED <<connections, channels, told>>

(* The peer reads, at any time.                                            *)
Receive(f) ==
    /\ out[f] # <<>>
    /\ out' = [out EXCEPT ![f] = Tail(@)]
    /\ UNCHANGED <<connections, channels, who, buf, told>>

Next ==
    \/ \E f \in Fds, c \in Clients : Accept(f, c)
    \/ \E f \in Fds : Disconnect(f) \/ Serve(f) \/ Receive(f)
    \/ \E ch \in Channels : Subscribe(ch) \/ Unsubscribe(ch) \/ Publish(ch)
    \/ Command
    \/ Respond

Spec == Init /\ [][Next]_vars
-----------------------------------------------------------------------------
TypeOK ==
    /\ connectedClients \in [Fds -> Clients \cup {NoClient}]
    /\ fdOf \in [Clients -> Fds \cup {NoFd}]
    /\ DOMAIN channels \subseteq Channels
    /\ \A ch \in DOMAIN channels : channels[ch] \subseteq Clients
    /\ out \in [Fds -> UNION {[1..n -> Items] : n \in 0..MaxOut}]
    /\ who \in Fds \cup {NoFd}
    /\ buf \in 0..MaxBatch
    /\ told \in Nat

(* Every pointer in a channel is to the Client of a connection, the one    *)
(* its descriptor stands for: disconnecting clears all of them before the  *)
(* descriptor can be given to another connection (pubsub.go:134-143,       *)
(* async_tcp.go:297-303, Readme.md:675).                                   *)
SubscribersConnected ==
    \A ch \in DOMAIN channels : \A c \in channels[ch] :
        fdOf[c] \in Fds /\ connectedClients[fdOf[c]] = c

(* A channel in the map has a subscriber, whatever the order of            *)
(* unsubscribing and disconnecting: names that nobody listens to any more  *)
(* do not pile up (pubsub.go:76-80, 138-140).                              *)
NoEmptyChannels == \A ch \in DOMAIN channels : channels[ch] # {}

(* Both: the channels are those of the subscriptions that connected        *)
(* clients have, no more and no less (pubsub.go:65-94, 134-143).           *)
SubscriptionsSound == SubscribersConnected /\ NoEmptyChannels

(* Through pointers and descriptors, what PUBLISH writes is offered to the *)
(* subscribed connections and to no others, a confirmation to the one that *)
(* asked, and a new connection under an old descriptor inherits no         *)
(* subscription (pubsub.go:32-143).  It is about who is written to: what   *)
(* is written says nothing, which is SubscribersAreTold.                   *)
Connections == INSTANCE PubSubAbs WITH
    up <- {f \in Fds : Connected(f)},
    sub <- [f \in Fds |-> {ch \in Channels : connectedClients[f] \in Subscribers(ch)}]
ImplementsConnections == Connections!Spec

(* What commands write to a socket at once, when it takes all of it, says  *)
(* what happened and on which channel: "a three-element RESP array" for a  *)
(* subscription (Readme.md:669), and [message, channel, message] for a     *)
(* message (pubsub.go:110-111).                                            *)
SubscribersAreTold ==
    [][\A f \in Fds :
        Serving' /\ Len(out'[f]) > Len(out[f])
            => out'[f][Len(out'[f])] \in {Torn} \cup {Resp(List(kind, ch)) :
                   kind \in {"subscribe", "unsubscribe", "message"}, ch \in Channels}]_vars
=============================================================================
