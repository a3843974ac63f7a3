---------------------------- MODULE PubSubProofs ----------------------------
(***************************************************************************)
(* What PubSub.tla checks on three Clients and two descriptors, proved for *)
(* any of its constants: type correctness, that channels hold the Clients  *)
(* of connections and are not empty, and that what PUBLISH writes, a nil   *)
(* whatever the message, is offered to the connections that subscribed,    *)
(* and to no others.                                                       *)
(***************************************************************************)
EXTENDS PubSub, FiniteSetTheorems, TLAPS

(* A connection's Client has the connection's descriptor, so no two share  *)
(* a Client; and the batch under evaluation is a connection's.             *)
ClientsOwnDescriptors ==
    \A f \in Fds : Connected(f) => connectedClients[f] \in Clients /\ fdOf[connectedClients[f]] = f
ServesConnected == Serving => Connected(who)

IInv ==
    /\ TypeOK
    /\ SubscribersConnected
    /\ NoEmptyChannels
    /\ ClientsOwnDescriptors
    /\ ServesConnected
-----------------------------------------------------------------------------
(* What a socket may hold.                                                 *)
Lines == UNION {[1..n -> Items] : n \in 0..MaxOut}

LEMMA LinesAreSequences == Lines = {s \in Seq(Items) : Len(s) <= MaxOut}
<1>1. ASSUME NEW s \in Lines
      PROVE  s \in Seq(Items) /\ Len(s) <= MaxOut
    <2>1. PICK n \in 0..MaxOut : s \in [1..n -> Items]
        BY DEF Lines
    <2>2. n \in Nat /\ n <= MaxOut
        BY BoundAssumption
    <2> QED BY <2>1, <2>2
<1>2. ASSUME NEW s \in Seq(Items), Len(s) <= MaxOut
      PROVE  s \in Lines
    <2>1. Len(s) \in 0..MaxOut /\ s \in [1..Len(s) -> Items]
        BY <1>2, BoundAssumption
    <2> QED BY <2>1 DEF Lines
<1> QED BY <1>1, <1>2

(* Encode has no case for the lists that channels are told of.             *)
LEMMA AboutIsNil == \A kind, ch : About(kind, ch) = Nil
<1> SUFFICES ASSUME NEW kind, NEW ch PROVE About(kind, ch) = Nil
    OBVIOUS
<1>1. List(kind, ch).type = "[]interface{}"
    BY DEF List
<1>2. "[]interface{}" \notin Encodable
    BY DEF Encodable
<1> QED BY <1>1, <1>2 DEF About, Encode

(* The items that commands write are items.                                *)
LEMMA ItemTypes ==
    /\ Torn \in Items /\ Reply \in Items
    /\ \A ch \in Channels : /\ About("subscribe", ch) \in Items
                            /\ About("unsubscribe", ch) \in Items
                            /\ About("message", ch) \in Items
    BY AboutIsNil DEF Items

(* Writes respect the room of the socket.                                  *)
LEMMA WriteFits ==
    ASSUME NEW s \in Lines, NEW item \in Items
    PROVE  Write(s, item) \subseteq Lines
<1>1. s \in Seq(Items) /\ Len(s) <= MaxOut /\ Len(s) \in Nat
    BY LinesAreSequences
<1>2. ASSUME NEW x \in Items, Len(s) < MaxOut
      PROVE  Append(s, x) \in Lines
    <2>1. Append(s, x) \in Seq(Items) /\ Len(Append(s, x)) = Len(s) + 1
        BY <1>1
    <2> QED BY <1>1, <1>2, <2>1, LinesAreSequences, BoundAssumption
<1>3. Torn \in Items
    BY ItemTypes
<1> QED BY <1>2, <1>3 DEF Write

LEMMA WriteRepliesFits ==
    ASSUME NEW s \in Lines, NEW n \in Nat
    PROVE  WriteReplies(s, n) \subseteq Lines
<1> DEFINE Took(m) == s \o [i \in 1..m |-> Reply]
           room == MaxOut - Len(s)
<1>1. s \in Seq(Items) /\ Len(s) <= MaxOut /\ Len(s) \in Nat /\ room \in Nat
    BY LinesAreSequences, BoundAssumption
<1>2. ASSUME NEW m \in Nat
      PROVE  Took(m) \in Seq(Items) /\ Len(Took(m)) = Len(s) + m
    <2>1. [i \in 1..m |-> Reply] \in Seq(Items) /\ Len([i \in 1..m |-> Reply]) = m
        BY ItemTypes
    <2> QED BY <1>1, <2>1
<1>3. ASSUME NEW m \in 0..n, m <= room
      PROVE  Took(m) \in Lines
    <2>1. Took(m) \in Seq(Items) /\ Len(Took(m)) = Len(s) + m
        BY <1>2
    <2> HIDE DEF Took
    <2> QED BY <1>1, <1>3, <2>1, LinesAreSequences, BoundAssumption
<1>4. ASSUME NEW m \in 0..(n - 1), m < room
      PROVE  Append(Took(m), Torn) \in Lines
    <2>1. Took(m) \in Seq(Items) /\ Len(Took(m)) = Len(s) + m
        BY <1>2
    <2>2. Torn \in Items
        BY ItemTypes
    <2> HIDE DEF Took
    <2>3. Append(Took(m), Torn) \in Seq(Items) /\ Len(Append(Took(m), Torn)) = Len(s) + m + 1
        BY <2>1, <2>2
    <2> QED BY <1>1, <1>4, <2>3, LinesAreSequences, BoundAssumption
<1> QED BY <1>3, <1>4 DEF WriteReplies

(* And so does reading.                                                    *)
LEMMA TailFits ==
    ASSUME NEW s \in Lines, s # <<>>
    PROVE  Tail(s) \in Lines
<1>1. s \in Seq(Items) /\ Len(s) <= MaxOut /\ Len(s) \in Nat
    BY LinesAreSequences
<1>2. Tail(s) \in Seq(Items) /\ Len(Tail(s)) = Len(s) - 1
    BY <1>1
<1> QED BY <1>1, <1>2, LinesAreSequences, BoundAssumption
-----------------------------------------------------------------------------
(* The client of the batch, and where it writes to.                        *)
LEMMA WhoIsServed ==
    ASSUME IInv, Serving
    PROVE  who \in Fds /\ Me \in Clients /\ fdOf[Me] = who /\ connectedClients[who] = Me
    BY DEF IInv, TypeOK, Serving, ServesConnected, ClientsOwnDescriptors, Me, Connected

(* The confirmation of a subscription goes to the client that asked.       *)
LEMMA ConfirmResult ==
    ASSUME IInv, Serving, NEW kind \in {"subscribe", "unsubscribe"}, NEW ch \in Channels,
           Confirm(kind, ch)
    PROVE  /\ \E s \in Write(out[who], About(kind, ch)) : out' = [out EXCEPT ![who] = s]
           /\ out' \in [Fds -> Lines]
<1>1. PICK s \in Write(out[who], About(kind, ch)) : out' = [out EXCEPT ![who] = s]
    BY WhoIsServed DEF Confirm
<1>2. out \in [Fds -> Lines] /\ who \in Fds
    BY WhoIsServed DEF IInv, TypeOK, Lines
<1>3. About(kind, ch) \in Items
    BY ItemTypes
<1>4. s \in Lines
    BY <1>1, <1>2, <1>3, WriteFits
<1> QED BY <1>1, <1>2, <1>4

LEMMA RespondResult ==
    ASSUME IInv, Respond
    PROVE  /\ \E s \in WriteReplies(out[who], buf) : out' = [out EXCEPT ![who] = s]
           /\ out' \in [Fds -> Lines]
<1>1. Serving
    BY DEF Respond
<1>2. PICK s \in WriteReplies(out[who], buf) : out' = [out EXCEPT ![who] = s]
    BY <1>1, WhoIsServed DEF Respond
<1>3. out \in [Fds -> Lines] /\ who \in Fds /\ buf \in Nat
    BY <1>1, WhoIsServed, BoundAssumption DEF IInv, TypeOK, Lines
<1>4. s \in Lines
    BY <1>2, <1>3, WriteRepliesFits
<1> QED BY <1>2, <1>3, <1>4

(* The socket of every subscriber takes the message, a part of it or       *)
(* nothing; the others are left alone.                                     *)
LEMMA PublishResult ==
    ASSUME IInv, NEW ch \in Channels, Publish(ch)
    PROVE  /\ \A f \in Fds : IF f \in {fdOf[c] : c \in Subscribers(ch)}
                             THEN out'[f] \in Write(out[f], About("message", ch))
                             ELSE out'[f] = out[f]
           /\ out' \in [Fds -> Lines]
           /\ told' = Cardinality({f \in Fds : out'[f] # out[f]})
<1> DEFINE receivers == {fdOf[c] : c \in Subscribers(ch)}
<1>1. /\ \A f \in Fds : IF f \in receivers
                        THEN out'[f] \in Write(out[f], About("message", ch))
                        ELSE out'[f] = out[f]
      /\ out' \in [Fds -> UNION {Write(out[f], About("message", ch)) : f \in Fds}]
      /\ told' = Cardinality({f \in Fds : out'[f] # out[f]})
    BY DEF Publish
<1>2. out \in [Fds -> Lines] /\ About("message", ch) \in Items
    BY ItemTypes DEF IInv, TypeOK, Lines
<1>3. \A f \in Fds : out[f] \in Lines /\ Write(out[f], About("message", ch)) \subseteq Lines
    BY <1>2, WriteFits
<1>4. \A f \in Fds : out'[f] \in Lines
    BY <1>1, <1>3
<1> QED BY <1>1, <1>4

(* What is left of the channels when a Client is taken out of some.        *)
LEMMA WithoutResult ==
    ASSUME IInv, NEW c \in Clients, NEW D \in SUBSET Channels, channels' = Without(c, D)
    PROVE  /\ DOMAIN channels' \subseteq DOMAIN channels
           /\ \A ch \in DOMAIN channels' :
                  channels'[ch] # {} /\ channels'[ch] \subseteq channels[ch]
           /\ \A ch \in Channels :
                  Subscribers(ch)' = IF ch \in D THEN Subscribers(ch) \ {c} ELSE Subscribers(ch)
<1>1. DOMAIN channels' \subseteq DOMAIN channels
    BY DEF Without
<1>2. \A ch \in DOMAIN channels' :
          channels'[ch] # {} /\ channels'[ch] \subseteq channels[ch]
    BY DEF Without, IInv, NoEmptyChannels
<1>3. \A ch \in Channels :
          Subscribers(ch)' = IF ch \in D THEN Subscribers(ch) \ {c} ELSE Subscribers(ch)
    BY DEF Without, Subscribers
<1> QED BY <1>1, <1>2, <1>3

LEMMA InitInvariant ==
    ASSUME Init
    PROVE  IInv
<1>1. <<>> \in Lines
    BY LinesAreSequences, BoundAssumption
<1>2. TypeOK
    <2>1. out \in [Fds -> Lines]
        BY <1>1 DEF Init
    <2> QED BY <2>1, BoundAssumption DEF Init, TypeOK, Lines
<1>3. SubscribersConnected /\ NoEmptyChannels /\ ClientsOwnDescriptors /\ ServesConnected
    BY DEF Init, SubscribersConnected, NoEmptyChannels, ClientsOwnDescriptors, ServesConnected,
           Connected, Serving
<1> QED BY <1>2, <1>3 DEF IInv

LEMMA StepInvariant ==
    ASSUME IInv, [Next]_vars
    PROVE  IInv'
<1> USE DEF Lines
<1>1. ASSUME NEW f \in Fds, NEW c \in Clients, Accept(f, c)
      PROVE  IInv'
    <2>1. TypeOK'
        BY <1>1 DEF Accept, IInv, TypeOK
    <2>2. \A ch \in DOMAIN channels : c \notin channels[ch]
        BY <1>1 DEF Accept, Subscribers, IInv, TypeOK
    <2>3. SubscribersConnected' /\ NoEmptyChannels'
        BY <1>1, <2>2, NilAssumption
           DEF Accept, IInv, TypeOK, SubscribersConnected, NoEmptyChannels, Connected
    <2>4. ClientsOwnDescriptors' /\ ServesConnected'
        BY <1>1, NilAssumption
           DEF Accept, IInv, TypeOK, ClientsOwnDescriptors, ServesConnected, Connected, Serving
    <2> QED BY <2>1, <2>3, <2>4 DEF IInv
<1>2. ASSUME NEW f \in Fds, Disconnect(f)
      PROVE  IInv'
    <2> DEFINE c == connectedClients[f]
    <2>1. /\ who = NoFd /\ Connected(f) /\ channels' = Without(c, Channels)
          /\ connectedClients' = [connectedClients EXCEPT ![f] = NoClient]
          /\ out' = [out EXCEPT ![f] = <<>>]
          /\ UNCHANGED <<fdOf, who, buf, told>>
        BY <1>2 DEF Disconnect
    <2>2. c \in Clients /\ fdOf[c] = f
        BY <2>1 DEF IInv, ClientsOwnDescriptors
    <2>3. /\ DOMAIN channels' \subseteq DOMAIN channels
          /\ \A ch \in DOMAIN channels' :
                 channels'[ch] # {} /\ channels'[ch] \subseteq channels[ch]
          /\ \A ch \in Channels : Subscribers(ch)' = Subscribers(ch) \ {c}
        BY <2>1, <2>2, WithoutResult
    <2>4. TypeOK'
        <3>1. <<>> \in Lines
            BY LinesAreSequences, BoundAssumption
        <3>2. out' \in [Fds -> Lines]
            BY <2>1, <3>1 DEF IInv, TypeOK
        <3> QED BY <2>1, <2>3, <3>2 DEF IInv, TypeOK
    <2>5. \A ch \in DOMAIN channels' : c \notin channels'[ch]
        BY <2>3, <2>4 DEF Subscribers, TypeOK
    <2>6. SubscribersConnected' /\ NoEmptyChannels'
        BY <2>1, <2>3, <2>5 DEF IInv, TypeOK, SubscribersConnected, NoEmptyChannels
    <2>7. ClientsOwnDescriptors' /\ ServesConnected'
        BY <2>1, NilAssumption
           DEF IInv, TypeOK, ClientsOwnDescriptors, ServesConnected, Connected, Serving
    <2> QED BY <2>4, <2>6, <2>7 DEF IInv
<1>3. ASSUME NEW f \in Fds, Serve(f)
      PROVE  IInv'
    BY <1>3, BoundAssumption
       DEF Serve, IInv, TypeOK, SubscribersConnected, NoEmptyChannels, ClientsOwnDescriptors,
           ServesConnected, Connected, connections
<1>4. ASSUME NEW ch \in Channels, Subscribe(ch)
      PROVE  IInv'
    <2>1. /\ Serving
          /\ channels' = [d \in DOMAIN channels \cup {ch} |->
                             IF d = ch THEN Subscribers(ch) \cup {Me} ELSE channels[d]]
          /\ UNCHANGED <<connections, who, buf, told>>
        BY <1>4 DEF Subscribe
    <2>2. who \in Fds /\ Me \in Clients /\ fdOf[Me] = who /\ connectedClients[who] = Me
        BY <2>1, WhoIsServed
    <2>3. out' \in [Fds -> Lines]
        BY <1>4, <2>1, ConfirmResult DEF Subscribe
    <2>4. TypeOK'
        BY <2>1, <2>2, <2>3 DEF IInv, TypeOK, Subscribers, connections
    <2>5. SubscribersConnected' /\ NoEmptyChannels'
        BY <2>1, <2>2
           DEF IInv, TypeOK, SubscribersConnected, NoEmptyChannels, Subscribers, connections
    <2>6. ClientsOwnDescriptors' /\ ServesConnected'
        BY <2>1 DEF IInv, ClientsOwnDescriptors, ServesConnected, Connected, Serving, connections
    <2> QED BY <2>4, <2>5, <2>6 DEF IInv
<1>5. ASSUME NEW ch \in Channels, Unsubscribe(ch)
      PROVE  IInv'
    <2>1. /\ Serving /\ channels' = Without(Me, {ch})
          /\ UNCHANGED <<connections, who, buf, told>>
        BY <1>5 DEF Unsubscribe
    <2>2. Me \in Clients
        BY <2>1, WhoIsServed
    <2>3. /\ DOMAIN channels' \subseteq DOMAIN channels
          /\ \A d \in DOMAIN channels' :
                 channels'[d] # {} /\ channels'[d] \subseteq channels[d]
        BY <2>1, <2>2, WithoutResult
    <2>4. out' \in [Fds -> Lines]
        BY <1>5, <2>1, ConfirmResult DEF Unsubscribe
    <2>5. TypeOK'
        BY <2>1, <2>3, <2>4 DEF IInv, TypeOK, connections
    <2>6. SubscribersConnected' /\ NoEmptyChannels'
        BY <2>1, <2>3 DEF IInv, TypeOK, SubscribersConnected, NoEmptyChannels, connections
    <2>7. ClientsOwnDescriptors' /\ ServesConnected'
        BY <2>1 DEF IInv, ClientsOwnDescriptors, ServesConnected, Connected, Serving, connections
    <2> QED BY <2>5, <2>6, <2>7 DEF IInv
<1>6. ASSUME NEW ch \in Channels, Publish(ch)
      PROVE  IInv'
    <2>1. /\ buf < MaxBatch /\ buf' = buf + 1
          /\ UNCHANGED <<connections, channels, who>>
        BY <1>6 DEF Publish
    <2>2. out' \in [Fds -> Lines] /\ told' = Cardinality({f \in Fds : out'[f] # out[f]})
        BY <1>6, PublishResult
    <2>3. told' \in Nat
        <3>1. IsFiniteSet({f \in Fds : out'[f] # out[f]})
            BY FiniteAssumption, FS_Subset
        <3> QED BY <2>2, <3>1, FS_CardinalityType
    <2>4. buf' \in 0..MaxBatch
        BY <2>1, BoundAssumption DEF IInv, TypeOK
    <2>5. TypeOK'
        BY <2>1, <2>2, <2>3, <2>4 DEF IInv, TypeOK, connections
    <2> QED BY <2>1, <2>5
        DEF IInv, TypeOK, SubscribersConnected, NoEmptyChannels, ClientsOwnDescriptors,
            ServesConnected, Connected, Serving, connections
<1>7. CASE Command
    BY <1>7, BoundAssumption
       DEF Command, IInv, TypeOK, SubscribersConnected, NoEmptyChannels, ClientsOwnDescriptors,
           ServesConnected, Connected, Serving, connections
<1>8. CASE Respond
    <2>1. out' \in [Fds -> Lines]
        BY <1>8, RespondResult
    <2>2. who' = NoFd /\ buf' = 0 /\ UNCHANGED <<connections, channels, told>>
        BY <1>8 DEF Respond
    <2>3. TypeOK'
        BY <2>1, <2>2, BoundAssumption DEF IInv, TypeOK, connections
    <2> QED BY <2>2, <2>3
        DEF IInv, TypeOK, SubscribersConnected, NoEmptyChannels, ClientsOwnDescriptors,
            ServesConnected, Connected, Serving, connections
<1>9. ASSUME NEW f \in Fds, Receive(f)
      PROVE  IInv'
    <2>1. out' = [out EXCEPT ![f] = Tail(@)] /\ out[f] # <<>>
          /\ UNCHANGED <<connections, channels, who, buf, told>>
        BY <1>9 DEF Receive
    <2>2. out \in [Fds -> Lines] /\ Tail(out[f]) \in Lines
        BY <2>1, TailFits DEF IInv, TypeOK
    <2>3. TypeOK'
        BY <2>1, <2>2 DEF IInv, TypeOK, connections
    <2> QED BY <2>1, <2>3
        DEF IInv, TypeOK, SubscribersConnected, NoEmptyChannels, ClientsOwnDescriptors,
            ServesConnected, Connected, Serving, connections
<1>10. CASE UNCHANGED vars
    BY <1>10
       DEF vars, IInv, TypeOK, SubscribersConnected, NoEmptyChannels, ClientsOwnDescriptors,
           ServesConnected, Connected, Serving, connections
<1> QED
    BY <1>1, <1>2, <1>3, <1>4, <1>5, <1>6, <1>7, <1>8, <1>9, <1>10 DEF Next

LEMMA Invariance == Spec => []IInv
<1>1. Init => IInv
    BY InitInvariant
<1>2. IInv /\ [Next]_vars => IInv'
    BY StepInvariant
<1> QED BY <1>1, <1>2, PTL DEF Spec

(* The variables keep their types, and no socket is asked to hold more     *)
(* than it has room for (comm.go, async_tcp.go:265-308).                   *)
THEOREM TypeCorrect == Spec => []TypeOK
BY Invariance, PTL DEF IInv

(* No channel ever has a pointer to the Client of a closed connection, or  *)
(* to one whose descriptor is another connection's, and none stays in the  *)
(* map when its last subscriber is gone (pubsub.go:76-80, 134-143).        *)
THEOREM SubscriptionsAlwaysSound == Spec => []SubscriptionsSound
BY Invariance, PTL DEF IInv, SubscriptionsSound
-----------------------------------------------------------------------------
LEMMA SameSize == ASSUME NEW S PROVE Connections!Cardinality(S) = Cardinality(S)
    BY Zenon DEF Connections!Cardinality, Cardinality

(* The abstract variables: connections, and the channels of each.          *)
Up == {f \in Fds : Connected(f)}
ChannelsOf(f) == {ch \in Channels : connectedClients[f] \in Subscribers(ch)}
Sub == [f \in Fds |-> ChannelsOf(f)]

LEMMA SameWrites ==
    /\ \A s, item : Write(s, item) = Connections!Offered(s, item)
    /\ \A kind, ch : About(kind, ch) = Connections!Nil
    BY AboutIsNil DEF Write, Torn, Nil, Connections!Offered, Connections!Torn, Connections!Nil

(* A batch's buffered replies are some of those the abstract server may    *)
(* have had.                                                               *)
LEMMA RepliesOffered ==
    ASSUME NEW s \in Lines, NEW n \in 0..MaxBatch
    PROVE  WriteReplies(s, n) \subseteq Connections!OfferedReplies(s, MaxBatch)
<1>1. n \in Nat /\ n <= MaxBatch /\ MaxBatch \in Nat
    BY BoundAssumption
<1>2. 0..n \subseteq 0..MaxBatch /\ 0..(n - 1) \subseteq 0..(MaxBatch - 1)
    BY <1>1
<1> QED BY <1>2
    DEF WriteReplies, Connections!OfferedReplies, Reply, Torn, Connections!Reply, Connections!Torn

(* Connections whose Clients and channels stay keep their subscriptions.   *)
LEMMA SameSubscriptions ==
    ASSUME UNCHANGED <<connections, channels>>
    PROVE  UNCHANGED <<Up, Sub>>
    BY DEF connections, Up, Sub, ChannelsOf, Connected, Subscribers

(* One connection's subscriptions change when its Client enters or leaves  *)
(* a channel: no other connection has that Client.                         *)
LEMMA OneSubscribes ==
    ASSUME IInv, NEW f \in Fds, Connected(f), NEW c, c = connectedClients[f],
           UNCHANGED connections, NEW ch \in Channels,
           \A d \in Channels \ {ch} : Subscribers(d)' = Subscribers(d),
           Subscribers(ch)' \ {c} = Subscribers(ch) \ {c}
    PROVE  /\ Up' = Up
           /\ c \in Subscribers(ch)' => Sub' = [Sub EXCEPT ![f] = @ \cup {ch}]
           /\ c \notin Subscribers(ch)' => Sub' = [Sub EXCEPT ![f] = @ \ {ch}]
<1>1. \A g \in Fds : g # f => connectedClients[g] # c
    <2>1. c \in Clients /\ fdOf[c] = f
        BY DEF IInv, ClientsOwnDescriptors
    <2> QED BY <2>1, NilAssumption DEF IInv, ClientsOwnDescriptors, Connected
<1>2. \A g \in Fds : ChannelsOf(g)' =
          {d \in Channels : connectedClients[g] \in Subscribers(d)'}
    BY DEF ChannelsOf, connections
<1>3. \A g \in Fds : g # f => ChannelsOf(g)' = ChannelsOf(g)
    <2> SUFFICES ASSUME NEW g \in Fds, g # f
                 PROVE  \A d \in Channels : connectedClients[g] \in Subscribers(d)'
                                                <=> connectedClients[g] \in Subscribers(d)
        BY <1>2 DEF ChannelsOf
    <2> QED BY <1>1
<1>4. c \in Subscribers(ch)' => ChannelsOf(f)' = ChannelsOf(f) \cup {ch}
    BY <1>2 DEF ChannelsOf
<1>5. c \notin Subscribers(ch)' => ChannelsOf(f)' = ChannelsOf(f) \ {ch}
    BY <1>2 DEF ChannelsOf
<1>6. Up' = Up
    BY DEF Up, Connected, connections
<1> QED BY <1>3, <1>4, <1>5, <1>6 DEF Sub

(* Every step is one of the abstract server's, or none at all.             *)
LEMMA StepImplements ==
    ASSUME IInv, [Next]_vars
    PROVE  [Connections!Next]_<<Up, Sub, out, told>>
<1>0. \A c \in Clients : c # NoClient
    BY NilAssumption
<1>1. ASSUME NEW f \in Fds, NEW c \in Clients, Accept(f, c)
      PROVE  Connections!Accept(f)
    <2>1. /\ ~Connected(f) /\ (\A ch \in Channels : c \notin Subscribers(ch))
          /\ connectedClients' = [connectedClients EXCEPT ![f] = c]
          /\ UNCHANGED <<channels, out, told>>
        BY <1>1 DEF Accept
    <2>2. f \notin Up /\ Up' = Up \cup {f}
        BY <1>0, <2>1 DEF Up, Connected, IInv, TypeOK
    <2>3. \A ch \in Channels : Subscribers(ch)' = Subscribers(ch) /\ NoClient \notin Subscribers(ch)
        BY <1>0, <2>1 DEF Subscribers, IInv, TypeOK
    <2>4. \A g \in Fds : ChannelsOf(g)' = ChannelsOf(g)
        <3>1. ASSUME NEW g \in Fds, g # f PROVE ChannelsOf(g)' = ChannelsOf(g)
            BY <2>1, <2>3, <3>1 DEF ChannelsOf, IInv, TypeOK
        <3>2. ChannelsOf(f)' = {} /\ ChannelsOf(f) = {}
            BY <2>1, <2>3 DEF ChannelsOf, Connected, IInv, TypeOK
        <3> QED BY <3>1, <3>2
    <2>5. Sub' = Sub
        BY <2>4 DEF Sub
    <2> QED BY <2>1, <2>2, <2>5 DEF Connections!Accept, Up, Sub, ChannelsOf
<1>2. ASSUME NEW f \in Fds, Disconnect(f)
      PROVE  Connections!Leave(f)
    <2> DEFINE c == connectedClients[f]
    <2>1. /\ Connected(f) /\ channels' = Without(c, Channels)
          /\ connectedClients' = [connectedClients EXCEPT ![f] = NoClient]
          /\ out' = [out EXCEPT ![f] = <<>>] /\ told' = told
        BY <1>2 DEF Disconnect
    <2>2. c \in Clients /\ (\A g \in Fds : g # f => connectedClients[g] # c)
        BY <1>0, <2>1 DEF IInv, ClientsOwnDescriptors, Connected
    <2>3. \A ch \in Channels : Subscribers(ch)' = Subscribers(ch) \ {c}
        BY <2>1, <2>2, WithoutResult
    <2>4. \A ch \in Channels : NoClient \notin Subscribers(ch)
        BY <1>0 DEF Subscribers, IInv, TypeOK
    <2>5. f \in Up /\ Up' = Up \ {f}
        BY <2>1 DEF Up, Connected, IInv, TypeOK
    <2>6. \A g \in Fds : ChannelsOf(g)' = IF g = f THEN {} ELSE ChannelsOf(g)
        <3>1. ASSUME NEW g \in Fds, g # f PROVE ChannelsOf(g)' = ChannelsOf(g)
            BY <2>1, <2>2, <2>3, <3>1 DEF ChannelsOf, IInv, TypeOK
        <3>2. ChannelsOf(f)' = {}
            BY <2>1, <2>3, <2>4 DEF ChannelsOf, IInv, TypeOK
        <3> QED BY <3>1, <3>2
    <2>7. Sub' = [Sub EXCEPT ![f] = {}]
        BY <2>6 DEF Sub
    <2> QED BY <2>1, <2>5, <2>7 DEF Connections!Leave, Up, Sub, ChannelsOf
<1>3. ASSUME NEW f \in Fds, Serve(f)
      PROVE  UNCHANGED <<Up, Sub, out, told>>
    BY <1>3, SameSubscriptions DEF Serve
<1>4. ASSUME NEW ch \in Channels, Subscribe(ch)
      PROVE  \E f \in Fds : Connections!Subscribe(f, ch)
    <2>1. /\ Serving
          /\ channels' = [d \in DOMAIN channels \cup {ch} |->
                             IF d = ch THEN Subscribers(ch) \cup {Me} ELSE channels[d]]
          /\ UNCHANGED <<connections, who, buf, told>>
        BY <1>4 DEF Subscribe
    <2>2. PICK f \in Fds : f = who /\ connectedClients[f] = Me /\ Connected(f)
        BY <2>1, WhoIsServed DEF IInv, ServesConnected
    <2>3. \E s \in Write(out[f], About("subscribe", ch)) : out' = [out EXCEPT ![f] = s]
        BY <1>4, <2>1, <2>2, ConfirmResult DEF Subscribe
    <2>4. /\ \A d \in Channels \ {ch} : Subscribers(d)' = Subscribers(d)
          /\ Subscribers(ch)' = Subscribers(ch) \cup {Me}
        BY <2>1 DEF Subscribers
    <2>5. Up' = Up /\ Sub' = [Sub EXCEPT ![f] = @ \cup {ch}]
        BY <2>1, <2>2, <2>4, OneSubscribes
    <2>6. f \in Up
        BY <2>2 DEF Up
    <2> QED BY <2>1, <2>3, <2>5, <2>6, SameWrites
        DEF Connections!Subscribe, Up, Sub, ChannelsOf
<1>5. ASSUME NEW ch \in Channels, Unsubscribe(ch)
      PROVE  \E f \in Fds : Connections!Unsubscribe(f, ch)
    <2>1. /\ Serving /\ channels' = Without(Me, {ch})
          /\ UNCHANGED <<connections, who, buf, told>>
        BY <1>5 DEF Unsubscribe
    <2>2. PICK f \in Fds : f = who /\ Me \in Clients /\ connectedClients[f] = Me /\ Connected(f)
        BY <2>1, WhoIsServed DEF IInv, ServesConnected
    <2>3. \E s \in Write(out[f], About("unsubscribe", ch)) : out' = [out EXCEPT ![f] = s]
        BY <1>5, <2>1, <2>2, ConfirmResult DEF Unsubscribe
    <2>4. /\ \A d \in Channels \ {ch} : Subscribers(d)' = Subscribers(d)
          /\ Subscribers(ch)' = Subscribers(ch) \ {Me}
        BY <2>1, <2>2, WithoutResult
    <2>5. Up' = Up /\ Sub' = [Sub EXCEPT ![f] = @ \ {ch}]
        BY <2>1, <2>2, <2>4, OneSubscribes
    <2>6. f \in Up
        BY <2>2 DEF Up
    <2> QED BY <2>1, <2>3, <2>5, <2>6, SameWrites
        DEF Connections!Unsubscribe, Up, Sub, ChannelsOf
<1>6. ASSUME NEW ch \in Channels, Publish(ch)
      PROVE  Connections!Publish(ch)
    <2> DEFINE Audience == {f \in Up : ch \in Sub[f]}
    <2>1. /\ \A f \in Fds : IF f \in {fdOf[c] : c \in Subscribers(ch)}
                            THEN out'[f] \in Write(out[f], About("message", ch))
                            ELSE out'[f] = out[f]
          /\ told' = Cardinality({f \in Fds : out'[f] # out[f]})
        BY <1>6, PublishResult
    <2>2. Audience = {fdOf[c] : c \in Subscribers(ch)}
        <3>1. \A f \in Audience : /\ f \in Fds /\ connectedClients[f] \in Subscribers(ch)
                                  /\ fdOf[connectedClients[f]] = f
            BY DEF Up, Sub, ChannelsOf, IInv, ClientsOwnDescriptors
        <3>2. \A c \in Subscribers(ch) : fdOf[c] \in Fds /\ connectedClients[fdOf[c]] = c /\ c # NoClient
            BY <1>0 DEF Subscribers, IInv, TypeOK, SubscribersConnected
        <3>3. \A c \in Subscribers(ch) : fdOf[c] \in Audience
            BY <3>2 DEF Up, Sub, ChannelsOf, Connected
        <3> QED BY <3>1, <3>3
    <2>3. UNCHANGED <<Up, Sub>>
        BY <1>6, SameSubscriptions DEF Publish
    <2>4. Audience \subseteq Fds
        BY DEF Up
    <2> HIDE DEF Audience
    <2>5. /\ \A f \in Audience : out'[f] \in Connections!Offered(out[f], Connections!Nil)
          /\ \A f \in Fds \ Audience : out'[f] = out[f]
        BY <2>1, <2>2, <2>4, SameWrites
    <2>6. told' = Connections!Cardinality({f \in Fds : out'[f] # out[f]})
        BY <2>1, SameSize
    <2> QED BY <2>3, <2>5, <2>6 DEF Audience, Connections!Publish, Up, Sub, ChannelsOf
<1>7. ASSUME Command
      PROVE  UNCHANGED <<Up, Sub, out, told>>
    BY <1>7, SameSubscriptions DEF Command
<1>8. ASSUME Respond
      PROVE  \E f \in Fds : Connections!Respond(f)
    <2>1. Serving /\ told' = told /\ UNCHANGED <<Up, Sub>>
        BY <1>8, SameSubscriptions DEF Respond
    <2>2. PICK f \in Fds : f = who /\ Connected(f) /\ out[f] \in Lines /\ buf \in 0..MaxBatch
        BY <2>1, WhoIsServed DEF IInv, ServesConnected, TypeOK, Lines
    <2>3. \E s \in WriteReplies(out[f], buf) : out' = [out EXCEPT ![f] = s]
        BY <1>8, <2>2, RespondResult
    <2>4. f \in Up
        BY <2>2 DEF Up
    <2>5. \E s \in Connections!OfferedReplies(out[f], MaxBatch) : out' = [out EXCEPT ![f] = s]
        BY <2>2, <2>3, RepliesOffered
    <2> QED BY <2>1, <2>4, <2>5 DEF Connections!Respond, Up, Sub, ChannelsOf
<1>9. ASSUME NEW f \in Fds, Receive(f)
      PROVE  Connections!Receive(f)
    BY <1>9, SameSubscriptions DEF Receive, Connections!Receive, Up, Sub, ChannelsOf
<1>10. ASSUME UNCHANGED vars
       PROVE  UNCHANGED <<Up, Sub, out, told>>
    BY <1>10, SameSubscriptions DEF vars
<1>11. ASSUME Next
       PROVE  Connections!Next \/ UNCHANGED <<Up, Sub, out, told>>
    <2>1. CASE \E f \in Fds, c \in Clients : Accept(f, c)
        BY <1>1, <2>1 DEF Connections!Next
    <2>2. CASE \E f \in Fds : Disconnect(f) \/ Serve(f) \/ Receive(f)
        BY <1>2, <1>3, <1>9, <2>2 DEF Connections!Next
    <2>3. CASE \E ch \in Channels : Subscribe(ch) \/ Unsubscribe(ch) \/ Publish(ch)
        BY <1>4, <1>5, <1>6, <2>3 DEF Connections!Next
    <2>4. CASE Command
        BY <1>7, <2>4
    <2>5. CASE Respond
        BY <1>8, <2>5 DEF Connections!Next
    <2> QED BY <1>11, <2>1, <2>2, <2>3, <2>4, <2>5 DEF Next
<1> QED BY <1>10, <1>11

(* Pointers, descriptors that are used again and channels deleted when     *)
(* empty amount to connections with sets of channels: PUBLISH offers its   *)
(* nil to the subscribers' sockets and to no other, and counts those that  *)
(* take some of it (pubsub.go:32-143, resp.go:425-426).                    *)
THEOREM Implementation == Spec => ImplementsConnections
<1>1. Init => Connections!Init
    <2> SUFFICES ASSUME Init PROVE Connections!Init
        OBVIOUS
    <2>1. Up = {}
        BY DEF Init, Up, Connected
    <2>2. Sub = [f \in Fds |-> {}]
        BY DEF Init, Sub, ChannelsOf, Subscribers
    <2> QED BY <2>1, <2>2 DEF Init, Connections!Init, Up, Sub, ChannelsOf
<1>2. IInv /\ [Next]_vars => [Connections!Next]_<<Up, Sub, out, told>>
    BY StepImplements
<1> QED BY <1>1, <1>2, Invariance, PTL
    DEF Spec, ImplementsConnections, Connections!Spec, Connections!vars, Up, Sub, ChannelsOf
=============================================================================
