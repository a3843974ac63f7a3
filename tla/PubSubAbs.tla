----------------------------- MODULE PubSubAbs -----------------------------
(***************************************************************************)
(* What Velox's pub/sub promises, in terms of connections only: every      *)
(* connection has its set of channels, empty when it is accepted, and what *)
(* PUBLISH sends is offered to the connections that have its channel and   *)
(* to nobody else.  A socket that has no room loses what is offered to it. *)
(* What is offered is a nil in every case, so that a connection learns     *)
(* that there was something, and neither what nor where.                   *)
(***************************************************************************)
EXTENDS Integers, Sequences, FiniteSets

CONSTANTS Fds, Channels, MaxOut, MaxBatch

VARIABLES
    up,     \* the connections
    sub,    \* per descriptor: the channels its connection is subscribed to
    out,    \* per descriptor: what its peer has yet to read
    told    \* the last PUBLISH's answer

vars == <<up, sub, out, told>>

Torn == [kind |-> "torn"]
Reply == [kind |-> "reply"]
Nil == [kind |-> "nil"]

(* What a socket may hold after a write of one item, or of n replies.      *)
Offered(s, item) ==
    {s} \cup IF Len(s) < MaxOut THEN {Append(s, item), Append(s, Torn)} ELSE {}
OfferedReplies(s, n) ==
    {s \o [i \in 1..m |-> Reply] : m \in 0..n}
      \cup {Append(s \o [i \in 1..m |-> Reply], Torn) : m \in 0..(n - 1)}

Init ==
    /\ up = {}
    /\ sub = [f \in Fds |-> {}]
    /\ out = [f \in Fds |-> <<>>]
    /\ told = 0

Accept(f) ==
    /\ f \notin up
    /\ up' = up \cup {f}
    /\ UNCHANGED <<sub, out, told>>

Leave(f) ==
    /\ f \in up
    /\ up' = up \ {f}
    /\ sub' = [sub EXCEPT ![f] = {}]
    /\ out' = [out EXCEPT ![f] = <<>>]
    /\ UNCHANGED told

Subscribe(f, ch) ==
    /\ f \in up
    /\ sub' = [sub EXCEPT ![f] = @ \cup {ch}]
    /\ \E s \in Offered(out[f], Nil) : out' = [out EXCEPT ![f] = s]
    /\ UNCHANGED <<up, told>>

Unsubscribe(f, ch) ==
    /\ f \in up
    /\ sub' = [sub EXCEPT ![f] = @ \ {ch}]
    /\ \E s \in Offered(out[f], Nil) : out' = [out EXCEPT ![f] = s]
    /\ UNCHANGED <<up, told>>

Publish(ch) ==
    LET Audience == {f \in up : ch \in sub[f]} IN
    /\ \A f \in Audience : out'[f] \in Offered(out[f], Nil)
    /\ \A f \in Fds \ Audience : out'[f] = out[f]
    /\ told' = Cardinality({f \in Fds : out'[f] # out[f]})
    /\ UNCHANGED <<up, sub>>

Respond(f) ==
    /\ f \in up
    /\ \E s \in OfferedReplies(out[f], MaxBatch) : out' = [out EXCEPT ![f] = s]
    /\ UNCHANGED <<up, sub, told>>

Receive(f) ==
    /\ out[f] # <<>>
    /\ out' = [out EXCEPT ![f] = Tail(@)]
    /\ UNCHANGED <<up, sub, told>>

Next ==
    \/ \E f \in Fds : Accept(f) \/ Leave(f) \/ Respond(f) \/ Receive(f)
    \/ \E f \in Fds, ch \in Channels : Subscribe(f, ch) \/ Unsubscribe(f, ch)
    \/ \E ch \in Channels : Publish(ch)

Spec == Init /\ [][Next]_vars
=============================================================================
