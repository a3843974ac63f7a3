----------------------------- MODULE QuickList -----------------------------
(***************************************************************************)
(* The list commands of one key (core/eval_list.go) on a QuickList         *)
(* (core/quicklist.go), a doubly-linked list of ZipLists                   *)
(* (core/ziplist.go): pushes fill the nodes at the ends, pops unlink those *)
(* they empty, and a list that is emptied goes with its key.               *)
(*                                                                         *)
(* The QuickList is a record of its fields, and of the nodes by their      *)
(* addresses, which are numbers; NoNode is Go's nil, and a node that was   *)
(* unlinked is garbage and gone.  LPUSH and RPUSH push their arguments one *)
(* by one, a step each, as the commands of module Hash do.                 *)
(***************************************************************************)
EXTENDS Data, SequencesExt

CONSTANTS
    Vals,                \* those of the strings that are used as values
    ListMaxZiplistSize,  \* config.ListMaxZiplistSize, 128 in the code
    MaxLen               \* bound on the length of the list

ASSUME ListAssumption == ListMaxZiplistSize \in Nat \ {0} /\ MaxLen \in Nat

VARIABLES
    ql,      \* the value of the key, and whether there is one
    lcmd,    \* the command whose loop is running, and its rounds
    lsaid    \* what the last command answered, if it is over

listVars == <<ql, lcmd, lsaid>>

NoNode == 0
Positions == (-MaxLen - 1)..MaxLen
ListIdle == [op |-> "none", n |-> 0]

NewZipList == <<>>
NewQuickList ==
    [bound |-> TRUE, zl |-> [a \in {} |-> <<>>],
     prev |-> [a \in {} |-> NoNode], next |-> [a \in {} |-> NoNode],
     head |-> NoNode, tail |-> NoNode, count |-> 0, len |-> 0]
NoList == [NewQuickList EXCEPT !.bound = FALSE]

Nodes(q) == DOMAIN q.zl
Fresh(q) == CHOOSE a \in 1..(Cardinality(Nodes(q)) + 1) : a \notin Nodes(q)
-----------------------------------------------------------------------------
(* A new node between the nodes p and n, either of which may be NoNode: only  *)
(* the node's own pointers.                                                *)
WithNode(q, a, p, n) ==
    [q EXCEPT !.zl = Extended(@, a, NewZipList), !.prev = Extended(@, a, p),
              !.next = Extended(@, a, n), !.len = @ + 1]

ensureHead(q) ==
    IF q.head # NoNode THEN q
    ELSE LET a == Fresh(q) IN [WithNode(q, a, NoNode, NoNode) EXCEPT !.head = a, !.tail = a]

(* Fault: the old head does not learn of the new one.                      *)
GrowHeadOneWay(q) ==
    LET a == Fresh(q) IN [WithNode(q, a, NoNode, q.head) EXCEPT !.head = a]

(* Before a push: a full node at the end gets a new neighbour.             *)
GrowHead(q) ==
    LET a == Fresh(q) IN
    [WithNode(q, a, NoNode, q.head) EXCEPT !.prev[q.head] = a, !.head = a]

GrowTail(q) ==
    LET a == Fresh(q) IN
    [WithNode(q, a, q.tail, NoNode) EXCEPT !.next[q.tail] = a, !.tail = a]

IsFull(zl) == Len(zl) >= ListMaxZiplistSize

LPushOne(q0, v) ==
    LET q == ensureHead(q0)
        g == IF IsFull(q.zl[q.head]) THEN GrowHead(q) ELSE q IN
    [g EXCEPT !.zl[g.head] = <<v>> \o @, !.count = @ + 1]

RPushOne(q0, v) ==
    LET q == ensureHead(q0)
        g == IF IsFull(q.zl[q.tail]) THEN GrowTail(q) ELSE q IN
    [g EXCEPT !.zl[g.tail] = Append(@, v), !.count = @ + 1]

(* The neighbours of a point at each other, and a is gone.                 *)
Detach(q, a) ==
    LET rest == Nodes(q) \ {a} IN
    [q EXCEPT !.zl = [b \in rest |-> @[b]],
              !.next = [b \in rest |-> IF b = q.prev[a] THEN @[a] ELSE @[b]],
              !.prev = [b \in rest |-> IF b = q.next[a] THEN @[a] ELSE @[b]]]

(* Fault: a node that was unlinked is still counted.                       *)
removeNodeUncounted(q, a) ==
    [Detach(q, a) EXCEPT !.head = IF q.prev[a] = NoNode THEN q.next[a] ELSE @,
                         !.tail = IF q.next[a] = NoNode THEN q.prev[a] ELSE @]

removeNode(q, a) ==
    LET empty == q.len = 1 IN
    [Detach(q, a) EXCEPT
        !.head = IF empty THEN NoNode ELSE IF q.prev[a] = NoNode THEN q.next[a] ELSE @,
        !.tail = IF empty THEN NoNode ELSE IF q.next[a] = NoNode THEN q.prev[a] ELSE @,
        !.len = @ - 1]

Unlinked(q, a) == IF q.zl[a] = <<>> THEN removeNode(q, a) ELSE q

(* Fault: the value is taken from the wrong end of the last node.          *)
RPoppedFirst(q) == Unlinked([q EXCEPT !.zl[q.tail] = Tail(@), !.count = @ - 1], q.tail)

LPopped(q) == Unlinked([q EXCEPT !.zl[q.head] = Tail(@), !.count = @ - 1], q.head)
RPopped(q) == Unlinked([q EXCEPT !.zl[q.tail] = Front(@), !.count = @ - 1], q.tail)
-----------------------------------------------------------------------------
(* The nodes in the order of the next pointers; a walk goes no further     *)
(* than there are nodes, and one.                                          *)
Chain(q) ==
    LET at[i \in 1..(Cardinality(Nodes(q)) + 1)] ==
            IF i = 1 THEN q.head
            ELSE IF at[i - 1] = NoNode THEN NoNode ELSE q.next[at[i - 1]] IN
    [i \in {j \in DOMAIN at : at[j] # NoNode} |-> at[i]]

Parts(q) == LET c == Chain(q) IN [i \in DOMAIN c |-> q.zl[c[i]]]
AllElements(q) == FlattenSeq(Parts(q))

(* The elements ahead of the i-th of some parts.                           *)
Pos(parts, i) == Len(FlattenSeq(SubSeq(parts, 1, i - 1)))

(* An index from the right, made one from the left.                        *)
Normal(q, p) == IF p < 0 THEN q.count + p ELSE p

(* Index: whole nodes are skipped; nothing for a place out of range.       *)
Index(q, p) ==
    LET i == Normal(q, p)
        parts == Parts(q)
        In(j) == Pos(parts, j) <= i /\ i < Pos(parts, j + 1) IN
    IF i < 0 \/ i >= q.count THEN <<>>
    ELSE LET j == CHOOSE j \in DOMAIN parts : In(j) IN <<parts[j][i - Pos(parts, j) + 1]>>

(* The part of a node that begins at pos which is between two places.      *)
Part(zl, pos, start, stop) ==
    LET from == IF start > pos THEN start - pos ELSE 0
        to == IF stop < pos + Len(zl) - 1 THEN stop - pos ELSE Len(zl) - 1 IN
    SubSeq(zl, from + 1, to + 1)

Between(q, start, stop) ==
    LET parts == Parts(q) IN
    FlattenSeq([i \in DOMAIN parts |-> Part(parts[i], Pos(parts, i), start, stop)])

(* Fault: a start to the left of the list is not clamped.                  *)
RangeUnclamped(q, first, final) ==
    LET start == Normal(q, first)
        stop == IF Normal(q, final) >= q.count THEN q.count - 1 ELSE Normal(q, final) IN
    IF start < 0 \/ q.count = 0 \/ start > stop THEN <<>> ELSE Between(q, start, stop)

(* Range: both ends made indices from the left and clamped, then the part  *)
(* of each node that is between them.                                      *)
RangeOf(q, first, final) ==
    LET start == IF Normal(q, first) < 0 THEN 0 ELSE Normal(q, first)
        stop == IF Normal(q, final) >= q.count THEN q.count - 1 ELSE Normal(q, final) IN
    IF q.count = 0 \/ start > stop THEN <<>> ELSE Between(q, start, stop)
-----------------------------------------------------------------------------
ListInit == ql = NoList /\ lcmd = ListIdle /\ lsaid = NoAnswer

(* listGetOrCreate                                                         *)
ListCreated(q) == [q EXCEPT !.bound = TRUE]

(* One more round of the loop of op.                                       *)
ListRound(op) ==
    /\ lcmd.op \in {"none", op} /\ lcmd.n < MaxArgs /\ ql.count < MaxLen
    /\ lcmd' = [op |-> op, n |-> lcmd.n + 1]
    /\ lsaid' = NoAnswer

LPush(v) == ListRound("lpush") /\ ql' = LPushOne(ListCreated(ql), v)
RPush(v) == ListRound("rpush") /\ ql' = RPushOne(ListCreated(ql), v)

PushEnd ==
    /\ lcmd # ListIdle /\ lcmd' = ListIdle
    /\ lsaid' = <<lcmd.op, ql.count>> /\ UNCHANGED ql

ListAnswer(op, val) == lcmd = ListIdle /\ lsaid' = <<op, val>> /\ UNCHANGED lcmd

(* After a pop: the key goes with its last element.                        *)
Settled(q) == IF q.count = 0 THEN NoList ELSE q

LPop ==
    \/ ql.head = NoNode /\ ListAnswer("lpop", Nil) /\ UNCHANGED ql
    \/ ql.head # NoNode /\ ListAnswer("lpop", Head(ql.zl[ql.head])) /\ ql' = Settled(LPopped(ql))

RPop ==
    \/ ql.tail = NoNode /\ ListAnswer("rpop", Nil) /\ UNCHANGED ql
    \/ ql.tail # NoNode /\ ListAnswer("rpop", Last(ql.zl[ql.tail])) /\ ql' = Settled(RPopped(ql))

LLen == ListAnswer("llen", ql.count) /\ UNCHANGED ql

(* The key is deleted, overwritten, expired or evicted.                    *)
ListDropped == lcmd = ListIdle /\ ql' = NoList /\ lsaid' = NoAnswer /\ UNCHANGED lcmd

ListNext ==
    \/ \E v \in Vals : LPush(v) \/ RPush(v)
    \/ PushEnd \/ LPop \/ RPop \/ LLen \/ ListDropped

ListSpec == ListInit /\ [][ListNext]_listVars
-----------------------------------------------------------------------------
ListTypeOK ==
    /\ ql = [bound |-> ql.bound, zl |-> ql.zl, prev |-> ql.prev, next |-> ql.next,
             head |-> ql.head, tail |-> ql.tail, count |-> ql.count, len |-> ql.len]
    /\ ql.bound \in BOOLEAN
    /\ ql.zl \in [Nodes(ql) -> Seq(Vals)]
    /\ ql.prev \in [Nodes(ql) -> Nodes(ql) \cup {NoNode}]
    /\ ql.next \in [Nodes(ql) -> Nodes(ql) \cup {NoNode}]
    /\ ql.head \in Nodes(ql) \cup {NoNode} /\ ql.tail \in Nodes(ql) \cup {NoNode}
    /\ ql.count \in Nat /\ ql.len \in Nat
    /\ lcmd \in [op : {"none", "lpush", "rpush"}, n : 0..MaxArgs]
    /\ lcmd.op = "none" <=> lcmd = ListIdle

(* The orders of the nodes, and what it is for them to be linked in one.   *)
Orders(q) == [1..Cardinality(Nodes(q)) -> Nodes(q)]
InOrder(q, s) ==
    LET n == Cardinality(Nodes(q))
        at(i) == IF i \in 1..n THEN s[i] ELSE NoNode IN
    /\ \A a \in Nodes(q) : \E i \in 1..n : s[i] = a
    /\ q.head = at(1) /\ q.tail = at(n)
    /\ \A i \in 1..n : q.next[s[i]] = at(i + 1) /\ q.prev[s[i]] = at(i - 1)

(* The nodes have an order, from the head to the tail, in which next leads *)
(* to the node after and prev to the one before, and no node is out of it: *)
(* what pops at one end after pushes at the other rely on.  No node is     *)
(* empty, and none is larger than configured, whichever end it was filled  *)
(* from (quicklist.go:62-154).                                             *)
WellLinked ==
    /\ \E s \in Orders(ql) : InOrder(ql, s)
    /\ \A a \in Nodes(ql) : Len(ql.zl[a]) \in 1..ListMaxZiplistSize

(* The counters, which decide whether the list is empty, and so whether    *)
(* there is a list at all, and where negative indices point, are right     *)
(* (quicklist.go:31-34, eval_list.go:74-76).                               *)
CountsAgree ==
    /\ ql.count = Len(AllElements(ql)) /\ ql.len = Cardinality(Nodes(ql))
    /\ ql.bound <=> ql.count > 0

(* The nodes together are a sequence, and the commands answer as it would. *)
LAbs == INSTANCE ListAbs WITH
    list <- AllElements(ql), doing <- lcmd.op, answer <- lsaid
ImplementsList == LAbs!Spec

(* LRANGE and LINDEX give what is at the places asked for, from either end *)
(* of the list and beyond it (quicklist.go:156-237).                       *)
RangesAgree ==
    LET list == AllElements(ql) IN
    /\ \A first, final \in Positions : RangeOf(ql, first, final) = LAbs!Slice(list, first, final)
    /\ \A p \in Positions : Index(ql, p) = LAbs!Slice(list, p, p)
=============================================================================
