----------------------------- MODULE LinkedList -----------------------------
(***************************************************************************)
(* keymaster::List (List.h): a circle of nodes around mpMiddle, changed    *)
(* one pointer at a time.  Each list has one iterator.  Memory for a node  *)
(* is there: the code does not look at what new (std::nothrow) returns.    *)
(***************************************************************************)
EXTENDS Naturals, FiniteSets, Sequences

CONSTANTS
  Lists,     \* the lists; a list also names its mpMiddle node
  Nodes,     \* addresses of the other nodes
  Values     \* what the elements hold

Ptr == Lists \cup Nodes

VARIABLES
  node,   \* mpNext, mpPrev of every node, mVal of every element
  live,   \* the nodes that are allocated
  it      \* mpNode of the iterator of each list

listVars == <<node, live, it>>

\* What an operation works on: the links and the nodes allocated.
State == [node |-> node, live |-> live]
getNext(s, p) == s.node[p].next
getPrev(s, p) == s.node[p].prev
setNext(s, p, q) == [s EXCEPT !.node[p].next = q]
setPrev(s, p, q) == [s EXCEPT !.node[p].prev = q]

\* A node that is not in use, and mpMiddle after prep, point to themselves.
Blank(p) == [next |-> p, prev |-> p, val |-> CHOOSE v \in Values : TRUE]
delete(s, p) == [node |-> [s.node EXCEPT ![p] = Blank(p)], live |-> s.live \ {p}]

Init ==
  /\ node = [p \in Ptr |-> Blank(p)]
  /\ live = {}
  /\ it = [l \in Lists |-> l]

(***************************************************************************)
(* The operations, in the order the code writes the pointers.              *)
(***************************************************************************)
Alloc(s) == CHOOSE n \in Nodes : n \notin s.live

\* Mutant: the new node goes behind posn.
insertBehind(s, posn, v) ==
  LET n == Alloc(s)
      s0 == [node |-> [s.node EXCEPT ![n].val = v], live |-> s.live \cup {n}]
      s1 == setPrev(s0, n, posn)
      s2 == setNext(s1, n, getNext(s1, posn))
      s3 == setPrev(s2, getNext(s2, posn), n)
  IN  setNext(s3, posn, n)

insert(s, posn, v) ==
  LET n == Alloc(s)
      s0 == [node |-> [s.node EXCEPT ![n].val = v], live |-> s.live \cup {n}]
      s1 == setNext(s0, n, posn)
      s2 == setPrev(s1, n, getPrev(s1, posn))
      s3 == setNext(s2, getPrev(s2, posn), n)
  IN  setPrev(s3, posn, n)

\* Mutant: the node behind keeps its pointer to the erased one.
eraseForward(s, posn) == delete(setNext(s, getPrev(s, posn), getNext(s, posn)), posn)

erase(s, posn) ==
  LET pNext == getNext(s, posn)
      pPrev == getPrev(s, posn)
  IN  delete(setPrev(setNext(s, pPrev, pNext), pNext, pPrev), posn)

RECURSIVE insertRange(_, _, _, _)
insertRange(s, posn, first, last) ==
  IF first = last THEN s
  ELSE insertRange(insert(s, posn, s.node[first].val), posn, getNext(s, first), last)

\* The iterator is advanced before its node is deleted.
RECURSIVE eraseRange(_, _, _)
eraseRange(s, first, last) ==
  IF first = last THEN s ELSE eraseRange(erase(s, first), getNext(s, first), last)

RECURSIVE deleteFrom(_, _, _)
deleteFrom(s, pCurrent, middle) ==
  IF pCurrent = middle THEN s
  ELSE deleteFrom(delete(s, pCurrent), getNext(s, pCurrent), middle)

clear(s, l) == setNext(setPrev(deleteFrom(s, getNext(s, l), l), l, l), l, l)

\* operator=: values first, then the extra nodes go or the rest is inserted.
RECURSIVE assignFrom(_, _, _, _, _)
assignFrom(s, firstDst, lastDst, firstSrc, lastSrc) ==
  IF firstSrc # lastSrc /\ firstDst # lastDst
    THEN assignFrom([s EXCEPT !.node[firstDst].val = s.node[firstSrc].val],
                    getNext(s, firstDst), lastDst, getNext(s, firstSrc), lastSrc)
  ELSE IF firstSrc = lastSrc THEN eraseRange(s, firstDst, lastDst)
  ELSE insertRange(s, lastDst, firstSrc, lastSrc)

assign(s, l, m) ==
  IF l = m THEN s ELSE assignFrom(s, getNext(s, l), l, getNext(s, m), m)

\* distance(first, last), and size() as the distance of begin() and end().
RECURSIVE distance(_, _, _)
distance(s, first, last) == IF first = last THEN 0 ELSE 1 + distance(s, getNext(s, first), last)
size(s, l) == distance(s, getNext(s, l), l)

(***************************************************************************)
(* Steps.                                                                  *)
(***************************************************************************)
Becomes(s) == node' = s.node /\ live' = s.live
Room(n) == Cardinality(live) + n <= Cardinality(Nodes)

PushFront(l, v) == Room(1) /\ Becomes(insert(State, getNext(State, l), v)) /\ UNCHANGED it
PushBack(l, v) == Room(1) /\ Becomes(insert(State, l, v)) /\ UNCHANGED it

Insert(l, v) ==
  /\ Room(1)
  /\ Becomes(insert(State, it[l], v))
  /\ it' = [it EXCEPT ![l] = Alloc(State)]

Erase(l) ==
  /\ it[l] # l
  /\ Becomes(erase(State, it[l]))
  /\ it' = [it EXCEPT ![l] = getNext(State, it[l])]

EraseRest(l) == Becomes(eraseRange(State, it[l], l)) /\ it' = [it EXCEPT ![l] = l]

Clear(l) == Becomes(clear(State, l)) /\ it' = [it EXCEPT ![l] = l]

\* Nobody holds an iterator into a list that is assigned to.  The copy
\* constructor and the destructor are assign to and clear of an empty list.
Assign(l, m) ==
  /\ Room(size(State, m))
  /\ Becomes(assign(State, l, m))
  /\ it' = [it EXCEPT ![l] = l]

Advance(l) == it' = [it EXCEPT ![l] = getNext(State, @)] /\ UNCHANGED <<node, live>>
Retreat(l) == it' = [it EXCEPT ![l] = getPrev(State, @)] /\ UNCHANGED <<node, live>>

Next ==
  \/ \E l \in Lists, v \in Values : PushFront(l, v) \/ PushBack(l, v) \/ Insert(l, v)
  \/ \E l \in Lists : Erase(l) \/ EraseRest(l) \/ Clear(l) \/ Advance(l) \/ Retreat(l)
  \/ \E l, m \in Lists : Assign(l, m)

Spec == Init /\ [][Next]_listVars

(***************************************************************************)
(* The pointers implement the sequences of ListAbstract: what a walk along *)
(* mpNext meets is the sequence, and the iterator is where it promises.    *)
(***************************************************************************)
RECURSIVE Walk(_, _)
Walk(p, l) == IF p = l THEN << >> ELSE <<node[p].val>> \o Walk(node[p].next, l)

Abstract == INSTANCE ListAbstract WITH
  seq <- [l \in Lists |-> Walk(node[l].next, l)],
  pos <- [l \in Lists |-> size(State, l) + 1 - distance(State, it[l], l)]

ImplementsList == Abstract!Spec

(***************************************************************************)
(* The circle is whole in both directions, no two lists share a node, and  *)
(* the allocated nodes are exactly the elements of the lists: none is      *)
(* leaked, and none is linked after it was deleted.                        *)
(***************************************************************************)
RECURSIVE Ring(_, _)
Ring(p, l) == IF p = l THEN {l} ELSE {p} \cup Ring(node[p].next, l)
RingOf(l) == Ring(node[l].next, l)

WellLinked ==
  /\ \A l \in Lists : \A p \in RingOf(l) : node[node[p].next].prev = p
  /\ \A l, m \in Lists : l # m => RingOf(l) \cap RingOf(m) = {}
  /\ live = UNION {RingOf(l) : l \in Lists} \ Lists
  /\ \A l \in Lists : it[l] \in RingOf(l)
=============================================================================
