---------------------------- MODULE ListAbstract ----------------------------
(***************************************************************************)
(* What List.h promises: lists are sequences, and an iterator stays at its *)
(* element while others come and go.  pos is the place of the iterator of  *)
(* each list, one past the last element for end().                         *)
(***************************************************************************)
EXTENDS Naturals, Sequences

CONSTANTS Lists, Values

VARIABLES seq, pos

Replace(l, s, p) == seq' = [seq EXCEPT ![l] = s] /\ pos' = [pos EXCEPT ![l] = p]

Before(l) == SubSeq(seq[l], 1, pos[l] - 1)
From(l) == SubSeq(seq[l], pos[l], Len(seq[l]))

Init == seq = [l \in Lists |-> << >>] /\ pos = [l \in Lists |-> 1]

PushFront(l, v) == Replace(l, <<v>> \o seq[l], pos[l] + 1)

PushBack(l, v) ==
  Replace(l, Append(seq[l], v), IF pos[l] = Len(seq[l]) + 1 THEN pos[l] + 1 ELSE pos[l])

\* The iterator moves to the new element.
Insert(l, v) == Replace(l, Before(l) \o <<v>> \o From(l), pos[l])

Erase(l) == pos[l] <= Len(seq[l]) /\ Replace(l, Before(l) \o Tail(From(l)), pos[l])

EraseRest(l) == Replace(l, Before(l), pos[l])

Clear(l) == Replace(l, << >>, 1)

Assign(l, m) == Replace(l, seq[m], Len(seq[m]) + 1)

\* The iterator runs around the circle: from end() to the first element.
Advance(l) == Replace(l, seq[l], (pos[l] % (Len(seq[l]) + 1)) + 1)

Retreat(l) == Replace(l, seq[l], IF pos[l] = 1 THEN Len(seq[l]) + 1 ELSE pos[l] - 1)

Next ==
  \/ \E l \in Lists, v \in Values : PushFront(l, v) \/ PushBack(l, v) \/ Insert(l, v)
  \/ \E l \in Lists : Erase(l) \/ EraseRest(l) \/ Clear(l) \/ Advance(l) \/ Retreat(l)
  \/ \E l, m \in Lists : Assign(l, m)

Spec == Init /\ [][Next]_<<seq, pos>>
=============================================================================
