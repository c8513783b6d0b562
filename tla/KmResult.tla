------------------------------ MODULE KmResult ------------------------------
(***************************************************************************)
(* KmErrorOr (keymaster_utils.h): a result that has to be looked at before *)
(* it is destroyed.  Every result that is constructed from a value or an   *)
(* error carries its number, so that it can be followed through moves.     *)
(***************************************************************************)
EXTENDS Naturals, FiniteSets

CONSTANTS Objects, Outcomes     \* objects, and the results produced in them

\* 0 is what an object holds that was made without a result.
ASSUME OutcomesAssumption == 0 \notin Outcomes

VARIABLES
  obj,       \* alive, the outcome held (0: none), value or error, checked
  seen,      \* outcomes somebody checked with isOk()
  made,      \* outcomes produced so far
  aborted    \* the destructor of an unchecked object called abort()

resultVars == <<obj, seen, made, aborted>>

Gone == [alive |-> FALSE, holds |-> 0, ok |-> FALSE, checked |-> TRUE]
Default == [Gone EXCEPT !.alive = TRUE]

ResultsInit == obj = [o \in Objects |-> Gone] /\ seen = {} /\ made = {} /\ aborted = FALSE

ConstructResult(o) ==
  /\ ~aborted /\ ~obj[o].alive
  /\ obj' = [obj EXCEPT ![o] = Default]
  /\ UNCHANGED <<seen, made, aborted>>

\* From an error or from a value: not checked yet.
Produce(o, n, ok) ==
  /\ ~aborted /\ ~obj[o].alive /\ n \in Outcomes \ made
  /\ obj' = [obj EXCEPT ![o] = [alive |-> TRUE, holds |-> n, ok |-> ok, checked |-> FALSE]]
  /\ made' = made \cup {n}
  /\ UNCHANGED <<seen, aborted>>

\* Assignment swaps; move construction swaps with a default object.
MoveAssignResult(o, p) ==
  /\ ~aborted /\ obj[o].alive /\ obj[p].alive
  /\ obj' = [obj EXCEPT ![o] = obj[p], ![p] = obj[o]]
  /\ UNCHANGED <<seen, made, aborted>>

\* Mutant: value_checked_ is not moved along.
MoveConstructChecked(o, p) ==
  /\ ~aborted /\ ~obj[o].alive /\ obj[p].alive
  /\ obj' = [obj EXCEPT ![o] = [obj[p] EXCEPT !.checked = TRUE], ![p] = Default]
  /\ UNCHANGED <<seen, made, aborted>>

MoveConstruct(o, p) ==
  /\ ~aborted /\ ~obj[o].alive /\ obj[p].alive
  /\ obj' = [obj EXCEPT ![o] = obj[p], ![p] = Default]
  /\ UNCHANGED <<seen, made, aborted>>

isOk(o) ==
  /\ ~aborted /\ obj[o].alive
  /\ obj' = [obj EXCEPT ![o].checked = TRUE]
  /\ seen' = seen \cup ({obj[o].holds} \ {0})
  /\ UNCHANGED <<made, aborted>>

Destroy(o) ==
  /\ ~aborted /\ obj[o].alive
  /\ aborted' = ~obj[o].checked
  /\ obj' = IF obj[o].checked THEN [obj EXCEPT ![o] = Gone] ELSE obj
  /\ UNCHANGED <<seen, made>>

ResultsNext ==
  \/ \E o \in Objects, n \in Outcomes, ok \in BOOLEAN : Produce(o, n, ok)
  \/ \E o \in Objects : ConstructResult(o) \/ isOk(o) \/ Destroy(o)
  \/ \E o, p \in Objects : MoveAssignResult(o, p) \/ MoveConstruct(o, p)
  \/ aborted /\ UNCHANGED resultVars

ResultsSpec == ResultsInit /\ [][ResultsNext]_resultVars

-----------------------------------------------------------------------------

(***************************************************************************)
(* A result that nobody looked at is not lost by moving it about: until it *)
(* is checked exactly one object holds it, unchecked, so that destroying   *)
(* that object stops the program.                                          *)
(***************************************************************************)
UncheckedIsHeld ==
  \A n \in made \ seen :
    Cardinality({o \in Objects : obj[o].alive /\ obj[o].holds = n /\ ~obj[o].checked}) = 1
=============================================================================
