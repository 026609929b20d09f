----------------------------- MODULE HandleArray -----------------------------
(***************************************************************************)
(* How a suspend_point keeps its handles (suspend_point.h): a few in the   *)
(* object, more in an array on the heap that doubles when it is full, and  *)
(* a counter whose lowest bit says which.  The module Resumption has       *)
(* suspend points as sequences; here it is shown that they are.            *)
(*                                                                         *)
(* Handles are numbered as they are added; 0 is a cell never written to.   *)
(***************************************************************************)
EXTENDS Naturals, FiniteSets, SequencesExt

CONSTANTS
    Points,         \* suspend points
    inline_count,   \* handles that fit into the object
    MaxHandles      \* bound: handles added

ASSUME InlineAssumption == inline_count \in Nat \ {0} /\ MaxHandles \in Nat
ASSUME PointsAssumption == IsFiniteSet(Points)

VARIABLES
    point,      \* the object, its array included: the cells of the one in use
    allocated,  \* arrays on the heap
    added,      \* how many handles were added
    list        \* what each suspend point holds: the sequence it stands for

handleVars == <<point, allocated, added, list>>

Unwritten(n) == [i \in 1 .. n |-> 0]
Empty == [countFlag |-> 0, cells |-> Unwritten(inline_count)]

Count(sp) == sp.countFlag \div 2
External(sp) == sp.countFlag % 2 = 1
Held(sp) == SubSeq(sp.cells, 1, Count(sp))

HandlesTypeOK ==
    /\ \A p \in Points :
        /\ point[p].countFlag \in 0 .. 2 * MaxHandles + 1
        /\ point[p].cells \in Seq(0 .. MaxHandles)
        /\ ~External(point[p]) => Len(point[p].cells) = inline_count
    /\ allocated \in 0 .. Cardinality(Points)
    /\ added \in 0 .. MaxHandles
    /\ list \in [Points -> Seq(1 .. MaxHandles)]

HandlesInit ==
    /\ point = [p \in Points |-> Empty]
    /\ allocated = 0
    /\ added = 0
    /\ list = [p \in Points |-> <<>>]

-----------------------------------------------------------------------------
Put(cells, i, h) == [cells EXCEPT ![i] = h]

\* Variant: the flag is set again when the array grows.
add_FlagsAgain(sp, h) ==
    LET n == Count(sp)
        full == n = Len(sp.cells)
        cells == IF full THEN sp.cells \o Unwritten(n) ELSE sp.cells
    IN  [countFlag |-> sp.countFlag + (IF full THEN 3 ELSE 2), cells |-> Put(cells, n + 1, h)]

\* A full object, or a full array, is copied to an array of twice the count; the object's
\* counter then gets the flag.
add(sp, h) ==
    LET n == Count(sp)
        full == n = Len(sp.cells)
        cells == IF full THEN sp.cells \o Unwritten(n) ELSE sp.cells
    IN  [countFlag |-> sp.countFlag + (IF full /\ ~External(sp) THEN 3 ELSE 2),
         cells |-> Put(cells, n + 1, h)]

\* The handles of another suspend point are added one by one.
addAll(sp, handles) ==
    LET after[n \in 0 .. Len(handles)] == IF n = 0 THEN sp ELSE add(after[n - 1], handles[n])
    IN  after[Len(handles)]

Arrays(sp) == IF External(sp) THEN 1 ELSE 0

\* The constructor with a handle, and operator<< with one.
AddHandle(p) ==
    /\ added < MaxHandles
    /\ added' = added + 1
    /\ point' = [point EXCEPT ![p] = add(@, added')]
    /\ allocated' = allocated + Arrays(point'[p]) - Arrays(point[p])
    /\ list' = [list EXCEPT ![p] = Append(@, added')]

\* operator<< and operator= with a suspend point, whose array is deleted.
MergePoints(p, q) ==
    /\ p # q
    /\ point' = [point EXCEPT ![p] = addAll(@, Held(point[q])), ![q] = Empty]
    /\ allocated' = allocated + Arrays(point'[p]) - Arrays(point[p]) - Arrays(point[q])
    /\ list' = [list EXCEPT ![p] = @ \o list[q], ![q] = <<>>]
    /\ UNCHANGED added

\* The move constructor takes the object over as it is.
MovePoint(p, q) ==
    /\ p # q /\ point[p].countFlag = 0
    /\ point' = [point EXCEPT ![p] = point[q], ![q] = Empty]
    /\ list' = [list EXCEPT ![p] = list[q], ![q] = <<>>]
    /\ UNCHANGED <<allocated, added>>

\* pop(): an array stays, though it may be empty.
PopHandle(p) ==
    /\ Count(point[p]) > 0
    /\ point' = [point EXCEPT ![p].countFlag = @ - 2]
    /\ list' = [list EXCEPT ![p] = Front(@)]
    /\ UNCHANGED <<allocated, added>>

\* suspend_now(), and the destructor: all are resumed, from the first on.
ClearPoint(p) ==
    /\ point[p].countFlag # 0
    /\ point' = [point EXCEPT ![p] = Empty]
    /\ allocated' = allocated - Arrays(point[p])
    /\ list' = [list EXCEPT ![p] = <<>>]
    /\ UNCHANGED added

HandlesNext ==
    \/ \E p \in Points : AddHandle(p) \/ PopHandle(p) \/ ClearPoint(p)
    \/ \E p, q \in Points : MergePoints(p, q) \/ MovePoint(p, q)

HandlesSpec == HandlesInit /\ [][HandlesNext]_handleVars

-----------------------------------------------------------------------------
(* Properties *)

\* A suspend point holds what it was given, in order, through any sequence of additions,
\* merges, moves and pops across the boundaries where the array is made and grows; and
\* each array that is allocated belongs to one of them.
HoldsTheList ==
    /\ \A p \in Points : Held(point[p]) = list[p]
    /\ allocated = Cardinality({p \in Points : External(point[p])})
==============================================================================
