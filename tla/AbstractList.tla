---------------------------- MODULE AbstractList ----------------------------
(***************************************************************************)
(* What a List attribute promises its callers (spec section 4.2), as a     *)
(* sequence of element values: make_list(n) gives n empty elements, growth *)
(* appends empty elements, assignment clones the caller's item into one    *)
(* position, insert_to_list shifts the right part up, remove_from_list     *)
(* moves the last element into the hole, trim_list(start, end) removes the *)
(* half-open range preserving order, swap exchanges two positions.         *)
(***************************************************************************)
EXTENDS Naturals, Sequences

CONSTANTS
  Vals,     \* element contents
  Empty,    \* the content of a freshly grown or created element
  MaxSize

VARIABLES
  lst,      \* the list's elements, first to last
  it        \* the caller's item

vars == <<lst, it>>

Empties(n) == [k \in 1 .. n |-> Empty]

Make(n)    == lst' = Empties(n) /\ UNCHANGED it

Resize(n)  == lst' = [k \in 1 .. n |-> IF k <= Len(lst) THEN lst[k] ELSE Empty]
              /\ UNCHANGED it

Assign(i)  == i \in 1 .. Len(lst) /\ lst' = [lst EXCEPT ![i] = it] /\ UNCHANGED it

SetIt(v)   == it' = v /\ UNCHANGED lst

Insert(i)  == /\ i \in 1 .. Len(lst) + 1
              /\ Len(lst) < MaxSize
              /\ lst' = SubSeq(lst, 1, i - 1) \o <<it>> \o SubSeq(lst, i, Len(lst))
              /\ UNCHANGED it

SwapRemove(i) ==
  /\ i \in 1 .. Len(lst)
  /\ lst' = [k \in 1 .. Len(lst) - 1 |-> IF k = i THEN lst[Len(lst)] ELSE lst[k]]
  /\ UNCHANGED it

(* Remove the 0-based half-open range [start, end). *)
TrimRange(s, start, end) == SubSeq(s, 1, start) \o SubSeq(s, end + 1, Len(s))

Trim(start, end) ==
  /\ start <= end /\ end <= Len(lst)
  /\ lst' = TrimRange(lst, start, end)
  /\ UNCHANGED it

Swap(i, j) == /\ i \in 1 .. Len(lst) /\ j \in 1 .. Len(lst)
              /\ lst' = [lst EXCEPT ![i] = lst[j], ![j] = lst[i]]
              /\ UNCHANGED it

Init == lst = <<>> /\ it = Empty

Next ==
  \/ \E n \in 0 .. MaxSize : Make(n) \/ Resize(n)
  \/ \E i \in 1 .. MaxSize + 1 : Assign(i) \/ Insert(i) \/ SwapRemove(i)
  \/ \E v \in Vals : SetIt(v)
  \/ \E s, e \in 0 .. MaxSize : Trim(s, e)
  \/ \E i, j \in 1 .. MaxSize : Swap(i, j)

Spec == Init /\ [][Next]_vars
=============================================================================
