---------------------------- MODULE AttributeSort ----------------------------
(***************************************************************************)
(* AttributeType::sort(idx) with quicksort and partition                   *)
(* (src/debugger/src/common/attribute.cpp 268-329), applied to a List or,  *)
(* since sort() only logs for other kinds, to a Dict.                      *)
(*                                                                         *)
(* An attribute is its kind and its buffer `flat`, indexed from 0 as in    *)
(* the code.  A List's buffer holds its elements; a Dict's holds its       *)
(* pairs, key then value, which is how swap_list_item sees it through      *)
(* u_.list while operator[](idx) returns the value of pair idx.            *)
(*                                                                         *)
(* An element is a record: kind Int (int64) or UInt (uint64) with a bit    *)
(* pattern of IntBits bits, Str with its rank in strcmp order, Bool, or    *)
(* Rec, a nested list of which only the sub-element at lst_idx matters     *)
(* (kind sk, value sv).  A comparison that reads a pivot or sub-element    *)
(* through the wrong union member is flagged in `undefined`.  A number    *)
(* read as a char pointer gives either truth value; a String or list      *)
(* pivot read as a number is its heap address, which exceeds every        *)
(* modelled word, so a number compares below it.                          *)
(***************************************************************************)
EXTENDS Integers, Sequences, FiniteSets

CONSTANTS
  IntBits,     \* width of the modelled int64/uint64 words
  StrRanks,    \* strings, identified by their strcmp order
  MaxLen,      \* bound on the number of elements (pairs for a Dict)
  Containers,  \* kinds of attribute sort() is called on
  DictVals     \* values the pairs of a Dict may hold

ASSUME /\ IntBits \in Nat \ {0}
       /\ StrRanks \subseteq Nat
       /\ Containers \subseteq {"List", "Dict"}

VARIABLES
  attr,        \* [kind, flat] of the attribute being sorted
  undefined    \* some comparison read a value through the wrong kind

vars == <<attr, undefined>>

Word == 0 .. 2^IntBits - 1
Signed(v) == IF v >= 2^(IntBits - 1) THEN v - 2^IntBits ELSE v

Scalar(k, x) == [kind |-> k, v |-> x, sk |-> "-", sv |-> 0]
NumElems  == {Scalar(k, w) : k \in {"Int", "UInt"}, w \in Word}
StrElems  == {Scalar("Str", r) : r \in StrRanks}
BoolElems == {Scalar("Bool", 1)}
RecElems  == {[kind |-> "Rec", v |-> 0, sk |-> "Int", sv |-> w] : w \in Word}
               \cup {[kind |-> "Rec", v |-> 0, sk |-> "Str", sv |-> r] : r \in StrRanks}
Elems == NumElems \cup StrElems \cup BoolElems \cup RecElems

(* operator[](idx) on the attribute: the element, or the value of pair idx. *)
At(k, A, idx) == IF k = "List" THEN A[idx] ELSE A[2 * idx + 1]

(* size() *)
SizeOf(k, A) == IF k = "List" THEN Cardinality(DOMAIN A) ELSE Cardinality(DOMAIN A) \div 2

(* Variant that overwrites n before saving it, losing A[n]. *)
SwapItemsNoTemp(A, n, m) == IF n = m THEN A ELSE [A EXCEPT ![n] = A[m], ![m] = A[m]]

(* swap_list_item(n, m) on u_.list, whatever the buffer really holds. *)
SwapItems(A, n, m) == IF n = m THEN A ELSE [A EXCEPT ![n] = A[m], ![m] = A[n]]

(* item[lst_idx] of a nested list; any other pivot answers NilAttribute. *)
SubOf(e) == IF e.kind = "Rec" THEN [kind |-> e.sk, v |-> e.sv] ELSE [kind |-> "Nil", v |-> 0]

Known(b) == {[le |-> b, ub |-> FALSE]}
Unknown  == {[le |-> TRUE, ub |-> TRUE], [le |-> FALSE, ub |-> TRUE]}

(* strcmp(x.to_string(), p.to_string()) <= 0 *)
StrLeq(x, p) == IF p.kind = "Str" THEN Known(x.v <= p.v) ELSE Unknown

(* A String or list pivot's u_ holds a user-space heap address. *)
PointerLeq == {[le |-> TRUE, ub |-> TRUE]}

(* x.to_int64() <= p.to_int64(): Nil and Bool read as their integer word. *)
IntLeq(x, p) ==
  CASE p.kind \in {"Int", "UInt", "Bool"} -> Known(Signed(x.v) <= Signed(p.v))
    [] p.kind = "Nil"                     -> Known(Signed(x.v) <= 0)
    [] OTHER                              -> PointerLeq

(* x.to_uint64() <= p.to_uint64() *)
UIntLeq(x, p) ==
  CASE p.kind \in {"Int", "UInt", "Bool"} -> Known(x.v <= p.v)
    [] p.kind = "Nil"                     -> Known(x.v <= 0)
    [] OTHER                              -> PointerLeq

(* The do_swap decision of partition for a supported item. *)
DoSwap(item, pivot) ==
  CASE item.kind = "Str"  -> StrLeq(item, pivot)
    [] item.kind = "Int"  -> IntLeq(item, pivot)
    [] item.kind = "UInt" -> UIntLeq(item, pivot)
    [] item.kind = "Rec"  ->
         LET t1 == SubOf(item) IN
         CASE t1.kind = "Str"  -> StrLeq(t1, SubOf(pivot))
           [] t1.kind = "Int"  -> IntLeq(t1, SubOf(pivot))
           [] OTHER            -> Known(FALSE)

Supported(item) == item.kind \in {"Str", "Int", "UInt", "Rec"}

(* The loop of partition from j with lower-partition end i: the set of    *)
(* outcomes [arr, p, ub].  An unsupported item returns i + 1 at once,      *)
(* without placing the pivot.                                             *)
RECURSIVE PartitionLoop(_, _, _, _, _, _)
PartitionLoop(k, A, lo, hi, j, i) ==
  IF j >= hi
  THEN {[arr |-> SwapItems(A, i + 1, hi), p |-> i + 1, ub |-> FALSE]}
  ELSE LET item == At(k, A, j) IN
       IF ~Supported(item)
       THEN {[arr |-> A, p |-> i + 1, ub |-> FALSE]}
       ELSE UNION { { [o EXCEPT !.ub = o.ub \/ c.ub] :
                        o \in IF c.le
                              THEN PartitionLoop(k, SwapItems(A, i + 1, j), lo, hi, j + 1, i + 1)
                              ELSE PartitionLoop(k, A, lo, hi, j + 1, i) }
                    : c \in DoSwap(item, At(k, A, hi)) }

Partition(k, A, lo, hi) == PartitionLoop(k, A, lo, hi, lo, lo - 1)

RECURSIVE QuickSort(_, _, _, _)
QuickSort(k, A, lo, hi) ==
  IF lo >= hi
  THEN {[arr |-> A, ub |-> FALSE]}
  ELSE UNION { UNION { { [arr |-> r2.arr, ub |-> o.ub \/ r1.ub \/ r2.ub] :
                           r2 \in QuickSort(k, r1.arr, o.p + 1, hi) }
                       : r1 \in QuickSort(k, o.arr, lo, o.p - 1) }
               : o \in Partition(k, A, lo, hi) }

(* sort(idx): a non-list is only reported; quicksort runs regardless. *)
Sort ==
  \E r \in QuickSort(attr.kind, attr.flat, 0, SizeOf(attr.kind, attr.flat) - 1) :
    /\ attr' = [attr EXCEPT !.flat = r.arr]
    /\ undefined' = (undefined \/ r.ub)

-----------------------------------------------------------------------------
Lists == UNION { {[kind |-> "List", flat |-> f] : f \in [0 .. n - 1 -> Elems]} : n \in 0 .. MaxLen }

(* Dicts with distinct keys, as make_dict/operator[](key) build them. *)
Dicts ==
  UNION { { [kind |-> "Dict",
             flat |-> [i \in 0 .. 2 * n - 1 |->
                        IF i % 2 = 0 THEN Scalar("Str", key[i \div 2])
                                     ELSE val[i \div 2]]]
            : key \in {f \in [0 .. n - 1 -> StrRanks] : \A x, y \in 0 .. n - 1 : f[x] = f[y] => x = y},
              val \in [0 .. n - 1 -> DictVals] }
          : n \in 0 .. MaxLen }

Inputs == (IF "List" \in Containers THEN Lists ELSE {})
            \cup (IF "Dict" \in Containers THEN Dicts ELSE {})

Init ==
  /\ attr \in Inputs
  /\ undefined = FALSE

Next == Sort

Spec == Init /\ [][Next]_vars

-----------------------------------------------------------------------------
(* No comparison in partition reads a number as a char pointer or a      *)
(* pointer as a number (spec section 7: contract violations are reported *)
(* and never abort the process).                                         *)
NoUndefinedComparison == ~undefined

(* sort() on anything but a List is reported and leaves the attribute    *)
(* unchanged (spec section 4.3).                                         *)
SortNonListIsNoOp == [][attr.kind # "List" => attr' = attr]_vars
=============================================================================
