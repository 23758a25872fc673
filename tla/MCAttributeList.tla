--------------------------- MODULE MCAttributeList ---------------------------
(* Model-checking instance of AttributeList: two string contents, chunks  *)
(* of two elements so that a list of three crosses a chunk boundary, and  *)
(* enough heap blocks for three elements, the item, two buffers and a few *)
(* leaked blocks.                                                         *)
EXTENDS AttributeList

CONSTANTS a, b, none

MCVals   == {a, b}
MCBlocks == 1 .. 7

(* The list as the sequence of its first size_ element values. *)
ValueOf(e) == IF e.kind = "String" THEN e.val ELSE none

ALS == INSTANCE AbstractList
         WITH Vals <- MCVals, Empty <- none,
              lst <- [k \in 1 .. size |-> ValueOf(mem[k - 1])],
              it  <- ValueOf(item)

(* The list attribute implements AbstractList: every operation changes    *)
(* the sequence of element values the way spec section 4.2 documents.     *)
ListRefinesAbstract == ALS!Spec

(* The element values the list holds, first to last. *)
Elements == [k \in 1 .. size |-> ValueOf(mem[k - 1])]

(* trim_list(start, end) with a non-empty range removes exactly the       *)
(* elements at positions start .. end - 1 and keeps the rest in order     *)
(* (spec section 4.2, the order-preserving alternative to remove_at).     *)
TrimRemovesRange ==
  [][\A s, e \in 0 .. MaxSize :
       (s < e /\ TrimList(s, e)) => Elements' = ALS!TrimRange(Elements, s, e)]_vars

(* Growing the list with realloc_list adds only empty (zeroed) elements:  *)
(* no element released by an earlier shrink comes back (spec section 4.2, *)
(* growth zero-fills the remainder).                                      *)
GrowthAddsEmpty ==
  [][\A n \in 0 .. MaxSize :
       (n > size /\ ReallocList(n)) => \A k \in size + 1 .. n : Elements'[k] = none]_vars
=============================================================================
