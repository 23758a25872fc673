----------------------------- MODULE AbstractSort -----------------------------
(***************************************************************************)
(* What sort() promises (spec section 4.3 and the sort property of section *)
(* 8): the list afterwards holds the same elements, and when every element *)
(* is in one comparison domain (all Strings, all SignedInts, all           *)
(* UnsignedInts, or all records keyed by the same kind) they are in        *)
(* non-decreasing order.  On mixed or unsupported input only the           *)
(* permutation is promised.                                                *)
(***************************************************************************)
EXTENDS Naturals, Sequences, SequencesExt

CONSTANTS
  Inputs,       \* the lists sort() may be called on
  Domain(_),    \* the comparison domain of an element
  NoDomain,     \* the domain of an element sort() cannot compare
  Leq(_, _)     \* the order within one domain

VARIABLE lst

Homogeneous(s) ==
  \A i, j \in DOMAIN s : Domain(s[i]) = Domain(s[j]) /\ Domain(s[i]) # NoDomain

Sort ==
  /\ ToBag(lst') = ToBag(lst)
  /\ Homogeneous(lst) => IsSorted(lst', Leq)

Init == lst \in Inputs

Spec == Init /\ [][Sort]_lst
===============================================================================
