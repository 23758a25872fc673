--------------------------- MODULE MCAttributeSort ---------------------------
(* Model-checking instance of AttributeSort and its refinement of         *)
(* AbstractSort: the comparison domains of spec section 4.3.              *)
EXTENDS AttributeSort

(* The domain an element is compared in; Bool cannot be compared. *)
Domain(e) == CASE e.kind \in {"Int", "UInt", "Str"} -> e.kind
               [] e.kind = "Rec"                     -> "Rec" \o e.sk
               [] OTHER                              -> "none"

(* Order within a domain: signed, unsigned, strcmp, or by the key. *)
KeyOf(e) == IF e.kind = "Rec" THEN [kind |-> e.sk, v |-> e.sv] ELSE e
Leq(x, y) == IF KeyOf(x).kind = "Int"
             THEN Signed(KeyOf(x).v) <= Signed(KeyOf(y).v)
             ELSE KeyOf(x).v <= KeyOf(y).v

(* Pair values of the sorted Dict: two Ints, compared as numbers. *)
MCDictVals == {Scalar("Int", 0), Scalar("Int", 1)}

AsSeq(f) == [k \in 1 .. Cardinality(DOMAIN f) |-> f[k - 1]]

SORT == INSTANCE AbstractSort
          WITH Inputs <- {AsSeq(l.flat) : l \in Lists}, NoDomain <- "none",
               lst <- AsSeq(attr.flat)

(* Sorting a list implements AbstractSort: the result is a permutation of *)
(* the input, sorted whenever the input is homogeneous.                   *)
SortRefinesAbstract == SORT!Spec
=============================================================================
