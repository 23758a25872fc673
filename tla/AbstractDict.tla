---------------------------- MODULE AbstractDict ----------------------------
(***************************************************************************)
(* What Dict attributes promise their callers (spec sections 3 and 4.1):  *)
(* a dict is a sequence of (key, value) pairs with unique keys, in the    *)
(* order the keys were added.  Lookup by key returns the value of the one *)
(* pair with that key, and a lookup of an absent key appends the pair     *)
(* (key, Nil) first.  make_dict empties a dict, assignment by key stores  *)
(* the caller's item, and copy-assignment of one attribute from another   *)
(* gives an equal, independent dict.  A non-dict holds no pairs.          *)
(***************************************************************************)
EXTENDS Naturals, Sequences

CONSTANTS
  Attrs,    \* the attributes
  Keys,     \* key strings
  Vals,     \* value contents
  Nil,      \* the value of an auto-created pair
  Unset     \* the value of an attribute never assigned

VARIABLES
  dicts,    \* dicts[x]: the pairs of attribute x, first to last
  it        \* the caller's item

vars == <<dicts, it>>

KeysOf(d) == {d[i][1] : i \in DOMAIN d}

Present(d, k) == k \in KeysOf(d)

(* The dict after a lookup of k: unchanged, or with (k, Nil) appended. *)
GetOrInsert(d, k) == IF Present(d, k) THEN d ELSE Append(d, <<k, Nil>>)

(* The position of key k in d. *)
PosOf(d, k) == CHOOSE i \in DOMAIN d : d[i][1] = k

MakeDict(x) == dicts' = [dicts EXCEPT ![x] = <<>>] /\ UNCHANGED it

Lookup(x, k) == dicts' = [dicts EXCEPT ![x] = GetOrInsert(@, k)] /\ UNCHANGED it

Put(x, k) ==
  LET d == GetOrInsert(dicts[x], k) IN
  /\ dicts' = [dicts EXCEPT ![x] = [d EXCEPT ![PosOf(d, k)] = <<k, it>>]]
  /\ UNCHANGED it

Copy(x, y) == x # y /\ dicts' = [dicts EXCEPT ![x] = dicts[y]] /\ UNCHANGED it

SetIt(v) == it' = v /\ UNCHANGED dicts

Init == dicts = [x \in Attrs |-> <<>>] /\ it = Unset

Next ==
  \/ \E x \in Attrs : MakeDict(x)
  \/ \E x \in Attrs, k \in Keys : Lookup(x, k) \/ Put(x, k)
  \/ \E x, y \in Attrs : Copy(x, y)
  \/ \E v \in Vals : SetIt(v)

Spec == Init /\ [][Next]_vars

=============================================================================
