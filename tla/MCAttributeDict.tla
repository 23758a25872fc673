--------------------------- MODULE MCAttributeDict ---------------------------
(* Model-checking instance of AttributeDict: two attributes (a dict and a *)
(* copy of it), two keys, one value content, Data of 8 bytes (inline) and *)
(* 9 (on the heap), chunks of two pairs so that the second key is added  *)
(* within the chunk and a copy of two pairs allocates one buffer, and     *)
(* heap blocks for both attributes' buffers, keys and values plus the     *)
(* item.                                                                  *)
EXTENDS AttributeDict

CONSTANTS d, c, k1, k2, v, none, nil, unset

MCAttrs  == {d, c}
MCKeys   == {k1, k2}
MCVals   == {v}
MCBlocks == 1 .. 6

(* The inline limit and one byte past it. *)
MCDataSizes == {8, 9}

(* The abstract value of a key's value attribute. *)
ValueOf(e) == CASE e.kind \in {"String", "Data"} -> e.val
                [] e.kind = "Nil"                -> nil
                [] OTHER                         -> unset

PairsOf(a) == IF a.kind = "Dict"
              THEN [i \in 1 .. a.size |-> <<a.pairs[i - 1].key.val, ValueOf(a.pairs[i - 1].value)>>]
              ELSE <<>>

AD == INSTANCE AbstractDict
        WITH Attrs <- MCAttrs, Keys <- MCKeys, Vals <- MCVals \cup (MCDataSizes \X MCVals), Nil <- nil, Unset <- unset,
             dicts <- [x \in MCAttrs |-> PairsOf(attr[x])],
             it <- ValueOf(item)

(* The dict attributes implement AbstractDict: lookup returns the one     *)
(* pair of its key or appends (key, Nil), assignment stores the item      *)
(* there, make_dict empties, and copy-assignment gives an equal dict      *)
(* (spec sections 3 and 4.1, and the auto-vivification property of 8).    *)
DictRefinesAbstract == AD!Spec

=============================================================================
