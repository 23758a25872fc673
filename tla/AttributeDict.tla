---------------------------- MODULE AttributeDict ----------------------------
(***************************************************************************)
(* The Dict kind of AttributeType (src/debugger/src/common/attribute.cpp): *)
(* the pair buffer grown by realloc_dict in MIN_ALLOC_BYTES chunks, the    *)
(* key and value attributes it owns, lookup by key with auto-creation,     *)
(* assignment by key, make_dict, copy-assignment, and attr_free, over a    *)
(* few attributes and one caller-owned `item` that values are assigned    *)
(* from.                                                                   *)
(*                                                                         *)
(* As in AttributeList, a key or value is zeroed memory (Attr_Invalid),   *)
(* Nil, a String owning one heap block, or Data of some size, whose      *)
(* bytes sit inline up to 8 and in one heap block past that.  The heap is *)
(* the set `live` of allocated blocks, malloc handing out the least free  *)
(* one.  An attribute is Invalid (default-constructed or released) or a  *)
(* Dict; the code lets operator[](key) run on a non-dict, which           *)
(* CallerMakesDict either rules out (callers call make_dict first) or     *)
(* allows.                                                                *)
(***************************************************************************)
EXTENDS Naturals, FiniteSets, FiniteSetsExt

CONSTANTS
  Attrs,           \* the attributes
  Keys,            \* key strings
  Vals,            \* contents of a String or Data value
  DataSizes,       \* byte counts of a Data value
  NoVal,           \* the content of zeroed memory and of Nil
  EmptyStr,        \* the content "": size_ 0, yet make_string mallocs a byte
  PairsPerChunk,   \* MIN_ALLOC_BYTES / sizeof(AttributePairType)
  Blocks,          \* identities of heap blocks (positive naturals)
  CallerMakesDict  \* operator[](key) is only applied to a Dict

ASSUME /\ PairsPerChunk \in Nat \ {0}
       /\ Blocks \subseteq Nat \ {0} /\ IsFiniteSet(Blocks)
       /\ NoVal \notin Keys \cup Vals
       /\ DataSizes \subseteq Nat
       /\ CallerMakesDict \in BOOLEAN

NULL == 0

VARIABLES
  attr,   \* attr[x]: kind_, size_, u_.dict (buf), its capacity and contents
  item,   \* the caller's attribute assigned into a dict
  live    \* allocated heap blocks

vars == <<attr, item, live>>

(* (n * sizeof(AttributePairType) + MIN_ALLOC_BYTES - 1) / MIN_ALLOC_BYTES *)
Chunks(n) == (n + PairsPerChunk - 1) \div PairsPerChunk

MaxCap == Chunks(Cardinality(Keys)) * PairsPerChunk
Slots  == 0 .. MaxCap - 1

Zero      == [kind |-> "Invalid", val |-> NoVal, blk |-> NULL]
NilElem   == [kind |-> "Nil", val |-> NoVal, blk |-> NULL]
Str(v, b) == [kind |-> "String", val |-> v, blk |-> b]
Data(n, v, b) == [kind |-> "Data", val |-> <<n, v>>, blk |-> b]
ZeroPair  == [key |-> Zero, value |-> Zero]

(* An attribute after attr_free: Attr_Invalid, size_ 0, u_ cleared. *)
Released == [kind |-> "Invalid", size |-> 0, buf |-> NULL, cap |-> 0,
             pairs |-> [i \in Slots |-> ZeroPair]]

Fresh(lv)      == Min(Blocks \ lv)
RoomFor(k, lv) == Cardinality(Blocks \ lv) >= k

(* Variant that moves the bytes to the heap from 8 bytes on. *)
MakeDataAtEight(n, v, lv) == IF n >= 8 THEN Data(n, v, Fresh(lv)) ELSE Data(n, v, NULL)

(* make_data(size, data): a heap copy of the bytes when size > 8, else   *)
(* the bytes go into u_.data_bytes.                                       *)
MakeData(n, v, lv) == IF n > 8 THEN Data(n, v, Fresh(lv)) ELSE Data(n, v, NULL)

(* What attr_free releases, behind its size() test: a String other than  *)
(* "", and Data of more than 8 bytes.                                     *)
Frees(e) == (e.kind = "String" /\ e.val # EmptyStr) \/ (e.kind = "Data" /\ e.val[1] > 8)

FreeElem(e, lv) == IF Frees(e) THEN lv \ {e.blk} ELSE lv

(* clone of a String or Data element: make_string or make_data; other    *)
(* kinds are copied as they are.                                          *)
CloneElem(e, lv) == CASE e.kind = "String" -> Str(e.val, Fresh(lv))
                      [] e.kind = "Data"   -> MakeData(e.val[1], e.val[2], lv)
                      [] OTHER             -> e
CloneLive(e, lv) == IF CloneElem(e, lv).blk # NULL THEN lv \cup {Fresh(lv)} ELSE lv

PairElems(a) == UNION {{a.pairs[i].key, a.pairs[i].value} : i \in 0 .. a.size - 1}
BlocksOf(S)  == {e.blk : e \in {s \in S : Frees(s)}}

(* Variant that frees the keys and the buffer but not the values. *)
AttrFreeKeepValues(a, lv) ==
  IF a.size > 0 /\ a.kind = "Dict"
  THEN lv \ (BlocksOf({a.pairs[i].key : i \in 0 .. a.size - 1}) \cup {a.buf})
  ELSE lv

(* attr_free: a Dict with size_ > 0 frees every key and value and then   *)
(* the buffer; any other kind here owns nothing attr_free knows of.      *)
AttrFree(a, lv) ==
  IF a.size > 0 /\ a.kind = "Dict"
  THEN lv \ (BlocksOf(PairElems(a)) \cup {a.buf})
  ELSE lv

(* Variant without the memset: the grown part keeps what malloc left. *)
ReallocDictNoZero(a, n, lv) ==
  IF Chunks(n) > Chunks(a.size)
  THEN [a |-> [a EXCEPT !.buf = Fresh(lv), !.cap = Chunks(n) * PairsPerChunk, !.size = n,
                        !.pairs = [i \in Slots |-> IF i < a.size THEN a.pairs[i]
                                                   ELSE [key |-> Zero, value |-> [Zero EXCEPT !.kind = "Garbage"]]]],
        lv |-> (lv \cup {Fresh(lv)}) \ (IF a.size > 0 THEN {a.buf} ELSE {})]
  ELSE [a |-> [a EXCEPT !.size = n], lv |-> lv]

(* realloc_dict(n): a new zeroed buffer only when more chunks are needed  *)
(* than size_ accounts for; the old one is freed only if size_ > 0.       *)
ReallocDict(a, n, lv) ==
  IF Chunks(n) > Chunks(a.size)
  THEN [a |-> [a EXCEPT !.buf = Fresh(lv), !.cap = Chunks(n) * PairsPerChunk, !.size = n,
                        !.pairs = [i \in Slots |-> IF i < a.size THEN a.pairs[i] ELSE ZeroPair]],
        lv |-> (lv \cup {Fresh(lv)}) \ (IF a.size > 0 THEN {a.buf} ELSE {})]
  ELSE [a |-> [a EXCEPT !.size = n], lv |-> lv]

KeyIs(e, k) == e.kind = "String" /\ e.val = k

(* Variant whose scan stops one pair early. *)
MatchesShort(a, k) == {i \in 0 .. a.size - 2 : KeyIs(a.pairs[i].key, k)}

(* The positions the scan of operator[](key) matches. *)
Matches(a, k) == {i \in 0 .. a.size - 1 : KeyIs(a.pairs[i].key, k)}

(* operator[](key): the first pair with key k, or else realloc_dict(size_ *)
(* + 1), key_.make_string(k) and value_.make_nil() on the new last pair.  *)
(* Returns the attribute, the heap and the position of the value.         *)
Vivify(a, k, lv) ==
  IF Matches(a, k) # {}
  THEN [a |-> a, lv |-> lv, pos |-> Min(Matches(a, k))]
  ELSE LET r  == ReallocDict(a, a.size + 1, lv)
           p  == a.size
           old == r.a.pairs[p]
           lv1 == FreeElem(old.key, r.lv)
       IN [a |-> [r.a EXCEPT !.pairs[p] = [key |-> Str(k, Fresh(lv1)), value |-> NilElem]],
           lv |-> FreeElem(old.value, lv1 \cup {Fresh(lv1)}),
           pos |-> p]

(* Variant of the copy loop that takes each value bitwise. *)
RECURSIVE CloneLoopShallow(_, _, _, _)
CloneLoopShallow(src, i, ps, lv) ==
  IF i >= src.size THEN [pairs |-> ps, lv |-> lv]
  ELSE LET kb == Fresh(lv) IN
       CloneLoopShallow(src, i + 1,
         [ps EXCEPT ![i] = [key |-> Str(src.pairs[i].key.val, kb), value |-> src.pairs[i].value]],
         lv \cup {kb})

(* clone's dict loop: key_.make_string(v->dict_key(i)->to_string()) and  *)
(* value_.clone(v->dict_value(i)) for each pair of the source.            *)
RECURSIVE CloneLoop(_, _, _, _)
CloneLoop(src, i, ps, lv) ==
  IF i >= src.size THEN [pairs |-> ps, lv |-> lv]
  ELSE LET kb  == Fresh(lv)
           lv1 == lv \cup {kb}
           sv  == src.pairs[i].value
       IN CloneLoop(src, i + 1,
            [ps EXCEPT ![i] = [key |-> Str(src.pairs[i].key.val, kb), value |-> CloneElem(sv, lv1)]],
            CloneLive(sv, lv1))

-----------------------------------------------------------------------------
(* A caller's operator[](key) is applied to x. *)
Keyed(x) == CallerMakesDict => attr[x].kind = "Dict"

(* attr[x][k], the value used and nothing assigned. *)
Lookup(x, k) ==
  LET r == Vivify(attr[x], k, live) IN
  /\ Keyed(x)
  /\ RoomFor(2, live)
  /\ attr' = [attr EXCEPT ![x] = r.a]
  /\ live' = r.lv
  /\ UNCHANGED item

(* attr[x][k] = item: operator[](key), then operator= on the value,      *)
(* which releases it and clones item into it.                            *)
Assign(x, k) ==
  LET r   == Vivify(attr[x], k, live)
      lv1 == FreeElem(r.a.pairs[r.pos].value, r.lv)
  IN
  /\ Keyed(x)
  /\ RoomFor(3, live)
  /\ attr' = [attr EXCEPT ![x] = [r.a EXCEPT !.pairs[r.pos].value = CloneElem(item, lv1)]]
  /\ live' = CloneLive(item, lv1)
  /\ UNCHANGED item

(* make_dict: attr_free, then an empty Dict with no buffer. *)
MakeDict(x) ==
  /\ attr' = [attr EXCEPT ![x] = [Released EXCEPT !.kind = "Dict"]]
  /\ live' = AttrFree(attr[x], live)
  /\ UNCHANGED item

(* attr[x] = attr[y]: operator= skips self-assignment; clone releases x, *)
(* then a Dict is rebuilt by make_dict, realloc_dict(size) and the copy   *)
(* loop, and any other kind is copied as kind_, u_ and size_.             *)
Clone(x, y) ==
  LET lv0 == AttrFree(attr[x], live)
      src == attr[y]
      r   == ReallocDict([Released EXCEPT !.kind = "Dict"], src.size, lv0)
      c   == CloneLoop(src, 0, r.a.pairs, r.lv)
  IN
  /\ x # y
  /\ RoomFor(1 + Cardinality(BlocksOf(PairElems(src))), lv0)
  /\ IF src.kind = "Dict"
     THEN attr' = [attr EXCEPT ![x] = [r.a EXCEPT !.pairs = c.pairs]] /\ live' = c.lv
     ELSE attr' = [attr EXCEPT ![x] = src] /\ live' = lv0
  /\ UNCHANGED item

(* item.make_string(v) *)
MakeItem(v) ==
  LET lv == FreeElem(item, live) IN
  /\ RoomFor(1, lv)
  /\ item' = Str(v, Fresh(lv))
  /\ live' = lv \cup {Fresh(lv)}
  /\ UNCHANGED attr

(* item.make_data(n, bytes): attr_free, then the bytes inline or on the  *)
(* heap.                                                                  *)
MakeItemData(n, v) ==
  LET lv == FreeElem(item, live)
      e  == MakeData(n, v, lv)
  IN
  /\ RoomFor(1, lv)
  /\ item' = e
  /\ live' = IF e.blk # NULL THEN lv \cup {e.blk} ELSE lv
  /\ UNCHANGED attr

(* Every attribute default-constructed; nothing allocated. *)
Init ==
  /\ attr = [x \in Attrs |-> Released]
  /\ item = Zero
  /\ live = {}

Next ==
  \/ \E x \in Attrs, k \in Keys : Lookup(x, k) \/ Assign(x, k)
  \/ \E x \in Attrs : MakeDict(x)
  \/ \E x, y \in Attrs : Clone(x, y)
  \/ \E v \in Vals : MakeItem(v)
  \/ \E n \in DataSizes, v \in Vals : MakeItemData(n, v)

Spec == Init /\ [][Next]_vars

-----------------------------------------------------------------------------
Elem == {Zero, NilElem} \cup [kind : {"String"}, val : Keys \cup Vals, blk : Blocks]
          \cup [kind : {"Data"}, val : DataSizes \X Vals, blk : Blocks \cup {NULL}]

TypeOK ==
  /\ attr \in [Attrs -> [kind : {"Invalid", "Dict"}, size : 0 .. MaxCap,
                         buf : Blocks \cup {NULL}, cap : 0 .. MaxCap,
                         pairs : [Slots -> [key : Elem, value : Elem]]]]
  /\ item \in Elem
  /\ live \subseteq Blocks

(* Who holds a pointer to a heap block: each attribute's u_.dict, the key *)
(* and value strings of its first size_ pairs, and the caller's item.     *)
Holders ==
  {<<x, "buf", 0>> : x \in {y \in Attrs : attr[y].buf # NULL}}
    \cup {<<x, f, i>> \in Attrs \X {"key", "value"} \X Slots :
            i < attr[x].size /\ attr[x].pairs[i][f].blk # NULL}
    \cup (IF item.blk # NULL THEN {<<"item", "item", 0>>} ELSE {})

PointerOf(h) == CASE h[2] = "buf"  -> attr[h[1]].buf
                  [] h[2] = "item" -> item.blk
                  [] OTHER         -> attr[h[1]].pairs[h[3]][h[2]].blk

(* Exclusive ownership of dicts (spec section 3): keys are copied by      *)
(* make_string and values deep-cloned, so after any sequence of lookups,  *)
(* assignments, copies and make_dict no two holders share a block and    *)
(* none points into freed memory; a copy stays independent of its source. *)
DictOwnership ==
  /\ \A h \in Holders : PointerOf(h) \in live
  /\ \A h1, h2 \in Holders : h1 # h2 => PointerOf(h1) # PointerOf(h2)

(* No leak: every allocated block is one that attr_free of its attribute  *)
(* (or of the item) will release, so a kind transition reclaims the pair  *)
(* buffer, the keys and the values (spec section 3).                      *)
Owned(a) == IF a.kind = "Dict" /\ a.size > 0 THEN BlocksOf(PairElems(a)) \cup {a.buf} ELSE {}

NoLeak == live \subseteq UNION {Owned(attr[x]) : x \in Attrs} \cup BlocksOf({item})

=============================================================================
