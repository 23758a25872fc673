---------------------------- MODULE AttributeList ----------------------------
(***************************************************************************)
(* The List kind of AttributeType (src/debugger/src/common/attribute.cpp): *)
(* its element buffer, grown in MIN_ALLOC_BYTES chunks, the elements it    *)
(* owns, and the heap they live in.  One list attribute `this` and one     *)
(* caller-owned attribute `item` (the argument of insert_to_list and of    *)
(* element assignment) are modelled.                                       *)
(*                                                                         *)
(* Data is abstracted to what ownership tells apart: an element is either  *)
(* zeroed memory (kind Attr_Invalid) or a String owning one heap block.    *)
(* The heap is the set `live` of allocated block identities; malloc hands  *)
(* out the least free identity, so a freed identity can be reused and a    *)
(* dangling pointer shows up as a pointer into a block that is not live or *)
(* that another owner now holds.                                           *)
(***************************************************************************)
EXTENDS Naturals, FiniteSets, FiniteSetsExt, Functions

CONSTANTS
  Vals,          \* contents a String element can hold (model values)
  NoVal,         \* the content of zeroed memory
  EmptyStr,      \* the content "": size_ 0, yet make_string mallocs a byte
  ElemsPerChunk, \* MIN_ALLOC_BYTES / sizeof(AttributeType)
  MaxSize,       \* bound on size_ of the list
  Blocks         \* identities of heap blocks (positive naturals)

ASSUME /\ ElemsPerChunk \in Nat \ {0}
       /\ MaxSize \in Nat \ {0}
       /\ Blocks \subseteq Nat \ {0} /\ IsFiniteSet(Blocks)
       /\ NoVal \notin Vals

NULL == 0

VARIABLES
  size,    \* size_ of the list attribute
  buf,     \* u_.list: the element buffer, NULL or a block
  bufCap,  \* elements the allocation behind buf holds (the malloc argument)
  mem,     \* contents of the element buffer, slot by slot
  item,    \* the caller's attribute used as insert/assign source
  live     \* allocated heap blocks

vars == <<size, buf, bufCap, mem, item, live>>

(* Variant without the rounding term: a partial chunk is not allocated. *)
ChunksTruncated(n) == n \div ElemsPerChunk

(* Chunks needed for n elements: (n * sizeof + MIN_ALLOC_BYTES - 1) / MIN_ALLOC_BYTES *)
Chunks(n) == (n + ElemsPerChunk - 1) \div ElemsPerChunk

MaxCap == Chunks(MaxSize) * ElemsPerChunk
Slots  == 0 .. MaxCap - 1

(* memset(0) memory, and an attribute after attr_free: Attr_Invalid, size 0 *)
Zero    == [kind |-> "Invalid", val |-> NoVal, blk |-> NULL]
ZeroMem == [i \in Slots |-> Zero]
Elem    == {Zero} \cup [kind : {"String"}, val : Vals, blk : Blocks]

(* The block malloc returns when `lv` is allocated. *)
Fresh(lv) == Min(Blocks \ lv)

(* attr_free of one element: only a string with size() > 0 frees its     *)
(* buffer, so the byte behind "" stays allocated.                        *)
Releases(e) == e.kind = "String" /\ e.val # EmptyStr

FreeElem(e, lv) == IF Releases(e) THEN lv \ {e.blk} ELSE lv

(* clone() of e into storage that has already been released: a String is  *)
(* copied by make_string into a fresh block, anything else by value.      *)
CloneElem(e, lv) == IF e.kind = "String" THEN [e EXCEPT !.blk = Fresh(lv)] ELSE e
CloneLive(e, lv) == IF e.kind = "String" THEN lv \cup {Fresh(lv)} ELSE lv
Allocs(e)        == IF e.kind = "String" THEN 1 ELSE 0

RoomFor(k, lv) == Cardinality(Blocks \ lv) >= k

(* attr_free of the list: only when size_ > 0 are the elements and the   *)
(* buffer released.                                                       *)
ListFreed ==
  IF size > 0
  THEN (live \ {mem[i].blk : i \in {j \in 0 .. size - 1 : Releases(mem[j])}}) \ {buf}
  ELSE live

-----------------------------------------------------------------------------
(* make_list(n): attr_free, kind_ = Attr_List, realloc_list(n) if n > 0. *)
MakeList(n) ==
  LET lv == ListFreed IN
  \/ /\ n = 0
     /\ size' = 0 /\ buf' = NULL /\ bufCap' = 0 /\ mem' = ZeroMem
     /\ live' = lv
     /\ UNCHANGED item
  \/ /\ n > 0
     /\ RoomFor(1, lv)
     /\ size' = n /\ buf' = Fresh(lv) /\ bufCap' = Chunks(n) * ElemsPerChunk
     /\ mem' = ZeroMem
     /\ live' = lv \cup {Fresh(lv)}
     /\ UNCHANGED item

(* realloc_list(n) when more chunks are needed than size_ accounts for:   *)
(* a new buffer, the first size_ elements copied, the rest zeroed, the    *)
(* old buffer freed only if size_ > 0.                                    *)
ReallocNewBuffer(n) ==
  /\ Chunks(n) > Chunks(size)
  /\ RoomFor(1, live)
  /\ buf' = Fresh(live)
  /\ bufCap' = Chunks(n) * ElemsPerChunk
  /\ mem' = [i \in Slots |-> IF i < size THEN mem[i] ELSE Zero]
  /\ live' = (live \cup {Fresh(live)}) \ (IF size > 0 THEN {buf} ELSE {})
  /\ size' = n
  /\ UNCHANGED item

(* realloc_list(n) within the chunks size_ accounts for: only size_ moves. *)
ReallocKeepBuffer(n) ==
  /\ Chunks(n) <= Chunks(size)
  /\ size' = n
  /\ UNCHANGED <<buf, bufCap, mem, item, live>>

ReallocList(n) == ReallocNewBuffer(n) \/ ReallocKeepBuffer(n)

(* this[i] = item: operator[] on a list, operator= and clone(). *)
SetItem(i) ==
  LET lv == FreeElem(mem[i], live) IN
  /\ i < size
  /\ RoomFor(Allocs(item), lv)
  /\ mem' = [mem EXCEPT ![i] = CloneElem(item, lv)]
  /\ live' = CloneLive(item, lv)
  /\ UNCHANGED <<size, buf, bufCap, item>>

(* item.make_string(v) *)
MakeItem(v) ==
  LET lv == FreeElem(item, live) IN
  /\ RoomFor(1, lv)
  /\ item' = [kind |-> "String", val |-> v, blk |-> Fresh(lv)]
  /\ live' = lv \cup {Fresh(lv)}
  /\ UNCHANGED <<size, buf, bufCap, mem>>

(* Variant that copies item into the new slot bitwise instead of clone(). *)
InsertToListShallow(idx) ==
  LET nb == Fresh(live) IN
  /\ idx <= size
  /\ size < MaxSize
  /\ RoomFor(1, live)
  /\ buf' = nb
  /\ bufCap' = Chunks(size + 1) * ElemsPerChunk
  /\ mem' = [i \in Slots |-> CASE i < idx   -> mem[i]
                               [] i = idx   -> item
                               [] i <= size -> mem[i - 1]
                               [] OTHER     -> Zero]
  /\ live' = (live \cup {nb}) \ (IF size > 0 THEN {buf} ELSE {})
  /\ size' = size + 1
  /\ UNCHANGED item

(* insert_to_list(idx, &item): always a new chunk-rounded buffer for      *)
(* size_ + 1 elements; item is cloned into slot idx, the right part moves *)
(* up by one, the old buffer is freed only if size_ > 0.                  *)
InsertToList(idx) ==
  LET nb  == Fresh(live)
      lv  == live \cup {nb}
      new == CloneElem(item, lv)
  IN
  /\ idx <= size
  /\ size < MaxSize
  /\ RoomFor(1 + Allocs(item), live)
  /\ buf' = nb
  /\ bufCap' = Chunks(size + 1) * ElemsPerChunk
  /\ mem' = [i \in Slots |-> CASE i < idx           -> mem[i]
                               [] i = idx           -> new
                               [] i <= size         -> mem[i - 1]
                               [] OTHER             -> Zero]
  /\ live' = CloneLive(item, lv) \ (IF size > 0 THEN {buf} ELSE {})
  /\ size' = size + 1
  /\ UNCHANGED item

(* remove_from_list(idx): free the element, then swap it with the last  *)
(* one unless it is the last, and drop the last.                         *)
RemoveFromList(idx) ==
  /\ idx < size
  /\ mem' = [mem EXCEPT ![idx] = mem[size - 1], ![size - 1] = Zero]
  /\ live' = FreeElem(mem[idx], live)
  /\ size' = size - 1
  /\ UNCHANGED <<buf, bufCap, item>>

(* trim_list(start, end): for (i = start; i < size_ - end; i++) {         *)
(*   list[start + i].attr_free(); list[start + i] = list[end + i]; }      *)
(* operator= skips self-assignment, so when start + i = end + i the slot  *)
(* is left freed.                                                         *)
RECURSIVE TrimLoop(_, _, _, _, _)
TrimLoop(start, end, i, m, lv) ==
  IF i < size - end
  THEN LET dst == start + i
           src == end + i
           lv1 == FreeElem(m[dst], lv)
           m1  == [m EXCEPT ![dst] = Zero]
       IN IF dst = src
          THEN TrimLoop(start, end, i + 1, m1, lv1)
          ELSE TrimLoop(start, end, i + 1,
                        [m1 EXCEPT ![dst] = CloneElem(m1[src], lv1)],
                        CloneLive(m1[src], lv1))
  ELSE <<m, lv>>

(* Variant with the size adjustment written start - end. *)
TrimListSizeReversed(start, end) ==
  LET r == TrimLoop(start, end, start, mem, live) IN
  /\ start <= end /\ end <= size
  /\ RoomFor(size, live)
  /\ mem' = r[1]
  /\ live' = r[2]
  /\ size' = size - (start - end)
  /\ UNCHANGED <<buf, bufCap, item>>

TrimList(start, end) ==
  LET r == TrimLoop(start, end, start, mem, live) IN
  /\ start <= end /\ end <= size
  /\ RoomFor(size, live)
  /\ mem' = r[1]
  /\ live' = r[2]
  /\ size' = size - (end - start)
  /\ UNCHANGED <<buf, bufCap, item>>

(* swap_list_item(n, m) with n # m: kind, size and payload exchanged. *)
SwapListItem(n, m) ==
  /\ n < m /\ m < size
  /\ mem' = [mem EXCEPT ![n] = mem[m], ![m] = mem[n]]
  /\ UNCHANGED <<size, buf, bufCap, item, live>>

-----------------------------------------------------------------------------
(* The attribute after AttributeType a; a.make_list(0). *)
Init ==
  /\ size = 0
  /\ buf = NULL
  /\ bufCap = 0
  /\ mem = ZeroMem
  /\ item = Zero
  /\ live = {}

Idx == 0 .. MaxSize - 1

Next ==
  \/ \E n \in 0 .. MaxSize : MakeList(n)
  \/ \E n \in 0 .. MaxSize : ReallocList(n)
  \/ \E i \in Idx : SetItem(i)
  \/ \E v \in Vals : MakeItem(v)
  \/ \E i \in 0 .. MaxSize : InsertToList(i)
  \/ \E i \in Idx : RemoveFromList(i)
  \/ \E s, e \in 0 .. MaxSize : TrimList(s, e)
  \/ \E n, m \in Idx : SwapListItem(n, m)

Spec == Init /\ [][Next]_vars

-----------------------------------------------------------------------------
TypeOK ==
  /\ size \in 0 .. MaxSize
  /\ buf \in Blocks \cup {NULL}
  /\ bufCap \in 0 .. MaxCap
  /\ mem \in [Slots -> Elem]
  /\ item \in Elem
  /\ live \subseteq Blocks

(* Who holds a pointer to a heap block: every String slot of the buffer   *)
(* (past size_ included, since realloc_list can expose those slots        *)
(* again), the caller's item, and the list itself through u_.list.       *)
Holders ==
  {<<"slot", i>> : i \in {j \in 0 .. bufCap - 1 : mem[j].kind = "String"}}
    \cup (IF item.kind = "String" THEN {<<"item", 0>>} ELSE {})
    \cup (IF buf # NULL THEN {<<"buf", 0>>} ELSE {})

PointerOf(h) == CASE h[1] = "item" -> item.blk
                  [] h[1] = "buf"  -> buf
                  [] OTHER         -> mem[h[2]].blk

(* Exclusive ownership (spec section 3): every pointer held by the list,  *)
(* its elements or the caller's item is to a live block, and no two       *)
(* holders share one: clone deep-copies, insert/remove/trim/swap move or  *)
(* copy elements without ever leaving two owners of one string buffer or  *)
(* a slot pointing into freed memory.                                     *)
ExclusiveOwnership ==
  LET ptr == [h \in Holders |-> PointerOf(h)] IN
  /\ Range(ptr) \subseteq live
  /\ IsInjective(ptr)

(* The buffer really holds size_ elements: realloc_list decides whether   *)
(* to reallocate from size_ alone (it never records the capacity), and    *)
(* insert_to_list sizes its buffer from size_ + 1, so every element index *)
(* below size_ must stay inside the allocation across shrinking by        *)
(* remove/trim/realloc and regrowing.                                     *)
CapacityCoversSize ==
  size > 0 => buf # NULL /\ size <= bufCap

(* No leak: every allocated block is reachable from the list's first     *)
(* size_ elements, its buffer pointer, or the caller's item (spec section *)
(* 3: releasing reclaims the storage, a kind transition reclaims the      *)
(* buffer).                                                               *)
Reachable ==
  {mem[i].blk : i \in {j \in 0 .. size - 1 : mem[j].kind = "String"}}
    \cup (IF item.kind = "String" THEN {item.blk} ELSE {})
    \cup (IF buf # NULL THEN {buf} ELSE {})

NoLeak == live \subseteq Reachable

=============================================================================
