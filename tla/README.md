# TLA+ models of the debugger's AttributeType

This directory holds TLA+ models of `AttributeType`, the variant value that
the riscv_vhdl debugger uses for configuration trees, GUI commands and
responses, and their text form (`src/debugger/src/common/attribute.cpp`). It
also models the one GUI widget in the sources that builds on it
(`src/debugger/src/gui_plugin/CpuWidgets/MemArea.cpp`). Each module names the
lines it translates in `PROJECT.json` under `"map"`. `PROJECT.json` also lists
every run, its mutants, the findings and the hazards.

## 1. Inventory

### Components

| Component | Source | State it keeps | Operations |
|---|---|---|---|
| Variant value core | attribute.cpp 23-157 | `kind_`, `size_`, the union `u_`: an inline scalar, an owned string, inline (8 bytes or fewer) or heap data, a list buffer or a dict buffer | `attr_free`, `clone`, `operator=`, `is_equal`, `make_string`, `make_data`, `operator[](idx)`, `operator()(idx)` |
| List storage | attribute.cpp 180-265 | `size_`, `u_.list` (a buffer rounded up to 4096-byte chunks), the elements it owns | `make_list`, `realloc_list`, `insert_to_list`, `remove_from_list`, `trim_list`, `swap_list_item` |
| Dict storage | attribute.cpp 111-134, 331-379 | `size_`, `u_.dict` (a chunked buffer of key/value pairs) | `make_dict`, `realloc_dict`, `operator[](key)` (appends a missing key), `has_key`, `dict_key`, `dict_value` |
| Ordering | attribute.cpp 268-329 | the list's elements, permuted in place | `sort(idx)` → `quicksort` → `partition` (pivot is the last element, swaps via `swap_list_item`) |
| Encoder | attribute.cpp 18, 381-385, 391-467 | the process-wide `strBuffer` | `to_config`, `attribute_to_string` (recursive, appends to `strBuffer`) |
| Decoder | attribute.cpp 387-389, 469-607 | the cursor `pcur` over a NUL-terminated text, the output attribute | `from_config`, `string_to_attribute` (recursive descent), `skip_special_symbols`; looks up services through `RISCV_get_service` |
| Memory view widget | MemArea.cpp | `reqAddr_`, `reqBytes_`, `data_`, `tmpBuf_`, `dataText_`, `cmdRead_` | `slotAddressChanged`, `slotUpdateByTimer`, `handleResponse`, `to_string`, `slotUpdateData` |
| Main window | DbgMainWindow.h | declarations only | none in the sources |

`AutoBuffer`, `RISCV_malloc/free`, `RISCV_get_service`, `RISCV_printf`, the
`IGui` command queue and Qt are used by this code but are not in the sources.

### How the components interact

Every aggregate operation goes through the core. Element assignment
`(*list)[i] = v` is `operator[]` then `operator=`, which calls `clone`, which
calls `attr_free` and then `make_*`. Ordering works on a list through
`operator[]` and `swap_list_item`. The encoder reads an attribute
recursively. It copies each list element with `operator=` and appends to the
shared `strBuffer`. The decoder builds its output through `make_*`,
`realloc_list`, `operator[](key)` and `operator=`. It reuses one temporary
(`new_item`, `new_key`, `new_value`) across the loop iterations of a list or
dict. It calls the service registry to turn `{'Type':'IService',...}` into an
interface reference. `MemArea` keeps its state in attributes. It sends a
`read` command string to the GUI command queue. The response comes back
through `handleResponse`, which re-renders the text and emits a queued signal
that the GUI thread handles in `slotUpdateData`.

### What is hard here

- **Manual ownership.** Nothing records the capacity of a buffer, only
  `size_`. `attr_free` releases only when `size_ > 0`. Elements are moved by
  `memcpy` and copied by `clone`. Leaks, dangling pointers and two owners of
  one block only show up after particular call sequences.
- **Order semantics.** `remove_from_list` moves the last element into the
  hole. `trim_list` claims to keep order. Growth within a chunk does not zero
  memory, so slots past `size_` keep old contents.
- **Partial failure in sort.** An element of an unsupported kind stops the
  current partition step early, and the recursion carries on.
- **Text codec.** It is a hand-written recursive descent over a raw string.
  Temporaries are reused across iterations, the end of input is not checked
  everywhere, and some loops do not always advance the cursor.
- **Threads in the widget.** `MemArea::handleResponse` runs on the
  command-processing side and `slotUpdateData` runs on the GUI thread, and
  both use `dataText_`. The request parameters can change between a request
  and its response.

### Properties that make each component correct

- List storage: exclusive ownership of every heap block. `size_` stays within
  the allocation. Nothing leaks. The sequence of element values behaves as
  spec section 4.2 documents (refinement of `AbstractList`).
- Dict storage: lookup returns the first match. Lookup of a present key does
  not grow the dict. Keys stay unique under the mutators.
- Ordering: the result is a permutation of the input. It is sorted when the
  input is homogeneous. Sorting a non-list is a no-op. No comparison reads
  through a value of the wrong kind.
- Encoder/decoder: decoding an encoding gives back the value. The decoder
  terminates on every input and never reads past the terminating NUL. A
  pointer returned by `to_config` stays valid until the caller is done with it.
- Memory view: the text shown is the rendering of one response for the
  request it answered. Rendering stays inside `tmpBuf_`. No byte index goes
  past `data_`.

## 2. Plan

The modules are built in this order, the most used behaviour first:

1. `AttributeList` (done): list storage and the heap. `AbstractList` (done)
   is the promise of spec section 4.2, and `MCAttributeList` maps the list
   onto it.
2. `AttributeSort` (done): `sort`/`quicksort`/`partition` as RECURSIVE operators,
   applied by a `Sort` action to a list of Int/UInt/String/List-record/Bool
   elements with a small word width. Also the Dict case, where
   `swap_list_item` runs over the pair buffer. It refines an `AbstractSort`
   (sorted permutation on homogeneous input).
3. `AttributeDict` (done): `make_dict`, `realloc_dict`, `operator[](key)`
   with auto-vivification, and clone of a dict. `AbstractDict` (done) is the
   promise of spec sections 3 and 4.1.
4. `AttributeCodec` (done): `attribute_to_string` as a RECURSIVE operator over
   abstract tokens, and `string_to_attribute` as a state machine over a token
   sequence (cursor, frame stack, reused temporaries). Properties: round trip
   on bounded values, termination (every loop iteration consumes input),
   never reading past the NUL, and service resolution. The shared
   `strBuffer` is not modelled (section 4).
5. `MemArea` (done): two processes, the GUI thread (timer, address change, queued
   `slotUpdateData`) and the response handler, over `reqAddr_`, `reqBytes_`,
   `data_` and `dataText_`. Properties: no use of a freed `dataText_` buffer,
   and the display catching up with the latest rendering. The out-of-range
   `data_(i)` and the `tmpBuf_` size became hazards with notes.

## 3. Modules and runs so far

### AttributeList

State: `size` is `size_`. `buf` is `u_.list`. `bufCap` is the number of
elements the allocation behind `buf` holds; the code never stores it, and it
is the allocator's record. `mem` is the buffer's contents, slot by slot, up to
the largest capacity. `item` is a caller-owned attribute, the source of
insert and assignment. `live` is the set of allocated heap blocks. An element
is either zeroed memory (`Attr_Invalid`, which is what `memset(0)` and
`attr_free` leave) or a String owning one block. `attr_free` frees a String
only when `size() > 0` (`Releases`), so `""` (`EmptyStr`, never among the
checked contents) would keep its byte. Ints, floats and booleans
own no memory and would only add states. malloc returns the least free block,
so freed identities are reused, and a dangling pointer shows up as a pointer
to a block that is dead or held by someone else.

Actions, one per method: `MakeList(n)` (attr_free, then realloc).
`ReallocList(n)` is split into `ReallocNewBuffer` and `ReallocKeepBuffer`,
the two outcomes of the chunk comparison. `SetItem(i)` is
`(*this)[i] = item`. `MakeItem(v)` is `item.make_string(v)`. The others are
`InsertToList(idx)`, `RemoveFromList(idx)`, `TrimList(start, end)` (its loop
is the RECURSIVE `TrimLoop`, including the self-assignment skip of
`operator=`) and `SwapListItem(n, m)`. Inputs are the indices the methods'
contracts allow: `idx <= size_` for insert, `idx < size_` for remove and
assignment, `start <= end <= size_` for trim. The out-of-range branches of
insert and remove only log, so they are stuttering steps.

Bounds (`MCAttributeList.cfg`): two string values, `ElemsPerChunk = 2`, so
that three elements cross a chunk boundary, `MaxSize = 3`, and 7 heap blocks.
That is enough for three elements, the item, two buffers during a
reallocation, and leaked blocks. When the heap is exhausted, allocating
actions are disabled. `MakeList(0)` never allocates, so the model never
deadlocks.

| Run | Expect | What it shows |
|---|---|---|
| `list_ownership` | pass | `ExclusiveOwnership`: every pointer held by a slot (past `size_` too), the item, or the list is to a live block, and no two holders share one. `CapacityCoversSize`: `size_` never exceeds the allocation, even though `realloc_list` sizes from `size_` alone. |
| `list_leak` | violation | `NoLeak` fails. `make_list(1)`, `realloc_list(0)`, then `make_list(0)` leaks the buffer, because `attr_free` releases only when `size_ > 0`. |
| `list_refinement` | violation | `ListRefinesAbstract` fails. `trim_list(1,1)` on three elements frees element 2 and then skips the self-assignment, so an empty trim destroys an element. |

`TrimRemovesRange` (trim_list removes exactly `[start, end)`) is stated in
`MCAttributeList` but no run checks it. TLC finds it violated by
`trim_list(1,2)` on `[x,a,y]`, which yields `[x,a]`: the loop starts `i` at
`start` and indexes `start + i`. It is listed as a hazard.

`GrowthAddsEmpty` (spec section 4.2: growth zero-fills) is stated in the
module but no run checks it. TLC finds it violated in two steps: shrink with
`realloc_list`, then grow within the chunk, and the old element reappears. It
is listed as a hazard.

### AttributeSort

State: `attr` is the sorted attribute, its kind (`List` or `Dict`) and its
flat buffer of elements, indexed from 0 as `u_.list` is. A Dict's buffer is
its key/value pairs laid end to end, which is how `swap_list_item` sees it.
`undefined` records whether any comparison so far read a value through the
wrong member of the union (a `strcmp` on an integer pivot, a signed read of a
String). An element is a record of its kind and an abstract value: a word of
`IntBits` bits for Int and UInt (so signed and unsigned order differ), a rank
for a String (strcmp order), Bool, or a nested list whose element
`lst_idx = 0` is an Int or a String.

`Sort` is `sort(0)`. It applies `QuickSort`, `Partition` and the loop
`PartitionLoop`, written as RECURSIVE operators. They return the set of
possible outcomes. A `strcmp` on a number read as a char pointer has no
defined result: it can go either way. An Int or UInt compared with a String
or list pivot reads the pivot's heap address, which exceeds every modelled
word, so the comparison holds (`PointerLeq`). Both kinds of read set
`undefined`.
`DoSwap` is the comparison chain of `partition`, one operator per branch
(`StrLeq`, `IntLeq`, `UIntLeq`). `SubOf` is `item[lst_idx]`, which answers
NilAttribute for a pivot that is not a list. An unsupported element (Bool)
makes `PartitionLoop` return `i + 1` at once, without placing the pivot, as
the code does. `sort` on a non-list logs and then carries on, so `Sort`
runs on a Dict too.

`AbstractSort` is the promise: one step turns the list into a permutation of
itself, and that permutation is sorted when all elements have one comparable
kind. `MCAttributeSort` maps `attr.flat` onto a sequence and gives the order
(`Leq`): strcmp order for Strings, signed order for Ints, unsigned for
UInts, and the order of the nested element for nested lists.

Bounds (`MCAttributeSort.cfg`): `IntBits = 2`, so -2..1 signed and 0..3
unsigned, with 1 as a point where the two orders disagree with a mixed list.
Two string ranks and lists of up to three elements: three elements are the
fewest for which partition both swaps and recurses on two sides. All 5220
lists over the 17 element values are initial states.

| Run | Expect | What it shows |
|---|---|---|
| `sort_refinement` | pass | `SortRefinesAbstract`: every outcome of `sort` is a permutation of the input, sorted when the input is homogeneous. An unsupported element leaves its range partly sorted but loses nothing. |
| `sort_dict` | violation | `SortNonListIsNoOp` fails: `sort` on `{k1: 1, k2: 0}` logs an error, then compares the values as numbers (`1 <= 0` is false) and swaps the first key with the first value. Every comparison on the way is defined. |

`NoUndefinedComparison` is stated in the module but no run checks it. TLC
finds it violated on `[0, 'a']`, where the Int item is compared with
`to_int64()` of a String pivot. It is listed as a hazard.

### AttributeCodec

`Encode` is `attribute_to_string`, written as a RECURSIVE operator from a
value to the characters it appends: one case per kind, with the `,` written
after every part but the last (`Joined`). The decimal and hex digits come
from `AutoBuffer::write_uint64` and `write_byte`, which are not in the
sources. They are modelled from spec section 4.4. The shared `strBuffer` is
left out: nested calls only append to it, and the callers that keep the
pointer `to_config` returns are not in the sources.

The decoder is a state machine over one text, a sequence of one-character
strings followed by a NUL. `pcur` is the cursor, 0-based as in C, and
position `Len(text)` holds the NUL. Each open list or dict is a frame on
`stack`. A frame holds `out`, the value being built, and the temporaries that
the loop reuses from one element to the next: `new_item` or `new_key` in
`tmp`, and `new_value` in `tmp2`.

- `Enter(c, cur)` is a call of `string_to_attribute(cfg, out)` with `*out`
  equal to `cur`. A string, data, `None`/`true`/`false` or number token is
  decoded in that step. For `None` the value is `cur` unchanged, because the
  code never assigns `*out`. `[` or `{` opens a frame.
- One action per part of the loops: `ListLoop` (the nested call for the next
  element), `ListAppend`, `ListClose`, `DictLoop` (the key), `DictKey` (the
  `:` and the value), `DictPut` and `DictClose`. `DictPut` is
  `(*out)[key] = value` through `operator[](key)`. `DictClose` includes the
  `IService` lookup, which starts with `has_key("Type")` (`HasKey`).
  `DecodeTop` is `from_config`.
- `maxRead` is the largest position any step read. The model stops at the
  first read past the NUL, because what follows is undefined.
- `status` becomes `"undefined"` when `to_string()` is called on a value that
  is not a String: a dict key, `Type`, or `ModuleName`. `RoundTrip` rejects
  that outcome.

Inside a quoted string only a quote and the NUL matter to the decoder. String
contents are therefore abstract symbols: `"z"`, and `"Type"`, `"IService"`
and `"ModuleName"` as one symbol each. Integers keep `IntBits = 2` bits.
`strtoull` is modelled with its radix rules: `0x` selects hex, a leading `0`
selects octal, and parsing stops at the first invalid digit. Its saturation
above 2^64 is not reached by the bounded texts. `MaxElems = 3` bounds the
elements one list or dict collects. The encodings checked have at most two
elements, so the bound only stops a loop that makes no progress. A stopped
loop is a behaviour that never returns, and `Termination` reports it.

Fairness: `string_to_attribute` runs to completion on the calling thread and
never blocks, so the specification has `WF_vars(Next)`. Decoding stops once
`from_config` returns, so the runs do not check for deadlock.

Inputs (`MCAttributeCodec`): the encodings of 117 values. They are Ints (0
and 3), both Bools, the empty string and `'z'`, three Data values (including
the bytes `1A`, where the order of the two hex digits matters), every list of
up to two of these and of small nested lists, one- and two-pair dicts, a list
holding a dict, and an interface to a registered service. The arbitrary texts
are every sequence of up to three characters over `[ { ( ' , : 1 A`.

| Run | Expect | What it shows |
|---|---|---|
| `codec_roundtrip` | pass | `RoundTrip`: decoding the encoding returns the value, without undefined behaviour. `NoReadPastEnd`: no read past the NUL. `Termination`: `from_config` returns. |
| `codec_float` | violation | `Termination` fails on `[1.0000]`: the `.` is consumed by no branch, and the list loop appends `0` at the same position until the bound. |
| `codec_overread` | violation | `NoReadPastEnd` fails on `(`: the data loop stops at the NUL, then `pcur++` and `skip_special_symbols` read the byte after it. The list, dict and string branches do the same. |

Four more disagreements are in the model but are not among the runs. Each
was seen in a one-step counterexample while building the model, and
`PROJECT.json` lists each as a hazard. The first three break `RoundTrip`.
The fourth ends in `status = "undefined"`:
- `None` leaves the attribute Invalid, because the branch only advances the
  cursor. `[1,None]` decodes as `[1,1]` through the reused `new_item`. Spec
  section 4.5 says `None` decodes to Nil. The `codec_roundtrip` inputs leave
  `None` out.
- A UInt64 is written in decimal and read back with `make_int64`, so it
  returns as an Int64. Spec section 9 leaves integer kinds through text as
  an open question.
- A string token after a blank decodes shifted, because its bytes are copied
  from `cfg[1]`: ` 'z'` becomes the string `'`.
- A dict key that is not a String, as in `{,`, hands `strcmp` a non-string.

### AttributeDict

`AttributeDict.tla` models Dict storage over the same abstract heap as
`AttributeList`: `live` is the set of allocated blocks, and malloc hands out
the least free one.

State:
- `attr[x]`: for each attribute x, `kind_` (Invalid or Dict), `size_`,
  `u_.dict` as `buf`, the capacity of that buffer, and its pairs;
- `item`: the caller's attribute that values are assigned from.

A key or a value is zeroed memory, Nil, a String owning a block, or Data.
`attr_free` frees a String only behind its `size() > 0` test (`Frees`), so
the byte that `make_string("")` allocates is never released.
`make_data(size, bytes)` (`MakeData`) keeps the bytes in `u_.data_bytes`
up to 8 bytes and in a heap block past that. `attr_free` (`Frees`) frees
`u_.data` only when `size() > 8`. `clone` of a Data value runs `make_data`
again.

Actions:
- `Lookup(x, k)` is `operator[](key)` used alone. It scans for the first
  match. On a miss it runs `realloc_dict(size_ + 1)`, then `make_string` on
  the new key and `make_nil` on the new value. The const overload does the
  same.
- `Assign(x, k)` adds `operator=` on that value, which releases it and
  clones `item`.
- `MakeDict(x)` is `make_dict`.
- `Clone(x, y)` is `operator=` between attributes. A Dict source runs
  `make_dict`, `realloc_dict(n)` and the RECURSIVE copy loop; any other kind
  is copied bitwise.
- `MakeItem(v)` is `item.make_string(v)`. `MakeItemData(n, v)` is
  `item.make_data(n, bytes)`.

`CallerMakesDict` says whether callers call `make_dict` before keyed access,
as the decoder does. The code itself does not check.

`MCAttributeDict`:
- two attributes, two keys, one non-empty value content. With `""` among the
  contents `NoLeak` fails in one step (`item.make_string("")`), which is
  listed as a hazard; leaving it out lets the run check every other leak;
- Data of 8 and of 9 bytes: the largest inline size and the smallest heap
  one, so that a disagreement between `make_data` and `attr_free` at the
  boundary leaks a block;
- two pairs per chunk, so that adding the second key stays within the
  buffer;
- 6 heap blocks. That is enough for a full two-pair dict of String values
  beside the item, and for copying a two-pair dict whose values own no block
  (Nil or 8-byte Data). A copy of a dict holding two heap values is cut off.
  With 7 blocks the run takes about 7 minutes.

This gives 74592 states in about 30 s. The refinement mapping takes each Dict to the
sequence of its first `size_` pairs and every other kind to the empty
sequence.

| Run | Expect | What it shows |
|---|---|---|
| `dict_storage` | pass | `DictOwnership`: every key, value and buffer pointer is to a live block, and no two holders share one, so a copy is independent of its source. `NoLeak`: every live block is one that `attr_free` of its holder will release, which also ties `make_data`'s inline/heap choice to `attr_free`'s (the `MakeDataAtEight` mutant leaks). `DictRefinesAbstract`: lookups, keyed assignments, copies and `make_dict` behave as the abstract dict of unique-key pairs with auto-creation. |
| `dict_nondict` | violation | `NoLeak` fails in one step: `d["k1"]` on a default-constructed attribute allocates a pair buffer and a key while `kind_` stays Invalid, and `attr_free` never frees them. Spec section 7 says indexing a non-aggregate is reported and returns a sentinel. |

### MemArea

`MemArea.tla` models the memory view widget. Two threads share it:
- the GUI thread runs the Qt slots;
- the GUI plugin's command thread runs `handleResponse` for each command
  that `slotUpdateByTimer` registered.

State:
- `reqAddr`, `reqBytes`: `reqAddr_`, `reqBytes_`;
- `mem`: the target memory, a content token per address;
- `queue`: the registered reads, each holding the address and the count at
  the time of the timer tick;
- `cmd`: the command thread, either idle or between the compare and the
  render of `handleResponse`;
- `data`: `data_`, its size and content;
- `text`: `dataText_`, held as the (address, byte count, content) that
  `to_string` renders;
- `pending`: a queued `signalUpdateData` not yet delivered;
- `gui`: the GUI thread inside `slotUpdateData`. It holds the text it took
  from `dataText_.to_string()`, and whether that buffer is still allocated;
- `shown`: what the text widget displays.

Actions:
- `AddressChanged`, `UpdateByTimer`, `UpdateDataLoad`, then `UpdateDataCopy`
  are the GUI thread;
- `Execute`, `HandleCompare`, then `HandleRender` are the command thread;
- `MemoryWrite` is the target running.

`HandleCompare` reads `reqBytes_` now, not when the command was issued. A
response longer than `data_` reads past `data_`'s end (`operator()` rejects
only `idx > size()`), so the model lets it compare either way.
`HandleRender` reads `reqAddr_` and `reqBytes_` again, frees the old text and
emits the signal.

The IGui queue and the command executor are not in the sources. The model
assumes they execute commands in order and pass the request parameters by
value.

Fairness: the Qt event loop delivers posted events, and the command thread
works through its queue, so both threads' steps are weakly fair. The timer,
the user and the target need not act.

Bounds (`MCMemArea`):
- two addresses and two contents;
- byte counts 20 (the constructor's) and 16;
- at most one queued command.

This is enough for an address or a count to change while a read is in
flight, and for a response to be longer than the 8-byte `data_`. The state
space is 220496 states.

| Run | Expect | What it shows |
|---|---|---|
| `mem_display` | pass | `DisplayCatchesUp`: once `handleResponse` stops re-rendering, the widget comes to show the latest `dataText_`. This is because every render is followed by a signal that the GUI thread handles after it. |
| `mem_race` | violation | `NoUseAfterFree` fails. `slotUpdateData` takes `dataText_.to_string()`, then a response is handled, and `make_string` frees that buffer before `tr()` copies it. |

The model also shows that the display need not converge to memory: a check
that it does, with the timer fair, fails. A response as long as the request
but longer than `data_` compares the bytes past `data_` with whatever lies
there. When it compares equal, the response is dropped:
- at start-up, memory equal to the zero `data_` is never shown;
- after a change of byte count alone, the old count stays on screen.

That check is not among the runs. `PROJECT.json` lists it as a hazard.

## 4. Not modelled

- **Dict reads**: `dict_key` and `dict_value` only return pointers and
  change nothing, so they are not actions. `has_key` is an operator
  (`HasKey`) where the decoder calls it. A pair whose value is Nil does not
  count, though the decoder never produces one.
- **`operator()(idx)` and `make_data(size)`**: the byte read appears only as
  the nondeterministic comparison in MemArea's `HandleCompare`. The
  uninitialised `make_data(size)` serves only `tmpBuf_`.
- **References held across calls**: `operator[]` returns a reference into
  the pair buffer. Each modelled action finishes with it before the next one
  starts, so a caller keeping `d["a"]` while `d["b"]` reallocates is not
  modelled. Neither is `d = d["a"]`, which frees its own source.
- **Main window** (`DbgMainWindow.h`): the header only declares slots and
  members, and no behaviour is in the sources.
- **Encoder `strBuffer` lifetime**: the encoder is modelled as a pure
  function, so callers holding the returned pointer across a second call are
  not modelled.
- **`to_string` byte arithmetic and `tmpBuf_`**: the rendering is abstracted
  to what it shows. The buffer overrun is a hazard with a note.
- **Outside the sources**: the allocator (modelled only as live blocks), the
  service registry, the IGui command queue, and logging.
