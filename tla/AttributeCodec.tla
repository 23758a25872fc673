--------------------------- MODULE AttributeCodec ---------------------------
(***************************************************************************)
(* The text form of AttributeType (attribute.cpp 381-607).                 *)
(*                                                                         *)
(* attribute_to_string is the operator Encode: a value to the characters   *)
(* it appends to strBuffer.  string_to_attribute is a state machine over  *)
(* one NUL-terminated text: pcur is the cursor, and each open list or     *)
(* dict is a frame on stack holding the value being built (out) and the   *)
(* temporaries the loop reuses from one element to the next (new_item or  *)
(* new_key in tmp, new_value in tmp2).  A nested call that decodes a      *)
(* scalar completes in the step that makes it; a nested list or dict      *)
(* pushes a frame and returns into the caller's temporary when it closes. *)
(*                                                                         *)
(* Characters are one-character strings; the contents of a quoted string  *)
(* are abstract symbols, since the decoder only tells a quote and NUL     *)
(* apart inside a string.  Text positions are 0-based as in C, and        *)
(* position Len(text) holds the terminating NUL.  maxRead is the largest  *)
(* position any step dereferenced: a read past the NUL is undefined       *)
(* behaviour, and the model stops at it.                                   *)
(***************************************************************************)
EXTENDS Integers, Sequences, SequencesExt

CONSTANTS
  Inputs,     \* set of [text, orig]: the decoded text, and the value it encodes
  IntBits,    \* width of the integers the model keeps
  Services,   \* names RISCV_get_service resolves
  MaxElems    \* bound on the elements one list or dict collects

ASSUME IntBits \in Nat \ {0} /\ MaxElems \in Nat

VARIABLES
  text,       \* the input, a sequence of characters
  orig,       \* the value text was encoded from (NoVal for arbitrary text)
  pcur,       \* the cursor
  maxRead,    \* the largest position dereferenced so far
  top,        \* the attribute from_config decodes into
  stack,      \* open list and dict frames, innermost last
  status      \* "start", "run", "done", or "undefined" after undefined behaviour

vars == <<text, orig, pcur, maxRead, top, stack, status>>

-----------------------------------------------------------------------------
(* Values *)

Invalid     == [k |-> "Invalid"]
Nil         == [k |-> "Nil"]
NoVal       == [k |-> "none"]
UB          == [k |-> "UB"]
IntV(x)     == [k |-> "Int", v |-> x]
UIntV(x)    == [k |-> "UInt", v |-> x]
FloatV(x)   == [k |-> "Float", v |-> x]
BoolV(b)    == [k |-> "Bool", v |-> b]
StrV(s)     == [k |-> "Str", s |-> s]
ListV(e)    == [k |-> "List", e |-> e]
DictV(e)    == [k |-> "Dict", e |-> e]
DataV(e)    == [k |-> "Data", e |-> e]
IfaceV(n)   == [k |-> "Iface", name |-> n]

NoService   == <<>>               \* the NULL an unknown service name yields
TypeKey     == <<"Type">>
IServ       == <<"IService">>
ModName     == <<"ModuleName">>

NUL         == "NUL"
WS          == {" ", "\t", "\r", "\n"}
HexDigit    == <<"0","1","2","3","4","5","6","7","8","9","A","B","C","D","E","F">>
LowerHex    == <<"a","b","c","d","e","f">>
NONE        == <<"N","o","n","e">>
TRUE_       == <<"t","r","u","e">>
FALSE_      == <<"f","a","l","s","e">>

-----------------------------------------------------------------------------
(* Encoder *)

Digit(n) == HexDigit[n + 1]

(* AutoBuffer::write_uint64: unsigned decimal. *)
RECURSIVE Dec(_)
Dec(n) == IF n < 10 THEN <<Digit(n)>> ELSE Dec(n \div 10) \o <<Digit(n % 10)>>

(* AutoBuffer::write_byte: two uppercase hex digits. *)
Hex2(b) == <<Digit(b \div 16), Digit(b % 16)>>

(* Variant that leaves the closing quote out. *)
QuotedUnterminated(s) == <<"'">> \o s

Quoted(s) == <<"'">> \o s \o <<"'">>

(* The loops that write ',' after every part but the last. *)
Joined(parts) ==
  FlattenSeq([i \in DOMAIN parts |-> IF i < Len(parts) THEN parts[i] \o <<",">>
                                                     ELSE parts[i]])

RECURSIVE Encode(_)
Encode(a) ==
  CASE a.k = "Nil"             -> NONE
    [] a.k \in {"Int", "UInt"} -> Dec(a.v)
    [] a.k = "Str"             -> Quoted(a.s)
    [] a.k = "Bool"            -> IF a.v THEN TRUE_ ELSE FALSE_
    [] a.k = "List"            -> <<"[">> \o Joined([i \in DOMAIN a.e |-> Encode(a.e[i])]) \o <<"]">>
    [] a.k = "Dict"            -> <<"{">> \o Joined([i \in DOMAIN a.e |->
                                      Quoted(a.e[i].key) \o <<":">> \o Encode(a.e[i].val)]) \o <<"}">>
    [] a.k = "Data"            -> <<"(">> \o Joined([i \in DOMAIN a.e |-> Hex2(a.e[i])]) \o <<")">>
    [] a.k = "Iface"           -> <<"{">> \o Quoted(TypeKey) \o <<":">> \o Quoted(IServ) \o <<",">>
                                     \o Quoted(ModName) \o <<":">> \o Quoted(a.name) \o <<"}">>
    [] a.k = "Float"           -> Dec(a.v) \o <<".", "0", "0", "0", "0">>
    [] OTHER                   -> <<>>

-----------------------------------------------------------------------------
(* Decoder: reading the text *)

Ch(p) == IF p < Len(text) THEN text[p + 1] ELSE NUL

(* skip_special_symbols: reads up to and including the position it returns. *)
RECURSIVE Skip(_)
Skip(p) == IF Ch(p) \in WS THEN Skip(p + 1) ELSE p

(* The scan of a quoted string for its closing quote t or the NUL. *)
RECURSIVE ScanTo(_, _)
ScanTo(p, t) == IF Ch(p) \in {t, NUL} THEN p ELSE ScanTo(p + 1, t)

Bytes(a, n) == [i \in 1 .. n |-> Ch(a + i - 1)]

(* pcur[0] == w[0] && pcur[1] == w[1] && ...; stops at the first mismatch, *)
(* so never beyond the NUL.                                                *)
Matches(p, w) == \A i \in 1 .. Len(w) : Ch(p + i - 1) = w[i]

IsHexChar(c) == c \in Range(HexDigit) \cup Range(LowerHex)
DigitVal(c) == IF c \in Range(HexDigit) THEN CHOOSE i \in 0 .. 15 : HexDigit[i + 1] = c
                                         ELSE CHOOSE i \in 10 .. 15 : LowerHex[i - 9] = c

(* The number loop: a maximal run of decimal or hex digit characters. *)
RECURSIVE RunEnd(_)
RunEnd(p) == IF IsHexChar(Ch(p)) THEN RunEnd(p + 1) ELSE p

(* strtoull(digits, NULL, 0): the radix follows the prefix ("0x" is 16, a  *)
(* leading "0" is 8), and the parse stops at the first invalid digit.     *)
RECURSIVE ULL(_, _, _)
ULL(ds, b, acc) ==
  IF ds = <<>> \/ ~(IsHexChar(Head(ds)) /\ DigitVal(Head(ds)) < b) THEN acc
  ELSE ULL(Tail(ds), b, acc * b + DigitVal(Head(ds)))

StrToULL(ds) ==
  CASE Len(ds) >= 2 /\ ds[1] = "0" /\ ds[2] = "x" -> ULL(Tail(Tail(ds)), 16, 0)
    [] Len(ds) >= 1 /\ ds[1] = "0"                -> ULL(ds, 8, 0)
    [] OTHER                                      -> ULL(ds, 10, 0)

(* One hex digit of a data token: 'A'..'F', else *pcur - '0'; any other  *)
(* character gives a byte no property looks at (-1).                    *)
Nibble(c) == IF c \in Range(HexDigit) THEN DigitVal(c) ELSE -1

(* Variant that shifts the second digit instead of the first. *)
ByteOfSwapped(c1, c2) ==
  IF Nibble(c1) < 0 \/ Nibble(c2) < 0 THEN -1 ELSE Nibble(c2) * 16 + Nibble(c1)

ByteOf(c1, c2) ==
  IF Nibble(c1) < 0 \/ Nibble(c2) < 0 THEN -1 ELSE Nibble(c1) * 16 + Nibble(c2)

(* The data loop from p: the two characters of a byte are read without a  *)
(* check; it returns where it stopped and the bytes.  Once the skip after *)
(* a byte has read past the NUL it stops there.                           *)
RECURSIVE DataLoop(_, _)
DataLoop(p, e) ==
  IF Ch(p) \in {")", NUL} THEN [p |-> p, e |-> e]
  ELSE LET p2 == Skip(p + 2)
           p3 == IF Ch(p2) = "," THEN Skip(p2 + 1) ELSE p2
       IN IF p2 > Len(text) THEN [p |-> p2, e |-> e]
          ELSE DataLoop(p3, Append(e, ByteOf(Ch(p), Ch(p + 1))))

Leaf(v, p, rd) == [leaf |-> TRUE, v |-> v, p |-> p, rd |-> rd]
Open(v, p)     == [leaf |-> FALSE, v |-> v, p |-> p, rd |-> p]

(* string_to_attribute(cfg, out) where cfg is position c and *out is cur: *)
(* a scalar, string or data token is decoded at once; '[' or '{' opens a  *)
(* frame.  rd is the largest position read.                               *)
Enter(c, cur) ==
  LET p  == Skip(c)
      ch == Ch(p)
  IN CASE ch \in {"'", "\""} ->
            LET q == ScanTo(p + 1, ch)
            IN Leaf(StrV(Bytes(c + 1, q - p - 1)), q + 1, q)
       [] ch = "[" -> Open(ListV(<<>>), Skip(p + 1))
       [] ch = "{" -> Open(DictV(<<>>), Skip(p + 1))
       [] ch = "(" -> LET r  == DataLoop(Skip(p + 1), <<>>)
                          p2 == Skip(r.p + 1)
                      IN Leaf(DataV(r.e), p2, p2)
       [] Matches(p, NONE)   -> Leaf(cur, p + 4, p + 3)
       [] Matches(p, FALSE_) -> Leaf(BoolV(FALSE), p + 5, p + 4)
       [] Matches(p, TRUE_)  -> Leaf(BoolV(TRUE), p + 4, p + 3)
       [] OTHER ->
            LET q == RunEnd(IF ch = "0" /\ Ch(p + 1) = "x" THEN p + 2 ELSE p)
            IN Leaf(IntV(StrToULL(Bytes(p, q - p)) % 2^IntBits), q, q)

(* The index of key in a dict, 0 if absent: the loop of operator[](key). *)
KeyIdx(d, key) == SelectInSeq(d.e, LAMBDA x : x.key = key)

(* out[key] = v: the pair with that key, or a new pair at the end. *)
Put(d, key, v) ==
  IF KeyIdx(d, key) > 0 THEN [d EXCEPT !.e[KeyIdx(d, key)].val = v]
  ELSE [d EXCEPT !.e = Append(@, [key |-> key, val |-> v])]

(* has_key: a pair with that key whose value is not Nil. *)
HasKey(d, key) == \E i \in DOMAIN d.e : d.e[i].key = key /\ d.e[i].val.k # "Nil"

(* The service lookup after a dict closes.  to_string() of a value that  *)
(* is not a String (the Nil auto-vivified for a missing ModuleName, an   *)
(* Int) hands strcmp a pointer that is not a string: UB.                 *)
Service(d) ==
  LET t == KeyIdx(d, TypeKey)
      m == KeyIdx(d, ModName)
  IN CASE ~HasKey(d, TypeKey)    -> d
       [] d.e[t].val.k # "Str"    -> UB
       [] d.e[t].val.s # IServ    -> d
       [] m = 0                   -> UB
       [] d.e[m].val.k # "Str"    -> UB
       [] d.e[m].val.s \in Services -> IfaceV(d.e[m].val.s)
       [] OTHER                   -> IfaceV(NoService)

-----------------------------------------------------------------------------
(* Decoder: the steps *)

Frame(v) == [out |-> v, tmp |-> Invalid, tmp2 |-> Invalid, ph |-> "loop"]
Cur      == stack[Len(stack)]
Running  == status = "run" /\ maxRead <= Len(text)

(* A nested call from the innermost frame at position c into its slot    *)
(* (tmp or tmp2); the frame goes on to phase ph.                          *)
CallFrom(c, slot, ph) ==
  LET r  == Enter(c, Cur[slot])
      f1 == [Cur EXCEPT !.ph = ph, ![slot] = IF r.leaf THEN r.v ELSE @]
      s1 == [stack EXCEPT ![Len(stack)] = f1]
  IN /\ pcur' = r.p
     /\ maxRead' = Max({maxRead, r.rd})
     /\ stack' = IF r.leaf THEN s1 ELSE Append(s1, Frame(r.v))
     /\ UNCHANGED <<text, orig, top, status>>

(* The innermost frame returns v into *out: the caller's temporary, or    *)
(* the attribute from_config was called on.                               *)
Return(v) ==
  IF Len(stack) = 1
  THEN /\ top' = v /\ stack' = <<>> /\ status' = "done"
  ELSE LET n    == Len(stack) - 1
           slot == IF stack[n].ph = "val" THEN "tmp2" ELSE "tmp"
       IN /\ stack' = [Front(stack) EXCEPT ![n][slot] = v]
          /\ UNCHANGED <<top, status>>

(* The innermost frame's loop goes on after an element or pair. *)
Continue(f, p) ==
  LET p1 == Skip(p)
      p2 == IF Ch(p1) = "," THEN Skip(p1 + 1) ELSE p1
  IN /\ stack' = [stack EXCEPT ![Len(stack)] = [f EXCEPT !.ph = "loop"]]
     /\ pcur' = p2
     /\ maxRead' = Max({maxRead, p2})
     /\ UNCHANGED <<text, orig, top, status>>

(* from_config(str): the outermost string_to_attribute call. *)
DecodeTop ==
  /\ status = "start"
  /\ LET r == Enter(0, top)
     IN /\ pcur' = r.p
        /\ maxRead' = r.rd
        /\ IF r.leaf THEN top' = r.v /\ status' = "done" /\ UNCHANGED stack
                     ELSE stack' = <<Frame(r.v)>> /\ status' = "run" /\ UNCHANGED top
  /\ UNCHANGED <<text, orig>>

(* The list loop decodes the next element into new_item. *)
ListLoop ==
  /\ Running /\ Cur.out.k = "List" /\ Cur.ph = "loop"
  /\ Ch(pcur) \notin {"]", NUL}
  /\ CallFrom(pcur, "tmp", "item")

(* Variant that appends but does not step over the separator. *)
ListAppendNoComma ==
  /\ Running /\ Cur.out.k = "List" /\ Cur.ph = "item"
  /\ Len(Cur.out.e) < MaxElems
  /\ stack' = [stack EXCEPT ![Len(stack)] = [Cur EXCEPT !.out.e = Append(@, Cur.tmp), !.ph = "loop"]]
  /\ pcur' = Skip(pcur)
  /\ maxRead' = Max({maxRead, Skip(pcur)})
  /\ UNCHANGED <<text, orig, top, status>>

(* realloc_list(size() + 1); out[size() - 1] = new_item; then an      *)
(* optional ','.                                                           *)
ListAppend ==
  /\ Running /\ Cur.out.k = "List" /\ Cur.ph = "item"
  /\ Len(Cur.out.e) < MaxElems
  /\ Continue([Cur EXCEPT !.out.e = Append(@, Cur.tmp)], pcur)

(* ']' or the NUL ends the list; pcur++ steps over either. *)
ListClose ==
  /\ Running /\ Cur.out.k = "List" /\ Cur.ph = "loop"
  /\ Ch(pcur) \in {"]", NUL}
  /\ pcur' = Skip(pcur + 1)
  /\ maxRead' = Max({maxRead, Skip(pcur + 1)})
  /\ Return(Cur.out)
  /\ UNCHANGED <<text, orig>>

(* The dict loop decodes the next key into new_key. *)
DictLoop ==
  /\ Running /\ Cur.out.k = "Dict" /\ Cur.ph = "loop"
  /\ Ch(pcur) \notin {"}", NUL}
  /\ CallFrom(pcur, "tmp", "key")

(* An optional ':', then the value into new_value. *)
DictKey ==
  /\ Running /\ Cur.out.k = "Dict" /\ Cur.ph = "key"
  /\ LET p1 == Skip(pcur)
     IN CallFrom(Skip(IF Ch(p1) = ":" THEN p1 + 1 ELSE p1), "tmp2", "val")

(* out[new_key.to_string()] = new_value, then an optional ','.  A key   *)
(* that is not a String has no string pointer for to_string() to return.  *)
DictPut ==
  /\ Running /\ Cur.out.k = "Dict" /\ Cur.ph = "val"
  /\ IF Cur.tmp.k # "Str"
     THEN status' = "undefined" /\ UNCHANGED <<text, orig, pcur, maxRead, top, stack>>
     ELSE /\ KeyIdx(Cur.out, Cur.tmp.s) > 0 \/ Len(Cur.out.e) < MaxElems
          /\ Continue([Cur EXCEPT !.out = Put(@, Cur.tmp.s, Cur.tmp2)], pcur)

(* '}' or the NUL ends the dict; then the IService lookup. *)
DictClose ==
  /\ Running /\ Cur.out.k = "Dict" /\ Cur.ph = "loop"
  /\ Ch(pcur) \in {"}", NUL}
  /\ pcur' = Skip(pcur + 1)
  /\ maxRead' = Max({maxRead, Skip(pcur + 1)})
  /\ IF Service(Cur.out) = UB
     THEN status' = "undefined" /\ UNCHANGED <<top, stack>>
     ELSE Return(Service(Cur.out))
  /\ UNCHANGED <<text, orig>>

Init ==
  /\ \E i \in Inputs : text = i.text /\ orig = i.orig
  /\ pcur = 0
  /\ maxRead = 0
  /\ top = Invalid
  /\ stack = <<>>
  /\ status = "start"

Next ==
  \/ DecodeTop
  \/ ListLoop \/ ListAppend \/ ListClose
  \/ DictLoop \/ DictKey \/ DictPut \/ DictClose

(* string_to_attribute runs on the calling thread without blocking, so   *)
(* a step that is enabled is taken.                                       *)
Spec == Init /\ [][Next]_vars /\ WF_vars(Next)

-----------------------------------------------------------------------------
(* Properties *)

Returned == status \in {"done", "undefined"} \/ maxRead > Len(text)

(* The decoder never dereferences a position past the terminating NUL:    *)
(* every loop that stops at the NUL and then does pcur++ must not read    *)
(* again, nor may the unchecked two-character read of a data byte.        *)
NoReadPastEnd == maxRead <= Len(text)

(* Decoding the encoding of a value gives the value back (spec section 8, *)
(* round-trip): from_config(to_config(v)) returns, without undefined      *)
(* behaviour, and the attribute is equal to v.                            *)
RoundTrip == orig # NoVal /\ status \in {"done", "undefined"} => status = "done" /\ top = orig

(* from_config returns: every loop iteration of string_to_attribute       *)
(* consumes input, so the list and dict loops reach their end.           *)
Termination == <>Returned

=============================================================================
