--------------------------- MODULE IgnorePointers ---------------------------
(***************************************************************************)
(* The JSON pointers of .spec.ignore: how one is read as a field path.     *)
(* Somebody types a pointer; every prefix of it is a pointer as well.      *)
(***************************************************************************)
EXTENDS Naturals, SequencesExt

CONSTANTS Letters,     \* characters with no meaning of their own
          MaxPointer   \* bound: characters of a pointer

VARIABLE ptr

Chars == {"/", "~", "0", "1"} \cup Letters

PointerInit == ptr = << >>
Type(char) == Len(ptr) < MaxPointer /\ ptr' = Append(ptr, char)
PointerNext == \E char \in Chars : Type(char)
PointerSpec == PointerInit /\ [][PointerNext]_ptr

----------------------------------------------------------------------------
\* strings.Split on a slash, after the leading one.
SplitStep(segs, c) ==
    IF c = "/" THEN Append(segs, << >>) ELSE Append(Front(segs), Append(Last(segs), c))
Split(text) == FoldLeft(SplitStep, << << >> >>, text)

\* strings.ReplaceAll of "~" and a digit: left to right, never overlapping.
ReplaceStep(acc, c, digit, by) ==
    IF acc.tilde /\ c = digit
    THEN [out |-> Append(Front(acc.out), by), tilde |-> FALSE]
    ELSE [out |-> Append(acc.out, c), tilde |-> c = "~"]
Replacing(text, digit, by) ==
    FoldLeft(LAMBDA acc, c : ReplaceStep(acc, c, digit, by),
             [out |-> << >>, tilde |-> FALSE], text)
ReplaceEscape(text, digit, by) == Replacing(text, digit, by).out

\* Mutant: the two replacements in the other order.
UnescapeTildeFirst(seg) == ReplaceEscape(ReplaceEscape(seg, "0", "~"), "1", "/")
unescapeJSONPointer(seg) == ReplaceEscape(ReplaceEscape(seg, "1", "/"), "0", "~")

NotAPointer == "invalid"
jsonPointerToPath(pointer) ==
    IF pointer = << >> THEN << >>
    ELSE IF Head(pointer) # "/" THEN NotAPointer
    ELSE LET segs == Split(Tail(pointer))
         IN  [i \in DOMAIN segs |-> unescapeJSONPointer(segs[i])]

----------------------------------------------------------------------------
\* RFC 6901 from the other side: how a path is written down.
EscapeStep(text, c) ==
    text \o (IF c = "~" THEN <<"~", "0">> ELSE IF c = "/" THEN <<"~", "1">> ELSE <<c>>)
Escape(name) == FoldLeft(EscapeStep, << >>, name)

PointerStep(text, name) == Append(text, "/") \o Escape(name)
PointerTo(path) == FoldLeft(PointerStep, << >>, path)

WellFormed(pointer) ==
    /\ pointer = << >> \/ Head(pointer) = "/"
    /\ \A i \in DOMAIN pointer :
          pointer[i] = "~" => i < Len(pointer) /\ pointer[i + 1] \in {"0", "1"}

(***************************************************************************)
(* A well-formed pointer is read as the one path that is written that way: *)
(* it waives the field it names and no other, whatever slashes and tildes  *)
(* a label or annotation key has (jsonPointerToPath, unescapeJSONPointer:  *)
(* "Order matters so that "~01" decodes to "~1", not "/"").                *)
(***************************************************************************)
NamesItsField == WellFormed(ptr) => PointerTo(jsonPointerToPath(ptr)) = ptr
=============================================================================
