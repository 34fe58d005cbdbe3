----------------------------- MODULE PlistParse -----------------------------
(***************************************************************************)
(* How btmonitor reads what ioreg prints: a property list, of which only   *)
(* the devices, the dictionaries of the outer array, count, and of these   *)
(* only what they say themselves, not what is nested in them.  The         *)
(* hand-written parser knows where it is from the function it is in and,   *)
(* while it skips, from a count of open elements.                          *)
(*                                                                         *)
(* The document is produced one token at a time, and the parser reacts to  *)
(* each; an element without elements in it is one token.  The decoder      *)
(* (encoding/xml) delivers well-nested tokens or fails.                    *)
(***************************************************************************)
EXTENDS Naturals, Sequences

CONSTANT MaxOpen   \* how many elements may be open at once

ASSUME MaxOpenIsNat == MaxOpen \in Nat

Container == {"plist", "array", "dict"}

(* The keys assign looks at, and any other.                                 *)
Wanted == {"Transport", "PrimaryUsage", "PrimaryUsagePage"}
Key    == Wanted \cup {"other"}

(* Whether a value, trimmed and in lower case or read as a number, is the   *)
(* one isBluetoothMouse asks for.                                           *)
Value  == {"match", "mismatch"}
Absent == "absent"

VARIABLES
  (* The document. *)
  stack,       \* the elements that are open
  due,         \* in a dict, the key whose value comes next, or Absent
  whole,       \* the outer array is closed
  (* The parser. *)
  fn,          \* the function that reads: parseTopDicts, readDict, skipElement
  depth,       \* skipElement's
  pendingKey,  \* readDict's, Absent for ""
  entry,       \* readDict's, by key
  out,         \* some entry so far is a Bluetooth mouse
  verdict,     \* what parseBluetoothMouse returns, Absent until then
  (* What the document says. *)
  device,      \* the values of the device that is open, by key
  present      \* a device that is complete is a Bluetooth mouse

docVars    == <<stack, due, whole>>
parserVars == <<fn, depth, pendingKey, entry, out, verdict>>
truthVars  == <<device, present>>
vars == <<docVars, parserVars, truthVars>>

-----------------------------------------------------------------------------
Blank == [k \in Wanted |-> Absent]

(* isBluetoothMouse.                                                        *)
IsMouse(e) == \A k \in Wanted : e[k] = "match"

Assign(e, k, v) == IF k \in Wanted THEN [e EXCEPT ![k] = v] ELSE e

Innermost == stack[Len(stack)]

(* Within a device, or right inside it.                                     *)
InDevice == Len(stack) = 3

Init ==
  /\ stack = <<>>
  /\ due = Absent
  /\ whole = FALSE
  /\ fn = "parseTopDicts"
  /\ depth = 0
  /\ pendingKey = Absent
  /\ entry = Blank
  /\ out = FALSE
  /\ verdict = Absent
  /\ device = Blank
  /\ present = FALSE

-----------------------------------------------------------------------------
(* The document: plist, array, dict; then values in arrays, and keys with   *)
(* values in dicts.                                                         *)

(* A value may come here.                                                   *)
Room == Len(stack) > 2 /\ (Innermost = "dict" => due # Absent)

DocOpen(n) ==
  /\ ~whole
  /\ Len(stack) < MaxOpen
  /\ \/ Len(stack) = 0 /\ n = "plist"
     \/ Len(stack) = 1 /\ n = "array"
     \/ Len(stack) = 2 /\ n = "dict"
     \/ Room /\ n \in {"array", "dict"}
  /\ stack' = Append(stack, n)
  /\ due' = Absent
  /\ device' = IF Len(stack) = 2 THEN Blank ELSE device
  /\ UNCHANGED <<whole, present>>

DocKey(k) ==
  /\ Len(stack) > 2
  /\ Innermost = "dict"
  /\ due = Absent
  /\ due' = k
  /\ UNCHANGED <<stack, whole, truthVars>>

DocValue(v) ==
  /\ Room
  /\ due' = Absent
  /\ device' = IF InDevice THEN Assign(device, due, v) ELSE device
  /\ UNCHANGED <<stack, whole, present>>

DocClose ==
  /\ stack # <<>>
  /\ due = Absent
  /\ Len(stack) = 1 => whole
  /\ stack' = SubSeq(stack, 1, Len(stack) - 1)
  /\ whole' = (whole \/ Len(stack) = 2)
  /\ present' = (present \/ (InDevice /\ IsMouse(device)))
  /\ UNCHANGED <<due, device>>

-----------------------------------------------------------------------------
(* parseTopDicts.                                                           *)
TopStart(n) ==
  /\ fn = "parseTopDicts"
  /\ IF n = "dict"
       THEN fn' = "readDict" /\ entry' = Blank /\ pendingKey' = Absent
       ELSE UNCHANGED <<fn, entry, pendingKey>>
  /\ UNCHANGED <<depth, out, verdict>>

TopEnd ==
  /\ fn = "parseTopDicts"
  /\ UNCHANGED parserVars

(* readDict.                                                                *)
DictKey(k) ==
  /\ fn = "readDict"
  /\ pendingKey' = k
  /\ UNCHANGED <<fn, depth, entry, out, verdict>>

DictValue(v) ==
  /\ fn = "readDict"
  /\ entry' = Assign(entry, pendingKey, v)
  /\ pendingKey' = Absent
  /\ UNCHANGED <<fn, depth, out, verdict>>

DictNested(n) ==
  /\ fn = "readDict"
  /\ fn' = "skipElement"
  /\ depth' = 1
  /\ UNCHANGED <<pendingKey, entry, out, verdict>>

DictEnd ==
  /\ fn = "readDict"
  /\ IF Innermost = "dict"
       THEN fn' = "parseTopDicts" /\ out' = (out \/ IsMouse(entry))
       ELSE UNCHANGED <<fn, out>>
  /\ UNCHANGED <<depth, pendingKey, entry, verdict>>

(* Seeded fault: skipElement returns at the first end of an element.        *)
SkipStartUncounted(n) ==
  /\ fn = "skipElement"
  /\ UNCHANGED parserVars

(* skipElement, and readDict when it returns.  The start and the end of an  *)
(* element that is one token here cancel out.                               *)
SkipStart(n) ==
  /\ fn = "skipElement"
  /\ depth' = depth + 1
  /\ UNCHANGED <<fn, pendingKey, entry, out, verdict>>

SkipLeaf ==
  /\ fn = "skipElement"
  /\ UNCHANGED parserVars

(* Seeded fault: skipElement returns one end too late.                      *)
SkipEndLate ==
  /\ fn = "skipElement"
  /\ depth' = depth - 1
  /\ IF depth = 0
       THEN fn' = "readDict" /\ pendingKey' = Absent
       ELSE UNCHANGED <<fn, pendingKey>>
  /\ UNCHANGED <<entry, out, verdict>>

SkipEnd ==
  /\ fn = "skipElement"
  /\ depth' = depth - 1
  /\ IF depth = 1
       THEN fn' = "readDict" /\ pendingKey' = Absent
       ELSE UNCHANGED <<fn, pendingKey>>
  /\ UNCHANGED <<entry, out, verdict>>

-----------------------------------------------------------------------------
(* One token.                                                               *)
Start(n) == DocOpen(n) /\ (TopStart(n) \/ DictNested(n) \/ SkipStart(n))
KeyOf(k) == DocKey(k) /\ (DictKey(k) \/ SkipLeaf)
Leaf(v)  == DocValue(v) /\ (DictValue(v) \/ SkipLeaf)
End      == DocClose /\ (TopEnd \/ DictEnd \/ SkipEnd)

(* io.EOF: the document is complete, or ioreg printed nothing at all.       *)
EndOfInput ==
  /\ verdict = Absent
  /\ stack = <<>>
  /\ verdict' = IF out THEN "mouse" ELSE "none"
  /\ UNCHANGED <<docVars, fn, depth, pendingKey, entry, out, truthVars>>

(* Seeded fault: what was read before the error counts as the answer.       *)
SyntaxErrorIgnored ==
  /\ verdict = Absent
  /\ stack # <<>>
  /\ verdict' = IF out THEN "mouse" ELSE "none"
  /\ UNCHANGED <<docVars, fn, depth, pendingKey, entry, out, truthVars>>

(* The output breaks off: the decoder reports a syntax error in whichever   *)
(* function reads, and the poll fails.                                      *)
SyntaxError ==
  /\ verdict = Absent
  /\ stack # <<>>
  /\ verdict' = "failed"
  /\ UNCHANGED <<docVars, fn, depth, pendingKey, entry, out, truthVars>>

Next ==
  \/ /\ verdict = Absent
     /\ \/ \E n \in Container : Start(n)
        \/ \E k \in Key : KeyOf(k)
        \/ \E v \in Value : Leaf(v)
        \/ End
  \/ EndOfInput
  \/ SyntaxError

Spec == Init /\ [][Next]_vars

-----------------------------------------------------------------------------
TypeOK ==
  /\ stack \in Seq(Container)
  /\ due \in Key \cup {Absent}
  /\ whole \in BOOLEAN
  /\ fn \in {"parseTopDicts", "readDict", "skipElement"}
  /\ depth \in Nat
  /\ pendingKey \in Key \cup {Absent}
  /\ entry \in [Wanted -> Value \cup {Absent}]
  /\ out \in BOOLEAN
  /\ verdict \in {"mouse", "none", "failed", Absent}
  /\ device \in [Wanted -> Value \cup {Absent}]
  /\ present \in BOOLEAN
  /\ \A i \in 1..Len(stack) : i <= 3 => stack[i] = <<"plist", "array", "dict">>[i]

(* The parser never loses its place, however elements nest: it reads        *)
(* entries exactly in a device, and skips exactly what is nested in one.    *)
InStep ==
  /\ fn = "parseTopDicts" <=> Len(stack) <= 2
  /\ fn = "readDict" <=> InDevice
  /\ fn = "skipElement" => Len(stack) = 3 + depth

(* An answer is about the whole document, and it is the right one: a mouse  *)
(* is reported when a device is one, by its own properties, and an output   *)
(* that breaks off is not mistaken for one without a mouse.                 *)
RightVerdict ==
  verdict \in {"mouse", "none"} =>
    stack = <<>> /\ (verdict = "mouse" <=> present)
=============================================================================
