-------------------------- MODULE PlistParseProofs --------------------------
(* Theorems about PlistParse, for documents of any length and, MaxOpen      *)
(* being any number, any depth.                                             *)
EXTENDS PlistParse, SequenceTheorems, TLAPS

(* What opening an element does to the stack.                               *)
LEMMA Push ==
  ASSUME stack \in Seq(Container), NEW n \in Container
  PROVE  /\ Append(stack, n) \in Seq(Container)
         /\ Len(Append(stack, n)) = Len(stack) + 1
         /\ \A i \in 1..Len(stack) : Append(stack, n)[i] = stack[i]
         /\ Append(stack, n)[Len(stack) + 1] = n
OBVIOUS

(* What closing one does to it.                                             *)
LEMMA Pop ==
  ASSUME stack \in Seq(Container), stack # <<>>
  PROVE  /\ SubSeq(stack, 1, Len(stack) - 1) \in Seq(Container)
         /\ Len(SubSeq(stack, 1, Len(stack) - 1)) = Len(stack) - 1
         /\ \A i \in 1..(Len(stack) - 1) : SubSeq(stack, 1, Len(stack) - 1)[i] = stack[i]
         /\ Len(stack) \in Nat \ {0}
<1> DEFINE n == Len(stack) - 1
           s == SubSeq(stack, 1, n)
<1>1. Len(stack) \in Nat \ {0}
  BY EmptySeq
<1>2. n \in Nat /\ \A i \in 1..n : stack[i] \in Container
  BY <1>1, ElementOfSeq
<1> HIDE DEF n
<1>3. /\ s \in Seq(Container)
      /\ Len(s) = IF 1 <= n THEN n - 1 + 1 ELSE 0
      /\ \A i \in 1..(n - 1 + 1) : s[i] = stack[1 + i - 1]
  BY <1>2, SubSeqProperties
<1> HIDE DEF s
<1>4. Len(s) = n /\ \A i \in 1..n : s[i] = stack[i]
  BY <1>2, <1>3
<1> USE DEF s, n
<1> QED
  BY <1>1, <1>3, <1>4

(* The shape of the document: what is open, from the outside in.            *)
ShapeInv ==
  /\ stack \in Seq(Container)
  /\ Len(stack) >= 1 => stack[1] = "plist"
  /\ Len(stack) >= 2 => stack[2] = "array"
  /\ Len(stack) >= 3 => stack[3] = "dict"
  /\ whole => Len(stack) <= 1

(* Every step preserves the shape.                                          *)
LEMMA ShapeStep == ShapeInv /\ [Next]_vars => ShapeInv'
<1> SUFFICES ASSUME ShapeInv, [Next]_vars PROVE ShapeInv'
  OBVIOUS
<1>1. ASSUME NEW n \in Container, DocOpen(n) PROVE ShapeInv'
  <2> DEFINE s == Append(stack, n)
  <2>1. stack' = s /\ ~whole' /\ Len(stack) \in Nat
    BY <1>1 DEF DocOpen, ShapeInv
  <2>2. /\ s \in Seq(Container)
        /\ Len(s) = Len(stack) + 1
        /\ \A i \in 1..Len(stack) : s[i] = stack[i]
        /\ s[Len(stack) + 1] = n
    BY Push DEF ShapeInv
  <2>3. \/ Len(stack) = 0 /\ n = "plist"
        \/ Len(stack) = 1 /\ n = "array"
        \/ Len(stack) = 2 /\ n = "dict"
        \/ Len(stack) > 2
    BY <1>1 DEF DocOpen, Room
  <2> HIDE DEF s
  <2> QED
    BY <2>1, <2>2, <2>3 DEF ShapeInv
<1>2. ASSUME DocClose PROVE ShapeInv'
  <2> DEFINE s == SubSeq(stack, 1, Len(stack) - 1)
  <2>1. /\ stack' = s
        /\ whole' = (whole \/ Len(stack) = 2)
        /\ stack # <<>>
    BY <1>2 DEF DocClose
  <2>2. /\ s \in Seq(Container)
        /\ Len(s) = Len(stack) - 1
        /\ \A i \in 1..(Len(stack) - 1) : s[i] = stack[i]
        /\ Len(stack) \in Nat \ {0}
    BY <2>1, Pop DEF ShapeInv
  <2> HIDE DEF s
  <2>3. whole' => whole \/ Len(stack) = 2
    BY <2>1
  <2>4. Len(s) <= 1 \/ ~whole'
    BY <2>2, <2>3 DEF ShapeInv
  <2> QED
    BY <2>1, <2>2, <2>4 DEF ShapeInv
<1>3. ASSUME UNCHANGED <<stack, whole>> PROVE ShapeInv'
  BY <1>3 DEF ShapeInv
<1> QED
  BY <1>1, <1>2, <1>3 DEF Next, Start, KeyOf, Leaf, End, EndOfInput, SyntaxError,
                          DocKey, DocValue, docVars, vars

-----------------------------------------------------------------------------
(* The function the parser is in and the count of skipped elements say how *)
(* deep it is.                                                              *)
DepthInv ==
  /\ fn \in {"parseTopDicts", "readDict", "skipElement"}
  /\ depth \in Nat
  /\ fn = "parseTopDicts" => Len(stack) <= 2
  /\ fn = "readDict" => Len(stack) = 3
  /\ fn = "skipElement" => depth > 0 /\ Len(stack) = 3 + depth

(* Inside a device, its entry and pending key are what the document says.   *)
EntryInv ==
  /\ fn = "readDict" => pendingKey = due
  /\ fn # "parseTopDicts" => entry = device
  /\ present \in BOOLEAN
  /\ out = present

PlaceInv == DepthInv /\ EntryInv /\ RightVerdict

(* Every step preserves DepthInv.                                           *)
LEMMA DepthStep == ShapeInv /\ DepthInv /\ [Next]_vars => DepthInv'
<1> SUFFICES ASSUME ShapeInv, DepthInv, [Next]_vars PROVE DepthInv'
  OBVIOUS
<1> DEFINE n == Len(stack)
<1>l. n \in Nat
  BY DEF ShapeInv
<1>i. /\ fn \in {"parseTopDicts", "readDict", "skipElement"}
      /\ depth \in Nat
      /\ fn = "parseTopDicts" => n <= 2
      /\ fn = "readDict" => n = 3
      /\ fn = "skipElement" => depth > 0 /\ n = 3 + depth
  BY DEF DepthInv
<1>1. ASSUME NEW e \in Container, Start(e) PROVE DepthInv'
  <2>1. Len(stack') = n + 1
    BY <1>1, Push DEF Start, DocOpen, ShapeInv
  <2>2. (n = 2 => e = "dict") /\ (e = "dict" => n >= 2)
    <3>1. \/ n = 0 /\ e = "plist"
          \/ n = 1 /\ e = "array"
          \/ n = 2 /\ e = "dict"
          \/ n > 2
      BY <1>1 DEF Start, DocOpen, Room
    <3> HIDE DEF n
    <3> QED
      BY <3>1, <1>l
  <2> HIDE DEF n
  <2>3. CASE TopStart(e)
    BY <1>l, <1>i, <2>1, <2>2, <2>3 DEF TopStart, DepthInv
  <2>4. CASE DictNested(e)
    BY <1>l, <1>i, <2>1, <2>4 DEF DictNested, DepthInv
  <2>5. CASE SkipStart(e)
    BY <1>l, <1>i, <2>1, <2>5 DEF SkipStart, DepthInv
  <2> QED
    BY <1>1, <2>3, <2>4, <2>5 DEF Start
<1>2. CASE End
  <2>1. Len(stack') = n - 1 /\ n > 0
    BY <1>2, <1>l, Pop DEF End, DocClose, ShapeInv
  <2>2. n = 3 => Innermost = "dict"
    BY DEF ShapeInv, Innermost
  <2> HIDE DEF n
  <2>3. CASE TopEnd
    BY <1>l, <1>i, <2>1, <2>3 DEF TopEnd, DepthInv, parserVars
  <2>4. CASE DictEnd
    BY <1>l, <1>i, <2>1, <2>2, <2>4 DEF DictEnd, DepthInv
  <2>5. CASE SkipEnd
    BY <1>l, <1>i, <2>1, <2>5 DEF SkipEnd, DepthInv
  <2> QED
    BY <1>2, <2>3, <2>4, <2>5 DEF End
<1>3. ASSUME UNCHANGED <<stack, fn, depth>> PROVE DepthInv'
  BY <1>3 DEF DepthInv
<1> QED
  BY <1>1, <1>2, <1>3
     DEF Next, KeyOf, Leaf, DocKey, DocValue, DictKey, DictValue, SkipLeaf,
         EndOfInput, SyntaxError, docVars, parserVars, vars

(* Every step preserves EntryInv.                                           *)
LEMMA EntryStep == ShapeInv /\ DepthInv /\ EntryInv /\ [Next]_vars => EntryInv'
<1> SUFFICES ASSUME ShapeInv, DepthInv, EntryInv, [Next]_vars PROVE EntryInv'
  OBVIOUS
<1>p. /\ fn = "parseTopDicts" => ~InDevice
      /\ fn = "readDict" => InDevice /\ Innermost = "dict" /\ Len(stack) # 2
      /\ fn = "skipElement" => ~InDevice /\ Len(stack) # 2
  <2> DEFINE n == Len(stack)
  <2>1. n \in Nat
    BY DEF ShapeInv
  <2>2. /\ fn = "parseTopDicts" => n <= 2
        /\ fn = "readDict" => n = 3
        /\ depth \in Nat /\ (fn = "skipElement" => depth > 0 /\ n = 3 + depth)
    BY DEF DepthInv
  <2>3. n = 3 => Innermost = "dict"
    BY DEF ShapeInv, Innermost
  <2>4. /\ fn = "parseTopDicts" => n # 3
        /\ fn = "readDict" => n = 3 /\ n # 2
        /\ fn = "skipElement" => n # 3 /\ n # 2
    <3> HIDE DEF n
    <3> QED
      BY <2>1, <2>2
  <2> QED
    BY <2>3, <2>4 DEF InDevice
<1>1. ASSUME NEW e \in Container, Start(e) PROVE EntryInv'
  <2>1. /\ present' = present
        /\ device' = IF Len(stack) = 2 THEN Blank ELSE device
        /\ due' = Absent
    BY <1>1 DEF Start, DocOpen
  <2>2. CASE TopStart(e)
    <3>1. e = "dict" => Len(stack) = 2
      <4>1. Len(stack) \in Nat /\ Len(stack) <= 2
        BY <2>2 DEF TopStart, DepthInv, ShapeInv
      <4>2. \/ Len(stack) = 0 /\ e = "plist"
            \/ Len(stack) = 1 /\ e = "array"
            \/ Len(stack) = 2 /\ e = "dict"
            \/ Len(stack) > 2
        BY <1>1 DEF Start, DocOpen, Room
      <4> QED
        BY <4>1, <4>2
    <3> QED
      BY <2>1, <2>2, <3>1 DEF TopStart, EntryInv
  <2>3. CASE DictNested(e)
    BY <1>p, <2>1, <2>3 DEF DictNested, EntryInv
  <2>4. CASE SkipStart(e)
    BY <1>p, <2>1, <2>4 DEF SkipStart, EntryInv
  <2> QED
    BY <1>1, <2>2, <2>3, <2>4 DEF Start
<1>2. ASSUME NEW k \in Key, KeyOf(k) PROVE EntryInv'
  BY <1>2 DEF KeyOf, DocKey, DictKey, SkipLeaf, EntryInv, truthVars, parserVars
<1>3. ASSUME NEW v \in Value, Leaf(v) PROVE EntryInv'
  BY <1>3, <1>p DEF Leaf, DocValue, DictValue, SkipLeaf, EntryInv, parserVars
<1>4. CASE End
  <2>1. /\ present' = (present \/ (InDevice /\ IsMouse(device)))
        /\ device' = device
        /\ due = Absent
        /\ due' = Absent
    BY <1>4 DEF End, DocClose
  <2>2. present' \in BOOLEAN
    BY <2>1
  <2>3. ~InDevice => present' = present
    BY <2>1 DEF EntryInv
  <2>4. CASE TopEnd
    BY <1>p, <2>1, <2>2, <2>3, <2>4 DEF TopEnd, EntryInv, parserVars
  <2>5. CASE DictEnd
    <3>1. fn' = "parseTopDicts" /\ out' = (out \/ IsMouse(entry))
      BY <1>p, <2>5 DEF DictEnd
    <3>2. out' = present'
      BY <1>p, <2>1, <2>5, <3>1 DEF DictEnd, EntryInv
    <3> QED
      BY <2>2, <3>1, <3>2 DEF EntryInv
  <2>6. CASE SkipEnd
    BY <1>p, <2>1, <2>2, <2>3, <2>6 DEF SkipEnd, EntryInv
  <2> QED
    BY <1>4, <2>4, <2>5, <2>6 DEF End
<1>5. ASSUME UNCHANGED <<due, parserVars, truthVars>>
      PROVE  EntryInv'
  BY <1>5 DEF EntryInv, parserVars, truthVars
<1>6. CASE EndOfInput \/ SyntaxError
  BY <1>6 DEF EndOfInput, SyntaxError, EntryInv, docVars, truthVars
<1> QED
  BY <1>1, <1>2, <1>3, <1>4, <1>5, <1>6 DEF Next, vars, docVars

(* Every step preserves RightVerdict: only the end of the input gives one,  *)
(* and nothing is read after it.                                            *)
LEMMA VerdictStep == EntryInv /\ RightVerdict /\ [Next]_vars => RightVerdict'
<1> SUFFICES ASSUME EntryInv, RightVerdict, [Next]_vars PROVE RightVerdict'
  OBVIOUS
<1>1. CASE EndOfInput
  BY <1>1 DEF EndOfInput, EntryInv, RightVerdict, docVars, truthVars
<1>2. CASE SyntaxError
  BY <1>2 DEF SyntaxError, RightVerdict
<1>3. CASE UNCHANGED vars
  BY <1>3 DEF RightVerdict, vars, docVars, parserVars, truthVars
<1>4. ASSUME verdict' = Absent PROVE RightVerdict'
  BY <1>4 DEF RightVerdict, Absent
<1>5. ASSUME verdict = Absent,
             \/ \E n \in Container : Start(n)
             \/ \E k \in Key : KeyOf(k)
             \/ \E v \in Value : Leaf(v)
             \/ End
      PROVE  verdict' = Absent
  BY <1>5 DEF Start, KeyOf, Leaf, End, TopStart, DictNested, SkipStart, DictKey,
              DictValue, SkipLeaf, TopEnd, DictEnd, SkipEnd, parserVars
<1> QED
  BY <1>1, <1>2, <1>3, <1>4, <1>5 DEF Next

(* The parser knows its place.                                              *)
LEMMA PlaceInvariant == Spec => [](ShapeInv /\ PlaceInv)
<1>1. Init => ShapeInv /\ PlaceInv
  <2>1. Init => stack \in Seq(Container) /\ Len(stack) = 0
    BY EmptySeq DEF Init
  <2>2. Init => present \in BOOLEAN /\ out = present /\ ~whole
    BY DEF Init
  <2>3. Init => ShapeInv
    BY <2>1, <2>2 DEF ShapeInv
  <2>4. Init => DepthInv
    BY <2>1 DEF Init, DepthInv
  <2>5. Init => EntryInv /\ RightVerdict
    BY <2>2 DEF Init, EntryInv, RightVerdict, Absent
  <2> QED
    BY <2>3, <2>4, <2>5 DEF PlaceInv
<1>2. ShapeInv /\ PlaceInv /\ [Next]_vars => (ShapeInv /\ PlaceInv)'
  BY ShapeStep, DepthStep, EntryStep, VerdictStep DEF PlaceInv
<1> QED
  BY <1>1, <1>2, PTL DEF Spec

(* readDict reads exactly what a device says itself, and skipElement skips  *)
(* exactly what is nested in it.                                            *)
THEOREM InStepHolds == Spec => []InStep
<1>1. ASSUME ShapeInv, DepthInv PROVE InStep
  <2> DEFINE n == Len(stack)
  <2>1. n \in Nat
    BY <1>1 DEF ShapeInv
  <2>2. /\ fn \in {"parseTopDicts", "readDict", "skipElement"}
        /\ depth \in Nat
        /\ fn = "parseTopDicts" => n <= 2
        /\ fn = "readDict" => n = 3
        /\ fn = "skipElement" => depth > 0 /\ n = 3 + depth
    BY <1>1 DEF DepthInv
  <2>3. (InDevice <=> n = 3) /\ (Len(stack) = n)
    BY DEF InDevice
  <2> HIDE DEF n
  <2> QED
    BY <2>1, <2>2, <2>3 DEF InStep
<1> QED
  BY <1>1, PlaceInvariant, PTL DEF PlaceInv

(* The answer is right for every document, and none is given for a part.    *)
THEOREM RightVerdictHolds == Spec => []RightVerdict
BY PlaceInvariant, PTL DEF PlaceInv

-----------------------------------------------------------------------------
(* What the parser and the document hold are keys and values.               *)
ValuesOK ==
  /\ due \in Key \cup {Absent}
  /\ pendingKey \in Key \cup {Absent}
  /\ entry \in [Wanted -> Value \cup {Absent}]
  /\ device \in [Wanted -> Value \cup {Absent}]

(* Every step preserves ValuesOK.                                           *)
LEMMA ValuesStep == ValuesOK /\ [Next]_vars => ValuesOK'
<1> SUFFICES ASSUME ValuesOK, [Next]_vars PROVE ValuesOK'
  OBVIOUS
<1> USE DEF ValuesOK
<1>a. Blank \in [Wanted -> Value \cup {Absent}]
  BY DEF Blank
<1>b. ASSUME NEW e \in [Wanted -> Value \cup {Absent}], NEW k, NEW v \in Value
      PROVE  Assign(e, k, v) \in [Wanted -> Value \cup {Absent}]
  BY DEF Assign
<1>1. ASSUME NEW n \in Container, Start(n) PROVE ValuesOK'
  BY <1>1, <1>a DEF Start, DocOpen, TopStart, DictNested, SkipStart
<1>2. ASSUME NEW k \in Key, KeyOf(k) PROVE ValuesOK'
  BY <1>2 DEF KeyOf, DocKey, DictKey, SkipLeaf, parserVars, truthVars
<1>3. ASSUME NEW v \in Value, Leaf(v) PROVE ValuesOK'
  <2>1. device' \in [Wanted -> Value \cup {Absent}] /\ due' = Absent
    BY <1>3, <1>b DEF Leaf, DocValue
  <2>2. /\ entry' \in [Wanted -> Value \cup {Absent}]
        /\ pendingKey' \in Key \cup {Absent}
    BY <1>3, <1>b DEF Leaf, DictValue, SkipLeaf, parserVars
  <2> QED
    BY <2>1, <2>2
<1>4. CASE End
  BY <1>4 DEF End, DocClose, TopEnd, DictEnd, SkipEnd, parserVars
<1>5. CASE EndOfInput \/ SyntaxError \/ UNCHANGED vars
  BY <1>5 DEF EndOfInput, SyntaxError, vars, docVars, parserVars, truthVars
<1> QED
  BY <1>1, <1>2, <1>3, <1>4, <1>5 DEF Next

(* Verdicts and the two flags of the document have their types.             *)
FlagsOK ==
  /\ whole \in BOOLEAN
  /\ verdict \in {"mouse", "none", "failed", Absent}

(* Every step preserves FlagsOK.                                            *)
LEMMA FlagsStep == FlagsOK /\ [Next]_vars => FlagsOK'
<1> SUFFICES ASSUME FlagsOK, [Next]_vars PROVE FlagsOK'
  OBVIOUS
<1>1. whole' \in BOOLEAN
  BY DEF FlagsOK, Next, Start, KeyOf, Leaf, End, DocOpen, DocKey, DocValue, DocClose,
         EndOfInput, SyntaxError, vars, docVars
<1>2. verdict' \in {"mouse", "none", "failed", Absent}
  BY DEF FlagsOK, Next, Start, KeyOf, Leaf, End, EndOfInput, SyntaxError, TopStart,
         DictNested, SkipStart, DictKey, DictValue, SkipLeaf, TopEnd, DictEnd, SkipEnd,
         vars, parserVars
<1> QED
  BY <1>1, <1>2 DEF FlagsOK

(* Type correctness: in particular a document has the shape that the parser *)
(* counts on.                                                               *)
THEOREM TypeCorrect == Spec => []TypeOK
<1>1. Init => ValuesOK
  BY DEF Init, ValuesOK, Blank
<1>2. Init => FlagsOK
  BY DEF Init, FlagsOK
<1>3. ASSUME ShapeInv, PlaceInv, ValuesOK, FlagsOK PROVE TypeOK
  <2>1. \A i \in 1..Len(stack) : i <= 3 => stack[i] = <<"plist", "array", "dict">>[i]
    <3> SUFFICES ASSUME NEW i \in 1..Len(stack), i <= 3
                 PROVE  stack[i] = <<"plist", "array", "dict">>[i]
      OBVIOUS
    <3>1. Len(stack) \in Nat /\ i \in Nat
      BY <1>3 DEF ShapeInv
    <3>2. i = 1 \/ i = 2 \/ i = 3
      BY <3>1
    <3>3. Len(stack) >= i
      BY <3>1
    <3> QED
      BY <1>3, <3>1, <3>2, <3>3 DEF ShapeInv
  <2>2. stack \in Seq(Container)
    BY <1>3 DEF ShapeInv
  <2>3. /\ fn \in {"parseTopDicts", "readDict", "skipElement"}
        /\ depth \in Nat
    BY <1>3 DEF PlaceInv, DepthInv
  <2>4. present \in BOOLEAN /\ out \in BOOLEAN
    BY <1>3 DEF PlaceInv, EntryInv
  <2> QED
    BY <1>3, <2>1, <2>2, <2>3, <2>4 DEF TypeOK, ValuesOK, FlagsOK
<1> QED
  BY <1>1, <1>2, <1>3, ValuesStep, FlagsStep, PlaceInvariant, PTL DEF Spec
=============================================================================
