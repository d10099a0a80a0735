------------------------- MODULE TypedSettings_proofs -------------------------
(***************************************************************************)
(* Theorems about TypedSettings, for any types of whole numbers, any       *)
(* settings in any sections, any initializers and any files.               *)
(***************************************************************************)
EXTENDS TypedSettings, SequenceTheorems, TLAPS

-----------------------------------------------------------------------------
(* The three loops, as folds of SequenceLemmas.                            *)

AddStep(nothing, all, s) == Added(all, s)

Adding == INSTANCE SequenceLemmas WITH Step <- AddStep
Writing == INSTANCE SequenceLemmas WITH Step <- Written
Reading == INSTANCE SequenceLemmas WITH Step <- ReadLine

\* init from some store on, the export of some keys, the import of some lines.
Initialized(start, all) == FoldLeft(Added, start, all)
Exported(store, keys) ==
  FoldLeft(LAMBDA so_far, key : Written(store, so_far, key), [section |-> "", lines |-> << >>], keys)
Read(type, start, lines) ==
  FoldLeft(LAMBDA so_far, line : ReadLine(type, so_far, line), start, lines)

\* An initializer whose key, if it has one, is among the keys.
Fitting == {s \in Initializer : Trimmed(s.key[2]) # "" => TrimmedKey(s.key) \in Range(Sorted)}

\* Each loop begins with what it is given, and goes on from what it has.
LEMMA InitializedNext ==
  ASSUME NEW start
  PROVE  /\ Initialized(start, << >>) = start
         /\ \A all \in Seq(Fitting), s \in Fitting :
              Initialized(start, Append(all, s)) = Added(Initialized(start, all), s)
<1>1. \A all : Initialized(start, all) = Adding!Folded(0, start, all)
  BY DEF Initialized, FoldLeft, MapThenFoldSet, Max, AddStep,
         Adding!Folded, Adding!FoldLeft, Adding!MapThenFoldSet, Adding!Max
<1>2. Adding!Folded(0, start, << >>) = start
  BY Adding!FoldEmpty
<1>3. ASSUME NEW all \in Seq(Fitting), NEW s \in Fitting
      PROVE  Adding!Folded(0, start, Append(all, s)) = AddStep(0, Adding!Folded(0, start, all), s)
  BY Adding!FoldAppend
<1>. QED
  BY <1>1, <1>2, <1>3, Zenon DEF AddStep

LEMMA ExportedNext ==
  ASSUME NEW store
  PROVE  /\ Exported(store, << >>) = [section |-> "", lines |-> << >>]
         /\ \A keys \in Seq(Words \X Words), key \in Words \X Words :
              Exported(store, Append(keys, key)) = Written(store, Exported(store, keys), key)
<1>. DEFINE start == [section |-> "", lines |-> << >>]
<1>1. \A keys : Exported(store, keys) = Writing!Folded(store, start, keys)
  BY DEF Exported, FoldLeft, MapThenFoldSet, Max,
         Writing!Folded, Writing!FoldLeft, Writing!MapThenFoldSet, Writing!Max
<1>. HIDE DEF start
<1>2. Writing!Folded(store, start, << >>) = start
  BY Writing!FoldEmpty
<1>3. ASSUME NEW keys \in Seq(Words \X Words), NEW key \in Words \X Words
      PROVE  Writing!Folded(store, start, Append(keys, key))
               = Written(store, Writing!Folded(store, start, keys), key)
  BY Writing!FoldAppend
<1>4. Exported(store, << >>) = start
  BY <1>1, <1>2, Zenon
<1>5. ASSUME NEW keys \in Seq(Words \X Words), NEW key \in Words \X Words
      PROVE  Exported(store, Append(keys, key)) = Written(store, Exported(store, keys), key)
  BY <1>1, <1>3, Zenon
<1>. QED
  BY <1>4, <1>5, Zenon DEF start

LEMMA ReadNext ==
  \A type, start :
    /\ Read(type, start, << >>) = start
    /\ \A lines \in Seq(FileLine), line \in FileLine :
         Read(type, start, Append(lines, line)) = ReadLine(type, Read(type, start, lines), line)
<1>. TAKE type, start
<1>1. \A lines : Read(type, start, lines) = Reading!Folded(type, start, lines)
  BY DEF Read, FoldLeft, MapThenFoldSet, Max,
         Reading!Folded, Reading!FoldLeft, Reading!MapThenFoldSet, Reading!Max
<1>2. Reading!Folded(type, start, << >>) = start
  BY Reading!FoldEmpty
<1>3. ASSUME NEW lines \in Seq(FileLine), NEW line \in FileLine
      PROVE  Reading!Folded(type, start, Append(lines, line))
               = ReadLine(type, Reading!Folded(type, start, lines), line)
  BY Reading!FoldAppend
<1>. QED
  BY <1>1, <1>2, <1>3, Zenon
-----------------------------------------------------------------------------
(* Numbers.                                                                *)

LEMMA RangeOfType ==
  ASSUME NEW type \in Whole
  PROVE  /\ Size[type] \in Nat \ {0} /\ Low(type) \in Int /\ High(type) \in Int
         /\ Low(type) <= 0 /\ 0 <= High(type)
         /\ High(type) = Low(type) + Size[type] - 1
<1>1. Size[type] \in Nat \ {0} /\ Size[type] = 2 * (Size[type] \div 2)
  BY LibraryAssumption
<1>2. PICK half \in Nat : half = Size[type] \div 2
  BY <1>1
<1>3. half >= 1 /\ Size[type] = 2 * half
  BY <1>1, <1>2
<1>4. Low(type) = IF Unsigned(type) THEN 0 ELSE -half
  BY <1>2 DEF Low
<1>. QED
  BY <1>1, <1>3, <1>4 DEF High

\* A number of a checked type is one of 64 bits with a sign.
LEMMA CheckedInRange ==
  ASSUME NEW type \in Checked
  PROVE  Low("I64") <= Low(type) /\ High(type) <= High("I64")
<1>1. type \in Whole /\ "I64" \in Whole /\ ~Unsigned("I64")
  BY DEF Checked, Whole, Unsigned
<1>2. Size[type] <= Size["I64"] \div 2
  BY LibraryAssumption
<1>3. Size["I64"] = 2 * (Size["I64"] \div 2) /\ Size["I64"] \in Nat \ {0}
  BY <1>1, LibraryAssumption
<1>4. Size[type] = 2 * (Size[type] \div 2) /\ Size[type] \in Nat \ {0}
  BY <1>1, LibraryAssumption
<1>5. PICK most \in Nat : most = Size["I64"] \div 2
  BY <1>3
<1>6. PICK half \in Nat : half = Size[type] \div 2
  BY <1>4
<1>7. Low("I64") = -most /\ High("I64") = most - 1
  BY <1>1, <1>3, <1>5 DEF Low, High
<1>8. Low(type) = IF Unsigned(type) THEN 0 ELSE -half
  BY <1>6 DEF Low
<1>9. Size[type] = 2 * half /\ half <= most /\ Size[type] <= most
  BY <1>2, <1>4, <1>5, <1>6
<1>. QED
  BY <1>4, <1>7, <1>8, <1>9 DEF High

LEMMA CastRange ==
  ASSUME NEW type \in Whole, NEW i \in Int
  PROVE  /\ Cast(type, i) \in Low(type) .. High(type)
         /\ i \in Low(type) .. High(type) => Cast(type, i) = i
<1>1. PICK low \in Int : low = Low(type)
  BY RangeOfType
<1>2. PICK size \in Nat \ {0} : size = Size[type]
  BY RangeOfType
<1>3. High(type) = low + size - 1
  BY <1>1, <1>2, RangeOfType
<1>4. Cast(type, i) = low + ((i - low) % size)
  BY <1>1, <1>2 DEF Cast
<1>5. (i - low) % size \in 0 .. size - 1
  OBVIOUS
<1>6. i - low \in 0 .. size - 1 => (i - low) % size = i - low
  OBVIOUS
<1>. QED
  BY <1>1, <1>3, <1>4, <1>5, <1>6

LEMMA ParsedInt ==
  ASSUME NEW type \in Whole, NEW text, text.n \in Int
  PROVE  Parsed(type, text) \in Int
<1>1. "I64" \in Whole
  BY DEF Whole
<1>2. Cast(type, text.n) \in Int /\ High(type) \in Int /\ Low("I64") \in Int /\ High("I64") \in Int
  BY <1>1, CastRange, RangeOfType
<1>3. CASE type = "UI64"
  BY <1>2, <1>3 DEF Parsed
<1>4. CASE type # "UI64"
  BY <1>2, <1>4 DEF Parsed
<1>. QED
  BY <1>3, <1>4

\* A number of its type is read as it is.
LEMMA ParsedOwn ==
  ASSUME NEW type \in Whole, NEW i \in Low(type) .. High(type)
  PROVE  Cast(type, Parsed(type, Number(i))) = i
<1>1. i \in Int /\ Number(i).n = i
  BY RangeOfType DEF Number
<1>2. Cast(type, i) = i
  BY <1>1, CastRange
<1>3. Parsed(type, Number(i)) = i
  <2>1. CASE type = "UI64"
    <3>1. Low(type) = 0
      BY <2>1 DEF Low, Unsigned
    <3>2. i \in -High(type) .. High(type)
      BY <1>1, <3>1, RangeOfType
    <3>. QED
      BY <1>1, <1>2, <2>1, <3>2 DEF Parsed
  <2>2. CASE type # "UI64"
    <3>1. "I64" \in Whole
      BY DEF Whole
    <3>2. Low("I64") <= i /\ i <= High("I64")
      <4>1. CASE type = "I64"
        BY <4>1, <1>1, RangeOfType
      <4>2. CASE type # "I64"
        <5>1. type \in Checked
          BY <2>2, <4>2 DEF Checked
        <5>. QED
          BY <1>1, <3>1, <5>1, CheckedInRange, RangeOfType
      <4>. QED
        BY <4>1, <4>2
    <3>3. Low("I64") \in Int /\ High("I64") \in Int
      BY <3>1, RangeOfType
    <3>. QED
      BY <1>1, <2>2, <3>2, <3>3 DEF Parsed
  <2>. QED
    BY <2>1, <2>2
<1>. QED
  BY <1>2, <1>3

-----------------------------------------------------------------------------
(* Texts.                                                                  *)

LEMMA TypesDistinct ==
  /\ Whole \subseteq Types /\ Checked \subseteq Whole
  /\ {"BOOL", "DBL", "STR"} \cap Whole = {}
  /\ Types = Whole \cup {"BOOL", "DBL", "STR"}
BY DEF Whole, Checked, Types

LEMMA TextsMade ==
  /\ \A i \in Int : Number(i) \in Text /\ Number(i).n = i
  /\ Word("") \in Text /\ Word("true") \in Text /\ Word("false") \in Text
  /\ Word("true") # Word("false")
  /\ Word("true") \in Truth /\ Word("false") \notin Truth
<1>1. {"", "true", "false", "TRUE", "FALSE"} \subseteq Words
  BY LibraryAssumption
<1>2. \A w \in Words : [form |-> "word", n |-> 0, word |-> w] \in Text
  BY DEF Text
<1>3. \A i \in Int : [form |-> "number", n |-> i, word |-> ""] \in Text
  BY <1>1 DEF Text
<1>. QED
  BY <1>1, <1>2, <1>3 DEF Number, Word, Truth

LEMMA WholeTexts ==
  ASSUME NEW type \in Whole, NEW text
  PROVE  /\ Got(type, text) = Number(Cast(type, Parsed(type, text)))
         /\ sanitizeValueString(type, text) = Number(Cast(type, Parsed(type, text)))
         /\ Rendered(type) = {Number(i) : i \in Low(type) .. High(type)}
<1>1. type # "BOOL" /\ type # "DBL" /\ type # "STR"
  BY DEF Whole
<1>. QED
  BY <1>1, Zenon DEF Got, sanitizeValueString, Rendered

LEMMA OtherTexts ==
  ASSUME NEW text
  PROVE  /\ Got("BOOL", text) = Word(IF text \in Truth THEN "true" ELSE "false")
         /\ sanitizeValueString("BOOL", text) = Word("true")
         /\ Rendered("BOOL") = {Word("true"), Word("false")}
         /\ Got("DBL", text) = Number(text.n)
         /\ sanitizeValueString("DBL", text) = Number(text.n)
         /\ Rendered("DBL") = {t \in Text : t = Number(t.n)}
         /\ Got("STR", text) = text
         /\ sanitizeValueString("STR", text) = text
         /\ Rendered("STR") = Text
<1>1. "BOOL" \notin Whole /\ "DBL" \notin Whole /\ "STR" \notin Whole
  BY DEF Whole
<1>2. "BOOL" # "DBL" /\ "BOOL" # "STR" /\ "DBL" # "STR"
  OBVIOUS
<1>. QED
  BY <1>1, <1>2, Zenon DEF Got, sanitizeValueString, Rendered

\* A getter gives a text it gives back.
LEMMA GotTwice ==
  ASSUME NEW type \in Types, NEW text \in Text
  PROVE  Got(type, text) \in Text /\ Got(type, Got(type, text)) = Got(type, text)
<1>0. text.n \in Int
  BY DEF Text
<1>1. CASE type \in Whole
  <2>1. PICK i \in Low(type) .. High(type) : i = Cast(type, Parsed(type, text))
    BY <1>0, <1>1, ParsedInt, CastRange
  <2>2. Got(type, text) = Number(i)
    BY <1>1, <2>1, WholeTexts
  <2>3. i \in Int
    BY <1>1, RangeOfType
  <2>4. Got(type, Number(i)) = Number(i)
    BY <1>1, ParsedOwn, WholeTexts
  <2>. QED
    BY <2>2, <2>3, <2>4, TextsMade
<1>2. CASE type = "BOOL"
  BY <1>2, OtherTexts, TextsMade
<1>3. CASE type = "DBL"
  <2>1. \A t : Got(type, t) = Number(t.n)
    BY <1>3, OtherTexts, Zenon
  <2>2. Number(text.n) \in Text /\ Number(text.n).n = text.n
    BY <1>0, TextsMade
  <2>. QED
    BY <2>1, <2>2, Zenon
<1>4. CASE type = "STR"
  BY <1>4, OtherTexts
<1>. QED
  BY <1>1, <1>2, <1>3, <1>4 DEF Types

\* Init and an import store what a getter gives, but for a BOOL.
LEMMA SanitizedGot ==
  ASSUME NEW type \in Types, NEW text
  PROVE  sanitizeValueString(type, text) = IF type = "BOOL" THEN Word("true") ELSE Got(type, text)
<1>1. CASE type \in Whole
  BY <1>1, WholeTexts DEF Whole
<1>2. CASE type \in {"BOOL", "DBL", "STR"}
  BY <1>2, OtherTexts
<1>. QED
  BY <1>1, <1>2 DEF Types

LEMMA Sanitized ==
  ASSUME NEW type \in Types, NEW text \in Text
  PROVE  /\ sanitizeValueString(type, text) \in Text
         /\ Got(type, sanitizeValueString(type, text)) = sanitizeValueString(type, text)
<1>1. CASE type = "BOOL"
  BY <1>1, OtherTexts, TextsMade
<1>2. CASE type # "BOOL"
  BY <1>2, SanitizedGot, GotTwice
<1>. QED
  BY <1>1, <1>2

\* What the setters store.
LEMMA RenderedOwn ==
  ASSUME NEW type \in Types, NEW text \in Rendered(type)
  PROVE  text \in Text /\ text = Got(type, text)
<1>1. CASE type \in Whole
  <2>1. PICK i \in Low(type) .. High(type) : text = Number(i)
    BY <1>1, WholeTexts
  <2>2. i \in Int
    BY <1>1, RangeOfType
  <2>3. Got(type, Number(i)) = Number(i)
    BY <1>1, ParsedOwn, WholeTexts
  <2>. QED
    BY <2>1, <2>2, <2>3, TextsMade
<1>2. CASE type = "BOOL"
  <2>1. text \in {Word("true"), Word("false")}
    BY <1>2, OtherTexts
  <2>2. Got(type, Word("true")) = Word("true") /\ Got(type, Word("false")) = Word("false")
    BY <1>2, OtherTexts, TextsMade
  <2>. QED
    BY <2>1, <2>2, TextsMade
<1>3. CASE type = "DBL"
  BY <1>3, OtherTexts
<1>4. CASE type = "STR"
  BY <1>4, OtherTexts
<1>. QED
  BY <1>1, <1>2, <1>3, <1>4 DEF Types

\* A setting the store may hold.
Setting == {s \in [type : Types, text : Text] : s.text = Got(s.type, s.text)}

\* No import refuses it for its value, and makes of it what Reread says.
LEMMA OwnMatches ==
  ASSUME NEW s \in Setting
  PROVE  /\ ~StollThrows(s.type, s.text)
         /\ valueStringMatchesType(s.type, s.text)
         /\ [type |-> s.type, text |-> sanitizeValueString(s.type, s.text)] = Reread(s)
<1>. DEFINE type == s.type
            text == s.text
<1>0. type \in Types /\ text \in Text /\ text = Got(type, text) /\ text.n \in Int
      /\ s = [type |-> type, text |-> text]
  BY DEF Setting, Text
<1>. HIDE DEF type, text
<1>1. CASE type \in Whole
  <2>1. PICK i \in Low(type) .. High(type) : i = Cast(type, Parsed(type, text))
    BY <1>0, <1>1, ParsedInt, CastRange
  <2>2. text = Number(i)
    BY <1>0, <1>1, <2>1, WholeTexts
  <2>3. text.n = i /\ text.form = "number"
    BY <2>2 DEF Number
  <2>4. type # "BOOL"
    BY <1>1 DEF Whole
  <2>5. type \in Checked => i \in Low("I64") .. High("I64")
    BY <1>1, CheckedInRange, RangeOfType DEF Whole
  <2>6. ~StollThrows(type, text)
    BY <2>3, <2>5 DEF StollThrows
  <2>7. valueStringMatchesType(type, text)
    BY <1>0, <2>3, <2>4 DEF valueStringMatchesType
  <2>8. sanitizeValueString(type, text) = text
    BY <1>1, <2>1, <2>2, WholeTexts
  <2>. QED
    BY <1>0, <2>4, <2>6, <2>7, <2>8 DEF Reread, type, text
<1>2. CASE type \notin Whole
  <2>1. ~StollThrows(type, text)
    BY <1>2 DEF StollThrows, Checked
  <2>2. type = "BOOL" => text \in Truth \cup Falsehood
    BY <1>0, OtherTexts DEF Truth, Falsehood
  <2>3. valueStringMatchesType(type, text)
    BY <1>0, <1>2, <2>2 DEF valueStringMatchesType, Checked
  <2>4. type # "BOOL" => sanitizeValueString(type, text) = text
    BY <1>0, SanitizedGot
  <2>5. type = "BOOL" => sanitizeValueString(type, text) = Word("true")
    BY <1>0, SanitizedGot
  <2>6. [type |-> type, text |-> sanitizeValueString(type, text)] = Reread(s)
    <3>1. s.type = type
      BY DEF type
    <3>2. CASE type = "BOOL"
      <4>1. [s EXCEPT !.text = Word("true")] = [type |-> type, text |-> Word("true")]
        BY <1>0
      <4>. QED
        BY <2>5, <3>1, <3>2, <4>1 DEF Reread
    <3>3. CASE type # "BOOL"
      BY <1>0, <2>4, <3>1, <3>3 DEF Reread
    <3>. QED
      BY <3>2, <3>3
  <2>. QED
    BY <2>1, <2>3, <2>6 DEF type, text
<1>. QED
  BY <1>1, <1>2

-----------------------------------------------------------------------------
(* The store, and what the loops make of it.                               *)

Store == UNION {[keys -> Setting] : keys \in SUBSET Range(Sorted)}

LEMMA Stores ==
  /\ \A keys \in SUBSET Range(Sorted) : \A d \in [keys -> Setting] : d \in Store
  /\ \A d \in Store : DOMAIN d \subseteq Range(Sorted) /\ d \in [DOMAIN d -> Setting]
  /\ << >> \in Store
<1>1. \A keys \in SUBSET Range(Sorted) : \A d \in [keys -> Setting] : d \in Store
  BY DEF Store
<1>2. \A d \in Store : DOMAIN d \subseteq Range(Sorted) /\ d \in [DOMAIN d -> Setting]
  BY DEF Store
<1>3. << >> \in [{} -> Setting]
  OBVIOUS
<1>. QED
  BY <1>1, <1>2, <1>3

\* A store with one setting more, or another in its place.
With(d, key, new) == [k \in DOMAIN d \cup {key} |-> IF k = key THEN new ELSE d[k]]

\* init so far: what it added, and how it ended.
AddState == [data : Store, rc : {"0", "-1", "-2", "throws"}]

LEMMA AddedState ==
  ASSUME NEW all \in AddState, NEW s \in Fitting
  PROVE  Added(all, s) \in AddState
<1>. DEFINE key == TrimmedKey(s.key)
            type == Trimmed(s.type)
            text == sanitizeValueString(type, s.text)
<1>1. \A rc_ \in {"0", "-1", "-2", "throws"} : [all EXCEPT !.rc = rc_] \in AddState
  BY DEF AddState
<1>2. ASSUME key[2] # "", valueStringMatchesType(type, s.text)
      PROVE  [all EXCEPT !.data = With(@, key, [type |-> type, text |-> text])] \in AddState
  <2>1. key \in Range(Sorted) /\ s.text \in Text
    BY <1>2 DEF Fitting, TrimmedKey, Initializer
  <2>2. type \in Types
    BY <1>2 DEF valueStringMatchesType
  <2>3. text \in Text /\ Got(type, text) = text
    BY <2>1, <2>2, Sanitized
  <2>. HIDE DEF key, type, text
  <2>4. [type |-> type, text |-> text] \in Setting
    BY <2>2, <2>3 DEF Setting
  <2>5. PICK new \in Setting : new = [type |-> type, text |-> text]
    BY <2>4
  <2>6. PICK d \in Store : d = all.data
    BY DEF AddState
  <2>7. With(d, key, new) \in [DOMAIN d \cup {key} -> Setting]
    BY <2>6, Stores DEF With
  <2>8. DOMAIN d \cup {key} \in SUBSET Range(Sorted)
    BY <2>1, <2>6, Stores
  <2>9. With(d, key, new) \in Store
    BY <2>7, <2>8, Stores
  <2>. QED
    BY <2>5, <2>6, <2>9 DEF AddState
<1>3. Added(all, s) \in {[all EXCEPT !.rc = rc_] : rc_ \in {"-1", "-2", "throws"}} \cup {all}
      \/ /\ key[2] # "" /\ valueStringMatchesType(type, s.text)
         /\ Added(all, s) = [all EXCEPT !.data = With(@, key, [type |-> type, text |-> text])]
  <2>. HIDE DEF key, type, text
  <2>. QED
    BY Zenon DEF Added, With, key, type, text
<1>. QED
  BY <1>1, <1>2, <1>3

\* Whatever init is called with, it leaves a store.
LEMMA InitializedState ==
  ASSUME NEW all \in Initializers
  PROVE  Initialized([data |-> << >>, rc |-> "0"], all) \in AddState
<1>. DEFINE start == [data |-> << >>, rc |-> "0"]
            good == {s \in Seq(Fitting) : Initialized(start, s) \in AddState}
<1>1. start \in AddState
  BY Stores DEF AddState
<1>. HIDE DEF start
<1>2. << >> \in good
  BY <1>1, InitializedNext, EmptySeq
<1>3. ASSUME NEW s \in Seq(Fitting), NEW e \in Fitting, s \in good
      PROVE  Append(s, e) \in good
  <2>1. Initialized(start, Append(s, e)) = Added(Initialized(start, s), e)
    BY InitializedNext
  <2>2. Append(s, e) \in Seq(Fitting)
    BY AppendProperties
  <2>. QED
    BY <1>3, <2>1, <2>2, AddedState
<1>. HIDE DEF good
<1>4. \A s \in Seq(Fitting) : s \in good
  BY <1>2, <1>3, Adding!SequencesInduct
<1>5. all \in Seq(Fitting)
  <2>1. all \in Seq(Initializer) /\ \A i \in DOMAIN all : all[i] \in Fitting
    <3>1. all \in Seq(Initializer)
      BY LibraryAssumption
    <3>2. \A i \in DOMAIN all : all[i] \in Initializer
      BY <3>1, ElementOfSeq, LenProperties
    <3>. QED
      BY <3>1, <3>2, LibraryAssumption DEF Fitting
  <2>. QED
    BY <2>1, LenProperties, SeqDef
<1>. QED
  BY <1>4, <1>5 DEF good, start

\* An export so far.
WriteState == [section : Words, lines : Seq(FileLine)]

LEMMA LinesMade ==
  /\ \A section \in Words : Header(section) \in FileLine
  /\ \A key \in Words \X Words, s \in Setting : SettingLine(key, s) \in FileLine
<1>1. Types \subseteq Words /\ "" \in Words
  BY LibraryAssumption
<1>2. ASSUME NEW section \in Words
      PROVE  Header(section) \in FileLine
  BY <1>1, TextsMade DEF Header, Line, FileLine
<1>3. ASSUME NEW key \in Words \X Words, NEW s \in Setting
      PROVE  SettingLine(key, s) \in FileLine
  <2>1. s.type \in Words /\ s.text \in Text /\ key[2] \in Words
    BY <1>1 DEF Setting
  <2>. QED
    BY <1>1, <2>1 DEF SettingLine, Line, FileLine
<1>. QED
  BY <1>2, <1>3

LEMMA WrittenState ==
  ASSUME NEW store \in Store, NEW so_far \in WriteState, NEW key \in Words \X Words
  PROVE  Written(store, so_far, key) \in WriteState
<1>1. CASE key \notin DOMAIN store
  BY <1>1 DEF Written
<1>2. CASE key \in DOMAIN store
  <2>1. store[key] \in Setting
    BY <1>2, Stores
  <2>2. <<SettingLine(key, store[key])>> \in Seq(FileLine) /\ <<Header(key[1])>> \in Seq(FileLine)
    BY <2>1, LinesMade
  <2>3. so_far.lines \o (IF key[1] # so_far.section THEN <<Header(key[1])>> ELSE << >>)
          \o <<SettingLine(key, store[key])>> \in Seq(FileLine)
    <3>1. \A x, y \in Seq(FileLine) : x \o y \in Seq(FileLine)
      BY ConcatProperties
    <3>2. so_far.lines \in Seq(FileLine) /\ << >> \in Seq(FileLine)
      BY EmptySeq DEF WriteState
    <3>. QED
      BY <2>2, <3>1, <3>2
  <2>4. key[1] \in Words
    OBVIOUS
  <2>. QED
    BY <1>2, <2>3, <2>4 DEF Written, WriteState
<1>. QED
  BY <1>1, <1>2

LEMMA ExportedState ==
  ASSUME NEW store \in Store, NEW keys \in Seq(Words \X Words)
  PROVE  Exported(store, keys) \in WriteState
<1>. DEFINE good == {s \in Seq(Words \X Words) : Exported(store, s) \in WriteState}
<1>1. << >> \in good
  <2>1. [section |-> "", lines |-> << >>] \in WriteState
    BY EmptySeq, LibraryAssumption DEF WriteState
  <2>2. Exported(store, << >>) \in WriteState
    BY <2>1, ExportedNext, Zenon
  <2>. QED
    BY <2>2, EmptySeq
<1>2. ASSUME NEW s \in Seq(Words \X Words), NEW e \in Words \X Words, s \in good
      PROVE  Append(s, e) \in good
  <2>1. Exported(store, Append(s, e)) = Written(store, Exported(store, s), e)
    BY ExportedNext, Zenon
  <2>2. Append(s, e) \in Seq(Words \X Words)
    BY AppendProperties
  <2>. QED
    BY <1>2, <2>1, <2>2, WrittenState
<1>. HIDE DEF good
<1>3. \A s \in Seq(Words \X Words) : s \in good
  BY <1>1, <1>2, Writing!SequencesInduct
<1>. QED
  BY <1>3 DEF good

\* An import so far, into a store with these keys.
ReadState(keys) ==
  [data : [keys -> Setting], different : BOOLEAN, section : Words, rc : ImportErrors \cup {"throws"}]

\* A setting that is read as it should be.
Legible(line) ==
  /\ line.kind # "header" /\ ~Malformed(line)
  /\ ~StollThrows(line.type, line.text) /\ valueStringMatchesType(line.type, line.text)

\* It ended with an error; it came to a section.
Ended(read, e) == [read EXCEPT !.rc = e]
InSection(read, section) == [read EXCEPT !.section = section]

LEMMA ReadLineEnded ==
  ASSUME NEW type, NEW read, NEW line, read.rc # "SIRC_SUCCESS"
  PROVE  ReadLine(type, read, line) = read
BY Zenon DEF ReadLine, Ended, InSection

LEMMA ReadLineNameless ==
  ASSUME NEW type, NEW read, NEW line, read.rc = "SIRC_SUCCESS", line.kind = "header",
         line.section = ""
  PROVE  ReadLine(type, read, line) = Ended(read, "SIRC_SECTION_INVALID_FORMAT")
BY Zenon DEF ReadLine, Ended, InSection

LEMMA ReadLineNamed ==
  ASSUME NEW type, NEW read, NEW line, read.rc = "SIRC_SUCCESS", line.kind = "header",
         line.section # ""
  PROVE  ReadLine(type, read, line) = InSection(read, line.section)
BY Zenon DEF ReadLine, Ended, InSection

LEMMA ReadLineSetting ==
  ASSUME NEW type, NEW read, NEW line, read.rc = "SIRC_SUCCESS", line.kind # "header"
  PROVE  ReadLine(type, read, line) =
           IF Malformed(line) THEN Ended(read, "SIRC_PARAMETER_INVALID_FORMAT")
           ELSE IF StollThrows(line.type, line.text) THEN Ended(read, "throws")
           ELSE IF ~valueStringMatchesType(line.type, line.text)
             THEN Ended(read, "SIRC_PARAMETER_INVALID_FORMAT")
           ELSE IF type \in {"ALL", "ALL_EXCEPT_VERSION"}
             THEN Stored(type, read, <<read.section, line.name>>, line)
             ELSE Callback(type, read, <<read.section, line.name>>)
BY Zenon DEF ReadLine, Ended, InSection

LEMMA ReadLineRefused ==
  ASSUME NEW type, NEW read, NEW line, read.rc = "SIRC_SUCCESS", line.kind # "header", ~Legible(line)
  PROVE  \/ ReadLine(type, read, line) = Ended(read, "SIRC_PARAMETER_INVALID_FORMAT")
         \/ ReadLine(type, read, line) = Ended(read, "throws")
<1>1. CASE Malformed(line)
  BY <1>1, ReadLineSetting, Zenon
<1>2. CASE ~Malformed(line) /\ StollThrows(line.type, line.text)
  BY <1>2, ReadLineSetting, Zenon
<1>3. CASE ~Malformed(line) /\ ~StollThrows(line.type, line.text)
  <2>1. ~valueStringMatchesType(line.type, line.text)
    BY <1>3, Zenon DEF Legible
  <2>. QED
    BY <1>3, <2>1, ReadLineSetting, Zenon
<1>. QED
  BY <1>1, <1>2, <1>3

LEMMA ReadLineTaken ==
  ASSUME NEW type, NEW read, NEW line, read.rc = "SIRC_SUCCESS", Legible(line)
  PROVE  ReadLine(type, read, line) =
           IF type \in {"ALL", "ALL_EXCEPT_VERSION"}
             THEN Stored(type, read, <<read.section, line.name>>, line)
             ELSE Callback(type, read, <<read.section, line.name>>)
BY ReadLineSetting, Zenon DEF Legible

LEMMA CallbackCases ==
  ASSUME NEW type, NEW read, NEW key
  PROVE  \/ Callback(type, read, key) = read
         \/ Callback(type, read, key) = Ended(read, "SIRC_CALLBACK_NOT_VALID")
         \/ Callback(type, read, key) = Ended(read, "SIRC_CALLBACK_RETURNED_ERROR")
BY Zenon DEF Callback, Ended

\* A line changes no key and no type, and without its consent not the version.
LEMMA StoredState ==
  ASSUME NEW keys, NEW type, NEW read \in ReadState(keys), NEW key, NEW line \in FileLine,
         line.type \in Types
  PROVE  /\ Stored(type, read, key, line) \in ReadState(keys)
         /\ type = "ALL_EXCEPT_VERSION" /\ Version \in keys =>
              Stored(type, read, key, line).data[Version] = read.data[Version]
<1>. DEFINE text == sanitizeValueString(line.type, line.text)
<1>1. text \in Text /\ Got(line.type, text) = text
  BY Sanitized DEF FileLine
<1>. HIDE DEF text
<1>2. CASE Stored(type, read, key, line) = read
  BY <1>2
<1>3. CASE /\ type = "ALL_EXCEPT_VERSION" /\ key = Version
           /\ Stored(type, read, key, line) =
                [read EXCEPT !.different = @ \/ read.data[key] # [type |-> line.type, text |-> text]]
  BY <1>3 DEF ReadState
<1>4. CASE /\ ~(type = "ALL_EXCEPT_VERSION" /\ key = Version)
           /\ key \in DOMAIN read.data /\ read.data[key].type = line.type
           /\ Stored(type, read, key, line) = [read EXCEPT !.data[key].text = text]
  <2>1. read.data \in [keys -> Setting] /\ key \in keys
    BY <1>4 DEF ReadState
  <2>2. [read.data[key] EXCEPT !.text = text] \in Setting
    BY <1>1, <1>4, <2>1 DEF Setting
  <2>3. [read.data EXCEPT ![key].text = text] \in [keys -> Setting]
    BY <2>1, <2>2
  <2>4. Stored(type, read, key, line) = [read EXCEPT !.data = [read.data EXCEPT ![key].text = text]]
    BY <1>4 DEF ReadState
  <2>5. [read EXCEPT !.data = [read.data EXCEPT ![key].text = text]].data
          = [read.data EXCEPT ![key].text = text]
    BY DEF ReadState
  <2>6. type = "ALL_EXCEPT_VERSION" /\ Version \in keys =>
          [read.data EXCEPT ![key].text = text][Version] = read.data[Version]
    BY <1>4, <2>1
  <2>7. [read EXCEPT !.data = [read.data EXCEPT ![key].text = text]] \in ReadState(keys)
    BY <2>3 DEF ReadState
  <2>. QED
    BY <2>4, <2>5, <2>6, <2>7
<1>. QED
  BY <1>2, <1>3, <1>4, Zenon DEF Stored, text

LEMMA ReadLineState ==
  ASSUME NEW keys, NEW type, NEW read \in ReadState(keys), NEW line \in FileLine
  PROVE  /\ ReadLine(type, read, line) \in ReadState(keys)
         /\ type = "ALL_EXCEPT_VERSION" /\ Version \in keys =>
              ReadLine(type, read, line).data[Version] = read.data[Version]
<1>1. ASSUME NEW e \in ImportErrors \cup {"throws"}
      PROVE  Ended(read, e) \in ReadState(keys) /\ Ended(read, e).data = read.data
  BY DEF ReadState, Ended
<1>2. /\ InSection(read, line.section) \in ReadState(keys)
      /\ InSection(read, line.section).data = read.data
  BY DEF ReadState, FileLine, InSection
<1>3. {"SIRC_SECTION_INVALID_FORMAT", "SIRC_PARAMETER_INVALID_FORMAT", "SIRC_CALLBACK_NOT_VALID",
       "SIRC_CALLBACK_RETURNED_ERROR"} \subseteq ImportErrors
  BY DEF ImportErrors
<1>4. CASE read.rc # "SIRC_SUCCESS"
  <2>1. ReadLine(type, read, line) = read
    BY <1>4, ReadLineEnded, Zenon
  <2>. QED
    BY <2>1
<1>5. CASE read.rc = "SIRC_SUCCESS" /\ line.kind = "header"
  <2>1. \/ ReadLine(type, read, line) = Ended(read, "SIRC_SECTION_INVALID_FORMAT")
        \/ ReadLine(type, read, line) = InSection(read, line.section)
    <3>1. CASE line.section = ""
      BY <1>5, <3>1, ReadLineNameless, Zenon
    <3>2. CASE line.section # ""
      BY <1>5, <3>2, ReadLineNamed, Zenon
    <3>. QED
      BY <3>1, <3>2
  <2>. QED
    BY <1>1, <1>2, <1>3, <2>1
<1>6. CASE read.rc = "SIRC_SUCCESS" /\ line.kind # "header" /\ ~Legible(line)
  <2>1. \/ ReadLine(type, read, line) = Ended(read, "SIRC_PARAMETER_INVALID_FORMAT")
        \/ ReadLine(type, read, line) = Ended(read, "throws")
    BY <1>6, ReadLineRefused, Zenon
  <2>. QED
    BY <1>1, <1>3, <2>1
<1>7. CASE read.rc = "SIRC_SUCCESS" /\ Legible(line)
  <2>. DEFINE key == <<read.section, line.name>>
  <2>1. line.type \in Types
    BY <1>7 DEF Legible, valueStringMatchesType
  <2>2. CASE type \in {"ALL", "ALL_EXCEPT_VERSION"}
    <3>1. ReadLine(type, read, line) = Stored(type, read, key, line)
      BY <1>7, <2>2, ReadLineTaken, Zenon
    <3>. QED
      BY <2>1, <3>1, StoredState
  <2>3. CASE type \notin {"ALL", "ALL_EXCEPT_VERSION"}
    <3>1. ReadLine(type, read, line) = Callback(type, read, key)
      BY <1>7, <2>3, ReadLineTaken, Zenon
    <3>. HIDE DEF key
    <3>2. \/ ReadLine(type, read, line) = read
          \/ ReadLine(type, read, line) = Ended(read, "SIRC_CALLBACK_NOT_VALID")
          \/ ReadLine(type, read, line) = Ended(read, "SIRC_CALLBACK_RETURNED_ERROR")
      BY <3>1, CallbackCases, Zenon
    <3>. QED
      BY <1>1, <1>3, <3>2
  <2>. QED
    BY <2>2, <2>3
<1>. QED
  BY <1>4, <1>5, <1>6, <1>7 DEF Legible

\* An import so far of any lines.
LEMMA ReadStates ==
  ASSUME NEW keys, NEW type, NEW start \in ReadState(keys), NEW lines \in Seq(FileLine)
  PROVE  /\ Read(type, start, lines) \in ReadState(keys)
         /\ type = "ALL_EXCEPT_VERSION" /\ Version \in keys =>
              Read(type, start, lines).data[Version] = start.data[Version]
<1>. DEFINE good == {s \in Seq(FileLine) :
                       /\ Read(type, start, s) \in ReadState(keys)
                       /\ type = "ALL_EXCEPT_VERSION" /\ Version \in keys =>
                            Read(type, start, s).data[Version] = start.data[Version]}
<1>1. << >> \in good
  BY ReadNext, EmptySeq
<1>2. ASSUME NEW s \in Seq(FileLine), NEW e \in FileLine, s \in good
      PROVE  Append(s, e) \in good
  <2>1. Read(type, start, Append(s, e)) = ReadLine(type, Read(type, start, s), e)
    BY ReadNext
  <2>2. Append(s, e) \in Seq(FileLine)
    BY AppendProperties
  <2>3. Read(type, start, s) \in ReadState(keys)
    BY <1>2
  <2>4. /\ ReadLine(type, Read(type, start, s), e) \in ReadState(keys)
        /\ type = "ALL_EXCEPT_VERSION" /\ Version \in keys =>
             ReadLine(type, Read(type, start, s), e).data[Version] = Read(type, start, s).data[Version]
    BY <2>3, ReadLineState
  <2>. QED
    BY <1>2, <2>1, <2>2, <2>4
<1>. HIDE DEF good
<1>3. \A s \in Seq(FileLine) : s \in good
  BY <1>1, <1>2, Reading!SequencesInduct
<1>. QED
  BY <1>3 DEF good

-----------------------------------------------------------------------------
(* An import of what an export wrote.                                      *)

\* The keys of a file that an import takes to its end, and those that lead into
\* a section.
Clean(store, keys) ==
  /\ \A i \in 1..Len(keys) : keys[i] \in DOMAIN store => store[keys[i]].text # Word("")
  /\ \A i, j \in 1..Len(keys) :
       i < j /\ keys[i] \in DOMAIN store /\ keys[j] \in DOMAIN store /\ keys[j][1] = "" => keys[i][1] = ""
Named(store, keys) == \E i \in 1..Len(keys) : keys[i] \in DOMAIN store /\ keys[i][1] # ""

LEMMA CleanEmpty ==
  ASSUME NEW store
  PROVE  Clean(store, << >>) /\ ~Named(store, << >>)
BY DEF Clean, Named

LEMMA CleanAppend ==
  ASSUME NEW store, NEW s \in Seq(Words \X Words), NEW key \in Words \X Words
  PROVE  /\ Named(store, Append(s, key)) <=>
              Named(store, s) \/ (key \in DOMAIN store /\ key[1] # "")
         /\ Clean(store, Append(s, key)) <=>
              /\ Clean(store, s)
              /\ key \in DOMAIN store => store[key].text # Word("") /\ (key[1] = "" => ~Named(store, s))
<1>. DEFINE t == Append(s, key)
<1>1. PICK n \in Nat : n = Len(s)
  BY LenProperties
<1>2. Len(t) = n + 1 /\ t[n+1] = key /\ \A i \in 1..n : t[i] = s[i]
  BY <1>1, AppendProperties
<1>. HIDE DEF t
<1>3. \A i : i \in 1..n+1 <=> i \in 1..n \/ i = n + 1
  OBVIOUS
<1>4. \A i \in 1..n : i < n + 1
  OBVIOUS
<1>8. \A i, j \in 1..n+1 : i < j => i \in 1..n
  OBVIOUS
<1>5. Named(store, t) <=> Named(store, s) \/ (key \in DOMAIN store /\ key[1] # "")
  <2>1. Named(store, t) <=> \E i \in 1..n+1 : t[i] \in DOMAIN store /\ t[i][1] # ""
    BY <1>2 DEF Named
  <2>2. Named(store, s) <=> \E i \in 1..n : s[i] \in DOMAIN store /\ s[i][1] # ""
    BY <1>1 DEF Named
  <2>3. n + 1 \in 1..n+1 /\ \A i \in 1..n : i \in 1..n+1
    OBVIOUS
  <2>4. ASSUME NEW i \in 1..n+1, t[i] \in DOMAIN store, t[i][1] # ""
        PROVE  (\E k \in 1..n : s[k] \in DOMAIN store /\ s[k][1] # "") \/ (key \in DOMAIN store /\ key[1] # "")
    <3>1. CASE i \in 1..n
      <4>1. t[i] = s[i]
        BY <1>2, <3>1
      <4>2. s[i] \in DOMAIN store /\ s[i][1] # ""
        BY <2>4, <4>1
      <4>3. \E k \in 1..n : s[k] \in DOMAIN store /\ s[k][1] # ""
        <5>. WITNESS i \in 1..n
        <5>. QED
          BY <4>2
      <4>. QED
        BY <4>3
    <3>2. CASE i = n + 1
      BY <1>2, <2>4, <3>2, Zenon
    <3>. QED
      BY <1>3, <3>1, <3>2, Zenon
  <2>5. ASSUME NEW i \in 1..n, s[i] \in DOMAIN store, s[i][1] # ""
        PROVE  \E k \in 1..n+1 : t[k] \in DOMAIN store /\ t[k][1] # ""
    BY <1>2, <2>3, <2>5, Zenon
  <2>6. ASSUME key \in DOMAIN store, key[1] # ""
        PROVE  \E k \in 1..n+1 : t[k] \in DOMAIN store /\ t[k][1] # ""
    BY <1>2, <2>3, <2>6, Zenon
  <2>. QED
    BY <2>1, <2>2, <2>4, <2>5, <2>6, Zenon
<1>6. ASSUME Clean(store, t)
      PROVE  /\ Clean(store, s)
             /\ key \in DOMAIN store => store[key].text # Word("") /\ (key[1] = "" => ~Named(store, s))
  BY <1>1, <1>2, <1>3, <1>4, <1>6 DEF Clean, Named
<1>7. ASSUME Clean(store, s),
             key \in DOMAIN store => store[key].text # Word("") /\ (key[1] = "" => ~Named(store, s))
      PROVE  Clean(store, t)
  <2>1. \A i \in 1..n+1 : t[i] \in DOMAIN store => store[t[i]].text # Word("")
    BY <1>1, <1>2, <1>3, <1>7 DEF Clean
  <2>2. ASSUME NEW i \in 1..n+1, NEW j \in 1..n+1, i < j,
               t[i] \in DOMAIN store, t[j] \in DOMAIN store, t[j][1] = ""
        PROVE  t[i][1] = ""
    <3>1. i \in 1..n
      BY <1>8, <2>2, Zenon
    <3>2. CASE j \in 1..n
      BY <1>1, <1>2, <1>7, <2>2, <3>1, <3>2 DEF Clean
    <3>3. CASE j = n + 1
      BY <1>1, <1>2, <1>7, <2>2, <3>1, <3>3 DEF Named
    <3>. QED
      BY <1>3, <3>2, <3>3
  <2>. QED
    BY <1>2, <2>1, <2>2 DEF Clean
<1>. QED
  BY <1>5, <1>6, <1>7 DEF t

LEMMA RangeAppend ==
  ASSUME NEW s \in Seq(Words \X Words), NEW key \in Words \X Words
  PROVE  Range(Append(s, key)) = Range(s) \cup {key}
<1>. DEFINE t == Append(s, key)
<1>1. PICK n \in Nat : n = Len(s)
  BY LenProperties
<1>2. DOMAIN t = 1..n+1 /\ t[n+1] = key /\ \A i \in 1..n : t[i] = s[i]
  BY <1>1, AppendProperties, LenProperties
<1>3. DOMAIN s = 1..n
  BY <1>1, LenProperties
<1>. HIDE DEF t
<1>4. \A i : i \in 1..n+1 <=> i \in 1..n \/ i = n + 1
  OBVIOUS
<1>5. Range(t) = Range(s) \cup {key}
  BY <1>2, <1>3, <1>4 DEF Range
<1>. QED
  BY <1>5 DEF t

\* What an import has made of the store d, and whether it found another version,
\* when it has seen these keys.
Seen(store, type, d, keys) ==
  [k \in DOMAIN d |->
     IF /\ k \in keys /\ k \in DOMAIN store /\ store[k].type = d[k].type
        /\ ~(type = "ALL_EXCEPT_VERSION" /\ k = Version)
       THEN Reread(store[k]) ELSE d[k]]
Differs(store, type, d, keys) ==
  /\ type = "ALL_EXCEPT_VERSION"
  /\ Version \in keys /\ Version \in DOMAIN store /\ Version \in DOMAIN d
  /\ Reread(store[Version]) # d[Version]

LEMMA RereadSetting ==
  ASSUME NEW s \in Setting
  PROVE  Reread(s) \in Setting /\ Reread(s).type = s.type
<1>1. s.type \in Types /\ s.text \in Text /\ s = [type |-> s.type, text |-> s.text]
  BY DEF Setting
<1>2. Reread(s) = [type |-> s.type, text |-> sanitizeValueString(s.type, s.text)]
  BY OwnMatches
<1>. QED
  BY <1>1, <1>2, Sanitized DEF Setting

\* A key more: one that the store d lacks or that has another type, and any other.
LEMMA SeenSame ==
  ASSUME NEW store, NEW type, NEW d, NEW keys, NEW key \in DOMAIN store,
         \/ key \notin DOMAIN d
         \/ type = "ALL_EXCEPT_VERSION" /\ key = Version
         \/ d[key].type # store[key].type
  PROVE  Seen(store, type, d, keys \cup {key}) = Seen(store, type, d, keys)
BY DEF Seen

LEMMA SeenMore ==
  ASSUME NEW store, NEW type, NEW d, NEW keys, NEW key \in DOMAIN store,
         key \in DOMAIN d, ~(type = "ALL_EXCEPT_VERSION" /\ key = Version),
         d[key].type = store[key].type
  PROVE  Seen(store, type, d, keys \cup {key}) =
           [Seen(store, type, d, keys) EXCEPT ![key] = Reread(store[key])]
<1>. DEFINE new == Seen(store, type, d, keys \cup {key})
            old == Seen(store, type, d, keys)
<1>1. new[key] = Reread(store[key])
  BY DEF Seen
<1>2. \A k \in DOMAIN d : k # key => new[k] = old[k]
  BY DEF Seen
<1>3. new = [k \in DOMAIN d |-> new[k]] /\ old = [k \in DOMAIN d |-> old[k]]
  BY DEF Seen
<1>. HIDE DEF new, old
<1>4. new = [old EXCEPT ![key] = Reread(store[key])]
  BY <1>1, <1>2, <1>3
<1>. QED
  BY <1>4 DEF new, old

LEMMA SeenState ==
  ASSUME NEW store \in Store, NEW type, NEW d \in Store, NEW keys
  PROVE  /\ Seen(store, type, d, keys) \in [DOMAIN d -> Setting]
         /\ \A k \in DOMAIN d : Seen(store, type, d, keys)[k].type = d[k].type
<1>1. ASSUME NEW k \in DOMAIN d
      PROVE  /\ Seen(store, type, d, keys)[k] \in Setting
             /\ Seen(store, type, d, keys)[k].type = d[k].type
  <2>1. d[k] \in Setting
    BY Stores
  <2>2. k \in DOMAIN store => store[k] \in Setting
    BY Stores
  <2>3. Seen(store, type, d, keys)[k] =
          IF /\ k \in keys /\ k \in DOMAIN store /\ store[k].type = d[k].type
             /\ ~(type = "ALL_EXCEPT_VERSION" /\ k = Version)
            THEN Reread(store[k]) ELSE d[k]
    BY DEF Seen
  <2>. QED
    BY <2>1, <2>2, <2>3, RereadSetting
<1>2. Seen(store, type, d, keys) = [k \in DOMAIN d |-> Seen(store, type, d, keys)[k]]
  BY DEF Seen
<1>. QED
  BY <1>1, <1>2

\* Of an import that has seen some keys: what it must hold.
Met(store, type, d, keys, section, read) ==
  /\ read \in ReadState(DOMAIN d)
  /\ read.rc = "SIRC_SUCCESS" /\ read.section = section
  /\ read.data = Seen(store, type, d, keys)
  /\ read.different <=> Differs(store, type, d, keys)

\* The line of a setting, where it belongs.
LEMMA ReadOwnLine ==
  ASSUME NEW store \in Store, NEW type \in {"ALL", "ALL_EXCEPT_VERSION"}, NEW d \in Store, NEW keys,
         NEW key \in Words \X Words, key \in DOMAIN store, NEW read,
         Met(store, type, d, keys, key[1], read)
  PROVE  LET new == ReadLine(type, read, SettingLine(key, store[key]))
         IN IF store[key].text = Word("") THEN new.rc # "SIRC_SUCCESS"
            ELSE Met(store, type, d, keys \cup {key}, key[1], new)
<1>. DEFINE line == SettingLine(key, store[key])
            new == ReadLine(type, read, line)
<1>1. store[key] \in Setting
  BY Stores
<1>2. /\ line \in FileLine /\ line.kind = "setting" /\ line.name = key[2]
      /\ line.type = store[key].type /\ line.text = store[key].text
  BY <1>1, LinesMade DEF SettingLine, Line
<1>3. /\ read \in ReadState(DOMAIN d) /\ read.rc = "SIRC_SUCCESS" /\ read.section = key[1]
      /\ read.data = Seen(store, type, d, keys)
      /\ (read.different <=> Differs(store, type, d, keys))
  BY DEF Met
<1>4. line.type \in Types
  BY <1>1, <1>2 DEF Setting
<1>. HIDE DEF line
<1>5. CASE store[key].text = Word("")
  <2>1. ~Legible(line) /\ line.kind # "header"
    BY <1>2, <1>5 DEF Legible, Malformed
  <2>2. new = Ended(read, "SIRC_PARAMETER_INVALID_FORMAT") \/ new = Ended(read, "throws")
    BY <1>3, <2>1, ReadLineRefused, Zenon
  <2>3. new.rc # "SIRC_SUCCESS"
    BY <1>3, <2>2 DEF Ended, ReadState
  <2>. QED
    BY <1>5, <2>3 DEF line
<1>6. CASE store[key].text # Word("")
  <2>1. ~Malformed(line)
    BY <1>2, <1>4, <1>6 DEF Malformed
  <2>2. Legible(line)
    BY <1>1, <1>2, <2>1, OwnMatches DEF Legible
  <2>3. new = Stored(type, read, <<read.section, line.name>>, line)
    BY <1>3, <2>2, ReadLineTaken, Zenon
  <2>4. <<read.section, line.name>> = key
    BY <1>2, <1>3
  <2>5. new = Stored(type, read, key, line)
    BY <2>3, <2>4
  <2>6. [type |-> line.type, text |-> sanitizeValueString(line.type, line.text)] = Reread(store[key])
    BY <1>1, <1>2, OwnMatches
  <2>7. new \in ReadState(DOMAIN d)
    BY <1>2, <1>3, <1>4, <2>5, StoredState
  <2>8. DOMAIN read.data = DOMAIN d /\ \A k \in DOMAIN d : read.data[k].type = d[k].type
    BY <1>3, SeenState
  <2>. HIDE DEF new
  <2>9. Met(store, type, d, keys \cup {key}, key[1], new)
    <3>1. CASE key \notin DOMAIN d
      <4>1. new = read
        BY <2>5, <2>8, <3>1, Zenon DEF Stored
      <4>2. Seen(store, type, d, keys \cup {key}) = Seen(store, type, d, keys)
        BY <3>1, SeenSame
      <4>3. Differs(store, type, d, keys \cup {key}) <=> Differs(store, type, d, keys)
        BY <3>1 DEF Differs
      <4>. QED
        BY <1>3, <4>1, <4>2, <4>3 DEF Met
    <3>2. CASE key \in DOMAIN d /\ type = "ALL_EXCEPT_VERSION" /\ key = Version
      <4>1. new = [read EXCEPT !.different = @ \/ read.data[key] # Reread(store[key])]
        BY <2>5, <2>6, <2>8, <3>2, Zenon DEF Stored
      <4>2. Seen(store, type, d, keys \cup {key}) = Seen(store, type, d, keys)
        BY <3>2, SeenSame
      <4>3. read.data[key] = d[key]
        BY <1>3, <3>2 DEF Seen
      <4>4. Differs(store, type, d, keys \cup {key}) <=> Reread(store[key]) # d[key]
        BY <3>2 DEF Differs
      <4>5. Differs(store, type, d, keys) => Reread(store[key]) # d[key]
        BY <3>2 DEF Differs
      <4>6. new.different <=> read.different \/ Reread(store[key]) # d[key]
        BY <1>3, <4>1, <4>3 DEF ReadState
      <4>7. new.rc = read.rc /\ new.section = read.section /\ new.data = read.data
        BY <1>3, <4>1 DEF ReadState
      <4>8. new.different <=> Differs(store, type, d, keys \cup {key})
        BY <1>3, <4>4, <4>5, <4>6, Zenon
      <4>. QED
        BY <1>3, <2>7, <4>2, <4>7, <4>8 DEF Met
    <3>3. CASE key \in DOMAIN d /\ ~(type = "ALL_EXCEPT_VERSION" /\ key = Version)
      <4>1. Differs(store, type, d, keys \cup {key}) <=> Differs(store, type, d, keys)
        BY <3>3 DEF Differs
      <4>2. CASE d[key].type # store[key].type
        <5>1. new = read
          BY <1>2, <2>5, <2>8, <3>3, <4>2, Zenon DEF Stored
        <5>2. Seen(store, type, d, keys \cup {key}) = Seen(store, type, d, keys)
          BY <4>2, SeenSame
        <5>. QED
          BY <1>3, <4>1, <5>1, <5>2 DEF Met
      <4>3. CASE d[key].type = store[key].type
        <5>. DEFINE text == sanitizeValueString(line.type, line.text)
        <5>1. new = [read EXCEPT !.data[key].text = text]
          BY <1>2, <2>5, <2>8, <3>3, <4>3, Zenon DEF Stored
        <5>2. [read.data[key] EXCEPT !.text = text] = Reread(store[key])
          <6>1. read.data[key] \in Setting /\ read.data[key].type = line.type
            BY <1>2, <1>3, <2>8, <3>3, <4>3 DEF ReadState
          <6>2. [read.data[key] EXCEPT !.text = text] = [type |-> line.type, text |-> text]
            BY <6>1 DEF Setting
          <6>. QED
            BY <2>6, <6>2
        <5>. HIDE DEF text
        <5>3. new.data = [read.data EXCEPT ![key] = Reread(store[key])]
          BY <1>3, <2>8, <3>3, <5>1, <5>2 DEF ReadState
        <5>4. new.rc = read.rc /\ new.section = read.section /\ new.different = read.different
          BY <1>3, <5>1 DEF ReadState
        <5>5. Seen(store, type, d, keys \cup {key})
                = [Seen(store, type, d, keys) EXCEPT ![key] = Reread(store[key])]
          BY <3>3, <4>3, SeenMore
        <5>. QED
          BY <1>3, <2>7, <4>1, <5>3, <5>4, <5>5 DEF Met
      <4>. QED
        BY <4>2, <4>3
    <3>. QED
      BY <3>1, <3>2, <3>3
  <2>. QED
    BY <1>6, <2>9 DEF new, line
<1>. QED
  BY <1>5, <1>6

Start(d) == [data |-> d, different |-> FALSE, section |-> "", rc |-> "SIRC_SUCCESS"]

\* A line more, after others.
LEMMA ReadMore ==
  ASSUME NEW type, NEW start, NEW lines \in Seq(FileLine), NEW line \in FileLine
  PROVE  Read(type, start, lines \o <<line>>) = ReadLine(type, Read(type, start, lines), line)
<1>1. lines \o <<line>> = Append(lines, line)
  OBVIOUS
<1>. QED
  BY <1>1, ReadNext, Zenon

\* How far an import of the export of some keys comes.
Comes(store, type, d, keys) ==
  LET export == Exported(store, keys)
      read == Read(type, Start(d), export.lines)
  IN IF Clean(store, keys)
       THEN /\ export.section = "" <=> ~Named(store, keys)
            /\ Met(store, type, d, Range(keys), export.section, read)
       ELSE read.rc # "SIRC_SUCCESS"

LEMMA ComesFromNothing ==
  ASSUME NEW store \in Store, NEW type, NEW d \in Store
  PROVE  Comes(store, type, d, << >>)
<1>1. Exported(store, << >>) = [section |-> "", lines |-> << >>]
  BY ExportedNext, Zenon
<1>2. Read(type, Start(d), << >>) = Start(d)
  BY ReadNext, Zenon
<1>3. Range(<< >>) = {}
  BY DEF Range
<1>4. Start(d) \in ReadState(DOMAIN d)
  BY Stores, LibraryAssumption DEF Start, ReadState, ImportErrors
<1>5. Seen(store, type, d, {}) = d
  <2>1. d = [k \in DOMAIN d |-> d[k]]
    BY Stores
  <2>. QED
    BY <2>1 DEF Seen
<1>6. ~Differs(store, type, d, {})
  BY DEF Differs
<1>7. Met(store, type, d, {}, "", Start(d))
  BY <1>4, <1>5, <1>6 DEF Met, Start
<1>8. Exported(store, << >>).section = "" /\ Exported(store, << >>).lines = << >>
  <2>. DEFINE e == Exported(store, << >>)
  <2>. HIDE DEF e
  <2>1. e = [section |-> "", lines |-> << >>]
    BY <1>1 DEF e
  <2>2. e.section = "" /\ e.lines = << >>
    BY <2>1
  <2>. QED
    BY <2>2 DEF e
<1>9. Clean(store, << >>) /\ ~Named(store, << >>)
  BY CleanEmpty, Zenon
<1>. QED
  BY <1>2, <1>3, <1>7, <1>8, <1>9, Zenon DEF Comes

LEMMA ComesFurther ==
  ASSUME NEW store \in Store, NEW type \in {"ALL", "ALL_EXCEPT_VERSION"}, NEW d \in Store,
         NEW keys \in Seq(Words \X Words), NEW key \in Words \X Words,
         Comes(store, type, d, keys)
  PROVE  Comes(store, type, d, Append(keys, key))
<1>. DEFINE export == Exported(store, keys)
            more == Exported(store, Append(keys, key))
            read == Read(type, Start(d), export.lines)
            next == Read(type, Start(d), more.lines)
            seen == Range(keys)
<1>1. more = Written(store, export, key)
  BY ExportedNext, Zenon
<1>2. export \in WriteState
  BY ExportedState
<1>3. Range(Append(keys, key)) = seen \cup {key}
  BY RangeAppend
<1>4. Start(d) \in ReadState(DOMAIN d)
  BY Stores, LibraryAssumption DEF Start, ReadState, ImportErrors
<1>5. read \in ReadState(DOMAIN d)
  BY <1>2, <1>4, ReadStates DEF WriteState
<1>6. IF Clean(store, keys)
        THEN /\ export.section = "" <=> ~Named(store, keys)
             /\ Met(store, type, d, seen, export.section, read)
        ELSE read.rc # "SIRC_SUCCESS"
  BY Zenon DEF Comes
<1>7. SUFFICES IF Clean(store, Append(keys, key))
                 THEN /\ more.section = "" <=> ~Named(store, Append(keys, key))
                      /\ Met(store, type, d, seen \cup {key}, more.section, next)
                 ELSE next.rc # "SIRC_SUCCESS"
  BY <1>3, Zenon DEF Comes
<1>. HIDE DEF seen
<1>8. CASE key \notin DOMAIN store
  <2>1. more = export
    BY <1>1, <1>8 DEF Written
  <2>2. /\ Clean(store, Append(keys, key)) <=> Clean(store, keys)
        /\ Named(store, Append(keys, key)) <=> Named(store, keys)
    <3>1. Named(store, Append(keys, key)) <=> Named(store, keys)
      BY <1>8, CleanAppend
    <3>2. Clean(store, Append(keys, key)) <=> Clean(store, keys)
      BY <1>8, CleanAppend
    <3>. QED
      BY <3>1, <3>2
  <2>3. /\ Seen(store, type, d, seen \cup {key}) = Seen(store, type, d, seen)
        /\ Differs(store, type, d, seen \cup {key}) <=> Differs(store, type, d, seen)
    BY <1>8 DEF Seen, Differs
  <2>4. next = read
    BY <2>1
  <2>. HIDE DEF more, export, next, read
  <2>5. Met(store, type, d, seen, export.section, read)
          => Met(store, type, d, seen \cup {key}, export.section, read)
    BY <2>3 DEF Met
  <2>. QED
    BY <1>6, <2>1, <2>2, <2>4, <2>5
<1>9. CASE key \in DOMAIN store
  <2>. DEFINE header == IF key[1] # export.section THEN <<Header(key[1])>> ELSE << >>
              line == SettingLine(key, store[key])
              there == Read(type, Start(d), export.lines \o header)
  <2>1. more.section = key[1] /\ more.lines = export.lines \o header \o <<line>>
    <3>1. Written(store, export, key) = [section |-> key[1], lines |-> export.lines \o header \o <<line>>]
      BY <1>9, Zenon DEF Written
    <3>. HIDE DEF more, export, header, line
    <3>. QED
      BY <1>1, <3>1
  <2>2. line \in FileLine /\ Header(key[1]) \in FileLine
    BY <1>9, LinesMade, Stores
  <2>3. export.lines \o header \in Seq(FileLine) /\ export.lines \in Seq(FileLine)
    <3>1. export.lines \in Seq(FileLine)
      BY <1>2 DEF WriteState
    <3>2. header \in Seq(FileLine)
      BY <2>2
    <3>. HIDE DEF header
    <3>. QED
      BY <3>1, <3>2, ConcatProperties
  <2>4. next = ReadLine(type, there, line)
    <3>. HIDE DEF header, line
    <3>1. Read(type, Start(d), export.lines \o header \o <<line>>) = ReadLine(type, there, line)
      BY <2>2, <2>3, ReadMore
    <3>. QED
      BY <2>1, <3>1
  <2>5. there = IF key[1] # export.section THEN ReadLine(type, read, Header(key[1])) ELSE read
    <3>1. CASE key[1] # export.section
      <4>1. header = <<Header(key[1])>>
        BY <3>1
      <4>. QED
        BY <2>2, <2>3, <3>1, <4>1, ReadMore
    <3>2. CASE key[1] = export.section
      <4>1. export.lines \o << >> = export.lines
        BY <2>3, ConcatEmptySeq
      <4>. QED
        BY <3>2, <4>1
    <3>. QED
      BY <3>1, <3>2
  <2>6. there \in ReadState(DOMAIN d)
    BY <1>4, <2>3, ReadStates
  <2>. HIDE DEF there, header, line, more, export, next, read
  <2>7. CASE ~Clean(store, keys)
    <3>1. read.rc # "SIRC_SUCCESS"
      BY <1>6, <2>7
    <3>2. there = read
      BY <2>5, <3>1, ReadLineEnded
    <3>3. next = read
      BY <2>4, <3>1, <3>2, ReadLineEnded
    <3>4. ~Clean(store, Append(keys, key))
      BY <2>7, CleanAppend
    <3>. QED
      BY <3>1, <3>3, <3>4
  <2>8. CASE Clean(store, keys) /\ key[1] = "" /\ key[1] # export.section
    <3>1. Named(store, keys) /\ Met(store, type, d, seen, export.section, read)
      BY <1>6, <2>8
    <3>2. ~Clean(store, Append(keys, key))
      BY <1>9, <2>8, <3>1, CleanAppend
    <3>3. read.rc = "SIRC_SUCCESS"
      BY <3>1 DEF Met
    <3>4. Header(key[1]).kind = "header" /\ Header(key[1]).section = ""
      BY <2>8 DEF Header, Line
    <3>5. there = Ended(read, "SIRC_SECTION_INVALID_FORMAT")
      <4>1. there = ReadLine(type, read, Header(key[1]))
        BY <2>5, <2>8
      <4>. QED
        BY <3>3, <3>4, <4>1, ReadLineNameless, Zenon
    <3>6. there.rc # "SIRC_SUCCESS"
      BY <1>5, <3>5 DEF Ended, ReadState
    <3>7. next = there
      BY <2>4, <3>6, ReadLineEnded
    <3>. QED
      BY <3>2, <3>6, <3>7
  <2>9. CASE Clean(store, keys) /\ (key[1] # "" \/ key[1] = export.section)
    <3>1. /\ export.section = "" <=> ~Named(store, keys)
          /\ Met(store, type, d, seen, export.section, read)
      BY <1>6, <2>9
    <3>2. Met(store, type, d, seen, key[1], there)
      <4>1. CASE key[1] = export.section
        BY <2>5, <3>1, <4>1
      <4>2. CASE key[1] # export.section
        <5>1. read.rc = "SIRC_SUCCESS"
          BY <3>1 DEF Met
        <5>2. Header(key[1]).kind = "header" /\ Header(key[1]).section = key[1] /\ key[1] # ""
          BY <2>9, <4>2 DEF Header, Line
        <5>3. there = InSection(read, key[1])
          <6>1. there = ReadLine(type, read, Header(key[1]))
            BY <2>5, <4>2
          <6>2. Header(key[1]).section # ""
            BY <5>2
          <6>3. ReadLine(type, read, Header(key[1])) = InSection(read, Header(key[1]).section)
            BY <5>1, <5>2, <6>2, ReadLineNamed, Zenon
          <6>. QED
            BY <5>2, <6>1, <6>3
        <5>. QED
          BY <1>5, <2>6, <3>1, <5>3 DEF Met, InSection, ReadState
      <4>. QED
        BY <4>1, <4>2
    <3>3. IF store[key].text = Word("") THEN next.rc # "SIRC_SUCCESS"
          ELSE Met(store, type, d, seen \cup {key}, key[1], next)
      BY <1>9, <2>4, <3>2, ReadOwnLine DEF line
    <3>4. Clean(store, Append(keys, key)) <=> store[key].text # Word("")
      BY <1>9, <2>9, <3>1, CleanAppend
    <3>5. store[key].text # Word("") => (key[1] = "" <=> ~Named(store, Append(keys, key)))
      BY <1>9, <2>9, <3>1, CleanAppend
    <3>. QED
      BY <2>1, <3>3, <3>4, <3>5
  <2>. QED
    BY <2>7, <2>8, <2>9
<1>. QED
  BY <1>8, <1>9

LEMMA ComesAll ==
  ASSUME NEW store \in Store, NEW type \in {"ALL", "ALL_EXCEPT_VERSION"}, NEW d \in Store
  PROVE  Comes(store, type, d, Sorted)
<1>. DEFINE good == {s \in Seq(Words \X Words) : Comes(store, type, d, s)}
<1>1. << >> \in good
  BY ComesFromNothing, EmptySeq
<1>2. ASSUME NEW s \in Seq(Words \X Words), NEW e \in Words \X Words, s \in good
      PROVE  Append(s, e) \in good
  BY <1>2, ComesFurther, AppendProperties
<1>. HIDE DEF good
<1>3. \A s \in Seq(Words \X Words) : s \in good
  BY <1>1, <1>2, Writing!SequencesInduct
<1>. QED
  BY <1>3, LibraryAssumption DEF good

-----------------------------------------------------------------------------
(* The invariant.                                                          *)

\* The file is unknown once the user has edited it, but it has lines: what is
\* known of a file is that it is what the export of the store made of it.
IInv ==
  /\ data \in Store
  /\ rc \in ReturnCode
  /\ different \in BOOLEAN
  /\ file = NoData \/ file \in Seq(FileLine)
  /\ kept # NoData => kept \in Store /\ file = Lines(kept)

LEMMA LinesExported ==
  ASSUME NEW store
  PROVE  Lines(store) = Exported(store, Sorted).lines
BY DEF Lines, Exported

LEMMA LinesType ==
  ASSUME NEW store \in Store
  PROVE  Lines(store) \in Seq(FileLine) /\ Lines(store) # NoData
<1>1. Exported(store, Sorted) \in WriteState
  BY ExportedState, LibraryAssumption
<1>2. Lines(store) \in Seq(FileLine)
  BY <1>1, LinesExported DEF WriteState
<1>. QED
  BY <1>2, LibraryAssumption

\* An import, as a fold.
Begin == [data |-> data, different |-> FALSE, section |-> "",
          rc |-> IF file = NoData THEN "SIRC_CANNOT_OPEN" ELSE "SIRC_SUCCESS"]
Imports(type) == Read(type, Begin, IF file = NoData THEN << >> ELSE file)

LEMMA ImportReads ==
  ASSUME NEW type, importSettingsFromFile(type)
  PROVE  /\ data' = IF Imports(type).rc = "throws" THEN << >> ELSE Imports(type).data
         /\ rc' = IF Imports(type).rc = "throws" THEN "0" ELSE Imports(type).rc
         /\ different' = Imports(type).different
         /\ UNCHANGED <<file, kept>>
<1>1. Imports(type) =
        FoldLeft(LAMBDA so_far, line : ReadLine(type, so_far, line),
                 [data |-> data, different |-> FALSE, section |-> "",
                  rc |-> IF file = NoData THEN "SIRC_CANNOT_OPEN" ELSE "SIRC_SUCCESS"],
                 IF file = NoData THEN << >> ELSE file)
  BY DEF Imports, Read, Begin
<1>. QED
  BY <1>1, Zenon DEF importSettingsFromFile

LEMMA ImportState ==
  ASSUME IInv, NEW type
  PROVE  /\ Begin \in ReadState(DOMAIN data)
         /\ Imports(type) \in ReadState(DOMAIN data)
         /\ type = "ALL_EXCEPT_VERSION" /\ Version \in DOMAIN data =>
              Imports(type).data[Version] = data[Version]
<1>1. Begin \in ReadState(DOMAIN data) /\ Begin.data = data
  BY Stores, LibraryAssumption DEF IInv, Begin, ReadState, ImportErrors
<1>2. PICK lines \in Seq(FileLine) : lines = IF file = NoData THEN << >> ELSE file
  BY EmptySeq DEF IInv
<1>3. Imports(type) = Read(type, Begin, lines)
  BY <1>2 DEF Imports
<1>. QED
  BY <1>1, <1>3, ReadStates

LEMMA IInvInit == Init => IInv
BY Stores DEF Init, IInv, ReturnCode

LEMMA IInvNext == IInv /\ [Next]_vars => IInv'
<1>. SUFFICES ASSUME IInv, [Next]_vars
              PROVE  IInv'
  OBVIOUS
<1>1. CASE Initialize
  <2>1. PICK all \in Initializers :
          LET init == FoldLeft(Added, [data |-> data, rc |-> "0"], all)
          IN init.rc # "throws" /\ data' = init.data /\ rc' = init.rc
    BY <1>1, Zenon DEF Initialize
  <2>2. data = << >> /\ UNCHANGED <<file, different, kept>>
    BY <1>1 DEF Initialize
  <2>. DEFINE init == Initialized([data |-> << >>, rc |-> "0"], all)
  <2>3. init.rc # "throws" /\ data' = init.data /\ rc' = init.rc
    BY <2>1, <2>2 DEF Initialized
  <2>4. init \in AddState
    BY InitializedState
  <2>. HIDE DEF init
  <2>. QED
    BY <2>2, <2>3, <2>4 DEF IInv, AddState, ReturnCode
<1>2. ASSUME NEW key \in Range(Sorted), NEW type \in Types, NEW text \in Given[type], Set(key, type, text)
      PROVE  IInv'
  <2>1. text \in Text /\ text = Got(type, text)
    BY RenderedOwn, LibraryAssumption
  <2>2. data' \in Store
    <3>1. CASE rc' = "0"
      <4>1. data' = [data EXCEPT ![key].text = text] /\ key \in DOMAIN data /\ data[key].type = type
        BY <1>2, <3>1 DEF Set, Access
      <4>2. data \in [DOMAIN data -> Setting] /\ DOMAIN data \in SUBSET Range(Sorted)
        BY Stores DEF IInv
      <4>3. [data[key] EXCEPT !.text = text] \in Setting
        BY <2>1, <4>1, <4>2 DEF Setting
      <4>4. data' \in [DOMAIN data -> Setting]
        BY <4>1, <4>2, <4>3
      <4>. QED
        BY <4>2, <4>4, Stores
    <3>2. CASE rc' # "0"
      BY <1>2, <3>2 DEF Set, IInv
    <3>. QED
      BY <3>1, <3>2
  <2>3. rc' \in ReturnCode
    BY <1>2 DEF Set, Access, ReturnCode
  <2>. QED
    BY <1>2, <2>2, <2>3 DEF Set, IInv
<1>3. ASSUME NEW overWriteIfExists \in BOOLEAN, saveSettingsToFile(overWriteIfExists)
      PROVE  IInv'
  <2>1. Lines(data) \in Seq(FileLine)
    BY LinesType DEF IInv
  <2>2. rc' \in ReturnCode
    BY <1>3 DEF saveSettingsToFile, ReturnCode
  <2>3. UNCHANGED <<file, kept>> \/ (file' = Lines(data) /\ kept' = data)
    BY <1>3 DEF saveSettingsToFile
  <2>4. UNCHANGED <<data, different>>
    BY <1>3 DEF saveSettingsToFile
  <2>. QED
    BY <2>1, <2>2, <2>3, <2>4 DEF IInv
<1>4. ASSUME NEW type \in ImportTypes, importSettingsFromFile(type)
      PROVE  IInv'
  <2>1. Imports(type) \in ReadState(DOMAIN data)
    BY ImportState
  <2>2. /\ data' = IF Imports(type).rc = "throws" THEN << >> ELSE Imports(type).data
        /\ rc' = IF Imports(type).rc = "throws" THEN "0" ELSE Imports(type).rc
        /\ different' = Imports(type).different
        /\ UNCHANGED <<file, kept>>
    BY <1>4, ImportReads
  <2>3. Imports(type).data \in Store /\ << >> \in Store
    BY <2>1, Stores DEF IInv, ReadState
  <2>4. rc' \in ReturnCode /\ different' \in BOOLEAN
    BY <2>1, <2>2 DEF ReadState, ReturnCode
  <2>. QED
    BY <2>2, <2>3, <2>4 DEF IInv
<1>5. CASE HandEdit
  BY <1>5, LibraryAssumption DEF HandEdit, IInv
<1>6. CASE End
  BY <1>6, Stores DEF End, IInv, ReturnCode
<1>7. CASE UNCHANGED vars
  BY <1>7 DEF vars, IInv
<1>. QED
  BY <1>1, <1>2, <1>3, <1>4, <1>5, <1>6, <1>7, Zenon DEF Next

LEMMA IInvAlways == Spec => []IInv
BY IInvInit, IInvNext, PTL DEF Spec

\* The store holds texts its getters give back exactly, whatever the setters, init
\* and the imports of settingsTV.cpp were called with and found in a file.
THEOREM TypeCorrect == Spec => []TypeOK
<1>1. IInv => TypeOK
  BY Stores DEF IInv, TypeOK, Setting
<1>. QED
  BY <1>1, IInvAlways, PTL

-----------------------------------------------------------------------------
(* What an import makes of the file the program saved.                     *)

LEMMA CleanAll ==
  ASSUME IInv, kept # NoData
  PROVE  Clean(kept, Sorted) <=> NoneEmpty /\ NoneNameless
<1>1. DOMAIN kept \subseteq Range(Sorted)
  BY Stores DEF IInv
<1>2. DOMAIN Sorted = 1..Len(Sorted)
  BY LibraryAssumption, LenProperties
<1>3. \A key \in DOMAIN kept : \E i \in 1..Len(Sorted) : Sorted[i] = key
  BY <1>1, <1>2 DEF Range
<1>4. NoneEmpty <=>
        \A i \in 1..Len(Sorted) : Sorted[i] \in DOMAIN kept => kept[Sorted[i]].text # Word("")
  BY <1>3, Zenon DEF NoneEmpty
<1>5. NoneNameless <=>
        \A i, j \in 1..Len(Sorted) :
          i < j /\ Sorted[i] \in DOMAIN kept /\ Sorted[j] \in DOMAIN kept /\ Sorted[j][1] = ""
            => Sorted[i][1] = ""
  BY DEF NoneNameless
<1>. QED
  BY <1>4, <1>5, Zenon DEF Clean

LEMMA ImportOfSaved ==
  ASSUME IInv, kept # NoData, NEW type \in {"ALL", "ALL_EXCEPT_VERSION"}, importSettingsFromFile(type)
  PROVE  /\ rc' = "SIRC_SUCCESS" <=> NoneEmpty /\ NoneNameless
         /\ rc' = "SIRC_SUCCESS" =>
              /\ data' = Seen(kept, type, data, Range(Sorted))
              /\ different' <=> Differs(kept, type, data, Range(Sorted))
<1>1. kept \in Store /\ data \in Store /\ file = Lines(kept)
  BY DEF IInv
<1>2. file # NoData
  BY <1>1, LinesType
<1>3. Begin = Start(data)
  BY <1>2 DEF Begin, Start
<1>4. Imports(type) = Read(type, Start(data), Exported(kept, Sorted).lines)
  BY <1>1, <1>2, <1>3, LinesExported DEF Imports
<1>5. Comes(kept, type, data, Sorted)
  BY <1>1, ComesAll
<1>6. IF Clean(kept, Sorted)
        THEN Met(kept, type, data, Range(Sorted), Exported(kept, Sorted).section, Imports(type))
        ELSE Imports(type).rc # "SIRC_SUCCESS"
  BY <1>4, <1>5, Zenon DEF Comes
<1>7. /\ data' = IF Imports(type).rc = "throws" THEN << >> ELSE Imports(type).data
      /\ rc' = IF Imports(type).rc = "throws" THEN "0" ELSE Imports(type).rc
      /\ different' = Imports(type).different
  BY ImportReads
<1>8. CASE Clean(kept, Sorted)
  <2>1. Met(kept, type, data, Range(Sorted), Exported(kept, Sorted).section, Imports(type))
    BY <1>6, <1>8
  <2>2. /\ Imports(type).rc = "SIRC_SUCCESS"
        /\ Imports(type).data = Seen(kept, type, data, Range(Sorted))
        /\ Imports(type).different <=> Differs(kept, type, data, Range(Sorted))
    BY <2>1 DEF Met
  <2>3. rc' = "SIRC_SUCCESS" /\ data' = Imports(type).data
    BY <1>7, <2>2
  <2>. QED
    BY <1>7, <1>8, <2>2, <2>3, CleanAll
<1>9. CASE ~Clean(kept, Sorted)
  <2>1. rc' # "SIRC_SUCCESS"
    BY <1>6, <1>7, <1>9
  <2>. QED
    BY <1>9, <2>1, CleanAll
<1>. QED
  BY <1>8, <1>9

\* A setting comes back as it was, but for a BOOL that was false.
LEMMA RereadKeeps ==
  ASSUME NEW s \in Setting
  PROVE  SavedFalse(s) \/ Reread(s) = s
<1>1. s.type \in Types /\ s.text \in Text /\ s.text = Got(s.type, s.text)
      /\ s = [type |-> s.type, text |-> s.text]
  BY DEF Setting
<1>2. CASE s.type = "BOOL"
  <2>1. s.text \in {Word("true"), Word("false")}
    BY <1>1, <1>2, OtherTexts
  <2>2. s.text = Word("true") => [s EXCEPT !.text = Word("true")] = s
    BY <1>1
  <2>. QED
    BY <1>2, <2>1, <2>2 DEF SavedFalse, Reread
<1>3. CASE s.type # "BOOL"
  BY <1>3 DEF Reread
<1>. QED
  BY <1>2, <1>3

\* The step of an import, as RoundTrip has it.
LEMMA RoundTripStep ==
  ASSUME IInv, Imported("ALL")
  PROVE  /\ NoneEmpty /\ NoneNameless => rc' = "SIRC_SUCCESS"
         /\ rc' = "SIRC_SUCCESS" =>
              /\ DOMAIN data' = DOMAIN data
              /\ \A key \in DOMAIN data :
                   IF key \in DOMAIN kept /\ kept[key].type = data[key].type
                     THEN SavedFalse(kept[key]) \/ data'[key] = kept[key]
                     ELSE data'[key] = data[key]
<1>1. kept # NoData /\ importSettingsFromFile("ALL")
  BY DEF Imported
<1>2. /\ rc' = "SIRC_SUCCESS" <=> NoneEmpty /\ NoneNameless
      /\ rc' = "SIRC_SUCCESS" => data' = Seen(kept, "ALL", data, Range(Sorted))
  BY <1>1, ImportOfSaved
<1>3. DOMAIN kept \subseteq Range(Sorted) /\ \A key \in DOMAIN kept : kept[key] \in Setting
  BY <1>1, Stores DEF IInv
<1>4. ASSUME NEW key \in DOMAIN data
      PROVE  LET seen == Seen(kept, "ALL", data, Range(Sorted))[key]
             IN IF key \in DOMAIN kept /\ kept[key].type = data[key].type
                  THEN SavedFalse(kept[key]) \/ seen = kept[key]
                  ELSE seen = data[key]
  <2>1. Seen(kept, "ALL", data, Range(Sorted))[key] =
          IF key \in DOMAIN kept /\ kept[key].type = data[key].type
            THEN Reread(kept[key]) ELSE data[key]
    BY <1>3 DEF Seen
  <2>. QED
    BY <1>3, <2>1, RereadKeeps
<1>5. DOMAIN Seen(kept, "ALL", data, Range(Sorted)) = DOMAIN data
  BY DEF Seen
<1>. QED
  BY <1>2, <1>4, <1>5

\* What saveSettingsToFile wrote, importSettingsFromFile gives back to every
\* setting of the same section, name and type whenever it returns success, and
\* leaves the others alone; and success it returns unless a text is empty or the
\* section "" comes behind another.  Of a BOOL saved false nothing is claimed.
THEOREM SavedComesBack == Spec => RoundTrip
<1>1. IInv /\ [Next]_vars => [Imported("ALL") =>
        /\ NoneEmpty /\ NoneNameless => rc' = "SIRC_SUCCESS"
        /\ rc' = "SIRC_SUCCESS" =>
             /\ DOMAIN data' = DOMAIN data
             /\ \A key \in DOMAIN data :
                  IF key \in DOMAIN kept /\ kept[key].type = data[key].type
                    THEN SavedFalse(kept[key]) \/ data'[key] = kept[key]
                    ELSE data'[key] = data[key]]_vars
  BY RoundTripStep
<1>. QED
  BY <1>1, IInvAlways, PTL DEF Spec, RoundTrip

\* The step of an import that spares the version, as VersionKept has it.
LEMMA VersionStep ==
  ASSUME IInv, importSettingsFromFile("ALL_EXCEPT_VERSION")
  PROVE  /\ Version \in DOMAIN data' => data'[Version] = data[Version]
         /\ kept # NoData /\ rc' = "SIRC_SUCCESS" /\ Version \in DOMAIN data \cap DOMAIN kept
              => (different' <=> Reread(kept[Version]) # data[Version])
<1>. DEFINE type == "ALL_EXCEPT_VERSION"
<1>1. Version \in DOMAIN data' => data'[Version] = data[Version]
  <2>1. data' = IF Imports(type).rc = "throws" THEN << >> ELSE Imports(type).data
    BY ImportReads
  <2>2. Imports(type) \in ReadState(DOMAIN data)
    BY ImportState
  <2>3. DOMAIN Imports(type).data = DOMAIN data /\ DOMAIN << >> = {}
    BY <2>2 DEF ReadState
  <2>4. Version \in DOMAIN data => Imports(type).data[Version] = data[Version]
    BY ImportState
  <2>. QED
    BY <2>1, <2>3, <2>4
<1>2. ASSUME kept # NoData, rc' = "SIRC_SUCCESS", Version \in DOMAIN data \cap DOMAIN kept
      PROVE  different' <=> Reread(kept[Version]) # data[Version]
  <2>1. different' <=> Differs(kept, type, data, Range(Sorted))
    BY <1>2, ImportOfSaved
  <2>2. Version \in Range(Sorted)
    BY <1>2, Stores DEF IInv
  <2>. QED
    BY <1>2, <2>1, <2>2 DEF Differs
<1>. QED
  BY <1>1, <1>2

\* importSettingsFromFile with IMPORT_ALL_EXCEPT_VERSION leaves the version alone,
\* and says in settingsVersionDifferent whether the one in the file is another.
THEOREM VersionStays == Spec => VersionKept
<1>1. IInv /\ [Next]_vars => [importSettingsFromFile("ALL_EXCEPT_VERSION") =>
        /\ Version \in DOMAIN data' => data'[Version] = data[Version]
        /\ kept # NoData /\ rc' = "SIRC_SUCCESS" /\ Version \in DOMAIN data \cap DOMAIN kept
             => (different' <=> Reread(kept[Version]) # data[Version])]_vars
  BY VersionStep
<1>. QED
  BY <1>1, IInvAlways, PTL DEF Spec, VersionKept
=============================================================================
