---------------------------- MODULE TypedSettings ----------------------------
(***************************************************************************)
(* The library settingsTV (gui/settingsTV.cpp) as any program may use it:  *)
(* settings of all its types in sections, the typed getters and setters,   *)
(* export, and the three ways of import.  Settings is what this program    *)
(* makes of it, with strings only and a file that is read and written line *)
(* by line; here each call is one step.                                    *)
(*                                                                         *)
(* A value is the text the store and the file hold.  Of a text matters     *)
(* whether it is a number, a number with something behind it ("12abc"), or *)
(* a word.  Doubles are rendered with as many digits as they need and      *)
(* stand for themselves.  Names are single words.                          *)
(*                                                                         *)
(* An operator named A_Something, above A, is a seeded bug: a variant of A *)
(* that Next does not use, and that breaks one of the properties.          *)
(***************************************************************************)
EXTENDS Integers, SequencesExt

CONSTANTS
    Words,         \* the words of names, types and texts
    Size,          \* how many numbers each type of whole numbers has
    Initializers,  \* the arrays init may be called with
    Spaced,        \* of the names with blanks at an end: what is left without
    Given,         \* the values the setters of each type are called with
    Sorted,        \* the keys <<section, name>>, as the map sorts "section.name"
    Version,       \* the setting ".SettingsVersion" in section ""
    Refused,       \* what the callback of an import refuses
    Handmade,      \* files the user may leave
    NoData

\* Settings types: the whole numbers, those of them whose range is checked.
Whole == {"UI8", "UI16", "UI32", "UI64", "I8", "I16", "I32", "I64"}
Checked == Whole \ {"UI64", "I64"}
Types == Whole \cup {"BOOL", "DBL", "STR"}

Unsigned(type) == type \in {"UI8", "UI16", "UI32", "UI64"}

\* A text: a number, a number with something behind it, a word.
Text == [form : {"number", "soiled", "word"}, n : Int, word : Words]

Number(i) == [form |-> "number", n |-> i, word |-> ""]
Word(w) == [form |-> "word", n |-> 0, word |-> w]
Truth == {Word("true"), Word("TRUE")}
Falsehood == {Word("false"), Word("FALSE")}

ImportTypes == {"ALL", "ALL_EXCEPT_VERSION", "CALLBACK", "NO_CALLBACK"}

ImportErrors == {"SIRC_SUCCESS", "SIRC_CANNOT_OPEN", "SIRC_SECTION_INVALID_FORMAT",
                 "SIRC_PARAMETER_INVALID_FORMAT", "SIRC_CALLBACK_NOT_VALID",
                 "SIRC_CALLBACK_RETURNED_ERROR"}

\* What the calls return: an init, a setter, an export, an import.
ReturnCode == {"0", "-1", "-2", "1", "10", "SERC_SUCCESS", "SERC_FILE_EXISTS",
               "SERC_FILE_CANNOT_OPEN"} \cup ImportErrors

VARIABLES
    data,       \* the data store: the type and the text of a setting, by its key
    file,       \* the lines of the file; NoData if there is none
    rc,         \* what the last call returned
    different,  \* settingsVersionDifferent of the last import
    kept        \* history: the store last saved, NoData if the user edited the file

vars == <<data, file, rc, different, kept>>

-----------------------------------------------------------------------------
(* Texts and types.                                                        *)

Low(type) == IF Unsigned(type) THEN 0 ELSE -(Size[type] \div 2)
High(type) == Low(type) + Size[type] - 1

\* The cast of a 64-bit number to a type.
Cast(type, i) == Low(type) + ((i - Low(type)) % Size[type])

\* atoll stops at the largest number; so does the stream that reads a UI64,
\* but it takes a negative number for its complement.
Parsed(type, text) ==
    IF type = "UI64"
      THEN IF text.n \in -High(type) .. High(type) THEN Cast(type, text.n) ELSE High(type)
      ELSE CASE text.n < Low("I64") -> Low("I64")
             [] text.n > High("I64") -> High("I64")
             [] OTHER -> text.n

\* stoll takes no word, and no number beyond 64 bits.
StollThrows(type, text) ==
    type \in Checked /\ (text.form = "word" \/ text.n \notin Low("I64") .. High("I64"))

valueStringMatchesType(type, text) ==
    /\ type \in Types
    /\ type = "BOOL" => text \in Truth \cup Falsehood
    /\ type \in Checked => text.n \in Low(type) .. High(type)

\* Texts of whole numbers are stored as they were found.
sanitizeValueString_Raw(type, text) ==
    CASE type \in Whole -> text
      [] type = "BOOL" -> Word("true")
      [] type = "DBL" -> Number(text.n)
      [] type = "STR" -> text

\* A BOOL that is not FALSE is made false, and then one that is not TRUE is
\* made true: true is what remains.
sanitizeValueString(type, text) ==
    CASE type \in Whole -> Number(Cast(type, Parsed(type, text)))
      [] type = "BOOL" -> Word("true")
      [] type = "DBL" -> Number(text.n)
      [] type = "STR" -> text

\* What the setters of a type make of their argument.
Rendered(type) ==
    CASE type \in Whole -> {Number(i) : i \in Low(type) .. High(type)}
      [] type = "BOOL" -> {Word("true"), Word("false")}
      [] type = "DBL" -> {text \in Text : text = Number(text.n)}
      [] type = "STR" -> Text

\* DEL_LEADING_TRAILING_SPACES_TABS.
Trimmed(name) == IF name \in DOMAIN Spaced THEN Spaced[name] ELSE name

TrimmedKey(key) == <<Trimmed(key[1]), Trimmed(key[2])>>

Initializer == [key : Words \X Words, type : Words, text : Text]

\* A line of the file; "broken" is one that the import refuses at sight.
FileLine == [kind : {"header", "setting", "broken"},
             section : Words, name : Words, type : Words, text : Text]

\* Each type holds all numbers of one kind; those that are checked fit in 64
\* bits with a sign.
ASSUME LibraryAssumption ==
    /\ Types \cup {"", "true", "false", "TRUE", "FALSE"} \subseteq Words
    /\ \A type \in Whole : Size[type] \in Nat \ {0} /\ Size[type] = 2 * (Size[type] \div 2)
    /\ \A type \in Checked : Size[type] <= Size["I64"] \div 2
    /\ Sorted \in Seq(Words \X Words)
    /\ \A all \in Initializers :
         /\ all \in Seq(Initializer)
         /\ \A i \in DOMAIN all : Trimmed(all[i].key[2]) # "" => TrimmedKey(all[i].key) \in Range(Sorted)
    /\ \A type \in Types : Given[type] \subseteq Rendered(type)
    /\ Handmade \subseteq Seq(FileLine)
    /\ NoData \notin Seq(FileLine)

-----------------------------------------------------------------------------
(* The constructor, init, the getters, the setters, the end of the process. *)

Init ==
    /\ data = << >>
    /\ file = NoData
    /\ rc = "0"
    /\ different = FALSE
    /\ kept = NoData

\* An initializer is added to the store, or ends init with an error.
Added(all, s) ==
    LET key == TrimmedKey(s.key)
        type == Trimmed(s.type)
    IN CASE all.rc # "0" -> all
         [] all.rc = "0" /\ key[2] = "" -> [all EXCEPT !.rc = "-1"]
         [] all.rc = "0" /\ key[2] # "" /\ StollThrows(type, s.text) -> [all EXCEPT !.rc = "throws"]
         [] all.rc = "0" /\ key[2] # "" /\ ~StollThrows(type, s.text) ->
              IF valueStringMatchesType(type, s.text)
                THEN LET new == [type |-> type, text |-> sanitizeValueString(type, s.text)]
                     IN [all EXCEPT !.data =
                           [k \in DOMAIN @ \cup {key} |-> IF k = key THEN new ELSE @[k]]]
                ELSE [all EXCEPT !.rc = "-2"]

\* init, unless stoll throws out of it: then the process ends before it began.
Initialize ==
    /\ data = << >>
    /\ \E all \in Initializers :
         LET init == FoldLeft(Added, [data |-> data, rc |-> "0"], all)
         IN /\ init.rc # "throws"
            /\ data' = init.data
            /\ rc' = init.rc
    /\ UNCHANGED <<file, different, kept>>

\* What a getter or a setter of a type returns: 1 without such a setting, 10
\* if it has another type.
Access(key, type) ==
    IF key \notin DOMAIN data THEN "1" ELSE IF data[key].type # type THEN "10" ELSE "0"

\* What the getter of its type makes of a text.
Got(type, text) ==
    CASE type \in Whole -> Number(Cast(type, Parsed(type, text)))
      [] type = "BOOL" -> Word(IF text \in Truth THEN "true" ELSE "false")
      [] type = "DBL" -> Number(text.n)
      [] type = "STR" -> text

Set(key, type, text) ==
    /\ rc' = Access(key, type)
    /\ data' = IF rc' = "0" THEN [data EXCEPT ![key].text = text] ELSE data
    /\ UNCHANGED <<file, different, kept>>

End ==
    /\ data' = << >>
    /\ rc' = "0"
    /\ UNCHANGED <<file, different, kept>>

-----------------------------------------------------------------------------
(* Export.                                                                 *)

Line(kind, section, name, type, text) ==
    [kind |-> kind, section |-> section, name |-> name, type |-> type, text |-> text]

\* The line of a setting; a string goes between quotes.
SettingLine(key, setting) == Line("setting", "", key[2], setting.type, setting.text)

Header(section) == Line("header", section, "", "", Word(""))

\* A section is named when a line is the first to leave "".
Written_FirstHeader(store, so_far, key) ==
    IF key \notin DOMAIN store THEN so_far
    ELSE [section |-> key[1],
          lines |-> so_far.lines
             \o (IF key[1] # "" /\ so_far.section = "" THEN <<Header(key[1])>> ELSE << >>)
             \o <<SettingLine(key, store[key])>>]

\* What a setting adds to the file: a section is named where it begins.
Written(store, so_far, key) ==
    IF key \notin DOMAIN store THEN so_far
    ELSE [section |-> key[1],
          lines |-> so_far.lines
             \o (IF key[1] # so_far.section THEN <<Header(key[1])>> ELSE << >>)
             \o <<SettingLine(key, store[key])>>]

\* The file begins in section "".
Lines(store) ==
    FoldLeft(LAMBDA so_far, key : Written(store, so_far, key),
             [section |-> "", lines |-> << >>], Sorted).lines

saveSettingsToFile(overWriteIfExists) ==
    /\ IF file # NoData /\ ~overWriteIfExists
         THEN rc' = "SERC_FILE_EXISTS" /\ UNCHANGED <<file, kept>>
         ELSE \/ rc' = "SERC_FILE_CANNOT_OPEN" /\ UNCHANGED <<file, kept>>
              \/ rc' = "SERC_SUCCESS" /\ file' = Lines(data) /\ kept' = data
    /\ UNCHANGED <<data, different>>

-----------------------------------------------------------------------------
(* Import.  What has been read: the store and the flag so far, the section *)
(* of the line, and SIRC_SUCCESS unless a line ended it.                   *)

\* The version is taken like any other setting.
Stored_Version(type, read, key, line) ==
    IF key \notin DOMAIN read.data \/ read.data[key].type # line.type
      THEN read
      ELSE [read EXCEPT !.data[key].text = sanitizeValueString(line.type, line.text)]

\* A setting the program has too, of the same type.
Stored(type, read, key, line) ==
    LET text == sanitizeValueString(line.type, line.text)
    IN IF key \notin DOMAIN read.data THEN read
       ELSE IF type = "ALL_EXCEPT_VERSION" /\ key = Version
         THEN [read EXCEPT !.different = @ \/ read.data[key] # [type |-> line.type, text |-> text]]
       ELSE IF read.data[key].type # line.type THEN read
       ELSE [read EXCEPT !.data[key].text = text]

Callback(type, read, key) ==
    CASE type = "NO_CALLBACK" -> [read EXCEPT !.rc = "SIRC_CALLBACK_NOT_VALID"]
      [] type = "CALLBACK" /\ key \in Refused -> [read EXCEPT !.rc = "SIRC_CALLBACK_RETURNED_ERROR"]
      [] OTHER -> read

\* An empty text ends the line before its third item.
Malformed(line) ==
    \/ line.kind = "broken"
    \/ line.kind = "setting" /\ (line.text = Word("") \/ line.type \notin Types)

ReadLine(type, read, line) ==
    CASE read.rc # "SIRC_SUCCESS" -> read
      [] read.rc = "SIRC_SUCCESS" /\ line.kind = "header" ->
           IF line.section = "" THEN [read EXCEPT !.rc = "SIRC_SECTION_INVALID_FORMAT"]
                                ELSE [read EXCEPT !.section = line.section]
      [] read.rc = "SIRC_SUCCESS" /\ line.kind # "header" ->
           IF Malformed(line) THEN [read EXCEPT !.rc = "SIRC_PARAMETER_INVALID_FORMAT"]
           ELSE IF StollThrows(line.type, line.text) THEN [read EXCEPT !.rc = "throws"]
           ELSE IF ~valueStringMatchesType(line.type, line.text)
             THEN [read EXCEPT !.rc = "SIRC_PARAMETER_INVALID_FORMAT"]
           ELSE IF type \in {"ALL", "ALL_EXCEPT_VERSION"}
             THEN Stored(type, read, <<read.section, line.name>>, line)
             ELSE Callback(type, read, <<read.section, line.name>>)

\* The lines before an error stay imported; what stoll throws ends the process.
importSettingsFromFile(type) ==
    LET start == [data |-> data, different |-> FALSE, section |-> "",
                  rc |-> IF file = NoData THEN "SIRC_CANNOT_OPEN" ELSE "SIRC_SUCCESS"]
        read == FoldLeft(LAMBDA so_far, line : ReadLine(type, so_far, line), start,
                         IF file = NoData THEN << >> ELSE file)
    IN /\ data' = IF read.rc = "throws" THEN << >> ELSE read.data
       /\ rc' = IF read.rc = "throws" THEN "0" ELSE read.rc
       /\ different' = read.different
       /\ UNCHANGED <<file, kept>>

HandEdit ==
    /\ file' \in Handmade
    /\ kept' = NoData
    /\ UNCHANGED <<data, rc, different>>

Next ==
    \/ Initialize
    \/ \E key \in Range(Sorted), type \in Types : \E text \in Given[type] : Set(key, type, text)
    \/ \E overWriteIfExists \in BOOLEAN : saveSettingsToFile(overWriteIfExists)
    \/ \E type \in ImportTypes : importSettingsFromFile(type)
    \/ HandEdit
    \/ End

Spec == Init /\ [][Next]_vars

-----------------------------------------------------------------------------
\* The store holds texts its getters give back exactly: whatever was given to
\* init, found in a file or handed to a setter, no number is cut to its type
\* when it is read, and no BOOL is neither true nor false.
TypeOK ==
    /\ DOMAIN data \subseteq Range(Sorted)
    /\ \A key \in DOMAIN data :
         /\ data[key].type \in Types
         /\ data[key].text = Got(data[key].type, data[key].text)
    /\ rc \in ReturnCode
    /\ different \in BOOLEAN

NoneEmpty == \A key \in DOMAIN kept : kept[key].text # Word("")

\* No setting without a section follows one that has a section.
NoneNameless ==
    \A i, j \in 1 .. Len(Sorted) :
        i < j /\ {Sorted[i], Sorted[j]} \subseteq DOMAIN kept /\ Sorted[j][1] = ""
          => Sorted[i][1] = ""

SavedFalse(setting) == setting.type = "BOOL" /\ setting.text = Word("false")

\* What an import makes of a saved setting: a BOOL comes back true.
Reread(setting) ==
    IF setting.type = "BOOL" THEN [setting EXCEPT !.text = Word("true")] ELSE setting

Imported(type) == importSettingsFromFile(type) /\ kept # NoData

\* What was saved comes back, in any section, to every setting a program
\* still has with the same type, and changes no other, whenever the import
\* says it succeeded; and it does succeed on what was saved.  The property is
\* silent where the code breaks this promise: on a BOOL that was saved false
\* (sanitizeValueString makes it true, against settingsTV.h:77-78), and on
\* whether an import succeeds after an empty string was saved, or after a
\* setting without a section that the map sorts behind one with a section
\* (the header [] is written but not read, against settingsTV.h:51).
RoundTrip ==
    [][Imported("ALL") =>
        /\ NoneEmpty /\ NoneNameless => rc' = "SIRC_SUCCESS"
        /\ rc' = "SIRC_SUCCESS" =>
             /\ DOMAIN data' = DOMAIN data
             /\ \A key \in DOMAIN data :
                  IF key \in DOMAIN kept /\ kept[key].type = data[key].type
                    THEN SavedFalse(kept[key]) \/ data'[key] = kept[key]
                    ELSE data'[key] = data[key]]_vars

\* "It will not update that setting in the application", and "if the settings
\* version in the file is different than the current application version,
\* then the return value of settingsVersionDifferent arg is set to true".
VersionKept ==
    [][importSettingsFromFile("ALL_EXCEPT_VERSION") =>
        /\ Version \in DOMAIN data' => data'[Version] = data[Version]
        /\ kept # NoData /\ rc' = "SIRC_SUCCESS" /\ Version \in DOMAIN data \cap DOMAIN kept
             => (different' <=> Reread(kept[Version]) # data[Version])]_vars
=============================================================================
