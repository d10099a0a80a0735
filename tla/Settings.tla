------------------------------- MODULE Settings -------------------------------
(***************************************************************************)
(* The properties pane (gui/PropertiesWnd.cpp) and the settings it keeps   *)
(* in a file through settingsTV (gui/settingsTV.cpp).                      *)
(*                                                                         *)
(* When the pane is made, the settings are initialized and the file is     *)
(* imported line by line; every Play and every Close writes all settings   *)
(* back, line by line after truncating the file, and endl flushes each     *)
(* line: a process that dies leaves the lines written so far.  While the   *)
(* program does not run the user may edit the file.                        *)
(*                                                                         *)
(* All settings of the program are in the section "" and are strings.  A   *)
(* value is written between quotes, with the quotes and backslashes in it  *)
(* escaped, and read back as it was, except for the empty one.             *)
(*                                                                         *)
(* An operator named A_Something, above A, is a seeded bug: a variant of A *)
(* that Next does not use, and that breaks one of the properties.          *)
(***************************************************************************)
EXTENDS Integers, Sequences

CONSTANTS
    Text,       \* the strings that occur as names and values
    Order,      \* the names of the settings, in the order of the data store
    Initial,    \* their values in the initializers
    Fallback,   \* what the pane shows when the import fails
    Choice,     \* the values the pane lets the user give a setting
    Address,    \* the settings that name an interface by its address
    FirstIf,    \* the address of the first interface
    Number,     \* what stoll makes of a string, for those it accepts
    Handmade,   \* files the user may leave
    NoFile,
    NoGrid

Unset == "0.0.0.0"

Key == {Order[i] : i \in 1 .. Len(Order)}

Grid == [Key -> Text]

\* A line of the file: a setting; a section header; nothing but a comment; or
\* anything the import refuses before it looks at the type (a header without
\* its bracket, too few items, an unknown type, a UTF-16 byte order mark).
Line == [kind : {"setting", "section", "comment", "broken"},
         name : Text, type : {"STR", "BOOL", "UI8", ""}, value : Text]

ASSUME SettingsAssumption ==
    /\ Order \in Seq(Text)
    /\ \A i, j \in 1 .. Len(Order) : Order[i] = Order[j] => i = j
    /\ Initial \in Grid /\ Fallback \in Grid
    /\ Choice \in [Key -> SUBSET Text]
    /\ Address \subseteq Key
    /\ FirstIf \in Text
    /\ \A s \in DOMAIN Number : Number[s] \in Int
    /\ Handmade \subseteq Seq(Line)
    /\ NoFile \notin Seq(Line)
    /\ NoGrid \notin Grid

VARIABLES
    pane,        \* what the program is doing with the settings
    store,       \* the data store of settingsTV
    file,        \* the lines of the settings file
    at,          \* the line that is read or written next
    in_section,  \* the import is past a section header
    imported,    \* the import returned SIRC_SUCCESS
    grid,        \* the values the pane shows
    \* history
    written,     \* the settings last put in the file, unless the user edited it
    whole        \* all of them

vars == <<pane, store, file, at, in_section, imported, grid, written, whole>>

-----------------------------------------------------------------------------
Init ==
    /\ pane = "closed"
    /\ store = Initial
    /\ file = NoFile
    /\ at = 1
    /\ in_section = FALSE
    /\ imported = FALSE
    /\ grid = Fallback
    /\ written = NoGrid
    /\ whole = FALSE

\* The constructor of the pane.
Construct ==
    /\ pane = "closed"
    /\ pane' = "constructed"
    /\ store' = Initial
    /\ UNCHANGED <<file, at, in_section, imported, grid, written, whole>>

\* LoadSettings up to the first line.
BeginImport ==
    /\ pane = "constructed"
    /\ pane' = IF file = NoFile THEN "loaded" ELSE "importing"
    /\ imported' = FALSE
    /\ at' = 1
    /\ in_section' = FALSE
    /\ UNCHANGED <<store, file, grid, written, whole>>

\* An empty value ends the line: what is left has too few items.
Malformed(line) ==
    line.kind = "broken" \/ (line.kind = "setting" /\ line.value = "")

\* stoll throws on a value that does not begin with a number.
Throws(line) == line.kind = "setting" /\ line.type = "UI8" /\ line.value \notin DOMAIN Number

\* valueStringMatchesType, of one numeric type for all that are checked.
Mismatched(line) ==
    /\ line.kind = "setting"
    /\ \/ line.type = "BOOL" /\ line.value \notin {"true", "TRUE", "false", "FALSE"}
       \/ line.type = "UI8" /\ ~Throws(line) /\ Number[line.value] \notin 0 .. 255

\* A setting of the program, with the type it has there.
Known(line) ==
    line.kind = "setting" /\ line.name \in Key /\ line.type = "STR" /\ ~in_section

Importing ==
    /\ pane = "importing"
    /\ at <= Len(file)
    /\ UNCHANGED <<file, grid, written, whole>>

\* A line too many is skipped.
ImportLine_Past ==
    /\ Importing
    /\ ~Malformed(file[at]) /\ ~Throws(file[at]) /\ ~Mismatched(file[at])
    /\ at' = at + 2
    /\ in_section' = (in_section \/ file[at].kind = "section")
    /\ store' = IF Known(file[at])
                  THEN [store EXCEPT ![file[at].name] = file[at].value] ELSE store
    /\ UNCHANGED <<pane, imported>>

\* The import takes a line, or passes over it.
ImportLine ==
    /\ Importing
    /\ ~Malformed(file[at]) /\ ~Throws(file[at]) /\ ~Mismatched(file[at])
    /\ at' = at + 1
    /\ in_section' = (in_section \/ file[at].kind = "section")
    /\ store' = IF Known(file[at])
                  THEN [store EXCEPT ![file[at].name] = file[at].value] ELSE store
    /\ UNCHANGED <<pane, imported>>

\* The import returns with an error; the lines before stay imported.
RefuseLine ==
    /\ Importing
    /\ Malformed(file[at]) \/ Mismatched(file[at])
    /\ pane' = "loaded"
    /\ UNCHANGED <<store, at, in_section, imported>>

\* Nobody catches what stoll throws: the program ends.
ThrowLine ==
    /\ Importing
    /\ ~Malformed(file[at]) /\ Throws(file[at])
    /\ pane' = "closed"
    /\ UNCHANGED <<store, at, in_section, imported>>

EndImport ==
    /\ pane = "importing"
    /\ at > Len(file)
    /\ pane' = "loaded"
    /\ imported' = TRUE
    /\ UNCHANGED <<store, file, at, in_section, grid, written, whole>>

\* A setting in the pane: the first interface stands for none.
Shown(k, value) == IF k \in Address /\ value = Unset THEN FirstIf ELSE value

\* InitPropList: the settings, or the fallback when LoadSettings failed.
Show ==
    /\ pane = "loaded"
    /\ pane' = "open"
    /\ grid' = [k \in Key |-> Shown(k, IF imported THEN store[k] ELSE Fallback[k])]
    /\ UNCHANGED <<store, file, at, in_section, imported, written, whole>>

\* The user gives a setting another value.
Choose(k) ==
    /\ pane = "open"
    /\ \E value \in Choice[k] : grid' = [grid EXCEPT ![k] = value]
    /\ UNCHANGED <<pane, store, file, at, in_section, imported, written, whole>>

\* The getters of the pane: the text in the cell of a setting.
GetValue(k) == grid[k]

\* SaveSettings, on Play and on Close, up to the opening of the file.
SaveSettings ==
    /\ pane = "open"
    /\ pane' = "saving"
    /\ store' = [k \in Key |-> GetValue(k)]
    /\ UNCHANGED <<file, at, in_section, imported, grid, written, whole>>

\* The file is opened for writing at its end.
OpenFile_Appending ==
    /\ pane = "saving"
    /\ pane' = "writing"
    /\ file' = IF file = NoFile THEN << >> ELSE file
    /\ at' = 1
    /\ written' = store
    /\ whole' = FALSE
    /\ UNCHANGED <<store, in_section, imported, grid>>

\* The file is opened and truncated, or it cannot be opened: the callers of
\* SaveSettings go on either way.
OpenFile ==
    /\ pane = "saving"
    /\ \/ /\ pane' = "writing"
          /\ file' = << >>
          /\ at' = 1
          /\ written' = store
          /\ whole' = FALSE
       \/ /\ pane' = "open"
          /\ UNCHANGED <<file, at, written, whole>>
    /\ UNCHANGED <<store, in_section, imported, grid>>

SettingLine(k, value) == [kind |-> "setting", name |-> k, type |-> "STR", value |-> value]

\* saveSettingsToFile writes and flushes a line.
WriteSetting ==
    /\ pane = "writing"
    /\ at <= Len(Order)
    /\ at' = at + 1
    /\ file' = Append(file, SettingLine(Order[at], store[Order[at]]))
    /\ UNCHANGED <<pane, store, in_section, imported, grid, written, whole>>

\* The loop over the data store ends one setting short.
CloseFile_Early ==
    /\ pane = "writing"
    /\ at >= Len(Order)
    /\ pane' = "open"
    /\ whole' = TRUE
    /\ UNCHANGED <<store, file, at, in_section, imported, grid, written>>

CloseFile ==
    /\ pane = "writing"
    /\ at > Len(Order)
    /\ pane' = "open"
    /\ whole' = TRUE
    /\ UNCHANGED <<store, file, at, in_section, imported, grid, written>>

\* The process ends, of itself or not.
Exit ==
    /\ pane # "closed"
    /\ pane' = "closed"
    /\ UNCHANGED <<store, file, at, in_section, imported, grid, written, whole>>

HandEdit ==
    /\ pane = "closed"
    /\ file' \in Handmade
    /\ written' = NoGrid
    /\ whole' = FALSE
    /\ UNCHANGED <<pane, store, at, in_section, imported, grid>>

Next ==
    \/ Construct \/ BeginImport \/ ImportLine \/ RefuseLine \/ ThrowLine \/ EndImport
    \/ Show \/ (\E k \in Key : Choose(k))
    \/ SaveSettings \/ OpenFile \/ WriteSetting \/ CloseFile
    \/ Exit \/ HandEdit

Spec == Init /\ [][Next]_vars

-----------------------------------------------------------------------------
\* Every variable stays in its type; a line that is read is in the file, or
\* the one after the last.
TypeOK ==
    /\ pane \in {"closed", "constructed", "importing", "loaded", "open", "saving", "writing"}
    /\ store \in Grid
    /\ file \in Seq(Line) \cup {NoFile}
    /\ at \in Nat \ {0}
    /\ pane \in {"importing", "writing"} => file # NoFile
    /\ pane = "importing" => at <= Len(file) + 1
    /\ in_section \in BOOLEAN
    /\ imported \in BOOLEAN
    /\ grid \in Grid
    /\ written \in Grid \cup {NoGrid}
    /\ whole \in BOOLEAN

NoneEmpty(settings) == settings # NoGrid /\ \A k \in Key : settings[k] # ""

\* The settings last saved are the ones the pane shows at the next start,
\* however often it was started, failed to save or was killed in between,
\* provided that none of them is empty and the user left the file alone.
SavedIsShown ==
    [][Show /\ whole /\ NoneEmpty(written)
        => grid' = [k \in Key |-> Shown(k, written[k])]]_vars

\* A save that broke off keeps its word as far as it got: the pane shows the
\* new values of the first settings and the initial ones of the rest.
TornSaveShown ==
    [][Show /\ NoneEmpty(written)
        => \E m \in 0 .. Len(Order) : \A i \in 1 .. Len(Order) :
            grid'[Order[i]] =
                Shown(Order[i], IF i <= m THEN written[Order[i]] ELSE Initial[Order[i]])]_vars

\* "Save settings.", an entry of the change log: what was saved is shown.
SettingsKept ==
    [][Show /\ whole => grid' = [k \in Key |-> Shown(k, written[k])]]_vars
=============================================================================
