---------------------------- MODULE Settings_proofs ----------------------------
(* Theorems about Settings, for any settings, values and hand-made files. *)
EXTENDS Settings, TLAPS

-----------------------------------------------------------------------------
(* Types.                                                                  *)

\* The constants in the form the steps below use them.
LEMMA Constants ==
  /\ Len(Order) \in Nat
  /\ \A i \in 1 .. Len(Order) : Order[i] \in Key /\ Order[i] \in Text
  /\ \A k \in Key : Shown(k, Fallback[k]) \in Text
  /\ \A k \in Key, s \in Text : Shown(k, s) \in Text
<1>1. /\ Order \in Seq(Text) /\ Fallback \in [Key -> Text] /\ FirstIf \in Text
  BY SettingsAssumption DEF Grid
<1>2. \A i \in 1 .. Len(Order) : Order[i] \in Key /\ Order[i] \in Text
  BY <1>1 DEF Key
<1> QED
  BY <1>1, <1>2 DEF Shown

\* The settings have types at the start.
LEMMA TypeInit == Init => TypeOK
<1> SUFFICES ASSUME Init PROVE TypeOK
  OBVIOUS
<1>1. store \in Grid /\ grid \in Grid
  BY SettingsAssumption DEF Init
<1>2. file \in Seq(Line) \cup {NoFile} /\ written \in Grid \cup {NoGrid}
  BY DEF Init
<1>3. at \in Nat \ {0}
  BY DEF Init
<1> QED
  BY <1>1, <1>2, <1>3 DEF Init, TypeOK

\* A step keeps every type.
LEMMA TypeStep == TypeOK /\ [Next]_vars => TypeOK'
<1> SUFFICES ASSUME TypeOK, [Next]_vars PROVE TypeOK'
  OBVIOUS
<1> USE DEF TypeOK
<1>1. CASE Construct
  BY <1>1, SettingsAssumption DEF Construct
<1>2. CASE BeginImport
  <2>1. pane' = "importing" => file' # NoFile /\ file' \in Seq(Line) /\ Len(file') \in Nat
    BY <1>2 DEF BeginImport
  <2>2. at' = 1
    BY <1>2 DEF BeginImport
  <2>3. pane' = "importing" => at' <= Len(file') + 1
    BY <2>1, <2>2
  <2>4. at' \in Nat \ {0}
    BY <2>2
  <2> QED
    BY <1>2, <2>1, <2>3, <2>4 DEF BeginImport
<1>3. CASE ImportLine
  <2>1. file \in Seq(Line) /\ at \in 1 .. Len(file)
    BY <1>3 DEF ImportLine, Importing
  <2>2. file[at] \in Line
    BY <2>1
  <2>3. file[at].value \in Text
    BY <2>2 DEF Line
  <2>4. store' \in Grid
    BY <1>3, <2>3 DEF ImportLine, Grid
  <2>5. at' \in Nat \ {0} /\ at' <= Len(file') + 1 /\ file' # NoFile
    BY <1>3, <2>1 DEF ImportLine, Importing
  <2>6. in_section' \in BOOLEAN
    BY <1>3 DEF ImportLine
  <2> QED
    BY <1>3, <2>4, <2>5, <2>6 DEF ImportLine, Importing
<1>4. CASE RefuseLine
  BY <1>4 DEF RefuseLine, Importing
<1>5. CASE ThrowLine
  BY <1>5 DEF ThrowLine, Importing
<1>6. CASE EndImport
  BY <1>6 DEF EndImport
<1>7. CASE Show
  <2>1. grid' \in Grid
    BY <1>7, Constants DEF Show, Grid
  <2> QED
    BY <1>7, <2>1 DEF Show
<1>8. CASE \E k \in Key : Choose(k)
  <2>1. PICK k \in Key : Choose(k)
    BY <1>8
  <2>2. Choice[k] \subseteq Text
    BY SettingsAssumption
  <2>3. grid' \in Grid
    BY <2>1, <2>2 DEF Choose, Grid
  <2> QED
    BY <2>1, <2>3 DEF Choose
<1>9. CASE SaveSettings
  BY <1>9 DEF SaveSettings, GetValue, Grid
<1>10. CASE OpenFile
  <2>1. CASE pane' = "writing"
    <3>1. file' = << >> /\ at' = 1 /\ written' = store
      BY <1>10, <2>1 DEF OpenFile
    <3>2. << >> \in Seq(Line)
      OBVIOUS
    <3>4. << >> # NoFile
      BY <3>2, SettingsAssumption
    <3>3. at' \in Nat \ {0}
      BY <3>1
    <3> QED
      BY <1>10, <2>1, <3>1, <3>2, <3>3, <3>4 DEF OpenFile
  <2>2. CASE pane' # "writing"
    BY <1>10, <2>2 DEF OpenFile
  <2> QED
    BY <2>1, <2>2
<1>11. CASE WriteSetting
  <2>1. at \in 1 .. Len(Order) /\ Order[at] \in Key /\ Order[at] \in Text
    BY <1>11, Constants DEF WriteSetting
  <2>2. SettingLine(Order[at], store[Order[at]]) \in Line
    BY <2>1 DEF SettingLine, Line, Grid
  <2>3. file \in Seq(Line)
    BY <1>11 DEF WriteSetting
  <2>4. file' \in Seq(Line) /\ file' # NoFile
    BY <1>11, <2>2, <2>3, SettingsAssumption DEF WriteSetting
  <2>5. at' \in Nat \ {0}
    BY <1>11 DEF WriteSetting
  <2> QED
    BY <1>11, <2>4, <2>5 DEF WriteSetting
<1>12. CASE CloseFile
  BY <1>12 DEF CloseFile
<1>13. CASE Exit
  BY <1>13 DEF Exit
<1>14. CASE HandEdit
  BY <1>14, SettingsAssumption DEF HandEdit
<1>15. CASE UNCHANGED vars
  BY <1>15 DEF vars
<1> QED
  BY <1>1, <1>2, <1>3, <1>4, <1>5, <1>6, <1>7, <1>8, <1>9, <1>10, <1>11, <1>12,
     <1>13, <1>14, <1>15 DEF Next

\* Every variable of the settings stays in its type.
THEOREM TypeCorrect == Spec => []TypeOK
<1> QED
  BY TypeInit, TypeStep, PTL DEF Spec

-----------------------------------------------------------------------------
(* The file.  Unless the user edited it, it is the beginning of an export  *)
(* of the settings in `written'.                                           *)

FileInv ==
    /\ written # NoGrid =>
        /\ file # NoFile
        /\ Len(file) <= Len(Order)
        /\ \A i \in 1 .. Len(file) : file[i] = SettingLine(Order[i], written[Order[i]])
    /\ whole => written # NoGrid /\ Len(file) = Len(Order)
    /\ pane = "writing" => written # NoGrid /\ written = store /\ at = Len(file) + 1

\* There is no file at the start.
LEMMA FileInit == Init => FileInv
  BY DEF Init, FileInv

\* Writing a setting prolongs the export.
LEMMA FileWrite ==
  ASSUME TypeOK, FileInv, WriteSetting
  PROVE  FileInv'
<1>1. /\ file \in Seq(Line) /\ at \in Nat /\ at <= Len(Order) /\ at = Len(file) + 1
      /\ Len(Order) \in Nat /\ written = store /\ written # NoGrid
  BY Constants DEF TypeOK, FileInv, WriteSetting
<1>2. at \in 1 .. Len(Order) /\ Order[at] \in Text
  BY <1>1, Constants
<1>3. SettingLine(Order[at], store[Order[at]]) \in Line
  BY <1>2, Constants DEF SettingLine, Line, TypeOK, Grid
<1> DEFINE line == SettingLine(Order[at], store[Order[at]])
<1> HIDE DEF line
<1>4. file' = Append(file, line) /\ line \in Line
  BY <1>3 DEF WriteSetting, line
<1>5. /\ file' \in Seq(Line) /\ Len(file') = Len(file) + 1
      /\ \A i \in 1 .. Len(file) : file'[i] = file[i]
      /\ file'[Len(file) + 1] = line
  BY <1>1, <1>4
<1>6. \A i \in 1 .. Len(file') : file'[i] = SettingLine(Order[i], written[Order[i]])
  BY <1>1, <1>5 DEF FileInv, line
<1>7. file' # NoFile
  BY <1>5, SettingsAssumption
<1> QED
  BY <1>1, <1>5, <1>6, <1>7 DEF WriteSetting, FileInv

\* A step keeps the file the beginning of an export.
LEMMA FileStep == TypeOK /\ FileInv /\ [Next]_vars => FileInv'
<1> SUFFICES ASSUME TypeOK, FileInv, [Next]_vars PROVE FileInv'
  OBVIOUS
<1>1. CASE UNCHANGED <<file, written, whole>> /\ pane' # "writing"
  BY <1>1 DEF FileInv
<1>2. CASE OpenFile
  <2>1. CASE pane' = "writing"
    <3>1. file' = << >> /\ at' = 1 /\ written' = store /\ ~whole' /\ store' = store
      BY <1>2, <2>1 DEF OpenFile
    <3>2. << >> \in Seq(Line) /\ store \in Grid
      BY DEF TypeOK
    <3>3. << >> # NoFile
      BY <3>2, SettingsAssumption
    <3>4. store # NoGrid
      BY <3>2, SettingsAssumption
    <3> QED
      BY <3>1, <3>3, <3>4, Constants DEF FileInv
  <2>2. CASE pane' # "writing"
    BY <1>2, <2>2 DEF OpenFile, FileInv
  <2> QED
    BY <2>1, <2>2
<1>3. CASE WriteSetting
  BY <1>3, FileWrite
<1>4. CASE CloseFile
  <2>1. written # NoGrid /\ Len(file) = Len(Order) /\ file \in Seq(Line)
    BY <1>4, Constants DEF CloseFile, FileInv, TypeOK
  <2> QED
    BY <1>4, <2>1 DEF CloseFile, FileInv
<1>5. CASE HandEdit
  BY <1>5 DEF HandEdit, FileInv
<1>6. CASE UNCHANGED vars
  BY <1>6 DEF vars, FileInv
<1>7. CASE Construct \/ BeginImport \/ EndImport \/ Show \/ SaveSettings \/ Exit
  BY <1>1, <1>7 DEF Construct, BeginImport, EndImport, Show, SaveSettings, GetValue, Exit
<1>8. CASE ImportLine \/ RefuseLine \/ ThrowLine
  BY <1>1, <1>8 DEF ImportLine, RefuseLine, ThrowLine, Importing
<1>9. CASE \E k \in Key : Choose(k)
  BY <1>1, <1>9 DEF Choose
<1> QED
  BY <1>2, <1>3, <1>4, <1>5, <1>6, <1>7, <1>8, <1>9 DEF Next

-----------------------------------------------------------------------------
(* The import of such a file, when none of its settings is empty: it takes *)
(* every line, and the lines it took are in the data store.                *)

Taken(m) ==
    \A i \in 1 .. Len(Order) :
        store[Order[i]] = IF i <= m THEN written[Order[i]] ELSE Initial[Order[i]]

LoadInv ==
    /\ pane = "constructed" => store = Initial
    /\ pane = "importing" /\ NoneEmpty(written) => ~in_section /\ Taken(at - 1)
    /\ pane = "loaded" /\ NoneEmpty(written) => imported /\ Taken(Len(file))

\* A line of the program's own export is a setting it knows and accepts.
LEMMA OwnLine ==
  ASSUME TypeOK, FileInv, Importing, NoneEmpty(written)
  PROVE  /\ at \in 1 .. Len(Order) /\ Order[at] \in Key
         /\ file[at] = SettingLine(Order[at], written[Order[at]])
         /\ ~Malformed(file[at]) /\ ~Mismatched(file[at]) /\ ~Throws(file[at])
         /\ ~in_section => Known(file[at])
<1>1. /\ file \in Seq(Line) /\ at \in 1 .. Len(file) /\ Len(file) <= Len(Order)
      /\ Len(Order) \in Nat
  <2>1. file \in Seq(Line) /\ Len(file) <= Len(Order)
    BY DEF TypeOK, NoneEmpty, FileInv
  <2>2. at \in Nat /\ at >= 1 /\ at <= Len(file)
    BY DEF TypeOK, Importing
  <2> QED
    BY <2>1, <2>2, Constants
<1>2. at \in 1 .. Len(Order) /\ Order[at] \in Key
  BY <1>1, Constants
<1>3. file[at] = SettingLine(Order[at], written[Order[at]])
  BY <1>1 DEF FileInv, NoneEmpty
<1>4. written[Order[at]] # ""
  BY <1>2 DEF NoneEmpty
<1>5. /\ file[at].kind = "setting" /\ file[at].name = Order[at]
      /\ file[at].type = "STR" /\ file[at].value # ""
  <2>1. file[at].kind = "setting" /\ file[at].name = Order[at] /\ file[at].type = "STR"
    BY <1>3 DEF SettingLine
  <2>2. file[at].value = written[Order[at]]
    BY <1>3 DEF SettingLine
  <2> QED
    BY <1>4, <2>1, <2>2
<1>6. ~Malformed(file[at]) /\ ~Mismatched(file[at]) /\ ~Throws(file[at])
  BY <1>5 DEF Malformed, Mismatched, Throws
<1> QED
  BY <1>2, <1>3, <1>5, <1>6 DEF Known

\* Importing a line of such a file puts its setting in the data store.
LEMMA LoadLine ==
  ASSUME TypeOK, FileInv, LoadInv, ImportLine
  PROVE  LoadInv'
<1>1. pane = "importing" /\ pane' = "importing" /\ written' = written
  BY DEF ImportLine, Importing
<1> SUFFICES ASSUME NoneEmpty(written)
             PROVE  ~in_section' /\ Taken(at - 1)'
  BY <1>1 DEF LoadInv
<1>2. ~in_section /\ Taken(at - 1)
  BY <1>1 DEF LoadInv
<1>3. /\ at \in 1 .. Len(Order) /\ Order[at] \in Key
      /\ file[at] = SettingLine(Order[at], written[Order[at]]) /\ Known(file[at])
  BY <1>2, OwnLine DEF ImportLine
<1>4. ~in_section' /\ store' = [store EXCEPT ![Order[at]] = written[Order[at]]] /\ at' = at + 1
  <2>1. /\ file[at].kind = "setting" /\ file[at].name = Order[at]
        /\ file[at].value = written[Order[at]]
    BY <1>3 DEF SettingLine
  <2> QED
    BY <1>2, <1>3, <2>1 DEF ImportLine
<1>5. ASSUME NEW i \in 1 .. Len(Order)
      PROVE  store'[Order[i]] = IF i <= at THEN written[Order[i]] ELSE Initial[Order[i]]
  <2>1. Order[i] \in Key /\ (Order[i] = Order[at] => i = at)
    BY <1>3, Constants, SettingsAssumption
  <2>2. CASE i = at
    BY <1>3, <1>4, <2>2 DEF TypeOK, Grid
  <2>3. CASE i # at
    <3>1. store'[Order[i]] = store[Order[i]]
      BY <1>3, <1>4, <2>1, <2>3 DEF TypeOK, Grid
    <3>2. i <= at <=> i <= at - 1
      BY <1>3, <2>3, Constants
    <3> QED
      BY <1>2, <3>1, <3>2 DEF Taken
  <2> QED
    BY <2>2, <2>3
<1> QED
  BY <1>1, <1>3, <1>4, <1>5, Constants DEF Taken

\* A step keeps the data store in line with the import.
LEMMA LoadStep == TypeOK /\ FileInv /\ LoadInv /\ [Next]_vars => LoadInv'
<1> SUFFICES ASSUME TypeOK, FileInv, LoadInv, [Next]_vars PROVE LoadInv'
  OBVIOUS
<1>1. CASE pane' \notin {"constructed", "importing", "loaded"}
  BY <1>1 DEF LoadInv
<1>2. CASE Construct
  BY <1>2 DEF Construct, LoadInv
<1>3. CASE BeginImport
  <2>1. store = Initial /\ UNCHANGED <<store, file, written>> /\ at' = 1 /\ ~in_section'
    BY <1>3 DEF BeginImport, LoadInv
  <2>2. NoneEmpty(written) => pane' = "importing"
    BY <1>3 DEF BeginImport, FileInv, NoneEmpty
  <2>3. Taken(at - 1)'
    BY <2>1, Constants DEF Taken
  <2> QED
    BY <1>3, <2>1, <2>2, <2>3 DEF BeginImport, LoadInv, NoneEmpty
<1>4. CASE ImportLine
  BY <1>4, LoadLine
<1>5. CASE RefuseLine
  <2>1. ~NoneEmpty(written)
    BY <1>5, OwnLine DEF RefuseLine
  <2> QED
    BY <1>5, <2>1 DEF RefuseLine, Importing, LoadInv, NoneEmpty
<1>6. CASE EndImport
  <2>1. CASE NoneEmpty(written)
    <3>1. file \in Seq(Line) /\ at - 1 = Len(file) /\ Taken(at - 1)
      BY <1>6, <2>1 DEF EndImport, TypeOK, LoadInv
    <3> QED
      BY <1>6, <3>1 DEF EndImport, LoadInv, Taken
  <2>2. CASE ~NoneEmpty(written)
    BY <1>6, <2>2 DEF EndImport, LoadInv, NoneEmpty
  <2> QED
    BY <2>1, <2>2
<1>7. CASE UNCHANGED vars
  BY <1>7 DEF vars, LoadInv, Taken, NoneEmpty
<1>8. CASE ThrowLine \/ Show \/ SaveSettings \/ OpenFile \/ CloseFile \/ Exit
  BY <1>1, <1>8 DEF ThrowLine, Show, SaveSettings, OpenFile, CloseFile, Exit
<1>9. CASE WriteSetting \/ HandEdit \/ \E k \in Key : Choose(k)
  BY <1>1, <1>9 DEF WriteSetting, HandEdit, Choose
<1> QED
  BY <1>2, <1>3, <1>4, <1>5, <1>6, <1>7, <1>8, <1>9 DEF Next

SettingsInv == TypeOK /\ FileInv /\ LoadInv

\* The file and the import agree in every state.
LEMMA Invariance == Spec => []SettingsInv
<1>1. Init => SettingsInv
  BY TypeInit, FileInit DEF Init, SettingsInv, LoadInv
<1>2. SettingsInv /\ [Next]_vars => SettingsInv'
  BY TypeStep, FileStep, LoadStep DEF SettingsInv
<1> QED
  BY <1>1, <1>2, PTL DEF Spec

\* What the pane shows of the program's own file.
LEMMA ShowsTaken ==
  ASSUME SettingsInv, Show, NoneEmpty(written)
  PROVE  /\ Len(file) \in 0 .. Len(Order)
         /\ \A i \in 1 .. Len(Order) :
              grid'[Order[i]] = Shown(Order[i], IF i <= Len(file) THEN written[Order[i]]
                                                ELSE Initial[Order[i]])
<1>1. imported /\ Taken(Len(file))
  BY DEF SettingsInv, LoadInv, Show
<1>2. file \in Seq(Line) /\ Len(file) <= Len(Order)
  BY DEF SettingsInv, TypeOK, FileInv, NoneEmpty
<1>3. grid' = [k \in Key |-> Shown(k, store[k])]
  BY <1>1 DEF Show
<1>4. ASSUME NEW i \in 1 .. Len(Order)
      PROVE  grid'[Order[i]] = Shown(Order[i], store[Order[i]])
  BY <1>3, Constants
<1> QED
  BY <1>1, <1>2, <1>4, Constants DEF Taken

\* A save that broke off, at whatever line, is shown as far as it got.
THEOREM TornSave == Spec => TornSaveShown
<1>1. SettingsInv /\ [Next]_vars =>
        [Show /\ NoneEmpty(written)
            => \E m \in 0 .. Len(Order) : \A i \in 1 .. Len(Order) :
                grid'[Order[i]] =
                    Shown(Order[i], IF i <= m THEN written[Order[i]] ELSE Initial[Order[i]])]_vars
  BY ShowsTaken
<1> QED
  BY <1>1, Invariance, PTL DEF Spec, TornSaveShown

\* Settings that were saved come back, however many and whatever they are.
THEOREM SavedComesBack == Spec => SavedIsShown
<1>1. ASSUME SettingsInv, Show, whole, NoneEmpty(written)
      PROVE  grid' = [k \in Key |-> Shown(k, written[k])]
  <2>1. imported /\ Taken(Len(file)) /\ Len(file) = Len(Order)
    BY <1>1 DEF SettingsInv, LoadInv, FileInv, Show
  <2>2. \A k \in Key : store[k] = written[k]
    BY <2>1, Constants DEF Taken, Key
  <2> QED
    BY <1>1, <2>1, <2>2 DEF Show
<1>2. SettingsInv /\ [Next]_vars =>
        [Show /\ whole /\ NoneEmpty(written)
            => grid' = [k \in Key |-> Shown(k, written[k])]]_vars
  BY <1>1
<1> QED
  BY <1>2, Invariance, PTL DEF Spec, SavedIsShown
=============================================================================
