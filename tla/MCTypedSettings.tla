--------------------------- MODULE MCTypedSettings ---------------------------
(* Widths of two to five bits stand for 8 to 64: a number of any type can   *)
(* be too large for the next narrower one and negative for an unsigned one. *)
EXTENDS TypedSettings

MCSize == "UI8" :> 4 @@ "UI16" :> 8 @@ "UI32" :> 16 @@ "UI64" :> 32
            @@ "I8" :> 4 @@ "I16" :> 8 @@ "I32" :> 16 @@ "I64" :> 32

MCWords == Types \cup {"", "true", "false", "TRUE", "FALSE", "v1", "v2", "v3", "http", "maybe", "x",
                       ".", "net", "zone", " net", "gone", ".SettingsVersion", "SettingVersion",
                       "fast", "port", "port ", "big", " ", " UI8", "LONG"}

MCVersion == <<"", ".SettingsVersion">>
\* The section settingsTV.h proposes for a version sorts before the one without
\* a name, as "..SettingVersion" does before ".fast".
MCDotted == <<".", "SettingVersion">>
MCSorted == <<MCDotted, MCVersion, <<"", "fast">>, <<"net", ".SettingsVersion">>, <<"net", "port">>, <<"zone", "big">>>>

S(key, type, text) == [key |-> key, type |-> type, text |-> text]
Soiled(i) == [Number(i) EXCEPT !.form = "soiled"]

MCSpaced == " net" :> "net" @@ "port " :> "port" @@ " UI8" :> "UI8" @@ " " :> ""

\* The program of today; one whose initializer for a port is out of range, one
\* of yesterday with another type of port and blanks for a name, one whose port
\* is no number; one with a version in section ".".
MCInitializers == {
    <<S(MCVersion, "STR", Word("v2")), S(<<"", "fast">>, "BOOL", Word("FALSE")),
      S(<<"net", ".SettingsVersion">>, "I8", Soiled(1)), S(<<" net", "port ">>, " UI8", Soiled(3)),
      S(<<"zone", "big">>, "UI64", Number(-1))>>,
    <<S(MCVersion, "STR", Word("v1")), S(<<"net", "port">>, "UI16", Number(9))>>,
    <<S(<<"net", "port">>, "I16", Number(-4)), S(MCVersion, "DBL", Number(1)), S(<<"net", " ">>, "STR", Word("v1"))>>,
    <<S(<<"net", "port">>, "UI8", Word("http"))>>,
    <<S(MCDotted, "STR", Word("v1")), S(<<"", "fast">>, "BOOL", Word("true"))>>}

MCGiven ==
    [type \in Types |->
        CASE type = "BOOL" -> {Word("true"), Word("false")}
          [] type = "STR" -> {Word("v1"), Word("")}
          [] type = "UI8" -> {Number(0)}
          [] OTHER -> {}]

MCRefused == {<<"net", "port">>}

V(name, type, text) == Line("setting", "", name, type, text)

\* Another version; the version of a section; a number too large, one that is
\* too large for the type of the store only, one beyond 64 bits, none at all;
\* a BOOL that is neither; a section without a name; an unknown type.
MCHandmade == {
    <<V(".SettingsVersion", "STR", Word("v3")), V("fast", "BOOL", Word("FALSE"))>>,
    <<Header("net"), V(".SettingsVersion", "I8", Number(-2)), V("gone", "STR", Word("v1"))>>,
    <<Header("net"), V("port", "UI8", Number(4))>>,
    <<Header("net"), V("port", "UI16", Soiled(7)), V("port", "UI8", Soiled(2)), V("port", "I32", Number(40))>>,
    <<V("fast", "BOOL", Word("maybe"))>>,
    <<Header("zone"), V("big", "UI64", Number(40)), V("big", "UI64", Number(-3)), V("big", "UI8", Word("x"))>>,
    <<Header("zone"), V("big", "UI64", Number(17)), Header("")>>,
    <<V("fast", "LONG", Number(1))>>,
    <<Line("broken", "", "", "", Word(""))>>}
=============================================================================
