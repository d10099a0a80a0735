------------------------------ MODULE MCSettings ------------------------------
(* Four of the program's six settings, one of each sort, for TLC. *)
EXTENDS Settings, TLC

MCFirstIf == "10.0.0.1"

MCText == {"cpu", "delay", "frag_off", "src_ip", "net", "mtu", "", "0", "10", "40", "50", "7",
           "300", "9000", "True", "False", "true", "soon", "maybe",
           "0.0.0.0", "10.0.0.1", "10.0.0.2"}
MCOrder == <<"cpu", "delay", "frag_off", "src_ip">>
MCInitial == "cpu" :> "40" @@ "delay" :> "0" @@ "frag_off" :> "True" @@ "src_ip" :> "0.0.0.0"
MCFallback == "cpu" :> "40" @@ "delay" :> "0" @@ "frag_off" :> "False" @@ "src_ip" :> MCFirstIf

\* The delay can be typed; the others are chosen from a list.
MCChoice == "cpu" :> {"40", "50"} @@ "delay" :> {"0", "10", ""}
              @@ "frag_off" :> {"True", "False"} @@ "src_ip" :> {"10.0.0.1", "10.0.0.2"}
MCAddress == {"src_ip"}
MCNumber == "7" :> 7 @@ "300" :> 300

L(kind, name, type, value) == [kind |-> kind, name |-> name, type |-> type, value |-> value]

\* A header in the way; an error after a good line; a number out of range;
\* what is no number; a setting of another program, another type, no address.
MCHandmade == {
    <<L("setting", "cpu", "STR", "50"), L("section", "net", "", ""), L("setting", "delay", "STR", "10")>>,
    <<L("setting", "cpu", "STR", "50"), L("broken", "", "", "")>>,
    <<L("setting", "delay", "UI8", "300")>>,
    <<L("comment", "", "", ""), L("setting", "delay", "UI8", "soon")>>,
    <<L("setting", "mtu", "STR", "9000"), L("setting", "delay", "UI8", "7"),
      L("setting", "frag_off", "BOOL", "true"), L("setting", "src_ip", "STR", "0.0.0.0")>>,
    <<L("setting", "frag_off", "BOOL", "maybe")>>}
=============================================================================
