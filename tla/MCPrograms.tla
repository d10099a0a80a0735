------------------------------- MODULE MCPrograms -------------------------------
(* Three interfaces, a small tree of captures, the options of the help and   *)
(* some that are wrong, and clicks on Play over that tree.                   *)
EXTENDS Programs

Ip(a) == [family |-> "AF_INET", ip |-> a]
Other == [family |-> "AF_INET6", ip |-> "fe80"]

\* lan has two addresses, wan one after one of another family, tun an address
\* and no adapter; bare has no address.
MCDevs == << [name |-> "lan", addresses |-> <<Ip("10.0.0.1"), Ip("10.0.0.2")>>],
             [name |-> "tun", addresses |-> <<Ip("10.9.9.9")>>],
             [name |-> "wan", addresses |-> <<Other, Ip("172.16.0.1")>>],
             [name |-> "bare", addresses |-> <<Other>>] >>

MCGuid == [lan |-> "A", wan |-> "B", bare |-> "C"]

MCAdapters == << [guid |-> "D", length |-> 6, mac |-> 4],
                 [guid |-> "A", length |-> 6, mac |-> 1],
                 [guid |-> "B", length |-> 8, mac |-> 5],
                 [guid |-> "B", length |-> 6, mac |-> 2],
                 [guid |-> "C", length |-> 6, mac |-> 3] >>

MCatoi == ("0" :> 0) @@ ("1" :> 1) @@ ("2" :> 2) @@ ("3" :> 3) @@ ("9" :> 9) @@ ("50" :> 50) @@ ("-1" :> -1)

MCinet_addr == ("10.0.0.1" :> "10.0.0.1") @@ ("192.0.2.7" :> "192.0.2.7")

Dir == <<"d">>
Sub == <<"d", "s">>
Deep == <<"d", "s", "t">>

MCAttributes ==
       (Dir :> {"DIRECTORY"})
    @@ (<<"d", "a">> :> {"ARCHIVE"})
    @@ (Sub :> {"DIRECTORY"})
    @@ (<<"d", "s", "b">> :> {})
    @@ (Deep :> {"DIRECTORY"})
    @@ (<<"d", "s", "t", "c">> :> {"ARCHIVE"})
    @@ (<<"d", "x">> :> {"ARCHIVE"})
    @@ (<<"d", "n">> :> {})
    @@ (<<"e">> :> {})

MCEntries ==
       (Dir :> <<".", "..", "a", "s", "x", "n">>)
    @@ (Sub :> <<".", "..", "t", "b">>)
    @@ (Deep :> <<".", "..", "c">>)

\* x is no capture, and n one without packets.
MCTimes ==
       (<<"d", "a">> :> <<3, 5, 9>>)
    @@ (<<"d", "s", "b">> :> <<7>>)
    @@ (<<"d", "s", "t", "c">> :> <<1, 2>>)
    @@ (<<"d", "n">> :> << >>)
    @@ (<<"e">> :> <<4>>)

A == <<"d", "a">>
X == <<"d", "x">>

MCLines == <<
    <<"-l">>, <<"-v">>, <<"-x">>, << >>,
    <<"-p", A>>, <<"-p", X>>, <<"-s", Dir>>,
    <<"-p", A, "-i", "lan">>, <<"-p", A, "-i", "nix">>, <<"-p", X, "-i", "nix">>,
    <<"-p", A, "-s", "lan", "-d", "wan">>, <<"-p", A, "-s", "lan", "-d", "nix">>,
    <<"-p", A, "-s", "bare", "-d", "wan">>, <<"-p", A, "-s", "wan", "-d", "tun">>,
    <<"-p", X, "-s", "lan", "-d", "wan">>,
    <<"-p", A, "-sip", "10.0.0.2", "-dip", "172.16.0.1">>,
    <<"-p", A, "-sip", "10.9.9.9", "-dip", "172.16.0.1">>,
    <<"-p", A, "-sip", "192.0.2.7", "-dip", "172.16.0.1">>,
    <<"-r", Dir, "-s", "lan", "-d", "wan">>,
    <<"-r", Dir, "-s", "lan", "-d", "wan", "-de", "50">>,
    <<"-r", Dir, "-s", "lan", "-d", "wan", "-de", "-1">>,
    <<"-r", Dir, "-s", "lan", "-d", "wan", "-del", "50">>,
    <<"-r", <<"e">>, "-s", "lan", "-d", "wan">>,
    <<"-r", A, "-s", "lan", "-d", "lan", "-de", "9">>,
    <<"-r", Dir, "-sip", "10.0.0.1", "-dip", "172.16.0.1", "-de", "50">>,
    <<"-r", Dir, "-si", "lan", "-di", "wan", "-sip", "10.0.0.1", "-dip", "192.0.2.7">>,
    <<"-r", Dir, "-si", "bare", "-di", "wan", "-sip", "10.0.0.1", "-dip", "192.0.2.7",
      "-de", "50">>,
    <<"-r", Dir, "-si", "lan", "-di", "wan", "-sip", "10.0.0.1", "-dip", "10.0.0">>,
    <<"-ia", "0", "-ea", "2", "-tfile", "a", "-iport", "*", "-eport", "0",
      "-retry", "5", "-path", Dir>>,
    <<"-ia", "1", "-ea", "3", "-tfile", "a", "-iport", "*", "-eport", "0",
      "-retry", "5", "-path", Dir>> >>

\* Another drive of the network has no path.
MCSelections == { <<<< >>, Dir>>, <<A, Dir, <<"e">>>>, <<<<"d", "gone">>, Sub>>, <<Sub, X>> }
MCSaved == {"192.0.2.7"}
MCDelays == {"-1", "0", "50"}
=============================================================================
