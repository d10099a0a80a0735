-------------------------------- MODULE Devices --------------------------------
(***************************************************************************)
(* How an interface is found: the list pcap_findalldevs returns, the       *)
(* actions pcap_devs_t::get_ifs applies to it (traffic_replay.hpp,         *)
(* cmd_actions/pcap_devs_action_*.hpp), and the adapter table of Windows   *)
(* (windows/windows.hpp).                                                  *)
(*                                                                         *)
(* A device is a record of its name and its addresses, each with a family  *)
(* and an address; an adapter is one of its GUID, the length of its        *)
(* physical address and that address.  The GUID within an interface name   *)
(* of the right length is Guid[name].                                      *)
(***************************************************************************)
EXTENDS Integers, Sequences, FiniteSets

CONSTANTS
    Devs,       \* the device list, in the order of the library
    Adapters,   \* the adapter table, in the order of Windows
    Guid,       \* interface names of the length of a GUID name, with the GUID
    atoi,       \* external: what atoi makes of a string that is a number
    inet_addr   \* external: what inet_addr makes of a string that is an address

Names == {Devs[i].name : i \in DOMAIN Devs}

\* m_id and m_ifdev when nothing was found.
NoIf == ""

\* The elements from the first that passes the action's test, the hits, from
\* which pcap_devs_t::m_devs goes on; all were passed over if there is none.
get_ifs(devs, hits) ==
    IF hits = {} THEN << >>
    ELSE SubSeq(devs, CHOOSE i \in hits : \A j \in hits : i <= j, Len(devs))

\* The name an action is left with.
Found(rest) == IF rest = << >> THEN NoIf ELSE Head(rest).name

\* The places of the IPv4 addresses among those of a device.
Ipv4(dev) == {i \in DOMAIN dev.addresses : dev.addresses[i].family = "AF_INET"}

\* The interface that has an address.
GetIf(ip) ==
    Found(get_ifs(Devs, {n \in DOMAIN Devs :
                      \E i \in Ipv4(Devs[n]) : Devs[n].addresses[i].ip = ip}))

\* Counting devices from one.
ByNumber_FromOne(number) ==
    LET numbered == [i \in DOMAIN Devs |-> [name |-> Devs[i].name, count |-> i % 256]]
    IN  Found(get_ifs(numbered, {i \in DOMAIN Devs : numbered[i].count = number % 256}))

\* The interface with a number, both of them in eight bits.
ByNumber(number) ==
    LET numbered == [i \in DOMAIN Devs |-> [name |-> Devs[i].name, count |-> (i - 1) % 256]]
    IN  Found(get_ifs(numbered, {i \in DOMAIN Devs : numbered[i].count = number % 256}))

\* The number -l prints before an interface.
DumpedAs(i) == i - 1

\* The search of the addresses does not end at the first.
FirstIp_All(name) ==
    LET rest == get_ifs(Devs, {i \in DOMAIN Devs : Devs[i].name = name})
    IN  IF rest = << >> THEN {}
        ELSE {Head(rest).addresses[i].ip : i \in Ipv4(Head(rest))}

\* The address the packets of an interface get: the first IPv4 address of the
\* device with that name, whichever the user asked for; none if it has none.
FirstIp(name) ==
    LET rest == get_ifs(Devs, {i \in DOMAIN Devs : Devs[i].name = name})
    IN  IF rest = << >> THEN {}
        ELSE {Head(rest).addresses[i].ip :
                i \in {i \in Ipv4(Head(rest)) : \A j \in Ipv4(Head(rest)) : i <= j}}

\* The MAC address of an interface: that of the first adapter with its GUID.
AdapterMac(name) ==
    LET hits == {i \in DOMAIN Adapters :
                   /\ Adapters[i].length = 6
                   /\ name \in DOMAIN Guid
                   /\ Adapters[i].guid = Guid[name]}
    IN  IF hits = {} THEN {}
        ELSE {Adapters[CHOOSE i \in hits : \A j \in hits : i <= j].mac}

\* The addresses the properties pane offers (CPropertiesWnd::do_action).
IfNames == UNION {{Devs[i].addresses[j].ip : j \in Ipv4(Devs[i])} : i \in DOMAIN Devs}

\* Every interface has a name, and an IPv4 address is that of one interface.
ASSUME DevicesAssumption ==
    /\ Devs \in Seq([name : STRING, addresses : Seq([family : STRING, ip : STRING])])
    /\ DOMAIN Adapters \subseteq Nat
    /\ NoIf \notin Names
    /\ \A i, j \in DOMAIN Devs : \A a \in Ipv4(Devs[i]), b \in Ipv4(Devs[j]) :
         Devs[i].addresses[a].ip = Devs[j].addresses[b].ip => Devs[i].name = Devs[j].name
=============================================================================
