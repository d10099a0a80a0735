----------------------------- MODULE SplitReplay -----------------------------
(***************************************************************************)
(* One replay: replay_action (gui/replay_action.hpp; the command line's    *)
(* offline_pcaps_action_replay_t keeps the same books) opens pcap after    *)
(* pcap and feeds their packets to pcap_layer2_split_replay_t              *)
(* (traffic_replay.hpp), which gives every host it meets one of the two    *)
(* interfaces and sends each packet from the interface of its source.      *)
(*                                                                         *)
(* A host stands for the key of the code's maps: the hash of IP and port   *)
(* for TCP and UDP, of the IP alone for the rest.  A packet that exceeds   *)
(* the MTU carries the number of fragments that module Fragmenter cuts it  *)
(* into; the interface may refuse any frame.                               *)
(*                                                                         *)
(* An operator named A_Something, above A, is a seeded bug: a variant of A *)
(* that Next does not use, and that breaks one of the properties.          *)
(***************************************************************************)
EXTENDS Naturals, Sequences

CONSTANTS
    Host,       \* keys of the host maps
    Pcap,       \* the capture files, by name
    Capture,    \* what is in them: a link type and a sequence of packets
    Corrupted,  \* those that pcap_open_offline refuses
    MaxPcaps    \* bound: capture files per replay

Transport == {"tcp", "udp", "other"}
Side == {"source", "destination"}

Packet == [kind : Transport \cup {"non_ipv4"}, src : Host, dst : Host,
           fragments : Nat \ {0}]

ASSUME ReplayAssumption ==
    /\ Corrupted \subseteq Pcap
    /\ Capture \in [Pcap -> [ethernet : BOOLEAN, packets : Seq(Packet)]]
    /\ MaxPcaps \in Nat

VARIABLES
    pc,                      \* "idle" between two pcaps, "playing" in one
    pcap,                    \* the pcap that plays, or the last one
    next,                    \* index of its next packet
    m_disable_fragmentation,
    m_host_map,              \* the three maps: the interface a host has, or "none"
    m_pkt_count, m_pkt_replayed, m_failed_ptk_count, m_l2_non_sp_ptk,
    pcap_count, packet_count, replayed_packet_count, failed_packet_count,
    l2_non_supported_packet_count,
    corrupted_pcaps, failed_replays_pcaps, l2_non_supported_replays_pcaps,
    \* history of the replay
    seen,                    \* packets read
    skipped,                 \* those that are not IPv4
    delivered,               \* those that left as a whole
    frames,                  \* frames the interfaces took
    partial,                 \* those among them of packets that broke off
    talked                   \* <<kind, src, dst>> of the packets mapped

counters == <<m_pkt_count, m_pkt_replayed, m_failed_ptk_count, m_l2_non_sp_ptk>>
totals == <<packet_count, replayed_packet_count, failed_packet_count,
            l2_non_supported_packet_count>>
lists == <<corrupted_pcaps, failed_replays_pcaps, l2_non_supported_replays_pcaps>>
history == <<seen, skipped, delivered, frames, partial, talked>>
vars == <<pc, pcap, next, m_disable_fragmentation, m_host_map, counters,
          pcap_count, totals, lists, history>>

NoHosts == [key \in Transport \X Host |-> "none"]

Init ==
    /\ pc = "idle"
    /\ pcap \in Pcap
    /\ next = 1
    /\ m_disable_fragmentation \in BOOLEAN
    /\ m_host_map = NoHosts
    /\ m_pkt_count = 0 /\ m_pkt_replayed = 0
    /\ m_failed_ptk_count = 0 /\ m_l2_non_sp_ptk = 0
    /\ pcap_count = 0 /\ packet_count = 0 /\ replayed_packet_count = 0
    /\ failed_packet_count = 0 /\ l2_non_supported_packet_count = 0
    /\ corrupted_pcaps = << >> /\ failed_replays_pcaps = << >>
    /\ l2_non_supported_replays_pcaps = << >>
    /\ seen = 0 /\ skipped = 0 /\ delivered = 0
    /\ frames = 0 /\ partial = 0
    /\ talked = {}

-----------------------------------------------------------------------------
(* replay_action::do_action on the next capture file.                      *)

OpenPcap(file) ==
    /\ pc = "idle"
    /\ pcap_count < MaxPcaps
    /\ pcap_count' = pcap_count + 1
    /\ pcap' = file
    /\ \/ /\ file \in Corrupted
          /\ corrupted_pcaps' = Append(corrupted_pcaps, file)
          /\ UNCHANGED <<pc, next>>
       \/ /\ file \notin Corrupted
          /\ pc' = "playing"
          /\ next' = 1
          /\ UNCHANGED corrupted_pcaps
    /\ UNCHANGED <<m_disable_fragmentation, m_host_map, counters, totals,
                   failed_replays_pcaps, l2_non_supported_replays_pcaps, history>>

\* Failed packets do not make a replay bad.
HasBadPackets_Lenient == m_l2_non_sp_ptk > 0

HasBadPackets == m_failed_ptk_count > 0 \/ m_l2_non_sp_ptk > 0

Listed(list, condition) == IF condition THEN Append(list, pcap) ELSE list

\* What the replayer counted of one pcap is forgotten.
clean_stats ==
    /\ m_pkt_count' = 0 /\ m_pkt_replayed' = 0
    /\ m_failed_ptk_count' = 0 /\ m_l2_non_sp_ptk' = 0

\* do_action of replay_action without clean_stats.
EndPcap_Dirty ==
    /\ pc = "playing"
    /\ next > Len(Capture[pcap].packets)
    /\ pc' = "idle"
    /\ packet_count' = packet_count + m_pkt_count
    /\ replayed_packet_count' = replayed_packet_count + m_pkt_replayed
    /\ failed_packet_count' = failed_packet_count + m_failed_ptk_count
    /\ l2_non_supported_packet_count' = l2_non_supported_packet_count + m_l2_non_sp_ptk
    /\ UNCHANGED <<pcap, next, m_disable_fragmentation, m_host_map, counters,
                   pcap_count, lists, history>>

\* play_back has returned: the counters of the pcap go into the totals.
EndPcap ==
    /\ pc = "playing"
    /\ next > Len(Capture[pcap].packets)
    /\ pc' = "idle"
    /\ packet_count' = packet_count + m_pkt_count
    /\ replayed_packet_count' = replayed_packet_count + m_pkt_replayed
    /\ IF HasBadPackets
         THEN /\ l2_non_supported_replays_pcaps' =
                    Listed(l2_non_supported_replays_pcaps, m_l2_non_sp_ptk > 0)
              /\ failed_replays_pcaps' = Listed(failed_replays_pcaps, m_failed_ptk_count > 0)
              /\ failed_packet_count' = failed_packet_count + m_failed_ptk_count
              /\ l2_non_supported_packet_count' =
                    l2_non_supported_packet_count + m_l2_non_sp_ptk
         ELSE UNCHANGED <<l2_non_supported_replays_pcaps, failed_replays_pcaps,
                          failed_packet_count, l2_non_supported_packet_count>>
    /\ clean_stats
    /\ UNCHANGED <<pcap, next, m_disable_fragmentation, m_host_map, pcap_count,
                   corrupted_pcaps, history>>

\* dump_stats and clean_stats; the next replay starts with a new replay_action.
EndReplay ==
    /\ pc = "idle"
    /\ pcap_count > 0
    /\ m_disable_fragmentation' \in BOOLEAN
    /\ m_host_map' = NoHosts
    /\ m_pkt_count' = 0 /\ m_pkt_replayed' = 0
    /\ m_failed_ptk_count' = 0 /\ m_l2_non_sp_ptk' = 0
    /\ pcap_count' = 0 /\ packet_count' = 0 /\ replayed_packet_count' = 0
    /\ failed_packet_count' = 0 /\ l2_non_supported_packet_count' = 0
    /\ corrupted_pcaps' = << >> /\ failed_replays_pcaps' = << >>
    /\ l2_non_supported_replays_pcaps' = << >>
    /\ seen' = 0 /\ skipped' = 0 /\ delivered' = 0
    /\ frames' = 0 /\ partial' = 0
    /\ talked' = {}
    /\ UNCHANGED <<pc, pcap, next>>

-----------------------------------------------------------------------------
(* pcap_layer2_split_replay_t::do_action on the next packet of the pcap.   *)

packet == Capture[pcap].packets[next]

NextPacket ==
    /\ pc = "playing"
    /\ next <= Len(Capture[pcap].packets)
    /\ next' = next + 1
    /\ m_pkt_count' = m_pkt_count + 1
    /\ seen' = seen + 1
    /\ UNCHANGED <<pc, pcap, m_disable_fragmentation, pcap_count, totals, lists>>

\* A capture of another link type than Ethernet.
NotEthernet ==
    /\ NextPacket
    /\ ~Capture[pcap].ethernet
    /\ m_l2_non_sp_ptk' = m_l2_non_sp_ptk + 1
    /\ UNCHANGED <<m_host_map, m_pkt_replayed, m_failed_ptk_count,
                   skipped, delivered, frames, partial, talked>>

\* Not IPv4: counted, and silently left out.
NotIPv4 ==
    /\ NextPacket
    /\ Capture[pcap].ethernet
    /\ packet.kind = "non_ipv4"
    /\ skipped' = skipped + 1
    /\ UNCHANGED <<m_host_map, m_pkt_replayed, m_failed_ptk_count, m_l2_non_sp_ptk,
                   delivered, frames, partial, talked>>

\* The entry is made, but never given an interface.
Place_Unset(map, key, side) == IF map[key] = "none" THEN [map EXCEPT ![key] = "null"] ELSE map

\* Every packet places its hosts anew.
Place_Anew(map, key, side) == [map EXCEPT ![key] = side]

\* The map with one more host on a side, unless it has a side already.
Place(map, key, side) == IF map[key] = "none" THEN [map EXCEPT ![key] = side] ELSE map

\* Both hosts of a packet go to the source interface.
Mapped_SameSide(p) ==
    Place(Place(m_host_map, <<p.kind, p.src>>, "source"), <<p.kind, p.dst>>, "source")

\* The source of a packet is placed before its destination.
Mapped(p) ==
    Place(Place(m_host_map, <<p.kind, p.src>>, "source"), <<p.kind, p.dst>>, "destination")

\* A packet counts as the frame that carries it, not as its fragments.
Counted_One(taken) == m_pkt_replayed + 1

\* What a packet that went out adds to the counter.
Counted(taken) == m_pkt_replayed + taken

\* How many frames the packet makes: the first only when fragments are disabled.
FramesOf(p) == IF m_disable_fragmentation THEN 1 ELSE p.fragments

SendPacket ==
    /\ NextPacket
    /\ Capture[pcap].ethernet
    /\ packet.kind \in Transport
    /\ m_host_map' = Mapped(packet)
    /\ talked' = talked \cup {<<packet.kind, packet.src, packet.dst>>}
    /\ \E taken \in 0 .. FramesOf(packet) :
        /\ frames' = frames + taken
        /\ IF taken = FramesOf(packet)
             THEN /\ m_pkt_replayed' = Counted(taken)
                  /\ delivered' = delivered + 1
                  /\ UNCHANGED <<m_failed_ptk_count, partial>>
             ELSE /\ m_failed_ptk_count' = m_failed_ptk_count + 1
                  /\ partial' = partial + taken
                  /\ UNCHANGED <<m_pkt_replayed, delivered>>
    /\ UNCHANGED <<m_l2_non_sp_ptk, skipped>>

Next ==
    \/ \E file \in Pcap : OpenPcap(file)
    \/ NotEthernet \/ NotIPv4 \/ SendPacket
    \/ EndPcap \/ EndReplay

Spec == Init /\ [][Next]_vars

-----------------------------------------------------------------------------
\* Every variable stays in its type.
TypeOK ==
    /\ pc \in {"idle", "playing"}
    /\ pcap \in Pcap
    /\ next \in Nat \ {0}
    /\ m_disable_fragmentation \in BOOLEAN
    /\ m_host_map \in [Transport \X Host -> Side \cup {"none"}]
    /\ m_pkt_count \in Nat /\ m_pkt_replayed \in Nat
    /\ m_failed_ptk_count \in Nat /\ m_l2_non_sp_ptk \in Nat
    /\ pcap_count \in Nat /\ packet_count \in Nat /\ replayed_packet_count \in Nat
    /\ failed_packet_count \in Nat /\ l2_non_supported_packet_count \in Nat
    /\ corrupted_pcaps \in Seq(Pcap) /\ failed_replays_pcaps \in Seq(Pcap)
    /\ l2_non_supported_replays_pcaps \in Seq(Pcap)
    /\ seen \in Nat /\ skipped \in Nat /\ delivered \in Nat
    /\ frames \in Nat /\ partial \in Nat
    /\ talked \subseteq Transport \X Host \X Host

\* The statistics lose no packet and count none twice, over all pcaps so far:
\* a packet read was delivered, counted as failed, counted as of no supported
\* link type, or is not IPv4.
PacketsAccounted ==
    /\ packet_count + m_pkt_count = seen
    /\ seen = delivered + skipped + failed_packet_count + m_failed_ptk_count
                + l2_non_supported_packet_count + m_l2_non_sp_ptk

\* "Replayed packets" is the number of frames the interfaces took, less the
\* fragments of packets that broke off and are counted as failed.
FramesAccounted == replayed_packet_count + m_pkt_replayed + partial = frames

\* dump_stats ends with "Successfully replay." when its three lists are
\* empty: then every IPv4 packet of every pcap was delivered as a whole.
SuccessMeansDelivered ==
    pc = "idle" /\ corrupted_pcaps = << >> /\ failed_replays_pcaps = << >>
            /\ l2_non_supported_replays_pcaps = << >>
        => delivered + skipped = packet_count

\* Each pcap is reported as corrupted, failed or unsupported at most once, and
\* none is reported that failed in no way.
ListsAccounted ==
    /\ Len(failed_replays_pcaps) <= failed_packet_count
    /\ Len(l2_non_supported_replays_pcaps) <= l2_non_supported_packet_count
    /\ Len(corrupted_pcaps) + Len(failed_replays_pcaps)
         + Len(l2_non_supported_replays_pcaps) <= pcap_count

\* Two hosts that talked to each other and to nobody else are on opposite
\* interfaces, in whichever direction, pcap and order their packets came.
PairsAreSplit ==
    \A kind \in Transport : \A a, b \in Host :
        /\ a # b
        /\ \E t \in talked : t[1] = kind /\ {t[2], t[3]} = {a, b}
        /\ \A t \in talked : t[1] = kind /\ {t[2], t[3]} \cap {a, b} # {} => {t[2], t[3]} = {a, b}
        => m_host_map[<<kind, a>>] # m_host_map[<<kind, b>>]

\* Within a replay a host keeps the interface it was given.
SidesFixed ==
    [][\A key \in Transport \X Host :
        m_host_map[key] # "none" => m_host_map'[key] = m_host_map[key] \/ EndReplay]_vars
=============================================================================
