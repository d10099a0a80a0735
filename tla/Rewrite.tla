-------------------------------- MODULE Rewrite --------------------------------
(***************************************************************************)
(* The bytes of one packet on their way from a capture to the wire:        *)
(* do_action of pcap_layer2_split_replay_t (traffic_replay.hpp) repairs    *)
(* the length, rewrites the MAC addresses (for TCP) and the IP addresses,  *)
(* fixes the checksums, and sends the packet whole or hands it to          *)
(* do_fragment (protocols/layer3/ethernet_ipv4_fragmenter.hpp), which      *)
(* writes a header for every fragment.                                     *)
(*                                                                         *)
(* Which interface stands for which end is the outcome of the host maps of *)
(* module SplitReplay, here any; how many fragments there are and what     *)
(* they claim to be is the subject of module Fragmenter, here only their   *)
(* bytes.  Every frame may be refused by the interface.                    *)
(*                                                                         *)
(* An operator X_Y is a seeded bug: what X would be with the mistake Y.    *)
(***************************************************************************)
EXTENDS Headers

CONSTANTS
    Frames,      \* what get_packets may hand over: the bytes captured
    Interfaces,  \* the two interfaces: a MAC address and an IPv4 address each
    mtu_default  \* 1500 in the code

Byte == 0..255
sizeof_tcp_header == 20
sizeof_udp_header == 8

upper_header_length(frame) ==
    CASE upper_protocol(frame) = tcp -> sizeof_tcp_header
      [] upper_protocol(frame) = udp -> sizeof_udp_header
      [] OTHER -> 0

\* A packet with its headers: the length it is given in the replay covers them.
WholeHeaders(frame) ==
    LET captured == Len(frame) - eth_length
        length == IF packet_length(frame) \in 1..captured THEN packet_length(frame) ELSE captured
    IN  /\ captured >= sizeof_ipv4_header_t /\ captured < 65536
        /\ get_length(frame) >= sizeof_ipv4_header_t
        /\ length >= get_length(frame) + upper_header_length(frame)

\* IPv4 has up to 65535 bytes in a packet.  A link carries the longest header
\* of IPv4 and that of TCP; 1500 bytes do.
ASSUME FramesAssumption ==
    \A frame \in Frames :
      /\ frame \in Seq(Byte) /\ Len(frame) >= eth_length
      /\ get_payload_type(frame) = ipv4 =>
           WholeHeaders(frame) /\ mtu_default >= get_length(frame) + sizeof_tcp_header
ASSUME InterfacesAssumption ==
    Interfaces \subseteq [mac : [1..6 -> Byte], ip : [1..4 -> Byte]]
ASSUME MtuAssumption == mtu_default \in Nat

VARIABLES
    stage,              \* "received", "repaired", "addressed", "fixed", "cutting", "done"
    given,              \* the packet as it was captured
    data,               \* the packet as it is in the buffer
    ends,               \* the interfaces of its source and its destination
    first_packet_only,  \* m_disable_fragmentation
    cut,                \* bytes of the payload that left in fragments
    wire                \* the frames the interface took

vars == <<stage, given, data, ends, first_packet_only, cut, wire>>

\* The addresses as 64 and 32-bit integers of the host.
mac(interface) == to_uint64_t(interface.mac)
ip(interface) == FromMemory(interface.ip)

Init ==
    /\ stage = "received"
    /\ given \in Frames
    /\ data = given
    /\ ends \in [1..2 -> Interfaces]
    /\ first_packet_only \in BOOLEAN
    /\ cut = 0
    /\ wire = << >>

\* A packet that is not IPv4 is passed over.  The length is that captured if it
\* is zero or more.
Repair ==
    /\ stage = "received"
    /\ IF get_payload_type(data) # ipv4
         THEN stage' = "done" /\ UNCHANGED data
         ELSE LET captured == Len(data) - eth_length
              IN  /\ stage' = "repaired"
                  /\ data' = IF packet_length(data) = 0 \/ packet_length(data) > captured
                               THEN set_packet_length(data, captured) ELSE data
    /\ UNCHANGED <<given, ends, first_packet_only, cut, wire>>

\* update_src, update_dst and change_ips.
Address ==
    /\ stage = "repaired"
    /\ LET there == IF upper_protocol(data) = tcp
                      THEN update_mac(update_mac(data, SrcMac, mac(ends[1])), DstMac, mac(ends[2]))
                      ELSE data
       IN  data' = change_ips(there, ip(ends[1]), ip(ends[2]))
    /\ stage' = "addressed"
    /\ UNCHANGED <<given, ends, first_packet_only, cut, wire>>

\* fragment() and fix_checksum, over the whole packet in either case.
FixChecksum ==
    /\ stage = "addressed"
    /\ data' = fix_checksum(data)
    /\ stage' = IF packet_length(data) > mtu_default THEN "cutting" ELSE "fixed"
    /\ UNCHANGED <<given, ends, first_packet_only, cut, wire>>

\* What pcap_sendpacket does with a frame.
Sent(frame) == wire' = Append(wire, frame)
Refused == UNCHANGED wire

\* pcap_sendpacket of full_packet_len bytes, without the padding.
Send ==
    /\ stage = "fixed"
    /\ Sent(SubSeq(data, 1, eth_length + packet_length(data))) \/ Refused
    /\ stage' = "done"
    /\ UNCHANGED <<given, data, ends, first_packet_only, cut>>

Header == SubSeq(data, 1, get_abs_upper_offset(data))
ip_payload_max == mtu_default - get_length(data)
ip_payload_length == payload_length(data) - cut
Piece(length) == Field(data, get_abs_upper_offset(data) + cut + 1, length)

\* A fragment as long as the MTU allows; with fragmentation disabled it is the
\* only one, a packet of its own with a checksum of its own.
FullFragment ==
    /\ stage = "cutting"
    /\ ip_payload_length > ip_payload_max
    /\ LET long == set_packet_length(Header, get_length(data) + ip_payload_max)
           placed == IF first_packet_only THEN clear_more_fragments(long)
                     ELSE set_fragment_offset(long, cut)
           frame == fix_header_checksum(placed) \o Piece(ip_payload_max)
       IN  \/ Sent(IF first_packet_only THEN fix_checksum(frame) ELSE frame)
              /\ stage' = IF first_packet_only THEN "done" ELSE "cutting"
           \/ Refused /\ stage' = "done"
    /\ cut' = cut + ip_payload_max
    /\ UNCHANGED <<given, data, ends, first_packet_only>>

\* What is left.
LastFragment ==
    /\ stage = "cutting"
    /\ ip_payload_length <= ip_payload_max
    /\ LET long == set_packet_length(Header, get_length(data) + ip_payload_length)
           placed == clear_more_fragments(set_fragment_offset(long, cut))
       IN  Sent(fix_header_checksum(placed) \o Piece(ip_payload_length)) \/ Refused
    /\ cut' = cut + ip_payload_length
    /\ stage' = "done"
    /\ UNCHANGED <<given, data, ends, first_packet_only>>

Next ==
    \/ Repair \/ Address \/ FixChecksum \/ Send \/ FullFragment \/ LastFragment

Spec == Init /\ [][Next]_vars

-----------------------------------------------------------------------------
(* Properties.                                                             *)

\* The sum of 16-bit words that a receiver finds to be zero in the arithmetic
\* of one's complement.
Balanced(sum) == sum % 65535 = 0

\* The packet the receiver of the frames puts together.
Ahead(frame) == eth_length + get_length(frame)
Payload == FlattenSeq([i \in DOMAIN wire |->
                         SubSeq(wire[i], Ahead(wire[i]) + 1, Len(wire[i]))])
Complete ==
    /\ wire # << >>
    /\ \/ first_packet_only
       \/ Len(Payload) = payload_length(data)

\* A captured packet that is a fragment: it has an offset, or more follow.
Fragmented(frame) == Word(Field(frame, FragmentOffset, 2)) % 16384 # 0

\* The header of every frame on the wire that has no options has the right
\* checksum; and once a packet that was whole in the capture has left as a
\* whole, in one frame, in fragments or as the first fragment alone, the
\* checksum of TCP or UDP is right for the addresses and the payload that left
\* (ipv4.hpp:76-104, traffic_replay.hpp:555-573,
\* ethernet_ipv4_fragmenter.hpp:118-127).  It says nothing where the code is
\* wrong: of a header with options, which gets a zero (ipv4.hpp:98), and of a
\* captured fragment, which is summed as if it were all of its datagram.
ChecksumsValid ==
    /\ \A i \in DOMAIN wire : get_length(wire[i]) = sizeof_ipv4_header_t =>
         Balanced(sum16_bits(IpHeader(wire[i])))
    /\ Complete /\ upper_protocol(given) \in {tcp, udp} /\ ~Fragmented(given) =>
         Balanced(sum16_bits(Addresses(wire[1])) + upper_protocol(wire[1])
                    + Len(Payload) + sum16_bits(Payload))

\* The bytes the replay may change in a packet: those of the checksum of TCP or
\* UDP, and with them those of the headers and the MAC addresses.
SumPlaces(frame) ==
    {Ahead(frame) + byte :
       byte \in CASE upper_protocol(frame) = tcp -> 17..18
                  [] upper_protocol(frame) = udp -> 7..8
                  [] OTHER -> {}}
Fixes ==
    (PacketLength..PacketLength + 1) \cup (FragmentOffset..FragmentOffset + 1)
      \cup (HeaderChecksum..DestinationAddress + 3)
      \cup (DstMac..SrcMac + 5)
      \cup SumPlaces(given)

\* The frames that left carry the packet that was captured, byte for byte, a
\* captured fragment too, but for lengths, fragment words, checksums and
\* addresses; each of them bears the IP addresses of the two ends in the order
\* of the network, and of TCP their MAC addresses (traffic_replay.hpp:511-690).
\* Where the code is wrong it says nothing: of the two bytes fix_checksum writes
\* into a captured fragment that is not the first, where no checksum is
\* (traffic_replay.hpp:572), and of the MAC addresses of UDP and the others,
\* which are not changed (traffic_replay.hpp:37).
OnlyFixesMade ==
    \A i \in DOMAIN wire :
      /\ Addresses(wire[i]) = ends[1].ip \o ends[2].ip
      /\ upper_protocol(given) = tcp =>
           Field(wire[i], DstMac, 12) = ends[2].mac \o ends[1].mac
      /\ LET header == SubSeq(wire[i], 1, Ahead(wire[i]))
             frame == header \o Payload
         IN  \A at \in DOMAIN frame : at \in Fixes \/ frame[at] = given[at]
=============================================================================
