------------------------------ MODULE Fragmenter ------------------------------
(***************************************************************************)
(* ethernet_ipv4_fragmenter::do_fragment                                   *)
(* (protocols/layer3/ethernet_ipv4_fragmenter.hpp): the loop that cuts an  *)
(* IPv4 packet longer than the MTU into fragments and hands each to the    *)
(* interface, which may refuse any of them.                                *)
(*                                                                         *)
(* A payload is a range of byte positions.  A fragment records the first   *)
(* position it carries and how many (what really was copied), beside what  *)
(* its header claims: the fragment_offset field, in units of 8 bytes, and  *)
(* the more-fragments flag.                                                *)
(*                                                                         *)
(* An operator named A_Something, above A, is a seeded bug: a variant of A *)
(* that Next does not use, and that breaks one of the properties.          *)
(***************************************************************************)
EXTENDS Integers, Sequences

CONSTANTS
    LengthFields,    \* what the packet_length field holds in the capture
    Caplens,         \* caplen, how many bytes of a packet were captured
    HeaderLengths,   \* what get_length() returns, 4 * IHL
    OriginalUnits    \* the fragment offset, in units, a packet comes with

mtu_default == 1500
eth_length == 14

\* Both fields have 16 bits; the capture holds at least the Ethernet header.
ASSUME FragmenterAssumption ==
    /\ \A length \in LengthFields : length \in Nat /\ length <= 65535
    /\ \A caplen \in Caplens : caplen \in Nat /\ caplen >= eth_length
    /\ \A header \in HeaderLengths : header \in Nat /\ header <= 60
    /\ \A units \in OriginalUnits : units \in Nat /\ units <= 8191

\* Only a length of zero is repaired.
Repaired_Unclipped(field, captured) == IF field = 0 THEN captured % 65536 ELSE field

\* packet_length as do_action of pcap_layer2_split_replay_t repairs it: zero
\* stands for what was captured, and it never exceeds what was captured.  The
\* field has 16 bits.
Repaired(field, captured) ==
    LET length == IF field = 0 THEN captured % 65536 ELSE field
    IN  IF length > captured THEN captured % 65536 ELSE length

\* The packets fragment() sends to do_fragment.
Packet ==
    LET captured(field, caplen, header, units) ==
            [packet_length |-> Repaired(field, caplen - eth_length),
             caplen |-> caplen, header |-> header, units |-> units]
    IN  {p \in {captured(f, c, h, u) : f \in LengthFields, c \in Caplens,
                                       h \in HeaderLengths, u \in OriginalUnits} :
            p.packet_length > mtu_default}

Fragment == [first : Nat, length : Nat, units : Nat, mf : BOOLEAN]

VARIABLES
    pc,                 \* "called", "loop" or "returned"
    packet,             \* the packet in data
    first_packet_only,  \* the fragmentation of the interface is disabled
    remaining,          \* ip_payload_length
    offset,             \* ip_fragment_offset, and current_data_offset
    ret,                \* a uint8_t
    sent                \* the fragments the interface took

vars == <<pc, packet, first_packet_only, remaining, offset, ret, sent>>

\* The payload of a fragment takes no account of its header.
ip_payload_max_Headerless == mtu_default

ip_payload_max == mtu_default - packet.header

Payload == packet.packet_length - packet.header

\* The offset in bytes.
FragmentOffset_Bytes(bytes) == bytes % 8192

\* set_fragment_offset, whose parameter is a uint16_t.
FragmentOffset(bytes) == (bytes % 65536) \div 8

Init ==
    /\ pc = "called"
    /\ packet \in Packet
    /\ first_packet_only \in BOOLEAN
    /\ remaining = 0 /\ offset = 0 /\ ret = 0
    /\ sent = << >>

\* No memory.  The two guards of do_fragment hold of every packet that comes.
Refuse ==
    /\ pc = "called"
    /\ pc' = "returned"
    /\ ret' = 0
    /\ UNCHANGED <<packet, first_packet_only, remaining, offset, sent>>

Enter ==
    /\ pc = "called"
    /\ packet.packet_length > mtu_default /\ packet.packet_length <= packet.caplen
    /\ pc' = "loop"
    /\ remaining' = Payload
    /\ offset' = 0
    /\ ret' = 0
    /\ UNCHANGED <<packet, first_packet_only, sent>>

\* The interface took the fragment, or pcap_sendpacket failed.
Send(fragment, last) ==
    \/ /\ sent' = Append(sent, fragment)
       /\ ret' = (ret + 1) % 256
       /\ pc' = IF last THEN "returned" ELSE "loop"
    \/ /\ ret' = 0
       /\ pc' = "returned"
       /\ UNCHANGED sent

\* current_data_offset and ip_fragment_offset stay.
FullFragment_Stuck ==
    /\ pc = "loop"
    /\ remaining > ip_payload_max
    /\ remaining' = remaining - ip_payload_max
    /\ Send([first |-> offset, length |-> ip_payload_max,
             units |-> IF first_packet_only THEN packet.units ELSE FragmentOffset(offset),
             mf |-> ~first_packet_only],
            first_packet_only)
    /\ UNCHANGED <<packet, first_packet_only, offset>>

\* Every fragment is cut as if more followed.
FullFragment_Always ==
    /\ pc = "loop"
    /\ remaining # 0
    /\ remaining' = remaining - ip_payload_max
    /\ offset' = offset + ip_payload_max
    /\ Send([first |-> offset, length |-> ip_payload_max,
             units |-> FragmentOffset(offset), mf |-> TRUE], remaining <= ip_payload_max)
    /\ UNCHANGED <<packet, first_packet_only>>

\* More payload than one fragment holds.
FullFragment ==
    /\ pc = "loop"
    /\ remaining > ip_payload_max
    /\ remaining' = remaining - ip_payload_max
    /\ offset' = offset + ip_payload_max
    /\ Send([first |-> offset, length |-> ip_payload_max,
             units |-> IF first_packet_only THEN packet.units ELSE FragmentOffset(offset),
             mf |-> ~first_packet_only],
            first_packet_only)
    /\ UNCHANGED <<packet, first_packet_only>>

\* The last fragment keeps the more-fragments flag set_fragment_offset sets.
LastFragment_MoreToCome ==
    /\ pc = "loop"
    /\ 0 < remaining /\ remaining <= ip_payload_max
    /\ remaining' = 0
    /\ Send([first |-> offset, length |-> remaining,
             units |-> FragmentOffset(offset), mf |-> TRUE], TRUE)
    /\ UNCHANGED <<packet, first_packet_only, offset>>

\* Neither branch takes a payload that fills the last fragment.
LastFragment_Shorter ==
    /\ pc = "loop"
    /\ 0 < remaining /\ remaining < ip_payload_max
    /\ remaining' = 0
    /\ Send([first |-> offset, length |-> remaining,
             units |-> FragmentOffset(offset), mf |-> FALSE], TRUE)
    /\ UNCHANGED <<packet, first_packet_only, offset>>

LastFragment ==
    /\ pc = "loop"
    /\ 0 < remaining /\ remaining <= ip_payload_max
    /\ remaining' = 0
    /\ Send([first |-> offset, length |-> remaining,
             units |-> FragmentOffset(offset), mf |-> FALSE], TRUE)
    /\ UNCHANGED <<packet, first_packet_only, offset>>

\* The caller comes with its next packet.
NextPacket ==
    /\ pc = "returned"
    /\ pc' = "called"
    /\ packet' \in Packet
    /\ remaining' = 0 /\ offset' = 0 /\ ret' = 0
    /\ sent' = << >>
    /\ UNCHANGED first_packet_only

Next == Refuse \/ Enter \/ FullFragment \/ LastFragment \/ NextPacket

Spec == Init /\ [][Next]_vars

\* do_fragment returns, whatever the interface does.
Fairness == WF_vars(Refuse \/ Enter \/ FullFragment \/ LastFragment)
LiveSpec == Spec /\ Fairness

-----------------------------------------------------------------------------
\* Every variable stays in its type.
TypeOK ==
    /\ pc \in {"called", "loop", "returned"}
    /\ packet \in Packet
    /\ first_packet_only \in BOOLEAN
    /\ remaining \in Nat
    /\ offset \in Nat
    /\ ret \in Nat /\ ret < 256
    /\ sent \in Seq(Fragment)

\* The fragments carry consecutive bytes of the payload from its start: none
\* is skipped, none is carried twice.
Consecutive ==
    \A i \in 1 .. Len(sent) :
        sent[i].first = IF i = 1 THEN 0 ELSE sent[i - 1].first + sent[i - 1].length

\* Only captured bytes go out, whatever length the packet claims.
WithinCapture ==
    \A i \in 1 .. Len(sent) :
        eth_length + packet.header + sent[i].first + sent[i].length <= packet.caplen

\* Every fragment carries data, and fits the MTU together with the IP header.
FitsLink ==
    \A i \in 1 .. Len(sent) :
        sent[i].length > 0 /\ packet.header + sent[i].length <= mtu_default

\* When do_fragment reports success without the first-packet hack, the whole
\* payload has gone out, and only the last fragment announces the end.
WholePacketSent ==
    pc = "returned" /\ ret # 0 /\ ~first_packet_only =>
        /\ sent[Len(sent)].first + sent[Len(sent)].length = Payload
        /\ \A i \in 1 .. Len(sent) : sent[i].mf <=> i < Len(sent)

\* Where the receiver puts a fragment, against the place of its bytes: never
\* behind it nor a unit of 8 bytes before it, so that no hole is left, and
\* exactly there when a fragment is filled by whole units.  (With 4 or 12
\* bytes of options it is not: the code cuts off the bytes beyond a unit.)
Placed(f) ==
    /\ 8 * f.units <= f.first /\ f.first < 8 * f.units + 8
    /\ ip_payload_max % 8 = 0 => 8 * f.units = f.first

\* The receiver puts each fragment of a packet where its bytes belong.  Of a
\* packet that is itself a fragment, not the first of its datagram, this says
\* nothing: the code restarts the offsets at 0 and so misplaces all its bytes.
OffsetsHonest ==
    packet.units = 0 => \A i \in 1 .. Len(sent) : Placed(sent[i])

\* The caller can add ret to its count of replayed packets: a non-zero ret is
\* the number of frames that went out, although it is counted in 8 bits.
RetCountsFrames == pc = "returned" /\ ret # 0 => ret = Len(sent)

\* The first-packet hack sends one frame that looks whole.
FakeReplaySendsOne ==
    first_packet_only => Len(sent) <= 1 /\ \A i \in 1 .. Len(sent) : ~sent[i].mf

\* do_fragment returns on every packet.
Returns == pc = "called" ~> pc = "returned"
=============================================================================
