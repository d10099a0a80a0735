-------------------------------- MODULE Headers --------------------------------
(***************************************************************************)
(* The headers of a frame as the code reads and writes them: byte order    *)
(* (endian/endianness.hpp), Ethernet (protocols/layer2/ethernet2.hpp),     *)
(* IPv4 (protocols/layer3/ipv4.hpp), the checksums of TCP and UDP          *)
(* (protocols/layer4/tcp.hpp, udp.hpp) and the sums behind them            *)
(* (crypto/checksum.hpp).                                                  *)
(*                                                                         *)
(* A frame is the sequence of its bytes.  An integer of the program is the *)
(* sequence of its bytes too, the most significant first; the host, being  *)
(* little-endian, has them in memory the other way round.                  *)
(*                                                                         *)
(* An operator X_Y is a seeded bug: what X would be with the mistake Y.    *)
(***************************************************************************)
EXTENDS Integers, Sequences, SequencesExt

\* An integer in memory, and back.
Memory(value) == Reverse(value)
FromMemory(bytes) == Reverse(bytes)

\* The fields of type *_bigendia_t: each byte goes to the other end.
save_endian(value) ==
    [i \in DOMAIN value |-> Memory(value)[Len(value) + 1 - i]]
load_endian(stored) ==
    FromMemory([i \in DOMAIN stored |-> stored[Len(stored) + 1 - i]])

\* to_rev_uint32_t, to_rev_uint16_t, ntohs: memory read as digits.
to_rev(value) == Memory(value)

Word(value) == 256 * value[1] + value[2]
uint16(number) == <<(number % 65536) \div 256, number % 256>>

Field(frame, at, length) == SubSeq(frame, at, at + length - 1)
Put(frame, at, bytes) ==
    [i \in DOMAIN frame |-> IF i \in at..(at + Len(bytes) - 1) THEN bytes[i - at + 1]
                            ELSE frame[i]]

-----------------------------------------------------------------------------
(* Where the fields begin.                                                 *)

eth_length == 14
DstMac == 1
SrcMac == 7
PayloadType == 13
VersionIhl == eth_length + 1
PacketLength == eth_length + 3
FragmentOffset == eth_length + 7
UpperProtocol == eth_length + 10
HeaderChecksum == eth_length + 11
SourceAddress == eth_length + 13
DestinationAddress == eth_length + 17
sizeof_ipv4_header_t == 20

ipv4 == 2048
tcp == 6
udp == 17

get_payload_type(frame) == Word(load_endian(Field(frame, PayloadType, 2)))
get_length(frame) == 4 * (frame[VersionIhl] % 16)
packet_length(frame) == Word(load_endian(Field(frame, PacketLength, 2)))
payload_length(frame) == (packet_length(frame) - get_length(frame)) % 65536
upper_protocol(frame) == frame[UpperProtocol]

\* The header has the length it has without options.
get_abs_upper_offset_Fixed(frame) == sizeof_ipv4_header_t + eth_length

get_abs_upper_offset(frame) == get_length(frame) + eth_length

\* The place of the checksum after the IP header: of TCP, of UDP.
CheckSum(frame) == get_abs_upper_offset(frame) + (IF upper_protocol(frame) = tcp THEN 17 ELSE 7)

set_packet_length(frame, length) == Put(frame, PacketLength, save_endian(uint16(length)))

\* Offsets have 16 bits, so that the flag is clear before it is set.
set_fragment_offset(frame, offset) ==
    Put(frame, FragmentOffset, save_endian(uint16(((offset % 65536) \div 8) + 8192)))

clear_more_fragments(frame) ==
    Put(frame, FragmentOffset,
        save_endian(uint16(Word(load_endian(Field(frame, FragmentOffset, 2))) % 8192)))

\* The MAC address of an interface is a 64-bit integer.
to_uint64_t(mac) == <<0, 0>> \o mac
update_mac(frame, at, value) ==
    Put(frame, at, [i \in 1..6 |-> Memory(value)[7 - i]])

-----------------------------------------------------------------------------
(* Sums.                                                                   *)

\* The i-th two bytes, the first weighing `high'; a last one alone counts as if
\* a zero followed.
Pair(bytes, high, low, i) ==
    high * bytes[2 * i - 1] + (IF 2 * i <= Len(bytes) THEN low * bytes[2 * i] ELSE 0)

Sum(bytes, high, low) ==
    LET pairs == (Len(bytes) + 1) \div 2
        sum[i \in 0..pairs] ==
          IF i = 0 THEN 0 ELSE sum[i - 1] + Pair(bytes, high, low, i)
    IN  sum[pairs]

sum16_bits(bytes) == Sum(bytes, 256, 1)

\* while (sum >> 16): the carries are added to the low half.
Fold(sum) ==
    LET fold[s \in Nat] == IF s < 65536 THEN s ELSE fold[(s % 65536) + (s \div 65536)]
    IN  fold[sum]

sum16bits_to_checksum(sum) == 65535 - Fold(sum)

\* calc reads 16-bit words of the host.
calc(bytes) == 65535 - Fold(Sum(bytes, 1, 256))

IpHeader(frame) == Field(frame, VersionIhl, sizeof_ipv4_header_t)
Addresses(frame) == Field(frame, SourceAddress, 8)
IpPayload(frame) == Field(frame, get_abs_upper_offset(frame) + 1, payload_length(frame))

\* A header with options is left with a checksum of zero.
fix_header_checksum(frame) ==
    LET cleared == Put(frame, HeaderChecksum, <<0, 0>>)
    IN  IF get_length(frame) # sizeof_ipv4_header_t THEN cleared
        ELSE Put(frame, HeaderChecksum,
                 save_endian(to_rev(uint16(calc(IpHeader(cleared))))))

\* The addresses are changed after the checksum.
change_ips_Late(frame, src, dst) ==
    LET fixed == fix_header_checksum(frame)
        moved == Put(fixed, SourceAddress, save_endian(to_rev(src)))
    IN  Put(moved, DestinationAddress, save_endian(to_rev(dst)))

change_ips(frame, src, dst) ==
    LET moved == Put(frame, SourceAddress, save_endian(to_rev(src)))
    IN  fix_header_checksum(Put(moved, DestinationAddress, save_endian(to_rev(dst))))

\* The frame with a zero for its checksum, and the sum over the pseudo-header
\* and the payload of the IP packet.
unsummed(frame) == Put(frame, CheckSum(frame), <<0, 0>>)
pseudo_sum(frame) ==
    sum16_bits(Addresses(frame)) + upper_protocol(frame) + payload_length(frame)
      + sum16_bits(IpPayload(unsummed(frame)))

\* eth_ipv4_tcp_header_t::fix_checksum: the field turns the bytes.
fix_tcp_checksum(frame) ==
    Put(unsummed(frame), CheckSum(frame),
        save_endian(uint16(sum16bits_to_checksum(pseudo_sum(frame)))))

\* eth_ipv4_udp_packet_t::fix_checksum: ntohs turns them.
fix_udp_checksum(frame) ==
    Put(unsummed(frame), CheckSum(frame),
        Memory(to_rev(uint16(sum16bits_to_checksum(pseudo_sum(frame))))))

fix_checksum(frame) ==
    CASE upper_protocol(frame) = tcp -> fix_tcp_checksum(frame)
      [] upper_protocol(frame) = udp -> fix_udp_checksum(frame)
      [] OTHER -> frame
=============================================================================
