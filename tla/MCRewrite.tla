-------------------------------- MODULE MCRewrite --------------------------------
(* Two interfaces, a link that carries 44 bytes, and one packet of each kind: *)
(* short and long, odd, padded, cut by the capture, without a length, with    *)
(* options, a captured fragment, and one whose sum carries twice.             *)
EXTENDS Rewrite

MCInterfaces == {
    [mac |-> <<0, 12, 41, 170, 187, 1>>, ip |-> <<10, 0, 0, 1>>],
    [mac |-> <<0, 80, 86, 192, 0, 8>>, ip |-> <<172, 16, 200, 1>>] }

Frame(type, protocol, words, length, fragment, payload) ==
    <<1, 2, 3, 4, 5, 6>> \o <<11, 12, 13, 14, 15, 16>> \o uint16(type)
      \o <<64 + words, 0>> \o uint16(length) \o <<7, 7>> \o uint16(fragment)
      \o <<64, protocol, 171, 205, 192, 168, 1, 200, 192, 168, 1, 201>>
      \o [i \in 1..4 * (words - 5) |-> 1] \o payload

Bytes(length) == [i \in 1..length |-> (37 * i) % 256]
Segment(bytes) ==
    <<4, 210, 0, 80, 0, 0, 0, 1, 0, 0, 0, 2, 80, 16, 255, 255, 18, 52, 0, 0>> \o bytes
Datagram(bytes) == <<4, 210, 0, 53, 0, 8 + Len(bytes), 18, 52>> \o bytes

\* Lengths that are too long, and the zero that segmentation offload leaves.
MCFrames == {
    Frame(ipv4, tcp, 5, 40, 16384, Segment(<< >>)),
    Frame(ipv4, tcp, 5, 43, 16384, Segment(Bytes(3)) \o <<9, 9, 9, 9, 9>>),
    Frame(ipv4, tcp, 5, 42, 0, Segment(<<44, 156>>)),
    Frame(ipv4, tcp, 6, 44, 0, Segment(<< >>)),
    Frame(ipv4, tcp, 6, 71, 0, Segment(Bytes(27))),
    Frame(ipv4, tcp, 5, 0, 16384, Segment(Bytes(50))),
    Frame(ipv4, tcp, 5, 91, 0, Segment(Bytes(48))),
    Frame(ipv4, tcp, 5, 60, 185, Bytes(40)),
    Frame(ipv4, udp, 5, 33, 0, Datagram(Bytes(5))),
    Frame(ipv4, udp, 5, 69, 0, Datagram(Bytes(41))),
    Frame(ipv4, udp, 6, 80, 8192, Datagram(Bytes(48))),
    Frame(ipv4, 1, 5, 28, 0, Bytes(8)),
    Frame(ipv4, 1, 5, 68, 0, Bytes(48)),
    Frame(2054, 1, 5, 28, 0, Bytes(8)) }
=============================================================================
