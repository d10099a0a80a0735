------------------------------- MODULE HostKeys -------------------------------
(***************************************************************************)
(* The keys of the host maps: src_host_hash and dst_host_hash of           *)
(* protocols/layer3/ipv4.hpp, layer4/udp.hpp and layer4/tcp.hpp.  Each     *)
(* hashes the MAC address, the IP address and, for TCP and UDP, the port,  *)
(* one after the other with the hash so far as the start of the next; but  *)
(* nobody takes up the hash of the MAC address, and the next begins at 0.  *)
(*                                                                         *)
(* A hash stands for what went into it, in order: two keys are the same    *)
(* only if that is the same.                                               *)
(*                                                                         *)
(* The ports are the first bytes behind the IP header: what a fragment     *)
(* that is not the first one has there is its payload.                     *)
(***************************************************************************)
EXTENDS Sequences

NoHash == << >>

quick_hash(data, start_hash) == Append(start_hash, data)

\* An end of a packet: [mac, ip, port].
ipv4_host_hash(end) == quick_hash(end.ip, NoHash)

udp_host_hash(end) == quick_hash(end.port, quick_hash(end.ip, NoHash))

tcp_host_hash(end) == quick_hash(end.port, quick_hash(end.ip, NoHash))

host_hash(transport, end) ==
    CASE transport = "tcp" -> tcp_host_hash(end)
      [] transport = "udp" -> udp_host_hash(end)
      [] OTHER -> ipv4_host_hash(end)
=============================================================================
