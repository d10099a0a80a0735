----------------------------- MODULE MCSplitReplay -----------------------------
(* Small captures for SplitReplay, whose hosts are the keys of HostKeys.    *)
EXTENDS SplitReplay, HostKeys

End(mac, ip, port) == [mac |-> mac, ip |-> ip, port |-> port]

\* Carol is seen behind two routers, and bob at two ports.
alice == End("a", 1, 80)
bob == End("b", 2, 80)
bob_again == End("b", 2, 99)
carol == End("c", 3, 80)
carol_moved == End("r", 3, 80)

P(kind, src, dst, fragments) ==
    [kind |-> kind, src |-> host_hash(kind, src), dst |-> host_hash(kind, dst),
     fragments |-> fragments]

MCHost == {host_hash(kind, end) : kind \in {"tcp", "other"},
             end \in {alice, bob, bob_again, carol, carol_moved}}

\* A conversation, answers from a third host, traffic without ports, a capture
\* of another link type, one with no packets, and one that does not open.
MCPcap == {"talk", "third", "mixed", "raw", "empty", "broken"}
MCCorrupted == {"broken"}
MCCapture ==
    [file \in MCPcap |->
        [ethernet |-> file # "raw",
         packets |->
            CASE file = "talk"  -> <<P("tcp", alice, bob, 1), P("tcp", bob, alice, 3)>>
              [] file = "third" -> <<P("tcp", carol, bob, 1), P("tcp", bob_again, carol_moved, 1),
                                     P("udp", bob, carol, 1)>>
              [] file = "mixed" -> <<P("non_ipv4", alice, bob, 1), P("other", bob, alice, 2),
                                     P("udp", alice, alice, 1)>>
              [] file = "raw"   -> <<P("tcp", alice, bob, 1), P("udp", bob, carol, 1)>>
              [] OTHER          -> << >>]]
=============================================================================
