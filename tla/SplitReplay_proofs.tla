-------------------------- MODULE SplitReplay_proofs --------------------------
(***************************************************************************)
(* The books of a replay and the sides of its hosts, for all captures.     *)
(***************************************************************************)
EXTENDS SplitReplay, TLAPS

-----------------------------------------------------------------------------
(* Types.                                                                  *)

\* The packet that is read next is a packet.
LEMMA PacketType ==
  ASSUME TypeOK, pc = "playing", next <= Len(Capture[pcap].packets)
  PROVE  packet \in Packet /\ Capture[pcap].ethernet \in BOOLEAN
<1>1. Capture[pcap] \in [ethernet : BOOLEAN, packets : Seq(Packet)]
  BY ReplayAssumption DEF TypeOK
<1>2. Capture[pcap].packets \in Seq(Packet) /\ next \in 1 .. Len(Capture[pcap].packets)
  BY <1>1 DEF TypeOK
<1> QED
  BY <1>1, <1>2 DEF packet

\* The fields of a packet that is sent.
LEMMA SentType ==
  ASSUME TypeOK, SendPacket
  PROVE  /\ packet.kind \in Transport /\ packet.src \in Host /\ packet.dst \in Host
         /\ FramesOf(packet) \in Nat \ {0}
<1>1. packet \in Packet
  BY PacketType DEF SendPacket, NextPacket
<1> QED
  BY <1>1 DEF SendPacket, FramesOf, Packet

\* Both hosts of a packet have a side after it, the source placed first, and no
\* other host is touched.
LEMMA MappedType ==
  ASSUME TypeOK, SendPacket
  PROVE  LET s == <<packet.kind, packet.src>>
             d == <<packet.kind, packet.dst>>
         IN  /\ m_host_map' \in [Transport \X Host -> Side \cup {"none"}]
             /\ m_host_map'[s] = IF m_host_map[s] = "none" THEN "source" ELSE m_host_map[s]
             /\ d # s => m_host_map'[d] = IF m_host_map[d] = "none" THEN "destination"
                                          ELSE m_host_map[d]
             /\ \A key \in Transport \X Host :
                  key # s /\ key # d => m_host_map'[key] = m_host_map[key]
<1> DEFINE s == <<packet.kind, packet.src>>
           d == <<packet.kind, packet.dst>>
           first == Place(m_host_map, s, "source")
<1>0. "source" \in Side /\ "destination" \in Side
  BY DEF Side
<1>1. s \in Transport \X Host /\ d \in Transport \X Host
  BY SentType
<1>2. m_host_map' = Place(first, d, "destination")
  BY DEF SendPacket, Mapped
<1>3. /\ first \in [Transport \X Host -> Side \cup {"none"}]
      /\ first[s] = IF m_host_map[s] = "none" THEN "source" ELSE m_host_map[s]
      /\ \A other \in Transport \X Host : other # s => first[other] = m_host_map[other]
  <2>1. m_host_map \in [Transport \X Host -> Side \cup {"none"}]
    BY DEF TypeOK
  <2> QED
    BY <1>0, <1>1, <2>1 DEF Place
<1> HIDE DEF first
<1>4. /\ m_host_map' \in [Transport \X Host -> Side \cup {"none"}]
      /\ m_host_map'[d] = IF first[d] = "none" THEN "destination" ELSE first[d]
      /\ \A other \in Transport \X Host : other # d => m_host_map'[other] = first[other]
  BY <1>0, <1>1, <1>2, <1>3 DEF Place
<1>5. m_host_map'[s] = IF m_host_map[s] = "none" THEN "source" ELSE m_host_map[s]
  <2>1. CASE s = d
    <3>1. first[d] # "none"
      BY <1>3, <2>1
    <3> QED
      BY <1>3, <1>4, <2>1, <3>1
  <2>2. CASE s # d
    BY <1>1, <1>3, <1>4, <2>2
  <2> QED
    BY <2>1, <2>2
<1>6. d # s => m_host_map'[d] = IF m_host_map[d] = "none" THEN "destination" ELSE m_host_map[d]
  BY <1>1, <1>3, <1>4
<1>7. \A key \in Transport \X Host : key # s /\ key # d => m_host_map'[key] = m_host_map[key]
  BY <1>3, <1>4
<1> QED
  BY <1>4, <1>5, <1>6, <1>7 DEF s, d

\* The initial types.
LEMMA InitTypes == Init => TypeOK
<1> SUFFICES ASSUME Init PROVE TypeOK
  OBVIOUS
<1>1. m_host_map \in [Transport \X Host -> Side \cup {"none"}]
  BY DEF Init, NoHosts
<1>2. /\ corrupted_pcaps \in Seq(Pcap) /\ failed_replays_pcaps \in Seq(Pcap)
      /\ l2_non_supported_replays_pcaps \in Seq(Pcap)
  BY DEF Init
<1> QED
  BY <1>1, <1>2 DEF Init, TypeOK

\* A step keeps the types.
LEMMA TypeStep == TypeOK /\ [Next]_vars => TypeOK'
<1> SUFFICES ASSUME TypeOK, [Next]_vars PROVE TypeOK'
  OBVIOUS
<1> USE DEF TypeOK, counters, totals, lists, history
<1>1. ASSUME NEW file \in Pcap, OpenPcap(file) PROVE TypeOK'
  <2>1. Append(corrupted_pcaps, file) \in Seq(Pcap)
    BY <1>1
  <2>2. corrupted_pcaps' \in Seq(Pcap)
    BY <1>1, <2>1 DEF OpenPcap
  <2> QED
    BY <1>1, <2>2 DEF OpenPcap
<1>2. CASE NotEthernet
  BY <1>2 DEF NotEthernet, NextPacket
<1>3. CASE NotIPv4
  BY <1>3 DEF NotIPv4, NextPacket
<1>4. CASE SendPacket
  <2>1. /\ packet.kind \in Transport /\ packet.src \in Host /\ packet.dst \in Host
        /\ FramesOf(packet) \in Nat \ {0}
    BY <1>4, SentType
  <2>2. m_host_map' \in [Transport \X Host -> Side \cup {"none"}]
    BY <1>4, MappedType
  <2>3. talked' \subseteq Transport \X Host \X Host
    BY <1>4, <2>1 DEF SendPacket
  <2>5. PICK taken \in 0 .. FramesOf(packet) :
          /\ frames' = frames + taken
          /\ IF taken = FramesOf(packet)
               THEN /\ m_pkt_replayed' = m_pkt_replayed + taken
                    /\ delivered' = delivered + 1
                    /\ UNCHANGED <<m_failed_ptk_count, partial>>
               ELSE /\ m_failed_ptk_count' = m_failed_ptk_count + 1
                    /\ partial' = partial + taken
                    /\ UNCHANGED <<m_pkt_replayed, delivered>>
    BY <1>4 DEF Counted, SendPacket
  <2>6. taken \in Nat
    BY <2>1
  <2>7. /\ m_pkt_replayed' \in Nat /\ m_failed_ptk_count' \in Nat
        /\ delivered' \in Nat /\ partial' \in Nat /\ frames' \in Nat
    BY <2>5, <2>6
  <2> QED
    BY <1>4, <2>2, <2>3, <2>7 DEF Counted, SendPacket, NextPacket
<1>5. CASE EndPcap
  <2>1. /\ failed_replays_pcaps' \in Seq(Pcap)
        /\ l2_non_supported_replays_pcaps' \in Seq(Pcap)
    <3>1. \A list \in Seq(Pcap), condition \in BOOLEAN : Listed(list, condition) \in Seq(Pcap)
      BY DEF Listed
    <3>2. (m_l2_non_sp_ptk > 0) \in BOOLEAN /\ (m_failed_ptk_count > 0) \in BOOLEAN
      OBVIOUS
    <3> QED
      BY <1>5, <3>1, <3>2 DEF EndPcap, clean_stats
  <2>2. failed_packet_count' \in Nat /\ l2_non_supported_packet_count' \in Nat
    BY <1>5 DEF EndPcap, clean_stats
  <2> QED
    BY <1>5, <2>1, <2>2 DEF EndPcap, clean_stats
<1>6. CASE EndReplay
  <2>1. m_host_map' \in [Transport \X Host -> Side \cup {"none"}]
    BY <1>6 DEF EndReplay, NoHosts
  <2>2. /\ corrupted_pcaps' \in Seq(Pcap) /\ failed_replays_pcaps' \in Seq(Pcap)
        /\ l2_non_supported_replays_pcaps' \in Seq(Pcap)
    BY <1>6 DEF EndReplay
  <2> QED
    BY <1>6, <2>1, <2>2 DEF EndReplay
<1>7. CASE UNCHANGED vars
  BY <1>7 DEF vars
<1> QED
  BY <1>1, <1>2, <1>3, <1>4, <1>5, <1>6, <1>7 DEF Next

\* The variables of a replay stay in their types.
THEOREM TypeCorrect == Spec => []TypeOK
  BY InitTypes, TypeStep, PTL DEF Spec

-----------------------------------------------------------------------------
(* The books.  Between two pcaps the counters of the pcap are clear; a     *)
(* total that is not zero has put a pcap on its list; and a pcap, being of *)
(* one link type, cannot be on two lists.                                  *)

CleanInv ==
    pc = "idle" => /\ m_pkt_count = 0 /\ m_pkt_replayed = 0
                   /\ m_failed_ptk_count = 0 /\ m_l2_non_sp_ptk = 0

LinkInv ==
    pc = "playing" => IF Capture[pcap].ethernet THEN m_l2_non_sp_ptk = 0
                                               ELSE m_failed_ptk_count = 0

ListedInv ==
    /\ failed_packet_count > 0 => failed_replays_pcaps # << >>
    /\ l2_non_supported_packet_count > 0 => l2_non_supported_replays_pcaps # << >>
    /\ Len(failed_replays_pcaps) <= failed_packet_count
    /\ Len(l2_non_supported_replays_pcaps) <= l2_non_supported_packet_count
    /\ Len(corrupted_pcaps) + Len(failed_replays_pcaps) + Len(l2_non_supported_replays_pcaps)
         + (IF pc = "playing" THEN 1 ELSE 0) <= pcap_count

BooksInv == PacketsAccounted /\ FramesAccounted /\ CleanInv /\ LinkInv /\ ListedInv

\* The books balance at the start of a replay.
LEMMA BooksInit == Init => BooksInv
<1> SUFFICES ASSUME Init PROVE BooksInv
  OBVIOUS
<1>1. /\ Len(corrupted_pcaps) = 0 /\ Len(failed_replays_pcaps) = 0
      /\ Len(l2_non_supported_replays_pcaps) = 0
  BY DEF Init
<1> QED
  BY <1>1 DEF Init, BooksInv, PacketsAccounted, FramesAccounted, CleanInv, LinkInv, ListedInv

\* A list with the pcap at its end is one longer.
LEMMA ListedLength ==
  ASSUME TypeOK, NEW list \in Seq(Pcap)
  PROVE  /\ Len(list) \in Nat
         /\ Len(Append(list, pcap)) = Len(list) + 1
         /\ Append(list, pcap) # << >>
<1>1. pcap \in Pcap
  BY DEF TypeOK
<1>2. Len(list) \in Nat /\ Len(Append(list, pcap)) = Len(list) + 1
  BY <1>1
<1>3. Len(<< >>) = 0
  OBVIOUS
<1> QED
  BY <1>2, <1>3

\* The sending of a packet keeps the books.
LEMMA BooksSend ==
  ASSUME TypeOK, BooksInv, SendPacket
  PROVE  BooksInv'
<1>1. FramesOf(packet) \in Nat
  BY SentType
<1>2. PICK taken \in 0 .. FramesOf(packet) :
        /\ frames' = frames + taken
        /\ IF taken = FramesOf(packet)
             THEN /\ m_pkt_replayed' = m_pkt_replayed + taken
                  /\ delivered' = delivered + 1
                  /\ UNCHANGED <<m_failed_ptk_count, partial>>
             ELSE /\ m_failed_ptk_count' = m_failed_ptk_count + 1
                  /\ partial' = partial + taken
                  /\ UNCHANGED <<m_pkt_replayed, delivered>>
  BY DEF Counted, SendPacket
<1>3. taken \in Nat
  BY <1>1
<1>4. PacketsAccounted'
  BY <1>2 DEF BooksInv, TypeOK, PacketsAccounted, SendPacket, NextPacket, totals
<1>5. FramesAccounted'
  <2>1. replayed_packet_count' = replayed_packet_count
    BY DEF SendPacket, NextPacket, totals
  <2>2. CASE taken = FramesOf(packet)
    BY <1>2, <1>3, <2>1, <2>2 DEF BooksInv, TypeOK, FramesAccounted
  <2>3. CASE taken # FramesOf(packet)
    BY <1>2, <1>3, <2>1, <2>3 DEF BooksInv, TypeOK, FramesAccounted
  <2> QED
    BY <2>2, <2>3
<1>6. CleanInv' /\ LinkInv' /\ ListedInv'
  BY DEF BooksInv, CleanInv, LinkInv, ListedInv, SendPacket, NextPacket, totals, lists
<1> QED
  BY <1>4, <1>5, <1>6 DEF BooksInv

\* The end of a pcap keeps the books.
LEMMA BooksEnd ==
  ASSUME TypeOK, BooksInv, EndPcap
  PROVE  BooksInv'
<1> DEFINE lost == m_failed_ptk_count > 0
           alien == m_l2_non_sp_ptk > 0
<1>1. /\ failed_replays_pcaps' = Listed(failed_replays_pcaps, lost)
      /\ l2_non_supported_replays_pcaps' = Listed(l2_non_supported_replays_pcaps, alien)
      /\ failed_packet_count' = failed_packet_count + m_failed_ptk_count
      /\ l2_non_supported_packet_count' = l2_non_supported_packet_count + m_l2_non_sp_ptk
  <2>1. /\ failed_packet_count \in Nat /\ l2_non_supported_packet_count \in Nat
        /\ m_failed_ptk_count \in Nat /\ m_l2_non_sp_ptk \in Nat
    BY DEF TypeOK
  <2>2. CASE HasBadPackets
    BY <2>2 DEF EndPcap, clean_stats
  <2>3. CASE ~HasBadPackets
    <3>1. ~lost /\ ~alien
      BY <2>3 DEF HasBadPackets
    <3>2. m_failed_ptk_count = 0 /\ m_l2_non_sp_ptk = 0
      BY <2>1, <3>1
    <3>3. UNCHANGED <<l2_non_supported_replays_pcaps, failed_replays_pcaps,
                      failed_packet_count, l2_non_supported_packet_count>>
      BY <2>3 DEF EndPcap, clean_stats
    <3> QED
      BY <2>1, <3>1, <3>2, <3>3 DEF Listed
  <2> QED
    BY <2>2, <2>3
<1>2. /\ Len(failed_replays_pcaps) \in Nat
      /\ lost => /\ Len(failed_replays_pcaps') = Len(failed_replays_pcaps) + 1
                 /\ failed_replays_pcaps' # << >>
      /\ ~lost => failed_replays_pcaps' = failed_replays_pcaps
  <2>1. failed_replays_pcaps \in Seq(Pcap)
    BY DEF TypeOK
  <2>2. /\ lost => failed_replays_pcaps' = Append(failed_replays_pcaps, pcap)
        /\ ~lost => failed_replays_pcaps' = failed_replays_pcaps
    BY <1>1 DEF Listed
  <2> HIDE DEF lost
  <2> QED
    BY <2>1, <2>2, ListedLength
<1>3. /\ Len(l2_non_supported_replays_pcaps) \in Nat
      /\ alien => /\ Len(l2_non_supported_replays_pcaps') = Len(l2_non_supported_replays_pcaps) + 1
                  /\ l2_non_supported_replays_pcaps' # << >>
      /\ ~alien => l2_non_supported_replays_pcaps' = l2_non_supported_replays_pcaps
  <2>1. l2_non_supported_replays_pcaps \in Seq(Pcap)
    BY DEF TypeOK
  <2>2. /\ alien => l2_non_supported_replays_pcaps' = Append(l2_non_supported_replays_pcaps, pcap)
        /\ ~alien => l2_non_supported_replays_pcaps' = l2_non_supported_replays_pcaps
    BY <1>1 DEF Listed
  <2> HIDE DEF alien
  <2> QED
    BY <2>1, <2>2, ListedLength
<1>4. PacketsAccounted' /\ FramesAccounted'
  BY <1>1 DEF BooksInv, TypeOK, PacketsAccounted, FramesAccounted, EndPcap, clean_stats, history
<1>5. CleanInv' /\ LinkInv'
  BY DEF CleanInv, LinkInv, EndPcap, clean_stats
<1>6. Len(corrupted_pcaps) \in Nat
  BY DEF TypeOK
<1>7. ListedInv'
  <2>1. ~(lost /\ alien)
    BY DEF BooksInv, LinkInv, EndPcap, clean_stats, TypeOK
  <2>2. /\ failed_packet_count' > 0 => failed_replays_pcaps' # << >>
        /\ Len(failed_replays_pcaps') <= failed_packet_count'
    BY <1>1, <1>2 DEF BooksInv, ListedInv, TypeOK, Listed
  <2>3. /\ l2_non_supported_packet_count' > 0 => l2_non_supported_replays_pcaps' # << >>
        /\ Len(l2_non_supported_replays_pcaps') <= l2_non_supported_packet_count'
    BY <1>1, <1>3 DEF BooksInv, ListedInv, TypeOK, Listed
  <2>4. Len(corrupted_pcaps) + Len(failed_replays_pcaps') + Len(l2_non_supported_replays_pcaps')
          <= pcap_count
    BY <1>2, <1>3, <1>6, <2>1 DEF BooksInv, ListedInv, EndPcap, clean_stats, TypeOK
  <2> QED
    BY <2>2, <2>3, <2>4 DEF ListedInv, EndPcap, clean_stats
<1> QED
  BY <1>4, <1>5, <1>7 DEF BooksInv

\* A step keeps the books.
LEMMA BooksStep == TypeOK /\ BooksInv /\ [Next]_vars => BooksInv'
<1> SUFFICES ASSUME TypeOK, BooksInv, [Next]_vars PROVE BooksInv'
  OBVIOUS
<1>1. ASSUME NEW file \in Pcap, OpenPcap(file) PROVE BooksInv'
  <2>1. /\ Len(corrupted_pcaps) \in Nat
        /\ Len(Append(corrupted_pcaps, file)) = Len(corrupted_pcaps) + 1
    BY <1>1 DEF TypeOK
  <2>2. /\ Len(failed_replays_pcaps) \in Nat /\ Len(l2_non_supported_replays_pcaps) \in Nat
    BY DEF TypeOK
  <2>3. PacketsAccounted' /\ FramesAccounted'
    BY <1>1 DEF OpenPcap, BooksInv, PacketsAccounted, FramesAccounted, counters, totals, history
  <2>4. CleanInv' /\ LinkInv'
    BY <1>1 DEF OpenPcap, BooksInv, CleanInv, LinkInv, counters
  <2>5. ListedInv'
    BY <1>1, <2>1, <2>2 DEF OpenPcap, BooksInv, ListedInv, totals, TypeOK
  <2> QED
    BY <2>3, <2>4, <2>5 DEF BooksInv
<1>2. CASE NotEthernet
  BY <1>2 DEF NotEthernet, NextPacket, BooksInv, PacketsAccounted, FramesAccounted, CleanInv,
    LinkInv, ListedInv, totals, lists, TypeOK
<1>3. CASE NotIPv4
  BY <1>3 DEF NotIPv4, NextPacket, BooksInv, PacketsAccounted, FramesAccounted, CleanInv,
    LinkInv, ListedInv, totals, lists, TypeOK
<1>4. CASE SendPacket
  BY <1>4, BooksSend
<1>5. CASE EndPcap
  BY <1>5, BooksEnd
<1>6. CASE EndReplay
  <2>1. /\ Len(corrupted_pcaps') = 0 /\ Len(failed_replays_pcaps') = 0
        /\ Len(l2_non_supported_replays_pcaps') = 0
    BY <1>6 DEF EndReplay
  <2> QED
    BY <1>6, <2>1 DEF EndReplay, BooksInv, PacketsAccounted, FramesAccounted, CleanInv,
      LinkInv, ListedInv
<1>7. CASE UNCHANGED vars
  BY <1>7 DEF vars, counters, totals, lists, history, BooksInv, PacketsAccounted,
    FramesAccounted, CleanInv, LinkInv, ListedInv
<1> QED
  BY <1>1, <1>2, <1>3, <1>4, <1>5, <1>6, <1>7 DEF Next

\* The books balance throughout.
LEMMA BooksInvariant == Spec => []BooksInv
  BY BooksInit, BooksStep, TypeCorrect, PTL DEF Spec

\* Every packet read is accounted for exactly once, over any number of pcaps.
THEOREM PacketsBalance == Spec => []PacketsAccounted
<1>1. BooksInv => PacketsAccounted
  BY DEF BooksInv
<1> QED
  BY <1>1, BooksInvariant, PTL

\* The replayed packets reported are the frames that went out, less those of
\* packets that broke off.
THEOREM FramesBalance == Spec => []FramesAccounted
<1>1. BooksInv => FramesAccounted
  BY DEF BooksInv
<1> QED
  BY <1>1, BooksInvariant, PTL

\* "Successfully replay." is the truth: every IPv4 packet went out as a whole.
THEOREM SuccessIsTrue == Spec => []SuccessMeansDelivered
<1>1. TypeOK /\ BooksInv => SuccessMeansDelivered
  <2> SUFFICES ASSUME TypeOK, BooksInv, pc = "idle", failed_replays_pcaps = << >>,
                      l2_non_supported_replays_pcaps = << >>
               PROVE  delivered + skipped = packet_count
    BY DEF SuccessMeansDelivered
  <2>1. failed_packet_count = 0 /\ l2_non_supported_packet_count = 0
    BY DEF BooksInv, ListedInv, TypeOK
  <2>2. m_pkt_count = 0 /\ m_failed_ptk_count = 0 /\ m_l2_non_sp_ptk = 0
    BY DEF BooksInv, CleanInv
  <2> QED
    BY <2>1, <2>2 DEF BooksInv, PacketsAccounted, TypeOK
<1> QED
  BY <1>1, BooksInvariant, TypeCorrect, PTL

\* The three lists of pcaps name no pcap twice and none without a cause.
THEOREM ListsBalance == Spec => []ListsAccounted
<1>1. TypeOK /\ BooksInv => ListsAccounted
  <2> SUFFICES ASSUME TypeOK, BooksInv PROVE ListsAccounted
    OBVIOUS
  <2>1. /\ Len(corrupted_pcaps) \in Nat /\ Len(failed_replays_pcaps) \in Nat
        /\ Len(l2_non_supported_replays_pcaps) \in Nat
    BY DEF TypeOK
  <2> QED
    BY <2>1 DEF BooksInv, ListedInv, ListsAccounted, TypeOK
<1> QED
  BY <1>1, BooksInvariant, TypeCorrect, PTL

-----------------------------------------------------------------------------
(* The sides.                                                              *)

\* Only a packet or the end of the replay changes the map of the hosts.
LEMMA MapChanges ==
  ASSUME [Next]_vars
  PROVE  SendPacket \/ EndReplay \/ UNCHANGED <<m_host_map, talked>>
  BY DEF Next, vars, OpenPcap, NotEthernet, NotIPv4, EndPcap, clean_stats, history

\* No host changes interface within a replay.
THEOREM SidesNeverChange == Spec => SidesFixed
<1>1. TypeOK /\ [Next]_vars =>
        [\A key \in Transport \X Host :
            m_host_map[key] # "none" => m_host_map'[key] = m_host_map[key] \/ EndReplay]_vars
  <2> SUFFICES ASSUME TypeOK, [Next]_vars, ~EndReplay,
                      NEW key \in Transport \X Host, m_host_map[key] # "none"
               PROVE  m_host_map'[key] = m_host_map[key]
    OBVIOUS
  <2>1. CASE SendPacket
    BY <2>1, MappedType
  <2>2. CASE UNCHANGED m_host_map
    BY <2>2
  <2> QED
    BY <2>1, <2>2, MapChanges
<1> QED
  BY <1>1, TypeCorrect, PTL DEF Spec, SidesFixed

\* A host has a side once it was the source or the destination of a packet.
Placed ==
    \A kind \in Transport : \A a \in Host :
        m_host_map[<<kind, a>>] # "none" <=> \E t \in talked : t[1] = kind /\ a \in {t[2], t[3]}

\* Sending keeps the hosts of packets placed.
LEMMA PlacedSend ==
  ASSUME TypeOK, Placed, SendPacket
  PROVE  Placed'
<1> SUFFICES ASSUME NEW kind \in Transport, NEW a \in Host
             PROVE  m_host_map'[<<kind, a>>] # "none"
                      <=> \E t \in talked' : t[1] = kind /\ a \in {t[2], t[3]}
  BY DEF Placed
<1> DEFINE p == <<packet.kind, packet.src, packet.dst>>
<1>1. talked' = talked \cup {p} /\ p[1] = packet.kind /\ p[2] = packet.src /\ p[3] = packet.dst
  BY DEF SendPacket
<1>2. packet.kind \in Transport /\ packet.src \in Host /\ packet.dst \in Host
  BY SentType
<1> HIDE DEF p
<1>3. CASE kind = packet.kind /\ a \in {packet.src, packet.dst}
  <2>1. m_host_map'[<<kind, a>>] # "none"
    BY <1>2, <1>3, MappedType
  <2> QED
    BY <1>1, <1>3, <2>1
<1>4. CASE ~(kind = packet.kind /\ a \in {packet.src, packet.dst})
  <2>1. <<kind, a>> \in Transport \X Host
        /\ <<kind, a>> # <<packet.kind, packet.src>> /\ <<kind, a>> # <<packet.kind, packet.dst>>
    BY <1>4
  <2>2. m_host_map'[<<kind, a>>] = m_host_map[<<kind, a>>]
    BY <2>1, MappedType
  <2> QED
    BY <1>1, <1>4, <2>2 DEF Placed
<1> QED
  BY <1>3, <1>4

\* Sending keeps the two hosts of an exclusive conversation apart.
LEMMA PairsSend ==
  ASSUME TypeOK, Placed, PairsAreSplit, SendPacket
  PROVE  PairsAreSplit'
<1> SUFFICES ASSUME NEW kind \in Transport, NEW a \in Host, NEW b \in Host, a # b,
                    \E t \in talked' : t[1] = kind /\ {t[2], t[3]} = {a, b},
                    \A t \in talked' :
                        t[1] = kind /\ {t[2], t[3]} \cap {a, b} # {} => {t[2], t[3]} = {a, b}
             PROVE  m_host_map'[<<kind, a>>] # m_host_map'[<<kind, b>>]
  BY DEF PairsAreSplit
<1> DEFINE p == <<packet.kind, packet.src, packet.dst>>
<1>1. talked' = talked \cup {p} /\ p[1] = packet.kind /\ p[2] = packet.src /\ p[3] = packet.dst
  BY DEF SendPacket
<1>2. packet.kind \in Transport /\ packet.src \in Host /\ packet.dst \in Host
  BY SentType
<1>3. \A t \in talked : t[1] = kind /\ {t[2], t[3]} \cap {a, b} # {} => {t[2], t[3]} = {a, b}
  BY <1>1
<1> HIDE DEF p
<1>4. CASE kind = packet.kind /\ {packet.src, packet.dst} = {a, b}
  <2>1. CASE \E t \in talked : t[1] = kind /\ {t[2], t[3]} = {a, b}
    <3>1. m_host_map[<<kind, a>>] # m_host_map[<<kind, b>>]
      BY <1>3, <2>1 DEF PairsAreSplit
    <3>2. m_host_map[<<kind, a>>] # "none" /\ m_host_map[<<kind, b>>] # "none"
      BY <2>1 DEF Placed
    <3> QED
      BY <1>2, <1>4, <3>1, <3>2, MappedType
  <2>2. CASE ~ \E t \in talked : t[1] = kind /\ {t[2], t[3]} = {a, b}
    <3>1. \A t \in talked : t[1] = kind => a \notin {t[2], t[3]} /\ b \notin {t[2], t[3]}
      BY <1>3, <2>2
    <3>2. m_host_map[<<kind, a>>] = "none" /\ m_host_map[<<kind, b>>] = "none"
      BY <3>1 DEF Placed
    <3>3. packet.src # packet.dst
      BY <1>4
    <3>4. m_host_map'[<<kind, packet.src>>] = "source"
          /\ m_host_map'[<<kind, packet.dst>>] = "destination"
      BY <1>2, <1>4, <3>2, <3>3, MappedType
    <3> QED
      BY <1>4, <3>4
  <2> QED
    BY <2>1, <2>2
<1>5. CASE ~(kind = packet.kind /\ {packet.src, packet.dst} = {a, b})
  <2>1. kind = packet.kind => {packet.src, packet.dst} \cap {a, b} = {}
    BY <1>1, <1>5
  <2>2. \E t \in talked : t[1] = kind /\ {t[2], t[3]} = {a, b}
    BY <1>1, <1>5
  <2>3. m_host_map[<<kind, a>>] # m_host_map[<<kind, b>>]
    BY <1>3, <2>2 DEF PairsAreSplit
  <2>4. m_host_map'[<<kind, a>>] = m_host_map[<<kind, a>>]
        /\ m_host_map'[<<kind, b>>] = m_host_map[<<kind, b>>]
    BY <1>2, <2>1, MappedType
  <2> QED
    BY <2>3, <2>4
<1> QED
  BY <1>4, <1>5

\* Two hosts that only talk to each other replay through opposite interfaces,
\* whatever else is in the captures.
THEOREM PairsStaySplit == Spec => []PairsAreSplit
<1>1. Init => Placed /\ PairsAreSplit
  BY DEF Init, NoHosts, Placed, PairsAreSplit
<1>2. TypeOK /\ Placed /\ PairsAreSplit /\ [Next]_vars => (Placed /\ PairsAreSplit)'
  <2> SUFFICES ASSUME TypeOK, Placed, PairsAreSplit, [Next]_vars
               PROVE  Placed' /\ PairsAreSplit'
    OBVIOUS
  <2>1. CASE SendPacket
    BY <2>1, PlacedSend, PairsSend
  <2>2. CASE EndReplay
    BY <2>2 DEF EndReplay, NoHosts, Placed, PairsAreSplit
  <2>3. CASE UNCHANGED <<m_host_map, talked>>
    BY <2>3 DEF Placed, PairsAreSplit
  <2> QED
    BY <2>1, <2>2, <2>3, MapChanges
<1> QED
  BY <1>1, <1>2, TypeCorrect, PTL DEF Spec
=============================================================================
