--------------------------- MODULE Fragmenter_proofs ---------------------------
(***************************************************************************)
(* do_fragment for every captured packet: what Fragmenter's runs show on   *)
(* packets at the boundaries holds for all of them.                        *)
(***************************************************************************)
EXTENDS Fragmenter, TLAPS

-----------------------------------------------------------------------------
(* The repaired length and the packets it lets through.                    *)

\* What do_action leaves in packet_length was captured, and fits its 16 bits.
LEMMA RepairedBound ==
  ASSUME NEW field \in Nat, field <= 65535, NEW captured \in Nat
  PROVE  /\ Repaired(field, captured) \in Nat
         /\ Repaired(field, captured) <= 65535
         /\ Repaired(field, captured) <= captured
<1>1. /\ captured % 65536 \in Nat
      /\ captured % 65536 <= 65535
      /\ captured % 65536 <= captured
  OBVIOUS
<1> QED
  BY <1>1 DEF Repaired

\* The numbers do_fragment computes with.
PacketNumbers(p) ==
    /\ p.packet_length \in Nat /\ p.packet_length > 1500 /\ p.packet_length <= 65535
    /\ p.header \in Nat /\ p.header <= 60
    /\ p.units \in Nat
    /\ p.caplen \in Nat /\ p.packet_length + 14 <= p.caplen

\* Every packet that reaches do_fragment has them.
LEMMA PacketBounds == \A p \in Packet : PacketNumbers(p)
<1> SUFFICES ASSUME NEW p \in Packet PROVE PacketNumbers(p)
  OBVIOUS
<1>1. PICK f \in LengthFields, c \in Caplens, h \in HeaderLengths, u \in OriginalUnits :
        p = [packet_length |-> Repaired(f, c - eth_length), caplen |-> c, header |-> h, units |-> u]
  BY DEF Packet
<1>2. /\ f \in Nat /\ f <= 65535
      /\ c \in Nat /\ c - eth_length \in Nat
      /\ h \in Nat /\ h <= 60
      /\ u \in Nat
  BY FragmenterAssumption DEF eth_length
<1>3. /\ Repaired(f, c - eth_length) \in Nat
      /\ Repaired(f, c - eth_length) <= 65535
      /\ Repaired(f, c - eth_length) <= c - eth_length
  BY <1>2, RepairedBound
<1>4. p.packet_length > 1500
  BY DEF Packet, mtu_default
<1> QED
  BY <1>1, <1>2, <1>3, <1>4 DEF eth_length, PacketNumbers

\* A fragment offset is rounded down to units; a multiple of 8 is kept.
LEMMA OffsetExact ==
  ASSUME NEW bytes \in Nat, bytes <= 65535
  PROVE  /\ FragmentOffset(bytes) \in Nat
         /\ 8 * FragmentOffset(bytes) <= bytes
         /\ bytes < 8 * FragmentOffset(bytes) + 8
         /\ (bytes % 8 = 0 => 8 * FragmentOffset(bytes) = bytes)
<1>1. bytes % 65536 = bytes
  OBVIOUS
<1>2. /\ bytes \div 8 \in Nat
      /\ 8 * (bytes \div 8) <= bytes /\ bytes < 8 * (bytes \div 8) + 8
      /\ (bytes % 8 = 0 => 8 * (bytes \div 8) = bytes)
  OBVIOUS
<1> QED
  BY <1>1, <1>2 DEF FragmentOffset

-----------------------------------------------------------------------------
(* The loop.                                                               *)

\* Before the loop nothing has happened.
CalledInv == pc = "called" => remaining = 0 /\ offset = 0 /\ ret = 0 /\ sent = << >>

\* In the loop the payload splits into what was cut off, offset, and what
\* remains; every fragment cut off took 1440 bytes at least, and was sent.
LoopInv ==
    pc = "loop" =>
        /\ remaining > 0
        /\ offset + remaining = Payload
        /\ ret = Len(sent)
        /\ 1440 * Len(sent) <= offset
        /\ first_packet_only => sent = << >>
        /\ \A i \in 1 .. Len(sent) : sent[i].mf
        /\ offset = IF sent = << >> THEN 0
                    ELSE sent[Len(sent)].first + sent[Len(sent)].length
        /\ (mtu_default - packet.header) % 8 = 0 => offset % 8 = 0

\* No fragment reaches past the payload.
PayloadInv == \A i \in 1 .. Len(sent) : sent[i].first + sent[i].length <= Payload

ResultInv == WholePacketSent /\ RetCountsFrames /\ FakeReplaySendsOne

FragmentsInv == Consecutive /\ FitsLink /\ PayloadInv /\ OffsetsHonest

Inv == TypeOK /\ CalledInv /\ LoopInv /\ FragmentsInv /\ ResultInv

\* Nothing is sent at the start.
LEMMA InitInv == Init => Inv
<1> SUFFICES ASSUME Init PROVE Inv
  OBVIOUS
<1>1. sent \in Seq(Fragment) /\ Len(sent) = 0
  BY DEF Init
<1> QED
  BY <1>1 DEF Init, Inv, TypeOK, CalledInv, LoopInv, FragmentsInv, ResultInv, Consecutive,
    FitsLink, PayloadInv, OffsetsHonest, WholePacketSent, RetCountsFrames, FakeReplaySendsOne

\* Reading a sequence of fragments with one more at its end.
LEMMA Appended ==
  ASSUME sent \in Seq(Fragment), NEW f \in Fragment, sent' = Append(sent, f)
  PROVE  /\ sent' \in Seq(Fragment)
         /\ Len(sent) \in Nat /\ Len(sent') = Len(sent) + 1
         /\ sent'[Len(sent) + 1] = f
         /\ \A i \in 1 .. Len(sent) : sent'[i] = sent[i] /\ sent[i] \in Fragment
  OBVIOUS

\* A fragment that starts where the last one ended keeps the fragments in
\* order, within the link and within the payload.
LEMMA FragmentKeeps ==
  ASSUME TypeOK, FragmentsInv, NEW f \in Fragment,
         sent' = Append(sent, f),
         packet' = packet, first_packet_only' = first_packet_only,
         f.first = IF sent = << >> THEN 0 ELSE sent[Len(sent)].first + sent[Len(sent)].length,
         f.length > 0,
         packet.header + f.length <= mtu_default,
         f.first + f.length <= Payload,
         packet.units = 0 => Placed(f)
  PROVE  FragmentsInv'
<1>1. /\ Len(sent) \in Nat /\ Len(sent') = Len(sent) + 1
      /\ sent'[Len(sent) + 1] = f
      /\ \A i \in 1 .. Len(sent) : sent'[i] = sent[i]
  BY Appended DEF TypeOK
<1>2. 1 .. Len(sent') = 1 .. Len(sent) \cup {Len(sent) + 1}
  BY <1>1
<1>3. Payload' = Payload
  BY DEF Payload
<1>4. Consecutive'
  <2> SUFFICES ASSUME NEW i \in 1 .. Len(sent')
               PROVE  sent'[i].first = IF i = 1 THEN 0 ELSE sent'[i - 1].first + sent'[i - 1].length
    BY DEF Consecutive
  <2>1. CASE i \in 1 .. Len(sent)
    <3>1. i # 1 => i - 1 \in 1 .. Len(sent)
      BY <1>1, <2>1
    <3> QED
      BY <1>1, <2>1, <3>1 DEF FragmentsInv, Consecutive
  <2>2. CASE i = Len(sent) + 1
    <3>1. sent = << >> <=> Len(sent) = 0
      BY DEF TypeOK
    <3>2. i # 1 => i - 1 = Len(sent) /\ Len(sent) \in 1 .. Len(sent)
      BY <1>1, <2>2
    <3> QED
      BY <1>1, <2>2, <3>1, <3>2
  <2> QED
    BY <1>2, <2>1, <2>2
<1>5. FitsLink'
  BY <1>1, <1>2 DEF FragmentsInv, FitsLink
<1>6. PayloadInv'
  BY <1>1, <1>2, <1>3 DEF FragmentsInv, PayloadInv
<1>7. OffsetsHonest'
  BY <1>1, <1>2 DEF FragmentsInv, OffsetsHonest, Placed, ip_payload_max
<1> QED
  BY <1>4, <1>5, <1>6, <1>7 DEF FragmentsInv

\* A step that sends nothing keeps the fragments as they are.
LEMMA NothingSent ==
  ASSUME FragmentsInv, UNCHANGED <<sent, packet, first_packet_only>>
  PROVE  FragmentsInv'
  BY DEF FragmentsInv, Consecutive, FitsLink, PayloadInv, Payload, OffsetsHonest, Placed, ip_payload_max

\* The numbers of the packet in the loop.
LEMMA LoopNumbers ==
  ASSUME TypeOK, LoopInv, pc = "loop"
  PROVE  /\ packet.header \in Nat /\ packet.packet_length \in Nat
         /\ ip_payload_max \in Nat /\ ip_payload_max >= 1440 /\ ip_payload_max <= 1500
         /\ packet.header + ip_payload_max = mtu_default
         /\ Payload \in Nat /\ Payload <= 65535
         /\ offset \in Nat /\ offset <= Payload
         /\ remaining \in Nat /\ offset + remaining = Payload
         /\ Len(sent) \in Nat /\ Len(sent) < 46
         /\ ret = Len(sent) /\ (ret + 1) % 256 = Len(sent) + 1
<1>1. PacketNumbers(packet)
  BY PacketBounds DEF TypeOK
<1>2. /\ remaining \in Nat /\ offset \in Nat
      /\ offset + remaining = Payload /\ remaining > 0
      /\ 1440 * Len(sent) <= offset /\ ret = Len(sent)
  BY DEF TypeOK, LoopInv
<1>3. /\ Payload \in Nat /\ Payload <= 65535
      /\ ip_payload_max \in Nat /\ ip_payload_max >= 1440 /\ ip_payload_max <= 1500
      /\ packet.header + ip_payload_max = mtu_default
  BY <1>1 DEF PacketNumbers, Payload, ip_payload_max, mtu_default
<1>4. Len(sent) \in Nat
  BY DEF TypeOK
<1>5. Len(sent) < 46
  BY <1>2, <1>3, <1>4
<1>6. (Len(sent) + 1) % 256 = Len(sent) + 1
  BY <1>4, <1>5
<1> QED
  BY <1>1, <1>2, <1>3, <1>4, <1>5, <1>6 DEF PacketNumbers

\* A full fragment keeps the invariant, sent or not.
LEMMA FullFragmentInv ==
  ASSUME Inv, FullFragment
  PROVE  Inv'
<1> DEFINE f == [first |-> offset, length |-> ip_payload_max,
                 units |-> IF first_packet_only THEN packet.units ELSE FragmentOffset(offset),
                 mf |-> ~first_packet_only]
<1>1. /\ pc = "loop" /\ remaining > ip_payload_max
      /\ remaining' = remaining - ip_payload_max
      /\ offset' = offset + ip_payload_max
      /\ packet' = packet /\ first_packet_only' = first_packet_only
      /\ Payload' = Payload /\ ip_payload_max' = ip_payload_max
  BY DEF FullFragment, Payload, ip_payload_max
<1>2. /\ TypeOK /\ LoopInv /\ FragmentsInv /\ packet \in Packet
      /\ first_packet_only \in BOOLEAN /\ sent \in Seq(Fragment)
  BY DEF Inv, TypeOK
<1> HIDE DEF f
<1>3. /\ packet.header \in Nat /\ ip_payload_max \in Nat
      /\ ip_payload_max >= 1440 /\ ip_payload_max <= 1500
      /\ packet.header + ip_payload_max = mtu_default
      /\ Payload \in Nat /\ Payload <= 65535
      /\ offset \in Nat /\ remaining \in Nat /\ offset + remaining = Payload
      /\ Len(sent) \in Nat /\ Len(sent) < 46
      /\ ret = Len(sent) /\ (ret + 1) % 256 = Len(sent) + 1
  BY <1>1, <1>2, LoopNumbers
<1>4. /\ FragmentOffset(offset) \in Nat
      /\ 8 * FragmentOffset(offset) <= offset
      /\ offset < 8 * FragmentOffset(offset) + 8
      /\ (offset % 8 = 0 => 8 * FragmentOffset(offset) = offset)
  <2>1. offset \in Nat /\ offset <= 65535
    BY <1>3
  <2> QED
    BY <2>1, OffsetExact DEF FragmentOffset
<1>5. f \in Fragment
  <2>1. packet.units \in Nat
    BY <1>2, PacketBounds DEF PacketNumbers
  <2> QED
    BY <1>2, <1>3, <1>4, <2>1 DEF f, Fragment
<1>6. remaining' \in Nat /\ remaining' > 0 /\ offset' \in Nat /\ offset' + remaining' = Payload
  BY <1>1, <1>3
<1>7. (mtu_default - packet.header) % 8 = 0 => offset % 8 = 0 /\ offset' % 8 = 0
  <2> SUFFICES ASSUME (mtu_default - packet.header) % 8 = 0
               PROVE  offset % 8 = 0 /\ offset' % 8 = 0
    OBVIOUS
  <2>1. ip_payload_max % 8 = 0 /\ offset % 8 = 0
    BY <1>1, <1>2 DEF LoopInv, ip_payload_max
  <2> QED
    BY <1>1, <1>3, <2>1
<1>8. CASE /\ sent' = Append(sent, f)
           /\ ret' = (ret + 1) % 256
           /\ pc' = IF first_packet_only THEN "returned" ELSE "loop"
  <2>1. FragmentsInv'
    <3>1. offset = IF sent = << >> THEN 0 ELSE sent[Len(sent)].first + sent[Len(sent)].length
      BY <1>1, <1>2 DEF LoopInv
    <3>2. f.first = offset /\ f.length = ip_payload_max
      BY DEF f
    <3>3. f.length > 0 /\ packet.header + f.length <= mtu_default
          /\ f.first + f.length <= Payload
      BY <1>1, <1>3, <3>2 DEF mtu_default
    <3>3a. first_packet_only => offset = 0
      BY <1>1, <1>2, <3>1 DEF LoopInv
    <3>4. packet.units = 0 => Placed(f)
      BY <1>3, <1>4, <1>7, <3>3a DEF f, Placed, ip_payload_max
    <3> QED
      BY <1>1, <1>2, <1>5, <1>8, <3>1, <3>2, <3>3, <3>4, FragmentKeeps
  <2>2. /\ sent' \in Seq(Fragment) /\ Len(sent') = Len(sent) + 1
        /\ sent'[Len(sent) + 1] = f
        /\ \A i \in 1 .. Len(sent) : sent'[i] = sent[i]
    BY <1>2, <1>5, <1>8, Appended
  <2>3. ret' = Len(sent') /\ ret' \in Nat /\ ret' < 256
    BY <1>3, <1>8, <2>2
  <2>4. TypeOK'
    BY <1>1, <1>2, <1>6, <1>8, <2>2, <2>3 DEF TypeOK
  <2>5. CalledInv'
    BY <1>8 DEF CalledInv
  <2>6. first_packet_only => sent = << >>
    BY <1>1, <1>2 DEF LoopInv
  <2>7. LoopInv'
    <3> SUFFICES ASSUME pc' = "loop" PROVE LoopInv'
      BY DEF LoopInv
    <3>1. ~first_packet_only
      BY <1>8
    <3>2. \A i \in 1 .. Len(sent') : sent'[i].mf
      <4>1. 1 .. Len(sent') = 1 .. Len(sent) \cup {Len(sent) + 1}
        BY <1>3, <2>2
      <4>2. f.mf
        BY <3>1 DEF f
      <4> QED
        BY <1>1, <1>2, <2>2, <4>1, <4>2 DEF LoopInv
    <3>3. sent' # << >> /\ offset' = sent'[Len(sent')].first + sent'[Len(sent')].length
      BY <1>1, <1>3, <2>2 DEF f
    <3>4. 1440 * Len(sent') <= offset'
      BY <1>1, <1>2, <1>3, <2>2 DEF LoopInv
    <3> QED
      BY <1>1, <1>6, <1>7, <2>3, <3>1, <3>2, <3>3, <3>4 DEF LoopInv
  <2>8. ResultInv'
    <3>1. WholePacketSent'
      BY <1>1, <1>8 DEF WholePacketSent
    <3>2. RetCountsFrames'
      BY <2>3 DEF RetCountsFrames
    <3>3. FakeReplaySendsOne'
      <4> SUFFICES ASSUME first_packet_only
                   PROVE  Len(sent') <= 1 /\ \A i \in 1 .. Len(sent') : ~sent'[i].mf
        BY <1>1 DEF FakeReplaySendsOne
      <4>1. Len(sent) = 0
        BY <2>6
      <4>2. ~f.mf
        BY DEF f
      <4> QED
        BY <2>2, <4>1, <4>2
    <3> QED
      BY <3>1, <3>2, <3>3 DEF ResultInv
  <2> QED
    BY <2>1, <2>4, <2>5, <2>7, <2>8 DEF Inv
<1>9. CASE ret' = 0 /\ pc' = "returned" /\ UNCHANGED sent
  <2>1. FragmentsInv'
    BY <1>1, <1>2, <1>9, NothingSent
  <2>2. TypeOK'
    BY <1>1, <1>2, <1>6, <1>9 DEF TypeOK
  <2>3. FakeReplaySendsOne'
    BY <1>1, <1>9 DEF Inv, ResultInv, FakeReplaySendsOne
  <2> QED
    BY <1>9, <2>1, <2>2, <2>3 DEF Inv, CalledInv, LoopInv, ResultInv, WholePacketSent, RetCountsFrames
<1> QED
  BY <1>8, <1>9 DEF FullFragment, Send, f

\* The last fragment keeps the invariant, sent or not.
LEMMA LastFragmentInv ==
  ASSUME Inv, LastFragment
  PROVE  Inv'
<1> DEFINE f == [first |-> offset, length |-> remaining,
                 units |-> FragmentOffset(offset), mf |-> FALSE]
<1>1. /\ pc = "loop" /\ remaining > 0 /\ remaining <= ip_payload_max
      /\ remaining' = 0 /\ offset' = offset
      /\ packet' = packet /\ first_packet_only' = first_packet_only
      /\ Payload' = Payload
  BY DEF LastFragment, Payload
<1>2. /\ TypeOK /\ LoopInv /\ FragmentsInv /\ packet \in Packet
      /\ first_packet_only \in BOOLEAN /\ sent \in Seq(Fragment)
  BY DEF Inv, TypeOK
<1>3. /\ packet.header \in Nat /\ ip_payload_max \in Nat
      /\ packet.header + ip_payload_max = mtu_default
      /\ Payload \in Nat /\ Payload <= 65535
      /\ offset \in Nat /\ remaining \in Nat /\ offset + remaining = Payload
      /\ Len(sent) \in Nat /\ Len(sent) < 46
      /\ (ret + 1) % 256 = Len(sent) + 1
  BY <1>1, <1>2, LoopNumbers
<1>4. /\ FragmentOffset(offset) \in Nat
      /\ 8 * FragmentOffset(offset) <= offset
      /\ offset < 8 * FragmentOffset(offset) + 8
      /\ (offset % 8 = 0 => 8 * FragmentOffset(offset) = offset)
  <2>1. offset \in Nat /\ offset <= 65535
    BY <1>3
  <2> QED
    BY <2>1, OffsetExact DEF FragmentOffset
<1>5. f \in Fragment
  BY <1>3, <1>4 DEF Fragment
<1>6. /\ f.first = offset /\ f.length = remaining /\ ~f.mf
      /\ f.units = FragmentOffset(offset)
  OBVIOUS
<1> HIDE DEF f
<1>7. CASE sent' = Append(sent, f) /\ ret' = (ret + 1) % 256 /\ pc' = "returned"
  <2>1. FragmentsInv'
    <3>1. offset = IF sent = << >> THEN 0 ELSE sent[Len(sent)].first + sent[Len(sent)].length
      BY <1>1, <1>2 DEF LoopInv
    <3>2. f.length > 0 /\ packet.header + f.length <= mtu_default
          /\ f.first + f.length <= Payload
      BY <1>1, <1>3, <1>6 DEF mtu_default
    <3>3. packet.units = 0 => Placed(f)
      BY <1>1, <1>2, <1>4, <1>6 DEF LoopInv, Placed, ip_payload_max
    <3> QED
      BY <1>1, <1>2, <1>5, <1>6, <1>7, <3>1, <3>2, <3>3, FragmentKeeps
  <2>2. /\ sent' \in Seq(Fragment) /\ Len(sent') = Len(sent) + 1
        /\ sent'[Len(sent) + 1] = f
        /\ \A i \in 1 .. Len(sent) : sent'[i] = sent[i]
    BY <1>2, <1>5, <1>7, Appended
  <2>3. ret' = Len(sent') /\ ret' \in Nat /\ ret' < 256
    BY <1>3, <1>7, <2>2
  <2>4. TypeOK'
    BY <1>1, <1>2, <1>3, <1>7, <2>2, <2>3 DEF TypeOK
  <2>5. 1 .. Len(sent') = 1 .. Len(sent) \cup {Len(sent) + 1}
    BY <1>3, <2>2
  <2>6. WholePacketSent'
    <3>1. sent'[Len(sent')].first + sent'[Len(sent')].length = Payload
      BY <1>3, <1>6, <2>2
    <3>2. \A i \in 1 .. Len(sent') : sent'[i].mf <=> i < Len(sent')
      BY <1>1, <1>2, <1>3, <1>6, <2>2, <2>5 DEF LoopInv
    <3> QED
      BY <1>1, <3>1, <3>2 DEF WholePacketSent
  <2>7. FakeReplaySendsOne'
    <3> SUFFICES ASSUME first_packet_only
                 PROVE  Len(sent') <= 1 /\ \A i \in 1 .. Len(sent') : ~sent'[i].mf
      BY <1>1 DEF FakeReplaySendsOne
    <3>1. Len(sent) = 0
      BY <1>1, <1>2 DEF LoopInv
    <3> QED
      BY <1>6, <2>2, <3>1
  <2> QED
    BY <1>7, <2>1, <2>3, <2>4, <2>6, <2>7
      DEF Inv, CalledInv, LoopInv, ResultInv, RetCountsFrames
<1>8. CASE ret' = 0 /\ pc' = "returned" /\ UNCHANGED sent
  <2>1. FragmentsInv'
    BY <1>1, <1>2, <1>8, NothingSent
  <2>2. TypeOK'
    BY <1>1, <1>2, <1>3, <1>8 DEF TypeOK
  <2>3. FakeReplaySendsOne'
    BY <1>1, <1>8 DEF Inv, ResultInv, FakeReplaySendsOne
  <2> QED
    BY <1>8, <2>1, <2>2, <2>3 DEF Inv, CalledInv, LoopInv, ResultInv, WholePacketSent, RetCountsFrames
<1> QED
  BY <1>7, <1>8 DEF LastFragment, Send, f

\* Every step keeps the invariant.
LEMMA NextInv == Inv /\ [Next]_vars => Inv'
<1> SUFFICES ASSUME Inv, [Next]_vars PROVE Inv'
  OBVIOUS
<1>1. TypeOK /\ FragmentsInv /\ packet \in Packet
  BY DEF Inv, TypeOK
<1>2. CASE Refuse
  <2>1. FragmentsInv'
    BY <1>1, <1>2, NothingSent DEF Refuse
  <2> QED
    BY <1>2, <2>1 DEF Refuse, Inv, TypeOK, CalledInv, LoopInv, ResultInv,
      WholePacketSent, RetCountsFrames, FakeReplaySendsOne
<1>3. CASE Enter
  <2>1. FragmentsInv'
    BY <1>1, <1>3, NothingSent DEF Enter
  <2>2. Payload \in Nat /\ Payload > 0
    BY <1>1, PacketBounds DEF PacketNumbers, Payload
  <2>3. sent = << >> /\ Len(sent) = 0
    BY <1>3 DEF Inv, CalledInv, Enter
  <2>4. LoopInv'
    BY <1>3, <2>2, <2>3 DEF Enter, LoopInv, Payload
  <2> QED
    BY <1>3, <2>1, <2>2, <2>3, <2>4 DEF Enter, Inv, TypeOK, CalledInv, ResultInv,
      WholePacketSent, RetCountsFrames, FakeReplaySendsOne
<1>4. CASE FullFragment
  BY <1>4, FullFragmentInv
<1>5. CASE LastFragment
  BY <1>5, LastFragmentInv
<1>6. CASE NextPacket
  <2>1. sent' = << >> /\ Len(sent') = 0 /\ sent' \in Seq(Fragment)
    BY <1>6 DEF NextPacket
  <2> QED
    BY <1>6, <2>1 DEF NextPacket, Inv, TypeOK, CalledInv, LoopInv, FragmentsInv, ResultInv,
      Consecutive, FitsLink, PayloadInv, OffsetsHonest, WholePacketSent, RetCountsFrames,
      FakeReplaySendsOne
<1>7. CASE UNCHANGED vars
  <2>1. FragmentsInv'
    BY <1>1, <1>7, NothingSent DEF vars
  <2> QED
    BY <1>7, <2>1 DEF vars, Inv, TypeOK, CalledInv, LoopInv, ResultInv, Payload,
      WholePacketSent, RetCountsFrames, FakeReplaySendsOne
<1> QED
  BY <1>2, <1>3, <1>4, <1>5, <1>6, <1>7 DEF Next

-----------------------------------------------------------------------------
\* The invariant holds throughout.
LEMMA Invariance == Spec => []Inv
  BY InitInv, NextInv, PTL DEF Spec

\* Every variable of do_fragment stays in its type; ret never wraps.
THEOREM TypeCorrect == Spec => []TypeOK
<1>1. Inv => TypeOK
  BY DEF Inv
<1> QED
  BY <1>1, Invariance, PTL

\* Whatever the packet and whichever sends fail, the fragments carry the
\* payload's bytes in order, none skipped and none carried twice.
THEOREM FragmentsConsecutive == Spec => []Consecutive
<1>1. Inv => Consecutive
  BY DEF Inv, FragmentsInv
<1> QED
  BY <1>1, Invariance, PTL

\* No fragment is empty or longer than the MTU.
THEOREM FragmentsFit == Spec => []FitsLink
<1>1. Inv => FitsLink
  BY DEF Inv, FragmentsInv
<1> QED
  BY <1>1, Invariance, PTL

\* No byte goes out that was not captured, whatever the length field said.
THEOREM OnlyCapturedBytes == Spec => []WithinCapture
<1>1. Inv => WithinCapture
  <2> SUFFICES ASSUME Inv, NEW i \in 1 .. Len(sent)
               PROVE  eth_length + packet.header + sent[i].first + sent[i].length <= packet.caplen
    BY DEF WithinCapture
  <2>1. PacketNumbers(packet)
    BY PacketBounds DEF Inv, TypeOK
  <2>2. sent[i].first + sent[i].length <= Payload
    BY DEF Inv, FragmentsInv, PayloadInv
  <2>3. sent[i].first \in Nat /\ sent[i].length \in Nat
    <3>1. sent \in Seq(Fragment)
      BY DEF Inv, TypeOK
    <3>2. sent[i] \in Fragment
      BY <3>1
    <3> QED
      BY <3>2 DEF Fragment
  <2>4. Payload = packet.packet_length - packet.header
    BY DEF Payload
  <2>5. /\ packet.packet_length \in Nat /\ packet.header \in Nat /\ packet.caplen \in Nat
        /\ packet.packet_length + 14 <= packet.caplen
    BY <2>1 DEF PacketNumbers
  <2>6. sent[i].first + sent[i].length <= packet.packet_length - packet.header
    BY <2>2, <2>4
  <2> QED
    BY <2>3, <2>5, <2>6, SMTT(30) DEF eth_length
<1> QED
  BY <1>1, Invariance, PTL

\* A success reported without the first-packet hack is the whole packet, and
\* its last fragment alone says so.
THEOREM SuccessIsWhole == Spec => []WholePacketSent
<1>1. Inv => WholePacketSent
  BY DEF Inv, ResultInv
<1> QED
  BY <1>1, Invariance, PTL

\* Every fragment of a packet that was whole in the capture is placed where its
\* bytes belong, or, when the options of the header do not let it, less than 8
\* bytes before.
THEOREM OffsetsCorrect == Spec => []OffsetsHonest
<1>1. Inv => OffsetsHonest
  BY DEF Inv, FragmentsInv
<1> QED
  BY <1>1, Invariance, PTL

\* The eight-bit result is the number of frames that went out, or zero.
THEOREM ResultCounts == Spec => []RetCountsFrames
<1>1. Inv => RetCountsFrames
  BY DEF Inv, ResultInv
<1> QED
  BY <1>1, Invariance, PTL

\* With fragmentation disabled at most one frame goes out, and its header
\* does not announce another.
THEOREM FirstPacketOnly == Spec => []FakeReplaySendsOne
<1>1. Inv => FakeReplaySendsOne
  BY DEF Inv, ResultInv
<1> QED
  BY <1>1, Invariance, PTL
=============================================================================
