----------------------------- MODULE MCFragmenter -----------------------------
(* Packets at the boundaries of Fragmenter, with the code's own MTU. *)
EXTENDS Fragmenter

\* Absent; one byte too long; two full fragments; one byte more; the largest.
MCLengthFields == {0, 1501, 2980, 2981, 65535}

\* Shorter than the length field, jumbo, and past 16 bits.
MCCaplens == {1515, 2994, 2995, 9014, 65549, 65550, 67051}

\* No options, one word of options, all fifteen words.
MCHeaderLengths == {20, 24, 60}

MCOriginalUnits == {0, 185}
=============================================================================
