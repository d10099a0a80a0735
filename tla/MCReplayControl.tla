--------------------------- MODULE MCReplayControl ---------------------------
(* Small instances of ReplayControl for TLC. *)
EXTENDS ReplayImplementsJob

CONSTANTS folder, capture, missing

\* A folder of two captures, one capture file, a path that is gone.
MCPath == {folder, capture, missing}
MCPcaps == [p \in MCPath |-> CASE p = folder -> 2 [] p = capture -> 1 [] p = missing -> 0]
MCSelection == {<< >>, <<capture>>, <<folder, capture>>, <<missing, folder>>}
MCSmallSelection == {<< >>, <<folder>>}
MCOneCapture == {<< >>, <<capture>>}
=============================================================================
