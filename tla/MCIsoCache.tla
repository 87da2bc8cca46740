----------------------------- MODULE MCIsoCache -----------------------------
(* Instances of IsoCache for TLC.                                          *)
EXTENDS IsoCache

\* Requests that start at and between multiples of Align, end inside a slot, at the end
\* of a block and beyond the end of the image, one below Threshold and one that starts
\* past the end.
MCRequests == {[pos |-> 0, len |-> 6], [pos |-> 3, len |-> 6], [pos |-> 2, len |-> 1],
               [pos |-> 9, len |-> 2]}

\* Two reads that need more than the two slots of the liveness instances.
FewRequests == {[pos |-> 1, len |-> 6], [pos |-> 5, len |-> 5]}

MCPrefetches == {[pos |-> 4, len |-> 4]}
=============================================================================
