---------------------------- MODULE MCInfernoIo -----------------------------
(* Instances of InfernoIo for TLC.                                         *)
EXTENDS InfernoIo

Op(o, n, w) == [op |-> o, n |-> n, whence |-> w]

\* Reads that end inside the disc, at its end and beyond it; seeks to each end,
\* backwards past the start (which wraps) and past the end.
AllCalls == {Op("open", 0, "set"), Op("close", 0, "set"), Op("tell", 0, "set"),
             Op("read", 2, "set"),
             Op("seek", 9, "set"), Op("seek", -2, "cur"), Op("seek", -1, "end"),
             Op("seek", 0, "other")}

FewCalls == {Op("open", 0, "set"), Op("close", 0, "set"), Op("read", 2, "set")}
=============================================================================
