----------------------------- MODULE MCIsoRead ------------------------------
(* Instances of IsoRead for TLC: an image of 6 bytes, with a header of one *)
(* byte, so that the position iso_open leaves is none that is asked for.   *)
EXTENDS IsoRead

TwoOffsets == {2, 4}

OneOffset == {2}
=============================================================================
