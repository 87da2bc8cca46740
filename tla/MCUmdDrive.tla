----------------------------- MODULE MCUmdDrive -----------------------------
(* Instances of UmdDrive for TLC.                                          *)
EXTENDS UmdDrive

MCWaits == {{Ready}, {Present, NotPresent}}

\* A disc is taken out and put in again.
MCSets == {{NotPresent}, {Present, Initing}}

\* The drive stops being ready.
MCMasks == {Bits \ {Ready}}
=============================================================================
