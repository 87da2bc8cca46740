------------------------------ MODULE MCReaders ------------------------------
(***************************************************************************)
(* An instance for TLC of what turns places of an image, a disc or a stick *)
(* into their bytes: Inferno's reader of plain images and that of          *)
(* compressed ones, the UMD as a USB disk, the cache of the memory stick.  *)
(* They share no state; part says which of them moves.                     *)
(***************************************************************************)
EXTENDS MCIsoRead, CsoRead, UmdVfat, MsStorCache

VARIABLE part

CsoOffsets == [b \in 0 .. 5 |-> <<1, 2, 4, 6, 8, 9>>[b + 1]]
CsoPlains == {1, 3}

readersVars == <<vars, csoVars, vfVars, msVars, part>>

ReadersInit ==
    /\ part \in {"plain", "cso", "vfat", "ms"}
    /\ Init /\ CsoInit /\ VfInit /\ MsInit

ReadersNext ==
    /\ \/ part = "plain" /\ Next /\ UNCHANGED <<csoVars, vfVars, msVars>>
       \/ part = "cso" /\ CsoNext /\ UNCHANGED <<vars, vfVars, msVars>>
       \/ part = "vfat" /\ VfNext /\ UNCHANGED <<vars, csoVars, msVars>>
       \/ part = "ms" /\ MsNext /\ UNCHANGED <<vars, csoVars, vfVars>>
    /\ UNCHANGED part

ReadersSpec == ReadersInit /\ [][ReadersNext]_readersVars
=============================================================================
