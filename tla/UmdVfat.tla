------------------------------- MODULE UmdVfat -------------------------------
(***************************************************************************)
(* The UMD as a USB disk (src/usbdevice/main.c): a file system made up on  *)
(* the fly, with one file that is the disc's image.  The host reads it by  *)
(* disk sectors, four to a sector of the disc; the driver of the disc has  *)
(* a position of its own, which the code moves only when it has to.  Each  *)
(* call of that driver may fail, and the code goes on after most of them.  *)
(*                                                                         *)
(* Sectors are numbered as in the source, the regions of the file system   *)
(* being constants.  What a sector holds is a pair: <<"boot">>, <<"dir">>, *)
(* <<"none">>, <<"fat", entries>> or <<"umd", quarter of the image>>.      *)
(***************************************************************************)
EXTENDS Integers, Sequences

CONSTANTS
    VfFat1, VfFat2, VfDir, VfData,   \* 8, 0xFC, 0x1F0, 0x210
    VfEntries,                       \* entries of the table in a sector, 0x100
    VfCluster,                       \* disk sectors in a cluster, 0x40
    VfUmd,                           \* sectors of the disc
    VfSize,                          \* umd_vfat_size
    VfMaxLen                         \* bound: the longest request

VfFileSize == VfUmd * 4                                          \* umd_file_size
VfClusters == (VfFileSize + VfCluster - 1) \div VfCluster        \* umd_file_clusters
VfNoSector == -1
VfReserved == -2                                                 \* 0xFFF8, 0xFFFF
VfEnd == -1                                                      \* 0xFFFF
VfSpoiled == -1                                                  \* no sector's bytes

ASSUME VfAssumption ==
    /\ VfUmd \in Nat \ {0} /\ VfMaxLen \in Nat \ {0}
    /\ {VfFat1, VfFat2, VfDir, VfData, VfEntries, VfCluster, VfSize} \subseteq Nat
    /\ 0 < VfFat1 /\ VfFat1 < VfFat2 /\ VfFat2 < VfDir /\ VfDir < VfData
    /\ VfEntries > 2 /\ VfCluster > 0 /\ VfData + VfFileSize < VfSize
    /\ VfFat2 - VfFat1 = VfDir - VfFat2 /\ VfClusters + 2 <= (VfFat2 - VfFat1) * VfEntries

VARIABLES
    vfPtr,      \* umd_vfat_ptr
    vfLast,     \* umd_last_sector
    vfBuf,      \* umd_sector: the sector of the disc it holds
    vfPos,      \* the position of the disc's driver
    vfGot       \* the last request, what it delivered, whether that is excused

vfVars == <<vfPtr, vfLast, vfBuf, vfPos, vfGot>>

-----------------------------------------------------------------------------
(* The sectors in front of the file                                        *)

\* umd_file_clusters - 1
VfLastCluster == VfClusters - 1

\* ReadAllocTableSector; entries it does not set are 0, the buffer was cleared.
VfAllocTable(fatsec) ==
    [i \in 0 .. VfEntries - 1 |->
        LET cluster == VfEntries * fatsec - 2 + i
        IN  IF fatsec = 0 /\ i < 2 THEN VfReserved
            ELSE IF cluster < VfLastCluster THEN cluster + 3
            ELSE IF cluster = VfLastCluster THEN VfEnd ELSE 0]

\* ReadUmdVfatSector
VfSector(n) ==
    IF n = 0 THEN <<"boot">>
    ELSE IF n >= VfFat1 /\ n < VfFat2 THEN <<"fat", VfAllocTable(n - VfFat1)>>
    ELSE IF n >= VfFat2 /\ n < VfDir THEN <<"fat", VfAllocTable(n - VfFat2)>>
    ELSE IF n = VfDir THEN <<"dir">> ELSE <<"none">>

-----------------------------------------------------------------------------
(* The disc                                                                *)

\* The buffer, the driver's position, and whether this request has passed over an
\* error of the driver.
VfDisc == [last |-> vfLast, pos |-> vfPos, buf |-> vfBuf, failed |-> FALSE]

\* ReadUmdSector: what it may leave, from d.  The seek may fail, and the read, which
\* may have put something into the buffer; at the end of the disc the read succeeds
\* with no sector.
VfReadUmd(lba, d) ==
    LET at == IF d.last # lba - 1 THEN lba ELSE d.pos
    IN  IF lba = d.last THEN {d}
        ELSE {[d EXCEPT !.failed = TRUE]}
             \cup {[d EXCEPT !.pos = at, !.buf = buf, !.failed = TRUE] : buf \in {d.buf, VfSpoiled}}
             \cup {IF at < VfUmd THEN [d EXCEPT !.last = lba, !.pos = at + 1, !.buf = at]
                   ELSE [d EXCEPT !.last = lba, !.pos = at]}

VfQuarters(umd, from, n) == [i \in 1 .. n |-> <<"umd", umd * 4 + from + i - 1>>]

VfNones(n) == [i \in 1 .. n |-> <<"none">>]

VfMin(a, b) == IF a < b THEN a ELSE b

\* Bug: the driver is not moved to the sectors that are read together.
VfBulkPosNot(lba, pos) == pos

\* The seek in front of a read that starts on a sector's beginning.
VfBulkPos(lba, pos) == lba

\* The heads of a read in the file, that starts at quarter s: the buffered sector for
\* one in the middle of a sector, else the seek, whose error is not looked at.
VfHeads(s) ==
    IF s % 4 # 0 THEN VfReadUmd(s \div 4, VfDisc)
    ELSE {[VfDisc EXCEPT !.pos = VfBulkPos(s \div 4, vfPos)], [VfDisc EXCEPT !.failed = TRUE]}

\* Earlier reads have left the buffer with other bytes than its sector's, or the
\* driver away from the sector behind it and this read, from the middle of a sector,
\* moves the driver nowhere.
VfDisturbed(s) ==
    \/ vfLast # VfNoSector /\ vfBuf # vfLast
    \/ s % 4 # 0 /\ s \div 4 \in {vfLast, vfLast + 1} /\ vfPos # vfLast + 1

VfDelivers(s, d, data) ==
    /\ vfLast' = d.last /\ vfPos' = d.pos /\ vfBuf' = d.buf
    /\ vfGot' = [from |-> VfData + s, excused |-> d.failed \/ VfDisturbed(s), data |-> data]

\* UmdVfat_Read in the file: s the quarter it starts at, n quarters.  Only an error
\* of the sectors that are read together ends it, before the pointer is moved.
VfFileRead(s, n) ==
    LET x == s % 4
        head == VfMin(IF x = 0 THEN 0 ELSE 4 - x, n)
        lba == IF x = 0 THEN s \div 4 ELSE s \div 4 + 1
        bulk == (n - head) \div 4
        tail == n - head - 4 * bulk
    IN  \E r1 \in VfHeads(s) :
          LET got == IF r1.pos >= VfUmd THEN 0 ELSE VfMin(bulk, VfUmd - r1.pos)
              mid == [r1 EXCEPT !.pos = @ + got]
          IN  \/ bulk > 0 /\ VfDelivers(s, r1, <<>>) /\ UNCHANGED vfPtr
              \/ \E r2 \in IF tail = 0 THEN {mid} ELSE VfReadUmd(lba + bulk, mid) :
                    /\ vfPtr' = vfPtr + n
                    /\ VfDelivers(s, r2, VfQuarters(r1.buf, x, head) \o VfQuarters(r1.pos, 0, 4 * got)
                                         \o VfNones(4 * (bulk - got)) \o VfQuarters(r2.buf, 0, tail))

-----------------------------------------------------------------------------
(* The driver that takes the place of the memory stick's                   *)

VfNothing == [from |-> 0, excused |-> FALSE, data |-> <<>>]

VfInit ==
    /\ vfPtr = 0 /\ vfLast = VfNoSector /\ vfBuf = 0 /\ vfPos = 0 /\ vfGot = VfNothing

\* UmdVfat_Open: the disc's driver opens too, at its beginning.
VfOpen ==
    /\ vfPtr' = 0 /\ vfLast' = VfNoSector /\ vfPos' = 0 /\ vfGot' = VfNothing
    /\ UNCHANGED vfBuf

\* UmdVfat_IoLseek, by sectors
VfSeek(n) ==
    /\ vfPtr' = n /\ vfGot' = VfNothing
    /\ UNCHANGED <<vfLast, vfBuf, vfPos>>

VfRead(n) ==
    /\ vfPtr + n <= VfSize
    /\ IF vfPtr >= VfData /\ vfPtr - VfData < VfFileSize
       THEN VfFileRead(vfPtr - VfData, n)
       ELSE /\ vfGot' = [from |-> vfPtr, excused |-> FALSE,
                         data |-> [i \in 1 .. n |-> VfSector(vfPtr + i - 1)]]
            /\ vfPtr' = vfPtr + n /\ UNCHANGED <<vfLast, vfBuf, vfPos>>

VfNext ==
    \/ VfOpen
    \/ \E n \in 0 .. VfSize : VfSeek(n)
    \/ \E n \in 1 .. VfMaxLen : VfRead(n)

VfSpec == VfInit /\ [][VfNext]_vfVars

-----------------------------------------------------------------------------
(* Properties                                                              *)

\* What the host should find at sector n: the chain of the table leads from the
\* second cluster to the last of the file and ends there.
VfTableWanted(fatsec) ==
    [i \in 0 .. VfEntries - 1 |->
        LET entry == VfEntries * fatsec + i
        IN  IF entry < 2 THEN VfReserved
            ELSE IF entry < VfClusters + 1 THEN entry + 1
            ELSE IF entry = VfClusters + 1 THEN VfEnd ELSE 0]

VfWanted(n) ==
    IF n = 0 THEN <<"boot">>
    ELSE IF n \in VfFat1 .. VfFat2 - 1 THEN <<"fat", VfTableWanted(n - VfFat1)>>
    ELSE IF n \in VfFat2 .. VfDir - 1 THEN <<"fat", VfTableWanted(n - VfFat2)>>
    ELSE IF n = VfDir THEN <<"dir">>
    ELSE IF n \in VfData .. VfData + VfFileSize - 1 THEN <<"umd", n - VfData>> ELSE <<"none">>

\* A read delivers the file system's own sectors, or the file's from the place it
\* asks for, through the buffered sector, the sectors read together and the buffered
\* sector again, and also after reads that failed: unless it passes over an error of
\* the disc's driver itself, or finds the buffer or the driver as earlier reads may
\* not leave them (VfDisturbed), or runs into or out of the file.
VfReadRight ==
    LET last == vfGot.from + Len(vfGot.data)
    IN  /\ ~vfGot.excused
        /\ vfGot.from >= VfData \/ last <= VfData
        /\ vfGot.from >= VfData + VfFileSize \/ last <= VfData + VfFileSize
        => \A i \in DOMAIN vfGot.data : vfGot.data[i] = VfWanted(vfGot.from + i - 1)
=============================================================================
