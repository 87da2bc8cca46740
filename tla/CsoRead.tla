------------------------------- MODULE CsoRead -------------------------------
(***************************************************************************)
(* The reader of compressed images (CISO, ZISO) of the Inferno driver,     *)
(* read_cso_data_ng in src/ISODrivers/Inferno/isoread.c.                   *)
(*                                                                         *)
(* A compressed image is a table of offsets, one more than there are       *)
(* blocks, and the stored blocks, each the compressed or plain form of one *)
(* sector.  A request is served in four reads: a window of the table, if   *)
(* the one in memory does not cover it; a first sector that is partial;    *)
(* the last sector; and the sectors in between, which are read together    *)
(* into the end of the caller's own buffer and decompressed from there to  *)
(* its beginning.                                                          *)
(*                                                                         *)
(* Byte p of the image is the number p, unit k of a compressed block is a  *)
(* negative number of its own, so that whatever is decompressed or copied  *)
(* from a wrong place is noticed.  One request runs at a time: the driver  *)
(* calls the reader under its semaphore.                                   *)
(***************************************************************************)
EXTENDS Integers

CONSTANTS
    CsoSector,       \* ISO_SECTOR_SIZE
    CsoTotalBlocks,  \* g_CISO_hdr.total_bytes / g_CISO_hdr.block_size
    CsoOffset,       \* GET_CSO_OFFSET of the whole table: where block b is stored
    CsoPlain,        \* the blocks that are stored as they are
    CsoMaxEntries,   \* CISO_IDX_MAX_ENTRIES
    CsoMaxFails      \* bound: file reads that fail

CsoBlock == 0 .. CsoTotalBlocks - 1
CsoTotal == CsoTotalBlocks * CsoSector     \* g_CISO_hdr.total_bytes
CsoNowhere == CsoTotalBlocks + 1           \* g_cso_idx_start_block = (u32)-1
CsoJunk == CsoTotal                        \* a byte the image does not have
CsoError == -1                             \* -2, -3 or -4

\* What block b takes in the file.
CsoLen(b) == CsoOffset[b + 1] - CsoOffset[b]

ASSUME CsoAssumption ==
    /\ CsoSector \in Nat \ {0} /\ CsoTotalBlocks \in Nat /\ CsoMaxFails \in Nat
    /\ CsoMaxEntries \in Nat /\ CsoMaxEntries >= 3
    /\ CsoPlain \subseteq CsoBlock
    /\ CsoOffset \in [0 .. CsoTotalBlocks -> Nat]
    /\ \A b \in CsoBlock : CsoLen(b) \in 1 .. CsoSector
    /\ \A b \in CsoPlain : CsoLen(b) = CsoSector

VARIABLES
    cso,           \* the request and the locals of read_cso_data_ng
    csoIdx,        \* g_cso_idx_cache
    csoIdxStart,   \* g_cso_idx_start_block
    csoBlockBuf,   \* g_ciso_block_buf
    csoOut,        \* the caller's buffer
    csoFails,      \* how many file reads have failed
    csoSpoilt      \* a failed read has left part of another window in it

csoVars == <<cso, csoIdx, csoIdxStart, csoBlockBuf, csoOut, csoFails, csoSpoilt>>

-----------------------------------------------------------------------------
(* The file                                                                *)

CsoEntry(b) == [off |-> CsoOffset[b], plain |-> b \in CsoPlain]

CsoUnit(b, k) ==
    IF b \in CsoPlain THEN b * CsoSector + k ELSE -1 - (b * CsoSector + k)

\* Unit u of the file.
CsoRaw(u) ==
    LET b == CHOOSE c \in CsoBlock : CsoOffset[c] <= u /\ u < CsoOffset[c + 1]
    IN  CsoUnit(b, u - CsoOffset[b])

\* What read_raw_data leaves in a buffer: size is unsigned, so a negative one
\* is more than the file has, and the end of the file cuts it.
CsoReadInto(buf, at, size, off) ==
    [i \in DOMAIN buf |->
        IF i >= at /\ (size < 0 \/ i < at + size) /\ off + i - at < CsoOffset[CsoTotalBlocks]
        THEN CsoRaw(off + i - at) ELSE buf[i]]

\* The compressed blocks that can be decompressed from position p of buf.
CsoStoredAt(buf, p) ==
    {b \in CsoBlock \ CsoPlain :
        \A k \in 0 .. CsoLen(b) - 1 : p + k \in DOMAIN buf /\ buf[p + k] = CsoUnit(b, k)}

-----------------------------------------------------------------------------
(* Helpers of the code                                                     *)

CsoByteAt(buf, i) == IF i \in DOMAIN buf THEN buf[i] ELSE CsoJunk

\* decompress_block: the caller's buffer with the size bytes from shift of the
\* block at position p of buf put at dst.
CsoDecompress(dst, buf, p, size, e, shift) ==
    [i \in DOMAIN csoOut |->
        IF i < dst \/ i >= dst + size THEN csoOut[i]
        ELSE IF e.plain THEN CsoByteAt(buf, p + shift + i - dst)
        ELSE (CHOOSE b \in CsoStoredAt(buf, p) : TRUE) * CsoSector + shift + (i - dst)]

\* It fails on anything but a whole compressed block.
CsoDecompresses(buf, p, e) == e.plain \/ CsoStoredAt(buf, p) # {}

CsoFirstBlock == cso.off \div CsoSector                          \* starting_block
CsoLastBlock == (cso.off + cso.size) \div CsoSector + 1          \* ending_block
CsoTooLarge == CsoLastBlock - CsoFirstBlock + 1 > CsoMaxEntries

CsoOutOfScope ==
    \/ csoIdxStart = CsoNowhere \/ CsoFirstBlock < csoIdxStart
    \/ CsoLastBlock >= csoIdxStart + CsoMaxEntries

\* idx_size: entries read into the window that starts at block b.
CsoWindow(b) ==
    IF b + CsoMaxEntries > CsoTotalBlocks THEN CsoTotalBlocks - b + 1 ELSE CsoMaxEntries

CsoReturn(n) == cso' = [cso EXCEPT !.pc = "Done", !.answer = n]

\* A file read, which the retries of read_raw_data did not save if it fails.
CsoReadFails == csoFails < CsoMaxFails /\ csoFails' = csoFails + 1

-----------------------------------------------------------------------------
(* Initial state and actions                                               *)

CsoInit ==
    /\ cso = [pc |-> "Done", start |-> 0, len |-> 0, off |-> 0, size |-> 0, addr |-> 0,
              blk |-> 0, head |-> 0, tail |-> 0, i |-> 0, src |-> 0,
              failed |-> FALSE, lost |-> FALSE, answer |-> 0]
    /\ csoIdx = [i \in 0 .. CsoMaxEntries - 1 |-> [off |-> 0, plain |-> FALSE]]
    /\ csoIdxStart = CsoNowhere
    /\ csoBlockBuf = [i \in 0 .. CsoSector - 1 |-> CsoJunk]
    /\ csoOut = [i \in 0 .. CsoTotal - 1 |-> CsoJunk]
    /\ csoFails = 0 /\ csoSpoilt = FALSE

CsoBegin(off, size) ==
    /\ cso.pc = "Done"
    /\ cso' = [cso EXCEPT
          !.pc = IF off > CsoTotal THEN "Done" ELSE "Index", !.start = off, !.len = size,
          !.off = off, !.size = IF off + size > CsoTotal THEN CsoTotal - off ELSE size,
          !.addr = 0, !.blk = 0, !.head = 0, !.tail = 0, !.i = 0, !.src = 0,
          !.failed = FALSE, !.lost = FALSE, !.answer = 0]
    /\ csoOut' = [i \in DOMAIN csoOut |-> CsoJunk]
    /\ UNCHANGED <<csoIdx, csoIdxStart, csoBlockBuf, csoFails, csoSpoilt>>

CsoIndexHit ==
    /\ cso.pc = "Index" /\ ~CsoTooLarge /\ ~CsoOutOfScope /\ ~csoSpoilt
    /\ cso' = [cso EXCEPT !.pc = "First", !.blk = CsoFirstBlock - csoIdxStart]
    /\ UNCHANGED <<csoIdx, csoIdxStart, csoBlockBuf, csoOut, csoFails, csoSpoilt>>

CsoIndexRead ==
    /\ cso.pc = "Index" /\ ~CsoTooLarge /\ CsoOutOfScope
    /\ csoIdx' = [i \in DOMAIN csoIdx |->
                     IF i < CsoWindow(CsoFirstBlock) THEN CsoEntry(CsoFirstBlock + i) ELSE csoIdx[i]]
    /\ csoIdxStart' = CsoFirstBlock /\ csoSpoilt' = FALSE
    /\ cso' = [cso EXCEPT !.pc = "First"]
    /\ UNCHANGED <<csoBlockBuf, csoOut, csoFails>>

\* Whatever is found where no entry of the table is decides about the answer.
CsoAnswerAnything ==
    /\ \E n \in {CsoError, cso.size} :
          cso' = [cso EXCEPT !.pc = "Done", !.answer = n, !.lost = TRUE]
    /\ csoBlockBuf' = [i \in DOMAIN csoBlockBuf |-> CsoJunk]
    /\ UNCHANGED <<csoIdx, csoIdxStart, csoOut>>

\* The window is used, but a failed read has left other entries in it.
CsoIndexSpoilt ==
    /\ cso.pc = "Index" /\ ~CsoTooLarge /\ ~CsoOutOfScope /\ csoSpoilt
    /\ CsoAnswerAnything
    /\ UNCHANGED <<csoFails, csoSpoilt>>

\* -1 ends in an unsigned variable and is taken for a block far outside the
\* window: read_cso_data, the slower reader, is never called.
CsoIndexTooLarge ==
    /\ cso.pc = "Index" /\ CsoTooLarge
    /\ CsoAnswerAnything
    /\ UNCHANGED <<csoFails, csoSpoilt>>

\* The same happens to the error of the read, which may have delivered a part.
CsoIndexFails ==
    /\ cso.pc = "Index" /\ ~CsoTooLarge /\ CsoOutOfScope /\ CsoReadFails
    /\ csoSpoilt' \in {csoSpoilt, TRUE}
    /\ CsoAnswerAnything

\* Reads the stored block behind entry blk of the window and decompresses size
\* bytes of it to dst; a failure of the read is not looked at.
CsoOneBlock(dst, blk, size, shift, done) ==
    \E ok \in BOOLEAN :
        LET e == csoIdx[blk]
            stored == IF ok THEN CsoReadInto(csoBlockBuf, 0, csoIdx[blk + 1].off - e.off, e.off)
                      ELSE csoBlockBuf
        IN  /\ IF ok THEN UNCHANGED csoFails ELSE CsoReadFails
            /\ csoBlockBuf' = stored
            /\ IF CsoDecompresses(stored, 0, e)
               THEN /\ csoOut' = CsoDecompress(dst, stored, 0, size, e, shift)
                    /\ cso' = [done EXCEPT !.failed = @ \/ ~ok]
               ELSE /\ cso' = [cso EXCEPT !.pc = "Done", !.answer = CsoError,
                                          !.failed = @ \/ ~ok]
                    /\ UNCHANGED csoOut
            /\ UNCHANGED <<csoIdx, csoIdxStart, csoSpoilt>>

CsoShift == cso.off % CsoSector

CsoNeedsFirst == CsoShift # 0 \/ cso.size <= CsoSector

CsoFirst ==
    /\ cso.pc = "First" /\ CsoNeedsFirst
    /\ LET head == IF CsoShift + cso.size <= CsoSector THEN cso.size ELSE CsoSector - CsoShift
           only == cso.size = head
       IN  CsoOneBlock(cso.addr, cso.blk, head, CsoShift,
              [cso EXCEPT !.pc = IF only THEN "Done" ELSE "Last",
                          !.answer = IF only THEN head ELSE @, !.head = head,
                          !.size = @ - head, !.off = @ + head, !.addr = @ + head,
                          !.blk = @ + 1])

CsoNoFirst ==
    /\ cso.pc = "First" /\ ~CsoNeedsFirst
    /\ cso' = [cso EXCEPT !.pc = "Last"]
    /\ UNCHANGED <<csoIdx, csoIdxStart, csoBlockBuf, csoOut, csoFails, csoSpoilt>>

CsoTailBlock ==
    cso.blk + cso.size \div CsoSector - (IF cso.size % CsoSector = 0 THEN 1 ELSE 0)

CsoLast ==
    /\ cso.pc = "Last"
    /\ LET tail == cso.size % CsoSector
           main == cso.size - tail
       IN  CsoOneBlock(cso.addr + main, CsoTailBlock, tail, 0,
              [cso EXCEPT !.pc = IF main = 0 THEN "Done" ELSE "Main",
                          !.answer = IF main = 0 THEN cso.head + tail ELSE @,
                          !.size = main, !.tail = tail])

\* Bug: the compressed blocks are put at the beginning of the buffer.
CsoShiftedNot(blocks, size) == 0

\* shifted_offset
CsoShifted(blocks, size) == blocks * CsoSector - size

CsoMain ==
    /\ cso.pc = "Main"
    /\ LET blocks == cso.size \div CsoSector
           off == csoIdx[cso.blk].off
           size == csoIdx[cso.blk + blocks].off - off
           src == CsoShifted(blocks, size)
       IN  \/ /\ csoOut' = CsoReadInto(csoOut, cso.addr + src, size, off)
              /\ cso' = [cso EXCEPT !.pc = "Loop", !.src = src]
              /\ UNCHANGED csoFails
           \/ /\ CsoReadFails
              /\ cso' = [cso EXCEPT !.pc = "Loop", !.src = src, !.failed = TRUE]
              /\ UNCHANGED csoOut
    /\ UNCHANGED <<csoIdx, csoIdxStart, csoBlockBuf, csoSpoilt>>

\* One iteration of the loop over the blocks: from src to block i of the buffer.
CsoLoop ==
    /\ cso.pc = "Loop" /\ cso.i < cso.size \div CsoSector
    /\ LET e == csoIdx[cso.blk + cso.i]
           p == cso.addr + cso.src
       IN  IF CsoDecompresses(csoOut, p, e)
           THEN /\ csoOut' = CsoDecompress(cso.addr + cso.i * CsoSector, csoOut, p, CsoSector, e, 0)
                /\ cso' = [cso EXCEPT !.i = @ + 1,
                                      !.src = @ + csoIdx[cso.blk + cso.i + 1].off - e.off]
           ELSE CsoReturn(CsoError) /\ UNCHANGED csoOut
    /\ UNCHANGED <<csoIdx, csoIdxStart, csoBlockBuf, csoFails, csoSpoilt>>

CsoFinish ==
    /\ cso.pc = "Loop" /\ cso.i = cso.size \div CsoSector
    /\ CsoReturn(cso.size + cso.head + cso.tail)
    /\ UNCHANGED <<csoIdx, csoIdxStart, csoBlockBuf, csoOut, csoFails, csoSpoilt>>

CsoNext ==
    \/ \E off \in 0 .. CsoTotal + 1, size \in 1 .. CsoTotal : CsoBegin(off, size)
    \/ CsoIndexHit \/ CsoIndexRead
    \/ CsoIndexSpoilt \/ CsoIndexTooLarge \/ CsoIndexFails
    \/ CsoFirst \/ CsoNoFirst \/ CsoLast \/ CsoMain \/ CsoLoop \/ CsoFinish

CsoSpec == CsoInit /\ [][CsoNext]_csoVars

-----------------------------------------------------------------------------
(* Properties                                                              *)

\* Nothing went wrong with the file, and the request fits one window.
CsoUndisturbed == ~cso.failed /\ ~cso.lost /\ ~csoSpoilt

\* A request for bytes of the image gets all of them that exist, from the right
\* blocks wherever the window of the table stands, leaves the rest of the buffer
\* alone, and the decompression inside the caller's buffer never overwrites what
\* is still to be decompressed.  At and past the end there is nothing to get.
CsoReadRight ==
    cso.pc = "Done" /\ CsoUndisturbed =>
        LET n == IF cso.start >= CsoTotal THEN 0
                 ELSE IF cso.start + cso.len > CsoTotal THEN CsoTotal - cso.start ELSE cso.len
        IN  /\ cso.answer = n \/ (cso.start = CsoTotal /\ cso.answer = CsoError)
            /\ \A i \in DOMAIN csoOut : csoOut[i] = IF i < n THEN cso.start + i ELSE CsoJunk
=============================================================================
