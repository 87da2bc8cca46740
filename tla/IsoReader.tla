------------------------------ MODULE IsoReader ------------------------------
(***************************************************************************)
(* The reader of ISO files of the system menu (src/Vshctrl/isoreader.c):   *)
(* one image open at a time, plain or compressed, of which one sector is   *)
(* read at a time, and the lookup of a path in the image's directories.    *)
(* Its callers take turns, so a call is not interleaved with another; file *)
(* operations may fail at any point.  A read by readRawData has three ends *)
(* then: the bytes of the place asked for, an error, or the bytes of       *)
(* another place as a success.  For after eight failed seeks it reads all  *)
(* the same: from the beginning of the file, when reOpen has opened it     *)
(* again, or from another's file that has got the number of the descriptor *)
(* reOpen has closed.  Whether g_isofd is open is therefore no state here. *)
(*                                                                         *)
(* A sector of an image is the pair of the image and the sector's number.  *)
(* What a table of wrong offsets makes readSectorCompressed write behind   *)
(* its buffer is left out.                                                 *)
(* The buffer for compressed data is left out: the test that would use it  *)
(* again (line 181) asks for less than a sector and is never met.          *)
(***************************************************************************)
EXTENDS Integers, Sequences

CONSTANTS
    IrImages,     \* the ISO files
    IrNone,       \* no image, no record
    IrSize,       \* [IrImages -> Nat]: sectors of the image
    IrPlain,      \* [IrImages -> sets of sectors]: stored as they are
    IrPacked,     \* the compressed images
    IrValid,      \* the images with a volume descriptor
    IrSector,     \* SECTOR_SIZE
    IrEntries,    \* NELEMS(g_CISO_idx_cache)
    IrDescriptor, \* sector of the volume descriptor, 16
    IrNoSize,     \* the sectors that an error code of sceIoLseek makes as a size
    IrRoot,       \* [IrImages -> record]: the root directory's
    IrRecords,    \* [IrImages -> [sectors of directories -> [offsets -> records]]]
    IrMaxLevel,   \* MAX_DIR_LEVEL
    IrPaths,      \* bound: the paths that are looked up, as sequences of names
    IrRequests    \* bound: the [lba, off, size] that are read

\* A record: name, len (len_dr), lba, size, dir, long (len_fi > 32).
ASSUME IrAssumption ==
    /\ IrNone \notin IrImages /\ IrPacked \subseteq IrImages /\ IrValid \subseteq IrImages
    /\ {IrSector, IrEntries} \subseteq Nat \ {0} /\ IrMaxLevel \in Nat
    /\ IrDescriptor \in Nat \ {0} /\ IrNoSize \in Nat
    /\ \A p \in IrPaths : Len(p) \in Nat \ {0}
    /\ IrSize \in [IrImages -> Nat] /\ IrRequests \subseteq [lba : Nat, off : Nat, size : Nat]
    /\ \A m \in IrImages : IrDescriptor < IrSize[m] /\ IrSize[m] <= IrNoSize /\ IrPlain[m] \subseteq 0 .. IrSize[m] - 1

\* The records of a directory, wherever they lie in its sectors.
IrDirectory(m, d) ==
    UNION {{IrRecords[m][s][o] : o \in DOMAIN IrRecords[m][s]} :
              s \in d.lba .. d.lba + d.size \div IrSector - 1}

\* All records of an image.
IrTable(m) ==
    {IrRoot[m]}
    \cup UNION {{IrRecords[m][s][o] : o \in DOMAIN IrRecords[m][s]} : s \in DOMAIN IrRecords[m]}

\* What ISO 9660 says of the records of a sector, which follow each other from its
\* beginning, and of a directory, which has whole sectors and each name once.
IrLaidOut(recs) ==
    /\ DOMAIN recs \subseteq 0 .. IrSector - 1
    /\ \A o \in DOMAIN recs : recs[o].len \in 1 .. IrSector - o
    /\ \A o, p \in DOMAIN recs : o < p => o + recs[o].len <= p
    /\ \A p \in DOMAIN recs : \A b \in 0 .. p - 1 :
          \E o \in DOMAIN recs : b \in o .. o + recs[o].len - 1
IrDirectoryRight(m, d) ==
    /\ d.lba \in Nat \ {0} /\ d.size \in Nat /\ d.size % IrSector = 0
    /\ d.lba .. d.lba + d.size \div IrSector - 1 \subseteq DOMAIN IrRecords[m]
    /\ \A r1, r2 \in IrDirectory(m, d) : r1.name = r2.name => r1 = r2

ASSUME IrDirectoryAssumption ==
    \A m \in IrValid :
        /\ IrRoot[m].dir
        /\ \A s \in DOMAIN IrRecords[m] : IrLaidOut(IrRecords[m][s])
        /\ \A d \in IrTable(m) : d.dir => IrDirectoryRight(m, d)

VARIABLES
    irImage,      \* g_filename, IrNone when nothing is open
    irTotal,      \* g_total_sectors
    irWin,        \* g_CISO_cur_idx, and whose table g_CISO_idx_cache holds
    irBuf,        \* the sector in g_sector_buffer
    irCall,       \* the call under way, or the last one with its answer
    irExcused     \* the call has used bytes of another place, see IsoReadRight

irVars == <<irImage, irTotal, irWin, irBuf, irCall, irExcused>>

IrNoSector == <<IrNone, 0>>
IrNoWindow == [start |-> -1, of |-> IrNone]
IrIdle == [op |-> "none", pc |-> "idle", path |-> <<>>, at |-> 0, level |-> 0, dir |-> IrNone,
           re |-> 0, sector |-> 0, pos |-> 0, left |-> 0, data |-> <<>>, answer |-> "none",
           rec |-> IrNone]

-----------------------------------------------------------------------------
(* Sectors                                                                 *)

\* Bug: the window reaches one entry further than it does.
IrCoversOneMore(win, n) == win.start # -1 /\ n - win.start \in 0 .. IrEntries

IrCovers(win, n) == win.start # -1 /\ n - win.start \in 0 .. IrEntries - 1

\* The window when the table was looked up at n: read at n, from the right place or
\* from another.
IrLookUps(m, win, n) ==
    IF IrCovers(win, n) THEN {win} ELSE {[start |-> n, of |-> m], [start |-> n, of |-> IrNone]}

\* A window whose entries are not a table's.
IrJunk(win) == win.start # -1 /\ win.of = IrNone

\* The windows that tell the offset of sector n and that of the next one, which is
\* not looked up for a sector that is stored as it is.
IrWindowPairs(m, win, n) ==
    UNION {UNION {{<<w, w2>> : w2 \in IF plain THEN {w} ELSE IrLookUps(m, w, n + 1)} :
                    plain \in IF w.of = m THEN {n \in IrPlain[m]} ELSE BOOLEAN} :
             w \in IrLookUps(m, win, n)}

\* What sector n's bytes are when its offset comes from window w1 and the next
\* one's from window w2.
IrDecoded(m, w1, w2, n) ==
    IF w1.of = m /\ n - w1.start < IrEntries
       /\ (n \in IrPlain[m] \/ (w2.of = m /\ (n + 1) - w2.start < IrEntries))
    THEN <<m, n>> ELSE IrNoSector

\* The windows that a failure leaves, started with win: a failed read of the table
\* may have put a part of it into memory.
IrLeft(m, win, n) ==
    LET Cut(v, w) == IF v = w THEN {} ELSE {v, [v EXCEPT !.of = IrNone]}
    IN  UNION {{w[1], w[2]} \cup Cut(win, w[1]) \cup Cut(w[1], w[2]) : w \in IrWindowPairs(m, win, n)}

\* readSectorCompressed: how it may end, started with window win.  lost: bytes of
\* another place were used, those of the sector or those of a table, now or when
\* the window was read.
IrPackedReads(m, win, n) ==
    {[ok |-> TRUE, win |-> w[2], lost |-> astray \/ IrJunk(w[1]) \/ IrJunk(w[2]),
      buf |-> IF astray THEN IrNoSector ELSE IrDecoded(m, w[1], w[2], n)] :
        w \in IrWindowPairs(m, win, n), astray \in BOOLEAN}
    \cup {[ok |-> FALSE, win |-> w, lost |-> FALSE, buf |-> IrNoSector] : w \in IrLeft(m, win, n)}

\* readSector of a plain image, which has no bytes behind its end.
IrPlainReads(m, win, n) ==
    {[ok |-> TRUE, win |-> win, lost |-> TRUE, buf |-> buf] : buf \in {<<m, 0>>, IrNoSector}}
    \cup {[ok |-> ok, win |-> win, lost |-> FALSE, buf |-> IF ok THEN <<m, n>> ELSE IrNoSector] :
            ok \in {b \in BOOLEAN : b => n < IrSize[m]}}

\* readSector
IrReads(m, win, n) == IF m \in IrPacked THEN IrPackedReads(m, win, n) ELSE IrPlainReads(m, win, n)

IrEnd(answer) == [irCall EXCEPT !.pc = "idle", !.answer = answer]

\* One sector is read; then is the call when it has been, an error ends it.
IrSectorRead(n, then) ==
    \E r \in IrReads(irImage, irWin, n) :
        /\ irWin' = r.win /\ irBuf' = r.buf
        /\ irExcused' = (irExcused \/ r.lost)
        /\ irCall' = IF r.ok THEN then ELSE IrEnd("error")
        /\ UNCHANGED <<irImage, irTotal>>

-----------------------------------------------------------------------------
(* isoOpen, isoClose                                                       *)

IrInit ==
    /\ irImage = IrNone /\ irTotal = 0 /\ irWin = IrNoWindow
    /\ irBuf = IrNoSector /\ irCall = IrIdle /\ irExcused = FALSE

\* g_CISO_cur_idx when the first sector is read
IrFirstWindow(m) == IF m \in IrPacked THEN IrNoWindow ELSE irWin

\* g_total_sectors: a plain image is sought to its end, without a test of the result.
IrTotals(m) == {IrSize[m]} \cup IF m \in IrPacked THEN {} ELSE {IrNoSize}

\* The first sector that is read is the volume descriptor's; other bytes, of the
\* file's beginning for one, have not its name in them.
IrIsDescriptor(m, buf) == m \in IrValid /\ buf = <<m, IrDescriptor>>

IrOpens(m) ==
    /\ irCall.pc = "idle"
    /\ \E r \in IrReads(m, IrFirstWindow(m), IrDescriptor) :
          r.ok /\ IrIsDescriptor(m, r.buf) /\ irWin' = r.win /\ irBuf' = r.buf
    /\ irImage' = m /\ irTotal' \in IrTotals(m)
    /\ irCall' = IrIdle /\ irExcused' = FALSE

\* No descriptor, no header, no memory, no first sector or no descriptor in it:
\* what was opened is closed.
IrOpenFails(m) ==
    /\ irCall.pc = "idle"
    /\ \/ irWin' \in {irWin, IrFirstWindow(m)}
       \/ \E r \in IrReads(m, IrFirstWindow(m), IrDescriptor) :
             (r.ok => ~IrIsDescriptor(m, r.buf)) /\ irWin' = r.win
    /\ irImage' = IrNone /\ irTotal' = 0 /\ irBuf' = IrNoSector
    /\ irCall' = IrIdle /\ irExcused' = FALSE

IrCloses ==
    /\ irCall.pc = "idle" /\ irImage # IrNone
    /\ irImage' = IrNone /\ irTotal' = 0
    /\ irCall' = IrIdle /\ irExcused' = FALSE
    /\ UNCHANGED <<irWin, irBuf>>

-----------------------------------------------------------------------------
(* isoGetFileInfo: findPath and findFile                                   *)

IrComponent == irCall.path[irCall.at]
IrIsLast == irCall.at = Len(irCall.path)

IrDeeper(name) == IF name = "." THEN 0 ELSE IF name = ".." THEN -1 ELSE 1

\* findPath goes on with component i of the path, in directory d.
IrDescend(call, i, d) ==
    LET level == IF i = Len(call.path) THEN call.level ELSE call.level + IrDeeper(call.path[i])
    IN  IF level > IrMaxLevel
        THEN [call EXCEPT !.pc = "idle", !.answer = "error"]
        ELSE [call EXCEPT !.pc = "scan", !.at = i, !.level = level, !.dir = d, !.re = 0,
                          !.sector = 0, !.pos = d.lba * IrSector]

IrFind(path) ==
    /\ irCall.pc = "idle" /\ irImage # IrNone
    /\ irCall' = IrDescend([IrIdle EXCEPT !.op = "find", !.path = path], 1, IrRoot[irImage])
    /\ irExcused' = FALSE
    /\ UNCHANGED <<irImage, irTotal, irWin, irBuf>>

IrScanEnds ==
    /\ irCall.pc = "scan" /\ irCall.re >= irCall.dir.size
    /\ irCall' = IrEnd("absent")
    /\ UNCHANGED <<irImage, irTotal, irWin, irBuf, irExcused>>

IrScanReads ==
    LET n == irCall.pos \div IrSector
    IN  /\ irCall.pc = "scan" /\ irCall.re < irCall.dir.size /\ n # irCall.sector
        /\ IrSectorRead(n, [irCall EXCEPT !.sector = n])

\* Bug: what is left of a sector without records is taken to be a whole sector.
IrRestWhole(pos) == IrSector

\* isoPos2RestSize
IrRest(pos) == IrSector - (pos % IrSector)

\* One record, or the end of those of a sector.
IrExamine ==
    LET n == irCall.pos \div IrSector
        here == IF irBuf = <<irImage, n>> /\ n \in DOMAIN IrRecords[irImage]
                THEN IrRecords[irImage][n] ELSE <<>>
        off == irCall.pos % IrSector
        rec == here[off]
        hit == IrComponent = rec.name
        Skip(k) == [irCall EXCEPT !.pos = @ + k, !.re = @ + k]
    IN  /\ irCall.pc = "scan" /\ irCall.re < irCall.dir.size /\ n = irCall.sector
        /\ irBuf = <<irImage, n>>
        /\ irCall' =
              IF off \notin DOMAIN here THEN Skip(IrRest(irCall.pos))
              ELSE IF rec.long THEN IrEnd("error")
              ELSE IF ~hit THEN Skip(rec.len)
              ELSE IF rec.name = ".." \/ (~IrIsLast /\ ~rec.dir) THEN IrEnd("error")
              ELSE IF IrIsLast THEN [IrEnd("found") EXCEPT !.rec = rec]
              ELSE IrDescend(irCall, irCall.at + 1, rec)
        /\ UNCHANGED <<irImage, irTotal, irWin, irBuf, irExcused>>

\* In a sector that is not the right one anything may be found.
IrExamineJunk ==
    /\ irCall.pc = "scan" /\ irCall.re < irCall.dir.size
    /\ irCall.pos \div IrSector = irCall.sector /\ irBuf # <<irImage, irCall.sector>>
    /\ \E answer \in {"absent", "error", "found"} : irCall' = IrEnd(answer)
    /\ UNCHANGED <<irImage, irTotal, irWin, irBuf, irExcused>>

-----------------------------------------------------------------------------
(* isoRead                                                                 *)

IrRead(q) ==
    /\ irCall.pc = "idle" /\ irImage # IrNone
    /\ irCall' = [IrIdle EXCEPT !.op = "read", !.pc = "read", !.left = q.size,
                                !.pos = q.lba * IrSector + q.off]
    /\ irExcused' = FALSE
    /\ UNCHANGED <<irImage, irTotal, irWin, irBuf>>

\* One sector's part of the request.
IrReadOn ==
    LET pos == irCall.pos
        n == IF IrRest(pos) < irCall.left THEN IrRest(pos) ELSE irCall.left
        Cells == [k \in 1 .. n |-> <<irBuf', (pos % IrSector) + k - 1>>]
    IN  /\ irCall.pc = "read" /\ irCall.left > 0 /\ pos \div IrSector < irTotal
        /\ IrSectorRead(pos \div IrSector,
                        [irCall EXCEPT !.pos = @ + n, !.left = @ - n, !.data = @ \o Cells])

IrReadEnds ==
    /\ irCall.pc = "read" /\ (irCall.left = 0 \/ irCall.pos \div IrSector >= irTotal)
    /\ irCall' = IrEnd("read")
    /\ UNCHANGED <<irImage, irTotal, irWin, irBuf, irExcused>>

IrNext ==
    \/ \E m \in IrImages : IrOpens(m) \/ IrOpenFails(m)
    \/ IrCloses
    \/ \E p \in IrPaths : IrFind(p)
    \/ IrScanEnds \/ IrScanReads \/ IrExamine \/ IrExamineJunk
    \/ \E q \in IrRequests : IrRead(q)
    \/ IrReadOn \/ IrReadEnds

IrSpec == IrInit /\ [][IrNext]_irVars

-----------------------------------------------------------------------------
(* Properties                                                              *)

\* What isoRead has delivered are the bytes of the open image from where the
\* request began, and it delivers less than was asked for only at the image's end,
\* however the window of the table has moved, whichever images were open and
\* whatever failed before: unless readRawData has given this very call bytes of
\* another place, or those it gave once are still the window the call looks in.
IsoReadRight ==
    irCall.op = "read" /\ ~irExcused =>
        LET got == Len(irCall.data)
            from == irCall.pos - got
        IN  /\ \A k \in 1 .. got :
                  irCall.data[k] = <<<<irImage, (from + k - 1) \div IrSector>>, (from + k - 1) % IrSector>>
            /\ irCall.answer = "read" /\ irCall.left > 0 => irCall.pos >= IrSize[irImage] * IrSector

\* The ways along n components of a path from the root: record by record, each in
\* the directory that the one before it is.
IrWalks(m, path, n) ==
    {w \in [0 .. n -> IrTable(m)] :
        /\ w[0] = IrRoot[m]
        /\ \A i \in 1 .. n :
              w[i - 1].dir /\ w[i] \in IrDirectory(m, w[i - 1]) /\ w[i].name = path[i]}

\* A path is found exactly if the image has it, in directories of several sectors
\* and behind gaps between records: a file that is there is never told absent, and
\* a record that is found is that of the path.  (An error may also mean a name too
\* long, a path too deep or one with "..", or a read that failed.)  Again unless
\* readRawData has given the call bytes of another place.
PathFound ==
    irCall.op = "find" /\ ~irExcused =>
        LET last == Len(irCall.path)
            ways == IrWalks(irImage, irCall.path, last)
        IN  /\ irCall.answer = "found" => \E w \in ways : irCall.rec = w[last]
            /\ irCall.answer = "absent" => ways = {}
=============================================================================
