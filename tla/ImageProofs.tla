---------------------------- MODULE ImageProofs -----------------------------
(*****************************************************************************)
(* Proofs about three readers of disc images: the system menu's reader, for  *)
(* any images, sectors and requests, the USB device that shows the UMD as a  *)
(* FAT disk, for any sizes of the disc and of the disk's tables, and the     *)
(* driver's reader of compressed images, for any table of offsets.           *)
(*****************************************************************************)
EXTENDS IsoReader, UmdVfat, CsoRead, FiniteSetTheorems, WellFoundedInduction, TLAPS

-----------------------------------------------------------------------------
\* The system menu's reader.  A packed sector is right when the window of the offset
\* table is the open image's, which it is but for entries that were read from another
\* place; a call that uses such entries or such bytes is excused (irExcused), and the
\* next one begins anew, though with the window as it is.  A lookup stands where the
\* path leads so far, which every way along the path goes through, and no record
\* behind it in the directory has the name: the next byte is a record's first one or
\* the first of the gap that ends a sector, which the layout of ISO 9660 is needed for.

LEMMA IrDivMod ==
    ASSUME NEW s \in Nat \ {0}, NEW p \in Nat
    PROVE  p \div s \in Nat /\ p % s \in Nat /\ p % s < s /\ p = s * (p \div s) + (p % s)
  BY Z3

LEMMA IrMultiples ==
    ASSUME NEW s \in Nat \ {0}, NEW a \in Nat, NEW b \in Nat, a < b
    PROVE  s * b >= s * a + s
<1>1. b = a + (b - a) /\ b - a >= 1 /\ b - a \in Nat
  OBVIOUS
<1> DEFINE d == b - a
<1> HIDE DEF d
<1>2. d \in Nat /\ d >= 1 /\ b = a + d
  BY <1>1 DEF d
<1>3. s * (a + d) = s * a + s * d
  BY <1>2, Z3
<1>4. s * d >= s
  BY <1>2, Z3
<1>5. s * a \in Nat /\ s * b \in Nat /\ s * d \in Nat
  BY <1>2, Z3
<1> QED BY <1>2, <1>3, <1>4, <1>5

LEMMA IrDivModUnique ==
    ASSUME NEW s \in Nat \ {0}, NEW q1 \in Nat, NEW q2 \in Nat, NEW r1 \in Nat, NEW r2 \in Nat,
           r1 < s, r2 < s, s * q1 + r1 = s * q2 + r2
    PROVE  q1 = q2 /\ r1 = r2
<1>1. \A a, b \in Nat : a < b => s * b >= s * a + s
  BY IrMultiples
<1>2. s * q1 \in Nat /\ s * q2 \in Nat
  BY Z3
<1>3. ~(q1 < q2)
  BY <1>1, <1>2
<1>4. ~(q2 < q1)
  BY <1>1, <1>2
<1> QED BY <1>2, <1>3, <1>4

\* A position further on in the same sector.
LEMMA IrSameSector ==
    ASSUME NEW pos \in Nat, NEW j \in Nat, j < IrRest(pos)
    PROVE  (pos + j) \div IrSector = pos \div IrSector /\ (pos + j) % IrSector = (pos % IrSector) + j
<1> DEFINE s == IrSector
           q == pos \div s
           r == pos % s
           q2 == (pos + j) \div s
           r2 == (pos + j) % s
<1>1. s \in Nat \ {0}
  BY IrAssumption
<1> HIDE DEF s
<1>2. q \in Nat /\ r \in Nat /\ r < s /\ pos = s * q + r
  BY <1>1, IrDivMod
<1>3. q2 \in Nat /\ r2 \in Nat /\ r2 < s /\ pos + j = s * q2 + r2
  BY <1>1, IrDivMod
<1>4. r + j < s
  BY <1>1, <1>2 DEF IrRest, s
<1> HIDE DEF q, r, q2, r2
<1>5. s * q \in Nat /\ s * q2 \in Nat
  BY <1>1, <1>2, <1>3, Z3
<1>6. s * q + (r + j) = s * q2 + r2
  BY <1>2, <1>3, <1>5
<1>7. r + j \in Nat
  BY <1>2
<1>8. q = q2 /\ r + j = r2
  BY <1>1, <1>2, <1>3, <1>4, <1>6, <1>7, IrDivModUnique
<1> QED BY <1>8 DEF q, r, q2, r2, s

-----------------------------------------------------------------------------
\* The types, and what a call on its way has open.
IrShape ==
    /\ DOMAIN irCall = DOMAIN IrIdle
    /\ DOMAIN irWin = DOMAIN IrNoWindow
    /\ irImage \in IrImages \cup {IrNone} /\ irTotal \in Nat /\ irExcused \in BOOLEAN
    /\ irCall.pc \in {"idle", "scan", "read"}
    /\ irImage # IrNone => irTotal >= IrSize[irImage]
    /\ irCall.pc # "idle" => irImage # IrNone
    /\ irCall.pc = "scan" => irCall.op = "find"
    /\ irCall.pc = "read" => irCall.op = "read" /\ irCall.answer = "none"

\* The table in memory is the open image's, or no table's.
IrWindowFit(m, win) == win.start = -1 \/ win.of \in {m, IrNone}

IrWindowRight == irImage \in IrPacked => IrWindowFit(irImage, irWin)

\* What a read has gathered so far is no longer than the way it went.
IrReadShape ==
    irCall.op = "read" =>
        /\ irCall.pos \in Nat /\ irCall.left \in Nat
        /\ \E T : irCall.data \in Seq(T)
        /\ Len(irCall.data) <= irCall.pos

IrInv == IrShape /\ IrWindowRight /\ IrReadShape /\ IsoReadRight

\* A lookup leaves a window of the image's, or one that was read from another place.
LEMMA IrLookUpsFacts ==
    ASSUME NEW m \in IrImages, NEW win, NEW n, DOMAIN win = DOMAIN IrNoWindow,
           NEW w \in IrLookUps(m, win, n)
    PROVE  /\ DOMAIN w = DOMAIN IrNoWindow
           /\ IrWindowFit(m, win) => w.of \in {m, IrNone}
           /\ n \in Nat => w.start # -1 /\ n - w.start < IrEntries
<1>1. IrEntries \in Nat \ {0}
  BY IrAssumption
<1>2. CASE IrCovers(win, n)
  <2>1. w = win /\ win.start # -1 /\ n - win.start \in 0 .. IrEntries - 1
    BY <1>2 DEF IrLookUps, IrCovers
  <2>2. n - win.start < IrEntries
    BY <1>1, <2>1
  <2> QED BY <2>1, <2>2 DEF IrWindowFit
<1>3. CASE ~IrCovers(win, n)
  <2>1. w \in {[start |-> n, of |-> m], [start |-> n, of |-> IrNone]}
    BY <1>3 DEF IrLookUps
  <2>2. w.start = n /\ w.of \in {m, IrNone} /\ DOMAIN w = DOMAIN IrNoWindow
    BY <2>1 DEF IrNoWindow
  <2>3. n \in Nat => n # -1 /\ n - n < IrEntries
    BY <1>1
  <2> QED BY <2>2, <2>3
<1> QED BY <1>2, <1>3

\* The two windows of a packed sector: both fit, and tell its bytes if neither was
\* read from another place.
LEMMA IrPairsFacts ==
    ASSUME NEW m \in IrImages, NEW win, NEW n, DOMAIN win = DOMAIN IrNoWindow,
           NEW p \in IrWindowPairs(m, win, n)
    PROVE  /\ DOMAIN p[1] = DOMAIN IrNoWindow /\ DOMAIN p[2] = DOMAIN IrNoWindow
           /\ IrWindowFit(m, win) => IrWindowFit(m, p[1]) /\ IrWindowFit(m, p[2])
           /\ n \in Nat /\ IrWindowFit(m, win) /\ ~IrJunk(p[1]) /\ ~IrJunk(p[2]) =>
                 IrDecoded(m, p[1], p[2], n) = <<m, n>>
<1>1. PICK w1 \in IrLookUps(m, win, n) :
        \E plain \in IF w1.of = m THEN {n \in IrPlain[m]} ELSE BOOLEAN :
        \E w2 \in IF plain THEN {w1} ELSE IrLookUps(m, w1, n + 1) : p = <<w1, w2>>
  BY DEF IrWindowPairs
<1>2. PICK plain \in IF w1.of = m THEN {n \in IrPlain[m]} ELSE BOOLEAN :
        \E w2 \in IF plain THEN {w1} ELSE IrLookUps(m, w1, n + 1) : p = <<w1, w2>>
  BY <1>1
<1>3. PICK w2 \in IF plain THEN {w1} ELSE IrLookUps(m, w1, n + 1) : p = <<w1, w2>>
  BY <1>2
<1>4. p[1] = w1 /\ p[2] = w2
  BY <1>3
<1>5. /\ DOMAIN w1 = DOMAIN IrNoWindow
      /\ IrWindowFit(m, win) => w1.of \in {m, IrNone}
      /\ n \in Nat => w1.start # -1 /\ n - w1.start < IrEntries
  BY IrLookUpsFacts
<1>6. w2 = w1 \/ w2 \in IrLookUps(m, w1, n + 1)
  BY <1>3
<1>7. w2 \in IrLookUps(m, w1, n + 1) =>
         /\ DOMAIN w2 = DOMAIN IrNoWindow
         /\ IrWindowFit(m, w1) => w2.of \in {m, IrNone}
         /\ n + 1 \in Nat => w2.start # -1 /\ (n + 1) - w2.start < IrEntries
  BY <1>5, IrLookUpsFacts
<1>8. IrWindowFit(m, win) => w1.of \in {m, IrNone} /\ w2.of \in {m, IrNone}
  BY <1>5, <1>6, <1>7 DEF IrWindowFit
<1>9. ASSUME n \in Nat, IrWindowFit(m, win), ~IrJunk(w1), ~IrJunk(w2)
      PROVE  IrDecoded(m, w1, w2, n) = <<m, n>>
  <2>1. w1.start # -1 /\ n - w1.start < IrEntries /\ w1.of = m
    BY <1>5, <1>9 DEF IrJunk
  <2>2. plain <=> n \in IrPlain[m]
    BY <1>2, <2>1
  <2>3. n \notin IrPlain[m] => w2.of = m /\ (n + 1) - w2.start < IrEntries
    <3>1. n + 1 \in Nat
      BY <1>9
    <3>2. n \notin IrPlain[m] => w2 \in IrLookUps(m, w1, n + 1)
      BY <1>3, <2>2
    <3>3. n \notin IrPlain[m] => w2.start # -1 /\ (n + 1) - w2.start < IrEntries
      BY <1>7, <3>1, <3>2
    <3> QED BY <1>8, <1>9, <3>3 DEF IrJunk
  <2> QED BY <2>1, <2>3 DEF IrDecoded
<1> QED BY <1>4, <1>5, <1>6, <1>7, <1>8, <1>9 DEF IrWindowFit

\* The windows a failure leaves.
LEMMA IrLeftFacts ==
    ASSUME NEW m \in IrImages, NEW win, NEW n, DOMAIN win = DOMAIN IrNoWindow,
           NEW w \in IrLeft(m, win, n)
    PROVE  DOMAIN w = DOMAIN IrNoWindow /\ (IrWindowFit(m, win) => IrWindowFit(m, w))
<1> DEFINE Cut(v, x) == IF v = x THEN {} ELSE {v, [v EXCEPT !.of = IrNone]}
<1>1. PICK p \in IrWindowPairs(m, win, n) :
        w \in {p[1], p[2]} \cup Cut(win, p[1]) \cup Cut(p[1], p[2])
  BY DEF IrLeft
<1>2. /\ DOMAIN p[1] = DOMAIN IrNoWindow /\ DOMAIN p[2] = DOMAIN IrNoWindow
      /\ IrWindowFit(m, win) => IrWindowFit(m, p[1]) /\ IrWindowFit(m, p[2])
  BY IrPairsFacts
<1>3. ASSUME NEW v, DOMAIN v = DOMAIN IrNoWindow, NEW x, w \in Cut(v, x)
      PROVE  DOMAIN w = DOMAIN IrNoWindow /\ (IrWindowFit(m, v) => IrWindowFit(m, w))
  <2>1. CASE w = v
    BY <1>3, <2>1
  <2>2. CASE w = [v EXCEPT !.of = IrNone]
    BY <1>3, <2>2 DEF IrNoWindow, IrWindowFit
  <2> QED BY <1>3, <2>1, <2>2
<1> HIDE DEF Cut
<1>4. CASE w \in {p[1], p[2]}
  BY <1>2, <1>4
<1>5. CASE w \in Cut(win, p[1])
  BY <1>3, <1>5
<1>6. CASE w \in Cut(p[1], p[2])
  BY <1>2, <1>3, <1>6
<1> QED BY <1>1, <1>4, <1>5, <1>6

\* A read of sector n keeps the window fit, and one that used no bytes of another
\* place has brought the sector.
LEMMA IrReadsFacts ==
    ASSUME NEW m \in IrImages, NEW win, NEW n, NEW r \in IrReads(m, win, n),
           DOMAIN win = DOMAIN IrNoWindow
    PROVE  /\ r.ok \in BOOLEAN /\ r.lost \in BOOLEAN /\ DOMAIN r.win = DOMAIN IrNoWindow
           /\ m \in IrPacked /\ IrWindowFit(m, win) => IrWindowFit(m, r.win)
           /\ r.ok /\ ~r.lost /\ n \in Nat /\ (m \in IrPacked => IrWindowFit(m, win)) =>
                 r.buf = <<m, n>>
<1>1. CASE m \notin IrPacked
  <2>1. r \in IrPlainReads(m, win, n)
    BY <1>1 DEF IrReads
  <2>2. \/ \E buf \in {<<m, 0>>, IrNoSector} :
             r = [ok |-> TRUE, win |-> win, lost |-> TRUE, buf |-> buf]
        \/ \E ok \in {b \in BOOLEAN : b => n < IrSize[m]} :
             r = [ok |-> ok, win |-> win, lost |-> FALSE, buf |-> IF ok THEN <<m, n>> ELSE IrNoSector]
    BY <2>1 DEF IrPlainReads
  <2>3. CASE \E buf \in {<<m, 0>>, IrNoSector} :
               r = [ok |-> TRUE, win |-> win, lost |-> TRUE, buf |-> buf]
    <3>1. r.ok = TRUE /\ r.lost = TRUE /\ r.win = win
      BY <2>3
    <3> QED BY <1>1, <3>1
  <2>4. ASSUME NEW ok \in {b \in BOOLEAN : b => n < IrSize[m]},
               r = [ok |-> ok, win |-> win, lost |-> FALSE, buf |-> IF ok THEN <<m, n>> ELSE IrNoSector]
        PROVE  r.ok \in BOOLEAN /\ r.lost = FALSE /\ r.win = win
               /\ (r.ok => r.buf = <<m, n>>)
    <3> DEFINE buf == IF ok THEN <<m, n>> ELSE IrNoSector
    <3>1. ok \in BOOLEAN
      OBVIOUS
    <3>2. ok => buf = <<m, n>>
      OBVIOUS
    <3> HIDE DEF buf
    <3>3. r.ok = ok /\ r.lost = FALSE /\ r.win = win /\ r.buf = buf
      BY <2>4 DEF buf
    <3> QED BY <3>1, <3>2, <3>3
  <2> QED BY <1>1, <2>2, <2>3, <2>4
<1>2. CASE m \in IrPacked
  <2>1. r \in IrPackedReads(m, win, n)
    BY <1>2 DEF IrReads
  <2>2. \/ \E p \in IrWindowPairs(m, win, n), astray \in BOOLEAN :
             r = [ok |-> TRUE, win |-> p[2], lost |-> astray \/ IrJunk(p[1]) \/ IrJunk(p[2]),
                  buf |-> IF astray THEN IrNoSector ELSE IrDecoded(m, p[1], p[2], n)]
        \/ \E w \in IrLeft(m, win, n) : r = [ok |-> FALSE, win |-> w, lost |-> FALSE, buf |-> IrNoSector]
    BY <2>1 DEF IrPackedReads
  <2>3. ASSUME NEW p \in IrWindowPairs(m, win, n), NEW astray \in BOOLEAN,
               r = [ok |-> TRUE, win |-> p[2], lost |-> astray \/ IrJunk(p[1]) \/ IrJunk(p[2]),
                    buf |-> IF astray THEN IrNoSector ELSE IrDecoded(m, p[1], p[2], n)]
        PROVE  /\ r.ok \in BOOLEAN /\ r.lost \in BOOLEAN /\ DOMAIN r.win = DOMAIN IrNoWindow
               /\ IrWindowFit(m, win) => IrWindowFit(m, r.win)
               /\ ~r.lost /\ n \in Nat /\ IrWindowFit(m, win) => r.buf = <<m, n>>
    <3> DEFINE lost == astray \/ IrJunk(p[1]) \/ IrJunk(p[2])
               buf == IF astray THEN IrNoSector ELSE IrDecoded(m, p[1], p[2], n)
    <3>1. lost \in BOOLEAN
      BY DEF IrJunk
    <3> HIDE DEF lost, buf
    <3>2. r.ok = TRUE /\ r.win = p[2] /\ r.lost = lost /\ r.buf = buf
      BY <2>3 DEF lost, buf
    <3>3. /\ DOMAIN p[2] = DOMAIN IrNoWindow
          /\ IrWindowFit(m, win) => IrWindowFit(m, p[2])
          /\ n \in Nat /\ IrWindowFit(m, win) /\ ~IrJunk(p[1]) /\ ~IrJunk(p[2]) =>
                IrDecoded(m, p[1], p[2], n) = <<m, n>>
      BY IrPairsFacts
    <3>4. ~lost => ~astray /\ ~IrJunk(p[1]) /\ ~IrJunk(p[2])
      BY DEF lost
    <3> QED BY <3>1, <3>2, <3>3, <3>4 DEF buf
  <2>4. ASSUME NEW w \in IrLeft(m, win, n),
               r = [ok |-> FALSE, win |-> w, lost |-> FALSE, buf |-> IrNoSector]
        PROVE  /\ r.ok = FALSE /\ r.lost = FALSE /\ DOMAIN r.win = DOMAIN IrNoWindow
               /\ IrWindowFit(m, win) => IrWindowFit(m, r.win)
    BY <2>4, IrLeftFacts
  <2> QED BY <1>2, <2>2, <2>3, <2>4
<1> QED BY <1>1, <1>2

\* One sector read: it fails, or the caller goes on with the sector it wanted.
LEMMA IrSectorReadFacts ==
    ASSUME IrShape, IrWindowRight, NEW n, NEW then, IrSectorRead(n, then), irImage \in IrImages
    PROVE  /\ irImage' = irImage /\ irTotal' = irTotal
           /\ DOMAIN irWin' = DOMAIN IrNoWindow /\ irExcused' \in BOOLEAN /\ IrWindowRight'
           /\ irExcused => irExcused'
           /\ \/ irCall' = IrEnd("error")
              \/ irCall' = then /\ (n \in Nat /\ ~irExcused' => irBuf' = <<irImage, n>>)
<1>1. PICK r \in IrReads(irImage, irWin, n) :
          /\ irWin' = r.win /\ irBuf' = r.buf
          /\ irExcused' = (irExcused \/ r.lost)
          /\ irCall' = IF r.ok THEN then ELSE IrEnd("error")
          /\ UNCHANGED <<irImage, irTotal>>
  BY DEF IrSectorRead
<1>2. irExcused \in BOOLEAN /\ DOMAIN irWin = DOMAIN IrNoWindow
  BY DEF IrShape
<1>3. /\ r.ok \in BOOLEAN /\ r.lost \in BOOLEAN /\ DOMAIN r.win = DOMAIN IrNoWindow
      /\ irImage \in IrPacked /\ IrWindowFit(irImage, irWin) => IrWindowFit(irImage, r.win)
      /\ r.ok /\ ~r.lost /\ n \in Nat /\ (irImage \in IrPacked => IrWindowFit(irImage, irWin)) =>
            r.buf = <<irImage, n>>
  BY <1>2, IrReadsFacts
<1>4. irExcused' \in BOOLEAN /\ (irExcused => irExcused') /\ (~irExcused' => ~r.lost)
  BY <1>1, <1>2, <1>3
<1>5. IrWindowRight'
  BY <1>1, <1>3 DEF IrWindowRight, IrWindowFit
<1>6. r.ok /\ n \in Nat /\ ~irExcused' => irBuf' = <<irImage, n>>
  BY <1>1, <1>3, <1>4 DEF IrWindowRight
<1> QED BY <1>1, <1>3, <1>4, <1>5, <1>6

LEMMA IrTwo ==
    ASSUME NEW S, NEW a \in Seq(S), NEW b \in Seq(S)
    PROVE  /\ a \o b \in Seq(S) /\ Len(a) \in Nat /\ Len(b) \in Nat
           /\ Len(a \o b) = Len(a) + Len(b)
           /\ \A i \in 1 .. Len(a) + Len(b) : (a \o b)[i] = IF i <= Len(a) THEN a[i] ELSE b[i - Len(a)]
  OBVIOUS

\* What isoRead appends are the bytes behind those it has delivered.
LEMMA IrReadOnKeeps ==
    ASSUME IrInv, IrReadOn
    PROVE  IrInv'
<1>1. irCall.pc = "read" /\ irCall.op = "read" /\ irImage \in IrImages /\ irCall.answer = "none"
      /\ irCall.left > 0 /\ DOMAIN irCall = DOMAIN IrIdle
  BY DEF IrReadOn, IrInv, IrShape
<1>2. irCall.pos \in Nat /\ irCall.left \in Nat /\ Len(irCall.data) <= irCall.pos
  BY <1>1 DEF IrInv, IrReadShape
<1>3. PICK T : irCall.data \in Seq(T)
  BY <1>1 DEF IrInv, IrReadShape
<1> DEFINE pos == irCall.pos
           n == IF IrRest(pos) < irCall.left THEN IrRest(pos) ELSE irCall.left
           Cells == [k \in 1 .. n |-> <<irBuf', (pos % IrSector) + k - 1>>]
           sector == pos \div IrSector
           then == [irCall EXCEPT !.pos = @ + n, !.left = @ - n, !.data = @ \o Cells]
<1>4. IrSectorRead(sector, then)
  BY DEF IrReadOn
<1>5. sector \in Nat /\ pos % IrSector \in Nat /\ pos % IrSector < IrSector /\ IrSector \in Nat \ {0}
  <2>1. IrSector \in Nat \ {0}
    BY IrAssumption
  <2> QED BY <1>2, <2>1, IrDivMod
<1>6. n \in Nat \ {0} /\ n <= irCall.left /\ n <= IrRest(pos)
  <2> DEFINE r == pos % IrSector
             rest == IrRest(pos)
             left == irCall.left
  <2>1. rest \in Nat \ {0}
    <3>1. r \in Nat /\ r < IrSector /\ IrSector \in Nat /\ rest = IrSector - r
      BY <1>5 DEF IrRest
    <3> HIDE DEF r, rest
    <3> QED BY <3>1
  <2>2. left \in Nat \ {0}
    BY <1>1, <1>2
  <2> HIDE DEF rest, left
  <2>3. (IF rest < left THEN rest ELSE left) \in Nat \ {0}
        /\ (IF rest < left THEN rest ELSE left) <= left /\ (IF rest < left THEN rest ELSE left) <= rest
    BY <2>1, <2>2
  <2> QED BY <2>3 DEF rest, left
<1>7. Cells \in Seq({irBuf'} \X Nat) /\ Len(Cells) = n
      /\ \A k \in 1 .. n : Cells[k] = <<irBuf', (pos % IrSector) + k - 1>>
  <2>1. \A k \in 1 .. n : (pos % IrSector) + k - 1 \in Nat
    BY <1>5, <1>6
  <2> QED BY <2>1, <1>6
<1>8. /\ irImage' = irImage /\ irTotal' = irTotal
      /\ DOMAIN irWin' = DOMAIN IrNoWindow /\ irExcused' \in BOOLEAN /\ IrWindowRight'
      /\ irExcused => irExcused'
      /\ \/ irCall' = IrEnd("error")
         \/ irCall' = then /\ (sector \in Nat /\ ~irExcused' => irBuf' = <<irImage, sector>>)
  <2> HIDE DEF sector, then
  <2> QED BY <1>1, <1>4, IrSectorReadFacts DEF IrInv
<1> HIDE DEF n, Cells, sector
<1>9. CASE irCall' = IrEnd("error")
  <2>1. irCall'.op = irCall.op /\ irCall'.pc = "idle" /\ irCall'.pos = irCall.pos
        /\ irCall'.left = irCall.left /\ irCall'.data = irCall.data
        /\ irCall'.answer = "error" /\ DOMAIN irCall' = DOMAIN IrIdle
    BY <1>1, <1>9 DEF IrEnd, IrIdle
  <2>2. IrShape'
    BY <1>8, <2>1 DEF IrShape, IrInv
  <2>3. IrReadShape'
    BY <1>2, <1>3, <2>1 DEF IrReadShape
  <2>4. IsoReadRight'
    BY <1>8, <1>1, <2>1 DEF IsoReadRight, IrInv
  <2> QED BY <1>8, <2>2, <2>3, <2>4 DEF IrInv
<1>10. CASE irCall' = then /\ (sector \in Nat /\ ~irExcused' => irBuf' = <<irImage, sector>>)
  <2> DEFINE old == irCall.data
             got == Len(old)
             from == pos - got
  <2>1. irCall'.op = "read" /\ irCall'.pc = "read" /\ irCall'.answer = "none"
        /\ irCall'.pos = pos + n /\ irCall'.left = irCall.left - n
        /\ irCall'.data = old \o Cells /\ DOMAIN irCall' = DOMAIN IrIdle
    BY <1>1, <1>10 DEF IrIdle
  <2>2. old \in Seq(T \cup ({irBuf'} \X Nat)) /\ Cells \in Seq(T \cup ({irBuf'} \X Nat))
    BY <1>3, <1>7
  <2>3. /\ old \o Cells \in Seq(T \cup ({irBuf'} \X Nat)) /\ got \in Nat
        /\ Len(old \o Cells) = got + n
        /\ \A k \in 1 .. got + n : (old \o Cells)[k] = IF k <= got THEN old[k] ELSE Cells[k - got]
    <3> HIDE DEF old
    <3>1. /\ old \o Cells \in Seq(T \cup ({irBuf'} \X Nat)) /\ Len(old) \in Nat
          /\ Len(old \o Cells) = Len(old) + Len(Cells)
          /\ \A k \in 1 .. Len(old) + Len(Cells) :
                (old \o Cells)[k] = IF k <= Len(old) THEN old[k] ELSE Cells[k - Len(old)]
      BY <2>2, IrTwo
    <3>2. Len(Cells) = n
      BY <1>7
    <3> QED BY <3>1, <3>2
  <2>4. IrShape'
    BY <1>1, <1>8, <2>1 DEF IrShape, IrInv
  <2>5. IrReadShape'
    <3>1. pos + n \in Nat /\ irCall.left - n \in Nat /\ got + n <= pos + n
      BY <1>2, <1>6, <2>3
    <3> QED BY <2>1, <2>3, <3>1 DEF IrReadShape
  <2>6. IsoReadRight'
    <3> SUFFICES ASSUME ~irExcused', NEW k \in 1 .. got + n
                 PROVE  (old \o Cells)[k] =
                          <<<<irImage, (from + k - 1) \div IrSector>>, (from + k - 1) % IrSector>>
      <4>1. (pos + n) - (got + n) = from
        BY <1>2, <1>6, <2>3
      <4> HIDE DEF from, got, old
      <4> QED BY <1>8, <2>1, <2>3, <4>1 DEF IsoReadRight
    <3>1. ~irExcused
      BY <1>8
    <3>2. CASE k <= got
      <4>1. old[k] = <<<<irImage, (from + k - 1) \div IrSector>>, (from + k - 1) % IrSector>>
        BY <1>1, <3>1, <3>2, <2>3 DEF IsoReadRight, IrInv
      <4> QED BY <4>1, <3>2, <2>3
    <3>3. CASE ~(k <= got)
      <4> DEFINE j == k - got - 1
      <4>1. j \in Nat /\ j < IrRest(pos) /\ from + k - 1 = pos + j /\ k - got \in 1 .. n
            /\ (pos % IrSector) + (k - got) - 1 = (pos % IrSector) + j
        <5> DEFINE rest == IrRest(pos)
                   r == pos % IrSector
        <5>1. rest \in Int
          BY <1>5 DEF IrRest
        <5>2. pos \in Nat /\ got \in Nat /\ n \in Nat /\ n <= rest /\ r \in Nat /\ k \in Nat
              /\ k > got /\ k <= got + n
          BY <1>2, <1>5, <1>6, <2>3, <3>3
        <5> HIDE DEF rest, r, pos, got
        <5>3. k - got - 1 \in Nat /\ k - got - 1 < rest /\ k - got \in 1 .. n
          BY <5>1, <5>2
        <5>4. (pos - got) + k - 1 = pos + (k - got - 1) /\ r + (k - got) - 1 = r + (k - got - 1)
          BY <5>2
        <5> QED BY <5>3, <5>4 DEF rest, r
      <4>2. (old \o Cells)[k] = <<irBuf', (pos % IrSector) + j>>
        BY <4>1, <3>3, <2>3, <1>7
      <4>3. irBuf' = <<irImage, sector>>
        BY <1>5, <1>10
      <4> HIDE DEF j, from
      <4>4. (pos + j) \div IrSector = sector /\ (pos + j) % IrSector = (pos % IrSector) + j
        BY <1>2, <4>1, IrSameSector DEF sector
      <4> QED BY <4>1, <4>2, <4>3, <4>4
    <3> QED BY <3>2, <3>3
  <2> QED BY <1>8, <2>4, <2>5, <2>6 DEF IrInv
<1> QED BY <1>8, <1>9, <1>10

LEMMA IrScanReadsKeeps ==
    ASSUME IrInv, IrScanReads
    PROVE  IrInv'
<1> DEFINE n == irCall.pos \div IrSector
           then == [irCall EXCEPT !.sector = n]
<1>1. irCall.pc = "scan" /\ irCall.op = "find" /\ irImage \in IrImages /\ DOMAIN irCall = DOMAIN IrIdle
  BY DEF IrScanReads, IrInv, IrShape
<1>2. IrSectorRead(n, then)
  BY DEF IrScanReads
<1> HIDE DEF n
<1>3. /\ irImage' = irImage /\ irTotal' = irTotal
      /\ DOMAIN irWin' = DOMAIN IrNoWindow /\ irExcused' \in BOOLEAN /\ IrWindowRight'
      /\ irCall' \in {IrEnd("error"), then}
  <2> HIDE DEF then
  <2> QED BY <1>1, <1>2, IrSectorReadFacts DEF IrInv
<1>4. irCall'.op = "find" /\ irCall'.pc \in {"idle", "scan"} /\ DOMAIN irCall' = DOMAIN IrIdle
  BY <1>1, <1>3 DEF IrEnd, IrIdle
<1> QED BY <1>1, <1>3, <1>4 DEF IrInv, IrShape, IrReadShape, IsoReadRight

\* findPath goes on, or gives up.
LEMMA IrDescendFacts ==
    ASSUME NEW call, NEW i, NEW d, DOMAIN call = DOMAIN IrIdle
    PROVE  /\ DOMAIN IrDescend(call, i, d) = DOMAIN IrIdle
           /\ IrDescend(call, i, d).op = call.op /\ IrDescend(call, i, d).pc \in {"idle", "scan"}
<1> DEFINE level == IF i = Len(call.path) THEN call.level ELSE call.level + IrDeeper(call.path[i])
<1> HIDE DEF level
<1>1. IrDescend(call, i, d) =
         IF level > IrMaxLevel THEN [call EXCEPT !.pc = "idle", !.answer = "error"]
         ELSE [call EXCEPT !.pc = "scan", !.at = i, !.level = level, !.dir = d, !.re = 0,
                           !.sector = 0, !.pos = d.lba * IrSector]
  BY DEF IrDescend, level
<1> QED BY <1>1 DEF IrIdle

\* A step of isoGetFileInfo that reads nothing.
LEMMA IrFindStepKeeps ==
    ASSUME IrInv, irImage \in IrImages, UNCHANGED <<irImage, irTotal, irWin>>, irExcused' \in BOOLEAN,
           irCall'.op = "find", irCall'.pc \in {"idle", "scan"}, DOMAIN irCall' = DOMAIN IrIdle
    PROVE  IrInv'
<1>1. IrShape'
  <2>1. irImage # IrNone
    BY IrAssumption
  <2> QED BY <2>1 DEF IrInv, IrShape
<1>2. IrWindowRight'
  BY DEF IrInv, IrWindowRight, IrWindowFit
<1>3. IrReadShape' /\ IsoReadRight'
  BY DEF IrReadShape, IsoReadRight
<1> QED BY <1>1, <1>2, <1>3 DEF IrInv

LEMMA IrExamineKeeps ==
    ASSUME IrInv, IrExamine
    PROVE  IrInv'
<1>1. irCall.pc = "scan" /\ irCall.op = "find" /\ irImage \in IrImages /\ DOMAIN irCall = DOMAIN IrIdle
  BY DEF IrExamine, IrInv, IrShape
<1> DEFINE n == irCall.pos \div IrSector
           here == IF irBuf = <<irImage, n>> /\ n \in DOMAIN IrRecords[irImage]
                   THEN IrRecords[irImage][n] ELSE <<>>
           off == irCall.pos % IrSector
           rec == here[off]
           Skip(k) == [irCall EXCEPT !.pos = @ + k, !.re = @ + k]
<1> HIDE DEF n, here, off, rec
<1>2. /\ UNCHANGED <<irImage, irTotal, irWin, irBuf, irExcused>>
      /\ \/ irCall' = Skip(IrRest(irCall.pos)) \/ irCall' = IrEnd("error")
         \/ irCall' = Skip(rec.len) \/ irCall' = [IrEnd("found") EXCEPT !.rec = rec]
         \/ irCall' = IrDescend(irCall, irCall.at + 1, rec)
  BY DEF IrExamine, n, here, off, rec
<1>3. \A k : DOMAIN Skip(k) = DOMAIN IrIdle /\ Skip(k).op = "find" /\ Skip(k).pc = "scan"
  BY <1>1 DEF IrIdle
<1>4. DOMAIN IrEnd("error") = DOMAIN IrIdle /\ IrEnd("error").op = "find" /\ IrEnd("error").pc = "idle"
  BY <1>1 DEF IrEnd, IrIdle
<1>5. LET c == [IrEnd("found") EXCEPT !.rec = rec]
      IN  DOMAIN c = DOMAIN IrIdle /\ c.op = "find" /\ c.pc = "idle"
  BY <1>1 DEF IrEnd, IrIdle
<1>6. /\ DOMAIN IrDescend(irCall, irCall.at + 1, rec) = DOMAIN IrIdle
      /\ IrDescend(irCall, irCall.at + 1, rec).op = irCall.op
      /\ IrDescend(irCall, irCall.at + 1, rec).pc \in {"idle", "scan"}
  BY <1>1, IrDescendFacts
<1> HIDE DEF Skip
<1>7. irCall'.op = "find" /\ irCall'.pc \in {"idle", "scan"} /\ DOMAIN irCall' = DOMAIN IrIdle
  BY <1>1, <1>2, <1>3, <1>4, <1>5, <1>6
<1>8. irExcused' \in BOOLEAN
  BY <1>2 DEF IrInv, IrShape
<1> QED BY <1>1, <1>2, <1>7, <1>8, IrFindStepKeeps

LEMMA IrStepKeepsInv == ASSUME IrInv, [IrNext]_irVars PROVE IrInv'
<1>1. IrNone \notin IrImages /\ IrSector \in Nat \ {0} /\ IrSize \in [IrImages -> Nat]
      /\ IrPacked \subseteq IrImages /\ IrDescriptor \in Nat /\ IrNoSize \in Nat
      /\ \A m \in IrImages : IrSize[m] <= IrNoSize
  BY IrAssumption
<1>2. DOMAIN IrIdle = DOMAIN IrIdle /\ IrIdle.pc = "idle" /\ IrIdle.op = "none"
  BY DEF IrIdle
<1>3. ASSUME irCall' = IrIdle, irImage' = IrNone, irTotal' = 0, DOMAIN irWin' = DOMAIN IrNoWindow,
             irExcused' = FALSE
      PROVE  IrInv'
  BY <1>1, <1>2, <1>3 DEF IrInv, IrShape, IrWindowRight, IrReadShape, IsoReadRight
<1>4. ASSUME NEW m \in IrImages, IrOpens(m) PROVE IrInv'
  <2>1. PICK r \in IrReads(m, IrFirstWindow(m), IrDescriptor) : r.ok /\ irWin' = r.win
    BY <1>4 DEF IrOpens
  <2>2. DOMAIN IrFirstWindow(m) = DOMAIN IrNoWindow /\ (m \in IrPacked => IrFirstWindow(m).start = -1)
    BY DEF IrFirstWindow, IrNoWindow, IrInv, IrShape
  <2>3. DOMAIN r.win = DOMAIN IrNoWindow /\ (m \in IrPacked => IrWindowFit(m, r.win))
    BY <2>1, <2>2, IrReadsFacts DEF IrWindowFit
  <2>4. irImage' = m /\ irCall' = IrIdle /\ irExcused' = FALSE
    BY <1>4 DEF IrOpens
  <2>5. irTotal' \in Nat /\ irTotal' >= IrSize[m]
    <3>1. irTotal' = IrSize[m] \/ irTotal' = IrNoSize
      BY <1>4 DEF IrOpens, IrTotals
    <3> QED BY <1>1, <3>1
  <2>6. IrShape'
    BY <1>1, <1>2, <2>1, <2>3, <2>4, <2>5 DEF IrShape
  <2>7. IrWindowRight'
    BY <2>1, <2>3, <2>4 DEF IrWindowRight, IrWindowFit
  <2> QED BY <1>2, <2>4, <2>6, <2>7 DEF IrInv, IrReadShape, IsoReadRight
<1>5. ASSUME NEW m \in IrImages, IrOpenFails(m) PROVE IrInv'
  <2>1. DOMAIN irWin = DOMAIN IrNoWindow /\ DOMAIN IrFirstWindow(m) = DOMAIN IrNoWindow
    BY DEF IrFirstWindow, IrNoWindow, IrInv, IrShape
  <2>2. \A r \in IrReads(m, IrFirstWindow(m), IrDescriptor) : DOMAIN r.win = DOMAIN IrNoWindow
    BY <2>1, IrReadsFacts
  <2>3. DOMAIN irWin' = DOMAIN IrNoWindow
    BY <1>5, <2>1, <2>2 DEF IrOpenFails
  <2> QED BY <1>3, <1>5, <2>3 DEF IrOpenFails
<1>6. CASE IrCloses
  BY <1>3, <1>6 DEF IrCloses, IrInv, IrShape
<1>7. ASSUME NEW p \in IrPaths, IrFind(p) PROVE IrInv'
  <2> DEFINE call == [IrIdle EXCEPT !.op = "find", !.path = p]
  <2>1. DOMAIN call = DOMAIN IrIdle /\ call.op = "find"
    BY DEF IrIdle
  <2>2. irCall' = IrDescend(call, 1, IrRoot[irImage])
        /\ UNCHANGED <<irImage, irTotal, irWin>> /\ irExcused' = FALSE /\ irImage \in IrImages
    BY <1>7 DEF IrFind, IrInv, IrShape
  <2> HIDE DEF call
  <2>3. irCall'.op = "find" /\ irCall'.pc \in {"idle", "scan"} /\ DOMAIN irCall' = DOMAIN IrIdle
    BY <2>1, <2>2, IrDescendFacts
  <2> QED BY <2>2, <2>3, IrFindStepKeeps
<1>8. CASE IrScanEnds \/ IrExamineJunk
  <2>1. irCall.pc = "scan" /\ irCall.op = "find" /\ irImage \in IrImages /\ DOMAIN irCall = DOMAIN IrIdle
    BY <1>8 DEF IrScanEnds, IrExamineJunk, IrInv, IrShape
  <2>2. /\ UNCHANGED <<irImage, irTotal, irWin>> /\ irExcused' \in BOOLEAN
        /\ \E answer \in {"absent", "error", "found"} : irCall' = IrEnd(answer)
    BY <1>8 DEF IrScanEnds, IrExamineJunk, IrInv, IrShape
  <2>3. \A answer : DOMAIN IrEnd(answer) = DOMAIN IrIdle /\ IrEnd(answer).op = "find"
                    /\ IrEnd(answer).pc = "idle"
    BY <2>1 DEF IrEnd, IrIdle
  <2>4. irCall'.op = "find" /\ irCall'.pc \in {"idle", "scan"} /\ DOMAIN irCall' = DOMAIN IrIdle
    BY <2>2, <2>3
  <2> QED BY <2>1, <2>2, <2>4, IrFindStepKeeps
<1>9. CASE IrScanReads
  BY <1>9, IrScanReadsKeeps
<1>10. CASE IrExamine
  BY <1>10, IrExamineKeeps
<1>11. ASSUME NEW q \in IrRequests, IrRead(q) PROVE IrInv'
  <2>1. q.size \in Nat /\ q.lba * IrSector + q.off \in Nat
    <3>1. q.size \in Nat /\ q.lba \in Nat /\ q.off \in Nat
      BY IrAssumption
    <3>2. \A a, b \in Nat : a * b \in Nat
      BY Z3
    <3> QED BY <1>1, <3>1, <3>2
  <2> DEFINE at == q.lba * IrSector + q.off
  <2> HIDE DEF at
  <2>2. irCall' = [IrIdle EXCEPT !.op = "read", !.pc = "read", !.left = q.size, !.pos = at]
        /\ UNCHANGED <<irImage, irTotal, irWin>> /\ irExcused' = FALSE /\ irImage # IrNone
    BY <1>11 DEF IrRead, at
  <2>3. irCall'.op = "read" /\ irCall'.pc = "read" /\ irCall'.left = q.size /\ irCall'.pos = at
        /\ irCall'.data = <<>> /\ irCall'.answer = "none" /\ DOMAIN irCall' = DOMAIN IrIdle
    BY <2>2 DEF IrIdle
  <2>4. IrReadShape'
    <3>1. <<>> \in Seq(Int) /\ Len(<<>>) = 0
      OBVIOUS
    <3> QED BY <2>1, <2>3, <3>1 DEF IrReadShape, at
  <2>5. IsoReadRight'
    <3>1. Len(<<>>) = 0
      OBVIOUS
    <3> QED BY <2>3, <3>1 DEF IsoReadRight
  <2>6. IrShape' /\ IrWindowRight'
    BY <2>2, <2>3 DEF IrInv, IrShape, IrWindowRight, IrWindowFit
  <2> QED BY <2>4, <2>5, <2>6 DEF IrInv
<1>12. CASE IrReadOn
  BY <1>12, IrReadOnKeeps
<1>13. CASE IrReadEnds
  <2>1. irCall.op = "read" /\ irCall.pos \in Nat /\ irCall.left \in Nat /\ irTotal \in Nat
        /\ DOMAIN irCall = DOMAIN IrIdle
    BY <1>13 DEF IrReadEnds, IrInv, IrShape, IrReadShape
  <2>2. irCall'.op = "read" /\ irCall'.pc = "idle" /\ irCall'.left = irCall.left
        /\ irCall'.pos = irCall.pos /\ irCall'.data = irCall.data
        /\ DOMAIN irCall' = DOMAIN IrIdle /\ UNCHANGED <<irImage, irTotal, irWin, irExcused>>
    BY <1>13, <2>1 DEF IrReadEnds, IrEnd, IrIdle
  <2>3. irCall.left > 0 => irCall.pos >= irTotal * IrSector
    <3> DEFINE q == irCall.pos \div IrSector
    <3>1. q \in Nat /\ irCall.pos % IrSector \in Nat /\ irCall.pos = IrSector * q + (irCall.pos % IrSector)
      BY <1>1, <2>1, IrDivMod
    <3>2. irCall.left > 0 => q >= irTotal
      BY <1>13, <2>1 DEF IrReadEnds
    <3> HIDE DEF q
    <3>3. q >= irTotal => IrSector * q >= irTotal * IrSector
      <4>1. \A s \in Nat \ {0}, a, b \in Nat : a >= b => s * a >= b * s
        BY Z3
      <4> QED BY <1>1, <2>1, <3>1, <4>1
    <3>4. IrSector * q \in Nat /\ irTotal * IrSector \in Nat
      <4>1. \A a, b \in Nat : a * b \in Nat
        BY Z3
      <4> QED BY <1>1, <2>1, <3>1, <4>1
    <3> QED BY <2>1, <3>1, <3>2, <3>3, <3>4
  <2>8. irCall.left > 0 => irCall.pos >= IrSize[irImage] * IrSector
    <3> DEFINE size == IrSize[irImage]
    <3>1. irImage \in IrImages
      BY <1>13 DEF IrReadEnds, IrInv, IrShape
    <3>2. size \in Nat /\ irTotal >= size
      BY <1>1, <3>1 DEF IrInv, IrShape
    <3>3. \A s \in Nat \ {0}, a, b \in Nat : a >= b => a * s >= b * s /\ a * s \in Nat /\ b * s \in Nat
      BY Z3
    <3> HIDE DEF size
    <3>4. irTotal * IrSector >= size * IrSector /\ irTotal * IrSector \in Nat /\ size * IrSector \in Nat
      BY <1>1, <2>1, <3>2, <3>3
    <3>5. irCall.left > 0 => irCall.pos >= size * IrSector
      BY <2>1, <2>3, <3>4
    <3> QED BY <3>5 DEF size
  <2>4. IsoReadRight'
    BY <2>1, <2>2, <2>8 DEF IrInv, IsoReadRight
  <2>5. IrShape'
    BY <2>2 DEF IrInv, IrShape
  <2>6. IrWindowRight'
    BY <2>2 DEF IrInv, IrWindowRight, IrWindowFit
  <2>7. IrReadShape'
    BY <2>1, <2>2 DEF IrInv, IrReadShape
  <2> QED BY <2>4, <2>5, <2>6, <2>7 DEF IrInv
<1>14. CASE UNCHANGED irVars
  BY <1>14 DEF IrInv, IrShape, IrWindowRight, IrWindowFit, IrReadShape, IsoReadRight, irVars
<1> QED BY <1>4, <1>5, <1>6, <1>7, <1>8, <1>9, <1>10, <1>11, <1>12, <1>13, <1>14 DEF IrNext

LEMMA IrInitInv == ASSUME IrInit PROVE IrInv
<1>1. IrIdle.pc = "idle" /\ IrIdle.op = "none"
  BY DEF IrIdle
<1>2. IrShape
  BY <1>1 DEF IrInit, IrShape
<1>3. IrWindowRight
  BY DEF IrInit, IrWindowRight, IrWindowFit, IrNoWindow
<1>4. IrReadShape /\ IsoReadRight
  BY <1>1 DEF IrInit, IrReadShape, IsoReadRight
<1> QED BY <1>2, <1>3, <1>4 DEF IrInv

\* isoRead delivers the open image's own bytes, for every set of images, every
\* size of sectors and of the table's window, and every order of calls and of failed
\* opens, seeks and reads: but for a call that readRawData gave bytes of another place
\* or that looked into a window it had read from one.
THEOREM IsoReadRightTheorem == IrSpec => []IsoReadRight
<1>1. IrInit => IrInv
  BY IrInitInv
<1>2. IrInv /\ [IrNext]_irVars => IrInv'
  BY IrStepKeepsInv
<1>3. IrInv => IsoReadRight
  BY DEF IrInv
<1> QED BY <1>1, <1>2, <1>3, PTL DEF IrSpec

\* Byte o of sector s of a directory, counted from the directory's beginning.
IrAt(d, s, o) == IrSector * (s - d.lba) + o

IrExtent(d) == d.lba .. d.lba + d.size \div IrSector - 1

\* The records in front of byte re of a directory end there, and none has the name.
IrScanned(m, d, re, name) ==
    \A s \in IrExtent(d) : \A o \in DOMAIN IrRecords[m][s] :
        IrAt(d, s, o) < re =>
            IrRecords[m][s][o].name # name /\ IrAt(d, s, o) + IrRecords[m][s][o].len <= re

\* The order of bytes is that of their sectors, and in a sector that of their offsets.
LEMMA IrOrder ==
    ASSUME NEW s \in Nat \ {0}, NEW j \in Nat, NEW k \in Nat, NEW p \in 0 .. s - 1, NEW o \in 0 .. s - 1
    PROVE  /\ s * j \in Nat /\ s * k \in Nat
           /\ s * j + p < s * k + o <=> j < k \/ (j = k /\ p < o)
           /\ j < k => s * j + s <= s * k
<1>1. \A a, b \in Nat : a < b => s * b >= s * a + s
  BY IrMultiples
<1>2. s * j \in Nat /\ s * k \in Nat
  BY Z3
<1>3. j < k => s * k >= s * j + s
  BY <1>1
<1>4. k < j => s * j >= s * k + s
  BY <1>1
<1> QED BY <1>2, <1>3, <1>4

\* Byte re of a directory, which the scan has come to.
LEMMA IrWhere ==
    ASSUME NEW m \in IrValid, NEW d \in IrTable(m), d.dir, NEW re \in Nat
    PROVE  /\ IrSector \in Nat \ {0} /\ d.lba \in Nat \ {0} /\ d.size \in Nat
           /\ d.size = IrSector * (d.size \div IrSector) /\ d.size \div IrSector \in Nat
           /\ re \div IrSector \in Nat /\ re % IrSector \in 0 .. IrSector - 1
           /\ re = IrSector * (re \div IrSector) + (re % IrSector)
           /\ d.lba * IrSector + re \in Nat
           /\ (d.lba * IrSector + re) \div IrSector = d.lba + re \div IrSector
           /\ (d.lba * IrSector + re) % IrSector = re % IrSector
           /\ re < d.size <=> re \div IrSector < d.size \div IrSector
<1> DEFINE S == IrSector
           k == re \div S
           o == re % S
           h == d.size \div S
           b == d.lba
           q2 == (b * S + re) \div S
           r2 == (b * S + re) % S
<1>1. S \in Nat \ {0}
  BY IrAssumption
<1>2. b \in Nat \ {0} /\ d.size \in Nat /\ d.size % S = 0
  BY IrDirectoryAssumption DEF IrDirectoryRight
<1> HIDE DEF S
<1>3. k \in Nat /\ o \in Nat /\ o < S /\ re = S * k + o
  BY <1>1, IrDivMod
<1>4. h \in Nat /\ d.size = S * h + (d.size % S)
  BY <1>1, <1>2, IrDivMod
<1>5. S * h \in Nat /\ d.size = S * h
  <2>1. \A x, y \in Nat : x * y \in Nat
    BY Z3
  <2> QED BY <1>1, <1>2, <1>4, <2>1
<1>6. b * S \in Nat /\ b * S + re \in Nat
  <2>1. \A x, y \in Nat : x * y \in Nat
    BY Z3
  <2> QED BY <1>1, <1>2, <2>1
<1>7. q2 \in Nat /\ r2 \in Nat /\ r2 < S /\ b * S + re = S * q2 + r2
  BY <1>1, <1>6, IrDivMod
<1>8. b * S + re = S * (b + k) + o /\ b + k \in Nat
  <2>1. \A x, y, z \in Nat : z * (x + y) = x * z + z * y /\ z * y \in Nat /\ x * z \in Nat
    BY Z3
  <2> HIDE DEF b, k, o
  <2> QED BY <1>1, <1>2, <1>3, <2>1
<1> HIDE DEF k, o, h, b, q2, r2
<1>9. q2 = b + k /\ r2 = o
  <2>1. S * q2 + r2 = S * (b + k) + o
    BY <1>7, <1>8
  <2> QED BY <2>1, <1>1, <1>3, <1>7, <1>8, IrDivModUnique
<1>10. re < d.size <=> k < h
  <2>1. 0 \in 0 .. S - 1 /\ o \in 0 .. S - 1
    BY <1>1, <1>3
  <2>2. S * k + o < S * h + 0 <=> k < h \/ (k = h /\ o < 0)
    BY <1>1, <1>3, <1>4, <2>1, IrOrder
  <2>3. S * h + 0 = d.size /\ ~(o < 0)
    BY <1>3, <1>5
  <2> QED BY <1>3, <2>2, <2>3
<1>11. o \in 0 .. S - 1
  BY <1>1, <1>3
<1> QED BY <1>1, <1>2, <1>3, <1>4, <1>5, <1>6, <1>9, <1>10, <1>11 DEF S, k, o, h, b, q2, r2

\* Where a record of a directory lies.
LEMMA IrRecordAt ==
    ASSUME NEW m \in IrValid, NEW d \in IrTable(m), d.dir, NEW s \in IrExtent(d),
           NEW p \in DOMAIN IrRecords[m][s]
    PROVE  /\ s \in DOMAIN IrRecords[m] /\ IrLaidOut(IrRecords[m][s])
           /\ s - d.lba \in Nat /\ s - d.lba < d.size \div IrSector
           /\ s \in Nat /\ s = d.lba + (s - d.lba)
           /\ p \in 0 .. IrSector - 1
           /\ IrAt(d, s, p) = IrSector * (s - d.lba) + p
           /\ IrSector * (s - d.lba) \in Nat
           /\ IrRecords[m][s][p].len \in 1 .. IrSector - p
           /\ IrRecords[m][s][p] \in IrDirectory(m, d) /\ IrRecords[m][s][p] \in IrTable(m)
<1>1. IrSector \in Nat \ {0} /\ d.lba \in Nat \ {0} /\ d.size \div IrSector \in Nat
  BY IrWhere
<1>2. IrExtent(d) \subseteq DOMAIN IrRecords[m]
  BY IrDirectoryAssumption DEF IrDirectoryRight, IrExtent
<1>3. IrLaidOut(IrRecords[m][s])
  BY <1>2, IrDirectoryAssumption
<1>4. p \in 0 .. IrSector - 1 /\ IrRecords[m][s][p].len \in 1 .. IrSector - p
  BY <1>3 DEF IrLaidOut
<1>5. s - d.lba \in Nat /\ s - d.lba < d.size \div IrSector /\ s \in Nat /\ s = d.lba + (s - d.lba)
  <2> DEFINE b == d.lba
             h == d.size \div IrSector
  <2>1. b \in Nat /\ h \in Nat /\ s \in b .. b + h - 1
    BY <1>1 DEF IrExtent
  <2> HIDE DEF b, h
  <2>2. s - b \in Nat /\ s - b < h /\ s \in Nat /\ s = b + (s - b)
    BY <2>1
  <2> QED BY <2>2 DEF b, h
<1>6. IrSector * (s - d.lba) \in Nat
  <2>1. \A x, y \in Nat : x * y \in Nat
    BY Z3
  <2> QED BY <1>1, <1>5, <2>1
<1>7. IrRecords[m][s][p] \in IrDirectory(m, d)
  BY DEF IrDirectory, IrExtent
<1>8. IrRecords[m][s][p] \in IrTable(m)
  BY <1>2 DEF IrTable
<1> QED BY <1>2, <1>3, <1>4, <1>5, <1>6, <1>7, <1>8 DEF IrAt

\* Where the scan begins nothing is in front of it.
LEMMA IrScanBegins ==
    ASSUME NEW m \in IrValid, NEW d \in IrTable(m), d.dir, NEW name
    PROVE  IrScanned(m, d, 0, name)
<1> SUFFICES ASSUME NEW s \in IrExtent(d), NEW p \in DOMAIN IrRecords[m][s], IrAt(d, s, p) < 0
             PROVE  FALSE
  BY DEF IrScanned
<1>1. p \in Nat /\ IrSector * (s - d.lba) \in Nat /\ IrAt(d, s, p) = IrSector * (s - d.lba) + p
  BY IrRecordAt
<1> DEFINE a == IrSector * (s - d.lba)
<1> HIDE DEF a
<1>2. p \in Nat /\ a \in Nat /\ IrAt(d, s, p) = a + p
  BY <1>1 DEF a
<1> QED BY <1>2

\* At the end of the directory all its records have been seen.
LEMMA IrScanDone ==
    ASSUME NEW m \in IrValid, NEW d \in IrTable(m), d.dir, NEW name, NEW re \in Nat,
           IrScanned(m, d, re, name), re >= d.size, NEW r \in IrDirectory(m, d)
    PROVE  r.name # name
<1>1. PICK s \in IrExtent(d) : \E p \in DOMAIN IrRecords[m][s] : r = IrRecords[m][s][p]
  BY DEF IrDirectory, IrExtent
<1>2. PICK p \in DOMAIN IrRecords[m][s] : r = IrRecords[m][s][p]
  BY <1>1
<1> DEFINE S == IrSector
           h == d.size \div S
           j == s - d.lba
<1>3. S \in Nat \ {0} /\ d.size \in Nat /\ d.size = S * h /\ h \in Nat
  BY IrWhere
<1>4. p \in 0 .. S - 1 /\ j \in Nat /\ j < h /\ IrAt(d, s, p) = S * j + p
  BY IrRecordAt
<1> HIDE DEF S, h, j
<1>5. S * j + p < S * h + 0
  <2>1. 0 \in 0 .. S - 1
    BY <1>3
  <2> QED BY <1>3, <1>4, <2>1, IrOrder
<1>6. S * j \in Nat /\ S * h \in Nat
  <2>1. \A x, y \in Nat : x * y \in Nat
    BY Z3
  <2> QED BY <1>3, <1>4, <2>1
<1>7. IrAt(d, s, p) < re
  BY <1>3, <1>4, <1>5, <1>6
<1> QED BY <1>2, <1>7 DEF IrScanned

\* From one byte to a later one of the same sector, which is the sector's end or the
\* end of the record that begins at the first: no other record begins in between.
LEMMA IrScanGoesOn ==
    ASSUME NEW m \in IrValid, NEW d \in IrTable(m), d.dir, NEW name, NEW re \in Nat,
           IrScanned(m, d, re, name), NEW k \in Nat, re < d.size,
           LET recs == IrRecords[m][d.lba + re \div IrSector]
               o == re % IrSector
           IN  /\ o \notin DOMAIN recs => k = IrSector - o
               /\ o \in DOMAIN recs => k = recs[o].len /\ recs[o].name # name
    PROVE  IrScanned(m, d, re + k, name)
<1> DEFINE S == IrSector
           q == re \div S
           o == re % S
           b == d.lba
           recs == IrRecords[m][b + q]
<1>1. S \in Nat \ {0} /\ b \in Nat \ {0} /\ q \in Nat /\ o \in 0 .. S - 1 /\ re = S * q + o
  BY IrWhere
<1>2. b + q \in IrExtent(d)
  <2> DEFINE h == d.size \div S
  <2>1. q < h /\ h \in Nat
    BY IrWhere
  <2> HIDE DEF b, q, h, S
  <2>2. b + q \in b .. b + h - 1
    BY <1>1, <2>1
  <2> QED BY <2>2 DEF IrExtent, b, h, S
<1>3. IrLaidOut(recs)
  BY <1>2, IrDirectoryAssumption DEF IrDirectoryRight, IrExtent
<1>4. /\ o \notin DOMAIN recs => k = S - o
      /\ o \in DOMAIN recs => k = recs[o].len /\ recs[o].name # name
  OBVIOUS
<1>5. o + k <= S
  <2>1. o \in DOMAIN recs => recs[o].len \in 1 .. S - o
    BY <1>3 DEF IrLaidOut
  <2> HIDE DEF recs, o, S
  <2> QED BY <1>1, <1>4, <2>1
<1> SUFFICES ASSUME NEW s \in IrExtent(d), NEW p \in DOMAIN IrRecords[m][s],
                    IrAt(d, s, p) < re + k
             PROVE  IrRecords[m][s][p].name # name
                    /\ IrAt(d, s, p) + IrRecords[m][s][p].len <= re + k
  BY DEF IrScanned
<1> DEFINE j == s - b
           len == IrRecords[m][s][p].len
<1>6. j \in Nat /\ s = b + j /\ p \in 0 .. S - 1 /\ len \in 1 .. S - p
      /\ IrAt(d, s, p) = S * j + p /\ S * j \in Nat
  BY IrRecordAt
<1>7. CASE IrAt(d, s, p) < re
  <2>1. IrRecords[m][s][p].name # name /\ IrAt(d, s, p) + len <= re
    BY <1>7 DEF IrScanned
  <2> HIDE DEF len, j
  <2>2. IrAt(d, s, p) \in Nat /\ len \in Nat
    BY <1>1, <1>6
  <2>3. IrAt(d, s, p) + len <= re + k
    BY <2>1, <2>2
  <2> QED BY <2>1, <2>3 DEF len
<1>8. CASE ~(IrAt(d, s, p) < re)
  <2>1. S * q \in Nat /\ (q < j => S * q + S <= S * j) /\ (j < q => S * j + S <= S * q)
    <3> HIDE DEF S, q, j, o
    <3> QED BY <1>1, <1>6, IrOrder
  <2>2. j = q /\ o <= p /\ p < o + k
    <3> HIDE DEF S, q, j, o, len, recs
    <3>1. ~(S * j + p < S * q + o) /\ S * j + p < (S * q + o) + k
      BY <1>1, <1>6, <1>8
    <3>2. ~(q < j)
      BY <1>1, <1>5, <1>6, <2>1, <3>1
    <3>3. ~(j < q)
      BY <1>1, <1>6, <2>1, <3>1
    <3>4. j \in Nat /\ q \in Nat
      BY <1>1, <1>6
    <3>5. j = q
      BY ONLY <3>2, <3>3, <3>4
    <3> QED BY <1>1, <1>6, <2>1, <3>1, <3>5
  <2>3. IrRecords[m][s] = recs /\ p \in DOMAIN recs
    BY <1>6, <2>2
  <2>4. p = o
    <3>1. SUFFICES ASSUME o < p PROVE FALSE
      <4> HIDE DEF o
      <4> QED BY <1>1, <1>6, <2>2
    <3>2. o \in 0 .. p - 1
      <4> HIDE DEF o
      <4> QED BY <1>1, <1>6, <3>1
    <3>3. PICK x \in DOMAIN recs : o \in x .. x + recs[x].len - 1
      BY <1>3, <2>3, <3>2 DEF IrLaidOut
    <3>4. x \in 0 .. S - 1 /\ recs[x].len \in 1 .. S - x
          /\ (x < p => x + recs[x].len <= p)
      BY <1>3, <2>3, <3>3 DEF IrLaidOut
    <3>5. CASE x = o
      <4>1. k = recs[x].len
        BY <1>4, <3>3, <3>5
      <4> HIDE DEF o, recs, S
      <4> QED BY <1>1, <1>6, <2>2, <3>1, <3>4, <3>5, <4>1
    <3>6. CASE x # o
      <4> DEFINE l == recs[x].len
      <4>1. l \in 1 .. S - x /\ o \in x .. x + l - 1
        BY <3>3, <3>4
      <4>2. x \in 0 .. S - 1
        BY <3>4
      <4>3. x < o /\ o < x + l
        <5> HIDE DEF l, o, S
        <5> QED BY <1>1, <3>6, <4>1, <4>2
      <4>4. S * q + x < S * q + o /\ S * q + o < (S * q + x) + l
        <5> HIDE DEF l, o, S, q
        <5> QED BY <1>1, <2>1, <4>1, <4>2, <4>3
      <4>5. IrAt(d, b + q, x) = S * q + x
        <5>1. IrAt(d, b + q, x) = S * ((b + q) - b) + x
          BY DEF IrAt
        <5>2. (b + q) - b = q
          <6> HIDE DEF b, q
          <6> QED BY <1>1
        <5> QED BY <5>1, <5>2
      <4>6. IrAt(d, b + q, x) < re => IrAt(d, b + q, x) + l <= re
        BY <1>2, <3>3 DEF IrScanned
      <4> HIDE DEF l, o, S, q
      <4> QED BY <1>1, <2>1, <4>1, <4>2, <4>4, <4>5, <4>6
    <3> QED BY <3>5, <3>6
  <2>5. k = recs[o].len /\ recs[o].name # name
    BY <1>4, <2>3, <2>4
  <2>6. IrRecords[m][s][p].name # name /\ len = k
    BY <2>3, <2>4, <2>5
  <2>7. IrAt(d, s, p) + len <= re + k
    <3> HIDE DEF S, q, j, o, len, recs
    <3> QED BY <1>1, <1>6, <2>1, <2>2, <2>4, <2>6
  <2> QED BY <2>6, <2>7 DEF len
<1> QED BY <1>7, <1>8

\* What a lookup knows: the directory it is in is where the path leads so far, and
\* the records behind it are not what it looks for.
IrScanning ==
    /\ irCall.path \in IrPaths /\ irCall.at \in 1 .. Len(irCall.path)
    /\ irCall.dir \in IrTable(irImage) /\ irCall.dir.dir
    /\ irCall.re \in Nat /\ irCall.pos = irCall.dir.lba * IrSector + irCall.re
    /\ irCall.sector # 0 => irBuf = <<irImage, irCall.sector>>
    /\ IrScanned(irImage, irCall.dir, irCall.re, IrComponent)
    /\ \E w \in IrWalks(irImage, irCall.path, irCall.at - 1) : w[irCall.at - 1] = irCall.dir
    /\ \A w \in IrWalks(irImage, irCall.path, Len(irCall.path)) : w[irCall.at - 1] = irCall.dir

IrFindInv ==
    /\ irImage # IrNone => irImage \in IrValid
    /\ irCall.pc = "scan" => irCall.answer = "none"
    /\ irCall.pc = "scan" /\ ~irExcused => IrScanning
    /\ PathFound

\* A way goes on with a record of the directory it has come to.
LEMMA IrWayGoesOn ==
    ASSUME NEW m, NEW path, NEW n \in Nat, NEW w \in IrWalks(m, path, n),
           w[n].dir, NEW r \in IrDirectory(m, w[n]), r \in IrTable(m), r.name = path[n + 1]
    PROVE  \E v \in IrWalks(m, path, n + 1) : v[n + 1] = r
<1> DEFINE v == [i \in 0 .. n + 1 |-> IF i = n + 1 THEN r ELSE w[i]]
<1>1. w \in [0 .. n -> IrTable(m)] /\ w[0] = IrRoot[m]
      /\ \A i \in 1 .. n : w[i - 1].dir /\ w[i] \in IrDirectory(m, w[i - 1]) /\ w[i].name = path[i]
  BY DEF IrWalks
<1>2. v[n + 1] = r /\ \A i \in 0 .. n : v[i] = w[i]
  OBVIOUS
<1>3. v \in [0 .. n + 1 -> IrTable(m)]
  BY <1>1
<1> HIDE DEF v
<1>4. ASSUME NEW i \in 1 .. n + 1
      PROVE  v[i - 1].dir /\ v[i] \in IrDirectory(m, v[i - 1]) /\ v[i].name = path[i]
  <2>1. CASE i = n + 1
    <3>1. i - 1 = n /\ n \in 0 .. n
      BY <2>1
    <3>2. v[i - 1] = w[n] /\ v[i] = r
      BY <1>2, <2>1, <3>1
    <3> QED BY <2>1, <3>2
  <2>2. CASE i # n + 1
    <3>1. i \in 1 .. n /\ i \in 0 .. n /\ i - 1 \in 0 .. n
      BY <2>2
    <3>2. v[i - 1] = w[i - 1] /\ v[i] = w[i]
      BY <1>2, <3>1
    <3> QED BY <1>1, <3>1, <3>2
  <2> QED BY <2>1, <2>2
<1>5. v[0] = IrRoot[m]
  BY <1>1, <1>2
<1>6. v \in IrWalks(m, path, n + 1)
  BY <1>3, <1>4, <1>5 DEF IrWalks
<1> QED BY <1>2, <1>6

\* A whole way has a record of each directory it goes through.
LEMMA IrWayStep ==
    ASSUME NEW m, NEW path, NEW n \in Nat, NEW w \in IrWalks(m, path, n), NEW i \in 1 .. n
    PROVE  w[i] \in IrDirectory(m, w[i - 1]) /\ w[i].name = path[i]
  BY DEF IrWalks

\* findPath begins with a component in the directory where the path leads so far.
LEMMA IrScanStarts ==
    ASSUME IrShape, irImage \in IrValid, NEW call, NEW i, NEW d \in IrTable(irImage),
           DOMAIN call = DOMAIN IrIdle, call.path \in IrPaths, i \in 1 .. Len(call.path),
           call.op = "find", call.answer = "none", d.dir,
           irCall' = IrDescend(call, i, d), irImage' = irImage,
           \E w \in IrWalks(irImage, call.path, i - 1) : w[i - 1] = d,
           \A w \in IrWalks(irImage, call.path, Len(call.path)) : w[i - 1] = d
    PROVE  IrFindInv'
<1> DEFINE level == IF i = Len(call.path) THEN call.level ELSE call.level + IrDeeper(call.path[i])
<1> HIDE DEF level
<1>1. irCall' = IF level > IrMaxLevel THEN [call EXCEPT !.pc = "idle", !.answer = "error"]
                ELSE [call EXCEPT !.pc = "scan", !.at = i, !.level = level, !.dir = d, !.re = 0,
                                  !.sector = 0, !.pos = d.lba * IrSector]
  BY DEF IrDescend, level
<1>2. CASE level > IrMaxLevel
  <2>1. irCall'.pc = "idle" /\ irCall'.answer = "error"
    BY <1>1, <1>2 DEF IrIdle
  <2> QED BY <2>1 DEF IrFindInv, PathFound
<1>3. CASE ~(level > IrMaxLevel)
  <2>1. irCall'.pc = "scan" /\ irCall'.answer = "none" /\ irCall'.path = call.path
        /\ irCall'.at = i /\ irCall'.dir = d /\ irCall'.re = 0 /\ irCall'.sector = 0
        /\ irCall'.pos = d.lba * IrSector
    BY <1>1, <1>3 DEF IrIdle
  <2>2. IrScanned(irImage, d, 0, call.path[i])
    BY IrScanBegins
  <2>3. d.lba * IrSector = d.lba * IrSector + 0
    <3>1. d.lba * IrSector \in Nat
      <4>1. \A x, y \in Nat : x * y \in Nat
        BY Z3
      <4>2. d.lba \in Nat /\ IrSector \in Nat
        BY IrWhere
      <4> QED BY <4>1, <4>2
    <3> QED BY <3>1
  <2>4. IrScanned(irImage, irCall'.dir, irCall'.re, irCall'.path[irCall'.at])
    BY <2>1, <2>2
  <2>5. IrScanning'
    BY <2>1, <2>3, <2>4 DEF IrScanning, IrComponent, IrScanned
  <2> QED BY <2>1, <2>5 DEF IrFindInv, PathFound
<1> QED BY <1>2, <1>3

\* A step of the scan that leaves it where it is and finds nothing.
LEMMA IrScanEndsKeeps ==
    ASSUME IrInv, IrFindInv, IrScanEnds
    PROVE  IrFindInv'
<1>1. irCall.pc = "scan" /\ irCall.re >= irCall.dir.size /\ irCall' = IrEnd("absent")
      /\ UNCHANGED <<irImage, irTotal, irWin, irBuf, irExcused>>
      /\ irImage \in IrValid /\ DOMAIN irCall = DOMAIN IrIdle
  BY DEF IrScanEnds, IrInv, IrShape, IrFindInv
<1>2. irCall'.pc = "idle" /\ irCall'.answer = "absent" /\ irCall'.path = irCall.path
  BY <1>1 DEF IrEnd, IrIdle
<1>3. ~irExcused => IrWalks(irImage, irCall.path, Len(irCall.path)) = {}
  <2> SUFFICES ASSUME ~irExcused, NEW w \in IrWalks(irImage, irCall.path, Len(irCall.path))
               PROVE  FALSE
    OBVIOUS
  <2>1. IrScanning
    BY <1>1 DEF IrFindInv
  <2> DEFINE at == irCall.at
  <2>2. Len(irCall.path) \in Nat /\ at \in 1 .. Len(irCall.path)
    BY <2>1, IrAssumption DEF IrScanning
  <2>3. w[at - 1] = irCall.dir
    BY <2>1 DEF IrScanning
  <2>4. w[at] \in IrDirectory(irImage, irCall.dir) /\ w[at].name = IrComponent
    BY <2>2, <2>3, IrWayStep DEF IrComponent
  <2>5. w[at].name # IrComponent
    BY <1>1, <2>1, <2>4, IrScanDone DEF IrScanning
  <2> QED BY <2>4, <2>5
<1> QED BY <1>1, <1>2, <1>3 DEF IrFindInv, PathFound

LEMMA IrScanReadsFinds ==
    ASSUME IrInv, IrFindInv, IrScanReads
    PROVE  IrFindInv'
<1> DEFINE n == irCall.pos \div IrSector
           then == [irCall EXCEPT !.sector = n]
<1>1. irCall.pc = "scan" /\ irCall.op = "find" /\ irImage \in IrImages /\ DOMAIN irCall = DOMAIN IrIdle
      /\ irImage \in IrValid /\ irCall.answer = "none"
  BY IrAssumption DEF IrScanReads, IrInv, IrShape, IrFindInv
<1>2. IrSectorRead(n, then)
  BY DEF IrScanReads
<1>3. ~irExcused => n \in Nat
  <2> SUFFICES ASSUME ~irExcused PROVE n \in Nat
    OBVIOUS
  <2>1. IrScanning
    BY <1>1 DEF IrFindInv
  <2> DEFINE d == irCall.dir
             re == irCall.re
  <2>2. n = d.lba + re \div IrSector /\ d.lba \in Nat /\ re \div IrSector \in Nat
    <3>1. d \in IrTable(irImage) /\ d.dir /\ re \in Nat
      BY <2>1 DEF IrScanning
    <3>2. /\ d.lba \in Nat /\ re \div IrSector \in Nat
          /\ (d.lba * IrSector + re) \div IrSector = d.lba + re \div IrSector
      BY <1>1, <3>1, IrWhere
    <3>3. irCall.pos = d.lba * IrSector + re
      BY <2>1 DEF IrScanning
    <3> QED BY <3>2, <3>3
  <2> HIDE DEF n
  <2> QED BY <2>2
<1> HIDE DEF n
<1>4. /\ irImage' = irImage
      /\ irExcused => irExcused'
      /\ \/ irCall' = IrEnd("error")
         \/ irCall' = then /\ (n \in Nat /\ ~irExcused' => irBuf' = <<irImage, n>>)
  <2> HIDE DEF then
  <2> QED BY <1>1, <1>2, IrSectorReadFacts DEF IrInv
<1>5. CASE irCall' = IrEnd("error")
  <2>1. irCall'.pc = "idle" /\ irCall'.answer = "error"
    BY <1>1, <1>5 DEF IrEnd, IrIdle
  <2> QED BY <1>4, <2>1 DEF IrFindInv, PathFound
<1>6. CASE irCall' = then /\ (n \in Nat /\ ~irExcused' => irBuf' = <<irImage, n>>)
  <2>1. irCall'.pc = "scan" /\ irCall'.answer = "none" /\ irCall'.path = irCall.path
        /\ irCall'.at = irCall.at /\ irCall'.dir = irCall.dir /\ irCall'.re = irCall.re
        /\ irCall'.sector = n /\ irCall'.pos = irCall.pos
    BY <1>1, <1>6 DEF IrIdle
  <2>2. ~irExcused' => IrScanning'
    <3> SUFFICES ASSUME ~irExcused' PROVE IrScanning'
      OBVIOUS
    <3>1. IrScanning
      BY <1>1, <1>4 DEF IrFindInv
    <3>2. irBuf' = <<irImage, n>>
      BY <1>3, <1>4, <1>6
    <3>3. IrScanned(irImage, irCall.dir, irCall.re, IrComponent) => IrScanned(irImage, irCall.dir, irCall.re, IrComponent)'
      BY <1>4, <2>1 DEF IrScanned, IrComponent
    <3> QED BY <1>4, <2>1, <3>1, <3>2, <3>3 DEF IrScanning
  <2> QED BY <1>1, <1>4, <2>1, <2>2 DEF IrFindInv, PathFound
<1> QED BY <1>4, <1>5, <1>6

\* findFile at one place of the directory.
LEMMA IrExamineFinds ==
    ASSUME IrInv, IrFindInv, IrExamine
    PROVE  IrFindInv'
<1> DEFINE n == irCall.pos \div IrSector
           here == IF irBuf = <<irImage, n>> /\ n \in DOMAIN IrRecords[irImage]
                   THEN IrRecords[irImage][n] ELSE <<>>
           off == irCall.pos % IrSector
           rec == here[off]
           hit == IrComponent = rec.name
           Skip(k) == [irCall EXCEPT !.pos = @ + k, !.re = @ + k]
           rest == IrRest(irCall.pos)
           d == irCall.dir
           re == irCall.re
           at == irCall.at
           path == irCall.path
<1>1. irCall.pc = "scan" /\ irCall.op = "find" /\ irImage \in IrValid /\ DOMAIN irCall = DOMAIN IrIdle
      /\ irCall.answer = "none"
  BY DEF IrExamine, IrInv, IrShape, IrFindInv
<1>2. /\ UNCHANGED <<irImage, irBuf, irExcused>> /\ re < d.size /\ n = irCall.sector
      /\ irBuf = <<irImage, n>>
      /\ irCall' =
            IF off \notin DOMAIN here THEN Skip(rest)
            ELSE IF rec.long THEN IrEnd("error")
            ELSE IF ~hit THEN Skip(rec.len)
            ELSE IF rec.name = ".." \/ (~IrIsLast /\ ~rec.dir) THEN IrEnd("error")
            ELSE IF IrIsLast THEN [IrEnd("found") EXCEPT !.rec = rec]
            ELSE IrDescend(irCall, at + 1, rec)
  BY DEF IrExamine
<1> HIDE DEF n, here, off, rec, hit, Skip, rest
<1>3. CASE irCall' = IrEnd("error")
  <2>1. irCall'.pc = "idle" /\ irCall'.answer = "error"
    BY <1>1, <1>3 DEF IrEnd, IrIdle
  <2> QED BY <1>1, <1>2, <2>1 DEF IrFindInv, PathFound
<1>4. \A k : irCall' = Skip(k) =>
         /\ irCall'.pc = "scan" /\ irCall'.answer = "none" /\ irCall'.path = path
         /\ irCall'.at = at /\ irCall'.dir = d /\ irCall'.re = re + k
         /\ irCall'.sector = irCall.sector /\ irCall'.pos = irCall.pos + k
  BY <1>1 DEF IrIdle, Skip
<1>5. CASE irExcused
  <2>1. CASE \E k : irCall' = Skip(k)
    BY <1>1, <1>2, <1>4, <1>5, <2>1 DEF IrFindInv, PathFound
  <2>2. CASE irCall' = [IrEnd("found") EXCEPT !.rec = rec]
    <3>1. irCall'.pc = "idle"
      BY <1>1, <2>2 DEF IrEnd, IrIdle
    <3> QED BY <1>1, <1>2, <1>5, <3>1 DEF IrFindInv, PathFound
  <2>3. CASE irCall' = IrDescend(irCall, at + 1, rec)
    <3>1. irCall'.pc = "scan" => irCall'.answer = "none"
      <4> DEFINE level == IF at + 1 = Len(irCall.path) THEN irCall.level
                          ELSE irCall.level + IrDeeper(irCall.path[at + 1])
      <4> HIDE DEF level
      <4>1. irCall' = IF level > IrMaxLevel THEN [irCall EXCEPT !.pc = "idle", !.answer = "error"]
                      ELSE [irCall EXCEPT !.pc = "scan", !.at = at + 1, !.level = level, !.dir = rec,
                                          !.re = 0, !.sector = 0, !.pos = rec.lba * IrSector]
        BY <2>3 DEF IrDescend, level
      <4> HIDE DEF at
      <4> QED BY <1>1, <4>1 DEF IrIdle
    <3> QED BY <1>1, <1>2, <1>5, <3>1 DEF IrFindInv, PathFound
  <2> QED BY <1>2, <1>3, <2>1, <2>2, <2>3
<1>6. CASE ~irExcused
  <2>1. IrScanning
    BY <1>1, <1>6 DEF IrFindInv
  <2>2. /\ path \in IrPaths /\ at \in 1 .. Len(path) /\ Len(path) \in Nat \ {0}
        /\ d \in IrTable(irImage) /\ d.dir /\ re \in Nat /\ irCall.pos = d.lba * IrSector + re
        /\ IrScanned(irImage, d, re, IrComponent)
    BY <2>1, IrAssumption DEF IrScanning
  <2> DEFINE q == re \div IrSector
  <2>3. /\ n = d.lba + q /\ off = re % IrSector /\ off \in 0 .. IrSector - 1
        /\ IrSector \in Nat \ {0} /\ d.lba \in Nat /\ q \in Nat /\ q < d.size \div IrSector
        /\ d.size \div IrSector \in Nat /\ irCall.pos \in Nat
    <3>1. /\ (d.lba * IrSector + re) \div IrSector = d.lba + q
          /\ (d.lba * IrSector + re) % IrSector = re % IrSector
          /\ d.lba * IrSector + re \in Nat
          /\ re % IrSector \in 0 .. IrSector - 1 /\ IrSector \in Nat \ {0} /\ d.lba \in Nat
          /\ q \in Nat /\ d.size \div IrSector \in Nat
          /\ re < d.size <=> q < d.size \div IrSector
      BY <1>1, <2>2, IrWhere
    <3> QED BY <1>2, <2>2, <3>1 DEF n, off
  <2>4. n \in IrExtent(d)
    <3> DEFINE b == d.lba
               h == d.size \div IrSector
    <3>1. n = b + q /\ b \in Nat /\ q \in Nat /\ h \in Nat /\ q < h
      BY <2>3
    <3> HIDE DEF b, h, q
    <3>2. n \in b .. b + h - 1
      BY <3>1
    <3> QED BY <3>2 DEF IrExtent, b, h
  <2>5. here = IrRecords[irImage][n]
    <3>1. n \in DOMAIN IrRecords[irImage]
      BY <1>1, <2>2, <2>4, IrDirectoryAssumption DEF IrDirectoryRight, IrExtent
    <3> QED BY <1>2, <3>1 DEF here
  <2>6. ASSUME NEW k \in Nat, irCall' = Skip(k),
               off \notin DOMAIN here => k = IrSector - off,
               off \in DOMAIN here => k = here[off].len /\ here[off].name # IrComponent
        PROVE  IrFindInv'
    <3>1. IrScanned(irImage, d, re + k, IrComponent)
      <4>1. LET recs == IrRecords[irImage][d.lba + re \div IrSector]
                o == re % IrSector
            IN  /\ o \notin DOMAIN recs => k = IrSector - o
                /\ o \in DOMAIN recs => k = recs[o].len /\ recs[o].name # IrComponent
        BY <2>3, <2>5, <2>6
      <4> QED BY <1>1, <1>2, <2>2, <4>1, IrScanGoesOn
    <3>2. /\ irCall'.pc = "scan" /\ irCall'.answer = "none" /\ irCall'.path = path
          /\ irCall'.at = at /\ irCall'.dir = d /\ irCall'.re = re + k
          /\ irCall'.sector = irCall.sector /\ irCall'.pos = irCall.pos + k
      BY <1>4, <2>6
    <3>3. irCall'.pos = d.lba * IrSector + irCall'.re
      <4> DEFINE x == d.lba * IrSector
      <4>1. x \in Nat
        <5>1. \A y, z \in Nat : y * z \in Nat
          BY Z3
        <5> QED BY <2>3, <5>1
      <4> HIDE DEF x
      <4>2. irCall'.pos = (x + re) + k /\ irCall'.re = re + k
        BY <2>2, <3>2 DEF x
      <4> HIDE DEF re
      <4>3. irCall'.pos = x + irCall'.re
        BY <2>2, <4>1, <4>2
      <4> QED BY <4>3 DEF x
    <3>4. IrScanned(irImage, irCall'.dir, irCall'.re, irCall'.path[irCall'.at])
      BY <3>1, <3>2 DEF IrComponent
    <3>5. IrScanning'
      <4>1. irCall'.re \in Nat
        BY <2>2, <3>2
      <4>2. irCall'.dir = irCall.dir /\ irCall'.at = irCall.at /\ irCall'.path = irCall.path
            /\ irCall'.sector = irCall.sector
        BY <3>2
      <4>3. UNCHANGED <<irImage, irBuf>>
        BY <1>2
      <4>4. /\ irCall'.path \in IrPaths /\ irCall'.at \in 1 .. Len(irCall'.path)
            /\ irCall'.dir \in IrTable(irImage') /\ irCall'.dir.dir
            /\ irCall'.sector # 0 => irBuf' = <<irImage', irCall'.sector>>
            /\ \E w \in IrWalks(irImage', irCall'.path, irCall'.at - 1) : w[irCall'.at - 1] = irCall'.dir
            /\ \A w \in IrWalks(irImage', irCall'.path, Len(irCall'.path)) :
                  w[irCall'.at - 1] = irCall'.dir
        <5> HIDE DEF d, re, at, path
        <5> QED BY <2>1, <4>2, <4>3 DEF IrScanning
      <4>7. irCall'.pos = irCall'.dir.lba * IrSector + irCall'.re
        BY <3>3, <4>2
      <4>5. IrScanned(irImage', irCall'.dir, irCall'.re, irCall'.path[irCall'.at])
        BY <3>4, <4>3
      <4> HIDE DEF d, re, at, path
      <4>6. IrScanned(irImage, irCall.dir, irCall.re, IrComponent)'
        BY <4>5 DEF IrScanned, IrComponent
      <4> QED BY <4>1, <4>4, <4>6, <4>7 DEF IrScanning
    <3> QED BY <1>1, <1>2, <3>2, <3>5 DEF IrFindInv, PathFound
  <2>7. CASE off \notin DOMAIN here
    <3>1. irCall' = Skip(rest)
      BY <1>2, <2>7
    <3>2. rest = IrSector - off
      BY DEF rest, IrRest, off
    <3>3. rest \in Nat
      BY <2>3, <3>2
    <3> QED BY <2>6, <2>7, <3>1, <3>2, <3>3
  <2>8. CASE off \in DOMAIN here
    <3>1. /\ rec = IrRecords[irImage][n][off] /\ rec.len \in Nat
          /\ rec \in IrDirectory(irImage, d) /\ rec \in IrTable(irImage)
      <4>1. /\ IrRecords[irImage][n][off].len \in 1 .. IrSector - off
            /\ IrRecords[irImage][n][off] \in IrDirectory(irImage, d)
            /\ IrRecords[irImage][n][off] \in IrTable(irImage)
        BY <1>1, <2>2, <2>4, <2>5, <2>8, IrRecordAt
      <4> QED BY <2>3, <2>5, <4>1 DEF rec
    <3>2. CASE irCall' = Skip(rec.len) /\ ~hit
      BY <2>6, <2>8, <3>1, <3>2 DEF rec, hit
    <3>3. ASSUME hit, rec.name = path[at]
          PROVE  /\ \E w \in IrWalks(irImage, path, at) : w[at] = rec
                 /\ \A w \in IrWalks(irImage, path, Len(path)) : w[at] = rec
      <4>1. PICK w \in IrWalks(irImage, path, at - 1) : w[at - 1] = d
        BY <2>1 DEF IrScanning
      <4>2. at - 1 \in Nat /\ (at - 1) + 1 = at
        BY <2>2
      <4>3. \E v \in IrWalks(irImage, path, (at - 1) + 1) : v[(at - 1) + 1] = rec
        <5> HIDE DEF at, path, d
        <5>1. w[at - 1].dir /\ rec \in IrDirectory(irImage, w[at - 1]) /\ rec.name = path[(at - 1) + 1]
          BY <2>2, <3>1, <3>3, <4>1, <4>2
        <5> QED BY <3>1, <4>2, <5>1, IrWayGoesOn
      <4>4. \E v \in IrWalks(irImage, path, at) : v[at] = rec
        <5> HIDE DEF at, path
        <5> QED BY <4>2, <4>3
      <4>5. ASSUME NEW v \in IrWalks(irImage, path, Len(path)) PROVE v[at] = rec
        <5>1. v[at - 1] = d
          BY <2>1 DEF IrScanning
        <5>2. v[at] \in IrDirectory(irImage, d) /\ v[at].name = path[at]
          BY <2>2, <5>1, IrWayStep
        <5>3. \A r1, r2 \in IrDirectory(irImage, d) : r1.name = r2.name => r1 = r2
          BY <1>1, <2>2, IrDirectoryAssumption DEF IrDirectoryRight
        <5> QED BY <3>1, <3>3, <5>2, <5>3
      <4> QED BY <4>4, <4>5
    <3>4. hit <=> rec.name = path[at]
      BY DEF hit, IrComponent
    <3>5. CASE hit /\ IrIsLast /\ irCall' = [IrEnd("found") EXCEPT !.rec = rec]
      <4>1. irCall'.pc = "idle" /\ irCall'.answer = "found" /\ irCall'.rec = rec /\ irCall'.path = path
        BY <1>1, <3>5 DEF IrEnd, IrIdle
      <4>2. at = Len(path)
        BY <3>5 DEF IrIsLast
      <4>3. \E w \in IrWalks(irImage, path, at) : w[at] = rec
        BY <3>3, <3>4, <3>5
      <4>4. \E w \in IrWalks(irImage, path, Len(path)) : rec = w[Len(path)]
        BY <4>2, <4>3
      <4> QED BY <1>1, <1>2, <4>1, <4>4 DEF IrFindInv, PathFound
    <3>6. CASE hit /\ ~IrIsLast /\ rec.dir /\ irCall' = IrDescend(irCall, at + 1, rec)
      <4>1. at + 1 \in 1 .. Len(path) /\ (at + 1) - 1 = at
        BY <2>2, <3>6 DEF IrIsLast
      <4>2. /\ \E w \in IrWalks(irImage, path, (at + 1) - 1) : w[(at + 1) - 1] = rec
            /\ \A w \in IrWalks(irImage, path, Len(path)) : w[(at + 1) - 1] = rec
        BY <3>3, <3>4, <3>6, <4>1
      <4> DEFINE i == at + 1
      <4> HIDE DEF i
      <4>3. /\ \E w \in IrWalks(irImage, path, i - 1) : w[i - 1] = rec
            /\ \A w \in IrWalks(irImage, path, Len(path)) : w[i - 1] = rec
            /\ i \in 1 .. Len(path) /\ irCall' = IrDescend(irCall, i, rec)
        BY <3>6, <4>1, <4>2 DEF i
      <4> QED BY <1>1, <1>2, <2>2, <3>1, <3>6, <4>3, IrScanStarts DEF IrInv
    <3> QED BY <1>2, <1>3, <2>8, <3>2, <3>5, <3>6
  <2> QED BY <2>7, <2>8
<1> QED BY <1>5, <1>6

LEMMA IrStepKeepsFindInv ==
    ASSUME IrInv, IrFindInv, [IrNext]_irVars
    PROVE  IrFindInv'
<1>1. /\ IrNone \notin IrImages /\ IrValid \subseteq IrImages
      /\ \A p \in IrPaths : Len(p) \in Nat \ {0}
  BY IrAssumption
<1>2. DOMAIN IrIdle = DOMAIN IrIdle /\ IrIdle.pc = "idle" /\ IrIdle.op = "none"
      /\ IrIdle.answer = "none"
  BY DEF IrIdle
<1>3. ASSUME irCall'.op # "find", irCall'.pc # "scan", irImage' = IrNone \/ irImage' \in IrValid
      PROVE  IrFindInv'
  BY <1>3 DEF IrFindInv, PathFound
<1>4. ASSUME NEW m \in IrImages, IrOpens(m) \/ IrOpenFails(m) PROVE IrFindInv'
  BY <1>2, <1>3, <1>4 DEF IrOpens, IrOpenFails, IrIsDescriptor
<1>5. CASE IrCloses
  BY <1>2, <1>3, <1>5 DEF IrCloses
<1>6. ASSUME NEW p \in IrPaths, IrFind(p) PROVE IrFindInv'
  <2> DEFINE call == [IrIdle EXCEPT !.op = "find", !.path = p]
             root == IrRoot[irImage]
  <2>1. DOMAIN call = DOMAIN IrIdle /\ call.op = "find" /\ call.path = p /\ call.answer = "none"
    BY DEF IrIdle
  <2>2. irCall' = IrDescend(call, 1, root)
        /\ irImage' = irImage /\ irImage \in IrValid
    BY <1>6 DEF IrFind, IrFindInv
  <2>3. root \in IrTable(irImage) /\ root.dir
    BY <2>2, IrDirectoryAssumption DEF IrTable
  <2> HIDE DEF call
  <2>4. /\ \E w \in IrWalks(irImage, p, 1 - 1) : w[1 - 1] = root
        /\ \A w \in IrWalks(irImage, p, Len(p)) : w[1 - 1] = root
    <3> DEFINE w0 == [i \in 0 .. 0 |-> root]
    <3>1. w0 \in [0 .. 0 -> IrTable(irImage)] /\ w0[0] = IrRoot[irImage] /\ 1 .. 0 = {}
      BY <2>3
    <3> HIDE DEF w0
    <3>2. w0 \in IrWalks(irImage, p, 0)
      BY <3>1 DEF IrWalks
    <3>3. \A w \in IrWalks(irImage, p, Len(p)) : w[0] = root
      BY DEF IrWalks
    <3> QED BY <3>1, <3>2, <3>3
  <2>5. 1 \in 1 .. Len(p)
    BY <1>1
  <2> HIDE DEF root
  <2> QED BY <2>1, <2>2, <2>3, <2>4, <2>5, IrScanStarts DEF IrInv
<1>7. CASE IrScanEnds
  BY <1>7, IrScanEndsKeeps
<1>8. CASE IrExamineJunk
  <2>1. irCall.pc = "scan" /\ irImage \in IrValid /\ DOMAIN irCall = DOMAIN IrIdle
        /\ irCall.pos \div IrSector = irCall.sector /\ irBuf # <<irImage, irCall.sector>>
        /\ UNCHANGED <<irImage, irExcused>>
        /\ \E answer \in {"absent", "error", "found"} : irCall' = IrEnd(answer)
    BY <1>8, <1>1 DEF IrExamineJunk, IrInv, IrShape, IrFindInv
  <2>2. irCall'.pc = "idle"
    BY <2>1 DEF IrEnd, IrIdle
  <2>3. irExcused
    <3> SUFFICES ASSUME ~irExcused PROVE FALSE
      OBVIOUS
    <3>1. IrScanning
      BY <2>1 DEF IrFindInv
    <3> DEFINE d == irCall.dir
               re == irCall.re
    <3>2. d \in IrTable(irImage) /\ d.dir /\ re \in Nat /\ irCall.pos = d.lba * IrSector + re
      BY <3>1 DEF IrScanning
    <3>3. /\ d.lba \in Nat \ {0} /\ re \div IrSector \in Nat
          /\ (d.lba * IrSector + re) \div IrSector = d.lba + re \div IrSector
      BY <2>1, <3>2, IrWhere
    <3>4. irCall.sector = d.lba + re \div IrSector
      BY <2>1, <3>2, <3>3
    <3>5. irCall.sector # 0
      <4> DEFINE b == d.lba
                 q == re \div IrSector
      <4>1. b \in Nat \ {0} /\ q \in Nat /\ irCall.sector = b + q
        BY <3>3, <3>4
      <4> HIDE DEF b, q
      <4> QED BY <4>1
    <3> QED BY <2>1, <3>1, <3>5 DEF IrScanning
  <2> QED BY <2>1, <2>2, <2>3 DEF IrFindInv, PathFound
<1>9. CASE IrScanReads
  BY <1>9, IrScanReadsFinds
<1>10. CASE IrExamine
  BY <1>10, IrExamineFinds
<1>11. ASSUME NEW q \in IrRequests, IrRead(q) PROVE IrFindInv'
  <2>1. irCall'.op = "read" /\ irCall'.pc = "read" /\ irImage' = irImage
    BY <1>11 DEF IrRead, IrIdle
  <2> QED BY <1>3, <2>1 DEF IrFindInv
<1>12. CASE IrReadOn \/ IrReadEnds
  <2>1. irCall.pc = "read" /\ irCall.op = "read" /\ irImage \in IrImages /\ DOMAIN irCall = DOMAIN IrIdle
    BY <1>12 DEF IrReadOn, IrReadEnds, IrInv, IrShape
  <2>2. irImage' = irImage
    BY <1>12 DEF IrReadOn, IrReadEnds, IrSectorRead
  <2>3. irCall'.op = "read" /\ irCall'.pc # "scan"
    <3>1. CASE IrReadEnds
      BY <2>1, <3>1 DEF IrReadEnds, IrEnd, IrIdle
    <3>2. CASE IrReadOn
      <4> DEFINE pos == irCall.pos
                 n == IF IrRest(pos) < irCall.left THEN IrRest(pos) ELSE irCall.left
                 Cells == [k \in 1 .. n |-> <<irBuf', (pos % IrSector) + k - 1>>]
                 then == [irCall EXCEPT !.pos = @ + n, !.left = @ - n, !.data = @ \o Cells]
      <4>1. IrSectorRead(pos \div IrSector, then)
        BY <3>2 DEF IrReadOn
      <4> HIDE DEF Cells, n
      <4>2. then.op = "read" /\ then.pc = "read"
        BY <2>1 DEF IrIdle
      <4>3. IrEnd("error").op = "read" /\ IrEnd("error").pc = "idle"
        BY <2>1 DEF IrEnd, IrIdle
      <4> HIDE DEF then
      <4>4. irCall' \in {then, IrEnd("error")}
        BY <4>1 DEF IrSectorRead
      <4> QED BY <4>2, <4>3, <4>4
    <3> QED BY <1>12, <3>1, <3>2
  <2> QED BY <1>3, <2>2, <2>3 DEF IrFindInv
<1>13. CASE UNCHANGED irVars
  BY <1>13 DEF IrFindInv, IrScanning, IrScanned, IrComponent, PathFound, irVars
<1> QED BY <1>4, <1>5, <1>6, <1>7, <1>8, <1>9, <1>10, <1>11, <1>12, <1>13 DEF IrNext

\* isoGetFileInfo finds a path exactly if the image has it, for every set of images
\* whose sectors of records are laid out as ISO 9660 says, every size of sectors, every
\* path and every order of calls and of failed opens, seeks and reads: but for a lookup
\* that readRawData gave bytes of another place.
THEOREM PathFoundTheorem == IrSpec => []PathFound
<1>1. IrInit => IrInv /\ IrFindInv
  <2> SUFFICES ASSUME IrInit PROVE IrFindInv
    BY IrInitInv
  <2>1. IrIdle.pc = "idle" /\ IrIdle.op = "none"
    BY DEF IrIdle
  <2> QED BY <2>1 DEF IrInit, IrFindInv, PathFound
<1>2. IrInv /\ IrFindInv /\ [IrNext]_irVars => IrInv' /\ IrFindInv'
  BY IrStepKeepsInv, IrStepKeepsFindInv
<1>3. IrFindInv => PathFound
  BY DEF IrFindInv
<1> QED BY <1>1, <1>2, <1>3, PTL DEF IrSpec

-----------------------------------------------------------------------------
\* The UMD as a USB disk.  A sector is read through a buffer that is not read again
\* for the same number, and the driver is moved only when the number is not the next.
\* A read that is not excused finds the driver behind the sector in the buffer where
\* it relies on it, and leaves out no error, so that each part's bytes are in place.

\* The driver and the sector it has buffered.
VfDiscs == [last : Nat \cup {-1}, pos : Nat, buf : -1 .. VfUmd - 1, failed : BOOLEAN]

VfTypes == vfPtr \in Nat /\ VfDisc \in VfDiscs

VfInv == VfTypes /\ VfReadRight

LEMMA VfConstants ==
    /\ VfUmd \in Nat \ {0} /\ VfMaxLen \in Nat \ {0}
    /\ VfFat1 \in Nat /\ VfFat2 \in Nat /\ VfDir \in Nat /\ VfData \in Nat
    /\ VfEntries \in Nat /\ VfCluster \in Nat /\ VfSize \in Nat
    /\ 0 < VfFat1 /\ VfFat1 < VfFat2 /\ VfFat2 < VfDir /\ VfDir < VfData
    /\ VfEntries > 2 /\ VfCluster > 0 /\ VfFileSize = VfUmd * 4
    /\ VfClusters \in Nat
<1>1. VfUmd \in Nat \ {0} /\ VfMaxLen \in Nat \ {0}
      /\ VfFat1 \in Nat /\ VfFat2 \in Nat /\ VfDir \in Nat /\ VfData \in Nat
      /\ VfEntries \in Nat /\ VfCluster \in Nat /\ VfSize \in Nat
  BY VfAssumption
<1>2. 0 < VfFat1 /\ VfFat1 < VfFat2 /\ VfFat2 < VfDir /\ VfDir < VfData /\ VfEntries > 2 /\ VfCluster > 0
  BY VfAssumption
<1>3. \A a \in Nat, b \in Nat \ {0} : a \div b \in Nat
  BY Z3
<1>4. VfFileSize + VfCluster - 1 \in Nat
  BY <1>1, <1>2 DEF VfFileSize
<1> QED BY <1>1, <1>2, <1>3, <1>4 DEF VfFileSize, VfClusters

\* The chain that a sector of the table holds is the one the host should find.
LEMMA VfTableRight == ASSUME NEW n \in Nat PROVE VfAllocTable(n) = VfTableWanted(n)
<1> DEFINE p == VfEntries * n
<1>1. p \in Nat /\ (n = 0 => p = 0) /\ (n # 0 => p > 2)
  <2>1. n # 0 => VfEntries * n >= VfEntries
    BY VfConstants
  <2> QED BY <2>1, VfConstants
<1> HIDE DEF p
<1>2. ASSUME NEW i \in 0 .. VfEntries - 1
      PROVE  (IF n = 0 /\ i < 2 THEN VfReserved
              ELSE IF p - 2 + i < VfClusters - 1 THEN p - 2 + i + 3
              ELSE IF p - 2 + i = VfClusters - 1 THEN VfEnd ELSE 0)
             = (IF p + i < 2 THEN VfReserved
                ELSE IF p + i < VfClusters + 1 THEN p + i + 1
                ELSE IF p + i = VfClusters + 1 THEN VfEnd ELSE 0)
  <2>1. i \in Nat /\ VfClusters \in Nat
    BY VfConstants
  <2>2. (n = 0 /\ i < 2) <=> p + i < 2
    BY <1>1, <2>1
  <2>3. /\ p - 2 + i < VfClusters - 1 <=> p + i < VfClusters + 1
        /\ p - 2 + i = VfClusters - 1 <=> p + i = VfClusters + 1
        /\ p - 2 + i + 3 = p + i + 1
    BY <1>1, <2>1
  <2> QED BY <2>2, <2>3
<1> QED BY <1>2 DEF VfAllocTable, VfTableWanted, VfLastCluster, p

LEMMA VfSectorRight ==
    ASSUME NEW n \in Nat, n < VfData \/ n >= VfData + VfFileSize
    PROVE  VfSector(n) = VfWanted(n)
<1>1. n >= VfFat1 /\ n < VfFat2 => n - VfFat1 \in Nat
  BY VfConstants
<1>2. n >= VfFat2 /\ n < VfDir => n - VfFat2 \in Nat
  BY VfConstants
<1>3. /\ n >= VfFat1 /\ n < VfFat2 <=> n \in VfFat1 .. VfFat2 - 1
      /\ n >= VfFat2 /\ n < VfDir <=> n \in VfFat2 .. VfDir - 1
      /\ n \notin VfData .. VfData + VfFileSize - 1
  BY VfConstants
<1> QED BY <1>1, <1>2, <1>3, VfTableRight DEF VfSector, VfWanted

\* What the buffered sector is after it was read and nothing failed.
LEMMA VfReadUmdRight ==
    ASSUME NEW lba \in 0 .. VfUmd - 1, NEW d \in VfDiscs, NEW r \in VfReadUmd(lba, d), ~r.failed,
           d.last = lba - 1 => d.pos = lba, d.last = lba => d.buf = lba
    PROVE  r.buf = lba /\ r.last = lba /\ r.pos = IF d.last = lba THEN d.pos ELSE lba + 1
<1>1. CASE lba = d.last
  BY <1>1 DEF VfReadUmd
<1>2. CASE lba # d.last
  <2> DEFINE at == IF d.last # lba - 1 THEN lba ELSE d.pos
  <2>1. at = lba /\ lba < VfUmd /\ lba \in Nat
    BY VfConstants
  <2>2. \/ r.failed
        \/ r = IF at < VfUmd THEN [d EXCEPT !.last = lba, !.pos = at + 1, !.buf = at]
               ELSE [d EXCEPT !.last = lba, !.pos = at]
    <3> HIDE DEF at
    <3>1. ASSUME NEW e \in {[d EXCEPT !.failed = TRUE]}
                           \cup {[d EXCEPT !.pos = at, !.buf = buf, !.failed = TRUE] : buf \in {d.buf, VfSpoiled}}
          PROVE  e.failed
      BY <3>1 DEF VfDiscs
    <3> QED BY <1>2, <3>1 DEF VfReadUmd, at
  <2> HIDE DEF at
  <2>3. r = [d EXCEPT !.last = lba, !.pos = at + 1, !.buf = at]
    BY <2>1, <2>2
  <2> QED BY <1>2, <2>1, <2>3 DEF VfDiscs
<1> QED BY <1>1, <1>2

LEMMA VfReadUmdType ==
    ASSUME NEW lba \in Nat, NEW d \in VfDiscs, NEW r \in VfReadUmd(lba, d)
    PROVE  r \in VfDiscs /\ (d.failed => r.failed)
<1> DEFINE at == IF d.last # lba - 1 THEN lba ELSE d.pos
<1>1. at \in Nat /\ VfUmd \in Nat
  BY VfConstants DEF VfDiscs
<1>2. CASE lba = d.last
  BY <1>2 DEF VfReadUmd
<1>3. CASE lba # d.last
  <2> HIDE DEF at
  <2>1. \/ r = [d EXCEPT !.failed = TRUE]
        \/ \E buf \in {d.buf, VfSpoiled} : r = [d EXCEPT !.pos = at, !.buf = buf, !.failed = TRUE]
        \/ at < VfUmd /\ r = [d EXCEPT !.last = lba, !.pos = at + 1, !.buf = at]
        \/ r = [d EXCEPT !.last = lba, !.pos = at]
    BY <1>3 DEF VfReadUmd, at
  <2>2. VfSpoiled \in -1 .. VfUmd - 1 /\ d.buf \in -1 .. VfUmd - 1
    BY VfConstants DEF VfSpoiled, VfDiscs
  <2>3. CASE r = [d EXCEPT !.failed = TRUE]
    BY <2>3 DEF VfDiscs
  <2>4. ASSUME NEW buf \in {d.buf, VfSpoiled}, r = [d EXCEPT !.pos = at, !.buf = buf, !.failed = TRUE]
        PROVE  r \in VfDiscs /\ (d.failed => r.failed)
    <3>1. buf \in -1 .. VfUmd - 1
      BY <2>2
    <3>2. r = [last |-> d.last, pos |-> at, buf |-> buf, failed |-> TRUE] /\ d.last \in Nat \cup {-1}
      BY <2>4 DEF VfDiscs
    <3> QED BY <1>1, <3>1, <3>2 DEF VfDiscs
  <2>5. CASE at < VfUmd /\ r = [d EXCEPT !.last = lba, !.pos = at + 1, !.buf = at]
    <3>1. at \in -1 .. VfUmd - 1 /\ at + 1 \in Nat
      BY <1>1, <2>5
    <3>2. r = [last |-> lba, pos |-> at + 1, buf |-> at, failed |-> d.failed] /\ d.failed \in BOOLEAN
      BY <2>5 DEF VfDiscs
    <3> QED BY <3>1, <3>2 DEF VfDiscs
  <2>6. CASE r = [d EXCEPT !.last = lba, !.pos = at]
    BY <1>1, <2>6 DEF VfDiscs
  <2>7. CASE \E buf \in {d.buf, VfSpoiled} : r = [d EXCEPT !.pos = at, !.buf = buf, !.failed = TRUE]
    BY <2>4, <2>7, Zenon
  <2> QED BY <2>1, <2>3, <2>5, <2>6, <2>7, Zenon
<1> QED BY <1>2, <1>3, Zenon

\* The head of a read, where nothing failed and nothing was disturbed, leaves the
\* driver at the sector behind the buffered one, or where the read begins.
LEMMA VfHeadType ==
    ASSUME VfTypes, NEW s \in Nat, NEW r \in VfHeads(s)
    PROVE  r \in VfDiscs
<1>1. s \div 4 \in Nat /\ VfDisc \in VfDiscs
  BY DEF VfTypes
<1>2. CASE s % 4 # 0
  BY <1>1, <1>2, VfReadUmdType DEF VfHeads
<1>3. CASE s % 4 = 0
  <2>1. r = [VfDisc EXCEPT !.pos = s \div 4] \/ r = [VfDisc EXCEPT !.failed = TRUE]
    BY <1>3 DEF VfHeads, VfBulkPos
  <2> QED BY <1>1, <2>1 DEF VfDiscs
<1> QED BY <1>2, <1>3

LEMMA VfHeadRight ==
    ASSUME VfTypes, NEW s \in Nat, s < VfUmd * 4, NEW r \in VfHeads(s), ~r.failed, ~VfDisturbed(s)
    PROVE  LET q == s \div 4
           IN  IF s % 4 # 0 THEN r.buf = q /\ r.last = q /\ r.pos = q + 1
               ELSE r.pos = q /\ r.last = vfLast /\ r.buf = vfBuf
<1> DEFINE q == s \div 4
<1>1. q \in 0 .. VfUmd - 1 /\ q \in Nat
  BY VfConstants
<1>2. VfDisc \in VfDiscs /\ vfLast \in Nat \cup {-1} /\ vfPos \in Nat
      /\ VfDisc.last = vfLast /\ VfDisc.pos = vfPos /\ VfDisc.buf = vfBuf /\ ~VfDisc.failed
  BY DEF VfTypes, VfDiscs, VfDisc
<1>3. vfLast # -1 => vfBuf = vfLast
  BY DEF VfDisturbed, VfNoSector
<1> HIDE DEF q
<1>4. CASE s % 4 # 0
  <2>1. q \in {vfLast, vfLast + 1} => vfPos = vfLast + 1
    BY <1>4 DEF VfDisturbed, q
  <2>2. (vfLast = q - 1 => vfPos = q) /\ (vfLast = q => vfBuf = q /\ vfPos = q + 1)
    BY <1>1, <1>2, <1>3, <2>1
  <2>3. r \in VfReadUmd(q, VfDisc)
    BY <1>4 DEF VfHeads, q
  <2>4. r.buf = q /\ r.last = q /\ r.pos = IF VfDisc.last = q THEN VfDisc.pos ELSE q + 1
    BY <1>1, <1>2, <2>2, <2>3, VfReadUmdRight
  <2> QED BY <1>2, <1>4, <2>2, <2>4 DEF q
<1>5. CASE s % 4 = 0
  <2>1. r = [VfDisc EXCEPT !.pos = q] \/ r = [VfDisc EXCEPT !.failed = TRUE]
    BY <1>5 DEF VfHeads, VfBulkPos, q
  <2>2. r = [VfDisc EXCEPT !.pos = q]
    BY <1>2, <2>1 DEF VfDiscs
  <2> QED BY <1>2, <1>5, <2>2 DEF VfDiscs, q
<1> QED BY <1>4, <1>5

\* The quarters of the UMD's sectors, and element i of a run of them.
VfUnits == {"umd"} \X Int

LEMMA VfQuartersAre ==
    ASSUME NEW umd \in Int, NEW from \in Nat, NEW n \in Nat
    PROVE  /\ VfQuarters(umd, from, n) \in Seq(VfUnits) /\ Len(VfQuarters(umd, from, n)) = n
           /\ \A i \in 1 .. n : VfQuarters(umd, from, n)[i] = <<"umd", umd * 4 + from + i - 1>>
<1>1. \A i \in 1 .. n : <<"umd", umd * 4 + from + i - 1>> \in VfUnits
  <2> TAKE i \in 1 .. n
  <2>1. umd * 4 + from + i - 1 \in Int
    OBVIOUS
  <2> QED BY <2>1 DEF VfUnits
<1>2. n \in Nat /\ VfQuarters(umd, from, n) = [i \in 1 .. n |-> <<"umd", umd * 4 + from + i - 1>>]
  BY DEF VfQuarters
<1> HIDE DEF VfUnits
<1>3. VfQuarters(umd, from, n) \in [1 .. n -> VfUnits]
  BY <1>1, <1>2
<1>4. \A Q : Q \in [1 .. n -> VfUnits] => Q \in Seq(VfUnits) /\ Len(Q) = n
  BY <1>2
<1>5. \A i \in 1 .. n : VfQuarters(umd, from, n)[i] = <<"umd", umd * 4 + from + i - 1>>
  BY <1>2
<1> QED BY <1>3, <1>4, <1>5

\* Element i of four sequences, one behind the other.
LEMMA VfFour ==
    ASSUME NEW S, NEW a \in Seq(S), NEW b \in Seq(S), NEW c \in Seq(S), NEW d \in Seq(S)
    PROVE  /\ Len(a \o b \o c \o d) = Len(a) + Len(b) + Len(c) + Len(d)
           /\ Len(c) = 0 => \A i \in 1 .. Len(a) + Len(b) + Len(d) :
                (a \o b \o c \o d)[i] =
                    IF i <= Len(a) THEN a[i] ELSE IF i <= Len(a) + Len(b) THEN b[i - Len(a)]
                    ELSE d[i - Len(a) - Len(b)]
<1>1. /\ a \o b \in Seq(S) /\ Len(a \o b) = Len(a) + Len(b) /\ Len(a) \in Nat /\ Len(b) \in Nat
      /\ \A i \in 1 .. Len(a) + Len(b) : (a \o b)[i] = IF i <= Len(a) THEN a[i] ELSE b[i - Len(a)]
  BY IrTwo
<1> DEFINE ab == a \o b
<1> HIDE DEF ab
<1>2. ab \in Seq(S) /\ Len(ab) = Len(a) + Len(b)
  BY <1>1 DEF ab
<1>3. /\ ab \o c \in Seq(S) /\ Len(ab \o c) = Len(ab) + Len(c) /\ Len(c) \in Nat
      /\ Len(c) = 0 => ab \o c = ab
  <2>1. Len(c) = 0 => c = <<>>
    OBVIOUS
  <2>2. ab \o <<>> = ab
    BY <1>2
  <2> QED BY <1>2, <2>1, <2>2, IrTwo
<1> DEFINE abc == ab \o c
<1> HIDE DEF abc
<1>4. /\ Len(abc \o d) = Len(abc) + Len(d) /\ Len(d) \in Nat
      /\ \A i \in 1 .. Len(abc) + Len(d) : (abc \o d)[i] = IF i <= Len(abc) THEN abc[i] ELSE d[i - Len(abc)]
  <2>1. abc \in Seq(S)
    BY <1>3 DEF abc
  <2> QED BY <2>1, IrTwo
<1>5. ASSUME Len(c) = 0, NEW i \in 1 .. Len(a) + Len(b) + Len(d)
      PROVE  (abc \o d)[i] =
                IF i <= Len(a) THEN a[i] ELSE IF i <= Len(a) + Len(b) THEN b[i - Len(a)]
                ELSE d[i - Len(a) - Len(b)]
  <2>1. abc = ab /\ Len(abc) = Len(a) + Len(b)
    BY <1>2, <1>3, <1>5 DEF abc
  <2>2. (abc \o d)[i] = IF i <= Len(abc) THEN abc[i] ELSE d[i - Len(abc)]
    BY <1>4, <2>1
  <2>3. i - Len(abc) = i - Len(a) - Len(b) /\ (i <= Len(a) => i <= Len(a) + Len(b))
        /\ (i <= Len(a) + Len(b) => i \in 1 .. Len(a) + Len(b))
    BY <1>1, <2>1, <1>4
  <2>4. i <= Len(abc) => abc[i] = IF i <= Len(a) THEN a[i] ELSE b[i - Len(a)]
    BY <1>1, <2>1, <2>3 DEF ab
  <2> QED BY <2>1, <2>2, <2>3, <2>4
<1> QED BY <1>1, <1>2, <1>3, <1>4, <1>5 DEF ab, abc

LEMMA VfFileReadRight ==
    ASSUME VfTypes, NEW s \in Nat, s < VfFileSize, NEW n \in Nat \ {0}, vfPtr = VfData + s,
           VfFileRead(s, n)
    PROVE  VfTypes' /\ VfReadRight'
<1> DEFINE x == s % 4
           q == s \div 4
           head == VfMin(IF x = 0 THEN 0 ELSE 4 - x, n)
           lba == IF x = 0 THEN q ELSE q + 1
           bulk == (n - head) \div 4
           tail == n - head - 4 * bulk
           Got(r1) == IF r1.pos >= VfUmd THEN 0 ELSE VfMin(bulk, VfUmd - r1.pos)
           Mid(r1) == [r1 EXCEPT !.pos = @ + Got(r1)]
<1>1. PICK r1 \in VfHeads(s) :
         \/ bulk > 0 /\ VfDelivers(s, r1, <<>>) /\ UNCHANGED vfPtr
         \/ \E r2 \in IF tail = 0 THEN {Mid(r1)} ELSE VfReadUmd(lba + bulk, Mid(r1)) :
               /\ vfPtr' = vfPtr + n
               /\ VfDelivers(s, r2, VfQuarters(r1.buf, x, head) \o VfQuarters(r1.pos, 0, 4 * Got(r1))
                                    \o VfNones(4 * (bulk - Got(r1))) \o VfQuarters(r2.buf, 0, tail))
  BY DEF VfFileRead
<1> DEFINE got == Got(r1)
           mid == Mid(r1)
<1>2. x \in 0 .. 3 /\ q \in Nat /\ s = 4 * q + x /\ VfUmd \in Nat /\ VfUmd > 0 /\ s < VfUmd * 4 /\ q < VfUmd
  BY VfConstants
<1>3. vfLast \in Nat \cup {-1} /\ vfBuf \in -1 .. VfUmd - 1 /\ vfPos \in Nat /\ vfPtr \in Nat
  BY DEF VfTypes, VfDisc, VfDiscs
<1>4. head \in Nat /\ head <= n /\ head <= 3 /\ (x = 0 => head = 0) /\ (x # 0 => head <= 4 - x)
      /\ (x # 0 /\ head < 4 - x => head = n)
  BY <1>2 DEF VfMin
<1>5. r1 \in VfDiscs
  BY VfHeadType
<1>6. ~r1.failed /\ ~VfDisturbed(s) =>
        IF x # 0 THEN r1.buf = q /\ r1.last = q /\ r1.pos = q + 1
        ELSE r1.pos = q /\ r1.last = vfLast /\ r1.buf = vfBuf
  BY <1>2, VfHeadRight
<1>7. ASSUME NEW d \in VfDiscs, NEW data, VfDelivers(s, d, data), vfPtr' \in Nat
      PROVE  VfTypes'
  <2>1. /\ VfDisc'.last = d.last /\ VfDisc'.pos = d.pos /\ VfDisc'.buf = d.buf /\ VfDisc'.failed = FALSE
        /\ VfDisc' = [last |-> d.last, pos |-> d.pos, buf |-> d.buf, failed |-> FALSE]
    BY <1>7 DEF VfDelivers, VfDisc
  <2> QED BY <1>7, <2>1 DEF VfTypes, VfDiscs
<1>8. CASE bulk > 0 /\ VfDelivers(s, r1, <<>>) /\ UNCHANGED vfPtr
  <2>1. vfGot'.data = <<>>
    BY <1>8 DEF VfDelivers
  <2>2. VfReadRight'
    BY <2>1 DEF VfReadRight
  <2> QED BY <1>3, <1>5, <1>7, <1>8, <2>2
<1> HIDE DEF x, q, head
<1>9. bulk \in Nat /\ tail \in 0 .. 3 /\ n = head + 4 * bulk + tail
  BY <1>4
<1> HIDE DEF bulk, tail
<1>10. lba \in Nat /\ r1.pos \in Nat /\ r1.buf \in -1 .. VfUmd - 1 /\ r1.last \in Nat \cup {-1}
  BY <1>2, <1>5 DEF VfDiscs
<1> HIDE DEF lba
<1>11. got \in 0 .. bulk
  BY <1>2, <1>9, <1>10 DEF VfMin
<1>12. mid \in VfDiscs /\ mid.pos = r1.pos + got /\ mid.last = r1.last /\ mid.buf = r1.buf
       /\ mid.failed = r1.failed
  <2> HIDE DEF got
  <2>1. mid = [r1 EXCEPT !.pos = @ + got]
    BY DEF got
  <2> HIDE DEF mid
  <2> QED BY <1>5, <1>9, <1>10, <1>11, <2>1 DEF VfDiscs
<1> SUFFICES ASSUME NEW r2 \in IF tail = 0 THEN {mid} ELSE VfReadUmd(lba + bulk, mid),
                    vfPtr' = vfPtr + n,
                    VfDelivers(s, r2, VfQuarters(r1.buf, x, head) \o VfQuarters(r1.pos, 0, 4 * got)
                                      \o VfNones(4 * (bulk - got)) \o VfQuarters(r2.buf, 0, tail))
             PROVE  VfTypes' /\ VfReadRight'
  BY <1>1, <1>8 DEF x, head, bulk, tail, lba, q
<1> DEFINE pos == r1.pos
           a == VfQuarters(r1.buf, x, head)
           b == VfQuarters(pos, 0, 4 * got)
           c == VfNones(4 * (bulk - got))
           d == VfQuarters(r2.buf, 0, tail)
<1>13. r2 \in VfDiscs /\ (r1.failed => r2.failed)
  <2> HIDE DEF got, mid
  <2>1. lba + bulk \in Nat
    BY <1>9, <1>10
  <2> QED BY <2>1, <1>12, VfReadUmdType
<1>14. r2.buf \in -1 .. VfUmd - 1
  BY <1>13 DEF VfDiscs
<1> HIDE DEF got, mid
<1>15. ASSUME ~VfDisturbed(s), ~r2.failed, s + n <= 4 * VfUmd
       PROVE  /\ \A i \in 1 .. Len(a \o b \o c \o d) : (a \o b \o c \o d)[i] = <<"umd", s + i - 1>>
  <2>1. vfLast # -1 => vfBuf = vfLast
    BY <1>15 DEF VfDisturbed, VfNoSector
  <2>2. x # 0 => r1.buf = q /\ r1.last = q /\ r1.pos = q + 1
    BY <1>6, <1>13, <1>15
  <2>3. x = 0 => r1.buf = vfBuf /\ r1.last = vfLast /\ r1.pos = q
    BY <1>6, <1>13, <1>15
  <2>4. pos = lba
    BY <2>2, <2>3 DEF lba
  <2>5. lba * 4 = s + head \/ (bulk = 0 /\ tail = 0)
    BY <1>2, <1>4, <1>9 DEF lba
  <2>6. got = bulk
    BY <2>4, <2>5, <1>2, <1>4, <1>9, <1>10, <1>15 DEF got, VfMin
  <2>7. tail # 0 => r2.buf = lba + bulk
    <3> SUFFICES ASSUME tail # 0 PROVE r2.buf = lba + bulk
      OBVIOUS
    <3>1. lba + bulk \in 0 .. VfUmd - 1
      BY <2>5, <1>2, <1>4, <1>9, <1>10, <1>15
    <3>2. r1.last = lba + bulk - 1 => mid.pos = lba + bulk
      BY <2>4, <2>6, <1>9, <1>10, <1>12
    <3>3. r1.last = lba + bulk => r1.buf = lba + bulk
      BY <2>1, <2>2, <2>3, <1>2, <1>3, <1>9, <1>10 DEF lba
    <3>4. r2 \in VfReadUmd(lba + bulk, mid)
      OBVIOUS
    <3> DEFINE at == lba + bulk
    <3> HIDE DEF at
    <3>5. at \in 0 .. VfUmd - 1 /\ r2 \in VfReadUmd(at, mid) /\ ~r2.failed /\ mid \in VfDiscs
      BY <3>1, <3>4, <1>12, <1>15 DEF at
    <3>6. mid.last = at - 1 => mid.pos = at
      BY <3>2, <1>9, <1>10, <1>12 DEF at
    <3>7. mid.last = at => mid.buf = at
      BY <3>3, <1>12 DEF at
    <3>8. r2.buf = at
      BY <3>5, <3>6, <3>7, VfReadUmdRight
    <3> QED BY <3>8 DEF at
  <2>8. /\ a \in Seq(VfUnits) /\ Len(a) = head
        /\ \A i \in 1 .. head : a[i] = <<"umd", r1.buf * 4 + x + i - 1>>
    <3>1. x \in Nat /\ r1.buf \in Int
      BY <1>2, <1>10
    <3> QED BY <3>1, <1>4, VfQuartersAre
  <2>9. /\ b \in Seq(VfUnits) /\ Len(b) = 4 * got
        /\ \A i \in 1 .. 4 * got : b[i] = <<"umd", pos * 4 + 0 + i - 1>>
    <3>1. 4 * got \in Nat /\ 0 \in Nat /\ pos \in Int
      BY <1>10, <1>11
    <3> HIDE DEF pos
    <3> QED BY <3>1, VfQuartersAre
  <2>10. c \in Seq(VfUnits) /\ Len(c) = 0
    <3>1. 4 * (bulk - got) = 0
      BY <2>6, <1>9
    <3> QED BY <3>1 DEF VfNones
  <2>11. /\ d \in Seq(VfUnits) /\ Len(d) = tail
         /\ \A i \in 1 .. tail : d[i] = <<"umd", r2.buf * 4 + 0 + i - 1>>
    <3>1. tail \in Nat /\ 0 \in Nat /\ r2.buf \in Int
      BY <1>9, <1>14
    <3> QED BY <3>1, VfQuartersAre
  <2> HIDE DEF a, b, c, d
  <2>12. Len(a \o b \o c \o d) = Len(a) + Len(b) + Len(d)
    <3>1. /\ a \in Seq(VfUnits) /\ b \in Seq(VfUnits) /\ c \in Seq(VfUnits) /\ d \in Seq(VfUnits)
          /\ Len(c) = 0
      BY <2>8, <2>9, <2>10, <2>11
    <3>2. Len(a \o b \o c \o d) = Len(a) + Len(b) + Len(c) + Len(d)
      BY <3>1, VfFour
    <3>3. Len(a) \in Nat /\ Len(b) \in Nat /\ Len(d) \in Nat
      BY <3>1
    <3> QED BY <3>1, <3>2, <3>3
  <2> SUFFICES ASSUME NEW i \in 1 .. Len(a) + Len(b) + Len(d)
               PROVE  (a \o b \o c \o d)[i] = <<"umd", s + i - 1>>
    BY <2>12
  <2>13. (a \o b \o c \o d)[i] =
           IF i <= Len(a) THEN a[i] ELSE IF i <= Len(a) + Len(b) THEN b[i - Len(a)]
           ELSE d[i - Len(a) - Len(b)]
    <3>1. /\ a \in Seq(VfUnits) /\ b \in Seq(VfUnits) /\ c \in Seq(VfUnits) /\ d \in Seq(VfUnits)
          /\ Len(c) = 0
      BY <2>8, <2>9, <2>10, <2>11
    <3>2. \A k \in 1 .. Len(a) + Len(b) + Len(d) :
            (a \o b \o c \o d)[k] =
                IF k <= Len(a) THEN a[k] ELSE IF k <= Len(a) + Len(b) THEN b[k - Len(a)]
                ELSE d[k - Len(a) - Len(b)]
      BY <3>1, VfFour
    <3> QED BY <3>2
  <2>14. i \in Nat /\ 1 <= i /\ i <= head + 4 * got + tail
    BY <2>8, <2>9, <2>11, <1>4, <1>9, <1>11
  <2>15. CASE i <= head
    <3>1. a[i] = <<"umd", r1.buf * 4 + x + i - 1>>
      BY <2>8, <2>14, <2>15, <1>4
    <3>2. r1.buf = q
      BY <2>2, <2>14, <2>15, <1>4
    <3>3. q * 4 + x + i - 1 = s + i - 1
      BY <2>14, <1>2
    <3> QED BY <3>1, <3>2, <3>3, <2>13, <2>8, <2>15
  <2>16. CASE ~(i <= head) /\ i <= head + 4 * got
    <3>1. i - head \in 1 .. 4 * got
      BY <2>14, <2>16, <1>4, <1>11
    <3>2. b[i - head] = <<"umd", pos * 4 + 0 + (i - head) - 1>>
      BY <3>1, <2>9
    <3>3. pos * 4 + 0 + (i - head) - 1 = s + i - 1
      BY <3>1, <2>4, <2>5, <2>6, <2>14, <1>2, <1>4, <1>10
    <3> QED BY <3>2, <3>3, <2>13, <2>8, <2>9, <2>16
  <2>17. CASE ~(i <= head) /\ ~(i <= head + 4 * got)
    <3>1. i - head - 4 * got \in 1 .. tail /\ tail # 0
      BY <2>14, <2>17, <1>4, <1>9, <1>11
    <3>2. d[i - head - 4 * got] = <<"umd", r2.buf * 4 + 0 + (i - head - 4 * got) - 1>>
      BY <3>1, <2>11
    <3>3. r2.buf = lba + bulk /\ lba * 4 = s + head /\ got = bulk
      BY <3>1, <2>5, <2>6, <2>7
    <3>4. (lba + bulk) * 4 + 0 + (i - head - 4 * bulk) - 1 = s + i - 1
      BY <3>3, <2>14, <1>2, <1>4, <1>9, <1>10
    <3> QED BY <3>2, <3>3, <3>4, <2>13, <2>8, <2>9, <2>17
  <2> QED BY <2>15, <2>16, <2>17
<1>16. Len(a \o b \o c \o d) = n
  <2>1. x \in Nat /\ r1.buf \in Int /\ r2.buf \in Int /\ 0 \in Nat /\ tail \in Nat
        /\ 4 * got \in Nat /\ 4 * (bulk - got) \in Nat
    BY <1>2, <1>9, <1>10, <1>11, <1>14
  <2>2. a \in Seq(VfUnits) /\ Len(a) = head
    BY <2>1, <1>4, VfQuartersAre
  <2>3. b \in Seq(VfUnits) /\ Len(b) = 4 * got
    <3>1. pos \in Int
      BY <1>10
    <3> HIDE DEF pos
    <3> QED BY <2>1, <3>1, VfQuartersAre DEF b
  <2>4. d \in Seq(VfUnits) /\ Len(d) = tail
    BY <2>1, VfQuartersAre
  <2>5. c \in Seq({<<"none">>}) /\ Len(c) = 4 * (bulk - got)
    BY <2>1 DEF VfNones
  <2> HIDE DEF a, b, c, d
  <2>6. a \in Seq(VfUnits \cup {<<"none">>}) /\ b \in Seq(VfUnits \cup {<<"none">>})
        /\ c \in Seq(VfUnits \cup {<<"none">>}) /\ d \in Seq(VfUnits \cup {<<"none">>})
    BY <2>2, <2>3, <2>4, <2>5
  <2>7. Len(a \o b \o c \o d) = Len(a) + Len(b) + Len(c) + Len(d)
    BY <2>6, VfFour
  <2> QED BY <2>7, <2>2, <2>3, <2>4, <2>5, <1>4, <1>9, <1>11
<1>17. VfReadRight'
  <2>1. /\ vfGot'.from = VfData + s /\ (~vfGot'.excused => ~r2.failed /\ ~VfDisturbed(s))
        /\ vfGot'.data = a \o b \o c \o d
    BY <1>13 DEF VfDelivers, VfDiscs, VfDisturbed
  <2> HIDE DEF a, b, c, d
  <2>2. DOMAIN (a \o b \o c \o d) = 1 .. Len(a \o b \o c \o d)
    BY <1>16
  <2> SUFFICES ASSUME ~r2.failed, ~VfDisturbed(s),
                      VfData + s >= VfData + VfFileSize \/ VfData + s + n <= VfData + VfFileSize,
                      NEW i \in 1 .. n
               PROVE  (a \o b \o c \o d)[i] = VfWanted(VfData + s + i - 1)
    BY <1>16, <2>1, <2>2 DEF VfReadRight
  <2>3. s + n <= 4 * VfUmd
    BY VfConstants
  <2>4. (a \o b \o c \o d)[i] = <<"umd", s + i - 1>>
    BY <2>3, <1>15, <1>16
  <2>5. VfWanted(VfData + s + i - 1) = <<"umd", s + i - 1>>
    <3> DEFINE k == VfData + s + i - 1
    <3>1. k \in VfData .. VfData + VfFileSize - 1 /\ k - VfData = s + i - 1
          /\ k # 0 /\ k \notin VfFat1 .. VfFat2 - 1 /\ k \notin VfFat2 .. VfDir - 1 /\ k # VfDir
      BY <2>3, VfConstants
    <3> HIDE DEF k
    <3>2. VfWanted(k) = <<"umd", s + i - 1>>
      BY <3>1 DEF VfWanted
    <3> QED BY <3>2 DEF k
  <2> QED BY <2>4, <2>5
<1>18. vfPtr' \in Nat
  BY <1>3
<1> QED BY <1>7, <1>13, <1>17, <1>18

\* A read in front of the file or behind it.
LEMMA VfFrontReadRight ==
    ASSUME VfTypes, NEW n \in Nat \ {0}, ~(vfPtr >= VfData /\ vfPtr - VfData < VfFileSize),
           vfGot' = [from |-> vfPtr, excused |-> FALSE,
                     data |-> [i \in 1 .. n |-> VfSector(vfPtr + i - 1)]]
    PROVE  VfReadRight'
<1> DEFINE data == [i \in 1 .. n |-> VfSector(vfPtr + i - 1)]
<1>1. vfGot'.from = vfPtr /\ vfGot'.data = data /\ DOMAIN data = 1 .. n /\ Len(data) = n
      /\ \A i \in 1 .. n : data[i] = VfSector(vfPtr + i - 1)
  OBVIOUS
<1> HIDE DEF data
<1> SUFFICES ASSUME vfPtr >= VfData \/ vfPtr + n <= VfData, NEW i \in 1 .. n
             PROVE  VfSector(vfPtr + i - 1) = VfWanted(vfPtr + i - 1)
  BY <1>1 DEF VfReadRight
<1> DEFINE k == vfPtr + i - 1
<1>2. k \in Nat /\ (k < VfData \/ k >= VfData + VfFileSize)
  BY VfConstants DEF VfTypes
<1> HIDE DEF k
<1>3. VfSector(k) = VfWanted(k)
  BY <1>2, VfSectorRight
<1> QED BY <1>3 DEF k

LEMMA VfStepKeepsInv == ASSUME VfInv, [VfNext]_vfVars PROVE VfInv'
<1>0. VfUmd \in Nat \ {0} /\ VfMaxLen \in Nat \ {0} /\ VfSize \in Nat
      /\ VfData \in Nat /\ VfFileSize \in Nat
  BY VfConstants
<1>1. vfGot' = VfNothing => VfReadRight'
  BY DEF VfReadRight, VfNothing
<1>2. CASE VfOpen
  <2>1. vfPtr' = 0 /\ vfLast' = -1 /\ vfPos' = 0 /\ vfBuf' = vfBuf /\ VfReadRight'
    BY <1>1, <1>2 DEF VfOpen, VfNoSector
  <2>2. vfBuf \in -1 .. VfUmd - 1
    BY DEF VfInv, VfTypes, VfDisc, VfDiscs
  <2>3. VfDisc' = [last |-> -1, pos |-> 0, buf |-> vfBuf, failed |-> FALSE]
    BY <2>1 DEF VfDisc
  <2> QED BY <2>1, <2>2, <2>3 DEF VfInv, VfTypes, VfDiscs
<1>3. CASE \E n \in 0 .. VfSize : VfSeek(n)
  <2>1. vfPtr' \in Nat /\ UNCHANGED <<vfLast, vfBuf, vfPos>> /\ VfReadRight'
    BY <1>0, <1>1, <1>3 DEF VfSeek
  <2> QED BY <2>1 DEF VfInv, VfTypes, VfDisc
<1>4. ASSUME NEW n \in 1 .. VfMaxLen, VfRead(n) PROVE VfInv'
  <2>1. vfPtr \in Nat /\ n \in Nat \ {0} /\ VfTypes
    BY <1>0 DEF VfInv, VfTypes
  <2>2. CASE vfPtr >= VfData /\ vfPtr - VfData < VfFileSize
    <3> DEFINE s == vfPtr - VfData
    <3>1. s \in Nat /\ s < VfFileSize /\ vfPtr = VfData + s /\ VfFileRead(s, n)
      BY <1>0, <1>4, <2>1, <2>2 DEF VfRead
    <3> HIDE DEF s
    <3> QED BY <2>1, <3>1, VfFileReadRight DEF VfInv
  <2>3. CASE ~(vfPtr >= VfData /\ vfPtr - VfData < VfFileSize)
    <3>1. /\ vfGot' = [from |-> vfPtr, excused |-> FALSE,
                       data |-> [i \in 1 .. n |-> VfSector(vfPtr + i - 1)]]
          /\ vfPtr' = vfPtr + n /\ UNCHANGED <<vfLast, vfBuf, vfPos>>
      BY <1>4, <2>3 DEF VfRead
    <3>2. VfReadRight'
      BY <2>1, <2>3, <3>1, VfFrontReadRight
    <3> QED BY <2>1, <3>1, <3>2 DEF VfInv, VfTypes, VfDisc
  <2> QED BY <2>2, <2>3
<1>5. CASE UNCHANGED vfVars
  BY <1>5 DEF VfInv, VfTypes, VfDisc, VfReadRight, vfVars
<1> QED BY <1>2, <1>3, <1>4, <1>5 DEF VfNext

\* Every read of the made up disk delivers what belongs there (UmdVfat_Read), on
\* every disc and for every layout of the file system, also after reads that failed;
\* a read that is excused (VfReadRight) need not.
THEOREM VfReadRightTheorem == VfSpec => []VfReadRight
<1>1. VfInit => VfInv
  <2> SUFFICES ASSUME VfInit PROVE VfInv
    OBVIOUS
  <2>1. VfDisc = [last |-> -1, pos |-> 0, buf |-> 0, failed |-> FALSE] /\ vfPtr = 0
    BY DEF VfInit, VfDisc, VfNoSector
  <2> QED BY <2>1, VfConstants DEF VfInit, VfInv, VfTypes, VfDiscs, VfReadRight, VfNothing
<1>2. VfInv /\ [VfNext]_vfVars => VfInv'
  BY VfStepKeepsInv
<1>3. VfInv => VfReadRight
  BY DEF VfInv
<1> QED BY <1>1, <1>2, <1>3, PTL DEF VfSpec

-----------------------------------------------------------------------------
\* Compressed images.  The blocks in between are read into the end of the caller's
\* buffer and decompressed to its beginning, each through a buffer of its own.  No
\* block takes more than a sector, so with k of them done the rest begins at or
\* behind sector k of the buffer (CsoMiddleStands), and what is written next is no
\* part of the blocks behind the one it comes from.

\* A set of natural numbers has a least element.
LEMMA LeastElement ==
  ASSUME NEW T, T \subseteq Nat, T # {}
  PROVE \E x \in T : \A y \in T : x <= y
<1> DEFINE below == {0 .. x - 1 : x \in T}
<1>1. below \subseteq FiniteSubsetsOf(Nat) /\ below # {}
  <2>1. \A x \in T : 0 .. x - 1 \subseteq Nat /\ IsFiniteSet(0 .. x - 1)
    <3> TAKE x \in T
    <3>1. 0 \in Int /\ x - 1 \in Int
      OBVIOUS
    <3> QED BY <3>1, FS_Interval
  <2> QED BY <2>1 DEF FiniteSubsetsOf
<1>2. PICK b \in below : \A c \in below : <<c, b>> \notin StrictSubsetOrdering(Nat)
  <2>1. IsWellFoundedOn(StrictSubsetOrdering(Nat), FiniteSubsetsOf(Nat))
    BY FS_StrictSubsetOrderingWellFounded
  <2> HIDE DEF below
  <2> QED  BY <1>1, <2>1, WFMin
<1>3. PICK x \in T : b = 0 .. x - 1
  OBVIOUS
<1>4. ASSUME NEW y \in T, y < x PROVE FALSE
  <2>1. 0 .. y - 1 \in below /\ 0 .. y - 1 \subseteq b /\ y \in b /\ y \notin 0 .. y - 1
    BY <1>3, <1>4
  <2>2. b \in SUBSET Nat /\ 0 .. y - 1 \in SUBSET Nat
    BY <1>3
  <2>3. <<0 .. y - 1, b>> \in StrictSubsetOrdering(Nat)
    BY <2>1, <2>2 DEF StrictSubsetOrdering
  <2> QED BY <1>2, <2>1, <2>3
<1> QED BY <1>4

\* Where a request can be.
CsoPcs == {"Done", "Index", "First", "Last", "Main", "Loop"}

\* The types.
CsoShape ==
    /\ DOMAIN cso = {"pc", "start", "len", "off", "size", "addr", "blk", "head", "tail", "i",
                     "src", "failed", "lost", "answer"}
    /\ cso.pc \in CsoPcs /\ cso.failed \in BOOLEAN /\ cso.lost \in BOOLEAN
    /\ cso.start \in Nat /\ cso.len \in Nat
    /\ DOMAIN csoOut = 0 .. CsoTotal - 1
    /\ DOMAIN csoBlockBuf = 0 .. CsoSector - 1
    /\ DOMAIN csoIdx = 0 .. CsoMaxEntries - 1
    /\ csoIdxStart \in 0 .. CsoTotalBlocks \cup {CsoNowhere}
    /\ csoSpoilt \in BOOLEAN

\* The window holds entries of the table as far as it goes.
CsoWindowRight ==
    csoIdxStart # CsoNowhere /\ ~csoSpoilt =>
        \A b \in csoIdxStart .. CsoTotalBlocks :
            b - csoIdxStart < CsoMaxEntries => csoIdx[b - csoIdxStart] = CsoEntry(b)

\* How many bytes the request should get.
CsoWanted ==
    IF cso.start >= CsoTotal THEN 0
    ELSE IF cso.start + cso.len > CsoTotal THEN CsoTotal - cso.start ELSE cso.len

\* Byte p of the buffer, when the bytes below to are there and none further on.
CsoHas(p) == csoOut[p] = cso.start + p
CsoHasNot(p) == csoOut[p] = CsoJunk

\* The block that the caller's buffer goes on with.
CsoAt == csoIdxStart + cso.blk

\* A request of which nothing is read yet.
CsoAsked ==
    /\ cso.start <= CsoTotal /\ cso.off = cso.start /\ cso.size = CsoWanted
    /\ cso.addr = 0 /\ cso.head = 0 /\ cso.tail = 0 /\ cso.i = 0 /\ cso.src = 0
    /\ cso.len > 0 /\ ~cso.failed /\ ~cso.lost
    /\ \A p \in DOMAIN csoOut : CsoHasNot(p)

\* The window covers what is still to be read.
CsoCovered ==
    /\ csoIdxStart # CsoNowhere /\ ~csoSpoilt /\ cso.blk \in Nat
    /\ (cso.start + CsoWanted) \div CsoSector + 1 < csoIdxStart + CsoMaxEntries

\* The bytes in front of the blocks in between are there, none behind the request.
CsoHeadRead ==
    /\ cso.start <= CsoTotal /\ cso.head \in 0 .. CsoWanted /\ cso.addr = cso.head
    /\ cso.start + cso.head = CsoAt * CsoSector
    /\ \A p \in 0 .. cso.head - 1 : CsoHas(p)
    /\ \A p \in CsoWanted .. CsoTotal - 1 : CsoHasNot(p)
    /\ cso.size \in Nat \ {0}

\* The last sector is there.
CsoTailRead ==
    /\ cso.size % CsoSector = 0
    /\ cso.tail \in Nat /\ cso.head + cso.size + cso.tail = CsoWanted
    /\ \A p \in cso.head + cso.size .. CsoWanted - 1 : CsoHas(p)

\* How many blocks are in between.
CsoMiddle == cso.size \div CsoSector

\* What has been decompressed, and what is still to be.
CsoPartRead ==
    /\ cso.i \in 0 .. CsoMiddle
    /\ cso.src = CsoMiddle * CsoSector - (CsoOffset[CsoAt + CsoMiddle] - CsoOffset[CsoAt + cso.i])
    /\ \A p \in 0 .. cso.i * CsoSector - 1 : CsoHas(cso.addr + p)
    /\ \A p \in cso.src .. cso.size - 1 :
          csoOut[cso.addr + p] = CsoRaw(CsoOffset[CsoAt + cso.i] + p - cso.src)

\* How far a request is where it stands in the code.
CsoProgress ==
    /\ cso.pc = "Index" => CsoAsked /\ cso.blk = 0
    /\ cso.pc = "First" => CsoAsked /\ CsoCovered /\ CsoAt = CsoFirstBlock
    /\ cso.pc \in {"Last", "Main", "Loop"} /\ ~cso.failed =>
          CsoCovered /\ CsoHeadRead /\ ~cso.lost
    /\ cso.pc = "Last" /\ ~cso.failed => cso.head + cso.size = CsoWanted /\ cso.i = 0
    /\ cso.pc \in {"Main", "Loop"} /\ ~cso.failed => CsoTailRead
    /\ cso.pc = "Main" /\ ~cso.failed => cso.i = 0
    /\ cso.pc = "Loop" /\ ~cso.failed => CsoPartRead

CsoInv == CsoShape /\ CsoWindowRight /\ CsoProgress /\ CsoReadRight

-----------------------------------------------------------------------------
LEMMA CsoConstants ==
    /\ CsoSector \in Nat /\ CsoSector > 0 /\ CsoTotalBlocks \in Nat
    /\ CsoMaxEntries \in Nat /\ CsoMaxEntries >= 3
    /\ CsoTotal \in Nat /\ CsoTotal = CsoTotalBlocks * CsoSector /\ CsoTotal = CsoJunk
    /\ CsoNowhere \notin 0 .. CsoTotalBlocks
    /\ \A b \in CsoBlock : b \in Nat /\ b + 1 \in 0 .. CsoTotalBlocks /\ b \in 0 .. CsoTotalBlocks
    /\ \A b \in 0 .. CsoTotalBlocks : CsoOffset[b] \in Nat
<1>1. \A a, b \in Nat : a * b \in Nat
  BY Z3
<1>2. CsoTotalBlocks \in Nat /\ CsoSector \in Nat /\ CsoSector > 0
  BY CsoAssumption
<1>3. CsoTotalBlocks * CsoSector \in Nat
  BY <1>1, <1>2
<1>4. \A b \in CsoBlock : b \in Nat /\ b + 1 \in 0 .. CsoTotalBlocks /\ b \in 0 .. CsoTotalBlocks
  BY <1>2 DEF CsoBlock
<1> QED BY <1>2, <1>3, <1>4, CsoAssumption DEF CsoTotal, CsoJunk, CsoNowhere

\* Sectors in bytes.
LEMMA CsoBytes ==
    /\ \A a \in Int : a * CsoSector \in Int
    /\ \A a \in Nat : a * CsoSector \in Nat
    /\ \A a, b \in Int : (a + b) * CsoSector = a * CsoSector + b * CsoSector
    /\ \A a \in Int : (a + 1) * CsoSector = a * CsoSector + CsoSector
    /\ \A a, b \in Int : a <= b => a * CsoSector <= b * CsoSector
    /\ \A a, b \in Int : a < b => a * CsoSector + CsoSector <= b * CsoSector
<1> DEFINE s == CsoSector
<1>1. s \in Nat /\ s > 0
  BY CsoConstants
<1> HIDE DEF s
<1>2. \A a \in Int : a * s \in Int
  BY <1>1, Z3
<1>3. \A a \in Nat : a * s \in Nat
  BY <1>1, Z3
<1>4. \A a, b \in Int : (a + b) * s = a * s + b * s
  BY <1>1, Z3
<1>5. \A a \in Int : (a + 1) * s = a * s + s
  BY <1>1, Z3
<1>6. \A a, b \in Int : a <= b => a * s <= b * s
  <2> TAKE a \in Int, b \in Int
  <2> HAVE a <= b
  <2> DEFINE d == b - a
  <2>1. d \in Nat /\ b = a + d
    OBVIOUS
  <2> HIDE DEF d
  <2>2. (a + d) * s = a * s + d * s
    BY <1>4, <2>1
  <2>3. d * s \in Nat /\ a * s \in Int
    BY <1>2, <1>3, <2>1
  <2> QED BY <2>1, <2>2, <2>3
<1>7. \A a, b \in Int : a < b => a * s + s <= b * s
  <2> TAKE a \in Int, b \in Int
  <2> HAVE a < b
  <2>1. a + 1 \in Int /\ a + 1 <= b
    OBVIOUS
  <2>2. (a + 1) * s <= b * s
    BY <1>6, <2>1
  <2> QED BY <1>5, <2>2
<1> QED BY <1>2, <1>3, <1>4, <1>5, <1>6, <1>7 DEF s

LEMMA CsoDivMod ==
    ASSUME NEW p \in Nat
    PROVE  /\ p \div CsoSector \in Nat /\ p % CsoSector \in Nat /\ p % CsoSector < CsoSector
           /\ p = (p \div CsoSector) * CsoSector + (p % CsoSector)
<1> DEFINE s == CsoSector
           q == p \div s
           r == p % s
<1>1. s \in Nat \ {0}
  BY CsoConstants
<1> HIDE DEF s
<1>2. q \in Nat /\ r \in Nat /\ r < s /\ p = s * q + r
  BY <1>1, IrDivMod
<1> HIDE DEF q, r
<1>3. s * q = q * s
  BY <1>1, <1>2, Z3
<1> QED BY <1>2, <1>3 DEF q, r, s

\* The sector of a byte is the one it lies in.
LEMMA CsoSectorOf ==
    ASSUME NEW p \in Nat, NEW a \in Nat, NEW r \in Nat, r < CsoSector, p = a * CsoSector + r
    PROVE  p \div CsoSector = a /\ p % CsoSector = r
<1>1. /\ p \div CsoSector \in Nat /\ p % CsoSector \in Nat /\ p % CsoSector < CsoSector
      /\ p = (p \div CsoSector) * CsoSector + (p % CsoSector)
  BY CsoDivMod
<1> DEFINE q == p \div CsoSector
           m == p % CsoSector
           s == CsoSector
<1> HIDE DEF q, m
<1>2. s \in Nat \ {0}
  BY CsoConstants
<1>3. s * q = q * s /\ s * a = a * s
  BY <1>1, <1>2, Z3 DEF q
<1>4. s * q + m = s * a + r
  BY <1>1, <1>3 DEF q, m
<1> HIDE DEF s
<1>5. q = a /\ m = r
  BY <1>1, <1>2, <1>4, IrDivModUnique DEF q, m, s
<1> QED BY <1>5 DEF q, m

\* Where blocks are stored: one behind the other, and none larger than a sector.
LEMMA CsoOrder ==
    ASSUME NEW b \in 0 .. CsoTotalBlocks, NEW c \in 0 .. CsoTotalBlocks, b <= c
    PROVE  /\ CsoOffset[b] <= CsoOffset[c]
           /\ CsoOffset[c] - CsoOffset[b] <= (c - b) * CsoSector
           /\ b < c => CsoOffset[b + 1] <= CsoOffset[c] /\ CsoOffset[b] < CsoOffset[c]
<1> DEFINE Good(x, y) == /\ CsoOffset[x] <= CsoOffset[y]
                         /\ CsoOffset[y] - CsoOffset[x] <= (y - x) * CsoSector
<1>1. \A x, y \in 0 .. CsoTotalBlocks : x <= y => Good(x, y)
  <2> SUFFICES ASSUME NEW x \in 0 .. CsoTotalBlocks,
                      {y \in 0 .. CsoTotalBlocks : x <= y /\ ~Good(x, y)} # {}
               PROVE  FALSE
    OBVIOUS
  <2> DEFINE bad == {y \in 0 .. CsoTotalBlocks : x <= y /\ ~Good(x, y)}
  <2>1. bad \subseteq Nat /\ bad # {}
    BY CsoConstants
  <2>2. PICK y \in bad : \A z \in bad : y <= z
    <3> HIDE DEF bad
    <3> QED BY <2>1, LeastElement
  <2>3. y \in 0 .. CsoTotalBlocks /\ x <= y /\ ~Good(x, y) /\ y \in Nat /\ x \in Nat
    BY <2>2, CsoConstants
  <2>4. CASE y = x
    <3>1. CsoOffset[x] \in Nat /\ (y - x) = 0 /\ 0 * CsoSector = 0
      BY <2>3, <2>4, CsoConstants
    <3> QED BY <2>3, <2>4, <3>1
  <2>5. CASE x < y
    <3>1. y - 1 \in 0 .. CsoTotalBlocks /\ y - 1 \in CsoBlock /\ x <= y - 1 /\ (y - 1) + 1 = y
      BY <2>3, <2>5, CsoConstants DEF CsoBlock
    <3>2. y - 1 \notin bad
      BY <2>2, <2>3
    <3>3. Good(x, y - 1)
      BY <3>1, <3>2
    <3>4. CsoOffset[y] - CsoOffset[y - 1] \in 1 .. CsoSector
      BY <3>1, CsoAssumption DEF CsoLen
    <3>5. ((y - 1 - x) + 1) * CsoSector = (y - 1 - x) * CsoSector + CsoSector /\ (y - 1 - x) + 1 = y - x
      BY <2>3, CsoBytes
    <3>6. (y - 1 - x) * CsoSector \in Int /\ (y - x) * CsoSector \in Int
      <4>1. y - 1 - x \in Int /\ y - x \in Int
        BY <2>3
      <4> QED BY <4>1, CsoBytes
    <3>7. CsoOffset[x] \in Nat /\ CsoOffset[y] \in Nat /\ CsoOffset[y - 1] \in Nat /\ CsoSector \in Nat
      BY <2>3, <3>1, CsoConstants
    <3> QED BY <2>3, <3>3, <3>4, <3>5, <3>6, <3>7
  <2> QED BY <2>3, <2>4, <2>5
<1>2. Good(b, c)
  BY <1>1
<1>3. ASSUME b < c PROVE CsoOffset[b + 1] <= CsoOffset[c] /\ CsoOffset[b] < CsoOffset[c]
  <2>1. b \in CsoBlock /\ b + 1 \in 0 .. CsoTotalBlocks /\ b + 1 <= c
    BY <1>3, CsoConstants DEF CsoBlock
  <2>2. Good(b + 1, c)
    BY <1>1, <2>1
  <2>3. CsoOffset[b + 1] - CsoOffset[b] \in 1 .. CsoSector
    BY <2>1, CsoAssumption DEF CsoLen
  <2>4. CsoOffset[b] \in Nat /\ CsoOffset[c] \in Nat /\ CsoOffset[b + 1] \in Nat /\ CsoSector \in Nat
    BY <2>1, CsoConstants
  <2> QED BY <2>2, <2>3, <2>4
<1> QED BY <1>2, <1>3

LEMMA CsoLenType ==
    ASSUME NEW b \in CsoBlock
    PROVE  CsoLen(b) \in Nat /\ CsoLen(b) > 0 /\ CsoLen(b) <= CsoSector
           /\ CsoLen(b) = CsoOffset[b + 1] - CsoOffset[b]
  BY CsoConstants, CsoAssumption DEF CsoLen

\* The units of a stored block.
LEMMA CsoRawIs ==
    ASSUME NEW b \in CsoBlock, NEW k \in Nat, k < CsoLen(b)
    PROVE  CsoRaw(CsoOffset[b] + k) = CsoUnit(b, k)
<1> DEFINE u == CsoOffset[b] + k
           Holds(c) == CsoOffset[c] <= u /\ u < CsoOffset[c + 1]
<1>1. CsoOffset[b] \in Nat /\ CsoOffset[b + 1] \in Nat /\ u \in Nat
  BY CsoConstants
<1>2. Holds(b)
  BY <1>1, CsoLenType
<1>3. \A c \in CsoBlock : Holds(c) => c = b
  <2> SUFFICES ASSUME NEW c \in CsoBlock, Holds(c), c # b PROVE FALSE
    OBVIOUS
  <2>1. CsoOffset[c] \in Nat /\ CsoOffset[c + 1] \in Nat /\ b \in Nat /\ c \in Nat
        /\ b \in 0 .. CsoTotalBlocks /\ c \in 0 .. CsoTotalBlocks
    BY CsoConstants
  <2>2. CASE c < b
    <3>1. CsoOffset[c + 1] <= CsoOffset[b]
      BY <2>1, <2>2, CsoOrder
    <3> QED BY <1>1, <2>1, <3>1
  <2>3. CASE b < c
    <3>1. CsoOffset[b + 1] <= CsoOffset[c]
      BY <2>1, <2>3, CsoOrder
    <3> QED BY <1>1, <1>2, <2>1, <3>1
  <2> QED BY <2>1, <2>2, <2>3
<1>4. (CHOOSE c \in CsoBlock : Holds(c)) = b
  BY <1>2, <1>3
<1>5. u - CsoOffset[b] = k
  BY <1>1
<1> QED BY <1>4, <1>5 DEF CsoRaw

-----------------------------------------------------------------------------
\* The block is in the buffer, at position p.
CsoHolds(buf, p, b) ==
    \A k \in 0 .. CsoLen(b) - 1 : p + k \in DOMAIN buf /\ buf[p + k] = CsoUnit(b, k)

LEMMA CsoStoredIs ==
    ASSUME NEW buf, NEW p \in Int, NEW b \in CsoBlock \ CsoPlain, CsoHolds(buf, p, b)
    PROVE  CsoStoredAt(buf, p) = {b}
<1>1. b \in CsoStoredAt(buf, p)
  BY DEF CsoStoredAt, CsoHolds
<1>2. ASSUME NEW c \in CsoStoredAt(buf, p) PROVE c = b
  <2>1. 0 \in 0 .. CsoLen(b) - 1 /\ 0 \in 0 .. CsoLen(c) - 1
    BY CsoLenType DEF CsoStoredAt
  <2>2. CsoUnit(b, 0) = CsoUnit(c, 0)
    BY <2>1 DEF CsoStoredAt, CsoHolds
  <2>3. c \in CsoBlock \ CsoPlain /\ b \in Nat /\ c \in Nat
    BY CsoConstants DEF CsoStoredAt
  <2>4. b * CsoSector \in Nat /\ c * CsoSector \in Nat /\ CsoSector \in Nat /\ CsoSector > 0
    BY <2>3, CsoBytes, CsoConstants
  <2>5. b * CsoSector = c * CsoSector
    BY <2>2, <2>3, <2>4 DEF CsoUnit
  <2>6. ~(b < c) /\ ~(c < b)
    BY <2>3, <2>4, <2>5, CsoBytes
  <2> QED BY <2>3, <2>6
<1> QED BY <1>1, <1>2

\* Decompressing a block that is in the buffer.
LEMMA CsoDecompressRight ==
    ASSUME NEW buf, NEW p \in Int, NEW b \in CsoBlock, CsoHolds(buf, p, b),
           NEW dst \in Nat, NEW size \in Nat, NEW shift \in Nat, shift + size <= CsoSector
    PROVE  /\ CsoDecompresses(buf, p, CsoEntry(b))
           /\ \A i \in DOMAIN csoOut : i \in Int =>
                CsoDecompress(dst, buf, p, size, CsoEntry(b), shift)[i]
                = IF i < dst \/ i >= dst + size THEN csoOut[i]
                  ELSE b * CsoSector + shift + (i - dst)
           /\ DOMAIN CsoDecompress(dst, buf, p, size, CsoEntry(b), shift) = DOMAIN csoOut
<1>1. CASE b \in CsoPlain
  <2>1. CsoEntry(b).plain /\ CsoLen(b) = CsoSector
    BY <1>1, CsoAssumption DEF CsoEntry
  <2>2. ASSUME NEW i \in DOMAIN csoOut, i \in Int, ~(i < dst \/ i >= dst + size)
        PROVE  CsoByteAt(buf, p + shift + i - dst) = b * CsoSector + shift + (i - dst)
    <3> DEFINE k == shift + (i - dst)
    <3>1. k \in 0 .. CsoLen(b) - 1 /\ p + k = p + shift + i - dst
      BY <2>1, <2>2, CsoConstants
    <3>2. p + k \in DOMAIN buf /\ buf[p + k] = CsoUnit(b, k)
      BY <3>1 DEF CsoHolds
    <3>3. CsoUnit(b, k) = b * CsoSector + k
      BY <1>1 DEF CsoUnit
    <3>4. b * CsoSector \in Nat
      BY CsoBytes, CsoConstants
    <3>5. b * CsoSector + k = b * CsoSector + shift + (i - dst)
      BY <2>2, <3>4
    <3> HIDE DEF k
    <3>6. CsoByteAt(buf, p + k) = CsoUnit(b, k)
      BY <3>2 DEF CsoByteAt
    <3> QED BY <3>1, <3>3, <3>5, <3>6
  <2> QED BY <2>1, <2>2 DEF CsoDecompresses, CsoDecompress
<1>2. CASE b \notin CsoPlain
  <2>1. ~CsoEntry(b).plain
    BY <1>2 DEF CsoEntry
  <2>2. CsoStoredAt(buf, p) = {b}
    BY <1>2, CsoStoredIs
  <2>3. (CHOOSE c \in CsoStoredAt(buf, p) : TRUE) = b
    BY <2>2
  <2> QED BY <2>1, <2>2, <2>3 DEF CsoDecompresses, CsoDecompress
<1> QED BY <1>1, <1>2

\* A block that was read to the beginning of the block buffer.
LEMMA CsoBlockRead ==
    ASSUME CsoShape, NEW b \in CsoBlock
    PROVE  CsoHolds(CsoReadInto(csoBlockBuf, 0, CsoOffset[b + 1] - CsoOffset[b], CsoOffset[b]), 0, b)
<1> SUFFICES ASSUME NEW k \in 0 .. CsoLen(b) - 1
             PROVE  /\ 0 + k \in DOMAIN csoBlockBuf
                    /\ CsoReadInto(csoBlockBuf, 0, CsoOffset[b + 1] - CsoOffset[b], CsoOffset[b])[0 + k]
                       = CsoUnit(b, k)
  BY DEF CsoHolds, CsoReadInto
<1>1. /\ CsoLen(b) \in Nat /\ CsoLen(b) <= CsoSector /\ CsoSector \in Nat
      /\ CsoLen(b) = CsoOffset[b + 1] - CsoOffset[b]
  BY CsoLenType, CsoConstants
<1>2. k \in Nat /\ k < CsoLen(b) /\ 0 + k = k /\ k \in 0 .. CsoSector - 1
  BY <1>1
<1>3. k \in DOMAIN csoBlockBuf
  BY <1>2 DEF CsoShape
<1>4. /\ CsoOffset[b] \in Nat /\ CsoOffset[b + 1] \in Nat /\ CsoOffset[CsoTotalBlocks] \in Nat
      /\ CsoOffset[b + 1] <= CsoOffset[CsoTotalBlocks]
  <2>1. b + 1 \in 0 .. CsoTotalBlocks /\ b \in 0 .. CsoTotalBlocks /\ CsoTotalBlocks \in 0 .. CsoTotalBlocks
        /\ b + 1 <= CsoTotalBlocks
    BY CsoConstants
  <2> QED BY <2>1, CsoConstants, CsoOrder
<1>5. CsoOffset[b] + k - 0 = CsoOffset[b] + k
  BY <1>2, <1>4
<1>6. /\ k >= 0 /\ k < 0 + (CsoOffset[b + 1] - CsoOffset[b])
      /\ CsoOffset[b] + k - 0 < CsoOffset[CsoTotalBlocks]
  BY <1>1, <1>2, <1>4
<1>7. CsoReadInto(csoBlockBuf, 0, CsoOffset[b + 1] - CsoOffset[b], CsoOffset[b])[k]
      = CsoRaw(CsoOffset[b] + k)
  BY <1>3, <1>5, <1>6 DEF CsoReadInto
<1> QED BY <1>2, <1>3, <1>7, CsoRawIs

LEMMA CsoWantedType ==
    ASSUME CsoShape, cso.start <= CsoTotal
    PROVE  /\ CsoWanted \in Nat /\ cso.start + CsoWanted <= CsoTotal
           /\ cso.len > 0 /\ CsoWanted = 0 => cso.start = CsoTotal
           /\ cso.start = CsoTotal => CsoWanted = 0
<1>1. cso.start \in Nat /\ cso.len \in Nat /\ CsoTotal \in Nat
  BY CsoConstants DEF CsoShape
<1>2. CASE cso.start = CsoTotal
  BY <1>1, <1>2 DEF CsoWanted
<1>3. CASE cso.start < CsoTotal
  BY <1>1, <1>3 DEF CsoWanted
<1> QED BY <1>1, <1>2, <1>3

\* The entry of a block that the window covers.
LEMMA CsoEntryAt ==
    ASSUME CsoShape, CsoWindowRight, csoIdxStart # CsoNowhere, ~csoSpoilt,
           NEW b \in 0 .. CsoTotalBlocks, csoIdxStart <= b, b < csoIdxStart + CsoMaxEntries
    PROVE  csoIdx[b - csoIdxStart] = CsoEntry(b)
<1>1. csoIdxStart \in 0 .. CsoTotalBlocks
  BY DEF CsoShape
<1>2. b \in csoIdxStart .. CsoTotalBlocks /\ b - csoIdxStart < CsoMaxEntries
  BY <1>1, CsoConstants
<1> QED BY <1>2 DEF CsoWindowRight

LEMMA CsoBeginKeeps ==
    ASSUME CsoInv, NEW off \in 0 .. CsoTotal + 1, NEW size \in 1 .. CsoTotal, CsoBegin(off, size)
    PROVE  CsoInv'
<1>0. CsoShape /\ CsoWindowRight /\ off \in Nat /\ size \in Nat /\ size > 0
  BY CsoConstants DEF CsoInv
<1>1. /\ cso'.pc = IF off > CsoTotal THEN "Done" ELSE "Index"
      /\ cso'.start = off /\ cso'.len = size /\ cso'.off = off
      /\ cso'.size = IF off + size > CsoTotal THEN CsoTotal - off ELSE size
      /\ cso'.addr = 0 /\ cso'.blk = 0 /\ cso'.head = 0 /\ cso'.tail = 0 /\ cso'.i = 0
      /\ cso'.src = 0 /\ cso'.failed = FALSE /\ cso'.lost = FALSE /\ cso'.answer = 0
      /\ DOMAIN cso' = DOMAIN cso
  BY <1>0 DEF CsoBegin, CsoShape
<1>2. /\ DOMAIN csoOut' = DOMAIN csoOut /\ \A p \in DOMAIN csoOut : csoOut'[p] = CsoJunk
      /\ UNCHANGED <<csoIdx, csoIdxStart, csoBlockBuf, csoSpoilt>>
  BY DEF CsoBegin
<1>3. CsoShape'
  BY <1>0, <1>1, <1>2 DEF CsoShape, CsoPcs
<1>4. CsoWindowRight'
  BY <1>0, <1>2 DEF CsoWindowRight
<1>5. CASE off > CsoTotal
  <2>1. CsoProgress'
    BY <1>1, <1>5 DEF CsoProgress
  <2>2. CsoReadRight'
    <3>1. off >= CsoTotal
      BY <1>0, <1>5, CsoConstants
    <3>2. \A p \in DOMAIN csoOut : ~(p < 0)
      BY CsoConstants, <1>0 DEF CsoShape
    <3> QED BY <1>1, <1>2, <3>1, <3>2 DEF CsoReadRight
  <2> QED BY <1>3, <1>4, <2>1, <2>2 DEF CsoInv
<1>6. CASE ~(off > CsoTotal)
  <2>1. off <= CsoTotal /\ CsoTotal \in Nat
    BY <1>0, <1>6, CsoConstants
  <2>2. cso'.size = CsoWanted'
    BY <1>0, <1>1, <2>1 DEF CsoWanted
  <2>3. CsoAsked'
    BY <1>0, <1>1, <1>2, <2>1, <2>2 DEF CsoAsked, CsoHasNot
  <2>4. CsoProgress' /\ CsoReadRight'
    BY <1>1, <1>6, <2>3 DEF CsoProgress, CsoReadRight
  <2> QED BY <1>3, <1>4, <2>4 DEF CsoInv
<1> QED BY <1>5, <1>6

\* Where the window ends when it covers a request.
LEMMA CsoIndexKeeps ==
    ASSUME CsoInv, CsoIndexHit \/ CsoIndexRead
    PROVE  CsoInv'
<1>0. CsoShape /\ CsoWindowRight /\ CsoAsked /\ cso.blk = 0 /\ cso.pc = "Index"
  BY DEF CsoInv, CsoProgress, CsoIndexHit, CsoIndexRead
<1>1. cso.start \in Nat /\ cso.off = cso.start /\ CsoWanted \in Nat /\ cso.size = CsoWanted
      /\ cso.start + CsoWanted <= CsoTotal
  BY <1>0, CsoWantedType DEF CsoShape, CsoAsked
<1> DEFINE f == CsoFirstBlock
           l == (cso.start + CsoWanted) \div CsoSector
<1>2. /\ f \in Nat /\ l \in Nat /\ f \in 0 .. CsoTotalBlocks
      /\ CsoLastBlock = l + 1
  <2>1. f \in Nat /\ f * CsoSector <= cso.start /\ cso.start \in Nat
    <3>1. f = cso.start \div CsoSector
      BY <1>1 DEF CsoFirstBlock
    <3>2. /\ cso.start \div CsoSector \in Nat /\ cso.start % CsoSector \in Nat
          /\ cso.start = (cso.start \div CsoSector) * CsoSector + (cso.start % CsoSector)
      BY <1>1, CsoDivMod
    <3>3. (cso.start \div CsoSector) * CsoSector \in Nat
      BY <3>2, CsoBytes
    <3> QED BY <1>1, <3>1, <3>2, <3>3
  <2>2. cso.start + CsoWanted \in Nat
    BY <1>1
  <2>3. l \in Nat
    BY <2>2, CsoDivMod
  <2>4. f <= CsoTotalBlocks
    <3>1. f > CsoTotalBlocks => CsoTotalBlocks * CsoSector + CsoSector <= f * CsoSector
      BY <2>1, CsoBytes, CsoConstants
    <3> QED BY <1>1, <2>1, <3>1, CsoConstants
  <2>5. CsoLastBlock = l + 1
    BY <1>1 DEF CsoLastBlock
  <2> QED BY <2>1, <2>3, <2>4, <2>5
<1>3. CASE CsoIndexHit
  <2>1. /\ DOMAIN cso' = DOMAIN cso /\ cso'.pc = "First" /\ cso'.blk = f - csoIdxStart
        /\ cso'.start = cso.start /\ cso'.len = cso.len /\ cso'.off = cso.off /\ cso'.size = cso.size
        /\ cso'.addr = cso.addr /\ cso'.head = cso.head /\ cso'.tail = cso.tail /\ cso'.i = cso.i
        /\ cso'.src = cso.src /\ cso'.failed = cso.failed /\ cso'.lost = cso.lost
        /\ cso'.answer = cso.answer
    BY <1>0, <1>3 DEF CsoIndexHit, CsoShape
  <2>2. UNCHANGED <<csoIdx, csoIdxStart, csoBlockBuf, csoOut, csoSpoilt>> /\ ~csoSpoilt
    BY <1>3 DEF CsoIndexHit
  <2>3. csoIdxStart # CsoNowhere /\ ~(f < csoIdxStart) /\ ~(CsoLastBlock >= csoIdxStart + CsoMaxEntries)
    BY <1>3 DEF CsoIndexHit, CsoOutOfScope
  <2>4. CsoShape'
    BY <1>0, <2>1, <2>2 DEF CsoShape, CsoPcs
  <2>5. CsoWindowRight'
    BY <1>0, <2>2 DEF CsoWindowRight
  <2>6. CsoWanted' = CsoWanted /\ CsoFirstBlock' = f
    BY <2>1 DEF CsoWanted, CsoFirstBlock
  <2>7. CsoAsked'
    BY <1>0, <2>1, <2>2, <2>6 DEF CsoAsked, CsoHasNot
  <2>8. csoIdxStart \in 0 .. CsoTotalBlocks /\ CsoMaxEntries \in Nat /\ CsoTotalBlocks \in Nat
    BY <1>0, <2>3, CsoConstants DEF CsoShape
  <2> HIDE DEF f, l
  <2>9. cso'.blk \in Nat /\ l + 1 < csoIdxStart + CsoMaxEntries /\ csoIdxStart + cso'.blk = f
    BY <1>2, <2>1, <2>3, <2>8
  <2>10. CsoCovered' /\ CsoAt' = CsoFirstBlock'
    BY <2>1, <2>2, <2>3, <2>6, <2>9 DEF CsoCovered, CsoAt, l, f
  <2>11. CsoProgress' /\ CsoReadRight'
    BY <2>1, <2>7, <2>10 DEF CsoProgress, CsoReadRight
  <2> QED BY <2>4, <2>5, <2>11 DEF CsoInv
<1>4. CASE CsoIndexRead
  <2>1. /\ DOMAIN cso' = DOMAIN cso /\ cso'.pc = "First" /\ cso'.blk = 0
        /\ cso'.start = cso.start /\ cso'.len = cso.len /\ cso'.off = cso.off /\ cso'.size = cso.size
        /\ cso'.addr = cso.addr /\ cso'.head = cso.head /\ cso'.tail = cso.tail /\ cso'.i = cso.i
        /\ cso'.src = cso.src /\ cso'.failed = cso.failed /\ cso'.lost = cso.lost
        /\ cso'.answer = cso.answer
    BY <1>0, <1>4 DEF CsoIndexRead, CsoShape
  <2>2. UNCHANGED <<csoBlockBuf, csoOut>> /\ ~csoSpoilt' /\ csoSpoilt' \in BOOLEAN /\ csoIdxStart' = f
        /\ ~CsoTooLarge /\ DOMAIN csoIdx' = DOMAIN csoIdx
        /\ \A i \in DOMAIN csoIdx : i < CsoWindow(f) => csoIdx'[i] = CsoEntry(f + i)
    BY <1>4 DEF CsoIndexRead
  <2>4. CsoShape'
    BY <1>0, <1>2, <2>1, <2>2 DEF CsoShape, CsoPcs
  <2>5. CsoWindowRight'
    <3> SUFFICES ASSUME NEW b \in f .. CsoTotalBlocks, b - f < CsoMaxEntries
                 PROVE  csoIdx'[b - f] = CsoEntry(b)
      BY <2>2 DEF CsoWindowRight
    <3> HIDE DEF f
    <3>1. b - f \in DOMAIN csoIdx /\ b - f < CsoWindow(f) /\ f + (b - f) = b
      BY <1>0, <1>2, CsoConstants DEF CsoShape, CsoWindow
    <3> QED BY <2>2, <3>1
  <2>6. CsoWanted' = CsoWanted /\ CsoFirstBlock' = f
    BY <2>1 DEF CsoWanted, CsoFirstBlock
  <2>7. CsoAsked'
    BY <1>0, <2>1, <2>2, <2>6 DEF CsoAsked, CsoHasNot
  <2>8. f # CsoNowhere
    BY <1>2, CsoConstants
  <2>a. (l + 1) - f + 1 <= CsoMaxEntries
    BY <1>2, <2>2, CsoConstants DEF CsoTooLarge
  <2> HIDE DEF f, l
  <2>9. l + 1 < f + CsoMaxEntries /\ f + 0 = f /\ 0 \in Nat
    BY <1>2, <2>a, CsoConstants
  <2>10. CsoCovered' /\ CsoAt' = CsoFirstBlock'
    BY <2>1, <2>2, <2>6, <2>8, <2>9 DEF CsoCovered, CsoAt, l
  <2>11. CsoProgress' /\ CsoReadRight'
    BY <2>1, <2>7, <2>10 DEF CsoProgress, CsoReadRight
  <2> QED BY <2>4, <2>5, <2>11 DEF CsoInv
<1> QED BY <1>3, <1>4

LEMMA CsoLostKeeps ==
    ASSUME CsoInv, CsoIndexSpoilt \/ CsoIndexTooLarge \/ CsoIndexFails
    PROVE  CsoInv'
<1>1. CsoAnswerAnything /\ csoSpoilt' \in {csoSpoilt, TRUE}
  BY DEF CsoIndexSpoilt, CsoIndexTooLarge, CsoIndexFails
<1>2. CsoShape /\ CsoWindowRight
  BY DEF CsoInv
<1>3. /\ DOMAIN cso' = DOMAIN cso /\ cso'.pc = "Done" /\ cso'.lost = TRUE /\ cso'.failed = cso.failed
      /\ cso'.start = cso.start /\ cso'.len = cso.len
      /\ DOMAIN csoBlockBuf' = DOMAIN csoBlockBuf /\ UNCHANGED <<csoIdx, csoIdxStart, csoOut>>
  BY <1>1, <1>2 DEF CsoAnswerAnything, CsoShape
<1>4. CsoShape'
  BY <1>1, <1>2, <1>3 DEF CsoShape, CsoPcs
<1>5. CsoWindowRight'
  BY <1>1, <1>2, <1>3 DEF CsoWindowRight
<1>6. CsoProgress' /\ CsoReadRight'
  BY <1>3 DEF CsoProgress, CsoReadRight, CsoUndisturbed
<1> QED BY <1>4, <1>5, <1>6 DEF CsoInv

\* One sector through the block buffer: what it leaves alone, whatever it reads ...
LEMMA CsoOneBlockFrame ==
    ASSUME CsoShape, NEW dst \in Nat, NEW blk, NEW size \in Nat, NEW shift, NEW done,
           CsoOneBlock(dst, blk, size, shift, done)
    PROVE  /\ UNCHANGED <<csoIdx, csoIdxStart, csoSpoilt>>
           /\ DOMAIN csoOut' = DOMAIN csoOut /\ DOMAIN csoBlockBuf' = DOMAIN csoBlockBuf
           /\ \E ok \in BOOLEAN :
                 \/ /\ cso' = [done EXCEPT !.failed = @ \/ ~ok]
                    /\ \A p \in DOMAIN csoOut : p < dst \/ p >= dst + size => csoOut'[p] = csoOut[p]
                 \/ /\ cso' = [cso EXCEPT !.pc = "Done", !.answer = CsoError, !.failed = @ \/ ~ok]
                    /\ UNCHANGED csoOut
<1>1. PICK ok \in BOOLEAN :
        LET e == csoIdx[blk]
            stored == IF ok THEN CsoReadInto(csoBlockBuf, 0, csoIdx[blk + 1].off - e.off, e.off)
                      ELSE csoBlockBuf
        IN  /\ csoBlockBuf' = stored
            /\ IF CsoDecompresses(stored, 0, e)
               THEN /\ csoOut' = CsoDecompress(dst, stored, 0, size, e, shift)
                    /\ cso' = [done EXCEPT !.failed = @ \/ ~ok]
               ELSE /\ cso' = [cso EXCEPT !.pc = "Done", !.answer = CsoError,
                                          !.failed = @ \/ ~ok]
                    /\ UNCHANGED csoOut
  BY DEF CsoOneBlock
<1>2. UNCHANGED <<csoIdx, csoIdxStart, csoSpoilt>>
  BY DEF CsoOneBlock
<1>3. DOMAIN csoBlockBuf' = DOMAIN csoBlockBuf
  BY <1>1 DEF CsoReadInto
<1> DEFINE stored == csoBlockBuf'
<1>4. CASE CsoDecompresses(stored, 0, csoIdx[blk])
  <2>1. csoOut' = CsoDecompress(dst, stored, 0, size, csoIdx[blk], shift)
        /\ cso' = [done EXCEPT !.failed = @ \/ ~ok]
    BY <1>1, <1>4
  <2>2. DOMAIN csoOut' = DOMAIN csoOut
        /\ \A p \in DOMAIN csoOut : p < dst \/ p >= dst + size => csoOut'[p] = csoOut[p]
    BY <2>1 DEF CsoDecompress
  <2> QED BY <1>2, <1>3, <2>1, <2>2
<1>5. CASE ~CsoDecompresses(stored, 0, csoIdx[blk])
  <2>1. /\ cso' = [cso EXCEPT !.pc = "Done", !.answer = CsoError, !.failed = @ \/ ~ok]
        /\ UNCHANGED csoOut
    BY <1>1, <1>5
  <2> QED BY <1>2, <1>3, <2>1
<1> QED BY <1>4, <1>5

\* ... and what it puts into the caller's buffer when the window has the block.
LEMMA CsoOneBlockRight ==
    ASSUME CsoShape, NEW dst \in Nat, NEW blk, NEW size \in Nat, NEW shift \in Nat, NEW done,
           CsoOneBlock(dst, blk, size, shift, done), shift + size <= CsoSector,
           NEW b \in CsoBlock, csoIdx[blk] = CsoEntry(b), csoIdx[blk + 1] = CsoEntry(b + 1)
    PROVE  \/ /\ cso' = [done EXCEPT !.failed = @ \/ ~TRUE]
              /\ \A p \in DOMAIN csoOut :
                    csoOut'[p] = IF p < dst \/ p >= dst + size THEN csoOut[p]
                                 ELSE b * CsoSector + shift + (p - dst)
           \/ cso' = [done EXCEPT !.failed = @ \/ ~FALSE]
           \/ cso' = [cso EXCEPT !.pc = "Done", !.answer = CsoError, !.failed = @ \/ ~FALSE]
<1>1. PICK ok \in BOOLEAN :
        LET e == csoIdx[blk]
            stored == IF ok THEN CsoReadInto(csoBlockBuf, 0, csoIdx[blk + 1].off - e.off, e.off)
                      ELSE csoBlockBuf
        IN  /\ csoBlockBuf' = stored
            /\ IF CsoDecompresses(stored, 0, e)
               THEN /\ csoOut' = CsoDecompress(dst, stored, 0, size, e, shift)
                    /\ cso' = [done EXCEPT !.failed = @ \/ ~ok]
               ELSE /\ cso' = [cso EXCEPT !.pc = "Done", !.answer = CsoError,
                                          !.failed = @ \/ ~ok]
                    /\ UNCHANGED csoOut
  BY DEF CsoOneBlock
<1>2. CASE ok = FALSE
  BY <1>1, <1>2
<1>3. CASE ok = TRUE
  <2> DEFINE stored == CsoReadInto(csoBlockBuf, 0, CsoOffset[b + 1] - CsoOffset[b], CsoOffset[b])
  <2>1. csoIdx[blk].off = CsoOffset[b] /\ csoIdx[blk + 1].off = CsoOffset[b + 1]
    BY DEF CsoEntry
  <2>2. /\ csoBlockBuf' = stored
        /\ IF CsoDecompresses(stored, 0, CsoEntry(b))
           THEN /\ csoOut' = CsoDecompress(dst, stored, 0, size, CsoEntry(b), shift)
                /\ cso' = [done EXCEPT !.failed = @ \/ ~TRUE]
           ELSE TRUE
    BY <1>1, <1>3, <2>1
  <2>3. CsoHolds(stored, 0, b)
    BY CsoBlockRead
  <2> HIDE DEF stored
  <2>4. /\ CsoDecompresses(stored, 0, CsoEntry(b))
        /\ \A p \in DOMAIN csoOut : p \in Int =>
              CsoDecompress(dst, stored, 0, size, CsoEntry(b), shift)[p]
              = IF p < dst \/ p >= dst + size THEN csoOut[p]
                ELSE b * CsoSector + shift + (p - dst)
    BY <2>3, CsoDecompressRight
  <2>5. \A p \in DOMAIN csoOut : p \in Int
    BY CsoConstants DEF CsoShape
  <2> QED BY <2>2, <2>4, <2>5
<1> QED BY <1>2, <1>3

\* Once a read has failed nothing is promised of the request.
LEMMA CsoFailedKeeps ==
    ASSUME CsoShape, CsoWindowRight, DOMAIN cso' = DOMAIN cso,
           cso'.pc \in {"Done", "Last", "Main", "Loop"}, cso'.failed = TRUE, cso'.lost \in BOOLEAN,
           cso'.start = cso.start, cso'.len = cso.len, UNCHANGED <<csoIdx, csoIdxStart, csoSpoilt>>,
           DOMAIN csoOut' = DOMAIN csoOut, DOMAIN csoBlockBuf' = DOMAIN csoBlockBuf
    PROVE  CsoInv'
<1>1. CsoShape'
  BY DEF CsoShape, CsoPcs
<1>2. CsoWindowRight'
  BY DEF CsoWindowRight
<1>3. CsoProgress' /\ CsoReadRight'
  BY DEF CsoProgress, CsoReadRight, CsoUndisturbed
<1> QED BY <1>1, <1>2, <1>3 DEF CsoInv

\* What the steps that go on with a request leave as it was.
CsoGoesOn(pc) ==
    /\ DOMAIN cso' = DOMAIN cso /\ cso'.pc = pc /\ cso'.failed = cso.failed /\ cso'.lost = cso.lost
    /\ cso'.start = cso.start /\ cso'.len = cso.len /\ UNCHANGED <<csoIdx, csoIdxStart, csoSpoilt>>
    /\ DOMAIN csoOut' = DOMAIN csoOut /\ DOMAIN csoBlockBuf' = DOMAIN csoBlockBuf

LEMMA CsoGoesOnKeeps ==
    ASSUME CsoShape, CsoWindowRight, NEW pc \in CsoPcs, CsoGoesOn(pc)
    PROVE  CsoShape' /\ CsoWindowRight' /\ CsoWanted' = CsoWanted
<1>1. CsoShape'
  BY DEF CsoShape, CsoGoesOn
<1>2. CsoWindowRight'
  BY DEF CsoWindowRight, CsoGoesOn
<1>3. CsoWanted' = CsoWanted
  BY DEF CsoWanted, CsoGoesOn
<1> QED BY <1>1, <1>2, <1>3

\* The end of a request that went well.
LEMMA CsoReadDone ==
    ASSUME CsoShape, cso.pc = "Done", cso.start <= CsoTotal,
           cso.answer = CsoWanted \/ (cso.start = CsoTotal /\ cso.answer = CsoError),
           \A p \in 0 .. CsoWanted - 1 : CsoHas(p),
           \A p \in CsoWanted .. CsoTotal - 1 : CsoHasNot(p)
    PROVE  CsoProgress /\ CsoReadRight
<1>1. CsoProgress
  BY DEF CsoProgress
<1>2. CsoWanted \in Nat /\ cso.start + CsoWanted <= CsoTotal /\ CsoTotal \in Nat
  BY CsoWantedType, CsoConstants
<1>3. \A p \in DOMAIN csoOut : csoOut[p] = IF p < CsoWanted THEN cso.start + p ELSE CsoJunk
  BY <1>2 DEF CsoShape, CsoHas, CsoHasNot
<1>4. CsoReadRight
  BY <1>3 DEF CsoReadRight, CsoWanted
<1> QED BY <1>1, <1>4

\* The same of the next state.
LEMMA CsoReadDoneNext ==
    /\ CsoShape /\ cso.pc = "Done" /\ cso.start <= CsoTotal
    /\ cso.answer = CsoWanted \/ (cso.start = CsoTotal /\ cso.answer = CsoError)
    /\ \A p \in 0 .. CsoWanted - 1 : CsoHas(p)
    /\ \A p \in CsoWanted .. CsoTotal - 1 : CsoHasNot(p)
    => CsoProgress /\ CsoReadRight
  BY CsoReadDone

LEMMA CsoReadDoneThen ==
    ( /\ CsoShape /\ cso.pc = "Done" /\ cso.start <= CsoTotal
      /\ cso.answer = CsoWanted \/ (cso.start = CsoTotal /\ cso.answer = CsoError)
      /\ \A p \in 0 .. CsoWanted - 1 : CsoHas(p)
      /\ \A p \in CsoWanted .. CsoTotal - 1 : CsoHasNot(p) )'
    => CsoProgress' /\ CsoReadRight'
  BY CsoReadDoneNext, PTL

LEMMA CsoFirstEmptyKeeps ==
    ASSUME CsoInv, CsoFirst, CsoWanted = 0
    PROVE  CsoInv'
<1>1. CsoShape /\ CsoWindowRight /\ CsoAsked /\ CsoCovered
  BY DEF CsoInv, CsoProgress, CsoFirst
<1>2. /\ cso.start \in Nat /\ cso.off = cso.start /\ cso.size = 0 /\ cso.start = CsoTotal
      /\ cso.start <= CsoTotal /\ cso.addr = 0 /\ cso.failed = FALSE /\ cso.lost = FALSE
      /\ CsoTotal \in Nat
  BY <1>1, CsoWantedType, CsoConstants DEF CsoAsked, CsoShape
<1>3. CsoShift = 0
  <2>1. CsoTotal = CsoTotalBlocks * CsoSector + 0 /\ CsoTotalBlocks \in Nat /\ 0 < CsoSector
    BY CsoConstants, CsoBytes
  <2>2. CsoTotal % CsoSector = 0
    BY <1>2, <2>1, CsoSectorOf
  <2> QED BY <1>2, <2>2 DEF CsoShift
<1> DEFINE done == [cso EXCEPT !.pc = "Done", !.answer = 0, !.head = 0, !.size = cso.size - 0,
                               !.off = cso.off + 0, !.addr = cso.addr + 0, !.blk = cso.blk + 1]
<1>4. CsoOneBlock(cso.addr, cso.blk, 0, CsoShift, done)
  <2>1. CsoShift + cso.size <= CsoSector
    BY <1>2, <1>3, CsoConstants
  <2> QED BY <1>2, <2>1 DEF CsoFirst
<1> HIDE DEF done
<1>5. /\ UNCHANGED <<csoIdx, csoIdxStart, csoSpoilt>>
      /\ DOMAIN csoOut' = DOMAIN csoOut /\ DOMAIN csoBlockBuf' = DOMAIN csoBlockBuf
      /\ \E ok \in BOOLEAN :
            \/ /\ cso' = [done EXCEPT !.failed = @ \/ ~ok]
               /\ \A p \in DOMAIN csoOut : p < cso.addr \/ p >= cso.addr + 0 => csoOut'[p] = csoOut[p]
            \/ /\ cso' = [cso EXCEPT !.pc = "Done", !.answer = CsoError, !.failed = @ \/ ~ok]
               /\ UNCHANGED csoOut
  <2>1. CsoShape /\ cso.addr \in Nat /\ 0 \in Nat
    BY <1>1, <1>2
  <2> QED BY ONLY <2>1, <1>4, CsoOneBlockFrame
<1>6. /\ \A p \in DOMAIN csoOut : csoOut'[p] = CsoJunk
      /\ DOMAIN cso' = DOMAIN cso /\ cso'.pc = "Done" /\ cso'.answer \in {0, CsoError}
      /\ cso'.start = cso.start /\ cso'.len = cso.len /\ cso'.lost = FALSE /\ cso'.failed \in BOOLEAN
  <2>0. \A p \in DOMAIN csoOut : (p < cso.addr \/ p >= cso.addr + 0) /\ csoOut[p] = CsoJunk
    BY <1>1, <1>2 DEF CsoShape, CsoAsked, CsoHasNot
  <2>1. PICK ok \in BOOLEAN :
            \/ /\ cso' = [done EXCEPT !.failed = @ \/ ~ok]
               /\ \A p \in DOMAIN csoOut : p < cso.addr \/ p >= cso.addr + 0 => csoOut'[p] = csoOut[p]
            \/ /\ cso' = [cso EXCEPT !.pc = "Done", !.answer = CsoError, !.failed = @ \/ ~ok]
               /\ UNCHANGED csoOut
    BY <1>5
  <2>2. CASE /\ cso' = [done EXCEPT !.failed = @ \/ ~ok]
             /\ \A p \in DOMAIN csoOut : p < cso.addr \/ p >= cso.addr + 0 => csoOut'[p] = csoOut[p]
    BY <1>1, <1>2, <2>0, <2>2 DEF done, CsoShape
  <2>3. CASE /\ cso' = [cso EXCEPT !.pc = "Done", !.answer = CsoError, !.failed = @ \/ ~ok]
             /\ UNCHANGED csoOut
    BY <1>1, <1>2, <2>0, <2>3 DEF CsoShape
  <2> QED BY <2>1, <2>2, <2>3
<1>7. CsoShape' /\ CsoWindowRight' /\ CsoWanted' = CsoWanted
  BY <1>1, <1>5, <1>6 DEF CsoShape, CsoWindowRight, CsoWanted, CsoPcs
<1>8. CsoProgress' /\ CsoReadRight'
  <2>1. \A p \in 0 .. CsoWanted' - 1 : CsoHas(p)'
    BY <1>7
  <2>2. \A p \in CsoWanted' .. CsoTotal - 1 : CsoHasNot(p)'
    BY <1>1, <1>6, <1>7 DEF CsoHasNot, CsoShape
  <2> QED BY <1>2, <1>6, <1>7, <2>1, <2>2, CsoReadDoneThen
<1> QED BY <1>7, <1>8 DEF CsoInv

\* A sector that begins at p or before is not behind p's.
LEMMA CsoNotBehind ==
    ASSUME NEW a \in Nat, NEW p \in Nat, a * CsoSector <= p
    PROVE  a <= p \div CsoSector
<1> DEFINE q == p \div CsoSector
           m == p % CsoSector
<1>1. q \in Nat /\ m \in Nat /\ m < CsoSector /\ p = q * CsoSector + m
  BY CsoDivMod
<1> HIDE DEF q, m
<1>2. q < a => q * CsoSector + CsoSector <= a * CsoSector
  BY <1>1, CsoBytes
<1>3. q * CsoSector \in Nat /\ a * CsoSector \in Nat /\ CsoSector \in Nat
  BY <1>1, CsoBytes, CsoConstants
<1>4. ~(q < a)
  BY <1>1, <1>2, <1>3
<1> QED BY <1>1, <1>4 DEF q

LEMMA CsoCoveredBlock ==
    ASSUME CsoShape, CsoWindowRight, CsoCovered, cso.start <= CsoTotal,
           NEW b \in 0 .. CsoTotalBlocks, csoIdxStart <= b,
           b <= (cso.start + CsoWanted) \div CsoSector + 1
    PROVE  csoIdx[b - csoIdxStart] = CsoEntry(b)
<1>1. csoIdxStart \in 0 .. CsoTotalBlocks /\ CsoMaxEntries \in Nat /\ CsoTotalBlocks \in Nat
  BY CsoConstants DEF CsoCovered, CsoShape
<1>2. cso.start + CsoWanted \in Nat
  BY CsoWantedType DEF CsoShape
<1>3. (cso.start + CsoWanted) \div CsoSector \in Nat
  BY <1>2, CsoDivMod
<1>4. b < csoIdxStart + CsoMaxEntries
  BY <1>1, <1>3 DEF CsoCovered
<1> QED BY <1>4, CsoEntryAt DEF CsoCovered

LEMMA CsoFirstKeeps ==
    ASSUME CsoInv, CsoFirst, CsoWanted # 0
    PROVE  CsoInv'
<1>1. CsoShape /\ CsoWindowRight /\ CsoAsked /\ CsoCovered /\ CsoAt = CsoFirstBlock
  BY DEF CsoInv, CsoProgress, CsoFirst
<1>2. /\ cso.start \in Nat /\ cso.off = cso.start /\ cso.size = CsoWanted /\ CsoWanted \in Nat
      /\ cso.start <= CsoTotal /\ cso.start < CsoTotal /\ cso.start + CsoWanted <= CsoTotal
      /\ cso.addr = 0 /\ cso.head = 0 /\ cso.i = 0 /\ cso.tail = 0
      /\ cso.failed = FALSE /\ cso.lost = FALSE /\ CsoTotal \in Nat /\ cso.blk \in Nat
      /\ CsoSector \in Nat /\ CsoSector > 0
  BY <1>1, CsoWantedType, CsoConstants DEF CsoAsked, CsoShape, CsoCovered
<1> DEFINE b == CsoFirstBlock
           sh == CsoShift
           end == cso.start + CsoWanted
           l == end \div CsoSector
<1>3. b \in Nat /\ sh \in Nat /\ sh < CsoSector /\ cso.start = b * CsoSector + sh /\ b * CsoSector \in Nat
  BY <1>2, CsoDivMod, CsoBytes DEF CsoFirstBlock, CsoShift
<1>4. b \in CsoBlock /\ b \in 0 .. CsoTotalBlocks /\ b + 1 \in 0 .. CsoTotalBlocks
  <2>1. ~(CsoTotalBlocks <= b)
    <3>1. CsoTotalBlocks <= b => CsoTotalBlocks * CsoSector <= b * CsoSector
      BY <1>3, CsoBytes, CsoConstants
    <3> QED BY <1>2, <1>3, <3>1, CsoConstants
  <2>2. b \in CsoBlock
    BY <1>3, <2>1, CsoConstants DEF CsoBlock
  <2> QED BY <2>2, CsoConstants
<1>5. l \in Nat /\ b <= l
  <2>1. end \in Nat /\ b * CsoSector <= end
    BY <1>2, <1>3
  <2> QED BY <1>3, <2>1, CsoNotBehind, CsoDivMod
<1>6. csoIdxStart \in Nat /\ csoIdxStart + cso.blk = b
  BY <1>1 DEF CsoAt, CsoCovered, CsoShape
<1> HIDE DEF b, sh, end, l
<1>7. csoIdx[cso.blk] = CsoEntry(b) /\ csoIdx[cso.blk + 1] = CsoEntry(b + 1)
  <2>1. b - csoIdxStart = cso.blk /\ (b + 1) - csoIdxStart = cso.blk + 1
        /\ csoIdxStart <= b /\ csoIdxStart <= b + 1 /\ b <= l + 1 /\ b + 1 <= l + 1
    BY <1>2, <1>3, <1>5, <1>6
  <2>2. csoIdx[b - csoIdxStart] = CsoEntry(b) /\ csoIdx[(b + 1) - csoIdxStart] = CsoEntry(b + 1)
    BY <1>1, <1>2, <1>4, <2>1, CsoCoveredBlock DEF l, end
  <2> QED BY <2>1, <2>2
<1> DEFINE head == IF sh + CsoWanted <= CsoSector THEN CsoWanted ELSE CsoSector - sh
           done == [cso EXCEPT !.pc = IF CsoWanted = head THEN "Done" ELSE "Last",
                          !.answer = IF CsoWanted = head THEN head ELSE @, !.head = head,
                          !.size = @ - head, !.off = @ + head, !.addr = @ + head,
                          !.blk = @ + 1]
<1>8. CsoOneBlock(0, cso.blk, head, sh, done)
  BY <1>2 DEF CsoFirst, sh
<1>9. /\ head \in Nat /\ head <= CsoWanted /\ sh + head <= CsoSector /\ head > 0
      /\ head # CsoWanted => sh + head = CsoSector
  BY <1>2, <1>3
<1>10. /\ DOMAIN done = DOMAIN cso /\ done.failed = FALSE /\ done.lost = FALSE
       /\ done.start = cso.start /\ done.len = cso.len
       /\ done.pc = IF CsoWanted = head THEN "Done" ELSE "Last"
       /\ CsoWanted = head => done.answer = head
       /\ done.head = head /\ done.size = CsoWanted - head /\ done.addr = head
       /\ done.blk = cso.blk + 1 /\ done.i = 0 /\ done.tail = 0
  BY <1>1, <1>2, <1>9 DEF CsoShape
<1> HIDE DEF done, head
<1>11. /\ UNCHANGED <<csoIdx, csoIdxStart, csoSpoilt>>
       /\ DOMAIN csoOut' = DOMAIN csoOut /\ DOMAIN csoBlockBuf' = DOMAIN csoBlockBuf
  <2>1. 0 \in Nat
    OBVIOUS
  <2> QED BY ONLY <1>1, <1>8, <1>9, <2>1, CsoOneBlockFrame
<1>12. \/ /\ cso' = [done EXCEPT !.failed = @ \/ ~TRUE]
          /\ \A p \in DOMAIN csoOut :
                csoOut'[p] = IF p < 0 \/ p >= 0 + head THEN csoOut[p]
                             ELSE b * CsoSector + sh + (p - 0)
       \/ cso' = [done EXCEPT !.failed = @ \/ ~FALSE]
       \/ cso' = [cso EXCEPT !.pc = "Done", !.answer = CsoError, !.failed = @ \/ ~FALSE]
  <2>1. 0 \in Nat
    OBVIOUS
  <2>2. CsoShape /\ head \in Nat /\ sh \in Nat /\ sh + head <= CsoSector /\ b \in CsoBlock
    BY <1>1, <1>3, <1>4, <1>9
  <2> QED BY ONLY <1>7, <1>8, <2>1, <2>2, CsoOneBlockRight, Z3
<1>13. CASE cso' = [done EXCEPT !.failed = @ \/ ~FALSE]
  <2>1. /\ DOMAIN cso' = DOMAIN cso /\ cso'.pc \in {"Done", "Last"} /\ cso'.failed = TRUE
        /\ cso'.lost \in BOOLEAN /\ cso'.start = cso.start /\ cso'.len = cso.len
    BY <1>1, <1>10, <1>13 DEF CsoShape
  <2> QED BY <1>1, <1>11, <2>1, CsoFailedKeeps
<1>14. CASE cso' = [cso EXCEPT !.pc = "Done", !.answer = CsoError, !.failed = @ \/ ~FALSE]
  <2>1. /\ DOMAIN cso' = DOMAIN cso /\ cso'.pc \in {"Done", "Last"} /\ cso'.failed = TRUE
        /\ cso'.lost \in BOOLEAN /\ cso'.start = cso.start /\ cso'.len = cso.len
    BY <1>1, <1>2, <1>14 DEF CsoShape
  <2> QED BY <1>1, <1>11, <2>1, CsoFailedKeeps
<1>15. CASE /\ cso' = [done EXCEPT !.failed = @ \/ ~TRUE]
            /\ \A p \in DOMAIN csoOut :
                  csoOut'[p] = IF p < 0 \/ p >= 0 + head THEN csoOut[p]
                               ELSE b * CsoSector + sh + (p - 0)
  <2>1. /\ DOMAIN cso' = DOMAIN cso /\ cso'.failed = FALSE /\ cso'.lost = FALSE
        /\ cso'.start = cso.start /\ cso'.len = cso.len
        /\ cso'.pc = IF CsoWanted = head THEN "Done" ELSE "Last"
        /\ CsoWanted = head => cso'.answer = head
        /\ cso'.head = head /\ cso'.size = CsoWanted - head /\ cso'.addr = head
        /\ cso'.blk = cso.blk + 1 /\ cso'.i = 0 /\ cso'.tail = 0
    BY <1>1, <1>10, <1>15 DEF CsoShape
  <2>2. CsoGoesOn(cso'.pc) /\ cso'.pc \in CsoPcs
    BY <1>2, <1>11, <2>1 DEF CsoGoesOn, CsoPcs
  <2>3. CsoShape' /\ CsoWindowRight' /\ CsoWanted' = CsoWanted
    BY <1>1, <2>2, CsoGoesOnKeeps
  <2>4. \A p \in 0 .. head - 1 : csoOut'[p] = cso.start + p
    <3> TAKE p \in 0 .. head - 1
    <3>1. p \in DOMAIN csoOut /\ ~(p < 0) /\ ~(p >= 0 + head) /\ p \in Nat
      BY <1>1, <1>2, <1>9 DEF CsoShape
    <3>2. csoOut'[p] = b * CsoSector + sh + (p - 0)
      BY <1>15, <3>1
    <3> QED BY <1>2, <1>3, <3>1, <3>2
  <2>5. \A p \in CsoWanted .. CsoTotal - 1 : csoOut'[p] = CsoJunk
    <3> TAKE p \in CsoWanted .. CsoTotal - 1
    <3>1. p \in DOMAIN csoOut /\ p >= 0 + head
      BY <1>1, <1>2, <1>9 DEF CsoShape
    <3>2. csoOut'[p] = csoOut[p]
      BY <1>15, <3>1
    <3> QED BY <1>1, <3>1, <3>2 DEF CsoAsked, CsoHasNot
  <2>6. CASE CsoWanted = head
    <3>1. (\A p \in 0 .. CsoWanted' - 1 : CsoHas(p)') /\ (\A p \in CsoWanted' .. CsoTotal - 1 : CsoHasNot(p)')
      BY <2>1, <2>3, <2>4, <2>5, <2>6 DEF CsoHas, CsoHasNot
    <3>2. cso'.pc = "Done" /\ cso'.start <= CsoTotal /\ cso'.answer = CsoWanted'
      BY <1>2, <2>1, <2>3, <2>6
    <3>3. CsoProgress' /\ CsoReadRight'
      BY <2>3, <3>1, <3>2, CsoReadDoneThen
    <3> QED BY <2>3, <3>3 DEF CsoInv
  <2>7. CASE CsoWanted # head
    <3>1. cso'.pc = "Last"
      BY <2>1, <2>7
    <3>2. CsoAt' = b + 1 /\ cso'.blk \in Nat
      BY <1>2, <1>3, <1>6, <1>11, <2>1 DEF CsoAt
    <3>3. cso'.start + cso'.head = CsoAt' * CsoSector
      <4>1. (b + 1) * CsoSector = b * CsoSector + CsoSector
        BY <1>3, CsoBytes
      <4>2. cso.start + head = b * CsoSector + CsoSector
        BY <1>2, <1>3, <1>9, <2>7
      <4> QED BY <2>1, <3>2, <4>1, <4>2
    <3>4. CsoCovered'
      BY <1>1, <1>2, <1>11, <2>1, <2>3, <3>2 DEF CsoCovered
    <3>5. CsoHeadRead'
      <4>1. cso'.start <= CsoTotal /\ cso'.head \in 0 .. CsoWanted' /\ cso'.addr = cso'.head
            /\ cso'.size \in Nat \ {0}
        BY <1>2, <1>9, <2>1, <2>3, <2>7
      <4>2. (\A p \in 0 .. cso'.head - 1 : CsoHas(p)') /\ (\A p \in CsoWanted' .. CsoTotal - 1 : CsoHasNot(p)')
        BY <2>1, <2>3, <2>4, <2>5 DEF CsoHas, CsoHasNot
      <4> QED BY <3>3, <4>1, <4>2 DEF CsoHeadRead
    <3>6. cso'.head + cso'.size = CsoWanted' /\ cso'.i = 0
      BY <1>2, <1>9, <2>1, <2>3
    <3>7. CsoProgress' /\ CsoReadRight'
      BY <2>1, <3>1, <3>4, <3>5, <3>6 DEF CsoProgress, CsoReadRight
    <3> QED BY <2>3, <3>7 DEF CsoInv
  <2> QED BY <2>6, <2>7
<1> QED BY <1>12, <1>13, <1>14, <1>15

LEMMA CsoNoFirstKeeps ==
    ASSUME CsoInv, CsoNoFirst
    PROVE  CsoInv'
<1>1. CsoShape /\ CsoWindowRight /\ CsoAsked /\ CsoCovered /\ CsoAt = CsoFirstBlock
      /\ cso.pc = "First" /\ CsoShift = 0 /\ ~(cso.size <= CsoSector)
  BY DEF CsoInv, CsoProgress, CsoNoFirst, CsoNeedsFirst
<1>2. /\ cso.start \in Nat /\ cso.off = cso.start /\ cso.size = CsoWanted /\ CsoWanted \in Nat
      /\ cso.start <= CsoTotal /\ cso.addr = 0 /\ cso.head = 0 /\ cso.i = 0
      /\ cso.failed = FALSE /\ cso.lost = FALSE /\ CsoSector \in Nat /\ CsoTotal \in Nat
  BY <1>1, CsoWantedType, CsoConstants DEF CsoAsked, CsoShape
<1>3. /\ DOMAIN cso' = DOMAIN cso /\ cso'.pc = "Last" /\ cso'.failed = FALSE /\ cso'.lost = FALSE
      /\ cso'.start = cso.start /\ cso'.len = cso.len /\ cso'.blk = cso.blk /\ cso'.head = 0
      /\ cso'.size = CsoWanted /\ cso'.addr = 0 /\ cso'.i = 0
      /\ UNCHANGED <<csoIdx, csoIdxStart, csoBlockBuf, csoOut, csoSpoilt>>
  BY <1>1, <1>2 DEF CsoNoFirst, CsoShape
<1>4. CsoShape' /\ CsoWindowRight' /\ CsoWanted' = CsoWanted
  <2>1. CsoGoesOn("Last") /\ "Last" \in CsoPcs
    BY <1>2, <1>3 DEF CsoGoesOn, CsoPcs
  <2> QED BY <1>1, <2>1, CsoGoesOnKeeps
<1>5. CsoAt' = CsoFirstBlock /\ cso.start = CsoFirstBlock * CsoSector
  <2>1. CsoFirstBlock \in Nat /\ CsoFirstBlock * CsoSector \in Nat
        /\ cso.start = CsoFirstBlock * CsoSector + CsoShift
    BY <1>2, CsoDivMod, CsoBytes DEF CsoFirstBlock, CsoShift
  <2>2. CsoAt' = CsoAt
    BY <1>3 DEF CsoAt
  <2> QED BY <1>1, <2>1, <2>2
<1>6. CsoCovered'
  BY <1>1, <1>3, <1>4 DEF CsoCovered
<1>7. CsoHeadRead'
  <2>1. cso'.start + cso'.head = CsoAt' * CsoSector
    BY <1>2, <1>3, <1>5
  <2>2. cso'.size \in Nat \ {0} /\ cso'.head \in 0 .. CsoWanted' /\ cso'.addr = cso'.head
        /\ cso'.start <= CsoTotal
    BY <1>1, <1>2, <1>3, <1>4
  <2>3. /\ \A p \in 0 .. cso'.head - 1 : CsoHas(p)'
        /\ \A p \in CsoWanted' .. CsoTotal - 1 : CsoHasNot(p)'
    <3>1. \A p \in CsoWanted .. CsoTotal - 1 : p \in DOMAIN csoOut
      BY <1>1, <1>2 DEF CsoShape
    <3> QED BY <1>1, <1>3, <1>4, <3>1 DEF CsoAsked, CsoHasNot
  <2> QED BY <2>1, <2>2, <2>3 DEF CsoHeadRead
<1>8. cso'.head + cso'.size = CsoWanted'
  BY <1>2, <1>3, <1>4
<1>9. CsoProgress' /\ CsoReadRight'
  BY <1>3, <1>6, <1>7, <1>8 DEF CsoProgress, CsoReadRight
<1> QED BY <1>4, <1>9 DEF CsoInv

\* Where a request stands that has its first sector, or needs none.
LEMMA CsoStands ==
    ASSUME CsoShape, CsoCovered, CsoHeadRead
    PROVE  /\ CsoAt \in Nat /\ csoIdxStart \in Nat /\ csoIdxStart <= CsoAt /\ cso.blk \in Nat
           /\ CsoAt - csoIdxStart = cso.blk
           /\ cso.start \in Nat /\ CsoWanted \in Nat /\ cso.head \in Nat /\ cso.addr = cso.head
           /\ cso.size \in Nat /\ cso.size > 0 /\ cso.head <= CsoWanted
           /\ cso.start + CsoWanted <= CsoTotal /\ cso.start <= CsoTotal
           /\ CsoTotal \in Nat /\ CsoSector \in Nat /\ CsoSector > 0 /\ CsoTotalBlocks \in Nat
           /\ CsoAt * CsoSector \in Nat /\ cso.start + cso.head = CsoAt * CsoSector
           /\ cso.size \div CsoSector \in Nat /\ cso.size % CsoSector \in Nat
           /\ cso.size % CsoSector < CsoSector /\ (cso.size \div CsoSector) * CsoSector \in Nat
           /\ cso.size = (cso.size \div CsoSector) * CsoSector + (cso.size % CsoSector)
<1>1. csoIdxStart \in Nat /\ cso.blk \in Nat
  BY CsoConstants DEF CsoShape, CsoCovered
<1>2. CsoAt \in Nat /\ csoIdxStart <= CsoAt /\ CsoAt - csoIdxStart = cso.blk
  BY <1>1 DEF CsoAt
<1>3. cso.size \in Nat /\ cso.size > 0 /\ cso.start <= CsoTotal /\ cso.addr = cso.head
      /\ cso.start + cso.head = CsoAt * CsoSector /\ cso.head \in 0 .. CsoWanted
  BY DEF CsoHeadRead
<1>4. CsoWanted \in Nat /\ cso.start + CsoWanted <= CsoTotal /\ cso.start \in Nat
  BY <1>3, CsoWantedType DEF CsoShape
<1>5. cso.head \in Nat /\ cso.head <= CsoWanted
  BY <1>3, <1>4
<1>6. /\ cso.size \div CsoSector \in Nat /\ cso.size % CsoSector \in Nat
      /\ cso.size % CsoSector < CsoSector
      /\ cso.size = (cso.size \div CsoSector) * CsoSector + (cso.size % CsoSector)
  BY <1>3, CsoDivMod
<1>7. CsoAt * CsoSector \in Nat /\ (cso.size \div CsoSector) * CsoSector \in Nat
  BY <1>2, <1>6, CsoBytes
<1> QED BY <1>1, <1>2, <1>3, <1>4, <1>5, <1>6, <1>7, CsoConstants

\* The blocks that a request still needs are blocks of the image, and in the window.
LEMMA CsoReaches ==
    ASSUME CsoShape, CsoWindowRight, CsoCovered, CsoHeadRead, cso.head + cso.size <= CsoWanted
    PROVE  /\ CsoAt + cso.size \div CsoSector <= CsoTotalBlocks
           /\ cso.size % CsoSector # 0 => CsoAt + cso.size \div CsoSector < CsoTotalBlocks
           /\ \A k \in 0 .. cso.size \div CsoSector + 1 :
                CsoAt + k <= CsoTotalBlocks => csoIdx[cso.blk + k] = CsoEntry(CsoAt + k)
<1> DEFINE q == cso.size \div CsoSector
           r == cso.size % CsoSector
           n == CsoTotalBlocks
           end == cso.start + CsoWanted
<1>1. /\ CsoAt \in Nat /\ csoIdxStart \in Nat /\ csoIdxStart <= CsoAt /\ cso.blk \in Nat
      /\ CsoAt - csoIdxStart = cso.blk /\ q \in Nat /\ r \in Nat /\ q * CsoSector \in Nat
      /\ cso.size = q * CsoSector + r /\ CsoAt * CsoSector \in Nat
      /\ cso.start + cso.head = CsoAt * CsoSector /\ cso.start \in Nat /\ cso.head \in Nat
      /\ CsoWanted \in Nat /\ cso.start + CsoWanted <= CsoTotal /\ cso.start <= CsoTotal
      /\ n \in Nat /\ n * CsoSector = CsoTotal /\ CsoTotal \in Nat
  <2>1. n \in Nat /\ n * CsoSector = CsoTotal
    BY CsoConstants
  <2> QED BY <2>1, CsoStands
<1> HIDE DEF q, r, n
<1>2. (CsoAt + q) * CsoSector = CsoAt * CsoSector + q * CsoSector
  BY <1>1, CsoBytes
<1>3. (CsoAt + q) * CsoSector + r <= end /\ end <= CsoTotal /\ end \in Nat
      /\ (CsoAt + q) * CsoSector \in Nat
  BY <1>1, <1>2
<1>4. CsoAt + q <= n /\ (r # 0 => CsoAt + q < n)
  <2>1. n < CsoAt + q => n * CsoSector + CsoSector <= (CsoAt + q) * CsoSector
    BY <1>1, CsoBytes
  <2>2. CsoAt + q = n => n * CsoSector = (CsoAt + q) * CsoSector
    OBVIOUS
  <2>3. CsoSector \in Nat /\ CsoSector > 0
    BY CsoConstants
  <2> QED BY <1>1, <1>3, <2>1, <2>2, <2>3
<1>5. CsoAt + q <= end \div CsoSector /\ end \div CsoSector \in Nat
  <2>1. (CsoAt + q) * CsoSector <= end /\ CsoAt + q \in Nat
    BY <1>1, <1>3
  <2> QED BY <1>3, <2>1, CsoNotBehind, CsoDivMod
<1>6. ASSUME NEW k \in 0 .. q + 1, CsoAt + k <= n
      PROVE  csoIdx[cso.blk + k] = CsoEntry(CsoAt + k)
  <2>1. CsoAt + k \in 0 .. n /\ csoIdxStart <= CsoAt + k /\ CsoAt + k <= end \div CsoSector + 1
        /\ (CsoAt + k) - csoIdxStart = cso.blk + k
    BY <1>1, <1>5, <1>6
  <2>2. csoIdx[(CsoAt + k) - csoIdxStart] = CsoEntry(CsoAt + k)
    BY <1>1, <2>1, CsoCoveredBlock DEF n
  <2> QED BY <2>1, <2>2
<1> QED BY <1>4, <1>6 DEF q, r, n

LEMMA CsoLastKeeps ==
    ASSUME CsoInv, CsoLast
    PROVE  CsoInv'
<1>1. CsoShape /\ CsoWindowRight /\ cso.pc = "Last"
  BY DEF CsoInv, CsoLast
<1> DEFINE q == cso.size \div CsoSector
           r == cso.size % CsoSector
           main == cso.size - r
           k == IF r = 0 THEN q - 1 ELSE q
           b == CsoAt + k
           done == [cso EXCEPT !.pc = IF main = 0 THEN "Done" ELSE "Main",
                          !.answer = IF main = 0 THEN cso.head + r ELSE @,
                          !.size = main, !.tail = r]
<1>2. CASE cso.failed
  <2>1. CsoOneBlock(cso.addr + main, CsoTailBlock, r, 0, done)
    BY DEF CsoLast
  <2> HIDE DEF main
  <2>2. done.failed = TRUE /\ DOMAIN done = DOMAIN cso /\ done.pc \in {"Done", "Main"}
        /\ done.start = cso.start /\ done.len = cso.len /\ done.lost = cso.lost
    BY <1>1, <1>2 DEF CsoShape
  <2> HIDE DEF done, r
  <2>3. /\ UNCHANGED <<csoIdx, csoIdxStart, csoSpoilt>>
        /\ DOMAIN csoOut' = DOMAIN csoOut /\ DOMAIN csoBlockBuf' = DOMAIN csoBlockBuf
        /\ \E ok \in BOOLEAN :
              \/ cso' = [done EXCEPT !.failed = @ \/ ~ok]
              \/ cso' = [cso EXCEPT !.pc = "Done", !.answer = CsoError, !.failed = @ \/ ~ok]
    BY <2>1, <1>1 DEF CsoOneBlock, CsoDecompress, CsoReadInto
  <2>4. PICK ok \in BOOLEAN :
              \/ cso' = [done EXCEPT !.failed = @ \/ ~ok]
              \/ cso' = [cso EXCEPT !.pc = "Done", !.answer = CsoError, !.failed = @ \/ ~ok]
    BY <2>3
  <2>5. /\ DOMAIN cso' = DOMAIN cso /\ cso'.pc \in {"Done", "Main"} /\ cso'.failed = TRUE
        /\ cso'.lost \in BOOLEAN /\ cso'.start = cso.start /\ cso'.len = cso.len
    <3>1. CASE cso' = [done EXCEPT !.failed = @ \/ ~ok]
      BY <1>1, <2>2, <3>1 DEF CsoShape
    <3>2. CASE cso' = [cso EXCEPT !.pc = "Done", !.answer = CsoError, !.failed = @ \/ ~ok]
      BY <1>1, <1>2, <3>2 DEF CsoShape
    <3> QED BY <2>4, <3>1, <3>2
  <2> QED BY <1>1, <2>3, <2>5, CsoFailedKeeps
<1>3. CASE ~cso.failed
  <2>1. /\ CsoCovered /\ CsoHeadRead /\ cso.lost = FALSE /\ cso.failed = FALSE
        /\ cso.head + cso.size = CsoWanted /\ cso.i = 0
    BY <1>1, <1>3 DEF CsoInv, CsoProgress, CsoShape
  <2>2. /\ CsoAt \in Nat /\ cso.blk \in Nat
        /\ cso.start \in Nat /\ CsoWanted \in Nat /\ cso.head \in Nat /\ cso.addr = cso.head
        /\ cso.size \in Nat /\ cso.size > 0 /\ cso.head <= CsoWanted
        /\ cso.start + CsoWanted <= CsoTotal /\ cso.start <= CsoTotal /\ CsoTotal \in Nat
        /\ cso.start + cso.head = CsoAt * CsoSector /\ CsoAt * CsoSector \in Nat
        /\ q \in Nat /\ r \in Nat /\ q * CsoSector \in Nat /\ cso.size = q * CsoSector + r
        /\ CsoSector \in Nat /\ CsoSector > 0 /\ r < CsoSector /\ CsoTotalBlocks \in Nat
    BY <1>1, <2>1, CsoStands
  <2>3. /\ CsoAt + q <= CsoTotalBlocks /\ (r # 0 => CsoAt + q < CsoTotalBlocks)
        /\ \A j \in 0 .. q + 1 :
             CsoAt + j <= CsoTotalBlocks => csoIdx[cso.blk + j] = CsoEntry(CsoAt + j)
    <3>1. cso.head + cso.size <= CsoWanted
      BY <2>1, <2>2
    <3> QED BY <1>1, <2>1, <3>1, CsoReaches
  <2>4. CsoTailBlock = cso.blk + k
    <3>1. CsoTailBlock = cso.blk + q - (IF r = 0 THEN 1 ELSE 0)
      BY DEF CsoTailBlock
    <3>2. q \in Nat /\ cso.blk \in Nat
      BY <2>2
    <3> HIDE DEF q, r
    <3> QED BY <3>1, <3>2
  <2>5. CsoOneBlock(cso.head + main, cso.blk + k, r, 0, done)
    BY <2>2, <2>4 DEF CsoLast
  <2>6. main = q * CsoSector /\ main \in Nat /\ cso.head + main \in Nat
        /\ cso.head + main + r = CsoWanted
    <3>1. cso.size = q * CsoSector + r /\ q * CsoSector \in Nat /\ r \in Nat
          /\ cso.head \in Nat /\ cso.head + cso.size = CsoWanted
      BY <2>1, <2>2
    <3> HIDE DEF q, r
    <3> QED BY <3>1
  <2>7. r = 0 => q >= 1
    <3>1. cso.size = q * CsoSector + r /\ q \in Nat /\ r \in Nat /\ cso.size > 0
      BY <2>2
    <3>2. 0 * CsoSector = 0
      BY <2>2
    <3> HIDE DEF q, r
    <3> QED BY <3>1, <3>2
  <2> HIDE DEF q, r, main
  <2>8. k \in Nat /\ k \in 0 .. q + 1 /\ k + 1 \in 0 .. q + 1 /\ b \in Nat /\ b < CsoTotalBlocks
        /\ CsoAt + (k + 1) = b + 1 /\ cso.blk + (k + 1) = (cso.blk + k) + 1
    BY <2>2, <2>3, <2>7
  <2>9. b \in CsoBlock
    BY <2>8, CsoConstants DEF CsoBlock
  <2>10. csoIdx[cso.blk + k] = CsoEntry(b) /\ csoIdx[(cso.blk + k) + 1] = CsoEntry(b + 1)
    BY <2>2, <2>3, <2>8
  <2>11. /\ done.failed = FALSE /\ done.lost = FALSE /\ DOMAIN done = DOMAIN cso
         /\ done.pc = IF main = 0 THEN "Done" ELSE "Main"
         /\ main = 0 => done.answer = cso.head + r
         /\ done.size = main /\ done.tail = r /\ done.head = cso.head /\ done.addr = cso.addr
         /\ done.blk = cso.blk /\ done.i = cso.i /\ done.start = cso.start /\ done.len = cso.len
    BY <1>1, <2>1 DEF CsoShape
  <2> DEFINE dst == cso.head + main
             at == cso.blk + k
  <2> HIDE DEF done, k, b
  <2>12. CsoShape /\ dst \in Nat /\ r \in Nat /\ 0 \in Nat /\ 0 + r <= CsoSector /\ b \in CsoBlock
         /\ CsoOneBlock(dst, at, r, 0, done)
         /\ csoIdx[at] = CsoEntry(b) /\ csoIdx[at + 1] = CsoEntry(b + 1)
    BY <1>1, <2>2, <2>5, <2>6, <2>9, <2>10
  <2> HIDE DEF dst, at
  <2>13. /\ UNCHANGED <<csoIdx, csoIdxStart, csoSpoilt>>
         /\ DOMAIN csoOut' = DOMAIN csoOut /\ DOMAIN csoBlockBuf' = DOMAIN csoBlockBuf
    BY ONLY <2>12, CsoOneBlockFrame
  <2>14. \/ /\ cso' = [done EXCEPT !.failed = @ \/ ~TRUE]
            /\ \A p \in DOMAIN csoOut :
                  csoOut'[p] = IF p < dst \/ p >= dst + r THEN csoOut[p]
                               ELSE b * CsoSector + 0 + (p - dst)
         \/ cso' = [done EXCEPT !.failed = @ \/ ~FALSE]
         \/ cso' = [cso EXCEPT !.pc = "Done", !.answer = CsoError, !.failed = @ \/ ~FALSE]
    BY ONLY <2>12, CsoOneBlockRight, Z3
  <2>15. CASE cso' = [done EXCEPT !.failed = @ \/ ~FALSE]
    <3>1. /\ DOMAIN cso' = DOMAIN cso /\ cso'.pc \in {"Done", "Main"} /\ cso'.failed = TRUE
          /\ cso'.lost \in BOOLEAN /\ cso'.start = cso.start /\ cso'.len = cso.len
      BY <1>1, <2>11, <2>15 DEF CsoShape
    <3> QED BY <1>1, <2>13, <3>1, CsoFailedKeeps
  <2>16. CASE cso' = [cso EXCEPT !.pc = "Done", !.answer = CsoError, !.failed = @ \/ ~FALSE]
    <3>1. /\ DOMAIN cso' = DOMAIN cso /\ cso'.pc \in {"Done", "Main"} /\ cso'.failed = TRUE
          /\ cso'.lost \in BOOLEAN /\ cso'.start = cso.start /\ cso'.len = cso.len
      BY <1>1, <2>1, <2>16 DEF CsoShape
    <3> QED BY <1>1, <2>13, <3>1, CsoFailedKeeps
  <2>17. CASE /\ cso' = [done EXCEPT !.failed = @ \/ ~TRUE]
              /\ \A p \in DOMAIN csoOut :
                    csoOut'[p] = IF p < dst \/ p >= dst + r THEN csoOut[p]
                                 ELSE b * CsoSector + 0 + (p - dst)
    <3>1. /\ DOMAIN cso' = DOMAIN cso /\ cso'.failed = FALSE /\ cso'.lost = FALSE
          /\ cso'.pc = IF main = 0 THEN "Done" ELSE "Main"
          /\ main = 0 => cso'.answer = cso.head + r
          /\ cso'.size = main /\ cso'.tail = r /\ cso'.head = cso.head /\ cso'.addr = cso.head
          /\ cso'.blk = cso.blk /\ cso'.i = 0 /\ cso'.start = cso.start /\ cso'.len = cso.len
      BY <1>1, <2>1, <2>2, <2>11, <2>17 DEF CsoShape
    <3>2. CsoGoesOn(cso'.pc) /\ cso'.pc \in CsoPcs
      BY <2>1, <2>13, <3>1 DEF CsoGoesOn, CsoPcs
    <3>3. CsoShape' /\ CsoWindowRight' /\ CsoWanted' = CsoWanted
      BY <1>1, <3>2, CsoGoesOnKeeps
    <3>4. dst = cso.head + main /\ dst \in Nat /\ dst + r = CsoWanted
      BY <2>6, <2>12 DEF dst
    <3>5. ASSUME NEW p \in 0 .. cso.head - 1 PROVE csoOut'[p] = cso.start + p
      <4>1. p \in Nat /\ p < cso.head
        BY <2>2
      <4>2. p < dst /\ p <= CsoTotal - 1
        BY <2>2, <2>6, <3>4, <4>1
      <4>3. p \in DOMAIN csoOut
        BY <1>1, <2>2, <4>1, <4>2 DEF CsoShape
      <4>4. csoOut'[p] = csoOut[p]
        BY <2>17, <4>2, <4>3
      <4> QED BY <2>1, <4>4 DEF CsoHeadRead, CsoHas
    <3>6. ASSUME NEW p \in dst .. CsoWanted - 1 PROVE csoOut'[p] = cso.start + p
      <4>0. p \in Int /\ dst <= p /\ p <= CsoWanted - 1 /\ CsoWanted \in Nat
        BY <2>2, <3>4
      <4>1. p \in DOMAIN csoOut /\ ~(p < dst) /\ ~(p >= dst + r) /\ p \in Nat /\ r # 0
        <5>1. ~(p < dst) /\ ~(p >= dst + r) /\ p \in Nat /\ r # 0 /\ p <= CsoTotal - 1
          BY <2>2, <3>4, <4>0
        <5> QED BY <1>1, <2>2, <5>1 DEF CsoShape
      <4>2. csoOut'[p] = b * CsoSector + 0 + (p - dst)
        BY <2>17, <4>1
      <4>3. b = CsoAt + q
        BY <4>1 DEF b, k
      <4>4. (CsoAt + q) * CsoSector = CsoAt * CsoSector + q * CsoSector
        BY <2>2, CsoBytes
      <4>5. b * CsoSector = cso.start + cso.head + main
        BY <2>2, <2>6, <4>3, <4>4
      <4> QED BY <2>2, <2>6, <3>4, <4>1, <4>2, <4>5
    <3>7. ASSUME NEW p \in CsoWanted .. CsoTotal - 1 PROVE csoOut'[p] = CsoJunk
      <4>1. p \in DOMAIN csoOut /\ p >= dst + r
        BY <1>1, <2>2, <3>4 DEF CsoShape
      <4>2. csoOut'[p] = csoOut[p]
        BY <2>17, <4>1
      <4> QED BY <2>1, <4>2 DEF CsoHeadRead, CsoHasNot
    <3>8. CASE main = 0
      <4>1. (\A p \in 0 .. CsoWanted' - 1 : CsoHas(p)') /\ (\A p \in CsoWanted' .. CsoTotal - 1 : CsoHasNot(p)')
        <5>1. \A p \in 0 .. CsoWanted - 1 : p \in 0 .. cso.head - 1 \/ p \in dst .. CsoWanted - 1
          BY <2>2, <3>4, <3>8
        <5> QED BY <3>1, <3>3, <3>5, <3>6, <3>7, <5>1 DEF CsoHas, CsoHasNot
      <4>2. cso'.pc = "Done" /\ cso'.start <= CsoTotal /\ cso'.answer = CsoWanted'
        BY <2>2, <3>1, <3>3, <3>4, <3>8
      <4>3. CsoProgress' /\ CsoReadRight'
        BY <3>3, <4>1, <4>2, CsoReadDoneThen
      <4> QED BY <3>3, <4>3 DEF CsoInv
    <3>9. CASE main # 0
      <4>1. cso'.pc = "Main" /\ CsoAt' = CsoAt
        BY <2>13, <3>1, <3>9 DEF CsoAt
      <4>2. CsoCovered'
        BY <2>1, <2>13, <3>1, <3>3 DEF CsoCovered
      <4>3. CsoHeadRead'
        <5>1. cso'.start <= CsoTotal /\ cso'.head \in 0 .. CsoWanted' /\ cso'.addr = cso'.head
              /\ cso'.size \in Nat \ {0} /\ cso'.start + cso'.head = CsoAt' * CsoSector
          BY <2>2, <2>6, <3>1, <3>3, <3>9, <4>1
        <5>2. (\A p \in 0 .. cso'.head - 1 : CsoHas(p)') /\ (\A p \in CsoWanted' .. CsoTotal - 1 : CsoHasNot(p)')
          BY <3>1, <3>3, <3>5, <3>7 DEF CsoHas, CsoHasNot
        <5> QED BY <5>1, <5>2 DEF CsoHeadRead
      <4>4. CsoTailRead'
        <5>1. main % CsoSector = 0
          <6>1. main = q * CsoSector + 0 /\ 0 < CsoSector /\ 0 \in Nat
            BY <2>2, <2>6
          <6> QED BY <2>2, <2>6, <6>1, CsoSectorOf
        <5>2. \A p \in dst .. CsoWanted - 1 : CsoHas(p)'
          BY <3>1, <3>6 DEF CsoHas
        <5> QED BY <2>2, <2>6, <3>1, <3>3, <3>4, <5>1, <5>2 DEF CsoTailRead
      <4>5. CsoProgress' /\ CsoReadRight'
        BY <3>1, <4>1, <4>2, <4>3, <4>4 DEF CsoProgress, CsoReadRight
      <4> QED BY <3>3, <4>5 DEF CsoInv
    <3> QED BY <3>8, <3>9
  <2> QED BY <2>14, <2>15, <2>16, <2>17
<1> QED BY <1>2, <1>3

\* Where the next unit to decompress is, when k of the blocks in between are.
CsoLeft(k) == CsoMiddle * CsoSector - (CsoOffset[CsoAt + CsoMiddle] - CsoOffset[CsoAt + k])

\* The blocks in between are stored behind where they belong: none is larger
\* than the sector it is decompressed to.
LEMMA CsoMiddleStands ==
    ASSUME CsoShape, CsoWindowRight, CsoCovered, CsoHeadRead, CsoTailRead
    PROVE  /\ CsoMiddle \in Nat /\ cso.size = CsoMiddle * CsoSector /\ CsoMiddle * CsoSector \in Nat
           /\ CsoAt \in Nat /\ CsoAt * CsoSector \in Nat /\ cso.blk \in Nat
           /\ cso.start \in Nat /\ CsoWanted \in Nat /\ CsoTotal \in Nat
           /\ cso.head \in Nat /\ cso.addr = cso.head /\ cso.tail \in Nat /\ cso.size > 0
           /\ cso.start <= CsoTotal /\ cso.start + CsoWanted <= CsoTotal
           /\ cso.head + cso.size + cso.tail = CsoWanted /\ cso.start + cso.head = CsoAt * CsoSector
           /\ CsoSector \in Nat /\ CsoSector > 0
           /\ \A k \in 0 .. CsoMiddle :
                /\ csoIdx[cso.blk + k] = CsoEntry(CsoAt + k)
                /\ CsoAt + k \in 0 .. CsoTotalBlocks /\ CsoOffset[CsoAt + k] \in Nat
                /\ CsoOffset[CsoAt + k] <= CsoOffset[CsoAt + CsoMiddle]
                /\ k * CsoSector \in Nat /\ CsoLeft(k) \in Nat
                /\ k * CsoSector <= CsoLeft(k) /\ CsoLeft(k) <= CsoMiddle * CsoSector
           /\ CsoOffset[CsoTotalBlocks] \in Nat
           /\ CsoOffset[CsoAt + CsoMiddle] <= CsoOffset[CsoTotalBlocks]
<1> DEFINE q == CsoMiddle
<1>1. /\ CsoAt \in Nat /\ CsoAt * CsoSector \in Nat /\ cso.blk \in Nat
      /\ cso.start \in Nat /\ CsoWanted \in Nat /\ CsoTotal \in Nat
      /\ cso.head \in Nat /\ cso.addr = cso.head /\ cso.size \in Nat /\ cso.size > 0
      /\ cso.start <= CsoTotal /\ cso.start + CsoWanted <= CsoTotal
      /\ cso.start + cso.head = CsoAt * CsoSector
      /\ CsoSector \in Nat /\ CsoSector > 0 /\ q \in Nat /\ q * CsoSector \in Nat
      /\ cso.size = q * CsoSector + (cso.size % CsoSector) /\ CsoTotalBlocks \in Nat
  BY CsoStands DEF CsoMiddle
<1>2. /\ cso.size % CsoSector = 0 /\ cso.tail \in Nat /\ cso.head + cso.size + cso.tail = CsoWanted
  BY DEF CsoTailRead
<1>3. cso.size = q * CsoSector
  BY <1>1, <1>2
<1>4. CsoAt + q <= CsoTotalBlocks
      /\ \A k \in 0 .. q + 1 : CsoAt + k <= CsoTotalBlocks => csoIdx[cso.blk + k] = CsoEntry(CsoAt + k)
  <2>1. /\ cso.head \in Nat /\ cso.size \in Nat /\ cso.tail \in Nat
        /\ cso.head + cso.size + cso.tail = CsoWanted
    BY <1>1, <1>2
  <2>2. cso.head + cso.size <= CsoWanted
    BY ONLY <2>1
  <2> QED BY <2>2, CsoReaches DEF CsoMiddle
<1> HIDE DEF q
<1>5. ASSUME NEW k \in 0 .. q
      PROVE  /\ csoIdx[cso.blk + k] = CsoEntry(CsoAt + k)
             /\ CsoAt + k \in 0 .. CsoTotalBlocks /\ CsoOffset[CsoAt + k] \in Nat
             /\ CsoOffset[CsoAt + k] <= CsoOffset[CsoAt + q]
             /\ k * CsoSector \in Nat /\ CsoLeft(k) \in Nat
             /\ k * CsoSector <= CsoLeft(k) /\ CsoLeft(k) <= q * CsoSector
  <2>1. k \in Nat /\ k <= q /\ k \in 0 .. q + 1 /\ q - k \in Nat /\ k + (q - k) = q
    BY <1>1
  <2>2. CsoAt + k \in 0 .. CsoTotalBlocks /\ CsoAt + q \in 0 .. CsoTotalBlocks /\ CsoAt + k <= CsoAt + q
        /\ CsoAt + k <= CsoTotalBlocks /\ (CsoAt + q) - (CsoAt + k) = q - k
    BY <1>1, <1>4, <2>1
  <2>3. csoIdx[cso.blk + k] = CsoEntry(CsoAt + k)
    BY <1>4, <2>1, <2>2
  <2>4. /\ CsoOffset[CsoAt + k] <= CsoOffset[CsoAt + q]
        /\ CsoOffset[CsoAt + q] - CsoOffset[CsoAt + k] <= (q - k) * CsoSector
    BY <2>2, CsoOrder
  <2>5. CsoOffset[CsoAt + k] \in Nat /\ CsoOffset[CsoAt + q] \in Nat
    BY <2>2, CsoConstants
  <2>6. /\ k * CsoSector \in Nat /\ (q - k) * CsoSector \in Nat
        /\ (k + (q - k)) * CsoSector = k * CsoSector + (q - k) * CsoSector
    BY <2>1, CsoBytes
  <2>7. q * CsoSector = k * CsoSector + (q - k) * CsoSector
    BY <2>1, <2>6
  <2>8. CsoLeft(k) = q * CsoSector - (CsoOffset[CsoAt + q] - CsoOffset[CsoAt + k])
    BY DEF CsoLeft, q
  <2>9. CsoLeft(k) \in Nat /\ k * CsoSector <= CsoLeft(k) /\ CsoLeft(k) <= q * CsoSector
    BY <1>1, <2>4, <2>5, <2>6, <2>7, <2>8
  <2> QED BY <2>2, <2>3, <2>4, <2>5, <2>6, <2>9
<1>6. CsoOffset[CsoTotalBlocks] \in Nat /\ CsoOffset[CsoAt + q] <= CsoOffset[CsoTotalBlocks]
  <2>1. CsoAt + q \in 0 .. CsoTotalBlocks /\ CsoTotalBlocks \in 0 .. CsoTotalBlocks
    BY <1>1, <1>4
  <2> QED BY <1>4, <2>1, CsoOrder, CsoConstants
<1> QED BY <1>1, <1>2, <1>3, <1>5, <1>6 DEF q

LEMMA CsoMainKeeps ==
    ASSUME CsoInv, CsoMain
    PROVE  CsoInv'
<1>1. CsoShape /\ CsoWindowRight /\ cso.pc = "Main"
  BY DEF CsoInv, CsoMain
<1> DEFINE q == cso.size \div CsoSector
           off == csoIdx[cso.blk].off
           size == csoIdx[cso.blk + q].off - off
           src == q * CsoSector - size
<1>2. /\ UNCHANGED <<csoIdx, csoIdxStart, csoBlockBuf, csoSpoilt>>
      /\ \/ /\ csoOut' = CsoReadInto(csoOut, cso.addr + src, size, off)
            /\ cso' = [cso EXCEPT !.pc = "Loop", !.src = src]
         \/ /\ cso' = [cso EXCEPT !.pc = "Loop", !.src = src, !.failed = TRUE]
            /\ UNCHANGED csoOut
  BY DEF CsoMain, CsoShifted
<1> HIDE DEF q, off, size, src
<1>3. DOMAIN csoOut' = DOMAIN csoOut
  BY <1>2 DEF CsoReadInto
<1>4. /\ DOMAIN cso' = DOMAIN cso /\ cso'.pc = "Loop" /\ cso'.failed \in {cso.failed, TRUE}
      /\ cso'.lost = cso.lost /\ cso'.start = cso.start /\ cso'.len = cso.len
  BY <1>1, <1>2 DEF CsoShape
<1>5. CASE cso'.failed
  <2>1. cso'.failed = TRUE /\ cso'.lost \in BOOLEAN
    BY <1>1, <1>4, <1>5 DEF CsoShape
  <2> QED BY <1>1, <1>2, <1>3, <1>4, <2>1, CsoFailedKeeps
<1>6. CASE ~cso'.failed
  <2>1. /\ ~cso.failed /\ csoOut' = CsoReadInto(csoOut, cso.addr + src, size, off)
        /\ cso' = [cso EXCEPT !.pc = "Loop", !.src = src]
    BY <1>1, <1>2, <1>4, <1>6 DEF CsoShape
  <2>2. CsoCovered /\ CsoHeadRead /\ CsoTailRead /\ cso.i = 0 /\ ~cso.lost
    BY <1>1, <2>1 DEF CsoInv, CsoProgress
  <2>3. /\ CsoMiddle \in Nat /\ cso.size = CsoMiddle * CsoSector /\ CsoMiddle * CsoSector \in Nat
        /\ CsoAt \in Nat /\ cso.blk \in Nat
        /\ cso.start \in Nat /\ CsoWanted \in Nat /\ CsoTotal \in Nat
        /\ cso.head \in Nat /\ cso.addr = cso.head /\ cso.tail \in Nat
        /\ cso.start + CsoWanted <= CsoTotal
        /\ cso.head + cso.size + cso.tail = CsoWanted
        /\ \A k \in 0 .. CsoMiddle :
             /\ csoIdx[cso.blk + k] = CsoEntry(CsoAt + k)
             /\ CsoAt + k \in 0 .. CsoTotalBlocks /\ CsoOffset[CsoAt + k] \in Nat
             /\ CsoOffset[CsoAt + k] <= CsoOffset[CsoAt + CsoMiddle]
             /\ k * CsoSector \in Nat /\ CsoLeft(k) \in Nat
             /\ k * CsoSector <= CsoLeft(k) /\ CsoLeft(k) <= CsoMiddle * CsoSector
        /\ CsoOffset[CsoTotalBlocks] \in Nat
        /\ CsoOffset[CsoAt + CsoMiddle] <= CsoOffset[CsoTotalBlocks]
    BY <1>1, <2>2, CsoMiddleStands
  <2>4. q = CsoMiddle
    BY DEF q, CsoMiddle
  <2>5. 0 \in 0 .. CsoMiddle /\ CsoMiddle \in 0 .. CsoMiddle /\ cso.blk + 0 = cso.blk /\ CsoAt + 0 = CsoAt
    BY <2>3
  <2>6. off = CsoOffset[CsoAt] /\ size = CsoOffset[CsoAt + CsoMiddle] - CsoOffset[CsoAt]
        /\ src = CsoLeft(0) /\ src \in Nat /\ src <= cso.size /\ src + size = cso.size
        /\ off \in Nat /\ size \in Nat /\ off + size <= CsoOffset[CsoTotalBlocks]
    <3>1. csoIdx[cso.blk] = CsoEntry(CsoAt) /\ csoIdx[cso.blk + CsoMiddle] = CsoEntry(CsoAt + CsoMiddle)
          /\ CsoOffset[CsoAt] \in Nat /\ CsoOffset[CsoAt + CsoMiddle] \in Nat
          /\ CsoOffset[CsoAt] <= CsoOffset[CsoAt + CsoMiddle]
          /\ CsoLeft(0) \in Nat /\ CsoLeft(0) <= CsoMiddle * CsoSector
      BY <2>3, <2>5
    <3>2. off = CsoOffset[CsoAt] /\ size = CsoOffset[CsoAt + CsoMiddle] - CsoOffset[CsoAt]
      BY <2>4, <3>1 DEF off, size, CsoEntry
    <3>3. src = CsoLeft(0)
      BY <2>4, <2>5, <3>2 DEF src, CsoLeft
    <3>4. CsoLeft(0) = CsoMiddle * CsoSector - (CsoOffset[CsoAt + CsoMiddle] - CsoOffset[CsoAt])
      BY <2>5 DEF CsoLeft
    <3> HIDE DEF CsoMiddle
    <3> QED BY <2>3, <3>1, <3>2, <3>3, <3>4
  <2>7. ASSUME NEW p \in DOMAIN csoOut
        PROVE  csoOut'[p] = IF p >= cso.head + src /\ p < cso.head + cso.size
                            THEN CsoRaw(off + (p - (cso.head + src))) ELSE csoOut[p]
    <3>1. p \in Nat
      BY <1>1, <2>3 DEF CsoShape
    <3>2. /\ ~(size < 0) /\ (cso.head + src) + size = cso.head + cso.size
          /\ p >= cso.head + src /\ p < cso.head + cso.size =>
                off + (p - (cso.head + src)) < CsoOffset[CsoTotalBlocks]
      BY <2>3, <2>6, <3>1
    <3>3. csoOut'[p] = IF p >= cso.head + src /\ (size < 0 \/ p < (cso.head + src) + size)
                          /\ off + (p - (cso.head + src)) < CsoOffset[CsoTotalBlocks]
                       THEN CsoRaw(off + (p - (cso.head + src))) ELSE csoOut[p]
      BY <2>1, <2>3 DEF CsoReadInto
    <3> QED BY <3>2, <3>3
  <2>8. /\ cso'.size = cso.size /\ cso'.head = cso.head /\ cso'.tail = cso.tail /\ cso'.i = 0
        /\ cso'.src = src /\ cso'.addr = cso.addr /\ cso'.blk = cso.blk
    BY <1>1, <2>1, <2>2 DEF CsoShape
  <2>9. CsoShape' /\ CsoWindowRight' /\ CsoWanted' = CsoWanted
    <3>1. CsoGoesOn("Loop") /\ "Loop" \in CsoPcs
      BY <1>2, <1>3, <1>4, <1>6, <2>1 DEF CsoGoesOn, CsoPcs
    <3> QED BY <1>1, <3>1, CsoGoesOnKeeps
  <2>10. CsoAt' = CsoAt /\ CsoMiddle' = CsoMiddle
    BY <1>2, <2>8 DEF CsoAt, CsoMiddle
  <2>11. \A p \in 0 .. CsoTotal - 1 : p \in DOMAIN csoOut
    BY <1>1 DEF CsoShape
  <2>12. CsoCovered'
    BY <1>2, <1>4, <2>2, <2>8, <2>9 DEF CsoCovered
  <2>13. CsoHeadRead'
    <3>1. \A p \in 0 .. cso.head - 1 : csoOut'[p] = csoOut[p]
      <4> TAKE p \in 0 .. cso.head - 1
      <4>1. p \in 0 .. CsoTotal - 1 /\ ~(p >= cso.head + src)
        BY <2>3, <2>6
      <4> QED BY <2>7, <2>11, <4>1
    <3>2. \A p \in CsoWanted .. CsoTotal - 1 : csoOut'[p] = csoOut[p]
      <4> TAKE p \in CsoWanted .. CsoTotal - 1
      <4>1. p \in 0 .. CsoTotal - 1 /\ ~(p < cso.head + cso.size)
        BY <2>3
      <4> QED BY <2>7, <2>11, <4>1
    <3>3. (\A p \in 0 .. cso.head - 1 : CsoHas(p)') /\ (\A p \in CsoWanted .. CsoTotal - 1 : CsoHasNot(p)')
      BY <1>4, <2>2, <3>1, <3>2 DEF CsoHeadRead, CsoHas, CsoHasNot
    <3>4. /\ cso'.start <= CsoTotal /\ cso'.head \in 0 .. CsoWanted' /\ cso'.addr = cso'.head
          /\ cso'.start + cso'.head = CsoAt' * CsoSector /\ cso'.size \in Nat \ {0}
      BY <1>4, <2>2, <2>8, <2>9, <2>10 DEF CsoHeadRead
    <3> QED BY <2>8, <2>9, <3>3, <3>4 DEF CsoHeadRead
  <2>14. CsoTailRead'
    <3>1. \A p \in cso.head + cso.size .. CsoWanted - 1 : csoOut'[p] = csoOut[p]
      <4> TAKE p \in cso.head + cso.size .. CsoWanted - 1
      <4>1. p \in 0 .. CsoTotal - 1 /\ ~(p < cso.head + cso.size)
        BY <2>3
      <4> QED BY <2>7, <2>11, <4>1
    <3>2. \A p \in cso.head + cso.size .. CsoWanted - 1 : CsoHas(p)'
      BY <1>4, <2>2, <3>1 DEF CsoTailRead, CsoHas
    <3> QED BY <2>2, <2>8, <2>9, <3>2 DEF CsoTailRead
  <2>15. CsoPartRead'
    <3>1. 0 * CsoSector = 0
      BY CsoConstants
    <3>2. \A p \in 0 .. cso'.i * CsoSector - 1 : CsoHas(cso.addr + p)'
      BY <2>8, <3>1
    <3>3. cso'.src = CsoMiddle * CsoSector - (CsoOffset[CsoAt + CsoMiddle] - CsoOffset[CsoAt + 0])
      BY <2>6, <2>8 DEF CsoLeft
    <3>4. ASSUME NEW p \in src .. cso.size - 1
          PROVE  csoOut'[cso.addr + p] = CsoRaw(CsoOffset[CsoAt + 0] + (p - src))
      <4>1. cso.head + p \in 0 .. CsoTotal - 1 /\ cso.head + p >= cso.head + src
            /\ cso.head + p < cso.head + cso.size /\ (cso.head + p) - (cso.head + src) = p - src
        BY <2>3, <2>6
      <4>2. csoOut'[cso.head + p] = CsoRaw(off + ((cso.head + p) - (cso.head + src)))
        BY <2>7, <2>11, <4>1
      <4> QED BY <2>3, <2>5, <2>6, <4>1, <4>2
    <3> QED BY <2>5, <2>8, <2>10, <3>2, <3>3, <3>4 DEF CsoPartRead
  <2>16. CsoProgress' /\ CsoReadRight'
    <3>1. ~cso'.lost
      BY <1>4, <2>2
    <3> QED BY <1>4, <2>12, <2>13, <2>14, <2>15, <3>1 DEF CsoProgress, CsoReadRight
  <2> QED BY <2>9, <2>16 DEF CsoInv
<1> QED BY <1>5, <1>6

LEMMA CsoLoopKeeps ==
    ASSUME CsoInv, CsoLoop
    PROVE  CsoInv'
<1>1. CsoShape /\ CsoWindowRight /\ cso.pc = "Loop"
  BY DEF CsoInv, CsoLoop
<1> DEFINE e == csoIdx[cso.blk + cso.i]
           dst == cso.addr + cso.i * CsoSector
           p0 == cso.addr + cso.src
<1>2. /\ UNCHANGED <<csoIdx, csoIdxStart, csoBlockBuf, csoFails, csoSpoilt>>
      /\ cso.i < CsoMiddle
      /\ \/ /\ CsoDecompresses(csoOut, p0, e)
            /\ csoOut' = CsoDecompress(dst, csoOut, p0, CsoSector, e, 0)
            /\ cso' = [cso EXCEPT !.i = @ + 1,
                                  !.src = @ + csoIdx[cso.blk + cso.i + 1].off - e.off]
         \/ /\ ~CsoDecompresses(csoOut, p0, e)
            /\ cso' = [cso EXCEPT !.pc = "Done", !.answer = CsoError]
            /\ UNCHANGED csoOut
  BY DEF CsoLoop, CsoMiddle, CsoReturn
<1> HIDE DEF e, dst, p0
<1>3. CASE cso.failed
  <2>1. /\ DOMAIN cso' = DOMAIN cso /\ cso'.pc \in {"Loop", "Done"} /\ cso'.failed = TRUE
        /\ cso'.lost \in BOOLEAN /\ cso'.start = cso.start /\ cso'.len = cso.len
    <3>1. CASE cso' = [cso EXCEPT !.i = @ + 1,
                                  !.src = @ + csoIdx[cso.blk + cso.i + 1].off - e.off]
      BY <1>1, <1>3, <3>1 DEF CsoShape
    <3>2. CASE cso' = [cso EXCEPT !.pc = "Done", !.answer = CsoError]
      BY <1>1, <1>3, <3>2 DEF CsoShape
    <3> QED BY <1>2, <3>1, <3>2
  <2>2. DOMAIN csoOut' = DOMAIN csoOut
    BY <1>2 DEF CsoDecompress
  <2> QED BY <1>1, <1>2, <2>1, <2>2, CsoFailedKeeps
<1>4. CASE ~cso.failed
  <2>1. CsoCovered /\ CsoHeadRead /\ CsoTailRead /\ CsoPartRead /\ ~cso.lost
    BY <1>1, <1>4 DEF CsoInv, CsoProgress
  <2> DEFINE b == CsoAt + cso.i
             q == CsoMiddle
             end == CsoOffset[CsoAt + CsoMiddle]
             done == cso.i * CsoSector
  <2>2. /\ q \in Nat /\ cso.size = q * CsoSector /\ q * CsoSector \in Nat
        /\ CsoAt \in Nat /\ CsoAt * CsoSector \in Nat /\ cso.blk \in Nat
        /\ cso.start \in Nat /\ CsoWanted \in Nat /\ CsoTotal \in Nat
        /\ cso.head \in Nat /\ cso.addr = cso.head /\ cso.tail \in Nat
        /\ cso.start + CsoWanted <= CsoTotal
        /\ cso.head + cso.size + cso.tail = CsoWanted /\ cso.start + cso.head = CsoAt * CsoSector
        /\ CsoSector \in Nat /\ CsoSector > 0
        /\ \A k \in 0 .. q :
             /\ csoIdx[cso.blk + k] = CsoEntry(CsoAt + k)
             /\ CsoAt + k \in 0 .. CsoTotalBlocks /\ CsoOffset[CsoAt + k] \in Nat
             /\ CsoOffset[CsoAt + k] <= CsoOffset[CsoAt + q]
             /\ k * CsoSector \in Nat /\ CsoLeft(k) \in Nat
             /\ k * CsoSector <= CsoLeft(k) /\ CsoLeft(k) <= q * CsoSector
    BY <1>1, <2>1, CsoMiddleStands
  <2>3. cso.i \in 0 .. q /\ cso.src = CsoLeft(cso.i)
    BY <2>1 DEF CsoPartRead, CsoLeft
  <2> HIDE DEF q
  <2>4. /\ cso.i \in Nat /\ cso.i < q /\ cso.i + 1 \in 0 .. q /\ cso.i \in 0 .. q /\ q \in 0 .. q
        /\ CsoAt + (cso.i + 1) = b + 1 /\ cso.blk + (cso.i + 1) = (cso.blk + cso.i) + 1
    <3>1. cso.i \in 0 .. q /\ cso.i < q /\ q \in Nat /\ CsoAt \in Nat /\ cso.blk \in Nat
      BY <1>2, <2>2, <2>3 DEF q
    <3>2. cso.i \in Nat /\ cso.i + 1 \in 0 .. q /\ q \in 0 .. q
      BY <3>1
    <3> QED BY <3>1, <3>2
  <2>5. /\ e = CsoEntry(b) /\ csoIdx[(cso.blk + cso.i) + 1] = CsoEntry(b + 1)
        /\ b \in 0 .. CsoTotalBlocks /\ b + 1 \in 0 .. CsoTotalBlocks
        /\ CsoOffset[b] \in Nat /\ CsoOffset[b + 1] \in Nat /\ end \in Nat
        /\ CsoOffset[b + 1] <= end
        /\ done \in Nat /\ (cso.i + 1) * CsoSector \in Nat
        /\ done <= CsoLeft(cso.i) /\ CsoLeft(cso.i) \in Nat /\ CsoLeft(cso.i) <= cso.size
        /\ (cso.i + 1) * CsoSector <= CsoLeft(cso.i + 1) /\ CsoLeft(cso.i + 1) \in Nat
        /\ CsoLeft(cso.i + 1) <= cso.size
    BY <2>2, <2>4 DEF e, q
  <2>6. /\ CsoLeft(cso.i) = cso.size - (end - CsoOffset[b])
        /\ CsoLeft(cso.i + 1) = cso.size - (end - CsoOffset[b + 1])
    <3>1. CsoLeft(cso.i) = q * CsoSector - (CsoOffset[CsoAt + q] - CsoOffset[CsoAt + cso.i])
          /\ CsoLeft(cso.i + 1) = q * CsoSector - (CsoOffset[CsoAt + q] - CsoOffset[CsoAt + (cso.i + 1)])
      BY DEF CsoLeft, q
    <3> QED BY <2>2, <2>4, <3>1 DEF q
  <2>7. /\ (cso.i + 1) * CsoSector = done + CsoSector
        /\ b * CsoSector = CsoAt * CsoSector + done
    BY <2>2, <2>4, CsoBytes
  <2>8. b \in CsoBlock /\ b \in Nat
    BY <2>2, <2>4, <2>5, CsoConstants DEF CsoBlock
  <2>9. CsoLen(b) \in Nat /\ CsoLen(b) > 0 /\ CsoLen(b) = CsoOffset[b + 1] - CsoOffset[b]
    BY <2>8, CsoLenType
  <2>10. dst = cso.head + done /\ p0 = cso.head + cso.src
    BY <2>2 DEF dst, p0
  <2> HIDE DEF b, end, done
  <2>11. cso.src \in Nat /\ cso.src + CsoLen(b) = CsoLeft(cso.i + 1) /\ cso.src + CsoLen(b) <= cso.size
         /\ done + CsoSector <= cso.src + CsoLen(b) /\ done <= cso.src
    BY <2>2, <2>3, <2>5, <2>6, <2>7, <2>9
  <2>12. \A p \in cso.src .. cso.size - 1 :
           csoOut[cso.head + p] = CsoRaw(CsoOffset[b] + (p - cso.src))
    BY <2>1, <2>2 DEF CsoPartRead, b
  <2>13. CsoHolds(csoOut, p0, b)
    <3> SUFFICES ASSUME NEW k \in 0 .. CsoLen(b) - 1
                 PROVE  p0 + k \in DOMAIN csoOut /\ csoOut[p0 + k] = CsoUnit(b, k)
      BY DEF CsoHolds
    <3>1. k \in Nat /\ k < CsoLen(b)
      BY <2>9
    <3>2. cso.src + k \in cso.src .. cso.size - 1 /\ (cso.src + k) - cso.src = k
          /\ p0 + k = cso.head + (cso.src + k) /\ p0 + k \in 0 .. CsoTotal - 1
      BY <2>2, <2>9, <2>10, <2>11, <3>1
    <3>3. csoOut[cso.head + (cso.src + k)] = CsoRaw(CsoOffset[b] + k)
      BY <2>12, <3>2
    <3>4. CsoRaw(CsoOffset[b] + k) = CsoUnit(b, k)
      BY <2>8, <3>1, CsoRawIs
    <3> QED BY <1>1, <3>2, <3>3, <3>4 DEF CsoShape
  <2>14. /\ CsoDecompresses(csoOut, p0, e)
         /\ \A p \in DOMAIN csoOut : p \in Int =>
              CsoDecompress(dst, csoOut, p0, CsoSector, e, 0)[p]
              = IF p < dst \/ p >= dst + CsoSector THEN csoOut[p]
                ELSE b * CsoSector + 0 + (p - dst)
         /\ DOMAIN CsoDecompress(dst, csoOut, p0, CsoSector, e, 0) = DOMAIN csoOut
    <3>1. p0 \in Int /\ dst \in Nat /\ CsoSector \in Nat /\ 0 \in Nat /\ 0 + CsoSector <= CsoSector
          /\ e = CsoEntry(b) /\ b \in CsoBlock
      BY <2>2, <2>5, <2>8, <2>10, <2>11
    <3> QED BY ONLY <2>13, <3>1, CsoDecompressRight
  <2>15. /\ csoOut' = CsoDecompress(dst, csoOut, p0, CsoSector, e, 0)
         /\ cso' = [cso EXCEPT !.i = @ + 1,
                               !.src = @ + csoIdx[cso.blk + cso.i + 1].off - e.off]
    BY <1>2, <2>14
  <2>16. /\ \A p \in 0 .. CsoTotal - 1 : p < dst \/ p >= dst + CsoSector => csoOut'[p] = csoOut[p]
         /\ \A p \in 0 .. CsoTotal - 1 :
              p >= dst /\ p < dst + CsoSector => csoOut'[p] = b * CsoSector + (p - dst)
         /\ DOMAIN csoOut' = DOMAIN csoOut
    <3>1. b * CsoSector \in Nat /\ dst \in Nat
      BY <2>2, <2>5, <2>8, <2>10, CsoBytes
    <3>2. ASSUME NEW p \in 0 .. CsoTotal - 1
          PROVE  /\ p < dst \/ p >= dst + CsoSector => csoOut'[p] = csoOut[p]
                 /\ p >= dst /\ p < dst + CsoSector => csoOut'[p] = b * CsoSector + (p - dst)
      <4>1. p \in DOMAIN csoOut /\ p \in Int
        BY <1>1 DEF CsoShape
      <4>2. csoOut'[p] = IF p < dst \/ p >= dst + CsoSector THEN csoOut[p]
                         ELSE b * CsoSector + 0 + (p - dst)
        BY <2>14, <2>15, <4>1
      <4> QED BY <2>2, <3>1, <4>1, <4>2
    <3> QED BY <2>14, <2>15, <3>2
  <2>17. /\ DOMAIN cso' = DOMAIN cso /\ cso'.pc = "Loop" /\ cso'.failed = cso.failed
         /\ cso'.lost = cso.lost /\ cso'.start = cso.start /\ cso'.len = cso.len
         /\ cso'.size = cso.size /\ cso'.head = cso.head /\ cso'.tail = cso.tail
         /\ cso'.addr = cso.addr /\ cso'.blk = cso.blk /\ cso'.i = cso.i + 1
         /\ cso'.src = cso.src + csoIdx[cso.blk + cso.i + 1].off - e.off
    BY <1>1, <2>15 DEF CsoShape
  <2>18. cso'.src = CsoLeft(cso.i + 1)
    <3>1. csoIdx[cso.blk + cso.i + 1].off = CsoOffset[b + 1] /\ e.off = CsoOffset[b]
      BY <2>5 DEF CsoEntry
    <3>2. cso'.src = cso.src + CsoOffset[b + 1] - CsoOffset[b]
      BY <2>17, <3>1
    <3> QED BY <2>3, <2>5, <2>9, <2>11, <3>2
  <2>19. CsoShape' /\ CsoWindowRight' /\ CsoWanted' = CsoWanted
    <3>1. CsoGoesOn("Loop") /\ "Loop" \in CsoPcs
      BY <1>2, <2>16, <2>17 DEF CsoGoesOn, CsoPcs
    <3> QED BY <1>1, <3>1, CsoGoesOnKeeps
  <2>20. CsoAt' = CsoAt /\ CsoMiddle' = CsoMiddle
    BY <1>2, <2>17 DEF CsoAt, CsoMiddle
  <2>21. CsoCovered'
    BY <1>2, <2>1, <2>17, <2>19 DEF CsoCovered
  <2>22. CsoHeadRead'
    <3>1. \A p \in 0 .. cso.head - 1 : csoOut'[p] = csoOut[p]
      <4> TAKE p \in 0 .. cso.head - 1
      <4>1. p \in 0 .. CsoTotal - 1 /\ p < dst
        BY <2>2, <2>5, <2>10
      <4> QED BY <2>16, <4>1
    <3>2. \A p \in CsoWanted .. CsoTotal - 1 : csoOut'[p] = csoOut[p]
      <4> TAKE p \in CsoWanted .. CsoTotal - 1
      <4>1. p \in 0 .. CsoTotal - 1 /\ p >= dst + CsoSector
        BY <2>2, <2>5, <2>7, <2>10
      <4> QED BY <2>16, <4>1
    <3>3. (\A p \in 0 .. cso.head - 1 : CsoHas(p)') /\ (\A p \in CsoWanted .. CsoTotal - 1 : CsoHasNot(p)')
      BY <2>1, <2>17, <3>1, <3>2 DEF CsoHeadRead, CsoHas, CsoHasNot
    <3>4. /\ cso'.start <= CsoTotal /\ cso'.head \in 0 .. CsoWanted' /\ cso'.addr = cso'.head
          /\ cso'.start + cso'.head = CsoAt' * CsoSector /\ cso'.size \in Nat \ {0}
      BY <2>1, <2>17, <2>19, <2>20 DEF CsoHeadRead
    <3> QED BY <2>17, <2>19, <3>3, <3>4 DEF CsoHeadRead
  <2>23. CsoTailRead'
    <3>1. \A p \in cso.head + cso.size .. CsoWanted - 1 : csoOut'[p] = csoOut[p]
      <4> TAKE p \in cso.head + cso.size .. CsoWanted - 1
      <4>1. p \in 0 .. CsoTotal - 1 /\ p >= dst + CsoSector
        BY <2>2, <2>5, <2>7, <2>10
      <4> QED BY <2>16, <4>1
    <3>2. \A p \in cso.head + cso.size .. CsoWanted - 1 : CsoHas(p)'
      BY <2>1, <2>17, <3>1 DEF CsoTailRead, CsoHas
    <3> QED BY <2>1, <2>17, <2>19, <3>2 DEF CsoTailRead
  <2>24. CsoPartRead'
    <3>1. ASSUME NEW p \in 0 .. (cso.i + 1) * CsoSector - 1
          PROVE  csoOut'[cso.head + p] = cso.start + (cso.head + p)
      <4>1. p \in Nat /\ p < done + CsoSector /\ cso.head + p \in 0 .. CsoTotal - 1
        BY <2>2, <2>5, <2>7
      <4>2. CASE p < done
        <5>1. cso.head + p < dst /\ p \in 0 .. cso.i * CsoSector - 1
          BY <2>2, <2>5, <2>10, <4>1, <4>2 DEF done
        <5>2. csoOut'[cso.head + p] = csoOut[cso.head + p]
          BY <2>16, <4>1, <5>1
        <5>3. csoOut[cso.head + p] = cso.start + (cso.head + p)
          BY <2>1, <2>2, <5>1 DEF CsoPartRead, CsoHas
        <5> QED BY <5>2, <5>3
      <4>3. CASE p >= done
        <5>1. cso.head + p >= dst /\ cso.head + p < dst + CsoSector
          BY <2>2, <2>5, <2>10, <4>1, <4>3
        <5>2. csoOut'[cso.head + p] = b * CsoSector + ((cso.head + p) - dst)
          BY <2>16, <4>1, <5>1
        <5> QED BY <2>2, <2>5, <2>7, <2>10, <4>1, <5>2
      <4> QED BY <2>5, <4>1, <4>2, <4>3
    <3>2. ASSUME NEW p \in cso'.src .. cso.size - 1
          PROVE  csoOut'[cso.head + p] = CsoRaw(CsoOffset[b + 1] + (p - cso'.src))
      <4>1. cso'.src \in Nat /\ cso'.src = cso.src + CsoLen(b) /\ p \in Nat /\ p >= cso'.src
            /\ p < cso.size
        BY <2>2, <2>5, <2>11, <2>18
      <4>2. cso.head + p \in 0 .. CsoTotal - 1 /\ cso.head + p >= dst + CsoSector
            /\ p \in cso.src .. cso.size - 1
        BY <2>2, <2>5, <2>9, <2>10, <2>11, <4>1
      <4>3. csoOut'[cso.head + p] = CsoRaw(CsoOffset[b] + (p - cso.src))
        BY <2>12, <2>16, <4>2
      <4>4. CsoOffset[b] + (p - cso.src) = CsoOffset[b + 1] + (p - cso'.src)
        BY <2>5, <2>9, <2>11, <4>1
      <4> QED BY <4>3, <4>4
    <3>3. cso'.i \in 0 .. CsoMiddle' /\ CsoOffset[CsoAt' + cso'.i] = CsoOffset[b + 1]
      BY <2>4, <2>17, <2>20 DEF q
    <3>4. cso'.src = CsoMiddle' * CsoSector
                     - (CsoOffset[CsoAt' + CsoMiddle'] - CsoOffset[CsoAt' + cso'.i])
      BY <2>17, <2>18, <2>20 DEF CsoLeft
    <3>5. \A p \in 0 .. cso'.i * CsoSector - 1 : csoOut'[cso'.addr + p] = cso'.start + (cso'.addr + p)
      BY <2>2, <2>17, <3>1
    <3>6. \A p \in cso'.src .. cso'.size - 1 :
            csoOut'[cso'.addr + p] = CsoRaw(CsoOffset[CsoAt' + cso'.i] + (p - cso'.src))
      BY <2>2, <2>17, <3>2, <3>3
    <3> QED BY <2>17, <2>20, <3>3, <3>4, <3>5, <3>6 DEF CsoPartRead, CsoHas
  <2>25. CsoProgress' /\ CsoReadRight'
    BY <2>1, <2>17, <2>21, <2>22, <2>23, <2>24 DEF CsoProgress, CsoReadRight
  <2> QED BY <2>19, <2>25 DEF CsoInv
<1> QED BY <1>3, <1>4

LEMMA CsoFinishKeeps ==
    ASSUME CsoInv, CsoFinish
    PROVE  CsoInv'
<1>1. CsoShape /\ CsoWindowRight /\ cso.pc = "Loop" /\ cso.i = CsoMiddle
  BY DEF CsoInv, CsoFinish, CsoMiddle
<1>2. /\ cso' = [cso EXCEPT !.pc = "Done", !.answer = cso.size + cso.head + cso.tail]
      /\ UNCHANGED <<csoIdx, csoIdxStart, csoBlockBuf, csoOut, csoFails, csoSpoilt>>
  BY DEF CsoFinish, CsoReturn
<1>3. /\ DOMAIN cso' = DOMAIN cso /\ cso'.pc = "Done" /\ cso'.failed = cso.failed
      /\ cso'.lost = cso.lost /\ cso'.start = cso.start /\ cso'.len = cso.len
      /\ cso'.answer = cso.size + cso.head + cso.tail
  BY <1>1, <1>2 DEF CsoShape
<1>4. CsoShape' /\ CsoWindowRight' /\ CsoWanted' = CsoWanted
  <2>1. CsoGoesOn("Done") /\ "Done" \in CsoPcs
    BY <1>2, <1>3 DEF CsoGoesOn, CsoPcs
  <2> QED BY <1>1, <2>1, CsoGoesOnKeeps
<1>5. CASE cso.failed
  BY <1>3, <1>4, <1>5 DEF CsoInv, CsoProgress, CsoReadRight, CsoUndisturbed
<1>6. CASE ~cso.failed
  <2>1. CsoCovered /\ CsoHeadRead /\ CsoTailRead /\ CsoPartRead
    BY <1>1, <1>6 DEF CsoInv, CsoProgress
  <2> DEFINE size == CsoMiddle * CsoSector
  <2>2. /\ cso.size = size /\ size \in Nat
        /\ cso.start \in Nat /\ CsoWanted \in Nat /\ CsoTotal \in Nat
        /\ cso.head \in Nat /\ cso.addr = cso.head /\ cso.tail \in Nat
        /\ cso.start <= CsoTotal /\ cso.head + cso.size + cso.tail = CsoWanted
    BY <1>1, <2>1, CsoMiddleStands
  <2>3. \A p \in 0 .. size - 1 : CsoHas(cso.head + p)
    BY <1>1, <2>1, <2>2 DEF CsoPartRead
  <2> HIDE DEF size
  <2>4. ASSUME NEW p \in 0 .. CsoWanted - 1 PROVE CsoHas(p)
    <3>1. CASE p < cso.head
      <4>1. p \in 0 .. cso.head - 1
        BY <2>2, <3>1
      <4> QED BY <2>1, <4>1 DEF CsoHeadRead
    <3>2. CASE p >= cso.head /\ p < cso.head + size
      <4>1. p - cso.head \in 0 .. size - 1 /\ cso.head + (p - cso.head) = p
        BY <2>2, <3>2
      <4>2. CsoHas(cso.head + (p - cso.head))
        BY <2>3, <4>1
      <4> QED BY <4>1, <4>2
    <3>3. CASE p >= cso.head + size
      <4>1. p \in cso.head + cso.size .. CsoWanted - 1
        BY <2>2, <3>3
      <4> QED BY <2>1, <4>1 DEF CsoTailRead
    <3> QED BY <2>2, <3>1, <3>2, <3>3
  <2>5. \A p \in CsoWanted .. CsoTotal - 1 : CsoHasNot(p)
    BY <2>1 DEF CsoHeadRead
  <2>6. (\A p \in 0 .. CsoWanted' - 1 : CsoHas(p)') /\ (\A p \in CsoWanted' .. CsoTotal - 1 : CsoHasNot(p)')
    BY <1>2, <1>3, <1>4, <2>4, <2>5 DEF CsoHas, CsoHasNot
  <2>7. cso'.pc = "Done" /\ cso'.start <= CsoTotal /\ cso'.answer = CsoWanted'
    BY <1>3, <1>4, <2>2
  <2>8. CsoProgress' /\ CsoReadRight'
    BY <1>4, <2>6, <2>7, CsoReadDoneThen
  <2> QED BY <1>4, <2>8 DEF CsoInv
<1> QED BY <1>5, <1>6

-----------------------------------------------------------------------------
LEMMA CsoInitInv ==
    CsoInit => CsoInv
<1> SUFFICES ASSUME CsoInit PROVE CsoInv
  OBVIOUS
<1>1. CsoShape
  BY CsoConstants DEF CsoInit, CsoShape, CsoPcs
<1>2. CsoWindowRight
  BY DEF CsoInit, CsoWindowRight
<1>3. CsoProgress
  BY DEF CsoInit, CsoProgress
<1>4. CsoReadRight
  <2>1. cso.start = 0 /\ cso.len = 0 /\ cso.answer = 0
    BY DEF CsoInit
  <2>2. \A p \in DOMAIN csoOut : p \in Nat /\ csoOut[p] = CsoJunk
    BY CsoConstants DEF CsoInit
  <2> QED BY <2>1, <2>2, CsoConstants DEF CsoReadRight
<1> QED BY <1>1, <1>2, <1>3, <1>4 DEF CsoInv

LEMMA CsoNextInv ==
    CsoInv /\ [CsoNext]_csoVars => CsoInv'
<1> SUFFICES ASSUME CsoInv, [CsoNext]_csoVars PROVE CsoInv'
  OBVIOUS
<1>1. ASSUME NEW off \in 0 .. CsoTotal + 1, NEW size \in 1 .. CsoTotal, CsoBegin(off, size)
      PROVE  CsoInv'
  BY <1>1, CsoBeginKeeps
<1>2. CASE CsoIndexHit \/ CsoIndexRead
  BY <1>2, CsoIndexKeeps
<1>3. CASE CsoIndexSpoilt \/ CsoIndexTooLarge \/ CsoIndexFails
  BY <1>3, CsoLostKeeps
<1>4. CASE CsoFirst
  BY <1>4, CsoFirstKeeps, CsoFirstEmptyKeeps
<1>5. CASE CsoNoFirst
  BY <1>5, CsoNoFirstKeeps
<1>6. CASE CsoLast
  BY <1>6, CsoLastKeeps
<1>7. CASE CsoMain
  BY <1>7, CsoMainKeeps
<1>8. CASE CsoLoop
  BY <1>8, CsoLoopKeeps
<1>9. CASE CsoFinish
  BY <1>9, CsoFinishKeeps
<1>10. CASE UNCHANGED csoVars
  BY <1>10 DEF csoVars, CsoInv, CsoShape, CsoWindowRight, CsoProgress, CsoReadRight, CsoAsked,
     CsoCovered, CsoHeadRead, CsoTailRead, CsoPartRead, CsoHas, CsoHasNot, CsoWanted, CsoAt,
     CsoMiddle, CsoUndisturbed, CsoFirstBlock
<1> QED BY <1>1, <1>2, <1>3, <1>4, <1>5, <1>6, <1>7, <1>8, <1>9, <1>10 DEF CsoNext

\* Whatever the table of a compressed image says, as long as no block takes more
\* than a sector: a request gets the bytes it asks for, and the decompression
\* inside the caller's buffer never overwrites what it has still to read
\* (read_cso_data_ng).
THEOREM CsoReadRightTheorem == CsoSpec => []CsoReadRight
<1>1. CsoInv => CsoReadRight
  BY DEF CsoInv
<1> QED BY <1>1, CsoInitInv, CsoNextInv, PTL DEF CsoSpec

-----------------------------------------------------------------------------
=============================================================================
