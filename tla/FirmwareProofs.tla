--------------------------- MODULE FirmwareProofs ---------------------------
(*****************************************************************************)
(* Proofs about four parts of the firmware that share no state: the sizes of *)
(* user memory, the cache in front of the memory stick, Stargate's list of   *)
(* files without protection and the lock of the debug log.  Each holds for   *)
(* every value of the constants: any size of memory, stick and log, any number *)
(* of threads, callers and list nodes.                                       *)
(*****************************************************************************)
EXTENDS HighMemory, MsStorCache, NoDrm, PrintkLog, TLAPS

-----------------------------------------------------------------------------
\* The partitions of the user memory fit for every size of the memory, width of a
\* word and pair of sizes that is asked for (PartitionsFit).

HmRecord ==
    [homebrew : BOOLEAN, has11 : BOOLEAN, p8 : {1, 4}, set : BOOLEAN, wrapped : BOOLEAN]

HmTypes ==
    /\ hmAsk \in [p2 : 0 .. HmWord - 1, p9 : 0 .. HmWord - 1]
    /\ hmBoot \in HmRecord
    /\ hmP2 \in [offset : Int, size : Int] /\ hmP9 \in [offset : Int, size : Int]

\* The sizes that wait passed sctrlHENSetMemory's test, or are the default ones.
HmAskChecked == hmAsk.p2 > 0 /\ (hmAsk.p2 + hmAsk.p9 < HmWord => hmAsk.p2 + hmAsk.p9 <= HmMax)

HmInv == HmTypes /\ HmAskChecked /\ PartitionsFit

\* What is left beside partitions 8 and 11 holds two partitions of default size.
LEMMA RoomBounds ==
    ASSUME NEW b \in HmRecord
    PROVE  HmRoom(b) \in Nat /\ HmDefault + HmDefault <= HmRoom(b) /\ HmRoom(b) <= HmTotal
BY HmAssumption DEF HmRecord, HmRoom

\* The cut leaves both sizes in the room, and partition 2 with something.
LEMMA CutFits ==
    ASSUME NEW p2 \in Nat, NEW p9 \in Nat, NEW room \in Nat, p2 > 0, room > 0
    PROVE  /\ HmSizes(p2, p9, room) \in Int \X Int
           /\ HmSizes(p2, p9, room)[1] > 0 /\ HmSizes(p2, p9, room)[2] >= 0
           /\ HmSizes(p2, p9, room)[1] + HmSizes(p2, p9, room)[2] <= room
BY DEF HmSizes, HmCut

\* The invariant at the start of a program.
LEMMA HmInitInv == HmInit => HmInv
<1> SUFFICES ASSUME HmInit PROVE HmInv
  OBVIOUS
<1>1. hmBoot \in HmRecord
  BY DEF HmInit, HmStarted, HmRecord
<1>2. HmTypes /\ HmAskChecked
  BY <1>1, HmAssumption DEF HmInit, HmTypes, HmAskChecked, HmUnset
<1>3. PartitionsFit
  BY <1>1, RoomBounds, HmAssumption DEF HmInit, PartitionsFit
<1> QED
  BY <1>2, <1>3 DEF HmInv

\* patch_partitions, the one step that computes sizes.
LEMMA HmPatchInv == HmInv /\ HmPatch => HmInv'
<1> SUFFICES ASSUME HmInv, HmPatch PROVE HmInv'
  OBVIOUS
<1> DEFINE plain == hmAsk.p2 = HmDefault /\ hmAsk.p9 = HmDefault
           a2 == IF plain THEN HmMax ELSE HmInt(hmAsk.p2)
           a9 == IF plain THEN 0 ELSE HmInt(hmAsk.p9)
           got == HmSizes(a2, a9, HmRoom(hmBoot))
<1>1. /\ hmP2' = [offset |-> 0, size |-> got[1]] /\ hmP9' = [offset |-> got[1], size |-> got[2]]
      /\ hmBoot' = [hmBoot EXCEPT !.set = TRUE, !.wrapped = hmAsk.p2 + hmAsk.p9 >= HmWord]
      /\ hmAsk' = HmUnset
  BY DEF HmPatch
<1>2. a2 \in Int /\ a9 \in Int
  BY HmAssumption DEF HmInv, HmTypes, HmInt
<1>3. hmBoot' \in HmRecord /\ HmRoom(hmBoot') = HmRoom(hmBoot) /\ HmRoom(hmBoot) \in Nat
  <2> DEFINE w == hmAsk.p2 + hmAsk.p9 >= HmWord
  <2>1. hmBoot \in HmRecord /\ w \in BOOLEAN
    BY DEF HmInv, HmTypes
  <2>2. hmBoot' = [hmBoot EXCEPT !.set = TRUE, !.wrapped = w]
    BY <1>1
  <2>3. HmRoom(hmBoot) \in Nat
    BY <2>1, RoomBounds
  <2> HIDE DEF w
  <2>4. /\ hmBoot' \in HmRecord
        /\ hmBoot'.has11 = hmBoot.has11 /\ hmBoot'.p8 = hmBoot.p8 /\ hmBoot'.wrapped = w
    BY <2>1, <2>2 DEF HmRecord
  <2> QED
    BY <2>3, <2>4 DEF HmRoom
<1>4. got \in Int \X Int
  <2> HIDE DEF a2, a9
  <2> QED
    BY <1>2, <1>3 DEF HmSizes, HmCut
<1>5. HmTypes' /\ HmAskChecked'
  BY <1>1, <1>3, <1>4, HmAssumption DEF HmTypes, HmAskChecked, HmUnset
<1>6. ASSUME ~hmBoot'.wrapped PROVE a2 \in Nat /\ a9 \in Nat /\ a2 > 0
  <2>1. hmAsk.p2 + hmAsk.p9 < HmWord
    <3>1. hmBoot'.wrapped = (hmAsk.p2 + hmAsk.p9 >= HmWord)
      BY <1>1, Zenon DEF HmInv, HmTypes, HmRecord
    <3>2. ~(hmAsk.p2 + hmAsk.p9 >= HmWord)
      <4> DEFINE w == hmAsk.p2 + hmAsk.p9 >= HmWord
      <4>1. hmBoot'.wrapped = w /\ ~hmBoot'.wrapped
        BY <3>1, <1>6
      <4> HIDE DEF w
      <4>2. ~w
        BY <4>1, Zenon
      <4> QED
        BY <4>2 DEF w
    <3> QED
      BY <3>2, HmAssumption DEF HmInv, HmTypes
  <2>2. hmAsk.p2 + hmAsk.p9 <= HmMax /\ hmAsk.p2 > 0
    BY <2>1 DEF HmInv, HmAskChecked
  <2>3. 2 * hmAsk.p2 < HmWord /\ 2 * hmAsk.p9 < HmWord
    BY <2>2, HmAssumption DEF HmInv, HmTypes
  <2> QED
    BY <2>2, <2>3, HmAssumption DEF HmInv, HmTypes, HmInt
<1>7. PartitionsFit'
  <2> SUFFICES ASSUME ~hmBoot'.wrapped
               PROVE  /\ hmP2'.size > 0 /\ hmP9'.size >= 0
                      /\ hmP2'.offset = 0 /\ hmP9'.offset = hmP2'.size
                      /\ hmP2'.size + hmP9'.size <= HmRoom(hmBoot')
    BY DEF PartitionsFit
  <2>1. a2 \in Nat /\ a9 \in Nat /\ a2 > 0
    BY <1>6
  <2>2. HmRoom(hmBoot) > 0
    BY RoomBounds, HmAssumption DEF HmInv, HmTypes
  <2>3. got[1] > 0 /\ got[2] >= 0 /\ got[1] + got[2] <= HmRoom(hmBoot)
    <3> HIDE DEF a2, a9
    <3> QED
      BY <2>1, <2>2, <1>3, CutFits
  <2> HIDE DEF got
  <2> QED
    BY <1>1, <1>3, <2>3
<1> QED
  BY <1>5, <1>7 DEF HmInv

\* Every request, restart and partitioning keeps the invariant.
LEMMA HmStepInv == HmInv /\ [HmNext]_hmVars => HmInv'
<1> SUFFICES ASSUME HmInv, [HmNext]_hmVars PROVE HmInv'
  OBVIOUS
<1>1. ASSUME NEW p2 \in HmAsked, NEW p9 \in HmAsked, HmSetMemory(p2, p9) PROVE HmInv'
  <2>1. p2 \in 0 .. HmWord - 1 /\ p9 \in 0 .. HmWord - 1 /\ p2 > 0
    BY <1>1, HmAssumption DEF HmSetMemory
  <2>2. p2 + p9 < HmWord => p2 + p9 <= HmMax
    BY <1>1, <2>1, HmAssumption DEF HmSetMemory
  <2>3. HmTypes' /\ HmAskChecked'
    BY <1>1, <2>1, <2>2 DEF HmSetMemory, HmInv, HmTypes, HmAskChecked
  <2>4. PartitionsFit'
    BY <1>1 DEF HmSetMemory, HmInv, PartitionsFit, HmRoom
  <2> QED
    BY <2>3, <2>4 DEF HmInv
<1>2. CASE HmPatch
  BY <1>2, HmPatchInv
<1>3. ASSUME NEW h \in BOOLEAN, HmReboot(h) PROVE HmInv'
  <2>1. hmBoot' \in HmRecord
    BY <1>3 DEF HmReboot, HmStarted, HmInv, HmTypes, HmRecord
  <2>2. HmTypes' /\ HmAskChecked'
    BY <1>3, <2>1, HmAssumption DEF HmReboot, HmInv, HmTypes, HmAskChecked
  <2>3. PartitionsFit'
    BY <1>3, <2>1, RoomBounds, HmAssumption DEF HmReboot, PartitionsFit
  <2> QED
    BY <2>2, <2>3 DEF HmInv
<1>4. CASE UNCHANGED hmVars
  BY <1>4 DEF hmVars, HmInv, HmTypes, HmAskChecked, PartitionsFit, HmRoom
<1> QED
  BY <1>1, <1>2, <1>3, <1>4 DEF HmNext

\* Whatever sizes programs ask for, as long as their sum fits a word, partitions 2
\* and 9 follow each other and end below the partitions above them
\* (patch_partitions, sctrlHENSetMemory).
THEOREM PartitionsFitTheorem == HmSpec => []PartitionsFit
<1>1. HmInv => PartitionsFit
  BY DEF HmInv
<1> QED
  BY HmInitInv, HmStepInv, <1>1, PTL DEF HmSpec

-----------------------------------------------------------------------------
\* The cache in front of the memory stick is coherent and every read is right, for
\* every size of the stick and of the buffer, every length of request and any number
\* of callers, until a read meets a call that it should not have met (msRaced).

MsWants == {<<>>} \cup UNION {[0 .. n - 1 -> MsByte] : n \in Nat}

MsCallSet ==
    [pc : {"idle", "Hit", "Fill", "Filled", "Direct", "Write"}, pos : Nat, len : Nat,
     value : MsByte, ret : Nat, want : MsWants, right : BOOLEAN]

MsTypes ==
    /\ stick \in [MsAddr -> MsByte]
    /\ msCache \in [pos : Int, bufsize : Nat]
    /\ msBuf \in [0 .. MsCap - 1 -> MsByte]
    /\ msCall \in [MsCallers -> MsCallSet]
    /\ msRaced \in BOOLEAN

\* The buffer holds n of the stick's sectors, from pos on.
MsHolds(pos, n) ==
    \A i \in 0 .. n - 1 : i < MsCap /\ pos + i < MsSize /\ msBuf[i] = stick[pos + i]

MsCacheOk == msCache.pos # MsInvalid => msCache.pos >= 0 /\ MsHolds(msCache.pos, msCache.bufsize)

\* What each caller relies on between its steps: a hit on the range it has
\* tested, a fill on a disabled buffer and on what it put into it, a write on a
\* buffer that does not overlap it.
MsCallOk(c) ==
    LET r == msCall[c]
    IN  /\ r.right /\ (r.pc # "idle" => r.len >= 1)
        /\ r.pc = "Hit" => MsHit(r.pos, r.len)
        /\ r.pc \in {"Fill", "Filled"} => msCache.pos = MsInvalid
        /\ r.pc = "Filled" =>
              MsHolds(r.pos, r.ret) /\ r.want = MsSectors(stick, r.pos, MsMin(r.ret, r.len))
        /\ r.pc = "Write" /\ msCache.pos # MsInvalid =>
              \A i \in 0 .. msCache.bufsize - 1 : ~MsWithin(msCache.pos + i, r.pos, r.len)

MsInv ==
    /\ MsTypes
    /\ ~msRaced => MsCacheOk /\ ~MsFillInWrite /\ \A c \in MsCallers : MsCallOk(c)

-----------------------------------------------------------------------------
(* Operators                                                               *)

\* A fill is never longer than the stick has sectors from there.
LEMMA MsAvailableFacts ==
    ASSUME NEW pos \in Nat, NEW len \in Nat
    PROVE  /\ MsAvailable(pos, len) \in Nat /\ MsAvailable(pos, len) <= len
           /\ \A i \in 0 .. MsAvailable(pos, len) - 1 : pos + i < MsSize
BY MsAssumption DEF MsAvailable, MsMin

\* A sector is in the caller's answer and so in its type.
LEMMA MsSectorsType ==
    ASSUME NEW s \in [MsAddr -> MsByte], NEW pos \in Nat, NEW n \in Nat,
           \A i \in 0 .. n - 1 : pos + i < MsSize
    PROVE  MsSectors(s, pos, n) \in MsWants
<1>1. MsSectors(s, pos, n) \in [0 .. n - 1 -> MsByte]
  BY MsAssumption DEF MsSectors, MsAddr
<1> QED
  BY <1>1 DEF MsWants

\* The three conditions of disable_cache_within_range are all the ways in which a
\* write can touch the buffer.
LEMMA MsOverlapsComplete ==
    ASSUME NEW pos \in Nat, NEW len \in Nat, len >= 1,
           msCache.pos \in Int, msCache.bufsize \in Nat, ~MsOverlaps(pos, len)
    PROVE  \A i \in 0 .. msCache.bufsize - 1 : ~MsWithin(msCache.pos + i, pos, len)
BY DEF MsOverlaps, MsWithin

\* An idle caller is one of the callers' states.
LEMMA MsIdleType == \A b \in BOOLEAN : [MsIdle EXCEPT !.right = b] \in MsCallSet
BY DEF MsIdle, MsCallSet, MsWants, MsByte

-----------------------------------------------------------------------------
(* The other callers                                                       *)

\* A caller whose call stands still keeps what it relies on in a step that
\* leaves the stick, the buffer and its range alone.
LEMMA MsCallKept ==
    ASSUME NEW d \in MsCallers, MsCallOk(d), msCall'[d] = msCall[d],
           UNCHANGED <<stick, msCache, msBuf>>
    PROVE  MsCallOk(d)'
<1>1. msCall[d]' = msCall[d] /\ stick' = stick /\ msCache' = msCache /\ msBuf' = msBuf
  OBVIOUS
<1> QED
  BY <1>1 DEF MsCallOk, MsHit, MsHolds, MsSectors

\* So does one that is not reading, when the buffer is disabled or the range of
\* the buffer stays.
LEMMA MsCallKeptAside ==
    ASSUME NEW d \in MsCallers, MsCallOk(d), msCall'[d] = msCall[d],
           msCall[d].pc \notin {"Hit", "Fill", "Filled"},
           msCache'.pos = MsInvalid \/ msCache' = msCache
    PROVE  MsCallOk(d)'
<1>1. msCall[d]' = msCall[d]
  OBVIOUS
<1> QED
  BY <1>1 DEF MsCallOk

\* What a step by c that disturbs no reader leaves of the others, c apart.
LEMMA MsOthersKept ==
    ASSUME NEW c \in MsCallers, NEW d \in MsCallers, d # c, MsCallOk(d),
           msCall'[d] = msCall[d], ~MsDisturbs(c), stick' = stick,
           msCache'.pos = MsInvalid \/ msCache' = msCache
    PROVE  MsCallOk(d)'
<1>1. CASE <<msCache, msBuf>>' = <<msCache, msBuf>>
  BY <1>1, MsCallKept
<1>2. CASE msCall[d].pc \notin {"Hit", "Fill", "Filled"}
  BY <1>2, MsCallKeptAside
<1> QED
  BY <1>1, <1>2 DEF MsDisturbs

\* A call that has returned relies on nothing.
LEMMA MsReturned ==
    ASSUME NEW c \in MsCallers, MsTypes, MsReturn(c, TRUE)
    PROVE  /\ msCall' \in [MsCallers -> MsCallSet] /\ MsCallOk(c)'
           /\ msCall'[c].pc = "idle"
           /\ \A d \in MsCallers : d # c => msCall'[d] = msCall[d]
<1>1. [MsIdle EXCEPT !.right = TRUE] \in MsCallSet
  BY MsIdleType
<1>2. msCall'[c] = [MsIdle EXCEPT !.right = TRUE] /\ msCall' \in [MsCallers -> MsCallSet]
  BY <1>1 DEF MsReturn, MsTypes
<1>3. msCall'[c].pc = "idle" /\ msCall'[c].right = TRUE
  BY <1>2 DEF MsIdle
<1>4. \A d \in MsCallers : d # c => msCall'[d] = msCall[d]
  BY DEF MsReturn, MsTypes
<1>5. MsCallOk(c)'
  BY <1>3 DEF MsCallOk
<1> QED
  BY <1>2, <1>3, <1>4, <1>5

\* A call that has begun has its request.
LEMMA MsBegun ==
    ASSUME NEW c \in MsCallers, MsTypes, NEW pc \in {"Hit", "Fill", "Direct", "Write"},
           NEW pos \in Nat, NEW len \in Nat, NEW value \in MsByte, MsBegin(c, pc, pos, len, value)
    PROVE  /\ msCall' \in [MsCallers -> MsCallSet]
           /\ msCall'[c].pc = pc /\ msCall'[c].pos = pos /\ msCall'[c].len = len
           /\ msCall'[c].right = TRUE
           /\ \A d \in MsCallers : d # c => msCall'[d] = msCall[d]
           /\ stick' = stick /\ msBuf' = msBuf
<1> DEFINE r == [MsIdle EXCEPT !.pc = pc, !.pos = pos, !.len = len, !.value = value]
<1>1. /\ r \in MsCallSet /\ r.pc = pc /\ r.pos = pos /\ r.len = len /\ r.right = TRUE
  BY DEF MsIdle, MsCallSet, MsWants
<1>2. msCall' = [msCall EXCEPT ![c] = r] /\ stick' = stick /\ msBuf' = msBuf
  BY DEF MsBegin
<1> HIDE DEF r
<1> QED
  BY <1>1, <1>2 DEF MsTypes

-----------------------------------------------------------------------------
(* Types                                                                   *)

\* What the device delivers into the buffer.
MsFilledBuf(c, k) ==
    [i \in DOMAIN msBuf |-> IF i < k THEN stick[msCall[c].pos + i] ELSE msBuf[i]]

\* A fill that comes to its end.
MsFillsWhole(c) ==
    LET n == MsAvailable(msCall[c].pos, MsCap)
    IN  /\ msBuf' = MsFilledBuf(c, n)
        /\ msCall' = [msCall EXCEPT
              ![c].pc = "Filled", ![c].ret = n,
              ![c].want = MsSectors(stick, msCall[c].pos, MsMin(n, msCall[c].len))]

\* A fill delivers everything there is, or fails part of the way.
LEMMA MsFillCases ==
    ASSUME NEW c \in MsCallers, MsTypes, MsFill(c)
    PROVE  /\ msCall[c].pc = "Fill" /\ UNCHANGED <<stick, msCache>>
           /\ \/ MsFillsWhole(c)
              \/ /\ MsReturn(c, TRUE)
                 /\ \E k \in 0 .. MsAvailable(msCall[c].pos, MsCap) : msBuf' = MsFilledBuf(c, k)
BY DEF MsFill, MsFillsWhole, MsFilledBuf

\* A fill leaves a buffer of the same length.
LEMMA MsFilledBufType ==
    ASSUME NEW c \in MsCallers, MsTypes, NEW k \in 0 .. MsAvailable(msCall[c].pos, MsCap)
    PROVE  MsFilledBuf(c, k) \in [0 .. MsCap - 1 -> MsByte]
<1>1. msCall[c].pos \in Nat /\ MsCap \in Nat
  BY MsAssumption DEF MsTypes, MsCallSet
<1> DEFINE n == MsAvailable(msCall[c].pos, MsCap)
<1>a. n \in Nat /\ \A i \in 0 .. n - 1 : msCall[c].pos + i < MsSize
  BY <1>1, MsAvailableFacts
<1> HIDE DEF n
<1>3. k \in Nat /\ k <= n
  BY <1>a DEF n
<1>2. \A i \in 0 .. k - 1 : msCall[c].pos + i \in MsAddr
  BY <1>1, <1>a, <1>3, MsAssumption DEF MsAddr
<1> QED
  BY <1>1, <1>2, <1>3 DEF MsFilledBuf, MsTypes

\* After a whole fill the buffer holds the stick's sectors and the caller knows how
\* many.
LEMMA MsFillsWholeFacts ==
    ASSUME NEW c \in MsCallers, MsTypes, MsFillsWhole(c)
    PROVE  LET r == msCall[c]
               n == MsAvailable(r.pos, MsCap)
           IN  /\ msCall' \in [MsCallers -> MsCallSet] /\ n \in Nat
               /\ msCall'[c].pc = "Filled" /\ msCall'[c].ret = n
               /\ msCall'[c].pos = r.pos /\ msCall'[c].len = r.len /\ msCall'[c].right = r.right
               /\ msCall'[c].want = MsSectors(stick, r.pos, MsMin(n, r.len))
               /\ \A d \in MsCallers : d # c => msCall'[d] = msCall[d]
<1> DEFINE r == msCall[c]
           n == MsAvailable(r.pos, MsCap)
           w == MsSectors(stick, r.pos, MsMin(n, r.len))
<1>1. r \in MsCallSet /\ r.pos \in Nat /\ r.len \in Nat /\ MsCap \in Nat
  BY MsAssumption DEF MsTypes, MsCallSet
<1>2. n \in Nat /\ \A i \in 0 .. n - 1 : r.pos + i < MsSize
  BY <1>1, MsAvailableFacts
<1>3. MsMin(n, r.len) \in Nat /\ MsMin(n, r.len) <= n
  BY <1>1, <1>2 DEF MsMin
<1>4. w \in MsWants
  <2>1. \A i \in 0 .. MsMin(n, r.len) - 1 : r.pos + i < MsSize
    BY <1>1, <1>2, <1>3
  <2>2. stick \in [MsAddr -> MsByte]
    BY DEF MsTypes
  <2> HIDE DEF r, n
  <2> QED
    BY <1>1, <1>3, <2>1, <2>2, MsSectorsType
<1>5. msCall' = [msCall EXCEPT ![c] = [r EXCEPT !.pc = "Filled", !.ret = n, !.want = w]]
  BY DEF MsFillsWhole, MsTypes, MsCallSet
<1> HIDE DEF w, n
<1>6. [r EXCEPT !.pc = "Filled", !.ret = n, !.want = w] \in MsCallSet
  BY <1>1, <1>2, <1>4 DEF MsCallSet
<1> HIDE DEF r
<1>7. msCall'[c] = [r EXCEPT !.pc = "Filled", !.ret = n, !.want = w]
  BY <1>5 DEF MsTypes
<1> QED
  BY <1>1, <1>2, <1>5, <1>6, <1>7 DEF MsTypes, MsCallSet, r, n, w

\* Every step keeps the types.
LEMMA MsStepTypes ==
    ASSUME NEW c \in MsCallers, MsTypes, MsStep(c)
    PROVE  /\ stick' \in [MsAddr -> MsByte] /\ msCache' \in [pos : Int, bufsize : Nat]
           /\ msBuf' \in [0 .. MsCap - 1 -> MsByte] /\ msCall' \in [MsCallers -> MsCallSet]
<1> USE DEF MsTypes
<1>0. MsDisabled \in [pos : Int, bufsize : Nat]
  BY DEF MsDisabled, MsInvalid
<1>1. CASE MsOpen(c)
  BY <1>0, <1>1 DEF MsOpen
<1>2. ASSUME NEW pos \in 0 .. MsSize, NEW len \in 1 .. MsMaxLen, MsRead(c, pos, len)
      PROVE  MsTypes' \/ (/\ stick' \in [MsAddr -> MsByte] /\ msCache' \in [pos : Int, bufsize : Nat]
           /\ msBuf' \in [0 .. MsCap - 1 -> MsByte] /\ msCall' \in [MsCallers -> MsCallSet])
  <2>1. pos \in Nat /\ len \in Nat /\ 0 \in MsByte
    BY MsAssumption DEF MsByte
  <2>2. PICK pc \in {"Hit", "Fill", "Direct"} :
          MsBegin(c, pc, pos, len, 0) /\ (msCache' = MsDisabled \/ msCache' = msCache)
    BY <1>2 DEF MsRead
  <2>3. /\ msCall' \in [MsCallers -> MsCallSet] /\ stick' = stick /\ msBuf' = msBuf
    <3> HIDE DEF MsTypes
    <3> QED
      BY <2>1, <2>2, MsBegun
  <2> QED
    BY <1>0, <2>2, <2>3
<1>3. ASSUME NEW pos \in MsAddr, NEW len \in 1 .. MsMaxLen, NEW v \in MsByte, MsWrite(c, pos, len, v)
      PROVE  /\ stick' \in [MsAddr -> MsByte] /\ msCache' \in [pos : Int, bufsize : Nat]
             /\ msBuf' \in [0 .. MsCap - 1 -> MsByte] /\ msCall' \in [MsCallers -> MsCallSet]
  <2>1. pos \in Nat /\ len \in Nat
    BY MsAssumption DEF MsAddr
  <2>2. MsBegin(c, "Write", pos, len, v) /\ (msCache' = MsDisabled \/ msCache' = msCache)
    BY <1>3 DEF MsWrite
  <2>3. /\ msCall' \in [MsCallers -> MsCallSet] /\ stick' = stick /\ msBuf' = msBuf
    <3> HIDE DEF MsTypes
    <3> QED
      BY <2>1, <2>2, MsBegun
  <2> QED
    BY <1>0, <2>2, <2>3
<1>4. CASE MsHitCopy(c)
  <2>1. PICK b \in BOOLEAN : MsReturn(c, b) /\ UNCHANGED <<stick, msCache, msBuf>>
    BY <1>4 DEF MsHitCopy
  <2> QED
    BY <2>1, MsIdleType DEF MsReturn
<1>5. CASE MsFill(c)
  <2>1. /\ stick' = stick /\ msCache' = msCache /\ (MsFillsWhole(c) \/ MsReturn(c, TRUE))
        /\ \E k \in 0 .. MsAvailable(msCall[c].pos, MsCap) : msBuf' = MsFilledBuf(c, k)
    <3>1. msCall[c].pos \in Nat /\ MsCap \in Nat
      BY MsAssumption DEF MsCallSet
    <3>2. MsAvailable(msCall[c].pos, MsCap) \in 0 .. MsAvailable(msCall[c].pos, MsCap)
      <4>1. MsAvailable(msCall[c].pos, MsCap) \in Nat
        BY <3>1, MsAvailableFacts
      <4> QED
        BY <4>1
    <3> HIDE DEF MsTypes
    <3> QED
      BY <1>5, <3>2, MsFillCases DEF MsFillsWhole
  <2> QED
    BY <2>1, MsFilledBufType, MsFillsWholeFacts, MsReturned
<1>6. CASE MsFilled(c)
  <2>1. PICK b \in BOOLEAN : MsReturn(c, b) /\ UNCHANGED <<stick, msBuf>>
    BY <1>6 DEF MsFilled
  <2>2. msCache' = [pos |-> msCall[c].pos, bufsize |-> msCall[c].ret]
    BY <1>6 DEF MsFilled, MsBufSize
  <2> QED
    BY <2>1, <2>2, MsIdleType DEF MsReturn, MsCallSet
<1>7. CASE MsDirect(c)
  BY <1>7, MsReturned DEF MsDirect
<1>8. CASE MsWriteDevice(c)
  <2>1. PICK k \in 0 .. msCall[c].len :
          /\ stick' = [a \in MsAddr |-> IF MsWithin(a, msCall[c].pos, k) THEN msCall[c].value ELSE stick[a]]
          /\ MsReturn(c, TRUE) /\ UNCHANGED <<msCache, msBuf>>
    BY <1>8 DEF MsWriteDevice
  <2> QED
    BY <2>1, MsReturned DEF MsCallSet
<1> QED
  BY <1>1, <1>2, <1>3, <1>4, <1>5, <1>6, <1>7, <1>8 DEF MsStep

-----------------------------------------------------------------------------
(* Steps: what c and the others rely on, before and after a step of c that  *)
(* disturbs nobody                                                         *)

MsQuiet(c) ==
    /\ MsTypes /\ ~msRaced /\ MsCacheOk /\ ~MsFillInWrite /\ \A d \in MsCallers : MsCallOk(d)
    /\ MsTypes' /\ ~MsDisturbs(c)

MsAfter == MsCacheOk' /\ \A d \in MsCallers : MsCallOk(d)'

\* Nothing is in a disabled buffer.
LEMMA MsDisabledOk == msCache' = MsDisabled => MsCacheOk'
BY DEF MsDisabled, MsCacheOk

\* A step that touches neither stick nor buffer keeps the buffer right.
LEMMA MsCacheKept == MsCacheOk /\ UNCHANGED <<stick, msCache, msBuf>> => MsCacheOk'
BY DEF MsCacheOk, MsHolds

\* One lemma for each call of the driver: msstor_cache_open disables the buffer.
LEMMA MsOpenStep == ASSUME NEW c \in MsCallers, MsQuiet(c), MsOpen(c) PROVE MsAfter
<1>1. msCache' = MsDisabled /\ msCall' = msCall /\ stick' = stick /\ msCall[c].pc = "idle"
  BY DEF MsOpen
<1>2. MsCacheOk' /\ msCache'.pos = MsInvalid
  BY <1>1, MsDisabledOk DEF MsDisabled
<1>3. ASSUME NEW d \in MsCallers PROVE MsCallOk(d)'
  <2>1. CASE d = c
    BY <2>1, <1>1, <1>2, MsCallKeptAside DEF MsQuiet
  <2>2. CASE d # c
    BY <2>2, <1>1, <1>2, MsOthersKept DEF MsQuiet
  <2> QED
    BY <2>1, <2>2
<1> QED
  BY <1>2, <1>3 DEF MsAfter

\* msstor_cache_read chooses by what the buffer holds at that moment.
LEMMA MsReadStep ==
    ASSUME NEW c \in MsCallers, MsQuiet(c),
           NEW pos \in Nat, NEW len \in Nat, len >= 1, MsRead(c, pos, len)
    PROVE  MsAfter
<1> USE DEF MsQuiet
<1>0. 0 \in MsByte
  BY DEF MsByte
<1>1. ASSUME NEW pc \in {"Hit", "Fill", "Direct"}, MsBegin(c, pc, pos, len, 0),
             MsCacheOk', MsCallOk(c)', msCache'.pos = MsInvalid \/ msCache' = msCache
      PROVE  MsAfter
  <2>1. stick' = stick /\ \A d \in MsCallers : d # c => msCall'[d] = msCall[d]
    <3>1. pc \in {"Hit", "Fill", "Direct", "Write"}
      OBVIOUS
    <3> QED
      BY <1>0, <1>1, <3>1, MsBegun
  <2>2. ASSUME NEW d \in MsCallers, d # c PROVE MsCallOk(d)'
    BY <1>1, <2>1, <2>2, MsOthersKept
  <2> QED
    BY <1>1, <2>2 DEF MsAfter
<1>2. CASE MsHit(pos, len) /\ MsBegin(c, "Hit", pos, len, 0) /\ UNCHANGED msCache
  <2>1. /\ msCall'[c].pc = "Hit" /\ msCall'[c].pos = pos /\ msCall'[c].len = len
        /\ msCall'[c].right = TRUE /\ stick' = stick /\ msBuf' = msBuf
    BY <1>0, <1>2, MsBegun
  <2>2. MsCallOk(c)'
    BY <1>2, <2>1 DEF MsCallOk, MsHit
  <2> QED
    BY <1>1, <1>2, <2>1, <2>2, MsCacheKept
<1>3. CASE MsBegin(c, "Fill", pos, len, 0) /\ msCache' = MsDisabled
  <2>1. /\ msCall'[c].pc = "Fill" /\ msCall'[c].len = len /\ msCall'[c].right = TRUE
    BY <1>0, <1>3, MsBegun
  <2>2. msCache'.pos = MsInvalid
    BY <1>3 DEF MsDisabled
  <2>3. MsCallOk(c)'
    BY <2>1, <2>2 DEF MsCallOk
  <2> QED
    BY <1>1, <1>3, <2>2, <2>3, MsDisabledOk
<1>4. CASE MsBegin(c, "Direct", pos, len, 0) /\ UNCHANGED msCache
  <2>1. /\ msCall'[c].pc = "Direct" /\ msCall'[c].len = len /\ msCall'[c].right = TRUE
        /\ stick' = stick /\ msBuf' = msBuf
    BY <1>0, <1>4, MsBegun
  <2>2. MsCallOk(c)'
    BY <2>1 DEF MsCallOk
  <2> QED
    BY <1>1, <1>4, <2>1, <2>2, MsCacheKept
<1> QED
  BY <1>2, <1>3, <1>4 DEF MsRead

\* msstor_cache_write disables a buffer it overlaps before the device writes.
LEMMA MsWriteStep ==
    ASSUME NEW c \in MsCallers, MsQuiet(c),
           NEW pos \in Nat, NEW len \in Nat, len >= 1, NEW v \in MsByte, MsWrite(c, pos, len, v)
    PROVE  MsAfter
<1> USE DEF MsQuiet
<1>1. /\ msCall'[c].pc = "Write" /\ msCall'[c].pos = pos /\ msCall'[c].len = len
      /\ msCall'[c].right = TRUE /\ stick' = stick /\ msBuf' = msBuf
      /\ \A d \in MsCallers : d # c => msCall'[d] = msCall[d]
  BY MsBegun DEF MsWrite
<1>2. \/ msCache' = MsDisabled
      \/ msCache' = msCache /\ (msCache.pos = MsInvalid \/ ~MsOverlaps(pos, len))
  BY DEF MsWrite
<1>3. MsCacheOk' /\ (msCache'.pos = MsInvalid \/ msCache' = msCache)
  BY <1>1, <1>2, MsDisabledOk, MsCacheKept DEF MsDisabled
<1>4. msCache'.pos # MsInvalid =>
          \A i \in 0 .. msCache'.bufsize - 1 : ~MsWithin(msCache'.pos + i, pos, len)
  <2>1. msCache.pos \in Int /\ msCache.bufsize \in Nat
    BY DEF MsTypes
  <2> QED
    BY <1>2, <2>1, MsOverlapsComplete DEF MsDisabled
<1>5. MsCallOk(c)'
  BY <1>1, <1>4 DEF MsCallOk
<1>6. ASSUME NEW d \in MsCallers, d # c PROVE MsCallOk(d)'
  BY <1>1, <1>3, <1>6, MsOthersKept
<1> QED
  BY <1>3, <1>5, <1>6 DEF MsAfter

\* The truth of what is returned.
LEMMA MsReturnsTrue ==
    ASSUME NEW c \in MsCallers, NEW b \in BOOLEAN, b, MsReturn(c, b) PROVE MsReturn(c, TRUE)
<1>1. b = TRUE
  OBVIOUS
<1> QED
  BY <1>1

\* A call that returns and leaves the stick and the buffer alone.
LEMMA MsReturnStep ==
    ASSUME NEW c \in MsCallers, MsQuiet(c), MsReturn(c, TRUE), UNCHANGED <<stick, msCache, msBuf>>
    PROVE  MsAfter
<1>1. MsCallOk(c)' /\ \A d \in MsCallers : d # c => msCall'[d] = msCall[d]
  BY MsReturned DEF MsQuiet
<1>2. ASSUME NEW d \in MsCallers, d # c PROVE MsCallOk(d)'
  BY <1>1, <1>2, MsCallKept DEF MsQuiet
<1> QED
  BY <1>1, <1>2, MsCacheKept DEF MsAfter, MsQuiet

\* The copy of a hit takes from the buffer what the stick has.
LEMMA MsHitCopyStep == ASSUME NEW c \in MsCallers, MsQuiet(c), MsHitCopy(c) PROVE MsAfter
<1> DEFINE r == msCall[c]
           n == MsMin(r.len, msCache.pos + msCache.bufsize - r.pos)
           right == /\ n = MsAvailable(r.pos, r.len)
                    /\ \A i \in 0 .. n - 1 :
                          LET k == r.pos + i - msCache.pos
                          IN  k \in DOMAIN msBuf /\ msBuf[k] = stick[r.pos + i]
<1>1. MsReturn(c, right) /\ UNCHANGED <<stick, msCache, msBuf>> /\ right \in BOOLEAN
  BY DEF MsHitCopy
<1>2. right
  <2>1. /\ r.pos \in Nat /\ r.len \in Nat /\ r.len >= 1 /\ MsHit(r.pos, r.len)
        /\ msCache.pos \in Int /\ msCache.bufsize \in Nat /\ DOMAIN msBuf = 0 .. MsCap - 1
        /\ MsCap \in Nat /\ MsSize \in Nat
    BY MsAssumption DEF MsQuiet, MsCallOk, MsTypes, MsCallSet, MsHitCopy
  <2>2. /\ msCache.pos >= 0 /\ r.pos >= msCache.pos
        /\ r.pos + r.len - 1 < msCache.pos + msCache.bufsize
        /\ MsHolds(msCache.pos, msCache.bufsize)
    BY <2>1 DEF MsHit, MsWithin, MsQuiet, MsCacheOk
  <2> HIDE DEF r
  <2>3. ASSUME NEW i \in 0 .. r.len - 1
        PROVE  /\ r.pos + i - msCache.pos \in 0 .. MsCap - 1 /\ r.pos + i < MsSize
               /\ msBuf[r.pos + i - msCache.pos] = stick[r.pos + i]
    <3> DEFINE k == r.pos + i - msCache.pos
    <3>1. k \in 0 .. msCache.bufsize - 1 /\ r.pos + i = msCache.pos + k
      <4>1. i \in Int /\ i >= 0 /\ i <= r.len - 1
        BY <2>1
      <4>2. r.pos \in Int /\ r.len \in Int /\ msCache.pos \in Int /\ msCache.bufsize \in Int
        BY <2>1
      <4>3. r.pos + i - msCache.pos \in Int /\ r.pos + i - msCache.pos >= 0
        BY <2>2, <4>1, <4>2
      <4>4. r.pos + i - msCache.pos <= msCache.bufsize - 1
        BY <2>2, <4>1, <4>2
      <4> QED
        BY <4>2, <4>3, <4>4, <4>1
    <3> HIDE DEF k
    <3>2. k < MsCap /\ msCache.pos + k < MsSize /\ msBuf[k] = stick[msCache.pos + k]
      BY <2>2, <3>1 DEF MsHolds
    <3>3. k \in 0 .. MsCap - 1 /\ r.pos + i < MsSize /\ msBuf[k] = stick[r.pos + i]
      BY <2>1, <3>1, <3>2
    <3> QED
      BY <3>3 DEF k
  <2>4. n = r.len
    BY <2>1, <2>2 DEF MsMin
  <2>5. r.pos + (r.len - 1) < MsSize
    BY <2>1, <2>3
  <2>6. MsAvailable(r.pos, r.len) = r.len
    BY <2>1, <2>5 DEF MsAvailable, MsMin
  <2> HIDE DEF n
  <2>7. n = MsAvailable(r.pos, r.len)
    BY <2>4, <2>6
  <2>8. \A i \in 0 .. n - 1 : /\ r.pos + i - msCache.pos \in DOMAIN msBuf
                              /\ msBuf[r.pos + i - msCache.pos] = stick[r.pos + i]
    BY <2>1, <2>3, <2>4
  <2> QED
    BY <2>7, <2>8
<1> HIDE DEF right
<1> QED
  BY <1>1, <1>2, MsReturnsTrue, MsReturnStep

\* The fill happens with the buffer disabled.
LEMMA MsFillStep == ASSUME NEW c \in MsCallers, MsQuiet(c), MsFill(c) PROVE MsAfter
<1> DEFINE r == msCall[c]
           n == MsAvailable(r.pos, MsCap)
<1>1. msCall[c].pc = "Fill" /\ stick' = stick /\ msCache' = msCache
  BY MsFillCases DEF MsQuiet
<1>2. msCache'.pos = MsInvalid /\ MsCacheOk'
  BY <1>1 DEF MsQuiet, MsCallOk, MsCacheOk
<1>3. CASE MsFillsWhole(c)
  <2>1. /\ n \in Nat /\ msCall'[c].pc = "Filled" /\ msCall'[c].ret = n
        /\ msCall'[c].pos = r.pos /\ msCall'[c].len = r.len /\ msCall'[c].right = r.right
        /\ msCall'[c].want = MsSectors(stick, r.pos, MsMin(n, r.len))
        /\ \A d \in MsCallers : d # c => msCall'[d] = msCall[d]
    BY <1>3, MsFillsWholeFacts DEF MsQuiet
  <2>2. r.pos \in Nat /\ r.right /\ r.len >= 1 /\ MsCap \in Nat /\ DOMAIN msBuf = 0 .. MsCap - 1
    BY <1>1, MsAssumption DEF MsQuiet, MsCallOk, MsTypes, MsCallSet
  <2>3. n <= MsCap /\ \A i \in 0 .. n - 1 : r.pos + i < MsSize
    BY <2>2, MsAvailableFacts
  <2>4. msBuf' = [i \in 0 .. MsCap - 1 |-> IF i < n THEN stick[r.pos + i] ELSE msBuf[i]]
    BY <1>3, <2>2 DEF MsFillsWhole, MsFilledBuf
  <2> HIDE DEF n, r
  <2>5. \A i \in 0 .. n - 1 : i < MsCap /\ r.pos + i < MsSize /\ msBuf'[i] = stick'[r.pos + i]
    BY <1>1, <2>1, <2>2, <2>3, <2>4
  <2>7. MsCallOk(c)'
    BY <1>1, <1>2, <2>1, <2>2, <2>5 DEF MsCallOk, MsHolds, MsSectors
  <2>8. ASSUME NEW d \in MsCallers, d # c PROVE MsCallOk(d)'
    BY <1>1, <2>1, <2>8, MsOthersKept DEF MsQuiet
  <2> QED
    BY <1>2, <2>7, <2>8 DEF MsAfter
<1>4. CASE MsReturn(c, TRUE)
  <2>1. MsCallOk(c)' /\ \A d \in MsCallers : d # c => msCall'[d] = msCall[d]
    BY <1>4, MsReturned DEF MsQuiet
  <2>2. ASSUME NEW d \in MsCallers, d # c PROVE MsCallOk(d)'
    BY <1>1, <2>1, <2>2, MsOthersKept DEF MsQuiet
  <2> QED
    BY <1>2, <2>1, <2>2 DEF MsAfter
<1> QED
  BY <1>3, <1>4, MsFillCases DEF MsQuiet

\* The buffer is given the range that was filled, not the one that was asked for.
LEMMA MsFilledStep == ASSUME NEW c \in MsCallers, MsQuiet(c), MsFilled(c) PROVE MsAfter
<1> DEFINE r == msCall[c]
           n == MsMin(r.len, r.ret)
           right == [i \in 0 .. n - 1 |-> msBuf[i]] = r.want
<1>1. /\ r.pc = "Filled" /\ MsReturn(c, right) /\ right \in BOOLEAN
      /\ stick' = stick /\ msBuf' = msBuf
      /\ msCache' = [pos |-> r.pos, bufsize |-> r.ret]
  BY DEF MsFilled, MsBufSize
<1>2. /\ r.pos \in Nat /\ r.len \in Nat /\ r.ret \in Nat /\ r.right
      /\ msCache.pos = MsInvalid /\ MsHolds(r.pos, r.ret)
      /\ r.want = MsSectors(stick, r.pos, MsMin(r.ret, r.len))
  BY <1>1 DEF MsQuiet, MsCallOk, MsTypes, MsCallSet
<1>3. msCache'.pos = r.pos /\ msCache'.bufsize = r.ret /\ msCache' # msCache
  BY <1>1, <1>2 DEF MsInvalid
<1> HIDE DEF r
<1>4. right
  <2>1. n = MsMin(r.ret, r.len) /\ n \in Nat /\ n <= r.ret
    BY <1>2 DEF MsMin
  <2> HIDE DEF n
  <2>2. \A i \in 0 .. n - 1 : msBuf[i] = stick[r.pos + i]
    BY <1>2, <2>1 DEF MsHolds
  <2>3. [i \in 0 .. n - 1 |-> msBuf[i]] = [i \in 0 .. n - 1 |-> stick[r.pos + i]]
    BY <2>2
  <2> QED
    BY <1>2, <2>1, <2>3 DEF MsSectors
<1> HIDE DEF right
<1>5. MsCacheOk'
  <2>1. MsHolds(msCache.pos, msCache.bufsize)'
    BY <1>1, <1>2, <1>3 DEF MsHolds
  <2> QED
    BY <1>2, <1>3, <2>1 DEF MsCacheOk
<1>6. MsCallOk(c)' /\ \A d \in MsCallers : d # c => msCall'[d] = msCall[d]
  <2>1. MsReturn(c, TRUE)
    BY <1>1, <1>4, MsReturnsTrue
  <2> QED
    BY <2>1, MsReturned DEF MsQuiet
<1>7. ASSUME NEW d \in MsCallers, d # c PROVE MsCallOk(d)'
  <2>1. msCall[d].pc \notin {"Hit", "Fill", "Filled"}
    BY <1>3, <1>7 DEF MsQuiet, MsDisturbs
  <2>2. msCall[d].pc # "Write"
    BY <1>1, <1>7 DEF MsQuiet, MsFillInWrite, r
  <2>3. msCall[d]' = msCall[d] /\ MsCallOk(d)
    BY <1>6, <1>7 DEF MsQuiet
  <2> QED
    BY <2>1, <2>2, <2>3 DEF MsCallOk
<1> QED
  BY <1>5, <1>6, <1>7 DEF MsAfter

\* A long read leaves the buffer alone.
LEMMA MsDirectStep == ASSUME NEW c \in MsCallers, MsQuiet(c), MsDirect(c) PROVE MsAfter
BY MsReturnStep DEF MsDirect

\* The write touches nothing the buffer holds: it was disabled, or does not
\* overlap the buffer, and no fill is under way.
LEMMA MsWriteDeviceStep == ASSUME NEW c \in MsCallers, MsQuiet(c), MsWriteDevice(c) PROVE MsAfter
<1> DEFINE r == msCall[c]
<1>1. PICK k \in 0 .. r.len :
        /\ stick' = [a \in MsAddr |-> IF MsWithin(a, r.pos, k) THEN r.value ELSE stick[a]]
        /\ MsReturn(c, TRUE)
  BY DEF MsWriteDevice
<1>2. r.pc = "Write" /\ msCache' = msCache /\ msBuf' = msBuf
  BY DEF MsWriteDevice
<1>3. /\ r.pos \in Nat /\ r.len \in Nat /\ MsSize \in Nat
      /\ msCache.pos \in Int /\ msCache.bufsize \in Nat
  BY MsAssumption DEF MsQuiet, MsTypes, MsCallSet
<1>4. msCache.pos # MsInvalid =>
        /\ msCache.pos >= 0 /\ MsHolds(msCache.pos, msCache.bufsize)
        /\ \A i \in 0 .. msCache.bufsize - 1 : ~MsWithin(msCache.pos + i, r.pos, r.len)
  BY <1>2 DEF MsQuiet, MsCacheOk, MsCallOk
<1> HIDE DEF r
<1>5. msCache.pos # MsInvalid =>
        \A i \in 0 .. msCache.bufsize - 1 : stick'[msCache.pos + i] = stick[msCache.pos + i]
  <2>1. ASSUME msCache.pos # MsInvalid, NEW i \in 0 .. msCache.bufsize - 1
        PROVE  stick'[msCache.pos + i] = stick[msCache.pos + i]
    <3>1. msCache.pos + i \in MsAddr
      BY <1>3, <1>4, <2>1 DEF MsHolds, MsAddr
    <3>2. ~MsWithin(msCache.pos + i, r.pos, k)
      BY <1>1, <1>3, <1>4, <2>1 DEF MsWithin
    <3> QED
      BY <1>1, <3>1, <3>2
  <2> QED
    BY <2>1
<1>6. MsCacheOk'
  BY <1>2, <1>4, <1>5 DEF MsCacheOk, MsHolds
<1>7. MsCallOk(c)' /\ \A d \in MsCallers : d # c => msCall'[d] = msCall[d]
  BY <1>1, MsReturned DEF MsQuiet
<1>8. ASSUME NEW d \in MsCallers, d # c PROVE MsCallOk(d)'
  <2>1. msCall[d].pc \notin {"Fill", "Filled"}
    BY <1>2 DEF MsQuiet, MsFillInWrite, r
  <2>2. msCall[d]' = msCall[d] /\ MsCallOk(d)
    BY <1>7, <1>8 DEF MsQuiet
  <2> QED
    BY <1>2, <2>1, <2>2 DEF MsCallOk, MsHit
<1> QED
  BY <1>6, <1>7, <1>8 DEF MsAfter

-----------------------------------------------------------------------------
(* The theorems                                                            *)

\* The invariant at the start.
LEMMA MsInitInv == MsInit => MsInv
<1> SUFFICES ASSUME MsInit PROVE MsInv
  OBVIOUS
<1>1. MsIdle \in MsCallSet /\ MsDisabled \in [pos : Int, bufsize : Nat] /\ 0 \in MsByte
  BY DEF MsIdle, MsCallSet, MsWants, MsByte, MsDisabled, MsInvalid
<1>2. MsTypes
  BY <1>1 DEF MsInit, MsTypes
<1>3. MsCacheOk
  BY DEF MsInit, MsCacheOk, MsDisabled
<1>4. \A c \in MsCallers : msCall[c].pc = "idle" /\ msCall[c].right
  BY DEF MsInit, MsIdle
<1>5. ~MsFillInWrite
  BY <1>4 DEF MsFillInWrite
<1>6. \A c \in MsCallers : MsCallOk(c)
  BY <1>4 DEF MsCallOk
<1> QED
  BY <1>2, <1>3, <1>5, <1>6 DEF MsInv

\* A step of any caller keeps the invariant, or is the race that ends it.
LEMMA MsNextInv ==
    ASSUME MsInv, NEW c \in MsCallers, MsStep(c),
           msRaced' = (msRaced \/ MsDisturbs(c) \/ MsFillInWrite')
    PROVE  MsInv'
<1>1. MsTypes'
  <2>1. msRaced' \in BOOLEAN
    BY DEF MsInv, MsTypes
  <2> QED
    BY <2>1, MsStepTypes DEF MsInv, MsTypes
<1>2. CASE msRaced'
  BY <1>1, <1>2 DEF MsInv
<1>3. CASE ~msRaced'
  <2>1. MsQuiet(c) /\ ~MsFillInWrite'
    BY <1>1, <1>3 DEF MsQuiet, MsInv
  <2>2. ASSUME NEW pos \in 0 .. MsSize, NEW len \in 1 .. MsMaxLen PROVE pos \in Nat /\ len \in Nat /\ len >= 1
    BY MsAssumption
  <2>3. MsAddr \subseteq 0 .. MsSize
    BY MsAssumption DEF MsAddr
  <2>4. MsAfter
    BY <2>1, <2>2, <2>3, MsOpenStep, MsReadStep, MsWriteStep, MsHitCopyStep, MsFillStep,
       MsFilledStep, MsDirectStep, MsWriteDeviceStep DEF MsStep
  <2> QED
    BY <1>1, <2>1, <2>4 DEF MsInv, MsAfter
<1> QED
  BY <1>2, <1>3

\* The invariant has the two properties in it.
LEMMA MsInvImplies == MsInv => MsReadsRight /\ MsCacheCoherent
BY DEF MsInv, MsReadsRight, MsCacheCoherent, MsCallOk, MsCacheOk, MsHolds

\* The invariant holds in every state.
LEMMA MsSpecInv == MsSpec => []MsInv
<1>1. MsInv /\ [MsNext]_msVars => MsInv'
  <2> SUFFICES ASSUME MsInv, [MsNext]_msVars PROVE MsInv'
    OBVIOUS
  <2>1. CASE MsNext
    BY <2>1, MsNextInv DEF MsNext
  <2>2. CASE UNCHANGED msVars
    BY <2>2 DEF msVars, MsInv, MsTypes, MsCacheOk, MsHolds, MsFillInWrite, MsCallOk, MsHit, MsSectors
  <2> QED
    BY <2>1, <2>2
<1> QED
  BY <1>1, MsInitInv, PTL DEF MsSpec

\* Every read of the memory stick through the cache returns what was on the
\* stick when it was served (msstor_cache.c: msstor_cache_read), whatever the
\* sizes and the number of callers, until a read meets a call it should not.
THEOREM MsReadsRightTheorem == MsSpec => []MsReadsRight
BY MsSpecInv, MsInvImplies, PTL

\* The buffer of the cache never holds a sector the stick does not (the test and
\* the order of msstor_cache_write and disable_cache_within_range).
THEOREM MsCacheCoherentTheorem == MsSpec => []MsCacheCoherent
BY MsSpecInv, MsInvImplies, PTL

-----------------------------------------------------------------------------
\* Stargate's list.  The nodes in use are the smallest set that a walk from the head
\* does not leave, which no induction along the links is needed for.  A node is
\* taken out whole because only one node has it for its next, and a search for a
\* descriptor stops only at its node because no descriptor has two (DrmOnce).  A
\* search on its way has the node it looks for still in front of it, however the list
\* changes meanwhile (DrmAhead).

\* The nodes in use: remove_nodrm_fd frees the descriptor of a node it takes out.
DrmNodes == {n \in DrmNode : drmOf[n].fd # DrmNoFd}

DrmCallTypes ==
    [pc : {"idle", "close", "reopen", "add", "link", "search", "lost", "remove", "null"},
     fd : DrmFd \cup {DrmNoFd}, file : DrmFiles,
     op : {"none", "close", "setup", "mark", "clear"}, at : DrmNode \cup {DrmNoNode}]

DrmTypes ==
    /\ drmFile \in [DrmFd -> DrmFiles]
    /\ drmNext \in [DrmNode -> DrmNode \cup {DrmNoNode}]
    /\ drmOf \in [DrmNode -> [fd : DrmFd \cup {DrmNoFd}, setup : BOOLEAN]]
    /\ drmCall \in [DrmThreads -> DrmCallTypes]

\* Head and tail are both there or both not, the links lead from node to node in
\* use and end at the tail, and no node has two in front of it.
DrmLinked ==
    /\ drmHead \in DrmNodes \cup {DrmNoNode} /\ drmTail \in DrmNodes \cup {DrmNoNode}
    /\ drmHead = DrmNoNode <=> drmTail = DrmNoNode
    /\ \A n \in DrmNodes \ {drmTail} : drmNext[n] \in DrmNodes
    /\ \A n \in DrmNode : n \notin DrmNodes \/ n = drmTail => drmNext[n] = DrmNoNode
    /\ \A m, n \in DrmNodes : drmNext[m] = drmNext[n] /\ drmNext[m] # DrmNoNode => m = n
    /\ \A n \in DrmNodes : drmNext[n] # drmHead

\* A set of nodes that the walk from the head does not leave.
DrmClosed(S) ==
    /\ drmHead \in S \cup {DrmNoNode}
    /\ \A m \in S : drmNext[m] \in S \cup {DrmNoNode}

\* The walk from the head comes to every node in use.
DrmReached == \A S \in SUBSET DrmNode : DrmClosed(S) => DrmNodes \subseteq S

\* No descriptor has two nodes.
DrmOnce == \A m, n \in DrmNodes : drmOf[m].fd = drmOf[n].fd => m = n

DrmHas(fd) == \E n \in DrmNodes : drmOf[n].fd = fd

\* A file whose first bytes were seen was opened as it has to be.
DrmFits(file) == file.seen => (file.way = "plainly" <=> file.kind = "plain")

\* What holds of a descriptor that no call is busy with.
DrmQuietRight(fd) == (DrmHas(fd) <=> drmFile[fd].way = "plainly") /\ DrmFits(drmFile[fd])

\* What a call on its way knows of its descriptor.
DrmCallRight(c) ==
    /\ c.pc \in {"idle", "close", "reopen", "add", "link", "search", "remove"}
    /\ c.fd = DrmNoFd <=> c.pc \in {"idle", "reopen"}
    /\ c.pc \in {"close", "reopen"} => DrmFits(c.file) /\ c.file.way # "none"
    /\ c.pc \in {"close", "add"} => ~DrmHas(c.fd) /\ drmFile[c.fd].way = "plainly"
    /\ c.pc = "link" => DrmHas(c.fd) /\ drmFile[c.fd].way = "plainly"
    /\ c.pc \in {"add", "link"} => DrmFits(drmFile[c.fd])
    /\ c.pc = "search" => /\ DrmQuietRight(c.fd) /\ drmFile[c.fd].way # "none"
                          /\ c.op # "none" /\ (c.op = "mark" => DrmHas(c.fd))
    /\ c.pc = "remove" => DrmHas(c.fd) /\ drmFile[c.fd] = DrmNoFile

\* A descriptor is in one call at most.
DrmCalls ==
    /\ \A t \in DrmThreads : DrmCallRight(drmCall[t])
    /\ \A t, u \in DrmThreads : drmCall[t].fd = drmCall[u].fd /\ drmCall[t].fd # DrmNoFd => t = u
    /\ \A fd \in DrmFd : (\A t \in DrmThreads : drmCall[t].fd # fd) => DrmQuietRight(fd)

\* A walk that goes on from node at, not past a node of fd, meets the node of fd.
DrmAhead(fd, at) ==
    /\ at \in DrmNodes \cup {DrmNoNode}
    /\ \A S \in SUBSET DrmNode :
          /\ at \in S \cup {DrmNoNode}
          /\ \A m \in S : drmOf[m].fd # fd => drmNext[m] \in S \cup {DrmNoNode}
          => \A n \in DrmNodes : drmOf[n].fd = fd => n \in S

DrmCursors == \A t \in DrmThreads : drmCall[t].pc = "search" => DrmAhead(drmCall[t].fd, drmCall[t].at)

DrmChain == DrmLinked /\ DrmReached /\ DrmOnce

DrmGood == DrmTypes /\ DrmChain /\ DrmCalls /\ DrmCursors

\* Once the exception of the property has happened the list has no promise to keep.
DrmInv == drmExcused \in BOOLEAN /\ (~drmExcused => DrmGood)

LEMMA DrmNodesType == DrmNodes \subseteq DrmNode /\ DrmNoNode \notin DrmNodes
  BY DrmAssumption DEF DrmNodes

\* A search for a descriptor that no node has looks at all nodes, one for a
\* descriptor finds its node.
LEMMA DrmSearchesRight ==
    ASSUME DrmTypes, DrmLinked, DrmReached, DrmOnce
    PROVE  /\ DrmSearched(DrmNoFd) = DrmNodes
           /\ \A fd \in DrmFd : \A n \in DrmNodes : drmOf[n].fd = fd => DrmFound(fd) = n
           /\ \A fd \in DrmFd : (\A n \in DrmNodes : drmOf[n].fd # fd) => DrmFound(fd) = DrmNoNode
<1>1. \A m \in DrmNode : m \notin DrmNodes => drmOf[m].fd = DrmNoFd /\ drmNext[m] = DrmNoNode
  BY DEF DrmNodes, DrmLinked
<1>2. DrmClosed(DrmNodes)
  BY DrmNodesType DEF DrmClosed, DrmLinked
<1>3. DrmSearched(DrmNoFd) \subseteq DrmNodes
  <2> SUFFICES ASSUME NEW n \in DrmSearched(DrmNoFd) PROVE n \in DrmNodes
    OBVIOUS
  <2>1. DrmNodes \in SUBSET DrmNode
    BY DrmNodesType
  <2> QED BY <1>2, <2>1 DEF DrmSearched, DrmClosed
<1>4. DrmNodes \subseteq DrmSearched(DrmNoFd)
  <2> SUFFICES ASSUME NEW n \in DrmNodes, NEW S \in SUBSET DrmNode, drmHead \in S \cup {DrmNoNode},
                      \A m \in S : drmOf[m].fd # DrmNoFd => drmNext[m] \in S \cup {DrmNoNode}
               PROVE  n \in S
    BY DrmNodesType DEF DrmSearched
  <2>1. DrmClosed(S)
    BY <1>1 DEF DrmClosed, DrmNodes
  <2> QED BY <2>1 DEF DrmReached
<1>5. ASSUME NEW fd \in DrmFd, NEW n \in DrmNodes, drmOf[n].fd = fd
      PROVE  DrmFound(fd) = n
  <2>1. n \in DrmSearched(fd)
    <3> SUFFICES ASSUME NEW S \in SUBSET DrmNode, drmHead \in S \cup {DrmNoNode}, n \notin S,
                        \A m \in S : drmOf[m].fd # fd => drmNext[m] \in S \cup {DrmNoNode}
                 PROVE  FALSE
      BY DrmNodesType DEF DrmSearched
    <3>1. \A m \in S : drmOf[m].fd # fd
      BY <1>1, <1>5, DrmAssumption DEF DrmOnce
    <3>2. DrmClosed(S)
      BY <3>1 DEF DrmClosed
    <3> QED BY <3>2 DEF DrmReached
  <2>2. \A m \in DrmSearched(fd) : drmOf[m].fd = fd => m = n
    BY <1>1, <1>5, DrmAssumption DEF DrmSearched, DrmOnce
  <2>3. {m \in DrmSearched(fd) : drmOf[m].fd = fd} = {n}
    BY <1>5, <2>1, <2>2
  <2> QED BY <2>3 DEF DrmFound
<1>6. ASSUME NEW fd \in DrmFd, \A n \in DrmNodes : drmOf[n].fd # fd
      PROVE  DrmFound(fd) = DrmNoNode
  <2>1. {m \in DrmSearched(fd) : drmOf[m].fd = fd} = {}
    BY <1>1, <1>6, DrmAssumption DEF DrmSearched
  <2> QED BY <2>1 DEF DrmFound
<1> QED BY <1>3, <1>4, <1>5, <1>6

\* add_nodrm_fd: the list stays linked and has one node more.
LEMMA DrmAddKeeps ==
    ASSUME DrmTypes, DrmLinked, DrmReached, NEW fd \in DrmFd, DrmAdd(fd)
    PROVE  /\ drmNext' \in [DrmNode -> DrmNode \cup {DrmNoNode}]
           /\ drmOf' \in [DrmNode -> [fd : DrmFd \cup {DrmNoFd}, setup : BOOLEAN]]
           /\ DrmLinked' /\ DrmReached'
           /\ \E n \in DrmNode \ DrmNodes :
                 /\ DrmNodes' = DrmNodes \cup {n} /\ drmOf'[n].fd = fd
                 /\ \A m \in DrmNodes : drmOf'[m].fd = drmOf[m].fd
<1>1. PICK n \in {m \in DrmNode : drmOf[m].fd = DrmNoFd} :
        /\ drmOf' = [drmOf EXCEPT ![n] = [fd |-> fd, setup |-> FALSE]]
        /\ drmNext' = [m \in DrmNode |-> IF m = n THEN DrmNoNode
                                         ELSE IF m = drmTail THEN n ELSE drmNext[m]]
        /\ drmHead' = IF drmTail = DrmNoNode THEN n ELSE drmHead
        /\ drmTail' = n
  BY DEF DrmAdd
<1>2. n \in DrmNode \ DrmNodes /\ n # DrmNoNode
  BY <1>1, DrmAssumption DEF DrmNodes
<1>3. drmNext' \in [DrmNode -> DrmNode \cup {DrmNoNode}]
  BY <1>1 DEF DrmTypes
<1>4. drmOf' \in [DrmNode -> [fd : DrmFd \cup {DrmNoFd}, setup : BOOLEAN]]
  BY <1>1 DEF DrmTypes
<1>5. drmOf'[n].fd = fd /\ \A m \in DrmNode \ {n} : drmOf'[m] = drmOf[m]
  BY <1>1 DEF DrmTypes
<1>6. DrmNodes' = DrmNodes \cup {n}
  BY <1>2, <1>5, DrmAssumption DEF DrmNodes
<1>7. drmNext'[n] = DrmNoNode /\ (drmTail # DrmNoNode => drmNext'[drmTail] = n)
      /\ \A m \in DrmNode \ {n, drmTail} : drmNext'[m] = drmNext[m]
  BY <1>1, <1>2, DrmNodesType DEF DrmLinked
<1>8. drmTail = DrmNoNode => DrmNodes = {}
  <2> SUFFICES ASSUME drmTail = DrmNoNode PROVE DrmNodes = {}
    OBVIOUS
  <2>1. DrmClosed({})
    BY DEF DrmClosed, DrmLinked
  <2> QED BY <2>1 DEF DrmReached
<1>9. DrmLinked'
  <2>1. drmHead' \in DrmNodes' \cup {DrmNoNode} /\ drmTail' \in DrmNodes' \cup {DrmNoNode}
        /\ drmHead' # DrmNoNode /\ drmTail' # DrmNoNode
    BY <1>1, <1>2, <1>6 DEF DrmLinked
  <2>2. \A m \in DrmNodes' \ {drmTail'} : drmNext'[m] \in DrmNodes'
    BY <1>1, <1>2, <1>6, <1>7, DrmNodesType DEF DrmLinked
  <2>3. \A m \in DrmNode : m \notin DrmNodes' \/ m = drmTail' => drmNext'[m] = DrmNoNode
    <3>1. ASSUME NEW m \in DrmNode, m \notin DrmNodes'
          PROVE  m # n /\ m # drmTail /\ m \notin DrmNodes
      BY <1>6, <3>1, DrmAssumption DEF DrmLinked
    <3> QED BY <1>1, <1>7, <3>1 DEF DrmLinked
  <2>4. \A a, b \in DrmNodes' : drmNext'[a] = drmNext'[b] /\ drmNext'[a] # DrmNoNode => a = b
    <3>1. \A m \in DrmNodes \ {drmTail} : drmNext'[m] = drmNext[m] /\ drmNext[m] \in DrmNodes
      BY <1>2, <1>7, DrmNodesType DEF DrmLinked
    <3>2. \A a, b \in DrmNodes \ {drmTail} : drmNext'[a] = drmNext'[b] => a = b
      BY <3>1, DrmNodesType DEF DrmLinked
    <3>3. \A a \in DrmNodes \ {drmTail} : drmNext'[a] # n
      BY <1>2, <3>1
    <3>4. \A a \in DrmNodes' : a \in DrmNodes \ {drmTail} \/ a = n \/ (a = drmTail /\ drmTail # DrmNoNode)
      BY <1>6, DrmNodesType
    <3> QED BY <1>7, <3>2, <3>3, <3>4
  <2>5. \A m \in DrmNodes' : drmNext'[m] # drmHead'
    <3>1. CASE drmTail = DrmNoNode
      BY <1>1, <1>2, <1>6, <1>7, <1>8, <3>1
    <3>2. CASE drmTail # DrmNoNode
      <4>1. drmHead' = drmHead /\ drmHead \in DrmNodes /\ drmHead # n
        BY <1>1, <1>2, <3>2 DEF DrmLinked
      <4>2. \A m \in DrmNodes \ {drmTail} : drmNext'[m] = drmNext[m]
        BY <1>2, <1>7, DrmNodesType
      <4> QED BY <1>2, <1>6, <1>7, <3>2, <4>1, <4>2, DrmNodesType DEF DrmLinked
    <3> QED BY <3>1, <3>2
  <2> QED BY <2>1, <2>2, <2>3, <2>4, <2>5 DEF DrmLinked
<1>10. DrmReached'
  <2> SUFFICES ASSUME NEW S \in SUBSET DrmNode, DrmClosed(S)' PROVE DrmNodes' \subseteq S
    BY DEF DrmReached
  <2>1. drmHead' \in S \cup {DrmNoNode} /\ \A m \in S : drmNext'[m] \in S \cup {DrmNoNode}
    BY DEF DrmClosed
  <2>2. CASE drmTail = DrmNoNode
    BY <1>1, <1>2, <1>6, <1>8, <2>1, <2>2
  <2>3. CASE drmTail # DrmNoNode
    <3>1. drmHead \in S \cup {DrmNoNode}
      BY <1>1, <2>1, <2>3
    <3>2. \A m \in S : drmNext[m] \in S \cup {DrmNoNode}
      BY <1>2, <1>7, <2>1 DEF DrmLinked
    <3>3. DrmNodes \subseteq S
      BY <3>1, <3>2 DEF DrmReached, DrmClosed
    <3>4. n \in S
      BY <1>2, <1>7, <2>1, <2>3, <3>3 DEF DrmLinked
    <3> QED BY <1>6, <3>3, <3>4
  <2> QED BY <2>2, <2>3
<1> QED BY <1>2, <1>3, <1>4, <1>5, <1>6, <1>9, <1>10, DrmNodesType

\* The node that the loop of remove_nodrm_fd has in front of n.
LEMMA DrmPrevRight ==
    ASSUME DrmTypes, DrmLinked, DrmReached, NEW n \in DrmNodes
    PROVE  /\ drmHead = n => DrmPrev(n) = DrmNoNode
           /\ drmHead # n => DrmPrev(n) \in DrmNodes \ {n} /\ drmNext[DrmPrev(n)] = n
           /\ drmNext[n] # n
<1>1. ASSUME drmHead # n, \A m \in DrmNodes \ {n} : drmNext[m] # n
      PROVE  FALSE
  <2> DEFINE S == DrmNodes \ {n}
  <2>1. drmHead \in S \cup {DrmNoNode}
    BY <1>1 DEF DrmLinked
  <2>2. \A m \in S : drmNext[m] \in S \cup {DrmNoNode}
    BY <1>1, DrmNodesType DEF DrmLinked
  <2>3. S \in SUBSET DrmNode
    BY DrmNodesType
  <2> QED BY <2>1, <2>2, <2>3 DEF DrmReached, DrmClosed
<1>2. drmNext[n] # n
  <2>1. CASE drmHead = n
    BY <2>1 DEF DrmLinked
  <2>2. CASE drmHead # n
    <3>1. PICK m \in DrmNodes \ {n} : drmNext[m] = n
      BY <1>1, <2>2
    <3> QED BY <3>1, DrmNodesType DEF DrmLinked
  <2> QED BY <2>1, <2>2
<1>3. ASSUME drmHead # n
      PROVE  DrmPrev(n) \in DrmNodes \ {n} /\ drmNext[DrmPrev(n)] = n
  <2>1. PICK m \in DrmNodes \ {n} : drmNext[m] = n
    BY <1>1, <1>3
  <2>2. DrmPrev(n) = CHOOSE p \in DrmNode : drmOf[p].fd # DrmNoFd /\ drmNext[p] = n
    BY <1>3 DEF DrmPrev
  <2>3. m \in DrmNode /\ drmOf[m].fd # DrmNoFd /\ drmNext[m] = n
    BY <2>1 DEF DrmNodes
  <2>4. DrmPrev(n) \in DrmNode /\ drmOf[DrmPrev(n)].fd # DrmNoFd /\ drmNext[DrmPrev(n)] = n
    BY <2>2, <2>3
  <2> QED BY <1>2, <2>4 DEF DrmNodes
<1> QED BY <1>2, <1>3 DEF DrmPrev

\* remove_nodrm_fd: the list stays linked and has one node less.
LEMMA DrmRemoveKeeps ==
    ASSUME DrmTypes, DrmLinked, DrmReached, NEW fd \in DrmFd, DrmFound(fd) \in DrmNodes, DrmRemove(fd)
    PROVE  /\ drmNext' \in [DrmNode -> DrmNode \cup {DrmNoNode}]
           /\ drmOf' \in [DrmNode -> [fd : DrmFd \cup {DrmNoFd}, setup : BOOLEAN]]
           /\ DrmLinked' /\ DrmReached'
           /\ DrmNodes' = DrmNodes \ {DrmFound(fd)}
           /\ \A m \in DrmNodes' : drmOf'[m].fd = drmOf[m].fd
<1> DEFINE n == DrmFound(fd)
           prev == DrmPrev(n)
<1>0. n \in DrmNodes /\ n \in DrmNode /\ n # DrmNoNode
  BY DrmNodesType
<1>1. /\ drmHead' = IF drmHead = n THEN drmNext[n] ELSE drmHead
      /\ drmNext' = [m \in DrmNode |-> IF m = n THEN DrmNoNode
                                       ELSE IF m = prev THEN drmNext[n] ELSE drmNext[m]]
      /\ drmTail' = IF drmTail = n THEN prev ELSE drmTail
      /\ drmOf' = [drmOf EXCEPT ![n] = [fd |-> DrmNoFd, setup |-> FALSE]]
  BY <1>0 DEF DrmRemove, DrmTailAfter
<1> HIDE DEF n
<1>2. /\ drmHead = n => prev = DrmNoNode
      /\ drmHead # n => prev \in DrmNodes \ {n} /\ drmNext[prev] = n
      /\ drmNext[n] # n
  BY <1>0, DrmPrevRight
<1> HIDE DEF prev
<1>3. drmNext' \in [DrmNode -> DrmNode \cup {DrmNoNode}]
  BY <1>0, <1>1 DEF DrmTypes
<1>4. drmOf' \in [DrmNode -> [fd : DrmFd \cup {DrmNoFd}, setup : BOOLEAN]]
  BY <1>0, <1>1 DEF DrmTypes
<1>5. drmOf'[n].fd = DrmNoFd /\ \A m \in DrmNode \ {n} : drmOf'[m] = drmOf[m]
  BY <1>0, <1>1 DEF DrmTypes
<1>6. DrmNodes' = DrmNodes \ {n}
  BY <1>0, <1>5 DEF DrmNodes
<1>7. drmNext'[n] = DrmNoNode /\ (drmHead # n => drmNext'[prev] = drmNext[n])
      /\ \A m \in DrmNode \ {n, prev} : drmNext'[m] = drmNext[m]
  BY <1>0, <1>1, <1>2, DrmNodesType
<1>8. drmNext[n] \in (DrmNodes \ {n}) \cup {DrmNoNode} /\ (drmNext[n] = DrmNoNode <=> n = drmTail)
  BY <1>0, <1>2, DrmNodesType DEF DrmLinked
<1>9. drmHead = n /\ drmTail = n => DrmNodes = {n}
  <2> SUFFICES ASSUME drmHead = n, drmTail = n PROVE DrmNodes = {n}
    OBVIOUS
  <2>1. DrmClosed({n})
    BY <1>0, <1>8 DEF DrmClosed
  <2> QED BY <1>0, <2>1 DEF DrmReached
<1>10. \A m \in DrmNodes \ {n, prev} : drmNext[m] # n
  <2>1. CASE drmHead = n
    BY <2>1 DEF DrmLinked
  <2>2. CASE drmHead # n
    BY <1>0, <1>2, <2>2 DEF DrmLinked
  <2> QED BY <2>1, <2>2
<1>11. \A m \in DrmNodes \ {n, prev} : drmNext'[m] = drmNext[m]
                                       /\ (drmNext[m] # drmNext[n] \/ drmNext[m] = DrmNoNode)
  BY <1>0, <1>7, DrmNodesType DEF DrmLinked
<1>12. DrmLinked'
  <2>1. drmHead' \in DrmNodes' \cup {DrmNoNode} /\ drmTail' \in DrmNodes' \cup {DrmNoNode}
    BY <1>0, <1>1, <1>2, <1>6, <1>8 DEF DrmLinked
  <2>2. drmHead' = DrmNoNode <=> drmTail' = DrmNoNode
    <3>1. CASE drmHead = n /\ drmTail = n
      BY <1>1, <1>2, <1>8, <3>1
    <3>2. CASE drmHead = n /\ drmTail # n
      BY <1>0, <1>1, <1>8, <3>2 DEF DrmLinked
    <3>3. CASE drmHead # n
      BY <1>0, <1>1, <1>2, <3>3, DrmNodesType DEF DrmLinked
    <3> QED BY <3>1, <3>2, <3>3
  <2>3. \A m \in DrmNodes' \ {drmTail'} : drmNext'[m] \in DrmNodes'
    <3> SUFFICES ASSUME NEW m \in DrmNodes, m # n, m # drmTail' PROVE drmNext'[m] \in DrmNodes \ {n}
      BY <1>6
    <3>1. CASE m = prev
      <4>1. drmHead # n
        BY <1>2, <3>1, DrmNodesType
      <4> QED BY <1>1, <1>7, <1>8, <3>1, <4>1
    <3>2. CASE m # prev
      <4>1. m # drmTail
        BY <1>1, <3>2
      <4>2. drmNext[m] \in DrmNodes
        BY <4>1 DEF DrmLinked
      <4> QED BY <1>7, <1>10, <3>2, <4>2, DrmNodesType
    <3> QED BY <3>1, <3>2
  <2>4. \A m \in DrmNode : m \notin DrmNodes' \/ m = drmTail' => drmNext'[m] = DrmNoNode
    <3> SUFFICES ASSUME NEW m \in DrmNode, m # n, m \notin DrmNodes \/ m = drmTail'
                 PROVE  drmNext'[m] = DrmNoNode
      BY <1>6, <1>7
    <3>1. CASE m \notin DrmNodes
      <4>1. m # prev
        BY <1>2, <3>1, DrmAssumption
      <4> QED BY <1>7, <3>1, <4>1 DEF DrmLinked
    <3>2. CASE m = drmTail' /\ drmTail = n
      <4>1. m = prev /\ drmHead # n
        BY <1>1, <1>2, <3>2, DrmAssumption
      <4> QED BY <1>7, <1>8, <3>2, <4>1
    <3>3. CASE m = drmTail' /\ drmTail # n
      <4>1. m = drmTail /\ drmNext[m] = DrmNoNode
        BY <1>1, <3>3 DEF DrmLinked
      <4>2. m # prev
        BY <1>0, <1>2, <4>1, DrmAssumption
      <4> QED BY <1>7, <4>1, <4>2
    <3> QED BY <3>1, <3>2, <3>3
  <2>5. \A a, b \in DrmNodes' : drmNext'[a] = drmNext'[b] /\ drmNext'[a] # DrmNoNode => a = b
    <3> SUFFICES ASSUME NEW a \in DrmNodes, NEW b \in DrmNodes, a # n, b # n,
                        drmNext'[a] = drmNext'[b], drmNext'[a] # DrmNoNode
                 PROVE  a = b
      BY <1>6
    <3>1. prev \in DrmNodes => drmNext'[prev] = drmNext[n]
      BY <1>2, <1>7, DrmNodesType
    <3>2. CASE a # prev /\ b # prev
      BY <1>7, <3>2, DrmNodesType DEF DrmLinked
    <3>3. CASE a = prev /\ b # prev
      BY <1>11, <3>1, <3>3
    <3>4. CASE a # prev /\ b = prev
      BY <1>11, <3>1, <3>4
    <3> QED BY <3>2, <3>3, <3>4
  <2>6. \A m \in DrmNodes' : drmNext'[m] # drmHead'
    <3> SUFFICES ASSUME NEW m \in DrmNodes, m # n PROVE drmNext'[m] # drmHead'
      BY <1>6
    <3>1. CASE drmHead = n
      <4>1. m # prev /\ drmHead' = drmNext[n] /\ drmNext'[m] = drmNext[m]
        BY <1>1, <1>2, <1>7, <3>1, DrmNodesType
      <4>2. drmHead' = DrmNoNode => DrmNodes = {n}
        BY <1>8, <1>9, <3>1, <4>1
      <4> QED BY <1>0, <4>1, <4>2, DrmNodesType DEF DrmLinked
    <3>2. CASE drmHead # n
      <4>1. drmHead' = drmHead
        BY <1>1, <3>2
      <4>2. drmNext'[m] = drmNext[m] \/ drmNext'[m] = drmNext[n]
        BY <1>7, <3>2, DrmNodesType
      <4> QED BY <1>0, <4>1, <4>2 DEF DrmLinked
    <3> QED BY <3>1, <3>2
  <2> QED BY <2>1, <2>2, <2>3, <2>4, <2>5, <2>6 DEF DrmLinked
<1>13. DrmReached'
  <2> SUFFICES ASSUME NEW S \in SUBSET DrmNode, DrmClosed(S)' PROVE DrmNodes \ {n} \subseteq S
    BY <1>6 DEF DrmReached
  <2>1. drmHead' \in S \cup {DrmNoNode} /\ \A m \in S : drmNext'[m] \in S \cup {DrmNoNode}
    BY DEF DrmClosed
  <2>2. \A m \in DrmNode \ DrmNodes : drmNext[m] = DrmNoNode
    BY DEF DrmLinked
  <2>3. CASE drmHead = n \/ prev \in S
    <3> DEFINE R == S \cup {n}
    <3>1. drmNext[n] \in S \cup {DrmNoNode}
      BY <1>1, <1>2, <1>7, <2>1, <2>3
    <3>2. drmHead \in R \cup {DrmNoNode}
      BY <1>1, <2>1
    <3>3. ASSUME NEW m \in S PROVE drmNext[m] \in R \cup {DrmNoNode}
      <4>1. CASE m = n
        BY <3>1, <4>1
      <4>2. CASE m = prev
        BY <1>2, <3>3, <4>2, DrmAssumption
      <4>3. CASE m # n /\ m # prev
        BY <1>7, <2>1, <3>3, <4>3
      <4> QED BY <4>1, <4>2, <4>3
    <3>4. R \in SUBSET DrmNode /\ DrmClosed(R)
      BY <1>0, <3>1, <3>2, <3>3 DEF DrmClosed
    <3>5. DrmNodes \subseteq R
      BY <3>4 DEF DrmReached
    <3> QED BY <3>5
  <2>4. CASE drmHead # n /\ prev \notin S
    <3> DEFINE R == S \ {n}
    <3>1. drmHead \in R \cup {DrmNoNode}
      BY <1>1, <2>1, <2>4
    <3>2. ASSUME NEW m \in R PROVE drmNext[m] \in R \cup {DrmNoNode}
      <4>1. m # n /\ m # prev /\ m \in DrmNode /\ drmNext'[m] = drmNext[m]
        BY <1>7, <2>4
      <4>2. drmNext[m] # n
        BY <1>0, <1>10, <2>2, <4>1
      <4> QED BY <2>1, <4>1, <4>2
    <3>3. R \in SUBSET DrmNode /\ DrmClosed(R)
      BY <3>1, <3>2 DEF DrmClosed
    <3>4. DrmNodes \subseteq R
      BY <3>3 DEF DrmReached
    <3> QED BY <3>4
  <2> QED BY <2>3, <2>4
<1> QED BY <1>3, <1>4, <1>5, <1>6, <1>12, <1>13, DrmNodesType DEF n

-----------------------------------------------------------------------------
\* The searches on their way.

\* A search that begins at the head has its node in front of it.
LEMMA DrmAheadBegins ==
    ASSUME DrmTypes, DrmChain, NEW fd \in DrmFd
    PROVE  DrmAhead(fd, drmHead)
<1>1. drmHead \in DrmNodes \cup {DrmNoNode}
  BY DEF DrmChain, DrmLinked
<1>2. ASSUME NEW S \in SUBSET DrmNode, drmHead \in S \cup {DrmNoNode},
             \A m \in S : drmOf[m].fd # fd => drmNext[m] \in S \cup {DrmNoNode},
             NEW n \in DrmNodes, drmOf[n].fd = fd, n \notin S
      PROVE  FALSE
  <2>1. \A m \in S : drmOf[m].fd # fd
    <3> SUFFICES ASSUME NEW m \in S, drmOf[m].fd = fd PROVE FALSE
      OBVIOUS
    <3>1. m \in DrmNodes
      BY DrmAssumption DEF DrmNodes
    <3> QED BY <1>2, <3>1 DEF DrmChain, DrmOnce
  <2>2. DrmClosed(S)
    BY <1>2, <2>1 DEF DrmClosed
  <2> QED BY <1>2, <2>2 DEF DrmChain, DrmReached
<1> QED BY <1>1, <1>2 DEF DrmAhead

\* One that goes past a node of another descriptor still has.
LEMMA DrmAheadPasses ==
    ASSUME DrmTypes, DrmChain, NEW fd \in DrmFd, NEW at \in DrmNode, DrmAhead(fd, at), drmOf[at].fd # fd
    PROVE  DrmAhead(fd, drmNext[at])
<1>1. at \in DrmNodes
  BY DrmAssumption DEF DrmAhead
<1>2. drmNext[at] \in DrmNodes \cup {DrmNoNode}
  BY <1>1, DrmNodesType DEF DrmChain, DrmLinked
<1>3. ASSUME NEW S \in SUBSET DrmNode, drmNext[at] \in S \cup {DrmNoNode},
             \A m \in S : drmOf[m].fd # fd => drmNext[m] \in S \cup {DrmNoNode},
             NEW n \in DrmNodes, drmOf[n].fd = fd
      PROVE  n \in S
  <2> DEFINE R == S \cup {at}
  <2>1. R \in SUBSET DrmNode /\ at \in R \cup {DrmNoNode}
    OBVIOUS
  <2>2. \A m \in R : drmOf[m].fd # fd => drmNext[m] \in R \cup {DrmNoNode}
    BY <1>3
  <2> HIDE DEF R
  <2>3. n \in R
    BY <1>3, <2>1, <2>2 DEF DrmAhead
  <2> QED BY <1>3, <2>3 DEF R
<1> QED BY <1>2, <1>3 DEF DrmAhead

\* One that has come to the end has looked at every node.
LEMMA DrmAheadEnds ==
    ASSUME NEW fd \in DrmFd, DrmAhead(fd, DrmNoNode)
    PROVE  ~DrmHas(fd)
<1>1. {} \in SUBSET DrmNode /\ DrmNoNode \in {} \cup {DrmNoNode}
  OBVIOUS
<1> QED BY <1>1 DEF DrmAhead, DrmHas

\* The marks of the nodes are nothing to the list.
LEMMA DrmListSame ==
    ASSUME DrmTypes, UNCHANGED <<drmHead, drmNext, drmTail>>, \A n \in DrmNode : drmOf'[n].fd = drmOf[n].fd
    PROVE  /\ DrmChain => DrmChain'
           /\ DrmNodes' = DrmNodes
           /\ \A fd : DrmHas(fd)' <=> DrmHas(fd)
           /\ \A fd, at : DrmAhead(fd, at) => DrmAhead(fd, at)'
<1>1. DrmNodes' = DrmNodes
  BY DEF DrmNodes
<1>2. DrmLinked => DrmLinked'
  BY <1>1 DEF DrmLinked
<1>3. DrmReached => DrmReached'
  BY <1>1 DEF DrmReached, DrmClosed
<1>4. DrmOnce => DrmOnce'
  BY <1>1, DrmNodesType DEF DrmOnce
<1>5. \A fd : DrmHas(fd)' <=> DrmHas(fd)
  BY <1>1, DrmNodesType DEF DrmHas
<1>6. ASSUME NEW fd, NEW at, DrmAhead(fd, at) PROVE DrmAhead(fd, at)'
  BY <1>1, <1>6, DrmNodesType DEF DrmAhead
<1> QED BY <1>1, <1>2, <1>3, <1>4, <1>5, <1>6 DEF DrmChain

\* A node for another descriptor comes in behind the last one.
LEMMA DrmAheadAdds ==
    ASSUME DrmTypes, DrmChain, NEW g \in DrmFd, DrmAdd(g), NEW fd \in DrmFd, fd # g,
           NEW at, DrmAhead(fd, at)
    PROVE  DrmAhead(fd, at)'
<1>1. PICK x \in {m \in DrmNode : drmOf[m].fd = DrmNoFd} :
        /\ drmOf' = [drmOf EXCEPT ![x] = [fd |-> g, setup |-> FALSE]]
        /\ drmNext' = [m \in DrmNode |-> IF m = x THEN DrmNoNode
                                         ELSE IF m = drmTail THEN x ELSE drmNext[m]]
        /\ drmHead' = IF drmTail = DrmNoNode THEN x ELSE drmHead
        /\ drmTail' = x
  BY DEF DrmAdd
<1>2. x \in DrmNode \ DrmNodes
  BY <1>1 DEF DrmNodes
<1>3. drmOf'[x].fd = g /\ \A m \in DrmNode \ {x} : drmOf'[m] = drmOf[m]
  BY <1>1 DEF DrmTypes
<1>4. DrmNodes' = DrmNodes \cup {x}
  BY <1>2, <1>3, DrmAssumption DEF DrmNodes
<1>5. \A m \in DrmNode \ {x, drmTail} : drmNext'[m] = drmNext[m]
  BY <1>1
<1>6. at \in DrmNodes' \cup {DrmNoNode}
  BY <1>4 DEF DrmAhead
<1>7. ASSUME NEW S \in SUBSET DrmNode, at \in S \cup {DrmNoNode},
             \A m \in S : drmOf'[m].fd # fd => drmNext'[m] \in S \cup {DrmNoNode},
             NEW n \in DrmNodes', drmOf'[n].fd = fd
      PROVE  n \in S
  <2> DEFINE R == S \ {x}
  <2>1. R \in SUBSET DrmNode /\ at \in R \cup {DrmNoNode}
    BY <1>2, <1>7, DrmAssumption DEF DrmAhead
  <2>2. ASSUME NEW m \in R, drmOf[m].fd # fd PROVE drmNext[m] \in R \cup {DrmNoNode}
    <3>1. CASE m = drmTail
      BY <3>1 DEF DrmChain, DrmLinked
    <3>2. CASE m # drmTail
      <4>1. drmNext[m] \in S \cup {DrmNoNode}
        BY <1>3, <1>5, <1>7, <2>2, <3>2
      <4>2. drmNext[m] \in DrmNodes \cup {DrmNoNode}
        BY <3>2, DrmNodesType DEF DrmChain, DrmLinked
      <4> QED BY <1>2, <4>1, <4>2
    <3> QED BY <3>1, <3>2
  <2>3. n # x /\ n \in DrmNodes /\ drmOf[n].fd = fd
    BY <1>2, <1>3, <1>4, <1>7, DrmNodesType
  <2> HIDE DEF R
  <2>4. n \in R
    BY <2>1, <2>2, <2>3 DEF DrmAhead
  <2> QED BY <2>4 DEF R
<1> QED BY <1>6, <1>7 DEF DrmAhead

\* A node of another descriptor goes, on which the search does not stand.
LEMMA DrmAheadRemoves ==
    ASSUME DrmTypes, DrmChain, NEW g \in DrmFd, DrmFound(g) \in DrmNodes, drmOf[DrmFound(g)].fd = g,
           DrmRemove(g), NEW fd \in DrmFd, fd # g, NEW at, DrmAhead(fd, at), at # DrmFound(g)
    PROVE  DrmAhead(fd, at)'
<1> DEFINE r == DrmFound(g)
           prev == DrmPrev(r)
<1>0. r \in DrmNodes /\ r \in DrmNode /\ r # DrmNoNode /\ drmOf[r].fd = g /\ at # r
  BY DrmNodesType
<1>1. /\ drmNext' = [m \in DrmNode |-> IF m = r THEN DrmNoNode
                                       ELSE IF m = prev THEN drmNext[r] ELSE drmNext[m]]
      /\ drmOf' = [drmOf EXCEPT ![r] = [fd |-> DrmNoFd, setup |-> FALSE]]
  BY <1>0 DEF DrmRemove
<1> HIDE DEF r
<1>2. /\ drmHead = r => prev = DrmNoNode
      /\ drmHead # r => prev \in DrmNodes \ {r} /\ drmNext[prev] = r
  BY <1>0, DrmPrevRight DEF DrmChain
<1> HIDE DEF prev
<1>3. drmOf'[r].fd = DrmNoFd /\ \A m \in DrmNode \ {r} : drmOf'[m] = drmOf[m]
  BY <1>0, <1>1 DEF DrmTypes
<1>4. DrmNodes' = DrmNodes \ {r}
  BY <1>0, <1>3 DEF DrmNodes
<1>5. /\ prev \in DrmNode => prev # r /\ drmNext[prev] = r /\ drmNext'[prev] = drmNext[r]
      /\ \A m \in DrmNode \ {r, prev} : drmNext'[m] = drmNext[m]
  BY <1>0, <1>1, <1>2, DrmNodesType, DrmAssumption
<1>6. \A m \in DrmNode \ {r, prev} : drmNext[m] # r
  <2>1. \A m \in DrmNode \ DrmNodes : drmNext[m] = DrmNoNode
    BY DEF DrmChain, DrmLinked
  <2>2. CASE drmHead = r
    BY <1>0, <2>1, <2>2 DEF DrmChain, DrmLinked
  <2>3. CASE drmHead # r
    BY <1>0, <1>2, <2>1, <2>3 DEF DrmChain, DrmLinked
  <2> QED BY <2>2, <2>3
<1>7. at \in DrmNodes' \cup {DrmNoNode}
  BY <1>0, <1>4 DEF DrmAhead
<1>8. ASSUME NEW S \in SUBSET DrmNode, at \in S \cup {DrmNoNode},
             \A m \in S : drmOf'[m].fd # fd => drmNext'[m] \in S \cup {DrmNoNode},
             NEW n \in DrmNodes', drmOf'[n].fd = fd
      PROVE  n \in S
  <2>1. n # r /\ n \in DrmNodes /\ drmOf[n].fd = fd
    BY <1>3, <1>4, <1>8, DrmNodesType
  <2>2. CASE prev \in S /\ drmOf[prev].fd # fd
    <3> DEFINE R == S \cup {r}
    <3>1. R \in SUBSET DrmNode /\ at \in R \cup {DrmNoNode}
      BY <1>0, <1>8
    <3>2. drmNext[r] \in S \cup {DrmNoNode}
      BY <1>3, <1>5, <1>8, <2>2
    <3>3. ASSUME NEW m \in R, drmOf[m].fd # fd PROVE drmNext[m] \in R \cup {DrmNoNode}
      <4>1. CASE m = r
        BY <3>2, <4>1
      <4>2. CASE m = prev
        BY <1>5, <2>2, <4>2
      <4>3. CASE m # r /\ m # prev
        BY <1>3, <1>5, <1>8, <3>3, <4>3
      <4> QED BY <4>1, <4>2, <4>3
    <3> HIDE DEF R
    <3>4. n \in R
      BY <2>1, <3>1, <3>3 DEF DrmAhead
    <3> QED BY <2>1, <3>4 DEF R
  <2>3. CASE ~(prev \in S /\ drmOf[prev].fd # fd)
    <3> DEFINE R == S \ {r}
    <3>1. R \in SUBSET DrmNode /\ at \in R \cup {DrmNoNode}
      BY <1>0, <1>8
    <3>2. ASSUME NEW m \in R, drmOf[m].fd # fd PROVE drmNext[m] \in R \cup {DrmNoNode}
      <4>1. m # r /\ m # prev
        BY <2>3, <3>2
      <4>2. drmNext[m] \in S \cup {DrmNoNode} /\ drmNext[m] # r
        BY <1>3, <1>5, <1>6, <1>8, <3>2, <4>1
      <4> QED BY <4>2
    <3> HIDE DEF R
    <3>3. n \in R
      BY <2>1, <3>1, <3>2 DEF DrmAhead
    <3> QED BY <3>3 DEF R
  <2> QED BY <2>2, <2>3
<1> QED BY <1>7, <1>8 DEF DrmAhead

-----------------------------------------------------------------------------
\* The calls.

\* The records of the calls.
LEMMA DrmRecords ==
    /\ DrmIdle \in DrmCallTypes /\ DrmIdle.fd = DrmNoFd /\ DrmIdle.pc = "idle"
    /\ \A pc \in {"close", "reopen", "add", "remove", "null"}, fd \in DrmFd \cup {DrmNoFd}, file \in DrmFiles :
          /\ DrmOn(pc, fd, file) \in DrmCallTypes
          /\ DrmOn(pc, fd, file).pc = pc /\ DrmOn(pc, fd, file).fd = fd /\ DrmOn(pc, fd, file).file = file
    /\ DrmNoFile \in DrmFiles /\ DrmFits(DrmNoFile) /\ DrmNoFile.way = "none"
<1>1. DrmNoFile \in DrmFiles /\ DrmNoFile.way = "none" /\ DrmNoFile.seen = FALSE
  BY DEF DrmNoFile, DrmFiles, DrmKind
<1>2. DrmIdle \in DrmCallTypes /\ DrmIdle.fd = DrmNoFd /\ DrmIdle.pc = "idle"
  BY <1>1 DEF DrmIdle, DrmCallTypes
<1>3. ASSUME NEW pc \in {"close", "reopen", "add", "remove", "null"}, NEW fd \in DrmFd \cup {DrmNoFd},
             NEW file \in DrmFiles
      PROVE  /\ DrmOn(pc, fd, file) \in DrmCallTypes
             /\ DrmOn(pc, fd, file).pc = pc /\ DrmOn(pc, fd, file).fd = fd /\ DrmOn(pc, fd, file).file = file
  BY DEF DrmOn, DrmIdle, DrmCallTypes
<1> QED BY <1>1, <1>2, <1>3 DEF DrmFits

LEMMA DrmSearchRecords ==
    ASSUME NEW fd \in DrmFd, NEW op \in {"close", "setup", "mark", "clear"},
           drmHead \in DrmNode \cup {DrmNoNode}
    PROVE  /\ DrmSearching(fd, op) \in DrmCallTypes
           /\ DrmSearching(fd, op).pc = "search" /\ DrmSearching(fd, op).fd = fd
           /\ DrmSearching(fd, op).op = op /\ DrmSearching(fd, op).at = drmHead
  BY DrmRecords DEF DrmSearching, DrmIdle, DrmCallTypes

\* A step of thread t: it may change what is known of its call's descriptor and of
\* some that no other call is busy with, if what is known then is right.
LEMMA DrmCallsStep ==
    ASSUME DrmTypes, DrmCalls, NEW t \in DrmThreads, NEW g,
           \A u \in DrmThreads \ {t} : drmCall'[u] = drmCall[u],
           g = DrmNoFd \/ \A u \in DrmThreads \ {t} : drmCall[u].fd # g,
           drmCall'[t].fd = DrmNoFd \/ \A u \in DrmThreads \ {t} : drmCall[u].fd # drmCall'[t].fd,
           drmCall[t].fd = DrmNoFd \/ drmCall[t].fd = g \/ drmCall[t].fd = drmCall'[t].fd,
           \A f \in DrmFd : f # g /\ f # drmCall'[t].fd =>
              drmFile'[f] = drmFile[f] /\ (DrmHas(f)' <=> DrmHas(f)),
           DrmCallRight(drmCall[t])',
           \A f \in DrmFd : f = g /\ f # drmCall'[t].fd => DrmQuietRight(f)'
    PROVE  DrmCalls'
<1>1. \A u, v \in DrmThreads : drmCall'[u].fd = drmCall'[v].fd /\ drmCall'[u].fd # DrmNoFd => u = v
  BY DEF DrmCalls
<1>2. ASSUME NEW u \in DrmThreads, u # t PROVE DrmCallRight(drmCall[u])'
  <2>1. drmCall'[u] = drmCall[u] /\ DrmCallRight(drmCall[u])
    BY <1>2 DEF DrmCalls
  <2>2. CASE drmCall[u].fd = DrmNoFd
    BY <2>1, <2>2 DEF DrmCallRight
  <2>3. CASE drmCall[u].fd # DrmNoFd
    <3>1. PICK f \in DrmFd : f = drmCall[u].fd
      BY <2>3 DEF DrmTypes, DrmCallTypes
    <3>2. f # g /\ f # drmCall'[t].fd
      BY <1>2, <2>3, <3>1, DrmAssumption
    <3>3. drmFile'[f] = drmFile[f] /\ (DrmHas(f)' <=> DrmHas(f))
      BY <3>1, <3>2
    <3>4. DrmHas(drmCall[u].fd)' <=> DrmHas(drmCall[u].fd)
      BY <2>1, <3>1, <3>3 DEF DrmHas
    <3>5. DrmQuietRight(drmCall[u].fd) => DrmQuietRight(drmCall[u].fd)'
      BY <2>1, <3>1, <3>3, <3>4 DEF DrmQuietRight
    <3> QED BY <2>1, <3>1, <3>3, <3>4, <3>5 DEF DrmCallRight
  <2> QED BY <2>2, <2>3
<1>3. ASSUME NEW fd \in DrmFd, \A u \in DrmThreads : drmCall'[u].fd # fd PROVE DrmQuietRight(fd)'
  <2>1. CASE fd = g
    BY <1>3, <2>1
  <2>2. CASE fd # g
    <3>0. fd # DrmNoFd
      BY DrmAssumption
    <3>1. DrmQuietRight(fd)
      BY <1>3, <2>2, <3>0 DEF DrmCalls
    <3>2. drmFile'[fd] = drmFile[fd] /\ (DrmHas(fd)' <=> DrmHas(fd))
      BY <1>3, <2>2
    <3> QED BY <3>1, <3>2 DEF DrmQuietRight
  <2> QED BY <2>1, <2>2
<1> QED BY <1>1, <1>2, <1>3 DEF DrmCalls

\* A step of thread t that leaves the list and the other searches alone.
LEMMA DrmCursorsStep ==
    ASSUME DrmTypes, DrmCursors, DrmCalls, NEW t \in DrmThreads,
           \A u \in DrmThreads \ {t} : drmCall'[u] = drmCall[u],
           \A fd \in DrmFd, at \in DrmNode \cup {DrmNoNode} :
              (\E u \in DrmThreads \ {t} : drmCall[u].pc = "search" /\ drmCall[u].fd = fd /\ drmCall[u].at = at)
              /\ DrmAhead(fd, at) => DrmAhead(fd, at)',
           drmCall'[t].pc = "search" => DrmAhead(drmCall[t].fd, drmCall[t].at)'
    PROVE  DrmCursors'
<1> SUFFICES ASSUME NEW u \in DrmThreads, u # t, drmCall'[u].pc = "search"
             PROVE  DrmAhead(drmCall[u].fd, drmCall[u].at)'
  BY DEF DrmCursors
<1> DEFINE fd == drmCall[u].fd
           at == drmCall[u].at
<1>1. drmCall'[u] = drmCall[u] /\ drmCall[u].pc = "search"
  OBVIOUS
<1>2. fd \in DrmFd /\ at \in DrmNode \cup {DrmNoNode}
  BY <1>1 DEF DrmTypes, DrmCallTypes, DrmCalls, DrmCallRight
<1>3. DrmAhead(fd, at)
  BY <1>1 DEF DrmCursors
<1>4. PICK f \in DrmFd, a \in DrmNode \cup {DrmNoNode} : f = fd /\ a = at
  BY <1>2
<1>5. DrmAhead(f, a)'
  BY <1>3, <1>4
<1>6. drmCall'[u].fd = f /\ drmCall'[u].at = a
  BY <1>1, <1>4
<1> QED BY <1>5, <1>6 DEF DrmAhead

\* What a step keeps that sets no more than a node's mark.
DrmListKept ==
    /\ UNCHANGED <<drmHead, drmNext, drmTail>>
    /\ drmOf' \in [DrmNode -> [fd : DrmFd \cup {DrmNoFd}, setup : BOOLEAN]]
    /\ \A n \in DrmNode : drmOf'[n].fd = drmOf[n].fd

LEMMA DrmListKeptSame ==
    ASSUME DrmGood, DrmListKept
    PROVE  DrmChain' /\ (\A fd : DrmHas(fd)' <=> DrmHas(fd)) /\ (\A fd, at : DrmAhead(fd, at) => DrmAhead(fd, at)')
BY DrmListSame DEF DrmGood, DrmListKept

LEMMA DrmUnchangedKept == ASSUME DrmGood, UNCHANGED listVars PROVE DrmListKept
BY DEF DrmGood, DrmTypes, DrmListKept, listVars

\* A step of thread t that leaves the list as it is.
LEMMA DrmQuietStep ==
    ASSUME DrmGood, DrmListKept, NEW t \in DrmThreads, NEW g, NEW c \in DrmCallTypes,
           drmCall' = [drmCall EXCEPT ![t] = c],
           drmFile' \in [DrmFd -> DrmFiles],
           \A f \in DrmFd : f # g /\ f # c.fd => drmFile'[f] = drmFile[f],
           g = DrmNoFd \/ \A u \in DrmThreads \ {t} : drmCall[u].fd # g,
           c.fd = DrmNoFd \/ \A u \in DrmThreads \ {t} : drmCall[u].fd # c.fd,
           drmCall[t].fd = DrmNoFd \/ drmCall[t].fd = g \/ drmCall[t].fd = c.fd,
           DrmCallRight(drmCall[t])',
           \A f \in DrmFd : f = g /\ f # c.fd => DrmQuietRight(f)',
           c.pc = "search" => DrmAhead(drmCall[t].fd, drmCall[t].at)'
    PROVE  DrmGood'
<1>1. drmCall'[t] = c /\ \A u \in DrmThreads \ {t} : drmCall'[u] = drmCall[u]
  BY DEF DrmGood, DrmTypes
<1>2. DrmTypes'
  BY DEF DrmGood, DrmTypes, DrmListKept
<1>3. DrmChain' /\ (\A fd : DrmHas(fd)' <=> DrmHas(fd)) /\ (\A fd, at : DrmAhead(fd, at) => DrmAhead(fd, at)')
  BY DrmListKeptSame
<1>4. DrmCalls'
  <2>1. \A u \in DrmThreads \ {t} : drmCall'[u] = drmCall[u]
    BY <1>1
  <2>2. /\ drmCall'[t].fd = DrmNoFd \/ \A u \in DrmThreads \ {t} : drmCall[u].fd # drmCall'[t].fd
        /\ drmCall[t].fd = DrmNoFd \/ drmCall[t].fd = g \/ drmCall[t].fd = drmCall'[t].fd
    BY <1>1
  <2>3. /\ \A f \in DrmFd : f # g /\ f # drmCall'[t].fd =>
              drmFile'[f] = drmFile[f] /\ (DrmHas(f)' <=> DrmHas(f))
        /\ \A f \in DrmFd : f = g /\ f # drmCall'[t].fd => DrmQuietRight(f)'
    BY <1>1, <1>3
  <2> QED BY <2>1, <2>2, <2>3, DrmCallsStep DEF DrmGood
<1>5. DrmCursors'
  BY <1>1, <1>3, DrmCursorsStep DEF DrmGood
<1> QED BY <1>2, <1>3, <1>4, <1>5 DEF DrmGood

\* Thread t returns: what it knew of its descriptor is what holds without it.
LEMMA DrmReturnStep ==
    ASSUME DrmGood, DrmListKept, NEW t \in DrmThreads, NEW g,
           drmCall' = [drmCall EXCEPT ![t] = DrmIdle],
           drmFile' \in [DrmFd -> DrmFiles],
           \A f \in DrmFd : f # g => drmFile'[f] = drmFile[f],
           g = DrmNoFd \/ \A u \in DrmThreads \ {t} : drmCall[u].fd # g,
           drmCall[t].fd = DrmNoFd \/ drmCall[t].fd = g,
           \A f \in DrmFd : f = g => DrmQuietRight(f)'
    PROVE  DrmGood'
<1>1. drmCall'[t] = DrmIdle
  BY DEF DrmGood, DrmTypes
<1>2. DrmCallRight(drmCall[t])'
  BY <1>1, DrmRecords DEF DrmCallRight
<1> DEFINE c == DrmIdle
<1>3. c \in DrmCallTypes /\ c.fd = DrmNoFd /\ c.pc = "idle" /\ drmCall' = [drmCall EXCEPT ![t] = c]
  BY DrmRecords
<1> HIDE DEF c
<1> QED BY <1>2, <1>3, DrmQuietStep

\* What the kernel gives out while the property holds is in no call and not listed.
LEMMA DrmKernelOpenFacts ==
    ASSUME DrmGood, NEW fd \in DrmFd, NEW file \in DrmFiles, DrmKernelOpen(fd, file), ~drmExcused'
    PROVE  /\ \A t \in DrmThreads : drmCall[t].fd # fd
           /\ ~DrmHas(fd)
           /\ drmFile' \in [DrmFd -> DrmFiles] /\ drmFile'[fd] = file
           /\ \A f \in DrmFd \ {fd} : drmFile'[f] = drmFile[f]
<1>1. drmFile[fd].way = "none" /\ ~DrmReuses(fd) /\ drmFile' = [drmFile EXCEPT ![fd] = file]
  BY DEF DrmKernelOpen, DrmFree
<1>2. ASSUME NEW t \in DrmThreads, drmCall[t].fd = fd PROVE FALSE
  <2>1. fd # DrmNoFd /\ DrmCallRight(drmCall[t])
    BY DrmAssumption DEF DrmGood, DrmCalls
  <2>2. drmCall[t].pc # "remove"
    BY <1>1, <1>2 DEF DrmReuses
  <2>3. drmCall[t].pc \in {"close", "add", "link", "search"}
    BY <1>2, <2>1, <2>2 DEF DrmCallRight
  <2> QED BY <1>1, <1>2, <2>1, <2>3 DEF DrmCallRight
<1>3. ~DrmHas(fd)
  BY <1>1, <1>2 DEF DrmGood, DrmCalls, DrmQuietRight
<1>4. drmFile' \in [DrmFd -> DrmFiles] /\ drmFile'[fd] = file
      /\ \A f \in DrmFd \ {fd} : drmFile'[f] = drmFile[f]
  BY <1>1 DEF DrmGood, DrmTypes
<1> QED BY <1>2, <1>3, <1>4

-----------------------------------------------------------------------------
\* The steps.

LEMMA DrmOpenKeeps ==
    ASSUME DrmGood, NEW t \in DrmThreads, NEW kind \in DrmKind, DrmOpen(t, kind), ~drmExcused'
    PROVE  DrmGood'
<1>1. drmCall[t].pc = "idle" /\ drmCall[t].fd = DrmNoFd /\ DrmListKept
      /\ \A f \in DrmFd : f # DrmNoFd
  BY DrmUnchangedKept, DrmAssumption DEF DrmOpen, DrmGood, DrmCalls, DrmCallRight
<1>2. ASSUME NEW fd \in DrmFd, NEW seen \in BOOLEAN, NEW async \in BOOLEAN,
             LET again == [kind |-> kind, way |-> DrmWay(kind, seen), seen |-> seen]
             IN  /\ DrmKernelOpen(fd, [again EXCEPT !.way = "plainly"])
                 /\ DrmGoto(t, DrmOn(IF async \/ again.way = "flagged" THEN "close" ELSE "add", fd, again))
      PROVE  DrmGood'
  <2> DEFINE again == [kind |-> kind, way |-> DrmWay(kind, seen), seen |-> seen]
             plainly == [again EXCEPT !.way = "plainly"]
             pc == IF async \/ again.way = "flagged" THEN "close" ELSE "add"
             c == DrmOn(pc, fd, again)
  <2>1. /\ again \in DrmFiles /\ DrmFits(again) /\ again.way \in {"plainly", "flagged"}
        /\ plainly \in DrmFiles /\ plainly.way = "plainly"
        /\ again.way = "plainly" => DrmFits(plainly)
    BY DEF DrmFiles, DrmKind, DrmFits, DrmWay
  <2>2. pc \in {"close", "add"} /\ (pc = "add" => again.way = "plainly")
    BY <2>1
  <2>3. DrmKernelOpen(fd, plainly) /\ drmCall' = [drmCall EXCEPT ![t] = c]
    BY <1>2 DEF DrmGoto
  <2> HIDE DEF again, plainly, pc
  <2>4. c \in DrmCallTypes /\ c.pc = pc /\ c.fd = fd /\ c.file = again
    BY <2>1, <2>2, DrmRecords
  <2> HIDE DEF c
  <2>5. /\ \A u \in DrmThreads : drmCall[u].fd # fd
        /\ ~DrmHas(fd)
        /\ drmFile' \in [DrmFd -> DrmFiles] /\ drmFile'[fd] = plainly
        /\ \A f \in DrmFd \ {fd} : drmFile'[f] = drmFile[f]
    BY <2>1, <2>3, DrmKernelOpenFacts
  <2>6. DrmCallRight(drmCall[t])'
    <3>1. drmCall'[t] = c
      BY <2>3 DEF DrmGood, DrmTypes
    <3>2. ~DrmHas(fd)' /\ fd # DrmNoFd
      BY <1>1, <2>5, DrmListKeptSame, DrmAssumption
    <3>3. ~DrmHas(drmCall[t].fd)'
      BY <2>4, <3>1, <3>2 DEF DrmHas
    <3> QED BY <1>1, <2>1, <2>2, <2>4, <2>5, <3>1, <3>2, <3>3 DEF DrmCallRight
  <2>7. \A f \in DrmFd : f # fd /\ f # c.fd => drmFile'[f] = drmFile[f]
    BY <2>4, <2>5
  <2>8. c.fd = DrmNoFd \/ \A u \in DrmThreads \ {t} : drmCall[u].fd # c.fd
    BY <2>4, <2>5
  <2>9. c.pc # "search" /\ \A f \in DrmFd : f = fd /\ f # c.fd => DrmQuietRight(f)'
    BY <2>2, <2>4
  <2>10. /\ \A u \in DrmThreads \ {t} : drmCall[u].fd # fd
         /\ drmFile' \in [DrmFd -> DrmFiles] /\ drmCall[t].fd = DrmNoFd /\ DrmListKept
         /\ drmCall' = [drmCall EXCEPT ![t] = c] /\ c \in DrmCallTypes
    BY <1>1, <2>3, <2>4, <2>5
  <2> QED BY <2>6, <2>7, <2>8, <2>9, <2>10, DrmQuietStep
<1>3. CASE /\ DrmGoto(t, DrmOn("reopen", DrmNoFd, [kind |-> kind, way |-> "flagged", seen |-> FALSE]))
           /\ UNCHANGED <<drmFile, drmExcused>>
  <2> DEFINE file == [kind |-> kind, way |-> "flagged", seen |-> FALSE]
             c == DrmOn("reopen", DrmNoFd, file)
  <2>1. file \in DrmFiles /\ DrmFits(file) /\ file.way = "flagged"
    BY DEF DrmFiles, DrmFits
  <2>2. drmCall' = [drmCall EXCEPT ![t] = c]
    BY <1>3 DEF DrmGoto
  <2> HIDE DEF file
  <2>3. c \in DrmCallTypes /\ c.pc = "reopen" /\ c.fd = DrmNoFd /\ c.file = file
    BY <2>1, DrmRecords
  <2> HIDE DEF c
  <2>4. DrmCallRight(drmCall[t])'
    <3>1. drmCall'[t] = c
      BY <2>2 DEF DrmGood, DrmTypes
    <3> QED BY <2>1, <2>3, <3>1 DEF DrmCallRight
  <2>5. drmFile' \in [DrmFd -> DrmFiles] /\ \A f \in DrmFd : drmFile'[f] = drmFile[f]
    BY <1>3 DEF DrmGood, DrmTypes
  <2>6. /\ \A f \in DrmFd : f # DrmNoFd /\ f # c.fd => drmFile'[f] = drmFile[f]
        /\ \A f \in DrmFd : f = DrmNoFd /\ f # c.fd => DrmQuietRight(f)'
        /\ c.pc # "search"
    BY <2>3, <2>5
  <2> QED BY <1>1, <2>2, <2>3, <2>4, <2>5, <2>6, DrmQuietStep
<1> QED BY <1>2, <1>3 DEF DrmOpen

LEMMA DrmOpenClosesKeeps ==
    ASSUME DrmGood, NEW t \in DrmThreads, DrmOpenCloses(t)
    PROVE  DrmGood'
<1> DEFINE fd == drmCall[t].fd
           file == drmCall[t].file
           c == DrmOn("reopen", DrmNoFd, file)
<1>1. /\ drmCall[t].pc = "close" /\ drmFile' = [drmFile EXCEPT ![fd] = DrmNoFile]
      /\ drmCall' = [drmCall EXCEPT ![t] = c] /\ DrmListKept
  BY DrmUnchangedKept DEF DrmOpenCloses, DrmGoto
<1>2. fd \in DrmFd /\ file \in DrmFiles /\ DrmFits(file) /\ file.way # "none" /\ ~DrmHas(fd)
      /\ \A u \in DrmThreads \ {t} : drmCall[u].fd # fd
  <2>1. DrmCallRight(drmCall[t]) /\ drmCall[t] \in DrmCallTypes
    BY DEF DrmGood, DrmCalls, DrmTypes
  <2> QED BY <1>1, <2>1 DEF DrmCallRight, DrmCallTypes, DrmGood, DrmCalls
<1>3. c \in DrmCallTypes /\ c.pc = "reopen" /\ c.fd = DrmNoFd /\ c.file = file
  BY <1>2, DrmRecords
<1>4. drmFile' \in [DrmFd -> DrmFiles] /\ drmFile'[fd] = DrmNoFile
      /\ \A f \in DrmFd \ {fd} : drmFile'[f] = drmFile[f]
  BY <1>1, <1>2, DrmRecords DEF DrmGood, DrmTypes
<1> HIDE DEF c
<1>5. DrmCallRight(drmCall[t])'
  <2>1. drmCall'[t] = c
    BY <1>1 DEF DrmGood, DrmTypes
  <2> QED BY <1>2, <1>3, <2>1 DEF DrmCallRight
<1>6. \A f \in DrmFd : f = fd => DrmQuietRight(f)'
  <2> SUFFICES ASSUME NEW f \in DrmFd, f = fd PROVE DrmQuietRight(f)'
    OBVIOUS
  <2>1. ~DrmHas(f)'
    BY <1>1, <1>2, DrmListKeptSame
  <2> QED BY <1>4, <2>1, DrmRecords DEF DrmQuietRight
<1>7. \A f \in DrmFd : f # fd => drmFile'[f] = drmFile[f]
  BY <1>4
<1> QED BY <1>1, <1>2, <1>3, <1>4, <1>5, <1>6, <1>7, DrmQuietStep

LEMMA DrmReopenKeeps ==
    ASSUME DrmGood, NEW t \in DrmThreads, DrmReopen(t), ~drmExcused'
    PROVE  DrmGood'
<1> DEFINE file == drmCall[t].file
<1>1. /\ drmCall[t].pc = "reopen" /\ drmCall[t].fd = DrmNoFd /\ DrmListKept
      /\ file \in DrmFiles /\ DrmFits(file) /\ file.way # "none"
  <2>1. drmCall[t].pc = "reopen" /\ DrmListKept
    BY DrmUnchangedKept DEF DrmReopen
  <2>2. DrmCallRight(drmCall[t]) /\ drmCall[t] \in DrmCallTypes
    BY DEF DrmGood, DrmCalls, DrmTypes
  <2> QED BY <2>1, <2>2 DEF DrmCallRight, DrmCallTypes
<1>2. CASE DrmReturn(t) /\ UNCHANGED <<drmFile, drmExcused>>
  <2>1. drmCall' = [drmCall EXCEPT ![t] = DrmIdle]
    BY <1>2 DEF DrmReturn, DrmGoto
  <2>2. drmFile' \in [DrmFd -> DrmFiles] /\ \A f \in DrmFd : drmFile'[f] = drmFile[f]
    BY <1>2 DEF DrmGood, DrmTypes
  <2>3. /\ \A f \in DrmFd : f # DrmNoFd => drmFile'[f] = drmFile[f]
        /\ \A f \in DrmFd : f = DrmNoFd => DrmQuietRight(f)'
    BY <2>2, DrmAssumption
  <2> QED BY <1>1, <2>1, <2>2, <2>3, DrmReturnStep
<1>3. ASSUME NEW fd \in DrmFd, DrmKernelOpen(fd, file),
             IF file.way = "plainly" THEN DrmGoto(t, DrmOn("add", fd, file)) ELSE DrmReturn(t)
      PROVE  DrmGood'
  <2> HIDE DEF file
  <2>1. /\ \A u \in DrmThreads : drmCall[u].fd # fd
        /\ ~DrmHas(fd)
        /\ drmFile' \in [DrmFd -> DrmFiles] /\ drmFile'[fd] = file
        /\ \A f \in DrmFd \ {fd} : drmFile'[f] = drmFile[f]
    BY <1>1, <1>3, DrmKernelOpenFacts
  <2>2. ~DrmHas(fd)' /\ fd # DrmNoFd
    BY <1>1, <2>1, DrmListKeptSame, DrmAssumption
  <2>3. CASE file.way = "plainly"
    <3> DEFINE c == DrmOn("add", fd, file)
    <3>1. drmCall' = [drmCall EXCEPT ![t] = c] /\ drmCall'[t] = c
      BY <1>3, <2>3 DEF DrmGoto, DrmGood, DrmTypes
    <3>2. c \in DrmCallTypes /\ c.pc = "add" /\ c.fd = fd
      BY <1>1, DrmRecords
    <3> HIDE DEF c
    <3>3. ~DrmHas(drmCall[t].fd)'
      BY <2>2, <3>1, <3>2 DEF DrmHas
    <3>4. DrmCallRight(drmCall[t])'
      BY <1>1, <2>1, <2>2, <2>3, <3>1, <3>2, <3>3 DEF DrmCallRight
    <3>5. \A f \in DrmFd : f # fd /\ f # c.fd => drmFile'[f] = drmFile[f]
      BY <2>1, <3>2
    <3>6. \A u \in DrmThreads \ {t} : drmCall[u].fd # c.fd
      BY <2>1, <3>2
    <3>7. \A f \in DrmFd : f = fd /\ f # c.fd => DrmQuietRight(f)'
      BY <3>2
    <3> QED BY <1>1, <2>1, <3>1, <3>2, <3>4, <3>5, <3>6, <3>7, DrmQuietStep
  <2>4. CASE file.way # "plainly"
    <3>1. drmCall' = [drmCall EXCEPT ![t] = DrmIdle]
      BY <1>3, <2>4 DEF DrmReturn, DrmGoto
    <3>2. \A f \in DrmFd : f = fd => DrmQuietRight(f)'
      BY <1>1, <2>1, <2>2, <2>4 DEF DrmQuietRight
    <3>3. /\ \A f \in DrmFd : f # fd => drmFile'[f] = drmFile[f]
          /\ \A u \in DrmThreads \ {t} : drmCall[u].fd # fd
      BY <2>1
    <3> QED BY <1>1, <2>1, <3>1, <3>2, <3>3, DrmReturnStep
  <2> QED BY <2>3, <2>4
<1> QED BY <1>2, <1>3 DEF DrmReopen

\* What a call on a descriptor knows.
LEMMA DrmCallFacts ==
    ASSUME DrmGood, NEW t \in DrmThreads, drmCall[t].pc \notin {"idle", "reopen"}
    PROVE  /\ drmCall[t].fd \in DrmFd /\ drmCall[t].fd # DrmNoFd
           /\ drmCall[t] \in DrmCallTypes /\ DrmCallRight(drmCall[t])
           /\ \A u \in DrmThreads \ {t} : drmCall[u].fd # drmCall[t].fd
           /\ drmCall[t].pc = "search" => DrmAhead(drmCall[t].fd, drmCall[t].at)
           /\ drmFile \in [DrmFd -> DrmFiles]
<1>1. DrmCallRight(drmCall[t]) /\ drmCall[t] \in DrmCallTypes
  BY DEF DrmGood, DrmCalls, DrmTypes
<1>2. drmCall[t].fd \in DrmFd /\ drmCall[t].fd # DrmNoFd
  BY <1>1 DEF DrmCallRight, DrmCallTypes
<1> QED BY <1>1, <1>2 DEF DrmGood, DrmCalls, DrmCursors, DrmTypes

LEMMA DrmAddsKeeps ==
    ASSUME DrmGood, NEW t \in DrmThreads, DrmAdds(t), ~drmExcused'
    PROVE  DrmGood'
<1> DEFINE fd == drmCall[t].fd
           c == [drmCall[t] EXCEPT !.pc = "link"]
<1>1. drmCall[t].pc = "add" /\ DrmAdd(fd) /\ drmCall' = [drmCall EXCEPT ![t] = c] /\ drmFile' = drmFile
  BY DEF DrmAdds, DrmGoto
<1>2. /\ fd \in DrmFd /\ fd # DrmNoFd /\ drmCall[t] \in DrmCallTypes /\ DrmCallRight(drmCall[t])
      /\ \A u \in DrmThreads \ {t} : drmCall[u].fd # fd
  BY <1>1, DrmCallFacts
<1>3. c \in DrmCallTypes /\ c.pc = "link" /\ c.fd = fd
  BY <1>2 DEF DrmCallTypes
<1>4. drmCall'[t] = c /\ \A u \in DrmThreads \ {t} : drmCall'[u] = drmCall[u]
  BY <1>1 DEF DrmGood, DrmTypes
<1>5. ~DrmHas(fd) /\ drmFile[fd].way = "plainly" /\ DrmFits(drmFile[fd])
  BY <1>1, <1>2 DEF DrmCallRight
<1> HIDE DEF c
<1>6. /\ drmNext' \in [DrmNode -> DrmNode \cup {DrmNoNode}]
      /\ drmOf' \in [DrmNode -> [fd : DrmFd \cup {DrmNoFd}, setup : BOOLEAN]]
      /\ DrmLinked' /\ DrmReached'
      /\ \E n \in DrmNode \ DrmNodes :
            /\ DrmNodes' = DrmNodes \cup {n} /\ drmOf'[n].fd = fd
            /\ \A m \in DrmNodes : drmOf'[m].fd = drmOf[m].fd
  BY <1>1, <1>2, DrmAddKeeps DEF DrmGood, DrmChain
<1>7. DrmTypes'
  BY <1>1, <1>3, <1>6 DEF DrmGood, DrmTypes
<1>8. DrmOnce'
  BY <1>5, <1>6 DEF DrmGood, DrmChain, DrmOnce, DrmHas
<1>9. DrmHas(fd)' /\ \A f \in DrmFd : f # fd => (DrmHas(f)' <=> DrmHas(f))
  <2>1. \E n \in DrmNodes' : drmOf'[n].fd = drmCall[t].fd
    BY <1>6
  <2>2. drmCall'[t].fd = drmCall[t].fd
    BY <1>3, <1>4
  <2>3. \A f \in DrmFd : f # fd => (DrmHas(f)' <=> DrmHas(f))
    BY <1>6 DEF DrmHas
  <2> QED BY <2>1, <2>2, <2>3 DEF DrmHas
<1>10. DrmCallRight(drmCall[t])'
  BY <1>1, <1>2, <1>3, <1>4, <1>5, <1>9 DEF DrmCallRight
<1>11. DrmCalls'
  <2>1. \A f \in DrmFd : f # fd /\ f # drmCall'[t].fd =>
           drmFile'[f] = drmFile[f] /\ (DrmHas(f)' <=> DrmHas(f))
    BY <1>1, <1>9
  <2>2. /\ \A f \in DrmFd : f = fd /\ f # drmCall'[t].fd => DrmQuietRight(f)'
        /\ \A u \in DrmThreads \ {t} : drmCall[u].fd # drmCall'[t].fd
    BY <1>2, <1>3, <1>4
  <2> QED BY <1>2, <1>4, <1>10, <2>1, <2>2, DrmCallsStep DEF DrmGood
<1>12. DrmCursors'
  <2>1. \A f \in DrmFd, at \in DrmNode \cup {DrmNoNode} :
           (\E u \in DrmThreads \ {t} : drmCall[u].pc = "search" /\ drmCall[u].fd = f /\ drmCall[u].at = at)
           /\ DrmAhead(f, at) => DrmAhead(f, at)'
    BY <1>1, <1>2, DrmAheadAdds DEF DrmGood
  <2>2. drmCall'[t].pc # "search"
    BY <1>3, <1>4
  <2> QED BY <1>4, <2>1, <2>2, DrmCursorsStep DEF DrmGood
<1> QED BY <1>6, <1>7, <1>8, <1>11, <1>12 DEF DrmGood, DrmChain

LEMMA DrmLinksKeeps ==
    ASSUME DrmGood, NEW t \in DrmThreads, DrmLinks(t)
    PROVE  DrmGood'
<1> DEFINE fd == drmCall[t].fd
<1>1. drmCall[t].pc = "link" /\ drmCall' = [drmCall EXCEPT ![t] = DrmIdle] /\ drmFile' = drmFile /\ DrmListKept
  BY DrmUnchangedKept DEF DrmLinks, DrmReturn, DrmGoto
<1>2. /\ fd \in DrmFd /\ DrmCallRight(drmCall[t]) /\ drmFile' \in [DrmFd -> DrmFiles]
      /\ \A u \in DrmThreads \ {t} : drmCall[u].fd # fd
  BY <1>1, DrmCallFacts
<1>3. \A f \in DrmFd : f = fd => DrmQuietRight(f)'
  BY <1>1, <1>2, DrmListKeptSame DEF DrmCallRight, DrmQuietRight
<1>4. \A f \in DrmFd : f # fd => drmFile'[f] = drmFile[f]
  BY <1>1
<1> QED BY <1>1, <1>2, <1>3, <1>4, DrmReturnStep

LEMMA DrmAsksKeeps ==
    ASSUME DrmGood, NEW t \in DrmThreads, NEW op \in {"close", "setup", "clear"}, DrmAsks(t, op)
    PROVE  DrmGood'
<1>1. PICK fd \in DrmOwned : drmCall' = [drmCall EXCEPT ![t] = DrmSearching(fd, op)]
  BY DEF DrmAsks, DrmGoto
<1> DEFINE c == DrmSearching(fd, op)
<1>2. drmCall[t].pc = "idle" /\ drmCall[t].fd = DrmNoFd /\ DrmListKept /\ drmFile' = drmFile
      /\ UNCHANGED <<drmHead, drmOf, drmNext>>
  BY DrmUnchangedKept DEF DrmAsks, listVars, DrmGood, DrmCalls, DrmCallRight
<1>3. fd \in DrmFd /\ drmFile[fd].way # "none" /\ \A u \in DrmThreads : drmCall[u].fd # fd
  BY DEF DrmOwned
<1>4. DrmQuietRight(fd) /\ fd # DrmNoFd
  BY <1>3, DrmAssumption DEF DrmGood, DrmCalls
<1>5. DrmAhead(fd, drmHead) /\ drmHead \in DrmNode \cup {DrmNoNode}
  BY <1>3, DrmAheadBegins, DrmNodesType DEF DrmGood, DrmAhead
<1>6. c \in DrmCallTypes /\ c.pc = "search" /\ c.fd = fd /\ c.op = op /\ c.at = drmHead
  BY <1>3, <1>5, DrmSearchRecords
<1> HIDE DEF c
<1>7. drmCall' = [drmCall EXCEPT ![t] = c] /\ drmCall'[t] = c
  BY <1>1 DEF c, DrmGood, DrmTypes
<1>8. DrmQuietRight(drmCall[t].fd)'
  <2>1. DrmHas(fd)' <=> DrmHas(fd)
    BY <1>2, DrmListKeptSame
  <2>2. DrmQuietRight(fd)'
    BY <1>2, <1>4, <2>1 DEF DrmQuietRight
  <2>3. drmCall'[t].fd = fd
    BY <1>6, <1>7
  <2> QED BY <2>2, <2>3 DEF DrmQuietRight, DrmHas
<1>9. DrmCallRight(drmCall[t])'
  BY <1>2, <1>3, <1>4, <1>6, <1>7, <1>8 DEF DrmCallRight
<1>10. DrmAhead(drmCall[t].fd, drmCall[t].at)'
  <2>1. DrmAhead(fd, drmHead)'
    BY <1>2, <1>5, DrmNodesType DEF DrmAhead, DrmNodes
  <2>2. drmCall'[t].fd = fd /\ drmCall'[t].at = drmHead'
    BY <1>2, <1>6, <1>7
  <2> QED BY <2>1, <2>2 DEF DrmAhead
<1>11. /\ \A f \in DrmFd : f # DrmNoFd /\ f # c.fd => drmFile'[f] = drmFile[f]
       /\ \A f \in DrmFd : f = DrmNoFd /\ f # c.fd => DrmQuietRight(f)'
       /\ drmFile' \in [DrmFd -> DrmFiles]
       /\ \A u \in DrmThreads \ {t} : drmCall[u].fd # c.fd
  BY <1>2, <1>3, <1>6, DrmAssumption DEF DrmGood, DrmTypes
<1> QED BY <1>2, <1>6, <1>7, <1>9, <1>10, <1>11, DrmQuietStep

LEMMA DrmPassesKeeps ==
    ASSUME DrmGood, NEW t \in DrmThreads, DrmPasses(t), ~drmExcused'
    PROVE  DrmGood'
<1> DEFINE fd == drmCall[t].fd
           at == drmCall[t].at
           c == [drmCall[t] EXCEPT !.at = drmNext[at]]
<1>1. /\ drmCall[t].pc = "search" /\ at # DrmNoNode /\ drmOf[at].fd # fd
      /\ drmCall' = [drmCall EXCEPT ![t] = c]
      /\ drmFile' = drmFile /\ DrmListKept
  BY DrmUnchangedKept DEF DrmPasses, DrmGoto
<1>2. /\ fd \in DrmFd /\ fd # DrmNoFd /\ drmCall[t] \in DrmCallTypes /\ DrmCallRight(drmCall[t])
      /\ \A u \in DrmThreads \ {t} : drmCall[u].fd # fd
      /\ DrmAhead(fd, at) /\ drmFile \in [DrmFd -> DrmFiles]
  BY <1>1, DrmCallFacts
<1>3. at \in DrmNode /\ drmNext[at] \in DrmNode \cup {DrmNoNode}
  BY <1>1, <1>2 DEF DrmCallTypes, DrmGood, DrmTypes
<1>4. c \in DrmCallTypes /\ c.pc = "search" /\ c.fd = fd /\ c.op = drmCall[t].op /\ c.at = drmNext[at]
  BY <1>1, <1>2, <1>3 DEF DrmCallTypes
<1>5. DrmAhead(fd, drmNext[at])
  BY <1>1, <1>2, <1>3, DrmAheadPasses DEF DrmGood
<1> HIDE DEF c
<1>6. drmCall'[t] = c
  BY <1>1 DEF DrmGood, DrmTypes
<1>7. PICK f \in DrmFd, a \in DrmNode \cup {DrmNoNode} : f = fd /\ a = drmNext[at]
  BY <1>2, <1>3
<1>8. (DrmHas(f)' <=> DrmHas(f)) /\ DrmAhead(f, a)'
  BY <1>1, <1>5, <1>7, DrmListKeptSame
<1>9. drmCall'[t].fd = f /\ drmCall'[t].at = a
  BY <1>4, <1>6, <1>7
<1>10. DrmCallRight(drmCall[t])'
  <2>1. DrmQuietRight(f) /\ drmFile[f].way # "none" /\ c.op # "none" /\ (c.op = "mark" => DrmHas(f))
    BY <1>1, <1>2, <1>4, <1>7 DEF DrmCallRight
  <2>2. DrmQuietRight(f)'
    BY <1>1, <1>8, <2>1 DEF DrmQuietRight
  <2>3. DrmQuietRight(drmCall[t].fd)' /\ (DrmHas(drmCall[t].fd)' <=> DrmHas(f)')
    BY <1>9, <2>2 DEF DrmQuietRight, DrmHas
  <2> QED BY <1>1, <1>2, <1>4, <1>6, <1>7, <1>8, <1>9, <2>1, <2>3 DEF DrmCallRight
<1>11. DrmAhead(drmCall[t].fd, drmCall[t].at)'
  BY <1>8, <1>9 DEF DrmAhead
<1>12. /\ \A h \in DrmFd : h # DrmNoFd /\ h # c.fd => drmFile'[h] = drmFile[h]
       /\ \A h \in DrmFd : h = DrmNoFd /\ h # c.fd => DrmQuietRight(h)'
       /\ drmFile' \in [DrmFd -> DrmFiles]
       /\ \A u \in DrmThreads \ {t} : drmCall[u].fd # c.fd
       /\ drmCall[t].fd = c.fd
  BY <1>1, <1>2, <1>4, DrmAssumption
<1> QED BY <1>1, <1>4, <1>10, <1>11, <1>12, DrmQuietStep

\* A search of thread t ends, at the node of its descriptor or, past the last node,
\* at none.
LEMMA DrmStopsKeeps ==
    ASSUME DrmGood, NEW t \in DrmThreads, DrmStops(t)
    PROVE  DrmGood'
<1> DEFINE fd == drmCall[t].fd
           n == drmCall[t].at
           op == drmCall[t].op
<1>1. /\ drmCall[t].pc = "search" /\ (n # DrmNoNode => drmOf[n].fd = fd) /\ DrmEnds(t, n)
      /\ UNCHANGED <<drmHead, drmNext, drmTail>>
  BY DEF DrmStops, DrmEnds
<1>2. /\ fd \in DrmFd /\ fd # DrmNoFd /\ drmCall[t] \in DrmCallTypes /\ DrmCallRight(drmCall[t])
      /\ \A u \in DrmThreads \ {t} : drmCall[u].fd # fd
      /\ DrmAhead(fd, n) /\ drmFile \in [DrmFd -> DrmFiles]
  BY <1>1, DrmCallFacts
<1>3. n # DrmNoNode <=> DrmHas(fd)
  <2>1. ASSUME n # DrmNoNode PROVE DrmHas(fd)
    BY <1>1, <1>2, <2>1 DEF DrmAhead, DrmHas
  <2>2. ASSUME n = DrmNoNode PROVE ~DrmHas(fd)
    BY <1>2, <2>2, DrmAheadEnds
  <2> QED BY <2>1, <2>2
<1>4. DrmQuietRight(fd) /\ drmFile[fd].way # "none" /\ op \in {"close", "setup", "mark", "clear"}
      /\ (op = "mark" => DrmHas(fd))
  BY <1>1, <1>2 DEF DrmCallRight, DrmCallTypes
<1>5. DrmListKept
  <2>1. n \in DrmNode \cup {DrmNoNode} /\ (op = "mark") \in BOOLEAN
    BY <1>2 DEF DrmCallTypes
  <2>2. drmOf' = drmOf \/ (n \in DrmNode /\ drmOf' = [drmOf EXCEPT ![n].setup = (op = "mark")])
    BY <1>1, <2>1 DEF DrmEnds
  <2>3. /\ drmOf' \in [DrmNode -> [fd : DrmFd \cup {DrmNoFd}, setup : BOOLEAN]]
        /\ \A m \in DrmNode : drmOf'[m].fd = drmOf[m].fd
    <3>1. PICK mark \in BOOLEAN : mark = (op = "mark")
      BY <2>1
    <3>2. drmOf' = drmOf \/ (n \in DrmNode /\ drmOf' = [drmOf EXCEPT ![n].setup = mark])
      BY <2>2, <3>1
    <3>3. drmOf \in [DrmNode -> [fd : DrmFd \cup {DrmNoFd}, setup : BOOLEAN]]
      BY DEF DrmGood, DrmTypes
    <3> HIDE DEF n
    <3> QED BY <3>2, <3>3
  <2> QED BY <1>1, <2>3 DEF DrmListKept
<1>6. PICK f \in DrmFd : f = fd
  BY <1>2
<1>7. /\ DrmHas(f)' <=> DrmHas(f)
      /\ \A g \in DrmFd : g # fd => drmFile'[g] = drmFile[g]
      /\ drmFile' \in [DrmFd -> DrmFiles]
      /\ op = "close" => drmFile'[fd] = DrmNoFile
      /\ op # "close" => drmFile' = drmFile
  <2>1. DrmHas(f)' <=> DrmHas(f)
    BY <1>5, DrmListKeptSame
  <2>2. drmFile' = IF op = "close" THEN [drmFile EXCEPT ![fd] = DrmNoFile] ELSE drmFile
    BY <1>1 DEF DrmEnds
  <2> QED BY <1>2, <2>1, <2>2, DrmRecords
<1>8. CASE n # DrmNoNode /\ op = "close"
  <2> DEFINE c == DrmOn("remove", fd, DrmNoFile)
  <2>1. drmCall' = [drmCall EXCEPT ![t] = c] /\ drmCall'[t] = c
    BY <1>1, <1>8 DEF DrmEnds, DrmGoto, DrmGood, DrmTypes
  <2>2. c \in DrmCallTypes /\ c.pc = "remove" /\ c.fd = f
    BY <1>2, <1>6, DrmRecords
  <2> HIDE DEF c
  <2>3. DrmHas(drmCall[t].fd)'
    BY <1>3, <1>6, <1>7, <1>8, <2>1, <2>2 DEF DrmHas
  <2>4. DrmCallRight(drmCall[t])'
    BY <1>2, <1>6, <1>7, <1>8, <2>1, <2>2, <2>3 DEF DrmCallRight
  <2>5. /\ \A g \in DrmFd : g # DrmNoFd /\ g # c.fd => drmFile'[g] = drmFile[g]
        /\ \A g \in DrmFd : g = DrmNoFd /\ g # c.fd => DrmQuietRight(g)'
        /\ \A u \in DrmThreads \ {t} : drmCall[u].fd # c.fd
        /\ drmCall[t].fd = c.fd /\ c.pc # "search"
    BY <1>2, <1>6, <1>7, <2>2, DrmAssumption
  <2> QED BY <1>5, <1>7, <2>1, <2>2, <2>4, <2>5, DrmQuietStep
<1>9. CASE n # DrmNoNode /\ op = "setup"
  <2> DEFINE c == DrmSearching(fd, "mark")
  <2>1. drmCall' = [drmCall EXCEPT ![t] = c] /\ drmCall'[t] = c
    BY <1>1, <1>9 DEF DrmEnds, DrmGoto, DrmGood, DrmTypes
  <2>2. DrmAhead(f, drmHead) /\ drmHead \in DrmNode \cup {DrmNoNode}
    BY DrmAheadBegins, DrmNodesType DEF DrmGood, DrmAhead
  <2>3. c \in DrmCallTypes /\ c.pc = "search" /\ c.fd = f /\ c.op = "mark" /\ c.at = drmHead
    BY <1>2, <1>6, <2>2, DrmSearchRecords
  <2> HIDE DEF c
  <2>4. DrmHas(drmCall[t].fd)' /\ DrmQuietRight(drmCall[t].fd)'
    <3>1. DrmHas(f)' /\ DrmQuietRight(f)'
      BY <1>3, <1>4, <1>6, <1>7, <1>9 DEF DrmQuietRight
    <3> QED BY <2>1, <2>3, <3>1 DEF DrmQuietRight, DrmHas
  <2>5. DrmCallRight(drmCall[t])'
    BY <1>2, <1>4, <1>6, <1>7, <1>9, <2>1, <2>3, <2>4 DEF DrmCallRight
  <2>6. DrmAhead(drmCall[t].fd, drmCall[t].at)'
    <3>1. DrmAhead(f, drmHead)'
      <4>1. PICK h : h = drmHead
        OBVIOUS
      <4>2. DrmAhead(f, h)' /\ drmHead' = h
        BY <1>1, <1>5, <2>2, <4>1, DrmListKeptSame
      <4> QED BY <4>2 DEF DrmAhead
    <3> QED BY <1>1, <2>1, <2>3, <3>1 DEF DrmAhead
  <2>7. /\ \A g \in DrmFd : g # DrmNoFd /\ g # c.fd => drmFile'[g] = drmFile[g]
        /\ \A g \in DrmFd : g = DrmNoFd /\ g # c.fd => DrmQuietRight(g)'
        /\ \A u \in DrmThreads \ {t} : drmCall[u].fd # c.fd
        /\ drmCall[t].fd = c.fd
    BY <1>2, <1>6, <1>7, <2>3, DrmAssumption
  <2> QED BY <1>5, <1>7, <2>1, <2>3, <2>5, <2>6, <2>7, DrmQuietStep
<1>10. CASE ~(n # DrmNoNode /\ op \in {"close", "setup"})
  <2>1. drmCall' = [drmCall EXCEPT ![t] = DrmIdle]
    BY <1>1, <1>3, <1>4, <1>10 DEF DrmEnds, DrmGoto
  <2>2. DrmQuietRight(f)'
    <3>1. CASE op = "close"
      BY <1>3, <1>6, <1>7, <1>10, <3>1, DrmRecords DEF DrmQuietRight
    <3>2. CASE op # "close"
      BY <1>4, <1>6, <1>7, <3>2 DEF DrmQuietRight
    <3> QED BY <3>1, <3>2
  <2>3. \A g \in DrmFd : g = fd => DrmQuietRight(g)'
    BY <1>6, <2>2
  <2> QED BY <1>2, <1>5, <1>7, <2>1, <2>3, DrmReturnStep
<1> QED BY <1>8, <1>9, <1>10

LEMMA DrmRemovesKeeps ==
    ASSUME DrmGood, NEW t \in DrmThreads, DrmRemoves(t), ~drmExcused'
    PROVE  DrmGood'
<1> DEFINE fd == drmCall[t].fd
           c == DrmIdle
<1>1. drmCall[t].pc = "remove" /\ DrmRemove(fd) /\ drmFile' = drmFile /\ DrmStanding(fd) = {}
  BY DEF DrmRemoves
<1>2. /\ fd \in DrmFd /\ fd # DrmNoFd /\ DrmCallRight(drmCall[t])
      /\ \A u \in DrmThreads \ {t} : drmCall[u].fd # fd
  BY <1>1, DrmCallFacts
<1>3. drmCall' = [drmCall EXCEPT ![t] = c]
  BY <1>1 DEF DrmRemoves, DrmGood, DrmTypes
<1>4. drmCall'[t] = c /\ \A u \in DrmThreads \ {t} : drmCall'[u] = drmCall[u]
  BY <1>3 DEF DrmGood, DrmTypes
<1>5. c \in DrmCallTypes /\ c.fd = DrmNoFd /\ c.pc = "idle"
  BY DrmRecords
<1> HIDE DEF c
<1>6. PICK n \in DrmNodes : drmOf[n].fd = fd
  BY <1>1, <1>2 DEF DrmCallRight, DrmHas
<1>7. DrmFound(fd) = n
  BY <1>2, <1>6, DrmSearchesRight DEF DrmGood, DrmChain
<1>8. /\ drmNext' \in [DrmNode -> DrmNode \cup {DrmNoNode}]
      /\ drmOf' \in [DrmNode -> [fd : DrmFd \cup {DrmNoFd}, setup : BOOLEAN]]
      /\ DrmLinked' /\ DrmReached'
      /\ DrmNodes' = DrmNodes \ {n}
      /\ \A m \in DrmNodes' : drmOf'[m].fd = drmOf[m].fd
  BY <1>1, <1>2, <1>6, <1>7, DrmRemoveKeeps DEF DrmGood, DrmChain
<1>9. DrmTypes'
  BY <1>1, <1>3, <1>5, <1>8 DEF DrmGood, DrmTypes
<1>10. DrmOnce'
  BY <1>8 DEF DrmGood, DrmChain, DrmOnce
<1>11. /\ \A f \in DrmFd : f = fd => ~DrmHas(f)'
       /\ \A f \in DrmFd : f # fd => (DrmHas(f)' <=> DrmHas(f))
  BY <1>6, <1>8 DEF DrmGood, DrmChain, DrmOnce, DrmHas
<1>12. DrmCalls'
  <2>1. \A f \in DrmFd : f # fd /\ f # drmCall'[t].fd =>
           drmFile'[f] = drmFile[f] /\ (DrmHas(f)' <=> DrmHas(f))
    BY <1>1, <1>11
  <2>2. \A f \in DrmFd : f = fd /\ f # drmCall'[t].fd => DrmQuietRight(f)'
    <3>1. drmFile[fd] = DrmNoFile
      BY <1>1, <1>2 DEF DrmCallRight
    <3> QED BY <1>1, <1>11, <3>1, DrmRecords DEF DrmQuietRight
  <2>3. DrmCallRight(drmCall[t])' /\ drmCall'[t].fd = DrmNoFd
    BY <1>4, <1>5 DEF DrmCallRight
  <2> QED BY <1>2, <1>4, <2>1, <2>2, <2>3, DrmCallsStep DEF DrmGood
<1>13. DrmCursors'
  <2>1. ASSUME NEW f \in DrmFd, NEW at \in DrmNode \cup {DrmNoNode}, NEW u \in DrmThreads \ {t},
               drmCall[u].pc = "search", drmCall[u].fd = f, drmCall[u].at = at, DrmAhead(f, at)
        PROVE  DrmAhead(f, at)'
    <3>1. f # fd
      BY <1>2, <2>1
    <3>2. at # DrmFound(fd)
      BY <1>1, <1>6, <1>7, <2>1, DrmNodesType DEF DrmStanding
    <3>3. DrmFound(fd) \in DrmNodes /\ drmOf[DrmFound(fd)].fd = fd
      BY <1>6, <1>7
    <3> QED BY <1>1, <1>2, <2>1, <3>1, <3>2, <3>3, DrmAheadRemoves DEF DrmGood
  <2>2. drmCall'[t].pc # "search"
    BY <1>4, <1>5
  <2> QED BY <1>4, <2>1, <2>2, DrmCursorsStep DEF DrmGood
<1> QED BY <1>8, <1>9, <1>10, <1>12, <1>13 DEF DrmGood, DrmChain

LEMMA DrmFreshGood == DrmInit => DrmGood
<1> SUFFICES ASSUME DrmInit PROVE DrmGood
  OBVIOUS
<1>1. DrmIdle \in DrmCallTypes /\ DrmIdle.fd = DrmNoFd /\ DrmIdle.pc = "idle"
      /\ DrmNoFile \in DrmFiles /\ DrmFits(DrmNoFile) /\ DrmNoFile.way = "none"
  BY DrmRecords
<1>2. DrmTypes
  BY <1>1 DEF DrmInit, DrmTypes
<1>3. DrmNodes = {}
  BY DEF DrmInit, DrmNodes
<1>4. DrmChain
  BY <1>3 DEF DrmInit, DrmChain, DrmLinked, DrmReached, DrmOnce
<1>5. DrmCalls /\ DrmCursors
  BY <1>1, <1>3 DEF DrmInit, DrmCalls, DrmCallRight, DrmQuietRight, DrmHas, DrmCursors
<1> QED BY <1>2, <1>4, <1>5 DEF DrmGood

LEMMA DrmFreshGoodNext == DrmInit' => DrmGood'
  BY DrmFreshGood, PTL

LEMMA DrmUnchangedGood == ASSUME DrmGood, UNCHANGED drmVars PROVE DrmGood'
<1>1. UNCHANGED <<drmFile, drmHead, drmNext, drmTail, drmOf, drmCall>>
  BY DEF drmVars
<1>2. DrmTypes' /\ DrmChain' /\ (\A fd : DrmHas(fd)' <=> DrmHas(fd))
      /\ (\A fd, at : DrmAhead(fd, at) => DrmAhead(fd, at)')
  BY <1>1, DrmListSame DEF DrmGood, DrmTypes
<1>3. DrmCalls'
  BY <1>1, <1>2 DEF DrmGood, DrmCalls, DrmCallRight, DrmQuietRight, DrmHas, DrmNodes
<1>4. DrmCursors'
  BY <1>1 DEF DrmGood, DrmCursors, DrmAhead, DrmNodes
<1> QED BY <1>2, <1>3, <1>4 DEF DrmGood

LEMMA DrmStepKeepsInv == ASSUME DrmInv, [DrmNext]_drmVars PROVE DrmInv'
<1>1. CASE DrmRestart
  <2>1. DrmInit' /\ drmExcused' = FALSE
    BY <1>1 DEF DrmRestart, DrmInit
  <2> QED BY <2>1, DrmFreshGoodNext DEF DrmInv
<1>2. ASSUME ~DrmRestart
      PROVE  drmExcused' \in BOOLEAN /\ (drmExcused => drmExcused')
  <2>1. drmExcused \in BOOLEAN
    BY DEF DrmInv
  <2>2. ASSUME NEW t \in DrmThreads, NEW kind \in DrmKind, DrmOpen(t, kind) \/ DrmReopen(t)
        PROVE  drmExcused' \in BOOLEAN /\ (drmExcused => drmExcused')
    BY <2>1, <2>2 DEF DrmOpen, DrmReopen, DrmKernelOpen
  <2>3. ASSUME NEW t \in DrmThreads, DrmOpenCloses(t) \/ DrmLinks(t) \/ DrmStops(t) \/ DrmLost(t)
        PROVE  drmExcused' = drmExcused
    BY <2>3 DEF DrmOpenCloses, DrmLinks, DrmStops, DrmLost, DrmEnds
  <2>4. ASSUME NEW t \in DrmThreads, DrmAdds(t) \/ DrmPasses(t) \/ DrmRemoves(t)
        PROVE  drmExcused' \in BOOLEAN /\ (drmExcused => drmExcused')
    BY <2>1, <2>4 DEF DrmAdds, DrmPasses, DrmRemoves
  <2>5. ASSUME NEW t \in DrmThreads, NEW op \in {"close", "setup", "clear"}, DrmAsks(t, op)
        PROVE  drmExcused' = drmExcused
    BY <2>5 DEF DrmAsks
  <2>6. "plain" \in DrmKind
    BY DEF DrmKind
  <2> QED BY <1>2, <2>1, <2>2, <2>3, <2>4, <2>5, <2>6 DEF DrmNext, drmVars
<1>3. ASSUME ~DrmRestart, ~drmExcused'
      PROVE  DrmGood'
  <2>1. DrmGood
    BY <1>2, <1>3 DEF DrmInv
  <2>2. ASSUME NEW t \in DrmThreads, NEW kind \in DrmKind, DrmOpen(t, kind) PROVE DrmGood'
    BY <1>3, <2>1, <2>2, DrmOpenKeeps
  <2>3. ASSUME NEW t \in DrmThreads, DrmOpenCloses(t) PROVE DrmGood'
    BY <2>1, <2>3, DrmOpenClosesKeeps
  <2>4. ASSUME NEW t \in DrmThreads, DrmReopen(t) PROVE DrmGood'
    BY <1>3, <2>1, <2>4, DrmReopenKeeps
  <2>5. ASSUME NEW t \in DrmThreads, DrmAdds(t) PROVE DrmGood'
    BY <1>3, <2>1, <2>5, DrmAddsKeeps
  <2>6. ASSUME NEW t \in DrmThreads, DrmLinks(t) PROVE DrmGood'
    BY <2>1, <2>6, DrmLinksKeeps
  <2>7. ASSUME NEW t \in DrmThreads, NEW op \in {"close", "setup", "clear"}, DrmAsks(t, op) PROVE DrmGood'
    BY <2>1, <2>7, DrmAsksKeeps
  <2>8. ASSUME NEW t \in DrmThreads, DrmPasses(t) PROVE DrmGood'
    BY <1>3, <2>1, <2>8, DrmPassesKeeps
  <2>9. ASSUME NEW t \in DrmThreads, DrmStops(t) PROVE DrmGood'
    BY <2>1, <2>9, DrmStopsKeeps
  <2>10. ASSUME NEW t \in DrmThreads, DrmLost(t) PROVE DrmGood'
    BY <2>1, <2>10 DEF DrmLost, DrmGood, DrmCalls, DrmCallRight
  <2>11. ASSUME NEW t \in DrmThreads, DrmRemoves(t) PROVE DrmGood'
    BY <1>3, <2>1, <2>11, DrmRemovesKeeps
  <2>12. CASE UNCHANGED drmVars
    BY <2>1, <2>12, DrmUnchangedGood
  <2> QED BY <1>3, <2>2, <2>3, <2>4, <2>5, <2>6, <2>7, <2>8, <2>9, <2>10, <2>11, <2>12 DEF DrmNext
<1> QED BY <1>1, <1>2, <1>3 DEF DrmInv

\* A descriptor that no call is busy with is in the list of nodrm.c, and once, exactly
\* if its file was opened plainly, and a file whose first bytes could be seen was
\* opened as its protection asks; myIoIoctlAsync finds again what it has found.  Until
\* the exception DrmListRight names has happened, for any number of threads,
\* descriptors and nodes, and however the searches, which take no lock, interleave with
\* additions and removals.
THEOREM DrmListRightTheorem == DrmSpec => []DrmListRight
<1>1. DrmInit => DrmInv
  BY DrmFreshGood DEF DrmInit, DrmInv
<1>2. DrmInv /\ [DrmNext]_drmVars => DrmInv'
  BY DrmStepKeepsInv
<1>3. DrmInv => DrmListRight
  <2> SUFFICES ASSUME DrmInv, ~drmExcused
               PROVE  /\ \A m, n \in DrmSearched(DrmNoFd) : m # n => drmOf[m].fd # drmOf[n].fd
                      /\ \A fd \in {f \in DrmFd : \A t \in DrmThreads : drmCall[t].fd # f} :
                            /\ (\E n \in DrmSearched(DrmNoFd) : drmOf[n].fd = fd) <=> drmFile[fd].way = "plainly"
                            /\ drmFile[fd].seen => (drmFile[fd].way = "plainly" <=> drmFile[fd].kind = "plain")
                      /\ \A t \in DrmThreads : drmCall[t].pc # "null"
    BY DEF DrmListRight
  <2>1. DrmGood
    BY DEF DrmInv
  <2>2. DrmSearched(DrmNoFd) = DrmNodes
    BY <2>1, DrmSearchesRight DEF DrmGood, DrmChain
  <2>3. \A m, n \in DrmNodes : m # n => drmOf[m].fd # drmOf[n].fd
    BY <2>1 DEF DrmGood, DrmChain, DrmOnce
  <2>4. \A fd \in DrmFd : (\A t \in DrmThreads : drmCall[t].fd # fd) => DrmQuietRight(fd)
    BY <2>1 DEF DrmGood, DrmCalls
  <2>5. \A t \in DrmThreads : drmCall[t].pc # "null"
    BY <2>1 DEF DrmGood, DrmCalls, DrmCallRight
  <2> QED BY <2>2, <2>3, <2>4, <2>5 DEF DrmQuietRight, DrmHas, DrmFits
<1> QED BY <1>1, <1>2, <1>3, PTL DEF DrmSpec

-----------------------------------------------------------------------------
\* The log: the lock keeps the text of a message whole, and the log is run over by
\* less than a message.  The lock's word alone does not tell who holds it.  The
\* invariant says that at most one thread is between the exchange and the release,
\* that a thread whose number is in the lock is that one (or it is still the
\* starter's from printk_init), and that the count is 1 where it is tested.

PkHolding == {"claim", "count", "format", "open", "flush", "file", "check", "copy",
              "release", "disown", "free"}
PkCounted == {"format", "open", "flush", "file", "check", "copy", "release"}
PkWithText == {"open", "flush", "file", "check", "copy"}

PkHolds(t) == pkCall[t].pc \in PkHolding

\* The types; the lengths are those a text can have.
PkTypes ==
    /\ pkL \in {0, 1} /\ pkC \in Int /\ pkOwner \in PkThreads \cup {PkNobody}
    /\ pkBuf \in PkThreads \cup {PkNobody} /\ pkTorn \in BOOLEAN /\ pkUsed \in Nat
    /\ pkStarted \in BOOLEAN
    /\ pkCall \in [PkThreads -> [pc : PkHolding \cup {"idle", "test", "owner", "exchange"},
                                 len : 1 .. PkMaxLen, seen : Nat]]

\* One thread at a time, while the word is set.
PkExclusive ==
    /\ \A t \in PkThreads : PkHolds(t) => pkL = 1
    /\ \A t, u \in PkThreads : PkHolds(t) /\ PkHolds(u) => t = u

\* Until the starter's first message is out the others are idle and the word is its own.
PkStarting ==
    ~pkStarted =>
        /\ \A t \in PkThreads \ {PkStarter} : pkCall[t].pc = "idle"
        /\ pkCall[PkStarter].pc # "owner"
        /\ pkL = 1 => PkHolds(PkStarter)

\* Whose number the lock has, and its count.
PkOwned ==
    /\ \A t \in PkThreads :
          /\ pkOwner = t => PkHolds(t) \/ ~pkStarted
          /\ pkCall[t].pc = "free" => pkOwner = PkNobody
          /\ pkCall[t].pc \in PkCounted => pkC = 1

\* A thread that will copy has been told that there is room.
PkRoom ==
    /\ pkUsed < PkSize + PkMaxLen
    /\ \A t \in PkThreads :
          pkCall[t].pc = "copy" => pkUsed < PkSize /\ pkCall[t].seen + pkCall[t].len < PkSize

PkInv == PkTypes /\ PkExclusive /\ PkStarting /\ PkOwned /\ MessagesWhole /\ PkRoom

\* The invariant holds when printk_init has run.
LEMMA PkInitInv == PkInit => PkInv
<1> SUFFICES ASSUME PkInit PROVE PkInv
  OBVIOUS
<1>1. PkTypes
  <2>1. [pc |-> "idle", len |-> 1, seen |-> 0]
           \in [pc : PkHolding \cup {"idle", "test", "owner", "exchange"},
               len : 1 .. PkMaxLen, seen : Nat]
    BY PkAssumption
  <2>2. pkCall \in [PkThreads -> [pc : PkHolding \cup {"idle", "test", "owner", "exchange"},
                                  len : 1 .. PkMaxLen, seen : Nat]]
    BY <2>1 DEF PkInit
  <2>3. pkL \in {0, 1} /\ pkC \in Int /\ pkUsed \in Nat
    BY DEF PkInit
  <2>4. pkOwner \in PkThreads /\ pkBuf = PkNobody /\ pkTorn \in BOOLEAN /\ pkStarted \in BOOLEAN
    BY PkAssumption, Zenon DEF PkInit
  <2> QED BY <2>2, <2>3, <2>4, Zenon DEF PkTypes
<1>2. PkExclusive /\ PkStarting /\ PkOwned /\ MessagesWhole
  BY PkAssumption
     DEF PkInit, PkExclusive, PkStarting, PkOwned, MessagesWhole, PkHolds, PkHolding, PkCounted
<1>3. PkRoom
  BY PkAssumption DEF PkInit, PkRoom
<1> QED BY <1>1, <1>2, <1>3 DEF PkInv

\* The invariant is kept by a thread that begins a message.
LEMMA PkBeginKeeps ==
    ASSUME PkInv, NEW t \in PkThreads, NEW len \in 1 .. PkMaxLen, PkBegin(t, len)
    PROVE  PkInv'
<1>1. PkTypes'
  BY PkAssumption DEF PkBegin, pkLock, pkText, PkInv, PkTypes, PkHolding
<1>2. PkExclusive'
  BY DEF PkBegin, pkLock, pkText, PkInv, PkTypes, PkExclusive, PkHolds, PkHolding
<1>3. PkStarting'
  BY PkAssumption DEF PkBegin, pkLock, pkText, PkInv, PkTypes, PkExclusive, PkStarting,
     PkHolds, PkHolding
<1>4. PkOwned'
  BY PkAssumption DEF PkBegin, pkLock, pkText, PkInv, PkTypes, PkExclusive, PkStarting,
     PkOwned, PkHolds, PkHolding, PkCounted
<1>5. MessagesWhole'
  BY DEF PkBegin, pkLock, pkText, PkInv, PkTypes, PkExclusive, PkStarting, PkOwned,
     MessagesWhole, PkHolds, PkHolding
<1>6. PkRoom'
  BY PkAssumption DEF PkBegin, pkLock, pkText, PkInv, PkTypes, PkExclusive, PkStarting,
     PkOwned, PkRoom, PkHolds, PkHolding
<1> QED BY <1>1, <1>2, <1>3, <1>4, <1>5, <1>6 DEF PkInv

\* The invariant is kept by a thread that tests the lock's word.
LEMMA PkTestKeeps ==
    ASSUME PkInv, NEW t \in PkThreads, PkTest(t)
    PROVE  PkInv'
<1>1. PkTypes'
  BY PkAssumption DEF PkTest, PkPc, pkLock, pkText, PkInv, PkTypes, PkHolding
<1>2. PkExclusive'
  BY DEF PkTest, PkPc, pkLock, pkText, PkInv, PkTypes, PkExclusive, PkHolds, PkHolding
<1>3. PkStarting'
  BY PkAssumption DEF PkTest, PkPc, pkLock, pkText, PkInv, PkTypes, PkExclusive,
     PkStarting, PkHolds, PkHolding
<1>4. PkOwned'
  BY PkAssumption DEF PkTest, PkPc, pkLock, pkText, PkInv, PkTypes, PkExclusive,
     PkStarting, PkOwned, PkHolds, PkHolding, PkCounted
<1>5. MessagesWhole'
  BY DEF PkTest, PkPc, pkLock, pkText, PkInv, PkTypes, PkExclusive, PkStarting, PkOwned,
     MessagesWhole, PkHolds, PkHolding
<1>6. PkRoom'
  BY PkAssumption DEF PkTest, PkPc, pkLock, pkText, PkInv, PkTypes, PkExclusive,
     PkStarting, PkOwned, PkRoom, PkHolds, PkHolding
<1> QED BY <1>1, <1>2, <1>3, <1>4, <1>5, <1>6 DEF PkInv

\* The invariant is kept by a thread that compares the holder's number with its own,
\* which it is not.
LEMMA PkTestOwnerKeeps ==
    ASSUME PkInv, NEW t \in PkThreads, PkTestOwner(t)
    PROVE  PkInv'
<1>0. pkOwner # t
  BY PkAssumption DEF PkTestOwner, PkInv, PkTypes, PkStarting, PkOwned, PkHolds, PkHolding
<1>1. PkTypes'
  BY <1>0, PkAssumption DEF PkTestOwner, PkPc, pkText, PkInv, PkTypes, PkHolding
<1>2. PkExclusive'
  BY <1>0 DEF PkTestOwner, PkPc, pkText, PkInv, PkTypes, PkExclusive, PkHolds, PkHolding
<1>3. PkStarting'
  BY <1>0, PkAssumption DEF PkTestOwner, PkPc, pkText, PkInv, PkTypes, PkExclusive,
     PkStarting, PkHolds, PkHolding
<1>4. PkOwned'
  BY <1>0, PkAssumption DEF PkTestOwner, PkPc, pkText, PkInv, PkTypes, PkExclusive,
     PkStarting, PkOwned, PkHolds, PkHolding, PkCounted
<1>5. MessagesWhole'
  BY <1>0 DEF PkTestOwner, PkPc, pkText, PkInv, PkTypes, PkExclusive, PkStarting, PkOwned,
     MessagesWhole, PkHolds, PkHolding
<1>6. PkRoom'
  BY <1>0, PkAssumption DEF PkTestOwner, PkPc, pkText, PkInv, PkTypes, PkExclusive,
     PkStarting, PkOwned, PkRoom, PkHolds, PkHolding
<1> QED BY <1>1, <1>2, <1>3, <1>4, <1>5, <1>6 DEF PkInv

\* The invariant is kept by a thread that sets the word and enters if it was clear.
LEMMA PkExchangeKeeps ==
    ASSUME PkInv, NEW t \in PkThreads, PkExchange(t)
    PROVE  PkInv'
<1>1. PkTypes'
  BY PkAssumption DEF PkExchange, PkPc, PkTakes, pkText, PkInv, PkTypes, PkHolding
<1>2. PkExclusive'
  BY DEF PkExchange, PkPc, PkTakes, pkText, PkInv, PkTypes, PkExclusive, PkHolds,
     PkHolding
<1>3. PkStarting'
  BY PkAssumption DEF PkExchange, PkPc, PkTakes, pkText, PkInv, PkTypes, PkExclusive,
     PkStarting, PkHolds, PkHolding
<1>4. PkOwned'
  BY PkAssumption DEF PkExchange, PkPc, PkTakes, pkText, PkInv, PkTypes, PkExclusive,
     PkStarting, PkOwned, PkHolds, PkHolding, PkCounted
<1>5. MessagesWhole'
  BY DEF PkExchange, PkPc, PkTakes, pkText, PkInv, PkTypes, PkExclusive, PkStarting,
     PkOwned, MessagesWhole, PkHolds, PkHolding
<1>6. PkRoom'
  BY PkAssumption DEF PkExchange, PkPc, PkTakes, pkText, PkInv, PkTypes, PkExclusive,
     PkStarting, PkOwned, PkRoom, PkHolds, PkHolding
<1> QED BY <1>1, <1>2, <1>3, <1>4, <1>5, <1>6 DEF PkInv

\* The invariant is kept by a thread that writes its number.
LEMMA PkClaimKeeps ==
    ASSUME PkInv, NEW t \in PkThreads, PkClaim(t)
    PROVE  PkInv'
<1>1. PkTypes'
  BY PkAssumption DEF PkClaim, PkPc, pkText, PkInv, PkTypes, PkHolding
<1>2. PkExclusive'
  BY DEF PkClaim, PkPc, pkText, PkInv, PkTypes, PkExclusive, PkHolds, PkHolding
<1>3. PkStarting'
  BY PkAssumption DEF PkClaim, PkPc, pkText, PkInv, PkTypes, PkExclusive, PkStarting,
     PkHolds, PkHolding
<1>4. PkOwned'
  BY PkAssumption DEF PkClaim, PkPc, pkText, PkInv, PkTypes, PkExclusive, PkStarting,
     PkOwned, PkHolds, PkHolding, PkCounted
<1>5. MessagesWhole'
  BY DEF PkClaim, PkPc, pkText, PkInv, PkTypes, PkExclusive, PkStarting, PkOwned,
     MessagesWhole, PkHolds, PkHolding
<1>6. PkRoom'
  BY PkAssumption DEF PkClaim, PkPc, pkText, PkInv, PkTypes, PkExclusive, PkStarting,
     PkOwned, PkRoom, PkHolds, PkHolding
<1> QED BY <1>1, <1>2, <1>3, <1>4, <1>5, <1>6 DEF PkInv

\* The invariant is kept by a thread that writes the count.
LEMMA PkCountKeeps ==
    ASSUME PkInv, NEW t \in PkThreads, PkCount(t)
    PROVE  PkInv'
<1>1. PkTypes'
  BY PkAssumption DEF PkCount, PkPc, pkText, PkInv, PkTypes, PkHolding
<1>2. PkExclusive'
  BY DEF PkCount, PkPc, pkText, PkInv, PkTypes, PkExclusive, PkHolds, PkHolding
<1>3. PkStarting'
  BY PkAssumption DEF PkCount, PkPc, pkText, PkInv, PkTypes, PkExclusive, PkStarting,
     PkHolds, PkHolding
<1>4. PkOwned'
  BY PkAssumption DEF PkCount, PkPc, pkText, PkInv, PkTypes, PkExclusive, PkStarting,
     PkOwned, PkHolds, PkHolding, PkCounted
<1>5. MessagesWhole'
  BY DEF PkCount, PkPc, pkText, PkInv, PkTypes, PkExclusive, PkStarting, PkOwned,
     MessagesWhole, PkHolds, PkHolding
<1>6. PkRoom'
  BY PkAssumption DEF PkCount, PkPc, pkText, PkInv, PkTypes, PkExclusive, PkStarting,
     PkOwned, PkRoom, PkHolds, PkHolding
<1> QED BY <1>1, <1>2, <1>3, <1>4, <1>5, <1>6 DEF PkInv

\* The invariant is kept by a thread that formats its text.
LEMMA PkFormatKeeps ==
    ASSUME PkInv, NEW t \in PkThreads, PkFormat(t)
    PROVE  PkInv'
<1>1. PkTypes'
  BY PkAssumption DEF PkFormat, PkPc, pkLock, PkInv, PkTypes, PkHolding
<1>2. PkExclusive'
  BY DEF PkFormat, PkPc, pkLock, PkInv, PkTypes, PkExclusive, PkHolds, PkHolding
<1>3. PkStarting'
  BY PkAssumption DEF PkFormat, PkPc, pkLock, PkInv, PkTypes, PkExclusive, PkStarting,
     PkHolds, PkHolding
<1>4. PkOwned'
  BY PkAssumption DEF PkFormat, PkPc, pkLock, PkInv, PkTypes, PkExclusive, PkStarting,
     PkOwned, PkHolds, PkHolding, PkCounted
<1>5. MessagesWhole'
  BY DEF PkFormat, PkPc, pkLock, PkInv, PkTypes, PkExclusive, PkStarting, PkOwned,
     MessagesWhole, PkHolds, PkHolding
<1>6. PkRoom'
  BY PkAssumption DEF PkFormat, PkPc, pkLock, PkInv, PkTypes, PkExclusive, PkStarting,
     PkOwned, PkRoom, PkHolds, PkHolding
<1> QED BY <1>1, <1>2, <1>3, <1>4, <1>5, <1>6 DEF PkInv

\* The invariant is kept by a thread that opens the log's file or does not.
LEMMA PkOpenKeeps ==
    ASSUME PkInv, NEW t \in PkThreads, PkOpen(t)
    PROVE  PkInv'
<1>1. PkTypes'
  BY PkAssumption DEF PkOpen, PkPc, pkLock, pkText, PkInv, PkTypes, PkHolding
<1>2. PkExclusive'
  BY DEF PkOpen, PkPc, pkLock, pkText, PkInv, PkTypes, PkExclusive, PkHolds, PkHolding
<1>3. PkStarting'
  BY PkAssumption DEF PkOpen, PkPc, pkLock, pkText, PkInv, PkTypes, PkExclusive,
     PkStarting, PkHolds, PkHolding
<1>4. PkOwned'
  BY PkAssumption DEF PkOpen, PkPc, pkLock, pkText, PkInv, PkTypes, PkExclusive,
     PkStarting, PkOwned, PkHolds, PkHolding, PkCounted
<1>5. MessagesWhole'
  BY DEF PkOpen, PkPc, pkLock, pkText, PkInv, PkTypes, PkExclusive, PkStarting, PkOwned,
     MessagesWhole, PkHolds, PkHolding
<1>6. PkRoom'
  BY PkAssumption DEF PkOpen, PkPc, pkLock, pkText, PkInv, PkTypes, PkExclusive,
     PkStarting, PkOwned, PkRoom, PkHolds, PkHolding
<1> QED BY <1>1, <1>2, <1>3, <1>4, <1>5, <1>6 DEF PkInv

\* The invariant is kept by a thread that writes the log in memory.
LEMMA PkFlushKeeps ==
    ASSUME PkInv, NEW t \in PkThreads, PkFlush(t)
    PROVE  PkInv'
<1>1. PkTypes'
  BY PkAssumption DEF PkFlush, PkPc, pkLock, PkInv, PkTypes, PkHolding
<1>2. PkExclusive'
  BY DEF PkFlush, PkPc, pkLock, PkInv, PkTypes, PkExclusive, PkHolds, PkHolding
<1>3. PkStarting'
  BY PkAssumption DEF PkFlush, PkPc, pkLock, PkInv, PkTypes, PkExclusive, PkStarting,
     PkHolds, PkHolding
<1>4. PkOwned'
  BY PkAssumption DEF PkFlush, PkPc, pkLock, PkInv, PkTypes, PkExclusive, PkStarting,
     PkOwned, PkHolds, PkHolding, PkCounted
<1>5. MessagesWhole'
  BY DEF PkFlush, PkPc, pkLock, PkInv, PkTypes, PkExclusive, PkStarting, PkOwned,
     MessagesWhole, PkHolds, PkHolding
<1>6. PkRoom'
  BY PkAssumption DEF PkFlush, PkPc, pkLock, PkInv, PkTypes, PkExclusive, PkStarting,
     PkOwned, PkRoom, PkHolds, PkHolding
<1> QED BY <1>1, <1>2, <1>3, <1>4, <1>5, <1>6 DEF PkInv

\* The invariant is kept by a thread that writes its text to the file.
LEMMA PkFileKeeps ==
    ASSUME PkInv, NEW t \in PkThreads, PkFile(t)
    PROVE  PkInv'
<1>1. PkTypes'
  BY PkAssumption DEF PkFile, PkPc, pkLock, pkText, PkInv, PkTypes, PkHolding
<1>2. PkExclusive'
  BY DEF PkFile, PkPc, pkLock, pkText, PkInv, PkTypes, PkExclusive, PkHolds, PkHolding
<1>3. PkStarting'
  BY PkAssumption DEF PkFile, PkPc, pkLock, pkText, PkInv, PkTypes, PkExclusive,
     PkStarting, PkHolds, PkHolding
<1>4. PkOwned'
  BY PkAssumption DEF PkFile, PkPc, pkLock, pkText, PkInv, PkTypes, PkExclusive,
     PkStarting, PkOwned, PkHolds, PkHolding, PkCounted
<1>5. MessagesWhole'
  BY DEF PkFile, PkPc, pkLock, pkText, PkInv, PkTypes, PkExclusive, PkStarting, PkOwned,
     MessagesWhole, PkHolds, PkHolding
<1>6. PkRoom'
  BY PkAssumption DEF PkFile, PkPc, pkLock, pkText, PkInv, PkTypes, PkExclusive,
     PkStarting, PkOwned, PkRoom, PkHolds, PkHolding
<1> QED BY <1>1, <1>2, <1>3, <1>4, <1>5, <1>6 DEF PkInv

\* The invariant is kept by a thread that tests the room.
LEMMA PkCheckKeeps ==
    ASSUME PkInv, NEW t \in PkThreads, PkCheck(t)
    PROVE  PkInv'
<1>1. PkTypes'
  <2>1. PICK pc \in {"copy", "release"} :
           pkCall' = [pkCall EXCEPT ![t] = [pkCall[t] EXCEPT !.pc = pc, !.seen = pkUsed]]
    BY DEF PkCheck, PkInv, PkTypes
  <2>2. [pkCall[t] EXCEPT !.pc = pc, !.seen = pkUsed]
           \in [pc : PkHolding \cup {"idle", "test", "owner", "exchange"},
               len : 1 .. PkMaxLen, seen : Nat]
    BY DEF PkInv, PkTypes, PkHolding
  <2> QED BY <2>1, <2>2 DEF PkCheck, pkLock, pkText, PkInv, PkTypes
<1>2. PkExclusive'
  BY DEF PkCheck, pkLock, pkText, PkInv, PkTypes, PkExclusive, PkHolds, PkHolding
<1>3. PkStarting'
  BY PkAssumption DEF PkCheck, pkLock, pkText, PkInv, PkTypes, PkExclusive, PkStarting,
     PkHolds, PkHolding
<1>4. PkOwned'
  BY PkAssumption DEF PkCheck, pkLock, pkText, PkInv, PkTypes, PkExclusive, PkStarting,
     PkOwned, PkHolds, PkHolding, PkCounted
<1>5. MessagesWhole'
  BY DEF PkCheck, pkLock, pkText, PkInv, PkTypes, PkExclusive, PkStarting, PkOwned,
     MessagesWhole, PkHolds, PkHolding
<1>6. PkRoom'
  BY PkAssumption DEF PkCheck, PkFits, pkLock, pkText, PkInv, PkTypes, PkExclusive,
     PkStarting, PkOwned, PkRoom, PkHolds, PkHolding
<1> QED BY <1>1, <1>2, <1>3, <1>4, <1>5, <1>6 DEF PkInv

\* The invariant is kept by a thread that copies its text.
LEMMA PkCopyKeeps ==
    ASSUME PkInv, NEW t \in PkThreads, PkCopy(t)
    PROVE  PkInv'
<1>1. PkTypes'
  BY PkAssumption DEF PkCopy, PkPc, pkLock, PkInv, PkTypes, PkHolding
<1>2. PkExclusive'
  BY DEF PkCopy, PkPc, pkLock, PkInv, PkTypes, PkExclusive, PkHolds, PkHolding
<1>3. PkStarting'
  BY PkAssumption DEF PkCopy, PkPc, pkLock, PkInv, PkTypes, PkExclusive, PkStarting,
     PkHolds, PkHolding
<1>4. PkOwned'
  BY PkAssumption DEF PkCopy, PkPc, pkLock, PkInv, PkTypes, PkExclusive, PkStarting,
     PkOwned, PkHolds, PkHolding, PkCounted
<1>5. MessagesWhole'
  BY DEF PkCopy, PkPc, pkLock, PkInv, PkTypes, PkExclusive, PkStarting, PkOwned,
     MessagesWhole, PkHolds, PkHolding
<1>6. PkRoom'
  BY PkAssumption DEF PkCopy, PkPc, pkLock, PkInv, PkTypes, PkExclusive, PkStarting,
     PkOwned, PkRoom, PkHolds, PkHolding
<1> QED BY <1>1, <1>2, <1>3, <1>4, <1>5, <1>6 DEF PkInv

\* The invariant is kept by a thread that lowers the count.
LEMMA PkReleaseKeeps ==
    ASSUME PkInv, NEW t \in PkThreads, PkRelease(t)
    PROVE  PkInv'
<1>1. PkTypes'
  BY PkAssumption DEF PkRelease, PkPc, pkText, PkInv, PkTypes, PkHolding
<1>2. PkExclusive'
  BY DEF PkRelease, PkPc, pkText, PkInv, PkTypes, PkExclusive, PkHolds, PkHolding
<1>3. PkStarting'
  BY PkAssumption DEF PkRelease, PkPc, pkText, PkInv, PkTypes, PkExclusive, PkStarting,
     PkOwned, PkHolds, PkHolding, PkCounted
<1>4. PkOwned'
  BY PkAssumption DEF PkRelease, PkPc, pkText, PkInv, PkTypes, PkExclusive, PkStarting,
     PkOwned, PkHolds, PkHolding, PkCounted
<1>5. MessagesWhole'
  BY DEF PkRelease, PkPc, pkText, PkInv, PkTypes, PkExclusive, PkStarting, PkOwned,
     MessagesWhole, PkHolds, PkHolding
<1>6. PkRoom'
  BY PkAssumption DEF PkRelease, PkPc, pkText, PkInv, PkTypes, PkExclusive, PkStarting,
     PkOwned, PkRoom, PkHolds, PkHolding
<1> QED BY <1>1, <1>2, <1>3, <1>4, <1>5, <1>6 DEF PkInv

\* The invariant is kept by a thread that takes its number back.
LEMMA PkDisownKeeps ==
    ASSUME PkInv, NEW t \in PkThreads, PkDisown(t)
    PROVE  PkInv'
<1>1. PkTypes'
  BY PkAssumption DEF PkDisown, PkPc, pkText, PkInv, PkTypes, PkHolding
<1>2. PkExclusive'
  BY DEF PkDisown, PkPc, pkText, PkInv, PkTypes, PkExclusive, PkHolds, PkHolding
<1>3. PkStarting'
  BY PkAssumption DEF PkDisown, PkPc, pkText, PkInv, PkTypes, PkExclusive, PkStarting,
     PkHolds, PkHolding
<1>4. PkOwned'
  BY PkAssumption DEF PkDisown, PkPc, pkText, PkInv, PkTypes, PkExclusive, PkStarting,
     PkOwned, PkHolds, PkHolding, PkCounted
<1>5. MessagesWhole'
  BY DEF PkDisown, PkPc, pkText, PkInv, PkTypes, PkExclusive, PkStarting, PkOwned,
     MessagesWhole, PkHolds, PkHolding
<1>6. PkRoom'
  BY PkAssumption DEF PkDisown, PkPc, pkText, PkInv, PkTypes, PkExclusive, PkStarting,
     PkOwned, PkRoom, PkHolds, PkHolding
<1> QED BY <1>1, <1>2, <1>3, <1>4, <1>5, <1>6 DEF PkInv

\* The invariant is kept by a thread that clears the word.
LEMMA PkFreeKeeps ==
    ASSUME PkInv, NEW t \in PkThreads, PkFree(t)
    PROVE  PkInv'
<1>1. PkTypes'
  BY PkAssumption DEF PkFree, PkPc, pkText, PkInv, PkTypes, PkHolding
<1>2. PkExclusive'
  BY DEF PkFree, PkPc, pkText, PkInv, PkTypes, PkExclusive, PkHolds, PkHolding
<1>3. PkStarting'
  BY PkAssumption DEF PkFree, PkPc, pkText, PkInv, PkTypes, PkExclusive, PkStarting,
     PkHolds, PkHolding
<1>4. PkOwned'
  BY PkAssumption DEF PkFree, PkPc, pkText, PkInv, PkTypes, PkExclusive, PkStarting,
     PkOwned, PkHolds, PkHolding, PkCounted
<1>5. MessagesWhole'
  BY DEF PkFree, PkPc, pkText, PkInv, PkTypes, PkExclusive, PkStarting, PkOwned,
     MessagesWhole, PkHolds, PkHolding
<1>6. PkRoom'
  BY PkAssumption DEF PkFree, PkPc, pkText, PkInv, PkTypes, PkExclusive, PkStarting,
     PkOwned, PkRoom, PkHolds, PkHolding
<1> QED BY <1>1, <1>2, <1>3, <1>4, <1>5, <1>6 DEF PkInv

\* The invariant is kept by a caller with interrupts disabled: it appends only what
\* fits now, which also leaves room for a text that has been tested.
LEMMA PkQuietKeeps == ASSUME PkInv, NEW len \in 1 .. PkMaxLen, PkQuiet(len) PROVE PkInv'
<1>1. PkTypes'
  BY DEF PkQuiet, PkInv, PkTypes, pkLock
<1>2. PkExclusive' /\ PkStarting' /\ PkOwned' /\ MessagesWhole'
  BY DEF PkQuiet, PkInv, PkExclusive, PkStarting, PkOwned, MessagesWhole, PkHolds, pkLock
<1>3. PkRoom'
  BY PkAssumption DEF PkQuiet, PkFits, PkInv, PkTypes, PkRoom
<1> QED BY <1>1, <1>2, <1>3 DEF PkInv

\* The invariant is kept by printk_sync.
LEMMA PkSyncKeeps == ASSUME PkInv, PkSync PROVE PkInv'
<1>1. PkTypes'
  BY DEF PkSync, PkInv, PkTypes, pkLock
<1>2. PkExclusive' /\ PkStarting' /\ PkOwned' /\ MessagesWhole'
  BY DEF PkSync, PkInv, PkExclusive, PkStarting, PkOwned, MessagesWhole, PkHolds, pkLock
<1>3. PkRoom'
  BY PkAssumption DEF PkSync, PkInv, PkTypes, PkRoom
<1> QED BY <1>1, <1>2, <1>3 DEF PkInv

\* Every step keeps the invariant.
LEMMA PkNextKeeps == PkInv /\ [PkNext]_pkVars => PkInv'
<1> SUFFICES ASSUME PkInv, [PkNext]_pkVars PROVE PkInv'
  OBVIOUS
<1>1. ASSUME NEW t \in PkThreads, PkStep(t) PROVE PkInv'
  BY <1>1, PkBeginKeeps, PkTestKeeps, PkTestOwnerKeeps, PkExchangeKeeps, PkClaimKeeps,
     PkCountKeeps, PkFormatKeeps, PkOpenKeeps, PkFlushKeeps, PkFileKeeps, PkCheckKeeps,
     PkCopyKeeps, PkReleaseKeeps, PkDisownKeeps, PkFreeKeeps DEF PkStep
<1>2. CASE UNCHANGED pkVars
  BY <1>2 DEF pkVars, pkLock, pkText, PkInv, PkTypes, PkExclusive, PkStarting, PkOwned,
              MessagesWhole, PkRoom, PkHolds
<1> QED BY <1>1, <1>2, PkQuietKeeps, PkSyncKeeps DEF PkNext

\* The lock is right in every state.
THEOREM PkInvHolds == PkSpec => []PkInv
  BY PkInitInv, PkNextKeeps, PTL DEF PkSpec

\* Two threads are never both between taking the lock and giving it back, however the
\* steps of the two fall.
THEOREM PkLockExcludes ==
    PkSpec => [](\A t, u \in PkThreads : PkHolds(t) /\ PkHolds(u) => t = u)
<1>1. PkInv => \A t, u \in PkThreads : PkHolds(t) /\ PkHolds(u) => t = u
  BY DEF PkInv, PkExclusive
<1> QED BY PkInvHolds, <1>1, PTL

\* The text a thread writes out is the one it has formatted.
THEOREM MessagesWholeTheorem == PkSpec => []MessagesWhole
<1>1. PkInv => MessagesWhole
  BY DEF PkInv
<1> QED BY PkInvHolds, <1>1, PTL

\* The log in memory is run over by less than one message.
THEOREM LogOverrunTheorem == PkSpec => []LogOverrunBounded
<1>1. PkInv => LogOverrunBounded
  BY DEF PkInv, PkTypes, PkRoom, LogOverrunBounded
<1> QED BY PkInvHolds, <1>1, PTL
=============================================================================
