---------------------------- MODULE MsStorCache ----------------------------
(***************************************************************************)
(* The cache SystemControl puts in front of the memory stick's block       *)
(* device (src/SystemControl/msstor_cache.c): one buffer, filled by a      *)
(* short read that misses, disabled by an open and by a write that         *)
(* overlaps it.  There is no lock, the calls of the device's driver come   *)
(* from any thread; each caller has its own file position, which the       *)
(* driver below moves.                                                     *)
(***************************************************************************)
EXTENDS Integers

CONSTANTS
    MsSize,      \* sectors of the stick
    MsCap,       \* g_cache_cap, in sectors
    MsMaxLen,    \* bound: the longest request
    MsCallers    \* the threads that use the device

MsByte == 0 .. 1
MsInvalid == -1
MsAddr == 0 .. MsSize - 1

ASSUME MsAssumption ==
    MsSize \in Nat \ {0} /\ MsCap \in Nat \ {0} /\ MsMaxLen \in Nat \ {0}

VARIABLES
    stick,      \* what the device holds
    msCache,    \* g_cache: pos, bufsize
    msBuf,      \* g_cache.buf
    msCall,     \* per caller: where it is, its request, was its last answer right
    msRaced     \* a read has met a call that it should not have

msVars == <<stick, msCache, msBuf, msCall, msRaced>>

-----------------------------------------------------------------------------
(* Helpers of the code                                                     *)

MsMin(a, b) == IF a < b THEN a ELSE b

MsWithin(p, start, len) == p >= start /\ p < start + len       \* is_within_range

MsHit(pos, len) ==                                             \* get_hit_cache
    /\ msCache.pos # MsInvalid
    /\ MsWithin(pos, msCache.pos, msCache.bufsize)
    /\ MsWithin(pos + len - 1, msCache.pos, msCache.bufsize)

\* The three conditions of disable_cache_within_range.
MsOverlaps(pos, len) ==
    \/ MsWithin(pos, msCache.pos, msCache.bufsize)
    \/ MsWithin(pos + len - 1, msCache.pos, msCache.bufsize)
    \/ pos < msCache.pos /\ pos + len - 1 >= msCache.pos + msCache.bufsize

MsDisabled == [pos |-> MsInvalid, bufsize |-> 0]

MsAvailable(pos, len) == IF pos >= MsSize THEN 0 ELSE MsMin(len, MsSize - pos)

MsSectors(s, pos, n) == [i \in 0 .. n - 1 |-> s[pos + i]]

MsIdle == [pc |-> "idle", pos |-> 0, len |-> 0, value |-> 0, ret |-> 0,
           want |-> <<>>, right |-> TRUE]

\* A call ends; right: what a read returns is what it should.
MsReturn(c, right) == msCall' = [msCall EXCEPT ![c] = [MsIdle EXCEPT !.right = right]]

\* A step of c changes the buffer while another caller reads through it.
MsDisturbs(c) ==
    /\ <<msCache, msBuf>>' # <<msCache, msBuf>>
    /\ \E d \in MsCallers \ {c} : msCall[d].pc \in {"Hit", "Fill", "Filled"}

\* The buffer is filled between a write's look at it and the write.
MsFillInWrite ==
    \E c, d \in MsCallers : msCall[c].pc \in {"Fill", "Filled"} /\ msCall[d].pc = "Write"

-----------------------------------------------------------------------------
(* Initial state and actions                                               *)

MsInit ==
    /\ stick = [a \in MsAddr |-> 0]
    /\ msCache = MsDisabled
    /\ msBuf = [i \in 0 .. MsCap - 1 |-> 0]
    /\ msCall = [c \in MsCallers |-> MsIdle]
    /\ msRaced = FALSE

\* Nothing is asked once a race has happened: the properties end there.
MsBegin(c, pc, pos, len, value) ==
    /\ msCall[c].pc = "idle" /\ ~msRaced
    /\ msCall' = [msCall EXCEPT ![c] =
          [MsIdle EXCEPT !.pc = pc, !.pos = pos, !.len = len, !.value = value]]
    /\ UNCHANGED <<stick, msBuf>>

\* msstor_cache_open: the file is another, the buffer is worth nothing.
MsOpen(c) ==
    /\ msCall[c].pc = "idle"
    /\ msCache' = MsDisabled
    /\ UNCHANGED <<stick, msBuf, msCall>>

\* msstor_cache_read up to its choice; the fill disables the buffer first.
MsRead(c, pos, len) ==
    \/ /\ MsHit(pos, len)
       /\ MsBegin(c, "Hit", pos, len, 0) /\ UNCHANGED msCache
    \/ /\ ~MsHit(pos, len) /\ len <= MsCap
       /\ MsBegin(c, "Fill", pos, len, 0) /\ msCache' = MsDisabled
    \/ /\ ~MsHit(pos, len) /\ len > MsCap
       /\ MsBegin(c, "Direct", pos, len, 0) /\ UNCHANGED msCache

MsHitCopy(c) ==
    LET r == msCall[c]
        n == MsMin(r.len, msCache.pos + msCache.bufsize - r.pos)
    IN  /\ r.pc = "Hit"
        /\ MsReturn(c, /\ n = MsAvailable(r.pos, r.len)
                       /\ \A i \in 0 .. n - 1 : LET k == r.pos + i - msCache.pos
                                               IN  k \in DOMAIN msBuf /\ msBuf[k] = stick[r.pos + i])
        /\ UNCHANGED <<stick, msCache, msBuf>>

\* The device fills the whole buffer, or what it has from there, or fails with
\* a part of it delivered.
MsFill(c) ==
    LET r == msCall[c]
        n == MsAvailable(r.pos, MsCap)
        Filled(k) == [i \in DOMAIN msBuf |-> IF i < k THEN stick[r.pos + i] ELSE msBuf[i]]
    IN  /\ r.pc = "Fill"
        /\ \/ /\ msBuf' = Filled(n)
              /\ msCall' = [msCall EXCEPT ![c].pc = "Filled", ![c].ret = n,
                                          ![c].want = MsSectors(stick, r.pos, MsMin(n, r.len))]
           \/ \E k \in 0 .. n :
                 msBuf' = Filled(k) /\ MsReturn(c, TRUE)
        /\ UNCHANGED <<stick, msCache>>

\* Bug: the buffer's size is what the caller asked for.
MsFilledSize(r) == r.len

\* cache->bufsize = ret
MsBufSize(r) == r.ret

MsFilled(c) ==
    LET r == msCall[c]
        n == MsMin(r.len, r.ret)
    IN  /\ r.pc = "Filled"
        /\ msCache' = [pos |-> r.pos, bufsize |-> MsBufSize(r)]
        /\ MsReturn(c, [i \in 0 .. n - 1 |-> msBuf[i]] = r.want)
        /\ UNCHANGED <<stick, msBuf>>

\* A read too long for the buffer goes to the device, past the buffer.
MsDirect(c) ==
    /\ msCall[c].pc = "Direct"
    /\ MsReturn(c, TRUE)
    /\ UNCHANGED <<stick, msCache, msBuf>>

\* msstor_cache_write: the overlapping buffer is disabled before the device
\* writes; the write may fail after a part of it.
MsWrite(c, pos, len, value) ==
    /\ MsBegin(c, "Write", pos, len, value)
    /\ msCache' = IF msCache.pos # MsInvalid /\ MsOverlaps(pos, len) THEN MsDisabled ELSE msCache

MsWriteDevice(c) ==
    LET r == msCall[c]
    IN  /\ r.pc = "Write"
        /\ \E k \in 0 .. r.len :
              /\ stick' = [a \in MsAddr |-> IF MsWithin(a, r.pos, k) THEN r.value ELSE stick[a]]
              /\ MsReturn(c, TRUE)
        /\ UNCHANGED <<msCache, msBuf>>

MsStep(c) ==
    \/ MsOpen(c)
    \/ \E pos \in 0 .. MsSize, len \in 1 .. MsMaxLen : MsRead(c, pos, len)
    \/ \E pos \in MsAddr, len \in 1 .. MsMaxLen, v \in MsByte :
          pos + len <= MsSize /\ MsWrite(c, pos, len, v)
    \/ MsHitCopy(c) \/ MsFill(c) \/ MsFilled(c) \/ MsDirect(c) \/ MsWriteDevice(c)

MsNext == \E c \in MsCallers : MsStep(c) /\ msRaced' = (msRaced \/ MsDisturbs(c) \/ MsFillInWrite')

MsSpec == MsInit /\ [][MsNext]_msVars

-----------------------------------------------------------------------------
(* Properties                                                              *)

\* As long as no read has met one of those calls, the buffer never holds a sector
\* the stick does not: not after a failed or short fill, and not after a write
\* that fails half-way or that overlaps the buffer in any way.
MsCacheCoherent ==
    ~msRaced /\ msCache.pos # MsInvalid =>
        \A i \in 0 .. msCache.bufsize - 1 : msBuf[i] = stick[msCache.pos + i]

\* Under the same condition every read returns the sectors that were on the
\* stick when it was served, as many as there are: the comparison the code keeps
\* under #if 0 ("cache mismatched!!!").
MsReadsRight == ~msRaced => \A c \in MsCallers : msCall[c].right
=============================================================================
