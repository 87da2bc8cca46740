------------------------------ MODULE PrintkLog ------------------------------
(***************************************************************************)
(* The log of a debug build (src/Common/printk.c), one copy in each module *)
(* of the firmware: a lock of its own making around one buffer for the     *)
(* text, and a log in memory for what no file can take yet.                *)
(*                                                                         *)
(* Threads interleave at every access to what they share.  A caller with   *)
(* interrupts disabled takes no lock and is not interrupted.  The text of  *)
(* a message is the thread that formats it.                                *)
(***************************************************************************)
EXTENDS Integers

CONSTANTS
    PkThreads,
    PkStarter,    \* the thread of module_start, which calls printk_init
    PkNobody,     \* thread_id 0; the text of a caller with interrupts disabled
    PkSize,       \* sizeof(printk_memory_log), 4096
    PkMaxLen      \* the longest text, sizeof(printk_buf) - 1

ASSUME PkAssumption ==
    /\ PkStarter \in PkThreads /\ PkNobody \notin PkThreads
    /\ PkSize \in Nat /\ PkMaxLen \in Nat \ {0}

VARIABLES
    pkL, pkC, pkOwner,   \* lock.l, lock.c, lock.thread_id
    pkBuf,               \* whose text printk_buf holds
    pkTorn,              \* it was overwritten with interrupts disabled
    pkUsed,              \* printk_memory_log_ptr - printk_memory_log
    pkCall,              \* per thread: where it is, its text's length, pkUsed as it saw it
    pkStarted            \* the starter's first message is out

pkVars == <<pkL, pkC, pkOwner, pkBuf, pkTorn, pkUsed, pkCall, pkStarted>>
pkLock == <<pkL, pkC, pkOwner, pkStarted>>
pkText == <<pkBuf, pkTorn, pkUsed>>

PkPc(t, pc) == pkCall' = [pkCall EXCEPT ![t].pc = pc]

-----------------------------------------------------------------------------
(* The lock: psp_mutex_lock, psp_mutex_unlock                              *)

\* printk_init, in front of the starter's first message
PkInit ==
    /\ pkL = 0 /\ pkC = 0 /\ pkOwner = PkStarter
    /\ pkBuf = PkNobody /\ pkTorn = FALSE /\ pkUsed = 0
    /\ pkCall = [t \in PkThreads |-> [pc |-> "idle", len |-> 1, seen |-> 0]]
    /\ pkStarted = FALSE

\* The other threads come after module_start's first message.
PkBegin(t, len) ==
    /\ pkCall[t].pc = "idle" /\ (pkStarted \/ t = PkStarter)
    /\ pkCall' = [pkCall EXCEPT ![t] = [pc |-> "test", len |-> len, seen |-> 0]]
    /\ UNCHANGED <<pkLock, pkText>>

PkTest(t) ==
    /\ pkCall[t].pc = "test"
    /\ PkPc(t, IF pkL # 0 THEN "owner" ELSE "exchange")
    /\ UNCHANGED <<pkLock, pkText>>

\* The same thread may take it again.
PkTestOwner(t) ==
    /\ pkCall[t].pc = "owner"
    /\ PkPc(t, IF pkOwner = t THEN "format" ELSE "test")
    /\ pkC' = IF pkOwner = t THEN pkC + 1 ELSE pkC
    /\ UNCHANGED <<pkL, pkOwner, pkStarted, pkText>>

\* Bug: whoever saw the lock free takes it.
PkTakesAlways == TRUE

\* The old value my_InterlockedExchange returns is 0.
PkTakes == pkL = 0

PkExchange(t) ==
    /\ pkCall[t].pc = "exchange"
    /\ PkPc(t, IF PkTakes THEN "claim" ELSE "test")
    /\ pkL' = 1
    /\ UNCHANGED <<pkC, pkOwner, pkStarted, pkText>>

PkClaim(t) ==
    /\ pkCall[t].pc = "claim" /\ PkPc(t, "count")
    /\ pkOwner' = t
    /\ UNCHANGED <<pkL, pkC, pkStarted, pkText>>

PkCount(t) ==
    /\ pkCall[t].pc = "count" /\ PkPc(t, "format")
    /\ pkC' = 1
    /\ UNCHANGED <<pkL, pkOwner, pkStarted, pkText>>

PkRelease(t) ==
    /\ pkCall[t].pc = "release"
    /\ PkPc(t, IF pkC = 1 THEN "disown" ELSE "idle")
    /\ pkC' = pkC - 1
    /\ UNCHANGED <<pkL, pkOwner, pkStarted, pkText>>

PkDisown(t) ==
    /\ pkCall[t].pc = "disown" /\ PkPc(t, "free")
    /\ pkOwner' = PkNobody
    /\ UNCHANGED <<pkL, pkC, pkStarted, pkText>>

PkFree(t) ==
    /\ pkCall[t].pc = "free" /\ PkPc(t, "idle")
    /\ pkL' = 0 /\ pkStarted' = TRUE
    /\ UNCHANGED <<pkC, pkOwner, pkText>>

-----------------------------------------------------------------------------
(* printk, printk_output                                                   *)

PkFormat(t) ==
    /\ pkCall[t].pc = "format" /\ PkPc(t, "open")
    /\ pkBuf' = t /\ pkTorn' = FALSE
    /\ UNCHANGED <<pkLock, pkUsed>>

\* The text goes to stdout; then printk_open_output.
PkOpen(t) ==
    /\ pkCall[t].pc = "open"
    /\ \E pc \in {"flush", "check"} : PkPc(t, pc)
    /\ UNCHANGED <<pkLock, pkText>>

\* flush_printk_memory_log: the log is emptied when stdout has taken it.
PkFlush(t) ==
    /\ pkCall[t].pc = "flush" /\ PkPc(t, "file")
    /\ pkUsed' \in {0, pkUsed}
    /\ UNCHANGED <<pkLock, pkBuf, pkTorn>>

PkFile(t) ==
    /\ pkCall[t].pc = "file" /\ PkPc(t, "release")
    /\ UNCHANGED <<pkLock, pkText>>

\* Bug: the text before this one is not counted.
PkFitsAlone(len) == len < PkSize

PkFits(len) == pkUsed + len < PkSize

\* append_to_memory_log: the test, and the copy with the new end.
PkCheck(t) ==
    /\ pkCall[t].pc = "check"
    /\ pkCall' = [pkCall EXCEPT ![t].pc = IF PkFits(pkCall[t].len) THEN "copy" ELSE "release",
                                ![t].seen = pkUsed]
    /\ UNCHANGED <<pkLock, pkText>>

\* The end it adds to may be the one it has tested or the one there is by now.
PkCopy(t) ==
    /\ pkCall[t].pc = "copy" /\ PkPc(t, "release")
    /\ \E end \in {pkCall[t].seen, pkUsed} : pkUsed' = end + pkCall[t].len
    /\ UNCHANGED <<pkLock, pkBuf, pkTorn>>

\* A message with interrupts disabled
PkQuiet(len) ==
    /\ pkBuf' = PkNobody /\ pkTorn' = TRUE
    /\ pkUsed' = IF PkFits(len) THEN pkUsed + len ELSE pkUsed
    /\ UNCHANGED <<pkLock, pkCall>>

\* printk_sync, which takes no lock
PkSync ==
    /\ pkUsed > 0 /\ pkUsed' = 0
    /\ UNCHANGED <<pkLock, pkBuf, pkTorn, pkCall>>

PkStep(t) ==
    \/ \E len \in 1 .. PkMaxLen : PkBegin(t, len)
    \/ PkTest(t) \/ PkTestOwner(t) \/ PkExchange(t) \/ PkClaim(t) \/ PkCount(t)
    \/ PkFormat(t) \/ PkOpen(t) \/ PkFlush(t) \/ PkFile(t) \/ PkCheck(t) \/ PkCopy(t)
    \/ PkRelease(t) \/ PkDisown(t) \/ PkFree(t)

PkNext ==
    \/ \E t \in PkThreads : PkStep(t)
    \/ \E len \in 1 .. PkMaxLen : PkQuiet(len)
    \/ PkSync

PkSpec == PkInit /\ [][PkNext]_pkVars

-----------------------------------------------------------------------------
(* Properties                                                              *)

\* What a thread writes out is the text it has formatted: no other thread gets to
\* the buffer between the two, though the lock is taken in three steps (exchange,
\* owner, count) and given back in three; only a caller with interrupts disabled
\* can overwrite it.
MessagesWhole ==
    \A t \in PkThreads :
        pkCall[t].pc \in {"open", "flush", "file", "check", "copy"} => pkBuf = t \/ pkTorn

\* The log in memory may be run over, by a caller with interrupts disabled that
\* comes between the test and the copy, but by less than one message.
LogOverrunBounded == pkUsed >= 0 /\ pkUsed < PkSize + PkMaxLen
=============================================================================
