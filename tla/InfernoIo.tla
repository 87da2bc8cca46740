----------------------------- MODULE InfernoIo ------------------------------
(***************************************************************************)
(* The umd driver of Inferno (src/ISODrivers/Inferno/iodrv_funcs.c): the   *)
(* table of open files g_open_slot, the semaphore g_umd9660_sema_id, and   *)
(* the handlers IoOpen, IoClose, IoRead, IoLseek, IoIoctl and IoExit.      *)
(*                                                                         *)
(* IoRead takes the semaphore three times: for the position of the file,   *)
(* for the data (iso_read_with_stack) and to advance the position.  The    *)
(* kernel gives every open file a structure whose field `arg` holds the    *)
(* slot; it closes a file only when no call on it is in progress.          *)
(*                                                                         *)
(* Lengths and positions are in sectors, positions are u32: they are kept  *)
(* modulo Width.  The code turns both into bytes for the image, u32 again: *)
(* a length that is cut at the end of the disc fits, so that product is    *)
(* left out, and reads so long that their sum with a position wraps are no *)
(* Calls.  Past the end the product does not matter, nothing is there.     *)
(***************************************************************************)
EXTENDS Integers, FiniteSets

CONSTANTS
    Threads,    \* threads that use the disc
    Files,      \* file structures of the kernel
    Calls,      \* the calls [op, n, whence] threads make
    NumSlots,   \* MAX_FILES_NR
    Total,      \* g_total_sectors
    Width,      \* 2^32
    Shared,     \* BOOLEAN: threads use each other's files
    Exits       \* BOOLEAN: the driver may be removed while calls are running

NoSlot == -1
NoThread == "none"
NoFile == "none"
Slot == 0 .. NumSlots - 1

Result(kind, at, count) == [kind |-> kind, at |-> at, count |-> count]
Pending == Result("pending", 0, 0)
Failed == Result("failed", 0, 0)           \* -1, and the errors of iso_read
TooMany == Result("too many", 0, 0)        \* 0x80010018
Done(at) == Result("done", at, 0)

NoCall == [op |-> "none", file |-> NoFile, n |-> 0, whence |-> "set", res |-> Pending]

ASSUME InfernoIoAssumption ==
    /\ NoThread \notin Threads /\ NoFile \notin Files
    /\ Calls \subseteq [op : {"open", "read", "seek", "tell", "close"},
                        n : Int, whence : {"set", "cur", "end", "other"}]
    /\ \A c \in Calls : c.op = "read" => c.n \in 0 .. Width - 1 - Total
    /\ NumSlots \in Nat \ {0} /\ Total \in Nat
    /\ Width \in Nat /\ Total < Width
    /\ Shared \in BOOLEAN /\ Exits \in BOOLEAN

VARIABLES
    slots,      \* g_open_slot
    sema,       \* who holds g_umd9660_sema_id
    alive,      \* it has not been deleted
    fslot,      \* the kernel's file structures: arg->arg
    owner,      \* the thread that opened the file, NoThread when it is free
    call,       \* the call of each thread and its result
    pc,         \* where the thread is in the handler
    idx, off, got  \* IoRead's idx, offset and retv

vars == <<slots, sema, alive, fslot, owner, call, pc, idx, off, got>>
locals == <<idx, off, got>>

-----------------------------------------------------------------------------

Goto(t, l) == pc' = [pc EXCEPT ![t] = l]

\* The handler returns r to the kernel.
Finish(t, r) ==
    /\ call' = [call EXCEPT ![t].res = r]
    /\ Goto(t, "done")

\* The semaphore can be taken, and is given back in the same step.
SemaFree == alive /\ sema = NoThread

SlotOf(t) == fslot[call[t].file]

\* A sum or difference of u32
Unsigned(x) == x % Width

\* Bug: a position beyond the end is kept.
ClampNot(p) == p

\* if (g_total_sectors < offset) offset = g_total_sectors
Clamp(p) == IF p > Total THEN Total ELSE p

Init ==
    /\ slots = [s \in Slot |-> [enabled |-> FALSE, offset |-> 0]]
    /\ sema = NoThread /\ alive = TRUE
    /\ fslot = [f \in Files |-> NoSlot]
    /\ owner = [f \in Files |-> NoThread]
    /\ call = [t \in Threads |-> NoCall]
    /\ pc = [t \in Threads |-> "idle"]
    /\ idx = [t \in Threads |-> NoSlot]
    /\ off = [t \in Threads |-> 0] /\ got = [t \in Threads |-> 0]

-----------------------------------------------------------------------------
(* The kernel: it finds the file of a call, and frees it after a close or  *)
(* an open that failed.                                                    *)

InUse(f) == \E u \in Threads : call[u].file = f
Closing(f) == \E u \in Threads : call[u].file = f /\ call[u].op \in {"open", "close"}

MayUse(t, f) == owner[f] = t \/ (Shared /\ owner[f] # NoThread)

Begin(t, c, f) ==
    /\ pc[t] = "idle"
    /\ \/ /\ c.op = "open" /\ owner[f] = NoThread
          /\ owner' = [owner EXCEPT ![f] = t]
       \/ /\ c.op = "close" /\ MayUse(t, f) /\ ~InUse(f)
          /\ UNCHANGED owner
       \/ /\ c.op \in {"read", "seek", "tell"} /\ MayUse(t, f) /\ ~Closing(f)
          /\ UNCHANGED owner
    /\ call' = [call EXCEPT ![t] = [op |-> c.op, file |-> f, n |-> c.n,
                                    whence |-> c.whence, res |-> Pending]]
    /\ Goto(t, c.op)
    /\ UNCHANGED <<slots, sema, alive, fslot, locals>>

Return(t) ==
    LET f == call[t].file
        freed == \/ call[t].op = "close"
                 \/ call[t].op = "open" /\ call[t].res.kind # "done"
    IN  /\ pc[t] = "done"
        /\ call' = [call EXCEPT ![t] = NoCall]
        /\ owner' = IF freed THEN [owner EXCEPT ![f] = NoThread] ELSE owner
        /\ fslot' = IF freed THEN [fslot EXCEPT ![f] = NoSlot] ELSE fslot
        /\ Goto(t, "idle")
        /\ UNCHANGED <<slots, sema, alive, locals>>

-----------------------------------------------------------------------------
(* Every handler waits for the semaphore first; once it is deleted the     *)
(* wait fails and the handler returns -1.                                  *)

Waits == {"open", "close", "seek", "tell", "read", "disc", "advance"}

WaitSemaFails(t) ==
    /\ pc[t] \in Waits /\ ~alive
    /\ Finish(t, Failed)
    /\ idx' = [idx EXCEPT ![t] = NoSlot]
    /\ off' = [off EXCEPT ![t] = 0] /\ got' = [got EXCEPT ![t] = 0]
    /\ UNCHANGED <<slots, sema, alive, fslot, owner>>

\* Bug: the slot keeps the position of the file that had it before.
OpenSlotKeepsOffset(t) ==
    /\ pc[t] = "open" /\ SemaFree
    /\ \E s \in Slot :
          /\ ~slots[s].enabled /\ \A r \in 0 .. s - 1 : slots[r].enabled
          /\ slots' = [slots EXCEPT ![s].enabled = TRUE]
          /\ fslot' = [fslot EXCEPT ![call[t].file] = s]
    /\ Finish(t, Done(0))
    /\ UNCHANGED <<sema, alive, owner, locals>>

\* IoOpen: the first slot that is not enabled.
OpenSlot(t) ==
    /\ pc[t] = "open" /\ SemaFree
    /\ \E s \in Slot :
          /\ ~slots[s].enabled /\ \A r \in 0 .. s - 1 : slots[r].enabled
          /\ slots' = [slots EXCEPT ![s] = [enabled |-> TRUE, offset |-> 0]]
          /\ fslot' = [fslot EXCEPT ![call[t].file] = s]
    /\ Finish(t, Done(0))
    /\ UNCHANGED <<sema, alive, owner, locals>>

OpenFull(t) ==
    /\ pc[t] = "open" /\ SemaFree
    /\ \A s \in Slot : slots[s].enabled
    /\ Finish(t, TooMany)
    /\ UNCHANGED <<slots, sema, alive, fslot, owner, locals>>

\* The image cannot be read (the seek loop of IoOpen, 0x80010013).
OpenFails(t) ==
    /\ pc[t] = "open"
    /\ Finish(t, Failed)
    /\ UNCHANGED <<slots, sema, alive, fslot, owner, locals>>

\* Bug: the slot is not given back.
CloseKeepsSlot(t) ==
    /\ pc[t] = "close" /\ SemaFree
    /\ Finish(t, Done(0))
    /\ UNCHANGED <<slots, sema, alive, fslot, owner, locals>>

Close(t) ==
    /\ pc[t] = "close" /\ SemaFree
    /\ slots' = [slots EXCEPT ![SlotOf(t)].enabled = FALSE]
    /\ Finish(t, IF slots[SlotOf(t)].enabled THEN Done(0) ELSE Failed)
    /\ UNCHANGED <<sema, alive, fslot, owner, locals>>

\* IoIoctl 0x01D20001.
Tell(t) ==
    /\ pc[t] = "tell" /\ SemaFree
    /\ Finish(t, Done(slots[SlotOf(t)].offset))
    /\ UNCHANGED <<slots, sema, alive, fslot, owner, locals>>

-----------------------------------------------------------------------------
(* IoLseek                                                                 *)

Seek(t) ==
    LET p == slots[SlotOf(t)].offset
        n == call[t].n
        target == CASE call[t].whence = "set" -> n
                    [] call[t].whence = "cur" -> p + n
                    [] call[t].whence = "end" -> Total + n
    IN  /\ pc[t] = "seek" /\ SemaFree /\ call[t].whence # "other"
        /\ slots' = [slots EXCEPT ![SlotOf(t)].offset = Clamp(Unsigned(target))]
        /\ Goto(t, "sought")
        /\ UNCHANGED <<sema, alive, fslot, owner, call, locals>>

\* A whence that is none of the three
SeekUnknown(t) ==
    /\ pc[t] = "seek" /\ SemaFree /\ call[t].whence = "other"
    /\ Finish(t, Failed)
    /\ UNCHANGED <<slots, sema, alive, fslot, owner, locals>>

\* ret = g_open_slot[idx].offset, after the semaphore was given back.
SeekReturns(t) ==
    /\ pc[t] = "sought"
    /\ Finish(t, Done(slots[SlotOf(t)].offset))
    /\ UNCHANGED <<slots, sema, alive, fslot, owner, locals>>

-----------------------------------------------------------------------------
(* IoRead                                                                  *)

ReadOffset(t) ==
    /\ pc[t] = "read" /\ SemaFree
    /\ idx' = [idx EXCEPT ![t] = SlotOf(t)]
    /\ off' = [off EXCEPT ![t] = slots[SlotOf(t)].offset]
    /\ Goto(t, "disc")
    /\ UNCHANGED <<slots, sema, alive, fslot, owner, call, got>>

\* Bug: the read does not wait for the semaphore.
TakeDiscNoWait(t) ==
    /\ pc[t] = "disc" /\ alive
    /\ sema' = t
    /\ Goto(t, "reading")
    /\ UNCHANGED <<slots, alive, fslot, owner, call, locals>>

\* iso_read_with_stack: the disc is read with the semaphore held ...
TakeDisc(t) ==
    /\ pc[t] = "disc" /\ SemaFree
    /\ sema' = t
    /\ Goto(t, "reading")
    /\ UNCHANGED <<slots, alive, fslot, owner, call, locals>>

\* Bug: the length is not clamped, and counted as read.
SectorsAll(p, n) == n

\* The sectors a read of n from p delivers.  Past the end the length is
\* g_total_sectors - offset modulo 2^32, and the image gives nothing.
Sectors(p, n) ==
    LET want == IF Total < Unsigned(p + n) THEN Unsigned(Total - p) ELSE n
    IN  IF p > Total THEN 0 ELSE IF p + want > Total THEN Total - p ELSE want

\* Return to the kernel with the locals gone.
ReadFinish(t, r) ==
    /\ Finish(t, r)
    /\ idx' = [idx EXCEPT ![t] = NoSlot]
    /\ off' = [off EXCEPT ![t] = 0] /\ got' = [got EXCEPT ![t] = 0]

\* ... it delivers: the position is advanced next, unless there was nothing ...
DiscDelivers(t) ==
    LET n == Sectors(off[t], call[t].n)
    IN  /\ pc[t] = "reading" /\ alive
        /\ sema' = NoThread
        /\ \/ /\ n > 0
              /\ got' = [got EXCEPT ![t] = n]
              /\ Goto(t, "advance")
              /\ UNCHANGED <<call, idx, off>>
           \/ n = 0 /\ ReadFinish(t, Result("done", off[t], 0))
        /\ UNCHANGED <<slots, alive, fslot, owner>>

\* Bug: a failed read returns without giving the semaphore back.
DiscFailsKeepsSema(t) ==
    /\ pc[t] = "reading"
    /\ ReadFinish(t, Failed)
    /\ UNCHANGED <<slots, sema, alive, fslot, owner>>

\* ... or it fails, or the semaphore is gone when it should be given back.
DiscFails(t) ==
    /\ pc[t] = "reading"
    /\ sema' = NoThread
    /\ ReadFinish(t, Failed)
    /\ UNCHANGED <<slots, alive, fslot, owner>>

\* g_open_slot[idx].offset += retv
Advance(t) ==
    /\ pc[t] = "advance" /\ SemaFree
    /\ slots' = [slots EXCEPT ![idx[t]].offset = Unsigned(@ + got[t])]
    /\ ReadFinish(t, Result("done", off[t], got[t]))
    /\ UNCHANGED <<sema, alive, fslot, owner>>

-----------------------------------------------------------------------------
(* IoExit waits half a second for the semaphore, and deletes it in any case *)

IoExit ==
    /\ Exits /\ alive
    /\ alive' = FALSE
    /\ UNCHANGED <<slots, sema, fslot, owner, call, pc, locals>>

Step(t) ==
    \/ WaitSemaFails(t) \/ OpenSlot(t) \/ OpenFull(t) \/ OpenFails(t) \/ Close(t) \/ Tell(t)
    \/ Seek(t) \/ SeekUnknown(t) \/ SeekReturns(t)
    \/ ReadOffset(t) \/ TakeDisc(t) \/ DiscDelivers(t) \/ DiscFails(t) \/ Advance(t)
    \/ Return(t)

Next ==
    \/ IoExit
    \/ \E t \in Threads : Step(t) \/ \E c \in Calls, f \in Files : Begin(t, c, f)

Spec == Init /\ [][Next]_vars

\* Threads are scheduled, and the semaphore is served in the order of its waiters
\* (it is created with attribute 0).
FairSpec == Spec /\ \A t \in Threads : SF_vars(Step(t))

-----------------------------------------------------------------------------
(* Properties                                                              *)

\* The type invariant.
TypeOK ==
    /\ slots \in [Slot -> [enabled : BOOLEAN, offset : 0 .. Width - 1]]
    /\ sema \in Threads \cup {NoThread} /\ alive \in BOOLEAN
    /\ fslot \in [Files -> Slot \cup {NoSlot}]
    /\ owner \in [Files -> Threads \cup {NoThread}]
    /\ \A t \in Threads :
          /\ call[t].op \in {"none", "open", "read", "seek", "tell", "close"}
          /\ call[t].file \in Files \cup {NoFile}
          /\ pc[t] \in Waits \cup {"idle", "sought", "reading", "done"}
          /\ idx[t] \in Slot \cup {NoSlot}
          /\ off[t] \in 0 .. Width - 1 /\ got[t] \in 0 .. Total

\* A file that is open: its IoOpen has given it a slot, its IoClose has not yet
\* returned.
IsOpen(f) ==
    /\ fslot[f] # NoSlot
    /\ \A t \in Threads : call[t].file = f /\ call[t].op = "close" => call[t].res = Pending

\* The slots in use are those of the open files, one for each: no two files share
\* a position, none is lost with its file.
SlotsMatchFiles ==
    /\ \A f, g \in Files : IsOpen(f) /\ IsOpen(g) /\ fslot[f] = fslot[g] => f = g
    /\ alive => {s \in Slot : slots[s].enabled} = {fslot[f] : f \in {g \in Files : IsOpen(g)}}

\* A read holds the semaphore while it is at the disc, and nobody else does.
DiscExclusive == \A t \in Threads : pc[t] = "reading" <=> sema = t

\* The position of a file that only its opener uses stays on the disc, so that
\* g_total_sectors - offset never wraps.
OffsetOnDisc == ~Shared => \A f \in Files : IsOpen(f) => slots[fslot[f]].offset <= Total

\* Threads that read one file at the same time can push its position past the end,
\* by what all of them but one have read, and not further.
OvershootBounded ==
    \A f \in Files : IsOpen(f) =>
        slots[fslot[f]].offset <= Total + (Cardinality(Threads) - 1) * Total

\* What the programs see of the files: the position of each open one ...
FileOffsets == [f \in Files |-> IF IsOpen(f) THEN slots[fslot[f]].offset ELSE -1]

\* ... and the calls, where a seek is over once the position is set.
CallsSeen ==
    [t \in Threads |-> IF pc[t] = "sought"
                       THEN [call[t] EXCEPT !.res = Done(slots[SlotOf(t)].offset)]
                       ELSE call[t]]

\* Used by one thread each, the files behave as UmdFiles says: every call takes
\* effect at once, reads continue where the last one ended, and an open fails for
\* lack of slots only when NumSlots files are open.
FilesAbs == INSTANCE UmdFiles WITH
    Capacity <- NumSlots, offset <- FileOffsets, call <- CallsSeen

FilesSpec == FilesAbs!Spec

\* Every call returns, also when the driver is removed under it.
CallsReturn == \A t \in Threads : pc[t] # "idle" ~> pc[t] = "idle"
=============================================================================
