------------------------------ MODULE IsoRead ------------------------------
(***************************************************************************)
(* The image file under the Inferno driver: iso_open, read_raw_data and    *)
(* iso_get_nsector (src/ISODrivers/Inferno/isoread.c), with the two users  *)
(* of the file that take no semaphore, the seek loop of IoOpen and the     *)
(* mount thread (iodrv_funcs.c).                                           *)
(*                                                                         *)
(* All of them share one file descriptor, g_iso_fd, and so one file        *)
(* position.  The memory stick may be pulled and put back (or the console  *)
(* suspended): every descriptor opened before then fails until it is       *)
(* closed, which is what the retries of the code are for.                  *)
(*                                                                         *)
(* Each call into the kernel is a step.  The byte at offset p of the image *)
(* has the value p, and a read is known by the offset of its first byte.   *)
(* The image is a plain ISO file.                                          *)
(***************************************************************************)
EXTENDS Integers, FiniteSets

CONSTANTS
    Threads,     \* threads of the game and of the system that use the drive
    Mounter,     \* the thread infernoMount
    Offsets,     \* where reads start
    MountPos,    \* 0x8000, the primary volume descriptor
    ReadLen,     \* bytes of a read
    Header,      \* sizeof(struct CISO_header)
    Total,       \* size of the image
    Retries,     \* 16
    Opens,       \* BOOLEAN: threads open files while others read
    MaxEjects,   \* bound: how often the memory stick is pulled
    Handles      \* descriptors the kernel has

Closed == -1      \* the position of a free descriptor
Stale == -2       \* of one opened before the stick was pulled
NoHandle == -1    \* g_iso_fd < 0
NoThread == "none"
Error == -1       \* a negative return value
None == -2        \* no value yet

ASSUME IsoReadAssumption ==
    /\ NoThread \notin Threads
    /\ Header \in Nat /\ Total \in Nat /\ ReadLen \in Nat \ {0}
    /\ Header <= Total /\ Offsets \subseteq 0 .. Total /\ MountPos \in 0 .. Total
    /\ Retries \in Nat \ {0} /\ MaxEjects \in Nat
    /\ Handles \subseteq Nat

VARIABLES
    card,       \* the memory stick answers
    ejects,
    pos,        \* file position of each descriptor
    fd,         \* g_iso_fd
    opened,     \* g_iso_opened
    sectors,    \* g_total_sectors
    sema,       \* who holds g_umd9660_sema_id
    pc, op,     \* of each thread: where it is, and in which operation
    arg,        \* the offset it seeks
    i,          \* i, the attempts of the current loop
    retries,    \* retries of iso_open
    to,         \* where iso_open returns
    h,          \* the descriptor is_ciso and get_nsector are working on
    off, total, \* locals of iso_get_nsector
    data,       \* what its last read delivered
    clean,      \* history: no retry of the read, no IoOpen or mount under it
    overlap     \* history: two threads have been inside iso_open at once

fileVars == <<card, ejects, pos>>
openVars == <<retries, to, h, off, total>>
vars == <<fileVars, fd, opened, sectors, sema, pc, op, arg, i, openVars, data,
          clean, overlap>>

-----------------------------------------------------------------------------
(* The kernel's file calls                                                 *)

Usable(d) == d \in Handles /\ card /\ pos[d] \notin {Closed, Stale}

Goto(t, l) == pc' = [pc EXCEPT ![t] = l]

InIsoOpen(t) == pc[t] \in {"wait", "close", "open", "rewind", "header", "cur", "end",
                           "back", "count"}

\* History, a conjunct of every step of thread t.
Observe(t) ==
    /\ clean' = [u \in Threads |->
          IF pc[u] = "seek" /\ pc'[u] = "read" THEN TRUE
          ELSE clean[u] /\ pc'[u] \notin {"wait", "idle"} /\
               (pc[u] = "read" /\ u # t /\ ~(op[t] = "read" /\ op[u] = "read") =>
                    fd' = fd /\ (fd \in Handles => pos'[fd] = pos[fd]))]
    /\ overlap' = (overlap \/ \E u, w \in Threads :
                                u # w /\ InIsoOpen(u)' /\ InIsoOpen(w)')

Init ==
    /\ card = TRUE /\ ejects = 0
    /\ pos = [d \in Handles |-> Closed]
    /\ fd = NoHandle /\ opened = FALSE /\ sectors = -1
    /\ sema = NoThread
    /\ pc = [t \in Threads |-> IF t = Mounter THEN "mount" ELSE "idle"]
    /\ op = [t \in Threads |-> IF t = Mounter THEN "mount" ELSE "none"]
    /\ arg = [t \in Threads |-> IF t = Mounter THEN MountPos ELSE 0]
    /\ i = [t \in Threads |-> 0] /\ retries = [t \in Threads |-> 0]
    /\ to = [t \in Threads |-> "idle"]
    /\ h = [t \in Threads |-> NoHandle]
    /\ off = [t \in Threads |-> 0] /\ total = [t \in Threads |-> 0]
    /\ data = [t \in Threads |-> None]
    /\ clean = [t \in Threads |-> FALSE] /\ overlap = FALSE

-----------------------------------------------------------------------------
(* iso_open                                                                *)

\* The return, where iso_open's locals end.
LeaveIsoOpen(t) ==
    /\ Goto(t, to[t])
    /\ to' = [to EXCEPT ![t] = "idle"]
    /\ retries' = [retries EXCEPT ![t] = 0]
    /\ h' = [h EXCEPT ![t] = NoHandle]
    /\ off' = [off EXCEPT ![t] = 0] /\ total' = [total EXCEPT ![t] = 0]

\* The call; wait_until_ms0_ready comes first.
CallIsoOpen(t, back) == Goto(t, "wait") /\ to' = [to EXCEPT ![t] = back]

WaitMs0(t) ==
    /\ pc[t] = "wait" /\ card
    /\ Goto(t, "close")
    /\ UNCHANGED <<fileVars, fd, opened, sectors, sema, op, arg, i, openVars, data>>

\* Bug: the old descriptor is not closed.
CloseNot(t) ==
    /\ pc[t] = "close"
    /\ opened' = FALSE
    /\ retries' = [retries EXCEPT ![t] = 0]
    /\ Goto(t, "open")
    /\ UNCHANGED <<fileVars, fd, sectors, sema, op, arg, i, to, h, off, total, data>>

\* sceIoClose(g_iso_fd), g_iso_opened = 0, retries = 0.
Close(t) ==
    /\ pc[t] = "close"
    /\ pos' = [d \in Handles |-> IF d = fd THEN Closed ELSE pos[d]]
    /\ opened' = FALSE
    /\ retries' = [retries EXCEPT ![t] = 0]
    /\ Goto(t, "open")
    /\ UNCHANGED <<card, ejects, fd, sectors, sema, op, arg, i, to, h, off, total, data>>

\* sceIoOpen succeeds.
Open(t) ==
    /\ pc[t] = "open" /\ card
    /\ \E d \in Handles :
          /\ pos[d] = Closed /\ \A e \in Handles : e < d => pos[e] # Closed
          /\ pos' = [pos EXCEPT ![d] = 0]
          /\ fd' = d
          /\ h' = [h EXCEPT ![t] = d]
    /\ Goto(t, "rewind")
    /\ UNCHANGED <<card, ejects, opened, sectors, sema, op, arg, i, retries, to, off,
                   total, data>>

\* sceIoOpen fails: once more, up to the limit, where iso_open returns -1.
OpenFails(t) ==
    /\ pc[t] = "open" /\ (~card \/ \A d \in Handles : pos[d] # Closed)
    /\ fd' = NoHandle
    /\ IF retries[t] + 1 >= Retries THEN LeaveIsoOpen(t)
       ELSE /\ retries' = [retries EXCEPT ![t] = @ + 1]
            /\ UNCHANGED <<pc, to, h, off, total>>
    /\ UNCHANGED <<fileVars, opened, sectors, sema, op, arg, i, data>>

\* is_ciso: seek to the header ...
Rewind(t) ==
    /\ pc[t] = "rewind"
    /\ pos' = IF Usable(h[t]) THEN [pos EXCEPT ![h[t]] = 0] ELSE pos
    /\ Goto(t, "header")
    /\ UNCHANGED <<card, ejects, fd, opened, sectors, sema, op, arg, i, openVars, data>>

\* Bug: g_iso_opened is not set.
ReadHeaderOnly(t) ==
    /\ pc[t] = "header"
    /\ pos' = IF Usable(h[t]) THEN [pos EXCEPT ![h[t]] = Header] ELSE pos
    /\ h' = [h EXCEPT ![t] = fd]
    /\ Goto(t, "cur")
    /\ UNCHANGED <<card, ejects, fd, opened, sectors, sema, op, arg, i, retries, to, off,
                   total, data>>

\* ... and read it; then g_iso_opened = 1, before the size is known.
ReadHeader(t) ==
    /\ pc[t] = "header"
    /\ pos' = IF Usable(h[t]) THEN [pos EXCEPT ![h[t]] = Header] ELSE pos
    /\ opened' = TRUE
    /\ h' = [h EXCEPT ![t] = fd]                     \* get_nsector's argument
    /\ Goto(t, "cur")
    /\ UNCHANGED <<card, ejects, fd, sectors, sema, op, arg, i, retries, to, off,
                   total, data>>

\* iso_get_nsector: the position, the end, and back to the position.
SeekCur(t) ==
    /\ pc[t] = "cur"
    /\ off' = [off EXCEPT ![t] = IF Usable(h[t]) THEN pos[h[t]] ELSE Error]
    /\ Goto(t, "end")
    /\ UNCHANGED <<fileVars, fd, opened, sectors, sema, op, arg, i, retries, to, h,
                   total, data>>

\* Bug: the size is the position instead of the end.
SeekEndAtCur(t) ==
    /\ pc[t] = "end"
    /\ pos' = IF Usable(h[t]) THEN [pos EXCEPT ![h[t]] = Total] ELSE pos
    /\ total' = [total EXCEPT ![t] = IF Usable(h[t]) THEN pos[h[t]] ELSE Error]
    /\ Goto(t, "back")
    /\ UNCHANGED <<card, ejects, fd, opened, sectors, sema, op, arg, i, retries, to, h,
                   off, data>>

SeekEnd(t) ==
    /\ pc[t] = "end"
    /\ pos' = IF Usable(h[t]) THEN [pos EXCEPT ![h[t]] = Total] ELSE pos
    /\ total' = [total EXCEPT ![t] = IF Usable(h[t]) THEN Total ELSE Error]
    /\ Goto(t, "back")
    /\ UNCHANGED <<card, ejects, fd, opened, sectors, sema, op, arg, i, retries, to, h,
                   off, data>>

SeekBack(t) ==
    /\ pc[t] = "back"
    /\ pos' = IF Usable(h[t]) /\ off[t] # Error THEN [pos EXCEPT ![h[t]] = off[t]] ELSE pos
    /\ Goto(t, "count")
    /\ UNCHANGED <<card, ejects, fd, opened, sectors, sema, op, arg, i, openVars, data>>

\* g_total_sectors = get_nsector(), and iso_open returns 0.
Count(t) ==
    /\ pc[t] = "count"
    /\ sectors' = total[t]
    /\ LeaveIsoOpen(t)
    /\ UNCHANGED <<fileVars, fd, opened, sema, op, arg, i, data>>

-----------------------------------------------------------------------------
(* read_raw_data, and the seek loop of IoOpen                              *)

\* An operation is over, and its locals with it.
Over(t) ==
    /\ Goto(t, "idle")
    /\ op' = [op EXCEPT ![t] = "none"] /\ arg' = [arg EXCEPT ![t] = 0]
    /\ data' = [data EXCEPT ![t] = None]

\* The loops are over with value v: an IoOpen ends here, the mount too, and a
\* read has the semaphore to give back.
End(t, v) ==
    /\ i' = [i EXCEPT ![t] = 0]
    /\ \/ op[t] = "open" /\ Over(t)
       \/ /\ op[t] # "open"
          /\ data' = [data EXCEPT ![t] = v]
          /\ Goto(t, IF op[t] = "read" THEN "release" ELSE "mounted")
          /\ UNCHANGED <<op, arg>>

Seek(t) ==
    /\ pc[t] = "seek" /\ i[t] < Retries /\ Usable(fd)
    /\ pos' = [pos EXCEPT ![fd] = arg[t]]
    /\ \/ op[t] = "open" /\ End(t, None)
       \/ /\ op[t] # "open" /\ Goto(t, "read")
          /\ i' = [i EXCEPT ![t] = 0]
          /\ UNCHANGED <<op, arg, data>>
    /\ UNCHANGED <<card, ejects, fd, opened, sectors, sema, openVars>>

\* Bug: the attempts are not counted.
SeekFailsUncounted(t) ==
    /\ pc[t] = "seek" /\ i[t] < Retries /\ ~Usable(fd)
    /\ CallIsoOpen(t, "seek")
    /\ UNCHANGED <<fileVars, fd, opened, sectors, sema, op, arg, i, retries, h, off, total,
                   data>>

SeekFails(t) ==
    /\ pc[t] = "seek" /\ i[t] < Retries /\ ~Usable(fd)
    /\ i' = [i EXCEPT ![t] = @ + 1]
    /\ CallIsoOpen(t, "seek")
    /\ UNCHANGED <<fileVars, fd, opened, sectors, sema, op, arg, retries, h, off, total,
                   data>>

Read(t) ==
    /\ pc[t] = "read" /\ i[t] < Retries /\ Usable(fd)
    /\ End(t, pos[fd])
    /\ pos' = [pos EXCEPT ![fd] = IF @ + ReadLen > Total THEN Total ELSE @ + ReadLen]
    /\ UNCHANGED <<card, ejects, fd, opened, sectors, sema, openVars>>

\* The file is opened again and read again, from where iso_open left it.
ReadFails(t) ==
    /\ pc[t] = "read" /\ i[t] < Retries /\ ~Usable(fd)
    /\ i' = [i EXCEPT ![t] = @ + 1]
    /\ CallIsoOpen(t, "read")
    /\ UNCHANGED <<fileVars, fd, opened, sectors, sema, op, arg, retries, h, off, total,
                   data>>

\* if(i == 16) ret = 0x80010013
GiveUp(t) ==
    /\ pc[t] \in {"seek", "read"} /\ i[t] = Retries
    /\ End(t, Error)
    /\ UNCHANGED <<fileVars, fd, opened, sectors, sema, openVars>>

-----------------------------------------------------------------------------
(* The operations: a read under the semaphore (iso_read_with_stack), an    *)
(* open and the mount without it.                                          *)

BeginRead(t, o) ==
    /\ pc[t] = "idle"
    /\ op' = [op EXCEPT ![t] = "read"]
    /\ arg' = [arg EXCEPT ![t] = o]
    /\ Goto(t, "acquire")
    /\ UNCHANGED <<fileVars, fd, opened, sectors, sema, i, openVars, data>>

\* Bug: the read does not wait.
WaitSemaNot(t) ==
    /\ pc[t] = "acquire"
    /\ sema' = t
    /\ Goto(t, "seek")
    /\ UNCHANGED <<fileVars, fd, opened, sectors, op, arg, i, openVars, data>>

WaitSema(t) ==
    /\ pc[t] = "acquire" /\ sema = NoThread
    /\ sema' = t
    /\ Goto(t, "seek")
    /\ UNCHANGED <<fileVars, fd, opened, sectors, op, arg, i, openVars, data>>

SignalSema(t) ==
    /\ pc[t] = "release"
    /\ sema' = NoThread
    /\ Over(t)
    /\ UNCHANGED <<fileVars, fd, opened, sectors, i, openVars>>

BeginOpen(t) ==
    /\ Opens /\ pc[t] = "idle"
    /\ op' = [op EXCEPT ![t] = "open"]
    /\ Goto(t, "seek")
    /\ UNCHANGED <<fileVars, fd, opened, sectors, sema, arg, i, openVars, data>>

\* inferno_mount: while(0 == g_iso_opened) iso_open();
MountOpens(t) ==
    /\ pc[t] = "mount" /\ ~opened
    /\ CallIsoOpen(t, "mount")
    /\ UNCHANGED <<fileVars, fd, opened, sectors, sema, op, arg, i, retries, h, off,
                   total, data>>

\* ... iso_read of the volume descriptor.
MountReads(t) ==
    /\ pc[t] = "mount" /\ opened
    /\ Goto(t, "seek")
    /\ UNCHANGED <<fileVars, fd, opened, sectors, sema, op, arg, i, openVars, data>>

-----------------------------------------------------------------------------
(* The memory stick                                                        *)

Eject ==
    /\ card /\ ejects < MaxEjects
    /\ card' = FALSE /\ ejects' = ejects + 1
    /\ pos' = [d \in Handles |-> IF pos[d] = Closed THEN Closed ELSE Stale]
    /\ UNCHANGED <<fd, opened, sectors, sema, pc, op, arg, i, openVars, data, clean, overlap>>

Insert ==
    /\ ~card
    /\ card' = TRUE
    /\ UNCHANGED <<ejects, pos, fd, opened, sectors, sema, pc, op, arg, i, openVars, data,
                   clean, overlap>>

-----------------------------------------------------------------------------

\* What a thread does once it is in an operation.
Step(t) ==
    /\ \/ WaitMs0(t) \/ Close(t) \/ Open(t) \/ OpenFails(t) \/ Rewind(t) \/ ReadHeader(t)
       \/ SeekCur(t) \/ SeekEnd(t) \/ SeekBack(t) \/ Count(t)
       \/ Seek(t) \/ SeekFails(t) \/ Read(t) \/ ReadFails(t) \/ GiveUp(t)
       \/ SignalSema(t) \/ MountOpens(t) \/ MountReads(t)
    /\ Observe(t)

Acquire(t) == WaitSema(t) /\ Observe(t)

Begin(t) == (BeginOpen(t) \/ \E o \in Offsets : BeginRead(t, o)) /\ Observe(t)

Next == Eject \/ Insert \/ \E t \in Threads : Step(t) \/ Acquire(t) \/ Begin(t)

Spec == Init /\ [][Next]_vars

\* Threads are scheduled, the semaphore serves its waiters in their order, and
\* the memory stick comes back.
FairSpec ==
    /\ Spec /\ WF_vars(Insert)
    /\ \A t \in Threads : WF_vars(Step(t)) /\ SF_vars(Acquire(t))

-----------------------------------------------------------------------------
(* Properties                                                              *)

Delivered(t) == op[t] # "open" /\ pc[t] \in {"release", "mounted"} /\ data[t] # Error

\* The bytes that come back are those of the position that was asked for.
\* cache_test asserts it of every read ("cache error at pos").
ReadsRight == \A t \in Threads : Delivered(t) => data[t] = arg[t]

\* What the code does guarantee: a read is right when its last call needed no
\* retry and no thread outside the semaphore (an IoOpen, the mount) used the file
\* between its seek and its read.  Other reads, retries of the seek and what
\* happened to the stick before do not matter.
CleanReadsRight == \A t \in Threads : Delivered(t) /\ clean[t] => data[t] = arg[t]

\* Unless two threads were in iso_open at once, no descriptor is lost: the only
\* one in use is g_iso_fd.
NoDescriptorLost == ~overlap => \A d \in Handles : pos[d] # Closed => d = fd

\* With the same proviso, g_total_sectors is the size of the image whenever
\* the file can be read and nobody is inside iso_open: a failure while the
\* size is taken leaves a descriptor that does not work either.
SizeKnown ==
    ~overlap /\ Usable(fd) /\ (\A t \in Threads : ~InIsoOpen(t)) =>
        opened /\ sectors = Total

\* A read returns, with data or with an error, once the stick is back.
ReadReturns == \A t \in Threads : pc[t] = "acquire" ~> pc[t] = "idle"

\* The mount thread comes to its end if from some time on the other threads leave
\* the drive alone and the kernel has a descriptor to give.  While they do not,
\* each iso_open closes the file the other has just opened and clears the
\* g_iso_opened it is waiting for; each such overlap may lose a descriptor.
MountEnds ==
    <>[](/\ \A t \in Threads \ {Mounter} : pc[t] = "idle"
         /\ \E d \in Handles : d = fd \/ pos[d] = Closed)
        => <>(pc[Mounter] = "mounted")
=============================================================================
