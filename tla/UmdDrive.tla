------------------------------ MODULE UmdDrive ------------------------------
(***************************************************************************)
(* The state of the emulated UMD drive (src/ISODrivers/Inferno/umd.c):     *)
(* g_drive_status, the event flag programs wait on and the callback they   *)
(* register, beside the thread that mounts the image.                      *)
(*                                                                         *)
(* The status is changed with interrupts suspended, so a change and its    *)
(* SetEventFlag are one step.  The notification of the callback comes      *)
(* after it: the global is loaded again and passed on, two more steps.     *)
(* The model starts when module_start has returned.                        *)
(***************************************************************************)
EXTENDS Naturals

CONSTANTS
    Apps,           \* threads of the game and of the system
    Waits,          \* the sets of bits they wait for
    SystemSets,     \* statuses other modules pass to sceUmdSetDriveStatus
    SystemMasks,    \* masks they pass to sceUmdClearDriveStatus
    None            \* no callback; nothing told

NotPresent == "not present"
Present == "present"
Changed == "changed"
Initing == "initing"
Inited == "inited"
Ready == "ready"
Bits == {NotPresent, Present, Changed, Initing, Inited, Ready}

ASSUME UmdDriveAssumption ==
    /\ Waits \subseteq SUBSET Bits /\ SystemSets \subseteq SUBSET Bits
    /\ SystemMasks \subseteq SUBSET Bits
    /\ "mount" \notin Apps /\ None \notin Apps

VARIABLES
    status,     \* g_drive_status
    flag,       \* the bits of the event flag g_drive_status_evf
    cb,         \* g_umd_cbid, named by the thread that registered it
    told,       \* the last status it was notified of
    opened,     \* g_iso_opened
    mounted,    \* inferno_mount has reported the drive
    pc,         \* where each thread is
    val,        \* the bits it waits for, or the status it has loaded
    activating, \* the threads in sceUmdActivate
    stale,      \* history: a CancelWait has written a status of the past
    overtaken   \* history: the status changed while a notification was under way

shared == <<status, flag, cb, told, opened, mounted>>
history == <<stale, overtaken>>
vars == <<shared, pc, val, activating, history>>

Threads == Apps \cup {"mount"}

Init ==
    /\ status = {Initing} /\ flag = {}
    /\ cb = None /\ told = None
    /\ opened = FALSE /\ mounted = FALSE
    /\ pc = [t \in Threads |-> "idle"] /\ val = [t \in Threads |-> {}]
    /\ activating = {}
    /\ stale = FALSE /\ overtaken = FALSE

Goto(t, l, v) == pc' = [pc EXCEPT ![t] = l] /\ val' = [val EXCEPT ![t] = v]

-----------------------------------------------------------------------------
(* sceUmdSetDriveStatus                                                    *)

\* Mutant: a drive that starts again stays ready.
NewStatusKeepsReady(s) ==
    LET a == (IF NotPresent \in s THEN {} ELSE status \ {NotPresent}) \cup s
    IN  IF Inited \in a \/ Ready \in a THEN a \cup {Inited, Present} ELSE a

\* g_drive_status after a call with the bits s.
NewStatus(s) ==
    LET others == Bits \ {NotPresent}
        a == IF NotPresent \in s THEN status \ others
             ELSE IF s \cap others # {} THEN status \ {NotPresent} ELSE status
        b == IF Initing \in s THEN a \ {Inited, Ready}
             ELSE IF s \cap {Inited, Ready} # {} THEN a \ {Initing} ELSE a
        c == (IF Ready \in s THEN b ELSE b \ {Ready}) \cup s
        d == IF Ready \in c THEN c \cup {Inited} ELSE c
    IN  IF Inited \in d THEN d \cup {Present} ELSE d

\* Thread t has changed the flag and goes on at l; the threads of released return
\* from their wait.
Release(t, l, released) ==
    /\ pc' = [u \in Threads |-> IF u = t THEN l
                                ELSE IF u \in released THEN "idle" ELSE pc[u]]
    /\ val' = [u \in Threads |-> IF u \in {t} \cup released THEN {} ELSE val[u]]

\* Thread t changes the status; others may be about to notify of what it was.
Overtakes(t) ==
    overtaken' = (overtaken \/ \E u \in Threads \ {t} : pc[u] = "notify" \/ u \in activating)

\* Mutant: the event flag is not set.
SetDriveStatusNoFlag(t, s) ==
    /\ status' = NewStatus(s)
    /\ Goto(t, "load", {})
    /\ Overtakes(t)
    /\ UNCHANGED <<flag, cb, told, opened, stale>>

\* SetEventFlag adds the bits and releases the threads that wait for one of them.
SetDriveStatus(t, s) ==
    LET bits == flag \cup NewStatus(s)
    IN  /\ status' = NewStatus(s)
        /\ flag' = bits
        /\ Release(t, "load", {u \in Apps : pc[u] = "waiting" /\ val[u] \cap bits # {}})
        /\ Overtakes(t)
        /\ UNCHANGED <<cb, told, opened, stale>>

\* ... do_umd_notify(g_drive_status): the argument ...
LoadStatus(t) ==
    /\ pc[t] = "load"
    /\ Goto(t, "notify", status)
    /\ UNCHANGED <<shared, activating, history>>

\* ... and the call.
Notify(t) ==
    /\ pc[t] = "notify"
    /\ told' = IF cb = None THEN told ELSE val[t]
    /\ Goto(t, IF t \in activating THEN "check" ELSE "idle", {})
    /\ UNCHANGED <<status, flag, cb, opened, mounted, activating, history>>

-----------------------------------------------------------------------------
(* inferno_mount                                                           *)

MountOpens ==
    /\ ~opened /\ opened' = TRUE
    /\ UNCHANGED <<status, flag, cb, told, mounted, pc, val, activating, history>>

\* It has read the start of the image and reports the drive.
Mount ==
    /\ opened /\ ~mounted
    /\ mounted' = TRUE
    /\ SetDriveStatus("mount", {Present, Inited})
    /\ UNCHANGED activating

-----------------------------------------------------------------------------
(* The calls of the programs                                               *)

\* sceUmdActivate needs an open image, not a mounted one.
Activate(t) ==
    /\ pc[t] = "idle" /\ opened
    /\ activating' = activating \cup {t}
    /\ SetDriveStatus(t, {Present, Inited, Ready})
    /\ UNCHANGED mounted

\* Its end: a second notification, for games that need one (g_game_fix_type) or when
\* the drive, by now, is not ready.
ActivateChecks(t) ==
    /\ pc[t] = "check"
    /\ activating' = activating \ {t}
    /\ \/ Goto(t, "notify", {Present, Ready})
       \/ Ready \in status /\ Goto(t, "idle", {})
       \/ Ready \notin status /\ Goto(t, "load", {})
    /\ UNCHANGED <<shared, history>>

\* sceUmdDeactivate, of a drive that is assigned.
Deactivate(t) ==
    /\ pc[t] = "idle"
    /\ SetDriveStatus(t, {Present, Inited})
    /\ UNCHANGED <<mounted, activating>>

\* sceUmdSetDriveStatus is exported.
SystemSet(t, s) ==
    /\ pc[t] = "idle"
    /\ SetDriveStatus(t, s)
    /\ UNCHANGED <<mounted, activating>>

\* Mutants: only the flag loses the bits; nobody is notified.
ClearDriveStatusKeeps(t, mask) ==
    /\ pc[t] = "idle"
    /\ flag' = flag \cap mask
    /\ Goto(t, "load", {})
    /\ UNCHANGED <<status, cb, told, opened, mounted, activating, history>>
ClearDriveStatusSilent(t, mask) ==
    /\ pc[t] = "idle"
    /\ status' = status \cap mask /\ flag' = flag \cap mask
    /\ Overtakes(t)
    /\ UNCHANGED <<cb, told, opened, mounted, pc, val, activating, stale>>

\* sceUmdClearDriveStatus: both lose the bits outside the mask.
ClearDriveStatus(t, mask) ==
    /\ pc[t] = "idle"
    /\ status' = status \cap mask /\ flag' = flag \cap mask
    /\ Goto(t, "load", {})
    /\ Overtakes(t)
    /\ UNCHANGED <<cb, told, opened, mounted, activating, stale>>

\* Mutant: PSP_EVENT_WAITAND.
WaitForAll(t, bits) ==
    /\ pc[t] = "idle" /\ bits \cap (Bits \ {Changed}) # {}
    /\ IF bits \subseteq flag THEN UNCHANGED <<pc, val>> ELSE Goto(t, "waiting", bits)
    /\ UNCHANGED <<shared, activating, history>>

\* sceUmdWaitDriveStat and its variants: PSP_EVENT_WAITOR, the bits stay set; a
\* call that waits for none of the bits of a drive is refused.
Wait(t, bits) ==
    /\ pc[t] = "idle" /\ bits \cap (Bits \ {Changed}) # {}
    /\ IF bits \cap flag # {} THEN UNCHANGED <<pc, val>> ELSE Goto(t, "waiting", bits)
    /\ UNCHANGED <<shared, activating, history>>

\* The variants with a timeout.
TimeOut(t) ==
    /\ pc[t] = "waiting"
    /\ Goto(t, "idle", {})
    /\ UNCHANGED <<shared, activating, history>>

\* sceUmdCancelWaitDriveStat: g_drive_status is loaded ...
CancelWait(t) ==
    /\ pc[t] = "idle"
    /\ Goto(t, "cancel", status)
    /\ UNCHANGED <<shared, activating, history>>

\* ... and becomes the pattern of the flag, whose waiters all return.
CancelEventFlag(t) ==
    /\ pc[t] = "cancel"
    /\ flag' = val[t]
    /\ stale' = (stale \/ val[t] # status)
    /\ Release(t, "idle", {u \in Apps : pc[u] = "waiting"})
    /\ UNCHANGED <<status, cb, told, opened, mounted, activating, overtaken>>

\* sceUmdRegisterUMDCallBack.
Register(t) ==
    /\ pc[t] = "idle"
    /\ cb' = t /\ told' = None
    /\ UNCHANGED <<status, flag, opened, mounted, pc, val, activating, history>>

\* sceUmdUnRegisterUMDCallBack: the comparison is before interrupts are suspended.
UnRegister(t) ==
    /\ pc[t] = "idle" /\ cb = t
    /\ Goto(t, "unregister", {})
    /\ UNCHANGED <<shared, activating, history>>

ForgetCallback(t) ==
    /\ pc[t] = "unregister"
    /\ cb' = None
    /\ Goto(t, "idle", {})
    /\ UNCHANGED <<status, flag, told, opened, mounted, activating, history>>

-----------------------------------------------------------------------------

App(t) ==
    \/ Activate(t) \/ ActivateChecks(t) \/ Deactivate(t)
    \/ CancelWait(t) \/ CancelEventFlag(t) \/ TimeOut(t)
    \/ Register(t) \/ UnRegister(t) \/ ForgetCallback(t)
    \/ \E bits \in Waits : Wait(t, bits)
    \/ \E s \in SystemSets : SystemSet(t, s)
    \/ \E m \in SystemMasks : ClearDriveStatus(t, m)

Next ==
    \/ MountOpens \/ Mount
    \/ \E t \in Apps : App(t)
    \/ \E t \in Threads : LoadStatus(t) \/ Notify(t)

Spec == Init /\ [][Next]_vars

\* The mount thread is scheduled; programs need do nothing.
FairSpec == Spec /\ WF_vars(MountOpens) /\ WF_vars(Mount)

-----------------------------------------------------------------------------
(* Properties                                                              *)

\* The type invariant.
TypeOK ==
    /\ {status, flag} \subseteq SUBSET Bits
    /\ told \in {None} \cup SUBSET Bits
    /\ cb \in Apps \cup {None}
    /\ {opened, mounted, stale, overtaken} \subseteq BOOLEAN
    /\ pc \in [Threads -> {"idle", "load", "notify", "check", "waiting", "cancel",
                           "unregister"}]
    /\ val \in [Threads -> SUBSET Bits]
    /\ activating \subseteq Apps

\* The bits of the status go together, whoever changes them and in whatever order:
\* a drive that is ready is initialised and has a disc, one without a disc is
\* nothing else, and initialising ends before either.
StatusConsistent ==
    /\ Ready \in status => Inited \in status
    /\ Inited \in status => Present \in status
    /\ NotPresent \in status => status = {NotPresent}
    /\ Initing \in status => status \cap {Inited, Ready} = {}

\* Nobody sleeps on a bit that the flag has, in whatever order waits, changes and
\* cancellations come.
WaitersReleased == \A t \in Apps : pc[t] = "waiting" => val[t] \cap flag = {}

\* Once the drive is mounted the flag has every bit of the status, so that a program
\* that waits for what is already true returns at once.  Only a CancelWait that was
\* overtaken by a change breaks it: it writes the old status into the flag.
FlagCoversStatus == mounted /\ ~stale => status \subseteq flag

\* When no thread is between a change and its notification, the callback has last
\* been told the truth about READY.  Only a change that fell into another thread's
\* notification breaks it.
NoticeCurrent ==
    told # None /\ cb # None /\ ~overtaken
        /\ (\A t \in Threads : pc[t] \notin {"load", "notify", "check"})
        => (Ready \in told <=> Ready \in status)

\* A program that waits for the drive to come up is released: the mount is not
\* missed by those that came before it.
WaitersWake ==
    \A t \in Apps : pc[t] = "waiting" /\ ~mounted /\ val[t] \cap {Present, Inited} # {}
                        ~> pc[t] # "waiting"
=============================================================================
