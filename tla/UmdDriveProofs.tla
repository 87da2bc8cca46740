--------------------------- MODULE UmdDriveProofs ---------------------------
(***************************************************************************)
(* Proofs about UmdDrive, for any threads, any sets of bits they wait for  *)
(* and, but for StatusConsistent, any statuses and masks they pass: the    *)
(* types, and how the status, the event flag and the waiting threads       *)
(* belong together.                                                        *)
(***************************************************************************)
EXTENDS UmdDrive, TLAPS

\* What StatusConsistent asks of other modules: a status without a disc is nothing
\* else, one that is initialising is not ready, and a mask does not take a bit away
\* from under one that implies it.
CallersConsistent ==
    /\ \A s \in SystemSets :
          /\ NotPresent \in s => s = {NotPresent}
          /\ Initing \in s => s \cap {Inited, Ready} = {}
    /\ \A m \in SystemMasks :
          /\ Ready \in m => Inited \in m
          /\ Inited \in m => Present \in m

UmdInv == TypeOK /\ WaitersReleased /\ FlagCoversStatus

\* The new status is one, and has the bits it was called with.
LEMMA NewStatusType ==
    ASSUME status \subseteq Bits, NEW s \in SUBSET Bits
    PROVE  NewStatus(s) \subseteq Bits /\ s \subseteq NewStatus(s)
  BY DEF NewStatus, Bits

\* A call keeps the bits of the status consistent.
LEMMA NewStatusConsistent ==
    ASSUME status \subseteq Bits, StatusConsistent, NEW s \in SUBSET Bits,
           NotPresent \in s => s = {NotPresent},
           Initing \in s => s \cap {Inited, Ready} = {},
           status' = NewStatus(s)
    PROVE  StatusConsistent'
<1> DEFINE others == Bits \ {NotPresent}
           a == IF NotPresent \in s THEN status \ others
                ELSE IF s \cap others # {} THEN status \ {NotPresent} ELSE status
           b == IF Initing \in s THEN a \ {Inited, Ready}
                ELSE IF s \cap {Inited, Ready} # {} THEN a \ {Initing} ELSE a
           c == (IF Ready \in s THEN b ELSE b \ {Ready}) \cup s
           d == IF Ready \in c THEN c \cup {Inited} ELSE c
           e == IF Inited \in d THEN d \cup {Present} ELSE d
<1>1. NewStatus(s) = e
  BY DEF NewStatus
<1>2. CASE NotPresent \in s
  <2>1. a \subseteq {NotPresent} /\ s = {NotPresent}
    BY <1>2
  <2>2. c = {NotPresent}
    BY <2>1 DEF NotPresent, Initing, Inited, Ready
  <2>3. e = {NotPresent}
    BY <2>2 DEF NotPresent, Inited, Ready
  <2> QED BY <1>1, <2>3 DEF StatusConsistent, NotPresent, Present, Initing, Inited, Ready
<1>3. CASE NotPresent \notin s
  <2>1. Initing \in e => e \cap {Inited, Ready} = {}
    BY <1>3 DEF StatusConsistent, NotPresent, Present, Initing, Inited, Ready
  <2>2. (Ready \in e => Inited \in e) /\ (Inited \in e => Present \in e)
    BY DEF NotPresent, Present, Initing, Inited, Ready
  <2>3. NotPresent \in e => e = {NotPresent}
    BY <1>3 DEF StatusConsistent, Bits, NotPresent, Present, Initing, Inited, Ready
  <2> QED BY <1>1, <2>1, <2>2, <2>3 DEF StatusConsistent
<1> QED BY <1>2, <1>3

\* A call keeps types, waiters and flag, whoever makes it.
LEMMA SetDriveStatusKeeps ==
    ASSUME UmdInv, NEW t \in Threads, NEW s \in SUBSET Bits,
           SetDriveStatus(t, s), mounted' \in BOOLEAN, activating' \subseteq Apps
    PROVE  UmdInv'
<1> DEFINE bits == flag \cup NewStatus(s)
           released == {u \in Apps : pc[u] = "waiting" /\ val[u] \cap bits # {}}
<1>1. NewStatus(s) \subseteq Bits
  BY NewStatusType DEF UmdInv, TypeOK
<1>2. status' = NewStatus(s) /\ flag' = bits /\ Release(t, "load", released) /\ overtaken' \in BOOLEAN
  BY DEF SetDriveStatus, Overtakes, UmdInv, TypeOK
<1>3. /\ pc' \in [Threads -> {"idle", "load", "notify", "check", "waiting", "cancel", "unregister"}]
      /\ val' \in [Threads -> SUBSET Bits]
  BY <1>2 DEF Release, UmdInv, TypeOK
<1>4. TypeOK'
  BY <1>1, <1>2, <1>3 DEF SetDriveStatus, UmdInv, TypeOK
<1>5. WaitersReleased'
  <2>1. SUFFICES ASSUME NEW u \in Apps, pc'[u] = "waiting" PROVE val'[u] \cap flag' = {}
    BY DEF WaitersReleased
  <2>2. u \in Threads /\ u # t /\ u \notin released /\ pc[u] = "waiting" /\ val'[u] = val[u]
    BY <1>2, <2>1 DEF Release, Threads
  <2> QED BY <1>2, <2>2
<1>6. FlagCoversStatus'
  BY <1>2 DEF FlagCoversStatus
<1> QED BY <1>4, <1>5, <1>6 DEF UmdInv

\* A step that changes neither the flag nor the status, and lets nobody wait for a bit
\* the flag has, keeps waiters and flag.
LEMMA OtherStepKeeps ==
    ASSUME UmdInv, UNCHANGED <<status, flag>>, mounted' = mounted, stale' = stale,
           \A u \in Apps : pc'[u] = "waiting" =>
              (pc[u] = "waiting" /\ val'[u] = val[u]) \/ val'[u] \cap flag = {}
    PROVE  WaitersReleased' /\ FlagCoversStatus'
  BY DEF UmdInv, WaitersReleased, FlagCoversStatus

\* The invariant holds when module_start has returned.
LEMMA UmdInitInv == Init => UmdInv
<1> SUFFICES ASSUME Init PROVE UmdInv
  OBVIOUS
<1>1. TypeOK
  BY DEF Init, TypeOK, Bits
<1>2. WaitersReleased /\ FlagCoversStatus
  BY DEF Init, Threads, WaitersReleased, FlagCoversStatus
<1> QED BY <1>1, <1>2 DEF UmdInv

\* The mount thread keeps it: it reports a drive that is present and initialised.
LEMMA MountKeeps == ASSUME UmdInv, MountOpens \/ Mount PROVE UmdInv'
<1>1. CASE MountOpens
  <2>1. TypeOK'
    BY <1>1 DEF MountOpens, history, UmdInv, TypeOK
  <2> QED BY <1>1, <2>1, OtherStepKeeps DEF MountOpens, history, UmdInv, WaitersReleased
<1>2. CASE Mount
  BY <1>2, SetDriveStatusKeeps DEF Mount, Threads, Bits, UmdInv, TypeOK
<1> QED BY <1>1, <1>2

\* The programs' changes of the status keep it.
LEMMA SetsKeep ==
    ASSUME UmdInv, NEW t \in Apps,
           Activate(t) \/ Deactivate(t) \/ \E s \in SystemSets : SystemSet(t, s)
    PROVE  UmdInv'
<1>1. PICK s \in SUBSET Bits : SetDriveStatus(t, s)
  BY UmdDriveAssumption DEF Activate, Deactivate, SystemSet, Bits
<1>2. mounted' = mounted /\ activating' \subseteq Apps
  BY DEF Activate, Deactivate, SystemSet, UmdInv, TypeOK
<1> QED BY <1>1, <1>2, SetDriveStatusKeeps DEF Threads, UmdInv, TypeOK

\* sceUmdClearDriveStatus takes the same bits from the status and the flag.
LEMMA ClearKeeps ==
    ASSUME UmdInv, NEW t \in Apps, NEW m \in SystemMasks, ClearDriveStatus(t, m)
    PROVE  UmdInv'
<1>1. TypeOK'
  BY DEF ClearDriveStatus, Goto, Overtakes, Threads, UmdInv, TypeOK
<1>2. WaitersReleased'
  BY DEF ClearDriveStatus, Goto, Threads, UmdInv, TypeOK, WaitersReleased
<1>3. FlagCoversStatus'
  BY DEF ClearDriveStatus, UmdInv, FlagCoversStatus
<1> QED BY <1>1, <1>2, <1>3 DEF UmdInv

\* A cancellation releases all who wait; it says so when its status is old.
LEMMA CancelKeeps == ASSUME UmdInv, NEW t \in Apps, CancelEventFlag(t) PROVE UmdInv'
<1>1. t \in Threads /\ val[t] \in SUBSET Bits
  BY DEF Threads, UmdInv, TypeOK
<1>2. TypeOK'
  BY <1>1 DEF CancelEventFlag, Release, UmdInv, TypeOK
<1>3. WaitersReleased'
  BY DEF CancelEventFlag, Release, Threads, WaitersReleased
<1>4. FlagCoversStatus'
  BY DEF CancelEventFlag, FlagCoversStatus
<1> QED BY <1>2, <1>3, <1>4 DEF UmdInv

\* The steps that change neither the status nor the flag.
LEMMA QuietStepsKeep ==
    ASSUME UmdInv, NEW t \in Threads,
           \/ LoadStatus(t) \/ Notify(t)
           \/ t \in Apps /\ (\/ ActivateChecks(t) \/ CancelWait(t) \/ TimeOut(t)
                            \/ UnRegister(t) \/ ForgetCallback(t) \/ Register(t)
                            \/ \E bits \in Waits : Wait(t, bits))
    PROVE  UmdInv'
<1>1. UNCHANGED <<status, flag, mounted, stale>>
  BY DEF LoadStatus, Notify, ActivateChecks, CancelWait, TimeOut, UnRegister, ForgetCallback,
         Register, Wait, shared, history
<1>2. TypeOK'
  <2>1. CASE LoadStatus(t) \/ Notify(t)
    BY <2>1 DEF LoadStatus, Notify, Goto, shared, history, UmdInv, TypeOK
  <2>2. CASE ActivateChecks(t)
    BY <2>2 DEF ActivateChecks, Goto, Bits, shared, history, UmdInv, TypeOK
  <2>3. CASE CancelWait(t) \/ TimeOut(t) \/ UnRegister(t) \/ ForgetCallback(t)
    BY <2>3 DEF CancelWait, TimeOut, UnRegister, ForgetCallback, Goto, shared, history, UmdInv, TypeOK
  <2>4. CASE t \in Apps /\ Register(t)
    BY <2>4 DEF Register, history, UmdInv, TypeOK
  <2>5. ASSUME NEW bits \in Waits, Wait(t, bits) PROVE TypeOK'
    BY <2>5, UmdDriveAssumption DEF Wait, Goto, shared, history, UmdInv, TypeOK
  <2> QED BY <2>1, <2>2, <2>3, <2>4, <2>5
<1>3. \A u \in Apps : pc'[u] = "waiting" =>
          (pc[u] = "waiting" /\ val'[u] = val[u]) \/ val'[u] \cap flag = {}
  <2> SUFFICES ASSUME NEW u \in Apps, pc'[u] = "waiting"
               PROVE  (pc[u] = "waiting" /\ val'[u] = val[u]) \/ val'[u] \cap flag = {}
    OBVIOUS
  <2>1. CASE \E bits \in Waits : Wait(t, bits)
    BY <2>1 DEF Wait, Goto, Threads, UmdInv, TypeOK
  <2>2. CASE LoadStatus(t) \/ Notify(t) \/ ActivateChecks(t)
    BY <2>2 DEF LoadStatus, Notify, ActivateChecks, Goto, Threads, UmdInv, TypeOK
  <2>3. CASE CancelWait(t) \/ TimeOut(t) \/ UnRegister(t) \/ ForgetCallback(t) \/ Register(t)
    BY <2>3 DEF CancelWait, TimeOut, UnRegister, ForgetCallback, Register, Goto, Threads, UmdInv, TypeOK
  <2> QED BY <2>1, <2>2, <2>3
<1> QED BY <1>1, <1>2, <1>3, OtherStepKeeps DEF UmdInv

\* Every step keeps the invariant.
LEMMA UmdNextKeeps == UmdInv /\ [Next]_vars => UmdInv'
<1> SUFFICES ASSUME UmdInv, [Next]_vars PROVE UmdInv'
  OBVIOUS
<1>1. CASE UNCHANGED vars
  BY <1>1 DEF vars, shared, history, UmdInv, TypeOK, WaitersReleased, FlagCoversStatus
<1>2. ASSUME NEW t \in Apps, App(t) PROVE UmdInv'
  <2>1. t \in Threads
    BY DEF Threads
  <2> QED BY <1>2, <2>1, SetsKeep, ClearKeeps, CancelKeeps, QuietStepsKeep DEF App
<1> QED BY <1>1, <1>2, MountKeeps, QuietStepsKeep DEF Next

\* The invariant holds in every state.
THEOREM UmdInvHolds == Spec => []UmdInv
  BY UmdInitInv, UmdNextKeeps, PTL DEF Spec

\* Nobody sleeps on a bit the flag has.
THEOREM WaitersReleasedTheorem == Spec => []WaitersReleased
<1>1. UmdInv => WaitersReleased
  BY DEF UmdInv
<1> QED BY UmdInvHolds, <1>1, PTL

\* The flag has every bit of the status, until an overtaken cancellation.
THEOREM FlagCoversStatusTheorem == Spec => []FlagCoversStatus
<1>1. UmdInv => FlagCoversStatus
  BY DEF UmdInv
<1> QED BY UmdInvHolds, <1>1, PTL

\* The status is consistent at the start.
LEMMA StatusInit == Init => StatusConsistent
  BY DEF Init, StatusConsistent, NotPresent, Present, Initing, Inited, Ready

\* Every step keeps it consistent, if other modules pass statuses and masks that are.
LEMMA StatusNext ==
    ASSUME CallersConsistent PROVE UmdInv /\ StatusConsistent /\ [Next]_vars => StatusConsistent'
<1> SUFFICES ASSUME UmdInv, StatusConsistent, [Next]_vars PROVE StatusConsistent'
  OBVIOUS
<1>1. CASE UNCHANGED status
  BY <1>1 DEF StatusConsistent
<1>2. ASSUME NEW t \in Threads, NEW s \in SUBSET Bits, SetDriveStatus(t, s),
             s \in SystemSets \cup {{Present, Inited}, {Present, Inited, Ready}}
      PROVE  StatusConsistent'
  <2>1. /\ NotPresent \in s => s = {NotPresent}
        /\ Initing \in s => s \cap {Inited, Ready} = {}
    BY <1>2 DEF CallersConsistent, NotPresent, Present, Initing, Inited, Ready
  <2> QED BY <1>2, <2>1, NewStatusConsistent DEF SetDriveStatus, UmdInv, TypeOK
<1>3. ASSUME NEW t \in Apps, NEW m \in SystemMasks, ClearDriveStatus(t, m)
      PROVE  StatusConsistent'
  BY <1>3 DEF CallersConsistent, ClearDriveStatus, StatusConsistent, NotPresent, Present, Initing,
              Inited, Ready
<1>4. CASE Mount
  BY <1>2, <1>4 DEF Mount, Threads, Bits
<1>5. ASSUME NEW t \in Apps, App(t) PROVE StatusConsistent'
  <2>1. CASE Activate(t) \/ Deactivate(t) \/ \E s \in SystemSets : SystemSet(t, s)
    BY <1>2, <2>1, UmdDriveAssumption DEF Activate, Deactivate, SystemSet, Threads, Bits
  <2>2. CASE \E m \in SystemMasks : ClearDriveStatus(t, m)
    BY <1>3, <2>2
  <2>3. CASE \/ ActivateChecks(t) \/ CancelWait(t) \/ CancelEventFlag(t) \/ TimeOut(t)
             \/ Register(t) \/ UnRegister(t) \/ ForgetCallback(t)
             \/ \E bits \in Waits : Wait(t, bits)
    BY <1>1, <2>3 DEF ActivateChecks, CancelWait, CancelEventFlag, TimeOut, Register, UnRegister,
                      ForgetCallback, Wait, shared
  <2> QED BY <1>5, <2>1, <2>2, <2>3 DEF App
<1>6. ASSUME MountOpens \/ UNCHANGED vars \/ \E t \in Threads : LoadStatus(t) \/ Notify(t)
      PROVE  StatusConsistent'
  BY <1>1, <1>6 DEF MountOpens, LoadStatus, Notify, vars, shared
<1> QED BY <1>4, <1>5, <1>6 DEF Next

\* The bits of the status go together.
THEOREM StatusConsistentTheorem == ASSUME CallersConsistent PROVE Spec => []StatusConsistent
  BY StatusInit, StatusNext, UmdInvHolds, PTL DEF Spec

-----------------------------------------------------------------------------
(* The notifications                                                       *)

Agrees(s) == Ready \in s <=> Ready \in status

\* What keeps a notification true until it is made: a thread in sceUmdActivate has
\* its change or its notification before it; while nothing overtakes, it finds the
\* drive ready, what is about to be told is true, and what was told is true or about
\* to be told anew.
NoticeInv ==
    /\ \A t \in activating : pc[t] \in {"load", "notify", "check"}
    /\ \A t \in Threads : pc[t] = "check" => t \in activating
    /\ ~overtaken =>
          /\ activating # {} => Ready \in status
          /\ \A t \in Threads : pc[t] = "notify" => Agrees(val[t])
          /\ told # None /\ cb # None =>
                Agrees(told) \/ \E t \in Threads : pc[t] \in {"load", "notify"}

LEMMA NoticeInit == Init => NoticeInv
  BY DEF Init, NoticeInv

\* No step but the end of an activation moves a thread to or from its check.
LEMMA ChecksActivate ==
    ASSUME NoticeInv, activating \subseteq activating',
           \A u \in Threads : pc'[u] = "check" => pc[u] = "check" \/ u \in activating
    PROVE  \A u \in Threads : pc'[u] = "check" => u \in activating'
  BY DEF NoticeInv

\* A change of the status: unless it overtakes, no notification of the old status is
\* under way and no activation but its own, and thread t will tell the new one.
LEMMA ChangeNotices ==
    ASSUME UmdInv, NoticeInv, NEW t \in Threads, Overtakes(t), activating' \subseteq activating \cup {t},
           t \notin activating, activating \subseteq activating', t \in activating' => Ready \in status',
           pc'[t] = "load",
           \A u \in Threads \ {t} : pc'[u] = pc[u] \/ (pc[u] = "waiting" /\ pc'[u] = "idle")
    PROVE  NoticeInv'
<1>1. \A u \in activating' : pc'[u] \in {"load", "notify", "check"}
  BY DEF NoticeInv, UmdInv, TypeOK, Threads
<1>2. ASSUME ~overtaken'
      PROVE  /\ activating' \subseteq {t}
             /\ \A u \in Threads : pc'[u] # "notify"
  BY <1>2 DEF Overtakes, UmdInv, TypeOK, Threads
<1>3. ~overtaken' /\ activating' # {} => Ready \in status'
  BY <1>2
<1>4. \A u \in Threads : pc'[u] = "check" => u \in activating'
  BY ChecksActivate
<1> QED
  BY <1>1, <1>2, <1>3, <1>4 DEF NoticeInv

\* A step that leaves the status, the callback, what was told and the activations
\* alone, and moves no thread to or from its notification.
LEMMA QuietNotices ==
    ASSUME NoticeInv, activating \subseteq Threads,
           UNCHANGED <<status, cb, told, activating, overtaken>>,
           \A u \in Threads :
              \/ pc'[u] = pc[u] /\ val'[u] = val[u]
              \/ {pc[u], pc'[u]} \cap {"load", "notify", "check"} = {}
    PROVE  NoticeInv'
<1>1. \A u \in Threads : /\ pc[u] \in {"load", "notify"} <=> pc'[u] \in {"load", "notify"}
                         /\ pc[u] = "check" <=> pc'[u] = "check"
                         /\ pc'[u] = "notify" => pc[u] = "notify" /\ val'[u] = val[u]
  OBVIOUS
<1>2. \A u \in activating' : pc'[u] \in {"load", "notify", "check"}
  BY <1>1 DEF NoticeInv
<1>3. \A u \in Threads : pc'[u] = "check" => u \in activating'
  BY <1>1 DEF NoticeInv
<1> QED
  BY <1>1, <1>2, <1>3 DEF NoticeInv, Agrees

LEMMA NoticeNext == UmdInv /\ NoticeInv /\ [Next]_vars => NoticeInv'
<1> SUFFICES ASSUME UmdInv, NoticeInv, [Next]_vars PROVE NoticeInv'
  OBVIOUS
<1>1. /\ pc \in [Threads -> {"idle", "load", "notify", "check", "waiting", "cancel", "unregister"}]
      /\ val \in [Threads -> SUBSET Bits]
      /\ activating \subseteq Apps /\ Apps \subseteq Threads /\ "mount" \notin Apps
  BY UmdDriveAssumption DEF UmdInv, TypeOK, Threads
<1>2. ASSUME NEW t \in Threads, NEW s \in SUBSET Bits, SetDriveStatus(t, s), t \notin activating,
             activating \subseteq activating', activating' \subseteq activating \cup {t},
             t \in activating' => Ready \in s
      PROVE  NoticeInv'
  <2>1. /\ Overtakes(t) /\ status' = NewStatus(s)
        /\ \E released \in SUBSET {u \in Apps : pc[u] = "waiting"} : Release(t, "load", released)
    BY <1>2 DEF SetDriveStatus
  <2>2. /\ pc'[t] = "load"
        /\ \A u \in Threads \ {t} : pc'[u] = pc[u] \/ (pc[u] = "waiting" /\ pc'[u] = "idle")
    BY <2>1 DEF Release
  <2>3. Ready \in s => Ready \in status'
    BY <2>1, NewStatusType DEF UmdInv, TypeOK
  <2> QED
    BY <1>2, <2>1, <2>2, <2>3, ChangeNotices
<1>3. ASSUME NEW t \in Apps, pc[t] = "idle" PROVE t \in Threads /\ t \notin activating
  BY <1>1, <1>3 DEF NoticeInv
<1>4. CASE Mount
  BY <1>1, <1>2, <1>4 DEF Mount, Threads, Bits
<1>5. ASSUME NEW t \in Apps, Activate(t) \/ Deactivate(t) \/ \E s \in SystemSets : SystemSet(t, s)
      PROVE  NoticeInv'
  BY <1>2, <1>3, <1>5, UmdDriveAssumption DEF Activate, Deactivate, SystemSet, Bits
<1>6. ASSUME NEW t \in Apps, NEW m \in SystemMasks, ClearDriveStatus(t, m)
      PROVE  NoticeInv'
  <2>1. /\ pc'[t] = "load" /\ Overtakes(t) /\ activating' = activating
        /\ \A u \in Threads \ {t} : pc'[u] = pc[u]
    BY <1>1, <1>6 DEF ClearDriveStatus, Goto
  <2>2. t \in Threads /\ t \notin activating
    BY <1>3, <1>6 DEF ClearDriveStatus
  <2> QED
    BY <2>1, <2>2, ChangeNotices
<1>7. ASSUME NEW t \in Threads, LoadStatus(t)
      PROVE  NoticeInv'
  <2>1. /\ pc[t] = "load" /\ pc'[t] = "notify" /\ val'[t] = status
        /\ \A u \in Threads \ {t} : pc'[u] = pc[u] /\ val'[u] = val[u]
        /\ UNCHANGED <<status, cb, told, activating, overtaken>>
    BY <1>1, <1>7 DEF LoadStatus, Goto, shared, history
  <2>2. \A u \in activating' : pc'[u] \in {"load", "notify", "check"}
    BY <1>1, <2>1 DEF NoticeInv
  <2> QED
    BY <2>1, <2>2 DEF NoticeInv, Agrees
<1>8. ASSUME NEW t \in Threads, Notify(t)
      PROVE  NoticeInv'
  <2>1. /\ pc[t] = "notify" /\ pc'[t] = IF t \in activating THEN "check" ELSE "idle"
        /\ told' = IF cb = None THEN told ELSE val[t]
        /\ \A u \in Threads \ {t} : pc'[u] = pc[u] /\ val'[u] = val[u]
        /\ UNCHANGED <<status, cb, activating, overtaken>>
    BY <1>1, <1>8 DEF Notify, Goto, history
  <2>2. \A u \in activating' : pc'[u] \in {"load", "notify", "check"}
    BY <1>1, <2>1 DEF NoticeInv
  <2>3. ~overtaken' /\ told' # None /\ cb' # None => Agrees(told)'
    BY <2>1 DEF NoticeInv, Agrees
  <2> QED
    BY <2>1, <2>2, <2>3 DEF NoticeInv, Agrees
<1>9. ASSUME NEW t \in Apps, ActivateChecks(t)
      PROVE  NoticeInv'
  <2>1. /\ pc[t] = "check" /\ activating' = activating \ {t}
        /\ \A u \in Threads \ {t} : pc'[u] = pc[u] /\ val'[u] = val[u]
        /\ UNCHANGED <<status, cb, told, overtaken>>
        /\ pc'[t] = "notify" => val'[t] = {Present, Ready}
    BY <1>1, <1>9 DEF ActivateChecks, Goto, shared, history
  <2>2. \A u \in activating' : pc'[u] \in {"load", "notify", "check"}
    BY <1>1, <2>1 DEF NoticeInv
  <2>3. t \in activating /\ \A u \in Threads : pc'[u] = "check" => u \in activating'
    <3>1. pc'[t] # "check"
      BY <1>1, <1>9 DEF ActivateChecks, Goto
    <3> QED
      BY <1>1, <2>1, <3>1 DEF NoticeInv
  <2> QED
    BY <2>1, <2>2, <2>3 DEF NoticeInv, Agrees
<1>10. ASSUME NEW t \in Apps, Register(t) \/ ForgetCallback(t)
       PROVE  NoticeInv'
  <2>1. UNCHANGED <<status, activating, overtaken>> /\ (told' = None \/ cb' = None)
    BY <1>10 DEF Register, ForgetCallback, history
  <2>2. \A u \in Threads :
              \/ pc'[u] = pc[u] /\ val'[u] = val[u]
              \/ {pc[u], pc'[u]} \cap {"load", "notify", "check"} = {}
    BY <1>1, <1>10 DEF Register, ForgetCallback, Goto
  <2>3. \A u \in Threads : /\ pc[u] \in {"load", "notify", "check"} => pc'[u] = pc[u]
                           /\ pc'[u] = "check" => pc[u] = "check"
                           /\ pc'[u] = "notify" => pc[u] = "notify" /\ val'[u] = val[u]
    BY <2>2
  <2> QED
    BY <1>1, <2>1, <2>3 DEF NoticeInv, Agrees
<1>11. ASSUME NEW t \in Apps,
              \/ CancelWait(t) \/ CancelEventFlag(t) \/ TimeOut(t) \/ UnRegister(t)
              \/ \E bits \in Waits : Wait(t, bits)
       PROVE  NoticeInv'
  <2>1. UNCHANGED <<status, cb, told, activating, overtaken>>
    BY <1>11 DEF CancelWait, CancelEventFlag, TimeOut, UnRegister, Wait, shared, history
  <2>2. \A u \in Threads :
              \/ pc'[u] = pc[u] /\ val'[u] = val[u]
              \/ {pc[u], pc'[u]} \cap {"load", "notify", "check"} = {}
    <3>1. CASE CancelEventFlag(t)
      BY <1>1, <3>1 DEF CancelEventFlag, Release
    <3>2. CASE CancelWait(t) \/ TimeOut(t) \/ UnRegister(t)
      BY <1>1, <3>2 DEF CancelWait, TimeOut, UnRegister, Goto
    <3>3. CASE \E bits \in Waits : Wait(t, bits)
      BY <1>1, <3>3 DEF Wait, Goto
    <3> QED
      BY <1>11, <3>1, <3>2, <3>3
  <2> QED
    BY <1>1, <2>1, <2>2, QuietNotices
<1>12. CASE MountOpens \/ UNCHANGED vars
  <2>1. /\ UNCHANGED <<status, cb, told, activating, overtaken>>
        /\ \A u \in Threads : pc'[u] = pc[u] /\ val'[u] = val[u]
    BY <1>12 DEF MountOpens, vars, shared, history
  <2> QED
    BY <1>1, <2>1, QuietNotices
<1> QED
  BY <1>4, <1>5, <1>6, <1>7, <1>8, <1>9, <1>10, <1>11, <1>12 DEF Next, App

\* NoticeCurrent: when nobody is between a change and its notification, the callback
\* has been told the truth about READY, unless a change fell into a notification.
THEOREM NoticeCurrentTheorem == Spec => []NoticeCurrent
<1>1. NoticeInv => NoticeCurrent
  BY DEF NoticeInv, NoticeCurrent, Agrees
<1> QED
  BY <1>1, UmdInvHolds, NoticeInit, NoticeNext, PTL DEF Spec
=============================================================================
