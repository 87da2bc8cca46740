--------------------------- MODULE IsoReadProofs ----------------------------
(***************************************************************************)
(* Proofs about IsoRead: for every number of threads, descriptors, retries *)
(* and pulls of the memory stick, a clean read delivers the bytes of its   *)
(* position, and while no two threads are inside iso_open at once no       *)
(* descriptor is lost and the size of the image is known.                  *)
(***************************************************************************)
EXTENDS IsoRead, TLAPS

-----------------------------------------------------------------------------
(* The inductive invariant                                                 *)

OpenSteps == {"wait", "close", "open", "rewind", "header", "cur", "end", "back", "count"}

Steps == OpenSteps \cup {"mount", "idle", "acquire", "seek", "read", "release", "mounted"}

TypeOK ==
    /\ card \in BOOLEAN /\ ejects \in Nat /\ opened \in BOOLEAN /\ overlap \in BOOLEAN
    /\ pos \in [Handles -> {Closed, Stale} \cup 0 .. Total]
    /\ fd \in Handles \cup {NoHandle}
    /\ pc \in [Threads -> Steps]
    /\ op \in [Threads -> {"none", "open", "read", "mount"}]
    /\ arg \in [Threads -> 0 .. Total]
    /\ i \in [Threads -> 0 .. Retries]
    /\ to \in [Threads -> {"idle", "mount", "seek", "read"}]
    /\ h \in [Threads -> Handles \cup {NoHandle}]
    /\ off \in [Threads -> {Error} \cup 0 .. Total]
    /\ total \in [Threads -> Int]
    /\ data \in [Threads -> Int]
    /\ clean \in [Threads -> BOOLEAN]
    /\ retries \in [Threads -> Nat]

\* A descriptor works only if the stick has not been pulled since it was opened.
CardKept == \A d \in Handles : pos[d] \in 0 .. Total => card

\* Where a thread can be in each operation.
Phases ==
    \A t \in Threads :
        /\ InIsoOpen(t) => to[t] # "idle"
        /\ op[t] = "none" <=> pc[t] = "idle"
        /\ pc[t] = "acquire" => op[t] = "read"
        /\ pc[t] = "release" => op[t] = "read"
        /\ pc[t] \in {"mount", "mounted"} => op[t] = "mount"
        /\ InIsoOpen(t) /\ to[t] = "mount" => op[t] = "mount"
        /\ pc[t] = "read" => op[t] # "open"
        /\ InIsoOpen(t) /\ to[t] = "read" => op[t] # "open"

\* The semaphore is held by a read, and only one is past it.
SemaHeld == \A t \in Threads : op[t] = "read" /\ pc[t] # "acquire" => sema = t

\* Where a read can be known to be clean.
CleanPhase == \A t \in Threads : clean[t] => pc[t] \in {"read", "release", "mounted"}

\* Between the seek and the read of a clean read the file is where it was put,
\* unless the stick was pulled.
CleanAt ==
    \A t \in Threads : pc[t] = "read" /\ clean[t] =>
        fd \in Handles /\ pos[fd] \in {arg[t], Stale}

\* History: no two threads are inside iso_open.
Alone == ~overlap => \A t, u \in Threads : InIsoOpen(t) /\ InIsoOpen(u) => t = u

\* What the thread inside iso_open has done to the file, when it is alone there.
OpenWork ==
    ~overlap => \A t \in Threads :
        /\ pc[t] = "open" => \A d \in Handles : pos[d] = Closed
        /\ pc[t] \in {"rewind", "header", "cur", "end", "back", "count"} => h[t] = fd
        /\ pc[t] \in {"cur", "end", "back", "count"} => opened
        /\ pc[t] \in {"back", "count"} /\ fd \in Handles /\ pos[fd] \in 0 .. Total =>
              total[t] = Total

\* SizeKnown with the stick out as well.
SizeKept ==
    ~overlap /\ (\A t \in Threads : ~InIsoOpen(t)) /\ fd \in Handles /\ pos[fd] \in 0 .. Total
        => opened /\ sectors = Total

IInv ==
    /\ TypeOK /\ CardKept /\ Phases /\ SemaHeld /\ CleanPhase /\ CleanAt /\ CleanReadsRight
    /\ Alone /\ OpenWork /\ NoDescriptorLost /\ SizeKept

IsoOpenStep(t) ==
    \/ WaitMs0(t) \/ Close(t) \/ Open(t) \/ OpenFails(t) \/ Rewind(t) \/ ReadHeader(t)
    \/ SeekCur(t) \/ SeekEnd(t) \/ SeekBack(t) \/ Count(t)

UserStep(t) ==
    \/ Seek(t) \/ SeekFails(t) \/ Read(t) \/ ReadFails(t) \/ GiveUp(t)
    \/ SignalSema(t) \/ MountOpens(t) \/ MountReads(t)
    \/ WaitSema(t) \/ BeginOpen(t) \/ \E o \in Offsets : BeginRead(t, o)

-----------------------------------------------------------------------------
(* Steps and what they leave alone                                         *)

\* A step of a thread is one inside iso_open or one outside.
LEMMA StepKinds ==
    ASSUME NEW t \in Threads, Step(t) \/ Acquire(t) \/ Begin(t)
    PROVE  Observe(t) /\ (IsoOpenStep(t) \/ UserStep(t))
  BY DEF Step, Acquire, Begin, IsoOpenStep, UserStep

\* A step inside iso_open: the other threads stay where they are, and so do the
\* semaphore and the operation.
LEMMA IsoOpenFrame ==
    ASSUME TypeOK, NEW t \in Threads, IsoOpenStep(t)
    PROVE  /\ InIsoOpen(t)
           /\ UNCHANGED <<card, ejects, sema, op, arg, i, data>>
           /\ \A u \in Threads \ {t} :
                 pc'[u] = pc[u] /\ to'[u] = to[u] /\ h'[u] = h[u] /\ total'[u] = total[u]
  BY DEF TypeOK, IsoOpenStep, InIsoOpen, WaitMs0, Close, Open, OpenFails, Rewind, ReadHeader,
         SeekCur, SeekEnd, SeekBack, Count, Goto, LeaveIsoOpen, fileVars, openVars

\* A step outside: iso_open's own state stays, and a descriptor that is free or
\* stale stays so.
LEMMA UserFrame ==
    ASSUME TypeOK, NEW t \in Threads, UserStep(t)
    PROVE  /\ ~InIsoOpen(t)
           /\ UNCHANGED <<card, ejects, fd, opened, sectors, retries, h, off, total>>
           /\ \A u \in Threads \ {t} :
                 /\ pc'[u] = pc[u] /\ to'[u] = to[u]
                 /\ op'[u] = op[u] /\ arg'[u] = arg[u] /\ data'[u] = data[u]
  BY DEF TypeOK, UserStep, InIsoOpen, Seek, SeekFails, Read, ReadFails, GiveUp, SignalSema,
         MountOpens, MountReads, WaitSema, BeginOpen, BeginRead, Goto, CallIsoOpen, End,
         Over, fileVars, openVars

-----------------------------------------------------------------------------
(* Initialisation                                                          *)

LEMMA InitIInv == Init => IInv
<1> SUFFICES ASSUME Init PROVE IInv
  OBVIOUS
<1>1. TypeOK
  <2>1. pc \in [Threads -> Steps] /\ op \in [Threads -> {"none", "open", "read", "mount"}]
    BY DEF Init, Steps
  <2>2. arg \in [Threads -> 0 .. Total] /\ i \in [Threads -> 0 .. Retries]
    BY IsoReadAssumption DEF Init
  <2>3. /\ off \in [Threads -> {Error} \cup 0 .. Total] /\ total \in [Threads -> Int]
        /\ data \in [Threads -> Int] /\ retries \in [Threads -> Nat]
    BY IsoReadAssumption DEF Init, None
  <2> QED
    BY <2>1, <2>2, <2>3 DEF Init, TypeOK
<1>2. \A t \in Threads : pc[t] \in {"mount", "idle"} /\ ~InIsoOpen(t) /\ ~clean[t]
  BY DEF Init, InIsoOpen
<1>3. Phases
  BY <1>2 DEF Init, Phases, InIsoOpen
<1>4. CardKept /\ SemaHeld /\ CleanPhase /\ CleanAt /\ CleanReadsRight /\ Alone /\ OpenWork
  BY <1>2 DEF Init, CardKept, SemaHeld, CleanPhase, CleanAt, CleanReadsRight, Alone,
              OpenWork, Delivered, Closed
<1>5. NoDescriptorLost /\ SizeKept
  BY IsoReadAssumption DEF Init, NoDescriptorLost, SizeKept, NoHandle, Closed
<1> QED
  BY <1>1, <1>3, <1>4, <1>5 DEF IInv

-----------------------------------------------------------------------------
(* The types                                                               *)

LEMMA ObserveType ==
    ASSUME NEW t \in Threads, Observe(t), clean \in [Threads -> BOOLEAN], overlap \in BOOLEAN
    PROVE  clean' \in [Threads -> BOOLEAN] /\ overlap' \in BOOLEAN
  BY DEF Observe

LEMMA IsoOpenType ==
    ASSUME TypeOK, NEW t \in Threads, IsoOpenStep(t), Observe(t)
    PROVE  TypeOK'
<1> USE IsoReadAssumption
<1>1. clean' \in [Threads -> BOOLEAN] /\ overlap' \in BOOLEAN
  BY ObserveType DEF TypeOK
<1>2. CASE WaitMs0(t)
  BY <1>1, <1>2 DEF TypeOK, WaitMs0, Goto, Steps, OpenSteps, fileVars, openVars
<1>3. CASE Close(t)
  BY <1>1, <1>3 DEF TypeOK, Close, Goto, Steps, OpenSteps
<1>4. CASE Open(t)
  BY <1>1, <1>4 DEF TypeOK, Open, Goto, Steps, OpenSteps
<1>5. CASE OpenFails(t)
  BY <1>1, <1>5 DEF TypeOK, OpenFails, Goto, LeaveIsoOpen, Steps, OpenSteps, fileVars
<1>6. CASE Rewind(t)
  BY <1>1, <1>6 DEF TypeOK, Rewind, Usable, Goto, Steps, OpenSteps, openVars
<1>7. CASE ReadHeader(t)
  BY <1>1, <1>7 DEF TypeOK, ReadHeader, Usable, Goto, Steps, OpenSteps
<1>8. CASE SeekCur(t)
  BY <1>1, <1>8 DEF TypeOK, SeekCur, Usable, Goto, Steps, OpenSteps,
                    fileVars
<1>9. CASE SeekEnd(t)
  BY <1>1, <1>9 DEF TypeOK, SeekEnd, Usable, Error, Goto, Steps, OpenSteps
<1>10. CASE SeekBack(t)
  BY <1>1, <1>10 DEF TypeOK, SeekBack, Usable, Goto, Steps, OpenSteps, openVars
<1>11. CASE Count(t)
  BY <1>1, <1>11 DEF TypeOK, Count, Goto, LeaveIsoOpen, Steps, OpenSteps, fileVars
<1> QED
  BY <1>2, <1>3, <1>4, <1>5, <1>6, <1>7, <1>8, <1>9, <1>10, <1>11 DEF IsoOpenStep

LEMMA EndType ==
    ASSUME TypeOK, NEW t \in Threads, NEW v \in Int, End(t, v)
    PROVE  /\ i' \in [Threads -> 0 .. Retries]
           /\ pc' \in [Threads -> Steps]
           /\ op' \in [Threads -> {"none", "open", "read", "mount"}]
           /\ arg' \in [Threads -> 0 .. Total]
           /\ data' \in [Threads -> Int]
  BY IsoReadAssumption DEF TypeOK, End, Over, Goto, Steps, None

LEMMA UserType ==
    ASSUME TypeOK, NEW t \in Threads, UserStep(t), Observe(t)
    PROVE  TypeOK'
<1> USE IsoReadAssumption
<1>1. clean' \in [Threads -> BOOLEAN] /\ overlap' \in BOOLEAN
  BY ObserveType DEF TypeOK
<1>2. CASE Seek(t)
  <2>1. pos' \in [Handles -> {Closed, Stale} \cup 0 .. Total]
    BY <1>2 DEF TypeOK, Seek
  <2>2. CASE op[t] = "open" /\ End(t, None)
    BY <1>1, <1>2, <2>1, <2>2, EndType DEF TypeOK, Seek, None, openVars
  <2>3. CASE op[t] # "open" /\ Goto(t, "read")
    BY <1>1, <1>2, <2>1, <2>3 DEF TypeOK, Seek, Goto, Steps, openVars
  <2> QED
    BY <1>2, <2>2, <2>3 DEF Seek
<1>3. CASE SeekFails(t)
  BY <1>1, <1>3 DEF TypeOK, SeekFails, CallIsoOpen, Goto, Steps, OpenSteps, fileVars
<1>4. CASE Read(t)
  <2>1. fd \in Handles /\ pos[fd] \in 0 .. Total
    BY <1>4 DEF TypeOK, Read, Usable
  <2>2. pos' \in [Handles -> {Closed, Stale} \cup 0 .. Total]
    BY <1>4, <2>1 DEF TypeOK, Read
  <2> QED
    BY <1>1, <1>4, <2>1, <2>2, EndType DEF TypeOK, Read, openVars
<1>5. CASE ReadFails(t)
  BY <1>1, <1>5 DEF TypeOK, ReadFails, CallIsoOpen, Goto, Steps, OpenSteps, fileVars
<1>6. CASE GiveUp(t)
  BY <1>1, <1>6, EndType DEF TypeOK, GiveUp, Error, fileVars, openVars
<1>7. CASE SignalSema(t)
  BY <1>1, <1>7 DEF TypeOK, SignalSema, Over, Goto, None, Steps, fileVars, openVars
<1>8. CASE MountOpens(t)
  BY <1>1, <1>8 DEF TypeOK, MountOpens, CallIsoOpen, Goto, Steps, OpenSteps, fileVars
<1>9. CASE MountReads(t)
  BY <1>1, <1>9 DEF TypeOK, MountReads, Goto, Steps, fileVars, openVars
<1>10. CASE WaitSema(t)
  BY <1>1, <1>10 DEF TypeOK, WaitSema, Goto, Steps, fileVars, openVars
<1>11. CASE BeginOpen(t)
  BY <1>1, <1>11 DEF TypeOK, BeginOpen, Goto, Steps, fileVars, openVars
<1>12. ASSUME NEW o \in Offsets, BeginRead(t, o) PROVE TypeOK'
  BY <1>1, <1>12 DEF TypeOK, BeginRead, Goto, Steps, fileVars, openVars
<1> QED
  BY <1>2, <1>3, <1>4, <1>5, <1>6, <1>7, <1>8, <1>9, <1>10, <1>11, <1>12 DEF UserStep

-----------------------------------------------------------------------------
(* The phases of a thread, the semaphore and the descriptors               *)

\* The thread stays inside iso_open or goes back to where it was called.
LEMMA IsoOpenGoes ==
    ASSUME TypeOK, NEW t \in Threads, IsoOpenStep(t)
    PROVE  \/ InIsoOpen(t)' /\ to'[t] = to[t] /\ pc'[t] # "wait"
           \/ ~InIsoOpen(t)' /\ pc'[t] = to[t]
  BY DEF TypeOK, IsoOpenStep, InIsoOpen, WaitMs0, Close, Open, OpenFails, Rewind, ReadHeader,
         SeekCur, SeekEnd, SeekBack, Count, Goto, LeaveIsoOpen, fileVars, openVars

LEMMA IsoOpenPhases ==
    ASSUME TypeOK, Phases, SemaHeld, NEW t \in Threads, IsoOpenStep(t)
    PROVE  Phases' /\ SemaHeld'
<1>1. \A u \in Threads \ {t} : pc'[u] = pc[u] /\ to'[u] = to[u]
  BY IsoOpenFrame
<1>2. UNCHANGED <<op, sema>> /\ InIsoOpen(t)
  BY IsoOpenFrame
<1>3. to[t] \in {"mount", "seek", "read"}
  BY <1>2 DEF TypeOK, Phases
<1>4. Phases'
  BY <1>1, <1>2, <1>3, IsoOpenGoes DEF Phases, InIsoOpen
<1>5. pc[t] # "acquire"
  BY <1>2 DEF InIsoOpen
<1> QED
  BY <1>1, <1>2, <1>4, <1>5 DEF SemaHeld

LEMMA UserPhases ==
    ASSUME TypeOK, Phases, SemaHeld, NEW t \in Threads, UserStep(t)
    PROVE  Phases' /\ SemaHeld'
<1> DEFINE PhaseOK(o, p, b) ==
        /\ o = "none" <=> p = "idle"
        /\ p \in {"acquire", "release"} => o = "read"
        /\ p \in {"mount", "mounted"} => o = "mount"
        /\ p = "read" => o # "open"
        /\ p \in OpenSteps => b # "idle" /\ (b = "mount" => o = "mount") /\ (b = "read" => o # "open")
      HeldBy(o, p, s) == o = "read" /\ p # "acquire" => s = t
<1>1. \A u \in Threads \ {t} : pc'[u] = pc[u] /\ to'[u] = to[u] /\ op'[u] = op[u]
  BY UserFrame
<1>2. PhaseOK(op[t], pc[t], to[t]) /\ HeldBy(op[t], pc[t], sema)
  BY DEF Phases, SemaHeld, InIsoOpen, OpenSteps
<1>3. /\ PhaseOK(op'[t], pc'[t], to'[t]) /\ HeldBy(op'[t], pc'[t], sema')
      /\ sema' = sema \/ sema \in {t, NoThread}
  <2>1. CASE Seek(t)
    BY <1>2, <2>1 DEF TypeOK, Seek, End, Over, Goto, OpenSteps, openVars
  <2>2. CASE SeekFails(t)
    BY <1>2, <2>2 DEF TypeOK, SeekFails, CallIsoOpen, Goto, OpenSteps
  <2>3. CASE Read(t)
    BY <1>2, <2>3 DEF TypeOK, Read, End, Over, Goto, OpenSteps, openVars
  <2>4. CASE ReadFails(t)
    BY <1>2, <2>4 DEF TypeOK, ReadFails, CallIsoOpen, Goto, OpenSteps
  <2>5. CASE GiveUp(t)
    BY <1>2, <2>5 DEF TypeOK, GiveUp, End, Over, Goto, OpenSteps, openVars
  <2>6. CASE SignalSema(t)
    BY <1>2, <2>6 DEF TypeOK, SignalSema, Over, Goto, OpenSteps, openVars
  <2>7. CASE MountOpens(t)
    BY <1>2, <2>7 DEF TypeOK, MountOpens, CallIsoOpen, Goto, OpenSteps
  <2>8. CASE MountReads(t)
    BY <1>2, <2>8 DEF TypeOK, MountReads, Goto, OpenSteps, openVars
  <2>9. CASE WaitSema(t)
    BY <1>2, <2>9 DEF TypeOK, WaitSema, Goto, OpenSteps, openVars
  <2>10. CASE BeginOpen(t)
    BY <1>2, <2>10 DEF TypeOK, BeginOpen, Goto, OpenSteps, openVars
  <2>11. ASSUME NEW o \in Offsets, BeginRead(t, o)
         PROVE  PhaseOK(op'[t], pc'[t], to'[t]) /\ HeldBy(op'[t], pc'[t], sema') /\ sema' = sema
    BY <1>2, <2>11 DEF TypeOK, BeginRead, Goto, OpenSteps, openVars
  <2> QED
    BY <2>1, <2>2, <2>3, <2>4, <2>5, <2>6, <2>7, <2>8, <2>9, <2>10, <2>11 DEF UserStep
<1>4. Phases'
  BY <1>1, <1>3 DEF Phases, InIsoOpen, OpenSteps
<1>5. SemaHeld'
  BY <1>1, <1>3, IsoReadAssumption DEF SemaHeld
<1> QED
  BY <1>4, <1>5

\* A descriptor is opened with the stick in only, and one that was not in use
\* or had gone stale works again only when iso_open opens it.
LEMMA DescriptorsKept ==
    ASSUME TypeOK, CardKept, NEW t \in Threads, IsoOpenStep(t) \/ UserStep(t)
    PROVE  /\ CardKept'
           /\ UserStep(t) =>
                 \A d \in Handles : pos'[d] # pos[d] => pos[d] \in 0 .. Total /\ pos'[d] \in 0 .. Total
<1> USE IsoReadAssumption DEF Closed, Stale
<1>1. UNCHANGED card /\ pos \in [Handles -> {Closed, Stale} \cup 0 .. Total]
  BY IsoOpenFrame, UserFrame DEF TypeOK
<1>2. ASSUME IsoOpenStep(t), NEW d \in Handles, pos'[d] \in 0 .. Total
      PROVE  card
  <2>1. CASE Close(t)
    BY <1>1, <1>2, <2>1 DEF Close, CardKept
  <2>2. CASE Open(t)
    BY <2>2 DEF Open
  <2>3. CASE Rewind(t) \/ ReadHeader(t) \/ SeekEnd(t) \/ SeekBack(t)
    BY <1>1, <1>2, <2>3 DEF Rewind, ReadHeader, SeekEnd, SeekBack, Usable, CardKept
  <2>4. CASE UNCHANGED pos
    BY <1>2, <2>4 DEF CardKept
  <2> QED
    BY <1>2, <2>1, <2>2, <2>3, <2>4
       DEF IsoOpenStep, WaitMs0, OpenFails, SeekCur, Count, fileVars
<1>3. ASSUME UserStep(t), NEW d \in Handles
      PROVE  pos'[d] # pos[d] => pos[d] \in 0 .. Total /\ pos'[d] \in 0 .. Total
  <2>1. CASE Seek(t)
    BY <1>1, <2>1 DEF Seek, Usable, TypeOK
  <2>2. CASE Read(t)
    <3>1. fd \in Handles /\ pos[fd] \in 0 .. Total
      BY <1>1, <2>2 DEF Read, Usable
    <3>2. pos' = [pos EXCEPT ![fd] = IF @ + ReadLen > Total THEN Total ELSE @ + ReadLen]
      BY <2>2 DEF Read
    <3>3. pos'[fd] \in 0 .. Total
      BY <1>1, <3>1, <3>2
    <3> QED
      BY <1>1, <3>1, <3>2, <3>3
  <2>3. CASE UNCHANGED pos
    BY <2>3
  <2> QED
    BY <1>3, <2>1, <2>2, <2>3
       DEF UserStep, SeekFails, ReadFails, GiveUp, SignalSema, MountOpens, MountReads, WaitSema,
           BeginOpen, BeginRead, fileVars
<1>4. CardKept'
  <2>1. CASE IsoOpenStep(t)
    BY <1>1, <1>2, <2>1 DEF CardKept
  <2>2. CASE UserStep(t)
    BY <1>1, <1>3, <2>2 DEF CardKept
  <2> QED
    BY <2>1, <2>2
<1> QED
  BY <1>3, <1>4

-----------------------------------------------------------------------------
(* Clean reads                                                             *)

\* Observe, read backwards.
LEMMA CleanBefore ==
    ASSUME NEW t \in Threads, Observe(t), NEW u \in Threads, clean'[u]
    PROVE  \/ pc[u] = "seek" /\ pc'[u] = "read"
           \/ /\ clean[u] /\ pc'[u] \notin {"wait", "idle"}
              /\ pc[u] = "read" /\ u # t /\ ~(op[t] = "read" /\ op[u] = "read") =>
                    fd' = fd /\ (fd \in Handles => pos'[fd] = pos[fd])
  BY DEF Observe

\* Where a step outside iso_open takes a thread.
LEMMA UserGoes ==
    ASSUME TypeOK, NEW t \in Threads, UserStep(t)
    PROVE  /\ pc'[t] = "read" => Seek(t) /\ op[t] # "open"
           /\ pc[t] \in {"read", "release", "mounted"} =>
                 pc'[t] \in {"release", "mounted", "wait", "idle"}
           /\ pc'[t] \in {"release", "mounted"} =>
                 (Read(t) /\ End(t, pos[fd])) \/ data'[t] = Error
           /\ pc[t] = "acquire" => sema = NoThread
  BY DEF TypeOK, UserStep, Seek, SeekFails, Read, ReadFails, GiveUp, SignalSema, MountOpens,
         MountReads, WaitSema, BeginOpen, BeginRead, Goto, CallIsoOpen, End, Over

\* A read and another read are not under way at once.
LEMMA OneRead ==
    ASSUME TypeOK, Phases, SemaHeld, NEW t \in Threads, NEW u \in Threads, u # t,
           IsoOpenStep(t) \/ UserStep(t), pc[u] = "read", op[u] = "read"
    PROVE  op[t] # "read"
<1> SUFFICES ASSUME op[t] = "read" PROVE FALSE
  OBVIOUS
<1>1. sema = u
  BY DEF SemaHeld
<1>2. pc[t] = "acquire"
  BY <1>1 DEF SemaHeld
<1>3. UserStep(t)
  BY <1>2, IsoOpenFrame DEF InIsoOpen
<1>4. sema = NoThread
  BY <1>2, <1>3, UserGoes
<1> QED
  BY <1>1, <1>4, IsoReadAssumption

LEMMA CleanKept ==
    ASSUME TypeOK, CardKept, Phases, SemaHeld, CleanPhase, CleanAt, CleanReadsRight,
           NEW t \in Threads, IsoOpenStep(t) \/ UserStep(t), Observe(t)
    PROVE  CleanPhase' /\ CleanAt' /\ CleanReadsRight'
<1>1. \A u \in Threads \ {t} : /\ pc'[u] = pc[u] /\ op'[u] = op[u] /\ arg'[u] = arg[u]
                               /\ data'[u] = data[u]
  BY IsoOpenFrame, UserFrame
<1>2. ASSUME clean'[t], IsoOpenStep(t)
      PROVE  FALSE
  BY <1>2, CleanBefore, IsoOpenFrame DEF CleanPhase, InIsoOpen
<1>3. CleanPhase'
  <2> SUFFICES ASSUME NEW u \in Threads, clean'[u]
               PROVE  pc'[u] \in {"read", "release", "mounted"}
    BY DEF CleanPhase
  <2>1. CASE u = t
    BY <1>2, <2>1, CleanBefore, UserGoes DEF CleanPhase
  <2>2. CASE u # t
    BY <1>1, <2>2, CleanBefore DEF CleanPhase
  <2> QED
    BY <2>1, <2>2
<1>4. CleanAt'
  <2> SUFFICES ASSUME NEW u \in Threads, pc'[u] = "read", clean'[u]
               PROVE  fd' \in Handles /\ pos'[fd'] \in {arg'[u], Stale}
    BY DEF CleanAt
  <2>1. CASE u = t
    <3>1. Seek(t) /\ op[t] # "open"
      BY <1>2, <2>1, UserGoes
    <3> QED
      BY <2>1, <3>1 DEF TypeOK, Seek, Usable
  <2>2. CASE u # t
    <3>1. pc[u] = "read" /\ clean[u]
      BY <1>1, <2>2, CleanBefore
    <3>2. fd' = fd /\ (fd \in Handles => pos'[fd] = pos[fd])
      BY <2>2, <3>1, CleanBefore, OneRead
    <3> QED
      BY <1>1, <2>2, <3>1, <3>2 DEF CleanAt
  <2> QED
    BY <2>1, <2>2
<1>5. CleanReadsRight'
  <2> SUFFICES ASSUME NEW u \in Threads, op'[u] # "open", pc'[u] \in {"release", "mounted"},
                      data'[u] # Error, clean'[u]
               PROVE  data'[u] = arg'[u]
    BY DEF CleanReadsRight, Delivered
  <2>1. clean[u]
    BY CleanBefore
  <2>2. CASE u = t
    <3>1. Read(t) /\ End(t, pos[fd])
      BY <1>2, <2>2, UserGoes
    <3>2. pos[fd] = arg[t]
      BY <2>1, <2>2, <3>1 DEF CleanAt, Read, Usable
    <3>3. data'[t] = pos[fd] /\ arg'[t] = arg[t]
      BY <2>2, <3>1 DEF TypeOK, End, Over, Goto
    <3> QED
      BY <2>2, <3>2, <3>3
  <2>3. CASE u # t
    BY <1>1, <2>1, <2>3 DEF CleanReadsRight, Delivered
  <2> QED
    BY <2>2, <2>3
<1> QED
  BY <1>3, <1>4, <1>5

-----------------------------------------------------------------------------
(* iso_open                                                                *)

LEMMA AloneKept ==
    ASSUME NEW t \in Threads, Observe(t)
    PROVE  Alone' /\ (~overlap' => ~overlap)
  BY DEF Alone, Observe

\* A step of the thread that is alone inside iso_open.
LEMMA IsoOpenWorks ==
    ASSUME TypeOK, CardKept, Phases, Alone, OpenWork, NoDescriptorLost, SizeKept,
           NEW t \in Threads, IsoOpenStep(t), Observe(t)
    PROVE  OpenWork' /\ NoDescriptorLost' /\ SizeKept'
<1> SUFFICES ASSUME ~overlap, ~overlap'
             PROVE  OpenWork' /\ NoDescriptorLost' /\ SizeKept'
  BY AloneKept DEF OpenWork, NoDescriptorLost, SizeKept
<1> DEFINE Lost(d) == d \in Handles /\ pos[d] # Closed /\ d # fd
           Worked(p) == /\ p = "open" => \A d \in Handles : pos[d] = Closed
                        /\ p \in {"rewind", "header", "cur", "end", "back", "count"} => h[t] = fd
                        /\ p \in {"cur", "end", "back", "count"} => opened
                        /\ p \in {"back", "count"} /\ fd \in Handles /\ pos[fd] \in 0 .. Total =>
                              total[t] = Total
           Sized == fd \in Handles /\ pos[fd] \in 0 .. Total => opened /\ sectors = Total
<1>1. InIsoOpen(t) /\ \A u \in Threads \ {t} : ~InIsoOpen(u) /\ pc'[u] = pc[u]
  BY IsoOpenFrame DEF Alone
<1>2. Worked(pc[t]) /\ \A d \in Handles : pos[d] # Closed => d = fd
  BY DEF OpenWork, NoDescriptorLost
<1>3. /\ Worked(pc[t])'
      /\ \A d \in Handles : pos'[d] # Closed => d = fd'
      /\ ~InIsoOpen(t)' => Sized'
  <2> USE IsoReadAssumption
  <2>1. CASE WaitMs0(t)
    BY <1>2, <2>1 DEF TypeOK, WaitMs0, Goto, InIsoOpen, fileVars, openVars
  <2>2. CASE Close(t)
    BY <1>2, <2>2 DEF TypeOK, Close, Goto, InIsoOpen
  <2>3. CASE Open(t)
    BY <1>2, <2>3 DEF TypeOK, Open, Goto, InIsoOpen
  <2>4. CASE OpenFails(t)
    <3>1. \A d \in Handles : pos'[d] = Closed
      BY <1>2, <2>4 DEF OpenFails, fileVars
    <3>2. fd' = NoHandle /\ fd' \notin Handles
      BY <2>4 DEF OpenFails, NoHandle
    <3>3. pc'[t] \in {"open", "idle", "mount", "seek", "read"}
      BY <2>4 DEF TypeOK, OpenFails, LeaveIsoOpen, Goto
    <3> QED
      BY <3>1, <3>2, <3>3
  <2>5. CASE Rewind(t)
    BY <1>2, <2>5 DEF TypeOK, Rewind, Usable, Goto, InIsoOpen, openVars, Closed
  <2>6. CASE ReadHeader(t)
    BY <1>2, <2>6 DEF TypeOK, ReadHeader, Usable, Goto, InIsoOpen, Closed
  <2>7. CASE SeekCur(t)
    BY <1>2, <2>7 DEF TypeOK, SeekCur, Goto, InIsoOpen, fileVars
  <2>8. CASE SeekEnd(t)
    BY <1>2, <2>8 DEF TypeOK, CardKept, SeekEnd, Usable, Goto, InIsoOpen, Closed, Stale
  <2>9. CASE SeekBack(t)
    BY <1>2, <2>9 DEF TypeOK, SeekBack, Usable, Goto, InIsoOpen, openVars, Closed, Stale
  <2>10. CASE Count(t)
    BY <1>2, <2>10 DEF TypeOK, Count, LeaveIsoOpen, Goto, InIsoOpen, fileVars
  <2> QED
    BY <2>1, <2>2, <2>3, <2>4, <2>5, <2>6, <2>7, <2>8, <2>9, <2>10 DEF IsoOpenStep
<1>4. \A u \in Threads \ {t} : ~InIsoOpen(u)'
  BY <1>1 DEF InIsoOpen
<1>5. OpenWork'
  BY <1>3, <1>4 DEF OpenWork, InIsoOpen
<1>6. NoDescriptorLost' /\ SizeKept'
  BY <1>3 DEF NoDescriptorLost, SizeKept
<1> QED
  BY <1>5, <1>6

\* A step outside does no harm to the one inside.
LEMMA UserWorks ==
    ASSUME TypeOK, CardKept, OpenWork, NoDescriptorLost, SizeKept,
           NEW t \in Threads, UserStep(t), Observe(t)
    PROVE  OpenWork' /\ NoDescriptorLost' /\ SizeKept'
<1> SUFFICES ASSUME ~overlap, ~overlap'
             PROVE  OpenWork' /\ NoDescriptorLost' /\ SizeKept'
  BY AloneKept DEF OpenWork, NoDescriptorLost, SizeKept
<1>1. /\ UNCHANGED <<fd, opened, sectors, h, total>> /\ ~InIsoOpen(t)
      /\ \A u \in Threads \ {t} : pc'[u] = pc[u]
  BY UserFrame
<1>2. \A d \in Handles : pos'[d] # pos[d] => pos[d] \in 0 .. Total /\ pos'[d] \in 0 .. Total
  BY DescriptorsKept
<1>3. \A d \in Handles : /\ pos'[d] = Closed <=> pos[d] = Closed
                         /\ pos'[d] \in 0 .. Total <=> pos[d] \in 0 .. Total
  BY <1>2, IsoReadAssumption DEF Closed
<1>4. ~InIsoOpen(t)' \/ pc'[t] = "wait"
  BY DEF TypeOK, UserStep, InIsoOpen, Seek, SeekFails, Read, ReadFails, GiveUp, SignalSema,
         MountOpens, MountReads, WaitSema, BeginOpen, BeginRead, Goto, CallIsoOpen, End, Over
<1>5. OpenWork'
  <2> SUFFICES ASSUME NEW u \in Threads
      PROVE  /\ pc'[u] = "open" => \A d \in Handles : pos'[d] = Closed
             /\ pc'[u] \in {"rewind", "header", "cur", "end", "back", "count"} => h'[u] = fd'
             /\ pc'[u] \in {"cur", "end", "back", "count"} => opened'
             /\ pc'[u] \in {"back", "count"} /\ fd' \in Handles /\ pos'[fd'] \in 0 .. Total =>
                   total'[u] = Total
    BY DEF OpenWork
  <2>1. CASE u = t
    BY <1>4, <2>1 DEF InIsoOpen
  <2>2. CASE u # t
    BY <1>1, <1>3, <2>2 DEF OpenWork
  <2> QED
    BY <2>1, <2>2
<1>6. NoDescriptorLost'
  BY <1>1, <1>3 DEF NoDescriptorLost
<1>7. SizeKept'
  BY <1>1, <1>3 DEF SizeKept, InIsoOpen
<1> QED
  BY <1>5, <1>6, <1>7

-----------------------------------------------------------------------------
(* The memory stick                                                        *)

LEMMA StickIInv == IInv /\ (Eject \/ Insert) => IInv'
<1> SUFFICES ASSUME IInv, Eject \/ Insert PROVE IInv'
  OBVIOUS
<1> USE IsoReadAssumption DEF Closed, Stale
<1>1. UNCHANGED <<fd, opened, sectors, sema, pc, op, arg, i, retries, to, h, off, total, data,
                  clean, overlap>>
  BY DEF Eject, Insert, openVars
<1>2. \/ card' = TRUE /\ pos' = pos
      \/ card' = FALSE /\ pos' = [d \in Handles |-> IF pos[d] = Closed THEN Closed ELSE Stale]
  BY DEF Eject, Insert
<1>3. pos \in [Handles -> {Closed, Stale} \cup 0 .. Total]
  BY DEF IInv, TypeOK
<1>4. /\ \A d \in Handles : pos'[d] = Closed <=> pos[d] = Closed
      /\ \A d \in Handles : pos'[d] \in 0 .. Total => pos[d] \in 0 .. Total /\ card'
      /\ \A d \in Handles : pos'[d] \in {pos[d], Stale}
  BY <1>2, <1>3
<1>5. TypeOK'
  <2>1. ejects' \in Nat
    BY DEF IInv, TypeOK, Eject, Insert
  <2> QED
    BY <1>1, <1>2, <1>3, <2>1 DEF IInv, TypeOK
<1>6. CardKept' /\ NoDescriptorLost' /\ CleanAt'
  BY <1>1, <1>4 DEF IInv, CardKept, NoDescriptorLost, CleanAt
<1>7. Phases' /\ SemaHeld' /\ CleanPhase' /\ CleanReadsRight' /\ Alone'
  BY <1>1 DEF IInv, Phases, SemaHeld, CleanPhase, CleanReadsRight, Delivered, Alone, InIsoOpen
<1>8. OpenWork' /\ SizeKept'
  BY <1>1, <1>4 DEF IInv, OpenWork, SizeKept, InIsoOpen
<1> QED
  BY <1>5, <1>6, <1>7, <1>8 DEF IInv

-----------------------------------------------------------------------------
(* The theorems                                                            *)

LEMMA NextIInv == IInv /\ [Next]_vars => IInv'
<1> SUFFICES ASSUME IInv, [Next]_vars PROVE IInv'
  OBVIOUS
<1>1. ASSUME NEW t \in Threads, Step(t) \/ Acquire(t) \/ Begin(t)
      PROVE  IInv'
  <2>1. Observe(t) /\ (IsoOpenStep(t) \/ UserStep(t))
    BY <1>1, StepKinds
  <2>2. TypeOK' /\ CardKept' /\ Alone'
    BY <2>1, IsoOpenType, UserType, DescriptorsKept, AloneKept DEF IInv
  <2>3. Phases' /\ SemaHeld'
    BY <2>1, IsoOpenPhases, UserPhases DEF IInv
  <2>4. CleanPhase' /\ CleanAt' /\ CleanReadsRight'
    BY <2>1, CleanKept DEF IInv
  <2>5. OpenWork' /\ NoDescriptorLost' /\ SizeKept'
    BY <2>1, IsoOpenWorks, UserWorks DEF IInv
  <2> QED
    BY <2>2, <2>3, <2>4, <2>5 DEF IInv
<1>2. CASE UNCHANGED vars
  BY <1>2 DEF vars, fileVars, openVars, IInv, TypeOK, CardKept, Phases, SemaHeld, CleanPhase,
              CleanAt, CleanReadsRight, Delivered, Alone, OpenWork, NoDescriptorLost, SizeKept,
              InIsoOpen
<1> QED
  BY <1>1, <1>2, StickIInv DEF Next

THEOREM ReadInvariantHolds == Spec => []IInv
  BY InitIInv, NextIInv, PTL DEF Spec

\* CleanReadsRight, for every number of threads, retries and pulls of the stick:
\* what read_raw_data delivers is what was asked for, if its last call needed no
\* retry and nobody outside the semaphore moved the file under it.
THEOREM CleanReads == Spec => []CleanReadsRight
<1>1. IInv => CleanReadsRight
  BY DEF IInv
<1> QED
  BY <1>1, ReadInvariantHolds, PTL

\* NoDescriptorLost: iso_open closes what it opened, unless two threads are in it.
THEOREM DescriptorsAccountedFor == Spec => []NoDescriptorLost
<1>1. IInv => NoDescriptorLost
  BY DEF IInv
<1> QED
  BY <1>1, ReadInvariantHolds, PTL

\* SizeKnown: g_total_sectors is right whenever the file can be read.
THEOREM SizeIsKnown == Spec => []SizeKnown
<1>1. IInv => SizeKnown
  BY DEF IInv, TypeOK, SizeKept, SizeKnown, Usable
<1> QED
  BY <1>1, ReadInvariantHolds, PTL

-----------------------------------------------------------------------------
(* Reads alone with the file                                               *)

\* What keeps every read clean: only reads, and no descriptor goes stale.
OnlyReads ==
    /\ card /\ \A d \in Handles : pos[d] # Stale
    /\ \A t \in Threads :
          /\ op[t] \in {"none", "read"}
          /\ InIsoOpen(t) => to[t] = "seek"
          /\ pc[t] = "read" => clean[t]
          /\ pc[t] = "release" /\ data[t] # Error => clean[t]

LEMMA OnlyReadsStep ==
    ASSUME ~Opens, MaxEjects = 0, IInv, OnlyReads, [Next]_vars
    PROVE  OnlyReads'
<1> USE IsoReadAssumption
<1>1. ASSUME NEW t \in Threads, IsoOpenStep(t) \/ UserStep(t), Observe(t)
      PROVE  OnlyReads'
  <2>1. TypeOK /\ CardKept /\ Phases /\ SemaHeld /\ CleanAt
    BY DEF IInv
  <2>2. \A u \in Threads \ {t} : /\ pc'[u] = pc[u] /\ op'[u] = op[u] /\ to'[u] = to[u]
                                 /\ data'[u] = data[u]
    BY <1>1, <2>1, IsoOpenFrame, UserFrame
  <2>3. card' /\ \A d \in Handles : pos'[d] # Stale
    <3>1. card' = card
      BY <1>1, <2>1, IsoOpenFrame, UserFrame
    <3>2. CASE UserStep(t)
      BY <2>1, <3>1, <3>2, DescriptorsKept DEF OnlyReads, Stale
    <3>3. CASE IsoOpenStep(t)
      <4>1. off[t] # Stale
        BY <2>1 DEF TypeOK, Error, Stale
      <4>2. CASE Close(t) \/ Open(t)
        BY <2>1, <3>1, <4>2 DEF Close, Open, OnlyReads, TypeOK, Closed, Stale
      <4>3. CASE Rewind(t) \/ ReadHeader(t) \/ SeekEnd(t) \/ SeekBack(t)
        BY <2>1, <3>1, <4>1, <4>3
           DEF Rewind, ReadHeader, SeekEnd, SeekBack, OnlyReads, TypeOK, Stale
      <4>4. CASE UNCHANGED pos
        BY <3>1, <4>4 DEF OnlyReads
      <4> QED
        BY <3>3, <4>2, <4>3, <4>4 DEF IsoOpenStep, WaitMs0, OpenFails, SeekCur, Count, fileVars
    <3> QED
      BY <1>1, <3>2, <3>3
  <2>4. pc[t] \notin {"mount", "mounted"} /\ op[t] \in {"none", "read"}
    BY <2>1 DEF OnlyReads, Phases
  <2>5. pc[t] = "read" => Usable(fd)
    BY <2>1 DEF OnlyReads, CleanAt, TypeOK, Usable, Closed, Stale
  <2>6. op'[t] \in {"none", "read"} /\ (InIsoOpen(t)' => to'[t] = "seek")
    <3>1. CASE IsoOpenStep(t)
      BY <2>1, <2>4, <3>1, IsoOpenFrame, IsoOpenGoes DEF OnlyReads
    <3>2. CASE UserStep(t)
      BY <2>1, <2>4, <2>5, <3>2
         DEF TypeOK, UserStep, InIsoOpen, Seek, SeekFails, Read, ReadFails, GiveUp, SignalSema,
             MountOpens, MountReads, WaitSema, BeginOpen, BeginRead, Goto, CallIsoOpen, End, Over
    <3> QED
      BY <1>1, <3>1, <3>2
  <2>7. ASSUME pc'[t] = "read" \/ (pc'[t] = "release" /\ data'[t] # Error)
        PROVE  clean'[t]
    <3>1. UserStep(t)
      <4>1. CASE IsoOpenStep(t)
        <5>1. pc'[t] = to[t] /\ to[t] = "seek"
          BY <2>1, <2>7, <4>1, IsoOpenGoes, IsoOpenFrame DEF OnlyReads, InIsoOpen
        <5> QED
          BY <2>7, <5>1
      <4> QED
        BY <1>1, <4>1
    <3>2. CASE pc'[t] = "read"
      BY <1>1, <2>1, <3>1, <3>2, UserGoes DEF Seek, Observe
    <3>3. CASE pc'[t] = "release" /\ data'[t] # Error
      <4>1. Read(t)
        BY <2>1, <3>1, <3>3, UserGoes
      <4>2. pc[t] = "read" /\ clean[t]
        BY <4>1 DEF Read, OnlyReads
      <4> QED
        BY <1>1, <3>3, <4>2 DEF Observe
    <3> QED
      BY <2>7, <3>2, <3>3
  <2>8. ASSUME NEW u \in Threads \ {t},
               pc'[u] = "read" \/ (pc'[u] = "release" /\ data'[u] # Error)
        PROVE  clean'[u]
    <3>1. clean[u] /\ pc[u] = pc'[u] /\ op[u] = "read"
      BY <2>1, <2>2, <2>8 DEF OnlyReads, Phases
    <3>2. pc[u] = "read" => fd' = fd /\ pos' = pos
      <4> SUFFICES ASSUME pc[u] = "read" PROVE fd' = fd /\ pos' = pos
        OBVIOUS
      <4>1. op[t] = "none"
        BY <1>1, <2>1, <2>4, <3>1, OneRead
      <4>2. pc[t] = "idle"
        BY <2>1, <4>1 DEF Phases
      <4>3. UserStep(t)
        BY <1>1, <2>1, <4>2, IsoOpenFrame DEF InIsoOpen
      <4> QED
        BY <4>2, <4>3
           DEF UserStep, Seek, SeekFails, Read, ReadFails, GiveUp, SignalSema, MountOpens,
               MountReads, WaitSema, BeginOpen, BeginRead, fileVars
    <3> QED
      BY <1>1, <2>8, <3>1, <3>2 DEF Observe
  <2>9. ASSUME NEW u \in Threads \ {t}
        PROVE  op'[u] \in {"none", "read"} /\ (InIsoOpen(u)' => to'[u] = "seek")
    BY <2>2 DEF OnlyReads, InIsoOpen
  <2>10. ASSUME NEW u \in Threads
         PROVE  /\ op'[u] \in {"none", "read"}
                /\ InIsoOpen(u)' => to'[u] = "seek"
                /\ pc'[u] = "read" => clean'[u]
                /\ pc'[u] = "release" /\ data'[u] # Error => clean'[u]
    <3>1. op'[u] \in {"none", "read"} /\ (InIsoOpen(u)' => to'[u] = "seek")
      BY <2>6, <2>9 DEF InIsoOpen
    <3>2. ASSUME pc'[u] = "read" \/ (pc'[u] = "release" /\ data'[u] # Error)
          PROVE  clean'[u]
      <4>1. CASE u = t
        BY <2>7, <3>2, <4>1
      <4>2. CASE u # t
        BY <2>8, <3>2, <4>2
      <4> QED
        BY <4>1, <4>2
    <3> QED
      BY <3>1, <3>2, Zenon
  <2> QED
    BY <2>3, <2>10, Zenon DEF OnlyReads
<1>2. CASE UNCHANGED vars
  BY <1>2 DEF vars, fileVars, openVars, OnlyReads, InIsoOpen
<1>3. ~Eject /\ ~Insert
  BY DEF Eject, Insert, OnlyReads, IInv, TypeOK
<1> QED
  BY <1>1, <1>2, <1>3, StepKinds DEF Next

\* ReadsRight, the assertion of cache_test, where it does hold: without a thread
\* outside the semaphore and with the stick in, for every number of threads that
\* read and whatever iso_open has to open first.
THEOREM QuietReads ==
    ASSUME ~Opens, MaxEjects = 0, Mounter \notin Threads
    PROVE  Spec => []ReadsRight
<1>1. Init => OnlyReads
  <2> SUFFICES ASSUME Init PROVE OnlyReads
    OBVIOUS
  <2>1. \A t \in Threads : pc[t] = "idle" /\ op[t] = "none"
    BY DEF Init
  <2>2. card /\ \A d \in Handles : pos[d] # Stale
    BY DEF Init, Closed, Stale
  <2> QED
    BY <2>1, <2>2 DEF OnlyReads, InIsoOpen
<1>2. IInv /\ OnlyReads /\ [Next]_vars => OnlyReads'
  BY OnlyReadsStep
<1>3. IInv /\ OnlyReads => ReadsRight
  BY DEF IInv, OnlyReads, ReadsRight, CleanReadsRight, Delivered, Phases
<1> QED
  BY <1>1, <1>2, <1>3, ReadInvariantHolds, PTL DEF Spec
=============================================================================
