--------------------------- MODULE InfernoIoProofs ---------------------------
(***************************************************************************)
(* Proofs about InfernoIo, for any number of threads, files and slots and  *)
(* any size of the disc: the semaphore keeps the disc to one reader, the   *)
(* slots in use are those of the open files, and the position of a file    *)
(* that one thread uses stays on the disc.                                 *)
(*                                                                         *)
(* The slots match the files because the kernel lets no call onto a file   *)
(* beside an open or a close of it (IoCalls), and because a slot is taken  *)
(* and given back in one step each (IoSlots).  The position stays on the   *)
(* disc because a file that is not shared has one call at a time, whose    *)
(* copy of the position is therefore the position (IoAlone).               *)
(* The position of a shared file goes past the end, by what all its        *)
(* readers but one have read: each reader that is done leaves room for the *)
(* others (RoomInv).                                                       *)
(***************************************************************************)
EXTENDS InfernoIo, FiniteSetTheorems, TLAPS

IoOps == {"none", "open", "read", "seek", "tell", "close"}
IoPcs == Waits \cup {"idle", "sought", "reading", "done"}
IoResults == [kind : {"pending", "failed", "too many", "done"}, at : Int, count : Int]
IoCallRecord == [op : IoOps, file : Files \cup {NoFile}, n : Int,
                 whence : {"set", "cur", "end", "other"}, res : IoResults]

IoTypes ==
    /\ slots \in [Slot -> [enabled : BOOLEAN, offset : 0 .. Width - 1]]
    /\ sema \in Threads \cup {NoThread} /\ alive \in BOOLEAN
    /\ fslot \in [Files -> Slot \cup {NoSlot}]
    /\ owner \in [Files -> Threads \cup {NoThread}]
    /\ call \in [Threads -> IoCallRecord]
    /\ pc \in [Threads -> IoPcs]
    /\ idx \in [Threads -> Slot \cup {NoSlot}]
    /\ off \in [Threads -> 0 .. Width - 1] /\ got \in [Threads -> 0 .. Total]

\* The thread is in the handler of its call, which has no result until it is done.
IoPhases == \A t \in Threads :
    /\ pc[t] = "idle" <=> call[t].file = NoFile
    /\ pc[t] = "idle" <=> call[t].op = "none"
    /\ pc[t] \in {"open", "close", "tell"} => call[t].op = pc[t]
    /\ pc[t] \in {"seek", "sought"} => call[t].op = "seek"
    /\ pc[t] \in {"read", "disc", "reading", "advance"} => call[t].op = "read"
    /\ pc[t] # "done" => call[t].res = Pending
    /\ pc[t] = "done" => call[t].res.kind # "pending"
    /\ call[t].op = "read" => call[t].n >= 0

\* A file is opened and closed by one call alone, and has a slot in between.
IoCalls ==
    /\ \A t, u \in Threads :
          call[t].file = call[u].file /\ call[t].op \in {"open", "close"} => t = u
    /\ \A t \in Threads :
          LET f == call[t].file
          IN  pc[t] # "idle" =>
                /\ owner[f] # NoThread
                /\ (fslot[f] = NoSlot) <=>
                       (call[t].op = "open" /\ (pc[t] = "open" \/ call[t].res.kind # "done"))
    /\ \A f \in Files :
          IF owner[f] = NoThread THEN fslot[f] = NoSlot
          ELSE fslot[f] = NoSlot => \E t \in Threads : call[t].file = f /\ call[t].op = "open"

\* An open file has a slot that is in use, no other file has it, and while the
\* driver is there every slot in use has a file.
IoSlots ==
    /\ \A f \in Files : IsOpen(f) => slots[fslot[f]].enabled
    /\ \A f, g \in Files : IsOpen(f) /\ IsOpen(g) /\ fslot[f] = fslot[g] => f = g
    /\ \A s \in Slot : alive /\ slots[s].enabled => \E f \in Files : IsOpen(f) /\ fslot[f] = s

\* A file that is not shared is used by its opener; a read's copies are right.
IoAlone == ~Shared =>
    /\ \A t \in Threads : pc[t] # "idle" => owner[call[t].file] = t
    /\ \A f \in Files : IsOpen(f) => slots[fslot[f]].offset <= Total
    /\ \A t \in Threads :
          pc[t] \in {"disc", "reading", "advance"} =>
              /\ idx[t] = fslot[call[t].file]
              /\ off[t] = slots[fslot[call[t].file]].offset
              /\ pc[t] = "advance" => off[t] + got[t] <= Total

IoInv == IoTypes /\ DiscExclusive /\ IoPhases /\ IoCalls /\ IoSlots /\ IoAlone

-----------------------------------------------------------------------------
(* The operators                                                           *)

\* The results of calls.
LEMMA IoResultTypes ==
    /\ {Pending, Failed, TooMany} \subseteq IoResults
    /\ \A at, n \in Int : Result("done", at, n) \in IoResults
    /\ \A at \in Int : Done(at) \in IoResults
    /\ Pending.kind = "pending" /\ Failed.kind = "failed" /\ TooMany.kind = "too many"
    /\ \A at, n : Result("done", at, n).kind = "done" /\ Done(at).kind = "done"
  BY DEF IoResults, Pending, Failed, TooMany, Done, Result

\* Positions are words.
LEMMA UnsignedType ==
    \A x \in Int : Unsigned(x) \in 0 .. Width - 1 /\ (x \in 0 .. Width - 1 => Unsigned(x) = x)
  BY InfernoIoAssumption DEF Unsigned

\* A read from a position on the disc delivers what is there, at most.
LEMMA SectorsType ==
    ASSUME NEW p \in 0 .. Width - 1, NEW n \in Nat
    PROVE  Sectors(p, n) \in 0 .. Total /\ (p <= Total => p + Sectors(p, n) <= Total)
<1> DEFINE want == IF Total < Unsigned(p + n) THEN Unsigned(Total - p) ELSE n
<1>1. want \in Nat
  BY UnsignedType, InfernoIoAssumption
<1> QED BY <1>1, InfernoIoAssumption DEF Sectors

-----------------------------------------------------------------------------
(* What the steps of a handler have in common: thread t goes on, or ends   *)
(* its call with a result; the other threads and the kernel's files stay.  *)

IoMoves(t) ==
    /\ UNCHANGED <<fslot, owner>>
    /\ call' \in [Threads -> IoCallRecord] /\ pc' \in [Threads -> IoPcs]
    /\ \A u \in Threads :
          call'[u].op = call[u].op /\ call'[u].file = call[u].file /\ call'[u].n = call[u].n
    /\ \A u \in Threads \ {t} : call'[u] = call[u] /\ pc'[u] = pc[u]
    /\ pc[t] \notin {"idle", "done"} /\ pc'[t] # "idle"
    /\ IF pc'[t] = "done" THEN call'[t].res.kind # "pending" ELSE call' = call

\* A step that ends the call is one of them.
LEMMA FinishMoves ==
    ASSUME IoTypes, NEW t \in Threads, pc[t] \notin {"idle", "done"},
           NEW r \in IoResults, r.kind # "pending", Finish(t, r), UNCHANGED <<fslot, owner>>
    PROVE  IoMoves(t) /\ pc'[t] = "done" /\ call'[t].res = r
<1>1. pc' \in [Threads -> IoPcs] /\ pc'[t] = "done" /\ \A u \in Threads \ {t} : pc'[u] = pc[u]
  BY DEF Finish, Goto, IoTypes, IoPcs
<1>2. call[t] \in IoCallRecord
  BY DEF IoTypes
<1>3. [call[t] EXCEPT !.res = r] \in IoCallRecord
  BY <1>2 DEF IoCallRecord
<1>4. call' = [call EXCEPT ![t] = [call[t] EXCEPT !.res = r]]
  BY DEF Finish
<1>5. /\ call' \in [Threads -> IoCallRecord] /\ \A u \in Threads \ {t} : call'[u] = call[u]
      /\ call'[t] = [call[t] EXCEPT !.res = r]
  BY <1>3, <1>4 DEF IoTypes
<1>6. call'[t].res = r /\ call'[t].op = call[t].op /\ call'[t].file = call[t].file
      /\ call'[t].n = call[t].n
  BY <1>2, <1>5 DEF IoCallRecord
<1> QED BY <1>1, <1>5, <1>6 DEF IoMoves

\* So is one that goes on.
LEMMA GotoMoves ==
    ASSUME IoTypes, NEW t \in Threads, pc[t] \notin {"idle", "done"},
           NEW l \in IoPcs \ {"idle", "done"}, Goto(t, l), UNCHANGED <<call, fslot, owner>>
    PROVE  IoMoves(t) /\ pc'[t] = l
  BY DEF Goto, IoMoves, IoTypes

\* Such a step keeps the phases if it leads to a place of the call's handler.
LEMMA MovesPhases ==
    ASSUME IoTypes, IoPhases, NEW t \in Threads, IoMoves(t),
           \/ pc'[t] = "done"
           \/ pc'[t] = "sought" /\ call[t].op = "seek"
           \/ pc'[t] \in {"disc", "reading", "advance"} /\ call[t].op = "read"
    PROVE  IoPhases'
<1> SUFFICES ASSUME NEW u \in Threads
             PROVE  /\ pc'[u] = "idle" <=> call'[u].file = NoFile
                    /\ pc'[u] = "idle" <=> call'[u].op = "none"
                    /\ pc'[u] \in {"open", "close", "tell"} => call'[u].op = pc'[u]
                    /\ pc'[u] \in {"seek", "sought"} => call'[u].op = "seek"
                    /\ pc'[u] \in {"read", "disc", "reading", "advance"} => call'[u].op = "read"
                    /\ pc'[u] # "done" => call'[u].res = Pending
                    /\ pc'[u] = "done" => call'[u].res.kind # "pending"
                    /\ call'[u].op = "read" => call'[u].n >= 0
  BY DEF IoPhases, Pending, Result
<1>1. CASE u # t
  BY <1>1 DEF IoMoves, IoPhases
<1>2. CASE u = t
  BY <1>2 DEF IoMoves, IoPhases
<1> QED BY <1>1, <1>2

\* It keeps the rules of the calls, unless it is an open that succeeds.
LEMMA MovesCalls ==
    ASSUME IoPhases, IoCalls, NEW t \in Threads, IoMoves(t),
           call[t].op = "open" => pc[t] = "open" /\ pc'[t] = "done" /\ call'[t].res.kind # "done"
    PROVE  IoCalls'
<1>1. \A v, u \in Threads :
         call'[v].file = call'[u].file /\ call'[v].op \in {"open", "close"} => v = u
  BY DEF IoMoves, IoCalls
<1>2. ASSUME NEW u \in Threads, pc'[u] # "idle"
      PROVE  /\ owner'[call'[u].file] # NoThread
             /\ (fslot'[call'[u].file] = NoSlot) <=>
                    (call'[u].op = "open" /\ (pc'[u] = "open" \/ call'[u].res.kind # "done"))
  <2>1. CASE u # t
    BY <1>2, <2>1 DEF IoMoves, IoCalls
  <2>2. CASE u = t
    BY <2>2 DEF IoMoves, IoCalls
  <2> QED BY <2>1, <2>2
<1>3. ASSUME NEW f \in Files
      PROVE  IF owner'[f] = NoThread THEN fslot'[f] = NoSlot
             ELSE fslot'[f] = NoSlot => \E u \in Threads : call'[u].file = f /\ call'[u].op = "open"
  BY DEF IoMoves, IoCalls
<1> QED BY <1>1, <1>2, <1>3 DEF IoCalls

\* It opens no file, and closes none if it is not of a close.
LEMMA MovesOpen ==
    ASSUME IoPhases, NEW t \in Threads, IoMoves(t), NEW f \in Files
    PROVE  /\ IsOpen(f)' => IsOpen(f)
           /\ IsOpen(f) /\ ~(call[t].op = "close" /\ call[t].file = f) => IsOpen(f)'
<1>1. \A u \in Threads : u # t => call'[u].res = call[u].res
  BY DEF IoMoves
<1>2. call[t].res = Pending
  BY DEF IoMoves, IoPhases
<1> QED BY <1>1, <1>2 DEF IoMoves, IsOpen

\* A file that is read from, or is to be closed, is open.
LEMMA CallOpen ==
    ASSUME IoTypes, IoPhases, IoCalls, NEW t \in Threads, pc[t] \notin {"idle", "done"},
           call[t].op # "open"
    PROVE  call[t].file \in Files /\ IsOpen(call[t].file) /\ SlotOf(t) \in Slot
<1>1. call[t].file \in Files
  BY DEF IoTypes, IoPhases, IoCallRecord
<1>2. fslot[call[t].file] # NoSlot
  BY DEF IoCalls
<1>3. \A u \in Threads : call[u].file = call[t].file /\ call[u].op = "close" => call[u].res = Pending
  BY DEF IoCalls, IoPhases
<1> QED BY <1>1, <1>2, <1>3 DEF IsOpen, SlotOf, IoTypes

\* The slots match the files after a step that opens and closes none.
LEMMA SlotsKept ==
    ASSUME IoSlots, UNCHANGED fslot, alive' => alive,
           \A s \in Slot : slots'[s].enabled = slots[s].enabled,
           \A f \in Files : fslot[f] # NoSlot => fslot[f] \in Slot,
           \A f \in Files : IsOpen(f)' => IsOpen(f),
           \A f \in Files : alive' /\ IsOpen(f) => IsOpen(f)'
    PROVE  IoSlots'
<1>1. \A f \in Files : IsOpen(f)' => slots'[fslot'[f]].enabled
  BY DEF IoSlots, IsOpen
<1>2. \A f, g \in Files : IsOpen(f)' /\ IsOpen(g)' /\ fslot'[f] = fslot'[g] => f = g
  BY DEF IoSlots
<1>3. \A s \in Slot : alive' /\ slots'[s].enabled => \E f \in Files : IsOpen(f)' /\ fslot'[f] = s
  BY DEF IoSlots
<1> QED BY <1>1, <1>2, <1>3 DEF IoSlots

\* A step of t that changes no position but that of its own file, to one on the disc,
\* leaves the other threads' copies right.
LEMMA AloneKept ==
    ASSUME IoTypes, IoPhases, IoCalls, IoSlots, IoAlone, NEW t \in Threads, IoMoves(t),
           \A f \in Files : IsOpen(f)' => IsOpen(f),
           \A u \in Threads \ {t} : idx'[u] = idx[u] /\ off'[u] = off[u] /\ got'[u] = got[u],
           \A s \in Slot : ~Shared /\ slots'[s].offset # slots[s].offset =>
              IsOpen(call[t].file) /\ s = SlotOf(t) /\ slots'[s].offset <= Total,
           ~Shared /\ pc'[t] \in {"disc", "reading", "advance"} =>
              /\ idx'[t] = SlotOf(t) /\ off'[t] = slots'[SlotOf(t)].offset
              /\ pc'[t] = "advance" => off'[t] + got'[t] <= Total
    PROVE  IoAlone'
<1> SUFFICES ASSUME ~Shared
             PROVE  /\ \A u \in Threads : pc'[u] # "idle" => owner'[call'[u].file] = u
                    /\ \A f \in Files : IsOpen(f)' => slots'[fslot'[f]].offset <= Total
                    /\ \A u \in Threads :
                          pc'[u] \in {"disc", "reading", "advance"} =>
                              /\ idx'[u] = fslot'[call'[u].file]
                              /\ off'[u] = slots'[fslot'[call'[u].file]].offset
                              /\ pc'[u] = "advance" => off'[u] + got'[u] <= Total
  BY DEF IoAlone
<1>1. \A u \in Threads : pc'[u] # "idle" => owner'[call'[u].file] = u
  BY DEF IoMoves, IoAlone
<1>2. ASSUME NEW f \in Files, IsOpen(f)' PROVE slots'[fslot'[f]].offset <= Total
  <2>1. IsOpen(f) /\ fslot'[f] = fslot[f] /\ fslot[f] \in Slot
    BY <1>2 DEF IoMoves, IsOpen, IoTypes
  <2> QED BY <2>1 DEF IoAlone
<1>3. ASSUME NEW u \in Threads, u # t, pc'[u] \in {"disc", "reading", "advance"}
      PROVE  /\ idx'[u] = fslot'[call'[u].file]
             /\ off'[u] = slots'[fslot'[call'[u].file]].offset
             /\ pc'[u] = "advance" => off'[u] + got'[u] <= Total
  <2>1. pc[u] = pc'[u] /\ call'[u] = call[u] /\ fslot' = fslot
    BY <1>3 DEF IoMoves
  <2>2. call[u].file \in Files /\ IsOpen(call[u].file) /\ SlotOf(u) \in Slot
    BY <1>3, <2>1, CallOpen DEF IoPhases
  <2>3. slots'[SlotOf(u)].offset = slots[SlotOf(u)].offset
    <3>1. SUFFICES ASSUME SlotOf(u) = SlotOf(t), IsOpen(call[t].file) PROVE FALSE
      BY <2>2
    <3>2. call[t].file \in Files
      BY DEF IoMoves, IoTypes, IoPhases, IoCallRecord
    <3>3. call[t].file = call[u].file
      BY <2>2, <3>1, <3>2 DEF IoSlots, SlotOf
    <3> QED BY <1>3, <2>1, <3>3 DEF IoAlone, IoMoves
  <2> QED BY <1>3, <2>1, <2>3 DEF IoAlone, SlotOf
<1>4. pc'[t] \in {"disc", "reading", "advance"} =>
         /\ idx'[t] = fslot'[call'[t].file]
         /\ off'[t] = slots'[fslot'[call'[t].file]].offset
         /\ pc'[t] = "advance" => off'[t] + got'[t] <= Total
  BY DEF IoMoves, SlotOf
<1> QED BY <1>1, <1>2, <1>3, <1>4

\* The type of what such a step may change besides.
IoOthers ==
    /\ slots' \in [Slot -> [enabled : BOOLEAN, offset : 0 .. Width - 1]]
    /\ sema' \in Threads \cup {NoThread} /\ alive' \in BOOLEAN
    /\ idx' \in [Threads -> Slot \cup {NoSlot}]
    /\ off' \in [Threads -> 0 .. Width - 1] /\ got' \in [Threads -> 0 .. Total]

\* Together: a step that neither opens nor closes a file keeps the invariant.
LEMMA MovesKeep ==
    ASSUME IoInv, NEW t \in Threads, IoMoves(t), IoOthers, DiscExclusive',
           \/ pc'[t] = "done"
           \/ pc'[t] = "sought" /\ call[t].op = "seek"
           \/ pc'[t] \in {"disc", "reading", "advance"} /\ call[t].op = "read",
           call[t].op = "open" => pc[t] = "open" /\ pc'[t] = "done" /\ call'[t].res.kind # "done",
           call[t].op = "close" => ~alive',
           alive' = alive,
           \A s \in Slot : slots'[s].enabled = slots[s].enabled,
           \A u \in Threads \ {t} : idx'[u] = idx[u] /\ off'[u] = off[u] /\ got'[u] = got[u],
           \A s \in Slot : ~Shared /\ slots'[s].offset # slots[s].offset =>
              IsOpen(call[t].file) /\ s = SlotOf(t) /\ slots'[s].offset <= Total,
           ~Shared /\ pc'[t] \in {"disc", "reading", "advance"} =>
              /\ idx'[t] = SlotOf(t) /\ off'[t] = slots'[SlotOf(t)].offset
              /\ pc'[t] = "advance" => off'[t] + got'[t] <= Total
    PROVE  IoInv'
<1> USE DEF IoInv
<1>1. IoTypes'
  BY DEF IoTypes, IoOthers, IoMoves
<1>2. IoPhases'
  BY MovesPhases
<1>3. IoCalls'
  BY MovesCalls
<1>4. ASSUME NEW f \in Files
      PROVE  (IsOpen(f)' => IsOpen(f)) /\ (alive' /\ IsOpen(f) => IsOpen(f)')
  BY MovesOpen
<1>5. IoSlots'
  <2>1. UNCHANGED fslot /\ \A f \in Files : fslot[f] # NoSlot => fslot[f] \in Slot
    BY DEF IoMoves, IoTypes
  <2> QED BY <1>4, <2>1, SlotsKept
<1>6. IoAlone'
  BY <1>4, AloneKept
<1> QED BY <1>1, <1>2, <1>3, <1>5, <1>6

-----------------------------------------------------------------------------
(* The handlers                                                            *)

LEMMA WaitSemaFailsKeeps ==
    ASSUME IoInv, NEW t \in Threads, WaitSemaFails(t)
    PROVE  IoInv'
<1>1. IoMoves(t) /\ pc'[t] = "done" /\ call'[t].res = Failed
  BY FinishMoves, IoResultTypes DEF WaitSemaFails, Waits, IoInv
<1>2. IoOthers
  BY InfernoIoAssumption DEF WaitSemaFails, IoOthers, IoInv, IoTypes
<1>3. DiscExclusive'
  BY <1>1 DEF DiscExclusive, WaitSemaFails, Waits, IoInv, IoMoves
<1>4. call[t].op = "open" => pc[t] = "open" /\ pc'[t] = "done" /\ call'[t].res.kind # "done"
  BY <1>1, IoResultTypes DEF WaitSemaFails, Waits, IoInv, IoPhases
<1>5. alive' = alive /\ ~alive' /\ UNCHANGED slots
  BY DEF WaitSemaFails
<1>6. \A u \in Threads \ {t} : idx'[u] = idx[u] /\ off'[u] = off[u] /\ got'[u] = got[u]
  BY DEF WaitSemaFails, IoInv, IoTypes
<1> QED BY <1>1, <1>2, <1>3, <1>4, <1>5, <1>6, MovesKeep

LEMMA OpenFullKeeps ==
    ASSUME IoInv, NEW t \in Threads, OpenFull(t) \/ OpenFails(t)
    PROVE  IoInv'
<1>1. PICK r \in {Failed, TooMany} : IoMoves(t) /\ pc'[t] = "done" /\ call'[t].res = r
  BY FinishMoves, IoResultTypes DEF OpenFull, OpenFails, IoInv
<1>2. UNCHANGED <<slots, sema, alive, idx, off, got>> /\ pc[t] = "open"
  BY DEF OpenFull, OpenFails, locals
<1>3. IoOthers
  BY <1>2 DEF IoOthers, IoInv, IoTypes
<1>4. DiscExclusive'
  BY <1>1, <1>2 DEF DiscExclusive, IoInv, IoMoves
<1>5. call[t].op = "open" /\ call'[t].res.kind # "done"
  BY <1>1, <1>2, IoResultTypes DEF IoInv, IoPhases
<1> QED BY <1>1, <1>2, <1>3, <1>4, <1>5, MovesKeep

LEMMA TellKeeps ==
    ASSUME IoInv, NEW t \in Threads, Tell(t) \/ SeekUnknown(t) \/ SeekReturns(t)
    PROVE  IoInv'
<1>1. pc[t] \in {"tell", "seek", "sought"} /\ call[t].op \in {"tell", "seek"}
  BY DEF Tell, SeekUnknown, SeekReturns, IoInv, IoPhases
<1>2. SlotOf(t) \in Slot
  BY <1>1, CallOpen DEF IoInv
<1>3. slots[SlotOf(t)].offset \in Int
  BY <1>2, InfernoIoAssumption DEF IoInv, IoTypes
<1>4. IoMoves(t) /\ pc'[t] = "done"
  BY <1>1, <1>3, FinishMoves, IoResultTypes DEF Tell, SeekUnknown, SeekReturns, IoInv
<1>5. UNCHANGED <<slots, sema, alive, idx, off, got>>
  BY DEF Tell, SeekUnknown, SeekReturns, locals
<1>6. IoOthers
  BY <1>5 DEF IoOthers, IoInv, IoTypes
<1>7. DiscExclusive'
  BY <1>1, <1>4, <1>5 DEF DiscExclusive, IoInv, IoMoves
<1> QED BY <1>1, <1>4, <1>5, <1>6, <1>7, MovesKeep

\* The clamp keeps the position of the file on the disc.
LEMMA SeekKeeps ==
    ASSUME IoInv, NEW t \in Threads, Seek(t)
    PROVE  IoInv'
<1> DEFINE p == slots[SlotOf(t)].offset
           target == CASE call[t].whence = "set" -> call[t].n
                       [] call[t].whence = "cur" -> p + call[t].n
                       [] call[t].whence = "end" -> Total + call[t].n
<1>1. pc[t] = "seek" /\ call[t].op = "seek"
  BY DEF Seek, IoInv, IoPhases
<1>2. SlotOf(t) \in Slot /\ IsOpen(call[t].file)
  BY <1>1, CallOpen DEF IoInv
<1>3. target \in Int
  <2>1. p \in Int
    BY <1>2, InfernoIoAssumption DEF IoInv, IoTypes
  <2>2. call[t].n \in Int /\ call[t].whence \in {"set", "cur", "end", "other"}
    BY DEF IoInv, IoTypes, IoCallRecord
  <2>3. call[t].whence \in {"set", "cur", "end"}
    BY <2>2 DEF Seek
  <2>4. CASE call[t].whence = "set"
    BY <2>2, <2>4
  <2>5. CASE call[t].whence = "cur"
    BY <2>1, <2>2, <2>5
  <2>6. CASE call[t].whence = "end"
    BY <2>2, <2>6, InfernoIoAssumption
  <2> QED BY <2>3, <2>4, <2>5, <2>6
<1>4. Clamp(Unsigned(target)) \in 0 .. Width - 1 /\ Clamp(Unsigned(target)) <= Total
  <2> HIDE DEF target
  <2> QED BY <1>3, UnsignedType, InfernoIoAssumption DEF Clamp
<1>5. slots' = [slots EXCEPT ![SlotOf(t)].offset = Clamp(Unsigned(target))]
  BY DEF Seek
<1> HIDE DEF target
<1>6. IoMoves(t) /\ pc'[t] = "sought"
  BY <1>1, GotoMoves DEF Seek, IoInv, IoPcs
<1>7. UNCHANGED <<sema, alive, idx, off, got>>
  BY DEF Seek, locals
<1>8. IoOthers
  BY <1>2, <1>4, <1>5, <1>7 DEF IoOthers, IoInv, IoTypes
<1>9. DiscExclusive'
  BY <1>1, <1>6, <1>7 DEF DiscExclusive, IoInv, IoMoves
<1>10. \A s \in Slot : /\ slots'[s].enabled = slots[s].enabled
                      /\ \/ slots'[s].offset = slots[s].offset
                         \/ s = SlotOf(t) /\ slots'[s].offset <= Total
  BY <1>2, <1>4, <1>5 DEF IoInv, IoTypes
<1> QED BY <1>1, <1>2, <1>6, <1>7, <1>8, <1>9, <1>10, MovesKeep

LEMMA ReadOffsetKeeps ==
    ASSUME IoInv, NEW t \in Threads, ReadOffset(t)
    PROVE  IoInv'
<1>1. pc[t] = "read" /\ call[t].op = "read"
  BY DEF ReadOffset, IoInv, IoPhases
<1>2. SlotOf(t) \in Slot
  BY <1>1, CallOpen DEF IoInv
<1>3. IoMoves(t) /\ pc'[t] = "disc"
  BY <1>1, GotoMoves DEF ReadOffset, IoInv, IoPcs, Waits
<1>4. UNCHANGED <<slots, sema, alive, got>>
  BY DEF ReadOffset
<1>5. IoOthers
  BY <1>2, <1>4 DEF ReadOffset, IoOthers, IoInv, IoTypes
<1>6. DiscExclusive'
  BY <1>1, <1>3, <1>4 DEF DiscExclusive, IoInv, IoMoves
<1>7. /\ idx'[t] = SlotOf(t) /\ off'[t] = slots'[SlotOf(t)].offset
      /\ \A u \in Threads \ {t} : idx'[u] = idx[u] /\ off'[u] = off[u] /\ got'[u] = got[u]
  BY <1>4 DEF ReadOffset, IoInv, IoTypes
<1> QED BY <1>1, <1>3, <1>4, <1>5, <1>6, <1>7, MovesKeep

LEMMA TakeDiscKeeps ==
    ASSUME IoInv, NEW t \in Threads, TakeDisc(t)
    PROVE  IoInv'
<1>1. pc[t] = "disc" /\ call[t].op = "read"
  BY DEF TakeDisc, IoInv, IoPhases
<1>2. IoMoves(t) /\ pc'[t] = "reading"
  BY <1>1, GotoMoves DEF TakeDisc, IoInv, IoPcs
<1>3. UNCHANGED <<slots, alive, idx, off, got>>
  BY DEF TakeDisc, locals
<1>4. IoOthers
  BY <1>3 DEF TakeDisc, IoOthers, IoInv, IoTypes
<1>5. DiscExclusive'
  BY <1>2, InfernoIoAssumption DEF DiscExclusive, TakeDisc, SemaFree, IoInv, IoMoves
<1>6. ~Shared => idx'[t] = SlotOf(t) /\ off'[t] = slots'[SlotOf(t)].offset
  BY <1>1, <1>3 DEF IoInv, IoAlone, SlotOf
<1> QED BY <1>1, <1>2, <1>3, <1>4, <1>5, <1>6, MovesKeep

\* What is delivered fits between the position and the end of the disc.
LEMMA DiscDeliversKeeps ==
    ASSUME IoInv, NEW t \in Threads, DiscDelivers(t)
    PROVE  IoInv'
<1> DEFINE n == Sectors(off[t], call[t].n)
<1>1. pc[t] = "reading" /\ call[t].op = "read" /\ sema = t
  BY DEF DiscDelivers, IoInv, IoPhases, DiscExclusive
<1>2. n \in 0 .. Total /\ (off[t] <= Total => off[t] + n <= Total) /\ off[t] \in Int
  <2>1. call[t].n \in Nat /\ off[t] \in 0 .. Width - 1
    BY <1>1 DEF IoInv, IoTypes, IoPhases, IoCallRecord
  <2> QED BY <2>1, SectorsType, InfernoIoAssumption
<1>3. UNCHANGED <<slots, alive, fslot, owner>> /\ sema' = NoThread
  BY DEF DiscDelivers
<1>4. CASE n > 0 /\ got' = [got EXCEPT ![t] = n] /\ Goto(t, "advance") /\ UNCHANGED <<call, idx, off>>
  <2> HIDE DEF n
  <2>1. IoMoves(t) /\ pc'[t] = "advance"
    BY <1>1, <1>3, <1>4, GotoMoves DEF IoInv, IoPcs, Waits
  <2>2. IoOthers
    BY <1>2, <1>3, <1>4 DEF IoOthers, IoInv, IoTypes
  <2>3. DiscExclusive'
    BY <1>1, <1>3, <2>1, InfernoIoAssumption DEF DiscExclusive, IoInv, IoMoves
  <2>4. got'[t] = n /\ \A u \in Threads \ {t} : got'[u] = got[u]
    BY <1>4 DEF IoInv, IoTypes
  <2>5. ~Shared => /\ idx[t] = SlotOf(t) /\ off[t] = slots[SlotOf(t)].offset
                   /\ slots[SlotOf(t)].offset <= Total
    BY <1>1, CallOpen DEF IoInv, IoAlone, SlotOf
  <2> QED BY <1>1, <1>2, <1>3, <1>4, <2>1, <2>2, <2>3, <2>4, <2>5, MovesKeep
<1>5. CASE ReadFinish(t, Result("done", off[t], 0))
  <2>1. IoMoves(t) /\ pc'[t] = "done"
    <3>1. Result("done", off[t], 0) \in IoResults /\ Result("done", off[t], 0).kind = "done"
      <4> HIDE DEF n
      <4>1. off[t] \in Int /\ 0 \in Int
        BY <1>2
      <4> QED BY <4>1, IoResultTypes
    <3> HIDE DEF n
    <3> QED BY <1>1, <1>3, <1>5, <3>1, FinishMoves DEF ReadFinish, IoInv
  <2>2. IoOthers
    BY <1>3, <1>5, InfernoIoAssumption DEF ReadFinish, IoOthers, IoInv, IoTypes
  <2>3. DiscExclusive'
    BY <1>1, <1>3, <2>1, InfernoIoAssumption DEF DiscExclusive, IoInv, IoMoves
  <2>4. \A u \in Threads \ {t} : idx'[u] = idx[u] /\ off'[u] = off[u] /\ got'[u] = got[u]
    BY <1>5 DEF ReadFinish, IoInv, IoTypes
  <2> QED BY <1>1, <1>3, <2>1, <2>2, <2>3, <2>4, MovesKeep
<1> QED BY <1>4, <1>5 DEF DiscDelivers

LEMMA DiscFailsKeeps ==
    ASSUME IoInv, NEW t \in Threads, DiscFails(t)
    PROVE  IoInv'
<1>1. pc[t] = "reading" /\ call[t].op = "read" /\ sema = t
  BY DEF DiscFails, IoInv, IoPhases, DiscExclusive
<1>2. UNCHANGED <<slots, alive, fslot, owner>> /\ sema' = NoThread
  BY DEF DiscFails
<1>3. IoMoves(t) /\ pc'[t] = "done"
  BY <1>1, <1>2, FinishMoves, IoResultTypes DEF DiscFails, ReadFinish, IoInv
<1>4. IoOthers
  BY <1>2, InfernoIoAssumption DEF DiscFails, ReadFinish, IoOthers, IoInv, IoTypes
<1>5. DiscExclusive'
  BY <1>1, <1>2, <1>3, InfernoIoAssumption DEF DiscExclusive, IoInv, IoMoves
<1>6. \A u \in Threads \ {t} : idx'[u] = idx[u] /\ off'[u] = off[u] /\ got'[u] = got[u]
  BY DEF DiscFails, ReadFinish, IoInv, IoTypes
<1> QED BY <1>1, <1>2, <1>3, <1>4, <1>5, <1>6, MovesKeep

\* The position advances by what was read from it: it stays on the disc.
LEMMA AdvanceKeeps ==
    ASSUME IoInv, NEW t \in Threads, Advance(t)
    PROVE  IoInv'
<1> DEFINE to == Unsigned(slots[idx[t]].offset + got[t])
<1>1. pc[t] = "advance" /\ call[t].op = "read"
  BY DEF Advance, IoInv, IoPhases
<1>2. UNCHANGED <<sema, alive, fslot, owner>> /\ slots' = [slots EXCEPT ![idx[t]].offset = to]
  BY DEF Advance
<1>3. IoMoves(t) /\ pc'[t] = "done"
  <2>1. off[t] \in Int /\ got[t] \in Int
    BY InfernoIoAssumption DEF IoInv, IoTypes
  <2> QED BY <1>1, <1>2, <2>1, FinishMoves, IoResultTypes DEF Advance, ReadFinish, IoInv
<1>4. \A s \in Slot : slots[s].offset \in 0 .. Width - 1 /\ slots[s].enabled \in BOOLEAN
  BY DEF IoInv, IoTypes
<1>5. got[t] \in 0 .. Total
  BY DEF IoInv, IoTypes
<1>6. idx[t] \in Slot => to \in 0 .. Width - 1
  BY <1>4, <1>5, UnsignedType, InfernoIoAssumption
<1>7. ~Shared => idx[t] = SlotOf(t) /\ IsOpen(call[t].file) /\ to <= Total
  <2>1. SUFFICES ASSUME ~Shared PROVE idx[t] = SlotOf(t) /\ IsOpen(call[t].file) /\ to <= Total
    OBVIOUS
  <2>2. idx[t] = SlotOf(t) /\ off[t] = slots[SlotOf(t)].offset /\ off[t] + got[t] <= Total
    BY <1>1, <2>1 DEF IoInv, IoAlone, SlotOf
  <2>3. IsOpen(call[t].file) /\ SlotOf(t) \in Slot
    BY <1>1, CallOpen DEF IoInv
  <2>4. slots[idx[t]].offset + got[t] \in 0 .. Width - 1
    BY <1>4, <1>5, <2>2, <2>3, InfernoIoAssumption
  <2> QED BY <2>2, <2>3, <2>4, UnsignedType, InfernoIoAssumption
<1> HIDE DEF to
<1>8. \A s \in Slot : /\ slots'[s].enabled = slots[s].enabled
                      /\ s # idx[t] => slots'[s] = slots[s]
                      /\ s = idx[t] => slots'[s].offset = to
  BY <1>2, <1>4 DEF IoInv, IoTypes
<1>9. IoOthers
  <2>1. slots' \in [Slot -> [enabled : BOOLEAN, offset : 0 .. Width - 1]]
    BY <1>2, <1>6 DEF IoInv, IoTypes
  <2> QED BY <1>2, <2>1, InfernoIoAssumption DEF Advance, ReadFinish, IoOthers, IoInv, IoTypes
<1>10. DiscExclusive'
  BY <1>1, <1>2, <1>3 DEF DiscExclusive, IoInv, IoMoves
<1>11. \A u \in Threads \ {t} : idx'[u] = idx[u] /\ off'[u] = off[u] /\ got'[u] = got[u]
  BY DEF Advance, ReadFinish, IoInv, IoTypes
<1> QED BY <1>1, <1>2, <1>3, <1>7, <1>8, <1>9, <1>10, <1>11, MovesKeep

\* A deleted semaphore changes no slot and no file.
LEMMA IoExitKeeps ==
    ASSUME IoInv, IoExit
    PROVE  IoInv'
<1>1. UNCHANGED <<slots, sema, fslot, owner, call, pc, idx, off, got>> /\ alive' = FALSE
  BY DEF IoExit, locals
<1>2. IoTypes'
  BY <1>1 DEF IoInv, IoTypes
<1>3. DiscExclusive' /\ IoPhases' /\ IoCalls'
  BY <1>1 DEF IoInv, DiscExclusive, IoPhases, IoCalls, Pending, Result
<1>4. \A f \in Files : IsOpen(f)' <=> IsOpen(f)
  BY <1>1 DEF IsOpen, Pending, Result
<1>5. IoSlots'
  BY <1>1, <1>4 DEF IoInv, IoSlots
<1>6. IoAlone'
  BY <1>1, <1>4 DEF IoInv, IoAlone
<1> QED BY <1>2, <1>3, <1>5, <1>6 DEF IoInv

LEMMA IoInit == Init => IoInv
<1> SUFFICES ASSUME Init PROVE IoInv
  OBVIOUS
<1>1. NoCall \in IoCallRecord
  <2>1. Pending \in IoResults /\ "none" \in IoOps /\ "set" \in {"set", "cur", "end", "other"}
    BY IoResultTypes DEF IoOps
  <2> QED BY <2>1 DEF NoCall, IoCallRecord
<1>2. IoTypes
  BY <1>1, InfernoIoAssumption DEF Init, IoTypes, IoPcs, Waits
<1>3. \A t \in Threads : pc[t] = "idle" /\ call[t] = NoCall
  BY DEF Init
<1>4. \A f \in Files : fslot[f] = NoSlot /\ owner[f] = NoThread
  BY DEF Init
<1>5. DiscExclusive
  BY <1>3, InfernoIoAssumption DEF DiscExclusive, Init
<1>6. IoPhases
  BY <1>3 DEF IoPhases, NoCall, Waits
<1>7. IoCalls
  BY <1>3, <1>4 DEF IoCalls, NoCall
<1>8. IoSlots
  BY <1>4 DEF Init, IoSlots, IsOpen
<1>9. IoAlone
  BY <1>3, <1>4 DEF IoAlone, IsOpen
<1> QED BY <1>2, <1>5, <1>6, <1>7, <1>8, <1>9 DEF IoInv

-----------------------------------------------------------------------------
(* The steps that open, close and free files                               *)

\* The file that IoOpen gives a slot to is open from then on, and has the slot alone.
LEMMA OpenSlotKeeps ==
    ASSUME IoInv, NEW t \in Threads, OpenSlot(t)
    PROVE  IoInv'
<1>0. PICK f \in Files : call[t].file = f
  BY DEF OpenSlot, IoInv, IoTypes, IoPhases, IoCallRecord
<1>1. PICK s \in Slot :
          /\ ~slots[s].enabled
          /\ slots' = [slots EXCEPT ![s] = [enabled |-> TRUE, offset |-> 0]]
          /\ fslot' = [fslot EXCEPT ![f] = s]
  BY <1>0 DEF OpenSlot
<1>2. pc[t] = "open" /\ call[t].op = "open" /\ fslot[f] = NoSlot /\ alive
      /\ call[t].res = Pending
  BY <1>0 DEF OpenSlot, SemaFree, IoInv, IoTypes, IoPhases, IoCalls, IoCallRecord
<1>3. UNCHANGED <<sema, alive, owner, idx, off, got>>
  BY DEF OpenSlot, locals
<1>4. Done(0) \in IoResults /\ Done(0).kind = "done"
  BY DEF IoResults, Done, Result
<1>5. /\ pc' \in [Threads -> IoPcs] /\ pc'[t] = "done"
      /\ \A u \in Threads \ {t} : pc'[u] = pc[u] /\ call'[u] = call[u]
  BY DEF OpenSlot, Finish, Goto, IoInv, IoTypes, IoPcs
<1>6. /\ call' \in [Threads -> IoCallRecord] /\ call'[t].res = Done(0)
      /\ call'[t].op = "open" /\ call'[t].file = f
  <2>1. call[t] \in IoCallRecord
    BY DEF IoInv, IoTypes
  <2>2. call' = [call EXCEPT ![t] = [call[t] EXCEPT !.res = Done(0)]]
    BY DEF OpenSlot, Finish
  <2>3. [call[t] EXCEPT !.res = Done(0)] \in IoCallRecord
    BY <1>4, <2>1 DEF IoCallRecord
  <2>4. call' \in [Threads -> IoCallRecord] /\ call'[t] = [call[t] EXCEPT !.res = Done(0)]
    BY <2>2, <2>3 DEF IoInv, IoTypes
  <2> QED BY <1>0, <1>2, <2>1, <2>4 DEF IoCallRecord
<1>7. s # NoSlot /\ s \in Int
  BY InfernoIoAssumption DEF Slot, NoSlot
<1>8. fslot'[f] = s /\ \A g \in Files \ {f} : fslot'[g] = fslot[g]
  BY <1>1, <1>2 DEF IoInv, IoTypes
<1>9. /\ slots'[s].enabled = TRUE /\ slots'[s].offset = 0
      /\ \A r \in Slot \ {s} : slots'[r] = slots[r]
  BY <1>1 DEF IoInv, IoTypes
<1>10. \A u \in Threads \ {t} : call[u].file # f
  BY <1>0, <1>2 DEF IoInv, IoCalls
<1>11. IoTypes'
  <2>1. slots' \in [Slot -> [enabled : BOOLEAN, offset : 0 .. Width - 1]]
    BY <1>1, InfernoIoAssumption DEF IoInv, IoTypes
  <2>2. fslot' \in [Files -> Slot \cup {NoSlot}]
    BY <1>1, <1>2 DEF IoInv, IoTypes
  <2> QED BY <1>3, <1>5, <1>6, <2>1, <2>2 DEF IoInv, IoTypes
<1>12. DiscExclusive'
  BY <1>2, <1>3, <1>5 DEF IoInv, DiscExclusive
<1>13. IoPhases'
  <2> SUFFICES ASSUME NEW u \in Threads
               PROVE  /\ pc'[u] = "idle" <=> call'[u].file = NoFile
                      /\ pc'[u] = "idle" <=> call'[u].op = "none"
                      /\ pc'[u] \in {"open", "close", "tell"} => call'[u].op = pc'[u]
                      /\ pc'[u] \in {"seek", "sought"} => call'[u].op = "seek"
                      /\ pc'[u] \in {"read", "disc", "reading", "advance"} => call'[u].op = "read"
                      /\ pc'[u] # "done" => call'[u].res = Pending
                      /\ pc'[u] = "done" => call'[u].res.kind # "pending"
                      /\ call'[u].op = "read" => call'[u].n >= 0
    BY DEF IoPhases, Pending, Result
  <2>1. CASE u # t
    BY <1>5, <2>1 DEF IoInv, IoPhases
  <2>2. CASE u = t
    BY <1>2, <1>4, <1>5, <1>6, <2>2, InfernoIoAssumption
  <2> QED BY <2>1, <2>2
<1>14. IoCalls'
  <2>1. \A v, u \in Threads :
           call'[v].file = call'[u].file /\ call'[v].op \in {"open", "close"} => v = u
    BY <1>2, <1>5, <1>6, <1>10 DEF IoInv, IoCalls
  <2>2. ASSUME NEW u \in Threads, pc'[u] # "idle"
        PROVE  /\ owner'[call'[u].file] # NoThread
               /\ (fslot'[call'[u].file] = NoSlot) <=>
                      (call'[u].op = "open" /\ (pc'[u] = "open" \/ call'[u].res.kind # "done"))
    <3>1. CASE u = t
      BY <1>0, <1>2, <1>3, <1>4, <1>5, <1>6, <1>7, <1>8, <3>1 DEF IoInv, IoCalls
    <3>2. CASE u # t
      <4>1. call'[u] = call[u] /\ pc'[u] = pc[u] /\ call[u].file \in Files \ {f}
        BY <1>5, <1>10, <2>2, <3>2 DEF IoInv, IoTypes, IoPhases, IoCallRecord
      <4> QED BY <1>3, <1>8, <2>2, <4>1 DEF IoInv, IoCalls
    <3> QED BY <3>1, <3>2
  <2>3. ASSUME NEW g \in Files
        PROVE  IF owner'[g] = NoThread THEN fslot'[g] = NoSlot
               ELSE fslot'[g] = NoSlot => \E u \in Threads : call'[u].file = g /\ call'[u].op = "open"
    <3>1. CASE g = f
      <4>1. owner[f] # NoThread
        BY <1>0, <1>2 DEF IoInv, IoCalls
      <4> QED BY <1>3, <1>7, <1>8, <3>1, <4>1
    <3>2. CASE g # f
      <4>1. fslot'[g] = fslot[g] /\ owner'[g] = owner[g]
        BY <1>3, <1>8, <3>2
      <4>2. \A u \in Threads : call[u].file = g => call'[u] = call[u]
        BY <1>0, <1>5, <3>2
      <4> QED BY <4>1, <4>2 DEF IoInv, IoCalls
    <3> QED BY <3>1, <3>2
  <2> QED BY <2>1, <2>2, <2>3 DEF IoCalls
<1>15. IsOpen(f)'
  BY <1>2, <1>5, <1>6, <1>7, <1>8, <1>10 DEF IsOpen, Pending, Result
<1>16. \A g \in Files \ {f} : IsOpen(g)' <=> IsOpen(g)
  BY <1>0, <1>5, <1>6, <1>8 DEF IsOpen, Pending, Result
<1>17. ~IsOpen(f) /\ \A g \in Files : IsOpen(g) => fslot[g] \in Slot \ {s}
  BY <1>1, <1>2 DEF IoInv, IoTypes, IoSlots, IsOpen
<1>18. IoSlots'
  <2>1. \A g \in Files : IsOpen(g)' => slots'[fslot'[g]].enabled
    BY <1>8, <1>9, <1>16, <1>17 DEF IoInv, IoSlots
  <2>2. \A g, h \in Files : IsOpen(g)' /\ IsOpen(h)' /\ fslot'[g] = fslot'[h] => g = h
    BY <1>8, <1>16, <1>17 DEF IoInv, IoSlots
  <2>3. ASSUME NEW r \in Slot, slots'[r].enabled PROVE \E g \in Files : IsOpen(g)' /\ fslot'[g] = r
    <3>1. CASE r = s
      BY <1>8, <1>15, <3>1
    <3>2. CASE r # s
      <4>1. PICK g \in Files : IsOpen(g) /\ fslot[g] = r
        BY <1>2, <1>9, <2>3, <3>2 DEF IoInv, IoSlots
      <4> QED BY <1>8, <1>16, <1>17, <4>1
    <3> QED BY <3>1, <3>2
  <2> QED BY <2>1, <2>2, <2>3 DEF IoSlots
<1>19. IoAlone'
  <2> SUFFICES ASSUME ~Shared
               PROVE  /\ \A u \in Threads : pc'[u] # "idle" => owner'[call'[u].file] = u
                      /\ \A g \in Files : IsOpen(g)' => slots'[fslot'[g]].offset <= Total
                      /\ \A u \in Threads :
                            pc'[u] \in {"disc", "reading", "advance"} =>
                                /\ idx'[u] = fslot'[call'[u].file]
                                /\ off'[u] = slots'[fslot'[call'[u].file]].offset
                                /\ pc'[u] = "advance" => off'[u] + got'[u] <= Total
    BY DEF IoAlone
  <2>1. \A u \in Threads : pc'[u] # "idle" => owner'[call'[u].file] = u
    BY <1>0, <1>2, <1>3, <1>5, <1>6 DEF IoInv, IoAlone
  <2>2. ASSUME NEW g \in Files, IsOpen(g)' PROVE slots'[fslot'[g]].offset <= Total
    <3>1. CASE g = f
      BY <1>8, <1>9, <3>1, InfernoIoAssumption
    <3>2. CASE g # f
      BY <1>8, <1>9, <1>16, <1>17, <2>2, <3>2 DEF IoInv, IoAlone
    <3> QED BY <3>1, <3>2
  <2>3. ASSUME NEW u \in Threads, pc'[u] \in {"disc", "reading", "advance"}
        PROVE  /\ idx'[u] = fslot'[call'[u].file]
               /\ off'[u] = slots'[fslot'[call'[u].file]].offset
               /\ pc'[u] = "advance" => off'[u] + got'[u] <= Total
    <3>1. u # t /\ pc[u] = pc'[u] /\ call'[u] = call[u]
      BY <1>5, <2>3
    <3>2. call[u].file \in Files \ {f} /\ IsOpen(call[u].file)
      BY <1>10, <2>3, <3>1, CallOpen DEF IoInv, IoPhases
    <3>3. fslot'[call'[u].file] = fslot[call[u].file] /\ fslot[call[u].file] \in Slot \ {s}
      BY <1>8, <1>17, <3>1, <3>2
    <3> QED BY <1>3, <1>9, <2>3, <3>1, <3>2, <3>3 DEF IoInv, IoAlone
  <2> QED BY <2>1, <2>2, <2>3
<1> QED BY <1>11, <1>12, <1>13, <1>14, <1>18, <1>19 DEF IoInv

\* The file that IoClose takes the slot of is no longer open.
LEMMA CloseKeeps ==
    ASSUME IoInv, NEW t \in Threads, Close(t)
    PROVE  IoInv'
<1>1. pc[t] = "close" /\ call[t].op = "close" /\ alive
  BY DEF Close, SemaFree, IoInv, IoPhases
<1>2. PICK f \in Files : call[t].file = f /\ IsOpen(f) /\ SlotOf(t) = fslot[f] /\ fslot[f] \in Slot
  BY <1>1, CallOpen DEF IoInv, SlotOf
<1>3. PICK r \in {Done(0), Failed} : Finish(t, r)
  BY DEF Close
<1>4. r \in IoResults /\ r.kind # "pending"
  <2>1. Done(0) \in IoResults /\ Done(0).kind # "pending"
    BY DEF IoResults, Done, Result
  <2>2. Failed \in IoResults /\ Failed.kind # "pending"
    BY IoResultTypes
  <2> QED BY <1>3, <2>1, <2>2
<1>5. UNCHANGED <<sema, alive, fslot, owner, idx, off, got>>
  BY DEF Close, locals
<1>6. IoMoves(t) /\ pc'[t] = "done" /\ call'[t].res = r
  BY <1>1, <1>3, <1>4, <1>5, FinishMoves DEF IoInv
<1>7. /\ slots'[fslot[f]].enabled = FALSE /\ slots'[fslot[f]].offset = slots[fslot[f]].offset
      /\ \A s \in Slot \ {fslot[f]} : slots'[s] = slots[s]
      /\ slots' \in [Slot -> [enabled : BOOLEAN, offset : 0 .. Width - 1]]
  <2>1. slots' = [slots EXCEPT ![fslot[f]].enabled = FALSE]
    BY <1>2 DEF Close
  <2> QED BY <1>2, <2>1 DEF IoInv, IoTypes
<1>8. IoTypes'
  BY <1>5, <1>6, <1>7 DEF IoInv, IoTypes, IoMoves
<1>9. DiscExclusive'
  BY <1>1, <1>5, <1>6 DEF IoInv, DiscExclusive, IoMoves
<1>10. IoPhases' /\ IoCalls'
  BY <1>1, <1>6, MovesPhases, MovesCalls DEF IoInv
<1>11. /\ \A g \in Files : IsOpen(g)' => IsOpen(g)
       /\ \A g \in Files \ {f} : IsOpen(g) => IsOpen(g)'
  BY <1>2, <1>6, MovesOpen DEF IoInv
<1>12. ~IsOpen(f)'
  <2>1. call'[t].file = f /\ call'[t].op = "close" /\ call'[t].res # Pending
    BY <1>1, <1>2, <1>4, <1>6, IoResultTypes DEF IoMoves
  <2> QED BY <2>1 DEF IsOpen, Pending, Result
<1>13. IoSlots'
  <2>1. ASSUME NEW g \in Files, IsOpen(g)' PROVE slots'[fslot'[g]].enabled
    <3>1. IsOpen(g) /\ g # f
      BY <1>11, <1>12, <2>1
    <3>2. fslot[g] \in Slot \ {fslot[f]}
      BY <1>2, <3>1 DEF IoInv, IoSlots, IoTypes, IsOpen
    <3> QED BY <1>5, <1>7, <3>1, <3>2 DEF IoInv, IoSlots
  <2>2. \A g, h \in Files : IsOpen(g)' /\ IsOpen(h)' /\ fslot'[g] = fslot'[h] => g = h
    BY <1>5, <1>11 DEF IoInv, IoSlots
  <2>3. ASSUME NEW s \in Slot, slots'[s].enabled PROVE \E g \in Files : IsOpen(g)' /\ fslot'[g] = s
    <3>1. s # fslot[f] /\ slots[s].enabled
      BY <1>7, <2>3
    <3>2. PICK g \in Files : IsOpen(g) /\ fslot[g] = s
      BY <1>1, <3>1 DEF IoInv, IoSlots
    <3> QED BY <1>5, <1>11, <3>1, <3>2
  <2> QED BY <2>1, <2>2, <2>3 DEF IoSlots
<1>14. IoAlone'
  <2>1. \A s \in Slot : slots'[s].offset = slots[s].offset
    BY <1>7
  <2> QED BY <1>5, <1>6, <1>11, <2>1, AloneKept DEF IoInv
<1> QED BY <1>8, <1>9, <1>10, <1>13, <1>14 DEF IoInv

\* The kernel frees a file that is not open any more.
LEMMA ReturnKeeps ==
    ASSUME IoInv, NEW t \in Threads, Return(t)
    PROVE  IoInv'
<1> DEFINE freed == \/ call[t].op = "close"
                    \/ call[t].op = "open" /\ call[t].res.kind # "done"
<1>1. PICK f \in Files : call[t].file = f
  BY DEF Return, IoInv, IoTypes, IoPhases, IoCallRecord
<1>2. pc[t] = "done" /\ call[t].res.kind # "pending"
  BY DEF Return, IoInv, IoPhases
<1>3. UNCHANGED <<slots, sema, alive, idx, off, got>>
  BY DEF Return, locals
<1>4. NoCall \in IoCallRecord
  <2>1. Pending \in IoResults /\ "none" \in IoOps /\ "set" \in {"set", "cur", "end", "other"}
    BY IoResultTypes DEF IoOps
  <2> QED BY <2>1 DEF NoCall, IoCallRecord
<1>5. /\ pc' \in [Threads -> IoPcs] /\ call' \in [Threads -> IoCallRecord]
      /\ pc'[t] = "idle" /\ call'[t] = NoCall
      /\ \A u \in Threads \ {t} : pc'[u] = pc[u] /\ call'[u] = call[u]
  BY <1>4 DEF Return, Goto, IoInv, IoTypes, IoPcs
<1>6. /\ owner' = IF freed THEN [owner EXCEPT ![f] = NoThread] ELSE owner
      /\ fslot' = IF freed THEN [fslot EXCEPT ![f] = NoSlot] ELSE fslot
  BY <1>1 DEF Return
<1>7. freed => \A u \in Threads \ {t} : call[u].file # f
  BY <1>1 DEF IoInv, IoCalls
<1>8. freed => ~IsOpen(f)
  <2>1. call[t].op = "close" => call[t].res # Pending
    BY <1>2, IoResultTypes
  <2>2. call[t].op = "open" /\ call[t].res.kind # "done" => fslot[f] = NoSlot
    BY <1>1, <1>2 DEF IoInv, IoCalls
  <2> QED BY <1>1, <2>1, <2>2 DEF IsOpen
<1>9. call[t].op = "open" /\ ~freed => fslot[f] # NoSlot
  BY <1>1, <1>2 DEF IoInv, IoCalls
<1> HIDE DEF freed
<1>10. /\ owner' \in [Files -> Threads \cup {NoThread}] /\ fslot' \in [Files -> Slot \cup {NoSlot}]
       /\ \A g \in Files \ {f} : owner'[g] = owner[g] /\ fslot'[g] = fslot[g]
       /\ freed => owner'[f] = NoThread /\ fslot'[f] = NoSlot
       /\ ~freed => owner' = owner /\ fslot' = fslot
  BY <1>6 DEF IoInv, IoTypes
<1>11. \A g \in Files : IsOpen(g)' <=> IsOpen(g)
  <2> SUFFICES ASSUME NEW g \in Files PROVE IsOpen(g)' <=> IsOpen(g)
    OBVIOUS
  <2>1. CASE g = f /\ freed
    BY <1>8, <1>10, <2>1 DEF IsOpen
  <2>2. CASE g # f \/ ~freed
    <3>1. fslot'[g] = fslot[g]
      BY <1>10, <2>2
    <3>2. ~(call[t].file = g /\ call[t].op = "close")
      BY <1>1, <2>2 DEF freed
    <3>3. call'[t].op # "close"
      BY <1>5 DEF NoCall
    <3> QED BY <1>5, <3>1, <3>2, <3>3 DEF IsOpen, Pending, Result
  <2> QED BY <2>1, <2>2
<1>12. IoTypes'
  BY <1>3, <1>5, <1>10 DEF IoInv, IoTypes
<1>13. DiscExclusive'
  BY <1>2, <1>3, <1>5 DEF IoInv, DiscExclusive
<1>14. IoPhases'
  <2> SUFFICES ASSUME NEW u \in Threads
               PROVE  /\ pc'[u] = "idle" <=> call'[u].file = NoFile
                      /\ pc'[u] = "idle" <=> call'[u].op = "none"
                      /\ pc'[u] \in {"open", "close", "tell"} => call'[u].op = pc'[u]
                      /\ pc'[u] \in {"seek", "sought"} => call'[u].op = "seek"
                      /\ pc'[u] \in {"read", "disc", "reading", "advance"} => call'[u].op = "read"
                      /\ pc'[u] # "done" => call'[u].res = Pending
                      /\ pc'[u] = "done" => call'[u].res.kind # "pending"
                      /\ call'[u].op = "read" => call'[u].n >= 0
    BY DEF IoPhases, Pending, Result
  <2>1. CASE u # t
    BY <1>5, <2>1 DEF IoInv, IoPhases
  <2>2. CASE u = t
    BY <1>5, <2>2 DEF NoCall
  <2> QED BY <2>1, <2>2
<1>15. IoCalls'
  <2>1. \A v, u \in Threads :
           call'[v].file = call'[u].file /\ call'[v].op \in {"open", "close"} => v = u
    <3>1. call'[t].op = "none" /\ call'[t].file = NoFile
      BY <1>5 DEF NoCall
    <3>2. \A v \in Threads : call[v].op \in {"open", "close"} => call[v].file # NoFile
      BY DEF IoInv, IoPhases
    <3> QED BY <1>5, <3>1, <3>2 DEF IoInv, IoCalls
  <2>2. ASSUME NEW u \in Threads, pc'[u] # "idle"
        PROVE  /\ owner'[call'[u].file] # NoThread
               /\ (fslot'[call'[u].file] = NoSlot) <=>
                      (call'[u].op = "open" /\ (pc'[u] = "open" \/ call'[u].res.kind # "done"))
    <3>1. u # t /\ pc'[u] = pc[u] /\ call'[u] = call[u]
      BY <1>5, <2>2
    <3>2. call[u].file \in Files
      BY <2>2, <3>1 DEF IoInv, IoTypes, IoPhases, IoCallRecord
    <3>3. owner'[call[u].file] = owner[call[u].file] /\ fslot'[call[u].file] = fslot[call[u].file]
      BY <1>7, <1>10, <3>1, <3>2
    <3> QED BY <2>2, <3>1, <3>3 DEF IoInv, IoCalls
  <2>3. ASSUME NEW g \in Files
        PROVE  IF owner'[g] = NoThread THEN fslot'[g] = NoSlot
               ELSE fslot'[g] = NoSlot => \E u \in Threads : call'[u].file = g /\ call'[u].op = "open"
    <3>1. CASE g = f /\ freed
      BY <1>10, <3>1
    <3>2. CASE g # f \/ ~freed
      <4>1. owner'[g] = owner[g] /\ fslot'[g] = fslot[g]
        BY <1>10, <3>2
      <4>2. fslot[g] = NoSlot => ~(call[t].file = g /\ call[t].op = "open")
        BY <1>1, <1>9, <3>2
      <4> QED BY <1>5, <4>1, <4>2 DEF IoInv, IoCalls
    <3> QED BY <3>1, <3>2
  <2> QED BY <2>1, <2>2, <2>3 DEF IoCalls
<1>16. \A g \in Files : IsOpen(g) => fslot'[g] = fslot[g]
  BY <1>8, <1>10
<1>17. IoSlots'
  BY <1>3, <1>11, <1>16 DEF IoInv, IoSlots
<1>18. IoAlone'
  <2> SUFFICES ASSUME ~Shared
               PROVE  /\ \A u \in Threads : pc'[u] # "idle" => owner'[call'[u].file] = u
                      /\ \A g \in Files : IsOpen(g)' => slots'[fslot'[g]].offset <= Total
                      /\ \A u \in Threads :
                            pc'[u] \in {"disc", "reading", "advance"} =>
                                /\ idx'[u] = fslot'[call'[u].file]
                                /\ off'[u] = slots'[fslot'[call'[u].file]].offset
                                /\ pc'[u] = "advance" => off'[u] + got'[u] <= Total
    BY DEF IoAlone
  <2>1. ASSUME NEW u \in Threads, pc'[u] # "idle"
        PROVE  /\ pc[u] = pc'[u] /\ call'[u] = call[u]
               /\ owner'[call[u].file] = owner[call[u].file]
               /\ fslot'[call[u].file] = fslot[call[u].file]
    <3>1. u # t /\ pc'[u] = pc[u] /\ call'[u] = call[u]
      BY <1>5, <2>1
    <3>2. call[u].file \in Files
      BY <2>1, <3>1 DEF IoInv, IoTypes, IoPhases, IoCallRecord
    <3> QED BY <1>7, <1>10, <3>1, <3>2
  <2>2. \A u \in Threads : pc'[u] # "idle" => owner'[call'[u].file] = u
    BY <2>1 DEF IoInv, IoAlone
  <2>3. \A g \in Files : IsOpen(g)' => slots'[fslot'[g]].offset <= Total
    BY <1>3, <1>11, <1>16 DEF IoInv, IoAlone
  <2>4. ASSUME NEW u \in Threads, pc'[u] \in {"disc", "reading", "advance"}
        PROVE  /\ idx'[u] = fslot'[call'[u].file]
               /\ off'[u] = slots'[fslot'[call'[u].file]].offset
               /\ pc'[u] = "advance" => off'[u] + got'[u] <= Total
    BY <1>3, <2>1, <2>4 DEF IoInv, IoAlone
  <2> QED BY <2>2, <2>3, <2>4
<1> QED BY <1>12, <1>13, <1>14, <1>15, <1>17, <1>18 DEF IoInv

\* The kernel gives a call a file that is free, or open and not about to be closed.
LEMMA BeginKeeps ==
    ASSUME IoInv, NEW t \in Threads, NEW c \in Calls, NEW f \in Files, Begin(t, c, f)
    PROVE  IoInv'
<1> DEFINE new == [op |-> c.op, file |-> f, n |-> c.n, whence |-> c.whence, res |-> Pending]
<1>1. /\ c.op \in {"open", "read", "seek", "tell", "close"} /\ c.n \in Int
      /\ c.whence \in {"set", "cur", "end", "other"} /\ (c.op = "read" => c.n >= 0)
  BY InfernoIoAssumption
<1>2. new \in IoCallRecord /\ new.op = c.op /\ new.file = f /\ new.n = c.n /\ new.res = Pending
  BY <1>1, IoResultTypes DEF IoCallRecord, IoOps
<1>3. call' = [call EXCEPT ![t] = new] /\ pc' = [pc EXCEPT ![t] = c.op] /\ pc[t] = "idle"
  BY DEF Begin, Goto
<1> HIDE DEF new
<1>4. /\ call' \in [Threads -> IoCallRecord] /\ pc' \in [Threads -> IoPcs]
      /\ call'[t] = new /\ pc'[t] = c.op
      /\ \A u \in Threads \ {t} : call'[u] = call[u] /\ pc'[u] = pc[u]
  BY <1>1, <1>2, <1>3 DEF IoInv, IoTypes, IoPcs, Waits
<1>5. UNCHANGED <<slots, sema, alive, fslot, idx, off, got>>
  BY DEF Begin, locals
<1>6. f # NoFile /\ NoThread \notin Threads
  BY InfernoIoAssumption
<1>7. /\ owner' \in [Files -> Threads \cup {NoThread}]
      /\ \A g \in Files \ {f} : owner'[g] = owner[g]
      /\ owner'[f] # NoThread
      /\ c.op # "open" => owner' = owner /\ MayUse(t, f)
      /\ c.op = "open" => owner[f] = NoThread /\ owner'[f] = t
  BY <1>6 DEF Begin, MayUse, IoInv, IoTypes
<1>8. \A u \in Threads \ {t} : call[u].file = f =>
          /\ c.op \notin {"open", "close"} /\ call[u].op \notin {"open", "close"}
  <2> SUFFICES ASSUME NEW u \in Threads \ {t}, call[u].file = f
               PROVE  c.op \notin {"open", "close"} /\ call[u].op \notin {"open", "close"}
    OBVIOUS
  <2>1. pc[u] # "idle" /\ owner[f] # NoThread
    BY <1>6 DEF IoInv, IoPhases, IoCalls
  <2> QED BY <1>1, <1>7, <2>1 DEF Begin, InUse, Closing
<1>9. c.op = "open" <=> fslot[f] = NoSlot
  <2>1. CASE c.op = "open"
    BY <1>7, <2>1 DEF IoInv, IoCalls
  <2>2. CASE c.op # "open"
    <3>1. owner[f] # NoThread
      BY <1>7, <2>2
    <3>2. \A u \in Threads : ~(call[u].file = f /\ call[u].op = "open")
      BY <1>3, <1>6, <1>8 DEF IoInv, IoPhases
    <3> QED BY <2>2, <3>1, <3>2 DEF IoInv, IoCalls
  <2> QED BY <2>1, <2>2
<1>10. call[t].file = NoFile
  BY <1>3 DEF IoInv, IoPhases
<1>11. \A g \in Files : IsOpen(g)' <=> IsOpen(g)
  <2> SUFFICES ASSUME NEW g \in Files PROVE IsOpen(g)' <=> IsOpen(g)
    OBVIOUS
  <2>1. call[t].file # g /\ call'[t].res = Pending
    BY <1>2, <1>4, <1>10, InfernoIoAssumption
  <2> QED BY <1>4, <1>5, <2>1 DEF IsOpen, Pending, Result
<1>12. IoTypes'
  BY <1>4, <1>5, <1>7 DEF IoInv, IoTypes
<1>13. DiscExclusive'
  BY <1>1, <1>3, <1>4, <1>5 DEF IoInv, DiscExclusive
<1>14. IoPhases'
  <2> SUFFICES ASSUME NEW u \in Threads
               PROVE  /\ pc'[u] = "idle" <=> call'[u].file = NoFile
                      /\ pc'[u] = "idle" <=> call'[u].op = "none"
                      /\ pc'[u] \in {"open", "close", "tell"} => call'[u].op = pc'[u]
                      /\ pc'[u] \in {"seek", "sought"} => call'[u].op = "seek"
                      /\ pc'[u] \in {"read", "disc", "reading", "advance"} => call'[u].op = "read"
                      /\ pc'[u] # "done" => call'[u].res = Pending
                      /\ pc'[u] = "done" => call'[u].res.kind # "pending"
                      /\ call'[u].op = "read" => call'[u].n >= 0
    BY DEF IoPhases, Pending, Result
  <2>1. CASE u # t
    BY <1>4, <2>1 DEF IoInv, IoPhases
  <2>2. CASE u = t
    BY <1>1, <1>2, <1>4, <1>6, <2>2
  <2> QED BY <2>1, <2>2
<1>15. IoCalls'
  <2>1. ASSUME NEW v \in Threads, NEW u \in Threads, call'[v].file = call'[u].file,
               call'[v].op \in {"open", "close"}
        PROVE  v = u
    <3>1. CASE v # t /\ u # t
      BY <1>4, <2>1, <3>1 DEF IoInv, IoCalls
    <3>2. CASE v = t /\ u # t
      BY <1>2, <1>4, <1>8, <2>1, <3>2
    <3>3. CASE v # t /\ u = t
      BY <1>2, <1>4, <1>8, <2>1, <3>3
    <3> QED BY <3>1, <3>2, <3>3
  <2>2. ASSUME NEW u \in Threads, pc'[u] # "idle"
        PROVE  /\ owner'[call'[u].file] # NoThread
               /\ (fslot'[call'[u].file] = NoSlot) <=>
                      (call'[u].op = "open" /\ (pc'[u] = "open" \/ call'[u].res.kind # "done"))
    <3>1. CASE u = t
      <4>1. call'[u].res.kind = "pending"
        BY <1>2, <1>4, <3>1, IoResultTypes
      <4> QED BY <1>2, <1>4, <1>5, <1>7, <1>9, <3>1, <4>1
    <3>2. CASE u # t
      <4>1. call'[u] = call[u] /\ pc'[u] = pc[u]
        BY <1>4, <3>2
      <4>2. call[u].file \in Files
        BY <2>2, <4>1 DEF IoInv, IoTypes, IoPhases, IoCallRecord
      <4>3. owner'[call[u].file] # NoThread
        BY <1>7, <2>2, <4>1, <4>2 DEF IoInv, IoCalls
      <4> QED BY <1>5, <2>2, <4>1, <4>3 DEF IoInv, IoCalls
    <3> QED BY <3>1, <3>2
  <2>3. ASSUME NEW g \in Files
        PROVE  IF owner'[g] = NoThread THEN fslot'[g] = NoSlot
               ELSE fslot'[g] = NoSlot => \E u \in Threads : call'[u].file = g /\ call'[u].op = "open"
    <3>1. CASE g = f
      BY <1>2, <1>4, <1>5, <1>7, <1>9, <3>1
    <3>2. CASE g # f
      <4>1. owner'[g] = owner[g] /\ fslot'[g] = fslot[g]
        BY <1>5, <1>7, <3>2
      <4>2. \A u \in Threads : call[u].file = g => call'[u] = call[u]
        BY <1>4, <1>10, InfernoIoAssumption
      <4> QED BY <4>1, <4>2 DEF IoInv, IoCalls
    <3> QED BY <3>1, <3>2
  <2> QED BY <2>1, <2>2, <2>3 DEF IoCalls
<1>16. IoSlots'
  BY <1>5, <1>11 DEF IoInv, IoSlots
<1>17. IoAlone'
  <2> SUFFICES ASSUME ~Shared
               PROVE  /\ \A u \in Threads : pc'[u] # "idle" => owner'[call'[u].file] = u
                      /\ \A g \in Files : IsOpen(g)' => slots'[fslot'[g]].offset <= Total
                      /\ \A u \in Threads :
                            pc'[u] \in {"disc", "reading", "advance"} =>
                                /\ idx'[u] = fslot'[call'[u].file]
                                /\ off'[u] = slots'[fslot'[call'[u].file]].offset
                                /\ pc'[u] = "advance" => off'[u] + got'[u] <= Total
    BY DEF IoAlone
  <2>1. owner'[f] = t
    BY <1>7 DEF MayUse
  <2>2. ASSUME NEW u \in Threads, pc'[u] # "idle" PROVE owner'[call'[u].file] = u
    <3>1. CASE u = t
      BY <1>2, <1>4, <2>1, <3>1
    <3>2. CASE u # t
      <4>1. pc[u] # "idle" /\ call'[u] = call[u]
        BY <1>4, <2>2, <3>2
      <4>2. call[u].file \in Files /\ owner[call[u].file] = u
        BY <4>1 DEF IoInv, IoTypes, IoPhases, IoCallRecord, IoAlone
      <4>3. call[u].file = f => c.op # "open"
        BY <1>8, <3>2
      <4> QED BY <1>7, <4>1, <4>2, <4>3
    <3> QED BY <3>1, <3>2
  <2>3. \A g \in Files : IsOpen(g)' => slots'[fslot'[g]].offset <= Total
    BY <1>5, <1>11 DEF IoInv, IoAlone
  <2>4. ASSUME NEW u \in Threads, pc'[u] \in {"disc", "reading", "advance"}
        PROVE  /\ idx'[u] = fslot'[call'[u].file]
               /\ off'[u] = slots'[fslot'[call'[u].file]].offset
               /\ pc'[u] = "advance" => off'[u] + got'[u] <= Total
    <3>1. pc[u] = pc'[u] /\ call'[u] = call[u]
      BY <1>1, <1>4, <2>4
    <3> QED BY <1>5, <2>4, <3>1 DEF IoInv, IoAlone
  <2> QED BY <2>2, <2>3, <2>4
<1> QED BY <1>12, <1>13, <1>14, <1>15, <1>16, <1>17 DEF IoInv

-----------------------------------------------------------------------------
(* The theorems                                                            *)

LEMMA IoNext == IoInv /\ [Next]_vars => IoInv'
<1> SUFFICES ASSUME IoInv, [Next]_vars PROVE IoInv'
  OBVIOUS
<1>1. ASSUME NEW t \in Threads, Step(t) PROVE IoInv'
  BY <1>1, WaitSemaFailsKeeps, OpenSlotKeeps, OpenFullKeeps, CloseKeeps, TellKeeps, SeekKeeps,
     ReadOffsetKeeps, TakeDiscKeeps, DiscDeliversKeeps, DiscFailsKeeps, AdvanceKeeps, ReturnKeeps
     DEF Step
<1>2. ASSUME NEW t \in Threads, NEW c \in Calls, NEW f \in Files, Begin(t, c, f) PROVE IoInv'
  BY <1>2, BeginKeeps
<1>3. CASE IoExit
  BY <1>3, IoExitKeeps
<1>4. CASE UNCHANGED vars
  <2>1. \A f \in Files : IsOpen(f)' <=> IsOpen(f)
    BY <1>4 DEF vars, IsOpen, Pending, Result
  <2>2. UNCHANGED <<slots, sema, alive, fslot, owner, call, pc, idx, off, got>>
    BY <1>4 DEF vars
  <2>3. IoTypes' /\ DiscExclusive' /\ IoPhases' /\ IoCalls'
    BY <2>2 DEF IoInv, IoTypes, DiscExclusive, IoPhases, IoCalls, Pending, Result
  <2>4. IoSlots' /\ IoAlone'
    BY <2>1, <2>2 DEF IoInv, IoSlots, IoAlone
  <2> QED BY <2>3, <2>4 DEF IoInv
<1> QED BY <1>1, <1>2, <1>3, <1>4 DEF Next

\* The invariant holds in every behaviour of the driver.
THEOREM IoInvHolds == Spec => []IoInv
<1> QED BY IoInit, IoNext, PTL DEF Spec

\* Every variable keeps its type.
THEOREM IoTypeCorrect == Spec => []TypeOK
<1>1. IoInv => TypeOK
  <2> SUFFICES ASSUME IoInv PROVE TypeOK
    OBVIOUS
  <2>1. \A t \in Threads : call[t] \in IoCallRecord
    BY DEF IoInv, IoTypes
  <2> QED BY <2>1 DEF IoInv, IoTypes, IoCallRecord, IoOps, IoPcs, TypeOK
<1> QED BY <1>1, IoInvHolds, PTL

\* One thread at a time reads the disc, the one that has the semaphore.
THEOREM DiscExclusiveTheorem == Spec => []DiscExclusive
<1>1. IoInv => DiscExclusive
  BY DEF IoInv
<1> QED BY <1>1, IoInvHolds, PTL

\* The slots in use are those of the open files, one for each.
THEOREM SlotsMatchFilesTheorem == Spec => []SlotsMatchFiles
<1>1. IoInv => SlotsMatchFiles
  <2> SUFFICES ASSUME IoInv PROVE SlotsMatchFiles
    OBVIOUS
  <2>1. \A f \in Files : IsOpen(f) => fslot[f] \in Slot
    BY DEF IoInv, IoTypes, IsOpen
  <2>2. alive => {s \in Slot : slots[s].enabled} = {fslot[f] : f \in {g \in Files : IsOpen(g)}}
    BY <2>1 DEF IoInv, IoSlots
  <2> QED BY <2>2 DEF IoInv, IoSlots, SlotsMatchFiles
<1> QED BY <1>1, IoInvHolds, PTL

\* The position of a file that one thread uses never leaves the disc.
THEOREM OffsetOnDiscTheorem == Spec => []OffsetOnDisc
<1>1. IoInv => OffsetOnDisc
  BY DEF IoInv, IoAlone, OffsetOnDisc
<1> QED BY <1>1, IoInvHolds, PTL

-----------------------------------------------------------------------------
(* How far readers of one file can push its position                       *)

N == Cardinality(Threads)

\* What a read in progress may still add to the position of its file: what there
\* was from its copy of the position, then what it has got.
Ahead == [t \in Threads |->
            IF pc[t] \in {"disc", "reading"} THEN IF off[t] < Total THEN Total - off[t] ELSE 0
            ELSE IF pc[t] = "advance" THEN got[t] ELSE 0]

Readers(f) == {t \in Threads : call[t].file = f /\ Ahead[t] > 0}

\* With a reader ahead of a file, the position it leads to is on the disc of as many
\* Totals as there are threads that are not ahead, and it.  The sum of what all the
\* readers may add is never needed.
Room(o, R, a) ==
    IF R = {} THEN o <= Total * N
    ELSE \E t \in R : o + a[t] <= Total * (N - Cardinality(R) + 1)

OffsetOf(f) == slots[fslot[f]].offset

RoomInv ==
    /\ \A t \in Threads : pc[t] \in {"disc", "reading", "advance"} => idx[t] = SlotOf(t)
    /\ \A f \in Files : IsOpen(f) => Room(OffsetOf(f), Readers(f), Ahead)

LEMMA Times ==
    /\ \A j \in Nat : Total * j \in Nat /\ Total * (j + 1) = Total * j + Total
    /\ \A j, k \in Nat : j <= k => Total * j <= Total * k
<1>1. Total \in Nat
  BY InfernoIoAssumption
<1>2. \A j \in Nat : Total * j \in Nat /\ Total * (j + 1) = Total * j + Total
  BY <1>1
<1>3. ASSUME NEW j \in Nat, NEW k \in Nat, j <= k PROVE Total * j <= Total * k
  <2>1. PICK d \in Nat : k = j + d
    <3>1. k - j \in Nat /\ k = j + (k - j)
      BY <1>3
    <3> QED BY <3>1
  <2>2. Total * k = Total * j + Total * d /\ Total * d \in Nat /\ Total * j \in Nat
    BY <1>1, <2>1
  <2> QED BY <2>2
<1> QED BY <1>2, <1>3

\* A reader that is done makes room for what it has added.
LEMMA RoomShrinks ==
    ASSUME IsFiniteSet(Threads), NEW R \in SUBSET Threads, NEW t \in R,
           NEW a \in [Threads -> 0 .. Total], NEW b \in [Threads -> 0 .. Total],
           NEW o \in Nat, NEW p \in Nat, Room(o, R, a), p <= o + a[t],
           \A u \in R \ {t} : b[u] = a[u]
    PROVE  Room(p, R \ {t}, b)
<1> DEFINE m == Cardinality(R)
           S == R \ {t}
<1>1. IsFiniteSet(R) /\ m \in Nat /\ N \in Nat /\ m <= N /\ m >= 1
  BY FS_Subset, FS_CardinalityType, FS_EmptySet DEF N
<1>2. IsFiniteSet(S) /\ Cardinality(S) = m - 1
  BY <1>1, FS_RemoveElement
<1>3. Total \in Nat
  BY InfernoIoAssumption
<1>4. PICK w \in R : o + a[w] <= Total * (N - m + 1)
  BY DEF Room
<1>5. CASE S = {}
  <2>1. m = 1 /\ w = t
    BY <1>2, <1>5, FS_EmptySet, <1>1
  <2>2. o + a[w] <= Total * N
    BY <1>1, <1>4, <2>1
  <2>3. Total * N \in Int
    BY <1>1, Times
  <2> QED BY <1>5, <2>1, <2>2, <2>3 DEF Room
<1>6. CASE S # {}
  <2> DEFINE k == N - m + 1
  <2>1. k \in Nat /\ N - (m - 1) + 1 = k + 1
    BY <1>1
  <2>2. Total * k \in Nat /\ Total * (k + 1) = Total * k + Total
    BY <2>1, Times
  <2>3. \E u \in S : p + b[u] <= Total * k + Total
    <3>1. CASE w = t
      <4>1. PICK u \in S : TRUE
        BY <1>6
      <4>2. b[u] \in 0 .. Total
        OBVIOUS
      <4> HIDE DEF k
      <4> QED BY <1>3, <1>4, <2>2, <3>1, <4>1, <4>2 DEF k
    <3>2. CASE w # t
      <4>1. b[w] = a[w] /\ w \in S /\ a[w] \in 0 .. Total /\ a[t] \in 0 .. Total
        BY <3>2
      <4>2. o + a[w] <= Total * k
        BY <1>4
      <4> HIDE DEF k
      <4> QED BY <1>3, <2>2, <4>1, <4>2
    <3> QED BY <3>1, <3>2
  <2> HIDE DEF k
  <2> QED BY <1>2, <1>6, <2>1, <2>2, <2>3 DEF Room
<1> QED BY <1>5, <1>6

\* Readers that add no more than they would have keep the room.
LEMMA RoomKept ==
    ASSUME IsFiniteSet(Threads), NEW R \in SUBSET Threads,
           NEW a \in [Threads -> 0 .. Total], NEW b \in [Threads -> 0 .. Total],
           NEW o \in Nat, NEW p \in Nat, Room(o, R, a), p <= o, \A u \in R : b[u] <= a[u]
    PROVE  Room(p, R, b)
<1>1. IsFiniteSet(R) /\ Cardinality(R) \in Nat /\ N \in Nat /\ Cardinality(R) <= N
  BY FS_Subset, FS_CardinalityType DEF N
<1>2. Total \in Nat /\ Total * N \in Nat /\ Total * (N - Cardinality(R) + 1) \in Int
  <2>1. N - Cardinality(R) + 1 \in Nat
    BY <1>1
  <2> QED BY <1>1, <2>1, Times, InfernoIoAssumption
<1>3. CASE R = {}
  BY <1>2, <1>3 DEF Room
<1>4. CASE R # {}
  <2>1. PICK w \in R : o + a[w] <= Total * (N - Cardinality(R) + 1)
    BY <1>4 DEF Room
  <2>2. p + b[w] <= Total * (N - Cardinality(R) + 1)
    BY <1>2, <2>1
  <2> QED BY <1>4, <2>2 DEF Room
<1> QED BY <1>3, <1>4

\* There is room when a reader's own position is on the disc, ...
LEMMA RoomOfReader ==
    ASSUME IsFiniteSet(Threads), NEW R \in SUBSET Threads, NEW t \in R,
           NEW a \in [Threads -> 0 .. Total], NEW o \in Nat, o + a[t] <= Total
    PROVE  Room(o, R, a)
<1>1. IsFiniteSet(R) /\ Cardinality(R) \in Nat /\ N \in Nat /\ Cardinality(R) <= N
  BY FS_Subset, FS_CardinalityType DEF N
<1> DEFINE k == N - Cardinality(R)
<1>2. k \in Nat /\ N - Cardinality(R) + 1 = k + 1
  BY <1>1
<1>3. Total * k \in Nat /\ Total * (k + 1) = Total * k + Total /\ Total \in Nat
  BY <1>2, Times, InfernoIoAssumption
<1>4. o + a[t] <= Total * (N - Cardinality(R) + 1)
  <2> HIDE DEF k
  <2> QED BY <1>2, <1>3
<1> QED BY <1>4 DEF Room

\* ... and when the position is, and one thread is not ahead.
LEMMA RoomOnDisc ==
    ASSUME IsFiniteSet(Threads), NEW t \in Threads, NEW R \in SUBSET (Threads \ {t}),
           NEW a \in [Threads -> 0 .. Total], NEW o \in Nat, o <= Total
    PROVE  Room(o, R, a)
<1>1. N \in Nat /\ N >= 1 /\ IsFiniteSet(Threads \ {t}) /\ Cardinality(Threads \ {t}) = N - 1
  BY FS_RemoveElement, FS_CardinalityType, FS_EmptySet DEF N
<1>2. IsFiniteSet(R) /\ Cardinality(R) \in Nat /\ Cardinality(R) <= N - 1
  BY <1>1, FS_Subset, FS_CardinalityType
<1> DEFINE k == N - 1 - Cardinality(R)
<1>3. k \in Nat /\ N - Cardinality(R) + 1 = (k + 1) + 1
  BY <1>1, <1>2
<1>4. /\ Total * k \in Nat /\ Total * (k + 1) = Total * k + Total /\ Total \in Nat
      /\ Total * ((k + 1) + 1) = Total * (k + 1) + Total
  <2> HIDE DEF k
  <2>1. k + 1 \in Nat
    BY <1>3
  <2> QED BY <1>3, <2>1, Times, InfernoIoAssumption
<1>5. o <= Total * N
  <2>1. N - 1 \in Nat /\ (N - 1) + 1 = N
    BY <1>1
  <2>2. Total * N = Total * (N - 1) + Total /\ Total * (N - 1) \in Nat
    BY <2>1, Times
  <2> QED BY <1>4, <2>2
<1>6. \A w \in R : o + a[w] <= Total * (N - Cardinality(R) + 1)
  <2> HIDE DEF k
  <2> TAKE w \in R
  <2>1. a[w] \in 0 .. Total
    OBVIOUS
  <2>2. Total * (k + 1) \in Nat /\ Total * (k + 1) >= Total
    BY <1>4
  <2> QED BY <1>3, <1>4, <2>1, <2>2
<1> QED BY <1>5, <1>6 DEF Room

-----------------------------------------------------------------------------
(* The steps                                                               *)

\* A step of one thread leaves the other threads where they are.
LEMMA StepFrame ==
    ASSUME IoTypes, NEW t \in Threads, Step(t) \/ \E c \in Calls, f \in Files : Begin(t, c, f)
    PROVE  \A u \in Threads \ {t} : /\ call'[u] = call[u] /\ pc'[u] = pc[u]
                                    /\ idx'[u] = idx[u] /\ off'[u] = off[u] /\ got'[u] = got[u]
<1> USE DEF IoTypes, Goto, Finish, ReadFinish, locals
<1>1. CASE \/ WaitSemaFails(t) \/ OpenSlot(t) \/ OpenFull(t) \/ OpenFails(t) \/ Close(t)
           \/ Tell(t) \/ Seek(t) \/ SeekUnknown(t) \/ SeekReturns(t)
  BY <1>1 DEF WaitSemaFails, OpenSlot, OpenFull, OpenFails, Close, Tell, Seek, SeekUnknown, SeekReturns
<1>2. CASE \/ ReadOffset(t) \/ TakeDisc(t) \/ DiscDelivers(t) \/ DiscFails(t) \/ Advance(t)
           \/ Return(t)
  BY <1>2 DEF ReadOffset, TakeDisc, DiscDelivers, DiscFails, Advance, Return
<1>3. CASE \E c \in Calls, f \in Files : Begin(t, c, f)
  BY <1>3 DEF Begin
<1> QED BY <1>1, <1>2, <1>3 DEF Step

\* What a step of t must do for the file f to keep its room.
LEMMA FileKeepsRoom ==
    ASSUME IsFiniteSet(Threads), IoTypes, IoTypes', NEW t \in Threads,
           \A u \in Threads \ {t} : /\ call'[u] = call[u] /\ pc'[u] = pc[u]
                                    /\ off'[u] = off[u] /\ got'[u] = got[u],
           NEW f \in Files, fslot'[f] \in Slot,
           \/ /\ fslot[f] \in Slot /\ Room(OffsetOf(f), Readers(f), Ahead)
              /\ IF t \in Readers(f)'
                 THEN t \in Readers(f) /\ Ahead'[t] <= Ahead[t] /\ OffsetOf(f)' <= OffsetOf(f)
                 ELSE OffsetOf(f)' <= OffsetOf(f) + (IF t \in Readers(f) THEN Ahead[t] ELSE 0)
           \/ OffsetOf(f)' <= Total /\ t \notin Readers(f)'
           \/ OffsetOf(f)' + Ahead'[t] <= Total /\ t \in Readers(f)'
    PROVE  Room(OffsetOf(f), Readers(f), Ahead)'
<1>1. Ahead \in [Threads -> 0 .. Total] /\ Ahead' \in [Threads -> 0 .. Total]
  BY InfernoIoAssumption DEF IoTypes, Ahead
<1>2. \A u \in Threads \ {t} : Ahead'[u] = Ahead[u] /\ (u \in Readers(f)' <=> u \in Readers(f))
  BY DEF Ahead, Readers
<1>3. OffsetOf(f)' \in Nat /\ (fslot[f] \in Slot => OffsetOf(f) \in Nat)
  BY InfernoIoAssumption DEF OffsetOf, IoTypes
<1>4. Readers(f) \in SUBSET Threads /\ Readers(f)' \in SUBSET Threads
  BY DEF Readers
<1>5. Room(OffsetOf(f)', Readers(f)', Ahead')
  <2>1. CASE OffsetOf(f)' <= Total /\ t \notin Readers(f)'
    <3>1. Readers(f)' \in SUBSET (Threads \ {t})
      BY <1>4, <2>1
    <3> QED BY <1>1, <1>3, <2>1, <3>1, RoomOnDisc
  <2>2. CASE OffsetOf(f)' + Ahead'[t] <= Total /\ t \in Readers(f)'
    BY <1>1, <1>3, <1>4, <2>2, RoomOfReader
  <2>3. CASE /\ fslot[f] \in Slot /\ Room(OffsetOf(f), Readers(f), Ahead)
             /\ t \in Readers(f)' /\ t \in Readers(f)
             /\ Ahead'[t] <= Ahead[t] /\ OffsetOf(f)' <= OffsetOf(f)
    <3>1. Readers(f)' = Readers(f)
      BY <1>2, <1>4, <2>3
    <3>2. \A u \in Readers(f) : Ahead'[u] <= Ahead[u]
      <4> SUFFICES ASSUME NEW u \in Readers(f) PROVE Ahead'[u] <= Ahead[u]
        OBVIOUS
      <4>1. Ahead[u] \in 0 .. Total /\ (u # t => Ahead'[u] = Ahead[u])
        BY <1>1, <1>2, <1>4
      <4> QED BY <2>3, <4>1
    <3> QED BY <1>1, <1>3, <1>4, <2>3, <3>1, <3>2, RoomKept
  <2>4. CASE /\ fslot[f] \in Slot /\ Room(OffsetOf(f), Readers(f), Ahead)
             /\ t \notin Readers(f)' /\ t \in Readers(f)
             /\ OffsetOf(f)' <= OffsetOf(f) + Ahead[t]
    <3>1. Readers(f)' = Readers(f) \ {t}
      BY <1>2, <1>4, <2>4
    <3>2. \A u \in Readers(f) \ {t} : Ahead'[u] = Ahead[u]
      BY <1>2, <1>4
    <3> QED BY <1>1, <1>3, <1>4, <2>4, <3>1, <3>2, RoomShrinks
  <2>5. CASE /\ fslot[f] \in Slot /\ Room(OffsetOf(f), Readers(f), Ahead)
             /\ t \notin Readers(f)' /\ t \notin Readers(f) /\ OffsetOf(f)' <= OffsetOf(f) + 0
    <3>1. Readers(f)' = Readers(f)
      <4>1. \A u \in Threads : u \in Readers(f)' <=> u \in Readers(f)
        BY <1>2, <2>5
      <4> QED BY <1>4, <4>1
    <3>2. \A u \in Readers(f) : Ahead'[u] <= Ahead[u]
      <4> SUFFICES ASSUME NEW u \in Readers(f) PROVE Ahead'[u] <= Ahead[u]
        OBVIOUS
      <4>1. Ahead[u] \in 0 .. Total /\ u # t /\ Ahead'[u] = Ahead[u]
        BY <1>1, <1>2, <1>4, <2>5
      <4> QED BY <4>1
    <3>3. OffsetOf(f)' <= OffsetOf(f)
      BY <1>3, <2>5
    <3> QED BY <1>1, <1>3, <1>4, <2>5, <3>1, <3>2, <3>3, RoomKept
  <2> QED BY <2>1, <2>2, <2>3, <2>4, <2>5
<1> QED
  BY <1>5 DEF Room

\* A file that is read after a step is open then.
LEMMA ReaderOpens ==
    ASSUME IoInv', NEW u \in Threads, pc'[u] \in {"disc", "reading", "advance"},
           call'[u].file \in Files
    PROVE  IsOpen(call[u].file)'
<1>1. fslot'[call'[u].file] # NoSlot
  BY DEF IoInv, IoPhases, IoCalls
<1>2. \A v \in Threads :
         call'[v].file = call'[u].file /\ call'[v].op = "close" => call'[v].res = Pending
  BY DEF IoInv, IoPhases, IoCalls
<1> QED BY <1>1, <1>2 DEF IsOpen, Pending, Result

\* The steps that move no position and put no thread at the disc.
LEMMA QuietRooms ==
    ASSUME IsFiniteSet(Threads), IoInv, IoInv', RoomInv, NEW t \in Threads,
           Step(t) \/ \E c \in Calls, f \in Files : Begin(t, c, f),
           \A s \in Slot : slots'[s].offset = slots[s].offset,
           \A f \in Files : IsOpen(f)' => IsOpen(f) /\ fslot'[f] = fslot[f],
           \A f \in Files : t \in Readers(f)' => t \in Readers(f) /\ Ahead'[t] <= Ahead[t],
           pc'[t] \in {"disc", "reading", "advance"} =>
               /\ pc[t] \in {"disc", "reading", "advance"}
               /\ idx'[t] = idx[t] /\ call'[t] = call[t] /\ fslot' = fslot
    PROVE  RoomInv'
<1>1. \A u \in Threads \ {t} : /\ call'[u] = call[u] /\ pc'[u] = pc[u]
                               /\ idx'[u] = idx[u] /\ off'[u] = off[u] /\ got'[u] = got[u]
  BY StepFrame DEF IoInv
<1>2. ASSUME NEW f \in Files, IsOpen(f)'
      PROVE  Room(OffsetOf(f), Readers(f), Ahead)'
  <2>1. fslot[f] \in Slot /\ fslot'[f] = fslot[f] /\ Room(OffsetOf(f), Readers(f), Ahead)
    BY <1>2 DEF RoomInv, IsOpen, IoInv, IoTypes
  <2>2. OffsetOf(f)' = OffsetOf(f) /\ OffsetOf(f) \in Nat
    BY <2>1, InfernoIoAssumption DEF OffsetOf, IoInv, IoTypes
  <2>3. Ahead[t] \in Nat
    BY InfernoIoAssumption DEF Ahead, IoInv, IoTypes
  <2> QED BY <1>1, <2>1, <2>2, <2>3, FileKeepsRoom DEF IoInv
<1>3. ASSUME NEW u \in Threads, pc'[u] \in {"disc", "reading", "advance"}
      PROVE  idx'[u] = SlotOf(u)'
  <2>1. pc[u] \in {"disc", "reading", "advance"} /\ idx'[u] = idx[u] /\ call'[u] = call[u]
    BY <1>1, <1>3
  <2>2. call[u].file \in Files /\ IsOpen(call[u].file)
    BY <2>1, CallOpen DEF IoInv, IoPhases
  <2>3. fslot'[call[u].file] = fslot[call[u].file]
    BY <1>3, <2>1, <2>2, ReaderOpens
  <2> QED BY <2>1, <2>3 DEF RoomInv, SlotOf
<1> QED BY <1>2, <1>3 DEF RoomInv

\* A call that ends, and one that is not a read, adds nothing.
LEMMA NothingAhead ==
    ASSUME NEW t \in Threads, pc'[t] \notin {"disc", "reading", "advance"}
    PROVE  \A f \in Files : t \notin Readers(f)'
  BY DEF Readers, Ahead

\* Handlers that end without moving a position: files may close, none opens.
LEMMA EndsKeepRooms ==
    ASSUME IsFiniteSet(Threads), IoInv, IoInv', RoomInv, NEW t \in Threads,
           \/ WaitSemaFails(t) \/ OpenFull(t) \/ OpenFails(t) \/ Close(t) \/ Tell(t)
           \/ SeekUnknown(t) \/ SeekReturns(t) \/ DiscFails(t) \/ Return(t)
           \/ \E c \in Calls, f \in Files : Begin(t, c, f)
    PROVE  RoomInv'
<1>1. pc'[t] \notin {"disc", "reading", "advance"}
  <2> USE DEF IoInv, IoTypes, Finish, ReadFinish, Goto
  <2>1. CASE \/ WaitSemaFails(t) \/ OpenFull(t) \/ OpenFails(t) \/ Close(t) \/ Tell(t)
             \/ SeekUnknown(t) \/ SeekReturns(t) \/ DiscFails(t) \/ Return(t)
    BY <2>1 DEF WaitSemaFails, OpenFull, OpenFails, Close, Tell, SeekUnknown, SeekReturns,
           DiscFails, Return
  <2>2. ASSUME NEW c \in Calls, NEW f \in Files, Begin(t, c, f)
        PROVE  pc'[t] \notin {"disc", "reading", "advance"}
    BY <2>2 DEF Begin
  <2> QED BY <2>1, <2>2
<1>2. \A s \in Slot : slots'[s].offset = slots[s].offset
  <2>1. CASE Close(t)
    <3>1. \A s \in Slot : slots[s] \in [enabled : BOOLEAN, offset : 0 .. Width - 1]
      BY DEF IoInv, IoTypes
    <3>2. slots' = [slots EXCEPT ![SlotOf(t)].enabled = FALSE]
      BY <2>1 DEF Close
    <3> QED BY <3>1, <3>2 DEF IoInv, IoTypes
  <2>2. CASE UNCHANGED slots
    BY <2>2
  <2> QED BY <2>1, <2>2 DEF WaitSemaFails, OpenFull, OpenFails, Tell, SeekUnknown, SeekReturns, DiscFails,
                            Return, Begin
<1>3. ASSUME NEW f \in Files, IsOpen(f)'
      PROVE  IsOpen(f) /\ fslot'[f] = fslot[f]
  <2>1. fslot'[f] = fslot[f]
    <3>1. CASE Return(t)
      BY <1>3, <3>1 DEF Return, IsOpen, IoInv, IoTypes
    <3>2. CASE UNCHANGED fslot
      BY <3>2
    <3> QED BY <3>1, <3>2 DEF WaitSemaFails, OpenFull, OpenFails, Close, Tell, SeekUnknown, SeekReturns,
                              DiscFails, Begin
  <2>2. ASSUME NEW u \in Threads, call[u].file = f, call[u].op = "close"
        PROVE  call[u].res = Pending
    <3>1. \A v \in Threads \ {t} : call'[v] = call[v]
      BY StepFrame DEF IoInv, Step
    <3>2. CASE u # t
      BY <1>3, <2>2, <3>1, <3>2 DEF IsOpen, Pending, Result
    <3>3. CASE u = t /\ pc[t] # "done"
      BY <2>2, <3>3 DEF IoInv, IoPhases
    <3>4. CASE u = t /\ pc[t] = "done"
      <4>1. Return(t)
        BY <2>2, <3>4 DEF WaitSemaFails, Waits, OpenFull, OpenFails, Close, Tell, SeekUnknown, SeekReturns,
                          DiscFails, Begin
      <4>2. fslot'[f] = NoSlot
        BY <2>2, <3>4, <4>1 DEF Return, IoInv, IoTypes
      <4> QED BY <1>3, <4>2 DEF IsOpen
    <3> QED BY <3>2, <3>3, <3>4
  <2>3. fslot[f] # NoSlot
    BY <1>3, <2>1 DEF IsOpen
  <2> QED BY <2>1, <2>2, <2>3 DEF IsOpen
<1>4. Step(t) \/ \E c \in Calls, f \in Files : Begin(t, c, f)
  BY DEF Step
<1> QED BY <1>1, <1>2, <1>3, <1>4, NothingAhead, QuietRooms

LEMMA TakeDiscKeepsRooms ==
    ASSUME IsFiniteSet(Threads), IoInv, IoInv', RoomInv, NEW t \in Threads, TakeDisc(t)
    PROVE  RoomInv'
<1>1. /\ UNCHANGED <<slots, fslot, call, idx, off, got>>
      /\ pc' = [pc EXCEPT ![t] = "reading"] /\ pc[t] = "disc"
  BY DEF TakeDisc, Goto, locals
<1>2. \A f \in Files : IsOpen(f)' => IsOpen(f)
  BY <1>1 DEF IsOpen, Pending, Result
<1>3. Ahead' = Ahead /\ \A f : Readers(f)' = Readers(f)
  <2>1. \A u \in Threads : pc'[u] = pc[u] \/ (pc[u] = "disc" /\ pc'[u] = "reading")
    BY <1>1 DEF IoInv, IoTypes
  <2>2. Ahead' = Ahead
    BY <1>1, <2>1 DEF Ahead
  <2> QED BY <1>1, <2>2 DEF Readers
<1>4. Ahead[t] \in Nat
  BY InfernoIoAssumption DEF Ahead, IoInv, IoTypes
<1>5. Ahead'[t] <= Ahead[t]
  BY <1>3, <1>4
<1>6. pc[t] \in {"disc", "reading", "advance"} /\ idx'[t] = idx[t] /\ call'[t] = call[t]
  BY <1>1
<1> QED BY <1>1, <1>2, <1>3, <1>5, <1>6, QuietRooms DEF Step

\* A read delivers no more than what there was from its copy of the position.
LEMMA DeliversNoMore ==
    ASSUME NEW p \in 0 .. Width - 1, NEW n \in Nat
    PROVE  Sectors(p, n) \in Nat /\ Sectors(p, n) <= IF p < Total THEN Total - p ELSE 0
<1>1. Sectors(p, n) \in 0 .. Total /\ (p <= Total => p + Sectors(p, n) <= Total)
  BY SectorsType
<1>2. p > Total => Sectors(p, n) = 0
  BY DEF Sectors
<1> QED BY <1>1, <1>2, InfernoIoAssumption

LEMMA DiscDeliversKeepsRooms ==
    ASSUME IsFiniteSet(Threads), IoInv, IoInv', RoomInv, NEW t \in Threads, DiscDelivers(t)
    PROVE  RoomInv'
<1> DEFINE n == Sectors(off[t], call[t].n)
<1>1. pc[t] = "reading" /\ UNCHANGED <<slots, fslot, owner>>
  BY DEF DiscDelivers
<1>2. n \in Nat /\ n <= Ahead[t] /\ Ahead[t] \in Nat
  <2>1. call[t].n \in Nat /\ off[t] \in 0 .. Width - 1
    BY <1>1 DEF IoInv, IoTypes, IoPhases, IoCallRecord
  <2>2. Ahead[t] = IF off[t] < Total THEN Total - off[t] ELSE 0
    BY <1>1 DEF Ahead
  <2>3. n \in Nat /\ n <= IF off[t] < Total THEN Total - off[t] ELSE 0
    BY <2>1, DeliversNoMore
  <2> HIDE DEF n
  <2> QED BY <2>1, <2>2, <2>3, InfernoIoAssumption
<1> HIDE DEF n
<1>3. CASE n > 0 /\ got' = [got EXCEPT ![t] = n] /\ Goto(t, "advance") /\ UNCHANGED <<call, idx, off>>
  <2>1. Ahead'[t] = n /\ pc'[t] = "advance"
    BY <1>1, <1>3 DEF Ahead, Goto, IoInv, IoTypes
  <2>2. \A f \in Files : t \in Readers(f)' => t \in Readers(f) /\ Ahead'[t] <= Ahead[t]
    BY <1>2, <1>3, <2>1 DEF Readers
  <2>3. \A f \in Files : IsOpen(f)' => IsOpen(f)
    BY <1>1, <1>3 DEF IsOpen, Pending, Result
  <2> QED BY <1>1, <1>3, <2>2, <2>3, QuietRooms DEF Step
<1>4. CASE n = 0 /\ ReadFinish(t, Result("done", off[t], 0))
  <2>1. pc'[t] = "done"
    BY <1>4 DEF ReadFinish, Finish, Goto, IoInv, IoTypes
  <2>2. IoMoves(t)
    <3>0. off[t] \in Int /\ 0 \in Int
      BY InfernoIoAssumption DEF IoInv, IoTypes
    <3>1. Result("done", off[t], 0) \in IoResults
      BY <3>0, IoResultTypes
    <3>2. Result("done", off[t], 0).kind # "pending"
      BY IoResultTypes
    <3> QED BY <1>1, <1>4, <3>1, <3>2, FinishMoves DEF ReadFinish, IoInv
  <2>3. \A f \in Files : IsOpen(f)' => IsOpen(f)
    BY <2>2, MovesOpen DEF IoInv
  <2>4. \A f \in Files : t \notin Readers(f)'
    BY <2>1, NothingAhead
  <2> QED BY <1>1, <2>1, <2>3, <2>4, QuietRooms DEF Step
<1> QED BY <1>3, <1>4 DEF DiscDelivers, n

\* A step of t within its call may move the position of its own file.
LEMMA OwnFileKeepsRooms ==
    ASSUME IsFiniteSet(Threads), IoInv, IoInv', RoomInv, NEW t \in Threads, Step(t), IoMoves(t),
           call[t].op \notin {"open", "close"},
           \A s \in Slot : s # SlotOf(t) => slots'[s].offset = slots[s].offset,
           pc'[t] \in {"disc", "reading", "advance"} => idx'[t] = SlotOf(t),
           LET f == call[t].file
           IN  \/ t \notin Readers(f)' /\ OffsetOf(f)' <= OffsetOf(f) + (IF t \in Readers(f) THEN Ahead[t] ELSE 0)
               \/ OffsetOf(f)' <= Total /\ t \notin Readers(f)'
               \/ OffsetOf(f)' + Ahead'[t] <= Total /\ t \in Readers(f)'
    PROVE  RoomInv'
<1>1. \A u \in Threads \ {t} : /\ call'[u] = call[u] /\ pc'[u] = pc[u]
                               /\ idx'[u] = idx[u] /\ off'[u] = off[u] /\ got'[u] = got[u]
  BY StepFrame DEF IoInv
<1>2. IsOpen(call[t].file) /\ SlotOf(t) \in Slot /\ call[t].file \in Files
  BY CallOpen DEF IoInv, IoMoves
<1>3. fslot' = fslot /\ \A u \in Threads : call'[u].file = call[u].file
  BY DEF IoMoves
<1>4. ASSUME NEW f \in Files, IsOpen(f)'
      PROVE  Room(OffsetOf(f), Readers(f), Ahead)'
  <2>1. IsOpen(f) /\ fslot[f] \in Slot /\ Room(OffsetOf(f), Readers(f), Ahead)
    BY <1>4, MovesOpen DEF RoomInv, IsOpen, IoInv, IoTypes
  <2>2. CASE f = call[t].file
    BY <1>1, <1>3, <2>1, <2>2, FileKeepsRoom DEF IoInv
  <2>3. CASE f # call[t].file
    <3>1. fslot[f] # SlotOf(t)
      BY <1>2, <2>1, <2>3 DEF IoInv, IoSlots, SlotOf
    <3>2. OffsetOf(f)' = OffsetOf(f) /\ OffsetOf(f) \in Nat
      BY <1>3, <2>1, <3>1, InfernoIoAssumption DEF OffsetOf, IoInv, IoTypes
    <3>3. t \notin Readers(f) /\ t \notin Readers(f)'
      BY <1>3, <2>3 DEF Readers
    <3>4. OffsetOf(f)' <= OffsetOf(f) + 0
      BY <3>2
    <3> QED BY <1>1, <1>3, <2>1, <3>3, <3>4, FileKeepsRoom DEF IoInv
  <2> QED BY <2>2, <2>3
<1>5. ASSUME NEW u \in Threads, pc'[u] \in {"disc", "reading", "advance"}
      PROVE  idx'[u] = SlotOf(u)'
  <2>1. CASE u = t
    BY <1>3, <1>5, <2>1 DEF SlotOf
  <2>2. CASE u # t
    BY <1>1, <1>3, <1>5, <2>2 DEF SlotOf, RoomInv
  <2> QED BY <2>1, <2>2
<1> QED BY <1>4, <1>5 DEF RoomInv

LEMMA SeekKeepsRooms ==
    ASSUME IsFiniteSet(Threads), IoInv, IoInv', RoomInv, NEW t \in Threads, Seek(t)
    PROVE  RoomInv'
<1>1. pc[t] = "seek" /\ call[t].op = "seek"
  BY DEF Seek, IoInv, IoPhases
<1>2. IoMoves(t) /\ pc'[t] = "sought"
  BY <1>1, GotoMoves DEF Seek, IoInv, IoPcs
<1>3. SlotOf(t) \in Slot
  BY <1>1, CallOpen DEF IoInv
<1>4. PICK x : slots' = [slots EXCEPT ![SlotOf(t)].offset = Clamp(x)]
  BY DEF Seek
<1>5. slots'[SlotOf(t)].offset = Clamp(x) /\ \A s \in Slot : s # SlotOf(t) => slots'[s] = slots[s]
  BY <1>3, <1>4 DEF IoInv, IoTypes
<1>6. slots'[SlotOf(t)].offset <= Total
  <2>1. Clamp(x) \in Nat
    BY <1>3, <1>5, InfernoIoAssumption DEF IoInv, IoTypes
  <2> QED BY <1>5, <2>1, InfernoIoAssumption DEF Clamp
<1>7. OffsetOf(call[t].file)' <= Total
  BY <1>2, <1>6 DEF IoMoves, OffsetOf, SlotOf
<1>8. t \notin Readers(call[t].file)'
  BY <1>2 DEF Readers, Ahead
<1> QED BY <1>1, <1>2, <1>5, <1>7, <1>8, OwnFileKeepsRooms DEF Step

\* The copy of the position is right when it is taken.
LEMMA ReadOffsetKeepsRooms ==
    ASSUME IsFiniteSet(Threads), IoInv, IoInv', RoomInv, NEW t \in Threads, ReadOffset(t)
    PROVE  RoomInv'
<1>1. pc[t] = "read" /\ call[t].op = "read"
  BY DEF ReadOffset, IoInv, IoPhases
<1>2. IoMoves(t) /\ pc'[t] = "disc"
  BY <1>1, GotoMoves DEF ReadOffset, IoInv, IoPcs, Waits
<1>3. SlotOf(t) \in Slot /\ call[t].file \in Files
  BY <1>1, CallOpen DEF IoInv
<1>4. UNCHANGED slots /\ idx'[t] = SlotOf(t) /\ off'[t] = slots[SlotOf(t)].offset
  BY DEF ReadOffset, IoInv, IoTypes
<1>5. Ahead'[t] = IF off'[t] < Total THEN Total - off'[t] ELSE 0
  BY <1>2 DEF Ahead
<1> DEFINE f == call[t].file
           o == OffsetOf(f)
<1>6. o' = o /\ off'[t] = o /\ o \in Nat
  BY <1>2, <1>3, <1>4, InfernoIoAssumption DEF IoMoves, OffsetOf, SlotOf, IoInv, IoTypes
<1>7. t \in Readers(f)' <=> Ahead'[t] > 0
  BY <1>2 DEF Readers, IoMoves
<1>8. t \notin Readers(f)
  BY <1>1 DEF Readers, Ahead
<1>9. \/ t \notin Readers(f)' /\ OffsetOf(f)' <= OffsetOf(f) + (IF t \in Readers(f) THEN Ahead[t] ELSE 0)
      \/ OffsetOf(f)' + Ahead'[t] <= Total /\ t \in Readers(f)'
  BY <1>5, <1>6, <1>7, <1>8, InfernoIoAssumption
<1> HIDE DEF f, o
<1> QED BY <1>1, <1>2, <1>4, <1>9, OwnFileKeepsRooms DEF Step, f

\* The position moves by what the reader was ahead, and no further.
LEMMA AdvanceKeepsRooms ==
    ASSUME IsFiniteSet(Threads), IoInv, IoInv', RoomInv, NEW t \in Threads, Advance(t)
    PROVE  RoomInv'
<1> DEFINE to == Unsigned(slots[idx[t]].offset + got[t])
<1>1. pc[t] = "advance" /\ call[t].op = "read"
  BY DEF Advance, IoInv, IoPhases
<1>2. UNCHANGED <<sema, alive, fslot, owner>> /\ slots' = [slots EXCEPT ![idx[t]].offset = to]
  BY DEF Advance
<1>3. IoMoves(t) /\ pc'[t] = "done"
  <2>1. off[t] \in Int /\ got[t] \in Int
    BY InfernoIoAssumption DEF IoInv, IoTypes
  <2> QED BY <1>1, <1>2, <2>1, FinishMoves, IoResultTypes DEF Advance, ReadFinish, IoInv
<1>4. SlotOf(t) \in Slot /\ call[t].file \in Files /\ idx[t] = SlotOf(t)
  BY <1>1, CallOpen DEF IoInv, RoomInv
<1>5. slots[idx[t]].offset \in Nat /\ got[t] \in Nat /\ got[t] = Ahead[t]
  BY <1>1, <1>4, InfernoIoAssumption DEF IoInv, IoTypes, Ahead
<1>6. to <= slots[idx[t]].offset + got[t]
  <2> DEFINE y == slots[idx[t]].offset + got[t]
  <2>1. y \in Nat
    BY <1>5
  <2> HIDE DEF y
  <2>2. Unsigned(y) <= y
    BY <2>1, InfernoIoAssumption DEF Unsigned
  <2> QED BY <2>2 DEF y
<1> HIDE DEF to
<1>7. slots'[SlotOf(t)].offset = to /\ \A s \in Slot : s # SlotOf(t) => slots'[s] = slots[s]
  BY <1>2, <1>4 DEF IoInv, IoTypes
<1> DEFINE f == call[t].file
<1>8. OffsetOf(f)' = to /\ OffsetOf(f) = slots[idx[t]].offset
  BY <1>2, <1>3, <1>4, <1>7 DEF OffsetOf, SlotOf, IoMoves
<1>9. t \notin Readers(f)'
  BY <1>3 DEF Readers, Ahead
<1>10. got[t] = IF t \in Readers(f) THEN Ahead[t] ELSE 0
  BY <1>5 DEF Readers
<1>11. OffsetOf(f)' <= OffsetOf(f) + (IF t \in Readers(f) THEN Ahead[t] ELSE 0)
  BY <1>6, <1>8, <1>10
<1> HIDE DEF f
<1> QED BY <1>1, <1>3, <1>7, <1>9, <1>11, OwnFileKeepsRooms DEF Step, f

\* A file is opened at position 0, in a slot no open file has.
LEMMA OpenSlotKeepsRooms ==
    ASSUME IsFiniteSet(Threads), IoInv, IoInv', RoomInv, NEW t \in Threads, OpenSlot(t)
    PROVE  RoomInv'
<1>1. pc[t] = "open" /\ call[t].op = "open" /\ call[t].file \in Files /\ call[t].res = Pending
  BY DEF OpenSlot, IoInv, IoTypes, IoPhases, IoCallRecord
<1> DEFINE f0 == call[t].file
<1>2. PICK s \in Slot : /\ ~slots[s].enabled
                        /\ slots' = [slots EXCEPT ![s] = [enabled |-> TRUE, offset |-> 0]]
                        /\ fslot' = [fslot EXCEPT ![call[t].file] = s]
  BY DEF OpenSlot
<1>3. \A u \in Threads \ {t} : /\ call'[u] = call[u] /\ pc'[u] = pc[u]
                               /\ idx'[u] = idx[u] /\ off'[u] = off[u] /\ got'[u] = got[u]
  BY StepFrame DEF IoInv, Step
<1>4. /\ fslot'[f0] = s /\ \A f \in Files : f # f0 => fslot'[f] = fslot[f]
      /\ slots'[s].offset = 0 /\ \A r \in Slot : r # s => slots'[r] = slots[r]
      /\ pc'[t] = "done"
  BY <1>1, <1>2 DEF OpenSlot, Finish, Goto, IoInv, IoTypes
<1>5. \A f \in Files : t \notin Readers(f)'
  BY <1>4, NothingAhead
<1>6. \A u \in Threads : u # t => call[u].file # f0
  BY <1>1 DEF IoInv, IoCalls
<1>7. ASSUME NEW f \in Files, IsOpen(f)'
      PROVE  Room(OffsetOf(f), Readers(f), Ahead)'
  <2>1. CASE f = f0
    <3>1. OffsetOf(f)' = 0 /\ fslot'[f] \in Slot
      BY <1>4, <2>1 DEF OffsetOf
    <3>2. OffsetOf(f)' <= Total
      BY <3>1, InfernoIoAssumption
    <3> QED BY <1>3, <1>5, <3>1, <3>2, FileKeepsRoom DEF IoInv
  <2>2. CASE f # f0
    <3>1. IsOpen(f)
      BY <1>3, <1>4, <1>7, <2>2 DEF IsOpen
    <3>2. fslot[f] \in Slot /\ fslot[f] # s /\ Room(OffsetOf(f), Readers(f), Ahead)
      BY <1>2, <3>1 DEF RoomInv, IsOpen, IoInv, IoTypes, IoSlots
    <3>3. OffsetOf(f)' = OffsetOf(f) /\ OffsetOf(f) \in Nat
      BY <1>4, <2>2, <3>2, InfernoIoAssumption DEF OffsetOf, IoInv, IoTypes
    <3>4. t \notin Readers(f)
      BY <1>1 DEF Readers, Ahead
    <3>5. OffsetOf(f)' <= OffsetOf(f) + 0 /\ fslot'[f] \in Slot
      BY <1>4, <2>2, <3>2, <3>3
    <3> QED BY <1>3, <1>5, <3>2, <3>4, <3>5, FileKeepsRoom DEF IoInv
  <2> QED BY <2>1, <2>2
<1>8. ASSUME NEW u \in Threads, pc'[u] \in {"disc", "reading", "advance"}
      PROVE  idx'[u] = SlotOf(u)'
  <2>1. u # t /\ pc[u] = pc'[u] /\ idx'[u] = idx[u] /\ call'[u] = call[u]
    BY <1>3, <1>4, <1>8
  <2>2. call[u].file \in Files /\ call[u].file # f0
    BY <1>6, <1>8, <2>1, CallOpen DEF IoInv, IoPhases
  <2> QED BY <1>4, <1>8, <2>1, <2>2 DEF SlotOf, RoomInv
<1> QED BY <1>7, <1>8 DEF RoomInv

LEMMA RoomInit == Init => RoomInv
  BY DEF Init, RoomInv, IsOpen

LEMMA RoomNext ==
    ASSUME IsFiniteSet(Threads), IoInv, IoInv', RoomInv, [Next]_vars
    PROVE  RoomInv'
<1>1. ASSUME NEW t \in Threads, Step(t)
      PROVE  RoomInv'
  <2>1. CASE \/ WaitSemaFails(t) \/ OpenFull(t) \/ OpenFails(t) \/ Close(t) \/ Tell(t)
             \/ SeekUnknown(t) \/ SeekReturns(t) \/ DiscFails(t) \/ Return(t)
    BY <2>1, EndsKeepRooms
  <2>2. CASE OpenSlot(t) \/ Seek(t) \/ ReadOffset(t)
    BY <2>2, OpenSlotKeepsRooms, SeekKeepsRooms, ReadOffsetKeepsRooms
  <2>3. CASE TakeDisc(t) \/ DiscDelivers(t) \/ Advance(t)
    BY <2>3, TakeDiscKeepsRooms, DiscDeliversKeepsRooms, AdvanceKeepsRooms
  <2> QED BY <1>1, <2>1, <2>2, <2>3 DEF Step
<1>2. ASSUME NEW t \in Threads, NEW c \in Calls, NEW f \in Files, Begin(t, c, f)
      PROVE  RoomInv'
  BY <1>2, EndsKeepRooms
<1>3. CASE IoExit \/ UNCHANGED vars
  <2>1. UNCHANGED <<slots, fslot, call, pc, idx, off, got>>
    BY <1>3 DEF IoExit, vars, locals
  <2>2. \A f \in Files : IsOpen(f)' <=> IsOpen(f)
    BY <2>1 DEF IsOpen, Pending, Result
  <2>3. Ahead' = Ahead /\ \A f : Readers(f)' = Readers(f) /\ OffsetOf(f)' = OffsetOf(f)
    BY <2>1 DEF Ahead, Readers, OffsetOf
  <2> QED BY <2>1, <2>2, <2>3 DEF RoomInv, Room, SlotOf
<1> QED BY <1>1, <1>2, <1>3 DEF Next

\* Threads that read one file at the same time can push its position past the end (they
\* copied the same position), by what all but one of them have read and not further:
\* OvershootBounded, for any finite number of threads and any disc.
THEOREM OvershootBoundedTheorem ==
    ASSUME IsFiniteSet(Threads)
    PROVE  Spec => []OvershootBounded
<1>1. ASSUME IoInv, RoomInv
      PROVE  OvershootBounded
  <2> SUFFICES ASSUME NEW f \in Files, IsOpen(f)
               PROVE  OffsetOf(f) <= Total + (N - 1) * Total
    BY DEF OvershootBounded, OffsetOf, N
  <2>1. fslot[f] \in Slot /\ fslot[f] # NoSlot /\ owner[f] \in Threads
    BY <1>1 DEF IsOpen, IoInv, IoTypes, IoCalls
  <2>2. N \in Nat /\ N # 0
    BY <2>1, FS_CardinalityType, FS_EmptySet DEF N
  <2>3. OffsetOf(f) \in Nat /\ Total \in Nat
    BY <1>1, <2>1, InfernoIoAssumption DEF OffsetOf, IoInv, IoTypes
  <2>4. Total + (N - 1) * Total = Total * N /\ Total * N \in Nat
    <3>1. N - 1 \in Nat /\ (N - 1) + 1 = N
      BY <2>2
    <3>2. Total * N = Total * (N - 1) + Total /\ Total * (N - 1) \in Nat
      BY <3>1, Times
    <3>3. (N - 1) * Total = Total * (N - 1)
      BY <2>3, <3>1
    <3> QED BY <2>3, <3>2, <3>3
  <2>5. OffsetOf(f) <= Total * N
    <3>1. CASE Readers(f) = {}
      BY <1>1, <3>1 DEF RoomInv, Room
    <3>2. CASE Readers(f) # {}
      <4>1. PICK t \in Readers(f) : OffsetOf(f) + Ahead[t] <= Total * (N - Cardinality(Readers(f)) + 1)
        BY <1>1, <3>2 DEF RoomInv, Room
      <4> DEFINE m == Cardinality(Readers(f))
      <4>2. IsFiniteSet(Readers(f)) /\ m \in Nat /\ m # 0 /\ m <= N
        BY <3>2, FS_Subset, FS_CardinalityType, FS_EmptySet DEF N, Readers
      <4>3. N - m + 1 \in Nat /\ N - m + 1 <= N
        BY <2>2, <4>2
      <4>4. Total * (N - m + 1) <= Total * N /\ Total * (N - m + 1) \in Nat
        BY <2>2, <4>3, Times
      <4>5. Ahead[t] \in Nat
        BY <1>1, <4>1, InfernoIoAssumption DEF Ahead, Readers, IoInv, IoTypes
      <4> HIDE DEF m
      <4> QED BY <2>3, <2>4, <4>1, <4>4, <4>5 DEF m
    <3> QED BY <3>1, <3>2
  <2> QED BY <2>4, <2>5
<1> QED
  <2>1. Init => IoInv /\ RoomInv
    BY IoInit, RoomInit
  <2>2. IoInv /\ RoomInv /\ [Next]_vars => (IoInv /\ RoomInv)'
    BY IoNext, RoomNext
  <2> QED BY <1>1, <2>1, <2>2, PTL DEF Spec
=============================================================================
