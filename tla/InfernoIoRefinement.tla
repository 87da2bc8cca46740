------------------------- MODULE InfernoIoRefinement -------------------------
(***************************************************************************)
(* Proof that the umd driver implements UmdFiles when every file is used   *)
(* by one thread: for any number of threads, files and slots, any calls    *)
(* and any size of the disc.                                               *)
(*                                                                         *)
(* A call takes effect where its handler holds the semaphore for the last  *)
(* time: an open where it takes the slot, a read where it advances the     *)
(* position, a seek where it sets it.  Between the first look of a read at *)
(* the position and that step nobody moves the position (IoAlone), and     *)
(* what is added is what the disc has delivered (GotSectors).              *)
(***************************************************************************)
EXTENDS InfernoIoProofs, FiniteSetTheorems

\* A read advances the position by the sectors that it has read.
GotSectors == \A t \in Threads : pc[t] = "advance" => got[t] = Sectors(off[t], call[t].n)

\* A thread that is in no call has none.
IdleCalls == \A t \in Threads : pc[t] = "idle" => call[t] = NoCall

SeenInv == IoInv /\ GotSectors /\ IdleCalls

-----------------------------------------------------------------------------
(* What is seen of the files and the calls                                 *)

\* The files that have a position are the open ones.
LEMMA OpenedFiles ==
    ASSUME IoInv
    PROVE  /\ FilesAbs!Opened = {f \in Files : IsOpen(f)}
           /\ \A f \in Files : IsOpen(f) =>
                 fslot[f] \in Slot /\ FileOffsets[f] = slots[fslot[f]].offset
<1>1. \A f \in Files : IsOpen(f) => fslot[f] \in Slot
  BY DEF IoInv, IoTypes, IsOpen
<1>2. \A s \in Slot : slots[s].offset \in Nat
  BY InfernoIoAssumption DEF IoInv, IoTypes
<1>3. \A f \in Files : FileOffsets[f] # -1 <=> IsOpen(f)
  BY <1>1, <1>2 DEF FileOffsets
<1> QED BY <1>1, <1>3 DEF FilesAbs!Opened, FilesAbs!NotOpen, FileOffsets

\* As many files are open as slots are in use, while the driver is there.
LEMMA OpenedCount ==
    ASSUME IoInv, alive
    PROVE  /\ (\E s \in Slot : ~slots[s].enabled) => Cardinality(FilesAbs!Opened) < NumSlots
           /\ (\A s \in Slot : slots[s].enabled) => Cardinality(FilesAbs!Opened) = NumSlots
<1> DEFINE O == {f \in Files : IsOpen(f)}
           U == {s \in Slot : slots[s].enabled}
           slotOf == [f \in O |-> fslot[f]]
<1>1. slotOf \in [O -> U]
  BY OpenedFiles DEF IoInv, IoSlots
<1>2. \A f, g \in O : slotOf[f] = slotOf[g] => f = g
  BY DEF IoInv, IoSlots
<1>3. \A s \in U : \E f \in O : slotOf[f] = s
  BY DEF IoInv, IoSlots
<1>4. slotOf \in Injection(O, U) /\ slotOf \in Surjection(O, U)
  BY <1>1, <1>2, <1>3 DEF Injection, Surjection, IsInjective
<1>5. IsFiniteSet(Slot) /\ Cardinality(Slot) = NumSlots
  BY FS_Interval, InfernoIoAssumption DEF Slot
<1>6. U \in SUBSET Slot
  OBVIOUS
<1>7. IsFiniteSet(U) /\ Cardinality(U) <= NumSlots /\ (Cardinality(U) = NumSlots => U = Slot)
  BY <1>5, <1>6, FS_Subset
<1>8. IsFiniteSet(O) /\ Cardinality(O) = Cardinality(U)
  <2> HIDE DEF O, U, slotOf
  <2> QED BY <1>4, <1>7, FS_Injection
<1>9. Cardinality(U) \in Nat
  BY <1>7, FS_CardinalityType
<1>10. FilesAbs!Opened = O
  BY OpenedFiles
<1>11. (\E s \in Slot : ~slots[s].enabled) => U # Slot
  OBVIOUS
<1>12. (\A s \in Slot : slots[s].enabled) => U = Slot
  OBVIOUS
<1> HIDE DEF O, U
<1> QED BY <1>5, <1>7, <1>8, <1>9, <1>10, <1>11, <1>12, InfernoIoAssumption

\* A call that is not over is seen as it is, unless it is a seek that has set the position.
LEMMA SeenCall ==
    ASSUME IoInv, NEW t \in Threads
    PROVE  /\ CallsSeen[t].op = call[t].op /\ CallsSeen[t].file = call[t].file
           /\ CallsSeen[t].n = call[t].n /\ CallsSeen[t].whence = call[t].whence
           /\ pc[t] # "sought" => CallsSeen[t] = call[t]
           /\ pc[t] \notin {"sought", "done"} => CallsSeen[t].res = Pending
<1>1. call[t] \in IoCallRecord
  BY DEF IoInv, IoTypes
<1> QED BY <1>1 DEF CallsSeen, IoCallRecord, IoInv, IoPhases

\* Both specifications have the same results.
LEMMA SameResults ==
    /\ FilesAbs!Pending = Pending /\ FilesAbs!Failed = Failed /\ FilesAbs!TooMany = TooMany
    /\ FilesAbs!NoCall = NoCall /\ FilesAbs!NotOpen = -1
    /\ \A at : FilesAbs!Done(at) = Done(at)
    /\ \A kind, at, n : FilesAbs!Result(kind, at, n) = Result(kind, at, n)
  BY DEF FilesAbs!Pending, FilesAbs!Failed, FilesAbs!TooMany, FilesAbs!NoCall, FilesAbs!Done,
         FilesAbs!Result, FilesAbs!NotOpen, Pending, Failed, TooMany, NoCall, NoFile, Done, Result

\* Both count the same way.
LEMMA SameCount == \A S : FilesAbs!Cardinality(S) = Cardinality(S)
  BY Zenon DEF FilesAbs!Cardinality, Cardinality

\* Threads that are in calls on different files have different slots.
LEMMA SlotsApart ==
    ASSUME IoInv, ~Shared, NEW t \in Threads, NEW u \in Threads, t # u,
           pc[t] # "idle", pc[u] = "sought", IsOpen(call[t].file)
    PROVE  /\ call[u].file # call[t].file /\ SlotOf(u) # SlotOf(t)
           /\ SlotOf(u) \in Slot /\ call[u].file \in Files /\ IsOpen(call[u].file)
<1>1. call[u].file \in Files /\ IsOpen(call[u].file) /\ SlotOf(u) \in Slot
  BY CallOpen DEF IoInv, IoPhases
<1>2. call[u].file # call[t].file
  BY DEF IoInv, IoAlone
<1>3. call[t].file \in Files
  BY DEF IoInv, IoTypes, IoPhases, IoCallRecord
<1> QED BY <1>1, <1>2, <1>3 DEF IoInv, IoSlots, SlotOf

\* A step of a handler is seen in its own file and call only.
LEMMA SeenElsewhere ==
    ASSUME IoInv, ~Shared, NEW t \in Threads, IoMoves(t),
           \A s \in Slot : slots'[s].offset # slots[s].offset =>
              IsOpen(call[t].file) /\ s = SlotOf(t)
    PROVE  /\ \A u \in Threads \ {t} : CallsSeen'[u] = CallsSeen[u]
           /\ \A g \in Files \ {call[t].file} : FileOffsets'[g] = FileOffsets[g]
<1>1. ASSUME NEW u \in Threads \ {t} PROVE CallsSeen'[u] = CallsSeen[u]
  <2>1. pc'[u] = pc[u] /\ call'[u] = call[u] /\ fslot' = fslot
    BY DEF IoMoves
  <2>2. CASE pc[u] # "sought"
    BY <2>1, <2>2 DEF CallsSeen
  <2>3. CASE pc[u] = "sought"
    <3>1. SlotOf(u) \in Slot
      BY <2>3, CallOpen DEF IoInv, IoPhases
    <3>2. slots'[SlotOf(u)].offset = slots[SlotOf(u)].offset
      BY <2>3, <3>1, SlotsApart DEF IoMoves
    <3> QED BY <2>1, <3>2 DEF CallsSeen, SlotOf, Done, Result
  <2> QED BY <2>2, <2>3
<1>2. ASSUME NEW g \in Files \ {call[t].file} PROVE FileOffsets'[g] = FileOffsets[g]
  <2>1. IsOpen(g)' <=> IsOpen(g)
    BY MovesOpen DEF IoInv
  <2>2. fslot' = fslot
    BY DEF IoMoves
  <2>3. IsOpen(g) => slots'[fslot[g]].offset = slots[fslot[g]].offset
    <3> SUFFICES ASSUME IsOpen(g) PROVE slots'[fslot[g]].offset = slots[fslot[g]].offset
      OBVIOUS
    <3>1. fslot[g] \in Slot
      BY OpenedFiles
    <3>2. IsOpen(call[t].file) => fslot[g] # SlotOf(t)
      <4>1. call[t].file \in Files
        BY DEF IoMoves, IoInv, IoTypes, IoPhases, IoCallRecord
      <4> QED BY <4>1 DEF IoInv, IoSlots, SlotOf
    <3> QED BY <3>1, <3>2
  <2> QED BY <2>1, <2>2, <2>3 DEF FileOffsets
<1> QED BY <1>1, <1>2

\* A step that changes nothing of its own file and call either is not seen at all.
LEMMA SeenNothing ==
    ASSUME IoInv, ~Shared, NEW t \in Threads, IoMoves(t), UNCHANGED slots,
           CallsSeen'[t] = CallsSeen[t], call[t].op # "close"
    PROVE  UNCHANGED <<FileOffsets, CallsSeen>>
<1>1. \A f \in Files : IsOpen(f)' <=> IsOpen(f)
  BY MovesOpen DEF IoInv
<1>2. FileOffsets' = FileOffsets
  BY <1>1 DEF FileOffsets, IoMoves
<1>3. CallsSeen' = CallsSeen
  <2>1. \A u \in Threads : CallsSeen'[u] = CallsSeen[u]
    BY SeenElsewhere
  <2> QED BY <2>1 DEF CallsSeen
<1> QED BY <1>2, <1>3

\* The end of a call is seen as its result.
LEMMA SeenResult ==
    ASSUME IoInv, ~Shared, NEW t \in Threads, pc[t] \notin {"idle", "done", "sought"},
           NEW r, Finish(t, r), \A u \in Threads \ {t} : CallsSeen'[u] = CallsSeen[u]
    PROVE  FilesAbs!Finish(t, call[t].op, r)
<1>1. CallsSeen[t] = call[t] /\ call[t].res = Pending
  BY DEF CallsSeen, IoInv, IoPhases
<1>2. pc'[t] = "done" /\ call'[t] = [call[t] EXCEPT !.res = r]
  BY DEF Finish, Goto, IoInv, IoTypes
<1>3. CallsSeen'[t] = [CallsSeen[t] EXCEPT !.res = r]
  BY <1>1, <1>2 DEF CallsSeen
<1>4. CallsSeen' = [CallsSeen EXCEPT ![t].res = r]
  BY <1>3 DEF CallsSeen
<1> QED BY <1>1, <1>4, SameResults DEF FilesAbs!Finish

-----------------------------------------------------------------------------
(* Each step is a step of the files, or not seen                           *)

SeenStep == FilesAbs!Next \/ UNCHANGED <<FileOffsets, CallsSeen>>

\* A call that fails leaves the files as they are.
LEMMA FailSeen ==
    ASSUME IoInv, ~Shared, NEW t \in Threads, pc[t] \notin {"idle", "done", "sought"},
           call[t].op # "close", Finish(t, Failed), UNCHANGED <<slots, fslot, owner>>
    PROVE  SeenStep
<1>1. IoMoves(t)
  BY FinishMoves, IoResultTypes DEF IoInv
<1>2. FilesAbs!Finish(t, call[t].op, Failed)
  BY <1>1, SeenElsewhere, SeenResult
<1>3. call[t].op \in {"open", "read", "seek", "tell"}
  BY DEF IoInv, IoTypes, IoPhases, IoCallRecord, IoOps
<1>4. UNCHANGED FileOffsets
  <2>1. \A f \in Files : IsOpen(f)' <=> IsOpen(f)
    BY <1>1, MovesOpen DEF IoInv
  <2> QED BY <2>1 DEF FileOffsets
<1>5. FilesAbs!Fail(t)
  BY <1>2, <1>3, <1>4, SameResults DEF FilesAbs!Fail
<1> QED BY <1>5 DEF SeenStep, FilesAbs!Next

\* A close that ends, in whatever way, takes the position of its file.
LEMMA CloseSeen ==
    ASSUME IoInv, ~Shared, NEW t \in Threads, pc[t] # "done", call[t].op = "close",
           NEW r \in {Done(0), Failed}, Finish(t, r), UNCHANGED <<fslot, owner>>,
           \A s \in Slot : slots'[s].offset = slots[s].offset
    PROVE  SeenStep
<1>1. pc[t] \notin {"idle", "done", "sought"}
  BY DEF IoInv, IoPhases
<1>2. r \in IoResults /\ r.kind # "pending"
  <2>1. Done(0) \in IoResults /\ Done(0).kind # "pending"
    BY DEF IoResults, Done, Result
  <2>2. Failed \in IoResults /\ Failed.kind # "pending"
    BY IoResultTypes
  <2> QED BY <2>1, <2>2
<1>3. IoMoves(t) /\ call'[t].res = r
  BY <1>1, <1>2, FinishMoves DEF IoInv
<1>4. PICK f \in Files : call[t].file = f /\ IsOpen(f)
  BY <1>1, CallOpen DEF IoInv
<1>5. FilesAbs!Finish(t, "close", r)
  BY <1>1, <1>3, SeenElsewhere, SeenResult
<1>6. CallsSeen[t].file = f /\ f \in FilesAbs!Opened
  BY <1>4, OpenedFiles, SeenCall
<1>7. ~IsOpen(f)'
  <2>1. call'[t].file = f /\ call'[t].op = "close" /\ call'[t].res # Pending
    BY <1>2, <1>3, <1>4, IoResultTypes DEF IoMoves
  <2> QED BY <2>1 DEF IsOpen, Pending, Result
<1>8. FileOffsets' = [FileOffsets EXCEPT ![f] = -1]
  <2>1. \A g \in Files \ {f} : FileOffsets'[g] = FileOffsets[g]
    BY <1>3, <1>4, SeenElsewhere
  <2>2. FileOffsets'[f] = -1
    BY <1>7 DEF FileOffsets
  <2> QED BY <2>1, <2>2 DEF FileOffsets
<1>9. FilesAbs!Close(t)
  BY <1>5, <1>6, <1>8, SameResults DEF FilesAbs!Close
<1> QED BY <1>9 DEF SeenStep, FilesAbs!Next

\* An open takes effect where it takes the slot.
LEMMA OpenSlotSeen ==
    ASSUME IoInv, IoInv', ~Shared, NEW t \in Threads, OpenSlot(t)
    PROVE  SeenStep
<1>1. pc[t] = "open" /\ call[t].op = "open" /\ alive /\ Finish(t, Done(0))
  BY DEF OpenSlot, SemaFree, IoInv, IoPhases
<1>2. PICK f \in Files : call[t].file = f
  BY <1>1 DEF IoInv, IoTypes, IoPhases, IoCallRecord
<1>3. PICK s \in Slot :
          /\ ~slots[s].enabled
          /\ slots' = [slots EXCEPT ![s] = [enabled |-> TRUE, offset |-> 0]]
          /\ fslot' = [fslot EXCEPT ![f] = s]
  BY <1>2 DEF OpenSlot
<1>4. /\ slots'[s].offset = 0 /\ \A r \in Slot \ {s} : slots'[r] = slots[r]
      /\ fslot'[f] = s /\ \A g \in Files \ {f} : fslot'[g] = fslot[g]
  BY <1>2, <1>3 DEF IoInv, IoTypes
<1>5. \A u \in Threads \ {t} : call'[u] = call[u] /\ pc'[u] = pc[u]
  BY <1>1 DEF Finish, Goto, IoInv, IoTypes
<1>6. call'[t].op = "open" /\ call'[t].file = f
  <2>1. call[t] \in IoCallRecord
    BY DEF IoInv, IoTypes
  <2>2. call'[t] = [call[t] EXCEPT !.res = Done(0)]
    BY <1>1 DEF Finish, IoInv, IoTypes
  <2> QED BY <1>1, <1>2, <2>1, <2>2 DEF IoCallRecord
<1>7. fslot[f] = NoSlot /\ ~IsOpen(f)
  BY <1>1, <1>2 DEF IoInv, IoCalls, IsOpen
<1>8. \A u \in Threads \ {t} : call[u].file # f
  BY <1>1, <1>2 DEF IoInv, IoCalls
<1>9. IsOpen(f)'
  <2>1. s # NoSlot
    BY InfernoIoAssumption DEF Slot, NoSlot
  <2> QED BY <1>4, <1>5, <1>6, <1>8, <2>1 DEF IsOpen, Pending, Result
<1>10. \A g \in Files \ {f} : IsOpen(g)' <=> IsOpen(g)
  BY <1>2, <1>4, <1>5, <1>6 DEF IsOpen, Pending, Result
<1>11. \A g \in Files : IsOpen(g) => fslot[g] \in Slot \ {s}
  BY <1>3, OpenedFiles DEF IoInv, IoSlots
<1>12. FileOffsets' = [FileOffsets EXCEPT ![f] = 0]
  <2>1. FileOffsets'[f] = 0
    BY <1>4, <1>9 DEF FileOffsets
  <2>2. \A g \in Files \ {f} : FileOffsets'[g] = FileOffsets[g]
    BY <1>4, <1>10, <1>11 DEF FileOffsets
  <2> QED BY <2>1, <2>2 DEF FileOffsets
<1>13. \A u \in Threads \ {t} : CallsSeen'[u] = CallsSeen[u]
  <2> SUFFICES ASSUME NEW u \in Threads \ {t} PROVE CallsSeen'[u] = CallsSeen[u]
    OBVIOUS
  <2>1. CASE pc[u] # "sought"
    BY <1>5, <2>1 DEF CallsSeen
  <2>2. CASE pc[u] = "sought"
    <3>1. call[u].file \in Files \ {f} /\ IsOpen(call[u].file)
      BY <1>8, <2>2, CallOpen DEF IoInv, IoPhases
    <3>2. slots'[fslot'[call[u].file]] = slots[fslot[call[u].file]]
      BY <1>4, <1>11, <3>1
    <3> QED BY <1>5, <2>2, <3>2 DEF CallsSeen, SlotOf, Done, Result
  <2> QED BY <2>1, <2>2
<1>14. FilesAbs!Finish(t, "open", Done(0))
  BY <1>1, <1>13, SeenResult
<1>15. CallsSeen[t].file = f /\ f \notin FilesAbs!Opened
  BY <1>2, <1>7, SeenCall, OpenedFiles
<1>16. Cardinality(FilesAbs!Opened) < NumSlots
  BY <1>1, <1>3, OpenedCount
<1>17. FilesAbs!Open(t)
  BY <1>12, <1>14, <1>15, <1>16, SameResults, SameCount DEF FilesAbs!Open
<1> QED BY <1>17 DEF SeenStep, FilesAbs!Next

\* An open that finds no slot finds NumSlots open files.
LEMMA OpenFullSeen ==
    ASSUME IoInv, ~Shared, NEW t \in Threads, OpenFull(t)
    PROVE  SeenStep
<1>1. /\ pc[t] = "open" /\ call[t].op = "open" /\ alive /\ Finish(t, TooMany)
      /\ UNCHANGED <<slots, fslot, owner>> /\ \A s \in Slot : slots[s].enabled
  BY DEF OpenFull, SemaFree, IoInv, IoPhases
<1>2. IoMoves(t)
  BY <1>1, FinishMoves, IoResultTypes DEF IoInv
<1>3. FilesAbs!Finish(t, "open", TooMany)
  BY <1>1, <1>2, SeenElsewhere, SeenResult
<1>4. UNCHANGED FileOffsets
  <2>1. \A f \in Files : IsOpen(f)' <=> IsOpen(f)
    BY <1>1, <1>2, MovesOpen DEF IoInv
  <2> QED BY <1>1, <2>1 DEF FileOffsets
<1>5. Cardinality(FilesAbs!Opened) = NumSlots
  BY <1>1, OpenedCount
<1>6. FilesAbs!Open(t)
  BY <1>3, <1>4, <1>5, SameResults, SameCount DEF FilesAbs!Open
<1> QED BY <1>6 DEF SeenStep, FilesAbs!Next

LEMMA TellSeen ==
    ASSUME IoInv, ~Shared, NEW t \in Threads, Tell(t)
    PROVE  SeenStep
<1>1. /\ pc[t] = "tell" /\ call[t].op = "tell" /\ UNCHANGED <<slots, fslot, owner>>
      /\ Finish(t, Done(slots[SlotOf(t)].offset))
  BY DEF Tell, IoInv, IoPhases
<1>2. PICK f \in Files : call[t].file = f /\ IsOpen(f) /\ SlotOf(t) = fslot[f] /\ SlotOf(t) \in Slot
  BY <1>1, CallOpen DEF IoInv, SlotOf
<1>3. slots[SlotOf(t)].offset = FileOffsets[f] /\ slots[SlotOf(t)].offset \in Int
  BY <1>2, OpenedFiles, InfernoIoAssumption DEF IoInv, IoTypes
<1>4. IoMoves(t)
  BY <1>1, <1>3, FinishMoves, IoResultTypes DEF IoInv
<1>5. FilesAbs!Finish(t, "tell", Done(FileOffsets[f]))
  BY <1>1, <1>3, <1>4, SeenElsewhere, SeenResult
<1>6. UNCHANGED FileOffsets
  <2>1. \A g \in Files : IsOpen(g)' <=> IsOpen(g)
    BY <1>1, <1>4, MovesOpen DEF IoInv
  <2> QED BY <1>1, <2>1 DEF FileOffsets
<1>7. CallsSeen[t].file = f /\ f \in FilesAbs!Opened
  BY <1>2, OpenedFiles, SeenCall
<1>8. FilesAbs!Tell(t)
  BY <1>5, <1>6, <1>7, SameResults DEF FilesAbs!Tell
<1> QED BY <1>8 DEF SeenStep, FilesAbs!Next

\* A seek is over for the programs once the position is set: nobody else moves it.
LEMMA SeekSeen ==
    ASSUME IoInv, ~Shared, NEW t \in Threads, Seek(t)
    PROVE  SeenStep
<1>1. pc[t] = "seek" /\ call[t].op = "seek" /\ UNCHANGED <<call, fslot, owner>>
  BY DEF Seek, IoInv, IoPhases
<1>2. PICK f \in Files : call[t].file = f /\ IsOpen(f) /\ SlotOf(t) = fslot[f] /\ SlotOf(t) \in Slot
  BY <1>1, CallOpen DEF IoInv, SlotOf
<1>3. slots[SlotOf(t)].offset = FileOffsets[f]
  BY <1>2, OpenedFiles
<1> DEFINE to == FilesAbs!Target(FileOffsets[f], call[t].n, call[t].whence)
<1>4. slots' = [slots EXCEPT ![SlotOf(t)].offset = to]
  BY <1>3 DEF Seek, FilesAbs!Target, FilesAbs!Clamp, Clamp, Unsigned
<1> HIDE DEF to
<1>5. /\ slots'[SlotOf(t)].offset = to
      /\ \A s \in Slot \ {SlotOf(t)} : slots'[s] = slots[s]
  BY <1>2, <1>4 DEF IoInv, IoTypes
<1>6. IoMoves(t) /\ pc'[t] = "sought"
  BY <1>1, GotoMoves DEF Seek, IoInv, IoPcs
<1>7. /\ \A u \in Threads \ {t} : CallsSeen'[u] = CallsSeen[u]
      /\ \A g \in Files \ {f} : FileOffsets'[g] = FileOffsets[g]
  BY <1>2, <1>5, <1>6, SeenElsewhere
<1>8. CallsSeen[t] = call[t] /\ call[t].res = Pending
  BY <1>1, SeenCall DEF IoInv, IoPhases
<1>9. CallsSeen'[t] = [CallsSeen[t] EXCEPT !.res = Done(to)]
  <2>1. SlotOf(t)' = SlotOf(t) /\ call' = call
    BY <1>1 DEF SlotOf
  <2>2. Done(slots[SlotOf(t)].offset)' = Done(to)
    BY <1>5, <2>1 DEF Done, Result
  <2> QED BY <1>6, <1>8, <2>1, <2>2 DEF CallsSeen
<1>10. FilesAbs!Finish(t, "seek", Done(to))
  <2>1. CallsSeen' = [CallsSeen EXCEPT ![t].res = Done(to)]
    BY <1>7, <1>9 DEF CallsSeen
  <2> QED BY <1>1, <1>8, <2>1, SameResults DEF FilesAbs!Finish
<1>11. FileOffsets' = [FileOffsets EXCEPT ![f] = to]
  <2>1. IsOpen(f)' /\ fslot' = fslot
    BY <1>1, <1>2, <1>6, MovesOpen DEF IoInv
  <2>2. FileOffsets'[f] = to
    BY <1>2, <1>5, <2>1 DEF FileOffsets
  <2> QED BY <1>7, <2>2 DEF FileOffsets
<1>12. CallsSeen[t].file = f /\ f \in FilesAbs!Opened
  BY <1>2, OpenedFiles, SeenCall
<1>13. FilesAbs!Seek(t)
  <2>1. CallsSeen[t].whence # "other"
    BY <1>8 DEF Seek
  <2> QED BY <2>1, <1>8, <1>10, <1>11, <1>12, SameResults DEF FilesAbs!Seek, to
<1> QED BY <1>13 DEF SeenStep, FilesAbs!Next

\* What the seek returns is what was seen already.
LEMMA SeekReturnsSeen ==
    ASSUME IoInv, ~Shared, NEW t \in Threads, SeekReturns(t)
    PROVE  SeenStep
<1>1. /\ pc[t] = "sought" /\ call[t].op = "seek" /\ UNCHANGED <<slots, fslot, owner>>
      /\ Finish(t, Done(slots[SlotOf(t)].offset))
  BY DEF SeekReturns, IoInv, IoPhases
<1>2. slots[SlotOf(t)].offset \in Int
  <2>1. SlotOf(t) \in Slot
    BY <1>1, CallOpen DEF IoInv
  <2> QED BY <2>1, InfernoIoAssumption DEF IoInv, IoTypes
<1>3. IoMoves(t) /\ pc'[t] = "done"
  BY <1>1, <1>2, FinishMoves, IoResultTypes DEF IoInv
<1>4. CallsSeen'[t] = CallsSeen[t]
  <2>1. call'[t] = [call[t] EXCEPT !.res = Done(slots[SlotOf(t)].offset)]
    BY <1>1 DEF Finish, IoInv, IoTypes
  <2> QED BY <1>1, <1>3, <2>1 DEF CallsSeen
<1> QED BY <1>1, <1>3, <1>4, SeenNothing DEF SeenStep

\* Looking at the position and waiting for the disc is not seen.
LEMMA ReadStartsSeen ==
    ASSUME IoInv, ~Shared, NEW t \in Threads, ReadOffset(t) \/ TakeDisc(t)
    PROVE  SeenStep
<1>1. pc[t] \in {"read", "disc"} /\ call[t].op = "read" /\ UNCHANGED <<slots, call, fslot, owner>>
  BY DEF ReadOffset, TakeDisc, IoInv, IoPhases
<1>2. IoMoves(t) /\ pc'[t] # "sought"
  BY <1>1, GotoMoves DEF ReadOffset, TakeDisc, IoInv, IoPcs, Waits
<1>3. CallsSeen'[t] = CallsSeen[t]
  BY <1>1, <1>2 DEF CallsSeen
<1> QED BY <1>1, <1>2, <1>3, SeenNothing DEF SeenStep

\* The sectors that are read are those that UmdFiles promises.
LEMMA SectorsPromised ==
    ASSUME NEW p \in 0 .. Total, NEW n \in Nat
    PROVE  /\ Sectors(p, n) = IF p + n > Total THEN Total - p ELSE n
           /\ p + Sectors(p, n) \in 0 .. Total
<1>1. CASE p + n > Total
  <2>1. Unsigned(Total - p) = Total - p
    <3>1. Total - p \in 0 .. Width - 1
      BY InfernoIoAssumption
    <3> QED BY <3>1, UnsignedType
  <2> QED BY <1>1, <2>1, InfernoIoAssumption DEF Sectors
<1>2. CASE p + n <= Total
  <2>1. p + n \in 0 .. Width - 1
    BY <1>2, InfernoIoAssumption
  <2>2. Unsigned(p + n) = p + n
    BY <2>1, UnsignedType
  <2> QED BY <1>2, <2>2, InfernoIoAssumption DEF Sectors
<1> QED BY <1>1, <1>2, InfernoIoAssumption

\* A read that ends with what it has read takes effect there.
LEMMA ReadSeen ==
    ASSUME IoInv, ~Shared, NEW t \in Threads, pc[t] \in {"reading", "advance"},
           NEW n, n = Sectors(off[t], call[t].n),
           Finish(t, Result("done", off[t], n)), UNCHANGED <<fslot, owner>>,
           slots' = [slots EXCEPT ![SlotOf(t)].offset = off[t] + n]
    PROVE  SeenStep
<1>1. call[t].op = "read"
  BY DEF IoInv, IoPhases
<1>2. PICK f \in Files : call[t].file = f /\ IsOpen(f) /\ SlotOf(t) = fslot[f] /\ SlotOf(t) \in Slot
  BY <1>1, CallOpen DEF IoInv, SlotOf
<1>3. FileOffsets[f] = off[t] /\ off[t] <= Total
  BY <1>2, OpenedFiles DEF IoInv, IoAlone
<1>4. off[t] \in 0 .. Total
  BY <1>3, InfernoIoAssumption DEF IoInv, IoTypes
<1>5. call[t].n \in Nat
  BY <1>1 DEF IoInv, IoTypes, IoPhases, IoCallRecord
<1>6. n = (IF off[t] + call[t].n > Total THEN Total - off[t] ELSE call[t].n) /\ n \in Int
  BY <1>4, <1>5, SectorsPromised, InfernoIoAssumption
<1>7. IoMoves(t)
  <2>1. Result("done", off[t], n) \in IoResults /\ Result("done", off[t], n).kind = "done"
    <3>1. off[t] \in Int
      BY <1>4, InfernoIoAssumption
    <3> QED BY <1>6, <3>1, IoResultTypes
  <2> QED BY <2>1, FinishMoves DEF IoInv
<1>8. /\ slots'[SlotOf(t)].offset = off[t] + n
      /\ \A s \in Slot \ {SlotOf(t)} : slots'[s] = slots[s]
  BY <1>2 DEF IoInv, IoTypes
<1>9. /\ \A u \in Threads \ {t} : CallsSeen'[u] = CallsSeen[u]
      /\ \A g \in Files \ {f} : FileOffsets'[g] = FileOffsets[g]
  BY <1>2, <1>7, <1>8, SeenElsewhere
<1>10. FilesAbs!Finish(t, "read", Result("done", off[t], n))
  BY <1>1, <1>9, SeenResult
<1>11. FileOffsets' = [FileOffsets EXCEPT ![f] = off[t] + n]
  <2>1. IsOpen(f)' /\ fslot' = fslot
    BY <1>1, <1>2, <1>7, MovesOpen DEF IoInv
  <2>2. FileOffsets'[f] = off[t] + n
    BY <1>2, <1>8, <2>1 DEF FileOffsets
  <2> QED BY <1>9, <2>2 DEF FileOffsets
<1>12. CallsSeen[t].file = f /\ CallsSeen[t].n = call[t].n /\ f \in FilesAbs!Opened
  BY <1>2, OpenedFiles, SeenCall
<1>13. FilesAbs!Read(t)
  BY <1>3, <1>6, <1>10, <1>11, <1>12, SameResults DEF FilesAbs!Read
<1> QED BY <1>13 DEF SeenStep, FilesAbs!Next

\* A read that finds nothing left ends at the disc, another goes on to advance the position.
LEMMA DiscDeliversSeen ==
    ASSUME IoInv, ~Shared, NEW t \in Threads, DiscDelivers(t)
    PROVE  SeenStep
<1> DEFINE n == Sectors(off[t], call[t].n)
<1>1. pc[t] = "reading" /\ UNCHANGED <<slots, fslot, owner>> /\ call[t].op = "read"
  BY DEF DiscDelivers, IoInv, IoPhases
<1>2. CASE Goto(t, "advance") /\ UNCHANGED call
  <2>1. IoMoves(t) /\ pc'[t] = "advance"
    BY <1>1, <1>2, GotoMoves DEF IoInv, IoPcs, Waits
  <2>2. CallsSeen'[t] = CallsSeen[t]
    BY <1>1, <1>2, <2>1 DEF CallsSeen
  <2> QED BY <1>1, <2>1, <2>2, SeenNothing DEF SeenStep
<1>3. CASE n = 0 /\ ReadFinish(t, Result("done", off[t], 0))
  <2>1. Finish(t, Result("done", off[t], n))
    BY <1>3 DEF ReadFinish
  <2>2. off[t] + n = slots[SlotOf(t)].offset
    <3>1. off[t] = slots[SlotOf(t)].offset /\ off[t] \in 0 .. Width - 1
      BY <1>1 DEF IoInv, IoTypes, IoAlone, SlotOf
    <3> HIDE DEF n
    <3> QED BY <1>3, <3>1, InfernoIoAssumption
  <2>3. slots' = [slots EXCEPT ![SlotOf(t)].offset = off[t] + n]
    <3>1. slots = [slots EXCEPT ![SlotOf(t)].offset = slots[SlotOf(t)].offset]
      BY DEF IoInv, IoTypes
    <3> QED BY <1>1, <2>2, <3>1
  <2> QED BY <1>1, <2>1, <2>3, ReadSeen
<1> QED BY <1>2, <1>3 DEF DiscDelivers

\* The read takes effect where it advances the position.
LEMMA AdvanceSeen ==
    ASSUME SeenInv, ~Shared, NEW t \in Threads, Advance(t)
    PROVE  SeenStep
<1>1. pc[t] = "advance" /\ UNCHANGED <<fslot, owner>> /\ call[t].op = "read" /\ IoInv
  BY DEF Advance, SeenInv, IoInv, IoPhases
<1>2. got[t] = Sectors(off[t], call[t].n)
  BY <1>1 DEF SeenInv, GotSectors
<1>3. Finish(t, Result("done", off[t], got[t]))
  BY DEF Advance, ReadFinish
<1>4. idx[t] = SlotOf(t) /\ off[t] = slots[SlotOf(t)].offset /\ off[t] + got[t] <= Total
  BY <1>1 DEF IoInv, IoAlone, SlotOf
<1>5. Unsigned(slots[SlotOf(t)].offset + got[t]) = off[t] + got[t]
  <2>1. off[t] \in 0 .. Width - 1 /\ got[t] \in 0 .. Total
    BY <1>1 DEF IoInv, IoTypes
  <2>2. off[t] + got[t] \in 0 .. Width - 1
    BY <1>4, <2>1, InfernoIoAssumption
  <2> QED BY <1>4, <2>2, UnsignedType
<1>6. slots' = [slots EXCEPT ![SlotOf(t)].offset = off[t] + got[t]]
  <2>1. slots' = [slots EXCEPT ![idx[t]].offset = Unsigned(slots[idx[t]].offset + got[t])]
    BY DEF Advance
  <2> QED BY <1>4, <1>5, <2>1
<1> QED BY <1>1, <1>2, <1>3, <1>6, ReadSeen

\* The kernel takes a call with its result away; what is freed is not open any more.
LEMMA ReturnSeen ==
    ASSUME IoInv, ~Shared, NEW t \in Threads, Return(t)
    PROVE  SeenStep
<1> DEFINE freed == \/ call[t].op = "close"
                    \/ call[t].op = "open" /\ call[t].res.kind # "done"
<1>1. PICK f \in Files : call[t].file = f
  BY DEF Return, IoInv, IoTypes, IoPhases, IoCallRecord
<1>2. pc[t] = "done" /\ call[t].res.kind # "pending" /\ call[t].op # "none" /\ UNCHANGED slots
  BY DEF Return, IoInv, IoPhases
<1>3. /\ pc'[t] = "idle" /\ call'[t] = NoCall
      /\ \A u \in Threads \ {t} : pc'[u] = pc[u] /\ call'[u] = call[u]
  BY DEF Return, Goto, IoInv, IoTypes
<1>4. fslot' = IF freed THEN [fslot EXCEPT ![f] = NoSlot] ELSE fslot
  BY <1>1 DEF Return
<1>5. freed => ~IsOpen(f) /\ \A u \in Threads \ {t} : call[u].file # f
  <2>1. call[t].op = "close" => call[t].res # Pending
    BY <1>2, IoResultTypes
  <2>2. call[t].op = "open" /\ call[t].res.kind # "done" => fslot[f] = NoSlot
    BY <1>1, <1>2 DEF IoInv, IoCalls
  <2> QED BY <1>1, <2>1, <2>2 DEF IsOpen, IoInv, IoCalls
<1>6. ~freed => call[t].op # "close"
  OBVIOUS
<1> HIDE DEF freed
<1>7. /\ \A g \in Files \ {f} : fslot'[g] = fslot[g]
      /\ IF freed THEN fslot'[f] = NoSlot ELSE fslot' = fslot
  BY <1>4 DEF IoInv, IoTypes
<1>8. ASSUME NEW g \in Files
      PROVE  (IsOpen(g)' <=> IsOpen(g)) /\ (IsOpen(g) => fslot'[g] = fslot[g])
  <2>1. CASE g = f /\ freed
    BY <1>5, <1>7, <2>1 DEF IsOpen
  <2>2. CASE g # f \/ ~freed
    <3>1. fslot'[g] = fslot[g]
      BY <1>7, <2>2
    <3>2. ~(call[t].file = g /\ call[t].op = "close")
      BY <1>1, <1>6, <2>2 DEF freed
    <3>3. call'[t].op # "close"
      BY <1>3 DEF NoCall
    <3> QED BY <1>3, <3>1, <3>2, <3>3 DEF IsOpen, Pending, Result
  <2> QED BY <2>1, <2>2
<1>9. UNCHANGED FileOffsets
  BY <1>2, <1>8 DEF FileOffsets
<1>10. ASSUME NEW u \in Threads \ {t} PROVE CallsSeen'[u] = CallsSeen[u]
  <2>1. CASE pc[u] # "sought"
    BY <1>3, <2>1 DEF CallsSeen
  <2>2. CASE pc[u] = "sought"
    <3>1. call[u].file \in Files /\ IsOpen(call[u].file)
      BY <2>2, CallOpen DEF IoInv, IoPhases
    <3>2. fslot'[call[u].file] = fslot[call[u].file]
      BY <1>8, <3>1
    <3> QED BY <1>2, <1>3, <2>2, <3>2 DEF CallsSeen, SlotOf, Done, Result
  <2> QED BY <2>1, <2>2
<1>11. CallsSeen' = [CallsSeen EXCEPT ![t] = NoCall]
  <2>1. CallsSeen'[t] = NoCall
    BY <1>3 DEF CallsSeen
  <2> QED BY <1>10, <2>1 DEF CallsSeen
<1>12. CallsSeen[t].op # "none" /\ CallsSeen[t].res # Pending
  BY <1>2, SeenCall, IoResultTypes
<1>13. FilesAbs!Return(t)
  BY <1>9, <1>11, <1>12, SameResults DEF FilesAbs!Return
<1> QED BY <1>13 DEF SeenStep, FilesAbs!Next

LEMMA BeginSeen ==
    ASSUME SeenInv, ~Shared, NEW t \in Threads, NEW c \in Calls, NEW f \in Files, Begin(t, c, f)
    PROVE  SeenStep
<1> DEFINE new == [op |-> c.op, file |-> f, n |-> c.n, whence |-> c.whence, res |-> Pending]
<1>1. /\ pc[t] = "idle" /\ call[t].file = NoFile /\ UNCHANGED <<slots, fslot>>
      /\ call' = [call EXCEPT ![t] = new] /\ pc' = [pc EXCEPT ![t] = c.op]
  BY DEF Begin, Goto, SeenInv, IdleCalls, NoCall
<1>2. new.file = f /\ new.res = Pending
  OBVIOUS
<1> HIDE DEF new
<1>3. /\ pc'[t] = c.op /\ call'[t] = new
      /\ \A u \in Threads \ {t} : pc'[u] = pc[u] /\ call'[u] = call[u]
  BY <1>1 DEF SeenInv, IoInv, IoTypes
<1>4. ASSUME NEW g \in Files PROVE IsOpen(g)' <=> IsOpen(g)
  <2>1. call[t].file # g /\ call'[t].res = Pending
    BY <1>1, <1>2, <1>3, InfernoIoAssumption
  <2> QED BY <1>1, <1>3, <2>1 DEF IsOpen, Pending, Result
<1>5. UNCHANGED FileOffsets
  BY <1>1, <1>4 DEF FileOffsets
<1>6. CallsSeen' = [CallsSeen EXCEPT ![t] = new]
  <2>1. c.op # "sought"
    BY InfernoIoAssumption
  <2>2. CallsSeen'[t] = new
    BY <1>3, <2>1 DEF CallsSeen
  <2>3. \A u \in Threads \ {t} : CallsSeen'[u] = CallsSeen[u]
    BY <1>1, <1>3 DEF CallsSeen, SlotOf, Done, Result
  <2> QED BY <2>2, <2>3 DEF CallsSeen
<1>7. CallsSeen[t] = NoCall
  <2>1. CallsSeen[t] = call[t]
    BY <1>1 DEF CallsSeen
  <2> QED BY <1>1, <2>1 DEF SeenInv, IdleCalls
<1>8. FilesAbs!Begin(t)
  BY <1>5, <1>6, <1>7, SameResults DEF FilesAbs!Begin, new
<1> QED BY <1>8 DEF SeenStep, FilesAbs!Next

\* A removed driver changes no file, and every call on it fails from then on.
LEMMA IoExitSeen ==
    ASSUME IoExit
    PROVE  SeenStep
<1>1. UNCHANGED <<slots, fslot, call, pc>>
  BY DEF IoExit
<1>2. \A f \in Files : IsOpen(f)' <=> IsOpen(f)
  BY <1>1 DEF IsOpen, Pending, Result
<1> QED BY <1>1, <1>2 DEF SeenStep, FileOffsets, CallsSeen, SlotOf, Done, Result

LEMMA WaitSemaFailsSeen ==
    ASSUME IoInv, ~Shared, NEW t \in Threads, WaitSemaFails(t)
    PROVE  SeenStep
<1>1. pc[t] \in Waits /\ Finish(t, Failed) /\ UNCHANGED <<slots, fslot, owner>>
  BY DEF WaitSemaFails
<1>2. pc[t] \notin {"idle", "done", "sought"}
  BY <1>1 DEF Waits
<1> QED BY <1>1, <1>2, FailSeen, CloseSeen

LEMMA OpenFailsSeen ==
    ASSUME IoInv, ~Shared, NEW t \in Threads, OpenFails(t)
    PROVE  SeenStep
  BY FailSeen DEF OpenFails, IoInv, IoPhases

\* A seek that is refused.
LEMMA SeekUnknownSeen ==
    ASSUME IoInv, ~Shared, NEW t \in Threads, SeekUnknown(t)
    PROVE  SeenStep
  BY FailSeen DEF SeekUnknown, IoInv, IoPhases

LEMMA CloseActionSeen ==
    ASSUME IoInv, ~Shared, NEW t \in Threads, Close(t)
    PROVE  SeenStep
<1>1. /\ pc[t] # "done" /\ call[t].op = "close" /\ UNCHANGED <<fslot, owner>>
      /\ slots' = [slots EXCEPT ![SlotOf(t)].enabled = FALSE]
  BY DEF Close, IoInv, IoPhases
<1>2. \A s \in Slot : slots'[s].offset = slots[s].offset
  BY <1>1 DEF IoInv, IoTypes
<1>3. PICK r \in {Done(0), Failed} : Finish(t, r)
  BY DEF Close
<1> QED BY <1>1, <1>2, <1>3, CloseSeen

LEMMA DiscFailsSeen ==
    ASSUME IoInv, ~Shared, NEW t \in Threads, DiscFails(t)
    PROVE  SeenStep
  BY FailSeen DEF DiscFails, ReadFinish, IoInv, IoPhases

-----------------------------------------------------------------------------
(* The theorem                                                             *)

\* What is added to the position is computed in one place.
LEMMA GotSectorsNext == SeenInv /\ [Next]_vars => GotSectors'
<1> SUFFICES ASSUME SeenInv, [Next]_vars, NEW u \in Threads, pc'[u] = "advance"
             PROVE  got'[u] = Sectors(off'[u], call'[u].n)
  BY DEF GotSectors, Sectors, Unsigned
<1> USE DEF SeenInv, GotSectors, IoInv, IoTypes
<1>1. CASE pc[u] = "advance" /\ call'[u] = call[u] /\ off'[u] = off[u] /\ got'[u] = got[u]
  BY <1>1
<1>2. ASSUME NEW t \in Threads, Step(t) PROVE got'[u] = Sectors(off'[u], call'[u].n)
  <2>1. CASE DiscDelivers(t) /\ u = t
    BY <2>1 DEF DiscDelivers, ReadFinish, Finish, Goto
  <2>2. CASE ~(DiscDelivers(t) /\ u = t)
    <3>1. pc[u] = "advance" /\ call'[u] = call[u] /\ off'[u] = off[u] /\ got'[u] = got[u]
      BY <1>2, <2>2 DEF Step, WaitSemaFails, OpenSlot, OpenFull, OpenFails, Close, Tell, Seek,
         SeekUnknown, SeekReturns, ReadOffset, TakeDisc, DiscDelivers, DiscFails, Advance, Return, ReadFinish,
         Finish, Goto, locals
    <3> QED BY <3>1
  <2> QED BY <2>1, <2>2
<1>3. ASSUME NEW t \in Threads, NEW c \in Calls, NEW f \in Files, Begin(t, c, f)
      PROVE  got'[u] = Sectors(off'[u], call'[u].n)
  <2>1. c.op # "advance"
    BY InfernoIoAssumption
  <2>2. pc[u] = "advance" /\ call'[u] = call[u] /\ off'[u] = off[u] /\ got'[u] = got[u]
    BY <1>3, <2>1 DEF Begin, Goto, locals
  <2> QED BY <2>2
<1>4. CASE IoExit \/ UNCHANGED vars
  BY <1>4 DEF IoExit, vars, locals
<1> QED BY <1>2, <1>3, <1>4 DEF Next

\* A call ends where its thread becomes idle.
LEMMA IdleCallsNext == SeenInv /\ [Next]_vars => IdleCalls'
<1> SUFFICES ASSUME SeenInv, [Next]_vars, NEW u \in Threads, pc'[u] = "idle"
             PROVE  call'[u] = NoCall
  BY DEF IdleCalls, NoCall, Pending, Result
<1> USE DEF SeenInv, IdleCalls, IoInv, IoTypes
<1>1. ASSUME NEW t \in Threads, Step(t) PROVE call'[u] = NoCall
  <2>1. CASE Return(t) /\ u = t
    BY <2>1 DEF Return
  <2>2. CASE ~(Return(t) /\ u = t)
    BY <1>1, <2>2 DEF Step, WaitSemaFails, OpenSlot, OpenFull, OpenFails, Close, Tell, Seek,
       SeekUnknown, SeekReturns, ReadOffset, TakeDisc, DiscDelivers, DiscFails, Advance, Return, ReadFinish,
       Finish, Goto, Waits
  <2> QED BY <2>1, <2>2
<1>2. ASSUME NEW t \in Threads, NEW c \in Calls, NEW f \in Files, Begin(t, c, f)
      PROVE  call'[u] = NoCall
  <2>1. c.op # "idle"
    BY InfernoIoAssumption
  <2> QED BY <1>2, <2>1 DEF Begin, Goto
<1>3. CASE IoExit \/ UNCHANGED vars
  BY <1>3 DEF IoExit, vars
<1> QED BY <1>1, <1>2, <1>3 DEF Next

LEMMA SeenInvHolds == Spec => []SeenInv
<1>1. Init => SeenInv
  <2>1. Init => GotSectors /\ IdleCalls
    BY DEF Init, GotSectors, IdleCalls
  <2> QED BY <2>1, IoInit DEF SeenInv
<1>2. SeenInv /\ [Next]_vars => SeenInv'
  BY IoNext, GotSectorsNext, IdleCallsNext DEF SeenInv
<1> QED BY <1>1, <1>2, PTL DEF Spec

LEMMA NextSeen ==
    ASSUME ~Shared
    PROVE  SeenInv /\ SeenInv' /\ [Next]_vars => [FilesAbs!Next]_(FilesAbs!filesVars)
<1> SUFFICES ASSUME SeenInv, SeenInv', [Next]_vars PROVE SeenStep
  BY DEF SeenStep, FilesAbs!filesVars
<1>1. IoInv /\ IoInv'
  BY DEF SeenInv
<1>2. ASSUME NEW t \in Threads, Step(t) PROVE SeenStep
  BY <1>1, <1>2, WaitSemaFailsSeen, OpenSlotSeen, OpenFullSeen, OpenFailsSeen, CloseActionSeen,
     TellSeen, SeekSeen, SeekUnknownSeen, SeekReturnsSeen, ReadStartsSeen, DiscDeliversSeen, DiscFailsSeen,
     AdvanceSeen, ReturnSeen
     DEF Step
<1>3. ASSUME NEW t \in Threads, NEW c \in Calls, NEW f \in Files, Begin(t, c, f) PROVE SeenStep
  BY <1>3, BeginSeen
<1>4. CASE UNCHANGED vars
  <2>1. UNCHANGED <<slots, fslot, call, pc>>
    BY <1>4 DEF vars
  <2>2. \A f \in Files : IsOpen(f)' <=> IsOpen(f)
    BY <2>1 DEF IsOpen, Pending, Result
  <2> QED BY <2>1, <2>2 DEF SeenStep, FileOffsets, CallsSeen, SlotOf, Done, Result
<1> QED BY <1>2, <1>3, <1>4, IoExitSeen DEF Next

\* With every file used by one thread the driver implements UmdFiles: each call takes
\* effect in one instant, or fails and changes nothing.
THEOREM FilesSpecTheorem ==
    ASSUME ~Shared
    PROVE  Spec => FilesSpec
<1>1. Init => FilesAbs!Init
  <2> SUFFICES ASSUME Init PROVE FilesAbs!Init
    OBVIOUS
  <2>1. \A f \in Files : ~IsOpen(f)
    BY DEF Init, IsOpen
  <2>2. FileOffsets = [f \in Files |-> -1]
    BY <2>1 DEF FileOffsets
  <2>3. CallsSeen = [t \in Threads |-> NoCall]
    BY DEF Init, CallsSeen
  <2> QED BY <2>2, <2>3, SameResults DEF FilesAbs!Init
<1> QED BY <1>1, SeenInvHolds, NextSeen, PTL DEF Spec, FilesSpec, FilesAbs!Spec
==============================================================================
