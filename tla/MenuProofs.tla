------------------------------ MODULE MenuProofs ------------------------------
(***************************************************************************)
(* Proofs about the system menu: the SELECT menu, Recovery and USB         *)
(* (VshMenu), Vshctrl's game list (GameList) and the files of the plugins  *)
(* (PluginFiles), for any number of games, descriptors, slots, lines and   *)
(* failures.                                                               *)
(*                                                                         *)
(* VshMenu: USB starts only when no menu and no Recovery can run until it  *)
(* ends, so that Vshctrl's copy of the configuration is the same at the    *)
(* start and at the stop (VshUsbInv).  That no menu runs then follows from *)
(* its module being gone or never started, for which the thread must not   *)
(* outlive its module (VshSatInv).  Who saves last is the one who has last *)
(* set Vshctrl's copy (VshConfInv).                                        *)
(*                                                                         *)
(* GameList: each entry of the cache, of its file and of a list says what  *)
(* its header was made from (GlCacheInv), and no descriptor stands for two *)
(* directories (GlDirInv).  Each turn of the loop over the sections keeps  *)
(* what has been read equal to what the virtual file has there             *)
(* (GlReadRight), the first pass ends behind the header or has read all,   *)
(* and the second goes through every section.                              *)
(*                                                                         *)
(* PluginFiles: Recovery's lists agree with what the user wants, and with  *)
(* the files but those of which a save has failed (PlInv).                 *)
(***************************************************************************)
EXTENDS GameList, VshMenu, PluginFiles, FiniteSetTheorems, FunctionTheorems,
        SequenceTheorems, WellFoundedInduction, TLAPS

\* A set of natural numbers has a least element.
LEMMA LeastElement ==
  ASSUME NEW T, T \subseteq Nat, T # {}
  PROVE \E x \in T : \A y \in T : x <= y
<1> DEFINE below == {0 .. x - 1 : x \in T}
<1>1. below \subseteq FiniteSubsetsOf(Nat) /\ below # {}
  <2>1. \A x \in T : 0 .. x - 1 \subseteq Nat /\ IsFiniteSet(0 .. x - 1)
    <3> TAKE x \in T
    <3>1. 0 \in Int /\ x - 1 \in Int
      OBVIOUS
    <3> QED BY <3>1, FS_Interval
  <2> QED BY <2>1 DEF FiniteSubsetsOf
<1>2. PICK b \in below : \A c \in below : <<c, b>> \notin StrictSubsetOrdering(Nat)
  <2>1. IsWellFoundedOn(StrictSubsetOrdering(Nat), FiniteSubsetsOf(Nat))
    BY FS_StrictSubsetOrderingWellFounded
  <2> HIDE DEF below
  <2> QED  BY <1>1, <2>1, WFMin
<1>3. PICK x \in T : b = 0 .. x - 1
  OBVIOUS
<1>4. ASSUME NEW y \in T, y < x PROVE FALSE
  <2>1. 0 .. y - 1 \in below /\ 0 .. y - 1 \subseteq b /\ y \in b /\ y \notin 0 .. y - 1
    BY <1>3, <1>4
  <2>2. b \in SUBSET Nat /\ 0 .. y - 1 \in SUBSET Nat
    BY <1>3
  <2>3. <<0 .. y - 1, b>> \in StrictSubsetOrdering(Nat)
    BY <2>1, <2>2 DEF StrictSubsetOrdering
  <2> QED BY <1>2, <2>1, <2>3
<1> QED BY <1>4

LEMMA MinIn ==
    ASSUME NEW T, T \subseteq Nat, T # {}
    PROVE  Min(T) \in T
  BY LeastElement DEF Min

\* Induction up to n, over a set.
LEMMA UpTo ==
    ASSUME NEW n \in Nat, NEW T, 0 \in T, \A i \in 1 .. n : i - 1 \in T => i \in T
    PROVE  0 .. n \subseteq T
<1> DEFINE out == (0 .. n) \ T
<1>1. SUFFICES ASSUME out # {} PROVE FALSE
  OBVIOUS
<1>2. PICK x \in out : \A y \in out : x <= y
  <2>1. out \subseteq Nat
    OBVIOUS
  <2> HIDE DEF out
  <2> QED BY <1>1, <2>1, LeastElement
<1>3. x \in 1 .. n /\ x - 1 \in 0 .. n /\ ~(x <= x - 1)
  OBVIOUS
<1>4. x - 1 \in T
  BY <1>2, <1>3
<1> QED BY <1>3, <1>4

\* f begins with a, and each of its later values, up to n, is the step from the one
\* before.
Steps(f, S, n, a, step) ==
    f \in [0 .. n -> S] /\ f[0] = a /\ \A i \in 1 .. n : f[i] = step[i][f[i - 1]]

StepsIn(S, n) == [1 .. n -> [S -> S]]

\* Such a function exists.
LEMMA StepFunction ==
    ASSUME NEW S, NEW n \in Nat, NEW a \in S, NEW step \in StepsIn(S, n)
    PROVE  \E f : Steps(f, S, n, a, step)
<1> DEFINE Is(g, m) == Steps(g, S, m, a, step)
           T == {m \in 0 .. n : \E g : Is(g, m)}
<1>1. 0 \in T
  <2>1. Is([i \in 0 .. 0 |-> a], 0)
    BY DEF Steps
  <2> HIDE DEF Is
  <2>2. \E g : Is(g, 0)
    BY <2>1
  <2> QED BY <2>2
<1>2. ASSUME NEW m \in 1 .. n, m - 1 \in T PROVE m \in T
  <2>1. PICK f : Is(f, m - 1)
    BY <1>2
  <2>2. m \in Nat /\ m - 1 \in 0 .. m - 1 /\ 0 \in 0 .. m - 1 /\ 0 # m
    OBVIOUS
  <2>3. step[m][f[m - 1]] \in S
    BY <2>1, <2>2 DEF Steps, StepsIn
  <2> DEFINE x == [i \in 0 .. m |-> IF i = m THEN step[m][f[m - 1]] ELSE f[i]]
  <2>4. x \in [0 .. m -> S]
    <3>1. \A i \in 0 .. m : i = m \/ i \in 0 .. m - 1
      BY <2>2
    <3> QED BY <2>1, <2>3, <3>1 DEF Steps
  <2>5. x[0] = a
    BY <2>1, <2>2 DEF Steps
  <2>6. ASSUME NEW i \in 1 .. m PROVE x[i] = step[i][x[i - 1]]
    <3>1. CASE i = m
      <4>1. x[m] = step[m][f[m - 1]] /\ x[m - 1] = f[m - 1]
        BY <2>2
      <4> QED BY <3>1, <4>1
    <3>2. CASE i # m
      <4>1. i \in 1 .. m - 1 /\ i \in 0 .. m /\ i - 1 \in 0 .. m /\ i - 1 # m
        BY <2>2, <3>2
      <4>2. x[i] = f[i] /\ x[i - 1] = f[i - 1]
        BY <3>2, <4>1
      <4> QED BY <2>1, <4>1, <4>2 DEF Steps
    <3> QED BY <3>1, <3>2
  <2>7. Is(x, m)
    <3> HIDE DEF x
    <3> QED BY <2>4, <2>5, <2>6 DEF Steps
  <2> HIDE DEF Is, x
  <2>8. \E g : Is(g, m)
    BY <2>7
  <2> QED BY <2>8
<1>3. n \in T
  <2> HIDE DEF T
  <2>1. 0 .. n \subseteq T
    BY <1>1, <1>2, UpTo
  <2> QED BY <2>1
<1>4. PICK f : Is(f, n)
  BY <1>3
<1> QED BY <1>4

-----------------------------------------------------------------------------
(* The menu, Recovery and USB                                              *)

VshCopies == Conf \cup {Junk}

SatPcs == {"none", "register", "get", "loop", "open1", "write1", "act", "update", "open2",
           "write2", "clear", "end"}
SatRecord == [mod : BOOLEAN, id : {1, 2}, pc : SatPcs, stop : BOOLEAN,
              chosen : {"exit", "recovery"}, cnf : VshCopies, old : VshCopies,
              stopping : BOOLEAN]
RecPcs == {"off", "get", "menu", "open1", "write1", "open2", "write2"}
RecRecord == [pc : RecPcs, cnf : VshCopies]

\* The types.
VshTypes ==
    /\ seConf \in VshCopies /\ seFile \in VshCopies \cup {Short}
    /\ sat \in SatRecord /\ rec \in RecRecord
    /\ usb \in [pc : {"off", "begin", "on", "stopped"}, dev : BOOLEAN,
                stick : {"orig", "other"}, orig : {"orig", "other"}]

\* The menu's thread does not outlive its module, nor its handler the thread.
VshSatInv ==
    /\ SatAlive => sat.mod
    /\ satCtrl # 0 /\ ~satCut => SatAlive /\ satCtrl = sat.id

\* While USB runs nothing can start that changes Vshctrl's copy of the configuration,
\* and the stick's functions are replaced only if that copy says so.
VshUsbInv ==
    /\ usb.pc # "off" =>
          /\ boot = "up" /\ rec.pc = "off" /\ ~SatAlive /\ ~sat.stopping
          /\ ~sat.mod \/ sat.pc = "none"
    /\ usb.orig = "orig"
    /\ usb.stick # "orig" => usb.pc = "on" /\ seConf = Device /\ usb.dev

VshInv == VshTypes /\ VshSatInv /\ VshUsbInv

\* What a reader of the file gets is a copy.
LEMMA GotType == VshTypes => Got \in VshCopies
  BY DEF VshTypes, Got, VshCopies

\* The changes of the menu's record keep its type.
LEMMA SatChanges ==
    ASSUME VshTypes
    PROVE  /\ \A l \in SatPcs : SatGoto(l) \in SatRecord
           /\ \A c \in VshCopies : [sat EXCEPT !.cnf = c] \in SatRecord
           /\ \A c \in VshCopies :
                 [sat EXCEPT !.pc = "loop", !.cnf = c, !.old = c] \in SatRecord
           /\ \A x \in {"exit", "recovery"} :
                 [sat EXCEPT !.stop = TRUE, !.chosen = x] \in SatRecord
<1>1. "loop" \in SatPcs
  BY DEF SatPcs
<1> QED BY <1>1 DEF VshTypes, SatGoto, SatRecord

\* So do those of Recovery's.
LEMMA RecChanges ==
    ASSUME VshTypes
    PROVE  /\ RecOff \in RecRecord
           /\ \A l \in RecPcs : RecGoto(l) \in RecRecord
           /\ \A c \in VshCopies : [pc |-> "menu", cnf |-> c] \in RecRecord
           /\ \A c \in VshCopies : [rec EXCEPT !.cnf = c, !.pc = "open1"] \in RecRecord
  BY DEF VshTypes, RecGoto, RecOff, RecRecord, RecPcs, VshCopies

\* A menu that is gone.
LEMMA SatOutType == \A id \in {1, 2} : SatOut(id) \in SatRecord
  BY DEF SatOut, SatRecord, SatPcs, VshCopies

\* The invariant holds at the start.
LEMMA VshInitInv == VshInit => VshInv
<1> SUFFICES ASSUME VshInit PROVE VshInv
  OBVIOUS
<1>1. sat \in SatRecord /\ rec \in RecRecord
  BY SatOutType DEF VshInit, RecOff, RecRecord, RecPcs, VshCopies
<1>2. VshTypes
  BY <1>1 DEF VshInit, VshTypes, VshCopies, UsbOff
<1>3. VshSatInv /\ VshUsbInv
  BY DEF VshInit, VshSatInv, VshUsbInv, SatOut, RecOff, UsbOff, SatAlive
<1> QED BY <1>2, <1>3 DEF VshInv

\* A loss of power keeps only the file.
LEMMA PowerLossKeeps == ASSUME VshInv, PowerLoss PROVE VshInv'
<1>1. sat' \in SatRecord /\ rec' \in RecRecord
  BY SatOutType DEF PowerLoss, RecOff, RecRecord, RecPcs, VshCopies
<1>2. VshTypes'
  BY <1>1 DEF PowerLoss, VshInv, VshTypes, VshCopies, UsbOff
<1>3. VshSatInv' /\ VshUsbInv'
  BY DEF PowerLoss, VshSatInv, VshUsbInv, SatOut, RecOff, UsbOff, SatAlive
<1> QED BY <1>2, <1>3 DEF VshInv

\* The start of the firmware: USB is off until it has ended.
LEMMA BootStepKeeps == ASSUME VshInv, BootStep PROVE VshInv'
<1>1. boot # "up"
  BY DEF BootStep
<1>2. VshTypes'
  BY DEF BootStep, Got, VshInv, VshTypes, VshCopies, Conf, Stick, Short, Junk
<1>3. VshSatInv' /\ VshUsbInv'
  BY <1>1 DEF BootStep, VshInv, VshTypes, VshSatInv, VshUsbInv, SatAlive
<1> QED BY <1>2, <1>3 DEF VshInv

\* The menu's thread: it runs only while USB is off, and takes its handler back
\* before it ends.
LEMMA SatThreadKeeps == ASSUME VshInv, SatThread PROVE VshInv'
<1>1. SatAlive /\ usb.pc = "off"
  BY DEF SatThread, SatStep, SatAlive, VshInv, VshUsbInv
<1>2. VshTypes'
  <2>1. \/ \E l \in SatPcs : sat' = SatGoto(l)
        \/ \E c \in VshCopies : sat' = [sat EXCEPT !.cnf = c]
        \/ sat' = [sat EXCEPT !.pc = "loop", !.cnf = Got, !.old = Got]
        \/ \E x \in {"exit", "recovery"} : sat' = [sat EXCEPT !.stop = TRUE, !.chosen = x]
    BY DEF SatThread, SatStep, Reads, SaveOpens, SaveWrites, Updates, SatPcs, VshCopies
  <2>2. sat' \in SatRecord
    BY <2>1, SatChanges, GotType DEF VshInv
  <2>3. "get" \in RecPcs /\ (rec' = rec \/ rec' = RecGoto("get"))
    BY DEF SatThread, SatStep, RecGoto, RecPcs
  <2>4. rec' \in RecRecord
    BY <2>3, RecChanges DEF VshInv, VshTypes
  <2>5. sat.cnf \in VshCopies
    BY DEF VshInv, VshTypes, SatRecord
  <2>6. seConf' \in {seConf, sat.cnf} /\ seFile' \in {seFile, sat.cnf, Short}
    BY DEF SatThread, SatStep, Reads, SaveOpens, SaveWrites, Updates, Updated, fileVars
  <2> QED BY <2>2, <2>4, <2>5, <2>6 DEF SatThread, VshInv, VshTypes
<1>3. VshSatInv'
  <2>1. CASE sat.pc = "register"
    BY <1>1, <2>1 DEF SatThread, SatStep, SatGoto, SatAlive, VshInv, VshTypes, VshSatInv, SatRecord
  <2>2. CASE sat.pc = "clear"
    BY <2>2 DEF SatThread, SatStep, SatGoto, SatAlive, VshInv, VshTypes, VshSatInv, SatRecord
  <2>3. CASE sat.pc \notin {"register", "clear"}
    <3>1. UNCHANGED <<satCtrl, satCut>> /\ sat'.mod = sat.mod /\ sat'.id = sat.id
      BY <2>3 DEF SatThread, SatStep, SatGoto, Reads, SaveOpens, SaveWrites, Updates,
                  VshInv, VshTypes, SatRecord
    <3>2. SatAlive'
      BY <1>1, <2>3 DEF SatThread, SatStep, SatGoto, SatAlive, Reads, SaveOpens, SaveWrites,
                        Updates, VshInv, VshTypes, SatRecord
    <3> QED BY <1>1, <3>1, <3>2 DEF VshInv, VshSatInv
  <2> QED BY <2>1, <2>2, <2>3
<1>4. VshUsbInv'
  BY <1>1 DEF SatThread, VshInv, VshUsbInv
<1> QED BY <1>2, <1>3, <1>4 DEF VshInv

\* Recovery's thread runs only while USB is off.
LEMMA RecThreadKeeps == ASSUME VshInv, RecThread PROVE VshInv'
<1>1. usb.pc = "off"
  BY DEF RecThread, RecStep, VshInv, VshUsbInv
<1>2. VshTypes'
  <2>1. \/ rec' = RecOff \/ \E l \in RecPcs : rec' = RecGoto(l)
        \/ rec' = [pc |-> "menu", cnf |-> Got]
        \/ \E c \in VshCopies : rec' = [rec EXCEPT !.cnf = c, !.pc = "open1"]
    BY DEF RecThread, RecStep, Reads, SaveOpens, SaveWrites, Updates, RecPcs, VshCopies
  <2>2. Got \in VshCopies
    BY GotType DEF VshInv
  <2>3. rec' \in RecRecord
    BY <2>1, <2>2, RecChanges DEF VshInv
  <2>4. rec.cnf \in VshCopies
    BY DEF VshInv, VshTypes, RecRecord
  <2>5. seConf' \in {seConf, rec.cnf} /\ seFile' \in {seFile, rec.cnf, Short}
    BY DEF RecThread, RecStep, Reads, SaveOpens, SaveWrites, Updates, Updated, fileVars
  <2> QED BY <2>3, <2>4, <2>5 DEF RecThread, VshInv, VshTypes
<1>3. VshSatInv' /\ VshUsbInv'
  BY <1>1 DEF RecThread, SatAlive, VshInv, VshSatInv, VshUsbInv
<1> QED BY <1>2, <1>3 DEF VshInv

\* The menu is opened only while USB is off, in a new module whose thread has not yet
\* set its handler; the old one's is gone.
LEMMA PollOpensMenuKeeps == ASSUME VshInv, PollOpensMenu PROVE VshInv'
<1>1. usb.pc = "off" /\ ~SatAlive
  BY DEF PollOpensMenu, MayOpenMenu, VshInv, VshSatInv
<1>2. PICK l \in {"register", "none"} :
         sat' = [SatOut(3 - sat.id) EXCEPT !.mod = TRUE, !.pc = l]
  BY DEF PollOpensMenu
<1>3. VshTypes'
  <2>1. SatOut(3 - sat.id) \in SatRecord
    BY SatOutType DEF VshInv, VshTypes, SatRecord
  <2>2. sat' \in SatRecord
    BY <1>2, <2>1 DEF SatRecord, SatPcs
  <2> QED BY <2>2 DEF PollOpensMenu, fileVars, VshInv, VshTypes
<1>4. VshSatInv'
  BY <1>1, <1>2 DEF PollOpensMenu, SatOut, SatAlive, VshInv, VshSatInv
<1>5. VshUsbInv'
  BY <1>1 DEF PollOpensMenu, fileVars, VshInv, VshUsbInv
<1> QED BY <1>3, <1>4, <1>5 DEF VshInv

\* The menu is told to stop, unloaded or terminated only while USB is off.
LEMMA PollStopsMenuKeeps ==
    ASSUME VshInv, PollStopsMenu \/ PollUnloadsMenu \/ PollTerminatesMenu
    PROVE  VshInv'
<1>1. usb.pc = "off"
  BY DEF PollStopsMenu, PollUnloadsMenu, PollTerminatesMenu, VshInv, VshUsbInv
<1>2. VshTypes'
  <2>1. SatOut(sat.id) \in SatRecord
    BY SatOutType DEF VshInv, VshTypes, SatRecord
  <2>2. sat' \in SatRecord
    BY <2>1 DEF PollStopsMenu, PollUnloadsMenu, PollTerminatesMenu, VshInv, VshTypes, SatRecord
  <2> QED BY <2>2 DEF PollStopsMenu, PollUnloadsMenu, PollTerminatesMenu, fileVars, VshInv, VshTypes
<1>3. VshSatInv'
  <2>1. CASE PollStopsMenu
    BY <2>1 DEF PollStopsMenu, SatAlive, VshInv, VshTypes, VshSatInv, SatRecord
  <2>2. CASE PollUnloadsMenu
    BY <2>2 DEF PollUnloadsMenu, ThreadEnded, SatAlive, VshInv, VshTypes, VshSatInv, SatRecord
  <2>3. CASE PollTerminatesMenu
    BY <2>3 DEF PollTerminatesMenu, SatOut, SatAlive, VshSatInv
  <2> QED BY <2>1, <2>2, <2>3
<1>4. VshUsbInv'
  BY <1>1 DEF PollStopsMenu, PollUnloadsMenu, PollTerminatesMenu, fileVars, VshInv, VshUsbInv
<1> QED BY <1>2, <1>3, <1>4 DEF VshInv

\* USB begins when the shell gets a key: no menu's thread is there.
LEMMA UsbBeginKeeps == ASSUME VshInv, UsbBegin PROVE VshInv'
<1>1. ~SatAlive
  BY DEF UsbBegin, KeysReachShell, SatAlive, VshInv, VshSatInv
<1>2. VshTypes' /\ VshSatInv'
  BY DEF UsbBegin, fileVars, SatAlive, VshInv, VshTypes, VshSatInv
<1>3. VshUsbInv'
  BY <1>1 DEF UsbBegin, KeysReachShell, fileVars, SatAlive, VshInv, VshTypes, VshUsbInv
<1> QED BY <1>2, <1>3 DEF VshInv

\* The device takes the stick's place only if the configuration says so; what it
\* keeps to put back are the stick's own functions.
LEMMA UsbStartKeeps == ASSUME VshInv, UsbStart PROVE VshInv'
<1>1. usb.stick = "orig"
  BY DEF UsbStart, VshInv, VshUsbInv
<1>2. VshTypes'
  BY DEF UsbStart, fileVars, VshInv, VshTypes
<1>3. VshSatInv'
  BY DEF UsbStart, SatAlive, VshInv, VshSatInv
<1>4. VshUsbInv'
  BY <1>1 DEF UsbStart, fileVars, SatAlive, VshInv, VshTypes, VshUsbInv
<1> QED BY <1>2, <1>3, <1>4 DEF VshInv

\* The device is there at the stop only if the configuration still says so.
LEMMA UsbStopKeeps == ASSUME VshInv, UsbStop \/ UsbEnd PROVE VshInv'
<1>1. VshTypes'
  BY DEF UsbStop, UsbEnd, fileVars, VshInv, VshTypes
<1>2. VshSatInv'
  BY DEF UsbStop, UsbEnd, SatAlive, VshInv, VshSatInv
<1>3. VshUsbInv'
  BY DEF UsbStop, UsbEnd, fileVars, SatAlive, VshInv, VshTypes, VshUsbInv
<1> QED BY <1>1, <1>2, <1>3 DEF VshInv

\* Every step keeps the invariant.
LEMMA VshNextKeeps == VshInv /\ [VshNext]_vshVars => VshInv'
<1> SUFFICES ASSUME VshInv, [VshNext]_vshVars PROVE VshInv'
  OBVIOUS
<1>1. CASE UNCHANGED vshVars
  BY <1>1 DEF vshVars, VshInv, VshTypes, VshSatInv, VshUsbInv, SatAlive
<1> QED BY <1>1, PowerLossKeeps, BootStepKeeps, SatThreadKeeps, RecThreadKeeps,
           PollOpensMenuKeeps, PollStopsMenuKeeps, UsbBeginKeeps, UsbStartKeeps, UsbStopKeeps
        DEF VshNext, RecRestart

\* The invariant holds in every state.
THEOREM VshInvHolds == VshSpec => []VshInv
  BY VshInitInv, VshNextKeeps, PTL DEF VshSpec

\* After USB has ended the stick's driver has its own functions again.
THEOREM StickRestoredTheorem == VshSpec => []StickRestored
<1>1. VshInv => StickRestored
  BY DEF VshInv, VshUsbInv, StickRestored
<1> QED BY VshInvHolds, <1>1, PTL

\* The menu's thread and the handler that the hook calls are in a module in memory.
THEOREM MenuCodeLoadedTheorem == VshSpec => []MenuCodeLoaded
<1>1. VshInv => MenuCodeLoaded
  BY DEF VshInv, VshSatInv, MenuCodeLoaded
<1> QED BY VshInvHolds, <1>1, PTL

-----------------------------------------------------------------------------
(* The configuration's file                                                *)

\* Until it has opened Recovery the menu's thread is alone.  Unless something is excused,
\* whoever is about to save holds a configuration that was read or chosen, and the one
\* who saves last is the one who has last set Vshctrl's copy.
VshConfInv ==
    /\ seExcused \in BOOLEAN
    /\ boot # "up" => ~SatAlive /\ rec.pc = "off"
    /\ sat.pc \in {"register", "get", "loop", "open1", "write1", "act"} => rec.pc = "off"
    /\ boot = "up" /\ ~seExcused =>
          /\ rec.pc = "off" /\ sat.pc \in {"none", "end", "register", "get", "loop", "open1", "clear"} =>
                 seFile = seConf /\ seConf \in Conf
          /\ sat.pc \in {"loop", "open1", "write1", "act", "update", "open2", "write2"} => sat.cnf \in Conf
          /\ sat.pc \in {"open2", "write2"} => seConf = sat.cnf
          /\ rec.pc \notin {"off", "get"} => rec.cnf \in Conf
          /\ rec.pc \in {"open2", "write2"} => ~SatAlive /\ seConf = rec.cnf

LEMMA ConfInit == VshInit => VshConfInv
<1> SUFFICES ASSUME VshInit PROVE VshConfInv
  OBVIOUS
<1>1. boot = "load" /\ seExcused = FALSE /\ sat.pc = "none" /\ rec.pc = "off"
  BY DEF VshInit, SatOut, RecOff
<1>2. seExcused \in BOOLEAN
  BY <1>1
<1> QED BY <1>1, <1>2 DEF VshConfInv, SatAlive

LEMMA ConfPowerLoss == PowerLoss => VshConfInv'
<1> SUFFICES ASSUME PowerLoss PROVE VshConfInv'
  OBVIOUS
<1>1. boot' = "load" /\ seExcused' = FALSE /\ sat'.pc = "none" /\ rec'.pc = "off"
  BY DEF PowerLoss, SatOut, RecOff
<1>2. seExcused' \in BOOLEAN
  BY <1>1
<1> QED BY <1>1, <1>2 DEF VshConfInv, SatAlive

LEMMA ConfBootStep == ASSUME VshInv, VshConfInv, BootStep PROVE VshConfInv'
<1>1. CASE boot' # "up"
  BY <1>1 DEF BootStep, VshConfInv, SatAlive
<1>2. CASE boot' = "up"
  <2>1. seConf' = Got /\ seExcused' = (Got = Junk) /\ UNCHANGED seFile /\ boot = "init"
    BY <1>2 DEF BootStep
  <2>2. Got # Junk => seFile = Got /\ Got \in Conf
    BY DEF Got, VshInv, VshTypes, VshCopies
  <2> QED BY <1>2, <2>1, <2>2 DEF BootStep, VshConfInv, SatAlive
<1> QED BY <1>1, <1>2

\* The menu's thread.
LEMMA ConfSatThread == ASSUME VshInv, VshConfInv, SatThread PROVE VshConfInv'
<1> USE DEF VshInv, VshTypes, SatRecord, RecRecord, VshConfInv, SatAlive, SatGoto, fileVars
<1>1. boot = "up" /\ UNCHANGED boot
  BY DEF SatThread, SatStep, Reads, SaveOpens, SaveWrites, Updates
<1>2. CASE sat.pc \in {"register", "act", "clear"}
  <2>1. CASE sat.pc = "register"
    <3>1. sat' = [sat EXCEPT !.pc = "get"] /\ UNCHANGED <<seFile, seConf, seExcused, boot, rec>>
      BY <2>1 DEF SatThread, SatStep
    <3>2. sat'.pc = "get"
      BY <3>1
    <3> QED BY <2>1, <3>1, <3>2
  <2>2. CASE sat.pc = "act"
    <3>1. /\ sat' = [sat EXCEPT !.pc = "update"] /\ UNCHANGED <<seFile, seConf, seExcused, boot>>
          /\ rec' = rec \/ rec' = [rec EXCEPT !.pc = "get"]
      BY <2>2 DEF SatThread, SatStep
    <3>2. sat'.pc = "update" /\ sat'.cnf = sat.cnf
      BY <3>1
    <3>3. CASE rec' = rec
      BY <2>2, <3>1, <3>2, <3>3
    <3>4. CASE rec' = [rec EXCEPT !.pc = "get"]
      <4>1. rec'.pc = "get"
        BY <3>4
      <4> QED BY <2>2, <3>1, <3>2, <4>1
    <3> QED BY <3>1, <3>3, <3>4
  <2>3. CASE sat.pc = "clear"
    <3>1. sat' = [sat EXCEPT !.pc = "end"] /\ UNCHANGED <<seFile, seConf, seExcused, boot, rec>>
      BY <2>3 DEF SatThread, SatStep
    <3>2. sat'.pc = "end"
      BY <3>1
    <3> QED BY <2>3, <3>1, <3>2
  <2> QED BY <1>2, <2>1, <2>2, <2>3
<1>3. CASE sat.pc = "get"
  <2>1. /\ sat' = [sat EXCEPT !.pc = "loop", !.cnf = Got, !.old = Got]
        /\ seExcused' = (seExcused \/ Got = Junk) /\ UNCHANGED <<seFile, seConf, boot, rec>>
    BY <1>3 DEF SatThread, SatStep, Reads
  <2>2. sat'.pc = "loop" /\ sat'.cnf = Got
    BY <2>1
  <2>3. Got # Junk => Got \in Conf
    BY DEF Got, VshCopies
  <2>4. ~seExcused' => ~seExcused /\ Got # Junk
    BY <2>1
  <2> QED BY <1>1, <1>3, <2>1, <2>2, <2>3, <2>4
<1>4. CASE sat.pc \in {"open1", "write1"}
  BY <1>1, <1>4 DEF SatThread, SatStep, SaveOpens, SaveWrites
<1>5. CASE sat.pc \in {"update", "open2", "write2"}
  BY <1>1, <1>5 DEF SatThread, SatStep, SaveOpens, SaveWrites, Updates, Updated
<1>6. CASE sat.pc = "loop"
  <2>1. /\ UNCHANGED <<seFile, seConf, seExcused, boot, rec>>
        /\ sat'.pc \in {"loop", "act", "open1"} /\ (sat'.cnf = sat.cnf \/ sat'.cnf \in Conf)
    BY <1>6 DEF SatThread, SatStep
  <2> QED BY <1>1, <1>6, <2>1
<1> QED BY <1>2, <1>3, <1>4, <1>5, <1>6 DEF SatThread, SatStep

\* Recovery's thread.
LEMMA ConfRecThread == ASSUME VshInv, VshConfInv, RecThread PROVE VshConfInv'
<1> USE DEF VshInv, VshTypes, SatRecord, RecRecord, VshConfInv, SatAlive, RecGoto, RecOff, fileVars
<1>1. boot = "up" /\ UNCHANGED <<boot, sat>> /\ rec.pc # "off"
  BY DEF RecThread, RecStep, Reads, SaveOpens, SaveWrites, Updates
<1>2. CASE rec.pc = "get"
  <2>1. /\ rec' = [pc |-> "menu", cnf |-> Got]
        /\ seExcused' = (seExcused \/ Got = Junk) /\ UNCHANGED <<seFile, seConf, boot, sat>>
    BY <1>2 DEF RecThread, RecStep, Reads
  <2>2. rec'.pc = "menu" /\ rec'.cnf = Got
    BY <2>1
  <2>3. Got # Junk => Got \in Conf
    BY DEF Got, VshCopies
  <2>4. ~seExcused' => ~seExcused /\ Got # Junk
    BY <2>1
  <2> QED BY <1>1, <1>2, <2>1, <2>2, <2>3, <2>4
<1>3. CASE rec.pc = "menu"
  BY <1>1, <1>3 DEF RecThread, RecStep, Updates, Updated
<1>4. CASE rec.pc \in {"open1", "write1"}
  BY <1>1, <1>4 DEF RecThread, RecStep, SaveOpens, SaveWrites
<1>5. CASE rec.pc = "open2"
  BY <1>1, <1>5 DEF RecThread, RecStep, SaveOpens
<1>6. CASE rec.pc = "write2"
  <2>1. /\ rec'.pc = "off" /\ UNCHANGED seConf
        /\ \/ seFile' = rec.cnf /\ UNCHANGED seExcused
           \/ seExcused' = TRUE
    BY <1>6 DEF RecThread, RecStep, SaveWrites
  <2> QED BY <1>1, <1>6, <2>1
<1> QED BY <1>2, <1>3, <1>4, <1>5, <1>6 DEF RecThread, RecStep

\* The shell.
LEMMA ConfPoll ==
    ASSUME VshInv, VshConfInv, PollOpensMenu \/ PollStopsMenu \/ PollUnloadsMenu \/ PollTerminatesMenu
    PROVE  VshConfInv'
<1> USE DEF VshInv, VshTypes, VshSatInv, SatRecord, VshConfInv, SatAlive, SatOut, fileVars
<1>1. CASE PollOpensMenu
  BY <1>1 DEF PollOpensMenu, MayOpenMenu
<1>2. CASE PollStopsMenu \/ PollUnloadsMenu
  BY <1>2 DEF PollStopsMenu, PollUnloadsMenu, ThreadEnded
<1>3. CASE PollTerminatesMenu
  <2>1. /\ sat'.pc = "none" /\ UNCHANGED <<seFile, seConf, boot, rec>> /\ SatAlive
        /\ seExcused' = (seExcused \/ sat.pc \in {"write1", "act", "update", "open2", "write2"})
    BY <1>3 DEF PollTerminatesMenu
  <2>2. ~seExcused' => ~seExcused /\ sat.pc \in {"register", "get", "loop", "open1", "clear"}
    BY <2>1 DEF SatPcs
  <2>3. seExcused' \in BOOLEAN
    BY <2>1
  <2> QED BY <2>1, <2>2, <2>3
<1> QED BY <1>1, <1>2, <1>3

LEMMA ConfNext == ASSUME VshInv, VshConfInv, [VshNext]_vshVars PROVE VshConfInv'
<1>1. CASE UsbBegin \/ UsbStart \/ UsbStop \/ UsbEnd \/ UNCHANGED vshVars
  BY <1>1 DEF UsbBegin, UsbStart, UsbStop, UsbEnd, vshVars, fileVars, VshConfInv, SatAlive
<1> QED BY <1>1, ConfPowerLoss, ConfBootStep, ConfSatThread, ConfRecThread, ConfPoll
        DEF VshNext, RecRestart

\* ConfKept: when neither the menu nor Recovery runs, the file holds the configuration in
\* use, whoever saved last, unless one of the excuses was met.
THEOREM ConfKeptTheorem == VshSpec => []ConfKept
<1>1. VshInv /\ VshConfInv => ConfKept
  BY DEF VshInv, VshTypes, SatRecord, VshConfInv, ConfKept, SatAlive
<1>2. VshInv /\ VshConfInv /\ [VshNext]_vshVars => VshConfInv'
  BY ConfNext
<1> QED BY VshInvHolds, ConfInit, <1>1, <1>2, PTL DEF VshSpec

-----------------------------------------------------------------------------
(* The game list: the invariant                                            *)

GlEntry == [on : BOOLEAN, name : GlIsos \cup {GlNoName}, size : Nat, mtime : Nat,
            built : Int, seen : Nat]
GlFds == 1 .. GlMaxFds
GlTracked == [dfd : GlFds, iso : GlFds, path : {"root", "cat"}, left : SUBSET GlIsos]

GlTypes ==
    /\ glIso \in [GlIsos -> Nat] /\ \A f \in GlIsos : glIso[f] <= GlVersions[f]
    /\ glFile \in [Slots -> GlEntry] /\ glCaches \in [Slots -> GlEntry]
    /\ glList \in Seq(GlEntry)
    /\ glTrack \in Seq(GlTracked)
    /\ glOpen \subseteq GlFds /\ glGiven \subseteq GlFds \X BOOLEAN
    /\ glDelete \in [dir : Nat, temp : BOOLEAN, asked : Nat]

\* An entry of the cache or of its file: what a header was made from is what the
\* entry's time says, if it was made; the time of one cut short is no file's.
EntryRight(c) == c.on => c.built \in {c.mtime, Unbuilt} \/ c.mtime = 0

\* The header of an entry was made from a file.
GlBuilt(e) == e.name \in GlIsos /\ e.built \in 1 .. GlVersions[e.name]

GlListBuilt == \A i \in DOMAIN glList : glList[i].built > 0 => GlBuilt(glList[i])

GlCacheInv ==
    /\ \A s \in Slots : EntryRight(glFile[s]) /\ EntryRight(glCaches[s])
    /\ EntryFresh /\ GlListBuilt

\* No descriptor stands for two things.
GlDirInv ==
    /\ \A i, j \in DOMAIN glTrack : glTrack[i].dfd = glTrack[j].dfd => i = j
    /\ \A i \in DOMAIN glTrack : /\ \E p \in glGiven : p[1] = glTrack[i].dfd /\ p[2]
                                 /\ glTrack[i].dfd \in glOpen /\ glTrack[i].iso \in glOpen
    /\ \A p \in glGiven : p[1] \in glOpen /\ (p[2] => \E i \in DOMAIN glTrack : glTrack[i].dfd = p[1])
    /\ \A p, q \in glGiven : p[1] = q[1] => p = q
    /\ \A i \in DOMAIN glTrack : \A p \in glGiven : p[1] = glTrack[i].iso => p[1] = glTrack[i].dfd

GlDeleteInv == glDelete.temp => glDelete.dir = glDelete.asked

GlInv == GlTypes /\ GlCacheInv /\ GlDirInv /\ GlDeleteInv

\* The positions of the entries the menu has opened.
GlUsersInv == DOMAIN glUsers \subseteq DOMAIN glList /\ glUsers \in [DOMAIN glUsers -> Nat]

-----------------------------------------------------------------------------
(* The game list: the operators                                            *)

\* A list of directories without its entry i.
LEMMA RemoveAtType ==
    ASSUME NEW S, NEW s \in Seq(S), NEW i \in 1 .. Len(s)
    PROVE  /\ RemoveAt(s, i) \in Seq(S) /\ Len(RemoveAt(s, i)) = Len(s) - 1
           /\ DOMAIN RemoveAt(s, i) = 1 .. Len(s) - 1
           /\ \A j \in 1 .. Len(s) - 1 : RemoveAt(s, i)[j] = IF j < i THEN s[j] ELSE s[j + 1]
<1> DEFINE n == Len(s)
           a == SubSeq(s, 1, i - 1)
           b == SubSeq(s, i + 1, n)
<1>1. n \in Nat /\ \A k \in 1 .. n : s[k] \in S
  BY LenProperties, ElementOfSeq
<1>2. /\ a \in Seq(S) /\ Len(a) = i - 1 /\ \A k \in 1 .. i - 1 : a[k] = s[k]
  <2>1. 1 \in Int /\ i - 1 \in Int /\ 1 <= i /\ \A k \in 1 .. i - 1 : s[k] \in S
    BY <1>1
  <2>2. /\ a \in Seq(S) /\ Len(a) = IF 1 <= i - 1 THEN (i - 1) - 1 + 1 ELSE 0
        /\ \A k \in 1 .. (i - 1) - 1 + 1 : a[k] = s[1 + k - 1]
    BY <2>1, SubSeqProperties
  <2> HIDE DEF a
  <2> QED BY <2>1, <2>2
<1>3. /\ b \in Seq(S) /\ Len(b) = n - i /\ \A k \in 1 .. n - i : b[k] = s[i + k]
  <2>1. i + 1 \in Int /\ n \in Int /\ i <= n /\ \A k \in i + 1 .. n : s[k] \in S
    BY <1>1
  <2>2. /\ b \in Seq(S) /\ Len(b) = IF i + 1 <= n THEN n - (i + 1) + 1 ELSE 0
        /\ \A k \in 1 .. n - (i + 1) + 1 : b[k] = s[(i + 1) + k - 1]
    <3> HIDE DEF n
    <3> QED BY <2>1, SubSeqProperties
  <2> HIDE DEF b, n
  <2> QED BY <2>1, <2>2
<1>4. RemoveAt(s, i) = a \o b
  BY DEF RemoveAt
<1> HIDE DEF a, b
<1>5. /\ a \o b \in Seq(S) /\ Len(a \o b) = Len(a) + Len(b)
      /\ \A k \in 1 .. Len(a) + Len(b) : (a \o b)[k] = IF k <= Len(a) THEN a[k] ELSE b[k - Len(a)]
  BY <1>2, <1>3, ConcatProperties
<1>6. Len(a) + Len(b) = n - 1
  BY <1>1, <1>2, <1>3
<1>7. DOMAIN (a \o b) = 1 .. n - 1
  BY <1>5, <1>6, LenProperties
<1>8. ASSUME NEW j \in 1 .. n - 1
      PROVE  (a \o b)[j] = IF j < i THEN s[j] ELSE s[j + 1]
  <2>1. (a \o b)[j] = IF j <= i - 1 THEN a[j] ELSE b[j - (i - 1)]
    BY <1>2, <1>5, <1>6
  <2>2. CASE j < i
    <3>1. j \in 1 .. i - 1 /\ j <= i - 1
      BY <1>1, <2>2
    <3> QED BY <1>2, <2>1, <2>2, <3>1
  <2>3. CASE ~(j < i)
    <3>1. j - (i - 1) \in 1 .. n - i /\ ~(j <= i - 1) /\ i + (j - (i - 1)) = j + 1
      BY <1>1, <2>3
    <3> QED BY <1>3, <2>1, <2>3, <3>1
  <2> QED BY <2>2, <2>3
<1> QED BY <1>4, <1>5, <1>6, <1>7, <1>8

LEMMA GlBlank == Blank \in GlEntry /\ NoCache \in [Slots -> GlEntry] /\ ~Blank.on
  BY DEF Blank, GlEntry, NoCache

\* A new entry of the list.
LEMMA ListKeeps ==
    ASSUME GlTypes, EntryFresh, GlListBuilt, NEW e \in GlEntry, e.name \in GlIsos,
           e.built \in {glIso[e.name], Unbuilt, Refused}, List(e)
    PROVE  glList' \in Seq(GlEntry) /\ EntryFresh' /\ GlListBuilt'
<1> DEFINE x == [e EXCEPT !.seen = glIso[e.name]]
<1>1. x \in GlEntry /\ x.built \in {x.seen, Unbuilt, Refused}
  BY DEF GlTypes, GlEntry
<1>0. x.built > 0 => GlBuilt(x)
  <2>1. x.name = e.name /\ x.built = e.built
    BY DEF GlEntry
  <2>2. glIso[e.name] \in Nat /\ glIso[e.name] <= GlVersions[e.name] /\ GlVersions[e.name] \in Nat
    BY GlAssumption DEF GlTypes
  <2> HIDE DEF x
  <2> QED BY <2>1, <2>2 DEF GlBuilt, Unbuilt, Refused
<1>2. glList \in Seq(GlEntry) /\ glList' = Append(glList, x)
  BY DEF GlTypes, List
<1> HIDE DEF x
<1>3. /\ Append(glList, x) \in Seq(GlEntry) /\ Len(Append(glList, x)) = Len(glList) + 1
      /\ \A i \in 1 .. Len(glList) : Append(glList, x)[i] = glList[i]
      /\ Append(glList, x)[Len(glList) + 1] = x
  BY <1>1, <1>2, AppendProperties
<1>4. Len(glList) \in Nat /\ DOMAIN glList = 1 .. Len(glList)
  BY <1>2, LenProperties
<1>5. DOMAIN glList' = 1 .. Len(glList) + 1
  BY <1>2, <1>3, LenProperties
<1>6. ASSUME NEW i \in 1 .. Len(glList) + 1
      PROVE  glList'[i].built \in {glList'[i].seen, Unbuilt, Refused}
  <2>1. i \in 1 .. Len(glList) \/ i = Len(glList) + 1
    BY <1>4
  <2> QED BY <1>1, <1>2, <1>3, <1>4, <2>1 DEF EntryFresh
<1>7. ASSUME NEW i \in 1 .. Len(glList) + 1, glList'[i].built > 0
      PROVE  GlBuilt(glList'[i])
  <2>1. i \in 1 .. Len(glList) \/ i = Len(glList) + 1
    BY <1>4
  <2> QED BY <1>0, <1>2, <1>3, <1>4, <1>7, <2>1 DEF GlListBuilt
<1> QED BY <1>2, <1>3, <1>5, <1>6, <1>7 DEF EntryFresh, GlListBuilt

\* A new entry of the cache.
LEMMA AddCacheKeeps ==
    ASSUME GlTypes, GlCacheInv, NEW e \in GlEntry, EntryRight(e),
           AddCache(e) \/ UNCHANGED <<glCaches, glRef, glDirty>>
    PROVE  glCaches' \in [Slots -> GlEntry] /\ \A s \in Slots : EntryRight(glCaches'[s])
  BY DEF AddCache, GlTypes, GlCacheInv, EntryRight

\* A file's descriptors in the list of directories.
LEMMA TrackIndex ==
    ASSUME GlTypes
    PROVE  /\ Len(glTrack) \in Nat /\ DOMAIN glTrack = 1 .. Len(glTrack)
           /\ \A i \in DOMAIN glTrack : glTrack[i] \in GlTracked
  BY LenProperties, ElementOfSeq DEF GlTypes

-----------------------------------------------------------------------------
(* The game list: a read of a virtual file                                 *)

LEMMA SectTypes ==
    ASSUME NEW e, GlBuilt(e)
    PROVE  LastSect(e) \in Nat /\ \A j \in 0 .. LastSect(e) : SectSize(e, j) \in Nat
<1>1. GlSects[e.name][e.built] \in Seq(Nat)
  BY GlAssumption DEF GlBuilt
<1> DEFINE s == GlSects[e.name][e.built]
<1>2. Len(s) \in Nat /\ \A j \in 1 .. Len(s) : s[j] \in Nat
  <2> HIDE DEF s
  <2>1. s \in Seq(Nat)
    BY <1>1 DEF s
  <2> QED BY <2>1, ElementOfSeq, LenProperties
<1>3. GlSfo \in Nat
  BY GlAssumption
<1> QED BY <1>2, <1>3 DEF LastSect, SectSize

\* Where the sections begin.
LEMMA HeaderStep ==
    ASSUME NEW e, GlBuilt(e)
    PROVE  /\ Header(e) \in [0 .. LastSect(e) + 1 -> Nat] /\ Header(e)[0] = GlHead
           /\ \A i \in 1 .. LastSect(e) + 1 : Header(e)[i] = Header(e)[i - 1] + SectSize(e, i - 1)
<1> DEFINE n == LastSect(e) + 1
           Is(h) == h = [j \in 0 .. n |-> IF j = 0 THEN GlHead ELSE h[j - 1] + SectSize(e, j - 1)]
<1>1. n \in Nat /\ 0 \in 0 .. n /\ \A i \in 1 .. n : i \in 0 .. n /\ i - 1 \in 0 .. n /\ i # 0
      /\ SectSize(e, i - 1) \in Nat
  BY SectTypes
<1>2. GlHead \in Nat
  BY GlAssumption
<1>3. \E h : Is(h)
  <2> DEFINE step == [i \in 1 .. n |-> [x \in Nat |-> x + SectSize(e, i - 1)]]
  <2>1. step \in StepsIn(Nat, n)
    BY <1>1 DEF StepsIn
  <2>0. PICK f : Steps(f, Nat, n, GlHead, step)
    <3> HIDE DEF step, n
    <3> QED BY <1>1, <1>2, <2>1, StepFunction
  <2>2. f \in [0 .. n -> Nat] /\ f[0] = GlHead /\ \A i \in 1 .. n : f[i] = step[i][f[i - 1]]
    BY <2>0 DEF Steps
  <2>3. \A i \in 1 .. n : f[i] = f[i - 1] + SectSize(e, i - 1)
    <3> HIDE DEF n
    <3> QED BY <1>1, <2>2
  <2>4. f = [j \in 0 .. n |-> IF j = 0 THEN GlHead ELSE f[j - 1] + SectSize(e, j - 1)]
    <3>1. \A j \in 0 .. n : f[j] = IF j = 0 THEN GlHead ELSE f[j - 1] + SectSize(e, j - 1)
      <4> TAKE j \in 0 .. n
      <4>1. j = 0 \/ j \in 1 .. n
        OBVIOUS
      <4> HIDE DEF n
      <4> QED BY <1>1, <2>2, <2>3, <4>1
    <3> HIDE DEF n
    <3> QED BY <2>2, <3>1
  <2> QED BY <2>4
<1>4. Is(Header(e))
  <2>1. Header(e) = CHOOSE h : Is(h)
    BY DEF Header
  <2> HIDE DEF Is
  <2> QED BY <1>3, <2>1
<1> DEFINE h == Header(e)
<1>5. h[0] = GlHead /\ \A i \in 1 .. n : h[i] = h[i - 1] + SectSize(e, i - 1)
  <2> HIDE DEF n
  <2> QED BY <1>1, <1>4
<1>6. \A i \in 0 .. n : h[i] \in Nat
  <2> DEFINE T == {i \in 0 .. n : h[i] \in Nat}
  <2> HIDE DEF h, n
  <2>1. 0 \in T
    BY <1>1, <1>2, <1>5
  <2>2. \A i \in 1 .. n : i - 1 \in T => i \in T
    BY <1>1, <1>5
  <2>3. 0 .. n \subseteq T
    <3> HIDE DEF T
    <3> QED BY <1>1, <2>1, <2>2, UpTo
  <2> QED BY <2>3
<1>7. h \in [0 .. n -> Nat]
  <2> HIDE DEF n
  <2> QED BY <1>4, <1>6
<1> QED BY <1>5, <1>7

LEMMA HeaderGrows ==
    ASSUME NEW e, GlBuilt(e)
    PROVE  /\ \A j \in 0 .. LastSect(e) + 1 : \A i \in 0 .. j : Header(e)[i] <= Header(e)[j]
           /\ Header(e)[1] = GlHead + GlSfo
<1> DEFINE n == LastSect(e) + 1
           h == Header(e)
           T == {j \in 0 .. n : \A i \in 0 .. j : h[i] <= h[j]}
<1>1. n \in Nat /\ 1 \in 1 .. n /\ \A j \in 0 .. LastSect(e) : SectSize(e, j) \in Nat
  BY SectTypes
<1>2. h \in [0 .. n -> Nat] /\ h[0] = GlHead /\ \A i \in 1 .. n : h[i] = h[i - 1] + SectSize(e, i - 1)
  BY HeaderStep
<1> HIDE DEF h
<1>3. 0 \in T
  BY <1>1, <1>2
<1>4. ASSUME NEW j \in 1 .. n, j - 1 \in T PROVE j \in T
  <2>0. j \in 0 .. n /\ j - 1 \in 0 .. n /\ j - 1 \in 0 .. LastSect(e) /\ 0 .. j \subseteq 0 .. n
    BY <1>1, SectTypes
  <2>1. h[j] = h[j - 1] + SectSize(e, j - 1) /\ SectSize(e, j - 1) \in Nat /\ h[j] \in Nat
        /\ h[j - 1] \in Nat
    <3> HIDE DEF n
    <3> QED BY <1>1, <1>2, <2>0
  <2>2. ASSUME NEW i \in 0 .. j PROVE h[i] <= h[j]
    <3>1. CASE i = j
      BY <2>1, <3>1
    <3>2. CASE i # j
      <4>1. i \in 0 .. j - 1 /\ h[i] \in Nat
        <5> HIDE DEF n
        <5> QED BY <1>1, <1>2, <2>0, <3>2
      <4>2. h[i] <= h[j - 1]
        BY <1>4, <4>1
      <4> QED BY <2>1, <4>1, <4>2
    <3> QED BY <3>1, <3>2
  <2> QED BY <2>2
<1>5. 0 .. n \subseteq T
  <2> HIDE DEF T, n
  <2> QED BY <1>1, <1>3, <1>4, UpTo
<1>6. h[1] = GlHead + GlSfo
  <2>1. h[1] = h[1 - 1] + SectSize(e, 1 - 1)
    BY <1>1, <1>2
  <2> QED BY <1>2, <2>1 DEF SectSize
<1> QED BY <1>5, <1>6 DEF h

LEMMA FunctionIsSeq ==
    ASSUME NEW S, NEW n \in Nat, NEW f \in [1 .. n -> S]
    PROVE  f \in Seq(S) /\ Len(f) = n
<1>1. f \in Seq(S)
  BY SeqDef
<1>2. Len(f) \in Nat /\ 1 .. Len(f) = 1 .. n
  BY <1>1, LenProperties
<1>3. Len(f) <= n
  <2>1. Len(f) = 0 \/ Len(f) \in 1 .. Len(f)
    BY <1>2
  <2> QED BY <1>2, <2>1
<1>4. n <= Len(f)
  <2>1. n = 0 \/ n \in 1 .. n
    OBVIOUS
  <2> QED BY <1>2, <2>1
<1> QED BY <1>1, <1>2, <1>3, <1>4

\* What the bytes of a virtual file made from an image can be.
GlBytes(img) == ({"header"} \X Int) \cup ({img} \X Int \X Int)

\* s is what comes before section i of entry e's virtual file.
GlBefore(s, e, i) ==
    /\ s \in Seq(GlBytes(<<e.name, e.built>>)) /\ Len(s) = Header(e)[i]
    /\ \A p \in 0 .. GlHead - 1 : s[p + 1] = <<"header", p>>
    /\ \A j \in 0 .. i - 1 : \A p \in Header(e)[j] .. Header(e)[j + 1] - 1 :
          s[p + 1] = <<<<e.name, e.built>>, j, p - Header(e)[j]>>

GlHeadPart == [k \in 1 .. GlHead |-> <<"header", k - 1>>]
GlPart(e, j) == [k \in 1 .. SectSize(e, j) |-> <<<<e.name, e.built>>, j, k - 1>>]

LEMMA HeadPartBefore == ASSUME NEW e, GlBuilt(e) PROVE GlBefore(GlHeadPart, e, 0)
<1>1. GlHead \in Nat /\ Header(e)[0] = GlHead
  BY GlAssumption, HeaderStep
<1>2. GlHeadPart \in [1 .. GlHead -> GlBytes(<<e.name, e.built>>)]
  BY <1>1 DEF GlHeadPart, GlBytes
<1>3. GlHeadPart \in Seq(GlBytes(<<e.name, e.built>>)) /\ Len(GlHeadPart) = GlHead
  BY <1>1, <1>2, FunctionIsSeq
<1>4. \A p \in 0 .. GlHead - 1 : GlHeadPart[p + 1] = <<"header", p>>
  <2> TAKE p \in 0 .. GlHead - 1
  <2>1. p + 1 \in 1 .. GlHead /\ (p + 1) - 1 = p
    BY <1>1
  <2> QED BY <2>1 DEF GlHeadPart
<1>5. 0 .. 0 - 1 = {}
  OBVIOUS
<1> QED BY <1>1, <1>3, <1>4, <1>5 DEF GlBefore

\* A section more.
LEMMA PartBefore ==
    ASSUME NEW e, GlBuilt(e), NEW i \in 1 .. LastSect(e) + 1, NEW s, GlBefore(s, e, i - 1)
    PROVE  GlBefore(s \o GlPart(e, i - 1), e, i)
<1> DEFINE B == GlBytes(<<e.name, e.built>>)
           h == Header(e)
           part == GlPart(e, i - 1)
           t == s \o part
<1>1. LastSect(e) \in Nat /\ i \in Nat /\ i - 1 \in 0 .. LastSect(e) /\ i - 1 \in Int
      /\ SectSize(e, i - 1) \in Nat
  BY SectTypes
<1>2. \A j \in 0 .. i : h[j] \in Nat /\ h[j] >= GlHead
  <2> TAKE j \in 0 .. i
  <2>1. j \in 0 .. LastSect(e) + 1 /\ 0 \in 0 .. j
    BY <1>1
  <2>2. h[0] <= h[j]
    BY <2>1, HeaderGrows
  <2> QED BY <2>1, <2>2, HeaderStep, GlAssumption
<1>3. h[i] = h[i - 1] + SectSize(e, i - 1) /\ h[i - 1] \in Nat /\ GlHead \in Nat
  BY <1>1, <1>2, HeaderStep, GlAssumption
<1>4. part \in Seq(B) /\ Len(part) = SectSize(e, i - 1)
  <2>1. part \in [1 .. SectSize(e, i - 1) -> B]
    BY <1>1 DEF GlPart, GlBytes
  <2> HIDE DEF part, B
  <2> QED BY <1>1, <2>1, FunctionIsSeq
<1>5. s \in Seq(B) /\ Len(s) = h[i - 1]
  BY DEF GlBefore
<1>6. /\ t \in Seq(B) /\ Len(t) = h[i]
      /\ \A k \in 1 .. h[i] : t[k] = IF k <= h[i - 1] THEN s[k] ELSE part[k - h[i - 1]]
  <2> HIDE DEF part, B, h
  <2>1. /\ t \in Seq(B) /\ Len(t) = Len(s) + Len(part)
        /\ \A k \in 1 .. Len(s) + Len(part) : t[k] = IF k <= Len(s) THEN s[k] ELSE part[k - Len(s)]
    BY <1>4, <1>5, ConcatProperties
  <2> QED BY <1>3, <1>4, <1>5, <2>1
<1>7. \A p \in 0 .. h[i - 1] - 1 : t[p + 1] = s[p + 1]
  <2> TAKE p \in 0 .. h[i - 1] - 1
  <2>1. p + 1 \in 1 .. h[i] /\ p + 1 <= h[i - 1]
    BY <1>1, <1>3
  <2> HIDE DEF t
  <2> QED BY <1>6, <2>1
<1>8. \A p \in 0 .. GlHead - 1 : t[p + 1] = <<"header", p>>
  <2> TAKE p \in 0 .. GlHead - 1
  <2>1. p \in 0 .. h[i - 1] - 1
    BY <1>1, <1>2, <1>3
  <2> HIDE DEF t
  <2> QED BY <1>7, <2>1 DEF GlBefore
<1>9. ASSUME NEW j \in 0 .. i - 1, NEW p \in h[j] .. h[j + 1] - 1
      PROVE  t[p + 1] = <<<<e.name, e.built>>, j, p - h[j]>>
  <2>1. j \in Nat /\ h[j] \in Nat /\ j + 1 \in 0 .. i /\ h[j + 1] \in Nat
    BY <1>1, <1>2
  <2>2. CASE j = i - 1
    <3>1. j + 1 = i
      BY <1>1, <2>2
    <3>2. p + 1 \in 1 .. h[i] /\ ~(p + 1 <= h[i - 1]) /\ (p + 1) - h[i - 1] \in 1 .. SectSize(e, i - 1)
          /\ ((p + 1) - h[i - 1]) - 1 = p - h[i - 1]
      <4>1. p \in h[i - 1] .. h[i] - 1
        BY <2>2, <3>1
      <4> HIDE DEF h
      <4> QED BY <1>1, <1>3, <4>1
    <3>3. t[p + 1] = part[(p + 1) - h[i - 1]]
      <4> HIDE DEF t, part
      <4> QED BY <1>6, <3>2
    <3>4. part[(p + 1) - h[i - 1]] = <<<<e.name, e.built>>, i - 1, p - h[i - 1]>>
      <4> HIDE DEF h
      <4> QED BY <3>2 DEF GlPart
    <3> QED BY <2>2, <3>3, <3>4
  <2>3. CASE j # i - 1
    <3>1. j \in 0 .. (i - 1) - 1 /\ j + 1 \in 0 .. i - 1
      BY <1>1, <2>1, <2>3
    <3>2. h[j + 1] <= h[i - 1]
      <4>1. i - 1 \in 0 .. LastSect(e) + 1
        BY <1>1
      <4> QED BY <3>1, <4>1, HeaderGrows
    <3>3. p \in 0 .. h[i - 1] - 1
      <4> HIDE DEF h
      <4> QED BY <1>3, <2>1, <3>2
    <3>4. s[p + 1] = <<<<e.name, e.built>>, j, p - h[j]>>
      BY <3>1 DEF GlBefore
    <3> HIDE DEF t, h
    <3> QED BY <1>7, <3>3, <3>4
  <2> QED BY <2>2, <2>3
<1> HIDE DEF t
<1> QED BY <1>6, <1>8, <1>9 DEF GlBefore, t

\* What WantedUpTo gives.
LEMMA WantedBefore ==
    ASSUME NEW e, GlBuilt(e)
    PROVE  \A i \in 0 .. LastSect(e) + 1 : GlBefore(WantedUpTo(e)[i], e, i)
<1> DEFINE n == LastSect(e) + 1
           Is(w) == w = [j \in 0 .. n |-> IF j = 0 THEN GlHeadPart ELSE w[j - 1] \o GlPart(e, j - 1)]
           S == Seq(GlBytes(<<e.name, e.built>>))
           step == [i \in 1 .. n |-> [x \in S |-> x \o GlPart(e, i - 1)]]
           w == WantedUpTo(e)
<1>1. n \in Nat /\ \A i \in 1 .. n : i \in 0 .. n /\ i - 1 \in 0 .. n /\ i # 0
      /\ i - 1 \in 0 .. LastSect(e)
  BY SectTypes
<1>2. GlHeadPart \in S
  BY HeadPartBefore DEF GlBefore
<1>3. \A i \in 1 .. n : GlPart(e, i - 1) \in S
  <2> TAKE i \in 1 .. n
  <2>1. SectSize(e, i - 1) \in Nat /\ i - 1 \in Int
    BY <1>1, SectTypes
  <2>2. GlPart(e, i - 1) \in [1 .. SectSize(e, i - 1) -> GlBytes(<<e.name, e.built>>)]
    BY <2>1 DEF GlPart, GlBytes
  <2> QED BY <2>1, <2>2, FunctionIsSeq
<1>4. step \in StepsIn(S, n)
  <2> HIDE DEF n
  <2>1. \A i \in 1 .. n : \A x \in S : x \o GlPart(e, i - 1) \in S
    <3> TAKE i \in 1 .. n
    <3> TAKE x \in S
    <3> QED BY <1>3, ConcatProperties
  <2> HIDE DEF S
  <2> QED BY <2>1 DEF StepsIn
<1>5. \E f : Is(f)
  <2>1. PICK f : Steps(f, S, n, GlHeadPart, step)
    <3> HIDE DEF step, n, S, Is
    <3> QED BY <1>1, <1>2, <1>4, StepFunction
  <2> HIDE DEF S
  <2>2. f \in [0 .. n -> S] /\ f[0] = GlHeadPart /\ \A i \in 1 .. n : f[i] = step[i][f[i - 1]]
    BY <2>1 DEF Steps
  <2>3. \A i \in 1 .. n : f[i] = f[i - 1] \o GlPart(e, i - 1)
    <3> HIDE DEF n
    <3> QED BY <1>1, <2>2
  <2>4. \A j \in 0 .. n : f[j] = IF j = 0 THEN GlHeadPart ELSE f[j - 1] \o GlPart(e, j - 1)
    <3> TAKE j \in 0 .. n
    <3>1. j = 0 \/ j \in 1 .. n
      OBVIOUS
    <3> HIDE DEF n
    <3> QED BY <1>1, <2>2, <2>3, <3>1
  <2>5. Is(f)
    <3> HIDE DEF n
    <3> QED BY <2>2, <2>4
  <2> HIDE DEF Is
  <2> QED BY <2>5
<1>6. Is(w)
  <2>1. w = CHOOSE f : Is(f)
    BY DEF WantedUpTo, GlHeadPart, GlPart
  <2> HIDE DEF Is, w
  <2> QED BY <1>5, <2>1
<1> HIDE DEF w
<1>7. w[0] = GlHeadPart /\ \A i \in 1 .. n : w[i] = w[i - 1] \o GlPart(e, i - 1)
  <2>1. 0 \in 0 .. n
    BY <1>1
  <2> HIDE DEF n
  <2> QED BY <1>1, <1>6, <2>1
<1> DEFINE T == {i \in 0 .. n : GlBefore(w[i], e, i)}
<1>8. 0 \in T
  BY <1>1, <1>7, HeadPartBefore
<1>9. \A i \in 1 .. n : i - 1 \in T => i \in T
  BY <1>1, <1>7, PartBefore
<1>10. 0 .. n \subseteq T
  <2> HIDE DEF T, n
  <2> QED BY <1>1, <1>8, <1>9, UpTo
<1> QED BY <1>10 DEF w

\* What one turn of the loop appends.
LEMMA CellsAre ==
    ASSUME NEW what \in Int, NEW from \in Int, NEW n \in Nat
    PROVE  /\ Cells(what, from, n) \in Seq(GlBytes(glImage)) /\ Len(Cells(what, from, n)) = n
           /\ \A k \in 1 .. n : Cells(what, from, n)[k] = <<glImage, what, from + k - 1>>
<1>1. Cells(what, from, n) \in [1 .. n -> GlBytes(glImage)]
  BY DEF Cells, GlBytes
<1>2. \A k \in 1 .. n : Cells(what, from, n)[k] = <<glImage, what, from + k - 1>>
  BY DEF Cells
<1> QED BY <1>1, <1>2, FunctionIsSeq

\* Entry e's section idx, or its header or PARAM.SFO, where pos is in it: d.
GlGives(e, idx, pos, left, d) ==
    /\ d \in Seq(GlBytes(glImage)) /\ Len(d) \in 0 .. left
    /\ pos < GlHead => /\ Len(d) = Least(left, GlHead - pos)
                       /\ \A k \in 1 .. Len(d) : d[k] = <<"header", 4 * pos + k - 1>>
    /\ \A j \in {0, idx} : Header(e)[j] <= pos /\ pos < Header(e)[j + 1] =>
           /\ Len(d) = Least(left, Header(e)[j + 1] - pos)
           /\ \A k \in 1 .. Len(d) : d[k] = <<glImage, j, pos - Header(e)[j] + k - 1>>
    /\ pos >= Header(e)[1] /\ ~(Header(e)[idx] <= pos /\ pos < Header(e)[idx + 1]) => Len(d) = 0

LEMMA SectionDataGives ==
    ASSUME NEW e, GlBuilt(e), NEW idx \in 0 .. LastSect(e), NEW pos \in Nat, NEW left \in Nat,
           NEW d, d = SectionData(e, idx, pos, left)
    PROVE  GlGives(e, idx, pos, left, d)
<1> DEFINE h == Header(e)
<1>1. LastSect(e) \in Nat /\ idx \in Nat /\ idx + 1 \in 0 .. LastSect(e) + 1
      /\ idx \in 0 .. LastSect(e) + 1
      /\ 1 \in 0 .. LastSect(e) + 1 /\ (idx + 1) - 1 = idx /\ idx + 1 \in 1 .. LastSect(e) + 1
  BY SectTypes
<1>2. /\ h[0] = GlHead /\ h[1] = GlHead + GlSfo /\ h[1] \in Nat /\ h[idx] \in Nat /\ h[idx + 1] \in Nat
      /\ GlHead \in Nat \ {0} /\ GlSfo \in Nat \ {0}
  BY <1>1, HeaderStep, HeaderGrows, GlAssumption
<1>3. h[idx + 1] = h[idx] + SectSize(e, idx) /\ SectSize(e, idx) \in Nat
  BY <1>1, HeaderStep, SectTypes
<1>4. SectRest(e, idx, pos) = h[idx + 1] - pos /\ SectRest(e, 0, pos) = h[1] - pos
  <2>1. SectRest(e, idx, pos) = SectSize(e, idx) - (pos - h[idx])
    BY DEF SectRest
  <2>2. SectRest(e, 0, pos) = GlSfo - (pos - GlHead)
    BY <1>2 DEF SectRest, SectSize
  <2> HIDE DEF h
  <2> QED BY <1>2, <1>3, <2>1, <2>2
<1>5. idx >= 1 => h[1] <= h[idx]
  <2>1. idx >= 1 => 1 \in 0 .. idx
    BY <1>1
  <2> QED BY <1>1, <2>1, HeaderGrows
<1> DEFINE least(x) == Least(left, x)
<1>6. \A x \in Nat : least(x) \in 0 .. left
  BY DEF Least
<1>7. CASE pos < GlHead
  <2> DEFINE n == least(GlHead - pos)
  <2>1. n \in 0 .. left /\ n \in Nat
    BY <1>2, <1>6, <1>7
  <2>2. d = [k \in 1 .. n |-> <<"header", 4 * pos + k - 1>>]
    BY <1>7 DEF SectionData
  <2> HIDE DEF n
  <2>3. d \in [1 .. n -> GlBytes(glImage)]
    <3>1. \A k \in 1 .. n : <<"header", 4 * pos + k - 1>> \in GlBytes(glImage)
      BY <2>1 DEF GlBytes
    <3> QED BY <2>2, <3>1
  <2>4. \A k \in 1 .. n : d[k] = <<"header", 4 * pos + k - 1>>
    BY <2>2
  <2>5. d \in Seq(GlBytes(glImage)) /\ Len(d) = n
    BY <2>1, <2>3, FunctionIsSeq
  <2>6. ~(h[0] <= pos) /\ ~(pos >= h[1]) /\ ~(h[idx] <= pos)
    <3>1. h[0] <= h[idx]
      BY <1>1, HeaderGrows
    <3> HIDE DEF h
    <3> QED BY <1>2, <1>7, <3>1
  <2> QED BY <2>1, <2>4, <2>5, <2>6 DEF n, GlGives
<1>8. CASE ~(pos < GlHead) /\ pos < h[1]
  <2> DEFINE n == least(h[1] - pos)
  <2>1. n \in 0 .. left /\ n \in Nat /\ pos - GlHead \in Int /\ 0 \in Int
    BY <1>2, <1>6, <1>8
  <2>2. d = Cells(0, pos - GlHead, n)
    BY <1>4, <1>8 DEF SectionData
  <2> HIDE DEF n
  <2>3. /\ d \in Seq(GlBytes(glImage)) /\ Len(d) = n
        /\ \A k \in 1 .. n : d[k] = <<glImage, 0, pos - GlHead + k - 1>>
    BY <2>1, <2>2, CellsAre
  <2>4. \A j \in {0, idx} : h[j] <= pos /\ pos < h[j + 1] => j = 0 /\ j + 1 = 1
    <3> HIDE DEF h
    <3> QED BY <1>1, <1>2, <1>5, <1>8
  <2>5. ~(pos >= h[1])
    <3> HIDE DEF h
    <3> QED BY <1>2, <1>8
  <2> QED BY <1>2, <1>8, <2>1, <2>3, <2>4, <2>5 DEF n, GlGives
<1>9. CASE ~(pos < GlHead) /\ ~(pos < h[1]) /\ pos >= h[idx] /\ pos < h[idx + 1]
  <2> DEFINE n == least(h[idx + 1] - pos)
  <2>1. n \in 0 .. left /\ n \in Nat /\ pos - h[idx] \in Int /\ idx \in Int
    BY <1>1, <1>2, <1>6, <1>9
  <2>2. d = Cells(idx, pos - h[idx], n)
    BY <1>4, <1>9 DEF SectionData
  <2> HIDE DEF n
  <2>3. /\ d \in Seq(GlBytes(glImage)) /\ Len(d) = n
        /\ \A k \in 1 .. n : d[k] = <<glImage, idx, pos - h[idx] + k - 1>>
    <3> HIDE DEF h
    <3> QED BY ONLY <2>1, <2>2, CellsAre
  <2>4. \A j \in {0, idx} : h[j] <= pos /\ pos < h[j + 1] => j = idx
    <3>1. 0 + 1 = 1
      OBVIOUS
    <3> QED BY <1>9, <3>1
  <2> QED BY <1>9, <2>1, <2>3, <2>4 DEF n, GlGives
<1>10. CASE ~(pos < GlHead) /\ ~(pos < h[1]) /\ ~(pos >= h[idx] /\ pos < h[idx + 1])
  <2>1. d = <<>>
    BY <1>10 DEF SectionData
  <2>2. <<>> \in Seq(GlBytes(glImage)) /\ Len(<<>>) = 0 /\ 0 \in 0 .. left
    BY EmptySeq
  <2>3. \A j \in {0, idx} : ~(h[j] <= pos /\ pos < h[j + 1])
    <3>1. 0 + 1 = 1
      OBVIOUS
    <3> HIDE DEF h
    <3> QED BY <1>2, <1>10, <3>1
  <2> QED BY <1>10, <2>1, <2>2, <2>3 DEF GlGives
<1> QED BY <1>7, <1>8, <1>9, <1>10 DEF GlGives

\* What a read has done so far.
GlReading == [fp : Nat, left : Nat, data : Seq(GlBytes(glImage)), err : BOOLEAN]

\* One turn of the loop: nothing, or what SectionData gives is appended.
LEMMA TurnTypes ==
    ASSUME NEW e, GlBuilt(e), NEW fails \in BOOLEAN, NEW idx \in 0 .. LastSect(e), NEW r \in GlReading
    PROVE  ReadSection(e, fails, idx, r) \in GlReading
<1> DEFINE d == SectionData(e, idx, r.fp, r.left)
           q == ReadSection(e, fails, idx, r)
           B == GlBytes(glImage)
<1>1. r.fp \in Nat /\ r.left \in Nat /\ r.data \in Seq(B) /\ r.err \in BOOLEAN
  BY DEF GlReading
<1>2. d \in Seq(B) /\ Len(d) \in 0 .. r.left
  BY <1>1, SectionDataGives DEF GlGives
<1>3. q = r \/ q = [r EXCEPT !.err = TRUE]
      \/ q = [r EXCEPT !.fp = r.fp + Len(d), !.left = r.left - Len(d), !.data = r.data \o d]
  BY DEF ReadSection
<1> HIDE DEF d, q, B
<1>4. r.data \o d \in Seq(B)
  BY <1>1, <1>2, ConcatProperties
<1>5. r.fp + Len(d) \in Nat /\ r.left - Len(d) \in Nat
  BY <1>1, <1>2
<1>6. [r EXCEPT !.err = TRUE] \in GlReading
  BY DEF GlReading
<1>7. [r EXCEPT !.fp = r.fp + Len(d), !.left = r.left - Len(d), !.data = r.data \o d] \in GlReading
  BY <1>4, <1>5 DEF GlReading, B
<1> QED BY <1>3, <1>6, <1>7 DEF q

\* after: what has been read after each turn of a pass from r.
GlTurns(e, fails, r, after) ==
    /\ after \in [0 .. LastSect(e) + 1 -> GlReading] /\ after[0] = r
    /\ \A i \in 1 .. LastSect(e) + 1 : after[i] = ReadSection(e, fails, i - 1, after[i - 1])

LEMMA TurnsStep ==
    ASSUME NEW e, GlBuilt(e), NEW fails \in BOOLEAN, NEW r \in GlReading
    PROVE  GlTurns(e, fails, r, ReadSections(e, fails, r))
<1> DEFINE n == LastSect(e) + 1
           Is(a) == a = [j \in 0 .. n |-> IF j = 0 THEN r ELSE ReadSection(e, fails, j - 1, a[j - 1])]
           step == [i \in 1 .. n |-> [x \in GlReading |-> ReadSection(e, fails, i - 1, x)]]
           after == ReadSections(e, fails, r)
<1>1. n \in Nat /\ \A i \in 1 .. n : i \in 0 .. n /\ i - 1 \in 0 .. n /\ i # 0
      /\ i - 1 \in 0 .. LastSect(e)
  BY SectTypes
<1>2. \A i \in 1 .. n : \A x \in GlReading : ReadSection(e, fails, i - 1, x) \in GlReading
  <2> HIDE DEF n
  <2> QED BY <1>1, TurnTypes
<1>3. step \in StepsIn(GlReading, n)
  <2> HIDE DEF n
  <2> QED BY <1>2 DEF StepsIn
<1>4. \E f : Is(f)
  <2>1. PICK f : Steps(f, GlReading, n, r, step)
    <3> HIDE DEF step, n, Is
    <3> QED BY <1>1, <1>3, StepFunction
  <2>2. f \in [0 .. n -> GlReading] /\ f[0] = r /\ \A i \in 1 .. n : f[i] = step[i][f[i - 1]]
    BY <2>1 DEF Steps
  <2>3. \A i \in 1 .. n : f[i] = ReadSection(e, fails, i - 1, f[i - 1])
    <3> HIDE DEF n
    <3> QED BY <1>1, <2>2
  <2>4. \A j \in 0 .. n : f[j] = IF j = 0 THEN r ELSE ReadSection(e, fails, j - 1, f[j - 1])
    <3> TAKE j \in 0 .. n
    <3>1. j = 0 \/ j \in 1 .. n
      OBVIOUS
    <3> HIDE DEF n
    <3> QED BY <1>1, <2>2, <2>3, <3>1
  <2>5. Is(f)
    <3> HIDE DEF n
    <3> QED BY <2>2, <2>4
  <2> HIDE DEF Is
  <2> QED BY <2>5
<1>5. Is(after)
  <2>1. after = CHOOSE f : Is(f)
    BY DEF ReadSections
  <2> HIDE DEF Is, after
  <2> QED BY <1>4, <2>1
<1> HIDE DEF after
<1>6. after[0] = r /\ \A i \in 1 .. n : after[i] = ReadSection(e, fails, i - 1, after[i - 1])
  <2>1. 0 \in 0 .. n
    BY <1>1
  <2> HIDE DEF n
  <2> QED BY <1>1, <1>5, <2>1
<1> DEFINE T == {i \in 0 .. n : after[i] \in GlReading}
<1>7. 0 .. n \subseteq T
  <2>1. 0 \in T
    BY <1>1, <1>6
  <2>2. \A i \in 1 .. n : i - 1 \in T => i \in T
    BY <1>1, <1>2, <1>6
  <2> HIDE DEF T, n
  <2> QED BY <1>1, <2>1, <2>2, UpTo
<1>8. after \in [0 .. n -> GlReading]
  <2> HIDE DEF n
  <2> QED BY <1>5, <1>7
<1> QED BY <1>6, <1>8 DEF after, GlTurns

\* A read leaves a position.
LEMMA ReadPbpTypes ==
    ASSUME NEW e, GlBuilt(e), NEW fp \in Nat, NEW n \in Nat, NEW fails \in BOOLEAN
    PROVE  ReadPbp(e, fp, n, fails) \in GlReading
<1> DEFINE r == [fp |-> fp, left |-> n, data |-> <<>>, err |-> FALSE]
<1>1. r \in GlReading
  <2>1. <<>> \in Seq(GlBytes(glImage))
    BY EmptySeq
  <2> QED BY <2>1 DEF GlReading
<1>2. \A x \in GlReading : ReadPass(e, fails, x) \in GlReading
  <2> TAKE x \in GlReading
  <2>1. LastSect(e) + 1 \in 0 .. LastSect(e) + 1
    BY SectTypes
  <2>2. ReadSections(e, fails, x) \in [0 .. LastSect(e) + 1 -> GlReading]
    BY TurnsStep DEF GlTurns
  <2> QED BY <2>1, <2>2 DEF ReadPass
<1> QED BY <1>1, <1>2 DEF ReadPbp

\* What a read from a position has done so far is to give the virtual file's bytes.
GlReadRight(e, from, n, r) ==
    /\ ~r.err /\ Len(r.data) <= n /\ r.fp = from + Len(r.data) /\ r.left = n - Len(r.data)
    /\ \A k \in 1 .. Len(r.data) : r.data[k] = WantedPbp(e)[from + k]
    /\ Len(r.data) = 0 \/ r.fp <= TotalSize(e)
    /\ r.fp = 0 \/ r.fp >= GlHead \/ r.left = 0

\* d is what the virtual file has behind what has been read.
GlFits(e, r, d) ==
    /\ Len(d) = 0 \/ r.fp + Len(d) <= TotalSize(e)
    /\ r.fp + Len(d) >= GlHead \/ r.left = Len(d)
    /\ \A k \in 1 .. Len(d) : d[k] = WantedPbp(e)[r.fp + k]

\* r with d appended.
GlAppended(r, d) == [r EXCEPT !.fp = r.fp + Len(d), !.left = r.left - Len(d), !.data = r.data \o d]

LEMMA AppendedFields ==
    ASSUME NEW r \in GlReading, NEW d
    PROVE  LET q == GlAppended(r, d)
           IN  q.fp = r.fp + Len(d) /\ q.left = r.left - Len(d) /\ q.data = r.data \o d /\ q.err = r.err
  BY DEF GlAppended, GlReading

\* A turn that appends d.
LEMMA TurnAppends ==
    ASSUME NEW e, NEW from \in Nat, NEW n \in Nat, NEW r \in GlReading, GlReadRight(e, from, n, r),
           NEW d \in Seq(GlBytes(glImage)), Len(d) \in 0 .. r.left, GlFits(e, r, d)
    PROVE  GlReadRight(e, from, n, GlAppended(r, d))
<1> DEFINE B == GlBytes(glImage)
           q == GlAppended(r, d)
<1>1. r.fp \in Nat /\ r.left \in Nat /\ r.data \in Seq(B) /\ Len(r.data) \in Nat
  BY LenProperties DEF GlReading
<1>2. d \in Seq(B) /\ Len(d) \in 0 .. r.left
  OBVIOUS
<1>3. q.fp = r.fp + Len(d) /\ q.left = r.left - Len(d) /\ q.data = r.data \o d /\ ~q.err
  <2>1. q.fp = r.fp + Len(d) /\ q.left = r.left - Len(d) /\ q.data = r.data \o d /\ q.err = r.err
    BY AppendedFields
  <2>2. ~r.err
    BY DEF GlReadRight
  <2> HIDE DEF q
  <2> QED BY ONLY <2>1, <2>2
<1> HIDE DEF q
<1> DEFINE m == Len(r.data)
<1>4. /\ Len(q.data) = m + Len(d)
      /\ \A k \in 1 .. m + Len(d) : q.data[k] = IF k <= m THEN r.data[k] ELSE d[k - m]
  <2> HIDE DEF B
  <2>1. /\ Len(r.data \o d) = Len(r.data) + Len(d)
        /\ \A k \in 1 .. Len(r.data) + Len(d) :
              (r.data \o d)[k] = IF k <= Len(r.data) THEN r.data[k] ELSE d[k - Len(r.data)]
    BY ONLY <1>1, <1>2, ConcatProperties
  <2> QED BY ONLY <1>3, <2>1
<1>5. m \in Nat /\ m <= n /\ r.fp = from + m /\ r.left = n - m /\ Len(d) \in Nat /\ Len(d) <= n - m
  <2>1. m \in Nat /\ m <= n /\ r.fp = from + m /\ r.left = n - m
    BY <1>1 DEF GlReadRight
  <2> HIDE DEF m
  <2> QED BY ONLY <1>1, <1>2, <2>1
<1>6. ASSUME NEW k \in 1 .. m + Len(d) PROVE q.data[k] = WantedPbp(e)[from + k]
  <2>1. CASE k <= m
    <3>1. k \in 1 .. m
      BY <1>5, <2>1
    <3>2. r.data[k] = WantedPbp(e)[from + k]
      BY <3>1 DEF GlReadRight
    <3> HIDE DEF m
    <3> QED BY <1>4, <2>1, <3>2
  <2>2. CASE ~(k <= m)
    <3>1. k - m \in 1 .. Len(d) /\ r.fp + (k - m) = from + k
      <4> HIDE DEF m
      <4> QED BY <1>5, <2>2
    <3>2. d[k - m] = WantedPbp(e)[r.fp + (k - m)]
      <4> HIDE DEF m
      <4> QED BY <3>1 DEF GlFits
    <3> HIDE DEF m
    <3> QED BY <1>4, <2>2, <3>1, <3>2
  <2> QED BY <2>1, <2>2
<1>7. Len(q.data) <= n /\ q.fp = from + Len(q.data) /\ q.left = n - Len(q.data)
  <2> HIDE DEF m
  <2>1. Len(q.data) = m + Len(d)
    BY ONLY <1>4
  <2>2. m + Len(d) <= n /\ r.fp + Len(d) = from + (m + Len(d)) /\ r.left - Len(d) = n - (m + Len(d))
    BY ONLY from \in Nat, n \in Nat, <1>5
  <2> QED BY ONLY <1>3, <2>1, <2>2
<1>8. Len(q.data) = 0 \/ q.fp <= TotalSize(e)
  <2>1. Len(d) = 0 => Len(q.data) = m /\ q.fp = r.fp
    <3> HIDE DEF m
    <3> QED BY ONLY <1>1, <1>3, <1>4, <1>5
  <2>2. Len(d) # 0 => q.fp <= TotalSize(e)
    BY <1>3 DEF GlFits
  <2>3. m = 0 \/ r.fp <= TotalSize(e)
    BY DEF GlReadRight
  <2> HIDE DEF m
  <2> QED BY ONLY <2>1, <2>2, <2>3
<1>9. q.fp >= GlHead \/ q.left = 0
  <2>1. r.fp + Len(d) >= GlHead \/ r.left = Len(d)
    BY DEF GlFits
  <2>2. r.left = Len(d) => r.left - Len(d) = 0
    BY <1>1
  <2> QED BY ONLY <1>3, <2>1, <2>2
<1>10. GlReadRight(e, from, n, q)
  BY <1>3, <1>4, <1>6, <1>7, <1>8, <1>9 DEF GlReadRight
<1> QED BY <1>10 DEF q

\* The bytes of the virtual file, and its size.
LEMMA WantedBytes ==
    ASSUME NEW e, GlBuilt(e)
    PROVE  /\ WantedPbp(e) \in Seq(GlBytes(<<e.name, e.built>>)) /\ Len(WantedPbp(e)) = TotalSize(e)
           /\ TotalSize(e) \in Nat /\ GlHead <= TotalSize(e)
           /\ \A p \in 0 .. GlHead - 1 : WantedPbp(e)[p + 1] = <<"header", p>>
           /\ \A j \in 0 .. LastSect(e) :
                  /\ Header(e)[j + 1] <= TotalSize(e)
                  /\ \A p \in Header(e)[j] .. Header(e)[j + 1] - 1 :
                         WantedPbp(e)[p + 1] = <<<<e.name, e.built>>, j, p - Header(e)[j]>>
<1> DEFINE n == LastSect(e) + 1
<1>1. LastSect(e) \in Nat /\ n \in 0 .. n /\ 0 \in 0 .. n /\ n - 1 = LastSect(e)
      /\ \A j \in 0 .. LastSect(e) : j + 1 \in 0 .. n
  BY SectTypes
<1>2. GlBefore(WantedPbp(e), e, n)
  BY <1>1, WantedBefore DEF WantedPbp
<1>3. TotalSize(e) = Header(e)[n]
  BY DEF TotalSize
<1>4. TotalSize(e) \in Nat /\ GlHead <= TotalSize(e)
  BY <1>1, <1>3, HeaderStep, HeaderGrows
<1>5. \A j \in 0 .. LastSect(e) : Header(e)[j + 1] <= TotalSize(e)
  BY <1>1, <1>3, HeaderGrows
<1> HIDE DEF n
<1> QED BY <1>1, <1>2, <1>3, <1>4, <1>5 DEF GlBefore

\* A turn from what is right: what is left, and how far it has come.
LEMMA TurnRight ==
    ASSUME NEW e, GlBuilt(e), glImage = <<e.name, e.built>>, NEW idx \in 0 .. LastSect(e),
           NEW from \in Nat, NEW n \in Nat, NEW r \in GlReading, GlReadRight(e, from, n, r)
    PROVE  LET q == ReadSection(e, FALSE, idx, r)
           IN  /\ GlReadRight(e, from, n, q) /\ (q.left = 0 \/ q.fp >= GlHead)
               /\ r.left = 0 \/ r.fp >= Header(e)[idx] => q.left = 0 \/ q.fp >= Header(e)[idx + 1]
<1> DEFINE q == ReadSection(e, FALSE, idx, r)
           h == Header(e)
           d == SectionData(e, idx, r.fp, r.left)
<1>1. CASE r.left = 0
  <2>1. q = r
    BY <1>1 DEF ReadSection
  <2> QED BY <1>1, <2>1
<1>2. CASE r.left # 0
  <2>1. r.fp \in Nat /\ r.left \in Nat /\ (r.fp = 0 \/ r.fp >= GlHead)
    BY <1>2 DEF GlReading, GlReadRight
  <2>2. LastSect(e) \in Nat /\ idx \in Nat /\ idx + 1 \in 0 .. LastSect(e) + 1
        /\ idx \in 0 .. LastSect(e) + 1
        /\ 1 \in 0 .. LastSect(e) + 1 /\ 0 \in 0 .. LastSect(e) + 1 /\ 0 \in 0 .. idx
        /\ idx \in 0 .. idx + 1
    BY SectTypes
  <2>3. /\ h[0] = GlHead /\ h[1] \in Nat /\ h[idx] \in Nat /\ h[idx + 1] \in Nat
        /\ GlHead \in Nat \ {0} /\ GlHead <= h[idx] /\ GlHead <= h[1]
    <3>1. h[0] <= h[idx] /\ h[0] = GlHead
      BY <2>2, HeaderStep, HeaderGrows
    <3>2. h[1] = GlHead + GlSfo /\ GlSfo \in Nat /\ GlHead \in Nat \ {0}
      BY HeaderGrows, GlAssumption
    <3>3. h[1] \in Nat /\ h[idx] \in Nat /\ h[idx + 1] \in Nat
      BY <2>2, HeaderStep
    <3> HIDE DEF h
    <3> QED BY <3>1, <3>2, <3>3
  <2>4. /\ d \in Seq(GlBytes(glImage)) /\ Len(d) \in 0 .. r.left
        /\ r.fp < GlHead => /\ Len(d) = Least(r.left, GlHead - r.fp)
                            /\ \A k \in 1 .. Len(d) : d[k] = <<"header", 4 * r.fp + k - 1>>
        /\ \A j \in {0, idx} : h[j] <= r.fp /\ r.fp < h[j + 1] =>
               /\ Len(d) = Least(r.left, h[j + 1] - r.fp)
               /\ \A k \in 1 .. Len(d) : d[k] = <<glImage, j, r.fp - h[j] + k - 1>>
        /\ r.fp >= h[1] /\ ~(h[idx] <= r.fp /\ r.fp < h[idx + 1]) => Len(d) = 0
    <3> HIDE DEF d
    <3>1. d = SectionData(e, idx, r.fp, r.left)
      BY DEF d
    <3>2. GlGives(e, idx, r.fp, r.left, d)
      BY ONLY GlBuilt(e), idx \in 0 .. LastSect(e), <2>1, <3>1, SectionDataGives
    <3> QED BY ONLY <3>2 DEF GlGives, h
  <2> DEFINE W == WantedPbp(e)
             total == TotalSize(e)
  <2>5. ASSUME GlFits(e, r, d)
        PROVE  GlReadRight(e, from, n, q) /\ q.fp = r.fp + Len(d) /\ q.left = r.left - Len(d)
    <3>1. q = GlAppended(r, d)
      <4>1. ~(r.err \/ r.left = 0)
        BY <1>2 DEF GlReadRight
      <4> QED BY <4>1 DEF ReadSection, GlAppended
    <3> HIDE DEF d, q
    <3>2. GlReadRight(e, from, n, GlAppended(r, d))
      BY <2>4, <2>5, TurnAppends
    <3> QED BY <3>1, <3>2, AppendedFields
  <2> HIDE DEF q, d
  <2>6. CASE r.fp < GlHead
    <3>1. r.fp = 0
      BY <2>1, <2>3, <2>6
    <3>2. Len(d) \in Nat /\ Len(d) <= GlHead /\ (Len(d) = r.left \/ Len(d) = GlHead)
      <4>1. Len(d) = Least(r.left, GlHead - r.fp) /\ GlHead - r.fp = GlHead
        BY <2>3, <2>4, <2>6, <3>1
      <4> QED BY <2>1, <2>3, <4>1 DEF Least
    <3>3. ASSUME NEW k \in 1 .. Len(d) PROVE d[k] = W[r.fp + k]
      <4>1. k - 1 \in 0 .. GlHead - 1 /\ (k - 1) + 1 = k /\ r.fp + k = k /\ 4 * r.fp + k - 1 = k - 1
        BY <2>3, <3>1, <3>2
      <4>2. W[(k - 1) + 1] = <<"header", k - 1>>
        BY <4>1, WantedBytes
      <4>3. d[k] = <<"header", 4 * r.fp + k - 1>>
        BY <2>4, <2>6
      <4> QED BY <4>1, <4>2, <4>3
    <3>4. r.fp + Len(d) <= total
      <4>1. total \in Nat /\ GlHead <= total
        BY WantedBytes
      <4> HIDE DEF total
      <4> QED BY <2>3, <3>1, <3>2, <4>1
    <3>5. r.fp + Len(d) >= GlHead \/ r.left = Len(d)
      BY <2>3, <3>1, <3>2
    <3>6. GlReadRight(e, from, n, q) /\ q.fp = r.fp + Len(d) /\ q.left = r.left - Len(d)
      BY <2>5, <3>3, <3>4, <3>5 DEF GlFits
    <3>7. q.left = 0 \/ q.fp >= GlHead
      BY <2>1, <2>3, <3>1, <3>2, <3>6
    <3>8. ~(r.left = 0 \/ r.fp >= h[idx])
      <4> HIDE DEF h
      <4> QED BY <1>2, <2>3, <3>1
    <3> QED BY <3>6, <3>7, <3>8 DEF q
  <2>7. ASSUME ~(r.fp < GlHead), NEW j \in {0, idx}, h[j] <= r.fp, r.fp < h[j + 1]
        PROVE  /\ GlReadRight(e, from, n, q) /\ (q.left = 0 \/ q.fp >= GlHead)
               /\ r.left = 0 \/ r.fp >= h[idx] => q.left = 0 \/ q.fp >= h[idx + 1]
    <3>1. j \in 0 .. LastSect(e) /\ h[j] \in Nat /\ h[j + 1] \in Nat /\ j \in Nat
      <4>1. j \in 0 .. LastSect(e) /\ j \in 0 .. LastSect(e) + 1 /\ j + 1 \in 0 .. LastSect(e) + 1
            /\ j \in Nat
        BY <2>2
      <4> QED BY <4>1, HeaderStep
    <3>2. Len(d) = Least(r.left, h[j + 1] - r.fp)
          /\ \A k \in 1 .. Len(d) : d[k] = <<glImage, j, r.fp - h[j] + k - 1>>
      BY <2>4, <2>7
    <3>3. Len(d) \in Nat /\ r.fp + Len(d) <= h[j + 1] /\ (Len(d) = r.left \/ r.fp + Len(d) = h[j + 1])
      <4> HIDE DEF h
      <4> QED BY <2>1, <2>7, <3>1, <3>2 DEF Least
    <3>4. total \in Nat /\ h[j + 1] <= total
      BY <3>1, WantedBytes
    <3>5. ASSUME NEW k \in 1 .. Len(d) PROVE d[k] = W[r.fp + k]
      <4>1. ((r.fp + k) - 1) \in h[j] .. h[j + 1] - 1 /\ ((r.fp + k) - 1) + 1 = r.fp + k
            /\ ((r.fp + k) - 1) - h[j] = r.fp - h[j] + k - 1
        <5>1. k \in Nat /\ 1 <= k /\ k <= Len(d)
          BY <3>3
        <5>2. h[j] \in Nat /\ h[j + 1] \in Nat /\ h[j] <= r.fp /\ r.fp + Len(d) <= h[j + 1]
          BY <2>7, <3>1, <3>3
        <5> DEFINE a == h[j]
                   b == h[j + 1]
                   f == r.fp
                   l == Len(d)
        <5>3. a \in Nat /\ b \in Nat /\ f \in Nat /\ l \in Nat /\ a <= f /\ f + l <= b /\ k <= l
          BY <2>1, <3>3, <5>1, <5>2
        <5> HIDE DEF h, a, b, f, l
        <5>4. /\ ((f + k) - 1) \in a .. b - 1 /\ ((f + k) - 1) + 1 = f + k
              /\ ((f + k) - 1) - a = f - a + k - 1
          BY ONLY <5>1, <5>3
        <5> QED BY <5>4 DEF a, b, f, l
      <4>2. W[((r.fp + k) - 1) + 1] = <<<<e.name, e.built>>, j, ((r.fp + k) - 1) - h[j]>>
        BY <3>1, <4>1, WantedBytes
      <4> HIDE DEF h, W
      <4> QED BY <3>2, <4>1, <4>2
    <3>6. r.fp + Len(d) <= total /\ r.fp + Len(d) >= GlHead
      <4> HIDE DEF h, total
      <4> QED BY <2>1, <2>3, <2>7, <3>1, <3>3, <3>4
    <3>7. GlReadRight(e, from, n, q) /\ q.fp = r.fp + Len(d) /\ q.left = r.left - Len(d)
      BY <2>5, <3>5, <3>6 DEF GlFits
    <3>8. r.fp >= h[idx] => j = idx
      <4>1. idx # 0 => 1 \in 0 .. idx
        BY <2>2
      <4>2. idx # 0 => h[1] <= h[idx]
        BY <2>2, <4>1, HeaderGrows
      <4>3. 0 + 1 = 1
        OBVIOUS
      <4> HIDE DEF h
      <4> QED BY <2>1, <2>3, <2>7, <4>2, <4>3
    <3>9. r.fp >= h[idx] => q.left = 0 \/ q.fp >= h[idx + 1]
      <4> HIDE DEF h
      <4> QED BY <2>1, <2>3, <3>3, <3>7, <3>8
    <3> QED BY <1>2, <3>6, <3>7, <3>9
  <2>8. ASSUME ~(r.fp < GlHead), \A j \in {0, idx} : ~(h[j] <= r.fp /\ r.fp < h[j + 1])
        PROVE  /\ GlReadRight(e, from, n, q) /\ (q.left = 0 \/ q.fp >= GlHead)
               /\ r.left = 0 \/ r.fp >= h[idx] => q.left = 0 \/ q.fp >= h[idx + 1]
    <3>1. r.fp >= h[1]
      <4>1. 0 + 1 = 1
        OBVIOUS
      <4> HIDE DEF h
      <4> QED BY <2>1, <2>3, <2>8, <4>1
    <3>2. Len(d) = 0
      <4> HIDE DEF h
      <4> QED BY <2>4, <2>8, <3>1
    <3>3. \A k \in 1 .. Len(d) : d[k] = W[r.fp + k]
      BY <3>2
    <3>4. r.fp + Len(d) = r.fp /\ r.left - Len(d) = r.left
      BY <2>1, <3>2
    <3>5. GlReadRight(e, from, n, q) /\ q.fp = r.fp /\ q.left = r.left
      <4>1. r.fp + Len(d) >= GlHead
        BY <2>1, <2>3, <2>8, <3>4
      <4> QED BY <2>5, <3>2, <3>3, <3>4, <4>1 DEF GlFits
    <3>6. r.fp >= h[idx] => q.fp >= h[idx + 1]
      <4> HIDE DEF h
      <4> QED BY <2>1, <2>3, <2>8, <3>5
    <3> QED BY <1>2, <2>1, <2>3, <2>8, <3>5, <3>6
  <2>9. (\A j \in {0, idx} : ~(h[j] <= r.fp /\ r.fp < h[j + 1]))
        \/ \E j \in {0, idx} : h[j] <= r.fp /\ r.fp < h[j + 1]
    OBVIOUS
  <2> HIDE DEF h
  <2> QED BY <2>6, <2>7, <2>8, <2>9 DEF q, h
<1> QED BY <1>1, <1>2

\* A pass goes past the header, or ends; one that starts behind it goes through all sections.
LEMMA PassRight ==
    ASSUME NEW e, GlBuilt(e), glImage = <<e.name, e.built>>,
           NEW from \in Nat, NEW n \in Nat, NEW r \in GlReading, GlReadRight(e, from, n, r)
    PROVE  LET q == ReadPass(e, FALSE, r)
           IN  /\ q \in GlReading /\ GlReadRight(e, from, n, q) /\ (q.left = 0 \/ q.fp >= GlHead)
               /\ r.left = 0 \/ r.fp >= GlHead => q.left = 0 \/ q.fp >= TotalSize(e)
<1> DEFINE last == LastSect(e) + 1
           after == ReadSections(e, FALSE, r)
           h == Header(e)
           Right(i) == /\ GlReadRight(e, from, n, after[i])
                       /\ i > 0 => after[i].left = 0 \/ after[i].fp >= GlHead
                       /\ r.left = 0 \/ r.fp >= GlHead => after[i].left = 0 \/ after[i].fp >= h[i]
           T == {i \in 0 .. last : Right(i)}
<1>1. last \in Nat /\ last > 0 /\ last \in 0 .. last
      /\ \A i \in 1 .. last : i - 1 \in 0 .. LastSect(e) /\ i - 1 \in 0 .. last /\ i \in 0 .. last
                              /\ (i - 1) + 1 = i
  BY SectTypes
<1>2. /\ after \in [0 .. last -> GlReading] /\ after[0] = r
      /\ \A i \in 1 .. last : after[i] = ReadSection(e, FALSE, i - 1, after[i - 1])
  <2>1. FALSE \in BOOLEAN
    OBVIOUS
  <2>2. GlTurns(e, FALSE, r, after)
    BY <2>1, TurnsStep
  <2> HIDE DEF after
  <2> QED BY <2>2 DEF GlTurns
<1>3. h[0] = GlHead /\ h[last] = TotalSize(e)
  BY HeaderStep DEF TotalSize
<1>4. 0 \in T
  <2> HIDE DEF last, after, h
  <2>1. Right(0)
    BY <1>2, <1>3
  <2> QED BY <1>1, <2>1
<1>5. ASSUME NEW i \in 1 .. last, i - 1 \in T PROVE i \in T
  <2> DEFINE p == after[i - 1]
             q == ReadSection(e, FALSE, i - 1, p)
  <2>1. p \in GlReading /\ GlReadRight(e, from, n, p) /\ i - 1 \in 0 .. LastSect(e) /\ after[i] = q
    <3> HIDE DEF last, after
    <3> QED BY <1>1, <1>2, <1>5
  <2>2. r.left = 0 \/ r.fp >= GlHead => p.left = 0 \/ p.fp >= h[i - 1]
    BY <1>5
  <2>3. /\ GlReadRight(e, from, n, q) /\ (q.left = 0 \/ q.fp >= GlHead)
        /\ p.left = 0 \/ p.fp >= h[i - 1] => q.left = 0 \/ q.fp >= h[(i - 1) + 1]
    <3> HIDE DEF p, last
    <3> QED BY <2>1, TurnRight
  <2>4. h[(i - 1) + 1] = h[i]
    BY <1>1
  <2> HIDE DEF p, q, after, h
  <2>5. Right(i)
    BY <2>1, <2>2, <2>3, <2>4
  <2> HIDE DEF last, Right
  <2> QED BY <1>1, <2>5
<1>6. 0 .. last \subseteq T
  <2> HIDE DEF T, last
  <2> QED BY <1>1, <1>4, <1>5, UpTo
<1>7. Right(last)
  <2> HIDE DEF Right, last
  <2> QED BY <1>1, <1>6
<1>8. ReadPass(e, FALSE, r) = after[last]
  BY DEF ReadPass
<1>9. after[last] \in GlReading
  <2> HIDE DEF last, after
  <2> QED BY <1>1, <1>2
<1> HIDE DEF last, after, h
<1> QED BY <1>1, <1>3, <1>7, <1>8, <1>9

\* Two passes end the outer loop of vpbp_read, which is why ReadPbp has two: nothing is
\* left to read, or the position is at the end; and what was read is right.
THEOREM TwoPassesEnd ==
    ASSUME NEW e, GlBuilt(e), glImage = <<e.name, e.built>>, NEW fp \in Nat, fp = 0 \/ fp >= GlHead,
           NEW n \in Nat
    PROVE  LET q == ReadPbp(e, fp, n, FALSE)
           IN  q \in GlReading /\ GlReadRight(e, fp, n, q) /\ (q.left = 0 \/ q.fp >= TotalSize(e))
<1> DEFINE r == [fp |-> fp, left |-> n, data |-> <<>>, err |-> FALSE]
           a == ReadPass(e, FALSE, r)
           q == ReadPbp(e, fp, n, FALSE)
<1>1. r \in GlReading /\ GlReadRight(e, fp, n, r)
  <2>1. <<>> \in Seq(GlBytes(glImage)) /\ Len(<<>>) = 0 /\ 1 .. 0 = {}
    BY EmptySeq
  <2>2. r \in GlReading
    BY <2>1 DEF GlReading
  <2>3. r.fp = fp /\ r.left = n /\ r.data = <<>> /\ r.err = FALSE
    OBVIOUS
  <2> HIDE DEF r
  <2>4. Len(r.data) = 0 /\ fp = fp + 0 /\ n = n - 0 /\ 0 <= n
    BY <2>1, <2>3
  <2> QED BY <2>1, <2>2, <2>3, <2>4 DEF GlReadRight
<1>2. a \in GlReading /\ GlReadRight(e, fp, n, a) /\ (a.left = 0 \/ a.fp >= GlHead)
  <2> HIDE DEF r
  <2> QED BY <1>1, PassRight
<1>3. q = ReadPass(e, FALSE, a)
  BY DEF ReadPbp
<1> HIDE DEF a, q
<1> QED BY <1>2, <1>3, PassRight DEF q

\* Such a read gives the virtual file's bytes.
LEMMA ReadPbpRight ==
    ASSUME NEW e, GlBuilt(e), glImage = <<e.name, e.built>>, NEW fp \in Nat, fp = 0 \/ fp >= GlHead,
           NEW n \in Nat
    PROVE  ReadPbp(e, fp, n, FALSE).data = SubSeq(WantedPbp(e), fp + 1, Least(fp + n, TotalSize(e)))
<1> DEFINE q == ReadPbp(e, fp, n, FALSE)
           W == WantedPbp(e)
           total == TotalSize(e)
           to == Least(fp + n, total)
           B == GlBytes(<<e.name, e.built>>)
<1>1. q \in GlReading /\ GlReadRight(e, fp, n, q) /\ (q.left = 0 \/ q.fp >= total)
  BY TwoPassesEnd
<1> HIDE DEF q
<1>2. q.data \in Seq(B) /\ Len(q.data) \in Nat
  BY <1>1, LenProperties DEF GlReading
<1> DEFINE m == Len(q.data)
<1>3. /\ m \in Nat /\ m <= n /\ (n - m = 0 \/ fp + m >= total) /\ (m = 0 \/ fp + m <= total)
      /\ \A k \in 1 .. m : q.data[k] = W[fp + k]
  BY <1>1, <1>2 DEF GlReadRight
<1>4. W \in Seq(B) /\ Len(W) = total /\ total \in Nat
  BY WantedBytes
<1> HIDE DEF m, total, W, B
<1>5. to \in Int /\ to <= total /\ fp + 1 \in Int /\ (IF fp + 1 <= to THEN to - (fp + 1) + 1 ELSE 0) = m
  BY <1>3, <1>4 DEF Least
<1> DEFINE s == SubSeq(W, fp + 1, to)
<1> HIDE DEF to
<1>6. \A i \in fp + 1 .. to : W[i] \in B
  BY <1>4, <1>5, ElementOfSeq
<1>7. /\ s \in Seq(B) /\ Len(s) = m
      /\ \A i \in 1 .. to - (fp + 1) + 1 : s[i] = W[fp + 1 + i - 1]
  BY <1>5, <1>6, SubSeqProperties
<1>8. \A k \in 1 .. m : q.data[k] = s[k]
  <2> TAKE k \in 1 .. m
  <2>1. k \in 1 .. to - (fp + 1) + 1 /\ fp + 1 + k - 1 = fp + k
    BY <1>3, <1>5
  <2> HIDE DEF s
  <2> QED BY <1>3, <1>7, <2>1
<1>9. q.data = s
  <2> HIDE DEF s
  <2> QED BY <1>2, <1>7, <1>8, SeqEqual DEF m
<1> QED BY <1>9 DEF q, W, to, total

-----------------------------------------------------------------------------
(* The game list: the steps                                                *)

LEMMA GlInitInv == GlInit => GlInv
<1> SUFFICES ASSUME GlInit PROVE GlInv
  OBVIOUS
<1>1. GlTypes
  <2>1. \A f \in GlIsos : glIso[f] \in 0 .. 1 /\ 1 <= GlVersions[f] /\ GlVersions[f] \in Nat
    BY GlAssumption DEF GlInit
  <2>2. glIso \in [GlIsos -> Nat]
    BY DEF GlInit
  <2>3. <<>> \in Seq(GlEntry) /\ <<>> \in Seq(GlTracked)
    BY EmptySeq
  <2> QED BY <2>1, <2>2, <2>3, GlBlank DEF GlInit, NoDelete, GlTypes
<1>2. DOMAIN glList = {} /\ DOMAIN glTrack = {}
  BY DEF GlInit
<1>3. GlCacheInv
  BY <1>2 DEF GlInit, GlCacheInv, EntryFresh, GlListBuilt, EntryRight, NoCache, Blank
<1>4. GlDirInv
  BY <1>2 DEF GlInit, GlDirInv
<1>5. GlDeleteInv
  BY DEF GlInit, GlDeleteInv, NoDelete
<1> QED BY <1>1, <1>3, <1>4, <1>5 DEF GlInv

\* A restart keeps the file of the cache, or what the power left of it.
LEMMA RestartedKeeps ==
    ASSUME GlInv, Restarted, glFile' \in [Slots -> GlEntry], \A s \in Slots : EntryRight(glFile'[s])
    PROVE  GlInv'
<1>1. GlTypes'
  <2>1. <<>> \in Seq(GlEntry) /\ <<>> \in Seq(GlTracked)
    BY EmptySeq
  <2> QED BY <2>1, GlBlank DEF Restarted, NoDelete, GlInv, GlTypes
<1>2. DOMAIN glList' = {} /\ DOMAIN glTrack' = {}
  BY DEF Restarted
<1>3. GlCacheInv'
  BY <1>2 DEF Restarted, GlCacheInv, EntryFresh, GlListBuilt, EntryRight, NoCache, Blank
<1>4. GlDirInv'
  BY <1>2 DEF Restarted, GlDirInv
<1>5. GlDeleteInv'
  BY DEF Restarted, GlDeleteInv, NoDelete
<1> QED BY <1>1, <1>3, <1>4, <1>5 DEF GlInv

LEMMA GlRestartKeeps == ASSUME GlInv, GlRestart PROVE GlInv'
  BY RestartedKeeps DEF GlRestart, GlInv, GlTypes, GlCacheInv

\* What save_cache writes.
LEMMA PurgedType ==
    ASSUME GlTypes, GlCacheInv
    PROVE  Purged \in [Slots -> GlEntry] /\ \A s \in Slots : EntryRight(Purged[s])
  BY GlBlank DEF Purged, GlTypes, GlCacheInv, EntryRight

\* The entry that was cut short has the time of no file.
LEMMA GlPowerLossKeeps == ASSUME GlInv, NEW k \in Slots, GlPowerLoss(k) PROVE GlInv'
<1>1. Purged \in [Slots -> GlEntry] /\ \A s \in Slots : EntryRight(Purged[s])
  BY PurgedType DEF GlInv
<1> DEFINE torn(s) == [Purged[s] EXCEPT !.mtime = 0, !.built = Torn]
<1>2. \A s \in Slots : torn(s) \in GlEntry /\ EntryRight(torn(s))
  <2> TAKE s \in Slots
  <2>1. Purged[s] \in GlEntry /\ 0 \in Nat /\ Torn \in Int
    BY <1>1 DEF Torn
  <2> QED BY <2>1 DEF GlEntry, EntryRight
<1>3. EntryRight(Blank)
  BY GlBlank DEF EntryRight
<1> DEFINE left(s) == IF s < k THEN Purged[s]
                      ELSE IF s = k /\ Purged[s].on THEN torn(s) ELSE Blank
<1>4. \A s \in Slots : left(s) \in GlEntry /\ EntryRight(left(s))
  BY <1>1, <1>2, <1>3, GlBlank
<1>5. glFile' = [s \in Slots |-> left(s)]
  BY DEF GlPowerLoss
<1> HIDE DEF left, torn
<1>6. glFile' \in [Slots -> GlEntry] /\ \A s \in Slots : EntryRight(glFile'[s])
  BY <1>4, <1>5
<1> QED BY <1>6, RestartedKeeps DEF GlPowerLoss

\* The handlers of files, and of the folder to delete.
LEMMA GlPbpKeeps ==
    ASSUME GlInv, NEW i,
           \/ GlOpenPbp(i) \/ GlSeekPbp(i) \/ GlReadPbp(i) \/ GlClosePbp(i)
           \/ i \in Nat /\ (GlOpenVirtual(i) \/ GlRename(i))
           \/ UNCHANGED glVars
    PROVE  GlInv'
<1>1. UNCHANGED <<glIso, glFile, glCaches, glList, glTrack, glOpen, glGiven>>
  BY DEF GlOpenPbp, GlSeekPbp, GlReadPbp, GlClosePbp, GlOpenVirtual, GlRename, glVars, cacheVars,
         pbpVars, dirVars
<1>2. glDelete' \in [dir : Nat, temp : BOOLEAN, asked : Nat] /\ GlDeleteInv'
  <2> USE DEF GlInv, GlTypes, GlDeleteInv
  <2>1. CASE UNCHANGED glDelete
    BY <2>1
  <2>2. CASE i \in Nat /\ GlOpenVirtual(i)
    BY <2>2 DEF GlOpenVirtual
  <2>3. CASE i \in Nat /\ GlRename(i)
    BY <2>3 DEF GlRename, RenamedDir
  <2> QED BY <2>1, <2>2, <2>3 DEF GlOpenPbp, GlSeekPbp, GlReadPbp, GlClosePbp, glVars
<1>3. GlTypes' /\ GlCacheInv' /\ GlDirInv'
  BY <1>1, <1>2 DEF GlInv, GlTypes, GlCacheInv, EntryFresh, GlListBuilt, GlDirInv
<1> QED BY <1>2, <1>3 DEF GlInv

\* The computer puts a newer file in the place of one.
LEMMA GlReplaceKeeps ==
    ASSUME GlInv, NEW f \in GlIsos, NEW v \in 1 .. GlVersions[f], GlReplace(f, v)
    PROVE  GlInv'
<1>1. UNCHANGED <<glFile, glCaches, glList, glTrack, glOpen, glGiven, glDelete>>
  BY DEF GlReplace, cacheVars, pbpVars, dirVars
<1>2. v \in Nat /\ v <= GlVersions[f]
  BY GlAssumption
<1>3. GlTypes'
  BY <1>1, <1>2 DEF GlReplace, GlInv, GlTypes
<1>4. GlCacheInv' /\ GlDirInv' /\ GlDeleteInv'
  BY <1>1 DEF GlInv, GlCacheInv, EntryFresh, GlListBuilt, GlDirInv, GlDeleteInv
<1> QED BY <1>3, <1>4 DEF GlInv

\* A deleted game keeps its place in the list.
LEMMA GlRmdirKeeps == ASSUME GlInv, GlRmdir PROVE GlInv'
<1> DEFINE d == glDelete.dir
<1>1. UNCHANGED <<glFile, glCaches, glTrack, glOpen, glGiven>> /\ glDelete' = NoDelete
      /\ glList' = [glList EXCEPT ![d].on = FALSE]
  BY DEF GlRmdir, cacheVars, dirVars
<1>2. glList \in Seq(GlEntry) /\ DOMAIN glList = 1 .. Len(glList) /\ Len(glList) \in Nat
  BY LenProperties DEF GlInv, GlTypes
<1>3. /\ glList' \in Seq(GlEntry) /\ DOMAIN glList' = DOMAIN glList
      /\ \A i \in DOMAIN glList : glList'[i].built = glList[i].built /\ glList'[i].seen = glList[i].seen
                              /\ glList'[i].name = glList[i].name
  <2>1. CASE d \in 1 .. Len(glList)
    <3> DEFINE e == [glList[d] EXCEPT !.on = FALSE]
    <3>1. glList[d] \in GlEntry
      BY <1>2, <2>1, ElementOfSeq
    <3>2. e \in GlEntry /\ e.built = glList[d].built /\ e.seen = glList[d].seen
          /\ e.name = glList[d].name
      BY <3>1 DEF GlEntry
    <3>3. glList' = [glList EXCEPT ![d] = e]
      BY <1>1
    <3> HIDE DEF e, d
    <3>4. /\ glList' \in Seq(GlEntry) /\ Len(glList') = Len(glList)
          /\ \A j \in 1 .. Len(glList) : glList'[j] = IF j = d THEN e ELSE glList[j]
      BY <1>2, <2>1, <3>2, <3>3, ExceptSeq
    <3>5. DOMAIN glList' = 1 .. Len(glList)
      BY <3>4, LenProperties
    <3> QED BY <1>2, <3>2, <3>4, <3>5
  <2>2. CASE d \notin 1 .. Len(glList)
    <3>1. glList' = glList
      BY <1>1, <1>2, <2>2
    <3> QED BY <1>2, <3>1
  <2> QED BY <2>1, <2>2
<1>4. glIso' \in [GlIsos -> Nat] /\ \A f \in GlIsos : glIso'[f] <= GlVersions[f]
  <2>1. PICK x : glIso' = [glIso EXCEPT ![x] = 0] \/ glIso' = glIso
    BY DEF GlRmdir
  <2>2. glIso' \in [GlIsos -> Nat] /\ \A f \in GlIsos : glIso'[f] = glIso[f] \/ glIso'[f] = 0
    BY <2>1 DEF GlInv, GlTypes
  <2>3. \A f \in GlIsos : 0 <= GlVersions[f]
    BY GlAssumption
  <2> QED BY <2>2, <2>3 DEF GlInv, GlTypes
<1>5. GlTypes'
  BY <1>1, <1>3, <1>4 DEF GlInv, GlTypes, NoDelete
<1>6. GlCacheInv'
  BY <1>1, <1>3 DEF GlInv, GlCacheInv, EntryFresh, GlListBuilt, GlBuilt
<1>7. GlDirInv' /\ GlDeleteInv'
  BY <1>1 DEF GlInv, GlDirInv, GlDeleteInv, NoDelete
<1> QED BY <1>5, <1>6, <1>7 DEF GlInv

\* A header is taken from the cache if it was made from this version of the file.
LEMMA GlReadDirKeeps ==
    ASSUME GlInv, NEW i \in DOMAIN glTrack, NEW f \in GlIsos, GlReadDir(i, f)
    PROVE  GlInv'
<1> DEFINE hits == {s \in Slots : SameFile(glCaches[s], f)}
<1>1. /\ glIso[f] # 0 /\ UNCHANGED <<glIso, glFile, glOpen, glGiven, glDelete>>
      /\ glTrack' = [glTrack EXCEPT ![i].left = @ \ {f}]
  BY DEF GlReadDir
<1>2. /\ glTrack' \in Seq(GlTracked) /\ DOMAIN glTrack' = DOMAIN glTrack
      /\ \A j \in DOMAIN glTrack : glTrack'[j].dfd = glTrack[j].dfd /\ glTrack'[j].iso = glTrack[j].iso
  <2> DEFINE t == [glTrack[i] EXCEPT !.left = @ \ {f}]
  <2>1. glTrack \in Seq(GlTracked) /\ DOMAIN glTrack = 1 .. Len(glTrack) /\ glTrack[i] \in GlTracked
    BY TrackIndex DEF GlInv, GlTypes
  <2>2. t \in GlTracked /\ t.dfd = glTrack[i].dfd /\ t.iso = glTrack[i].iso
    BY <2>1 DEF GlTracked
  <2>3. glTrack' = [glTrack EXCEPT ![i] = t]
    BY <1>1
  <2> HIDE DEF t
  <2>4. /\ glTrack' \in Seq(GlTracked) /\ Len(glTrack') = Len(glTrack)
        /\ \A j \in 1 .. Len(glTrack) : glTrack'[j] = IF j = i THEN t ELSE glTrack[j]
    BY <2>1, <2>2, <2>3, ExceptSeq
  <2>5. DOMAIN glTrack' = 1 .. Len(glTrack)
    BY <2>4, LenProperties
  <2> QED BY <2>1, <2>2, <2>4, <2>5
<1>3. /\ glList' \in Seq(GlEntry) /\ EntryFresh' /\ GlListBuilt'
      /\ glCaches' \in [Slots -> GlEntry] /\ \A s \in Slots : EntryRight(glCaches'[s])
  <2>1. CASE hits # {}
    <3>1. hits \subseteq Nat
      BY GlAssumption DEF Slots
    <3>2. PICK s \in hits : List(glCaches[s]) /\ UNCHANGED glCaches
      BY <2>1, <3>1, MinIn DEF GlReadDir
    <3>3. /\ glCaches[s] \in GlEntry /\ EntryRight(glCaches[s]) /\ glCaches[s].on
          /\ glCaches[s].name = f /\ glCaches[s].mtime = glIso[f]
      BY DEF SameFile, GlInv, GlTypes, GlCacheInv
    <3>4. glCaches[s].built \in {glIso[f], Unbuilt, Refused}
      BY <1>1, <3>3 DEF EntryRight
    <3> QED BY <3>2, <3>3, <3>4, ListKeeps DEF GlInv, GlTypes, GlCacheInv
  <2>2. CASE hits = {}
    <3> DEFINE e == [Blank EXCEPT !.on = TRUE, !.name = f, !.mtime = glIso[f]]
               unbuilt == [e EXCEPT !.size = GlFileSize[f][glIso[f]]]
               good == [unbuilt EXCEPT !.built = glIso[f]]
               refused == [e EXCEPT !.built = Refused]
    <3>1. BuildVpbp(f)
      BY <2>2 DEF GlReadDir
    <3>2. glIso[f] \in Nat /\ GlFileSize[f][glIso[f]] \in Nat
      <4>1. glIso[f] \in 1 .. GlVersions[f]
        BY <1>1, GlAssumption DEF GlInv, GlTypes
      <4> QED BY <4>1, GlAssumption
    <3>3. e \in GlEntry /\ e.name = f /\ e.mtime = glIso[f]
      BY <3>2, GlBlank DEF GlEntry, Blank
    <3> HIDE DEF e
    <3>4. unbuilt \in GlEntry /\ unbuilt.name = f /\ unbuilt.built = Unbuilt /\ unbuilt.mtime = glIso[f]
      <4>1. e.built = Unbuilt
        BY DEF e, Blank, Unbuilt
      <4> QED BY <3>2, <3>3, <4>1 DEF GlEntry
    <3> HIDE DEF unbuilt
    <3>5. good \in GlEntry /\ good.name = f /\ good.built = glIso[f] /\ good.mtime = glIso[f]
      BY <3>2, <3>4 DEF GlEntry
    <3>6. refused \in GlEntry /\ refused.name = f /\ refused.built = Refused
      BY <3>2, <3>3 DEF GlEntry, Refused
    <3>7. \/ List(good) /\ AddCache(good)
          \/ List(unbuilt) /\ AddCache(unbuilt)
          \/ List(refused) /\ UNCHANGED <<glCaches, glRef, glDirty>>
      BY <3>1 DEF BuildVpbp, e, unbuilt
    <3>8. EntryRight(good) /\ EntryRight(unbuilt)
      BY <3>4, <3>5 DEF EntryRight
    <3> HIDE DEF e, unbuilt, good, refused
    <3>9. GlTypes /\ GlCacheInv /\ EntryFresh /\ GlListBuilt
      BY DEF GlInv, GlCacheInv
    <3>10. glList' \in Seq(GlEntry) /\ EntryFresh' /\ GlListBuilt'
      BY <3>4, <3>5, <3>6, <3>7, <3>9, ListKeeps
    <3>11. glCaches' \in [Slots -> GlEntry] /\ \A s \in Slots : EntryRight(glCaches'[s])
      BY <3>4, <3>5, <3>7, <3>8, <3>9, AddCacheKeeps DEF GlTypes, GlCacheInv
    <3> QED BY <3>10, <3>11
  <2> QED BY <2>1, <2>2
<1>4. GlTypes'
  BY <1>1, <1>2, <1>3 DEF GlInv, GlTypes
<1>5. GlCacheInv'
  BY <1>1, <1>3 DEF GlInv, GlCacheInv
<1>6. GlDirInv'
  <2>0. UNCHANGED <<glOpen, glGiven>>
    BY <1>1
  <2> USE <2>0, <1>2 DEF GlInv, GlDirInv
  <2>1. \A j, k \in DOMAIN glTrack' : glTrack'[j].dfd = glTrack'[k].dfd => j = k
    OBVIOUS
  <2>2. \A j \in DOMAIN glTrack' : /\ \E q \in glGiven' : q[1] = glTrack'[j].dfd /\ q[2]
                                  /\ glTrack'[j].dfd \in glOpen' /\ glTrack'[j].iso \in glOpen'
    OBVIOUS
  <2>3. \A p \in glGiven' : p[1] \in glOpen'
                          /\ (p[2] => \E j \in DOMAIN glTrack' : glTrack'[j].dfd = p[1])
    OBVIOUS
  <2>4. \A j \in DOMAIN glTrack' : \A p \in glGiven' :
            p[1] = glTrack'[j].iso => p[1] = glTrack'[j].dfd
    OBVIOUS
  <2> QED BY <2>1, <2>2, <2>3, <2>4
<1>7. GlDeleteInv'
  BY <1>1 DEF GlInv, GlDeleteInv
<1> QED BY <1>4, <1>5, <1>6, <1>7 DEF GlInv

\* load_cache and save_cache.
LEMMA CacheFileKeeps ==
    ASSUME GlInv, LoadCache \/ SaveCache \/ UNCHANGED cacheVars
    PROVE  /\ glFile' \in [Slots -> GlEntry] /\ glCaches' \in [Slots -> GlEntry]
           /\ \A s \in Slots : EntryRight(glFile'[s]) /\ EntryRight(glCaches'[s])
<1>1. Purged \in [Slots -> GlEntry] /\ \A s \in Slots : EntryRight(Purged[s])
  BY PurgedType DEF GlInv
<1>2. NoCache \in [Slots -> GlEntry] /\ \A s \in Slots : EntryRight(NoCache[s])
  BY GlBlank DEF NoCache, EntryRight
<1>3. /\ glFile \in [Slots -> GlEntry] /\ glCaches \in [Slots -> GlEntry]
      /\ \A s \in Slots : EntryRight(glFile[s]) /\ EntryRight(glCaches[s])
  BY DEF GlInv, GlTypes, GlCacheInv
<1>4. glFile' \in {glFile, Purged} /\ glCaches' \in {glFile, glCaches, Purged, NoCache}
  BY DEF LoadCache, SaveCache, cacheVars
<1> QED BY <1>1, <1>2, <1>3, <1>4

\* The firmware's next descriptors stand for nothing yet.
LEMMA GlOpenDirKeeps ==
    ASSUME GlInv, NEW path \in {"root", "cat"}, NEW game \in BOOLEAN, NEW iso \in BOOLEAN,
           NEW added \in BOOLEAN, GlOpenDir(path, game, iso, added)
    PROVE  GlInv'
<1> DEFINE free == GlFds \ glOpen
           dfd == Min(free)
           isoDfd == IF game THEN Min(free \ {dfd}) ELSE dfd
           new == [dfd |-> dfd, iso |-> isoDfd, path |-> path,
                   left |-> {f \in GlIsos : GlFolder[f] = path}]
<1>1. /\ game \/ iso
      /\ Cardinality(free) >= IF game /\ iso THEN 2 ELSE 1
      /\ glOpen' = glOpen \cup {dfd} \cup (IF iso THEN {isoDfd} ELSE {})
      /\ IF iso /\ added THEN glTrack' = Append(glTrack, new) ELSE UNCHANGED glTrack
      /\ glGiven' = IF iso /\ ~added THEN glGiven ELSE glGiven \cup {<<dfd, iso>>}
      /\ UNCHANGED <<glIso, glList, glDelete>>
  BY DEF GlOpenDir, GlFds, pbpVars
<1>2. dfd \in free /\ (iso => isoDfd \in free)
  <2>1. free \subseteq Nat /\ IsFiniteSet(free)
    <3>1. 1 \in Int /\ GlMaxFds \in Int
      BY GlAssumption
    <3>2. IsFiniteSet(GlFds) /\ GlFds \subseteq Nat
      BY <3>1, FS_Interval DEF GlFds
    <3> QED BY <3>2, FS_Subset
  <2>2. Cardinality({}) = 0 /\ free # {}
    BY <1>1, FS_EmptySet
  <2>3. dfd \in free
    BY <2>1, <2>2, MinIn
  <2> HIDE DEF dfd, free
  <2>4. CASE game /\ iso
    <3>1. Cardinality(free \ {dfd}) = Cardinality(free) - 1 /\ Cardinality(free) \in Nat
      BY <2>1, <2>3, FS_RemoveElement, FS_CardinalityType
    <3>2. Cardinality(free) >= 2
      BY <1>1, <2>4
    <3>3. free \ {dfd} # {}
      BY <2>2, <3>1, <3>2
    <3>4. Min(free \ {dfd}) \in free \ {dfd}
      BY <2>1, <3>3, MinIn
    <3> QED BY <2>3, <2>4, <3>4
  <2>5. CASE ~game
    BY <2>3, <2>5
  <2>6. CASE ~iso
    BY <2>3, <2>6
  <2> QED BY <2>4, <2>5, <2>6
<1> HIDE DEF dfd, isoDfd
<1>3. dfd \in GlFds /\ dfd \notin glOpen /\ (iso => isoDfd \in GlFds /\ isoDfd \notin glOpen)
  BY <1>2
<1>4. /\ glFile' \in [Slots -> GlEntry] /\ glCaches' \in [Slots -> GlEntry]
      /\ \A s \in Slots : EntryRight(glFile'[s]) /\ EntryRight(glCaches'[s])
  <2>1. LoadCache \/ UNCHANGED cacheVars
    BY DEF GlOpenDir
  <2> QED BY <2>1, CacheFileKeeps
<1>5. GlCacheInv' /\ GlDeleteInv'
  BY <1>1, <1>4 DEF GlInv, GlCacheInv, EntryFresh, GlListBuilt, GlDeleteInv
<1> DEFINE given == <<dfd, iso>>
<1>6. given[1] = dfd /\ given[2] = iso /\ given \in GlFds \X BOOLEAN
  BY <1>3
<1>7. glGiven' = IF iso /\ ~added THEN glGiven ELSE glGiven \cup {given}
  BY <1>1
<1> HIDE DEF given
<1>8. CASE iso /\ added
  <2>1. new \in GlTracked /\ new.dfd = dfd /\ new.iso = isoDfd
    BY <1>3, <1>8 DEF GlTracked
  <2> HIDE DEF new, free
  <2>2. glTrack \in Seq(GlTracked) /\ glTrack' = Append(glTrack, new)
    BY <1>1, <1>8 DEF GlInv, GlTypes
  <2> DEFINE n == Len(glTrack)
  <2>3. /\ glTrack' \in Seq(GlTracked) /\ Len(glTrack') = n + 1
        /\ \A i \in 1 .. n : glTrack'[i] = glTrack[i]
        /\ glTrack'[n + 1] = new
    BY <2>1, <2>2, AppendProperties
  <2>4. n \in Nat /\ DOMAIN glTrack = 1 .. n /\ DOMAIN glTrack' = 1 .. n + 1
    BY <2>2, <2>3, LenProperties
  <2> HIDE DEF n
  <2>5. /\ glGiven' = glGiven \cup {given} /\ glOpen' = glOpen \cup {dfd, isoDfd}
        /\ given[1] = dfd /\ given[2]
    BY <1>1, <1>8, <1>6, <1>7
  <2>6. \A i \in 1 .. n + 1 : i \in 1 .. n \/ i = n + 1
    BY <2>4
  <2>7. n + 1 \in 1 .. n + 1 /\ 1 .. n \subseteq 1 .. n + 1
    BY <2>4
  <2>8. GlTypes'
    <3>1. glGiven' \subseteq GlFds \X BOOLEAN /\ glOpen' \subseteq GlFds
      BY <1>3, <1>8, <1>6, <2>5 DEF GlInv, GlTypes
    <3> QED BY <1>1, <1>4, <2>3, <3>1 DEF GlInv, GlTypes
  <2>9. GlDirInv'
    <3> USE DEF GlInv, GlDirInv
    <3>1. \A i, j \in DOMAIN glTrack' : glTrack'[i].dfd = glTrack'[j].dfd => i = j
      BY <1>3, <2>1, <2>3, <2>4, <2>6
    <3>2. \A i \in DOMAIN glTrack' : /\ \E q \in glGiven' : q[1] = glTrack'[i].dfd /\ q[2]
                                     /\ glTrack'[i].dfd \in glOpen' /\ glTrack'[i].iso \in glOpen'
      BY <2>1, <2>3, <2>4, <2>5, <2>6
    <3>3. \A p \in glGiven' : p[1] \in glOpen'
                              /\ (p[2] => \E i \in DOMAIN glTrack' : glTrack'[i].dfd = p[1])
      <4> TAKE p \in glGiven'
      <4>1. CASE p \in glGiven
        BY <2>3, <2>4, <2>5, <2>7, <4>1
      <4>2. CASE p = given
        BY <2>1, <2>3, <2>4, <2>5, <2>7, <4>2
      <4> QED BY <2>5, <4>1, <4>2
    <3>4. \A p, q \in glGiven' : p[1] = q[1] => p = q
      BY <1>3, <2>5
    <3>5. \A i \in DOMAIN glTrack' : \A p \in glGiven' :
              p[1] = glTrack'[i].iso => p[1] = glTrack'[i].dfd
      BY <1>3, <1>8, <2>1, <2>3, <2>4, <2>5, <2>6
    <3> QED BY <3>1, <3>2, <3>3, <3>4, <3>5
  <2> QED BY <1>5, <2>8, <2>9 DEF GlInv
<1>9. CASE ~(iso /\ added)
  <2> HIDE DEF new, free
  <2>1. glTrack' = glTrack /\ glOpen \subseteq glOpen'
    BY <1>1, <1>9
  <2>2. \/ glGiven' = glGiven
        \/ glGiven' = glGiven \cup {given} /\ dfd \in glOpen' /\ given[1] = dfd /\ ~given[2]
    BY <1>1, <1>9, <1>6, <1>7
  <2>3. glGiven' \subseteq GlFds \X BOOLEAN /\ glOpen' \subseteq GlFds
    BY <1>1, <1>3, <1>6, <2>2 DEF GlInv, GlTypes
  <2>4. GlTypes'
    BY <1>1, <1>4, <2>1, <2>3 DEF GlInv, GlTypes
  <2>5. GlDirInv'
    <3> USE DEF GlInv, GlDirInv
    <3>1. \A i \in DOMAIN glTrack' : /\ \E q \in glGiven' : q[1] = glTrack'[i].dfd /\ q[2]
                                     /\ glTrack'[i].dfd \in glOpen' /\ glTrack'[i].iso \in glOpen'
      BY <2>1, <2>2
    <3>2. \A p \in glGiven' : p[1] \in glOpen'
                              /\ (p[2] => \E i \in DOMAIN glTrack' : glTrack'[i].dfd = p[1])
      BY <2>1, <2>2
    <3>3. \A p, q \in glGiven' : p[1] = q[1] => p = q
      BY <1>3, <2>2
    <3>4. \A i \in DOMAIN glTrack' : \A p \in glGiven' :
              p[1] = glTrack'[i].iso => p[1] = glTrack'[i].dfd
      BY <1>3, <2>1, <2>2
    <3> QED BY <2>1, <3>1, <3>2, <3>3, <3>4
  <2> QED BY <1>5, <2>4, <2>5 DEF GlInv
<1> QED BY <1>8, <1>9

\* A descriptor is closed with the entry of the list that stands for it.
LEMMA GlCloseDirKeeps ==
    ASSUME GlInv, NEW p \in glGiven, GlCloseDir(p)
    PROVE  GlInv'
<1>1. UNCHANGED <<glIso, glList, glDelete>> /\ glOpen' = glOpen \ {p[1]} /\ glGiven' = glGiven \ {p}
  BY DEF GlCloseDir, pbpVars
<1>2. SaveCache \/ UNCHANGED cacheVars
  BY DEF GlCloseDir
<1>3. /\ glFile' \in [Slots -> GlEntry] /\ glCaches' \in [Slots -> GlEntry]
      /\ \A s \in Slots : EntryRight(glFile'[s]) /\ EntryRight(glCaches'[s])
  BY <1>2, CacheFileKeeps
<1>4. GlCacheInv' /\ GlDeleteInv'
  BY <1>1, <1>3 DEF GlInv, GlCacheInv, EntryFresh, GlListBuilt, GlDeleteInv
<1>5. Len(glTrack) \in Nat /\ DOMAIN glTrack = 1 .. Len(glTrack) /\ glTrack \in Seq(GlTracked)
  BY TrackIndex DEF GlInv, GlTypes
<1>6. glGiven' \subseteq GlFds \X BOOLEAN /\ glOpen' \subseteq GlFds
  BY <1>1 DEF GlInv, GlTypes
<1>7. ASSUME NEW i \in DOMAIN glTrack, glTrack[i].dfd = p[1], glTrack' = RemoveAt(glTrack, i)
      PROVE  GlTypes' /\ GlDirInv'
  <2> DEFINE n == Len(glTrack)
             old(j) == IF j < i THEN j ELSE j + 1
  <2>1. /\ glTrack' \in Seq(GlTracked) /\ DOMAIN glTrack' = 1 .. n - 1
        /\ \A j \in 1 .. n - 1 : glTrack'[j] = IF j < i THEN glTrack[j] ELSE glTrack[j + 1]
    BY <1>5, <1>7, RemoveAtType
  <2>2. i \in 1 .. n /\ n \in Nat
    BY <1>5, <1>7
  <2>3. \A j \in 1 .. n - 1 : /\ old(j) \in DOMAIN glTrack /\ old(j) # i
                              /\ glTrack'[j] = glTrack[old(j)]
    BY <1>5, <2>1, <2>2
  <2>4. \A j, k \in 1 .. n - 1 : old(j) = old(k) => j = k
    BY <2>2
  <2>5. \A k \in DOMAIN glTrack : k # i => \E j \in 1 .. n - 1 : old(j) = k
    <3> TAKE k \in DOMAIN glTrack
    <3> HAVE k # i
    <3>1. k \in 1 .. n
      BY <1>5
    <3>2. CASE k < i
      <4>1. k \in 1 .. n - 1 /\ old(k) = k
        BY <2>2, <3>1, <3>2
      <4> QED BY <4>1
    <3>3. CASE k > i
      <4>1. k - 1 \in 1 .. n - 1 /\ old(k - 1) = k
        BY <2>2, <3>1, <3>3
      <4> QED BY <4>1
    <3> QED BY <2>2, <3>1, <3>2, <3>3
  <2> HIDE DEF old, n
  <2>6. \A j \in 1 .. n - 1 : glTrack'[j].dfd # p[1] /\ glTrack'[j].iso # p[1]
    BY <1>7, <2>3 DEF GlInv, GlDirInv
  <2>7. GlTypes'
    BY <1>1, <1>3, <1>6, <2>1 DEF GlInv, GlTypes
  <2>8. GlDirInv'
    <3> USE <1>1 DEF GlInv, GlDirInv
    <3>1. \A j, k \in DOMAIN glTrack' : glTrack'[j].dfd = glTrack'[k].dfd => j = k
      BY <2>1, <2>3, <2>4
    <3>2. \A j \in DOMAIN glTrack' : /\ \E q \in glGiven' : q[1] = glTrack'[j].dfd /\ q[2]
                                     /\ glTrack'[j].dfd \in glOpen' /\ glTrack'[j].iso \in glOpen'
      BY <2>1, <2>3, <2>6
    <3>3. \A q \in glGiven' : q[1] \in glOpen'
                              /\ (q[2] => \E j \in DOMAIN glTrack' : glTrack'[j].dfd = q[1])
      <4> TAKE q \in glGiven'
      <4>1. q \in glGiven /\ q # p /\ q[1] # p[1]
        OBVIOUS
      <4>2. ASSUME q[2]
            PROVE  \E j \in DOMAIN glTrack' : glTrack'[j].dfd = q[1]
        <5>1. PICK k \in DOMAIN glTrack : glTrack[k].dfd = q[1]
          BY <4>1, <4>2
        <5>2. PICK j \in 1 .. n - 1 : old(j) = k
          BY <1>7, <2>5, <4>1, <5>1
        <5> QED BY <2>1, <2>3, <5>1, <5>2
      <4> QED BY <4>1, <4>2
    <3>4. \A j \in DOMAIN glTrack' : \A q \in glGiven' :
              q[1] = glTrack'[j].iso => q[1] = glTrack'[j].dfd
      BY <2>1, <2>3
    <3> QED BY <3>1, <3>2, <3>3, <3>4
  <2> QED BY <2>7, <2>8
<1>8. ASSUME \A i \in DOMAIN glTrack : glTrack[i].dfd # p[1], glTrack' = glTrack
      PROVE  GlTypes' /\ GlDirInv'
  <2>1. GlTypes'
    BY <1>1, <1>3, <1>6, <1>8 DEF GlInv, GlTypes
  <2>2. GlDirInv'
    <3> USE <1>1, <1>8 DEF GlInv, GlDirInv
    <3>1. \A i \in DOMAIN glTrack : glTrack[i].iso # p[1]
      OBVIOUS
    <3>2. \A j \in DOMAIN glTrack' : /\ \E q \in glGiven' : q[1] = glTrack'[j].dfd /\ q[2]
                                     /\ glTrack'[j].dfd \in glOpen' /\ glTrack'[j].iso \in glOpen'
      BY <3>1
    <3>3. \A q \in glGiven' : q[1] \in glOpen'
                              /\ (q[2] => \E j \in DOMAIN glTrack' : glTrack'[j].dfd = q[1])
      OBVIOUS
    <3>4. \A j \in DOMAIN glTrack' : \A q \in glGiven' :
              q[1] = glTrack'[j].iso => q[1] = glTrack'[j].dfd
      OBVIOUS
    <3> QED BY <3>2, <3>3, <3>4
  <2> QED BY <2>1, <2>2
<1> QED BY <1>4, <1>7, <1>8 DEF GlCloseDir, StandsFor, GlInv

LEMMA GlNextKeeps == GlInv /\ [GlNext]_glVars => GlInv'
<1> SUFFICES ASSUME GlInv, [GlNext]_glVars PROVE GlInv'
  OBVIOUS
<1>1. ASSUME NEW i \in DOMAIN glList,
             GlOpenPbp(i) \/ GlOpenVirtual(i) \/ GlRename(i) \/ GlLoadExec(i)
      PROVE  GlInv'
  <2>1. i \in Nat
    BY LenProperties DEF GlInv, GlTypes
  <2> QED BY <1>1, <2>1, GlPbpKeeps, GlRestartKeeps DEF GlLoadExec
<1>2. ASSUME NEW i \in DOMAIN glUsers,
             GlSeekPbp(i) \/ GlReadPbp(i) \/ GlReadHangs(i) \/ GlClosePbp(i)
      PROVE  GlInv'
  BY <1>2, GlPbpKeeps, GlRestartKeeps DEF GlReadHangs
<1>3. CASE GlRmdir \/ GlRestart \/ UNCHANGED glVars
  BY <1>3, GlRmdirKeeps, GlRestartKeeps, GlPbpKeeps
<1> QED BY <1>1, <1>2, <1>3, GlReadDirKeeps, GlOpenDirKeeps, GlCloseDirKeeps, GlReplaceKeeps,
           GlPowerLossKeeps DEF GlNext

\* Every step leaves a position in the list, whatever fails in a read.
LEMMA GlUsersKeeps ==
    ASSUME GlInv, GlUsersInv, [GlNext]_glVars
    PROVE  GlUsersInv'
<1>1. CASE UNCHANGED <<glList, glUsers>>
  BY <1>1 DEF GlUsersInv
<1>2. CASE Restarted
  BY <1>2 DEF Restarted, GlUsersInv
<1>3. ASSUME NEW i \in DOMAIN glList, GlOpenPbp(i)
      PROVE  GlUsersInv'
  <2>1. glList' = glList
        /\ \/ glUsers' = [j \in DOMAIN glUsers \cup {i} |-> IF j = i THEN 0 ELSE glUsers[j]]
           \/ glUsers' = glUsers
    BY <1>3 DEF GlOpenPbp
  <2> QED BY <2>1 DEF GlUsersInv
<1>4. ASSUME NEW i \in DOMAIN glUsers, NEW p \in Nat, glUsers' = [glUsers EXCEPT ![i] = p], glList' = glList
      PROVE  GlUsersInv'
  BY <1>4 DEF GlUsersInv
<1>5. ASSUME NEW i \in DOMAIN glUsers, glList[i].built > 0
      PROVE  GlBuilt(glList[i]) /\ glUsers[i] \in Nat
  BY <1>5 DEF GlUsersInv, GlInv, GlCacheInv, GlListBuilt
<1>6. ASSUME NEW i \in DOMAIN glUsers, GlSeekPbp(i)
      PROVE  GlUsersInv'
  <2>1. PICK to \in 0 .. TotalSize(glList[i]) : glUsers' = [glUsers EXCEPT ![i] = to]
    BY <1>6 DEF GlSeekPbp
  <2>2. glList[i].built > 0 /\ glList' = glList
    BY <1>6 DEF GlSeekPbp
  <2>3. TotalSize(glList[i]) \in Nat
    BY <1>5, <2>2, WantedBytes
  <2>4. to \in Nat
    BY <2>3
  <2> QED BY <1>4, <2>1, <2>2, <2>4
<1>7. ASSUME NEW i \in DOMAIN glUsers, GlReadPbp(i)
      PROVE  GlUsersInv'
  <2>1. PICK n \in GlReads, fails \in BOOLEAN :
            glUsers' = [glUsers EXCEPT ![i] = ReadPbp(glList[i], glUsers[i], n, fails).fp]
    BY <1>7 DEF GlReadPbp
  <2>2. glList[i].built > 0 /\ glList' = glList
    BY <1>7 DEF GlReadPbp
  <2>3. n \in Nat
    BY GlAssumption
  <2>4. ReadPbp(glList[i], glUsers[i], n, fails) \in GlReading
    BY <1>5, <2>2, <2>3, ReadPbpTypes
  <2>5. ReadPbp(glList[i], glUsers[i], n, fails).fp \in Nat
    BY <2>4 DEF GlReading
  <2> QED BY <1>4, <2>1, <2>2, <2>5
<1>8. ASSUME NEW i \in DOMAIN glUsers, GlClosePbp(i)
      PROVE  GlUsersInv'
  BY <1>8 DEF GlClosePbp, GlUsersInv
<1>9. ASSUME NEW i \in DOMAIN glTrack, NEW f \in GlIsos, GlReadDir(i, f)
      PROVE  GlUsersInv'
  <2>1. glUsers' = glUsers
    BY <1>9 DEF GlReadDir
  <2>2. \E e : glList' = Append(glList, e)
    BY <1>9 DEF GlReadDir, BuildVpbp, List
  <2>3. glList \in Seq(GlEntry)
    BY DEF GlInv, GlTypes
  <2>4. DOMAIN glList = 1 .. Len(glList) /\ Len(glList) \in Nat
    BY <2>3, LenProperties
  <2>5. DOMAIN glList \subseteq DOMAIN glList'
    BY <2>2, <2>4 DEF Append
  <2> QED BY <2>1, <2>5 DEF GlUsersInv
<1>10. CASE GlRmdir
  BY <1>10 DEF GlRmdir, GlUsersInv
<1>11. ASSUME NEW i, GlOpenVirtual(i) \/ GlRename(i)
       PROVE  GlUsersInv'
  BY <1>1, <1>11 DEF GlOpenVirtual, GlRename, pbpVars
<1>12. ASSUME NEW i, GlLoadExec(i) \/ GlReadHangs(i) \/ GlRestart \/ GlPowerLoss(i)
       PROVE  GlUsersInv'
  BY <1>2, <1>12 DEF GlLoadExec, GlReadHangs, GlRestart, GlPowerLoss
<1>13. ASSUME NEW path, NEW game, NEW iso, NEW added, GlOpenDir(path, game, iso, added)
       PROVE  GlUsersInv'
  BY <1>1, <1>13 DEF GlOpenDir, pbpVars
<1>14. ASSUME NEW p, GlCloseDir(p)
       PROVE  GlUsersInv'
  BY <1>1, <1>14 DEF GlCloseDir, pbpVars
<1>15. ASSUME NEW f, NEW v, GlReplace(f, v)
       PROVE  GlUsersInv'
  BY <1>1, <1>15 DEF GlReplace, pbpVars
<1>16. CASE UNCHANGED glVars
  BY <1>1, <1>16 DEF glVars, pbpVars
<1> QED BY <1>3, <1>6, <1>7, <1>8, <1>9, <1>10, <1>11, <1>12, <1>13, <1>14, <1>15, <1>16 DEF GlNext

LEMMA GlReadsRight == GlInv /\ GlUsersInv => PbpReadRight
<1> SUFFICES ASSUME GlInv, GlUsersInv, NEW i \in DOMAIN glUsers, glList[i].built > 0,
                    glImage = <<glList[i].name, glList[i].built>>, glUsers[i] = 0 \/ glUsers[i] >= GlHead,
                    NEW n \in GlReads
             PROVE  ReadPbp(glList[i], glUsers[i], n, FALSE).data
                    = SubSeq(WantedPbp(glList[i]), glUsers[i] + 1, Least(glUsers[i] + n, TotalSize(glList[i])))
  BY DEF PbpReadRight
<1>1. GlBuilt(glList[i]) /\ glUsers[i] \in Nat
  BY DEF GlUsersInv, GlInv, GlCacheInv, GlListBuilt
<1>2. n \in Nat
  BY GlAssumption
<1> QED BY <1>1, <1>2, ReadPbpRight

-----------------------------------------------------------------------------
(* The game list: theorems                                                 *)

\* The cache, the list and the descriptors keep to each other in every state.
THEOREM GlInvHolds == GlSpec => []GlInv
  BY GlInitInv, GlNextKeeps, PTL DEF GlSpec

\* EntryFresh: a header in the list was made from the version of the file that was on the
\* memory stick when it was listed, for any files, slots, versions and descriptors.
THEOREM EntryFreshTheorem == GlSpec => []EntryFresh
<1>1. GlInv => EntryFresh
  BY DEF GlInv, GlCacheInv
<1> QED BY GlInvHolds, <1>1, PTL

\* PbpReadRight: while an opened entry's own image is the open one and is the version its
\* header was made from, a read of any length gives the virtual file's bytes from the
\* entry's position on, for any number and sizes of sections.
THEOREM PbpReadRightTheorem == GlSpec => []PbpReadRight
<1>1. GlInit => GlUsersInv
  BY DEF GlInit, GlUsersInv
<1>2. GlInv /\ GlUsersInv /\ [GlNext]_glVars => GlUsersInv'
  BY GlUsersKeeps
<1>3. GlInv /\ GlUsersInv => PbpReadRight
  BY GlReadsRight
<1> QED BY GlInvHolds, <1>1, <1>2, <1>3, PTL DEF GlSpec

\* DirsTracked: the descriptors the menu holds of folders with ISO files are those of
\* the list of open directories, each once, and they are open.
THEOREM DirsTrackedTheorem == GlSpec => []DirsTracked
<1>1. GlInv => DirsTracked
  <2> SUFFICES ASSUME GlInv PROVE DirsTracked
    OBVIOUS
  <2> DEFINE n == Len(glTrack)
             D == {t.dfd : t \in ToSet(glTrack)}
             g == [i \in 1 .. n |-> glTrack[i].dfd]
  <2>1. n \in Nat /\ DOMAIN glTrack = 1 .. n
    BY TrackIndex DEF GlInv
  <2>2. D = {glTrack[i].dfd : i \in 1 .. n}
    BY <2>1 DEF ToSet
  <2>3. n = Cardinality(D)
    <3>1. g \in [1 .. n -> D] /\ \A t \in D : \E i \in 1 .. n : g[i] = t
      BY <2>2
    <3>2. \A i, j \in 1 .. n : g[i] = g[j] => i = j
      BY <2>1 DEF GlInv, GlDirInv
    <3> HIDE DEF g, D
    <3>3. g \in Bijection(1 .. n, D)
      BY <3>1, <3>2, Fun_IsBij
    <3>4. ExistsBijection(1 .. n, D)
      BY <3>3, Fun_ExistsBij
    <3>5. 1 \in Int /\ n \in Int
      BY <2>1
    <3>6. IsFiniteSet(1 .. n) /\ Cardinality(1 .. n) = IF 1 > n THEN 0 ELSE n - 1 + 1
      BY <3>5, FS_Interval
    <3>7. Cardinality(1 .. n) = n
      BY <2>1, <3>6
    <3> QED BY <3>4, <3>6, <3>7, FS_Bijection
  <2>4. D = {q[1] : q \in {r \in glGiven : r[2]}}
    <3>1. ASSUME NEW i \in 1 .. n
          PROVE  glTrack[i].dfd \in {q[1] : q \in {r \in glGiven : r[2]}}
      BY <2>1 DEF GlInv, GlDirInv
    <3>2. ASSUME NEW q \in glGiven, q[2]
          PROVE  q[1] \in D
      BY <2>1, <2>2, <3>2 DEF GlInv, GlDirInv
    <3> QED BY <2>2, <3>1, <3>2
  <2>5. \A t \in ToSet(glTrack) : t.dfd \in glOpen /\ t.iso \in glOpen
    BY DEF ToSet, GlInv, GlDirInv
  <2> QED BY <2>3, <2>4, <2>5 DEF DirsTracked
<1> QED BY GlInvHolds, <1>1, PTL

\* DeletesAsked: the file that disappears with a folder for deletion is that of the
\* game whose folder the menu renamed.
THEOREM DeletesAskedTheorem == GlSpec => DeletesAsked
<1>1. GlInv /\ [GlNext]_glVars =>
          [\A f \in GlIsos : glIso[f] # 0 /\ glIso'[f] = 0 => f = glList[glDelete.asked].name]_glVars
  <2> SUFFICES ASSUME GlInv, GlNext, NEW f \in GlIsos, glIso[f] # 0, glIso'[f] = 0
               PROVE  f = glList[glDelete.asked].name
    BY DEF glVars
  <2>1. CASE GlRmdir
    <3>1. glIso' = [glIso EXCEPT ![glList[glDelete.dir].name] = 0] \/ UNCHANGED glIso
      BY <2>1 DEF GlRmdir
    <3>2. glDelete.dir = glDelete.asked
      BY <2>1 DEF GlRmdir, GlInv, GlDeleteInv
    <3> QED BY <3>1, <3>2 DEF GlInv, GlTypes
  <2>2. ASSUME NEW g \in GlIsos, NEW v \in 1 .. GlVersions[g], GlReplace(g, v)
        PROVE  FALSE
    <3>1. glIso' = [glIso EXCEPT ![g] = v] /\ v > 0
      BY <2>2, GlAssumption DEF GlReplace
    <3> QED BY <3>1 DEF GlInv, GlTypes
  <2>3. CASE UNCHANGED glIso
    BY <2>3
  <2>4. GlRmdir \/ UNCHANGED glIso \/ \E g \in GlIsos : \E v \in 1 .. GlVersions[g] : GlReplace(g, v)
    BY DEF GlNext, GlOpenPbp, GlOpenVirtual, GlRename, GlLoadExec, GlSeekPbp, GlReadPbp, GlReadHangs,
           GlClosePbp, GlReadDir, GlOpenDir, GlCloseDir, GlRestart, GlPowerLoss, Restarted
  <2> QED BY <2>1, <2>2, <2>3, <2>4
<1> QED BY GlInvHolds, <1>1, PTL DEF GlSpec, DeletesAsked

-----------------------------------------------------------------------------
(* The files of the plugins: the invariant                                 *)

PlItems == [name : PlNames, enabled : {0, 1}]
PlLists == UNION {[D -> PlItems] : D \in SUBSET (Nat \ {0})}

PlRecs == [pc : {"off", "load", "menu", "open", "write"}, dev : {"ms", "ef"},
           type : PlTypes, k : Nat \ {0}, changed : PlTypes,
           list : [PlTypes -> PlLists], short : SUBSET PlTypes]

PlTyped ==
    /\ plGo \in BOOLEAN
    /\ plFile \in [PlFiles -> Seq(PlLines)]
    /\ plWant \in [PlFiles -> Seq(PlItems)]
    /\ plRec \in PlRecs

Loaded(t) ==
    plRec.pc \in {"menu", "open", "write"} \/ (plRec.pc = "load" /\ Order[t] < Order[plRec.type])

\* A list of Recovery's holds what the user wants, all of it unless it is short.
ListRight(t) ==
    /\ DOMAIN plRec.list[t] \subseteq DOMAIN plWant[<<plRec.dev, t>>]
    /\ \A i \in DOMAIN plRec.list[t] : plRec.list[t][i] = plWant[<<plRec.dev, t>>][i]
    /\ t \in plRec.short \/ DOMAIN plRec.list[t] = DOMAIN plWant[<<plRec.dev, t>>]

Writing(f) == plRec.pc = "write" /\ f = PlThis

Unsaved(f) == ChangeUnsaved /\ f = <<plRec.dev, plRec.changed>>

LoadsOnly(lines, want) ==
    \A i \in DOMAIN lines : Enabled(lines[i]) = 1 =>
        \E j \in DOMAIN want : want[j].enabled = 1 /\ want[j].name = lines[i].name

LoadsWanted(f) == LoadsOnly(plFile[f], plWant[f])

FileRight(f) ==
    (~Writing(f) /\ ~Unsaved(f)) =>
        /\ f \notin plGone => Parsed(plFile[f]) = plWant[f]
        /\ f \notin plWrong => LoadsWanted(f)

\* The file being written holds the lines of the list so far, or some of them.
WriteRight ==
    /\ PlThis \notin plGone =>
        /\ plRec.type \notin plRec.short
        /\ Len(plFile[PlThis]) = plRec.k - 1 /\ 1 .. plRec.k - 1 \subseteq DOMAIN plRec.list[plRec.type]
        /\ \A i \in 1 .. plRec.k - 1 : plFile[PlThis][i] = Line(plRec.list[plRec.type][i])
    /\ PlThis \notin plWrong =>
        \A i \in DOMAIN plFile[PlThis] : \E j \in DOMAIN plRec.list[plRec.type] :
            plFile[PlThis][i] = Line(plRec.list[plRec.type][j])

PlInv ==
    /\ PlTyped
    /\ plRec.pc # "write" => plRec.k = 1
    /\ plRec.pc # "off" => plRan = <<>>
    /\ \A t \in PlTypes : Loaded(t) => ListRight(t)
    /\ \A f \in PlFiles : FileRight(f)
    /\ plRec.pc = "write" => WriteRight
    /\ PluginsRight

-----------------------------------------------------------------------------
(* The files of the plugins: the operators                                 *)

LEMMA PlListFacts ==
    ASSUME NEW l \in PlLists
    PROVE  DOMAIN l \subseteq Nat \ {0} /\ l \in [DOMAIN l -> PlItems] /\ \A i \in DOMAIN l : l[i] \in PlItems
  BY DEF PlLists

LEMMA PlListMade ==
    ASSUME NEW D \in SUBSET (Nat \ {0}), NEW l \in [D -> PlItems]
    PROVE  l \in PlLists
  BY DEF PlLists

\* A file's lines give a list of as many plugins.
LEMMA ParsedType ==
    ASSUME NEW lines \in Seq(PlLines)
    PROVE  /\ Parsed(lines) \in Seq(PlItems) /\ DOMAIN Parsed(lines) = 1 .. Len(lines)
           /\ Len(Parsed(lines)) = Len(lines)
           /\ \A i \in 1 .. Len(lines) : Parsed(lines)[i] = [name |-> lines[i].name, enabled |-> Enabled(lines[i])]
<1>1. ASSUME NEW i \in 1 .. Len(lines)
      PROVE  [name |-> lines[i].name, enabled |-> Enabled(lines[i])] \in PlItems
  <2>1. lines[i] \in PlLines
    OBVIOUS
  <2>2. lines[i].name \in PlNames
    BY <2>1 DEF PlLines
  <2>3. Enabled(lines[i]) \in {0, 1}
    BY DEF Enabled
  <2> QED BY <2>2, <2>3 DEF PlItems
<1>2. DOMAIN lines = 1 .. Len(lines) /\ Len(lines) \in Nat
  OBVIOUS
<1>3. Parsed(lines) = [i \in 1 .. Len(lines) |-> [name |-> lines[i].name, enabled |-> Enabled(lines[i])]]
  BY <1>2 DEF Parsed
<1> QED BY <1>1, <1>2, <1>3

\* The names that are on in a list.
LEMMA NamesOfChosen ==
    ASSUME NEW l
    PROVE  \A x : x \in NamesOf(Chosen(l)) <=> \E i \in DOMAIN l : l[i].enabled = 1 /\ x = l[i].name
<1> DEFINE on == {i \in DOMAIN l : l[i].enabled = 1}
<1>1. \A i : <<i, l[i].name>>[2] = l[i].name
  OBVIOUS
<1>2. Chosen(l) = {<<i, l[i].name>> : i \in on}
  BY DEF Chosen
<1>3. ASSUME NEW x, x \in NamesOf(Chosen(l)) PROVE \E i \in on : x = l[i].name
  <2>1. PICK c \in Chosen(l) : x = c[2]
    BY <1>3 DEF NamesOf
  <2> QED BY <2>1, <1>2, <1>1
<1>4. ASSUME NEW i \in on PROVE l[i].name \in NamesOf(Chosen(l))
  <2>1. <<i, l[i].name>> \in Chosen(l)
    BY <1>2
  <2> QED BY <2>1, <1>1 DEF NamesOf
<1> QED BY <1>3, <1>4

LEMMA PlIdle ==
    ASSUME plRec.pc \notin {"open", "write"}
    PROVE  \A f : ~Writing(f) /\ ~Unsaved(f)
  BY DEF Writing, Unsaved, ChangeUnsaved

LEMMA PlOff ==
    /\ PlRecOff.pc = "off" /\ PlRecOff.k = 1
    /\ PlRecOff \in PlRecs
<1>1. <<>> \in PlLists
  <2>1. <<>> \in [{} -> PlItems]
    OBVIOUS
  <2> QED BY <2>1, PlListMade
<1> QED BY <1>1 DEF PlRecOff, NoLists, PlTypes, PlRecs

\* A file that says what the user wants loads nothing else.
LEMMA SameWanted ==
    ASSUME NEW lines \in Seq(PlLines)
    PROVE  LoadsOnly(lines, Parsed(lines))
<1> SUFFICES ASSUME NEW i \in DOMAIN lines, Enabled(lines[i]) = 1
             PROVE  \E j \in DOMAIN Parsed(lines) :
                        Parsed(lines)[j].enabled = 1 /\ Parsed(lines)[j].name = lines[i].name
  BY DEF LoadsOnly
<1>1. i \in 1 .. Len(lines)
  OBVIOUS
<1>2. i \in DOMAIN Parsed(lines) /\ Parsed(lines)[i] = [name |-> lines[i].name, enabled |-> Enabled(lines[i])]
  BY <1>1, ParsedType
<1> QED BY <1>2

LEMMA RanNone == ASSUME plRan = <<>> PROVE PluginsRight
  BY DEF PluginsRight

-----------------------------------------------------------------------------
(* The files of the plugins: the steps                                     *)

LEMMA PlInitInv == PlInit => PlInv
<1> SUFFICES ASSUME PlInit PROVE PlInv
  OBVIOUS
<1> USE DEF PlInit
<1>1. plFile \in [PlFiles -> Seq(PlLines)]
  BY PlAssumption
<1>2. PlTyped
  BY <1>1, ParsedType, PlOff DEF PlTyped, PlRecs
<1>3. \A f \in PlFiles : FileRight(f)
  <2> SUFFICES ASSUME NEW f \in PlFiles PROVE FileRight(f)
    OBVIOUS
  <2>1. Parsed(plFile[f]) = plWant[f]
    OBVIOUS
  <2>2. LoadsWanted(f)
    BY <1>1, <2>1, SameWanted DEF LoadsWanted
  <2> QED BY <2>1, <2>2 DEF FileRight
<1>4. \A t \in PlTypes : ~Loaded(t)
  BY PlOff DEF Loaded
<1> QED BY <1>2, <1>3, <1>4, PlOff, RanNone DEF PlInv

\* With Recovery neither writing nor about to, every file is in order.
LEMMA PlFilesIdle ==
    ASSUME PlInv, plRec.pc \notin {"open", "write"}, NEW f \in PlFiles
    PROVE  /\ f \notin plGone => Parsed(plFile[f]) = plWant[f]
           /\ f \notin plWrong => LoadsWanted(f)
  BY PlIdle DEF PlInv, FileRight

LEMMA PlEnterKeeps == ASSUME PlInv, PlEnter PROVE PlInv'
<1> USE DEF PlEnter
<1>1. PICK d \in {"ms", "ef"} : plRec' = [PlRecOff EXCEPT !.pc = "load", !.dev = d]
  OBVIOUS
<1>2. plRec' = [pc |-> "load", dev |-> d, type |-> "vsh", k |-> 1, changed |-> "vsh",
                list |-> NoLists, short |-> {}]
  BY <1>1 DEF PlRecOff
<1>3. PlTyped'
  BY <1>2, PlOff DEF PlTyped, PlRecs, PlInv, PlTypes, PlRecOff
<1>4. \A t \in PlTypes : ~Loaded(t)'
  <2>1. Order["vsh"] = 1 /\ \A t \in PlTypes : ~(Order[t] < 1)
    BY DEF Order, PlTypes
  <2>2. plRec'.pc = "load" /\ plRec'.type = "vsh"
    BY <1>2
  <2> QED BY <2>1, <2>2 DEF Loaded
<1>5. \A f \in PlFiles : FileRight(f)'
  BY PlFilesIdle DEF FileRight, LoadsWanted
<1>6. PluginsRight'
  <2>1. DOMAIN plRan' = {}
    OBVIOUS
  <2> QED BY <2>1 DEF PluginsRight
<1>7. plRec'.pc = "load" /\ plRec'.k = 1 /\ plRan' = <<>>
  BY <1>2
<1> QED BY <1>3, <1>4, <1>5, <1>6, <1>7 DEF PlInv

LEMMA PlLeaveKeeps == ASSUME PlInv, PlLeave PROVE PlInv'
<1> USE DEF PlLeave
<1>1. PlTyped'
  BY PlOff DEF PlTyped, PlRecs, PlInv
<1>2. \A t \in PlTypes : ~Loaded(t)'
  BY PlOff DEF Loaded
<1>3. \A f \in PlFiles : FileRight(f)'
  BY PlFilesIdle DEF FileRight, LoadsWanted
<1> QED BY <1>1, <1>2, <1>3, PlOff DEF PlInv, PluginsRight

\* The lines of a list, all of which the user wants.
LEMMA WrittenWanted ==
    ASSUME PlInv, plRec.pc = "write", PlThis \notin plWrong
    PROVE  LoadsWanted(PlThis)
<1> DEFINE t == plRec.type
           list == plRec.list[t]
           want == plWant[PlThis]
<1>1. \A i \in DOMAIN plFile[PlThis] : \E j \in DOMAIN list : plFile[PlThis][i] = Line(list[j])
  BY DEF PlInv, WriteRight
<1>2. /\ t \in PlTypes /\ PlThis = <<plRec.dev, t>> /\ list \in PlLists
  BY DEF PlInv, PlTyped, PlRecs, PlThis, SaveDevice
<1>3. \A j \in DOMAIN list : list[j] \in PlItems /\ j \in DOMAIN want /\ want[j] = list[j]
  BY <1>2, PlListFacts DEF PlInv, Loaded, ListRight
<1>4. \A p \in PlItems : Line(p).name = p.name /\ Enabled(Line(p)) = p.enabled
  BY DEF PlItems, Line, Enabled
<1> HIDE DEF list, want
<1>5. ASSUME NEW i \in DOMAIN plFile[PlThis], Enabled(plFile[PlThis][i]) = 1
      PROVE  \E j \in DOMAIN want : want[j].enabled = 1 /\ want[j].name = plFile[PlThis][i].name
  <2>1. PICK j \in DOMAIN list : plFile[PlThis][i] = Line(list[j])
    BY <1>1
  <2> QED BY <2>1, <1>3, <1>4, <1>5
<1> QED BY <1>5 DEF LoadsWanted, LoadsOnly, want

LEMMA PlPowerLossKeeps == ASSUME PlInv, PlPowerLoss PROVE PlInv'
<1> USE DEF PlPowerLoss
<1>1. PlTyped'
  BY PlOff DEF PlTyped, PlRecs, PlInv
<1>2. \A t \in PlTypes : ~Loaded(t)'
  BY PlOff DEF Loaded
<1>3. ASSUME NEW f \in PlFiles PROVE FileRight(f)'
  <2>1. LoadsWanted(f)' <=> LoadsWanted(f)
    BY DEF LoadsWanted
  <2>2. ASSUME f \notin plGone' PROVE Parsed(plFile[f]) = plWant[f]
    <3>1. ~Writing(f) /\ ~Unsaved(f) /\ f \notin plGone
      BY <2>2 DEF Writing, Unsaved
    <3> QED BY <3>1 DEF PlInv, FileRight
  <2>3. ASSUME f \notin plWrong' PROVE LoadsWanted(f)
    <3>1. f \notin plWrong /\ (Writing(f) \/ ~Unsaved(f))
      BY <2>3 DEF Writing, Unsaved
    <3>2. CASE Writing(f)
      BY <3>1, <3>2, WrittenWanted DEF Writing
    <3>3. CASE ~Writing(f)
      BY <3>1, <3>3 DEF PlInv, FileRight
    <3> QED BY <3>2, <3>3
  <2> QED BY <2>1, <2>2, <2>3 DEF FileRight
<1> QED BY <1>1, <1>2, <1>3, PlOff, RanNone DEF PlInv, PluginsRight

LEMMA PlRecFields ==
    ASSUME PlTyped
    PROVE  /\ plRec.pc \in {"off", "load", "menu", "open", "write"} /\ plRec.dev \in {"ms", "ef"}
           /\ plRec.type \in PlTypes /\ plRec.k \in Nat \ {0} /\ plRec.changed \in PlTypes
           /\ plRec.list \in [PlTypes -> PlLists] /\ plRec.short \in SUBSET PlTypes
  BY DEF PlTyped, PlRecs

LEMMA OrderIs ==
    ASSUME NEW t \in PlTypes
    PROVE  /\ Order[t] \in 1 .. 3 /\ (t = "pops" <=> Order[t] = 3)
           /\ \A u \in PlTypes : Order[u] = Order[t] => u = t
           /\ t # "pops" => After[t] \in PlTypes /\ Order[After[t]] = Order[t] + 1
<1>1. Order["vsh"] = 1 /\ Order["game"] = 2 /\ Order["pops"] = 3
  BY DEF Order
<1>2. After["vsh"] = "game" /\ After["game"] = "pops"
  BY DEF After
<1> QED BY <1>1, <1>2 DEF PlTypes

LEMMA NextFileIs ==
    ASSUME PlTyped
    PROVE  /\ NextFile \in PlRecs
           /\ NextFile.dev = plRec.dev /\ NextFile.list = plRec.list /\ NextFile.short = plRec.short
           /\ NextFile.k = 1
           /\ \/ /\ NextFile.pc = "open" /\ plRec.type # "pops" /\ NextFile.changed = plRec.changed
                 /\ NextFile.type = After[plRec.type]
              \/ NextFile.pc = "menu" /\ plRec.type = "pops"
<1>1. plRec \in PlRecs /\ plRec.type \in PlTypes
  BY DEF PlTyped, PlRecs
<1>2. CASE plRec.type # "pops"
  <2>1. After[plRec.type] \in PlTypes
    BY <1>1, <1>2, OrderIs
  <2>2. NextFile = [plRec EXCEPT !.pc = "open", !.type = After[plRec.type], !.k = 1]
    BY <1>1, <1>2 DEF NextFile, PlRecs
  <2>3. NextFile \in PlRecs
    <3>1. NextFile = [pc |-> "open", dev |-> plRec.dev, type |-> After[plRec.type], k |-> 1,
                      changed |-> plRec.changed, list |-> plRec.list, short |-> plRec.short]
      BY <1>1, <2>2 DEF PlRecs
    <3> QED BY <3>1, <2>1, PlRecFields DEF PlRecs
  <2>4. /\ NextFile.pc = "open" /\ NextFile.dev = plRec.dev /\ NextFile.type = After[plRec.type]
        /\ NextFile.k = 1 /\ NextFile.changed = plRec.changed /\ NextFile.list = plRec.list
        /\ NextFile.short = plRec.short
    BY <1>1, <2>2 DEF PlRecs
  <2> QED BY <1>2, <2>3, <2>4
<1>3. CASE plRec.type = "pops"
  <2>1. NextFile = [plRec EXCEPT !.pc = "menu", !.type = "vsh", !.k = 1, !.changed = "vsh"]
    BY <1>3 DEF NextFile
  <2>2. "vsh" \in PlTypes
    BY DEF PlTypes
  <2>3. NextFile \in PlRecs
    <3>1. NextFile = [pc |-> "menu", dev |-> plRec.dev, type |-> "vsh", k |-> 1,
                      changed |-> "vsh", list |-> plRec.list, short |-> plRec.short]
      BY <1>1, <2>1 DEF PlRecs
    <3> QED BY <3>1, <2>2, PlRecFields DEF PlRecs
  <2>4. /\ NextFile.pc = "menu" /\ NextFile.dev = plRec.dev /\ NextFile.k = 1
        /\ NextFile.list = plRec.list /\ NextFile.short = plRec.short
    BY <1>1, <2>1 DEF PlRecs
  <2> QED BY <1>3, <2>3, <2>4
<1> QED BY <1>2, <1>3

\* Only the file whose turn is over stops being one with a change to save.
LEMMA NextUnsaved ==
    ASSUME PlTyped, plRec.pc \in {"open", "write"}, plRec' = NextFile, NEW f, Unsaved(f)
    PROVE  f = PlThis \/ Unsaved(f)'
<1>1. /\ Order[plRec.changed] >= Order[plRec.type] /\ f = <<plRec.dev, plRec.changed>>
      /\ plRec.type \in PlTypes /\ plRec.changed \in PlTypes
  BY DEF Unsaved, ChangeUnsaved, PlTyped, PlRecs
<1>2. CASE plRec.changed = plRec.type
  BY <1>1, <1>2 DEF PlThis, SaveDevice
<1>3. CASE plRec.changed # plRec.type
  <2>1. Order[plRec.changed] >= Order[plRec.type] + 1 /\ plRec.type # "pops"
    BY <1>1, <1>3, OrderIs
  <2>2. plRec'.pc = "open" /\ plRec'.changed = plRec.changed /\ plRec'.dev = plRec.dev
        /\ Order[plRec'.type] = Order[plRec.type] + 1
    BY <2>1, <1>1, NextFileIs, OrderIs
  <2> QED BY <1>1, <2>1, <2>2 DEF Unsaved, ChangeUnsaved
<1> QED BY <1>2, <1>3

LEMMA PlCloseKeeps == ASSUME PlInv, PlClose PROVE PlInv'
<1> USE DEF PlClose
<1> DEFINE t == plRec.type
           list == plRec.list[t]
           want == plWant[PlThis]
           file == plFile[PlThis]
<1>0. PlTyped /\ plRec.pc = "write" /\ WriteRight /\ t \in PlTypes /\ PlThis = <<plRec.dev, t>> /\ PlThis \in PlFiles
  BY DEF PlInv, PlTyped, PlRecs, PlThis, SaveDevice, PlFiles
<1>1. PlTyped'
  BY <1>0, NextFileIs DEF PlTyped, PlRecs
<1>2. ASSUME NEW u \in PlTypes PROVE ListRight(u)'
  <2>1. ListRight(u)
    BY <1>0 DEF PlInv, Loaded
  <2> QED BY <2>1, <1>0, NextFileIs DEF ListRight
<1>3. ASSUME PlThis \notin plGone PROVE Parsed(file) = want
  <2>1. /\ t \notin plRec.short /\ Len(file) = plRec.k - 1 /\ 1 .. plRec.k - 1 \subseteq DOMAIN list
        /\ \A i \in 1 .. plRec.k - 1 : file[i] = Line(list[i])
    BY <1>0, <1>3 DEF WriteRight
  <2>2. DOMAIN list = DOMAIN want /\ (\A i \in DOMAIN list : list[i] = want[i])
    BY <1>0, <2>1 DEF PlInv, Loaded, ListRight
  <2>3. file \in Seq(PlLines) /\ want \in Seq(PlItems) /\ plRec.k \in Nat \ {0}
    BY <1>0 DEF PlTyped, PlRecs
  <2>4. \A i \in DOMAIN list : ~(i >= plRec.k)
    BY DEF Ahead
  <2> HIDE DEF list, want, file, PlClose
  <2>5. DOMAIN want = 1 .. Len(want) /\ Len(want) \in Nat
    BY <2>3
  <2>6. Len(want) = plRec.k - 1
    <3>1. ~(Len(want) >= plRec.k)
      <4>1. Len(want) >= plRec.k => Len(want) \in 1 .. Len(want)
        BY <2>3, <2>5
      <4> QED BY <4>1, <2>2, <2>4, <2>5
    <3>2. plRec.k - 1 > 0 => plRec.k - 1 \in 1 .. plRec.k - 1
      BY <2>3
    <3> QED BY <3>1, <3>2, <2>1, <2>2, <2>3, <2>5
  <2>7. ASSUME NEW i \in 1 .. Len(file) PROVE Parsed(file)[i] = want[i]
    <3>1. file[i] = Line(want[i]) /\ i \in 1 .. Len(want)
      BY <2>1, <2>2, <2>6, <2>7
    <3>2. want[i] \in PlItems
      BY <3>1, <2>3
    <3>3. \A p \in PlItems : [name |-> Line(p).name, enabled |-> Enabled(Line(p))] = p
      BY DEF PlItems, Line, Enabled
    <3> QED BY <3>1, <3>2, <3>3, <2>3, ParsedType
  <2>8. Parsed(file) \in Seq(PlItems) /\ Len(Parsed(file)) = Len(file)
    BY <2>3, ParsedType
  <2> QED BY <2>8, <2>7, <2>6, <2>1, <2>3, SeqEqual
<1>4. ASSUME NEW f \in PlFiles PROVE FileRight(f)'
  <2>1. LoadsWanted(f)' <=> LoadsWanted(f)
    BY DEF LoadsWanted
  <2>2. CASE f = PlThis
    BY <2>1, <2>2, <1>3, <1>0, WrittenWanted DEF FileRight
  <2>3. CASE f # PlThis
    BY <2>1, <2>3, <1>0, NextUnsaved DEF FileRight, PlInv, Writing
  <2> QED BY <2>2, <2>3
<1>5. plRec'.pc # "write" /\ plRec'.k = 1
  BY <1>0, NextFileIs
<1> QED BY <1>0, <1>1, <1>2, <1>4, <1>5 DEF PlInv, PluginsRight

LEMMA JoinedType ==
    ASSUME NEW last \in PlLines, NEW l \in PlLines
    PROVE  Joined(last, l) \in PlLines
<1>1. PlJunk \in PlNames
  BY PlAssumption
<1>2. last.name \in PlNames /\ l.name \in PlNames /\ l.ended \in BOOLEAN
  BY DEF PlLines
<1>3. [l EXCEPT !.name = last.name] \in PlLines /\ [l EXCEPT !.name = PlJunk] \in PlLines
  BY <1>1, <1>2 DEF PlLines
<1>4. [last EXCEPT !.flag = "off", !.ended = l.ended] \in PlLines /\ [last EXCEPT !.ended = l.ended] \in PlLines
  BY <1>1, <1>2 DEF PlLines
<1> QED BY <1>3, <1>4 DEF Joined

LEMMA CutLinesType == ASSUME NEW l \in PlLines PROVE CutLines(l) \subseteq PlLines
<1>1. PlJunk \in PlNames /\ l.name \in PlNames
  BY PlAssumption DEF PlLines
<1>2. \A n \in PlNames : [l EXCEPT !.name = n, !.flag = "bare", !.ended = FALSE] \in PlLines
  BY DEF PlLines
<1>3. [l EXCEPT !.flag = "blank", !.ended = FALSE] \in PlLines /\ [l EXCEPT !.ended = FALSE] \in PlLines
  BY DEF PlLines
<1> QED BY <1>1, <1>2, <1>3 DEF CutLines

\* A line goes behind lines that have their ends as a line of its own.
LEMMA WrittenType ==
    ASSUME NEW lines \in Seq(PlLines), NEW l \in PlLines
    PROVE  /\ Written(lines, l) \in Seq(PlLines)
           /\ (\A i \in DOMAIN lines : lines[i].ended) => Written(lines, l) = Append(lines, l)
<1>1. lines = <<>> \/ (Len(lines) \in DOMAIN lines /\ Len(lines) \in Nat /\ Last(lines) = lines[Len(lines)])
  BY DEF Last
<1>2. lines # <<>> => Front(lines) \in Seq(PlLines)
  BY DEF Front
<1>3. lines # <<>> => Last(lines) \in PlLines
  BY <1>1
<1> QED BY <1>1, <1>2, <1>3, JoinedType DEF Written

LEMMA LineType ==
    ASSUME NEW p \in PlItems
    PROVE  Line(p) \in PlLines /\ Line(p).ended
  BY DEF PlItems, PlLines, Line

LEMMA PlOpenKeeps == ASSUME PlInv, PlOpen PROVE PlInv'
<1> DEFINE t == plRec.type
<1>0. /\ PlTyped /\ plRec.pc = "open" /\ t \in PlTypes /\ PlThis = <<plRec.dev, t>> /\ PlThis \in PlFiles
      /\ plRec.k = 1 /\ plRan = <<>> /\ plRan' = plRan /\ plWant' = plWant /\ plGo' = plGo
  BY DEF PlInv, PlTyped, PlRecs, PlThis, SaveDevice, PlFiles, PlOpen
<1>1. CASE /\ plRec' = [plRec EXCEPT !.pc = "write"]
           /\ plFile' = [plFile EXCEPT ![PlThis] = <<>>]
           /\ plGone' = IF plRec.type \in plRec.short THEN plGone \cup {PlThis} ELSE plGone \ {PlThis}
           /\ plWrong' = plWrong \ {PlThis}
  <2>1. /\ plRec' \in PlRecs
        /\ plRec'.pc = "write" /\ plRec'.dev = plRec.dev /\ plRec'.type = plRec.type /\ plRec'.k = 1
        /\ plRec'.changed = plRec.changed /\ plRec'.list = plRec.list /\ plRec'.short = plRec.short
    BY <1>0, <1>1 DEF PlTyped, PlRecs
  <2>2. plFile \in [PlFiles -> Seq(PlLines)]
    BY <1>0 DEF PlTyped
  <2>3. plFile'[PlThis] = <<>> /\ plFile' \in [PlFiles -> Seq(PlLines)]
        /\ \A f \in PlFiles \ {PlThis} : plFile'[f] = plFile[f]
    BY <1>0, <1>1, <2>2
  <2>4. PlTyped'
    BY <1>0, <2>1, <2>3 DEF PlTyped
  <2>5. ASSUME NEW u \in PlTypes PROVE ListRight(u)'
    <3>1. ListRight(u)
      BY <1>0, <2>5 DEF PlInv, Loaded
    <3> QED BY <3>1, <1>0, <2>1 DEF ListRight
  <2>6. PlThis' = PlThis
    BY <2>1 DEF PlThis, SaveDevice
  <2>7. ASSUME NEW f \in PlFiles PROVE FileRight(f)'
    <3>1. CASE f = PlThis
      BY <3>1, <2>1, <2>6 DEF FileRight, Writing
    <3>2. CASE f # PlThis
      <4>1. plFile'[f] = plFile[f] /\ (f \in plGone' <=> f \in plGone) /\ (f \in plWrong' <=> f \in plWrong)
        BY <3>2, <2>3, <1>1
      <4>2. ~Writing(f) /\ (Unsaved(f)' <=> Unsaved(f))
        BY <1>0, <2>1 DEF Writing, Unsaved, ChangeUnsaved
      <4>3. LoadsWanted(f)' <=> LoadsWanted(f)
        BY <4>1, <1>0 DEF LoadsWanted
      <4> QED BY <4>1, <4>2, <4>3, <1>0 DEF FileRight, PlInv
    <3> QED BY <3>1, <3>2
  <2>8. WriteRight'
    <3>1. PlThis \notin plGone' => t \notin plRec.short
      BY <1>1
    <3>2. DOMAIN plFile'[PlThis] = {} /\ Len(plFile'[PlThis]) = 0 /\ 1 .. 1 - 1 = {}
      BY <2>3
    <3> QED BY <3>1, <3>2, <2>1, <2>6 DEF WriteRight
  <2>9. PluginsRight'
    <3>1. DOMAIN plRan' = {}
      BY <1>0
    <3> QED BY <3>1 DEF PluginsRight
  <2> QED BY <1>0, <2>1, <2>4, <2>5, <2>7, <2>8, <2>9 DEF PlInv
<1>2. CASE /\ plRec' = NextFile
           /\ LET unsaved == IF plRec.type = plRec.changed THEN {PlThis} ELSE {}
              IN  plGone' = plGone \cup unsaved /\ plWrong' = plWrong \cup unsaved
           /\ UNCHANGED plFile
  <2>1. PlTyped'
    BY <1>0, <1>2, NextFileIs DEF PlTyped
  <2>2. ASSUME NEW u \in PlTypes PROVE ListRight(u)'
    <3>1. ListRight(u)
      BY <1>0 DEF PlInv, Loaded
    <3> QED BY <3>1, <1>0, <1>2, NextFileIs DEF ListRight
  <2>3. ASSUME NEW f \in PlFiles PROVE FileRight(f)'
    <3>1. LoadsWanted(f)' <=> LoadsWanted(f)
      BY <1>0, <1>2 DEF LoadsWanted
    <3>2. CASE Unsaved(f) /\ ~Unsaved(f)'
      <4>1. f = PlThis
        BY <3>2, <1>0, <1>2, NextUnsaved
      <4>2. plRec.changed = plRec.type
        <5>1. <<plRec.dev, plRec.changed>> = <<plRec.dev, plRec.type>>
          BY <4>1, <3>2, <1>0 DEF Unsaved
        <5> QED BY <5>1
      <4> QED BY <4>1, <4>2, <1>2 DEF FileRight
    <3>3. CASE ~Unsaved(f)
      <4>1. ~Writing(f)
        BY <1>0 DEF Writing
      <4>2. /\ f \notin plGone => Parsed(plFile[f]) = plWant[f]
            /\ f \notin plWrong => LoadsWanted(f)
        BY <3>3, <4>1 DEF FileRight, PlInv
      <4> QED BY <4>2, <3>1, <1>0, <1>2 DEF FileRight
    <3>4. CASE Unsaved(f)'
      BY <3>4, <1>0, <1>2, NextFileIs DEF FileRight
    <3> QED BY <3>2, <3>3, <3>4
  <2>4. PluginsRight'
    <3>1. DOMAIN plRan' = {}
      BY <1>0
    <3> QED BY <3>1 DEF PluginsRight
  <2>5. plRec'.pc # "write" /\ plRec'.k = 1
    BY <1>0, <1>2, NextFileIs
  <2> QED BY <1>0, <2>1, <2>2, <2>3, <2>4, <2>5 DEF PlInv
<1> QED BY <1>1, <1>2 DEF PlOpen

\* A line that the list has, or that was cut, goes into the file.
LEMMA PlWriteKeeps == ASSUME PlInv, PlWrite PROVE PlInv'
<1> DEFINE t == plRec.type
           list == plRec.list[t]
           file == plFile[PlThis]
           j == Min(Ahead)
           l == Line(list[j])
<1>0. /\ PlTyped /\ plRec.pc = "write" /\ WriteRight /\ t \in PlTypes /\ PlThis = <<plRec.dev, t>>
      /\ PlThis \in PlFiles /\ list \in PlLists /\ plRec.k \in Nat \ {0}
      /\ plRan = <<>> /\ plRan' = plRan /\ plWant' = plWant /\ plGo' = plGo
      /\ plRec' = [plRec EXCEPT !.k = j + 1]
      /\ plFile \in [PlFiles -> Seq(PlLines)] /\ file \in Seq(PlLines)
  BY DEF PlInv, PlTyped, PlRecs, PlThis, SaveDevice, PlFiles, PlWrite
<1>a. DOMAIN list \subseteq Nat \ {0} /\ \A i \in DOMAIN list : list[i] \in PlItems
  BY <1>0, PlListFacts
<1>b. j \in DOMAIN list /\ j >= plRec.k /\ j \in Nat
  <2>1. Ahead # {} /\ Ahead \subseteq Nat
    BY <1>a DEF PlWrite, Ahead
  <2>2. j \in Ahead
    BY <2>1, LeastElement DEF Min
  <2> QED BY <2>2, <1>a DEF Ahead
<1>c. l \in PlLines /\ l.ended
  BY <1>a, <1>b, LineType
<1>d. /\ plRec' \in PlRecs
      /\ plRec'.pc = "write" /\ plRec'.dev = plRec.dev /\ plRec'.type = plRec.type /\ plRec'.k = j + 1
      /\ plRec'.changed = plRec.changed /\ plRec'.list = plRec.list /\ plRec'.short = plRec.short
  <2>1. \A k \in Nat \ {0} : [plRec EXCEPT !.k = k] \in PlRecs /\ [plRec EXCEPT !.k = k].k = k
    BY <1>0 DEF PlTyped, PlRecs
  <2>2. j + 1 \in Nat \ {0}
    BY <1>b
  <2>3. plRec' \in PlRecs /\ plRec'.k = j + 1
    BY <2>1, <2>2, <1>0
  <2> QED BY <2>3, <1>0 DEF PlTyped, PlRecs
<1>e. PlThis' = PlThis
  BY <1>d DEF PlThis, SaveDevice
<1>f. \/ /\ plFile' = [plFile EXCEPT ![PlThis] = Written(@, l)]
         /\ UNCHANGED <<plGone, plWrong>>
      \/ plGone' = plGone \cup {PlThis} /\ UNCHANGED <<plFile, plWrong>>
      \/ /\ plGone' = plGone \cup {PlThis} /\ plWrong' = plWrong \cup {PlThis}
         /\ \E c \in CutLines(l) : plFile' = [plFile EXCEPT ![PlThis] = Written(@, c)]
  BY DEF PlWrite
<1> HIDE DEF j, l
<1>1. /\ plFile' \in [PlFiles -> Seq(PlLines)]
      /\ \A f \in PlFiles \ {PlThis} : /\ plFile'[f] = plFile[f]
                                       /\ f \in plGone' <=> f \in plGone
                                       /\ f \in plWrong' <=> f \in plWrong
  <2>1. \A c \in PlLines : Written(file, c) \in Seq(PlLines)
    BY <1>0, WrittenType
  <2>2. CutLines(l) \subseteq PlLines
    BY <1>c, CutLinesType
  <2>3. ASSUME NEW c \in PlLines, plFile' = [plFile EXCEPT ![PlThis] = Written(@, c)]
        PROVE  plFile' \in [PlFiles -> Seq(PlLines)] /\ \A f \in PlFiles \ {PlThis} : plFile'[f] = plFile[f]
    BY <2>1, <2>3, <1>0
  <2> QED BY <2>2, <2>3, <1>0, <1>c, <1>f
<1>2. PlTyped'
  BY <1>0, <1>1, <1>d DEF PlTyped
<1>3. ASSUME NEW u \in PlTypes PROVE ListRight(u)'
  <2>1. ListRight(u)
    BY <1>0, <1>3 DEF PlInv, Loaded
  <2> QED BY <2>1, <1>0, <1>d DEF ListRight
<1>4. ASSUME NEW f \in PlFiles PROVE FileRight(f)'
  <2>1. CASE f = PlThis
    BY <2>1, <1>d, <1>e DEF FileRight, Writing
  <2>2. CASE f # PlThis
    <3>1. plFile'[f] = plFile[f] /\ (f \in plGone' <=> f \in plGone) /\ (f \in plWrong' <=> f \in plWrong)
      BY <2>2, <1>1
    <3>2. (Writing(f)' <=> Writing(f)) /\ (Unsaved(f)' <=> Unsaved(f))
      BY <1>0, <1>d, <1>e DEF Writing, Unsaved, ChangeUnsaved
    <3>3. LoadsWanted(f)' <=> LoadsWanted(f)
      BY <3>1, <1>0 DEF LoadsWanted
    <3> QED BY <3>1, <3>2, <3>3, <1>0 DEF FileRight, PlInv
  <2> QED BY <2>1, <2>2
<1>5. WriteRight'
  <2>1. CASE plFile' = [plFile EXCEPT ![PlThis] = Written(@, l)] /\ UNCHANGED <<plGone, plWrong>>
    <3>0. plFile'[PlThis] = Written(file, l)
      BY <2>1, <1>0
    <3>1. ASSUME PlThis \notin plGone
          PROVE  /\ t \notin plRec.short /\ Len(plFile'[PlThis]) = j /\ 1 .. j \subseteq DOMAIN list
                 /\ \A i \in 1 .. j : plFile'[PlThis][i] = Line(list[i])
      <4>1. /\ t \notin plRec.short /\ Len(file) = plRec.k - 1 /\ 1 .. plRec.k - 1 \subseteq DOMAIN list
            /\ \A i \in 1 .. plRec.k - 1 : file[i] = Line(list[i])
        BY <1>0, <3>1 DEF WriteRight
      <4>2. \A i \in DOMAIN file : file[i].ended
        <5>1. ASSUME NEW i \in 1 .. plRec.k - 1 PROVE Line(list[i]).ended
          <6>1. list[i] \in PlItems
            BY <4>1, <1>a
          <6> QED BY <6>1, LineType
        <5> QED BY <4>1, <5>1, <1>0
      <4>3. plFile'[PlThis] = Append(file, l)
        BY <3>0, <4>2, <1>0, <1>c, WrittenType
      <4>4. DOMAIN list = 1 .. Len(plWant[PlThis]) /\ Len(plWant[PlThis]) \in Nat
        <5>1. DOMAIN list = DOMAIN plWant[PlThis]
          BY <1>0, <4>1 DEF PlInv, Loaded, ListRight
        <5>2. plWant[PlThis] \in Seq(PlItems)
          BY <1>0 DEF PlTyped
        <5> QED BY <5>1, <5>2
      <4>5. plRec.k \in Ahead /\ Ahead \subseteq Nat
        BY <4>4, <1>b, <1>0 DEF Ahead
      <4>6. j = plRec.k
        <5>1. \A i \in Ahead : j <= i
          BY <4>5, LeastElement DEF Min, j
        <5> QED BY <5>1, <4>5, <1>b, <1>0
      <4>7. ASSUME NEW i \in 1 .. j PROVE plFile'[PlThis][i] = Line(list[i])
        <5>1. CASE i = j
          BY <5>1, <4>1, <4>3, <4>6, <1>0, <1>b, <1>c DEF l
        <5>2. CASE i # j
          BY <5>2, <4>1, <4>3, <4>6, <1>0, <1>b, <1>c
        <5> QED BY <5>1, <5>2
      <4>8. Len(plFile'[PlThis]) = j
        BY <4>1, <4>3, <4>6, <1>0, <1>b, <1>c
      <4> QED BY <4>1, <4>4, <4>7, <4>8, <1>b
    <3>2. ASSUME PlThis \notin plWrong
          PROVE  \A i \in DOMAIN plFile'[PlThis] : \E m \in DOMAIN list : plFile'[PlThis][i] = Line(list[m])
      <4>1. \A i \in DOMAIN file : \E m \in DOMAIN list : file[i] = Line(list[m])
        BY <1>0, <3>2 DEF WriteRight
      <4>2. \A i \in DOMAIN file : file[i].ended
        BY <4>1, <1>a, LineType
      <4>3. plFile'[PlThis] = Append(file, l)
        BY <3>0, <4>2, <1>0, <1>c, WrittenType
      <4>4. ASSUME NEW i \in DOMAIN Append(file, l)
            PROVE  \E m \in DOMAIN list : Append(file, l)[i] = Line(list[m])
        <5>0. file \in Seq(PlLines) /\ l \in PlLines /\ l = Line(list[j]) /\ j \in DOMAIN list
          BY <1>0, <1>b, <1>c DEF l
        <5> HIDE DEF list, file
        <5>1. CASE i \in 1 .. Len(file)
          <6>1. Append(file, l)[i] = file[i] /\ i \in DOMAIN file
            BY <5>0, <5>1
          <6> QED BY <6>1, <4>1
        <5>2. CASE i = Len(file) + 1
          <6>1. Append(file, l)[i] = l
            BY <5>0, <5>2
          <6> QED BY <6>1, <5>0
        <5>3. DOMAIN Append(file, l) = 1 .. Len(file) + 1 /\ Len(file) \in Nat
          BY <5>0
        <5> QED BY <5>1, <5>2, <5>3, <4>4
      <4> QED BY <4>3, <4>4
    <3> QED BY <3>1, <3>2, <2>1, <1>b, <1>d, <1>e DEF WriteRight
  <2>2. CASE plGone' = plGone \cup {PlThis} /\ UNCHANGED <<plFile, plWrong>>
    <3>1. plFile'[PlThis'] = file /\ plRec'.list[plRec'.type] = list /\ PlThis' \in plGone'
          /\ (PlThis' \in plWrong' <=> PlThis \in plWrong)
      BY <2>2, <1>d, <1>e
    <3>2. PlThis \notin plWrong => \A i \in DOMAIN file : \E m \in DOMAIN list : file[i] = Line(list[m])
      BY <1>0 DEF WriteRight
    <3> HIDE DEF list, file
    <3>3. PlThis' \notin plWrong' =>
            \A i \in DOMAIN plFile'[PlThis'] : \E m \in DOMAIN plRec'.list[plRec'.type] :
                plFile'[PlThis'][i] = Line(plRec'.list[plRec'.type][m])
      BY <3>1, <3>2
    <3> QED BY <3>1, <3>3 DEF WriteRight
  <2>3. CASE plGone' = plGone \cup {PlThis} /\ plWrong' = plWrong \cup {PlThis}
    BY <2>3, <1>e DEF WriteRight
  <2> QED BY <2>1, <2>2, <2>3, <1>f
<1>6. PluginsRight'
  <2>1. DOMAIN plRan' = {}
    BY <1>0
  <2> QED BY <2>1 DEF PluginsRight
<1> QED BY <1>0, <1>2, <1>3, <1>4, <1>5, <1>6, <1>d DEF PlInv

LEMMA PlLoadKeeps == ASSUME PlInv, PlLoad PROVE PlInv'
<1> DEFINE t == plRec.type
           f == <<plRec.dev, plRec.type>>
           lines == Parsed(plFile[f])
<1>0. /\ PlTyped /\ plRec.pc = "load" /\ t \in PlTypes /\ plRec.k = 1 /\ f \in PlFiles
      /\ plRan = <<>> /\ plRan' = plRan /\ plGo' = plGo /\ plFile' = plFile /\ plRec \in PlRecs
      /\ plFile \in [PlFiles -> Seq(PlLines)] /\ plWant \in [PlFiles -> Seq(PlItems)]
      /\ plGone' = plGone \ {f} /\ plWrong' = plWrong \ {f}
      /\ plWant' = IF f \in plGone THEN [plWant EXCEPT ![f] = lines] ELSE plWant
  BY DEF PlInv, PlTyped, PlRecs, PlFiles, PlLoad
<1>1. PICK n \in 0 .. Len(lines) : \E lost \in SUBSET (1 .. n) :
        LET whole == Len(lines) - n + (IF lost = {} THEN 0 ELSE 1) = 0
        IN  plRec' = [plRec EXCEPT
               !.pc = IF plRec.type = "pops" THEN "menu" ELSE "load",
               !.type = After[@],
               !.list[plRec.type] = [i \in 1 .. n \ lost |-> lines[i]],
               !.short = IF whole THEN @ ELSE @ \cup {plRec.type}]
  BY DEF PlLoad
<1>2. PICK lost \in SUBSET (1 .. n) :
        plRec' = [plRec EXCEPT
               !.pc = IF plRec.type = "pops" THEN "menu" ELSE "load",
               !.type = After[@],
               !.list[plRec.type] = [i \in 1 .. n \ lost |-> lines[i]],
               !.short = IF Len(lines) - n + (IF lost = {} THEN 0 ELSE 1) = 0
                         THEN @ ELSE @ \cup {plRec.type}]
  BY <1>1
<1> DEFINE new == [i \in 1 .. n \ lost |-> lines[i]]
           whole == Len(lines) - n + (IF lost = {} THEN 0 ELSE 1) = 0
           list == [plRec.list EXCEPT ![t] = new]
           short == IF whole THEN plRec.short ELSE plRec.short \cup {t}
<1>3. lines \in Seq(PlItems) /\ DOMAIN lines = 1 .. Len(lines) /\ Len(lines) \in Nat
  BY <1>0, ParsedType
<1>4. new \in PlLists
  <2>1. 1 .. n \ lost \in SUBSET (Nat \ {0}) /\ \A i \in 1 .. n \ lost : lines[i] \in PlItems
    BY <1>3
  <2>2. new \in [1 .. n \ lost -> PlItems]
    BY <2>1
  <2> QED BY <2>1, <2>2, PlListMade
<1>5. plRec' = [pc |-> IF t = "pops" THEN "menu" ELSE "load", dev |-> plRec.dev, type |-> After[t],
                k |-> plRec.k, changed |-> plRec.changed, list |-> list, short |-> short]
  BY <1>0, <1>2 DEF PlRecs
<1> HIDE DEF new, lines, list, short
<1>6. /\ plRec'.pc \in {"load", "menu"} /\ plRec'.dev = plRec.dev /\ plRec'.k = 1
      /\ plRec'.list = list /\ plRec'.short = short
      /\ \/ plRec'.pc = "load" /\ t # "pops" /\ plRec'.type = After[t]
         \/ plRec'.pc = "menu" /\ t = "pops"
  BY <1>5, <1>0
<1>7. plRec' \in PlRecs
  <2>1. After[t] \in PlTypes
    BY <1>0 DEF After, PlTypes
  <2>2. list \in [PlTypes -> PlLists]
    BY <1>4, <1>0, PlRecFields DEF list
  <2>3. short \in SUBSET PlTypes
    BY <1>0, PlRecFields DEF short
  <2> QED BY <2>1, <2>2, <2>3, <1>5, <1>0, PlRecFields DEF PlRecs
<1>8. plWant' \in [PlFiles -> Seq(PlItems)] /\ plWant'[f] = lines /\ \A g \in PlFiles \ {f} : plWant'[g] = plWant[g]
  <2>1. f \notin plGone => lines = plWant[f]
    BY <1>0, PlFilesIdle DEF lines
  <2> QED BY <2>1, <1>0, <1>3
<1>9. PlTyped'
  BY <1>0, <1>7, <1>8 DEF PlTyped
<1>10. ASSUME NEW u \in PlTypes, Loaded(u)' PROVE ListRight(u)'
  <2>1. CASE u = t
    <3>1. list[u] = new /\ DOMAIN new = 1 .. n \ lost
      BY <2>1, <1>0, PlRecFields DEF list, new
    <3>2. DOMAIN new \subseteq DOMAIN lines /\ \A i \in DOMAIN new : new[i] = lines[i]
      BY <1>3 DEF new
    <3>3. t \in short \/ DOMAIN new = DOMAIN lines
      <4>1. CASE whole
        <5>0. n \in 0 .. Len(lines) /\ n \in Nat
          BY <1>3
        <5>a. ASSUME lost # {} PROVE FALSE
          <6>1. Len(lines) - n + 1 = 0
            BY <4>1, <5>a
          <6> QED BY <5>0, <6>1, <1>3
        <5>b. Len(lines) - n + 0 = 0
          BY <4>1, <5>a
        <5>1. lost = {} /\ n = Len(lines)
          BY <5>0, <5>a, <5>b, <1>3
        <5> QED BY <5>1, <3>1, <1>3
      <4>2. CASE ~whole
        BY <4>2 DEF short
      <4> QED BY <4>1, <4>2
    <3>4. plWant'[<<plRec'.dev, u>>] = lines
      BY <2>1, <1>6, <1>8
    <3> QED BY <2>1, <3>1, <3>2, <3>3, <3>4, <1>6 DEF ListRight
  <2>2. CASE u # t
    <3>0. /\ Order[u] \in 1 .. 3 /\ Order[t] \in 1 .. 3 /\ Order[u] # Order[t]
          /\ t = "pops" => Order[t] = 3
          /\ t # "pops" => Order[After[t]] = Order[t] + 1
      BY <1>0, <2>2, OrderIs
    <3>1. Loaded(u)
      <4>1. CASE t = "pops"
        BY <4>1, <3>0, <1>0 DEF Loaded
      <4>2. CASE t # "pops"
        <5>1. plRec'.pc = "load" /\ plRec'.type = After[t]
          BY <4>2, <1>6
        <5>2. Order[u] < Order[After[t]]
          BY <5>1, <1>10 DEF Loaded
        <5> QED BY <5>2, <4>2, <3>0, <1>0 DEF Loaded
      <4> QED BY <4>1, <4>2
    <3>2. ListRight(u)
      BY <3>1 DEF PlInv
    <3>3. list[u] = plRec.list[u] /\ (u \in short <=> u \in plRec.short)
      BY <2>2, <1>0, PlRecFields DEF list, short
    <3>4. plWant'[<<plRec.dev, u>>] = plWant[<<plRec.dev, u>>]
      <4>1. <<plRec.dev, u>> # f /\ <<plRec.dev, u>> \in PlFiles
        BY <2>2, <1>0, PlRecFields DEF PlFiles
      <4> QED BY <4>1, <1>8
    <3> QED BY <3>2, <3>3, <3>4, <1>6 DEF ListRight
  <2> QED BY <2>1, <2>2
<1>11. ASSUME NEW g \in PlFiles PROVE FileRight(g)'
  <2>1. CASE g = f
    <3>1. Parsed(plFile'[g]) = plWant'[g]
      BY <2>1, <1>0, <1>8 DEF lines
    <3>2. LoadsWanted(g)'
      BY <3>1, <1>0, SameWanted DEF LoadsWanted
    <3> QED BY <3>1, <3>2 DEF FileRight
  <2>2. CASE g # f
    BY <2>2, <1>0, <1>8, PlFilesIdle DEF FileRight, LoadsWanted
  <2> QED BY <2>1, <2>2
<1>12. PluginsRight'
  <2>1. DOMAIN plRan' = {}
    BY <1>0
  <2> QED BY <2>1 DEF PluginsRight
<1> QED BY <1>0, <1>6, <1>9, <1>10, <1>11, <1>12 DEF PlInv

\* What is on or off stays one of the two.
LEMMA LimitIntFlips ==
    ASSUME NEW e \in {0, 1}, NEW d \in {-1, 1}
    PROVE  LimitInt(e, d, 2) \in {0, 1}
<1>1. 2 % 2 = 0 /\ 1 % 2 = 1 /\ (-(-1)) % 2 = 1
  OBVIOUS
<1>2. CASE e = 0 /\ d = -1
  <2>1. ~(-1 >= 2) /\ -1 < 0 /\ 2 - 1 = 1
    OBVIOUS
  <2>2. e + d = -1
    BY <1>2
  <2> QED BY <1>1, <2>1, <2>2 DEF LimitInt
<1>3. CASE e = 0 /\ d = 1
  BY <1>3 DEF LimitInt
<1>4. CASE e = 1 /\ d = -1
  BY <1>4 DEF LimitInt
<1>5. CASE e = 1 /\ d = 1
  BY <1>1, <1>5 DEF LimitInt
<1> QED BY <1>2, <1>3, <1>4, <1>5

LEMMA PlChangeKeeps == ASSUME PlInv, PlChange PROVE PlInv'
<1>0. /\ PlTyped /\ plRec.pc = "menu" /\ plRec.k = 1 /\ plRec.dev \in {"ms", "ef"}
      /\ plRan = <<>> /\ plRan' = plRan /\ plGo' = plGo /\ plFile' = plFile /\ plRec \in PlRecs
      /\ plWant \in [PlFiles -> Seq(PlItems)] /\ plGone' = plGone /\ plWrong' = plWrong
  BY DEF PlInv, PlTyped, PlRecs, PlChange
<1>1. PICK t \in PlTypes, direct \in {-1, 1} : \E i \in DOMAIN plRec.list[t] :
          LET enabled == LimitInt(plRec.list[t][i].enabled, direct, 2)
          IN  /\ plRec' = [plRec EXCEPT !.pc = "open", !.type = "vsh", !.changed = t,
                                        !.list[t][i].enabled = enabled]
              /\ plWant' = [plWant EXCEPT ![<<plRec.dev, t>>][i].enabled = enabled]
  BY DEF PlChange
<1>2. PICK i \in DOMAIN plRec.list[t] :
          /\ plRec' = [plRec EXCEPT !.pc = "open", !.type = "vsh", !.changed = t,
                          !.list[t][i].enabled = LimitInt(plRec.list[t][i].enabled, direct, 2)]
          /\ plWant' = [plWant EXCEPT ![<<plRec.dev, t>>][i].enabled = LimitInt(plRec.list[t][i].enabled, direct, 2)]
  BY <1>1
<1> DEFINE f == <<plRec.dev, t>>
           old == plRec.list[t][i]
           item == [old EXCEPT !.enabled = LimitInt(old.enabled, direct, 2)]
           new == [plRec.list[t] EXCEPT ![i] = item]
           list == [plRec.list EXCEPT ![t] = new]
           wanted == [plWant[f] EXCEPT ![i] = item]
<1>3. f \in PlFiles /\ plRec.list \in [PlTypes -> PlLists] /\ plRec.list[t] \in PlLists
  BY <1>0, PlRecFields DEF PlFiles
<1>4. /\ DOMAIN plRec.list[t] \subseteq Nat \ {0} /\ plRec.list[t] \in [DOMAIN plRec.list[t] -> PlItems]
      /\ old \in PlItems
  BY <1>3, PlListFacts
<1>5. ListRight(t) /\ old = plWant[f][i] /\ i \in DOMAIN plWant[f]
  BY <1>0 DEF PlInv, Loaded, ListRight
<1>6. item \in PlItems
  <2>1. old.enabled \in {0, 1} /\ old.name \in PlNames
    BY <1>4 DEF PlItems
  <2>2. LimitInt(old.enabled, direct, 2) \in {0, 1}
    BY <2>1, LimitIntFlips
  <2> QED BY <2>2, <1>4 DEF PlItems
<1>7. plRec' = [pc |-> "open", dev |-> plRec.dev, type |-> "vsh", k |-> plRec.k, changed |-> t,
                list |-> list, short |-> plRec.short]
  BY <1>0, <1>2 DEF PlRecs
<1>8. plWant' = [plWant EXCEPT ![f] = wanted]
  BY <1>2, <1>5, <1>0, <1>3
<1> HIDE DEF item, old
<1>9. new \in PlLists
  BY <1>4, <1>6, PlListMade
<1>10. plRec' \in PlRecs
  <2>1. list \in [PlTypes -> PlLists]
    BY <1>3, <1>9
  <2>2. "vsh" \in PlTypes
    BY DEF PlTypes
  <2> HIDE DEF list
  <2> QED BY <2>1, <2>2, <1>7, <1>0, PlRecFields DEF PlRecs
<1>11. wanted \in Seq(PlItems) /\ DOMAIN wanted = DOMAIN plWant[f]
       /\ \A m \in DOMAIN wanted : wanted[m] = IF m = i THEN item ELSE plWant[f][m]
  <2>1. plWant[f] \in Seq(PlItems)
    BY <1>0, <1>3
  <2> QED BY <2>1, <1>5, <1>6
<1>12. plWant' \in [PlFiles -> Seq(PlItems)] /\ plWant'[f] = wanted /\ \A g \in PlFiles \ {f} : plWant'[g] = plWant[g]
  <2> HIDE DEF wanted
  <2> QED BY <1>8, <1>11, <1>0, <1>3
<1>13. PlTyped'
  BY <1>0, <1>10, <1>12 DEF PlTyped
<1>14. ASSUME NEW u \in PlTypes PROVE ListRight(u)'
  <2>0. plRec'.list = list /\ plRec'.dev = plRec.dev /\ plRec'.short = plRec.short
    BY <1>7
  <2>1. CASE u = t
    <3>1. list[t] = new /\ DOMAIN new = DOMAIN plRec.list[t]
          /\ \A m \in DOMAIN new : new[m] = IF m = i THEN item ELSE plRec.list[t][m]
      BY <1>3, <1>4
    <3>2. plRec'.list[t] = new /\ plWant'[<<plRec'.dev, t>>] = wanted
      BY <2>0, <3>1, <1>12
    <3>3. /\ DOMAIN plRec.list[t] \subseteq DOMAIN plWant[f]
          /\ \A m \in DOMAIN plRec.list[t] : plRec.list[t][m] = plWant[f][m]
          /\ t \in plRec.short \/ DOMAIN plRec.list[t] = DOMAIN plWant[f]
      BY <1>5 DEF ListRight
    <3> HIDE DEF new, list, wanted, f
    <3>4. /\ DOMAIN new \subseteq DOMAIN wanted /\ \A m \in DOMAIN new : new[m] = wanted[m]
          /\ t \in plRec.short \/ DOMAIN new = DOMAIN wanted
      BY <3>1, <3>3, <1>11
    <3> QED BY <2>0, <2>1, <3>2, <3>4 DEF ListRight
  <2>2. CASE u # t
    <3>1. list[u] = plRec.list[u]
      BY <2>2, <1>3
    <3>2. <<plRec.dev, u>> \in PlFiles \ {f}
      BY <2>2, <1>0 DEF PlFiles
    <3>3. ListRight(u)
      BY <1>0 DEF PlInv, Loaded
    <3> HIDE DEF list, f
    <3> QED BY <2>0, <3>1, <3>2, <3>3, <1>12 DEF ListRight
  <2> QED BY <2>1, <2>2
<1>15. ASSUME NEW g \in PlFiles PROVE FileRight(g)'
  <2>1. CASE g = f
    <3>1. Order["vsh"] = 1 /\ Order[t] \in 1 .. 3
      BY OrderIs DEF Order
    <3>2. Unsaved(g)'
      BY <2>1, <3>1, <1>7 DEF Unsaved, ChangeUnsaved
    <3> QED BY <3>2 DEF FileRight
  <2>2. CASE g # f
    <3>1. plWant'[g] = plWant[g]
      BY <2>2, <1>12
    <3> QED BY <3>1, <1>0, PlFilesIdle DEF FileRight, LoadsWanted
  <2> QED BY <2>1, <2>2
<1>16. PluginsRight'
  <2>1. DOMAIN plRan' = {}
    BY <1>0
  <2> QED BY <2>1 DEF PluginsRight
<1>17. plRec'.pc = "open" /\ plRec'.k = 1
  BY <1>7, <1>0
<1> QED BY <1>0, <1>13, <1>14, <1>15, <1>16, <1>17 DEF PlInv

\* What is read of a file, all of it or a first part.
LEMMA ReadPart ==
    ASSUME NEW lines \in Seq(PlLines), NEW n \in 0 .. Len(lines)
    PROVE  /\ n = Len(lines) => SubSeq(lines, 1, n) = lines
           /\ \A want : LoadsOnly(lines, want) =>
                NamesOf(Chosen(Parsed(SubSeq(lines, 1, n)))) \subseteq NamesOf(Chosen(want))
<1> DEFINE part == SubSeq(lines, 1, n)
<1>1. part \in Seq(PlLines) /\ Len(part) = n /\ n \in Nat /\ \A i \in 1 .. n : part[i] = lines[i]
  OBVIOUS
<1>2. n = Len(lines) => part = lines
  BY <1>1, SeqEqual
<1> HIDE DEF part
<1>3. ASSUME NEW want, LoadsOnly(lines, want), NEW x \in NamesOf(Chosen(Parsed(part)))
      PROVE  x \in NamesOf(Chosen(want))
  <2>1. PICK i \in DOMAIN Parsed(part) : Parsed(part)[i].enabled = 1 /\ x = Parsed(part)[i].name
    BY NamesOfChosen
  <2>2. i \in 1 .. n /\ Enabled(part[i]) = 1 /\ x = part[i].name
    <3>1. DOMAIN Parsed(part) = 1 .. n
          /\ \A m \in 1 .. n : Parsed(part)[m] = [name |-> part[m].name, enabled |-> Enabled(part[m])]
      BY <1>1, ParsedType
    <3>2. i \in 1 .. n /\ Parsed(part)[i] = [name |-> part[i].name, enabled |-> Enabled(part[i])]
      BY <3>1, <2>1
    <3> QED BY <3>2, <2>1
  <2>3. i \in DOMAIN lines /\ part[i] = lines[i]
    BY <1>1, <2>2
  <2>4. PICK j \in DOMAIN want : want[j].enabled = 1 /\ want[j].name = x
    BY <1>3, <2>2, <2>3 DEF LoadsOnly
  <2> QED BY <2>4, NamesOfChosen
<1> QED BY <1>2, <1>3 DEF part

LEMMA PlBootKeeps == ASSUME PlInv, PlBoot PROVE PlInv'
<1>0. /\ plRec.pc = "off" /\ PlTyped
      /\ UNCHANGED <<plGo, plFile, plRec, plWant, plGone, plWrong>>
  BY DEF PlBoot, PlInv
<1>1. PICK n : /\ DOMAIN n \subseteq PlFiles
               /\ \A f \in DOMAIN n : n[f] \in 0 .. Len(plFile[f])
               /\ plRan' = [f \in DOMAIN n |->
                    [whole |-> n[f] = Len(plFile[f]),
                     names |-> Chosen(Parsed(SubSeq(plFile[f], 1, n[f])))]]
  <2>1. PICK t \in PlTypes, from \in {"ms", "ef"} :
          \E n \in [BootFiles(t, from) -> 0 .. Max({Len(plFile[f]) : f \in PlFiles})] :
              /\ \A f \in DOMAIN n : n[f] <= Len(plFile[f])
              /\ plRan' = [f \in DOMAIN n |->
                    [whole |-> n[f] = Len(plFile[f]),
                     names |-> Chosen(Parsed(SubSeq(plFile[f], 1, n[f])))]]
    BY DEF PlBoot
  <2>2. PICK n \in [BootFiles(t, from) -> 0 .. Max({Len(plFile[f]) : f \in PlFiles})] :
              /\ \A f \in DOMAIN n : n[f] <= Len(plFile[f])
              /\ plRan' = [f \in DOMAIN n |->
                    [whole |-> n[f] = Len(plFile[f]),
                     names |-> Chosen(Parsed(SubSeq(plFile[f], 1, n[f])))]]
    BY <2>1
  <2>3. BootFiles(t, from) \subseteq PlFiles
    BY DEF BootFiles, PlFiles
  <2>4. \A most : \A i \in 0 .. most : i \in Int /\ i >= 0
    OBVIOUS
  <2>5. \A f \in PlFiles : Len(plFile[f]) \in Nat
    BY <1>0 DEF PlTyped
  <2>6. ASSUME NEW f \in DOMAIN n PROVE n[f] \in 0 .. Len(plFile[f])
    <3>1. f \in PlFiles /\ n[f] \in 0 .. Max({Len(plFile[g]) : g \in PlFiles}) /\ n[f] <= Len(plFile[f])
      BY <2>2, <2>3
    <3> QED BY <3>1, <2>4, <2>5
  <2> QED BY <2>2, <2>3, <2>6
<1>2. PluginsRight'
  <2> SUFFICES ASSUME NEW f \in DOMAIN plRan'
               PROVE  /\ plRan'[f].whole /\ f \notin plGone => plRan'[f].names = Chosen(plWant[f])
                      /\ f \notin plWrong => NamesOf(plRan'[f].names) \subseteq NamesOf(Chosen(plWant[f]))
    BY <1>0 DEF PluginsRight
  <2>1. /\ f \in DOMAIN n /\ f \in PlFiles /\ n[f] \in 0 .. Len(plFile[f])
        /\ plRan'[f].whole = (n[f] = Len(plFile[f]))
        /\ plRan'[f].names = Chosen(Parsed(SubSeq(plFile[f], 1, n[f])))
    BY <1>1
  <2>2. plFile[f] \in Seq(PlLines)
    BY <1>0, <2>1 DEF PlTyped
  <2>3. /\ f \notin plGone => Parsed(plFile[f]) = plWant[f]
        /\ f \notin plWrong => LoadsOnly(plFile[f], plWant[f])
    BY <1>0, <2>1, PlFilesIdle DEF LoadsWanted
  <2> QED BY <2>1, <2>2, <2>3, ReadPart
<1>3. \A f \in PlFiles : FileRight(f)'
  BY <1>0, PlFilesIdle DEF FileRight, LoadsWanted
<1> QED BY <1>0, <1>2, <1>3, PlOff DEF PlInv, PlTyped, Loaded

LEMMA PlNextKeeps == PlInv /\ [PlNext]_plVars => PlInv'
<1> SUFFICES ASSUME PlInv, [PlNext]_plVars PROVE PlInv'
  OBVIOUS
<1>1. CASE PlEnter
  BY <1>1, PlEnterKeeps
<1>2. CASE PlLoad
  BY <1>2, PlLoadKeeps
<1>3. CASE PlChange
  BY <1>3, PlChangeKeeps
<1>4. CASE PlOpen
  BY <1>4, PlOpenKeeps
<1>5. CASE PlWrite
  BY <1>5, PlWriteKeeps
<1>6. CASE PlClose
  BY <1>6, PlCloseKeeps
<1>7. CASE PlLeave
  BY <1>7, PlLeaveKeeps
<1>8. CASE PlPowerLoss
  BY <1>8, PlPowerLossKeeps
<1>9. CASE PlBoot
  BY <1>9, PlBootKeeps
<1>10. CASE UNCHANGED plVars
  <2>1. /\ UNCHANGED <<plGo, plFile, plRec, plRan, plWant, plGone, plWrong, plFails>>
    BY <1>10 DEF plVars
  <2>2. PlTyped'
    BY <2>1 DEF PlInv, PlTyped
  <2>3. \A t \in PlTypes : Loaded(t)' => ListRight(t)'
    BY <2>1 DEF PlInv, Loaded, ListRight
  <2>4. \A f \in PlFiles : FileRight(f)'
    BY <2>1 DEF PlInv, FileRight, Writing, Unsaved, ChangeUnsaved, LoadsWanted, PlThis, SaveDevice
  <2>5. plRec'.pc = "write" => WriteRight'
    BY <2>1 DEF PlInv, WriteRight, PlThis, SaveDevice
  <2>6. PluginsRight'
    BY <2>1 DEF PlInv, PluginsRight
  <2> QED BY <2>1, <2>2, <2>3, <2>4, <2>5, <2>6 DEF PlInv
<1> QED
  BY <1>1, <1>2, <1>3, <1>4, <1>5, <1>6, <1>7, <1>8, <1>9, <1>10 DEF PlNext

\* Recovery's lists, the files and what the user wants agree in every state, but
\* for the files of which a save has failed.
THEOREM PlInvHolds == PlSpec => []PlInv
  BY PlInitInv, PlNextKeeps, PTL DEF PlSpec

\* PluginsRight: SystemControl loads what the user has switched on in Recovery, and but
\* for a line cut or a change not saved nothing that is switched off.
THEOREM PluginsRightTheorem == PlSpec => []PluginsRight
<1>1. PlInv => PluginsRight
  BY DEF PlInv
<1> QED BY <1>1, PlInvHolds, PTL
=============================================================================
