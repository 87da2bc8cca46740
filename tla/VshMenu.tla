------------------------------- MODULE VshMenu -------------------------------
(***************************************************************************)
(* The system menu and its configuration: the SELECT menu (src/Satelite)   *)
(* that Vshctrl loads and unloads from its hook of the buttons' reader     *)
(* (src/Vshctrl/vshmenu.c), Recovery, which the menu can start, the file   *)
(* of the configuration (src/SystemControl/conf.c), and the USB device     *)
(* that Vshctrl puts in the place of the memory stick while USB runs, if   *)
(* the configuration says so (src/Vshctrl/usbdevice.c, src/usbdevice).     *)
(*                                                                         *)
(* Actors: the shell, which reads the buttons and starts and stops USB;    *)
(* the menu's thread; Recovery's thread; the power.  Of the configuration  *)
(* only usbdevice is kept: Stick, or Device for the values 1 to 5.         *)
(***************************************************************************)
EXTENDS Integers

Stick == 0
Device == 1
Junk == 2                 \* what a reader holds that could not read the file
Conf == {Stick, Device}
Short == 3                \* the file is open for writing, or cut, or missing

VARIABLES
    seFile,       \* flash1:/config.se
    seConf,       \* conf of Vshctrl
    seExcused,    \* a save was cut or failed or met another, or a read met a save
    boot,         \* load_config and vshpatch_init
    sat,          \* the menu's module and thread
    satCtrl,      \* g_VshMenuCtrl: 0, or the load whose EatKey it is
    satCut,       \* module_stop has terminated the thread
    rec,          \* Recovery's thread
    usb           \* USB, the usbdevice module, the functions of msstor

vshVars == <<seFile, seConf, seExcused, boot, sat, satCtrl, satCut, rec, usb>>

fileVars == <<seFile, seConf, seExcused, boot>>

-----------------------------------------------------------------------------
(* The file                                                                *)

\* sctrlSEGetConfigEx: its result is tested by load_config only.
Got == IF seFile = Short THEN Junk ELSE seFile

\* sctrlSESetConfigEx, first the open, which truncates the file, then the write.
\* next: the thread after the step, skipped: after an open that failed.
SaveOpens(thread, next, skipped) ==
    \/ seFile' = Short /\ thread' = next /\ UNCHANGED <<seConf, seExcused, boot>>
    \/ thread' = skipped /\ seExcused' = TRUE /\ UNCHANGED <<seFile, seConf, boot>>

SaveWrites(thread, next, c) ==
    /\ \/ seFile' = c /\ UNCHANGED seExcused
       \/ seFile' = Short /\ seExcused' = TRUE
    /\ thread' = next
    /\ UNCHANGED <<seConf, boot>>

\* Reads the file into the thread's copy.
Reads(thread, next) ==
    /\ thread' = next
    /\ seExcused' = (seExcused \/ Got = Junk)
    /\ UNCHANGED <<seFile, seConf, boot>>

\* Bug: the running configuration stays what it was.
UpdatedNot(c) == seConf

\* vctrlVSHUpdateConfig: the copy that Vshctrl works with, before the save.
Updated(c) == c

Updates(thread, next, c, overlaps) ==
    /\ seConf' = Updated(c) /\ thread' = next /\ seExcused' = (seExcused \/ overlaps)
    /\ UNCHANGED <<seFile, boot>>

-----------------------------------------------------------------------------
(* Initial state; the power                                                *)

SatOut(id) == [mod |-> FALSE, id |-> id, pc |-> "none", stop |-> FALSE, chosen |-> "exit",
               cnf |-> Junk, old |-> Junk, stopping |-> FALSE]

RecOff == [pc |-> "off", cnf |-> Junk]

UsbOff == [pc |-> "off", dev |-> FALSE, stick |-> "orig", orig |-> "orig"]

VshInit ==
    /\ seFile \in Conf \cup {Short} /\ seConf = Junk /\ seExcused = FALSE
    /\ boot = "load"
    /\ sat = SatOut(1) /\ satCtrl = 0 /\ satCut = FALSE /\ rec = RecOff /\ usb = UsbOff

\* Whatever runs, what is left is the file.
PowerLoss ==
    /\ boot' = "load" /\ seConf' = Junk /\ seExcused' = FALSE
    /\ sat' = SatOut(1) /\ satCtrl' = 0 /\ satCut' = FALSE /\ rec' = RecOff /\ usb' = UsbOff
    /\ UNCHANGED seFile

BootStep ==
    /\ \/ /\ boot = "load" /\ boot' = (IF seFile = Short THEN "remove" ELSE "init")
          /\ UNCHANGED <<seFile, seConf, seExcused>>
       \/ /\ boot = "remove" /\ boot' = "open" /\ seFile' = Short
          /\ UNCHANGED <<seConf, seExcused>>
       \/ boot = "open" /\ boot' \in {"write", "init"} /\ UNCHANGED <<seFile, seConf, seExcused>>
       \/ /\ boot = "write" /\ boot' = "init" /\ seFile' \in {Stick, Short}
          /\ UNCHANGED <<seConf, seExcused>>
       \/ /\ boot = "init" /\ boot' = "up" /\ seConf' = Got /\ seExcused' = (Got = Junk)
          /\ UNCHANGED seFile
    /\ UNCHANGED <<sat, satCtrl, satCut, rec, usb>>

-----------------------------------------------------------------------------
(* The menu's thread, TSRThread                                            *)

SatGoto(l) == [sat EXCEPT !.pc = l]

SatAlive == sat.pc \notin {"none", "end"}

SatStep ==
    \/ /\ sat.pc = "register" /\ satCtrl' = sat.id /\ sat' = SatGoto("get")
       /\ UNCHANGED <<fileVars, rec>>
    \/ /\ sat.pc = "get"
       /\ Reads(sat, [sat EXCEPT !.pc = "loop", !.cnf = Got, !.old = Got])
       /\ UNCHANGED <<satCtrl, rec>>
    \/ /\ sat.pc = "loop" /\ ~sat.stop                \* the user changes a setting
       /\ \E c \in Conf : sat' = [sat EXCEPT !.cnf = c]
       /\ UNCHANGED <<fileVars, satCtrl, rec>>
    \/ /\ sat.pc = "loop" /\ ~sat.stop                \* or leaves the menu
       /\ \E x \in {"exit", "recovery"} : sat' = [sat EXCEPT !.stop = TRUE, !.chosen = x]
       /\ UNCHANGED <<fileVars, satCtrl, rec>>
    \/ /\ sat.pc = "loop" /\ sat.stop
       /\ sat' = SatGoto(IF sat.cnf = sat.old THEN "act" ELSE "open1")
       /\ UNCHANGED <<fileVars, satCtrl, rec>>
    \/ /\ sat.pc = "open1" /\ SaveOpens(sat, SatGoto("write1"), SatGoto("act"))
       /\ UNCHANGED <<satCtrl, rec>>
    \/ /\ sat.pc = "write1" /\ SaveWrites(sat, SatGoto("act"), sat.cnf)
       /\ UNCHANGED <<satCtrl, rec>>
    \/ /\ sat.pc = "act" /\ sat' = SatGoto("update")
       /\ rec' = IF sat.chosen = "recovery" THEN [rec EXCEPT !.pc = "get"] ELSE rec
       /\ UNCHANGED <<fileVars, satCtrl>>
    \/ /\ sat.pc = "update" /\ Updates(sat, SatGoto("open2"), sat.cnf, FALSE)
       /\ UNCHANGED <<satCtrl, rec>>
    \/ /\ sat.pc = "open2" /\ SaveOpens(sat, SatGoto("write2"), SatGoto("clear"))
       /\ UNCHANGED <<satCtrl, rec>>
    \/ /\ sat.pc = "write2" /\ SaveWrites(sat, SatGoto("clear"), sat.cnf)
       /\ UNCHANGED <<satCtrl, rec>>
    \/ /\ sat.pc = "clear" /\ satCtrl' = 0 /\ sat' = SatGoto("end")
       /\ UNCHANGED <<fileVars, rec>>

SatThread == SatStep /\ UNCHANGED <<satCut, usb>>

-----------------------------------------------------------------------------
(* Recovery's thread                                                       *)

RecGoto(l) == [rec EXCEPT !.pc = l]

\* Its menus save as they are left; the last of them ends it, with an update of
\* Vshctrl's copy and a save of its own, or by way of the power menu: a restart
\* of the system menu, or a suspend, after which Vshctrl has the old copy.
RecStep ==
    \/ rec.pc = "get" /\ Reads(rec, [pc |-> "menu", cnf |-> Got])
    \/ /\ rec.pc = "menu" /\ \E c \in Conf : rec' = [rec EXCEPT !.cnf = c, !.pc = "open1"]
       /\ UNCHANGED fileVars
    \/ rec.pc = "open1" /\ SaveOpens(rec, RecGoto("write1"), RecGoto("menu"))
    \/ rec.pc = "write1" /\ SaveWrites(rec, RecGoto("menu"), rec.cnf)
    \/ rec.pc = "menu" /\ Updates(rec, RecGoto("open2"), rec.cnf, SatAlive)
    \/ rec.pc = "open2" /\ SaveOpens(rec, RecGoto("write2"), RecOff)
    \/ rec.pc = "write2" /\ SaveWrites(rec, RecOff, rec.cnf)
    \/ /\ rec.pc = "menu" /\ rec' = RecOff /\ seExcused' = TRUE      \* suspend_device
       /\ UNCHANGED <<seFile, seConf, boot>>

RecThread == RecStep /\ UNCHANGED <<sat, satCtrl, satCut, usb>>

RecRestart == rec.pc = "menu" /\ PowerLoss                           \* reset_vsh

-----------------------------------------------------------------------------
(* The shell: _sceCtrlReadBufferPositive                                   *)

\* Bug: the menu opens while USB runs.
MayOpenMenuUsb == rec.pc = "off"

\* "Block Satellite while mounting USB", "Block Recovery menu"
MayOpenMenu == rec.pc = "off" /\ usb.pc = "off"

\* The module is loaded and started, or loaded only.
PollOpensMenu ==
    /\ boot = "up" /\ ~sat.mod /\ MayOpenMenu
    /\ \E l \in {"register", "none"} :
          sat' = [SatOut(3 - sat.id) EXCEPT !.mod = TRUE, !.pc = l]
    /\ UNCHANGED <<fileVars, satCtrl, satCut, rec, usb>>

\* The module is found and has no handler: module_stop tells the thread to stop.
\* A module that was never started cannot be stopped and is never unloaded.
PollStopsMenu ==
    /\ sat.mod /\ satCtrl = 0 /\ sat.pc # "none" /\ ~sat.stopping
    /\ sat' = [sat EXCEPT !.stop = TRUE, !.stopping = TRUE]
    /\ UNCHANGED <<fileVars, satCtrl, satCut, rec, usb>>

\* Bug: module_stop does not wait.
ThreadEndedNot == TRUE

\* sceKernelWaitThreadEnd
ThreadEnded == ~SatAlive

PollUnloadsMenu ==
    /\ sat.stopping /\ ThreadEnded
    /\ sat' = [sat EXCEPT !.mod = FALSE, !.stopping = FALSE]
    /\ UNCHANGED <<fileVars, satCtrl, satCut, rec, usb>>

\* 100 ms have passed: sceKernelTerminateDeleteThread, wherever the thread is.
PollTerminatesMenu ==
    /\ sat.stopping /\ SatAlive
    /\ sat' = SatOut(sat.id) /\ satCut' = TRUE
    /\ seExcused' = (seExcused \/ sat.pc \in {"write1", "act", "update", "open2", "write2"})
    /\ UNCHANGED <<seFile, seConf, boot, satCtrl, rec, usb>>

-----------------------------------------------------------------------------
(* The shell: USB                                                          *)

\* The shell acts on a key it gets; the menu's handler masks them all.
KeysReachShell == boot = "up" /\ ~sat.stopping /\ (~sat.mod \/ sat.pc = "none")

UsbBegin ==          \* sceUSB_Stor_Driver is loaded
    /\ KeysReachShell /\ usb.pc = "off" /\ rec.pc = "off"
    /\ usb' = [usb EXCEPT !.pc = "begin"]
    /\ UNCHANGED <<fileVars, sat, satCtrl, satCut, rec>>

\* _sceUsbStart: the module saves the functions of msstor when it starts;
\* pspUsbDeviceSetDevice may fail before it replaces them.
UsbStart ==
    /\ usb.pc = "begin"
    /\ \E loads, sets \in BOOLEAN :
          LET dev == usb.dev \/ loads
          IN  usb' = IF seConf # Device THEN [usb EXCEPT !.pc = "on"]
                     ELSE [usb EXCEPT !.pc = "on", !.dev = dev,
                              !.orig = IF dev /\ ~usb.dev THEN usb.stick ELSE @,
                              !.stick = IF dev /\ sets THEN "other" ELSE @]
    /\ UNCHANGED <<fileVars, sat, satCtrl, satCut, rec>>

\* _sceUsbStop: pspUsbDeviceFinishDevice, stop_unload_usbdevice.
UsbStop ==
    /\ usb.pc = "on"
    /\ \E unloads \in BOOLEAN :
          usb' = IF seConf # Device \/ ~usb.dev THEN [usb EXCEPT !.pc = "stopped"]
                 ELSE [usb EXCEPT !.pc = "stopped", !.stick = usb.orig, !.dev = ~unloads]
    /\ UNCHANGED <<fileVars, sat, satCtrl, satCut, rec>>

UsbEnd ==            \* sceUSB_Stor_Driver is unloaded
    /\ usb.pc = "stopped" /\ usb' = [usb EXCEPT !.pc = "off"]
    /\ UNCHANGED <<fileVars, sat, satCtrl, satCut, rec>>

VshNext ==
    \/ PowerLoss \/ BootStep
    \/ SatThread \/ RecThread \/ RecRestart
    \/ PollOpensMenu \/ PollStopsMenu \/ PollUnloadsMenu \/ PollTerminatesMenu
    \/ UsbBegin \/ UsbStart \/ UsbStop \/ UsbEnd

VshSpec == VshInit /\ [][VshNext]_vshVars

-----------------------------------------------------------------------------
(* Properties                                                              *)

\* After USB has ended the stick's driver has its own functions again, although
\* the configuration decides twice, at the start and at the stop, whether the
\* device is in their place, and may be changed by the menu and by Recovery.
StickRestored == usb.pc = "off" => usb.stick = "orig"

\* The menu's thread runs only in a module that is in memory, and the handler the
\* hook would call belongs to the module it has found, also when a menu is stopped
\* before it has registered; a thread that was terminated may leave its handler.
MenuCodeLoaded ==
    /\ SatAlive => sat.mod
    /\ sat.mod /\ satCtrl # 0 /\ ~satCut => satCtrl = sat.id

\* When neither the menu nor Recovery runs, the file holds the configuration in
\* use, whoever saved last and wherever the power was lost, unless a save has
\* failed, or a thread was terminated at one, or the file was read during one, or
\* Recovery was left while the menu's thread, which started it, was still saving.
ConfKept ==
    boot = "up" /\ ~SatAlive /\ rec.pc = "off" /\ ~seExcused => seFile = seConf /\ seConf \in Conf
=============================================================================
