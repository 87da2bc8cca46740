------------------------------ MODULE PluginFiles ------------------------------
(***************************************************************************)
(* The files that name the plugins, one for each device and kind of        *)
(* program: Recovery shows their lines and rewrites the files each time    *)
(* the user switches a plugin on or off (src/Recovery/plugins.c);          *)
(* SystemControl reads one of them when a program starts, and loads what   *)
(* is on (src/SystemControl/plugins.c).                                    *)
(*                                                                         *)
(* A line is a name and what follows it: nothing ("bare"), a blank and     *)
(* nothing ("blank"), a blank and "1" ("on"), a blank and anything else    *)
(* ("off").  ended is FALSE for the last line of a file whose end of line  *)
(* was not written.  A list of Recovery's is a function of the numbers of  *)
(* the lines it holds.  Recovery runs with the shell's threads suspended,  *)
(* and load_plugins in the thread that starts a program's modules.         *)
(***************************************************************************)
EXTENDS Integers, Sequences, FiniteSetsExt, SequencesExt

CONSTANTS
    PlStart,      \* the files, one of which states each behaviour starts with
    PlNames,      \* the names in lines
    PlEmpty,      \* the name in an empty line
    PlJunk,       \* a name that was cut, or that two names have run into
    PlMaxFails    \* bound: failed calls in one behaviour

PlTypes == {"vsh", "game", "pops"}
PlFiles == {"ms", "ef"} \X PlTypes
PlLines == [name : PlNames, flag : {"bare", "blank", "on", "off"}, ended : BOOLEAN]

ASSUME PlAssumption ==
    /\ {PlEmpty, PlJunk} \subseteq PlNames /\ PlMaxFails \in Nat
    /\ PlStart \subseteq [PlFiles -> Seq(PlLines)]

VARIABLES
    plGo,         \* psp_model == PSP_GO, which has both devices
    plFile,       \* the lines of each file
    plRec,        \* Recovery: where it is, its lists, what it saves
    plRan,        \* for each file load_plugins has read since Recovery ran
    plWant,       \* what the user wants on and off
    plGone,       \* files whose last save was not whole, or was of a short list
    plWrong,      \* of these, those with a line cut, or without the last change
    plFails

plVars == <<plGo, plFile, plRec, plRan, plWant, plGone, plWrong, plFails>>

-----------------------------------------------------------------------------
(* Lines                                                                   *)

\* parse_plugin, the same in both: without a blank a plugin is on.
Enabled(l) == IF l.flag \in {"bare", "on"} THEN 1 ELSE 0

Parsed(lines) == [i \in DOMAIN lines |-> [name |-> lines[i].name, enabled |-> Enabled(lines[i])]]

\* What is on, each at its place in the file.
Chosen(list) == {<<i, list[i].name>> : i \in {j \in DOMAIN list : list[j].enabled = 1}}

NamesOf(chosen) == {c[2] : c \in chosen}

\* sprintf(linebuf, "%s %d\r\n", plugin->name, plugin->enabled)
Line(p) == [name |-> p.name, flag |-> IF p.enabled = 1 THEN "on" ELSE "off", ended |-> TRUE]

\* What a write that stopped early leaves of a line.
CutLines(l) ==
    {[l EXCEPT !.flag = "blank", !.ended = FALSE], [l EXCEPT !.ended = FALSE]}
    \cup IF l.name = PlEmpty THEN {}
         ELSE {[l EXCEPT !.name = n, !.flag = "bare", !.ended = FALSE] : n \in {l.name, PlJunk}}

\* The text l written behind a line that has no end.
Joined(last, l) ==
    CASE last.flag = "bare" /\ l.name = PlEmpty -> [l EXCEPT !.name = last.name]
      [] last.flag = "bare" /\ l.name # PlEmpty -> [l EXCEPT !.name = PlJunk]
      [] last.flag = "blank" /\ l.name = PlEmpty -> [l EXCEPT !.name = last.name]
      [] last.flag = "blank" /\ l.name # PlEmpty -> [last EXCEPT !.flag = "off", !.ended = l.ended]
      [] OTHER -> [last EXCEPT !.ended = l.ended]

Written(lines, l) ==
    IF lines = <<>> \/ Last(lines).ended THEN Append(lines, l)
    ELSE Append(Front(lines), Joined(Last(lines), l))

\* limit_int
LimitInt(value, direct, limit) ==
    IF value + direct >= limit THEN (value + direct) % limit
    ELSE IF value + direct < 0 THEN limit - ((-(value + direct)) % limit)
    ELSE value + direct

-----------------------------------------------------------------------------
(* Recovery                                                                *)

NoLists == [t \in PlTypes |-> <<>>]

PlRecOff == [pc |-> "off", dev |-> "ms", type |-> "vsh", k |-> 1, changed |-> "vsh",
             list |-> NoLists, short |-> {}]

After == [vsh |-> "game", game |-> "pops", pops |-> "vsh"]

PlInit ==
    /\ plGo \in BOOLEAN /\ plFile \in PlStart
    /\ plRec = PlRecOff /\ plRan = <<>>
    /\ plWant = [f \in PlFiles |-> Parsed(plFile[f])]
    /\ plGone = {} /\ plWrong = {} /\ plFails = 0

\* Bug: g_type is not set, as if there was the stick only.
StickOnly == "ms"

\* g_type, where save_plugins writes.
SaveDevice == plRec.dev

PlThis == <<SaveDevice, plRec.type>>

\* plugins_ef0_menu, plugins_ms0_menu
PlEnter ==
    /\ plRec.pc = "off"
    /\ \E d \in IF plGo THEN {"ms", "ef"} ELSE {"ms"} :
          plRec' = [PlRecOff EXCEPT !.pc = "load", !.dev = d]
    /\ plRan' = <<>>
    /\ UNCHANGED <<plGo, plFile, plWant, plGone, plWrong, plFails>>

\* load_plugins of Recovery for one file: the first n lines are read, and of
\* these there is no memory for some.  From here the user wants what it says.
PlLoad ==
    /\ plRec.pc = "load"
    /\ LET f == <<plRec.dev, plRec.type>>
           lines == Parsed(plFile[f])
       IN  /\ \E n \in 0 .. Len(lines) : \E lost \in SUBSET (1 .. n) :
                 LET fails == Len(lines) - n + IF lost = {} THEN 0 ELSE 1
                     whole == fails = 0
                 IN  /\ whole \/ plFails < PlMaxFails
                     /\ plFails' = IF whole THEN plFails ELSE plFails + 1
                     /\ plRec' = [plRec EXCEPT
                           !.pc = IF plRec.type = "pops" THEN "menu" ELSE "load",
                           !.type = After[@],
                           !.list[plRec.type] = [i \in 1 .. n \ lost |-> lines[i]],
                           !.short = IF whole THEN @ ELSE @ \cup {plRec.type}]
           /\ plWant' = IF f \in plGone THEN [plWant EXCEPT ![f] = lines] ELSE plWant
           /\ plGone' = plGone \ {f} /\ plWrong' = plWrong \ {f}
    /\ UNCHANGED <<plGo, plFile, plRan>>

\* change_value_callback, up to save_plugins.
PlChange ==
    /\ plRec.pc = "menu"
    /\ \E t \in PlTypes, direct \in {-1, 1} : \E i \in DOMAIN plRec.list[t] :
          LET enabled == LimitInt(plRec.list[t][i].enabled, direct, 2)
          IN  /\ plRec' = [plRec EXCEPT !.pc = "open", !.type = "vsh", !.changed = t,
                                        !.list[t][i].enabled = enabled]
              /\ plWant' = [plWant EXCEPT ![<<plRec.dev, t>>][i].enabled = enabled]
    /\ UNCHANGED <<plGo, plFile, plRan, plGone, plWrong, plFails>>

NextFile ==
    IF plRec.type # "pops" THEN [plRec EXCEPT !.pc = "open", !.type = After[@], !.k = 1]
    ELSE [plRec EXCEPT !.pc = "menu", !.type = "vsh", !.k = 1, !.changed = "vsh"]

Fails == plFails < PlMaxFails /\ plFails' = plFails + 1

\* save_plugin: the open cuts the file to nothing.
PlOpen ==
    /\ plRec.pc = "open"
    /\ \/ /\ plRec' = [plRec EXCEPT !.pc = "write"]
          /\ plFile' = [plFile EXCEPT ![PlThis] = <<>>]
          /\ plGone' = IF plRec.type \in plRec.short THEN plGone \cup {PlThis} ELSE plGone \ {PlThis}
          /\ plWrong' = plWrong \ {PlThis} /\ UNCHANGED plFails
       \/ /\ Fails /\ plRec' = NextFile
          /\ LET unsaved == IF plRec.type = plRec.changed THEN {PlThis} ELSE {}
             IN  plGone' = plGone \cup unsaved /\ plWrong' = plWrong \cup unsaved
          /\ UNCHANGED plFile
    /\ UNCHANGED <<plGo, plRan, plWant>>

\* What save_plugin's walk through the list has still to come to.
Ahead == {i \in DOMAIN plRec.list[plRec.type] : i >= plRec.k}

\* One sceIoWrite, whose result is ignored.
PlWrite ==
    /\ plRec.pc = "write" /\ Ahead # {}
    /\ plRec' = [plRec EXCEPT !.k = Min(Ahead) + 1]
    /\ LET l == Line(plRec.list[plRec.type][Min(Ahead)])
       IN  \/ /\ plFile' = [plFile EXCEPT ![PlThis] = Written(@, l)]
              /\ UNCHANGED <<plGone, plWrong, plFails>>
           \/ /\ Fails /\ plGone' = plGone \cup {PlThis} /\ UNCHANGED <<plFile, plWrong>>
           \/ /\ Fails /\ plGone' = plGone \cup {PlThis} /\ plWrong' = plWrong \cup {PlThis}
              /\ \E c \in CutLines(l) : plFile' = [plFile EXCEPT ![PlThis] = Written(@, c)]
    /\ UNCHANGED <<plGo, plRan, plWant>>

PlClose ==
    /\ plRec.pc = "write" /\ Ahead = {}
    /\ plRec' = NextFile
    /\ UNCHANGED <<plGo, plFile, plRan, plWant, plGone, plWrong, plFails>>

\* free_submenu, free_plugin_lists
PlLeave ==
    /\ plRec.pc = "menu" /\ plRec' = PlRecOff
    /\ UNCHANGED <<plGo, plFile, plRan, plWant, plGone, plWrong, plFails>>

Order == [vsh |-> 1, game |-> 2, pops |-> 3]

ChangeUnsaved == plRec.pc \in {"open", "write"} /\ Order[plRec.changed] >= Order[plRec.type]

\* Recovery ends with the power, or as it shows a plugin whose name it had no
\* memory for.  A file being written is not whole, nor is the change saved yet.
PlPowerLoss ==
    /\ plRec.pc # "off" /\ plRec' = PlRecOff
    /\ LET unsaved == IF ChangeUnsaved THEN {<<plRec.dev, plRec.changed>>} ELSE {}
       IN  /\ plGone' = plGone \cup unsaved \cup (IF plRec.pc = "write" THEN {PlThis} ELSE {})
           /\ plWrong' = plWrong \cup (unsaved \ (IF plRec.pc = "write" THEN {PlThis} ELSE {}))
    /\ UNCHANGED <<plGo, plFile, plRan, plWant, plFails>>

-----------------------------------------------------------------------------
(* SystemControl                                                           *)

\* The files for a program of type t, started from device from.
BootFiles(t, from) ==
    IF t = "vsh" THEN IF plGo THEN {"ef", "ms"} \X {t} ELSE {<<"ms", t>>}
    ELSE {<<IF plGo /\ from = "ef" THEN "ef" ELSE "ms", t>>}

\* load_plugins of SystemControl, when the configuration and the buttons do not
\* forbid it.  The reading of each file ends early if it cannot be opened, or
\* there is no memory, or a read fails.
PlBoot ==
    /\ plRec.pc = "off"
    /\ \E t \in PlTypes, from \in {"ms", "ef"} :
          \E n \in [BootFiles(t, from) -> 0 .. Max({Len(plFile[f]) : f \in PlFiles})] :
              /\ \A f \in DOMAIN n : n[f] <= Len(plFile[f])
              /\ plRan' = [f \in DOMAIN n |->
                    [whole |-> n[f] = Len(plFile[f]),
                     names |-> Chosen(Parsed(SubSeq(plFile[f], 1, n[f])))]]
    /\ UNCHANGED <<plGo, plFile, plRec, plWant, plGone, plWrong, plFails>>

PlNext ==
    \/ PlEnter \/ PlLoad \/ PlChange \/ PlOpen \/ PlWrite \/ PlClose \/ PlLeave
    \/ PlPowerLoss \/ PlBoot

PlSpec == PlInit /\ [][PlNext]_plVars

-----------------------------------------------------------------------------
(* Properties                                                              *)

\* What SystemControl loads is what the user has switched on in Recovery, each at its
\* place in the file, whichever device, file and line the change was made in, unless
\* the file's last save was not whole; and even then no plugin is loaded that the
\* user has switched off, unless the change itself was not saved, or a line was
\* cut: a line without its blank is on.
PluginsRight ==
    \A f \in DOMAIN plRan :
        /\ plRan[f].whole /\ f \notin plGone => plRan[f].names = Chosen(plWant[f])
        /\ f \notin plWrong => NamesOf(plRan[f].names) \subseteq NamesOf(Chosen(plWant[f]))
=============================================================================
