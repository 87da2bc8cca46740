----------------------------- MODULE MCGameMenu -----------------------------
(***************************************************************************)
(* An instance of the system menu for TLC: Vshctrl's game list, its reader *)
(* of images, the SELECT menu with Recovery and USB, or the files of the   *)
(* plugins.  The four share no state; part says which of them moves.       *)
(***************************************************************************)
EXTENDS GameList, IsoReader, VshMenu, PluginFiles

VARIABLE part

Folder == [f \in GlIsos |-> "root"]
Versions == "a" :> 2 @@ "b" :> 1
FileSize == "a" :> <<1, 1>> @@ "b" :> <<1>>
Sects == "a" :> <<<<2, 0, 1>>, <<1>>>> @@ "b" :> <<<<0, 1>>>>
NoSfo == {<<"a", 2>>}

\* The sticks as they come: lines without a flag, an empty line, a file that does
\* not end with its line, the same plugin twice.
Names == {"p", "q", PlEmpty, PlJunk}
PlText(name, flag, ended) == [name |-> name, flag |-> flag, ended |-> ended]
PlNone == [f \in PlFiles |-> <<>>]
PlSticks ==
    {[PlNone EXCEPT ![<<"ms", "vsh">>] = <<PlText("p", "bare", TRUE), PlText("q", "blank", TRUE)>>,
                    ![<<"ms", "pops">>] = <<PlText("p", "on", TRUE)>>,
                    ![<<"ef", "vsh">>] = <<PlText("q", "on", FALSE)>>],
     [PlNone EXCEPT ![<<"ms", "game">>] = <<PlText("p", "off", TRUE), PlText(PlEmpty, "bare", TRUE),
                                            PlText("p", "on", FALSE)>>]}

\* Two directories, of two sectors and of one, with a gap behind their records;
\* y has a file with a long name in it, x is not an ISO.
IrRec(name, len, lba, size, dir, long) ==
    [name |-> name, len |-> len, lba |-> lba, size |-> size, dir |-> dir, long |-> long]
IrRoots == [m \in IrImages |-> IrRec("root", 2, 1, 8, TRUE, FALSE)]
IrSizes == [m \in IrImages |-> 6]
IrPlains == "z" :> {3} @@ "y" :> {} @@ "p" :> {} @@ "x" :> {0}
IrSelf(lba, size) == 0 :> IrRec(".", 1, lba, size, TRUE, FALSE) @@ 1 :> IrRec("..", 1, 1, 8, TRUE, FALSE)
IrFile(size, name) == 2 :> IrRec(name, 2, 4, size, FALSE, FALSE)
IrDir == IrRec("dir", 2, 3, 4, TRUE, FALSE)
IrFull == 1 :> IrSelf(1, 8) @@ 2 :> (0 :> IrDir @@ IrFile(3, "file"))
          @@ 3 :> (IrSelf(3, 4) @@ IrFile(5, "file"))
IrLong == 1 :> (IrSelf(1, 8) @@ 2 :> IrDir)
          @@ 2 :> (0 :> IrRec("name", 2, 4, 3, FALSE, TRUE) @@ IrFile(3, "file"))
          @@ 3 :> IrSelf(3, 4)
IrTables == [m \in IrImages |-> IF m = "y" THEN IrLong ELSE IrFull]
IrSought == {<<"file">>, <<"dir", "file">>, <<"dir", "none">>, <<"file", "file">>,
             <<"dir", ".", "file">>, <<"dir", "..", "file">>, <<"dir", "dir", "file">>}
IrAskeds == {[lba |-> 0, off |-> 1, size |-> 9], [lba |-> 3, off |-> 3, size |-> 2],
             [lba |-> 4, off |-> 0, size |-> 12]}

menuVars == <<glVars, irVars, vshVars, plVars, part>>

\* One initial state for the parts that do not move.
Init ==
    /\ GlInit /\ IrInit /\ VshInit /\ PlInit
    /\ part \in {"list", "images", "menu", "plugins"}
    /\ part = "list" \/ \A f \in GlIsos : glIso[f] = 1
    /\ part = "menu" \/ seFile = Stick
    /\ part = "plugins" \/ (~plGo /\ plFile[<<"ms", "vsh">>] = <<>>)

Next ==
    /\ \/ part = "list" /\ GlNext /\ UNCHANGED <<irVars, vshVars, plVars>>
       \/ part = "images" /\ IrNext /\ UNCHANGED <<glVars, vshVars, plVars>>
       \/ part = "menu" /\ VshNext /\ UNCHANGED <<glVars, irVars, plVars>>
       \/ part = "plugins" /\ PlNext /\ UNCHANGED <<glVars, irVars, vshVars>>
    /\ UNCHANGED part

Spec == Init /\ [][Next]_menuVars
=============================================================================
