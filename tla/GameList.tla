------------------------------ MODULE GameList ------------------------------
(***************************************************************************)
(* The game list of the system menu (src/Vshctrl): the hooks of xmbiso.c,  *)
(* the list of open directories (dirent_track.c), the virtual PBP files    *)
(* that stand for the ISO files and the cache of their headers             *)
(* (virtual_pbp.c), over the one open image of isoreader.c.                *)
(*                                                                         *)
(* Actors: the menu, one call at a time; the computer at the other end of  *)
(* USB, which replaces ISO files; the power.  An ISO file is a name and    *)
(* the version the computer last put there, 0 for none: the version is its *)
(* modification time.  Of a PBP's bytes only where they come from is kept. *)
(***************************************************************************)
EXTENDS Integers, Sequences, FiniteSets, FiniteSetsExt, SequencesExt

CONSTANTS
    GlIsos,         \* names of ISO files
    GlNoName,       \* the name in an empty entry
    GlFolder,       \* [GlIsos -> {"root", "cat"}]: in ms0:/ISO or in a folder of it
    GlVersions,     \* bound: the versions of file f are 1 .. GlVersions[f]
    GlFileSize,     \* [GlIsos -> [versions -> Nat]]
    GlSects,        \* [GlIsos -> [versions -> Seq(Nat)]]: ICON0.PNG to SND0.AT3
    GlNoSfo,        \* the files without PARAM.SFO
    GlHead,         \* length of the PBP's header
    GlSfo,          \* sizeof(virtualsfo)
    GlSlots,        \* CACHE_MAX_SIZE, 32
    GlMaxList,      \* bound: g_vpbps_cnt
    GlMaxFds,       \* bound: descriptors of directories
    GlReads         \* bound: the lengths of reads of a PBP

ASSUME GlAssumption ==
    /\ GlNoName \notin GlIsos /\ GlFolder \in [GlIsos -> {"root", "cat"}]
    /\ {GlHead, GlSfo, GlSlots} \cup GlReads \subseteq Nat \ {0}
    /\ {GlMaxList, GlMaxFds} \subseteq Nat /\ GlVersions \in [GlIsos -> Nat \ {0}]
    /\ \A f \in GlIsos : /\ GlFileSize[f] \in [1 .. GlVersions[f] -> Nat]
                         /\ GlSects[f] \in [1 .. GlVersions[f] -> Seq(Nat)]

VARIABLES
    glIso,      \* [GlIsos -> 0 .. GlVersions]: the files on the memory stick
    glFile,     \* ISOCACHE.BIN, by slots; all empty when there is none
    glCaches,   \* g_caches
    glRef,      \* g_referenced: slots
    glDirty,    \* g_need_update
    glList,     \* g_vpbps; seen: the version when it was listed (history)
    glImage,    \* the image that isoreader.c has open, <<>> or <<name, version>>
    glUsers,    \* file_pointer of the indices the menu has opened and not closed
    glTrack,    \* the list of dirent_track.c
    glOpen,     \* descriptors of directories that are open in the firmware
    glGiven,    \* <<descriptor, has an ISO folder>>: those the menu holds
    glDelete    \* g_iso_dir, g_temp_delete_dir # "", the index the menu renamed

glVars == <<glIso, glFile, glCaches, glRef, glDirty, glList, glImage, glUsers,
            glTrack, glOpen, glGiven, glDelete>>

cacheVars == <<glFile, glCaches, glRef, glDirty>>
pbpVars == <<glList, glImage, glUsers>>
dirVars == <<glTrack, glOpen, glGiven>>

Slots == 0 .. GlSlots - 1
Unbuilt == 0                      \* isoOpen failed: an empty header, sizes unset
Torn == -1                        \* the entry a power loss cut short
Refused == -2                     \* no PARAM.SFO: the menu is not told its name
Blank == [on |-> FALSE, name |-> GlNoName, size |-> 0, mtime |-> 0, built |-> 0, seen |-> 0]
NoCache == [s \in Slots |-> Blank]
NoDelete == [dir |-> 0, temp |-> FALSE, asked |-> 0]

-----------------------------------------------------------------------------
(* The virtual PBP file                                                    *)

LastSect(e) == Len(GlSects[e.name][e.built])

\* vpbp->sects[j].size, but what stands for j = 0, PARAM.SFO, is virtualsfo.
SectSize(e, j) == IF j = 0 THEN GlSfo ELSE GlSects[e.name][e.built][j]

\* vpbp->header from its third word on: where the sections begin.
Header(e) ==
    LET off[j \in 0 .. LastSect(e) + 1] == IF j = 0 THEN GlHead ELSE off[j - 1] + SectSize(e, j - 1)
    IN  off

TotalSize(e) == Header(e)[LastSect(e) + 1]          \* pbp_total_size

\* Entries the menu knows of, that are not deleted.
Shown(i) == glList[i].on /\ glList[i].built # Refused

Least(a, b) == IF a < b THEN a ELSE b

\* Bug: a section is read to its whole size wherever the read starts.
SectRestWhole(e, idx, pos) == SectSize(e, idx)

\* vpbp->sects[idx].size - pos_section
SectRest(e, idx, pos) == SectSize(e, idx) - (pos - Header(e)[idx])

\* What the open image gives for entry e's own sectors.
Cells(what, from, n) == [k \in 1 .. n |-> <<glImage, what, from + k - 1>>]

\* get_pbp_section, get_header_section and get_sfo_section: the bytes appended.
\* The header is indexed by words and not by bytes.
SectionData(e, idx, pos, left) ==
    IF pos < GlHead
    THEN [k \in 1 .. Least(left, GlHead - pos) |-> <<"header", 4 * pos + k - 1>>]
    ELSE IF pos < Header(e)[1]
    THEN Cells(0, pos - GlHead, Least(left, SectRest(e, 0, pos)))
    ELSE IF pos >= Header(e)[idx] /\ pos < Header(e)[idx + 1]
    THEN Cells(idx, pos - Header(e)[idx], Least(left, SectRest(e, idx, pos)))
    ELSE <<>>

\* One turn of vpbp_read's loop over the sections; fails: the image's next read
\* fails, or its PARAM.SFO is none.
ReadSection(e, fails, idx, r) ==
    LET data == SectionData(e, idx, r.fp, r.left)
    IN  IF r.err \/ r.left = 0 THEN r
        ELSE IF fails /\ r.fp >= GlHead /\ data # <<>> THEN [r EXCEPT !.err = TRUE]
        ELSE [r EXCEPT !.fp = @ + Len(data), !.left = @ - Len(data), !.data = @ \o data]

\* What has been read after each turn.
ReadSections(e, fails, r) ==
    LET after[i \in 0 .. LastSect(e) + 1] ==
            IF i = 0 THEN r ELSE ReadSection(e, fails, i - 1, after[i - 1])
    IN  after

ReadPass(e, fails, r) == ReadSections(e, fails, r)[LastSect(e) + 1]

\* vpbp_read: the second pass finds what the first, which starts in the header,
\* went past; a third would find nothing.
ReadPbp(e, fp, n, fails) ==
    ReadPass(e, fails, ReadPass(e, fails, [fp |-> fp, left |-> n, data |-> <<>>, err |-> FALSE]))

\* vpbp_open: the image is opened in the place of any other, or is not.
GlOpenPbp(i) ==
    /\ ~glDelete.temp
    /\ \/ /\ glIso[glList[i].name] # 0
          /\ glImage' = <<glList[i].name, glIso[glList[i].name]>>
          /\ glUsers' = [j \in DOMAIN glUsers \cup {i} |-> IF j = i THEN 0 ELSE glUsers[j]]
       \/ glImage' = <<>> /\ UNCHANGED glUsers
    /\ UNCHANGED <<glIso, cacheVars, glList, dirVars, glDelete>>

\* vpbp_lseek
GlSeekPbp(i) ==
    /\ glList[i].built > 0
    /\ \E to \in 0 .. TotalSize(glList[i]) : glUsers' = [glUsers EXCEPT ![i] = to]
    /\ UNCHANGED <<glIso, cacheVars, glList, glImage, dirVars, glDelete>>

GlReadPbp(i) ==
    /\ glList[i].built > 0
    /\ \E n \in GlReads, fails \in BOOLEAN :
          glUsers' = [glUsers EXCEPT ![i] = ReadPbp(glList[i], glUsers[i], n, fails).fp]
    /\ UNCHANGED <<glIso, cacheVars, glList, glImage, dirVars, glDelete>>

\* vpbp_close: it is the open image that is closed, whose ever it is.
GlClosePbp(i) ==
    /\ glUsers' = [j \in DOMAIN glUsers \ {i} |-> glUsers[j]] /\ glImage' = <<>>
    /\ UNCHANGED <<glIso, cacheVars, glList, dirVars, glDelete>>

-----------------------------------------------------------------------------
(* The cache of the headers                                                *)

\* Bug: the modification time is not compared.
SameFileBySize(c, f) == c.on /\ c.name = f /\ c.size = GlFileSize[f][glIso[f]]

\* get_cache's test
SameFile(c, f) ==
    c.on /\ c.name = f /\ c.size = GlFileSize[f][glIso[f]] /\ c.mtime = glIso[f]

\* add_cache; nothing when all slots are taken.
AddCache(e) ==
    LET free == {s \in Slots : ~glCaches[s].on}
    IN  IF free = {} THEN UNCHANGED <<glCaches, glRef, glDirty>>
        ELSE /\ glCaches' = [glCaches EXCEPT ![Min(free)] = e]
             /\ glRef' = glRef \cup {Min(free)} /\ glDirty' = TRUE

\* g_vpbps_cnt goes up by one.
List(e) == glList' = Append(glList, [e EXCEPT !.seen = glIso[e.name]])

\* build_vpbp: the header is made from the file, or the file does not open (an
\* entry all the same, whose sizes are what was in the memory: the worst is taken,
\* the size that get_cache will compare it with), or it has no PARAM.SFO (not
\* cached).  An image that was open is closed.
BuildVpbp(f) ==
    LET e == [Blank EXCEPT !.on = TRUE, !.name = f, !.mtime = glIso[f]]
        unbuilt == [e EXCEPT !.size = GlFileSize[f][glIso[f]]]
        good == [unbuilt EXCEPT !.built = glIso[f]]
    IN  /\ glImage' = <<>>
        /\ \/ /\ <<f, glIso[f]>> \notin GlNoSfo
              /\ List(good) /\ AddCache(good)
           \/ List(unbuilt) /\ AddCache(unbuilt)
           \/ /\ <<f, glIso[f]>> \in GlNoSfo
              /\ List([e EXCEPT !.built = Refused])
              /\ UNCHANGED <<glCaches, glRef, glDirty>>

\* vpbp_dread for the next ISO file f of the directory at place i: a new entry
\* of g_vpbps, from the cache or built.
GlReadDir(i, f) ==
    LET hits == {s \in Slots : SameFile(glCaches[s], f)}
    IN  /\ Len(glList) < GlMaxList
        /\ glTrack[i].dfd # glTrack[i].iso /\ f \in glTrack[i].left /\ glIso[f] # 0
        /\ glTrack' = [glTrack EXCEPT ![i].left = @ \ {f}]
        /\ IF hits # {}
           THEN /\ List(glCaches[Min(hits)])
                /\ glRef' = glRef \cup {Min(hits)}
                /\ UNCHANGED <<glCaches, glDirty, glImage>>
           ELSE BuildVpbp(f)
        /\ UNCHANGED <<glIso, glFile, glUsers, glOpen, glGiven, glDelete>>

-----------------------------------------------------------------------------
(* Directories                                                             *)

\* load_cache, when ms0:/ISO itself is opened; a file that does not open, or has
\* not even the mark at its head, leaves the slots empty, and the references.
LoadCache ==
    /\ \/ glCaches' = glFile /\ glRef' = {}
       \/ glCaches' = NoCache /\ UNCHANGED glRef
    /\ UNCHANGED <<glFile, glDirty>>

\* gamedopen of a game folder that has or has not a folder of ISO files beside
\* it; game, iso: which of the two opens; added: dirent_add finds memory.
GlOpenDir(path, game, iso, added) ==
    LET free == (1 .. GlMaxFds) \ glOpen
        dfd == Min(free)
        isoDfd == IF game THEN Min(free \ {dfd}) ELSE dfd
    IN  /\ ~glDelete.temp /\ (game \/ iso)
        /\ Cardinality(free) >= IF game /\ iso THEN 2 ELSE 1
        /\ glOpen' = glOpen \cup {dfd} \cup (IF iso THEN {isoDfd} ELSE {})
        /\ IF iso /\ path = "root" THEN LoadCache ELSE UNCHANGED cacheVars
        /\ IF iso /\ added
           THEN glTrack' = Append(glTrack, [dfd |-> dfd, iso |-> isoDfd, path |-> path,
                                            left |-> {f \in GlIsos : GlFolder[f] = path}])
           ELSE UNCHANGED glTrack
        /\ glGiven' = IF iso /\ ~added THEN glGiven ELSE glGiven \cup {<<dfd, iso>>}
        /\ UNCHANGED <<glIso, pbpVars, glDelete>>

\* save_cache: entries no listing has asked for are dropped; nothing is written
\* when nothing changed.  That the file does not open is left out.
Purged == [s \in Slots |-> IF s \in glRef THEN glCaches[s] ELSE Blank]

SaveCache ==
    /\ glCaches' = Purged /\ glDirty' = FALSE
    /\ glFile' = IF glDirty \/ Purged # glCaches THEN Purged ELSE glFile
    /\ UNCHANGED glRef

\* Bug: a directory that only its ISO folder stands for is not found.
StandsForTwo(t, fd) == t.dfd = fd /\ t.iso # fd

\* dirent_search's test
StandsFor(t, fd) == t.dfd = fd

\* gamedclose: the first entry found goes; the ISO folder's own descriptor is not
\* closed.
GlCloseDir(p) ==
    /\ \/ \E i \in DOMAIN glTrack :
             /\ StandsFor(glTrack[i], p[1])
             /\ \A j \in 1 .. i - 1 : ~StandsFor(glTrack[j], p[1])
             /\ IF glTrack[i].path = "root" THEN SaveCache ELSE UNCHANGED cacheVars
             /\ glTrack' = RemoveAt(glTrack, i)
       \/ /\ \A i \in DOMAIN glTrack : ~StandsFor(glTrack[i], p[1])
          /\ UNCHANGED <<cacheVars, glTrack>>
    /\ glOpen' = glOpen \ {p[1]} /\ glGiven' = glGiven \ {p}
    /\ UNCHANGED <<glIso, pbpVars, glDelete>>

-----------------------------------------------------------------------------
(* Deleting a game                                                         *)

\* Bound: the menu deletes one game at a time, and while it has nothing open.
DeletesNow == glUsers = <<>> /\ glGiven = {}

\* gamedopen of a game's virtual folder
GlOpenVirtual(i) ==
    /\ ~glDelete.temp /\ DeletesNow
    /\ glDelete' = [glDelete EXCEPT !.dir = i]
    /\ UNCHANGED <<glIso, cacheVars, pbpVars, dirVars>>

\* Bug: the name is taken to be that of the folder opened before.
RenamedDirOpened(i) == IF glDelete.dir # 0 THEN glDelete.dir ELSE i

\* g_iso_dir after gamerename
RenamedDir(i) == i

\* gamerename of the virtual folder to the name for deletion
GlRename(i) ==
    /\ DeletesNow
    /\ glDelete' = [dir |-> RenamedDir(i), temp |-> TRUE, asked |-> i]
    /\ UNCHANGED <<glIso, cacheVars, pbpVars, dirVars>>

\* gamermdir, with vpbp_remove
GlRmdir ==
    /\ glDelete.temp
    /\ glList' = [glList EXCEPT ![glDelete.dir].on = FALSE]
    /\ \/ glIso' = [glIso EXCEPT ![glList[glDelete.dir].name] = 0]
       \/ UNCHANGED glIso
    /\ glDelete' = NoDelete
    /\ UNCHANGED <<cacheVars, glImage, glUsers, dirVars>>

-----------------------------------------------------------------------------
(* The computer and the power                                              *)

\* The menu has left its list while USB runs.
GlReplace(f, v) ==
    /\ glGiven = {} /\ glUsers = <<>> /\ v > glIso[f]
    /\ glIso' = [glIso EXCEPT ![f] = v]
    /\ UNCHANGED <<cacheVars, pbpVars, dirVars, glDelete>>

\* vpbp_init
Restarted ==
    /\ glCaches' = NoCache /\ glRef' = {} /\ glDirty' = FALSE
    /\ glList' = <<>> /\ glImage' = <<>> /\ glUsers' = <<>>
    /\ glTrack' = <<>> /\ glOpen' = {} /\ glGiven' = {}
    /\ glDelete' = NoDelete
    /\ UNCHANGED glIso

GlRestart == Restarted /\ UNCHANGED glFile

\* The semaphore stays taken, every call of the menu waits for it, and only a
\* restart helps: after a vpbp_loadexec that comes back (its unlock is behind the
\* return), and in a vpbp_read of an entry that was not built, where no section
\* holds the position and pbp_total_size is what was in the memory, so that the
\* loop does not end.  When vpbp_loadexec does start the game, the menu's memory
\* is gone just so.
GlLoadExec(i) == Shown(i) /\ GlRestart

GlReadHangs(i) == glList[i].built = Unbuilt /\ GlRestart

\* The power goes while save_cache writes: k whole entries and part of the next.
GlPowerLoss(k) ==
    /\ \E t \in ToSet(glTrack) : t.path = "root"
    /\ glDirty \/ Purged # glCaches
    /\ glFile' = [s \in Slots |->
          IF s < k THEN Purged[s]
          ELSE IF s = k /\ Purged[s].on THEN [Purged[s] EXCEPT !.mtime = 0, !.built = Torn]
          ELSE Blank]
    /\ Restarted

GlInit ==
    /\ glIso \in [GlIsos -> 0 .. 1] /\ glFile = NoCache
    /\ glCaches = NoCache /\ glRef = {} /\ glDirty = FALSE
    /\ glList = <<>> /\ glImage = <<>> /\ glUsers = <<>>
    /\ glTrack = <<>> /\ glOpen = {} /\ glGiven = {}
    /\ glDelete = NoDelete

GlNext ==
    \/ \E i \in DOMAIN glList :
          Shown(i) /\ (GlOpenPbp(i) \/ GlOpenVirtual(i) \/ GlRename(i) \/ GlLoadExec(i))
    \/ \E i \in DOMAIN glUsers : GlSeekPbp(i) \/ GlReadPbp(i) \/ GlReadHangs(i) \/ GlClosePbp(i)
    \/ \E i \in DOMAIN glTrack, f \in GlIsos : GlReadDir(i, f)
    \/ \E path \in {"root", "cat"}, game, iso, added \in BOOLEAN : GlOpenDir(path, game, iso, added)
    \/ \E p \in glGiven : GlCloseDir(p)
    \/ GlRmdir
    \/ \E f \in GlIsos : \E v \in 1 .. GlVersions[f] : GlReplace(f, v)
    \/ GlRestart
    \/ \E k \in Slots : GlPowerLoss(k)

GlSpec == GlInit /\ [][GlNext]_glVars

-----------------------------------------------------------------------------
(* Properties                                                              *)

\* A header in the list was made from the version of the file that was on the
\* memory stick when it was listed, whether it was built then or came through the
\* cache, its file and a restart, and whatever was replaced over USB or cut short
\* by the power in between.
EntryFresh ==
    \A i \in DOMAIN glList : glList[i].built \in {glList[i].seen, Unbuilt, Refused}

\* What the virtual file of an entry should hold: the header, and behind it the
\* sections that come before section j.
WantedUpTo(e) ==
    LET part(j) == [k \in 1 .. SectSize(e, j) |-> <<<<e.name, e.built>>, j, k - 1>>]
        upTo[j \in 0 .. LastSect(e) + 1] ==
            IF j = 0 THEN [k \in 1 .. GlHead |-> <<"header", k - 1>>] ELSE upTo[j - 1] \o part(j - 1)
    IN  upTo
WantedPbp(e) == WantedUpTo(e)[LastSect(e) + 1]

\* While an opened entry's own image is the open one, and is still the version
\* its header was made from, a read of any length gives the virtual file's bytes
\* from the entry's position on, across the sections and up to the end; a read
\* that starts inside the header is left out (the source indexes it by words).
PbpReadRight ==
    \A i \in DOMAIN glUsers :
        LET e == glList[i]
            fp == glUsers[i]
        IN  e.built > 0 /\ glImage = <<e.name, e.built>> /\ (fp = 0 \/ fp >= GlHead) =>
            \A n \in GlReads :
                ReadPbp(e, fp, n, FALSE).data
                = SubSeq(WantedPbp(e), fp + 1, Least(fp + n, TotalSize(e)))

\* The descriptors the menu holds of game folders with ISO files are those of the
\* list of open directories, each once, and both descriptors of an entry are open:
\* a number the firmware gives out again never finds an old entry.
DirsTracked ==
    /\ Len(glTrack) = Cardinality({t.dfd : t \in ToSet(glTrack)})
    /\ {t.dfd : t \in ToSet(glTrack)} = {p[1] : p \in {q \in glGiven : q[2]}}
    /\ \A t \in ToSet(glTrack) : t.dfd \in glOpen /\ t.iso \in glOpen

\* The file that disappears with a folder for deletion is that of the game whose
\* folder the menu renamed, whatever folders it looked into before.
DeletesAsked ==
    [][\A f \in GlIsos : glIso[f] # 0 /\ glIso'[f] = 0 => f = glList[glDelete.asked].name]_glVars
=============================================================================
