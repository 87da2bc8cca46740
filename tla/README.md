# procfw: TLA+ models, checks and proofs

procfw ("635PRO") is a custom firmware for the PSP. This directory holds TLA+
models of the parts of it that keep state under concurrency and failure, TLC
configurations that check them on small instances, and TLAPS proofs. Most of the
firmware rewrites instructions of Sony's modules in memory; that part has no
state worth a model. What has state, and can go wrong in ways a test would
hardly show, is the driver that serves a disc image in place of the disc, the
hooks of the system menu that show images as games, the configuration that three
programs write, and several small caches and lists that calls of any thread reach.

- [The system](#the-system)
- [The modules](#the-modules)
- [The runs](#the-runs)
- [Fairness](#fairness)
- [What is proved](#what-is-proved)
- [What the models show of the code](#what-the-models-show-of-the-code)
- [What is not modelled](#what-is-not-modelled)
- [Plan](#plan)

## The system

| component | state it keeps | operations | with whom it interacts |
|---|---|---|---|
| Inferno read cache (`isocache.c`) | sorted slots and their buffers, prefetch stack, policy | `iso_cache_read`, `infernoCacheAdd`, `infernoCacheSetPolicy` | called by the driver under its semaphore; the prefetch devctl calls it without |
| Inferno image reader (`isoread.c`) | `g_iso_fd`, `g_iso_opened`, `g_total_sectors`, CISO index and block buffer | `iso_open`, `iso_read`, `iso_read_with_stack` | file calls on the memory stick; called by the cache, `IoOpen` and the mount thread |
| Inferno umd driver (`iodrv_funcs.c`) | `g_open_slot`, `g_umd9660_sema_id` | `IoInit`, `IoExit`, `IoOpen`, `IoClose`, `IoRead`, `IoLseek`, `IoIoctl`, `IoDevctl` | called by the kernel for every thread that uses the disc |
| Inferno drive status (`umd.c`, `main.c`) | `g_drive_status`, the event flag, the callback | `sceUmdActivate`, `Deactivate`, `WaitDriveStat*`, `CancelWait`, `Register/UnRegister`, `Set/ClearDriveStatus` | programs wait on the flag; the mount thread and the system change the status |
| Memory stick cache (`msstor_cache.c`) | one buffer and its position | `msstor_cache_open`, `_read`, `_write` | between the FAT driver and the block device, for every thread |
| Configuration (`conf.c`, `systemctrl.c`) | the file on the stick, a copy in each program | load, save, get, set | SystemControl at boot, Vshctrl, the SELECT menu, Recovery |
| User memory (`high_memory.c`) | the sizes asked for, kept over a restart | `sctrlHENSetMemory`, `patch_partitions` | games, boot |
| Game list (`virtual_pbp.c`, `xmbiso.c`, `dirent_track.c`, `isoreader.c` of Vshctrl) | one open image, the list of virtual PBP files, the cache of their headers, open directories | the menu's directory and file calls, `vpbp_*`, `isoOpen`, `isoRead`, `isoGetFileInfo` | the menu; files that USB replaces; restarts |
| Menu hook and USB (`vshmenu.c`, `usbdevice.c`, `src/usbdevice`) | the menu module, its handler, the stick's replaced functions; the UMD as a disk | the hook of the buttons, USB start and stop, sector reads of the host | Satelite, Recovery, the configuration |
| Plugin files (`plugins.c` of SystemControl and of Recovery) | six files of lines, Recovery's three lists | Recovery's plugin menu rewrites them; `load_plugins` reads them when a program starts | Recovery, SystemControl, every program's start |
| Stargate's descriptors (`nodrm.c`) | a list of descriptors of unprotected files | open, close, async calls, ioctl | games |
| Debug log (`printk.c`) | a lock of its own, a text buffer, a log in memory | `printk`, `printk_init`, `printk_sync` | every module of a debug build |
| Galaxy (`ISODrivers/Galaxy`) | the same cache; a patched NP9660 driver | read | patches Sony's driver |
| March33 | binary | | |
| SystemControl, the rest | module hooks, import tables | boot and module-start handlers, `sctrl*` calls | everything |
| Stargate, Vshctrl, the rest | patches | | games, the menu |
| Popcorn | patches for PlayStation games | file hooks | |
| Satelite, Recovery | a copy of the configuration, a thread each | menu entries, save, exit | the configuration; Vshctrl loads, starts and unloads Satelite |
| FastRecovery | none | starts Recovery | |
| Rebootex, Rebootex_bin, CIPL*, Permanent, Installer, PXE, CrossFW | none at run time | boot-time patching, writing the flash | |
| Common, libs, include, Imports, exception, kuBridgeTest, Translated, contrib | none | | |

What is hard in each of them:

- **cache**: the slots must stay sorted while a slot is disabled, filled, possibly
  left empty by a failed read and moved; a loop that must end with the semaphore held; a prefetch stack changed without a lock.
  Correct is: every answer is the bytes of the image, or an error.
- **image reader**: one descriptor and one file position for everybody, two users
  that take no lock, retries that open the file anew. Correct is: a read delivers
  the bytes of its offset, no descriptor is lost, the size is right, the semaphore
  comes back.
- **umd driver**: a read holds the semaphore three times, not once. Correct is: the
  open files behave as if each call took effect at once, eight of them at most.
- **drive status**: a change, its event flag and its notification are several
  steps; waits, changes and cancellations come in any order. Correct is: nobody
  waits for what is already true, the bits are consistent, nobody is told what is
  no longer so.
- **compressed images**: a window of the table that may or may not cover a request,
  four kinds of reads, blocks decompressed inside the caller's own buffer from
  their end. Correct is: the bytes of the image, in spite of reads that failed before.
- **memory stick cache**: no lock; a fill and a write of two callers. Correct is: a
  read delivers what the stick held at some time during it.
- **configuration and menu**: the file is rewritten in place by three programs, one of
  which may be terminated in the middle; the menu's module is unloaded while its
  thread and its handler may still be in use; the stick's functions are replaced
  and restored by two looks at a setting that may have changed in between.
- **game list**: a cache of headers over files that are replaced and a cache file
  that is cut; virtual files put together from sections; deletion through one
  global name.
- **plugin files**: every change of one line truncates and rewrites three files from
  lists that may lack what could not be read; two parsers of the same lines.
- **unprotected files**: a linked list with a tail pointer and a search without its
  lock; the kernel gives a closed descriptor out again at once; a protected file whose
  first bytes cannot be read is taken for an unprotected one.
- **UMD as a disk**: three notions of where the disc's driver stands; errors of the driver
  that nobody looks at.
- **the menu's image reader**: a read that goes on after eight failed seeks and succeeds
  with the bytes of another place.
- **user memory**: four partitions cut to one memory in unsigned words.
- **debug log**: a lock of three memory accesses, callers with interrupts disabled.

## The modules

```
 UmdFiles  <--refines--  InfernoIo      (open files over the semaphore)
                             |  its disc step is iso_read_with_stack
 IsoDisc   <--refines--  IsoCache       (what iso_cache_read does)
                             |  its fills and bypasses are iso_read
                         IsoRead        (one descriptor, retries, the mount thread)
                         CsoRead        (the same, for compressed images)
 UmdDrive                               (status, waits, callback; Mount is the end of IsoRead's mount)

 MCGameMenu = GameList | IsoReader | VshMenu | PluginFiles   (the system menu: list of games,
                                         reader of images, SELECT menu and USB, Recovery's
                                         plugin menu)
 MCReaders  = IsoRead | CsoRead | UmdVfat | MsStorCache      (what turns places of an image,
                                         a disc or a stick into bytes)
 MCFirmware = NoDrm | HighMemory | PrintkLog
```

The three MC modules at the end put parts that share no state beside each other; a
variable says which part moves, so that the number of states is the sum of those of
the parts. GameList sees IsoReader's images as "one image is open": IsoReader's
property is what it relies on.

Each module abstracts the layer below it to what that layer promises: InfernoIo's
disc delivers the sectors or fails, IsoCache's `iso_read` delivers the bytes that
exist or fails. Where the layer below does not keep that promise, the violation
runs of IsoRead say so.

**IsoDisc.** The abstract disc: a request is asked, and answered with the bytes of
the image that exist there, or with an error.

**IsoCache.** `isocache.c`, one step for each iteration of a loop: `SearchLeft`,
`SearchRight`, `SearchHit`, `SearchFail` are `binary_search` inside
`get_hit_caches`; `ReadHit`, `ReadSmall`, `ReadMiss`, `Bypass` the branches of
`iso_cache_read`; `AddCacheHit`, `AddCacheMiss`, `FillRead`, `FillEof`,
`FillError` the loop of `add_cache`; `NoPrefetch`, `LoadRequestIdx`,
`TakeRequest` are `process_request`, `UpdateCacheInfo` is `update_cache_info`;
`LoadAddIdx` and `StoreRequest` are the two halves of `infernoCacheAdd`, which
races with `process_request`. `mode` says which call the lookup belongs to (the
probe of `iso_cache_read`, its `add_cache`, or that of a prefetch). The byte at
position p of the image has the value p, so a byte from the wrong place is always
seen. `Reorder` is the two `memmove`s as one function of the array. A prefetch has no
buffer (`data == NULL`), so it leaves `out` alone.

**IsoRead.** `iso_open` call by call (`WaitMs0` ... `Count`), the loops of
`read_raw_data` (`Seek`, `SeekFails`, `Read`, `ReadFails`, `GiveUp`) under the
semaphore, and the two users without it, the seek loop of `IoOpen` and
`inferno_mount`. The kernel's descriptors are modelled with their positions, so
that closing the wrong one and losing one can be seen. `Eject` makes every open
descriptor fail until it is closed, `Insert` makes new ones possible.

**UmdFiles.** The abstract open files: a call takes effect in one instant between its
start and its return, or fails and changes nothing.

**InfernoIo.** The handlers. A short section under the semaphore is one step, because
nothing is visible inside it; `IoRead` is the three sections it has in the code
(`ReadOffset`, `TakeDisc` to `DiscDelivers` or `DiscFails`, `Advance`), and
`IoLseek` reads its result after the section (`SeekReturns`). `Begin` and `Return`
are the kernel, which keeps the slot in the file structure (`arg->arg`) and does
not close a file that is in use. Positions wrap at `Width`. `IoExit` deletes the
semaphore whoever waits for it. A seek with an unknown whence fails (`SeekUnknown`).
Lengths and positions are sectors modulo `Width`. The products with the size of a sector
are left out: a length cut at the end of the disc fits, and past the end nothing is read.

**UmdDrive.** `sceUmdSetDriveStatus` is one step up to `sceKernelSetEventFlag`
(interrupts are suspended), then the load of the argument and the call of the
callback. `NewStatus` is its six conditions. `CancelWait` loads the status and
`CancelEventFlag` uses it. The model starts when `module_start` has returned.

**CsoRead.** `read_cso_data_ng` and `refresh_cso_index`: a request of any size at any
offset, with the four reads it is made of (`CsoIndexRead` to the bulk) and the loop that
decompresses the blocks in between (`CsoShifted`). Byte p of the image is p, unit k of
a compressed block a negative number of its own. Any read may fail; its result is
ignored where the code ignores it. The table of offsets is a constant, any table in which
each block takes between one unit and a sector (`CsoAssumption`): that is what an image
holds whose `align` is 0, because a block that would not get smaller is stored as it is.

**MsStorCache.** `msstor_cache.c`: open, read (hit, fill, or past the buffer) and write,
one step per call of the device below. Callers interleave freely; each has its own
file position. `msRaced` is the history of the meetings that the code does not handle.

**HighMemory.** The sizes of `sctrlHENSetMemory`, their life over a restart, and
`patch_partitions`, which cuts partitions 2, 9, 8 and 11 to the memory, in words of
`HmWord`.

**NoDrm.** The list of `nodrm.c` node by node (`DrmTailAfter` is the removal's
treatment of the tail pointer), under the hooks for open, close, the asynchronous
calls and the ioctl of any number of threads. The kernel gives a free descriptor to any
open. `DrmOpen` has the two errors that the code passes over: first bytes that cannot be
read (`seen`), after which a protected file is listed as an unprotected one, and a first
open that fails, after which the file is opened with the caller's flag and not listed.
`DrmAdds` and `DrmRemoves` are under the lock; the search is not, and goes node by node
(`DrmAsks`, `DrmPasses`, `DrmStops`) through a list that changes meanwhile.
`myIoIoctlAsync` searches twice, and does not test the second result. `drmExcused` is
the history of the three things that the code does not handle: a descriptor given out
again between its close and its removal from the list, an addition without memory, and a
search that stands on the very node that is being freed or has no link yet. What the
search of a removal, under the lock, comes to is stated as the smallest set of nodes that
has the first node and, with a node, the next one (`DrmSearched`), not as a recursion
along the links.

**UmdVfat.** `src/usbdevice/main.c`: sectors of a made-up FAT file system and of the
disc's image, with the position of the disc's driver apart from the module's idea of it.
Each seek and each read of the disc may fail, and the code goes on where it does not look
at the result (`VfReadUmd`, `VfHeads`); only a failed read of several sectors ends the
request. A request that passes over an error is excused, and one that finds the buffer or
the driver where earlier errors have left them (`VfDisturbed`).

**GameList.** The hooks of `xmbiso.c`, `dirent_track.c` and `virtual_pbp.c`: listing
folders, opening, reading and closing virtual PBP files, deletion, the cache of
headers in memory and on the stick; USB replaces files and the power may be lost.

**IsoReader.** Vshctrl's `isoreader.c`: one image at a time, plain or compressed, with the
window of the table, and the lookup of a path over directories whose records leave gaps at
the ends of sectors. A read by `readRawData` has three ends (`IrReads`): the bytes asked
for, an error, or the bytes of another place as a success, since after eight failed seeks
it reads all the same, from the beginning of the file if the last `reOpen` succeeded or
from another's file that has got the closed number. `irExcused` says of a call that such bytes
were used in it, those of its sectors or those of a window of the table read by it or
before it. That the records of a
sector follow each other from its beginning and that a directory has whole sectors and
each name once (no file in several extents) is an assumption on the images
(`IrDirectoryAssumption`), the one that `findFile` makes of ISO 9660.

**VshMenu.** Actors: the shell, which reads the buttons through the hook and starts and
stops USB; the thread of Satelite; the thread of Recovery; the power. Of the
configuration only the USB device is kept. A save is its three steps (open with
truncation, write, the copy that `sctrlSEApplyConfig` makes).

**PluginFiles.** A line is a name and one of five ends, among them those that a write
leaves that was cut. Recovery: reading the three files (`PlLoad`, which may end early or
lack memory for a line; a list is a function of the numbers of the file's lines, so that
a line left out leaves a gap), a change (`PlChange`), and `save_plugins` with each open, each
write and each close of its own (`PlOpen`, `PlWrite`, `PlClose`). SystemControl:
`PlBoot`. `plWant` is what the user has switched on and off, `plGone` and `plWrong` are
the files whose last save went wrong.

**PrintkLog.** `printk` access by access: the three accesses that take the lock, the
formatting into the shared buffer, the file or the log in memory, the three accesses of
the release. `PkPanic` is a caller with interrupts disabled.

**IsoCacheProofs, IsoReadProofs, InfernoIoProofs, InfernoIoRefinement, UmdDriveProofs,
MenuProofs, FirmwareProofs, ImageProofs.** The theorems; see below.

The MC modules hold the instances, the definitions called "Bug" or "Mutant" in
the component modules are single changes of one operator, kept beside it, that the
properties must notice.

## The runs

| run | instance | what it shows |
|---|---|---|
| iso_cache_safety | image of 8 bytes, blocks of 2, 3 slots of 4 bytes, threshold 2, 4 requests, 1 prefetching thread, stack of 1 | order and content of the slots, completeness of the search, the assertion of `add_cache`, refinement of IsoDisc, the inductive invariant |
| iso_cache_live | 2 slots, 2 requests longer than a slot, 2 prefetching threads, stack of 2 | every read returns |
| iso_cache_eof | as above, image of 7 bytes | a read at the end never returns (finding) |
| readers | plain image: 2 threads that read (2 offsets) and open, 2 ejects, 2 attempts, 2 descriptors; CSO image of 5 blocks of 2 bytes and a window of 4 entries, 1 failed read; a disc of 3 sectors over USB, requests of up to 8 disk sectors, a FAT of 2 sectors of 4 entries, any call of the disc's driver failing; stick of 3 sectors, buffer of 2, 2 callers | each reader delivers the right bytes, and what it guarantees in spite of failures, opens and other callers |
| iso_read_mount | 1 reader and the mount thread, 1 eject, 1 attempt | reads return; the mount ends when left alone |
| iso_read_retry | 1 reader, 1 eject | a retried read delivers other bytes (finding) |
| iso_read_open | 2 threads, no failure | an open moves the position under a read (finding) |
| inferno_io_private | 2 threads, 3 files, 2 slots, disc of 3 sectors, positions modulo 16, opens, closes, reads, three kinds of seeks, removal of the driver | slots, semaphore, positions, refinement of UmdFiles |
| inferno_io_shared | 2 threads, 2 files that both use | bounded overshoot, every call returns |
| umd_drive | 2 threads and the mount; two kinds of waits, two statuses of the system, one mask | consistency, waits, the flag, the callback |
| game_menu | 2 ISO files, one replaced by a second version, files of 1 or 2 sections, a cache of 1 entry in memory, 2 descriptors, lists of 2; the menu, Recovery, USB and the power with one setting of two values; 4 images with directories of 1 and 2 sectors, any seek or read failing; two sets of plugin files of up to 3 lines (without a flag, empty, twice the same, without an end), one failed call | the list shows what the files hold, virtual files read right, directories are tracked, only what was asked is deleted; the stick's functions come back, no code is used after its module is gone, the configuration survives; the menu's reader reads right and finds what an image has; SystemControl loads the plugins that were switched on |
| firmware_parts | 3 nodes, 3 descriptors and 2 threads of NoDrm, symmetric, any open and any look at the first bytes failing; 56 MB of memory, words of 256; 2 logging threads, a log of 3, messages of 2 | the list of unprotected files is right under searches without its lock; sizes and messages are right |

Why the bounds are enough. In the cache, three slots give a binary search that
goes left, right and both; requests of up to six bytes over slots of four and
blocks of two start and end inside, at and across slots and at and past the end
of the image, and one is below the threshold; replacement happens from the third
fill on. `MaxAge` = 1 keeps the two ages (just used, not just used) that LRU
compares; a cap on ages makes more slots equal, and ties go to the first, as in the
code. The stack of one entry is full after one prefetch. Two attempts are the
smallest number with a retry; the file offsets 2 and 4 and the header of length 1
make the position that `iso_open` leaves one that nobody asks for. `Handles` = 2
gives a descriptor to lose; the third `iso_open` then finds none. In InfernoIo,
three files and two slots make an open fail, seeks reach the end, pass it and wrap
at zero, and a read of 2 from each position of a disc of 3 is whole, short and
empty. In UmdDrive two threads are enough for every pair of a change and another
change, a wait or a cancellation; the mount is a third. The waits are for READY
and for a disc to come or go.

In the system menu one cached header in memory forces its replacement; two files
are enough for a header to be taken for the other's, two versions for a stale one.
The setting with two values tells every copy of the configuration from every other
that can be in use. The plugin files have a line of each kind, two types on one device and
both devices; one failed call at any place, with any number of losses of power, is enough
to spoil a list and then a file. In readers the CSO request is any stretch of the image,
so it covers a part of a block, one block, several, and runs past the window and
the end; blocks are compressed (2 lengths) and plain. A stick of 3 sectors and a
buffer of 2 make requests that fit the buffer, that do not, and that overlap it in
part. Requests of 8 disk sectors over a disc of 3 have a head, sectors read together and a
tail, and end at, in front of and behind the disc's end; clusters of 5 leave the last one
partly used. Three nodes have a first, a middle and a last one, and two threads a
search and a change of the list; identities of nodes, descriptors and threads are
only compared, which is why the symmetry is sound. Two threads in PrintkLog
show every overlap of a lock between two; three have been checked as well, and the
proof is for any number. The sizes of HighMemory's requests lie on both sides of each
test. No run checks the type invariants of IsoCache, InfernoIo and UmdDrive by
themselves: they are proved.

Deadlock is checked in every run.

## Fairness

- IsoCache: weak fairness of the reader's next step. It runs at a priority of its
  caller and is blocked only by file calls, which return. Callers and prefetching
  threads need do nothing.
- IsoRead: weak fairness of each thread's steps; strong fairness of taking the
  semaphore, which is created with attribute 0, that is, serves its waiters in
  order; weak fairness of `Insert`, because `wait_until_ms0_ready` itself waits
  for the stick for ever.
- InfernoIo: strong fairness of each thread's step, for the same semaphore.
- UmdDrive: weak fairness of the mount thread only. Programs need not call
  anything, and waits without a timeout need not end otherwise.

## What is proved

Eight modules hold proofs. Each component has one inductive invariant, a lemma for
each action, and theorems that follow from it. Everything is for all values of the
constants under the named assumption of the module. Each invariant was checked by TLC
on the component's instance before it was proved. The theorems state every invariant of
the passing runs, both refinements (`DiscSpec`, `FilesSpec`) and the action property
`DeletesAsked`; only liveness is left to TLC.

| module | theorems | invariant |
|---|---|---|
| IsoCacheProofs | `InvariantHolds`, `TypeCorrect`, `CacheSorted`, `CacheCoherent`, `SearchFindsCached`, `ErrorPosUnreachable`, `CacheImplementsDisc` | `IInv` (in IsoCache) |
| IsoReadProofs | `ReadInvariantHolds`, `CleanReads`, `DescriptorsAccountedFor`, `SizeIsKnown`, `QuietReads` | `IInv` |
| InfernoIoProofs | `IoTypeCorrect`, `DiscExclusiveTheorem`, `SlotsMatchFilesTheorem`, `OffsetOnDiscTheorem`, `OvershootBoundedTheorem` | `IoInv`, `RoomInv` |
| InfernoIoRefinement | `FilesSpecTheorem` | `SeenInv` |
| UmdDriveProofs | `WaitersReleasedTheorem`, `FlagCoversStatusTheorem`, `StatusConsistentTheorem`, `NoticeCurrentTheorem` | `UmdInv`, `NoticeInv` |
| MenuProofs | `StickRestoredTheorem`, `MenuCodeLoadedTheorem`, `ConfKeptTheorem` (VshMenu); `GlInvHolds`, `EntryFreshTheorem`, `PbpReadRightTheorem`, `TwoPassesEnd`, `DirsTrackedTheorem`, `DeletesAskedTheorem` (GameList); `PlInvHolds`, `PluginsRightTheorem` (PluginFiles) | `VshInv`, `VshConfInv`, `GlInv`, `GlUsersInv`, `PlInv` |
| FirmwareProofs | `PartitionsFitTheorem` (HighMemory); `MsReadsRightTheorem`, `MsCacheCoherentTheorem` (MsStorCache); `DrmListRightTheorem` (NoDrm); `MessagesWholeTheorem`, `LogOverrunTheorem` (PrintkLog) | `HmInv`, `MsInv`, `DrmInv`, `PkInv` |
| ImageProofs | `IsoReadRightTheorem`, `PathFoundTheorem` (IsoReader), `VfReadRightTheorem` (UmdVfat), `CsoReadRightTheorem` (CsoRead) | `IrInv`, `IrFindInv`, `VfInv`, `CsoInv` |

**The read cache.** For every size of the image that is a multiple of the alignment
(`WholeBlocks`; a sector is 2048 bytes, a block 64), every number and size of slots,
every set of requests and any number of prefetching threads. The properties are not
inductive by themselves. That the bytes handed out are right needs to be known at
every step of the lookup: `LookupInv` says that the caller's buffer is right up to
`probe`, that `probe` is inside the image unless it is where the request begins, and
that the slot hit last ends at `probe`; this last part is why `last_cache` never reaches
the end of the request (the assertion of `add_cache`) and why
`cur = last_cache->pos + last_cache->bufsize` loses nothing. `SearchInv` is the
invariant of the binary search: a slot that covers the position is between `lo` and
`hi`. `FillInv` says that the byte about to be read is in no slot, hence no slot has
the same aligned position, hence the refilled slot has a place of its own in the order
(`ReorderStep`, from `MovedFacts`). `AnswerInv` says that the answer is settled before
the prefetch starts. Without `WholeBlocks` the invariant is false, see the first finding.

**The image reader.** For any number of threads, descriptors, pulls of the stick and
retries. A read is clean while nothing has moved the descriptor between its seek and its
read (`clean`, a history): the invariant says that its descriptor is then where it was
put, or dead (`CleanAt`), which needs the semaphore (`SemaHeld`) and to know where in
which operation a thread can be (`Phases`). Descriptors and the size need what the one
thread inside `iso_open` has already done to the file (`OpenWork`), as long as there was
only one at a time (`Alone`): before the open every descriptor is closed, after it the
thread's own is the one in `g_iso_fd`. `QuietReads` has no proviso in its conclusion but
in its hypotheses: without opens, pulls and the mount thread every read is right
(`ReadsRight`, what the code's own test asserts, and what the finding violates otherwise).

**The umd driver.** For any threads, files, slots, calls, sizes of disc and word, and with
the driver removed at any time. Slots match files because the kernel lets no call onto
a file beside an open or close of it (`IoCalls`) and a slot is taken and given back in
one step (`IoSlots`). The position stays on the disc because a file that is not shared
has one call at a time, whose copy of the position is the position (`IoAlone`); the
clamp of the seek and the two comparisons of the read do the rest, and nothing wraps
(`SectorsType`). Steps that neither open nor close are treated once (`IoMoves`,
`MovesKeep`). The refinement needs in addition that what is added to a position is what
was read (`GotSectors`) and, for "too many files", that open files and slots in use are
equally many (`OpenedCount`). It assumes `~Shared`: with shared files it is false.
With shared files `OvershootBounded` holds, for a finite set of threads: instead of the sum
of what all readers of a file may still add, `RoomInv` says that one of them leads no
further than as many sizes of the disc as there are threads that are not on their way
to adding, and one more.

**The drive status.** `WaitersReleased` and `FlagCoversStatus` hold for whatever
statuses and masks are passed; the invariant adds which stores are still to come.
`StatusConsistent` needs `CallersConsistent`: the statuses and masks that other modules
pass are consistent ones, as the instance's are. `NoticeCurrent` follows from what keeps a
notification true until it is made: who is about to notify holds the present status, and
what was told last is present or is about to be told anew, unless a change has overtaken
a notification (`NoticeInv`).

**The memory stick cache.** For every size of stick and buffer, every length and any
number of callers. `MsHolds` says that a filled buffer equals the stick while no
write is between its invalidation and its end; the history `msRaced` is set by exactly
the meetings where that breaks.

**The menu.** USB starts only where no menu and no Recovery can run until it ends, so that
Vshctrl's copy of the configuration is the same at the start and at the stop
(`VshUsbInv`); that no menu runs follows from its thread not outliving its module
(`VshSatInv`). The configuration survives (`ConfKept`) because whoever saves holds what was
read or chosen, and the last to save is the last to have set Vshctrl's copy, unless one
of the excused meetings took place (`VshConfInv`).

**The game list.** For any files, versions, sizes of the cache and of the list, and any
interleaving of the menu, USB, restarts and losses of power. `EntryFresh` needs to know of
every entry of the cache and of its file that it was made from the version that its time
says; the entry that a loss of power cut short has the time of no file (`EntryRight`).
`DirsTracked` needs that no descriptor the firmware has out is in the list twice or stands
for another folder's ISO half (`GlDirInv`), and `DeletesAsked` that the renamed folder is
the one that was asked for.

**A read of a virtual PBP file.** For any number of sections of any sizes, empty ones
among them, any position at 0 or behind the header and any length. The virtual file is
described section by section (`GlBefore`): what comes before section i has the length
that the header gives for it, and byte p of section j is the image's byte at p minus the
section's offset. A turn of `vpbp_read`'s loop that finds the position in the header, in
PARAM.SFO or in its own section appends the bytes from there on, and any other turn
nothing (`SectionDataGives`), so that what has been read stays equal to what the virtual
file has there (`GlReadRight`, `TurnRight`). Turn i of a pass that starts behind the
header ends behind section i or with nothing left to read; the first pass of a read from
0 may go past sections it has already tried, but it ends behind the header, so the second
goes through all of them (`PassRight`) and no third is needed (`TwoPassesEnd`). The state
is only needed for this: an entry with a header was made from a version its file has had
(`GlListBuilt`), and every position is that of an entry and a natural number, also after
reads that fail or start inside the header (`GlUsersInv`).

**The plugin files.** For any files, lists and numbers of failed calls. A list of Recovery's
that is not short is what the user wants (`ListRight`), a file that is not being written
holds it (`FileRight`), and one that is being written holds the lines so far, or some of
them (`WriteRight`). That what a write leaves is read again as it was (`Parsed` of
`Line`) is proved line by line.

**Unprotected files.** For any nodes, descriptors and threads. The nodes in use are the
smallest set that the walk from the head does not leave (`DrmReached`), which stands in for
an induction along the links; a node is taken out whole because only one node has it for
its next (`DrmLinked`), and no descriptor has two nodes (`DrmOnce`) or two calls
(`DrmCalls`). Each call carries what it knows of its file (`DrmCallRight`), such as that
a file about to be added is in no node yet. A search without the lock finds its node
because the node is still in front of it (`DrmAhead`): it is in every set that has the
place where the search stands and goes along with the links, and an addition or a removal
elsewhere leaves that so. This is also why the second search of `myIoIoctlAsync` cannot come
back empty, which the code does not test.

**User memory.** For every size of the memory, every width of a word and every pair of sizes:
what waits for the restart has passed the tests of `sctrlHENSetMemory` (`HmAskChecked`),
and any two sizes fit once they are cut (`CutFits`), also if their sum wraps.

**The log.** The lock's word alone does not say who holds it: the invariant counts the
threads between the exchange and the release.

**The system menu's image reader.** For any images, tables and requests, and any failures of
the file calls. The window of the table is the open image's, or it is known to hold
other bytes (`IrWindowRight`, `IrJunk`); a call that has met neither such a window nor
such a sector (`~irExcused`) decodes a packed sector from the right offsets, and the
bytes gathered so far are those of the positions passed (`IrReadShape`).
`PathFound` speaks of the ways along a path, functions from the places in the path to
records (`IrWalks`), so that no induction is needed: the directory that a lookup is in is
where one way leads so far and where every whole way passes (`IrScanning`). In it the
records in front of the scan end there and none has the name (`IrScanned`); a step over a
record or over the gap behind the last one leaves no record out (`IrScanGoesOn`), which is
where the layout of the sectors is needed.

**The UMD as a disk.** For any sizes of the disc and of the FAT tables, any requests and any
failures of the disc's driver: a request which meets no error itself and finds buffer and
driver in place (`~VfDisturbed`) delivers the sectors of its place by each of the three
ways, the buffered sector, those read together, and the buffered sector behind them.

**Compressed images.** For any table of offsets (`CsoAssumption`), any window of at least 3
entries and any request. A window that covers a request holds its entries
(`CsoWindowRight`, `CsoReaches`); the bytes in front of, behind and between are there as far
as the code has come (`CsoProgress`). The heart is the decompression inside the caller's
buffer ("without overlap", `isoread.c:639-640`): since no block takes more than a sector,
what is left with k blocks done begins at or behind sector k (`CsoMiddleStands`), so that
sector k can be written without touching the blocks behind the one it comes from
(`CsoLoopKeeps`). With padding between blocks (`align` above 0) a stored block may be
followed by more than a sector's distance to the next; the theorem does not speak of that.

The library's induction theorems cannot be used here, but an argument by the least
counterexample can (`LeastElement`, from the well-foundedness of finite subsets): that is
how offsets are ordered (`CsoOrder`), how the game list's first entry is found, and how a
set that has 0 and with i - 1 also i is shown to have all numbers up to n (`UpTo`). With
it the recursive functions of the virtual PBP file (its header, its contents, the turns
of a pass) are shown to exist (`StepFunction`, on the set of lengths for which they do)
and to have, turn by turn, what their definitions say.

Model-checked only: liveness (`ReadReturns`, `MountEnds`, `CallsReturn`, `WaitersWake`),
which the proof system does not cover.

## What the models show of the code

Findings (a run violates what the repository states):

1. *End of an image that is no multiple of 64* (`isocache.c:243`, run
   iso_cache_eof). A read past the end aligns down into the last, partial block,
   gets bytes that are not needed, advances by none and repeats, with the
   semaphore held. "EOF reached, time to exit" (line 254) covers only images
   that end on a multiple of 64. Reads through files are cut at the end of the
   image (`iodrv_funcs.c:289`), prefetches and `umd_devctl_read` are not.
2. *Retry without a seek* (`isoread.c:306-316`, run iso_read_retry). After a
   failed read the file is opened anew and read from behind its header, not from
   the offset asked for. Galaxy has the same loop; Vshctrl's reader seeks again.
3. *Open without the semaphore* (`iodrv_funcs.c:182`, run iso_read_open). An open
   seeks the shared descriptor to 0 while another thread is between its seek and
   its read.

Further behaviour of the code that the models have and no document contradicts:

- While a reader keeps retrying, it and the mount thread can close each other's
  file and clear `g_iso_opened` for each other for ever; each such overlap may
  lose a descriptor, and the size may be taken from a file just closed. That is
  why `MountEnds`, `NoDescriptorLost` and `SizeKnown` carry provisos.
- Two threads that read one file both start at the same offset and both advance
  it; past the end `g_total_sectors - offset` wraps (`OvershootBounded`; with
  shared files `OffsetOnDisc` is false).
- A cancelled wait that is overtaken by a change writes an old status into the
  event flag (`stale`), and a callback can be told of two changes in the opposite
  order (`overtaken`). `FlagCoversStatus` and `NoticeCurrent` show that these are
  the only ways.
- The event flag keeps READY after `sceUmdDeactivate`, since setting a flag only
  adds bits: a wait for READY then returns at once.
- A program that activates the drive between `iso_open` and the mount's report
  loses READY when the report comes.
- Compressed images (CsoRead): the number of blocks is compared as unsigned with the -1
  of `refresh_cso_index` (line 544), so that the fallback to `read_cso_data` below, which
  has a FIXME, is never reached, and a failed read of the table is served from what the
  window happened to hold. The results of the three reads of data are ignored. A read
  at the very end of the image answers 0 or an error, depending on the alignment. A
  read of the table that was partly delivered spoils the window, which keeps its
  position. `CsoReadRight` excepts requests after such failures only.
- Memory stick cache: a fill that overlaps a write puts old sectors back, and a buffer
  may change under a read of another caller; `MsReadsRight` shows that nothing else goes
  wrong.
- Configuration: the menu's thread is terminated when it has not ended within 100 ms,
  and leaves a truncated file if it was saving. Recovery, reading the file during the
  menu's second save, gets zeros and may save them. Suspending from Recovery leaves
  Vshctrl's copy old, and what Recovery saved before the menu's final save is
  overwritten by it. These are the provisos of `ConfKept` (`seExcused`).
- UMD as a disk: reads at random places can deliver other sectors, since
  `umd_last_sector` and the driver's position can differ; a read that crosses from the
  directory into the file (sector 0x210) delivers zeros for the file's part. The results of
  `ReadUmdSector` and of the seek in front of a longer read are ignored (`main.c:277`,
  `296`, `314`): after an error of the driver the host gets the sector that was buffered
  last, or sectors from where the driver happens to stand, as a success. A read at the end
  of the disc, which has nothing left to read, marks the old buffer as the sector asked for.
- Game list: the header of a virtual PBP is indexed by words where bytes are meant (×4);
  `load_cache` tests the magic with && and leaves its descriptor open; `iso_dfd` is
  never closed when both directories were opened; a failed `dirent_add` leaves both
  open; `vpbp_loadexec` and a read of an entry that could not be built keep the lock for
  ever; moving `g_vpbps` leaves the reader's `g_filename` behind; the cached headers of
  category folders are lost when the root is opened again; a `gamedopen` of another
  virtual folder between the rename and the removal would delete another ISO.
- Vshctrl's image reader: the decompression buffer is never used twice (the test at line
  181 cannot hold); after eight failed seeks `readRawData` does not return but reads, at
  position 0 of the file that it has just opened anew or from another's file, and
  reports a success (`isoreader.c:108-122`); a window of the table read in this way is
  believed until another takes its place; after eight failed re-opens `g_isofd` may be the number of another
  file, which `isoClose` closes; a name longer than 32 ends the search of its directory;
  `..` is not understood.
- Unprotected files: `check_file_is_encrypted` answers "no" when the first bytes cannot be
  read, so that a protected file is listed, opened plainly, and its key never set
  (`nodrm.c:71-76`). When the first open fails the second one, with the flag for protected
  files, may succeed for an unprotected file, which is then not listed (lines 231, 251, 271,
  300). `DrmListRight` says what holds in spite of both.
- Plugin files: Recovery saves all three lists of a device whenever one plugin is changed,
  whatever was missing when they were read: a file whose open failed is emptied. No
  result of a write is looked at, and a line that is cut before its blank counts as
  switched on, since a name alone does. A name with a blank in it is cut there and
  switched off. `PluginsRight` shows that there are no other ways to lose a choice.
- Debug log: the starter's number is in the lock from `printk_init` on, so exclusion
  needs its first message to be out before other threads log, as it is in every module.
  A caller with interrupts disabled overwrites the text that a thread is writing out
  (`pkTorn`) and may fill the room that a thread has just tested: the log is overrun by
  less than one message. `printk_sync` takes no lock.

## What is not modelled

- The overwriting of the shared `g_read_arg` by the mount thread.
- Device controls that answer constants; `IoIoctl`'s seek and read, which are
  `IoLseek` and `IoRead` with other arguments; reads by raw sector.
- The power events, which notify the callback of an old status, and the error
  status `g_umd_error_status`.
- The start of the driver: the mount thread is started before the event flag
  exists (`main.c:127-133`) and is saved by its delay of 20 ms.
- Statistics, debugging output and the `#ifdef`ed tests, which serve as statements
  of what is expected.
- NoDrm: an asynchronous open that fails later and leaves its node.
- GameList: the lock (a call that keeps it for ever ends the session), the opening of
  the cache's file for saving, the listing of a virtual folder, `getstat`, a failed
  `realloc`, the PSP Go's second stick, running a game. The menu makes one call at a
  time: the empty lock of `dirent_track.c` is therefore not tested.
- PluginFiles: lines longer than the buffer of 255, names that are not ASCII, the loading
  of the module itself, which on the PSP Go takes it from the device the console was
  started from; the configuration and the button that forbid plugins.
- VshMenu: what the menus' entries change besides the USB device; drawing.
- PrintkLog: the formatting of numbers and strings.
- HighMemory: the words that lift the limits of the hardware.
- `umd_devctl_read`, the power events of `umd.c`, `nid_resolver.c`,
  Galaxy's own reader (a copy of Inferno's loops inside Sony's driver).
- The components marked `not_modelled` in PROJECT.json: binary patching, drawing,
  installers, boot code and third-party tools. These are most of the lines of the
  repository: tables of identifiers and offsets, three copies of a cipher, fonts,
  translations, `zlib.h`, and code that stores instructions at fixed addresses of
  Sony's modules. It runs once, in one thread, and keeps no state: a model of it would
  repeat the tables. The map therefore covers a small share of the repository, and
  most of what has state.

## Plan

Done: the read cache, the image readers, the umd driver, the drive status, the memory
stick cache, the configuration with the menus and USB, the game list, the
unprotected files, the UMD as a disk, the user memory, the debug log, the plugin
files; their proofs as listed.

Left, in this order:

1. The power events of `umd.c`, with a suspend between the steps of a read; then the
   start of the driver before its event flag exists.
2. NidResolver, as functions over tables.
