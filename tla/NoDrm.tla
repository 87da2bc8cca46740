-------------------------------- MODULE NoDrm --------------------------------
(***************************************************************************)
(* The files a game opens as protected and that are not (nodrm.c of        *)
(* src/Stargate): their descriptors are kept in a linked list, so that the *)
(* calls which set up a key answer "done" for them without doing anything. *)
(*                                                                         *)
(* The calls of any number of threads interleave at the calls of the       *)
(* system, and the search of the list, which takes no lock, node by node.  *)
(* Additions and removals are under the list's semaphore.  A node is a     *)
(* model value; the list is kept as the code keeps it, by its nodes' links *)
(* and a pointer to the last one.                                          *)
(***************************************************************************)
EXTENDS Naturals

CONSTANTS
    DrmNode,       \* the nodes oe_malloc can give
    DrmFd,         \* the descriptors of the kernel
    DrmThreads,
    DrmNoNode, DrmNoFd

ASSUME DrmAssumption == DrmNoNode \notin DrmNode /\ DrmNoFd \notin DrmFd

VARIABLES
    drmFile,      \* descriptor -> what is open under it, see DrmFiles
    drmHead,      \* g_head.next
    drmNext,      \* node -> next
    drmTail,      \* g_tail, DrmNoNode for &g_head
    drmOf,        \* node -> fd, asyncKeySetup
    drmCall,      \* thread -> its call
    drmExcused    \* see DrmListRight

drmVars == <<drmFile, drmHead, drmNext, drmTail, drmOf, drmCall, drmExcused>>
listVars == <<drmHead, drmNext, drmTail, drmOf>>

DrmKind == {"plain", "sealed"}

\* A file: whether it is protected; whether it was opened plainly or with the flag
\* for protected files; whether its first bytes were seen before.
DrmFiles == [kind : DrmKind, way : {"none", "plainly", "flagged"}, seen : BOOLEAN]
DrmNoFile == [kind |-> "plain", way |-> "none", seen |-> FALSE]

-----------------------------------------------------------------------------
(* The list                                                                *)

\* The nodes a search for fd looks at: of the sets that have the first node and,
\* with a node of another descriptor, the node behind it, the smallest.
DrmSearched(fd) ==
    {n \in DrmNode : \A S \in SUBSET DrmNode :
        /\ drmHead \in S \cup {DrmNoNode}
        /\ \A m \in S : drmOf[m].fd # fd => drmNext[m] \in S \cup {DrmNoNode}
        => n \in S}

\* The first node of fd: the search of remove_nodrm_fd, under the lock.
DrmFound(fd) ==
    LET hits == {n \in DrmSearched(fd) : drmOf[n].fd = fd}
    IN  IF hits = {} THEN DrmNoNode ELSE CHOOSE n \in hits : TRUE

DrmAdd(fd) ==
    \E n \in {m \in DrmNode : drmOf[m].fd = DrmNoFd} :
        /\ drmOf' = [drmOf EXCEPT ![n] = [fd |-> fd, setup |-> FALSE]]
        /\ drmNext' = [m \in DrmNode |-> IF m = n THEN DrmNoNode
                                         ELSE IF m = drmTail THEN n ELSE drmNext[m]]
        /\ drmHead' = IF drmTail = DrmNoNode THEN n ELSE drmHead
        /\ drmTail' = n

\* The node before n, DrmNoNode for the head.
DrmPrev(n) ==
    IF drmHead = n THEN DrmNoNode ELSE CHOOSE m \in DrmNode : drmOf[m].fd # DrmNoFd /\ drmNext[m] = n

\* Bug: the pointer to the last node stays where it was.
DrmTailAfterNot(n, prev) == drmTail

\* g_tail after the removal of n
DrmTailAfter(n, prev) == IF drmTail = n THEN prev ELSE drmTail

\* remove_nodrm_fd: the first node of fd is unlinked and freed, if there is one.
DrmRemove(fd) ==
    LET n == DrmFound(fd)
        prev == DrmPrev(n)
    IN  IF n = DrmNoNode THEN UNCHANGED listVars
        ELSE /\ drmHead' = IF drmHead = n THEN drmNext[n] ELSE drmHead
             /\ drmNext' = [m \in DrmNode |-> IF m = n THEN DrmNoNode
                                              ELSE IF m = prev THEN drmNext[n] ELSE drmNext[m]]
             /\ drmTail' = DrmTailAfter(n, prev)
             /\ drmOf' = [drmOf EXCEPT ![n] = [fd |-> DrmNoFd, setup |-> FALSE]]

-----------------------------------------------------------------------------
(* Calls of the system                                                     *)

DrmFree == {fd \in DrmFd : drmFile[fd].way = "none"}

DrmIdle == [pc |-> "idle", fd |-> DrmNoFd, file |-> DrmNoFile, op |-> "none", at |-> DrmNoNode]

DrmGoto(t, call) == drmCall' = [drmCall EXCEPT ![t] = call]

DrmReturn(t) == DrmGoto(t, DrmIdle)

DrmOn(pc, fd, file) == [DrmIdle EXCEPT !.pc = pc, !.fd = fd, !.file = file]

\* The kernel gives any free descriptor; one that is closed and not yet removed
\* from the list as well.
DrmReuses(fd) == \E t \in DrmThreads : drmCall[t].pc = "remove" /\ drmCall[t].fd = fd

DrmKernelOpen(fd, file) ==
    /\ fd \in DrmFree
    /\ drmFile' = [drmFile EXCEPT ![fd] = file]
    /\ drmExcused' = (drmExcused \/ DrmReuses(fd))

DrmInit ==
    /\ drmFile = [fd \in DrmFd |-> DrmNoFile]
    /\ drmHead = DrmNoNode /\ drmTail = DrmNoNode
    /\ drmNext = [n \in DrmNode |-> DrmNoNode]
    /\ drmOf = [n \in DrmNode |-> [fd |-> DrmNoFd, setup |-> FALSE]]
    /\ drmCall = [t \in DrmThreads |-> DrmIdle]
    /\ drmExcused = FALSE

-----------------------------------------------------------------------------
(* myIoOpen and myIoOpenAsync with a flag of is_encrypted_flag             *)

\* check_file_is_encrypted: a file whose first bytes cannot be read is taken for
\* one without protection.  How it is opened for the caller:
DrmWay(kind, seen) == IF kind = "sealed" /\ seen THEN "flagged" ELSE "plainly"

\* The file is opened plainly and its first bytes are looked at; sealed, or opened
\* asynchronously, it is closed and opened again.  If it cannot be opened plainly
\* the caller's flag is tried next.  Nothing is opened any more once the
\* property's exception has happened.
DrmOpen(t, kind) ==
    /\ drmCall[t].pc = "idle" /\ ~drmExcused
    /\ \/ \E fd \in DrmFd : \E seen, async \in BOOLEAN :
             LET again == [kind |-> kind, way |-> DrmWay(kind, seen), seen |-> seen]
             IN  /\ DrmKernelOpen(fd, [again EXCEPT !.way = "plainly"])
                 /\ DrmGoto(t, DrmOn(IF async \/ again.way = "flagged" THEN "close" ELSE "add", fd, again))
       \/ /\ DrmGoto(t, DrmOn("reopen", DrmNoFd, [kind |-> kind, way |-> "flagged", seen |-> FALSE]))
          /\ UNCHANGED <<drmFile, drmExcused>>
    /\ UNCHANGED listVars

DrmOpenCloses(t) ==
    /\ drmCall[t].pc = "close"
    /\ drmFile' = [drmFile EXCEPT ![drmCall[t].fd] = DrmNoFile]
    /\ DrmGoto(t, DrmOn("reopen", DrmNoFd, drmCall[t].file))
    /\ UNCHANGED <<listVars, drmExcused>>

DrmReopen(t) ==
    /\ drmCall[t].pc = "reopen"
    /\ \/ \E fd \in DrmFd :
             /\ DrmKernelOpen(fd, drmCall[t].file)
             /\ IF drmCall[t].file.way = "plainly" THEN DrmGoto(t, DrmOn("add", fd, drmCall[t].file))
                ELSE DrmReturn(t)
       \/ DrmReturn(t) /\ UNCHANGED <<drmFile, drmExcused>>
    /\ UNCHANGED listVars

\* Somebody is inside add_nodrm_fd: the node g_tail points at has no link yet.
DrmUnlinked == \E t \in DrmThreads : drmCall[t].pc = "link"

\* add_nodrm_fd; without memory the file is handed out and not in the list.
DrmAdds(t) ==
    /\ drmCall[t].pc = "add" /\ ~DrmUnlinked
    /\ \/ /\ DrmAdd(drmCall[t].fd) /\ DrmGoto(t, [drmCall[t] EXCEPT !.pc = "link"])
          /\ UNCHANGED drmExcused
       \/ drmExcused' = TRUE /\ DrmReturn(t) /\ UNCHANGED listVars
    /\ UNCHANGED drmFile

\* The link of the new node is set and the lock given back.
DrmLinks(t) ==
    /\ drmCall[t].pc = "link" /\ DrmReturn(t)
    /\ UNCHANGED <<drmFile, listVars, drmExcused>>

-----------------------------------------------------------------------------
(* The calls on a descriptor: the owner of the file makes one at a time    *)

DrmOwned == {fd \in DrmFd : drmFile[fd].way # "none" /\ \A t \in DrmThreads : drmCall[t].fd # fd}

DrmSearching(fd, op) == [DrmIdle EXCEPT !.pc = "search", !.fd = fd, !.op = op, !.at = drmHead]

\* find_nodrm_fd begins: for a close, for myIoIoctlAsync, or for the two calls that
\* clear the mark (myIoWaitAsyncCB, myIoPollAsync).
DrmAsks(t, op) ==
    /\ drmCall[t].pc = "idle"
    /\ \E fd \in DrmOwned : DrmGoto(t, DrmSearching(fd, op))
    /\ UNCHANGED <<drmFile, listVars, drmExcused>>

\* The search goes past a node of another descriptor.  A node that is being added
\* has no link yet: where the search goes from there nobody knows.
DrmPasses(t) ==
    LET at == drmCall[t].at
        lost == DrmUnlinked /\ at = drmTail
    IN  /\ drmCall[t].pc = "search" /\ at # DrmNoNode /\ drmOf[at].fd # drmCall[t].fd
        /\ DrmGoto(t, IF lost THEN [drmCall[t] EXCEPT !.pc = "lost"] ELSE [drmCall[t] EXCEPT !.at = drmNext[at]])
        /\ drmExcused' = (drmExcused \/ lost)
        /\ UNCHANGED <<drmFile, listVars>>

\* What the search of thread t leads to when it ends at node n, or at none: the file
\* is closed and taken out of the list; myIoIoctlAsync searches once more, without
\* a test of the result, and sets the mark; the mark is cleared.
DrmEnds(t, n) ==
    LET op == drmCall[t].op
        fd == drmCall[t].fd
    IN  /\ drmFile' = IF op = "close" THEN [drmFile EXCEPT ![fd] = DrmNoFile] ELSE drmFile
        /\ drmOf' = IF n # DrmNoNode /\ op \in {"mark", "clear"}
                    THEN [drmOf EXCEPT ![n].setup = (op = "mark")] ELSE drmOf
        /\ DrmGoto(t, IF n # DrmNoNode /\ op = "close" THEN DrmOn("remove", fd, DrmNoFile)
                      ELSE IF n # DrmNoNode /\ op = "setup" THEN DrmSearching(fd, "mark")
                      ELSE IF n = DrmNoNode /\ op = "mark" THEN DrmOn("null", fd, DrmNoFile)
                      ELSE DrmIdle)
        /\ UNCHANGED <<drmHead, drmNext, drmTail, drmExcused>>

DrmStops(t) ==
    /\ drmCall[t].pc = "search"
    /\ drmCall[t].at # DrmNoNode => drmOf[drmCall[t].at].fd = drmCall[t].fd
    /\ DrmEnds(t, drmCall[t].at)

\* On memory that was given back the search may end anyhow.
DrmLost(t) ==
    /\ drmCall[t].pc = "lost"
    /\ \E n \in DrmNode \cup {DrmNoNode} : DrmEnds(t, n)

\* The searches that stand on the node of fd.
DrmStanding(fd) ==
    {t \in DrmThreads : drmCall[t].pc = "search" /\ drmCall[t].at # DrmNoNode /\ drmCall[t].at = DrmFound(fd)}

\* remove_nodrm_fd: a search that stands on the node goes on in freed memory.
DrmRemoves(t) ==
    LET fd == drmCall[t].fd
    IN  /\ drmCall[t].pc = "remove" /\ ~DrmUnlinked
        /\ DrmRemove(fd)
        /\ drmCall' = [u \in DrmThreads |-> IF u = t THEN DrmIdle
                                            ELSE IF u \in DrmStanding(fd) THEN [drmCall[u] EXCEPT !.pc = "lost"]
                                            ELSE drmCall[u]]
        /\ drmExcused' = (drmExcused \/ DrmStanding(fd) # {})
        /\ UNCHANGED drmFile

\* Another program is started: the module's memory and the files are new.
DrmRestart ==
    /\ drmFile' = [fd \in DrmFd |-> DrmNoFile]
    /\ drmHead' = DrmNoNode /\ drmTail' = DrmNoNode
    /\ drmNext' = [n \in DrmNode |-> DrmNoNode]
    /\ drmOf' = [n \in DrmNode |-> [fd |-> DrmNoFd, setup |-> FALSE]]
    /\ drmCall' = [t \in DrmThreads |-> DrmIdle]
    /\ drmExcused' = FALSE

DrmNext ==
    \/ \E t \in DrmThreads :
          \/ \E kind \in DrmKind : DrmOpen(t, kind)
          \/ DrmOpenCloses(t) \/ DrmReopen(t) \/ DrmAdds(t) \/ DrmLinks(t)
          \/ \E op \in {"close", "setup", "clear"} : DrmAsks(t, op)
          \/ DrmPasses(t) \/ DrmStops(t) \/ DrmLost(t) \/ DrmRemoves(t)
    \/ DrmRestart

DrmSpec == DrmInit /\ [][DrmNext]_drmVars

-----------------------------------------------------------------------------
(* Properties                                                              *)

\* A descriptor that no call is busy with is in the list, and once, exactly if its
\* file was opened plainly: then the keys are left alone and the bytes are read as
\* they are stored.  That is how a file without protection is opened, and only
\* such a file, if its first bytes could be seen.  And what myIoIoctlAsync has found
\* once it finds again.  It holds until a descriptor is given out again between its
\* close and its removal from the list, an addition is without memory, or a search
\* meets on the very node it stands on a removal or an addition that is not done.
DrmListRight ==
    ~drmExcused =>
        LET list == DrmSearched(DrmNoFd)
            Quiet(fd) == \A t \in DrmThreads : drmCall[t].fd # fd
        IN  /\ \A m, n \in list : m # n => drmOf[m].fd # drmOf[n].fd
            /\ \A fd \in {f \in DrmFd : Quiet(f)} :
                  /\ (\E n \in list : drmOf[n].fd = fd) <=> drmFile[fd].way = "plainly"
                  /\ drmFile[fd].seen => (drmFile[fd].way = "plainly" <=> drmFile[fd].kind = "plain")
            /\ \A t \in DrmThreads : drmCall[t].pc # "null"
=============================================================================
