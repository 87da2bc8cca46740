----------------------------- MODULE MCFirmware -----------------------------
(***************************************************************************)
(* An instance for TLC of three parts that share no state: the list of the *)
(* files that are not protected, the sizes of user memory, the lock of the *)
(* log.  part says which of them moves.                                    *)
(***************************************************************************)
EXTENDS NoDrm, HighMemory, PrintkLog, TLC

VARIABLE part

HmAsks == {0, 1, 3, 24, 28, 48, 50, 55, 250}

\* Descriptors, nodes and threads of NoDrm are compared with each other only, so they
\* may be exchanged; a CHOOSE has more than one node to take only after the
\* property's exception.
DrmSymmetry == Permutations(DrmNode) \cup Permutations(DrmFd) \cup Permutations(DrmThreads)

firmwareVars == <<drmVars, hmVars, pkVars, part>>

Init ==
    /\ part \in {"drm", "memory", "log"}
    /\ DrmInit /\ HmInit /\ PkInit
    /\ part = "memory" \/ hmBoot = HmStarted(FALSE, FALSE)

Next ==
    /\ \/ part = "drm" /\ DrmNext /\ UNCHANGED <<hmVars, pkVars>>
       \/ part = "memory" /\ HmNext /\ UNCHANGED <<drmVars, pkVars>>
       \/ part = "log" /\ PkNext /\ UNCHANGED <<drmVars, hmVars>>
    /\ UNCHANGED part

Spec == Init /\ [][Next]_firmwareVars
=============================================================================
