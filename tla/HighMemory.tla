------------------------------ MODULE HighMemory ------------------------------
(***************************************************************************)
(* The user memory of a started program (src/SystemControl/high_memory.c): *)
(* partitions 2 and 9 from the beginning, in the sizes a program has asked *)
(* for before the restart, and above them 8 and, where the machine has it, *)
(* 11.  Sizes and offsets are in megabytes.                                *)
(***************************************************************************)
EXTENDS Integers

CONSTANTS
    HmTotal,     \* 56
    HmP11,       \* what partition 11 takes, 4
    HmMax,       \* MAX_HIGH_MEMSIZE, 55
    HmDefault,   \* 24
    HmWord,      \* 2 to the power of the width of an unsigned int
    HmAsked      \* bound: the sizes that are asked for

ASSUME HmAssumption ==
    /\ HmTotal \in Nat /\ HmP11 \in Nat /\ HmMax \in Nat /\ HmDefault \in Nat /\ HmWord \in Nat
    /\ 0 < HmDefault /\ HmDefault + HmDefault <= HmMax /\ HmMax < HmTotal
    /\ HmP11 + 4 + HmDefault + HmDefault <= HmTotal /\ 2 * HmTotal < HmWord
    /\ HmAsked \subseteq 0 .. HmWord - 1

VARIABLES
    hmAsk,       \* g_p2_size, g_p9_size
    hmBoot,      \* what was started, g_p8_size, whether the partitions were set
                 \* and then from sizes whose sum did not fit a word
    hmP2, hmP9   \* [offset, size] of the two, as modify_partition left them

hmVars == <<hmAsk, hmBoot, hmP2, hmP9>>

HmUnset == [p2 |-> HmDefault, p9 |-> HmDefault]

\* A word as an int.
HmInt(x) == IF 2 * x >= HmWord THEN x - HmWord ELSE x

\* max_user_part_size: partition 11, if there is one, and 8 are above it.
HmRoom(b) == HmTotal - (IF b.has11 THEN HmP11 ELSE 0) - b.p8

\* Bug: partition 2 keeps what partition 9 cannot give.
HmCutP9Only(p2, p9, over) == IF p9 > over THEN <<p2, p9 - over>> ELSE <<p2, 0>>

\* What is asked for too much comes off partition 9 first.
HmCut(p2, p9, over) == IF p9 > over THEN <<p2, p9 - over>> ELSE <<p2 - (over - p9), 0>>

HmSizes(p2, p9, room) == IF p2 + p9 > room THEN HmCut(p2, p9, p2 + p9 - room) ELSE <<p2, p9>>

-----------------------------------------------------------------------------

\* A program is started; prepatch_partitions shrinks partition 8 for a homebrew.
HmStarted(homebrew, has11) ==
    [homebrew |-> homebrew, has11 |-> has11, p8 |-> IF homebrew THEN 1 ELSE 4,
     set |-> FALSE, wrapped |-> FALSE]

HmInit ==
    /\ hmAsk = HmUnset
    /\ \E h, e \in BOOLEAN : hmBoot = HmStarted(h, e)
    /\ hmP2 = [offset |-> 0, size |-> HmDefault]
    /\ hmP9 = [offset |-> HmDefault, size |-> HmDefault]

\* sctrlHENSetMemory; the sum is taken in unsigned words.
HmSetMemory(p2, p9) ==
    /\ p2 # 0 /\ (p2 + p9) % HmWord <= HmMax
    /\ hmAsk' = [p2 |-> p2, p9 |-> p9]
    /\ UNCHANGED <<hmBoot, hmP2, hmP9>>

\* patch_partitions, for sizes other than the default ones or for a homebrew that
\* has MEMSIZE=1 in its description; the next restart has the default sizes again.
HmPatch ==
    LET plain == hmAsk.p2 = HmDefault /\ hmAsk.p9 = HmDefault
        got == HmSizes(IF plain THEN HmMax ELSE HmInt(hmAsk.p2),
                       IF plain THEN 0 ELSE HmInt(hmAsk.p9), HmRoom(hmBoot))
    IN  /\ ~hmBoot.set /\ (plain => hmBoot.homebrew)
        /\ hmP2' = [offset |-> 0, size |-> got[1]]
        /\ hmP9' = [offset |-> got[1], size |-> got[2]]
        /\ hmBoot' = [hmBoot EXCEPT !.set = TRUE, !.wrapped = hmAsk.p2 + hmAsk.p9 >= HmWord]
        /\ hmAsk' = HmUnset

\* load_reboot passes the sizes on, module_start takes them over.
HmReboot(homebrew) ==
    /\ hmBoot' = HmStarted(homebrew, hmBoot.has11)
    /\ hmP2' = [offset |-> 0, size |-> HmDefault]
    /\ hmP9' = [offset |-> HmDefault, size |-> HmDefault]
    /\ UNCHANGED hmAsk

HmNext ==
    \/ \E p2, p9 \in HmAsked : HmSetMemory(p2, p9)
    \/ HmPatch
    \/ \E h \in BOOLEAN : HmReboot(h)

HmSpec == HmInit /\ [][HmNext]_hmVars

-----------------------------------------------------------------------------
(* Properties                                                              *)

\* Whatever sizes were asked for, as long as their sum fits a word: the program
\* gets a partition 2, partition 9 begins where it ends, and both end below the
\* partitions above them, whatever machine and kind of program it is.
PartitionsFit ==
    ~hmBoot.wrapped =>
        /\ hmP2.size > 0 /\ hmP9.size >= 0
        /\ hmP2.offset = 0 /\ hmP9.offset = hmP2.size
        /\ hmP2.size + hmP9.size <= HmRoom(hmBoot)
=============================================================================
