------------------------------ MODULE UmdFiles ------------------------------
(***************************************************************************)
(* What the umd driver promises to the programs that read the disc:        *)
(* at most Capacity files are open at a time, each with a position of its  *)
(* own, counted in sectors; a call takes effect in one instant between its *)
(* start and its return, or fails and changes nothing.  InfernoIo          *)
(* implements this specification with a table of slots, a semaphore and    *)
(* reads that take the semaphore three times.                              *)
(***************************************************************************)
EXTENDS Integers, FiniteSets

CONSTANTS Threads, Files, Calls, Capacity, Total, Width

VARIABLES
    offset,     \* position of each file, NotOpen when there is none
    call        \* the call of each thread: [op, file, n, whence] and its res

filesVars == <<offset, call>>

NotOpen == -1

\* What a call has come to; a read delivers count sectors from `at` on.
Result(kind, at, count) == [kind |-> kind, at |-> at, count |-> count]
Pending == Result("pending", 0, 0)
Failed == Result("failed", 0, 0)
TooMany == Result("too many", 0, 0)
Done(at) == Result("done", at, 0)

NoCall == [op |-> "none", file |-> "none", n |-> 0, whence |-> "set", res |-> Pending]

Opened == {f \in Files : offset[f] # NotOpen}

Clamp(p) == IF p > Total THEN Total ELSE p

\* Where a seek by n leads; positions are unsigned numbers of the machine.
Target(p, n, whence) ==
    Clamp((CASE whence = "set" -> n [] whence = "cur" -> p + n
             [] whence = "end" -> Total + n) % Width)

Init ==
    /\ offset = [f \in Files |-> NotOpen]
    /\ call = [t \in Threads |-> NoCall]

Begin(t) ==
    /\ call[t] = NoCall
    /\ \E c \in Calls, f \in Files :
          call' = [call EXCEPT ![t] = [op |-> c.op, file |-> f, n |-> c.n,
                                       whence |-> c.whence, res |-> Pending]]
    /\ UNCHANGED offset

Finish(t, op, res) ==
    /\ call[t].op = op /\ call[t].res = Pending
    /\ call' = [call EXCEPT ![t].res = res]

Open(t) ==
    LET f == call[t].file
    IN  \/ /\ f \notin Opened /\ Cardinality(Opened) < Capacity
           /\ Finish(t, "open", Done(0))
           /\ offset' = [offset EXCEPT ![f] = 0]
        \/ /\ Cardinality(Opened) = Capacity
           /\ Finish(t, "open", TooMany)
           /\ UNCHANGED offset

Read(t) ==
    LET f == call[t].file
        p == offset[f]
        n == IF p + call[t].n > Total THEN Total - p ELSE call[t].n
    IN  /\ f \in Opened
        /\ Finish(t, "read", Result("done", p, n))
        /\ offset' = [offset EXCEPT ![f] = p + n]

Seek(t) ==
    LET f == call[t].file
        p == Target(offset[f], call[t].n, call[t].whence)
    IN  /\ f \in Opened /\ call[t].whence # "other"
        /\ Finish(t, "seek", Done(p))
        /\ offset' = [offset EXCEPT ![f] = p]

Tell(t) ==
    /\ call[t].file \in Opened
    /\ Finish(t, "tell", Done(offset[call[t].file]))
    /\ UNCHANGED offset

\* The file is gone, whatever the close returns.
Close(t) ==
    /\ call[t].file \in Opened
    /\ \E r \in {Done(0), Failed} : Finish(t, "close", r)
    /\ offset' = [offset EXCEPT ![call[t].file] = NotOpen]

\* The memory stick or the driver failed: nothing has changed.
Fail(t) ==
    /\ \E op \in {"open", "read", "seek", "tell"} : Finish(t, op, Failed)
    /\ UNCHANGED offset

Return(t) ==
    /\ call[t].op # "none" /\ call[t].res # Pending
    /\ call' = [call EXCEPT ![t] = NoCall]
    /\ UNCHANGED offset

Next ==
    \E t \in Threads :
        Begin(t) \/ Open(t) \/ Read(t) \/ Seek(t) \/ Tell(t) \/ Close(t) \/ Fail(t) \/ Return(t)

Spec == Init /\ [][Next]_filesVars
=============================================================================
