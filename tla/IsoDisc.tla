------------------------------ MODULE IsoDisc ------------------------------
(***************************************************************************)
(* What the disc promises to the driver above it: a request for `len`      *)
(* bytes at `pos` is answered with exactly the bytes of the image that     *)
(* exist there, or with an error.  Nothing is said about how the bytes are *)
(* found; IsoCache implements this specification with a set of buffers     *)
(* in front of the memory stick.                                           *)
(*                                                                         *)
(* The content of byte p of the image is written p, the value that tells   *)
(* every two bytes apart.                                                  *)
(***************************************************************************)
EXTENDS Integers

CONSTANTS
    IsoSize,    \* size of the image in bytes
    Requests    \* the requests [pos, len] the driver issues

VARIABLES
    asked,      \* the request being served, NoRequest when there is none
    reply       \* the last answer: [ret, data]

discVars == <<asked, reply>>

NoRequest == [pos |-> 0, len |-> -1]

\* Bytes of the image in [pos, pos + len).
Available(pos, len) ==
    IF pos >= IsoSize THEN 0
    ELSE IF IsoSize - pos < len THEN IsoSize - pos ELSE len

\* The answer that carries n bytes found at pos.
Bytes(pos, n) == [ret |-> n, data |-> [i \in 0 .. n - 1 |-> pos + i]]

ReadError == Bytes(0, -1)

Init ==
    /\ asked = NoRequest
    /\ reply = Bytes(0, 0)

Ask(r) ==
    /\ asked = NoRequest
    /\ asked' = r
    /\ reply' = NoRequest

Answer ==
    /\ asked # NoRequest
    /\ asked' = NoRequest
    /\ reply' \in {Bytes(asked.pos, Available(asked.pos, asked.len)), ReadError}

Next == Answer \/ \E r \in Requests : Ask(r)

Spec == Init /\ [][Next]_discVars
=============================================================================
