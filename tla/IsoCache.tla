------------------------------ MODULE IsoCache ------------------------------
(***************************************************************************)
(* The read cache of the Inferno ISO driver                                *)
(* (src/ISODrivers/Inferno/isocache.c, the same code as                    *)
(* src/ISODrivers/Galaxy/isocache.c).                                      *)
(*                                                                         *)
(* g_caches[] is an array of slots kept sorted by position, the unused     *)
(* ones (pos = (u32)-1) last.  A request is looked up slot by slot with a  *)
(* binary search (get_hit_caches); what is missing is read from the image  *)
(* into the slot that retires, and that slot is moved to its place in the  *)
(* order (add_cache, reorder_iso_cache).  iso_cache_read runs under the    *)
(* driver's semaphore, so there is one reader; infernoCacheAdd takes no    *)
(* lock and pushes prefetch requests while the reader runs.                *)
(*                                                                         *)
(* Each loop iteration of the code is a step.  Byte p of the image has the *)
(* value p, so a byte that comes from the wrong place is always noticed.   *)
(***************************************************************************)
EXTENDS Integers

CONSTANTS
    IsoSize,      \* bytes in the image
    Align,        \* 64: a slot is read from a multiple of Align
    Cap,          \* g_caches_cap: bytes a slot can hold
    NumCaches,    \* g_caches_num
    Threshold,    \* CACHE_MINIMUM_THRESHOLD
    NrCacheReq,   \* NR_CACHE_REQ: entries of g_cache_request
    Invalid,      \* (u32)-1, above every position
    MaxLen,       \* bound: the longest request
    MaxAge,       \* bound: where a slot's age stops growing
    Requests,     \* the requests [pos, len] the driver issues
    Prefetches,   \* the requests games pass to the prefetch devctl
    Adders        \* threads in that devctl

Min2(a, b) == IF a < b THEN a ELSE b

Slot == 0 .. NumCaches - 1
NoSlot == -1
Buffer == Slot                 \* cache->buf = pbuf + i * g_caches_cap
Junk == -1                     \* a byte that is none of the image's
Request == [pos : Nat, len : 0 .. MaxLen]
CacheSlot == [buf : Buffer, bufsize : 0 .. Cap, pos : 0 .. Invalid, age : -1 .. MaxAge]
NoArg == [pos |-> 0, len |-> 0]

ASSUME SizesAssumption ==
    /\ IsoSize \in Nat /\ Align \in Nat \ {0} /\ Cap \in Nat \ {0}
    /\ Cap % Align = 0                     \* infernoCacheInit: a multiple of 0x200
    /\ NumCaches \in Nat \ {0} /\ NrCacheReq \in Nat \ {0}
    /\ Threshold \in Nat \ {0} /\ MaxLen \in Nat /\ MaxAge \in Nat
    /\ Invalid \in Nat /\ IsoSize < Invalid

\* No request reaches the 4 GB limit of the u32 positions.
ASSUME RequestsAssumption ==
    /\ Requests \subseteq Request /\ Prefetches \subseteq Request
    /\ \A r \in Requests \cup Prefetches : r.pos + r.len < Invalid

VARIABLES
    slots,      \* g_caches
    mem,        \* what the slots' buffers contain
    cacheOn,    \* cache_on
    policy,     \* cache_policy
    request,    \* the request iso_cache_read was called with
    out,        \* the caller's buffer
    ret,        \* the value iso_cache_read returns
    pc,         \* where the reader is
    mode,       \* which call the lookup belongs to
    arg,        \* the argument of that call
    cur,        \* add_cache: cur
    probe,      \* get_hit_caches: cur
    last,       \* get_hit_caches: the slot hit last in this call
    lo, hi,     \* binary_search: low, high
    reqs,       \* g_cache_request
    reqIdx,     \* g_cache_request_idx
    popIdx,     \* process_request: the index it has loaded
    adder       \* infernoCacheAdd: the index and request of each call

lookupVars == <<probe, last, lo, hi>>
stackVars == <<reqs, reqIdx, popIdx, adder>>
vars == <<slots, mem, cacheOn, policy, request, out, ret, pc, mode, arg, cur,
          lookupVars, stackVars>>

-----------------------------------------------------------------------------
(* Helpers of the code                                                     *)

SlotEnd(s) == s.pos + s.bufsize

\* is_within_range
Covers(s, p) == s.pos # Invalid /\ s.pos <= p /\ p < SlotEnd(s)

\* Bug: disable_cache leaves the position in place.
DisabledKeepsPos(s) == [buf |-> s.buf, bufsize |-> 0, pos |-> s.pos, age |-> -1]

Disabled(s) == [buf |-> s.buf, bufsize |-> 0, pos |-> Invalid, age |-> -1]

End == arg.pos + arg.len

\* Bug: the copy is not limited by the end of the slot.
CopyLenUnlimited(s, p) == End - p

\* MIN(len - (cur - pos), cache->pos + cache->bufsize - cur), both unsigned:
\* a slot that ends before p does not limit the copy.
CopyLen(s, p) ==
    IF SlotEnd(s) >= p THEN Min2(End - p, SlotEnd(s) - p) ELSE End - p

\* memcpy(data + cur - pos, cache->buf + cur - cache->pos, n); a prefetch has
\* no data.
Copy(s, content, p, n) ==
    [i \in DOMAIN out |->
        IF mode # "prefetch" /\ arg.pos + i >= p /\ arg.pos + i < p + n
        THEN IF arg.pos + i - s.pos \in 0 .. Cap - 1
             THEN content[arg.pos + i - s.pos] ELSE Junk
        ELSE out[i]]

\* Bytes iso_read delivers: what the file has at pos, at most len.
Available(pos, len) ==
    IF pos >= IsoSize THEN 0 ELSE Min2(len, IsoSize - pos)

AlignDown(p) == (p \div Align) * Align         \* cur & ~(64 - 1)

\* get_retirng_cache: the first unused slot, else the first of the oldest
\* (LRU) or any (RR).
Retiring(s) ==
    IF \E i \in Slot : slots[i].pos = Invalid
    THEN slots[s].pos = Invalid /\ \A i \in 0 .. s - 1 : slots[i].pos # Invalid
    ELSE policy = "LRU" =>
            /\ \A i \in Slot : slots[i].age <= slots[s].age
            /\ \A i \in 0 .. s - 1 : slots[i].age < slots[s].age

\* reorder_iso_cache: slot s leaves the array and comes back before the first
\* slot whose position is not below its own.
Closed(f, s) == [i \in 0 .. NumCaches - 2 |-> IF i < s THEN f[i] ELSE f[i + 1]]

InsertAt(f, s, at) ==
    /\ \A i \in 0 .. at - 1 : Closed(f, s)[i].pos < f[s].pos
    /\ at < NumCaches - 1 => Closed(f, s)[at].pos >= f[s].pos

Moved(f, s, at) ==
    [i \in Slot |-> IF i < at THEN Closed(f, s)[i]
                    ELSE IF i = at THEN f[s] ELSE Closed(f, s)[i - 1]]

\* Bug: the refilled slot stays where it was.
ReorderNot(f, s) == slots' = f

Reorder(f, s) == \E at \in Slot : InsertAt(f, s, at) /\ slots' = Moved(f, s, at)

-----------------------------------------------------------------------------
(* The initial state: after infernoCacheSetPolicy and, when the cache is   *)
(* configured, infernoCacheInit.                                           *)

Init ==
    /\ slots = [i \in Slot |-> [buf |-> i, bufsize |-> 0, pos |-> Invalid, age |-> -1]]
    /\ mem = [b \in Buffer |-> [k \in 0 .. Cap - 1 |-> Junk]]
    /\ cacheOn \in BOOLEAN
    /\ policy \in {"LRU", "RR"}
    /\ request = NoArg
    /\ out = [i \in 0 .. MaxLen - 1 |-> Junk]
    /\ ret = 0
    /\ pc = "idle" /\ mode = "probe"
    /\ arg = NoArg
    /\ cur = 0 /\ probe = 0 /\ last = NoSlot /\ lo = 0 /\ hi = NumCaches - 1
    /\ reqs = [i \in 0 .. NrCacheReq - 1 |-> NoArg]
    /\ reqIdx = 0 /\ popIdx = 0
    /\ adder = [a \in Adders |-> [idx |-> -1, req |-> NoArg]]

-----------------------------------------------------------------------------
(* get_hit_caches                                                          *)

\* Bug: *last_cache is not reset when the lookup starts.
LookupKeepsLast(p, e) ==
    /\ pc' = IF p < e THEN "search" ELSE "miss"
    /\ probe' = p /\ last' = last
    /\ lo' = 0 /\ hi' = NumCaches - 1

\* The call get_hit_caches(p, e - p): with no bytes to look for it misses.
Lookup(p, e) ==
    /\ pc' = IF p < e THEN "search" ELSE "miss"
    /\ probe' = p /\ last' = NoSlot
    /\ lo' = 0 /\ hi' = NumCaches - 1

Mid == (lo + hi) \div 2

SearchLeft ==
    /\ pc = "search" /\ lo <= hi
    /\ ~Covers(slots[Mid], probe)
    /\ probe < slots[Mid].pos
    /\ hi' = Mid - 1
    /\ UNCHANGED <<slots, mem, cacheOn, policy, request, out, ret, pc, mode, arg,
                   cur, probe, last, lo, stackVars>>

SearchRight ==
    /\ pc = "search" /\ lo <= hi
    /\ ~Covers(slots[Mid], probe)
    /\ probe >= slots[Mid].pos
    /\ lo' = Mid + 1
    /\ UNCHANGED <<slots, mem, cacheOn, policy, request, out, ret, pc, mode, arg,
                   cur, probe, last, hi, stackVars>>

SearchHit ==
    LET s == slots[Mid]
        n == CopyLen(s, probe)
    IN  /\ pc = "search" /\ lo <= hi
        /\ Covers(s, probe)
        /\ out' = Copy(s, mem[s.buf], probe, n)
        /\ slots' = [slots EXCEPT ![Mid].age = -1]
        /\ probe' = probe + n
        /\ last' = Mid
        /\ pc' = IF probe' = End THEN "hit" ELSE "search"
        /\ lo' = 0 /\ hi' = NumCaches - 1
        /\ UNCHANGED <<mem, cacheOn, policy, request, ret, mode, arg, cur, stackVars>>

\* Bug: while (low < high).
SearchFailEarly ==
    /\ pc = "search" /\ lo >= hi
    /\ pc' = "miss"
    /\ lo' = 0 /\ hi' = NumCaches - 1
    /\ UNCHANGED <<slots, mem, cacheOn, policy, request, out, ret, mode, arg, cur,
                   probe, last, stackVars>>

SearchFail ==
    /\ pc = "search" /\ lo > hi
    /\ pc' = "miss"
    /\ lo' = 0 /\ hi' = NumCaches - 1
    /\ UNCHANGED <<slots, mem, cacheOn, policy, request, out, ret, mode, arg, cur,
                   probe, last, stackVars>>

-----------------------------------------------------------------------------
(* iso_cache_read                                                          *)

\* iso_cache_read returns: its locals and those of its callees are gone, the
\* caller's buffer and the returned value stay.
Return ==
    /\ pc' = "idle" /\ mode' = "probe"
    /\ request' = NoArg /\ arg' = NoArg /\ cur' = 0
    /\ probe' = 0 /\ last' = NoSlot /\ lo' = 0 /\ hi' = NumCaches - 1

BeginRead(r) ==
    /\ pc = "idle"
    /\ request' = r /\ arg' = r /\ cur' = r.pos
    /\ mode' = "probe"
    /\ out' = [i \in DOMAIN out |-> Junk]
    /\ \/ cacheOn /\ Lookup(r.pos, r.pos + r.len)
       \/ ~cacheOn /\ pc' = "bypass" /\ UNCHANGED lookupVars
    /\ UNCHANGED <<slots, mem, cacheOn, policy, ret, stackVars>>

\* The whole request was found in the slots.
ReadHit ==
    /\ pc = "hit" /\ mode = "probe"
    /\ ret' = probe - arg.pos
    /\ pc' = "post"
    /\ UNCHANGED <<slots, mem, cacheOn, policy, request, out, mode, arg, cur,
                   lookupVars, stackVars>>

\* Too small to be worth a slot: iso_read serves it.
ReadSmall ==
    /\ pc = "miss" /\ mode = "probe"
    /\ arg.len < Min2(Threshold, Cap)
    /\ pc' = "bypass"
    /\ UNCHANGED <<slots, mem, cacheOn, policy, request, out, ret, mode, arg, cur,
                   lookupVars, stackVars>>

\* add_cache(arg) looks the request up again from its first byte.
ReadMiss ==
    /\ pc = "miss" /\ mode = "probe"
    /\ arg.len >= Min2(Threshold, Cap)
    /\ mode' = "add"
    /\ Lookup(cur, End)
    /\ UNCHANGED <<slots, mem, cacheOn, policy, request, out, ret, arg, cur, stackVars>>

\* return iso_read(arg): the prefetch stack and the ages are not looked at.
Bypass ==
    LET n == Available(arg.pos, arg.len)
    IN  /\ pc = "bypass"
        /\ \/ /\ ret' = n
              /\ out' = [i \in DOMAIN out |-> IF i < n THEN arg.pos + i ELSE out[i]]
           \/ ret' = -1 /\ UNCHANGED out
        /\ Return
        /\ UNCHANGED <<slots, mem, cacheOn, policy, stackVars>>

-----------------------------------------------------------------------------
(* add_cache                                                               *)

\* Bug: the result of the prefetch becomes the result of the read.
AddCacheReturnAlways(r) ==
    /\ ret' = r
    /\ pc' = IF mode = "add" THEN "post" ELSE "age"
    /\ UNCHANGED lookupVars

\* return r, to iso_cache_read or to process_request.
AddCacheReturn(r) ==
    /\ \/ mode = "add" /\ ret' = r /\ pc' = "post"
       \/ mode = "prefetch" /\ ret' = ret /\ pc' = "age"
    /\ UNCHANGED lookupVars

\* The loop condition, with c the new value of cur.
AddCacheLoop(c) ==
    IF c < End THEN Lookup(c, End) /\ UNCHANGED ret ELSE AddCacheReturn(c - arg.pos)

AddCacheHit ==
    /\ pc = "hit" /\ mode \in {"add", "prefetch"}
    /\ cur' = probe
    /\ AddCacheReturn(probe - arg.pos)
    /\ UNCHANGED <<slots, mem, cacheOn, policy, request, out, mode, arg, stackVars>>

AddCacheMiss ==
    /\ pc = "miss" /\ mode \in {"add", "prefetch"}
    /\ cur' = IF last = NoSlot THEN cur ELSE SlotEnd(slots[last])
    /\ pc' = "fill"
    /\ UNCHANGED <<slots, mem, cacheOn, policy, request, out, ret, mode, arg,
                   lookupVars, stackVars>>

\* iso_read delivered bytes into the retired slot.
FillRead(s) ==
    LET offset == AlignDown(cur)
        n == Available(offset, Cap)
        b == slots[s].buf
        new == [buf |-> b, bufsize |-> n, pos |-> offset, age |-> -1]
        content == [k \in 0 .. Cap - 1 |-> IF k < n THEN offset + k ELSE mem[b][k]]
        read_len == CopyLen(new, cur)
    IN  /\ pc = "fill" /\ Retiring(s) /\ n > 0
        /\ mem' = [mem EXCEPT ![b] = content]
        /\ out' = Copy(new, content, cur, read_len)
        /\ cur' = cur + read_len
        /\ Reorder([slots EXCEPT ![s] = new], s)
        /\ AddCacheLoop(cur + read_len)
        /\ UNCHANGED <<cacheOn, policy, request, mode, arg, stackVars>>

\* Bug: the loop goes on at the end of the file.
FillEofContinue(s) ==
    /\ pc = "fill" /\ Retiring(s) /\ Available(AlignDown(cur), Cap) = 0
    /\ Reorder([slots EXCEPT ![s] = Disabled(@)], s)
    /\ AddCacheLoop(cur)
    /\ UNCHANGED <<mem, cacheOn, policy, request, out, mode, arg, cur, stackVars>>

\* End of file: leave the loop.
FillEof(s) ==
    /\ pc = "fill" /\ Retiring(s) /\ Available(AlignDown(cur), Cap) = 0
    /\ Reorder([slots EXCEPT ![s] = Disabled(@)], s)
    /\ AddCacheReturn(cur - arg.pos)
    /\ UNCHANGED <<mem, cacheOn, policy, request, out, mode, arg, cur, stackVars>>

\* iso_read failed; the buffer may hold anything.
FillError(s) ==
    /\ pc = "fill" /\ Retiring(s)
    /\ mem' = [mem EXCEPT ![slots[s].buf] = [k \in 0 .. Cap - 1 |-> Junk]]
    /\ Reorder([slots EXCEPT ![s] = Disabled(@)], s)
    /\ AddCacheReturn(-1)
    /\ UNCHANGED <<cacheOn, policy, request, out, mode, arg, cur, stackVars>>

-----------------------------------------------------------------------------
(* process_request and update_cache_info, at the end of iso_cache_read     *)

NoPrefetch ==
    /\ pc = "post" /\ reqIdx <= 0
    /\ pc' = "age"
    /\ UNCHANGED <<slots, mem, cacheOn, policy, request, out, ret, mode, arg, cur,
                   lookupVars, stackVars>>

LoadRequestIdx ==
    /\ pc = "post" /\ reqIdx > 0
    /\ popIdx' = reqIdx - 1
    /\ pc' = "take"
    /\ UNCHANGED <<slots, mem, cacheOn, policy, request, out, ret, mode, arg, cur,
                   lookupVars, reqs, reqIdx, adder>>

TakeRequest ==
    LET r == reqs[popIdx]
    IN  /\ pc = "take"
        /\ reqIdx' = popIdx
        /\ mode' = "prefetch" /\ arg' = r /\ cur' = r.pos
        /\ \/ r.len > 0 /\ Lookup(r.pos, r.pos + r.len)
           \/ r.len = 0 /\ pc' = "age" /\ UNCHANGED lookupVars
        /\ popIdx' = 0
        /\ UNCHANGED <<slots, mem, cacheOn, policy, request, out, ret, reqs, adder>>

UpdateCacheInfo ==
    /\ pc = "age"
    /\ Return
    /\ slots' = IF policy # "LRU" THEN slots
                ELSE [i \in Slot |->
                        IF slots[i].pos # Invalid /\ slots[i].age < MaxAge
                        THEN [slots[i] EXCEPT !.age = @ + 1] ELSE slots[i]]
    /\ UNCHANGED <<mem, cacheOn, policy, out, ret, stackVars>>

-----------------------------------------------------------------------------
(* infernoCacheAdd, called without a lock, and infernoCacheSetPolicy       *)

\* The bound on the stack is checked on the value loaded here ...
LoadAddIdx(a, r) ==
    /\ cacheOn
    /\ adder[a].idx = -1
    /\ reqIdx < NrCacheReq
    /\ adder' = [adder EXCEPT ![a] = [idx |-> reqIdx, req |-> r]]
    /\ UNCHANGED <<slots, mem, cacheOn, policy, request, out, ret, pc, mode, arg,
                   cur, lookupVars, reqs, reqIdx, popIdx>>

\* ... and used here, whatever process_request did in between.
StoreRequest(a) ==
    /\ adder[a].idx # -1
    /\ reqs' = [reqs EXCEPT ![adder[a].idx] = adder[a].req]
    /\ reqIdx' = adder[a].idx + 1
    /\ adder' = [adder EXCEPT ![a] = [idx |-> -1, req |-> NoArg]]
    /\ UNCHANGED <<slots, mem, cacheOn, policy, request, out, ret, pc, mode, arg,
                   cur, lookupVars, popIdx>>

SetPolicy(p) ==
    /\ policy' = p
    /\ UNCHANGED <<slots, mem, cacheOn, request, out, ret, pc, mode, arg, cur,
                   lookupVars, stackVars>>

-----------------------------------------------------------------------------

Search == SearchLeft \/ SearchRight \/ SearchHit \/ SearchFail

Fill == \E s \in Slot : FillRead(s) \/ FillEof(s) \/ FillError(s)

\* The steps of the thread that is inside iso_cache_read.
ReaderStep ==
    \/ Search
    \/ ReadHit \/ ReadSmall \/ ReadMiss \/ Bypass
    \/ AddCacheHit \/ AddCacheMiss \/ Fill
    \/ NoPrefetch \/ LoadRequestIdx \/ TakeRequest \/ UpdateCacheInfo

AdderStep(a) == StoreRequest(a) \/ \E r \in Prefetches : LoadAddIdx(a, r)

Next ==
    \/ ReaderStep
    \/ \E r \in Requests : BeginRead(r)
    \/ \E a \in Adders : AdderStep(a)
    \/ \E p \in {"LRU", "RR"} : SetPolicy(p)

Spec == Init /\ [][Next]_vars

\* The thread in iso_cache_read is not suspended for ever; callers and games
\* may stop asking.
FairSpec == Spec /\ WF_vars(ReaderStep)

-----------------------------------------------------------------------------
(* Properties                                                              *)

\* The type invariant.
TypeOK ==
    /\ slots \in [Slot -> CacheSlot]
    /\ mem \in [Buffer -> [0 .. Cap - 1 -> Int]]
    /\ cacheOn \in BOOLEAN /\ policy \in {"LRU", "RR"}
    /\ request \in Request /\ arg \in Request
    /\ out \in [0 .. MaxLen - 1 -> Int]
    /\ ret \in Int
    /\ pc \in {"idle", "search", "hit", "miss", "bypass", "fill", "post", "take", "age"}
    /\ mode \in {"probe", "add", "prefetch"}
    /\ cur \in Nat /\ probe \in Nat
    /\ last \in Slot \cup {NoSlot}
    /\ lo \in 0 .. NumCaches /\ hi \in -1 .. NumCaches - 1
    /\ reqs \in [0 .. NrCacheReq - 1 -> Request]
    /\ reqIdx \in 0 .. NrCacheReq /\ popIdx \in 0 .. NrCacheReq - 1
    /\ adder \in [Adders -> [idx : -1 .. NrCacheReq - 1, req : Request]]

\* reorder_iso_cache keeps what binary_search relies on: used slots first, in
\* strictly increasing positions (no piece of the image is cached twice from the
\* same position), and every slot with a buffer of its own.
Sorted(f) ==
    \A i, j \in Slot : i < j =>
        /\ f[i].pos < f[j].pos \/ f[j].pos = Invalid
        /\ f[i].buf # f[j].buf

SlotsSorted == Sorted(slots)

\* A used slot holds bytes of the image from its position on, as many as fit or
\* as there are.
SlotsCoherent ==
    \A i \in Slot : slots[i].pos # Invalid =>
        /\ slots[i].bufsize = Available(slots[i].pos, Cap) /\ slots[i].bufsize > 0
        /\ \A k \in 0 .. slots[i].bufsize - 1 : mem[slots[i].buf][k] = slots[i].pos + k

\* binary_search misses only what no slot holds: a byte that is in the cache is
\* never read from the memory stick a second time.
SearchComplete ==
    pc = "miss" /\ probe < End => \A i \in Slot : ~Covers(slots[i], probe)

\* The assertion of add_cache ("error pos", asm("break")) is never reached: a
\* lookup that misses has stopped at the end of its last slot, inside the request.
NoErrorPos ==
    pc = "miss" /\ mode # "probe" /\ last # NoSlot => SlotEnd(slots[last]) < End

\* Every answer carries the bytes of the image, or is an error.
Disc == INSTANCE IsoDisc WITH
    asked <- IF pc = "idle" THEN [pos |-> 0, len |-> -1] ELSE request,
    reply <- IF pc # "idle" THEN [pos |-> 0, len |-> -1]
             ELSE [ret |-> ret, data |-> [i \in 0 .. ret - 1 |-> out[i]]]

DiscSpec == Disc!Spec

\* A read that was started returns, with its prefetch served and the slots aged.
ReadReturns == pc # "idle" ~> pc = "idle"

\* The comment of add_cache, "EOF reached, time to exit": once it has come to
\* the end of the image it leaves its loop.
EofEndsRead == pc = "fill" /\ cur >= IsoSize ~> pc \in {"post", "age", "idle"}

-----------------------------------------------------------------------------
(* The inductive invariant behind these properties, for an image of whole  *)
(* blocks: CISO images are, and ISO images are whole sectors.              *)

WholeBlocks == IsoSize % Align = 0

\* No argument that is around reaches the u32 limit.
ArgsBounded ==
    /\ arg.pos + arg.len < Invalid
    /\ \A i \in 0 .. NrCacheReq - 1 : reqs[i].pos + reqs[i].len < Invalid
    /\ \A a \in Adders : adder[a].req.pos + adder[a].req.len < Invalid

\* The caller's buffer is right up to position p of the image.
CopiedTo(p) ==
    mode # "prefetch" =>
        arg = request /\ \A i \in 0 .. MaxLen - 1 : arg.pos + i < p => out[i] = arg.pos + i

\* A position the loops have advanced to lies inside the image.
Reached(p) == arg.pos <= p /\ p <= End /\ (p = arg.pos \/ p <= IsoSize)

LookupInv ==
    pc \in {"search", "hit", "miss"} =>
        /\ Reached(cur) /\ Reached(probe) /\ cur <= probe
        /\ mode = "probe" => cur = arg.pos
        /\ IF last = NoSlot THEN probe = cur
           ELSE slots[last].pos # Invalid /\ (probe = End \/ SlotEnd(slots[last]) = probe)
        /\ CopiedTo(probe)
        /\ pc = "search" => probe < End
        /\ pc = "hit" => probe = End
        /\ pc = "miss" => probe < End \/ (mode = "probe" /\ arg.len = 0)

\* A slot that covers the position looked for is still between low and high.
SearchInv ==
    pc = "search" => \A i \in Slot : Covers(slots[i], probe) => lo <= i /\ i <= hi

FillInv ==
    pc = "fill" =>
        /\ mode # "probe" /\ Reached(cur) /\ cur < End /\ CopiedTo(cur)
        /\ \A i \in Slot : ~Covers(slots[i], cur)

BypassInv == pc = "bypass" => arg = request

\* What iso_cache_read returns is settled before the prefetch begins.
AnswerInv ==
    pc \in {"post", "take", "age"} \/ mode = "prefetch" =>
        \/ ret = -1
        \/ /\ ret = Available(request.pos, request.len)
           /\ \A i \in 0 .. ret - 1 : out[i] = request.pos + i

IInv ==
    /\ TypeOK /\ ArgsBounded
    /\ SlotsSorted /\ SlotsCoherent
    /\ LookupInv /\ SearchInv /\ SearchComplete /\ FillInv /\ BypassInv /\ AnswerInv
=============================================================================
