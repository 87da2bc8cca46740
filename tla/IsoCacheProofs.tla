--------------------------- MODULE IsoCacheProofs ---------------------------
(***************************************************************************)
(* Proofs about IsoCache: for every image made of whole blocks, every      *)
(* number and size of slots, every request and every thread that adds      *)
(* prefetches, the slots stay sorted and coherent, binary_search finds     *)
(* what is cached and the "error pos" assertion holds.                     *)
(***************************************************************************)
EXTENDS IsoCache, TLAPS

-----------------------------------------------------------------------------
(* Lemmas about the operators                                              *)

\* cur & ~63 goes back less than a block, and not past the end of the image
\* to a block that has no byte.
LEMMA AlignFacts ==
    ASSUME NEW p \in Nat
    PROVE  /\ AlignDown(p) \in Nat /\ AlignDown(p) <= p /\ p < AlignDown(p) + Align
           /\ WholeBlocks /\ AlignDown(p) < IsoSize => p < IsoSize
<1> DEFINE q == p \div Align
           m == IsoSize \div Align
<1>1. Align \in Nat \ {0} /\ IsoSize \in Nat
  BY SizesAssumption
<1>2. q \in Nat /\ p = q * Align + (p % Align) /\ p % Align \in 0 .. Align - 1
  BY <1>1
<1>3. q * Align \in Nat /\ q * Align <= p /\ p < q * Align + Align
  BY <1>1, <1>2
<1>4. ASSUME WholeBlocks, q * Align < IsoSize
      PROVE  p < IsoSize
  <2>1. m \in Nat /\ IsoSize = m * Align
    BY <1>1, <1>4 DEF WholeBlocks
  <2>2. q < m
    BY <1>1, <1>2, <1>4, <2>1
  <2>3. q * Align + Align <= m * Align
    BY <1>1, <1>2, <2>1, <2>2
  <2> QED
    BY <1>1, <1>3, <2>1, <2>3
<1> QED
  BY <1>3, <1>4 DEF AlignDown

\* A slot is at least one block.
LEMMA AlignLeqCap == Align <= Cap
  BY SizesAssumption

\* What iso_read can deliver.
LEMMA AvailableFacts ==
    ASSUME NEW p \in Nat, NEW n \in Nat
    PROVE  /\ Available(p, n) \in 0 .. n
           /\ Available(p, n) > 0 => p + Available(p, n) <= IsoSize
           /\ p < IsoSize /\ n > 0 => Available(p, n) > 0
           /\ p + n <= IsoSize => Available(p, n) = n
  BY SizesAssumption DEF Available, Min2

\* Slots filled from increasing positions end at non-decreasing positions.
LEMMA EndsMonotone ==
    ASSUME NEW p \in Nat, NEW q \in Nat, p <= q, q < IsoSize
    PROVE  p + Available(p, Cap) <= q + Available(q, Cap)
  BY SizesAssumption DEF Available, Min2

\* reorder_iso_cache: the slots are the same, slot s may have moved, and if only
\* slot s was out of order the array is sorted again.
LEMMA MovedFacts ==
    ASSUME NEW f \in [Slot -> CacheSlot], NEW s \in Slot, NEW at \in Slot,
           InsertAt(f, s, at)
    PROVE  /\ Moved(f, s, at) \in [Slot -> CacheSlot]
           /\ \A i \in Slot : \E j \in Slot : Moved(f, s, at)[i] = f[j]
           /\ /\ \A i, j \in Slot :
                    i < j => /\ f[i].buf # f[j].buf
                             /\ i # s /\ j # s => f[i].pos < f[j].pos \/ f[j].pos = Invalid
              /\ \A i \in Slot \ {s} : f[i].pos # f[s].pos \/ f[s].pos = Invalid
              => Sorted(Moved(f, s, at))
<1> DEFINE src(i) == IF i < at THEN IF i < s THEN i ELSE i + 1
                     ELSE IF i = at THEN s ELSE IF i - 1 < s THEN i - 1 ELSE i
           g == Moved(f, s, at)
<1>1. NumCaches \in Nat \ {0} /\ Slot = 0 .. NumCaches - 1
  BY SizesAssumption DEF Slot
<1>2. \A i \in Slot : src(i) \in Slot /\ g[i] = f[src(i)]
  BY <1>1 DEF Moved, Closed
<1>3. \A i, j \in Slot : i # j => src(i) # src(j)
  BY <1>1
<1>4. g \in [Slot -> CacheSlot]
  BY <1>2 DEF Moved
<1>5. ASSUME \A i, j \in Slot :
                i < j => /\ f[i].buf # f[j].buf
                         /\ i # s /\ j # s => f[i].pos < f[j].pos \/ f[j].pos = Invalid,
             \A i \in Slot \ {s} : f[i].pos # f[s].pos \/ f[s].pos = Invalid
      PROVE  Sorted(g)
  <2> HIDE DEF g
  <2> SUFFICES ASSUME NEW i \in Slot, NEW j \in Slot, i < j
               PROVE  /\ g[i].pos < g[j].pos \/ g[j].pos = Invalid
                      /\ g[i].buf # g[j].buf
    BY DEF Sorted
  <2>1. /\ f[src(i)].pos \in 0 .. Invalid /\ f[src(j)].pos \in 0 .. Invalid
        /\ f[s].pos \in 0 .. Invalid /\ Invalid \in Nat
    BY <1>2, SizesAssumption DEF CacheSlot
  <2>2. g[i].buf # g[j].buf
    <3>1. src(i) \in Slot /\ src(j) \in Slot /\ g[i] = f[src(i)] /\ g[j] = f[src(j)]
      BY <1>2
    <3>2. src(i) < src(j) \/ src(j) < src(i)
      BY <1>1, <1>3, <3>1
    <3> HIDE DEF src
    <3> QED
      BY <1>5, <3>1, <3>2
  <2>3. CASE i # at /\ j # at
    <3>1. src(i) # s /\ src(j) # s /\ src(i) < src(j)
      BY <1>1, <2>3
    <3> QED
      BY <1>2, <1>5, <2>2, <3>1
  <2>4. CASE j = at
    <3>1. Closed(f, s)[i] = f[src(i)] /\ src(j) = s /\ i \in 0 .. at - 1
      BY <1>1, <2>4 DEF Closed
    <3> QED
      BY <1>2, <2>2, <2>4, <3>1 DEF InsertAt
  <2>5. CASE i = at
    <3> DEFINE n == IF at < s THEN at ELSE at + 1
    <3>1. /\ src(i) = s /\ n \in Slot \ {s} /\ n <= src(j) /\ src(j) # s
          /\ at < NumCaches - 1 /\ Closed(f, s)[at] = f[n]
      BY <1>1, <2>5 DEF Closed
    <3>2. f[n].pos >= f[s].pos /\ f[n].pos \in 0 .. Invalid
      BY <3>1 DEF InsertAt, CacheSlot
    <3>3. n < src(j) => f[n].pos < f[src(j)].pos \/ f[src(j)].pos = Invalid
      BY <1>2, <1>5, <3>1
    <3>4. f[n].pos # f[s].pos \/ f[s].pos = Invalid
      BY <1>5, <3>1
    <3> HIDE DEF n
    <3>5. n = src(j) \/ n < src(j)
      BY <1>1, <1>2, <3>1
    <3> QED
      BY <1>2, <2>1, <2>2, <3>1, <3>2, <3>3, <3>4, <3>5
  <2> QED
    BY <2>3, <2>4, <2>5
<1> QED
  BY <1>2, <1>4, <1>5

\* binary_search looks at a slot between low and high.
LEMMA MidFacts ==
    ASSUME TypeOK, lo <= hi
    PROVE  Mid \in Slot /\ lo <= Mid /\ Mid <= hi
<1>1. NumCaches \in Nat /\ lo \in Int /\ hi \in Int /\ 0 <= lo /\ hi <= NumCaches - 1
  BY SizesAssumption DEF TypeOK
<1> QED
  BY <1>1 DEF Mid, Slot

\* The fields of a slot.
LEMMA SlotFields ==
    ASSUME TypeOK, NEW i \in Slot
    PROVE  /\ slots[i] \in CacheSlot /\ slots[i].pos \in Nat
           /\ slots[i].bufsize \in Nat /\ slots[i].buf \in Buffer
  BY SizesAssumption DEF TypeOK, CacheSlot

\* A used slot holds as many bytes as there are, and ends inside the image.
LEMMA UsedSlot ==
    ASSUME TypeOK, SlotsCoherent, NEW i \in Slot, slots[i].pos # Invalid
    PROVE  /\ slots[i] \in CacheSlot /\ slots[i].pos \in Nat /\ slots[i].pos < IsoSize
           /\ slots[i].bufsize \in 1 .. Cap
           /\ SlotEnd(slots[i]) = slots[i].pos + Available(slots[i].pos, Cap)
           /\ SlotEnd(slots[i]) \in Nat /\ SlotEnd(slots[i]) <= IsoSize
<1>1. slots[i] \in CacheSlot /\ slots[i].pos \in Nat /\ slots[i].bufsize \in 0 .. Cap
  BY SizesAssumption DEF TypeOK, CacheSlot
<1>2. slots[i].bufsize = Available(slots[i].pos, Cap) /\ slots[i].bufsize > 0
  BY DEF SlotsCoherent
<1> QED
  BY <1>1, <1>2, SizesAssumption DEF SlotEnd, Available, Min2

\* The length of a copy, when the slot covers the position it starts at.
LEMMA CopyLenFacts ==
    ASSUME NEW s \in CacheSlot, NEW p \in Nat, p < SlotEnd(s), p < End, arg \in Request
    PROVE  /\ CopyLen(s, p) \in Nat /\ CopyLen(s, p) > 0
           /\ p + CopyLen(s, p) <= End /\ p + CopyLen(s, p) <= SlotEnd(s)
           /\ p + CopyLen(s, p) = End \/ p + CopyLen(s, p) = SlotEnd(s)
<1>1. SlotEnd(s) \in Int /\ End \in Int
  BY SizesAssumption DEF SlotEnd, CacheSlot, End, Request
<1> QED
  BY <1>1 DEF CopyLen, Min2

-----------------------------------------------------------------------------
(* The invariant holds initially and is preserved by every step            *)

\* The invariant at the start of the driver.
LEMMA InitIInv == Init => IInv
<1> SUFFICES ASSUME Init PROVE IInv
  OBVIOUS
<1>1. TypeOK
  BY SizesAssumption DEF Init, TypeOK, Slot, Buffer, NoSlot, Junk, NoArg, Request, CacheSlot
<1>2. ArgsBounded
  BY SizesAssumption DEF Init, ArgsBounded, NoArg
<1>3. SlotsSorted /\ SlotsCoherent
  BY SizesAssumption DEF Init, SlotsSorted, Sorted, SlotsCoherent, Slot
<1>4. LookupInv /\ SearchInv /\ SearchComplete /\ FillInv /\ BypassInv /\ AnswerInv
  BY DEF Init, LookupInv, SearchInv, SearchComplete, FillInv, BypassInv, AnswerInv
<1> QED
  BY <1>1, <1>2, <1>3, <1>4 DEF IInv

\* The search goes left: what is cached is not on the right.
LEMMA SearchLeftStep == IInv /\ SearchLeft => IInv'
<1> SUFFICES ASSUME IInv, SearchLeft PROVE IInv'
  OBVIOUS
<1> USE DEF IInv
<1>0. Mid \in Slot /\ lo <= Mid /\ Mid <= hi
  BY MidFacts DEF SearchLeft
<1>1. TypeOK'
  BY <1>0, SizesAssumption DEF SearchLeft, TypeOK, Slot, stackVars
<1>2. SearchInv'
  <2> SUFFICES ASSUME NEW i \in Slot, Covers(slots[i], probe)
               PROVE  lo <= i /\ i <= Mid - 1
    BY DEF SearchLeft, SearchInv
  <2>1. lo <= i /\ i <= hi /\ probe < slots[Mid].pos
    BY DEF SearchLeft, SearchInv
  <2>2. ~(Mid < i)
    <3>1. slots[i].pos # Invalid /\ slots[i].pos <= probe
      BY DEF Covers
    <3>2. slots[i].pos \in Nat /\ slots[Mid].pos \in Nat /\ probe \in Nat
      BY <1>0, SlotFields DEF TypeOK
    <3> QED
      BY <1>0, <2>1, <3>1, <3>2 DEF SlotsSorted, Sorted
  <2>3. i # Mid
    BY <1>0, <2>1, SizesAssumption DEF Covers, TypeOK, CacheSlot
  <2> QED
    BY <1>0, <2>1, <2>2, <2>3 DEF Slot
<1>3. ArgsBounded' /\ SlotsSorted' /\ SlotsCoherent'
  BY DEF SearchLeft, ArgsBounded, SlotsSorted, Sorted, SlotsCoherent, stackVars
<1>4. LookupInv'
  BY DEF SearchLeft, LookupInv, Reached, CopiedTo, End
<1>5. SearchComplete' /\ FillInv' /\ BypassInv' /\ AnswerInv'
  BY DEF SearchLeft, SearchComplete, FillInv, BypassInv, AnswerInv
<1> QED
  BY <1>1, <1>2, <1>3, <1>4, <1>5

\* The search goes right: what is cached is not on the left.
LEMMA SearchRightStep == IInv /\ SearchRight => IInv'
<1> SUFFICES ASSUME IInv, SearchRight PROVE IInv'
  OBVIOUS
<1> USE DEF IInv
<1>0. Mid \in Slot /\ lo <= Mid /\ Mid <= hi
  BY MidFacts DEF SearchRight
<1>1. TypeOK'
  BY <1>0, SizesAssumption DEF SearchRight, TypeOK, Slot, stackVars
<1>2. SearchInv'
  <2> SUFFICES ASSUME NEW i \in Slot, Covers(slots[i], probe)
               PROVE  Mid + 1 <= i /\ i <= hi
    BY DEF SearchRight, SearchInv
  <2>1. lo <= i /\ i <= hi /\ ~Covers(slots[Mid], probe) /\ probe >= slots[Mid].pos
    BY DEF SearchRight, SearchInv
  <2>2. slots[i].pos # Invalid /\ slots[i].pos <= probe /\ probe < SlotEnd(slots[i])
    BY DEF Covers
  <2>3. slots[Mid].pos # Invalid
    <3>1. probe < IsoSize
      BY <2>2, UsedSlot, SizesAssumption DEF TypeOK
    <3> QED
      BY <2>1, <3>1, SizesAssumption DEF TypeOK
  <2>4. SlotEnd(slots[Mid]) <= probe
    BY <1>0, <2>1, <2>3, UsedSlot DEF Covers, TypeOK
  <2>5. ~(i < Mid)
    <3> SUFFICES ASSUME i < Mid PROVE FALSE
      OBVIOUS
    <3>1. slots[i].pos < slots[Mid].pos
      BY <1>0, <2>3 DEF SlotsSorted, Sorted
    <3>2. SlotEnd(slots[i]) <= SlotEnd(slots[Mid])
      BY <1>0, <2>2, <2>3, <3>1, UsedSlot, EndsMonotone
    <3> QED
      BY <1>0, <2>2, <2>3, <2>4, <3>2, UsedSlot DEF TypeOK
  <2>6. i # Mid
    BY <2>1
  <2> QED
    BY <1>0, <2>1, <2>5, <2>6 DEF Slot
<1>3. ArgsBounded' /\ SlotsSorted' /\ SlotsCoherent'
  BY DEF SearchRight, ArgsBounded, SlotsSorted, Sorted, SlotsCoherent, stackVars
<1>4. LookupInv'
  BY DEF SearchRight, LookupInv, Reached, CopiedTo, End
<1>5. SearchComplete' /\ FillInv' /\ BypassInv' /\ AnswerInv'
  BY DEF SearchRight, SearchComplete, FillInv, BypassInv, AnswerInv
<1> QED
  BY <1>1, <1>2, <1>3, <1>4, <1>5

\* The search ends with nothing in between: no slot covers the position.
LEMMA SearchFailStep == IInv /\ SearchFail => IInv'
<1> SUFFICES ASSUME IInv, SearchFail PROVE IInv'
  OBVIOUS
<1> USE DEF IInv
<1>1. TypeOK'
  BY SizesAssumption DEF SearchFail, TypeOK, Slot, stackVars
<1>2. SearchComplete'
  BY DEF SearchFail, SearchComplete, SearchInv, TypeOK, Slot
<1>3. ArgsBounded' /\ SlotsSorted' /\ SlotsCoherent'
  BY DEF SearchFail, ArgsBounded, SlotsSorted, Sorted, SlotsCoherent, stackVars
<1>4. LookupInv'
  BY DEF SearchFail, LookupInv, Reached, CopiedTo, End
<1>5. SearchInv' /\ FillInv' /\ BypassInv' /\ AnswerInv'
  BY DEF SearchFail, SearchInv, FillInv, BypassInv, AnswerInv
<1> QED
  BY <1>1, <1>2, <1>3, <1>4, <1>5

\* Copying from a coherent slot extends what is right in the caller's buffer; a
\* prefetch copies nothing.
LEMMA CopyFacts ==
    ASSUME TypeOK, NEW s \in CacheSlot, NEW content \in [0 .. Cap - 1 -> Int],
           NEW p \in Nat, NEW n \in Nat
    PROVE  /\ Copy(s, content, p, n) \in [0 .. MaxLen - 1 -> Int]
           /\ mode = "prefetch" => Copy(s, content, p, n) = out
           /\ /\ s.pos <= p /\ p + n <= SlotEnd(s)
              /\ \A k \in 0 .. s.bufsize - 1 : content[k] = s.pos + k
              /\ CopiedTo(p) /\ mode # "prefetch"
              => \A i \in 0 .. MaxLen - 1 :
                    arg.pos + i < p + n => Copy(s, content, p, n)[i] = arg.pos + i
<1>1. /\ s.pos \in Nat /\ s.bufsize \in 0 .. Cap /\ Cap \in Nat /\ arg.pos \in Nat
      /\ MaxLen \in Nat /\ out \in [0 .. MaxLen - 1 -> Int] /\ DOMAIN out = 0 .. MaxLen - 1
  BY SizesAssumption DEF TypeOK, CacheSlot, Request
<1>2. Copy(s, content, p, n) \in [0 .. MaxLen - 1 -> Int]
  BY <1>1 DEF Copy, Junk
<1>3. ASSUME mode = "prefetch" PROVE Copy(s, content, p, n) = out
  BY <1>1, <1>3 DEF Copy
<1>4. ASSUME s.pos <= p, p + n <= SlotEnd(s), CopiedTo(p), mode # "prefetch",
             \A k \in 0 .. s.bufsize - 1 : content[k] = s.pos + k,
             NEW i \in 0 .. MaxLen - 1, arg.pos + i < p + n
      PROVE  Copy(s, content, p, n)[i] = arg.pos + i
  <2>1. CASE arg.pos + i < p
    <3>1. out[i] = arg.pos + i
      BY <1>4, <2>1 DEF CopiedTo
    <3> QED
      BY <1>1, <2>1, <3>1 DEF Copy
  <2>2. CASE arg.pos + i >= p
    <3> DEFINE k == arg.pos + i - s.pos
    <3>1. /\ i \in Nat /\ i < MaxLen /\ p + n <= s.pos + s.bufsize
          /\ s.pos <= p /\ p <= arg.pos + i /\ arg.pos + i < p + n
      BY <1>1, <1>4, <2>2 DEF SlotEnd
    <3>2. k \in 0 .. s.bufsize - 1 /\ k \in 0 .. Cap - 1 /\ s.pos + k = arg.pos + i
      <4>1. k \in Int
        BY <1>1, <3>1
      <4>2. s.pos + k = arg.pos + i
        BY <1>1, <3>1
      <4>3. 0 <= k
        BY <1>1, <3>1
      <4>4. k < s.bufsize
        BY <1>1, <3>1
      <4> QED
        BY <1>1, <4>1, <4>2, <4>3, <4>4
    <3>3. content[k] = s.pos + k
      BY <1>4, <3>2
    <3> QED
      BY <1>1, <1>4, <2>2, <3>2, <3>3 DEF Copy
  <2> QED
    BY <1>1, <2>1, <2>2
<1> QED
  BY <1>2, <1>3, <1>4

\* A hit copies bytes of the image and goes on behind the slot.
LEMMA SearchHitStep == IInv /\ SearchHit => IInv'
<1> SUFFICES ASSUME IInv, SearchHit PROVE IInv'
  OBVIOUS
<1> USE DEF IInv
<1> DEFINE s == slots[Mid]
           n == CopyLen(s, probe)
<1>0. Mid \in Slot
  BY MidFacts DEF SearchHit
<1>1. /\ s \in CacheSlot /\ s.pos # Invalid /\ s.pos \in Nat /\ s.pos <= probe
      /\ probe < SlotEnd(s) /\ SlotEnd(s) <= IsoSize /\ SlotEnd(s) \in Nat
      /\ s.buf \in Buffer /\ mem[s.buf] \in [0 .. Cap - 1 -> Int]
  BY <1>0, UsedSlot, SlotFields DEF SearchHit, Covers, TypeOK
<1>2. /\ arg \in Request /\ arg.pos \in Nat /\ arg.len \in Nat /\ probe \in Nat
      /\ probe < End /\ Reached(cur) /\ Reached(probe) /\ cur <= probe /\ CopiedTo(probe)
      /\ mode = "probe" => cur = arg.pos
  BY SizesAssumption DEF SearchHit, LookupInv, TypeOK, Request
<1>3. /\ n \in Nat /\ n > 0 /\ probe + n <= End /\ probe + n <= SlotEnd(s)
      /\ probe + n = End \/ probe + n = SlotEnd(s)
  BY <1>1, <1>2, CopyLenFacts
<1>4. /\ slots' \in [Slot -> CacheSlot]
      /\ \A i \in Slot : /\ slots'[i].pos = slots[i].pos
                         /\ slots'[i].bufsize = slots[i].bufsize
                         /\ slots'[i].buf = slots[i].buf
  <2>1. slots \in [Slot -> CacheSlot] /\ slots' = [slots EXCEPT ![Mid].age = -1]
    BY DEF SearchHit, TypeOK
  <2>2. -1 \in -1 .. MaxAge
    BY SizesAssumption
  <2> HIDE DEF Mid
  <2> QED
    BY <1>0, <2>1, <2>2 DEF CacheSlot
<1>5. /\ out' \in [0 .. MaxLen - 1 -> Int]
      /\ mode = "prefetch" => out' = out
      /\ mode # "prefetch" => \A i \in 0 .. MaxLen - 1 :
             arg.pos + i < probe + n => out'[i] = arg.pos + i
  <2>1. out' = Copy(s, mem[s.buf], probe, n)
    BY DEF SearchHit
  <2>2. \A k \in 0 .. s.bufsize - 1 : mem[s.buf][k] = s.pos + k
    BY <1>0, <1>1 DEF SlotsCoherent
  <2>3. TypeOK
    OBVIOUS
  <2> HIDE DEF s, n, IInv
  <2>4. /\ Copy(s, mem[s.buf], probe, n) \in [0 .. MaxLen - 1 -> Int]
        /\ mode = "prefetch" => Copy(s, mem[s.buf], probe, n) = out
        /\ mode # "prefetch" => \A i \in 0 .. MaxLen - 1 :
             arg.pos + i < probe + n => Copy(s, mem[s.buf], probe, n)[i] = arg.pos + i
    BY <1>1, <1>2, <1>3, <2>2, <2>3, CopyFacts
  <2> QED
    BY <2>1, <2>4
<1>6. TypeOK'
  <2>1. probe' \in Nat /\ last' \in Slot /\ lo' = 0 /\ hi' = NumCaches - 1
    BY <1>0, <1>2, <1>3 DEF SearchHit
  <2>2. pc' \in {"hit", "search"}
    BY DEF SearchHit
  <2>3. UNCHANGED <<mem, cacheOn, policy, request, ret, mode, arg, cur, reqs, reqIdx,
                    popIdx, adder>>
    BY DEF SearchHit, stackVars
  <2>4. 0 \in 0 .. NumCaches /\ NumCaches - 1 \in -1 .. NumCaches - 1
    BY SizesAssumption
  <2> HIDE DEF Mid
  <2> QED
    BY <1>4, <1>5, <2>1, <2>2, <2>3, <2>4 DEF TypeOK
<1>7. ArgsBounded'
  BY DEF SearchHit, ArgsBounded, stackVars
<1>8. SlotsSorted' /\ SlotsCoherent'
  BY <1>4 DEF SearchHit, SlotsSorted, Sorted, SlotsCoherent
<1>9. LookupInv'
  <2>1. /\ probe' = probe + n /\ last' = Mid /\ Mid # NoSlot
        /\ UNCHANGED <<arg, cur, mode, request>>
        /\ pc' = IF probe + n = End THEN "hit" ELSE "search"
    BY <1>0 DEF SearchHit, Slot, NoSlot
  <2>2. End' = End /\ End \in Nat /\ IsoSize \in Nat /\ cur \in Nat
    BY <1>2, <2>1, SizesAssumption DEF End, TypeOK
  <2>3. Reached(cur)' /\ Reached(probe)' /\ cur' <= probe'
    BY <1>1, <1>2, <1>3, <2>1, <2>2 DEF Reached
  <2>4. CopiedTo(probe)'
    BY <1>2, <1>5, <2>1 DEF CopiedTo
  <2>5. slots'[Mid].pos # Invalid /\ SlotEnd(slots'[Mid]) = SlotEnd(s)
    BY <1>0, <1>1, <1>4 DEF SlotEnd
  <2> QED
    BY <1>2, <1>3, <2>1, <2>2, <2>3, <2>4, <2>5 DEF LookupInv
<1>10. SearchInv'
  BY SizesAssumption DEF SearchHit, SearchInv, Slot
<1>11. SearchComplete' /\ FillInv' /\ BypassInv'
  BY DEF SearchHit, SearchComplete, FillInv, BypassInv
<1>12. AnswerInv'
  BY <1>5 DEF SearchHit, AnswerInv
<1> QED
  BY <1>6, <1>7, <1>8, <1>9, <1>10, <1>11, <1>12

\* The conjuncts about the slots survive a step that leaves the slots alone.
LEMMA SlotsKept ==
    ASSUME SlotsSorted, SlotsCoherent, UNCHANGED <<slots, mem>>
    PROVE  SlotsSorted' /\ SlotsCoherent'
  BY DEF SlotsSorted, Sorted, SlotsCoherent

\* get_hit_caches starts at a position the loops have reached.
LEMMA LookupStarts ==
    ASSUME TypeOK', NEW p \in Nat, Lookup(p, End'), cur' = p, Reached(cur)', CopiedTo(cur)',
           mode' = "probe" => p = arg'.pos, p < End' \/ (mode' = "probe" /\ arg'.len = 0)
    PROVE  LookupInv' /\ SearchInv' /\ SearchComplete' /\ FillInv' /\ BypassInv'
<1>1. /\ probe' = p /\ last' = NoSlot /\ lo' = 0 /\ hi' = NumCaches - 1
      /\ pc' = IF p < End' THEN "search" ELSE "miss"
  BY DEF Lookup
<1>2. LookupInv'
  BY <1>1 DEF LookupInv, Reached, CopiedTo
<1>3. SearchInv'
  BY <1>1, SizesAssumption DEF SearchInv, Slot
<1>4. SearchComplete' /\ FillInv' /\ BypassInv'
  BY <1>1 DEF SearchComplete, FillInv, BypassInv
<1> QED
  BY <1>2, <1>3, <1>4

\* A request begins with nothing handed out.
LEMMA BeginReadStep == ASSUME IInv, NEW r \in Requests, BeginRead(r) PROVE IInv'
<1> USE DEF IInv
<1>1. r \in Request /\ r.pos \in Nat /\ r.len \in Nat /\ r.pos + r.len < Invalid
  BY RequestsAssumption, SizesAssumption DEF Request
<1>2. /\ request' = r /\ arg' = r /\ cur' = r.pos /\ mode' = "probe" /\ End' = r.pos + r.len
      /\ UNCHANGED <<slots, mem, cacheOn, policy, ret, reqs, reqIdx, popIdx, adder>>
  BY DEF BeginRead, End, stackVars
<1>3. out' \in [0 .. MaxLen - 1 -> Int]
  BY DEF BeginRead, TypeOK, Junk
<1>4. ArgsBounded'
  BY <1>1, <1>2 DEF ArgsBounded
<1>5. SlotsSorted' /\ SlotsCoherent'
  BY <1>2, SlotsKept
<1>6. Reached(cur)' /\ CopiedTo(cur)'
  BY <1>1, <1>2, SizesAssumption DEF Reached, CopiedTo
<1>7. CASE cacheOn /\ Lookup(r.pos, r.pos + r.len)
  <2>1. TypeOK'
    BY <1>1, <1>2, <1>3, <1>7, SizesAssumption DEF TypeOK, Lookup, Slot, NoSlot
  <2>2. LookupInv' /\ SearchInv' /\ SearchComplete' /\ FillInv' /\ BypassInv'
    BY <1>1, <1>2, <1>6, <1>7, <2>1, LookupStarts
  <2>3. AnswerInv'
    BY <1>2, <1>7 DEF AnswerInv, Lookup
  <2> QED
    BY <1>4, <1>5, <2>1, <2>2, <2>3
<1>8. CASE pc' = "bypass" /\ UNCHANGED lookupVars
  <2>1. TypeOK'
    BY <1>1, <1>2, <1>3, <1>8 DEF TypeOK, lookupVars
  <2>2. LookupInv' /\ SearchInv' /\ SearchComplete' /\ FillInv' /\ BypassInv' /\ AnswerInv'
    BY <1>2, <1>8
       DEF LookupInv, SearchInv, SearchComplete, FillInv, BypassInv, AnswerInv
  <2> QED
    BY <1>4, <1>5, <2>1, <2>2
<1> QED
  BY <1>7, <1>8 DEF BeginRead

\* A request that was found whole is answered.
LEMMA ReadHitStep == IInv /\ ReadHit => IInv'
<1> SUFFICES ASSUME IInv, ReadHit PROVE IInv'
  OBVIOUS
<1> USE DEF IInv
<1>1. /\ pc = "hit" /\ mode = "probe" /\ ret' = probe - arg.pos /\ pc' = "post"
      /\ UNCHANGED <<slots, mem, cacheOn, policy, request, out, mode, arg, cur, probe,
                     last, lo, hi, reqs, reqIdx, popIdx, adder>>
  BY DEF ReadHit, lookupVars, stackVars
<1>2. /\ probe = End /\ Reached(probe) /\ arg = request
      /\ \A i \in 0 .. MaxLen - 1 : arg.pos + i < probe => out[i] = arg.pos + i
  BY <1>1 DEF LookupInv, CopiedTo
<1>3. arg.pos \in Nat /\ arg.len \in 0 .. MaxLen /\ probe \in Nat /\ MaxLen \in Nat
  BY SizesAssumption DEF TypeOK, Request
<1>4. ret' = arg.len /\ ret' = Available(request.pos, request.len)
  BY <1>1, <1>2, <1>3, SizesAssumption DEF End, Reached, Available, Min2
<1>5. \A i \in 0 .. ret' - 1 : out[i] = request.pos + i
  BY <1>1, <1>2, <1>3, <1>4 DEF End
<1>6. TypeOK'
  BY <1>1, <1>3, <1>4 DEF TypeOK
<1>7. ArgsBounded' /\ SlotsSorted' /\ SlotsCoherent'
  BY <1>1, SlotsKept DEF ArgsBounded
<1>8. LookupInv' /\ SearchInv' /\ SearchComplete' /\ FillInv' /\ BypassInv'
  BY <1>1 DEF LookupInv, SearchInv, SearchComplete, FillInv, BypassInv
<1>9. AnswerInv'
  BY <1>1, <1>4, <1>5 DEF AnswerInv, Available, Min2
<1> QED
  BY <1>6, <1>7, <1>8, <1>9

\* A short request that was not found is filled into the cache.
LEMMA ReadSmallStep == IInv /\ ReadSmall => IInv'
<1> SUFFICES ASSUME IInv, ReadSmall PROVE IInv'
  OBVIOUS
<1> USE DEF IInv
<1>1. /\ pc = "miss" /\ mode = "probe" /\ pc' = "bypass"
      /\ UNCHANGED <<slots, mem, cacheOn, policy, request, out, ret, mode, arg, cur, probe,
                     last, lo, hi, reqs, reqIdx, popIdx, adder>>
  BY DEF ReadSmall, lookupVars, stackVars
<1>2. arg = request
  BY <1>1 DEF LookupInv, CopiedTo
<1>3. TypeOK'
  BY <1>1 DEF TypeOK
<1>4. ArgsBounded' /\ SlotsSorted' /\ SlotsCoherent'
  BY <1>1, SlotsKept DEF ArgsBounded
<1>5. LookupInv' /\ SearchInv' /\ SearchComplete' /\ FillInv' /\ BypassInv' /\ AnswerInv'
  BY <1>1, <1>2 DEF LookupInv, SearchInv, SearchComplete, FillInv, BypassInv, AnswerInv
<1> QED
  BY <1>3, <1>4, <1>5

\* A long request that was not found goes past the cache.
LEMMA ReadMissStep == IInv /\ ReadMiss => IInv'
<1> SUFFICES ASSUME IInv, ReadMiss PROVE IInv'
  OBVIOUS
<1> USE DEF IInv
<1>1. /\ pc = "miss" /\ mode = "probe" /\ mode' = "add" /\ Lookup(cur, End)
      /\ arg.len >= Min2(Threshold, Cap)
      /\ UNCHANGED <<slots, mem, cacheOn, policy, request, out, ret, arg, cur, reqs,
                     reqIdx, popIdx, adder>>
  BY DEF ReadMiss, stackVars
<1>2. /\ arg.pos \in Nat /\ arg.len \in Nat /\ arg.len > 0 /\ cur = arg.pos /\ arg = request
      /\ Reached(cur)
  BY <1>1, SizesAssumption DEF Min2, LookupInv, CopiedTo, TypeOK, Request
<1>3. End' = End /\ cur < End /\ cur \in Nat /\ End \in Nat
  BY <1>1, <1>2 DEF End
<1>4. TypeOK'
  BY <1>1, <1>3, SizesAssumption DEF TypeOK, Lookup, NoSlot
<1>5. Reached(cur)' /\ CopiedTo(cur)'
  BY <1>1, <1>2, <1>3, SizesAssumption DEF Reached, CopiedTo
<1>6. LookupInv' /\ SearchInv' /\ SearchComplete' /\ FillInv' /\ BypassInv'
  BY <1>1, <1>2, <1>3, <1>4, <1>5, LookupStarts
<1>7. ArgsBounded' /\ SlotsSorted' /\ SlotsCoherent'
  BY <1>1, SlotsKept DEF ArgsBounded
<1>8. AnswerInv'
  BY <1>1 DEF AnswerInv, Lookup
<1> QED
  BY <1>4, <1>6, <1>7, <1>8

\* The state after iso_cache_read has returned.
LEMMA ReturnStep ==
    ASSUME IInv, Return, slots' \in [Slot -> CacheSlot], SlotsSorted', SlotsCoherent',
           out' \in [0 .. MaxLen - 1 -> Int], ret' \in Int,
           UNCHANGED <<mem, cacheOn, policy, reqs, reqIdx, popIdx, adder>>
    PROVE  IInv'
<1> USE DEF IInv
<1>1. /\ pc' = "idle" /\ mode' = "probe" /\ arg' = NoArg /\ request' = NoArg
      /\ cur' = 0 /\ probe' = 0 /\ last' = NoSlot /\ lo' = 0 /\ hi' = NumCaches - 1
  BY DEF Return
<1>2. TypeOK'
  BY <1>1, SizesAssumption DEF TypeOK, NoArg, Request
<1>3. ArgsBounded'
  BY <1>1, SizesAssumption DEF ArgsBounded, NoArg
<1>4. LookupInv' /\ SearchInv' /\ SearchComplete' /\ FillInv' /\ BypassInv' /\ AnswerInv'
  BY <1>1 DEF LookupInv, SearchInv, SearchComplete, FillInv, BypassInv, AnswerInv
<1> QED
  BY <1>2, <1>3, <1>4

\* What iso_read delivers past the cache is what exists there.
LEMMA BypassStep == IInv /\ Bypass => IInv'
<1> SUFFICES ASSUME IInv, Bypass PROVE IInv'
  OBVIOUS
<1>1. arg.pos \in Nat /\ arg.len \in Nat
  BY SizesAssumption DEF IInv, TypeOK, Request
<1>2. Available(arg.pos, arg.len) \in Nat
  BY <1>1, SizesAssumption DEF Available, Min2
<1>3. ret' \in Int
  BY <1>2 DEF Bypass
<1>4. out' \in [0 .. MaxLen - 1 -> Int]
  BY <1>1, SizesAssumption DEF Bypass, IInv, TypeOK
<1>5. /\ Return /\ UNCHANGED <<slots, mem, cacheOn, policy, reqs, reqIdx, popIdx, adder>>
  BY DEF Bypass, stackVars
<1>6. SlotsSorted' /\ SlotsCoherent' /\ slots' \in [Slot -> CacheSlot]
  BY <1>5, SlotsKept DEF IInv, TypeOK
<1> QED
  BY <1>3, <1>4, <1>5, <1>6, ReturnStep

\* Ages say nothing about content.
LEMMA UpdateCacheInfoStep == IInv /\ UpdateCacheInfo => IInv'
<1> SUFFICES ASSUME IInv, UpdateCacheInfo PROVE IInv'
  OBVIOUS
<1>1. /\ Return /\ UNCHANGED <<mem, cacheOn, policy, out, ret, reqs, reqIdx, popIdx, adder>>
  BY DEF UpdateCacheInfo, stackVars
<1>2. /\ slots' \in [Slot -> CacheSlot]
      /\ \A i \in Slot : /\ slots'[i].pos = slots[i].pos
                         /\ slots'[i].bufsize = slots[i].bufsize
                         /\ slots'[i].buf = slots[i].buf
  <2>1. slots \in [Slot -> CacheSlot]
    BY DEF IInv, TypeOK
  <2> QED
    BY <2>1, SizesAssumption DEF UpdateCacheInfo, CacheSlot
<1>3. SlotsSorted' /\ SlotsCoherent'
  BY <1>1, <1>2 DEF IInv, SlotsSorted, Sorted, SlotsCoherent
<1>4. out' \in [0 .. MaxLen - 1 -> Int] /\ ret' \in Int
  BY <1>1 DEF IInv, TypeOK
<1> QED
  BY <1>1, <1>2, <1>3, <1>4, ReturnStep

\* A return from add_cache whose result is the answer, or belongs to a prefetch.
LEMMA AddCacheReturnStep ==
    ASSUME IInv, NEW r \in Int, AddCacheReturn(r), cur' \in Nat, mode # "probe",
           slots' \in [Slot -> CacheSlot], mem' \in [Buffer -> [0 .. Cap - 1 -> Int]],
           out' \in [0 .. MaxLen - 1 -> Int], SlotsSorted', SlotsCoherent',
           UNCHANGED <<cacheOn, policy, request, mode, arg, reqs, reqIdx, popIdx, adder>>,
           mode = "prefetch" => out' = out,
           mode = "add" =>
              \/ r = -1
              \/ /\ r = Available(request.pos, request.len)
                 /\ \A i \in 0 .. r - 1 : out'[i] = request.pos + i
    PROVE  IInv'
<1> USE DEF IInv
<1>1. /\ \/ mode = "add" /\ ret' = r /\ pc' = "post"
         \/ mode = "prefetch" /\ ret' = ret /\ pc' = "age"
      /\ UNCHANGED <<probe, last, lo, hi>>
  BY DEF AddCacheReturn, lookupVars
<1>2. TypeOK'
  BY <1>1 DEF TypeOK
<1>3. ArgsBounded'
  BY DEF ArgsBounded
<1>4. LookupInv' /\ SearchInv' /\ SearchComplete' /\ FillInv' /\ BypassInv'
  BY <1>1 DEF LookupInv, SearchInv, SearchComplete, FillInv, BypassInv
<1>5. AnswerInv'
  <2>1. CASE mode = "add"
    <3>1. \/ r = -1
          \/ /\ r = Available(request.pos, request.len)
             /\ \A i \in 0 .. r - 1 : out'[i] = request.pos + i
      BY <2>1
    <3>2. ret' = r /\ request' = request
      BY <1>1, <2>1
    <3> QED
      BY <3>1, <3>2 DEF AnswerInv, Available, Min2
  <2>2. CASE mode = "prefetch"
    <3>1. ret' = ret /\ request' = request /\ out' = out
      BY <1>1, <2>2
    <3> QED
      BY <2>2, <3>1 DEF AnswerInv, Available, Min2
  <2> QED
    BY <1>1, <2>1, <2>2
<1> QED
  BY <1>2, <1>3, <1>4, <1>5

\* The loop of add_cache goes on behind the slot that was hit.
LEMMA AddCacheHitStep == IInv /\ AddCacheHit => IInv'
<1> SUFFICES ASSUME IInv, AddCacheHit PROVE IInv'
  OBVIOUS
<1>1. /\ pc = "hit" /\ mode # "probe" /\ cur' = probe /\ AddCacheReturn(probe - arg.pos)
      /\ UNCHANGED <<slots, mem, cacheOn, policy, request, out, mode, arg, reqs, reqIdx,
                     popIdx, adder>>
  BY DEF AddCacheHit, stackVars
<1>2. /\ probe = End /\ Reached(probe) /\ CopiedTo(probe)
  BY <1>1 DEF IInv, LookupInv
<1>3. /\ arg.pos \in Nat /\ arg.len \in 0 .. MaxLen /\ probe \in Nat /\ MaxLen \in Nat
      /\ probe - arg.pos = arg.len
  BY <1>2, SizesAssumption DEF IInv, TypeOK, Request, End
<1>4. ASSUME mode = "add"
      PROVE  /\ probe - arg.pos = Available(request.pos, request.len)
             /\ \A i \in 0 .. probe - arg.pos - 1 : out'[i] = request.pos + i
  <2>1. /\ arg = request
        /\ \A i \in 0 .. MaxLen - 1 : arg.pos + i < probe => out[i] = arg.pos + i
    BY <1>2, <1>4 DEF CopiedTo
  <2>2. arg.len = Available(arg.pos, arg.len)
    BY <1>2, <1>3, SizesAssumption DEF End, Reached, Available, Min2
  <2> QED
    BY <1>1, <1>3, <2>1, <2>2
<1>5. SlotsSorted' /\ SlotsCoherent'
  BY <1>1, SlotsKept DEF IInv
<1>6. /\ slots' \in [Slot -> CacheSlot] /\ mem' \in [Buffer -> [0 .. Cap - 1 -> Int]]
      /\ out' \in [0 .. MaxLen - 1 -> Int] /\ out' = out
  BY <1>1 DEF IInv, TypeOK
<1> QED
  BY <1>1, <1>3, <1>4, <1>5, <1>6, AddCacheReturnStep

\* The loop of add_cache disables the slot it will refill.
LEMMA AddCacheMissStep == IInv /\ AddCacheMiss => IInv'
<1> SUFFICES ASSUME IInv, AddCacheMiss PROVE IInv'
  OBVIOUS
<1> USE DEF IInv
<1>1. /\ pc = "miss" /\ mode # "probe" /\ pc' = "fill"
      /\ cur' = IF last = NoSlot THEN cur ELSE SlotEnd(slots[last])
      /\ UNCHANGED <<slots, mem, cacheOn, policy, request, out, ret, mode, arg, probe,
                     last, lo, hi, reqs, reqIdx, popIdx, adder>>
  BY DEF AddCacheMiss, lookupVars, stackVars
<1>2. /\ Reached(cur) /\ Reached(probe) /\ probe < End /\ CopiedTo(probe)
      /\ IF last = NoSlot THEN probe = cur
         ELSE slots[last].pos # Invalid /\ (probe = End \/ SlotEnd(slots[last]) = probe)
  BY <1>1 DEF LookupInv
<1>3. cur' = probe /\ probe \in Nat
  BY <1>1, <1>2 DEF TypeOK, End, Request
<1>4. TypeOK'
  BY <1>1, <1>3 DEF TypeOK
<1>5. ArgsBounded' /\ SlotsSorted' /\ SlotsCoherent'
  BY <1>1, SlotsKept DEF ArgsBounded
<1>6. FillInv'
  <2>1. \A i \in Slot : ~Covers(slots[i], probe)
    BY <1>1, <1>2 DEF SearchComplete
  <2>2. Reached(cur)' /\ CopiedTo(cur)' /\ cur' < End'
    BY <1>1, <1>2, <1>3 DEF Reached, CopiedTo, End
  <2> QED
    BY <1>1, <1>3, <2>1, <2>2 DEF FillInv
<1>7. LookupInv' /\ SearchInv' /\ SearchComplete' /\ BypassInv' /\ AnswerInv'
  BY <1>1 DEF LookupInv, SearchInv, SearchComplete, BypassInv, AnswerInv
<1> QED
  BY <1>4, <1>5, <1>6, <1>7

\* Replacing slot s and moving it to its place keeps the slots sorted and
\* coherent: what it becomes is unused, or a coherent slot at a position no
\* other slot has.
LEMMA ReorderStep ==
    ASSUME IInv, NEW s \in Slot, NEW new \in CacheSlot,
           new.buf = slots[s].buf, Reorder([slots EXCEPT ![s] = new], s),
           NEW content \in [0 .. Cap - 1 -> Int],
           mem' = [mem EXCEPT ![new.buf] = content],
           \A i \in Slot \ {s} : slots[i].pos # new.pos \/ new.pos = Invalid,
           new.pos # Invalid =>
              /\ new.bufsize = Available(new.pos, Cap) /\ new.bufsize > 0
              /\ \A k \in 0 .. new.bufsize - 1 : content[k] = new.pos + k
    PROVE  /\ slots' \in [Slot -> CacheSlot] /\ mem' \in [Buffer -> [0 .. Cap - 1 -> Int]]
           /\ SlotsSorted' /\ SlotsCoherent'
<1> DEFINE f == [slots EXCEPT ![s] = new]
<1>1. PICK at \in Slot : InsertAt(f, s, at) /\ slots' = Moved(f, s, at)
  BY DEF Reorder
<1>2. /\ slots \in [Slot -> CacheSlot] /\ f \in [Slot -> CacheSlot] /\ f[s] = new
      /\ \A i \in Slot \ {s} : f[i] = slots[i]
      /\ mem \in [Buffer -> [0 .. Cap - 1 -> Int]]
  BY DEF IInv, TypeOK
<1> HIDE DEF f
<1>3. \A i, j \in Slot :
          i < j => /\ f[i].buf # f[j].buf
                   /\ i # s /\ j # s => f[i].pos < f[j].pos \/ f[j].pos = Invalid
  <2>1. \A i \in Slot : f[i].buf = slots[i].buf
    BY <1>2
  <2> QED
    BY <1>2, <2>1 DEF IInv, SlotsSorted, Sorted
<1>4. \A i \in Slot \ {s} : f[i].pos # f[s].pos \/ f[s].pos = Invalid
  BY <1>2
<1>5. /\ slots' \in [Slot -> CacheSlot] /\ Sorted(slots')
      /\ \A i \in Slot : \E j \in Slot : slots'[i] = f[j]
  <2>1. /\ Moved(f, s, at) \in [Slot -> CacheSlot]
        /\ \A i \in Slot : \E j \in Slot : Moved(f, s, at)[i] = f[j]
    BY <1>1, <1>2, MovedFacts
  <2>2. Sorted(Moved(f, s, at))
    BY <1>1, <1>2, <1>3, <1>4, MovedFacts
  <2> QED
    BY <1>1, <2>1, <2>2
<1>6. SlotsSorted'
  BY <1>5 DEF SlotsSorted, Sorted
<1>7. new.buf \in Buffer /\ mem' \in [Buffer -> [0 .. Cap - 1 -> Int]]
  BY <1>2 DEF CacheSlot
<1>8. SlotsCoherent'
  <2> SUFFICES ASSUME NEW i \in Slot, slots'[i].pos # Invalid
               PROVE  /\ slots'[i].bufsize = Available(slots'[i].pos, Cap)
                      /\ slots'[i].bufsize > 0
                      /\ \A k \in 0 .. slots'[i].bufsize - 1 :
                            mem'[slots'[i].buf][k] = slots'[i].pos + k
    BY DEF SlotsCoherent, Available, Min2
  <2>1. PICK j \in Slot : slots'[i] = f[j]
    BY <1>5
  <2>2. CASE j = s
    BY <1>2, <1>7, <2>1, <2>2
  <2>3. CASE j # s
    <3>1. f[j] = slots[j] /\ slots[j].buf # new.buf /\ slots[j].buf \in Buffer
      <4>1. j < s \/ s < j
        BY <2>3, SizesAssumption DEF Slot
      <4>2. f[j].buf # f[s].buf
        BY <1>3, <4>1
      <4> QED
        BY <1>2, <2>3, <4>2 DEF CacheSlot
    <3>2. mem'[slots[j].buf] = mem[slots[j].buf]
      BY <1>2, <1>7, <3>1
    <3> QED
      BY <2>1, <3>1, <3>2 DEF IInv, SlotsCoherent
  <2> QED
    BY <2>2, <2>3
<1> QED
  BY <1>5, <1>6, <1>7, <1>8

\* What is known where add_cache reads from the image.
LEMMA FillFacts ==
    ASSUME IInv, pc = "fill"
    PROVE  /\ mode # "probe" /\ Reached(cur) /\ cur < End /\ CopiedTo(cur)
           /\ \A i \in Slot : ~Covers(slots[i], cur)
           /\ cur \in Nat /\ End \in Nat /\ arg \in Request
           /\ arg.pos \in Nat /\ arg.len \in 0 .. MaxLen /\ MaxLen \in Nat
           /\ out \in [0 .. MaxLen - 1 -> Int] /\ slots \in [Slot -> CacheSlot]
           /\ mem \in [Buffer -> [0 .. Cap - 1 -> Int]]
  BY SizesAssumption DEF IInv, FillInv, TypeOK, Request, End

\* A fill at the end of the image delivers nothing and ends the loop.
LEMMA FillEofStep ==
    ASSUME WholeBlocks, IInv, NEW s \in Slot, FillEof(s)
    PROVE  IInv'
<1>0. pc = "fill"
  BY DEF FillEof
<1> DEFINE new == Disabled(slots[s])
<1>1. /\ Available(AlignDown(cur), Cap) = 0 /\ AddCacheReturn(cur - arg.pos)
      /\ Reorder([slots EXCEPT ![s] = new], s)
      /\ UNCHANGED <<mem, cacheOn, policy, request, out, mode, arg, cur, reqs, reqIdx,
                     popIdx, adder>>
  BY FillFacts, <1>0 DEF FillEof, stackVars
<1>2. new \in CacheSlot /\ new.buf = slots[s].buf /\ new.pos = Invalid /\ new.buf \in Buffer
  BY FillFacts, <1>0, SizesAssumption DEF Disabled, CacheSlot
<1>3. mem' = [mem EXCEPT ![new.buf] = mem[new.buf]] /\ mem[new.buf] \in [0 .. Cap - 1 -> Int]
  BY FillFacts, <1>0, <1>1, <1>2
<1> HIDE DEF new
<1>4. /\ slots' \in [Slot -> CacheSlot] /\ mem' \in [Buffer -> [0 .. Cap - 1 -> Int]]
      /\ SlotsSorted' /\ SlotsCoherent'
  BY <1>1, <1>2, <1>3, ReorderStep
<1>5. cur >= IsoSize
  <2>1. AlignDown(cur) \in Nat /\ AlignDown(cur) <= cur
    BY FillFacts, AlignFacts, <1>0
  <2> QED
    BY <1>0, <1>1, <2>1, FillFacts, SizesAssumption DEF Available, Min2
<1>6. cur - arg.pos = Available(arg.pos, arg.len) /\ cur - arg.pos \in Int
  BY <1>0, <1>5, FillFacts, SizesAssumption DEF Available, Min2, Reached, End
<1>7. ASSUME mode = "add"
      PROVE  /\ cur - arg.pos = Available(request.pos, request.len)
             /\ \A i \in 0 .. cur - arg.pos - 1 : out'[i] = request.pos + i
  <2>1. /\ arg = request
        /\ \A i \in 0 .. MaxLen - 1 : arg.pos + i < cur => out[i] = arg.pos + i
    BY <1>0, <1>7, FillFacts DEF CopiedTo
  <2>2. cur - arg.pos <= MaxLen /\ arg.pos <= cur
    BY <1>0, FillFacts DEF Reached, End
  <2> QED
    BY <1>0, <1>1, <1>6, <2>1, <2>2, FillFacts
<1>8. mode # "probe" /\ cur' \in Nat /\ out' \in [0 .. MaxLen - 1 -> Int] /\ out' = out
  BY <1>0, <1>1, FillFacts
<1> QED
  BY <1>1, <1>4, <1>6, <1>7, <1>8, AddCacheReturnStep

\* A failed fill leaves the slot disabled.
LEMMA FillErrorStep ==
    ASSUME IInv, NEW s \in Slot, FillError(s)
    PROVE  IInv'
<1>0. pc = "fill"
  BY DEF FillError
<1> DEFINE new == Disabled(slots[s])
           content == [k \in 0 .. Cap - 1 |-> Junk]
<1>1. /\ AddCacheReturn(-1) /\ Reorder([slots EXCEPT ![s] = new], s)
      /\ mem' = [mem EXCEPT ![slots[s].buf] = content]
      /\ UNCHANGED <<cacheOn, policy, request, out, mode, arg, cur, reqs, reqIdx,
                     popIdx, adder>>
  BY FillFacts, <1>0 DEF FillError, stackVars
<1>2. new \in CacheSlot /\ new.buf = slots[s].buf /\ new.pos = Invalid
  BY FillFacts, <1>0, SizesAssumption DEF Disabled, CacheSlot
<1>3. content \in [0 .. Cap - 1 -> Int]
  BY DEF Junk
<1> HIDE DEF new, content
<1>4. /\ slots' \in [Slot -> CacheSlot] /\ mem' \in [Buffer -> [0 .. Cap - 1 -> Int]]
      /\ SlotsSorted' /\ SlotsCoherent'
  BY <1>1, <1>2, <1>3, ReorderStep
<1>5. mode # "probe" /\ cur' \in Nat /\ out' \in [0 .. MaxLen - 1 -> Int] /\ out' = out
  BY <1>0, <1>1, FillFacts
<1> QED
  BY <1>1, <1>4, <1>5, AddCacheReturnStep

\* A fill puts the slot in its place and hands out the bytes that are needed.
LEMMA FillReadStep ==
    ASSUME WholeBlocks, IInv, NEW s \in Slot, FillRead(s)
    PROVE  IInv'
<1> DEFINE offset == AlignDown(cur)
           n == Available(offset, Cap)
           b == slots[s].buf
           new == [buf |-> b, bufsize |-> n, pos |-> offset, age |-> -1]
           content == [k \in 0 .. Cap - 1 |-> IF k < n THEN offset + k ELSE mem[b][k]]
           m == CopyLen(new, cur)
<1>0. pc = "fill"
  BY DEF FillRead
<1>1. /\ n > 0 /\ mem' = [mem EXCEPT ![b] = content] /\ out' = Copy(new, content, cur, m)
      /\ cur' = cur + m /\ Reorder([slots EXCEPT ![s] = new], s)
      /\ AddCacheLoop(cur + m)
      /\ UNCHANGED <<cacheOn, policy, request, mode, arg, reqs, reqIdx, popIdx, adder>>
  BY DEF FillRead, stackVars
<1>2. /\ offset \in Nat /\ offset <= cur /\ cur < offset + Cap /\ cur < IsoSize
      /\ offset < IsoSize
  <2>1. offset \in Nat /\ offset <= cur /\ cur < offset + Align
    BY FillFacts, AlignFacts, <1>0
  <2>2. offset < IsoSize
    BY <1>1, <2>1, SizesAssumption DEF Available
  <2>3. cur < IsoSize
    BY FillFacts, AlignFacts, <1>0, <2>2
  <2> QED
    BY <1>0, <2>1, <2>2, <2>3, FillFacts, AlignLeqCap, SizesAssumption
<1>3. /\ n \in 1 .. Cap /\ offset + n <= IsoSize /\ cur < offset + n
  BY <1>0, <1>2, FillFacts, SizesAssumption DEF Available, Min2
<1>4. new \in CacheSlot /\ new.pos # Invalid /\ b \in Buffer /\ SlotEnd(new) = offset + n
  <2>1. slots[s] \in CacheSlot /\ b \in Buffer
    BY <1>0, FillFacts DEF CacheSlot
  <2> HIDE DEF offset, n, b
  <2>2. /\ n \in 0 .. Cap /\ offset \in 0 .. Invalid /\ offset # Invalid
        /\ -1 \in -1 .. MaxAge
    BY <1>2, <1>3, SizesAssumption
  <2> QED
    BY <2>1, <2>2 DEF CacheSlot, SlotEnd
<1>5. /\ content \in [0 .. Cap - 1 -> Int]
      /\ \A k \in 0 .. n - 1 : content[k] = offset + k
  <2>1. mem[b] \in [0 .. Cap - 1 -> Int] /\ Cap \in Nat
    BY <1>0, <1>4, FillFacts, SizesAssumption
  <2> HIDE DEF offset, n, b
  <2>2. \A k \in 0 .. Cap - 1 : (IF k < n THEN offset + k ELSE mem[b][k]) \in Int
    BY <1>2, <1>3, <2>1
  <2>3. n \in Nat /\ n <= Cap
    BY <1>3, <2>1
  <2> QED
    BY <2>1, <2>2, <2>3
<1>6. \A i \in Slot \ {s} : slots[i].pos # offset
  <2> SUFFICES ASSUME NEW i \in Slot, slots[i].pos = offset PROVE FALSE
    OBVIOUS
  <2>1. slots[i].pos # Invalid
    BY <1>2, SizesAssumption
  <2>2. SlotEnd(slots[i]) = offset + n
    BY <2>1, UsedSlot DEF IInv
  <2> QED
    BY <1>0, <1>2, <1>3, <2>1, <2>2, FillFacts DEF Covers
<1>7. /\ slots' \in [Slot -> CacheSlot] /\ mem' \in [Buffer -> [0 .. Cap - 1 -> Int]]
      /\ SlotsSorted' /\ SlotsCoherent'
  <2>1. /\ new.buf = b /\ new.pos = offset /\ new.bufsize = n
    OBVIOUS
  <2>2. n = Available(offset, Cap)
    OBVIOUS
  <2> HIDE DEF offset, n, b, new, content, m
  <2>3. new.buf = slots[s].buf
    BY <2>1 DEF b
  <2> QED
    BY <1>1, <1>3, <1>4, <1>5, <1>6, <2>1, <2>2, <2>3, ReorderStep
<1>8. /\ m \in Nat /\ m > 0 /\ cur + m <= End /\ cur + m <= SlotEnd(new)
  <2> HIDE DEF new
  <2> QED
    BY <1>0, <1>3, <1>4, FillFacts, CopyLenFacts
<1>9. /\ out' \in [0 .. MaxLen - 1 -> Int]
      /\ mode = "prefetch" => out' = out
      /\ CopiedTo(cur)'
  <2>1. /\ new.pos <= cur /\ new.bufsize = n /\ new.pos = offset
    BY <1>2
  <2>2. TypeOK
    BY DEF IInv
  <2> HIDE DEF offset, n, b, new, content, m
  <2>3. /\ Copy(new, content, cur, m) \in [0 .. MaxLen - 1 -> Int]
        /\ mode = "prefetch" => Copy(new, content, cur, m) = out
        /\ mode # "prefetch" => \A i \in 0 .. MaxLen - 1 :
              arg.pos + i < cur + m => Copy(new, content, cur, m)[i] = arg.pos + i
    BY <1>0, <1>4, <1>5, <1>8, <2>1, <2>2, FillFacts, CopyFacts
  <2>4. mode # "prefetch" => arg = request
    BY <1>0, FillFacts DEF CopiedTo
  <2>5. CopiedTo(cur)'
    BY <1>1, <2>3, <2>4 DEF CopiedTo
  <2> QED
    BY <1>1, <2>3, <2>5
<1> DEFINE c == cur + m
<1>10. c \in Nat /\ cur' = c /\ Reached(cur)' /\ c <= IsoSize /\ End' = End
  <2>1. c \in Nat /\ cur' = c /\ End' = End /\ arg' = arg
    BY <1>0, <1>1, <1>8, FillFacts DEF End
  <2>2. c <= IsoSize /\ c <= End /\ arg.pos <= c
    <3>1. cur \in Nat /\ arg.pos \in Nat /\ arg.pos <= cur
      BY <1>0, FillFacts DEF Reached
    <3>2. cur + m <= offset + n /\ offset + n <= IsoSize /\ offset + n \in Int
      <4> HIDE DEF offset, n, new, m
      <4> QED
        BY <1>2, <1>3, <1>4, <1>8
    <3> HIDE DEF new, m, offset, n
    <3> QED
      BY <1>8, <3>1, <3>2, SizesAssumption
  <2> HIDE DEF c
  <2> QED
    BY <2>1, <2>2 DEF Reached
<1>11. CASE c < End
  <2>1. Lookup(c, End) /\ ret' = ret
    BY <1>1, <1>11 DEF AddCacheLoop
  <2> HIDE DEF c, m, content, new
  <2>2. TypeOK'
    BY <1>1, <1>7, <1>9, <1>10, <2>1, SizesAssumption DEF IInv, TypeOK, Lookup, NoSlot, c
  <2>3. mode # "probe"
    BY <1>0, FillFacts
  <2>5. LookupInv' /\ SearchInv' /\ SearchComplete' /\ FillInv' /\ BypassInv'
    BY <1>1, <1>9, <1>10, <1>11, <2>1, <2>2, <2>3, LookupStarts
  <2>6. ArgsBounded'
    BY <1>1 DEF IInv, ArgsBounded
  <2>7. AnswerInv'
    <3>1. pc' = "search"
      BY <1>11, <2>1 DEF Lookup
    <3> QED
      BY <1>1, <1>9, <2>1, <3>1 DEF IInv, AnswerInv, Available, Min2
  <2> QED
    BY <1>7, <2>2, <2>5, <2>6, <2>7 DEF IInv
<1>12. CASE ~(c < End)
  <2>1. AddCacheReturn(c - arg.pos) /\ c = End
    BY <1>0, <1>1, <1>8, <1>10, <1>12, FillFacts DEF AddCacheLoop
  <2>2. c - arg.pos = arg.len /\ arg.len = Available(arg.pos, arg.len)
    BY <1>0, <1>10, <2>1, FillFacts, SizesAssumption DEF Available, Min2, End
  <2>3. mode # "probe" /\ cur' \in Nat /\ c - arg.pos \in Int
    BY <1>0, <1>1, <1>10, <2>2, FillFacts
  <2> HIDE DEF c, m, content, new
  <2>4. ASSUME mode = "add"
        PROVE  /\ c - arg.pos = Available(request.pos, request.len)
               /\ \A i \in 0 .. c - arg.pos - 1 : out'[i] = request.pos + i
    <3>1. arg = request
      BY <1>0, <2>4, FillFacts DEF CopiedTo
    <3>2. \A i \in 0 .. MaxLen - 1 : arg.pos + i < c => out'[i] = arg.pos + i
      BY <1>1, <1>9, <1>10, <2>4 DEF CopiedTo
    <3>3. \A i \in 0 .. c - arg.pos - 1 : i \in 0 .. MaxLen - 1 /\ arg.pos + i < c
      BY <1>0, <1>10, <2>2, FillFacts
    <3> QED
      BY <2>2, <3>1, <3>2, <3>3
  <2> QED
    BY <1>1, <1>7, <1>9, <2>1, <2>3, <2>4, AddCacheReturnStep
<1> QED
  BY <1>11, <1>12

\* The prefetch looks at its stack.
LEMMA PrefetchIdxStep == IInv /\ (NoPrefetch \/ LoadRequestIdx) => IInv'
<1> SUFFICES ASSUME IInv, NoPrefetch \/ LoadRequestIdx PROVE IInv'
  OBVIOUS
<1> USE DEF IInv
<1>1. /\ pc = "post" /\ pc' \in {"age", "take"} /\ popIdx' \in 0 .. NrCacheReq - 1
      /\ UNCHANGED <<slots, mem, cacheOn, policy, request, out, ret, mode, arg, cur, probe,
                     last, lo, hi, reqs, reqIdx, adder>>
  BY SizesAssumption DEF NoPrefetch, LoadRequestIdx, TypeOK, lookupVars, stackVars
<1>2. TypeOK'
  BY <1>1 DEF TypeOK
<1>3. ArgsBounded' /\ SlotsSorted' /\ SlotsCoherent'
  BY <1>1, SlotsKept DEF ArgsBounded
<1>4. LookupInv' /\ SearchInv' /\ SearchComplete' /\ FillInv' /\ BypassInv' /\ AnswerInv'
  BY <1>1 DEF LookupInv, SearchInv, SearchComplete, FillInv, BypassInv, AnswerInv
<1> QED
  BY <1>2, <1>3, <1>4

\* The prefetch takes a request and begins a lookup of its own.
LEMMA TakeRequestStep == IInv /\ TakeRequest => IInv'
<1> SUFFICES ASSUME IInv, TakeRequest PROVE IInv'
  OBVIOUS
<1> USE DEF IInv
<1> DEFINE r == reqs[popIdx]
<1>1. /\ pc = "take" /\ reqIdx' = popIdx /\ popIdx' = 0 /\ mode' = "prefetch" /\ arg' = r
      /\ cur' = r.pos /\ End' = r.pos + r.len
      /\ UNCHANGED <<slots, mem, cacheOn, policy, request, out, ret, reqs, adder>>
  BY DEF TakeRequest, End
<1>2. /\ r \in Request /\ r.pos \in Nat /\ r.len \in Nat /\ r.pos + r.len < Invalid
      /\ popIdx \in 0 .. NrCacheReq - 1
  BY SizesAssumption DEF TypeOK, Request, ArgsBounded
<1> HIDE DEF r
<1>3. ArgsBounded' /\ SlotsSorted' /\ SlotsCoherent'
  BY <1>1, <1>2, SlotsKept DEF ArgsBounded
<1>4. AnswerInv'
  BY <1>1 DEF AnswerInv, Available, Min2
<1>5. CASE r.len > 0 /\ Lookup(r.pos, r.pos + r.len)
  <2>1. TypeOK'
    BY <1>1, <1>2, <1>5, SizesAssumption DEF TypeOK, Lookup, NoSlot
  <2>2. Reached(cur)' /\ CopiedTo(cur)'
    BY <1>1, <1>2, SizesAssumption DEF Reached, CopiedTo
  <2>3. LookupInv' /\ SearchInv' /\ SearchComplete' /\ FillInv' /\ BypassInv'
    BY <1>1, <1>2, <1>5, <2>1, <2>2, LookupStarts
  <2> QED
    BY <1>3, <1>4, <2>1, <2>3
<1>6. CASE pc' = "age" /\ UNCHANGED lookupVars
  <2>1. TypeOK'
    BY <1>1, <1>2, <1>6, SizesAssumption DEF TypeOK, lookupVars
  <2>2. LookupInv' /\ SearchInv' /\ SearchComplete' /\ FillInv' /\ BypassInv'
    BY <1>6 DEF LookupInv, SearchInv, SearchComplete, FillInv, BypassInv
  <2> QED
    BY <1>3, <1>4, <2>1, <2>2
<1> QED
  BY <1>5, <1>6 DEF TakeRequest, r

\* The stack of prefetch requests changes without a lock and stays a stack.
LEMMA AdderStepPreserves == ASSUME IInv, NEW a \in Adders, AdderStep(a) PROVE IInv'
<1> USE DEF IInv
<1>1. /\ UNCHANGED <<slots, mem, cacheOn, policy, request, out, ret, pc, mode, arg, cur,
                     probe, last, lo, hi, popIdx>>
      /\ reqs' \in [0 .. NrCacheReq - 1 -> Request] /\ reqIdx' \in 0 .. NrCacheReq
      /\ adder' \in [Adders -> [idx : -1 .. NrCacheReq - 1, req : Request]]
      /\ \A i \in 0 .. NrCacheReq - 1 : reqs'[i].pos + reqs'[i].len < Invalid
      /\ \A x \in Adders : adder'[x].req.pos + adder'[x].req.len < Invalid
  <2>1. CASE StoreRequest(a)
    <3>1. /\ adder[a].idx \in 0 .. NrCacheReq - 1 /\ adder[a].req \in Request
          /\ adder[a].req.pos + adder[a].req.len < Invalid
      <4>1. adder[a] \in [idx : -1 .. NrCacheReq - 1, req : Request] /\ adder[a].idx # -1
        BY <2>1 DEF StoreRequest, TypeOK
      <4>2. adder[a].req.pos + adder[a].req.len < Invalid
        BY DEF ArgsBounded
      <4> QED
        BY <4>1, <4>2, SizesAssumption
    <3>2. /\ NoArg \in Request /\ NoArg.pos + NoArg.len < Invalid
          /\ -1 \in -1 .. NrCacheReq - 1
      BY SizesAssumption DEF NoArg, Request
    <3>3. /\ reqs' = [reqs EXCEPT ![adder[a].idx] = adder[a].req]
          /\ reqIdx' = adder[a].idx + 1
          /\ adder' = [adder EXCEPT ![a] = [idx |-> -1, req |-> NoArg]]
      BY <2>1 DEF StoreRequest
    <3>4. reqIdx' \in 0 .. NrCacheReq
      BY <3>1, <3>3, SizesAssumption
    <3> QED
      BY <2>1, <3>1, <3>2, <3>3, <3>4
         DEF StoreRequest, TypeOK, ArgsBounded, lookupVars
  <2>2. ASSUME NEW r \in Prefetches, LoadAddIdx(a, r) PROVE <1>1!:
    <3>1. /\ r \in Request /\ r.pos + r.len < Invalid
          /\ reqIdx \in -1 .. NrCacheReq - 1
      BY <2>2, RequestsAssumption, SizesAssumption DEF LoadAddIdx, TypeOK
    <3>2. adder' = [adder EXCEPT ![a] = [idx |-> reqIdx, req |-> r]]
      BY <2>2 DEF LoadAddIdx
    <3> QED
      BY <2>2, <3>1, <3>2 DEF LoadAddIdx, TypeOK, ArgsBounded, lookupVars
  <2> QED
    BY <2>1, <2>2 DEF AdderStep
<1>2. TypeOK'
  BY <1>1 DEF TypeOK
<1>3. ArgsBounded' /\ SlotsSorted' /\ SlotsCoherent'
  BY <1>1, SlotsKept DEF ArgsBounded
<1>4. LookupInv'
  BY <1>1 DEF LookupInv, Reached, CopiedTo, End
<1>5. SearchInv' /\ SearchComplete' /\ FillInv' /\ BypassInv' /\ AnswerInv'
  BY <1>1 DEF SearchInv, SearchComplete, FillInv, BypassInv, AnswerInv, End, Reached, CopiedTo
<1> QED
  BY <1>2, <1>3, <1>4, <1>5

\* Changing the policy, or nothing at all, touches nothing the invariant is about.
LEMMA OtherStep ==
    ASSUME IInv, policy' \in {"LRU", "RR"},
           UNCHANGED <<slots, mem, cacheOn, request, out, ret, pc, mode, arg, cur,
                       probe, last, lo, hi, reqs, reqIdx, popIdx, adder>>
    PROVE  IInv'
<1> USE DEF IInv
<1>1. TypeOK'
  BY DEF TypeOK
<1>2. ArgsBounded' /\ SlotsSorted' /\ SlotsCoherent'
  BY SlotsKept DEF ArgsBounded
<1>3. LookupInv'
  BY DEF LookupInv, Reached, CopiedTo, End
<1>4. SearchInv' /\ SearchComplete' /\ FillInv' /\ BypassInv' /\ AnswerInv'
  BY DEF SearchInv, SearchComplete, FillInv, BypassInv, AnswerInv, End, Reached, CopiedTo
<1> QED
  BY <1>1, <1>2, <1>3, <1>4

\* Every step preserves the invariant.
LEMMA NextIInv == ASSUME WholeBlocks, IInv, [Next]_vars PROVE IInv'
<1>1. CASE Search
  BY <1>1, SearchLeftStep, SearchRightStep, SearchHitStep, SearchFailStep DEF Search
<1>2. CASE ReadHit \/ ReadSmall \/ ReadMiss \/ Bypass
  BY <1>2, ReadHitStep, ReadSmallStep, ReadMissStep, BypassStep
<1>3. CASE AddCacheHit \/ AddCacheMiss
  BY <1>3, AddCacheHitStep, AddCacheMissStep
<1>4. CASE Fill
  BY <1>4, FillReadStep, FillEofStep, FillErrorStep DEF Fill
<1>5. CASE NoPrefetch \/ LoadRequestIdx \/ TakeRequest \/ UpdateCacheInfo
  BY <1>5, PrefetchIdxStep, TakeRequestStep, UpdateCacheInfoStep
<1>6. ASSUME NEW r \in Requests, BeginRead(r) PROVE IInv'
  BY <1>6, BeginReadStep
<1>7. ASSUME NEW a \in Adders, AdderStep(a) PROVE IInv'
  BY <1>7, AdderStepPreserves
<1>8. ASSUME NEW p \in {"LRU", "RR"}, SetPolicy(p) PROVE IInv'
  BY <1>8, OtherStep DEF SetPolicy, lookupVars, stackVars
<1>9. CASE UNCHANGED vars
  BY <1>9, OtherStep DEF vars, lookupVars, stackVars, IInv, TypeOK
<1> QED
  BY <1>1, <1>2, <1>3, <1>4, <1>5, <1>6, <1>7, <1>8, <1>9 DEF Next, ReaderStep

-----------------------------------------------------------------------------
(* Theorems                                                                *)

\* The inductive invariant of the cache holds in every reachable state, whatever
\* the sizes, the requests and the prefetches are.
THEOREM InvariantHolds == ASSUME WholeBlocks PROVE Spec => []IInv
<1>1. Init => IInv
  BY InitIInv
<1>2. IInv /\ [Next]_vars => IInv'
  BY NextIInv
<1> QED
  BY <1>1, <1>2, PTL DEF Spec

\* Type correctness.
THEOREM TypeCorrect == ASSUME WholeBlocks PROVE Spec => []TypeOK
<1>1. IInv => TypeOK
  BY DEF IInv
<1> QED
  BY <1>1, InvariantHolds, PTL

\* reorder_iso_cache keeps the order binary_search needs, without duplicates.
THEOREM CacheSorted == ASSUME WholeBlocks PROVE Spec => []SlotsSorted
<1>1. IInv => SlotsSorted
  BY DEF IInv
<1> QED
  BY <1>1, InvariantHolds, PTL

\* A slot never holds a byte that is not the image's.
THEOREM CacheCoherent == ASSUME WholeBlocks PROVE Spec => []SlotsCoherent
<1>1. IInv => SlotsCoherent
  BY DEF IInv
<1> QED
  BY <1>1, InvariantHolds, PTL

\* binary_search finds every cached byte it is asked for.
THEOREM SearchFindsCached == ASSUME WholeBlocks PROVE Spec => []SearchComplete
<1>1. IInv => SearchComplete
  BY DEF IInv
<1> QED
  BY <1>1, InvariantHolds, PTL

\* The code's assertion "error pos" is never reached.
THEOREM ErrorPosUnreachable == ASSUME WholeBlocks PROVE Spec => []NoErrorPos
<1>1. IInv => NoErrorPos
  <2> SUFFICES ASSUME IInv, pc = "miss", mode # "probe", last # NoSlot
               PROVE  SlotEnd(slots[last]) < End
    BY DEF NoErrorPos
  <2>1. /\ probe < End /\ probe \in Nat /\ End \in Nat
        /\ probe = End \/ SlotEnd(slots[last]) = probe
    BY SizesAssumption DEF IInv, LookupInv, TypeOK, Request, End
  <2> QED
    BY <2>1
<1> QED
  BY <1>1, InvariantHolds, PTL

-----------------------------------------------------------------------------
(* Refinement                                                              *)

\* Steps that neither begin nor end a call are invisible above the cache.
LEMMA InnerStep ==
    ASSUME pc' # "idle", pc # "idle", request' = request
    PROVE  UNCHANGED Disc!discVars
  BY DEF Disc!discVars

\* The call returns what IsoDisc allows.
LEMMA AnswerStep ==
    ASSUME IInv, pc # "idle", pc' = "idle",
           \/ ret' = -1
           \/ /\ ret' = Available(request.pos, request.len)
              /\ \A i \in 0 .. ret' - 1 : out'[i] = request.pos + i
    PROVE  Disc!Answer
<1>1. request.pos \in Nat /\ request.len \in Nat
  BY SizesAssumption DEF IInv, TypeOK, Request
<1>2. request # [pos |-> 0, len |-> -1]
  BY <1>1
<1>3. CASE ret' = -1
  BY <1>2, <1>3 DEF Disc!Answer, Disc!NoRequest, Disc!ReadError, Disc!Bytes
<1>4. CASE /\ ret' = Available(request.pos, request.len)
           /\ \A i \in 0 .. ret' - 1 : out'[i] = request.pos + i
  <2>1. Available(request.pos, request.len) = Disc!Available(request.pos, request.len)
    BY <1>1, SizesAssumption DEF Available, Min2, Disc!Available
  <2>2. [i \in 0 .. ret' - 1 |-> out'[i]] = [i \in 0 .. ret' - 1 |-> request.pos + i]
    BY <1>4
  <2> QED
    BY <1>2, <1>4, <2>1, <2>2 DEF Disc!Answer, Disc!NoRequest, Disc!Bytes
<1> QED
  BY <1>3, <1>4

\* The cache implements the disc: every answer is the bytes of the image or an
\* error, whatever was cached, prefetched or evicted before.
THEOREM CacheImplementsDisc == ASSUME WholeBlocks PROVE Spec => DiscSpec
<1>1. Init => Disc!Init
  BY DEF Init, Disc!Init, Disc!NoRequest, Disc!Bytes
<1>2. IInv /\ [Next]_vars => [Disc!Next]_(Disc!discVars)
  <2> SUFFICES ASSUME IInv, [Next]_vars PROVE [Disc!Next]_(Disc!discVars)
    OBVIOUS
  <2>1. CASE Search \/ ReadHit \/ ReadSmall \/ ReadMiss \/ AddCacheHit \/ AddCacheMiss
    <3>1. pc # "idle" /\ pc' # "idle" /\ request' = request
      BY <2>1 DEF Search, SearchLeft, SearchRight, SearchHit, SearchFail, ReadHit,
                  ReadSmall, ReadMiss, AddCacheHit, AddCacheMiss, AddCacheReturn, Lookup
    <3> QED
      BY <3>1, InnerStep
  <2>2. CASE Fill \/ NoPrefetch \/ LoadRequestIdx \/ TakeRequest
    <3>1. pc # "idle" /\ pc' # "idle" /\ request' = request
      BY <2>2 DEF Fill, FillRead, FillEof, FillError, NoPrefetch, LoadRequestIdx,
                  TakeRequest, AddCacheLoop, AddCacheReturn, Lookup
    <3> QED
      BY <3>1, InnerStep
  <2>3. CASE Bypass
    <3>1. pc = "bypass" /\ pc' = "idle" /\ arg = request
      BY <2>3 DEF Bypass, Return, IInv, BypassInv
    <3>0. /\ request.pos \in Nat /\ request.len \in 0 .. MaxLen /\ MaxLen \in Nat
          /\ DOMAIN out = 0 .. MaxLen - 1
      BY SizesAssumption DEF IInv, TypeOK, Request
    <3>2. Available(request.pos, request.len) \in 0 .. request.len
      BY <3>0, SizesAssumption DEF Available, Min2
    <3>3. \/ ret' = -1
          \/ /\ ret' = Available(request.pos, request.len)
             /\ out' = [i \in DOMAIN out |-> IF i < Available(request.pos, request.len)
                                             THEN request.pos + i ELSE out[i]]
      BY <2>3, <3>1 DEF Bypass
    <3>4. \/ ret' = -1
          \/ /\ ret' = Available(request.pos, request.len)
             /\ \A i \in 0 .. ret' - 1 : out'[i] = request.pos + i
      BY <3>0, <3>2, <3>3
    <3> QED
      BY <3>1, <3>4, AnswerStep DEF Disc!Next
  <2>4. CASE UpdateCacheInfo
    <3>1. pc = "age" /\ pc' = "idle" /\ ret' = ret /\ out' = out
      BY <2>4 DEF UpdateCacheInfo, Return
    <3>2. \/ ret' = -1
          \/ /\ ret' = Available(request.pos, request.len)
             /\ \A i \in 0 .. ret' - 1 : out'[i] = request.pos + i
      BY <3>1 DEF IInv, AnswerInv
    <3> QED
      BY <3>1, <3>2, AnswerStep DEF Disc!Next
  <2>5. ASSUME NEW r \in Requests, BeginRead(r) PROVE Disc!Next
    <3>1. pc = "idle" /\ pc' # "idle" /\ request' = r
      BY <2>5 DEF BeginRead, Lookup
    <3>2. Disc!Ask(r)
      BY <3>1 DEF Disc!Ask, Disc!NoRequest
    <3> QED
      BY <3>2 DEF Disc!Next
  <2>6. ASSUME UNCHANGED <<pc, request, ret, out>> PROVE UNCHANGED Disc!discVars
    BY <2>6 DEF Disc!discVars
  <2>7. ASSUME NEW a \in Adders, AdderStep(a) PROVE UNCHANGED Disc!discVars
    <3>1. UNCHANGED <<pc, request, ret, out>>
      BY <2>7 DEF AdderStep, StoreRequest, LoadAddIdx
    <3> QED
      BY <3>1, <2>6
  <2>8. ASSUME NEW p \in {"LRU", "RR"}, SetPolicy(p) PROVE UNCHANGED Disc!discVars
    <3>1. UNCHANGED <<pc, request, ret, out>>
      BY <2>8 DEF SetPolicy
    <3> QED
      BY <3>1, <2>6
  <2>9. CASE UNCHANGED vars
    <3>1. UNCHANGED <<pc, request, ret, out>>
      BY <2>9 DEF vars
    <3> QED
      BY <3>1, <2>6
  <2> QED
    BY <2>1, <2>2, <2>3, <2>4, <2>5, <2>7, <2>8, <2>9 DEF Next, ReaderStep
<1> QED
  BY <1>1, <1>2, InvariantHolds, PTL DEF Spec, DiscSpec, Disc!Spec
=============================================================================
