--------------------------- MODULE BatchingProofs ---------------------------
(***************************************************************************)
(* plan() is correct for every request, every size limit and every         *)
(* position: what TLC checks on small requests, proved.                    *)
(***************************************************************************)
EXTENDS Batching, FiniteSetTheorems, WellFoundedInduction, TLAPS

\* The middle of a range that is not yet empty is above its lower end, which is
\* why the search ends, and in the range.
LEMMA MiddleInRange ==
    ASSUME lo \in Nat, hi \in Nat, lo < hi
    PROVE  Middle \in Nat /\ lo < Middle /\ Middle <= hi
  BY DEF Middle

-----------------------------------------------------------------------------
(* The invariant.  While plan() runs the chunks are in the order of the    *)
(* items; Forward says about such a list what the properties say about     *)
(* the result.                                                             *)

Forward(cs, end) ==
    /\ cs \in Seq((0..request.length) \X (0..request.length))
    /\ cs = <<>> => end = 0
    /\ cs # <<>> => cs[1][1] = 0 /\ cs[Len(cs)][2] = end
    /\ \A i \in 1..Len(cs) :
          /\ cs[i][1] < cs[i][2]
          /\ Fits(cs[i][1], cs[i][2])
          /\ cs[i][2] < request.length => ~Fits(cs[i][1], cs[i][2] + 1)
    /\ \A i \in 1..(Len(cs) - 1) : cs[i][2] = cs[i + 1][1]

\* What the preflight has established so far.
Checked ==
    /\ phase = "header" => index = 0
    /\ phase \in {"items", "cut", "search", "planned"} => Acceptable(0, 0)
    /\ phase \in {"items", "cut", "search", "planned"} =>
          \A i \in 0..(index - 1) : SingleFits(i)
    /\ phase \in {"cut", "search", "planned"} => index = request.length

\* The binary search: lo fits, hi + 1 does not.
Search ==
    phase = "search" =>
        /\ start < lo /\ lo <= hi
        /\ Fits(start, lo)
        /\ hi < request.length => ~Fits(start, hi + 1)

\* The list of chunks, and when there is none.
Listed ==
    /\ phase # "planned" => Forward(chunks, start)
    /\ phase \in {"header", "items"} => chunks = <<>> /\ start = 0
    /\ phase = "rejected" => chunks = <<>> /\ start = 0
    /\ phase = "rejected" /\ Acceptable(0, 0) =>
          \E i \in 0..(request.length - 1) : ~SingleFits(i)
    /\ phase = "planned" =>
          \E cs : /\ chunks = InSendOrder(cs)
                  /\ start = request.length
                  /\ IF request.length = 0 THEN cs = <<<<0, 0>>>>
                     ELSE Forward(cs, start) /\ cs # <<>>

PlanInv == PlanTypeOK /\ Checked /\ Search /\ Listed

\* It holds before the header is checked.
LEMMA PlanInvInit == PlanInit => PlanInv
<1> SUFFICES ASSUME PlanInit PROVE PlanInv
  OBVIOUS
<1>1. RequestType(request)
  BY RequestAssumption DEF PlanInit
<1>2. PlanTypeOK
  BY <1>1 DEF PlanInit, PlanTypeOK, RequestType
<1>3. Checked /\ Search
  BY DEF PlanInit, Checked, Search
<1>4. Forward(<<>>, 0)
  BY DEF Forward
<1>5. Listed
  BY <1>4 DEF PlanInit, Listed
<1> QED
  BY <1>2, <1>3, <1>5 DEF PlanInv

\* Appending a chunk that fits, and that no further item would, keeps a list in
\* order.
LEMMA ForwardAppend ==
    ASSUME PlanTypeOK, Forward(chunks, start), start < lo, Fits(start, lo),
           lo < request.length => ~Fits(start, lo + 1)
    PROVE  Forward(Append(chunks, <<start, lo>>), lo)
<1> DEFINE cs == Append(chunks, <<start, lo>>)
           n == Len(chunks)
           Pair == (0..request.length) \X (0..request.length)
<1>1. chunks \in Seq(Pair) /\ <<start, lo>> \in Pair
  BY DEF PlanTypeOK
<1>2. /\ cs \in Seq(Pair) /\ Len(cs) = n + 1 /\ n \in Nat
      /\ cs[n + 1] = <<start, lo>>
      /\ \A i \in 1..n : cs[i] = chunks[i]
  BY <1>1
<1> HIDE DEF cs, Pair
<1>3. \A i \in 1..Len(cs) :
          /\ cs[i][1] < cs[i][2]
          /\ Fits(cs[i][1], cs[i][2])
          /\ cs[i][2] < request.length => ~Fits(cs[i][1], cs[i][2] + 1)
  <2> SUFFICES ASSUME NEW i \in 1..(n + 1)
               PROVE  /\ cs[i][1] < cs[i][2]
                      /\ Fits(cs[i][1], cs[i][2])
                      /\ cs[i][2] < request.length => ~Fits(cs[i][1], cs[i][2] + 1)
    BY <1>2
  <2>1. CASE i = n + 1
    BY <1>2, <2>1
  <2>2. CASE i # n + 1
    <3>1. i \in 1..n
      BY <1>2, <2>2
    <3> QED
      BY <1>2, <3>1 DEF Forward
  <2> QED
    BY <2>1, <2>2
<1>4. \A i \in 1..(Len(cs) - 1) : cs[i][2] = cs[i + 1][1]
  <2> SUFFICES ASSUME NEW i \in 1..n PROVE cs[i][2] = cs[i + 1][1]
    BY <1>2
  <2>1. CASE i = n
    <3>1. chunks # <<>> /\ chunks[n][2] = start
      BY <1>1, <2>1 DEF Forward
    <3> QED
      BY <1>2, <2>1, <3>1
  <2>2. CASE i # n
    <3>1. i \in 1..(n - 1) /\ i \in 1..n /\ i + 1 \in 1..n
      BY <1>2, <2>2
    <3> QED
      BY <1>2, <3>1 DEF Forward
  <2> QED
    BY <2>1, <2>2
<1>5. cs # <<>> /\ cs[1][1] = 0 /\ cs[Len(cs)][2] = lo
  <2>0. cs # <<>>
    BY <1>2
  <2>1. CASE chunks = <<>>
    <3>1. n = 0 /\ start = 0
      BY <2>1 DEF Forward
    <3>2. cs[1] = <<0, lo>> /\ Len(cs) = 1
      BY <1>2, <3>1
    <3> QED
      BY <2>0, <3>2
  <2>2. CASE chunks # <<>>
    <3>1. 1 \in 1..n /\ chunks[1][1] = 0
      BY <1>1, <2>2 DEF Forward
    <3> QED
      BY <1>2, <2>0, <3>1
  <2> QED
    BY <2>1, <2>2
<1> QED
  BY <1>2, <1>3, <1>4, <1>5 DEF Forward, cs, Pair

\* A list of chunks read backwards is a list of chunks.
LEMMA ReverseType ==
    ASSUME NEW S, NEW cs \in Seq(S)
    PROVE  Reverse(cs) \in Seq(S)
<1>1. \A i \in 1..Len(cs) : Len(cs) - i + 1 \in 1..Len(cs)
  OBVIOUS
<1>2. \A i \in 1..Len(cs) : cs[Len(cs) - i + 1] \in S
  BY <1>1
<1> QED
  BY <1>2 DEF Reverse

\* Each step of plan() preserves the invariant.
LEMMA PlanInvStep == PlanInv /\ [PlanStep]_plan_vars => PlanInv'
<1> SUFFICES ASSUME PlanInv, [PlanStep]_plan_vars PROVE PlanInv'
  OBVIOUS
<1>0. RequestType(request) /\ request.length \in Nat
  BY RequestAssumption DEF PlanInv, PlanTypeOK, RequestType
<1> USE DEF PlanInv
<1>1. ASSUME request' = request, chunks' = chunks, start' = start
      PROVE  /\ \A i : SingleFits(i)' <=> SingleFits(i)
             /\ Acceptable(0, 0)' <=> Acceptable(0, 0)
             /\ Forward(chunks, start)' <=> Forward(chunks, start)
  BY <1>1 DEF SingleFits, Acceptable, PositionOverflow, Positioned, PositionOf,
     PositionBytes, Reserved, Fits, Forward
<1>2. ASSUME Reject, phase \in {"header", "items"},
             Acceptable(0, 0) => \E i \in 0..(request.length - 1) : ~SingleFits(i)
      PROVE  PlanInv'
  <2>1. PlanTypeOK'
    BY <1>2 DEF Reject, PlanTypeOK
  <2>2. Checked' /\ Search'
    BY <1>2 DEF Reject, Checked, Search
  <2>3. Listed'
    BY <1>1, <1>2 DEF Reject, Listed
  <2> QED
    BY <2>1, <2>2, <2>3
<1>3. CASE CheckHeader
  <2>1. CASE Acceptable(0, 0)
    <3>1. phase = "header" /\ phase' = "items" /\ UNCHANGED <<request, index, start, lo, hi, chunks>>
      BY <1>3, <2>1 DEF CheckHeader
    <3>2. PlanTypeOK'
      BY <3>1 DEF PlanTypeOK
    <3>3. Checked' /\ Search'
      BY <1>1, <2>1, <3>1 DEF Checked, Search
    <3>4. Listed'
      BY <1>1, <3>1 DEF Listed
    <3> QED
      BY <3>2, <3>3, <3>4
  <2>2. CASE ~Acceptable(0, 0)
    BY <1>2, <1>3, <2>2 DEF CheckHeader
  <2> QED
    BY <2>1, <2>2
<1>4. CASE CheckItem
  <2>1. index \in 0..(request.length - 1)
    BY <1>0, <1>4 DEF CheckItem, PlanTypeOK
  <2>2. CASE Acceptable(index, index + 1)
    <3>1. /\ phase = "items" /\ index' = index + 1
          /\ UNCHANGED <<request, phase, start, lo, hi, chunks>>
      BY <1>4, <2>2 DEF CheckItem
    <3>2. PlanTypeOK'
      BY <1>0, <2>1, <3>1 DEF PlanTypeOK
    <3>3. \A i \in 0..(index' - 1) : SingleFits(i)
      BY <2>1, <2>2, <3>1 DEF Checked, SingleFits
    <3>4. Checked' /\ Search'
      BY <1>1, <3>1, <3>3 DEF Checked, Search
    <3>5. Listed'
      BY <1>1, <3>1 DEF Listed
    <3> QED
      BY <3>2, <3>4, <3>5
  <2>3. CASE ~Acceptable(index, index + 1)
    BY <1>2, <1>4, <2>1, <2>3 DEF CheckItem, SingleFits
  <2> QED
    BY <2>2, <2>3
<1>5. CASE StartCutting
  <2>1. phase = "items" /\ index = request.length /\ phase' = "cut"
        /\ UNCHANGED <<request, index, start, lo, hi, chunks>>
    BY <1>5 DEF StartCutting
  <2>2. PlanTypeOK'
    BY <2>1 DEF PlanTypeOK
  <2>3. Checked' /\ Search'
    BY <1>1, <2>1 DEF Checked, Search
  <2>4. Listed'
    BY <1>1, <2>1 DEF Listed
  <2> QED
    BY <2>2, <2>3, <2>4
<1>6. CASE Cut
  <2>1. /\ phase = "cut" /\ start < request.length /\ phase' = "search"
        /\ lo' = start + 1 /\ hi' = request.length
        /\ UNCHANGED <<request, index, start, chunks>>
    BY <1>6 DEF Cut
  <2>2. PlanTypeOK'
    BY <1>0, <2>1 DEF PlanTypeOK
  <2>3. SingleFits(start)
    BY <1>0, <2>1 DEF Checked, PlanTypeOK
  <2>4. Fits(start, start + 1)
    BY <2>3 DEF SingleFits, Acceptable
  <2>5. Search'
    BY <1>0, <2>1, <2>4 DEF Search, PlanTypeOK, Fits, Reserved, PositionBytes, PositionOf,
       Positioned
  <2>6. Checked' /\ Listed'
    BY <1>1, <2>1 DEF Checked, Listed
  <2> QED
    BY <2>2, <2>5, <2>6
<1>7. CASE Probe
  <2>1. phase = "search" /\ lo < hi
    BY <1>7 DEF Probe
  <2>2. Middle \in Nat /\ lo < Middle /\ Middle <= hi
    BY <2>1, MiddleInRange, <1>0 DEF PlanTypeOK
  <2>3. ~PositionOverflow(start, Middle)
    <3>1. request.length - 1 \in 0..(index - 1)
      BY <1>0, <2>1 DEF Checked, Search, PlanTypeOK
    <3>2. SingleFits(request.length - 1)
      BY <2>1, <3>1 DEF Checked
    <3>3. Positioned => request.pos \in Nat /\ request.pos + request.length <= MaxPos
      BY <1>0, <3>2, SizeAssumption DEF SingleFits, Acceptable, PositionOverflow, Positioned,
         RequestType
    <3> QED
      BY <1>0, <2>2, <3>3, SizeAssumption DEF PositionOverflow, PlanTypeOK
  <2>4. Narrow /\ UNCHANGED <<request, phase, index, start, chunks>>
    BY <1>7, <2>3 DEF Probe
  <2>5. PlanTypeOK'
    <3>1. lo' \in {lo, Middle} /\ hi' \in {hi, Middle - 1}
      BY <2>4 DEF Narrow
    <3>2. lo \in 0..request.length /\ hi \in 0..request.length
      BY DEF PlanTypeOK
    <3>3. Middle \in 0..request.length /\ Middle - 1 \in 0..request.length
      BY <1>0, <2>2, <3>2
    <3> QED
      BY <2>4, <3>1, <3>2, <3>3 DEF PlanTypeOK
  <2>6. Checked' /\ Listed'
    BY <1>1, <2>1, <2>4 DEF Checked, Listed
  <2>7. \A i, j : Fits(i, j)' <=> Fits(i, j)
    BY <2>4 DEF Fits, Reserved, PositionBytes, PositionOf, Positioned
  <2>8. Search'
    <3>1. CASE Fits(start, Middle)
      BY <1>0, <2>1, <2>2, <2>4, <2>7, <3>1 DEF Narrow, Search, PlanTypeOK
    <3>2. CASE ~Fits(start, Middle)
      <4>1. hi' = Middle - 1 /\ lo' = lo /\ start' = start /\ request' = request
        BY <2>4, <3>2 DEF Narrow
      <4>2. hi' + 1 = Middle /\ lo' <= hi'
        BY <1>0, <2>2, <4>1 DEF PlanTypeOK
      <4>3. start < lo /\ Fits(start, lo)
        BY <2>1 DEF Search
      <4> HIDE DEF Middle
      <4> QED
        BY <2>7, <3>2, <4>1, <4>2, <4>3 DEF Search
    <3> QED
      BY <3>1, <3>2
  <2> QED
    BY <2>5, <2>6, <2>8
<1>8. CASE Emit
  <2>1. /\ phase = "search" /\ lo >= hi
        /\ chunks' = Append(chunks, <<start, lo>>) /\ start' = lo /\ phase' = "cut"
        /\ UNCHANGED <<request, index, lo, hi>>
    BY <1>8 DEF Emit
  <2>2. lo = hi /\ start < lo /\ Fits(start, lo)
        /\ (lo < request.length => ~Fits(start, lo + 1))
    <3>1. /\ start < lo /\ lo <= hi /\ Fits(start, lo)
          /\ hi < request.length => ~Fits(start, hi + 1)
      BY <2>1 DEF Search
    <3>2. lo = hi
      BY <1>0, <2>1, <3>1 DEF PlanTypeOK
    <3> QED
      BY <3>1, <3>2
  <2>3. Forward(chunks', start')
    BY <2>1, <2>2, ForwardAppend DEF Listed
  <2>4. PlanTypeOK'
    BY <2>1 DEF PlanTypeOK
  <2>5. Forward(chunks, start)'
    <3>1. \A i, j : Fits(i, j)' <=> Fits(i, j)
      BY <2>1 DEF Fits, Reserved, PositionBytes, PositionOf, Positioned
    <3> QED
      BY <2>1, <2>3, <3>1 DEF Forward
  <2>6. Listed' /\ Search'
    BY <2>1, <2>5 DEF Listed, Search
  <2>7. Checked'
    BY <2>1 DEF Checked, SingleFits, Acceptable, PositionOverflow, Positioned, PositionOf,
       PositionBytes, Reserved, Fits
  <2> QED
    BY <2>4, <2>6, <2>7
<1>9. CASE Planned
  <2>0. PICK cs : cs = IF chunks = <<>> THEN <<<<0, 0>>>> ELSE chunks
    OBVIOUS
  <2>1. /\ phase = "cut" /\ start >= request.length /\ phase' = "planned"
        /\ chunks' = InSendOrder(cs)
        /\ UNCHANGED <<request, index, start, lo, hi>>
    BY <1>9, <2>0 DEF Planned
  <2>2. start = request.length /\ Forward(chunks, start)
    BY <1>0, <2>1 DEF PlanTypeOK, Listed
  <2>3. IF request.length = 0 THEN cs = <<<<0, 0>>>> ELSE Forward(cs, start) /\ cs # <<>>
    <3>1. CASE chunks = <<>>
      BY <2>0, <2>2, <3>1 DEF Forward
    <3>2. CASE chunks # <<>>
      <4>1. request.length # 0
        <5>1. 1 \in 1..Len(chunks)
          BY <3>2 DEF PlanTypeOK
        <5>2. chunks[1] \in (0..request.length) \X (0..request.length)
          BY <5>1 DEF PlanTypeOK
        <5>3. chunks[1][1] < chunks[1][2]
          BY <2>2, <5>1 DEF Forward
        <5> QED
          BY <1>0, <5>2, <5>3
      <4> QED
        BY <2>0, <2>2, <3>2, <4>1
    <3> QED
      BY <3>1, <3>2
  <2>4. cs \in Seq((0..request.length) \X (0..request.length))
    <3>1. <<0, 0>> \in (0..request.length) \X (0..request.length)
      BY <1>0
    <3>2. <<<<0, 0>>>> \in Seq((0..request.length) \X (0..request.length))
      BY <3>1
    <3> QED
      BY <2>0, <3>2 DEF PlanTypeOK
  <2>5. PlanTypeOK'
    <3>1. InSendOrder(cs) \in Seq((0..request.length) \X (0..request.length))
      BY <2>4, ReverseType DEF InSendOrder
    <3> QED
      BY <2>1, <3>1 DEF PlanTypeOK
  <2>6. Checked' /\ Search'
    BY <2>1 DEF Search, Checked, SingleFits, Acceptable, PositionOverflow, Positioned,
       PositionOf, PositionBytes, Reserved, Fits
  <2>7. /\ chunks' = InSendOrder(cs)' /\ start' = request'.length
        /\ IF request'.length = 0 THEN cs = <<<<0, 0>>>>
           ELSE Forward(cs, start)' /\ cs # <<>>
    <3>1. InSendOrder(cs)' = InSendOrder(cs)
      BY <2>1 DEF InSendOrder
    <3>2. Forward(cs, start)' <=> Forward(cs, start)
      BY <2>1 DEF Forward, Fits, Reserved, PositionBytes, PositionOf, Positioned
    <3> QED
      BY <2>1, <2>2, <2>3, <3>1, <3>2
  <2>8. Listed'
    BY <2>1, <2>7 DEF Listed
  <2> QED
    BY <2>5, <2>6, <2>8
<1>10. CASE PlanExpires
  <2>1. /\ phase \in {"header", "items", "cut"} /\ phase' = "expired"
        /\ UNCHANGED <<request, index, start, lo, hi, chunks>>
    BY <1>10 DEF PlanExpires
  <2>2. PlanTypeOK' /\ Checked' /\ Search'
    BY <2>1 DEF PlanTypeOK, Checked, Search
  <2>3. Listed'
    BY <1>1, <2>1 DEF Listed
  <2> QED
    BY <2>2, <2>3
<1>11. CASE UNCHANGED plan_vars
  <2>1. UNCHANGED <<request, phase, index, start, lo, hi, chunks>>
    BY <1>11 DEF plan_vars
  <2>2. /\ \A i, j : Fits(i, j)' <=> Fits(i, j)
        /\ \A cs, end : Forward(cs, end)' <=> Forward(cs, end)
        /\ \A cs : InSendOrder(cs)' = InSendOrder(cs)
    BY <2>1 DEF Fits, Reserved, PositionBytes, PositionOf, Positioned, Forward, InSendOrder
  <2>3. PlanTypeOK' /\ Checked' /\ Search'
    BY <1>1, <2>1, <2>2 DEF PlanTypeOK, Checked, Search
  <2>4. Listed'
    BY <1>1, <2>1, <2>2 DEF Listed
  <2> QED
    BY <2>3, <2>4
<1> QED
  BY <1>3, <1>4, <1>5, <1>6, <1>7, <1>8, <1>9, <1>10, <1>11 DEF PlanStep

-----------------------------------------------------------------------------
(* The results.                                                            *)

\* Of a list in order, or of the single empty chunk, in either direction.
LEMMA ReadBackwards ==
    ASSUME NEW cs \in Seq(Int \X Int), NEW i \in 1..Len(cs)
    PROVE  /\ Len(Reverse(cs)) = Len(cs)
           /\ Len(cs) - i + 1 \in 1..Len(cs)
           /\ Reverse(cs)[i] = cs[Len(cs) - i + 1]
           /\ Reverse(cs)[Len(cs) + 1 - i] = cs[i]
  BY DEF Reverse

\* What plan() returns, read in the order of the items, is the list it built.
LEMMA InOrderIsForward ==
    ASSUME PlanInv
    PROVE  \E cs \in Seq((0..request.length) \X (0..request.length)) :
              /\ Len(chunks) = Len(cs)
              /\ \A i \in 1..Len(cs) : InOrder(i) = cs[i]
              /\ \A i \in 1..Len(cs) : \E j \in 1..Len(cs) : chunks[i] = cs[j]
              /\ \/ Forward(cs, start) /\ (phase = "planned" => cs # <<>> /\ request.length # 0)
                 \/ phase = "planned" /\ request.length = 0 /\ cs = <<<<0, 0>>>>
              /\ phase = "planned" => start = request.length
<1>0. RequestType(request) /\ request.length \in Nat
  BY RequestAssumption DEF PlanInv, PlanTypeOK, RequestType
<1>1. CASE phase # "planned"
  <2>1. Forward(chunks, start)
    BY <1>1 DEF PlanInv, Listed
  <2>2. chunks \in Seq((0..request.length) \X (0..request.length))
    BY DEF PlanInv, PlanTypeOK
  <2>3. \A i \in 1..Len(chunks) : InOrder(i) = chunks[i]
    BY <1>1 DEF InOrder
  <2> QED
    BY <1>1, <2>1, <2>2, <2>3
<1>2. CASE phase = "planned"
  <2>1. PICK cs : /\ chunks = InSendOrder(cs)
                  /\ start = request.length
                  /\ IF request.length = 0 THEN cs = <<<<0, 0>>>>
                     ELSE Forward(cs, start) /\ cs # <<>>
    BY <1>2 DEF PlanInv, Listed
  <2>2. cs \in Seq((0..request.length) \X (0..request.length))
    <3>1. <<0, 0>> \in (0..request.length) \X (0..request.length)
      BY <1>0
    <3>2. <<<<0, 0>>>> \in Seq((0..request.length) \X (0..request.length))
      BY <3>1
    <3> QED
      BY <2>1, <3>2 DEF Forward
  <2>3. cs \in Seq(Int \X Int)
    <3>1. (0..request.length) \X (0..request.length) \subseteq Int \X Int
      OBVIOUS
    <3> QED
      BY <2>2, <3>1
  <2>4. Len(chunks) = Len(cs) /\ \A i \in 1..Len(cs) : InOrder(i) = cs[i]
    <3>1. CASE request.after
      <4>1. chunks = Reverse(cs)
        BY <2>1, <3>1 DEF InSendOrder
      <4>2. Len(Reverse(cs)) = Len(cs)
        BY <2>3 DEF Reverse
      <4>3. ASSUME NEW i \in 1..Len(cs) PROVE InOrder(i) = cs[i]
        BY <1>2, <2>3, <3>1, <4>1, <4>2, ReadBackwards DEF InOrder
      <4> QED
        BY <4>1, <4>2, <4>3
    <3>2. CASE ~request.after
      BY <2>1, <3>2 DEF InSendOrder, InOrder
    <3> QED
      BY <3>1, <3>2
  <2>5. \A i \in 1..Len(cs) : \E j \in 1..Len(cs) : chunks[i] = cs[j]
    <3>1. CASE request.after
      <4>1. chunks = Reverse(cs)
        BY <2>1, <3>1 DEF InSendOrder
      <4> QED
        BY <2>3, <4>1, ReadBackwards
    <3>2. CASE ~request.after
      BY <2>1, <3>2 DEF InSendOrder
    <3> QED
      BY <3>1, <3>2
  <2> QED
    BY <1>2, <2>1, <2>2, <2>4, <2>5
<1> QED
  BY <1>1, <1>2

\* The properties that TLC checks on small requests follow from the invariant.
LEMMA PlanConsequences ==
    ASSUME PlanInv
    PROVE  /\ PlanTypeOK /\ ChunksFit /\ ChunksPartition /\ ChunksMaximal
           /\ RejectedEarly
<1>0. RequestType(request) /\ request.length \in Nat
  BY RequestAssumption DEF PlanInv, PlanTypeOK, RequestType
<1>1. PICK cs \in Seq((0..request.length) \X (0..request.length)) :
              /\ Len(chunks) = Len(cs)
              /\ \A i \in 1..Len(cs) : InOrder(i) = cs[i]
              /\ \A i \in 1..Len(cs) : \E j \in 1..Len(cs) : chunks[i] = cs[j]
              /\ \/ Forward(cs, start) /\ (phase = "planned" => cs # <<>> /\ request.length # 0)
                 \/ phase = "planned" /\ request.length = 0 /\ cs = <<<<0, 0>>>>
              /\ phase = "planned" => start = request.length
  BY InOrderIsForward
<1>2. chunks \in Seq((0..request.length) \X (0..request.length))
  BY DEF PlanInv, PlanTypeOK
<1>3. ASSUME Forward(cs, start), phase = "planned" => cs # <<>> /\ request.length # 0
      PROVE  ChunksFit /\ ChunksPartition /\ ChunksMaximal
  <2>1. ChunksFit
    BY <1>1, <1>3 DEF ChunksFit, Forward
  <2>2. ChunksMaximal
    BY <1>1, <1>3 DEF ChunksMaximal, Forward
  <2>3. ChunksPartition
    <3>1. chunks = <<>> => start = 0
      BY <1>1, <1>2, <1>3 DEF Forward
    <3>2. phase = "planned" => start = request.length /\ chunks # <<>>
      BY <1>1, <1>2, <1>3
    <3>3. ASSUME chunks # <<>>
          PROVE  /\ InOrder(1)[1] = 0 /\ InOrder(Len(chunks))[2] = start
                 /\ \A i \in 1..Len(chunks) : InOrder(i)[1] < InOrder(i)[2]
                 /\ \A i \in 1..(Len(chunks) - 1) : InOrder(i)[2] = InOrder(i + 1)[1]
      <4>1. cs # <<>> /\ Len(cs) \in Nat \ {0}
        BY <1>1, <1>2, <3>3
      <4>2. 1 \in 1..Len(cs) /\ Len(cs) \in 1..Len(cs)
        BY <4>1
      <4>3. \A i \in 1..(Len(cs) - 1) : i \in 1..Len(cs) /\ i + 1 \in 1..Len(cs)
        BY <4>1
      <4>4. cs[1][1] = 0 /\ cs[Len(cs)][2] = start
        BY <1>3, <4>1 DEF Forward
      <4>5. \A i \in 1..Len(cs) : cs[i][1] < cs[i][2]
        BY <1>3 DEF Forward
      <4>6. \A i \in 1..(Len(cs) - 1) : cs[i][2] = cs[i + 1][1]
        BY <1>3 DEF Forward
      <4>7. /\ InOrder(1) = cs[1] /\ InOrder(Len(chunks)) = cs[Len(cs)]
            /\ Len(chunks) = Len(cs)
        BY <1>1, <4>2
      <4>8. \A i \in 1..Len(chunks) : InOrder(i)[1] < InOrder(i)[2]
        BY <1>1, <4>5
      <4>9. ASSUME NEW i \in 1..(Len(chunks) - 1) PROVE InOrder(i)[2] = InOrder(i + 1)[1]
        <5>1. InOrder(i) = cs[i] /\ InOrder(i + 1) = cs[i + 1]
          BY <1>1, <4>3, <4>7
        <5> QED
          BY <4>6, <4>7, <5>1
      <4> QED
        BY <4>4, <4>7, <4>8, <4>9
    <3> QED
      BY <3>1, <3>2, <3>3 DEF ChunksPartition
  <2> QED
    BY <2>1, <2>2, <2>3
<1>4. ASSUME phase = "planned", request.length = 0, cs = <<<<0, 0>>>>
      PROVE  ChunksFit /\ ChunksPartition /\ ChunksMaximal
  <2>1. Len(cs) = 1 /\ cs[1] = <<0, 0>> /\ Len(chunks) = 1 /\ chunks # <<>>
    <3>1. Len(cs) = 1 /\ cs[1] = <<0, 0>> /\ cs # <<>>
      BY <1>4
    <3>2. Len(chunks) = 1
      BY <1>1, <3>1
    <3>3. chunks # <<>>
      BY <1>1, <1>2, <3>1
    <3> QED
      BY <3>1, <3>2, <3>3
  <2>2. InOrder(1) = <<0, 0>> /\ chunks[1] = <<0, 0>>
    BY <1>1, <2>1
  <2>3. Fits(0, 0)
    BY <1>4 DEF PlanInv, Checked, Acceptable
  <2>4. ChunksFit
    BY <2>1, <2>2, <2>3 DEF ChunksFit
  <2>5. ChunksMaximal /\ ChunksPartition
    BY <1>1, <1>4, <2>1, <2>2 DEF ChunksMaximal, ChunksPartition
  <2> QED
    BY <2>4, <2>5
<1>5. RejectedEarly
  <2>1. phase = "planned" => \A i \in 0..(request.length - 1) : SingleFits(i)
    BY DEF PlanInv, Checked
  <2> QED
    BY <2>1 DEF RejectedEarly, PlanInv, Listed
<1> QED
  BY <1>1, <1>3, <1>4, <1>5 DEF PlanInv

\* Hence it holds throughout, and with it what follows from it.
LEMMA PlanAlways ==
    PlanSpec => [](PlanTypeOK /\ ChunksFit /\ ChunksPartition /\ ChunksMaximal
                    /\ RejectedEarly)
<1>1. PlanInv => PlanTypeOK /\ ChunksFit /\ ChunksPartition /\ ChunksMaximal
                    /\ RejectedEarly
  BY PlanConsequences
<1> QED
  BY <1>1, PlanInvInit, PlanInvStep, PTL DEF PlanSpec

\* plan() is right for every request and limit: its chunks are the items in order,
\* with none missing and none twice.
THEOREM PlanCorrect == PlanSpec => [](PlanTypeOK /\ ChunksPartition)
<1> QED
  BY PlanAlways, PTL

\* Every chunk that plan() returns can be sent, even with the largest key hint,
\* although the binary search does not look at its last answer again.
THEOREM EveryChunkFits == PlanSpec => []ChunksFit
<1> QED
  BY PlanAlways, PTL

\* The binary search of plan() stops at no end before the last that fits.
THEOREM EveryChunkIsMaximal == PlanSpec => []ChunksMaximal
<1> QED
  BY PlanAlways, PTL

\* plan() raises for an item that fits in no request before it has cut the first
\* chunk, and for no other reason than the header or such an item.
THEOREM RejectsBeforeCutting == PlanSpec => []RejectedEarly
<1> QED
  BY PlanAlways, PTL
-----------------------------------------------------------------------------
(* Positions.                                                              *)

\* Once there is a chunk, the position of the last item has been looked at.
Placed == chunks # <<>> /\ Positioned => request.pos + request.length <= MaxPos

\* The preflight of the last item is what no later chunk has to repeat.
LEMMA LastItemPlaced ==
    ASSUME PlanInv, phase \in {"cut", "search"}, Positioned
    PROVE  request.pos \in Nat /\ request.pos + request.length <= MaxPos
<1>0. RequestType(request) /\ request.length \in Nat
  BY RequestAssumption DEF PlanInv, PlanTypeOK, RequestType
<1>1. request.pos \in Nat
  BY <1>0 DEF RequestType, Positioned
<1>2. CASE request.length = 0
  <2>1. Acceptable(0, 0)
    BY DEF PlanInv, Checked
  <2> QED
    BY <1>0, <1>1, <1>2, <2>1, SizeAssumption DEF Acceptable, PositionOverflow
<1>3. CASE request.length # 0
  <2>1. request.length - 1 \in 0..(index - 1)
    BY <1>0, <1>3 DEF PlanInv, Checked
  <2>2. Acceptable(request.length - 1, (request.length - 1) + 1)
    BY <2>1 DEF PlanInv, Checked, SingleFits
  <2> QED
    BY <1>0, <1>1, <2>2, SizeAssumption DEF Acceptable, PositionOverflow
<1> QED
  BY <1>2, <1>3

\* Only a cut adds chunks, and it comes after the preflight.
LEMMA PlacedStep == PlanInv /\ Placed /\ [PlanStep]_plan_vars => Placed'
<1> SUFFICES ASSUME PlanInv, Placed, [PlanStep]_plan_vars PROVE Placed'
  OBVIOUS
<1>1. CASE Emit \/ Planned
  <2>1. phase \in {"cut", "search"} /\ UNCHANGED request
    BY <1>1 DEF Emit, Planned
  <2>2. Positioned => request.pos + request.length <= MaxPos
    BY <2>1, LastItemPlaced
  <2> QED
    BY <2>1, <2>2 DEF Placed, Positioned
<1>2. CASE ~(Emit \/ Planned)
  <2>1. UNCHANGED <<request, chunks>>
    BY <1>2 DEF PlanStep, CheckHeader, CheckItem, StartCutting, Cut, Probe, PlanExpires, Reject,
       plan_vars
  <2> QED
    BY <2>1 DEF Placed, Positioned
<1> QED
  BY <1>1, <1>2

\* The slices of a request whose last position is one keep clear of the sentinel.
LEMMA PlacedSuffices == PlanInv /\ Placed => PositionsStayPositions
<1> SUFFICES ASSUME PlanInv, Placed, NEW i \in 1..Len(chunks), Positioned,
                    chunks[i][1] < chunks[i][2]
             PROVE  PositionOf(chunks[i][1]) < MaxPos
  BY DEF PositionsStayPositions
<1>1. RequestType(request) /\ request.length \in Nat /\ request.pos \in Nat
  <2>1. RequestType(request)
    BY RequestAssumption DEF PlanInv, PlanTypeOK
  <2>2. request.length \in Nat /\ request.pos \in 0..MaxPos \cup {NoPos} /\ request.pos # NoPos
    BY <2>1 DEF RequestType, Positioned
  <2> QED
    BY <2>1, <2>2, SizeAssumption
<1>2. chunks \in Seq((0..request.length) \X (0..request.length))
  BY DEF PlanInv, PlanTypeOK
<1>3. chunks # <<>> /\ chunks[i] \in (0..request.length) \X (0..request.length)
  BY <1>2
<1>4. request.pos + request.length <= MaxPos
  BY <1>3 DEF Placed
<1> QED
  BY <1>1, <1>3, <1>4, SizeAssumption DEF PositionOf

\* Moving the insertion position along with the chunks never turns it into the
\* sentinel that means "at the end": every chunk plan() makes is sent to the place
\* its items would have had in one request.
THEOREM PositionsNeverOverflow == PlanSpec => []PositionsStayPositions
<1>1. PlanInit => Placed
  BY DEF PlanInit, Placed
<1> QED
  BY <1>1, PlanInvInit, PlanInvStep, PlacedStep, PlacedSuffices, PTL DEF PlanSpec
-----------------------------------------------------------------------------
(* Sizes. *)

\* A size is a number, and grows with the last item.
LEMMA Sizes ==
    ASSUME RequestType(request), NEW from \in 0..request.length
    PROVE  /\ PositionBytes(from) \in Nat
           /\ \A to \in 0..request.length : Reserved(from, to) \in Int
           /\ \A to, end \in 0..request.length : to <= end /\ Fits(from, end) => Fits(from, to)
<1>1. PositionBytes(from) \in Nat
  <2> DEFINE S == {limit \in VarintLimits : limit <= PositionOf(from)}
  <2>1. S \subseteq VarintLimits /\ IsFiniteSet(VarintLimits)
    BY SizeAssumption
  <2>2. Cardinality(S) \in Nat
    BY <2>1, FS_Subset, FS_CardinalityType
  <2> QED
    BY <2>2 DEF PositionBytes
<1> DEFINE upto == request.upto
           n == request.length
<1>2. /\ request.header \in Nat /\ request.reserve \in Nat /\ n \in Nat
      /\ upto \in [0..n -> Nat]
      /\ \A i, j \in 0..n : i < j => upto[i] < upto[j]
  BY DEF RequestType
<1> HIDE DEF upto, n
<1>3. ASSUME NEW to \in 0..n
      PROVE  /\ Reserved(from, to) \in Int /\ upto[to] \in Nat
             /\ \E rest \in Int : \A end \in 0..n : Reserved(from, end) = rest + upto[end]
  <2>1. upto[to] \in Nat /\ upto[from] \in Nat /\ from \in 0..n
    BY <1>2 DEF n
  <2> DEFINE rest == request.header + request.reserve + PositionBytes(from) - upto[from]
  <2>2. /\ request.header \in Nat /\ request.reserve \in Nat /\ PositionBytes(from) \in Nat
        /\ upto[from] \in Nat
    BY <1>1, <1>2, <2>1
  <2>3. rest \in Int
    BY ONLY <2>2
  <2>4. ASSUME NEW end \in 0..n PROVE Reserved(from, end) = rest + upto[end]
    <3>1. upto[end] \in Nat
      BY <1>2
    <3>2. /\ Reserved(from, end) = request.header + request.reserve + PositionBytes(from)
                                       + (upto[end] - upto[from])
      BY DEF Reserved, upto
    <3> QED
      BY ONLY <2>2, <3>1, <3>2
  <2> HIDE DEF rest
  <2>5. Reserved(from, to) = rest + upto[to]
    BY <2>4
  <2> QED
    BY <2>1, <2>3, <2>4, <2>5
<1>4. ASSUME NEW to \in 0..n, NEW end \in 0..n, to <= end, Fits(from, end)
      PROVE  Fits(from, to)
  <2>1. to < end \/ to = end
    BY <1>2, <1>4
  <2>2. upto[to] <= upto[end] /\ upto[to] \in Nat /\ upto[end] \in Nat
    BY <1>2, <2>1
  <2>3. PICK rest \in Int : \A e \in 0..n : Reserved(from, e) = rest + upto[e]
    BY <1>3
  <2>4. Reserved(from, to) = rest + upto[to] /\ Reserved(from, end) = rest + upto[end]
    BY <2>3
  <2>5. Reserved(from, end) <= MaxRpcSize /\ MaxRpcSize \in Nat
    BY <1>4, SizeAssumption DEF Fits
  <2> QED
    BY <2>2, <2>4, <2>5 DEF Fits
<1> QED
  BY <1>1, <1>3, <1>4 DEF n

\* A position further on costs at most one byte for every item it moves.
LEMMA PositionGrows ==
    ASSUME RequestType(request), NEW a \in 0..request.length, NEW s \in 0..request.length, a <= s
    PROVE  PositionBytes(s) <= PositionBytes(a) + (s - a)
<1> DEFINE p == request.pos
           Below(x) == {limit \in VarintLimits : limit <= p + x}
           Between == {limit \in VarintLimits : p + a < limit /\ limit <= p + s}
<1>1. a \in Nat /\ s \in Nat /\ VarintLimits \subseteq Nat /\ IsFiniteSet(VarintLimits)
  BY SizeAssumption DEF RequestType
<1>2. CASE ~Positioned
  <2>1. PositionBytes(s) = PositionBytes(a) /\ PositionBytes(a) \in Nat
    BY <1>2, Sizes DEF PositionBytes, PositionOf
  <2> QED
    BY <1>1, <2>1
<1>3. CASE Positioned
  <2>1. p \in Nat
    <3>1. p \in 0..MaxPos \cup {NoPos} /\ p # NoPos
      BY <1>3 DEF RequestType, Positioned
    <3> QED
      BY <3>1
  <2> HIDE DEF p
  <2>2. /\ Below(a) \in SUBSET VarintLimits /\ Between \in SUBSET VarintLimits
        /\ Below(s) = Below(a) \cup Between
        /\ Between \in SUBSET ((p + a + 1)..(p + s))
    <3>1. Below(a) \in SUBSET VarintLimits /\ Between \in SUBSET VarintLimits
      OBVIOUS
    <3>2. ASSUME NEW limit \in VarintLimits
          PROVE  /\ limit <= p + s <=> limit <= p + a \/ (p + a < limit /\ limit <= p + s)
                 /\ p + a < limit /\ limit <= p + s => limit \in (p + a + 1)..(p + s)
      <4>1. limit \in Nat
        BY <1>1
      <4> QED
        BY <1>1, <2>1, <4>1
    <3>3. Below(s) = Below(a) \cup Between
      BY <3>2
    <3>4. Between \in SUBSET ((p + a + 1)..(p + s))
      BY <3>2
    <3> QED
      BY <3>1, <3>3, <3>4
  <2>3. IsFiniteSet(Below(a)) /\ IsFiniteSet(Between) /\ IsFiniteSet(Below(a) \cap Between)
    BY <1>1, <2>2, FS_Subset
  <2> DEFINE A == Below(a)
             D == Between
  <2> HIDE DEF Below, Between
  <2>4. /\ Cardinality(Below(s)) =
              Cardinality(A) + Cardinality(D) - Cardinality(A \cap D)
    BY <2>2, <2>3, FS_Union DEF A, D
  <2>5. /\ Cardinality(A) \in Nat /\ Cardinality(D) \in Nat /\ Cardinality(A \cap D) \in Nat
    BY <2>3, FS_CardinalityType DEF A, D
  <2>6. Cardinality(D) <= s - a
    <3>1. p + a + 1 \in Int /\ p + s \in Int
      BY <1>1, <2>1
    <3>2. /\ IsFiniteSet((p + a + 1)..(p + s))
          /\ Cardinality((p + a + 1)..(p + s)) =
                IF p + a + 1 > p + s THEN 0 ELSE (p + s) - (p + a + 1) + 1
      BY <3>1, FS_Interval
    <3>3. Cardinality((p + a + 1)..(p + s)) = s - a
      BY <1>1, <2>1, <3>2
    <3>4. Cardinality(D) <= Cardinality((p + a + 1)..(p + s))
      BY <2>2, <3>2, FS_Subset DEF D
    <3> QED
      BY <3>3, <3>4
  <2>7. /\ PositionBytes(s) = 2 + Cardinality(Below(s))
        /\ PositionBytes(a) = 2 + Cardinality(A)
    BY <1>3 DEF PositionBytes, PositionOf, Positioned, Below, A, p
  <2> HIDE DEF A, D
  <2> QED
    BY <1>1, <2>4, <2>5, <2>6, <2>7
<1> QED
  BY <1>2, <1>3

LEMMA LeastElement ==
    ASSUME NEW T, T \subseteq Nat, T # {}
    PROVE  \E x \in T : \A y \in T : x <= y
<1> DEFINE Less == {p \in Nat \X Nat : p[1] < p[2]}
<1>1. IsWellFoundedOn(Less, Nat)
  BY NatLessThanWellFounded DEF OpToRel, Less
<1>2. PICK x \in T : \A y \in T : ~(<<y, x>> \in Less)
  BY <1>1, WFMin
<1>3. ASSUME NEW y \in T PROVE x <= y
  <2>1. x \in Nat /\ y \in Nat
    OBVIOUS
  <2>2. y < x => <<y, x>> \in Less
    BY <2>1 DEF Less
  <2> QED
    BY <1>2, <2>1, <2>2
<1> QED
  BY <1>3

\* Every item has at least one byte.
LEMMA UptoGrows ==
    ASSUME RequestType(request), NEW a \in 0..request.length, NEW s \in 0..request.length, a <= s
    PROVE  s - a <= request.upto[s] - request.upto[a]
<1> DEFINE n == request.length
           upto == request.upto
           T == {t \in 0..n : a <= t /\ ~(t - a <= upto[t] - upto[a])}
<1>1. /\ n \in Nat /\ upto \in [0..n -> Nat]
      /\ \A i, j \in 0..n : i < j => upto[i] < upto[j]
  BY DEF RequestType
<1> HIDE DEF n, upto
<1>2. ASSUME T # {} PROVE FALSE
  <2>1. T \subseteq Nat
    BY <1>1
  <2>2. PICK t \in T : \A y \in T : t <= y
    <3> HIDE DEF T
    <3> QED
      BY <1>2, <2>1, LeastElement
  <2>3. /\ t \in 0..n /\ a <= t /\ ~(t - a <= upto[t] - upto[a]) /\ a \in 0..n
        /\ upto[t] \in Nat /\ upto[a] \in Nat
    BY <1>1, <2>2 DEF n
  <2>4. a # t
    BY <1>1, <2>3
  <2>5. t - 1 \in 0..n /\ a <= t - 1 /\ ~(t <= t - 1)
    BY <1>1, <2>3, <2>4
  <2>6. (t - 1) - a <= upto[t - 1] - upto[a]
    BY <2>2, <2>5
  <2>7. upto[t - 1] < upto[t] /\ upto[t - 1] \in Nat
    <3>1. t - 1 \in 0..n /\ t \in 0..n /\ t - 1 < t
      BY <1>1, <2>3, <2>5
    <3> QED
      BY <1>1, <3>1
  <2> QED
    BY <2>3, <2>5, <2>6, <2>7
<1> QED
  BY <1>2 DEF n, upto

\* A slice of what fits fits.
LEMMA SmallerFits ==
    ASSUME RequestType(request),
           NEW a \in 0..request.length, NEW s \in 0..request.length,
           NEW t \in 0..request.length, NEW b \in 0..request.length,
           a <= s, t <= b, Fits(a, b)
    PROVE  Fits(s, t)
<1>1. Fits(a, t)
  BY Sizes
<1>2. /\ request.header \in Nat /\ request.reserve \in Nat /\ request.length \in Nat
      /\ request.upto[a] \in Nat /\ request.upto[s] \in Nat /\ request.upto[t] \in Nat
  BY DEF RequestType
<1>3. PositionBytes(a) \in Nat /\ PositionBytes(s) \in Nat
  BY Sizes
<1>4. PositionBytes(s) <= PositionBytes(a) + (s - a)
  BY PositionGrows
<1>5. s - a <= request.upto[s] - request.upto[a]
  BY UptoGrows
<1>6. a \in Nat /\ s \in Nat /\ MaxRpcSize \in Nat
  BY <1>2, SizeAssumption
<1> QED
  BY <1>1, <1>2, <1>3, <1>4, <1>5, <1>6 DEF Fits, Reserved

-----------------------------------------------------------------------------
(* No way to cut the items needs fewer requests. *)

\* Where a chunk is as long as can be, any other way has cut as well.
LEMMA CutInside ==
    ASSUME RequestType(request), NEW s \in 0..request.length, NEW e \in 0..request.length,
           e < request.length, s <= e, ~Fits(s, e + 1),
           NEW cuts \in SUBSET (1..(request.length - 1)), PieceFits(cuts)
    PROVE  \E c \in cuts : s < c /\ c <= e
<1> SUFFICES ASSUME \A c \in cuts : ~(s < c /\ c <= e) PROVE FALSE
  OBVIOUS
<1> DEFINE n == request.length
           B == {x \in cuts \cup {n} : x > s}
           D == {d \in 0..s : s - d \in cuts \cup {0}}
<1>1. n \in Nat /\ s \in 0..n /\ e \in 0..n /\ e < n /\ s <= e /\ cuts \in SUBSET (1..(n - 1))
  BY DEF RequestType
<1>2. \A x, y \in cuts \cup {0, n} : (x < y /\ ~\E c \in cuts : x < c /\ c < y) => Fits(x, y)
  BY DEF PieceFits
<1> HIDE DEF n
<1>3. n \in B /\ B \subseteq Nat
  <2>1. \A c \in cuts : c \in Nat
    BY <1>1
  <2>2. s < n
    BY <1>1
  <2> QED
    BY <1>1, <2>1, <2>2
<1>4. s \in D /\ D \subseteq Nat
  BY <1>1
<1>5. PICK b \in B : \A y \in B : b <= y
  <2> HIDE DEF B
  <2> QED
    BY <1>3, LeastElement
<1>6. PICK d \in D : \A y \in D : d <= y
  <2> HIDE DEF D
  <2> QED
    BY <1>4, LeastElement
<1> DEFINE a == s - d
<1>7. /\ a \in cuts \cup {0, n} /\ b \in cuts \cup {0, n}
      /\ a \in 0..n /\ b \in 0..n /\ a <= s /\ s < b
  BY <1>1, <1>5, <1>6
<1>8. e + 1 \in 0..n /\ e + 1 <= b
  BY <1>1, <1>5, <1>7
<1>9. ASSUME NEW c \in cuts, a < c, c < b PROVE FALSE
  <2>1. c \in 1..(n - 1) /\ c \in Nat /\ d \in 0..s
    BY <1>1, <1>6
  <2>2. CASE c > s
    <3>1. c \in B
      BY <2>2
    <3>2. b <= c
      BY <1>5, <3>1
    <3> QED
      BY <1>7, <1>9, <2>1, <3>2
  <2>3. CASE c <= s
    <3>1. s - c \in 0..s /\ s - (s - c) = c
      BY <1>1, <2>1, <2>3
    <3>2. s - c \in D
      BY <3>1
    <3>3. d <= s - c
      BY <1>6, <3>2
    <3> QED
      BY <1>1, <1>9, <2>1, <3>3
  <2> QED
    BY <1>1, <2>1, <2>2, <2>3
<1>10. Fits(a, b)
  <2>1. a < b
    BY <1>1, <1>7
  <2> HIDE DEF a
  <2> QED
    BY <1>2, <1>7, <1>9, <2>1
<1> HIDE DEF a
<1> QED
  BY <1>1, <1>7, <1>8, <1>10, SmallerFits DEF n

\* A list in order never goes back.
LEMMA ForwardRises ==
    ASSUME request.length \in Nat, NEW cs, Forward(cs, request.length), NEW i \in 1..Len(cs)
    PROVE  \A j \in 1..Len(cs) : i < j => cs[i][2] <= cs[j][1]
<1> DEFINE n == request.length
           m == Len(cs)
           T == {j \in 1..m : i < j /\ ~(cs[i][2] <= cs[j][1])}
<1>1. n \in Nat /\ m \in Nat /\ cs \in Seq((0..n) \X (0..n))
  BY SMTT(60) DEF Forward
<1>2. /\ \A j \in 1..m : cs[j] \in (0..n) \X (0..n) /\ cs[j][1] < cs[j][2]
      /\ \A j \in 1..(m - 1) : cs[j][2] = cs[j + 1][1]
  BY <1>1, SMTT(60) DEF Forward
<1>3. \A j \in 1..m : cs[j][1] \in Nat /\ cs[j][2] \in Nat
  BY <1>1, <1>2
<1> HIDE DEF n, m
<1>4. i \in 1..m
  BY DEF m
<1>5. ASSUME T # {} PROVE FALSE
  <2>1. T \subseteq Nat
    BY <1>1
  <2>2. PICK j \in T : \A y \in T : j <= y
    <3> HIDE DEF T
    <3> QED
      BY <1>5, <2>1, LeastElement
  <2>3. j \in 1..m /\ i < j /\ ~(cs[i][2] <= cs[j][1])
    BY <2>2
  <2>4. j - 1 \in 1..m /\ j - 1 \in 1..(m - 1) /\ ~(j <= j - 1) /\ (j - 1) + 1 = j
    BY <1>1, <1>4, <2>3
  <2>5. cs[j - 1][2] = cs[j][1] /\ cs[j - 1][1] < cs[j - 1][2]
    BY <1>2, <2>4
  <2>6. i # j - 1
    BY <1>3, <1>4, <2>3, <2>5
  <2>7. i < j - 1
    <3>1. i \in Int /\ j \in Int /\ i < j
      BY <1>4, <2>3
    <3> QED
      BY <2>6, <3>1
  <2>8. cs[i][2] <= cs[j - 1][1]
    BY <2>2, <2>4, <2>7
  <2>9. /\ cs[i][2] \in Nat /\ cs[j][1] \in Nat /\ cs[j - 1][1] \in Nat /\ cs[j - 1][2] \in Nat
    BY <1>3, <1>4, <2>3, <2>4
  <2>10. cs[i][2] <= cs[j - 1][2]
    BY <2>5, <2>8, <2>9
  <2>11. cs[i][2] <= cs[j][1]
    BY <2>5, <2>10, Zenon
  <2> QED
    BY <2>3, <2>11, Zenon
<1> QED
  BY <1>5 DEF m

LEMMA FewestCuts ==
    ASSUME RequestType(request), request.length > 0,
           NEW cs, Forward(cs, request.length), cs # <<>>,
           NEW cuts \in SUBSET (1..(request.length - 1)), PieceFits(cuts)
    PROVE  Len(cs) <= Cardinality(cuts) + 1
<1> DEFINE n == request.length
           m == Len(cs)
           S == 1..(m - 1)
<1>1. n \in Nat /\ m \in Nat \ {0} /\ cs \in Seq((0..n) \X (0..n))
  BY SMTT(60) DEF Forward, RequestType
<1>2. /\ \A i \in 1..m :
            /\ cs[i] \in (0..n) \X (0..n) /\ cs[i][1] < cs[i][2]
            /\ cs[i][2] < n => ~Fits(cs[i][1], cs[i][2] + 1)
      /\ \A i \in 1..(m - 1) : cs[i][2] = cs[i + 1][1]
  BY <1>1, SMTT(60) DEF Forward
<1>3. \A i \in 1..m : cs[i][1] \in 0..n /\ cs[i][2] \in 0..n
  BY <1>2
<1>4. \A i, j \in 1..m : i < j => cs[i][2] <= cs[j][1]
  BY <1>1, ForwardRises
<1> HIDE DEF n, m
<1>5. ASSUME NEW i \in S PROVE \E c \in cuts : cs[i][1] < c /\ c <= cs[i][2]
  <2>1. i \in 1..m /\ i + 1 \in 1..m /\ i \in 1..(m - 1)
    BY <1>1
  <2> DEFINE s == cs[i][1]
             e == cs[i][2]
             f == cs[i + 1][2]
  <2>2. s \in 0..n /\ e \in 0..n /\ s < e /\ (e < n => ~Fits(s, e + 1))
    BY <1>2, <1>3, <2>1
  <2>3. e < f /\ f \in 0..n
    BY <1>2, <1>3, <2>1
  <2> HIDE DEF s, e, f
  <2>4. e < n /\ s <= e
    BY <1>1, <2>2, <2>3
  <2>5. \E c \in cuts : s < c /\ c <= e
    BY <2>2, <2>4, CutInside DEF n
  <2> QED
    BY <2>5 DEF s, e
<1> DEFINE f == [i \in S |-> CHOOSE c \in cuts : cs[i][1] < c /\ c <= cs[i][2]]
<1>6. \A i \in S : f[i] \in cuts /\ cs[i][1] < f[i] /\ f[i] <= cs[i][2]
  BY <1>5
<1>7. f \in [S -> cuts]
  BY <1>6
<1> HIDE DEF f
<1>8. ASSUME NEW i \in S, NEW j \in S, i < j PROVE f[i] # f[j]
  <2>1. i \in 1..m /\ j \in 1..m
    BY <1>1
  <2>2. /\ cs[i][2] \in 0..n /\ cs[j][1] \in 0..n /\ cs[i][2] <= cs[j][1]
    BY <1>3, <1>4, <1>8, <2>1
  <2>3. f[i] \in Nat /\ f[j] \in Nat /\ f[i] <= cs[i][2] /\ cs[j][1] < f[j]
    <3>1. cuts \subseteq Nat
      BY <1>1 DEF n
    <3>2. f[i] \in cuts /\ f[j] \in cuts
      BY <1>6
    <3>3. f[i] <= cs[i][2] /\ cs[j][1] < f[j]
      BY <1>6
    <3> QED
      BY <3>1, <3>2, <3>3
  <2> DEFINE e == cs[i][2]
             s == cs[j][1]
  <2> HIDE DEF e, s
  <2>4. e \in Nat /\ s \in Nat /\ e <= s /\ f[i] <= e /\ s < f[j]
    BY <1>1, <2>2, <2>3 DEF e, s
  <2> QED
    BY <2>3, <2>4
<1>9. f \in Injection(S, cuts)
  <2>1. \A i, j \in S : f[i] = f[j] => i = j
    <3> SUFFICES ASSUME NEW i \in S, NEW j \in S, f[i] = f[j] PROVE i = j
      OBVIOUS
    <3>1. ~(i < j) /\ ~(j < i) /\ i \in Int /\ j \in Int
      BY <1>1, <1>8
    <3> QED
      BY <3>1
  <2> QED
    BY <1>7, <2>1 DEF Injection, IsInjective
<1>10. IsFiniteSet(cuts)
  <2>1. IsFiniteSet(1..(n - 1))
    BY <1>1, FS_Interval
  <2> QED
    BY <2>1, FS_Subset DEF n
<1>11. Cardinality(S) <= Cardinality(cuts) /\ Cardinality(cuts) \in Nat
  BY <1>9, <1>10, FS_Injection, FS_CardinalityType
<1>12. Cardinality(S) = m - 1
  <2>1. m - 1 \in Int /\ 1 \in Int
    BY <1>1
  <2>2. Cardinality(1..(m - 1)) = IF 1 > m - 1 THEN 0 ELSE (m - 1) - 1 + 1
    BY <2>1, FS_Interval
  <2> QED
    BY <1>1, <2>2
<1> HIDE DEF S
<1> QED
  BY <1>1, <1>11, <1>12 DEF m

\* "FewestChunks": the greedy cuts are the best: whoever cuts the same items so that all
\* requests fit needs at least as many of them.
THEOREM GreedyIsOptimal == PlanSpec => []FewestChunks
<1>1. PlanInv => FewestChunks
  <2> SUFFICES ASSUME PlanInv, phase = "planned", request.length > 0,
                      NEW cuts \in SUBSET (1..(request.length - 1)), PieceFits(cuts)
               PROVE  Len(chunks) <= Cardinality(cuts) + 1
    BY DEF FewestChunks
  <2>1. RequestType(request) /\ request.length \in Nat /\ request.length # 0
    BY RequestAssumption DEF PlanInv, PlanTypeOK, RequestType
  <2>2. PICK cs : chunks = InSendOrder(cs) /\ Forward(cs, request.length) /\ cs # <<>>
    BY <2>1 DEF PlanInv, Listed
  <2>3. Len(chunks) = Len(cs)
    <3>1. Len(Reverse(cs)) = Len(cs)
      BY <2>2 DEF Forward, Reverse
    <3> QED
      BY <2>2, <3>1 DEF InSendOrder
  <2> QED
    BY <2>1, <2>2, <2>3, FewestCuts
<1> QED
  BY <1>1, PlanInvInit, PlanInvStep, PTL DEF PlanSpec
=============================================================================
