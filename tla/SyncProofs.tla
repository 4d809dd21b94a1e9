----------------------------- MODULE SyncProofs -----------------------------
(***************************************************************************)
(* The synchronisation counts every confirmed event once, for any number of  *)
(* invocations, any size of a page and any span of blocks, whatever fails.    *)
(*                                                                         *)
(* The events are in the order of their blocks, so those up to a block are the *)
(* first Upto(block) ones and a page is an interval of positions, which may    *)
(* begin and end inside a block.  The invariant says of the job, and of the copy that each run works on, that what it has   *)
(* counted are the events before its checkpoint, all of them recorded.        *)
(***************************************************************************)
EXTENDS SyncProperties, FiniteSetTheorems, WellFoundedInduction, SequenceTheorems, TLAPS

Ordered ==
    /\ \A i, k \in 1..Now : i < k => chain[i].block <= chain[k].block
    /\ \A i \in 1..Now : chain[i].block <= height + 1

\* The escrow pays nothing first after it closed.
ClosedStaysUnpaid ==
    \A i, k \in 1..Now :
        i < k /\ chain[i].kind \in {"Closed", "Declined"} => chain[k].kind # "Upfront"

\* A copy of the job has counted the events before its checkpoint.
Counts(j) ==
    /\ j.block <= height
    /\ Partial(j) => j.index <= Now /\ j.block = chain[j.index].block
    /\ j.anchors = IF Partial(j) THEN j.index ELSE Upto(j.block)
    /\ 1..j.anchors \subseteq recorded

\* A run has recorded what it says it has; before it finishes it compared its count.
Keeps(r) ==
    r.pc \in {"save", "finish"} =>
        /\ Counts(r.job) /\ r.safe <= height
        /\ r.saved <= Cardinality(Page(r.job, r.safe))
        /\ 1..(r.job.anchors + r.saved) \subseteq recorded
        /\ r.pc = "finish" =>
              /\ r.saved = Cardinality(Page(r.job, r.safe))
              /\ CountsAgree(r.job, r.safe)

SyncInv ==
    /\ TypeOK
    /\ Ordered /\ ClosedStaysUnpaid
    /\ Counts(job)
    /\ \A w \in Workers : Keeps(run[w])

-----------------------------------------------------------------------------
(* Positions and blocks *)

LEMMA Constants ==
    /\ PageSize \in Nat /\ PageSize > 0 /\ Span \in Nat /\ Span > 0
    /\ MaxHeight \in Nat /\ MaxHeight > 0 /\ MaxEvents \in Nat /\ MaxEvents > 0
    /\ MaxSelections \in Nat
    /\ MaxFaults \in Nat /\ Sweeper \in Workers /\ None \notin Workers
  BY SyncAssumption DEF Workers

LEMMA ChainTypes ==
    ASSUME TypeOK
    PROVE  /\ Now \in Nat /\ Now <= MaxEvents /\ height \in Nat /\ height <= MaxHeight
           /\ chain \in Seq(Event)
           /\ \A i \in 1..Now : /\ chain[i] \in Event /\ chain[i].block \in 1..MaxHeight
                                /\ chain[i].block \in Nat /\ chain[i].block > 0
                                /\ chain[i].id \in Ids /\ chain[i].kind \in Kinds
  <1>1. chain \in Seq(Event) /\ Len(chain) <= MaxEvents /\ height \in 0..MaxHeight
    BY DEF TypeOK
  <1>2. Now \in Nat /\ Now = Len(chain)
    BY <1>1 DEF Now
  <1>3. ASSUME NEW i \in 1..Now
        PROVE  /\ chain[i] \in Event /\ chain[i].block \in 1..MaxHeight
               /\ chain[i].id \in Ids /\ chain[i].kind \in Kinds
    <2>1. chain[i] \in Event
      BY <1>1, <1>2, <1>3
    <2> QED BY <2>1, Zenon DEF Event
  <1>4. \A n \in 1..MaxHeight : n \in Nat /\ n > 0
    BY Constants
  <1> QED BY <1>1, <1>2, <1>3, <1>4, Constants

\* The events up to a block are the first ones.
LEMMA UptoShape ==
    ASSUME TypeOK, Ordered, NEW x \in Nat
    PROVE  /\ Upto(x) \in Nat /\ Upto(x) <= Now
           /\ \A i \in 1..Now : chain[i].block <= x <=> i <= Upto(x)
  <1> DEFINE S == {i \in 1..Now : chain[i].block <= x}
             T == {n \in Nat : n + 1 \notin S}
  <1>1. Now \in Nat /\ \A i \in 1..Now : chain[i].block \in Nat
    BY ChainTypes
  <1>2. Now \in T
    BY <1>1
  <1>3. PICK m \in T : \A n \in T : m <= n
    <2>1. T # {} /\ T \subseteq Nat
      BY <1>2
    <2> HIDE DEF T
    <2>2. PICK m \in T : \A n \in T : ~(<<n, m>> \in OpToRel(<, Nat))
      BY <2>1, NatLessThanWellFounded, WFMin
    <2>3. \A n \in T : ~(n < m)
      BY <2>1, <2>2 DEF OpToRel
    <2> QED BY <2>1, <2>3
  <1>4. m \in Nat /\ m <= Now /\ m + 1 \notin S
    BY <1>2, <1>3
  <1>5. ASSUME NEW i \in 1..m
        PROVE  i \in S
    <2>1. i - 1 \in Nat /\ i - 1 < m /\ (i - 1) + 1 = i
      BY <1>4
    <2>2. i - 1 \notin T
      BY <1>3, <2>1
    <2> QED BY <2>1, <2>2
  <1>6. ASSUME NEW i \in S
        PROVE  i \in 1..m
    <2>1. CASE m < i
      <3>1. m + 1 \in 1..Now /\ m + 1 <= i
        BY <1>1, <1>4, <2>1
      <3>2. chain[m + 1].block <= chain[i].block
        BY <1>1, <3>1 DEF Ordered
      <3>3. chain[m + 1].block <= x
        BY <1>1, <3>1, <3>2
      <3> QED BY <1>4, <3>1, <3>3
    <2> QED BY <1>4, <2>1
  <1>7. S = 1..m
    BY <1>5, <1>6
  <1>8. Cardinality(1..m) = m
    BY <1>4, FS_Interval
  <1>9. Upto(x) = m
    BY <1>7, <1>8 DEF Upto
  <1> QED BY <1>1, <1>4, <1>7, <1>9

LEMMA UptoGrows ==
    ASSUME TypeOK, Ordered, NEW x \in Nat, NEW y \in Nat, x <= y
    PROVE  Upto(x) <= Upto(y)
  <1>1. /\ Upto(x) \in Nat /\ Upto(y) \in Nat /\ Upto(x) <= Now /\ Now \in Nat
        /\ \A i \in 1..Now : chain[i].block <= x <=> i <= Upto(x)
        /\ \A i \in 1..Now : chain[i].block <= y <=> i <= Upto(y)
        /\ \A i \in 1..Now : chain[i].block \in Nat
    BY UptoShape, ChainTypes
  <1>2. CASE Upto(x) = 0
    BY <1>1, <1>2
  <1>3. CASE Upto(x) > 0
    <2>1. Upto(x) \in 1..Now
      BY <1>1, <1>3
    <2>2. chain[Upto(x)].block <= x
      BY <1>1, <2>1
    <2>3. chain[Upto(x)].block <= y
      BY <1>1, <2>1, <2>2
    <2> QED BY <1>1, <2>1, <2>3
  <1> QED BY <1>1, <1>2, <1>3

\* The first p elements of a set of numbers
FirstOf(L, p) == {i \in L : Cardinality({k \in L : k <= i}) <= p}

LEMMA IntervalRank ==
    ASSUME NEW a \in Nat, NEW b \in Nat, NEW i \in (a + 1)..b
    PROVE  Cardinality({k \in (a + 1)..b : k <= i}) = i - a
  <1>1. {k \in (a + 1)..b : k <= i} = (a + 1)..i
    OBVIOUS
  <1>2. a + 1 \in Int /\ i \in Int /\ a + 1 <= i
    OBVIOUS
  <1>3. Cardinality((a + 1)..i) = i - (a + 1) + 1
    BY <1>2, FS_Interval
  <1>4. i - (a + 1) + 1 = i - a
    BY <1>2
  <1> QED BY <1>1, <1>3, <1>4

LEMMA IntervalPrefix ==
    ASSUME NEW a \in Nat, NEW b \in Nat, NEW p \in Nat, NEW L, L = (a + 1)..b
    PROVE  \E m \in Nat :
              /\ FirstOf(L, p) = (a + 1)..(a + m)
              /\ Cardinality((a + 1)..(a + m)) = m
              /\ m <= p /\ (m > 0 => a + m <= b)
              /\ m < p => b <= a + m
  <1>1. \A i \in L : Cardinality({k \in L : k <= i}) = i - a
    BY IntervalRank
  <1> DEFINE m == IF a + p < b THEN p ELSE IF a < b THEN b - a ELSE 0
  <1>2. m \in Nat /\ m <= p /\ (m > 0 => a + m <= b) /\ (m < p => b <= a + m)
    OBVIOUS
  <1>3. FirstOf(L, p) = {i \in L : i - a <= p}
    BY <1>1 DEF FirstOf
  <1>4. {i \in L : i - a <= p} = (a + 1)..(a + m)
    OBVIOUS
  <1>5. Cardinality((a + 1)..(a + m)) = m
    BY <1>2, FS_Interval
  <1> QED BY <1>2, <1>3, <1>4, <1>5

LEMMA JobTypes ==
    ASSUME NEW j \in Job
    PROVE  /\ j.block \in Nat /\ j.block <= MaxHeight /\ j.index \in Nat /\ j.anchors \in Nat
           /\ j.index <= MaxEvents /\ j.anchors <= MaxEvents
           /\ j.id \in Ids /\ j.invalid \in Ids /\ j.requested \in BOOLEAN
  <1>1. /\ j.block \in 0..MaxHeight /\ j.index \in 0..MaxEvents /\ j.anchors \in 0..MaxEvents
        /\ j.id \in Ids /\ j.invalid \in Ids /\ j.requested \in BOOLEAN
    BY Zenon DEF Job
  <1> QED BY <1>1, Constants

LEMMA BlockRange ==
    ASSUME NEW j \in Job, NEW safe \in Nat
    PROVE  /\ FromBlock(j) \in Nat /\ FromBlock(j) > 0
           /\ ToBlock(j, safe) \in Nat /\ ToBlock(j, safe) <= safe
           /\ ToBlock(j, safe) < safe => j.block <= ToBlock(j, safe)
           /\ FromBlock(j) = IF j.block = 0 THEN 1 ELSE
                             IF Partial(j) THEN j.block ELSE j.block + 1
  <1>1. j.block \in Nat /\ Span \in Nat /\ Span > 0
    BY JobTypes, Constants
  <1>2. FromBlock(j) = IF j.block = 0 THEN 1 ELSE IF Partial(j) THEN j.block ELSE j.block + 1
    BY DEF FromBlock
  <1>3. FromBlock(j) \in Nat /\ FromBlock(j) > 0 /\ j.block <= FromBlock(j)
    BY <1>1, <1>2
  <1>4. ToBlock(j, safe) = IF FromBlock(j) + Span - 1 < safe THEN FromBlock(j) + Span - 1 ELSE safe
    BY DEF ToBlock
  <1> QED BY <1>1, <1>2, <1>3, <1>4

\* A page is the next events after those that the job has counted.
LEMMA LogsShape ==
    ASSUME TypeOK, Ordered, NEW j \in Job, Counts(j), NEW safe \in Nat
    PROVE  /\ Logs(j, safe) = (j.anchors + 1)..Upto(ToBlock(j, safe))
           /\ j.anchors <= Now
           /\ ToBlock(j, safe) < safe => j.anchors <= Upto(ToBlock(j, safe))
  <1> DEFINE to == ToBlock(j, safe)
             from == FromBlock(j)
             a == j.anchors
  <1>1. /\ Now \in Nat /\ to \in Nat /\ a \in Nat /\ j.block \in Nat /\ j.index \in Nat
        /\ \A i \in 1..Now : chain[i].block \in Nat /\ chain[i].block > 0
    BY ChainTypes, BlockRange, JobTypes
  <1>2. /\ Upto(to) \in Nat /\ Upto(to) <= Now
        /\ \A i \in 1..Now : chain[i].block <= to <=> i <= Upto(to)
    BY <1>1, UptoShape
  <1>3. /\ Upto(j.block) \in Nat /\ Upto(j.block) <= Now
        /\ \A i \in 1..Now : chain[i].block <= j.block <=> i <= Upto(j.block)
    BY <1>1, UptoShape
  <1>4. from = IF j.block = 0 THEN 1 ELSE IF Partial(j) THEN j.block ELSE j.block + 1
    BY <1>1, BlockRange
  <1>5. ASSUME NEW i \in 1..Now
        PROVE  (from <= chain[i].block /\ (Partial(j) => i > j.index)) <=> a < i
    <2>1. CASE Partial(j)
      <3>1. a = j.index /\ j.index \in 1..Now /\ j.block = chain[j.index].block
        BY <1>1, <2>1 DEF Counts, Partial
      <3>2. from = j.block
        BY <1>1, <1>4, <2>1, <3>1
      <3>3. a < i => j.block <= chain[i].block
        BY <3>1, <1>5 DEF Ordered
      <3> QED BY <1>1, <2>1, <3>1, <3>2, <3>3
    <2>2. CASE ~Partial(j)
      <3>1. a = Upto(j.block)
        BY <2>2 DEF Counts
      <3>2. from = j.block + 1
        BY <1>1, <1>4, <2>2
      <3> QED BY <1>1, <1>3, <1>5, <2>2, <3>1, <3>2
    <2> QED BY <2>1, <2>2
  <1>6. Logs(j, safe) = {i \in 1..Now : a < i /\ i <= Upto(to)}
    BY <1>2, <1>5 DEF Logs
  <1>7. {i \in 1..Now : a < i /\ i <= Upto(to)} = (a + 1)..Upto(to)
    <2> HIDE DEF a, to
    <2> QED BY <1>1, <1>2
  <1>8. a <= Now
    BY <1>1, <1>3 DEF Counts
  <1>9. ASSUME to < safe
        PROVE  a <= Upto(to)
    <2>1. j.block <= to
      BY <1>9, BlockRange
    <2>2. CASE Partial(j)
      <3>1. a \in 1..Now /\ chain[a].block = j.block
        BY <1>1, <2>2 DEF Counts, Partial
      <3> QED BY <1>2, <2>1, <3>1
    <2>3. CASE ~Partial(j)
      BY <1>1, <2>1, <2>3, UptoGrows DEF Counts
    <2> QED BY <2>2, <2>3
  <1> QED BY <1>6, <1>7, <1>8, <1>9

LEMMA PageShape ==
    ASSUME TypeOK, Ordered, NEW j \in Job, Counts(j), NEW safe \in Nat
    PROVE  \E m \in Nat :
              /\ Page(j, safe) = (j.anchors + 1)..(j.anchors + m)
              /\ Cardinality(Page(j, safe)) = m
              /\ j.anchors + m <= Now
              /\ ~Whole(j, safe) =>
                    m > 0 /\ j.anchors + m <= Upto(ToBlock(j, safe))
              /\ Whole(j, safe) /\ ToBlock(j, safe) < safe =>
                    j.anchors + m = Upto(ToBlock(j, safe))
  <1> DEFINE a == j.anchors
             b == Upto(ToBlock(j, safe))
  <1>1. /\ a \in Nat /\ Now \in Nat /\ ToBlock(j, safe) \in Nat
        /\ PageSize \in Nat /\ PageSize > 0
    BY JobTypes, ChainTypes, BlockRange, Constants
  <1>2. b \in Nat /\ b <= Now
    BY <1>1, UptoShape
  <1>3. /\ Logs(j, safe) = (a + 1)..b /\ a <= Now
        /\ ToBlock(j, safe) < safe => a <= b
    BY LogsShape
  <1>4. Page(j, safe) = FirstOf(Logs(j, safe), PageSize)
    BY DEF Page, FirstOf
  <1> HIDE DEF a, b
  <1>5. PICK m \in Nat :
           /\ Page(j, safe) = (a + 1)..(a + m)
           /\ Cardinality((a + 1)..(a + m)) = m
           /\ m <= PageSize /\ (m > 0 => a + m <= b)
           /\ m < PageSize => b <= a + m
    <2>1. \E m \in Nat :
              /\ FirstOf(Logs(j, safe), PageSize) = (a + 1)..(a + m)
              /\ Cardinality((a + 1)..(a + m)) = m
              /\ m <= PageSize /\ (m > 0 => a + m <= b)
              /\ m < PageSize => b <= a + m
      BY <1>1, <1>2, <1>3, IntervalPrefix
    <2> QED BY <1>4, <2>1
  <1>6. a + m <= Now
    BY <1>1, <1>2, <1>3, <1>5
  <1>7. ASSUME ~Whole(j, safe)
        PROVE  m > 0 /\ a + m <= b
    <2>1. (a + 1)..b # (a + 1)..(a + m)
      BY <1>3, <1>5, <1>7 DEF Whole
    <2> QED BY <1>1, <1>2, <1>5, <2>1
  <1>8. ASSUME Whole(j, safe), a <= b
        PROVE  a + m = b
    <2>1. (a + 1)..b = (a + 1)..(a + m)
      BY <1>3, <1>5, <1>8 DEF Whole
    <2>2. CASE a < b
      <3>1. b \in (a + 1)..(a + m)
        BY <1>1, <1>2, <2>1, <2>2
      <3>2. a + m \in (a + 1)..b
        BY <1>1, <1>2, <1>5, <2>1, <2>2, <3>1
      <3> QED BY <1>1, <1>2, <3>1, <3>2
    <2>3. CASE a = b
      BY <1>1, <1>2, <1>5, <2>3
    <2> QED BY <1>1, <1>2, <1>8, <2>2, <2>3
  <1> QED BY <1>3, <1>5, <1>6, <1>7, <1>8 DEF a, b

-----------------------------------------------------------------------------
(* What is counted stays counted *)

\* The chain keeps its events and adds one, if any, in the newest block.
Grows ==
    \/ chain' = chain /\ height' \in Nat /\ height <= height'
    \/ \E e \in Event : /\ chain' = Append(chain, e) /\ e.block = height + 1
                        /\ height' = height

LEMMA GrowsShape ==
    ASSUME TypeOK, Grows
    PROVE  /\ Len(chain') \in Nat /\ Now <= Len(chain') /\ height' \in Nat /\ height <= height'
           /\ \A i \in 1..Now : chain'[i] = chain[i]
           /\ \A i \in 1..Len(chain') : i \in 1..Now \/ chain'[i].block > height
           /\ chain' \in Seq(Event)
  <1>1. chain \in Seq(Event) /\ Now \in Nat /\ height \in Nat /\ Now = Len(chain)
    BY ChainTypes DEF Now
  <1>2. CASE chain' = chain /\ height' \in Nat /\ height <= height'
    BY <1>1, <1>2
  <1>3. ASSUME NEW e \in Event, chain' = Append(chain, e), e.block = height + 1,
               height' = height
        PROVE  /\ Len(chain') \in Nat /\ Now <= Len(chain') /\ height' \in Nat /\ height <= height'
               /\ \A i \in 1..Now : chain'[i] = chain[i]
               /\ \A i \in 1..Len(chain') : i \in 1..Now \/ chain'[i].block > height
               /\ chain' \in Seq(Event)
    <2>1. /\ chain' \in Seq(Event) /\ Len(chain') = Now + 1
          /\ \A i \in 1..Now : chain'[i] = chain[i]
          /\ chain'[Now + 1] = e
      BY <1>1, <1>3, AppendProperties
    <2>2. e.block > height
      BY <1>1, <1>3
    <2> QED BY <1>1, <1>3, <2>1, <2>2
  <1> QED BY <1>2, <1>3 DEF Grows

LEMMA UptoKept ==
    ASSUME TypeOK, Grows, NEW x \in Nat, x <= height
    PROVE  Upto(x)' = Upto(x)
  <1>1. /\ Len(chain') \in Nat /\ Now <= Len(chain') /\ Now \in Nat /\ height \in Nat
        /\ \A i \in 1..Now : chain'[i] = chain[i] /\ chain[i].block \in Nat
    BY GrowsShape, ChainTypes
  <1>2. ASSUME NEW i \in 1..Len(chain'), chain'[i].block <= x
        PROVE  i \in 1..Now
    <2>1. CASE chain'[i].block > height
      <3>1. chain'[i] \in Event
        BY GrowsShape
      <3>2. chain'[i].block \in Nat
        <4>1. chain'[i].block \in 1..MaxHeight
          BY <3>1, Zenon DEF Event
        <4> QED BY <4>1, Constants
      <3> QED BY <1>1, <1>2, <2>1, <3>2
    <2> QED BY <2>1, GrowsShape
  <1>3. {i \in 1..Len(chain') : chain'[i].block <= x} = {i \in 1..Now : chain[i].block <= x}
    BY <1>1, <1>2
  <1> QED BY <1>3 DEF Upto, Now

LEMMA PageKept ==
    ASSUME TypeOK, Grows, NEW j \in Job, NEW safe \in Nat, safe <= height
    PROVE  /\ Page(j, safe)' = Page(j, safe)
           /\ CountsAgree(j, safe) => CountsAgree(j, safe)'
  <1> DEFINE to == ToBlock(j, safe)
             from == FromBlock(j)
  <1>1. /\ Len(chain') \in Nat /\ Now <= Len(chain') /\ Now \in Nat /\ height \in Nat
        /\ \A i \in 1..Now : chain'[i] = chain[i] /\ chain[i].block \in Nat
    BY GrowsShape, ChainTypes
  <1>2. to \in Nat /\ to <= safe /\ from \in Nat
    BY BlockRange
  <1>3. ASSUME NEW i \in 1..Len(chain'), chain'[i].block <= to
        PROVE  i \in 1..Now
    <2>1. CASE chain'[i].block > height
      <3>1. chain'[i].block \in Nat
        <4>1. chain'[i] \in Event
          BY GrowsShape
        <4>2. chain'[i].block \in 1..MaxHeight
          BY <4>1, Zenon DEF Event
        <4> QED BY <4>2, Constants
      <3> QED BY <1>1, <1>2, <1>3, <2>1, <3>1
    <2> QED BY <2>1, GrowsShape
  <1>a. FromBlock(j)' = FromBlock(j) /\ ToBlock(j, safe)' = ToBlock(j, safe)
    BY DEF FromBlock, ToBlock, Partial
  <1>4. ASSUME NEW i
        PROVE  i \in Logs(j, safe)' <=>
                  i \in 1..Len(chain') /\ from <= chain'[i].block /\ chain'[i].block <= to
                  /\ (Partial(j) => i > j.index)
    BY <1>a DEF Logs, Now, Partial
  <1>5. ASSUME NEW i
        PROVE  i \in Logs(j, safe) <=>
                  i \in 1..Now /\ from <= chain[i].block /\ chain[i].block <= to
                  /\ (Partial(j) => i > j.index)
    BY DEF Logs
  <1> HIDE DEF to, from
  <1>6. Logs(j, safe)' = Logs(j, safe)
    <2>1. ASSUME NEW i
          PROVE  i \in Logs(j, safe)' <=> i \in Logs(j, safe)
      BY <1>1, <1>3, <1>4, <1>5
    <2> QED BY <2>1, Zenon
  <1>7. Page(j, safe)' = Page(j, safe)
    BY <1>6 DEF Page
  <1>8. Upto(safe)' = Upto(safe)
    BY UptoKept
  <1>9. CountsAgree(j, safe) => CountsAgree(j, safe)'
    BY <1>6, <1>7, <1>8 DEF CountsAgree, Complete, Whole, NextAnchors, ToBlock, FromBlock, Partial
  <1> QED BY <1>7, <1>9

LEMMA CountsKept ==
    ASSUME TypeOK, Grows, recorded \subseteq recorded', NEW j \in Job, Counts(j)
    PROVE  Counts(j)'
  <1>1. /\ Len(chain') \in Nat /\ Now <= Len(chain') /\ Now \in Nat /\ height \in Nat
        /\ height' \in Nat /\ height <= height'
        /\ \A i \in 1..Now : chain'[i] = chain[i]
    BY GrowsShape, ChainTypes
  <1>2. j.block \in Nat /\ j.index \in Nat /\ j.block <= height
    BY JobTypes DEF Counts
  <1>3. Upto(j.block)' = Upto(j.block)
    BY <1>2, UptoKept
  <1>4. Partial(j) => j.index <= Len(chain') /\ j.block = chain'[j.index].block
    <2>1. Partial(j) => j.index \in 1..Now /\ j.block = chain[j.index].block
      BY <1>1, <1>2 DEF Counts, Partial
    <2> QED BY <1>1, <1>2, <2>1
  <1>5. j.block <= height'
    BY <1>1, <1>2
  <1> QED BY <1>3, <1>4, <1>5 DEF Counts, Partial, Now

LEMMA KeepsKept ==
    ASSUME TypeOK, Grows, recorded \subseteq recorded', NEW r \in Run, Keeps(r)
    PROVE  Keeps(r)'
  <1> SUFFICES ASSUME r.pc \in {"save", "finish"}
               PROVE  /\ Counts(r.job)' /\ r.safe <= height'
                      /\ r.saved <= Cardinality(Page(r.job, r.safe)')
                      /\ 1..(r.job.anchors + r.saved) \subseteq recorded'
                      /\ r.pc = "finish" =>
                            /\ r.saved = Cardinality(Page(r.job, r.safe)')
                            /\ CountsAgree(r.job, r.safe)'
    BY DEF Keeps
  <1>1. r.job \in Job /\ r.safe \in 0..MaxHeight
    BY Zenon DEF Run
  <1>2. r.safe \in Nat /\ height \in Nat /\ height' \in Nat /\ height <= height' /\ r.safe <= height
    BY <1>1, Constants, ChainTypes, GrowsShape DEF Keeps
  <1>3. Counts(r.job)'
    BY <1>1, CountsKept DEF Keeps
  <1>4. /\ Page(r.job, r.safe)' = Page(r.job, r.safe)
        /\ CountsAgree(r.job, r.safe) => CountsAgree(r.job, r.safe)'
    BY <1>1, <1>2, PageKept
  <1> QED BY <1>2, <1>3, <1>4 DEF Keeps

-----------------------------------------------------------------------------
(* The chain's steps *)

LEMMA HappensGrows ==
    ASSUME TypeOK, NEW kind \in Kinds, NEW id \in Ids, Happens(kind, id)
    PROVE  /\ Grows /\ height' \in 0..MaxHeight
           /\ chain' \in Seq(Event) /\ Len(chain') <= MaxEvents
           /\ Len(chain') = Now + 1 /\ chain'[Now + 1].kind = kind
           /\ \A i \in 1..Now : chain'[i] = chain[i]
  <1> DEFINE e == [kind |-> kind, id |-> id, block |-> height + 1]
  <1>1. /\ Now < MaxEvents /\ height < MaxHeight /\ height' = height
        /\ chain' = Append(chain, e)
    BY DEF Happens
  <1>2. /\ Now \in Nat /\ height \in Nat /\ chain \in Seq(Event) /\ Now = Len(chain)
        /\ MaxHeight \in Nat /\ MaxEvents \in Nat
    BY ChainTypes, Constants DEF Now
  <1>3. height + 1 \in 1..MaxHeight
    BY <1>1, <1>2
  <1>4. e \in Event /\ e.block = height + 1 /\ e.kind = kind
    BY <1>3, Zenon DEF Event
  <1> HIDE DEF e
  <1>5. Grows
    BY <1>1, <1>4 DEF Grows
  <1>6. /\ chain' \in Seq(Event) /\ Len(chain') = Now + 1 /\ chain'[Now + 1] = e
        /\ \A i \in 1..Now : chain'[i] = chain[i]
    BY <1>1, <1>2, <1>4, AppendProperties
  <1> QED BY <1>1, <1>2, <1>4, <1>5, <1>6

LEMMA OrderedKept ==
    ASSUME TypeOK, Ordered, Grows
    PROVE  Ordered'
  <1>1. /\ chain \in Seq(Event) /\ Now \in Nat /\ Now = Len(chain) /\ height \in Nat
        /\ \A i \in 1..Now : chain[i].block \in Nat /\ chain[i].block <= height + 1
        /\ \A i, k \in 1..Now : i < k => chain[i].block <= chain[k].block
    BY ChainTypes DEF Now, Ordered
  <1>2. CASE chain' = chain /\ height' \in Nat /\ height <= height'
    BY <1>1, <1>2 DEF Ordered, Now
  <1>3. ASSUME NEW e \in Event, chain' = Append(chain, e), e.block = height + 1,
               height' = height
        PROVE  Ordered'
    <2>1. /\ Len(chain') = Now + 1 /\ chain'[Now + 1] = e
          /\ \A i \in 1..Now : chain'[i] = chain[i]
      BY <1>1, <1>3, AppendProperties
    <2>2. ASSUME NEW i \in 1..(Now + 1), NEW k \in 1..(Now + 1), i < k
          PROVE  chain'[i].block <= chain'[k].block
      <3>1. i \in 1..Now
        BY <1>1, <2>2
      <3>2. CASE k = Now + 1
        BY <1>1, <1>3, <2>1, <3>1, <3>2
      <3>3. CASE k \in 1..Now
        BY <1>1, <2>1, <2>2, <3>1, <3>3
      <3> QED BY <1>1, <3>2, <3>3
    <2>3. ASSUME NEW i \in 1..(Now + 1)
          PROVE  chain'[i].block <= height' + 1
      <3>1. CASE i = Now + 1
        BY <1>1, <1>3, <2>1, <3>1
      <3>2. CASE i \in 1..Now
        BY <1>1, <1>3, <2>1, <3>2
      <3> QED BY <1>1, <3>1, <3>2
    <2> QED BY <2>1, <2>2, <2>3 DEF Ordered, Now
  <1> QED BY <1>2, <1>3 DEF Grows

LEMMA UnpaidKept ==
    ASSUME TypeOK, ClosedStaysUnpaid, NEW kind \in Kinds, NEW id \in Ids, Happens(kind, id),
           kind = "Upfront" => ~Has(Now, "Closed") /\ ~Has(Now, "Declined")
    PROVE  ClosedStaysUnpaid'
  <1>1. /\ Now \in Nat /\ Len(chain') = Now + 1 /\ chain'[Now + 1].kind = kind
        /\ \A i \in 1..Now : chain'[i] = chain[i]
    BY HappensGrows, ChainTypes
  <1>2. ASSUME NEW i \in 1..(Now + 1), NEW k \in 1..(Now + 1), i < k,
               chain'[i].kind \in {"Closed", "Declined"}
        PROVE  chain'[k].kind # "Upfront"
    <2>1. i \in 1..Now /\ chain[i].kind \in {"Closed", "Declined"}
      BY <1>1, <1>2
    <2>2. CASE k = Now + 1
      BY <1>1, <2>1, <2>2 DEF Has
    <2>3. CASE k \in 1..Now
      BY <1>1, <1>2, <2>1, <2>3 DEF ClosedStaysUnpaid
    <2> QED BY <1>1, <2>2, <2>3
  <1> QED BY <1>1, <1>2 DEF ClosedStaysUnpaid, Now

LEMMA ActionTypes ==
    ASSUME NEW a \in Actions
    PROVE  a[1] \in {"Locked", "Upfront", "Final"} /\ a[2] \in Ids
  <1>1. NoId \in Ids
    BY Constants DEF NoId, Ids
  <1> QED BY <1>1 DEF Actions

LEMMA LockedIdType ==
    ASSUME TypeOK
    PROVE  LockedId \in Ids
  <1>1. CASE \E i \in 1..Now : chain[i].kind = "Locked"
    <2> DEFINE S == {chain[i] : i \in 1..Now}
               e == CHOOSE e \in S : e.kind = "Locked"
    <2>1. \E d \in S : d.kind = "Locked"
      BY <1>1
    <2>2. e \in S
      BY <2>1, Zenon
    <2>3. e.id \in Ids
      BY <2>2, ChainTypes
    <2> QED BY <1>1, <2>3 DEF LockedId
  <1>2. CASE ~\E i \in 1..Now : chain[i].kind = "Locked"
    BY <1>2, Constants DEF LockedId, NoId, Ids
  <1> QED BY <1>1, <1>2

LEMMA ChainKept ==
    ASSUME SyncInv, Grows, UNCHANGED <<documents, run, faults>>,
           chain' \in Seq(Event), Len(chain') <= MaxEvents, height' \in 0..MaxHeight,
           platform' \in Actions \cup {None}, ClosedStaysUnpaid'
    PROVE  SyncInv'
  <1>1. TypeOK'
    BY Zenon DEF SyncInv, TypeOK, documents
  <1>2. Ordered'
    BY OrderedKept DEF SyncInv
  <1>3. Counts(job)'
    <2>1. PICK j \in Job : j = job
      BY Zenon DEF SyncInv, TypeOK
    <2>2. recorded \subseteq recorded' /\ job' = job
      BY DEF documents
    <2>3. Counts(j)'
      BY <2>1, <2>2, CountsKept DEF SyncInv
    <2> QED BY <2>1, <2>2, <2>3
  <1>4. ASSUME NEW w \in Workers
        PROVE  Keeps(run[w])'
    <2>1. PICK r \in Run : r = run[w]
      BY <1>4, Zenon DEF SyncInv, TypeOK
    <2>2. recorded \subseteq recorded' /\ run' = run
      BY DEF documents
    <2>3. Keeps(r)'
      BY <1>4, <2>1, <2>2, KeepsKept DEF SyncInv
    <2> QED BY <2>1, <2>2, <2>3
  <1> QED BY <1>1, <1>2, <1>3, <1>4 DEF SyncInv

LEMMA EventStep ==
    ASSUME SyncInv, NEW kind \in Kinds, NEW id \in Ids, Happens(kind, id),
           kind = "Upfront" => ~Has(Now, "Closed") /\ ~Has(Now, "Declined"),
           platform' \in Actions \cup {None}, UNCHANGED <<documents, run, faults>>
    PROVE  SyncInv'
  <1>1. TypeOK /\ ClosedStaysUnpaid
    BY DEF SyncInv
  <1>2. /\ Grows /\ height' \in 0..MaxHeight /\ chain' \in Seq(Event)
        /\ Len(chain') <= MaxEvents
    BY <1>1, HappensGrows
  <1>3. ClosedStaysUnpaid'
    BY <1>1, UnpaidKept
  <1> QED BY <1>2, <1>3, ChainKept

LEMMA EscrowStep ==
    ASSUME SyncInv, Escrow
    PROVE  SyncInv'
  <1>1. TypeOK /\ platform \in Actions \cup {None} /\ NoId \in Ids
    BY Constants DEF SyncInv, TypeOK, NoId, Ids
  <1>2. CASE Decline
    <2>1. Happens("Declined", LockedId) /\ UNCHANGED <<platform, documents, run, faults>>
      BY <1>2 DEF Decline
    <2>2. LockedId \in Ids /\ "Declined" \in Kinds
      BY <1>1, LockedIdType DEF Kinds
    <2> QED BY <1>1, <2>1, <2>2, EventStep
  <1>3. CASE Close
    <2>1. Happens("Closed", NoId) /\ UNCHANGED <<platform, documents, run, faults>>
      BY <1>3 DEF Close
    <2>2. "Closed" \in Kinds
      BY DEF Kinds
    <2> QED BY <1>1, <2>1, <2>2, EventStep
  <1>4. CASE Refund
    <2>1. Happens("Claimed", NoId) /\ UNCHANGED <<platform, documents, run, faults>>
      BY <1>4 DEF Refund
    <2>2. "Claimed" \in Kinds
      BY DEF Kinds
    <2> QED BY <1>1, <2>1, <2>2, EventStep
  <1>5. CASE Settle
    <2>1. platform \in Actions /\ platform' = None /\ UNCHANGED <<documents, run, faults>>
      BY <1>1, <1>5 DEF Settle
    <2>2. CASE Allowed(platform[1])
      <3>1. Happens(platform[1], platform[2])
        BY <1>5, <2>2 DEF Settle
      <3>2. platform[1] \in Kinds /\ platform[2] \in Ids
        BY <2>1, ActionTypes DEF Kinds
      <3>3. platform[1] = "Upfront" => ~Has(Now, "Closed") /\ ~Has(Now, "Declined")
        BY <2>2 DEF Allowed, State
      <3> QED BY <2>1, <3>1, <3>2, <3>3, EventStep
    <2>3. CASE ~Allowed(platform[1])
      <3>1. UNCHANGED <<chain, height>>
        BY <1>5, <2>3 DEF Settle
      <3>2. height \in Nat /\ height \in 0..MaxHeight /\ chain \in Seq(Event) /\ Len(chain) <= MaxEvents
        BY <1>1, ChainTypes DEF TypeOK
      <3>3. Grows
        BY <3>1, <3>2 DEF Grows
      <3>4. ClosedStaysUnpaid'
        BY <3>1 DEF SyncInv, ClosedStaysUnpaid, Now
      <3> QED BY <2>1, <3>1, <3>2, <3>3, <3>4, ChainKept
    <2> QED BY <2>2, <2>3
  <1> QED BY <1>2, <1>3, <1>4, <1>5 DEF Escrow

LEMMA ConfirmBlockStep ==
    ASSUME SyncInv, ConfirmBlock
    PROVE  SyncInv'
  <1>1. /\ height < MaxHeight /\ height' = height + 1
        /\ UNCHANGED <<chain, platform, documents, run, faults>>
    BY DEF ConfirmBlock
  <1>2. /\ height \in Nat /\ MaxHeight \in Nat /\ chain \in Seq(Event)
        /\ Len(chain) <= MaxEvents /\ platform \in Actions \cup {None}
    BY ChainTypes, Constants DEF SyncInv, TypeOK
  <1>3. Grows /\ height' \in 0..MaxHeight
    BY <1>1, <1>2 DEF Grows
  <1>4. ClosedStaysUnpaid'
    BY <1>1 DEF SyncInv, ClosedStaysUnpaid, Now
  <1> QED BY <1>1, <1>2, <1>3, <1>4, ChainKept

-----------------------------------------------------------------------------
(* The runs' steps *)

\* One run, the job and the other documents change; the chain stands.
LEMMA LocalStep ==
    ASSUME SyncInv, TypeOK', UNCHANGED <<chain, height>>, recorded \subseteq recorded',
           Counts(job)',
           \A w \in Workers : run'[w] = run[w] \/ Keeps(run[w])'
    PROVE  SyncInv'
  <1>1. TypeOK /\ height \in Nat
    BY ChainTypes DEF SyncInv
  <1>2. Grows
    BY <1>1 DEF Grows
  <1>3. Ordered' /\ ClosedStaysUnpaid'
    BY <1>1, <1>2, OrderedKept DEF SyncInv, ClosedStaysUnpaid, Now
  <1>4. ASSUME NEW w \in Workers, run'[w] = run[w]
        PROVE  Keeps(run[w])'
    <2>1. PICK r \in Run : r = run[w]
      BY <1>1, <1>4, Zenon DEF TypeOK
    <2>2. Keeps(r)'
      BY <1>1, <1>2, <1>4, <2>1, KeepsKept DEF SyncInv
    <2> QED BY <1>4, <2>1, <2>2
  <1> QED BY <1>3, <1>4 DEF SyncInv

LEMMA CountsSame ==
    ASSUME NEW j, NEW d, d.block = j.block, d.index = j.index, d.anchors = j.anchors, Counts(j)
    PROVE  Counts(d)
  BY DEF Counts, Partial

\* What counts now counts still when neither the chain nor what is recorded changes.
LEMMA CountsNext ==
    ASSUME NEW j, Counts(j), UNCHANGED <<chain, height>>, recorded \subseteq recorded'
    PROVE  Counts(j)'
  BY DEF Counts, Partial, Now, Upto

LEMMA RestingKeeps ==
    ASSUME NEW w \in Workers, run' = [run EXCEPT ![w] = Resting], TypeOK
    PROVE  /\ run' \in [Workers -> Run]
           /\ \A v \in Workers : run'[v] = run[v] \/ Keeps(run[v])'
  <1>1. NoId \in Ids /\ 0 \in 0..MaxHeight /\ 0 \in 0..MaxEvents
    BY Constants DEF NoId, Ids
  <1>2. NewJob \in Job
    BY <1>1, Zenon DEF NewJob, Job
  <1>3. Resting \in Run /\ Resting.pc = "idle"
    BY <1>1, <1>2, Zenon DEF Resting, Run
  <1>4. run \in [Workers -> Run]
    BY DEF TypeOK
  <1>5. run' \in [Workers -> Run] /\ run'[w] = Resting
        /\ \A v \in Workers : v # w => run'[v] = run[v]
    BY <1>3, <1>4
  <1>6. Keeps(run[w])'
    <2>1. run'[w].pc = "idle"
      BY <1>3, <1>5
    <2> QED BY <2>1 DEF Keeps
  <1> QED BY <1>5, <1>6

LEMMA RunKeeps ==
    ASSUME TypeOK, NEW w \in Workers, NEW r \in Run, run' = [run EXCEPT ![w] = r], Keeps(r)'
    PROVE  /\ run' \in [Workers -> Run]
           /\ \A v \in Workers : run'[v] = run[v] \/ Keeps(run[v])'
  <1>1. run \in [Workers -> Run]
    BY DEF TypeOK
  <1>2. run' \in [Workers -> Run] /\ run'[w] = r
        /\ \A v \in Workers : v # w => run'[v] = run[v]
    BY <1>1
  <1>3. Keeps(run[w])'
    BY <1>2
  <1> QED BY <1>2, <1>3

LEMMA AbortStep ==
    ASSUME SyncInv, NEW w \in Workers, Abort(w), faults' \in 0..MaxFaults
    PROVE  SyncInv'
  <1>1. /\ run' = [run EXCEPT ![w] = Resting]
        /\ job' = job \/ job' = [job EXCEPT !.live = FALSE, !.complete = FALSE]
        /\ UNCHANGED <<chain, height, platform, recorded, summary, posting, proposal>>
    BY DEF Abort, Rest, Goto, chainVars
  <1>2. TypeOK /\ job \in Job /\ Counts(job)
    BY DEF SyncInv, TypeOK
  <1>3. /\ run' \in [Workers -> Run]
        /\ \A v \in Workers : run'[v] = run[v] \/ Keeps(run[v])'
    BY <1>1, <1>2, RestingKeeps
  <1>4. /\ job' \in Job
        /\ job'.block = job.block /\ job'.index = job.index /\ job'.anchors = job.anchors
    BY <1>1, <1>2, Zenon DEF Job
  <1>5. TypeOK'
    BY <1>1, <1>2, <1>3, <1>4, Zenon DEF TypeOK
  <1>6. Counts(job)'
    <2>1. PICK d \in Job : d = job'
      BY <1>4
    <2>2. Counts(d)
      BY <1>2, <1>4, <2>1, CountsSame
    <2>3. Counts(d)'
      BY <1>1, <2>2, CountsNext
    <2> QED BY <2>1, <2>3
  <1> QED BY <1>1, <1>3, <1>5, <1>6, LocalStep

LEMMA FaultType ==
    ASSUME TypeOK, Fault \/ UNCHANGED faults
    PROVE  faults' \in 0..MaxFaults
  BY Constants DEF TypeOK, Fault

LEMMA AbortingSteps ==
    ASSUME SyncInv, NEW w \in Workers, Mismatch(w) \/ LostLease(w) \/ Fail(w)
    PROVE  SyncInv'
  <1>1. Abort(w) /\ (Fault \/ UNCHANGED faults)
    BY DEF Mismatch, LostLease, Fail
  <1>2. faults' \in 0..MaxFaults
    BY <1>1, FaultType DEF SyncInv
  <1> QED BY <1>1, <1>2, AbortStep

LEMMA CrashStep ==
    ASSUME SyncInv, NEW w \in Workers, Crash(w)
    PROVE  SyncInv'
  <1>1. /\ run' = [run EXCEPT ![w] = Resting] /\ Fault
        /\ UNCHANGED <<chain, height, platform, recorded, job, summary, posting, proposal>>
    BY DEF Crash, Rest, Goto, chainVars, documents
  <1>2. TypeOK /\ Counts(job)
    BY DEF SyncInv
  <1>3. /\ run' \in [Workers -> Run]
        /\ \A v \in Workers : run'[v] = run[v] \/ Keeps(run[v])'
    BY <1>1, <1>2, RestingKeeps
  <1>4. faults' \in 0..MaxFaults
    BY <1>1, <1>2, FaultType
  <1>5. TypeOK'
    BY <1>1, <1>2, <1>3, <1>4, Zenon DEF TypeOK
  <1>6. Counts(job)'
    <2>1. PICK d : d = job
      OBVIOUS
    <2>2. Counts(d)'
      BY <1>1, <1>2, <2>1, CountsNext
    <2> QED BY <1>1, <2>1, <2>2
  <1> QED BY <1>1, <1>3, <1>5, <1>6, LocalStep

LEMMA LeaseStep ==
    ASSUME SyncInv, LeaseExpires
    PROVE  SyncInv'
  <1>1. /\ job' = [job EXCEPT !.live = FALSE] /\ (Fault \/ UNCHANGED faults)
        /\ UNCHANGED <<chain, height, platform, recorded, summary, posting, proposal, run>>
    BY DEF LeaseExpires, chainVars
  <1>2. TypeOK /\ job \in Job /\ Counts(job)
    BY DEF SyncInv, TypeOK
  <1>3. faults' \in 0..MaxFaults
    BY <1>1, <1>2, FaultType
  <1>4. /\ job' \in Job
        /\ job'.block = job.block /\ job'.index = job.index /\ job'.anchors = job.anchors
    BY <1>1, <1>2, Zenon DEF Job
  <1>5. TypeOK'
    BY <1>1, <1>2, <1>3, <1>4, Zenon DEF TypeOK
  <1>6. Counts(job)'
    <2>1. PICK d \in Job : d = job'
      BY <1>4
    <2>2. Counts(d)
      BY <1>2, <1>4, <2>1, CountsSame
    <2>3. Counts(d)'
      BY <1>1, <2>2, CountsNext
    <2> QED BY <2>1, <2>3
  <1> QED BY <1>1, <1>5, <1>6, LocalStep

LEMMA ReadHeightType ==
    ASSUME TypeOK, NEW safe \in 0..height, ReadHeight(safe)
    PROVE  /\ faults' \in 0..MaxFaults /\ safe \in 0..MaxHeight
           /\ safe \in Nat /\ safe <= height
  <1>1. faults' \in 0..MaxFaults
    BY FaultType DEF ReadHeight
  <1> QED BY <1>1, ChainTypes, Constants

LEMMA ClaimStep ==
    ASSUME SyncInv, NEW w \in Workers, Claim(w)
    PROVE  SyncInv'
  <1>1. TypeOK /\ Ordered /\ job \in Job /\ Counts(job)
    BY DEF SyncInv, TypeOK
  <1>2. UNCHANGED <<chain, height, platform, recorded, summary, posting, proposal>>
    BY DEF Claim, chainVars
  <1>3. CASE Rest(w) /\ UNCHANGED <<job, faults>>
    <2>1. run' = [run EXCEPT ![w] = Resting]
      BY <1>3 DEF Rest, Goto
    <2>2. /\ run' \in [Workers -> Run]
          /\ \A v \in Workers : run'[v] = run[v] \/ Keeps(run[v])'
      BY <1>1, <2>1, RestingKeeps
    <2>3. TypeOK'
      BY <1>1, <1>2, <1>3, <2>2, Zenon DEF TypeOK
    <2>4. Counts(job)'
      <3>1. PICK d : d = job
        OBVIOUS
      <3>2. Counts(d)'
        BY <1>1, <1>2, <3>1, CountsNext
      <3> QED BY <1>3, <3>1, <3>2
    <2> QED BY <1>2, <2>2, <2>3, <2>4, LocalStep
  <1>4. ASSUME job' = [job EXCEPT !.token = w, !.live = TRUE],
               NEW safe \in 0..height, ReadHeight(safe),
               Goto(w, [Resting EXCEPT !.pc = "save", !.safe = safe,
                            !.job = [job EXCEPT !.token = None, !.complete = FALSE]])
        PROVE  SyncInv'
    <2> DEFINE copy == [job EXCEPT !.token = None, !.complete = FALSE]
               r == [Resting EXCEPT !.pc = "save", !.safe = safe, !.job = copy]
    <2>1. faults' \in 0..MaxFaults /\ safe \in 0..MaxHeight /\ safe \in Nat /\ safe <= height
      BY <1>1, <1>4, ReadHeightType
    <2>2. /\ copy \in Job /\ copy.block = job.block /\ copy.index = job.index
          /\ copy.anchors = job.anchors
      BY <1>1, Zenon DEF Job
    <2>3. /\ job' \in Job
          /\ job'.block = job.block /\ job'.index = job.index /\ job'.anchors = job.anchors
      BY <1>1, <1>4, Zenon DEF Job
    <2>4. Counts(copy)
      <3> HIDE DEF copy
      <3> QED BY <1>1, <2>2, CountsSame
    <2>5. r.pc = "save" /\ r.safe = safe /\ r.job = copy /\ r.saved = 0
      <3> HIDE DEF copy
      <3> QED BY Zenon DEF Resting
    <2>6. r \in Run
      <3>1. 0 \in 0..MaxEvents
        BY Constants
      <3> HIDE DEF copy
      <3> QED BY <2>1, <2>2, <3>1, Zenon DEF Run, Resting
    <2>7. run' = [run EXCEPT ![w] = r]
      BY <1>4 DEF Goto
    <2>8. PICK c \in Job : c = copy
      BY <2>2
    <2>9. PICK q \in Run : q = r
      BY <2>6
    <2>10. q.pc = "save" /\ q.safe = safe /\ q.job = c /\ q.saved = 0 /\ Counts(c)
           /\ run' = [run EXCEPT ![w] = q]
      BY <2>4, <2>5, <2>7, <2>8, <2>9
    <2> HIDE DEF copy, r
    <2>11. Keeps(q)
      <3>1. PICK m \in Nat : Cardinality(Page(c, safe)) = m
        BY <1>1, <2>1, <2>10, PageShape
      <3>2. c.anchors \in Nat /\ c.anchors + 0 = c.anchors /\ 1..c.anchors \subseteq recorded
        BY <2>10, JobTypes DEF Counts
      <3> QED BY <2>1, <2>10, <3>1, <3>2 DEF Keeps
    <2>12. Keeps(q)'
      <3>1. Grows
        BY <1>1, <1>2, ChainTypes DEF Grows
      <3> QED BY <1>1, <1>2, <2>11, <3>1, KeepsKept
    <2>13. /\ run' \in [Workers -> Run]
           /\ \A v \in Workers : run'[v] = run[v] \/ Keeps(run[v])'
      BY <1>1, <2>10, <2>12, RunKeeps
    <2>14. TypeOK'
      BY <1>1, <1>2, <2>1, <2>3, <2>13, Zenon DEF TypeOK
    <2>15. Counts(job)'
      <3>1. PICK d \in Job : d = job'
        BY <2>3
      <3>2. Counts(d)
        BY <1>1, <2>3, <3>1, CountsSame
      <3>3. Counts(d)'
        BY <1>2, <3>2, CountsNext
      <3> QED BY <3>1, <3>3
    <2> QED BY <1>2, <2>13, <2>14, <2>15, LocalStep
  <1> QED BY <1>3, <1>4 DEF Claim

LEMMA SaveStep ==
    ASSUME SyncInv, NEW w \in Workers, SaveEvent(w)
    PROVE  SyncInv'
  <1>1. PICK r \in Run : r = run[w]
    BY Zenon DEF SyncInv, TypeOK
  <1> DEFINE page == Page(r.job, r.safe)
             q == [r EXCEPT !.saved = @ + 1]
             a == r.job.anchors
  <1>2. /\ TypeOK /\ Ordered /\ job \in Job /\ Counts(job) /\ Keeps(r)
        /\ recorded \subseteq 1..MaxEvents
    BY <1>1 DEF SyncInv, TypeOK
  <1>3. /\ r.pc = "save" /\ r.saved < Cardinality(page)
        /\ recorded' = recorded \cup {i \in page : Cardinality({k \in page : k <= i}) = r.saved + 1}
        /\ run' = [run EXCEPT ![w] = q]
        /\ UNCHANGED <<chain, height, platform, job, summary, posting, proposal, faults>>
    <2> HIDE DEF page
    <2> QED BY <1>1 DEF SaveEvent, At, Goto, chainVars, page
  <1>4. /\ r.job \in Job /\ r.safe \in 0..MaxHeight /\ r.saved \in 0..MaxEvents
    BY Zenon DEF Run
  <1>5. /\ a \in Nat /\ r.safe \in Nat /\ r.saved \in Nat /\ Now \in Nat /\ Now <= MaxEvents
        /\ MaxEvents \in Nat
    BY <1>2, <1>4, JobTypes, ChainTypes, Constants
  <1>6. Counts(r.job) /\ r.safe <= height /\ 1..(a + r.saved) \subseteq recorded
    BY <1>2, <1>3 DEF Keeps
  <1>7. PICK m \in Nat : page = (a + 1)..(a + m) /\ Cardinality(page) = m /\ a + m <= Now
    BY <1>2, <1>4, <1>5, <1>6, PageShape
  <1>8. r.saved < m /\ a + r.saved + 1 \in (a + 1)..(a + m)
    BY <1>3, <1>5, <1>7
  <1>9. {i \in page : Cardinality({k \in page : k <= i}) = r.saved + 1} = {a + r.saved + 1}
    <2>1. \A i \in page : Cardinality({k \in page : k <= i}) = i - a
      <3>1. PICK b \in Nat : b = a + m
        BY <1>5
      <3>2. \A i \in (a + 1)..b : Cardinality({k \in (a + 1)..b : k <= i}) = i - a
        BY <1>5, IntervalRank
      <3> HIDE DEF page, a
      <3> QED BY <1>7, <3>1, <3>2
    <2>2. \A i \in page : i \in Nat
      BY <1>5, <1>7
    <2>3. a + r.saved + 1 \in page
      BY <1>7, <1>8
    <2> HIDE DEF page, a
    <2> QED BY <1>5, <2>1, <2>2, <2>3
  <1>10. recorded' = recorded \cup {a + r.saved + 1}
    BY <1>3, <1>9
  <1>11. recorded' \subseteq 1..MaxEvents /\ recorded \subseteq recorded'
    <2>1. a + r.saved + 1 \in 1..MaxEvents
      BY <1>5, <1>7, <1>8
    <2> HIDE DEF a
    <2> QED BY <1>2, <1>10, <2>1
  <1>12. 1..(a + (r.saved + 1)) \subseteq recorded'
    BY <1>5, <1>6, <1>10
  <1>13. r.saved + 1 \in 0..MaxEvents
    BY <1>5, <1>7, <1>8
  <1>14. q \in Run /\ q.pc = "save" /\ q.job = r.job /\ q.safe = r.safe /\ q.saved = r.saved + 1
    BY <1>3, <1>13, Zenon DEF Run
  <1>15. PICK d \in Run : d = q
    BY <1>14
  <1>16. /\ d.pc = "save" /\ d.job = r.job /\ d.safe = r.safe /\ d.saved = r.saved + 1
         /\ run' = [run EXCEPT ![w] = d]
    BY <1>3, <1>14, <1>15
  <1> HIDE DEF q, page
  <1>17. Keeps(d)'
    <2>1. Grows
      BY <1>2, <1>3, ChainTypes DEF Grows
    <2>2. PICK j \in Job : j = d.job
      BY <1>4, <1>16
    <2>3. PICK safe \in Nat : safe = d.safe
      BY <1>5, <1>16
    <2>4. Counts(j)'
      BY <1>2, <1>6, <1>11, <1>16, <2>1, <2>2, CountsKept
    <2>5. Page(j, safe)' = Page(j, safe) /\ Page(j, safe) = page
      BY <1>2, <1>6, <1>16, <2>1, <2>2, <2>3, PageKept DEF page
    <2>6. d.saved <= Cardinality(page)
      BY <1>7, <1>8, <1>16, <1>5
    <2>7. 1..(d.job.anchors + d.saved) \subseteq recorded'
      BY <1>12, <1>16
    <2>8. d.safe <= height'
      BY <1>3, <1>6, <1>16
    <2>9. Counts(d.job)' /\ Page(d.job, d.safe)' = page
      BY <2>2, <2>3, <2>4, <2>5
    <2> QED BY <1>16, <2>6, <2>7, <2>8, <2>9 DEF Keeps
  <1>18. /\ run' \in [Workers -> Run]
         /\ \A v \in Workers : run'[v] = run[v] \/ Keeps(run[v])'
    BY <1>2, <1>16, <1>17, RunKeeps
  <1>19. TypeOK'
    BY <1>2, <1>3, <1>11, <1>18, Zenon DEF TypeOK
  <1>20. Counts(job)'
    <2>1. PICK j : j = job
      OBVIOUS
    <2>2. Counts(j)'
      BY <1>2, <1>3, <1>11, <2>1, CountsNext
    <2> QED BY <1>3, <2>1, <2>2
  <1> QED BY <1>3, <1>11, <1>18, <1>19, <1>20, LocalStep

LEMMA DecisionTypes ==
    ASSUME NEW j \in Job, NEW safe, NEW d \in Decisions(j, safe)
    PROVE  d \in Actions \cup {None}
  BY JobTypes DEF Decisions, Actions

LEMMA CompareStep ==
    ASSUME SyncInv, NEW w \in Workers, Compare(w)
    PROVE  SyncInv'
  <1>1. PICK r \in Run : r = run[w]
    BY Zenon DEF SyncInv, TypeOK
  <1> DEFINE q == [r EXCEPT !.pc = "finish"]
  <1>2. TypeOK /\ Ordered /\ job \in Job /\ Counts(job) /\ Keeps(r)
    BY <1>1 DEF SyncInv, TypeOK
  <1>3. /\ r.pc = "save" /\ r.saved = Cardinality(Page(r.job, r.safe))
        /\ CountsAgree(r.job, r.safe)
        /\ platform' = platform \/ platform' \in Decisions(r.job, r.safe)
        /\ run' = [run EXCEPT ![w] = q]
        /\ UNCHANGED <<chain, height, recorded, job, summary, posting, proposal, faults>>
    BY <1>1 DEF Compare, PageSaved, At, Goto, documents
  <1>4. r.job \in Job
    BY Zenon DEF Run
  <1>5. platform' \in Actions \cup {None}
    BY <1>2, <1>3, <1>4, DecisionTypes DEF TypeOK
  <1>6. /\ q \in Run /\ q.pc = "finish" /\ q.job = r.job /\ q.safe = r.safe
        /\ q.saved = r.saved
    BY Zenon DEF Run
  <1>7. PICK d \in Run : d = q
    BY <1>6
  <1>8. /\ d.pc = "finish" /\ d.job = r.job /\ d.safe = r.safe /\ d.saved = r.saved
        /\ run' = [run EXCEPT ![w] = d]
    BY <1>3, <1>6, <1>7
  <1> HIDE DEF q
  <1>9. Keeps(d)
    BY <1>2, <1>3, <1>8 DEF Keeps
  <1>10. Keeps(d)'
    <2>1. Grows
      BY <1>2, <1>3, ChainTypes DEF Grows
    <2> QED BY <1>2, <1>3, <1>9, <2>1, KeepsKept
  <1>11. /\ run' \in [Workers -> Run]
         /\ \A v \in Workers : run'[v] = run[v] \/ Keeps(run[v])'
    BY <1>2, <1>8, <1>10, RunKeeps
  <1>12. TypeOK'
    BY <1>2, <1>3, <1>5, <1>11, Zenon DEF TypeOK
  <1>13. Counts(job)'
    <2>1. PICK j : j = job
      OBVIOUS
    <2>2. Counts(j)'
      BY <1>2, <1>3, <2>1, CountsNext
    <2> QED BY <1>3, <2>1, <2>2
  <1> QED BY <1>3, <1>11, <1>12, <1>13, LocalStep

LEMMA StartStep ==
    ASSUME SyncInv, NEW w \in Callers, StartSettlement(w)
    PROVE  SyncInv'
  <1> DEFINE r == [Resting EXCEPT !.pc = "claim"]
             id == IF job.requested THEN job.id ELSE job.id + 1
  <1>1. TypeOK /\ job \in Job /\ Counts(job) /\ w \in Workers
    BY DEF SyncInv, TypeOK, Workers
  <1>2. /\ job' = [job EXCEPT !.requested = TRUE, !.id = id]
        /\ posting' = [posting EXCEPT !.selection = job'.id]
        /\ run' = [run EXCEPT ![w] = r]
        /\ job.requested \/ job.id < MaxSelections
        /\ UNCHANGED <<chain, height, platform, recorded, summary, proposal>>
    BY DEF StartSettlement, Goto, chainVars
  <1>3. faults' \in 0..MaxFaults
    <2>1. PICK safe \in 0..height : ReadHeight(safe)
      BY DEF StartSettlement
    <2> QED BY <1>1, <2>1, ReadHeightType
  <1>4. id \in Ids
    BY <1>1, <1>2, JobTypes, Constants DEF Ids
  <1> HIDE DEF id
  <1>5. /\ job' \in Job /\ job'.id = id
        /\ job'.block = job.block /\ job'.index = job.index /\ job'.anchors = job.anchors
    BY <1>1, <1>2, <1>4, Zenon DEF Job
  <1>6. posting' \in [selection : Ids, accepted : BOOLEAN]
    <2>1. posting \in [selection : Ids, accepted : BOOLEAN]
      BY <1>1 DEF TypeOK
    <2> QED BY <1>2, <1>4, <1>5, <2>1, Zenon
  <1>7. r \in Run /\ r.pc = "claim"
    <2>1. 0 \in 0..MaxHeight /\ 0 \in 0..MaxEvents /\ NoId \in Ids
      BY Constants DEF NoId, Ids
    <2> QED BY <2>1, Zenon DEF Resting, Run, NewJob, Job
  <1>8. PICK q \in Run : q = r
    BY <1>7
  <1>9. q.pc = "claim" /\ run' = [run EXCEPT ![w] = q]
    BY <1>2, <1>7, <1>8
  <1>10. Keeps(q)'
    BY <1>9 DEF Keeps
  <1> HIDE DEF r
  <1>11. /\ run' \in [Workers -> Run]
         /\ \A v \in Workers : run'[v] = run[v] \/ Keeps(run[v])'
    BY <1>1, <1>9, <1>10, RunKeeps
  <1>12. TypeOK'
    BY <1>1, <1>2, <1>3, <1>5, <1>6, <1>11, Zenon DEF TypeOK
  <1>13. Counts(job)'
    <2>1. PICK d \in Job : d = job'
      BY <1>5
    <2>2. Counts(d)
      BY <1>1, <1>5, <2>1, CountsSame
    <2>3. Counts(d)'
      BY <1>2, <2>2, CountsNext
    <2> QED BY <2>1, <2>3
  <1> QED BY <1>2, <1>11, <1>12, <1>13, LocalStep

\* A dashboard touches the summary only, and holds nothing that a run keeps.
LEMMA SnapshotStep ==
    ASSUME SyncInv, NEW w \in Workers, ReadSnapshot(w) \/ SaveFundingSnapshot(w)
    PROVE  SyncInv'
  <1>1. TypeOK /\ Counts(job)
    BY DEF SyncInv
  <1>2. PICK q \in Run : /\ run' = [run EXCEPT ![w] = q] /\ q.pc \in {"idle", "view"}
                         /\ faults' \in 0..MaxFaults /\ summary' \in 0..MaxHeight
    <2>1. NoId \in Ids /\ 0 \in 0..MaxHeight /\ 0 \in 0..MaxEvents
      BY Constants DEF NoId, Ids
    <2>2. NewJob \in Job
      BY <2>1, Zenon DEF NewJob, Job
    <2>3. CASE ReadSnapshot(w)
      <3>1. PICK safe \in 0..height :
               /\ ReadHeight(safe)
               /\ run' = [run EXCEPT ![w] = [Resting EXCEPT !.pc = "view", !.safe = safe]]
        BY <2>3, Zenon DEF ReadSnapshot, Goto
      <3>2. faults' \in 0..MaxFaults /\ safe \in 0..MaxHeight
        BY <1>1, <3>1, ReadHeightType
      <3> DEFINE r == [Resting EXCEPT !.pc = "view", !.safe = safe]
      <3>3. r \in Run /\ r.pc = "view"
        BY <2>1, <2>2, <3>2, Zenon DEF Resting, Run
      <3>4. summary' \in 0..MaxHeight
        BY <1>1, <2>3 DEF ReadSnapshot, documents, TypeOK
      <3> HIDE DEF r
      <3> QED BY <3>1, <3>2, <3>3, <3>4 DEF r
    <2>4. CASE SaveFundingSnapshot(w)
      <3>1. Resting \in Run /\ Resting.pc = "idle" /\ run' = [run EXCEPT ![w] = Resting]
        BY <2>1, <2>2, <2>4, Zenon DEF Resting, Run, SaveFundingSnapshot, Rest, Goto
      <3>2. PICK r \in Run : r = run[w]
        BY <1>1, Zenon DEF TypeOK
      <3>3. r.safe \in 0..MaxHeight
        BY <3>2, Zenon DEF Run
      <3>4. summary' \in 0..MaxHeight /\ faults' \in 0..MaxFaults
        BY <1>1, <2>4, <3>2, <3>3 DEF SaveFundingSnapshot, TypeOK
      <3> QED BY <3>1, <3>4
    <2> QED BY <2>3, <2>4
  <1>3. UNCHANGED <<chain, height, platform, recorded, job, posting, proposal>>
    BY DEF ReadSnapshot, SaveFundingSnapshot, chainVars, documents
  <1>4. Keeps(q)'
    BY <1>2 DEF Keeps
  <1>5. /\ run' \in [Workers -> Run]
        /\ \A v \in Workers : run'[v] = run[v] \/ Keeps(run[v])'
    BY <1>1, <1>2, <1>4, RunKeeps
  <1>6. TypeOK'
    BY <1>1, <1>2, <1>3, <1>5, Zenon DEF TypeOK
  <1>7. Counts(job)'
    <2>1. PICK d : d = job
      OBVIOUS
    <2>2. Counts(d)'
      BY <1>1, <1>3, <2>1, CountsNext
    <2> QED BY <1>3, <2>1, <2>2
  <1> QED BY <1>3, <1>5, <1>6, <1>7, LocalStep

LEMMA LastOfShape ==
    ASSUME NEW N \in Nat, NEW S \in SUBSET (1..N), S # {}
    PROVE  LastOf(S) \in S /\ \A k \in S : k <= LastOf(S)
  <1> DEFINE T == {n \in Nat : \A k \in S : k <= n}
  <1>1. N \in T
    OBVIOUS
  <1>2. PICK n \in T : \A k \in T : n <= k
    <2>1. T # {} /\ T \subseteq Nat
      BY <1>1
    <2> HIDE DEF T
    <2>2. PICK n \in T : \A k \in T : ~(<<k, n>> \in OpToRel(<, Nat))
      BY <2>1, NatLessThanWellFounded, WFMin
    <2>3. \A k \in T : ~(k < n)
      BY <2>1, <2>2 DEF OpToRel
    <2> QED BY <2>1, <2>3
  <1>3. n \in Nat /\ \A k \in S : k \in Nat /\ k > 0 /\ k <= n
    BY <1>2
  <1>4. n \in S
    <2>1. SUFFICES ASSUME n \notin S
                   PROVE  FALSE
      OBVIOUS
    <2>2. n > 0
      <3>1. PICK k \in S : TRUE
        OBVIOUS
      <3> QED BY <1>3, <3>1
    <2>3. n - 1 \in T
      BY <1>3, <2>1, <2>2
    <2> QED BY <1>2, <1>3, <2>3
  <1>5. \E i \in S : \A k \in S : k <= i
    BY <1>3, <1>4
  <1> QED BY <1>5, Zenon DEF LastOf

LEMMA InvalidatedType ==
    ASSUME TypeOK, NEW j \in Job, NEW safe
    PROVE  Invalidated(j, safe) \in Ids
  <1> DEFINE here == {i \in Page(j, safe) : chain[i].kind = "Declined"}
  <1>1. Now \in Nat /\ here \in SUBSET (1..Now)
    BY ChainTypes DEF Page, Logs
  <1>2. Invalidated(j, safe) = IF here # {} THEN chain[LastOf(here)].id ELSE j.invalid
    BY Zenon DEF Invalidated
  <1> HIDE DEF here
  <1>3. here # {} => LastOf(here) \in 1..Now
    BY <1>1, LastOfShape
  <1> QED BY <1>2, <1>3, ChainTypes, JobTypes

\* The next checkpoint is at the end of the page.
LEMMA CheckpointShape ==
    ASSUME TypeOK, Ordered, NEW j \in Job, Counts(j), NEW safe \in Nat, safe <= height,
           CountsAgree(j, safe)
    PROVE  /\ NextCheckpoint(j, safe).block \in 0..MaxHeight
           /\ NextCheckpoint(j, safe).block <= height
           /\ NextCheckpoint(j, safe).index \in 0..MaxEvents
           /\ NextAnchors(j, safe) \in 0..MaxEvents
           /\ NextCheckpoint(j, safe).index # 0 =>
                 /\ NextCheckpoint(j, safe).index <= Now
                 /\ NextCheckpoint(j, safe).block = chain[NextCheckpoint(j, safe).index].block
           /\ NextAnchors(j, safe) = IF NextCheckpoint(j, safe).index # 0
                                     THEN NextCheckpoint(j, safe).index
                                     ELSE Upto(NextCheckpoint(j, safe).block)
  <1> DEFINE a == j.anchors
             to == ToBlock(j, safe)
             c == NextCheckpoint(j, safe)
  <1>1. PICK m \in Nat :
              /\ Page(j, safe) = (a + 1)..(a + m)
              /\ Cardinality(Page(j, safe)) = m
              /\ a + m <= Now
              /\ ~Whole(j, safe) => m > 0
              /\ Whole(j, safe) /\ to < safe => a + m = Upto(to)
    BY PageShape
  <1>2. /\ a \in Nat /\ Now \in Nat /\ Now <= MaxEvents /\ MaxEvents \in Nat
        /\ height \in Nat /\ height <= MaxHeight /\ MaxHeight \in Nat
        /\ to \in Nat /\ to <= safe
    BY JobTypes, ChainTypes, Constants, BlockRange
  <1>3. NextAnchors(j, safe) = a + m
    BY <1>1 DEF NextAnchors
  <1>4. a + m \in 0..MaxEvents
    BY <1>1, <1>2
  <1>5. CASE Whole(j, safe)
    <2>1. c.block = to /\ c.index = 0
      <3> HIDE DEF to
      <3>1. c = [block |-> to, index |-> 0]
        BY <1>5, Zenon DEF NextCheckpoint, to
      <3> HIDE DEF c
      <3> QED BY <3>1
    <2>2. a + m = Upto(to)
      <3>1. CASE to < safe
        BY <1>1, <1>5, <3>1
      <3>2. CASE to = safe
        <4>1. Complete(j, safe)
          BY <1>5, <3>2 DEF Complete
        <4> QED BY <1>3, <3>2, <4>1 DEF CountsAgree
      <3> QED BY <1>2, <3>1, <3>2
    <2> HIDE DEF a, to, c
    <2> QED BY <1>2, <1>3, <1>4, <2>1, <2>2 DEF c
  <1>6. CASE ~Whole(j, safe)
    <2>1. m > 0 /\ a + m \in 1..Now
      BY <1>1, <1>2, <1>6
    <2>2. LastOf(Page(j, safe)) = a + m
      <3>1. PICK b \in Nat : b = a + m
        BY <1>2
      <3>2. Page(j, safe) = (a + 1)..b /\ b \in (a + 1)..b
        BY <1>1, <1>2, <2>1, <3>1
      <3>3. Page(j, safe) \in SUBSET (1..b) /\ Page(j, safe) # {}
        BY <1>2, <3>2
      <3> DEFINE l == LastOf(Page(j, safe))
      <3>4. l \in Page(j, safe) /\ b <= l
        BY <3>2, <3>3, LastOfShape
      <3> HIDE DEF l, a
      <3>5. l = b
        BY <1>2, <3>2, <3>4
      <3> QED BY <3>1, <3>5 DEF l
    <2>3. c.block = chain[a + m].block /\ c.index = a + m
      <3>1. c = [block |-> chain[a + m].block, index |-> a + m]
        BY <1>6, <2>2, Zenon DEF NextCheckpoint
      <3> HIDE DEF c
      <3> QED BY <3>1
    <2>4. chain[a + m].block \in Nat /\ chain[a + m].block <= height
      <3>1. a + m \in (a + 1)..(a + m)
        BY <1>2, <2>1
      <3>2. a + m \in Page(j, safe)
        BY <1>1, <3>1
      <3>3. chain[a + m].block <= to
        BY <3>2, Zenon DEF Page, Logs, to
      <3>4. chain[a + m].block \in Nat
        BY <2>1, ChainTypes
      <3> HIDE DEF a, to
      <3> QED BY <1>2, <3>3, <3>4
    <2> HIDE DEF a, to, c
    <2> QED BY <1>2, <1>3, <1>4, <2>1, <2>3, <2>4 DEF c
  <1> QED BY <1>5, <1>6

LEMMA FinishCounts ==
    ASSUME SyncInv, NEW w \in Workers, Finish(w)
    PROVE  /\ job' \in Job /\ Counts(job)'
           /\ run[w].safe \in 0..MaxHeight
  <1>1. PICK r \in Run : r = run[w]
    BY Zenon DEF SyncInv, TypeOK
  <1>2. TypeOK /\ Ordered /\ job \in Job /\ Keeps(r)
    BY <1>1 DEF SyncInv, TypeOK
  <1>3. /\ r.pc = "finish" /\ FinishJob(r.job, r.safe)
        /\ UNCHANGED <<chain, height, recorded>>
    BY <1>1 DEF Finish, At, chainVars
  <1>4. r.job \in Job /\ r.safe \in 0..MaxHeight
    BY Zenon DEF Run
  <1>5. r.safe \in Nat
    BY <1>4, Constants
  <1>6. PICK j \in Job, safe \in Nat : j = r.job /\ safe = r.safe
    BY <1>4, <1>5
  <1>7. /\ Counts(j) /\ safe <= height /\ CountsAgree(j, safe)
        /\ 1..NextAnchors(j, safe) \subseteq recorded
    BY <1>2, <1>3, <1>6 DEF Keeps, NextAnchors
  <1> DEFINE c == NextCheckpoint(j, safe)
             n == NextAnchors(j, safe)
             invalid == IF Complete(j, safe) THEN NoId ELSE Invalidated(j, safe)
  <1>8. /\ c.block \in 0..MaxHeight /\ c.block <= height
        /\ c.index \in 0..MaxEvents /\ n \in 0..MaxEvents
        /\ c.index # 0 => c.index <= Now /\ c.block = chain[c.index].block
        /\ n = IF c.index # 0 THEN c.index ELSE Upto(c.block)
    BY <1>2, <1>7, CheckpointShape
  <1>9. invalid \in Ids
    BY <1>2, InvalidatedType, Constants DEF NoId, Ids
  <1>10. KeepsRequest(j, safe) \in BOOLEAN /\ JobEnds(j, safe) \in BOOLEAN
    BY JobTypes, <1>2 DEF KeepsRequest, JobEnds
  <1>11. job' = [job EXCEPT !.block = c.block, !.index = c.index, !.anchors = n,
                    !.invalid = invalid, !.requested = KeepsRequest(j, safe), !.live = FALSE,
                    !.complete = JobEnds(j, safe)]
    BY <1>3, <1>6, Zenon DEF FinishJob
  <1> HIDE DEF invalid, n, c
  <1>12. job' \in Job /\ job'.block = c.block /\ job'.index = c.index /\ job'.anchors = n
    BY <1>2, <1>8, <1>9, <1>10, <1>11, Zenon DEF Job
  <1>13. PICK d \in Job : d = job'
    BY <1>12
  <1>14. Counts(d)
    <2>1. d.block = c.block /\ d.index = c.index /\ d.anchors = n
      BY <1>12, <1>13
    <2>2. 1..n \subseteq recorded
      BY <1>7 DEF n
    <2> QED BY <1>8, <2>1, <2>2 DEF Counts, Partial
  <1>15. Counts(d)'
    BY <1>3, <1>14, CountsNext
  <1> QED BY <1>1, <1>4, <1>12, <1>13, <1>15

LEMMA FinishStep ==
    ASSUME SyncInv, NEW w \in Workers, Finish(w)
    PROVE  SyncInv'
  <1>1. TypeOK
    BY DEF SyncInv
  <1>2. /\ run' = [run EXCEPT ![w] = Resting]
        /\ UNCHANGED <<chain, height, platform, recorded, faults>>
    BY DEF Finish, Rest, Goto, chainVars
  <1>3. job' \in Job /\ Counts(job)' /\ run[w].safe \in 0..MaxHeight
    BY FinishCounts
  <1>4. /\ run' \in [Workers -> Run]
        /\ \A v \in Workers : run'[v] = run[v] \/ Keeps(run[v])'
    BY <1>1, <1>2, RestingKeeps
  <1>5. summary' \in 0..MaxHeight
    BY <1>1, <1>3 DEF Finish, FinishSummary, TypeOK
  <1>6. proposal' \in {"submitted", "accepted", "rejected"}
    BY <1>1 DEF Finish, FinishWorkflow, TypeOK
  <1>7. posting' \in [selection : Ids, accepted : BOOLEAN]
    <2>1. posting \in [selection : Ids, accepted : BOOLEAN] /\ NoId \in Ids
      BY <1>1, Constants DEF TypeOK, NoId, Ids
    <2>2. posting.selection \in Ids /\ posting.accepted \in BOOLEAN
      BY <2>1, Zenon
    <2>3. PICK s, b : posting' = [selection |-> IF s THEN NoId ELSE posting.selection,
                                   accepted |-> posting.accepted \/ b]
      BY Zenon DEF Finish, FinishWorkflow
    <2>4. (IF s THEN NoId ELSE posting.selection) \in Ids /\ (posting.accepted \/ b) \in BOOLEAN
      BY <2>1, <2>2
    <2> QED BY <2>3, <2>4, Zenon
  <1>8. TypeOK'
    BY <1>1, <1>2, <1>3, <1>4, <1>5, <1>6, <1>7, Zenon DEF TypeOK
  <1> QED BY <1>2, <1>3, <1>4, <1>8, LocalStep

-----------------------------------------------------------------------------
(* The theorems *)

LEMMA SyncInit ==
    ASSUME Init
    PROVE  SyncInv
  <1> DEFINE e == [kind |-> "Deposit", id |-> NoId, block |-> 1]
  <1>1. NoId \in Ids /\ 0 \in 0..MaxHeight /\ 0 \in 0..MaxEvents /\ 1 \in 1..MaxHeight
    BY Constants DEF NoId, Ids
  <1>2. e \in Event /\ e.block = 1 /\ e.kind = "Deposit"
    BY <1>1, Zenon DEF Event, Kinds
  <1>3. chain = <<e>> /\ height = 1
    BY DEF Init
  <1> HIDE DEF e
  <1>4. chain \in Seq(Event) /\ Now = 1 /\ chain[1] = e
    BY <1>2, <1>3 DEF Now
  <1>5. /\ NewJob \in Job /\ NewJob.block = 0 /\ NewJob.index = 0 /\ NewJob.anchors = 0
    BY <1>1, Zenon DEF NewJob, Job
  <1>6. Resting \in Run /\ Resting.pc = "idle"
    BY <1>1, <1>5, Zenon DEF Resting, Run
  <1>7. TypeOK
    <2>1. Len(chain) <= MaxEvents
      BY <1>4, Constants DEF Now
    <2>2. height \in 0..MaxHeight /\ 0 \in 0..MaxFaults
      BY <1>3, Constants
    <2>3. posting \in [selection : Ids, accepted : BOOLEAN]
      BY <1>1, Zenon DEF Init
    <2>4. run \in [Workers -> Run]
      BY <1>6, Zenon DEF Init
    <2>5. /\ platform = None /\ recorded = {} /\ job = NewJob /\ summary = 0
          /\ proposal = "submitted" /\ faults = 0
      BY DEF Init
    <2>6. recorded \subseteq 1..MaxEvents
      BY <2>5
    <2> QED BY <1>1, <1>4, <1>5, <2>1, <2>2, <2>3, <2>4, <2>5, <2>6, Zenon DEF TypeOK
  <1>8. Ordered /\ ClosedStaysUnpaid
    BY <1>2, <1>3, <1>4 DEF Ordered, ClosedStaysUnpaid
  <1>9. Counts(job)
    <2>1. Upto(0) = 0
      <3>1. {i \in 1..Now : chain[i].block <= 0} = {}
        BY <1>2, <1>4
      <3> QED BY <3>1, FS_EmptySet DEF Upto
    <2>2. job = NewJob /\ ~Partial(job)
      BY <1>5 DEF Init, Partial
    <2> QED BY <1>3, <1>5, <2>1, <2>2 DEF Counts
  <1>10. ASSUME NEW w \in Workers
         PROVE  Keeps(run[w])
    <2>1. run[w] = Resting
      BY <1>10 DEF Init
    <2> QED BY <1>6, <2>1 DEF Keeps
  <1> QED BY <1>7, <1>8, <1>9, <1>10 DEF SyncInv

LEMMA SyncNext ==
    ASSUME SyncInv, [Next]_vars
    PROVE  SyncInv'
  <1>1. CASE UNCHANGED vars
    <2>1. /\ UNCHANGED <<chain, height, platform, recorded, job, summary, posting, proposal>>
          /\ UNCHANGED <<run, faults>>
      BY <1>1 DEF vars, chainVars, documents
    <2>2. TypeOK'
      BY <2>1, Zenon DEF SyncInv, TypeOK
    <2>3. Counts(job)'
      <3>1. PICK j : j = job
        OBVIOUS
      <3>2. Counts(j)'
        BY <2>1, <3>1, CountsNext DEF SyncInv
      <3> QED BY <2>1, <3>1, <3>2
    <2> QED BY <2>1, <2>2, <2>3, LocalStep
  <1>2. CASE Escrow
    BY <1>2, EscrowStep
  <1>3. CASE ConfirmBlock
    BY <1>3, ConfirmBlockStep
  <1>4. CASE LeaseExpires
    BY <1>4, LeaseStep
  <1>5. ASSUME NEW w \in Workers, Claim(w) \/ RunStep(w) \/ Fail(w) \/ Crash(w)
        PROVE  SyncInv'
    <2>1. CASE Claim(w)
      BY <2>1, ClaimStep
    <2>2. CASE SaveEvent(w)
      BY <2>2, SaveStep
    <2>3. CASE Compare(w)
      BY <2>3, CompareStep
    <2>4. CASE Mismatch(w) \/ LostLease(w) \/ Fail(w)
      BY <2>4, AbortingSteps
    <2>5. CASE Finish(w)
      BY <2>5, FinishStep
    <2>6. CASE Crash(w)
      BY <2>6, CrashStep
    <2>7. CASE SaveFundingSnapshot(w)
      BY <2>7, SnapshotStep
    <2> QED BY <1>5, <2>1, <2>2, <2>3, <2>4, <2>5, <2>6, <2>7 DEF RunStep
  <1>6. ASSUME NEW w \in Callers, StartSettlement(w) \/ ReadSnapshot(w)
        PROVE  SyncInv'
    <2>1. w \in Workers
      BY DEF Workers
    <2> QED BY <1>6, <2>1, StartStep, SnapshotStep
  <1> QED BY <1>1, <1>2, <1>3, <1>4, <1>5, <1>6 DEF Next

\* Every variable keeps its type, whatever is interrupted, overtaken or repeated:
\* the documents and local variables of syncEscrowFunding.
THEOREM SyncTypeCorrect == Spec => []TypeOK
  <1>1. SyncInv => TypeOK
    BY DEF SyncInv
  <1> QED BY <1>1, SyncInit, SyncNext, PTL DEF Spec

\* Every confirmed event is counted once, and only after it was written: the
\* checkpoint of escrowFundingJobs against the documents of escrowFundingEvents.
THEOREM EveryEventCountedOnce == Spec => []CheckpointIsExact
  <1>1. SyncInv => CheckpointIsExact
    BY DEF SyncInv, Counts, CheckpointIsExact
  <1> QED BY <1>1, SyncInit, SyncNext, PTL DEF Spec

\* What a page has read has happened by now, and an unpaid end is final.
LEMMA AnswerStands ==
    ASSUME SyncInv, NEW w \in Workers, At(w, "finish")
    PROVE  LET j == run[w].job
               safe == run[w].safe
           IN /\ Page(j, safe) \subseteq 1..Upto(height)
              /\ UnpaidTerminal(Upto(safe)) => UnpaidTerminal(Upto(height))
  <1> DEFINE j == run[w].job
             safe == run[w].safe
  <1>1. /\ TypeOK /\ Ordered /\ ClosedStaysUnpaid /\ run[w] \in Run /\ Keeps(run[w])
    BY DEF SyncInv, TypeOK
  <1>2. height \in Nat /\ Now \in Nat
    BY <1>1, ChainTypes
  <1>3. safe \in Nat /\ safe <= height /\ j \in Job
    <2>1. safe \in 0..MaxHeight /\ j \in Job /\ run[w].pc = "finish"
      BY <1>1, Zenon DEF Run, At
    <2> QED BY <1>1, <2>1, Constants DEF Keeps
  <1>4. /\ Upto(safe) \in Nat /\ Upto(height) \in Nat /\ Upto(height) <= Now
        /\ Upto(safe) <= Upto(height)
    BY <1>1, <1>2, <1>3, UptoShape, UptoGrows
  <1>5. Page(j, safe) \subseteq 1..Upto(height)
    <2>1. ToBlock(j, safe) \in Nat /\ ToBlock(j, safe) <= safe
      BY <1>3, BlockRange
    <2>2. /\ \A i \in 1..Now : chain[i].block <= height <=> i <= Upto(height)
          /\ \A i \in 1..Now : chain[i].block \in Nat
      BY <1>1, <1>2, UptoShape, ChainTypes
    <2>3. \A i \in Page(j, safe) : i \in 1..Now /\ chain[i].block <= ToBlock(j, safe)
      BY DEF Page, Logs
    <2> HIDE DEF j, safe
    <2> QED BY <1>2, <1>3, <1>4, <2>1, <2>2, <2>3
  <1>6. ASSUME UnpaidTerminal(Upto(safe))
        PROVE  UnpaidTerminal(Upto(height))
    <2> DEFINE n == Upto(safe)
               m == Upto(height)
    <2>1. n \in Nat /\ m \in Nat /\ n <= m /\ m <= Now
      BY <1>4
    <2>2. Unpaid(n) /\ (Has(n, "Closed") \/ Has(n, "Declined"))
      BY <1>6 DEF UnpaidTerminal, State
    <2> HIDE DEF n, m, j, safe
    <2>3. PICK i \in 1..n : chain[i].kind \in {"Closed", "Declined"}
      BY <2>2 DEF Has
    <2>4. ASSUME NEW k \in 1..m
          PROVE  chain[k].kind # "Upfront"
      <3>1. CASE k <= n
        BY <2>1, <2>2, <2>4, <3>1 DEF Unpaid, Has
      <3>2. CASE n < k
        BY <1>1, <1>2, <2>1, <2>3, <2>4, <3>2 DEF ClosedStaysUnpaid
      <3> QED BY <1>2, <2>1, <2>4, <3>1, <3>2
    <2>5. Unpaid(m)
      BY <2>4 DEF Unpaid, Has
    <2>6. Has(m, "Closed") \/ Has(m, "Declined")
      BY <1>2, <2>1, <2>3 DEF Has
    <2> QED BY <2>5, <2>6 DEF UnpaidTerminal, State, m
  <1> QED BY <1>5, <1>6

LEMMA RequestStep ==
    ASSUME SyncInv, [Next]_vars,
           job.requested, ~job'.requested \/ job'.id # job.id
    PROVE  \/ \E i \in 1..Upto(height) :
                  chain[i].id = job.id /\ chain[i].kind \in {"Locked", "Declined"}
           \/ UnpaidTerminal(Upto(height))
  <1>1. job \in Job
    BY DEF SyncInv, TypeOK
  <1>2. PICK w \in Workers : Finish(w)
    <2>1. ASSUME job' = job
          PROVE  FALSE
      BY <2>1
    <2>2. ASSUME NEW w \in Workers, Claim(w)
          PROVE  FALSE
      <3>1. job' = job \/ job' = [job EXCEPT !.token = w, !.live = TRUE]
        BY <2>2 DEF Claim
      <3>2. job'.requested = job.requested /\ job'.id = job.id
        BY <1>1, <3>1, Zenon DEF Job
      <3> QED BY <3>2
    <2>3. ASSUME NEW w \in Workers, Abort(w)
          PROVE  FALSE
      <3>1. job' = job \/ job' = [job EXCEPT !.live = FALSE, !.complete = FALSE]
        BY <2>3 DEF Abort
      <3>2. job'.requested = job.requested /\ job'.id = job.id
        BY <1>1, <3>1, Zenon DEF Job
      <3> QED BY <3>2
    <2>4. ASSUME LeaseExpires
          PROVE  FALSE
      <3>1. job' = [job EXCEPT !.live = FALSE]
        BY <2>4 DEF LeaseExpires
      <3>2. job'.requested = job.requested /\ job'.id = job.id
        BY <1>1, <3>1, Zenon DEF Job
      <3> QED BY <3>2
    <2>5. ASSUME NEW w \in Workers, StartSettlement(w)
          PROVE  FALSE
      <3>1. job' = [job EXCEPT !.requested = TRUE, !.id = job.id]
        BY <2>5 DEF StartSettlement
      <3>2. job'.requested = TRUE /\ job'.id = job.id
        BY <1>1, <3>1, Zenon DEF Job
      <3> QED BY <3>2
    <2>6. CASE UNCHANGED vars
      BY <2>1, <2>6 DEF vars, documents
    <2>7. CASE Escrow \/ ConfirmBlock
      BY <2>1, <2>7 DEF Escrow, Decline, Close, Refund, Settle, ConfirmBlock, documents
    <2>8. ASSUME NEW w \in Workers,
                 SaveEvent(w) \/ Compare(w) \/ Crash(w) \/ ReadSnapshot(w) \/ SaveFundingSnapshot(w)
          PROVE  FALSE
      BY <2>1, <2>8 DEF SaveEvent, Compare, Crash, ReadSnapshot, SaveFundingSnapshot, documents
    <2>9. ASSUME NEW w \in Workers, Mismatch(w) \/ LostLease(w) \/ Fail(w)
          PROVE  FALSE
      BY <2>3, <2>9 DEF Mismatch, LostLease, Fail
    <2>10. \A w \in Callers : w \in Workers
      BY DEF Workers
    <2> QED BY <2>2, <2>4, <2>5, <2>6, <2>7, <2>8, <2>9, <2>10 DEF Next, RunStep
  <1> DEFINE j == run[w].job
             safe == run[w].safe
  <1>3. job'.requested = KeepsRequest(j, safe) /\ job'.id = job.id
    <2>1. FinishJob(j, safe)
      BY <1>2 DEF Finish
    <2> HIDE DEF j, safe
    <2>2. \E c, n, i, e : job' = [job EXCEPT !.block = c.block, !.index = c.index, !.anchors = n,
              !.invalid = i, !.requested = KeepsRequest(j, safe), !.live = FALSE, !.complete = e]
      BY <2>1, Zenon DEF FinishJob
    <2> QED BY <1>1, <2>2, Zenon DEF Job
  <1>4. ~KeepsRequest(j, safe)
    BY <1>3
  <1>5. /\ Page(j, safe) \subseteq 1..Upto(height)
        /\ UnpaidTerminal(Upto(safe)) => UnpaidTerminal(Upto(height))
    BY <1>2, AnswerStands DEF Finish
  <1> HIDE DEF j, safe
  <1> QED BY <1>4, <1>5 DEF KeepsRequest, Consumed

\* The owner's request to select ends only once the chain has answered it, even
\* when the answer is read by a run that started before the request: the
\* settlementRequested flag in the last transaction of syncEscrowFunding.
THEOREM RequestsStand == Spec => RequestStandsUntilAnswered
  <1>1. ASSUME SyncInv, [Next]_vars
        PROVE  [job.requested /\ (~job'.requested \/ job'.id # job.id) =>
                  \/ \E i \in 1..Upto(height) :
                        chain[i].id = job.id /\ chain[i].kind \in {"Locked", "Declined"}
                  \/ UnpaidTerminal(Upto(height))]_vars
    BY <1>1, RequestStep
  <1> QED BY <1>1, SyncInit, SyncNext, PTL DEF Spec, RequestStandsUntilAnswered

=============================================================================
