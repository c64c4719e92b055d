----------------------------- MODULE DiskProofs -----------------------------
(***************************************************************************)
(* The write-back loop keeps its promise for every number of drives and    *)
(* sectors, every interval and every slice length, up to failing fsyncs.   *)
(***************************************************************************)
EXTENDS DiskWriteBack, FiniteSetTheorems, TLAPS

\* A pending write's age and the time left to the flush it waits for never
\* exceed the interval together.
OnTime ==
  \A d \in Drives, s \in Lba :
    age[d][s] >= 0 /\ ~stranded[d] => age[d][s] + wait <= Interval

\* A drive synced at every write has no pending acknowledged write.
ImmediateIsClean ==
  \A d \in Drives, s \in Lba : Policy[d] = "Immediate" => age[d][s] = -1

DiskInv ==
  /\ TypeOK
  /\ DirtyCoversWrites
  /\ FlushScheduled
  /\ SyncedWithinInterval
  /\ CardHoldsTheRest
  /\ OnTime
  /\ ImmediateIsClean

LEMMA FullWait == Interval \in 0 .. Interval /\ 0 \in 0 .. MaxFailures
BY SizesAssumption

LEMMA NoAgeType == NoAge \in [Drives -> [Lba -> -1 .. Interval]]
<1>1. -1 \in -1 .. Interval
  BY SizesAssumption
<1>2. [s \in Lba |-> -1] \in [Lba -> -1 .. Interval]
  BY <1>1
<1> QED BY <1>2 DEF NoAge

LEMMA DiskInit == Init => DiskInv
<1> SUFFICES ASSUME Init PROVE DiskInv
  OBVIOUS
<1> USE SizesAssumption DEF Init
<1>1. \A d \in Drives, s \in Lba : age[d][s] = -1
  BY DEF NoAge
<1>2. TypeOK
  BY NoAgeType, FullWait DEF TypeOK, Nobody
<1> QED BY <1>1, <1>2 DEF DiskInv, DirtyCoversWrites, FlushScheduled,
     SyncedWithinInterval, CardHoldsTheRest, OnTime, ImmediateIsClean

(* The age table of one drive after some of its sectors were written.        *)
LEMMA RangeUpdate ==
  ASSUME NEW f, NEW T, f \in [Drives -> [Lba -> T]], NEW d \in Drives,
         NEW rng, NEW v \in T,
         NEW g, g = [f EXCEPT ![d] = [s \in Lba |-> IF s \in rng THEN v ELSE @[s]]]
  PROVE  /\ g \in [Drives -> [Lba -> T]]
         /\ \A e \in Drives, s \in Lba :
              g[e][s] = IF e = d /\ s \in rng THEN v ELSE f[e][s]
OBVIOUS

LEMMA WriteDeferredInv ==
  ASSUME DiskInv, NEW d \in Drives, NEW rng \in SUBSET Lba, NEW v \in Values,
         WriteDeferred(d, rng, v)
  PROVE  DiskInv'
<1> USE SizesAssumption DEF WriteDeferred, DiskInv
<1>1. /\ file' \in [Drives -> [Lba -> Values]]
      /\ \A e \in Drives, s \in Lba :
           file'[e][s] = IF e = d /\ s \in rng THEN v ELSE file[e][s]
  BY RangeUpdate DEF TypeOK, Written
<1>2. /\ age' \in [Drives -> [Lba -> -1 .. Interval]]
      /\ \A e \in Drives, s \in Lba :
           age'[e][s] = IF e = d /\ s \in rng THEN 0 ELSE age[e][s]
  <2>1. 0 \in -1 .. Interval
    OBVIOUS
  <2> QED BY <2>1, RangeUpdate DEF TypeOK
<1>3. /\ dirty' \in [Drives -> BOOLEAN]
      /\ \A e \in Drives : dirty'[e] = IF e = d THEN TRUE ELSE dirty[e]
  BY DEF TypeOK
<1>4. /\ torn' \in [Drives -> SUBSET Lba]
      /\ \A e \in Drives : torn'[e] = IF e = d THEN torn[e] \ rng ELSE torn[e]
  BY DEF TypeOK
<1>5. TypeOK'
  BY <1>1, <1>2, <1>3, <1>4 DEF TypeOK
<1>6. DirtyCoversWrites' /\ FlushScheduled'
  BY <1>2, <1>3 DEF DirtyCoversWrites, FlushScheduled
<1>7. SyncedWithinInterval' /\ OnTime'
  BY <1>2 DEF SyncedWithinInterval, OnTime, TypeOK
<1>8. CardHoldsTheRest'
  BY <1>1, <1>2, <1>4 DEF CardHoldsTheRest
<1>9. ImmediateIsClean'
  BY <1>2 DEF ImmediateIsClean
<1> QED BY <1>5, <1>6, <1>7, <1>8, <1>9

LEMMA WriteImmediateInv ==
  ASSUME DiskInv, NEW d \in Drives, NEW rng \in SUBSET Lba, NEW v \in Values,
         WriteImmediate(d, rng, v)
  PROVE  DiskInv'
<1> USE SizesAssumption DEF WriteImmediate, DiskInv
<1>1. /\ file' \in [Drives -> [Lba -> Values]]
      /\ \A e \in Drives, s \in Lba :
           file'[e][s] = IF e = d /\ s \in rng THEN v ELSE file[e][s]
  BY RangeUpdate DEF TypeOK, Written
<1>2. TypeOK'
  BY <1>1 DEF TypeOK
<1>3. \A s \in Lba : age[d][s] = -1
  BY DEF ImmediateIsClean
<1>4. \A e \in Drives : e # d => /\ dirty'[e] = dirty[e]
                                 /\ card'[e] = card[e]
                                 /\ torn'[e] = torn[e]
                                 /\ stranded'[e] = stranded[e]
  BY DEF TypeOK
<1>5. card'[d] = file'[d]
  BY DEF TypeOK
<1>6. DirtyCoversWrites' /\ FlushScheduled' /\ SyncedWithinInterval' /\ OnTime'
  BY <1>3, <1>4 DEF DirtyCoversWrites, FlushScheduled, SyncedWithinInterval, OnTime
<1>7. CardHoldsTheRest'
  BY <1>1, <1>4, <1>5 DEF CardHoldsTheRest
<1>8. ImmediateIsClean'
  BY DEF ImmediateIsClean
<1> QED BY <1>2, <1>6, <1>7, <1>8

LEMMA WriteUnsyncedInv ==
  ASSUME DiskInv, NEW d \in Drives, NEW rng \in SUBSET Lba, NEW v \in Values,
         WriteUnsynced(d, rng, v)
  PROVE  DiskInv'
<1> USE SizesAssumption DEF WriteUnsynced, DiskInv
<1>1. /\ file' \in [Drives -> [Lba -> Values]]
      /\ \A e \in Drives, s \in Lba :
           file'[e][s] = IF e = d /\ s \in rng THEN v ELSE file[e][s]
  BY RangeUpdate DEF TypeOK, Written
<1>2. /\ torn' \in [Drives -> SUBSET Lba]
      /\ \A e \in Drives : torn'[e] = IF e = d THEN torn[e] \cup rng ELSE torn[e]
  BY DEF TypeOK
<1>3. TypeOK'
  BY <1>1, <1>2 DEF TypeOK, CardError
<1>4. \A e \in Drives : /\ dirty'[e] = IF e = d THEN TRUE ELSE dirty[e]
                        /\ stranded'[e] = IF e = d THEN TRUE ELSE stranded[e]
  BY DEF TypeOK
<1>5. DirtyCoversWrites' /\ FlushScheduled' /\ SyncedWithinInterval' /\ OnTime'
  BY <1>4 DEF DirtyCoversWrites, FlushScheduled, SyncedWithinInterval, OnTime
<1>6. CardHoldsTheRest'
  BY <1>1, <1>2 DEF CardHoldsTheRest
<1>7. ImmediateIsClean'
  BY DEF ImmediateIsClean
<1> QED BY <1>3, <1>5, <1>6, <1>7

LEMMA WriteFailsInv ==
  ASSUME DiskInv, NEW d \in Drives, NEW rng \in SUBSET Lba, NEW v \in Values,
         WriteFails(d, rng, v)
  PROVE  DiskInv'
<1> USE SizesAssumption DEF WriteFails, DiskInv
<1>1. /\ file' \in [Drives -> [Lba -> Values]]
      /\ \A e \in Drives, s \in Lba :
           file'[e][s] = IF e = d /\ s \in rng THEN v ELSE file[e][s]
  BY RangeUpdate DEF TypeOK, Written
<1>2. /\ age' \in [Drives -> [Lba -> -1 .. Interval]]
      /\ \A e \in Drives, s \in Lba :
           age'[e][s] = IF e = d /\ s \in rng THEN -1 ELSE age[e][s]
  <2>1. -1 \in -1 .. Interval
    OBVIOUS
  <2> QED BY <2>1, RangeUpdate DEF TypeOK
<1>3. /\ torn' \in [Drives -> SUBSET Lba]
      /\ \A e \in Drives : torn'[e] = IF e = d THEN torn[e] \cup rng ELSE torn[e]
  BY DEF TypeOK
<1>4. TypeOK'
  BY <1>1, <1>2, <1>3 DEF TypeOK, CardError
<1>5. DirtyCoversWrites' /\ FlushScheduled'
  BY <1>2 DEF DirtyCoversWrites, FlushScheduled
<1>6. SyncedWithinInterval' /\ OnTime'
  BY <1>2 DEF SyncedWithinInterval, OnTime, TypeOK
<1>7. CardHoldsTheRest'
  BY <1>1, <1>2, <1>3 DEF CardHoldsTheRest
<1>8. ImmediateIsClean'
  BY <1>2 DEF ImmediateIsClean
<1> QED BY <1>4, <1>5, <1>6, <1>7, <1>8

LEMMA PowerLossInv ==
  ASSUME DiskInv, PowerLoss
  PROVE  DiskInv'
<1> USE SizesAssumption DEF PowerLoss, DiskInv
<1>1. file' \in [Drives -> [Lba -> Values]]
  BY DEF TypeOK
<1>2. TypeOK'
  BY <1>1, NoAgeType, FullWait DEF TypeOK, Nobody
<1>3. \A d \in Drives, s \in Lba : age'[d][s] = -1 /\ card'[d][s] = file'[d][s]
  BY DEF NoAge
<1> QED BY <1>2, <1>3 DEF DirtyCoversWrites, FlushScheduled,
     SyncedWithinInterval, CardHoldsTheRest, OnTime, ImmediateIsClean

LEMMA OlderAges ==
  ASSUME NEW a \in [Lba -> -1 .. Interval], NEW dt \in 1 .. MaxSlice
  PROVE  /\ Older(a, dt) \in [Lba -> -1 .. Interval]
         /\ \A s \in Lba : /\ Older(a, dt)[s] >= 0 <=> a[s] >= 0
                           /\ a[s] = -1 => Older(a, dt)[s] = -1
                           /\ a[s] >= 0 => Older(a, dt)[s] <= a[s] + dt
<1>1. ASSUME NEW s \in Lba
      PROVE  /\ Older(a, dt)[s] \in -1 .. Interval
             /\ Older(a, dt)[s] >= 0 <=> a[s] >= 0
             /\ a[s] = -1 => Older(a, dt)[s] = -1
             /\ a[s] >= 0 => Older(a, dt)[s] <= a[s] + dt
  <2>1. a[s] \in -1 .. Interval /\ dt \in 1 .. MaxSlice
    OBVIOUS
  <2>2. Older(a, dt)[s] = IF a[s] < 0 THEN -1
                          ELSE IF a[s] + dt > Interval THEN Interval ELSE a[s] + dt
    BY DEF Older
  <2> QED BY <2>1, <2>2, SizesAssumption
<1>2. Older(a, dt) = [s \in Lba |-> Older(a, dt)[s]]
  BY DEF Older
<1> QED BY <1>1, <1>2

\* The slice ends and the flush is due.
LEMMA FlushInv ==
  ASSUME DiskInv, NEW dt \in 1 .. MaxSlice,
         NEW failed \in SUBSET {d \in Drives : dirty[d]},
         failures' \in 0 .. MaxFailures,
         FlushDisks(failed),
         age' = [d \in Drives |-> IF dirty'[d] THEN Older(age[d], dt)
                                  ELSE [s \in Lba |-> -1]],
         uncounted' = FALSE, wait' = Interval, UNCHANGED file
  PROVE  DiskInv'
<1> USE SizesAssumption DEF DiskInv
<1> DEFINE synced == {d \in Drives : dirty[d] /\ d \notin failed}
<1>1. \A d \in Drives : dirty'[d] <=> d \in failed
  BY DEF FlushDisks
<1>2. \A d \in Drives : d \in failed => stranded'[d]
  BY DEF FlushDisks
<1>3. /\ age' \in [Drives -> [Lba -> -1 .. Interval]]
      /\ \A d \in Drives, s \in Lba :
           /\ ~dirty'[d] => age'[d][s] = -1
           /\ age[d][s] = -1 => age'[d][s] = -1
           /\ dirty'[d] /\ age[d][s] >= 0 => age'[d][s] >= 0
  <2>1. \A d \in Drives : age[d] \in [Lba -> -1 .. Interval]
    BY DEF TypeOK
  <2>2. [s \in Lba |-> -1] \in [Lba -> -1 .. Interval]
    OBVIOUS
  <2> QED BY <2>1, <2>2, OlderAges
<1>4. TypeOK'
  <2>1. dirty' \in [Drives -> BOOLEAN] /\ stranded' \in [Drives -> BOOLEAN]
    BY DEF FlushDisks
  <2>2. card' \in [Drives -> [Lba -> Values]] /\ torn' \in [Drives -> SUBSET Lba]
    BY DEF FlushDisks, TypeOK
  <2>3. file' \in [Drives -> [Lba -> Values]]
    BY DEF TypeOK
  <2>4. wait' \in 0 .. Interval /\ uncounted' \in BOOLEAN
    BY FullWait
  <2> QED BY <1>3, <2>1, <2>2, <2>3, <2>4 DEF TypeOK
<1>5. DirtyCoversWrites' /\ FlushScheduled'
  BY <1>1, <1>2, <1>3 DEF DirtyCoversWrites, FlushScheduled
<1>6. SyncedWithinInterval' /\ OnTime'
  BY <1>1, <1>2, <1>3 DEF SyncedWithinInterval, OnTime
<1>7. ImmediateIsClean'
  BY <1>3 DEF ImmediateIsClean
<1>8. CardHoldsTheRest'
  <2> SUFFICES ASSUME NEW d \in Drives, NEW s \in Lba,
                      age'[d][s] < 0, s \notin torn'[d]
               PROVE  card'[d][s] = file'[d][s]
    BY DEF CardHoldsTheRest
  <2>1. CASE d \in synced
    BY <2>1 DEF FlushDisks
  <2>2. CASE d \notin synced
    <3>1. card'[d] = card[d] /\ torn'[d] = torn[d]
      BY <2>2 DEF FlushDisks
    <3>2. age[d][s] < 0
      BY <1>1, <1>3, <2>2 DEF DirtyCoversWrites, TypeOK
    <3> QED BY <3>1, <3>2 DEF CardHoldsTheRest
  <2> QED BY <2>1, <2>2
<1> QED BY <1>4, <1>5, <1>6, <1>7, <1>8

\* The slice ends before the flush is due, or with nothing counted.
LEMMA WaitInv ==
  ASSUME DiskInv, NEW dt \in 1 .. MaxSlice,
         ~(uncounted /\ Left(dt) = 0), wait' = Left(dt),
         UNCHANGED <<file, dirty, uncounted, card, failures, torn, stranded>>,
         age' = [d \in Drives |-> Older(age[d], dt)]
  PROVE  DiskInv'
<1> USE SizesAssumption DEF DiskInv
<1>1. /\ age' \in [Drives -> [Lba -> -1 .. Interval]]
      /\ \A d \in Drives, s \in Lba :
           /\ age'[d][s] >= 0 <=> age[d][s] >= 0
           /\ age[d][s] = -1 => age'[d][s] = -1
           /\ age[d][s] >= 0 => age'[d][s] <= age[d][s] + dt
  <2>1. \A d \in Drives : age[d] \in [Lba -> -1 .. Interval]
    BY DEF TypeOK
  <2> QED BY <2>1, OlderAges
<1>2. Left(dt) \in 0 .. Interval
  BY DEF TypeOK, Left
<1>3. TypeOK'
  BY <1>1, <1>2 DEF TypeOK
<1>4. DirtyCoversWrites' /\ FlushScheduled'
  BY <1>1 DEF DirtyCoversWrites, FlushScheduled
<1>5. \A d \in Drives, s \in Lba : age'[d][s] >= 0 /\ ~stranded[d] =>
        age'[d][s] + wait' <= Interval /\ age'[d][s] < Interval
  <2> SUFFICES ASSUME NEW d \in Drives, NEW s \in Lba,
                      age'[d][s] >= 0, ~stranded[d]
               PROVE  age'[d][s] + wait' <= Interval /\ age'[d][s] < Interval
    OBVIOUS
  <2>1. age[d][s] >= 0 /\ age[d][s] + wait <= Interval
    BY <1>1 DEF OnTime
  <2>2. wait > dt
    BY <2>1 DEF FlushScheduled, Left
  <2>3. age'[d][s] <= age[d][s] + dt /\ wait' = wait - dt
    BY <1>1, <2>1, <2>2 DEF Left
  <2>4. age[d][s] \in Int /\ age'[d][s] \in Int /\ wait \in Int /\ dt \in Int
    BY <1>1 DEF TypeOK
  <2> QED BY <2>1, <2>2, <2>3, <2>4
<1>6. SyncedWithinInterval' /\ OnTime'
  BY <1>1, <1>5 DEF SyncedWithinInterval, OnTime
<1>7. CardHoldsTheRest'
  BY <1>1 DEF CardHoldsTheRest, TypeOK
<1>8. ImmediateIsClean'
  BY <1>1 DEF ImmediateIsClean
<1> QED BY <1>3, <1>4, <1>6, <1>7, <1>8

LEMMA DiskStep == DiskInv /\ [Next]_vars => DiskInv'
<1> SUFFICES ASSUME DiskInv, [Next]_vars PROVE DiskInv'
  OBVIOUS
<1>1. CASE UNCHANGED vars
  BY <1>1 DEF vars, DiskInv, TypeOK, DirtyCoversWrites, FlushScheduled,
     SyncedWithinInterval, CardHoldsTheRest, OnTime, ImmediateIsClean
<1>2. ASSUME NEW d \in Drives, NEW lba \in Lba, NEW n \in 1 .. Sectors,
             NEW v \in Values, WriteSectors(d, lba, n, v)
      PROVE  DiskInv'
  <2>1. CASE UNCHANGED vars
    BY <1>1, <2>1
  <2>2. CASE Fits(lba, n)
    <3>1. \A k \in 0 .. n : Span(lba, k) \in SUBSET Lba
      BY <2>2, SizesAssumption DEF Fits, Span, Lba
    <3>2. Span(lba, n) \in SUBSET Lba
      BY <3>1, SizesAssumption
    <3>3. CASE WriteDeferred(d, Span(lba, n), v)
      BY <3>2, <3>3, WriteDeferredInv
    <3>4. CASE WriteImmediate(d, Span(lba, n), v)
      BY <3>2, <3>4, WriteImmediateInv
    <3>5. CASE WriteUnsynced(d, Span(lba, n), v)
      BY <3>2, <3>5, WriteUnsyncedInv
    <3>6. CASE \E k \in 0 .. n : WriteFails(d, Span(lba, k), v)
      BY <3>1, <3>6, WriteFailsInv
    <3> QED BY <1>1, <1>2, <2>2, <3>3, <3>4, <3>5, <3>6 DEF WriteSectors
  <2> QED BY <1>2, <2>1, <2>2 DEF WriteSectors
<1>3. ASSUME NEW dt \in 1 .. MaxSlice, SliceEnd(dt)
      PROVE  DiskInv'
  <2>1. CASE uncounted /\ Left(dt) = 0
    <3>1. PICK failed \in SUBSET {d \in Drives : dirty[d]} :
            /\ failures + Cardinality(failed) <= MaxFailures
            /\ failures' = failures + Cardinality(failed)
            /\ FlushDisks(failed)
            /\ age' = [d \in Drives |-> IF dirty'[d] THEN Older(age[d], dt)
                                        ELSE [s \in Lba |-> -1]]
      BY <1>3, <2>1 DEF SliceEnd
    <3>2. failures' \in 0 .. MaxFailures
      BY <3>1, DrivesAssumption, FS_Subset, FS_CardinalityType, SizesAssumption
         DEF DiskInv, TypeOK
    <3> QED BY <1>3, <2>1, <3>1, <3>2, FlushInv DEF SliceEnd
  <2>2. CASE ~(uncounted /\ Left(dt) = 0)
    BY <1>3, <2>2, WaitInv DEF SliceEnd
  <2> QED BY <2>1, <2>2
<1>4. CASE PowerLoss
  BY <1>4, PowerLossInv
<1> QED BY <1>1, <1>2, <1>3, <1>4 DEF Next, Slice

LEMMA DiskCorrect == Spec => []DiskInv
BY DiskInit, DiskStep, PTL DEF Spec

(* Type correctness; the flush timer and the age of an unsynced write never  *)
(* leave the interval.                                                       *)
THEOREM DiskTypes == Spec => []TypeOK
<1>1. DiskInv => TypeOK
  BY DEF DiskInv
<1> QED BY <1>1, DiskCorrect, PTL

(* No acknowledged write that the card may lose is hidden from a flush.      *)
THEOREM DirtyFlagCorrect == Spec => []DirtyCoversWrites
<1>1. DiskInv => DirtyCoversWrites
  BY DEF DiskInv
<1> QED BY <1>1, DiskCorrect, PTL

(* Every acknowledged write not yet synced is counted for the next flush,    *)
(* unless the last fsync of its image failed.                                *)
THEOREM FlushIsScheduled == Spec => []FlushScheduled
<1>1. DiskInv => FlushScheduled
  BY DEF DiskInv
<1> QED BY <1>1, DiskCorrect, PTL

(* An acknowledged write stays unsynced less than one interval, unless the   *)
(* fsync of its image failed.                                                *)
THEOREM SyncIsTimely == Spec => []SyncedWithinInterval
<1>1. DiskInv => SyncedWithinInterval
  BY DEF DiskInv
<1> QED BY <1>1, DiskCorrect, PTL

(* Whatever has no unsynced write is on the card as the guest reads it.      *)
THEOREM CardCorrect == Spec => []CardHoldsTheRest
<1>1. DiskInv => CardHoldsTheRest
  BY DEF DiskInv
<1> QED BY <1>1, DiskCorrect, PTL
=============================================================================
