---------------------------- MODULE DiskWriteBack ---------------------------
(***************************************************************************)
(* The disk images behind INT 13h and the write-back loop of the CPU task: *)
(* a guest write changes the image file, and the CPU task fsyncs the open  *)
(* images at most once per interval after the machine has counted a write. *)
(* The SD card below holds for certain only what was fsynced; power may go *)
(* at any time.  Time advances with the CPU task's slices.                 *)
(***************************************************************************)
EXTENDS Integers, FiniteSets

CONSTANTS
  Drives,       \* open disk images
  Sectors,      \* sectors of an image
  Values,       \* contents of a sector
  Policy,       \* Policy[d]: "Immediate" or "Deferred"
  Interval,     \* DiskFlushInterval, in ticks
  MaxSlice,     \* the longest slice, in ticks
  MaxFailures   \* bound: I/O errors of the card in one run

Lba == 0 .. Sectors - 1

ASSUME SizesAssumption ==
  /\ Sectors \in Nat \ {0}
  /\ Interval \in Nat \ {0}
  /\ MaxSlice \in Nat \ {0}
  /\ MaxFailures \in Nat
ASSUME DrivesAssumption == IsFiniteSet(Drives)
ASSUME PolicyAssumption == Policy \in [Drives -> {"Immediate", "Deferred"}]
ASSUME ValuesAssumption == Values # {}

VARIABLES
  file,      \* the image as the guest reads it
  dirty,     \* PcDiskImage::m_dirty
  uncounted, \* diskWriteCount # flushedDiskWriteCount
  wait,      \* nextDiskFlush - now, 0 once it has passed
  card,      \* what the SD card is certain to hold
  failures,  \* I/O errors so far
  age,       \* history: ticks since an acknowledged, unsynced write, else -1
  torn,      \* history: sectors changed by a failed write, not synced since
  stranded   \* history: the last fsync of the image failed

vars == <<file, dirty, uncounted, wait, card, failures, age, torn, stranded>>

TypeOK ==
  /\ file \in [Drives -> [Lba -> Values]]
  /\ dirty \in [Drives -> BOOLEAN]
  /\ uncounted \in BOOLEAN
  /\ wait \in 0 .. Interval
  /\ card \in [Drives -> [Lba -> Values]]
  /\ failures \in 0 .. MaxFailures
  /\ age \in [Drives -> [Lba -> -1 .. Interval]]
  /\ torn \in [Drives -> SUBSET Lba]
  /\ stranded \in [Drives -> BOOLEAN]

NoAge  == [d \in Drives |-> [s \in Lba |-> -1]]
Nobody == [d \in Drives |-> FALSE]

Init ==
  /\ file \in [Drives -> [Lba -> Values]]
  /\ card = file
  /\ dirty = Nobody
  /\ uncounted = FALSE
  /\ wait = Interval
  /\ failures = 0
  /\ age = NoAge
  /\ torn = [d \in Drives |-> {}]
  /\ stranded = Nobody

\* The sectors of a transfer that fits the image (seekSector).
Span(lba, n) == lba .. lba + n - 1
Fits(lba, n)  == n >= 1 /\ lba + n <= Sectors

\* An error of the card, while the bound allows one.
CardError == failures < MaxFailures /\ failures' = failures + 1

Written(d, rng, v) ==
  file' = [file EXCEPT ![d] = [s \in Lba |-> IF s \in rng THEN v ELSE @[s]]]

-----------------------------------------------------------------------------
(* INT 13h, AH=03h and 43h.                                                  *)

\* Deferred: the image is dirty and the machine counts the write.
WriteDeferred_NotDirty(d, rng, v) ==
  /\ Policy[d] = "Deferred"
  /\ Written(d, rng, v)
  /\ uncounted' = TRUE
  /\ age' = [age EXCEPT ![d] = [s \in Lba |-> IF s \in rng THEN 0 ELSE @[s]]]
  /\ torn' = [torn EXCEPT ![d] = @ \ rng]
  /\ UNCHANGED <<dirty, wait, card, failures, stranded>>

WriteDeferred_NotCounted(d, rng, v) ==
  /\ Policy[d] = "Deferred"
  /\ Written(d, rng, v)
  /\ dirty' = [dirty EXCEPT ![d] = TRUE]
  /\ age' = [age EXCEPT ![d] = [s \in Lba |-> IF s \in rng THEN 0 ELSE @[s]]]
  /\ torn' = [torn EXCEPT ![d] = @ \ rng]
  /\ UNCHANGED <<uncounted, wait, card, failures, stranded>>

WriteDeferred(d, rng, v) ==
  /\ Policy[d] = "Deferred"
  /\ Written(d, rng, v)
  /\ dirty' = [dirty EXCEPT ![d] = TRUE]
  /\ uncounted' = TRUE
  /\ age' = [age EXCEPT ![d] = [s \in Lba |-> IF s \in rng THEN 0 ELSE @[s]]]
  /\ torn' = [torn EXCEPT ![d] = @ \ rng]
  /\ UNCHANGED <<wait, card, failures, stranded>>

\* Immediate: writeSectors ends with flush, which syncs the whole image; the
\* write is counted all the same.
WriteImmediate(d, rng, v) ==
  /\ Policy[d] = "Immediate"
  /\ Written(d, rng, v)
  /\ dirty' = [dirty EXCEPT ![d] = FALSE]
  /\ uncounted' = TRUE
  /\ card' = [card EXCEPT ![d] = file'[d]]
  /\ torn' = [torn EXCEPT ![d] = {}]
  /\ stranded' = [stranded EXCEPT ![d] = FALSE]
  /\ UNCHANGED <<wait, failures, age>>

\* Immediate, but flush fails: status 04h, not counted, still dirty.
WriteUnsynced(d, rng, v) ==
  /\ Policy[d] = "Immediate"
  /\ CardError
  /\ Written(d, rng, v)
  /\ dirty' = [dirty EXCEPT ![d] = TRUE]
  /\ torn' = [torn EXCEPT ![d] = @ \cup rng]
  /\ stranded' = [stranded EXCEPT ![d] = TRUE]
  /\ UNCHANGED <<uncounted, wait, card, age>>

\* fwrite fails after some of the sectors: status 04h, neither dirty nor
\* counted.
WriteFails(d, rng, v) ==
  /\ CardError
  /\ Written(d, rng, v)
  /\ torn' = [torn EXCEPT ![d] = @ \cup rng]
  /\ age' = [age EXCEPT ![d] = [s \in Lba |-> IF s \in rng THEN -1 ELSE @[s]]]
  /\ UNCHANGED <<dirty, uncounted, wait, card, stranded>>

WriteSectors(d, lba, n, v) ==
  \/ ~Fits(lba, n) /\ UNCHANGED vars
  \/ /\ Fits(lba, n)
     /\ \/ WriteDeferred(d, Span(lba, n), v)
        \/ WriteImmediate(d, Span(lba, n), v)
        \/ WriteUnsynced(d, Span(lba, n), v)
        \/ \E k \in 0 .. n : WriteFails(d, Span(lba, k), v)

-----------------------------------------------------------------------------
(* The CPU task: a slice, then the flush check.                              *)

\* flushDisks with the fsyncs of the images in failed going wrong; images that
\* are not dirty are not synced.
FlushDisks_ClearsFirst(failed) ==
  LET synced == {d \in Drives : dirty[d] /\ d \notin failed}
  IN  /\ dirty' = Nobody
      /\ card' = [d \in Drives |-> IF d \in synced THEN file[d] ELSE card[d]]
      /\ torn' = [d \in Drives |-> IF d \in synced THEN {} ELSE torn[d]]
      /\ stranded' = [d \in Drives |->
                        d \in failed \/ (stranded[d] /\ d \notin synced)]

FlushDisks(failed) ==
  LET synced == {d \in Drives : dirty[d] /\ d \notin failed}
  IN  /\ dirty' = [d \in Drives |-> dirty[d] /\ d \in failed]
      /\ card' = [d \in Drives |-> IF d \in synced THEN file[d] ELSE card[d]]
      /\ torn' = [d \in Drives |-> IF d \in synced THEN {} ELSE torn[d]]
      /\ stranded' = [d \in Drives |->
                        d \in failed \/ (stranded[d] /\ d \notin synced)]

\* Ages count up to Interval.
Older(a, dt) ==
  [s \in Lba |-> IF a[s] < 0 THEN -1
                 ELSE IF a[s] + dt > Interval THEN Interval ELSE a[s] + dt]

\* What is left to nextDiskFlush after dt ticks: now >= nextDiskFlush is 0.
Left_ExactTick(dt) == wait - dt

Left(dt) == IF wait > dt THEN wait - dt ELSE 0

SliceEnd(dt) ==
  \/ /\ uncounted /\ Left(dt) = 0
     /\ \E failed \in SUBSET {d \in Drives : dirty[d]} :
          /\ failures + Cardinality(failed) <= MaxFailures
          /\ failures' = failures + Cardinality(failed)
          /\ FlushDisks(failed)
          /\ age' = [d \in Drives |-> IF dirty'[d] THEN Older(age[d], dt)
                                      ELSE [s \in Lba |-> -1]]
     /\ uncounted' = FALSE
     /\ wait' = Interval
     /\ UNCHANGED file
  \/ /\ ~(uncounted /\ Left(dt) = 0)
     /\ wait' = Left(dt)
     /\ UNCHANGED <<file, dirty, uncounted, card, failures, torn, stranded>>
     /\ age' = [d \in Drives |-> Older(age[d], dt)]

\* Power goes and comes back: the program starts over on what the card kept,
\* which for an unsynced sector may or may not be its latest contents.
PowerLoss ==
  /\ \E kept \in SUBSET (Drives \X Lba) :
       file' = [d \in Drives |-> [s \in Lba |->
                  IF <<d, s>> \in kept THEN file[d][s] ELSE card[d][s]]]
  /\ card' = file'
  /\ dirty' = Nobody
  /\ uncounted' = FALSE
  /\ wait' = Interval
  /\ age' = NoAge
  /\ torn' = [d \in Drives |-> {}]
  /\ stranded' = Nobody
  /\ UNCHANGED failures

Slice == \E dt \in 1 .. MaxSlice : SliceEnd(dt)

Next ==
  \/ \E d \in Drives, lba \in Lba, n \in 1 .. Sectors, v \in Values :
       WriteSectors(d, lba, n, v)
  \/ Slice
  \/ PowerLoss

Spec     == Init /\ [][Next]_vars
FairSpec == Spec /\ WF_vars(Slice)

-----------------------------------------------------------------------------
(* The dirty flag covers every acknowledged write that the card may lose; a  *)
(* flush that finds the flag down would skip it for ever.                    *)
DirtyCoversWrites ==
  \A d \in Drives : (\E s \in Lba : age[d][s] >= 0) => dirty[d]

(* Every acknowledged write not yet synced has a flush coming: the CPU task's *)
(* counters differ, or a flush of this image was tried and failed.            *)
FlushScheduled ==
  \A d \in Drives : (\E s \in Lba : age[d][s] >= 0) => uncounted \/ stranded[d]

(* README, disk writes: after one interval an acknowledged write is on the    *)
(* card, unless an fsync failed.                                              *)
SyncedWithinInterval ==
  \A d \in Drives, s \in Lba : age[d][s] < Interval \/ stranded[d]

(* A sector without unsynced writes reads the same after a power loss.        *)
CardHoldsTheRest ==
  \A d \in Drives, s \in Lba :
    age[d][s] < 0 /\ s \notin torn[d] => card[d][s] = file[d][s]

(* README: changed sectors are fsynced about once per second.  As the flush   *)
(* is not retried, this fails after a single I/O error.                       *)
DirtyIsSynced == \A d \in Drives : dirty[d] ~> ~dirty[d]

(* The half of DirtyIsSynced that holds: a dirty image is synced in time or   *)
(* its fsync failed.                                                          *)
DirtyIsTried == \A d \in Drives : dirty[d] ~> (~dirty[d] \/ stranded[d])
=============================================================================
