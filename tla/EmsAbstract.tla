---------------------------- MODULE EmsAbstract ----------------------------
(***************************************************************************)
(* What the EMS manager promises a guest: every open handle has an array   *)
(* of pages of its own, a frame slot shows one page of one open handle or  *)
(* nothing, and a page changes only by a write through a slot that shows   *)
(* it.  There is no pool, no ownership table and no cached page number.    *)
(***************************************************************************)
EXTENDS Integers, FiniteSets

CONSTANTS TotalPages, MaxHandles, PhysPages, Values,
          Closed,   \* the "array" of a handle that is not open
          Nothing   \* what an unmapped slot shows

Handle == 1 .. MaxHandles
Slot   == 0 .. PhysPages - 1

VARIABLES
  array,  \* the pages of each handle, or Closed
  frame   \* <<handle, logical page>> shown by each slot, or Nothing

absVars == <<array, frame>>

Open == {h \in Handle : array[h] # Closed}
Shown == {page \in Open \X (0 .. TotalPages - 1) : page[2] \in DOMAIN array[page[1]]}

Init ==
  /\ array = [h \in Handle |-> Closed]
  /\ frame = [p \in Slot |-> Nothing]

\* A closed handle is opened with n pages that hold anything.
OpenHandle(h, n) ==
  /\ h \notin Open
  /\ array' = [array EXCEPT ![h] = array'[h]]
  /\ array'[h] \in [0 .. n - 1 -> Values]
  /\ UNCHANGED frame

\* Closing a handle leaves no slot showing one of its pages.
CloseHandle(h) ==
  /\ h \in Open
  /\ array' = [array EXCEPT ![h] = Closed]
  /\ frame' = [p \in Slot |-> IF frame[p] # Nothing /\ frame[p][1] = h
                              THEN Nothing ELSE frame[p]]

\* Mapping, unmapping and restoring choose what slots show, among what exists.
Remap ==
  /\ UNCHANGED array
  /\ frame' \in [Slot -> Shown \cup {Nothing}]

\* A write through a slot changes the page it shows and no other.
Write(p, v) ==
  /\ frame[p] # Nothing
  /\ array' = [array EXCEPT ![frame[p][1]][frame[p][2]] = v]
  /\ UNCHANGED frame

Next ==
  \/ Remap
  \/ \E h \in Handle, n \in 0 .. TotalPages : OpenHandle(h, n)
  \/ \E h \in Handle : CloseHandle(h)
  \/ \E p \in Slot, v \in Values : Write(p, v)

Spec == Init /\ [][Next]_absVars
=============================================================================
