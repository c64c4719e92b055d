----------------------------- MODULE EmsContext -----------------------------
(***************************************************************************)
(* The EMS manager with a history variable that remembers, for each saved  *)
(* page map, the pool pages the frame really showed at the save, until a   *)
(* handle it names is released.                                            *)
(***************************************************************************)
EXTENDS Ems

VARIABLE shownAtSave  \* pool page each slot showed at a handle's 47h, or -1

hvars == <<vars, shownAtSave>>

ShowsNothing == [p \in Slot |-> -1]

HInit == Init /\ shownAtSave = [h \in Handle |-> ShowsNothing]

\* 47h takes the picture.
RememberFrame(h) ==
  shownAtSave' = IF IsOpen(h) THEN [shownAtSave EXCEPT ![h] = physPool]
                 ELSE shownAtSave

\* A release takes the handle's pages out of every picture, and drops its own.
ForgetFrames(h) ==
  shownAtSave' =
    [g \in Handle |->
       [p \in Slot |->
          IF /\ IsOpen(h)
             /\ saved[g] # NoContext
             /\ g = h \/ saved[g][p].handle = h
          THEN -1 ELSE shownAtSave[g][p]]]

HNext ==
  \/ /\ \/ \E n \in 0 .. TotalPages + 1 : AllocatePages(n)
        \/ \E p \in 0 .. PhysPages, h \in HandleArg,
              l \in -1 .. TotalPages - 1 : MapPage(p, h, l)
        \/ \E h \in HandleArg : RestorePageMap(h)
        \/ \E p \in Slot, v \in Values : WriteFrame(p, v)
     /\ UNCHANGED shownAtSave
  \/ \E h \in HandleArg : ReleaseHandle(h) /\ ForgetFrames(h)
  \/ \E h \in HandleArg : SavePageMap(h) /\ RememberFrame(h)

HSpec == HInit /\ [][HNext]_hvars

-----------------------------------------------------------------------------
(* A saved page map stays good: each slot that showed a page at the save      *)
(* (47h) still resolves to that very pool page, until the handle the slot     *)
(* names is released, however other handles came and went meanwhile.          *)
SavedContextStable ==
  \A h \in Handle, p \in Slot : shownAtSave[h][p] >= 0 =>
    saved[h] # NoContext /\ Resolve(saved[h][p]) = shownAtSave[h][p]

(* So a restore (48h) shows the saved pages again.                            *)
RestoreShowsSavedPages ==
  [][\A h \in Handle, p \in Slot :
       shownAtSave[h][p] >= 0 /\ RestorePageMap(h)
       => physPool'[p] = shownAtSave[h][p]]_hvars

=============================================================================
