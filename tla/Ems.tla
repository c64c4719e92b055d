-------------------------------- MODULE Ems --------------------------------
(***************************************************************************)
(* The LIM EMS manager of PcMachine (INT 67h): a pool of 16 KiB pages, the *)
(* handles that own them, and the page frame at E000:0 whose physical      *)
(* pages ("slots") are redirected to pool pages.  A page's contents are    *)
(* one abstract value; the query functions (40h-42h, 46h, 4Bh-4Dh, 58h)    *)
(* change no state and are the operators FreePages, ActiveHandles and      *)
(* pageCount.                                                              *)
(***************************************************************************)
EXTENDS Integers, FiniteSets

CONSTANTS
  TotalPages,  \* pages in the pool (256 in the source)
  MaxHandles,  \* handles are 1..MaxHandles (64)
  PhysPages,   \* physical pages of the frame (4)
  Values,      \* what a page may hold
  NoContext    \* no page map saved under a handle

Page   == 0 .. TotalPages - 1
Handle == 1 .. MaxHandles
Slot   == 0 .. PhysPages - 1

\* A page's name: the handle and logical page a slot was mapped to, or Unnamed.
Name    == [handle : 0 .. MaxHandles, logical : -1 .. TotalPages - 1]
Unnamed == [handle |-> 0, logical |-> -1]

ASSUME SizesAssumption ==
  /\ TotalPages \in Nat \ {0}
  /\ MaxHandles \in Nat \ {0}
  /\ PhysPages \in Nat \ {0}
ASSUME ValuesAssumption == Values # {}
ASSUME NoContextAssumption == NoContext \notin [Slot -> Name]

VARIABLES
  owner,         \* m_emsPageOwner: the handle owning each pool page, 0 if free
  active,        \* m_emsHandleActive
  pageCount,     \* m_emsHandlePageCount
  physName,      \* m_emsPhysMapHandle and m_emsPhysMapLogical
  physPool,      \* m_emsPhysMapPoolPage: the cached pool page of a slot, or -1
  saved,         \* m_emsSaved, m_emsSavedHandle, m_emsSavedLogical
  windowActive,  \* PcI8086::s_emsActive: the CPU redirects the page frame
  pool           \* m_emsPool

vars == <<owner, active, pageCount, physName, physPool, saved, windowActive,
          pool>>

-----------------------------------------------------------------------------
Owned(h)  == {i \in Page : owner[i] = h}
FreePages == Owned(0)

\* The number of elements of S before i: pages are counted in index order.
Rank(S, i) == Cardinality({j \in S : j < i})

IsOpen(h) == h \in Handle /\ active[h]

PagesAt(h, l) == LET own == Owned(h) IN {i \in own : Rank(own, i) = l}

\* The pool page of a handle's logical page, -1 if it has none.
LogicalToPool(h, l) ==
  IF IsOpen(h) /\ l \in 0 .. pageCount[h] - 1 /\ PagesAt(h, l) # {}
  THEN CHOOSE i \in PagesAt(h, l) : TRUE
  ELSE -1

Resolve(name) ==
  IF name.logical < 0 THEN -1 ELSE LogicalToPool(name.handle, name.logical)

\* emsMapPage with a negative logical page forgets the handle as well.
Named(name) == IF name.logical < 0 THEN Unnamed ELSE name

WindowNeeded(pp) == \E p \in Slot : pp[p] >= 0

TypeOK ==
  /\ owner \in [Page -> 0 .. MaxHandles]
  /\ active \in [Handle -> BOOLEAN]
  /\ pageCount \in [Handle -> 0 .. TotalPages]
  /\ physName \in [Slot -> Name]
  /\ physPool \in [Slot -> -1 .. TotalPages - 1]
  /\ saved \in [Handle -> {NoContext} \cup [Slot -> Name]]
  /\ windowActive \in BOOLEAN
  /\ pool \in [Page -> Values]

\* emsReset; the pool comes from malloc and is never cleared.
Init ==
  /\ owner = [i \in Page |-> 0]
  /\ active = [h \in Handle |-> FALSE]
  /\ pageCount = [h \in Handle |-> 0]
  /\ physName = [p \in Slot |-> Unnamed]
  /\ physPool = [p \in Slot |-> -1]
  /\ saved = [h \in Handle |-> NoContext]
  /\ windowActive = FALSE
  /\ pool \in [Page -> Values]

\* The call returns an error code in AH and changes nothing.
Fail(code) == UNCHANGED vars

\* updateEmsWindowActive, after every change of the cached pages.
RefreshWindow_OnlyOpens == windowActive' = (windowActive \/ WindowNeeded(physPool'))

RefreshWindow == windowActive' = WindowNeeded(physPool')

-----------------------------------------------------------------------------
\* The pages an allocation takes: the first n free ones.
Taken_OneTooMany(n) == {i \in FreePages : Rank(FreePages, i) <= n}
Taken_IgnoresOwner(n) == {i \in Page : i < n}

Taken(n) == {i \in FreePages : Rank(FreePages, i) < n}

\* 43h: the lowest free handle takes them.
TakePages(h, n) ==
  /\ owner' = [i \in Page |-> IF i \in Taken(n) THEN h ELSE owner[i]]
  /\ active' = [active EXCEPT ![h] = TRUE]
  /\ pageCount' = [pageCount EXCEPT ![h] = n]
  /\ UNCHANGED <<physName, physPool, saved, windowActive, pool>>

AllocatePages_NoFreeCheck(n) ==
  \E h \in Handle : ~active[h] /\ TakePages(h, n)

AllocatePages(n) ==
  \/ n > Cardinality(FreePages) /\ Fail("88h")
  \/ /\ n <= Cardinality(FreePages)
     /\ \A h \in Handle : active[h]
     /\ Fail("85h")
  \/ /\ n <= Cardinality(FreePages)
     /\ \E h \in Handle :
          /\ ~active[h]
          /\ \A g \in 1 .. h - 1 : active[g]
          /\ TakePages(h, n)

\* emsMapPage on every slot of a map, then updateEmsWindowActive.
SetFrame_KeepsCache(names) ==
  /\ physName' = [p \in Slot |-> Named(names[p])]
  /\ UNCHANGED <<physPool, windowActive, owner, active, pageCount, saved, pool>>

SetFrame(names) ==
  /\ physName' = [p \in Slot |-> Named(names[p])]
  /\ physPool' = [p \in Slot |-> Resolve(names[p])]
  /\ RefreshWindow
  /\ UNCHANGED <<owner, active, pageCount, saved, pool>>

SetSlot(p, name) ==
  /\ physName' = [physName EXCEPT ![p] = Named(name)]
  /\ physPool' = [physPool EXCEPT ![p] = Resolve(name)]
  /\ RefreshWindow
  /\ UNCHANGED <<owner, active, pageCount, saved, pool>>

\* 44h: l = -1 stands for BX = FFFFh, which unmaps the slot.
MapPage(p, h, l) ==
  \/ p \notin Slot /\ Fail("8Bh")
  \/ p \in Slot /\ ~IsOpen(h) /\ Fail("83h")
  \/ p \in Slot /\ IsOpen(h) /\ l >= pageCount[h] /\ Fail("8Ah")
  \/ /\ p \in Slot /\ IsOpen(h) /\ l < pageCount[h]
     /\ SetSlot(p, [handle |-> h, logical |-> l])

\* The slots that name a handle.
SlotsOf_None(h) == {}

SlotsOf(h) == {p \in Slot : physName[p].handle = h}

\* 45h: free the pages, unmap the slots that name the handle, drop its context.
FreeHandle(h) ==
  /\ owner' = [i \in Page |-> IF owner[i] = h THEN 0 ELSE owner[i]]
  /\ physName' = [p \in Slot |->
                    IF p \in SlotsOf(h) THEN Unnamed ELSE physName[p]]
  /\ physPool' = [p \in Slot |->
                    IF p \in SlotsOf(h) THEN -1 ELSE physPool[p]]
  /\ active' = [active EXCEPT ![h] = FALSE]
  /\ pageCount' = [pageCount EXCEPT ![h] = 0]
  /\ saved' = [saved EXCEPT ![h] = NoContext]
  /\ RefreshWindow
  /\ UNCHANGED pool

ReleaseHandle(h) ==
  \/ ~IsOpen(h) /\ Fail("83h")
  \/ IsOpen(h) /\ FreeHandle(h)

\* 47h: remember the names of all slots under the handle.
SavePageMap_SkipsLastSlot(h) ==
  /\ IsOpen(h)
  /\ saved' = [saved EXCEPT ![h] = [physName EXCEPT ![PhysPages - 1] = Unnamed]]
  /\ UNCHANGED <<owner, active, pageCount, physName, physPool, windowActive,
                 pool>>

SavePageMap(h) ==
  \/ ~IsOpen(h) /\ Fail("83h")
  \/ /\ IsOpen(h)
     /\ saved' = [saved EXCEPT ![h] = physName]
     /\ UNCHANGED <<owner, active, pageCount, physName, physPool,
                    windowActive, pool>>

\* 48h: map every slot to the name saved for it, resolved now.
RestorePageMap(h) ==
  \/ ~IsOpen(h) /\ Fail("83h")
  \/ IsOpen(h) /\ saved[h] = NoContext /\ Fail("8Ch")
  \/ IsOpen(h) /\ saved[h] # NoContext /\ SetFrame(saved[h])

\* A guest write to the frame reaches the pool only while the CPU redirects
\* and the slot is mapped; otherwise the pool is untouched.
WriteFrame(p, v) ==
  /\ windowActive
  /\ physPool[p] >= 0
  /\ pool' = [pool EXCEPT ![physPool[p]] = v]
  /\ UNCHANGED <<owner, active, pageCount, physName, physPool, saved,
                 windowActive>>

\* Handles a guest may pass: every valid one and the first beyond the table.
HandleArg == Handle \cup {MaxHandles + 1}

Next ==
  \/ \E n \in 0 .. TotalPages + 1 : AllocatePages(n)
  \/ \E p \in 0 .. PhysPages, h \in HandleArg,
        l \in -1 .. TotalPages - 1 : MapPage(p, h, l)
  \/ \E h \in HandleArg : ReleaseHandle(h)
  \/ \E h \in HandleArg : SavePageMap(h)
  \/ \E h \in HandleArg : RestorePageMap(h)
  \/ \E p \in Slot, v \in Values : WriteFrame(p, v)

Spec == Init /\ [][Next]_vars

-----------------------------------------------------------------------------
(* Page accounting: an open handle owns exactly the pages it was given (what *)
(* 4Ch reports), a closed one none, so 42h's free count is what remains.     *)
PageAccounting ==
  \A h \in Handle :
    Cardinality(Owned(h)) = IF active[h] THEN pageCount[h] ELSE 0

(* A cached slot is never stale: a slot redirected to a pool page names an   *)
(* open handle that owns this very page as that logical page, whatever       *)
(* releases, re-allocations, saves and restores came between.                *)
FrameCoherent ==
  \A p \in Slot : physPool[p] >= 0 =>
    /\ IsOpen(physName[p].handle)
    /\ owner[physPool[p]] = physName[p].handle
    /\ physPool[p] = LogicalToPool(physName[p].handle, physName[p].logical)

(* The cached pool page of a slot is what its handle and logical page resolve *)
(* to, mapped or not (pc_machine.h calls it the "cached O(1) pool page per    *)
(* slot").  FrameCoherent is the half of this that holds.                     *)
CacheExact == \A p \in Slot : physPool[p] = Resolve(physName[p])

(* The CPU's fast-path flag agrees with the map: E000:0 is redirected exactly *)
(* while some slot is mapped.                                                 *)
WindowFollowsMap == windowActive <=> WindowNeeded(physPool)
=============================================================================
