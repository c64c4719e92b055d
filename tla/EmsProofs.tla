------------------------------ MODULE EmsProofs ------------------------------
(***************************************************************************)
(* Proofs about the EMS manager, for pools, handle tables and frames of    *)
(* every size: the accounting of pages, the coherence of the page frame's  *)
(* cache, the CPU's fast-path flag, the page maps saved under handles, and *)
(* the refinement of EmsAbstract.                                          *)
(***************************************************************************)
EXTENDS EmsContext, EmsRefinement, FiniteSetTheorems, TLAPS

-----------------------------------------------------------------------------
(* Counting the elements of a set of naturals in order: these are the facts  *)
(* on which taking "the first n free pages" and "the l-th owned page" rest.  *)

(* The rank of an element is below the cardinality. *)
LEMMA RankBound ==
  ASSUME NEW S \in SUBSET Nat, IsFiniteSet(S), NEW i \in S
  PROVE  Rank(S, i) \in 0 .. Cardinality(S) - 1
<1> DEFINE B == {j \in S : j < i}
<1>1. B \subseteq S \ {i}
  OBVIOUS
<1>2. IsFiniteSet(S \ {i}) /\ Cardinality(S \ {i}) = Cardinality(S) - 1
  BY FS_RemoveElement
<1>3. IsFiniteSet(B) /\ Cardinality(B) <= Cardinality(S \ {i})
  BY <1>1, <1>2, FS_Subset
<1>4. Cardinality(B) \in Nat /\ Cardinality(S) \in Nat
  BY <1>3, FS_CardinalityType
<1> QED
  BY <1>2, <1>3, <1>4 DEF Rank

(* Distinct elements have distinct ranks. *)
LEMMA RankIncreases ==
  ASSUME NEW S \in SUBSET Nat, IsFiniteSet(S), NEW i \in S, NEW j \in S, i < j
  PROVE  Rank(S, i) < Rank(S, j)
<1> DEFINE B == {k \in S : k < i}
           C == {k \in S : k < j}
<1>1. IsFiniteSet(B) /\ IsFiniteSet(C)
  BY FS_Subset
<1>2. IsFiniteSet(B \cup {i}) /\ Cardinality(B \cup {i}) = Cardinality(B) + 1
  <2>1. i \notin B
    OBVIOUS
  <2> QED
    BY <1>1, <2>1, FS_AddElement
<1>3. B \cup {i} \in SUBSET C
  <2>1. \A k \in B : k < j
    <3> SUFFICES ASSUME NEW k \in B PROVE k < j
      OBVIOUS
    <3>1. k \in Nat /\ i \in Nat /\ j \in Nat /\ k < i
      OBVIOUS
    <3> QED
      BY <3>1
  <2>2. i \in C
    OBVIOUS
  <2> QED
    BY <2>1, <2>2
<1>4. Cardinality(B \cup {i}) <= Cardinality(C)
  BY <1>1, <1>3, FS_Subset
<1>5. Cardinality(B) \in Nat /\ Cardinality(C) \in Nat
  BY <1>1, FS_CardinalityType
<1> QED
  BY <1>2, <1>4, <1>5 DEF Rank

(* Every rank below the cardinality is taken, exactly once. *)
LEMMA RankOnto ==
  ASSUME NEW S \in SUBSET Nat, IsFiniteSet(S),
         NEW k \in 0 .. Cardinality(S) - 1
  PROVE  \E i \in S : Rank(S, i) = k
<1> DEFINE T == 0 .. Cardinality(S) - 1
           f == [i \in S |-> Rank(S, i)]
<1>1. Cardinality(S) \in Nat
  BY FS_CardinalityType
<1>2. IsFiniteSet(T) /\ Cardinality(T) = Cardinality(S)
  BY <1>1, FS_Interval
<1>3. f \in [S -> T]
  BY RankBound
<1>4. ASSUME NEW i \in S, NEW j \in S, f[i] = f[j]
      PROVE  i = j
  <2>1. Rank(S, i) = Rank(S, j) /\ Rank(S, i) \in Nat
    BY <1>4, <1>1, RankBound
  <2>2. CASE i < j
    BY <2>1, <2>2, RankIncreases
  <2>3. CASE j < i
    BY <2>1, <2>3, RankIncreases
  <2> QED
    BY <2>2, <2>3
<1>5. f \in Injection(S, T)
  BY <1>3, <1>4 DEF Injection, IsInjective
<1>6. f \in Surjection(S, T)
  BY <1>2, <1>5, FS_Injection
<1> QED
  BY <1>6 DEF Surjection

(* The elements of rank below n are n in number. *)
LEMMA PrefixCardinality ==
  ASSUME NEW S \in SUBSET Nat, IsFiniteSet(S), NEW n \in 0 .. Cardinality(S)
  PROVE  Cardinality({i \in S : Rank(S, i) < n}) = n
<1> DEFINE P == {i \in S : Rank(S, i) < n}
           U == 0 .. n - 1
           g == [i \in P |-> Rank(S, i)]
<1>1. Cardinality(S) \in Nat /\ IsFiniteSet(P)
  BY FS_CardinalityType, FS_Subset
<1>2. g \in [P -> U]
  <2> SUFFICES ASSUME NEW i \in P PROVE Rank(S, i) \in U
    OBVIOUS
  <2>1. Rank(S, i) \in 0 .. Cardinality(S) - 1 /\ Rank(S, i) < n
    BY RankBound
  <2> QED
    BY <1>1, <2>1
<1>3. \A i, j \in P : g[i] = g[j] => i = j
  <2> SUFFICES ASSUME NEW i \in P, NEW j \in P, g[i] = g[j] PROVE i = j
    OBVIOUS
  <2>1. Rank(S, i) = Rank(S, j) /\ Rank(S, i) \in Nat
    BY <1>1, RankBound
  <2>2. CASE i < j
    BY <2>1, <2>2, RankIncreases
  <2>3. CASE j < i
    BY <2>1, <2>3, RankIncreases
  <2> QED
    BY <2>2, <2>3
<1>4. \A k \in U : \E i \in P : g[i] = k
  BY <1>1, RankOnto
<1>5. g \in Bijection(P, U)
  BY <1>2, <1>3, <1>4 DEF Bijection, Injection, IsInjective, Surjection
<1>6. Cardinality(U) = Cardinality(P)
  BY <1>1, <1>5, FS_Bijection DEF ExistsBijection
<1>7. Cardinality(U) = n
  BY FS_Interval
<1> QED
  BY <1>6, <1>7

-----------------------------------------------------------------------------
(* Type correctness. *)

LEMMA OwnedFinite ==
  ASSUME NEW h
  PROVE  /\ Owned(h) \in SUBSET Nat
         /\ IsFiniteSet(Owned(h))
         /\ Cardinality(Owned(h)) \in 0 .. TotalPages
<1>1. IsFiniteSet(Page) /\ Cardinality(Page) = TotalPages
  BY SizesAssumption, FS_Interval DEF Page
<1>2. Owned(h) \in SUBSET Page
  BY DEF Owned
<1>3. IsFiniteSet(Owned(h)) /\ Cardinality(Owned(h)) <= TotalPages
  BY <1>1, <1>2, FS_Subset
<1>4. Cardinality(Owned(h)) \in Nat
  BY <1>3, FS_CardinalityType
<1> QED
  BY <1>2, <1>3, <1>4, SizesAssumption DEF Page

(* What a name resolves to is a page of the open handle it names, or -1. *)
LEMMA ResolveSound ==
  ASSUME NEW name \in Name
  PROVE  \/ Resolve(name) = -1
         \/ /\ Resolve(name) \in Page
            /\ name.logical >= 0
            /\ IsOpen(name.handle)
            /\ owner[Resolve(name)] = name.handle
            /\ Resolve(name) = LogicalToPool(name.handle, name.logical)
<1> DEFINE S == PagesAt(name.handle, name.logical)
<1>1. CASE name.logical < 0
  BY <1>1 DEF Resolve
<1>2. CASE ~(name.logical < 0) /\ LogicalToPool(name.handle, name.logical) = -1
  BY <1>2 DEF Resolve
<1>3. CASE /\ ~(name.logical < 0)
           /\ LogicalToPool(name.handle, name.logical) # -1
  <2>1. IsOpen(name.handle) /\ S # {}
    BY <1>3 DEF LogicalToPool
  <2>2. LogicalToPool(name.handle, name.logical) = CHOOSE i \in S : TRUE
    BY <1>3 DEF LogicalToPool
  <2>3. LogicalToPool(name.handle, name.logical) \in S
    BY <2>1, <2>2
  <2>4. Resolve(name) = LogicalToPool(name.handle, name.logical)
    BY <1>3 DEF Resolve
  <2>5. S \subseteq Page /\ \A i \in S : owner[i] = name.handle
    BY DEF PagesAt, Owned
  <2>6. name.logical \in Int /\ name.logical >= 0
    BY <1>3, SizesAssumption DEF Name
  <2> QED
    BY <2>1, <2>3, <2>4, <2>5, <2>6
<1> QED
  BY <1>1, <1>2, <1>3

LEMMA ResolveType ==
  ASSUME NEW name \in Name
  PROVE  Resolve(name) \in -1 .. TotalPages - 1 /\ Named(name) \in Name
BY ResolveSound, SizesAssumption DEF Page, Named, Unnamed, Name

LEMMA UnnamedType == Unnamed \in Name
BY SizesAssumption DEF Unnamed, Name

LEMMA TypeInit == Init => TypeOK
<1> SUFFICES ASSUME Init PROVE TypeOK
  OBVIOUS
<1>1. /\ owner \in [Page -> 0 .. MaxHandles]
      /\ pageCount \in [Handle -> 0 .. TotalPages]
      /\ physPool \in [Slot -> -1 .. TotalPages - 1]
  BY SizesAssumption DEF Init
<1>2. physName \in [Slot -> Name]
  BY UnnamedType DEF Init
<1>3. /\ active \in [Handle -> BOOLEAN]
      /\ saved \in [Handle -> {NoContext} \cup [Slot -> Name]]
      /\ windowActive \in BOOLEAN
      /\ pool \in [Page -> Values]
  BY DEF Init
<1> QED
  BY <1>1, <1>2, <1>3 DEF TypeOK

LEMMA TypeStep == TypeOK /\ [Next]_vars => TypeOK'
<1> SUFFICES ASSUME TypeOK, [Next]_vars PROVE TypeOK'
  OBVIOUS
<1> USE SizesAssumption DEF TypeOK
<1>1. ASSUME NEW n \in 0 .. TotalPages + 1, AllocatePages(n) PROVE TypeOK'
  <2>1. CASE UNCHANGED vars
    BY <2>1 DEF vars
  <2>2. ASSUME NEW h \in Handle, n <= Cardinality(FreePages), TakePages(h, n)
        PROVE  TypeOK'
    <3>1. n \in 0 .. TotalPages
      BY <2>2, OwnedFinite DEF FreePages
    <3> QED
      BY <2>2, <3>1 DEF TakePages, Taken, Handle
  <2> QED
    BY <1>1, <2>1, <2>2 DEF AllocatePages, Fail
<1>2. ASSUME NEW names \in [Slot -> Name], SetFrame(names) PROVE TypeOK'
  BY <1>2, ResolveType DEF SetFrame, RefreshWindow, WindowNeeded
<1>3. ASSUME NEW p \in 0 .. PhysPages, NEW h \in HandleArg,
             NEW l \in -1 .. TotalPages - 1, MapPage(p, h, l)
      PROVE  TypeOK'
  <2>1. CASE UNCHANGED vars
    BY <2>1 DEF vars
  <2>2. CASE p \in Slot /\ IsOpen(h) /\ SetSlot(p, [handle |-> h, logical |-> l])
    <3>1. [handle |-> h, logical |-> l] \in Name
      BY <2>2 DEF Name, IsOpen, Handle
    <3> QED
      BY <2>2, <3>1, ResolveType DEF SetSlot, RefreshWindow, WindowNeeded
  <2> QED
    BY <1>3, <2>1, <2>2 DEF MapPage, Fail
<1>4. ASSUME NEW h \in HandleArg, ReleaseHandle(h) PROVE TypeOK'
  <2>1. CASE UNCHANGED vars
    BY <2>1 DEF vars
  <2>2. CASE FreeHandle(h)
    <3>1. owner' \in [Page -> 0 .. MaxHandles]
      BY <2>2, 0 \in 0 .. MaxHandles DEF FreeHandle, SlotsOf, RefreshWindow
    <3>4. pageCount' \in [Handle -> 0 .. TotalPages]
      BY <2>2, 0 \in 0 .. TotalPages DEF FreeHandle, SlotsOf, RefreshWindow
    <3>5. physPool' \in [Slot -> -1 .. TotalPages - 1]
      BY <2>2, -1 \in -1 .. TotalPages - 1 DEF FreeHandle, SlotsOf, RefreshWindow
    <3>2. physName' \in [Slot -> Name]
      BY <2>2, UnnamedType DEF FreeHandle, SlotsOf, RefreshWindow
    <3>3. /\ active' \in [Handle -> BOOLEAN]
          /\ saved' \in [Handle -> {NoContext} \cup [Slot -> Name]]
          /\ windowActive' \in BOOLEAN
          /\ pool' \in [Page -> Values]
      BY <2>2 DEF FreeHandle, SlotsOf, RefreshWindow, WindowNeeded
    <3> QED
      BY <3>1, <3>2, <3>3, <3>4, <3>5
  <2> QED
    BY <1>4, <2>1, <2>2 DEF ReleaseHandle, Fail
<1>5. ASSUME NEW h \in HandleArg, SavePageMap(h) PROVE TypeOK'
  BY <1>5 DEF SavePageMap, Fail, vars
<1>6. ASSUME NEW h \in HandleArg, RestorePageMap(h) PROVE TypeOK'
  <2>1. CASE UNCHANGED vars
    BY <2>1 DEF vars
  <2>2. CASE IsOpen(h) /\ saved[h] # NoContext /\ SetFrame(saved[h])
    BY <2>2, <1>2 DEF IsOpen
  <2> QED
    BY <1>6, <2>1, <2>2 DEF RestorePageMap, Fail
<1>7. ASSUME NEW p \in Slot, NEW v \in Values, WriteFrame(p, v) PROVE TypeOK'
  BY <1>7 DEF WriteFrame
<1>8. CASE UNCHANGED vars
  BY <1>8 DEF vars
<1> QED
  BY <1>1, <1>3, <1>4, <1>5, <1>6, <1>7, <1>8 DEF Next

(* Every variable of the manager keeps its type. *)
THEOREM TypeCorrect == Spec => []TypeOK
<1> QED
  BY TypeInit, TypeStep, PTL DEF Spec

-----------------------------------------------------------------------------
(* Accounting, coherence and the window flag, each preserved by every call.  *)

EmsInv == TypeOK /\ PageAccounting /\ FrameCoherent /\ WindowFollowsMap

(* Taking n free pages for h gives h exactly these, and leaves the others'.  *)
LEMMA TakePagesOwned ==
  ASSUME EmsInv, NEW h \in Handle, ~active[h],
         NEW n \in 0 .. Cardinality(FreePages), TakePages(h, n)
  PROVE  /\ Cardinality(Owned(h)') = n
         /\ \A g \in Handle \ {h} : Owned(g)' = Owned(g)
<1> DEFINE P == {i \in FreePages : Rank(FreePages, i) < n}
<1>1. Cardinality(Owned(h)) = 0
  BY DEF EmsInv, PageAccounting
<1>2. Owned(h) = {}
  BY <1>1, OwnedFinite, FS_EmptySet
<1>3. Owned(h)' = P
  BY <1>2 DEF TakePages, Taken, Owned, FreePages
<1>4. Cardinality(P) = n
  BY OwnedFinite, PrefixCardinality DEF FreePages
<1>5. \A g \in Handle \ {h} : Owned(g)' = Owned(g)
  BY DEF TakePages, Taken, Owned, FreePages, Handle
<1> QED
  BY <1>3, <1>4, <1>5

(* Releasing h empties it and leaves the others' pages. *)
LEMMA FreeHandleOwned ==
  ASSUME TypeOK, NEW h \in Handle, FreeHandle(h)
  PROVE  /\ Owned(h)' = {}
         /\ \A g \in Handle \ {h} : Owned(g)' = Owned(g)
BY SizesAssumption DEF TypeOK, FreeHandle, Owned, Handle, Page

(* While pages change owner, those of a handle that is neither opened nor    *)
(* released stay where they were.                                            *)
LEMMA SamePages ==
  ASSUME NEW g \in Handle, Owned(g)' = Owned(g),
         active'[g] = active[g], pageCount'[g] = pageCount[g], NEW l
  PROVE  LogicalToPool(g, l)' = LogicalToPool(g, l)
<1>1. PagesAt(g, l)' = PagesAt(g, l)
  BY DEF PagesAt, Rank
<1> QED
  BY <1>1 DEF LogicalToPool, IsOpen

(* Steps that leave the tables and the cache alone preserve the invariant.   *)
LEMMA SameTables ==
  ASSUME EmsInv, TypeOK',
         UNCHANGED <<owner, active, pageCount, physName, physPool,
                     windowActive>>
  PROVE  EmsInv'
<1>1. \A h \in Handle : Owned(h)' = Owned(h)
  BY DEF Owned
<1>2. PageAccounting'
  BY <1>1 DEF EmsInv, PageAccounting
<1>3. FrameCoherent'
  <2> SUFFICES ASSUME NEW p \in Slot, physPool[p] >= 0
               PROVE  /\ IsOpen(physName[p].handle)'
                      /\ owner[physPool[p]]' = physName[p].handle'
                      /\ physPool[p]' = LogicalToPool(physName[p].handle,
                                                      physName[p].logical)'
    BY DEF FrameCoherent
  <2>1. /\ IsOpen(physName[p].handle)
        /\ owner[physPool[p]] = physName[p].handle
        /\ physPool[p] = LogicalToPool(physName[p].handle, physName[p].logical)
    BY DEF EmsInv, FrameCoherent
  <2>2. physName[p].handle \in Handle
    BY <2>1 DEF IsOpen
  <2>3. LogicalToPool(physName[p].handle, physName[p].logical)' =
        LogicalToPool(physName[p].handle, physName[p].logical)
    BY <1>1 DEF LogicalToPool, IsOpen, PagesAt, Owned
  <2> QED
    BY <2>1, <2>2, <2>3 DEF IsOpen
<1>4. WindowFollowsMap'
  BY DEF EmsInv, WindowFollowsMap, WindowNeeded
<1> QED
  BY <1>2, <1>3, <1>4 DEF EmsInv

LEMMA AllocateInv ==
  ASSUME EmsInv, TypeOK', NEW n \in 0 .. TotalPages + 1, AllocatePages(n)
  PROVE  EmsInv'
<1>1. CASE UNCHANGED vars
  BY <1>1, SameTables DEF vars
<1>2. ASSUME NEW h \in Handle, n <= Cardinality(FreePages), ~active[h],
             TakePages(h, n)
      PROVE  EmsInv'
  <2>1. n \in 0 .. Cardinality(FreePages)
    BY <1>2, OwnedFinite DEF FreePages
  <2>2. /\ Cardinality(Owned(h)') = n
        /\ \A g \in Handle \ {h} : Owned(g)' = Owned(g)
    BY <1>2, <2>1, TakePagesOwned
  <2>3. /\ active[h]' /\ pageCount[h]' = n
        /\ \A g \in Handle \ {h} : /\ active[g]' = active[g]
                                   /\ pageCount[g]' = pageCount[g]
    BY <1>2 DEF TakePages, Taken, EmsInv, TypeOK
  <2>4. PageAccounting'
    <3> SUFFICES ASSUME NEW g \in Handle
                 PROVE  Cardinality(Owned(g)') =
                          IF active[g]' THEN pageCount[g]' ELSE 0
      BY DEF PageAccounting
    <3>1. CASE g = h
      BY <3>1, <2>2, <2>3
    <3>2. CASE g # h
      BY <3>2, <2>2, <2>3 DEF EmsInv, PageAccounting
    <3> QED
      BY <3>1, <3>2
  <2>5. FrameCoherent'
    <3> SUFFICES ASSUME NEW p \in Slot, physPool[p]' >= 0
                 PROVE  /\ IsOpen(physName[p].handle)'
                        /\ owner[physPool[p]]' = physName[p].handle'
                        /\ physPool[p]' = LogicalToPool(physName[p].handle,
                                                        physName[p].logical)'
      BY DEF FrameCoherent
    <3> DEFINE g == physName[p].handle
               l == physName[p].logical
    <3>1. physName' = physName /\ physPool' = physPool
      BY <1>2 DEF TakePages, Taken
    <3>2. /\ IsOpen(g) /\ owner[physPool[p]] = g
          /\ physPool[p] = LogicalToPool(g, l)
          /\ physPool[p] \in Page
      BY <3>1, SizesAssumption DEF EmsInv, FrameCoherent, TypeOK, Page
    <3>3. g \in Handle \ {h}
      BY <3>2, <1>2 DEF IsOpen
    <3>4. LogicalToPool(g, l)' = LogicalToPool(g, l)
      <4>1. PagesAt(g, l)' = PagesAt(g, l)
        BY <3>1, <3>3, <2>2 DEF PagesAt, Rank
      <4> QED
        BY <4>1, <3>1, <3>3, <2>3 DEF LogicalToPool, IsOpen
    <3>5. physPool[p] \notin FreePages
      BY <3>2, <3>3 DEF FreePages, Owned, Handle
    <3>6. owner[physPool[p]]' = g
      BY <3>1, <3>2, <3>5, <1>2 DEF TakePages, Taken
    <3> QED
      BY <3>1, <3>2, <3>3, <3>4, <3>6, <2>3 DEF IsOpen
  <2>6. WindowFollowsMap'
    BY <1>2 DEF TakePages, Taken, EmsInv, WindowFollowsMap, WindowNeeded
  <2> QED
    BY <2>4, <2>5, <2>6 DEF EmsInv
<1> QED
  BY <1>1, <1>2 DEF AllocatePages, Fail

(* Mapping one slot, or all of them, to resolved names. *)
LEMMA FrameInv ==
  ASSUME EmsInv, TypeOK',
         UNCHANGED <<owner, active, pageCount>>,
         windowActive' = WindowNeeded(physPool'),
         \A p \in Slot :
           \/ physName[p]' = physName[p] /\ physPool[p]' = physPool[p]
           \/ \E name \in Name : /\ physName[p]' = Named(name)
                                 /\ physPool[p]' = Resolve(name)
  PROVE  EmsInv'
<1>1. \A h \in Handle : Owned(h)' = Owned(h)
  BY DEF Owned
<1>2. PageAccounting'
  BY <1>1 DEF EmsInv, PageAccounting
<1>3. \A h, l : LogicalToPool(h, l)' = LogicalToPool(h, l)
  BY DEF LogicalToPool, PagesAt, Owned, Rank, IsOpen
<1>4. FrameCoherent'
  <2> SUFFICES ASSUME NEW p \in Slot, physPool[p]' >= 0
               PROVE  /\ IsOpen(physName[p].handle)'
                      /\ owner[physPool[p]]' = physName[p].handle'
                      /\ physPool[p]' = LogicalToPool(physName[p].handle,
                                                      physName[p].logical)'
    BY DEF FrameCoherent
  <2>1. CASE physName[p]' = physName[p] /\ physPool[p]' = physPool[p]
    BY <2>1, <1>3 DEF EmsInv, FrameCoherent, IsOpen
  <2>2. ASSUME NEW name \in Name, physName[p]' = Named(name),
               physPool[p]' = Resolve(name)
        PROVE  /\ IsOpen(physName[p].handle)'
               /\ owner[physPool[p]]' = physName[p].handle'
               /\ physPool[p]' = LogicalToPool(physName[p].handle,
                                               physName[p].logical)'
    <3>1. /\ name.logical >= 0 /\ IsOpen(name.handle)
          /\ owner[Resolve(name)] = name.handle
          /\ Resolve(name) = LogicalToPool(name.handle, name.logical)
      BY <2>2, ResolveSound
    <3>2. physName[p]' = name
      BY <2>2, <3>1, SizesAssumption DEF Named, Name
    <3> QED
      BY <2>2, <3>1, <3>2, <1>3 DEF IsOpen
  <2> QED
    BY <2>1, <2>2
<1>5. WindowFollowsMap'
  BY DEF WindowFollowsMap, WindowNeeded
<1> QED
  BY <1>2, <1>4, <1>5 DEF EmsInv

LEMMA MapInv ==
  ASSUME EmsInv, TypeOK', NEW p \in 0 .. PhysPages, NEW h \in HandleArg,
         NEW l \in -1 .. TotalPages - 1, MapPage(p, h, l)
  PROVE  EmsInv'
<1>1. CASE UNCHANGED vars
  BY <1>1, SameTables DEF vars
<1>2. CASE p \in Slot /\ IsOpen(h) /\ SetSlot(p, [handle |-> h, logical |-> l])
  <2>1. [handle |-> h, logical |-> l] \in Name
    BY <1>2, SizesAssumption DEF Name, IsOpen, Handle
  <2> QED
    BY <1>2, <2>1, FrameInv DEF SetSlot, RefreshWindow, EmsInv, TypeOK
<1> QED
  BY <1>1, <1>2 DEF MapPage, Fail

LEMMA RestoreInv ==
  ASSUME EmsInv, TypeOK', NEW h \in HandleArg, RestorePageMap(h)
  PROVE  EmsInv'
<1>1. CASE UNCHANGED vars
  BY <1>1, SameTables DEF vars
<1>2. CASE IsOpen(h) /\ saved[h] # NoContext /\ SetFrame(saved[h])
  <2>1. saved[h] \in [Slot -> Name]
    BY <1>2 DEF EmsInv, TypeOK, IsOpen
  <2> QED
    BY <1>2, <2>1, FrameInv DEF SetFrame, RefreshWindow
<1> QED
  BY <1>1, <1>2 DEF RestorePageMap, Fail

LEMMA ReleaseInv ==
  ASSUME EmsInv, TypeOK', NEW h \in HandleArg, ReleaseHandle(h)
  PROVE  EmsInv'
<1>1. CASE UNCHANGED vars
  BY <1>1, SameTables DEF vars
<1>2. CASE IsOpen(h) /\ FreeHandle(h)
  <2>1. h \in Handle
    BY <1>2 DEF IsOpen
  <2>2. /\ Owned(h)' = {}
        /\ \A g \in Handle \ {h} : Owned(g)' = Owned(g)
    BY <1>2, <2>1, FreeHandleOwned DEF EmsInv
  <2>3. /\ ~active[h]'
        /\ \A g \in Handle \ {h} : /\ active[g]' = active[g]
                                   /\ pageCount[g]' = pageCount[g]
    BY <1>2, <2>1 DEF FreeHandle, SlotsOf, RefreshWindow, EmsInv, TypeOK
  <2>4. PageAccounting'
    <3> SUFFICES ASSUME NEW g \in Handle
                 PROVE  Cardinality(Owned(g)') =
                          IF active[g]' THEN pageCount[g]' ELSE 0
      BY DEF PageAccounting
    <3>1. CASE g = h
      BY <3>1, <2>2, <2>3, FS_EmptySet
    <3>2. CASE g # h
      BY <3>2, <2>2, <2>3 DEF EmsInv, PageAccounting
    <3> QED
      BY <3>1, <3>2
  <2>5. FrameCoherent'
    <3> SUFFICES ASSUME NEW p \in Slot, physPool[p]' >= 0
                 PROVE  /\ IsOpen(physName[p].handle)'
                        /\ owner[physPool[p]]' = physName[p].handle'
                        /\ physPool[p]' = LogicalToPool(physName[p].handle,
                                                        physName[p].logical)'
      BY DEF FrameCoherent
    <3> DEFINE g == physName[p].handle
               l == physName[p].logical
    <3>1. /\ g # h /\ physName[p]' = physName[p]
          /\ physPool[p]' = physPool[p]
      BY <1>2 DEF FreeHandle, SlotsOf, RefreshWindow
    <3>2. /\ IsOpen(g) /\ owner[physPool[p]] = g
          /\ physPool[p] = LogicalToPool(g, l)
          /\ physPool[p] \in Page
      BY <3>1, SizesAssumption DEF EmsInv, FrameCoherent, TypeOK, Page
    <3>3. g \in Handle \ {h}
      BY <3>1, <3>2 DEF IsOpen
    <3>4. LogicalToPool(g, l)' = LogicalToPool(g, l)
      <4>1. PagesAt(g, l)' = PagesAt(g, l)
        BY <3>1, <3>3, <2>2 DEF PagesAt, Rank
      <4> QED
        BY <4>1, <3>1, <3>3, <2>3 DEF LogicalToPool, IsOpen
    <3>5. owner[physPool[p]]' = g
      BY <3>1, <3>2, <1>2 DEF FreeHandle, SlotsOf, RefreshWindow
    <3> QED
      BY <3>1, <3>2, <3>3, <3>4, <3>5, <2>3 DEF IsOpen
  <2>6. WindowFollowsMap'
    BY <1>2 DEF FreeHandle, SlotsOf, RefreshWindow, WindowFollowsMap, WindowNeeded
  <2> QED
    BY <2>4, <2>5, <2>6 DEF EmsInv
<1> QED
  BY <1>1, <1>2 DEF ReleaseHandle, Fail

LEMMA InvInit == Init => EmsInv
<1> SUFFICES ASSUME Init PROVE EmsInv
  OBVIOUS
<1>1. \A h \in Handle : Owned(h) = {}
  BY DEF Init, Owned, Handle
<1>2. PageAccounting
  BY <1>1, FS_EmptySet DEF Init, PageAccounting
<1>3. FrameCoherent /\ WindowFollowsMap
  BY DEF Init, FrameCoherent, WindowFollowsMap, WindowNeeded
<1> QED
  BY <1>2, <1>3, TypeInit DEF EmsInv

LEMMA InvStep == EmsInv /\ [Next]_vars => EmsInv'
<1> SUFFICES ASSUME EmsInv, [Next]_vars PROVE EmsInv'
  OBVIOUS
<1>1. TypeOK'
  BY TypeStep DEF EmsInv
<1>2. ASSUME NEW n \in 0 .. TotalPages + 1, AllocatePages(n) PROVE EmsInv'
  BY <1>1, <1>2, AllocateInv
<1>3. ASSUME NEW p \in 0 .. PhysPages, NEW h \in HandleArg,
             NEW l \in -1 .. TotalPages - 1, MapPage(p, h, l)
      PROVE  EmsInv'
  BY <1>1, <1>3, MapInv
<1>4. ASSUME NEW h \in HandleArg, ReleaseHandle(h) PROVE EmsInv'
  BY <1>1, <1>4, ReleaseInv
<1>5. ASSUME NEW h \in HandleArg, SavePageMap(h) PROVE EmsInv'
  BY <1>1, <1>5, SameTables DEF SavePageMap, Fail, vars
<1>6. ASSUME NEW h \in HandleArg, RestorePageMap(h) PROVE EmsInv'
  BY <1>1, <1>6, RestoreInv
<1>7. ASSUME NEW p \in Slot, NEW v \in Values, WriteFrame(p, v) PROVE EmsInv'
  BY <1>1, <1>7, SameTables DEF WriteFrame
<1>8. CASE UNCHANGED vars
  BY <1>1, <1>8, SameTables DEF vars
<1> QED
  BY <1>2, <1>3, <1>4, <1>5, <1>6, <1>7, <1>8 DEF Next

(* In every reachable state each open handle owns exactly the pages it was   *)
(* given, and a closed handle owns none: releases leak no page.              *)
THEOREM AccountingCorrect == Spec => []PageAccounting
<1>1. EmsInv => PageAccounting
  BY DEF EmsInv
<1> QED
  BY <1>1, InvInit, InvStep, PTL DEF Spec

(* A slot is never redirected to a page that its handle does not own.        *)
THEOREM FrameNeverStale == Spec => []FrameCoherent
<1>1. EmsInv => FrameCoherent
  BY DEF EmsInv
<1> QED
  BY <1>1, InvInit, InvStep, PTL DEF Spec

(* The CPU redirects E000:0 exactly while some slot is mapped.               *)
THEOREM WindowCorrect == Spec => []WindowFollowsMap
<1>1. EmsInv => WindowFollowsMap
  BY DEF EmsInv
<1> QED
  BY <1>1, InvInit, InvStep, PTL DEF Spec

-----------------------------------------------------------------------------
(* Saved page maps, for pools, handle tables and frames of every size: a   *)
(* saved slot keeps resolving to the pool page it showed, whatever is      *)
(* allocated, mapped, saved and released after it, until the handle it     *)
(* names is released.                                                      *)

ContextInv ==
  /\ EmsInv
  /\ shownAtSave \in [Handle -> [Slot -> -1 .. TotalPages - 1]]
  /\ \A h \in Handle : saved[h] # NoContext => active[h]
  /\ SavedContextStable

(* A step of the history is a step of the manager. *)
LEMMA HistoryStep == [HNext]_hvars => [Next]_vars
BY DEF HNext, Next, hvars

(* A name that resolves is one of an open handle. *)
LEMMA ResolvedIsOpen ==
  ASSUME NEW name \in Name, Resolve(name) >= 0
  PROVE  /\ active[name.handle] /\ name.handle \in Handle
         /\ Resolve(name) = LogicalToPool(name.handle, name.logical)
         /\ name.logical >= 0
BY ResolveSound, SizesAssumption DEF IsOpen

(* Steps that leave the saved maps alone keep them good, if they keep the    *)
(* pages of every handle a map still counts on.                              *)
LEMMA MapsStayGood ==
  ASSUME ContextInv, EmsInv',
         NEW S \in SUBSET Handle,
         \A g \in S : /\ Owned(g)' = Owned(g) /\ active'[g] = active[g]
                      /\ pageCount'[g] = pageCount[g],
         NEW h \in Handle, NEW p \in Slot,
         shownAtSave'[h][p] = shownAtSave[h][p], shownAtSave[h][p] >= 0,
         saved'[h] = saved[h], saved[h][p].handle \in S
  PROVE  saved'[h] # NoContext /\ Resolve(saved[h][p])' = shownAtSave'[h][p]
<1>1. /\ saved[h] # NoContext /\ Resolve(saved[h][p]) = shownAtSave[h][p]
      /\ saved[h][p] \in Name
  BY DEF ContextInv, SavedContextStable, EmsInv, TypeOK
<1>2. /\ Resolve(saved[h][p]) = LogicalToPool(saved[h][p].handle, saved[h][p].logical)
      /\ saved[h][p].logical >= 0
  BY <1>1, ResolvedIsOpen
<1>3. LogicalToPool(saved[h][p].handle, saved[h][p].logical)' =
      LogicalToPool(saved[h][p].handle, saved[h][p].logical)
  BY SamePages
<1> QED
  BY <1>1, <1>2, <1>3 DEF Resolve

(* The types of the history, and of the maps it is about. *)
LEMMA HistoryTypes ==
  ASSUME ContextInv
  PROVE  /\ active \in [Handle -> BOOLEAN]
         /\ physPool \in [Slot -> -1 .. TotalPages - 1]
         /\ physName \in [Slot -> Name]
         /\ saved \in [Handle -> {NoContext} \cup [Slot -> Name]]
         /\ \A h \in Handle, p \in Slot : shownAtSave[h][p] >= 0 =>
              saved[h] \in [Slot -> Name] /\ saved[h][p].handle \in Handle /\ active[saved[h][p].handle]
<1> SUFFICES ASSUME NEW h \in Handle, NEW p \in Slot, shownAtSave[h][p] >= 0
             PROVE  /\ saved[h] \in [Slot -> Name]
                    /\ saved[h][p].handle \in Handle /\ active[saved[h][p].handle]
  BY DEF ContextInv, EmsInv, TypeOK
<1>1. saved[h] # NoContext /\ Resolve(saved[h][p]) = shownAtSave[h][p]
  BY DEF ContextInv, SavedContextStable
<1>2. saved[h] \in [Slot -> Name]
  BY <1>1 DEF ContextInv, EmsInv, TypeOK
<1> QED
  BY <1>1, <1>2, ResolvedIsOpen

LEMMA ContextInit == HInit => ContextInv
<1> SUFFICES ASSUME HInit PROVE ContextInv
  OBVIOUS
<1>1. EmsInv
  BY InvInit DEF HInit
<1>2. shownAtSave \in [Handle -> [Slot -> -1 .. TotalPages - 1]]
  BY SizesAssumption DEF HInit, ShowsNothing
<1>3. \A h \in Handle : saved[h] = NoContext
  BY DEF HInit, Init
<1>4. SavedContextStable
  BY DEF SavedContextStable, HInit, ShowsNothing
<1> QED
  BY <1>1, <1>2, <1>3, <1>4 DEF ContextInv

(* Steps that only change the frame, or a page's contents. *)
LEMMA FrameContext ==
  ASSUME ContextInv, EmsInv', UNCHANGED <<owner, active, pageCount, saved, shownAtSave>>
  PROVE  ContextInv'
<1>1. \A h, l : LogicalToPool(h, l)' = LogicalToPool(h, l)
  BY DEF LogicalToPool, PagesAt, Owned, Rank, IsOpen
<1>2. \A h \in Handle, p \in Slot : Resolve(saved[h][p])' = Resolve(saved[h][p])
  BY <1>1 DEF Resolve
<1>3. SavedContextStable'
  BY <1>2 DEF ContextInv, SavedContextStable
<1> QED
  BY <1>3 DEF ContextInv

(* Allocation opens a closed handle, which no good map names. *)
LEMMA AllocateContext ==
  ASSUME ContextInv, EmsInv', NEW n \in 0 .. TotalPages + 1, AllocatePages(n),
         UNCHANGED shownAtSave
  PROVE  ContextInv'
<1>1. CASE UNCHANGED vars
  BY <1>1, FrameContext DEF vars
<1>2. ASSUME NEW h \in Handle, n <= Cardinality(FreePages), ~active[h], TakePages(h, n)
      PROVE  ContextInv'
  <2>1. n \in 0 .. Cardinality(FreePages)
    BY <1>2, OwnedFinite DEF FreePages
  <2>2. \A g \in Handle \ {h} : /\ Owned(g)' = Owned(g) /\ active'[g] = active[g]
                                 /\ pageCount'[g] = pageCount[g]
    BY <1>2, <2>1, TakePagesOwned DEF TakePages, ContextInv, EmsInv, TypeOK
  <2>3. saved' = saved /\ shownAtSave' = shownAtSave
    BY <1>2 DEF TakePages
  <2>4. \A g \in Handle : saved'[g] # NoContext => active'[g]
    BY <1>2, <2>3 DEF TakePages, ContextInv, EmsInv, TypeOK
  <2>5. SavedContextStable'
    <3> SUFFICES ASSUME NEW g \in Handle, NEW p \in Slot, shownAtSave[g][p] >= 0
                 PROVE  saved'[g] # NoContext /\ Resolve(saved[g][p])' = shownAtSave'[g][p]
      BY <2>3 DEF SavedContextStable
    <3>1. saved[g][p].handle \in Handle \ {h}
      BY <1>2, HistoryTypes
    <3> QED
      BY <2>2, <2>3, <3>1, MapsStayGood
  <2> QED
    BY <2>3, <2>4, <2>5 DEF ContextInv
<1> QED
  BY <1>1, <1>2 DEF AllocatePages, Fail

(* A release forgets what the maps showed of the handle, and its own map. *)
LEMMA ReleaseContext ==
  ASSUME ContextInv, EmsInv', NEW h \in HandleArg, ReleaseHandle(h), ForgetFrames(h)
  PROVE  ContextInv'
<1>1. shownAtSave' \in [Handle -> [Slot -> -1 .. TotalPages - 1]]
  BY SizesAssumption DEF ForgetFrames, ContextInv
<1>2. CASE ~IsOpen(h) /\ UNCHANGED vars
  <2>1. shownAtSave' = shownAtSave
    BY <1>2 DEF ForgetFrames, ContextInv
  <2> QED
    BY <1>2, <2>1, FrameContext DEF vars
<1>3. CASE IsOpen(h) /\ FreeHandle(h)
  <2>1. h \in Handle
    BY <1>3 DEF IsOpen
  <2>2. \A g \in Handle \ {h} :
          /\ Owned(g)' = Owned(g) /\ active'[g] = active[g]
          /\ pageCount'[g] = pageCount[g] /\ saved'[g] = saved[g]
    BY <1>3, <2>1, FreeHandleOwned DEF FreeHandle, ContextInv, EmsInv, TypeOK
  <2>3. saved'[h] = NoContext
    BY <1>3, <2>1 DEF FreeHandle, ContextInv, EmsInv, TypeOK
  <2>4. \A g \in Handle : saved'[g] # NoContext => active'[g]
    BY <2>1, <2>2, <2>3 DEF ContextInv
  <2>5. SavedContextStable'
    <3> SUFFICES ASSUME NEW g \in Handle, NEW p \in Slot, shownAtSave'[g][p] >= 0
                 PROVE  saved'[g] # NoContext /\ Resolve(saved[g][p])' = shownAtSave'[g][p]
      BY DEF SavedContextStable
    <3>1. /\ ~(saved[g] # NoContext /\ (g = h \/ saved[g][p].handle = h))
          /\ shownAtSave'[g][p] = shownAtSave[g][p]
      BY <1>3 DEF ForgetFrames
    <3>2. /\ saved[g] # NoContext /\ g # h
          /\ saved[g][p].handle \in Handle \ {h}
      BY <3>1, HistoryTypes DEF ContextInv, SavedContextStable
    <3>3. saved'[g] = saved[g] /\ shownAtSave[g][p] >= 0
      BY <2>2, <3>1, <3>2
    <3> QED
      BY <2>2, <3>1, <3>2, <3>3, MapsStayGood
  <2> QED
    BY <1>1, <2>4, <2>5 DEF ContextInv
<1> QED
  BY <1>2, <1>3 DEF ReleaseHandle, Fail

(* A save takes names and pages of slots that agree, by FrameCoherent. *)
LEMMA SaveContext ==
  ASSUME ContextInv, EmsInv', NEW h \in HandleArg, SavePageMap(h), RememberFrame(h)
  PROVE  ContextInv'
<1>1. CASE ~IsOpen(h) /\ UNCHANGED vars
  BY <1>1, FrameContext DEF vars, RememberFrame
<1>2. CASE /\ IsOpen(h) /\ saved' = [saved EXCEPT ![h] = physName]
           /\ UNCHANGED <<owner, active, pageCount, physName, physPool>>
  <2>1. h \in Handle /\ active[h]
    BY <1>2 DEF IsOpen
  <2>2. /\ saved'[h] = physName /\ shownAtSave'[h] = physPool
        /\ \A g \in Handle \ {h} : saved'[g] = saved[g] /\ shownAtSave'[g] = shownAtSave[g]
        /\ shownAtSave' \in [Handle -> [Slot -> -1 .. TotalPages - 1]]
    BY <1>2, <2>1, HistoryTypes DEF RememberFrame, ContextInv
  <2>3. \A g \in Handle : Owned(g)' = Owned(g)
    BY <1>2 DEF Owned
  <2>4. SavedContextStable'
    <3> SUFFICES ASSUME NEW g \in Handle, NEW p \in Slot, shownAtSave'[g][p] >= 0
                 PROVE  saved'[g] # NoContext /\ Resolve(saved[g][p])' = shownAtSave'[g][p]
      BY DEF SavedContextStable
    <3>1. CASE g # h
      <4>1. /\ saved'[g] = saved[g] /\ shownAtSave'[g][p] = shownAtSave[g][p]
            /\ shownAtSave[g][p] >= 0
        BY <2>2, <3>1
      <4>2. saved[g][p].handle \in Handle
        BY <4>1, HistoryTypes
      <4>3. \A k \in Handle : /\ Owned(k)' = Owned(k) /\ active'[k] = active[k]
                              /\ pageCount'[k] = pageCount[k]
        BY <1>2, <2>3
      <4> QED
        BY <4>1, <4>2, <4>3, MapsStayGood
    <3>2. CASE g = h
      <4>1. /\ physName[p] \in Name /\ IsOpen(physName[p].handle)
            /\ physPool[p] = LogicalToPool(physName[p].handle, physName[p].logical)
            /\ physPool[p] >= 0
        BY <2>2, <3>2, HistoryTypes DEF ContextInv, EmsInv, FrameCoherent
      <4>2. physName[p].logical >= 0
        BY <4>1, SizesAssumption DEF LogicalToPool, Name, ContextInv, EmsInv, TypeOK, IsOpen
      <4>3. Resolve(physName[p]) = physPool[p]
        BY <4>1, <4>2, SizesAssumption DEF Resolve, Name
      <4>4. Resolve(physName[p])' = Resolve(physName[p])
        BY <1>2 DEF Resolve, LogicalToPool, PagesAt, Owned, Rank, IsOpen
      <4>5. physName # NoContext
        BY NoContextAssumption, HistoryTypes
      <4> QED
        BY <1>2, <2>2, <3>2, <4>3, <4>4, <4>5
    <3> QED
      BY <3>1, <3>2
  <2>5. \A g \in Handle : saved'[g] # NoContext => active'[g]
    BY <1>2, <2>1, <2>2 DEF ContextInv
  <2> QED
    BY <2>2, <2>4, <2>5 DEF ContextInv
<1> QED
  BY <1>1, <1>2 DEF SavePageMap, Fail

LEMMA ContextStep == ContextInv /\ [HNext]_hvars => ContextInv'
<1> SUFFICES ASSUME ContextInv, [HNext]_hvars PROVE ContextInv'
  OBVIOUS
<1>1. EmsInv'
  BY HistoryStep, InvStep DEF ContextInv
<1>2. ASSUME NEW n \in 0 .. TotalPages + 1, AllocatePages(n), UNCHANGED shownAtSave
      PROVE  ContextInv'
  BY <1>1, <1>2, AllocateContext
<1>3. ASSUME NEW p \in 0 .. PhysPages, NEW h \in HandleArg, NEW l \in -1 .. TotalPages - 1,
             MapPage(p, h, l), UNCHANGED shownAtSave
      PROVE  ContextInv'
  BY <1>1, <1>3, FrameContext DEF MapPage, SetSlot, Fail, vars
<1>4. ASSUME NEW h \in HandleArg, RestorePageMap(h), UNCHANGED shownAtSave PROVE ContextInv'
  BY <1>1, <1>4, FrameContext DEF RestorePageMap, SetFrame, Fail, vars
<1>5. ASSUME NEW p \in Slot, NEW v \in Values, WriteFrame(p, v), UNCHANGED shownAtSave
      PROVE  ContextInv'
  BY <1>1, <1>5, FrameContext DEF WriteFrame
<1>6. ASSUME NEW h \in HandleArg, ReleaseHandle(h), ForgetFrames(h) PROVE ContextInv'
  BY <1>1, <1>6, ReleaseContext
<1>7. ASSUME NEW h \in HandleArg, SavePageMap(h), RememberFrame(h) PROVE ContextInv'
  BY <1>1, <1>7, SaveContext
<1>8. CASE UNCHANGED hvars
  BY <1>1, <1>8, FrameContext DEF hvars, vars
<1> QED
  BY <1>2, <1>3, <1>4, <1>5, <1>6, <1>7, <1>8 DEF HNext

(* A slot of a saved page map resolves to the pool page it showed at the     *)
(* save, whatever calls came since, until the handle it names is released.   *)
THEOREM SavedMapsStayGood == HSpec => []SavedContextStable
<1>1. ContextInv => SavedContextStable
  BY DEF ContextInv
<1> QED
  BY <1>1, ContextInit, ContextStep, PTL DEF HSpec

(* INT 67h AH=48h puts back into every such slot the page that was saved.    *)
THEOREM RestoreIsFaithful == HSpec => RestoreShowsSavedPages
<1>1. ASSUME ContextInv, NEW h \in Handle, NEW p \in Slot,
             shownAtSave[h][p] >= 0, RestorePageMap(h)
      PROVE  physPool'[p] = shownAtSave[h][p]
  <2>1. /\ saved[h] # NoContext /\ active[h]
        /\ Resolve(saved[h][p]) = shownAtSave[h][p]
    BY <1>1 DEF ContextInv, SavedContextStable
  <2>2. SetFrame(saved[h])
    BY <1>1, <2>1 DEF RestorePageMap, IsOpen
  <2> QED
    BY <2>1, <2>2 DEF SetFrame
<1>2. ContextInv /\ [HNext]_hvars =>
        [\A h \in Handle, p \in Slot :
           shownAtSave[h][p] >= 0 /\ RestorePageMap(h)
           => physPool'[p] = shownAtSave[h][p]]_hvars
  BY <1>1
<1> QED
  BY <1>2, ContextInit, ContextStep, PTL DEF HSpec, RestoreShowsSavedPages

-----------------------------------------------------------------------------
(* Every open handle has pages of its own: each call of INT 67h and each     *)
(* write through the frame is a step of EmsAbstract, or changes nothing      *)
(* there.                                                                    *)

Arrays == [h \in Handle |-> IF active[h] THEN ArrayOf(h) ELSE Closed]
Shows(p) == IF physPool[p] >= 0
            THEN <<physName[p].handle, physName[p].logical>> ELSE Nothing
Frames == [p \in Slot |-> Shows(p)]

(* The l-th page of an open handle exists, is owned by it, and is no other's *)
(* and no other page of its own.                                             *)
LEMMA PageExists ==
  ASSUME EmsInv, NEW h \in Handle, active[h], NEW l \in 0 .. pageCount[h] - 1
  PROVE  /\ LogicalToPool(h, l) \in Page
         /\ LogicalToPool(h, l) # -1
         /\ owner[LogicalToPool(h, l)] = h
         /\ Rank(Owned(h), LogicalToPool(h, l)) = l
<1>1. Cardinality(Owned(h)) = pageCount[h]
  BY DEF EmsInv, PageAccounting
<1>2. PagesAt(h, l) # {}
  BY <1>1, OwnedFinite, RankOnto DEF PagesAt
<1>3. LogicalToPool(h, l) \in PagesAt(h, l)
  BY <1>2 DEF LogicalToPool, IsOpen
<1> QED
  BY <1>3, SizesAssumption DEF PagesAt, Owned, Page

LEMMA ArrayType ==
  ASSUME EmsInv, NEW h \in Handle, active[h]
  PROVE  /\ ArrayOf(h) = [l \in 0 .. pageCount[h] - 1 |-> pool[LogicalToPool(h, l)]]
         /\ ArrayOf(h) \in [0 .. pageCount[h] - 1 -> Values]
         /\ ArrayOf(h) # Closed
<1>1. ArrayOf(h) = [l \in 0 .. pageCount[h] - 1 |-> pool[LogicalToPool(h, l)]]
  BY PageExists DEF ArrayOf, PageOf
<1>2. ArrayOf(h) \in [0 .. pageCount[h] - 1 -> Values]
  BY <1>1, PageExists DEF EmsInv, TypeOK
<1>3. pageCount[h] \in 0 .. TotalPages
  BY DEF EmsInv, TypeOK
<1> QED
  BY <1>1, <1>2, <1>3, ClosedAssumption

ArraysTyped == \A h \in Handle : active[h] => ArrayOf(h) \in [0 .. pageCount[h] - 1 -> Values]
LEMMA ArrayTypes == EmsInv => ArraysTyped
BY ArrayType DEF ArraysTyped

(* A mapped slot names a page that its open handle has. *)
LEMMA ShownExists ==
  ASSUME EmsInv, NEW p \in Slot, physPool[p] >= 0
  PROVE  /\ physName[p].handle \in Handle /\ active[physName[p].handle]
         /\ physName[p].logical \in 0 .. pageCount[physName[p].handle] - 1
         /\ physName[p].logical \in 0 .. TotalPages - 1
         /\ physPool[p] = LogicalToPool(physName[p].handle, physName[p].logical)
         /\ Shows(p) = <<physName[p].handle, physName[p].logical>>
         /\ Shows(p) # Nothing
<1>1. /\ IsOpen(physName[p].handle)
      /\ physPool[p] = LogicalToPool(physName[p].handle, physName[p].logical)
      /\ physPool[p] # -1
  BY DEF EmsInv, FrameCoherent
<1>2. physName[p].logical \in 0 .. pageCount[physName[p].handle] - 1
  BY <1>1 DEF LogicalToPool
<1>3. physName[p].handle \in Handle /\ active[physName[p].handle]
  BY <1>1 DEF IsOpen
<1>4. pageCount[physName[p].handle] \in 0 .. TotalPages
  BY <1>3 DEF EmsInv, TypeOK
<1>5. physName[p].logical \in 0 .. TotalPages - 1
  BY <1>2, <1>4, SizesAssumption
<1> QED
  BY <1>1, <1>2, <1>3, <1>5, NothingAssumption DEF Shows

(* What is mapped is among what EmsAbstract allows a slot to show.           *)
LEMMA FrameShown ==
  EmsInv => \A p \in Slot : Shows(p) \in Guest!Shown \cup {Nothing}
<1> SUFFICES ASSUME EmsInv, NEW p \in Slot, physPool[p] >= 0 PROVE Shows(p) \in Guest!Shown
  BY DEF Shows
<1> DEFINE h == physName[p].handle
           l == physName[p].logical
<1>1. /\ h \in Handle /\ active[h] /\ l \in 0 .. pageCount[h] - 1
      /\ l \in 0 .. TotalPages - 1 /\ Shows(p) = <<h, l>>
  BY ShownExists
<1>2. Arrays[h] = ArrayOf(h) /\ ArrayOf(h) # Closed /\ l \in DOMAIN ArrayOf(h)
  BY <1>1, ArrayType DEF Arrays
<1>3. h \in Guest!Open
  BY <1>1, <1>2 DEF Guest!Open, Guest!Handle, Arrays, Handle
<1> QED
  BY <1>1, <1>2, <1>3 DEF Guest!Shown, Arrays

(* Handles whose pages, tables and contents stay keep their arrays. *)
LEMMA SameArray ==
  ASSUME NEW g \in Handle, Owned(g)' = Owned(g), active'[g] = active[g],
         pageCount'[g] = pageCount[g], pool' = pool
  PROVE  ArrayOf(g)' = ArrayOf(g)
<1>1. \A l : LogicalToPool(g, l)' = LogicalToPool(g, l)
  BY SamePages
<1> QED
  BY <1>1 DEF ArrayOf, PageOf

LEMMA SameArrays ==
  ASSUME UNCHANGED <<owner, active, pageCount, pool>>
  PROVE  Arrays' = Arrays
<1>1. \A g \in Handle : Owned(g)' = Owned(g)
  BY DEF Owned
<1>2. \A g \in Handle : ArrayOf(g)' = ArrayOf(g)
  BY <1>1, SameArray
<1> QED
  BY <1>2 DEF Arrays

-----------------------------------------------------------------------------
(* One lemma per kind of call.                                               *)

LEMMA GuestInit == Init => Guest!Init
BY DEF Init, Guest!Init, Guest!Handle, Guest!Slot, Handle, Slot

LEMMA StutterStep ==
  ASSUME UNCHANGED <<owner, active, pageCount, physName, physPool, pool>>
  PROVE  UNCHANGED Guest!absVars
BY SameArrays DEF Guest!absVars, Arrays

LEMMA OpenStep ==
  ASSUME EmsInv, EmsInv', NEW n \in 0 .. TotalPages + 1, AllocatePages(n)
  PROVE  Guest!Next \/ UNCHANGED Guest!absVars
<1>1. CASE UNCHANGED vars
  BY <1>1, StutterStep DEF vars
<1>2. ASSUME NEW h \in Handle, n <= Cardinality(FreePages), ~active[h], TakePages(h, n)
      PROVE  Guest!Next
  <2>1. n \in 0 .. Cardinality(FreePages) /\ n \in 0 .. TotalPages
    BY <1>2, OwnedFinite, SizesAssumption DEF FreePages
  <2>2. /\ pool' = pool /\ physName' = physName /\ physPool' = physPool
        /\ active'[h] /\ pageCount'[h] = n
        /\ \A g \in Handle \ {h} : /\ Owned(g)' = Owned(g) /\ active'[g] = active[g]
                                   /\ pageCount'[g] = pageCount[g]
    BY <1>2, <2>1, TakePagesOwned DEF TakePages, EmsInv, TypeOK
  <2>3. \A g \in Handle \ {h} : ArrayOf(g)' = ArrayOf(g)
    BY <2>2, SameArray
  <2>4. Arrays' = [Arrays EXCEPT ![h] = Arrays'[h]]
    BY <2>2, <2>3 DEF Arrays
  <2>5. Arrays'[h] \in [0 .. n - 1 -> Values]
    <3>1. ArraysTyped'
      BY ArrayTypes, PTL
    <3>2. ArrayOf(h)' \in [0 .. pageCount'[h] - 1 -> Values]
      BY <2>2, <3>1 DEF ArraysTyped
    <3> QED
      BY <2>2, <3>2 DEF Arrays
  <2>6. h \notin Guest!Open
    BY <1>2 DEF Guest!Open, Guest!Handle, Handle
  <2>7. Frames' = Frames
    BY <2>2 DEF Frames, Shows
  <2>8. Guest!OpenHandle(h, n)
    BY <2>4, <2>5, <2>6, <2>7 DEF Guest!OpenHandle, Arrays, Frames, Shows
  <2> QED
    BY <2>1, <2>8 DEF Guest!Next, Guest!Handle, Handle
<1> QED
  BY <1>1, <1>2 DEF AllocatePages, Fail

(* Mapping, unmapping and restoring. *)
LEMMA RemapStep ==
  ASSUME EmsInv', UNCHANGED <<owner, active, pageCount, pool>>
  PROVE  Guest!Next
<1>1. Arrays' = Arrays
  BY SameArrays
<1>2. (EmsInv => \A p \in Slot : Shows(p) \in Guest!Shown \cup {Nothing})'
  BY FrameShown, PTL
<1>3. (Guest!Shown)' = Guest!Shown
  BY <1>1 DEF Guest!Shown, Guest!Open, Arrays
<1>4. Guest!Remap
  BY <1>1, <1>2, <1>3 DEF Guest!Remap, Arrays, Shows, Guest!Slot, Slot
<1> QED
  BY <1>4 DEF Guest!Next

LEMMA CloseStep ==
  ASSUME EmsInv, NEW h \in HandleArg, ReleaseHandle(h)
  PROVE  Guest!Next \/ UNCHANGED Guest!absVars
<1>1. CASE UNCHANGED vars
  BY <1>1, StutterStep DEF vars
<1>2. CASE IsOpen(h) /\ FreeHandle(h)
  <2>1. h \in Handle /\ active[h]
    BY <1>2 DEF IsOpen
  <2>2. /\ pool' = pool /\ ~active'[h]
        /\ \A g \in Handle \ {h} : /\ Owned(g)' = Owned(g) /\ active'[g] = active[g]
                                   /\ pageCount'[g] = pageCount[g]
    BY <1>2, <2>1, FreeHandleOwned DEF FreeHandle, EmsInv, TypeOK
  <2>3. \A g \in Handle \ {h} : ArrayOf(g)' = ArrayOf(g)
    BY <2>2, SameArray
  <2>4. Arrays' = [Arrays EXCEPT ![h] = Closed]
    BY <2>2, <2>3 DEF Arrays
  <2>5. h \in Guest!Open
    BY <2>1, ArrayType DEF Guest!Open, Guest!Handle, Handle
  <2>6. \A p \in Slot : Shows(p)' = IF Shows(p) # Nothing /\ Shows(p)[1] = h
                                     THEN Nothing ELSE Shows(p)
    <3> SUFFICES ASSUME NEW p \in Slot
                 PROVE  Shows(p)' = IF Shows(p) # Nothing /\ Shows(p)[1] = h
                                     THEN Nothing ELSE Shows(p)
      OBVIOUS
    <3>1. /\ physName'[p] = IF physName[p].handle = h THEN Unnamed ELSE physName[p]
          /\ physPool'[p] = IF physName[p].handle = h THEN -1 ELSE physPool[p]
      BY <1>2 DEF FreeHandle, SlotsOf
    <3>2. CASE physPool[p] >= 0
      BY <3>1, <3>2, ShownExists DEF Shows
    <3>3. CASE ~(physPool[p] >= 0)
      BY <3>1, <3>3 DEF Shows
    <3> QED
      BY <3>2, <3>3
  <2>7. Guest!CloseHandle(h)
    BY <2>4, <2>5, <2>6 DEF Guest!CloseHandle, Arrays, Shows, Guest!Slot, Slot
  <2> QED
    BY <2>1, <2>7 DEF Guest!Next, Guest!Handle, Handle
<1> QED
  BY <1>1, <1>2 DEF ReleaseHandle, Fail

(* A write reaches the page the slot shows and, pages being private, no      *)
(* other page of any handle.                                                 *)
LEMMA WriteStep ==
  ASSUME EmsInv, NEW p \in Slot, NEW v \in Values, WriteFrame(p, v)
  PROVE  Guest!Next
<1>0. PICK h \in Handle, l \in 0 .. TotalPages - 1, i \in Page :
        h = physName[p].handle /\ l = physName[p].logical /\ i = physPool[p]
  <2>1. physPool[p] >= 0 /\ physPool[p] \in Page
    BY SizesAssumption DEF WriteFrame, EmsInv, TypeOK, Page
  <2> QED
    BY <2>1, ShownExists
<1>1. /\ physPool[p] >= 0 /\ pool' = [pool EXCEPT ![i] = v]
      /\ UNCHANGED <<owner, active, pageCount, physName, physPool>>
  BY <1>0 DEF WriteFrame
<1>2. /\ active[h] /\ l \in 0 .. pageCount[h] - 1
      /\ i = LogicalToPool(h, l) /\ Shows(p) = <<h, l>> /\ Shows(p) # Nothing
  BY <1>0, <1>1, ShownExists
<1>3. \A g, k : LogicalToPool(g, k)' = LogicalToPool(g, k)
  BY <1>1 DEF LogicalToPool, PagesAt, Owned, Rank, IsOpen
<1>4. \A g \in Handle : \A k \in 0 .. pageCount[g] - 1 :
        active[g] => (LogicalToPool(g, k) = i <=> g = h /\ k = l)
  <2> SUFFICES ASSUME NEW g \in Handle, NEW k \in 0 .. pageCount[g] - 1, active[g],
                      LogicalToPool(g, k) = i
               PROVE  g = h /\ k = l
    BY <1>2
  <2>1. g = h
    BY <1>2, PageExists
  <2> QED
    BY <1>2, <2>1, PageExists
<1>5. \A g \in Handle : active[g] =>
        ArrayOf(g)' = [k \in 0 .. pageCount[g] - 1 |->
                         IF g = h /\ k = l THEN v ELSE pool[LogicalToPool(g, k)]]
  <2> SUFFICES ASSUME NEW g \in Handle, active[g]
               PROVE  ArrayOf(g)' = [k \in 0 .. pageCount[g] - 1 |->
                         IF g = h /\ k = l THEN v ELSE pool[LogicalToPool(g, k)]]
    OBVIOUS
  <2>1. \A k \in 0 .. pageCount[g] - 1 :
          /\ LogicalToPool(g, k) \in Page /\ LogicalToPool(g, k) # -1
          /\ pool'[LogicalToPool(g, k)] =
               IF g = h /\ k = l THEN v ELSE pool[LogicalToPool(g, k)]
    BY <1>1, <1>4, PageExists DEF EmsInv, TypeOK
  <2>2. pageCount' = pageCount
    BY <1>1
  <2> QED
    BY <1>3, <2>1, <2>2 DEF ArrayOf, PageOf
<1>6. \A g \in Handle : active[g] =>
        ArrayOf(g) = [k \in 0 .. pageCount[g] - 1 |-> pool[LogicalToPool(g, k)]]
  BY ArrayType
<1>7. ArrayOf(h)' = [ArrayOf(h) EXCEPT ![l] = v]
  <2>1. ArrayOf(h)' = [k \in 0 .. pageCount[h] - 1 |->
                         IF k = l THEN v ELSE pool[LogicalToPool(h, k)]]
    BY <1>2, <1>5
  <2>2. ArrayOf(h) = [k \in 0 .. pageCount[h] - 1 |-> pool[LogicalToPool(h, k)]]
    BY <1>2, <1>6
  <2> QED
    BY <2>1, <2>2
<1>8. \A g \in Handle \ {h} : active[g] => ArrayOf(g)' = ArrayOf(g)
  BY <1>5, <1>6
<1>9. Arrays' = [Arrays EXCEPT ![h] = [ArrayOf(h) EXCEPT ![l] = v]]
  BY <1>1, <1>2, <1>7, <1>8 DEF Arrays
<1>10. Arrays' = [Arrays EXCEPT ![Shows(p)[1]][Shows(p)[2]] = v]
  <2>1. Arrays[h] = ArrayOf(h)
    BY <1>2 DEF Arrays
  <2>2. Shows(p)[1] = h /\ Shows(p)[2] = l
    BY <1>2
  <2> QED
    BY <1>9, <2>1, <2>2
<1>11. Guest!Write(p, v)
  BY <1>1, <1>2, <1>10 DEF Guest!Write, Arrays, Shows
<1> QED
  BY <1>11 DEF Guest!Next, Guest!Slot, Slot

LEMMA GuestStep == EmsInv /\ EmsInv' /\ [Next]_vars => [Guest!Next]_(Guest!absVars)
<1> SUFFICES ASSUME EmsInv, EmsInv', [Next]_vars
             PROVE  Guest!Next \/ UNCHANGED Guest!absVars
  OBVIOUS
<1>1. CASE UNCHANGED vars
  BY <1>1, StutterStep DEF vars
<1>2. ASSUME NEW n \in 0 .. TotalPages + 1, AllocatePages(n)
      PROVE  Guest!Next \/ UNCHANGED Guest!absVars
  BY <1>2, OpenStep
<1>3. ASSUME NEW p \in 0 .. PhysPages, NEW h \in HandleArg, NEW l \in -1 .. TotalPages - 1,
             MapPage(p, h, l)
      PROVE  Guest!Next \/ UNCHANGED Guest!absVars
  BY <1>1, <1>3, RemapStep DEF MapPage, SetSlot, Fail
<1>4. ASSUME NEW h \in HandleArg, ReleaseHandle(h)
      PROVE  Guest!Next \/ UNCHANGED Guest!absVars
  BY <1>4, CloseStep
<1>5. ASSUME NEW h \in HandleArg, SavePageMap(h)
      PROVE  Guest!Next \/ UNCHANGED Guest!absVars
  BY <1>1, <1>5, StutterStep DEF SavePageMap, Fail
<1>6. ASSUME NEW h \in HandleArg, RestorePageMap(h)
      PROVE  Guest!Next \/ UNCHANGED Guest!absVars
  BY <1>1, <1>6, RemapStep DEF RestorePageMap, SetFrame, Fail
<1>7. ASSUME NEW p \in Slot, NEW v \in Values, WriteFrame(p, v)
      PROVE  Guest!Next \/ UNCHANGED Guest!absVars
  BY <1>7, WriteStep
<1> QED
  BY <1>1, <1>2, <1>3, <1>4, <1>5, <1>6, <1>7 DEF Next

(* The EMS manager implements private page arrays: whatever the guest calls, *)
(* no two open handles share a page, a write through the frame changes one   *)
(* page of one handle, and closing a handle takes its pages off the frame.   *)
THEOREM PagesArePrivate == Spec => GuestSeesPrivatePages
<1> QED
  BY GuestInit, GuestStep, InvInit, InvStep, PTL DEF Spec, GuestSeesPrivatePages, Guest!Spec
=============================================================================
