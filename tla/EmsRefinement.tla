---------------------------- MODULE EmsRefinement ---------------------------
(* The EMS manager implements EmsAbstract: its pool, ownership table and    *)
(* page cache are a way to give every open handle private pages.            *)
EXTENDS Ems

CONSTANTS Closed, Nothing

\* "Not open" is no array of pages, and "unmapped" is no page of a handle.
ASSUME ClosedAssumption == \A n \in 0 .. TotalPages : Closed \notin [0 .. n - 1 -> Values]
ASSUME NothingAssumption == Nothing \notin Handle \X (0 .. TotalPages - 1)

\* A handle's pages; one it does not own would read as Nothing, which is no value.
PageOf(h, l) == LET i == LogicalToPool(h, l) IN IF i = -1 THEN Nothing ELSE pool[i]
ArrayOf(h)   == [l \in 0 .. pageCount[h] - 1 |-> PageOf(h, l)]

Guest == INSTANCE EmsAbstract WITH
  array <- [h \in Handle |-> IF active[h] THEN ArrayOf(h) ELSE Closed],
  frame <- [p \in Slot |->
              IF physPool[p] >= 0
              THEN <<physName[p].handle, physName[p].logical>> ELSE Nothing]

(* The pool, its ownership table and the cached page numbers implement       *)
(* private page arrays: no two open handles share a page, and a write        *)
(* through the frame changes exactly one page of one handle.                 *)
GuestSeesPrivatePages == Guest!Spec
=============================================================================
