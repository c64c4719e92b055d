---------------------------- MODULE KeyboardGuest ---------------------------
(***************************************************************************)
(* The keyboard controller with a guest that decodes what it reads, and    *)
(* three history variables: the keys really held, the keys whose release   *)
(* the controller will never report, and the keys whose code another key   *)
(* has used since.  Once the queue has been full bytes may have been       *)
(* dropped, and what the guest believes is Lost.                           *)
(***************************************************************************)
EXTENDS KeyboardController

CONSTANT Lost  \* nothing is known any more

VARIABLES
  guest,      \* the guest's decoder: keys it believes held, prefixes seen
  physical,   \* the keys of the last report, {} after a disconnect; Lost when
              \* the controller was told to forget keys still held
  orphans,    \* keys cleared from last while the guest believes them held
  eclipsed    \* keys that a key of the same code was pressed or released after

hvars == <<vars, guest, physical, orphans, eclipsed>>

FreshGuest == [held |-> {}, e0 |-> FALSE, f0 |-> FALSE]

KeyFor(s, e0, code) ==
  {k \in Key : ScanCode[s][k] = [extended |-> e0, code |-> code]}

Decode(g, b) ==
  LET Done(held) == [held |-> held, e0 |-> FALSE, f0 |-> FALSE]
  IN  CASE b.kind = "E0" -> [g EXCEPT !.e0 = TRUE]
        [] b.kind = "F0" -> [g EXCEPT !.f0 = TRUE]
        [] b.kind = "set1" ->
             Done(IF b.up THEN g.held \ KeyFor(1, g.e0, b.code)
                  ELSE g.held \cup KeyFor(1, g.e0, b.code))
        [] b.kind = "set2" ->
             Done(IF g.f0 THEN g.held \ KeyFor(2, g.e0, b.code)
                  ELSE g.held \cup KeyFor(2, g.e0, b.code))
        [] b.kind = "reply" -> g

\* The keys whose code, in the set codes are sent in, is that of another key
\* of ks.
Eclipsed(set1, ks) ==
  LET s == ScanCode[IF set1 THEN 1 ELSE 2]
  IN  {j \in Key : \E k \in ks \ {j} : s[j] = s[k]}

\* The decoder once it has read the bytes q.
Decoded(g, q) == FoldLeft(Decode, g, q)

GInit ==
  /\ Init
  /\ guest = FreshGuest
  /\ physical = {}
  /\ orphans = {}
  /\ eclipsed = {}

\* The decoder is g unless the queue was ever full; stuck keys, forgotten in
\* silence, join orphans, keys whose release is sent leave them.
Believes(g, stuck) ==
  LET pressed  == KeysOf(last') \ KeysOf(last)
      released == KeysOf(last) \ KeysOf(last')
      sent     == pressed \cup (released \ stuck)
  IN  IF guest = Lost \/ Len(queue') = QueueSize
      THEN guest' = Lost /\ orphans' = {} /\ eclipsed' = {}
      ELSE /\ guest' = g
           /\ orphans' = stuck \cup (orphans \ released)
           /\ eclipsed' = (eclipsed \ sent) \cup Eclipsed(Set1Output(command'), sent)

GHidReport(r) ==
  /\ HidReport(r)
  /\ physical' = KeysOf(r)
  /\ Believes(guest, {})

\* clearPressedState: while disabled, no release was reported for last.
GUsbDisconnected ==
  /\ UsbDisconnected
  /\ physical' = {}
  /\ Believes(guest, IF disabled THEN KeysOf(last) ELSE {})

GReadDataPort ==
  /\ ReadDataPort
  /\ UNCHANGED physical
  /\ Believes(Decode(guest, Head(queue)), {})

GReset ==
  /\ Reset
  /\ guest' = FreshGuest
  /\ orphans' = {}
  /\ eclipsed' = {}
  /\ physical' = IF physical = {} THEN {} ELSE Lost

GKeyboardCommand(c) ==
  /\ KeyboardCommand(c)
  /\ IF c \in {"F5", "F6", "FF"}
     THEN /\ physical' = IF physical = {} THEN {} ELSE Lost
          /\ Believes(guest, KeysOf(last))
     ELSE /\ UNCHANGED physical
          /\ Believes(guest, {})

GControl ==
  /\ \/ AcknowledgeIrq
     \/ \E c \in ControllerCommands :
          WriteCommandPort(c) /\ UNCHANGED scanCodeSet
     \/ \E cb \in CommandBytes : WriteCommandByte(cb)
     \/ WriteParameter
     \/ \E n \in ScanCodeSets \cup {0, 4} : WriteScanCodeSet(n)
  /\ UNCHANGED physical
  /\ Believes(guest, {})

GNext ==
  \/ GReset
  \/ \E r \in Report : GHidReport(r)
  \/ GUsbDisconnected
  \/ GReadDataPort
  \/ \E c \in KeyboardCommands : GKeyboardCommand(c)
  \/ GControl

GSpec == GInit /\ [][GNext]_hvars

-----------------------------------------------------------------------------
(* Once it has read every queued byte, the guest is right about every key:   *)
(* it believes held what the controller last turned into codes, plus what a  *)
(* keyboard reset, default or disconnect made it forget, through code set    *)
(* changes, disabling and multi-byte codes.  Not so for a key whose code     *)
(* another key has used since the key itself was pressed or released: letting *)
(* go of one of Home and keypad 7 sends the release of both.                 *)
GuestSeesReportedKeys ==
  guest # Lost =>
    LET g == Decoded(guest, queue)
    IN  /\ \A k \in Key \ eclipsed : k \in g.held <=> k \in KeysOf(last) \cup orphans
        /\ ~g.e0 /\ ~g.f0

(* The report kept for the guest is the newest one: applied when the         *)
(* keyboard is enabled again, it brings the guest to the keys really held.   *)
NewestReportKept ==
  physical # Lost => physical = KeysOf(IF deferred = NoReport THEN last ELSE deferred)
=============================================================================
