------------------------- MODULE KeyboardController -------------------------
(***************************************************************************)
(* The 8042 keyboard controller of the emulated PC: HID boot reports in, a *)
(* bounded queue of scancode and reply bytes out, and the keyboard IRQ     *)
(* line.  Reports that arrive while the guest has disabled the keyboard    *)
(* are kept (the latest only) and applied when it is enabled again.        *)
(* Usages without a scancode emit nothing and are left out, so are the     *)
(* LEDs; every byte that is not part of a scancode is one value, Reply.    *)
(***************************************************************************)
EXTENDS Integers, Sequences, FiniteSets, SequencesExt

CONSTANTS
  Keys,          \* HID keys of a report's key array
  Modifiers,     \* HID modifiers, in the order of their bits: a sequence
  MaxKeys,       \* keys in one report (6)
  ScanCode,      \* ScanCode[set][k]: [extended, code] of a key in set 1 or 2
  QueueSize,     \* bytes the output queue holds (128)
  CommandBytes,  \* command bytes a guest writes
  NoReport       \* no deferred report

Modifier == ToSet(Modifiers)
Key      == Keys \cup Modifier

Injective(s) == \A i, j \in DOMAIN s : s[i] = s[j] => i = j
KeyLists == UNION {{s \in [1 .. n -> Keys] : Injective(s)} : n \in 0 .. MaxKeys}
Report      == [mods : SUBSET Modifier, keys : KeyLists]
EmptyReport == [mods |-> {}, keys |-> <<>>]
KeysOf(r)   == r.mods \cup ToSet(r.keys)

\* The bits of the command byte the controller reacts to; sets 2 and 3 emit the
\* same codes; "Parameter" is every pending write that just answers one byte
\* (KeyboardLeds, KeyboardTypematic, OutputBuffer).
CommandByte  == [irq : BOOLEAN, disable : BOOLEAN, translate : BOOLEAN]
PendingWrite == {"None", "CommandByte", "Parameter", "ScanCodeSet"}
ScanCodeSets == {1, 2}

E0 == [kind |-> "E0"]
F0 == [kind |-> "F0"]
Reply == [kind |-> "reply"]
Set1(c, up) == [kind |-> "set1", code |-> c, up |-> up]
Set2(c)     == [kind |-> "set2", code |-> c]

Code == {ScanCode[s][k].code : s \in {1, 2}, k \in Key}
Byte == {E0, F0, Reply} \cup {Set1(c, up) : c \in Code, up \in BOOLEAN}
        \cup {Set2(c) : c \in Code}

ASSUME SizesAssumption == QueueSize \in Nat \ {0} /\ MaxKeys \in Nat
ASSUME CommandBytesAssumption == CommandBytes \subseteq CommandByte
ASSUME NoReportAssumption == NoReport \notin Report
\* The key array holds usages up to 73h, the modifiers are the bits E0h to E7h.
ASSUME KeysAssumption ==
  Modifiers \in Seq(Modifier) /\ Keys \cap Modifier = {}
\* Keys may share a code, as Home and keypad 7 do in set 1.
ASSUME ScanCodeAssumption ==
  \A s \in {1, 2} : ScanCode[s] \in [Key -> [extended : BOOLEAN, code : Code]]

VARIABLES
  command,       \* m_commandByte
  disabled,      \* m_keyboardDisabled
  scanCodeSet,   \* m_scanCodeSet
  irqPending,    \* m_irqPending
  pendingWrite,  \* m_pendingWrite: what the next byte to port 60h means
  last,          \* m_lastModifiers, m_lastKeys: the report last turned to codes
  deferred,      \* m_deferred*: the latest report while disabled, or NoReport
  queue          \* m_queue from m_queueRead, m_queueCount bytes

vars == <<command, disabled, scanCodeSet, irqPending, pendingWrite, last,
          deferred, queue>>

-----------------------------------------------------------------------------
ScanCodeBytes_BareRelease(set1, k, up) ==
  LET s == ScanCode[IF set1 THEN 1 ELSE 2][k]
  IN  (IF s.extended /\ (set1 \/ ~up) THEN <<E0>> ELSE <<>>)
      \o (IF set1 THEN <<Set1(s.code, up)>>
          ELSE (IF up THEN <<F0>> ELSE <<>>) \o <<Set2(s.code)>>)

ScanCodeBytes(set1, k, up) ==
  LET s == ScanCode[IF set1 THEN 1 ELSE 2][k]
  IN  (IF s.extended THEN <<E0>> ELSE <<>>)
      \o (IF set1 THEN <<Set1(s.code, up)>>
          ELSE (IF up THEN <<F0>> ELSE <<>>) \o <<Set2(s.code)>>)

\* The codes of those keys of ks that are in S, in the order of ks.
Emit(set1, ks, S, up) ==
  FlattenSeq([i \in DOMAIN ks |->
                IF ks[i] \in S THEN ScanCodeBytes(set1, ks[i], up) ELSE <<>>])

Down == FALSE
Up   == TRUE

\* What turning report old into report new emits: modifiers go down first and
\* up last.
Transitions(set1, old, new) ==
  Emit(set1, Modifiers, new.mods \ old.mods, Down)
  \o Emit(set1, new.keys, ToSet(new.keys) \ ToSet(old.keys), Down)
  \o Emit(set1, old.keys, ToSet(old.keys) \ ToSet(new.keys), Up)
  \o Emit(set1, Modifiers, old.mods \ new.mods, Up)

Set1Output(cmd) == cmd.translate \/ scanCodeSet = 1

\* The bytes that do not fit are dropped.
Fitting_Always(q, bytes) == q \o bytes

Fitting(q, bytes) ==
  LET room == QueueSize - Len(q)
  IN  q \o SubSeq(bytes, 1, IF Len(bytes) < room THEN Len(bytes) ELSE room)

\* refreshIrq runs with every byte that enters the queue.
Enqueue(bytes, cmd) ==
  /\ queue' = Fitting(queue, bytes)
  /\ irqPending' = IF queue' = queue THEN irqPending
                   ELSE cmd.irq /\ queue' # <<>>

\* Ack (if any), then the report's codes.
Process(ack, r, cmd) ==
  /\ Enqueue(ack \o Transitions(Set1Output(cmd), last, r), cmd)
  /\ last' = r
  /\ deferred' = NoReport

ApplyDeferred_Forgotten(ack, cmd) == Enqueue(ack, cmd) /\ UNCHANGED <<last, deferred>>

ApplyDeferred(ack, cmd) ==
  \/ /\ deferred = NoReport
     /\ Enqueue(ack, cmd)
     /\ UNCHANGED <<last, deferred>>
  \/ /\ deferred # NoReport
     /\ Process(ack, deferred, cmd)

ClearPressed == last' = EmptyReport /\ deferred' = NoReport

SetDisabled_FlagOnly(b) == disabled' = b /\ UNCHANGED command

SetDisabled(b) ==
  /\ disabled' = b
  /\ command' = [command EXCEPT !.disable = b]

TypeOK ==
  /\ command \in CommandByte
  /\ disabled \in BOOLEAN
  /\ scanCodeSet \in ScanCodeSets
  /\ irqPending \in BOOLEAN
  /\ pendingWrite \in PendingWrite
  /\ last \in Report
  /\ deferred \in Report \cup {NoReport}
  /\ queue \in Seq(Byte)
  /\ Len(queue) <= QueueSize

PowerOn ==
  [command |-> [irq |-> TRUE, disable |-> FALSE, translate |-> TRUE],
   scanCodeSet |-> 2]

Init ==
  /\ command = PowerOn.command
  /\ disabled = FALSE
  /\ scanCodeSet = PowerOn.scanCodeSet
  /\ irqPending = FALSE
  /\ pendingWrite = "None"
  /\ last = EmptyReport
  /\ deferred = NoReport
  /\ queue = <<>>

\* PcMachine::reset, whatever is still held down.
Reset ==
  /\ command' = PowerOn.command
  /\ disabled' = FALSE
  /\ scanCodeSet' = PowerOn.scanCodeSet
  /\ irqPending' = FALSE
  /\ pendingWrite' = "None"
  /\ ClearPressed
  /\ queue' = <<>>

-----------------------------------------------------------------------------
(* The device side: USB reports and synthetic touch keys.                    *)
HidReport_KeepsFirst(r) ==
  /\ IF disabled /\ deferred # NoReport
     THEN UNCHANGED <<irqPending, last, deferred, queue>>
     ELSE \/ disabled /\ deferred' = r /\ UNCHANGED <<irqPending, last, queue>>
          \/ ~disabled /\ Process(<<>>, r, command)
  /\ UNCHANGED <<command, disabled, scanCodeSet, pendingWrite>>

HidReport(r) ==
  /\ \/ /\ disabled
        /\ deferred' = r
        /\ UNCHANGED <<irqPending, last, queue>>
     \/ /\ ~disabled
        /\ Process(<<>>, r, command)
  /\ UNCHANGED <<command, disabled, scanCodeSet, pendingWrite>>

\* An empty report, then clearPressedState.
UsbDisconnected ==
  /\ \/ disabled /\ UNCHANGED <<irqPending, queue>>
     \/ /\ ~disabled
        /\ Enqueue(Transitions(Set1Output(command), last, EmptyReport), command)
  /\ ClearPressed
  /\ UNCHANGED <<command, disabled, scanCodeSet, pendingWrite>>

-----------------------------------------------------------------------------
(* The guest side: ports 60h and 64h, and the CPU taking the interrupt.      *)
ReadDataPort_NoRefresh ==
  /\ queue # <<>>
  /\ queue' = Tail(queue)
  /\ UNCHANGED <<command, disabled, scanCodeSet, irqPending, pendingWrite, last,
                 deferred>>

ReadDataPort ==
  /\ queue # <<>>
  /\ queue' = Tail(queue)
  /\ irqPending' = (command.irq /\ queue' # <<>>)
  /\ UNCHANGED <<command, disabled, scanCodeSet, pendingWrite, last, deferred>>

\* stepCpu acknowledges only a pending interrupt; the line rises again while
\* bytes remain.
AcknowledgeIrq_NoRefresh ==
  /\ irqPending
  /\ irqPending' = FALSE
  /\ UNCHANGED <<command, disabled, scanCodeSet, pendingWrite, last, deferred,
                 queue>>

AcknowledgeIrq ==
  /\ irqPending
  /\ irqPending' = (command.irq /\ queue # <<>>)
  /\ UNCHANGED <<command, disabled, scanCodeSet, pendingWrite, last, deferred,
                 queue>>

\* Port 64h.  20h stands for every command that answers one byte (AAh, ABh),
\* as ED below stands for F3.
WriteCommandPort(c) ==
  \/ /\ c = "20"
     /\ Enqueue(<<Reply>>, command)
     /\ UNCHANGED <<command, disabled, pendingWrite, last, deferred>>
  \/ /\ c \in {"60", "D2"}
     /\ pendingWrite' = IF c = "60" THEN "CommandByte" ELSE "Parameter"
     /\ UNCHANGED <<command, disabled, irqPending, last, deferred, queue>>
  \/ /\ c = "AD"
     /\ SetDisabled(TRUE)
     /\ UNCHANGED <<irqPending, pendingWrite, last, deferred, queue>>
  \/ /\ c = "AE"
     /\ SetDisabled(FALSE)
     /\ ApplyDeferred(<<>>, command')
     /\ UNCHANGED pendingWrite

\* Port 60h after 60h on port 64h: the interrupt line is not recomputed.
WriteCommandByte(cb) ==
  /\ pendingWrite = "CommandByte"
  /\ command' = cb
  /\ disabled' = cb.disable
  /\ \/ disabled /\ ~disabled' /\ ApplyDeferred(<<>>, cb)
     \/ ~(disabled /\ ~disabled') /\ UNCHANGED <<irqPending, last, deferred, queue>>
  /\ pendingWrite' = "None"
  /\ UNCHANGED scanCodeSet

\* The LED or typematic byte, or the byte D2h puts back into the queue.
WriteParameter ==
  /\ pendingWrite = "Parameter"
  /\ Enqueue(<<Reply>>, command)
  /\ pendingWrite' = "None"
  /\ UNCHANGED <<command, disabled, scanCodeSet, last, deferred>>

\* 0 asks for the current set, 1 and 2 select one, 4 stands for a bad byte.
WriteScanCodeSet(n) ==
  /\ pendingWrite = "ScanCodeSet"
  /\ Enqueue(IF n = 0 THEN <<Reply, Reply>> ELSE <<Reply>>, command)
  /\ scanCodeSet' = IF n \in ScanCodeSets THEN n ELSE scanCodeSet
  /\ pendingWrite' = "None"
  /\ UNCHANGED <<command, disabled, last, deferred>>

KeyboardCommand(c) ==
  /\ pendingWrite = "None"
  /\ \/ /\ c \in {"ED", "F0"}
        /\ Enqueue(<<Reply>>, command)
        /\ pendingWrite' = IF c = "F0" THEN "ScanCodeSet" ELSE "Parameter"
        /\ UNCHANGED <<command, disabled, scanCodeSet, last, deferred>>
     \/ /\ c \in {"F2", "other"}
        /\ Enqueue(IF c = "F2" THEN <<Reply, Reply, Reply>> ELSE <<Reply>>, command)
        /\ UNCHANGED <<command, disabled, scanCodeSet, pendingWrite, last, deferred>>
     \/ /\ c = "F4"
        /\ SetDisabled(FALSE)
        /\ ApplyDeferred(<<Reply>>, command')
        /\ UNCHANGED <<scanCodeSet, pendingWrite>>
     \/ /\ c \in {"F5", "F6"}
        /\ SetDisabled(c = "F5")
        /\ scanCodeSet' = 2
        /\ ClearPressed
        /\ Enqueue(<<Reply>>, command')
        /\ UNCHANGED pendingWrite
     \/ /\ c = "FF"
        /\ Enqueue(<<Reply, Reply>>, command)
        /\ ClearPressed
        /\ UNCHANGED <<command, disabled, scanCodeSet, pendingWrite>>

ControllerCommands == {"20", "60", "AD", "AE", "D2"}
KeyboardCommands   == {"ED", "F0", "F2", "F4", "F5", "F6", "FF", "other"}

Next ==
  \/ Reset
  \/ \E r \in Report : HidReport(r)
  \/ UsbDisconnected
  \/ ReadDataPort
  \/ AcknowledgeIrq
  \/ \E c \in ControllerCommands :
       WriteCommandPort(c) /\ UNCHANGED scanCodeSet
  \/ \E cb \in CommandBytes : WriteCommandByte(cb)
  \/ WriteParameter
  \/ \E n \in ScanCodeSets \cup {0, 4} : WriteScanCodeSet(n)
  \/ \E c \in KeyboardCommands : KeyboardCommand(c)

Spec == Init /\ [][Next]_vars

-----------------------------------------------------------------------------
(* The keyboard is disabled exactly when the command byte a guest reads back *)
(* says so: four writers keep two copies of the flag.                        *)
DisabledAgrees == disabled <=> command.disable

(* A report is only held back while the keyboard is disabled: none survives  *)
(* to be replayed over newer key states.                                     *)
DeferredOnlyWhileDisabled == deferred # NoReport => disabled

(* The interrupt line is never up with nothing to read: an INT 09h would     *)
(* read the 0 that readDataPort returns from an empty queue.                 *)
LineHonest == irqPending => queue # <<>>

LineUp == queue # <<>> /\ command.irq => irqPending

(* Queued bytes always raise the line while interrupts are enabled; only a   *)
(* write of the command byte, which does not recompute the line, can leave   *)
(* bytes waiting in silence.                                                 *)
OnlyCommandByteSilences == [][LineUp /\ ~LineUp' => pendingWrite = "CommandByte"]_vars
=============================================================================
