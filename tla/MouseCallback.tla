---------------------------- MODULE MouseCallback ----------------------------
(***************************************************************************)
(* stepCpu with the mouse driver: before each step of the CPU it gives the *)
(* guest's mouse handler what is due, by a far call the CPU knows nothing  *)
(* of.  Touches come between steps, as app->mutex makes them.              *)
(***************************************************************************)
EXTENDS CpuControl, MouseDriver

CONSTANTS
  MouseInterrupt,  \* the software interrupt of the driver, 33h
  Subscription,    \* [mask, handler] the guest asks for with AX=000Ch
  Tidings,         \* stands for what AX to DI tell the handler
  MaxTouches       \* bound: touches

VARIABLES
  mouse,       \* the fields m_mouse... of PcBios
  dispatched,  \* this stepCpu has been past dispatchMouseCallback
  touches
all == <<vars, mouse, dispatched, touches>>

CallbackInit == Init /\ mouse = Installed /\ dispatched = FALSE /\ touches = 0

Touch ==
  /\ phase = "look" /\ ~dispatched /\ touches < MaxTouches
  /\ \E at \in 0 .. PanelSize, buttons \in SUBSET Buttons :
       mouse' = Touched(mouse, at, buttons)
  /\ touches' = touches + 1 /\ UNCHANGED <<vars, dispatched>>

\* The far call; a handler that begins with IRET is taken for an empty one.
FarCall(s, handler) ==
  LET called == Jump(PushFar(s, s.ip), handler[1], handler[2])
  IN  [called EXCEPT !.regs = [r \in Registers |->
         IF r \in {"AX", "BX", "CX", "DX", "SI", "DI"} THEN Tidings ELSE called.regs[r]]]
IsStub(handler) == Code[handler[1]][handler[2] + 1].op = "IRET"
DispatchMouseCallback ==
  /\ phase = "look" /\ ~dispatched /\ dispatched' = TRUE
  /\ mouse' = IF Due(mouse) = {} THEN mouse ELSE Told(mouse)
  /\ IF Due(mouse) = {} \/ IsStub(mouse.handler) THEN UNCHANGED <<cpu, start>>
     ELSE cpu' = FarCall(cpu, mouse.handler) /\ Fresh
  /\ UNCHANGED <<phase, slot, asked, frames, recent, touches>>

\* One transition of PcI8086::step; the guest's INT 33h installs its handler.
CallsDriver == phase = "execute" /\ Byte(cpu).op = "INT" /\ Byte(cpu).arg = MouseInterrupt
StepGuest ==
  /\ dispatched /\ Step
  /\ dispatched' = (phase' # "look")
  /\ mouse' = IF CallsDriver THEN WithHandler(mouse, Subscription.mask, Subscription.handler)
              ELSE mouse
  /\ UNCHANGED touches

StepCpu == DispatchMouseCallback \/ StepGuest
CallbackNext == StepCpu \/ Touch \/ (Ask /\ UNCHANGED <<mouse, dispatched, touches>>)
CallbackSpec == CallbackInit /\ [][CallbackNext]_all /\ WF_all(StepCpu)

-----------------------------------------------------------------------------
(* An interrupt that ends a halt goes "to next instruction after HLT": what  *)
(* pc_interrupt steps over is the HLT, and nothing else.                     *)
WakesPastHlt == [][cpu.halted /\ ~cpu'.halted => Byte(cpu).op = "HLT"]_all
=============================================================================
