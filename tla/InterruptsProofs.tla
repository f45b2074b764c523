------------------------- MODULE InterruptsProofs -------------------------
(***************************************************************************)
(* Proofs about Interrupts, for any keys, any number of codes and ticks:   *)
(* the timer preempts nothing, every end-of-interrupt retires its own      *)
(* line, every code has its request, and the characters passed on are      *)
(* those that were typed.                                                  *)
(***************************************************************************)
EXTENDS Interrupts, TLAPS

\* Sequences.
LEMMA EmptyFacts ==
    ASSUME NEW S
    PROVE  /\ <<>> \in Seq(S) /\ Len(<<>>) = 0
           /\ \A s \in Seq(S) : s # <<>> => Len(s) \in Nat \ {0}
  OBVIOUS

LEMMA HeadTailFacts ==
    ASSUME NEW S, NEW s \in Seq(S), s # <<>>
    PROVE  /\ Head(s) \in S /\ Tail(s) \in Seq(S) /\ Len(Tail(s)) = Len(s) - 1
           /\ \A i \in 1 .. Len(Tail(s)) : Tail(s)[i] = s[i + 1]
  OBVIOUS

LEMMA AppendFacts ==
    ASSUME NEW S, NEW s \in Seq(S), NEW e \in S
    PROVE  /\ Append(s, e) \in Seq(S) /\ Append(s, e) # <<>> /\ Len(Append(s, e)) = Len(s) + 1
           /\ \A i \in 1 .. Len(s) : Append(s, e)[i] = s[i]
           /\ Append(s, e)[Len(s) + 1] = e
  OBVIOUS

\* Where the only handler is, "none" when none runs.
At == IF stack = <<>> THEN "none" ELSE stack[1].at

InTimer == At \in {"timer_callback", "timer_eoi"}
BeforeRead == At \in {"isr_handler", "keyboard_handler"}

\* The strengthening, in two parts.  Interrupts are on only when no handler
\* runs, so that there is never more than one.
OneHandler ==
    /\ iflag \in BOOLEAN /\ halted \in BOOLEAN
    /\ stack \in Seq(Frame) /\ Len(stack) <= 1
    /\ iflag => stack = <<>>
    /\ halted => At = "callback"
    /\ ~rescheduled

\* A line is in service until its handler's end-of-interrupt; the line of a
\* code that was not read is requested or being handled, never both.
LinesInStep ==
    /\ isr = IF InTimer THEN {Timer}
             ELSE IF At = "isr_handler" THEN {Keyboard} ELSE {}
    /\ buffer \in Seq(Nat)
    /\ buffer # <<>> <=> (Keyboard \in irr \/ BeforeRead)
    /\ ~(Keyboard \in irr /\ BeforeRead)

IInv == OneHandler /\ LinesInStep

\* The frame on top of the stack is the only one.
LEMMA OneFrame ==
    ASSUME IInv, stack # <<>>
    PROVE  /\ Len(stack) = 1 /\ Last(stack) = stack[1] /\ Front(stack) = <<>>
           /\ stack[1] \in Frame /\ ~iflag
  <1>0. stack \in Seq(Frame) /\ Len(stack) <= 1
    BY DEF IInv, OneHandler
  <1>1. Len(stack) = 1
    <2>1. ASSUME NEW n \in Nat \ {0}, n <= 1 PROVE n = 1
      BY <2>1, SMT
    <2>2. Len(stack) \in Nat \ {0}
      BY <1>0, EmptyFacts
    <2> QED
      BY <1>0, <2>1, <2>2, Zenon
  <1>2. Front(stack) = <<>>
    BY <1>0, <1>1 DEF Front
  <1> QED
    BY <1>0, <1>1, <1>2 DEF IInv, OneHandler, Last

\* GoTo moves the only frame, iretq removes it.
LEMMA Moves ==
    ASSUME IInv, stack # <<>>, NEW at, NEW c \in Char,
           at \in {"timer_eoi", "keyboard_handler", "callback", "eoi"},
           GoTo(at, c)
    PROVE  /\ stack' \in Seq(Frame) /\ Len(stack') = 1 /\ stack' # <<>> /\ At' = at
           /\ stack'[1].c = c
  <1> DEFINE f == [Last(stack) EXCEPT !.at = at, !.c = c]
  <1>1. Last(stack) \in Frame /\ Front(stack) = <<>>
    BY OneFrame
  <1>2. f \in Frame /\ f.at = at /\ f.c = c
    BY <1>1, Zenon DEF Frame
  <1>3. stack' = <<>> \o <<f>>
    BY <1>1 DEF GoTo
  <1> HIDE DEF f
  <1>4. stack' = <<f>>
    BY <1>2, <1>3
  <1> QED
    BY <1>2, <1>4 DEF At

LEMMA Returns ==
    ASSUME IInv, stack # <<>>, iretq
    PROVE  stack' = <<>> /\ At' = "none" /\ iflag' \in BOOLEAN
  BY OneFrame DEF iretq, At, Frame

\* The end-of-interrupt on a line alone in service, and on none.
LEMMA OneInService ==
    EOI({}) = {} /\ EOI({Timer}) = {} /\ EOI({Keyboard}) = {}
  <1>1. ASSUME NEW x \in Int PROVE Min({x}) = x
    BY DEF Min
  <1> QED
    BY <1>1 DEF EOI, Timer, Keyboard

LEMMA InitInv == Init => IInv
  <1> SUFFICES ASSUME Init PROVE IInv
    OBVIOUS
  <1>1. At = "none" /\ stack \in Seq(Frame) /\ Len(stack) <= 1
    BY DEF Init, At
  <1>2. buffer \in Seq(Nat) /\ buffer = <<>>
    BY DEF Init
  <1>3. OneHandler
    BY <1>1, Zenon DEF Init, OneHandler
  <1>4. isr = {} /\ 1 \notin irr
    BY DEF Init, Timer
  <1>5. LinesInStep
    BY <1>1, <1>2, <1>4 DEF LinesInStep, InTimer, BeforeRead, Keyboard
  <1> QED
    BY <1>3, <1>5 DEF IInv

\* Taking an interrupt starts the only handler.
LEMMA DeliverInv == ASSUME IInv, NEW irq \in {Timer, Keyboard}, Deliver(irq) PROVE IInv'
  <1> DEFINE f == [at |-> entry(irq), c |-> NoChar, saved |-> iflag]
  <1>1. stack = <<>> /\ At = "none"
    BY DEF IInv, OneHandler, Deliver, At
  <1>2. f \in Frame /\ f.at = entry(irq)
    BY DEF Frame, entry, NoChar, Char, Form, IInv, OneHandler
  <1>3. stack' = Append(<<>>, f)
    BY <1>1 DEF Deliver
  <1> HIDE DEF f
  <1>4. stack' = <<f>>
    BY <1>2, <1>3
  <1>5. stack' \in Seq(Frame) /\ Len(stack') <= 1 /\ At' = entry(irq)
    BY <1>2, <1>4 DEF At
  <1>6. isr = {}
    BY <1>1 DEF IInv, LinesInStep, InTimer
  <1>7. isr' = {irq} /\ irr' = irr \ {irq} /\ irq \in irr /\ buffer' = buffer
    BY <1>6 DEF Deliver
  <1>8. ~iflag' /\ iflag' \in BOOLEAN /\ ~halted' /\ halted' \in BOOLEAN /\ ~rescheduled'
    BY Zenon DEF Deliver, clock, gate_keeps_flag, IInv, OneHandler
  <1>9. OneHandler'
    BY <1>5, <1>8 DEF OneHandler
  <1>10. LinesInStep'
    <2>1. CASE irq = Timer
      BY <1>1, <1>5, <1>7, <2>1
      DEF IInv, LinesInStep, InTimer, BeforeRead, entry, Timer, Keyboard
    <2>2. CASE irq = Keyboard
      BY <1>1, <1>5, <1>7, <2>2
      DEF IInv, LinesInStep, InTimer, BeforeRead, entry, Timer, Keyboard
    <2> QED
      BY <2>1, <2>2
  <1> QED
    BY <1>9, <1>10 DEF IInv

\* The two steps of the timer's handler.
LEMMA TimerInv == ASSUME IInv, timer_callback \/ timer_eoi PROVE IInv'
  <1>1. CASE timer_callback
    <2>1. stack # <<>> /\ At = "timer_callback" /\ ~iflag
      BY <1>1, OneFrame DEF timer_callback, Running, At
    <2>2. NoChar \in Char
      BY DEF NoChar, Char, Form
    <2>3. stack' \in Seq(Frame) /\ Len(stack') = 1 /\ At' = "timer_eoi"
      BY <1>1, <2>1, <2>2, Moves DEF timer_callback
    <2>4. ~rescheduled' /\ UNCHANGED <<irr, isr, iflag, halted, buffer>>
      BY <1>1, <2>1 DEF timer_callback, tick, tick_on_cpu, IInv, OneHandler
    <2> QED
      BY <2>1, <2>3, <2>4 DEF IInv, OneHandler, LinesInStep, InTimer, BeforeRead
  <1>2. CASE timer_eoi
    <2>1. stack # <<>> /\ At = "timer_eoi"
      BY <1>2, OneFrame DEF timer_eoi, Running, At
    <2>2. stack' = <<>> /\ At' = "none" /\ iflag' \in BOOLEAN
      BY <1>2, <2>1, Returns DEF timer_eoi
    <2>3. isr' = {}
      BY <1>2, <2>1, OneInService DEF timer_eoi, IInv, LinesInStep, InTimer
    <2>4. UNCHANGED <<irr, halted, buffer, rescheduled>>
      BY <1>2 DEF timer_eoi, clock
    <2>5. stack' \in Seq(Frame) /\ Len(stack') <= 1
      BY <2>2
    <2> QED
      BY <2>1, <2>2, <2>3, <2>4, <2>5
      DEF IInv, OneHandler, LinesInStep, InTimer, BeforeRead
  <1> QED
    BY <1>1, <1>2

\* The steps of isr_handler and of the driver around the read of the port.
LEMMA DriverInv ==
    ASSUME IInv, isr_handler \/ callback \/ callback_halts \/ eoi
    PROVE  IInv'
  <1>0. NoChar \in Char
    BY DEF NoChar, Char, Form
  <1>1. CASE isr_handler
    <2>1. stack # <<>> /\ At = "isr_handler"
      BY <1>1, OneFrame DEF isr_handler, Running, At
    <2>2. stack' \in Seq(Frame) /\ Len(stack') = 1 /\ At' = "keyboard_handler"
      BY <1>0, <1>1, <2>1, Moves DEF isr_handler
    <2>3. isr' = {} /\ ~iflag
      BY <1>1, <2>1, OneInService, OneFrame, Zenon DEF isr_handler, IInv, LinesInStep, InTimer
    <2>4. UNCHANGED <<irr, iflag, halted, buffer, rescheduled>>
      BY <1>1 DEF isr_handler, clock
    <2> QED
      BY <2>1, <2>2, <2>3, <2>4 DEF IInv, OneHandler, LinesInStep, InTimer, BeforeRead
  <1>2. CASE callback
    <2>1. stack # <<>> /\ At = "callback" /\ ~iflag /\ ~halted
      BY <1>2, OneFrame DEF callback, Running, At
    <2>2. stack' \in Seq(Frame) /\ Len(stack') = 1 /\ At' = "eoi"
      BY <1>0, <1>2, <2>1, Moves DEF callback
    <2>3. UNCHANGED <<irr, isr, iflag, halted, buffer, rescheduled>>
      BY <1>2 DEF callback, clock
    <2> QED
      BY <2>1, <2>2, <2>3 DEF IInv, OneHandler, LinesInStep, InTimer, BeforeRead
  <1>3. CASE callback_halts
    <2>1. stack # <<>> /\ At = "callback"
      BY <1>3, OneFrame DEF callback_halts, Running, At
    <2>2. UNCHANGED <<irr, isr, stack, buffer, rescheduled>> /\ halted' = TRUE /\ iflag' = FALSE
      BY <1>3 DEF callback_halts, clock
    <2>3. At' = At
      BY <2>2 DEF At
    <2> QED
      BY <2>1, <2>2, <2>3, Zenon DEF IInv, OneHandler, LinesInStep, InTimer, BeforeRead
  <1>4. CASE eoi
    <2>1. stack # <<>> /\ At = "eoi" /\ ~halted
      BY <1>4, OneFrame DEF eoi, Running, At
    <2>2. stack' = <<>> /\ At' = "none" /\ iflag' \in BOOLEAN
      BY <1>4, <2>1, Returns DEF eoi
    <2>3. isr' = {}
      BY <1>4, <2>1, OneInService DEF eoi, IInv, LinesInStep, InTimer
    <2>4. UNCHANGED <<irr, halted, buffer, rescheduled>>
      BY <1>4 DEF eoi, clock
    <2>5. stack' \in Seq(Frame) /\ Len(stack') <= 1
      BY <2>2
    <2> QED
      BY <2>1, <2>2, <2>3, <2>4, <2>5
      DEF IInv, OneHandler, LinesInStep, InTimer, BeforeRead
  <1> QED
    BY <1>1, <1>2, <1>3, <1>4

\* Reading the port takes one code, and asks again for the next.
LEMMA ReadInv == ASSUME IInv, keyboard_handler PROVE IInv'
  <1> DEFINE code == Head(buffer)
  <1>1. stack # <<>> /\ At = "keyboard_handler" /\ ~halted /\ ~iflag
    BY OneFrame DEF keyboard_handler, Running, At
  <1>2. buffer \in Seq(Nat) /\ buffer # <<>>
    BY DEF IInv, LinesInStep, keyboard_handler
  <1>3. code \in Nat /\ Tail(buffer) \in Seq(Nat) /\ (Tail(buffer) # <<>> <=> Len(buffer) > 1)
    <2>1. code \in Nat /\ Tail(buffer) \in Seq(Nat) /\ Len(Tail(buffer)) = Len(buffer) - 1
      BY <1>2, HeadTailFacts
    <2>2. Len(buffer) \in Nat \ {0}
      BY <1>2, EmptyFacts
    <2>3. Tail(buffer) = <<>> <=> Len(Tail(buffer)) = 0
      BY <2>1, EmptyFacts, Zenon
    <2> HIDE DEF code
    <2> QED
      BY <2>1, <2>2, <2>3
  <1>4. buffer' = Tail(buffer) /\ irr' = IF Len(buffer) > 1 THEN irr \union {Keyboard} ELSE irr
    BY DEF keyboard_handler, inb
  <1>5. UNCHANGED <<isr, halted, rescheduled>>
    BY DEF keyboard_handler, clock
  <1>6. /\ stack' \in Seq(Frame) /\ Len(stack') <= 1 /\ At' \in {"none", "callback", "eoi"}
        /\ iflag' \in BOOLEAN /\ (iflag' => stack' = <<>>)
    <2>1. CASE iretq
      BY <1>1, <2>1, Returns
    <2>2. ASSUME NEW at \in continuations(code), UNCHANGED iflag,
                 GoTo(at, IF at = "callback"
                            THEN translate(code, shift_pressed, ctrl_pressed)
                            ELSE NoChar)
          PROVE  <1>6!1 /\ <1>6!2
      <3> DEFINE c == IF at = "callback"
                        THEN translate(code, shift_pressed, ctrl_pressed) ELSE NoChar
      <3> HIDE DEF code
      <3>1. at \in {"callback", "eoi"} /\ (at = "callback" => code \in 0 .. 59)
        BY <1>3, <2>2 DEF continuations, Outside
      <3>2. c \in Char
        BY <3>1 DEF translate, NoChar, Char, Form
      <3> HIDE DEF c
      <3>3. GoTo(at, c)
        BY <2>2 DEF c
      <3>4. stack' \in Seq(Frame) /\ Len(stack') = 1 /\ At' = at
        BY <1>1, <3>1, <3>2, <3>3, Moves
      <3> QED
        BY <1>1, <2>2, <3>1, <3>4 DEF IInv, OneHandler
    <2> QED
      BY <2>1, <2>2 DEF keyboard_handler
  <1>7. OneHandler'
    BY <1>1, <1>5, <1>6 DEF IInv, OneHandler
  <1>8. LinesInStep'
    <2> HIDE DEF code
    <2> QED
      BY <1>1, <1>3, <1>4, <1>5, <1>6 DEF IInv, LinesInStep, InTimer, BeforeRead
  <1> QED
    BY <1>7, <1>8 DEF IInv

\* A code that arrives asks for the interrupt if it is the only one.
LEMMA SendInv ==
    ASSUME IInv, NEW code \in Nat, NEW ev, Send(code, ev)
    PROVE  IInv'
  <1>1. UNCHANGED <<isr, iflag, stack, halted, rescheduled>>
    BY DEF Send, clock
  <1>2. At' = At
    BY <1>1 DEF At
  <1>3. OneHandler'
    BY <1>1, <1>2 DEF IInv, OneHandler
  <1>4. CASE UNCHANGED <<buffer, irr>>
    BY <1>1, <1>2, <1>3, <1>4 DEF IInv, LinesInStep, InTimer, BeforeRead
  <1>5. CASE /\ buffer' = Append(buffer, code)
             /\ irr' = IF buffer = <<>> THEN irr \union {Keyboard} ELSE irr
    <2>1. buffer \in Seq(Nat)
      BY DEF IInv, LinesInStep
    <2>2. buffer' \in Seq(Nat) /\ buffer' # <<>>
      BY <1>5, <2>1, AppendFacts
    <2>3. LinesInStep'
      BY <1>1, <1>2, <1>5, <2>2 DEF IInv, LinesInStep, InTimer, BeforeRead
    <2> QED
      BY <1>3, <2>3 DEF IInv
  <1> QED
    BY <1>4, <1>5 DEF Send

\* The keys, the timer's tick and the sti of kernel_main.
LEMMA DevicesInv ==
    ASSUME IInv,
           \/ sti \/ PitTick
           \/ \E key \in Modifiers : PressModifier(key) \/ ReleaseModifier(key)
           \/ \E key \in CharKeys : Press(key)
           \/ \E code \in OtherKeys \union {Released(k) : k \in CharKeys} : Other(code)
    PROVE  IInv'
  <1>1. CASE sti
    <2>1. UNCHANGED <<irr, isr, stack, halted, buffer, rescheduled>> /\ iflag' = TRUE
          /\ stack = <<>>
      BY <1>1 DEF sti, clock
    <2>2. At' = At
      BY <2>1 DEF At
    <2> QED
      BY <2>1, <2>2 DEF IInv, OneHandler, LinesInStep, InTimer, BeforeRead
  <1>2. CASE PitTick
    <2>1. UNCHANGED <<isr, iflag, stack, halted, buffer, rescheduled>>
          /\ irr' = irr \union {Timer}
      BY <1>2 DEF PitTick, clock
    <2>2. At' = At
      BY <2>1 DEF At
    <2> QED
      BY <2>1, <2>2
      DEF IInv, OneHandler, LinesInStep, InTimer, BeforeRead, Timer, Keyboard
  <1>3. ASSUME NEW key \in Modifiers, PressModifier(key) \/ ReleaseModifier(key)
        PROVE  IInv'
    <2>1. key \in Nat /\ Released(key) \in Nat
      BY DEF Modifiers, LShift, RShift, Ctrl, Released
    <2> QED
      BY <1>3, <2>1, SendInv DEF PressModifier, ReleaseModifier
  <1>4. ASSUME NEW key \in CharKeys, Press(key)
        PROVE  IInv'
    BY <1>4, CodesAssumption, SendInv DEF Press
  <1>5. ASSUME NEW code \in OtherKeys \union {Released(k) : k \in CharKeys}, Other(code)
        PROVE  IInv'
    <2>1. code \in Nat
      BY CodesAssumption DEF Released
    <2> QED
      BY <1>5, <2>1, SendInv DEF Other
  <1> QED
    BY <1>1, <1>2, <1>3, <1>4, <1>5

LEMMA StepInv == IInv /\ [Next]_vars => IInv'
  <1> SUFFICES ASSUME IInv, [Next]_vars PROVE IInv'
    OBVIOUS
  <1>1. CASE UNCHANGED vars
    BY <1>1 DEF vars, clock, IInv, OneHandler, LinesInStep, InTimer, BeforeRead, At
  <1>2. CASE Next
    BY <1>2, DeliverInv, TimerInv, DriverInv, ReadInv, DevicesInv DEF Next
  <1> QED
    BY <1>1, <1>2

LEMMA AlwaysInv == Spec => []IInv
  BY InitInv, StepInv, PTL DEF Spec

\* Whatever is typed and however many ticks arrive, Scheduler::tick_on_cpu
\* never gets past its test of the interrupt flag: the timer preempts
\* nothing, and a process keeps the processor until it gives it up.
THEOREM TimerPreemptsNothing == Spec => []TimerNeverPreempts
  <1>1. IInv => TimerNeverPreempts
    BY DEF IInv, OneHandler, TimerNeverPreempts
  <1> QED
    BY <1>1, AlwaysInv, PTL

\* At most one handler runs, and an end-of-interrupt is sent for the line
\* whose handler sends it, the keyboard's second one for none at all.
THEOREM EoiRetiresItsOwn == Spec => []EachEoiItsOwn
  <1>1. IInv => EachEoiItsOwn
    <2> SUFFICES ASSUME IInv PROVE EachEoiItsOwn
      OBVIOUS
    <2>1. CASE stack = <<>>
      BY <2>1 DEF IInv, OneHandler, LinesInStep, EachEoiItsOwn, Running, At, InTimer
    <2>2. CASE stack # <<>>
      <3>1. Last(stack).at = At
        BY <2>2, OneFrame DEF At
      <3>2. halted => At = "callback"
        BY DEF IInv, OneHandler
      <3> QED
        BY <2>2, <3>1, <3>2
        DEF IInv, OneHandler, LinesInStep, EachEoiItsOwn, Running, InTimer
    <2> QED
      BY <2>1, <2>2
  <1> QED
    BY <1>1, AlwaysInv, PTL

\* A code waits in the keyboard controller exactly as long as its request is
\* pending or its handler has not read the port: none is stranded, and
\* keyboard_handler never reads an empty port.
THEOREM CodesKeepRequests == Spec => []CodeHasRequest
  <1>1. IInv => CodeHasRequest
    <2> SUFFICES ASSUME IInv PROVE CodeHasRequest
      OBVIOUS
    <2>1. CASE stack = <<>>
      BY <2>1 DEF IInv, LinesInStep, CodeHasRequest, Running, At, BeforeRead
    <2>2. CASE stack # <<>>
      <3>1. Last(stack).at = At
        BY <2>2, OneFrame DEF At
      <3>2. halted => At = "callback"
        BY DEF IInv, OneHandler
      <3> QED
        BY <2>2, <3>1, <3>2 DEF IInv, LinesInStep, CodeHasRequest, Running, BeforeRead
    <2> QED
      BY <2>1, <2>2
  <1> QED
    BY <1>1, AlwaysInv, PTL

-----------------------------------------------------------------------------
(***************************************************************************)
(* The characters.  The codes in the controller were sent under modifiers  *)
(* that the driver has not seen yet.  What it will make of them is told by *)
(* three functions on the places of the buffer: shift and control as the   *)
(* driver will have them after that many codes, and the number of          *)
(* characters it will have passed on by then.                              *)
(***************************************************************************)
Shifted(s, code) ==
    IF code \in {LShift, RShift} THEN TRUE
    ELSE IF code \in {Released(LShift), Released(RShift)} THEN FALSE ELSE s
Controlled(c, code) ==
    IF code = Ctrl THEN TRUE ELSE IF code = Released(Ctrl) THEN FALSE ELSE c

\* A character that keyboard_handler has read and not yet passed on.
Pending == IF At = "callback" /\ ~halted THEN 1 ELSE 0

\* The codes that an undisturbed keyboard sends.
Codes ==
    CharKeys \union Modifiers \union {Released(k) : k \in CharKeys \union Modifiers}
        \union (OtherKeys \ Outside)

Foretold(sh, ct, n) ==
    /\ sh[0] = shift_pressed /\ ct[0] = ctrl_pressed /\ n[0] = Len(given) + Pending
    /\ \A i \in 1 .. Len(buffer) :
         /\ sh[i] = Shifted(sh[i - 1], buffer[i])
         /\ ct[i] = Controlled(ct[i - 1], buffer[i])
         /\ n[i] = IF buffer[i] \in CharKeys THEN n[i - 1] + 1 ELSE n[i - 1]
         /\ buffer[i] \in CharKeys =>
               meant[n[i]] = translate(buffer[i], sh[i - 1], ct[i - 1])
    /\ sh[Len(buffer)] = (held \intersect {LShift, RShift} # {})
    /\ ct[Len(buffer)] = (Ctrl \in held)
    /\ n[Len(buffer)] = Len(meant)

Places == 0 .. Len(buffer)

\* What was passed on is what was meant, the character about to be passed on
\* is the next one, and the codes in the controller say the rest.
CharsInStep ==
    /\ \A i \in 1 .. Len(buffer) : buffer[i] \in Codes
    /\ Len(given) + Pending <= Len(meant)
    /\ \A j \in 1 .. Len(given) : given[j] = meant[j]
    /\ Pending = 1 => stack[1].c = meant[Len(given) + 1]
    /\ \E sh \in [Places -> BOOLEAN], ct \in [Places -> BOOLEAN],
          n \in [Places -> 0 .. Len(meant)] : Foretold(sh, ct, n)

KInv == IInv /\ TypeOK /\ (event = "none" => CharsInStep)

\* A step that neither reads, passes on nor sends keeps the characters.
LEMMA SameChars ==
    ASSUME CharsInStep, UNCHANGED <<buffer, driver, held, meant>>, Pending' = Pending,
           Pending = 1 => stack'[1].c = stack[1].c
    PROVE  CharsInStep'
  <1>1. UNCHANGED <<buffer, shift_pressed, ctrl_pressed, given, held, meant>>
    BY DEF driver
  <1>2. Places' = Places
    BY <1>1 DEF Places
  <1>3. \A sh, ct, n : Foretold(sh, ct, n)' = Foretold(sh, ct, n)
    BY <1>1 DEF Foretold
  <1> QED
    BY <1>1, <1>2, <1>3 DEF CharsInStep

\* A code sent with the modifiers held is foretold like the others.
LEMMA PushChars ==
    ASSUME TypeOK, CharsInStep, NEW code \in Codes, buffer' = Append(buffer, code),
           UNCHANGED <<driver, stack, halted>>,
           meant' = IF code \in CharKeys
                    THEN Append(meant, translate(code, held \intersect {LShift, RShift} # {},
                                                 Ctrl \in held))
                    ELSE meant,
           meant' \in Seq(Char),
           (held' \intersect {LShift, RShift} # {})
               = Shifted(held \intersect {LShift, RShift} # {}, code),
           (Ctrl \in held') = Controlled(Ctrl \in held, code)
    PROVE  CharsInStep'
  <1> DEFINE S == held \intersect {LShift, RShift} # {}
             C == Ctrl \in held
             L == Len(buffer)
             M == Len(meant)
  <1>0. S \in BOOLEAN /\ C \in BOOLEAN
    OBVIOUS
  <1>1. UNCHANGED <<shift_pressed, ctrl_pressed, given>> /\ Pending' = Pending
        /\ stack'[1] = stack[1]
    BY DEF driver, Pending, At
  <1>2. buffer \in Seq(0 .. 255) /\ meant \in Seq(Char) /\ given \in Seq(Char)
    BY DEF TypeOK
  <1>3. L \in Nat /\ M \in Nat /\ Len(given) \in Nat /\ Pending \in {0, 1}
    BY <1>2 DEF Pending
  <1>4. /\ Len(buffer') = L + 1
        /\ \A i \in 1 .. L : buffer'[i] = buffer[i]
        /\ buffer'[L + 1] = code
    BY <1>2, AppendFacts
  <1>5. /\ code \in CharKeys => /\ Len(meant') = M + 1
                                /\ meant'[M + 1] = translate(code, S, C)
        /\ code \notin CharKeys => Len(meant') = M
        /\ \A j \in 1 .. M : meant'[j] = meant[j]
    <2>1. CASE code \in CharKeys
      <3>1. meant' = Append(meant, translate(code, S, C))
        BY <2>1
      <3> HIDE DEF S, C
      <3> QED
        BY <1>2, <2>1, <3>1, AppendFacts
    <2>2. CASE code \notin CharKeys
      BY <2>2
    <2> QED
      BY <2>1, <2>2
  <1>6. PICK sh \in [Places -> BOOLEAN], ct \in [Places -> BOOLEAN],
             n \in [Places -> 0 .. M] : Foretold(sh, ct, n)
    BY Zenon DEF CharsInStep
  <1> DEFINE N == IF code \in CharKeys THEN M + 1 ELSE M
             sh2 == [i \in 0 .. L + 1 |-> IF i <= L THEN sh[i] ELSE Shifted(S, code)]
             ct2 == [i \in 0 .. L + 1 |-> IF i <= L THEN ct[i] ELSE Controlled(C, code)]
             n2 == [i \in 0 .. L + 1 |-> IF i <= L THEN n[i] ELSE N]
  <1>7. Places' = 0 .. L + 1 /\ Places = 0 .. L /\ Len(meant') = N
    BY <1>4, <1>5 DEF Places
  <1>8. sh2 \in [0 .. L + 1 -> BOOLEAN] /\ ct2 \in [0 .. L + 1 -> BOOLEAN]
    <2>1. \A i \in 0 .. L : sh[i] \in BOOLEAN /\ ct[i] \in BOOLEAN
      BY <1>6, <1>7
    <2>2. Shifted(S, code) \in BOOLEAN /\ Controlled(C, code) \in BOOLEAN
      BY <1>0, Zenon DEF Shifted, Controlled
    <2>3. \A i \in 0 .. L + 1 : i <= L => i \in 0 .. L
      BY <1>3
    <2> HIDE DEF S, C, L
    <2> QED
      BY <2>1, <2>2, <2>3
  <1>9. n2 \in [0 .. L + 1 -> 0 .. N]
    <2>1. \A i \in 0 .. L : n[i] \in 0 .. M
      BY <1>6, <1>7
    <2> HIDE DEF L, M
    <2> QED
      BY <1>3, <2>1
  <1>a. PICK sh1, ct1, n1 : sh1 = sh2 /\ ct1 = ct2 /\ n1 = n2
    BY Zenon
  <1>10. sh1[L + 1] = Shifted(S, code) /\ ct1[L + 1] = Controlled(C, code) /\ n1[L + 1] = N
    BY <1>3, <1>a
  <1>11. \A i \in 0 .. L : sh1[i] = sh[i] /\ ct1[i] = ct[i] /\ n1[i] = n[i]
    BY <1>3, <1>a
  <1>12. sh[L] = S /\ ct[L] = C /\ n[L] = M
    BY <1>6 DEF Foretold
  <1>b. /\ sh1 \in [0 .. L + 1 -> BOOLEAN] /\ ct1 \in [0 .. L + 1 -> BOOLEAN]
        /\ n1 \in [0 .. L + 1 -> 0 .. N]
    BY <1>8, <1>9, <1>a
  <1> HIDE DEF sh2, ct2, n2
  <1>13. Foretold(sh1, ct1, n1)'
    <2>1. sh1[0] = shift_pressed' /\ ct1[0] = ctrl_pressed' /\ n1[0] = Len(given') + Pending'
      BY <1>1, <1>3, <1>6, <1>11 DEF Foretold
    <2>2. ASSUME NEW i \in 1 .. L + 1
          PROVE  /\ sh1[i] = Shifted(sh1[i - 1], buffer'[i])
                 /\ ct1[i] = Controlled(ct1[i - 1], buffer'[i])
                 /\ n1[i] = IF buffer'[i] \in CharKeys THEN n1[i - 1] + 1 ELSE n1[i - 1]
                 /\ buffer'[i] \in CharKeys =>
                       meant'[n1[i]] = translate(buffer'[i], sh1[i - 1], ct1[i - 1])
      <3>1. CASE i = L + 1
        <4>1. i - 1 = L /\ L \in 0 .. L
          BY <1>3, <3>1
        <4>2. sh1[i - 1] = S /\ ct1[i - 1] = C /\ n1[i - 1] = M
          BY <1>11, <1>12, <4>1
        <4> HIDE DEF S, C, L, M
        <4> QED
          BY <1>4, <1>5, <1>10, <3>1, <4>2
      <3>2. CASE i \in 1 .. L
        <4>1. i \in 0 .. L /\ i - 1 \in 0 .. L
          BY <1>3, <3>2
        <4>2. sh1[i] = sh[i] /\ sh1[i - 1] = sh[i - 1] /\ ct1[i] = ct[i]
              /\ ct1[i - 1] = ct[i - 1] /\ n1[i] = n[i] /\ n1[i - 1] = n[i - 1]
          BY <1>11, <4>1
        <4>3. buffer'[i] = buffer[i]
          BY <1>4, <3>2
        <4>4. /\ sh[i] = Shifted(sh[i - 1], buffer[i])
              /\ ct[i] = Controlled(ct[i - 1], buffer[i])
              /\ n[i] = IF buffer[i] \in CharKeys THEN n[i - 1] + 1 ELSE n[i - 1]
              /\ buffer[i] \in CharKeys =>
                    meant[n[i]] = translate(buffer[i], sh[i - 1], ct[i - 1])
          BY <1>6, <3>2 DEF Foretold
        <4>5. buffer[i] \in CharKeys => n[i] \in 1 .. M
          <5>1. n[i] \in 0 .. M /\ n[i - 1] \in 0 .. M
            BY <1>6, <1>7, <4>1
          <5> QED
            BY <1>3, <4>4, <5>1
        <4> QED
          BY <1>5, <4>2, <4>3, <4>4, <4>5
      <3>3. i = L + 1 \/ i \in 1 .. L
        BY <1>3
      <3> QED
        BY <3>1, <3>2, <3>3, Zenon
    <2> HIDE DEF L
    <2> QED
      BY <1>4, <1>7, <1>10, <2>1, <2>2, Zenon DEF Foretold
  <1>14. \A i \in 1 .. Len(buffer') : buffer'[i] \in Codes
    <2>1. \A i \in 1 .. L : buffer[i] \in Codes
      BY DEF CharsInStep
    <2> QED
      BY <1>3, <1>4, <2>1
  <1>15. Len(given) + Pending <= M /\ M <= N /\ \A j \in 1 .. Len(given) : given[j] = meant[j]
    BY <1>3 DEF CharsInStep
  <1>16. \A j \in 1 .. Len(given') : given'[j] = meant'[j]
    BY <1>1, <1>3, <1>5, <1>15
  <1>17. Pending' = 1 => stack'[1].c = meant'[Len(given') + 1]
    BY <1>1, <1>3, <1>5, <1>15 DEF CharsInStep
  <1>18. Len(given') + Pending' <= Len(meant')
    BY <1>1, <1>3, <1>7, <1>15
  <1> HIDE DEF L, N
  <1> QED
    BY <1>7, <1>b, <1>13, <1>14, <1>16, <1>17, <1>18, Zenon DEF CharsInStep

\* Reading the first code moves everything that is foretold one place down.
LEMMA PopChars ==
    ASSUME TypeOK, CharsInStep, buffer # <<>>, Pending = 0, buffer' = Tail(buffer),
           modifiers(Head(buffer)), UNCHANGED <<given, held, meant>>,
           Pending' = (IF Head(buffer) \in CharKeys THEN 1 ELSE 0),
           Head(buffer) \in CharKeys =>
               stack'[1].c = translate(Head(buffer), shift_pressed, ctrl_pressed)
    PROVE  CharsInStep'
  <1> DEFINE code == buffer[1]
             L == Len(buffer)
             M == Len(meant)
  <1>2. buffer \in Seq(0 .. 255) /\ meant \in Seq(Char) /\ given \in Seq(Char)
    BY DEF TypeOK
  <1>3. L \in Nat \ {0} /\ M \in Nat /\ Len(given) \in Nat /\ Head(buffer) = code
    BY <1>2, EmptyFacts
  <1>4. Len(buffer') = L - 1 /\ \A i \in 1 .. L - 1 : buffer'[i] = buffer[i + 1]
    BY <1>2
  <1>5. shift_pressed' = Shifted(shift_pressed, code)
        /\ ctrl_pressed' = Controlled(ctrl_pressed, code)
    BY <1>3 DEF modifiers, Shifted, Controlled
  <1>6. PICK sh \in [Places -> BOOLEAN], ct \in [Places -> BOOLEAN],
             n \in [Places -> 0 .. M] : Foretold(sh, ct, n)
    BY DEF CharsInStep
  <1>7. Places = 0 .. L /\ Places' = 0 .. L - 1
    BY <1>4 DEF Places
  <1>8. PICK sh1, ct1, n1 : /\ sh1 = [i \in 0 .. L - 1 |-> sh[i + 1]]
                            /\ ct1 = [i \in 0 .. L - 1 |-> ct[i + 1]]
                            /\ n1 = [i \in 0 .. L - 1 |-> n[i + 1]]
    BY Zenon
  <1>9. \A i \in 0 .. L - 1 : i + 1 \in Places
    BY <1>3, <1>7
  <1>10. /\ sh1 \in [Places' -> BOOLEAN] /\ ct1 \in [Places' -> BOOLEAN]
         /\ n1 \in [Places' -> 0 .. M]
    <2> HIDE DEF L, M
    <2> QED
      BY <1>6, <1>7, <1>8, <1>9
  <1>11. \A i \in 1 .. L :
           /\ sh[i] = Shifted(sh[i - 1], buffer[i])
           /\ ct[i] = Controlled(ct[i - 1], buffer[i])
           /\ n[i] = IF buffer[i] \in CharKeys THEN n[i - 1] + 1 ELSE n[i - 1]
           /\ buffer[i] \in CharKeys =>
                 meant[n[i]] = translate(buffer[i], sh[i - 1], ct[i - 1])
    BY <1>6 DEF Foretold
  <1>12. sh[0] = shift_pressed /\ ct[0] = ctrl_pressed /\ n[0] = Len(given)
    BY <1>3, <1>6 DEF Foretold
  <1>13. /\ sh[1] = Shifted(shift_pressed, code) /\ ct[1] = Controlled(ctrl_pressed, code)
         /\ n[1] = Len(given) + Pending'
         /\ code \in CharKeys => meant[n[1]] = translate(code, shift_pressed, ctrl_pressed)
    <2>1. 1 \in 1 .. L /\ 1 - 1 = 0
      BY <1>3
    <2>2. /\ sh[1] = Shifted(sh[0], code) /\ ct[1] = Controlled(ct[0], code)
          /\ n[1] = IF code \in CharKeys THEN n[0] + 1 ELSE n[0]
          /\ code \in CharKeys => meant[n[1]] = translate(code, sh[0], ct[0])
      BY <1>11, <2>1
    <2> QED
      BY <1>3, <1>12, <2>2
  <1>14. Foretold(sh1, ct1, n1)'
    <2>1. sh1[0] = shift_pressed' /\ ct1[0] = ctrl_pressed' /\ n1[0] = Len(given') + Pending'
      <3>1. sh1[0] = sh[1] /\ ct1[0] = ct[1] /\ n1[0] = n[1]
        BY <1>3, <1>8
      <3> QED
        BY <1>5, <1>13, <3>1
    <2>2. ASSUME NEW i \in 1 .. L - 1
          PROVE  /\ sh1[i] = Shifted(sh1[i - 1], buffer'[i])
                 /\ ct1[i] = Controlled(ct1[i - 1], buffer'[i])
                 /\ n1[i] = IF buffer'[i] \in CharKeys THEN n1[i - 1] + 1 ELSE n1[i - 1]
                 /\ buffer'[i] \in CharKeys =>
                       meant'[n1[i]] = translate(buffer'[i], sh1[i - 1], ct1[i - 1])
      <3>1. i \in 0 .. L - 1 /\ i - 1 \in 0 .. L - 1 /\ i + 1 \in 1 .. L /\ (i - 1) + 1 = i
            /\ (i + 1) - 1 = i
        BY <1>3
      <3>2. sh1[i] = sh[i + 1] /\ ct1[i] = ct[i + 1] /\ n1[i] = n[i + 1]
            /\ sh1[i - 1] = sh[i] /\ ct1[i - 1] = ct[i] /\ n1[i - 1] = n[i]
        BY <1>8, <3>1
      <3>3. /\ sh[i + 1] = Shifted(sh[i], buffer[i + 1])
            /\ ct[i + 1] = Controlled(ct[i], buffer[i + 1])
            /\ n[i + 1] = IF buffer[i + 1] \in CharKeys THEN n[i] + 1 ELSE n[i]
            /\ buffer[i + 1] \in CharKeys =>
                  meant[n[i + 1]] = translate(buffer[i + 1], sh[i], ct[i])
        BY <1>11, <3>1
      <3> QED
        BY <1>4, <3>2, <3>3
    <2>3. /\ sh1[L - 1] = (held' \intersect {LShift, RShift} # {})
          /\ ct1[L - 1] = (Ctrl \in held') /\ n1[L - 1] = Len(meant')
      <3>1. sh1[L - 1] = sh[L] /\ ct1[L - 1] = ct[L] /\ n1[L - 1] = n[L]
        BY <1>3, <1>8
      <3> QED
        BY <1>6, <3>1 DEF Foretold
    <2> HIDE DEF L
    <2> QED
      BY <1>4, <2>1, <2>2, <2>3, Zenon DEF Foretold
  <1>15. \A i \in 1 .. Len(buffer') : buffer'[i] \in Codes
    <2>1. \A i \in 1 .. L : buffer[i] \in Codes
      BY DEF CharsInStep
    <2> QED
      BY <1>3, <1>4, <2>1
  <1>16. Len(given') + Pending' <= Len(meant')
    <2>0. 1 \in Places
      BY <1>3, <1>7
    <2>1. n[1] \in 0 .. M
      BY <1>6, <2>0
    <2> QED
      BY <1>3, <1>13, <2>1
  <1>17. \A j \in 1 .. Len(given') : given'[j] = meant'[j]
    BY DEF CharsInStep
  <1>18. Pending' = 1 => stack'[1].c = meant'[Len(given') + 1]
    BY <1>3, <1>13
  <1> HIDE DEF L
  <1> QED
    BY <1>10, <1>14, <1>15, <1>16, <1>17, <1>18, Zenon DEF CharsInStep

\* The callback takes the character that was read.
LEMMA PassChars ==
    ASSUME TypeOK, CharsInStep, Pending = 1, Pending' = 0,
           given' = Append(given, stack[1].c),
           UNCHANGED <<buffer, shift_pressed, ctrl_pressed, held, meant>>
    PROVE  CharsInStep'
  <1>2. meant \in Seq(Char) /\ given \in Seq(Char)
    BY DEF TypeOK
  <1>3. /\ Len(given) \in Nat /\ Len(meant) \in Nat /\ Len(given') = Len(given) + 1
        /\ \A j \in 1 .. Len(given) : given'[j] = given[j]
        /\ given'[Len(given) + 1] = stack[1].c
    BY <1>2, AppendFacts
  <1>4. Len(given') + Pending' <= Len(meant')
    BY <1>3 DEF CharsInStep
  <1>5. \A j \in 1 .. Len(given') : given'[j] = meant'[j]
    <2> SUFFICES ASSUME NEW j \in 1 .. Len(given) + 1 PROVE given'[j] = meant[j]
      BY <1>3
    <2>1. CASE j = Len(given) + 1
      BY <1>3, <2>1 DEF CharsInStep
    <2>2. CASE j \in 1 .. Len(given)
      BY <1>3, <2>2 DEF CharsInStep
    <2> QED
      BY <1>3, <2>1, <2>2
  <1>6. Places' = Places
    BY DEF Places
  <1>7. \A sh, ct, n : Foretold(sh, ct, n) => Foretold(sh, ct, n)'
    BY <1>3 DEF Foretold
  <1>8. \E sh \in [Places' -> BOOLEAN], ct \in [Places' -> BOOLEAN],
           n \in [Places' -> 0 .. Len(meant')] : Foretold(sh, ct, n)'
    <2>1. PICK sh \in [Places -> BOOLEAN], ct \in [Places -> BOOLEAN],
               n \in [Places -> 0 .. Len(meant)] : Foretold(sh, ct, n)
      BY DEF CharsInStep
    <2>2. Foretold(sh, ct, n)'
      BY <1>7, <2>1
    <2> QED
      BY <1>6, <2>2, Zenon
  <1>9. \A i \in 1 .. Len(buffer') : buffer'[i] \in Codes
    BY DEF CharsInStep
  <1>10. Pending' = 1 => stack'[1].c = meant'[Len(given') + 1]
    OBVIOUS
  <1> QED
    BY <1>4, <1>5, <1>8, <1>9, <1>10, Zenon DEF CharsInStep

-----------------------------------------------------------------------------
LEMMA KInit == Init => KInv
  <1> SUFFICES ASSUME Init PROVE KInv
    OBVIOUS
  <1>1. IInv
    BY InitInv
  <1>2. TypeOK
    <2>1. /\ timer_ticks \in 0 .. TickSpan - 1 /\ sent \in 0 .. MaxCodes
          /\ m_load_balance_counter \in 0 .. LOAD_BALANCE_PERIOD - 1
      BY CodesAssumption DEF Init
    <2>2. /\ stack \in Seq(Frame) /\ buffer \in Seq(0 .. 255)
          /\ given \in Seq(Char) /\ meant \in Seq(Char) /\ Len(buffer) <= ControllerSize
      BY CodesAssumption DEF Init
    <2>3. /\ irr \subseteq {Timer, Keyboard} /\ isr \subseteq {Timer, Keyboard}
          /\ held \subseteq Modifiers /\ event \in {"none", "shifts", "outside", "dropped"}
      BY DEF Init
    <2>4. /\ iflag \in BOOLEAN /\ halted \in BOOLEAN /\ rescheduled \in BOOLEAN
          /\ shift_pressed \in BOOLEAN /\ ctrl_pressed \in BOOLEAN
      BY Zenon DEF Init
    <2> QED
      BY <2>1, <2>2, <2>3, <2>4, Zenon DEF TypeOK
  <1>3. CharsInStep
    <2>1. Pending = 0 /\ Len(given) = 0 /\ Len(meant) = 0 /\ Len(buffer) = 0
      BY DEF Init, Pending, At
    <2>2. PICK f, z : f = [i \in 0 .. 0 |-> FALSE] /\ z = [i \in 0 .. 0 |-> 0]
      BY Zenon
    <2>3. f \in [0 .. 0 -> BOOLEAN] /\ z \in [0 .. 0 -> 0 .. 0] /\ f[0] = FALSE /\ z[0] = 0
      BY <2>2
    <2>4. Foretold(f, f, z)
      BY <2>1, <2>3 DEF Init, Foretold
    <2> QED
      BY <2>1, <2>3, <2>4 DEF CharsInStep, Places
  <1> QED
    BY <1>1, <1>2, <1>3 DEF KInv

\* A code that is sent has its type, and leaves the driver's state alone.
LEMMA SendTypes ==
    ASSUME TypeOK, NEW code \in 0 .. 255, NEW ev \in {"none", "shifts", "outside"},
           Send(code, ev), IInv'
    PROVE  /\ irr' \subseteq {Timer, Keyboard} /\ buffer' \in Seq(0 .. 255)
           /\ Len(buffer') <= ControllerSize /\ sent' \in 0 .. MaxCodes
           /\ event' \in {"none", "shifts", "outside", "dropped"}
           /\ UNCHANGED <<isr, iflag, stack, halted, driver, clock>>
  <1>1. buffer \in Seq(0 .. 255) /\ Len(buffer) \in Nat
    BY DEF TypeOK
  <1>2. sent' \in 0 .. MaxCodes /\ event' \in {"none", "shifts", "outside", "dropped"}
    BY CodesAssumption DEF Send, TypeOK
  <1>3. irr' \subseteq {Timer, Keyboard}
    BY DEF Send, TypeOK
  <1>4. buffer' \in Seq(0 .. 255) /\ Len(buffer') <= ControllerSize
    <2>1. CASE Len(buffer) < ControllerSize
      <3>1. buffer' = Append(buffer, code)
        BY <2>1 DEF Send
      <3>2. buffer' \in Seq(0 .. 255) /\ Len(buffer') = Len(buffer) + 1
        BY <1>1, <3>1, AppendFacts
      <3> QED
        BY <1>1, <2>1, <3>2, CodesAssumption
    <2>2. CASE ~(Len(buffer) < ControllerSize)
      BY <2>2 DEF Send, TypeOK
    <2> QED
      BY <2>1, <2>2
  <1> QED
    BY <1>2, <1>3, <1>4 DEF Send

\* What a code means, and what it leaves held.
Tracked(code) ==
    /\ meant' = IF code \in CharKeys
                THEN Append(meant, translate(code, held \intersect {LShift, RShift} # {}, Ctrl \in held))
                ELSE meant
    /\ (held' \intersect {LShift, RShift} # {}) = Shifted(held \intersect {LShift, RShift} # {}, code)
    /\ (Ctrl \in held') = Controlled(Ctrl \in held, code)

\* A key sends its code, and means what the held modifiers make of it.
LEMMA SendChars ==
    ASSUME KInv, NEW code \in Codes \cap 0 .. 255, NEW ev \in {"none", "shifts", "outside"},
           Send(code, ev), IInv', held' \subseteq Modifiers, meant' \in Seq(Char),
           event' = "none" => Tracked(code)
    PROVE  KInv'
  <1>1. TypeOK
    BY DEF KInv
  <1>2. TypeOK'
    <2>1. /\ irr' \subseteq {Timer, Keyboard} /\ buffer' \in Seq(0 .. 255)
          /\ Len(buffer') <= ControllerSize /\ sent' \in 0 .. MaxCodes
          /\ event' \in {"none", "shifts", "outside", "dropped"}
          /\ UNCHANGED <<isr, iflag, stack, halted, driver, clock>>
      BY <1>1, SendTypes, Zenon
    <2> QED
      BY <1>1, <2>1, Zenon DEF TypeOK, driver, clock
  <1>3. ASSUME event' = "none" PROVE CharsInStep'
    <2>1. event = "none" /\ Len(buffer) < ControllerSize /\ buffer' = Append(buffer, code)
      BY <1>3 DEF Send
    <2>2. UNCHANGED <<driver, stack, halted>>
      BY DEF Send
    <2>3. CharsInStep
      BY <2>1 DEF KInv
    <2> QED
      BY <1>1, <1>3, <2>1, <2>2, <2>3, PushChars DEF Tracked
  <1> QED
    BY <1>2, <1>3 DEF KInv

\* A step of the processor or of the timer leaves the person's side alone.
LEMMA ProcessorTypes ==
    ASSUME KInv, IInv', UNCHANGED device, irr' \subseteq {Timer, Keyboard},
           buffer' \in Seq(0 .. 255), Len(buffer') <= ControllerSize,
           shift_pressed' \in BOOLEAN, ctrl_pressed' \in BOOLEAN, given' \in Seq(Char),
           UNCHANGED clock \/ timer_callback
    PROVE  TypeOK'
  <1>1. TypeOK /\ UNCHANGED <<held, meant, sent, event>>
    BY DEF KInv, device
  <1>2. isr' \subseteq {Timer, Keyboard} /\ stack' \in Seq(Frame)
        /\ iflag' \in BOOLEAN /\ halted' \in BOOLEAN
    BY DEF IInv, OneHandler, LinesInStep
  <1>3. /\ timer_ticks' \in 0 .. TickSpan - 1 /\ rescheduled' \in BOOLEAN
        /\ m_load_balance_counter' \in 0 .. LOAD_BALANCE_PERIOD - 1
    <2>1. CASE UNCHANGED clock
      BY <1>1, <2>1, Zenon DEF TypeOK, clock
    <2>2. CASE timer_callback
      <3>1. timer_ticks' \in 0 .. TickSpan - 1
        BY <1>1, <2>2, CodesAssumption DEF TypeOK, timer_callback
      <3>2. m_load_balance_counter' \in 0 .. LOAD_BALANCE_PERIOD - 1
        BY <1>1, <2>2, CodesAssumption DEF TypeOK, timer_callback, tick
      <3>3. rescheduled' \in BOOLEAN
        BY <2>2, Zenon DEF timer_callback, tick, tick_on_cpu
      <3> QED
        BY <3>1, <3>2, <3>3
    <2> QED
      BY <2>1, <2>2
  <1> QED
    BY <1>1, <1>2, <1>3, Zenon DEF TypeOK

\* Steps that have nothing to do with a character.
LEMMA QuietStep ==
    ASSUME KInv, IInv', UNCHANGED device, irr' \subseteq {Timer, Keyboard},
           UNCHANGED <<buffer, driver>>, UNCHANGED clock \/ timer_callback,
           Pending' = Pending, Pending = 1 => stack'[1].c = stack[1].c
    PROVE  KInv'
  <1>1. TypeOK
    BY DEF KInv
  <1>2. TypeOK'
    BY <1>1, ProcessorTypes DEF driver, TypeOK
  <1>3. event' = "none" => CharsInStep'
    BY SameChars DEF KInv, device
  <1> QED
    BY <1>2, <1>3 DEF KInv

LEMMA QuietSteps ==
    ASSUME KInv, IInv',
           \/ sti \/ PitTick \/ timer_callback \/ timer_eoi \/ isr_handler \/ eoi
           \/ \E irq \in {Timer, Keyboard} : Deliver(irq)
    PROVE  KInv'
  <1>0. IInv /\ irr \subseteq {Timer, Keyboard} /\ NoChar \in Char
    BY DEF KInv, TypeOK, NoChar, Char, Form
  <1>1. CASE sti
    BY <1>0, <1>1, QuietStep DEF sti, Pending, At
  <1>2. CASE PitTick
    BY <1>0, <1>2, QuietStep DEF PitTick, Pending, At
  <1>3. CASE timer_callback
    <2>1. stack # <<>> /\ At = "timer_callback"
      BY <1>0, <1>3, OneFrame DEF timer_callback, Running, At
    <2>2. At' = "timer_eoi"
      BY <1>0, <1>3, <2>1, Moves DEF timer_callback
    <2> QED
      BY <1>0, <1>3, <2>1, <2>2, QuietStep DEF timer_callback, Pending
  <1>4. CASE timer_eoi
    <2>1. stack # <<>> /\ At = "timer_eoi"
      BY <1>0, <1>4, OneFrame DEF timer_eoi, Running, At
    <2>2. At' = "none"
      BY <1>0, <1>4, <2>1, Returns DEF timer_eoi
    <2> QED
      BY <1>0, <1>4, <2>1, <2>2, QuietStep DEF timer_eoi, Pending
  <1>5. CASE isr_handler
    <2>1. stack # <<>> /\ At = "isr_handler"
      BY <1>0, <1>5, OneFrame DEF isr_handler, Running, At
    <2>2. At' = "keyboard_handler"
      BY <1>0, <1>5, <2>1, Moves DEF isr_handler
    <2> QED
      BY <1>0, <1>5, <2>1, <2>2, QuietStep DEF isr_handler, Pending
  <1>6. CASE eoi
    <2>1. stack # <<>> /\ At = "eoi"
      BY <1>0, <1>6, OneFrame DEF eoi, Running, At
    <2>2. At' = "none"
      BY <1>0, <1>6, <2>1, Returns DEF eoi
    <2> QED
      BY <1>0, <1>6, <2>1, <2>2, QuietStep DEF eoi, Pending
  <1>7. ASSUME NEW irq \in {Timer, Keyboard}, Deliver(irq) PROVE KInv'
    <2>1. At = "none" /\ stack = <<>>
      BY <1>0, <1>7 DEF IInv, OneHandler, Deliver, At
    <2>2. At' = entry(irq)
      <3> DEFINE f == [at |-> entry(irq), c |-> NoChar, saved |-> iflag]
      <3>1. stack' = Append(<<>>, f) /\ f.at = entry(irq)
        BY <1>7, <2>1 DEF Deliver
      <3> HIDE DEF f
      <3>2. stack' = <<f>>
        BY <3>1
      <3> QED
        BY <3>1, <3>2 DEF At
    <2>3. irr' \subseteq {Timer, Keyboard}
      BY <1>0, <1>7 DEF Deliver
    <2>4. Pending = 0 /\ Pending' = 0
      BY <2>1, <2>2 DEF Pending, entry
    <2> QED
      BY <1>7, <2>3, <2>4, QuietStep DEF Deliver
  <1> QED
    BY <1>1, <1>2, <1>3, <1>4, <1>5, <1>6, <1>7

\* The two ends of a callback.
LEMMA CallbackStep == ASSUME KInv, IInv', callback \/ callback_halts PROVE KInv'
  <1>0. IInv /\ TypeOK /\ NoChar \in Char
    BY DEF KInv, NoChar, Char, Form
  <1>1. stack # <<>> /\ At = "callback" /\ ~halted /\ Last(stack) = stack[1]
        /\ stack[1].c \in Char
    <2>1. stack # <<>> /\ ~halted /\ Last(stack).at = "callback"
      BY DEF callback, callback_halts, Running
    <2> QED
      BY <1>0, <2>1, OneFrame DEF At, Frame
  <1>2. given' = Append(given, stack[1].c)
    BY <1>1 DEF callback, callback_halts
  <1>3. UNCHANGED <<irr, buffer, shift_pressed, ctrl_pressed, clock, device>>
    BY DEF callback, callback_halts
  <1>4. Pending = 1 /\ Pending' = 0
    <2>1. CASE callback
      <3>1. At' = "eoi"
        BY <1>0, <1>1, <2>1, Moves DEF callback
      <3> QED
        BY <1>1, <3>1 DEF Pending
    <2>2. CASE callback_halts
      BY <1>1, <2>2 DEF callback_halts, Pending
    <2> QED
      BY <2>1, <2>2
  <1>5. given' \in Seq(Char)
    <2>1. given \in Seq(Char)
      BY <1>0 DEF TypeOK
    <2> QED
      BY <1>1, <1>2, <2>1, AppendFacts
  <1>6. TypeOK'
    BY <1>0, <1>3, <1>5, ProcessorTypes DEF TypeOK
  <1>7. event' = "none" => CharsInStep'
    BY <1>0, <1>2, <1>3, <1>4, PassChars DEF KInv, device
  <1> QED
    BY <1>6, <1>7 DEF KInv

\* The codes by what keyboard_handler does with them.
LEMMA CodeKinds ==
    /\ CharKeys \subseteq Codes /\ Modifiers \subseteq Codes
    /\ \A k \in CharKeys \union Modifiers : Released(k) \in Codes
    /\ Codes \subseteq 0 .. 255
    /\ \A code \in Codes \ (Modifiers \union {Released(k) : k \in Modifiers}) :
          continuations(code) = IF code \in CharKeys THEN {"callback"} ELSE {"eoi"}
    /\ \A code \in Modifiers \union {Released(k) : k \in Modifiers} : code \notin CharKeys
  <1>1. Codes \subseteq 0 .. 255
    <2> SUFFICES ASSUME NEW code \in Codes PROVE code \in 0 .. 255
      OBVIOUS
    <2>1. CASE code \in CharKeys \union (OtherKeys \ Outside)
      BY <2>1, CodesAssumption
    <2>2. CASE code \in Modifiers
      BY <2>2 DEF Modifiers, LShift, RShift, Ctrl
    <2>3. CASE code \in {Released(k) : k \in CharKeys}
      BY <2>3, CodesAssumption DEF Released
    <2>4. CASE code \in {Released(k) : k \in Modifiers}
      BY <2>4 DEF Released, Modifiers, LShift, RShift, Ctrl
    <2> QED
      BY <2>1, <2>2, <2>3, <2>4 DEF Codes
  <1>2. ASSUME NEW code \in Codes \ (Modifiers \union {Released(k) : k \in Modifiers})
        PROVE  continuations(code) = IF code \in CharKeys THEN {"callback"} ELSE {"eoi"}
    <2>1. CASE code \in CharKeys
      BY <2>1, CodesAssumption DEF continuations, Blank, Outside, Modifiers
    <2>2. CASE code \in OtherKeys \ Outside
      BY <2>2, CodesAssumption DEF continuations, Blank, Outside
    <2>3. CASE code \in {Released(k) : k \in CharKeys}
      BY <2>3, CodesAssumption DEF continuations, Blank, Outside, Released
    <2> QED
      BY <2>1, <2>2, <2>3 DEF Codes
  <1>3. \A code \in Modifiers \union {Released(k) : k \in Modifiers} : code \notin CharKeys
    BY CodesAssumption DEF Modifiers, LShift, RShift, Ctrl, Released
  <1> QED
    BY <1>1, <1>2, <1>3 DEF Codes

LEMMA ReadStep == ASSUME KInv, IInv', keyboard_handler PROVE KInv'
  <1> DEFINE code == Head(buffer)
  <1>0. IInv /\ TypeOK /\ NoChar \in Char
    BY DEF KInv, NoChar, Char, Form
  <1>1. stack # <<>> /\ At = "keyboard_handler" /\ ~halted
    BY <1>0, OneFrame DEF keyboard_handler, Running, At
  <1>2. buffer \in Seq(0 .. 255) /\ buffer # <<>> /\ Len(buffer) \in Nat
    BY <1>0 DEF TypeOK, keyboard_handler
  <1>3. code \in 0 .. 255 /\ Tail(buffer) \in Seq(0 .. 255)
        /\ Len(Tail(buffer)) = Len(buffer) - 1 /\ code = buffer[1]
    BY <1>2, HeadTailFacts
  <1>4. buffer' = Tail(buffer) /\ irr' \subseteq {Timer, Keyboard}
    BY <1>0 DEF keyboard_handler, inb, TypeOK
  <1>5. modifiers(code) /\ UNCHANGED <<halted, given, clock, device>>
    BY DEF keyboard_handler
  <1>6. shift_pressed' \in BOOLEAN /\ ctrl_pressed' \in BOOLEAN
    BY <1>0, <1>5, Zenon DEF modifiers, TypeOK
  <1>7. TypeOK'
    <2>1. Len(buffer') <= ControllerSize
      BY <1>0, <1>2, <1>3, <1>4, CodesAssumption DEF TypeOK
    <2>2. given' \in Seq(Char)
      BY <1>0, <1>5 DEF TypeOK
    <2> QED
      BY <1>3, <1>4, <1>5, <1>6, <2>1, <2>2, ProcessorTypes
  <1>8. ASSUME event' = "none" PROVE CharsInStep'
    <2>1. CharsInStep /\ UNCHANGED <<held, meant>>
      BY <1>5, <1>8 DEF KInv, device
    <2>2. code \in Codes
      <3>1. Len(buffer) # 0
        BY <1>2, EmptyFacts
      <3>2. 1 \in 1 .. Len(buffer)
        BY <1>2, <3>1
      <3> QED
        BY <1>3, <2>1, <3>2 DEF CharsInStep
    <2>3. Pending = 0
      BY <1>1 DEF Pending
    <2>4. /\ Pending' = (IF code \in CharKeys THEN 1 ELSE 0)
          /\ code \in CharKeys => stack'[1].c = translate(code, shift_pressed, ctrl_pressed)
      <3>1. CASE code \in Modifiers \union {Released(k) : k \in Modifiers}
        <4>1. iretq
          BY <3>1 DEF keyboard_handler
        <4>2. At' = "none"
          BY <1>0, <1>1, <4>1, Returns
        <4> HIDE DEF code
        <4> QED
          BY <3>1, <4>2, CodeKinds DEF Pending
      <3>2. CASE code \notin Modifiers \union {Released(k) : k \in Modifiers}
        <4>1. PICK at \in continuations(code) :
                GoTo(at, IF at = "callback" THEN translate(code, shift_pressed, ctrl_pressed)
                                            ELSE NoChar)
          BY <3>2 DEF keyboard_handler
        <4> HIDE DEF code
        <4>2. at = IF code \in CharKeys THEN "callback" ELSE "eoi"
          BY <2>2, <3>2, <4>1, CodeKinds
        <4>3. translate(code, shift_pressed, ctrl_pressed) \in Char \/ code \notin CharKeys
          <5>1. code \in CharKeys => code \in 0 .. 59
            BY CodesAssumption
          <5> QED
            BY <5>1 DEF translate, Char, Form
        <4>4. At' = at /\ (code \in CharKeys =>
                              stack'[1].c = translate(code, shift_pressed, ctrl_pressed))
          <5>1. CASE code \in CharKeys
            BY <1>0, <1>1, <4>1, <4>2, <4>3, <5>1, Moves
          <5>2. CASE code \notin CharKeys
            BY <1>0, <1>1, <4>1, <4>2, <5>2, Moves
          <5> QED
            BY <5>1, <5>2
        <4> QED
          BY <1>1, <1>5, <4>2, <4>4 DEF Pending
      <3> QED
        BY <3>1, <3>2
    <2> QED
      BY <1>0, <1>2, <1>4, <1>5, <2>1, <2>3, <2>4, PopChars
  <1> QED
    BY <1>7, <1>8 DEF KInv

\* What the modifiers that the driver sees do, code by code.
LEMMA ModifierCodes ==
    /\ \A s : Shifted(s, LShift) = TRUE /\ Shifted(s, RShift) = TRUE /\ Shifted(s, Ctrl) = s
    /\ \A s : /\ Shifted(s, Released(LShift)) = FALSE /\ Shifted(s, Released(RShift)) = FALSE
             /\ Shifted(s, Released(Ctrl)) = s
    /\ \A c : Controlled(c, LShift) = c /\ Controlled(c, RShift) = c /\ Controlled(c, Ctrl) = TRUE
    /\ \A c : /\ Controlled(c, Released(LShift)) = c /\ Controlled(c, Released(RShift)) = c
             /\ Controlled(c, Released(Ctrl)) = FALSE
    /\ \A code \in CharKeys \union OtherKeys \union {Released(k) : k \in CharKeys} :
          \A s : Shifted(s, code) = s /\ Controlled(s, code) = s
  <1>1. ASSUME NEW code \in CharKeys \union OtherKeys \union {Released(k) : k \in CharKeys}
        PROVE  code \notin {LShift, RShift, Released(LShift), Released(RShift), Ctrl, Released(Ctrl)}
    BY CodesAssumption DEF Modifiers, LShift, RShift, Ctrl, Released
  <1>2. ASSUME NEW code \in CharKeys \union OtherKeys \union {Released(k) : k \in CharKeys},
               NEW s
        PROVE  Shifted(s, code) = s /\ Controlled(s, code) = s
    BY <1>1, Zenon DEF Shifted, Controlled
  <1>3. /\ LShift # RShift /\ LShift # Ctrl /\ RShift # Ctrl
        /\ \A j, k \in Modifiers : Released(j) # k /\ (Released(j) = Released(k) => j = k)
    BY DEF Modifiers, LShift, RShift, Ctrl, Released
  <1>4. /\ LShift \in Modifiers /\ RShift \in Modifiers /\ Ctrl \in Modifiers
    BY DEF Modifiers
  <1>5. ASSUME NEW s
        PROVE  /\ Shifted(s, LShift) = TRUE /\ Shifted(s, RShift) = TRUE /\ Shifted(s, Ctrl) = s
               /\ Shifted(s, Released(LShift)) = FALSE /\ Shifted(s, Released(RShift)) = FALSE
               /\ Shifted(s, Released(Ctrl)) = s
    BY <1>3, <1>4, Zenon DEF Shifted
  <1>6. ASSUME NEW c
        PROVE  /\ Controlled(c, LShift) = c /\ Controlled(c, RShift) = c
               /\ Controlled(c, Ctrl) = TRUE /\ Controlled(c, Released(LShift)) = c
               /\ Controlled(c, Released(RShift)) = c /\ Controlled(c, Released(Ctrl)) = FALSE
    BY <1>3, <1>4, Zenon DEF Controlled
  <1> QED
    BY <1>2, <1>5, <1>6, Zenon

\* The person's side: every key that sends a code.
LEMMA PersonStep ==
    ASSUME KInv, IInv',
           \/ \E key \in Modifiers : PressModifier(key) \/ ReleaseModifier(key)
           \/ \E key \in CharKeys : Press(key)
           \/ \E code \in OtherKeys \union {Released(k) : k \in CharKeys} : Other(code)
    PROVE  KInv'
  <1>0. held \subseteq Modifiers /\ meant \in Seq(Char) /\ TypeOK
    BY DEF KInv, TypeOK
  <1> DEFINE S == held \intersect {LShift, RShift} # {}
  <1>1. ASSUME NEW key \in Modifiers, PressModifier(key) PROVE KInv'
    <2>1. held' = held \union {key} /\ UNCHANGED meant /\ Send(key, "none")
      BY <1>1 DEF PressModifier
    <2>2. key \in Codes \cap 0 .. 255 /\ key \notin CharKeys
      BY CodeKinds
    <2>3. key = LShift \/ key = RShift \/ key = Ctrl
      BY DEF Modifiers
    <2>4. /\ (held' \intersect {LShift, RShift} # {}) = Shifted(S, key)
          /\ (Ctrl \in held') = Controlled(Ctrl \in held, key)
      <3> DEFINE T == held' \intersect {LShift, RShift} # {}
                 D == Ctrl \in held'
      <3>1. /\ key \in {LShift, RShift} => T /\ (D <=> Ctrl \in held)
            /\ key = Ctrl => (T <=> S) /\ D
        BY <2>1 DEF LShift, RShift, Ctrl
      <3>2. T \in BOOLEAN /\ D \in BOOLEAN /\ S \in BOOLEAN /\ (Ctrl \in held) \in BOOLEAN
        OBVIOUS
      <3> HIDE DEF T, D, S
      <3>3. T = Shifted(S, key) /\ D = Controlled(Ctrl \in held, key)
        BY <2>3, <3>1, <3>2, ModifierCodes, Zenon
      <3> QED
        BY <3>3 DEF T, D
    <2>5. held' \subseteq Modifiers /\ meant' \in Seq(Char)
      BY <1>0, <2>1
    <2>6. Tracked(key)
      BY <2>1, <2>2, <2>4 DEF Tracked
    <2> QED
      BY <2>1, <2>2, <2>5, <2>6, SendChars
  <1>2. ASSUME NEW key \in Modifiers, ReleaseModifier(key) PROVE KInv'
    <2>0. PICK ev : ev = IF {LShift, RShift} \subseteq held /\ key # Ctrl
                           THEN "shifts" ELSE "none"
      OBVIOUS
    <2>1. key \in held /\ held' = held \ {key} /\ UNCHANGED meant /\ Send(Released(key), ev)
      BY <1>2, <2>0 DEF ReleaseModifier
    <2>2. Released(key) \in Codes \cap 0 .. 255 /\ Released(key) \notin CharKeys
      BY CodeKinds, Zenon
    <2>3. event' = "none" => ev = "none"
      BY <2>0, <2>1 DEF Send
    <2>4. key = LShift \/ key = RShift \/ key = Ctrl
      BY DEF Modifiers
    <2>5. /\ ev = "none" =>
               (held' \intersect {LShift, RShift} # {}) = Shifted(S, Released(key))
          /\ (Ctrl \in held') = Controlled(Ctrl \in held, Released(key))
      <3> DEFINE T == held' \intersect {LShift, RShift} # {}
                 D == Ctrl \in held'
      <3>1. /\ key \in {LShift, RShift} => (ev = "none" => ~T) /\ (D <=> Ctrl \in held)
            /\ key = Ctrl => (T <=> S) /\ ~D
        BY <2>0, <2>1 DEF LShift, RShift, Ctrl
      <3>2. T \in BOOLEAN /\ D \in BOOLEAN /\ S \in BOOLEAN /\ (Ctrl \in held) \in BOOLEAN
        OBVIOUS
      <3> HIDE DEF T, D, S
      <3>3. (ev = "none" => T = Shifted(S, Released(key)))
            /\ D = Controlled(Ctrl \in held, Released(key))
        BY <2>4, <3>1, <3>2, ModifierCodes, Zenon
      <3> QED
        BY <3>3 DEF T, D
    <2>6. held' \subseteq Modifiers /\ meant' \in Seq(Char) /\ ev \in {"none", "shifts", "outside"}
      BY <1>0, <2>0, <2>1
    <2>7. event' = "none" => Tracked(Released(key))
      BY <2>1, <2>2, <2>3, <2>5, Zenon DEF Tracked
    <2> QED
      BY <2>1, <2>2, <2>6, <2>7, SendChars
  <1>3. ASSUME NEW key \in CharKeys, Press(key) PROVE KInv'
    <2>1. UNCHANGED held /\ Send(key, "none")
          /\ meant' = Append(meant, translate(key, S, Ctrl \in held))
      BY <1>3 DEF Press, translate
    <2>2. key \in Codes \cap 0 .. 255
      BY CodeKinds
    <2>3. translate(key, S, Ctrl \in held) \in Char
      BY CodesAssumption DEF translate, Char, Form
    <2>4. meant' \in Seq(Char)
      BY <1>0, <2>1, <2>3, AppendFacts, Zenon
    <2>5. Shifted(S, key) = S /\ Controlled(Ctrl \in held, key) = (Ctrl \in held)
      BY ModifierCodes
    <2>6. Tracked(key)
      BY <2>1, <2>5 DEF Tracked
    <2> QED
      BY <1>0, <2>1, <2>2, <2>4, <2>6, SendChars
  <1>4. ASSUME NEW code \in OtherKeys \union {Released(k) : k \in CharKeys}, Other(code)
        PROVE  KInv'
    <2>1. CASE code \notin Outside
      <3>1. UNCHANGED <<held, meant>> /\ Send(code, "none")
        BY <1>4, <2>1 DEF Other
      <3>2. code \in Codes \cap 0 .. 255 /\ code \notin CharKeys
        BY <2>1, CodesAssumption DEF Codes, Released
      <3>3. Shifted(S, code) = S /\ Controlled(Ctrl \in held, code) = (Ctrl \in held)
        BY ModifierCodes
      <3>4. Tracked(code)
        BY <3>1, <3>2, <3>3 DEF Tracked
      <3> QED
        BY <1>0, <3>1, <3>2, <3>4, SendChars
    <2>2. CASE code \in Outside
      <3>1. UNCHANGED <<held, meant>> /\ Send(code, "outside") /\ code \in 0 .. 255
        BY <1>4, <2>2 DEF Other, Outside
      <3>2. event' # "none"
        BY <3>1 DEF Send
      <3>3. TypeOK'
        <4>1. /\ irr' \subseteq {Timer, Keyboard} /\ buffer' \in Seq(0 .. 255)
              /\ Len(buffer') <= ControllerSize /\ sent' \in 0 .. MaxCodes
              /\ event' \in {"none", "shifts", "outside", "dropped"}
              /\ UNCHANGED <<isr, iflag, stack, halted, driver, clock>>
          BY <1>0, <3>1, SendTypes, Zenon
        <4> QED
          BY <1>0, <3>1, <4>1, Zenon DEF TypeOK, driver, clock
      <3> QED
        BY <3>2, <3>3 DEF KInv
    <2> QED
      BY <2>1, <2>2
  <1> QED
    BY <1>1, <1>2, <1>3, <1>4

LEMMA AlwaysKInv == Spec => []KInv
  <1>1. KInv /\ [Next]_vars => KInv'
    <2> SUFFICES ASSUME KInv, [Next]_vars PROVE KInv'
      OBVIOUS
    <2>1. IInv'
      BY StepInv DEF KInv
    <2>2. CASE UNCHANGED vars
      <3>1. UNCHANGED <<device, irr, buffer, driver, clock, stack, halted>>
        BY <2>2 DEF vars
      <3> QED
        BY <2>1, <3>1, QuietStep DEF Pending, At, KInv, TypeOK
    <2>3. CASE Next
      BY <2>1, <2>3, QuietSteps, CallbackStep, ReadStep, PersonStep DEF Next
    <2> QED
      BY <2>2, <2>3
  <1> QED
    BY <1>1, KInit, PTL DEF Spec

\* For any keys, any size of the controller and any delay of the handlers,
\* keyboard_handler passes on the characters that were typed, in their order and
\* each once, under the modifiers held when the key went down.
THEOREM KeysPassedAsTyped == Spec => []KeysAsTyped
  <1>1. KInv => KeysAsTyped
    <2> SUFFICES ASSUME KInv, event = "none" PROVE IsPrefix(given, meant)
      BY DEF KInv, KeysAsTyped
    <2>1. given \in Seq(Char) /\ meant \in Seq(Char) /\ Pending \in {0, 1} /\ CharsInStep
      BY DEF KInv, TypeOK, Pending
    <2>2. Len(given) <= Len(meant) /\ \A j \in 1 .. Len(given) : given[j] = meant[j]
      BY <2>1 DEF CharsInStep
    <2>3. given = SubSeq(meant, 1, Len(given))
      BY <2>1, <2>2
    <2> QED
      BY <2>2, <2>3 DEF IsPrefix
  <1> QED
    BY <1>1, AlwaysKInv, PTL
=============================================================================
