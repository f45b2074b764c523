---------------------------- MODULE Interrupts ----------------------------
(***************************************************************************)
(* Hardware interrupts from the device to the code that handles them: the  *)
(* interrupt controller and the gates (kernel/src/hw/pic.cpp, idt.cpp,     *)
(* kernel/src/asm/isr.asm), the timer (kernel/src/hw/timer.cpp,            *)
(* kernel/src/asm/timer.asm, Scheduler::tick) and the keyboard driver      *)
(* (kernel/src/drivers/keyboard.cpp), from the sti of kernel_main on.      *)
(*                                                                         *)
(* The 8259, the interval timer and the keyboard controller are external:  *)
(* a request is latched until it is acknowledged, one in service holds     *)
(* back its equals and inferiors until an end-of-interrupt, and the        *)
(* controller raises its line once for every code that it holds.  The      *)
(* processor is a stack of handler frames over the hlt loop; each step of  *)
(* a frame is the code up to the next port or call, and devices act in     *)
(* between.                                                                *)
(*                                                                         *)
(* A character is what a key gives: its scan code and the table it was     *)
(* taken from ("plain", "shifted"), or "control".                          *)
(***************************************************************************)
EXTENDS Integers, Sequences, FiniteSetsExt

CONSTANTS
    CharKeys,            \* scan codes of the keys with a character in use
    OtherKeys,           \* scan codes of the keys with no character in use
    MaxCodes,            \* bound on the codes that the keyboard sends
    ControllerSize,      \* codes that the keyboard controller holds
    LOAD_BALANCE_PERIOD, \* ticks between two calls of load_balance
    TickSpan             \* timer_ticks is counted modulo this number

\* Parts of a sequence.
Last(s) == s[Len(s)]
Front(s) == SubSeq(s, 1, Len(s) - 1)
IsPrefix(s, t) == Len(s) <= Len(t) /\ s = SubSeq(t, 1, Len(s))

Timer == 0       \* the request lines
Keyboard == 1

LShift == 42     \* 0x2A, released 0xAA
RShift == 54     \* 0x36, released 0xB6
Ctrl == 29       \* 0x1D, released 0x9D
Modifiers == {LShift, RShift, Ctrl}
Released(key) == key + 128

ASSUME CodesAssumption ==
    /\ CharKeys \subseteq (1 .. 57) \ (Modifiers \union {56})
    /\ OtherKeys \subseteq (58 .. 127) \union {56}
    /\ ControllerSize \in Nat \ {0} /\ MaxCodes \in Nat
    /\ LOAD_BALANCE_PERIOD \in Nat \ {0} /\ TickSpan \in Nat \ {0}

VARIABLES
    irr, isr,        \* the controller: lines requested, lines in service
    iflag,           \* RFLAGS.IF: the processor takes interrupts
    stack,           \* frames of the handlers that are running
    halted,          \* the processor executed cli; hlt
    buffer,          \* codes in the keyboard controller
    shift_pressed, ctrl_pressed,
    timer_ticks,
    m_load_balance_counter,
    rescheduled,     \* tick_on_cpu went past its test of the interrupt flag
    given,           \* characters passed to keyboard_callback
    \* The person at the keyboard:
    held,            \* modifier keys that are down
    meant,           \* characters typed, by the modifiers held at the time
    sent,            \* number of codes sent
    event            \* what the driver cannot get right, see below

device == <<held, meant, sent, event>>
driver == <<shift_pressed, ctrl_pressed, given>>
clock == <<timer_ticks, m_load_balance_counter, rescheduled>>
vars == <<irr, isr, iflag, stack, halted, buffer, driver, clock, device>>

Letters == (16 .. 25) \union (30 .. 38) \union (44 .. 50)

\* The codes below 60 whose entry is 0 in both tables.
Blank == Modifiers \union {0, 56}

\* The tables have 58 entries, the test lets 58 and 59 through.
Outside == {58, 59}

Form == {"plain", "shifted", "control"}
Char == [key : 0 .. 59, form : Form]
NoChar == [key |-> 0, form |-> "plain"]

Frame == [at : {"timer_callback", "timer_eoi", "isr_handler",
                "keyboard_handler", "callback", "eoi"},
          c : Char, saved : BOOLEAN]

-----------------------------------------------------------------------------
\* init_pic leaves the timer and the keyboard unmasked, requests latched
\* since then wait; the codes are those typed while interrupts were off.
Init ==
    /\ irr \in SUBSET {Timer} /\ isr = {}
    /\ iflag = FALSE /\ stack = <<>> /\ halted = FALSE
    /\ buffer = <<>>
    /\ shift_pressed = FALSE /\ ctrl_pressed = FALSE /\ given = <<>>
    /\ timer_ticks = 0 /\ m_load_balance_counter = 0 /\ rescheduled = FALSE
    /\ held = {} /\ meant = <<>> /\ sent = 0 /\ event = "none"

\* A mutant of the gates: a trap gate leaves the interrupt flag set.
trap_gate(irq) == TRUE

\* init_idt and init_timer install interrupt gates: the flag is cleared.
gate_keeps_flag(irq) == FALSE

\* init_timer puts timer_handler in vector 32, init_idt isr33 in vector 33.
entry(irq) == IF irq = Timer THEN "timer_callback" ELSE "isr_handler"

\* The non-specific end-of-interrupt: the first line in service retires.
EOI(in_service) ==
    IF in_service = {} THEN {} ELSE in_service \ {Min(in_service)}

sti ==
    /\ ~iflag /\ stack = <<>> /\ ~halted
    /\ iflag' = TRUE
    /\ UNCHANGED <<irr, isr, stack, halted, buffer, driver, clock, device>>

\* The processor takes the first line that none in service holds back.
Deliver(irq) ==
    /\ iflag /\ ~halted
    /\ irq \in irr
    /\ \A line \in isr \union (irr \ {irq}) : irq < line
    /\ irr' = irr \ {irq}
    /\ isr' = isr \union {irq}
    /\ stack' = Append(stack, [at |-> entry(irq), c |-> NoChar, saved |-> iflag])
    /\ iflag' = gate_keeps_flag(irq)
    /\ UNCHANGED <<halted, buffer, driver, clock, device>>

-----------------------------------------------------------------------------
(***************************************************************************)
(* Steps of the frame on top of the stack.                                 *)
(***************************************************************************)
Running(at) == ~halted /\ stack # <<>> /\ Last(stack).at = at

GoTo(at, c) == stack' = Front(stack) \o <<[Last(stack) EXCEPT !.at = at, !.c = c]>>

iretq == stack' = Front(stack) /\ iflag' = Last(stack).saved

\* tick_on_cpu returns when interrupts are off.
tick_on_cpu == rescheduled' = (rescheduled \/ iflag)

\* Scheduler::tick.  There is one run queue, and load_balance returns when
\* the longest and the shortest differ by at most one.
tick ==
    /\ tick_on_cpu
    /\ m_load_balance_counter' =
         IF m_load_balance_counter + 1 >= LOAD_BALANCE_PERIOD
           THEN 0 ELSE m_load_balance_counter + 1

timer_callback ==
    /\ Running("timer_callback")
    /\ timer_ticks' = (timer_ticks + 1) % TickSpan
    /\ tick
    /\ GoTo("timer_eoi", NoChar)
    /\ UNCHANGED <<irr, isr, iflag, halted, buffer, driver, device>>

timer_eoi ==
    /\ Running("timer_eoi")
    /\ isr' = EOI(isr)
    /\ iretq
    /\ UNCHANGED <<irr, halted, buffer, driver, clock, device>>

\* A mutant of isr_handler: it leaves the end-of-interrupt to the driver.
isr_handler_no_eoi ==
    /\ Running("isr_handler")
    /\ GoTo("keyboard_handler", NoChar)
    /\ UNCHANGED <<irr, isr, iflag, halted, buffer, driver, clock, device>>

isr_handler ==
    /\ Running("isr_handler")
    /\ isr' = EOI(isr)
    /\ GoTo("keyboard_handler", NoChar)
    /\ UNCHANGED <<irr, iflag, halted, buffer, driver, clock, device>>

\* current_map[scancode] and the conversion of letters under control.
translate(code, shift, control) ==
    [key |-> code, form |-> IF control /\ code \in Letters THEN "control"
                            ELSE IF shift THEN "shifted" ELSE "plain"]

\* inb(0x60): the line falls, and rises again for the next code.
inb ==
    /\ buffer' = Tail(buffer)
    /\ irr' = IF Len(buffer) > 1 THEN irr \union {Keyboard} ELSE irr

\* A mutant of keyboard_handler: the right shift key is not seen released.
modifiers_left_only(code) ==
    /\ shift_pressed' = (IF code \in {LShift, RShift} THEN TRUE
                         ELSE IF code = Released(LShift) THEN FALSE
                         ELSE shift_pressed)
    /\ ctrl_pressed' = (IF code = Ctrl THEN TRUE
                        ELSE IF code = Released(Ctrl) THEN FALSE
                        ELSE ctrl_pressed)

modifiers(code) ==
    /\ shift_pressed' = (IF code \in {LShift, RShift} THEN TRUE
                         ELSE IF code \in {Released(LShift), Released(RShift)}
                                THEN FALSE
                         ELSE shift_pressed)
    /\ ctrl_pressed' = (IF code = Ctrl THEN TRUE
                        ELSE IF code = Released(Ctrl) THEN FALSE
                        ELSE ctrl_pressed)

\* The callback is made for a character other than 0.  What lies behind the
\* tables may be one or not.
continuations(code) ==
    (IF code < 60 /\ code \notin Blank THEN {"callback"} ELSE {"eoi"})
      \union (IF code \in Outside THEN {"eoi"} ELSE {})

\* A mutant of keyboard_handler: it returns without reading the port.
keyboard_handler_unread ==
    /\ Running("keyboard_handler")
    /\ buffer # <<>>
    /\ iretq
    /\ UNCHANGED <<irr, isr, halted, buffer, driver, clock, device>>

\* keyboard_handler up to the callback: the modifiers return at once, codes
\* without a character go on to its end-of-interrupt.
keyboard_handler ==
    /\ Running("keyboard_handler")
    /\ buffer # <<>>
    /\ inb
    /\ LET code == Head(buffer) IN
         /\ modifiers(code)
         /\ IF code \in Modifiers \union {Released(k) : k \in Modifiers}
              THEN iretq
              ELSE /\ \E at \in continuations(code) :
                        GoTo(at, IF at = "callback"
                                   THEN translate(code, shift_pressed, ctrl_pressed)
                                   ELSE NoChar)
                   /\ UNCHANGED iflag
    /\ UNCHANGED <<isr, halted, given, clock, device>>

\* keyboard_callback: whatever the shell, the pager or the editor do with
\* the character happens here, with interrupts off.
callback ==
    /\ Running("callback")
    /\ given' = Append(given, Last(stack).c)
    /\ GoTo("eoi", NoChar)
    /\ UNCHANGED <<irr, isr, iflag, halted, buffer, shift_pressed, ctrl_pressed,
                   clock, device>>

\* The character makes a command run into an exception (isr_handler ends in
\* cli; hlt) or shut down.
callback_halts ==
    /\ Running("callback")
    /\ given' = Append(given, Last(stack).c)
    /\ halted' = TRUE
    /\ iflag' = FALSE
    /\ UNCHANGED <<irr, isr, stack, buffer, shift_pressed, ctrl_pressed, clock,
                   device>>

\* The end-of-interrupt of keyboard_handler itself.
eoi ==
    /\ Running("eoi")
    /\ isr' = EOI(isr)
    /\ iretq
    /\ UNCHANGED <<irr, halted, buffer, driver, clock, device>>

-----------------------------------------------------------------------------
(***************************************************************************)
(* The devices.  Three things the driver does not get right, after which   *)
(* nothing is claimed of the characters: "shifts", both shift keys were    *)
(* down and one came up; "outside", a key whose code lies behind the       *)
(* tables; "dropped", the controller was full.                             *)
(***************************************************************************)

\* A tick of the interval timer.  A period of 10 ms outlasts timer_handler.
PitTick ==
    /\ \A i \in DOMAIN stack : stack[i].at \notin {"timer_callback", "timer_eoi"}
    /\ irr' = irr \union {Timer}
    /\ UNCHANGED <<isr, iflag, stack, halted, buffer, driver, clock, device>>

Send(code, ev) ==
    /\ sent < MaxCodes
    /\ sent' = sent + 1
    /\ IF Len(buffer) < ControllerSize
         THEN /\ buffer' = Append(buffer, code)
              /\ irr' = IF buffer = <<>> THEN irr \union {Keyboard} ELSE irr
              /\ event' = IF event = "none" THEN ev ELSE event
         ELSE /\ event' = IF event = "none" THEN "dropped" ELSE event
              /\ UNCHANGED <<buffer, irr>>
    /\ UNCHANGED <<isr, iflag, stack, halted, driver, clock>>

PressModifier(key) ==
    /\ key \notin held
    /\ held' = held \union {key}
    /\ Send(key, "none")
    /\ UNCHANGED meant

ReleaseModifier(key) ==
    /\ key \in held
    /\ held' = held \ {key}
    /\ Send(Released(key), IF {LShift, RShift} \subseteq held /\ key # Ctrl
                             THEN "shifts" ELSE "none")
    /\ UNCHANGED meant

\* The person means a capital when a shift key is down, as they press it.
Press(key) ==
    /\ meant' = Append(meant,
                       [key |-> key,
                        form |-> IF Ctrl \in held /\ key \in Letters THEN "control"
                                 ELSE IF held \intersect {LShift, RShift} # {}
                                   THEN "shifted" ELSE "plain"])
    /\ Send(key, "none")
    /\ UNCHANGED held

\* Any other code: a key coming up, a function key, Caps Lock.
Other(code) ==
    /\ Send(code, IF code \in Outside THEN "outside" ELSE "none")
    /\ UNCHANGED <<held, meant>>

Next ==
    \/ sti
    \/ \E irq \in {Timer, Keyboard} : Deliver(irq)
    \/ timer_callback \/ timer_eoi
    \/ isr_handler \/ keyboard_handler \/ callback \/ callback_halts \/ eoi
    \/ PitTick
    \/ \E key \in Modifiers : PressModifier(key) \/ ReleaseModifier(key)
    \/ \E key \in CharKeys : Press(key)
    \/ \E code \in OtherKeys \union {Released(k) : k \in CharKeys} : Other(code)

Spec == Init /\ [][Next]_vars

\* The processor goes on executing, and a command returns.  A request waits
\* for an instruction, the next tick of the timer comes 10 ms later: the
\* keyboard gets its turn although the timer goes first.
Fairness ==
    /\ WF_vars(sti) /\ WF_vars(Deliver(Timer)) /\ SF_vars(Deliver(Keyboard))
    /\ WF_vars(timer_callback) /\ WF_vars(timer_eoi)
    /\ WF_vars(isr_handler) /\ WF_vars(keyboard_handler)
    /\ WF_vars(callback) /\ WF_vars(eoi)

FairSpec == Spec /\ Fairness

-----------------------------------------------------------------------------
(***************************************************************************)
(* Properties.                                                             *)
(***************************************************************************)

\* The values of the variables.
TypeOK ==
    /\ irr \subseteq {Timer, Keyboard} /\ isr \subseteq {Timer, Keyboard}
    /\ iflag \in BOOLEAN /\ halted \in BOOLEAN /\ rescheduled \in BOOLEAN
    /\ stack \in Seq(Frame)
    /\ buffer \in Seq(0 .. 255) /\ Len(buffer) <= ControllerSize
    /\ shift_pressed \in BOOLEAN /\ ctrl_pressed \in BOOLEAN
    /\ given \in Seq(Char) /\ meant \in Seq(Char)
    /\ timer_ticks \in 0 .. TickSpan - 1
    /\ m_load_balance_counter \in 0 .. LOAD_BALANCE_PERIOD - 1
    /\ held \subseteq Modifiers /\ sent \in 0 .. MaxCodes
    /\ event \in {"none", "shifts", "outside", "dropped"}

\* The timer never takes the processor from the code it interrupts: when
\* tick_on_cpu tests the interrupt flag it finds it cleared, whatever was
\* running.  Scheduler and Kernel take this as a fact.
TimerNeverPreempts == ~rescheduled

\* Handlers do not nest, and every end-of-interrupt retires the line whose
\* handler sends it: the second one of keyboard_handler finds nothing in
\* service, so that it cannot retire a timer interrupt.
EachEoiItsOwn ==
    /\ Len(stack) <= 1
    /\ isr = IF Running("timer_callback") \/ Running("timer_eoi") THEN {Timer}
             ELSE IF Running("isr_handler") THEN {Keyboard}
             ELSE {}

\* Every code in the keyboard controller has its request, pending or being
\* handled, and no handler reads the port when nothing is there.
CodeHasRequest ==
    (buffer # <<>>) <=> \/ Keyboard \in irr
                        \/ Running("isr_handler") \/ Running("keyboard_handler")

\* Every variable has its type, and the driver passes on the characters in the
\* order in which they were typed and each once, with the shift and control
\* keys as they were when the key went down, however late the handler runs.
KeysAsTyped == TypeOK /\ (event = "none" => IsPrefix(given, meant))

\* A code that the keyboard sends is read in the end, unless a command halts
\* the processor: no path through the handlers leaves the line in service.
KeysAreRead == (buffer # <<>>) ~> (buffer = <<>> \/ halted)
=============================================================================
