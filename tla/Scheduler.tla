----------------------------- MODULE Scheduler -----------------------------
(***************************************************************************)
(* The round-robin scheduler and the context switch, as the building       *)
(* blocks of kernel operations (kernel/src/core/scheduler.cpp, the switch  *)
(* in kernel/src/core/process.cpp and kernel/src/asm/context.asm).         *)
(*                                                                         *)
(* kernel_main initializes the scheduler before it counts the processors,  *)
(* so there is one run queue, and with the RoundRobin policy.  The timer   *)
(* runs behind an interrupt gate: tick_on_cpu finds interrupts disabled    *)
(* and returns, so a process loses the processor only where kernel code    *)
(* calls schedule().                                                       *)
(*                                                                         *)
(* Processes are identified by their pid.  The processor executes a stack  *)
(* of kernel frames, <<>> being code outside the kernel; the registers     *)
(* saved in a process stand for the stack it resumes with.                 *)
(***************************************************************************)
EXTENDS Integers, Sequences

CONSTANT MaxPid   \* bound on the pids that create_process hands out

Pid == 1 .. MaxPid
NoProcess == 0    \* the null Process pointer

VARIABLES
    process_queue,      \* m_runqueues[0].process_queue
    current_index,      \* m_runqueues[0].current_index, counted from 0
    rq_current,         \* m_runqueues[0].current
    state,              \* Process::state of every pid
    m_current_process,  \* ProcessManager::m_current_process
    registers,          \* Process::registers: the stack a process resumes with
    cpu                 \* the stack the processor is executing

schedVars == <<process_queue, current_index, rq_current, state,
               m_current_process, registers, cpu>>

\* The states that the kernel operations leave a process in; "None" marks a
\* pid that has no Process object.
ProcessState == {"Running", "Ready", "Waiting", "None"}

\* Registers that were never saved: resuming them jumps to address 0 with a
\* null stack, which faults for good.
Zero == <<[op |-> "zero", arg |-> 0]>>

Members(s) == {s[i] : i \in DOMAIN s}

-----------------------------------------------------------------------------
\* The shift loops that close the gap at position j (counted from 1).
ShiftOut(s, j) == [i \in 1 .. Len(s) - 1 |-> IF i < j THEN s[i] ELSE s[i + 1]]

FirstPos(s, p) ==
    CHOOSE j \in DOMAIN s : s[j] = p /\ \A i \in 1 .. j - 1 : s[i] # p

Without(s, p) == IF p \in Members(s) THEN ShiftOut(s, FirstPos(s, p)) ELSE s

\* A mutant of add_process: the scan for the process is missing.
AlwaysAppend(queue, p) == Append(queue, p)

\* The queue after add_process: a process that is queued already stays put.
Added(queue, p) == IF p \in Members(queue) THEN queue ELSE Append(queue, p)

\* A mutant of remove_process: the index does not follow.
IndexKept(queue, index, p) == index

\* The index after remove_process: it follows the elements that move down.
\* FirstPos counts from 1, current_index from 0.
IndexAfter(queue, index, p) ==
    IF p \in Members(queue) /\ index >= FirstPos(queue, p) - 1 /\ index > 0
      THEN index - 1
      ELSE index

\* A mutant of remove_process: the run queue's current process is not reset.
CurrentKept(current, p) == current

CurrentAfter(current, p) == IF current = p THEN NoProcess ELSE current

-----------------------------------------------------------------------------
(***************************************************************************)
(* schedule() and what it calls.  The operands are the values that the     *)
(* variables have when the caller reaches it: queue, index and current of  *)
(* the run queue, the states st, the current process mcur; cont is the     *)
(* stack that the caller continues with.                                   *)
(***************************************************************************)

\* switch_context: save the running stack in the old process, load the new.
switch_context(old, new, cont) ==
    /\ registers' = IF old = NoProcess THEN registers
                                       ELSE [registers EXCEPT ![old] = cont]
    /\ cpu' = registers[new]

\* No switch: the caller goes on.
Continue(cont) == cpu' = cont /\ UNCHANGED registers

switch_to_process(p, st, mcur, cont) ==
    /\ m_current_process' = p
    /\ IF mcur = p
         THEN state' = st /\ Continue(cont)
         ELSE /\ state' =
                   [q \in Pid |->
                      IF q = p THEN "Running"
                      ELSE IF q = mcur /\ st[q] = "Running" THEN "Ready"
                      ELSE st[q]]
              /\ switch_context(mcur, p, cont)

\* A mutant of select_next_process: every search starts at the front.
PositionFromFront(queue, index, d) == (d - 1) % Len(queue)

\* The places the do-while loop of select_next_process visits, in its order:
\* d steps after index, wrapping round, for d in 1 .. Len(queue).
Position(queue, index, d) == (index + d) % Len(queue)

ReadyDistances(queue, index, st) ==
    {d \in 1 .. Len(queue) : st[queue[Position(queue, index, d) + 1]] = "Ready"}

\* No process is ready: the loop stops when it is back where it started,
\* which it never is when index lies outside the queue.
SelectNone(queue, index, st) ==
    /\ ReadyDistances(queue, index, st) = {}
    /\ Len(queue) = 0 \/ index < Len(queue)

\* schedule_on_cpu: the process that loses the processor becomes Ready,
\* whatever its state was.
Dispatched(next, current, st) ==
    [p \in Pid |-> IF p = next THEN "Running"
                   ELSE IF p = current THEN "Ready" ELSE st[p]]

schedule(queue, index, current, st, mcur, cont) ==
    /\ process_queue' = queue
    /\ \/ /\ SelectNone(queue, index, st)
          /\ current_index' = index
          /\ rq_current' = current
          /\ state' = st
          /\ m_current_process' = mcur
          /\ Continue(cont)
       \/ \E d \in ReadyDistances(queue, index, st) :
            /\ \A e \in ReadyDistances(queue, index, st) : d <= e
            /\ current_index' = Position(queue, index, d)
            /\ LET next == queue[Position(queue, index, d) + 1] IN
               /\ rq_current' = next
               /\ IF current = next
                    THEN /\ state' = st
                         /\ m_current_process' = mcur
                         /\ Continue(cont)
                    ELSE switch_to_process(next, Dispatched(next, current, st),
                                           mcur, cont)
=============================================================================
