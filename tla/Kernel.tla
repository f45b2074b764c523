------------------------------- MODULE Kernel -------------------------------
(***************************************************************************)
(* Processes, the run queue and message queues on one processor            *)
(* (kernel/src/core/process.cpp, scheduler.cpp, ipc.cpp, syscall.cpp and   *)
(* the shell commands of kernel/src/shell/commands that create and kill    *)
(* processes).                                                             *)
(*                                                                         *)
(* The current process makes system calls; the keyboard interrupt runs     *)
(* shell commands on top of whatever the processor executes.  A message    *)
(* queue object is identified by a serial number, so that a queue created  *)
(* in a reused slot is a new object.                                       *)
(*                                                                         *)
(* A waiter list keeps pointers to processes, and a suspended receive a    *)
(* pointer to its queue, after those were deleted.  dangling records that  *)
(* such a pointer was followed; nothing is said about what comes after.    *)
(***************************************************************************)
EXTENDS Scheduler

CONSTANTS
    MaxQueue,       \* bound on the number of MessageQueue objects created
    Name,           \* queue names
    MAX_MESSAGES,   \* MAX_MESSAGES_PER_QUEUE (64)
    MaxWaiters      \* bound on the length of a waiter list

ASSUME KernelAssumption ==
    /\ MaxPid \in Nat \ {0}
    /\ MaxQueue \in Nat
    /\ MAX_MESSAGES \in Nat
    /\ MaxWaiters \in Nat
    /\ Name # {}

VARIABLES
    process_list,      \* the list from m_first_process, newest first
    m_next_pid,
    m_message_queues,  \* the slots: a queue object, or NoQueue
    m_next_queue_id,
    next_object,       \* serial number of the next MessageQueue object
    name,              \* MessageQueue::m_name of every object
    messages,          \* number of messages in MessageQueue::m_messages
    waiters,           \* MessageQueue::m_waiting_processes
    waiting_on,        \* Process::waiting_on of every pid
    dangling           \* a pointer to a deleted object was followed

procVars == <<process_list, m_next_pid>>
ipcVars == <<m_message_queues, m_next_queue_id, next_object, name, messages,
             waiters, waiting_on>>
vars == <<schedVars, procVars, ipcVars, dangling>>

Queue == 1 .. MaxQueue
NoQueue == 0
LiveProcess == Members(process_list)
LiveQueue == Members(m_message_queues) \ {NoQueue}

\* The frames a kernel stack is made of: a receive that waits for schedule()
\* to return (ipc.cpp line 83), and the terminate_process calls that a shell
\* command still has to make.
Receiving(q) == [op |-> "receive", arg |-> q]
Killing(p) == [op |-> "kill", arg |-> p]

\* Code outside the kernel runs; a system call needs a current process.
InUser == cpu = <<>> /\ ~dangling
InCall == InUser /\ m_current_process # NoProcess

\* The top frame of the processor's stack.
Executing(op) == cpu # <<>> /\ Head(cpu).op = op /\ ~dangling

\* The keyboard interrupt is taken outside the handler itself: its gate
\* disables interrupts until the handler returns or switches away.
Interruptible == InUser \/ Executing("receive")

-----------------------------------------------------------------------------
\* create_process, when every kernel stack page gets a frame.
create_process(regs, cont) ==
    LET p == m_next_pid IN
    /\ p \in Pid
    /\ m_next_pid' = p + 1
    /\ process_list' = <<p>> \o process_list
    /\ m_current_process' =
         IF m_current_process = NoProcess THEN p ELSE m_current_process
    /\ process_queue' = Added(process_queue, p)
    /\ state' = [state EXCEPT ![p] = "Ready"]
    /\ registers' = [registers EXCEPT ![p] = regs]
    /\ cpu' = cont
    /\ UNCHANGED <<current_index, rq_current, ipcVars, dangling>>

\* create_process, when a frame is missing: only the pid is used up.
create_process_fails(cont) ==
    /\ m_next_pid \in Pid
    /\ m_next_pid' = m_next_pid + 1
    /\ cpu' = cont
    /\ UNCHANGED <<process_list, process_queue, current_index, rq_current,
                   state, m_current_process, registers, ipcVars, dangling>>

\* terminate_process: unlink p from the list and the run queue, and hand the
\* processor on when p was the current process.  An unknown pid is ignored.
\* Waiter lists are not looked at.
terminate_process(p, cont) ==
    LET list    == Without(process_list, p)
        queue   == Without(process_queue, p)
        index   == IndexAfter(process_queue, current_index, p)
        current == CurrentAfter(rq_current, p)
        st      == [state EXCEPT ![p] = "None"]
    IN
    /\ UNCHANGED <<m_next_pid, ipcVars, dangling>>
    /\ IF p \notin LiveProcess
         THEN /\ Continue(cont)
              /\ UNCHANGED <<process_list, process_queue, current_index,
                             rq_current, state, m_current_process>>
       ELSE /\ process_list' = list
            /\ IF m_current_process = p /\ list # <<>>
                 THEN schedule(queue, index, current, st, list[1], cont)
                 ELSE /\ process_queue' = queue
                      /\ current_index' = index
                      /\ rq_current' = current
                      /\ state' = st
                      /\ m_current_process' = IF m_current_process = p
                                                THEN NoProcess
                                                ELSE m_current_process
                      /\ Continue(cont)

-----------------------------------------------------------------------------
\* sys_fork: the child gets the registers last saved in the parent.  When a
\* frame is missing for the child's stack or for a copied page, the child is
\* discarded again.
sys_fork ==
    /\ InCall
    /\ \/ create_process(registers[m_current_process], cpu)
       \/ create_process_fails(cpu)

sys_exit == InCall /\ terminate_process(m_current_process, cpu)

\* sys_execve: on success the saved registers name the entry point (the
\* switch_to_process that follows finds the process current already); when
\* the stack cannot be built the process is terminated.
sys_execve ==
    /\ InCall
    /\ \/ /\ registers' = [registers EXCEPT ![m_current_process] = <<>>]
          /\ UNCHANGED <<process_queue, current_index, rq_current, state,
                         m_current_process, cpu, procVars, ipcVars, dangling>>
       \/ terminate_process(m_current_process, cpu)

sys_sched_yield ==
    /\ InCall
    /\ schedule(process_queue, current_index, rq_current, state,
                m_current_process, cpu)
    /\ UNCHANGED <<procVars, ipcVars, dangling>>

-----------------------------------------------------------------------------
\* create_message_queue: refused for a name in use; takes the first empty
\* slot, or a new one.
NameInUse(n) == \E q \in LiveQueue : name[q] = n

FreeSlots == {i \in DOMAIN m_message_queues : m_message_queues[i] = NoQueue}

create_message_queue(n) ==
    LET q == next_object IN
    /\ q \in Queue
    /\ ~NameInUse(n)
    /\ next_object' = q + 1
    /\ name' = [name EXCEPT ![q] = n]
    /\ \/ /\ FreeSlots = {}
          /\ m_message_queues' = Append(m_message_queues, q)
          /\ m_next_queue_id' = m_next_queue_id + 1
       \/ \E i \in FreeSlots :
            /\ \A j \in FreeSlots : i <= j
            /\ m_message_queues' = [m_message_queues EXCEPT ![i] = q]
            /\ UNCHANGED m_next_queue_id
    /\ UNCHANGED <<messages, waiters, waiting_on>>

sys_msg_create(n) ==
    InCall /\ create_message_queue(n) /\ UNCHANGED <<schedVars, procVars, dangling>>

\* An id names a slot; the calls below return when the slot is empty.
ValidId(id) ==
    /\ id > 0
    /\ id < m_next_queue_id
    /\ id <= Len(m_message_queues)
    /\ m_message_queues[id] # NoQueue

\* A pointer to a deleted object is followed.
FollowDangling == dangling' = TRUE /\ UNCHANGED <<schedVars, procVars, ipcVars>>

\* The waiters of q that are still asleep on q.
AsleepOn(q, p) == state[p] = "Waiting" /\ waiting_on[p] = q

\* A mutant of ~MessageQueue: the sleeping waiters are not woken.
destroy_without_wakeup(id) ==
    /\ m_message_queues' = [m_message_queues EXCEPT ![id] = NoQueue]
    /\ messages' = [messages EXCEPT ![m_message_queues[id]] = 0]
    /\ waiters' = [waiters EXCEPT ![m_message_queues[id]] = <<>>]
    /\ UNCHANGED <<schedVars, procVars, m_next_queue_id, next_object, name,
                   waiting_on, dangling>>

\* destroy_message_queue and ~MessageQueue: every waiter asleep on the queue
\* is made Ready.
destroy_message_queue(id) ==
    LET q == m_message_queues[id]
        woken == {p \in Members(waiters[q]) : AsleepOn(q, p)}
    IN
    \/ ~(Members(waiters[q]) \subseteq LiveProcess) /\ FollowDangling
    \/ /\ Members(waiters[q]) \subseteq LiveProcess
       /\ state' = [p \in Pid |-> IF p \in woken THEN "Ready" ELSE state[p]]
       /\ waiting_on' =
            [p \in Pid |-> IF p \in woken THEN NoQueue ELSE waiting_on[p]]
       /\ m_message_queues' = [m_message_queues EXCEPT ![id] = NoQueue]
       /\ messages' = [messages EXCEPT ![q] = 0]
       /\ waiters' = [waiters EXCEPT ![q] = <<>>]
       /\ UNCHANGED <<process_queue, current_index, rq_current,
                      m_current_process, registers, cpu, procVars,
                      m_next_queue_id, next_object, name, dangling>>

sys_msg_destroy(id) == InCall /\ ValidId(id) /\ destroy_message_queue(id)

-----------------------------------------------------------------------------
\* send_message: refused when the queue is full.  Only the first waiter is
\* considered; it is woken when it is still asleep on this queue.
\* add_process finds a woken process queued already.
send_message(q) ==
    LET first == Head(waiters[q]) IN
    /\ messages[q] < MAX_MESSAGES
    /\ IF waiters[q] # <<>> /\ first \notin LiveProcess
         THEN FollowDangling
       ELSE /\ messages' = [messages EXCEPT ![q] = @ + 1]
            /\ IF waiters[q] # <<>> /\ AsleepOn(q, first)
                 THEN /\ waiters' = [waiters EXCEPT ![q] = ShiftOut(@, 1)]
                      /\ state' = [state EXCEPT ![first] = "Ready"]
                      /\ waiting_on' = [waiting_on EXCEPT ![first] = NoQueue]
                      /\ process_queue' = Added(process_queue, first)
                 ELSE UNCHANGED <<waiters, state, waiting_on, process_queue>>
            /\ UNCHANGED <<current_index, rq_current, m_current_process,
                           registers, cpu, procVars, m_message_queues,
                           m_next_queue_id, next_object, name, dangling>>

sys_msg_send(id) ==
    InCall /\ ValidId(id) /\ send_message(m_message_queues[id])

\* receive_message, with a message to take.
take_message(q, cont) ==
    /\ messages' = [messages EXCEPT ![q] = @ - 1]
    /\ Continue(cont)
    /\ UNCHANGED <<process_queue, current_index, rq_current, state,
                   m_current_process, procVars, m_message_queues,
                   m_next_queue_id, next_object, name, waiters, waiting_on,
                   dangling>>

\* receive_message, waiting on an empty queue: the current process enters the
\* waiter list and calls schedule(), inside which it is suspended.
wait_for_message(q, p) ==
    /\ Len(waiters[q]) < MaxWaiters
    /\ waiting_on' = [waiting_on EXCEPT ![p] = q]
    /\ waiters' = [waiters EXCEPT ![q] = Append(@, p)]
    /\ schedule(process_queue, current_index, rq_current,
                [state EXCEPT ![p] = "Waiting"], p, <<Receiving(q)>> \o cpu)
    /\ UNCHANGED <<procVars, m_message_queues, m_next_queue_id, next_object,
                   name, messages, dangling>>

\* A call that does not wait returns from an empty queue with no effect.
sys_msg_receive(id) ==
    /\ InCall
    /\ ValidId(id)
    /\ LET q == m_message_queues[id] IN
       IF messages[q] > 0 THEN take_message(q, cpu)
                          ELSE wait_for_message(q, m_current_process)

\* schedule() has returned into receive_message, which counts the messages
\* again before it takes one.
resume_receive ==
    /\ Executing("receive")
    /\ LET q == Head(cpu).arg IN
       IF q \notin LiveQueue THEN FollowDangling
       ELSE IF messages[q] > 0 THEN take_message(q, Tail(cpu))
       ELSE /\ Continue(Tail(cpu))
            /\ UNCHANGED <<process_queue, current_index, rq_current, state,
                           m_current_process, procVars, ipcVars, dangling>>

-----------------------------------------------------------------------------
\* A shell command creates a process for itself and terminates it at the end;
\* pkill first terminates its target, any process but the shell.
shell_pid == 1

shell_command ==
    /\ Interruptible
    /\ \/ create_process(Zero, <<Killing(m_next_pid)>> \o cpu)
       \/ create_process_fails(cpu)

cmd_pkill(target) ==
    /\ Interruptible
    /\ target # shell_pid
    /\ \/ /\ target \in LiveProcess \cup {m_next_pid}
          /\ create_process(Zero,
                            <<Killing(target), Killing(m_next_pid)>> \o cpu)
       \/ /\ target \in LiveProcess
          /\ create_process_fails(<<Killing(target)>> \o cpu)

run_terminate ==
    Executing("kill") /\ terminate_process(Head(cpu).arg, Tail(cpu))

-----------------------------------------------------------------------------
\* The kernel after init_shell: the shell is the first and current process;
\* the scheduler has not run yet.
Init ==
    /\ process_list = <<shell_pid>>
    /\ m_next_pid = shell_pid + 1
    /\ process_queue = <<shell_pid>>
    /\ current_index = 0
    /\ rq_current = NoProcess
    /\ m_current_process = shell_pid
    /\ state = [p \in Pid |-> IF p = shell_pid THEN "Ready" ELSE "None"]
    /\ registers = [p \in Pid |-> Zero]
    /\ cpu = <<>>
    /\ m_message_queues = <<>>
    /\ m_next_queue_id = 1
    /\ next_object = 1
    /\ name = [q \in Queue |-> CHOOSE n \in Name : TRUE]
    /\ messages = [q \in Queue |-> 0]
    /\ waiters = [q \in Queue |-> <<>>]
    /\ waiting_on = [p \in Pid |-> NoQueue]
    /\ dangling = FALSE

Next ==
    \/ sys_fork
    \/ sys_exit
    \/ sys_execve
    \/ sys_sched_yield
    \/ \E n \in Name : sys_msg_create(n)
    \/ \E id \in DOMAIN m_message_queues : sys_msg_destroy(id)
    \/ \E id \in DOMAIN m_message_queues : sys_msg_send(id)
    \/ \E id \in DOMAIN m_message_queues : sys_msg_receive(id)
    \/ resume_receive
    \/ shell_command
    \/ \E target \in Pid : cmd_pkill(target)
    \/ run_terminate

Spec == Init /\ [][Next]_vars

\* The processor goes on with the frames on its stack, and the programs are
\* cooperative: the process that runs calls sched_yield again and again.
FairSpec ==
    /\ Spec
    /\ WF_vars(resume_receive)
    /\ WF_vars(run_terminate)
    /\ SF_vars(sys_sched_yield)

-----------------------------------------------------------------------------
Frame == [op : {"receive"}, arg : Queue] \cup [op : {"kill"}, arg : Pid]
           \cup Members(Zero)

TypeOK ==
    /\ process_queue \in Seq(Pid)
    /\ process_list \in Seq(Pid)
    /\ current_index \in Nat
    /\ rq_current \in Pid \cup {NoProcess}
    /\ m_current_process \in Pid \cup {NoProcess}
    /\ state \in [Pid -> ProcessState]
    /\ registers \in [Pid -> Seq(Frame)]
    /\ cpu \in Seq(Frame)
    /\ m_next_pid \in Nat
    /\ m_message_queues \in Seq(Queue \cup {NoQueue})
    /\ m_next_queue_id = Len(m_message_queues) + 1
    /\ next_object \in Nat
    /\ name \in [Queue -> Name]
    /\ messages \in [Queue -> 0 .. MAX_MESSAGES]
    /\ waiters \in [Queue -> Seq(Pid)]
    /\ waiting_on \in [Pid -> Queue \cup {NoQueue}]
    /\ dangling \in BOOLEAN

\* The run queue holds exactly the processes of the process list, each once,
\* in the opposite order: creation, termination, wake-ups and failed calls
\* never leave a process unscheduled, queued twice or queued after it died.
RunQueueMirrorsList ==
    /\ Len(process_queue) = Len(process_list)
    /\ \A i \in DOMAIN process_list :
         process_list[i] = process_queue[Len(process_queue) + 1 - i]
    /\ \A i, j \in DOMAIN process_queue :
         process_queue[i] = process_queue[j] => i = j
    /\ \A p \in Pid : p \in LiveProcess <=> state[p] # "None"

\* current_index stays inside the run queue, however removals shift it: the
\* loop of select_next_process ends only when it meets its starting index.
IndexInRange ==
    IF process_queue = <<>> THEN current_index = 0
                            ELSE current_index < Len(process_queue)

\* The two notions of the current process agree: the run queue's is the
\* process manager's or null, the process manager's is in the list (null
\* only when the list is empty), and no other process is Running.
CurrentAgrees ==
    /\ rq_current \in {NoProcess, m_current_process}
    /\ IF process_list = <<>> THEN m_current_process = NoProcess
                              ELSE m_current_process \in LiveProcess
    /\ \A p \in Pid : state[p] = "Running" => p = rq_current

\* A process left Waiting can be found again: the queue it waits on exists
\* and lists it as a waiter, through yields, other waits, exits, wake-ups
\* and the destruction of queues.
SleepersAreListed ==
    \A p \in LiveProcess :
      state[p] = "Waiting" =>
        /\ waiting_on[p] \in LiveQueue
        /\ p \in Members(waiters[waiting_on[p]])

\* An id names one queue and a name one id: no queue is in two slots and no
\* two live queues share a name, across destruction and reuse of slots.
NamesAreUnique ==
    \A i, j \in DOMAIN m_message_queues :
      /\ i # j
      /\ m_message_queues[i] # NoQueue
      /\ m_message_queues[j] # NoQueue
      => name[m_message_queues[i]] # name[m_message_queues[j]]

\* Round robin starves nobody: a Ready process is eventually dispatched (or
\* it ran as the current process and stopped being Ready, or died), unless
\* the machine stops in a fault or a dangling pointer is followed.
Stopped == dangling \/ (cpu # <<>> /\ Head(cpu).op = "zero")

NoStarvation ==
    \A p \in Pid :
      state[p] = "Ready" ~> (rq_current = p \/ state[p] # "Ready" \/ Stopped)
=============================================================================
