---------------------------- MODULE KernelProofs ----------------------------
(***************************************************************************)
(* Proofs about Kernel for any number of processes, queues and messages:   *)
(* types, the run queue against the process list, the scheduler's index,   *)
(* the two current processes, and the waiters of message queues.  At the   *)
(* end, the messages that Kernel only counts, in MessageStore.             *)
(***************************************************************************)
EXTENDS Kernel, TLAPS

Distinct(s) == \A i, j \in DOMAIN s : s[i] = s[j] => i = j

IndexIn(queue, index) ==
    IF queue = <<>> THEN index = 0 ELSE index < Len(queue)

Mirror(list, queue) ==
    /\ Len(queue) = Len(list)
    /\ \A i \in DOMAIN list : list[i] = queue[Len(queue) + 1 - i]

\* In a sequence without duplicates, the first position of a member is its
\* only position.
LEMMA FirstPosition ==
    ASSUME NEW s \in Seq(Pid), Distinct(s), NEW p \in Members(s)
    PROVE  /\ FirstPos(s, p) \in 1 .. Len(s)
           /\ s[FirstPos(s, p)] = p
<1>1. PICK j \in DOMAIN s : s[j] = p
  BY DEF Members
<1>2. DOMAIN s = 1 .. Len(s)
  OBVIOUS
<1>3. \A i \in 1 .. j - 1 : s[i] # p
  BY <1>1, <1>2 DEF Distinct
<1>4. /\ FirstPos(s, p) \in DOMAIN s
      /\ s[FirstPos(s, p)] = p
  BY <1>1, <1>3 DEF FirstPos
<1> QED
  BY <1>2, <1>4

\* Closing the gap at j removes exactly the element that was there.
LEMMA ShiftOutSeq ==
    ASSUME NEW s \in Seq(Pid), NEW j \in 1 .. Len(s)
    PROVE  /\ ShiftOut(s, j) \in Seq(Pid)
           /\ Len(ShiftOut(s, j)) = Len(s) - 1
           /\ \A i \in 1 .. Len(s) - 1 :
                ShiftOut(s, j)[i] = IF i < j THEN s[i] ELSE s[i + 1]
           /\ Members(ShiftOut(s, j)) \subseteq Members(s)
           /\ \A p \in Members(s) : p # s[j] => p \in Members(ShiftOut(s, j))
<1> DEFINE t == ShiftOut(s, j)
<1>1. Len(s) - 1 \in Nat
  OBVIOUS
<1>2. \A i \in 1 .. Len(s) - 1 :
        (IF i < j THEN s[i] ELSE s[i + 1]) \in Pid
  OBVIOUS
<1>3. t \in [1 .. Len(s) - 1 -> Pid]
  BY <1>2 DEF ShiftOut
<1>4. t \in Seq(Pid) /\ Len(t) = Len(s) - 1 /\ DOMAIN t = 1 .. Len(s) - 1
  BY <1>1, <1>3
<1>5. \A i \in 1 .. Len(s) - 1 : t[i] = IF i < j THEN s[i] ELSE s[i + 1]
  BY DEF ShiftOut
<1>6. Members(t) \subseteq Members(s)
  <2> SUFFICES ASSUME NEW i \in 1 .. Len(s) - 1 PROVE t[i] \in Members(s)
    BY <1>4 DEF Members
  <2>1. i \in DOMAIN s /\ i + 1 \in DOMAIN s
    OBVIOUS
  <2> QED
    BY <1>5, <2>1 DEF Members
<1>7. \A p \in Members(s) : p # s[j] => p \in Members(t)
  <2> SUFFICES ASSUME NEW i \in 1 .. Len(s), s[i] # s[j]
               PROVE  s[i] \in Members(t)
    BY DEF Members
  <2>1. CASE i < j
    <3>1. i \in DOMAIN t /\ t[i] = s[i]
      BY <1>4, <1>5, <2>1
    <3> QED
      BY <3>1 DEF Members
  <2>2. CASE i > j
    <3>1. i - 1 \in DOMAIN t /\ t[i - 1] = s[i]
      BY <1>4, <1>5, <2>2
    <3> QED
      BY <3>1 DEF Members
  <2> QED
    BY <2>1, <2>2
<1> QED
  BY <1>4, <1>5, <1>6, <1>7

\* Removing a member from a sequence without duplicates.
LEMMA WithoutSeq ==
    ASSUME NEW s \in Seq(Pid), Distinct(s), NEW p \in Members(s)
    PROVE  /\ Without(s, p) = ShiftOut(s, FirstPos(s, p))
           /\ Without(s, p) \in Seq(Pid)
           /\ Len(Without(s, p)) = Len(s) - 1
           /\ Distinct(Without(s, p))
           /\ Members(Without(s, p)) = Members(s) \ {p}
<1> DEFINE j == FirstPos(s, p)
           t == ShiftOut(s, j)
<1>1. j \in 1 .. Len(s) /\ s[j] = p
  BY FirstPosition
<1>2. Without(s, p) = t
  BY DEF Without
<1> HIDE DEF j
<1>3. /\ t \in Seq(Pid)
      /\ Len(t) = Len(s) - 1
      /\ \A i \in 1 .. Len(s) - 1 : t[i] = IF i < j THEN s[i] ELSE s[i + 1]
      /\ Members(t) \subseteq Members(s)
      /\ \A q \in Members(s) : q # p => q \in Members(t)
  BY <1>1, ShiftOutSeq
<1> HIDE DEF t
<1>4. Distinct(t)
  <2> SUFFICES ASSUME NEW a \in 1 .. Len(s) - 1, NEW b \in 1 .. Len(s) - 1,
                      t[a] = t[b]
               PROVE  a = b
    BY <1>3 DEF Distinct
  <2>1. /\ a \in DOMAIN s /\ b \in DOMAIN s
        /\ a + 1 \in DOMAIN s /\ b + 1 \in DOMAIN s
    OBVIOUS
  <2>2. PICK a1 \in {a, a + 1} : t[a] = s[a1] /\ (a < j <=> a1 = a)
    BY <1>1, <1>3
  <2>3. PICK b1 \in {b, b + 1} : t[b] = s[b1] /\ (b < j <=> b1 = b)
    BY <1>1, <1>3
  <2>4. a1 = b1
    BY <2>1, <2>2, <2>3 DEF Distinct
  <2> QED
    BY <1>1, <2>2, <2>3, <2>4
<1>5. p \notin Members(t)
  <2> SUFFICES ASSUME NEW i \in 1 .. Len(s) - 1, t[i] = s[j] PROVE FALSE
    BY <1>1, <1>3 DEF Members
  <2>1. i \in DOMAIN s /\ i + 1 \in DOMAIN s /\ j \in DOMAIN s
    BY <1>1
  <2> QED
    BY <1>1, <1>3, <2>1 DEF Distinct
<1> QED
  BY <1>2, <1>3, <1>4, <1>5 DEF j, t

\* Removing the same process from the list and from the run queue keeps the
\* one the reverse of the other.
LEMMA MirrorWithout ==
    ASSUME NEW list \in Seq(Pid), NEW queue \in Seq(Pid),
           Distinct(queue), Mirror(list, queue), NEW p \in Members(list)
    PROVE  /\ Members(list) = Members(queue)
           /\ Distinct(list)
           /\ Mirror(Without(list, p), Without(queue, p))
<1> DEFINE n == Len(queue)
<1>1. /\ n \in Nat /\ Len(list) = n
      /\ DOMAIN list = 1 .. n /\ DOMAIN queue = 1 .. n
      /\ \A i \in 1 .. n : list[i] = queue[n + 1 - i]
  <2>1. n \in Nat /\ Len(list) = n /\ DOMAIN queue = 1 .. n
    BY DEF Mirror
  <2>2. DOMAIN list = 1 .. n
    BY <2>1
  <2> QED
    BY <2>1, <2>2 DEF Mirror
<1> HIDE DEF n
<1>2. \A i \in 1 .. n : n + 1 - i \in 1 .. n /\ queue[i] = list[n + 1 - i]
  <2> SUFFICES ASSUME NEW i \in 1 .. n
               PROVE  n + 1 - i \in 1 .. n /\ queue[i] = list[n + 1 - i]
    OBVIOUS
  <2>1. n + 1 - i \in 1 .. n /\ n + 1 - (n + 1 - i) = i
    BY <1>1
  <2> QED
    BY <1>1, <2>1
<1>3. Members(list) = Members(queue)
  <2>1. \A i \in 1 .. n : list[i] \in Members(queue)
    BY <1>1, <1>2 DEF Members
  <2>2. \A i \in 1 .. n : queue[i] \in Members(list)
    BY <1>1, <1>2 DEF Members
  <2>3. Members(list) \subseteq Members(queue)
    BY <1>1, <2>1 DEF Members
  <2>4. Members(queue) \subseteq Members(list)
    BY <1>1, <2>2 DEF Members
  <2> QED
    BY <2>3, <2>4
<1>4. Distinct(list)
  <2> SUFFICES ASSUME NEW a \in 1 .. n, NEW b \in 1 .. n, list[a] = list[b]
               PROVE  a = b
    BY <1>1 DEF Distinct
  <2>1. n + 1 - a = n + 1 - b
    BY <1>1, <1>2 DEF Distinct
  <2> QED
    BY <1>1, <2>1
<1> DEFINE j == FirstPos(list, p)
           k == FirstPos(queue, p)
           list1 == Without(list, p)
           queue1 == Without(queue, p)
<1>5. j \in 1 .. n /\ list[j] = p /\ k \in 1 .. n /\ queue[k] = p
  BY <1>1, <1>3, <1>4, FirstPosition
<1>6. k = n + 1 - j
  BY <1>1, <1>2, <1>5 DEF Distinct
<1>7. list1 = ShiftOut(list, j) /\ queue1 = ShiftOut(queue, k)
  BY <1>3, <1>4, WithoutSeq
<1> HIDE DEF j, k, list1, queue1
<1>8. /\ list1 \in Seq(Pid) /\ Len(list1) = n - 1
      /\ \A i \in 1 .. n - 1 :
           list1[i] = IF i < j THEN list[i] ELSE list[i + 1]
  BY <1>1, <1>5, <1>7, ShiftOutSeq
<1>9. /\ queue1 \in Seq(Pid) /\ Len(queue1) = n - 1
      /\ \A i \in 1 .. n - 1 :
           queue1[i] = IF i < k THEN queue[i] ELSE queue[i + 1]
  BY <1>5, <1>7, ShiftOutSeq DEF n
<1>10. Mirror(list1, queue1)
  <2> SUFFICES ASSUME NEW i \in 1 .. n - 1 PROVE list1[i] = queue1[n - i]
    BY <1>1, <1>8, <1>9 DEF Mirror
  <2>1. n - i \in 1 .. n - 1 /\ i \in 1 .. n /\ i + 1 \in 1 .. n
    BY <1>1
  <2>2. CASE i < j
    <3>1. list1[i] = queue[n + 1 - i]
      BY <1>1, <1>8, <2>1, <2>2
    <3>2. queue1[n - i] = queue[n - i + 1]
      BY <1>1, <1>5, <1>6, <1>9, <2>1, <2>2
    <3>3. n - i + 1 = n + 1 - i
      BY <1>1
    <3> QED
      BY <3>1, <3>2, <3>3
  <2>3. CASE ~(i < j)
    <3>1. list1[i] = queue[n + 1 - (i + 1)]
      BY <1>1, <1>8, <2>1, <2>3
    <3>2. queue1[n - i] = queue[n - i]
      BY <1>1, <1>5, <1>6, <1>9, <2>1, <2>3
    <3>3. n + 1 - (i + 1) = n - i
      BY <1>1
    <3> QED
      BY <3>1, <3>2, <3>3
  <2> QED
    BY <2>2, <2>3
<1> QED
  BY <1>3, <1>4, <1>10 DEF list1, queue1

\* remove_process keeps current_index inside the run queue.
LEMMA IndexWithout ==
    ASSUME NEW queue \in Seq(Pid), Distinct(queue), NEW p \in Members(queue),
           NEW index \in Nat, IndexIn(queue, index)
    PROVE  /\ IndexAfter(queue, index, p) \in Nat
           /\ IndexIn(Without(queue, p), IndexAfter(queue, index, p))
<1> DEFINE k == FirstPos(queue, p)
           queue1 == Without(queue, p)
           index1 == IndexAfter(queue, index, p)
<1>1. k \in 1 .. Len(queue)
  BY FirstPosition
<1>2. queue1 \in Seq(Pid) /\ Len(queue1) = Len(queue) - 1
  BY WithoutSeq
<1>3. index1 = IF index >= k - 1 /\ index > 0 THEN index - 1 ELSE index
  BY DEF IndexAfter
<1> HIDE DEF k, queue1, index1
<1>4. queue # <<>> /\ index < Len(queue)
  BY <1>1 DEF IndexIn
<1>5. index1 \in Nat
  BY <1>3, <1>1
<1>6. IndexIn(queue1, index1)
  <2>1. CASE queue1 = <<>>
    <3>1. Len(queue1) = 0
      BY <2>1
    <3>2. Len(queue) \in Nat /\ Len(queue) = 1
      BY <1>2, <3>1
    <3>3. index = 0
      BY <1>4, <3>2
    <3>4. index1 = 0
      BY <1>3, <3>3
    <3> QED
      BY <2>1, <3>4 DEF IndexIn
  <2>2. CASE queue1 # <<>>
    <3>1. Len(queue1) > 0
      BY <1>2, <2>2
    <3>2. index1 < Len(queue1)
      BY <1>1, <1>2, <1>3, <1>4, <3>1
    <3> QED
      BY <2>2, <3>2 DEF IndexIn
  <2> QED
    BY <2>1, <2>2
<1> QED
  BY <1>5, <1>6 DEF queue1, index1

-----------------------------------------------------------------------------
\* What schedule() needs to find: a typed run queue whose index is inside
\* it, a current process that the two managers agree on and that is queued,
\* and nobody else Running.
Schedulable(queue, index, current, st, mcur, cont) ==
    /\ queue \in Seq(Pid)
    /\ index \in Nat
    /\ IndexIn(queue, index)
    /\ mcur \in Members(queue)
    /\ current \in {NoProcess, mcur}
    /\ st \in [Pid -> ProcessState]
    /\ \A p \in Members(queue) : st[p] # "None"
    /\ \A p \in Pid : st[p] = "Running" => p = current
    /\ cont \in Seq(Frame)
    /\ registers \in [Pid -> Seq(Frame)]

\* What schedule() leaves behind, whichever process it selects.  A sleeping
\* process was asleep before.
LEMMA ScheduleKeeps ==
    ASSUME NEW queue, NEW index, NEW current, NEW st, NEW mcur, NEW cont,
           Schedulable(queue, index, current, st, mcur, cont),
           schedule(queue, index, current, st, mcur, cont)
    PROVE  /\ process_queue' = queue
           /\ current_index' \in Nat
           /\ IndexIn(queue, current_index')
           /\ m_current_process' \in Members(queue)
           /\ rq_current' \in {NoProcess, m_current_process'}
           /\ state' \in [Pid -> ProcessState]
           /\ \A p \in Pid : state'[p] = "None" <=> st[p] = "None"
           /\ \A p \in Pid : state'[p] = "Running" => p = rq_current'
           /\ \A p \in Pid : state'[p] = "Waiting" => st[p] = "Waiting"
           /\ cpu' \in Seq(Frame)
           /\ registers' \in [Pid -> Seq(Frame)]
<1> USE DEF Schedulable
<1>1. process_queue' = queue
  BY DEF schedule
<1>2. Members(queue) \subseteq Pid
  BY DEF Members
<1>3. CASE /\ SelectNone(queue, index, st)
           /\ current_index' = index
           /\ rq_current' = current
           /\ state' = st
           /\ m_current_process' = mcur
           /\ Continue(cont)
  BY <1>1, <1>3 DEF Continue
<1>4. ASSUME NEW d \in ReadyDistances(queue, index, st),
             current_index' = Position(queue, index, d),
             LET next == queue[Position(queue, index, d) + 1] IN
               /\ rq_current' = next
               /\ IF current = next
                    THEN /\ state' = st
                         /\ m_current_process' = mcur
                         /\ Continue(cont)
                    ELSE switch_to_process(next, Dispatched(next, current, st),
                                           mcur, cont)
      PROVE  /\ current_index' \in Nat
             /\ IndexIn(queue, current_index')
             /\ m_current_process' \in Members(queue)
             /\ rq_current' \in {NoProcess, m_current_process'}
             /\ state' \in [Pid -> ProcessState]
             /\ \A p \in Pid : state'[p] = "None" <=> st[p] = "None"
             /\ \A p \in Pid : state'[p] = "Running" => p = rq_current'
             /\ \A p \in Pid : state'[p] = "Waiting" => st[p] = "Waiting"
             /\ cpu' \in Seq(Frame)
             /\ registers' \in [Pid -> Seq(Frame)]
  <2> DEFINE pos == Position(queue, index, d)
             next == queue[pos + 1]
             st1 == Dispatched(next, current, st)
  <2>1. Len(queue) \in Nat /\ Len(queue) > 0 /\ d \in Nat
    BY <1>4 DEF ReadyDistances
  <2>2. pos \in 0 .. Len(queue) - 1
    BY <2>1 DEF Position
  <2>3. current_index' \in Nat /\ IndexIn(queue, current_index')
    BY <1>4, <2>1, <2>2 DEF IndexIn
  <2>4. next \in Members(queue) /\ st[next] = "Ready"
    BY <1>4, <2>1, <2>2 DEF Members, ReadyDistances
  <2> HIDE DEF pos
  <2>5. rq_current' = next /\ next \in Pid /\ next # NoProcess
    BY <1>2, <1>4, <2>4 DEF pos, Pid, NoProcess
  <2>6. CASE current = next
    <3>1. /\ state' = st
          /\ m_current_process' = mcur
          /\ Continue(cont)
      BY <1>4, <2>6 DEF pos
    <3> QED
      BY <2>3, <2>4, <2>5, <2>6, <3>1 DEF Continue
  <2>7. CASE current # next
    <3>1. switch_to_process(next, st1, mcur, cont)
      BY <1>4, <2>7 DEF pos
    <3> HIDE DEF next
    <3>2. /\ st1 \in [Pid -> ProcessState]
          /\ \A p \in Pid : st1[p] = IF p = next THEN "Running"
                                      ELSE IF p = current THEN "Ready"
                                      ELSE st[p]
      BY <2>5 DEF Dispatched, ProcessState
    <3> HIDE DEF st1
    <3>3. /\ \A p \in Pid : st1[p] = "None" <=> st[p] = "None"
          /\ \A p \in Pid : st1[p] = "Running" => p = next
          /\ \A p \in Pid : st1[p] = "Waiting" => st[p] = "Waiting"
      <4>1. current \in Pid => st[current] # "None"
        BY <1>2 DEF NoProcess, Pid
      <4>2. \A p \in Pid : st1[p] = "None" <=> st[p] = "None"
        BY <2>4, <2>5, <3>2, <4>1
      <4>3. \A p \in Pid : st1[p] = "Running" => p = next
        BY <3>2
      <4>4. \A p \in Pid : st1[p] = "Waiting" => st[p] = "Waiting"
        BY <3>2
      <4> QED
        BY <4>2, <4>3, <4>4
    <3>4. m_current_process' = next
      BY <3>1 DEF switch_to_process
    <3>5. CASE mcur = next
      <4>1. state' = st1 /\ Continue(cont)
        BY <3>1, <3>5 DEF switch_to_process
      <4> QED
        BY <2>3, <2>4, <2>5, <3>2, <3>3, <3>4, <4>1 DEF Continue
    <3>6. CASE mcur # next
      <4>1. /\ state' = [q \in Pid |->
                           IF q = next THEN "Running"
                           ELSE IF q = mcur /\ st1[q] = "Running" THEN "Ready"
                           ELSE st1[q]]
            /\ switch_context(mcur, next, cont)
        BY <3>1, <3>6 DEF switch_to_process
      <4>2. state' \in [Pid -> ProcessState]
        BY <3>2, <4>1 DEF ProcessState
      <4>3. /\ \A p \in Pid : state'[p] = "None" <=> st[p] = "None"
            /\ \A p \in Pid : state'[p] = "Running" => p = next
            /\ \A p \in Pid : state'[p] = "Waiting" => st[p] = "Waiting"
        BY <2>4, <2>5, <3>2, <3>3, <4>1
      <4>4. cpu' \in Seq(Frame) /\ registers' \in [Pid -> Seq(Frame)]
        BY <2>5, <4>1 DEF switch_context
      <4> QED
        BY <2>3, <2>4, <2>5, <3>4, <4>2, <4>3, <4>4
    <3> QED
      BY <3>5, <3>6
  <2> QED
    BY <2>6, <2>7
<1> QED
  BY <1>1, <1>3, <1>4 DEF schedule

-----------------------------------------------------------------------------
\* The inductive invariant.  SchedInv is about processes and the run queue;
\* pids in use are below m_next_pid, which keeps a new one distinct.
SchedInv ==
    /\ process_queue \in Seq(Pid)
    /\ process_list \in Seq(Pid)
    /\ current_index \in Nat
    /\ state \in [Pid -> ProcessState]
    /\ registers \in [Pid -> Seq(Frame)]
    /\ cpu \in Seq(Frame)
    /\ m_next_pid \in Nat
    /\ Distinct(process_queue)
    /\ Mirror(process_list, process_queue)
    /\ \A p \in Pid : p \in LiveProcess <=> state[p] # "None"
    /\ \A p \in LiveProcess : p < m_next_pid
    /\ IndexIn(process_queue, current_index)
    /\ CurrentAgrees

\* IpcInv is about message queues; a new object is in no slot.
IpcType ==
    /\ m_message_queues \in Seq(Queue \cup {NoQueue})
    /\ m_next_queue_id = Len(m_message_queues) + 1
    /\ next_object \in Nat
    /\ name \in [Queue -> Name]
    /\ messages \in [Queue -> 0 .. MAX_MESSAGES]
    /\ waiters \in [Queue -> Seq(Pid)]
    /\ waiting_on \in [Pid -> Queue \cup {NoQueue}]
    /\ dangling \in BOOLEAN

IpcInv ==
    /\ IpcType
    /\ NamesAreUnique
    /\ \A q \in LiveQueue : q < next_object

Sleepers ==
    \A p \in Pid :
      state[p] = "Waiting" =>
        /\ waiting_on[p] \in LiveQueue
        /\ p \in Members(waiters[waiting_on[p]])

KInv == SchedInv /\ IpcInv /\ Sleepers

\* The members of the list are the members of the run queue.
LEMMA SameMembers ==
    ASSUME SchedInv
    PROVE  /\ Members(process_queue) = LiveProcess
           /\ LiveProcess \subseteq Pid
           /\ process_list = <<>> <=> process_queue = <<>>
<1> DEFINE n == Len(process_queue)
<1>1. /\ n \in Nat /\ Len(process_list) = n
      /\ DOMAIN process_list = 1 .. n /\ DOMAIN process_queue = 1 .. n
  BY DEF SchedInv, Mirror
<1>2. \A i \in 1 .. n : process_list[i] = process_queue[n + 1 - i]
  BY <1>1 DEF SchedInv, Mirror
<1>3. \A i \in 1 .. n : n + 1 - i \in 1 .. n /\ n + 1 - (n + 1 - i) = i
  BY <1>1
<1>4. \A i \in 1 .. n : process_queue[i] = process_list[n + 1 - i]
  BY <1>2, <1>3
<1>5. Members(process_queue) = LiveProcess
  <2>1. \A i \in 1 .. n : process_queue[i] \in LiveProcess
    BY <1>1, <1>3, <1>4 DEF Members, LiveProcess
  <2>2. \A i \in 1 .. n : process_list[i] \in Members(process_queue)
    BY <1>1, <1>2, <1>3 DEF Members
  <2> HIDE DEF n
  <2>3. Members(process_queue) \subseteq LiveProcess
    BY <1>1, <2>1 DEF Members
  <2>4. LiveProcess \subseteq Members(process_queue)
    BY <1>1, <2>2 DEF Members, LiveProcess
  <2> QED
    BY <2>3, <2>4
<1>6. LiveProcess \subseteq Pid
  BY DEF LiveProcess, Members, SchedInv
<1>7. process_list = <<>> <=> process_queue = <<>>
  BY <1>1 DEF SchedInv
<1> QED
  BY <1>5, <1>6, <1>7

\* The invariant gives schedule() what it needs in every system call.
LEMMA CallerSchedulable ==
    ASSUME SchedInv, m_current_process # NoProcess,
           NEW cont \in Seq(Frame)
    PROVE  Schedulable(process_queue, current_index, rq_current, state,
                       m_current_process, cont)
<1>1. m_current_process \in Members(process_queue)
  BY SameMembers DEF SchedInv, CurrentAgrees
<1>2. \A p \in Members(process_queue) : state[p] # "None"
  BY SameMembers DEF SchedInv
<1> QED
  BY <1>1, <1>2 DEF SchedInv, CurrentAgrees, Schedulable

\* A call of schedule() that leaves the process list alone.
LEMMA YieldKeeps ==
    ASSUME SchedInv, m_current_process # NoProcess,
           NEW cont \in Seq(Frame), NEW st \in [Pid -> ProcessState],
           \A p \in Pid : st[p] = "None" <=> state[p] = "None",
           \A p \in Pid : st[p] = "Running" => state[p] = "Running",
           schedule(process_queue, current_index, rq_current, st,
                    m_current_process, cont),
           UNCHANGED procVars
    PROVE  /\ SchedInv'
           /\ \A p \in Pid : state'[p] = "Waiting" => st[p] = "Waiting"
<1>1. Schedulable(process_queue, current_index, rq_current, st,
                  m_current_process, cont)
  <2>1. \A p \in Members(process_queue) : st[p] # "None"
    BY SameMembers DEF SchedInv
  <2>2. \A p \in Pid : st[p] = "Running" => p = rq_current
    BY DEF SchedInv, CurrentAgrees
  <2> QED
    BY <2>1, <2>2, CallerSchedulable DEF Schedulable
<1>2. /\ process_queue' = process_queue
      /\ current_index' \in Nat
      /\ IndexIn(process_queue, current_index')
      /\ m_current_process' \in Members(process_queue)
      /\ rq_current' \in {NoProcess, m_current_process'}
      /\ state' \in [Pid -> ProcessState]
      /\ \A p \in Pid : state'[p] = "None" <=> st[p] = "None"
      /\ \A p \in Pid : state'[p] = "Running" => p = rq_current'
      /\ \A p \in Pid : state'[p] = "Waiting" => st[p] = "Waiting"
      /\ cpu' \in Seq(Frame)
      /\ registers' \in [Pid -> Seq(Frame)]
  BY <1>1, ScheduleKeeps
<1>3. /\ process_list' = process_list
      /\ m_next_pid' = m_next_pid
      /\ LiveProcess' = LiveProcess
  BY DEF procVars, LiveProcess
<1>4. CurrentAgrees'
  <2>1. process_list # <<>> /\ m_current_process' \in LiveProcess
    BY <1>2, SameMembers DEF SchedInv, CurrentAgrees
  <2> QED
    BY <1>2, <1>3, <2>1 DEF CurrentAgrees
<1>5. SchedInv'
  BY <1>2, <1>3, <1>4 DEF SchedInv
<1> QED
  BY <1>2, <1>5

\* terminate_process, of the current process, another one or none at all.
LEMMA TerminateKeeps ==
    ASSUME SchedInv, NEW p \in Pid, NEW cont \in Seq(Frame),
           terminate_process(p, cont)
    PROVE  /\ SchedInv'
           /\ \A q \in Pid : state'[q] = "Waiting" => state[q] = "Waiting"
<1> DEFINE list    == Without(process_list, p)
           queue   == Without(process_queue, p)
           index   == IndexAfter(process_queue, current_index, p)
           current == CurrentAfter(rq_current, p)
           st      == [state EXCEPT ![p] = "None"]
<1>1. CASE p \notin LiveProcess
  <2>1. /\ UNCHANGED <<process_list, process_queue, current_index, rq_current,
                       state, m_current_process, m_next_pid, registers>>
        /\ cpu' = cont
    BY <1>1 DEF terminate_process, Continue
  <2>2. LiveProcess' = LiveProcess
    BY <2>1 DEF LiveProcess
  <2> QED
    BY <2>1, <2>2 DEF SchedInv, CurrentAgrees
<1>2. CASE p \in LiveProcess
  <2>1. /\ Members(process_queue) = LiveProcess
        /\ LiveProcess \subseteq Pid
        /\ Distinct(process_list)
        /\ Mirror(list, queue)
    BY <1>2, SameMembers, MirrorWithout DEF SchedInv, LiveProcess
  <2>2. /\ list \in Seq(Pid)
        /\ Members(list) = LiveProcess \ {p}
    BY <1>2, <2>1, WithoutSeq DEF SchedInv, LiveProcess
  <2>3. /\ queue \in Seq(Pid)
        /\ Distinct(queue)
        /\ Members(queue) = LiveProcess \ {p}
    BY <1>2, <2>1, WithoutSeq DEF SchedInv
  <2>4. index \in Nat /\ IndexIn(queue, index)
    BY <1>2, <2>1, IndexWithout DEF SchedInv
  <2>5. /\ st \in [Pid -> ProcessState]
        /\ \A q \in Pid : st[q] = IF q = p THEN "None" ELSE state[q]
    BY DEF SchedInv, ProcessState
  <2>6. /\ current = IF rq_current = p THEN NoProcess ELSE rq_current
        /\ p # NoProcess
    BY DEF CurrentAfter, Pid, NoProcess
  <2>7. /\ process_list' = list
        /\ m_next_pid' = m_next_pid
        /\ IF m_current_process = p /\ list # <<>>
             THEN schedule(queue, index, current, st, list[1], cont)
             ELSE /\ process_queue' = queue
                  /\ current_index' = index
                  /\ rq_current' = current
                  /\ state' = st
                  /\ m_current_process' = IF m_current_process = p
                                            THEN NoProcess
                                            ELSE m_current_process
                  /\ Continue(cont)
    BY <1>2 DEF terminate_process
  <2>8. /\ rq_current \in {NoProcess, m_current_process}
        /\ m_current_process \in LiveProcess
        /\ \A q \in Pid : state[q] = "Running" => q = rq_current
        /\ \A q \in Pid : q \in LiveProcess <=> state[q] # "None"
        /\ \A q \in LiveProcess : q < m_next_pid
        /\ m_next_pid \in Nat
        /\ registers \in [Pid -> Seq(Frame)]
    <3>1. process_list # <<>>
      BY <1>2 DEF LiveProcess, Members
    <3> QED
      BY <3>1 DEF SchedInv, CurrentAgrees
  <2> HIDE DEF list, queue, index, current, st
  <2>9. LiveProcess' = LiveProcess \ {p}
    BY <2>2, <2>7 DEF LiveProcess
  <2>10. \A q \in Pid : st[q] = "Running" => q = current
    BY <2>5, <2>6, <2>8
  <2>11. CASE m_current_process = p /\ list # <<>>
    <3>1. list[1] \in Members(queue)
      <4>1. 1 \in DOMAIN list
        BY <2>2, <2>11
      <4>2. list[1] \in Members(list)
        BY <4>1 DEF Members
      <4> QED
        BY <2>2, <2>3, <4>2
    <3>2. Schedulable(queue, index, current, st, list[1], cont)
      BY <2>1, <2>3, <2>4, <2>5, <2>6, <2>8, <2>10, <2>11, <3>1
         DEF Schedulable
    <3>3. schedule(queue, index, current, st, list[1], cont)
      BY <2>7, <2>11
    <3>4. /\ process_queue' = queue
          /\ current_index' \in Nat
          /\ IndexIn(queue, current_index')
          /\ m_current_process' \in Members(queue)
          /\ rq_current' \in {NoProcess, m_current_process'}
          /\ state' \in [Pid -> ProcessState]
          /\ \A q \in Pid : state'[q] = "None" <=> st[q] = "None"
          /\ \A q \in Pid : state'[q] = "Running" => q = rq_current'
          /\ \A q \in Pid : state'[q] = "Waiting" => st[q] = "Waiting"
          /\ cpu' \in Seq(Frame)
          /\ registers' \in [Pid -> Seq(Frame)]
      BY <3>2, <3>3, ScheduleKeeps
    <3>5. CurrentAgrees'
      BY <2>3, <2>7, <2>9, <2>11, <3>4 DEF CurrentAgrees
    <3>6. SchedInv'
      BY <2>1, <2>2, <2>3, <2>5, <2>7, <2>8, <2>9, <3>4, <3>5 DEF SchedInv
    <3> QED
      BY <2>5, <3>4, <3>6
  <2>12. CASE ~(m_current_process = p /\ list # <<>>)
    <3>1. /\ process_queue' = queue
          /\ current_index' = index
          /\ rq_current' = current
          /\ state' = st
          /\ m_current_process' = IF m_current_process = p
                                    THEN NoProcess
                                    ELSE m_current_process
          /\ cpu' = cont
          /\ registers' = registers
      BY <2>7, <2>12 DEF Continue
    <3>2. CurrentAgrees'
      <4>1. CASE m_current_process = p
        <5>1. list = <<>> /\ process_list' = <<>>
          BY <2>7, <2>12, <4>1
        <5> QED
          BY <2>6, <2>8, <2>10, <3>1, <4>1, <5>1 DEF CurrentAgrees
      <4>2. CASE m_current_process # p
        <5>1. m_current_process \in Members(list)
          BY <2>2, <2>8, <4>2
        <5>2. list # <<>>
          BY <5>1 DEF Members
        <5> QED
          BY <2>2, <2>6, <2>7, <2>8, <2>9, <2>10, <3>1, <4>2, <5>1, <5>2
             DEF CurrentAgrees
      <4> QED
        BY <4>1, <4>2
    <3>3. SchedInv'
      BY <2>1, <2>2, <2>3, <2>4, <2>5, <2>7, <2>8, <2>9, <3>1, <3>2
         DEF SchedInv
    <3> QED
      BY <2>5, <3>1, <3>3
  <2> QED
    BY <2>11, <2>12
<1> QED
  BY <1>1, <1>2

\* create_process, when it succeeds: the new process is at the head of the
\* list and at the end of the run queue.
LEMMA CreateKeeps ==
    ASSUME SchedInv, NEW regs \in Seq(Frame), NEW cont \in Seq(Frame),
           create_process(regs, cont)
    PROVE  /\ SchedInv'
           /\ \A q \in Pid : state'[q] = "Waiting" => state[q] = "Waiting"
<1> DEFINE p == m_next_pid
           n == Len(process_queue)
           list == <<p>> \o process_list
           queue == Append(process_queue, p)
<1>1. p \in Pid /\ p # NoProcess
  BY DEF create_process, Pid, NoProcess
<1>2. p \notin LiveProcess /\ p \notin Members(process_queue)
  BY SameMembers DEF SchedInv
<1>3. /\ process_list' = list
      /\ process_queue' = queue
      /\ m_next_pid' = p + 1
      /\ m_current_process' =
           IF m_current_process = NoProcess THEN p ELSE m_current_process
      /\ state' = [state EXCEPT ![p] = "Ready"]
      /\ registers' = [registers EXCEPT ![p] = regs]
      /\ cpu' = cont
      /\ current_index' = current_index
      /\ rq_current' = rq_current
  BY <1>2 DEF create_process, Added
<1>4. /\ n \in Nat /\ Len(process_list) = n
      /\ \A i \in 1 .. n : process_list[i] = process_queue[n + 1 - i]
      /\ \A i \in 1 .. n : process_queue[i] \in Members(process_queue)
      /\ \A i \in 1 .. n : process_list[i] \in LiveProcess
  <2>1. n \in Nat /\ Len(process_list) = n /\ DOMAIN process_queue = 1 .. n
    BY DEF SchedInv, Mirror
  <2>2. DOMAIN process_list = 1 .. n
    BY <2>1 DEF SchedInv
  <2>3. \A i \in 1 .. n : process_list[i] = process_queue[n + 1 - i]
    BY <2>2 DEF SchedInv, Mirror
  <2> QED
    BY <2>1, <2>2, <2>3 DEF Members, LiveProcess
<1>5. /\ list \in Seq(Pid) /\ Len(list) = n + 1
      /\ list[1] = p
      /\ \A i \in 2 .. n + 1 : list[i] = process_list[i - 1]
  <2>1. <<p>> \in Seq(Pid) /\ Len(<<p>>) = 1 /\ process_list \in Seq(Pid)
    BY <1>1 DEF SchedInv
  <2>2. list \in Seq(Pid) /\ Len(list) = 1 + n
    BY <1>4, <2>1
  <2>3. \A i \in 1 .. 1 + n :
          list[i] = IF i <= 1 THEN <<p>>[i] ELSE process_list[i - 1]
    BY <1>4, <2>1
  <2> QED
    BY <1>4, <2>2, <2>3
<1>6. /\ queue \in Seq(Pid) /\ Len(queue) = n + 1
      /\ queue[n + 1] = p
      /\ \A i \in 1 .. n : queue[i] = process_queue[i]
  BY <1>1, <1>4 DEF SchedInv
<1> HIDE DEF list, queue, n
<1>7. Distinct(queue)
  <2> SUFFICES ASSUME NEW i \in 1 .. n + 1, NEW j \in 1 .. n + 1,
                      queue[i] = queue[j]
               PROVE  i = j
    BY <1>6 DEF Distinct
  <2>1. CASE i \in 1 .. n /\ j \in 1 .. n
    <3>1. process_queue[i] = process_queue[j] /\ n = Len(process_queue)
      BY <1>6, <2>1 DEF n
    <3>2. i \in DOMAIN process_queue /\ j \in DOMAIN process_queue
      BY <2>1, <3>1 DEF SchedInv
    <3> QED
      BY <3>1, <3>2 DEF SchedInv, Distinct
  <2>2. CASE i = n + 1 \/ j = n + 1
    BY <1>2, <1>4, <1>6, <2>2
  <2> QED
    BY <1>4, <2>1, <2>2
<1>8. Mirror(list, queue)
  <2>1. /\ Len(queue) = Len(list)
        /\ DOMAIN list = 1 .. n + 1
        /\ \A i \in 1 .. n + 1 : Len(queue) + 1 - i = n + 2 - i
    BY <1>4, <1>5, <1>6
  <2> SUFFICES \A i \in 1 .. n + 1 : list[i] = queue[n + 2 - i]
    BY <2>1 DEF Mirror
  <2> TAKE i \in 1 .. n + 1
  <2>2. CASE i = 1
    BY <1>4, <1>5, <1>6, <2>2
  <2>3. CASE i # 1
    <3>1. i - 1 \in 1 .. n /\ n + 2 - i \in 1 .. n /\ n + 1 - (i - 1) = n + 2 - i
      BY <1>4, <2>3
    <3>2. list[i] = process_list[i - 1]
      BY <1>4, <1>5, <2>3
    <3>3. process_list[i - 1] = process_queue[n + 2 - i]
      BY <1>4, <3>1
    <3> QED
      BY <1>6, <3>1, <3>2, <3>3
  <2> QED
    BY <2>2, <2>3
<1>9. LiveProcess' = LiveProcess \cup {p}
  <2>1. DOMAIN list = 1 .. n + 1 /\ DOMAIN process_list = 1 .. n
    BY <1>4, <1>5 DEF SchedInv
  <2>2. \A i \in 1 .. n + 1 : list[i] \in LiveProcess \cup {p}
    <3> SUFFICES ASSUME NEW i \in 1 .. n + 1, i # 1 PROVE list[i] \in LiveProcess
      BY <1>5
    <3>1. i - 1 \in 1 .. n /\ i \in 2 .. n + 1
      BY <1>4
    <3> QED
      BY <1>4, <1>5, <3>1
  <2>3. \A i \in 1 .. n : i + 1 \in 1 .. n + 1 /\ list[i + 1] = process_list[i]
    <3> SUFFICES ASSUME NEW i \in 1 .. n
                 PROVE  i + 1 \in 1 .. n + 1 /\ list[i + 1] = process_list[i]
      OBVIOUS
    <3>1. i + 1 \in 2 .. n + 1 /\ i + 1 - 1 = i
      BY <1>4
    <3> QED
      BY <1>4, <1>5, <3>1
  <2>4. 1 \in 1 .. n + 1
    BY <1>4
  <2>5. Members(list) \subseteq LiveProcess \cup {p}
    BY <2>1, <2>2 DEF Members
  <2>6. p \in Members(list)
    BY <1>5, <2>1, <2>4 DEF Members
  <2>7. LiveProcess \subseteq Members(list)
    BY <2>1, <2>3 DEF Members, LiveProcess
  <2> QED
    BY <1>3, <2>5, <2>6, <2>7 DEF LiveProcess
<1>10. /\ state' \in [Pid -> ProcessState]
       /\ \A q \in Pid : state'[q] = IF q = p THEN "Ready" ELSE state[q]
  BY <1>1, <1>3 DEF SchedInv, ProcessState
<1>11. IndexIn(queue, current_index)
  <2>1. queue # <<>> /\ current_index < n + 1
    BY <1>4, <1>6 DEF SchedInv, IndexIn, n
  <2> QED
    BY <1>6, <2>1 DEF IndexIn
<1>12. CurrentAgrees'
  <2>1. list # <<>>
    BY <1>4, <1>5
  <2>2. /\ rq_current \in {NoProcess, m_current_process}
        /\ m_current_process # NoProcess => m_current_process \in LiveProcess
        /\ \A q \in Pid : state[q] = "Running" => q = rq_current
    BY DEF SchedInv, CurrentAgrees
  <2> QED
    BY <1>3, <1>9, <1>10, <2>1, <2>2 DEF CurrentAgrees
<1>13. registers' \in [Pid -> Seq(Frame)]
  BY <1>1, <1>3 DEF SchedInv
<1>14. \A q \in LiveProcess' : q < m_next_pid'
  <2>1. \A q \in LiveProcess : q < p
    BY DEF SchedInv
  <2>2. p \in Nat /\ LiveProcess \subseteq Nat
    BY SameMembers DEF SchedInv, Pid
  <2> QED
    BY <1>3, <1>9, <2>1, <2>2
<1>15. \A q \in Pid : q \in LiveProcess' <=> state'[q] # "None"
  BY <1>9, <1>10 DEF SchedInv
<1>16. m_next_pid' \in Nat
  BY <1>3 DEF SchedInv
<1>17. SchedInv'
  BY <1>3, <1>5, <1>6, <1>7, <1>8, <1>10, <1>11, <1>12, <1>13, <1>14,
     <1>15, <1>16 DEF SchedInv
<1> QED
  BY <1>10, <1>17

-----------------------------------------------------------------------------
\* Frames keep their types when they are pushed and popped.
LEMMA FrameTypes ==
    /\ \A q \in Queue : Receiving(q) \in Frame
    /\ \A p \in Pid : Killing(p) \in Frame
    /\ Zero \in Seq(Frame)
    /\ \A f \in Frame : f.op = "kill" => f.arg \in Pid
    /\ \A f \in Frame : f.op = "receive" => f.arg \in Queue
<1>1. Members(Zero) = {[op |-> "zero", arg |-> 0]}
  BY DEF Members, Zero
<1>2. Frame = [op : {"receive"}, arg : Queue] \cup [op : {"kill"}, arg : Pid]
                \cup {[op |-> "zero", arg |-> 0]}
  BY <1>1 DEF Frame
<1>3. Zero \in Seq(Frame)
  BY <1>2 DEF Zero
<1>4. \A q \in Queue : Receiving(q) \in Frame
  BY <1>2 DEF Receiving
<1>5. \A p \in Pid : Killing(p) \in Frame
  BY <1>2 DEF Killing
<1>6. \A f \in Frame : f.op = "kill" => f.arg \in Pid
  BY <1>2
<1>7. \A f \in Frame : f.op = "receive" => f.arg \in Queue
  BY <1>2
<1> QED
  BY <1>3, <1>4, <1>5, <1>6, <1>7

LEMMA TopFrame ==
    ASSUME NEW s \in Seq(Frame), s # <<>>
    PROVE  Head(s) \in Frame /\ Tail(s) \in Seq(Frame)
OBVIOUS

LEMMA PushFrame ==
    ASSUME NEW s \in Seq(Frame), NEW f \in Frame
    PROVE  <<f>> \o s \in Seq(Frame)
OBVIOUS

\* Steps that leave message queues alone and put nobody to sleep.
LEMMA IpcKept ==
    ASSUME IpcInv, Sleepers, UNCHANGED <<ipcVars, dangling>>,
           \A q \in Pid : state'[q] = "Waiting" => state[q] = "Waiting"
    PROVE  IpcInv' /\ Sleepers'
<1>1. /\ m_message_queues' = m_message_queues
      /\ m_next_queue_id' = m_next_queue_id
      /\ next_object' = next_object
      /\ name' = name
      /\ messages' = messages
      /\ waiters' = waiters
      /\ waiting_on' = waiting_on
      /\ dangling' = dangling
  BY DEF ipcVars
<1>2. LiveQueue' = LiveQueue
  BY <1>1 DEF LiveQueue
<1>3. IpcInv'
  BY <1>1, <1>2 DEF IpcInv, IpcType, NamesAreUnique
<1>4. Sleepers'
  BY <1>1, <1>2 DEF Sleepers
<1> QED
  BY <1>3, <1>4

\* Steps that leave processes and the run queue alone.
LEMMA SchedKept ==
    ASSUME SchedInv, UNCHANGED <<schedVars, procVars>>
    PROVE  SchedInv'
<1>1. /\ UNCHANGED <<process_queue, current_index, rq_current, state,
                     m_current_process, registers, cpu, process_list,
                     m_next_pid>>
  BY DEF schedVars, procVars
<1>2. LiveProcess' = LiveProcess
  BY <1>1 DEF LiveProcess
<1> QED
  BY <1>1, <1>2 DEF SchedInv, CurrentAgrees

\* Following a dangling pointer changes nothing else in the model.
LEMMA FollowDanglingKeeps ==
    ASSUME KInv, FollowDangling
    PROVE  KInv'
<1>1. SchedInv'
  BY SchedKept DEF KInv, FollowDangling
<1>2. /\ UNCHANGED ipcVars /\ state' = state /\ dangling' = TRUE
  BY DEF FollowDangling, schedVars
<1>3. /\ m_message_queues' = m_message_queues
      /\ m_next_queue_id' = m_next_queue_id
      /\ next_object' = next_object
      /\ name' = name
      /\ messages' = messages
      /\ waiters' = waiters
      /\ waiting_on' = waiting_on
  BY <1>2 DEF ipcVars
<1>4. LiveQueue' = LiveQueue
  BY <1>3 DEF LiveQueue
<1>5. IpcInv' /\ Sleepers'
  BY <1>2, <1>3, <1>4 DEF KInv, IpcInv, IpcType, NamesAreUnique, Sleepers
<1> QED
  BY <1>1, <1>5 DEF KInv

\* Every queue in a slot is a queue object.
LEMMA SlotQueue ==
    ASSUME IpcType, NEW id \in DOMAIN m_message_queues,
           m_message_queues[id] # NoQueue
    PROVE  m_message_queues[id] \in Queue /\ m_message_queues[id] \in LiveQueue
BY DEF IpcType, LiveQueue, Members

\* A step of the processor within its own stack.
LEMMA ContinueKeeps ==
    ASSUME SchedInv, NEW cont \in Seq(Frame), Continue(cont),
           UNCHANGED <<process_queue, current_index, rq_current, state,
                       m_current_process, procVars>>
    PROVE  SchedInv'
<1>1. /\ UNCHANGED <<process_queue, current_index, rq_current, state,
                     m_current_process, registers, process_list, m_next_pid>>
      /\ cpu' = cont
  BY DEF procVars, Continue
<1>2. LiveProcess' = LiveProcess
  BY <1>1 DEF LiveProcess
<1> QED
  BY <1>1, <1>2 DEF SchedInv, CurrentAgrees

\* A step that only changes states, and makes nobody Running.
LEMMA WakeKeeps ==
    ASSUME SchedInv, state' \in [Pid -> ProcessState],
           \A p \in Pid : state'[p] = "None" <=> state[p] = "None",
           \A p \in Pid : state'[p] = "Running" => state[p] = "Running",
           UNCHANGED <<process_queue, current_index, rq_current,
                       m_current_process, registers, cpu, procVars>>
    PROVE  SchedInv'
<1>1. UNCHANGED <<process_queue, current_index, rq_current, m_current_process,
                  registers, cpu, process_list, m_next_pid>>
  BY DEF procVars
<1>2. LiveProcess' = LiveProcess
  BY <1>1 DEF LiveProcess
<1>3. CurrentAgrees'
  BY <1>1, <1>2 DEF SchedInv, CurrentAgrees
<1> QED
  BY <1>1, <1>2, <1>3 DEF SchedInv

-----------------------------------------------------------------------------
\* create_message_queue, in an empty slot or a new one.
LEMMA CreateQueueKeeps ==
    ASSUME IpcInv, Sleepers, NEW n \in Name, create_message_queue(n),
           state' = state, dangling' = dangling
    PROVE  IpcInv' /\ Sleepers'
<1> DEFINE q == next_object
           slots == m_message_queues
<1>1. /\ q \in Queue /\ q # NoQueue /\ q \notin LiveQueue
      /\ next_object' = q + 1
      /\ name' = [name EXCEPT ![q] = n]
      /\ \A r \in LiveQueue : name[r] # n
      /\ UNCHANGED <<messages, waiters, waiting_on>>
  BY DEF create_message_queue, NameInUse, IpcInv, IpcType, Queue, NoQueue
<1>2. slots \in Seq(Queue \cup {NoQueue}) /\ LiveQueue \subseteq Queue
  BY DEF IpcInv, IpcType, LiveQueue, Members
<1>3. PICK i \in 1 .. Len(slots) + 1 :
        /\ slots' \in Seq(Queue \cup {NoQueue})
        /\ m_next_queue_id' = Len(slots') + 1
        /\ DOMAIN slots \subseteq DOMAIN slots'
        /\ i \in DOMAIN slots'
        /\ DOMAIN slots' \subseteq DOMAIN slots \cup {i}
        /\ slots'[i] = q
        /\ \A j \in DOMAIN slots : j # i => slots'[j] = slots[j]
        /\ i \in DOMAIN slots => slots[i] = NoQueue
  <2>1. CASE /\ FreeSlots = {}
             /\ slots' = Append(slots, q)
             /\ m_next_queue_id' = m_next_queue_id + 1
    <3>1. /\ slots' \in Seq(Queue \cup {NoQueue})
          /\ Len(slots') = Len(slots) + 1
          /\ slots'[Len(slots) + 1] = q
          /\ \A j \in 1 .. Len(slots) : slots'[j] = slots[j]
      BY <1>1, <1>2, <2>1
    <3>2. m_next_queue_id' = Len(slots') + 1
      BY <1>2, <2>1, <3>1 DEF IpcInv, IpcType
    <3>3. /\ DOMAIN slots = 1 .. Len(slots)
          /\ DOMAIN slots' = 1 .. Len(slots) + 1
          /\ Len(slots) \in Nat
      BY <1>2, <3>1
    <3>4. Len(slots) + 1 \in 1 .. Len(slots) + 1
      BY <3>3
    <3> WITNESS Len(slots) + 1 \in 1 .. Len(slots) + 1
    <3> QED
      BY <3>1, <3>2, <3>3
  <2>2. ASSUME NEW k \in FreeSlots,
               slots' = [slots EXCEPT ![k] = q],
               UNCHANGED m_next_queue_id
        PROVE  \E i \in 1 .. Len(slots) + 1 :
                 /\ slots' \in Seq(Queue \cup {NoQueue})
                 /\ m_next_queue_id' = Len(slots') + 1
                 /\ DOMAIN slots \subseteq DOMAIN slots'
                 /\ i \in DOMAIN slots'
                 /\ DOMAIN slots' \subseteq DOMAIN slots \cup {i}
                 /\ slots'[i] = q
                 /\ \A j \in DOMAIN slots : j # i => slots'[j] = slots[j]
                 /\ i \in DOMAIN slots => slots[i] = NoQueue
    <3>1. k \in DOMAIN slots /\ slots[k] = NoQueue /\ k \in 1 .. Len(slots)
      BY <1>2, <2>2 DEF FreeSlots
    <3>2. /\ slots' \in Seq(Queue \cup {NoQueue})
          /\ Len(slots') = Len(slots)
          /\ DOMAIN slots' = DOMAIN slots
      BY <1>1, <1>2, <2>2, <3>1
    <3>3. /\ slots'[k] = q
          /\ \A j \in DOMAIN slots : j # k => slots'[j] = slots[j]
      BY <2>2, <3>1
    <3>4. m_next_queue_id' = Len(slots') + 1
      BY <2>2, <3>2 DEF IpcInv, IpcType
    <3>5. k \in 1 .. Len(slots) + 1
      BY <1>2, <3>1
    <3> WITNESS k \in 1 .. Len(slots) + 1
    <3> QED
      BY <3>1, <3>2, <3>3, <3>4
  <2> QED
    BY <2>1, <2>2 DEF create_message_queue
<1>4. LiveQueue' = LiveQueue \cup {q}
  <2>1. LiveQueue' \subseteq LiveQueue \cup {q}
    BY <1>3 DEF LiveQueue, Members
  <2>2. q \in LiveQueue'
    BY <1>1, <1>3 DEF LiveQueue, Members
  <2>3. LiveQueue \subseteq LiveQueue'
    <3> SUFFICES ASSUME NEW j \in DOMAIN slots, slots[j] # NoQueue
                 PROVE  slots[j] \in LiveQueue'
      BY DEF LiveQueue, Members
    <3>1. j # i /\ slots'[j] = slots[j] /\ j \in DOMAIN slots'
      BY <1>3
    <3> QED
      BY <3>1 DEF LiveQueue, Members
  <2> QED
    BY <2>1, <2>2, <2>3
<1>5. IpcType'
  BY <1>1, <1>3 DEF IpcInv, IpcType, Queue
<1>6. NamesAreUnique'
  <2> SUFFICES ASSUME NEW a \in DOMAIN slots', NEW b \in DOMAIN slots',
                      a # b, slots'[a] # NoQueue, slots'[b] # NoQueue
               PROVE  name'[slots'[a]] # name'[slots'[b]]
    BY DEF NamesAreUnique
  <2>1. \A r \in Queue : name'[r] = IF r = q THEN n ELSE name[r]
    BY <1>1 DEF IpcInv, IpcType
  <2>2. \A j \in DOMAIN slots' :
          j # i => /\ j \in DOMAIN slots
                   /\ slots'[j] = slots[j]
    BY <1>3
  <2>3. \A j \in DOMAIN slots : slots[j] # NoQueue =>
          slots[j] \in LiveQueue /\ slots[j] \in Queue /\ slots[j] # q
    BY <1>1, <1>2 DEF LiveQueue, Members
  <2>4. CASE a = i
    BY <1>1, <1>3, <2>1, <2>2, <2>3, <2>4
  <2>5. CASE b = i
    BY <1>1, <1>3, <2>1, <2>2, <2>3, <2>5
  <2>6. CASE a # i /\ b # i
    BY <2>1, <2>2, <2>3, <2>6 DEF IpcInv, NamesAreUnique
  <2> QED
    BY <2>4, <2>5, <2>6
<1>7. \A r \in LiveQueue' : r < next_object'
  <2>1. q \in Nat /\ LiveQueue \subseteq Nat
    BY <1>1, <1>2 DEF Queue
  <2> QED
    BY <1>1, <1>4, <2>1 DEF IpcInv
<1>8. Sleepers'
  BY <1>1, <1>4 DEF Sleepers
<1> QED
  BY <1>5, <1>6, <1>7, <1>8 DEF IpcInv

\* destroy_message_queue: the processes asleep on the queue wake up, so that
\* nobody sleeps on an object that is gone.
LEMMA DestroyQueueKeeps ==
    ASSUME KInv, NEW id \in DOMAIN m_message_queues,
           m_message_queues[id] # NoQueue, destroy_message_queue(id)
    PROVE  KInv'
<1> DEFINE q == m_message_queues[id]
           woken == {p \in Members(waiters[q]) : AsleepOn(q, p)}
<1>1. q \in Queue
  BY SlotQueue DEF KInv, IpcInv
<1>2. CASE FollowDangling
  BY <1>2, FollowDanglingKeeps
<1>3. CASE /\ Members(waiters[q]) \subseteq LiveProcess
           /\ state' = [p \in Pid |-> IF p \in woken THEN "Ready" ELSE state[p]]
           /\ waiting_on' =
                [p \in Pid |-> IF p \in woken THEN NoQueue ELSE waiting_on[p]]
           /\ m_message_queues' = [m_message_queues EXCEPT ![id] = NoQueue]
           /\ messages' = [messages EXCEPT ![q] = 0]
           /\ waiters' = [waiters EXCEPT ![q] = <<>>]
           /\ UNCHANGED <<process_queue, current_index, rq_current,
                          m_current_process, registers, cpu, procVars,
                          m_next_queue_id, next_object, name, dangling>>
  <2>1. /\ \A p \in woken : state[p] = "Waiting"
        /\ \A p \in Pid : p \in Members(waiters[q]) /\ state[p] = "Waiting"
                            /\ waiting_on[p] = q => p \in woken
    BY DEF AsleepOn
  <2> HIDE DEF woken
  <2>2. SchedInv'
    <3>1. state' \in [Pid -> ProcessState]
      BY <1>3 DEF KInv, SchedInv, ProcessState
    <3>2. \A p \in Pid : /\ state'[p] = "None" <=> state[p] = "None"
                         /\ state'[p] = "Running" => state[p] = "Running"
      BY <1>3, <2>1
    <3> QED
      BY <1>3, <3>1, <3>2, WakeKeeps DEF KInv
  <2>3. /\ m_message_queues' \in Seq(Queue \cup {NoQueue})
        /\ Len(m_message_queues') = Len(m_message_queues)
        /\ DOMAIN m_message_queues' = DOMAIN m_message_queues
        /\ m_message_queues'[id] = NoQueue
        /\ \A j \in DOMAIN m_message_queues :
             j # id => m_message_queues'[j] = m_message_queues[j]
    BY <1>3 DEF KInv, IpcInv, IpcType
  <2>4. IpcType'
    <3>1. messages' \in [Queue -> 0 .. MAX_MESSAGES]
      BY <1>1, <1>3, KernelAssumption DEF KInv, IpcInv, IpcType
    <3>2. waiters' \in [Queue -> Seq(Pid)]
      BY <1>1, <1>3 DEF KInv, IpcInv, IpcType
    <3>3. waiting_on' \in [Pid -> Queue \cup {NoQueue}]
      BY <1>3 DEF KInv, IpcInv, IpcType
    <3> QED
      BY <1>3, <2>3, <3>1, <3>2, <3>3 DEF KInv, IpcInv, IpcType
  <2>5. NamesAreUnique'
    BY <1>3, <2>3 DEF KInv, IpcInv, NamesAreUnique
  <2>6. LiveQueue' \subseteq LiveQueue
    BY <2>3 DEF LiveQueue, Members
  <2>7. \A r \in LiveQueue : r # q => r \in LiveQueue'
    BY <2>3 DEF LiveQueue, Members
  <2>8. \A r \in LiveQueue' : r < next_object'
    BY <1>3, <2>6 DEF KInv, IpcInv
  <2>9. Sleepers'
    <3> SUFFICES ASSUME NEW p \in Pid, state'[p] = "Waiting"
                 PROVE  /\ waiting_on'[p] \in LiveQueue'
                        /\ p \in Members(waiters'[waiting_on'[p]])
      BY DEF Sleepers
    <3>1. p \notin woken /\ state[p] = "Waiting" /\ waiting_on'[p] = waiting_on[p]
      BY <1>3
    <3>2. waiting_on[p] \in LiveQueue /\ p \in Members(waiters[waiting_on[p]])
      BY <3>1 DEF KInv, Sleepers
    <3>3. waiting_on[p] # q
      BY <2>1, <3>1, <3>2
    <3>4. waiters'[waiting_on[p]] = waiters[waiting_on[p]]
      <4>1. waiting_on[p] \in Queue
        BY <3>2 DEF KInv, IpcInv, IpcType, LiveQueue
      <4> QED
        BY <1>3, <3>3, <4>1 DEF KInv, IpcInv, IpcType
    <3> QED
      BY <2>7, <3>1, <3>2, <3>3, <3>4
  <2> QED
    BY <2>2, <2>4, <2>5, <2>8, <2>9 DEF KInv, IpcInv
<1> QED
  BY <1>2, <1>3 DEF destroy_message_queue

\* send_message: the one waiter it takes off the list is awake afterwards.
LEMMA SendKeeps ==
    ASSUME KInv, NEW q \in Queue, send_message(q)
    PROVE  KInv'
<1> DEFINE first == Head(waiters[q])
<1>1. CASE FollowDangling
  BY <1>1, FollowDanglingKeeps
<1>2. ASSUME messages[q] < MAX_MESSAGES,
             waiters[q] # <<>> => first \in LiveProcess,
             messages' = [messages EXCEPT ![q] = @ + 1],
             UNCHANGED <<current_index, rq_current, m_current_process,
                         registers, cpu, procVars, m_message_queues,
                         m_next_queue_id, next_object, name, dangling>>
      PROVE  \/ /\ waiters[q] # <<>> /\ AsleepOn(q, first)
                /\ waiters' = [waiters EXCEPT ![q] = ShiftOut(@, 1)]
                /\ state' = [state EXCEPT ![first] = "Ready"]
                /\ waiting_on' = [waiting_on EXCEPT ![first] = NoQueue]
                /\ process_queue' = Added(process_queue, first)
             \/ UNCHANGED <<waiters, state, waiting_on, process_queue>>
             => KInv'
  <2>1. /\ messages' \in [Queue -> 0 .. MAX_MESSAGES]
        /\ LiveQueue' = LiveQueue
        /\ NamesAreUnique'
        /\ \A r \in LiveQueue' : r < next_object'
    <3>1. messages' \in [Queue -> 0 .. MAX_MESSAGES]
      BY <1>2, KernelAssumption DEF KInv, IpcInv, IpcType
    <3>2. LiveQueue' = LiveQueue
      BY <1>2 DEF LiveQueue
    <3>3. NamesAreUnique'
      BY <1>2 DEF NamesAreUnique, KInv, IpcInv
    <3> QED
      BY <1>2, <3>1, <3>2, <3>3 DEF KInv, IpcInv
  <2>2. CASE UNCHANGED <<waiters, state, waiting_on, process_queue>>
    <3>1. SchedInv'
      BY <1>2, <2>2, SchedKept DEF KInv, schedVars
    <3>2. IpcInv' /\ Sleepers'
      BY <1>2, <2>1, <2>2 DEF KInv, IpcInv, IpcType, Sleepers
    <3> QED
      BY <3>1, <3>2 DEF KInv
  <2>3. CASE /\ waiters[q] # <<>> /\ AsleepOn(q, first)
             /\ waiters' = [waiters EXCEPT ![q] = ShiftOut(@, 1)]
             /\ state' = [state EXCEPT ![first] = "Ready"]
             /\ waiting_on' = [waiting_on EXCEPT ![first] = NoQueue]
             /\ process_queue' = Added(process_queue, first)
    <3>1. first \in LiveProcess /\ first \in Pid /\ state[first] = "Waiting"
      BY <1>2, <2>3, SameMembers DEF KInv, AsleepOn
    <3>2. process_queue' = process_queue
      BY <2>3, <3>1, SameMembers DEF KInv, Added
    <3>3. /\ waiters[q] \in Seq(Pid)
          /\ 1 \in 1 .. Len(waiters[q])
          /\ first = waiters[q][1]
      BY <2>3 DEF KInv, IpcInv, IpcType
    <3>4. /\ ShiftOut(waiters[q], 1) \in Seq(Pid)
          /\ \A p \in Members(waiters[q]) :
               p # first => p \in Members(ShiftOut(waiters[q], 1))
      BY <3>3, ShiftOutSeq
    <3> HIDE DEF first
    <3>5. \A p \in Pid : state'[p] = IF p = first THEN "Ready" ELSE state[p]
      BY <2>3, <3>1 DEF KInv, SchedInv
    <3>6. SchedInv'
      <4>1. state' \in [Pid -> ProcessState]
        BY <2>3, <3>1 DEF KInv, SchedInv, ProcessState
      <4>2. \A p \in Pid : /\ state'[p] = "None" <=> state[p] = "None"
                           /\ state'[p] = "Running" => state[p] = "Running"
        BY <3>1, <3>5
      <4> QED
        BY <1>2, <3>2, <4>1, <4>2, WakeKeeps DEF KInv
    <3>7. IpcInv'
      <4>1. waiters' \in [Queue -> Seq(Pid)]
        BY <2>3, <3>4 DEF KInv, IpcInv, IpcType
      <4>2. waiting_on' \in [Pid -> Queue \cup {NoQueue}]
        BY <2>3, <3>1 DEF KInv, IpcInv, IpcType
      <4> QED
        BY <1>2, <2>1, <4>1, <4>2 DEF KInv, IpcInv, IpcType
    <3>8. Sleepers'
      <4> SUFFICES ASSUME NEW p \in Pid, state'[p] = "Waiting"
                   PROVE  /\ waiting_on'[p] \in LiveQueue'
                          /\ p \in Members(waiters'[waiting_on'[p]])
        BY DEF Sleepers
      <4>1. p # first /\ state[p] = "Waiting"
        BY <3>5
      <4>2. waiting_on'[p] = waiting_on[p]
        BY <2>3, <4>1 DEF KInv, IpcInv, IpcType
      <4>3. waiting_on[p] \in LiveQueue /\ p \in Members(waiters[waiting_on[p]])
        BY <4>1 DEF KInv, Sleepers
      <4>4. waiting_on[p] \in Queue
        BY <4>3 DEF KInv, IpcInv, IpcType, LiveQueue
      <4>5. CASE waiting_on[p] = q
        <5>1. waiters'[q] = ShiftOut(waiters[q], 1)
          BY <2>3 DEF KInv, IpcInv, IpcType
        <5> QED
          BY <2>1, <3>4, <4>1, <4>2, <4>3, <4>5, <5>1
      <4>6. CASE waiting_on[p] # q
        <5>1. waiters'[waiting_on[p]] = waiters[waiting_on[p]]
          BY <2>3, <4>4, <4>6 DEF KInv, IpcInv, IpcType
        <5> QED
          BY <2>1, <4>2, <4>3, <5>1
      <4> QED
        BY <4>5, <4>6
    <3> QED
      BY <3>6, <3>7, <3>8 DEF KInv
  <2> QED
    BY <2>2, <2>3
<1> QED
  BY <1>1, <1>2 DEF send_message

\* receive_message takes a message only when there is one.
LEMMA TakeKeeps ==
    ASSUME KInv, NEW q \in Queue, messages[q] > 0, NEW cont \in Seq(Frame),
           take_message(q, cont)
    PROVE  KInv'
<1>1. SchedInv'
  BY ContinueKeeps DEF take_message, KInv
<1>2. messages' \in [Queue -> 0 .. MAX_MESSAGES]
  BY KernelAssumption DEF take_message, KInv, IpcInv, IpcType
<1>3. /\ LiveQueue' = LiveQueue
      /\ state' = state
      /\ UNCHANGED <<m_message_queues, m_next_queue_id, next_object, name,
                     waiters, waiting_on, dangling>>
  BY DEF take_message, LiveQueue
<1>4. IpcInv' /\ Sleepers'
  BY <1>2, <1>3 DEF KInv, IpcInv, IpcType, NamesAreUnique, Sleepers
<1> QED
  BY <1>1, <1>4 DEF KInv

\* receive_message on an empty queue: the caller is listed before schedule()
\* can leave it Waiting.
LEMMA WaitKeeps ==
    ASSUME KInv, m_current_process # NoProcess,
           NEW q \in LiveQueue, wait_for_message(q, m_current_process)
    PROVE  KInv'
<1> DEFINE p == m_current_process
           st == [state EXCEPT ![p] = "Waiting"]
<1>1. q \in Queue /\ p \in Pid /\ state[p] # "None"
  <2>1. q \in Queue
    BY DEF KInv, IpcInv, IpcType, LiveQueue, Members
  <2>2. p \in LiveProcess
    BY DEF KInv, SchedInv, CurrentAgrees
  <2> QED
    BY <2>1, <2>2, SameMembers DEF KInv, SchedInv
<1>2. <<Receiving(q)>> \o cpu \in Seq(Frame)
  BY <1>1, FrameTypes, PushFrame DEF KInv, SchedInv
<1>3. /\ st \in [Pid -> ProcessState]
      /\ \A r \in Pid : st[r] = IF r = p THEN "Waiting" ELSE state[r]
  BY <1>1 DEF KInv, SchedInv, ProcessState
<1>4. /\ schedule(process_queue, current_index, rq_current, st, p,
                  <<Receiving(q)>> \o cpu)
      /\ waiting_on' = [waiting_on EXCEPT ![p] = q]
      /\ waiters' = [waiters EXCEPT ![q] = Append(@, p)]
      /\ UNCHANGED <<procVars, m_message_queues, m_next_queue_id, next_object,
                     name, messages, dangling>>
  BY DEF wait_for_message
<1> HIDE DEF st
<1>5. /\ SchedInv'
      /\ \A r \in Pid : state'[r] = "Waiting" => st[r] = "Waiting"
  <2>1. \A r \in Pid : /\ st[r] = "None" <=> state[r] = "None"
                       /\ st[r] = "Running" => state[r] = "Running"
    BY <1>1, <1>3
  <2> QED
    BY <1>2, <1>3, <1>4, <2>1, YieldKeeps DEF KInv
<1>6. LiveQueue' = LiveQueue
  BY <1>4 DEF LiveQueue
<1>7. /\ waiters[q] \in Seq(Pid)
      /\ Append(waiters[q], p) \in Seq(Pid)
      /\ Members(waiters[q]) \subseteq Members(Append(waiters[q], p))
      /\ p \in Members(Append(waiters[q], p))
  <2>1. waiters[q] \in Seq(Pid)
    BY <1>1 DEF KInv, IpcInv, IpcType
  <2>2. /\ Append(waiters[q], p) \in Seq(Pid)
        /\ Len(Append(waiters[q], p)) = Len(waiters[q]) + 1
        /\ Append(waiters[q], p)[Len(waiters[q]) + 1] = p
        /\ \A i \in 1 .. Len(waiters[q]) :
             Append(waiters[q], p)[i] = waiters[q][i]
    BY <1>1, <2>1
  <2>3. /\ Len(waiters[q]) \in Nat
        /\ DOMAIN waiters[q] = 1 .. Len(waiters[q])
        /\ DOMAIN Append(waiters[q], p) = 1 .. Len(waiters[q]) + 1
    BY <2>1, <2>2
  <2> QED
    BY <2>1, <2>2, <2>3 DEF Members
<1>8. IpcInv'
  <2>1. waiters' \in [Queue -> Seq(Pid)]
    BY <1>1, <1>4, <1>7 DEF KInv, IpcInv, IpcType
  <2>2. waiting_on' \in [Pid -> Queue \cup {NoQueue}]
    BY <1>1, <1>4 DEF KInv, IpcInv, IpcType
  <2> QED
    BY <1>4, <1>6, <2>1, <2>2 DEF KInv, IpcInv, IpcType, NamesAreUnique
<1>9. Sleepers'
  <2> SUFFICES ASSUME NEW r \in Pid, state'[r] = "Waiting"
               PROVE  /\ waiting_on'[r] \in LiveQueue'
                      /\ r \in Members(waiters'[waiting_on'[r]])
    BY DEF Sleepers
  <2>1. waiters'[q] = Append(waiters[q], p)
    BY <1>1, <1>4 DEF KInv, IpcInv, IpcType
  <2>2. CASE r = p
    <3>1. waiting_on'[p] = q
      BY <1>1, <1>4 DEF KInv, IpcInv, IpcType
    <3> QED
      BY <1>6, <1>7, <2>1, <2>2, <3>1
  <2>3. CASE r # p
    <3>1. state[r] = "Waiting"
      BY <1>3, <1>5, <2>3
    <3>2. waiting_on'[r] = waiting_on[r]
      BY <1>4, <2>3 DEF KInv, IpcInv, IpcType
    <3>3. waiting_on[r] \in LiveQueue /\ r \in Members(waiters[waiting_on[r]])
      BY <3>1 DEF KInv, Sleepers
    <3>4. CASE waiting_on[r] = q
      BY <1>6, <1>7, <2>1, <3>2, <3>3, <3>4
    <3>5. CASE waiting_on[r] # q
      <4>1. waiting_on[r] \in Queue
        BY <3>3 DEF KInv, IpcInv, IpcType, LiveQueue
      <4>2. waiters'[waiting_on[r]] = waiters[waiting_on[r]]
        BY <1>4, <3>5, <4>1 DEF KInv, IpcInv, IpcType
      <4> QED
        BY <1>6, <3>2, <3>3, <4>2
    <3> QED
      BY <3>4, <3>5
  <2> QED
    BY <2>2, <2>3
<1> QED
  BY <1>5, <1>8, <1>9 DEF KInv

\* create_process, whether it succeeds or only uses up a pid.
LEMMA CreateKeepsInv ==
    ASSUME KInv, NEW regs \in Seq(Frame), NEW cont \in Seq(Frame),
           create_process(regs, cont)
    PROVE  KInv'
<1>1. /\ SchedInv'
      /\ \A q \in Pid : state'[q] = "Waiting" => state[q] = "Waiting"
  BY CreateKeeps DEF KInv
<1>2. IpcInv' /\ Sleepers'
  BY <1>1, IpcKept DEF create_process, KInv
<1> QED
  BY <1>1, <1>2 DEF KInv

LEMMA CreateFailsKeepsInv ==
    ASSUME KInv, NEW cont \in Seq(Frame), create_process_fails(cont)
    PROVE  KInv'
<1>1. /\ UNCHANGED <<process_queue, current_index, rq_current, state,
                     m_current_process, registers, process_list>>
      /\ cpu' = cont
      /\ m_next_pid' = m_next_pid + 1
      /\ LiveProcess' = LiveProcess
  BY DEF create_process_fails, LiveProcess
<1>2. \A p \in LiveProcess : p < m_next_pid + 1
  BY SameMembers DEF KInv, SchedInv, Pid
<1>3. SchedInv'
  BY <1>1, <1>2 DEF KInv, SchedInv, CurrentAgrees
<1>4. IpcInv' /\ Sleepers'
  BY <1>1, IpcKept DEF create_process_fails, KInv
<1> QED
  BY <1>3, <1>4 DEF KInv

LEMMA TerminateKeepsInv ==
    ASSUME KInv, NEW p \in Pid, NEW cont \in Seq(Frame),
           terminate_process(p, cont)
    PROVE  KInv'
<1>1. /\ SchedInv'
      /\ \A q \in Pid : state'[q] = "Waiting" => state[q] = "Waiting"
  BY TerminateKeeps DEF KInv
<1>2. IpcInv' /\ Sleepers'
  BY <1>1, IpcKept DEF terminate_process, KInv
<1> QED
  BY <1>1, <1>2 DEF KInv

-----------------------------------------------------------------------------
LEMMA KInvInit ==
    Init => KInv
<1> SUFFICES ASSUME Init PROVE KInv
  OBVIOUS
<1> USE DEF Init, shell_pid
<1>1. 1 \in Pid /\ NoProcess \notin Pid
  BY KernelAssumption DEF Pid, NoProcess
<1>2. /\ process_list \in Seq(Pid) /\ process_queue \in Seq(Pid)
      /\ Len(process_list) = 1 /\ Len(process_queue) = 1
      /\ process_list[1] = 1 /\ process_queue[1] = 1
      /\ DOMAIN process_list = {1} /\ DOMAIN process_queue = {1}
  BY <1>1
<1>3. LiveProcess = {1}
  BY <1>2 DEF LiveProcess, Members
<1>4. /\ state \in [Pid -> ProcessState]
      /\ \A p \in Pid : state[p] = IF p = 1 THEN "Ready" ELSE "None"
  BY DEF ProcessState
<1>5. CurrentAgrees
  BY <1>2, <1>3, <1>4 DEF CurrentAgrees
<1>6. /\ Distinct(process_queue)
      /\ Mirror(process_list, process_queue)
      /\ IndexIn(process_queue, current_index)
  BY <1>2 DEF Distinct, Mirror, IndexIn
<1>7. registers \in [Pid -> Seq(Frame)] /\ cpu \in Seq(Frame)
  BY FrameTypes
<1>8. SchedInv
  BY <1>2, <1>3, <1>4, <1>5, <1>6, <1>7 DEF SchedInv
<1>9. IpcType
  <2>1. name \in [Queue -> Name]
    BY KernelAssumption
  <2>2. messages \in [Queue -> 0 .. MAX_MESSAGES]
    BY KernelAssumption
  <2>3. /\ m_message_queues \in Seq(Queue \cup {NoQueue})
        /\ Len(m_message_queues) = 0
        /\ m_next_queue_id = Len(m_message_queues) + 1
        /\ next_object \in Nat
    OBVIOUS
  <2>4. waiters \in [Queue -> Seq(Pid)]
    OBVIOUS
  <2>5. waiting_on \in [Pid -> Queue \cup {NoQueue}]
    OBVIOUS
  <2>6. dangling \in BOOLEAN
    BY Zenon
  <2> QED
    BY <2>1, <2>2, <2>3, <2>4, <2>5, <2>6 DEF IpcType
<1>10. IpcInv /\ Sleepers
  BY <1>4, <1>9 DEF IpcInv, NamesAreUnique, LiveQueue, Members, Sleepers
<1> QED
  BY <1>8, <1>10 DEF KInv

\* Every operation keeps the invariant.
LEMMA KInvStep ==
    KInv /\ [Next]_vars => KInv'
<1> SUFFICES ASSUME KInv, [Next]_vars PROVE KInv'
  OBVIOUS
<1>1. /\ cpu \in Seq(Frame)
      /\ registers \in [Pid -> Seq(Frame)]
      /\ m_current_process # NoProcess => m_current_process \in Pid
  BY SameMembers DEF KInv, SchedInv, CurrentAgrees
<1>2. ASSUME cpu # <<>>
      PROVE  Head(cpu) \in Frame /\ Tail(cpu) \in Seq(Frame)
  BY <1>1, <1>2, TopFrame
<1>3. CASE sys_fork
  <2>1. registers[m_current_process] \in Seq(Frame)
    BY <1>1, <1>3 DEF sys_fork, InCall
  <2> QED
    BY <1>1, <1>3, <2>1, CreateKeepsInv, CreateFailsKeepsInv DEF sys_fork
<1>4. CASE sys_exit
  BY <1>1, <1>4, TerminateKeepsInv DEF sys_exit, InCall
<1>5. CASE sys_execve
  <2>1. CASE terminate_process(m_current_process, cpu)
    BY <1>1, <1>5, <2>1, TerminateKeepsInv DEF sys_execve, InCall
  <2>2. CASE /\ registers' = [registers EXCEPT ![m_current_process] = <<>>]
             /\ UNCHANGED <<process_queue, current_index, rq_current, state,
                            m_current_process, cpu, procVars, ipcVars,
                            dangling>>
    <3>1. registers' \in [Pid -> Seq(Frame)]
      <4>1. <<>> \in Seq(Frame)
        OBVIOUS
      <4> QED
        BY <1>1, <2>2, <4>1
    <3>2. UNCHANGED <<process_list, m_next_pid>> /\ LiveProcess' = LiveProcess
      BY <2>2 DEF procVars, LiveProcess
    <3>3. SchedInv'
      BY <2>2, <3>1, <3>2 DEF KInv, SchedInv, CurrentAgrees
    <3>4. IpcInv' /\ Sleepers'
      BY <2>2, IpcKept DEF KInv
    <3> QED
      BY <3>3, <3>4 DEF KInv
  <2> QED
    BY <1>5, <2>1, <2>2 DEF sys_execve
<1>6. CASE sys_sched_yield
  <2>1. /\ SchedInv'
        /\ \A p \in Pid : state'[p] = "Waiting" => state[p] = "Waiting"
    BY <1>1, <1>6, YieldKeeps DEF sys_sched_yield, InCall, KInv, SchedInv
  <2>2. IpcInv' /\ Sleepers'
    BY <1>6, <2>1, IpcKept DEF sys_sched_yield, KInv
  <2> QED
    BY <2>1, <2>2 DEF KInv
<1>7. ASSUME NEW n \in Name, sys_msg_create(n) PROVE KInv'
  <2>1. SchedInv' /\ state' = state /\ dangling' = dangling
    BY <1>7, SchedKept DEF sys_msg_create, KInv, schedVars
  <2>2. IpcInv' /\ Sleepers'
    BY <1>7, <2>1, CreateQueueKeeps DEF sys_msg_create, KInv
  <2> QED
    BY <2>1, <2>2 DEF KInv
<1>8. ASSUME NEW id \in DOMAIN m_message_queues, sys_msg_destroy(id)
      PROVE  KInv'
  BY <1>8, DestroyQueueKeeps DEF sys_msg_destroy, ValidId
<1>9. ASSUME NEW id \in DOMAIN m_message_queues, sys_msg_send(id)
      PROVE  KInv'
  BY <1>9, SlotQueue, SendKeeps DEF sys_msg_send, ValidId, KInv, IpcInv
<1>10. ASSUME NEW id \in DOMAIN m_message_queues, sys_msg_receive(id)
       PROVE  KInv'
  <2> DEFINE q == m_message_queues[id]
  <2>1. q \in Queue /\ q \in LiveQueue /\ m_current_process # NoProcess
    BY <1>10, SlotQueue DEF sys_msg_receive, ValidId, KInv, IpcInv, InCall
  <2>2. CASE messages[q] > 0
    <3>1. take_message(q, cpu)
      BY <1>10, <2>2 DEF sys_msg_receive
    <3> QED
      BY <1>1, <2>1, <2>2, <3>1, TakeKeeps
  <2>3. CASE ~(messages[q] > 0)
    <3>1. wait_for_message(q, m_current_process)
      BY <1>10, <2>3 DEF sys_msg_receive
    <3> QED
      BY <2>1, <3>1, WaitKeeps
  <2> QED
    BY <2>2, <2>3
<1>11. CASE resume_receive
  <2> DEFINE q == Head(cpu).arg
  <2>1. q \in Queue /\ Tail(cpu) \in Seq(Frame)
    BY <1>2, <1>11, FrameTypes DEF resume_receive, Executing
  <2>2. CASE q \notin LiveQueue
    BY <1>11, <2>2, FollowDanglingKeeps DEF resume_receive
  <2>3. CASE q \in LiveQueue /\ messages[q] > 0
    <3>1. take_message(q, Tail(cpu))
      BY <1>11, <2>3 DEF resume_receive
    <3> QED
      BY <2>1, <2>3, <3>1, TakeKeeps
  <2>4. CASE q \in LiveQueue /\ ~(messages[q] > 0)
    <3>1. /\ Continue(Tail(cpu))
          /\ UNCHANGED <<process_queue, current_index, rq_current, state,
                         m_current_process, procVars, ipcVars, dangling>>
      BY <1>11, <2>4 DEF resume_receive
    <3>2. SchedInv'
      BY <2>1, <3>1, ContinueKeeps DEF KInv
    <3>3. IpcInv' /\ Sleepers'
      BY <3>1, IpcKept DEF KInv
    <3> QED
      BY <3>2, <3>3 DEF KInv
  <2> QED
    BY <2>2, <2>3, <2>4
<1>12. CASE shell_command
  <2>1. CASE create_process(Zero, <<Killing(m_next_pid)>> \o cpu)
    <3>1. <<Killing(m_next_pid)>> \o cpu \in Seq(Frame)
      BY <1>1, <2>1, FrameTypes, PushFrame DEF create_process
    <3> QED
      BY <2>1, <3>1, FrameTypes, CreateKeepsInv
  <2>2. CASE create_process_fails(cpu)
    BY <1>1, <2>2, CreateFailsKeepsInv
  <2> QED
    BY <1>12, <2>1, <2>2 DEF shell_command
<1>13. ASSUME NEW target \in Pid, cmd_pkill(target) PROVE KInv'
  <2>1. CASE create_process(Zero,
                            <<Killing(target), Killing(m_next_pid)>> \o cpu)
    <3>1. Killing(target) \in Frame /\ Killing(m_next_pid) \in Frame
      BY <2>1, FrameTypes DEF create_process
    <3>2. <<Killing(target), Killing(m_next_pid)>> \o cpu \in Seq(Frame)
      BY <1>1, <3>1
    <3> QED
      BY <2>1, <3>2, FrameTypes, CreateKeepsInv
  <2>2. CASE create_process_fails(<<Killing(target)>> \o cpu)
    <3>1. <<Killing(target)>> \o cpu \in Seq(Frame)
      BY <1>1, FrameTypes, PushFrame
    <3> QED
      BY <2>2, <3>1, CreateFailsKeepsInv
  <2> QED
    BY <1>13, <2>1, <2>2 DEF cmd_pkill
<1>14. CASE run_terminate
  <2>1. Head(cpu).arg \in Pid /\ Tail(cpu) \in Seq(Frame)
    BY <1>2, <1>14, FrameTypes DEF run_terminate, Executing
  <2> QED
    BY <1>14, <2>1, TerminateKeepsInv DEF run_terminate
<1>15. CASE UNCHANGED vars
  <2>1. UNCHANGED <<schedVars, procVars, ipcVars, dangling, state>>
    BY <1>15 DEF vars, schedVars
  <2> QED
    BY <2>1, SchedKept, IpcKept DEF KInv
<1> QED
  BY <1>3, <1>4, <1>5, <1>6, <1>7, <1>8, <1>9, <1>10, <1>11, <1>12, <1>13,
     <1>14, <1>15 DEF Next

LEMMA KInvAlways ==
    Spec => []KInv
BY KInvInit, KInvStep, PTL DEF Spec

-----------------------------------------------------------------------------
\* Every variable keeps its type; in particular a queue never holds fewer
\* than 0 or more than MAX_MESSAGES messages, since receive_message counts
\* again after it was suspended.
THEOREM TypesHold ==
    Spec => []TypeOK
<1>1. KInv => TypeOK
  <2> SUFFICES ASSUME KInv PROVE TypeOK
    OBVIOUS
  <2>1. /\ rq_current \in Pid \cup {NoProcess}
        /\ m_current_process \in Pid \cup {NoProcess}
    BY SameMembers DEF KInv, SchedInv, CurrentAgrees
  <2> QED
    BY <2>1 DEF KInv, SchedInv, IpcInv, IpcType, TypeOK
<1> QED
  BY <1>1, KInvAlways, PTL

\* The run queue is the process list reversed, whatever is created, killed,
\* put to sleep or woken up (add_process, remove_process).
THEOREM RunQueueIsExact ==
    Spec => []RunQueueMirrorsList
<1>1. KInv => RunQueueMirrorsList
  BY DEF KInv, SchedInv, Mirror, Distinct, RunQueueMirrorsList
<1> QED
  BY <1>1, KInvAlways, PTL

\* remove_process and select_next_process keep current_index inside the run
\* queue, so that the loop of select_next_process ends.
THEOREM IndexStaysInRange ==
    Spec => []IndexInRange
<1>1. KInv => IndexInRange
  BY DEF KInv, SchedInv, IndexIn, IndexInRange
<1> QED
  BY <1>1, KInvAlways, PTL

\* The scheduler and the process manager agree on the current process, and
\* only that process is Running.
THEOREM CurrentIsAgreed ==
    Spec => []CurrentAgrees
<1>1. KInv => CurrentAgrees
  BY DEF KInv, SchedInv
<1> QED
  BY <1>1, KInvAlways, PTL

\* A Waiting process is on the waiter list of a live queue.
THEOREM SleepersStayListed ==
    Spec => []SleepersAreListed
<1>1. KInv => SleepersAreListed
  BY SameMembers DEF KInv, Sleepers, SleepersAreListed
<1> QED
  BY <1>1, KInvAlways, PTL

\* create_message_queue never gives two live queues one name.
THEOREM NamesStayUnique ==
    Spec => []NamesAreUnique
<1>1. KInv => NamesAreUnique
  BY DEF KInv, IpcInv
<1> QED
  BY <1>1, KInvAlways, PTL
-----------------------------------------------------------------------------
(***************************************************************************)
(* The messages of a queue, in the vector that holds them, for any set of  *)
(* messages: the vector's slots are in order (StoreInv), and the queue     *)
(* implements Fifo.                                                        *)
(***************************************************************************)
CONSTANT Message
VARIABLES m_data, m_size, m_capacity, answer, event

Store == INSTANCE MessageStore

LEMMA EmptyFacts ==
    ASSUME NEW S
    PROVE  /\ <<>> \in Seq(S) /\ Len(<<>>) = 0
           /\ \A s \in Seq(S) : s # <<>> => Len(s) \in Nat \ {0}
  OBVIOUS

LEMMA HeadTailFacts ==
    ASSUME NEW S, NEW s \in Seq(S), s # <<>>
    PROVE  /\ Head(s) \in S /\ Tail(s) \in Seq(S) /\ Len(Tail(s)) = Len(s) - 1
           /\ \A i \in 1 .. Len(Tail(s)) : Tail(s)[i] = s[i + 1]
  OBVIOUS

LEMMA AppendFacts ==
    ASSUME NEW S, NEW s \in Seq(S), NEW e \in S
    PROVE  /\ Append(s, e) \in Seq(S) /\ Append(s, e) # <<>> /\ Len(Append(s, e)) = Len(s) + 1
           /\ \A i \in 1 .. Len(s) : Append(s, e)[i] = s[i]
           /\ Append(s, e)[Len(s) + 1] = e
  OBVIOUS

LEMMA SameSeq ==
    ASSUME NEW S, NEW s \in Seq(S), NEW t \in Seq(S), Len(s) = Len(t),
           \A i \in 1 .. Len(s) : s[i] = t[i]
    PROVE  s = t
  OBVIOUS

\* Slots and sizes belong together: neither is inductive without the other,
\* since a raw slot below m_size would be received as a message.
StoreInv == Store!TypeOK /\ Store!SlotsInUse

\* The queue that a state stands for.
StoreQueue == [i \in 1 .. m_size |-> m_data[i - 1]]

\* Raw memory is no message, and the bound on a queue is a number.
LEMMA StoreConstants == Store!Raw \notin Message /\ Store!MAX_MESSAGES_PER_QUEUE \in Nat
  BY NoSetContainsEverything DEF Store!Raw, Store!MAX_MESSAGES_PER_QUEUE

\* The slot of the i-th message of a queue of s messages in c slots.
LEMMA SlotIndex ==
    ASSUME NEW c \in Nat, NEW s \in 0 .. c, NEW i \in 1 .. s
    PROVE  i - 1 \in 0 .. c - 1 /\ i - 1 < s
  BY SMT

\* The answers that calls give.
LEMMA AnswerType ==
    ASSUME NEW msg \in Message
    PROVE  /\ Store!No \in [ok : BOOLEAN, message : Seq(Message)]
           /\ Store!Yes(msg) \in [ok : BOOLEAN, message : Seq(Message)]
  BY DEF Store!No, Store!Yes

\* The initial state is an empty vector.
LEMMA StoreInit == Store!Init => StoreInv
  <1>1. [i \in {} |-> Store!Raw] = <<>> /\ 0 .. -1 = {}
    BY SMT
  <1> QED
    BY <1>1, AnswerType, StoreConstants DEF Store!Init, StoreInv, Store!TypeOK, Store!SlotsInUse, Store!No

\* Growing keeps the messages and leaves room for one more.
LEMMA Grown ==
    ASSUME StoreInv
    PROVE  /\ Store!grown \in Nat /\ m_size < Store!grown /\ m_capacity <= Store!grown
           /\ Store!reserve(Store!grown) \in [0 .. Store!grown - 1 -> Message \union {Store!Raw}]
           /\ \A i \in 0 .. Store!grown - 1 :
                /\ i < m_size => Store!reserve(Store!grown)[i] = m_data[i]
                /\ i >= m_size => Store!reserve(Store!grown)[i] = Store!Raw
  <1> USE DEF StoreInv, Store!TypeOK, Store!SlotsInUse
  <1>1. Store!grown \in Nat /\ m_size < Store!grown /\ m_capacity <= Store!grown
    BY DEF Store!grown
  <1>2. CASE Store!grown <= m_capacity
    BY <1>1, <1>2 DEF Store!reserve
  <1>3. CASE Store!grown > m_capacity
    <2>1. Store!reserve(Store!grown)
             = [i \in 0 .. Store!grown - 1 |-> IF i < m_size THEN m_data[i] ELSE Store!Raw]
      BY <1>1, <1>3 DEF Store!reserve
    <2>2. \A i \in 0 .. Store!grown - 1 : i < m_size => i \in 0 .. m_capacity - 1
      BY <1>1
    <2> QED
      BY <1>1, <2>1, <2>2
  <1> QED
    BY <1>1, <1>2, <1>3

\* What push_back leaves: the new message behind the others.
LEMMA Pushed ==
    ASSUME StoreInv, NEW msg \in Message, Store!push_back(msg), ~Store!is_full
    PROVE  /\ m_size' = m_size + 1 /\ m_size' \in 0 .. m_capacity'
           /\ m_size' <= Store!MAX_MESSAGES_PER_QUEUE
           /\ m_capacity' \in Nat
           /\ m_data' \in [0 .. m_capacity' - 1 -> Message \union {Store!Raw}]
           /\ \A i \in 0 .. m_capacity' - 1 :
                /\ i < m_size => m_data'[i] = m_data[i]
                /\ i = m_size => m_data'[i] = msg
                /\ i > m_size => m_data'[i] = Store!Raw
  <1>1. m_size \in Nat /\ m_size \in 0 .. Store!grown - 1 /\ Store!grown \in Nat
    BY Grown DEF StoreInv, Store!TypeOK
  <1>2. m_data' = [Store!reserve(Store!grown) EXCEPT ![m_size] = msg] /\ m_capacity' = Store!grown
        /\ m_size' = m_size + 1
    BY DEF Store!push_back
  <1>3. m_size < Store!MAX_MESSAGES_PER_QUEUE
    BY <1>1, StoreConstants DEF Store!is_full
  <1> HIDE DEF Store!grown, Store!reserve
  <1> QED
    BY <1>1, <1>2, <1>3, Grown, StoreConstants

\* What receive_message leaves: every message one slot lower.
LEMMA Shifted ==
    ASSUME StoreInv, m_size # 0
    PROVE  /\ Store!popped(Store!shifted) \in [0 .. m_capacity - 1 -> Message \union {Store!Raw}]
           /\ \A i \in 0 .. m_capacity - 1 :
                /\ i < m_size - 1 => Store!popped(Store!shifted)[i] = m_data[i + 1]
                /\ i >= m_size - 1 => Store!popped(Store!shifted)[i] = Store!Raw
           /\ m_data[0] \in Message
  <1> USE DEF StoreInv, Store!TypeOK, Store!SlotsInUse
  <1>1. DOMAIN m_data = 0 .. m_capacity - 1 /\ m_size \in 1 .. m_capacity
    BY SMT
  <1>2. \A i \in 0 .. m_capacity - 1 : i < m_size - 1 => i + 1 \in 0 .. m_capacity - 1
    BY <1>1
  <1>3. Store!shifted \in [0 .. m_capacity - 1 -> Message \union {Store!Raw}]
    BY <1>1, <1>2 DEF Store!shifted
  <1>4. \A i \in 0 .. m_capacity - 1 :
          Store!shifted[i] = IF i < m_size - 1 THEN m_data[i + 1] ELSE m_data[i]
    BY <1>1 DEF Store!shifted
  <1>5. Store!popped(Store!shifted) \in [0 .. m_capacity - 1 -> Message \union {Store!Raw}]
    BY <1>3 DEF Store!popped
  <1>6. \A i \in 0 .. m_capacity - 1 :
          Store!popped(Store!shifted)[i] = IF i = m_size - 1 THEN Store!Raw ELSE Store!shifted[i]
    BY <1>1, <1>3 DEF Store!popped
  <1>7. \A i \in 0 .. m_capacity - 1 : i >= m_size => m_data[i] = Store!Raw
    BY <1>1
  <1>8. m_data[0] \in Message
    BY <1>1
  <1> HIDE DEF StoreInv, Store!TypeOK, Store!SlotsInUse
  <1>9. m_size \in Nat /\ m_capacity \in Nat
    BY DEF StoreInv, Store!TypeOK
  <1>10. ASSUME NEW i \in 0 .. m_capacity - 1
         PROVE  /\ i < m_size - 1 => Store!popped(Store!shifted)[i] = m_data[i + 1]
                /\ i >= m_size - 1 => Store!popped(Store!shifted)[i] = Store!Raw
    <2>1. i < m_size - 1 => Store!popped(Store!shifted)[i] = m_data[i + 1]
      BY <1>4, <1>6, <1>9
    <2>2. i = m_size - 1 => Store!popped(Store!shifted)[i] = Store!Raw
      BY <1>6
    <2>3. i >= m_size => Store!popped(Store!shifted)[i] = Store!Raw
      BY <1>4, <1>6, <1>7, <1>9
    <2> QED
      BY <1>9, <2>1, <2>2, <2>3
  <1> QED
    BY <1>5, <1>8, <1>10

\* Every step keeps the slots in order.
LEMMA StoreStep == StoreInv /\ [Store!Next]_(Store!vars) => StoreInv'
  <1> SUFFICES ASSUME StoreInv, [Store!Next]_(Store!vars) PROVE StoreInv'
    OBVIOUS
  <1> USE DEF StoreInv
  <1>1. ASSUME NEW msg \in Message, Store!send_message(msg) PROVE StoreInv'
    <2>1. CASE Store!is_full
      BY <1>1, <2>1, AnswerType DEF Store!send_message, Store!TypeOK, Store!SlotsInUse
    <2>2. CASE ~Store!is_full
      <3>1. Store!push_back(msg) /\ answer' = Store!Yes(msg) /\ event' = event
        BY <1>1, <2>2 DEF Store!send_message
      <3>2. Store!TypeOK'
        BY <2>2, <3>1, Pushed, AnswerType DEF Store!TypeOK
      <3>3. Store!SlotsInUse'
        <4>1. \A i \in 0 .. m_capacity' - 1 : i < m_size => m_data'[i] = m_data[i] /\ m_data[i] # Store!Raw
          BY <2>2, <3>1, Pushed DEF Store!TypeOK, Store!SlotsInUse
        <4> QED
          BY <2>2, <3>1, <4>1, Pushed, StoreConstants DEF Store!TypeOK, Store!SlotsInUse
      <3> QED
        BY <3>2, <3>3
    <2> QED
      BY <2>1, <2>2
  <1>2. CASE Store!out_of_memory
    BY <1>2 DEF Store!out_of_memory, Store!TypeOK, Store!SlotsInUse
  <1>3. CASE Store!receive_message
    <2>1. CASE m_size = 0
      <3>1. answer' = Store!No /\ UNCHANGED <<m_data, m_size, m_capacity, event>>
        BY <1>3, <2>1 DEF Store!receive_message
      <3>2. Store!No \in [ok : BOOLEAN, message : Seq(Message)]
        BY DEF Store!No
      <3> QED
        BY <3>1, <3>2 DEF Store!TypeOK, Store!SlotsInUse
    <2>2. CASE m_size # 0
      <3>1. answer' = Store!Yes(m_data[0]) /\ m_data' = Store!popped(Store!shifted) /\ m_size' = m_size - 1
            /\ UNCHANGED <<m_capacity, event>>
        BY <1>3, <2>2 DEF Store!receive_message
      <3>2. m_data[0] \in Message
        BY <2>2, Shifted
      <3>3. Store!TypeOK'
        <4>1. m_size' \in 0 .. m_capacity' /\ m_size' <= Store!MAX_MESSAGES_PER_QUEUE
          BY <2>2, <3>1, StoreConstants DEF Store!TypeOK
        <4>2. m_data' \in [0 .. m_capacity' - 1 -> Message \union {Store!Raw}]
          BY <2>2, <3>1, Shifted
        <4>3. answer' \in [ok : BOOLEAN, message : Seq(Message)]
          BY <3>1, <3>2, AnswerType
        <4> QED
          BY <3>1, <4>1, <4>2, <4>3 DEF Store!TypeOK
      <3>4. \A i \in 0 .. m_capacity - 1 : i < m_size - 1 => m_data[i + 1] # Store!Raw
        BY DEF Store!TypeOK, Store!SlotsInUse
      <3>5. Store!SlotsInUse'
        BY <2>2, <3>1, <3>4, Shifted DEF Store!TypeOK, Store!SlotsInUse
      <3> QED
        BY <3>3, <3>5
    <2> QED
      BY <2>1, <2>2
  <1>4. CASE Store!destroy
    <2>1. Store!No \in [ok : BOOLEAN, message : Seq(Message)]
      BY DEF Store!No
    <2>2. [i \in {} |-> Store!Raw] = <<>> /\ 0 .. -1 = {}
      BY SMT
    <2> QED
      BY <1>4, <2>1, <2>2, StoreConstants DEF Store!destroy, Store!TypeOK, Store!SlotsInUse
  <1>5. CASE UNCHANGED Store!vars
    BY <1>5 DEF Store!vars, Store!TypeOK, Store!SlotsInUse
  <1> QED
    BY <1>1, <1>2, <1>3, <1>4, <1>5 DEF Store!Next

\* The slots below m_size hold messages and the others are raw, for vectors
\* of any size.
THEOREM SlotsAlwaysInUse == Store!Spec => []Store!SlotsInUse
  <1>1. StoreInv => Store!SlotsInUse
    BY DEF StoreInv
  <1> QED
    BY StoreInit, StoreStep, <1>1, PTL DEF Store!Spec

\* The queue of a state is a sequence of messages.
LEMMA QueueType ==
    ASSUME StoreInv
    PROVE  StoreQueue \in Seq(Message) /\ Len(StoreQueue) = m_size
  <1>1. m_size \in Nat
    BY DEF StoreInv, Store!TypeOK
  <1>2. \A i \in 1 .. m_size : m_data[i - 1] \in Message
    BY DEF StoreInv, Store!TypeOK, Store!SlotsInUse
  <1> QED
    BY <1>1, <1>2 DEF StoreQueue

\* The initial state is an empty queue.
LEMMA InitFifo == Store!Init => Store!F!Init
  BY DEF Store!Init, Store!F!Init, Store!No, Store!F!No

\* A step of the vector is a step of the queue or changes nothing of it.
LEMMA StepFifo == StoreInv /\ StoreInv' /\ [Store!Next]_(Store!vars) => [Store!F!Next]_(Store!F!vars)
  <1> SUFFICES ASSUME StoreInv, StoreInv', [Store!Next]_(Store!vars) PROVE [Store!F!Next]_(Store!F!vars)
    OBVIOUS
  <1> USE DEF Store!No, Store!Yes, Store!F!No, Store!F!Yes
  <1>0. StoreQueue \in Seq(Message) /\ Len(StoreQueue) = m_size /\ m_size \in Nat
    BY QueueType DEF StoreInv, Store!TypeOK
  <1>q. StoreQueue' \in Seq(Message) /\ Len(StoreQueue') = m_size' /\ m_size' \in Nat
    <2>1. m_size' \in Nat
      BY DEF StoreInv, Store!TypeOK
    <2>2. \A i \in 0 .. m_capacity' - 1 : i < m_size' => m_data'[i] \in Message
      BY DEF StoreInv, Store!TypeOK, Store!SlotsInUse, Store!Raw
    <2>n. m_capacity' \in Nat /\ m_size' \in 0 .. m_capacity'
      BY DEF StoreInv, Store!TypeOK
    <2>4. ASSUME NEW i \in 1 .. m_size' PROVE m_data'[i - 1] \in Message
      BY <2>n, <2>2, SlotIndex
    <2> QED
      BY <2>1, <2>4 DEF StoreQueue
  <1>r. Store!F!Receive <=> IF StoreQueue # <<>>
                        THEN answer' = Store!Yes(Head(StoreQueue)) /\ StoreQueue' = Tail(StoreQueue)
                        ELSE answer' = Store!No /\ StoreQueue' = StoreQueue
    BY DEF Store!F!Receive, StoreQueue
  <1>d. Store!F!Destroy <=> StoreQueue' = <<>> /\ answer' = Store!No
    BY DEF Store!F!Destroy, StoreQueue
  <1>1. ASSUME NEW msg \in Message, Store!send_message(msg) PROVE Store!F!Send(msg)
    <2>1. CASE Store!is_full
      BY <1>0, <1>1, <2>1, StoreConstants DEF Store!send_message, Store!is_full, Store!F!Send, StoreQueue
    <2>2. CASE ~Store!is_full
      <3>1. Store!push_back(msg) /\ answer' = Store!Yes(msg)
        BY <1>1, <2>2 DEF Store!send_message
      <3>2. StoreQueue' = Append(StoreQueue, msg)
        <4>1. \A i \in 1 .. m_size : m_data'[i - 1] = m_data[i - 1]
          BY <1>0, <2>2, <3>1, Pushed
        <4>2. m_data'[m_size] = msg /\ m_size' = m_size + 1
          BY <1>0, <2>2, <3>1, Pushed
        <4>3. /\ \A i \in 1 .. m_size : StoreQueue'[i] = StoreQueue[i]
              /\ StoreQueue'[m_size + 1] = msg
          BY <1>0, <4>1, <4>2 DEF StoreQueue
        <4>4. /\ Append(StoreQueue, msg) \in Seq(Message)
              /\ Len(Append(StoreQueue, msg)) = m_size + 1
              /\ \A i \in 1 .. m_size : Append(StoreQueue, msg)[i] = StoreQueue[i]
              /\ Append(StoreQueue, msg)[m_size + 1] = msg
          BY <1>0, AppendFacts
        <4> HIDE DEF StoreQueue
        <4>5. \A i \in 1 .. m_size + 1 : StoreQueue'[i] = Append(StoreQueue, msg)[i]
          BY <1>0, <4>3, <4>4
        <4> QED
          BY <1>0, <1>q, <4>2, <4>4, <4>5, SameSeq
      <3>3. Len(StoreQueue) < Store!MAX_MESSAGES_PER_QUEUE
        BY <1>0, <2>2, StoreConstants DEF Store!is_full
      <3> QED
        BY <3>1, <3>2, <3>3 DEF Store!F!Send, StoreQueue
    <2> QED
      BY <2>1, <2>2
  <1>2. CASE Store!out_of_memory
    BY <1>2 DEF Store!out_of_memory, Store!F!vars
  <1>3. CASE Store!receive_message
    <2>1. CASE m_size = 0
      <3>1. answer' = Store!No /\ UNCHANGED <<m_data, m_size>>
        BY <1>3, <2>1 DEF Store!receive_message
      <3>2. StoreQueue = <<>> /\ StoreQueue' = StoreQueue
        BY <1>0, <2>1, <3>1 DEF StoreQueue
      <3> QED
        BY <1>r, <3>1, <3>2 DEF Store!F!Next
    <2>2. CASE m_size # 0
      <3>1. answer' = Store!Yes(m_data[0]) /\ m_data' = Store!popped(Store!shifted) /\ m_size' = m_size - 1
        BY <1>3, <2>2 DEF Store!receive_message
      <3>2. \A i \in 1 .. m_size - 1 : Store!popped(Store!shifted)[i - 1] = m_data[i]
        BY <1>0, <2>2, Shifted DEF StoreInv, Store!TypeOK
      <3>3. \A i \in 1 .. m_size - 1 : StoreQueue'[i] = m_data[i]
        BY <1>0, <3>1, <3>2 DEF StoreQueue
      <3>4. StoreQueue # <<>> /\ StoreQueue[1] = m_data[0]
        <4>1. StoreQueue[1] = m_data[0]
          BY <1>0, <2>2 DEF StoreQueue
        <4>2. StoreQueue # <<>>
          BY <1>0, <2>2, EmptyFacts
        <4> QED
          BY <4>1, <4>2
      <3>5. /\ Tail(StoreQueue) \in Seq(Message) /\ Len(Tail(StoreQueue)) = m_size - 1
            /\ \A i \in 1 .. m_size - 1 : Tail(StoreQueue)[i] = StoreQueue[i + 1]
        BY <1>0, <3>4, HeadTailFacts
      <3>6. \A i \in 1 .. m_size - 1 : StoreQueue[i + 1] = m_data[i]
        BY <1>0 DEF StoreQueue
      <3>7. StoreQueue' = Tail(StoreQueue)
        BY <1>0, <1>q, <3>1, <3>3, <3>5, <3>6, SameSeq
      <3>8. Head(StoreQueue) = m_data[0]
        BY <3>4
      <3> QED
        BY <1>r, <3>1, <3>4, <3>7, <3>8 DEF Store!F!Next
    <2> QED
      BY <2>1, <2>2
  <1>4. CASE Store!destroy
    <2>1. answer' = Store!No /\ m_size' = 0
      BY <1>4 DEF Store!destroy
    <2>2. StoreQueue' = <<>>
      BY <1>q, <2>1
    <2> QED
      BY <1>d, <2>1, <2>2 DEF Store!F!Next
  <1>5. CASE UNCHANGED Store!vars
    BY <1>5 DEF Store!vars, Store!F!vars
  <1> QED
    BY <1>1, <1>2, <1>3, <1>4, <1>5 DEF Store!Next, Store!F!Next

\* The queue in its vector implements the bounded first-in-first-out queue,
\* for any messages and any bound.
THEOREM StoreIsFifo == Store!Spec => Store!IsFifo
  BY StoreInit, StoreStep, InitFifo, StepFifo, PTL DEF Store!Spec, Store!IsFifo, Store!F!Spec
=============================================================================
