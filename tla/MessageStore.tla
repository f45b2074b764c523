--------------------------- MODULE MessageStore ---------------------------
(***************************************************************************)
(* The messages of a MessageQueue (kernel/src/core/ipc.cpp), in the memory *)
(* of the Vector that holds them (kernel/src/lib/vector.hpp).  Kernel has  *)
(* the waiting and the waking of processes and counts messages; here are   *)
(* the messages themselves.                                                *)
(*                                                                         *)
(* The vector is a block of slots, raw memory or a message.  It doubles    *)
(* when it is full and never shrinks.  When the heap has no room for the   *)
(* new block, operator new returns nullptr, which reserve does not test:   *)
(* the messages are written to address 0, and the model stops ("nomem").   *)
(***************************************************************************)
EXTENDS Integers, Sequences

CONSTANT Message               \* messages of a size that is not refused

MAX_MESSAGES_PER_QUEUE == 64

\* Memory that holds no message.
Raw == CHOOSE r : r \notin Message

VARIABLES
    m_data,        \* the slots, from 0 to m_capacity - 1
    m_size,
    m_capacity,
    answer,        \* the last call's: [ok, message]
    event          \* "none" or "nomem"

vars == <<m_data, m_size, m_capacity, answer, event>>

No == [ok |-> FALSE, message |-> <<>>]
Yes(msg) == [ok |-> TRUE, message |-> <<msg>>]

Init ==
    /\ m_data = <<>> /\ m_size = 0 /\ m_capacity = 0
    /\ answer = No /\ event = "none"

-----------------------------------------------------------------------------
is_full == m_size >= MAX_MESSAGES_PER_QUEUE

\* The capacity that push_back goes on with.
grown ==
    IF m_size < m_capacity THEN m_capacity
    ELSE IF m_capacity = 0 THEN 1
    ELSE 2 * m_capacity

\* reserve moves what is there to the new block.
reserve(new) ==
    IF new <= m_capacity THEN m_data
    ELSE [i \in 0 .. new - 1 |-> IF i < m_size THEN m_data[i] ELSE Raw]

push_back(msg) ==
    /\ m_data' = [reserve(grown) EXCEPT ![m_size] = msg]
    /\ m_capacity' = grown
    /\ m_size' = m_size + 1

send_message(msg) ==
    /\ event = "none"
    /\ IF is_full
         THEN answer' = No /\ UNCHANGED <<m_data, m_size, m_capacity>>
         ELSE push_back(msg) /\ answer' = Yes(msg)
    /\ UNCHANGED event

\* The heap has no block of the size that reserve asks for.
out_of_memory ==
    /\ event = "none"
    /\ ~is_full /\ grown > m_capacity
    /\ event' = "nomem"
    /\ UNCHANGED <<m_data, m_size, m_capacity, answer>>

\* The loop that moves every message one slot down.
shifted ==
    [i \in DOMAIN m_data |-> IF i < m_size - 1 THEN m_data[i + 1] ELSE m_data[i]]

\* pop_back destroys the last message.
popped(data) == [data EXCEPT ![m_size - 1] = Raw]

\* receive_message with a message there, or without one and without waiting.
receive_message ==
    /\ event = "none"
    /\ IF m_size = 0
         THEN answer' = No /\ UNCHANGED <<m_data, m_size>>
         ELSE /\ answer' = Yes(m_data[0])
              /\ m_data' = popped(shifted)
              /\ m_size' = m_size - 1
    /\ UNCHANGED <<m_capacity, event>>

\* destroy_message_queue, and a queue created in its place.
destroy ==
    /\ event = "none"
    /\ m_data' = <<>> /\ m_size' = 0 /\ m_capacity' = 0
    /\ answer' = No
    /\ UNCHANGED event

Next ==
    \/ \E msg \in Message : send_message(msg)
    \/ out_of_memory
    \/ receive_message
    \/ destroy

Spec == Init /\ [][Next]_vars

-----------------------------------------------------------------------------
(***************************************************************************)
(* Properties.                                                             *)
(***************************************************************************)

\* The values of the variables; no index outside the block is used.
TypeOK ==
    /\ m_capacity \in Nat
    /\ m_size \in 0 .. m_capacity /\ m_size <= MAX_MESSAGES_PER_QUEUE
    /\ m_data \in [0 .. m_capacity - 1 -> Message \union {Raw}]
    /\ answer \in [ok : BOOLEAN, message : Seq(Message)]
    /\ event \in {"none", "nomem"}

\* The slots below m_size hold messages, those above are raw: every message
\* that push_back constructs is destroyed once, by pop_back or clear, and
\* the vector's growth and receive_message's shift leave no slot in between.
SlotsInUse == \A i \in 0 .. m_capacity - 1 : m_data[i] # Raw <=> i < m_size

\* The queue implements a bounded first-in-first-out queue: no message is
\* lost, repeated or overtaken, however the vector grows under it.
F == INSTANCE Fifo WITH queue <- [i \in 1 .. m_size |-> m_data[i - 1]]

IsFifo == F!Spec
=============================================================================
