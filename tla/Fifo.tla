------------------------------- MODULE Fifo -------------------------------
(***************************************************************************)
(* What a message queue promises: a bounded queue, first in, first out.    *)
(***************************************************************************)
EXTENDS Integers, Sequences

CONSTANTS Message, MAX_MESSAGES_PER_QUEUE

VARIABLES
    queue,     \* the messages, the oldest first
    answer     \* the last call's: [ok, message]

vars == <<queue, answer>>

No == [ok |-> FALSE, message |-> <<>>]
Yes(msg) == [ok |-> TRUE, message |-> <<msg>>]

Init == queue = <<>> /\ answer = No

Send(msg) ==
    IF Len(queue) < MAX_MESSAGES_PER_QUEUE
      THEN queue' = Append(queue, msg) /\ answer' = Yes(msg)
      ELSE UNCHANGED queue /\ answer' = No

Receive ==
    IF queue # <<>>
      THEN answer' = Yes(Head(queue)) /\ queue' = Tail(queue)
      ELSE answer' = No /\ UNCHANGED queue

Destroy == queue' = <<>> /\ answer' = No

Next == (\E msg \in Message : Send(msg)) \/ Receive \/ Destroy

Spec == Init /\ [][Next]_vars
=============================================================================
