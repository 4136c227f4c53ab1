------------------------------ MODULE MessageQueue ------------------------------
(***************************************************************************)
(* libmqtt/queue.c: the ring of messages between the MQTT thread, the log  *)
(* and their readers, as values.  A full ring gives up its oldest message. *)
(* Every operation but the reader's wait is one critical section of the    *)
(* queue's mutex.                                                          *)
(***************************************************************************)
EXTENDS Integers, Sequences

NoQueue == [live |-> FALSE]

CreateMessageQueue(n) ==
  [live |-> TRUE, pAlloc |-> [i \in 0 .. n - 1 |-> 0], nCapacity |-> n,
   nSize |-> 0, nNextIn |-> 0, nNextOut |-> 0]

Empty(q) == q.nSize = 0
Full(q) == q.nSize = q.nCapacity
Next1(q, i) == (i + 1) % q.nCapacity

SendMessageKeepOut(q, m) ==  \* faulty variant: the oldest message is not given up
  IF ~q.live THEN q
  ELSE [q EXCEPT !.pAlloc[q.nNextIn] = m, !.nNextIn = Next1(q, @),
          !.nSize = IF Full(q) THEN @ ELSE @ + 1]

SendMessage(q, m) ==
  IF ~q.live THEN q
  ELSE [q EXCEPT !.pAlloc[q.nNextIn] = m, !.nNextIn = Next1(q, @),
          !.nNextOut = IF Full(q) THEN Next1(q, @) ELSE @,
          !.nSize = IF Full(q) THEN @ ELSE @ + 1]

(* ReceiveMessage and ReceiveMessageTimeout, once they have a message.     *)
FirstMessage(q) == q.pAlloc[q.nNextOut]
Received(q) == [q EXCEPT !.nNextOut = Next1(q, @), !.nSize = @ - 1]

(* What the queue holds, oldest first.                                     *)
Contents(q) ==
  IF ~q.live THEN <<>>
  ELSE [i \in 1 .. q.nSize |-> q.pAlloc[(q.nNextOut + i - 1) % q.nCapacity]]
=============================================================================
