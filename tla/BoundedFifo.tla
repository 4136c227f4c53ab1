----------------------------- MODULE BoundedFifo -----------------------------
(***************************************************************************)
(* What a LinkCircleQueue promises to the threads that share it, with no   *)
(* threads, ring indices or wake-ups: a first-in first-out sequence of at  *)
(* most Cap chunks.  A put on a full queue is refused or, when the queue   *)
(* was created with TSQ_FIX_LENGTH_CAN_OVERWRITE, evicts the oldest chunk. *)
(* A take copies at most BufLen bytes of the oldest chunk into the         *)
(* caller's buffer and removes the bytes it copied.                        *)
(*                                                                         *)
(* CircleQueue.tla implements this specification.                          *)
(***************************************************************************)
EXTENDS Integers, Sequences

CONSTANTS
  Cap,       \* nCap_: chunks the queue holds, at least 1
  Lens,      \* the lengths a push may have, positive
  BufLen     \* nBufLen: the length of the buffer a pop is given, positive

VARIABLES
  lossy,     \* the queue may evict its oldest chunk
  items,     \* the chunks held, oldest first
  put,       \* how many pushes were accepted: the name of the next one is put + 1
  buf        \* the bytes the last successful take returned

vars == <<lossy, items, put, buf>>

(* Bytes off .. off + len - 1 of the id-th accepted push.                  *)
Chunk == [id : Nat, off : Nat, len : Nat]
Nothing == [id |-> 0, off |-> 0, len |-> 0]
Fresh(n) == [id |-> put + 1, off |-> 0, len |-> n]

(* What is left of a chunk, and what is copied out, when BufLen bytes of   *)
(* it are asked for.                                                       *)
Rest(c) == [id |-> c.id, off |-> c.off + BufLen, len |-> c.len - BufLen]
Copied(c) == IF c.len > BufLen THEN [c EXCEPT !.len = BufLen] ELSE c

Init ==
  /\ lossy \in BOOLEAN
  /\ items = <<>>
  /\ put = 0
  /\ buf = Nothing

Put(n) ==
  /\ Len(items) < Cap
  /\ items' = Append(items, Fresh(n))
  /\ put' = put + 1
  /\ UNCHANGED <<lossy, buf>>

PutEvicting(n) ==
  /\ lossy
  /\ Len(items) = Cap
  /\ items' = Append(Tail(items), Fresh(n))
  /\ put' = put + 1
  /\ UNCHANGED <<lossy, buf>>

TakeWhole ==
  /\ items # <<>>
  /\ Head(items).len <= BufLen
  /\ items' = Tail(items)
  /\ buf' = Head(items)
  /\ UNCHANGED <<lossy, put>>

TakePart ==
  /\ items # <<>>
  /\ Head(items).len > BufLen
  /\ items' = [items EXCEPT ![1] = Rest(@)]
  /\ buf' = Copied(Head(items))
  /\ UNCHANGED <<lossy, put>>

Next ==
  \/ \E n \in Lens : Put(n) \/ PutEvicting(n)
  \/ TakeWhole
  \/ TakePart

Spec == Init /\ [][Next]_vars
=============================================================================
