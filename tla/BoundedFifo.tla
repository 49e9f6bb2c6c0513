----------------------------- MODULE BoundedFifo -----------------------------
(***************************************************************************)
(* What the packet queue of a switch promises: a first-in first-out buffer *)
(* of at most Capacity items for each owner.  An item offered to a full    *)
(* buffer is dropped; out is the item its owner removed last.  Switch is   *)
(* shown to implement this with the contents of its rings.                 *)
(***************************************************************************)
EXTENDS Naturals, Sequences

CONSTANTS
  Owner,    \* those who own a buffer
  Item,     \* what is buffered
  Capacity  \* the most items in one buffer

VARIABLES
  fifo,     \* fifo[w]: the items in the buffer of w, oldest first
  out       \* out[w]: the item w took out last

fifoVars == << fifo, out >>

FifoInit ==
  /\ fifo = [w \in Owner |-> << >>]
  /\ out \in [Owner -> Item]

\* The item put in is the last one of the new buffer.
Put(w) ==
  /\ Len(fifo[w]) < Capacity
  /\ Len(fifo'[w]) = Len(fifo[w]) + 1
  /\ LET x == fifo'[w][Len(fifo[w]) + 1]
     IN  x \in Item /\ fifo' = [fifo EXCEPT ![w] = Append(@, x)]
  /\ UNCHANGED out

Take(w) ==
  /\ fifo[w] # << >>
  /\ out' = [out EXCEPT ![w] = Head(fifo[w])]
  /\ fifo' = [fifo EXCEPT ![w] = Tail(@)]

FifoNext == \E w \in Owner : Put(w) \/ Take(w)

FifoSpec == FifoInit /\ [][FifoNext]_fifoVars
=============================================================================
