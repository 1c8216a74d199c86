------------------------------ MODULE BoundedFifo ------------------------------
(***************************************************************************)
(* What a TaskQueue promises to the threads that share it: the elements    *)
(* come out in the order they went in, each one once, never more than      *)
(* Capacity of them inside, and nothing comes out once it is closed.       *)
(*                                                                         *)
(* The two sequences are the whole interface: what the queue has accepted  *)
(* and what it has delivered since it was built.                           *)
(***************************************************************************)
EXTENDS Naturals, Sequences

CONSTANTS Elements,   \* what a caller may put into the queue
          Capacity    \* how many elements it holds at most

VARIABLES accepted,   \* every element put in so far, in order
          delivered,  \* every element handed out so far, in order
          closed      \* TRUE once the queue refuses to hand out any more

fifoVars == <<accepted, delivered, closed>>

Stored == Len(accepted) - Len(delivered)

FifoInit == accepted = <<>> /\ delivered = <<>> /\ closed = FALSE

Accept(e) ==
    /\ Stored < Capacity
    /\ accepted' = Append(accepted, e)
    /\ UNCHANGED <<delivered, closed>>

\* The element handed out is the oldest one not handed out yet.
Deliver ==
    /\ ~closed
    /\ Stored > 0
    /\ delivered' = Append(delivered, accepted[Len(delivered) + 1])
    /\ UNCHANGED <<accepted, closed>>

Close == closed' = TRUE /\ UNCHANGED <<accepted, delivered>>

FifoNext == (\E e \in Elements : Accept(e)) \/ Deliver \/ Close

FifoSpec == FifoInit /\ [][FifoNext]_fifoVars
================================================================================
