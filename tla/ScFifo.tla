------------------------------- MODULE ScFifo -------------------------------
(***************************************************************************)
(* The single-clock FIFO behind netdma/src/misc/fifo_showahead.v: Altera's *)
(* scfifo with lpm_showahead, overflow_checking and underflow_checking all *)
(* "ON".  The megafunction itself is not in the repository; what is stated *)
(* here is what its parameters (fifo_showahead.v:87-97) select.            *)
(*                                                                         *)
(* A FIFO is the sequence of the words it holds; in show-ahead mode the    *)
(* output q is its head.  A clock edge takes the write request as a        *)
(* sequence of no word or one word, and the read request as a Boolean.     *)
(***************************************************************************)
EXTENDS Naturals, Sequences

FifoFull(q, depth) == Len(q) = depth

FifoEmpty(q) == q = <<>>

\* underflow_checking: a read request to an empty FIFO is ignored.
FifoRead(q, rdreq) == IF rdreq /\ ~FifoEmpty(q) THEN Tail(q) ELSE q

\* overflow_checking: a write request to a full FIFO is ignored, and the word
\* is lost, also when a word is read on the same edge.
FifoEdge(q, depth, wrword, rdreq) ==
    IF FifoFull(q, depth) THEN FifoRead(q, rdreq)
                          ELSE FifoRead(q, rdreq) \o wrword

\* almost_full: usedw has reached almost_full_value.
FifoAlmostFull(q, value) == Len(q) >= value
=============================================================================
