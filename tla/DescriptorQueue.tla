-------------------------- MODULE DescriptorQueue --------------------------
(***************************************************************************)
(* What a descriptor buffer promises to the host and to the control state  *)
(* machine: a bounded queue of descriptors.  A descriptor the host submits *)
(* is taken whole, with the address and the control field of the same      *)
(* descriptor, exactly once and in the order of submission; if the queue   *)
(* is full it is dropped whole.  The host may give up on a descriptor it   *)
(* has begun; the queue is then reset before the next one is begun.        *)
(***************************************************************************)
EXTENDS ScFifo

CONSTANTS ADDRESSES, CONTROLS, DESC_FIFO_DEPTH, NoDescriptor

VARIABLES queue,      \* descriptors waiting, the head is the one in progress
          request,    \* the descriptor the host is submitting
          broken      \* the host has given up on one and not yet reset

qvars == <<queue, request, broken>>

Descriptor == [address : ADDRESSES, control : CONTROLS]

QInit == queue = <<>> /\ request = NoDescriptor /\ broken = FALSE

Begin(d) == /\ request = NoDescriptor /\ ~broken
            /\ request' = d
            /\ UNCHANGED broken

Take == /\ request # NoDescriptor
        /\ request' = NoDescriptor
        /\ UNCHANGED broken

GiveUp == /\ request # NoDescriptor
          /\ request' = NoDescriptor
          /\ broken' = TRUE

Keep == UNCHANGED <<request, broken>>

\* The reader pops, or does not, on the same clock edge.
Pop(word) == \E rdreq \in BOOLEAN :
                queue' = FifoEdge(queue, DESC_FIFO_DEPTH, word, rdreq)

QReset == /\ queue' = <<>> /\ broken' = FALSE
          /\ request' = NoDescriptor

QNext == \/ Pop(<<>>) /\ (Keep \/ GiveUp \/ \E d \in Descriptor : Begin(d))
         \/ Pop(<<request>>) /\ Take
         \/ QReset

QSpec == QInit /\ [][QNext]_qvars
=============================================================================
