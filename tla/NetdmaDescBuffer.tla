-------------------------- MODULE NetdmaDescBuffer --------------------------
(***************************************************************************)
(* dispatcher/netdma_descriptor_buffer.sv: descriptors arrive over the     *)
(* 32-bit cpu interface in two halves on one address, first the address    *)
(* and then the control field (doc/NetdmaIpCoreUG:392), and are put        *)
(* together and pushed into the descriptor FIFO.  The buffer cannot tell   *)
(* the halves apart but by counting writes; the host is the part that      *)
(* means something by them.  One clock edge is one step.                   *)
(***************************************************************************)
EXTENDS ScFifo

CONSTANTS ADDRESSES,         \* words the host writes as addresses
          CONTROLS,          \* words the host writes as control fields
          Zero,              \* the word of a cleared register
          DESC_FIFO_DEPTH,
          NoDescriptor

ASSUME DescBufferAssumption ==
    /\ DESC_FIFO_DEPTH \in Nat \ {0}
    /\ NoDescriptor \notin [address : ADDRESSES, control : CONTROLS]

VARIABLES state,             \* FIRST_HALF_S or SECOND_HALF_S
          address_field,
          descFifo,
          request,           \* host: the descriptor it is writing
          broken             \* host: a write was abandoned halfway

bufferVars == <<state, address_field, descFifo, request, broken>>

Descriptor == [address : ADDRESSES, control : CONTROLS]

Words == ADDRESSES \cup CONTROLS

-----------------------------------------------------------------------------
\* Mutant: the second half is not waited for.
HalfFsmNoWait(write) ==
    \/ /\ state = "FIRST_HALF_S"
       /\ state' = IF write THEN "SECOND_HALF_S" ELSE "FIRST_HALF_S"
    \/ /\ state = "SECOND_HALF_S"
       /\ state' = "FIRST_HALF_S"

HalfFsm(write) ==
    \/ /\ state = "FIRST_HALF_S"
       /\ state' = IF write THEN "SECOND_HALF_S" ELSE "FIRST_HALF_S"
    \/ /\ state = "SECOND_HALF_S"
       /\ state' = IF write THEN "FIRST_HALF_S" ELSE "SECOND_HALF_S"

\* Mutant: the address register takes the second half.
AddressSecond(write, writedata) ==
    address_field' = IF write /\ state = "SECOND_HALF_S" THEN writedata
                                                        ELSE address_field

AddressRegister(write, writedata) ==
    address_field' = IF write /\ state = "FIRST_HALF_S" THEN writedata
                                                       ELSE address_field

wrreq(write) == write /\ state = "SECOND_HALF_S"

\* The go bit of the pushed control field is always set; a descriptor in the
\* FIFO is therefore always one to process, and the bit is left out here.
Edge(write, writedata, rdreq) ==
    /\ HalfFsm(write)
    /\ AddressRegister(write, writedata)
    /\ descFifo' = FifoEdge(descFifo, DESC_FIFO_DEPTH,
                            IF wrreq(write)
                            THEN <<[address |-> address_field,
                                    control |-> writedata]>>
                            ELSE <<>>,
                            rdreq)

-----------------------------------------------------------------------------
\* The FIFO is read by the control state machine, at any time.
Idle(rdreq) == /\ Edge(FALSE, Zero, rdreq)
               /\ UNCHANGED <<request, broken>>

WriteAddress(d, rdreq) ==
    /\ request = NoDescriptor /\ ~broken
    /\ Edge(TRUE, d.address, rdreq)
    /\ request' = d
    /\ UNCHANGED broken

WriteControl(rdreq) ==
    /\ request # NoDescriptor
    /\ Edge(TRUE, request.control, rdreq)
    /\ request' = NoDescriptor
    /\ UNCHANGED broken

\* The driver dies between the two writes; started again, it resets the core
\* before it writes a descriptor (doc/REGMAP:21).
DriverDies(rdreq) ==
    /\ request # NoDescriptor
    /\ Edge(FALSE, Zero, rdreq)
    /\ request' = NoDescriptor
    /\ broken' = TRUE

BufferReset == /\ state' = "FIRST_HALF_S" /\ address_field' = Zero
               /\ descFifo' = <<>>
               /\ request' = NoDescriptor /\ broken' = FALSE

BufferInit ==
    /\ state = "FIRST_HALF_S" /\ address_field = Zero /\ descFifo = <<>>
    /\ request = NoDescriptor /\ broken = FALSE

BufferNext == \/ \E rdreq \in BOOLEAN :
                    \/ Idle(rdreq)
                    \/ \E d \in Descriptor : WriteAddress(d, rdreq)
                    \/ WriteControl(rdreq)
                    \/ DriverDies(rdreq)
              \/ BufferReset

BufferSpec == BufferInit /\ [][BufferNext]_bufferVars

-----------------------------------------------------------------------------
(* Properties. *)

\* Registers and FIFO keep to their ranges: in particular no descriptor in
\* the FIFO has a control word for an address or an address for a control.
BufferTypeOK ==
    /\ state \in {"FIRST_HALF_S", "SECOND_HALF_S"}
    /\ address_field \in Words \cup {Zero}
    /\ descFifo \in Seq(Descriptor) /\ Len(descFifo) <= DESC_FIFO_DEPTH
    /\ request \in Descriptor \cup {NoDescriptor}
    /\ broken \in BOOLEAN

\* Buffer and host agree, without a word about it between them, on which half
\* comes next: unless the host has given up halfway and still owes a reset.
HalvesAgree ==
    /\ ~broken => (state = "SECOND_HALF_S" <=> request # NoDescriptor)
    /\ request # NoDescriptor => ~broken /\ address_field = request.address

Queue == INSTANCE DescriptorQueue WITH queue <- descFifo

\* The buffer is a queue of whole descriptors.
IsDescriptorQueue == Queue!QSpec
=============================================================================
