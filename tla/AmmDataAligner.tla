--------------------------- MODULE AmmDataAligner ---------------------------
(***************************************************************************)
(* readmaster/amm_aligner.sv: turns the aligned data units that come back  *)
(* from memory into data units that start at the buffer's own address.  A  *)
(* data unit of memory is named by its word address, a byte by its byte    *)
(* address, so that what is shifted where stays visible.                   *)
(***************************************************************************)
EXTENDS Integers

CONSTANT BYTE_NUM   \* bytes of a data unit

VARIABLES aligner_state,     \* EMPTY_S or KEEP_1ST_PART
          readdata_d1_reg    \* the data unit received before

alignerVars == <<aligner_state, readdata_d1_reg>>

AlignerReset == aligner_state = "EMPTY_S" /\ readdata_d1_reg = 0

\* A wire that nothing drives.
Undriven == -1

\* Mutant: the offset is not applied.
ShiftedByteNoOffset(offset, first, second, k) == first * BYTE_NUM + k

\* Byte k of the two data units put side by side and shifted by offset.
ShiftedByte(offset, first, second, k) ==
    IF k + offset < BYTE_NUM
    THEN first * BYTE_NUM + k + offset
    ELSE second * BYTE_NUM + (k + offset - BYTE_NUM)

\* The generate loop of the barrel shifter ends at BYTE_NUM - 2: the inputs
\* for the last offset are declared but never assigned.
ReaddataOut(offset, readdata) ==
    [k \in 0 .. BYTE_NUM - 1 |->
        IF offset < BYTE_NUM - 1
        THEN ShiftedByte(offset, readdata_d1_reg, readdata, k)
        ELSE Undriven]

ReaddatavalidOut(run, readdatavalid) ==
    aligner_state = "KEEP_1ST_PART" /\ readdatavalid /\ run

AlignerEdge(run, readdatavalid, readdata) ==
    /\ aligner_state' = IF ~run THEN "EMPTY_S"
                        ELSE IF readdatavalid THEN "KEEP_1ST_PART"
                        ELSE aligner_state
    /\ readdata_d1_reg' = IF run /\ readdatavalid THEN readdata
                          ELSE readdata_d1_reg
=============================================================================
