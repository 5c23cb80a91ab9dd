--------------------------- MODULE NetdmaControl ---------------------------
(***************************************************************************)
(* The control state machine of one DMA direction                          *)
(* (dispatcher/netdma_control_fsm.sv, netdma_control.sv) with the edge     *)
(* detector of its `run' output that readmaster and writemaster instantiate*)
(* (misc/posedge_detector.sv, misc/decoder.sv).  The module is extended by *)
(* both directions; the wires of the netlist are operators and the         *)
(* registers are variables.                                                *)
(***************************************************************************)
EXTENDS ScFifo

VARIABLES flow_control,   \* state register of netdma_control_fsm
          run_r           \* register r of the run_posedge_detector

controlVars == <<flow_control, run_r>>

ControlTypeOK == /\ flow_control \in {"IDLE_S", "RUN_S", "DONE_S"}
                 /\ run_r \in BOOLEAN

ControlReset == flow_control = "IDLE_S" /\ run_r = FALSE

Run  == flow_control = "RUN_S"
Done == flow_control = "DONE_S"

RunPosedge == Run /\ ~run_r

(* eop and error are the master's response.  In RUN_S either of them makes *)
(* a report and retires the descriptor on the head of the queue; the one   *)
(* cycle of DONE_S lowers run, so that its next rise is seen as an edge.   *)
MakeReport(error, eop) == Run /\ (error \/ eop)

\* Mutant: the next descriptor is started without the cycle of DONE_S.
ControlFsmNoDone(descriptorOnQueue, error, eop) ==
    /\ flow_control' = IF descriptorOnQueue THEN "RUN_S" ELSE "IDLE_S"
    /\ run_r' = Run

ControlFsm(descriptorOnQueue, error, eop) ==
    /\ \/ /\ flow_control = "IDLE_S"
          /\ flow_control' = IF descriptorOnQueue THEN "RUN_S" ELSE "IDLE_S"
       \/ /\ flow_control = "RUN_S"
          /\ flow_control' = IF error \/ eop THEN "DONE_S" ELSE "RUN_S"
       \/ /\ flow_control = "DONE_S"
          /\ flow_control' = IF descriptorOnQueue THEN "RUN_S" ELSE "IDLE_S"
    /\ run_r' = Run
=============================================================================
