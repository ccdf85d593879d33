----------------------------- MODULE MCIrqOffload -----------------------------
(* Small instances of the kernel call for TLC.                             *)
EXTENDS IrqOffload

(* Accelerators are numbered as in the bodies. *)
OneAcc == {1}
TwoAcc == {1, 2}

(* The host is run with either value of ioctl_flag; a driver is loaded     *)
(* without a timeout or with one.                                          *)
SleepOrPoll == BOOLEAN
NoneOr15 == {0, 15}

(* SPMM_fast_host passes each kernel the descriptor of its own driver;     *)
(* SPMM_host/SPMM_fast passes file_desc_1 to every kernel.                 *)
OwnDriver == [a \in Acc |-> a]
FirstDriver == [a \in Acc |-> 1]

(* Nothing disturbs a call; or everything does those of one accelerator.   *)
Quiet == [a \in Acc |-> {}]
FirstDisturbed == [a \in Acc |-> IF a = 1 THEN {"signal", "open"} ELSE {}]

=============================================================================
