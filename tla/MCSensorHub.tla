---------------------------- MODULE MCSensorHub ----------------------------
(***************************************************************************)
(* Instances of SensorHub for TLC.                                         *)
(***************************************************************************)
EXTENDS SensorHub, TLC

CONSTANTS l1, l2

MCLayouts == {l1, l2}

\* One layout shows the processor and a graph of the network traffic, the other
\* the GPU, a disk and a game.
MCFixed == l1 :> {"net_rx"} @@ l2 :> {}
MCTokens ==
  l1 :> {"cpu_temp", "cpu_power"} @@ l2 :> {"gpu_temp", "gpu_power", "nvme", "fps"}

MCChips == {"k10temp", "nvme"}
MCCpuChips == {"k10temp"}
MCChipKey == [c \in MCChips |-> c]

\* A machine with two GPUs, the larger one from NVIDIA; one without an NVIDIA
\* driver, whose disk is not found yet; one on which neither
\* NVML nor nvidia-smi answers.
MCMachines ==
  LET hybrid == [driver |-> "some", smi |-> "full", amd |-> TRUE,
                 game |-> TRUE, range |-> TRUE, chips |-> MCChips,
                 blocked |-> {}]
  IN  {hybrid,
       [hybrid EXCEPT !.driver = "absent", !.smi = "missing", !.amd = FALSE,
                      !.range = FALSE, !.chips = MCCpuChips],
       [hybrid EXCEPT !.driver = "stalls", !.smi = "silent", !.amd = FALSE]}
=============================================================================
