------------------------- MODULE MCDeviceSelection -------------------------
(* DeviceSelection for TLC: two starts on one machine that changes once.   *)
EXTENDS DeviceSelection, TLC

CONSTANTS s1, s2

MCStarts == {s1, s2}
Symmetry == Permutations(MCStarts)

\* The second is the first with a damaged .xml beside the same .bin.
MCModels == {"int8", "damaged", "fp32"}
MCSize == [m \in MCModels |-> IF m = "fp32" THEN 2 ELSE 1]
MCReadable == {"int8", "fp32"}

Times(npu, gpu, cpu) == [d \in {"NPU", "GPU", "CPU"} |->
    CASE d = "NPU" -> npu [] d = "GPU" -> gpu [] d = "CPU" -> cpu]

\* With a ceiling of 2: all inside with a faster GPU; a slow GPU beside a fast
\* CPU; nothing inside, and the cheapest is not the quickest; only a slow CPU;
\* nothing that runs.
MCMachines == {Times(2, 1, 2), Times(0, 4, 1), Times(4, 5, 3), Times(0, 0, 3), Times(0, 0, 0)}
MCEnumerations == {<<"CPU", "GPU", "NPU">>, <<"CPU", "GPU">>}
MCCards == {<<"integrated", "other">>, <<"none", "other">>}
=============================================================================
