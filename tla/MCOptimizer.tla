---------------------------- MODULE MCOptimizer ----------------------------
(* Instances of Optimizer: the usual pairs, and one with a fixed rate.       *)
EXTENDS Optimizer

MCSetup(e, t, f) == [engine |-> e, tester |-> t, rateFixed |-> f]
MCSetups == { MCSetup("vllm", "vllm", FALSE), MCSetup("mindie", "ais", FALSE), MCSetup("vllm", "ais", TRUE) }
=============================================================================
