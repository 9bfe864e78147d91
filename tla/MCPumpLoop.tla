------------------------------ MODULE MCPumpLoop ------------------------------
(***************************************************************************)
(* Small instance of PumpLoop: one sequence, one worker.                   *)
(***************************************************************************)
EXTENDS PumpLoop, TLC

OneKey == [model |-> 1, adapter |-> 0, device |-> 1]
OneRequest ==
  {[sequence |-> 1, tenant |-> "t", model |-> 1, adapter |-> 0, device_constraint |-> None,
    initial_attempt |-> 2, max_generation_length |-> 2, pregenerated |-> 0, deadline |-> 0,
    latency_class |-> 3, estimated_growth |-> 0]}
WorkerTable ==
  [w \in Workers |-> [keys |-> {OneKey}, device |-> 1, memory_bytes |-> 0,
                      advertised_capacity |-> 100]]
FirstBoot == [w \in Workers |-> 1]

=============================================================================
