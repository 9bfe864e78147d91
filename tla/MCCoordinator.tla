---------------------------- MODULE MCCoordinator ----------------------------
(***************************************************************************)
(* Small instance of Coordinator: one sequence, one worker id, a worker    *)
(* process and its replacements.                                           *)
(***************************************************************************)
EXTENDS Coordinator, TLC

OneKey == [model |-> 1, adapter |-> 0, device |-> 1]
OneRequest ==
  {[sequence |-> 1, tenant |-> "t", model |-> 1, adapter |-> 0, device_constraint |-> None,
    initial_attempt |-> 2, max_generation_length |-> 2, pregenerated |-> 0, deadline |-> 0,
    latency_class |-> 3, estimated_growth |-> 0]}
WorkerTable ==
  [w \in Workers |-> [keys |-> {OneKey}, device |-> 1, memory_bytes |-> 0,
                      advertised_capacity |-> 256]]
OneWorker == [p \in Processes |-> 1]

=============================================================================
