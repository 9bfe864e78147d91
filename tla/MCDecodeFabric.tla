--------------------------- MODULE MCDecodeFabric ---------------------------
(***************************************************************************)
(* Small instances of DecodeFabric: one model on one device.               *)
(***************************************************************************)
EXTENDS StreamRefinement, TLC

OneKey == [model |-> 1, adapter |-> 0, device |-> 1]
Request(q, max, pre, deadline) ==
  [sequence |-> q, tenant |-> "t", model |-> 1, adapter |-> 0, device_constraint |-> None,
   initial_attempt |-> 2, max_generation_length |-> max, pregenerated |-> pre,
   deadline |-> deadline, latency_class |-> 3, estimated_growth |-> 0]

\* One sequence of two tokens.
OneRequest == {Request(1, 2, 0, 0)}
\* Two sequences of one tenant; the second has a deadline.
TwoRequests == {Request(1, 2, 0, 0), Request(2, 1, 0, 2)}
\* A sequence resumed after its last token.
SpentRequest == {Request(1, 1, 1, 0)}

\* Memory for exactly one group of two.
Worker == [keys |-> {OneKey}, device |-> 1, memory_bytes |-> 2 * DefaultGrowth,
           advertised_capacity |-> 2]
WorkerTable == [w \in Workers |-> Worker]

\* Digests and proposals are only compared for equality.
Interchangeable == Permutations(Digests) \cup Permutations(Proposals)

=============================================================================
