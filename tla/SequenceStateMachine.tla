------------------------ MODULE SequenceStateMachine ------------------------
(***************************************************************************)
(* The lifecycle of one decode sequence: the states, the transition table  *)
(* and the guarded setter of include/decodefabric/state_machine.hpp and    *)
(* src/core.cpp.  transition_to returns an error and leaves the state      *)
(* alone when the table has no such edge; every caller in src/fabric.cpp   *)
(* ignores that error, so TransitionTo is the whole effect of a call.      *)
(***************************************************************************)

\* Cancelled, DeadlineExpired, ...: the absorbing states.
TerminalStates ==
  {"Cancelled", "DeadlineExpired", "NonRetryableFailure", "Completed", "StaleSuperseded"}

SequenceStates ==
  {"Admitted", "Waiting", "Ready", "Grouped", "Reserved", "Dispatched", "Running",
   "StepCompleted", "ReadyForNextToken", "Yielded", "Paused", "CancelRequested",
   "RetryableFailure", "Retrying"} \cup TerminalStates

IsTerminal(state) == state \in TerminalStates

\* The states a live sequence may always be stopped from.
Stopped == {"Cancelled", "DeadlineExpired"}

\* The switch of can_transition, one row per source state.
Successors == [
  Admitted            |-> {"Waiting"} \cup Stopped,
  Waiting             |-> {"Ready", "Paused"} \cup Stopped,
  Ready               |-> {"Grouped", "Waiting", "Yielded", "Paused"} \cup Stopped,
  ReadyForNextToken   |-> {"Grouped", "Waiting", "Yielded", "Paused"} \cup Stopped,
  Grouped             |-> {"Reserved", "Ready", "Waiting"} \cup Stopped,
  Reserved            |-> {"Dispatched", "Ready", "Waiting"} \cup Stopped,
  Dispatched          |-> {"Running", "StepCompleted", "CancelRequested", "StaleSuperseded",
                           "RetryableFailure", "NonRetryableFailure", "Retrying"} \cup Stopped,
  Running             |-> {"StepCompleted", "Completed", "NonRetryableFailure",
                           "RetryableFailure", "Retrying", "StaleSuperseded"} \cup Stopped,
  StepCompleted       |-> {"ReadyForNextToken", "Completed", "NonRetryableFailure",
                           "RetryableFailure", "Retrying", "StaleSuperseded",
                           "Waiting"} \cup Stopped,
  Yielded             |-> {"Ready", "Waiting", "Paused"} \cup Stopped,
  Paused              |-> {"Ready", "Waiting"} \cup Stopped,
  CancelRequested     |-> {"Completed"} \cup Stopped,
  RetryableFailure    |-> {"Retrying"},
  Retrying            |-> {"Ready"} \cup Stopped,
  Cancelled           |-> {},
  DeadlineExpired     |-> {},
  NonRetryableFailure |-> {},
  Completed           |-> {},
  StaleSuperseded     |-> {}]

CanTransition(from, to) ==
  /\ from # to
  /\ ~IsTerminal(from)
  /\ to \in Successors[from]

TransitionTo(state, next) == IF CanTransition(state, next) THEN next ELSE state

\* Two consecutive transition_to calls, as most handlers make.
TransitionVia(state, mid, next) == TransitionTo(TransitionTo(state, mid), next)

=============================================================================
