---------------------------- MODULE DecodeFabric ----------------------------
(***************************************************************************)
(* The scheduler and authority of src/fabric.cpp: admission, grouping,     *)
(* placement and dispatch of decode sequences, and the transactional       *)
(* protocol  prepare -> authorize (one-use grant) -> commit -> receipt     *)
(* that decides which generated token becomes authoritative.               *)
(*                                                                         *)
(* Every public method of DecodeFabric holds impl_->mtx from entry to      *)
(* return, so it is one action.  schedule is the exception: its first part *)
(* (boundary pass, candidates, grouping) and each round of its placement   *)
(* loop are actions of their own, and the groups still to be placed sit in *)
(* `formed`; while there are any the lock is held and nothing else runs.   *)
(* A call that carries several members runs the loop body once per member  *)
(* and keeps nothing between rounds, so the per-member actions below stand *)
(* for the loops of apply_completion, authorize_prepared and               *)
(* apply_commit_receipt.                                                   *)
(*                                                                         *)
(* The environment is any executor behind any network: it may answer every *)
(* dispatch ever issued, with any outcome, any number of times and in any  *)
(* order, and it may return a receipt for every grant ever issued.         *)
(***************************************************************************)
EXTENDS SequenceStateMachine, Integers, FiniteSets, FiniteSetsExt

CONSTANTS
  Requests,            \* DecodeRequest records that callers may submit
  Workers,             \* worker ids
  Descriptor,          \* worker id -> [keys, device, memory_bytes, advertised_capacity]
  \* Config: FabricLimits, GroupLimits, RetryPolicy (0 = unbounded where the code says so).
  MaxActiveSequences, MaxTenantShare, MaxSequences, MaxLatencyClass, HeadroomFloor,
  MaxAttempts,
  CounterMod,          \* 2^32 in the code: the width of a tenant_active counter
  RetryAttemptBase,    \* 1000000 in the code
  \* What the environment may send.
  Boots, Digests, Proposals, Positions, EnvKinds, Times,
  \* Bounds of the model.
  MaxEpoch, MaxDispatch, MaxGrant

\* Ids are positive in the code (0 is the null id), counts are unsigned; TokenBudget and the
\* retry policy take any value.
ASSUME RequestsAssumption ==
  \A r \in Requests :
    /\ r.max_generation_length \in Nat
    /\ r.pregenerated \in Nat
    /\ r.initial_attempt \in Nat
ASSUME IdsAssumption ==
  /\ 0 \notin Workers
  /\ 0 \notin Digests
  /\ 0 \notin Proposals
  /\ Positions \subseteq Nat
ASSUME ConfigAssumption ==
  /\ MaxAttempts \in Nat
  /\ CounterMod \in Nat \ {0}
  /\ RetryAttemptBase \in Nat
  /\ MaxEpoch \in Nat /\ MaxDispatch \in Nat /\ MaxGrant \in Nat

VARIABLES
  epoch,               \* CoordinatorEpoch
  seqs,                \* SequenceId -> Seq, for the admitted sequences
  workers,             \* WorkerId -> [boot, healthy, active_reservations], registered ones
  dev_mem,             \* DeviceId -> [capacity, reserved]
  tenant_active,       \* TenantId -> unsigned counter
  reservations,        \* ReservationId -> [device, bytes], live ones
  next_reservation,
  ledger,              \* GrantId -> issued grant and its status
  next_grant,
  next_dispatch,
  formed,              \* groups schedule still has to place: non-empty = lock held
  issued               \* members of every Dispatch returned by schedule (history)

vars == <<epoch, seqs, workers, dev_mem, tenant_active, reservations, next_reservation,
          ledger, next_grant, next_dispatch, formed, issued>>

-----------------------------------------------------------------------------
(* Data *)

None == 0              \* the null value of every id, and an unestablished digest
NoRecord == "none"     \* no entry in terminal_records
BulkLatency == 4
DefaultGrowth == 64    \* bytes reserved for a member that declares no estimate

SequenceIds == {r.sequence : r \in Requests}
Tenants == {r.tenant : r \in Requests}
Devices == {Descriptor[w].device : w \in Workers}
Keys == UNION {Descriptor[w].keys : w \in Workers}

SuccessKinds == {"StepSuccessContinue", "StepSuccessTerminal"}
OutcomeKinds == SuccessKinds \cup
  {"Yielded", "RetryableFailure", "NonRetryableFailure", "Cancelled", "Expired",
   "StaleAuthorityRejected"}

\* Impl::Seq.  A has_* flag is folded into its id (None = the flag is false), since the
\* two are always written together; has_inflight is not, it parts from in_flight_dispatch.
NoAcceptance == [generation |-> 0]
NewSeq(req) ==
  [req                  |-> req,
   state                |-> TransitionVia("Admitted", "Waiting", "Ready"),
   current_attempt      |-> req.initial_attempt,
   budget               |-> req.pregenerated,
   generated            |-> req.pregenerated,
   generation           |-> 1,
   has_inflight         |-> FALSE,
   in_flight_dispatch   |-> None,
   in_flight_worker     |-> None,
   in_flight_generation |-> 0,
   in_flight_grant      |-> None,
   in_flight_proposal   |-> None,
   committed_digest     |-> None,
   accepted             |-> NoAcceptance,
   reservation          |-> None,
   attempt_count        |-> 1,
   terminal_record      |-> NoRecord]

\* What the 64-bit idempotency key of a prepared member or a receipt is computed from.
AcceptanceKey(m) ==
  [epoch |-> m.epoch, worker |-> m.worker, boot |-> m.boot, sequence |-> m.sequence,
   attempt |-> m.attempt, generation |-> m.generation, dispatch |-> m.dispatch,
   position |-> m.position]

\* TokenBudget.  (BudgetAdvance_OffByOne and the other names with an underscore are the
\* definition that follows with one plausible mistake in it; nothing in the model uses them.)
Exhausted(s) == s.budget >= s.req.max_generation_length
BudgetAdvance_OffByOne(s) ==
  IF s.budget + 1 >= s.req.max_generation_length THEN s.budget ELSE s.budget + 1
BudgetAdvance(s) == IF s.budget + 1 > s.req.max_generation_length THEN s.budget ELSE s.budget + 1

Unlocked == formed = {}

-----------------------------------------------------------------------------
(* Helpers of Impl *)

FreedBytes(R, d) ==
  MapThenSumSet(LAMBDA r : reservations[r].bytes, {r \in R : reservations[r].device = d})

\* release_reservation for every sequence of Q.  Group members share one reservation: the
\* first release erases it, the others only forget its id.
ReleaseReservations(Q) ==
  LET gone == {seqs[q].reservation : q \in Q} \cap DOMAIN reservations
      freed(d) == FreedBytes(gone, d)
  IN /\ reservations' = [r \in DOMAIN reservations \ gone |-> reservations[r]]
     /\ dev_mem' = [d \in DOMAIN dev_mem |->
                      [dev_mem[d] EXCEPT !.reserved = IF @ >= freed(d) THEN @ - freed(d) ELSE 0]]

CandidateStates == {"Waiting", "Ready", "ReadyForNextToken", "Yielded"}
InFlightStates == {"Dispatched", "Running"}

\* The keys key_for_model may return: which worker it meets first is up to the hash map.
KeysFor(req) ==
  {k \in UNION {Descriptor[w].keys : w \in
                 {v \in DOMAIN workers : req.device_constraint \in {None, Descriptor[v].device}}} :
     k.model = req.model /\ k.adapter = req.adapter}

\* std::max(0u, x - 1u) on an unsigned counter, once for every sequence of Q.
TenantsLeft(Q) ==
  tenant_active' = [t \in DOMAIN tenant_active |->
    (tenant_active[t] - Cardinality({q \in Q : seqs[q].req.tenant = t})) % CounterMod]

StaleReconcile_KeepsState(s) ==
  [s EXCEPT !.has_inflight = FALSE, !.in_flight_dispatch = None, !.in_flight_grant = None,
            !.in_flight_proposal = None, !.reservation = None]
StaleReconcile(s) ==
  [s EXCEPT !.has_inflight = FALSE, !.in_flight_dispatch = None, !.in_flight_grant = None,
            !.in_flight_proposal = None, !.reservation = None,
            !.state = IF @ \in InFlightStates
                      THEN TransitionVia(@, "StepCompleted", "ReadyForNextToken") ELSE @]

NewAttempt_NoBase(s) ==
  [s EXCEPT !.current_attempt = next_dispatch, !.attempt_count = @ + 1,
            !.state = TransitionVia(@, "Retrying", "Ready")]
NewAttempt(s) ==
  [s EXCEPT !.current_attempt = next_dispatch + RetryAttemptBase, !.attempt_count = @ + 1,
            !.state = TransitionVia(@, "Retrying", "Ready")]

RetryBudgetExhausted(s) ==
  [s EXCEPT !.state = TransitionTo(@, "NonRetryableFailure"),
            !.terminal_record = "NonRetryableFailure"]

\* The RetryableFailure case of apply_noncommit_outcome.
FailRetryable(s) ==
  LET f == [s EXCEPT !.state = IF @ = "Dispatched" THEN TransitionTo(@, "RetryableFailure")
                               ELSE @]
  IN IF f.attempt_count >= MaxAttempts THEN RetryBudgetExhausted(f) ELSE NewAttempt(f)

\* apply_noncommit_outcome on a sequence that is not terminal.
NonCommitOutcome(s, kind) ==
  CASE kind = "Yielded" -> [s EXCEPT !.state = TransitionVia(@, "StepCompleted", "Yielded")]
    [] kind = "RetryableFailure" -> FailRetryable(s)
    [] kind = "NonRetryableFailure" ->
         [s EXCEPT !.state = IF @ = "Dispatched" THEN TransitionTo(@, "NonRetryableFailure") ELSE @,
                   !.terminal_record = "NonRetryableFailure"]
    [] kind = "Cancelled" ->
         [s EXCEPT !.state = TransitionTo(@, "Cancelled"), !.terminal_record = "Cancelled"]
    [] kind = "Expired" ->
         [s EXCEPT !.state = TransitionTo(@, "DeadlineExpired"),
                   !.terminal_record = "DeadlineExpired"]
    [] OTHER -> s

\* A member that reported `kind` instead of a step: its dispatch is closed, its reservation
\* released and the outcome applied.  The in-flight grant is left alone.
SettleNonCommit(q, kind) ==
  /\ seqs' = [seqs EXCEPT ![q] = NonCommitOutcome(
                [@ EXCEPT !.has_inflight = FALSE, !.in_flight_dispatch = None,
                          !.reservation = None], kind)]
  /\ ReleaseReservations({q})
  /\ TenantsLeft(IF kind \in {"NonRetryableFailure", "Cancelled", "Expired"} THEN {q} ELSE {})
  /\ UNCHANGED <<epoch, workers, next_reservation, ledger, next_grant, next_dispatch, formed,
                 issued>>

-----------------------------------------------------------------------------
(* Admission, cancellation, retry *)

ValidRequest(req) ==
  /\ req.max_generation_length > 0
  /\ req.pregenerated <= req.max_generation_length

Submit(req) ==
  /\ Unlocked
  /\ ValidRequest(req)
  /\ KeysFor(req) # {}
  /\ MaxActiveSequences > 0 =>
       Cardinality({q \in DOMAIN seqs : ~IsTerminal(seqs[q].state)}) < MaxActiveSequences
  /\ MaxTenantShare > 0 => tenant_active[req.tenant] < MaxTenantShare
  /\ req.sequence \notin DOMAIN seqs
  /\ seqs' = [q \in DOMAIN seqs \cup {req.sequence} |->
                IF q = req.sequence THEN NewSeq(req) ELSE seqs[q]]
  /\ tenant_active' = [tenant_active EXCEPT ![req.tenant] = (@ + 1) % CounterMod]
  /\ UNCHANGED <<epoch, workers, dev_mem, reservations, next_reservation, ledger, next_grant,
                 next_dispatch, formed, issued>>

\* cancel of a sequence whose step is in flight: decided at the next boundary.
CancelInFlight(q) ==
  /\ Unlocked
  /\ seqs[q].state \in InFlightStates \cup {"Reserved", "Grouped"}
  /\ seqs' = [seqs EXCEPT ![q].state = TransitionTo(@, "CancelRequested")]
  /\ UNCHANGED <<epoch, workers, dev_mem, tenant_active, reservations, next_reservation, ledger,
                 next_grant, next_dispatch, formed, issued>>

\* cancel between steps: at once.
CancelledNow(s) ==
  [s EXCEPT !.reservation = None, !.state = TransitionTo(@, "Cancelled"),
            !.terminal_record = "Cancelled"]
CancelNow(q) ==
  /\ Unlocked
  /\ ~IsTerminal(seqs[q].state)
  /\ seqs[q].state \notin InFlightStates \cup {"Reserved", "Grouped", "CancelRequested"}
  /\ seqs' = [seqs EXCEPT ![q] = CancelledNow(@)]
  /\ ReleaseReservations({q})
  /\ TenantsLeft({q})
  /\ UNCHANGED <<epoch, workers, next_reservation, ledger, next_grant, next_dispatch, formed,
                 issued>>

\* retry keeps the reservation, the dispatch and the grant of the attempt it replaces.
Retry(q) ==
  /\ Unlocked
  /\ seqs[q].state \in {"RetryableFailure", "Running", "Dispatched"}
  /\ seqs' = [seqs EXCEPT ![q] = IF @.attempt_count >= MaxAttempts
                                 THEN RetryBudgetExhausted(@) ELSE NewAttempt(@)]
  /\ UNCHANGED <<epoch, workers, dev_mem, tenant_active, reservations, next_reservation, ledger,
                 next_grant, next_dispatch, formed, issued>>

-----------------------------------------------------------------------------
(* Workers, epoch, boundary processing *)

\* A registration never lowers the capacity of its device, and keeps what is reserved on it.
DeviceRegistered_Reset(d, memory) == [capacity |-> memory, reserved |-> 0]
DeviceRegistered(d, memory) ==
  IF d \notin DOMAIN dev_mem THEN [capacity |-> memory, reserved |-> 0]
  ELSE [dev_mem[d] EXCEPT !.capacity = IF @ >= memory THEN @ ELSE memory]

\* A registration replaces the descriptor, load included.
RegisterWorker(w, boot) ==
  LET d == Descriptor[w].device
  IN /\ Unlocked
     /\ workers' = [v \in DOMAIN workers \cup {w} |->
                      IF v = w THEN [boot |-> boot, healthy |-> TRUE, active_reservations |-> 0]
                      ELSE workers[v]]
     /\ dev_mem' = [e \in DOMAIN dev_mem \cup {d} |->
                      IF e = d THEN DeviceRegistered(d, Descriptor[w].memory_bytes)
                      ELSE dev_mem[e]]
     /\ UNCHANGED <<epoch, seqs, tenant_active, reservations, next_reservation, ledger,
                    next_grant, next_dispatch, formed, issued>>

\* The dispatch id, the grant and the worker's boot id all survive the worker's death.
MarkWorkerDead(w) ==
  LET lost == {q \in DOMAIN seqs : seqs[q].has_inflight /\ seqs[q].in_flight_worker = w}
  IN /\ Unlocked
     /\ w \in DOMAIN workers
     /\ workers' = [workers EXCEPT ![w].healthy = FALSE, ![w].active_reservations = 0]
     /\ seqs' = [q \in DOMAIN seqs |->
                   IF q \notin lost THEN seqs[q]
                   ELSE [seqs[q] EXCEPT !.has_inflight = FALSE, !.reservation = None,
                           !.state = IF @ \in InFlightStates
                                     THEN TransitionVia(@, "StepCompleted", "Waiting") ELSE @]]
     /\ ReleaseReservations(lost)
     /\ UNCHANGED <<epoch, tenant_active, next_reservation, ledger, next_grant, next_dispatch,
                    formed, issued>>

RollEpoch ==
  /\ Unlocked
  /\ epoch < MaxEpoch
  /\ epoch' = epoch + 1
  /\ UNCHANGED <<seqs, workers, dev_mem, tenant_active, reservations, next_reservation, ledger,
                 next_grant, next_dispatch, formed, issued>>

\* What a boundary at time tn does to one sequence: the body of advance's loop, and of the
\* first loop of schedule.
DeadlinePassed(s, tn) == s.req.deadline # 0 /\ tn >= s.req.deadline
AtBoundary(s, tn) == ~IsTerminal(s.state) /\ (DeadlinePassed(s, tn) \/ s.state = "CancelRequested")
BoundaryOutcome(s, tn) == IF DeadlinePassed(s, tn) THEN "DeadlineExpired" ELSE "Cancelled"
CrossBoundary(s, tn) ==
  IF AtBoundary(s, tn)
  THEN [s EXCEPT !.reservation = None, !.state = TransitionTo(@, BoundaryOutcome(s, tn)),
                 !.terminal_record = BoundaryOutcome(s, tn)]
  ELSE s

Advance(tn) ==
  LET hit == {q \in DOMAIN seqs : AtBoundary(seqs[q], tn)}
  IN /\ Unlocked
     /\ seqs' = [q \in DOMAIN seqs |-> CrossBoundary(seqs[q], tn)]
     /\ ReleaseReservations(hit)
     /\ TenantsLeft(hit)
     /\ UNCHANGED <<epoch, workers, next_reservation, ledger, next_grant, next_dispatch, formed,
                    issued>>

-----------------------------------------------------------------------------
(* Scheduling *)

\* A candidate whose budget is spent is recorded as completed.
CompleteSpent(s) ==
  [s EXCEPT !.reservation = None, !.state = TransitionTo(@, "Completed"),
            !.terminal_record = "Completed"]

\* One key for each candidate; requests with equal needs meet the same worker first.
KeyChoices(cands) ==
  {pick \in [cands -> Keys] :
     \A p, q \in cands :
       /\ pick[q] \in KeysFor(seqs[q].req)
       /\ /\ seqs[p].req.model = seqs[q].req.model
          /\ seqs[p].req.adapter = seqs[q].req.adapter
          /\ seqs[p].req.device_constraint = seqs[q].req.device_constraint
          => pick[p] = pick[q]}

WithinLimits(group) ==
  /\ Cardinality(group) <= (IF MaxSequences > 0 THEN MaxSequences ELSE 1)
  /\ MaxTenantShare > 0 =>
       \A t \in Tenants : Cardinality({q \in group : seqs[q].req.tenant = t}) <= MaxTenantShare

LatencyAllowed_Strict(q) ==
  MaxLatencyClass # BulkLatency => seqs[q].req.latency_class < MaxLatencyClass
LatencyAllowed(q) ==
  MaxLatencyClass # BulkLatency => seqs[q].req.latency_class <= MaxLatencyClass

\* Greedy packing in some score order: the members of each key form a maximal set within
\* the limits (the limits are a truncated partition matroid, so every maximal set is what
\* some order packs).  Scores are abstracted to that order.
Packed(group, cands) ==
  /\ WithinLimits(group)
  /\ \A q \in group : LatencyAllowed(q)
  /\ \A q \in cands \ group : LatencyAllowed(q) => ~WithinLimits(group \cup {q})

\* schedule up to the end of group formation.
Schedule(tn) ==
  LET after == [q \in DOMAIN seqs |-> CrossBoundary(seqs[q], tn)]
      hit == {q \in DOMAIN seqs : AtBoundary(seqs[q], tn)}
      cands == {q \in DOMAIN seqs : after[q].state \in CandidateStates}
      spent == {q \in cands : Exhausted(after[q])}
      live == {q \in cands \ spent : KeysFor(after[q].req) # {}}
  IN /\ Unlocked
     /\ live # {} => next_dispatch + Cardinality(Keys) <= MaxDispatch + 1
     /\ \E pick \in KeyChoices(live), chosen \in SUBSET live :
          LET of(group, k) == {q \in group : pick[q] = k}
          IN /\ \A k \in Keys : Packed(of(chosen, k), of(live, k))
             /\ formed' = {[key |-> k, members |-> of(chosen, k)] : k \in {pick[q] : q \in chosen}}
             /\ seqs' = [q \in DOMAIN seqs |->
                           IF q \in spent THEN CompleteSpent(after[q])
                           ELSE IF q \in chosen
                           THEN [after[q] EXCEPT !.state = TransitionTo(@, "Grouped")]
                           ELSE after[q]]
     /\ ReleaseReservations(hit \cup spent)
     /\ TenantsLeft(hit)
     /\ UNCHANGED <<epoch, workers, next_reservation, ledger, next_grant, next_dispatch, issued>>

\* Healthy workers that run the group's model on its device and are not at capacity.
Eligible(g) ==
  {w \in DOMAIN workers :
     /\ workers[w].healthy
     /\ \E k \in Descriptor[w].keys : k.model = g.key.model /\ k.device = g.key.device
     /\ Descriptor[w].advertised_capacity > 0 =>
          workers[w].active_reservations < Descriptor[w].advertised_capacity}

LeastLoaded(ws) ==
  {w \in ws : \A v \in ws : workers[w].active_reservations <= workers[v].active_reservations}

Growth(group) ==
  MapThenSumSet(LAMBDA q : IF seqs[q].req.estimated_growth > 0 THEN seqs[q].req.estimated_growth
                           ELSE DefaultGrowth, group)

HasHeadroom(device, growth) ==
  LET dm == dev_mem[device]
      headroom == IF dm.capacity > dm.reserved THEN dm.capacity - dm.reserved ELSE 0
  IN dm.capacity > 0 =>
       /\ growth <= headroom
       /\ HeadroomFloor > 0 => headroom >= HeadroomFloor

\* No eligible worker, or no memory on the worker chosen: the members go back to Ready.
RevertGroup(g) ==
  /\ g \in formed
  /\ \/ Eligible(g) = {}
     \/ \E w \in LeastLoaded(Eligible(g)) : ~HasHeadroom(Descriptor[w].device, Growth(g.members))
  /\ formed' = formed \ {g}
  /\ seqs' = [q \in DOMAIN seqs |-> IF q \in g.members
                                    THEN [seqs[q] EXCEPT !.state = TransitionTo(@, "Ready")]
                                    ELSE seqs[q]]
  /\ UNCHANGED <<epoch, workers, dev_mem, tenant_active, reservations, next_reservation, ledger,
                 next_grant, next_dispatch, issued>>

\* What the Dispatch tells worker w about member q.
MemberSpec(q, w) ==
  [dispatch |-> next_dispatch, epoch |-> epoch, worker |-> w, boot |-> workers[w].boot,
   sequence |-> q, attempt |-> seqs[q].current_attempt, generation |-> seqs[q].generation]

\* Reserve memory and dispatch the group; the grant of an older dispatch is not reset.
DispatchGroup(g, w) ==
  LET d == Descriptor[w].device
      growth == Growth(g.members)
  IN /\ g \in formed
     /\ w \in LeastLoaded(Eligible(g))
     /\ HasHeadroom(d, growth)
     /\ formed' = formed \ {g}
     /\ reservations' = [r \in DOMAIN reservations \cup {next_reservation} |->
                           IF r = next_reservation THEN [device |-> d, bytes |-> growth]
                           ELSE reservations[r]]
     /\ dev_mem' = [dev_mem EXCEPT ![d].reserved = @ + growth]
     /\ next_reservation' = next_reservation + 1
     /\ next_dispatch' = next_dispatch + 1
     /\ seqs' = [q \in DOMAIN seqs |->
                   IF q \notin g.members THEN seqs[q]
                   ELSE [seqs[q] EXCEPT !.in_flight_dispatch = next_dispatch,
                           !.in_flight_worker = w, !.in_flight_generation = seqs[q].generation,
                           !.has_inflight = TRUE, !.reservation = next_reservation,
                           !.state = TransitionVia(@, "Reserved", "Dispatched")]]
     /\ issued' = issued \cup {MemberSpec(q, w) : q \in g.members}
     /\ workers' = [workers EXCEPT ![w].active_reservations = @ + 1]
     /\ UNCHANGED <<epoch, tenant_active, ledger, next_grant>>

-----------------------------------------------------------------------------
(* The transactional protocol *)

\* m is a member spec some worker answers: the authority tuple the answer carries.
StaleBoot(m) == m.worker \in DOMAIN workers /\ workers[m.worker].boot # m.boot
IdentityCurrent(s, m) ==
  /\ m.attempt = s.current_attempt
  /\ m.generation = s.in_flight_generation
  /\ m.dispatch = s.in_flight_dispatch

\* The dispatch is forgotten and its reservation released, nothing else.
DropInFlight(q) ==
  /\ seqs' = [seqs EXCEPT ![q].has_inflight = FALSE, ![q].reservation = None]
  /\ ReleaseReservations({q})
  /\ UNCHANGED <<epoch, workers, tenant_active, next_reservation, ledger, next_grant,
                 next_dispatch, formed, issued>>

\* apply_completion (a bare completion never advances a generation).  It has an effect in
\* three cases: a completion of an old epoch, ...
CompleteOldEpoch(m) ==
  /\ Unlocked
  /\ m.sequence \in DOMAIN seqs
  /\ m.epoch # epoch
  /\ DropInFlight(m.sequence)

CompletionCurrent(m) ==
  /\ m.sequence \in DOMAIN seqs
  /\ m.epoch = epoch
  /\ ~StaleBoot(m)
  /\ IdentityCurrent(seqs[m.sequence], m)
  /\ ~IsTerminal(seqs[m.sequence].state)

\* ... a current one of a sequence being cancelled, ...
CompleteCancelled(m) ==
  /\ Unlocked
  /\ CompletionCurrent(m)
  /\ seqs[m.sequence].state = "CancelRequested"
  /\ DropInFlight(m.sequence)

\* ... and a current one that reports something else than a step.
CompleteNonCommit(m, kind) ==
  /\ Unlocked
  /\ CompletionCurrent(m)
  /\ seqs[m.sequence].state # "CancelRequested"
  /\ kind \notin SuccessKinds \cup {"StaleAuthorityRejected"}
  /\ SettleNonCommit(m.sequence, kind)

\* authorize_prepared: the authority checks, most stale first.
AuthorityCurrent(s, pm) ==
  /\ pm.epoch = epoch
  /\ ~StaleBoot(pm)
  /\ IdentityCurrent(s, pm)
  /\ ~IsTerminal(s.state)
  /\ s.state # "CancelRequested"

\* authorize_prepared: the transaction binding of a commit-eligible member.
BindingValid_NoPosition(s, pm) ==
  /\ s.accepted # AcceptanceKey(pm)
  /\ s.in_flight_grant = None
  /\ s.committed_digest # None => pm.pre = s.committed_digest
BindingValid_NoDigest(s, pm) ==
  /\ s.accepted # AcceptanceKey(pm)
  /\ s.in_flight_grant = None
  /\ pm.position = s.generated
BindingValid(s, pm) ==
  /\ s.accepted # AcceptanceKey(pm)
  /\ s.in_flight_grant = None
  /\ pm.position = s.generated
  /\ s.committed_digest # None => pm.pre = s.committed_digest

RejectPrepared(pm) ==
  /\ seqs' = [seqs EXCEPT ![pm.sequence] = StaleReconcile(@)]
  /\ ReleaseReservations({pm.sequence})
  /\ UNCHANGED <<epoch, workers, tenant_active, next_reservation, ledger, next_grant,
                 next_dispatch, formed, issued>>

Grant(pm) ==
  [proposal |-> pm.proposal, epoch |-> pm.epoch, worker |-> pm.worker, boot |-> pm.boot,
   sequence |-> pm.sequence, attempt |-> pm.attempt, generation |-> pm.generation,
   dispatch |-> pm.dispatch, position |-> pm.position, pre |-> pm.pre, post |-> pm.post,
   terminal |-> pm.kind = "StepSuccessTerminal", status |-> "pending"]

IssueGrant_SameId(pm) ==
  /\ next_grant <= MaxGrant
  /\ ledger' = [g \in DOMAIN ledger \cup {next_grant} |->
                  IF g = next_grant THEN Grant(pm) ELSE ledger[g]]
  /\ seqs' = [seqs EXCEPT ![pm.sequence].in_flight_grant = next_grant,
                          ![pm.sequence].in_flight_proposal = pm.proposal]
  /\ UNCHANGED <<epoch, workers, dev_mem, tenant_active, reservations, next_reservation,
                 next_grant, next_dispatch, formed, issued>>
IssueGrant(pm) ==
  /\ next_grant <= MaxGrant
  /\ ledger' = [g \in DOMAIN ledger \cup {next_grant} |->
                  IF g = next_grant THEN Grant(pm) ELSE ledger[g]]
  /\ next_grant' = next_grant + 1
  /\ seqs' = [seqs EXCEPT ![pm.sequence].in_flight_grant = next_grant,
                          ![pm.sequence].in_flight_proposal = pm.proposal]
  /\ UNCHANGED <<epoch, workers, dev_mem, tenant_active, reservations, next_reservation,
                 next_dispatch, formed, issued>>

\* authorize_prepared of an answer whose authority is stale: whatever is in flight for the
\* sequence now is closed with it.
AuthorizeStale(m) ==
  /\ Unlocked
  /\ m.sequence \in DOMAIN seqs
  /\ ~AuthorityCurrent(seqs[m.sequence], m)
  /\ RejectPrepared(m)

\* authorize_prepared of a current answer that is not commit-eligible.
AuthorizeNonCommit(m, kind) ==
  /\ Unlocked
  /\ m.sequence \in DOMAIN seqs
  /\ AuthorityCurrent(seqs[m.sequence], m)
  /\ kind \notin SuccessKinds
  /\ SettleNonCommit(m.sequence, kind)

\* authorize_prepared of a current, commit-eligible answer pm.
AuthorizeStep(pm) ==
  /\ Unlocked
  /\ pm.sequence \in DOMAIN seqs
  /\ AuthorityCurrent(seqs[pm.sequence], pm)
  /\ pm.kind \in SuccessKinds
  /\ \/ ~BindingValid(seqs[pm.sequence], pm) /\ RejectPrepared(pm)
     \/ BindingValid(seqs[pm.sequence], pm) /\ IssueGrant(pm)

\* The receipt is the one of grant gid: every identity field but the worker is compared.
ReceiptMatches_NoPost(g, rec) ==
  /\ rec.proposal = g.proposal
  /\ rec.sequence = g.sequence
  /\ rec.attempt = g.attempt
  /\ rec.generation = g.generation
  /\ rec.boot = g.boot
  /\ rec.epoch = g.epoch
  /\ rec.dispatch = g.dispatch
  /\ rec.position = g.position
  /\ rec.pre = g.pre
ReceiptMatches(g, rec) ==
  /\ rec.proposal = g.proposal
  /\ rec.sequence = g.sequence
  /\ rec.attempt = g.attempt
  /\ rec.generation = g.generation
  /\ rec.boot = g.boot
  /\ rec.epoch = g.epoch
  /\ rec.dispatch = g.dispatch
  /\ rec.position = g.position
  /\ rec.pre = g.pre
  /\ rec.post = g.post

\* The grant is the one the sequence waits for, and the sequence may still advance.
GrantInFlight_AnyPending(s, gid, rec) == TRUE
GrantInFlight(s, gid, rec) == s.in_flight_grant = gid /\ s.in_flight_proposal = rec.proposal
MayFinalize_WhenTerminal(s) == s.state # "CancelRequested"
MayFinalize(s) == ~IsTerminal(s.state) /\ s.state # "CancelRequested"

\* Exactly one authoritative generation.
Finalize(s, rec) ==
  LET advanced ==
        [s EXCEPT !.budget = BudgetAdvance(s), !.generated = @ + 1, !.generation = @ + 1,
                  !.committed_digest = rec.post, !.accepted = AcceptanceKey(rec),
                  !.has_inflight = FALSE, !.in_flight_dispatch = None, !.in_flight_grant = None,
                  !.in_flight_proposal = None, !.reservation = None]
  IN IF rec.terminal \/ Exhausted(advanced)
     THEN [advanced EXCEPT !.state = TransitionVia(@, "StepCompleted", "Completed"),
                           !.terminal_record = "Completed"]
     ELSE [advanced EXCEPT !.state = TransitionVia(@, "StepCompleted", "ReadyForNextToken")]

\* apply_commit_receipt.  Every other receipt only counts as stale; the epoch, boot and
\* attempt that are current now are not consulted.
ReceiptApplies_CurrentEpoch(gid, rec) ==
  /\ gid \in DOMAIN ledger
  /\ ledger[gid].status = "pending"
  /\ ReceiptMatches(ledger[gid], rec)
  /\ rec.epoch = epoch
  /\ rec.sequence \in DOMAIN seqs
  /\ GrantInFlight(seqs[rec.sequence], gid, rec)
  /\ MayFinalize(seqs[rec.sequence])
ReceiptApplies(gid, rec) ==
  /\ gid \in DOMAIN ledger
  /\ ledger[gid].status = "pending"
  /\ ReceiptMatches(ledger[gid], rec)
  /\ rec.sequence \in DOMAIN seqs
  /\ GrantInFlight(seqs[rec.sequence], gid, rec)
  /\ MayFinalize(seqs[rec.sequence])
ApplyCommitReceipt(gid, rec) ==
  LET s == seqs[rec.sequence]
  IN /\ Unlocked
     /\ ReceiptApplies(gid, rec)
     /\ seqs' = [seqs EXCEPT ![rec.sequence] = Finalize(@, rec)]
     /\ ledger' = [ledger EXCEPT ![gid].status = "consumed"]
     /\ ReleaseReservations({rec.sequence})
     /\ TenantsLeft(IF rec.terminal \/ Exhausted(Finalize(s, rec)) THEN {rec.sequence} ELSE {})
     /\ UNCHANGED <<epoch, workers, next_reservation, next_grant, next_dispatch, formed, issued>>

\* abort_prepared keeps in_flight_dispatch and the generation: the sequence waits again.
Aborted(s) ==
  [s EXCEPT !.in_flight_grant = None, !.in_flight_proposal = None, !.has_inflight = FALSE,
            !.reservation = None,
            !.state = IF @ \in InFlightStates
                      THEN TransitionVia(@, "StepCompleted", "Waiting") ELSE @]
AbortPrepared(q, proposal) ==
  LET s == seqs[q]
  IN /\ Unlocked
     /\ s.in_flight_grant # None
     /\ s.in_flight_proposal = proposal
     /\ ledger' = [ledger EXCEPT ![s.in_flight_grant].status =
                     IF @ = "pending" THEN "aborted" ELSE @]
     /\ seqs' = [seqs EXCEPT ![q] = Aborted(@)]
     /\ ReleaseReservations({q})
     /\ UNCHANGED <<epoch, workers, tenant_active, next_reservation, next_grant, next_dispatch,
                    formed, issued>>

-----------------------------------------------------------------------------
(* Specification *)

Init ==
  /\ epoch = 1
  /\ seqs = [q \in {} |-> 0]
  /\ workers = [w \in {} |-> 0]
  /\ dev_mem = [d \in {} |-> 0]
  /\ tenant_active = [t \in Tenants |-> 0]
  /\ reservations = [r \in {} |-> 0]
  /\ next_reservation = 1
  /\ ledger = [g \in {} |-> 0]
  /\ next_grant = 1
  /\ next_dispatch = 1
  /\ formed = {}
  /\ issued = {}

\* The steps an executor may propose in answer to member spec m.
PreparedSteps(m) ==
  [dispatch : {m.dispatch}, epoch : {m.epoch}, worker : {m.worker}, boot : {m.boot},
   sequence : {m.sequence}, attempt : {m.attempt}, generation : {m.generation},
   proposal : Proposals, position : Positions, pre : Digests, post : Digests,
   kind : EnvKinds \cap SuccessKinds]

Next ==
  \/ \E req \in Requests : Submit(req)
  \/ \E q \in DOMAIN seqs : CancelInFlight(q) \/ CancelNow(q) \/ Retry(q)
  \/ \E w \in Workers, boot \in Boots : RegisterWorker(w, boot)
  \/ \E w \in Workers : MarkWorkerDead(w)
  \/ RollEpoch
  \/ \E tn \in Times : Advance(tn) \/ Schedule(tn)
  \/ \E g \in formed : RevertGroup(g)
  \/ \E g \in formed, w \in Workers : DispatchGroup(g, w)
  \/ \E m \in issued : CompleteOldEpoch(m) \/ CompleteCancelled(m) \/ AuthorizeStale(m)
  \/ \E m \in issued, kind \in EnvKinds : CompleteNonCommit(m, kind) \/ AuthorizeNonCommit(m, kind)
  \/ \E m \in issued : \E pm \in PreparedSteps(m) : AuthorizeStep(pm)
  \/ \E gid \in DOMAIN ledger, post \in Digests :
       ApplyCommitReceipt(gid, [ledger[gid] EXCEPT !.post = post])
  \/ \E q \in DOMAIN seqs, p \in Proposals : AbortPrepared(q, p)

Spec == Init /\ [][Next]_vars

-----------------------------------------------------------------------------
(* Properties *)

AcceptanceKeys ==
  [epoch : Nat, worker : Workers, boot : Boots, sequence : SequenceIds, attempt : Nat,
   generation : Nat, dispatch : Nat, position : Nat]

SeqRecords ==
  [req : Requests, state : SequenceStates, current_attempt : Nat, budget : Nat, generated : Nat,
   generation : Nat \ {0}, has_inflight : BOOLEAN, in_flight_dispatch : Nat,
   in_flight_worker : Workers \cup {None}, in_flight_generation : Nat, in_flight_grant : Nat,
   in_flight_proposal : Proposals \cup {None}, committed_digest : Digests \cup {None},
   accepted : AcceptanceKeys \cup {NoAcceptance}, reservation : Nat, attempt_count : Nat,
   terminal_record : SequenceStates \cup {NoRecord}]

GrantRecords ==
  [proposal : Proposals, epoch : Nat, worker : Workers, boot : Boots, sequence : SequenceIds,
   attempt : Nat, generation : Nat, dispatch : Nat \ {0}, position : Nat, pre : Digests,
   post : Digests, terminal : BOOLEAN, status : {"pending", "consumed", "aborted"}]

MemberSpecs ==
  [dispatch : Nat \ {0}, epoch : Nat, worker : Workers, boot : Boots, sequence : SequenceIds,
   attempt : Nat, generation : Nat]

\* Types of the Impl fields; the byte counts are the subject of ReservedIsHeld.
TypeOK ==
  /\ epoch \in Nat
  /\ DOMAIN seqs \subseteq SequenceIds /\ IsFiniteSet(DOMAIN seqs)
  /\ \A q \in DOMAIN seqs : seqs[q] \in SeqRecords /\ seqs[q].req.sequence = q
  /\ DOMAIN workers \subseteq Workers
  /\ \A w \in DOMAIN workers :
       workers[w] \in [boot : Boots, healthy : BOOLEAN, active_reservations : Nat]
  /\ DOMAIN dev_mem \subseteq Devices
  /\ tenant_active \in [Tenants -> 0 .. CounterMod - 1]
  /\ DOMAIN reservations \subseteq Nat \ {0}
  /\ next_reservation \in Nat \ {0}
  /\ DOMAIN ledger = 1 .. next_grant - 1
  /\ \A g \in DOMAIN ledger : ledger[g] \in GrantRecords
  /\ next_grant \in Nat \ {0}
  /\ next_dispatch \in Nat \ {0}
  /\ \A g \in formed : g.key \in Keys /\ g.members \subseteq DOMAIN seqs
  /\ issued \subseteq MemberSpecs

Consumed(q) == {g \in DOMAIN ledger : ledger[g].sequence = q /\ ledger[g].status = "consumed"}

\* The grant a sequence holds is pending, its own, and for the generation, position and
\* committed digest the sequence has now: nothing that happens between authorize_prepared
\* and apply_commit_receipt can move the sequence under its grant.
GrantIsCurrent ==
  \A q \in DOMAIN seqs : seqs[q].in_flight_grant # None =>
    LET s == seqs[q]
        g == ledger[s.in_flight_grant]
    IN /\ s.in_flight_grant \in DOMAIN ledger
       /\ g.status = "pending"
       /\ g.sequence = q
       /\ g.proposal = s.in_flight_proposal
       /\ g.generation = s.generation
       /\ g.position = s.generated
       /\ s.committed_digest # None => g.pre = s.committed_digest

\* Each generation a sequence has left behind was finalized by exactly one consumed grant,
\* and no grant was consumed for a generation still ahead (the receipt is applied once).
OneReceiptPerGeneration ==
  \A q \in DOMAIN seqs :
    /\ \A g, h \in Consumed(q) : ledger[g].generation = ledger[h].generation => g = h
    /\ {ledger[g].generation : g \in Consumed(q)} = 1 .. seqs[q].generation - 1

\* receipt(G).post is prepare(G+1).pre; the digest the fabric expects next and the accepted
\* record it would reconcile a replay with are those of the last receipt.
ReceiptChain ==
  \A q \in DOMAIN seqs : \A g \in Consumed(q) :
    /\ ledger[g].generation = seqs[q].generation - 1 =>
         /\ seqs[q].committed_digest = ledger[g].post
         /\ seqs[q].accepted = AcceptanceKey(ledger[g])
    /\ \A h \in Consumed(q) :
         ledger[h].generation = ledger[g].generation + 1 => ledger[h].pre = ledger[g].post

\* The token count, the budget's own counter and the generation advance in lockstep and never
\* pass max_generation_length, although apply_commit_receipt ignores the result of
\* budget.advance.
BudgetRespected ==
  \A q \in DOMAIN seqs :
    LET s == seqs[q]
    IN /\ s.generated = s.req.pregenerated + s.generation - 1
       /\ s.budget = s.generated
       /\ s.generated <= s.req.max_generation_length

\* dev_mem[d].reserved is the sum of the live reservations on the device, and never exceeds
\* its capacity: a reservation shared by a group is neither released twice nor lost from
\* the account.
ReservedIsHeld ==
  \A d \in DOMAIN dev_mem :
    /\ dev_mem[d].reserved = MapThenSumSet(LAMBDA r : reservations[r].bytes,
                               {r \in DOMAIN reservations : reservations[r].device = d})
    /\ dev_mem[d].capacity > 0 => dev_mem[d].reserved <= dev_mem[d].capacity

\* A terminal sequence is frozen: no call, late receipt or replayed result moves its state,
\* its token count or its generation.
TerminalIsFinal ==
  [][\A q \in DOMAIN seqs : IsTerminal(seqs[q].state) =>
       /\ seqs'[q].state = seqs[q].state
       /\ seqs'[q].generated = seqs[q].generated
       /\ seqs'[q].generation = seqs[q].generation]_vars

\* A grant is one-use.  It can only be consumed or aborted while its sequence waits for it;
\* from the moment the sequence no longer does (receipt applied, abort, stale_reconcile, which
\* leaves the ledger entry pending) the grant never counts again, whatever receipt arrives.
GrantIsOneUse ==
  [][\A g \in DOMAIN ledger :
       LET q == ledger[g].sequence
       IN /\ g \in DOMAIN ledger'
          /\ ledger'[g] = [ledger[g] EXCEPT !.status = ledger'[g].status]
          /\ seqs[q].in_flight_grant # g =>
               ledger'[g].status = ledger[g].status /\ seqs'[q].in_flight_grant # g]_vars

\* The attempt id a retry mints was never dispatched before, so no answer to an earlier
\* attempt can pass for one of the new attempt.
AttemptIsFresh ==
  [][\A q \in DOMAIN seqs : seqs'[q].attempt_count # seqs[q].attempt_count =>
       \A m \in issued : m.sequence = q => m.attempt # seqs'[q].current_attempt]_vars

-----------------------------------------------------------------------------
(* Claims of the documentation that the code does not keep *)

\* reservation.hpp: a group reservation "holds capacity for a formed group".  Every member
\* that is still executing would then be covered by a live reservation; the first member to
\* settle releases it for all of them.
ExecutingIsReserved ==
  \A q \in DOMAIN seqs :
    seqs[q].state = "Dispatched" /\ seqs[q].has_inflight =>
      seqs[q].reservation \in DOMAIN reservations

\* reservation.hpp: reservations "must never leak".  Some sequence would then hold the id of
\* every live reservation, to release it; a retry keeps the reservation of the attempt it
\* replaces and the next dispatch overwrites its id.
ReservationIsOwned ==
  \A r \in DOMAIN reservations : \E q \in DOMAIN seqs : seqs[q].reservation = r

\* worker.hpp: active_reservations is the "current reserved work units".  No completion ever
\* lowers it, so a worker that has nothing in flight may look full.
LoadIsInFlight ==
  \A w \in DOMAIN workers :
    workers[w].active_reservations <=
      Cardinality({q \in DOMAIN seqs : seqs[q].has_inflight /\ seqs[q].in_flight_worker = w})

\* fabric.cpp, schedule: "Budget exhausted but not terminal: make terminal now."  A sequence
\* with a terminal record would then be terminal; the state machine has no edge from a
\* candidate state to Completed.
RecordedIsTerminal ==
  \A q \in DOMAIN seqs : seqs[q].terminal_record # NoRecord => IsTerminal(seqs[q].state)

\* executor.hpp: a member that yielded is "eligible later".  The sequence would then be a
\* candidate of the next schedule; the state machine has no edge from StepCompleted to Yielded.
YieldedIsEligible ==
  [][\A m \in issued :
       CompleteNonCommit(m, "Yielded") \/ AuthorizeNonCommit(m, "Yielded") =>
         seqs'[m.sequence].state \in CandidateStates]_vars

\* protocol.md: a worker restart with a new boot id "makes grants from the old boot stale and
\* rejected".  apply_commit_receipt compares the receipt with the grant only.
OldBootIsRejected ==
  [][\A g \in DOMAIN ledger :
       ledger'[g].status = "consumed" /\ ledger[g].status = "pending" =>
         workers[ledger[g].worker].boot = ledger[g].boot]_vars

=============================================================================
