------------------------- MODULE DecodeFabricProofs -------------------------
(***************************************************************************)
(* Type correctness of DecodeFabric, for every set of requests, workers,   *)
(* boots, digests and every configuration.                                 *)
(***************************************************************************)
EXTENDS HandlerLemmas

-----------------------------------------------------------------------------
(* Type correctness *)

SeqsTyped ==
  /\ DOMAIN seqs \subseteq SequenceIds /\ IsFiniteSet(DOMAIN seqs)
  /\ \A q \in DOMAIN seqs : seqs[q] \in SeqRecords /\ seqs[q].req.sequence = q
WorkersTyped ==
  /\ DOMAIN workers \subseteq Workers
  /\ \A w \in DOMAIN workers :
       workers[w] \in [boot : Boots, healthy : BOOLEAN, active_reservations : Nat]
MemoryTyped == DOMAIN dev_mem \subseteq Devices /\ DOMAIN reservations \subseteq Nat \ {0}
TenantsTyped == tenant_active \in [Tenants -> 0 .. CounterMod - 1]
LedgerTyped ==
  /\ next_grant \in Nat \ {0}
  /\ DOMAIN ledger = 1 .. next_grant - 1
  /\ \A g \in DOMAIN ledger : ledger[g] \in GrantRecords
CountersTyped == epoch \in Nat /\ next_reservation \in Nat \ {0} /\ next_dispatch \in Nat \ {0}
GroupsTyped ==
  /\ \A g \in formed : g.key \in Keys /\ g.members \subseteq DOMAIN seqs
  /\ issued \subseteq MemberSpecs

\* TypeOK, by the part of Impl it is about.
LEMMA TypeParts ==
  /\ TypeOK <=> /\ SeqsTyped /\ WorkersTyped /\ MemoryTyped /\ TenantsTyped /\ LedgerTyped
                /\ CountersTyped /\ GroupsTyped
  /\ TypeOK' <=> /\ SeqsTyped' /\ WorkersTyped' /\ MemoryTyped' /\ TenantsTyped' /\ LedgerTyped'
                 /\ CountersTyped' /\ GroupsTyped'
  BY DEF TypeOK, SeqsTyped, WorkersTyped, MemoryTyped, TenantsTyped, LedgerTyped, CountersTyped,
         GroupsTyped

\* A quiet step keeps the sequences typed.
LEMMA QuietTyped ==
  ASSUME TypeOK, QuietStep
  PROVE  SeqsTyped'
  <1>1. SeqsTyped  BY TypeParts, Zenon
  <1>2. DOMAIN seqs' \subseteq SequenceIds /\ IsFiniteSet(DOMAIN seqs')
    BY <1>1, Zenon DEF SeqsTyped, QuietStep
  <1>3. ASSUME NEW q \in DOMAIN seqs' PROVE seqs'[q] \in SeqRecords /\ seqs'[q].req.sequence = q
    <2>1. q \in DOMAIN seqs /\ Quiet(seqs[q], seqs'[q])  BY <1>3, Zenon DEF QuietStep
    <2>2. seqs'[q] \in SeqRecords /\ seqs'[q].req = seqs[q].req
      BY <2>1, Zenon DEF Quiet, SameProgress
    <2>3. seqs[q].req.sequence = q  BY <1>1, <2>1, Zenon DEF SeqsTyped
    <2> QED  BY <2>2, <2>3, Zenon
  <1> QED  BY <1>2, <1>3, Zenon DEF SeqsTyped

\* release_reservation invents neither a device nor a reservation.
LEMMA ReleaseTyped ==
  ASSUME TypeOK, NEW Q, ReleaseReservations(Q)
  PROVE  MemoryTyped'
  BY DEF TypeOK, MemoryTyped, ReleaseReservations

\* The tenant counters stay unsigned machine integers.
LEMMA TenantsLeftTyped ==
  ASSUME TypeOK, NEW Q, IsFiniteSet(Q), TenantsLeft(Q)
  PROVE  TenantsTyped'
  <1> SUFFICES ASSUME NEW t \in Tenants PROVE tenant_active'[t] \in 0 .. CounterMod - 1
    BY DEF TypeOK, TenantsLeft, TenantsTyped
  <1> DEFINE n == Cardinality({q \in Q : seqs[q].req.tenant = t})
  <1>1. n \in Nat  BY FS_Subset, FS_CardinalityType, Zenon
  <1>2. tenant_active[t] \in Nat  BY DEF TypeOK
  <1>3. tenant_active'[t] = (tenant_active[t] - n) % CounterMod  BY DEF TypeOK, TenantsLeft
  <1> HIDE DEF n
  <1>4. CounterMod \in Nat \ {0}  BY ConfigAssumption, Zenon
  <1> QED  BY <1>1, <1>2, <1>3, <1>4

\* The sets of sequences that leave a tenant in one step are finite.
LEMMA LeaversFinite ==
  ASSUME TypeOK
  PROVE  /\ \A Q : Q \subseteq DOMAIN seqs => IsFiniteSet(Q)
         /\ \A q : IsFiniteSet({q})
         /\ IsFiniteSet({})
  BY FS_Subset, FS_Singleton, FS_EmptySet, Zenon DEF TypeOK

\* The types survive a member settled without a commit, ...
LEMMA SettleTyped ==
  ASSUME TypeOK, NEW q \in DOMAIN seqs, NEW kind, SettleNonCommit(q, kind)
  PROVE  TypeOK'
  <1>1. SeqsTyped'  BY SettleQuiet, QuietTyped, Zenon
  <1>2. MemoryTyped'  BY ReleaseTyped, Zenon DEF SettleNonCommit
  <1>3. TenantsTyped'  BY TenantsLeftTyped, LeaversFinite, Zenon DEF SettleNonCommit
  <1>4. DOMAIN seqs' = DOMAIN seqs  BY DEF SettleNonCommit
  <1>5. WorkersTyped' /\ LedgerTyped' /\ CountersTyped' /\ GroupsTyped'
    BY <1>4, TypeParts, Zenon
    DEF SettleNonCommit, WorkersTyped, LedgerTyped, CountersTyped, GroupsTyped
  <1> QED  BY <1>1, <1>2, <1>3, <1>5, TypeParts, Zenon

\* ... a rejected proposal, ...
LEMMA RejectTyped ==
  ASSUME TypeOK, NEW pm, pm.sequence \in DOMAIN seqs, RejectPrepared(pm)
  PROVE  TypeOK'
  <1>1. SeqsTyped'  BY RejectQuiet, QuietTyped, Zenon
  <1>2. MemoryTyped'  BY ReleaseTyped, Zenon DEF RejectPrepared
  <1>3. DOMAIN seqs' = DOMAIN seqs  BY DEF RejectPrepared
  <1>4. WorkersTyped' /\ LedgerTyped' /\ CountersTyped' /\ GroupsTyped' /\ TenantsTyped'
    BY <1>3, TypeParts, Zenon
    DEF RejectPrepared, WorkersTyped, LedgerTyped, CountersTyped, GroupsTyped, TenantsTyped
  <1> QED  BY <1>1, <1>2, <1>4, TypeParts, Zenon

\* ... and a completion that only drops what is in flight.
LEMMA DropInFlightTyped ==
  ASSUME TypeOK, NEW q \in DOMAIN seqs, DropInFlight(q)
  PROVE  TypeOK'
  <1>1. SeqsTyped'  BY DropInFlightQuiet, QuietTyped, Zenon
  <1>2. MemoryTyped'  BY ReleaseTyped, Zenon DEF DropInFlight
  <1>3. DOMAIN seqs' = DOMAIN seqs  BY DEF DropInFlight
  <1>4. WorkersTyped' /\ LedgerTyped' /\ CountersTyped' /\ GroupsTyped' /\ TenantsTyped'
    BY <1>3, TypeParts, Zenon
    DEF DropInFlight, WorkersTyped, LedgerTyped, CountersTyped, GroupsTyped, TenantsTyped
  <1> QED  BY <1>1, <1>2, <1>4, TypeParts, Zenon

\* What submit adds is a sequence of its own tenant.
LEMMA SubmitTyped ==
  ASSUME TypeOK, NEW req \in Requests, Submit(req)
  PROVE  TypeOK'
  <1> DEFINE n == NewSeq(req)
  <1>1. n \in SeqRecords /\ n.req = req  BY NewSeqType, Zenon DEF NewSeq
  <1>2. seqs' = [q \in DOMAIN seqs \cup {req.sequence} |->
                   IF q = req.sequence THEN n ELSE seqs[q]]
    BY DEF Submit
  <1> HIDE DEF n
  <1>3. req.sequence \in SequenceIds /\ req.tenant \in Tenants  BY DEF SequenceIds, Tenants
  <1>4. IsFiniteSet(DOMAIN seqs \cup {req.sequence})  BY FS_AddElement, Zenon DEF TypeOK
  <1>5. SeqsTyped'
    <2>1. DOMAIN seqs' = DOMAIN seqs \cup {req.sequence}  BY <1>2, Zenon
    <2>2. ASSUME NEW q \in DOMAIN seqs'
          PROVE  seqs'[q] \in SeqRecords /\ seqs'[q].req.sequence = q
      <3>1. CASE q = req.sequence  BY <1>1, <1>2, <2>1, <3>1, Zenon
      <3>2. CASE q # req.sequence
        <4>1. q \in DOMAIN seqs /\ seqs'[q] = seqs[q]  BY <1>2, <2>1, <2>2, <3>2, Zenon
        <4> QED  BY <4>1, Zenon DEF TypeOK
      <3> QED  BY <3>1, <3>2, Zenon
    <2>3. DOMAIN seqs \subseteq SequenceIds  BY DEF TypeOK
    <2> QED  BY <1>2, <1>3, <1>4, <2>1, <2>2, <2>3, Zenon DEF SeqsTyped
  <1>6. TenantsTyped'
    <2>1. tenant_active[req.tenant] \in Nat
      BY <1>3, TypeParts, ConfigAssumption DEF TenantsTyped
    <2>2. (tenant_active[req.tenant] + 1) % CounterMod \in 0 .. CounterMod - 1
      BY <2>1, ConfigAssumption
    <2> QED  BY <1>3, <2>2, Zenon DEF TypeOK, Submit, TenantsTyped
  <1>7. DOMAIN seqs \subseteq DOMAIN seqs'  BY <1>2, Zenon
  <1>8. WorkersTyped' /\ LedgerTyped' /\ CountersTyped' /\ GroupsTyped' /\ MemoryTyped'
    BY <1>7, TypeParts, Zenon
    DEF Submit, WorkersTyped, LedgerTyped, CountersTyped, GroupsTyped, MemoryTyped
  <1> QED  BY <1>5, <1>6, <1>8, TypeParts, Zenon

\* cancel and retry keep the types.
LEMMA CancelRetryTyped ==
  ASSUME TypeOK, NEW q \in DOMAIN seqs, CancelInFlight(q) \/ CancelNow(q) \/ Retry(q)
  PROVE  TypeOK'
  <1>1. SeqsTyped'  BY CancelQuiet, RetryQuiet, QuietTyped, Zenon
  <1>2. DOMAIN seqs' = DOMAIN seqs  BY CancelQuiet, RetryQuiet, Zenon DEF QuietStep
  <1>3. MemoryTyped' /\ TenantsTyped'
    <2>1. CASE CancelNow(q)
      BY <2>1, ReleaseTyped, TenantsLeftTyped, LeaversFinite, Zenon DEF CancelNow
    <2>2. CASE CancelInFlight(q) \/ Retry(q)
      BY <2>2, TypeParts, Zenon DEF CancelInFlight, Retry, MemoryTyped, TenantsTyped
    <2> QED  BY <2>1, <2>2, Zenon
  <1>4. UNCHANGED <<epoch, workers, next_reservation, ledger, next_grant, next_dispatch, formed,
                    issued>>
    BY DEF CancelInFlight, CancelNow, Retry
  <1>5. WorkersTyped' /\ LedgerTyped' /\ CountersTyped' /\ GroupsTyped'
    BY <1>2, <1>4, TypeParts, Zenon DEF WorkersTyped, LedgerTyped, CountersTyped, GroupsTyped
  <1> QED  BY <1>1, <1>3, <1>5, TypeParts, Zenon

\* register_worker and mark_worker_dead keep the types.
LEMMA WorkerTyped ==
  ASSUME TypeOK, NEW w \in Workers,
         MarkWorkerDead(w) \/ \E boot \in Boots : RegisterWorker(w, boot)
  PROVE  TypeOK'
  <1>1. QuietStep
    <2>1. CASE MarkWorkerDead(w)  BY <2>1, MarkWorkerDeadQuiet, Zenon
    <2>2. CASE \E boot \in Boots : RegisterWorker(w, boot)
      BY <2>2, QuietNone, Zenon DEF RegisterWorker
    <2> QED  BY <2>1, <2>2, Zenon
  <1>2. MemoryTyped'
    <2>1. CASE MarkWorkerDead(w)  BY <2>1, ReleaseTyped, Zenon DEF MarkWorkerDead
    <2>2. CASE \E boot \in Boots : RegisterWorker(w, boot)
      <3>1. DOMAIN dev_mem' = DOMAIN dev_mem \cup {Descriptor[w].device}
        BY <2>2, Zenon DEF RegisterWorker
      <3>2. reservations' = reservations /\ MemoryTyped
        BY <2>2, TypeParts, Zenon DEF RegisterWorker
      <3>3. Descriptor[w].device \in Devices  BY DEF Devices
      <3> QED  BY <3>1, <3>2, <3>3, Zenon DEF MemoryTyped
    <2> QED  BY <2>1, <2>2, Zenon
  <1>3. WorkersTyped'
    <2>1. CASE MarkWorkerDead(w)
      <3>1. /\ DOMAIN workers' = DOMAIN workers
            /\ \A v \in DOMAIN workers :
                 workers'[v] \in {workers[v], [workers[v] EXCEPT !.healthy = FALSE,
                                                               !.active_reservations = 0]}
        BY <2>1, Zenon DEF MarkWorkerDead
      <3>2. ASSUME NEW r \in [boot : Boots, healthy : BOOLEAN, active_reservations : Nat]
            PROVE  [r EXCEPT !.healthy = FALSE, !.active_reservations = 0]
                     \in [boot : Boots, healthy : BOOLEAN, active_reservations : Nat]
        BY ZenonT(30)
      <3> QED  BY <3>1, <3>2, TypeParts, Zenon DEF WorkersTyped
    <2>2. CASE \E boot \in Boots : RegisterWorker(w, boot)
      <3>1. PICK boot \in Boots : RegisterWorker(w, boot)  BY <2>2, Zenon
      <3>2. /\ DOMAIN workers' = DOMAIN workers \cup {w}
            /\ workers'[w] = [boot |-> boot, healthy |-> TRUE, active_reservations |-> 0]
            /\ \A v \in DOMAIN workers : v # w => workers'[v] = workers[v]
        BY <3>1, ZenonT(30) DEF RegisterWorker
      <3>3. [boot |-> boot, healthy |-> TRUE, active_reservations |-> 0]
              \in [boot : Boots, healthy : BOOLEAN, active_reservations : Nat]
        OBVIOUS
      <3> QED  BY <3>2, <3>3, TypeParts, ZenonT(30) DEF WorkersTyped
    <2> QED  BY <2>1, <2>2, Zenon
  <1>4. UNCHANGED <<epoch, tenant_active, next_reservation, ledger, next_grant, next_dispatch,
                    formed, issued>>
    BY Zenon DEF MarkWorkerDead, RegisterWorker
  <1>5. TenantsTyped' /\ LedgerTyped' /\ CountersTyped' /\ GroupsTyped'
    BY <1>1, <1>4, TypeParts, Zenon
    DEF QuietStep, TenantsTyped, LedgerTyped, CountersTyped, GroupsTyped
  <1> QED  BY <1>1, <1>2, <1>3, <1>5, QuietTyped, TypeParts, Zenon

\* advance keeps the types.
LEMMA AdvanceTyped ==
  ASSUME TypeOK, NEW tn, Advance(tn)
  PROVE  TypeOK'
  <1>1. QuietStep  BY AdvanceQuiet, Zenon
  <1>2. MemoryTyped'  BY ReleaseTyped, Zenon DEF Advance
  <1>3. TenantsTyped'  BY TenantsLeftTyped, LeaversFinite, Zenon DEF Advance
  <1>4. WorkersTyped' /\ LedgerTyped' /\ CountersTyped' /\ GroupsTyped'
    BY <1>1, TypeParts, Zenon
    DEF QuietStep, Advance, WorkersTyped, LedgerTyped, CountersTyped, GroupsTyped
  <1> QED  BY <1>1, <1>2, <1>3, <1>4, QuietTyped, TypeParts, Zenon

\* The groups schedule forms hold candidates, under a key of a registered worker, and a spent
\* sequence is in none of them.
LEMMA ScheduleForms ==
  ASSUME TypeOK, NEW tn, Schedule(tn), NEW g \in formed'
  PROVE  /\ g.key \in Keys
         /\ g.members \subseteq DOMAIN seqs
         /\ \A q \in g.members : ~Exhausted(CrossBoundary(seqs[q], tn))
  <1> DEFINE after == [q \in DOMAIN seqs |-> CrossBoundary(seqs[q], tn)]
             cands == {q \in DOMAIN seqs : after[q].state \in CandidateStates}
             spent == {q \in cands : Exhausted(after[q])}
             live == {q \in cands \ spent : KeysFor(after[q].req) # {}}
  <1>1. PICK pick \in KeyChoices(live), chosen \in SUBSET live :
          formed' = {[key |-> k, members |-> {q \in chosen : pick[q] = k}] :
                       k \in {pick[q] : q \in chosen}}
    BY Zenon DEF Schedule
  <1>2. PICK k \in {pick[q] : q \in chosen} :
          g = [key |-> k, members |-> {q \in chosen : pick[q] = k}]
    BY <1>1, Zenon
  <1>3. g.key = k /\ g.members \subseteq live  BY <1>1, <1>2, Zenon
  <1>4. pick \in [live -> Keys]  BY <1>1, Zenon DEF KeyChoices
  <1>5. k \in Keys  BY <1>2, <1>4, Zenon
  <1> QED  BY <1>3, <1>5, Zenon

\* schedule up to group formation keeps the types.
LEMMA ScheduleTyped ==
  ASSUME TypeOK, NEW tn, Schedule(tn)
  PROVE  TypeOK'
  <1>1. QuietStep  BY ScheduleQuiet, Zenon
  <1>2. MemoryTyped'  BY ReleaseTyped, Zenon DEF Schedule
  <1>3. TenantsTyped'  BY TenantsLeftTyped, LeaversFinite, Zenon DEF Schedule
  <1>4. WorkersTyped' /\ LedgerTyped' /\ CountersTyped'
    BY TypeParts, Zenon DEF Schedule, WorkersTyped, LedgerTyped, CountersTyped
  <1>5. issued' = issued  BY DEF Schedule
  <1>6. GroupsTyped'  BY <1>1, <1>5, ScheduleForms, TypeParts, Zenon DEF QuietStep, GroupsTyped
  <1> QED  BY <1>1, <1>2, <1>3, <1>4, <1>6, QuietTyped, TypeParts, Zenon

\* schedule giving up a group keeps the types.
LEMMA RevertTyped ==
  ASSUME TypeOK, NEW g, RevertGroup(g)
  PROVE  TypeOK'
  <1>1. QuietStep  BY RevertGroupQuiet, Zenon
  <1>2. WorkersTyped' /\ LedgerTyped' /\ CountersTyped' /\ MemoryTyped' /\ TenantsTyped'
    BY TypeParts, Zenon
    DEF RevertGroup, WorkersTyped, LedgerTyped, CountersTyped, MemoryTyped, TenantsTyped
  <1>3. GroupsTyped'  BY <1>1, TypeParts, Zenon DEF QuietStep, RevertGroup, GroupsTyped
  <1> QED  BY <1>1, <1>2, <1>3, QuietTyped, TypeParts, Zenon

\* What a dispatch does to each sequence.
LEMMA DispatchSeqs ==
  ASSUME TypeOK, NEW g, NEW w \in Workers, DispatchGroup(g, w)
  PROVE  /\ DOMAIN seqs' = DOMAIN seqs
         /\ \A q \in DOMAIN seqs : IF q \in g.members THEN WasDispatched(seqs[q], seqs'[q])
                                   ELSE seqs'[q] = seqs[q]
  <1>1. DOMAIN seqs' = DOMAIN seqs  BY Zenon DEF DispatchGroup
  <1>2. ASSUME NEW q \in DOMAIN seqs, q \in g.members
        PROVE  WasDispatched(seqs[q], seqs'[q])
    <2>1. seqs[q] \in SeqRecords /\ next_dispatch \in Nat /\ next_reservation \in Nat
      BY Zenon DEF TypeOK
    <2>2. seqs'[q] = AfterDispatch(seqs[q], next_dispatch, w, next_reservation)
      BY <1>2, Zenon DEF DispatchGroup, AfterDispatch
    <2> QED  BY <2>1, <2>2, DispatchedSeq, Zenon
  <1>3. ASSUME NEW q \in DOMAIN seqs, q \notin g.members PROVE seqs'[q] = seqs[q]
    BY <1>3, Zenon DEF DispatchGroup
  <1> QED  BY <1>1, <1>2, <1>3, Zenon

\* ... in particular each keeps its progress, its grant and, when it is over, its state.
LEMMA DispatchKeeps ==
  ASSUME TypeOK, NEW g, NEW w \in Workers, DispatchGroup(g, w), NEW q \in DOMAIN seqs
  PROVE  /\ seqs'[q] \in SeqRecords
         /\ SameProgress(seqs[q], seqs'[q])
         /\ seqs'[q].in_flight_grant = seqs[q].in_flight_grant
         /\ seqs'[q].in_flight_proposal = seqs[q].in_flight_proposal
         /\ IsTerminal(seqs[q].state) => seqs'[q].state = seqs[q].state
  <1>1. seqs[q] \in SeqRecords  BY DEF TypeOK
  <1> QED  BY <1>1, DispatchSeqs, Zenon DEF WasDispatched, SameProgress

\* schedule dispatching a group keeps the types, and issues well-typed member specs.
LEMMA DispatchTyped ==
  ASSUME TypeOK, NEW g, NEW w \in Workers, DispatchGroup(g, w)
  PROVE  TypeOK'
  <1>1. SeqsTyped'
    <2>1. DOMAIN seqs' = DOMAIN seqs  BY DispatchSeqs, Zenon
    <2>2. \A q \in DOMAIN seqs : seqs'[q] \in SeqRecords /\ seqs'[q].req = seqs[q].req
      BY DispatchKeeps, Zenon DEF SameProgress
    <2> QED  BY <2>1, <2>2, TypeParts, Zenon DEF SeqsTyped
  <1>2. w \in DOMAIN workers  BY Zenon DEF DispatchGroup, LeastLoaded, Eligible
  <1>3. WorkersTyped'
    <2>1. /\ DOMAIN workers' = DOMAIN workers
          /\ \A v \in DOMAIN workers :
               workers'[v] \in {workers[v], [workers[v] EXCEPT !.active_reservations = @ + 1]}
      BY Zenon DEF DispatchGroup
    <2>2. ASSUME NEW r \in [boot : Boots, healthy : BOOLEAN, active_reservations : Nat]
          PROVE  [r EXCEPT !.active_reservations = @ + 1]
                   \in [boot : Boots, healthy : BOOLEAN, active_reservations : Nat]
      OBVIOUS
    <2> QED  BY <2>1, <2>2, TypeParts, Zenon DEF WorkersTyped
  <1>4. MemoryTyped'
    BY TypeParts, Zenon DEF DispatchGroup, MemoryTyped, CountersTyped
  <1>5. g \in formed /\ g.members \subseteq DOMAIN seqs  BY Zenon DEF DispatchGroup, TypeOK
  <1>6. ASSUME NEW q \in g.members PROVE MemberSpec(q, w) \in MemberSpecs
    <2>1. seqs[q] \in SeqRecords /\ q \in SequenceIds  BY <1>5, Zenon DEF TypeOK
    <2>2. seqs[q].current_attempt \in Nat /\ seqs[q].generation \in Nat
      BY <2>1, SeqElim, Zenon DEF Typed
    <2>3. workers[w].boot \in Boots /\ epoch \in Nat /\ next_dispatch \in Nat \ {0}
      BY <1>2, Zenon DEF TypeOK
    <2> QED  BY <2>1, <2>2, <2>3, Zenon DEF MemberSpec, MemberSpecs
  <1>7. issued' \subseteq MemberSpecs
    <2>1. issued' = issued \cup {MemberSpec(q, w) : q \in g.members}  BY Zenon DEF DispatchGroup
    <2> QED  BY <1>6, <2>1 DEF TypeOK
  <1>8. GroupsTyped'
    BY <1>7, DispatchSeqs, TypeParts, Zenon DEF DispatchGroup, GroupsTyped
  <1>9. LedgerTyped' /\ CountersTyped' /\ TenantsTyped'
    <2>1. /\ UNCHANGED <<epoch, tenant_active, ledger, next_grant>>
          /\ next_reservation' = next_reservation + 1 /\ next_dispatch' = next_dispatch + 1
      BY Zenon DEF DispatchGroup
    <2> QED  BY <2>1, TypeParts DEF LedgerTyped, CountersTyped, TenantsTyped
  <1> QED  BY <1>1, <1>3, <1>4, <1>8, <1>9, TypeParts, Zenon

\* What a proposal, and the grant for it, may hold.
LEMMA GrantType ==
  ASSUME TypeOK, NEW m \in issued, NEW pm \in PreparedSteps(m)
  PROVE  /\ Grant(pm) \in GrantRecords
         /\ pm.proposal \in Proposals
         /\ pm.dispatch # None
  <1>1. m \in MemberSpecs  BY Zenon DEF TypeOK
  <1>2. /\ pm.dispatch = m.dispatch /\ pm.epoch = m.epoch /\ pm.worker = m.worker
        /\ pm.boot = m.boot /\ pm.sequence = m.sequence /\ pm.attempt = m.attempt
        /\ pm.generation = m.generation /\ pm.proposal \in Proposals
        /\ pm.position \in Positions /\ pm.pre \in Digests /\ pm.post \in Digests
    BY Zenon DEF PreparedSteps
  <1>3. pm.position \in Nat  BY <1>2, IdsAssumption, Zenon
  <1>4. /\ m.dispatch \in Nat \ {0} /\ m.epoch \in Nat /\ m.worker \in Workers /\ m.boot \in Boots
        /\ m.sequence \in SequenceIds /\ m.attempt \in Nat /\ m.generation \in Nat
    BY <1>1, Zenon DEF MemberSpecs
  <1>5. Grant(pm) \in GrantRecords
    <2>1. /\ pm.proposal \in Proposals /\ pm.epoch \in Nat /\ pm.worker \in Workers
          /\ pm.boot \in Boots /\ pm.sequence \in SequenceIds /\ pm.attempt \in Nat
          /\ pm.generation \in Nat /\ pm.dispatch \in Nat \ {0} /\ pm.position \in Nat
          /\ pm.pre \in Digests /\ pm.post \in Digests
      BY <1>2, <1>3, <1>4, Zenon
    <2>2. (pm.kind = "StepSuccessTerminal") \in BOOLEAN  OBVIOUS
    <2> DEFINE terminal == pm.kind = "StepSuccessTerminal"
    <2> HIDE DEF terminal
    <2>3. terminal \in BOOLEAN  BY <2>2, Zenon DEF terminal
    <2>4. [proposal |-> pm.proposal, epoch |-> pm.epoch, worker |-> pm.worker, boot |-> pm.boot,
           sequence |-> pm.sequence, attempt |-> pm.attempt, generation |-> pm.generation,
           dispatch |-> pm.dispatch, position |-> pm.position, pre |-> pm.pre, post |-> pm.post,
           terminal |-> terminal, status |-> "pending"] \in GrantRecords
      BY <2>1, <2>3, Zenon DEF GrantRecords
    <2> QED  BY <2>4, Zenon DEF Grant, terminal
  <1> QED  BY <1>2, <1>4, <1>5, Zenon DEF None

\* Every sequence but q is left alone.
OthersKept(q) ==
  DOMAIN seqs' = DOMAIN seqs /\ \A p \in DOMAIN seqs : p # q => seqs'[p] = seqs[p]

\* A well-typed update of one sequence keeps the sequences typed.
LEMMA OneTyped ==
  ASSUME TypeOK, NEW q \in DOMAIN seqs, OthersKept(q), seqs'[q] \in SeqRecords,
         seqs'[q].req = seqs[q].req
  PROVE  SeqsTyped'
  <1>1. \A p \in DOMAIN seqs : seqs'[p] \in SeqRecords /\ seqs'[p].req = seqs[p].req
    BY DEF TypeOK, OthersKept
  <1> QED  BY <1>1, TypeParts, Zenon DEF SeqsTyped, OthersKept

\* What issuing a grant does to the sequences.
LEMMA IssueSeqs ==
  ASSUME TypeOK, NEW pm, pm.sequence \in DOMAIN seqs, pm.proposal \in Proposals, IssueGrant(pm)
  PROVE  /\ OthersKept(pm.sequence)
         /\ WasGranted(seqs[pm.sequence], seqs'[pm.sequence], next_grant, pm.proposal)
  <1> DEFINE q == pm.sequence
             t == AfterGrant(seqs[q], next_grant, pm.proposal)
  <1>1. seqs[q] \in SeqRecords /\ next_grant \in Nat  BY Zenon DEF TypeOK
  <1>2. seqs' = [seqs EXCEPT ![q] = t]  BY Zenon DEF IssueGrant, AfterGrant
  <1>3. WasGranted(seqs[q], t, next_grant, pm.proposal)  BY <1>1, GrantedSeq, Zenon
  <1> HIDE DEF t
  <1> QED  BY <1>2, <1>3, Zenon DEF OthersKept

\* authorize_prepared issuing a grant keeps the types; the ledger grows by the next id.
LEMMA IssueTyped ==
  ASSUME TypeOK, NEW pm, pm.sequence \in DOMAIN seqs, pm.proposal \in Proposals,
         Grant(pm) \in GrantRecords, IssueGrant(pm)
  PROVE  TypeOK'
  <1>1. SeqsTyped'  BY IssueSeqs, OneTyped, Zenon DEF WasGranted, SameProgress
  <1>2. DOMAIN seqs' = DOMAIN seqs  BY IssueSeqs, Zenon DEF OthersKept
  <1>3. LedgerTyped'
    <2>1. next_grant \in Nat \ {0} /\ DOMAIN ledger = 1 .. next_grant - 1  BY DEF TypeOK
    <2>2. next_grant' = next_grant + 1 /\ DOMAIN ledger' = DOMAIN ledger \cup {next_grant}
      BY DEF IssueGrant
    <2>3. \A g \in DOMAIN ledger' : ledger'[g] \in {Grant(pm), ledger[g]} /\
                                    (g \notin DOMAIN ledger => ledger'[g] = Grant(pm))
      BY <2>1, Zenon DEF IssueGrant
    <2>4. DOMAIN ledger' = 1 .. next_grant' - 1  BY <2>1, <2>2
    <2>5. \A g \in DOMAIN ledger' : ledger'[g] \in GrantRecords
      <3>1. \A g \in DOMAIN ledger : ledger[g] \in GrantRecords  BY TypeParts, Zenon DEF LedgerTyped
      <3> QED  BY <2>3, <3>1, Zenon
    <2> QED  BY <2>1, <2>2, <2>4, <2>5 DEF LedgerTyped
  <1>4. /\ WorkersTyped' /\ CountersTyped' /\ GroupsTyped' /\ MemoryTyped' /\ TenantsTyped'
    BY <1>2, TypeParts, Zenon
    DEF IssueGrant, WorkersTyped, CountersTyped, GroupsTyped, MemoryTyped, TenantsTyped
  <1> QED  BY <1>1, <1>3, <1>4, TypeParts, Zenon

\* A receipt is applied only when it says what its grant says.
LEMMA ReceiptIsGrant ==
  ASSUME TypeOK, NEW gid \in DOMAIN ledger, NEW post \in Digests,
         ApplyCommitReceipt(gid, [ledger[gid] EXCEPT !.post = post])
  PROVE  [ledger[gid] EXCEPT !.post = post] = ledger[gid]
  <1>1. ledger[gid] \in GrantRecords  BY DEF TypeOK
  <1>2. [ledger[gid] EXCEPT !.post = post].post = ledger[gid].post
    BY DEF ApplyCommitReceipt, ReceiptApplies, ReceiptMatches
  <1> QED  BY <1>1, <1>2, Zenon DEF GrantRecords

\* What an applied receipt does to its sequence.
LEMMA ReceiptSeqs ==
  ASSUME TypeOK, NEW gid \in DOMAIN ledger, ApplyCommitReceipt(gid, ledger[gid])
  PROVE  LET q == ledger[gid].sequence
         IN /\ q \in DOMAIN seqs
            /\ seqs[q].in_flight_grant = gid
            /\ ~IsTerminal(seqs[q].state)
            /\ OthersKept(q)
            /\ WasFinalized(seqs[q], seqs'[q], ledger[gid])
  <1> DEFINE rec == ledger[gid]
             q == rec.sequence
             t == Finalize(seqs[q], rec)
  <1>1. /\ q \in DOMAIN seqs
        /\ seqs[q].in_flight_grant = gid
        /\ ~IsTerminal(seqs[q].state)
        /\ seqs' = [seqs EXCEPT ![q] = t]
    BY DEF ApplyCommitReceipt, ReceiptApplies, GrantInFlight, MayFinalize
  <1>2. rec \in GrantRecords  BY Zenon DEF TypeOK
  <1>3. rec.post \in Digests  BY <1>2, Zenon DEF GrantRecords
  <1>4. AcceptanceKey(rec) \in AcceptanceKeys
    BY <1>2, Zenon DEF GrantRecords, AcceptanceKey, AcceptanceKeys
  <1>5. seqs[q] \in SeqRecords  BY <1>1, Zenon DEF TypeOK
  <1> HIDE DEF q, rec
  <1>6. WasFinalized(seqs[q], t, rec)  BY <1>3, <1>4, <1>5, FinalizedSeq, Zenon
  <1> HIDE DEF t
  <1> QED  BY <1>1, <1>6, Zenon DEF OthersKept, q, rec

\* apply_commit_receipt keeps the types.
LEMMA ReceiptTyped ==
  ASSUME TypeOK, NEW gid \in DOMAIN ledger, ApplyCommitReceipt(gid, ledger[gid])
  PROVE  TypeOK'
  <1>1. SeqsTyped'  BY ReceiptSeqs, OneTyped, Zenon DEF WasFinalized
  <1>2. DOMAIN seqs' = DOMAIN seqs  BY ReceiptSeqs, Zenon DEF OthersKept
  <1>3. MemoryTyped'  BY ReleaseTyped, Zenon DEF ApplyCommitReceipt, ReceiptApplies
  <1>4. TenantsTyped'  BY TenantsLeftTyped, LeaversFinite, Zenon DEF ApplyCommitReceipt, ReceiptApplies
  <1>5. /\ UNCHANGED <<epoch, workers, next_reservation, next_grant, next_dispatch, formed, issued>>
        /\ ledger' = [ledger EXCEPT ![gid].status = "consumed"]
    BY DEF ApplyCommitReceipt, ReceiptApplies
  <1>6. LedgerTyped'
    <2>1. ASSUME NEW r \in GrantRecords PROVE [r EXCEPT !.status = "consumed"] \in GrantRecords
      BY DEF GrantRecords
    <2>2. /\ DOMAIN ledger' = DOMAIN ledger
          /\ \A g \in DOMAIN ledger :
               ledger'[g] \in {ledger[g], [ledger[g] EXCEPT !.status = "consumed"]}
      BY <1>5, Zenon
    <2>3. \A g \in DOMAIN ledger :
            {ledger[g], [ledger[g] EXCEPT !.status = "consumed"]} \subseteq GrantRecords
      <3>1. \A g \in DOMAIN ledger : ledger[g] \in GrantRecords  BY Zenon DEF TypeOK
      <3> QED  BY <2>1, <3>1, Zenon
    <2>4. \A g \in DOMAIN ledger' : ledger'[g] \in GrantRecords  BY <2>2, <2>3, Zenon
    <2> QED  BY <1>5, <2>2, <2>4, TypeParts, Zenon DEF LedgerTyped
  <1>7. WorkersTyped' /\ CountersTyped' /\ GroupsTyped'
    BY <1>2, <1>5, TypeParts, Zenon DEF WorkersTyped, CountersTyped, GroupsTyped
  <1> QED  BY <1>1, <1>3, <1>4, <1>6, <1>7, TypeParts, Zenon

\* abort_prepared closes at most one grant of the ledger.
LEMMA AbortLedger ==
  ASSUME TypeOK, NEW q \in DOMAIN seqs, NEW proposal, AbortPrepared(q, proposal)
  PROVE  /\ DOMAIN ledger' = DOMAIN ledger
         /\ \A g \in DOMAIN ledger :
              /\ ledger'[g] \in {ledger[g], [ledger[g] EXCEPT !.status = "aborted"]}
              /\ ledger'[g] # ledger[g] => /\ g = seqs[q].in_flight_grant
                                          /\ ledger[g].status = "pending"
              /\ ledger'[g] \in GrantRecords
  <1> DEFINE h == seqs[q].in_flight_grant
             st == IF ledger[h].status = "pending" THEN "aborted" ELSE ledger[h].status
  <1>1. ledger' = [ledger EXCEPT ![h] = [ledger[h] EXCEPT !.status = st]]
    BY DEF AbortPrepared
  <1>2. ASSUME NEW r \in GrantRecords
        PROVE  /\ [r EXCEPT !.status = "aborted"] \in GrantRecords
               /\ [r EXCEPT !.status = r.status] = r
    BY DEF GrantRecords
  <1>3. \A g \in DOMAIN ledger : ledger[g] \in GrantRecords  BY DEF TypeOK
  <1>4. CASE ledger[h].status = "pending"
    <2>1. st = "aborted"  BY <1>4, Zenon
    <2> HIDE DEF st, h
    <2>2. ledger' = [ledger EXCEPT ![h] = [ledger[h] EXCEPT !.status = "aborted"]]
      BY <1>1, <2>1, Zenon
    <2>3. \A g \in DOMAIN ledger : [ledger[g] EXCEPT !.status = "aborted"] \in GrantRecords
      BY <1>2, <1>3, Zenon
    <2> QED  BY <1>3, <1>4, <2>2, <2>3, Zenon DEF h
  <1>5. CASE ledger[h].status # "pending"
    <2>1. st = ledger[h].status  BY <1>5, Zenon
    <2> HIDE DEF st, h
    <2>2. \A g \in DOMAIN ledger : [ledger[g] EXCEPT !.status = ledger[g].status] = ledger[g]
      BY <1>2, <1>3, Zenon
    <2>3. h \in DOMAIN ledger => [ledger[h] EXCEPT !.status = st] = ledger[h]  BY <2>1, <2>2, Zenon
    <2>4. DOMAIN ledger' = DOMAIN ledger /\ \A g \in DOMAIN ledger : ledger'[g] = ledger[g]
      BY <1>1, <2>3, Zenon
    <2> QED  BY <1>3, <2>4, Zenon
  <1> QED  BY <1>4, <1>5, Zenon

\* abort_prepared keeps the types.
LEMMA AbortTyped ==
  ASSUME TypeOK, NEW q \in DOMAIN seqs, NEW proposal, AbortPrepared(q, proposal)
  PROVE  TypeOK'
  <1>1. QuietStep  BY AbortPreparedQuiet, Zenon
  <1>2. MemoryTyped'  BY ReleaseTyped, Zenon DEF AbortPrepared
  <1>3. UNCHANGED <<epoch, workers, tenant_active, next_reservation, next_grant, next_dispatch,
                    formed, issued>>
    BY DEF AbortPrepared
  <1>4. LedgerTyped'  BY <1>3, AbortLedger, TypeParts, Zenon DEF LedgerTyped
  <1>5. WorkersTyped' /\ CountersTyped' /\ GroupsTyped' /\ TenantsTyped'
    BY <1>1, <1>3, TypeParts, Zenon
    DEF QuietStep, WorkersTyped, CountersTyped, GroupsTyped, TenantsTyped
  <1> QED  BY <1>1, <1>2, <1>4, <1>5, QuietTyped, TypeParts, Zenon

\* The constructor's state is typed.
LEMMA TypeInit ==
  ASSUME Init
  PROVE  TypeOK
  <1>1. 0 \in 0 .. CounterMod - 1  BY ConfigAssumption
  <1>2. DOMAIN ledger = 1 .. next_grant - 1  BY DEF Init
  <1>3. DOMAIN seqs = {} /\ DOMAIN workers = {} /\ DOMAIN dev_mem = {} /\ DOMAIN reservations = {}
    BY DEF Init
  <1>4. SeqsTyped /\ WorkersTyped /\ MemoryTyped
    BY <1>3, FS_EmptySet, Zenon DEF SeqsTyped, WorkersTyped, MemoryTyped
  <1>5. next_grant = 1 /\ DOMAIN ledger = {}  BY DEF Init
  <1>6. LedgerTyped  BY <1>2, <1>5 DEF LedgerTyped
  <1>7. TenantsTyped  BY <1>1, Zenon DEF Init, TenantsTyped
  <1>8. CountersTyped /\ GroupsTyped  BY DEF Init, CountersTyped, GroupsTyped
  <1> QED  BY <1>4, <1>6, <1>7, <1>8, TypeParts, Zenon

\* Every handler keeps TypeOK.
LEMMA TypeStep ==
  ASSUME TypeOK, [Next]_vars
  PROVE  TypeOK'
  <1>1. CASE \E req \in Requests : Submit(req)  BY <1>1, SubmitTyped, Zenon
  <1>2. CASE \E q \in DOMAIN seqs : CancelInFlight(q) \/ CancelNow(q) \/ Retry(q)
    BY <1>2, CancelRetryTyped, Zenon
  <1>3. CASE \E w \in Workers : MarkWorkerDead(w) \/ \E boot \in Boots : RegisterWorker(w, boot)
    BY <1>3, WorkerTyped, Zenon
  <1>4. CASE RollEpoch
    <2>1. CountersTyped'  BY <1>4, TypeParts DEF RollEpoch, CountersTyped
    <2>2. UNCHANGED <<seqs, workers, dev_mem, reservations, tenant_active, ledger, next_grant>>
      BY <1>4, Zenon DEF RollEpoch
    <2>3. SeqsTyped' /\ WorkersTyped' /\ MemoryTyped' /\ TenantsTyped' /\ LedgerTyped'
      BY <2>2, TypeParts, Zenon DEF SeqsTyped, WorkersTyped, MemoryTyped, TenantsTyped, LedgerTyped
    <2>4. GroupsTyped'  BY <1>4, TypeParts, Zenon DEF RollEpoch, GroupsTyped
    <2> QED  BY <2>1, <2>3, <2>4, TypeParts, Zenon
  <1>5. CASE \E tn \in Times : Advance(tn) \/ Schedule(tn)
    BY <1>5, AdvanceTyped, ScheduleTyped, Zenon
  <1>6. CASE \E g \in formed : RevertGroup(g) \/ \E w \in Workers : DispatchGroup(g, w)
    BY <1>6, RevertTyped, DispatchTyped, Zenon
  <1>7. CASE \E m \in issued : CompleteOldEpoch(m) \/ CompleteCancelled(m) \/ AuthorizeStale(m)
    BY <1>7, DropInFlightTyped, RejectTyped, Zenon
    DEF CompleteOldEpoch, CompleteCancelled, CompletionCurrent, AuthorizeStale
  <1>8. CASE \E m \in issued, kind \in EnvKinds :
               CompleteNonCommit(m, kind) \/ AuthorizeNonCommit(m, kind)
    BY <1>8, SettleTyped, Zenon DEF CompleteNonCommit, CompletionCurrent, AuthorizeNonCommit
  <1>9. CASE \E m \in issued : \E pm \in PreparedSteps(m) : AuthorizeStep(pm)
    BY <1>9, RejectTyped, IssueTyped, GrantType, Zenon DEF AuthorizeStep
  <1>10. CASE \E gid \in DOMAIN ledger, post \in Digests :
                ApplyCommitReceipt(gid, [ledger[gid] EXCEPT !.post = post])
    <2>1. PICK gid \in DOMAIN ledger, post \in Digests :
            ApplyCommitReceipt(gid, [ledger[gid] EXCEPT !.post = post])
      BY <1>10, Zenon
    <2>2. ApplyCommitReceipt(gid, ledger[gid])  BY <2>1, ReceiptIsGrant, Zenon
    <2> QED  BY <2>2, ReceiptTyped, Zenon
  <1>11. CASE \E q \in DOMAIN seqs, p \in Proposals : AbortPrepared(q, p)
    BY <1>11, AbortTyped, Zenon
  <1>12. CASE UNCHANGED vars  BY <1>12, Zenon DEF vars, TypeOK
  <1> QED
    BY <1>1, <1>2, <1>3, <1>4, <1>5, <1>6, <1>7, <1>8, <1>9, <1>10, <1>11, <1>12, Zenon DEF Next

\* Every field of the fabric's state keeps its type under every sequence of calls: in
\* particular grant ids are handed out without gaps or reuse (DOMAIN ledger), the tenant
\* counters stay machine integers, and every member of a formed group is a submitted sequence.
THEOREM TypeCorrect == Spec => []TypeOK
  <1>1. Init => TypeOK  BY TypeInit, Zenon
  <1>2. TypeOK /\ [Next]_vars => TypeOK'  BY TypeStep, Zenon
  <1> QED  BY <1>1, <1>2, PTL DEF Spec

=============================================================================
