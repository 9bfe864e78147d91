---------------------------- MODULE AttemptProofs ----------------------------
(***************************************************************************)
(* A retry mints an attempt id that no dispatch has carried, for every set *)
(* of requests whose own attempt ids are not above the base of the minted  *)
(* ones.                                                                   *)
(***************************************************************************)
EXTENDS DecodeFabricProofs

\* What the theorem asks of the callers of submit: the code takes any initial attempt id.
AttemptsBelowBase == \A r \in Requests : r.initial_attempt <= RetryAttemptBase

\* The bound on attempt ids: a sequence may hold the id minted last, a dispatch has only
\* carried older ones, since schedule raises next_dispatch with every dispatch.
Minted == next_dispatch + RetryAttemptBase
AttemptInv ==
  /\ TypeOK
  /\ \A q \in DOMAIN seqs : seqs[q].current_attempt <= Minted
  /\ \A m \in issued : m.attempt < Minted

SameAttempt(s, t) ==
  t.current_attempt = s.current_attempt /\ t.attempt_count = s.attempt_count
KeepsOrMints(s, t) == SameAttempt(s, t) \/ t.current_attempt = Minted

-----------------------------------------------------------------------------
(* The helpers on one sequence *)

\* The two fields are fields of every Seq.
LEMMA AttemptFields ==
  ASSUME NEW s \in SeqRecords
  PROVE  /\ "current_attempt" \in DOMAIN s /\ "attempt_count" \in DOMAIN s
         /\ s.current_attempt \in Nat /\ s.attempt_count \in Nat
  <1>1. IsSeq(s) /\ Typed(s)  BY SeqElim, Zenon
  <1>2. DOMAIN s = SeqFields  BY <1>1, Zenon DEF IsSeq
  <1> QED  BY <1>1, <1>2, Zenon DEF SeqFields, Typed

\* stale_reconcile, cancel, the boundary, the end of a spent candidate, abort_prepared, the
\* receipt and the end of the retries keep the attempt.
LEMMA KeepAttempt ==
  ASSUME NEW s \in SeqRecords, NEW tn, NEW rec
  PROVE  /\ SameAttempt(s, StaleReconcile(s)) /\ SameAttempt(s, CancelledNow(s))
         /\ SameAttempt(s, CrossBoundary(s, tn)) /\ SameAttempt(s, CompleteSpent(s))
         /\ SameAttempt(s, Aborted(s)) /\ SameAttempt(s, RetryBudgetExhausted(s))
         /\ SameAttempt(s, Finalize(s, rec))
  <1>1. SameAttempt(s, StaleReconcile(s))
    BY AttemptFields, Zenon DEF SameAttempt, StaleReconcile
  <1>2. SameAttempt(s, CancelledNow(s))
    BY AttemptFields, Zenon DEF SameAttempt, CancelledNow
  <1>3. SameAttempt(s, CrossBoundary(s, tn))
    BY AttemptFields, Zenon DEF SameAttempt, CrossBoundary
  <1>4. SameAttempt(s, CompleteSpent(s))
    BY AttemptFields, Zenon DEF SameAttempt, CompleteSpent
  <1>5. SameAttempt(s, Aborted(s))
    BY AttemptFields, Zenon DEF SameAttempt, Aborted
  <1>6. SameAttempt(s, RetryBudgetExhausted(s))
    BY AttemptFields, Zenon DEF SameAttempt, RetryBudgetExhausted
  <1>7. SameAttempt(s, Finalize(s, rec))
    BY AttemptFields, Zenon DEF SameAttempt, Finalize
  <1> QED  BY <1>1, <1>2, <1>3, <1>4, <1>5, <1>6, <1>7, Zenon

\* retry and apply_noncommit_outcome keep the attempt or mint one.
LEMMA MintAttempt ==
  ASSUME NEW s \in SeqRecords, NEW kind, next_dispatch \in Nat
  PROVE  /\ KeepsOrMints(s, NewAttempt(s))
         /\ KeepsOrMints(s, NonCommitOutcome(s, kind))
  <1>1. ASSUME NEW t \in SeqRecords PROVE NewAttempt(t).current_attempt = Minted
    BY <1>1, AttemptFields, Zenon DEF NewAttempt, Minted
  <1>2. KeepsOrMints(s, NewAttempt(s))  BY <1>1, Zenon DEF KeepsOrMints
  <1>3. KeepsOrMints(s, FailRetryable(s))
    <2> DEFINE st == IF s.state = "Dispatched" THEN TransitionTo(s.state, "RetryableFailure")
                     ELSE s.state
               f == [s EXCEPT !.state = st]
    <2>1. s.state \in SequenceStates  BY SeqElim DEF Typed
    <2>2. st \in SequenceStates /\ (IsTerminal(s.state) => st = s.state)
      BY <2>1, TransitionType, TerminalStays, NamedStates
    <2>3. FailRetryable(s) \in {RetryBudgetExhausted(f), NewAttempt(f)}
      BY DEF FailRetryable
    <2> HIDE DEF st
    <2>4. f \in SeqRecords  BY <2>2, SetStateQuiet DEF Quiet
    <2>5. SameAttempt(s, f)  BY AttemptFields, Zenon DEF SameAttempt
    <2> HIDE DEF f
    <2>6. SameAttempt(f, RetryBudgetExhausted(f))  BY <2>4, KeepAttempt, Zenon
    <2> QED  BY <1>1, <2>3, <2>4, <2>5, <2>6, Zenon DEF KeepsOrMints, SameAttempt
  <1>4. CASE kind = "RetryableFailure"
    <2>1. NonCommitOutcome(s, kind) = FailRetryable(s)  BY <1>4 DEF NonCommitOutcome
    <2> QED  BY <1>2, <1>3, <2>1, Zenon
  <1>5. CASE kind # "RetryableFailure"
    <2>1. \/ NonCommitOutcome(s, kind) = s
          \/ \E st : NonCommitOutcome(s, kind) = [s EXCEPT !.state = st]
          \/ \E st, rec : NonCommitOutcome(s, kind) = [s EXCEPT !.state = st,
                                                                !.terminal_record = rec]
      BY <1>5, Zenon DEF NonCommitOutcome
    <2>2. SameAttempt(s, NonCommitOutcome(s, kind))
      BY <2>1, AttemptFields, Zenon DEF SameAttempt
    <2> QED  BY <1>2, <2>2, Zenon DEF KeepsOrMints
  <1> QED  BY <1>4, <1>5, Zenon

-----------------------------------------------------------------------------
(* The handlers *)

\* A step that submits nothing and dispatches nothing.
CalmStep ==
  /\ DOMAIN seqs' = DOMAIN seqs
  /\ \A q \in DOMAIN seqs : KeepsOrMints(seqs[q], seqs'[q])
  /\ next_dispatch' = next_dispatch /\ issued' = issued

\* A handler that rewrites one sequence.
LEMMA CalmOne ==
  ASSUME NEW q \in DOMAIN seqs, NEW t, seqs' = [seqs EXCEPT ![q] = t], KeepsOrMints(seqs[q], t),
         next_dispatch' = next_dispatch, issued' = issued
  PROVE  CalmStep
  <1>1. DOMAIN seqs' = DOMAIN seqs /\ seqs'[q] = t  BY Zenon
  <1>2. \A p \in DOMAIN seqs : p # q => seqs'[p] = seqs[p]  BY Zenon
  <1> QED  BY <1>1, <1>2, Zenon DEF CalmStep, KeepsOrMints, SameAttempt

\* A handler that rewrites every sequence without minting.
LEMMA CalmAll ==
  ASSUME DOMAIN seqs' = DOMAIN seqs,
         \A q \in DOMAIN seqs : SameAttempt(seqs[q], seqs'[q]),
         next_dispatch' = next_dispatch, issued' = issued
  PROVE  CalmStep
  BY Zenon DEF CalmStep, KeepsOrMints

\* cancel and retry.
LEMMA ClientCalm ==
  ASSUME TypeOK, NEW q \in DOMAIN seqs, CancelInFlight(q) \/ CancelNow(q) \/ Retry(q)
  PROVE  CalmStep
  <1>1. seqs[q] \in SeqRecords /\ next_dispatch \in Nat
    BY TypeParts, Zenon DEF SeqsTyped, CountersTyped
  <1>2. CASE CancelInFlight(q)
    <2> DEFINE t == [seqs[q] EXCEPT !.state = TransitionTo(seqs[q].state, "CancelRequested")]
    <2>1. /\ seqs' = [seqs EXCEPT ![q] = t]
          /\ next_dispatch' = next_dispatch /\ issued' = issued
      BY <1>2, Zenon DEF CancelInFlight
    <2>2. SameAttempt(seqs[q], t)  BY <1>1, AttemptFields, Zenon DEF SameAttempt
    <2> HIDE DEF t
    <2> QED  BY <2>1, <2>2, CalmOne, Zenon DEF KeepsOrMints
  <1>3. CASE CancelNow(q)
    BY <1>1, <1>3, KeepAttempt, CalmOne, Zenon DEF CancelNow, KeepsOrMints
  <1>4. CASE Retry(q)
    <2>1. PICK t \in {RetryBudgetExhausted(seqs[q]), NewAttempt(seqs[q])} :
            seqs' = [seqs EXCEPT ![q] = t]
      BY <1>4, Zenon DEF Retry
    <2>2. KeepsOrMints(seqs[q], t)
      BY <1>1, <2>1, KeepAttempt, MintAttempt, Zenon DEF KeepsOrMints
    <2>3. next_dispatch' = next_dispatch /\ issued' = issued  BY <1>4, Zenon DEF Retry
    <2> QED  BY <2>1, <2>2, <2>3, CalmOne, Zenon
  <1> QED  BY <1>2, <1>3, <1>4, Zenon

\* Workers, epochs, boundaries and the formation of groups.
LEMMA BoundaryCalm ==
  ASSUME TypeOK,
         \/ \E w, boot : RegisterWorker(w, boot)
         \/ \E w : MarkWorkerDead(w)
         \/ RollEpoch
         \/ \E tn : Advance(tn) \/ Schedule(tn)
         \/ \E g : RevertGroup(g)
  PROVE  CalmStep
  <1>1. \A q \in DOMAIN seqs : seqs[q] \in SeqRecords  BY TypeParts, Zenon DEF SeqsTyped
  <1>2. ASSUME seqs' = seqs, next_dispatch' = next_dispatch, issued' = issued PROVE CalmStep
    BY <1>2, CalmAll, Zenon DEF SameAttempt
  <1>3. CASE \E w, boot : RegisterWorker(w, boot)  BY <1>2, <1>3, Zenon DEF RegisterWorker
  <1>4. CASE RollEpoch  BY <1>2, <1>4, Zenon DEF RollEpoch
  <1>5. ASSUME NEW w, MarkWorkerDead(w) PROVE CalmStep
    <2>1. /\ DOMAIN seqs' = DOMAIN seqs
          /\ \A q \in DOMAIN seqs :
               \/ seqs'[q] = seqs[q]
               \/ \E st : seqs'[q] = [seqs[q] EXCEPT !.has_inflight = FALSE,
                                                     !.reservation = None, !.state = st]
          /\ next_dispatch' = next_dispatch /\ issued' = issued
      BY <1>5, Zenon DEF MarkWorkerDead
    <2>2. \A q \in DOMAIN seqs : SameAttempt(seqs[q], seqs'[q])
      BY <1>1, <2>1, AttemptFields, Zenon DEF SameAttempt
    <2> QED  BY <2>1, <2>2, CalmAll, Zenon
  <1>6. ASSUME NEW tn, Advance(tn) PROVE CalmStep
    BY <1>1, <1>6, KeepAttempt, CalmAll, Zenon DEF Advance
  <1>7. ASSUME NEW tn, Schedule(tn) PROVE CalmStep
    <2> DEFINE after(q) == CrossBoundary(seqs[q], tn)
    <2>1. /\ DOMAIN seqs' = DOMAIN seqs
          /\ \A q \in DOMAIN seqs :
               \/ seqs'[q] = CompleteSpent(after(q))
               \/ \E st : seqs'[q] = [after(q) EXCEPT !.state = st]
               \/ seqs'[q] = after(q)
          /\ next_dispatch' = next_dispatch /\ issued' = issued
      BY <1>7, Zenon DEF Schedule
    <2>2. \A q \in DOMAIN seqs : after(q) \in SeqRecords /\ SameAttempt(seqs[q], after(q))
      BY <1>1, BoundaryQuiet, KeepAttempt, Zenon DEF Quiet
    <2> HIDE DEF after
    <2>3. ASSUME NEW q \in DOMAIN seqs PROVE SameAttempt(after(q), seqs'[q])
      <3>1. CASE seqs'[q] = CompleteSpent(after(q))  BY <2>2, <3>1, KeepAttempt, Zenon
      <3>2. CASE \E st : seqs'[q] = [after(q) EXCEPT !.state = st]
        BY <2>2, <3>2, AttemptFields, Zenon DEF SameAttempt
      <3>3. CASE seqs'[q] = after(q)  BY <3>3, Zenon DEF SameAttempt
      <3> QED  BY <2>1, <3>1, <3>2, <3>3, Zenon
    <2>4. \A q \in DOMAIN seqs : SameAttempt(seqs[q], seqs'[q])
      BY <2>2, <2>3, Zenon DEF SameAttempt
    <2> QED  BY <2>1, <2>4, CalmAll, Zenon
  <1>8. ASSUME NEW g, RevertGroup(g) PROVE CalmStep
    <2>1. /\ DOMAIN seqs' = DOMAIN seqs
          /\ \A q \in DOMAIN seqs :
               seqs'[q] = seqs[q] \/ \E st : seqs'[q] = [seqs[q] EXCEPT !.state = st]
          /\ next_dispatch' = next_dispatch /\ issued' = issued
      BY <1>8, Zenon DEF RevertGroup
    <2>2. \A q \in DOMAIN seqs : SameAttempt(seqs[q], seqs'[q])
      BY <1>1, <2>1, AttemptFields, Zenon DEF SameAttempt
    <2> QED  BY <2>1, <2>2, CalmAll, Zenon
  <1> QED  BY <1>3, <1>4, <1>5, <1>6, <1>7, <1>8, Zenon

\* The phases of the protocol on one sequence.
LEMMA PhaseCalm ==
  ASSUME TypeOK, NEW q \in DOMAIN seqs,
         \/ DropInFlight(q)
         \/ \E kind : SettleNonCommit(q, kind)
         \/ \E pm : pm.sequence = q /\ (RejectPrepared(pm) \/ IssueGrant(pm))
         \/ \E gid, rec : rec.sequence = q /\ ApplyCommitReceipt(gid, rec)
         \/ \E p : AbortPrepared(q, p)
  PROVE  CalmStep
  <1>1. seqs[q] \in SeqRecords /\ next_dispatch \in Nat
    BY TypeParts, Zenon DEF SeqsTyped, CountersTyped
  <1>2. ASSUME NEW t, seqs' = [seqs EXCEPT ![q] = t], SameAttempt(seqs[q], t),
               next_dispatch' = next_dispatch, issued' = issued
        PROVE  CalmStep
    BY <1>2, CalmOne, Zenon DEF KeepsOrMints
  <1>3. CASE DropInFlight(q)
    <2> DEFINE t == [[seqs[q] EXCEPT !.has_inflight = FALSE] EXCEPT !.reservation = None]
    <2>1. seqs' = [seqs EXCEPT ![q] = t] /\ next_dispatch' = next_dispatch /\ issued' = issued
      BY <1>3, Zenon DEF DropInFlight
    <2>2. SameAttempt(seqs[q], t)  BY <1>1, AttemptFields, Zenon DEF SameAttempt
    <2> HIDE DEF t
    <2> QED  BY <1>2, <2>1, <2>2, Zenon
  <1>4. ASSUME NEW kind, SettleNonCommit(q, kind) PROVE CalmStep
    <2> DEFINE c == [seqs[q] EXCEPT !.has_inflight = FALSE, !.in_flight_dispatch = None,
                                    !.reservation = None]
    <2>1. /\ seqs' = [seqs EXCEPT ![q] = NonCommitOutcome(c, kind)]
          /\ next_dispatch' = next_dispatch /\ issued' = issued
      BY <1>4, Zenon DEF SettleNonCommit
    <2>2. SameAttempt(seqs[q], c)  BY <1>1, AttemptFields, Zenon DEF SameAttempt
    <2>3. c \in SeqRecords  BY <1>1, CloseQuiet, Zenon DEF Quiet
    <2> HIDE DEF c
    <2>4. KeepsOrMints(c, NonCommitOutcome(c, kind))  BY <1>1, <2>3, MintAttempt, Zenon
    <2>5. KeepsOrMints(seqs[q], NonCommitOutcome(c, kind))
      BY <2>2, <2>4, Zenon DEF KeepsOrMints, SameAttempt
    <2> QED  BY <2>1, <2>5, CalmOne, Zenon
  <1>5. ASSUME NEW pm, pm.sequence = q, RejectPrepared(pm) PROVE CalmStep
    BY <1>1, <1>2, <1>5, KeepAttempt, Zenon DEF RejectPrepared
  <1>6. ASSUME NEW pm, pm.sequence = q, IssueGrant(pm) PROVE CalmStep
    <2> DEFINE t == [[seqs[q] EXCEPT !.in_flight_grant = next_grant]
                       EXCEPT !.in_flight_proposal = pm.proposal]
    <2>1. seqs' = [seqs EXCEPT ![q] = t] /\ next_dispatch' = next_dispatch /\ issued' = issued
      BY <1>6, Zenon DEF IssueGrant
    <2>2. SameAttempt(seqs[q], t)  BY <1>1, AttemptFields, Zenon DEF SameAttempt
    <2> HIDE DEF t
    <2> QED  BY <1>2, <2>1, <2>2, Zenon
  <1>7. ASSUME NEW gid, NEW rec, rec.sequence = q, ApplyCommitReceipt(gid, rec) PROVE CalmStep
    BY <1>1, <1>2, <1>7, KeepAttempt, Zenon DEF ApplyCommitReceipt
  <1>8. ASSUME NEW p, AbortPrepared(q, p) PROVE CalmStep
    BY <1>1, <1>2, <1>8, KeepAttempt, Zenon DEF AbortPrepared
  <1> QED  BY <1>3, <1>4, <1>5, <1>6, <1>7, <1>8, Zenon

\* A dispatch carries the attempts its members have, and raises next_dispatch.
LEMMA DispatchAttempts ==
  ASSUME TypeOK, NEW g \in formed, NEW w, DispatchGroup(g, w)
  PROVE  /\ DOMAIN seqs' = DOMAIN seqs
         /\ \A q \in DOMAIN seqs : SameAttempt(seqs[q], seqs'[q])
         /\ next_dispatch' = next_dispatch + 1
         /\ \A m \in issued' :
              m \in issued \/ \E q \in DOMAIN seqs : m.attempt = seqs[q].current_attempt
  <1>1. \A q \in DOMAIN seqs : seqs[q] \in SeqRecords  BY TypeParts, Zenon DEF SeqsTyped
  <1>2. /\ DOMAIN seqs' = DOMAIN seqs
        /\ \A q \in DOMAIN seqs :
             \/ seqs'[q] = seqs[q]
             \/ seqs'[q] = [seqs[q] EXCEPT !.in_flight_dispatch = next_dispatch,
                  !.in_flight_worker = w, !.in_flight_generation = seqs[q].generation,
                  !.has_inflight = TRUE, !.reservation = next_reservation,
                  !.state = TransitionVia(@, "Reserved", "Dispatched")]
    BY Zenon DEF DispatchGroup
  <1>3. \A q \in DOMAIN seqs : SameAttempt(seqs[q], seqs'[q])
    BY <1>1, <1>2, AttemptFields, Zenon DEF SameAttempt
  <1>4. /\ next_dispatch' = next_dispatch + 1
        /\ issued' = issued \cup {MemberSpec(q, w) : q \in g.members}
    BY Zenon DEF DispatchGroup
  <1>5. \A q \in g.members : q \in DOMAIN seqs /\ MemberSpec(q, w).attempt = seqs[q].current_attempt
    <2>1. g.members \subseteq DOMAIN seqs  BY TypeParts, Zenon DEF GroupsTyped
    <2> QED  BY <2>1 DEF MemberSpec
  <1>6. \A m \in issued' : m \in issued \/ \E q \in g.members : m = MemberSpec(q, w)
    BY <1>4, Zenon
  <1>7. ASSUME NEW m \in issued'
        PROVE  m \in issued \/ \E q \in DOMAIN seqs : m.attempt = seqs[q].current_attempt
    <2>1. CASE \E q \in g.members : m = MemberSpec(q, w)
      <3>1. PICK q \in g.members : m = MemberSpec(q, w)  BY <2>1, Zenon
      <3>2. q \in DOMAIN seqs /\ m.attempt = seqs[q].current_attempt  BY <1>5, <3>1, Zenon
      <3> QED  BY <3>2, Zenon
    <2> QED  BY <1>6, <1>7, <2>1, Zenon
  <1> QED  BY <1>2, <1>3, <1>4, <1>7, Zenon

\* A step is calm, or a submission, or a dispatch.
LEMMA AttemptSteps ==
  ASSUME TypeOK, [Next]_vars
  PROVE  \/ CalmStep
         \/ \E req \in Requests : Submit(req)
         \/ \E g \in formed, w \in Workers : DispatchGroup(g, w)
  <1>1. CASE UNCHANGED vars  BY <1>1, CalmAll, Zenon DEF vars, SameAttempt
  <1>2. CASE \E m \in issued : CompleteOldEpoch(m) \/ CompleteCancelled(m) \/ AuthorizeStale(m)
    BY <1>2, PhaseCalm, Zenon
    DEF CompleteOldEpoch, CompleteCancelled, CompletionCurrent, AuthorizeStale
  <1>3. CASE \E m \in issued, kind \in EnvKinds :
               CompleteNonCommit(m, kind) \/ AuthorizeNonCommit(m, kind)
    BY <1>3, PhaseCalm, Zenon DEF CompleteNonCommit, CompletionCurrent, AuthorizeNonCommit
  <1>4. CASE \E m \in issued : \E pm \in PreparedSteps(m) : AuthorizeStep(pm)
    BY <1>4, PhaseCalm, Zenon DEF AuthorizeStep
  <1>5. ASSUME NEW gid, NEW rec, ApplyCommitReceipt(gid, rec) PROVE CalmStep
    <2>1. rec.sequence \in DOMAIN seqs  BY <1>5, Zenon DEF ApplyCommitReceipt, ReceiptApplies
    <2> QED  BY <1>5, <2>1, PhaseCalm, Zenon
  <1>6. CASE \E q \in DOMAIN seqs, p \in Proposals : AbortPrepared(q, p)
    BY <1>6, PhaseCalm, Zenon
  <1> QED
    BY <1>1, <1>2, <1>3, <1>4, <1>5, <1>6, ClientCalm, BoundaryCalm, Zenon DEF Next

-----------------------------------------------------------------------------
(* The theorem *)

\* Every step keeps the bound on attempt ids.
LEMMA AttemptStep ==
  ASSUME AttemptsBelowBase, AttemptInv, [Next]_vars
  PROVE  AttemptInv'
  <1>1. TypeOK /\ TypeOK'  BY TypeStep, Zenon DEF AttemptInv
  <1>2. /\ next_dispatch \in Nat \ {0} /\ RetryAttemptBase \in Nat
        /\ \A q \in DOMAIN seqs : seqs[q] \in SeqRecords /\ seqs[q].current_attempt \in Nat
        /\ \A m \in issued : m.attempt \in Nat
    <2>1. next_dispatch \in Nat \ {0} /\ issued \subseteq MemberSpecs
      BY <1>1, TypeParts, Zenon DEF CountersTyped, GroupsTyped
    <2>2. \A q \in DOMAIN seqs : seqs[q] \in SeqRecords  BY <1>1, TypeParts, Zenon DEF SeqsTyped
    <2>3. RetryAttemptBase \in Nat  BY ConfigAssumption, Zenon
    <2>4. \A m \in issued : m.attempt \in Nat  BY <2>1, Zenon DEF MemberSpecs
    <2> QED  BY <2>1, <2>2, <2>3, <2>4, AttemptFields, Zenon
  <1>3. CASE CalmStep
    <2>1. Minted' = Minted /\ Minted \in Nat  BY <1>2, <1>3 DEF CalmStep, Minted
    <2>2. \A q \in DOMAIN seqs' : seqs'[q].current_attempt <= Minted
      <3>1. Minted <= Minted  BY <2>1
      <3> QED  BY <1>3, <3>1, Zenon DEF CalmStep, KeepsOrMints, SameAttempt, AttemptInv
    <2> QED  BY <1>1, <1>3, <2>1, <2>2, Zenon DEF CalmStep, AttemptInv
  <1>4. CASE \E req \in Requests : Submit(req)
    <2>1. PICK req \in Requests : Submit(req)  BY <1>4, Zenon
    <2>2. /\ Minted' = Minted /\ issued' = issued
          /\ \A q \in DOMAIN seqs' :
               \/ seqs'[q] = NewSeq(req)
               \/ q \in DOMAIN seqs /\ seqs'[q] = seqs[q]
      BY <2>1, Zenon DEF Submit, Minted
    <2>3. NewSeq(req).current_attempt <= Minted
      <3>1. NewSeq(req).current_attempt = req.initial_attempt  BY DEF NewSeq
      <3>2. req.initial_attempt \in Nat /\ req.initial_attempt <= RetryAttemptBase
        BY RequestsAssumption, Zenon DEF AttemptsBelowBase
      <3> QED  BY <1>2, <3>1, <3>2 DEF Minted
    <2> QED  BY <1>1, <2>2, <2>3, Zenon DEF AttemptInv
  <1>5. CASE \E g \in formed, w \in Workers : DispatchGroup(g, w)
    <2>1. PICK g \in formed, w \in Workers : DispatchGroup(g, w)  BY <1>5, Zenon
    <2>2. /\ DOMAIN seqs' = DOMAIN seqs
          /\ \A q \in DOMAIN seqs : seqs'[q].current_attempt = seqs[q].current_attempt
          /\ next_dispatch' = next_dispatch + 1
          /\ \A m \in issued' :
               m \in issued \/ \E q \in DOMAIN seqs : m.attempt = seqs[q].current_attempt
      BY <1>1, <2>1, DispatchAttempts, Zenon DEF SameAttempt
    <2>3. Minted' = Minted + 1 /\ Minted \in Nat  BY <1>2, <2>2 DEF Minted
    <2>4. /\ \A q \in DOMAIN seqs : seqs[q].current_attempt <= Minted
          /\ \A m \in issued : m.attempt < Minted
      BY Zenon DEF AttemptInv
    <2>5. \A q \in DOMAIN seqs' : seqs'[q].current_attempt <= Minted'
      BY <1>2, <2>2, <2>3, <2>4
    <2>6. \A m \in issued' : m.attempt < Minted'
      BY <1>2, <2>2, <2>3, <2>4
    <2> QED  BY <1>1, <2>5, <2>6, Zenon DEF AttemptInv
  <1> QED  BY <1>1, <1>3, <1>4, <1>5, AttemptSteps, Zenon

\* retry and a retryable failure mint an attempt id that no dispatch has carried, so an answer
\* to an earlier attempt never passes the identity check of the new one, if the requests start
\* with ids up to RetryAttemptBase.
THEOREM RetriedAttemptsAreFresh ==
  ASSUME AttemptsBelowBase
  PROVE  Spec => AttemptIsFresh
  <1> DEFINE Fresh == \A q \in DOMAIN seqs : seqs'[q].attempt_count # seqs[q].attempt_count =>
                        \A m \in issued : m.sequence = q => m.attempt # seqs'[q].current_attempt
  <1>1. Init => AttemptInv  BY TypeInit, Zenon DEF Init, AttemptInv
  <1>2. AttemptInv /\ [Next]_vars => AttemptInv'  BY AttemptStep, Zenon
  <1>3. ASSUME AttemptInv, [Next]_vars PROVE Fresh
    <2>1. TypeOK  BY <1>3, Zenon DEF AttemptInv
    <2>2. \A m \in issued : m.attempt # Minted
      <3>1. next_dispatch \in Nat \ {0} /\ issued \subseteq MemberSpecs /\ RetryAttemptBase \in Nat
        BY <2>1, TypeParts, ConfigAssumption, Zenon DEF CountersTyped, GroupsTyped
      <3>2. \A m \in issued : m.attempt \in Nat  BY <3>1, Zenon DEF MemberSpecs
      <3> QED  BY <1>3, <3>1, <3>2 DEF AttemptInv, Minted
    <2>3. CASE CalmStep  BY <2>2, <2>3, Zenon DEF CalmStep, KeepsOrMints, SameAttempt
    <2>4. CASE \E req \in Requests : Submit(req)  BY <2>4, Zenon DEF Submit
    <2>5. CASE \E g \in formed, w \in Workers : DispatchGroup(g, w)
      BY <2>1, <2>5, DispatchAttempts, Zenon DEF SameAttempt
    <2> QED  BY <1>3, <2>1, <2>3, <2>4, <2>5, AttemptSteps, Zenon
  <1>4. AttemptInv /\ [Next]_vars => [Fresh]_vars  BY <1>3, Zenon
  <1> QED  BY <1>1, <1>2, <1>4, PTL DEF Spec, AttemptIsFresh

=============================================================================
