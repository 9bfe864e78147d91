--------------------------- MODULE HandlerLemmas ----------------------------
(***************************************************************************)
(* What the helpers and the handlers of DecodeFabric do to one sequence, for *)
(* every set of requests, workers, boots, digests and every configuration. *)
(***************************************************************************)
EXTENDS DecodeFabric, FiniteSetTheorems, TLAPS

-----------------------------------------------------------------------------
(* The state machine and the helpers on one sequence *)

\* transition_to stays within the states of the machine.
LEMMA TransitionType ==
  ASSUME NEW state \in SequenceStates, NEW mid \in SequenceStates, NEW next \in SequenceStates
  PROVE  /\ TransitionTo(state, next) \in SequenceStates
         /\ TransitionVia(state, mid, next) \in SequenceStates
  BY DEF TransitionTo, TransitionVia

\* transition_to never leaves a terminal state.
LEMMA TerminalStays ==
  ASSUME NEW state, IsTerminal(state), NEW mid, NEW next
  PROVE  TransitionTo(state, next) = state /\ TransitionVia(state, mid, next) = state
  BY DEF TransitionTo, TransitionVia, CanTransition

\* The states the handlers name are states of the machine.
LEMMA NamedStates ==
  /\ TerminalStates \subseteq SequenceStates
  /\ {"Admitted", "Waiting", "Ready", "Grouped", "Reserved", "Dispatched", "StepCompleted",
      "ReadyForNextToken", "Yielded", "CancelRequested", "RetryableFailure", "Retrying",
      "Cancelled", "DeadlineExpired", "NonRetryableFailure", "Completed"} \subseteq SequenceStates
  BY DEF SequenceStates, TerminalStates

\* SeqRecords seen as a record with typed fields, the form the provers update well.
SeqFields ==
  {"req", "state", "current_attempt", "budget", "generated", "generation", "has_inflight",
   "in_flight_dispatch", "in_flight_worker", "in_flight_generation", "in_flight_grant",
   "in_flight_proposal", "committed_digest", "accepted", "reservation", "attempt_count",
   "terminal_record"}
IsSeq(s) == s = [f \in SeqFields |-> s[f]]
Typed(s) ==
  /\ s.req \in Requests /\ s.state \in SequenceStates /\ s.current_attempt \in Nat
  /\ s.budget \in Nat /\ s.generated \in Nat /\ s.generation \in Nat \ {0}
  /\ s.has_inflight \in BOOLEAN /\ s.in_flight_dispatch \in Nat
  /\ s.in_flight_worker \in Workers \cup {None} /\ s.in_flight_generation \in Nat
  /\ s.in_flight_grant \in Nat /\ s.in_flight_proposal \in Proposals \cup {None}
  /\ s.committed_digest \in Digests \cup {None}
  /\ s.accepted \in AcceptanceKeys \cup {NoAcceptance}
  /\ s.reservation \in Nat /\ s.attempt_count \in Nat
  /\ s.terminal_record \in SequenceStates \cup {NoRecord}

\* A Seq record is a function on its fields with typed values: the form the provers handle.
LEMMA SeqElim ==
  ASSUME NEW s \in SeqRecords
  PROVE  IsSeq(s) /\ Typed(s)
  <1>1. IsSeq(s)  BY DEF SeqRecords, IsSeq, SeqFields
  <1>2. Typed(s)  BY DEF SeqRecords, Typed
  <1> QED  BY <1>1, <1>2

\* ... and conversely.
LEMMA SeqIntro ==
  ASSUME NEW s, IsSeq(s), Typed(s)
  PROVE  s \in SeqRecords
  BY DEF SeqRecords, IsSeq, SeqFields, Typed

\* What every handler but submit, the dispatch, the grant and the receipt does to a sequence
\* at most: its progress is untouched, its dispatch and its grant are kept or dropped, and a
\* terminal state stays.
SameProgress(s, t) ==
  /\ t.req = s.req /\ t.budget = s.budget /\ t.generated = s.generated
  /\ t.generation = s.generation /\ t.committed_digest = s.committed_digest
  /\ t.accepted = s.accepted
Quiet(s, t) ==
  /\ t \in SeqRecords
  /\ SameProgress(s, t)
  /\ t.in_flight_dispatch # None => /\ t.in_flight_dispatch = s.in_flight_dispatch
                                    /\ t.in_flight_generation = s.in_flight_generation
  /\ t.in_flight_grant # None => /\ t.in_flight_grant = s.in_flight_grant
                                 /\ t.in_flight_proposal = s.in_flight_proposal
  /\ IsTerminal(s.state) => t.state = s.state

\* Leaving a sequence alone is quiet.
LEMMA QuietSame == ASSUME NEW s \in SeqRecords PROVE Quiet(s, s)
  BY DEF Quiet, SameProgress

\* submit builds a well-typed Seq.
LEMMA NewSeqType ==
  ASSUME NEW req \in Requests
  PROVE  NewSeq(req) \in SeqRecords
  <1>1. NewSeq(req).state \in SequenceStates
    BY TransitionType, NamedStates DEF NewSeq
  <1> QED
    BY <1>1, RequestsAssumption DEF NewSeq, SeqRecords, None, NoAcceptance, NoRecord

\* 0 is the null id of every kind.
LEMMA NoneType == None \in Nat /\ None \in Proposals \cup {None}
  BY DEF None

QuietFields(s, t) ==
  /\ SameProgress(s, t)
  /\ t.in_flight_worker = s.in_flight_worker
  /\ t.in_flight_generation = s.in_flight_generation
  /\ t.state \in SequenceStates
  /\ IsTerminal(s.state) => t.state = s.state
  /\ t.terminal_record \in SequenceStates \cup {NoRecord}
  /\ t.has_inflight \in BOOLEAN
  /\ t.in_flight_dispatch \in {s.in_flight_dispatch, None}
  /\ \/ t.in_flight_grant = s.in_flight_grant /\ t.in_flight_proposal = s.in_flight_proposal
     \/ t.in_flight_grant = None /\ t.in_flight_proposal = None
  /\ t.reservation \in Nat /\ t.current_attempt \in Nat /\ t.attempt_count \in Nat

\* A record with quiet fields is a quiet update.
LEMMA QuietIntro ==
  ASSUME NEW s \in SeqRecords, NEW t, IsSeq(t), QuietFields(s, t)
  PROVE  Quiet(s, t)
  <1>1. IsSeq(s) /\ Typed(s)  BY SeqElim
  <1>2. Typed(t)  BY <1>1, NoneType DEF Typed, QuietFields, SameProgress
  <1>3. t \in SeqRecords  BY <1>2, SeqIntro
  <1> QED  BY <1>3 DEF Quiet, QuietFields

\* stale_reconcile forgets what is in flight and nothing else.
LEMMA StaleReconcileQuiet ==
  ASSUME NEW s \in SeqRecords
  PROVE  Quiet(s, StaleReconcile(s))
  <1> DEFINE state == IF s.state \in InFlightStates
                      THEN TransitionVia(s.state, "StepCompleted", "ReadyForNextToken") ELSE s.state
             t == StaleReconcile(s)
  <1>1. IsSeq(s) /\ Typed(s)  BY SeqElim
  <1>2. state \in SequenceStates /\ (IsTerminal(s.state) => state = s.state)
    BY <1>1, TransitionType, TerminalStays, NamedStates DEF Typed
  <1>3. t = [s EXCEPT !.has_inflight = FALSE, !.in_flight_dispatch = None,
                      !.in_flight_grant = None, !.in_flight_proposal = None,
                      !.reservation = None, !.state = state]
    BY DEF StaleReconcile
  <1> HIDE DEF state, t
  <1>4. IsSeq(t)  BY <1>1, <1>3, Zenon DEF IsSeq
  <1>5. QuietFields(s, t)
    BY <1>1, <1>2, <1>3, NoneType DEF IsSeq, SeqFields, Typed, QuietFields, SameProgress
  <1> QED
    BY <1>4, <1>5, QuietIntro DEF t

\* Two quiet updates in a row are one.
LEMMA QuietTrans ==
  ASSUME NEW s, NEW t, NEW u, Quiet(s, t), Quiet(t, u)
  PROVE  Quiet(s, u)
  BY DEF Quiet, SameProgress

\* A bare transition_to is quiet.
LEMMA SetStateQuiet ==
  ASSUME NEW s \in SeqRecords, NEW st \in SequenceStates, IsTerminal(s.state) => st = s.state
  PROVE  Quiet(s, [s EXCEPT !.state = st])
  <1> DEFINE t == [s EXCEPT !.state = st]
  <1>1. IsSeq(s) /\ Typed(s)  BY SeqElim
  <1>2. t = [s EXCEPT !.state = st]
    OBVIOUS
  <1> HIDE DEF t
  <1>3. IsSeq(t)  BY <1>1, <1>2 DEF IsSeq
  <1>4. QuietFields(s, t)
    BY <1>1, <1>2, NoneType DEF IsSeq, SeqFields, Typed, QuietFields, SameProgress
  <1> QED  BY <1>3, <1>4, QuietIntro DEF t

\* So is a transition with an entry in terminal_records, ...
LEMMA SetRecordQuiet ==
  ASSUME NEW s \in SeqRecords, NEW st \in SequenceStates, IsTerminal(s.state) => st = s.state,
         NEW rec \in SequenceStates
  PROVE  Quiet(s, [s EXCEPT !.state = st, !.terminal_record = rec])
  <1> DEFINE t == [s EXCEPT !.state = st, !.terminal_record = rec]
  <1>1. IsSeq(s) /\ Typed(s)  BY SeqElim
  <1>2. t = [s EXCEPT !.state = st, !.terminal_record = rec]
    OBVIOUS
  <1> HIDE DEF t
  <1>3. IsSeq(t)  BY <1>1, <1>2, Zenon DEF IsSeq
  <1>4. QuietFields(s, t)
    BY <1>1, <1>2, NoneType DEF IsSeq, SeqFields, Typed, QuietFields, SameProgress
  <1> QED  BY <1>3, <1>4, QuietIntro DEF t

\* ... with the reservation released, as cancel and the boundary do, ...
LEMMA StopQuiet ==
  ASSUME NEW s \in SeqRecords, NEW st \in SequenceStates, IsTerminal(s.state) => st = s.state,
         NEW rec \in SequenceStates
  PROVE  Quiet(s, [s EXCEPT !.reservation = None, !.state = st, !.terminal_record = rec])
  <1> DEFINE t == [s EXCEPT !.reservation = None, !.state = st, !.terminal_record = rec]
  <1>1. IsSeq(s) /\ Typed(s)  BY SeqElim
  <1>2. t = [s EXCEPT !.reservation = None, !.state = st, !.terminal_record = rec]
    OBVIOUS
  <1> HIDE DEF t
  <1>3. IsSeq(t)  BY <1>1, <1>2, Zenon DEF IsSeq
  <1>4. QuietFields(s, t)
    BY <1>1, <1>2, NoneType DEF IsSeq, SeqFields, Typed, QuietFields, SameProgress
  <1> QED  BY <1>3, <1>4, QuietIntro DEF t

\* ... closing a dispatch that is settled without a commit, ...
LEMMA CloseQuiet ==
  ASSUME NEW s \in SeqRecords
  PROVE  Quiet(s, [s EXCEPT !.has_inflight = FALSE, !.in_flight_dispatch = None, !.reservation = None])
  <1> DEFINE t == [s EXCEPT !.has_inflight = FALSE, !.in_flight_dispatch = None, !.reservation = None]
  <1>1. IsSeq(s) /\ Typed(s)  BY SeqElim
  <1>2. t = [s EXCEPT !.has_inflight = FALSE, !.in_flight_dispatch = None, !.reservation = None]
    OBVIOUS
  <1> HIDE DEF t
  <1>3. IsSeq(t)  BY <1>1, <1>2, Zenon DEF IsSeq
  <1>4. QuietFields(s, t)
    BY <1>1, <1>2, NoneType DEF IsSeq, SeqFields, Typed, QuietFields, SameProgress
  <1> QED  BY <1>3, <1>4, QuietIntro DEF t

\* ... mark_worker_dead on a sequence of the dead worker, ...
LEMMA RequeueQuiet ==
  ASSUME NEW s \in SeqRecords, NEW st \in SequenceStates, IsTerminal(s.state) => st = s.state
  PROVE  Quiet(s, [s EXCEPT !.has_inflight = FALSE, !.reservation = None, !.state = st])
  <1> DEFINE t == [s EXCEPT !.has_inflight = FALSE, !.reservation = None, !.state = st]
  <1>1. IsSeq(s) /\ Typed(s)  BY SeqElim
  <1>2. t = [s EXCEPT !.has_inflight = FALSE, !.reservation = None, !.state = st]
    OBVIOUS
  <1> HIDE DEF t
  <1>3. IsSeq(t)  BY <1>1, <1>2, Zenon DEF IsSeq
  <1>4. QuietFields(s, t)
    BY <1>1, <1>2, NoneType DEF IsSeq, SeqFields, Typed, QuietFields, SameProgress
  <1> QED  BY <1>3, <1>4, QuietIntro DEF t

\* ... apply_completion dropping what is in flight, ...
LEMMA DropQuiet ==
  ASSUME NEW s \in SeqRecords
  PROVE  Quiet(s, [s EXCEPT !.has_inflight = FALSE, !.reservation = None])
  <1> DEFINE t == [s EXCEPT !.has_inflight = FALSE, !.reservation = None]
  <1>1. IsSeq(s) /\ Typed(s)  BY SeqElim
  <1>2. t = [s EXCEPT !.has_inflight = FALSE, !.reservation = None]
    OBVIOUS
  <1> HIDE DEF t
  <1>3. IsSeq(t)  BY <1>1, <1>2, Zenon DEF IsSeq
  <1>4. QuietFields(s, t)
    BY <1>1, <1>2, NoneType DEF IsSeq, SeqFields, Typed, QuietFields, SameProgress
  <1> QED  BY <1>3, <1>4, QuietIntro DEF t

\* ... abort_prepared on the sequence of the proposal, ...
LEMMA AbortQuiet ==
  ASSUME NEW s \in SeqRecords, NEW st \in SequenceStates, IsTerminal(s.state) => st = s.state
  PROVE  Quiet(s, [s EXCEPT !.in_flight_grant = None, !.in_flight_proposal = None,
                       !.has_inflight = FALSE, !.reservation = None, !.state = st])
  <1> DEFINE t == [s EXCEPT !.in_flight_grant = None, !.in_flight_proposal = None,
                       !.has_inflight = FALSE, !.reservation = None, !.state = st]
  <1>1. IsSeq(s) /\ Typed(s)  BY SeqElim
  <1>2. t = [s EXCEPT !.in_flight_grant = None, !.in_flight_proposal = None,
                       !.has_inflight = FALSE, !.reservation = None, !.state = st]
    OBVIOUS
  <1> HIDE DEF t
  <1>3. IsSeq(t)  BY <1>1, <1>2, Zenon DEF IsSeq
  <1>4. QuietFields(s, t)
    BY <1>1, <1>2, NoneType DEF IsSeq, SeqFields, Typed, QuietFields, SameProgress
  <1> QED  BY <1>3, <1>4, QuietIntro DEF t

\* ... and minting a new attempt.
LEMMA AttemptQuiet ==
  ASSUME NEW s \in SeqRecords, NEW st \in SequenceStates, IsTerminal(s.state) => st = s.state,
         NEW a \in Nat
  PROVE  Quiet(s, [s EXCEPT !.current_attempt = a, !.attempt_count = @ + 1, !.state = st])
  <1> DEFINE t == [s EXCEPT !.current_attempt = a, !.attempt_count = @ + 1, !.state = st]
  <1>1. IsSeq(s) /\ Typed(s)  BY SeqElim
  <1>2. t = [s EXCEPT !.current_attempt = a, !.attempt_count = @ + 1, !.state = st]
    OBVIOUS
  <1> HIDE DEF t
  <1>3. IsSeq(t)  BY <1>1, <1>2, Zenon DEF IsSeq
  <1>4. QuietFields(s, t)
    BY <1>1, <1>2, NoneType DEF IsSeq, SeqFields, Typed, QuietFields, SameProgress
  <1> QED  BY <1>3, <1>4, QuietIntro DEF t

\* Minting a new attempt, or running out of attempts, is quiet.
LEMMA NewAttemptQuiet ==
  ASSUME NEW s \in SeqRecords, next_dispatch \in Nat
  PROVE  Quiet(s, NewAttempt(s)) /\ Quiet(s, RetryBudgetExhausted(s))
  <1> DEFINE st == TransitionVia(s.state, "Retrying", "Ready")
             nr == TransitionTo(s.state, "NonRetryableFailure")
  <1>1. s.state \in SequenceStates  BY SeqElim DEF Typed
  <1>2. st \in SequenceStates /\ (IsTerminal(s.state) => st = s.state)
    BY <1>1, TransitionType, TerminalStays, NamedStates
  <1>3. nr \in SequenceStates /\ (IsTerminal(s.state) => nr = s.state)
    BY <1>1, TransitionType, TerminalStays, NamedStates
  <1>4. /\ NewAttempt(s) = [s EXCEPT !.current_attempt = next_dispatch + RetryAttemptBase,
                                    !.attempt_count = @ + 1, !.state = st]
        /\ RetryBudgetExhausted(s) = [s EXCEPT !.state = nr, !.terminal_record = "NonRetryableFailure"]
    BY DEF NewAttempt, RetryBudgetExhausted
  <1>5. next_dispatch + RetryAttemptBase \in Nat  BY ConfigAssumption
  <1>6. "NonRetryableFailure" \in SequenceStates  BY NamedStates
  <1> HIDE DEF st, nr
  <1> QED
    <2>1. Quiet(s, [s EXCEPT !.current_attempt = next_dispatch + RetryAttemptBase,
                             !.attempt_count = @ + 1, !.state = st])
      BY <1>2, <1>5, AttemptQuiet, Zenon
    <2>2. Quiet(s, [s EXCEPT !.state = nr, !.terminal_record = "NonRetryableFailure"])
      BY <1>3, <1>6, SetRecordQuiet, Zenon
    <2> QED  BY <1>4, <2>1, <2>2

\* The RetryableFailure case of apply_noncommit_outcome.
LEMMA FailRetryableQuiet ==
  ASSUME NEW s \in SeqRecords, next_dispatch \in Nat
  PROVE  Quiet(s, FailRetryable(s))
  <1> DEFINE st == IF s.state = "Dispatched" THEN TransitionTo(s.state, "RetryableFailure")
                   ELSE s.state
             f == [s EXCEPT !.state = st]
  <1>1. s.state \in SequenceStates  BY SeqElim DEF Typed
  <1>2. st \in SequenceStates /\ (IsTerminal(s.state) => st = s.state)
    BY <1>1, TransitionType, TerminalStays, NamedStates
  <1>3. FailRetryable(s) \in {RetryBudgetExhausted(f), NewAttempt(f)}
    BY DEF FailRetryable
  <1> HIDE DEF st
  <1>4. Quiet(s, f) /\ f \in SeqRecords  BY <1>2, SetStateQuiet DEF Quiet
  <1> HIDE DEF f
  <1>5. Quiet(f, NewAttempt(f)) /\ Quiet(f, RetryBudgetExhausted(f))  BY <1>4, NewAttemptQuiet
  <1> QED  BY <1>3, <1>4, <1>5, QuietTrans

\* apply_noncommit_outcome never moves the progress of a sequence.
LEMMA NonCommitQuiet ==
  ASSUME NEW s \in SeqRecords, NEW kind, next_dispatch \in Nat
  PROVE  Quiet(s, NonCommitOutcome(s, kind))
  <1>1. s.state \in SequenceStates  BY SeqElim DEF Typed
  <1>2. CASE kind = "Yielded"
    <2> DEFINE st == TransitionVia(s.state, "StepCompleted", "Yielded")
    <2>1. st \in SequenceStates /\ (IsTerminal(s.state) => st = s.state)
      BY <1>1, TransitionType, TerminalStays, NamedStates
    <2>2. NonCommitOutcome(s, kind) = [s EXCEPT !.state = st]
      BY <1>2 DEF NonCommitOutcome
    <2> HIDE DEF st
    <2> QED  BY <2>1, <2>2, SetStateQuiet
  <1>3. CASE kind = "RetryableFailure"
    BY <1>3, FailRetryableQuiet DEF NonCommitOutcome
  <1>4. CASE kind = "NonRetryableFailure"
    <2> DEFINE st == IF s.state = "Dispatched" THEN TransitionTo(s.state, "NonRetryableFailure")
                     ELSE s.state
    <2>1. st \in SequenceStates /\ (IsTerminal(s.state) => st = s.state)
      BY <1>1, TransitionType, TerminalStays, NamedStates
    <2>2. NonCommitOutcome(s, kind) =
            [s EXCEPT !.state = st, !.terminal_record = "NonRetryableFailure"]
      BY <1>4 DEF NonCommitOutcome
    <2> HIDE DEF st
    <2>3. "NonRetryableFailure" \in SequenceStates  BY NamedStates
    <2>4. Quiet(s, [s EXCEPT !.state = st, !.terminal_record = "NonRetryableFailure"])
      BY <2>1, <2>3, SetRecordQuiet, Zenon
    <2> QED  BY <2>2, <2>4
  <1>5. CASE kind = "Cancelled"
    <2> DEFINE st == TransitionTo(s.state, "Cancelled")
    <2>1. st \in SequenceStates /\ (IsTerminal(s.state) => st = s.state)
      BY <1>1, TransitionType, TerminalStays, NamedStates
    <2>2. NonCommitOutcome(s, kind) = [s EXCEPT !.state = st, !.terminal_record = "Cancelled"]
      BY <1>5 DEF NonCommitOutcome
    <2> HIDE DEF st
    <2>3. "Cancelled" \in SequenceStates  BY NamedStates
    <2>4. Quiet(s, [s EXCEPT !.state = st, !.terminal_record = "Cancelled"])
      BY <2>1, <2>3, SetRecordQuiet, Zenon
    <2> QED  BY <2>2, <2>4
  <1>6. CASE kind = "Expired"
    <2> DEFINE st == TransitionTo(s.state, "DeadlineExpired")
    <2>1. st \in SequenceStates /\ (IsTerminal(s.state) => st = s.state)
      BY <1>1, TransitionType, TerminalStays, NamedStates
    <2>2. NonCommitOutcome(s, kind) = [s EXCEPT !.state = st, !.terminal_record = "DeadlineExpired"]
      BY <1>6 DEF NonCommitOutcome
    <2> HIDE DEF st
    <2>3. "DeadlineExpired" \in SequenceStates  BY NamedStates
    <2>4. Quiet(s, [s EXCEPT !.state = st, !.terminal_record = "DeadlineExpired"])
      BY <2>1, <2>3, SetRecordQuiet, Zenon
    <2> QED  BY <2>2, <2>4
  <1>7. CASE kind \notin {"Yielded", "RetryableFailure", "NonRetryableFailure", "Cancelled", "Expired"}
    <2>1. NonCommitOutcome(s, kind) = s  BY <1>7 DEF NonCommitOutcome
    <2> QED  BY <2>1, QuietSame
  <1> QED  BY <1>2, <1>3, <1>4, <1>5, <1>6, <1>7

\* Neither does a boundary.
LEMMA BoundaryQuiet ==
  ASSUME NEW s \in SeqRecords, NEW tn
  PROVE  Quiet(s, CrossBoundary(s, tn)) /\ Quiet(s, CompleteSpent(s))
  <1> DEFINE out == BoundaryOutcome(s, tn)
             st == TransitionTo(s.state, out)
             co == TransitionTo(s.state, "Completed")
  <1>1. s.state \in SequenceStates  BY SeqElim DEF Typed
  <1>2. out \in SequenceStates  BY NamedStates DEF BoundaryOutcome
  <1>3. st \in SequenceStates /\ (IsTerminal(s.state) => st = s.state)
    BY <1>1, <1>2, TransitionType, TerminalStays
  <1>4. co \in SequenceStates /\ (IsTerminal(s.state) => co = s.state)
    BY <1>1, NamedStates, TransitionType, TerminalStays
  <1>5. /\ CrossBoundary(s, tn) \in
             {s, [s EXCEPT !.reservation = None, !.state = st, !.terminal_record = out]}
        /\ CompleteSpent(s) =
             [s EXCEPT !.reservation = None, !.state = co, !.terminal_record = "Completed"]
    BY DEF CrossBoundary, CompleteSpent
  <1>6. "Completed" \in SequenceStates  BY NamedStates
  <1> HIDE DEF out, st, co
  <1>7. /\ Quiet(s, [s EXCEPT !.reservation = None, !.state = st, !.terminal_record = out])
        /\ Quiet(s, [s EXCEPT !.reservation = None, !.state = co, !.terminal_record = "Completed"])
    BY <1>2, <1>3, <1>4, <1>6, StopQuiet, Zenon
  <1> QED  BY <1>5, <1>7, QuietSame

-----------------------------------------------------------------------------
(* The actions *)

QuietStep ==
  /\ DOMAIN seqs' = DOMAIN seqs
  /\ \A q \in DOMAIN seqs : Quiet(seqs[q], seqs'[q])

\* A step that updates one sequence quietly is a quiet step.
LEMMA QuietOne ==
  ASSUME TypeOK, NEW q \in DOMAIN seqs, NEW t, Quiet(seqs[q], t), seqs' = [seqs EXCEPT ![q] = t]
  PROVE  QuietStep
  <1>1. \A p \in DOMAIN seqs : Quiet(seqs[p], seqs[p])  BY QuietSame DEF TypeOK
  <1> QED  BY <1>1 DEF QuietStep

\* A step that touches no sequence is a quiet step.
LEMMA QuietNone ==
  ASSUME TypeOK, seqs' = seqs
  PROVE  QuietStep
  BY QuietSame DEF TypeOK, QuietStep

\* Settling a member without a commit (apply_completion, authorize_prepared) is quiet.
LEMMA SettleQuiet ==
  ASSUME TypeOK, NEW q \in DOMAIN seqs, NEW kind, SettleNonCommit(q, kind)
  PROVE  QuietStep
  <1> DEFINE closed == [seqs[q] EXCEPT !.has_inflight = FALSE, !.in_flight_dispatch = None,
                                       !.reservation = None]
             t == NonCommitOutcome(closed, kind)
  <1>1. seqs[q] \in SeqRecords /\ next_dispatch \in Nat  BY DEF TypeOK
  <1>2. seqs' = [seqs EXCEPT ![q] = t]  BY DEF SettleNonCommit
  <1>3. Quiet(seqs[q], closed)  BY <1>1, CloseQuiet, Zenon
  <1> HIDE DEF closed
  <1>4. closed \in SeqRecords  BY <1>3 DEF Quiet
  <1>5. Quiet(closed, t)  BY <1>1, <1>4, NonCommitQuiet
  <1> HIDE DEF t
  <1>6. Quiet(seqs[q], t)  BY <1>3, <1>5, QuietTrans
  <1> QED  BY <1>2, <1>6, QuietOne, Zenon

\* Rejecting a stale or badly bound proposal (authorize_prepared) is quiet.
LEMMA RejectQuiet ==
  ASSUME TypeOK, NEW pm, pm.sequence \in DOMAIN seqs, RejectPrepared(pm)
  PROVE  QuietStep
  <1> DEFINE q == pm.sequence
             t == StaleReconcile(seqs[q])
  <1>1. Quiet(seqs[q], t)  BY StaleReconcileQuiet DEF TypeOK
  <1>2. seqs' = [seqs EXCEPT ![q] = t]  BY DEF RejectPrepared
  <1> HIDE DEF t, q
  <1> QED  BY <1>1, <1>2, QuietOne, Zenon DEF q

\* apply_completion of an old epoch or a cancelled sequence is quiet.
LEMMA DropInFlightQuiet ==
  ASSUME TypeOK, NEW q \in DOMAIN seqs, DropInFlight(q)
  PROVE  QuietStep
  <1> DEFINE t == [seqs[q] EXCEPT !.has_inflight = FALSE, !.reservation = None]
  <1>1. Quiet(seqs[q], t)  BY DropQuiet, Zenon DEF TypeOK
  <1>2. seqs' = [seqs EXCEPT ![q] = t]  BY Zenon DEF DropInFlight
  <1> HIDE DEF t
  <1> QED  BY <1>1, <1>2, QuietOne, Zenon

\* cancel is quiet.
LEMMA CancelQuiet ==
  ASSUME TypeOK, NEW q \in DOMAIN seqs, CancelInFlight(q) \/ CancelNow(q)
  PROVE  QuietStep
  <1> DEFINE cr == TransitionTo(seqs[q].state, "CancelRequested")
             ca == TransitionTo(seqs[q].state, "Cancelled")
             t == [seqs[q] EXCEPT !.state = cr]
             u == [seqs[q] EXCEPT !.reservation = None, !.state = ca, !.terminal_record = "Cancelled"]
  <1>1. seqs[q] \in SeqRecords /\ seqs[q].state \in SequenceStates  BY SeqElim DEF TypeOK, Typed
  <1>2. /\ cr \in SequenceStates /\ (IsTerminal(seqs[q].state) => cr = seqs[q].state)
        /\ ca \in SequenceStates /\ (IsTerminal(seqs[q].state) => ca = seqs[q].state)
        /\ "Cancelled" \in SequenceStates
    BY <1>1, TransitionType, TerminalStays, NamedStates
  <1>3. \/ seqs' = [seqs EXCEPT ![q] = t]
        \/ seqs' = [seqs EXCEPT ![q] = u]
    <2>1. CASE CancelInFlight(q)  BY <2>1 DEF CancelInFlight
    <2>2. CASE CancelNow(q)  BY <2>2 DEF CancelNow, CancelledNow
    <2> QED  BY <2>1, <2>2
  <1> HIDE DEF cr, ca
  <1>4. Quiet(seqs[q], t)  BY <1>1, <1>2, SetStateQuiet, Zenon
  <1>5. Quiet(seqs[q], u)  BY <1>1, <1>2, StopQuiet, Zenon
  <1> HIDE DEF t, u
  <1> QED  BY <1>3, <1>4, <1>5, QuietOne

\* retry is quiet.
LEMMA RetryQuiet ==
  ASSUME TypeOK, NEW q \in DOMAIN seqs, Retry(q)
  PROVE  QuietStep
  <1> DEFINE t == IF seqs[q].attempt_count >= MaxAttempts
                  THEN RetryBudgetExhausted(seqs[q]) ELSE NewAttempt(seqs[q])
  <1>1. Quiet(seqs[q], t)  BY NewAttemptQuiet DEF TypeOK
  <1>2. seqs' = [seqs EXCEPT ![q] = t]  BY DEF Retry
  <1> HIDE DEF t
  <1> QED  BY <1>1, <1>2, QuietOne, Zenon

\* mark_worker_dead is quiet.
LEMMA MarkWorkerDeadQuiet ==
  ASSUME TypeOK, NEW w, MarkWorkerDead(w)
  PROVE  QuietStep
  <1> SUFFICES ASSUME NEW q \in DOMAIN seqs PROVE Quiet(seqs[q], seqs'[q])
    BY Zenon DEF MarkWorkerDead, QuietStep
  <1> DEFINE st == IF seqs[q].state \in InFlightStates
                   THEN TransitionVia(seqs[q].state, "StepCompleted", "Waiting")
                   ELSE seqs[q].state
             t == [seqs[q] EXCEPT !.has_inflight = FALSE, !.reservation = None, !.state = st]
  <1>1. seqs[q] \in SeqRecords /\ seqs[q].state \in SequenceStates  BY SeqElim DEF TypeOK, Typed
  <1>2. st \in SequenceStates /\ (IsTerminal(seqs[q].state) => st = seqs[q].state)
    BY <1>1, TransitionType, TerminalStays, NamedStates
  <1>3. seqs'[q] \in {seqs[q], t}  BY Zenon DEF MarkWorkerDead
  <1> HIDE DEF st
  <1>4. Quiet(seqs[q], t)  BY <1>1, <1>2, RequeueQuiet, Zenon
  <1> HIDE DEF t
  <1> QED  BY <1>1, <1>3, <1>4, QuietSame

\* advance is quiet.
LEMMA AdvanceQuiet ==
  ASSUME TypeOK, NEW tn, Advance(tn)
  PROVE  QuietStep
  BY BoundaryQuiet DEF TypeOK, Advance, QuietStep

\* schedule up to group formation is quiet.
LEMMA ScheduleQuiet ==
  ASSUME TypeOK, NEW tn, Schedule(tn)
  PROVE  QuietStep
  <1>1. DOMAIN seqs' = DOMAIN seqs  BY DEF Schedule
  <1>2. SUFFICES ASSUME NEW q \in DOMAIN seqs PROVE Quiet(seqs[q], seqs'[q])
    BY <1>1 DEF QuietStep
  <1> DEFINE s == CrossBoundary(seqs[q], tn)
             gr == TransitionTo(s.state, "Grouped")
             t == [s EXCEPT !.state = gr]
  <1>3. seqs[q] \in SeqRecords  BY DEF TypeOK
  <1>4. Quiet(seqs[q], s)  BY <1>3, BoundaryQuiet
  <1>5. seqs'[q] \in {s, CompleteSpent(s), t}  BY DEF Schedule
  <1> HIDE DEF s
  <1>6. s \in SeqRecords /\ s.state \in SequenceStates  BY <1>4, SeqElim DEF Quiet, Typed
  <1>7. gr \in SequenceStates /\ (IsTerminal(s.state) => gr = s.state)
    BY <1>6, TransitionType, TerminalStays, NamedStates
  <1> HIDE DEF gr
  <1>8. Quiet(s, t)  BY <1>6, <1>7, SetStateQuiet, Zenon
  <1>9. Quiet(s, CompleteSpent(s)) /\ Quiet(s, s)  BY <1>6, BoundaryQuiet, QuietSame
  <1> HIDE DEF t
  <1> QED  BY <1>4, <1>5, <1>8, <1>9, QuietTrans

\* schedule giving up a group is quiet.
LEMMA RevertGroupQuiet ==
  ASSUME TypeOK, NEW g, RevertGroup(g)
  PROVE  QuietStep
  <1> SUFFICES ASSUME NEW q \in DOMAIN seqs PROVE Quiet(seqs[q], seqs'[q])
    BY DEF RevertGroup, QuietStep
  <1> DEFINE st == TransitionTo(seqs[q].state, "Ready")
             t == [seqs[q] EXCEPT !.state = st]
  <1>1. seqs[q] \in SeqRecords /\ seqs[q].state \in SequenceStates  BY SeqElim DEF TypeOK, Typed
  <1>2. st \in SequenceStates /\ (IsTerminal(seqs[q].state) => st = seqs[q].state)
    BY <1>1, TransitionType, TerminalStays, NamedStates
  <1>3. seqs'[q] \in {seqs[q], t}  BY DEF RevertGroup
  <1> HIDE DEF st
  <1>4. Quiet(seqs[q], t)  BY <1>1, <1>2, SetStateQuiet, Zenon
  <1> HIDE DEF t
  <1> QED  BY <1>1, <1>3, <1>4, QuietSame

\* abort_prepared is quiet and drops the grant.
LEMMA AbortPreparedQuiet ==
  ASSUME TypeOK, NEW q \in DOMAIN seqs, NEW proposal, AbortPrepared(q, proposal)
  PROVE  QuietStep /\ seqs'[q].in_flight_grant = None
  <1> DEFINE st == IF seqs[q].state \in InFlightStates
                   THEN TransitionVia(seqs[q].state, "StepCompleted", "Waiting")
                   ELSE seqs[q].state
             t == [seqs[q] EXCEPT !.in_flight_grant = None, !.in_flight_proposal = None,
                                  !.has_inflight = FALSE, !.reservation = None, !.state = st]
  <1>1. seqs[q] \in SeqRecords /\ seqs[q].state \in SequenceStates /\ IsSeq(seqs[q])
    BY SeqElim DEF TypeOK, Typed
  <1>2. st \in SequenceStates /\ (IsTerminal(seqs[q].state) => st = seqs[q].state)
    BY <1>1, TransitionType, TerminalStays, NamedStates
  <1>3. seqs' = [seqs EXCEPT ![q] = t]  BY DEF AbortPrepared, Aborted
  <1> HIDE DEF st
  <1>4. Quiet(seqs[q], t)  BY <1>1, <1>2, AbortQuiet, Zenon
  <1>5. t.in_flight_grant = None  BY <1>1 DEF IsSeq, SeqFields
  <1> HIDE DEF t
  <1> QED  BY <1>3, <1>4, <1>5, QuietOne, Zenon

\* The three updates that are not quiet: dispatch, grant and receipt.
WasDispatched(s, t) ==
  /\ t \in SeqRecords
  /\ SameProgress(s, t)
  /\ t.in_flight_generation = s.generation
  /\ t.in_flight_grant = s.in_flight_grant
  /\ t.in_flight_proposal = s.in_flight_proposal
  /\ IsTerminal(s.state) => t.state = s.state
WasGranted(s, t, g, p) ==
  /\ t \in SeqRecords
  /\ SameProgress(s, t)
  /\ t.in_flight_dispatch = s.in_flight_dispatch
  /\ t.in_flight_generation = s.in_flight_generation
  /\ t.in_flight_grant = g
  /\ t.in_flight_proposal = p
  /\ t.state = s.state
WasFinalized(s, t, rec) ==
  /\ t \in SeqRecords
  /\ t.req = s.req
  /\ t.budget = BudgetAdvance(s)
  /\ t.generated = s.generated + 1
  /\ t.generation = s.generation + 1
  /\ t.committed_digest = rec.post
  /\ t.accepted = AcceptanceKey(rec)
  /\ t.in_flight_dispatch = None
  /\ t.in_flight_grant = None
AfterDispatch(s, d, w, r) ==
  [s EXCEPT !.in_flight_dispatch = d, !.in_flight_worker = w,
            !.in_flight_generation = s.generation, !.has_inflight = TRUE,
            !.reservation = r, !.state = TransitionVia(@, "Reserved", "Dispatched")]
AfterGrant(s, g, p) == [s EXCEPT !.in_flight_grant = g, !.in_flight_proposal = p]

\* schedule's placement loop on a member: what is in flight is for its present generation.
LEMMA DispatchedSeq ==
  ASSUME NEW s \in SeqRecords, NEW d \in Nat, NEW w \in Workers, NEW r \in Nat
  PROVE  WasDispatched(s, AfterDispatch(s, d, w, r))
  <1> DEFINE st == TransitionVia(s.state, "Reserved", "Dispatched")
             t == AfterDispatch(s, d, w, r)
  <1>1. IsSeq(s) /\ Typed(s)  BY SeqElim
  <1>2. st \in SequenceStates /\ (IsTerminal(s.state) => st = s.state)
    BY <1>1, TransitionType, TerminalStays, NamedStates DEF Typed
  <1>3. t = [s EXCEPT !.in_flight_dispatch = d, !.in_flight_worker = w,
                      !.in_flight_generation = s.generation, !.has_inflight = TRUE,
                      !.reservation = r, !.state = st]
    BY DEF AfterDispatch
  <1> HIDE DEF st, t
  <1>4. IsSeq(t)  BY <1>1, <1>3, Zenon DEF IsSeq
  <1>5. /\ t.in_flight_dispatch = d /\ t.in_flight_worker = w
        /\ t.in_flight_generation = s.generation
        /\ t.reservation = r /\ t.state = st /\ t.current_attempt = s.current_attempt
        /\ t.attempt_count = s.attempt_count /\ t.terminal_record = s.terminal_record
        /\ t.in_flight_grant = s.in_flight_grant
        /\ t.in_flight_proposal = s.in_flight_proposal
    BY <1>1, <1>3, Zenon DEF IsSeq, SeqFields
  <1>6. SameProgress(s, t)  BY <1>1, <1>3, Zenon DEF IsSeq, SeqFields, SameProgress
  <1>7. t.has_inflight \in BOOLEAN
    <2>1. t.has_inflight = TRUE  BY <1>1, <1>3, Zenon DEF IsSeq, SeqFields
    <2> QED  BY <2>1, Zenon
  <1>8. Typed(t)  BY <1>1, <1>2, <1>5, <1>6, <1>7 DEF Typed, SameProgress
  <1>9. t \in SeqRecords  BY <1>4, <1>8, SeqIntro
  <1> QED  BY <1>2, <1>5, <1>6, <1>9 DEF WasDispatched, t

\* authorize_prepared on a member it grants: only the grant and its proposal are new.
LEMMA GrantedSeq ==
  ASSUME NEW s \in SeqRecords, NEW g \in Nat, NEW p \in Proposals
  PROVE  WasGranted(s, AfterGrant(s, g, p), g, p)
  <1> DEFINE t == AfterGrant(s, g, p)
  <1>1. IsSeq(s) /\ Typed(s)  BY SeqElim
  <1>2. IsSeq(t)  BY <1>1, Zenon DEF IsSeq, AfterGrant
  <1>3. /\ t.in_flight_dispatch = s.in_flight_dispatch
        /\ t.in_flight_worker = s.in_flight_worker
        /\ t.in_flight_generation = s.in_flight_generation /\ t.has_inflight = s.has_inflight
        /\ t.reservation = s.reservation /\ t.state = s.state
        /\ t.current_attempt = s.current_attempt /\ t.attempt_count = s.attempt_count
        /\ t.terminal_record = s.terminal_record /\ t.in_flight_grant = g
        /\ t.in_flight_proposal = p /\ SameProgress(s, t)
    BY <1>1 DEF IsSeq, SeqFields, SameProgress, AfterGrant
  <1> HIDE DEF t
  <1>4. Typed(t)  BY <1>1, <1>3 DEF Typed, SameProgress
  <1>5. t \in SeqRecords  BY <1>2, <1>4, SeqIntro
  <1> QED  BY <1>3, <1>5 DEF WasGranted, t

\* apply_commit_receipt on its sequence: one generation further, nothing in flight.
LEMMA FinalizedSeq ==
  ASSUME NEW s \in SeqRecords, NEW rec, rec.post \in Digests, AcceptanceKey(rec) \in AcceptanceKeys
  PROVE  WasFinalized(s, Finalize(s, rec), rec)
  <1> DEFINE t == Finalize(s, rec)
             key == AcceptanceKey(rec)
             budget == BudgetAdvance(s)
             advanced ==
               [s EXCEPT !.budget = budget, !.generated = @ + 1, !.generation = @ + 1,
                         !.committed_digest = rec.post, !.accepted = key,
                         !.has_inflight = FALSE, !.in_flight_dispatch = None,
                         !.in_flight_grant = None, !.in_flight_proposal = None,
                         !.reservation = None]
             done == [advanced EXCEPT !.state = TransitionVia(@, "StepCompleted", "Completed"),
                                      !.terminal_record = "Completed"]
             next == [advanced EXCEPT !.state =
                        TransitionVia(@, "StepCompleted", "ReadyForNextToken")]
  <1>1. IsSeq(s) /\ Typed(s)  BY SeqElim
  <1>2. t \in {done, next}  BY DEF Finalize
  <1>3. budget \in Nat  BY <1>1 DEF Typed, BudgetAdvance
  <1> HIDE DEF key, budget, t
  <1>4. IsSeq(advanced)  BY <1>1, Zenon DEF IsSeq
  <1>5. /\ advanced.req = s.req /\ advanced.state = s.state
        /\ advanced.budget = budget /\ advanced.generated = s.generated + 1
        /\ advanced.generation = s.generation + 1 /\ advanced.committed_digest = rec.post
        /\ advanced.accepted = key /\ advanced.has_inflight \in BOOLEAN
        /\ advanced.in_flight_dispatch = None /\ advanced.in_flight_worker = s.in_flight_worker
        /\ advanced.in_flight_generation = s.in_flight_generation
        /\ advanced.in_flight_grant = None /\ advanced.in_flight_proposal = None
        /\ advanced.reservation = None /\ advanced.current_attempt = s.current_attempt
        /\ advanced.attempt_count = s.attempt_count
        /\ advanced.terminal_record = s.terminal_record
    BY <1>1 DEF IsSeq, SeqFields
  <1> HIDE DEF advanced
  <1>6. Typed(advanced)
    <2>1. key \in AcceptanceKeys  BY DEF key
    <2> QED  BY <1>1, <1>3, <1>5, <2>1, NoneType DEF Typed
  <1>7. advanced \in SeqRecords  BY <1>4, <1>6, SeqIntro
  <1>8. Quiet(advanced, done) /\ Quiet(advanced, next)
    <2> DEFINE co == TransitionVia(advanced.state, "StepCompleted", "Completed")
               rn == TransitionVia(advanced.state, "StepCompleted", "ReadyForNextToken")
    <2>1. /\ co \in SequenceStates /\ (IsTerminal(advanced.state) => co = advanced.state)
          /\ rn \in SequenceStates /\ (IsTerminal(advanced.state) => rn = advanced.state)
          /\ "Completed" \in SequenceStates
      BY <1>6, TransitionType, TerminalStays, NamedStates DEF Typed
    <2>2. /\ done = [advanced EXCEPT !.state = co, !.terminal_record = "Completed"]
          /\ next = [advanced EXCEPT !.state = rn]
      OBVIOUS
    <2> HIDE DEF co, rn, done, next
    <2>3. Quiet(advanced, [advanced EXCEPT !.state = co, !.terminal_record = "Completed"])
      BY <1>7, <2>1, SetRecordQuiet, Zenon
    <2>4. Quiet(advanced, [advanced EXCEPT !.state = rn])  BY <1>7, <2>1, SetStateQuiet, Zenon
    <2> QED  BY <2>2, <2>3, <2>4
  <1> HIDE DEF done, next
  <1>9. Quiet(advanced, t)  BY <1>2, <1>8
  <1> QED  BY <1>5, <1>9 DEF Quiet, SameProgress, WasFinalized, key, budget, t

=============================================================================
