----------------------------- MODULE CpuExecutor -----------------------------
(***************************************************************************)
(* CpuDecodeExecutor of src/cpu_executor.cpp: per sequence a committed     *)
(* decode state and at most one tentative (prepared, not committed) step.  *)
(* An executor is a record e; each method holds mu_ for its whole body and *)
(* is an operator from the executor to its result and the executor after.  *)
(*                                                                         *)
(* A state vector is what it was computed from: the seed of its initial    *)
(* state and the number of steps taken.  The key/value byte count grows by *)
(* the same amount with every token and is left out.  Every caller uses    *)
(* one StateId per sequence, so states are keyed by the sequence.          *)
(***************************************************************************)
EXTENDS Integers, Sequences, SequencesExt

CONSTANTS
  DigestBase,          \* more than the steps of any state: keeps digests apart
  EosStates            \* the states whose token is the end-of-sequence token asked for

NoTentative == [attempt |-> 0]

NewExecutor ==
  [states |-> [q \in {} |-> 0], receipts |-> [g \in {} |-> 0], consumed |-> {},
   next_proposal |-> 0]

\* initial_state, from the attempt that is first prepared here.
InitialState(m) == [seed |-> m.attempt, steps |-> 0]
StepState(v) == [v EXCEPT !.steps = @ + 1]

\* digest_state: a positive number that tells states and token counts apart.
DigestState(v, tokens) == 1 + (v.seed * DigestBase + v.steps) * DigestBase + tokens

\* ensure_initialized: the initial state if there is none yet, then one step for each
\* committed token this executor has not seen.  A tentative step stays as it is.
CatchUp_OneShort(st, generated) ==
  IF st.tokens < generated
  THEN [st EXCEPT !.state = [@ EXCEPT !.steps = @ + (generated - st.tokens) - 1],
                  !.tokens = generated]
  ELSE st
CatchUp(st, generated) ==
  IF st.tokens < generated
  THEN [st EXCEPT !.state = [@ EXCEPT !.steps = @ + (generated - st.tokens)], !.tokens = generated]
  ELSE st
EnsureInitialized(e, m) ==
  CatchUp(IF m.sequence \in DOMAIN e.states THEN e.states[m.sequence]
          ELSE [state |-> InitialState(m), tokens |-> 0, tentative |-> NoTentative],
          m.generated)

\* A tentative step of the same attempt, for this generation or another, is never overwritten.
PrepareRefused(st, m) == st.tentative # NoTentative /\ st.tentative.attempt = m.attempt

Tentative(st, m, proposal) ==
  [proposal |-> proposal, attempt |-> m.attempt, generation |-> m.generation,
   sequence |-> m.sequence, worker |-> m.worker, boot |-> m.boot, epoch |-> m.epoch,
   dispatch |-> m.dispatch, state |-> StepState(st.state),
   pre |-> DigestState(st.state, st.tokens),
   post |-> DigestState(StepState(st.state), st.tokens + 1)]

StepKind(st, m) ==
  IF StepState(st.state) \in EosStates \/ m.remaining <= 1
  THEN "StepSuccessTerminal" ELSE "StepSuccessContinue"

\* What the caller is told of the tentative step t.
PreparedMember(st, m, t) ==
  [dispatch |-> m.dispatch, epoch |-> m.epoch, worker |-> m.worker, boot |-> m.boot,
   sequence |-> m.sequence, attempt |-> m.attempt, generation |-> m.generation,
   proposal |-> t.proposal, position |-> st.tokens, pre |-> t.pre, post |-> t.post,
   kind |-> StepKind(st, m)]

SetState(e, q, st) ==
  [e EXCEPT !.states = [p \in DOMAIN e.states \cup {q} |-> IF p = q THEN st ELSE e.states[p]]]

PrepareMember(e, m) ==
  LET st == EnsureInitialized(e, m)
      t == Tentative(st, m, e.next_proposal + 1)
  IN IF PrepareRefused(st, m)
     THEN [ok |-> FALSE, executor |-> SetState(e, m.sequence, st), members |-> <<>>]
     ELSE [ok |-> TRUE,
           executor |-> [SetState(e, m.sequence, [st EXCEPT !.tentative = t])
                           EXCEPT !.next_proposal = @ + 1],
           members |-> <<PreparedMember(st, m, t)>>]

\* The members in order, up to the first that is refused: the answer then has no members, and
\* the tentative steps of the members before it stay.
Prepare(e, members) ==
  LET round(r, m) ==
        IF ~r.ok THEN r
        ELSE LET one == PrepareMember(r.executor, m)
             IN [one EXCEPT !.members = IF one.ok THEN r.members \o @ ELSE <<>>]
  IN FoldLeft(round, [ok |-> TRUE, executor |-> e, members |-> <<>>], members)

\* The grant is the one whose receipt is kept under its id (the worker id is not compared).
SameGrant(r, g) ==
  /\ r.proposal = g.proposal /\ r.sequence = g.sequence /\ r.attempt = g.attempt
  /\ r.generation = g.generation /\ r.boot = g.boot /\ r.epoch = g.epoch
  /\ r.dispatch = g.dispatch /\ r.position = g.position /\ r.pre = g.pre /\ r.post = g.post

\* The grant authorizes exactly the tentative step, from the committed position.
GrantMatches(st, g) ==
  LET t == st.tentative
  IN /\ t # NoTentative
     /\ t.proposal = g.proposal /\ t.attempt = g.attempt /\ t.generation = g.generation
     /\ t.sequence = g.sequence /\ t.worker = g.worker /\ t.boot = g.boot
     /\ t.epoch = g.epoch /\ t.dispatch = g.dispatch
     /\ t.pre = g.pre /\ t.post = g.post
     /\ st.tokens = g.position

Promote(st) ==
  [st EXCEPT !.state = st.tentative.state, !.tokens = @ + 1, !.tentative = NoTentative]

\* commit of grant g with id gid: a repeated grant returns its receipt again, any other must
\* match the tentative step, which becomes the committed state.  The receipt repeats the grant.
Commit(e, gid, g) ==
  IF gid \in DOMAIN e.receipts
  THEN [ok |-> SameGrant(e.receipts[gid], g), executor |-> e]
  ELSE IF g.sequence \notin DOMAIN e.states \/ ~GrantMatches(e.states[g.sequence], g)
  THEN [ok |-> FALSE, executor |-> e]
  ELSE [ok |-> TRUE,
        executor |-> [SetState(e, g.sequence, Promote(e.states[g.sequence])) EXCEPT
                        !.consumed = @ \cup {g.proposal},
                        !.receipts = [i \in DOMAIN e.receipts \cup {gid} |->
                                        IF i = gid THEN g ELSE e.receipts[i]]]]

\* abort: only the tentative step of that very proposal is dropped.
Abort(e, q, proposal) ==
  IF /\ proposal \notin e.consumed
     /\ q \in DOMAIN e.states
     /\ e.states[q].tentative # NoTentative
     /\ e.states[q].tentative.proposal = proposal
  THEN SetState(e, q, [e.states[q] EXCEPT !.tentative = NoTentative])
  ELSE e

=============================================================================
