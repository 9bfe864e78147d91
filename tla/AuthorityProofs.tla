-------------------------- MODULE AuthorityProofs ---------------------------
(***************************************************************************)
(* The commit authority of DecodeFabric: one receipt per generation, one   *)
(* use per grant, for every set of requests, workers, boots and digests.   *)
(***************************************************************************)
EXTENDS AuthorityInduction

-----------------------------------------------------------------------------
(* The receipt *)

\* A receipt consumes the grant of exactly the generation it finalizes.
LEMMA ReceiptInv ==
  ASSUME AuthorityInv, TypeOK', NEW gid \in DOMAIN ledger, ApplyCommitReceipt(gid, ledger[gid])
  PROVE  AuthorityInv'
  <1>0. PICK q : q = ledger[gid].sequence  OBVIOUS
  <1> DEFINE s == seqs[q]
             t == seqs'[q]
  <1>1. TypeOK  BY DEF AuthorityInv
  <1>2. /\ q \in DOMAIN seqs /\ s.in_flight_grant = gid
        /\ t.req = s.req /\ t.budget = BudgetAdvance(s) /\ t.generated = s.generated + 1
        /\ t.generation = s.generation + 1 /\ t.committed_digest = ledger[gid].post
        /\ t.accepted = AcceptanceKey(ledger[gid])
        /\ t.in_flight_dispatch = None /\ t.in_flight_grant = None
    BY <1>0, <1>1, ReceiptSeqs, Zenon DEF WasFinalized
  <1>3. gid # None  BY <1>1 DEF TypeOK, None
  <1>4. /\ ledger[gid].generation = s.generation /\ ledger[gid].status = "pending"
        /\ s.committed_digest # None => ledger[gid].pre = s.committed_digest
        /\ ~Exhausted(s)
    <2>1. Current(q)  BY <1>2, <1>3, CurrentGrants, Zenon DEF AuthorityInv, Authority
    <2>2. ~Exhausted(s)  BY <1>2, <1>3, Zenon DEF AuthorityInv, Authority, GrantHasBudget
    <2> QED  BY <1>2, <2>1, <2>2, Zenon DEF Current
  <1>5. /\ DOMAIN seqs' = DOMAIN seqs
        /\ \A p \in DOMAIN seqs : p # q => seqs'[p] = seqs[p]
    BY <1>0, <1>1, ReceiptSeqs DEF OthersKept
  <1>6. formed' = {} /\ ledger' = [ledger EXCEPT ![gid].status = "consumed"]
    BY DEF ApplyCommitReceipt, ReceiptApplies, Unlocked
  <1>7. /\ DOMAIN ledger' = DOMAIN ledger
        /\ \A g \in DOMAIN ledger : g # gid => ledger'[g] = ledger[g]
    BY <1>6, Zenon
  <1>8. /\ ledger[gid] \in GrantRecords
        /\ ledger'[gid] = [ledger[gid] EXCEPT !.status = "consumed"]
    <2>1. ledger[gid] \in GrantRecords  BY <1>1, TypeParts, Zenon DEF LedgerTyped
    <2> QED  BY <1>6, <2>1, Zenon
  <1>9. /\ ledger'[gid].status = "consumed" /\ ledger'[gid].sequence = q
        /\ ledger'[gid].generation = ledger[gid].generation
        /\ ledger'[gid].pre = ledger[gid].pre /\ ledger'[gid].post = ledger[gid].post
        /\ AcceptanceKey(ledger'[gid]) = AcceptanceKey(ledger[gid])
        /\ ledger[gid].post \in Digests
    BY <1>0, <1>8 DEF GrantRecords, AcceptanceKey
  <1>10. /\ s.generation \in Nat \ {0} /\ s.generated \in Nat /\ s.budget \in Nat
         /\ s.req \in Requests
    <2>1. s \in SeqRecords  BY <1>1, <1>2, TypeParts, Zenon DEF SeqsTyped
    <2> QED  BY <2>1, SeqElim, Zenon DEF Typed
  <1> HIDE DEF s, t
  <1>11. InFlightIsNext'
    BY <1>2, <1>5 DEF AuthorityInv, InFlightIsNext, t
  <1>12. FormedHasBudget'  BY <1>6, Zenon DEF FormedHasBudget
  <1>13. BudgetRespected'
    <2>1. /\ s.generated = s.req.pregenerated + s.generation - 1
          /\ s.budget = s.generated /\ s.generated <= s.req.max_generation_length
      BY <1>2, Zenon DEF AuthorityInv, Authority, BudgetRespected, s
    <2>2. s.req.pregenerated \in Nat /\ s.req.max_generation_length \in Nat
      BY <1>10, RequestsAssumption, Zenon
    <2>3. /\ t.generated = t.req.pregenerated + t.generation - 1
          /\ t.budget = t.generated /\ t.generated <= t.req.max_generation_length
      BY <1>2, <1>4, <1>10, <2>1, <2>2 DEF Exhausted, BudgetAdvance
    <2> QED  BY <1>5, <2>3 DEF AuthorityInv, Authority, BudgetRespected, t
  <1>14. GrantHasBudget'
    BY <1>2, <1>5, Zenon DEF AuthorityInv, Authority, GrantHasBudget, t
  <1>15. GrantIsCurrent'
    <2>1. ASSUME NEW p \in DOMAIN seqs', seqs'[p].in_flight_grant # None
          PROVE  /\ p \in DOMAIN seqs /\ seqs'[p] = seqs[p]
                 /\ seqs[p].in_flight_grant \in DOMAIN ledger
                 /\ ledger'[seqs[p].in_flight_grant] = ledger[seqs[p].in_flight_grant]
      <3>1. p # q /\ p \in DOMAIN seqs /\ seqs'[p] = seqs[p]  BY <1>2, <1>5, <2>1, Zenon DEF t
      <3>2. /\ seqs[p].in_flight_grant \in DOMAIN ledger
            /\ ledger[seqs[p].in_flight_grant].sequence = p
        BY <2>1, <3>1, Zenon DEF AuthorityInv, Authority, GrantIsCurrent
      <3> QED  BY <1>0, <1>7, <3>1, <3>2, Zenon
    <2>2. ASSUME NEW p \in DOMAIN seqs', seqs'[p].in_flight_grant # None PROVE Current(p)'
      <3>1. /\ p \in DOMAIN seqs /\ seqs'[p] = seqs[p] /\ DOMAIN ledger' = DOMAIN ledger
            /\ ledger'[seqs[p].in_flight_grant] = ledger[seqs[p].in_flight_grant]
        BY <1>7, <2>1, <2>2, Zenon
      <3>2. Current(p)  BY <2>2, <3>1, CurrentGrants, Zenon DEF AuthorityInv, Authority
      <3> QED  BY <3>1, <3>2, Zenon DEF Current
    <2> QED  BY <2>2, CurrentGrants, Zenon
  <1>16. LedgerOwned'
    BY <1>2, <1>5, <1>7, <1>9 DEF AuthorityInv, Authority, LedgerOwned
  <1>17. /\ Consumed(q)' = Consumed(q) \cup {gid} /\ gid \notin Consumed(q)
         /\ \A p : p # q => Consumed(p)' = Consumed(p)
         /\ \A p : \A g \in Consumed(p) : ledger'[g] = ledger[g]
    BY <1>0, <1>4, <1>7, <1>9 DEF Consumed
  <1>18. /\ \A g, h \in Consumed(q) : ledger[g].generation = ledger[h].generation => g = h
         /\ {ledger[g].generation : g \in Consumed(q)} = 1 .. s.generation - 1
    BY <1>2, Zenon DEF AuthorityInv, Authority, OneReceiptPerGeneration, s
  <1>19. \A g \in Consumed(q) : ledger[g].generation \in 1 .. s.generation - 1  BY <1>18, Zenon
  <1>20. OneReceiptPerGeneration'
    <2>1. \A g, h \in Consumed(q)' : ledger'[g].generation = ledger'[h].generation => g = h
      <3>1. \A g \in Consumed(q) : ledger[g].generation # s.generation  BY <1>10, <1>19
      <3>2. SUFFICES ASSUME NEW g \in Consumed(q)', NEW h \in Consumed(q)',
                            ledger'[g].generation = ledger'[h].generation, g # h
                     PROVE  FALSE
        OBVIOUS
      <3>3. CASE g \in Consumed(q) /\ h \in Consumed(q)  BY <1>17, <1>18, <3>2, <3>3, Zenon
      <3>4. CASE g \in Consumed(q) /\ h = gid  BY <1>4, <1>9, <1>17, <3>1, <3>2, <3>4, Zenon
      <3>5. CASE h \in Consumed(q) /\ g = gid  BY <1>4, <1>9, <1>17, <3>1, <3>2, <3>5, Zenon
      <3> QED  BY <1>17, <3>2, <3>3, <3>4, <3>5, Zenon
    <2>2. {ledger'[g].generation : g \in Consumed(q)'}
            = {ledger[g].generation : g \in Consumed(q)} \cup {s.generation}
      BY <1>4, <1>9, <1>17
    <2>3. {ledger'[g].generation : g \in Consumed(q)'} = 1 .. t.generation - 1
      <3>1. ASSUME NEW n \in Nat \ {0} PROVE (1 .. n - 1) \cup {n} = 1 .. (n + 1) - 1
        OBVIOUS
      <3> QED  BY <1>2, <1>10, <1>18, <2>2, <3>1, Zenon
    <2>4. ASSUME NEW p \in DOMAIN seqs, p # q
          PROVE  /\ \A g, h \in Consumed(p)' :
                      ledger'[g].generation = ledger'[h].generation => g = h
                 /\ {ledger'[g].generation : g \in Consumed(p)'} = 1 .. seqs'[p].generation - 1
      <3>1. Consumed(p)' = Consumed(p) /\ seqs'[p] = seqs[p]  BY <1>5, <1>17, <2>4, Zenon
      <3>2. {ledger'[g].generation : g \in Consumed(p)} = {ledger[g].generation : g \in Consumed(p)}
        BY <1>17, Zenon
      <3> QED
        BY <1>17, <3>1, <3>2 DEF AuthorityInv, Authority, OneReceiptPerGeneration
    <2> QED
      BY <1>5, <2>1, <2>3, <2>4, Zenon DEF OneReceiptPerGeneration, t
  <1>21. ReceiptChain'
    <2>1. \A g \in Consumed(q) :
            /\ ledger[g].generation = s.generation - 1 => s.committed_digest = ledger[g].post
            /\ \A h \in Consumed(q) :
                 ledger[h].generation = ledger[g].generation + 1 => ledger[h].pre = ledger[g].post
            /\ ledger[g].post \in Digests
      <3>1. \A g \in Consumed(q) : ledger[g].post \in Digests
        BY <1>1, Zenon DEF TypeOK, GrantRecords, Consumed
      <3> QED  BY <1>2, <3>1, Zenon DEF AuthorityInv, Authority, ReceiptChain, s
    <2>2. \A g \in Consumed(q) :
            ledger[g].generation = s.generation - 1 => ledger[gid].pre = ledger[g].post
      BY <1>4, <2>1, IdsAssumption DEF None
    <2>3. ASSUME NEW g \in Consumed(q)'
          PROVE  /\ ledger'[g].generation = t.generation - 1 =>
                      /\ t.committed_digest = ledger'[g].post
                      /\ t.accepted = AcceptanceKey(ledger'[g])
                 /\ \A h \in Consumed(q)' :
                      ledger'[h].generation = ledger'[g].generation + 1 =>
                        ledger'[h].pre = ledger'[g].post
      <3>1. CASE g = gid
        <4>1. t.committed_digest = ledger'[g].post /\ t.accepted = AcceptanceKey(ledger'[g])
          BY <1>2, <1>9, <3>1, Zenon
        <4>2. ASSUME NEW h \in Consumed(q)' PROVE ledger'[h].generation # ledger'[g].generation + 1
          <5>1. ledger'[g].generation = s.generation  BY <1>4, <1>9, <3>1, Zenon
          <5>2. ledger'[h].generation \in 1 .. s.generation
            <6>1. CASE h = gid  BY <1>4, <1>9, <1>10, <6>1
            <6>2. CASE h \in Consumed(q)
              <7>1. ledger'[h] = ledger[h] /\ ledger[h].generation \in 1 .. s.generation - 1
                BY <1>17, <1>19, <6>2, Zenon
              <7> QED  BY <1>10, <7>1
            <6> QED  BY <1>17, <4>2, <6>1, <6>2, Zenon
          <5> QED  BY <1>10, <5>1, <5>2
        <4> QED  BY <4>1, <4>2, Zenon
      <3>2. CASE g # gid
        <4>1. g \in Consumed(q) /\ ledger'[g] = ledger[g]  BY <1>17, <2>3, <3>2, Zenon
        <4>2. ledger[g].generation \in 1 .. s.generation - 1  BY <1>19, <4>1, Zenon
        <4>3. ledger'[g].generation # t.generation - 1
          BY <1>2, <1>10, <4>1, <4>2, SMTT(30)
        <4>4. ASSUME NEW h \in Consumed(q)', ledger'[h].generation = ledger'[g].generation + 1
              PROVE  ledger'[h].pre = ledger'[g].post
          <5>1. CASE h = gid
            BY <1>4, <1>9, <1>10, <2>2, <4>1, <4>2, <4>4, <5>1, SMTT(30)
          <5>2. CASE h # gid
            BY <1>17, <2>1, <4>1, <4>4, <5>2, SMTT(30)
          <5> QED  BY <5>1, <5>2, Zenon
        <4> QED  BY <4>3, <4>4, Zenon
      <3> QED  BY <3>1, <3>2, Zenon
    <2>4. ASSUME NEW p \in DOMAIN seqs, p # q, NEW g \in Consumed(p)'
          PROVE  /\ ledger'[g].generation = seqs'[p].generation - 1 =>
                      /\ seqs'[p].committed_digest = ledger'[g].post
                      /\ seqs'[p].accepted = AcceptanceKey(ledger'[g])
                 /\ \A h \in Consumed(p)' :
                      ledger'[h].generation = ledger'[g].generation + 1 =>
                        ledger'[h].pre = ledger'[g].post
      <3>1. Consumed(p)' = Consumed(p) /\ seqs'[p] = seqs[p]  BY <1>5, <1>17, <2>4, Zenon
      <3> QED
        <4>1. \A h \in Consumed(p) : ledger'[h] = ledger[h]  BY <1>17, Zenon
        <4>2. ReceiptChain /\ g \in Consumed(p)
          BY <2>4, <3>1, Zenon DEF AuthorityInv, Authority
        <4>3. /\ ledger[g].generation = seqs[p].generation - 1 =>
                   /\ seqs[p].committed_digest = ledger[g].post
                   /\ seqs[p].accepted = AcceptanceKey(ledger[g])
              /\ \A h \in Consumed(p) :
                   ledger[h].generation = ledger[g].generation + 1 =>
                     ledger[h].pre = ledger[g].post
          BY <2>4, <4>2, Zenon DEF ReceiptChain
        <4> QED  BY <3>1, <4>1, <4>2, <4>3, Zenon
    <2> QED
      BY <1>5, <2>3, <2>4, Zenon DEF ReceiptChain, t
  <1> QED
    BY <1>11, <1>12, <1>13, <1>14, <1>15, <1>16, <1>20, <1>21, Zenon DEF AuthorityInv, Authority

-----------------------------------------------------------------------------
(* The theorems *)

IssueStep(pm) ==
  /\ pm.sequence \in DOMAIN seqs /\ pm.proposal \in Proposals
  /\ Grant(pm) \in GrantRecords /\ pm.dispatch # None
  /\ AuthorityCurrent(seqs[pm.sequence], pm) /\ BindingValid(seqs[pm.sequence], pm)
  /\ IssueGrant(pm)

\* A step is quiet, or one of the six that are not.
LEMMA StepKinds ==
  ASSUME TypeOK, [Next]_vars
  PROVE  \/ QuietStep /\ ledger' = ledger /\ formed' \subseteq formed
         \/ \E tn \in Times : Schedule(tn)
         \/ \E req \in Requests : Submit(req)
         \/ \E g \in formed, w \in Workers : DispatchGroup(g, w)
         \/ \E pm : IssueStep(pm)
         \/ \E gid \in DOMAIN ledger : ApplyCommitReceipt(gid, ledger[gid])
         \/ \E q \in DOMAIN seqs, p \in Proposals : AbortPrepared(q, p)
  <1> DEFINE quiet == QuietStep /\ ledger' = ledger /\ formed' \subseteq formed
  <1>1. ASSUME NEW q \in DOMAIN seqs, CancelInFlight(q) \/ CancelNow(q) \/ Retry(q) PROVE quiet
    <2>1. CASE CancelInFlight(q)  BY <2>1, CancelQuiet, Zenon DEF CancelInFlight
    <2>2. CASE CancelNow(q)  BY <2>2, CancelQuiet, Zenon DEF CancelNow
    <2>3. CASE Retry(q)  BY <2>3, RetryQuiet, Zenon DEF Retry
    <2> QED  BY <1>1, <2>1, <2>2, <2>3, Zenon
  <1>2. ASSUME NEW w, NEW boot, RegisterWorker(w, boot) PROVE quiet
    BY <1>2, QuietNone, Zenon DEF RegisterWorker
  <1>3. ASSUME NEW w, MarkWorkerDead(w) PROVE quiet
    BY <1>3, MarkWorkerDeadQuiet, Zenon DEF MarkWorkerDead
  <1>4. ASSUME RollEpoch \/ UNCHANGED vars PROVE quiet
    BY <1>4, QuietNone, Zenon DEF RollEpoch, vars
  <1>5. ASSUME NEW tn, Advance(tn) PROVE quiet
    BY <1>5, AdvanceQuiet, Zenon DEF Advance
  <1>6. ASSUME NEW g, RevertGroup(g) PROVE quiet
    BY <1>6, RevertGroupQuiet, Zenon DEF RevertGroup
  <1>7. ASSUME NEW q \in DOMAIN seqs, DropInFlight(q) PROVE quiet
    BY <1>7, DropInFlightQuiet, Zenon DEF DropInFlight
  <1>8. ASSUME NEW pm, pm.sequence \in DOMAIN seqs, RejectPrepared(pm) PROVE quiet
    BY <1>8, RejectQuiet, Zenon DEF RejectPrepared
  <1>9. ASSUME NEW q \in DOMAIN seqs, NEW kind, SettleNonCommit(q, kind) PROVE quiet
    BY <1>9, SettleQuiet, Zenon DEF SettleNonCommit
  <1> HIDE DEF quiet
  <1>10. ASSUME NEW m, CompleteOldEpoch(m) \/ CompleteCancelled(m) \/ AuthorizeStale(m) PROVE quiet
    BY <1>7, <1>8, <1>10, Zenon
    DEF CompleteOldEpoch, CompleteCancelled, CompletionCurrent, AuthorizeStale
  <1>11. ASSUME NEW m, NEW kind, CompleteNonCommit(m, kind) \/ AuthorizeNonCommit(m, kind)
         PROVE  quiet
    BY <1>9, <1>11, Zenon DEF CompleteNonCommit, CompletionCurrent, AuthorizeNonCommit
  <1>12. ASSUME NEW m \in issued, NEW pm \in PreparedSteps(m), AuthorizeStep(pm)
         PROVE  quiet \/ IssueStep(pm)
    BY <1>8, <1>12, GrantType, Zenon DEF AuthorizeStep, IssueStep
  <1>13. ASSUME NEW gid \in DOMAIN ledger, NEW post \in Digests,
                ApplyCommitReceipt(gid, [ledger[gid] EXCEPT !.post = post])
         PROVE  ApplyCommitReceipt(gid, ledger[gid])
    BY <1>13, ReceiptIsGrant, Zenon
  <1>14. QED
    BY <1>1, <1>2, <1>3, <1>4, <1>5, <1>6, <1>10, <1>11, <1>12, <1>13, Zenon DEF Next, quiet

\* Every handler keeps the inductive invariant.
LEMMA AuthorityStep ==
  ASSUME AuthorityInv, [Next]_vars
  PROVE  AuthorityInv'
  <1>1. TypeOK /\ TypeOK'  BY TypeStep, Zenon DEF AuthorityInv
  <1> QED
    BY <1>1, StepKinds, QuietInv, ScheduleInv, SubmitInv, DispatchInv, IssueInv, ReceiptInv,
       AbortInv, Zenon
    DEF IssueStep

\* The constructor's state satisfies it.
LEMMA AuthorityInit ==
  ASSUME Init
  PROVE  AuthorityInv
  BY TypeInit, Zenon
  DEF Init, AuthorityInv, InFlightIsNext, FormedHasBudget, Authority, BudgetRespected,
      GrantHasBudget, GrantIsCurrent, LedgerOwned, OneReceiptPerGeneration, ReceiptChain

\* The inductive invariant behind the theorems below.
THEOREM AuthorityInvariant == Spec => []AuthorityInv
  <1>1. Init => AuthorityInv  BY AuthorityInit, Zenon
  <1>2. AuthorityInv /\ [Next]_vars => AuthorityInv'  BY AuthorityStep, Zenon
  <1> QED  BY <1>1, <1>2, PTL DEF Spec

\* Whatever answers, receipts, deaths, retries and cancellations arrive between
\* authorize_prepared and apply_commit_receipt, a grant that a sequence holds is for the
\* generation, position and digest the sequence has.
THEOREM GrantsAreCurrent == Spec => []GrantIsCurrent
  <1>1. AuthorityInv => GrantIsCurrent  BY DEF AuthorityInv, Authority
  <1> QED  BY <1>1, AuthorityInvariant, PTL

\* apply_commit_receipt finalizes every generation exactly once.
THEOREM ExactlyOnce == Spec => []OneReceiptPerGeneration
  <1>1. AuthorityInv => OneReceiptPerGeneration  BY DEF AuthorityInv, Authority
  <1> QED  BY <1>1, AuthorityInvariant, PTL

\* The accepted receipts form a chain of digests that ends in the digest the fabric expects.
THEOREM ReceiptsChain == Spec => []ReceiptChain
  <1>1. AuthorityInv => ReceiptChain  BY DEF AuthorityInv, Authority
  <1> QED  BY <1>1, AuthorityInvariant, PTL

\* No sequence generates a token past its budget.
THEOREM BudgetIsRespected == Spec => []BudgetRespected
  <1>1. AuthorityInv => BudgetRespected  BY DEF AuthorityInv, Authority
  <1> QED  BY <1>1, AuthorityInvariant, PTL

\* A terminal sequence is never moved, whatever call comes.
THEOREM TerminalStaysFinal == Spec => TerminalIsFinal
  <1> DEFINE Frozen == \A q \in DOMAIN seqs : IsTerminal(seqs[q].state) =>
                         /\ seqs'[q].state = seqs[q].state
                         /\ seqs'[q].generated = seqs[q].generated
                         /\ seqs'[q].generation = seqs[q].generation
  <1>1. ASSUME TypeOK, [Next]_vars PROVE Frozen
    <2>1. CASE QuietStep  BY <2>1, Zenon DEF QuietStep, Quiet, SameProgress
    <2>2. CASE \E tn \in Times : Schedule(tn)
      BY <1>1, <2>2, ScheduleQuiet, Zenon DEF QuietStep, Quiet, SameProgress
    <2>3. CASE \E req \in Requests : Submit(req)  BY <2>3, Zenon DEF Submit
    <2>4. CASE \E g \in formed, w \in Workers : DispatchGroup(g, w)
      BY <1>1, <2>4, DispatchKeeps, Zenon DEF SameProgress
    <2>5. CASE \E pm : IssueStep(pm)
      <3>1. PICK pm : IssueStep(pm)  BY <2>5, Zenon
      <3>2. /\ OthersKept(pm.sequence)
            /\ SameProgress(seqs[pm.sequence], seqs'[pm.sequence])
            /\ seqs'[pm.sequence].state = seqs[pm.sequence].state
        BY <1>1, <3>1, IssueSeqs, Zenon DEF IssueStep, WasGranted
      <3> QED  BY <3>2, Zenon DEF OthersKept, SameProgress
    <2>6. CASE \E gid \in DOMAIN ledger : ApplyCommitReceipt(gid, ledger[gid])
      <3>1. PICK gid \in DOMAIN ledger : ApplyCommitReceipt(gid, ledger[gid])  BY <2>6, Zenon
      <3>2. OthersKept(ledger[gid].sequence) /\ ~IsTerminal(seqs[ledger[gid].sequence].state)
        BY <1>1, <3>1, ReceiptSeqs, Zenon
      <3> QED  BY <3>2, Zenon DEF OthersKept
    <2>7. CASE \E q \in DOMAIN seqs, p \in Proposals : AbortPrepared(q, p)
      BY <1>1, <2>7, AbortPreparedQuiet, Zenon DEF QuietStep, Quiet, SameProgress
    <2> QED  BY <1>1, <2>1, <2>2, <2>3, <2>4, <2>5, <2>6, <2>7, StepKinds, Zenon
  <1>2. TypeOK /\ [Next]_vars => [Frozen]_vars  BY <1>1, Zenon
  <1> QED  BY <1>2, TypeCorrect, PTL DEF Spec, TerminalIsFinal

\* A grant is consumed or aborted only while its sequence waits for it, and once the sequence
\* does not, it never counts again: the basis of answering a replayed receipt with
\* reconciliation.
THEOREM GrantsAreOneUse == Spec => GrantIsOneUse
  <1> DEFINE OneUse(g) ==
               LET q == ledger[g].sequence
               IN /\ g \in DOMAIN ledger'
                  /\ ledger'[g] = [ledger[g] EXCEPT !.status = ledger'[g].status]
                  /\ seqs[q].in_flight_grant # g =>
                       ledger'[g].status = ledger[g].status /\ seqs'[q].in_flight_grant # g
  <1>1. ASSUME AuthorityInv, [Next]_vars, NEW g \in DOMAIN ledger PROVE OneUse(g)
    <2> DEFINE q == ledger[g].sequence
    <2>1. /\ TypeOK /\ g # None /\ q \in DOMAIN seqs /\ ledger[g] \in GrantRecords
      BY <1>1, SMTT(30) DEF AuthorityInv, Authority, LedgerOwned, TypeOK, None
    <2>2. /\ ledger[g] = [ledger[g] EXCEPT !.status = ledger[g].status]
          /\ \A st : [ledger[g] EXCEPT !.status = st].status = st
      BY <2>1, Zenon DEF GrantRecords
    <2> HIDE DEF q
    <2>3. ASSUME ledger' = ledger, seqs'[q].in_flight_grant = g => seqs[q].in_flight_grant = g
          PROVE  OneUse(g)
      BY <1>1, <2>2, <2>3, Zenon DEF q
    <2>4. ASSUME ledger' = ledger, QuietStep PROVE OneUse(g)
      BY <2>1, <2>3, <2>4, Zenon DEF QuietStep, Quiet
    <2>5. CASE \E tn \in Times : Schedule(tn)
      BY <2>1, <2>4, <2>5, ScheduleQuiet, Zenon DEF Schedule
    <2>6. CASE \E req \in Requests : Submit(req)
      <3>1. ledger' = ledger /\ seqs'[q] = seqs[q]  BY <2>1, <2>6, Zenon DEF Submit
      <3> QED  BY <2>3, <3>1, Zenon
    <2>7. CASE \E h \in formed, w \in Workers : DispatchGroup(h, w)
      <3>1. ledger' = ledger  BY <2>7, Zenon DEF DispatchGroup
      <3>2. seqs'[q].in_flight_grant = seqs[q].in_flight_grant
        BY <2>1, <2>7, DispatchKeeps, Zenon
      <3> QED  BY <2>3, <3>1, <3>2, Zenon
    <2>8. CASE \E pm : IssueStep(pm)
      <3>1. PICK pm : IssueStep(pm)  BY <2>8, Zenon
      <3>2. next_grant \notin DOMAIN ledger  BY <2>1, TypeParts DEF LedgerTyped
      <3>3. g \in DOMAIN ledger' /\ ledger'[g] = ledger[g]
        BY <1>1, <3>1, <3>2, Zenon DEF IssueStep, IssueGrant
      <3>4. OthersKept(pm.sequence) /\ seqs'[pm.sequence].in_flight_grant = next_grant
        BY <2>1, <3>1, IssueSeqs, Zenon DEF IssueStep, WasGranted
      <3>5. seqs'[q].in_flight_grant \in {seqs[q].in_flight_grant, next_grant}
        BY <2>1, <3>4, Zenon DEF OthersKept
      <3> QED  BY <1>1, <2>2, <3>2, <3>3, <3>5, Zenon DEF q
    <2>9. CASE \E gid \in DOMAIN ledger : ApplyCommitReceipt(gid, ledger[gid])
      <3>1. PICK gid \in DOMAIN ledger : ApplyCommitReceipt(gid, ledger[gid])  BY <2>9, Zenon
      <3>2. ledger' = [ledger EXCEPT ![gid] = [ledger[gid] EXCEPT !.status = "consumed"]]
        BY <3>1, Zenon DEF ApplyCommitReceipt, ReceiptApplies
      <3>3. /\ OthersKept(ledger[gid].sequence)
            /\ seqs[ledger[gid].sequence].in_flight_grant = gid
            /\ seqs'[ledger[gid].sequence].in_flight_grant = None
        BY <2>1, <3>1, ReceiptSeqs, Zenon DEF WasFinalized
      <3>4. CASE g = gid
        <4>1. ledger'[g] = [ledger[g] EXCEPT !.status = "consumed"]  BY <3>2, <3>4, Zenon
        <4>2. ledger'[g].status = "consumed"  BY <2>2, <4>1, Zenon
        <4>3. ledger'[g] = [ledger[g] EXCEPT !.status = ledger'[g].status]  BY <4>1, <4>2, Zenon
        <4>4. g \in DOMAIN ledger'  BY <1>1, <3>2, Zenon
        <4> QED  BY <3>3, <3>4, <4>3, <4>4, Zenon DEF q
      <3>5. CASE g # gid
        <4>1. g \in DOMAIN ledger' /\ ledger'[g] = ledger[g]  BY <1>1, <3>2, <3>5, Zenon
        <4>2. seqs'[q].in_flight_grant = g => seqs[q].in_flight_grant = g
          BY <2>1, <3>3, Zenon DEF OthersKept
        <4> QED  BY <2>2, <4>1, <4>2, Zenon DEF q
      <3> QED  BY <3>4, <3>5, Zenon
    <2>10. CASE \E p \in DOMAIN seqs, pr \in Proposals : AbortPrepared(p, pr)
      <3>1. PICK p \in DOMAIN seqs, pr \in Proposals : AbortPrepared(p, pr)  BY <2>10, Zenon
      <3>2. QuietStep  BY <2>1, <3>1, AbortPreparedQuiet, Zenon
      <3>3. seqs'[q].in_flight_grant = g => seqs[q].in_flight_grant = g
        BY <2>1, <3>2, Zenon DEF QuietStep, Quiet
      <3>4. /\ g \in DOMAIN ledger'
            /\ ledger'[g] \in {ledger[g], [ledger[g] EXCEPT !.status = "aborted"]}
            /\ ledger'[g] # ledger[g] => g = seqs[p].in_flight_grant
        BY <1>1, <2>1, <3>1, AbortLedger, Zenon
      <3>5. ledger'[g] # ledger[g] => seqs[q].in_flight_grant = g
        BY <1>1, <2>1, <3>4 DEF AuthorityInv, Authority, GrantIsCurrent, q
      <3>6. ledger'[g] = [ledger[g] EXCEPT !.status = ledger'[g].status]
        <4>1. CASE ledger'[g] = ledger[g]  BY <2>2, <4>1, Zenon
        <4>2. CASE ledger'[g] = [ledger[g] EXCEPT !.status = "aborted"]
          <5>1. ledger'[g].status = "aborted"  BY <2>2, <4>2, Zenon
          <5> QED  BY <4>2, <5>1, Zenon
        <4> QED  BY <3>4, <4>1, <4>2, Zenon
      <3> QED  BY <3>3, <3>4, <3>5, <3>6, Zenon DEF q
    <2> HIDE DEF OneUse
    <2> QED
      BY <1>1, <2>1, <2>4, <2>5, <2>6, <2>7, <2>8, <2>9, <2>10, StepKinds, Zenon
  <1>2. AuthorityInv /\ [Next]_vars => [\A g \in DOMAIN ledger : OneUse(g)]_vars
    BY <1>1, Zenon
  <1> QED  BY <1>2, AuthorityInvariant, PTL DEF Spec, GrantIsOneUse

=============================================================================
