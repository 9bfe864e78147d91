------------------------- MODULE AuthorityInduction -------------------------
(***************************************************************************)
(* The inductive invariant behind the commit authority of DecodeFabric,    *)
(* and the handlers that finalize nothing: each keeps it.                  *)
(***************************************************************************)
EXTENDS DecodeFabricProofs

-----------------------------------------------------------------------------
(* The inductive invariant *)

\* What is in flight is for the generation the sequence has now, and there is a token left
\* to generate: authorize_prepared compares the answer with in_flight_generation only.
InFlightIsNext ==
  \A q \in DOMAIN seqs : seqs[q].in_flight_dispatch # None =>
    seqs[q].in_flight_generation = seqs[q].generation /\ ~Exhausted(seqs[q])

\* A sequence that waits for a receipt, or is in a group about to be dispatched, has a token
\* left: apply_commit_receipt does not look at the result of budget.advance.
GrantHasBudget ==
  \A q \in DOMAIN seqs : seqs[q].in_flight_grant # None => ~Exhausted(seqs[q])
FormedHasBudget == \A g \in formed : \A q \in g.members : ~Exhausted(seqs[q])

\* Every grant was issued for a submitted sequence.
LedgerOwned == \A g \in DOMAIN ledger : ledger[g].sequence \in DOMAIN seqs

\* What the ledger and the sequences say of each other.
Authority ==
  /\ BudgetRespected
  /\ GrantHasBudget
  /\ GrantIsCurrent
  /\ LedgerOwned
  /\ OneReceiptPerGeneration
  /\ ReceiptChain

AuthorityInv == TypeOK /\ InFlightIsNext /\ FormedHasBudget /\ Authority

\* GrantIsCurrent for one sequence, and ReceiptChain for one consumed grant.
Current(q) ==
  LET g == ledger[seqs[q].in_flight_grant]
  IN /\ seqs[q].in_flight_grant \in DOMAIN ledger
     /\ g.status = "pending" /\ g.sequence = q /\ g.proposal = seqs[q].in_flight_proposal
     /\ g.generation = seqs[q].generation /\ g.position = seqs[q].generated
     /\ seqs[q].committed_digest # None => g.pre = seqs[q].committed_digest
Chained(q, g) ==
  /\ ledger[g].generation = seqs[q].generation - 1 =>
       /\ seqs[q].committed_digest = ledger[g].post
       /\ seqs[q].accepted = AcceptanceKey(ledger[g])
  /\ \A h \in Consumed(q) :
       ledger[h].generation = ledger[g].generation + 1 => ledger[h].pre = ledger[g].post

\* A grant is current for every sequence that holds one: GrantIsCurrent, now and after a step.
LEMMA CurrentGrants ==
  /\ GrantIsCurrent <=> \A q \in DOMAIN seqs : seqs[q].in_flight_grant # None => Current(q)
  /\ GrantIsCurrent' <=> \A q \in DOMAIN seqs' : seqs'[q].in_flight_grant # None => Current(q)'
  BY Zenon DEF GrantIsCurrent, Current

\* Every consumed grant is chained: ReceiptChain, now and after a step.
LEMMA ChainedReceipts ==
  /\ ReceiptChain <=> \A q \in DOMAIN seqs : \A g \in Consumed(q) : Chained(q, g)
  /\ ReceiptChain' <=> \A q \in DOMAIN seqs' : \A g \in Consumed(q)' : Chained(q, g)'
  BY Zenon DEF ReceiptChain, Chained

-----------------------------------------------------------------------------
(* Steps that finalize nothing *)

\* No sequence moves, and its grant is kept or dropped.
ProgressKept ==
  /\ DOMAIN seqs' = DOMAIN seqs
  /\ \A q \in DOMAIN seqs :
       /\ SameProgress(seqs[q], seqs'[q])
       /\ seqs'[q].in_flight_grant # None =>
            /\ seqs'[q].in_flight_grant = seqs[q].in_flight_grant
            /\ seqs'[q].in_flight_proposal = seqs[q].in_flight_proposal

\* The ledger is left alone, but for a grant that is aborted and no longer held.
LedgerKept ==
  /\ DOMAIN ledger' = DOMAIN ledger
  /\ \A g \in DOMAIN ledger :
       \/ ledger'[g] = ledger[g]
       \/ /\ ledger[g].status = "pending"
          /\ ledger'[g] = [ledger[g] EXCEPT !.status = "aborted"]
          /\ \A q \in DOMAIN seqs : seqs'[q].in_flight_grant # g

\* Such a step consumes no grant.
LEMMA ConsumedKept ==
  ASSUME TypeOK, LedgerKept, NEW q
  PROVE  /\ Consumed(q)' = Consumed(q)
         /\ \A g \in Consumed(q) : ledger'[g] = ledger[g]
  <1>1. \A g \in DOMAIN ledger :
          /\ ledger[g] \in GrantRecords
          /\ ledger'[g] # ledger[g] => ledger[g].status = "pending" /\ ledger'[g].status = "aborted"
    BY DEF TypeOK, LedgerKept, GrantRecords
  <1>2. DOMAIN ledger' = DOMAIN ledger  BY DEF LedgerKept
  <1> QED  BY <1>1, <1>2, Zenon DEF Consumed

\* A step that finalizes nothing keeps what the ledger and the sequences say of each other.
LEMMA AuthorityKept ==
  ASSUME TypeOK, Authority, ProgressKept, LedgerKept
  PROVE  Authority'
  <1>1. BudgetRespected'
    BY DEF Authority, BudgetRespected, ProgressKept, SameProgress
  <1>2. GrantHasBudget'
    BY DEF Authority, GrantHasBudget, ProgressKept, SameProgress, Exhausted
  <1>3. GrantIsCurrent'
    <2> SUFFICES ASSUME NEW q \in DOMAIN seqs', seqs'[q].in_flight_grant # None
                 PROVE  LET s == seqs'[q]
                            g == ledger'[s.in_flight_grant]
                        IN /\ s.in_flight_grant \in DOMAIN ledger'
                           /\ g.status = "pending"
                           /\ g.sequence = q
                           /\ g.proposal = s.in_flight_proposal
                           /\ g.generation = s.generation
                           /\ g.position = s.generated
                           /\ s.committed_digest # None => g.pre = s.committed_digest
      BY DEF GrantIsCurrent
    <2>1. /\ q \in DOMAIN seqs
          /\ SameProgress(seqs[q], seqs'[q])
          /\ seqs'[q].in_flight_grant = seqs[q].in_flight_grant
          /\ seqs'[q].in_flight_proposal = seqs[q].in_flight_proposal
      BY DEF ProgressKept
    <2>2. /\ seqs[q].in_flight_grant \in DOMAIN ledger
          /\ ledger'[seqs[q].in_flight_grant] = ledger[seqs[q].in_flight_grant]
      BY <2>1, Zenon DEF Authority, GrantIsCurrent, LedgerKept
    <2> QED  BY <2>1, <2>2 DEF Authority, GrantIsCurrent, LedgerKept, SameProgress
  <1>4. LedgerOwned'
    <2>1. \A g \in DOMAIN ledger : ledger'[g].sequence = ledger[g].sequence
      <3>1. \A g \in DOMAIN ledger : ledger[g] \in GrantRecords
        BY TypeParts, Zenon DEF LedgerTyped
      <3> QED  BY <3>1 DEF LedgerKept, GrantRecords
    <2> QED  BY <2>1, Zenon DEF Authority, LedgerOwned, LedgerKept, ProgressKept
  <1>5. \A q \in DOMAIN seqs' : q \in DOMAIN seqs /\ SameProgress(seqs[q], seqs'[q])
    BY DEF ProgressKept
  <1>6. OneReceiptPerGeneration'
    BY <1>5, ConsumedKept DEF Authority, OneReceiptPerGeneration, SameProgress
  <1>7. ReceiptChain'
    BY <1>5, ConsumedKept DEF Authority, ReceiptChain, SameProgress
  <1> QED  BY <1>1, <1>2, <1>3, <1>4, <1>6, <1>7, Zenon DEF Authority

\* A quiet step of a handler keeps all of the invariant but the types.
LEMMA QuietKeeps ==
  ASSUME AuthorityInv, QuietStep, LedgerKept
  PROVE  /\ InFlightIsNext' /\ Authority'
         /\ \A q \in DOMAIN seqs : Exhausted(seqs'[q]) <=> Exhausted(seqs[q])
  <1>1. ProgressKept  BY DEF QuietStep, Quiet, ProgressKept
  <1>2. Authority'  BY <1>1, AuthorityKept, Zenon DEF AuthorityInv
  <1>3. \A q \in DOMAIN seqs : Exhausted(seqs'[q]) <=> Exhausted(seqs[q])
    BY <1>1, Zenon DEF ProgressKept, SameProgress, Exhausted
  <1>4. InFlightIsNext'
    BY <1>3 DEF AuthorityInv, InFlightIsNext, QuietStep, Quiet, SameProgress
  <1> QED  BY <1>2, <1>3, <1>4, Zenon

\* ... and all of it when no group is formed and the grants stay as they are.
LEMMA QuietInv ==
  ASSUME AuthorityInv, TypeOK', QuietStep, ledger' = ledger, formed' \subseteq formed
  PROVE  AuthorityInv'
  <1>1. LedgerKept  BY DEF LedgerKept
  <1>2. FormedHasBudget'
    <2>1. FormedHasBudget /\ GroupsTyped  BY TypeParts, Zenon DEF AuthorityInv
    <2>2. \A q \in DOMAIN seqs : Exhausted(seqs'[q]) <=> Exhausted(seqs[q])
      BY <1>1, QuietKeeps, Zenon
    <2> QED  BY <2>1, <2>2, Zenon DEF FormedHasBudget, GroupsTyped
  <1> QED  BY <1>1, <1>2, QuietKeeps, Zenon DEF AuthorityInv

\* schedule groups only sequences with a token left.
LEMMA ScheduleInv ==
  ASSUME AuthorityInv, TypeOK', NEW tn, Schedule(tn)
  PROVE  AuthorityInv'
  <1>1. TypeOK  BY DEF AuthorityInv
  <1>2. QuietStep  BY <1>1, ScheduleQuiet, Zenon
  <1>3. LedgerKept  BY DEF Schedule, LedgerKept
  <1>4. ASSUME NEW g \in formed', NEW q \in g.members
        PROVE  ~Exhausted(seqs'[q])
    <2>1. q \in DOMAIN seqs /\ ~Exhausted(CrossBoundary(seqs[q], tn))
      BY <1>1, <1>4, ScheduleForms, Zenon
    <2>2. Quiet(seqs[q], CrossBoundary(seqs[q], tn)) /\ Quiet(seqs[q], seqs'[q])
      <3>1. seqs[q] \in SeqRecords  BY <1>1, <2>1, TypeParts, Zenon DEF SeqsTyped
      <3> QED  BY <1>2, <2>1, <3>1, BoundaryQuiet, Zenon DEF QuietStep
    <2> QED  BY <2>1, <2>2, Zenon DEF Quiet, SameProgress, Exhausted
  <1> QED  BY <1>2, <1>3, <1>4, QuietKeeps, Zenon DEF AuthorityInv, FormedHasBudget

\* schedule dispatches a member for the generation it has now.
LEMMA DispatchInv ==
  ASSUME AuthorityInv, TypeOK', NEW g, NEW w \in Workers, DispatchGroup(g, w)
  PROVE  AuthorityInv'
  <1>1. TypeOK  BY DEF AuthorityInv
  <1>2. g \in formed /\ formed' \subseteq formed /\ ledger' = ledger  BY Zenon DEF DispatchGroup
  <1>3. ProgressKept /\ LedgerKept
    BY <1>1, <1>2, DispatchSeqs, DispatchKeeps, Zenon DEF ProgressKept, LedgerKept
  <1>4. Authority'  BY <1>1, <1>3, AuthorityKept, Zenon DEF AuthorityInv
  <1>5. \A q \in DOMAIN seqs : Exhausted(seqs'[q]) <=> Exhausted(seqs[q])
    BY <1>3, Zenon DEF ProgressKept, SameProgress, Exhausted
  <1>6. FormedHasBudget'
    <2>1. FormedHasBudget /\ GroupsTyped  BY TypeParts, Zenon DEF AuthorityInv
    <2> QED  BY <1>2, <1>5, <2>1, Zenon DEF FormedHasBudget, GroupsTyped
  <1>7. ASSUME NEW q \in DOMAIN seqs', seqs'[q].in_flight_dispatch # None
        PROVE  seqs'[q].in_flight_generation = seqs'[q].generation /\ ~Exhausted(seqs'[q])
    <2>1. q \in DOMAIN seqs /\ SameProgress(seqs[q], seqs'[q])  BY <1>3, Zenon DEF ProgressKept
    <2>2. CASE q \in g.members
      BY <1>1, <1>2, <1>5, <2>1, <2>2, DispatchSeqs, Zenon
      DEF AuthorityInv, FormedHasBudget, SameProgress, WasDispatched
    <2>3. CASE q \notin g.members
      BY <1>1, <1>5, <1>7, <2>1, <2>3, DispatchSeqs, Zenon DEF AuthorityInv, InFlightIsNext
    <2> QED  BY <2>2, <2>3, Zenon
  <1> QED  BY <1>4, <1>6, <1>7, Zenon DEF AuthorityInv, InFlightIsNext

\* abort_prepared closes the grant of one sequence and touches no other.
LEMMA AbortInv ==
  ASSUME AuthorityInv, TypeOK', NEW q \in DOMAIN seqs, NEW proposal, AbortPrepared(q, proposal)
  PROVE  AuthorityInv'
  <1>1. TypeOK  BY DEF AuthorityInv
  <1>2. QuietStep /\ seqs'[q].in_flight_grant = None  BY <1>1, AbortPreparedQuiet, Zenon
  <1>3. ASSUME NEW g \in DOMAIN ledger, ledger'[g] # ledger[g], NEW p \in DOMAIN seqs
        PROVE  seqs'[p].in_flight_grant # g
    <2>1. g = seqs[q].in_flight_grant /\ g # None
      <3>1. 0 \notin DOMAIN ledger  BY <1>1, TypeParts DEF LedgerTyped
      <3>2. g = seqs[q].in_flight_grant  BY <1>1, <1>3, AbortLedger, Zenon
      <3> QED  BY <1>3, <3>1, <3>2, Zenon DEF None
    <2>2. ledger[g].sequence = q  BY <2>1, Zenon DEF AuthorityInv, Authority, GrantIsCurrent
    <2>3. seqs[p].in_flight_grant = g => p = q
      BY <2>1, <2>2, Zenon DEF AuthorityInv, Authority, GrantIsCurrent
    <2> QED  BY <1>2, <2>1, <2>3, Zenon DEF QuietStep, Quiet
  <1>4. LedgerKept  BY <1>1, <1>3, AbortLedger, Zenon DEF LedgerKept
  <1>5. formed' = formed  BY DEF AbortPrepared
  <1>6. FormedHasBudget'
    <2>1. FormedHasBudget /\ GroupsTyped  BY TypeParts, Zenon DEF AuthorityInv
    <2>2. \A p \in DOMAIN seqs : Exhausted(seqs'[p]) <=> Exhausted(seqs[p])
      BY <1>2, <1>4, QuietKeeps, Zenon
    <2> QED  BY <1>5, <2>1, <2>2, Zenon DEF FormedHasBudget, GroupsTyped
  <1> QED  BY <1>2, <1>4, <1>6, QuietKeeps, Zenon DEF AuthorityInv

-----------------------------------------------------------------------------
(* submit and the grant *)

\* A submitted sequence has no grant, no receipt, and its budget not overdrawn.
LEMMA SubmitInv ==
  ASSUME AuthorityInv, TypeOK', NEW req \in Requests, Submit(req)
  PROVE  AuthorityInv'
  <1> DEFINE n == NewSeq(req)
             r == req.sequence
  <1>1. /\ n.req = req /\ n.generation = 1 /\ n.generated = req.pregenerated
        /\ n.budget = req.pregenerated /\ n.in_flight_dispatch = None /\ n.in_flight_grant = None
    BY DEF NewSeq
  <1>2. /\ r \notin DOMAIN seqs
        /\ seqs' = [q \in DOMAIN seqs \cup {r} |-> IF q = r THEN n ELSE seqs[q]]
        /\ UNCHANGED <<ledger, formed>>
        /\ req.pregenerated <= req.max_generation_length
    BY DEF Submit, ValidRequest
  <1> HIDE DEF n
  <1>3. /\ DOMAIN seqs' = DOMAIN seqs \cup {r} /\ seqs'[r] = n
        /\ \A q \in DOMAIN seqs : seqs'[q] = seqs[q]
    BY <1>2, Zenon
  <1> HIDE DEF r
  <1>4. InFlightIsNext'  BY <1>1, <1>3 DEF AuthorityInv, InFlightIsNext
  <1>5. FormedHasBudget'
    <2>1. FormedHasBudget /\ \A g \in formed : g.members \subseteq DOMAIN seqs
      BY TypeParts, Zenon DEF AuthorityInv, GroupsTyped
    <2>2. ASSUME NEW g \in formed', NEW q \in g.members PROVE ~Exhausted(seqs'[q])
      <3>1. g \in formed /\ q \in DOMAIN seqs  BY <1>2, <2>1, <2>2, Zenon
      <3> QED  BY <1>3, <2>1, <2>2, <3>1, Zenon DEF FormedHasBudget
    <2> QED  BY <2>2, Zenon DEF FormedHasBudget
  <1>6. BudgetRespected'
    <2>1. req.pregenerated \in Nat  BY RequestsAssumption, Zenon
    <2>2. /\ n.generated = n.req.pregenerated + n.generation - 1
          /\ n.budget = n.generated /\ n.generated <= n.req.max_generation_length
      BY <1>1, <1>2, <2>1
    <2>3. BudgetRespected  BY Zenon DEF AuthorityInv, Authority
    <2> QED  BY <1>3, <2>2, <2>3, Zenon DEF BudgetRespected
  <1>7. GrantHasBudget' /\ GrantIsCurrent' /\ LedgerOwned'
    <2>1. GrantHasBudget /\ GrantIsCurrent /\ LedgerOwned  BY Zenon DEF AuthorityInv, Authority
    <2>2. GrantHasBudget'  BY <1>1, <1>3, <2>1, Zenon DEF GrantHasBudget
    <2>3. LedgerOwned'  BY <1>2, <1>3, <2>1, Zenon DEF LedgerOwned
    <2>4. GrantIsCurrent'
      <3>1. ASSUME NEW q \in DOMAIN seqs', seqs'[q].in_flight_grant # None PROVE Current(q)'
        <4>1. q \in DOMAIN seqs /\ seqs'[q] = seqs[q]  BY <1>1, <1>3, <3>1, Zenon
        <4>2. Current(q)  BY <2>1, <3>1, <4>1, CurrentGrants, Zenon
        <4> QED  BY <1>2, <4>1, <4>2, Zenon DEF Current
      <3> QED  BY <3>1, CurrentGrants, Zenon
    <2> QED  BY <2>2, <2>3, <2>4
  <1>8. Consumed(r)' = {} /\ \A q \in DOMAIN seqs : Consumed(q)' = Consumed(q)
    BY <1>2, Zenon DEF AuthorityInv, Authority, LedgerOwned, Consumed
  <1>9. OneReceiptPerGeneration'
    BY <1>1, <1>2, <1>3, <1>8 DEF AuthorityInv, Authority, OneReceiptPerGeneration
  <1>10. ReceiptChain'
    BY <1>2, <1>3, <1>8 DEF AuthorityInv, Authority, ReceiptChain
  <1> QED
    BY <1>4, <1>5, <1>6, <1>7, <1>9, <1>10, Zenon DEF AuthorityInv, Authority

\* A grant is issued for the generation, the position and the digest its sequence has now.
LEMMA IssueInv ==
  ASSUME AuthorityInv, TypeOK', NEW pm, pm.sequence \in DOMAIN seqs, pm.proposal \in Proposals,
         Grant(pm) \in GrantRecords, pm.dispatch # None, IssueGrant(pm),
         AuthorityCurrent(seqs[pm.sequence], pm), BindingValid(seqs[pm.sequence], pm)
  PROVE  AuthorityInv'
  <1> DEFINE q == pm.sequence
             s == seqs[q]
             t == seqs'[q]
             g == next_grant
  <1>1. TypeOK  BY DEF AuthorityInv
  <1>2. /\ SameProgress(s, t)
        /\ t.in_flight_dispatch = s.in_flight_dispatch
        /\ t.in_flight_generation = s.in_flight_generation
        /\ t.in_flight_grant = g /\ t.in_flight_proposal = pm.proposal
    BY <1>1, IssueSeqs, Zenon DEF WasGranted
  <1>3. g \notin DOMAIN ledger /\ g # None  BY <1>1, TypeParts DEF LedgerTyped, None
  <1>4. /\ DOMAIN ledger' = DOMAIN ledger \cup {g} /\ ledger'[g] = Grant(pm)
        /\ \A h \in DOMAIN ledger : ledger'[h] = ledger[h]
        /\ formed' = formed
    BY <1>3, Zenon DEF IssueGrant
  <1>5. /\ Grant(pm).status = "pending" /\ Grant(pm).sequence = q
        /\ Grant(pm).proposal = pm.proposal /\ Grant(pm).generation = pm.generation
        /\ Grant(pm).position = pm.position /\ Grant(pm).pre = pm.pre
    BY DEF Grant
  <1>6. /\ pm.generation = s.in_flight_generation /\ s.in_flight_dispatch # None
        /\ pm.position = s.generated
        /\ s.committed_digest # None => pm.pre = s.committed_digest
    BY DEF AuthorityCurrent, IdentityCurrent, BindingValid
  <1>7. pm.generation = s.generation /\ ~Exhausted(s)
    BY <1>6, Zenon DEF AuthorityInv, InFlightIsNext
  <1>8. \A p \in DOMAIN seqs : p # q => seqs'[p] = seqs[p]  BY <1>1, IssueSeqs, Zenon DEF OthersKept
  <1>9. DOMAIN seqs' = DOMAIN seqs /\ q \in DOMAIN seqs  BY <1>1, IssueSeqs, Zenon DEF OthersKept
  <1>10. \A p \in DOMAIN seqs : SameProgress(seqs[p], seqs'[p])
    BY <1>2, <1>8, Zenon DEF SameProgress
  <1> HIDE DEF t, s, g, q
  <1>11. \A p \in DOMAIN seqs : Exhausted(seqs'[p]) <=> Exhausted(seqs[p])
    BY <1>10, Zenon DEF SameProgress, Exhausted
  <1>12. InFlightIsNext'
    <2>1. ASSUME NEW p \in DOMAIN seqs
          PROVE  /\ seqs'[p].in_flight_dispatch = seqs[p].in_flight_dispatch
                 /\ seqs'[p].in_flight_generation = seqs[p].in_flight_generation
                 /\ seqs'[p].generation = seqs[p].generation
      BY <1>2, <1>8, <1>10, Zenon DEF SameProgress, s, t
    <2>2. InFlightIsNext  BY DEF AuthorityInv
    <2> QED  BY <1>9, <1>11, <2>1, <2>2 DEF InFlightIsNext
  <1>13. FormedHasBudget'
    <2>1. FormedHasBudget /\ GroupsTyped  BY TypeParts, Zenon DEF AuthorityInv
    <2> QED  BY <1>4, <1>11, <2>1, Zenon DEF FormedHasBudget, GroupsTyped
  <1>14. BudgetRespected'
    <2>1. ASSUME NEW p \in DOMAIN seqs'
          PROVE  /\ seqs'[p].generated = seqs'[p].req.pregenerated + seqs'[p].generation - 1
                 /\ seqs'[p].budget = seqs'[p].generated
                 /\ seqs'[p].generated <= seqs'[p].req.max_generation_length
      <3>1. p \in DOMAIN seqs /\ SameProgress(seqs[p], seqs'[p])  BY <1>9, <1>10, <2>1, Zenon
      <3>2. /\ seqs[p].generated = seqs[p].req.pregenerated + seqs[p].generation - 1
            /\ seqs[p].budget = seqs[p].generated
            /\ seqs[p].generated <= seqs[p].req.max_generation_length
        BY <3>1, Zenon DEF AuthorityInv, Authority, BudgetRespected
      <3> QED  BY <3>1, <3>2, Zenon DEF SameProgress
    <2> QED  BY <2>1, Zenon DEF BudgetRespected
  <1>15. GrantHasBudget'
    BY <1>7, <1>8, <1>9, <1>11, Zenon DEF AuthorityInv, Authority, GrantHasBudget, s
  <1>16. GrantIsCurrent'
    <2>1. ASSUME NEW p \in DOMAIN seqs, p # q, seqs[p].in_flight_grant # None
          PROVE  /\ seqs'[p] = seqs[p] /\ seqs[p].in_flight_grant \in DOMAIN ledger
                 /\ ledger'[seqs[p].in_flight_grant] = ledger[seqs[p].in_flight_grant]
      BY <1>4, <1>8, <2>1, Zenon DEF AuthorityInv, Authority, GrantIsCurrent
    <2>2. /\ t.in_flight_grant \in DOMAIN ledger' /\ ledger'[t.in_flight_grant] = Grant(pm)
          /\ t.generation = pm.generation /\ t.generated = pm.position
          /\ t.committed_digest # None => pm.pre = t.committed_digest
      BY <1>2, <1>4, <1>6, <1>7, Zenon DEF SameProgress
    <2> QED
      <3>1. ASSUME NEW p \in DOMAIN seqs', seqs'[p].in_flight_grant # None PROVE Current(p)'
        <4>1. CASE p = q
          BY <1>2, <1>5, <2>2, <4>1, Zenon DEF Current, t
        <4>2. CASE p # q
          <5>1. p \in DOMAIN seqs /\ seqs'[p] = seqs[p]  BY <1>8, <1>9, <3>1, <4>2, Zenon
          <5>2. Current(p)
            BY <3>1, <5>1, CurrentGrants, Zenon DEF AuthorityInv, Authority
          <5>3. /\ seqs[p].in_flight_grant \in DOMAIN ledger'
                /\ ledger'[seqs[p].in_flight_grant] = ledger[seqs[p].in_flight_grant]
            BY <1>4, <2>1, <3>1, <4>2, <5>1, Zenon
          <5> QED  BY <5>1, <5>2, <5>3, Zenon DEF Current
        <4> QED  BY <4>1, <4>2, Zenon
      <3> QED  BY <3>1, CurrentGrants, Zenon
  <1>17. LedgerOwned'
    BY <1>4, <1>5, <1>9, Zenon DEF AuthorityInv, Authority, LedgerOwned
  <1>18. \A p : Consumed(p)' = Consumed(p) /\ \A h \in Consumed(p) : ledger'[h] = ledger[h]
    BY <1>3, <1>4, <1>5 DEF Consumed
  <1>19. OneReceiptPerGeneration'
    BY <1>9, <1>10, <1>18, SMTT(30)
    DEF AuthorityInv, Authority, OneReceiptPerGeneration, SameProgress
  <1>20. ReceiptChain'
    <2>1. ASSUME NEW p \in DOMAIN seqs', NEW h \in Consumed(p)' PROVE Chained(p, h)'
      <3>1. /\ p \in DOMAIN seqs /\ h \in Consumed(p) /\ Consumed(p)' = Consumed(p)
            /\ \A k \in Consumed(p) : ledger'[k] = ledger[k]
        BY <1>9, <1>18, <2>1, Zenon
      <3>2. /\ seqs'[p].generation = seqs[p].generation /\ seqs'[p].accepted = seqs[p].accepted
            /\ seqs'[p].committed_digest = seqs[p].committed_digest
        BY <1>10, <3>1, Zenon DEF SameProgress
      <3>3. Chained(p, h)  BY <3>1, ChainedReceipts, Zenon DEF AuthorityInv, Authority
      <3> QED  BY <3>1, <3>2, <3>3, Zenon DEF Chained
    <2> QED  BY <2>1, ChainedReceipts, Zenon
  <1> QED
    BY <1>12, <1>13, <1>14, <1>15, <1>16, <1>17, <1>19, <1>20, Zenon DEF AuthorityInv, Authority

=============================================================================
