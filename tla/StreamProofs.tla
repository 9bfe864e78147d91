---------------------------- MODULE StreamProofs ----------------------------
(***************************************************************************)
(* DecodeFabric implements TokenStream, for every set of requests,         *)
(* workers, boots and digests: every step of the fabric is, for each       *)
(* sequence, a step of its stream or no step at all.                       *)
(***************************************************************************)
EXTENDS StreamRefinement, AuthorityProofs

-----------------------------------------------------------------------------
(* The log *)

Found(q, k) == ReceiptOf(q, k) \in Consumed(q) /\ ledger[ReceiptOf(q, k)].generation = k

\* Every generation a sequence has left behind has its receipt, now and after a step.
LEMMA ReceiptsFound ==
  /\ AuthorityInv =>
       \A q \in DOMAIN seqs : \A k \in 1 .. seqs[q].generation - 1 : Found(q, k)
  /\ AuthorityInv' =>
       \A q \in DOMAIN seqs' : \A k \in 1 .. seqs'[q].generation - 1 : Found(q, k)'
  <1>1. ASSUME AuthorityInv, NEW q \in DOMAIN seqs, NEW k \in 1 .. seqs[q].generation - 1
        PROVE  Found(q, k)
    <2>1. \E g \in Consumed(q) : ledger[g].generation = k
      <3>1. k \in {ledger[g].generation : g \in Consumed(q)}
        BY <1>1, Zenon DEF AuthorityInv, Authority, OneReceiptPerGeneration
      <3> QED  BY <3>1, Zenon
    <2> QED  BY <2>1, Zenon DEF Found, ReceiptOf
  <1>2. ASSUME AuthorityInv', NEW q \in DOMAIN seqs', NEW k \in 1 .. seqs'[q].generation - 1
        PROVE  Found(q, k)'
    <2>1. \E g \in Consumed(q)' : ledger'[g].generation = k
      <3>1. k \in {ledger'[g].generation : g \in Consumed(q)'}
        BY <1>2, Zenon DEF AuthorityInv, Authority, OneReceiptPerGeneration
      <3> QED  BY <3>1, Zenon
    <2> QED  BY <2>1, Zenon DEF Found, ReceiptOf
  <1> QED  BY <1>1, <1>2, Zenon

\* A receipt that is still consumed after a step, for the same generation, is still the one
\* the log shows: entries are never replaced.
LEMMA EntryKept ==
  ASSUME AuthorityInv, AuthorityInv', NEW q \in DOMAIN seqs, q \in DOMAIN seqs',
         NEW k \in 1 .. seqs[q].generation - 1, k \in 1 .. seqs'[q].generation - 1,
         Consumed(q) \subseteq Consumed(q)',
         \A g \in Consumed(q) :
           /\ ledger'[g].generation = ledger[g].generation
           /\ ledger'[g].pre = ledger[g].pre /\ ledger'[g].post = ledger[g].post
  PROVE  LogEntry(q, k)' = LogEntry(q, k)
  <1> DEFINE g == ReceiptOf(q, k)
             h == ReceiptOf(q, k)'
  <1>1. g \in Consumed(q) /\ ledger[g].generation = k  BY ReceiptsFound, Zenon DEF Found
  <1>2. h \in Consumed(q)' /\ ledger'[h].generation = k  BY ReceiptsFound, Zenon DEF Found
  <1>3. g \in Consumed(q)' /\ ledger'[g].generation = k  BY <1>1, Zenon
  <1>4. h = g
    BY <1>2, <1>3, Zenon DEF AuthorityInv, Authority, OneReceiptPerGeneration
  <1> QED  BY <1>1, <1>4, Zenon DEF LogEntry

\* The log has one entry per generation left behind.
LEMMA LogLength ==
  /\ AuthorityInv => \A q \in DOMAIN seqs : Len(StreamOf(q).log) = seqs[q].generation - 1
  /\ AuthorityInv' => \A q \in DOMAIN seqs' : Len(StreamOf(q)'.log) = seqs'[q].generation - 1
  <1>1. ASSUME NEW n \in Nat \ {0}, NEW f, f = [k \in 1 .. n - 1 |-> f[k]] PROVE Len(f) = n - 1
    BY <1>1
  <1>2. ASSUME AuthorityInv, NEW q \in DOMAIN seqs
        PROVE  Len(StreamOf(q).log) = seqs[q].generation - 1
    <2>1. seqs[q] \in SeqRecords  BY <1>2, TypeParts, Zenon DEF AuthorityInv, SeqsTyped
    <2>2. seqs[q].generation \in Nat \ {0}  BY <2>1, SeqElim, Zenon DEF Typed
    <2>3. StreamOf(q).log = [k \in 1 .. seqs[q].generation - 1 |-> StreamOf(q).log[k]]
      BY <1>2, Zenon DEF StreamOf
    <2> QED  BY <1>1, <2>2, <2>3, Zenon
  <1>3. ASSUME AuthorityInv', NEW q \in DOMAIN seqs'
        PROVE  Len(StreamOf(q)'.log) = seqs'[q].generation - 1
    <2>1. seqs'[q] \in SeqRecords  BY <1>3, TypeParts, Zenon DEF AuthorityInv, SeqsTyped
    <2>2. seqs'[q].generation \in Nat \ {0}  BY <2>1, SeqElim, Zenon DEF Typed
    <2>3. StreamOf(q)'.log = [k \in 1 .. seqs'[q].generation - 1 |-> StreamOf(q)'.log[k]]
      BY <1>3, Zenon DEF StreamOf
    <2> QED  BY <1>1, <2>2, <2>3, Zenon
  <1> QED  BY <1>2, <1>3, Zenon

-----------------------------------------------------------------------------
(* Steps *)

\* q is finalized no generation: its receipts and its progress stay as they are.
NoReceipt(q) ==
  /\ q \in DOMAIN seqs'
  /\ SameProgress(seqs[q], seqs'[q])
  /\ IsTerminal(seqs[q].state) => seqs'[q].state = seqs[q].state
  /\ Consumed(q)' = Consumed(q)
  /\ \A g \in Consumed(q) : ledger'[g] = ledger[g]

Moves(q) ==
  \/ StreamOf(q)' = StreamOf(q)
  \/ Streams!Open(StreamOf(q), StreamOf(q)')
  \/ Streams!Emit(StreamOf(q), StreamOf(q)')
  \/ Streams!End(StreamOf(q), StreamOf(q)')

\* Without a receipt the stream stays, or ends.
LEMMA KeptMoves ==
  ASSUME AuthorityInv, AuthorityInv', NEW q \in DOMAIN seqs, NoReceipt(q)
  PROVE  Moves(q)
  <1> DEFINE n == seqs[q].generation - 1
             log == [k \in 1 .. n |-> LogEntry(q, k)]
             allowance == seqs[q].req.max_generation_length - seqs[q].req.pregenerated
             rec(phase) == [phase |-> phase, allowance |-> allowance, log |-> log]
  <1>1. /\ q \in DOMAIN seqs' /\ seqs'[q].generation = seqs[q].generation
        /\ seqs'[q].req = seqs[q].req
        /\ Consumed(q) \subseteq Consumed(q)'
        /\ \A g \in Consumed(q) : ledger'[g] = ledger[g]
    BY Zenon DEF NoReceipt, SameProgress
  <1>2. \A k \in 1 .. n : LogEntry(q, k)' = LogEntry(q, k)  BY <1>1, EntryKept, Zenon
  <1>3. [k \in 1 .. n |-> LogEntry(q, k)'] = log  BY <1>2, Zenon
  <1>4. StreamOf(q) = rec(IF IsTerminal(seqs[q].state) THEN "ended" ELSE "open")
    BY Zenon DEF StreamOf
  <1>5. StreamOf(q)' = rec(IF IsTerminal(seqs'[q].state) THEN "ended" ELSE "open")
    BY <1>1, <1>3, Zenon DEF StreamOf
  <1> HIDE DEF log, allowance
  <1>6. CASE IsTerminal(seqs[q].state) <=> IsTerminal(seqs'[q].state)
    BY <1>4, <1>5, <1>6, Zenon DEF Moves
  <1>7. CASE ~IsTerminal(seqs[q].state) /\ IsTerminal(seqs'[q].state)
    <2>1. StreamOf(q) = rec("open") /\ StreamOf(q)' = rec("ended")  BY <1>4, <1>5, <1>7, Zenon
    <2>2. rec("open").phase = "open" /\ rec("ended") = [rec("open") EXCEPT !.phase = "ended"]
      OBVIOUS
    <2> HIDE DEF rec
    <2> QED  BY <2>1, <2>2, Zenon DEF Moves, Streams!End
  <1> QED  BY <1>6, <1>7, Zenon DEF NoReceipt

\* apply_commit_receipt appends one entry to the log of its sequence, which continues from the
\* entry before it and is within the allowance.
LEMMA ReceiptMoves ==
  ASSUME AuthorityInv, AuthorityInv', NEW gid \in DOMAIN ledger,
         ApplyCommitReceipt(gid, ledger[gid]), NEW q, q = ledger[gid].sequence
  PROVE  Moves(q)
  <1>0. PICK n : n = seqs[q].generation - 1  OBVIOUS
  <1> DEFINE a == StreamOf(q)
             b == StreamOf(q)'
  <1>1. TypeOK  BY Zenon DEF AuthorityInv
  <1>2. /\ q \in DOMAIN seqs /\ q \in DOMAIN seqs' /\ ~IsTerminal(seqs[q].state)
        /\ seqs'[q].generation = seqs[q].generation + 1 /\ seqs'[q].req = seqs[q].req
        /\ seqs[q] \in SeqRecords
    BY <1>1, ReceiptSeqs, TypeParts, Zenon DEF WasFinalized, OthersKept, SeqsTyped
  <1>3. ledger' = [ledger EXCEPT ![gid].status = "consumed"]
    BY Zenon DEF ApplyCommitReceipt
  <1>4. \A g \in DOMAIN ledger : ledger[g] \in GrantRecords
    BY <1>1, TypeParts, Zenon DEF LedgerTyped
  <1>5. \A g \in DOMAIN ledger :
          /\ ledger'[g].generation = ledger[g].generation
          /\ ledger'[g].sequence = ledger[g].sequence
          /\ ledger'[g].pre = ledger[g].pre /\ ledger'[g].post = ledger[g].post
          /\ ledger'[g].status = IF g = gid THEN "consumed" ELSE ledger[g].status
    BY <1>3, <1>4 DEF GrantRecords
  <1>6. DOMAIN ledger' = DOMAIN ledger  BY <1>3, Zenon
  <1>7. Consumed(q) \subseteq Consumed(q)' /\ Consumed(q) \subseteq DOMAIN ledger
    BY <1>5, <1>6, Zenon DEF Consumed
  <1>8. seqs[q].generation \in Nat \ {0} /\ n \in Nat /\ seqs'[q].generation - 1 = n + 1
    <2>1. seqs[q].generation \in Nat \ {0}  BY <1>2, SeqElim, Zenon DEF Typed
    <2> QED  BY <1>0, <1>2, <2>1
  <1>9. /\ a = [phase |-> "open", log |-> [k \in 1 .. n |-> LogEntry(q, k)],
                allowance |-> seqs[q].req.max_generation_length - seqs[q].req.pregenerated]
        /\ b = [phase |-> IF IsTerminal(seqs'[q].state) THEN "ended" ELSE "open",
                log |-> [k \in 1 .. n + 1 |-> LogEntry(q, k)'],
                allowance |-> seqs[q].req.max_generation_length - seqs[q].req.pregenerated]
    BY <1>0, <1>2, <1>8 DEF StreamOf
  <1>10. /\ a.phase = "open" /\ b.phase \in {"open", "ended"} /\ b.allowance = a.allowance
         /\ a.allowance = seqs[q].req.max_generation_length - seqs[q].req.pregenerated
         /\ \A k \in 1 .. n : a.log[k] = LogEntry(q, k)
         /\ \A k \in 1 .. n + 1 : b.log[k] = LogEntry(q, k)'
    BY <1>9
  <1>11. Len(a.log) = n /\ Len(b.log) = n + 1
    <2>1. Len(b.log) = seqs'[q].generation - 1  BY <1>2, LogLength, Zenon
    <2> QED  BY <1>0, <1>2, <1>8, <2>1, LogLength, Zenon
  <1>12. n + 1 <= a.allowance
    <2>1. /\ seqs'[q].generated = seqs'[q].req.pregenerated + seqs'[q].generation - 1
          /\ seqs'[q].generated <= seqs'[q].req.max_generation_length
      BY <1>2, Zenon DEF AuthorityInv, Authority, BudgetRespected
    <2>2. seqs[q].req \in Requests  BY <1>2, SeqElim, Zenon DEF Typed
    <2>3. seqs[q].req.pregenerated \in Nat /\ seqs[q].req.max_generation_length \in Nat
      BY <2>2, RequestsAssumption, Zenon
    <2> QED  BY <1>2, <1>8, <1>10, <2>1, <2>3
  <1>13. \A k \in 1 .. n : b.log[k] = a.log[k]
    <2>1. SUFFICES ASSUME NEW k \in 1 .. n PROVE LogEntry(q, k)' = LogEntry(q, k)
      BY <1>8, <1>10
    <2>2. k \in 1 .. seqs'[q].generation - 1  BY <1>8
    <2>3. \A g \in Consumed(q) :
            /\ ledger'[g].generation = ledger[g].generation
            /\ ledger'[g].pre = ledger[g].pre /\ ledger'[g].post = ledger[g].post
      BY <1>5, <1>7, Zenon
    <2> QED  BY <1>0, <1>2, <1>7, <2>2, <2>3, EntryKept, Zenon
  <1>14. n > 0 => b.log[n + 1].pre = a.log[n].post
    <2> HIDE DEF a, b
    <2>1. SUFFICES ASSUME n > 0 PROVE LogEntry(q, n + 1)'.pre = LogEntry(q, n)'.post
      <3>1. ASSUME n > 0 PROVE n \in 1 .. n /\ n \in 1 .. n + 1 /\ n + 1 \in 1 .. n + 1
        BY <1>8, <3>1
      <3> QED  BY <1>10, <1>13, <3>1, Zenon
    <2> DEFINE g == ReceiptOf(q, n)'
               h == ReceiptOf(q, n + 1)'
    <2>2. n \in 1 .. seqs'[q].generation - 1 /\ n + 1 \in 1 .. seqs'[q].generation - 1
      BY <1>8, <2>1
    <2>3. /\ g \in Consumed(q)' /\ ledger'[g].generation = n
          /\ h \in Consumed(q)' /\ ledger'[h].generation = n + 1
      BY <1>2, <2>2, ReceiptsFound, Zenon DEF Found
    <2> HIDE DEF g, h
    <2>4. ledger'[h].pre = ledger'[g].post
      <3>1. \A x, y \in Consumed(q)' :
              ledger'[y].generation = ledger'[x].generation + 1 => ledger'[y].pre = ledger'[x].post
        BY <1>2, Zenon DEF AuthorityInv, Authority, ReceiptChain
      <3> QED  BY <2>3, <3>1, Zenon
    <2>5. LogEntry(q, n + 1)' = [pre |-> ledger'[h].pre, post |-> ledger'[h].post]
      BY Zenon DEF LogEntry, h
    <2>6. LogEntry(q, n)' = [pre |-> ledger'[g].pre, post |-> ledger'[g].post]
      BY Zenon DEF LogEntry, g
    <2> QED  BY <2>4, <2>5, <2>6
  <1> HIDE DEF a, b
  <1>15. Streams!Emit(a, b)
    BY <1>10, <1>11, <1>12, <1>13, <1>14, Zenon DEF Streams!Emit
  <1> QED  BY <1>15, Zenon DEF Moves, a, b

\* A ledger that only gains pending grants and loses none that is consumed shows the same
\* receipts.
LEMMA SameReceipts ==
  ASSUME DOMAIN ledger \subseteq DOMAIN ledger',
         \A g \in DOMAIN ledger' : ledger'[g].status = "consumed" => g \in DOMAIN ledger,
         \A g \in DOMAIN ledger : ledger'[g] # ledger[g] =>
           ledger[g].status # "consumed" /\ ledger'[g].status # "consumed",
         NEW q
  PROVE  Consumed(q)' = Consumed(q) /\ \A g \in Consumed(q) : ledger'[g] = ledger[g]
  <1>1. \A g \in Consumed(q) : ledger'[g] = ledger[g] /\ g \in Consumed(q)'
    BY Zenon DEF Consumed
  <1>2. \A g \in Consumed(q)' : g \in Consumed(q)  BY Zenon DEF Consumed
  <1> QED  BY <1>1, <1>2, Zenon

\* A step moves every sequence there was by a receipt, or by none.
LEMMA StepMoves ==
  ASSUME AuthorityInv, AuthorityInv', [Next]_vars, NEW q \in DOMAIN seqs
  PROVE  Moves(q)
  <1>1. TypeOK  BY Zenon DEF AuthorityInv
  <1>2. ASSUME ledger' = ledger
        PROVE  Consumed(q)' = Consumed(q) /\ \A g \in Consumed(q) : ledger'[g] = ledger[g]
    BY <1>2, Zenon DEF Consumed
  <1>3. ASSUME ledger' = ledger, QuietStep PROVE Moves(q)
    BY <1>2, <1>3, KeptMoves, Zenon DEF QuietStep, Quiet, NoReceipt
  <1>4. CASE \E tn \in Times : Schedule(tn)
    BY <1>1, <1>3, <1>4, ScheduleQuiet, Zenon DEF Schedule
  <1>5. CASE \E req \in Requests : Submit(req)
    <2>1. ledger' = ledger /\ q \in DOMAIN seqs' /\ seqs'[q] = seqs[q]  BY <1>5, Zenon DEF Submit
    <2> QED  BY <1>2, <2>1, KeptMoves, Zenon DEF NoReceipt, SameProgress
  <1>6. CASE \E g \in formed, w \in Workers : DispatchGroup(g, w)
    <2>1. ledger' = ledger /\ q \in DOMAIN seqs'  BY <1>6, Zenon DEF DispatchGroup
    <2> QED  BY <1>1, <1>2, <1>6, <2>1, DispatchKeeps, KeptMoves, Zenon DEF NoReceipt
  <1>7. CASE \E pm : IssueStep(pm)
    <2>1. PICK pm : IssueStep(pm)  BY <1>7, Zenon
    <2>2. next_grant \notin DOMAIN ledger  BY <1>1, TypeParts DEF LedgerTyped
    <2>3. /\ DOMAIN ledger' = DOMAIN ledger \cup {next_grant}
          /\ \A g \in DOMAIN ledger : ledger'[g] = ledger[g]
          /\ ledger'[next_grant].status = "pending"
      BY <2>1, <2>2, Zenon DEF IssueStep, IssueGrant, Grant
    <2>4. \A g \in DOMAIN ledger' : ledger'[g].status = "consumed" => g \in DOMAIN ledger
      BY <2>3
    <2>5. Consumed(q)' = Consumed(q) /\ \A g \in Consumed(q) : ledger'[g] = ledger[g]
      BY <2>3, <2>4, SameReceipts, Zenon
    <2>6. /\ OthersKept(pm.sequence)
          /\ SameProgress(seqs[pm.sequence], seqs'[pm.sequence])
          /\ seqs'[pm.sequence].state = seqs[pm.sequence].state
      BY <1>1, <2>1, IssueSeqs, Zenon DEF IssueStep, WasGranted
    <2> QED  BY <2>5, <2>6, KeptMoves, Zenon DEF OthersKept, NoReceipt, SameProgress
  <1>8. CASE \E gid \in DOMAIN ledger : ApplyCommitReceipt(gid, ledger[gid])
    <2>1. PICK gid \in DOMAIN ledger : ApplyCommitReceipt(gid, ledger[gid])  BY <1>8, Zenon
    <2>2. CASE q = ledger[gid].sequence  BY <2>1, <2>2, ReceiptMoves, Zenon
    <2>3. CASE q # ledger[gid].sequence
      <3>1. seqs'[q] = seqs[q] /\ q \in DOMAIN seqs'
        BY <1>1, <2>1, <2>3, ReceiptSeqs, Zenon DEF OthersKept
      <3>2. ledger' = [ledger EXCEPT ![gid].status = "consumed"]
        BY <2>1, Zenon DEF ApplyCommitReceipt
      <3>3. ledger[gid] \in GrantRecords  BY <1>1, <2>1, TypeParts, Zenon DEF LedgerTyped
      <3>4. ledger'[gid].sequence = ledger[gid].sequence
        BY <3>2, <3>3 DEF GrantRecords
      <3>5. /\ DOMAIN ledger' = DOMAIN ledger
            /\ \A g \in DOMAIN ledger : g # gid => ledger'[g] = ledger[g]
        BY <3>2, Zenon
      <3>6. Consumed(q)' = Consumed(q) /\ \A g \in Consumed(q) : ledger'[g] = ledger[g]
        BY <2>3, <3>4, <3>5, Zenon DEF Consumed
      <3> QED  BY <3>1, <3>6, KeptMoves, Zenon DEF NoReceipt, SameProgress
    <2> QED  BY <2>2, <2>3, Zenon
  <1>9. CASE \E p \in DOMAIN seqs, pr \in Proposals : AbortPrepared(p, pr)
    <2>1. PICK p \in DOMAIN seqs, pr \in Proposals : AbortPrepared(p, pr)  BY <1>9, Zenon
    <2>2. QuietStep  BY <1>1, <2>1, AbortPreparedQuiet, Zenon
    <2>3. /\ DOMAIN ledger' = DOMAIN ledger
          /\ \A g \in DOMAIN ledger : ledger'[g] # ledger[g] =>
               ledger[g].status = "pending" /\ ledger'[g] = [ledger[g] EXCEPT !.status = "aborted"]
      BY <1>1, <2>1, AbortLedger, Zenon
    <2>4. \A g \in DOMAIN ledger : [ledger[g] EXCEPT !.status = "aborted"].status = "aborted"
      <3>1. \A g \in DOMAIN ledger : ledger[g] \in GrantRecords
        BY <1>1, TypeParts, Zenon DEF LedgerTyped
      <3> QED  BY <3>1, Zenon DEF GrantRecords
    <2>5. \A g \in DOMAIN ledger : ledger'[g] # ledger[g] =>
            ledger[g].status # "consumed" /\ ledger'[g].status # "consumed"
      BY <2>3, <2>4
    <2>6. Consumed(q)' = Consumed(q) /\ \A g \in Consumed(q) : ledger'[g] = ledger[g]
      BY <2>3, <2>5, SameReceipts, Zenon
    <2> QED  BY <2>2, <2>6, KeptMoves, Zenon DEF QuietStep, Quiet, NoReceipt
  <1> QED  BY <1>1, <1>3, <1>4, <1>5, <1>6, <1>7, <1>8, <1>9, StepKinds, Zenon

\* submit opens the stream of its sequence, with the tokens the request leaves to be generated
\* as allowance; nothing else opens one.
LEMMA OpenMoves ==
  ASSUME AuthorityInv, AuthorityInv', [Next]_vars, NEW q, q \notin DOMAIN seqs
  PROVE  Moves(q)
  <1>1. TypeOK  BY Zenon DEF AuthorityInv
  <1>2. ASSUME q \notin DOMAIN seqs' PROVE Moves(q)  BY <1>2, Zenon DEF Moves, StreamOf
  <1>3. CASE \E req \in Requests : Submit(req)
    <2>1. PICK req \in Requests : Submit(req)  BY <1>3, Zenon
    <2>2. /\ seqs' = [p \in DOMAIN seqs \cup {req.sequence} |->
                        IF p = req.sequence THEN NewSeq(req) ELSE seqs[p]]
          /\ req.pregenerated <= req.max_generation_length
      BY <2>1, Zenon DEF Submit, ValidRequest
    <2>3. CASE q # req.sequence  BY <1>2, <2>2, <2>3, Zenon
    <2>4. CASE q = req.sequence
      <3>1. q \in DOMAIN seqs' /\ seqs'[q] = NewSeq(req)  BY <2>2, <2>4, Zenon
      <3>2. NewSeq(req).req = req /\ NewSeq(req).generation = 1 /\ ~IsTerminal(NewSeq(req).state)
        BY DEF NewSeq, TransitionVia, TransitionTo, CanTransition, IsTerminal, TerminalStates
      <3> DEFINE b == StreamOf(q)'
      <3>3. /\ b.phase = "open" /\ b.log = [k \in 1 .. 0 |-> LogEntry(q, k)']
            /\ b.allowance = req.max_generation_length - req.pregenerated
        BY <3>1, <3>2 DEF StreamOf
      <3>4. req.max_generation_length \in Nat /\ req.pregenerated \in Nat
        BY RequestsAssumption, Zenon
      <3>5. b.allowance \in Nat  BY <2>2, <3>3, <3>4
      <3>6. b.log = <<>>
        <4>1. 1 .. 0 = {}  OBVIOUS
        <4> HIDE DEF b
        <4> QED  BY <3>3, <4>1
      <3>7. StreamOf(q) = Streams!Unopened  BY Zenon DEF StreamOf, Streams!Unopened
      <3> QED  BY <3>3, <3>5, <3>6, <3>7, Zenon DEF Moves, Streams!Open
    <2> QED  BY <2>3, <2>4, Zenon
  <1>4. CASE ~\E req \in Requests : Submit(req)
    <2>1. ASSUME QuietStep PROVE Moves(q)  BY <1>2, <2>1, Zenon DEF QuietStep
    <2>2. CASE \E tn \in Times : Schedule(tn)  BY <1>1, <2>1, <2>2, ScheduleQuiet, Zenon
    <2>3. CASE \E g \in formed, w \in Workers : DispatchGroup(g, w)
      BY <1>2, <2>3, Zenon DEF DispatchGroup
    <2>4. CASE \E pm : IssueStep(pm)  BY <1>2, <2>4, Zenon DEF IssueStep, IssueGrant
    <2>5. CASE \E gid \in DOMAIN ledger : ApplyCommitReceipt(gid, ledger[gid])
      BY <1>2, <2>5, Zenon DEF ApplyCommitReceipt
    <2>6. CASE \E p \in DOMAIN seqs, pr \in Proposals : AbortPrepared(p, pr)
      BY <1>1, <2>1, <2>6, AbortPreparedQuiet, Zenon
    <2> QED  BY <1>1, <1>4, <2>1, <2>2, <2>3, <2>4, <2>5, <2>6, StepKinds, Zenon
  <1> QED  BY <1>3, <1>4, Zenon

-----------------------------------------------------------------------------
(* The refinement *)

\* The fabric implements the token stream: submit opens a stream, apply_commit_receipt appends
\* to its log, the handlers that end a sequence end it, and every other handler, with whatever
\* answer, receipt, death, retry or cancellation, leaves it as it is.
THEOREM FabricImplementsStream == Spec => ImplementsTokenStream
  <1>1. ASSUME Init PROVE Streams!Init
    <2>1. DOMAIN seqs = {}  BY <1>1, Zenon DEF Init
    <2> QED  BY <2>1, Zenon DEF Streams!Init, Streams!Unopened, stream, StreamOf
  <1>2. ASSUME AuthorityInv, AuthorityInv', [Next]_vars PROVE Streams!Next
    <2>1. \A q \in SequenceIds : Moves(q)  BY <1>2, StepMoves, OpenMoves, Zenon
    <2>2. \A q \in SequenceIds : stream[q] = StreamOf(q) /\ stream'[q] = StreamOf(q)'
      BY Zenon DEF stream
    <2> QED  BY <2>1, <2>2, Zenon DEF Streams!Next, Moves
  <1> QED
    BY <1>1, <1>2, AuthorityInvariant, PTL DEF Spec, ImplementsTokenStream, Streams!Spec

=============================================================================
