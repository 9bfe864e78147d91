--------------------------- MODULE StreamRefinement ---------------------------
(***************************************************************************)
(* DecodeFabric implements TokenStream.  The log of a sequence is read off *)
(* the grant ledger: entry k is the step of the consumed grant for         *)
(* generation k.  The stream has ended when the sequence is terminal.      *)
(***************************************************************************)
EXTENDS DecodeFabric, Sequences

\* The consumed grant that finalized generation k of sequence q.
ReceiptOf(q, k) == CHOOSE g \in Consumed(q) : ledger[g].generation = k
LogEntry(q, k) == [pre |-> ledger[ReceiptOf(q, k)].pre, post |-> ledger[ReceiptOf(q, k)].post]

StreamOf(q) ==
  IF q \notin DOMAIN seqs THEN [phase |-> "unopened", allowance |-> 0, log |-> <<>>]
  ELSE [phase     |-> IF IsTerminal(seqs[q].state) THEN "ended" ELSE "open",
        allowance |-> seqs[q].req.max_generation_length - seqs[q].req.pregenerated,
        log       |-> [k \in 1 .. seqs[q].generation - 1 |-> LogEntry(q, k)]]

stream == [q \in SequenceIds |-> StreamOf(q)]

Streams == INSTANCE TokenStream WITH Ids <- SequenceIds, stream <- stream

\* The fabric, with any executor and any network, is an append-only token stream per sequence:
\* whatever is lost, repeated, reordered, cancelled, retried or restarted, a decode step enters
\* the log of its sequence once, continues from the step before it, is never withdrawn or
\* replaced, stays within the budget, and nothing enters the log of an ended sequence.
ImplementsTokenStream == Streams!Spec

=============================================================================
