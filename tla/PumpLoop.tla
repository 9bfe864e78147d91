------------------------------ MODULE PumpLoop ------------------------------
(***************************************************************************)
(* One process that embeds the fabric: a thread in pump_until_idle drives  *)
(* a CudaDecodeExecutor through prepare, authorize, commit and receipt;    *)
(* other threads submit and cancel; a thread saves the fabric's state      *)
(* (serialize_state, FilePersistence::write).  The process may be killed   *)
(* at any moment; the next one starts with a new fabric and executor and   *)
(* what recover_state makes of the record on disk.                         *)
(*                                                                         *)
(* The lock of the fabric is released between the calls of pump_once, so   *)
(* every call is a step of its own.                                        *)
(***************************************************************************)
EXTENDS DecodeFabric, CudaExecutor

CONSTANTS
  WorkerBoot,          \* worker id -> the boot id it registers with
  MaxFaults,           \* bound of the model: CUDA and file calls that fail, new epochs
  MaxRestarts          \* bound of the model: times the process is killed

VARIABLES
  pc,                  \* where pump_until_idle is
  todo,                \* dispatches of this pump_once still to be driven
  members,             \* of the dispatch being driven: members still to be handled
  decisions,           \* grants and aborts still to be carried out
  receipts,            \* receipts collected for apply_commit_receipt
  scheduled,           \* whether schedule returned any dispatch in this pump_once
  executor,
  record,              \* the file of the saved state: an image, Torn or NoImage
  temp,                \* the temporary file a save writes first
  saver,               \* where FilePersistence::write is
  saved,               \* whether a save has returned success (history)
  faults, restarts

pump == <<pc, todo, members, decisions, receipts, scheduled, executor>>
disk == <<record, temp, saver, saved>>
counts == <<faults, restarts>>
pumpVars == <<vars, pump, disk, counts>>

NoImage == [torn |-> FALSE]
Torn == [torn |-> TRUE]
Whole(file) == file \notin {NoImage, Torn}

Fault(fault) ==
  IF fault = "none" THEN UNCHANGED faults
  ELSE faults < MaxFaults /\ faults' = faults + 1

-----------------------------------------------------------------------------
(* pump_once *)

Goto(label) == pc' = label

StartPump ==
  /\ pc = "idle"
  /\ Goto("advance")
  /\ UNCHANGED <<vars, todo, members, decisions, receipts, scheduled, executor, disk, counts>>

PumpAdvance ==
  /\ pc = "advance"
  /\ \E tn \in Times : Advance(tn)
  /\ Goto("schedule")
  /\ UNCHANGED <<todo, members, decisions, receipts, scheduled, executor, disk, counts>>

PumpSchedule ==
  /\ pc = "schedule"
  /\ \E tn \in Times : Schedule(tn)
  /\ Goto("place")
  /\ scheduled' = FALSE
  /\ UNCHANGED <<todo, members, decisions, receipts, executor, disk, counts>>

ExecuteRequest(q, w) ==
  MemberSpec(q, w) @@
    [generated |-> seqs[q].generated,
     remaining |-> seqs[q].req.max_generation_length - seqs[q].budget]

\* The groups schedule formed, still under its lock.
PumpPlace(g) ==
  /\ pc = "place"
  /\ \/ RevertGroup(g) /\ UNCHANGED <<todo, scheduled>>
     \/ \E w \in Workers :
          /\ DispatchGroup(g, w)
          /\ todo' = Append(todo, SetToSeq({ExecuteRequest(q, w) : q \in g.members}))
          /\ scheduled' = TRUE
  /\ UNCHANGED <<pc, members, decisions, receipts, executor, disk, counts>>

PumpPrepare ==
  /\ pc = "place" /\ Unlocked /\ todo # <<>>
  /\ todo' = Tail(todo)
  /\ UNCHANGED <<vars, decisions, receipts, scheduled, disk, restarts>>
  /\ \E q \in SequenceIds, f \in PrepareFaults :
       /\ Fault(f)
       /\ \E r \in {DevicePrepare(executor, Head(todo), [p \in SequenceIds |->
                                                          IF p = q THEN f ELSE "none"])} :
            /\ executor' = r.executor
            /\ IF r.ok THEN members' = r.members /\ Goto("authorize")
                       ELSE members' = Head(todo) /\ Goto("fail")

\* A failed prepare is reported as a retryable failure of every member.
PumpFail ==
  /\ pc = "fail"
  /\ members # <<>>
  /\ LET m == Head(members)
     IN \/ CompleteOldEpoch(m)
        \/ CompleteCancelled(m)
        \/ CompleteNonCommit(m, "RetryableFailure")
        \/ /\ ~(m.sequence \in DOMAIN seqs /\ m.epoch # epoch)
           /\ ~CompletionCurrent(m)
           /\ UNCHANGED vars
  /\ members' = Tail(members)
  /\ IF Len(members) = 1 THEN Goto("place") ELSE UNCHANGED pc
  /\ UNCHANGED <<todo, decisions, receipts, scheduled, executor, disk, counts>>

\* authorize_prepared of the next member.
Decided(pm) ==
  IF AuthorityCurrent(seqs[pm.sequence], pm) /\ BindingValid(seqs[pm.sequence], pm)
  THEN [granted |-> TRUE, id |-> next_grant, grant |-> Grant(pm)]
  ELSE [granted |-> FALSE, sequence |-> pm.sequence, proposal |-> pm.proposal]
PumpAuthorize ==
  /\ pc = "authorize"
  /\ members # <<>>
  /\ AuthorizeStale(Head(members)) \/ AuthorizeStep(Head(members))
  /\ decisions' = Append(decisions, Decided(Head(members)))
  /\ members' = Tail(members)
  /\ IF Len(members) = 1 THEN Goto("commit") ELSE UNCHANGED pc
  /\ UNCHANGED <<todo, receipts, scheduled, executor, disk, counts>>

\* Commit or abort the next member.  A commit that fails is not aborted: a granted member
\* carries no abort.
PumpCommit ==
  /\ pc = "commit"
  /\ decisions # <<>>
  /\ LET d == Head(decisions)
     IN \/ /\ d.granted
           /\ \E fault \in {"none", "commit"} :
                LET r == DeviceCommit(executor, d.id, d.grant, fault)
                IN /\ Fault(fault)
                   /\ executor' = r.executor
                   /\ receipts' = IF r.ok THEN Append(receipts, d) ELSE receipts
        \/ /\ ~d.granted
           /\ \E fault \in {"none", "begin"} :
                /\ Fault(fault)
                /\ executor' = DeviceAbort(executor, d.sequence, d.proposal, fault)
           /\ UNCHANGED receipts
  /\ decisions' = Tail(decisions)
  /\ IF Len(decisions) = 1 THEN Goto("finalize") ELSE UNCHANGED pc
  /\ UNCHANGED <<vars, todo, members, scheduled, disk, restarts>>

\* apply_commit_receipt, then the next dispatch.
PumpFinalize ==
  /\ pc = "finalize"
  /\ IF receipts = <<>> THEN UNCHANGED <<vars, receipts>>
     ELSE /\ LET r == Head(receipts)
             IN \/ ApplyCommitReceipt(r.id, r.grant)
                \/ ~ReceiptApplies(r.id, r.grant) /\ Unlocked /\ UNCHANGED vars
          /\ receipts' = Tail(receipts)
  /\ IF Len(receipts) <= 1 THEN Goto("place") ELSE UNCHANGED pc
  /\ UNCHANGED <<todo, members, decisions, scheduled, executor, disk, counts>>

\* The end of a round of pump_until_idle: two looks at the candidates, each under the lock.
HasCandidate == \E q \in DOMAIN seqs : seqs[q].state \in CandidateStates
PumpCheck_AfterOne ==
  /\ pc = "place"
  /\ Unlocked
  /\ Goto(IF scheduled THEN "advance" ELSE IF HasCandidate THEN "recheck" ELSE "idle")
  /\ UNCHANGED <<vars, todo, members, decisions, receipts, scheduled, executor, disk, counts>>
PumpCheck_NeverIdle ==
  /\ pc = "place"
  /\ Unlocked
  /\ todo = <<>>
  /\ Goto(IF scheduled \/ ~HasCandidate THEN "advance" ELSE "recheck")
  /\ UNCHANGED <<vars, todo, members, decisions, receipts, scheduled, executor, disk, counts>>
PumpCheck ==
  /\ pc = "place"
  /\ Unlocked
  /\ todo = <<>>
  /\ Goto(IF scheduled THEN "advance" ELSE IF HasCandidate THEN "recheck" ELSE "idle")
  /\ UNCHANGED <<vars, todo, members, decisions, receipts, scheduled, executor, disk, counts>>
PumpRecheck ==
  /\ pc = "recheck"
  /\ Goto(IF HasCandidate THEN "idle" ELSE "advance")
  /\ UNCHANGED <<vars, todo, members, decisions, receipts, scheduled, executor, disk, counts>>

-----------------------------------------------------------------------------
(* Saving *)

\* serialize_state.  A sequence is saved without its in-flight authority, its reservation,
\* and the adapter, device constraint, attempt and token count it was submitted with.
SavedSeq(s) ==
  [s EXCEPT !.req = [@ EXCEPT !.adapter = None, !.device_constraint = None,
                              !.initial_attempt = 0, !.pregenerated = 0],
            !.has_inflight = FALSE, !.in_flight_dispatch = None, !.in_flight_worker = None,
            !.in_flight_generation = 0, !.in_flight_grant = None, !.in_flight_proposal = None,
            !.reservation = None]
Image ==
  [epoch |-> epoch, next_dispatch |-> next_dispatch,
   seqs |-> [q \in DOMAIN seqs |-> SavedSeq(seqs[q])], ledger |-> ledger]

\* FilePersistence::write: the temporary file, then a rename.  A write that fails ends it, but
\* what the stream holds back until it is closed may fail too, and nobody looks.  (A save after
\* the last restart of the model would never be read and is left out.)
WriteTemp_InPlace ==
  /\ saver = "idle"
  /\ restarts < MaxRestarts
  /\ Unlocked
  /\ temp' = Image
  /\ record' = Torn
  /\ saver' = "rename"
  /\ UNCHANGED <<vars, pump, saved, counts>>
WriteTemp ==
  /\ saver = "idle"
  /\ restarts < MaxRestarts
  /\ Unlocked
  /\ \/ temp' = Image /\ saver' = "rename" /\ UNCHANGED faults
     \/ temp' = Torn /\ saver' = "rename" /\ Fault("flush")
     \/ temp' = Torn /\ UNCHANGED saver /\ Fault("write")
  /\ UNCHANGED <<vars, pump, record, saved, restarts>>

RenameTemp ==
  /\ saver \in {"rename", "removed"}
  /\ record' = temp
  /\ temp' = NoImage
  /\ saver' = "idle"
  /\ saved' = TRUE
  /\ UNCHANGED <<vars, pump, counts>>

\* A rename that fails: the old record is removed and the rename tried again; the second
\* may fail for the same reason, and write returns the error.
RenameFails ==
  /\ \/ saver = "rename" /\ Fault("rename") /\ record' = NoImage /\ saver' = "removed"
     \/ saver = "removed" /\ saver' = "idle" /\ UNCHANGED <<record, faults>>
  /\ UNCHANGED <<vars, pump, temp, saved, restarts>>

-----------------------------------------------------------------------------
(* Restart and recovery *)

\* recover_state of one sequence.  The transition to Waiting is attempted for what was
\* running; the state machine has no edge from Dispatched, so it stays.
Recovered_NoDigest(s) ==
  [s EXCEPT !.committed_digest = None,
            !.state = IF @ \in InFlightStates THEN TransitionTo(@, "Waiting") ELSE @]
Recovered_NewBudget(s) ==
  [s EXCEPT !.budget = 0, !.state = IF @ \in InFlightStates THEN TransitionTo(@, "Waiting") ELSE @]
Recovered(s) ==
  [s EXCEPT !.state = IF @ \in InFlightStates \cup {"Reserved", "Grouped", "StepCompleted",
                                                    "Cancelled", "DeadlineExpired"}
                      THEN TransitionTo(@, "Waiting") ELSE @]

\* A pending grant is not revived.
RecoveredGrant(g) == [g EXCEPT !.status = IF @ = "pending" THEN "aborted" ELSE @]

\* Every sequence counts as active for its tenant, the terminal ones too; the grant and the
\* reservation counters start again; workers and memory are forgotten.
RecoverState(img) ==
  /\ epoch' = img.epoch
  /\ seqs' = [q \in DOMAIN img.seqs |-> Recovered(img.seqs[q])]
  /\ tenant_active' = [t \in Tenants |->
       Cardinality({q \in DOMAIN img.seqs : img.seqs[q].req.tenant = t}) % CounterMod]
  /\ ledger' = [g \in DOMAIN img.ledger |-> RecoveredGrant(img.ledger[g])]
  /\ next_dispatch' = img.next_dispatch

StartEmpty ==
  /\ epoch' = 1
  /\ seqs' = [q \in {} |-> 0]
  /\ tenant_active' = [t \in Tenants |-> 0]
  /\ ledger' = [g \in {} |-> 0]
  /\ next_dispatch' = 1

\* The process is killed and started again.  A record that is missing, or that the checksum
\* refuses, leaves the new fabric empty.
Restart ==
  /\ restarts < MaxRestarts
  /\ restarts' = restarts + 1
  /\ IF Whole(record) THEN RecoverState(record) ELSE StartEmpty
  /\ workers' = [w \in {} |-> 0]
  /\ dev_mem' = [d \in {} |-> 0]
  /\ reservations' = [r \in {} |-> 0]
  /\ next_reservation' = 1
  /\ next_grant' = 1
  /\ formed' = {}
  /\ issued' = {}
  /\ pc' = "idle"
  /\ todo' = <<>> /\ members' = <<>> /\ decisions' = <<>> /\ receipts' = <<>>
  /\ scheduled' = FALSE
  /\ executor' = NewExecutor
  /\ saver' = "idle"
  /\ UNCHANGED <<record, temp, saved, faults>>

-----------------------------------------------------------------------------
(* Specification *)

\* Each process registers its worker once.
RegisterOnce(w) == w \notin DOMAIN workers /\ RegisterWorker(w, WorkerBoot[w])

Client ==
  /\ \/ \E req \in Requests : Submit(req)
     \/ \E q \in DOMAIN seqs : CancelInFlight(q) \/ CancelNow(q)
  /\ UNCHANGED <<pump, disk, counts>>
NewEpoch == RollEpoch /\ Fault("epoch") /\ UNCHANGED <<pump, disk, restarts>>

PumpInit ==
  /\ Init
  /\ pc = "idle"
  /\ todo = <<>> /\ members = <<>> /\ decisions = <<>> /\ receipts = <<>>
  /\ scheduled = FALSE
  /\ executor = NewExecutor
  /\ record = NoImage /\ temp = NoImage /\ saver = "idle" /\ saved = FALSE
  /\ faults = 0 /\ restarts = 0

Setup == \E w \in Workers : RegisterOnce(w) /\ UNCHANGED <<pump, disk, counts>>

PumpThread ==
  \/ StartPump \/ PumpAdvance \/ PumpSchedule \/ \E g \in formed : PumpPlace(g)
  \/ PumpPrepare \/ PumpFail \/ PumpAuthorize \/ PumpCommit \/ PumpFinalize
  \/ PumpCheck \/ PumpRecheck

SaveThread == WriteTemp \/ RenameTemp \/ RenameFails

PumpNext == Setup \/ PumpThread \/ SaveThread \/ Restart \/ Client \/ NewEpoch

PumpSpec == PumpInit /\ [][PumpNext]_pumpVars

\* The pump thread keeps running and is started again when it has returned, and every process
\* registers its worker.  Clients, saves, faults and restarts are not obliged.
FairPumpSpec == PumpSpec /\ WF_pumpVars(PumpThread) /\ WF_pumpVars(Setup)

-----------------------------------------------------------------------------
(* Properties *)

Labels == {"idle", "advance", "schedule", "place", "fail", "authorize", "commit", "finalize",
           "recheck"}

\* What pump_once holds at each point.
PumpTypeOK ==
  /\ pc \in Labels
  /\ todo # <<>> => pc \in {"place", "fail", "authorize", "commit", "finalize"}
  /\ (members # <<>>) <=> (pc \in {"fail", "authorize"})
  /\ pc # "commit" => decisions = <<>> \/ pc = "authorize"
  /\ receipts # <<>> => pc \in {"commit", "finalize"}
  /\ formed # {} => pc = "place"
  /\ saver \in {"idle", "rename", "removed"}

Holds(q) == q \in DOMAIN executor.states

\* The attempts a sequence may have been started under, and with them the seeds of its state.
Seeds ==
  {r.initial_attempt : r \in Requests} \cup {RetryAttemptBase + d : d \in 1 .. MaxDispatch + 1}

\* No splice: whatever failed, was retried, rebuilt or recovered, the committed state is the
\* one an undisturbed run reaches from a single initial state after that many tokens.
OneStream ==
  \A q \in DOMAIN seqs : seqs[q].committed_digest # None =>
    \E seed \in Seeds :
      seqs[q].committed_digest
        = DigestState([seed |-> seed, steps |-> seqs[q].generated], seqs[q].generated)

\* The executor is ahead of the fabric, on a sequence that may still advance, only while
\* pump_once holds the receipt: a commit that fails has not counted the token.
AheadHoldsReceipt ==
  \A q \in DOMAIN seqs :
    (Holds(q) /\ MayFinalize(seqs[q]) /\ executor.states[q].tokens > seqs[q].generated)
      => \E i \in DOMAIN receipts : receipts[i].grant.sequence = q

\* Once a save has succeeded there is a whole record to recover from, whenever the process is
\* killed, as long as no call of the save itself fails.
SavedIsRecoverable == saved /\ faults = 0 => Whole(record)

\* "Formerly-running remote work is reconciled (in-flight authority cleared, reservations
\* released, sequence re-queued)", says docs/persistence.md; "re-queue", says recover_state:
\* after a restart no sequence is in a state that only an answer to a dispatch can end.
RecoveredIsRequeued ==
  [][restarts' # restarts => \A q \in DOMAIN seqs' : seqs'[q].state \notin InFlightStates]_pumpVars

\* The executor has the fabric's position but not its state: a rebuild whose write failed, or a
\* new executor that seeded the state with the attempt of a retry.
Diverged(q) ==
  /\ q \in DOMAIN seqs /\ Holds(q)
  /\ seqs[q].committed_digest # None
  /\ executor.states[q].tokens = seqs[q].generated
  /\ DigestState(executor.states[q].state, seqs[q].generated) # seqs[q].committed_digest

Drives(q) ==
  \/ \E i \in DOMAIN todo : \E k \in DOMAIN todo[i] : todo[i][k].sequence = q
  \/ \E i \in DOMAIN members : members[i].sequence = q
  \/ \E i \in DOMAIN decisions :
       q = IF decisions[i].granted THEN decisions[i].grant.sequence ELSE decisions[i].sequence
  \/ \E i \in DOMAIN receipts : receipts[i].grant.sequence = q

\* In flight with nobody driving it: its commit failed after the grant, or it was recovered
\* in that state.
LeftInFlight(q) == q \in DOMAIN seqs /\ seqs[q].state \in InFlightStates /\ ~Drives(q)

Drained(q) == q \in DOMAIN seqs /\ (IsTerminal(seqs[q].state) \/ Exhausted(seqs[q]))

\* Every admitted sequence ends (all its tokens committed, or terminal) or is lost with a
\* process that had not saved it, through any one failed call, a cancellation and a kill,
\* unless it diverged from its executor or was left in flight for good.
EverySequenceEnds ==
  \A q \in SequenceIds :
    (q \in DOMAIN seqs) ~>
      (Drained(q) \/ q \notin DOMAIN seqs \/ <>[](Diverged(q) \/ LeftInFlight(q)))

\* pump_until_idle returns, unless a sequence diverged: that one it dispatches for ever.
PumpReturns == (pc # "idle") ~> (pc = "idle" \/ \E q \in SequenceIds : Diverged(q))

=============================================================================
