----------------------------- MODULE Coordinator -----------------------------
(***************************************************************************)
(* The distributed system of src/distributed.cpp: a coordinator process    *)
(* (the fabric, one handler thread per connection, the schedule thread),   *)
(* worker processes that run a CpuDecodeExecutor, and the TCP connections  *)
(* between them.                                                           *)
(*                                                                         *)
(* A worker process connects once and never again, so a process and its    *)
(* connection are one thing, p; its boot id is p.  A process may crash at  *)
(* any moment: what it sent and the coordinator has not read may be lost   *)
(* from some point on, what was on its way to it is lost, and its handler  *)
(* learns of it when it has read the rest.  The coordinator does not crash *)
(* (it keeps nothing on disk).                                             *)
(***************************************************************************)
EXTENDS DecodeFabric, CpuExecutor

CONSTANTS
  Processes,           \* worker processes, in the order they may be started
  WorkerOf,            \* process -> the worker id it is given
  MaxFaults            \* bound of the model: worker crashes and new epochs together

ASSUME ProcessesAssumption == Processes \subseteq Boots

VARIABLES
  up,                  \* process -> "new", "up" or "dead"
  executor,            \* process -> its CpuDecodeExecutor
  to_worker,           \* process -> frames on their way to it
  to_coordinator,      \* process -> frames on their way from it
  handler,             \* process -> where its handler thread is
  outbox,              \* process -> frames its handler has yet to send
  conns,               \* WorkerId -> process: g_worker_conns
  dispatches,          \* dispatches the schedule thread has yet to send
  crashes

threads == <<up, executor, to_worker, to_coordinator, handler, outbox, conns, dispatches, crashes>>
allVars == <<vars, threads>>

-----------------------------------------------------------------------------
(* Connections *)

\* A frame to a process that is gone is lost: the result of send_frame is ignored.
Delivered_ToAnyone(p, frames) == to_worker' = [to_worker EXCEPT ![p] = @ \o frames]
Delivered(p, frames) ==
  to_worker' = IF up[p] = "up" THEN [to_worker EXCEPT ![p] = @ \o frames] ELSE to_worker

Received(p, type) ==
  /\ to_coordinator[p] # <<>>
  /\ Head(to_coordinator[p]).type = type

-----------------------------------------------------------------------------
(* Worker processes: worker_main *)

\* A process is started when the last one with its worker id is gone.
StartWorker(p) ==
  /\ up[p] = "new"
  /\ \A r \in Processes : WorkerOf[r] = WorkerOf[p] => up[r] # "up" /\ (r < p => up[r] = "dead")
  /\ up' = [up EXCEPT ![p] = "up"]
  /\ handler' = [handler EXCEPT ![p] = "accepted"]
  /\ to_coordinator' = [to_coordinator EXCEPT ![p] = <<[type |-> "Hello"]>>]
  /\ UNCHANGED <<vars, executor, to_worker, outbox, conns, dispatches, crashes>>

CrashWorker(p) ==
  /\ crashes + epoch - 1 < MaxFaults
  /\ up[p] = "up"
  /\ up' = [up EXCEPT ![p] = "dead"]
  /\ \E kept \in 0 .. Len(to_coordinator[p]) :
       to_coordinator' = [to_coordinator EXCEPT ![p] = SubSeq(@, 1, kept)]
  /\ to_worker' = [to_worker EXCEPT ![p] = <<>>]
  /\ executor' = [executor EXCEPT ![p] = NewExecutor]
  /\ crashes' = crashes + 1
  /\ UNCHANGED <<vars, handler, outbox, conns, dispatches>>

\* One frame of the worker loop.  A refused prepare is answered without members, a refused
\* commit without a receipt.
Answer(p, e, frames) ==
  /\ executor' = [executor EXCEPT ![p] = e]
  /\ to_worker' = [to_worker EXCEPT ![p] = Tail(@)]
  /\ to_coordinator' = [to_coordinator EXCEPT ![p] = @ \o frames]
  /\ UNCHANGED <<vars, up, handler, outbox, conns, dispatches, crashes>>

WorkerLoop(p) ==
  /\ up[p] = "up"
  /\ to_worker[p] # <<>>
  /\ LET f == Head(to_worker[p])
     IN \/ /\ f.type = "ExecuteRequest"
           /\ LET r == Prepare(executor[p], f.members)
              IN Answer(p, r.executor,
                        <<[type |-> "PreparedResult", ok |-> r.ok, members |-> r.members]>>)
        \/ /\ f.type = "CommitGrant"
           /\ LET r == Commit(executor[p], f.id, f.grant)
              IN Answer(p, r.executor,
                        <<[type |-> "CommitReceipt", ok |-> r.ok, id |-> f.id, grant |-> f.grant]>>)
        \/ /\ f.type = "AbortPrepared"
           /\ Answer(p, Abort(executor[p], f.sequence, f.proposal), <<>>)

-----------------------------------------------------------------------------
(* Handler threads of the coordinator *)

\* Hello: the worker is registered first, its connection is entered in the table after.
HandleHello(p) ==
  /\ handler[p] = "accepted"
  /\ Received(p, "Hello")
  /\ RegisterWorker(WorkerOf[p], p)
  /\ to_coordinator' = [to_coordinator EXCEPT ![p] = Tail(@)]
  /\ handler' = [handler EXCEPT ![p] = "registered"]
  /\ UNCHANGED <<up, executor, to_worker, outbox, conns, dispatches, crashes>>

EnterConnection(p) ==
  /\ handler[p] = "registered"
  /\ conns' = [w \in DOMAIN conns \cup {WorkerOf[p]} |-> IF w = WorkerOf[p] THEN p ELSE conns[w]]
  /\ handler' = [handler EXCEPT ![p] = "reading"]
  /\ UNCHANGED <<vars, up, executor, to_worker, to_coordinator, outbox, dispatches, crashes>>

Reads(p, type) ==
  /\ handler[p] = "reading"
  /\ outbox[p] = <<>>
  /\ Received(p, type)

\* The frame a decision about the prepared member pm is answered with.
AbortFrame(pm) ==
  <<[type |-> "AbortPrepared", sequence |-> pm.sequence, proposal |-> pm.proposal]>>
GrantFrame(pm) == <<[type |-> "CommitGrant", id |-> next_grant, grant |-> Grant(pm)]>>
Decision_BindingOnly(pm) ==
  IF BindingValid(seqs[pm.sequence], pm) THEN GrantFrame(pm) ELSE AbortFrame(pm)
Decision(pm) ==
  IF AuthorityCurrent(seqs[pm.sequence], pm) /\ BindingValid(seqs[pm.sequence], pm)
  THEN GrantFrame(pm) ELSE AbortFrame(pm)

\* PreparedResult: authorize its members (one at a time: see DecodeFabric); then send what was
\* decided.
HandlePrepared(p) ==
  /\ Reads(p, "PreparedResult")
  /\ LET f == Head(to_coordinator[p])
     IN /\ f.members # <<>>
        /\ AuthorizeStale(Head(f.members)) \/ AuthorizeStep(Head(f.members))
        /\ outbox' = [outbox EXCEPT ![p] = Decision(Head(f.members))]
        /\ to_coordinator' = [to_coordinator EXCEPT ![p] =
             (IF Len(f.members) = 1 THEN <<>> ELSE <<[f EXCEPT !.members = Tail(@)]>>) \o Tail(@)]
  /\ UNCHANGED <<up, executor, to_worker, handler, conns, dispatches, crashes>>

\* An answer without members changes nothing: the dispatch is not closed.
HandleRefused(p) ==
  /\ Reads(p, "PreparedResult")
  /\ Head(to_coordinator[p]).members = <<>>
  /\ to_coordinator' = [to_coordinator EXCEPT ![p] = Tail(@)]
  /\ UNCHANGED <<vars, up, executor, to_worker, handler, outbox, conns, dispatches, crashes>>

SendDecision(p) ==
  /\ outbox[p] # <<>>
  /\ Delivered(p, outbox[p])
  /\ outbox' = [outbox EXCEPT ![p] = <<>>]
  /\ UNCHANGED <<vars, up, executor, to_coordinator, handler, conns, dispatches, crashes>>

\* CommitReceipt: applied if the fabric accepts it, otherwise dropped.
HandleReceipt(p) ==
  /\ Reads(p, "CommitReceipt")
  /\ LET f == Head(to_coordinator[p])
     IN \/ f.ok /\ ApplyCommitReceipt(f.id, f.grant)
        \/ ~(f.ok /\ ReceiptApplies(f.id, f.grant)) /\ Unlocked /\ UNCHANGED vars
  /\ to_coordinator' = [to_coordinator EXCEPT ![p] = Tail(@)]
  /\ UNCHANGED <<up, executor, to_worker, handler, outbox, conns, dispatches, crashes>>

\* The connection is closed and drained: the worker is marked dead by its id, then the entry of
\* that id is erased, whichever process they belong to by now.
HandleClosed(p) ==
  /\ up[p] = "dead"
  /\ to_coordinator[p] = <<>>
  /\ \/ /\ handler[p] = "accepted"
        /\ handler' = [handler EXCEPT ![p] = "done"]
        /\ UNCHANGED vars
     \/ /\ handler[p] = "reading"
        /\ outbox[p] = <<>>
        /\ MarkWorkerDead(WorkerOf[p])
        /\ handler' = [handler EXCEPT ![p] = "erasing"]
  /\ UNCHANGED <<up, executor, to_worker, to_coordinator, outbox, conns, dispatches, crashes>>

EraseConnection(p) ==
  /\ handler[p] = "erasing"
  /\ conns' = [w \in DOMAIN conns \ {WorkerOf[p]} |-> conns[w]]
  /\ handler' = [handler EXCEPT ![p] = "done"]
  /\ UNCHANGED <<vars, up, executor, to_worker, to_coordinator, outbox, dispatches, crashes>>

-----------------------------------------------------------------------------
(* The schedule thread, clients *)

ExecuteRequest(q, w) ==
  MemberSpec(q, w) @@
    [generated |-> seqs[q].generated,
     remaining |-> seqs[q].req.max_generation_length - seqs[q].budget]

\* schedule(TimePoint(0)): deadlines never pass in the coordinator.
ScheduleGroups == dispatches = <<>> /\ Schedule(0) /\ UNCHANGED threads

PlaceGroup(g) ==
  \/ RevertGroup(g) /\ UNCHANGED threads
  \/ \E w \in Workers :
       /\ DispatchGroup(g, w)
       /\ dispatches' = Append(dispatches,
            [worker |-> w, members |-> SetToSeq({ExecuteRequest(q, w) : q \in g.members})])
       /\ UNCHANGED <<up, executor, to_worker, to_coordinator, handler, outbox, conns, crashes>>

\* Without a connection the dispatch is skipped, and stays in flight.
SendDispatch ==
  /\ Unlocked
  /\ dispatches # <<>>
  /\ LET d == Head(dispatches)
     IN IF d.worker \in DOMAIN conns
        THEN Delivered(conns[d.worker], <<[type |-> "ExecuteRequest", members |-> d.members]>>)
        ELSE UNCHANGED to_worker
  /\ dispatches' = Tail(dispatches)
  /\ UNCHANGED <<vars, up, executor, to_coordinator, handler, outbox, conns, crashes>>

\* ExecuteResult from a client is the replay of a successful step of an earlier dispatch: it
\* never counts as a completion, but a stale one may close what is in flight now.
Client ==
  /\ \/ \E req \in Requests : Submit(req)
     \/ \E q \in DOMAIN seqs : CancelInFlight(q) \/ CancelNow(q)
     \/ \E m \in issued : CompleteOldEpoch(m) \/ CompleteCancelled(m)
     \/ crashes + epoch - 1 < MaxFaults /\ RollEpoch
  /\ UNCHANGED threads

-----------------------------------------------------------------------------
(* Specification *)

CoordinatorInit ==
  /\ Init
  /\ up = [p \in Processes |-> "new"]
  /\ executor = [p \in Processes |-> NewExecutor]
  /\ to_worker = [p \in Processes |-> <<>>]
  /\ to_coordinator = [p \in Processes |-> <<>>]
  /\ handler = [p \in Processes |-> "none"]
  /\ outbox = [p \in Processes |-> <<>>]
  /\ conns = [w \in {} |-> 0]
  /\ dispatches = <<>>
  /\ crashes = 0

HandlerThread(p) ==
  \/ HandleHello(p) \/ EnterConnection(p) \/ HandlePrepared(p) \/ HandleRefused(p)
  \/ SendDecision(p) \/ HandleReceipt(p) \/ HandleClosed(p) \/ EraseConnection(p)

ScheduleThread ==
  \/ ScheduleGroups
  \/ \E g \in formed : PlaceGroup(g)
  \/ SendDispatch

CoordinatorNext ==
  \/ \E p \in Processes :
       StartWorker(p) \/ CrashWorker(p) \/ WorkerLoop(p) \/ HandlerThread(p)
  \/ ScheduleThread
  \/ Client

CoordinatorSpec == CoordinatorInit /\ [][CoordinatorNext]_allVars

\* Every thread and every live worker process keeps running, and a worker that is gone is
\* replaced while there are processes left.  Clients, crashes and epochs are not obliged.
Fairness ==
  /\ \A p \in Processes : /\ WF_allVars(StartWorker(p))
                          /\ WF_allVars(WorkerLoop(p))
                          /\ WF_allVars(HandlerThread(p))
  /\ WF_allVars(ScheduleThread)

FairCoordinatorSpec == CoordinatorSpec /\ Fairness

-----------------------------------------------------------------------------
(* Properties *)

\* What the threads hold: a process that does not run has no executor state and is sent
\* nothing; the connection table names processes that have said Hello with that worker id.
ThreadsTypeOK ==
  /\ up \in [Processes -> {"new", "up", "dead"}]
  /\ \A p \in Processes : up[p] # "up" => executor[p] = NewExecutor /\ to_worker[p] = <<>>
  /\ handler \in
       [Processes -> {"none", "accepted", "registered", "reading", "erasing", "done"}]
  /\ \A w \in DOMAIN conns : WorkerOf[conns[w]] = w /\ handler[conns[w]] \notin {"none", "accepted"}

Holds(p, q) == up[p] = "up" /\ q \in DOMAIN executor[p].states

PendingGrant(q) ==
  \E g \in DOMAIN ledger : /\ ledger[g].sequence = q
                           /\ ledger[g].status = "pending"
                           /\ ledger[g].position = seqs[q].generated

\* The executor contract ("no state transition becomes committed unless it is authorized"),
\* across the network: the committed state of a worker is at most one token ahead of the
\* fabric, and then the ledger holds a pending grant for exactly that position, whatever
\* frames crashes, epochs and cancellations made stale on the way.
CommittedIsAuthorized ==
  \A p \in Processes, q \in DOMAIN seqs : Holds(p, q) =>
    LET st == executor[p].states[q]
    IN \/ st.tokens <= seqs[q].generated
       \/ st.tokens = seqs[q].generated + 1 /\ PendingGrant(q)

\* "A restarted worker re-derives the exact same state" (ensure_initialized): wherever a
\* worker has as many tokens as the fabric, its state has the digest the fabric committed,
\* so the next prepare passes the pre-digest check.
RederivedIsCommitted ==
  \A p \in Processes, q \in DOMAIN seqs : Holds(p, q) =>
    LET st == executor[p].states[q]
    IN st.tokens = seqs[q].generated /\ seqs[q].committed_digest # None =>
         DigestState(st.state, st.tokens) = seqs[q].committed_digest

ReceiptOnItsWay(p, q) ==
  \E i \in DOMAIN to_coordinator[p] :
    LET f == to_coordinator[p][i]
    IN f.type = "CommitReceipt" /\ f.ok /\ f.grant.sequence = q

\* A live worker that is ahead of the fabric on a sequence that may still advance is so only
\* while its receipt travels: no grant is committed by the worker and refused by the fabric,
\* which would leave every later prepare of that worker at the wrong position.
AheadIsTransient ==
  \A p \in Processes, q \in DOMAIN seqs :
    (Holds(p, q) /\ MayFinalize(seqs[q]) /\ executor[p].states[q].tokens > seqs[q].generated)
      => ReceiptOnItsWay(p, q)

About(frames, q) ==
  \E i \in DOMAIN frames :
    LET f == frames[i]
    IN \/ "members" \in DOMAIN f /\ \E k \in DOMAIN f.members : f.members[k].sequence = q
       \/ "grant" \in DOMAIN f /\ f.grant.sequence = q
       \/ "sequence" \in DOMAIN f /\ f.sequence = q

\* The three ways a sequence can be stranded: it waits for the answer to a dispatch that met
\* no connection, was refused or was dropped by a replay, and nothing about it is under way; it
\* was left in Waiting, where schedule dispatches it but cannot move it; no worker is healthy
\* (the last one is gone, or the handler of its predecessor marked it dead).
DispatchLost(q) ==
  /\ seqs[q].has_inflight \/ (seqs[q].in_flight_dispatch # None /\ seqs[q].state \in InFlightStates)
  /\ ~About(dispatches, q)
  /\ \A p \in Processes :
       ~About(to_worker[p], q) /\ ~About(to_coordinator[p], q) /\ ~About(outbox[p], q)
LeftWaiting(q) == seqs[q].state = "Waiting"
NoWorker == \A w \in DOMAIN workers : ~workers[w].healthy
Stranded(q) == q \in DOMAIN seqs /\ (DispatchLost(q) \/ LeftWaiting(q) \/ NoWorker)

Drained(q) == q \in DOMAIN seqs /\ (IsTerminal(seqs[q].state) \/ Exhausted(seqs[q]))

\* Every admitted sequence ends (all its tokens are committed, or it is terminal), through a
\* worker crash at any step, its replacement, a cancellation or a new epoch, unless it is
\* stranded for good in one of the three ways above: there is no fourth.
EverySequenceEnds ==
  \A q \in SequenceIds : (q \in DOMAIN seqs) ~> Drained(q) \/ <>[]Stranded(q)

=============================================================================
