---------------------------- MODULE CudaExecutor ----------------------------
(***************************************************************************)
(* CudaDecodeExecutor of src/cuda_executor.cu: the executor of CpuExecutor *)
(* with the committed and the tentative state in device memory, where any  *)
(* CUDA call may fail.  A failed call is the parameter `fault`; calls      *)
(* whose failure has the same effect share one name.  A copy that fails    *)
(* leaves its destination as it was.                                       *)
(***************************************************************************)
EXTENDS CpuExecutor

\* "begin": cudaSetDevice, or the allocation or first copy of the committed state.
\* "read", "write": the two copies of the reconstruction.
\* "step": anything after the reconstruction: tentative memory, kernel, copies back.
PrepareFaults == {"none", "begin", "read", "write", "step"}

\* ensure_initialized.  The tokens are counted before the rebuilt state is written, so a
\* failed write leaves the old state under the new count.
DeviceState(e, m) ==
  IF m.sequence \in DOMAIN e.states THEN e.states[m.sequence]
  ELSE [state |-> InitialState(m), tokens |-> 0, tentative |-> NoTentative]
DeviceEnsureInitialized(e, m, fault) ==
  LET st == DeviceState(e, m)
      behind == st.tokens < m.generated
  IN CASE behind /\ fault = "read" -> [ok |-> FALSE, st |-> st]
       [] behind /\ fault = "write" ->
            [ok |-> FALSE, st |-> [st EXCEPT !.tokens = m.generated]]
       [] OTHER -> [ok |-> TRUE, st |-> CatchUp(st, m.generated)]

\* A tentative step of an older attempt is dropped before anything of the new one can fail.
DevicePrepareMember(e, m, fault) ==
  LET init == DeviceEnsureInitialized(e, m, fault)
      st == init.st
      t == Tentative(st, m, e.next_proposal + 1)
      failed(left) == [ok |-> FALSE, executor |-> left, members |-> <<>>]
  IN CASE fault = "begin" -> failed(e)
       [] fault # "begin" /\ (~init.ok \/ PrepareRefused(st, m)) ->
            failed(SetState(e, m.sequence, st))
       [] fault = "step" /\ init.ok /\ ~PrepareRefused(st, m) ->
            failed(SetState(e, m.sequence, [st EXCEPT !.tentative = NoTentative]))
       [] OTHER ->
            [ok |-> TRUE,
             executor |-> [SetState(e, m.sequence, [st EXCEPT !.tentative = t])
                             EXCEPT !.next_proposal = @ + 1],
             members |-> <<PreparedMember(st, m, t)>>]

\* The members in order, up to the first that fails; fault[q] is what fails for sequence q.
DevicePrepare(e, members, fault) ==
  LET round[i \in 0 .. Len(members)] ==
        IF i = 0 THEN [ok |-> TRUE, executor |-> e, members |-> <<>>]
        ELSE LET r == round[i - 1]
                 one == DevicePrepareMember(r.executor, members[i], fault[members[i].sequence])
             IN IF ~r.ok THEN r
                ELSE [one EXCEPT !.members = IF one.ok THEN r.members \o @ ELSE <<>>]
  IN round[Len(members)]

\* commit also compares the pre-state digest with the committed state as it is now.  Every
\* call that may fail comes before the first change.
DeviceGrantMatches(st, g) ==
  /\ GrantMatches(st, g)
  /\ DigestState(st.state, st.tokens) = g.pre
DeviceCommit_CountsFirst(e, gid, g, fault) ==
  IF fault = "commit"
  THEN [ok |-> FALSE,
        executor |-> SetState(e, g.sequence, [e.states[g.sequence] EXCEPT !.tokens = @ + 1])]
  ELSE Commit(e, gid, g)
DeviceCommit(e, gid, g, fault) ==
  IF fault = "commit" THEN [ok |-> FALSE, executor |-> e]
  ELSE IF /\ gid \notin DOMAIN e.receipts
          /\ g.sequence \in DOMAIN e.states
          /\ ~DeviceGrantMatches(e.states[g.sequence], g)
  THEN [ok |-> FALSE, executor |-> e]
  ELSE Commit(e, gid, g)

\* abort drops nothing when the device cannot be selected.
DeviceAbort(e, q, proposal, fault) == IF fault = "begin" THEN e ELSE Abort(e, q, proposal)

=============================================================================
