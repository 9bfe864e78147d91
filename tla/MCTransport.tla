----------------------------- MODULE MCTransport -----------------------------
(***************************************************************************)
(* Conversations for Transport: one message of every kind with a distinct  *)
(* value in every field, sent as the two ends of Decode Fabric send them,  *)
(* a reply too long for the receiver, and two senders of another build.    *)
(***************************************************************************)
EXTENDS Transport

\* A value for the i-th field of a list: distinct among fields of one kind,
\* negative for signed fields, beyond one byte for wider ones.
Sample(kind, i) ==
  CASE kind = "u8"   -> i % ByteBase
    [] kind = "bool" -> i % 2 = 0
    [] kind = "u32"  -> 100 * i + 1
    [] kind = "u64"  -> 5000 * i + 7
    [] kind = "s64"  -> (IF i % 2 = 0 THEN 1 ELSE -1) * (900 * i + 5)
    [] kind = "str"  -> [k \in 1..(i % 4) |-> (i + k) % ByteBase]

FieldAt(fields, f) == CHOOSE i \in DOMAIN fields : fields[i].field = f
FieldNames(fields) == {fields[i].field : i \in DOMAIN fields}
Row(fields, salt) ==
  [f \in FieldNames(fields) |->
     Sample(fields[FieldAt(fields, f)].kind, salt + FieldAt(fields, f))]
Body(fields, rows) ==
  [f \in FieldNames(fields) |->
     LET item == fields[FieldAt(fields, f)]
     IN  IF item.kind = "list" THEN [k \in 1..rows |-> Row(item.elem, 10 * k)]
         ELSE Sample(item.kind, FieldAt(fields, f))]

\* One message of each type, a prepared result without members (the answer to
\* a refused prepare), and a reply longer than MaxFrame.
AllMessages ==
  [m \in DOMAIN FrameType |-> [type |-> m, body |-> Body(Encoder[m], IF m = "ExecuteRequest" THEN 2 ELSE 1)]]
  @@ [Refusal |-> [type |-> "PreparedResult", body |-> Body(Encoder.PreparedResult, 0)],
      LongReply |-> [type |-> "SnapshotReply",
                     body |-> (<<"json">> :> [k \in 1..1000 |-> k % ByteBase])]]

ThisBuild == [version |-> kProtocolVersion, types |-> FrameType]
NextVersion == [ThisBuild EXCEPT !.version = 2]
NewTypes == [ThisBuild EXCEPT !.types.RollEpoch = 46]

Talk(build, first, second) == [peer |-> build, todo |-> [schedule |-> first, handler |-> second]]

AllConversations ==
  {\* coordinator to worker: the schedule thread dispatches while a handler authorizes
   Talk(ThisBuild, <<"ExecuteRequest">>, <<"CommitGrant", "AbortPrepared">>),
   \* worker to coordinator
   Talk(ThisBuild, <<>>, <<"Hello", "PreparedResult", "CommitReceipt">>),
   Talk(ThisBuild, <<>>, <<"Refusal">>),
   \* client to coordinator, on one connection
   Talk(ThisBuild, <<>>, <<"SubmitRequest", "ExecuteResult", "RollEpoch">>),
   Talk(ThisBuild, <<>>, <<"CancelRequest", "ExplainRequest", "GetAuthority">>),
   \* coordinator to client
   Talk(ThisBuild, <<>>, <<"SubmitAck", "StatusReply", "AuthorityReply">>),
   Talk(ThisBuild, <<>>, <<"ExplainReply", "SnapshotReply", "LongReply">>),
   \* senders of another build
   Talk(NextVersion, <<>>, <<"GetAuthority">>),
   Talk(NewTypes, <<>>, <<"GetAuthority", "RollEpoch">>)}

=============================================================================
