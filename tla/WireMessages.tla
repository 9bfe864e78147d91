----------------------------- MODULE WireMessages -----------------------------
(***************************************************************************)
(* The field lists of every encoder and decoder of protocol.cpp and of the *)
(* worker descriptor of distributed.cpp.  An encoder's list is the order   *)
(* of its Writer calls; a decoder's list is the order of its Reader calls, *)
(* each with the field that its result is assigned to.                     *)
(***************************************************************************)
EXTENDS WireCodec

(* ------------------------------ shared parts --------------------------- *)
write_key ==
  U64(<<"model", "revision", "adapter">>) \o U8(<<"backend">>) \o U64(<<"device">>) \o
  U8(<<"dtype">>) \o
  U32(<<"tensor_layout", "kv_representation", "sequence_requirements", "operator_policy">>)
read_key ==
  U64(<<"model", "revision", "adapter">>) \o U8(<<"backend">>) \o U64(<<"device">>) \o
  U8(<<"dtype">>) \o
  U32(<<"tensor_layout", "kv_representation", "sequence_requirements", "operator_policy">>)

write_device ==
  U64(<<"id">>) \o U8(<<"backend">>) \o Str(<<"name">>) \o
  U32(<<"compute_capability_major", "compute_capability_minor">>) \o U64(<<"memory_bytes">>) \o
  U32(<<"supported_dtypes", "max_groups_concurrent">>)
read_device ==
  U64(<<"id">>) \o U8(<<"backend">>) \o Str(<<"name">>) \o
  U32(<<"compute_capability_major", "compute_capability_minor">>) \o U64(<<"memory_bytes">>) \o
  U32(<<"supported_dtypes", "max_groups_concurrent">>)

write_state ==
  U64(<<"id", "generation", "device", "bytes_held", "estimated_growth", "owner_tag",
        "access_version">>)
read_state ==
  U64(<<"id", "generation", "device", "bytes_held", "estimated_growth", "owner_tag",
        "access_version">>)

write_member ==
  U64(<<"sequence", "attempt", "generation">>) \o Under("state", write_state) \o
  U64(<<"current_length", "generated_tokens", "remaining_budget">>) \o Str(<<"payload">>)
read_member ==
  U64(<<"sequence", "attempt", "generation">>) \o Under("state", read_state) \o
  U64(<<"current_length", "generated_tokens", "remaining_budget">>) \o Str(<<"payload">>)

write_outcome ==
  U64(<<"sequence">>) \o U8(<<"kind">>) \o U64(<<"generated", "token_identifier">>) \o
  Bool(<<"terminal">>) \o U32(<<"error_code">>) \o Str(<<"error_message">>) \o
  Bool(<<"retryable">>) \o S64(<<"started_at", "finished_at", "active_ns">>) \o
  U64(<<"kv_bytes_delta", "kv_bytes_after", "attempt", "generation">>)
read_outcome ==
  U64(<<"sequence">>) \o U8(<<"kind">>) \o U64(<<"generated", "token_identifier">>) \o
  Bool(<<"terminal">>) \o U32(<<"error_code">>) \o Str(<<"error_message">>) \o
  Bool(<<"retryable">>) \o S64(<<"started_at", "finished_at", "active_ns">>) \o
  U64(<<"kv_bytes_delta", "kv_bytes_after", "attempt", "generation">>)

(* -------------------------- coordinator and worker --------------------- *)
encode_execute_request ==
  U64(<<"dispatch_id", "epoch", "worker", "worker_boot", "reservation_id">>) \o
  Under("key", write_key) \o Under("device", write_device) \o
  List("members", MemberCap, write_member) \o Str(<<"group_payload">>) \o
  S64(<<"deadline_hint_ns">>)
decode_execute_request ==
  U64(<<"dispatch_id", "epoch", "worker", "worker_boot", "reservation_id">>) \o
  Under("key", read_key) \o Under("device", read_device) \o
  List("members", MemberCap, read_member) \o Str(<<"group_payload">>) \o
  S64(<<"deadline_hint_ns">>)

encode_prepared_result ==
  U64(<<"dispatch_id", "epoch", "worker", "worker_boot">>) \o S64(<<"group_active_ns">>) \o
  U32(<<"group_error">>) \o Str(<<"group_error_message">>) \o
  List("members", MemberCap,
       U64(<<"sequence", "state", "attempt", "generation", "dispatch", "epoch", "worker",
             "worker_boot", "proposal", "pre_state_digest", "post_state_digest", "delta_digest",
             "committed_position_before", "committed_position_after">>) \o
       S64(<<"active_ns">>) \o Under("outcome", write_outcome))
decode_prepared_result ==
  U64(<<"dispatch_id", "epoch", "worker", "worker_boot">>) \o S64(<<"group_active_ns">>) \o
  U32(<<"group_error">>) \o Str(<<"group_error_message">>) \o
  List("members", MemberCap,
       U64(<<"sequence", "state", "attempt", "generation", "dispatch", "epoch", "worker",
             "worker_boot", "proposal", "pre_state_digest", "post_state_digest", "delta_digest",
             "committed_position_before", "committed_position_after">>) \o
       S64(<<"active_ns">>) \o Under("outcome", read_outcome))

encode_commit_grant ==
  U64(<<"grant_id", "proposal", "epoch", "worker", "worker_boot", "sequence", "state", "attempt",
        "generation", "dispatch", "committed_position", "pre_state_digest", "post_state_digest",
        "delta_digest">>) \o
  U8(<<"outcome_kind">>) \o Bool(<<"terminal">>) \o U32(<<"token_identifier">>) \o
  S64(<<"active_ns">>)

\* A decoder that assigns the two digests of a grant the other way round.
decode_commit_grant_Swapped ==
  U64(<<"grant_id", "proposal", "epoch", "worker", "worker_boot", "sequence", "state", "attempt",
        "generation", "dispatch", "committed_position", "post_state_digest", "pre_state_digest",
        "delta_digest">>) \o
  U8(<<"outcome_kind">>) \o Bool(<<"terminal">>) \o U32(<<"token_identifier">>) \o
  S64(<<"active_ns">>)
decode_commit_grant ==
  U64(<<"grant_id", "proposal", "epoch", "worker", "worker_boot", "sequence", "state", "attempt",
        "generation", "dispatch", "committed_position", "pre_state_digest", "post_state_digest",
        "delta_digest">>) \o
  U8(<<"outcome_kind">>) \o Bool(<<"terminal">>) \o U32(<<"token_identifier">>) \o
  S64(<<"active_ns">>)

encode_commit_receipts ==
  U64(<<"dispatch_id", "epoch", "worker", "worker_boot">>) \o U32(<<"group_error">>) \o
  Str(<<"group_error_message">>) \o
  List("receipts", MemberCap,
       U64(<<"receipt_id", "grant_id", "proposal", "epoch", "worker", "worker_boot", "sequence",
             "state", "attempt", "generation", "dispatch", "committed_position_before",
             "committed_position_after", "pre_state_digest", "post_state_digest",
             "delta_digest">>) \o
       U8(<<"outcome_kind">>) \o Bool(<<"terminal">>) \o U32(<<"token_identifier">>) \o
       S64(<<"active_ns", "committed_at">>))
decode_commit_receipts ==
  U64(<<"dispatch_id", "epoch", "worker", "worker_boot">>) \o U32(<<"group_error">>) \o
  Str(<<"group_error_message">>) \o
  List("receipts", MemberCap,
       U64(<<"receipt_id", "grant_id", "proposal", "epoch", "worker", "worker_boot", "sequence",
             "state", "attempt", "generation", "dispatch", "committed_position_before",
             "committed_position_after", "pre_state_digest", "post_state_digest",
             "delta_digest">>) \o
       U8(<<"outcome_kind">>) \o Bool(<<"terminal">>) \o U32(<<"token_identifier">>) \o
       S64(<<"active_ns", "committed_at">>))

encode_abort_prepared ==
  U64(<<"proposal", "sequence", "state", "attempt", "generation", "dispatch", "epoch", "worker",
        "worker_boot">>)
decode_abort_prepared ==
  U64(<<"proposal", "sequence", "state", "attempt", "generation", "dispatch", "epoch", "worker",
        "worker_boot">>)

enc_worker ==
  U64(<<"id", "boot_id">>) \o U8(<<"health">>) \o
  U64(<<"advertised_capacity", "active_reservations", "generation">>) \o
  Under("device",
        U64(<<"id">>) \o U8(<<"backend">>) \o Str(<<"name">>) \o U64(<<"memory_bytes">>) \o
        U32(<<"compute_capability_major", "compute_capability_minor", "supported_dtypes",
              "max_groups_concurrent">>)) \o
  List("supported_models", ModelCap, write_key)
dec_worker ==
  U64(<<"id", "boot_id">>) \o U8(<<"health">>) \o
  U64(<<"advertised_capacity", "active_reservations", "generation">>) \o
  Under("device",
        U64(<<"id">>) \o U8(<<"backend">>) \o Str(<<"name">>) \o U64(<<"memory_bytes">>) \o
        U32(<<"compute_capability_major", "compute_capability_minor", "supported_dtypes",
              "max_groups_concurrent">>)) \o
  List("supported_models", ModelCap, read_key)

(* -------------------------- coordinator and client --------------------- *)
encode_execute_result ==
  U64(<<"dispatch_id", "epoch", "worker", "worker_boot">>) \o S64(<<"group_active_ns">>) \o
  U32(<<"group_error">>) \o Str(<<"group_error_message">>) \o
  List("outcomes", MemberCap, write_outcome)
decode_execute_result ==
  U64(<<"dispatch_id", "epoch", "worker", "worker_boot">>) \o S64(<<"group_active_ns">>) \o
  U32(<<"group_error">>) \o Str(<<"group_error_message">>) \o
  List("outcomes", MemberCap, read_outcome)

\* tenant_weight, a double, travels as the 64 bits it is made of.
encode_submit_request ==
  U64(<<"id", "initial_attempt", "tenant", "model", "revision", "adapter", "sequence",
        "prompt_length", "max_generation_length", "pregenerated">>) \o
  U32(<<"priority">>) \o U64(<<"tenant_weight">>) \o U8(<<"latency_class">>) \o
  S64(<<"deadline", "per_token_target_ns">>) \o
  U64(<<"estimated_kv_growth_per_token", "device_constraint">>) \o
  Str(<<"sampling_metadata">>) \o Under("state", write_state) \o S64(<<"arrival">>)
decode_submit_request ==
  U64(<<"id", "initial_attempt", "tenant", "model", "revision", "adapter", "sequence",
        "prompt_length", "max_generation_length", "pregenerated">>) \o
  U32(<<"priority">>) \o U64(<<"tenant_weight">>) \o U8(<<"latency_class">>) \o
  S64(<<"deadline", "per_token_target_ns">>) \o
  U64(<<"estimated_kv_growth_per_token", "device_constraint">>) \o
  Str(<<"sampling_metadata">>) \o Under("state", read_state) \o S64(<<"arrival">>)

encode_submit_ack == Bool(<<"admitted">>) \o U64(<<"sequence">>) \o Str(<<"reason">>)
decode_submit_ack == Bool(<<"admitted">>) \o U64(<<"sequence">>) \o Str(<<"reason">>)

encode_status_reply ==
  U32(<<"active", "ready">>) \o U64(<<"generated_tokens", "decode_steps">>) \o
  U32(<<"groups">>) \o U64(<<"requests_admitted", "stale_rejections", "epoch">>)
decode_status_reply ==
  U32(<<"active", "ready">>) \o U64(<<"generated_tokens", "decode_steps">>) \o
  U32(<<"groups">>) \o U64(<<"requests_admitted", "stale_rejections", "epoch">>)

encode_snapshot_reply == Str(<<"json">>)
decode_snapshot_reply == Str(<<"json">>)

encode_query == U64(<<"request", "sequence">>) \o Bool(<<"want_snapshot">>)
decode_query == U64(<<"request", "sequence">>) \o Bool(<<"want_snapshot">>)

encode_explain_request == U64(<<"sequence">>) \o Str(<<"question">>)
decode_explain_request == U64(<<"sequence">>) \o Str(<<"question">>)

encode_explain_reply == Str(<<"text", "json">>)
decode_explain_reply == Str(<<"text", "json">>)

encode_get_authority == U64(<<"sequence">>)
decode_get_authority == U64(<<"sequence">>)

encode_authority_reply ==
  Bool(<<"exists">>) \o
  U64(<<"sequence", "dispatch", "epoch", "worker", "worker_boot", "attempt", "generation",
        "generated">>)
decode_authority_reply ==
  Bool(<<"exists">>) \o
  U64(<<"sequence", "dispatch", "epoch", "worker", "worker_boot", "attempt", "generation",
        "generated">>)

(* ------------------------------- frame types --------------------------- *)
FrameType ==
  [Hello |-> 1, ExecuteRequest |-> 10, ExecuteResult |-> 11, PreparedResult |-> 14,
   CommitGrant |-> 15, CommitReceipt |-> 16, AbortPrepared |-> 17, SubmitRequest |-> 20,
   CancelRequest |-> 22, StatusReply |-> 24, SnapshotReply |-> 26, ExplainRequest |-> 27,
   ExplainReply |-> 28, GetAuthority |-> 40, AuthorityReply |-> 41, SubmitAck |-> 42,
   RollEpoch |-> 43]

\* The encoder and the decoder the two ends call for a frame of each type; a
\* RollEpoch frame has an empty payload, which nobody decodes.
Encoder ==
  [Hello |-> enc_worker, ExecuteRequest |-> encode_execute_request,
   ExecuteResult |-> encode_execute_result, PreparedResult |-> encode_prepared_result,
   CommitGrant |-> encode_commit_grant, CommitReceipt |-> encode_commit_receipts,
   AbortPrepared |-> encode_abort_prepared, SubmitRequest |-> encode_submit_request,
   CancelRequest |-> encode_query, StatusReply |-> encode_status_reply,
   SnapshotReply |-> encode_snapshot_reply, ExplainRequest |-> encode_explain_request,
   ExplainReply |-> encode_explain_reply, GetAuthority |-> encode_get_authority,
   AuthorityReply |-> encode_authority_reply, SubmitAck |-> encode_submit_ack,
   RollEpoch |-> <<>>]
Decoder ==
  [Hello |-> dec_worker, ExecuteRequest |-> decode_execute_request,
   ExecuteResult |-> decode_execute_result, PreparedResult |-> decode_prepared_result,
   CommitGrant |-> decode_commit_grant, CommitReceipt |-> decode_commit_receipts,
   AbortPrepared |-> decode_abort_prepared, SubmitRequest |-> decode_submit_request,
   CancelRequest |-> decode_query, StatusReply |-> decode_status_reply,
   SnapshotReply |-> decode_snapshot_reply, ExplainRequest |-> decode_explain_request,
   ExplainReply |-> decode_explain_reply, GetAuthority |-> decode_get_authority,
   AuthorityReply |-> decode_authority_reply, SubmitAck |-> decode_submit_ack,
   RollEpoch |-> <<>>]

=============================================================================
