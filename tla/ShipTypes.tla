----------------------------- MODULE ShipTypes -----------------------------
(***************************************************************************)
(* The state history protocol, described twice: by the abi that            *)
(* src/ship.abi.cpp holds as a string, and by the C++ types of             *)
(* include/alaio/ship_protocol.hpp.  Of each: structs with the fields they *)
(* declare, their bases, variants, aliases.                                *)
(***************************************************************************)
EXTENDS Sequences, TLC

\* A field of a plain type t, of t?, t[] and t$.
Field(name, wrap, type) == [name |-> name, wrap |-> wrap, type |-> type]
F(name, type) == Field(name, "plain", type)
O(name, type) == Field(name, "optional", type)
A(name, type) == Field(name, "array", type)
E(name, type) == Field(name, "extension", type)
Each(type, names) == [i \in DOMAIN names |-> F(names[i], type)]

\* The rows of the five secondary indexes differ in the key.
AbiIndexRow(type) ==
    Each("name", <<"code", "scope", "table">>)
    \o <<F("primary_key", "uint64"), F("payer", "name"), F("secondary_key", type)>>

AbiMessages ==
    [get_status_request_v0 |-> <<>>,
     block_position |-> <<F("block_num", "uint32"), F("block_id", "checksum256")>>,
     get_status_result_v0 |-> <<F("head", "block_position"),
         F("last_irreversible", "block_position")>> \o Each("uint32", <<"trace_begin_block",
         "trace_end_block", "chain_state_begin_block", "chain_state_end_block">>)
         \o <<E("chain_id", "checksum256")>>,
     get_blocks_request_v0 |-> Each("uint32", <<"start_block_num", "end_block_num",
         "max_messages_in_flight">>) \o <<A("have_positions", "block_position")>>
         \o Each("bool", <<"irreversible_only", "fetch_block", "fetch_traces",
         "fetch_deltas">>),
     get_blocks_ack_request_v0 |-> <<F("num_messages", "uint32")>>,
     get_blocks_result_v0 |-> <<F("head", "block_position"),
         F("last_irreversible", "block_position"), O("this_block", "block_position"),
         O("prev_block", "block_position"), O("block", "bytes"), O("traces", "bytes"),
         O("deltas", "bytes")>>,
     get_blocks_result_v1 |-> <<F("head", "block_position"),
         F("last_irreversible", "block_position"), O("this_block", "block_position"),
         O("prev_block", "block_position"), O("block", "signed_block"), F("traces", "bytes"),
         F("deltas", "bytes")>>,
     row_v0 |-> <<F("present", "bool"), F("data", "bytes")>>,
     table_delta_v0 |-> <<F("name", "string"), A("rows", "row_v0")>>,
     row_v1 |-> <<F("present", "uint8"), F("data", "bytes")>>,
     table_delta_v1 |-> <<F("name", "string"), A("rows", "row_v1")>>]

AbiTraces ==
    [action |-> <<F("account", "name"), F("name", "name"), A("authorization", "permission_level"),
         F("data", "bytes")>>,
     account_auth_sequence |-> <<F("account", "name"), F("sequence", "uint64")>>,
     action_receipt_v0 |-> <<F("receiver", "name"), F("act_digest", "checksum256"),
         F("global_sequence", "uint64"), F("recv_sequence", "uint64"),
         A("auth_sequence", "account_auth_sequence"), F("code_sequence", "varuint32"),
         F("abi_sequence", "varuint32")>>,
     account_delta |-> <<F("account", "name"), F("delta", "int64")>>,
     action_trace_v0 |-> <<F("action_ordinal", "varuint32"),
         F("creator_action_ordinal", "varuint32"), O("receipt", "action_receipt"),
         F("receiver", "name"), F("act", "action"), F("context_free", "bool"),
         F("elapsed", "int64"), F("console", "string"),
         A("account_ram_deltas", "account_delta"), O("except", "string"),
         O("error_code", "uint64")>>,
     action_trace_v1 |-> <<F("action_ordinal", "varuint32"),
         F("creator_action_ordinal", "varuint32"), O("receipt", "action_receipt"),
         F("receiver", "name"), F("act", "action"), F("context_free", "bool"),
         F("elapsed", "int64"), F("console", "string"),
         A("account_ram_deltas", "account_delta"), A("account_disk_deltas", "account_delta"),
         O("except", "string"), O("error_code", "uint64"), F("return_value", "bytes")>>,
     partial_transaction_v0 |-> <<F("expiration", "time_point_sec"), F("ref_block_num", "uint16"),
         F("ref_block_prefix", "uint32"), F("max_net_usage_words", "varuint32"),
         F("max_cpu_usage_ms", "uint8"), F("delay_sec", "varuint32"),
         A("transaction_extensions", "extension"), A("signatures", "signature"),
         A("context_free_data", "bytes")>>,
     partial_transaction_v1 |-> <<F("expiration", "time_point_sec"), F("ref_block_num", "uint16"),
         F("ref_block_prefix", "uint32"), F("max_net_usage_words", "varuint32"),
         F("max_cpu_usage_ms", "uint8"), F("delay_sec", "varuint32"),
         A("transaction_extensions", "extension"), O("prunable_data", "prunable_data_type")>>,
     transaction_trace_v0 |-> <<F("id", "checksum256"), F("status", "uint8"),
         F("cpu_usage_us", "uint32"), F("net_usage_words", "varuint32"),
         F("elapsed", "int64"), F("net_usage", "uint64"), F("scheduled", "bool"),
         A("action_traces", "action_trace"), O("account_ram_delta", "account_delta"),
         O("except", "string"), O("error_code", "uint64"),
         O("failed_dtrx_trace", "transaction_trace"), O("partial", "partial_transaction")>>]

AbiBlocks ==
    [packed_transaction_v0 |-> <<A("signatures", "signature"), F("compression", "uint8"),
         F("packed_context_free_data", "bytes"), F("packed_trx", "bytes")>>,
     packed_transaction_v1 |-> <<F("compression", "uint8"),
         F("prunable_data", "prunable_data_type"), F("packed_trx", "bytes")>>,
     transaction_receipt_header |-> <<F("status", "uint8"), F("cpu_usage_us", "uint32"),
         F("net_usage_words", "varuint32")>>,
     transaction_receipt_v0 |-> <<F("trx", "transaction_variant_v0")>>,
     transaction_receipt_v1 |-> <<F("trx", "transaction_variant_v1")>>,
     extension |-> <<F("type", "uint16"), F("data", "bytes")>>,
     block_header |-> <<F("timestamp", "block_timestamp_type"), F("producer", "name"),
         F("confirmed", "uint16")>> \o Each("checksum256", <<"previous", "transaction_mroot",
         "action_mroot">>) \o <<F("schedule_version", "uint32"),
         O("new_producers", "producer_schedule"), A("header_extensions", "extension")>>,
     signed_block_header |-> <<F("producer_signature", "signature")>>,
     signed_block_v0 |-> <<A("transactions", "transaction_receipt_v0"),
         A("block_extensions", "extension")>>,
     signed_block_v1 |-> <<F("prune_state", "uint8"), A("transactions", "transaction_receipt_v1"),
         A("block_extensions", "extension")>>,
     transaction_header |-> <<F("expiration", "time_point_sec"), F("ref_block_num", "uint16"),
         F("ref_block_prefix", "uint32"), F("max_net_usage_words", "varuint32"),
         F("max_cpu_usage_ms", "uint8"), F("delay_sec", "varuint32")>>,
     transaction |-> <<A("context_free_actions", "action"), A("actions", "action"),
         A("transaction_extensions", "extension")>>]

AbiRows ==
    [code_id |-> <<F("vm_type", "uint8"), F("vm_version", "uint8"), F("code_hash", "checksum256")>>,
     account_v0 |-> <<F("name", "name"), F("creation_date", "block_timestamp_type"),
         F("abi", "bytes")>>,
     account_metadata_v0 |-> <<F("name", "name"), F("privileged", "bool"),
         F("last_code_update", "time_point"), O("code", "code_id")>>,
     code_v0 |-> <<F("vm_type", "uint8"), F("vm_version", "uint8"), F("code_hash", "checksum256"),
         F("code", "bytes")>>,
     contract_table_v0 |-> Each("name", <<"code", "scope", "table", "payer">>),
     contract_row_v0 |-> Each("name", <<"code", "scope", "table">>)
         \o <<F("primary_key", "uint64"), F("payer", "name"), F("value", "bytes")>>,
     contract_index64_v0 |-> AbiIndexRow("uint64"),
     contract_index128_v0 |-> AbiIndexRow("uint128"),
     contract_index256_v0 |-> AbiIndexRow("checksum256"),
     contract_index_double_v0 |-> AbiIndexRow("float64"),
     contract_index_long_double_v0 |-> AbiIndexRow("float128"),
     key_value_v0 |-> <<F("contract", "name"), F("key", "bytes"), F("value", "bytes"),
         F("payer", "name")>>]

AbiConfiguration ==
    [producer_key |-> <<F("producer_name", "name"), F("block_signing_key", "public_key")>>,
     producer_schedule |-> <<F("version", "uint32"), A("producers", "producer_key")>>,
     block_signing_authority_v0 |-> <<F("threshold", "uint32"), A("keys", "key_weight")>>,
     producer_authority |-> <<F("producer_name", "name"),
         F("authority", "block_signing_authority")>>,
     producer_authority_schedule |-> <<F("version", "uint32"),
         A("producers", "producer_authority")>>,
     chain_config_v0 |-> <<F("max_block_net_usage", "uint64")>> \o Each("uint32",
         <<"target_block_net_usage_pct", "max_transaction_net_usage",
         "base_per_transaction_net_usage", "net_usage_leeway",
         "context_free_discount_net_usage_num", "context_free_discount_net_usage_den",
         "max_block_cpu_usage", "target_block_cpu_usage_pct", "max_transaction_cpu_usage",
         "min_transaction_cpu_usage", "max_transaction_lifetime",
         "deferred_trx_expiration_window", "max_transaction_delay",
         "max_inline_action_size">>) \o <<F("max_inline_action_depth", "uint16"),
         F("max_authority_depth", "uint16")>>,
     chain_config_v1 |-> <<F("max_block_net_usage", "uint64")>> \o Each("uint32",
         <<"target_block_net_usage_pct", "max_transaction_net_usage",
         "base_per_transaction_net_usage", "net_usage_leeway",
         "context_free_discount_net_usage_num", "context_free_discount_net_usage_den",
         "max_block_cpu_usage", "target_block_cpu_usage_pct", "max_transaction_cpu_usage",
         "min_transaction_cpu_usage", "max_transaction_lifetime",
         "deferred_trx_expiration_window", "max_transaction_delay",
         "max_inline_action_size">>) \o <<F("max_inline_action_depth", "uint16"),
         F("max_authority_depth", "uint16"), F("max_action_return_value_size", "uint32")>>,
     global_property_v0 |-> <<O("proposed_schedule_block_num", "uint32"),
         F("proposed_schedule", "producer_schedule"), F("configuration", "chain_config")>>,
     global_property_v1 |-> <<O("proposed_schedule_block_num", "uint32"),
         F("proposed_schedule", "producer_authority_schedule"),
         F("configuration", "chain_config"), F("chain_id", "checksum256")>>,
     generated_transaction_v0 |-> <<F("sender", "name"), F("sender_id", "uint128"),
         F("payer", "name"), F("trx_id", "checksum256"), F("packed_trx", "bytes")>>,
     activated_protocol_feature_v0 |-> <<F("feature_digest", "checksum256"),
         F("activation_block_num", "uint32")>>,
     protocol_state_v0 |-> <<A("activated_protocol_features", "activated_protocol_feature")>>,
     key_weight |-> <<F("key", "public_key"), F("weight", "uint16")>>]

AbiPermissions ==
    [permission_level |-> <<F("actor", "name"), F("permission", "name")>>,
     permission_level_weight |-> <<F("permission", "permission_level"), F("weight", "uint16")>>,
     wait_weight |-> <<F("wait_sec", "uint32"), F("weight", "uint16")>>,
     authority |-> <<F("threshold", "uint32"), A("keys", "key_weight"),
         A("accounts", "permission_level_weight"), A("waits", "wait_weight")>>,
     permission_v0 |-> Each("name", <<"owner", "name", "parent">>)
         \o <<F("last_updated", "time_point"), F("auth", "authority")>>,
     permission_link_v0 |-> Each("name", <<"account", "code", "message_type",
         "required_permission">>),
     resource_limits_v0 |-> <<F("owner", "name")>> \o Each("int64", <<"net_weight", "cpu_weight",
         "ram_bytes">>),
     usage_accumulator_v0 |-> <<F("last_ordinal", "uint32"), F("value_ex", "uint64"),
         F("consumed", "uint64")>>,
     resource_usage_v0 |-> <<F("owner", "name"), F("net_usage", "usage_accumulator"),
         F("cpu_usage", "usage_accumulator"), F("ram_usage", "uint64")>>,
     resource_limits_state_v0 |-> <<F("average_block_net_usage", "usage_accumulator"),
         F("average_block_cpu_usage", "usage_accumulator")>> \o Each("uint64",
         <<"total_net_weight", "total_cpu_weight", "total_ram_bytes", "virtual_net_limit",
         "virtual_cpu_limit">>),
     resource_limits_ratio_v0 |-> <<F("numerator", "uint64"), F("denominator", "uint64")>>,
     elastic_limit_parameters_v0 |-> <<F("target", "uint64"), F("max", "uint64"),
         F("periods", "uint32"), F("max_multiplier", "uint32"),
         F("contract_rate", "resource_limits_ratio"),
         F("expand_rate", "resource_limits_ratio")>>,
     resource_limits_config_v0 |-> <<F("cpu_limit_parameters", "elastic_limit_parameters"),
         F("net_limit_parameters", "elastic_limit_parameters"),
         F("account_cpu_usage_average_window", "uint32"),
         F("account_net_usage_average_window", "uint32")>>]

AbiPrunable ==
    [prunable_data_full_legacy |-> <<A("signatures", "signature"),
         F("packed_context_segments", "bytes")>>,
     prunable_data_full |-> <<A("signatures", "signature"), A("context_free_segments", "bytes")>>,
     prunable_data_partial |-> <<A("signatures", "signature"),
         A("context_free_segments", "context_free_segment_type")>>,
     prunable_data_none |-> <<F("prunable_digest", "signature")>>,
     transaction_trace_exception |-> <<F("error_code", "int64"), F("error_message", "string")>>]

AbiStructs ==
    AbiMessages @@ AbiTraces @@ AbiBlocks @@ AbiRows @@ AbiConfiguration @@ AbiPermissions
    @@ AbiPrunable

AbiBases ==
    [transaction_receipt_v0 |-> "transaction_receipt_header",
     transaction_receipt_v1 |-> "transaction_receipt_header",
     signed_block_header |-> "block_header",
     signed_block_v0 |-> "signed_block_header",
     signed_block_v1 |-> "signed_block_header",
     transaction |-> "transaction_header"]

AbiAliases == [transaction_id |-> "checksum256"]

AbiVariants ==
    [request |-> <<"get_status_request_v0", "get_blocks_request_v0", "get_blocks_ack_request_v0">>,
     result |-> <<"get_status_result_v0", "get_blocks_result_v0", "get_blocks_result_v1">>,
     action_receipt |-> <<"action_receipt_v0">>,
     action_trace |-> <<"action_trace_v0", "action_trace_v1">>,
     partial_transaction |-> <<"partial_transaction_v0", "partial_transaction_v1">>,
     transaction_trace |-> <<"transaction_trace_v0">>,
     transaction_variant_v0 |-> <<"transaction_id", "packed_transaction_v0">>,
     transaction_variant_v1 |-> <<"transaction_id", "packed_transaction_v1">>,
     signed_block |-> <<"signed_block_v0", "signed_block_v1">>,
     prunable_data_type |-> <<"prunable_data_full_legacy", "prunable_data_none",
         "prunable_data_partial", "prunable_data_full">>,
     context_free_segment_type |-> <<"signature", "bytes">>,
     table_delta |-> <<"table_delta_v0", "table_delta_v1">>,
     account |-> <<"account_v0">>,
     account_metadata |-> <<"account_metadata_v0">>,
     code |-> <<"code_v0">>,
     contract_table |-> <<"contract_table_v0">>,
     contract_row |-> <<"contract_row_v0">>,
     contract_index64 |-> <<"contract_index64_v0">>,
     contract_index128 |-> <<"contract_index128_v0">>,
     contract_index256 |-> <<"contract_index256_v0">>,
     contract_index_double |-> <<"contract_index_double_v0">>,
     contract_index_long_double |-> <<"contract_index_long_double_v0">>,
     key_value |-> <<"key_value_v0">>,
     chain_config |-> <<"chain_config_v0", "chain_config_v1">>,
     global_property |-> <<"global_property_v0", "global_property_v1">>,
     generated_transaction |-> <<"generated_transaction_v0">>,
     activated_protocol_feature |-> <<"activated_protocol_feature_v0">>,
     protocol_state |-> <<"protocol_state_v0">>,
     permission |-> <<"permission_v0">>,
     permission_link |-> <<"permission_link_v0">>,
     resource_limits |-> <<"resource_limits_v0">>,
     usage_accumulator |-> <<"usage_accumulator_v0">>,
     resource_usage |-> <<"resource_usage_v0">>,
     resource_limits_state |-> <<"resource_limits_state_v0">>,
     resource_limits_ratio |-> <<"resource_limits_ratio_v0">>,
     elastic_limit_parameters |-> <<"elastic_limit_parameters_v0">>,
     resource_limits_config |-> <<"resource_limits_config_v0">>,
     block_signing_authority |-> <<"block_signing_authority_v0">>,
     transaction_trace_msg |-> <<"transaction_trace_exception", "transaction_trace">>]

-----------------------------------------------------------------------------
\* The C++ types.  vector is an array, might_not_exist an extension.

CppIndexRow(type) ==
    Each("name", <<"code", "scope", "table">>)
    \o <<F("primary_key", "uint64_t"), F("payer", "name"), F("secondary_key", type)>>

\* get_blocks_result_v0 has a base, of which the abi knows nothing.
CppMessages ==
    [extension |-> <<F("type", "uint16_t"), F("data", "input_stream")>>,
     get_status_request_v0 |-> <<>>,
     block_position |-> <<F("block_num", "uint32_t"), F("block_id", "checksum256")>>,
     get_status_result_v0 |-> <<F("head", "block_position"),
         F("last_irreversible", "block_position")>> \o Each("uint32_t", <<"trace_begin_block",
         "trace_end_block", "chain_state_begin_block", "chain_state_end_block">>)
         \o <<E("chain_id", "checksum256")>>,
     get_blocks_request_v0 |-> Each("uint32_t", <<"start_block_num", "end_block_num",
         "max_messages_in_flight">>) \o <<A("have_positions", "block_position")>>
         \o Each("bool", <<"irreversible_only", "fetch_block", "fetch_traces",
         "fetch_deltas">>),
     get_blocks_ack_request_v0 |-> <<F("num_messages", "uint32_t")>>,
     get_blocks_result_base |-> <<F("head", "block_position"),
         F("last_irreversible", "block_position"), O("this_block", "block_position"),
         O("prev_block", "block_position")>>,
     get_blocks_result_v0 |-> <<O("block", "input_stream"), O("traces", "input_stream"),
         O("deltas", "input_stream")>>,
     row_v0 |-> <<F("present", "bool"), F("data", "input_stream")>>,
     table_delta_v0 |-> <<F("name", "string"), A("rows", "row_v0")>>]

CppTraces ==
    [permission_level |-> <<F("actor", "name"), F("permission", "name")>>,
     action |-> <<F("account", "name"), F("name", "name"), A("authorization", "permission_level"),
         F("data", "input_stream")>>,
     account_auth_sequence |-> <<F("account", "name"), F("sequence", "uint64_t")>>,
     action_receipt_v0 |-> <<F("receiver", "name"), F("act_digest", "checksum256"),
         F("global_sequence", "uint64_t"), F("recv_sequence", "uint64_t"),
         A("auth_sequence", "account_auth_sequence"), F("code_sequence", "varuint32"),
         F("abi_sequence", "varuint32")>>,
     account_delta |-> <<F("account", "name"), F("delta", "int64_t")>>,
     action_trace_v0 |-> <<F("action_ordinal", "varuint32"),
         F("creator_action_ordinal", "varuint32"), O("receipt", "action_receipt"),
         F("receiver", "name"), F("act", "action"), F("context_free", "bool"),
         F("elapsed", "int64_t"), F("console", "string"),
         A("account_ram_deltas", "account_delta"), O("except", "string"),
         O("error_code", "uint64_t")>>,
     action_trace_v1 |-> <<F("action_ordinal", "varuint32"),
         F("creator_action_ordinal", "varuint32"), O("receipt", "action_receipt"),
         F("receiver", "name"), F("act", "action"), F("context_free", "bool"),
         F("elapsed", "int64_t"), F("console", "string"),
         A("account_ram_deltas", "account_delta"), O("except", "string"),
         O("error_code", "uint64_t"), F("return_value", "input_stream")>>,
     partial_transaction_v0 |-> <<F("expiration", "time_point_sec"),
         F("ref_block_num", "uint16_t"), F("ref_block_prefix", "uint32_t"),
         F("max_net_usage_words", "varuint32"), F("max_cpu_usage_ms", "uint8_t"),
         F("delay_sec", "varuint32"), A("transaction_extensions", "extension"),
         A("signatures", "signature"), A("context_free_data", "input_stream")>>,
     transaction_trace_v0 |-> <<F("id", "checksum256"), F("status", "transaction_status"),
         F("cpu_usage_us", "uint32_t"), F("net_usage_words", "varuint32"),
         F("elapsed", "int64_t"), F("net_usage", "uint64_t"), F("scheduled", "bool"),
         A("action_traces", "action_trace"), O("account_ram_delta", "account_delta"),
         O("except", "string"), O("error_code", "uint64_t"),
         A("failed_dtrx_trace", "recurse_transaction_trace"),
         O("partial", "partial_transaction")>>]

CppBlocks ==
    [producer_key |-> <<F("producer_name", "name"), F("block_signing_key", "public_key")>>,
     producer_schedule |-> <<F("version", "uint32_t"), A("producers", "producer_key")>>,
     transaction_receipt_header |-> <<F("status", "transaction_status"),
         F("cpu_usage_us", "uint32_t"), F("net_usage_words", "varuint32")>>,
     packed_transaction |-> <<A("signatures", "signature"), F("compression", "uint8_t"),
         F("packed_context_free_data", "input_stream"), F("packed_trx", "input_stream")>>,
     transaction_receipt_v0 |-> <<F("trx", "transaction_variant_v0")>>,
     transaction_receipt |-> <<F("trx", "transaction_variant")>>,
     block_header |-> <<F("timestamp", "block_timestamp"), F("producer", "name"),
         F("confirmed", "uint16_t")>> \o Each("checksum256", <<"previous",
         "transaction_mroot", "action_mroot">>) \o <<F("schedule_version", "uint32_t"),
         O("new_producers", "producer_schedule"), A("header_extensions", "extension")>>,
     signed_block_header |-> <<F("producer_signature", "signature")>>,
     signed_block |-> <<A("transactions", "transaction_receipt_v0"),
         A("block_extensions", "extension")>>,
     transaction_header |-> <<F("expiration", "time_point_sec"), F("ref_block_num", "uint16_t"),
         F("ref_block_prefix", "uint32_t"), F("max_net_usage_words", "varuint32"),
         F("max_cpu_usage_ms", "uint8_t"), F("delay_sec", "varuint32")>>,
     transaction |-> <<A("context_free_actions", "action"), A("actions", "action"),
         A("transaction_extensions", "extension")>>]

CppRows ==
    [code_id |-> <<F("vm_type", "uint8_t"), F("vm_version", "uint8_t"),
         F("code_hash", "checksum256")>>,
     account_v0 |-> <<F("name", "name"), F("creation_date", "block_timestamp"),
         F("abi", "input_stream")>>,
     account_metadata_v0 |-> <<F("name", "name"), F("privileged", "bool"),
         F("last_code_update", "time_point"), O("code", "code_id")>>,
     code_v0 |-> <<F("vm_type", "uint8_t"), F("vm_version", "uint8_t"),
         F("code_hash", "checksum256"), F("code", "input_stream")>>,
     contract_table_v0 |-> Each("name", <<"code", "scope", "table", "payer">>),
     contract_row_v0 |-> Each("name", <<"code", "scope", "table">>)
         \o <<F("primary_key", "uint64_t"), F("payer", "name"), F("value", "input_stream")>>,
     contract_index64_v0 |-> CppIndexRow("uint64_t"),
     contract_index128_v0 |-> CppIndexRow("uint128_t"),
     contract_index256_v0 |-> CppIndexRow("checksum256"),
     contract_index_double_v0 |-> CppIndexRow("double"),
     contract_index_long_double_v0 |-> CppIndexRow("float128")]

CppConfiguration ==
    [key_weight |-> <<F("key", "public_key"), F("weight", "uint16_t")>>,
     block_signing_authority_v0 |-> <<F("threshold", "uint32_t"), A("keys", "key_weight")>>,
     producer_authority |-> <<F("producer_name", "name"),
         F("authority", "block_signing_authority")>>,
     producer_authority_schedule |-> <<F("version", "uint32_t"),
         A("producers", "producer_authority")>>,
     chain_config_v0 |-> <<F("max_block_net_usage", "uint64_t")>> \o Each("uint32_t",
         <<"target_block_net_usage_pct", "max_transaction_net_usage",
         "base_per_transaction_net_usage", "net_usage_leeway",
         "context_free_discount_net_usage_num", "context_free_discount_net_usage_den",
         "max_block_cpu_usage", "target_block_cpu_usage_pct", "max_transaction_cpu_usage",
         "min_transaction_cpu_usage", "max_transaction_lifetime",
         "deferred_trx_expiration_window", "max_transaction_delay",
         "max_inline_action_size">>) \o <<F("max_inline_action_depth", "uint16_t"),
         F("max_authority_depth", "uint16_t")>>,
     chain_config_v1 |-> <<F("max_block_net_usage", "uint64_t")>> \o Each("uint32_t",
         <<"target_block_net_usage_pct", "max_transaction_net_usage",
         "base_per_transaction_net_usage", "net_usage_leeway",
         "context_free_discount_net_usage_num", "context_free_discount_net_usage_den",
         "max_block_cpu_usage", "target_block_cpu_usage_pct", "max_transaction_cpu_usage",
         "min_transaction_cpu_usage", "max_transaction_lifetime",
         "deferred_trx_expiration_window", "max_transaction_delay",
         "max_inline_action_size">>) \o <<F("max_inline_action_depth", "uint16_t"),
         F("max_authority_depth", "uint16_t"), F("max_action_return_value_size", "uint32_t")>>,
     wasm_config_v0 |-> Each("uint32_t", <<"max_mutable_global_bytes", "max_table_elements",
         "max_section_elements", "max_linear_memory_init", "max_func_local_bytes",
         "max_nested_structures", "max_symbol_bytes", "max_module_bytes", "max_code_bytes",
         "max_pages", "max_call_depth">>),
     global_property_v0 |-> <<O("proposed_schedule_block_num", "uint32_t"),
         F("proposed_schedule", "producer_schedule"), F("configuration", "chain_config")>>,
     global_property_v1 |-> <<O("proposed_schedule_block_num", "uint32_t"),
         F("proposed_schedule", "producer_authority_schedule"),
         F("configuration", "chain_config"), F("chain_id", "checksum256"),
         E("wasm_configuration", "wasm_config")>>]

CppPermissions ==
    [generated_transaction_v0 |-> <<F("sender", "name"), F("sender_id", "uint128_t"),
         F("payer", "name"), F("trx_id", "checksum256"), F("packed_trx", "input_stream")>>,
     activated_protocol_feature_v0 |-> <<F("feature_digest", "checksum256"),
         F("activation_block_num", "uint32_t")>>,
     protocol_state_v0 |-> <<A("activated_protocol_features", "activated_protocol_feature")>>,
     permission_level_weight |-> <<F("permission", "permission_level"), F("weight", "uint16_t")>>,
     wait_weight |-> <<F("wait_sec", "uint32_t"), F("weight", "uint16_t")>>,
     authority |-> <<F("threshold", "uint32_t"), A("keys", "key_weight"),
         A("accounts", "permission_level_weight"), A("waits", "wait_weight")>>,
     permission_v0 |-> Each("name", <<"owner", "name", "parent">>)
         \o <<F("last_updated", "time_point"), F("auth", "authority")>>,
     permission_link_v0 |-> Each("name", <<"account", "code", "message_type",
         "required_permission">>),
     resource_limits_v0 |-> <<F("owner", "name")>> \o Each("int64_t", <<"net_weight", "cpu_weight",
         "ram_bytes">>),
     usage_accumulator_v0 |-> <<F("last_ordinal", "uint32_t"), F("value_ex", "uint64_t"),
         F("consumed", "uint64_t")>>,
     resource_usage_v0 |-> <<F("owner", "name"), F("net_usage", "usage_accumulator"),
         F("cpu_usage", "usage_accumulator"), F("ram_usage", "uint64_t")>>,
     resource_limits_state_v0 |-> <<F("average_block_net_usage", "usage_accumulator"),
         F("average_block_cpu_usage", "usage_accumulator")>> \o Each("uint64_t",
         <<"total_net_weight", "total_cpu_weight", "total_ram_bytes", "virtual_net_limit",
         "virtual_cpu_limit">>),
     resource_limits_ratio_v0 |-> <<F("numerator", "uint64_t"), F("denominator", "uint64_t")>>,
     elastic_limit_parameters_v0 |-> <<F("target", "uint64_t"), F("max", "uint64_t"),
         F("periods", "uint32_t"), F("max_multiplier", "uint32_t"),
         F("contract_rate", "resource_limits_ratio"),
         F("expand_rate", "resource_limits_ratio")>>,
     resource_limits_config_v0 |-> <<F("cpu_limit_parameters", "elastic_limit_parameters"),
         F("net_limit_parameters", "elastic_limit_parameters"),
         F("account_cpu_usage_average_window", "uint32_t"),
         F("account_net_usage_average_window", "uint32_t")>>]

CppStructs ==
    CppMessages @@ CppTraces @@ CppBlocks @@ CppRows @@ CppConfiguration @@ CppPermissions

CppBases ==
    [get_blocks_result_v0 |-> "get_blocks_result_base",
     transaction_receipt_v0 |-> "transaction_receipt_header",
     transaction_receipt |-> "transaction_receipt_header",
     signed_block_header |-> "block_header",
     signed_block |-> "signed_block_header",
     transaction |-> "transaction_header"]

\* recurse_transaction_trace is its only member in binary and JSON.
CppAliases == [recurse_transaction_trace |-> "transaction_trace"]

CppVariants ==
    [request |-> <<"get_status_request_v0", "get_blocks_request_v0", "get_blocks_ack_request_v0">>,
     table_delta |-> <<"table_delta_v0">>,
     action_receipt |-> <<"action_receipt_v0">>,
     action_trace |-> <<"action_trace_v0", "action_trace_v1">>,
     partial_transaction |-> <<"partial_transaction_v0">>,
     transaction_trace |-> <<"transaction_trace_v0">>,
     transaction_variant_v0 |-> <<"checksum256", "packed_transaction">>,
     transaction_variant |-> <<"checksum256", "packed_transaction">>,
     result |-> <<"get_status_result_v0", "get_blocks_result_v0">>,
     account |-> <<"account_v0">>,
     account_metadata |-> <<"account_metadata_v0">>,
     code |-> <<"code_v0">>,
     contract_table |-> <<"contract_table_v0">>,
     contract_row |-> <<"contract_row_v0">>,
     contract_index64 |-> <<"contract_index64_v0">>,
     contract_index128 |-> <<"contract_index128_v0">>,
     contract_index256 |-> <<"contract_index256_v0">>,
     contract_index_double |-> <<"contract_index_double_v0">>,
     contract_index_long_double |-> <<"contract_index_long_double_v0">>,
     block_signing_authority |-> <<"block_signing_authority_v0">>,
     chain_config |-> <<"chain_config_v0", "chain_config_v1">>,
     wasm_config |-> <<"wasm_config_v0">>,
     global_property |-> <<"global_property_v0", "global_property_v1">>,
     generated_transaction |-> <<"generated_transaction_v0">>,
     activated_protocol_feature |-> <<"activated_protocol_feature_v0">>,
     protocol_state |-> <<"protocol_state_v0">>,
     permission |-> <<"permission_v0">>,
     permission_link |-> <<"permission_link_v0">>,
     resource_limits |-> <<"resource_limits_v0">>,
     usage_accumulator |-> <<"usage_accumulator_v0">>,
     resource_usage |-> <<"resource_usage_v0">>,
     resource_limits_state |-> <<"resource_limits_state_v0">>,
     resource_limits_ratio |-> <<"resource_limits_ratio_v0">>,
     elastic_limit_parameters |-> <<"elastic_limit_parameters_v0">>,
     resource_limits_config |-> <<"resource_limits_config_v0">>]

\* What an abi calls the types whose binary form is the same.
AbiNameOf ==
    [bool |-> "bool", string |-> "string", input_stream |-> "bytes",
     uint8_t |-> "uint8", uint16_t |-> "uint16", uint32_t |-> "uint32", uint64_t |-> "uint64",
     uint128_t |-> "uint128", int64_t |-> "int64", double |-> "float64", float128 |-> "float128",
     varuint32 |-> "varuint32", transaction_status |-> "uint8", name |-> "name",
     time_point |-> "time_point", time_point_sec |-> "time_point_sec",
     block_timestamp |-> "block_timestamp_type", checksum256 |-> "checksum256",
     public_key |-> "public_key", signature |-> "signature"]
=============================================================================
