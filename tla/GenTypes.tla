------------------------------ MODULE GenTypes ------------------------------
(***************************************************************************)
(* The types of the Starknet and Pathfinder interfaces (gen.rs): those     *)
(* that the methods exchange, and those nested in them that are read by    *)
(* trying alternatives.                                                    *)
(***************************************************************************)
EXTENDS WireTypes

Felt == Scalar("hex")
Address == Felt
TxnHash == Felt
StorageKey == Scalar("hex")
Number == Scalar("number")
Text == Scalar("text")
Flag == Scalar("word")

\* A version, plain or as a query (0x10...0n).
Version(n) == {<<n>>, <<n, "query">>}
Plain(n) == {<<n>>}

Typed(words, t) == Tagged("type", {<<w>> : w \in words}, t)
Txn_(type, version, req) == Typed({type}, Tagged("version", version, Struct(req, {})))

BlockId ==
  Struct({"block_hash"}, {}) \o Struct({"block_number"}, {}) \o Scalar("word")

-----------------------------------------------------------------------------
(* Transactions. *)

FunctionCall == Struct({"calldata", "contract_address", "entry_point_selector"}, {})

\* What every transaction of version 3 has.
V3Fields == {"fee_data_availability_mode", "nonce", "nonce_data_availability_mode",
             "paymaster_data", "resource_bounds", "signature", "tip"}

InvokeTxnV0 == Txn_("INVOKE", Version("0x0"),
  {"calldata", "contract_address", "entry_point_selector", "max_fee", "signature"})
InvokeTxnV1 == Txn_("INVOKE", Version("0x1"),
  {"calldata", "max_fee", "nonce", "sender_address", "signature"})
InvokeTxnV3 == Txn_("INVOKE", Version("0x3"),
  V3Fields \cup {"account_deployment_data", "calldata", "sender_address"})
InvokeTxn == InvokeTxnV0 \o InvokeTxnV1 \o InvokeTxnV3

L1HandlerTxn == Flatten(Txn_("L1_HANDLER", Plain("0x0"), {"nonce"}), FunctionCall)

\* Variant: the version of a first declaration may be anything.
DeclareTxnV0_AnyVersion == Typed({"DECLARE"},
  Struct({"class_hash", "max_fee", "sender_address", "signature", "version"}, {}))

DeclareTxnV0 == Txn_("DECLARE", Version("0x0"),
  {"class_hash", "max_fee", "sender_address", "signature"})
DeclareTxnV1 == Txn_("DECLARE", Version("0x1"),
  {"class_hash", "max_fee", "nonce", "sender_address", "signature"})
DeclareTxnV2 == Txn_("DECLARE", Version("0x2"),
  {"class_hash", "compiled_class_hash", "max_fee", "nonce", "sender_address", "signature"})
DeclareTxnV3 == Txn_("DECLARE", Version("0x3"),
  V3Fields \cup {"account_deployment_data", "class_hash", "compiled_class_hash",
                 "sender_address"})
DeclareTxn == DeclareTxnV0 \o DeclareTxnV1 \o DeclareTxnV2 \o DeclareTxnV3

DeployTxn == Typed({"DEPLOY"},
  Struct({"class_hash", "constructor_calldata", "contract_address_salt", "version"}, {}))

DeployAccountTxnV1 == Txn_("DEPLOY_ACCOUNT", Version("0x1"),
  {"class_hash", "constructor_calldata", "contract_address_salt", "max_fee", "nonce",
   "signature"})
DeployAccountTxnV3 == Txn_("DEPLOY_ACCOUNT", Version("0x3"),
  V3Fields \cup {"class_hash", "constructor_calldata", "contract_address_salt"})
DeployAccountTxn == DeployAccountTxnV1 \o DeployAccountTxnV3

Txn == InvokeTxn \o L1HandlerTxn \o DeclareTxn \o DeployTxn \o DeployAccountTxn

TransactionsInBlock == Flatten(Struct({"transaction_hash"}, {}), Txn)
GetTransactionByHashResult == Flatten(Struct({"transaction_hash"}, {}), Txn)
GetTransactionByBlockIdAndIndexResult == Flatten(Struct({"transaction_hash"}, {}), Txn)

BroadcastedDeclareTxnV1 == Txn_("DECLARE", Version("0x1"),
  {"contract_class", "max_fee", "nonce", "sender_address", "signature"})
BroadcastedDeclareTxnV2 == Txn_("DECLARE", Version("0x2"),
  {"compiled_class_hash", "contract_class", "max_fee", "nonce", "sender_address",
   "signature"})
BroadcastedDeclareTxnV3 == Txn_("DECLARE", Version("0x3"),
  V3Fields \cup {"account_deployment_data", "compiled_class_hash", "contract_class",
                 "sender_address"})
BroadcastedDeclareTxn ==
  BroadcastedDeclareTxnV1 \o BroadcastedDeclareTxnV2 \o BroadcastedDeclareTxnV3
BroadcastedDeployAccountTxn == DeployAccountTxn
BroadcastedInvokeTxn == InvokeTxn
BroadcastedTxn ==
  BroadcastedInvokeTxn \o BroadcastedDeclareTxn \o BroadcastedDeployAccountTxn

-----------------------------------------------------------------------------
(* Receipts. *)

SuccessfulCommonReceiptProperties == Tagged("execution_status", {<<"SUCCEEDED">>}, Struct({}, {}))
RevertedCommonReceiptProperties ==
  Tagged("execution_status", {<<"REVERTED">>}, Struct({"revert_reason"}, {}))
ResultCommonReceiptProperties ==
  SuccessfulCommonReceiptProperties \o RevertedCommonReceiptProperties

CommonReceiptProperties ==
  Flatten(Struct({"actual_fee", "events", "execution_resources", "finality_status",
                  "messages_sent", "transaction_hash"}, {}),
          ResultCommonReceiptProperties)

Receipt(type, req) == Typed({type}, Flatten(Struct(req, {}), CommonReceiptProperties))

InvokeTxnReceipt == Receipt("INVOKE", {})
L1HandlerTxnReceipt == Receipt("L1_HANDLER", {"message_hash"})
DeclareTxnReceipt == Receipt("DECLARE", {})
DeployTxnReceipt == Receipt("DEPLOY", {"contract_address"})
DeployAccountTxnReceipt == Receipt("DEPLOY_ACCOUNT", {"contract_address"})
TxnReceipt == InvokeTxnReceipt \o L1HandlerTxnReceipt \o DeclareTxnReceipt
              \o DeployTxnReceipt \o DeployAccountTxnReceipt
TxnReceiptWithBlockInfo == Flatten(Struct({}, {"block_hash", "block_number"}), TxnReceipt)

-----------------------------------------------------------------------------
(* Traces. *)

FunctionInvocation ==
  Flatten(Struct({"call_type", "caller_address", "calls", "class_hash", "entry_point_type",
                  "events", "execution_resources", "messages", "result"}, {}),
          FunctionCall)
InvokeTxnTraceExecuteInvocation == FunctionInvocation \o Struct({"revert_reason"}, {})

InvokeTxnTrace == Typed({"INVOKE"},
  Struct({"execute_invocation", "execution_resources"},
         {"fee_transfer_invocation", "state_diff", "validate_invocation"}))
DeclareTxnTrace == Typed({"DECLARE"},
  Struct({"execution_resources"},
         {"fee_transfer_invocation", "state_diff", "validate_invocation"}))
DeployAccountTxnTrace == Typed({"DEPLOY_ACCOUNT"},
  Struct({"constructor_invocation", "execution_resources"},
         {"fee_transfer_invocation", "state_diff", "validate_invocation"}))
L1HandlerTxnTrace == Typed({"L1_HANDLER"},
  Struct({"execution_resources", "function_invocation"}, {"state_diff"}))
TransactionTrace ==
  InvokeTxnTrace \o DeclareTxnTrace \o DeployAccountTxnTrace \o L1HandlerTxnTrace
BlockTransactionTrace == Struct({}, {"trace_root", "transaction_hash"})
SimulatedTransaction == Struct({}, {"fee_estimation", "transaction_trace"})

-----------------------------------------------------------------------------
(* Blocks and state updates. *)

BlockHeader ==
  Struct({"block_hash", "block_number", "l1_gas_price", "new_root", "parent_hash",
          "sequencer_address", "starknet_version", "timestamp"},
         {"l1_da_mode", "l1_data_gas_price"})
PendingBlockHeader ==
  Struct({"l1_da_mode", "l1_data_gas_price", "l1_gas_price", "parent_hash",
          "sequencer_address", "starknet_version", "timestamp"}, {})
BlockBody == Struct({"transactions"}, {})

\* A block with its status, header and body, and one that is pending.
Block == Flatten(Flatten(Struct({"status"}, {}), BlockHeader), BlockBody)
PendingBlock == Flatten(BlockBody, PendingBlockHeader)

GetBlockWithTxHashesResult == Block \o PendingBlock
GetBlockWithTxsResult == Block \o PendingBlock
GetBlockWithReceiptsResult == Block \o PendingBlock

StateUpdate == Struct({"block_hash", "new_root", "old_root", "state_diff"}, {})
PendingStateUpdate == Struct({"old_root", "state_diff"}, {})
\* Variant: the pending update is tried first.
GetStateUpdateResult_PendingFirst == PendingStateUpdate \o StateUpdate
GetStateUpdateResult == StateUpdate \o PendingStateUpdate

-----------------------------------------------------------------------------
(* Classes. *)

DeprecatedContractClass == Struct({"entry_points_by_type", "program"}, {"abi"})
ContractClass ==
  Struct({"contract_class_version", "entry_points_by_type", "sierra_program"}, {"abi"})
GetClassResult == DeprecatedContractClass \o ContractClass
GetClassAtResult == DeprecatedContractClass \o ContractClass

FunctionAbiEntry == Typed({"function", "l1_handler", "constructor"},
  Struct({"inputs", "name", "outputs"}, {"stateMutability"}))
EventAbiEntry == Typed({"event"}, Struct({"data", "keys", "name"}, {}))
StructAbiEntry == Typed({"struct"}, Struct({"members", "name", "size"}, {}))
ContractAbiEntry == FunctionAbiEntry \o EventAbiEntry \o StructAbiEntry

-----------------------------------------------------------------------------
(* Proofs, events and the rest. *)

BinaryNode == Struct({"binary"}, {})
EdgeNode == Struct({"edge"}, {})
Node == BinaryNode \o EdgeNode
GetProofResult ==
  Struct({"contract_proof"}, {"class_commitment", "contract_data", "state_commitment"})

EventFilter == Struct({}, {"address", "from_block", "keys", "to_block"})
ResultPageRequest == Struct({"chunk_size"}, {"continuation_token"})
GetEventsFilter == Flatten(EventFilter, ResultPageRequest)
EventContent == Struct({"data", "keys"}, {})
Event == Flatten(Struct({"from_address"}, {}), EventContent)
EmittedEvent ==
  Flatten(Struct({"transaction_hash"}, {"block_hash", "block_number"}), Event)
OrderedEvent == Flatten(Struct({}, {"order"}), Event)
MsgToL1 == Struct({"from_address", "payload", "to_address"}, {})
OrderedMessage == Flatten(Struct({}, {"order"}), MsgToL1)
EventsChunk == Struct({"events"}, {"continuation_token"})

MsgFromL1 == Struct({"entry_point_selector", "from_address", "payload", "to_address"}, {})
FeeEstimate == Struct({"gas_consumed", "gas_price", "overall_fee", "unit"},
                      {"data_gas_consumed", "data_gas_price"})
ComputationResources ==
  Struct({"steps"},
         {"bitwise_builtin_applications", "ec_op_builtin_applications",
          "ecdsa_builtin_applications", "keccak_builtin_applications", "memory_holes",
          "pedersen_builtin_applications", "poseidon_builtin_applications",
          "range_check_builtin_applications", "segment_arena_builtin"})
ExecutionResources == Flatten(Struct({}, {"data_availability"}), ComputationResources)

SyncStatus ==
  Struct({"current_block_hash", "current_block_num", "highest_block_hash",
          "highest_block_num", "starting_block_hash", "starting_block_num"}, {})
SyncingResult == Flag \o SyncStatus
BlockHashAndNumberResult == Struct({"block_hash", "block_number"}, {})
GetTransactionStatusResult == Struct({"finality_status"}, {"execution_status"})
AddInvokeTransactionResult == Struct({"transaction_hash"}, {})
AddDeclareTransactionResult == Struct({"class_hash", "transaction_hash"}, {})
AddDeployAccountTransactionResult == Struct({"contract_address", "transaction_hash"}, {})
=============================================================================
