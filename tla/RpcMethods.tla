----------------------------- MODULE RpcMethods -----------------------------
(***************************************************************************)
(* The methods of the interface (gen.rs): how a handler of the server      *)
(* names and types its parameters and which function of Rpc it calls; what *)
(* the context (rpc.rs) does with the call; and how a method of a client   *)
(* names and orders what it sends, and the type it reads the result as.    *)
(***************************************************************************)
EXTENDS GenTypes

-----------------------------------------------------------------------------
(* The handlers of the server: ArgByName, ArgByPos and the call. *)

Handler(fn, names, types) == [fn |-> fn, names |-> names, types |-> types]

handle_getProof == Handler("getProof",
  <<"block_id", "contract_address", "keys">>, <<BlockId, Address, List(StorageKey)>>)
handle_getTxStatus == Handler("getTxStatus", <<"transaction_hash">>, <<TxnHash>>)
handle_version == Handler("version", <<>>, <<>>)
handle_addDeclareTransaction == Handler("addDeclareTransaction",
  <<"declare_transaction">>, <<BroadcastedDeclareTxn>>)
handle_addDeployAccountTransaction == Handler("addDeployAccountTransaction",
  <<"deploy_account_transaction">>, <<BroadcastedDeployAccountTxn>>)
handle_addInvokeTransaction == Handler("addInvokeTransaction",
  <<"invoke_transaction">>, <<BroadcastedInvokeTxn>>)
handle_blockHashAndNumber == Handler("blockHashAndNumber", <<>>, <<>>)
handle_blockNumber == Handler("blockNumber", <<>>, <<>>)
handle_call == Handler("call", <<"request", "block_id">>, <<FunctionCall, BlockId>>)
handle_chainId == Handler("chainId", <<>>, <<>>)
handle_estimateFee == Handler("estimateFee",
  <<"request", "simulation_flags", "block_id">>,
  <<List(BroadcastedTxn), List(Flag), BlockId>>)
handle_estimateMessageFee == Handler("estimateMessageFee",
  <<"message", "block_id">>, <<MsgFromL1, BlockId>>)
handle_getBlockTransactionCount == Handler("getBlockTransactionCount",
  <<"block_id">>, <<BlockId>>)
handle_getBlockWithReceipts == Handler("getBlockWithReceipts",
  <<"block_id">>, <<BlockId>>)
handle_getBlockWithTxHashes == Handler("getBlockWithTxHashes",
  <<"block_id">>, <<BlockId>>)
handle_getBlockWithTxs == Handler("getBlockWithTxs", <<"block_id">>, <<BlockId>>)
handle_getClass == Handler("getClass", <<"block_id", "class_hash">>, <<BlockId, Felt>>)
handle_getClassAt == Handler("getClassAt",
  <<"block_id", "contract_address">>, <<BlockId, Address>>)
handle_getClassHashAt == Handler("getClassHashAt",
  <<"block_id", "contract_address">>, <<BlockId, Address>>)
handle_getEvents == Handler("getEvents", <<"filter">>, <<GetEventsFilter>>)
handle_getNonce == Handler("getNonce",
  <<"block_id", "contract_address">>, <<BlockId, Address>>)
handle_getStateUpdate == Handler("getStateUpdate", <<"block_id">>, <<BlockId>>)
handle_getStorageAt == Handler("getStorageAt",
  <<"contract_address", "key", "block_id">>, <<Address, StorageKey, BlockId>>)
handle_getTransactionByBlockIdAndIndex == Handler("getTransactionByBlockIdAndIndex",
  <<"block_id", "index">>, <<BlockId, Number>>)
handle_getTransactionByHash == Handler("getTransactionByHash",
  <<"transaction_hash">>, <<TxnHash>>)
handle_getTransactionReceipt == Handler("getTransactionReceipt",
  <<"transaction_hash">>, <<TxnHash>>)
handle_getTransactionStatus == Handler("getTransactionStatus",
  <<"transaction_hash">>, <<TxnHash>>)
handle_simulateTransactions == Handler("simulateTransactions",
  <<"block_id", "transactions", "simulation_flags">>,
  <<BlockId, List(BroadcastedTxn), List(Flag)>>)
handle_specVersion == Handler("specVersion", <<>>, <<>>)
handle_syncing == Handler("syncing", <<>>, <<>>)
handle_traceBlockTransactions == Handler("traceBlockTransactions",
  <<"block_id">>, <<BlockId>>)
handle_traceTransaction == Handler("traceTransaction",
  <<"transaction_hash">>, <<TxnHash>>)

\* The dispatch by name.
Handlers ==
  "pathfinder_getProof" :> handle_getProof @@
  "pathfinder_getTxStatus" :> handle_getTxStatus @@
  "pathfinder_version" :> handle_version @@
  "starknet_addDeclareTransaction" :> handle_addDeclareTransaction @@
  "starknet_addDeployAccountTransaction" :> handle_addDeployAccountTransaction @@
  "starknet_addInvokeTransaction" :> handle_addInvokeTransaction @@
  "starknet_blockHashAndNumber" :> handle_blockHashAndNumber @@
  "starknet_blockNumber" :> handle_blockNumber @@
  "starknet_call" :> handle_call @@
  "starknet_chainId" :> handle_chainId @@
  "starknet_estimateFee" :> handle_estimateFee @@
  "starknet_estimateMessageFee" :> handle_estimateMessageFee @@
  "starknet_getBlockTransactionCount" :> handle_getBlockTransactionCount @@
  "starknet_getBlockWithReceipts" :> handle_getBlockWithReceipts @@
  "starknet_getBlockWithTxHashes" :> handle_getBlockWithTxHashes @@
  "starknet_getBlockWithTxs" :> handle_getBlockWithTxs @@
  "starknet_getClass" :> handle_getClass @@
  "starknet_getClassAt" :> handle_getClassAt @@
  "starknet_getClassHashAt" :> handle_getClassHashAt @@
  "starknet_getEvents" :> handle_getEvents @@
  "starknet_getNonce" :> handle_getNonce @@
  "starknet_getStateUpdate" :> handle_getStateUpdate @@
  "starknet_getStorageAt" :> handle_getStorageAt @@
  "starknet_getTransactionByBlockIdAndIndex" :> handle_getTransactionByBlockIdAndIndex @@
  "starknet_getTransactionByHash" :> handle_getTransactionByHash @@
  "starknet_getTransactionReceipt" :> handle_getTransactionReceipt @@
  "starknet_getTransactionStatus" :> handle_getTransactionStatus @@
  "starknet_simulateTransactions" :> handle_simulateTransactions @@
  "starknet_specVersion" :> handle_specVersion @@
  "starknet_syncing" :> handle_syncing @@
  "starknet_traceBlockTransactions" :> handle_traceBlockTransactions @@
  "starknet_traceTransaction" :> handle_traceTransaction

-----------------------------------------------------------------------------
(* The asynchronous client: the method, the tuple of its arguments, the    *)
(* type of its result.                                                     *)

Method(name, args, result) == [name |-> name, args |-> args, result |-> result]

client_getProof == Method("pathfinder_getProof",
  <<"block_id", "contract_address", "keys">>, GetProofResult)
client_getTxStatus == Method("pathfinder_getTxStatus", <<"transaction_hash">>, Flag)
client_version == Method("pathfinder_version", <<>>, Text)
client_addDeclareTransaction == Method("starknet_addDeclareTransaction",
  <<"declare_transaction">>, AddDeclareTransactionResult)
client_addDeployAccountTransaction == Method("starknet_addDeployAccountTransaction",
  <<"deploy_account_transaction">>, AddDeployAccountTransactionResult)
client_addInvokeTransaction == Method("starknet_addInvokeTransaction",
  <<"invoke_transaction">>, AddInvokeTransactionResult)
client_blockHashAndNumber == Method("starknet_blockHashAndNumber",
  <<>>, BlockHashAndNumberResult)
client_blockNumber == Method("starknet_blockNumber", <<>>, Number)
client_call == Method("starknet_call", <<"request", "block_id">>, List(Felt))
client_chainId == Method("starknet_chainId", <<>>, Felt)
client_estimateFee == Method("starknet_estimateFee",
  <<"request", "simulation_flags", "block_id">>, List(FeeEstimate))
client_estimateMessageFee == Method("starknet_estimateMessageFee",
  <<"message", "block_id">>, FeeEstimate)
client_getBlockTransactionCount == Method("starknet_getBlockTransactionCount",
  <<"block_id">>, Number)
client_getBlockWithReceipts == Method("starknet_getBlockWithReceipts",
  <<"block_id">>, GetBlockWithReceiptsResult)
client_getBlockWithTxHashes == Method("starknet_getBlockWithTxHashes",
  <<"block_id">>, GetBlockWithTxHashesResult)
client_getBlockWithTxs == Method("starknet_getBlockWithTxs",
  <<"block_id">>, GetBlockWithTxsResult)
client_getClass == Method("starknet_getClass",
  <<"block_id", "class_hash">>, GetClassResult)
client_getClassAt == Method("starknet_getClassAt",
  <<"block_id", "contract_address">>, GetClassAtResult)
client_getClassHashAt == Method("starknet_getClassHashAt",
  <<"block_id", "contract_address">>, Felt)
client_getEvents == Method("starknet_getEvents", <<"filter">>, EventsChunk)
client_getNonce == Method("starknet_getNonce", <<"block_id", "contract_address">>, Felt)
client_getStateUpdate == Method("starknet_getStateUpdate",
  <<"block_id">>, GetStateUpdateResult)
client_getStorageAt == Method("starknet_getStorageAt",
  <<"contract_address", "key", "block_id">>, Felt)
client_getTransactionByBlockIdAndIndex == Method("starknet_getTransactionByBlockIdAndIndex",
  <<"block_id", "index">>, GetTransactionByBlockIdAndIndexResult)
client_getTransactionByHash == Method("starknet_getTransactionByHash",
  <<"transaction_hash">>, GetTransactionByHashResult)
client_getTransactionReceipt == Method("starknet_getTransactionReceipt",
  <<"transaction_hash">>, TxnReceiptWithBlockInfo)
client_getTransactionStatus == Method("starknet_getTransactionStatus",
  <<"transaction_hash">>, GetTransactionStatusResult)
client_simulateTransactions == Method("starknet_simulateTransactions",
  <<"block_id", "transactions", "simulation_flags">>, List(SimulatedTransaction))
client_specVersion == Method("starknet_specVersion", <<>>, Text)
client_syncing == Method("starknet_syncing", <<>>, SyncingResult)
client_traceBlockTransactions == Method("starknet_traceBlockTransactions",
  <<"block_id">>, List(BlockTransactionTrace))
client_traceTransaction == Method("starknet_traceTransaction",
  <<"transaction_hash">>, TransactionTrace)

Client == [
  getProof |-> client_getProof, getTxStatus |-> client_getTxStatus,
  version |-> client_version, addDeclareTransaction |-> client_addDeclareTransaction,
  addDeployAccountTransaction |-> client_addDeployAccountTransaction,
  addInvokeTransaction |-> client_addInvokeTransaction,
  blockHashAndNumber |-> client_blockHashAndNumber, blockNumber |-> client_blockNumber,
  call |-> client_call, chainId |-> client_chainId, estimateFee |-> client_estimateFee,
  estimateMessageFee |-> client_estimateMessageFee,
  getBlockTransactionCount |-> client_getBlockTransactionCount,
  getBlockWithReceipts |-> client_getBlockWithReceipts,
  getBlockWithTxHashes |-> client_getBlockWithTxHashes,
  getBlockWithTxs |-> client_getBlockWithTxs, getClass |-> client_getClass,
  getClassAt |-> client_getClassAt, getClassHashAt |-> client_getClassHashAt,
  getEvents |-> client_getEvents, getNonce |-> client_getNonce,
  getStateUpdate |-> client_getStateUpdate, getStorageAt |-> client_getStorageAt,
  getTransactionByBlockIdAndIndex |-> client_getTransactionByBlockIdAndIndex,
  getTransactionByHash |-> client_getTransactionByHash,
  getTransactionReceipt |-> client_getTransactionReceipt,
  getTransactionStatus |-> client_getTransactionStatus,
  simulateTransactions |-> client_simulateTransactions,
  specVersion |-> client_specVersion, syncing |-> client_syncing,
  traceBlockTransactions |-> client_traceBlockTransactions,
  traceTransaction |-> client_traceTransaction]

-----------------------------------------------------------------------------
(* The blocking client: the methods that the executor uses.                *)

blocking_getProof == Method("pathfinder_getProof",
  <<"block_id", "contract_address", "keys">>, GetProofResult)
blocking_getClass == Method("starknet_getClass",
  <<"block_id", "class_hash">>, GetClassResult)
blocking_getClassHashAt == Method("starknet_getClassHashAt",
  <<"block_id", "contract_address">>, Felt)
blocking_getNonce == Method("starknet_getNonce",
  <<"block_id", "contract_address">>, Felt)
\* Variant: the key before the address, which looks the same.
blocking_getStorageAt_KeyFirst == Method("starknet_getStorageAt",
  <<"key", "contract_address", "block_id">>, Felt)
blocking_getStorageAt == Method("starknet_getStorageAt",
  <<"contract_address", "key", "block_id">>, Felt)

BlockingClient == [
  getProof |-> blocking_getProof, getClass |-> blocking_getClass,
  getClassHashAt |-> blocking_getClassHashAt, getNonce |-> blocking_getNonce,
  getStorageAt |-> blocking_getStorageAt]

\* The types inside a result that are read by trying alternatives or flattened
\* from parts: each such value is read by itself, and the result only if all are.
NestedTypes == [
  getBlockWithTxs |-> {TransactionsInBlock},
  getBlockWithReceipts |-> {TxnReceipt, Txn},
  getClass |-> {ContractAbiEntry}, getClassAt |-> {ContractAbiEntry},
  getEvents |-> {EmittedEvent}, getProof |-> {Node},
  getTransactionReceipt |-> {Event, ExecutionResources},
  simulateTransactions |-> {FeeEstimate, TransactionTrace},
  traceBlockTransactions |-> {TransactionTrace},
  traceTransaction |-> {InvokeTxnTraceExecuteInvocation, OrderedEvent, OrderedMessage,
                        ExecutionResources}]

-----------------------------------------------------------------------------
(* The context: but for call and getStorageAt, a function of Rpc calls the *)
(* client's function of the same name with its parameters in order.        *)

SameFunction(fns) == [f \in fns |-> f]

ContextWrites == SameFunction(
  {"addDeclareTransaction", "addDeployAccountTransaction", "addInvokeTransaction"})
ContextHead == SameFunction({"blockHashAndNumber", "blockNumber"})
ContextFees == SameFunction({"chainId", "estimateFee", "estimateMessageFee"})
ContextBlocks == SameFunction(
  {"getBlockTransactionCount", "getBlockWithReceipts", "getBlockWithTxHashes",
   "getBlockWithTxs"})
ContextState == SameFunction(
  {"getClass", "getClassAt", "getClassHashAt", "getEvents", "getNonce", "getStateUpdate"})
ContextTransactions == SameFunction(
  {"getTransactionByBlockIdAndIndex", "getTransactionByHash", "getTransactionReceipt",
   "getTransactionStatus", "simulateTransactions"})
ContextRest == SameFunction(
  {"specVersion", "syncing", "traceBlockTransactions", "traceTransaction"})
ContextPathfinder == SameFunction({"getProof", "getTxStatus", "version"})

Context ==
  ContextWrites @@ ContextHead @@ ContextFees @@ ContextBlocks @@ ContextState
    @@ ContextTransactions @@ ContextRest @@ ContextPathfinder
=============================================================================
