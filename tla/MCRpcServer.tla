---------------------------- MODULE MCRpcServer -----------------------------
(***************************************************************************)
(* Instances of RpcServer: single requests and notifications, batches that *)
(* mix requests, notifications, unknown methods and bad parameters, the    *)
(* empty batch, and a body that is no request.                             *)
(***************************************************************************)
EXTENDS RpcServer

Read(id) == RpcRequest(id, "starknet_getStorageAt", "ok")
Call(id) == RpcRequest(id, "starknet_call", "ok")
Bad(id) == RpcRequest(id, "starknet_getNonce", "bad")
Unknown(id) == RpcRequest(id, "starknet_unknown", "ok")

Single(r) == [kind |-> "single", reqs |-> <<r>>]
Batch(s) == [kind |-> "batch", reqs |-> s]

MCBodies ==
  {NoBody, Single(Read(1)), Single(Call(None)), Batch(<<>>),
   Batch(<<Call(None), Unknown(2), Read(3)>>),
   Batch(<<Bad(1), Unknown(None), Call(1)>>)}
=============================================================================
