----------------------------- MODULE MCRpcClient -----------------------------
(***************************************************************************)
(* One program that makes five calls on two files, with two descriptors.   *)
(***************************************************************************)
EXTENDS RpcClient

MCModes == {{"RDWR"}}
=============================================================================
