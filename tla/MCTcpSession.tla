------------------------------ MODULE MCTcpSession ------------------------------
(* TcpSession for TLC; its constants are small numbers, given in the .cfg.   *)
EXTENDS TcpSession
================================================================================
