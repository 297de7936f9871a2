---------------------------- MODULE MCGateway ----------------------------
(* Small instances of Gateway for TLC: one account-wide stream, the request
   ids from 1000 on, the connection error 1100.                            *)
EXTENDS Gateway

MCStreams == {1}
MCCodes == {"1100"}
===========================================================================
