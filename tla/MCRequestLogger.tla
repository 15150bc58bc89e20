-------------------------- MODULE MCRequestLogger ---------------------------
(* An instance of RequestLogger with one request of each kind. *)
EXTENDS RequestLogger

MCRequests == {"plain", "whitelisted", "malformed"}
MCWhitelisted == {"whitelisted"}
MCMalformed == {"malformed"}
=============================================================================
