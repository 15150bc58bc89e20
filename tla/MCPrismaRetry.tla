--------------------------- MODULE MCPrismaRetry ----------------------------
(* Errors of PrismaRetry's instances: a lost connection, a validation      *)
(* error whose message says "timeout", and one nobody knows.               *)
EXTENDS PrismaRetry

MCErrors == {{"message"}, {"validation", "message"}, {}}
=============================================================================
