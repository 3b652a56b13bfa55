------------------------ MODULE MCResiliencePolicy ------------------------
(* Two callers that share a breaker, and two of which one has none.  The    *)
(* faults: one worth a retry everywhere, one that the provider and the      *)
(* client class differently, and a panic.                                   *)
EXTENDS ResiliencePolicy

CONSTANTS c1, c2

MCUnprotected == {{}, {c2}}
MCFaults == {"NewUnavailable", "NewRateLimit", "panic"}
=============================================================================
