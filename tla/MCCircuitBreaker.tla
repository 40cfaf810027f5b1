--------------------------- MODULE MCCircuitBreaker ---------------------------
(* The breaker with three tasks, a threshold of two failures, and cooldowns of *)
(* two ticks and three.                                                        *)
EXTENDS CircuitBreaker

CONSTANTS c1, c2, c3

MCCaller == {c1, c2, c3}
===============================================================================
