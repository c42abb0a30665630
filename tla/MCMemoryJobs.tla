--------------------------- MODULE MCMemoryJobs ---------------------------
(* Small instances of MemoryJobs.  Times are in ticks: a lease outlives one    *)
(* backoff step, the relationship pause fits twice into its maximum.           *)
EXTENDS MemoryJobs

\* backoff_base_seconds = 1 tick, doubled at each attempt
MCBackoff == [a \in 1..MaxAttempts |-> 2 ^ (a - 1)]
=============================================================================
