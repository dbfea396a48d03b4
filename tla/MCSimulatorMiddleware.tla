----------------------- MODULE MCSimulatorMiddleware -----------------------
(* A PLC that switches everything on, and half of it off.                  *)
EXTENDS SimulatorMiddleware

McWrites ==
  {[c \in Coils |-> TRUE], [c \in {"heater_on", "water_on"} |-> FALSE]}

\* Once something was written, no call that starts looks at the clock or the
\* cache; a call that decided earlier may still copy the cache.
Copying == \E t \in Thread : req[t].at = "copy"

McView ==
  <<act, process, mutex, written_to, req, changed,
    IF written_to THEN <<>> ELSE <<time_last_read, now>>,
    IF written_to /\ ~Copying THEN <<>> ELSE cache>>
=============================================================================
