--------------------------- MODULE MCEventsGateway ---------------------------
(***************************************************************************)
(* Instances of EventsGateway for TLC: two sockets of one user with        *)
(* sessions of different lengths, one longer than the longest timer, and   *)
(* three rooms of two kinds with place for one of each.                    *)
(***************************************************************************)
EXTENDS EventsGateway

CONSTANTS u1, s1, s2, a1, a2, d1

MCOwner == [s \in Socket |-> u1]

\* The session of s1 ends while the clock runs, that of s2 after three ticks.
MCExp == [s \in Socket |-> IF s = s1 THEN 1 ELSE 3]

MCPrefix == [r \in Room |-> IF r = d1 THEN "dashboard" ELSE "availability"]
============================================================================
