---------------------------- MODULE OutboxContract ----------------------------
(***************************************************************************)
(* What the finalize outbox promises of each turn it accepted, and nothing *)
(* about tasks, leases, attempts or time: the turn stays live until it is  *)
(* done or given up, it is done only once its ingest has completed, its    *)
(* ingest may be run again, and only a settled turn is forgotten, after    *)
(* which the same turn may be accepted anew.                               *)
(***************************************************************************)
CONSTANT Jobs

VARIABLES
  phase,    \* absent, live, done or failed
  ingested  \* turns whose ingest has completed since they were accepted

vars == <<phase, ingested>>

Phases == {"absent", "live", "done", "failed"}

\* What one step may make of a turn: several turns can move at once, because
\* every transaction of the outbox first gives up the turns that are too old.
Moves ==
  {<<p, p>> : p \in Phases}
    \cup {<<"absent", "live">>, <<"live", "done">>, <<"live", "failed">>,
          <<"done", "absent">>, <<"failed", "absent">>}

\* Expired and deleted by the same prune.
Dropped == {<<"live", "absent">>}

Init ==
  /\ phase \in [Jobs -> {"absent", "live"}]
  /\ ingested = {}

Ingest(j) ==
  /\ ingested' = ingested \cup {j}
  /\ UNCHANGED phase

Settle ==
  /\ phase' \in [Jobs -> Phases]
  /\ \A j \in Jobs :
       /\ <<phase[j], phase'[j]>> \in Moves \cup Dropped
       /\ phase[j] = "live" /\ phase'[j] = "done" => j \in ingested
  /\ ingested' = ingested \ {j \in Jobs : phase[j] = "absent" /\ phase'[j] = "live"}

Next == (\E j \in Jobs : Ingest(j)) \/ Settle

Spec == Init /\ [][Next]_vars

=============================================================================
