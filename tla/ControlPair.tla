----------------------------- MODULE ControlPair -----------------------------
(***************************************************************************)
(* What the control plane of the model gateway promises: config.json and   *)
(* secrets.env are one pair.  It changes at once or not at all, only to a  *)
(* valid pair, only by a caller who knew the config being replaced; and a  *)
(* caller is only ever shown a pair that was current when it was read.     *)
(***************************************************************************)
CONSTANTS Procs, NoConfig, Default, NoView, Empty, Compatible

VARIABLES pair, seen

Init ==
  /\ pair = [config |-> NoConfig, secrets |-> Empty]
  /\ seen = [p \in Procs |-> NoView]

Create ==
  /\ pair.config = NoConfig
  /\ pair' = [pair EXCEPT !.config = Default]
  /\ UNCHANGED seen

See(p) ==
  /\ pair.config # NoConfig
  /\ seen' = [seen EXCEPT ![p] = pair]
  /\ UNCHANGED pair

Forget(p) ==
  /\ seen' = [seen EXCEPT ![p] = NoView]
  /\ UNCHANGED pair

Publish(p) ==
  /\ seen[p] # NoView
  /\ seen[p].config = pair.config
  /\ pair' \in Compatible
  /\ UNCHANGED seen

Next == Create \/ \E p \in Procs : See(p) \/ Forget(p) \/ Publish(p)

Spec == Init /\ [][Next]_<<pair, seen>>

=============================================================================
