---------------------------- MODULE AtomicRestore ----------------------------
(***************************************************************************)
(* What a restore of a backup promises.  The memory gateway, which starts  *)
(* only where no restore is pending, is shown the files as a whole: a      *)
(* restore happens at once or not at all, while the gateway is down, and   *)
(* only between two changes made by the services and commands.             *)
(***************************************************************************)
CONSTANTS Files, Installed, Contents, Backup, Own, Env, NoFile

VARIABLES
  found,    \* what each file holds for a gateway that starts
  foundOwn, \* and the part of settings.env that no archive has
  shown     \* both, as a running gateway reads them, <<>> while it is down

vars == <<found, foundOwn, shown>>

Down == shown = <<>>

\* A service or a command changes one file, under the gateway if it is up.
Change(f) ==
  /\ \E v \in Contents : found' = [found EXCEPT ![f] = v]
  /\ IF f = Env THEN foundOwn' \in Own ELSE UNCHANGED foundOwn
  /\ shown' = IF Down THEN <<>> ELSE <<found', foundOwn'>>

\* Every file that the archive has, and nothing else.
Install ==
  /\ Down
  /\ found' = [f \in Files |-> IF f \in Installed THEN Backup ELSE found[f]]
  /\ UNCHANGED <<foundOwn, shown>>

Start ==
  /\ Down
  /\ shown' = <<found, foundOwn>>
  /\ UNCHANGED <<found, foundOwn>>

Stop ==
  /\ shown' = <<>>
  /\ UNCHANGED <<found, foundOwn>>

Init == Down /\ (found[Env] = NoFile => foundOwn = NoFile)

Next == Install \/ Start \/ Stop \/ \E f \in Files : Change(f)

Spec == Init /\ [][Next]_vars

=============================================================================
