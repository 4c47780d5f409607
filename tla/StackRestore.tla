----------------------------- MODULE StackRestore -----------------------------
(***************************************************************************)
(* Restoring a portable backup over a stopped stack.  The files are        *)
(* replaced one after another under a journal that names each of them      *)
(* before it is touched; a failure or a death in between is undone from    *)
(* copies, by the same process or by a later one.  Until then the memory   *)
(* gateway does not start, but nothing else looks at the journal: the      *)
(* Model Gateway and the commands of memgw go on reading and writing the   *)
(* files they own, half restored as they are.  Both services are stopped   *)
(* before a restore or a recovery begins, and while that command runs      *)
(* nobody else is taken to touch the files.                                *)
(*                                                                         *)
(* Every replacement of a file is durable and atomic (write, fsync,        *)
(* rename), so an action is one of them.  Steps that only read, and what   *)
(* is checked of the archive before anything is written, are not modelled. *)
(***************************************************************************)
EXTENDS Naturals, Sequences, SequencesExt

CONSTANTS
  Files,      \* targets of a restore
  Databases,  \* those that are SQLite databases
  Unguarded,  \* those written without a look at the journal: by the Model
              \* Gateway, by "memgw config", "secret" and "token", by scripts
  Env,        \* settings.env
  Archived,   \* the files the archive has, in the order they are restored
  Written,    \* what services and commands write into a file
  Backup,     \* what the archive holds
  Own,        \* secrets and device-local settings, which are part of Env
  NoFile,
  Unsound,    \* contents that the archive's validators refuse
  MaxWork,    \* bound of the model: changes by services and commands
  MaxRestores,\* bound of the model: restores begun
  MaxFaults   \* bound of the model: deaths and failed steps

ASSUME RestoreAssumption ==
  /\ Databases \subseteq Files /\ Unguarded \subseteq Files /\ Env \in Files \ Databases
  /\ Archived \in Seq(Files) /\ IsInjective(Archived)
  /\ Archived # <<>>   \* some components of a version 2 archive are required; an
                       \* empty one of version 1 changes nothing and is left out
  /\ \A i \in DOMAIN Archived : Archived[i] = Env => i = Len(Archived)
  /\ NoFile \notin Written \cup Unsound \cup {Backup} /\ Backup \notin Written \cup Unsound
  /\ {MaxWork, MaxRestores, MaxFaults} \subseteq Nat

VARIABLES
  main,     \* each file itself
  wal,      \* what a database's log makes of it, NoFile without a log
  own,      \* the part of settings.env that no archive has
  bak,      \* settings.env.bak, a copy with secrets
  journal,  \* restore-journal.json of the latest restore
  copies,   \* its rollback copies
  ownCopy,  \* of "own"
  proc,     \* the restore or recovery that runs
  up,       \* whether the memory gateway runs
  work, restores, faults

restoreVars == <<main, wal, own, bak, journal, copies, ownCopy, proc, up, work, restores, faults>>
stack == <<main, wal, own>>
saved == <<journal, copies, ownCopy>>
others == <<up, work, restores, faults>>

Held == Written \cup Unsound \cup {Backup, NoFile}
Closed == {"complete", "rolled_back"}

\* An operation of the journal, and an entry of the list "modified".
Operation == [file: Files, had: BOOLEAN]

\* "at" is the position of the file at hand, "ops" the journal's operations as
\* the process has them, "undo" those still to be rolled back, "errors" whether
\* one could not be, "recovering" whether another process than the failed one
\* rolls back.
Proc == [pc: {"off", "prepare", "save", "note", "bak", "replace", "unlink", "done",
              "finish", "undo", "unbak", "report"},
         at: 0..Len(Archived), ops: Seq(Operation), undo: Seq(Operation),
         errors: BOOLEAN, recovering: BOOLEAN]

Off == [pc |-> "off", at |-> 0, ops |-> <<>>, undo |-> <<>>, errors |-> FALSE,
        recovering |-> FALSE]

RestoreTypeOK ==
  /\ main \in [Files -> Held] /\ wal \in [Databases -> Held]
  /\ own \in Own \cup {NoFile} /\ ownCopy \in Own \cup {NoFile}
  /\ bak \in BOOLEAN
  /\ journal \in [status: Closed \cup {"prepared", "rollback_incomplete"}, operations: Seq(Operation)]
  /\ copies \in [Files -> Held]
  /\ proc \in Proc /\ up \in BOOLEAN
  /\ work \in 0..MaxWork /\ restores \in 0..MaxRestores /\ faults \in 0..MaxFaults
  /\ \A d \in Databases : main[d] = NoFile => wal[d] = NoFile

\* The services are stopped, the latest journal is closed, some files may not
\* exist yet.  Which contents exist at the start is up to the services.
RestoreInit ==
  /\ main \in [Files -> Written \cup Unsound \cup {NoFile}]
  /\ wal = [d \in Databases |-> NoFile]
  /\ own \in IF main[Env] = NoFile THEN {NoFile} ELSE Own
  /\ bak = FALSE
  /\ journal = [status |-> "complete", operations |-> <<>>]
  /\ copies = [f \in Files |-> NoFile] /\ ownCopy = NoFile
  /\ proc = Off /\ up = FALSE
  /\ work = 0 /\ restores = 0 /\ faults = 0

\* incomplete_restore_journals
Pending == journal.status \notin Closed

At(pc) == proc.pc = pc
Goto(pc) == proc' = [proc EXCEPT !.pc = pc]
File == Archived[proc.at]
HasCopy == copies[File] # NoFile

\* What an open of the file would read.
Content(f) == IF f \in Databases /\ wal[f] # NoFile THEN wal[f] ELSE main[f]

\* _prepare_sqlite_target_for_replace: the log goes into the file, and away.
Folded(f) == IF f \in Databases THEN [wal EXCEPT ![f] = NoFile] ELSE wal

-----------------------------------------------------------------------------
(* Services and commands *)

\* lifespan of the memory gateway, which looks at the journal first.
StartGateway ==
  /\ At("off") /\ ~Pending
  /\ ~up /\ up' = TRUE
  /\ UNCHANGED <<stack, bak, saved, proc, work, restores, faults>>

StopGateway ==
  /\ up /\ up' = FALSE
  /\ UNCHANGED <<stack, bak, saved, proc, work, restores, faults>>

\* The memory gateway writes a file, or somebody who does not look at the
\* journal does; a database may keep it in its log.
Work ==
  /\ At("off")
  /\ work < MaxWork /\ work' = work + 1
  /\ \E f \in Files, v \in Written :
       /\ up \/ f \in Unguarded
       /\ \/ /\ main' = [main EXCEPT ![f] = v] /\ wal' = Folded(f)
             /\ IF f = Env THEN own' \in Own /\ bak' = (main[Env] # NoFile)
                           ELSE UNCHANGED <<own, bak>>
          \/ /\ f \in Databases /\ main[f] # NoFile
             /\ wal' = [wal EXCEPT ![f] = v]
             /\ UNCHANGED <<main, own, bak>>
  /\ UNCHANGED <<saved, proc, up, restores, faults>>

-----------------------------------------------------------------------------
(* restore_stack_backup *)

\* Its command stops the services (_stop_stack_for_offline_restore).  It recovers
\* what is pending first (Recover), and only then writes a journal.
BeginRestore ==
  /\ At("off") /\ ~Pending
  /\ restores < MaxRestores /\ restores' = restores + 1
  /\ journal' = [status |-> "prepared", operations |-> <<>>]
  /\ copies' = [f \in Files |-> NoFile] /\ ownCopy' = NoFile
  /\ proc' = [Off EXCEPT !.pc = "prepare", !.at = 1]
  /\ up' = FALSE
  /\ UNCHANGED <<stack, bak, work, faults>>

\* Slip: the copy is taken of the file without the log beside it.
PrepareNot ==
  /\ At("prepare")
  /\ Goto("save")
  /\ UNCHANGED <<stack, bak, saved, others>>

\* The committed pages of a stopped service belong into the copy.
Prepare ==
  /\ At("prepare")
  /\ main' = [main EXCEPT ![File] = Content(File)] /\ wal' = Folded(File)
  /\ Goto("save")
  /\ UNCHANGED <<own, bak, saved, others>>

\* _save_rollback
Save ==
  /\ At("save")
  /\ copies' = [copies EXCEPT ![File] = main[File]]
  /\ ownCopy' = IF File = Env THEN own ELSE ownCopy
  /\ Goto("note")
  /\ UNCHANGED <<stack, bak, journal, others>>

\* From here on the file takes part in a rollback, in this process and in others.
Note ==
  /\ At("note")
  /\ LET op == [file |-> File, had |-> HasCopy] IN
     /\ journal' = [journal EXCEPT !.operations = Append(@, op)]
     /\ proc' = [proc EXCEPT !.ops = Append(@, op), !.undo = Append(@, op),
                             !.pc = IF File = Env THEN "bak" ELSE "replace"]
  /\ UNCHANGED <<stack, copies, ownCopy, bak, others>>

\* write_env_atomic leaves a copy beside the file it is about to replace.
Bak ==
  /\ At("bak")
  /\ bak' = (bak \/ main[Env] # NoFile)
  /\ Goto("replace")
  /\ UNCHANGED <<stack, saved, others>>

\* _atomic_restore.  The settings of the archive are merged into settings.env,
\* whose own part stays.
ReplaceFile ==
  /\ At("replace")
  /\ main' = [main EXCEPT ![File] = Backup] /\ wal' = Folded(File)
  /\ Goto(IF File = Env THEN "unlink" ELSE "done")
  /\ UNCHANGED <<own, bak, saved, others>>

Unlink ==
  /\ At("unlink")
  /\ bak' = FALSE
  /\ Goto("done")
  /\ UNCHANGED <<stack, saved, others>>

\* The journal's note that the file was replaced, which nothing reads.
Done ==
  /\ At("done")
  /\ proc' = IF proc.at < Len(Archived) THEN [proc EXCEPT !.pc = "prepare", !.at = @ + 1]
                                        ELSE [proc EXCEPT !.pc = "finish"]
  /\ UNCHANGED <<stack, bak, saved, others>>

Finish ==
  /\ At("finish")
  /\ journal' = [journal EXCEPT !.status = "complete"]
  /\ proc' = Off
  /\ UNCHANGED <<stack, bak, copies, ownCopy, others>>

-----------------------------------------------------------------------------
(* Rolling back *)

\* Slip: only the journal of a process that died is pending.
RecoverPrepared ==
  /\ journal.status = "prepared"
  /\ At("off") /\ Pending
  /\ proc' = [Off EXCEPT !.pc = "undo", !.ops = journal.operations,
                          !.undo = journal.operations, !.recovering = TRUE]
  /\ UNCHANGED <<stack, bak, saved, others>>

\* recover_interrupted_stack_restores: "memgw stack recover-restore", or the
\* next restore, over a memory gateway that is down as it could not start.
Recover ==
  /\ At("off") /\ Pending
  /\ proc' = [Off EXCEPT !.pc = "undo", !.ops = journal.operations,
                          !.undo = journal.operations, !.recovering = TRUE]
  /\ UNCHANGED <<stack, bak, saved, others>>

\* Copies go through the validators of the archive, but for settings.env.
Refused(op) == op.had /\ op.file # Env /\ copies[op.file] \in Unsound

\* What the file is when the operation is undone: its copy, or gone.
Undone(op) == IF op.had THEN copies[op.file] ELSE NoFile

Latest == Last(proc.undo)

Undo ==
  /\ At("undo") /\ proc.undo # <<>> /\ ~Refused(Latest)
  /\ main' = [main EXCEPT ![Latest.file] = Undone(Latest)] /\ wal' = Folded(Latest.file)
  /\ own' = IF Latest.file = Env THEN (IF Latest.had THEN ownCopy ELSE NoFile) ELSE own
  /\ proc' = [proc EXCEPT !.undo = Front(@)]
  /\ UNCHANGED <<bak, saved, others>>

\* The failed process goes on with the next operation, a recovery ends.
NotUndone ==
  proc' = IF proc.recovering THEN Off ELSE [proc EXCEPT !.undo = Front(@), !.errors = TRUE]

UndoRefused ==
  /\ At("undo") /\ proc.undo # <<>> /\ Refused(Latest)
  /\ NotUndone
  /\ UNCHANGED <<stack, bak, saved, others>>

UndoEnds ==
  /\ At("undo") /\ proc.undo = <<>>
  /\ Goto("unbak")
  /\ UNCHANGED <<stack, bak, saved, others>>

\* Slip: a rollback leaves the copy that write_env_atomic made.
UnbakNot ==
  /\ At("unbak")
  /\ Goto("report")
  /\ UNCHANGED <<stack, bak, saved, others>>

Unbak ==
  /\ At("unbak")
  /\ bak' = FALSE
  /\ Goto("report")
  /\ UNCHANGED <<stack, saved, others>>

\* The journal is written as the process has it, with the operation that could
\* not be noted before.
Report ==
  /\ At("report")
  /\ journal' = [status |-> IF proc.errors THEN "rollback_incomplete" ELSE "rolled_back",
                 operations |-> proc.ops]
  /\ proc' = Off
  /\ UNCHANGED <<stack, bak, copies, ownCopy, others>>

-----------------------------------------------------------------------------
(* Faults *)

Fault == faults < MaxFaults /\ faults' = faults + 1

Inside == {"prepare", "save", "note", "bak", "replace", "unlink", "done"}

\* The step at hand raises.  An operation that could not be noted on disk is in
\* the list of this process all the same.
Fail ==
  /\ Fault
  /\ \/ /\ proc.pc \in Inside
        /\ proc' = [proc EXCEPT !.pc = "undo"]
     \/ /\ At("note")
        /\ LET op == [file |-> File, had |-> HasCopy] IN
           proc' = [proc EXCEPT !.pc = "undo", !.ops = Append(@, op), !.undo = Append(@, op)]
     \/ At("undo") /\ proc.undo # <<>> /\ NotUndone
     \/ proc.pc \in {"unbak", "report", "finish"} /\ proc' = Off
  /\ UNCHANGED <<stack, bak, saved, up, work, restores>>

Die ==
  /\ Fault
  /\ ~At("off") /\ proc' = Off
  /\ UNCHANGED <<stack, bak, saved, up, work, restores>>

-----------------------------------------------------------------------------

Step ==
  \/ Prepare \/ Save \/ Note \/ Bak \/ ReplaceFile \/ Unlink \/ Done \/ Finish
  \/ Undo \/ UndoRefused \/ UndoEnds \/ Unbak \/ Report

RestoreNext == StartGateway \/ StopGateway \/ Work \/ BeginRestore \/ Recover \/ Step \/ Fail \/ Die

RestoreSpec == RestoreInit /\ [][RestoreNext]_restoreVars

\* A command that runs goes on, and whoever finds the services refusing to
\* start runs the recovery their message names.
FairSpec == RestoreSpec /\ WF_restoreVars(Step) /\ WF_restoreVars(Recover)

-----------------------------------------------------------------------------
(* Properties *)

\* What the memory gateway will find once no journal is pending: the files, with
\* those that a pending journal names as they were before.  Whatever is written
\* into one of those meanwhile is undone with it.
Noted(f) == {i \in DOMAIN journal.operations : journal.operations[i].file = f}

\* A rollback comes last to the operation that was noted first.
FirstNoted(f) == journal.operations[CHOOSE i \in Noted(f) : \A j \in Noted(f) : i <= j]

Found == [f \in Files |->
  IF Pending /\ Noted(f) # {} THEN Undone(FirstNoted(f)) ELSE Content(f)]

FoundOwn ==
  IF Pending /\ Noted(Env) # {} THEN (IF FirstNoted(Env).had THEN ownCopy ELSE NoFile) ELSE own

\* What it reads while it runs is what the files hold.
Shown == IF up THEN <<[f \in Files |-> Content(f)], own>> ELSE <<>>

Contract == INSTANCE AtomicRestore WITH
  found <- Found, foundOwn <- FoundOwn, shown <- Shown,
  Installed <- Range(Archived), Contents <- Written

\* Through every death and failed step, and whatever is written without a look
\* at the journal, what the memory gateway reads while it runs is the files of
\* before the restore, with all of what was committed, or those of the archive;
\* never some of each.  The secrets and the device-local settings are the same
\* in both.  Only what was written into a noted file while its journal was
\* pending is undone with it (restore_stack_backup, lifespan of main.py).
RestoresAllOrNothing == Contract!Spec

\* A restore that is over, completed or rolled back, has left no second copy of
\* the secrets beside settings.env (the comment at write_env_atomic).
SecretsNotCopied ==
  [][Pending /\ ~Pending' /\ Env \in Range(Archived) => ~bak']_restoreVars

\* The services are not locked out for ever: a pending journal is closed in the
\* end, unless a file that the restore replaced is one that the validators of an
\* archive refuse, as _atomic_restore has them check the rollback copies, too.
Restorable == \A i \in DOMAIN journal.operations : ~Refused(journal.operations[i])

EventuallyStartable == Pending ~> (~Pending \/ ~Restorable)

=============================================================================
