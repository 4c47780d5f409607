----------------------------- MODULE ControlPlane -----------------------------
(***************************************************************************)
(* The control-plane store of the model gateway: config.json and           *)
(* secrets.env are replaced together by a journalled transaction under a   *)
(* cross-process file lock, and read under the same lock.                  *)
(*                                                                         *)
(* A session is what a process does under the lock: it recovers whatever a *)
(* dead process left, then initializes, reads or commits.  Every durable   *)
(* change of a file is one action, so that a process can die, or a system  *)
(* call fail, between any two.  A step that raises after its rename took   *)
(* effect is that step followed by a failure of the next one.              *)
(***************************************************************************)
EXTENDS Naturals

CONSTANTS
  Procs,       \* processes: web consoles and command lines
  NoProc,      \* nobody holds the lock
  Configs,     \* contents of config.json; the revision is their hash
  Default,     \* GatewayConfig()
  Names,       \* secret references
  Values,      \* secret values
  Unset,       \* no value under that name
  NoFile,      \* the file does not exist
  NoJournal,
  NoView,      \* ConfigManager._config is None
  Keep,        \* config=None in a commit
  Clashes,     \* pairs validate_control_plane_snapshot rejects
  MaxCommits,  \* bound of the model: commits begun in a behaviour
  MaxFaults    \* bound of the model: deaths and failed system calls

SecretMaps == [Names -> Values \cup {Unset}]
Empty == [n \in Names |-> Unset]
Updates == UNION {[S -> Values \cup {Unset}] : S \in SUBSET Names}
Pairs == [config: Configs, secrets: SecretMaps]
Compatible == Pairs \ Clashes

ASSUME ProcsAssumption == NoProc \notin Procs
ASSUME ContentsAssumption ==
  /\ Default \in Configs
  /\ NoFile \notin Configs \cup SecretMaps
  /\ Keep \notin Configs
  /\ Unset \notin Values
  /\ NoView \notin Pairs
  /\ [config |-> Default, secrets |-> Empty] \in Compatible
ASSUME BoundsAssumption == MaxCommits \in Nat /\ MaxFaults \in Nat

VARIABLES
  file,     \* config.json and secrets.env
  image,    \* the before-images of the transaction under way
  journal,  \* .control-plane-journal.json
  orphans,  \* before-images of secrets.env that no journal names any more
  lock,     \* who holds .control-plane.lock
  proc,     \* what each process is doing under it
  view,     \* the snapshot its ConfigManager holds
  fresh,    \* the processes whose recorded mtimes and sizes are still those of the files
  commits, faults

disk == <<file, image, journal, orphans>>
managers == <<view, fresh>>
vars == <<file, image, journal, orphans, lock, proc, view, fresh, commits, faults>>

Labels == {"config", "secrets"}
Files == [config: Configs \cup {NoFile}, secrets: SecretMaps \cup {NoFile}]
NoFiles == [config |-> NoFile, secrets |-> NoFile]

Journal == [phase: {"prepared", "secret_applied", "config_applied", "committed"},
            changed: SUBSET Labels, existed: SUBSET Labels]

ASSUME JournalAssumption == NoJournal \notin Journal

Recovering == {"recover", "restore_config", "restore_secrets",
               "drop_config", "drop_secrets", "unlink"}
Committing == {"copy_config", "copy_secrets", "prepare", "write_secrets", "mark_secrets",
               "write_config", "mark_config", "publish"}
Then == {"create", "serve", "check", "reload", "abort"}

Proc == [pc: {"idle", "create", "create_secrets", "serve", "check", "raise"}
               \cup Recovering \cup Committing,
         then: Then, want: Configs \cup {Keep}, upd: Updates, cand: Pairs]

NoUpdate == [n \in {} |-> Unset]
Idle == [pc |-> "idle", then |-> "serve", want |-> Keep, upd |-> NoUpdate,
         cand |-> [config |-> Default, secrets |-> Empty]]

-----------------------------------------------------------------------------
(* Files *)

\* read_secrets: a missing file holds no secret.
SecretsIn(f) == IF f = NoFile THEN Empty ELSE f

\* config.json and secrets.env as they stand.
OnDisk == [config |-> file.config, secrets |-> SecretsIn(file.secrets)]

Applied(upd, s) == [n \in Names |-> IF n \in DOMAIN upd THEN upd[n] ELSE s[n]]

\* The files a commit will replace: config=None and an empty update keep theirs.
Changes(want, upd) ==
  {l \in Labels : IF l = "config" THEN want # Keep ELSE DOMAIN upd # {}}

\* Slip: the candidate is the caller's snapshot with the update applied.
CandidateOfView(p) ==
  [config  |-> IF proc[p].want = Keep THEN file.config ELSE proc[p].want,
   secrets |-> Applied(proc[p].upd, view[p].secrets)]

\* The candidate is built from the files read under the lock.
Candidate(p) ==
  [config  |-> IF proc[p].want = Keep THEN file.config ELSE proc[p].want,
   secrets |-> Applied(proc[p].upd, SecretsIn(file.secrets))]

\* Replacing or unlinking a file changes its mtime: no manager is up to date.
Put(l, content) ==
  /\ file' = [file EXCEPT ![l] = content]
  /\ fresh' = {}

\* What is left of a transaction that no journal names.
Leftover == {image.secrets} \ {NoFile}

-----------------------------------------------------------------------------
(* Sessions *)

At(p, pc) == lock = p /\ proc[p].pc = pc
Goto(p, pc) == proc' = [proc EXCEPT ![p].pc = pc]
Leave(p) == lock' = NoProc /\ proc' = [proc EXCEPT ![p] = Idle]

Begin(p, record) ==
  /\ lock = NoProc
  /\ lock' = p
  /\ proc' = [proc EXCEPT ![p] = record]

BeginInitialize(p) ==
  /\ file.config = NoFile \/ file.secrets = NoFile
  /\ Begin(p, [Idle EXCEPT !.pc = "recover", !.then = "create"])
  /\ UNCHANGED <<disk, managers, commits, faults>>

BeginSnapshot(p) ==
  /\ Begin(p, [Idle EXCEPT !.pc = "recover", !.then = "serve"])
  /\ UNCHANGED <<disk, managers, commits, faults>>

\* A caller edits the snapshot it holds; prepare() validates that edit first.
BeginCommit(p, want, upd) ==
  /\ commits < MaxCommits
  /\ commits' = commits + 1
  /\ view[p] # NoView
  /\ [config  |-> IF want = Keep THEN view[p].config ELSE want,
      secrets |-> Applied(upd, view[p].secrets)] \in Compatible
  /\ Begin(p, [Idle EXCEPT !.pc = "recover", !.then = "check", !.want = want, !.upd = upd])
  /\ UNCHANGED <<disk, managers, faults>>

-----------------------------------------------------------------------------
(* Recovery: _recover_control_plane_unlocked and _finish_journal *)

Recover(p) ==
  /\ At(p, "recover")
  /\ Goto(p, IF journal = NoJournal
             THEN proc[p].then
             ELSE IF journal.phase = "committed" THEN "drop_config" ELSE "restore_config")
  /\ UNCHANGED <<disk, lock, managers, commits, faults>>

AfterRestore(l) == IF l = "config" THEN "restore_secrets" ELSE "drop_config"

\* The before-image is copied back, not consumed; a file that did not exist is
\* unlinked again.
Restore(p, l) ==
  /\ At(p, IF l = "config" THEN "restore_config" ELSE "restore_secrets")
  /\ \/ /\ l \notin journal.changed
        /\ UNCHANGED <<file, fresh>>
     \/ /\ l \in journal.changed \ journal.existed
        /\ Put(l, NoFile)
     \/ /\ l \in journal.changed \cap journal.existed
        /\ image[l] # NoFile
        /\ Put(l, image[l])
  /\ Goto(p, AfterRestore(l))
  /\ UNCHANGED <<image, journal, orphans, lock, view, commits, faults>>

\* The image a rollback needs is not there.
MissingImage(l) ==
  l \in journal.changed \cap journal.existed /\ image[l] = NoFile

Refuse(p, l) ==
  /\ At(p, IF l = "config" THEN "restore_config" ELSE "restore_secrets")
  /\ MissingImage(l)
  /\ Leave(p)
  /\ UNCHANGED <<disk, managers, commits, faults>>

\* Slip: an image an earlier cleanup already deleted cannot be deleted.
DropExisting(p, l) ==
  /\ At(p, IF l = "config" THEN "drop_config" ELSE "drop_secrets")
  /\ IF MissingImage(l)
     THEN Leave(p) /\ UNCHANGED image
     ELSE /\ image' = [image EXCEPT ![l] = NoFile]
          /\ Goto(p, IF l = "config" THEN "drop_secrets" ELSE "unlink")
          /\ UNCHANGED lock
  /\ UNCHANGED <<file, journal, orphans, managers, commits, faults>>

Drop(p, l) ==
  /\ At(p, IF l = "config" THEN "drop_config" ELSE "drop_secrets")
  /\ image' = [image EXCEPT ![l] = NoFile]
  /\ Goto(p, IF l = "config" THEN "drop_secrets" ELSE "unlink")
  /\ UNCHANGED <<file, journal, orphans, lock, managers, commits, faults>>

\* The journal goes last; the session goes on, a raised error is raised again,
\* and a commit that is done discards its manager's snapshot.
Unlink(p) ==
  /\ At(p, "unlink")
  /\ journal' = NoJournal
  /\ IF proc[p].then \in {"abort", "reload"}
     THEN Leave(p)
     ELSE Goto(p, proc[p].then) /\ UNCHANGED lock
  /\ view' = [view EXCEPT ![p] = IF proc[p].then = "reload" THEN NoView ELSE @]
  /\ UNCHANGED <<file, image, orphans, fresh, commits, faults>>

-----------------------------------------------------------------------------
(* initialize *)

Create(p) ==
  /\ At(p, "create")
  /\ IF file.config = NoFile THEN Put("config", Default) ELSE UNCHANGED <<file, fresh>>
  /\ Goto(p, "create_secrets")
  /\ UNCHANGED <<image, journal, orphans, lock, view, commits, faults>>

CreateSecrets(p) ==
  /\ At(p, "create_secrets")
  /\ IF file.secrets = NoFile THEN Put("secrets", Empty) ELSE UNCHANGED <<file, fresh>>
  /\ Leave(p)
  /\ UNCHANGED <<image, journal, orphans, view, commits, faults>>

-----------------------------------------------------------------------------
(* ConfigManager.snapshot *)

Serve(p) ==
  /\ At(p, "serve")
  /\ IF view[p] # NoView /\ p \in fresh
     THEN UNCHANGED managers
     ELSE /\ file.config # NoFile
          /\ view' = [view EXCEPT ![p] = OnDisk]
          /\ fresh' = fresh \cup {p}
  /\ Leave(p)
  /\ UNCHANGED <<disk, commits, faults>>

\* A file that cannot be loaded: the last known good snapshot is kept, and the
\* files' mtimes are recorded as if they had been read.
ServeFails(p) ==
  /\ At(p, "serve")
  /\ ~(view[p] # NoView /\ p \in fresh)
  /\ \/ file.config = NoFile /\ UNCHANGED faults
     \/ faults < MaxFaults /\ faults' = faults + 1
  /\ fresh' = fresh \cup {p}
  /\ Leave(p)
  /\ UNCHANGED <<disk, view, commits>>

-----------------------------------------------------------------------------
(* commit_control_plane *)

\* Slip: the expected revision is not compared.
CurrentAny(p) == file.config \in Configs

\* The expected revision is that of the snapshot the edit was made from.
Current(p) == file.config = view[p].config

Check(p) ==
  /\ At(p, "check")
  /\ Current(p)
  /\ file.config # NoFile
  /\ Candidate(p) \in Compatible
  /\ proc' = [proc EXCEPT ![p].pc = "copy_config", ![p].cand = Candidate(p)]
  /\ UNCHANGED <<disk, lock, managers, commits, faults>>

\* A conflict, an invalid candidate, or no room on the disk.
Reject(p) ==
  /\ At(p, "check")
  /\ Leave(p)
  /\ UNCHANGED <<disk, managers, commits, faults>>

Changed(p) == Changes(proc[p].want, proc[p].upd)
Existed == {l \in Labels : file[l] # NoFile}

\* _copy_durable of a file that will change and exists.
Copy(p, l) ==
  /\ At(p, IF l = "config" THEN "copy_config" ELSE "copy_secrets")
  /\ image' = [image EXCEPT ![l] = IF l \in Changed(p) THEN file[l] ELSE @]
  /\ Goto(p, IF l = "config" THEN "copy_secrets" ELSE "prepare")
  /\ UNCHANGED <<file, journal, orphans, lock, managers, commits, faults>>

NextWrite(p) ==
  IF proc[p].pc = "prepare" /\ "secrets" \in Changed(p) THEN "write_secrets"
  ELSE IF proc[p].pc # "mark_config" /\ "config" \in Changed(p) THEN "write_config"
  ELSE "publish"

Prepare(p) ==
  /\ At(p, "prepare")
  /\ journal' = [phase |-> "prepared", changed |-> Changed(p), existed |-> Existed]
  /\ Goto(p, NextWrite(p))
  /\ UNCHANGED <<file, image, orphans, lock, managers, commits, faults>>

Write(p, l) ==
  /\ At(p, IF l = "config" THEN "write_config" ELSE "write_secrets")
  /\ Put(l, proc[p].cand[l])
  /\ Goto(p, IF l = "config" THEN "mark_config" ELSE "mark_secrets")
  /\ UNCHANGED <<image, journal, orphans, lock, view, commits, faults>>

Mark(p, l) ==
  /\ At(p, IF l = "config" THEN "mark_config" ELSE "mark_secrets")
  /\ journal' = [journal EXCEPT !.phase =
                   IF l = "config" THEN "config_applied" ELSE "secret_applied"]
  /\ Goto(p, NextWrite(p))
  /\ UNCHANGED <<file, image, orphans, lock, managers, commits, faults>>

\* The commit point; if the directory cannot be synced it raises all the same.
Publish(p) ==
  /\ At(p, "publish")
  /\ journal' = [journal EXCEPT !.phase = "committed"]
  /\ \/ /\ proc' = [proc EXCEPT ![p].pc = "drop_config", ![p].then = "reload"]
        /\ UNCHANGED faults
     \/ /\ faults < MaxFaults /\ faults' = faults + 1
        /\ Goto(p, "raise")
  /\ UNCHANGED <<file, image, orphans, lock, managers, commits>>

-----------------------------------------------------------------------------
(* Failures *)

\* A system call fails.  The commit handles it; recovery and cleanup give up.
Fail(p) ==
  /\ lock = p
  /\ faults < MaxFaults
  /\ faults' = faults + 1
  /\ \/ proc[p].pc \in Committing /\ Goto(p, "raise") /\ UNCHANGED lock
     \/ proc[p].pc \in (Recovering \ {"recover"}) \cup {"create", "create_secrets"} /\ Leave(p)
  /\ UNCHANGED <<disk, managers, commits>>

\* except Exception: with a journal on disk recovery decides, without one the
\* images are discarded, one that cannot be unlinked being left behind.
Handle(p) ==
  /\ At(p, "raise")
  /\ \/ /\ journal # NoJournal
        /\ proc' = [proc EXCEPT ![p].pc = "recover", ![p].then = "abort"]
        /\ UNCHANGED <<image, orphans, lock, faults>>
     \/ /\ journal = NoJournal
        /\ image' = NoFiles
        /\ \/ UNCHANGED <<orphans, faults>>
           \/ /\ faults < MaxFaults /\ faults' = faults + 1
              /\ orphans' = orphans \cup Leftover
        /\ Leave(p)
  /\ UNCHANGED <<file, journal, managers, commits>>

\* A process dies; the kernel releases its lock.
Crash(p) ==
  /\ lock = p \/ view[p] # NoView
  /\ faults < MaxFaults
  /\ faults' = faults + 1
  /\ IF lock = p THEN Leave(p) ELSE UNCHANGED <<lock, proc>>
  /\ IF lock = p /\ journal = NoJournal
     THEN image' = NoFiles /\ orphans' = orphans \cup Leftover
     ELSE UNCHANGED <<image, orphans>>
  /\ view' = [view EXCEPT ![p] = NoView]
  /\ UNCHANGED <<file, journal, fresh, commits>>

-----------------------------------------------------------------------------

Init ==
  /\ file = NoFiles /\ image = NoFiles /\ journal = NoJournal /\ orphans = {}
  /\ lock = NoProc /\ proc = [p \in Procs |-> Idle]
  /\ view = [p \in Procs |-> NoView] /\ fresh = {}
  /\ commits = 0 /\ faults = 0

Session(p) ==
  \/ Recover(p) \/ Unlink(p) \/ Create(p) \/ CreateSecrets(p) \/ Serve(p) \/ ServeFails(p)
  \/ Check(p) \/ Reject(p) \/ Prepare(p) \/ Publish(p) \/ Handle(p)
  \/ \E l \in Labels : Restore(p, l) \/ Refuse(p, l) \/ Drop(p, l) \/ Copy(p, l)
                         \/ Write(p, l) \/ Mark(p, l)

Edits == (Configs \cup {Keep}) \X Updates

Next ==
  \E p \in Procs :
    \/ BeginInitialize(p) \/ BeginSnapshot(p)
    \/ \E e \in Edits : BeginCommit(p, e[1], e[2])
    \/ Session(p) \/ Fail(p) \/ Crash(p)

Spec == Init /\ [][Next]_vars

\* A thread under the lock runs on, and snapshots are asked for again and again.
Fairness ==
  /\ \A p \in Procs : WF_vars(Session(p))
  /\ WF_vars(\E p \in Procs : BeginSnapshot(p))

FairSpec == Spec /\ Fairness

-----------------------------------------------------------------------------
(* Properties *)

\* What a restart would find: the files, with an unfinished transaction undone.
Settled(l) ==
  IF /\ journal # NoJournal /\ journal.phase # "committed" /\ l \in journal.changed
     /\ ~MissingImage(l)
  THEN image[l] ELSE file[l]

Pair == [config |-> Settled("config"), secrets |-> SecretsIn(Settled("secrets"))]

\* The two files, their images, the journal, the managers' snapshots and the
\* sessions have their types: recovery only ever meets phases that it knows.
TypeOK ==
  /\ file \in Files /\ image \in Files
  /\ journal \in Journal \cup {NoJournal}
  /\ orphans \subseteq SecretMaps
  /\ lock \in Procs \cup {NoProc}
  /\ proc \in [Procs -> Proc]
  /\ view \in [Procs -> Pairs \cup {NoView}]
  /\ fresh \subseteq Procs
  /\ commits \in 0..MaxCommits /\ faults \in 0..MaxFaults

\* The pair a restart would find changes only at a commit point, to exactly the
\* old pair with that commit's edit applied: an edit of the secrets keeps what a
\* concurrent edit of other secrets, invisible to the config's revision, wrote.
PublishesItsOwnEdit ==
  [][Pair # Pair' /\ Pair.config # NoFile =>
       \E p \in Procs :
         /\ lock = p
         /\ Pair' = [config  |-> IF proc[p].want = Keep THEN Pair.config ELSE proc[p].want,
                     secrets |-> Applied(proc[p].upd, Pair.secrets)]]_vars

\* The store implements the atomic pair: no crash point, failed system call or
\* interleaving shows a caller a mixed pair, loses an update or revives an old one.
Atomic == INSTANCE ControlPair
  WITH pair <- Pair, seen <- view, NoConfig <- NoFile
PairSpec == Atomic!Spec

\* A transaction past its commit point is cleaned up in the end: whoever takes the
\* lock next repeats _finish_journal, wherever it was interrupted.
CommittedSettles ==
  journal # NoJournal /\ journal.phase = "committed" ~> journal = NoJournal

=============================================================================
