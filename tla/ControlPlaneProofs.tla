-------------------------- MODULE ControlPlaneProofs --------------------------
(***************************************************************************)
(* The control-plane store keeps its types and implements the atomic pair, *)
(* for any processes, contents, secrets and incompatible pairs, and for    *)
(* any number of commits, deaths and failed system calls.                  *)
(***************************************************************************)
EXTENDS ControlPlane, TLAPS

Uncommitted == journal # NoJournal /\ journal.phase # "committed"

\* What the edit of p makes of the pair.
Edited(p) ==
  [config  |-> IF proc[p].want = Keep THEN Pair.config ELSE proc[p].want,
   secrets |-> Applied(proc[p].upd, Pair.secrets)]

\* Only the holder of the lock is in a session.
OneSession ==
  \A p \in Procs : IF lock = p THEN proc[p].pc # "idle" ELSE proc[p] = Idle

\* Images are of the files that the transaction changes; without a journal only
\* a commit that prepares one, or has just failed to, has any.
ImagesBelong ==
  /\ journal # NoJournal =>
       \A l \in Labels \ (journal.changed \cap journal.existed) : image[l] = NoFile
  /\ journal = NoJournal /\ image # NoFiles =>
       \E p \in Procs : At(p, "copy_secrets") \/ At(p, "prepare") \/ At(p, "raise")

Undone(l) == Uncommitted => Settled(l) = file[l]

\* How far a recovery is, when it follows a journal.
RecoveryOK(p) ==
  /\ At(p, "recover") => proc[p].then # "reload" /\ (journal = NoJournal => proc[p].then # "abort")
  /\ At(p, "restore_config") => Uncommitted
  /\ At(p, "restore_secrets") => Uncommitted /\ Undone("config")
  /\ At(p, "drop_config") \/ At(p, "drop_secrets") \/ At(p, "unlink") =>
       /\ journal # NoJournal
       /\ Undone("config") /\ Undone("secrets")
  /\ At(p, "drop_secrets") \/ At(p, "unlink") => image["config"] = NoFile
  /\ At(p, "unlink") => image["secrets"] = NoFile
  /\ At(p, "create") \/ At(p, "create_secrets") \/ At(p, "serve") \/ At(p, "check") =>
       journal = NoJournal

\* What holds at every step of a commit before it fails or is published: what it
\* will write is its edit of the pair.
Carried(p) ==
  /\ proc[p].then = "check" /\ view[p] # NoView
  /\ view[p].config = Pair.config
  /\ proc[p].cand = Edited(p) /\ proc[p].cand \in Compatible

\* The journal that lets the writes of p be undone.
Journalled(p) ==
  Uncommitted /\ journal.changed = Changed(p) /\ \A l \in Labels : ~MissingImage(l)

Written(p, l) == l \in Changed(p) => file[l] = proc[p].cand[l]

\* How far a commit is before its journal.
PreparingOK(p) ==
  /\ At(p, "copy_config") \/ At(p, "copy_secrets") \/ At(p, "prepare") => journal = NoJournal
  /\ At(p, "copy_config") => image = NoFiles
  /\ At(p, "copy_secrets") \/ At(p, "prepare") =>
       image["config"] = IF "config" \in Changed(p) THEN file["config"] ELSE NoFile
  /\ At(p, "copy_secrets") => image["secrets"] = NoFile
  /\ At(p, "prepare") =>
       image["secrets"] = IF "secrets" \in Changed(p) THEN file["secrets"] ELSE NoFile

\* How far it is under its journal.
WritingOK(p) ==
  /\ At(p, "write_secrets") => Journalled(p) /\ "secrets" \in Changed(p)
  /\ At(p, "mark_secrets") => Journalled(p) /\ "secrets" \in Changed(p) /\ Written(p, "secrets")
  /\ At(p, "write_config") => Journalled(p) /\ "config" \in Changed(p) /\ Written(p, "secrets")
  /\ At(p, "mark_config") =>
       Journalled(p) /\ "config" \in Changed(p) /\ Written(p, "secrets") /\ Written(p, "config")
  /\ At(p, "publish") => Journalled(p) /\ Written(p, "secrets") /\ Written(p, "config")

CommitOK(p) ==
  /\ lock = p /\ proc[p].then = "check" => view[p] # NoView
  /\ At(p, "check") => proc[p].then = "check"
  /\ lock = p /\ proc[p].pc \in Committing => Carried(p)
  /\ PreparingOK(p)
  /\ WritingOK(p)

IInv ==
  /\ TypeOK
  /\ OneSession
  /\ ImagesBelong
  /\ \A p \in Procs : RecoveryOK(p) /\ CommitOK(p)

-----------------------------------------------------------------------------
(* What sessions and files are made of *)

Pcs == {"idle", "create", "create_secrets", "serve", "check", "raise"}
         \cup Recovering \cup Committing

\* What a file may hold.
Content(l) == {NoFile} \cup (IF l = "config" THEN Configs ELSE SecretMaps)

LEMMA SessionTypes ==
  /\ Idle \in Proc /\ Idle.pc = "idle" /\ Idle.then = "serve"
  /\ NoFiles \in Files /\ NoFiles["config"] = NoFile /\ NoFiles["secrets"] = NoFile
<1>1. NoUpdate \in Updates
  <2>1. NoUpdate \in [{} -> Values \cup {Unset}]
    BY DEF NoUpdate
  <2> QED BY <2>1 DEF Updates
<1>2. [config |-> Default, secrets |-> Empty] \in Pairs
  BY ContentsAssumption DEF Compatible
<1>3. Keep \in Configs \cup {Keep} /\ "idle" \in Pcs /\ "serve" \in Then
  BY DEF Pcs, Then
<1>4. Idle \in Proc
  BY <1>1, <1>2, <1>3 DEF Idle, Proc, Pcs
<1> QED BY <1>4 DEF Idle, NoFiles, Files

\* A session that goes on keeps what it is about.
LEMMA GotoIs ==
  ASSUME proc \in [Procs -> Proc], NEW p \in Procs, NEW pc \in Pcs, Goto(p, pc)
  PROVE  /\ proc' \in [Procs -> Proc]
         /\ proc'[p].pc = pc /\ proc'[p].then = proc[p].then
         /\ proc'[p].want = proc[p].want /\ proc'[p].upd = proc[p].upd
         /\ proc'[p].cand = proc[p].cand
         /\ \A q \in Procs : q # p => proc'[q] = proc[q]
<1>1. proc[p] \in Proc
  OBVIOUS
<1>2. /\ [proc[p] EXCEPT !.pc = pc] \in Proc
      /\ [proc[p] EXCEPT !.pc = pc].pc = pc
      /\ [proc[p] EXCEPT !.pc = pc].then = proc[p].then
      /\ [proc[p] EXCEPT !.pc = pc].want = proc[p].want
      /\ [proc[p] EXCEPT !.pc = pc].upd = proc[p].upd
      /\ [proc[p] EXCEPT !.pc = pc].cand = proc[p].cand
  BY <1>1 DEF Proc, Pcs
<1>3. proc' = [proc EXCEPT ![p] = [proc[p] EXCEPT !.pc = pc]]
  BY DEF Goto
<1> QED BY <1>2, <1>3

LEMMA LeaveIs ==
  ASSUME proc \in [Procs -> Proc], NEW p \in Procs, Leave(p)
  PROVE  /\ proc' \in [Procs -> Proc] /\ proc'[p] = Idle
         /\ \A q \in Procs : q # p => proc'[q] = proc[q]
         /\ lock' = NoProc
BY SessionTypes DEF Leave

\* The contents that the program moves between files, images and candidates.
LEMMA Contents ==
  ASSUME TypeOK, NEW l \in Labels
  PROVE  /\ file[l] \in Content(l) /\ image[l] \in Content(l) /\ NoFile \in Content(l)
         /\ \A p \in Procs : proc[p].cand[l] \in Content(l)
<1>1. CASE l = "config"
  BY <1>1 DEF TypeOK, Files, Content, Proc, Pairs
<1>2. CASE l = "secrets"
  BY <1>2 DEF TypeOK, Files, Content, Proc, Pairs
<1> QED BY <1>1, <1>2 DEF Labels

LEMMA SecretsInType ==
  ASSUME NEW f \in Content("secrets")
  PROVE  SecretsIn(f) \in SecretMaps
<1>1. Empty \in SecretMaps
  BY DEF Empty, SecretMaps
<1> QED BY <1>1 DEF SecretsIn, Content

LEMMA AppliedType ==
  ASSUME NEW upd \in Updates, NEW s \in SecretMaps
  PROVE  Applied(upd, s) \in SecretMaps
<1>1. \A n \in DOMAIN upd : upd[n] \in Values \cup {Unset}
  BY DEF Updates
<1>2. \A n \in Names : s[n] \in Values \cup {Unset}
  BY DEF SecretMaps
<1> QED BY <1>1, <1>2 DEF Applied, SecretMaps

LEMMA CandidateType ==
  ASSUME TypeOK, NEW p \in Procs, file.config # NoFile
  PROVE  Candidate(p) \in Pairs
<1>1. /\ proc[p].want \in Configs \cup {Keep} /\ proc[p].upd \in Updates
      /\ file.config \in Configs
      /\ file.secrets \in Content("secrets")
  BY DEF TypeOK, Proc, Files, Content
<1>2. Applied(proc[p].upd, SecretsIn(file.secrets)) \in SecretMaps
  BY <1>1, SecretsInType, AppliedType
<1> QED BY <1>1, <1>2 DEF Candidate, Pairs

-----------------------------------------------------------------------------
(* Types *)

LEMMA Moves == Committing \cup Recovering \cup {"create", "create_secrets", "serve", "check", "raise"}
                 \subseteq Pcs \ {"idle"}
BY DEF Pcs, Committing, Recovering

LEMMA BeginIs ==
  ASSUME TypeOK, NEW p \in Procs, NEW rec \in Proc, Begin(p, rec)
  PROVE  /\ lock = NoProc /\ lock' = p /\ proc' \in [Procs -> Proc] /\ proc'[p] = rec
         /\ \A q \in Procs : q # p => proc'[q] = proc[q]
BY DEF TypeOK, Begin

\* What a session begins with.
LEMMA BeginTypes ==
  ASSUME NEW then \in Then
  PROVE  /\ [Idle EXCEPT !.pc = "recover", !.then = then] \in Proc
         /\ [Idle EXCEPT !.pc = "recover", !.then = then].pc = "recover"
         /\ [Idle EXCEPT !.pc = "recover", !.then = then].then = then
<1>1. "recover" \in Pcs
  BY Moves DEF Recovering
<1> QED BY <1>1, SessionTypes DEF Proc, Pcs

LEMMA BeginCommitTypes ==
  ASSUME NEW want \in Configs \cup {Keep}, NEW upd \in Updates
  PROVE  LET rec == [Idle EXCEPT !.pc = "recover", !.then = "check", !.want = want, !.upd = upd]
         IN  rec \in Proc /\ rec.pc = "recover" /\ rec.then = "check"
<1>1. "recover" \in Pcs /\ "check" \in Then
  BY Moves DEF Recovering, Then
<1> QED BY <1>1, SessionTypes DEF Proc, Pcs

LEMMA BeginsType ==
  ASSUME TypeOK, NEW p \in Procs,
         \/ BeginInitialize(p) \/ BeginSnapshot(p)
         \/ \E e \in Edits : BeginCommit(p, e[1], e[2])
  PROVE  TypeOK'
<1>1. CASE BeginInitialize(p) \/ BeginSnapshot(p)
  <2>1. PICK then \in Then : Begin(p, [Idle EXCEPT !.pc = "recover", !.then = then])
    BY <1>1 DEF BeginInitialize, BeginSnapshot, Then
  <2>2. proc' \in [Procs -> Proc] /\ lock' = p
    BY <2>1, BeginTypes, BeginIs
  <2> QED BY <1>1, <2>2 DEF TypeOK, BeginInitialize, BeginSnapshot, disk, managers
<1>2. CASE \E e \in Edits : BeginCommit(p, e[1], e[2])
  <2>1. PICK e \in Edits : BeginCommit(p, e[1], e[2])
    BY <1>2
  <2>2. e[1] \in Configs \cup {Keep} /\ e[2] \in Updates
    BY DEF Edits
  <2>3. proc' \in [Procs -> Proc] /\ lock' = p
    BY <2>1, <2>2, BeginCommitTypes, BeginIs DEF BeginCommit
  <2>4. commits' \in 0..MaxCommits
    <3>1. commits < MaxCommits /\ commits' = commits + 1
      BY <2>1 DEF BeginCommit
    <3>2. commits \in 0..MaxCommits /\ MaxCommits \in Nat
      BY BoundsAssumption DEF TypeOK
    <3> QED BY <3>1, <3>2
  <2>5. UNCHANGED <<disk, managers, faults>>
    BY <2>1 DEF BeginCommit
  <2> QED BY <2>3, <2>4, <2>5 DEF TypeOK, disk, managers
<1> QED BY <1>1, <1>2

LEMMA PutType ==
  ASSUME TypeOK, NEW l \in Labels, NEW c \in Content(l), Put(l, c)
  PROVE  /\ file' \in Files /\ fresh' \subseteq Procs
         /\ file'[l] = c /\ \A m \in Labels : m # l => file'[m] = file[m]
<1>1. file \in Files /\ file' = [file EXCEPT ![l] = c] /\ fresh' = {}
  BY DEF TypeOK, Put
<1>2. CASE l = "config"
  BY <1>1, <1>2 DEF Files, Labels, Content
<1>3. CASE l = "secrets"
  BY <1>1, <1>3 DEF Files, Labels, Content
<1> QED BY <1>2, <1>3 DEF Labels

LEMMA ImageType ==
  ASSUME TypeOK, NEW l \in Labels, NEW c \in Content(l), image' = [image EXCEPT ![l] = c]
  PROVE  /\ image' \in Files
         /\ image'[l] = c /\ \A m \in Labels : m # l => image'[m] = image[m]
<1>1. image \in Files
  BY DEF TypeOK
<1>2. CASE l = "config"
  BY <1>1, <1>2 DEF Files, Labels, Content
<1>3. CASE l = "secrets"
  BY <1>1, <1>3 DEF Files, Labels, Content
<1> QED BY <1>2, <1>3 DEF Labels

LEMMA PhaseType ==
  ASSUME journal \in Journal, NEW phase \in {"secret_applied", "config_applied", "committed"},
         journal' = [journal EXCEPT !.phase = phase]
  PROVE  /\ journal' \in Journal /\ journal'.phase = phase
         /\ journal'.changed = journal.changed /\ journal'.existed = journal.existed
BY DEF Journal

-----------------------------------------------------------------------------
(* What a step leaves to be shown *)

\* The three things that can happen to the pair.
Quiet == Pair' = Pair

Creates == Pair.config = NoFile /\ Pair' = [Pair EXCEPT !.config = Default]

Publishes(p) ==
  /\ lock = p /\ view[p] # NoView /\ view[p].config = Pair.config
  /\ Pair' = Edited(p) /\ Pair' \in Compatible

\* Of whoever is not in a session nothing is claimed.
LEMMA Elsewhere ==
  ASSUME NEW q \in Procs, lock' # q
  PROVE  RecoveryOK(q)' /\ CommitOK(q)'
BY DEF RecoveryOK, CommitOK, PreparingOK, WritingOK, At

LEMMA Leaving ==
  ASSUME IInv, NEW p \in Procs, lock = p, Leave(p), TypeOK', ImagesBelong'
  PROVE  IInv'
<1>1. proc'[p] = Idle /\ (\A q \in Procs : q # p => proc'[q] = proc[q]) /\ lock' = NoProc
  BY LeaveIs DEF IInv, TypeOK
<1>2. \A q \in Procs : lock' # q
  BY <1>1, ProcsAssumption
<1>3. \A q \in Procs : RecoveryOK(q)' /\ CommitOK(q)'
  BY <1>2, Elsewhere
<1>4. OneSession'
  BY <1>1, <1>2 DEF IInv, OneSession
<1> QED BY <1>3, <1>4 DEF IInv

LEMMA Going ==
  ASSUME IInv, NEW p \in Procs, lock = p \/ lock = NoProc, lock' = p, proc'[p].pc # "idle",
         \A q \in Procs : q # p => proc'[q] = proc[q],
         TypeOK', ImagesBelong', RecoveryOK(p)', CommitOK(p)'
  PROVE  IInv'
<1>1. \A q \in Procs : q # p => RecoveryOK(q)' /\ CommitOK(q)'
  BY Elsewhere
<1>2. OneSession'
  BY ProcsAssumption DEF IInv, OneSession
<1> QED BY <1>1, <1>2 DEF IInv

\* Without a journal there are no images, but for a commit that prepares one.
LEMMA NoImages ==
  ASSUME IInv, journal = NoJournal,
         \A p \in Procs : ~At(p, "copy_secrets") /\ ~At(p, "prepare") /\ ~At(p, "raise")
  PROVE  image = NoFiles
BY DEF IInv, ImagesBelong

LEMMA NobodyAt ==
  ASSUME NEW p \in Procs, lock = p, proc[p].pc \notin {"copy_secrets", "prepare", "raise"}
  PROVE  \A q \in Procs : ~At(q, "copy_secrets") /\ ~At(q, "prepare") /\ ~At(q, "raise")
BY DEF At

\* Images without a journal, or with none, belong.
LEMMA NoImagesBelong ==
  ASSUME image' = NoFiles
  PROVE  ImagesBelong'
BY SessionTypes DEF ImagesBelong, Labels

\* The pair is a pair of contents.
LEMMA SettledType ==
  ASSUME TypeOK, NEW l \in Labels
  PROVE  Settled(l) \in Content(l)
BY Contents DEF Settled

LEMMA PairType ==
  ASSUME TypeOK
  PROVE  /\ Pair.config \in Configs \cup {NoFile} /\ Pair.secrets \in SecretMaps
         /\ DOMAIN Pair = {"config", "secrets"}
<1>1. Settled("config") \in Content("config") /\ Settled("secrets") \in Content("secrets")
  BY SettledType DEF Labels
<1>2. SecretsIn(Settled("secrets")) \in SecretMaps
  BY <1>1, SecretsInType
<1> QED BY <1>1, <1>2 DEF Pair, Content

\* A step that changes neither files nor images nor journal changes no pair.
LEMMA SameDisk ==
  ASSUME UNCHANGED <<file, image, journal>>
  PROVE  /\ Quiet /\ Uncommitted' = Uncommitted
         /\ \A l \in Labels : /\ Settled(l)' = Settled(l)
                              /\ MissingImage(l)' = MissingImage(l)
                              /\ Undone(l)' = Undone(l)
BY DEF Quiet, Pair, Uncommitted, Settled, MissingImage, Undone

LEMMA SameSettled ==
  ASSUME \A l \in Labels : Settled(l)' = Settled(l)
  PROVE  Quiet
BY DEF Quiet, Pair, Labels

\* Without an uncommitted journal the files are the pair.
LEMMA SettledOnDisk ==
  ASSUME ~Uncommitted
  PROVE  (\A l \in Labels : Settled(l) = file[l]) /\ Pair = OnDisk
BY DEF Uncommitted, Settled, Pair, OnDisk

-----------------------------------------------------------------------------
(* Sessions that begin *)

LEMMA BeginsKeep ==
  ASSUME IInv, NEW p \in Procs,
         \/ BeginInitialize(p) \/ BeginSnapshot(p)
         \/ \E e \in Edits : BeginCommit(p, e[1], e[2])
  PROVE  IInv' /\ Quiet /\ view' = view
<1>1. TypeOK'
  BY BeginsType DEF IInv
<1>2. /\ UNCHANGED <<file, image, journal, view>>
      /\ \E rec \in Proc : /\ Begin(p, rec) /\ rec.pc = "recover"
                           /\ rec.then \in {"create", "serve", "check"}
                           /\ rec.then = "check" => view[p] # NoView
  <2>1. CASE BeginInitialize(p) \/ BeginSnapshot(p)
    <3>1. PICK then \in {"create", "serve"} : Begin(p, [Idle EXCEPT !.pc = "recover", !.then = then])
      BY <2>1 DEF BeginInitialize, BeginSnapshot
    <3>2. UNCHANGED <<file, image, journal, view>>
      BY <2>1 DEF BeginInitialize, BeginSnapshot, disk, managers
    <3>3. then \in Then
      BY DEF Then
    <3> QED BY <3>1, <3>2, <3>3, BeginTypes
  <2>2. CASE \E e \in Edits : BeginCommit(p, e[1], e[2])
    <3>1. PICK e \in Edits : BeginCommit(p, e[1], e[2])
      BY <2>2
    <3>2. e[1] \in Configs \cup {Keep} /\ e[2] \in Updates
      BY DEF Edits
    <3> QED BY <3>1, <3>2, BeginCommitTypes DEF BeginCommit, disk, managers
  <2> QED BY <2>1, <2>2
<1>3. PICK rec \in Proc : /\ Begin(p, rec) /\ rec.pc = "recover"
                          /\ rec.then \in {"create", "serve", "check"}
                          /\ rec.then = "check" => view[p] # NoView
  BY <1>2
<1>4. /\ lock = NoProc /\ lock' = p /\ proc'[p] = rec
      /\ \A q \in Procs : q # p => proc'[q] = proc[q]
  BY <1>3, BeginIs DEF IInv
<1>5. journal = NoJournal => image = NoFiles
  <2>1. \A q \in Procs : ~At(q, "copy_secrets") /\ ~At(q, "prepare") /\ ~At(q, "raise")
    BY <1>4, ProcsAssumption DEF At
  <2> QED BY <2>1, NoImages
<1>6. ImagesBelong'
  BY <1>2, <1>5 DEF IInv, ImagesBelong
<1>7. RecoveryOK(p)' /\ CommitOK(p)'
  BY <1>2, <1>3, <1>4 DEF RecoveryOK, CommitOK, PreparingOK, WritingOK, At, Committing
<1>8. Quiet
  BY <1>2, SameDisk
<1> QED BY <1>1, <1>2, <1>3, <1>4, <1>6, <1>7, <1>8, Going

-----------------------------------------------------------------------------
(* Recovery *)

LEMMA RecoverKeeps ==
  ASSUME IInv, NEW p \in Procs, Recover(p)
  PROVE  IInv' /\ Quiet /\ view' = view
<1>1. /\ lock = p /\ lock' = p /\ proc[p].pc = "recover" /\ proc \in [Procs -> Proc]
      /\ UNCHANGED <<disk, managers, commits, faults>>
      /\ UNCHANGED <<file, image, journal, view>>
  BY DEF Recover, At, disk, managers, IInv, TypeOK
<1>2. RecoveryOK(p) /\ CommitOK(p) /\ TypeOK /\ ImagesBelong
  BY DEF IInv
<1> DEFINE pc == IF journal = NoJournal
                 THEN proc[p].then
                 ELSE IF journal.phase = "committed" THEN "drop_config" ELSE "restore_config"
<1>3. /\ journal = NoJournal => pc \in {"create", "serve", "check"}
      /\ journal # NoJournal => pc \in {"drop_config", "restore_config"}
      /\ Goto(p, pc)
  <2>1. proc[p].then \in Then
    BY <1>1 DEF Proc
  <2> QED BY <1>1, <1>2, <2>1 DEF Recover, RecoveryOK, At, Then
<1>4. pc \in Pcs \ {"idle"}
  BY <1>3, Moves DEF Recovering
<1> HIDE DEF pc
<1>5. /\ proc' \in [Procs -> Proc] /\ proc'[p].pc = pc /\ proc'[p].then = proc[p].then
      /\ \A q \in Procs : q # p => proc'[q] = proc[q]
  BY <1>1, <1>3, <1>4, GotoIs
<1>6. TypeOK'
  BY <1>1, <1>2, <1>5 DEF TypeOK, disk, managers
<1>7. journal = NoJournal => image = NoFiles
  BY <1>1, NobodyAt, NoImages
<1>8. ImagesBelong'
  BY <1>1, <1>2, <1>7 DEF ImagesBelong
<1>9. RecoveryOK(p)' /\ CommitOK(p)'
  <2>1. CASE journal = NoJournal
    BY <1>1, <1>2, <1>3, <1>5, <2>1 DEF RecoveryOK, CommitOK, PreparingOK, WritingOK, At, Committing, pc
  <2>2. CASE journal # NoJournal
    <3>1. \/ pc = "drop_config" /\ Undone("config")' /\ Undone("secrets")'
          \/ pc = "restore_config" /\ Uncommitted'
      BY <1>1, <1>3, <2>2 DEF Undone, Uncommitted, pc
    <3> QED BY <1>1, <1>2, <1>3, <1>5, <2>2, <3>1 DEF RecoveryOK, CommitOK, PreparingOK, WritingOK, At, Committing
  <2> QED BY <2>1, <2>2
<1> QED BY <1>1, <1>4, <1>5, <1>6, <1>8, <1>9, Going, SameDisk

\* What restoring a file does to it.
LEMMA RestoreIs ==
  ASSUME IInv, NEW p \in Procs, NEW l \in Labels, Restore(p, l)
  PROVE  /\ file' \in Files /\ fresh' \subseteq Procs
         /\ \A m \in Labels : Settled(m)' = Settled(m)
         /\ Undone(l)'
         /\ \A m \in Labels : Undone(m) => Undone(m)'
         /\ Uncommitted /\ Uncommitted'
<1>1. TypeOK /\ ImagesBelong /\ RecoveryOK(p)
  BY DEF IInv
<1>2. UNCHANGED <<image, journal>> /\ Uncommitted /\ Uncommitted'
  BY <1>1 DEF Restore, RecoveryOK, Labels, Uncommitted
<1>3. \A m \in Labels : MissingImage(m)' = MissingImage(m)
  BY <1>2 DEF MissingImage
<1>4. CASE UNCHANGED <<file, fresh>> /\ l \notin journal.changed
  <2>1. \A m \in Labels : Settled(m)' = Settled(m)
    BY <1>2, <1>3, <1>4 DEF Settled
  <2>2. Settled(l) = file[l]
    BY <1>4 DEF Settled
  <2> QED BY <1>1, <1>2, <1>4, <2>1, <2>2 DEF TypeOK, Undone
<1>5. CASE \E c \in Content(l) : /\ Put(l, c) /\ l \in journal.changed /\ ~MissingImage(l)
                                 /\ c = image[l]
  <2>1. PICK c \in Content(l) : Put(l, c) /\ c = image[l]
    BY <1>5
  <2>2. /\ file' \in Files /\ fresh' \subseteq Procs
        /\ file'[l] = c /\ \A m \in Labels : m # l => file'[m] = file[m]
    BY <1>1, <2>1, PutType
  <2>3. Settled(l) = image[l] /\ Settled(l)' = image[l]
    BY <1>2, <1>3, <1>5 DEF Settled, Uncommitted
  <2>4. \A m \in Labels : Settled(m)' = Settled(m)
    BY <1>2, <1>3, <2>2, <2>3 DEF Settled
  <2> QED BY <1>2, <2>1, <2>2, <2>3, <2>4 DEF Undone
<1>6. CASE l \in journal.changed \ journal.existed /\ Put(l, NoFile)
  <2>1. image[l] = NoFile
    BY <1>1, <1>2, <1>6 DEF ImagesBelong, Uncommitted
  <2> QED BY <1>1, <1>5, <1>6, <2>1, Contents DEF MissingImage
<1>7. CASE l \in journal.changed \cap journal.existed /\ image[l] # NoFile /\ Put(l, image[l])
  BY <1>1, <1>5, <1>7, Contents DEF MissingImage
<1> QED BY <1>4, <1>6, <1>7 DEF Restore

LEMMA RestoreKeeps ==
  ASSUME IInv, NEW p \in Procs, NEW l \in Labels, Restore(p, l)
  PROVE  IInv' /\ Quiet /\ view' = view
<1>1. /\ lock = p /\ lock' = p /\ proc \in [Procs -> Proc]
      /\ UNCHANGED <<image, journal, orphans, view, commits, faults>>
      /\ proc[p].pc = IF l = "config" THEN "restore_config" ELSE "restore_secrets"
      /\ Goto(p, AfterRestore(l))
  BY DEF Restore, At, IInv, TypeOK
<1>2. /\ file' \in Files /\ fresh' \subseteq Procs
      /\ \A m \in Labels : Settled(m)' = Settled(m)
      /\ Undone(l)' /\ \A m \in Labels : Undone(m) => Undone(m)'
      /\ Uncommitted /\ Uncommitted'
  BY RestoreIs
<1>3. RecoveryOK(p) /\ CommitOK(p) /\ TypeOK /\ ImagesBelong
  BY DEF IInv
<1>4. AfterRestore(l) \in Pcs \ {"idle"}
  BY Moves DEF AfterRestore, Recovering
<1>5. /\ proc' \in [Procs -> Proc] /\ proc'[p].pc = AfterRestore(l)
      /\ proc'[p].then = proc[p].then
      /\ \A q \in Procs : q # p => proc'[q] = proc[q]
  BY <1>1, <1>4, GotoIs
<1>6. TypeOK'
  BY <1>1, <1>2, <1>3, <1>5 DEF TypeOK
<1>7. ImagesBelong'
  BY <1>1, <1>2, <1>3 DEF ImagesBelong, Uncommitted
<1>8. RecoveryOK(p)' /\ CommitOK(p)'
  <2>1. CASE l = "config"
    BY <1>1, <1>2, <1>3, <1>5, <2>1 DEF RecoveryOK, CommitOK, PreparingOK, WritingOK, At, AfterRestore, Committing
  <2>2. CASE l = "secrets"
    <3>1. Undone("config")
      BY <1>1, <1>3, <2>2 DEF RecoveryOK, At
    <3>2. Undone("config")' /\ Undone("secrets")'
      BY <1>2, <2>2, <3>1 DEF Labels
    <3> QED BY <1>1, <1>2, <1>3, <1>5, <2>2, <3>2
            DEF RecoveryOK, CommitOK, PreparingOK, WritingOK, At, AfterRestore, Committing, Uncommitted
  <2> QED BY <2>1, <2>2 DEF Labels
<1> QED BY <1>1, <1>2, <1>4, <1>5, <1>6, <1>7, <1>8, Going, SameSettled

LEMMA RefuseKeeps ==
  ASSUME IInv, NEW p \in Procs, NEW l \in Labels, Refuse(p, l)
  PROVE  IInv' /\ Quiet /\ view' = view
<1>1. /\ lock = p /\ Leave(p) /\ UNCHANGED <<disk, managers, commits, faults>>
      /\ UNCHANGED <<file, image, journal, view>>
      /\ Uncommitted
  BY DEF Refuse, At, disk, managers, IInv, RecoveryOK
<1>2. TypeOK /\ ImagesBelong
  BY DEF IInv
<1>3. proc' \in [Procs -> Proc] /\ lock' = NoProc
  BY <1>1, <1>2, LeaveIs DEF TypeOK
<1>4. TypeOK' /\ ImagesBelong'
  BY <1>1, <1>2, <1>3 DEF TypeOK, ImagesBelong, Uncommitted, disk, managers
<1> QED BY <1>1, <1>4, Leaving, SameDisk

LEMMA DropIs ==
  ASSUME IInv, NEW p \in Procs, NEW l \in Labels, Drop(p, l)
  PROVE  /\ image' \in Files /\ image'[l] = NoFile
         /\ \A m \in Labels : m # l => image'[m] = image[m]
         /\ \A m \in Labels : Settled(m)' = Settled(m)
         /\ Undone("config")' /\ Undone("secrets")'
         /\ ImagesBelong'
<1>1. /\ TypeOK /\ ImagesBelong /\ journal # NoJournal
      /\ Undone("config") /\ Undone("secrets")
  BY DEF IInv, Drop, RecoveryOK, Labels
<1>2. image' = [image EXCEPT ![l] = NoFile] /\ UNCHANGED <<file, journal>>
  BY DEF Drop
<1>3. /\ image' \in Files /\ image'[l] = NoFile
      /\ \A m \in Labels : m # l => image'[m] = image[m]
  BY <1>1, <1>2, ImageType, Contents
<1>4. ImagesBelong'
  BY <1>1, <1>2, <1>3 DEF ImagesBelong
<1>5. Settled(l)' = Settled(l)
  <2>1. CASE ~Uncommitted
    BY <1>2, <2>1 DEF Uncommitted, Settled
  <2>2. CASE Uncommitted
    <3>1. Settled(l) = file[l]
      BY <1>1, <2>2 DEF Undone, Labels
    <3>2. CASE l \in journal.changed \cap journal.existed
      BY <1>2, <1>3, <3>1, <3>2 DEF Settled, MissingImage
    <3>3. CASE l \notin journal.changed \cap journal.existed
      <4>1. image[l] = NoFile
        BY <1>1, <3>3 DEF ImagesBelong
      <4> QED BY <1>2, <1>3, <4>1 DEF Settled, MissingImage
    <3> QED BY <3>2, <3>3
  <2> QED BY <2>1, <2>2
<1>6. \A m \in Labels : m # l => Settled(m)' = Settled(m)
  BY <1>2, <1>3 DEF Settled, MissingImage
<1>7. Undone("config")' /\ Undone("secrets")'
  BY <1>1, <1>2, <1>5, <1>6 DEF Undone, Uncommitted, Labels
<1> QED BY <1>3, <1>4, <1>5, <1>6, <1>7

LEMMA DropKeeps ==
  ASSUME IInv, NEW p \in Procs, NEW l \in Labels, Drop(p, l)
  PROVE  IInv' /\ Quiet /\ view' = view
<1> DEFINE pc == IF l = "config" THEN "drop_secrets" ELSE "unlink"
<1>1. /\ lock = p /\ lock' = p /\ proc \in [Procs -> Proc]
      /\ UNCHANGED <<file, journal, orphans, managers, commits, faults>>
      /\ view' = view
      /\ proc[p].pc = IF l = "config" THEN "drop_config" ELSE "drop_secrets"
      /\ Goto(p, pc)
  BY DEF Drop, At, managers, IInv, TypeOK
<1>2. /\ image' \in Files /\ image'[l] = NoFile
      /\ \A m \in Labels : m # l => image'[m] = image[m]
      /\ \A m \in Labels : Settled(m)' = Settled(m)
      /\ Undone("config")' /\ Undone("secrets")'
      /\ ImagesBelong'
  BY DropIs
<1>3. RecoveryOK(p) /\ CommitOK(p) /\ TypeOK
  BY DEF IInv
<1>4. pc \in Pcs \ {"idle"}
  BY Moves DEF Recovering
<1>5. /\ proc' \in [Procs -> Proc] /\ proc'[p].pc = pc
      /\ proc'[p].then = proc[p].then
      /\ \A q \in Procs : q # p => proc'[q] = proc[q]
  BY <1>1, <1>4, GotoIs
<1>6. TypeOK'
  BY <1>1, <1>2, <1>3, <1>5 DEF TypeOK, managers
<1>7. journal' # NoJournal
  BY <1>1, <1>3 DEF RecoveryOK, At
<1>8. RecoveryOK(p)' /\ CommitOK(p)'
  <2>1. CASE l = "config"
    BY <1>1, <1>2, <1>3, <1>5, <1>7, <2>1 DEF RecoveryOK, CommitOK, PreparingOK, WritingOK, At, Committing
  <2>2. CASE l = "secrets"
    <3>1. image'["config"] = NoFile
      BY <1>1, <1>2, <1>3, <2>2 DEF RecoveryOK, At, Labels
    <3> QED BY <1>1, <1>2, <1>3, <1>5, <1>7, <2>2, <3>1 DEF RecoveryOK, CommitOK, PreparingOK, WritingOK, At, Committing
  <2> QED BY <2>1, <2>2 DEF Labels
<1> QED BY <1>1, <1>2, <1>4, <1>5, <1>6, <1>8, Going, SameSettled

\* The journal goes last: by then the files are the pair, and no image is left.
LEMMA UnlinkKeeps ==
  ASSUME IInv, NEW p \in Procs, Unlink(p)
  PROVE  IInv' /\ Quiet /\ view' \in {view, [view EXCEPT ![p] = NoView]}
<1>1. /\ lock = p /\ proc \in [Procs -> Proc] /\ proc[p].pc = "unlink"
      /\ UNCHANGED <<file, image, orphans, fresh, commits, faults>>
      /\ journal' = NoJournal
      /\ view \in [Procs -> Pairs \cup {NoView}]
      /\ view' = [view EXCEPT ![p] = IF proc[p].then = "reload" THEN NoView ELSE @]
  BY DEF Unlink, At, IInv, TypeOK
<1>2. RecoveryOK(p) /\ CommitOK(p) /\ TypeOK
  BY DEF IInv
<1>3. image = NoFiles /\ Undone("config") /\ Undone("secrets")
  <2>1. image["config"] = NoFile /\ image["secrets"] = NoFile /\ image \in Files
    BY <1>1, <1>2 DEF RecoveryOK, At, TypeOK
  <2>2. image = NoFiles
    BY <2>1 DEF Files, NoFiles
  <2> QED BY <1>1, <1>2, <2>2 DEF RecoveryOK, At
<1>4. ImagesBelong'
  BY <1>1, <1>3, NoImagesBelong
<1>5. Quiet
  <2>1. \A l \in Labels : Settled(l)' = file[l]
    BY <1>1 DEF Settled
  <2>2. \A l \in Labels : Settled(l) = file[l]
    BY <1>3, SettledOnDisk DEF Undone, Labels
  <2> QED BY <2>1, <2>2, SameSettled
<1>6. /\ view' \in {view, [view EXCEPT ![p] = NoView]}
      /\ view' \in [Procs -> Pairs \cup {NoView}]
      /\ proc[p].then # "reload" => view'[p] = view[p]
  <2>1. CASE proc[p].then = "reload"
    BY <1>1, <2>1
  <2>2. CASE proc[p].then # "reload"
    BY <1>1, <2>2
  <2> QED BY <2>1, <2>2
<1>7. CASE proc[p].then \in {"abort", "reload"}
  <2>1. Leave(p)
    BY <1>7 DEF Unlink
  <2>2. proc' \in [Procs -> Proc] /\ lock' = NoProc
    BY <1>1, <2>1, LeaveIs
  <2>3. TypeOK'
    BY <1>1, <1>2, <1>6, <2>2 DEF TypeOK
  <2> QED BY <1>1, <1>4, <1>5, <1>6, <2>1, <2>3, Leaving
<1>8. CASE proc[p].then \notin {"abort", "reload"}
  <2>1. Goto(p, proc[p].then) /\ lock' = lock
    BY <1>8 DEF Unlink
  <2>2. proc[p].then \in {"create", "serve", "check"}
    <3>1. proc[p].then \in Then
      BY <1>1 DEF Proc
    <3> QED BY <1>8, <3>1 DEF Then
  <2>3. proc[p].then \in Pcs \ {"idle"}
    BY <2>2, Moves
  <2>4. /\ proc' \in [Procs -> Proc] /\ proc'[p].pc = proc[p].then
        /\ proc'[p].then = proc[p].then
        /\ \A q \in Procs : q # p => proc'[q] = proc[q]
    BY <1>1, <2>1, <2>3, GotoIs
  <2>5. TypeOK'
    BY <1>1, <1>2, <1>6, <2>1, <2>4 DEF TypeOK
  <2>6. RecoveryOK(p)' /\ CommitOK(p)'
    BY <1>1, <1>2, <1>6, <1>8, <2>1, <2>2, <2>4 DEF RecoveryOK, CommitOK, PreparingOK, WritingOK, At, Committing
  <2> QED BY <1>1, <1>4, <1>5, <1>6, <2>1, <2>3, <2>4, <2>5, <2>6, Going
<1> QED BY <1>7, <1>8

-----------------------------------------------------------------------------
(* Initializing and reading *)

\* Only here the pair comes into being; its secrets are those of a missing file.
LEMMA CreateKeeps ==
  ASSUME IInv, NEW p \in Procs, Create(p)
  PROVE  IInv' /\ (Quiet \/ Creates) /\ view' = view
<1>1. /\ lock = p /\ lock' = p /\ proc \in [Procs -> Proc] /\ proc[p].pc = "create"
      /\ UNCHANGED <<image, journal, orphans, view, commits, faults>>
      /\ Goto(p, "create_secrets")
  BY DEF Create, At, IInv, TypeOK
<1>2. RecoveryOK(p) /\ CommitOK(p) /\ TypeOK
  BY DEF IInv
<1>3. journal = NoJournal /\ image = NoFiles
  <2>1. journal = NoJournal
    BY <1>1, <1>2 DEF RecoveryOK, At
  <2> QED BY <1>1, <2>1, NobodyAt, NoImages
<1>4. /\ file' \in Files /\ fresh' \subseteq Procs /\ file'.secrets = file.secrets
      /\ \/ file'.config = file.config
         \/ file.config = NoFile /\ file'.config = Default
  <2>1. CASE file.config = NoFile
    <3>1. Put("config", Default)
      BY <2>1 DEF Create
    <3>2. Default \in Content("config")
      BY ContentsAssumption DEF Content
    <3> QED BY <1>2, <2>1, <3>1, <3>2, PutType DEF Labels
  <2>2. CASE file.config # NoFile
    BY <1>2, <2>2 DEF Create, TypeOK
  <2> QED BY <2>1, <2>2
<1>5. Quiet \/ Creates
  <2>1. Pair = OnDisk /\ Pair' = OnDisk'
    BY <1>1, <1>3, SettledOnDisk DEF Uncommitted, Settled, Pair, OnDisk
  <2> QED BY <1>4, <2>1 DEF OnDisk, Quiet, Creates
<1>6. "create_secrets" \in Pcs \ {"idle"}
  BY Moves
<1>7. /\ proc' \in [Procs -> Proc] /\ proc'[p].pc = "create_secrets"
      /\ proc'[p].then = proc[p].then
      /\ \A q \in Procs : q # p => proc'[q] = proc[q]
  BY <1>1, <1>6, GotoIs
<1>8. TypeOK'
  BY <1>1, <1>2, <1>4, <1>7 DEF TypeOK
<1>9. ImagesBelong'
  BY <1>1, <1>3, NoImagesBelong
<1>10. RecoveryOK(p)' /\ CommitOK(p)'
  BY <1>1, <1>2, <1>3, <1>7 DEF RecoveryOK, CommitOK, PreparingOK, WritingOK, At, Committing
<1> QED BY <1>1, <1>5, <1>7, <1>8, <1>9, <1>10, Going

LEMMA CreateSecretsKeeps ==
  ASSUME IInv, NEW p \in Procs, CreateSecrets(p)
  PROVE  IInv' /\ Quiet /\ view' = view
<1>1. /\ lock = p /\ proc \in [Procs -> Proc] /\ proc[p].pc = "create_secrets"
      /\ UNCHANGED <<image, journal, orphans, view, commits, faults>>
      /\ Leave(p)
  BY DEF CreateSecrets, At, IInv, TypeOK
<1>2. RecoveryOK(p) /\ TypeOK
  BY DEF IInv
<1>3. journal = NoJournal /\ image = NoFiles
  <2>1. journal = NoJournal
    BY <1>1, <1>2 DEF RecoveryOK, At
  <2> QED BY <1>1, <2>1, NobodyAt, NoImages
<1>4. /\ file' \in Files /\ fresh' \subseteq Procs /\ file'.config = file.config
      /\ SecretsIn(file'.secrets) = SecretsIn(file.secrets)
  <2>1. CASE file.secrets = NoFile
    <3>1. Put("secrets", Empty)
      BY <2>1 DEF CreateSecrets
    <3>2. Empty \in Content("secrets")
      BY DEF Content, Empty, SecretMaps
    <3>3. /\ file' \in Files /\ fresh' \subseteq Procs /\ file'["secrets"] = Empty
          /\ file'["config"] = file["config"]
      BY <1>2, <3>1, <3>2, PutType DEF Labels
    <3> QED BY <2>1, <3>3 DEF SecretsIn
  <2>2. CASE file.secrets # NoFile
    BY <1>2, <2>2 DEF CreateSecrets, TypeOK
  <2> QED BY <2>1, <2>2
<1>5. Quiet
  <2>1. Pair = OnDisk /\ Pair' = OnDisk'
    BY <1>1, <1>3, SettledOnDisk DEF Uncommitted, Settled, Pair, OnDisk
  <2> QED BY <1>4, <2>1 DEF OnDisk, Quiet
<1>6. proc' \in [Procs -> Proc] /\ lock' = NoProc
  BY <1>1, LeaveIs
<1>7. TypeOK'
  BY <1>1, <1>2, <1>4, <1>6 DEF TypeOK
<1>8. ImagesBelong'
  BY <1>1, <1>3, NoImagesBelong
<1> QED BY <1>1, <1>5, <1>7, <1>8, Leaving

\* A session without a journal that leaves the disk as it is.
LEMMA ReadingKeeps ==
  ASSUME IInv, NEW p \in Procs, lock = p, proc[p].pc \in {"serve", "check"},
         Leave(p), UNCHANGED disk, view' \in [Procs -> Pairs \cup {NoView}],
         fresh' \subseteq Procs, commits' = commits, faults' \in 0..MaxFaults
  PROVE  IInv' /\ Quiet
<1>1. RecoveryOK(p) /\ TypeOK
  BY DEF IInv
<1>2. journal = NoJournal /\ image = NoFiles
  <2>1. journal = NoJournal
    BY <1>1 DEF RecoveryOK, At
  <2> QED BY <2>1, NobodyAt, NoImages
<1>3. proc' \in [Procs -> Proc] /\ lock' = NoProc
  BY <1>1, LeaveIs DEF TypeOK
<1>4. TypeOK'
  BY <1>1, <1>3 DEF TypeOK, disk
<1>5. ImagesBelong'
  BY <1>2, NoImagesBelong DEF disk
<1> QED BY <1>4, <1>5, Leaving, SameDisk DEF disk

\* What a snapshot shows is the pair.
LEMMA ServeKeeps ==
  ASSUME IInv, NEW p \in Procs, Serve(p)
  PROVE  /\ IInv' /\ Quiet
         /\ \/ view' = view
            \/ Pair.config # NoFile /\ view' = [view EXCEPT ![p] = Pair]
<1>1. /\ lock = p /\ proc[p].pc = "serve" /\ Leave(p) /\ UNCHANGED <<disk, commits, faults>>
  BY DEF Serve, At
<1>2. RecoveryOK(p) /\ TypeOK
  BY DEF IInv
<1>3. Pair = OnDisk
  BY <1>1, <1>2, SettledOnDisk DEF RecoveryOK, At, Uncommitted
<1>4. CASE UNCHANGED managers
  BY <1>1, <1>2, <1>4, ReadingKeeps DEF managers, TypeOK
<1>5. CASE file.config # NoFile /\ view' = [view EXCEPT ![p] = OnDisk] /\ fresh' = fresh \cup {p}
  <2>1. Pair.config # NoFile /\ Pair \in Pairs
    <3>1. Pair = [config |-> Pair.config, secrets |-> Pair.secrets]
      BY DEF Pair
    <3> QED BY <1>2, <1>3, <1>5, <3>1, PairType DEF OnDisk, Pairs
  <2>2. view' \in [Procs -> Pairs \cup {NoView}] /\ fresh' \subseteq Procs
    BY <1>2, <1>3, <1>5, <2>1 DEF TypeOK
  <2>3. faults' \in 0..MaxFaults
    BY <1>1, <1>2 DEF TypeOK
  <2> QED BY <1>1, <1>3, <1>5, <2>1, <2>2, <2>3, ReadingKeeps
<1> QED BY <1>4, <1>5 DEF Serve

LEMMA FaultCounts ==
  ASSUME TypeOK, faults' = faults \/ (faults < MaxFaults /\ faults' = faults + 1)
  PROVE  faults' \in 0..MaxFaults
<1>1. faults \in 0..MaxFaults /\ MaxFaults \in Nat
  BY BoundsAssumption DEF TypeOK
<1> QED BY <1>1

LEMMA ServeFailsKeeps ==
  ASSUME IInv, NEW p \in Procs, ServeFails(p)
  PROVE  IInv' /\ Quiet /\ view' = view
<1>1. /\ lock = p /\ proc[p].pc = "serve" /\ Leave(p) /\ UNCHANGED <<disk, view, commits>>
      /\ fresh' = fresh \cup {p}
      /\ faults' = faults \/ (faults < MaxFaults /\ faults' = faults + 1)
  BY DEF ServeFails, At
<1>2. TypeOK
  BY DEF IInv
<1>3. faults' \in 0..MaxFaults
  BY <1>1, <1>2, FaultCounts
<1>4. view' \in [Procs -> Pairs \cup {NoView}] /\ fresh' \subseteq Procs
  BY <1>1, <1>2 DEF TypeOK
<1> QED BY <1>1, <1>3, <1>4, ReadingKeeps

LEMMA RejectKeeps ==
  ASSUME IInv, NEW p \in Procs, Reject(p)
  PROVE  IInv' /\ Quiet /\ view' = view
<1>1. /\ lock = p /\ proc[p].pc = "check" /\ Leave(p) /\ UNCHANGED <<disk, commits, faults>>
      /\ view' = view /\ fresh' = fresh
  BY DEF Reject, At, managers
<1> QED BY <1>1, ReadingKeeps DEF IInv, TypeOK

-----------------------------------------------------------------------------
(* Commits *)

\* A step that keeps a session's edit and the pair keeps what the edit makes of it.
LEMMA SameEdit ==
  ASSUME NEW p \in Procs, Quiet,
         proc'[p].want = proc[p].want, proc'[p].upd = proc[p].upd
  PROVE  Edited(p)' = Edited(p) /\ Changed(p)' = Changed(p)
<1>1. Pair'.config = Pair.config /\ Pair'.secrets = Pair.secrets
  BY DEF Quiet
<1> QED BY <1>1 DEF Edited, Changed, Changes, Applied

LEMMA CheckKeeps ==
  ASSUME IInv, NEW p \in Procs, Check(p)
  PROVE  IInv' /\ Quiet /\ view' = view
<1>1. /\ lock = p /\ lock' = p /\ proc \in [Procs -> Proc] /\ proc[p].pc = "check"
      /\ UNCHANGED <<disk, managers, commits, faults>>
      /\ UNCHANGED <<file, image, journal, view>>
      /\ file.config = view[p].config /\ file.config # NoFile
      /\ Candidate(p) \in Compatible
      /\ proc' = [proc EXCEPT ![p].pc = "copy_config", ![p].cand = Candidate(p)]
  BY DEF Check, At, IInv, TypeOK, disk, managers, Current
<1>2. RecoveryOK(p) /\ CommitOK(p) /\ TypeOK /\ ImagesBelong
  BY DEF IInv
<1>3. journal = NoJournal /\ image = NoFiles /\ proc[p].then = "check" /\ view[p] # NoView
  <2>1. journal = NoJournal /\ proc[p].then = "check" /\ view[p] # NoView
    BY <1>1, <1>2 DEF RecoveryOK, CommitOK, PreparingOK, WritingOK, At
  <2> QED BY <1>1, <2>1, NobodyAt, NoImages
<1>4. Pair = OnDisk
  BY <1>3, SettledOnDisk DEF Uncommitted
<1>5. Candidate(p) = Edited(p) /\ view[p].config = Pair.config
  BY <1>1, <1>4 DEF Candidate, Edited, OnDisk
<1>6. Candidate(p) \in Pairs /\ "copy_config" \in Pcs \ {"idle"}
  BY <1>1, <1>2, CandidateType, Moves DEF Committing
<1>7. /\ proc' \in [Procs -> Proc] /\ proc'[p].pc = "copy_config"
      /\ proc'[p].cand = Candidate(p)
      /\ proc'[p].then = proc[p].then
      /\ proc'[p].want = proc[p].want /\ proc'[p].upd = proc[p].upd
      /\ \A q \in Procs : q # p => proc'[q] = proc[q]
  <2>1. /\ [proc[p] EXCEPT !.pc = "copy_config", !.cand = Candidate(p)] \in Proc
        /\ [proc[p] EXCEPT !.pc = "copy_config", !.cand = Candidate(p)].pc = "copy_config"
        /\ [proc[p] EXCEPT !.pc = "copy_config", !.cand = Candidate(p)].cand = Candidate(p)
        /\ [proc[p] EXCEPT !.pc = "copy_config", !.cand = Candidate(p)].then = proc[p].then
        /\ [proc[p] EXCEPT !.pc = "copy_config", !.cand = Candidate(p)].want = proc[p].want
        /\ [proc[p] EXCEPT !.pc = "copy_config", !.cand = Candidate(p)].upd = proc[p].upd
    BY <1>1, <1>6 DEF Proc, Pcs
  <2> QED BY <1>1, <2>1
<1>8. Quiet
  BY <1>1, SameDisk
<1>9. Edited(p)' = Edited(p) /\ Pair' = Pair
  BY <1>7, <1>8, SameEdit DEF Quiet
<1>10. TypeOK'
  BY <1>1, <1>2, <1>7 DEF TypeOK, disk, managers
<1>11. ImagesBelong'
  BY <1>1, <1>3, NoImagesBelong
<1>12. RecoveryOK(p)' /\ CommitOK(p)'
  <2>1. view'[p].config = Pair'.config /\ proc'[p].cand = Edited(p)'
    BY <1>1, <1>5, <1>7, <1>9
  <2> QED BY <1>1, <1>3, <1>7, <2>1 DEF RecoveryOK, CommitOK, PreparingOK, WritingOK, At, Committing, Carried
<1> QED BY <1>1, <1>6, <1>7, <1>8, <1>10, <1>11, <1>12, Going

LEMMA CarriedAlong ==
  ASSUME IInv, NEW p \in Procs, lock = p, proc[p].pc \in Committing
  PROVE  Carried(p)
BY DEF IInv, CommitOK, PreparingOK, WritingOK, Carried

\* A step of a commit that goes on to the next, and keeps the pair.
LEMMA CommitGoesOn ==
  ASSUME IInv, NEW p \in Procs, lock = p, proc[p].pc \in Committing,
         NEW pc \in Committing, Goto(p, pc), lock' = p, view' = view, Quiet
  PROVE  /\ proc' \in [Procs -> Proc] /\ proc'[p].pc = pc /\ proc'[p].pc # "idle"
         /\ \A q \in Procs : q # p => proc'[q] = proc[q]
         /\ proc'[p].cand = proc[p].cand
         /\ Changed(p)' = Changed(p)
         /\ Carried(p)'
<1>1. proc \in [Procs -> Proc] /\ pc \in Pcs \ {"idle"}
  BY Moves DEF IInv, TypeOK
<1>2. /\ proc' \in [Procs -> Proc]
      /\ proc'[p].pc = pc /\ proc'[p].then = proc[p].then
      /\ proc'[p].want = proc[p].want /\ proc'[p].upd = proc[p].upd
      /\ proc'[p].cand = proc[p].cand
      /\ \A q \in Procs : q # p => proc'[q] = proc[q]
  BY <1>1, GotoIs
<1>3. Edited(p)' = Edited(p) /\ Changed(p)' = Changed(p)
  BY <1>2, SameEdit
<1> QED BY <1>1, <1>2, <1>3, CarriedAlong DEF Carried, Quiet

LEMMA CopyKeeps ==
  ASSUME IInv, NEW p \in Procs, NEW l \in Labels, Copy(p, l)
  PROVE  IInv' /\ Quiet /\ view' = view
<1> DEFINE pc == IF l = "config" THEN "copy_secrets" ELSE "prepare"
<1>1. /\ lock = p /\ lock' = p
      /\ proc[p].pc = IF l = "config" THEN "copy_config" ELSE "copy_secrets"
      /\ UNCHANGED <<file, journal, orphans, managers, commits, faults>>
      /\ view' = view /\ fresh' = fresh
      /\ Goto(p, pc)
  BY DEF Copy, At, managers
<1>2. RecoveryOK(p) /\ CommitOK(p) /\ TypeOK
  BY DEF IInv
<1>3. journal = NoJournal /\ proc[p].pc \in Committing /\ pc \in Committing
  BY <1>1, <1>2 DEF CommitOK, PreparingOK, WritingOK, At, Committing
<1>4. /\ image' \in Files /\ \A m \in Labels : m # l => image'[m] = image[m]
      /\ image'[l] = IF l \in Changed(p) THEN file[l] ELSE image[l]
  BY <1>2, ImageType, Contents DEF Copy
<1>5. Quiet
  <2>1. \A m \in Labels : Settled(m)' = Settled(m)
    BY <1>1, <1>3 DEF Settled
  <2> QED BY <2>1, SameSettled
<1> HIDE DEF pc
<1>6. /\ proc' \in [Procs -> Proc] /\ proc'[p].pc = pc /\ proc'[p].pc # "idle"
      /\ \A q \in Procs : q # p => proc'[q] = proc[q]
      /\ Changed(p)' = Changed(p) /\ Carried(p)'
  BY <1>1, <1>3, <1>5, CommitGoesOn
<1>7. TypeOK'
  BY <1>1, <1>2, <1>4, <1>6 DEF TypeOK
<1>8. ImagesBelong'
  BY <1>1, <1>3, <1>6 DEF ImagesBelong, At, pc
<1>9. RecoveryOK(p)' /\ CommitOK(p)'
  <2>1. CASE l = "config"
    <3>1. image["config"] = NoFile /\ image["secrets"] = NoFile
      BY <1>1, <1>2, <2>1, SessionTypes DEF CommitOK, PreparingOK, WritingOK, At
    <3> QED BY <1>1, <1>3, <1>4, <1>6, <2>1, <3>1
            DEF RecoveryOK, CommitOK, PreparingOK, WritingOK, At, Committing, Carried, Labels, pc
  <2>2. CASE l = "secrets"
    <3>1. /\ image["config"] = IF "config" \in Changed(p) THEN file["config"] ELSE NoFile
          /\ image["secrets"] = NoFile
      BY <1>1, <1>2, <2>2 DEF CommitOK, PreparingOK, WritingOK, At
    <3> QED BY <1>1, <1>3, <1>4, <1>6, <2>2, <3>1
            DEF RecoveryOK, CommitOK, PreparingOK, WritingOK, At, Committing, Carried, Labels, pc
  <2> QED BY <2>1, <2>2 DEF Labels
<1> QED BY <1>1, <1>5, <1>6, <1>7, <1>8, <1>9, Going

LEMMA NextWriteIs ==
  ASSUME NEW p \in Procs, proc[p].pc \in {"prepare", "mark_secrets", "mark_config"}
  PROVE  /\ NextWrite(p) \in {"write_secrets", "write_config", "publish"}
         /\ NextWrite(p) = "write_secrets" => "secrets" \in Changed(p)
         /\ NextWrite(p) = "write_config" => "config" \in Changed(p) /\ proc[p].pc # "mark_config"
         /\ proc[p].pc = "prepare" /\ NextWrite(p) # "write_secrets" => "secrets" \notin Changed(p)
         /\ proc[p].pc # "prepare" => NextWrite(p) # "write_secrets"
         /\ proc[p].pc # "mark_config" /\ NextWrite(p) = "publish" => "config" \notin Changed(p)
BY DEF NextWrite

LEMMA PrepareKeeps ==
  ASSUME IInv, NEW p \in Procs, Prepare(p)
  PROVE  IInv' /\ Quiet /\ view' = view
<1>1. /\ lock = p /\ lock' = p /\ proc[p].pc = "prepare"
      /\ UNCHANGED <<file, image, orphans, managers, commits, faults>>
      /\ view' = view /\ fresh' = fresh
      /\ Goto(p, NextWrite(p))
      /\ journal' = [phase |-> "prepared", changed |-> Changed(p), existed |-> Existed]
  BY DEF Prepare, At, managers
<1>2. RecoveryOK(p) /\ CommitOK(p) /\ TypeOK
  BY DEF IInv
<1>3. /\ NextWrite(p) \in {"write_secrets", "write_config", "publish"}
      /\ NextWrite(p) = "write_secrets" => "secrets" \in Changed(p)
      /\ NextWrite(p) = "write_config" => "config" \in Changed(p)
      /\ NextWrite(p) # "write_secrets" => "secrets" \notin Changed(p)
      /\ NextWrite(p) = "publish" => "config" \notin Changed(p)
  BY <1>1, NextWriteIs
<1>4. journal = NoJournal /\ proc[p].pc \in Committing /\ NextWrite(p) \in Committing
  BY <1>1, <1>2, <1>3 DEF CommitOK, PreparingOK, WritingOK, At, Committing
<1>5. \A l \in Labels : image[l] = IF l \in Changed(p) THEN file[l] ELSE NoFile
  BY <1>1, <1>2 DEF CommitOK, PreparingOK, WritingOK, At, Labels
<1>6. journal' \in Journal /\ journal' # NoJournal
  <2>1. Changed(p) \subseteq Labels /\ Existed \subseteq Labels
    BY DEF Changed, Changes, Existed
  <2>2. journal' \in Journal
    BY <1>1, <2>1 DEF Journal
  <2> QED BY <2>2, JournalAssumption
<1>7. /\ Uncommitted' /\ journal'.changed = Changed(p)
      /\ \A l \in Labels : l \in journal'.existed <=> file[l] # NoFile
  BY <1>1, <1>6 DEF Uncommitted, Existed
<1>8. \A l \in Labels : ~MissingImage(l)' /\ Settled(l)' = Settled(l)
  BY <1>1, <1>4, <1>5, <1>7 DEF MissingImage, Settled, Uncommitted
<1>9. Quiet
  BY <1>8, SameSettled
<1>10. /\ proc' \in [Procs -> Proc] /\ proc'[p].pc = NextWrite(p) /\ proc'[p].pc # "idle"
       /\ \A q \in Procs : q # p => proc'[q] = proc[q]
       /\ Changed(p)' = Changed(p) /\ Carried(p)'
  BY <1>1, <1>4, <1>9, CommitGoesOn
<1>11. TypeOK'
  BY <1>1, <1>2, <1>6, <1>10 DEF TypeOK
<1>12. ImagesBelong'
  BY <1>1, <1>5, <1>6, <1>7 DEF ImagesBelong
<1>13. RecoveryOK(p)' /\ CommitOK(p)'
  <2>1. Journalled(p)'
    BY <1>7, <1>8, <1>10 DEF Journalled
  <2> QED BY <1>1, <1>3, <1>10, <2>1
          DEF RecoveryOK, CommitOK, PreparingOK, WritingOK, At, Committing, Carried, Journalled, Written
<1> QED BY <1>1, <1>9, <1>10, <1>11, <1>12, <1>13, Going

\* A commit that writes does so under a journal that can undo it.
LEMMA UnderJournal ==
  ASSUME IInv, NEW p \in Procs, lock = p,
         proc[p].pc \in {"write_secrets", "mark_secrets", "write_config", "mark_config", "publish"}
  PROVE  Journalled(p) /\ journal \in Journal /\ proc[p].pc \in Committing
<1>1. CommitOK(p) /\ TypeOK
  BY DEF IInv
<1>2. \/ At(p, "write_secrets") \/ At(p, "mark_secrets")
      \/ At(p, "write_config") \/ At(p, "mark_config") \/ At(p, "publish")
  BY DEF At
<1>3. Journalled(p)
  BY <1>1, <1>2 DEF CommitOK, PreparingOK, WritingOK, Journalled
<1>4. proc[p].pc \in Committing
  BY DEF Committing
<1> QED BY <1>1, <1>3, <1>4 DEF TypeOK, Journalled, Uncommitted

LEMMA WriteKeeps ==
  ASSUME IInv, NEW p \in Procs, NEW l \in Labels, Write(p, l)
  PROVE  IInv' /\ Quiet /\ view' = view
<1> DEFINE pc == IF l = "config" THEN "mark_config" ELSE "mark_secrets"
<1>1. /\ lock = p /\ lock' = p
      /\ proc[p].pc = IF l = "config" THEN "write_config" ELSE "write_secrets"
      /\ UNCHANGED <<image, journal, orphans, view, commits, faults>>
      /\ Put(l, proc[p].cand[l])
      /\ Goto(p, pc)
  BY DEF Write, At
<1>2. RecoveryOK(p) /\ CommitOK(p) /\ TypeOK /\ ImagesBelong
  BY DEF IInv
<1>3. Journalled(p) /\ proc[p].pc \in Committing /\ pc \in Committing
  BY <1>1, UnderJournal DEF Committing
<1>4. /\ file' \in Files /\ fresh' \subseteq Procs
      /\ file'[l] = proc[p].cand[l] /\ \A m \in Labels : m # l => file'[m] = file[m]
  BY <1>1, <1>2, Contents, PutType
<1>5. l \in Changed(p)
  BY <1>1, <1>2 DEF CommitOK, PreparingOK, WritingOK, At, Labels
<1>6. \A m \in Labels : Settled(m)' = Settled(m)
  <2>1. \A m \in Labels : MissingImage(m)' = MissingImage(m)
    BY <1>1 DEF MissingImage
  <2> QED BY <1>1, <1>3, <1>4, <1>5, <2>1 DEF Settled, Journalled, Uncommitted
<1>7. Quiet
  BY <1>6, SameSettled
<1> HIDE DEF pc
<1>8. /\ proc' \in [Procs -> Proc] /\ proc'[p].pc = pc /\ proc'[p].pc # "idle"
      /\ \A q \in Procs : q # p => proc'[q] = proc[q]
      /\ proc'[p].cand = proc[p].cand
      /\ Changed(p)' = Changed(p) /\ Carried(p)'
  BY <1>1, <1>3, <1>7, CommitGoesOn
<1>9. TypeOK'
  BY <1>1, <1>2, <1>4, <1>8 DEF TypeOK
<1>10. ImagesBelong'
  BY <1>1, <1>2, <1>3 DEF ImagesBelong, Journalled, Uncommitted
<1>11. RecoveryOK(p)' /\ CommitOK(p)'
  <2>1. Journalled(p)'
    BY <1>1, <1>3, <1>8 DEF Journalled, Uncommitted, MissingImage
  <2>2. Written(p, l)'
    BY <1>4, <1>8 DEF Written
  <2>3. CASE l = "config"
    <3>1. Written(p, "secrets")'
      <4>1. Written(p, "secrets")
        BY <1>1, <1>2, <2>3 DEF CommitOK, PreparingOK, WritingOK, At
      <4>2. file'["secrets"] = file["secrets"]
        BY <1>4, <2>3 DEF Labels
      <4> QED BY <1>8, <4>1, <4>2 DEF Written
    <3> QED BY <1>1, <1>5, <1>8, <2>1, <2>2, <2>3, <3>1
            DEF RecoveryOK, CommitOK, PreparingOK, WritingOK, At, Committing, Carried, Journalled, pc
  <2>4. CASE l = "secrets"
    BY <1>1, <1>5, <1>8, <2>1, <2>2, <2>4
       DEF RecoveryOK, CommitOK, PreparingOK, WritingOK, At, Committing, Carried, Journalled, pc
  <2> QED BY <2>3, <2>4 DEF Labels
<1> QED BY <1>1, <1>7, <1>8, <1>9, <1>10, <1>11, Going

\* A step that only marks how far the journal is, short of committing it.
LEMMA PhaseOnly ==
  ASSUME IInv, NEW p \in Procs, Journalled(p), journal \in Journal,
         NEW phase \in {"secret_applied", "config_applied"},
         journal' = [journal EXCEPT !.phase = phase], UNCHANGED <<file, image>>
  PROVE  /\ journal' \in Journal /\ Uncommitted' /\ journal'.changed = journal.changed
         /\ \A l \in Labels : Settled(l)' = Settled(l) /\ ~MissingImage(l)'
         /\ ImagesBelong'
<1>1. /\ journal' \in Journal /\ journal'.phase = phase
      /\ journal'.changed = journal.changed /\ journal'.existed = journal.existed
  BY PhaseType
<1>2. Uncommitted' /\ journal' # NoJournal
  BY <1>1, JournalAssumption DEF Uncommitted
<1>3. \A l \in Labels : MissingImage(l)' = MissingImage(l)
  BY <1>1 DEF MissingImage
<1>4. \A l \in Labels : Settled(l)' = Settled(l) /\ ~MissingImage(l)'
  BY <1>1, <1>2, <1>3 DEF Settled, Journalled, Uncommitted
<1>5. ImagesBelong'
  BY <1>1, <1>2 DEF IInv, ImagesBelong, Journalled, Uncommitted
<1> QED BY <1>1, <1>2, <1>4, <1>5

LEMMA MarkKeeps ==
  ASSUME IInv, NEW p \in Procs, NEW l \in Labels, Mark(p, l)
  PROVE  IInv' /\ Quiet /\ view' = view
<1>1. /\ lock = p /\ lock' = p
      /\ proc[p].pc = IF l = "config" THEN "mark_config" ELSE "mark_secrets"
      /\ UNCHANGED <<file, image, orphans, managers, commits, faults>>
      /\ view' = view /\ fresh' = fresh
      /\ Goto(p, NextWrite(p))
      /\ journal' = [journal EXCEPT !.phase =
                       IF l = "config" THEN "config_applied" ELSE "secret_applied"]
  BY DEF Mark, At, managers
<1>2. RecoveryOK(p) /\ CommitOK(p) /\ TypeOK
  BY DEF IInv
<1>3. Journalled(p) /\ proc[p].pc \in Committing /\ journal \in Journal
  BY <1>1, UnderJournal
<1>4. /\ NextWrite(p) \in {"write_config", "publish"}
      /\ NextWrite(p) = "write_config" => "config" \in Changed(p) /\ l = "secrets"
      /\ NextWrite(p) = "publish" /\ l = "secrets" => "config" \notin Changed(p)
  <2>1. CASE l = "config"
    BY <1>1, <2>1, NextWriteIs
  <2>2. CASE l = "secrets"
    BY <1>1, <2>2, NextWriteIs
  <2> QED BY <2>1, <2>2 DEF Labels
<1>5. /\ journal' \in Journal /\ Uncommitted' /\ journal'.changed = journal.changed
      /\ \A m \in Labels : Settled(m)' = Settled(m) /\ ~MissingImage(m)'
      /\ ImagesBelong'
  BY <1>1, <1>3, PhaseOnly
<1>6. Quiet
  BY <1>5, SameSettled
<1>7. NextWrite(p) \in Committing
  BY <1>4 DEF Committing
<1>8. /\ proc' \in [Procs -> Proc] /\ proc'[p].pc = NextWrite(p) /\ proc'[p].pc # "idle"
      /\ \A q \in Procs : q # p => proc'[q] = proc[q]
      /\ proc'[p].cand = proc[p].cand
      /\ Changed(p)' = Changed(p) /\ Carried(p)'
  BY <1>1, <1>3, <1>6, <1>7, CommitGoesOn
<1>9. TypeOK'
  BY <1>1, <1>2, <1>5, <1>8 DEF TypeOK
<1>10. RecoveryOK(p)' /\ CommitOK(p)'
  <2>1. Journalled(p)'
    BY <1>3, <1>5, <1>8 DEF Journalled
  <2>2. Written(p, "secrets")' /\ (l = "config" => Written(p, "config")')
    <3>1. Written(p, "secrets") /\ (l = "config" => Written(p, "config"))
      BY <1>1, <1>2 DEF CommitOK, PreparingOK, WritingOK, At, Labels
    <3> QED BY <1>1, <1>8, <3>1 DEF Written
  <2>3. NextWrite(p) = "publish" => Written(p, "config")'
    BY <1>4, <1>8, <2>2 DEF Written, Labels
  <2> QED BY <1>1, <1>4, <1>8, <2>1, <2>2, <2>3
          DEF RecoveryOK, CommitOK, PreparingOK, WritingOK, At, Committing, Carried, Journalled
<1> QED BY <1>1, <1>5, <1>6, <1>8, <1>9, <1>10, Going

\* What has been written when a commit is published is its candidate.
LEMMA AllWritten ==
  ASSUME IInv, NEW p \in Procs, lock = p, proc[p].pc = "publish"
  PROVE  OnDisk = proc[p].cand
<1>1. Carried(p) /\ Journalled(p) /\ Written(p, "config") /\ Written(p, "secrets") /\ TypeOK
  BY CarriedAlong, UnderJournal DEF IInv, CommitOK, PreparingOK, WritingOK, At, Committing
<1>2. proc[p] \in Proc /\ proc[p].cand \in Pairs
  BY <1>1 DEF TypeOK, Proc
<1>3. file.config = proc[p].cand.config
  <2>1. CASE "config" \in Changed(p)
    BY <1>1, <2>1 DEF Written
  <2>2. CASE "config" \notin Changed(p)
    <3>1. proc[p].want = Keep
      BY <2>2 DEF Changed, Changes, Labels
    <3>2. Settled("config") = file.config
      BY <1>1, <2>2 DEF Settled, Journalled
    <3> QED BY <1>1, <3>1, <3>2 DEF Carried, Edited, Pair
  <2> QED BY <2>1, <2>2
<1>4. SecretsIn(file.secrets) = proc[p].cand.secrets
  <2>1. CASE "secrets" \in Changed(p)
    <3>1. proc[p].cand.secrets # NoFile
      BY <1>2, ContentsAssumption DEF Pairs
    <3> QED BY <1>1, <2>1, <3>1 DEF Written, SecretsIn
  <2>2. CASE "secrets" \notin Changed(p)
    <3>1. DOMAIN proc[p].upd = {}
      BY <2>2 DEF Changed, Changes, Labels
    <3>2. Pair.secrets = SecretsIn(file.secrets) /\ Pair.secrets \in SecretMaps
      BY <1>1, <2>2, PairType DEF Settled, Journalled, Pair
    <3>3. Applied(proc[p].upd, Pair.secrets) = Pair.secrets
      BY <3>1, <3>2 DEF Applied, SecretMaps
    <3> QED BY <1>1, <3>2, <3>3 DEF Carried, Edited
  <2> QED BY <2>1, <2>2
<1> QED BY <1>2, <1>3, <1>4 DEF OnDisk, Pairs

\* The commit point.
LEMMA PublishKeeps ==
  ASSUME IInv, NEW p \in Procs, Publish(p)
  PROVE  IInv' /\ Publishes(p) /\ view' = view
<1>1. /\ lock = p /\ lock' = p /\ proc[p].pc = "publish" /\ proc \in [Procs -> Proc]
      /\ UNCHANGED <<file, image, orphans, managers, commits>>
      /\ view' = view /\ fresh' = fresh
      /\ journal' = [journal EXCEPT !.phase = "committed"]
  BY DEF Publish, At, managers, IInv, TypeOK
<1>2. RecoveryOK(p) /\ CommitOK(p) /\ TypeOK /\ ImagesBelong
  BY DEF IInv
<1>3. Carried(p) /\ Journalled(p) /\ journal \in Journal
  BY <1>1, UnderJournal, CarriedAlong
<1>4. /\ journal' \in Journal /\ journal' # NoJournal /\ ~Uncommitted'
      /\ journal'.changed = journal.changed /\ journal'.existed = journal.existed
  BY <1>1, <1>3, PhaseType, JournalAssumption DEF Uncommitted
<1>5. Publishes(p)
  <2>1. Pair' = OnDisk'
    BY <1>4 DEF Uncommitted, Settled, Pair, OnDisk
  <2>2. OnDisk' = proc[p].cand
    BY <1>1, AllWritten DEF OnDisk
  <2> QED BY <1>1, <1>3, <2>1, <2>2 DEF Carried, Publishes
<1>6. /\ proc' \in [Procs -> Proc] /\ proc'[p].pc \in {"drop_config", "raise"}
      /\ \A q \in Procs : q # p => proc'[q] = proc[q]
      /\ proc'[p].then = "reload" \/ proc'[p].then = proc[p].then
  <2>1. CASE proc' = [proc EXCEPT ![p].pc = "drop_config", ![p].then = "reload"]
    <3>1. /\ [proc[p] EXCEPT !.pc = "drop_config", !.then = "reload"] \in Proc
          /\ [proc[p] EXCEPT !.pc = "drop_config", !.then = "reload"].pc = "drop_config"
          /\ [proc[p] EXCEPT !.pc = "drop_config", !.then = "reload"].then = "reload"
      BY <1>1 DEF Proc, Recovering, Then
    <3> QED BY <1>1, <2>1, <3>1
  <2>2. CASE Goto(p, "raise")
    <3>1. "raise" \in Pcs
      BY Moves
    <3> QED BY <1>1, <2>2, <3>1, GotoIs
  <2> QED BY <2>1, <2>2 DEF Publish
<1>7. TypeOK'
  <2>1. faults' = faults \/ (faults < MaxFaults /\ faults' = faults + 1)
    BY DEF Publish
  <2>2. faults' \in 0..MaxFaults
    BY <1>2, <2>1, FaultCounts
  <2> QED BY <1>1, <1>2, <1>4, <1>6, <2>2 DEF TypeOK
<1>8. ImagesBelong'
  BY <1>1, <1>2, <1>3, <1>4 DEF ImagesBelong, Journalled, Uncommitted
<1>9. RecoveryOK(p)' /\ CommitOK(p)'
  <2>1. Undone("config")' /\ Undone("secrets")'
    BY <1>4 DEF Undone
  <2> QED BY <1>1, <1>3, <1>4, <1>6, <2>1 DEF RecoveryOK, CommitOK, PreparingOK, WritingOK, At, Committing, Carried
<1>10. proc'[p].pc # "idle"
  BY <1>6
<1> QED BY <1>1, <1>5, <1>6, <1>7, <1>8, <1>9, <1>10, Going

-----------------------------------------------------------------------------
(* Failures *)

LEMMA FailKeeps ==
  ASSUME IInv, NEW p \in Procs, Fail(p)
  PROVE  IInv' /\ Quiet /\ view' = view
<1>1. /\ lock = p /\ proc \in [Procs -> Proc]
      /\ UNCHANGED <<disk, managers, commits>>
      /\ UNCHANGED <<file, image, journal, view>>
      /\ faults < MaxFaults /\ faults' = faults + 1
  BY DEF Fail, disk, managers, IInv, TypeOK
<1>2. RecoveryOK(p) /\ CommitOK(p) /\ TypeOK /\ ImagesBelong
  BY DEF IInv
<1>3. faults' \in 0..MaxFaults
  BY <1>1, <1>2, FaultCounts
<1>4. Quiet
  BY <1>1, SameDisk
<1>5. CASE proc[p].pc \in Committing /\ Goto(p, "raise") /\ UNCHANGED lock
  <2>1. "raise" \in Pcs \ {"idle"}
    BY Moves
  <2>2. /\ proc' \in [Procs -> Proc] /\ proc'[p].pc = "raise"
        /\ proc'[p].then = proc[p].then
        /\ \A q \in Procs : q # p => proc'[q] = proc[q]
    BY <1>1, <1>5, <2>1, GotoIs
  <2>3. TypeOK'
    BY <1>1, <1>2, <1>3, <1>5, <2>2 DEF TypeOK, disk, managers
  <2>4. ImagesBelong'
    <3>1. At(p, "raise")'
      BY <1>1, <1>5, <2>2 DEF At
    <3> QED BY <1>1, <1>2, <3>1 DEF ImagesBelong
  <2>5. RecoveryOK(p)' /\ CommitOK(p)'
    BY <1>1, <1>2, <1>5, <2>2
       DEF RecoveryOK, CommitOK, PreparingOK, WritingOK, At, Committing
  <2> QED BY <1>1, <1>4, <1>5, <2>1, <2>2, <2>3, <2>4, <2>5, Going
<1>6. CASE /\ proc[p].pc \in (Recovering \ {"recover"}) \cup {"create", "create_secrets"}
           /\ Leave(p)
  <2>1. proc' \in [Procs -> Proc] /\ lock' = NoProc
    BY <1>1, <1>6, LeaveIs
  <2>2. TypeOK'
    BY <1>1, <1>2, <1>3, <2>1 DEF TypeOK, disk, managers
  <2>3. journal = NoJournal => image = NoFiles
    BY <1>1, <1>6, NobodyAt, NoImages DEF Recovering
  <2>4. ImagesBelong'
    BY <1>1, <1>2, <2>3 DEF ImagesBelong
  <2> QED BY <1>1, <1>4, <1>6, <2>2, <2>4, Leaving
<1> QED BY <1>5, <1>6 DEF Fail

LEMMA LeftoverType ==
  ASSUME TypeOK
  PROVE  Leftover \subseteq SecretMaps
BY DEF TypeOK, Leftover, Files

\* Images that are given up when there is no journal were never part of the pair.
LEMMA GivingUpImages ==
  ASSUME journal = NoJournal, UNCHANGED <<file, journal>>
  PROVE  Quiet
<1>1. \A l \in Labels : Settled(l)' = Settled(l)
  BY DEF Settled
<1> QED BY <1>1, SameSettled

LEMMA HandleKeeps ==
  ASSUME IInv, NEW p \in Procs, Handle(p)
  PROVE  IInv' /\ Quiet /\ view' = view
<1>1. /\ lock = p /\ proc \in [Procs -> Proc] /\ proc[p].pc = "raise"
      /\ UNCHANGED <<file, journal, managers, commits>>
      /\ view' = view /\ fresh' = fresh
  BY DEF Handle, At, managers, IInv, TypeOK
<1>2. RecoveryOK(p) /\ CommitOK(p) /\ TypeOK /\ ImagesBelong
  BY DEF IInv
<1>3. CASE /\ journal # NoJournal
           /\ proc' = [proc EXCEPT ![p].pc = "recover", ![p].then = "abort"]
           /\ UNCHANGED <<image, orphans, lock, faults>>
  <2>1. /\ [proc[p] EXCEPT !.pc = "recover", !.then = "abort"] \in Proc
        /\ [proc[p] EXCEPT !.pc = "recover", !.then = "abort"].pc = "recover"
        /\ [proc[p] EXCEPT !.pc = "recover", !.then = "abort"].then = "abort"
    BY <1>1 DEF Proc, Recovering, Then
  <2>2. /\ proc' \in [Procs -> Proc] /\ proc'[p].pc = "recover" /\ proc'[p].then = "abort"
        /\ \A q \in Procs : q # p => proc'[q] = proc[q]
    BY <1>1, <1>3, <2>1
  <2>3. TypeOK'
    BY <1>1, <1>2, <1>3, <2>2 DEF TypeOK
  <2>4. ImagesBelong'
    BY <1>1, <1>2, <1>3 DEF ImagesBelong
  <2>5. RecoveryOK(p)' /\ CommitOK(p)'
    BY <1>1, <1>3, <2>2 DEF RecoveryOK, CommitOK, PreparingOK, WritingOK, At, Committing
  <2>6. Quiet
    BY <1>1, <1>3, SameDisk
  <2>7. lock' = p /\ proc'[p].pc # "idle"
    BY <1>1, <1>3, <2>2
  <2> QED BY <1>1, <2>2, <2>3, <2>4, <2>5, <2>6, <2>7, Going
<1>4. CASE /\ journal = NoJournal /\ image' = NoFiles /\ Leave(p)
           /\ \/ UNCHANGED <<orphans, faults>>
              \/ /\ faults < MaxFaults /\ faults' = faults + 1
                 /\ orphans' = orphans \cup Leftover
  <2>1. orphans' \subseteq SecretMaps /\ faults' \in 0..MaxFaults
    BY <1>2, <1>4, LeftoverType, FaultCounts DEF TypeOK
  <2>2. proc' \in [Procs -> Proc] /\ lock' = NoProc
    BY <1>1, <1>4, LeaveIs
  <2>3. TypeOK'
    BY <1>1, <1>2, <1>4, <2>1, <2>2, SessionTypes DEF TypeOK
  <2>4. ImagesBelong'
    BY <1>4, NoImagesBelong
  <2>5. Quiet
    BY <1>1, <1>4, GivingUpImages
  <2> QED BY <1>1, <1>4, <2>3, <2>4, <2>5, Leaving
<1> QED BY <1>3, <1>4 DEF Handle

LEMMA CrashKeeps ==
  ASSUME IInv, NEW p \in Procs, Crash(p)
  PROVE  IInv' /\ Quiet /\ view' = [view EXCEPT ![p] = NoView]
<1>1. /\ UNCHANGED <<file, journal, fresh, commits>>
      /\ view' = [view EXCEPT ![p] = NoView]
      /\ faults < MaxFaults /\ faults' = faults + 1
  BY DEF Crash
<1>2. TypeOK /\ ImagesBelong /\ OneSession
  BY DEF IInv
<1>3. faults' \in 0..MaxFaults
  BY <1>1, <1>2, FaultCounts
<1>4. /\ view' \in [Procs -> Pairs \cup {NoView}]
      /\ \A q \in Procs : q # p => view'[q] = view[q]
  BY <1>1, <1>2 DEF TypeOK
<1>5. CASE lock = p
  <2>1. Leave(p)
    BY <1>5 DEF Crash
  <2>2. proc' \in [Procs -> Proc] /\ lock' = NoProc
    BY <1>2, <2>1, LeaveIs DEF TypeOK
  <2>3. CASE journal = NoJournal
    <3>1. image' = NoFiles /\ orphans' = orphans \cup Leftover
      BY <1>5, <2>3 DEF Crash
    <3>2. orphans' \subseteq SecretMaps
      BY <1>2, <3>1, LeftoverType DEF TypeOK
    <3>3. TypeOK'
      BY <1>1, <1>2, <1>3, <1>4, <2>2, <3>1, <3>2, SessionTypes DEF TypeOK
    <3>4. ImagesBelong'
      BY <3>1, NoImagesBelong
    <3>5. Quiet
      BY <1>1, <2>3, GivingUpImages
    <3> QED BY <1>1, <1>5, <2>1, <3>3, <3>4, <3>5, Leaving
  <2>4. CASE journal # NoJournal
    <3>1. UNCHANGED <<image, orphans>>
      BY <1>5, <2>4 DEF Crash
    <3>2. TypeOK'
      BY <1>1, <1>2, <1>3, <1>4, <2>2, <3>1 DEF TypeOK
    <3>3. ImagesBelong'
      BY <1>1, <1>2, <2>4, <3>1 DEF ImagesBelong
    <3>4. Quiet
      BY <1>1, <3>1, SameDisk
    <3> QED BY <1>1, <1>5, <2>1, <3>2, <3>3, <3>4, Leaving
  <2> QED BY <2>3, <2>4
<1>6. CASE lock # p
  <2>1. UNCHANGED <<image, orphans, lock, proc>>
    BY <1>6 DEF Crash
  <2>2. TypeOK'
    BY <1>1, <1>2, <1>3, <1>4, <2>1 DEF TypeOK
  <2>3. ImagesBelong' /\ OneSession'
    BY <1>1, <1>2, <2>1 DEF ImagesBelong, OneSession, At
  <2>4. Quiet /\ Pair' = Pair
    BY <1>1, <2>1, SameDisk DEF Quiet
  <2>5. ASSUME NEW q \in Procs PROVE RecoveryOK(q)' /\ CommitOK(q)'
    <3>1. CASE q = p
      BY <1>6, <2>1, <3>1, Elsewhere
    <3>2. CASE q # p
      <4>1. RecoveryOK(q) /\ CommitOK(q) /\ view'[q] = view[q]
        BY <1>4, <3>2 DEF IInv
      <4>2. /\ Undone("config")' = Undone("config") /\ Undone("secrets")' = Undone("secrets")
            /\ Uncommitted' = Uncommitted
            /\ \A l \in Labels : MissingImage(l)' = MissingImage(l)
        BY <1>1, <2>1, SameDisk DEF Labels
      <4>3. RecoveryOK(q)'
        BY <1>1, <2>1, <4>1, <4>2 DEF RecoveryOK, At
      <4>4. Edited(q)' = Edited(q) /\ Changed(q)' = Changed(q)
        BY <2>1, <2>4, SameEdit
      <4>5. Carried(q) => Carried(q)'
        BY <2>1, <2>4, <4>1, <4>4 DEF Carried
      <4>6. Journalled(q) => Journalled(q)'
        BY <1>1, <4>2, <4>4 DEF Journalled
      <4>7. \A l \in Labels : Written(q, l) => Written(q, l)'
        BY <1>1, <2>1, <4>4 DEF Written
      <4>8. PreparingOK(q)'
        BY <1>1, <2>1, <4>1, <4>4 DEF CommitOK, PreparingOK, At
      <4>9. WritingOK(q)'
        BY <2>1, <4>1, <4>4, <4>6, <4>7 DEF CommitOK, WritingOK, At, Labels
      <4> QED BY <2>1, <4>1, <4>3, <4>5, <4>8, <4>9 DEF CommitOK, At
    <3> QED BY <3>1, <3>2
  <2> QED BY <1>1, <2>2, <2>3, <2>4, <2>5 DEF IInv
<1> QED BY <1>5, <1>6

-----------------------------------------------------------------------------
(* Every step *)

\* Whatever a step does, the pair is created, published by the holder of the lock
\* or left alone, and what a caller sees anew is the pair.
Shows ==
  \/ view' = view
  \/ \E p \in Procs : \/ view' = [view EXCEPT ![p] = NoView]
                      \/ Pair.config # NoFile /\ view' = [view EXCEPT ![p] = Pair]

PairMoves ==
  \/ Quiet /\ Shows
  \/ Creates /\ view' = view
  \/ \E p \in Procs : Publishes(p) /\ view' = view

LEMMA StepKeeps ==
  ASSUME IInv, Next
  PROVE  IInv' /\ PairMoves
<1>1. PICK p \in Procs :
        \/ BeginInitialize(p) \/ BeginSnapshot(p)
        \/ \E e \in Edits : BeginCommit(p, e[1], e[2])
        \/ Session(p) \/ Fail(p) \/ Crash(p)
  BY DEF Next
<1>2. CASE \/ BeginInitialize(p) \/ BeginSnapshot(p)
           \/ \E e \in Edits : BeginCommit(p, e[1], e[2])
  BY <1>2, BeginsKeep DEF PairMoves, Shows
<1>3. CASE Session(p)
  <2>1. CASE Recover(p)
    BY <2>1, RecoverKeeps DEF PairMoves, Shows
  <2>2. CASE Unlink(p)
    BY <2>2, UnlinkKeeps DEF PairMoves, Shows
  <2>3. CASE Create(p)
    BY <2>3, CreateKeeps DEF PairMoves, Shows
  <2>4. CASE CreateSecrets(p)
    BY <2>4, CreateSecretsKeeps DEF PairMoves, Shows
  <2>5. CASE Serve(p)
    BY <2>5, ServeKeeps DEF PairMoves, Shows
  <2>6. CASE ServeFails(p)
    BY <2>6, ServeFailsKeeps DEF PairMoves, Shows
  <2>7. CASE Check(p)
    BY <2>7, CheckKeeps DEF PairMoves, Shows
  <2>8. CASE Reject(p)
    BY <2>8, RejectKeeps DEF PairMoves, Shows
  <2>9. CASE Prepare(p)
    BY <2>9, PrepareKeeps DEF PairMoves, Shows
  <2>10. CASE Publish(p)
    BY <2>10, PublishKeeps DEF PairMoves
  <2>11. CASE Handle(p)
    BY <2>11, HandleKeeps DEF PairMoves, Shows
  <2>12. ASSUME NEW l \in Labels,
                \/ Restore(p, l) \/ Refuse(p, l) \/ Drop(p, l)
                \/ Copy(p, l) \/ Write(p, l) \/ Mark(p, l)
         PROVE  IInv' /\ PairMoves
    BY <2>12, RestoreKeeps, RefuseKeeps, DropKeeps, CopyKeeps, WriteKeeps, MarkKeeps
       DEF PairMoves, Shows
  <2> QED BY <1>3, <2>1, <2>2, <2>3, <2>4, <2>5, <2>6, <2>7, <2>8, <2>9, <2>10, <2>11, <2>12
          DEF Session
<1>4. CASE Fail(p)
  BY <1>4, FailKeeps DEF PairMoves, Shows
<1>5. CASE Crash(p)
  BY <1>5, CrashKeeps DEF PairMoves, Shows
<1> QED BY <1>1, <1>2, <1>3, <1>4, <1>5

LEMMA StutterKeeps ==
  ASSUME IInv, UNCHANGED vars
  PROVE  IInv' /\ Quiet /\ view' = view
<1>1. UNCHANGED <<file, image, journal, orphans, lock, proc, view, fresh, commits, faults>>
  BY DEF vars
<1>2. TypeOK' /\ OneSession' /\ ImagesBelong'
  BY <1>1 DEF IInv, TypeOK, OneSession, ImagesBelong, At
<1>3. ASSUME NEW q \in Procs PROVE RecoveryOK(q)' /\ CommitOK(q)'
  BY <1>1 DEF IInv, RecoveryOK, CommitOK, PreparingOK, WritingOK, Carried, Journalled, Written,
              Edited, Pair, Settled, MissingImage, Uncommitted, Undone, Changed, Changes, At
<1> QED BY <1>1, <1>2, <1>3, SameDisk DEF IInv

LEMMA InitOK == Init => IInv
<1> SUFFICES ASSUME Init PROVE IInv
  OBVIOUS
<1>1. TypeOK
  BY SessionTypes, BoundsAssumption DEF Init, TypeOK
<1>2. OneSession /\ \A p \in Procs : lock # p
  BY ProcsAssumption DEF Init, OneSession
<1>3. ImagesBelong
  BY DEF Init, ImagesBelong
<1>4. \A p \in Procs : RecoveryOK(p) /\ CommitOK(p)
  BY <1>2 DEF RecoveryOK, CommitOK, PreparingOK, WritingOK, At
<1> QED BY <1>1, <1>2, <1>3, <1>4 DEF IInv

-----------------------------------------------------------------------------
(* Theorems *)

\* The store keeps its types, and whatever session was interrupted or failed
\* leaves files, images and journal that the next recovery can follow.
THEOREM StoreIsSound == Spec => [](TypeOK /\ IInv)
<1>1. IInv /\ [Next]_vars => IInv'
  BY StepKeeps, StutterKeeps
<1>2. IInv => TypeOK
  BY DEF IInv
<1> QED BY <1>1, <1>2, InitOK, PTL DEF Spec

\* The pair a restart would find changes only at a commit point, to exactly the
\* old pair with that commit's edit applied.
THEOREM PublishesItsOwnEditTheorem == Spec => PublishesItsOwnEdit
<1> DEFINE Own == Pair # Pair' /\ Pair.config # NoFile =>
                    \E p \in Procs :
                      /\ lock = p
                      /\ Pair' = [config  |-> IF proc[p].want = Keep THEN Pair.config ELSE proc[p].want,
                                  secrets |-> Applied(proc[p].upd, Pair.secrets)]
<1>1. IInv /\ [Next]_vars => [Own]_vars
  <2> SUFFICES ASSUME IInv, Next PROVE Own
    OBVIOUS
  <2>1. PairMoves
    BY StepKeeps
  <2> QED BY <2>1 DEF PairMoves, Quiet, Creates, Publishes, Edited
<1> QED BY <1>1, StoreIsSound, PTL DEF Spec, PublishesItsOwnEdit

\* The store implements the atomic pair.
THEOREM ImplementsPair == Spec => PairSpec
<1>1. Init => Atomic!Init
  <2> SUFFICES ASSUME Init PROVE Atomic!Init
    OBVIOUS
  <2>1. Pair = [config |-> NoFile, secrets |-> Empty]
    BY DEF Init, Pair, Settled, SecretsIn, NoFiles
  <2> QED BY <2>1 DEF Init, Atomic!Init
<1>2. IInv /\ [Next]_vars => [Atomic!Next]_<<Pair, view>>
  <2> SUFFICES ASSUME IInv, [Next]_vars PROVE [Atomic!Next]_<<Pair, view>>
    OBVIOUS
  <2>1. CASE UNCHANGED vars
    BY <2>1, StutterKeeps DEF Quiet
  <2>2. CASE Next
    <3>1. PairMoves
      BY <2>2, StepKeeps
    <3>2. CASE Quiet /\ Shows
      BY <3>2 DEF Quiet, Shows, Atomic!Next, Atomic!See, Atomic!Forget
    <3>3. CASE Creates /\ view' = view
      BY <3>3 DEF Creates, Atomic!Next, Atomic!Create
    <3>4. CASE \E p \in Procs : Publishes(p) /\ view' = view
      BY <3>4 DEF Publishes, Atomic!Next, Atomic!Publish
    <3> QED BY <3>1, <3>2, <3>3, <3>4 DEF PairMoves
  <2> QED BY <2>1, <2>2
<1> QED BY <1>1, <1>2, StoreIsSound, PTL DEF Spec, PairSpec, Atomic!Spec

=============================================================================
