------------------------- MODULE ComponentInstaller -------------------------
(***************************************************************************)
(* TransactionalComponentInstaller.cs: the launcher replaces the files of  *)
(* a component (Route Guard, EasyTier) as one local transaction, with a    *)
(* backup beside each target, and recovers what an interrupted attempt     *)
(* left behind when it is called again.                                    *)
(*                                                                         *)
(* One action is one change of the file system, so that the process can    *)
(* die between any two of them. A file holds the version it was installed  *)
(* from, or is Missing. The temporary copies (.component-new) are not part *)
(* of the state: a call deletes or overwrites them before it reads them,   *)
(* and only uses those it has verified itself.                             *)
(***************************************************************************)
EXTENDS Integers

CONSTANTS
    N,           \* number of files of the component
    Versions,    \* versions that may be installed
    First,       \* the version that is installed to begin with, or Missing
    Faults       \* what can go wrong: "crash", "io", "delete"

Missing == -1

ASSUME FilesAssumption == N \in Nat \ {0}
ASSUME VersionsAssumption == Versions \subseteq Nat /\ First \in Versions \cup {Missing}

Files == 1..N

VARIABLES
    target,  \* the installed file
    backup,  \* its .component-backup
    call     \* the call of Install, and how the last one ended

vars == <<target, backup, call>>

\* phase   what the call does next, or how the last call ended
\* want    the version it installs (ExpectedSha256)
\* at      the file it is at
\* prepared, existed    the list `prepared`, and the TargetExisted ones in it
Ended == {"none", "installed", "failed", "crashed"}

Forward == {"recover", "restore", "copy", "set aside", "put"}

Init ==
    /\ target = [f \in Files |-> First]
    /\ backup = [f \in Files |-> Missing]
    /\ call = [phase |-> "none", want |-> First, at |-> 1, prepared |-> {}, existed |-> {}]

Exists(file, f) == file[f] # Missing

\* TryDelete: a deletion that fails is ignored.
TryDelete(file, f) ==
    {[file EXCEPT ![f] = Missing]} \cup (IF "delete" \in Faults THEN {file} ELSE {})

-----------------------------------------------------------------------------

\* Install is called with the files of one version.
Start(w) ==
    /\ call.phase \in Ended
    /\ call' = [phase |-> "recover", want |-> w, at |-> 1, prepared |-> {}, existed |-> {}]
    /\ UNCHANGED <<target, backup>>

\* The first statements of RecoverTarget: keep a target that is the one wanted,
\* or remove it for its backup to take its place; so is one that cannot be read.
RecoverTarget ==
    /\ call.phase = "recover"
    /\ \/ /\ ~Exists(backup, call.at)
          /\ call' = [call EXCEPT !.phase = "copy"]
          /\ UNCHANGED <<target, backup>>
       \/ /\ Exists(backup, call.at) /\ target[call.at] = call.want
          /\ backup' \in TryDelete(backup, call.at)
          /\ call' = [call EXCEPT !.phase = "copy"]
          /\ UNCHANGED target
       \/ /\ Exists(backup, call.at)
          /\ target[call.at] # call.want \/ "io" \in Faults
          /\ target' \in TryDelete(target, call.at)
          /\ call' = [call EXCEPT !.phase = "restore"]
          /\ UNCHANGED backup

MoveBackup(f) ==
    /\ target' = [target EXCEPT ![f] = backup[f]]
    /\ backup' = [backup EXCEPT ![f] = Missing]

RestoreBackup ==
    /\ call.phase = "restore"
    /\ MoveBackup(call.at)
    /\ call' = [call EXCEPT !.phase = "copy"]

\* The file after f in the list prepared, or N + 1.
NextPrepared(prepared, f) ==
    CHOOSE g \in (f + 1)..(N + 1) :
        /\ g \in prepared \cup {N + 1}
        /\ \A h \in (f + 1)..(g - 1) : h \notin prepared

\* The loop goes on with the file after f, and then with the next loop.
GoOn(state, f, phase, next) ==
    LET g == NextPrepared(state.prepared, f)
    IN  IF g <= N THEN [state EXCEPT !.phase = phase, !.at = g]
        ELSE [state EXCEPT !.phase = next, !.at = NextPrepared(state.prepared, 0)]

\* Whether the target is left out of the transaction. Mutant: any target is.
IsWanted_AnyTarget(f) == Exists(target, f)

IsWanted(f) == target[f] = call.want

CopySource ==
    /\ call.phase = "copy"
    /\ LET f    == call.at
           done == IF IsWanted(f) THEN call
                   ELSE [call EXCEPT !.prepared = @ \cup {f},
                                     !.existed = @ \cup {g \in {f} : Exists(target, g)}]
       IN  call' = IF f < N THEN [done EXCEPT !.phase = "recover", !.at = f + 1]
                   ELSE IF done.prepared = {} THEN [done EXCEPT !.phase = "installed"]
                   ELSE GoOn(done, 0, "set aside", "set aside")
    /\ UNCHANGED <<target, backup>>

\* The backups of prepared files are gone here: their deletion before the move
\* changes nothing.
SetAside ==
    /\ call.phase = "set aside"
    /\ LET f == call.at
       IN  IF f \in call.existed
           THEN /\ backup' = [backup EXCEPT ![f] = target[f]]
                /\ target' = [target EXCEPT ![f] = Missing]
           ELSE /\ backup' \in TryDelete(backup, f)
                /\ UNCHANGED target
    /\ call' = [call EXCEPT !.phase = "put"]

\* Mutant: the backup is removed as soon as its file is in place.
Put_DropsBackup ==
    /\ call.phase = "put"
    /\ target' = [target EXCEPT ![call.at] = call.want]
    /\ backup' \in TryDelete(backup, call.at)
    /\ call' = GoOn(call, call.at, "set aside", "sweep")

Put ==
    /\ call.phase = "put"
    /\ target' = [target EXCEPT ![call.at] = call.want]
    /\ call' = GoOn(call, call.at, "set aside", "sweep")
    /\ UNCHANGED backup

SweepBackup ==
    /\ call.phase = "sweep"
    /\ backup' \in TryDelete(backup, call.at)
    /\ call' = GoOn(call, call.at, "sweep", "installed")
    /\ UNCHANGED target

-----------------------------------------------------------------------------
\* The catch block.

\* The file before f in the list prepared, or 0.
PreviousPrepared(prepared, f) ==
    CHOOSE g \in 0..(f - 1) :
        /\ g \in prepared \cup {0}
        /\ \A h \in (g + 1)..(f - 1) : h \notin prepared

GoBack(state, f) ==
    LET g == PreviousPrepared(state.prepared, f)
    IN  IF g > 0 THEN [state EXCEPT !.phase = "undo", !.at = g]
        ELSE [state EXCEPT !.phase = "failed"]

\* An operation throws: a file is locked, the disk is full, a source or a copy
\* does not have its hash. The last hash is checked after the last file is put.
Throw ==
    /\ "io" \in Faults
    /\ \/ call.phase \in Forward
       \/ call.phase = "sweep" /\ call.at = NextPrepared(call.prepared, 0)
    /\ call' = GoBack(call, N + 1)
    /\ UNCHANGED <<target, backup>>

\* The files that were not there before. Mutant: TargetExisted is not looked at.
Added_Any == call.prepared

Added == call.prepared \ call.existed

\* The file is removed for its backup to take its place, or because it was not
\* there before.
Undo ==
    /\ call.phase = "undo"
    /\ LET f == call.at
       IN  IF Exists(backup, f)
           THEN /\ target' \in TryDelete(target, f)
                /\ call' = [call EXCEPT !.phase = "undo move"]
           ELSE /\ IF f \in Added THEN target' \in TryDelete(target, f)
                                 ELSE UNCHANGED target
                /\ call' = GoBack(call, f)
    /\ UNCHANGED backup

\* A move that fails is ignored: the backup is left for RecoverTarget.
UndoMove ==
    /\ call.phase = "undo move"
    /\ \/ MoveBackup(call.at)
       \/ "io" \in Faults /\ UNCHANGED <<target, backup>>
    /\ call' = GoBack(call, call.at)

-----------------------------------------------------------------------------

\* The launcher dies; it calls Install again when it is next started.
Crash ==
    /\ "crash" \in Faults
    /\ call.phase \notin Ended
    /\ call' = [call EXCEPT !.phase = "crashed"]
    /\ UNCHANGED <<target, backup>>

Next ==
    \/ \E w \in Versions : Start(w)
    \/ RecoverTarget \/ RestoreBackup \/ CopySource
    \/ SetAside \/ Put \/ SweepBackup
    \/ Throw \/ Undo \/ UndoMove
    \/ Crash

Spec == Init /\ [][Next]_vars

-----------------------------------------------------------------------------
\* Properties.

CallType ==
    [phase : Ended \cup Forward \cup {"sweep", "undo", "undo move"},
     want : Versions \cup {Missing}, at : Files,
     prepared : SUBSET Files, existed : SUBSET Files]

TypeOK ==
    /\ target \in [Files -> Versions \cup {Missing}]
    /\ backup \in [Files -> Versions \cup {Missing}]
    /\ call \in CallType
    /\ call.existed \subseteq call.prepared

\* Whatever fails and wherever the launcher dies, no file of an installed
\* component is lost: it is in its place or in its backup (RecoverTarget brings
\* it back).
NothingLost ==
    First # Missing => \A f \in Files : Exists(target, f) \/ Exists(backup, f)

\* A call that returns has installed every file, whatever the attempts before
\* it left behind.
InstalledIsComplete ==
    call.phase = "installed" => \A f \in Files : target[f] = call.want

\* What the next call takes the file to be: a backup is what RecoverTarget puts
\* back.
Content(f) == IF Exists(backup, f) THEN backup[f] ELSE target[f]

\* The files are of one version when a call has ended.
\* "Replaces every file in a component as one local transaction": every call
\* that fails takes back the files it replaced. A call after a crash drops the
\* backup of a file that is already the one wanted and cannot take it back.
OneVersion ==
    call.phase \in {"installed", "failed"} =>
        \A f, g \in Files : Content(f) = Content(g)
=============================================================================
