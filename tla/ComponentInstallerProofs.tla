---------------------- MODULE ComponentInstallerProofs ----------------------
(***************************************************************************)
(* What TLAPS proves of ComponentInstaller for every number of files, every *)
(* set of versions and every order of calls and faults: no file is lost,   *)
(* whatever fails, and the files are of one version after every call while *)
(* the launcher is not killed and every deletion succeeds.                 *)
(***************************************************************************)
EXTENDS ComponentInstaller, WellFoundedInduction, TLAPS

\* The loops over the files that have still to be prepared, and the loops over
\* the prepared ones.
Preparing  == {"recover", "restore", "copy"}
Committing == {"set aside", "put", "sweep"}
Undoing    == {"undo", "undo move"}

\* A loop over the prepared files is at one of them; those still to come in the
\* first loop are not prepared.
LoopInv ==
    /\ call.phase \in Committing \cup Undoing => call.at \in call.prepared
    /\ call.phase \in Preparing => \A f \in call.prepared : f < call.at

TypeInv == TypeOK /\ LoopInv

\* Where each file of an installed component is: a prepared file is in its
\* place but between the two moves of Install.
PlaceInv ==
    /\ \A f \in Files : Exists(target, f) \/ Exists(backup, f)
    /\ call.existed = call.prepared
    /\ call.phase \notin Ended => call.want # Missing
    /\ call.phase \in {"restore", "put", "undo move"} => Exists(backup, call.at)
    /\ call.phase = "copy" => Exists(target, call.at)
    /\ call.phase \in Preparing \cup {"set aside", "sweep"} =>
           \A f \in call.prepared : Exists(target, f)
    /\ call.phase = "put" => \A f \in call.prepared \ {call.at} : Exists(target, f)

\* f still holds v for the next call: in its place, or in its backup alone.
Holds(f, v) ==
    \/ backup[f] = Missing /\ target[f] = v
    \/ backup[f] = v /\ v # Missing /\ target[f] = Missing

\* f has been replaced, and holds v in its backup if there was a v.
Replaced(f, v) == target[f] = call.want /\ backup[f] = v

\* What the catch block finds of a prepared file it has not come to yet: the
\* backup with v, the untouched v, or an addition to a component without one.
Undoable(f, v) ==
    \/ backup[f] = v /\ v # Missing
    \/ backup[f] = Missing /\ (target[f] = v \/ v = Missing)

\* The files held v when the call began. A call that has not ended is not
\* killed, and knows which of its files were there.
CallInv(v) ==
    /\ call.phase # "crashed"
    /\ call.phase \notin Ended =>
           /\ call.want # Missing
           /\ call.existed = IF v = Missing THEN {} ELSE call.prepared

\* Between two calls and in the first loop the files hold v.
HeldInv(v) ==
    call.phase \in Ended \cup Preparing => \A f \in Files : Holds(f, v)

\* No file is left out of the transaction unless all are.
PreparingInv(v) ==
    /\ call.phase \in Preparing =>
           /\ \A f \in call.prepared : backup[f] = Missing /\ v # call.want
           /\ \A f \in Files \ call.prepared : f < call.at => v = call.want
    /\ call.phase = "copy" => backup[call.at] = Missing
    /\ call.phase = "restore" => backup[call.at] = v /\ v # Missing

\* The files before the current one are replaced, those after it are as before.
CommittingInv(v) ==
    /\ call.phase \in Committing => call.prepared = Files
    /\ call.phase \in {"set aside", "put"} =>
           /\ \A f \in Files : f < call.at => Replaced(f, v)
           /\ \A f \in Files : f > call.at => backup[f] = Missing /\ target[f] = v
    /\ call.phase = "set aside" => backup[call.at] = Missing /\ target[call.at] = v
    /\ call.phase = "put" => backup[call.at] = v /\ target[call.at] = Missing

SweepingInv(v) ==
    call.phase = "sweep" =>
        \A f \in Files : /\ target[f] = call.want
                         /\ backup[f] = IF f < call.at THEN Missing ELSE v

UndoingInv(v) ==
    /\ call.phase \in Undoing =>
           \A f \in Files : IF f \in call.prepared /\ f <= call.at THEN Undoable(f, v)
                                                                  ELSE Holds(f, v)
    /\ call.phase = "undo move" =>
           backup[call.at] = v /\ v # Missing /\ target[call.at] = Missing

VersionOf(v) ==
    /\ CallInv(v) /\ HeldInv(v) /\ PreparingInv(v)
    /\ CommittingInv(v) /\ SweepingInv(v) /\ UndoingInv(v)

VersionInv == TypeInv /\ \E v \in Versions \cup {Missing} : VersionOf(v)

-----------------------------------------------------------------------------
\* The loops over the prepared files.

\* A set of naturals that has a member has a smallest one.
LEMMA SmallestExists ==
    ASSUME NEW T, T \subseteq Nat, T # {}
    PROVE  \E x \in T : \A y \in T : x <= y
<1>1. PICK x \in T : \A y \in T : ~(<<y, x>> \in OpToRel(<, Nat))
  BY NatLessThanWellFounded, WFMin
<1>2. ASSUME NEW y \in T PROVE x <= y
  <2>1. x \in Nat /\ y \in Nat
    OBVIOUS
  <2>2. <<y, x>> \in Nat \X Nat
    BY <2>1
  <2>3. ~(y < x)
    <3>1. SUFFICES ASSUME y < x PROVE FALSE
      OBVIOUS
    <3>2. <<y, x>> \in OpToRel(<, Nat)
      BY <2>2, <3>1 DEF OpToRel
    <3> QED  BY <1>1, <3>2
  <2> QED  BY <2>1, <2>3
<1> QED
  BY <1>2

LEMMA NextPreparedFact ==
    ASSUME NEW P \in SUBSET Files, NEW f \in 0..N
    PROVE  /\ NextPrepared(P, f) \in (f + 1)..(N + 1)
           /\ NextPrepared(P, f) \in P \cup {N + 1}
           /\ \A h \in (f + 1)..(NextPrepared(P, f) - 1) : h \notin P
<1> DEFINE T == {g \in (f + 1)..(N + 1) : g \in P \cup {N + 1}}
<1>1. T \subseteq Nat /\ T # {}
  <2>1. N + 1 \in T
    BY FilesAssumption
  <2> QED  BY <2>1, FilesAssumption
<1>2. PICK g \in T : \A h \in T : g <= h
  <2> HIDE DEF T
  <2> QED  BY <1>1, SmallestExists
<1>4. \A h \in (f + 1)..(g - 1) : h \notin P
  BY <1>2, FilesAssumption DEF Files
<1> QED
  BY <1>4 DEF NextPrepared

LEMMA PreviousPreparedFact ==
    ASSUME NEW P \in SUBSET Files, NEW f \in 1..(N + 1)
    PROVE  /\ PreviousPrepared(P, f) \in 0..(f - 1)
           /\ PreviousPrepared(P, f) \in P \cup {0}
           /\ \A h \in (PreviousPrepared(P, f) + 1)..(f - 1) : h \notin P
<1> DEFINE T == {k \in 0..(f - 1) : f - 1 - k \in P \cup {0}}
<1>1. T \subseteq Nat /\ T # {}
  <2>1. f - 1 \in T
    BY FilesAssumption
  <2>2. T \subseteq Nat
    OBVIOUS
  <2> HIDE DEF T
  <2> QED  BY <2>1, <2>2
<1>2. PICK k \in T : \A h \in T : k <= h
  <2> HIDE DEF T
  <2> QED  BY <1>1, SmallestExists
<1> DEFINE g == f - 1 - k
<1>4. g \in 0..(f - 1) /\ g \in P \cup {0}
  BY <1>2, FilesAssumption
<1>5. \A h \in (g + 1)..(f - 1) : h \notin P
  <2> SUFFICES ASSUME NEW h \in (g + 1)..(f - 1), h \in P PROVE FALSE
    OBVIOUS
  <2>1. f - 1 - h \in T
    BY FilesAssumption, <1>4
  <2> QED  BY <2>1, <1>2, <1>4, FilesAssumption
<1> QED
  BY <1>4, <1>5 DEF PreviousPrepared

\* What GoOn and GoBack promise of the state after of the call.
SameCall(after, state) ==
    /\ after \in CallType
    /\ after.want = state.want
    /\ after.prepared = state.prepared
    /\ after.existed = state.existed

GoesOn(after, state, f, phase, next) ==
    /\ SameCall(after, state)
    /\ after.at \in after.prepared
    /\ \/ /\ after.phase = phase
          /\ after.at > f
          /\ \A h \in after.prepared : h > f => h >= after.at
       \/ /\ after.phase = next
          /\ \A h \in after.prepared : h <= f
          /\ \A h \in after.prepared : h >= after.at

GoesBack(after, state, f) ==
    /\ SameCall(after, state)
    /\ \/ /\ after.phase = "undo"
          /\ after.at \in after.prepared
          /\ after.at < f
          /\ \A h \in after.prepared : h < f => h <= after.at
       \/ /\ after.phase = "failed"
          /\ \A h \in after.prepared : h >= f

\* GoOn goes to the next prepared file, or to the first one of the next loop.
LEMMA GoOnFact ==
    ASSUME NEW state \in CallType, state.prepared # {}, NEW f \in 0..N,
           NEW phase \in Committing, NEW next \in Committing \cup {"installed"}
    PROVE  GoesOn(GoOn(state, f, phase, next), state, f, phase, next)
<1> DEFINE P == state.prepared
           g == NextPrepared(P, f)
           first == NextPrepared(P, 0)
<1>1. P \in SUBSET Files /\ P # {}
  BY DEF CallType
<1>2. /\ g \in (f + 1)..(N + 1) /\ g \in P \cup {N + 1}
      /\ \A h \in (f + 1)..(g - 1) : h \notin P
  BY <1>1, NextPreparedFact
<1>3. /\ first \in (0 + 1)..(N + 1) /\ first \in P \cup {N + 1}
      /\ \A h \in (0 + 1)..(first - 1) : h \notin P
  <2>1. 0 \in 0..N
    BY FilesAssumption
  <2> QED  BY <1>1, <2>1, NextPreparedFact
<1> HIDE DEF g, first
<1>4. first \in P /\ \A h \in P : h >= first
  BY <1>1, <1>3, FilesAssumption DEF Files
<1>5. CASE g <= N
  <2>1. g \in P /\ g > f /\ \A h \in P : h > f => h >= g
    BY <1>1, <1>2, <1>5, FilesAssumption DEF Files
  <2>2. GoOn(state, f, phase, next) = [state EXCEPT !.phase = phase, !.at = g]
    BY <1>5 DEF GoOn, g
  <2> QED  BY <1>1, <2>1, <2>2 DEF GoesOn, SameCall, CallType, Committing, Ended, Forward
<1>6. CASE ~(g <= N)
  <2>1. \A h \in P : h <= f
    BY <1>1, <1>2, <1>6, FilesAssumption DEF Files
  <2>2. GoOn(state, f, phase, next) = [state EXCEPT !.phase = next, !.at = first]
    BY <1>6 DEF GoOn, g, first
  <2> QED  BY <1>1, <1>4, <2>1, <2>2 DEF GoesOn, SameCall, CallType, Committing, Ended, Forward
<1> QED
  BY <1>5, <1>6

\* GoBack goes to the prepared file before, or ends the call.
LEMMA GoBackFact ==
    ASSUME NEW state \in CallType, NEW f \in 1..(N + 1)
    PROVE  GoesBack(GoBack(state, f), state, f)
<1> DEFINE P == state.prepared
           g == PreviousPrepared(P, f)
<1>1. P \in SUBSET Files
  BY DEF CallType
<1>2. /\ g \in 0..(f - 1) /\ g \in P \cup {0}
      /\ \A h \in (g + 1)..(f - 1) : h \notin P
  BY <1>1, PreviousPreparedFact
<1> HIDE DEF g
<1>3. CASE g > 0
  <2>1. g \in P /\ g < f /\ \A h \in P : h < f => h <= g
    BY <1>1, <1>2, <1>3, FilesAssumption DEF Files
  <2>2. GoBack(state, f) = [state EXCEPT !.phase = "undo", !.at = g]
    BY <1>3 DEF GoBack, g
  <2> QED  BY <1>1, <2>1, <2>2 DEF GoesBack, SameCall, CallType, Ended, Forward
<1>4. CASE ~(g > 0)
  <2>1. \A h \in P : h >= f
    BY <1>1, <1>2, <1>4, FilesAssumption DEF Files
  <2>2. GoBack(state, f) = [state EXCEPT !.phase = "failed"]
    BY <1>4 DEF GoBack, g
  <2> QED  BY <1>1, <2>1, <2>2 DEF GoesBack, SameCall, CallType, Ended, Forward
<1> QED
  BY <1>3, <1>4

\* What a call that goes on with its next file keeps.
TypeStep ==
    /\ target' \in [Files -> Versions \cup {Missing}]
    /\ backup' \in [Files -> Versions \cup {Missing}]

\* A deletion leaves a file Missing or as it was.
LEMMA TryDeleteFact ==
    ASSUME NEW file \in [Files -> Versions \cup {Missing}], NEW f \in Files,
           NEW after \in TryDelete(file, f)
    PROVE  /\ after \in [Files -> Versions \cup {Missing}]
           /\ \A g \in Files : g # f => after[g] = file[g]
           /\ after[f] \in {file[f], Missing}
           /\ "delete" \notin Faults => after[f] = Missing
  BY DEF TryDelete

LEMMA FilesFact ==
    /\ \A f \in Files : f \in 0..N /\ f \in 1..(N + 1)
    /\ \A f \in Files : f \in Int /\ f > 0 /\ (f < N \/ f = N)
    /\ \A f \in Files : f < N => f + 1 \in Files
    /\ 0 \in 0..N /\ N + 1 \in 1..(N + 1)
    /\ 1 \in Files
  BY FilesAssumption DEF Files

LEMMA OrderFact ==
    /\ \A f, g \in Files :
           /\ f < g \/ f = g \/ g < f
           /\ f < g => f # g /\ ~(g < f)
           /\ f <= g <=> f < g \/ f = g
           /\ f >= g <=> g < f \/ f = g
           /\ f > g <=> g < f
    /\ \A f, g, h \in Files : f < g /\ g < h => f < h
<1>1. \A f, g, h \in Int :
          /\ f < g \/ f = g \/ g < f
          /\ f < g => f # g /\ ~(g < f)
          /\ f <= g <=> f < g \/ f = g
          /\ f >= g <=> g < f \/ f = g
          /\ f > g <=> g < f
          /\ f < g /\ g < h => f < h
  OBVIOUS
<1> QED
  BY <1>1, FilesFact

\* CopySource adds its file to the list unless it is the one wanted, and goes on
\* with the next one, with the first of the list, or ends with nothing to do.
LEMMA CopyFact ==
    ASSUME TypeInv, CopySource
    PROVE  /\ TypeInv'
           /\ UNCHANGED <<target, backup>>
           /\ call'.want = call.want
           /\ \/ /\ IsWanted(call.at)
                 /\ call'.prepared = call.prepared
                 /\ call'.existed = call.existed
              \/ /\ ~IsWanted(call.at)
                 /\ call'.prepared = call.prepared \cup {call.at}
                 /\ call'.existed = call.existed \cup {g \in {call.at} : Exists(target, g)}
           /\ \/ call'.phase = "recover" /\ call'.at = call.at + 1
              \/ call'.phase = "installed" /\ call.at = N /\ call'.prepared = {}
              \/ /\ call'.phase = "set aside" /\ call.at = N
                 /\ \A h \in call'.prepared : h >= call'.at
<1> USE DEF TypeInv, TypeOK, LoopInv
<1> DEFINE f    == call.at
           more == {g \in {f} : Exists(target, g)}
           done == IF IsWanted(f) THEN call
                   ELSE [call EXCEPT !.prepared = @ \cup {f}, !.existed = @ \cup more]
<1>1. /\ call.phase = "copy" /\ call.prepared \subseteq Files /\ call.existed \subseteq Files
      /\ f \in Files /\ call \in CallType
      /\ UNCHANGED <<target, backup>>
      /\ call' = IF f < N THEN [done EXCEPT !.phase = "recover", !.at = f + 1]
                 ELSE IF done.prepared = {} THEN [done EXCEPT !.phase = "installed"]
                 ELSE GoOn(done, 0, "set aside", "set aside")
  BY DEF CopySource, CallType
<1>2. \A h \in call.prepared : h < f
  BY <1>1 DEF Preparing
<1>3. more \subseteq {f}
  OBVIOUS
<1> HIDE DEF more
<1>4. /\ done \in CallType
      /\ done.at = f
      /\ done.want = call.want
      /\ \/ /\ IsWanted(f)
            /\ done.prepared = call.prepared
            /\ done.existed = call.existed
         \/ /\ ~IsWanted(f)
            /\ done.prepared = call.prepared \cup {f}
            /\ done.existed = call.existed \cup more
  <2>1. CASE IsWanted(f)
    BY <1>1, <2>1
  <2>2. CASE ~IsWanted(f)
    <3>1. done = [call EXCEPT !.prepared = @ \cup {f}, !.existed = @ \cup more]
      BY <2>2
    <3> HIDE DEF done
    <3> QED
      BY <1>1, <1>3, <2>2, <3>1 DEF CallType
  <2> HIDE DEF done
  <2> QED
    BY <2>1, <2>2
<1> HIDE DEF done
<1>5. done.existed \subseteq done.prepared
  BY <1>3, <1>4
<1>6. \A h \in done.prepared : h < f + 1
  <2> SUFFICES ASSUME NEW h \in done.prepared PROVE h < f + 1
    OBVIOUS
  <2>1. h = f \/ h \in call.prepared
    BY <1>4
  <2>2. h \in Int /\ f \in Int
    BY <1>1, FilesFact, <2>1
  <2>3. h = f \/ h < f
    BY <1>2, <2>1
  <2> HIDE DEF f
  <2> QED
    BY <2>2, <2>3
<1>7. CASE f < N
  <2>1. f + 1 \in Files
    BY <1>1, <1>7, FilesFact
  <2>2. /\ call' \in CallType
        /\ call'.phase = "recover" /\ call'.at = f + 1 /\ call'.want = done.want
        /\ call'.prepared = done.prepared /\ call'.existed = done.existed
    BY <1>1, <1>4, <1>7, <2>1 DEF CallType, Forward
  <2>3. TypeInv'
    BY <1>1, <1>5, <1>6, <2>2 DEF Preparing, Committing, Undoing
  <2> QED
    BY <1>1, <1>4, <2>2, <2>3 DEF more
<1>8. CASE ~(f < N) /\ done.prepared = {}
  <2>1. f = N
    BY <1>1, <1>8, FilesFact
  <2>2. /\ call' \in CallType
        /\ call'.phase = "installed" /\ call'.want = done.want
        /\ call'.prepared = done.prepared /\ call'.existed = done.existed
    BY <1>1, <1>4, <1>8 DEF CallType, Ended
  <2>3. TypeInv'
    BY <1>1, <1>5, <2>2 DEF Preparing, Committing, Undoing
  <2> QED
    BY <1>1, <1>4, <1>8, <2>1, <2>2, <2>3 DEF more
<1>9. CASE ~(f < N) /\ done.prepared # {}
  <2>1. f = N
    BY <1>1, <1>9, FilesFact
  <2>2. GoesOn(call', done, 0, "set aside", "set aside")
    BY <1>1, <1>4, <1>9, FilesFact, GoOnFact DEF Committing
  <2>3. /\ call' \in CallType
        /\ call'.phase = "set aside" /\ call'.want = done.want
        /\ call'.prepared = done.prepared /\ call'.existed = done.existed
        /\ call'.at \in call'.prepared
    BY <2>2 DEF GoesOn, SameCall
  <2>4. \A h \in call'.prepared : h >= call'.at
    <3>1. \A h \in call'.prepared : h \in Int /\ h > 0
      <4>1. call'.prepared \subseteq Files
        BY <2>3 DEF CallType
      <4> QED  BY <4>1, FilesFact
    <3> QED
      BY <2>2, <3>1 DEF GoesOn
  <2>5. TypeInv'
    BY <1>1, <1>5, <2>3 DEF Preparing
  <2> QED
    BY <1>1, <1>4, <2>1, <2>3, <2>4, <2>5 DEF more
<1> QED
  BY <1>7, <1>8, <1>9

LEMMA TypeInit == Init => TypeInv
  BY FilesAssumption, VersionsAssumption
  DEF Init, TypeInv, TypeOK, LoopInv, CallType, Files, Ended, Preparing, Committing, Undoing

LEMMA TypeNext == TypeInv /\ [Next]_vars => TypeInv'
<1> SUFFICES ASSUME TypeInv, [Next]_vars PROVE TypeInv'
  OBVIOUS
<1> USE DEF TypeInv, TypeOK, LoopInv
<1>0. call.at \in Files /\ call \in CallType
  BY DEF CallType
<1>1. ASSUME NEW w \in Versions, Start(w) PROVE TypeInv'
  BY <1>1, FilesFact
  DEF Start, CallType, Files, Ended, Forward, Preparing, Committing, Undoing
<1>2. CASE RecoverTarget
  <2>1. TypeStep
    BY <1>2, TryDeleteFact DEF RecoverTarget, TypeStep, CallType
  <2> QED
    BY <1>2, <2>1 DEF RecoverTarget, TypeStep, CallType, Forward, Preparing, Committing, Undoing
<1>3. CASE RestoreBackup
  <2>1. TypeStep
    BY <1>3 DEF RestoreBackup, MoveBackup, TypeStep, CallType
  <2> QED
    BY <1>3, <2>1 DEF RestoreBackup, TypeStep, CallType, Forward, Preparing, Committing, Undoing
<1>4. CASE CopySource
  BY <1>4, CopyFact
<1>5. CASE SetAside
  <2>1. TypeStep
    <3>1. CASE call.at \in call.existed
      BY <1>0, <1>5, <3>1 DEF SetAside, TypeStep
    <3>2. CASE call.at \notin call.existed
      BY <1>0, <1>5, <3>2, TryDeleteFact DEF SetAside, TypeStep
    <3> QED  BY <3>1, <3>2
  <2> QED
    BY <1>5, <2>1 DEF SetAside, TypeStep, CallType, Forward, Preparing, Committing, Undoing
<1>6. CASE Put
  <2>1. TypeStep
    BY <1>6 DEF Put, TypeStep, CallType
  <2>2. call.at \in call.prepared /\ call.at \in 0..N
    BY <1>0, <1>6, FilesFact DEF Put, Committing
  <2>3. GoesOn(call', call, call.at, "set aside", "sweep")
    BY <1>0, <1>6, <2>2, GoOnFact DEF Put, Committing
  <2> QED
    BY <2>1, <2>3 DEF GoesOn, SameCall, TypeStep, Preparing
<1>7. CASE SweepBackup
  <2>1. TypeStep
    BY <1>7, TryDeleteFact DEF SweepBackup, TypeStep, CallType
  <2>2. call.at \in call.prepared /\ call.at \in 0..N
    BY <1>0, <1>7, FilesFact DEF SweepBackup, Committing
  <2>3. GoesOn(call', call, call.at, "sweep", "installed")
    BY <1>0, <1>7, <2>2, GoOnFact DEF SweepBackup, Committing
  <2> QED
    BY <2>1, <2>3 DEF GoesOn, SameCall, TypeStep, Preparing, Committing, Undoing
<1>8. CASE Throw
  <2>1. GoesBack(call', call, N + 1)
    BY <1>0, <1>8, FilesFact, GoBackFact DEF Throw
  <2> QED
    BY <1>8, <2>1 DEF GoesBack, SameCall, Throw, Preparing, Committing, Undoing
<1>9. CASE Undo
  <2>1. TypeStep
    BY <1>0, <1>9, TryDeleteFact DEF Undo, TypeStep
  <2>2. CASE Exists(backup, call.at)
    BY <1>9, <2>1, <2>2 DEF Undo, TypeStep, CallType, Preparing, Committing, Undoing
  <2>3. CASE ~Exists(backup, call.at)
    <3>1. GoesBack(call', call, call.at)
      BY <1>0, <1>9, <2>3, FilesFact, GoBackFact DEF Undo
    <3> QED
      BY <2>1, <3>1 DEF GoesBack, SameCall, TypeStep, Preparing, Committing, Undoing
  <2> QED  BY <2>2, <2>3
<1>10. CASE UndoMove
  <2>1. TypeStep
    BY <1>0, <1>10 DEF UndoMove, MoveBackup, TypeStep
  <2>2. GoesBack(call', call, call.at)
    BY <1>0, <1>10, FilesFact, GoBackFact DEF UndoMove
  <2> QED
    BY <2>1, <2>2 DEF GoesBack, SameCall, TypeStep, Preparing, Committing, Undoing
<1>11. CASE Crash
  BY <1>11 DEF Crash, CallType, Ended, Preparing, Committing, Undoing
<1>12. CASE UNCHANGED vars
  BY <1>12 DEF vars
<1> QED
  BY <1>1, <1>2, <1>3, <1>4, <1>5, <1>6, <1>7, <1>8, <1>9, <1>10, <1>11, <1>12 DEF Next

\* Type correctness of the files and of the call.
THEOREM TypeCorrect == Spec => []TypeOK
<1>1. Spec => []TypeInv
  BY TypeInit, TypeNext, PTL DEF Spec
<1>2. TypeInv => TypeOK
  BY DEF TypeInv
<1> QED
  BY <1>1, <1>2, PTL

-----------------------------------------------------------------------------
\* Nothing is lost.

LEMMA PlaceInit == First # Missing /\ Init => PlaceInv
  BY FilesFact DEF Init, PlaceInv, Exists, Ended, Preparing

LEMMA PlaceNext == TypeInv /\ PlaceInv /\ [Next]_vars => PlaceInv'
<1> SUFFICES ASSUME TypeInv, PlaceInv, [Next]_vars PROVE PlaceInv'
  OBVIOUS
<1>0. /\ call.at \in Files /\ call \in CallType
      /\ target \in [Files -> Versions \cup {Missing}]
      /\ backup \in [Files -> Versions \cup {Missing}]
      /\ call.prepared \subseteq Files
  BY DEF TypeInv, TypeOK, CallType
<1>1. ASSUME NEW w \in Versions, Start(w) PROVE PlaceInv'
  <2>1. w # Missing
    BY VersionsAssumption DEF Missing
  <2> QED
    BY <1>1, <2>1 DEF Start, PlaceInv, Exists, Ended, Preparing
<1>2. CASE RecoverTarget
  <2>1. call.at \notin call.prepared
    BY <1>0, <1>2, FilesFact DEF RecoverTarget, TypeInv, LoopInv, Preparing
  <2>2. CASE ~Exists(backup, call.at)
    <3>1. /\ UNCHANGED <<target, backup>> /\ call.phase = "recover"
          /\ call' = [call EXCEPT !.phase = "copy"]
      BY <1>2, <2>2 DEF RecoverTarget
    <3>2. Exists(target, call.at)
      BY <1>0, <2>2 DEF PlaceInv
    <3> QED
      BY <1>0, <3>1, <3>2 DEF PlaceInv, Exists, Ended, Preparing, CallType
  <2>3. CASE Exists(backup, call.at) /\ call'.phase = "copy"
    <3>1. /\ target[call.at] = call.want /\ call.want # Missing
          /\ backup' \in TryDelete(backup, call.at)
          /\ UNCHANGED target /\ call' = [call EXCEPT !.phase = "copy"]
      BY <1>0, <1>2, <2>3 DEF RecoverTarget, PlaceInv, Ended, CallType
    <3>2. \A g \in Files : g # call.at => backup'[g] = backup[g]
      BY <1>0, <3>1, TryDeleteFact
    <3> QED
      BY <1>0, <1>2, <3>1, <3>2 DEF RecoverTarget, PlaceInv, Exists, Ended, Preparing, CallType
  <2>4. CASE Exists(backup, call.at) /\ call'.phase # "copy"
    <3>1. /\ target' \in TryDelete(target, call.at)
          /\ UNCHANGED backup /\ call' = [call EXCEPT !.phase = "restore"]
      BY <1>0, <1>2, <2>4 DEF RecoverTarget, CallType
    <3>2. \A g \in Files : g # call.at => target'[g] = target[g]
      BY <1>0, <3>1, TryDeleteFact
    <3> QED
      BY <1>0, <1>2, <2>1, <2>4, <3>1, <3>2
      DEF RecoverTarget, PlaceInv, Exists, Ended, Preparing, CallType
  <2> QED  BY <2>2, <2>3, <2>4
<1>3. CASE RestoreBackup
  BY <1>0, <1>3 DEF RestoreBackup, MoveBackup, PlaceInv, Exists, Ended, Preparing, CallType
<1>4. CASE CopySource
  <2>1. /\ call.phase = "copy" /\ Exists(target, call.at)
        /\ {g \in {call.at} : Exists(target, g)} = {call.at}
    BY <1>4 DEF CopySource, PlaceInv
  <2>2. /\ UNCHANGED <<target, backup>>
        /\ call'.want = call.want
        /\ call'.existed = call'.prepared
        /\ call'.prepared \subseteq call.prepared \cup {call.at}
        /\ call'.phase \in {"recover", "installed", "set aside"}
    BY <1>4, <2>1, CopyFact DEF PlaceInv
  <2> QED
    BY <1>0, <2>1, <2>2 DEF PlaceInv, Exists, Ended, Preparing
<1>5. CASE SetAside
  <2>1. call.at \in call.prepared /\ call.at \in call.existed
    BY <1>5 DEF SetAside, TypeInv, LoopInv, Committing, PlaceInv
  <2>2. /\ backup' = [backup EXCEPT ![call.at] = target[call.at]]
        /\ target' = [target EXCEPT ![call.at] = Missing]
        /\ call' = [call EXCEPT !.phase = "put"]
        /\ call.phase = "set aside"
    BY <1>5, <2>1 DEF SetAside
  <2> QED
    BY <1>0, <2>1, <2>2 DEF PlaceInv, Exists, Ended, Preparing, CallType
<1>6. CASE Put
  <2>1. GoesOn(call', call, call.at, "set aside", "sweep")
    <3>1. call.prepared # {}
      BY <1>6 DEF Put, TypeInv, LoopInv, Committing
    <3> QED  BY <1>0, <1>6, <3>1, FilesFact, GoOnFact DEF Put, Committing
  <2>2. /\ call'.phase \in {"set aside", "sweep"}
        /\ call'.prepared = call.prepared /\ call'.existed = call.existed
        /\ call'.want = call.want
    BY <2>1 DEF GoesOn, SameCall
  <2>3. /\ call.phase = "put" /\ call.want # Missing
        /\ target' = [target EXCEPT ![call.at] = call.want]
        /\ UNCHANGED backup
    BY <1>6 DEF Put, PlaceInv, Ended
  <2> QED
    BY <1>0, <2>2, <2>3 DEF PlaceInv, Exists, Ended, Preparing
<1>7. CASE SweepBackup
  <2>0. call.phase = "sweep" /\ call.at \in call.prepared
    BY <1>7 DEF SweepBackup, TypeInv, LoopInv, Committing
  <2>1. GoesOn(call', call, call.at, "sweep", "installed")
    BY <1>0, <1>7, <2>0, FilesFact, GoOnFact DEF SweepBackup, Committing
  <2>2. /\ call'.phase \in {"sweep", "installed"}
        /\ call'.prepared = call.prepared /\ call'.existed = call.existed
        /\ call'.want = call.want
    BY <2>1 DEF GoesOn, SameCall
  <2>3. /\ \A g \in Files : g # call.at => backup'[g] = backup[g]
        /\ UNCHANGED target
    BY <1>0, <1>7, TryDeleteFact DEF SweepBackup
  <2> QED
    BY <1>0, <2>0, <2>2, <2>3 DEF PlaceInv, Exists, Ended, Preparing
<1>8. CASE Throw
  <2>1. GoesBack(call', call, N + 1)
    BY <1>0, <1>8, FilesFact, GoBackFact DEF Throw
  <2>2. /\ UNCHANGED <<target, backup>> /\ call.phase \notin Ended
        /\ call'.phase \in {"undo", "failed"}
        /\ call'.prepared = call.prepared /\ call'.existed = call.existed
        /\ call'.want = call.want
    BY <1>8, <2>1 DEF GoesBack, SameCall, Throw, Forward, Ended
  <2> QED
    BY <2>2 DEF PlaceInv, Exists, Ended, Preparing
<1>9. CASE Undo
  <2>1. CASE Exists(backup, call.at)
    <3>1. /\ \A g \in Files : g # call.at => target'[g] = target[g]
          /\ UNCHANGED backup /\ call' = [call EXCEPT !.phase = "undo move"]
          /\ call.phase = "undo"
      BY <1>0, <1>9, <2>1, TryDeleteFact DEF Undo
    <3>2. /\ call'.phase = "undo move" /\ call'.at = call.at /\ call'.want = call.want
          /\ call'.prepared = call.prepared /\ call'.existed = call.existed
      BY <1>0, <3>1 DEF CallType
    <3>3. \A g \in Files : Exists(target', g) \/ Exists(backup', g)
      BY <2>1, <3>1 DEF PlaceInv, Exists
    <3> QED
      BY <2>1, <3>1, <3>2, <3>3 DEF PlaceInv, Exists, Ended, Preparing
  <2>2. CASE ~Exists(backup, call.at)
    <3>1. call.at \notin Added
      BY DEF Added, PlaceInv
    <3>2. /\ UNCHANGED <<target, backup>> /\ call' = GoBack(call, call.at)
          /\ call.phase = "undo"
      BY <1>9, <2>2, <3>1 DEF Undo
    <3>3. GoesBack(call', call, call.at)
      BY <1>0, <3>2, FilesFact, GoBackFact
    <3>4. /\ call'.phase \in {"undo", "failed"}
          /\ call'.prepared = call.prepared /\ call'.existed = call.existed
          /\ call'.want = call.want
      BY <3>3 DEF GoesBack, SameCall
    <3> QED
      BY <3>2, <3>4 DEF PlaceInv, Exists, Ended, Preparing
  <2> QED  BY <2>1, <2>2
<1>10. CASE UndoMove
  <2>1. GoesBack(call', call, call.at)
    BY <1>0, <1>10, FilesFact, GoBackFact DEF UndoMove
  <2>2. /\ call'.phase \in {"undo", "failed"}
        /\ call'.prepared = call.prepared /\ call'.existed = call.existed
        /\ call'.want = call.want
    BY <2>1 DEF GoesBack, SameCall
  <2>3. call.phase = "undo move" /\ (MoveBackup(call.at) \/ UNCHANGED <<target, backup>>)
    BY <1>10 DEF UndoMove
  <2>4. \A g \in Files : Exists(target', g) \/ Exists(backup', g)
    BY <1>0, <2>3 DEF MoveBackup, PlaceInv, Exists
  <2> QED
    BY <2>2, <2>3, <2>4 DEF PlaceInv, Exists, Ended, Preparing
<1>11. CASE Crash
  BY <1>0, <1>11 DEF Crash, PlaceInv, Exists, Ended, Preparing, CallType
<1>12. CASE UNCHANGED vars
  BY <1>12 DEF vars, PlaceInv, Exists
<1> QED
  BY <1>1, <1>2, <1>3, <1>4, <1>5, <1>6, <1>7, <1>8, <1>9, <1>10, <1>11, <1>12 DEF Next

\* Wherever a call of Install fails or is killed, and whatever deletion or move
\* fails on the way, each file of an installed component is in its place or in
\* its backup.
THEOREM NoFileIsLost == Spec => []NothingLost
<1>1. CASE First = Missing
  <2>1. NothingLost
    BY <1>1 DEF NothingLost
  <2> QED  BY <2>1, PTL
<1>2. CASE First # Missing
  <2>1. Init => TypeInv /\ PlaceInv
    BY <1>2, TypeInit, PlaceInit
  <2>2. TypeInv /\ PlaceInv /\ [Next]_vars => (TypeInv /\ PlaceInv)'
    BY TypeNext, PlaceNext
  <2>3. PlaceInv => NothingLost
    BY DEF PlaceInv, NothingLost
  <2> QED
    BY <2>1, <2>2, <2>3, PTL DEF Spec
<1> QED
  BY <1>1, <1>2

-----------------------------------------------------------------------------
\* What a call has finished: the files before the one it is at, but for those it
\* will replace, and those it has replaced.
CompleteInv ==
    /\ call.phase \in Preparing =>
           \A f \in Files \ call.prepared : f < call.at => target[f] = call.want
    /\ call.phase \in {"set aside", "put"} =>
           \A f \in Files : f \notin call.prepared \/ f < call.at => target[f] = call.want
    /\ call.phase \in {"sweep", "installed"} => \A f \in Files : target[f] = call.want

LEMMA CompleteNext == TypeInv /\ CompleteInv /\ [Next]_vars => CompleteInv'
<1> SUFFICES ASSUME TypeInv, CompleteInv, [Next]_vars PROVE CompleteInv'
  OBVIOUS
<1>0. /\ call.at \in Files /\ call \in CallType
      /\ target \in [Files -> Versions \cup {Missing}]
      /\ backup \in [Files -> Versions \cup {Missing}]
      /\ call.prepared \subseteq Files
  BY DEF TypeInv, TypeOK, CallType
<1>1. ASSUME NEW w \in Versions, Start(w) PROVE CompleteInv'
  <2>1. \A f \in Files : ~(f < 1)
    BY FilesFact
  <2>2. call'.phase = "recover" /\ call'.at = 1
    BY <1>1 DEF Start
  <2> QED  BY <2>1, <2>2 DEF CompleteInv, Preparing
<1>2. CASE RecoverTarget
  <2>1. /\ call.phase \in Preparing /\ call'.phase \in Preparing
        /\ call'.at = call.at /\ call'.want = call.want /\ call'.prepared = call.prepared
    BY <1>0, <1>2 DEF RecoverTarget, CallType, Preparing
  <2>2. \A f \in Files : f # call.at => target'[f] = target[f]
    BY <1>0, <1>2, TryDeleteFact DEF RecoverTarget
  <2> QED
    BY <1>0, <2>1, <2>2, OrderFact DEF CompleteInv, Preparing
<1>3. CASE RestoreBackup
  <2>1. /\ call.phase \in Preparing /\ call'.phase \in Preparing
        /\ call'.at = call.at /\ call'.want = call.want /\ call'.prepared = call.prepared
    BY <1>0, <1>3 DEF RestoreBackup, CallType, Preparing
  <2>2. \A f \in Files : f # call.at => target'[f] = target[f]
    BY <1>0, <1>3 DEF RestoreBackup, MoveBackup
  <2> QED
    BY <1>0, <2>1, <2>2, OrderFact DEF CompleteInv, Preparing
<1>4. CASE CopySource
  <2>1. /\ target' = target /\ call'.want = call.want
        /\ \/ IsWanted(call.at) /\ call'.prepared = call.prepared
           \/ call'.prepared = call.prepared \cup {call.at}
        /\ \/ call'.phase = "recover" /\ call'.at = call.at + 1
           \/ call'.phase = "installed" /\ call.at = N /\ call'.prepared = {}
           \/ /\ call'.phase = "set aside" /\ call.at = N
              /\ \A h \in call'.prepared : h >= call'.at
    BY <1>4, CopyFact
  <2>2. call.phase \in Preparing
    BY <1>4 DEF CopySource, Preparing
  <2>3. \A f \in Files \ call'.prepared :
            f < call.at \/ f = call.at => target'[f] = call'.want
    BY <1>0, <2>1, <2>2 DEF CompleteInv, IsWanted
  <2>4. CASE call'.phase = "recover" /\ call'.at = call.at + 1
    <3>1. \A f \in Files : f < call'.at => f < call.at \/ f = call.at
      BY <1>0, <2>4, FilesFact
    <3> QED  BY <2>3, <2>4, <3>1 DEF CompleteInv, Preparing
  <2>5. CASE call'.phase = "installed" /\ call.at = N /\ call'.prepared = {}
    BY <1>0, <2>3, <2>5, FilesFact DEF CompleteInv, Preparing
  <2>6. CASE /\ call'.phase = "set aside" /\ call.at = N
             /\ \A h \in call'.prepared : h >= call'.at
    <3>1. TypeInv'
      BY <1>4, CopyFact
    <3>2. call'.at \in Files
      BY <3>1 DEF TypeInv, TypeOK, CallType
    <3>3. \A f \in Files : f < call'.at => f \notin call'.prepared
      BY <2>6, <3>2, OrderFact
    <3>4. \A f \in Files : f \notin call'.prepared => target'[f] = call'.want
      BY <2>3, <2>6, FilesFact
    <3> QED  BY <2>6, <3>3, <3>4 DEF CompleteInv, Preparing
  <2> QED  BY <2>1, <2>4, <2>5, <2>6
<1>5. CASE SetAside
  <2>1. /\ call.phase = "set aside" /\ call'.phase = "put" /\ call.at \in call.prepared
        /\ call'.at = call.at /\ call'.want = call.want /\ call'.prepared = call.prepared
    BY <1>0, <1>5 DEF SetAside, CallType, TypeInv, LoopInv, Committing
  <2>2. \A f \in Files : f # call.at => target'[f] = target[f]
    BY <1>0, <1>5 DEF SetAside
  <2> QED
    BY <1>0, <2>1, <2>2, OrderFact DEF CompleteInv, Preparing
<1>6. CASE Put
  <2>1. /\ call.phase = "put" /\ call.at \in call.prepared
        /\ target'[call.at] = call.want
        /\ \A f \in Files : f # call.at => target'[f] = target[f]
    BY <1>0, <1>6 DEF Put, TypeInv, LoopInv, Committing
  <2>2. GoesOn(call', call, call.at, "set aside", "sweep")
    BY <1>0, <1>6, <2>1, FilesFact, GoOnFact DEF Put, Committing
  <2>3. /\ call'.at \in Files /\ call'.want = call.want /\ call'.prepared = call.prepared
    BY <1>0, <2>2 DEF GoesOn, SameCall
  <2>4. \A f \in Files : f \notin call.prepared \/ f < call.at \/ f = call.at =>
            target'[f] = call.want
    BY <2>1 DEF CompleteInv
  <2>5. CASE /\ call'.phase = "set aside" /\ call'.at > call.at
             /\ \A h \in call'.prepared : h > call.at => h >= call'.at
    <3>1. \A f \in Files : f < call'.at => f \notin call.prepared \/ f < call.at \/ f = call.at
      BY <1>0, <2>3, <2>5, OrderFact
    <3> QED  BY <2>3, <2>4, <2>5, <3>1 DEF CompleteInv, Preparing
  <2>6. CASE call'.phase = "sweep" /\ \A h \in call'.prepared : h <= call.at
    <3>1. \A f \in Files : f \notin call.prepared \/ f < call.at \/ f = call.at
      BY <1>0, <2>3, <2>6, OrderFact
    <3> QED  BY <2>3, <2>4, <2>6, <3>1 DEF CompleteInv, Preparing
  <2> QED  BY <2>2, <2>5, <2>6 DEF GoesOn
<1>7. CASE SweepBackup
  <2>1. call.phase = "sweep" /\ call.at \in call.prepared /\ UNCHANGED target
    BY <1>7 DEF SweepBackup, TypeInv, LoopInv, Committing
  <2>2. GoesOn(call', call, call.at, "sweep", "installed")
    BY <1>0, <1>7, <2>1, FilesFact, GoOnFact DEF SweepBackup, Committing
  <2>3. call'.phase \in {"sweep", "installed"} /\ call'.want = call.want
    BY <2>2 DEF GoesOn, SameCall
  <2> QED  BY <2>1, <2>3 DEF CompleteInv, Preparing
<1>8. CASE Throw
  <2>1. GoesBack(call', call, N + 1)
    BY <1>0, <1>8, FilesFact, GoBackFact DEF Throw
  <2> QED  BY <2>1 DEF GoesBack, CompleteInv, Preparing
<1>9. CASE Undo
  <2>1. call'.phase = "undo move" \/ GoesBack(call', call, call.at)
    BY <1>0, <1>9, FilesFact, GoBackFact DEF Undo, CallType
  <2> QED  BY <2>1 DEF GoesBack, CompleteInv, Preparing
<1>10. CASE UndoMove
  <2>1. GoesBack(call', call, call.at)
    BY <1>0, <1>10, FilesFact, GoBackFact DEF UndoMove
  <2> QED  BY <2>1 DEF GoesBack, CompleteInv, Preparing
<1>11. CASE Crash
  BY <1>0, <1>11 DEF Crash, CallType, CompleteInv, Preparing
<1>12. CASE UNCHANGED vars
  BY <1>12 DEF vars, CompleteInv
<1> QED
  BY <1>1, <1>2, <1>3, <1>4, <1>5, <1>6, <1>7, <1>8, <1>9, <1>10, <1>11, <1>12 DEF Next

\* A call of Install that returns has every file at the version it was asked for,
\* for any faults in this call and the ones before it: the files it left out of the
\* transaction (IsWanted) stay as they were, and no loop skips one it prepared.
THEOREM ReturnedIsInstalled == Spec => []InstalledIsComplete
<1>1. Init => TypeInv /\ CompleteInv
  BY TypeInit DEF Init, CompleteInv, Preparing
<1>2. TypeInv /\ CompleteInv /\ [Next]_vars => (TypeInv /\ CompleteInv)'
  BY TypeNext, CompleteNext
<1>3. TypeInv /\ CompleteInv => InstalledIsComplete
  BY DEF CompleteInv, InstalledIsComplete
<1> QED
  BY <1>1, <1>2, <1>3, PTL DEF Spec

-----------------------------------------------------------------------------
\* One version, while nothing but input and output fails.

LEMMA VersionInit == Init => VersionOf(First)
  BY FilesFact DEF Init, VersionOf, CallInv, HeldInv, PreparingInv, CommittingInv, SweepingInv, UndoingInv, Holds, Ended, Preparing, Committing, Undoing

\* A step of the catch block leaves a file behind: it holds v, and the call goes
\* on with the one before.
LeavesBehind(v, at) ==
    /\ at \in Files /\ call.at = at /\ call.phase \in Undoing
    /\ UndoingInv(v)
    /\ call.prepared \subseteq Files /\ call.want # Missing
    /\ call.existed = IF v = Missing THEN {} ELSE call.prepared
    /\ GoesBack(call', call, at)
    /\ \/ target'[at] = v /\ backup'[at] = Missing
       \/ target'[at] = Missing /\ backup'[at] = v /\ v # Missing
    /\ \A f \in Files : f # at => target'[f] = target[f] /\ backup'[f] = backup[f]

LEMMA UndoneFact ==
    ASSUME NEW v, NEW at, LeavesBehind(v, at)
    PROVE  VersionOf(v)'
<1>0. /\ at \in Files /\ call.at = at /\ call.phase \in Undoing /\ UndoingInv(v)
      /\ call.prepared \subseteq Files /\ call.want # Missing
      /\ call.existed = IF v = Missing THEN {} ELSE call.prepared
      /\ GoesBack(call', call, at)
      /\ \/ target'[at] = v /\ backup'[at] = Missing
         \/ target'[at] = Missing /\ backup'[at] = v /\ v # Missing
      /\ \A f \in Files : f # at => target'[f] = target[f] /\ backup'[f] = backup[f]
  BY DEF LeavesBehind
<1>1. /\ call'.want = call.want /\ call'.prepared = call.prepared
      /\ call'.existed = call.existed /\ call' \in CallType
  BY <1>0 DEF GoesBack, SameCall
<1>2. ASSUME NEW f \in Files, ~(f \in call.prepared /\ f < at) PROVE Holds(f, v)'
  <2>1. CASE f = at
    BY <1>0, <2>1 DEF Holds
  <2>2. CASE f # at
    <3>1. Holds(f, v)
      BY <1>0, <1>2, <2>2, OrderFact DEF UndoingInv
    <3> QED  BY <1>0, <2>2, <3>1 DEF Holds
  <2> QED  BY <2>1, <2>2
<1>3. ASSUME NEW f \in Files, f \in call.prepared, f < at PROVE Undoable(f, v)'
  <2>1. Undoable(f, v) /\ f # at
    BY <1>0, <1>3, OrderFact DEF UndoingInv
  <2> QED  BY <1>0, <2>1 DEF Undoable
<1>4. CASE /\ call'.phase = "undo" /\ call'.at \in call'.prepared /\ call'.at < at
           /\ \A h \in call'.prepared : h < at => h <= call'.at
  <2>1. \A f \in Files : IF f \in call'.prepared /\ f <= call'.at THEN Undoable(f, v)'
                                                                  ELSE Holds(f, v)'
    <3>1. ASSUME NEW f \in Files, f \in call'.prepared, f <= call'.at PROVE Undoable(f, v)'
      <4>1. f < at
        BY <1>0, <1>1, <1>4, <3>1, OrderFact
      <4> QED  BY <1>1, <1>3, <3>1, <4>1
    <3>2. ASSUME NEW f \in Files, ~(f \in call'.prepared /\ f <= call'.at) PROVE Holds(f, v)'
      BY <1>1, <1>2, <1>4, <3>2
    <3> QED  BY <3>1, <3>2
  <2>2. CallInv(v)' /\ HeldInv(v)' /\ PreparingInv(v)'
    BY <1>0, <1>1, <1>4 DEF CallInv, HeldInv, PreparingInv, Ended, Preparing
  <2>3. CommittingInv(v)' /\ SweepingInv(v)' /\ UndoingInv(v)'
    BY <1>0, <1>4, <2>1 DEF CommittingInv, SweepingInv, UndoingInv, Committing
  <2> QED  BY <2>2, <2>3 DEF VersionOf
<1>5. CASE call'.phase = "failed" /\ \A h \in call'.prepared : h >= at
  <2>1. \A f \in Files : Holds(f, v)'
    <3>1. \A f \in Files : ~(f \in call.prepared /\ f < at)
      BY <1>0, <1>1, <1>5, OrderFact
    <3> QED  BY <1>2, <3>1
  <2>2. CallInv(v)' /\ HeldInv(v)' /\ PreparingInv(v)'
    BY <1>5, <2>1 DEF CallInv, HeldInv, PreparingInv, Ended, Preparing
  <2>3. CommittingInv(v)' /\ SweepingInv(v)' /\ UndoingInv(v)'
    BY <1>5 DEF CommittingInv, SweepingInv, UndoingInv, Committing, Undoing
  <2> QED  BY <2>2, <2>3 DEF VersionOf
<1> QED
  BY <1>0, <1>4, <1>5 DEF GoesBack

LEMMA VersionNext ==
    ASSUME Faults \subseteq {"io"}, TypeInv, [Next]_vars,
           NEW v \in Versions \cup {Missing}, VersionOf(v)
    PROVE  \/ VersionOf(v)'
           \/ call'.want \in Versions /\ VersionOf(call.want)'
<1>0. /\ call.at \in Files /\ call \in CallType
      /\ target \in [Files -> Versions \cup {Missing}]
      /\ backup \in [Files -> Versions \cup {Missing}]
      /\ call.prepared \subseteq Files /\ call.want \in Versions \cup {Missing}
  BY DEF TypeInv, TypeOK, CallType
<1>m. Missing \notin Versions
  BY VersionsAssumption DEF Missing
<1>d. ASSUME NEW file \in [Files -> Versions \cup {Missing}], NEW f \in Files,
             NEW after \in TryDelete(file, f)
      PROVE  after = [file EXCEPT ![f] = Missing]
  BY DEF TryDelete
<1>1. ASSUME NEW w \in Versions, Start(w) PROVE VersionOf(v)'
  <2>1. /\ \A f \in Files : Holds(f, v)
        /\ UNCHANGED <<target, backup>>
        /\ call'.phase = "recover" /\ call'.want = w /\ call'.at = 1
        /\ call'.prepared = {} /\ call'.existed = {}
    BY <1>1 DEF Start, VersionOf, HeldInv, Ended
  <2>2. \A f \in Files : ~(f < 1)
    BY FilesFact
  <2> QED
    <3>1. CallInv(v)' /\ HeldInv(v)' /\ PreparingInv(v)'
      BY <1>0, <1>m, <2>1, <2>2
      DEF VersionOf, CallInv, HeldInv, PreparingInv, Holds, Ended, Preparing, Undoing
    <3>2. CommittingInv(v)' /\ SweepingInv(v)' /\ UndoingInv(v)'
      BY <1>0, <2>1, <2>2
      DEF VersionOf, CommittingInv, SweepingInv, UndoingInv, Holds, Ended, Preparing, Undoing, Committing
    <3> QED  BY <3>1, <3>2 DEF VersionOf
<1>2. CASE RecoverTarget
  <2>1. /\ call.phase = "recover" /\ call.at \notin call.prepared
        /\ Holds(call.at, v)
    BY <1>0, <1>2, FilesFact DEF RecoverTarget, TypeInv, LoopInv, Preparing, VersionOf, HeldInv
  <2>2. CASE ~Exists(backup, call.at)
    <3>1. /\ UNCHANGED <<target, backup>> /\ backup[call.at] = Missing
          /\ call' = [call EXCEPT !.phase = "copy"]
      BY <1>2, <2>2 DEF RecoverTarget, Exists
    <3>2. /\ call'.phase = "copy" /\ call'.at = call.at /\ call'.want = call.want
          /\ call'.prepared = call.prepared /\ call'.existed = call.existed
      BY <1>0, <3>1 DEF CallType
    <3> QED
      <4>1. CallInv(v)' /\ HeldInv(v)' /\ PreparingInv(v)'
        BY <1>0, <2>1, <3>1, <3>2
        DEF VersionOf, CallInv, HeldInv, PreparingInv, Holds, Ended, Preparing, Undoing
      <4>2. CommittingInv(v)' /\ SweepingInv(v)' /\ UndoingInv(v)'
        BY <1>0, <2>1, <3>1, <3>2
        DEF VersionOf, CommittingInv, SweepingInv, UndoingInv, Holds, Ended, Preparing, Undoing, Committing
      <4> QED  BY <4>1, <4>2 DEF VersionOf
  <2>3. CASE Exists(backup, call.at)
    <3>1. target[call.at] = Missing /\ backup[call.at] = v /\ v # Missing
      BY <2>1, <2>3 DEF Holds, Exists
    <3>2. /\ target' \in TryDelete(target, call.at) /\ UNCHANGED backup
          /\ call' = [call EXCEPT !.phase = "restore"]
      BY <1>2, <2>1, <2>3, <3>1 DEF RecoverTarget, VersionOf, CallInv, Ended
    <3>3. target' = target
      BY <1>0, <1>d, <3>1, <3>2
    <3>4. /\ call'.phase = "restore" /\ call'.at = call.at /\ call'.want = call.want
          /\ call'.prepared = call.prepared /\ call'.existed = call.existed
      BY <1>0, <3>2 DEF CallType
    <3> QED
      <4>1. CallInv(v)' /\ HeldInv(v)' /\ PreparingInv(v)'
        BY <1>0, <2>1, <3>1, <3>2, <3>3, <3>4
        DEF VersionOf, CallInv, HeldInv, PreparingInv, Holds, Ended, Preparing, Undoing
      <4>2. CommittingInv(v)' /\ SweepingInv(v)' /\ UndoingInv(v)'
        BY <1>0, <2>1, <3>1, <3>2, <3>3, <3>4
        DEF VersionOf, CommittingInv, SweepingInv, UndoingInv, Holds, Ended, Preparing, Undoing, Committing
      <4> QED  BY <4>1, <4>2 DEF VersionOf
  <2> QED  BY <2>2, <2>3
<1>3. CASE RestoreBackup
  <2>1. /\ call.phase = "restore" /\ call.at \notin call.prepared
        /\ backup[call.at] = v /\ v # Missing
    BY <1>0, <1>3, FilesFact DEF RestoreBackup, TypeInv, LoopInv, Preparing, VersionOf, PreparingInv
  <2>2. /\ target' = [target EXCEPT ![call.at] = v]
        /\ backup' = [backup EXCEPT ![call.at] = Missing]
        /\ call' = [call EXCEPT !.phase = "copy"]
    BY <1>3, <2>1 DEF RestoreBackup, MoveBackup
  <2>3. /\ call'.phase = "copy" /\ call'.at = call.at /\ call'.want = call.want
        /\ call'.prepared = call.prepared /\ call'.existed = call.existed
    BY <1>0, <2>2 DEF CallType
  <2>4. \A f \in Files : Holds(f, v)'
    BY <1>0, <2>1, <2>2 DEF VersionOf, HeldInv, Holds, Preparing
  <2>5. backup'[call.at] = Missing /\ \A f \in call.prepared : backup'[f] = backup[f]
    BY <1>0, <2>1, <2>2
  <2> QED
    <3>1. CallInv(v)' /\ HeldInv(v)' /\ PreparingInv(v)'
      BY <1>0, <2>1, <2>3, <2>4, <2>5
      DEF VersionOf, CallInv, HeldInv, PreparingInv, Ended, Preparing, Undoing
    <3>2. CommittingInv(v)' /\ SweepingInv(v)' /\ UndoingInv(v)'
      BY <1>0, <2>1, <2>3, <2>4, <2>5
      DEF VersionOf, CommittingInv, SweepingInv, UndoingInv, Ended, Preparing, Undoing, Committing
    <3> QED  BY <3>1, <3>2 DEF VersionOf
<1>4. CASE CopySource
  <2>1. /\ call.phase = "copy" /\ call.at \notin call.prepared
        /\ backup[call.at] = Missing /\ target[call.at] = v
    <3>1. call.phase = "copy"
      BY <1>4 DEF CopySource
    <3>2. \A f \in call.prepared : f < call.at
      BY <3>1 DEF TypeInv, LoopInv, Preparing
    <3>3. Holds(call.at, v) /\ backup[call.at] = Missing
      BY <1>0, <3>1 DEF VersionOf, HeldInv, PreparingInv, Preparing
    <3> QED
      BY <1>0, <3>1, <3>2, <3>3, FilesFact DEF Holds
  <2>2. /\ TypeInv' /\ UNCHANGED <<target, backup>>
        /\ call'.want = call.want /\ call.want # Missing
        /\ \A f \in Files : Holds(f, v)
        /\ \A f \in call.prepared : backup[f] = Missing /\ v # call.want
        /\ \A f \in Files \ call.prepared : f < call.at => v = call.want
        /\ call.existed = IF v = Missing THEN {} ELSE call.prepared
    BY <1>4, <2>1, CopyFact DEF VersionOf, CallInv, HeldInv, PreparingInv, Preparing, Ended
  <2>3. /\ \A f \in Files : Holds(f, v)'
        /\ \A f \in call'.prepared : backup'[f] = Missing /\ target'[f] = v /\ v # call'.want
        /\ call'.existed = IF v = Missing THEN {} ELSE call'.prepared
        /\ \/ v = call.want /\ call'.prepared = {}
           \/ v # call.want /\ call'.prepared = call.prepared \cup {call.at}
    <3>1. CASE IsWanted(call.at)
      <4>1. v = call.want /\ call.prepared = {}
        BY <2>1, <2>2, <3>1 DEF IsWanted
      <4>2. call'.prepared = {} /\ call'.existed = {}
        BY <1>4, <2>2, <3>1, <4>1, CopyFact
      <4> QED
        BY <2>2, <4>1, <4>2 DEF Holds
    <3>2. CASE ~IsWanted(call.at)
      <4>1. /\ v # call.want
            /\ call'.prepared = call.prepared \cup {call.at}
            /\ call'.existed = call.existed \cup {g \in {call.at} : Exists(target, g)}
        BY <1>4, <2>1, <3>2, CopyFact DEF IsWanted
      <4>2. {g \in {call.at} : Exists(target, g)} = IF v = Missing THEN {} ELSE {call.at}
        BY <2>1 DEF Exists
      <4>3. call'.existed = IF v = Missing THEN {} ELSE call'.prepared
        BY <2>2, <4>1, <4>2
      <4>4. \A f \in call'.prepared : backup'[f] = Missing /\ target'[f] = v
        BY <1>0, <2>1, <2>2, <4>1 DEF Holds
      <4> QED
        BY <2>2, <4>1, <4>3, <4>4 DEF Holds
    <3> QED  BY <3>1, <3>2
  <2>4. CASE call'.phase = "recover" /\ call'.at = call.at + 1
    <3>1. \A f \in Files \ call'.prepared : f < call'.at => v = call'.want
      <4>1. \A f \in Files : f < call'.at => f < call.at \/ f = call.at
        BY <1>0, <2>4, FilesFact
      <4> QED  BY <2>2, <2>3, <4>1
    <3> QED
      <4>1. CallInv(v)' /\ HeldInv(v)' /\ PreparingInv(v)'
        BY <1>0, <2>2, <2>3, <2>4, <3>1
        DEF VersionOf, CallInv, HeldInv, PreparingInv, Ended, Preparing, Undoing
      <4>2. CommittingInv(v)' /\ SweepingInv(v)' /\ UndoingInv(v)'
        BY <1>0, <2>2, <2>3, <2>4, <3>1
        DEF VersionOf, CommittingInv, SweepingInv, UndoingInv, Ended, Preparing, Undoing, Committing
      <4> QED  BY <4>1, <4>2 DEF VersionOf
  <2>5. CASE call'.phase = "installed"
    <3>1. CallInv(v)' /\ HeldInv(v)' /\ PreparingInv(v)'
      BY <2>3, <2>5 DEF CallInv, HeldInv, PreparingInv, Ended, Preparing
    <3>2. CommittingInv(v)' /\ SweepingInv(v)' /\ UndoingInv(v)'
      BY <2>5 DEF CommittingInv, SweepingInv, UndoingInv, Committing, Undoing
    <3> QED  BY <3>1, <3>2 DEF VersionOf
  <2>6. CASE /\ call'.phase = "set aside" /\ call.at = N
             /\ \A h \in call'.prepared : h >= call'.at
    <3>1. call'.at \in call'.prepared
      BY <2>2, <2>6 DEF TypeInv, LoopInv, Committing
    <3>2. call'.prepared = Files
      <4>1. v # call.want /\ call'.prepared = call.prepared \cup {call.at}
        BY <2>3, <3>1
      <4>2. \A f \in Files : f < call.at \/ f = call.at
        BY <2>6, FilesFact
      <4> QED  BY <1>0, <2>2, <4>1, <4>2
    <3>3. \A f \in Files : ~(f < call'.at)
      <4>1. \A f \in Files : f >= call'.at
        BY <2>6, <3>2
      <4>2. call'.at \in Int
        BY <3>1, <3>2, FilesFact
      <4> QED  BY <4>1, <4>2, FilesFact
    <3> QED
      <4>1. CallInv(v)' /\ HeldInv(v)' /\ PreparingInv(v)'
        BY <1>0, <2>2, <2>3, <2>6, <3>1, <3>2, <3>3
        DEF VersionOf, CallInv, HeldInv, PreparingInv, Ended, Preparing, Undoing
      <4>2. CommittingInv(v)' /\ SweepingInv(v)' /\ UndoingInv(v)'
        BY <1>0, <2>2, <2>3, <2>6, <3>1, <3>2, <3>3
        DEF VersionOf, CommittingInv, SweepingInv, UndoingInv, Ended, Preparing, Undoing, Committing
      <4> QED  BY <4>1, <4>2 DEF VersionOf
  <2> QED  BY <1>4, <2>4, <2>5, <2>6, CopyFact
<1>5. CASE SetAside
  <2>1. /\ call.phase = "set aside" /\ call.prepared = Files
        /\ backup[call.at] = Missing /\ target[call.at] = v
        /\ call.existed = IF v = Missing THEN {} ELSE Files
    BY <1>5 DEF SetAside, VersionOf, CallInv, CommittingInv, Committing, Ended
  <2>2. /\ target' = [target EXCEPT ![call.at] = Missing]
        /\ backup' = [backup EXCEPT ![call.at] = v]
    <3>1. CASE v # Missing
      BY <1>0, <1>5, <2>1, <3>1 DEF SetAside
    <3>2. CASE v = Missing
      BY <1>0, <1>5, <1>d, <2>1, <3>2 DEF SetAside
    <3> QED  BY <3>1, <3>2
  <2>3. /\ call'.phase = "put" /\ call'.at = call.at /\ call'.want = call.want
        /\ call'.prepared = call.prepared /\ call'.existed = call.existed
    BY <1>0, <1>5 DEF SetAside, CallType
  <2>4. \A f \in Files : f # call.at => target'[f] = target[f] /\ backup'[f] = backup[f]
    BY <1>0, <2>2
  <2>5. \A f \in Files : f < call.at \/ f > call.at => f # call.at
    BY <1>0, FilesFact
  <2> QED
    <3>1. CallInv(v)' /\ HeldInv(v)' /\ PreparingInv(v)'
      BY <1>0, <2>1, <2>2, <2>3, <2>4, <2>5
      DEF VersionOf, CallInv, HeldInv, PreparingInv, Replaced, Ended, Preparing, Undoing
    <3>2. CommittingInv(v)' /\ SweepingInv(v)' /\ UndoingInv(v)'
      BY <1>0, <2>1, <2>2, <2>3, <2>4, <2>5
      DEF VersionOf, CommittingInv, SweepingInv, UndoingInv, Replaced, Ended, Preparing, Undoing, Committing
    <3> QED  BY <3>1, <3>2 DEF VersionOf
<1>6. CASE Put
  <2>1. /\ call.phase = "put" /\ call.prepared = Files /\ call.want # Missing
        /\ target' = [target EXCEPT ![call.at] = call.want]
        /\ UNCHANGED backup /\ backup[call.at] = v
    BY <1>6 DEF Put, VersionOf, CallInv, CommittingInv, Committing, Ended
  <2>2. GoesOn(call', call, call.at, "set aside", "sweep")
    BY <1>0, <1>6, <2>1, FilesFact, GoOnFact DEF Put, Committing
  <2>3. /\ call'.want = call.want /\ call'.at \in Files
        /\ call'.prepared = call.prepared /\ call'.existed = call.existed
    BY <2>1, <2>2 DEF GoesOn, SameCall
  <2>4. \A f \in Files : (f < call.at \/ f = call.at) => Replaced(f, v)'
    <3>1. \A f \in Files : f # call.at => target'[f] = target[f]
      BY <1>0, <2>1
    <3>2. \A f \in Files : f < call.at => f # call.at
      BY <1>0, FilesFact
    <3> QED
      BY <1>0, <2>1, <2>3, <3>1, <3>2 DEF VersionOf, CommittingInv, Replaced
  <2>5. \A f \in Files : f > call.at => backup'[f] = Missing /\ target'[f] = v
    <3>1. \A f \in Files : f > call.at => f # call.at
      BY <1>0, FilesFact
    <3> QED  BY <1>0, <2>1, <3>1 DEF VersionOf, CommittingInv
  <2>6. CASE /\ call'.phase = "set aside" /\ call'.at > call.at
             /\ \A h \in call'.prepared : h > call.at => h >= call'.at
    <3>1. \A f \in Files : f < call'.at => f < call.at \/ f = call.at
      BY <1>0, <2>1, <2>3, <2>6, OrderFact
    <3>2. \A f \in Files : f > call'.at => f > call.at
      BY <1>0, <2>3, <2>6, OrderFact
    <3> QED
      <4>1. CallInv(v)' /\ HeldInv(v)' /\ PreparingInv(v)'
        BY <1>0, <2>1, <2>3, <2>4, <2>5, <2>6, <3>1, <3>2
        DEF VersionOf, CallInv, HeldInv, PreparingInv, Ended, Preparing, Undoing
      <4>2. CommittingInv(v)' /\ SweepingInv(v)' /\ UndoingInv(v)'
        BY <1>0, <2>1, <2>3, <2>4, <2>5, <2>6, <3>1, <3>2
        DEF VersionOf, CommittingInv, SweepingInv, UndoingInv, Ended, Preparing, Undoing, Committing
      <4> QED  BY <4>1, <4>2 DEF VersionOf
  <2>7. CASE /\ call'.phase = "sweep"
             /\ \A h \in call'.prepared : h <= call.at
             /\ \A h \in call'.prepared : h >= call'.at
    <3>1. \A f \in Files : (f < call.at \/ f = call.at) /\ ~(f < call'.at)
      BY <1>0, <2>1, <2>3, <2>7, FilesFact
    <3> QED
      <4>1. CallInv(v)' /\ HeldInv(v)' /\ PreparingInv(v)'
        BY <1>0, <2>1, <2>3, <2>4, <2>7, <3>1
        DEF VersionOf, CallInv, HeldInv, PreparingInv, Replaced, Ended, Preparing, Undoing
      <4>2. CommittingInv(v)' /\ SweepingInv(v)' /\ UndoingInv(v)'
        BY <1>0, <2>1, <2>3, <2>4, <2>7, <3>1
        DEF VersionOf, CommittingInv, SweepingInv, UndoingInv, Replaced, Ended, Preparing, Undoing, Committing
      <4> QED  BY <4>1, <4>2 DEF VersionOf
  <2> QED  BY <2>2, <2>6, <2>7 DEF GoesOn
<1>7. CASE SweepBackup
  <2>1. /\ call.phase = "sweep" /\ call.prepared = Files /\ call.want # Missing
        /\ UNCHANGED target /\ \A f \in Files : target[f] = call.want
        /\ \A f \in Files : backup[f] = IF f < call.at THEN Missing ELSE v
    BY <1>7 DEF SweepBackup, VersionOf, CallInv, CommittingInv, SweepingInv, Committing, Ended
  <2>2. backup' = [backup EXCEPT ![call.at] = Missing]
    BY <1>0, <1>7, <1>d DEF SweepBackup
  <2>3. GoesOn(call', call, call.at, "sweep", "installed")
    BY <1>0, <1>7, <2>1, FilesFact, GoOnFact DEF SweepBackup, Committing
  <2>4. /\ call'.want = call.want /\ call'.at \in Files
        /\ call'.prepared = call.prepared /\ call'.existed = call.existed
    BY <2>1, <2>3 DEF GoesOn, SameCall
  <2>5. CASE /\ call'.phase = "sweep" /\ call'.at > call.at
             /\ \A h \in call'.prepared : h > call.at => h >= call'.at
    <3>1. \A f \in Files : f < call'.at <=> (f < call.at \/ f = call.at)
      BY <1>0, <2>1, <2>4, <2>5, FilesFact
    <3>2. \A f \in Files : backup'[f] = IF f < call'.at THEN Missing ELSE v
      BY <1>0, <2>1, <2>2, <3>1
    <3> QED
      <4>1. CallInv(v)' /\ HeldInv(v)' /\ PreparingInv(v)'
        BY <1>0, <2>1, <2>4, <2>5, <3>2
        DEF VersionOf, CallInv, HeldInv, PreparingInv, Ended, Preparing, Undoing
      <4>2. CommittingInv(v)' /\ SweepingInv(v)' /\ UndoingInv(v)'
        BY <1>0, <2>1, <2>4, <2>5, <3>2
        DEF VersionOf, CommittingInv, SweepingInv, UndoingInv, Ended, Preparing, Undoing, Committing
      <4> QED  BY <4>1, <4>2 DEF VersionOf
  <2>6. CASE /\ call'.phase = "installed"
             /\ \A h \in call'.prepared : h <= call.at
    <3>1. \A f \in Files : f < call.at \/ f = call.at
      BY <1>0, <2>1, <2>4, <2>6, FilesFact
    <3>2. \A f \in Files : backup'[f] = Missing /\ target'[f] = call.want
      BY <1>0, <2>1, <2>2, <3>1
    <3>3. VersionOf(call.want)'
      BY <2>1, <2>4, <2>6, <3>2 DEF VersionOf, CallInv, HeldInv, PreparingInv, CommittingInv, SweepingInv, UndoingInv,
          Holds, Ended, Preparing, Committing, Undoing
    <3> QED  BY <1>0, <2>1, <2>4, <3>3
  <2> QED  BY <2>3, <2>5, <2>6 DEF GoesOn
<1>8. CASE Throw
  <2>1. /\ UNCHANGED <<target, backup>>
        /\ \/ call.phase \in Preparing
           \/ call.phase \in {"set aside", "put"}
           \/ call.phase = "sweep" /\ call.at = NextPrepared(call.prepared, 0)
    BY <1>8 DEF Throw, Forward, Preparing
  <2>2. GoesBack(call', call, N + 1)
    BY <1>0, <1>8, FilesFact, GoBackFact DEF Throw
  <2>3. /\ call'.want = call.want /\ call'.prepared = call.prepared
        /\ call'.existed = call.existed
        /\ call'.phase \in {"undo", "failed"}
        /\ call'.phase = "undo" => \A h \in call.prepared : h <= call'.at
        /\ call'.phase = "failed" => call.prepared = {}
    <3>1. \A h \in call.prepared : h \in Int /\ h < N + 1
      BY <1>0, FilesFact, FilesAssumption
    <3>2. N + 1 \in Int
      BY FilesAssumption
    <3> QED
      BY <1>0, <2>2, <3>1, <3>2, FilesFact DEF GoesBack, SameCall
  <2>4. /\ call.want # Missing
        /\ call.existed = IF v = Missing THEN {} ELSE call.prepared
    BY <2>1 DEF VersionOf, CallInv, Ended, Preparing
  <2>5. \/ /\ \A f \in Files : Holds(f, v)
           /\ \A f \in call.prepared : backup[f] = Missing
        \/ call.prepared = Files /\ \A f \in Files : Undoable(f, v)
    <3>1. CASE call.phase \in Preparing
      BY <3>1 DEF VersionOf, HeldInv, PreparingInv
    <3>2. CASE call.phase \in {"set aside", "put"}
      <4>1. \A f \in Files : f < call.at \/ f = call.at \/ f > call.at
        BY <1>0, FilesFact
      <4> QED
        BY <1>0, <3>2, <4>1 DEF VersionOf, CommittingInv, Committing, Replaced, Undoable
    <3>3. CASE call.phase = "sweep" /\ call.at = NextPrepared(call.prepared, 0)
      <4>1. call.prepared = Files
        BY <3>3 DEF VersionOf, CommittingInv, Committing
      <4>2. \A f \in Files : ~(f < call.at)
        <5>1. \A h \in (0 + 1)..(call.at - 1) : h \notin Files
          BY <3>3, <4>1, FilesFact, NextPreparedFact
        <5> QED
          BY <1>0, <5>1, FilesFact
      <4> QED
        BY <3>3, <4>1, <4>2 DEF VersionOf, SweepingInv, Undoable
    <3> QED  BY <2>1, <3>1, <3>2, <3>3
  <2>6. CASE call'.phase = "undo"
    <3>1. \A f \in Files : IF f \in call'.prepared /\ f <= call'.at THEN Undoable(f, v)'
                                                                    ELSE Holds(f, v)'
      BY <1>0, <2>1, <2>3, <2>5, <2>6 DEF Undoable, Holds
    <3> QED
      <4>1. CallInv(v)' /\ HeldInv(v)' /\ PreparingInv(v)'
        BY <2>1, <2>3, <2>4, <2>6, <3>1
        DEF VersionOf, CallInv, HeldInv, PreparingInv, Ended, Preparing, Undoing
      <4>2. CommittingInv(v)' /\ SweepingInv(v)' /\ UndoingInv(v)'
        BY <2>1, <2>3, <2>4, <2>6, <3>1
        DEF VersionOf, CommittingInv, SweepingInv, UndoingInv, Ended, Preparing, Undoing, Committing
      <4> QED  BY <4>1, <4>2 DEF VersionOf
  <2>7. CASE call'.phase = "failed"
    <3>1. \A f \in Files : Holds(f, v)'
      BY <2>1, <2>3, <2>5, <2>7, FilesFact DEF Holds
    <3> QED
      <4>1. CallInv(v)' /\ HeldInv(v)' /\ PreparingInv(v)'
        BY <2>1, <2>3, <2>4, <2>7, <3>1
        DEF VersionOf, CallInv, HeldInv, PreparingInv, Ended, Preparing, Undoing
      <4>2. CommittingInv(v)' /\ SweepingInv(v)' /\ UndoingInv(v)'
        BY <2>1, <2>3, <2>4, <2>7, <3>1
        DEF VersionOf, CommittingInv, SweepingInv, UndoingInv, Ended, Preparing, Undoing, Committing
      <4> QED  BY <4>1, <4>2 DEF VersionOf
  <2> QED  BY <2>3, <2>6, <2>7
<1>9. CASE Undo
  <2>1. /\ call.phase = "undo" /\ UNCHANGED backup /\ Undoable(call.at, v)
        /\ call.at \in call.prepared
        /\ call.want # Missing
        /\ call.existed = IF v = Missing THEN {} ELSE call.prepared
    <3>1. call.phase = "undo" /\ UNCHANGED backup /\ call.at \in call.prepared
      BY <1>9 DEF Undo, TypeInv, LoopInv, Undoing
    <3>2. call.at <= call.at
      BY <1>0, FilesFact
    <3> QED
      BY <1>0, <3>1, <3>2 DEF VersionOf, CallInv, UndoingInv, Ended, Undoing
  <2>2. CASE Exists(backup, call.at)
    <3>1. backup[call.at] = v /\ v # Missing
      BY <2>1, <2>2 DEF Undoable, Exists
    <3>2. /\ target' = [target EXCEPT ![call.at] = Missing]
          /\ call' = [call EXCEPT !.phase = "undo move"]
      BY <1>0, <1>9, <1>d, <2>2 DEF Undo
    <3>3. /\ call'.phase = "undo move" /\ call'.at = call.at /\ call'.want = call.want
          /\ call'.prepared = call.prepared /\ call'.existed = call.existed
      BY <1>0, <3>2 DEF CallType
    <3>4. \A f \in Files : IF f \in call'.prepared /\ f <= call'.at THEN Undoable(f, v)'
                                                                    ELSE Holds(f, v)'
      BY <1>0, <2>1, <3>1, <3>2, <3>3, FilesFact DEF VersionOf, UndoingInv, Undoing, Undoable, Holds
    <3> QED
      <4>1. CallInv(v)' /\ HeldInv(v)' /\ PreparingInv(v)'
        BY <1>0, <2>1, <3>1, <3>2, <3>3, <3>4
        DEF VersionOf, CallInv, HeldInv, PreparingInv, Ended, Preparing, Undoing
      <4>2. CommittingInv(v)' /\ SweepingInv(v)' /\ UndoingInv(v)'
        BY <1>0, <2>1, <3>1, <3>2, <3>3, <3>4
        DEF VersionOf, CommittingInv, SweepingInv, UndoingInv, Ended, Preparing, Undoing, Committing
      <4> QED  BY <4>1, <4>2 DEF VersionOf
  <2>3. CASE ~Exists(backup, call.at)
    <3>1. /\ backup[call.at] = Missing /\ target'[call.at] = v
          /\ \A f \in Files : f # call.at => target'[f] = target[f]
          /\ call' = GoBack(call, call.at)
      <4>1. backup[call.at] = Missing /\ (target[call.at] = v \/ v = Missing)
        BY <2>1, <2>3 DEF Undoable, Exists
      <4>2. CASE v = Missing
        <5>1. call.at \in Added
          BY <2>1, <4>2 DEF Added
        <5>2. target' = [target EXCEPT ![call.at] = Missing]
          BY <1>0, <1>9, <1>d, <2>3, <5>1 DEF Undo
        <5> QED
          BY <1>0, <1>9, <2>3, <4>1, <4>2, <5>2 DEF Undo
      <4>3. CASE v # Missing
        <5>1. call.at \notin Added
          BY <2>1, <4>3 DEF Added
        <5> QED
          BY <1>9, <2>3, <4>1, <4>3, <5>1 DEF Undo
      <4> QED  BY <4>2, <4>3
    <3>2. GoesBack(call', call, call.at)
      BY <1>0, <3>1, FilesFact, GoBackFact
    <3>3. /\ target'[call.at] = v /\ backup'[call.at] = Missing
          /\ \A f \in Files : f # call.at => target'[f] = target[f] /\ backup'[f] = backup[f]
      BY <1>0, <2>1, <3>1
    <3>4. LeavesBehind(v, call.at)
      BY <1>0, <2>1, <3>2, <3>3 DEF LeavesBehind, VersionOf, Undoing
    <3> QED  BY <3>4, UndoneFact
  <2> QED  BY <2>2, <2>3
<1>10. CASE UndoMove
  <2>1. /\ call.phase = "undo move" /\ call.want # Missing
        /\ call.existed = IF v = Missing THEN {} ELSE call.prepared
        /\ backup[call.at] = v /\ v # Missing /\ target[call.at] = Missing
        /\ MoveBackup(call.at) \/ UNCHANGED <<target, backup>>
    BY <1>10 DEF UndoMove, VersionOf, CallInv, UndoingInv, Ended
  <2>2. GoesBack(call', call, call.at)
    BY <1>0, <1>10, FilesFact, GoBackFact DEF UndoMove
  <2>3. /\ \/ target'[call.at] = v /\ backup'[call.at] = Missing
           \/ target'[call.at] = Missing /\ backup'[call.at] = v /\ v # Missing
        /\ \A f \in Files : f # call.at => target'[f] = target[f] /\ backup'[f] = backup[f]
    <3>1. CASE MoveBackup(call.at)
      <4>1. /\ target' = [target EXCEPT ![call.at] = v]
            /\ backup' = [backup EXCEPT ![call.at] = Missing]
        BY <2>1, <3>1 DEF MoveBackup
      <4> QED  BY <1>0, <4>1
    <3>2. CASE UNCHANGED <<target, backup>>
      BY <2>1, <3>2
    <3> QED  BY <2>1, <3>1, <3>2
  <2>4. LeavesBehind(v, call.at)
    BY <1>0, <2>1, <2>2, <2>3 DEF LeavesBehind, VersionOf, Undoing
  <2> QED  BY <2>4, UndoneFact
<1>11. CASE Crash
  BY <1>11 DEF Crash
<1>12. CASE UNCHANGED vars
  BY <1>12 DEF vars, VersionOf, CallInv, HeldInv, PreparingInv, CommittingInv, SweepingInv,
            UndoingInv, Holds, Replaced, Undoable
<1> QED
  BY <1>1, <1>2, <1>3, <1>4, <1>5, <1>6, <1>7, <1>8, <1>9, <1>10, <1>11, <1>12 DEF Next, vars

\* While the launcher is not killed and deletions succeed, a call of Install
\* that fails at any operation takes back the files it replaced, even if a
\* move of the catch block fails: the next call finds files of one version.
THEOREM RollbackKeepsOneVersion ==
    ASSUME Faults \subseteq {"io"}
    PROVE  Spec => []OneVersion
<1>1. Init => VersionInv
  BY TypeInit, VersionInit, VersionsAssumption DEF VersionInv
<1>2. VersionInv /\ [Next]_vars => VersionInv'
  <2> SUFFICES ASSUME VersionInv, [Next]_vars PROVE VersionInv'
    OBVIOUS
  <2>1. TypeInv'
    BY TypeNext DEF VersionInv
  <2>2. PICK v \in Versions \cup {Missing} : VersionOf(v)
    BY DEF VersionInv
  <2>3. \E u \in Versions \cup {Missing} : VersionOf(u)'
    BY <2>2, VersionNext DEF VersionInv
  <2> QED  BY <2>1, <2>3 DEF VersionInv
<1>3. VersionInv => OneVersion
  <2> SUFFICES ASSUME NEW v \in Versions \cup {Missing}, VersionOf(v) PROVE OneVersion
    BY DEF VersionInv
  <2>1. ASSUME call.phase \in {"installed", "failed"}, NEW f \in Files PROVE Content(f) = v
    BY <2>1 DEF VersionOf, HeldInv, Holds, Ended, Content, Exists
  <2> QED  BY <2>1 DEF OneVersion
<1> QED
  BY <1>1, <1>2, <1>3, PTL DEF Spec

=============================================================================
