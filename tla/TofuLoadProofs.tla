---------------------------- MODULE TofuLoadProofs ----------------------------
(***************************************************************************)
(* Proofs about TofuLoad, for any workspaces, any number of backup names,   *)
(* runs and faults.                                                          *)
(***************************************************************************)
EXTENDS TofuLoad, TLAPS

\* OpenTofu is asked about workspaces only in a directory that it has made.
DirInv ==
  /\ pc \in {"choose", "select", "show", "deselect"} => dot \in Dirs
  /\ pc \in {"choose", "select"} => ~request.fromFile
  /\ pc = "select" => request.workspace \in Workspaces

\* Between the rename and its reversal, the operator's directory is in a backup.
SavedInv ==
  /\ OwnDirSurvives
  /\ pc \in {"init", "choose", "select", "show", "deselect", "remove", "restore"}
     => (own # Absent => \E n \in Names : backups[n] = own)
  /\ pc = "restore" => stashed \in Names

\* Of a run that has met no error yet: where the directory is that it found, and
\* what the lock file is.
FoundInv ==
  ~failed =>
    /\ pc \in {"readLock", "stash"} => dot = found.dot
    /\ pc \in {"init", "choose", "select", "show", "deselect", "remove", "restore"}
       => (found.dot # Absent => stashed \in Names /\ backups[stashed] = found.dot)
    /\ pc \in {"writeLock", "ended"} => (found.dot # Absent => dot = found.dot)
    /\ pc = "ended" => lock = lockBytes

\* Nothing has been shown before "show", which is reached in the right workspace.
ShownInv ==
  /\ RequestedShown
  /\ pc \in {"readLock", "stash", "init", "choose", "select", "show"} => shown = Missing
  /\ pc = "show" => request.fromFile \/ dot.selected = request.workspace

TInv == TypeOK /\ DirInv /\ SavedInv /\ FoundInv /\ ShownInv

-----------------------------------------------------------------------------
\* What the records of a directory hold.
LEMMA DirFacts ==
  /\ TofuDir \in Dirs /\ Absent \notin Dirs /\ Absent.owner = "none"
  /\ \A d \in Dirs : d.selected \in Workspaces /\ d.owner \in Owners
  /\ \A d \in Dirs, w \in Workspaces : [d EXCEPT !.selected = w] \in Dirs
  /\ MaxBackups \notin Names
BY TofuLoadAssumption DEF TofuDir, Dirs, Absent, Owners, Names

LEMMA InitEstablishes == Init => TInv
<1> SUFFICES ASSUME Init PROVE TInv
  OBVIOUS
<1>1. TypeOK
  BY TofuLoadAssumption, DirFacts DEF Init, TypeOK, Dirs, Owners, Ended, Locks
<1>2. DirInv /\ SavedInv /\ FoundInv /\ ShownInv
  BY DEF Init, DirInv, SavedInv, OwnDirSurvives, FoundInv, ShownInv, RequestedShown
<1> QED BY <1>1, <1>2 DEF TInv

-----------------------------------------------------------------------------
(* One lemma per group of steps.                                           *)

LEMMA LaunchPreserves == TInv /\ Launch => TInv'
<1> SUFFICES ASSUME TInv, Launch PROVE TInv'
  OBVIOUS
<1> USE DEF Launch, TInv, dirs
<1>1. TypeOK'
  BY DEF TypeOK, Steps, Locks
<1>2. DirInv' /\ FoundInv' /\ ShownInv'
  BY DEF DirInv, FoundInv, ShownInv, RequestedShown
<1>3. SavedInv'
  BY DEF SavedInv, OwnDirSurvives
<1> QED BY <1>1, <1>2, <1>3

LEMMA ReadLockPreserves == TInv /\ ReadLock => TInv'
<1> SUFFICES ASSUME TInv, ReadLock PROVE TInv'
  OBVIOUS
<1> USE DEF ReadLock, TInv, Goto, dirs, history
<1>1. TypeOK'
  BY DEF TypeOK, Steps, Locks
<1>2. DirInv' /\ FoundInv' /\ ShownInv'
  BY DEF DirInv, FoundInv, ShownInv, RequestedShown
<1>3. SavedInv'
  BY DEF SavedInv, OwnDirSurvives
<1> QED BY <1>1, <1>2, <1>3

LEMMA StashPreserves == TInv /\ Stash => TInv'
<1> SUFFICES ASSUME TInv, Stash PROVE TInv'
  OBVIOUS
<1> USE DEF TInv, history
<1>1. CASE UNCHANGED <<dot, backups, stashed>>
  <2>1. \/ pc' = "writeLock" /\ failed' = TRUE
        \/ dot = Absent /\ pc' = "init" /\ UNCHANGED failed
    BY <1>1, DirFacts DEF Stash, Goto, FailTo, AfterStashError, TypeOK
  <2> QED
    BY <1>1, <2>1 DEF Stash, TypeOK, Steps, DirInv, FoundInv, ShownInv, RequestedShown,
                      SavedInv, OwnDirSurvives
<1>2. CASE ~UNCHANGED <<dot, backups, stashed>>
  <2>1. PICK n \in Names :
          /\ dot # Absent /\ FreeName(n)
          /\ backups' = [backups EXCEPT ![n] = dot] /\ dot' = Absent /\ stashed' = n
          /\ pc = "stash" /\ pc' = "init" /\ UNCHANGED failed
          /\ UNCHANGED <<lock, request, lockBytes, current, shown, history>>
    BY <1>2 DEF Stash, Goto
  <2>2. backups[n] = Absent /\ backups'[n] = dot /\ \A m \in Names \ {n} : backups'[m] = backups[m]
    BY <2>1 DEF FreeName, TypeOK
  <2>3. TypeOK'
    BY <2>1 DEF TypeOK, Steps
  <2>4. SavedInv'
    BY <2>1, <2>2 DEF SavedInv, OwnDirSurvives
  <2>5. DirInv' /\ FoundInv' /\ ShownInv'
    BY <2>1, <2>2 DEF DirInv, FoundInv, ShownInv, RequestedShown
  <2> QED BY <2>3, <2>4, <2>5
<1> QED BY <1>1, <1>2

LEMMA InitStepPreserves == TInv /\ Init_ => TInv'
<1> SUFFICES ASSUME TInv, Init_ PROVE TInv'
  OBVIOUS
<1> USE DEF Init_, TInv, Goto, FailTo, memory, history
<1>a. dot' \in Dirs \cup {Absent} /\ lock' \in Locks /\ pc' \in Steps /\ failed' \in BOOLEAN
  BY DirFacts DEF TypeOK, Steps, Locks
<1>1. TypeOK'
  BY <1>a DEF TypeOK
<1>2. DirInv' /\ ShownInv'
  BY DirFacts DEF DirInv, ShownInv, RequestedShown
<1>3. SavedInv' /\ FoundInv'
  BY DEF SavedInv, OwnDirSurvives, FoundInv
<1> QED BY <1>1, <1>2, <1>3

LEMMA ChoosePreserves == TInv /\ Choose => TInv'
<1> SUFFICES ASSUME TInv, Choose PROVE TInv'
  OBVIOUS
<1> USE DEF Choose, TInv, Goto, FailTo, dirs, history
<1>1. dot.selected \in Workspaces
  BY DirFacts DEF DirInv
<1>2. /\ request' \in [workspace : Workspaces \cup {Missing}, fromFile : BOOLEAN]
      /\ request'.fromFile = request.fromFile
      /\ pc' = "select" => request'.workspace \in Workspaces
  BY <1>1 DEF TypeOK
<1>3. TypeOK'
  BY <1>2 DEF TypeOK, Steps
<1>4. DirInv' /\ ShownInv'
  BY <1>2 DEF DirInv, ShownInv, RequestedShown
<1>5. SavedInv' /\ FoundInv'
  BY DEF SavedInv, OwnDirSurvives, FoundInv
<1> QED BY <1>3, <1>4, <1>5

LEMMA SelectPreserves == TInv /\ Select => TInv'
<1> SUFFICES ASSUME TInv, Select PROVE TInv'
  OBVIOUS
<1> USE DEF Select, TInv, Goto, FailTo, history
<1>1. /\ dot \in Dirs /\ dot' \in Dirs /\ current' \in Workspaces \cup {Missing}
      /\ pc' = "show" => dot'.selected = request.workspace
  <2>1. dot \in Dirs /\ request.workspace \in Workspaces
    BY DEF DirInv
  <2>2. CASE UNCHANGED <<dot, current>>
    <3>1. pc' = "show" => dot.selected = request.workspace
      BY <2>1, <2>2 DEF MustSelect, Dirs
    <3> QED BY <2>1, <2>2, <3>1 DEF TypeOK
  <2>3. CASE ~UNCHANGED <<dot, current>>
    <3>1. dot' = [dot EXCEPT !.selected = request.workspace] /\ current' = dot.selected
      BY <2>3
    <3> QED BY <2>1, <3>1, DirFacts DEF Dirs
  <2> QED BY <2>2, <2>3
<1>2. TypeOK'
  BY <1>1 DEF TypeOK, Steps
<1>3. DirInv' /\ ShownInv'
  BY <1>1 DEF DirInv, ShownInv, RequestedShown
<1>4. SavedInv' /\ FoundInv'
  BY DEF SavedInv, OwnDirSurvives, FoundInv
<1> QED BY <1>2, <1>3, <1>4

LEMMA ShowPreserves == TInv /\ Show => TInv'
<1> SUFFICES ASSUME TInv, Show PROVE TInv'
  OBVIOUS
<1> USE DEF Show, TInv, Goto, FailTo, dirs, memory, history
<1>1. dot \in Dirs /\ dot.selected \in Workspaces
  BY DirFacts DEF DirInv
<1>2. TypeOK'
  BY <1>1 DEF TypeOK, Steps
<1>3. DirInv' /\ ShownInv'
  BY <1>1 DEF DirInv, ShownInv, RequestedShown
<1>4. SavedInv' /\ FoundInv'
  BY DEF SavedInv, OwnDirSurvives, FoundInv
<1> QED BY <1>2, <1>3, <1>4

LEMMA DeselectPreserves == TInv /\ Deselect => TInv'
<1> SUFFICES ASSUME TInv, Deselect PROVE TInv'
  OBVIOUS
<1> USE DEF Deselect, TInv, Goto, FailTo, memory, history
<1>1. dot' \in Dirs
  BY DirFacts DEF DirInv, TypeOK
<1>2. TypeOK'
  BY <1>1 DEF TypeOK, Steps
<1>3. DirInv' /\ ShownInv'
  BY DEF DirInv, ShownInv, RequestedShown
<1>4. SavedInv' /\ FoundInv'
  BY DEF SavedInv, OwnDirSurvives, FoundInv
<1> QED BY <1>2, <1>3, <1>4

LEMMA RemovePreserves == TInv /\ Remove => TInv'
<1> SUFFICES ASSUME TInv, Remove PROVE TInv'
  OBVIOUS
<1> USE DEF Remove, TInv, Goto, memory, history
<1>1. TypeOK'
  BY DEF TypeOK, Steps
<1>2. DirInv' /\ ShownInv'
  BY DEF DirInv, ShownInv, RequestedShown
<1>3. SavedInv'
  BY DEF SavedInv, OwnDirSurvives
<1>4. FoundInv'
  BY DEF FoundInv
<1> QED BY <1>1, <1>2, <1>3, <1>4

LEMMA RestorePreserves == TInv /\ Restore => TInv'
<1> SUFFICES ASSUME TInv, Restore PROVE TInv'
  OBVIOUS
<1> USE DEF TInv, memory, history
<1>1. CASE UNCHANGED <<dot, backups>>
  <2>1. pc' = "writeLock" /\ (failed' = TRUE \/ backups[stashed] = Absent)
    BY <1>1 DEF Restore, Goto, FailTo
  <2>2. UNCHANGED <<dot, backups, lock, memory, shown, history>> /\ pc = "restore"
    BY <1>1 DEF Restore
  <2>3. failed' \in BOOLEAN /\ (~failed' => ~failed)
    BY DEF Restore, FailTo, Goto, TypeOK
  <2>a. pc' \in Steps
    BY <2>1 DEF Steps
  <2>4. TypeOK'
    BY <2>a, <2>2, <2>3 DEF TypeOK
  <2>5. DirInv' /\ ShownInv'
    BY <2>1, <2>2 DEF DirInv, ShownInv, RequestedShown
  <2>6. SavedInv'
    BY <2>1, <2>2 DEF SavedInv, OwnDirSurvives
  <2>7. FoundInv'
    BY <2>1, <2>2, <2>3 DEF FoundInv
  <2> QED BY <2>4, <2>5, <2>6, <2>7
<1>2. CASE ~UNCHANGED <<dot, backups>>
  <2>1. /\ pc = "restore" /\ dot = Absent /\ pc' = "writeLock" /\ UNCHANGED failed
        /\ dot' = backups[stashed]
        /\ backups' = [backups EXCEPT ![stashed] = Absent]
        /\ UNCHANGED <<lock, memory, shown, history>>
    BY <1>2 DEF Restore, Goto, FailTo
  <2>2. /\ stashed \in Names /\ backups'[stashed] = Absent
        /\ \A m \in Names \ {stashed} : backups'[m] = backups[m]
    BY <2>1 DEF SavedInv, TypeOK
  <2>3. TypeOK'
    BY <2>1, <2>2 DEF TypeOK, Steps
  <2>4. DirInv' /\ ShownInv'
    BY <2>1 DEF DirInv, ShownInv, RequestedShown
  <2>5. SavedInv'
    BY <2>1, <2>2 DEF SavedInv, OwnDirSurvives
  <2>6. FoundInv'
    BY <2>1, <2>2 DEF FoundInv
  <2> QED BY <2>3, <2>4, <2>5, <2>6
<1> QED BY <1>1, <1>2

LEMMA WriteLockPreserves == TInv /\ WriteLock => TInv'
<1> SUFFICES ASSUME TInv, WriteLock PROVE TInv'
  OBVIOUS
<1> USE DEF WriteLock, TInv, Goto, FailTo, memory, history
<1>1. lock' \in Locks /\ pc' \in Ended /\ failed' \in BOOLEAN
  BY DEF TypeOK, Ended, Locks, LockBack
<1>a. TypeOK'
  BY <1>1 DEF TypeOK
<1>2. DirInv' /\ ShownInv'
  BY DEF DirInv, ShownInv, RequestedShown
<1>3. SavedInv' /\ FoundInv'
  BY DEF SavedInv, OwnDirSurvives, FoundInv, LockBack
<1> QED BY <1>a, <1>2, <1>3

LEMMA KillPreserves == TInv /\ Kill => TInv'
<1> SUFFICES ASSUME TInv, Kill PROVE TInv'
  OBVIOUS
<1> USE DEF Kill, TInv, memory, result, history
<1>1. TypeOK'
  BY DEF TypeOK, Ended, Locks
<1>2. DirInv' /\ ShownInv' /\ FoundInv'
  BY DEF DirInv, ShownInv, RequestedShown, FoundInv
<1>3. SavedInv'
  BY DEF SavedInv, OwnDirSurvives
<1> QED BY <1>1, <1>2, <1>3

LEMMA OperatorPreserves == TInv /\ Operator => TInv'
<1> SUFFICES ASSUME TInv, Operator PROVE TInv'
  OBVIOUS
<1> USE DEF Operator, TInv, memory, result
<1>1. dot' \in Dirs
  BY DirFacts DEF TypeOK
<1>2. TypeOK'
  BY <1>1 DEF TypeOK, Ended
<1>3. DirInv' /\ ShownInv' /\ FoundInv' /\ SavedInv'
  BY DEF DirInv, ShownInv, RequestedShown, FoundInv, SavedInv, OwnDirSurvives
<1> QED BY <1>2, <1>3

LEMMA NextPreserves == TInv /\ [Next]_vars => TInv'
<1> SUFFICES ASSUME TInv, [Next]_vars PROVE TInv'
  OBVIOUS
<1>1. CASE UNCHANGED vars
  BY <1>1 DEF vars, dirs, memory, result, history, TInv, TypeOK, DirInv, SavedInv, OwnDirSurvives,
              FoundInv, ShownInv, RequestedShown
<1>2. CASE Next
  BY <1>2, LaunchPreserves, ReadLockPreserves, StashPreserves, InitStepPreserves,
     ChoosePreserves, SelectPreserves, ShowPreserves, DeselectPreserves, RemovePreserves,
     RestorePreserves, WriteLockPreserves, KillPreserves, OperatorPreserves DEF Next
<1> QED BY <1>1, <1>2

-----------------------------------------------------------------------------
(* The theorems.                                                           *)

\* Every reachable state is well typed.
THEOREM TypeCorrect == Spec => []TypeOK
<1>1. TInv => TypeOK
  BY DEF TInv
<1> QED BY <1>1, InitEstablishes, NextPreserves, PTL DEF Spec

\* Through any number of failures, kills and further runs the operator's
\* .terraform is in its place or in a backup.
THEOREM OperatorsDirectorySurvives == Spec => []OwnDirSurvives
<1>1. TInv => OwnDirSurvives
  BY DEF TInv, SavedInv
<1> QED BY <1>1, InitEstablishes, NextPreserves, PTL DEF Spec

\* A run that returns no error leaves .terraform and the lock file as it found
\* them, when it could read the lock file.
THEOREM DirectoryLeftAsFound == Spec => []LeftAsFound
<1>1. TInv => LeftAsFound
  BY DEF TInv, FoundInv, LeftAsFound
<1> QED BY <1>1, InitEstablishes, NextPreserves, PTL DEF Spec

\* What is returned is the state of the workspace, or of the file, that was
\* asked for.
THEOREM WhatWasAskedIsShown == Spec => []RequestedShown
<1>1. TInv => RequestedShown
  BY DEF TInv, ShownInv
<1> QED BY <1>1, InitEstablishes, NextPreserves, PTL DEF Spec
=============================================================================
