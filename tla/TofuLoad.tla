------------------------------- MODULE TofuLoad -------------------------------
(***************************************************************************)
(* LoadTerraformState, for show-state and for the migration check: OpenTofu *)
(* is run in the operator's own project directory, so its lock file and its  *)
(* .terraform directory are put aside and brought back by deferred calls.    *)
(* The process may be killed and run again; the calls of OpenTofu and of the *)
(* file system may fail.                                                     *)
(***************************************************************************)
EXTENDS Naturals

CONSTANTS
  Workspaces, \* the workspaces of the project's backend
  Default,    \* the workspace of a directory with none selected
  Missing,    \* the workspace of no directory
  MaxBackups, \* how many names a backup may have (1000 in the code)
  MaxRuns,    \* bound on the runs
  MaxFaults   \* bound on the failing calls, and on the kills

ASSUME TofuLoadAssumption ==
  /\ Default \in Workspaces /\ Missing \notin Workspaces
  /\ MaxBackups \in Nat /\ MaxRuns \in Nat /\ MaxFaults \in Nat

Owners == {"terraform", "tofu"}
Dirs == [owner : Owners, selected : Workspaces]
Absent == [owner |-> "none", selected |-> Missing]
Locks == {"absent", "terraform's", "tofu's", "torn"}

VARIABLES
  dot,       \* .terraform, which holds the selected workspace; or Absent
  backups,   \* .terraform.bak, .terraform.bak1, ...; each may be Absent
  lock,      \* .terraform.lock.hcl
  pc,
  request,   \* the workspace asked for, or Missing; fromFile: a state file instead
  lockBytes, \* the lock file as read at the start
  stashed,   \* the backup that holds .terraform, or MaxBackups when there is none
  current,   \* the workspace to go back to, or Missing
  shown,     \* the workspace whose state was read, "file", or Missing
  failed,    \* finalError is set
  found,     \* history: .terraform, the lock file and the request when the run began
  own,       \* history: the operator's .terraform
  runs, faults

dirs == <<dot, backups, lock>>
memory == <<request, lockBytes, stashed, current>>
result == <<shown, failed>>
history == <<found, own, runs>>
vars == <<dirs, pc, memory, result, history, faults>>

Ended == {"idle", "ended", "killed"}
Steps == {"readLock", "stash", "init", "choose", "select", "show", "deselect",
          "remove", "restore", "writeLock"}

Fault == faults < MaxFaults /\ faults' = faults + 1
NoFault == UNCHANGED faults
Goto(step) == pc' = step /\ UNCHANGED failed
FailTo(step) == Fault /\ pc' = step /\ failed' = TRUE

Names == 0..(MaxBackups - 1)

\* generateUniqueBackupFileName: the first name that is free.
FreeName(n) == backups[n] = Absent /\ \A m \in Names : m < n => backups[m] # Absent

TofuDir == [owner |-> "tofu", selected |-> Default]

\* Where a run goes when .terraform cannot be renamed: what brings it back has
\* not been deferred yet.
AfterStashError_mutant == "remove"
AfterStashError == "writeLock"

\* What the lock file is written back from.
LockBack_mutant == IF lock = "absent" THEN "absent" ELSE lock
LockBack == lockBytes

\* Whether the workspace is to be selected before the state is shown.
MustSelect_mutant(w) == FALSE
MustSelect(w) == w # dot.selected

-----------------------------------------------------------------------------

Launch ==
  /\ pc \in Ended /\ runs < MaxRuns
  /\ runs' = runs + 1
  /\ pc' = "readLock"
  /\ request' \in [workspace : Workspaces \cup {Missing}, fromFile : BOOLEAN]
  /\ request'.fromFile => request'.workspace = Missing
  /\ lockBytes' = "absent" /\ stashed' = MaxBackups /\ current' = Missing
  /\ shown' = Missing /\ failed' = FALSE
  /\ found' = [dot |-> dot, lock |-> lock, asked |-> request'.workspace]
  /\ UNCHANGED <<dirs, own, faults>>

\* The error of reading the lock file is dropped.
ReadLock ==
  /\ pc = "readLock"
  /\ \/ NoFault /\ lockBytes' = lock
     \/ Fault /\ lockBytes' = "absent"
  /\ Goto("stash")
  /\ UNCHANGED <<dirs, request, stashed, current, shown, history>>

\* A backup has its name before it is known whether there is something to put
\* aside; without one the process panics, and what was deferred runs.
Stash ==
  /\ pc = "stash"
  /\ \/ /\ \A n \in Names : ~FreeName(n)
        /\ NoFault /\ pc' = AfterStashError /\ failed' = TRUE
        /\ UNCHANGED <<dot, backups, stashed>>
     \/ /\ dot = Absent /\ \E n \in Names : FreeName(n)
        /\ NoFault /\ Goto("init")
        /\ UNCHANGED <<dot, backups, stashed>>
     \/ \E n \in Names :
          /\ dot # Absent /\ FreeName(n)
          /\ backups' = [backups EXCEPT ![n] = dot] /\ dot' = Absent
          /\ stashed' = n
          /\ NoFault /\ Goto("init")
     \/ /\ dot # Absent /\ \E n \in Names : FreeName(n)
        /\ FailTo(AfterStashError)
        /\ UNCHANGED <<dot, backups, stashed>>
  /\ UNCHANGED <<lock, request, lockBytes, current, shown, history>>

\* tofu init makes a directory and a lock file of its own.
Init_ ==
  /\ pc = "init"
  /\ \/ /\ NoFault /\ dot' = TofuDir /\ lock' = "tofu's"
        /\ Goto(IF request.fromFile THEN "show" ELSE "choose")
     \/ /\ FailTo("remove")
        /\ dot' \in {dot, TofuDir} /\ lock' \in {lock, "tofu's"}
  /\ UNCHANGED <<backups, memory, shown, history>>

\* tofu workspace show: the workspace of the directory as it is now.
Choose ==
  /\ pc = "choose"
  /\ \/ /\ NoFault /\ Goto("select")
        /\ request' = [request EXCEPT !.workspace = IF @ = Missing THEN dot.selected ELSE @]
     \/ FailTo("remove") /\ UNCHANGED request
  /\ UNCHANGED <<dirs, lockBytes, stashed, current, shown, history>>

Select ==
  /\ pc = "select"
  /\ \/ /\ MustSelect(request.workspace) /\ NoFault /\ Goto("show")
        /\ current' = dot.selected
        /\ dot' = [dot EXCEPT !.selected = request.workspace]
     \/ ~MustSelect(request.workspace) /\ NoFault /\ Goto("show") /\ UNCHANGED <<dot, current>>
     \/ FailTo("remove") /\ UNCHANGED <<dot, current>>
  /\ UNCHANGED <<backups, lock, request, lockBytes, stashed, shown, history>>

\* tofu show.  When it cannot load the schemas, the state is pulled or read,
\* rewritten and shown from a temporary file: of the same workspace or file.
Show ==
  /\ pc = "show"
  /\ \/ NoFault /\ Goto("deselect") /\ shown' = IF request.fromFile THEN "file" ELSE dot.selected
     \/ FailTo("deselect") /\ UNCHANGED shown
  /\ UNCHANGED <<dirs, memory, history>>

\* The deferred calls, last deferred first.
Deselect ==
  /\ pc = "deselect"
  /\ \/ current = Missing /\ NoFault /\ Goto("remove") /\ UNCHANGED dot
     \/ /\ current # Missing /\ NoFault /\ Goto("remove")
        /\ dot' = [dot EXCEPT !.selected = current]
     \/ current # Missing /\ FailTo("remove") /\ UNCHANGED dot
  /\ UNCHANGED <<backups, lock, memory, shown, history>>

\* os.RemoveAll(.terraform), its error ignored.
Remove ==
  /\ pc = "remove"
  /\ \/ NoFault /\ dot' = Absent
     \/ Fault /\ UNCHANGED dot
  /\ Goto(IF stashed \in Names THEN "restore" ELSE "writeLock")
  /\ UNCHANGED <<backups, lock, memory, shown, history>>

\* A rename onto a directory that is still there fails.
Restore ==
  /\ pc = "restore"
  /\ \/ /\ dot = Absent /\ NoFault /\ Goto("writeLock")
        /\ dot' = backups[stashed]
        /\ backups' = [backups EXCEPT ![stashed] = Absent]
     \/ FailTo("writeLock") /\ UNCHANGED <<dot, backups>>
     \/ /\ dot # Absent /\ NoFault /\ pc' = "writeLock" /\ failed' = TRUE
        /\ UNCHANGED <<dot, backups>>
  /\ UNCHANGED <<lock, memory, shown, history>>

WriteLock ==
  /\ pc = "writeLock"
  /\ \/ NoFault /\ Goto("ended") /\ lock' = LockBack
     \/ FailTo("ended") /\ lock' \in {lock, "torn"}
  /\ UNCHANGED <<dot, backups, memory, shown, history>>

\* A kill, after which nothing deferred runs.
Kill ==
  /\ pc \in Steps /\ Fault
  /\ pc' = "killed"
  /\ lock' \in IF pc = "writeLock" THEN {lock, "torn"} ELSE {lock}
  /\ UNCHANGED <<dot, backups, memory, result, history>>

\* Between runs the operator selects a workspace.
Operator ==
  /\ pc \in Ended /\ dot.owner = "terraform"
  /\ \E w \in Workspaces \ {dot.selected} : dot' = [dot EXCEPT !.selected = w]
  /\ own' = dot'
  /\ pc' = "idle"
  /\ UNCHANGED <<backups, lock, memory, result, found, runs, faults>>

Init ==
  /\ dot \in {Absent} \cup [owner : {"terraform"}, selected : Workspaces]
  /\ lock \in {"absent", "terraform's"}
  /\ backups = [n \in Names |-> Absent]
  /\ pc = "idle"
  /\ request = [workspace |-> Missing, fromFile |-> FALSE]
  /\ lockBytes = "absent" /\ stashed = MaxBackups /\ current = Missing
  /\ shown = Missing /\ failed = FALSE
  /\ found = [dot |-> dot, lock |-> lock, asked |-> Missing]
  /\ own = dot
  /\ runs = 0 /\ faults = 0

Next ==
  \/ Launch \/ ReadLock \/ Stash \/ Init_ \/ Choose \/ Select \/ Show
  \/ Deselect \/ Remove \/ Restore \/ WriteLock \/ Kill \/ Operator

Spec == Init /\ [][Next]_vars

-----------------------------------------------------------------------------
(* Properties.                                                             *)

TypeOK ==
  /\ dot \in Dirs \cup {Absent}
  /\ backups \in [Names -> Dirs \cup {Absent}]
  /\ lock \in Locks /\ lockBytes \in Locks
  /\ pc \in Ended \cup Steps
  /\ request \in [workspace : Workspaces \cup {Missing}, fromFile : BOOLEAN]
  /\ stashed \in Names \cup {MaxBackups}
  /\ current \in Workspaces \cup {Missing}
  /\ shown \in Workspaces \cup {Missing, "file"} /\ failed \in BOOLEAN
  /\ own \in Dirs \cup {Absent}

\* The operator's own .terraform is never destroyed: through failures, kills
\* and further runs it is in its place or in a backup.
OwnDirSurvives ==
  own # Absent => dot = own \/ \E n \in Names : backups[n] = own

\* "Save and restore this file", "stash away and restore .terraform": a run
\* that returns no error leaves a .terraform that it found, with its selected
\* workspace, and the lock file, provided that it could be read.
LeftAsFound ==
  pc = "ended" /\ ~failed
  => /\ found.dot # Absent => dot = found.dot
     /\ lockBytes = found.lock => lock = found.lock

\* A state that is returned for a workspace that was asked for is the state of
\* that workspace.
RequestedShown ==
  pc \in {"deselect", "remove", "restore", "writeLock", "ended"} /\ shown # Missing
  => shown = IF request.fromFile THEN "file" ELSE request.workspace

\* "If empty, extract state from the current workspace": the one that is
\* selected in the directory as the operator left it.
CurrentShown ==
  /\ pc = "ended" /\ ~failed /\ ~request.fromFile
  /\ found.asked = Missing /\ found.dot # Absent
  => shown = found.dot.selected
=============================================================================
