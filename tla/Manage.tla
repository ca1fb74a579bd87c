------------------------------- MODULE Manage -------------------------------
(***************************************************************************)
(* The Manage tab of internal/tui: the list of received files, the marks    *)
(* on it, the delete card and the deletion, against a receive folder that   *)
(* the server fills and other programs empty behind the tab's back, and     *)
(* that the user may change in the Settings tab.                            *)
(*                                                                         *)
(* The list and the marks go by path, the disk by file: a file gets a       *)
(* number when it lands, and list remembers which one was seen.  Only whole *)
(* plain files are kept here; files in flight (".part") are never listed.   *)
(*                                                                         *)
(* An operator whose name ends in "Broken" is never used: it is a mistake   *)
(* one could make in the operator defined after it.                         *)
(***************************************************************************)
EXTENDS Naturals, FiniteSets

CONSTANTS
  Dirs,       \* folders the user may receive into
  Names,      \* file names
  Foreign,    \* paths that other programs may remove
  MaxFiles    \* bounds the files that land

Paths == Dirs \X Names
Dir(p) == p[1]

ASSUME ManageAssumption == Foreign \subseteq Paths /\ MaxFiles \in Nat

VARIABLES
  dir,        \* Config.ReceiveDir
  disk,       \* disk[p]: the number of the file at p, 0 if there is none
  landed,     \* files that landed so far
  screen,     \* "manage" or "other"
  list,       \* Model.fileList: the listed paths, with the files seen there
  marked,     \* Model.marked
  targets,    \* Model.delTargets
  card,       \* Model.confirmDel
  failed      \* Model.manageErr says something

tabVars == <<screen, list, marked, failed>>
cardVars == <<targets, card>>
diskVars == <<disk, landed>>
mvars == <<dir, diskVars, tabVars, cardVars>>

Listed == DOMAIN list

Init ==
  /\ dir \in Dirs
  /\ disk = [p \in Paths |-> 0] /\ landed = 0
  /\ screen = "other" /\ list = <<>> /\ marked = {} /\ failed = FALSE
  /\ targets = {} /\ card = FALSE

-----------------------------------------------------------------------------
(* The folder *)

\* An upload gets its final name, one that is free (uniqueAt); it may have
\* begun when another folder was the receive folder.
Arrive(p) ==
  /\ landed < MaxFiles /\ disk[p] = 0
  /\ landed' = landed + 1
  /\ disk' = [disk EXCEPT ![p] = landed']
  /\ UNCHANGED <<dir, tabVars, cardVars>>

RemovedOutside(p) ==
  /\ p \in Foreign /\ disk[p] # 0
  /\ disk' = [disk EXCEPT ![p] = 0]
  /\ UNCHANGED <<dir, landed, tabVars, cardVars>>

-----------------------------------------------------------------------------
(* The list *)

\* receivedFiles on the given state of the folder.
Found(files) == [p \in {q \in Paths : Dir(q) = dir /\ files[q] # 0} |-> files[p]]

\* forgets the marks
RefreshBroken(files, marks, err) ==
  \E seen \in {Found(files), <<>>} :
    /\ list' = seen
    /\ failed' = (err \/ seen # Found(files))
    /\ marked' = marks

\* refreshManage lists the folder, or nothing if it cannot be read, and keeps
\* the marks of what is listed.
Refresh(files, marks, err) ==
  \E seen \in {Found(files), <<>>} :
    /\ list' = seen
    /\ failed' = (err \/ seen # Found(files))
    /\ marked' = marks \cap DOMAIN seen

\* shows the list as it was left
EnterBroken ==
  /\ ~card /\ screen' = "manage"
  /\ UNCHANGED <<dir, diskVars, list, marked, failed, cardVars>>

\* 3, tab, shift+tab
Enter ==
  /\ ~card /\ screen' = "manage"
  /\ Refresh(disk, marked, FALSE)
  /\ UNCHANGED <<dir, diskVars, cardVars>>

\* r
Reload ==
  /\ ~card /\ screen = "manage"
  /\ Refresh(disk, marked, FALSE)
  /\ UNCHANGED <<dir, diskVars, screen, cardVars>>

\* Another tab; under the delete card the PIN card can do the same.
Leave ==
  /\ screen = "manage" /\ screen' = "other"
  /\ UNCHANGED <<dir, diskVars, list, marked, failed, cardVars>>

\* saveEdit, in the Settings tab
ChangeDir(d) ==
  /\ screen = "other" /\ ~card /\ d # dir
  /\ dir' = d
  /\ UNCHANGED <<diskVars, tabVars, cardVars>>

Key == screen = "manage" /\ ~card

\* Space, on the row under the cursor
ToggleMark(p) ==
  /\ Key /\ p \in Listed
  /\ marked' = IF p \in marked THEN marked \ {p} ELSE marked \cup {p}
  /\ UNCHANGED <<dir, diskVars, screen, list, failed, cardVars>>

\* a
ToggleMarkAll ==
  /\ Key
  /\ marked' = IF Listed # {} /\ Listed \subseteq marked THEN marked \ Listed
               ELSE marked \cup Listed
  /\ UNCHANGED <<dir, diskVars, screen, list, failed, cardVars>>

-----------------------------------------------------------------------------
(* Deletion *)

\* d, x: the marked rows, or without marks the row under the cursor.
RequestDelete(p) ==
  /\ Key /\ p \in Listed
  /\ targets' = IF marked \cap Listed # {} THEN marked \cap Listed ELSE {p}
  /\ card' = TRUE
  /\ UNCHANGED <<dir, diskVars, tabVars>>

Cancel ==
  /\ card /\ card' = FALSE /\ targets' = {}
  /\ UNCHANGED <<dir, diskVars, tabVars>>

\* removes and leaves the list for later
DoDeleteBroken(stuck) ==
  LET gone == {p \in targets \ stuck : Dir(p) = dir}
  IN /\ disk' = [p \in Paths |-> IF p \in gone THEN 0 ELSE disk[p]]
     /\ marked' = marked \ gone /\ failed' = (gone # targets)
     /\ UNCHANGED list

\* doDelete: only direct children of the receive folder; a file that cannot be
\* removed stays, one that is not there counts as removed.
DoDelete(stuck) ==
  LET gone == {p \in targets \ stuck : Dir(p) = dir}
      left == [p \in Paths |-> IF p \in gone THEN 0 ELSE disk[p]]
  IN disk' = left /\ Refresh(left, marked \ gone, gone # targets)

Confirm ==
  /\ card /\ card' = FALSE /\ targets' = {}
  /\ \E stuck \in SUBSET {p \in targets : disk[p] # 0} : DoDelete(stuck)
  /\ UNCHANGED <<dir, landed, screen>>

Next ==
  \/ \E p \in Paths : \/ Arrive(p) \/ RemovedOutside(p)
                      \/ ToggleMark(p) \/ RequestDelete(p)
  \/ Enter \/ Reload \/ Leave \/ ToggleMarkAll \/ Confirm \/ Cancel
  \/ \E d \in Dirs : ChangeDir(d)

Spec == Init /\ [][Next]_mvars

-----------------------------------------------------------------------------
(* Properties *)

\* Every variable stays in its domain; on the Manage tab all marks are on
\* listed rows, so the count shown is the number of files d would remove.
ManageTypeOK ==
  /\ dir \in Dirs
  /\ disk \in [Paths -> 0..MaxFiles] /\ landed \in 0..MaxFiles
  /\ screen \in {"manage", "other"}
  /\ Listed \subseteq Paths /\ \A p \in Listed : list[p] \in 1..landed
  /\ marked \subseteq Paths
  /\ targets \subseteq Paths /\ card = (targets # {})
  /\ failed \in BOOLEAN
  /\ screen = "manage" => marked \subseteq Listed

\* The delete card only ever names files of the present receive folder, however
\* the user moved between tabs and folders before: doDelete's guard against
\* anything else is never what keeps a file.  (refreshManage on entering,
\* requestDelete, saveEdit.)
TargetsInDir == card => \A p \in targets : Dir(p) = dir

\* The tab removes a file only if it is the one that was listed under that
\* path, not one that took its place since, as long as no other program removes
\* files there.  (doDelete lists anew what it leaves.)
DeletesOnlySeen ==
  [][\A p \in Paths \ Foreign :
       disk[p] # 0 /\ disk'[p] = 0 => p \in Listed /\ list[p] = disk[p]]_mvars
=============================================================================
