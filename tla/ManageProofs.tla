---------------------------- MODULE ManageProofs ----------------------------
(***************************************************************************)
(* Theorems about Manage for any folders, names and number of files.        *)
(*                                                                         *)
(* A list is right when it is made and ages from then on.  What stays true  *)
(* of it (ListAges) and of the files to delete (TargetsHold) is inductive   *)
(* together with the types.                                                 *)
(***************************************************************************)
EXTENDS Manage, TLAPS

USE ManageAssumption

\* What an old list still says: a path outside the reach of other programs
\* holds the file that was seen there, and the tab shows only the present
\* folder.
ListAges ==
  /\ \A p \in Listed \ Foreign : list[p] = disk[p]
  /\ screen = "manage" => \A p \in Listed : Dir(p) = dir

\* The files to delete are on the list they were picked from, and in the folder.
TargetsHold == targets \subseteq Listed /\ \A p \in targets : Dir(p) = dir

Inv ==
  /\ ManageTypeOK
  /\ \A p \in Paths : disk[p] <= landed
  /\ ListAges
  /\ TargetsHold

-----------------------------------------------------------------------------
(* The list *)

\* refreshManage: whatever is listed is there, in the folder, and marked only
\* if it is listed.
LEMMA RefreshLists ==
  ASSUME NEW files \in [Paths -> 0..landed], landed \in Nat,
         NEW marks, NEW err \in BOOLEAN, Refresh(files, marks, err)
  PROVE  /\ Listed' \subseteq Paths
         /\ \A p \in Listed' : list'[p] = files[p] /\ list'[p] \in 1..landed /\ Dir(p) = dir
         /\ marked' \subseteq marks /\ marked' \subseteq Listed'
         /\ failed' \in BOOLEAN
<1>1. PICK seen \in {Found(files), <<>>} :
        list' = seen /\ failed' = (err \/ seen # Found(files)) /\ marked' = marks \cap DOMAIN seen
  BY DEF Refresh
<1>2. CASE seen = <<>>
  <2>1. Listed' = {}
    BY <1>1, <1>2 DEF Listed
  <2> QED
    BY <1>1, <1>2, <2>1 DEF Listed
<1>3. CASE seen = Found(files)
  <2> DEFINE there == {q \in Paths : Dir(q) = dir /\ files[q] # 0}
  <2>1. Listed' = there /\ \A p \in there : list'[p] = files[p]
    BY <1>1, <1>3 DEF Listed, Found
  <2>2. \A p \in there : p \in Paths /\ files[p] \in 1..landed /\ Dir(p) = dir
    OBVIOUS
  <2> QED
    BY <1>1, <1>3, <2>1, <2>2 DEF Listed
<1> QED
  BY <1>2, <1>3

\* Entering the tab and r: nothing but the list changes.
LEMMA RelistKeepsInv ==
  ASSUME Inv, ~card, screen' = "manage", Refresh(disk, marked, FALSE),
         UNCHANGED <<dir, diskVars, cardVars>>
  PROVE  Inv'
<1>1. disk \in [Paths -> 0..landed] /\ landed \in Nat
  BY DEF Inv, ManageTypeOK
<1>2. /\ Listed' \subseteq Paths
      /\ \A p \in Listed' : list'[p] = disk[p] /\ list'[p] \in 1..landed /\ Dir(p) = dir
      /\ marked' \subseteq marked /\ marked' \subseteq Listed' /\ failed' \in BOOLEAN
  BY <1>1, RefreshLists
<1>3. ManageTypeOK'
  BY <1>2 DEF Inv, ManageTypeOK, diskVars, cardVars
<1>4. targets' = {}
  BY DEF Inv, ManageTypeOK, cardVars
<1> QED
  BY <1>2, <1>3, <1>4 DEF Inv, ListAges, TargetsHold, diskVars, cardVars

-----------------------------------------------------------------------------
(* Each step *)

\* Nothing is listed before the tab is opened.
LEMMA InvInit == Init => Inv
<1> SUFFICES ASSUME Init PROVE Inv
  OBVIOUS
<1>1. Listed = {}
  BY DEF Init, Listed
<1>2. disk \in [Paths -> 0..MaxFiles] /\ landed = 0 /\ \A p \in Paths : disk[p] <= landed
  BY DEF Init
<1>3. card = (targets # {})
  BY Zenon DEF Init
<1>4. ManageTypeOK
  <2>1. Listed \subseteq Paths /\ \A p \in Listed : list[p] \in 1..landed
    BY <1>1
  <2>2. dir \in Dirs /\ screen = "other" /\ marked = {} /\ targets = {} /\ failed = FALSE
    BY DEF Init
  <2>3. landed \in 0..MaxFiles
    BY <1>2
  <2> QED
    BY ONLY <1>2, <1>3, <2>1, <2>2, <2>3, Zenon DEF ManageTypeOK
<1>5. ListAges /\ TargetsHold
  BY <1>1 DEF Init, ListAges, TargetsHold
<1> QED
  BY <1>2, <1>4, <1>5 DEF Inv

\* A file lands only where there is none, so never on a listed path that other
\* programs leave alone.
LEMMA ArriveKeepsInv == ASSUME Inv, NEW p \in Paths, Arrive(p) PROVE Inv'
<1>1. /\ landed < MaxFiles /\ disk[p] = 0 /\ landed' = landed + 1
      /\ disk' = [disk EXCEPT ![p] = landed'] /\ Listed' = Listed
      /\ UNCHANGED <<dir, screen, list, marked, failed, targets, card>>
  BY DEF Arrive, tabVars, cardVars, Listed
<1>2. landed' \in 1..MaxFiles /\ landed \in 0..MaxFiles
  BY <1>1 DEF Inv, ManageTypeOK
<1>3. disk' \in [Paths -> 0..MaxFiles] /\ \A q \in Paths : disk'[q] <= landed'
  BY <1>1, <1>2 DEF Inv, ManageTypeOK
<1>4. \A q \in Listed : list[q] \in 1..landed'
  BY <1>1, <1>2 DEF Inv, ManageTypeOK
<1>5. ManageTypeOK'
  BY <1>1, <1>2, <1>3, <1>4 DEF Inv, ManageTypeOK
<1>6. \A q \in Listed \ Foreign : list[q] = disk'[q]
  <2> SUFFICES ASSUME NEW q \in Listed \ Foreign PROVE list[q] = disk'[q]
    OBVIOUS
  <2>1. q \in Paths /\ list[q] = disk[q] /\ list[q] # 0
    BY DEF Inv, ManageTypeOK, ListAges
  <2> QED
    BY <1>1, <2>1 DEF Inv, ManageTypeOK
<1> QED
  BY <1>1, <1>3, <1>5, <1>6 DEF Inv, ListAges, TargetsHold

\* Another program removes a file.
LEMMA RemovedKeepsInv == ASSUME Inv, NEW p \in Paths, RemovedOutside(p) PROVE Inv'
<1>1. /\ p \in Foreign /\ disk' = [disk EXCEPT ![p] = 0] /\ Listed' = Listed
      /\ UNCHANGED <<dir, landed, screen, list, marked, failed, targets, card>>
  BY DEF RemovedOutside, tabVars, cardVars, Listed
<1>2. disk' \in [Paths -> 0..MaxFiles] /\ \A q \in Paths : disk'[q] <= landed'
  BY <1>1 DEF Inv, ManageTypeOK
<1>3. ManageTypeOK'
  BY <1>1, <1>2 DEF Inv, ManageTypeOK
<1>4. \A q \in Listed \ Foreign : disk'[q] = disk[q]
  BY <1>1 DEF Inv, ManageTypeOK
<1> QED
  BY <1>1, <1>2, <1>3, <1>4 DEF Inv, ListAges, TargetsHold

\* doDelete: all targets are in the folder, so it removes those that are not
\* stuck, and lists what is left.
LEMMA ConfirmKeepsInv == ASSUME Inv, Confirm PROVE Inv'
<1>1. PICK stuck \in SUBSET {p \in targets : disk[p] # 0} : DoDelete(stuck)
  BY DEF Confirm
<1> DEFINE gone == {p \in targets \ stuck : Dir(p) = dir}
           left == [p \in Paths |-> IF p \in gone THEN 0 ELSE disk[p]]
<1>2. /\ card' = FALSE /\ targets' = {} /\ UNCHANGED <<dir, landed, screen>>
      /\ disk' = left /\ Refresh(left, marked \ gone, gone # targets)
  BY <1>1 DEF Confirm, DoDelete
<1>3. landed \in 0..MaxFiles /\ disk \in [Paths -> 0..MaxFiles] /\ \A p \in Paths : disk[p] <= landed
  BY DEF Inv, ManageTypeOK
<1>4. left \in [Paths -> 0..landed] /\ left \in [Paths -> 0..MaxFiles] /\ landed \in Nat
  BY <1>3
<1> HIDE DEF left
<1>5. /\ Listed' \subseteq Paths
      /\ \A p \in Listed' : list'[p] = left[p] /\ list'[p] \in 1..landed /\ Dir(p) = dir
      /\ marked' \subseteq marked \ gone /\ marked' \subseteq Listed' /\ failed' \in BOOLEAN
  BY <1>2, <1>4, RefreshLists
<1>6. marked' \subseteq Paths
  BY <1>5 DEF Inv, ManageTypeOK
<1>7. ManageTypeOK'
  BY <1>2, <1>4, <1>5, <1>6 DEF Inv, ManageTypeOK
<1>8. ListAges' /\ TargetsHold'
  BY <1>2, <1>5 DEF ListAges, TargetsHold
<1> QED
  BY <1>2, <1>4, <1>7, <1>8 DEF Inv

\* Every step keeps the list, the marks and the targets sound.
LEMMA InvStep == Inv /\ [Next]_mvars => Inv'
<1> SUFFICES ASSUME Inv, [Next]_mvars PROVE Inv'
  OBVIOUS
<1>1. ASSUME NEW p \in Paths, ToggleMark(p) PROVE Inv'
  BY <1>1 DEF ToggleMark, Key, Inv, ManageTypeOK, ListAges, TargetsHold, Listed, diskVars, cardVars
<1>2. ASSUME NEW p \in Paths, RequestDelete(p) PROVE Inv'
  BY <1>2 DEF RequestDelete, Key, Inv, ManageTypeOK, ListAges, TargetsHold, Listed, diskVars, tabVars
<1>3. CASE Enter
  BY <1>3, RelistKeepsInv DEF Enter
<1>4. CASE Reload
  <2>1. screen' = "manage"
    BY <1>4 DEF Reload
  <2> QED
    BY <1>4, <2>1, RelistKeepsInv DEF Reload
<1>5. CASE Leave
  BY <1>5 DEF Leave, Inv, ManageTypeOK, ListAges, TargetsHold, Listed, diskVars, cardVars
<1>6. CASE ToggleMarkAll
  BY <1>6 DEF ToggleMarkAll, Key, Inv, ManageTypeOK, ListAges, TargetsHold, Listed, diskVars, cardVars
<1>7. CASE Cancel
  BY <1>7 DEF Cancel, Inv, ManageTypeOK, ListAges, TargetsHold, Listed, diskVars, tabVars
<1>8. ASSUME NEW d \in Dirs, ChangeDir(d) PROVE Inv'
  BY <1>8 DEF ChangeDir, Inv, ManageTypeOK, ListAges, TargetsHold, Listed, diskVars, tabVars, cardVars
<1>9. CASE UNCHANGED mvars
  BY <1>9 DEF mvars, Inv, ManageTypeOK, ListAges, TargetsHold, Listed, diskVars, tabVars, cardVars
<1> QED
  BY <1>1, <1>2, <1>3, <1>4, <1>5, <1>6, <1>7, <1>8, <1>9,
     ArriveKeepsInv, RemovedKeepsInv, ConfirmKeepsInv DEF Next

\* What the theorems below rest on.
LEMMA InvAlways == Spec => []Inv
  BY InvInit, InvStep, PTL DEF Spec

-----------------------------------------------------------------------------
(* Theorems *)

\* Every variable of the Manage tab stays in its domain, and on the tab every
\* mark is on a listed row.
THEOREM ManageTypeCorrect == Spec => []ManageTypeOK
<1>1. Inv => ManageTypeOK
  BY DEF Inv
<1> QED
  BY <1>1, InvAlways, PTL

\* The delete card names only files of the present receive folder: doDelete's
\* guard never keeps a file.
THEOREM CardNamesTheFolder == Spec => []TargetsInDir
<1>1. Inv => TargetsInDir
  BY DEF Inv, TargetsHold, TargetsInDir
<1> QED
  BY <1>1, InvAlways, PTL

\* A file that other programs leave alone goes only by doDelete, and only if it
\* is the one the list shows.
THEOREM OnlySeenAreDeleted == Spec => DeletesOnlySeen
<1> DEFINE Removal == \A p \in Paths \ Foreign :
                        disk[p] # 0 /\ disk'[p] = 0 => p \in Listed /\ list[p] = disk[p]
<1>1. Inv /\ [Next]_mvars => [Removal]_mvars
  <2> SUFFICES ASSUME Inv, Next, NEW p \in Paths \ Foreign, disk[p] # 0, disk'[p] = 0
               PROVE  p \in Listed /\ list[p] = disk[p]
    BY DEF Removal
  <2>1. disk \in [Paths -> 0..MaxFiles] /\ landed \in Nat
    BY DEF Inv, ManageTypeOK
  <2>2. ASSUME NEW q \in Paths, Arrive(q) PROVE FALSE
    BY <2>1, <2>2 DEF Arrive
  <2>3. ASSUME NEW q \in Paths, RemovedOutside(q) PROVE FALSE
    BY <2>1, <2>3 DEF RemovedOutside
  <2>4. disk' = disk \/ Confirm
    BY <2>2, <2>3 DEF Next, ToggleMark, RequestDelete, Enter, Reload, Leave, ToggleMarkAll, Cancel,
                      ChangeDir, diskVars
  <2>5. p \in targets
    BY <2>1, <2>4 DEF Confirm, DoDelete
  <2> QED
    BY <2>5 DEF Inv, ListAges, TargetsHold
<1> QED
  BY <1>1, InvAlways, PTL DEF Spec, DeletesOnlySeen
=============================================================================
