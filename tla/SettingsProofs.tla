--------------------------- MODULE SettingsProofs ---------------------------
(***************************************************************************)
(* Theorems about Settings for any number of programs, forms, hosts and     *)
(* keys, whatever the file held before.                                     *)
(*                                                                         *)
(* Types, and what a program's services go by, need no more than the steps  *)
(* of that program, so they hold even when programs overlap.  What the file *)
(* holds is a matter of all programs: there the proofs assume that no two   *)
(* of them load or save at the same time.                                   *)
(***************************************************************************)
EXTENDS Settings, FiniteSetTheorems, TLAPS

USE SettingsAssumption, BeforeAssumption

-----------------------------------------------------------------------------
(* The inductive invariants *)

Shape == cfg \in [Progs -> Configs] /\ fd \in [Progs -> Inodes \cup {None}]

AtLoad == {x \in Progs : pc[x] = "load"}

\* Every identity is one that was generated, each load generates one at most,
\* and a program that has loaded has one.
Counted ==
  /\ made + Cardinality(AtLoad) <= starts
  /\ \A i \in Inodes : content[i] # Torn => content[i].id <= made
  /\ \A x \in Progs :
       /\ cfg[x].id <= made
       /\ pc[x] \notin {"off", "load"} => cfg[x].id >= 1

TypeInv == SettingsTypeOK /\ Shape /\ Counted

\* Parts of them, by what a step changes together.
Stages == {"off", "run", "apply"} \cup Loading \cup Saving \cup Hosts

DiskTypes ==
  /\ at \in [file : Inodes \cup {None}, tmp : Inodes \cup {None}]
  /\ content \in [Inodes -> Configs \cup {Torn}]
  /\ \A i \in Inodes : content[i] # Torn => content[i].id <= made

ServiceTypes ==
  /\ mode \in [Progs -> {"tui", "quick", "headless"}]
  /\ shown \in [Progs -> BOOLEAN] /\ live \in [Progs -> Lives] /\ probed \in [Progs -> SUBSET Hosts]
  /\ then \in [Progs -> {"ready", "run", "apply"} \cup Hosts]

\* Where a program is or goes on after the save it is in.
Stage(x) == IF pc[x] \in Saving THEN then[x] ELSE pc[x]

\* What its services lack of what its Settings tab shows, by where it is.
FollowsAt(x) ==
  HasServer(x) /\ Stage(x) \in {"run", "apply"} \cup Hosts =>
    /\ Stage(x) # "apply" => live[x].form = cfg[x].form
    /\ live[x].auto = shown[x] /\ live[x].quiet = cfg[x].quiet
    /\ IF Stage(x) \in Hosts THEN cfg[x].known = probed[x] \cup {Stage(x)}
                             ELSE cfg[x].known = probed[x]

Follows == \A x \in Progs : FollowsAt(x)

Busy(x) == pc[x] \in Loading \cup Saving

Alone == \A x, y \in Progs : Busy(x) /\ Busy(y) => x = y

\* The temporary file is another one, and a save has it to itself.
SaveWhole ==
  /\ EditsLast
  /\ at.file # None => at.file # at.tmp
  /\ \A x \in Progs :
       /\ pc[x] = "write" => at.tmp # None /\ fd[x] = at.tmp /\ content[at.tmp] = Torn
       /\ pc[x] = "rename" => at.tmp # None /\ content[at.tmp] = cfg[x]

Identified == saved \in Configs /\ saved.id # 0

\* The identity in the file, once it is there, is that of every program, and a
\* program that answers has it from there.
OneIdentity ==
  /\ met # {} => Identified /\ met = {saved.id}
  /\ \A x \in Progs :
       /\ pc[x] \notin {"off", "load"} /\ Stage(x) # "ready" => Identified
       /\ pc[x] = "ready" => Identified
       /\ pc[x] \notin {"off", "load"} /\ Identified => cfg[x].id = saved.id

-----------------------------------------------------------------------------
(* Files and counts *)

\* There is a free inode whenever a temporary file has to be created: each
\* program holds one at most, and config.json another.
LEMMA UnusedIsFree ==
  ASSUME SettingsTypeOK, Shape, at.tmp = None
  PROVE  Unused \in Inodes \ Linked
<1> DEFINE opened == {fd[x] : x \in Progs}
           taken == opened \cup {at.file}
<1>1. IsFiniteSet(opened) /\ Cardinality(opened) <= Cardinality(Progs)
  <2>1. fd \in Surjection(Progs, opened)
    BY DEF Shape, Surjection
  <2> QED
    BY <2>1, FS_Surjection
<1> HIDE DEF opened
<1>2. /\ Cardinality(Progs) \in Nat /\ Cardinality(opened) \in Nat
      /\ IsFiniteSet(taken) /\ Cardinality(taken) <= Cardinality(opened) + 1
  <2>1. Cardinality(Progs) \in Nat /\ Cardinality(opened) \in Nat
    BY <1>1, FS_CardinalityType
  <2>2. /\ IsFiniteSet(taken)
        /\ Cardinality(taken) = IF at.file \in opened THEN Cardinality(opened) ELSE Cardinality(opened) + 1
    BY <1>1, FS_AddElement
  <2> QED
    BY <2>1, <2>2
<1>3. Cardinality(Inodes) = Cardinality(Progs) + 2
  BY <1>2, FS_Interval DEF Inodes
<1>4. Cardinality(taken) \in Nat
  BY <1>2, FS_CardinalityType
<1>5. ~(Inodes \subseteq taken)
  BY <1>1, <1>2, <1>3, <1>4, FS_Subset
<1>6. None \notin Inodes
  BY DEF Inodes
<1>7. Linked \cap Inodes \subseteq taken
  BY <1>6 DEF Linked, opened
<1>8. \E i \in Inodes : i \notin Linked
  BY <1>5, <1>7
<1> QED
  BY <1>8 DEF Unused

\* A program that moves on loads no more,
LEMMA LoadsEnd ==
  ASSUME pc \in [Progs -> {"off", "run", "apply"} \cup Loading \cup Saving \cup Hosts],
         NEW x \in Progs, NEW next, next # "load", pc' = [pc EXCEPT ![x] = next]
  PROVE  /\ Cardinality(AtLoad) \in Nat /\ Cardinality(AtLoad') \in Nat
         /\ Cardinality(AtLoad') = IF pc[x] = "load" THEN Cardinality(AtLoad) - 1 ELSE Cardinality(AtLoad)
<1>1. AtLoad' = AtLoad \ {x}
  BY DEF AtLoad
<1>2. IsFiniteSet(AtLoad) /\ (x \in AtLoad <=> pc[x] = "load")
  BY FS_Subset DEF AtLoad
<1> QED
  BY <1>1, <1>2, FS_RemoveElement, FS_CardinalityType

\* and one that starts is another that does.
LEMMA LoadBegins ==
  ASSUME pc \in [Progs -> {"off", "run", "apply"} \cup Loading \cup Saving \cup Hosts],
         NEW x \in Progs, pc[x] = "off", pc' = [pc EXCEPT ![x] = "load"]
  PROVE  /\ Cardinality(AtLoad) \in Nat
         /\ Cardinality(AtLoad') = Cardinality(AtLoad) + 1
<1>1. AtLoad' = AtLoad \cup {x} /\ x \notin AtLoad
  BY DEF AtLoad
<1>2. IsFiniteSet(AtLoad)
  BY FS_Subset DEF AtLoad
<1> QED
  BY <1>1, <1>2, FS_AddElement, FS_CardinalityType

-----------------------------------------------------------------------------
(* Types *)

\* A first start finds a file without an identity, or none that is whole.
LEMMA TypeInit == Init => TypeInv
<1> SUFFICES ASSUME Init PROVE TypeInv
  OBVIOUS
<1>1. defaults \in Configs /\ defaults.id = 0
  BY DEF defaults, Configs
<1>2. 1 \in Inodes
  BY FS_CardinalityType DEF Inodes
<1>3. /\ at \in [file : Inodes \cup {None}, tmp : Inodes \cup {None}]
      /\ content \in [Inodes -> Configs \cup {Torn}] /\ saved \in Configs \cup {None, Torn}
      /\ \A i \in Inodes : content[i] # Torn => content[i].id = 0
  <2>1. CASE content = [i \in Inodes |-> Torn] /\ at = [file |-> None, tmp |-> None] /\ saved = None
    BY <2>1
  <2>2. ASSUME NEW c \in Before, at = [file |-> 1, tmp |-> None], saved = c,
               content = [i \in Inodes |-> IF i = 1 THEN c ELSE Torn]
        PROVE  /\ at \in [file : Inodes \cup {None}, tmp : Inodes \cup {None}]
               /\ content \in [Inodes -> Configs \cup {Torn}] /\ saved \in Configs \cup {None, Torn}
               /\ \A i \in Inodes : content[i] # Torn => content[i].id = 0
    BY <1>2, <2>2
  <2> QED
    BY <2>1, <2>2 DEF Init
<1>4. Cardinality(AtLoad) = 0
  <2>1. AtLoad = {}
    BY DEF Init, AtLoad
  <2> QED
    BY <2>1, FS_EmptySet
<1>5. Counted
  BY <1>1, <1>3, <1>4 DEF Init, Counted
<1>6. Shape
  BY <1>1 DEF Init, Shape
<1>7. live \in [Progs -> Lives]
  BY DEF Init, NoLive, Lives
<1>8. SettingsTypeOK
  BY <1>1, <1>3, <1>7 DEF Init, SettingsTypeOK
<1> QED
  BY <1>5, <1>6, <1>8 DEF TypeInv

\* An identity is given to a configuration.
LEMMA IdEdit ==
  ASSUME NEW c \in Configs, NEW n \in 0..MaxStarts
  PROVE  LET d == [c EXCEPT !.id = n]
         IN  d \in Configs /\ d.id = n
  BY DEF Configs

-----------------------------------------------------------------------------
(* Types, step by step *)

\* A step of a program that has no more to load: it goes to next with the
\* configuration c and the file f.
Moved(x, next, c, f) ==
  /\ next \in Stages \ {"load"} /\ c \in Configs
  /\ IF next = "write" THEN f \in Inodes ELSE f = None
  /\ pc' = [pc EXCEPT ![x] = next] /\ cfg' = [cfg EXCEPT ![x] = c] /\ fd' = [fd EXCEPT ![x] = f]
  /\ made' = made \/ (made' = made + 1 /\ pc[x] = "load")
  /\ c.id <= made' /\ (next # "off" => c.id >= 1)
  /\ DiskTypes' /\ ServiceTypes' /\ saved' \in Configs \cup {None, Torn} /\ met' \subseteq 1..made'
  /\ starts' = starts /\ keys' \in 0..MaxKeys

\* Such a step keeps the types.
LEMMA MoveTypes ==
  ASSUME TypeInv, NEW x \in Progs, NEW next, NEW c, NEW f, Moved(x, next, c, f)
  PROVE  TypeInv'
<1> USE DEF Moved
<1>1. /\ pc \in [Progs -> Stages] /\ made \in Nat /\ starts \in 0..MaxStarts
      /\ \A y \in Progs : IF pc[y] = "write" THEN fd[y] \in Inodes ELSE fd[y] = None
  BY DEF TypeInv, SettingsTypeOK, Stages
<1>2. cfg \in [Progs -> Configs] /\ fd \in [Progs -> Inodes \cup {None}]
  BY DEF TypeInv, Shape
<1>3. Shape'
  BY <1>2 DEF Shape, Inodes
<1>4. /\ Cardinality(AtLoad) \in Nat /\ Cardinality(AtLoad') \in Nat
      /\ Cardinality(AtLoad') = IF pc[x] = "load" THEN Cardinality(AtLoad) - 1 ELSE Cardinality(AtLoad)
  BY <1>1, LoadsEnd DEF Stages
<1>5. made' + Cardinality(AtLoad') <= starts /\ made' \in Nat
  BY <1>1, <1>4 DEF TypeInv, Counted
<1>6. pc' \in [Progs -> Stages] /\ pc'[x] = next /\ \A y \in Progs \ {x} : pc'[y] = pc[y]
  BY <1>1
<1>7. ASSUME NEW y \in Progs
      PROVE  cfg'[y].id <= made' /\ (pc'[y] \notin {"off", "load"} => cfg'[y].id >= 1)
  <2>1. CASE y = x
    BY <1>2, <1>6, <2>1
  <2>2. CASE y # x
    <3>1. cfg'[y] = cfg[y] /\ cfg[y].id \in Nat /\ pc'[y] = pc[y]
      BY <1>2, <1>6, <2>2 DEF Configs
    <3>2. cfg[y].id <= made /\ (pc[y] \notin {"off", "load"} => cfg[y].id >= 1)
      BY DEF TypeInv, Counted
    <3> QED
      BY <1>1, <3>1, <3>2
  <2> QED
    BY <2>1, <2>2
<1>8. Counted'
  BY <1>5, <1>7, <1>3 DEF Counted, DiskTypes
<1>9. \A y \in Progs : IF pc'[y] = "write" THEN fd'[y] \in Inodes ELSE fd'[y] = None
  BY <1>1, <1>2, <1>6
<1>10. SettingsTypeOK'
  <2>1. \A y \in Progs : cfg'[y] \in Configs
    BY <1>3 DEF Shape
  <2>2. made' \in 0..starts'
    BY <1>1, <1>4, <1>5
  <2> QED
    BY <1>1, <1>6, <1>9, <2>1, <2>2 DEF SettingsTypeOK, DiskTypes, ServiceTypes, Stages, Inodes
<1> QED
  BY <1>3, <1>8, <1>10 DEF TypeInv

\* What TypeInv says, in the parts of MoveTypes.
LEMMA TypeParts ==
  ASSUME TypeInv
  PROVE  /\ DiskTypes /\ ServiceTypes
         /\ pc \in [Progs -> Stages] /\ cfg \in [Progs -> Configs] /\ fd \in [Progs -> Inodes \cup {None}]
         /\ saved \in Configs \cup {None, Torn} /\ met \subseteq 1..made /\ made \in Nat
         /\ keys \in 0..MaxKeys /\ starts \in 0..MaxStarts
         /\ \A y \in Progs : IF pc[y] = "write" THEN fd[y] \in Inodes ELSE fd[y] = None
         /\ \A y \in Progs : cfg[y].id <= made /\ (pc[y] \notin {"off", "load"} => cfg[y].id >= 1)
         /\ None \notin Inodes
  BY DEF TypeInv, SettingsTypeOK, Shape, Counted, DiskTypes, ServiceTypes, Stages, Inodes

\* Opening the temporary file, which is the one that is there or a free one.
LEMMA OpenTmpTypes == ASSUME TypeInv, NEW x \in Progs, OpenTmp(x) PROVE TypeInv'
<1> DEFINE i == IF at.tmp = None THEN Unused ELSE at.tmp
<1>1. /\ pc[x] = "open" /\ pc' = [pc EXCEPT ![x] = "write"]
      /\ at' = [at EXCEPT !.tmp = i] /\ fd' = [fd EXCEPT ![x] = i]
      /\ content' = [content EXCEPT ![i] = Torn]
      /\ UNCHANGED <<mode, cfg, shown, live, probed, then, saved, met, made, starts, keys>>
  BY DEF OpenTmp, Goto, progVars, history, bounds
<1>2. i \in Inodes
  <2>1. at.tmp = None => Unused \in Inodes
    BY UnusedIsFree DEF TypeInv
  <2> QED
    BY <2>1, TypeParts DEF DiskTypes
<1> HIDE DEF i
<1>3. DiskTypes' /\ ServiceTypes'
  BY <1>1, <1>2, TypeParts DEF DiskTypes, ServiceTypes
<1>4. "write" \in Stages \ {"load"} /\ cfg[x] \in Configs /\ cfg' = [cfg EXCEPT ![x] = cfg[x]]
      /\ cfg[x].id <= made /\ cfg[x].id >= 1
  BY <1>1, TypeParts DEF Stages, Saving
<1>5. /\ saved' \in Configs \cup {None, Torn} /\ met' \subseteq 1..made' /\ keys' \in 0..MaxKeys
  BY <1>1, TypeParts
<1>6. Moved(x, "write", cfg[x], i)
  BY <1>1, <1>2, <1>3, <1>4, <1>5 DEF Moved
<1> QED
  BY <1>6, MoveTypes

\* Writing it, whole or mixed with what another program wrote.
LEMMA WriteTmpTypes == ASSUME TypeInv, NEW x \in Progs, WriteTmp(x) PROVE TypeInv'
<1>1. /\ pc[x] = "write" /\ pc' = [pc EXCEPT ![x] = "rename"] /\ fd' = [fd EXCEPT ![x] = None]
      /\ \E c \in {cfg[x], Torn} : content' = [content EXCEPT ![fd[x]] = c]
      /\ UNCHANGED <<at, mode, cfg, shown, live, probed, then, saved, met, made, starts, keys>>
  BY DEF WriteTmp, Goto, progVars, history, bounds
<1>2. "rename" \in Stages \ {"load"} /\ cfg[x] \in Configs /\ cfg' = [cfg EXCEPT ![x] = cfg[x]]
      /\ cfg[x].id <= made /\ cfg[x].id >= 1 /\ fd[x] \in Inodes
  BY <1>1, TypeParts DEF Stages, Saving
<1>3. DiskTypes' /\ ServiceTypes'
  BY <1>1, <1>2, TypeParts DEF DiskTypes, ServiceTypes
<1>4. /\ saved' \in Configs \cup {None, Torn} /\ met' \subseteq 1..made' /\ keys' \in 0..MaxKeys
  BY <1>1, TypeParts
<1>5. Moved(x, "rename", cfg[x], None)
  BY <1>1, <1>2, <1>3, <1>4 DEF Moved
<1> QED
  BY <1>5, MoveTypes

\* The rename frees the inode config.json had.
LEMMA RenameTypes == ASSUME TypeInv, NEW x \in Progs, Rename(x) PROVE TypeInv'
<1>1. /\ pc[x] = "rename" /\ pc' = [pc EXCEPT ![x] = then[x]] /\ saved' = cfg[x]
      /\ at' = [file |-> at.tmp, tmp |-> None]
      /\ content' = [i \in Inodes |-> IF i = at.file THEN Torn ELSE content[i]]
      /\ UNCHANGED <<mode, cfg, shown, live, probed, fd, then, met, made, starts, keys>>
  BY DEF Rename, Goto, progVars, bounds
<1>2. then[x] \in Stages \ {"load", "write"}
  BY TypeParts DEF ServiceTypes, Stages, Loading, Saving
<1>3. /\ cfg[x] \in Configs /\ cfg' = [cfg EXCEPT ![x] = cfg[x]]
      /\ cfg[x].id <= made /\ cfg[x].id >= 1 /\ fd[x] = None /\ fd' = [fd EXCEPT ![x] = None]
  BY <1>1, TypeParts
<1>4. DiskTypes' /\ ServiceTypes'
  BY <1>1, TypeParts DEF DiskTypes, ServiceTypes
<1>5. /\ saved' \in Configs \cup {None, Torn} /\ met' \subseteq 1..made' /\ keys' \in 0..MaxKeys
  BY <1>1, <1>3, TypeParts
<1>6. Moved(x, then[x], cfg[x], None)
  BY <1>1, <1>2, <1>3, <1>4, <1>5 DEF Moved
<1> QED
  BY <1>6, MoveTypes

\* A save that fails changes nothing more on the disk.
LEMMA SaveFailsTypes == ASSUME TypeInv, NEW x \in Progs, SaveFails(x) PROVE TypeInv'
<1>1. /\ pc[x] \in Saving /\ pc' = [pc EXCEPT ![x] = then[x]] /\ fd' = [fd EXCEPT ![x] = None]
      /\ UNCHANGED <<at, content, mode, cfg, shown, live, probed, then, saved, met, made, starts, keys>>
  BY DEF SaveFails, diskVars, progVars, history, bounds
<1>2. then[x] \in Stages \ {"load", "write"}
  BY TypeParts DEF ServiceTypes, Stages, Loading, Saving
<1>3. /\ cfg[x] \in Configs /\ cfg' = [cfg EXCEPT ![x] = cfg[x]] /\ cfg[x].id <= made /\ cfg[x].id >= 1
  BY <1>1, TypeParts DEF Saving
<1>4. DiskTypes' /\ ServiceTypes'
  BY <1>1, TypeParts DEF DiskTypes, ServiceTypes
<1>5. /\ saved' \in Configs \cup {None, Torn} /\ met' \subseteq 1..made' /\ keys' \in 0..MaxKeys
  BY <1>1, TypeParts
<1>6. Moved(x, then[x], cfg[x], None)
  BY <1>1, <1>2, <1>3, <1>4, <1>5 DEF Moved
<1> QED
  BY <1>6, MoveTypes

\* The end of a program.
LEMMA ExitTypes ==
  ASSUME TypeInv, NEW x \in Progs, Exit(x), UNCHANGED <<diskVars, history, made, bounds>>
  PROVE  TypeInv'
<1>1. defaults \in Configs /\ defaults.id = 0 /\ NoLive \in Lives
  BY DEF defaults, Configs, NoLive, Lives
<1>2. /\ pc' = [pc EXCEPT ![x] = "off"] /\ cfg' = [cfg EXCEPT ![x] = defaults]
      /\ fd' = [fd EXCEPT ![x] = None]
      /\ UNCHANGED <<at, content, saved, met, made, starts, keys>>
  BY DEF Exit, diskVars, history, bounds
<1>3. DiskTypes' /\ ServiceTypes'
  BY <1>1, <1>2, TypeParts DEF Exit, DiskTypes, ServiceTypes
<1>4. "off" \in Stages \ {"load", "write"}
  BY DEF Stages
<1>5. /\ saved' \in Configs \cup {None, Torn} /\ met' \subseteq 1..made' /\ keys' \in 0..MaxKeys
      /\ defaults.id <= made'
  BY <1>1, <1>2, TypeParts
<1>6. Moved(x, "off", defaults, None)
  BY <1>1, <1>2, <1>3, <1>4, <1>5 DEF Moved
<1> QED
  BY <1>6, MoveTypes

\* A program starts, and there is one more that may need an identity.
LEMMA StartTypes ==
  ASSUME TypeInv, NEW x \in Progs, NEW how \in {"tui", "quick", "headless"}, Start(x, how)
  PROVE  TypeInv'
<1>1. /\ starts < MaxStarts /\ starts' = starts + 1 /\ pc[x] = "off" /\ pc' = [pc EXCEPT ![x] = "load"]
      /\ mode' = [mode EXCEPT ![x] = how]
      /\ UNCHANGED <<at, content, cfg, shown, live, probed, fd, then, saved, met, made, keys>>
  BY DEF Start, Goto, diskVars, history
<1>2. Cardinality(AtLoad) \in Nat /\ Cardinality(AtLoad') = Cardinality(AtLoad) + 1
  BY <1>1, TypeParts, LoadBegins DEF Stages
<1>3. made \in Nat /\ starts \in 0..MaxStarts /\ made + Cardinality(AtLoad) <= starts
  BY TypeParts DEF TypeInv, Counted
<1>4. made + Cardinality(AtLoad') <= starts' /\ starts' \in 0..MaxStarts /\ made \in 0..starts'
  BY <1>1, <1>2, <1>3
<1>5. pc' \in [Progs -> Stages] /\ \A y \in Progs : pc'[y] = IF y = x THEN "load" ELSE pc[y]
  BY <1>1, TypeParts DEF Stages, Loading
<1>6. ServiceTypes'
  BY <1>1, TypeParts DEF ServiceTypes
<1>7. Counted'
  BY <1>1, <1>4, <1>5 DEF TypeInv, Counted
<1>8. SettingsTypeOK'
  BY <1>1, <1>4, <1>5, <1>6 DEF TypeInv, SettingsTypeOK, ServiceTypes, Stages
<1> QED
  BY <1>1, <1>7, <1>8 DEF TypeInv, Shape

\* Load gives an identity to a program that finds none.
LEMMA LoadOKTypes == ASSUME TypeInv, NEW x \in Progs, LoadOK(x) PROVE TypeInv'
<1> DEFINE c == IF Stored.id = 0 THEN [Stored EXCEPT !.id = made + 1] ELSE Stored
<1>1. /\ Stored # Torn /\ pc[x] = "load" /\ pc' = [pc EXCEPT ![x] = "open"]
      /\ made' = (IF Stored.id = 0 THEN made + 1 ELSE made)
      /\ cfg' = [cfg EXCEPT ![x] = c] /\ then' = [then EXCEPT ![x] = "ready"]
      /\ UNCHANGED <<at, content, mode, shown, live, probed, fd, saved, met, starts, keys>>
  BY DEF LoadOK, Goto, diskVars, history, bounds
<1>2. Stored \in Configs /\ Stored.id <= made /\ Stored.id \in Nat
  <2>1. CASE at.file = None
    BY <2>1, TypeParts DEF Stored, defaults, Configs
  <2>2. CASE at.file # None
    <3>1. at.file \in Inodes /\ Stored = content[at.file]
      BY <2>2, TypeParts DEF Stored, DiskTypes
    <3>2. Stored \in Configs /\ Stored.id <= made
      BY <1>1, <3>1, TypeParts DEF DiskTypes
    <3> QED
      BY <3>2 DEF Configs
  <2> QED
    BY <2>1, <2>2
<1>3. made + 1 \in 1..MaxStarts
  <2>1. Cardinality(AtLoad) \in Nat /\ Cardinality(AtLoad') \in Nat
        /\ Cardinality(AtLoad') = Cardinality(AtLoad) - 1
    BY <1>1, TypeParts, LoadsEnd DEF Stages
  <2>2. made + Cardinality(AtLoad) <= starts /\ made \in Nat /\ starts \in 0..MaxStarts
    BY TypeParts DEF TypeInv, Counted
  <2> QED
    BY <2>1, <2>2
<1>4. c \in Configs /\ c.id <= made' /\ c.id >= 1
  <2>1. CASE Stored.id = 0
    BY <1>1, <1>2, <1>3, <2>1, IdEdit
  <2>2. CASE Stored.id # 0
    BY <1>1, <1>2, <2>2
  <2> QED
    BY <2>1, <2>2
<1> HIDE DEF c
<1>5. made' = made \/ made' = made + 1
  BY <1>1
<1>6. DiskTypes'
  <2>1. \A i \in Inodes : content[i] # Torn => content[i].id \in Nat /\ content[i].id <= made
    BY TypeParts DEF DiskTypes, Configs
  <2>2. \A i \in Inodes : content[i] # Torn => content[i].id <= made'
    BY <1>5, <2>1, TypeParts
  <2> QED
    BY <1>1, <2>2, TypeParts DEF DiskTypes
<1>7. ServiceTypes'
  BY <1>1, TypeParts DEF ServiceTypes
<1>8. /\ "open" \in Stages \ {"load", "write"} /\ fd[x] = None /\ fd' = [fd EXCEPT ![x] = None]
      /\ saved' \in Configs \cup {None, Torn} /\ keys' \in 0..MaxKeys
  BY <1>1, TypeParts DEF Stages, Saving
<1>9. met' \subseteq 1..made'
  BY <1>1, <1>5, TypeParts
<1>10. Moved(x, "open", c, None)
  BY <1>1, <1>4, <1>5, <1>6, <1>7, <1>8, <1>9 DEF Moved
<1> QED
  BY <1>10, MoveTypes

\* The flags change the form, auto-accept and notifications, never the identity.
LEMMA ReadyTypes ==
  ASSUME TypeInv, NEW x \in Progs, NEW form \in Forms, NEW auto \in BOOLEAN, NEW hush \in BOOLEAN,
         Ready(x, form, auto, hush)
  PROVE  TypeInv'
<1> DEFINE c == [cfg[x] EXCEPT !.form = form, !.auto = @ \/ auto, !.quiet = @ \/ hush]
           services == [form |-> c.form, auto |-> c.auto, quiet |-> c.quiet]
<1>1. /\ pc[x] = "ready" /\ pc' = [pc EXCEPT ![x] = "run"] /\ cfg' = [cfg EXCEPT ![x] = c]
      /\ shown' = [shown EXCEPT ![x] = c.auto] /\ live' = [live EXCEPT ![x] = services]
      /\ probed' = [probed EXCEPT ![x] = c.known] /\ met' = met \cup {c.id}
      /\ UNCHANGED <<at, content, mode, fd, then, saved, made, starts, keys>>
  BY DEF Ready, Goto, diskVars, bounds
<1>2. cfg[x] \in Configs /\ cfg[x].id <= made /\ cfg[x].id >= 1 /\ fd[x] = None
  BY <1>1, TypeParts
<1>3. c \in Configs /\ c.id = cfg[x].id
  BY <1>2 DEF Configs
<1> HIDE DEF c
<1>4. c.auto \in BOOLEAN /\ c.known \subseteq Hosts /\ services \in Lives /\ c.id \in Nat
  BY <1>3 DEF Configs, Lives
<1> HIDE DEF services
<1>5. DiskTypes' /\ ServiceTypes'
  BY <1>1, <1>4, TypeParts DEF DiskTypes, ServiceTypes
<1>6. /\ "run" \in Stages \ {"load", "write"} /\ fd' = [fd EXCEPT ![x] = None]
      /\ saved' \in Configs \cup {None, Torn} /\ keys' \in 0..MaxKeys
  BY <1>1, <1>2, TypeParts DEF Stages
<1>7. met' \subseteq 1..made'
  BY <1>1, <1>2, <1>3, <1>4, TypeParts
<1>8. Moved(x, "run", c, None)
  BY <1>1, <1>2, <1>3, <1>5, <1>6, <1>7 DEF Moved
<1> QED
  BY <1>8, MoveTypes

\* A step of a running program that leaves the disk and the identity alone.
RunsOn(x, next, c) ==
  /\ next \in Stages \ {"load", "write"} /\ c \in Configs /\ c.id = cfg[x].id
  /\ pc[x] \notin {"off", "load", "write"} /\ pc' = [pc EXCEPT ![x] = next]
  /\ cfg' = [cfg EXCEPT ![x] = c]
  /\ ServiceTypes' /\ keys' \in 0..MaxKeys
  /\ UNCHANGED <<at, content, fd, saved, met, made, starts>>

\* Such a step keeps the types.
LEMMA RunTypes ==
  ASSUME TypeInv, NEW x \in Progs, NEW next, NEW c, RunsOn(x, next, c)
  PROVE  TypeInv'
<1> USE DEF RunsOn
<1>1. fd[x] = None /\ fd' = [fd EXCEPT ![x] = None] /\ c.id <= made' /\ c.id >= 1
  BY TypeParts
<1>2. DiskTypes' /\ saved' \in Configs \cup {None, Torn} /\ met' \subseteq 1..made'
  BY TypeParts DEF DiskTypes
<1>3. Moved(x, next, c, None)
  BY <1>1, <1>2 DEF Moved
<1> QED
  BY <1>3, MoveTypes

\* The server and the notification gate are told of a flag.
LEMMA FlagEdit ==
  ASSUME live \in [Progs -> Lives], NEW x \in Progs, NEW p
  PROVE  /\ [live EXCEPT ![x].auto = ~p] \in [Progs -> Lives]
         /\ [live EXCEPT ![x].quiet = ~p] \in [Progs -> Lives]
<1> DEFINE b == ~p
<1>1. b \in BOOLEAN
  OBVIOUS
<1> HIDE DEF b
<1>2. [live EXCEPT ![x].auto = b] \in [Progs -> Lives] /\ [live EXCEPT ![x].quiet = b] \in [Progs -> Lives]
  BY <1>1 DEF Lives
<1> QED
  BY <1>2 DEF b

\* a
LEMMA ToggleAutoTypes == ASSUME TypeInv, NEW x \in Progs, ToggleAuto(x) PROVE TypeInv'
<1>1. /\ pc[x] = "run" /\ keys < MaxKeys /\ keys' = keys + 1
      /\ shown' = [shown EXCEPT ![x] = ~@]
      /\ live' = live \/ live' = [live EXCEPT ![x].auto = ~shown[x]]
      /\ UNCHANGED <<at, content, pc, mode, cfg, probed, fd, then, saved, met, made, starts>>
  BY DEF ToggleAuto, Key, diskVars, history
<1>2. live' \in [Progs -> Lives] /\ shown' \in [Progs -> BOOLEAN]
  <2>1. shown[x] \in BOOLEAN /\ live \in [Progs -> Lives] /\ shown \in [Progs -> BOOLEAN]
    BY TypeParts DEF ServiceTypes
  <2>2. live' \in [Progs -> Lives]
    <3>1. [live EXCEPT ![x].auto = ~shown[x]] \in [Progs -> Lives]
      BY <2>1, FlagEdit, Zenon
    <3> QED
      BY <1>1, <2>1, <3>1, Zenon
  <2> QED
    BY <1>1, <2>1, <2>2
<1>3. ServiceTypes'
  BY <1>1, <1>2, TypeParts DEF ServiceTypes
<1>4. /\ cfg[x] \in Configs /\ pc' = [pc EXCEPT ![x] = "run"] /\ cfg' = [cfg EXCEPT ![x] = cfg[x]]
      /\ "run" \in Stages \ {"load", "write"} /\ keys' \in 0..MaxKeys
  BY <1>1, TypeParts DEF Stages
<1>5. RunsOn(x, "run", cfg[x])
  BY <1>1, <1>3, <1>4 DEF RunsOn
<1> QED
  BY <1>5, RunTypes

\* n
LEMMA ToggleNotifyTypes == ASSUME TypeInv, NEW x \in Progs, ToggleNotify(x) PROVE TypeInv'
<1> DEFINE c == [cfg[x] EXCEPT !.quiet = ~@]
<1>1. /\ pc[x] = "run" /\ keys < MaxKeys /\ keys' = keys + 1
      /\ pc' = [pc EXCEPT ![x] = "open"] /\ then' = [then EXCEPT ![x] = "run"]
      /\ cfg' = [cfg EXCEPT ![x] = c] /\ live' = [live EXCEPT ![x].quiet = ~cfg[x].quiet]
      /\ UNCHANGED <<at, content, mode, shown, probed, fd, saved, met, made, starts>>
  BY DEF ToggleNotify, Key, Save, diskVars, history
<1>2. c \in Configs /\ c.id = cfg[x].id
  <2>1. cfg[x] \in Configs
    BY TypeParts
  <2> QED
    BY ONLY <2>1 DEF Configs
<1> HIDE DEF c
<1>3. live' \in [Progs -> Lives]
  BY <1>1, FlagEdit, TypeParts DEF ServiceTypes
<1>4. ServiceTypes'
  BY <1>1, <1>3, TypeParts DEF ServiceTypes
<1>5. "open" \in Stages \ {"load", "write"} /\ keys' \in 0..MaxKeys
  BY <1>1, TypeParts DEF Stages, Saving
<1>6. RunsOn(x, "open", c)
  BY <1>1, <1>2, <1>4, <1>5 DEF RunsOn
<1> QED
  BY <1>6, RunTypes

\* i
LEMMA ToggleIconsTypes == ASSUME TypeInv, NEW x \in Progs, ToggleIcons(x) PROVE TypeInv'
<1>1. /\ pc[x] = "run" /\ keys < MaxKeys /\ keys' = keys + 1
      /\ pc' = [pc EXCEPT ![x] = "open"] /\ then' = [then EXCEPT ![x] = "run"]
      /\ UNCHANGED <<at, content, mode, cfg, shown, live, probed, fd, saved, met, made, starts>>
  BY DEF ToggleIcons, Key, Save, diskVars, history, progVars
<1>2. ServiceTypes'
  BY <1>1, TypeParts DEF ServiceTypes
<1>3. /\ cfg[x] \in Configs /\ cfg' = [cfg EXCEPT ![x] = cfg[x]]
      /\ "open" \in Stages \ {"load", "write"} /\ keys' \in 0..MaxKeys
  BY <1>1, TypeParts DEF Stages, Saving
<1>4. RunsOn(x, "open", cfg[x])
  BY <1>1, <1>2, <1>3 DEF RunsOn
<1> QED
  BY <1>4, RunTypes

\* saveEdit
LEMMA SaveEditTypes ==
  ASSUME TypeInv, NEW x \in Progs, NEW form \in Forms, SaveEdit(x, form) PROVE TypeInv'
<1> DEFINE c == [cfg[x] EXCEPT !.form = form]
<1>1. /\ pc[x] = "run" /\ keys < MaxKeys /\ keys' = keys + 1
      /\ pc' = [pc EXCEPT ![x] = "open"] /\ then' = [then EXCEPT ![x] = "apply"]
      /\ cfg' = [cfg EXCEPT ![x] = c]
      /\ UNCHANGED <<at, content, mode, shown, live, probed, fd, saved, met, made, starts>>
  BY DEF SaveEdit, Key, Save, diskVars, history
<1>2. c \in Configs /\ c.id = cfg[x].id
  BY TypeParts DEF Configs
<1> HIDE DEF c
<1>3. ServiceTypes'
  BY <1>1, TypeParts DEF ServiceTypes
<1>4. "open" \in Stages \ {"load", "write"} /\ keys' \in 0..MaxKeys
  BY <1>1, TypeParts DEF Stages, Saving
<1>5. RunsOn(x, "open", c)
  BY <1>1, <1>2, <1>3, <1>4 DEF RunsOn
<1> QED
  BY <1>5, RunTypes

\* updateAddPeer
LEMMA AddPeerTypes ==
  ASSUME TypeInv, NEW x \in Progs, NEW h \in Hosts, AddPeer(x, h) PROVE TypeInv'
<1> DEFINE c == [cfg[x] EXCEPT !.known = @ \cup {h}]
<1>1. /\ pc[x] = "run" /\ keys < MaxKeys /\ keys' = keys + 1
      /\ UNCHANGED <<at, content, mode, shown, live, probed, fd, saved, met, made, starts>>
  BY DEF AddPeer, Key, diskVars, history
<1>2. keys' \in 0..MaxKeys
  BY <1>1, TypeParts
<1>3. CASE h \in cfg[x].known
  <2>1. UNCHANGED <<cfg, pc, then>>
    BY <1>3 DEF AddPeer
  <2>2. ServiceTypes'
    BY <1>1, <2>1, TypeParts DEF ServiceTypes
  <2>3. /\ cfg[x] \in Configs /\ cfg' = [cfg EXCEPT ![x] = cfg[x]] /\ pc' = [pc EXCEPT ![x] = "run"]
        /\ "run" \in Stages \ {"load", "write"}
    BY <1>1, <2>1, TypeParts DEF Stages
  <2>4. RunsOn(x, "run", cfg[x])
    BY <1>1, <1>2, <2>2, <2>3 DEF RunsOn
  <2> QED
    BY <2>4, RunTypes
<1>4. CASE h \notin cfg[x].known
  <2>1. /\ pc' = [pc EXCEPT ![x] = "open"] /\ then' = [then EXCEPT ![x] = h]
        /\ cfg' = [cfg EXCEPT ![x] = c]
    BY <1>4 DEF AddPeer, Save
  <2>2. c \in Configs /\ c.id = cfg[x].id
    BY TypeParts DEF Configs
  <2> HIDE DEF c
  <2>3. ServiceTypes'
    BY <1>1, <2>1, TypeParts DEF ServiceTypes
  <2>4. "open" \in Stages \ {"load", "write"}
    BY DEF Stages, Saving
  <2>5. RunsOn(x, "open", c)
    BY <1>1, <1>2, <2>1, <2>2, <2>3, <2>4 DEF RunsOn
  <2> QED
    BY <2>5, RunTypes
<1> QED
  BY <1>3, <1>4

\* SetAlias, SetReceiveDir and SetPIN
LEMMA ApplyEditTypes == ASSUME TypeInv, NEW x \in Progs, ApplyEdit(x) PROVE TypeInv'
<1>1. /\ pc[x] = "apply" /\ pc' = [pc EXCEPT ![x] = "run"] /\ live' = [live EXCEPT ![x].form = cfg[x].form]
      /\ UNCHANGED <<at, content, mode, cfg, shown, probed, fd, then, saved, met, made, starts, keys>>
  BY DEF ApplyEdit, Goto, diskVars, history, bounds
<1>2. cfg[x] \in Configs /\ cfg[x].form \in Forms
  BY TypeParts DEF Configs
<1>3. live' \in [Progs -> Lives]
  BY <1>1, <1>2, TypeParts DEF ServiceTypes, Lives
<1>4. ServiceTypes'
  BY <1>1, <1>3, TypeParts DEF ServiceTypes
<1>5. cfg' = [cfg EXCEPT ![x] = cfg[x]] /\ "run" \in Stages \ {"load", "write"} /\ keys' \in 0..MaxKeys
  BY <1>1, TypeParts DEF Stages
<1>6. RunsOn(x, "run", cfg[x])
  BY <1>1, <1>2, <1>4, <1>5 DEF RunsOn
<1> QED
  BY <1>6, RunTypes

\* AddKnownPeer
LEMMA ProbeTypes == ASSUME TypeInv, NEW x \in Progs, Probe(x) PROVE TypeInv'
<1>1. /\ pc[x] \in Hosts /\ pc' = [pc EXCEPT ![x] = "run"]
      /\ probed' = [probed EXCEPT ![x] = @ \cup {pc[x]}]
      /\ UNCHANGED <<at, content, mode, cfg, shown, live, fd, then, saved, met, made, starts, keys>>
  BY DEF Probe, Goto, diskVars, history, bounds
<1>2. ServiceTypes'
  BY <1>1, TypeParts DEF ServiceTypes
<1>3. /\ cfg[x] \in Configs /\ cfg' = [cfg EXCEPT ![x] = cfg[x]]
      /\ "run" \in Stages \ {"load", "write"} /\ keys' \in 0..MaxKeys /\ pc[x] \notin {"off", "load", "write"}
  BY <1>1, TypeParts DEF Stages
<1>4. RunsOn(x, "run", cfg[x])
  BY <1>1, <1>2, <1>3 DEF RunsOn
<1> QED
  BY <1>4, RunTypes

\* Every step keeps the types.
LEMMA TypeStep == TypeInv /\ [Next]_cvars => TypeInv'
<1> SUFFICES ASSUME TypeInv, [Next]_cvars PROVE TypeInv'
  OBVIOUS
<1>1. ASSUME NEW x \in Progs, LoadTorn(x) \/ LoadFails(x) \/ Stop(x) \/ ApplyPanics(x) PROVE TypeInv'
  <2>1. Exit(x) /\ UNCHANGED <<diskVars, history, made, bounds>>
    BY <1>1 DEF LoadTorn, LoadFails, Stop, ApplyPanics
  <2> QED
    BY <2>1, ExitTypes
<1>2. CASE UNCHANGED cvars
  BY <1>2 DEF cvars, diskVars, progVars, history, bounds, TypeInv, SettingsTypeOK, Shape, Counted, AtLoad
<1> QED
  BY <1>1, <1>2, OpenTmpTypes, WriteTmpTypes, RenameTypes, SaveFailsTypes, StartTypes, LoadOKTypes, ReadyTypes,
     ToggleAutoTypes, ToggleNotifyTypes, ToggleIconsTypes, SaveEditTypes, AddPeerTypes, ApplyEditTypes,
     ProbeTypes DEF Next

\* Types hold whatever programs overlap.
LEMMA TypeAlways == Spec => []TypeInv
  BY TypeInit, TypeStep, PTL DEF Spec

-----------------------------------------------------------------------------
(* What the services go by *)

\* A step of one program is none of the others.
SameProg(y) ==
  /\ pc'[y] = pc[y] /\ then'[y] = then[y] /\ mode'[y] = mode[y] /\ cfg'[y] = cfg[y]
  /\ shown'[y] = shown[y] /\ live'[y] = live[y] /\ probed'[y] = probed[y]

\* They go by what they did.
LEMMA SameFollows == ASSUME NEW y \in Progs, FollowsAt(y), SameProg(y) PROVE FollowsAt(y)'
  BY DEF FollowsAt, SameProg, Stage, HasServer

\* The functions of the state are functions of the programs.
LEMMA Functional ==
  ASSUME TypeInv
  PROVE  /\ pc \in [Progs -> Stages] /\ cfg \in [Progs -> Configs]
         /\ then \in [Progs -> {"ready", "run", "apply"} \cup Hosts]
         /\ mode \in [Progs -> {"tui", "quick", "headless"}] /\ shown \in [Progs -> BOOLEAN]
         /\ live \in [Progs -> Lives] /\ probed \in [Progs -> SUBSET Hosts]
  BY TypeParts DEF ServiceTypes

\* The steps of a save, successful or not, do not change where it goes on.
LEMMA SaveFollows ==
  ASSUME TypeInv, NEW x \in Progs, FollowsAt(x), OpenTmp(x) \/ WriteTmp(x) \/ Rename(x) \/ SaveFails(x)
  PROVE  FollowsAt(x)' /\ \A y \in Progs \ {x} : SameProg(y)
<1>1. /\ pc[x] \in Saving /\ UNCHANGED <<mode, cfg, shown, live, probed, then>>
      /\ \E next \in {"write", "rename", then[x]} : pc' = [pc EXCEPT ![x] = next]
  BY DEF OpenTmp, WriteTmp, Rename, SaveFails, Goto, Saving, progVars
<1>2. pc \in [Progs -> Stages] /\ then[x] \in {"ready", "run", "apply"} \cup Hosts
  BY Functional
<1>3. pc'[x] \in {"write", "rename", then[x]} /\ \A y \in Progs \ {x} : pc'[y] = pc[y]
  BY <1>1, <1>2
<1>4. Stage(x) = then[x] /\ Stage(x)' = then[x]
  BY <1>1, <1>2, <1>3 DEF Stage, Saving
<1> QED
  BY <1>1, <1>3, <1>4 DEF FollowsAt, SameProg, HasServer

\* main hands on what it shows.
LEMMA ReadyFollows ==
  ASSUME TypeInv, NEW x \in Progs, NEW form \in Forms, NEW auto \in BOOLEAN, NEW hush \in BOOLEAN,
         Ready(x, form, auto, hush)
  PROVE  FollowsAt(x)' /\ \A y \in Progs \ {x} : SameProg(y)
<1> DEFINE c == [cfg[x] EXCEPT !.form = form, !.auto = @ \/ auto, !.quiet = @ \/ hush]
<1>1. /\ pc' = [pc EXCEPT ![x] = "run"] /\ cfg' = [cfg EXCEPT ![x] = c]
      /\ shown' = [shown EXCEPT ![x] = c.auto]
      /\ live' = [live EXCEPT ![x] = [form |-> c.form, auto |-> c.auto, quiet |-> c.quiet]]
      /\ probed' = [probed EXCEPT ![x] = c.known] /\ UNCHANGED <<mode, then>>
  BY DEF Ready, Goto
<1> HIDE DEF c
<1>2. /\ pc'[x] = "run" /\ cfg'[x] = c /\ shown'[x] = c.auto /\ probed'[x] = c.known
      /\ live'[x].form = c.form /\ live'[x].auto = c.auto /\ live'[x].quiet = c.quiet
  BY <1>1, Functional
<1>3. Stage(x)' = "run"
  BY <1>2 DEF Stage, Saving
<1>4. FollowsAt(x)'
  BY <1>2, <1>3 DEF FollowsAt
<1>5. \A y \in Progs \ {x} : SameProg(y)
  BY <1>1, Functional DEF SameProg
<1> QED
  BY <1>4, <1>5

\* a: the server is told what the tab shows from now on.
LEMMA ToggleAutoFollows ==
  ASSUME TypeInv, NEW x \in Progs, FollowsAt(x), ToggleAuto(x)
  PROVE  FollowsAt(x)' /\ \A y \in Progs \ {x} : SameProg(y)
<1>1. /\ pc[x] = "run" /\ shown' = [shown EXCEPT ![x] = ~@]
      /\ live' = (IF HasServer(x) THEN [live EXCEPT ![x].auto = ~shown[x]] ELSE live)
      /\ UNCHANGED <<pc, mode, cfg, probed, then>>
  BY DEF ToggleAuto, Key
<1>2. \A y \in Progs \ {x} : SameProg(y)
  BY <1>1, Functional DEF SameProg
<1>3. Stage(x) = "run" /\ Stage(x)' = "run"
  BY <1>1 DEF Stage, Saving
<1>4. ASSUME HasServer(x)
      PROVE  /\ live'[x].auto = shown'[x]
             /\ live'[x].form = live[x].form /\ live'[x].quiet = live[x].quiet
  <2> DEFINE b == ~shown[x]
  <2>1. shown' = [shown EXCEPT ![x] = b] /\ live' = [live EXCEPT ![x].auto = b]
    BY <1>1, <1>4
  <2> HIDE DEF b
  <2> QED
    BY <2>1, Functional DEF Lives
<1> QED
  BY <1>1, <1>2, <1>3, <1>4 DEF FollowsAt, HasServer

\* n: the gate is told before the save.
LEMMA ToggleNotifyFollows ==
  ASSUME TypeInv, NEW x \in Progs, FollowsAt(x), ToggleNotify(x)
  PROVE  FollowsAt(x)' /\ \A y \in Progs \ {x} : SameProg(y)
<1> DEFINE b == ~cfg[x].quiet
<1>1. /\ pc[x] = "run" /\ pc' = [pc EXCEPT ![x] = "open"] /\ then' = [then EXCEPT ![x] = "run"]
      /\ cfg' = [cfg EXCEPT ![x].quiet = b] /\ live' = [live EXCEPT ![x].quiet = b]
      /\ UNCHANGED <<mode, shown, probed>>
  BY DEF ToggleNotify, Key, Save
<1> HIDE DEF b
<1>2. \A y \in Progs \ {x} : SameProg(y)
  BY <1>1, Functional DEF SameProg
<1>3. Stage(x) = "run" /\ Stage(x)' = "run"
  BY <1>1, Functional DEF Stage, Saving
<1>4. /\ cfg'[x].quiet = b /\ live'[x].quiet = b
      /\ cfg'[x].form = cfg[x].form /\ cfg'[x].known = cfg[x].known
      /\ live'[x].form = live[x].form /\ live'[x].auto = live[x].auto
  BY <1>1, Functional DEF Lives, Configs
<1> QED
  BY <1>1, <1>2, <1>3, <1>4 DEF FollowsAt, HasServer

\* i
LEMMA ToggleIconsFollows ==
  ASSUME TypeInv, NEW x \in Progs, FollowsAt(x), ToggleIcons(x)
  PROVE  FollowsAt(x)' /\ \A y \in Progs \ {x} : SameProg(y)
<1>1. /\ pc[x] = "run" /\ pc' = [pc EXCEPT ![x] = "open"] /\ then' = [then EXCEPT ![x] = "run"]
      /\ UNCHANGED <<mode, cfg, shown, live, probed>>
  BY DEF ToggleIcons, Key, Save, progVars
<1>2. \A y \in Progs \ {x} : SameProg(y)
  BY <1>1, Functional DEF SameProg
<1>3. Stage(x) = "run" /\ Stage(x)' = "run"
  BY <1>1, Functional DEF Stage, Saving
<1> QED
  BY <1>1, <1>2, <1>3 DEF FollowsAt, HasServer

\* saveEdit: what is saved is yet to be applied,
LEMMA SaveEditFollows ==
  ASSUME TypeInv, NEW x \in Progs, FollowsAt(x), NEW form \in Forms, SaveEdit(x, form)
  PROVE  FollowsAt(x)' /\ \A y \in Progs \ {x} : SameProg(y)
<1>1. /\ pc[x] = "run" /\ pc' = [pc EXCEPT ![x] = "open"] /\ then' = [then EXCEPT ![x] = "apply"]
      /\ cfg' = [cfg EXCEPT ![x].form = form] /\ UNCHANGED <<mode, shown, live, probed>>
  BY DEF SaveEdit, Key, Save
<1>2. \A y \in Progs \ {x} : SameProg(y)
  BY <1>1, Functional DEF SameProg
<1>3. Stage(x) = "run" /\ Stage(x)' = "apply"
  BY <1>1, Functional DEF Stage, Saving
<1>4. cfg'[x].quiet = cfg[x].quiet /\ cfg'[x].known = cfg[x].known
  BY <1>1, Functional DEF Configs
<1> QED
  BY <1>1, <1>2, <1>3, <1>4 DEF FollowsAt, HasServer

\* and then is.
LEMMA ApplyEditFollows ==
  ASSUME TypeInv, NEW x \in Progs, FollowsAt(x), ApplyEdit(x)
  PROVE  FollowsAt(x)' /\ \A y \in Progs \ {x} : SameProg(y)
<1>1. /\ pc[x] = "apply" /\ pc' = [pc EXCEPT ![x] = "run"] /\ live' = [live EXCEPT ![x].form = cfg[x].form]
      /\ UNCHANGED <<mode, cfg, shown, probed, then>>
  BY DEF ApplyEdit, Goto
<1>2. \A y \in Progs \ {x} : SameProg(y)
  BY <1>1, Functional DEF SameProg
<1>3. Stage(x) = "apply" /\ Stage(x)' = "run"
  BY <1>1, Functional DEF Stage, Saving
<1>4. live'[x].form = cfg[x].form /\ live'[x].auto = live[x].auto /\ live'[x].quiet = live[x].quiet
  BY <1>1, Functional DEF Lives
<1>5. "apply" \notin Hosts /\ "run" \notin Hosts
  OBVIOUS
<1> QED
  BY <1>1, <1>2, <1>3, <1>4, <1>5 DEF FollowsAt, HasServer

\* updateAddPeer: a host that is saved is yet to be probed,
LEMMA AddPeerFollows ==
  ASSUME TypeInv, NEW x \in Progs, FollowsAt(x), NEW h \in Hosts, AddPeer(x, h)
  PROVE  FollowsAt(x)' /\ \A y \in Progs \ {x} : SameProg(y)
<1>1. pc[x] = "run" /\ UNCHANGED <<mode, shown, live, probed>>
  BY DEF AddPeer, Key
<1>2. CASE h \in cfg[x].known
  BY <1>1, <1>2 DEF AddPeer, FollowsAt, SameProg, Stage, HasServer
<1>3. CASE h \notin cfg[x].known
  <2>1. /\ pc' = [pc EXCEPT ![x] = "open"] /\ then' = [then EXCEPT ![x] = h]
        /\ cfg' = [cfg EXCEPT ![x].known = @ \cup {h}]
    BY <1>3 DEF AddPeer, Save
  <2>2. \A y \in Progs \ {x} : SameProg(y)
    BY <1>1, <2>1, Functional DEF SameProg
  <2>3. Stage(x) = "run" /\ Stage(x)' = h
    BY <1>1, <2>1, Functional DEF Stage, Saving
  <2>4. /\ cfg'[x].form = cfg[x].form /\ cfg'[x].quiet = cfg[x].quiet
        /\ cfg'[x].known = cfg[x].known \cup {h}
    BY <2>1, Functional DEF Configs
  <2>5. "run" \notin Hosts
    OBVIOUS
  <2> QED
    BY <1>1, <2>2, <2>3, <2>4, <2>5 DEF FollowsAt, HasServer
<1> QED
  BY <1>2, <1>3

\* and then is.
LEMMA ProbeFollows ==
  ASSUME TypeInv, NEW x \in Progs, FollowsAt(x), Probe(x)
  PROVE  FollowsAt(x)' /\ \A y \in Progs \ {x} : SameProg(y)
<1>1. /\ pc[x] \in Hosts /\ pc' = [pc EXCEPT ![x] = "run"] /\ probed' = [probed EXCEPT ![x] = @ \cup {pc[x]}]
      /\ UNCHANGED <<mode, cfg, shown, live, then>>
  BY DEF Probe, Goto
<1>2. \A y \in Progs \ {x} : SameProg(y)
  BY <1>1, Functional DEF SameProg
<1>3. Stage(x) = pc[x] /\ Stage(x)' = "run"
  BY <1>1, Functional DEF Stage, Saving
<1>4. probed'[x] = probed[x] \cup {pc[x]} /\ pc[x] # "apply" /\ "run" \notin Hosts
  BY <1>1, Functional
<1> QED
  BY <1>1, <1>2, <1>3, <1>4 DEF FollowsAt, HasServer

\* A program that starts, loads or ends.
LEMMA OutsideFollows ==
  ASSUME TypeInv, NEW x \in Progs,
         Exit(x) \/ LoadOK(x) \/ \E how \in {"tui", "quick", "headless"} : Start(x, how)
  PROVE  FollowsAt(x)' /\ \A y \in Progs \ {x} : SameProg(y)
<1>1. \A y \in Progs \ {x} : SameProg(y)
  BY Functional DEF SameProg, Exit, LoadOK, Start, Goto
<1>2. Stage(x)' \in {"off", "load", "ready"}
  BY Functional DEF Stage, Saving, Exit, LoadOK, Start, Goto
<1>3. FollowsAt(x)'
  <2>1. Stage(x)' \notin {"run", "apply"} \cup Hosts
    BY <1>2
  <2> QED
    BY <2>1 DEF FollowsAt
<1> QED
  BY <1>1, <1>3

\* Every step keeps the services of every program in accord with it.
LEMMA FollowsStep == TypeInv /\ Follows /\ [Next]_cvars => Follows'
<1> SUFFICES ASSUME TypeInv, Follows, [Next]_cvars PROVE Follows'
  OBVIOUS
<1>1. ASSUME NEW x \in Progs, FollowsAt(x)', \A y \in Progs \ {x} : SameProg(y) PROVE Follows'
  BY <1>1, SameFollows DEF Follows
<1>2. ASSUME NEW x \in Progs, LoadTorn(x) \/ LoadFails(x) \/ Stop(x) \/ ApplyPanics(x) PROVE Follows'
  <2>1. Exit(x)
    BY <1>2 DEF LoadTorn, LoadFails, Stop, ApplyPanics
  <2> QED
    BY <1>1, <2>1, OutsideFollows
<1>3. CASE UNCHANGED cvars
  BY <1>3 DEF cvars, progVars, Follows, FollowsAt, Stage, HasServer
<1>4. \A x \in Progs : FollowsAt(x)
  BY DEF Follows
<1> QED
  BY <1>1, <1>2, <1>3, <1>4, SaveFollows, OutsideFollows, ReadyFollows, ToggleAutoFollows, ToggleNotifyFollows,
     ToggleIconsFollows, SaveEditFollows, ApplyEditFollows, AddPeerFollows, ProbeFollows DEF Next

\* At first no program has anything to follow.
LEMMA FollowsInit == Init => Follows
<1> SUFFICES ASSUME Init, NEW x \in Progs PROVE FollowsAt(x)
  BY DEF Follows
<1>1. Stage(x) = "off"
  BY DEF Init, Stage, Saving
<1>2. Stage(x) \notin {"run", "apply"} \cup Hosts
  BY <1>1
<1> QED
  BY <1>2 DEF FollowsAt

\* Every variable stays in its domain, and a program has its file open exactly
\* between the open and the write of a save, whatever programs overlap.
THEOREM SettingsTypeCorrect == Spec => []SettingsTypeOK
<1>1. TypeInv => SettingsTypeOK
  BY DEF TypeInv
<1> QED
  BY <1>1, TypeAlways, PTL

\* Between two keys the server, the notification gate and the watcher of a
\* program go by what its Settings tab shows, whatever programs overlap.
THEOREM ShownIsFollowed == Spec => []ShownIsLive
<1>1. TypeInv /\ Follows => ShownIsLive
  <2> SUFFICES ASSUME TypeInv, Follows, NEW x \in Progs, pc[x] = "run", HasServer(x)
               PROVE  /\ live[x] = [form |-> cfg[x].form, auto |-> shown[x], quiet |-> cfg[x].quiet]
                      /\ probed[x] = cfg[x].known
    BY DEF ShownIsLive
  <2>1. Stage(x) = "run" /\ "run" \notin Hosts
    BY DEF Stage, Saving
  <2>2. /\ live[x].form = cfg[x].form /\ live[x].auto = shown[x] /\ live[x].quiet = cfg[x].quiet
        /\ probed[x] = cfg[x].known
    BY <2>1 DEF Follows, FollowsAt
  <2>3. live[x] \in Lives
    BY Functional
  <2>4. live[x] = [form |-> live[x].form, auto |-> live[x].auto, quiet |-> live[x].quiet]
    BY <2>3 DEF Lives
  <2> QED
    BY <2>2, <2>4
<1>2. Spec => []Follows
  BY TypeAlways, FollowsInit, FollowsStep, PTL DEF Spec
<1> QED
  BY <1>1, <1>2, TypeAlways, PTL

-----------------------------------------------------------------------------
(* The file, while programs load and save one after the other *)

Ordered == TypeInv /\ Alone /\ SaveWhole /\ OneIdentity

\* A step of x leaves the other programs as they are.
OnlyMoves(x) == \A y \in Progs \ {x} : SameProg(y) /\ fd'[y] = fd[y]

\* A step of x that leaves the file alone, and is in no save afterwards that
\* has begun.
KeepsFile(x) == /\ UNCHANGED <<at, content, saved>> /\ OnlyMoves(x)
                /\ pc'[x] \notin {"write", "rename"}

\* A step of x that changes no identity.
KeepsIdentity(x) ==
  /\ UNCHANGED <<saved, met>> /\ OnlyMoves(x)
  /\ pc'[x] \notin {"off", "load"} =>
       /\ pc[x] \notin {"off", "load"} /\ cfg'[x].id = cfg[x].id
       /\ Stage(x)' = "ready" <=> Stage(x) = "ready"
       /\ pc'[x] = "ready" => pc[x] = "ready"

\* A step that leaves the file alone leaves it whole.
LEMMA KeptWhole ==
  ASSUME SaveWhole, NEW x \in Progs, KeepsFile(x) PROVE SaveWhole'
  BY DEF SaveWhole, EditsLast, KeepsFile, OnlyMoves, SameProg

\* A step that changes no identity leaves the one there is.
LEMMA KeptIdentity ==
  ASSUME OneIdentity, NEW x \in Progs, KeepsIdentity(x) PROVE OneIdentity'
<1>1. Identified' <=> Identified
  BY DEF KeepsIdentity, Identified
<1>2. \A y \in Progs \ {x} : Stage(y)' = Stage(y) /\ pc'[y] = pc[y] /\ cfg'[y] = cfg[y]
  BY DEF KeepsIdentity, OnlyMoves, SameProg, Stage
<1> QED
  BY <1>1, <1>2 DEF OneIdentity, KeepsIdentity

\* A program begins to load or to save only while no other does.
LEMMA AloneStep ==
  ASSUME ~Overlap, TypeInv, Alone, [Next]_cvars PROVE Alone'
<1> DEFINE Joins(x) == /\ \A y \in Progs \ {x} : pc'[y] = pc[y]
                       /\ pc'[x] \in Loading \cup Saving => Busy(x) \/ \A y \in Progs : ~Busy(y)
<1>1. pc \in [Progs -> Stages]
  BY Functional
<1>2. ASSUME NEW x \in Progs, Joins(x) PROVE Alone'
  BY <1>2 DEF Alone, Busy
<1>3. ASSUME Calm PROVE \A y \in Progs : ~Busy(y)
  BY <1>3 DEF Calm, Busy
<1>4. ASSUME NEW x \in Progs, NEW next, pc' = [pc EXCEPT ![x] = next], Busy(x) \/ Calm PROVE Alone'
  <2>1. Joins(x)
    BY <1>1, <1>3, <1>4
  <2> QED
    BY <1>2, <2>1
<1>5. ASSUME NEW x \in Progs, NEW next \in {"off", "run"}, pc' = [pc EXCEPT ![x] = next] PROVE Alone'
  <2>1. Joins(x)
    BY <1>1, <1>5 DEF Loading, Saving
  <2> QED
    BY <1>2, <2>1
<1>6. ASSUME NEW x \in Progs, LoadTorn(x) \/ LoadFails(x) \/ Stop(x) \/ ApplyPanics(x) PROVE Alone'
  BY <1>5, <1>6 DEF LoadTorn, LoadFails, Stop, ApplyPanics, Exit
<1>7. ASSUME NEW x \in Progs, LoadOK(x) \/ OpenTmp(x) \/ WriteTmp(x) \/ Rename(x) \/ SaveFails(x) PROVE Alone'
  BY <1>4, <1>7 DEF LoadOK, OpenTmp, WriteTmp, Rename, SaveFails, Goto, Busy, Loading, Saving
<1>8. ASSUME NEW x \in Progs, NEW how \in {"tui", "quick", "headless"}, Start(x, how) PROVE Alone'
  BY <1>4, <1>8 DEF Start, Goto
<1>9. ASSUME NEW x \in Progs, NEW form \in Forms, NEW auto \in BOOLEAN, NEW hush \in BOOLEAN,
         Ready(x, form, auto, hush) PROVE Alone'
  BY <1>5, <1>9 DEF Ready, Goto
<1>10. ASSUME NEW x \in Progs, ToggleNotify(x) \/ ToggleIcons(x) \/ \E form \in Forms : SaveEdit(x, form)
       PROVE  Alone'
  BY <1>4, <1>10 DEF ToggleNotify, ToggleIcons, SaveEdit, Key, Save
<1>11. ASSUME NEW x \in Progs, ApplyEdit(x) \/ Probe(x) PROVE Alone'
  BY <1>5, <1>11 DEF ApplyEdit, Probe, Goto
<1>12. ASSUME NEW x \in Progs, NEW h \in Hosts, AddPeer(x, h) PROVE Alone'
  <2>1. CASE pc' = pc
    BY <2>1 DEF Alone, Busy
  <2>2. CASE Save(x, h)
    BY <1>4, <1>12, <2>2 DEF AddPeer, Key, Save
  <2> QED
    BY <1>12, <2>1, <2>2 DEF AddPeer
<1>13. ASSUME NEW x \in Progs, ToggleAuto(x) PROVE Alone'
  BY <1>13 DEF ToggleAuto, Alone, Busy
<1>14. CASE UNCHANGED cvars
  BY <1>14 DEF cvars, Alone, Busy
<1> QED
  BY <1>6, <1>7, <1>8, <1>9, <1>10, <1>11, <1>12, <1>13, <1>14 DEF Next

\* The temporary file is another one than config.json.
LEMMA OpenTmpOrder ==
  ASSUME Ordered, NEW x \in Progs, OpenTmp(x) PROVE SaveWhole' /\ OneIdentity'
<1> DEFINE i == IF at.tmp = None THEN Unused ELSE at.tmp
<1>1. /\ pc[x] = "open" /\ pc' = [pc EXCEPT ![x] = "write"]
      /\ at' = [at EXCEPT !.tmp = i] /\ fd' = [fd EXCEPT ![x] = i]
      /\ content' = [content EXCEPT ![i] = Torn]
      /\ UNCHANGED <<mode, cfg, shown, live, probed, then, saved, met>>
  BY DEF OpenTmp, Goto, progVars, history
<1>2. i \in Inodes /\ (at.file # None => i # at.file)
  <2>1. at.tmp = None => Unused \in Inodes \ Linked
    BY UnusedIsFree DEF Ordered, TypeInv
  <2> QED
    BY <2>1, TypeParts DEF DiskTypes, Ordered, SaveWhole, Linked
<1> HIDE DEF i
<1>3. pc \in [Progs -> Stages] /\ fd \in [Progs -> Inodes \cup {None}] /\ None \notin Inodes
      /\ at \in [file : Inodes \cup {None}, tmp : Inodes \cup {None}]
      /\ content \in [Inodes -> Configs \cup {Torn}]
  BY TypeParts DEF Ordered, DiskTypes
<1>4. OnlyMoves(x) /\ pc'[x] = "write" /\ fd'[x] = i
  BY <1>1, <1>3 DEF OnlyMoves, SameProg
<1>5. at'.file = at.file /\ at'.tmp = i /\ content'[i] = Torn /\ (at.file # None => content'[at.file] = content[at.file])
  BY <1>1, <1>2, <1>3
<1>6. \A y \in Progs \ {x} : pc'[y] \notin {"write", "rename"}
  BY <1>1, <1>4 DEF Ordered, Alone, Busy, OnlyMoves, SameProg, Saving
<1>7. SaveWhole'
  <2>1. EditsLast' /\ (at'.file # None => at'.file # at'.tmp)
    BY <1>1, <1>2, <1>5 DEF Ordered, SaveWhole, EditsLast
  <2> QED
    BY <1>2, <1>3, <1>4, <1>5, <1>6, <2>1 DEF SaveWhole
<1>8. KeepsIdentity(x)
  <2>1. Stage(x)' = Stage(x)
    BY <1>1, <1>4 DEF Stage, Saving
  <2> QED
    BY <1>1, <1>4, <2>1 DEF KeepsIdentity
<1> QED
  BY <1>7, <1>8, KeptIdentity DEF Ordered

\* What is written is whole: nobody else wrote to the file.
LEMMA WriteTmpOrder ==
  ASSUME Ordered, NEW x \in Progs, WriteTmp(x) PROVE SaveWhole' /\ OneIdentity'
<1>1. /\ pc[x] = "write" /\ pc' = [pc EXCEPT ![x] = "rename"] /\ fd' = [fd EXCEPT ![x] = None]
      /\ UNCHANGED <<at, mode, cfg, shown, live, probed, then, saved, met>>
  BY DEF WriteTmp, Goto, progVars, history
<1>2. at.tmp # None /\ fd[x] = at.tmp /\ content[at.tmp] = Torn
  BY <1>1 DEF Ordered, SaveWhole
<1>3. content' = [content EXCEPT ![at.tmp] = cfg[x]]
  BY <1>2 DEF WriteTmp
<1>4. pc \in [Progs -> Stages] /\ fd \in [Progs -> Inodes \cup {None}]
      /\ at \in [file : Inodes \cup {None}, tmp : Inodes \cup {None}]
      /\ content \in [Inodes -> Configs \cup {Torn}]
  BY TypeParts DEF Ordered, DiskTypes
<1>5. OnlyMoves(x) /\ pc'[x] = "rename"
  BY <1>1, <1>4 DEF OnlyMoves, SameProg
<1>6. content'[at.tmp] = cfg[x] /\ (at.file # None => content'[at.file] = content[at.file])
  BY <1>2, <1>3, <1>4 DEF Ordered, SaveWhole
<1>7. \A y \in Progs \ {x} : pc'[y] \notin {"write", "rename"}
  BY <1>1, <1>5 DEF Ordered, Alone, Busy, OnlyMoves, SameProg, Saving
<1>8. SaveWhole'
  <2>1. EditsLast' /\ (at'.file # None => at'.file # at'.tmp)
    BY <1>1, <1>6 DEF Ordered, SaveWhole, EditsLast
  <2> QED
    BY <1>1, <1>2, <1>5, <1>6, <1>7, <2>1 DEF SaveWhole
<1>9. KeepsIdentity(x)
  <2>1. Stage(x)' = Stage(x)
    BY <1>1, <1>5 DEF Stage, Saving
  <2> QED
    BY <1>1, <1>5, <2>1 DEF KeepsIdentity
<1> QED
  BY <1>8, <1>9, KeptIdentity DEF Ordered

\* The file changes in one step, to one with the identity it had.
LEMMA RenameOrder ==
  ASSUME Ordered, NEW x \in Progs, Rename(x) PROVE SaveWhole' /\ OneIdentity'
<1>1. /\ pc[x] = "rename" /\ pc' = [pc EXCEPT ![x] = then[x]] /\ saved' = cfg[x]
      /\ at' = [file |-> at.tmp, tmp |-> None]
      /\ content' = [i \in Inodes |-> IF i = at.file THEN Torn ELSE content[i]]
      /\ UNCHANGED <<mode, cfg, shown, live, probed, fd, then, met>>
  BY DEF Rename, Goto, progVars
<1>2. at.tmp # None /\ content[at.tmp] = cfg[x] /\ (at.file # None => at.file # at.tmp)
  BY <1>1 DEF Ordered, SaveWhole
<1>3. /\ pc \in [Progs -> Stages] /\ None \notin Inodes
      /\ at \in [file : Inodes \cup {None}, tmp : Inodes \cup {None}]
      /\ then[x] \in {"ready", "run", "apply"} \cup Hosts
      /\ cfg[x] \in Configs /\ cfg[x].id >= 1
  BY <1>1, TypeParts DEF Ordered, DiskTypes, ServiceTypes
<1>4. OnlyMoves(x) /\ pc'[x] = then[x] /\ then[x] \notin {"off", "load"} \cup Saving
  BY <1>1, <1>3 DEF OnlyMoves, SameProg, Saving
<1>5. \A y \in Progs \ {x} : ~Busy(y) /\ pc'[y] = pc[y] /\ cfg'[y] = cfg[y]
  BY <1>1, <1>4 DEF Ordered, Alone, Busy, OnlyMoves, SameProg, Saving
<1>6. at'.file = at.tmp /\ at'.file # None /\ at'.tmp = None /\ content'[at.tmp] = cfg[x]
  BY <1>1, <1>2, <1>3
<1>7. SaveWhole'
  <2>1. \A y \in Progs : pc'[y] \notin {"write", "rename"}
    BY <1>4, <1>5 DEF Busy, Saving
  <2> QED
    BY <1>1, <1>6, <2>1 DEF SaveWhole, EditsLast
<1>8. Identified'
  BY <1>1, <1>3 DEF Identified
<1>9. Identified => cfg[x].id = saved.id
  BY <1>1 DEF Ordered, OneIdentity
<1>10. ASSUME NEW y \in Progs, pc'[y] \notin {"off", "load"} PROVE cfg'[y].id = saved'.id
  <2>1. CASE y = x
    BY <1>1, <2>1
  <2>2. CASE y # x
    <3>1. Stage(y) = pc[y] /\ pc[y] # "ready" /\ pc[y] \notin {"off", "load"}
      BY <1>5, <1>10, <2>2 DEF Busy, Stage, Loading, Saving
    <3>2. Identified /\ cfg[y].id = saved.id
      BY <3>1 DEF Ordered, OneIdentity
    <3> QED
      BY <1>1, <1>5, <1>9, <2>2, <3>2
  <2> QED
    BY <2>1, <2>2
<1>11. met' # {} => met' = {saved'.id}
  BY <1>1, <1>9 DEF Ordered, OneIdentity
<1>12. OneIdentity'
  BY <1>8, <1>10, <1>11 DEF OneIdentity
<1> QED
  BY <1>7, <1>12

\* Load takes the identity of the file, if there is one.
LEMMA LoadOKOrder ==
  ASSUME Ordered, NEW x \in Progs, LoadOK(x) PROVE SaveWhole' /\ OneIdentity'
<1> DEFINE c == IF Stored.id = 0 THEN [Stored EXCEPT !.id = made + 1] ELSE Stored
<1>1. /\ pc[x] = "load" /\ pc' = [pc EXCEPT ![x] = "open"] /\ then' = [then EXCEPT ![x] = "ready"]
      /\ cfg' = [cfg EXCEPT ![x] = c]
      /\ UNCHANGED <<at, content, mode, shown, live, probed, fd, saved, met>>
  BY DEF LoadOK, Goto, diskVars, history
<1>2. Identified => c = saved
  <2>1. ASSUME Identified PROVE at.file # None /\ Stored = saved
    BY <2>1 DEF Ordered, SaveWhole, EditsLast, Identified, Stored
  <2> QED
    BY <2>1 DEF Identified
<1> HIDE DEF c
<1>3. /\ pc \in [Progs -> Stages] /\ cfg \in [Progs -> Configs]
      /\ then \in [Progs -> {"ready", "run", "apply"} \cup Hosts]
  BY Functional DEF Ordered
<1>4. OnlyMoves(x) /\ pc'[x] = "open" /\ then'[x] = "ready" /\ cfg'[x] = c
  BY <1>1, <1>3 DEF OnlyMoves, SameProg
<1>5. Stage(x)' = "ready"
  BY <1>4 DEF Stage, Saving
<1>6. (Identified' <=> Identified) /\ saved' = saved /\ met' = met
  BY <1>1 DEF Identified
<1>7. \A y \in Progs \ {x} : Stage(y)' = Stage(y) /\ pc'[y] = pc[y] /\ cfg'[y] = cfg[y]
  BY <1>4 DEF OnlyMoves, SameProg, Stage
<1>8. OneIdentity'
  BY <1>2, <1>4, <1>5, <1>6, <1>7 DEF Ordered, OneIdentity
<1>9. KeepsFile(x)
  BY <1>1, <1>4 DEF KeepsFile
<1> QED
  BY <1>8, <1>9, KeptWhole DEF Ordered

\* main answers with the identity that is in the file.
LEMMA ReadyOrder ==
  ASSUME Ordered, NEW x \in Progs, NEW form \in Forms, NEW auto \in BOOLEAN, NEW hush \in BOOLEAN,
         Ready(x, form, auto, hush)
  PROVE  SaveWhole' /\ OneIdentity'
<1> DEFINE c == [cfg[x] EXCEPT !.form = form, !.auto = @ \/ auto, !.quiet = @ \/ hush]
<1>1. /\ pc[x] = "ready" /\ pc' = [pc EXCEPT ![x] = "run"] /\ cfg' = [cfg EXCEPT ![x] = c]
      /\ met' = met \cup {c.id} /\ UNCHANGED <<at, content, fd, then, saved>>
  BY DEF Ready, Goto, diskVars
<1>2. c.id = cfg[x].id
  BY Functional DEF Ordered, Configs
<1> HIDE DEF c
<1>3. pc \in [Progs -> Stages] /\ cfg \in [Progs -> Configs]
  BY Functional DEF Ordered
<1>4. OnlyMoves(x)
  <2>1. \A y \in Progs \ {x} : SameProg(y)
    BY ReadyFollows DEF Ordered
  <2>2. fd' = fd
    BY <1>1
  <2> QED
    BY <2>1, <2>2 DEF OnlyMoves
<1>5. pc'[x] = "run" /\ cfg'[x].id = cfg[x].id
  BY <1>1, <1>2, <1>3
<1>6. Identified /\ cfg[x].id = saved.id
  BY <1>1 DEF Ordered, OneIdentity
<1>7. Identified' /\ saved' = saved /\ met' = {saved.id}
  BY <1>1, <1>2, <1>6 DEF Identified, Ordered, OneIdentity
<1>8. \A y \in Progs \ {x} : pc'[y] = pc[y] /\ cfg'[y] = cfg[y]
  BY <1>4 DEF OnlyMoves, SameProg
<1>9. OneIdentity'
  BY <1>5, <1>6, <1>7, <1>8 DEF Ordered, OneIdentity
<1>10. KeepsFile(x)
  BY <1>1, <1>4, <1>5 DEF KeepsFile
<1> QED
  BY <1>9, <1>10, KeptWhole DEF Ordered

\* The other steps change neither the file nor an identity.  A program ends or
\* starts,
LEMMA OutsideOrder ==
  ASSUME Ordered, NEW x \in Progs,
         Exit(x) \/ \E how \in {"tui", "quick", "headless"} : Start(x, how),
         UNCHANGED <<diskVars, history>>
  PROVE  SaveWhole' /\ OneIdentity'
<1>1. /\ pc \in [Progs -> Stages] /\ fd \in [Progs -> Inodes \cup {None}]
  BY TypeParts DEF Ordered
<1>2. OnlyMoves(x)
  BY <1>1, Functional DEF Ordered, OnlyMoves, SameProg, Exit, Start, Goto
<1>3. pc'[x] \in {"off", "load"}
  BY <1>1 DEF Exit, Start, Goto
<1>4. KeepsFile(x)
  BY <1>2, <1>3 DEF KeepsFile, diskVars, history
<1>5. KeepsIdentity(x)
  BY <1>2, <1>3 DEF KeepsIdentity, history
<1> QED
  BY <1>4, <1>5, KeptWhole, KeptIdentity DEF Ordered

\* fails to save,
LEMMA SaveFailsOrder ==
  ASSUME Ordered, NEW x \in Progs, SaveFails(x) PROVE SaveWhole' /\ OneIdentity'
<1>1. /\ pc[x] \in Saving /\ then[x] # "ready" /\ pc' = [pc EXCEPT ![x] = then[x]]
      /\ fd' = [fd EXCEPT ![x] = None]
      /\ UNCHANGED <<at, content, mode, cfg, shown, live, probed, then, saved, met>>
  BY DEF SaveFails, diskVars, progVars, history
<1>2. pc \in [Progs -> Stages] /\ fd \in [Progs -> Inodes \cup {None}]
      /\ then[x] \in {"run", "apply"} \cup Hosts
  BY <1>1, TypeParts DEF Ordered, ServiceTypes
<1>3. OnlyMoves(x) /\ pc'[x] = then[x] /\ then[x] \notin {"write", "rename"}
  BY <1>1, <1>2 DEF OnlyMoves, SameProg
<1>4. KeepsFile(x)
  BY <1>1, <1>3 DEF KeepsFile
<1>5. KeepsIdentity(x)
  <2>1. Stage(x) # "ready" /\ Stage(x)' # "ready" /\ pc[x] \notin {"off", "load"}
    BY <1>1, <1>2, <1>3 DEF Stage, Saving
  <2> QED
    BY <1>1, <1>2, <1>3, <2>1 DEF KeepsIdentity
<1> QED
  BY <1>4, <1>5, KeptWhole, KeptIdentity DEF Ordered

\* Step of a program that runs, and is about to save at most.
Runs(x) ==
  /\ OnlyMoves(x) /\ UNCHANGED <<at, content, saved, met>>
  /\ pc[x] \in {"run", "apply"} \cup Hosts /\ pc'[x] \in {"run", "open"}
  /\ pc'[x] = "open" => then'[x] # "ready"
  /\ cfg'[x].id = cfg[x].id

\* or does that.
LEMMA RunsOrder ==
  ASSUME Ordered, NEW x \in Progs, Runs(x) PROVE SaveWhole' /\ OneIdentity'
<1>1. KeepsFile(x)
  BY DEF Runs, KeepsFile
<1>2. pc[x] \notin {"off", "load", "ready"} \cup Saving
  BY DEF Runs, Saving
<1>3. Stage(x) # "ready" /\ Stage(x)' # "ready"
  BY <1>2 DEF Runs, Stage, Saving
<1>4. KeepsIdentity(x)
  BY <1>2, <1>3 DEF Runs, KeepsIdentity
<1> QED
  BY <1>1, <1>4, KeptWhole, KeptIdentity DEF Ordered

\* The keys, and what is applied after a save, are such steps.
LEMMA KeysRun ==
  ASSUME TypeInv, NEW x \in Progs,
         \/ ToggleAuto(x) \/ ToggleNotify(x) \/ ToggleIcons(x) \/ ApplyEdit(x) \/ Probe(x)
         \/ \E form \in Forms : SaveEdit(x, form)
         \/ \E h \in Hosts : AddPeer(x, h)
  PROVE  Runs(x)
<1> USE Functional
<1>1. fd' = fd /\ pc[x] \in {"run", "apply"} \cup Hosts /\ UNCHANGED <<at, content, saved, met>>
  BY DEF ToggleAuto, ToggleNotify, ToggleIcons, SaveEdit, AddPeer, ApplyEdit, Probe, Key, Goto, diskVars, history
<1>2. ASSUME ToggleAuto(x) \/ ApplyEdit(x) \/ Probe(x) PROVE Runs(x)
  <2>1. cfg' = cfg /\ pc'[x] = "run" /\ \A y \in Progs \ {x} : SameProg(y)
    BY <1>2 DEF ToggleAuto, ApplyEdit, Probe, Key, Goto, HasServer, SameProg
  <2> QED
    BY <1>1, <2>1 DEF Runs, OnlyMoves
<1>3. ASSUME ToggleNotify(x) PROVE Runs(x)
  <2> DEFINE b == ~cfg[x].quiet
  <2>1. /\ pc' = [pc EXCEPT ![x] = "open"] /\ then' = [then EXCEPT ![x] = "run"]
        /\ cfg' = [cfg EXCEPT ![x].quiet = b] /\ live' = [live EXCEPT ![x].quiet = b]
        /\ UNCHANGED <<mode, shown, probed>>
    BY <1>3 DEF ToggleNotify, Save
  <2> HIDE DEF b
  <2>2. pc'[x] = "open" /\ then'[x] = "run" /\ cfg'[x].id = cfg[x].id
    BY <2>1 DEF Configs
  <2>3. \A y \in Progs \ {x} : SameProg(y)
    BY <2>1 DEF SameProg
  <2> QED
    BY <1>1, <2>2, <2>3 DEF Runs, OnlyMoves
<1>4. ASSUME ToggleIcons(x) PROVE Runs(x)
  <2>1. pc'[x] = "open" /\ then'[x] = "run" /\ cfg' = cfg /\ \A y \in Progs \ {x} : SameProg(y)
    BY <1>4 DEF ToggleIcons, Save, progVars, SameProg
  <2> QED
    BY <1>1, <2>1 DEF Runs, OnlyMoves
<1>5. ASSUME NEW form \in Forms, SaveEdit(x, form) PROVE Runs(x)
  <2>1. pc'[x] = "open" /\ then'[x] = "apply" /\ cfg'[x].id = cfg[x].id
    BY <1>5 DEF SaveEdit, Save, Configs
  <2>2. \A y \in Progs \ {x} : SameProg(y)
    BY <1>5 DEF SaveEdit, Save, SameProg
  <2> QED
    BY <1>1, <2>1, <2>2 DEF Runs, OnlyMoves
<1>6. ASSUME NEW h \in Hosts, AddPeer(x, h) PROVE Runs(x)
  <2>1. CASE h \in cfg[x].known
    <3>1. pc[x] = "run" /\ UNCHANGED <<pc, cfg, then, mode, shown, live, probed>>
      BY <1>6, <2>1 DEF AddPeer, Key
    <3> QED
      BY <1>1, <3>1 DEF Runs, OnlyMoves, SameProg
  <2>2. CASE h \notin cfg[x].known
    <3>1. /\ pc' = [pc EXCEPT ![x] = "open"] /\ then' = [then EXCEPT ![x] = h]
          /\ cfg' = [cfg EXCEPT ![x].known = @ \cup {h}]
          /\ UNCHANGED <<mode, shown, live, probed>>
      BY <1>6, <2>2 DEF AddPeer, Save
    <3>2. pc'[x] = "open" /\ then'[x] = h /\ h # "ready" /\ cfg'[x].id = cfg[x].id
      BY <3>1 DEF Configs
    <3>3. \A y \in Progs \ {x} : SameProg(y)
      BY <3>1 DEF SameProg
    <3> QED
      BY <1>1, <3>2, <3>3 DEF Runs, OnlyMoves
  <2> QED
    BY <2>1, <2>2
<1> QED
  BY <1>2, <1>3, <1>4, <1>5, <1>6

\* At first there is no identity.
LEMMA OrderInit == Init => Ordered
<1> SUFFICES ASSUME Init PROVE Ordered
  OBVIOUS
<1>1. \A x \in Progs : pc[x] = "off"
  BY DEF Init
<1>2. Alone
  BY <1>1 DEF Alone, Busy, Loading, Saving
<1>3. 1 \in Inodes
  BY FS_CardinalityType DEF Inodes
<1>4. EditsLast /\ (at.file # None => at.file # at.tmp)
  <2>1. CASE at = [file |-> None, tmp |-> None] /\ saved = None
    BY <2>1 DEF EditsLast
  <2>2. ASSUME NEW c \in Before, at = [file |-> 1, tmp |-> None], saved = c,
               content = [i \in Inodes |-> IF i = 1 THEN c ELSE Torn]
        PROVE  EditsLast /\ (at.file # None => at.file # at.tmp)
    BY <1>3, <2>2 DEF EditsLast
  <2> QED
    BY <2>1, <2>2 DEF Init
<1>5. SaveWhole
  BY <1>1, <1>4 DEF SaveWhole
<1>6. OneIdentity
  BY <1>1 DEF Init, OneIdentity
<1> QED
  BY <1>2, <1>5, <1>6, TypeInit DEF Ordered

\* Every step keeps the file whole and the identity one, while no two programs
\* load or save at once.
LEMMA OrderStep == ~Overlap /\ Ordered /\ [Next]_cvars => Ordered'
<1> SUFFICES ASSUME ~Overlap, Ordered, [Next]_cvars PROVE Ordered'
  OBVIOUS
<1>1. TypeInv /\ TypeInv' /\ Alone'
  BY TypeStep, AloneStep DEF Ordered
<1>2. ASSUME NEW x \in Progs, LoadTorn(x) \/ LoadFails(x) \/ Stop(x) \/ ApplyPanics(x)
      PROVE  SaveWhole' /\ OneIdentity'
  <2>1. Exit(x) /\ UNCHANGED <<diskVars, history>>
    BY <1>2 DEF LoadTorn, LoadFails, Stop, ApplyPanics
  <2> QED
    BY <2>1, OutsideOrder
<1>3. ASSUME NEW x \in Progs, NEW how \in {"tui", "quick", "headless"}, Start(x, how)
      PROVE  SaveWhole' /\ OneIdentity'
  <2>1. UNCHANGED <<diskVars, history>>
    BY <1>3 DEF Start
  <2> QED
    BY <1>3, <2>1, OutsideOrder
<1>4. ASSUME UNCHANGED cvars PROVE SaveWhole' /\ OneIdentity'
  <2>1. UNCHANGED <<at, content, pc, mode, cfg, shown, live, probed, fd, then, saved, met>>
    BY <1>4 DEF cvars, diskVars, history, progVars
  <2>2. SaveWhole'
    BY <2>1 DEF Ordered, SaveWhole, EditsLast
  <2>3. OneIdentity'
    BY <2>1 DEF Ordered, OneIdentity, Identified, Stage
  <2> QED
    BY <2>2, <2>3
<1>5. ASSUME NEW x \in Progs, OpenTmp(x) \/ WriteTmp(x) \/ Rename(x) \/ LoadOK(x) \/ SaveFails(x)
      PROVE  SaveWhole' /\ OneIdentity'
  BY <1>5, OpenTmpOrder, WriteTmpOrder, RenameOrder, LoadOKOrder, SaveFailsOrder
<1>6. ASSUME NEW x \in Progs, NEW form \in Forms, NEW auto \in BOOLEAN, NEW hush \in BOOLEAN,
         Ready(x, form, auto, hush)
      PROVE  SaveWhole' /\ OneIdentity'
  BY <1>6, ReadyOrder
<1>7. ASSUME NEW x \in Progs,
             \/ ToggleAuto(x) \/ ToggleNotify(x) \/ ToggleIcons(x) \/ ApplyEdit(x) \/ Probe(x)
             \/ \E form \in Forms : SaveEdit(x, form)
             \/ \E h \in Hosts : AddPeer(x, h)
      PROVE  SaveWhole' /\ OneIdentity'
  BY <1>7, KeysRun, RunsOrder DEF Ordered
<1>8. SaveWhole' /\ OneIdentity'
  BY <1>2, <1>3, <1>4, <1>5, <1>6, <1>7 DEF Next
<1> QED
  BY <1>1, <1>8 DEF Ordered

\* config.json is whole and holds what the last finished save wrote, whatever
\* saves a full disk or the end of a program cut off since.
THEOREM EditsAreKept ==
  ASSUME ~Overlap
  PROVE  Spec => []EditsLast
<1>1. Ordered => EditsLast
  BY DEF Ordered, SaveWhole
<1>2. Ordered /\ [Next]_cvars => Ordered'
  BY OrderStep
<1> QED
  BY <1>1, <1>2, OrderInit, PTL DEF Spec

\* A device has one identity for good: a program answers with the one any
\* program before it has answered with, however their first starts ended.
THEOREM OneIdentityForGood ==
  ASSUME ~Overlap
  PROVE  Spec => []IdentityKept
<1>1. Ordered => IdentityKept
  <2> SUFFICES ASSUME Ordered PROVE Cardinality(met) <= 1
    BY DEF IdentityKept
  <2>1. met = {} \/ met = {saved.id}
    BY DEF Ordered, OneIdentity
  <2>2. Cardinality({}) = 0 /\ Cardinality({saved.id}) = 1
    BY FS_EmptySet, FS_Singleton
  <2> QED
    BY <2>1, <2>2
<1>2. Ordered /\ [Next]_cvars => Ordered'
  BY OrderStep
<1> QED
  BY <1>1, <1>2, OrderInit, PTL DEF Spec
=============================================================================
