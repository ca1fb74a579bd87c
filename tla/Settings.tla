------------------------------ MODULE Settings ------------------------------
(***************************************************************************)
(* internal/config and the programs that use it: how each one loads         *)
(* config.json, lays the command-line flags over it, hands the settings to  *)
(* its services, changes and saves them from the TUI, and ends or crashes   *)
(* at any point of a save.  Several programs may run at once.               *)
(*                                                                         *)
(* A configuration keeps the TLS identity, the fields of the edit form      *)
(* (alias, receive directory and PIN, as one value), the two toggles that   *)
(* matter and the known peers; the rest only travels with it.               *)
(*                                                                         *)
(* An operator whose name ends in "Broken" is never used: it is a mistake   *)
(* one could make in the operator defined after it.                         *)
(***************************************************************************)
EXTENDS Naturals, FiniteSets

CONSTANTS
  Progs,      \* places for a running program
  Forms,      \* values of the edit form
  Default,    \* the one a first start begins with
  Hosts,      \* known peers a user may add
  None,
  Torn,       \* the contents of a file that is not whole
  Overlap,    \* whether two programs may load and save at the same time
  Before,     \* what config.json may hold before the first start, if it is there
  MaxStarts,  \* bounds the starts of programs
  MaxKeys     \* bounds the keys that change a setting

ASSUME SettingsAssumption ==
  /\ IsFiniteSet(Progs) /\ Default \in Forms
  /\ None \notin Forms \cup Hosts \cup Nat /\ Torn # None
  /\ Hosts \cap {"off", "load", "ready", "run", "apply", "open", "write", "rename"} = {}
  /\ Overlap \in BOOLEAN
  /\ MaxStarts \in Nat /\ MaxKeys \in Nat

VARIABLES
  at,       \* at.file, at.tmp: the inodes of config.json and config.json.tmp
  content,  \* what an inode holds: a configuration, or Torn
  pc,       \* where a program is; a host while it takes it up as a known peer
  mode,     \* "tui" with a server, "quick" without, "headless" without a screen
  cfg,      \* Model.cfg
  shown,    \* Model.autoAccept
  live,     \* what the server and the notification gate go by
  probed,   \* remotes.hosts
  fd,       \* the inode it is writing to, or None
  then,     \* where it goes on after the save
  saved,    \* what the last finished save wrote, or was there before
  met,      \* identities a program has answered with
  made,     \* identities generated
  starts, keys

progVars == <<mode, cfg, shown, live, probed>>
diskVars == <<at, content>>
bounds == <<starts, keys>>
history == <<saved, met>>
cvars == <<diskVars, pc, progVars, fd, then, history, made, bounds>>

\* Identity 0 is none yet; the others are numbered as they are generated.
Configs == [id : 0..MaxStarts, form : Forms, auto : BOOLEAN, quiet : BOOLEAN,
            known : SUBSET Hosts]

\* Before its first start no identity is in the file.
ASSUME BeforeAssumption ==
  /\ {None, Torn} \cap Configs = {}
  /\ Before \subseteq {c \in Configs : c.id = 0} \cup {Torn}

defaults == [id |-> 0, form |-> Default, auto |-> FALSE, quiet |-> FALSE, known |-> {}]

Inodes == 1..(2 + Cardinality(Progs))
Linked == {at.file, at.tmp} \cup {fd[x] : x \in Progs}
Unused == CHOOSE i \in Inodes : i \notin Linked

NoLive == [form |-> Default, auto |-> FALSE, quiet |-> FALSE]

Init ==
  /\ \/ /\ at = [file |-> None, tmp |-> None] /\ saved = None
        /\ content = [i \in Inodes |-> Torn]
     \/ \E c \in Before :
          /\ at = [file |-> 1, tmp |-> None] /\ saved = c
          /\ content = [i \in Inodes |-> IF i = 1 THEN c ELSE Torn]
  /\ pc = [x \in Progs |-> "off"] /\ mode = [x \in Progs |-> "tui"]
  /\ cfg = [x \in Progs |-> defaults]
  /\ shown = [x \in Progs |-> FALSE] /\ live = [x \in Progs |-> NoLive]
  /\ probed = [x \in Progs |-> {}]
  /\ fd = [x \in Progs |-> None] /\ then = [x \in Progs |-> "ready"]
  /\ met = {} /\ made = 0 /\ starts = 0 /\ keys = 0

Saving == {"open", "write", "rename"}
Loading == {"load", "ready"}

\* What the properties need of a user with several windows.
Calm == Overlap \/ \A y \in Progs : pc[y] \notin Loading \cup Saving

Goto(x, from, next) == pc[x] = from /\ pc' = [pc EXCEPT ![x] = next]

\* The program is over, and all it held but the files.
Exit(x) ==
  /\ pc' = [pc EXCEPT ![x] = "off"] /\ mode' = [mode EXCEPT ![x] = "tui"]
  /\ cfg' = [cfg EXCEPT ![x] = defaults]
  /\ shown' = [shown EXCEPT ![x] = FALSE] /\ live' = [live EXCEPT ![x] = NoLive]
  /\ probed' = [probed EXCEPT ![x] = {}]
  /\ fd' = [fd EXCEPT ![x] = None] /\ then' = [then EXCEPT ![x] = "ready"]

-----------------------------------------------------------------------------
(* Save: the temporary file, its contents, the rename *)

\* writes the file itself
OpenTmpBroken(x) ==
  /\ Goto(x, "open", "write")
  /\ LET i == IF at.file = None THEN Unused ELSE at.file
     IN /\ at' = [file |-> i, tmp |-> i] /\ fd' = [fd EXCEPT ![x] = i]
        /\ content' = [content EXCEPT ![i] = Torn]
  /\ UNCHANGED <<progVars, then, history, made, bounds>>

\* os.WriteFile creates the file, or cuts the one that is there.
OpenTmp(x) ==
  /\ Goto(x, "open", "write")
  /\ LET i == IF at.tmp = None THEN Unused ELSE at.tmp
     IN /\ at' = [at EXCEPT !.tmp = i] /\ fd' = [fd EXCEPT ![x] = i]
        /\ content' = [content EXCEPT ![i] = Torn]
  /\ UNCHANGED <<progVars, then, history, made, bounds>>

\* never closes the file
WriteTmpBroken(x) ==
  /\ Goto(x, "write", "rename")
  /\ content' = [content EXCEPT ![fd[x]] = cfg[x]]
  /\ UNCHANGED <<at, fd, progVars, then, history, made, bounds>>

\* Over what another program has written meanwhile, a shorter text leaves the
\* end of the longer one.
WriteTmp(x) ==
  /\ Goto(x, "write", "rename")
  /\ \E c \in {cfg[x]} \cup (IF content[fd[x]] \in {Torn, cfg[x]} THEN {} ELSE {Torn}) :
       content' = [content EXCEPT ![fd[x]] = c]
  /\ fd' = [fd EXCEPT ![x] = None]
  /\ UNCHANGED <<at, progVars, then, history, made, bounds>>

Rename(x) ==
  /\ at.tmp # None
  /\ Goto(x, "rename", then[x])
  /\ at' = [file |-> at.tmp, tmp |-> None]
  /\ content' = [i \in Inodes |-> IF i = at.file THEN Torn ELSE content[i]]
  /\ saved' = cfg[x]
  /\ UNCHANGED <<progVars, fd, then, met, made, bounds>>

\* The folder cannot be made, the file not opened, the disk is full, or the
\* temporary file is gone: what was done so far stays, and the TUI goes on.
SaveFails(x) ==
  /\ pc[x] \in Saving /\ then[x] # "ready"
  /\ pc' = [pc EXCEPT ![x] = then[x]] /\ fd' = [fd EXCEPT ![x] = None]
  /\ UNCHANGED <<diskVars, progVars, then, history, made, bounds>>

\* goes on with what it has
LoadFailsBroken(x) ==
  /\ pc[x] \in Saving /\ then[x] = "ready"
  /\ pc' = [pc EXCEPT ![x] = "ready"] /\ fd' = [fd EXCEPT ![x] = None]
  /\ UNCHANGED <<diskVars, progVars, then, history, made, bounds>>

\* The save at the end of Load fails: the program ends.
LoadFails(x) ==
  /\ pc[x] \in Saving /\ then[x] = "ready" /\ Exit(x)
  /\ UNCHANGED <<diskVars, history, made, bounds>>

-----------------------------------------------------------------------------
(* Start *)

Start(x, how) ==
  /\ Calm /\ starts < MaxStarts /\ starts' = starts + 1
  /\ Goto(x, "off", "load")
  /\ mode' = [mode EXCEPT ![x] = how]
  /\ UNCHANGED <<diskVars, cfg, shown, live, probed, fd, then, history, made, keys>>

Stored == IF at.file = None THEN defaults ELSE content[at.file]

\* A file that is not whole is no JSON: the program ends.
LoadTorn(x) ==
  /\ Stored = Torn /\ pc[x] = "load" /\ Exit(x)
  /\ UNCHANGED <<diskVars, history, made, bounds>>

\* Load: the file over the defaults, an identity if there is none, then always
\* a save.
LoadOK(x) ==
  /\ Stored # Torn
  /\ Goto(x, "load", "open")
  /\ made' = IF Stored.id = 0 THEN made + 1 ELSE made
  /\ cfg' = [cfg EXCEPT ![x] = IF Stored.id = 0 THEN [Stored EXCEPT !.id = made + 1] ELSE Stored]
  /\ then' = [then EXCEPT ![x] = "ready"]
  /\ UNCHANGED <<diskVars, mode, shown, live, probed, fd, history, bounds>>

\* main: the flags go into the configuration (form stands for -alias, -dir and
\* -pin, auto for -auto-accept, hush for -no-notify; -no-icons has no service to
\* follow it), and it into the services and the TUI.
Ready(x, form, auto, hush) ==
  /\ Goto(x, "ready", "run")
  /\ LET c == [cfg[x] EXCEPT !.form = form, !.auto = @ \/ auto, !.quiet = @ \/ hush]
     IN /\ cfg' = [cfg EXCEPT ![x] = c]
        /\ shown' = [shown EXCEPT ![x] = c.auto]
        /\ live' = [live EXCEPT ![x] = [form |-> c.form, auto |-> c.auto, quiet |-> c.quiet]]
        /\ probed' = [probed EXCEPT ![x] = c.known]
        /\ met' = met \cup {c.id}
  /\ UNCHANGED <<diskVars, mode, fd, then, saved, made, bounds>>

\* The program ends, is killed, or fails to start a service.
Stop(x) ==
  /\ pc[x] # "off" /\ Exit(x)
  /\ UNCHANGED <<diskVars, history, made, bounds>>

-----------------------------------------------------------------------------
(* Keys of the TUI, and the controller they call *)

HasServer(x) == mode[x] = "tui"

Key(x) == Calm /\ mode[x] # "headless" /\ pc[x] = "run" /\ keys < MaxKeys /\ keys' = keys + 1

Save(x, next) ==
  /\ pc' = [pc EXCEPT ![x] = "open"]
  /\ then' = [then EXCEPT ![x] = next]

\* a: not saved.
ToggleAuto(x) ==
  /\ Key(x)
  /\ shown' = [shown EXCEPT ![x] = ~@]
  /\ live' = IF HasServer(x) THEN [live EXCEPT ![x].auto = ~shown[x]] ELSE live
  /\ UNCHANGED <<diskVars, pc, mode, cfg, probed, fd, then, history, made, starts>>

\* n
ToggleNotify(x) ==
  /\ Key(x) /\ Save(x, "run")
  /\ cfg' = [cfg EXCEPT ![x].quiet = ~@]
  /\ live' = [live EXCEPT ![x].quiet = ~cfg[x].quiet]
  /\ UNCHANGED <<diskVars, mode, shown, probed, fd, history, made, starts>>

\* i, of which nothing but the save matters here
ToggleIcons(x) ==
  /\ Key(x) /\ Save(x, "run")
  /\ UNCHANGED <<diskVars, progVars, fd, history, made, starts>>

\* saveEdit saves first and applies afterwards.
SaveEdit(x, form) ==
  /\ Key(x) /\ Save(x, "apply")
  /\ cfg' = [cfg EXCEPT ![x].form = form]
  /\ UNCHANGED <<diskVars, mode, shown, live, probed, fd, history, made, starts>>

\* leaves the server as it is
ApplyEditBroken(x) ==
  /\ HasServer(x) /\ Goto(x, "apply", "run")
  /\ UNCHANGED <<diskVars, progVars, fd, then, history, made, bounds>>

\* SetAlias, SetReceiveDir and SetPIN
ApplyEdit(x) ==
  /\ HasServer(x) /\ Goto(x, "apply", "run")
  /\ live' = [live EXCEPT ![x].form = cfg[x].form]
  /\ UNCHANGED <<diskVars, mode, cfg, shown, probed, fd, then, history, made, bounds>>

\* Without a server SetAlias has none to call and panics.
ApplyPanics(x) ==
  /\ ~HasServer(x) /\ pc[x] = "apply" /\ Exit(x)
  /\ UNCHANGED <<diskVars, history, made, bounds>>

\* updateAddPeer saves a host that is new to the configuration.
AddPeer(x, h) ==
  /\ Key(x)
  /\ IF h \in cfg[x].known
       THEN UNCHANGED <<cfg, pc, then>>
       ELSE cfg' = [cfg EXCEPT ![x].known = @ \cup {h}] /\ Save(x, h)
  /\ UNCHANGED <<diskVars, mode, shown, live, probed, fd, history, made, starts>>

\* AddKnownPeer: the watcher probes the host from now on.
Probe(x) ==
  /\ pc[x] \in Hosts /\ Goto(x, pc[x], "run")
  /\ probed' = [probed EXCEPT ![x] = @ \cup {pc[x]}]
  /\ UNCHANGED <<diskVars, mode, cfg, shown, live, fd, then, history, made, bounds>>

Next == \E x \in Progs :
  \/ \E how \in {"tui", "quick", "headless"} : Start(x, how)
  \/ LoadTorn(x) \/ LoadOK(x)
  \/ \E form \in Forms, auto \in BOOLEAN, hush \in BOOLEAN : Ready(x, form, auto, hush)
  \/ OpenTmp(x) \/ WriteTmp(x) \/ Rename(x) \/ SaveFails(x) \/ LoadFails(x)
  \/ ToggleAuto(x) \/ ToggleNotify(x) \/ ToggleIcons(x)
  \/ \E form \in Forms : SaveEdit(x, form)
  \/ \E h \in Hosts : AddPeer(x, h)
  \/ ApplyEdit(x) \/ ApplyPanics(x) \/ Probe(x)
  \/ Stop(x)

Spec == Init /\ [][Next]_cvars
-----------------------------------------------------------------------------
(* Properties *)

Lives == [form : Forms, auto : BOOLEAN, quiet : BOOLEAN]
\* Every variable stays in its domain, and a program has its file open exactly
\* between the open and the write of a save.
SettingsTypeOK ==
  /\ at \in [file : Inodes \cup {None}, tmp : Inodes \cup {None}]
  /\ content \in [Inodes -> Configs \cup {Torn}]
  /\ pc \in [Progs -> {"off", "run", "apply"} \cup Loading \cup Saving \cup Hosts]
  /\ mode \in [Progs -> {"tui", "quick", "headless"}]
  /\ \A x \in Progs : cfg[x] \in Configs
  /\ shown \in [Progs -> BOOLEAN] /\ live \in [Progs -> Lives]
  /\ probed \in [Progs -> SUBSET Hosts]
  /\ then \in [Progs -> {"ready", "run", "apply"} \cup Hosts]
  /\ \A x \in Progs : IF pc[x] = "write" THEN fd[x] \in Inodes ELSE fd[x] = None
  /\ saved \in Configs \cup {None, Torn}
  /\ made \in 0..starts /\ met \subseteq 1..made
  /\ starts \in 0..MaxStarts /\ keys \in 0..MaxKeys

\* config.json is whole and holds what the last finished save wrote, whatever
\* saves a full disk or the end of a program cut off since, as long as no two
\* programs save at once.  ("Save atomically writes the config", config.go.)
EditsLast == IF at.file = None THEN saved = None ELSE content[at.file] = saved

\* A device has one identity for good: a program answers with the one any
\* program before it has answered with, however their first starts ended, as
\* long as no two start at once.  (Load saves the identity before it is used.)
IdentityKept == Cardinality(met) <= 1

\* Between two keys the server of a program, its notification gate and its
\* watcher go by what the Settings tab shows.  (main, the keys a and n,
\* saveEdit, updateAddPeer.)
ShownIsLive ==
  \A x \in Progs :
    pc[x] = "run" /\ HasServer(x) =>
      /\ live[x] = [form |-> cfg[x].form, auto |-> shown[x], quiet |-> cfg[x].quiet]
      /\ probed[x] = cfg[x].known
=============================================================================
