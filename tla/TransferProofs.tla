--------------------------- MODULE TransferProofs ---------------------------
(***************************************************************************)
(* Theorems about Transfer for any number of commands, files and restarts.  *)
(*                                                                         *)
(* What a command knows and what the receiver has done for it is related    *)
(* command by command (Own): a step of one command, or of a handler of its  *)
(* requests, leaves the others alone (SameFor), so each step is looked at   *)
(* for one command only; a restart takes from all of them at once.          *)
(***************************************************************************)
EXTENDS Transfer, TLAPS

USE TransferAssumption

Points == {"idle", "prepare", "asking", "next", "uploading", "message", "telling", "ok", "error"}
AskPoints == {"none", "asked", "granted", "refused", "told", "taken", "gone"}
PutPoints == {"none", "arrived", "reading", "stored", "ok", "failed", "gone"}

Shape ==
  /\ at \in [Commands -> Points] /\ texts \subseteq Commands
  /\ found \in [Commands -> SUBSET Files] /\ wanted \in [Commands -> SUBSET Files]
  /\ todo \in [Commands -> SUBSET Files]
  /\ cur \in [Commands -> Files \cup {Nil}]
  /\ skipped \in [Commands -> SUBSET Files] /\ sent \in [Commands -> SUBSET Files]
  /\ ask \in [Commands -> AskPoints] /\ put \in [Commands -> [Files -> PutPoints]]
  /\ sessions \subseteq Commands /\ done \in [Commands -> SUBSET Files]
  /\ folder \subseteq Commands \X Files /\ shared \subseteq Commands \X Files
  /\ heard \subseteq Commands
  /\ restarts \in 0..MaxRestarts

\* Before its answer a command has pushed nothing, and before the handler has
\* decided there is no session either, even if the command is gone by then.
NotYet(c) ==
  /\ at[c] = "idle" => found[c] = {}
  /\ at[c] \in {"idle", "prepare"} => ask[c] = "none"
  /\ ask[c] = "asked" => at[c] \in {"asking", "error"}
  /\ at[c] \in {"idle", "prepare", "asking"} \/ ask[c] = "asked" =>
       todo[c] = {} /\ skipped[c] = {} /\ sent[c] = {} /\ \A f \in Files : put[c][f] = "none"
  /\ ask[c] \in {"none", "asked"} => wanted[c] = {} /\ c \notin sessions /\ done[c] = {}

\* The files wanted are those to push, the skipped, the sent and the one under
\* way; past the loop all are sent.
Loop(c) ==
  /\ wanted[c] \subseteq found[c]
  /\ todo[c] \subseteq wanted[c] \ (skipped[c] \cup sent[c])
  /\ skipped[c] \cup sent[c] \subseteq wanted[c] /\ skipped[c] \cap sent[c] = {}
  /\ at[c] = "uploading" => cur[c] \in wanted[c] \ (todo[c] \cup skipped[c] \cup sent[c])
  /\ at[c] = "next" => wanted[c] = todo[c] \cup skipped[c] \cup sent[c]
  /\ at[c] = "uploading" => wanted[c] = todo[c] \cup skipped[c] \cup sent[c] \cup {cur[c]}
  /\ at[c] \in {"message", "telling", "ok"} => sent[c] = wanted[c]

\* What the handlers of the uploads have done for the files sent.
Stored(c) ==
  \A f \in Files :
    /\ put[c][f] # "none" => f \in wanted[c]
    /\ put[c][f] \in {"stored", "ok"} => <<c, f>> \in folder \cup shared
    /\ f \in sent[c] => put[c][f] \in {"ok", "gone"} /\ <<c, f>> \in folder \cup shared

\* A session lacks a file, and has the flag of each file that was answered 200.
Open(c) ==
  /\ done[c] \subseteq wanted[c]
  /\ c \in sessions =>
       /\ done[c] # wanted[c]
       /\ \A f \in Files : put[c][f] # "gone" /\ (put[c][f] = "ok" => f \in done[c])

Heard(c) ==
  /\ ask[c] = "taken" => c \in heard
  /\ at[c] = "ok" /\ c \in texts => c \in heard

Own(c) == NotYet(c) /\ Loop(c) /\ Stored(c) /\ Open(c) /\ Heard(c)

Inv == Shape /\ \A c \in Commands : Own(c)

-----------------------------------------------------------------------------
(* A step of one command, or of a handler of its requests *)

\* What others may do without a command: the messages grow, and of its files the
\* folder loses only those whose path they share.
SameFor(d) ==
  /\ at'[d] = at[d] /\ found'[d] = found[d] /\ wanted'[d] = wanted[d]
  /\ todo'[d] = todo[d] /\ cur'[d] = cur[d]
  /\ skipped'[d] = skipped[d] /\ sent'[d] = sent[d] /\ (d \in texts' <=> d \in texts)
  /\ ask'[d] = ask[d] /\ put'[d] = put[d] /\ done'[d] = done[d]
  /\ (d \in sessions' <=> d \in sessions)
  /\ folder \cup shared \subseteq folder' \cup shared' /\ heard \subseteq heard'

Moves(c) == Shape' /\ Own(c)' /\ \A d \in Commands \ {c} : SameFor(d)

\* A command keeps its invariant when others move.
LEMMA SameKeepsOwn == ASSUME NEW d \in Commands, Own(d), SameFor(d) PROVE Own(d)'
  BY DEF SameFor, Own, NotYet, Loop, Stored, Open, Heard

\* expand: what was found is yet to be asked for.
LEMMA ExpandMoves == ASSUME Inv, NEW c \in Commands, NEW fs \in SUBSET Files, Expand(c, fs) PROVE Moves(c)
<1>1. Shape'
  BY DEF Expand, Goto, cmdVars, recvVars, Inv, Shape, Points, AskPoints, PutPoints
<1>2. Own(c)'
  BY DEF Expand, Goto, cmdVars, recvVars, Inv, Shape, Own, NotYet, Loop, Stored, Open, Heard
<1>3. \A d \in Commands \ {c} : SameFor(d)
  BY DEF Expand, Goto, cmdVars, recvVars, Inv, Shape, SameFor
<1> QED
  BY <1>1, <1>2, <1>3 DEF Moves

\* A command without files is done with them from the start.
LEMMA OnlyMessageMoves == ASSUME Inv, NEW c \in Commands, OnlyMessage(c) PROVE Moves(c)
<1>1. Shape'
  BY DEF OnlyMessage, Goto, cmdVars, recvVars, Inv, Shape, Points, AskPoints, PutPoints
<1>2. Own(c)'
  <2>1. at[c] = "idle" /\ at'[c] = "message"
    BY DEF OnlyMessage, Goto, Inv, Shape
  <2>2. wanted[c] = {} /\ sent[c] = {} /\ skipped[c] = {} /\ todo[c] = {}
    BY <2>1 DEF Inv, Shape, Own, NotYet
  <2>3. ask[c] = "none"
    BY <2>1 DEF Inv, Shape, Own, NotYet
  <2>4. UNCHANGED <<texts, found, wanted, todo, cur, skipped, sent, ask, put, sessions, done, folder,
                   shared, heard>>
    BY DEF OnlyMessage, recvVars
  <2>5. NotYet(c)' /\ Loop(c)'
    BY <2>1, <2>2, <2>3, <2>4 DEF Inv, Own, NotYet, Loop
  <2>6. Stored(c)' /\ Open(c)' /\ Heard(c)'
    BY <2>1, <2>4 DEF Inv, Own, Stored, Open, Heard
  <2> QED
    BY <2>5, <2>6 DEF Own
<1>3. \A d \in Commands \ {c} : SameFor(d)
  BY DEF OnlyMessage, Goto, cmdVars, recvVars, Inv, Shape, SameFor
<1> QED
  BY <1>1, <1>2, <1>3 DEF Moves

\* The request arrives.
LEMMA AskMoves == ASSUME Inv, NEW c \in Commands, Ask(c) PROVE Moves(c)
<1>1. Shape'
  BY DEF Ask, Goto, cmdVars, recvVars, Inv, Shape, Points, AskPoints, PutPoints
<1>2. Own(c)'
  BY DEF Ask, Goto, cmdVars, recvVars, Inv, Shape, Own, NotYet, Loop, Stored, Open, Heard
<1>3. \A d \in Commands \ {c} : SameFor(d)
  BY DEF Ask, Goto, cmdVars, recvVars, Inv, Shape, SameFor
<1> QED
  BY <1>1, <1>2, <1>3 DEF Moves

\* The tokens arrive: every file wanted is yet to be pushed.
LEMMA GetTokensMoves == ASSUME Inv, NEW c \in Commands, GetTokens(c) PROVE Moves(c)
<1>1. Shape'
  BY DEF GetTokens, Goto, cmdVars, recvVars, Inv, Shape, Points, AskPoints, PutPoints
<1>2. Own(c)'
  BY DEF GetTokens, Goto, cmdVars, recvVars, Inv, Shape, Own, NotYet, Loop, Stored, Open, Heard
<1>3. \A d \in Commands \ {c} : SameFor(d)
  BY DEF GetTokens, Goto, cmdVars, recvVars, Inv, Shape, SameFor
<1> QED
  BY <1>1, <1>2, <1>3 DEF Moves

\* A refusal ends the command, 
LEMMA GetRefusalMoves == ASSUME Inv, NEW c \in Commands, GetRefusal(c) PROVE Moves(c)
<1>1. Shape'
  BY DEF GetRefusal, cmdVars, recvVars, Inv, Shape, Points, AskPoints, PutPoints
<1>2. Own(c)'
  BY DEF GetRefusal, cmdVars, recvVars, Inv, Shape, Own, NotYet, Loop, Stored, Open, Heard
<1>3. \A d \in Commands \ {c} : SameFor(d)
  BY DEF GetRefusal, cmdVars, recvVars, Inv, Shape, SameFor
<1> QED
  BY <1>1, <1>2, <1>3 DEF Moves

\* and so does a broken connection.
LEMMA BreaksOffMoves == ASSUME Inv, NEW c \in Commands, BreaksOff(c) PROVE Moves(c)
<1>1. Shape'
  BY DEF BreaksOff, cmdVars, recvVars, Inv, Shape, Points, AskPoints, PutPoints
<1>2. Own(c)'
  BY DEF BreaksOff, cmdVars, recvVars, Inv, Shape, Own, NotYet, Loop, Stored, Open, Heard
<1>3. \A d \in Commands \ {c} : SameFor(d)
  BY DEF BreaksOff, cmdVars, recvVars, Inv, Shape, SameFor
<1> QED
  BY <1>1, <1>2, <1>3 DEF Moves

\* The next file: nothing has come of it yet.
LEMMA UploadMoves == ASSUME Inv, NEW c \in Commands, NEW f \in Files, Upload(c, f) PROVE Moves(c)
<1>1. Shape'
  BY DEF Upload, Goto, cmdVars, recvVars, Inv, Shape, Points, AskPoints, PutPoints
<1>2. Own(c)'
  BY DEF Upload, Goto, cmdVars, recvVars, Inv, Shape, Own, NotYet, Loop, Stored, Open, Heard
<1>3. \A d \in Commands \ {c} : SameFor(d)
  BY DEF Upload, Goto, cmdVars, recvVars, Inv, Shape, SameFor
<1> QED
  BY <1>1, <1>2, <1>3 DEF Moves

\* A file is skipped.
LEMMA OpenFailsMoves == ASSUME Inv, NEW c \in Commands, NEW f \in Files, OpenFails(c, f) PROVE Moves(c)
<1>1. Shape'
  BY DEF OpenFails, cmdVars, recvVars, Inv, Shape, Points, AskPoints, PutPoints
<1>2. Own(c)'
  BY DEF OpenFails, cmdVars, recvVars, Inv, Shape, Own, NotYet, Loop, Stored, Open, Heard
<1>3. \A d \in Commands \ {c} : SameFor(d)
  BY DEF OpenFails, cmdVars, recvVars, Inv, Shape, SameFor
<1> QED
  BY <1>1, <1>2, <1>3 DEF Moves

\* A file is sent: its handler answered 200, after the rename.
LEMMA UploadedMoves == ASSUME Inv, NEW c \in Commands, Uploaded(c) PROVE Moves(c)
<1>1. Shape'
  <2>1. sent' = [sent EXCEPT ![c] = @ \cup {cur[c]}] /\ cur[c] \in Files
    BY DEF Uploaded, Inv, Shape, Own, Loop
  <2>2. sent' \in [Commands -> SUBSET Files]
    BY <2>1 DEF Inv, Shape
  <2> QED
    BY <2>2 DEF Uploaded, recvVars, Inv, Shape, Points
<1>2. Own(c)'
  BY DEF Uploaded, cmdVars, recvVars, Inv, Shape, Own, NotYet, Loop, Stored, Open, Heard
<1>3. \A d \in Commands \ {c} : SameFor(d)
  BY DEF Uploaded, cmdVars, recvVars, Inv, Shape, SameFor
<1> QED
  BY <1>1, <1>2, <1>3 DEF Moves

\* An upload that is refused ends the command.
LEMMA UploadRefusedMoves == ASSUME Inv, NEW c \in Commands, UploadRefused(c) PROVE Moves(c)
<1>1. Shape'
  BY DEF UploadRefused, cmdVars, recvVars, Inv, Shape, Points, AskPoints, PutPoints
<1>2. Own(c)'
  BY DEF UploadRefused, cmdVars, recvVars, Inv, Shape, Own, NotYet, Loop, Stored, Open, Heard
<1>3. \A d \in Commands \ {c} : SameFor(d)
  BY DEF UploadRefused, cmdVars, recvVars, Inv, Shape, SameFor
<1> QED
  BY <1>1, <1>2, <1>3 DEF Moves

\* Past the loop without a skipped file everything wanted is sent.
LEMMA FilesDoneMoves == ASSUME Inv, NEW c \in Commands, FilesDone(c) PROVE Moves(c)
<1>1. Shape'
  BY DEF FilesDone, Goto, AfterFiles, cmdVars, recvVars, Inv, Shape, Points, AskPoints, PutPoints
<1>2. Own(c)'
  <2>1. /\ todo[c] = {} /\ at[c] = "next"
        /\ UNCHANGED <<texts, found, wanted, todo, cur, skipped, sent, ask, put, sessions, done, folder,
                   shared, heard>>
    BY DEF FilesDone, Goto, recvVars
  <2>2. \/ at'[c] = "error"
        \/ at'[c] = "message" /\ skipped[c] = {}
        \/ at'[c] = "ok" /\ skipped[c] = {} /\ c \notin texts
    BY DEF FilesDone, Goto, AfterFiles, Inv, Shape
  <2>3. Loop(c)'
    <3>1. Loop(c) /\ wanted[c] = skipped[c] \cup sent[c]
      BY <2>1 DEF Inv, Own, Loop
    <3>2. CASE skipped[c] = {}
      <4>1. sent[c] = wanted[c]
        BY <3>1, <3>2
      <4> QED
        BY <2>1, <2>2, <3>1, <4>1 DEF Loop
    <3>3. CASE at'[c] = "error"
      BY <2>1, <3>1, <3>3 DEF Loop
    <3> QED
      BY <2>2, <3>2, <3>3
  <2>4. Heard(c)'
    BY <2>1, <2>2 DEF Inv, Own, Heard
  <2>5. NotYet(c)' /\ Stored(c)' /\ Open(c)'
    BY <2>1, <2>2 DEF Inv, Own, NotYet, Stored, Open
  <2> QED
    BY <2>3, <2>4, <2>5 DEF Own
<1>3. \A d \in Commands \ {c} : SameFor(d)
  BY DEF FilesDone, Goto, AfterFiles, cmdVars, recvVars, Inv, Shape, SameFor
<1> QED
  BY <1>1, <1>2, <1>3 DEF Moves

\* The message is on its way.
LEMMA SendMessageMoves == ASSUME Inv, NEW c \in Commands, SendMessage(c) PROVE Moves(c)
<1>1. Shape'
  BY DEF SendMessage, Goto, cmdVars, recvVars, Inv, Shape, Points, AskPoints, PutPoints
<1>2. Own(c)'
  BY DEF SendMessage, Goto, cmdVars, recvVars, Inv, Shape, Own, NotYet, Loop, Stored, Open, Heard
<1>3. \A d \in Commands \ {c} : SameFor(d)
  BY DEF SendMessage, Goto, cmdVars, recvVars, Inv, Shape, SameFor
<1> QED
  BY <1>1, <1>2, <1>3 DEF Moves

\* The receiver has taken the message.
LEMMA MessageTakenMoves == ASSUME Inv, NEW c \in Commands, MessageTaken(c) PROVE Moves(c)
<1>1. Shape'
  BY DEF MessageTaken, Goto, cmdVars, recvVars, Inv, Shape, Points, AskPoints, PutPoints
<1>2. Own(c)'
  BY DEF MessageTaken, Goto, cmdVars, recvVars, Inv, Shape, Own, NotYet, Loop, Stored, Open, Heard
<1>3. \A d \in Commands \ {c} : SameFor(d)
  BY DEF MessageTaken, Goto, cmdVars, recvVars, Inv, Shape, SameFor
<1> QED
  BY <1>1, <1>2, <1>3 DEF Moves

\* A session begins with a file to come.
LEMMA GrantMoves == ASSUME Inv, NEW c \in Commands, Grant(c) PROVE Moves(c)
<1>1. Shape'
  BY DEF Grant, cmdVars, recvVars, Inv, Shape, Points, AskPoints, PutPoints
<1>2. Own(c)'
  BY DEF Grant, cmdVars, recvVars, Inv, Shape, Own, NotYet, Loop, Stored, Open, Heard
<1>3. \A d \in Commands \ {c} : SameFor(d)
  BY DEF Grant, cmdVars, recvVars, Inv, Shape, SameFor
<1> QED
  BY <1>1, <1>2, <1>3 DEF Moves

\* emitMessage.
LEMMA TakeMessageMoves == ASSUME Inv, NEW c \in Commands, TakeMessage(c) PROVE Moves(c)
<1>1. Shape'
  BY DEF TakeMessage, cmdVars, recvVars, Inv, Shape, Points, AskPoints, PutPoints
<1>2. Own(c)'
  BY DEF TakeMessage, cmdVars, recvVars, Inv, Shape, Own, NotYet, Loop, Stored, Open, Heard
<1>3. \A d \in Commands \ {c} : SameFor(d)
  BY DEF TakeMessage, cmdVars, recvVars, Inv, Shape, SameFor
<1> QED
  BY <1>1, <1>2, <1>3 DEF Moves

\* The PIN, the user or a timeout.
LEMMA RefuseMoves == ASSUME Inv, NEW c \in Commands, Refuse(c) PROVE Moves(c)
<1>1. Shape'
  BY DEF Refuse, cmdVars, recvVars, Inv, Shape, Points, AskPoints, PutPoints
<1>2. Own(c)'
  BY DEF Refuse, cmdVars, recvVars, Inv, Shape, Own, NotYet, Loop, Stored, Open, Heard
<1>3. \A d \in Commands \ {c} : SameFor(d)
  BY DEF Refuse, cmdVars, recvVars, Inv, Shape, SameFor
<1> QED
  BY <1>1, <1>2, <1>3 DEF Moves

\* The token is looked up.
LEMMA LookupMoves == ASSUME Inv, NEW c \in Commands, NEW f \in Files, Lookup(c, f) PROVE Moves(c)
<1>1. Shape'
  <2>1. shared' \subseteq Commands \X Files
    BY DEF Lookup, Rivals, Inv, Shape
  <2>2. put' \in [Commands -> [Files -> PutPoints]]
    BY DEF Lookup, PutTo, Inv, Shape, PutPoints
  <2> QED
    BY <2>1, <2>2 DEF Lookup, cmdVars, Inv, Shape
<1>2. Own(c)'
  BY DEF Lookup, PutTo, cmdVars, recvVars, Inv, Shape, Own, NotYet, Loop, Stored, Open, Heard
<1>3. \A d \in Commands \ {c} : SameFor(d)
  BY DEF Lookup, PutTo, cmdVars, recvVars, Inv, Shape, SameFor
<1> QED
  BY <1>1, <1>2, <1>3 DEF Moves

\* The rename.
LEMMA StoreMoves == ASSUME Inv, NEW c \in Commands, NEW f \in Files, Store(c, f) PROVE Moves(c)
<1>1. PICK lost \in SUBSET Mixed(c, f) : folder' = (folder \cup {<<c, f>>}) \ lost
  BY DEF Store
<1>2. lost \subseteq shared /\ shared' = shared
  BY <1>1 DEF Store, Mixed
<1>3. folder \cup shared \subseteq folder' \cup shared' /\ folder' \subseteq Commands \X Files
      /\ <<c, f>> \in folder' \cup shared'
  BY <1>1, <1>2 DEF Inv, Shape
<1>4. /\ UNCHANGED <<at, texts, found, wanted, todo, cur, skipped, sent, ask, sessions, done, heard, restarts>>
      /\ put[c][f] = "reading"
      /\ put' = [put EXCEPT ![c][f] = "stored"]
  BY DEF Store, PutTo, cmdVars
<1>5. Shape'
  BY <1>2, <1>3, <1>4 DEF Inv, Shape, PutPoints
<1>6. Own(c)'
  <2>1. NotYet(c)' /\ Loop(c)' /\ Open(c)' /\ Heard(c)'
    BY <1>4 DEF Inv, Shape, Own, NotYet, Loop, Open, Heard
  <2>2. Stored(c)'
    BY <1>3, <1>4 DEF Inv, Shape, Own, Stored
  <2> QED
    BY <2>1, <2>2 DEF Own
<1>7. \A d \in Commands \ {c} : SameFor(d)
  BY <1>3, <1>4 DEF Inv, Shape, SameFor
<1> QED
  BY <1>5, <1>6, <1>7 DEF Moves

\* The body breaks off, or the disk fails.
LEMMA StoreFailsMoves == ASSUME Inv, NEW c \in Commands, NEW f \in Files, StoreFails(c, f) PROVE Moves(c)
<1>1. PICK lost \in SUBSET Mixed(c, f) : folder' = folder \ lost
  BY DEF StoreFails
<1>2. lost \subseteq shared /\ shared' = shared
  BY <1>1 DEF StoreFails, Mixed
<1>3. folder \cup shared \subseteq folder' \cup shared' /\ folder' \subseteq Commands \X Files
  BY <1>1, <1>2 DEF Inv, Shape
<1>4. /\ UNCHANGED <<at, texts, found, wanted, todo, cur, skipped, sent, ask, sessions, done, heard, restarts>>
      /\ put[c][f] = "reading"
      /\ put' = [put EXCEPT ![c][f] = "failed"]
  BY DEF StoreFails, PutTo, cmdVars
<1>5. Shape'
  BY <1>2, <1>3, <1>4 DEF Inv, Shape, PutPoints
<1>6. Own(c)'
  <2>1. NotYet(c)' /\ Loop(c)' /\ Open(c)' /\ Heard(c)'
    BY <1>4 DEF Inv, Shape, Own, NotYet, Loop, Open, Heard
  <2>2. Stored(c)'
    BY <1>3, <1>4 DEF Inv, Shape, Own, Stored
  <2> QED
    BY <2>1, <2>2 DEF Own
<1>7. \A d \in Commands \ {c} : SameFor(d)
  BY <1>3, <1>4 DEF Inv, Shape, SameFor
<1> QED
  BY <1>5, <1>6, <1>7 DEF Moves

\* complete: the flag, and with the last one the session goes.
LEMMA CompleteMoves == ASSUME Inv, NEW c \in Commands, NEW f \in Files, Complete(c, f) PROVE Moves(c)
<1>1. Shape'
  BY DEF Complete, PutTo, cmdVars, recvVars, Inv, Shape, Points, AskPoints, PutPoints
<1>2. Own(c)'
  <2> DEFINE all == c \in sessions /\ done[c] \cup {f} = wanted[c]
  <2>1. /\ put[c][f] = "stored" /\ put' = [put EXCEPT ![c][f] = "ok"]
        /\ done' = (IF c \in sessions THEN [done EXCEPT ![c] = @ \cup {f}] ELSE done)
        /\ sessions' = (IF all THEN sessions \ {c} ELSE sessions)
        /\ UNCHANGED <<at, texts, found, wanted, todo, cur, skipped, sent, ask, folder, shared, heard>>
    BY DEF Complete, PutTo, cmdVars
  <2>2. put'[c][f] = "ok" /\ \A g \in Files \ {f} : put'[c][g] = put[c][g]
    BY <2>1 DEF Inv, Shape
  <2>3. f \in wanted[c] /\ <<c, f>> \in folder \cup shared
    BY <2>1 DEF Inv, Own, Stored
  <2>4. Stored(c)' /\ Loop(c)' /\ Heard(c)'
    BY <2>1, <2>2, <2>3 DEF Inv, Own, Stored, Loop, Heard
  <2>5. ask[c] \notin {"none", "asked"} \/ c \notin sessions
    BY DEF Inv, Own, NotYet
  <2>6. NotYet(c)'
    BY <2>1, <2>2, <2>5 DEF Inv, Shape, Own, NotYet
  <2>7. ASSUME c \in sessions PROVE Open(c)'
    <3>1. done'[c] = done[c] \cup {f} /\ (c \in sessions' => done'[c] # wanted[c])
      BY <2>1, <2>7 DEF Inv, Shape
    <3> QED
      BY <2>1, <2>2, <2>3, <2>7, <3>1 DEF Inv, Own, Open
  <2>8. ASSUME c \notin sessions PROVE Open(c)'
    BY <2>1, <2>8 DEF Inv, Own, Open
  <2>9. Open(c)'
    BY <2>7, <2>8
  <2> QED
    BY <2>4, <2>6, <2>9 DEF Own
<1>3. \A d \in Commands \ {c} : SameFor(d)
  BY DEF Complete, PutTo, cmdVars, recvVars, Inv, Shape, SameFor
<1> QED
  BY <1>1, <1>2, <1>3 DEF Moves

-----------------------------------------------------------------------------
(* Every step *)

\* Nothing is under way at first.
LEMMA InvInit == Init => Inv
<1> SUFFICES ASSUME Init PROVE Inv
  OBVIOUS
<1>1. Shape
  BY DEF Init, Shape, Points, AskPoints, PutPoints
<1>2. ASSUME NEW c \in Commands PROVE Own(c)
  BY DEF Init, Own, NotYet, Loop, Stored, Open, Heard
<1> QED
  BY <1>1, <1>2 DEF Inv

\* A restart takes the sessions and the handlers; the folder stays.
LEMMA RestartKeepsInv == ASSUME Inv, Restart PROVE Inv'
<1>1. Shape'
  BY DEF Restart, cmdVars, Inv, Shape, AskPoints, PutPoints
<1>2. ASSUME NEW c \in Commands PROVE Own(c)'
  <2>1. /\ sessions' = {} /\ done'[c] = {}
        /\ ask'[c] = (IF ask[c] = "none" THEN "none" ELSE "gone")
        /\ \A f \in Files : put'[c][f] = (IF put[c][f] = "none" THEN "none" ELSE "gone")
        /\ UNCHANGED <<at, texts, found, wanted, todo, cur, skipped, sent, folder, shared, heard>>
    BY DEF Restart, cmdVars
  <2> QED
    BY <2>1 DEF Inv, Own, NotYet, Loop, Stored, Open, Heard
<1> QED
  BY <1>1, <1>2 DEF Inv

\* A step that moves one command keeps the invariant of all.
LEMMA MovesKeepInv == ASSUME Inv, NEW c \in Commands, Moves(c) PROVE Inv'
  BY SameKeepsOwn DEF Inv, Moves

\* Every step keeps the commands and the receiver in accord.
LEMMA InvStep == Inv /\ [Next]_tvars => Inv'
<1> SUFFICES ASSUME Inv, [Next]_tvars PROVE Inv'
  OBVIOUS
<1>1. ASSUME NEW c \in Commands, CommandStep(c) PROVE Inv'
  <2>1. Moves(c)
    BY <1>1, ExpandMoves, OnlyMessageMoves, AskMoves, GetTokensMoves, GetRefusalMoves, BreaksOffMoves,
       UploadMoves, OpenFailsMoves, UploadedMoves, UploadRefusedMoves, FilesDoneMoves,
       SendMessageMoves, MessageTakenMoves DEF CommandStep
  <2> QED
    BY <2>1, MovesKeepInv
<1>2. ASSUME NEW c \in Commands, HandlerStep(c) PROVE Inv'
  <2>1. Moves(c)
    BY <1>2, GrantMoves, TakeMessageMoves, RefuseMoves, LookupMoves, StoreMoves, StoreFailsMoves,
       CompleteMoves DEF HandlerStep
  <2> QED
    BY <2>1, MovesKeepInv
<1>3. CASE UNCHANGED tvars
  BY <1>3 DEF tvars, cmdVars, recvVars, Inv, Shape, Own, NotYet, Loop, Stored, Open, Heard
<1> QED
  BY <1>1, <1>2, <1>3, RestartKeepsInv DEF Next, Finished

\* What the theorems below rest on.
LEMMA InvAlways == Spec => []Inv
  BY InvInit, InvStep, PTL DEF Spec

-----------------------------------------------------------------------------
(* Theorems *)

\* Every variable stays in its domain, and of the files a command is asked for,
\* those to push, the skipped and the sent stay apart.
THEOREM TransferTypeCorrect == Spec => []TransferTypeOK
<1>1. Inv => TransferTypeOK
  <2> SUFFICES ASSUME Inv PROVE TransferTypeOK
    OBVIOUS
  <2>1. ASSUME NEW c \in Commands
        PROVE  /\ at[c] \in Points /\ found[c] \subseteq Files /\ cur[c] \in Files \cup {Nil}
               /\ ask[c] \in AskPoints /\ \A f \in Files : put[c][f] \in PutPoints
    BY DEF Inv, Shape
  <2>2. ASSUME NEW c \in Commands PROVE Loop(c) /\ done[c] \subseteq wanted[c]
    BY DEF Inv, Own, Open
  <2> QED
    BY <2>1, <2>2 DEF Inv, Shape, TransferTypeOK, Points, AskPoints, PutPoints, Loop
<1> QED
  BY <1>1, InvAlways, PTL

\* A file that was printed as sent is whole in the receiver's folder, unless two
\* uploads of its name were open at once; with exit code 0 every file the receiver
\* wanted was sent, and the message was taken.
THEOREM CommandsTellTheTruth == Spec => []CommandTellsTruth
<1>1. Inv => CommandTellsTruth
  BY DEF Inv, Shape, Own, Loop, Stored, Heard, CommandTellsTruth
<1> QED
  BY <1>1, InvAlways, PTL

\* The session of a command that succeeded is gone: all it was asked for is sent, so
\* all its flags would be set, and a session always lacks one.
THEOREM SuccessLeavesNoSession == Spec => []LeftBehindOnlyByFailure
<1>1. Inv => LeftBehindOnlyByFailure
  <2> SUFFICES ASSUME Inv, NEW c \in sessions, at[c] = "ok" PROVE FALSE
    BY DEF LeftBehindOnlyByFailure
  <2>1. c \in Commands /\ Loop(c) /\ Stored(c) /\ Open(c) /\ wanted[c] \subseteq Files
    BY DEF Inv, Shape, Own
  <2>2. \A f \in wanted[c] : f \in done[c]
    BY <2>1 DEF Loop, Stored, Open
  <2> QED
    BY <2>1, <2>2 DEF Open
<1> QED
  BY <1>1, InvAlways, PTL
=============================================================================
