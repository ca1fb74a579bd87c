------------------------------ MODULE Transfer ------------------------------
(***************************************************************************)
(* A headless send (runHeadlessSend with SendFilesSync and SendMessageSync) *)
(* against a receiving program: what the command says and its exit code,    *)
(* against the sessions, the folder and the messages of the receiver, over  *)
(* a network that may fail at any moment.  Each request and its answer are  *)
(* apart, so that an answer can be lost and a handler goes on after its     *)
(* client gave up.  The receiver's handlers are those of Admission and      *)
(* Uploads in few steps; here they meet a sender that is real.  A receiver  *)
(* may want fewer files than it was offered, or none (204), as other        *)
(* programs of the protocol do; this one wants them all.                    *)
(*                                                                         *)
(* An operator whose name ends in "Broken" is never used: it is a mistake   *)
(* one could make in the operator defined after it.                         *)
(***************************************************************************)
EXTENDS Naturals

CONSTANTS
  Commands,     \* commands run against the same receiver, each once
  Files,        \* the files below the paths a command is given, by name: two names that
                \* may lead to one path of the receiver (Uploads!MayMeet) are one here,
                \* and none ends in ".part"
  Nil,
  MaxRestarts   \* bounds the restarts of the receiver

ASSUME TransferAssumption == Nil \notin Files /\ MaxRestarts \in Nat

VARIABLES
  at,         \* at[c]: where a command is, "ok" and "error" are its exits
  texts,      \* commands that also have a message to send
  found,      \* found[c]: the files expand came up with
  wanted,     \* wanted[c]: the files the receiver gave tokens for
  todo,       \* files of the token map that are yet to push
  cur,        \* the file being uploaded
  skipped,    \* files that could not be opened
  sent,       \* files the command said it sent
  ask,        \* ask[c]: the handler of its prepare-upload
  put,        \* put[c][f]: the handler of its upload of f
  sessions,   \* sessions in the store, named after their command
  done,       \* done[c]: the files whose done flag is set
  folder,     \* files whole in the receive folder, as <<command, file>>
  shared,     \* those of which two uploads were open at once, see Lookup
  heard,      \* commands whose message the receiver took; Admission has what becomes of it
  restarts

cmdVars == <<at, texts, found, todo, cur, skipped, sent>>
recvVars == <<ask, wanted, put, sessions, done, folder, shared, heard>>
tvars == <<cmdVars, recvVars, restarts>>

Over(c) == at[c] \in {"ok", "error"}

Init ==
  /\ at = [c \in Commands |-> "idle"] /\ texts \in SUBSET Commands
  /\ found = [c \in Commands |-> {}] /\ todo = [c \in Commands |-> {}]
  /\ cur = [c \in Commands |-> Nil]
  /\ skipped = [c \in Commands |-> {}] /\ sent = [c \in Commands |-> {}]
  /\ ask = [c \in Commands |-> "none"]
  /\ put = [c \in Commands |-> [f \in Files |-> "none"]]
  /\ sessions = {} /\ done = [c \in Commands |-> {}]
  /\ wanted = [c \in Commands |-> {}]
  /\ folder = {} /\ shared = {} /\ heard = {} /\ restarts = 0

Goto(c, from, next) == at[c] = from /\ at' = [at EXCEPT ![c] = next]

-----------------------------------------------------------------------------
(* The command *)

\* A path that is named must exist; below it expand takes what it can read.
Expand(c, fs) ==
  /\ Goto(c, "idle", IF fs = {} THEN "error" ELSE "prepare")
  /\ found' = [found EXCEPT ![c] = fs]
  /\ UNCHANGED <<texts, todo, cur, skipped, sent, recvVars, restarts>>

\* A command with a message and no files.
OnlyMessage(c) ==
  /\ c \in texts
  /\ Goto(c, "idle", "message")
  /\ UNCHANGED <<texts, found, todo, cur, skipped, sent, recvVars, restarts>>

\* The request arrives.
Ask(c) ==
  /\ Goto(c, "prepare", "asking")
  /\ ask' = [ask EXCEPT ![c] = "asked"]
  /\ UNCHANGED <<texts, found, todo, cur, skipped, sent, wanted, put, sessions, done, folder,
                 shared, heard, restarts>>

\* 200 with a token for each file wanted, or 204, which is an empty token map.
GetTokens(c) ==
  /\ ask[c] = "granted"
  /\ Goto(c, "asking", "next")
  /\ todo' = [todo EXCEPT ![c] = wanted[c]]
  /\ UNCHANGED <<texts, found, cur, skipped, sent, recvVars, restarts>>

\* 401 and 403
GetRefusal(c) ==
  /\ ask[c] = "refused" /\ at[c] \in {"asking", "telling"}
  /\ at' = [at EXCEPT ![c] = "error"]
  /\ UNCHANGED <<texts, found, todo, cur, skipped, sent, recvVars, restarts>>

\* No connection, a broken one, no answer after 30 s: the command ends in each
\* of its requests.
BreaksOff(c) ==
  /\ at[c] \in {"prepare", "asking", "uploading", "message", "telling"}
  /\ at' = [at EXCEPT ![c] = "error"]
  /\ UNCHANGED <<texts, found, todo, cur, skipped, sent, recvVars, restarts>>

\* ranges over the tokens without taking them out
UploadBroken(c, f) ==
  /\ f \in todo[c]
  /\ Goto(c, "next", "uploading")
  /\ cur' = [cur EXCEPT ![c] = f]
  /\ put' = [put EXCEPT ![c][f] = "arrived"]
  /\ UNCHANGED <<texts, found, todo, skipped, sent, ask, wanted, sessions, done, folder, shared, heard,
                 restarts>>

\* The next file, in no order: the tokens come as a map.
Upload(c, f) ==
  /\ f \in todo[c]
  /\ Goto(c, "next", "uploading")
  /\ todo' = [todo EXCEPT ![c] = @ \ {f}]
  /\ cur' = [cur EXCEPT ![c] = f]
  /\ put' = [put EXCEPT ![c][f] = "arrived"]
  /\ UNCHANGED <<texts, found, skipped, sent, ask, wanted, sessions, done, folder, shared, heard,
                 restarts>>

\* errOpen: the others go on.
OpenFails(c, f) ==
  /\ at[c] = "next" /\ f \in todo[c]
  /\ todo' = [todo EXCEPT ![c] = @ \ {f}]
  /\ skipped' = [skipped EXCEPT ![c] = @ \cup {f}]
  /\ UNCHANGED <<at, texts, found, cur, sent, recvVars, restarts>>

\* onDone
Uploaded(c) ==
  /\ at[c] = "uploading" /\ put[c][cur[c]] = "ok"
  /\ at' = [at EXCEPT ![c] = "next"]
  /\ sent' = [sent EXCEPT ![c] = @ \cup {cur[c]}]
  /\ UNCHANGED <<texts, found, todo, cur, skipped, recvVars, restarts>>

\* 403 and 500: the session cannot be resumed.
UploadRefused(c) ==
  /\ at[c] = "uploading" /\ put[c][cur[c]] = "failed"
  /\ at' = [at EXCEPT ![c] = "error"]
  /\ UNCHANGED <<texts, found, todo, cur, skipped, sent, recvVars, restarts>>

AfterFiles(c) == IF c \in texts THEN "message" ELSE "ok"

\* forgets what it skipped
FilesDoneBroken(c) ==
  /\ todo[c] = {}
  /\ Goto(c, "next", AfterFiles(c))
  /\ UNCHANGED <<texts, found, todo, cur, skipped, sent, recvVars, restarts>>

\* SendFilesSync fails if it had to skip a file; the message then stays unsent.
FilesDone(c) ==
  /\ todo[c] = {}
  /\ Goto(c, "next", IF skipped[c] # {} THEN "error" ELSE AfterFiles(c))
  /\ UNCHANGED <<texts, found, todo, cur, skipped, sent, recvVars, restarts>>

\* SendMessageSync: the same request, whose answer is no session.
SendMessage(c) ==
  /\ Goto(c, "message", "telling")
  /\ ask' = [ask EXCEPT ![c] = "told"]
  /\ UNCHANGED <<texts, found, todo, cur, skipped, sent, wanted, put, sessions, done, folder,
                 shared, heard, restarts>>

MessageTaken(c) ==
  /\ ask[c] = "taken"
  /\ Goto(c, "telling", "ok")
  /\ UNCHANGED <<texts, found, todo, cur, skipped, sent, recvVars, restarts>>

-----------------------------------------------------------------------------
(* The receiver *)

\* askAccept said yes, perhaps 60 s later, and the client may be gone.  Without a
\* file to receive there is no session.
Grant(c) ==
  /\ ask[c] = "asked"
  /\ ask' = [ask EXCEPT ![c] = "granted"]
  /\ \E fs \in SUBSET found[c] :
       /\ wanted' = [wanted EXCEPT ![c] = fs]
       /\ sessions' = IF fs = {} THEN sessions ELSE sessions \cup {c}
  /\ UNCHANGED <<cmdVars, put, done, folder, shared, heard, restarts>>

\* emitMessage, nobody is asked.
TakeMessage(c) ==
  /\ ask[c] = "told"
  /\ ask' = [ask EXCEPT ![c] = "taken"]
  /\ heard' = heard \cup {c}
  /\ UNCHANGED <<cmdVars, wanted, put, sessions, done, folder, shared, restarts>>

\* The PIN, the user or a timeout; for a message the PIN.
Refuse(c) ==
  /\ ask[c] \in {"asked", "told"}
  /\ ask' = [ask EXCEPT ![c] = "refused"]
  /\ UNCHANGED <<cmdVars, wanted, put, sessions, done, folder, shared, heard, restarts>>

PutTo(c, f, from, next) ==
  /\ put[c][f] = from
  /\ put' = [put EXCEPT ![c][f] = next]

\* Other commands whose upload of f is open.
Rivals(c, f) == {d \in Commands \ {c} : put[d][f] = "reading"}

\* Two uploads of one name that are open at once may have found the same path free
\* (uniqueAt, and Uploads in detail).
Lookup(c, f) ==
  /\ PutTo(c, f, "arrived", IF c \in sessions THEN "reading" ELSE "failed")
  /\ shared' = IF c \in sessions /\ Rivals(c, f) # {}
                THEN shared \cup ((Rivals(c, f) \cup {c}) \X {f}) ELSE shared
  /\ UNCHANGED <<cmdVars, ask, wanted, sessions, done, folder, heard, restarts>>

\* What an upload may write over, or take away, as it shares its path: see
\* Uploads!Rename and RemoveTmp.
Mixed(c, f) == IF <<c, f>> \in shared THEN shared \cap (Commands \X {f}) ELSE {}

\* The whole body came in, the client may have given up waiting; the rename.
Store(c, f) ==
  /\ PutTo(c, f, "reading", "stored")
  /\ \E lost \in SUBSET Mixed(c, f) : folder' = (folder \cup {<<c, f>>}) \ lost
  /\ UNCHANGED <<cmdVars, ask, wanted, sessions, done, shared, heard, restarts>>

\* The body breaks off, or the disk fails.
StoreFails(c, f) ==
  /\ PutTo(c, f, "reading", "failed")
  /\ \E lost \in SUBSET Mixed(c, f) : folder' = folder \ lost
  /\ UNCHANGED <<cmdVars, ask, wanted, sessions, done, shared, heard, restarts>>

\* keeps the session for a file that comes later
CompleteBroken(c, f) ==
  /\ PutTo(c, f, "stored", "ok")
  /\ done' = [done EXCEPT ![c] = @ \cup {f}]
  /\ sessions' = IF done[c] = wanted[c] THEN sessions \ {c} ELSE sessions
  /\ UNCHANGED <<cmdVars, ask, wanted, folder, shared, heard, restarts>>

\* complete removes the session with its last file; then the answer.
Complete(c, f) ==
  /\ PutTo(c, f, "stored", "ok")
  /\ LET all == c \in sessions /\ done[c] \cup {f} = wanted[c]
     IN /\ done' = IF c \in sessions THEN [done EXCEPT ![c] = @ \cup {f}] ELSE done
        /\ sessions' = IF all THEN sessions \ {c} ELSE sessions
  /\ UNCHANGED <<cmdVars, ask, wanted, folder, shared, heard, restarts>>

\* Sessions and handlers are gone; the folder stays.
Restart ==
  /\ restarts < MaxRestarts /\ restarts' = restarts + 1
  /\ sessions' = {} /\ done' = [c \in Commands |-> {}]
  /\ ask' = [c \in Commands |-> IF ask[c] = "none" THEN "none" ELSE "gone"]
  /\ put' = [c \in Commands |-> [f \in Files |-> IF put[c][f] = "none" THEN "none" ELSE "gone"]]
  /\ UNCHANGED <<cmdVars, wanted, folder, shared, heard>>

Finished == /\ \A c \in Commands : /\ Over(c) /\ ask[c] \notin {"asked", "told"}
                                   /\ \A f \in Files : put[c][f] \notin {"arrived", "reading", "stored"}
            /\ UNCHANGED tvars

CommandStep(c) ==
  \/ \E fs \in SUBSET Files : Expand(c, fs)
  \/ OnlyMessage(c) \/ Ask(c) \/ GetTokens(c) \/ GetRefusal(c) \/ BreaksOff(c)
  \/ \E f \in Files : Upload(c, f) \/ OpenFails(c, f)
  \/ Uploaded(c) \/ UploadRefused(c) \/ FilesDone(c) \/ SendMessage(c) \/ MessageTaken(c)

HandlerStep(c) ==
  \/ Grant(c) \/ TakeMessage(c) \/ Refuse(c)
  \/ \E f \in Files : Lookup(c, f) \/ Store(c, f) \/ StoreFails(c, f) \/ Complete(c, f)

Next == Restart \/ Finished \/ \E c \in Commands : CommandStep(c) \/ HandlerStep(c)

Spec == Init /\ [][Next]_tvars

-----------------------------------------------------------------------------
(* Properties *)

\* Each variable has its type, and the sets of a command (wanted, yet to push,
\* skipped, sent) are apart as the loop of SendFilesSync keeps them.
TransferTypeOK ==
  /\ \A c \in Commands :
       /\ at[c] \in {"idle", "prepare", "asking", "next", "uploading", "message", "telling",
                     "ok", "error"}
       /\ found[c] \subseteq Files /\ cur[c] \in Files \cup {Nil}
       /\ wanted[c] \subseteq found[c]
       /\ todo[c] \subseteq wanted[c] \ (skipped[c] \cup sent[c])
       /\ skipped[c] \cup sent[c] \subseteq wanted[c] /\ skipped[c] \cap sent[c] = {}
       /\ at[c] = "uploading" => cur[c] \in wanted[c] \ (todo[c] \cup skipped[c] \cup sent[c])
       /\ ask[c] \in {"none", "asked", "granted", "refused", "told", "taken", "gone"}
       /\ \A f \in Files : put[c][f] \in {"none", "arrived", "reading", "stored", "ok", "failed",
                                          "gone"}
       /\ done[c] \subseteq wanted[c]
  /\ texts \subseteq Commands /\ sessions \subseteq Commands /\ heard \subseteq Commands
  /\ folder \subseteq Commands \X Files /\ shared \subseteq Commands \X Files
  /\ restarts \in 0..MaxRestarts

\* What a command says is so: each file it printed as sent is whole in the
\* receiver's folder, unless another upload of that name was open at the same time
\* (run uploads_overlap shows what then happens), and exit code 0 says that each
\* file the receiver wanted was sent and that the message was taken, whatever
\* answers were lost and however often the receiver restarted.
CommandTellsTruth ==
  \A c \in Commands :
    /\ \A f \in sent[c] : <<c, f>> \in folder \cup shared
    /\ at[c] = "ok" => /\ sent[c] = wanted[c]
                       /\ c \in texts => c \in heard

\* A session that nobody will ever use again belongs to a command that failed:
\* success leaves none behind.  (SendFilesSync never cancels; complete.)
LeftBehindOnlyByFailure == \A c \in sessions : at[c] # "ok"
=============================================================================
