------------------------------ MODULE Admission ------------------------------
(***************************************************************************)
(* How a peer's POST /prepare-upload becomes a session, a message or a     *)
(* refusal: handlePrepareUpload, askAccept and emitMessage                  *)
(* (internal/server/server.go), the one bridge goroutine that carries       *)
(* prompts and messages to the TUI (internal/app/events.go), and the TUI's  *)
(* accept prompt (internal/tui/model.go).                                   *)
(*                                                                         *)
(* Each request is served by a goroutine; the user, the settings screen and *)
(* the clocks act at any moment.                                            *)
(*                                                                         *)
(* An operator whose name ends in "Broken" is never used: it is a mistake   *)
(* one could make in the operator defined after it, kept here to see that a *)
(* property notices.                                                        *)
(***************************************************************************)
EXTENDS Naturals, Sequences, FiniteSets

CONSTANTS
  Reqs,         \* prepare-upload requests; the session a request gets has its name
  Pins,         \* PINs a user may set or a sender may give
  NoPin,        \* "" : no PIN set, or none given
  AcceptsCap,   \* capacity of Server.accepts (8 in the code)
  MessagesCap,  \* capacity of Server.messages (32 in the code)
  Nil

ASSUME AdmissionAssumption ==
  /\ NoPin \notin Pins
  /\ AcceptsCap \in Nat \ {0}
  /\ MessagesCap \in Nat \ {0}
  /\ Nil \notin Reqs

VARIABLES
  pin,         \* Server.pin
  autoAccept,  \* Server.autoAccept
  hpc,         \* program counter of each handler; it ends in the answer given
  kind,        \* what the request's body decodes to
  given,       \* the ?pin= it carries
  reply,       \* the request's Reply channel (capacity 1): empty, or the decision
  accepts,     \* the channel Server.accepts
  messages,    \* the channel Server.messages
  bridge,      \* what BridgeServer holds while tea.Program.Send blocks
  pending,     \* Model.pending: the request on the screen
  inbox,       \* Model.messages
  prompted,    \* requests the user has been shown
  decided      \* decided[r]: the user's key, when r was on the screen

settingVars == <<pin, autoAccept>>
handlerVars == <<hpc, kind, given>>
uiVars      == <<bridge, pending, inbox, prompted, decided>>
avars == <<settingVars, handlerVars, reply, accepts, messages, uiVars>>

Kinds   == {"bad", "empty", "message", "files"}
Refused == {"bad request", "no content", "pin required", "rejected"}
Waiting == {"gate", "passed", "queueing", "waiting", "accepted"}
Answers == Refused \cup {"message ok", "session"}

Step(r, from, to) == hpc[r] = from /\ hpc' = [hpc EXCEPT ![r] = to]

Init ==
  /\ pin \in Pins \cup {NoPin} /\ autoAccept \in BOOLEAN
  /\ hpc = [r \in Reqs |-> "idle"]
  /\ kind = [r \in Reqs |-> "bad"]
  /\ given = [r \in Reqs |-> NoPin]
  /\ reply = [r \in Reqs |-> "none"]
  /\ accepts = <<>> /\ messages = <<>>
  /\ bridge = Nil /\ pending = Nil /\ inbox = <<>>
  /\ prompted = {} /\ decided = [r \in Reqs |-> "none"]

-----------------------------------------------------------------------------
(* handlePrepareUpload *)

\* The body is decoded: unreadable, no files, one text file with a preview
\* (messageOf), or files.
Request(r, k, p) ==
  /\ Step(r, "idle", CASE k = "bad"   -> "bad request"
                       [] k = "empty" -> "no content"
                       [] OTHER       -> "gate")
  /\ kind' = [kind EXCEPT ![r] = k]
  /\ given' = [given EXCEPT ![r] = p]
  /\ UNCHANGED <<settingVars, reply, accepts, messages, uiVars>>

\* The PIN gate: s.pin is read under the lock, an empty one lets all pass.
PinGate(r) ==
  /\ Step(r, "gate", IF pin # NoPin /\ given[r] # pin THEN "pin required" ELSE "passed")
  /\ UNCHANGED <<settingVars, kind, given, reply, accepts, messages, uiVars>>

\* emitMessage: the select has a default, so a full channel drops the message;
\* the sender is answered 200 either way.
TakeMessage(r) ==
  /\ kind[r] = "message"
  /\ Step(r, "passed", "message ok")
  /\ messages' = IF Len(messages) < MessagesCap THEN Append(messages, r) ELSE messages
  /\ UNCHANGED <<settingVars, kind, given, reply, accepts, uiVars>>

\* askAccept
AskAuto(r) ==
  /\ kind[r] = "files" /\ autoAccept
  /\ Step(r, "passed", "accepted")
  /\ UNCHANGED <<settingVars, kind, given, reply, accepts, messages, uiVars>>

AskUser(r) ==
  /\ kind[r] = "files" /\ ~autoAccept
  /\ Step(r, "passed", "queueing")
  /\ UNCHANGED <<settingVars, kind, given, reply, accepts, messages, uiVars>>

EnqueueBroken(r) ==
  /\ Step(r, "queueing", "waiting")
  /\ accepts' = Append(accepts, r)
  /\ UNCHANGED <<settingVars, kind, given, reply, messages, uiVars>>

Enqueue(r) ==
  /\ Len(accepts) < AcceptsCap
  /\ Step(r, "queueing", "waiting")
  /\ accepts' = Append(accepts, r)
  /\ UNCHANGED <<settingVars, kind, given, reply, messages, uiVars>>

\* 2 s with a full channel: "nobody draining the prompt channel".
EnqueueTimeout(r) ==
  /\ Len(accepts) = AcceptsCap
  /\ Step(r, "queueing", "rejected")
  /\ UNCHANGED <<settingVars, kind, given, reply, accepts, messages, uiVars>>

\* any answer on the channel counts as a yes
DecidedBroken(r) ==
  /\ reply[r] \in {"yes", "no"}
  /\ Step(r, "waiting", "accepted")
  /\ reply' = [reply EXCEPT ![r] = "none"]
  /\ UNCHANGED <<settingVars, kind, given, accepts, messages, uiVars>>

\* The decision arrives.
Decided(r) ==
  /\ reply[r] \in {"yes", "no"}
  /\ Step(r, "waiting", IF reply[r] = "yes" THEN "accepted" ELSE "rejected")
  /\ reply' = [reply EXCEPT ![r] = "none"]
  /\ UNCHANGED <<settingVars, kind, given, accepts, messages, uiVars>>

\* waits for the user as long as it takes
ReplyTimeoutBroken(r) ==
  /\ reply[r] # "none"
  /\ Step(r, "waiting", "rejected")
  /\ UNCHANGED <<settingVars, kind, given, reply, accepts, messages, uiVars>>

\* 60 s have passed; when the decision is there too, select takes either.
ReplyTimeout(r) ==
  /\ Step(r, "waiting", "rejected")
  /\ UNCHANGED <<settingVars, kind, given, reply, accepts, messages, uiVars>>

\* sessions.create and the 200 with the tokens.
GrantSession(r) ==
  /\ Step(r, "accepted", "session")
  /\ UNCHANGED <<settingVars, kind, given, reply, accepts, messages, uiVars>>

-----------------------------------------------------------------------------
(* BridgeServer: one goroutine, one item at a time *)

BridgeAccept ==
  /\ bridge = Nil /\ accepts # <<>>
  /\ bridge' = Head(accepts)
  /\ accepts' = Tail(accepts)
  /\ UNCHANGED <<settingVars, handlerVars, reply, messages, pending, inbox, prompted, decided>>

BridgeMessage ==
  /\ bridge = Nil /\ messages # <<>>
  /\ bridge' = Head(messages)
  /\ messages' = Tail(messages)
  /\ UNCHANGED <<settingVars, handlerVars, reply, accepts, pending, inbox, prompted, decided>>

\* waits until the screen is free
ShowPromptBroken ==
  /\ bridge # Nil /\ kind[bridge] = "files" /\ pending = Nil
  /\ pending' = bridge
  /\ prompted' = prompted \cup {bridge}
  /\ bridge' = Nil
  /\ UNCHANGED <<settingVars, handlerVars, reply, accepts, messages, inbox, decided>>

\* Update takes IncomingMsg: the request becomes the one on the screen.
ShowPrompt ==
  /\ bridge # Nil /\ kind[bridge] = "files"
  /\ pending' = bridge
  /\ prompted' = prompted \cup {bridge}
  /\ bridge' = Nil
  /\ UNCHANGED <<settingVars, handlerVars, reply, accepts, messages, inbox, decided>>

\* Update takes MessageMsg: newest first.
ShowMessage ==
  /\ bridge # Nil /\ kind[bridge] = "message"
  /\ inbox' = <<bridge>> \o inbox
  /\ bridge' = Nil
  /\ UNCHANGED <<settingVars, handlerVars, reply, accepts, messages, pending, prompted, decided>>

\* leaves the prompt on the screen
AnswerBroken(d) ==
  /\ pending # Nil
  /\ reply[pending] = "none"
  /\ reply' = [reply EXCEPT ![pending] = d]
  /\ decided' = [decided EXCEPT ![pending] = d]
  /\ UNCHANGED <<settingVars, handlerVars, accepts, messages, bridge, pending, inbox, prompted>>

\* updateAccept: y or n; the send on Reply blocks Update while it is full.
Answer(d) ==
  /\ pending # Nil
  /\ reply[pending] = "none"
  /\ reply' = [reply EXCEPT ![pending] = d]
  /\ decided' = [decided EXCEPT ![pending] = d]
  /\ pending' = Nil
  /\ UNCHANGED <<settingVars, handlerVars, accepts, messages, bridge, inbox, prompted>>

-----------------------------------------------------------------------------
(* Settings: SetPIN, SetAutoAccept *)

SetPIN(p) ==
  /\ pin' = p
  /\ UNCHANGED <<autoAccept, handlerVars, reply, accepts, messages, uiVars>>

SetAutoAccept(b) ==
  /\ autoAccept' = b
  /\ UNCHANGED <<pin, handlerVars, reply, accepts, messages, uiVars>>

-----------------------------------------------------------------------------
Handler(r) ==
  \/ PinGate(r) \/ TakeMessage(r) \/ AskAuto(r) \/ AskUser(r) \/ Enqueue(r)
  \/ EnqueueTimeout(r) \/ Decided(r) \/ ReplyTimeout(r) \/ GrantSession(r)

Bridge == BridgeAccept \/ BridgeMessage \/ ShowPrompt \/ ShowMessage

Next ==
  \/ \E r \in Reqs, k \in Kinds, p \in Pins \cup {NoPin} : Request(r, k, p)
  \/ \E r \in Reqs : Handler(r)
  \/ Bridge
  \/ \E d \in {"yes", "no"} : Answer(d)
  \/ \E p \in Pins \cup {NoPin} : SetPIN(p)
  \/ \E b \in BOOLEAN : SetAutoAccept(b)

\* Handlers run, timers fire and the TUI takes what the bridge sends.  Nothing
\* makes the user answer.
Fairness == (\A r \in Reqs : WF_avars(Handler(r))) /\ WF_avars(Bridge)

Spec == Init /\ [][Next]_avars
FairSpec == Spec /\ Fairness

-----------------------------------------------------------------------------
(* Properties *)

InQueue(q) == {q[i] : i \in 1..Len(q)}

AdmissionTypeOK ==
  /\ pin \in Pins \cup {NoPin}
  /\ autoAccept \in BOOLEAN
  /\ hpc \in [Reqs -> {"idle"} \cup Waiting \cup Answers]
  /\ kind \in [Reqs -> Kinds]
  /\ given \in [Reqs -> Pins \cup {NoPin}]
  /\ reply \in [Reqs -> {"none", "yes", "no"}]
  /\ accepts \in Seq(Reqs) /\ Len(accepts) <= AcceptsCap
  /\ messages \in Seq(Reqs) /\ Len(messages) <= MessagesCap
  /\ bridge \in Reqs \cup {Nil}
  /\ pending \in Reqs \cup {Nil}
  /\ inbox \in Seq(Reqs)
  /\ prompted \in SUBSET Reqs
  /\ decided \in [Reqs -> {"none", "yes", "no"}]

\* The key the user presses never blocks the TUI's event loop on a full Reply
\* channel, although prompts replace each other, handlers give up after 60 s
\* and nobody takes an answer that comes late.
AnswerNeverBlocks == pending # Nil => reply[pending] = "none"

\* A peer gets a session only on the user's "y" to that very request, unless
\* auto-accept let it pass unseen; an "n" is final, and so is the timeout: a
\* late "y" no longer opens the folder.
SessionNeedsConsent ==
  [][\A r \in Reqs : hpc'[r] = "accepted" /\ hpc[r] # "accepted" =>
        \/ autoAccept /\ r \notin prompted
        \/ decided[r] = "yes" /\ r # pending]_avars

\* "so a never-answered prompt can't wedge a peer's HTTP connection forever"
\* (askAccept): every request is answered, whether the user reacts or not.
RequestsAnswered == \A r \in Reqs : hpc[r] \in Waiting ~> hpc[r] \in Answers

\* What is accepted into the channels reaches the TUI.
PromptsShown == \A r \in Reqs : r \in InQueue(accepts) ~> r \in prompted

=============================================================================
