------------------------------- MODULE Sender -------------------------------
(***************************************************************************)
(* internal/client as the TUI uses it: Sender.send, one goroutine per       *)
(* batch, with the map of running sends that lets a newer batch supersede   *)
(* an older one.  The peer and the network are any that answer, refuse,     *)
(* fail or stay silent.  Of the events only the final one of each file is   *)
(* kept, as report: sending them never blocks, so they steer nothing here.  *)
(*                                                                         *)
(* An operator whose name ends in "Broken" is never used: it is a mistake   *)
(* one could make in the operator defined after it, kept here to see that a *)
(* property notices.                                                        *)
(***************************************************************************)

CONSTANTS
  Sends,      \* batches, one goroutine each
  Peers,      \* peer IPs
  Files,      \* the files a batch can consist of
  Nil

ASSUME SenderAssumption == Nil \notin Sends \cup Peers \cup Files

VARIABLES
  active,     \* Sender.active: the send in charge of each peer, or Nil
  ended,      \* sends whose context is cancelled
  spc,        \* program counter of each send
  to,         \* its peer
  owed,       \* the files whose fate the send has to report
  todo,       \* files its loop has yet to look at
  cur,        \* the file being uploaded
  pushed,     \* files whose upload request went out on the network
  report      \* report[x][f]: what the final event of a file said

sendVars == <<spc, to, owed, todo, cur, pushed>>
svars == <<active, ended, sendVars, report>>

Handling == {"open", "push", "uploading", "ok", "broken", "unreadable"}
Running == {"expand", "prepare", "asking", "refused", "next", "exit"} \cup Handling

Goto(x, from, next) == spc[x] = from /\ spc' = [spc EXCEPT ![x] = next]

Tell(x, f, fate) == report' = [report EXCEPT ![x][f] = fate]
Fate(x) == IF x \in ended THEN "cancelled" ELSE "error"

Init ==
  /\ active = [p \in Peers |-> Nil] /\ ended = {}
  /\ spc = [x \in Sends |-> "idle"] /\ to = [x \in Sends |-> Nil]
  /\ owed = [x \in Sends |-> {}] /\ todo = [x \in Sends |-> {}]
  /\ cur = [x \in Sends |-> Nil] /\ pushed = [x \in Sends |-> {}]
  /\ report = [x \in Sends |-> [f \in Files |-> "none"]]

-----------------------------------------------------------------------------
(* send *)

\* The batch takes charge of its peer and ends the one that had it.
Start(x, p) ==
  /\ Goto(x, "idle", "expand")
  /\ to' = [to EXCEPT ![x] = p]
  /\ ended' = IF active[p] = Nil THEN ended ELSE ended \cup {active[p]}
  /\ active' = [active EXCEPT ![p] = x]
  /\ UNCHANGED <<owed, todo, cur, pushed, report>>

\* expand: the files that can be read are the batch.
Expand(x, found) ==
  /\ Goto(x, "expand", IF found = {} THEN "exit" ELSE "prepare")
  /\ owed' = [owed EXCEPT ![x] = found]
  /\ UNCHANGED <<active, ended, to, todo, cur, pushed, report>>

\* prepareUpload: a request on a context that is over does not go out.
Ask(x) ==
  /\ Goto(x, "prepare", IF x \in ended THEN "refused" ELSE "asking")
  /\ UNCHANGED <<active, ended, to, owed, todo, cur, pushed, report>>

\* 200 with tokens, for all files or some, or 204 with none.
Granted(x, fs) ==
  /\ Goto(x, "asking", "next")
  /\ owed' = [owed EXCEPT ![x] = fs]
  /\ todo' = [todo EXCEPT ![x] = fs]
  /\ UNCHANGED <<active, ended, to, cur, pushed, report>>

\* 401: one signal for the whole batch, which opens the PIN prompt.
PinRequired(x) ==
  /\ Goto(x, "asking", "exit")
  /\ owed' = [owed EXCEPT ![x] = {}]
  /\ UNCHANGED <<active, ended, to, todo, cur, pushed, report>>

\* Another status, a broken connection, 30 s without an answer, the context.
AskFails(x) ==
  /\ Goto(x, "asking", "refused")
  /\ UNCHANGED <<active, ended, to, owed, todo, cur, pushed, report>>

AskAborts(x) == x \in ended /\ AskFails(x)

\* An error event for each file, also when the batch was superseded.
ReportRefused(x) ==
  /\ Goto(x, "refused", "exit")
  /\ report' = [report EXCEPT ![x] = [f \in Files |-> IF f \in owed[x] THEN "error" ELSE @[f]]]
  /\ UNCHANGED <<active, ended, to, owed, todo, cur, pushed>>

\* leaves the loop when the context is over
SkipBroken(x, f) ==
  /\ f \in todo[x] /\ x \in ended
  /\ Goto(x, "next", "exit")
  /\ UNCHANGED <<active, ended, to, owed, todo, cur, pushed, report>>

\* The range over the token map takes the files in any order; those that are
\* left when the context is over are reported and not sent.
Skip(x, f) ==
  /\ spc[x] = "next" /\ f \in todo[x] /\ x \in ended
  /\ todo' = [todo EXCEPT ![x] = @ \ {f}]
  /\ Tell(x, f, "cancelled")
  /\ UNCHANGED <<active, ended, spc, to, owed, cur, pushed>>

\* forgets which file it is at
TakeBroken(x, f) ==
  /\ f \in todo[x] /\ x \notin ended
  /\ Goto(x, "next", "open")
  /\ todo' = [todo EXCEPT ![x] = @ \ {f}]
  /\ UNCHANGED <<active, ended, to, owed, cur, pushed, report>>

Take(x, f) ==
  /\ f \in todo[x] /\ x \notin ended
  /\ Goto(x, "next", "open")
  /\ todo' = [todo EXCEPT ![x] = @ \ {f}]
  /\ cur' = [cur EXCEPT ![x] = f]
  /\ UNCHANGED <<active, ended, to, owed, pushed, report>>

\* uploadFile: os.Open.
OpenFile(x) ==
  /\ Goto(x, "open", "push")
  /\ UNCHANGED <<active, ended, to, owed, todo, cur, pushed, report>>

OpenFails(x) ==
  /\ Goto(x, "open", "unreadable")
  /\ UNCHANGED <<active, ended, to, owed, todo, cur, pushed, report>>

\* makes the request without the context
PushBroken(x) ==
  /\ Goto(x, "push", "uploading")
  /\ pushed' = [pushed EXCEPT ![x] = @ \cup {cur[x]}]
  /\ UNCHANGED <<active, ended, to, owed, todo, cur, report>>

\* http.Do: as in Ask, nothing goes out on a context that is over.
Push(x) ==
  /\ Goto(x, "push", IF x \in ended THEN "broken" ELSE "uploading")
  /\ pushed' = [pushed EXCEPT ![x] = IF x \in ended THEN @ ELSE @ \cup {cur[x]}]
  /\ UNCHANGED <<active, ended, to, owed, todo, cur, report>>

UploadOK(x) ==
  /\ Goto(x, "uploading", "ok")
  /\ UNCHANGED <<active, ended, to, owed, todo, cur, pushed, report>>

UploadFails(x) ==
  /\ Goto(x, "uploading", "broken")
  /\ UNCHANGED <<active, ended, to, owed, todo, cur, pushed, report>>

\* hears of its context only before the request goes out
UploadAbortsBroken(x) == x \in ended /\ cur[x] \notin pushed[x] /\ UploadFails(x)
UploadAborts(x) == x \in ended /\ UploadFails(x)

ReportDone(x) ==
  /\ Goto(x, "ok", "next")
  /\ Tell(x, cur[x], "done")
  /\ UNCHANGED <<active, ended, to, owed, todo, cur, pushed>>

\* goes on with the next file
ReportFailureBroken(x) ==
  /\ Goto(x, "broken", "next")
  /\ Tell(x, cur[x], Fate(x))
  /\ UNCHANGED <<active, ended, to, owed, todo, cur, pushed>>

\* The peer or the session is gone: the rest of the batch goes with it.
ReportFailure(x) ==
  /\ Goto(x, "broken", "next")
  /\ Tell(x, cur[x], Fate(x))
  /\ ended' = ended \cup {x}
  /\ UNCHANGED <<active, to, owed, todo, cur, pushed>>

\* Only this file is: the batch goes on.
ReportUnreadable(x) ==
  /\ Goto(x, "unreadable", "next")
  /\ Tell(x, cur[x], Fate(x))
  /\ UNCHANGED <<active, ended, to, owed, todo, cur, pushed>>

LoopEnds(x) ==
  /\ todo[x] = {}
  /\ Goto(x, "next", "exit")
  /\ UNCHANGED <<active, ended, to, owed, todo, cur, pushed, report>>

\* deletes the entry whoever has it by now
ExitBroken(x) ==
  /\ Goto(x, "exit", "done")
  /\ ended' = ended \cup {x}
  /\ active' = [active EXCEPT ![to[x]] = Nil]
  /\ UNCHANGED <<to, owed, todo, cur, pushed, report>>

\* The deferred function.
Exit(x) ==
  /\ Goto(x, "exit", "done")
  /\ ended' = ended \cup {x}
  /\ active' = [active EXCEPT ![to[x]] = IF @ = x THEN Nil ELSE @]
  /\ UNCHANGED <<to, owed, todo, cur, pushed, report>>

-----------------------------------------------------------------------------
\* Every batch ran: nothing is left to do.
AllSent == /\ \A x \in Sends : spc[x] = "done"
           /\ UNCHANGED svars

\* What a send does by itself, and what a cancelled context makes of its calls.
Local(x) ==
  \/ \E fs \in SUBSET Files : Expand(x, fs)
  \/ \E f \in Files : Skip(x, f) \/ Take(x, f)
  \/ Ask(x) \/ AskAborts(x) \/ ReportRefused(x) \/ OpenFile(x) \/ OpenFails(x) \/ Push(x) \/ UploadAborts(x)
  \/ ReportDone(x) \/ ReportFailure(x) \/ ReportUnreadable(x) \/ LoopEnds(x) \/ Exit(x)

\* What the peer and the network make of them.
Network(x) ==
  \/ \E fs \in SUBSET owed[x] : Granted(x, fs)
  \/ PinRequired(x) \/ AskFails(x) \/ UploadOK(x) \/ UploadFails(x)

Next ==
  \/ \E x \in Sends, p \in Peers : Start(x, p)
  \/ \E x \in Sends : Local(x) \/ Network(x)
  \/ AllSent

\* The Go scheduler.  No peer needs to answer.
LocalFairness == \A x \in Sends : WF_svars(Local(x))

Spec == Init /\ [][Next]_svars
FairSpec == Spec /\ LocalFairness

-----------------------------------------------------------------------------
(* Properties *)

SenderTypeOK ==
  /\ active \in [Peers -> Sends \cup {Nil}]
  /\ ended \in SUBSET Sends
  /\ spc \in [Sends -> {"idle", "done"} \cup Running]
  /\ to \in [Sends -> Peers \cup {Nil}]
  /\ \A x \in Sends : spc[x] # "idle" => to[x] \in Peers
  /\ owed \in [Sends -> SUBSET Files]
  /\ todo \in [Sends -> SUBSET Files]
  /\ cur \in [Sends -> Files \cup {Nil}]
  /\ \A x \in Sends : spc[x] \in Handling => cur[x] \in Files
  /\ pushed \in [Sends -> SUBSET Files]
  /\ report \in [Sends -> [Files -> {"none", "done", "error", "cancelled"}]]

\* "A new transfer to a peer supersedes any still-running one to the same peer":
\* of the sends to one peer at most the newest has a live context, however the
\* older ones' deferred clean-ups fall between the starts of newer ones.
OneInCharge ==
  \A x \in Sends : spc[x] \in Running /\ x \notin ended => active[to[x]] = x

\* Every file that is owed a report gets one and only one, also when a failure or a
\* newer send cuts the loop short.
ToldOnceEach ==
  \A x \in Sends :
    /\ \A f \in todo[x] : report[x][f] = "none"
    /\ spc[x] \in Handling => report[x][cur[x]] = "none" /\ cur[x] \notin todo[x]
    /\ spc[x] \in {"exit", "done"} => \A f \in owed[x] : report[x][f] # "none"

\* "Any other failure means the peer/session is gone, so abort the rest of the
\* batch": of the files pushed to a peer at most one fails, the others are done
\* or were being pushed when the batch ended.
Failed == {"error", "cancelled"}
FailsOnce ==
  \A x \in Sends : \A f, g \in pushed[x] :
    report[x][f] \in Failed /\ report[x][g] \in Failed => f = g

\* A file that is still waiting when its batch is superseded or fails never goes
\* out: "a half-finished old batch can't carry on".
HaltedNeverPushed == [][\A x \in ended : pushed'[x] = pushed[x]]_svars

\* A superseded batch ends, be its peer as silent as it may.
SupersededEnds == \A x \in Sends : x \in ended ~> spc[x] = "done"

=============================================================================
