-------------------------------- MODULE Tui ---------------------------------
(***************************************************************************)
(* The desk: what internal/tui does between two keys.  Screens, the cards   *)
(* raised over them, the send that is remembered for a PIN retry, and the   *)
(* window that closes by itself after a quick send.  Update handles one     *)
(* message at a time, so each action is one message: a key, an event of a   *)
(* transfer, an incoming request or the tick of the timer.  What the user   *)
(* types, marks or deletes and whom discovery finds is any.                 *)
(***************************************************************************)
EXTENDS Naturals, Sequences, FiniteSets, Rows

CONSTANTS
  Peers,      \* devices that can be selected
  Texts,      \* messages that can be typed
  Paths,      \* files and folders that can be staged
  Files,      \* files that expand finds under the paths
  MaxCalls,   \* bound: sends handed to the controller
  Nil

ASSUME TuiAssumption ==
  /\ Nil \notin Peers \cup Texts \cup Paths \cup Files
  /\ MaxCalls \in Nat

VARIABLES
  screen,
  cards,          \* composing, addingPeer, readingMsg, showPin, editing, confirmDel, pending
  composeTo,
  target, staged, quickSend,
  sendPeer, sendPaths, pendingMsg,
  calls,          \* sends handed to the controller, in order, and how far they are
  asked,          \* history: the call whose refusal opened the PIN card that is open
  rows,
  quitAfterSend, quitPending, quitting

register == <<sendPeer, sendPaths, pendingMsg>>
picker   == <<target, staged, quickSend>>
closing  == <<quitAfterSend, quitPending, quitting>>
tvars    == <<screen, cards, composeTo, picker, register, calls, asked, rows, closing>>

Tabs       == {"peers", "transfers", "manage", "messages", "settings"}
RaisedFrom == [addPeer |-> "peers", read |-> "messages", edit |-> "settings", delete |-> "manage"]
ByHand     == {"compose"} \cup DOMAIN RaisedFrom
Cards      == ByHand \cup {"pin", "accept"}

\* Update asks for the open cards in one order, View in another.
KeyOrder  == <<"compose", "addPeer", "read", "pin", "edit", "delete", "accept">>
ViewOrder == <<"pin", "accept", "delete", "compose", "addPeer", "read">>

Topmost(order, otherwise) ==
  LET open == {i \in DOMAIN order : order[i] \in cards}
  IN  IF open = {} THEN otherwise ELSE order[CHOOSE i \in open : \A j \in open : i <= j]

\* asks for the accept card before the PIN card
ReceiverBroken ==
  Topmost(<<"compose", "addPeer", "read", "accept", "pin", "edit", "delete">>, "screen")

\* Whose handler the next key goes to, and what the user looks at.
Receiver == Topmost(KeyOrder, "screen")
Shown    == Topmost(ViewOrder, IF "edit" \in cards /\ screen = "settings" THEN "edit" ELSE "screen")

Init ==
  \E quick \in BOOLEAN :
    /\ screen = "peers" /\ cards = {} /\ composeTo = Nil
    /\ target = Nil /\ staged = (IF quick THEN Paths ELSE {}) /\ quickSend = quick
    /\ sendPeer = Nil /\ sendPaths = {} /\ pendingMsg = Nil
    /\ calls = <<>> /\ asked = 0 /\ rows = <<>>
    /\ quitAfterSend = quick /\ quitPending = FALSE /\ quitting = FALSE

-----------------------------------------------------------------------------
(* Sends: what the controller is asked, and what is kept for a retry. *)

Call(p, text, paths, pin) ==
  /\ Len(calls) < MaxCalls
  /\ calls' = Append(calls, [to |-> p, text |-> text, paths |-> paths, pin |-> pin,
                             st |-> "asking", todo |-> {}, cur |-> Nil, seen |-> FALSE])

\* does not forget the message that was sent before
SendPathsToBroken(p, paths) ==
  /\ Call(p, Nil, paths, FALSE)
  /\ sendPeer' = p /\ sendPaths' = paths /\ UNCHANGED pendingMsg

SendPathsTo(p, paths) ==
  /\ Call(p, Nil, paths, FALSE)
  /\ sendPeer' = p /\ sendPaths' = paths /\ pendingMsg' = Nil

SendTextTo(p, text) ==
  /\ Call(p, text, {}, FALSE)
  /\ sendPeer' = p /\ sendPaths' = {} /\ pendingMsg' = text

-----------------------------------------------------------------------------
(* Keys *)

Press(card) == ~quitting /\ Receiver = card
Key(s) == Press("screen") /\ screen = s

\* 1-5, tab and shift+tab: from every screen but the picker.
GoTo(s) ==
  /\ Press("screen") /\ screen # "picker"
  /\ screen' = s
  /\ UNCHANGED <<cards, composeTo, picker, register, calls, asked, rows, closing>>

\* +, enter on a message, e and d: a card over the screen.
Raise(card) ==
  /\ Key(RaisedFrom[card])
  /\ cards' = cards \cup {card}
  /\ UNCHANGED <<screen, composeTo, picker, register, calls, asked, rows, closing>>

\* Answering and cancelling differ in the data only.
Dismiss(card) ==
  /\ Press(card)
  /\ cards' = cards \ {card}
  /\ UNCHANGED <<screen, composeTo, picker, register, calls, asked, rows, closing>>

\* m and v
OpenCompose(p) ==
  /\ Key("peers")
  /\ cards' = cards \cup {"compose"} /\ composeTo' = p
  /\ UNCHANGED <<screen, picker, register, calls, asked, rows, closing>>

SendText(text) ==
  /\ Press("compose")
  /\ cards' = cards \ {"compose"} /\ composeTo' = Nil
  /\ SendTextTo(composeTo, text)
  /\ UNCHANGED <<screen, picker, asked, rows, closing>>

\* forgets to forget whom the message was for
CancelComposeBroken ==
  /\ Press("compose")
  /\ cards' = cards \ {"compose"}
  /\ UNCHANGED <<screen, composeTo, picker, register, calls, asked, rows, closing>>

\* esc, or enter on an empty text.
CancelCompose ==
  /\ Press("compose")
  /\ cards' = cards \ {"compose"} /\ composeTo' = Nil
  /\ UNCHANGED <<screen, picker, register, calls, asked, rows, closing>>

\* enter on a device while the files of the command line wait for one.
QuickSend(p) ==
  /\ Key("peers") /\ quickSend /\ staged # {}
  /\ SendPathsTo(p, staged)
  /\ staged' = {} /\ quickSend' = FALSE /\ screen' = "transfers"
  /\ UNCHANGED <<cards, composeTo, target, asked, rows, closing>>

OpenPicker(p) ==
  /\ Key("peers") /\ ~(quickSend /\ staged # {})
  /\ target' = p /\ staged' = {} /\ screen' = "picker"
  /\ UNCHANGED <<cards, composeTo, quickSend, register, calls, asked, rows, closing>>

ToggleStage(d) ==
  /\ Key("picker")
  /\ staged' = IF d \in staged THEN staged \ {d} ELSE staged \cup {d}
  /\ UNCHANGED <<screen, cards, composeTo, target, quickSend, register, calls, asked, rows, closing>>

SendStaged ==
  /\ Key("picker") /\ staged # {}
  /\ SendPathsTo(target, staged)
  /\ staged' = {} /\ screen' = "transfers"
  /\ UNCHANGED <<cards, composeTo, target, quickSend, asked, rows, closing>>

LeavePicker ==
  /\ Key("picker")
  /\ screen' = "peers"
  /\ UNCHANGED <<cards, composeTo, picker, register, calls, asked, rows, closing>>

\* c
ClearFinished ==
  /\ Key("transfers")
  /\ rows' = [k \in {key \in DOMAIN rows : rows[key] = "active"} |-> rows[k]]
  /\ UNCHANGED <<screen, cards, composeTo, picker, register, calls, asked, closing>>

ClosePin == cards' = cards \ {"pin"} /\ asked' = 0

\* updatePin on enter: the message, which is forgotten,
RetryText ==
  /\ Press("pin") /\ sendPeer # Nil /\ pendingMsg # Nil
  /\ ClosePin
  /\ Call(sendPeer, pendingMsg, {}, TRUE)
  /\ pendingMsg' = Nil
  /\ UNCHANGED <<screen, composeTo, picker, sendPeer, sendPaths, rows, closing>>

\* or the files, which are not.
RetryPaths ==
  /\ Press("pin") /\ sendPeer # Nil /\ pendingMsg = Nil
  /\ ClosePin /\ screen' = "transfers"
  /\ Call(sendPeer, Nil, sendPaths, TRUE)
  /\ UNCHANGED <<composeTo, picker, register, rows, closing>>

\* esc, ctrl+c, or enter without a PIN.
CancelPin ==
  /\ Press("pin")
  /\ ClosePin
  /\ UNCHANGED <<screen, composeTo, picker, register, calls, rows, closing>>

\* updateAccept
Accept ==
  /\ Press("accept")
  /\ cards' = cards \ {"accept"} /\ screen' = "transfers"
  /\ UNCHANGED <<composeTo, picker, register, calls, asked, rows, closing>>

Decline ==
  /\ Press("accept")
  /\ cards' = cards \ {"accept"}
  /\ UNCHANGED <<screen, composeTo, picker, register, calls, asked, rows, closing>>

\* q or ctrl+c; in the settings form ctrl+c.
Quit ==
  /\ Press("screen") \/ Press("edit")
  /\ quitting' = TRUE
  /\ UNCHANGED <<screen, cards, composeTo, picker, register, calls, asked, rows, quitAfterSend, quitPending>>

-----------------------------------------------------------------------------
(* Messages from the other goroutines *)

\* IncomingMsg.  A quick send runs without a receiver.
Incoming ==
  /\ ~quitting /\ ~quitAfterSend
  /\ cards' = cards \cup {"accept"}
  /\ UNCHANGED <<screen, composeTo, picker, register, calls, asked, rows, closing>>

AllSendsDoneOK(shown) == DOMAIN shown # {} /\ \A k \in DOMAIN shown : shown[k] = "done"

\* arms the timer once and for all
ApplyTransferBroken(key, kind) ==
  /\ rows' = Filed(rows, [key |-> key, kind |-> kind])
  /\ quitPending' = (quitPending \/ (quitAfterSend /\ DOMAIN rows = {}))
  /\ UNCHANGED <<quitAfterSend, quitting>>

\* A TransferMsg that is no refusal: applyTransfer, then maybeScheduleQuit.
ApplyTransfer(key, kind) ==
  /\ rows' = Filed(rows, [key |-> key, kind |-> kind])
  /\ quitPending' = (quitPending \/ (quitAfterSend /\ AllSendsDoneOK(rows')))
  /\ UNCHANGED <<quitAfterSend, quitting>>

Running(c, st) == ~quitting /\ calls[c].st = st
Asks(c) == Running(c, "asking") /\ (calls[c].text # Nil \/ calls[c].paths # {})
Over(c) == calls' = [calls EXCEPT ![c].st = "over"]

\* The loop of send: it returns after the last file.  Of the file under way the
\* window has seen an event, or not yet.
Loop(c, todo, cur, seen) ==
  calls' = [calls EXCEPT ![c].st = IF todo = {} /\ cur = Nil THEN "over" ELSE "pushing",
                         ![c].todo = todo, ![c].cur = cur, ![c].seen = seen]

\* emit drops an event that finds the channel full.  (A dropped refusal or failure
\* of a message looks to the window like a send that was Silent or Answered.)
Dropped == UNCHANGED <<rows, closing>>

\* 401: a TransferMsg that opens the PIN card.
PinRequired(c) ==
  /\ Asks(c) /\ Over(c)
  /\ cards' = cards \cup {"pin"} /\ asked' = c
  /\ UNCHANGED <<screen, composeTo, picker, register, rows, closing>>

\* A message that arrives, and a send without paths, leave no trace.
Silent(c) ==
  /\ Running(c, "asking") /\ calls[c].paths = {} /\ Over(c)
  /\ UNCHANGED <<screen, cards, composeTo, picker, register, asked, rows, closing>>

\* The events of failed messages and of paths that cannot be read have no id:
\* all of them share one row.
MessageFails(c) ==
  /\ Running(c, "asking") /\ calls[c].text # Nil /\ Over(c)
  /\ ApplyTransfer(<<0, Nil>>, "Error")
  /\ UNCHANGED <<screen, cards, composeTo, picker, register, asked>>

Unreadable(c) ==
  /\ Running(c, "asking") /\ calls[c].paths # {}
  /\ ApplyTransfer(<<0, Nil>>, "Error")
  /\ UNCHANGED calls
  /\ UNCHANGED <<screen, cards, composeTo, picker, register, asked>>

\* The peer has answered: these files are to be reported on; none after
\* a 204, or if expand found none.
Answered(c, fs) ==
  /\ Running(c, "asking") /\ calls[c].paths # {}
  /\ Loop(c, fs, Nil, FALSE)
  /\ UNCHANGED <<screen, cards, composeTo, picker, register, asked, rows, closing>>

StartFile(c, f) ==
  /\ Running(c, "pushing") /\ calls[c].cur = Nil /\ f \in calls[c].todo
  /\ \/ Loop(c, calls[c].todo \ {f}, f, TRUE) /\ ApplyTransfer(<<c, f>>, "Start")
     \/ Loop(c, calls[c].todo \ {f}, f, FALSE) /\ Dropped
  /\ UNCHANGED <<screen, cards, composeTo, picker, register, asked>>

\* Progress of a file whose Start was dropped; later ones change nothing here.
Progress(c) ==
  /\ Running(c, "pushing") /\ calls[c].cur # Nil /\ ~calls[c].seen
  /\ Loop(c, calls[c].todo, calls[c].cur, TRUE)
  /\ ApplyTransfer(<<c, calls[c].cur>>, "Start")
  /\ UNCHANGED <<screen, cards, composeTo, picker, register, asked>>

EndFile(c, kind) ==
  /\ Running(c, "pushing") /\ calls[c].cur # Nil
  /\ Loop(c, calls[c].todo, Nil, FALSE)
  /\ ApplyTransfer(<<c, calls[c].cur>>, kind) \/ Dropped
  /\ UNCHANGED <<screen, cards, composeTo, picker, register, asked>>

\* Refused with its batch, unreadable, or left over when the batch was aborted.
SkipFile(c, f, kind) ==
  /\ Running(c, "pushing") /\ calls[c].cur = Nil /\ f \in calls[c].todo
  /\ Loop(c, calls[c].todo \ {f}, Nil, FALSE)
  /\ ApplyTransfer(<<c, f>>, kind) \/ Dropped
  /\ UNCHANGED <<screen, cards, composeTo, picker, register, asked>>

\* closes without looking again
AutoQuitBroken ==
  /\ ~quitting /\ quitPending
  /\ quitPending' = FALSE
  /\ quitting' = TRUE
  /\ UNCHANGED <<screen, cards, composeTo, picker, register, calls, asked, rows, quitAfterSend>>

\* autoQuitMsg
AutoQuit ==
  /\ ~quitting /\ quitPending
  /\ quitPending' = FALSE
  /\ quitting' = AllSendsDoneOK(rows)
  /\ UNCHANGED <<screen, cards, composeTo, picker, register, calls, asked, rows, quitAfterSend>>

-----------------------------------------------------------------------------
Closed == quitting /\ UNCHANGED tvars

Keys ==
  \/ \E s \in Tabs : GoTo(s)
  \/ \E card \in DOMAIN RaisedFrom : Raise(card) \/ Dismiss(card)
  \/ \E p \in Peers : OpenCompose(p) \/ QuickSend(p) \/ OpenPicker(p)
  \/ \E text \in Texts : SendText(text)
  \/ \E d \in Paths : ToggleStage(d)
  \/ CancelCompose \/ SendStaged \/ LeavePicker \/ ClearFinished
  \/ RetryText \/ RetryPaths \/ CancelPin \/ Accept \/ Decline \/ Quit

Events(c) ==
  \/ PinRequired(c) \/ Silent(c) \/ MessageFails(c) \/ Unreadable(c) \/ Progress(c)
  \/ \E fs \in SUBSET Files : Answered(c, fs)
  \/ \E f \in Files : StartFile(c, f)
  \/ \E kind \in DOMAIN Outcome : EndFile(c, kind)
  \/ \E f \in Files, kind \in {"Error", "Cancel"} : SkipFile(c, f, kind)

Next ==
  \/ Keys \/ Incoming \/ AutoQuit \/ Closed
  \/ \E c \in DOMAIN calls : Events(c)

Spec == Init /\ [][Next]_tvars

-----------------------------------------------------------------------------
(* Properties *)

CallRecord ==
  [to : Peers, text : Texts \cup {Nil}, paths : SUBSET Paths, pin : BOOLEAN,
   st : {"asking", "pushing", "over"}, todo : SUBSET Files, cur : Files \cup {Nil}, seen : BOOLEAN]

RowKeys == ((1..Len(calls)) \X Files) \cup {<<0, Nil>>}

TuiTypeOK ==
  /\ screen \in Tabs \cup {"picker"} /\ cards \in SUBSET Cards
  /\ composeTo \in Peers \cup {Nil} /\ ("compose" \in cards <=> composeTo # Nil)
  /\ target \in Peers \cup {Nil} /\ (screen = "picker" => target # Nil)
  /\ staged \in SUBSET Paths /\ quickSend \in BOOLEAN
  /\ sendPeer \in Peers \cup {Nil} /\ sendPaths \in SUBSET Paths /\ pendingMsg \in Texts \cup {Nil}
  /\ calls \in Seq(CallRecord) /\ Len(calls) <= MaxCalls
  /\ asked \in 0..Len(calls) /\ ("pin" \in cards <=> asked # 0)
  /\ DOMAIN rows \subseteq RowKeys
  /\ \A k \in DOMAIN rows : rows[k] \in RowStates
  /\ quitAfterSend \in BOOLEAN /\ quitPending \in BOOLEAN /\ quitting \in BOOLEAN

\* A yes to an incoming transfer is given with its prompt on the screen, and of the
\* cards the user raises one is open at a time, whatever arrives in between.
CardsSound ==
  /\ Receiver = "accept" => Shown = "accept"
  /\ Cardinality(cards \cap ByHand) <= 1

\* What a view shows is what the keys act on ("Focused prompts take over the
\* window", View): false, because View and Update ask for the cards in
\* different orders and a prompt may arrive over an open card.
KeysGoToCardShown == quitting \/ Receiver = Shown

Repeats(call, refused) ==
  call.to = refused.to /\ call.text = refused.text /\ call.paths = refused.paths

Retried == Len(calls') > Len(calls) /\ calls'[Len(calls')].pin

\* The PIN card repeats the refused send, if nothing was sent after it and it
\* is not a message whose first PIN was wrong.
RetryRepeats ==
  [][Retried /\ asked = Len(calls) /\ ~(calls[asked].text # Nil /\ calls[asked].pin)
       => Repeats(calls'[Len(calls')], calls[asked])]_tvars

\* "so the PIN retry resends the right thing": false without those conditions.
RetryResendsRefused == [][Retried => Repeats(calls'[Len(calls')], calls[asked])]_tvars

\* While a finished quick send is on the screen a tick is on its way: the window
\* does not linger.
AutoCloseArmed == quitAfterSend /\ ~quitting /\ AllSendsDoneOK(rows) => quitPending

\* The window does not close by itself on a file under way it was told of, also
\* when its timer was set after an earlier file or for an earlier send: the rows
\* that autoQuitMsg looks at are up to date whatever was cleared or dropped.
ClosesWhenDone ==
  [][quitPending /\ quitting' /\ ~quitPending'
       => \A c \in DOMAIN calls : ~(calls[c].cur # Nil /\ calls[c].seen)]_tvars

=============================================================================
