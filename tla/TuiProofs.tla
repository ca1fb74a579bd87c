----------------------------- MODULE TuiProofs ------------------------------
(***************************************************************************)
(* Theorems about Tui for any number of devices, messages, paths, files     *)
(* and sends.                                                               *)
(***************************************************************************)
EXTENDS Tui, FiniteSetTheorems, TLAPS

-----------------------------------------------------------------------------
(* Where a key goes *)

\* Of the open cards one is the first to be asked for.
LEMMA FirstOpen ==
  ASSUME NEW open \in SUBSET (1..7), open # {}
  PROVE  \E i \in open : \A j \in open : i <= j
<1>1. CASE 1 \in open
  BY <1>1
<1>2. CASE 1 \notin open /\ 2 \in open
  BY <1>2
<1>3. CASE {1, 2} \cap open = {} /\ 3 \in open
  BY <1>3
<1>4. CASE {1, 2, 3} \cap open = {} /\ 4 \in open
  BY <1>4
<1>5. CASE {1, 2, 3, 4} \cap open = {} /\ 5 \in open
  BY <1>5
<1>6. CASE {1, 2, 3, 4, 5} \cap open = {} /\ 6 \in open
  BY <1>6
<1>7. CASE {1, 2, 3, 4, 5, 6} \cap open = {}
  <2>1. \A i \in open : i = 7
    <3>1. TAKE i \in open
    <3>2. i \in 1..7 /\ i \notin {1, 2, 3, 4, 5, 6}
      BY <1>7
    <3> QED
      BY <3>2
  <2>2. PICK i \in open : TRUE
    OBVIOUS
  <2>3. \A j \in open : i <= j
    BY <2>1
  <2> QED
    BY <2>3
<1> QED
  BY <1>1, <1>2, <1>3, <1>4, <1>5, <1>6, <1>7

\* A key goes to a card that is open, and to the screen only if none is.
LEMMA ReceiverIsOpen ==
  /\ Receiver # "screen" => Receiver \in cards
  /\ Receiver = "screen" => cards \cap Cards = {}
<1> DEFINE open == {i \in DOMAIN KeyOrder : KeyOrder[i] \in cards}
<1>1. DOMAIN KeyOrder = 1..7
  BY DEF KeyOrder
<1>2. \A i \in 1..7 : KeyOrder[i] # "screen"
  BY DEF KeyOrder
<1>3. \A card \in Cards : \E i \in 1..7 : KeyOrder[i] = card
  <2>1. Cards = {"compose", "addPeer", "read", "edit", "delete", "pin", "accept"}
    BY DEF Cards, ByHand, RaisedFrom
  <2>2. /\ KeyOrder[1] = "compose" /\ KeyOrder[2] = "addPeer" /\ KeyOrder[3] = "read" /\ KeyOrder[4] = "pin"
        /\ KeyOrder[5] = "edit" /\ KeyOrder[6] = "delete" /\ KeyOrder[7] = "accept"
    BY DEF KeyOrder
  <2> QED
    BY <2>1, <2>2
<1>4. CASE open = {}
  <2>1. Receiver = "screen"
    BY <1>4 DEF Receiver, Topmost
  <2>2. cards \cap Cards = {}
    BY <1>1, <1>3, <1>4
  <2> QED
    BY <2>1, <2>2
<1>5. CASE open # {}
  <2> DEFINE first == CHOOSE i \in open : \A j \in open : i <= j
  <2>1. \E i \in open : \A j \in open : i <= j
    BY <1>1, <1>5, FirstOpen
  <2>2. first \in open
    BY <2>1
  <2>3. Receiver = KeyOrder[first]
    BY <1>5 DEF Receiver, Topmost
  <2> QED
    BY <1>1, <1>2, <2>2, <2>3
<1> QED
  BY <1>4, <1>5

-----------------------------------------------------------------------------
(* The sends handed to the controller *)

Same(call, was) == /\ call.to = was.to /\ call.text = was.text
                   /\ call.paths = was.paths /\ call.pin = was.pin

\* What an event of a send leaves alone: how many there are and what they say.
Progressed ==
  /\ calls' \in Seq(CallRecord) /\ Len(calls') = Len(calls)
  /\ \A i \in 1..Len(calls) : Same(calls'[i], calls[i])

\* A new send goes to the end.
LEMMA CallAppends ==
  ASSUME calls \in Seq(CallRecord), MaxCalls \in Nat,
         NEW p \in Peers, NEW text \in Texts \cup {Nil}, NEW paths \in SUBSET Paths, NEW pin \in BOOLEAN,
         Call(p, text, paths, pin)
  PROVE  /\ calls' \in Seq(CallRecord)
         /\ Len(calls') = Len(calls) + 1 /\ Len(calls') <= MaxCalls
         /\ LET new == calls'[Len(calls')]
            IN  new.to = p /\ new.text = text /\ new.paths = paths /\ new.pin = pin
<1> DEFINE new == [to |-> p, text |-> text, paths |-> paths, pin |-> pin,
                   st |-> "asking", todo |-> {}, cur |-> Nil, seen |-> FALSE]
<1>1. new \in CallRecord
  BY DEF CallRecord
<1>2. calls' = Append(calls, new) /\ Len(calls) < MaxCalls
  BY DEF Call
<1> HIDE DEF new
<1>3. /\ calls' \in Seq(CallRecord) /\ Len(calls') = Len(calls) + 1 /\ Len(calls') <= MaxCalls
      /\ calls'[Len(calls')] = new
  BY <1>1, <1>2
<1> QED
  BY <1>3 DEF new

\* A send that ends keeps what it was for,
LEMMA OverProgresses ==
  ASSUME calls \in Seq(CallRecord), NEW c \in DOMAIN calls, Over(c)
  PROVE  Progressed
<1>1. calls' = [calls EXCEPT ![c] = [@ EXCEPT !.st = "over"]]
  BY DEF Over
<1> calls[c] \in CallRecord
  OBVIOUS
<1>2. [calls[c] EXCEPT !.st = "over"] \in CallRecord
  BY DEF CallRecord
<1>3. Same([calls[c] EXCEPT !.st = "over"], calls[c])
  BY DEF CallRecord, Same
<1> QED
  BY <1>1, <1>2, <1>3 DEF Progressed, Same

\* and so does one that goes on.
LEMMA LoopProgresses ==
  ASSUME calls \in Seq(CallRecord), NEW c \in DOMAIN calls,
         NEW todo \in SUBSET Files, NEW cur \in Files \cup {Nil}, NEW seen \in BOOLEAN,
         Loop(c, todo, cur, seen)
  PROVE  Progressed
<1> DEFINE st == IF todo = {} /\ cur = Nil THEN "over" ELSE "pushing"
           new == [calls[c] EXCEPT !.st = st, !.todo = todo, !.cur = cur, !.seen = seen]
<1>1. calls' = [calls EXCEPT ![c] = new]
  BY DEF Loop
<1>2. calls[c] \in CallRecord /\ st \in {"asking", "pushing", "over"}
  OBVIOUS
<1> HIDE DEF st
<1>3. new \in CallRecord
  BY <1>2 DEF CallRecord
<1>4. Same(new, calls[c])
  BY <1>2 DEF CallRecord, Same
<1> HIDE DEF new
<1> QED
  BY <1>1, <1>3, <1>4 DEF Progressed, Same

-----------------------------------------------------------------------------
(* Types *)

\* What the rows are once the number of sends is n.
RowsOK(shown, n) ==
  /\ DOMAIN shown \subseteq (((1..n) \X Files) \cup {<<0, Nil>>})
  /\ \A k \in DOMAIN shown : shown[k] \in RowStates

\* An event files one row and arms the timer at most.
LEMMA ApplyTyped ==
  ASSUME RowsOK(rows, Len(calls)), quitAfterSend \in BOOLEAN, quitPending \in BOOLEAN, quitting \in BOOLEAN,
         NEW key \in RowKeys, NEW kind \in Kinds, ApplyTransfer(key, kind)
  PROVE  /\ RowsOK(rows', Len(calls))
         /\ quitAfterSend' \in BOOLEAN /\ quitPending' \in BOOLEAN /\ quitting' \in BOOLEAN
<1> DEFINE ev == [key |-> key, kind |-> kind]
<1>1. rows' = Filed(rows, ev)
  BY DEF ApplyTransfer
<1>2. RowAfter(rows, ev) \in RowStates
  <2>1. CASE kind \notin DOMAIN Outcome
    BY <2>1 DEF RowAfter, RowsOK, RowStates
  <2>2. CASE kind \in DOMAIN Outcome
    <3>1. RowAfter(rows, ev) = Outcome[kind]
      BY <2>2 DEF RowAfter
    <3> QED
      BY <2>2, <3>1 DEF RowStates
  <2> QED
    BY <2>1, <2>2
<1>3. /\ DOMAIN rows' = DOMAIN rows \cup {key}
      /\ \A k \in DOMAIN rows' : rows'[k] = IF k = key THEN RowAfter(rows, ev) ELSE rows[k]
  BY <1>1 DEF Filed
<1>4. RowsOK(rows', Len(calls))
  BY <1>2, <1>3 DEF RowsOK, RowKeys
<1>5. quitAfterSend' \in BOOLEAN /\ quitPending' \in BOOLEAN /\ quitting' \in BOOLEAN
  <2>1. quitAfterSend' = quitAfterSend /\ quitting' = quitting
    BY DEF ApplyTransfer
  <2>2. quitPending' = (quitPending \/ (quitAfterSend /\ AllSendsDoneOK(rows')))
    BY DEF ApplyTransfer
  <2>3. quitPending' \in BOOLEAN
    BY <2>2
  <2> QED
    BY <2>1, <2>3
<1> QED
  BY <1>4, <1>5

\* At first nothing is open, sent or shown.
LEMMA TuiTypeInit == Init => TuiTypeOK
<1> SUFFICES ASSUME Init PROVE TuiTypeOK
  OBVIOUS
<1> USE TuiAssumption
<1>1. PICK quick \in BOOLEAN :
        staged = (IF quick THEN Paths ELSE {}) /\ quickSend = quick /\ quitAfterSend = quick
  BY DEF Init
<1>2. /\ screen = "peers" /\ cards = {} /\ composeTo = Nil /\ target = Nil
      /\ sendPeer = Nil /\ sendPaths = {} /\ pendingMsg = Nil /\ calls = <<>> /\ asked = 0 /\ rows = <<>>
      /\ quitPending = FALSE /\ quitting = FALSE
  BY DEF Init
<1>3. calls \in Seq(CallRecord) /\ Len(calls) = 0 /\ DOMAIN rows = {}
  BY <1>2
<1>4. /\ screen \in Tabs \cup {"picker"} /\ cards \in SUBSET Cards /\ screen # "picker"
      /\ "compose" \notin cards /\ "pin" \notin cards /\ staged \in SUBSET Paths
  BY <1>1, <1>2 DEF Tabs
<1>5. asked \in 0..Len(calls) /\ Len(calls) <= MaxCalls
  BY <1>2, <1>3
<1> QED
  BY <1>1, <1>2, <1>3, <1>4, <1>5 DEF TuiTypeOK

\* Keys that start no send: only the cards, the screen and the picker change.
LEMMA TypeOfKeys ==
  ASSUME TuiTypeOK, UNCHANGED <<register, calls>>,
         \/ \E s \in Tabs : GoTo(s)
         \/ \E card \in DOMAIN RaisedFrom : Raise(card) \/ Dismiss(card)
         \/ \E p \in Peers : OpenCompose(p) \/ OpenPicker(p)
         \/ \E d \in Paths : ToggleStage(d)
         \/ CancelCompose \/ LeavePicker \/ ClearFinished
         \/ CancelPin \/ Accept \/ Decline \/ Quit \/ Incoming \/ AutoQuit
  PROVE  TuiTypeOK'
<1> USE TuiAssumption DEF register, picker, closing, TuiTypeOK, Cards, ByHand, RaisedFrom, Tabs, RowKeys
<1>1. ASSUME NEW s \in Tabs, GoTo(s) PROVE TuiTypeOK'
  BY <1>1 DEF GoTo
<1>2. ASSUME NEW card \in DOMAIN RaisedFrom, Raise(card) PROVE TuiTypeOK'
  BY <1>2 DEF Raise
<1>3. ASSUME NEW card \in DOMAIN RaisedFrom, Dismiss(card) PROVE TuiTypeOK'
  BY <1>3 DEF Dismiss
<1>4. ASSUME NEW p \in Peers, OpenCompose(p) PROVE TuiTypeOK'
  BY <1>4 DEF OpenCompose
<1>5. ASSUME NEW p \in Peers, OpenPicker(p) PROVE TuiTypeOK'
  BY <1>5 DEF OpenPicker
<1>6. ASSUME NEW d \in Paths, ToggleStage(d) PROVE TuiTypeOK'
  BY <1>6 DEF ToggleStage
<1>7. CASE CancelCompose
  BY <1>7 DEF CancelCompose
<1>8. CASE LeavePicker
  BY <1>8 DEF LeavePicker
<1>9. CASE ClearFinished
  <2>1. /\ DOMAIN rows' \subseteq DOMAIN rows
        /\ \A k \in DOMAIN rows' : rows'[k] = rows[k]
    BY <1>9 DEF ClearFinished
  <2>2. /\ UNCHANGED <<screen, cards, composeTo, picker, register, calls, asked, closing>>
    BY <1>9 DEF ClearFinished
  <2>3. /\ RowKeys' = RowKeys
        /\ \A k \in DOMAIN rows' : rows'[k] \in RowStates
    BY <2>1, <2>2
  <2> QED
    BY <2>1, <2>2, <2>3
<1>10. CASE CancelPin
  BY <1>10 DEF CancelPin, ClosePin
<1>11. CASE Accept
  BY <1>11 DEF Accept
<1>15. CASE Decline
  BY <1>15 DEF Decline
<1>12. CASE Quit
  BY <1>12 DEF Quit
<1>13. CASE Incoming
  BY <1>13 DEF Incoming
<1>14. CASE AutoQuit
  BY <1>14 DEF AutoQuit, AllSendsDoneOK
<1> QED
  BY <1>1, <1>2, <1>3, <1>4, <1>5, <1>6, <1>7, <1>8, <1>9, <1>10, <1>11, <1>12, <1>13, <1>14, <1>15

\* Keys that start a send, and its retry.
LEMMA TypeOfSends ==
  ASSUME TuiTypeOK,
         \/ \E p \in Peers : QuickSend(p)
         \/ \E text \in Texts : SendText(text)
         \/ SendStaged \/ RetryText \/ RetryPaths
  PROVE  TuiTypeOK'
<1> USE TuiAssumption DEF picker, closing
<1>1. ASSUME calls' \in Seq(CallRecord), Len(calls') = Len(calls) + 1, Len(calls') <= MaxCalls,
             UNCHANGED <<rows, closing>>,
             screen' \in Tabs \cup {"picker"}, cards' \in SUBSET Cards,
             composeTo' \in Peers \cup {Nil}, "compose" \in cards' <=> composeTo' # Nil,
             target' \in Peers \cup {Nil}, screen' = "picker" => target' # Nil,
             staged' \in SUBSET Paths, quickSend' \in BOOLEAN,
             sendPeer' \in Peers \cup {Nil}, sendPaths' \in SUBSET Paths, pendingMsg' \in Texts \cup {Nil},
             asked' \in 0..Len(calls), "pin" \in cards' <=> asked' # 0
      PROVE  TuiTypeOK'
  <2>1. DOMAIN rows' \subseteq RowKeys'
    BY <1>1 DEF TuiTypeOK, RowKeys
  <2>2. asked' \in 0..Len(calls')
    BY <1>1 DEF TuiTypeOK
  <2> QED
    BY <1>1, <2>1, <2>2 DEF TuiTypeOK
<1>2. ASSUME NEW p \in Peers, QuickSend(p) PROVE TuiTypeOK'
  <2>1. Call(p, Nil, staged, FALSE)
    BY <1>2 DEF QuickSend, SendPathsTo
  <2>2. calls' \in Seq(CallRecord) /\ Len(calls') = Len(calls) + 1 /\ Len(calls') <= MaxCalls
    BY <2>1, CallAppends DEF TuiTypeOK
  <2> QED
    BY <1>1, <1>2, <2>2 DEF QuickSend, SendPathsTo, TuiTypeOK, Tabs
<1>3. ASSUME NEW text \in Texts, SendText(text) PROVE TuiTypeOK'
  <2>1. composeTo \in Peers
    BY <1>3, ReceiverIsOpen DEF SendText, Press, TuiTypeOK
  <2>2. Call(composeTo, text, {}, FALSE)
    BY <1>3 DEF SendText, SendTextTo
  <2>3. calls' \in Seq(CallRecord) /\ Len(calls') = Len(calls) + 1 /\ Len(calls') <= MaxCalls
    BY <2>1, <2>2, CallAppends DEF TuiTypeOK
  <2> QED
    BY <1>1, <1>3, <2>1, <2>3 DEF SendText, SendTextTo, TuiTypeOK
<1>4. CASE SendStaged
  <2>1. target \in Peers
    BY <1>4 DEF SendStaged, Key, TuiTypeOK
  <2>2. Call(target, Nil, staged, FALSE)
    BY <1>4 DEF SendStaged, SendPathsTo
  <2>3. calls' \in Seq(CallRecord) /\ Len(calls') = Len(calls) + 1 /\ Len(calls') <= MaxCalls
    BY <2>1, <2>2, CallAppends DEF TuiTypeOK
  <2> QED
    BY <1>1, <1>4, <2>1, <2>3 DEF SendStaged, SendPathsTo, TuiTypeOK, Tabs
<1>5. CASE RetryText
  <2>1. sendPeer \in Peers /\ pendingMsg \in Texts
    BY <1>5 DEF RetryText, TuiTypeOK
  <2>2. Call(sendPeer, pendingMsg, {}, TRUE)
    BY <1>5 DEF RetryText
  <2>3. calls' \in Seq(CallRecord) /\ Len(calls') = Len(calls) + 1 /\ Len(calls') <= MaxCalls
    BY <2>1, <2>2, CallAppends DEF TuiTypeOK
  <2> QED
    BY <1>1, <1>5, <2>1, <2>3 DEF RetryText, ClosePin, TuiTypeOK
<1>6. CASE RetryPaths
  <2>1. sendPeer \in Peers
    BY <1>6 DEF RetryPaths, TuiTypeOK
  <2>2. Call(sendPeer, Nil, sendPaths, TRUE)
    BY <1>6 DEF RetryPaths
  <2>3. calls' \in Seq(CallRecord) /\ Len(calls') = Len(calls) + 1 /\ Len(calls') <= MaxCalls
    BY <2>1, <2>2, CallAppends DEF TuiTypeOK
  <2> QED
    BY <1>1, <1>6, <2>1, <2>3 DEF RetryPaths, ClosePin, register, TuiTypeOK, Tabs
<1> QED
  BY <1>2, <1>3, <1>4, <1>5, <1>6

\* Events of a send that is under way.
LEMMA TypeOfEvents ==
  ASSUME TuiTypeOK, NEW c \in DOMAIN calls, Events(c)
  PROVE  TuiTypeOK' /\ Progressed /\ UNCHANGED register
<1> USE TuiAssumption DEF picker, register, closing
<1>1. ASSUME Progressed, UNCHANGED <<screen, composeTo, picker, register>>,
             RowsOK(rows', Len(calls)),
             quitAfterSend' \in BOOLEAN, quitPending' \in BOOLEAN, quitting' \in BOOLEAN,
             \/ UNCHANGED <<cards, asked>>
             \/ cards' = cards \cup {"pin"} /\ asked' = c
      PROVE  TuiTypeOK' /\ Progressed /\ UNCHANGED register
  <2>1. /\ calls' \in Seq(CallRecord) /\ Len(calls') = Len(calls)
        /\ c \in 1..Len(calls)
    BY <1>1 DEF Progressed, TuiTypeOK
  <2>2. DOMAIN rows' \subseteq RowKeys' /\ \A k \in DOMAIN rows' : rows'[k] \in RowStates
    BY <1>1, <2>1 DEF RowsOK, RowKeys
  <2>3. /\ cards' \in SUBSET Cards
        /\ asked' \in 0..Len(calls') /\ ("pin" \in cards' <=> asked' # 0)
        /\ "compose" \in cards' <=> "compose" \in cards
    BY <1>1, <2>1 DEF TuiTypeOK, Cards
  <2> QED
    BY <1>1, <2>1, <2>2, <2>3 DEF TuiTypeOK
<1>2. /\ calls \in Seq(CallRecord) /\ calls[c] \in CallRecord /\ RowsOK(rows, Len(calls))
      /\ quitAfterSend \in BOOLEAN /\ quitPending \in BOOLEAN /\ quitting \in BOOLEAN
  BY DEF TuiTypeOK, RowsOK, RowKeys
<1>3. /\ calls[c].todo \in SUBSET Files /\ calls[c].cur \in Files \cup {Nil}
      /\ <<0, Nil>> \in RowKeys /\ \A f \in Files : <<c, f>> \in RowKeys
  BY <1>2 DEF CallRecord, RowKeys
<1>4. "Start" \in Kinds /\ "Error" \in Kinds /\ "Cancel" \in Kinds /\ DOMAIN Outcome \subseteq Kinds
  BY DEF Kinds, Outcome
<1>5. CASE PinRequired(c)
  <2>1. Over(c) /\ Progressed
    BY <1>2, <1>5, OverProgresses DEF PinRequired
  <2> QED
    BY <1>1, <1>2, <1>5, <2>1 DEF PinRequired
<1>6. CASE Silent(c)
  <2>1. Over(c) /\ Progressed
    BY <1>2, <1>6, OverProgresses DEF Silent
  <2> QED
    BY <1>1, <1>2, <1>6, <2>1 DEF Silent
<1>7. CASE MessageFails(c)
  <2>1. Over(c) /\ Progressed
    BY <1>2, <1>7, OverProgresses DEF MessageFails
  <2>2. ApplyTransfer(<<0, Nil>>, "Error")
    BY <1>7 DEF MessageFails
  <2>3. /\ RowsOK(rows', Len(calls))
        /\ quitAfterSend' \in BOOLEAN /\ quitPending' \in BOOLEAN /\ quitting' \in BOOLEAN
    BY <1>2, <1>3, <1>4, <2>2, ApplyTyped
  <2> QED
    BY <1>1, <1>7, <2>1, <2>3 DEF MessageFails
<1>8. CASE Unreadable(c)
  <2>1. Progressed
    BY <1>2, <1>8 DEF Unreadable, Progressed, Same
  <2>2. ApplyTransfer(<<0, Nil>>, "Error")
    BY <1>8 DEF Unreadable
  <2>3. /\ RowsOK(rows', Len(calls))
        /\ quitAfterSend' \in BOOLEAN /\ quitPending' \in BOOLEAN /\ quitting' \in BOOLEAN
    BY <1>2, <1>3, <1>4, <2>2, ApplyTyped
  <2> QED
    BY <1>1, <1>8, <2>1, <2>3 DEF Unreadable
<1>9. ASSUME NEW fs \in SUBSET Files, Answered(c, fs)
      PROVE  TuiTypeOK' /\ Progressed /\ UNCHANGED register
  <2>1. Loop(c, fs, Nil, FALSE) /\ Progressed
    BY <1>2, <1>9, LoopProgresses DEF Answered
  <2> QED
    BY <1>1, <1>2, <1>9, <2>1 DEF Answered
<1>10. ASSUME NEW f \in Files, StartFile(c, f)
       PROVE  TuiTypeOK' /\ Progressed /\ UNCHANGED register
  <2>1. /\ \E seen \in BOOLEAN : Loop(c, calls[c].todo \ {f}, f, seen)
        /\ ApplyTransfer(<<c, f>>, "Start") \/ Dropped
    BY <1>10 DEF StartFile
  <2>2. Progressed
    BY <1>2, <1>3, <2>1, LoopProgresses
  <2>3. /\ RowsOK(rows', Len(calls))
        /\ quitAfterSend' \in BOOLEAN /\ quitPending' \in BOOLEAN /\ quitting' \in BOOLEAN
    BY <1>2, <1>3, <1>4, <2>1, ApplyTyped DEF Dropped
  <2> QED
    BY <1>1, <1>10, <2>2, <2>3 DEF StartFile
<1>11. ASSUME NEW kind \in DOMAIN Outcome, EndFile(c, kind)
       PROVE  TuiTypeOK' /\ Progressed /\ UNCHANGED register
  <2>1. /\ Loop(c, calls[c].todo, Nil, FALSE) /\ (ApplyTransfer(<<c, calls[c].cur>>, kind) \/ Dropped)
        /\ calls[c].cur \in Files
    BY <1>3, <1>11 DEF EndFile
  <2>2. Progressed
    BY <1>2, <1>3, <2>1, LoopProgresses
  <2>3. /\ RowsOK(rows', Len(calls))
        /\ quitAfterSend' \in BOOLEAN /\ quitPending' \in BOOLEAN /\ quitting' \in BOOLEAN
    BY <1>2, <1>3, <1>4, <2>1, ApplyTyped DEF Dropped
  <2> QED
    BY <1>1, <1>11, <2>2, <2>3 DEF EndFile
<1>12. ASSUME NEW f \in Files, NEW kind \in {"Error", "Cancel"}, SkipFile(c, f, kind)
       PROVE  TuiTypeOK' /\ Progressed /\ UNCHANGED register
  <2>1. Loop(c, calls[c].todo \ {f}, Nil, FALSE) /\ (ApplyTransfer(<<c, f>>, kind) \/ Dropped)
    BY <1>12 DEF SkipFile
  <2>2. Progressed
    BY <1>2, <1>3, <2>1, LoopProgresses
  <2>3. /\ RowsOK(rows', Len(calls))
        /\ quitAfterSend' \in BOOLEAN /\ quitPending' \in BOOLEAN /\ quitting' \in BOOLEAN
    BY <1>2, <1>3, <1>4, <2>1, ApplyTyped DEF Dropped
  <2> QED
    BY <1>1, <1>12, <2>2, <2>3 DEF SkipFile
<1>13. CASE Progress(c)
  <2>1. /\ Loop(c, calls[c].todo, calls[c].cur, TRUE) /\ ApplyTransfer(<<c, calls[c].cur>>, "Start")
        /\ calls[c].cur \in Files
    BY <1>3, <1>13 DEF Progress
  <2>2. Progressed
    BY <1>2, <1>3, <2>1, LoopProgresses
  <2>3. /\ RowsOK(rows', Len(calls))
        /\ quitAfterSend' \in BOOLEAN /\ quitPending' \in BOOLEAN /\ quitting' \in BOOLEAN
    BY <1>2, <1>3, <1>4, <2>1, ApplyTyped
  <2> QED
    BY <1>1, <1>13, <2>2, <2>3 DEF Progress
<1> QED
  BY <1>5, <1>6, <1>7, <1>8, <1>9, <1>10, <1>11, <1>12, <1>13 DEF Events

\* Every step is a key that starts no send, a key that starts one, an event of
\* a send, or none at all.
LEMMA Steps ==
  ASSUME [Next]_tvars
  PROVE  \/ /\ UNCHANGED <<register, calls>>
            /\ \/ \E s \in Tabs : GoTo(s)
               \/ \E card \in DOMAIN RaisedFrom : Raise(card) \/ Dismiss(card)
               \/ \E p \in Peers : OpenCompose(p) \/ OpenPicker(p)
               \/ \E d \in Paths : ToggleStage(d)
               \/ CancelCompose \/ LeavePicker \/ ClearFinished
               \/ CancelPin \/ Accept \/ Decline \/ Quit \/ Incoming \/ AutoQuit
         \/ \/ \E p \in Peers : QuickSend(p)
            \/ \E text \in Texts : SendText(text)
            \/ SendStaged \/ RetryText \/ RetryPaths
         \/ \E c \in DOMAIN calls : Events(c)
         \/ UNCHANGED tvars
BY DEF Next, Keys, Closed, GoTo, Raise, Dismiss, OpenCompose, OpenPicker, ToggleStage, CancelCompose,
       LeavePicker, ClearFinished, CancelPin, Accept, Decline, Quit, Incoming, AutoQuit

\* Whatever happens, the types hold on.
LEMMA TuiTypeStep == TuiTypeOK /\ [Next]_tvars => TuiTypeOK'
<1> SUFFICES ASSUME TuiTypeOK, [Next]_tvars PROVE TuiTypeOK'
  OBVIOUS
<1>1. CASE UNCHANGED tvars
  BY <1>1 DEF tvars, picker, register, closing, TuiTypeOK, RowKeys
<1>2. CASE \E c \in DOMAIN calls : Events(c)
  BY <1>2, TypeOfEvents
<1> QED
  BY <1>1, <1>2, Steps, TypeOfKeys, TypeOfSends

\* The desk stays well-typed: the compose card is open exactly while a device is
\* remembered for it and the PIN card exactly while a refusal is, the picker
\* has a target, and every row belongs to a send that was made or is the shared one.
THEOREM TuiTypeCorrect == Spec => []TuiTypeOK
<1>1. Init => TuiTypeOK
  BY TuiTypeInit
<1>2. TuiTypeOK /\ [Next]_tvars => TuiTypeOK'
  BY TuiTypeStep
<1> QED
  BY <1>1, <1>2, PTL DEF Spec

-----------------------------------------------------------------------------
(* The retry *)

\* What is remembered is the last send, save the text of a message that was
\* already retried.
Remembers ==
  Len(calls) > 0 =>
    LET last == calls[Len(calls)]
    IN  /\ sendPeer = last.to
        /\ last.text = Nil => pendingMsg = Nil /\ sendPaths = last.paths
        /\ last.text # Nil => last.paths = {}
        /\ last.text # Nil /\ ~last.pin => pendingMsg = last.text

\* A key that starts a send leaves it remembered.
LEMMA SendsRemember ==
  ASSUME TuiTypeOK,
         \/ \E p \in Peers : QuickSend(p)
         \/ \E text \in Texts : SendText(text)
         \/ SendStaged \/ RetryText \/ RetryPaths
  PROVE  Remembers'
<1> USE TuiAssumption
<1>1. ASSUME NEW p \in Peers, QuickSend(p) PROVE Remembers'
  <2>1. SendPathsTo(p, staged) /\ staged \in SUBSET Paths
    BY <1>1 DEF QuickSend, TuiTypeOK
  <2> QED
    BY <2>1, CallAppends DEF SendPathsTo, Remembers, TuiTypeOK
<1>2. ASSUME NEW text \in Texts, SendText(text) PROVE Remembers'
  <2>1. composeTo \in Peers
    BY <1>2, ReceiverIsOpen DEF SendText, Press, TuiTypeOK
  <2>2. SendTextTo(composeTo, text) /\ text # Nil
    BY <1>2 DEF SendText
  <2> QED
    BY <2>1, <2>2, CallAppends DEF SendTextTo, Remembers, TuiTypeOK
<1>3. CASE SendStaged
  <2>1. SendPathsTo(target, staged) /\ target \in Peers /\ staged \in SUBSET Paths
    BY <1>3 DEF SendStaged, Key, TuiTypeOK
  <2> QED
    BY <2>1, CallAppends DEF SendPathsTo, Remembers, TuiTypeOK
<1>4. CASE RetryText
  <2>1. Call(sendPeer, pendingMsg, {}, TRUE) /\ sendPeer \in Peers /\ pendingMsg \in Texts
    BY <1>4 DEF RetryText, TuiTypeOK
  <2>2. UNCHANGED sendPeer /\ pendingMsg # Nil
    BY <1>4 DEF RetryText
  <2> QED
    BY <2>1, <2>2, CallAppends DEF Remembers, TuiTypeOK
<1>5. CASE RetryPaths
  <2>1. Call(sendPeer, Nil, sendPaths, TRUE) /\ sendPeer \in Peers /\ sendPaths \in SUBSET Paths
    BY <1>5 DEF RetryPaths, TuiTypeOK
  <2>2. UNCHANGED register /\ pendingMsg = Nil
    BY <1>5 DEF RetryPaths
  <2> QED
    BY <2>1, <2>2, CallAppends DEF register, Remembers, TuiTypeOK
<1> QED
  BY <1>1, <1>2, <1>3, <1>4, <1>5

\* Nothing else touches what is remembered or what a send was for.
LEMMA RemembersStep == TuiTypeOK /\ Remembers /\ [Next]_tvars => Remembers'
<1> SUFFICES ASSUME TuiTypeOK, Remembers, [Next]_tvars PROVE Remembers'
  OBVIOUS
<1>1. CASE UNCHANGED <<register, calls>>
  BY <1>1 DEF register, Remembers
<1>2. CASE \E c \in DOMAIN calls : Events(c)
  <2>1. Progressed /\ UNCHANGED register
    BY <1>2, TypeOfEvents
  <2>2. Len(calls) \in Nat
    BY DEF TuiTypeOK
  <2> QED
    BY <2>1, <2>2 DEF Progressed, Same, register, Remembers
<1> QED
  BY <1>1, <1>2, Steps, SendsRemember DEF tvars

\* A step that retries is one of the two retries, and the PIN card is open.
LEMMA RetriedBy ==
  ASSUME TuiTypeOK, [Next]_tvars, Retried
  PROVE  RetryText \/ RetryPaths
<1> USE TuiAssumption
<1>1. calls \in Seq(CallRecord) /\ Len(calls) \in Nat
  BY DEF TuiTypeOK
<1>2. CASE UNCHANGED calls
  BY <1>1, <1>2 DEF Retried
<1>3. CASE \E c \in DOMAIN calls : Events(c)
  BY <1>1, <1>3, TypeOfEvents DEF Progressed, Retried
<1>4. ASSUME NEW p \in Peers, QuickSend(p) PROVE FALSE
  BY <1>4, CallAppends DEF QuickSend, SendPathsTo, Retried, TuiTypeOK
<1>5. ASSUME NEW text \in Texts, SendText(text) PROVE FALSE
  <2>1. composeTo \in Peers
    BY <1>5, ReceiverIsOpen DEF SendText, Press, TuiTypeOK
  <2> QED
    BY <1>5, <2>1, CallAppends DEF SendText, SendTextTo, Retried, TuiTypeOK
<1>6. CASE SendStaged
  <2>1. target \in Peers /\ staged \in SUBSET Paths
    BY <1>6 DEF SendStaged, Key, TuiTypeOK
  <2> QED
    BY <1>6, <2>1, CallAppends DEF SendStaged, SendPathsTo, Retried, TuiTypeOK
<1> QED
  BY <1>2, <1>3, <1>4, <1>5, <1>6, Steps DEF tvars

\* So a retry repeats what is remembered, which is the refused send.
LEMMA RetryStep ==
  TuiTypeOK /\ Remembers /\ [Next]_tvars =>
    (Retried /\ asked = Len(calls) /\ ~(calls[asked].text # Nil /\ calls[asked].pin)
       => Repeats(calls'[Len(calls')], calls[asked]))
<1> SUFFICES ASSUME TuiTypeOK, Remembers, [Next]_tvars, Retried, asked = Len(calls),
                    ~(calls[asked].text # Nil /\ calls[asked].pin)
             PROVE  Repeats(calls'[Len(calls')], calls[asked])
  OBVIOUS
<1> USE TuiAssumption
<1>1. Receiver = "pin" /\ sendPeer \in Peers
  BY RetriedBy DEF RetryText, RetryPaths, Press, TuiTypeOK
<1>2. asked # 0 /\ Len(calls) > 0
  BY <1>1, ReceiverIsOpen DEF TuiTypeOK
<1>3. CASE RetryText
  <2>1. Call(sendPeer, pendingMsg, {}, TRUE) /\ pendingMsg \in Texts
    BY <1>3 DEF RetryText, TuiTypeOK
  <2>2. calls[asked].text = pendingMsg /\ calls[asked].to = sendPeer /\ calls[asked].paths = {}
    BY <1>2, <1>3 DEF Remembers, RetryText
  <2> QED
    BY <1>1, <2>1, <2>2, CallAppends DEF Repeats, TuiTypeOK
<1>4. CASE RetryPaths
  <2>1. Call(sendPeer, Nil, sendPaths, TRUE) /\ sendPaths \in SUBSET Paths /\ pendingMsg = Nil
    BY <1>4 DEF RetryPaths, TuiTypeOK
  <2>2. calls[asked] \in CallRecord
    BY <1>2 DEF TuiTypeOK
  <2>3. calls[asked].text = Nil
    BY <1>2, <2>1, <2>2 DEF Remembers, CallRecord
  <2>4. calls[asked].to = sendPeer /\ calls[asked].paths = sendPaths
    BY <1>2, <2>3 DEF Remembers
  <2> QED
    BY <1>1, <2>1, <2>3, <2>4, CallAppends DEF Repeats, TuiTypeOK
<1> QED
  BY <1>3, <1>4, RetriedBy

\* Whatever else happens between the refusal and the PIN, a retry goes to the same
\* device with the same text and paths as the refused send, if no other send was
\* made in between and the message was not already retried (updatePin).
THEOREM RetryCorrect == Spec => RetryRepeats
<1>1. Init => TuiTypeOK /\ Remembers
  <2>1. Init => Remembers
    BY DEF Init, Remembers
  <2> QED
    BY <2>1, TuiTypeInit
<1>2. TuiTypeOK /\ Remembers /\ [Next]_tvars => TuiTypeOK' /\ Remembers'
  BY TuiTypeStep, RemembersStep
<1>3. TuiTypeOK /\ Remembers /\ [Next]_tvars =>
        [Retried /\ asked = Len(calls) /\ ~(calls[asked].text # Nil /\ calls[asked].pin)
           => Repeats(calls'[Len(calls')], calls[asked])]_tvars
  BY RetryStep
<1> QED
  BY <1>1, <1>2, <1>3, PTL DEF Spec, RetryRepeats

-----------------------------------------------------------------------------
(* The window that closes by itself *)

\* The rows are filed with the timer armed if need be, and lose none but finished ones.
LEMMA ClosingStep == TuiTypeOK /\ AutoCloseArmed /\ [Next]_tvars => AutoCloseArmed'
<1> SUFFICES ASSUME TuiTypeOK, AutoCloseArmed, [Next]_tvars PROVE AutoCloseArmed'
  OBVIOUS
<1>1. CASE UNCHANGED <<rows, closing>>
  BY <1>1 DEF closing, AutoCloseArmed, AllSendsDoneOK
<1>2. ASSUME NEW key, NEW kind, ApplyTransfer(key, kind) PROVE AutoCloseArmed'
  <2>1. /\ quitPending' = (quitPending \/ (quitAfterSend /\ AllSendsDoneOK(rows')))
        /\ quitAfterSend' = quitAfterSend
    BY <1>2 DEF ApplyTransfer
  <2> QED
    BY <2>1 DEF AutoCloseArmed, AllSendsDoneOK
<1>3. CASE ClearFinished
  <2>1. \A k \in DOMAIN rows' : rows'[k] = "active"
    BY <1>3 DEF ClearFinished
  <2>2. ~AllSendsDoneOK(rows)'
    BY <2>1 DEF AllSendsDoneOK
  <2> QED
    BY <2>2 DEF AutoCloseArmed
<1>4. CASE Quit
  BY <1>4 DEF Quit, AutoCloseArmed
<1>5. CASE AutoQuit
  <2>1. UNCHANGED rows /\ quitting' = AllSendsDoneOK(rows)
    BY <1>5 DEF AutoQuit
  <2>2. AllSendsDoneOK(rows)' => quitting'
    BY <2>1 DEF AllSendsDoneOK
  <2> QED
    BY <2>2 DEF AutoCloseArmed
<1>6. ASSUME NEW c \in DOMAIN calls, Events(c)
      PROVE  UNCHANGED <<rows, closing>> \/ \E key, kind : ApplyTransfer(key, kind)
  BY <1>6 DEF Events, PinRequired, Silent, MessageFails, Unreadable, Answered, StartFile, EndFile, SkipFile,
              Progress, Dropped
<1>7. CASE \/ \E p \in Peers : QuickSend(p)
           \/ \E text \in Texts : SendText(text)
           \/ SendStaged \/ RetryText \/ RetryPaths
  <2>1. UNCHANGED <<rows, closing>>
    BY <1>7 DEF QuickSend, SendText, SendStaged, RetryText, RetryPaths
  <2> QED
    BY <1>1, <2>1
<1>8. CASE \/ \E s \in Tabs : GoTo(s)
           \/ \E card \in DOMAIN RaisedFrom : Raise(card) \/ Dismiss(card)
           \/ \E p \in Peers : OpenCompose(p) \/ OpenPicker(p)
           \/ \E d \in Paths : ToggleStage(d)
           \/ CancelCompose \/ LeavePicker \/ CancelPin \/ Accept \/ Decline \/ Incoming
  <2>1. UNCHANGED <<rows, closing>>
    BY <1>8 DEF GoTo, Raise, Dismiss, OpenCompose, OpenPicker, ToggleStage, CancelCompose, LeavePicker,
                CancelPin, Accept, Decline, Incoming
  <2> QED
    BY <1>1, <2>1
<1> QED
  BY <1>1, <1>2, <1>3, <1>4, <1>5, <1>6, <1>7, <1>8, Steps DEF tvars

\* A quick send never lingers: as long as every row of its window is done, the tick
\* that closes it is on its way (maybeScheduleQuit, autoQuitMsg).
THEOREM AutoCloseCorrect == Spec => []AutoCloseArmed
<1>1. Init => AutoCloseArmed
  BY DEF Init, AutoCloseArmed, AllSendsDoneOK
<1>2. TuiTypeOK /\ AutoCloseArmed /\ [Next]_tvars => AutoCloseArmed'
  BY ClosingStep
<1> QED
  BY <1>1, <1>2, TuiTypeCorrect, PTL DEF Spec

-----------------------------------------------------------------------------
(* The cards *)

\* The prompt of an incoming transfer gets a key only if no other card is open, and
\* then it is what the view shows too, though the view asks for it in another order.
LEMMA PromptIsShown == Receiver = "accept" => Shown = "accept"
<1> SUFFICES ASSUME Receiver = "accept" PROVE Shown = "accept"
  OBVIOUS
<1> DEFINE open == {i \in DOMAIN KeyOrder : KeyOrder[i] \in cards}
           first == CHOOSE i \in open : \A j \in open : i <= j
           seen == {i \in DOMAIN ViewOrder : ViewOrder[i] \in cards}
<1>1. /\ DOMAIN KeyOrder = 1..7
      /\ KeyOrder[1] = "compose" /\ KeyOrder[2] = "addPeer" /\ KeyOrder[3] = "read" /\ KeyOrder[4] = "pin"
      /\ KeyOrder[5] = "edit" /\ KeyOrder[6] = "delete" /\ KeyOrder[7] = "accept"
  BY DEF KeyOrder
<1>2. /\ DOMAIN ViewOrder = 1..6
      /\ ViewOrder[1] = "pin" /\ ViewOrder[2] = "accept" /\ ViewOrder[3] = "delete"
      /\ ViewOrder[4] = "compose" /\ ViewOrder[5] = "addPeer" /\ ViewOrder[6] = "read"
  BY DEF ViewOrder
<1>3. open # {} /\ Receiver = KeyOrder[first]
  BY DEF Receiver, Topmost
<1>4. first \in open /\ \A j \in open : first <= j
  <2>1. \E i \in open : \A j \in open : i <= j
    BY <1>1, <1>3, FirstOpen
  <2> QED
    BY <2>1
<1> HIDE DEF first
<1>5. first = 7
  <2>1. first \in 1..7 /\ KeyOrder[first] = "accept"
    BY <1>1, <1>3, <1>4
  <2> QED
    BY <1>1, <2>1
<1>6. open = {7}
  BY <1>1, <1>4, <1>5
<1>7. "accept" \in cards /\ cards \cap {"compose", "addPeer", "read", "pin", "edit", "delete"} = {}
  BY <1>1, <1>6
<1>8. seen = {2}
  BY <1>2, <1>7
<1>9. (CHOOSE i \in seen : \A j \in seen : i <= j) = 2
  BY <1>8
<1> QED
  BY <1>2, <1>8, <1>9 DEF Shown, Topmost

\* Of the cards that the user raises one is open at most.
OneRaised == \A a, b \in cards \cap ByHand : a = b

\* A card is raised from the screen, where none is open; the cards that arrive
\* are not the user's.
LEMMA OneRaisedStep == TuiTypeOK /\ OneRaised /\ [Next]_tvars => OneRaised'
<1> SUFFICES ASSUME TuiTypeOK, OneRaised, [Next]_tvars PROVE OneRaised'
  OBVIOUS
<1>1. ASSUME cards' \cap ByHand \subseteq cards PROVE OneRaised'
  BY <1>1 DEF OneRaised
<1>2. ASSUME Receiver = "screen", NEW card, cards' = cards \cup {card} PROVE OneRaised'
  <2>1. cards = {}
    BY <1>2, ReceiverIsOpen DEF TuiTypeOK
  <2> QED
    BY <1>2, <2>1 DEF OneRaised
<1>3. "pin" \notin ByHand /\ "accept" \notin ByHand
  BY DEF ByHand, RaisedFrom
<1>4. ASSUME NEW card \in DOMAIN RaisedFrom, Raise(card) PROVE OneRaised'
  BY <1>2, <1>4 DEF Raise, Key, Press
<1>5. ASSUME NEW p \in Peers, OpenCompose(p) PROVE OneRaised'
  BY <1>2, <1>5 DEF OpenCompose, Key, Press
<1>6. CASE Incoming
  BY <1>1, <1>3, <1>6 DEF Incoming
<1>7. ASSUME NEW c \in DOMAIN calls, Events(c) PROVE OneRaised'
  <2>1. cards' = cards \/ cards' = cards \cup {"pin"}
    BY <1>7 DEF Events, PinRequired, Silent, MessageFails, Unreadable, Answered, StartFile, EndFile, SkipFile, Progress
  <2> QED
    BY <1>1, <1>3, <2>1
<1>8. CASE \/ \E p \in Peers : QuickSend(p)
           \/ \E text \in Texts : SendText(text)
           \/ SendStaged \/ RetryText \/ RetryPaths
  <2>1. cards' \subseteq cards
    BY <1>8 DEF QuickSend, SendText, SendStaged, RetryText, RetryPaths, ClosePin
  <2> QED
    BY <1>1, <2>1
<1>9. CASE \/ \E s \in Tabs : GoTo(s)
           \/ \E card \in DOMAIN RaisedFrom : Dismiss(card)
           \/ \E p \in Peers : OpenPicker(p)
           \/ \E d \in Paths : ToggleStage(d)
           \/ CancelCompose \/ LeavePicker \/ ClearFinished
           \/ CancelPin \/ Accept \/ Decline \/ Quit \/ AutoQuit
  <2>1. cards' \subseteq cards
    BY <1>9 DEF GoTo, Dismiss, OpenPicker, ToggleStage, CancelCompose, LeavePicker, ClearFinished,
                CancelPin, ClosePin, Accept, Decline, Quit, AutoQuit
  <2> QED
    BY <1>1, <2>1
<1>10. CASE UNCHANGED tvars
  BY <1>1, <1>10 DEF tvars
<1> QED
  BY <1>4, <1>5, <1>6, <1>7, <1>8, <1>9, <1>10, Steps

\* Whatever arrives in between, a key that accepts or declines a transfer was pressed
\* with its prompt on the screen, and the user never has two cards open (Update, View).
THEOREM CardsCorrect == Spec => []CardsSound
<1>1. Init => OneRaised
  BY DEF Init, OneRaised
<1>2. TuiTypeOK /\ OneRaised /\ [Next]_tvars => OneRaised'
  BY OneRaisedStep
<1>3. OneRaised => CardsSound
  <2> SUFFICES ASSUME OneRaised PROVE Cardinality(cards \cap ByHand) <= 1
    BY PromptIsShown DEF CardsSound
  <2>1. CASE cards \cap ByHand = {}
    BY <2>1, FS_EmptySet
  <2>2. ASSUME NEW card \in cards \cap ByHand PROVE Cardinality(cards \cap ByHand) <= 1
    <3>1. cards \cap ByHand = {card}
      BY <2>2 DEF OneRaised
    <3>2. Cardinality({card}) = 1
      BY FS_Singleton
    <3> QED
      BY <3>1, <3>2
  <2> QED
    BY <2>1, <2>2
<1> QED
  BY <1>1, <1>2, <1>3, TuiTypeCorrect, PTL DEF Spec

-----------------------------------------------------------------------------
(* The window does not close on a file *)

\* How far a send is, as the rows tell: a file that is waited for has none yet, nor
\* has one under way that the window was told nothing of; otherwise it has an active one.
Told(shown, c, call) ==
  /\ call.st = "asking" => \A f \in Files : <<c, f>> \notin DOMAIN shown
  /\ call.cur \notin call.todo
  /\ \A f \in call.todo : <<c, f>> \notin DOMAIN shown
  /\ call.cur # Nil /\ ~call.seen => <<c, call.cur>> \notin DOMAIN shown
  /\ call.cur # Nil /\ call.seen => <<c, call.cur>> \in DOMAIN shown /\ shown[<<c, call.cur>>] = "active"

AllTold == \A c \in DOMAIN calls : Told(rows, c, calls[c])

\* An event of a send files a row of its own or the shared one.
OwnKeys(c) == ({c} \X Files) \cup {<<0, Nil>>}
FilesOwn(c)  == \E key \in OwnKeys(c), kind \in Kinds : ApplyTransfer(key, kind)

\* A new send waits for nothing yet and no row can be its own; the earlier ones stand.
LEMMA CallIsTold ==
  ASSUME TuiTypeOK, AllTold, UNCHANGED rows,
         NEW p, NEW text, NEW paths, NEW pin, Call(p, text, paths, pin)
  PROVE  AllTold'
<1> USE TuiAssumption
<1> DEFINE new == [to |-> p, text |-> text, paths |-> paths, pin |-> pin,
                   st |-> "asking", todo |-> {}, cur |-> Nil, seen |-> FALSE]
           n == Len(calls) + 1
<1>1. calls' = Append(calls, new) /\ new.todo = {} /\ new.cur = Nil
  BY DEF Call
<1> HIDE DEF new
<1>2. calls \in Seq(CallRecord) /\ Len(calls) \in Nat
  BY DEF TuiTypeOK
<1>3. /\ DOMAIN calls' = 1..n /\ calls'[n] = new
      /\ \A i \in 1..Len(calls) : calls'[i] = calls[i]
  BY <1>1, <1>2
<1>4. \A f \in Files : <<n, f>> \notin DOMAIN rows
  BY <1>2 DEF TuiTypeOK, RowKeys
<1> SUFFICES ASSUME NEW c \in DOMAIN calls' PROVE Told(rows', c, calls'[c])
  BY DEF AllTold
<1>5. CASE c = n
  BY <1>1, <1>3, <1>4, <1>5 DEF Told
<1>6. CASE c \in 1..Len(calls)
  <2>1. Told(rows, c, calls[c])
    BY <1>2, <1>6 DEF AllTold
  <2> QED
    BY <1>3, <1>6, <2>1 DEF Told
<1> QED
  BY <1>2, <1>3, <1>5, <1>6

\* A row that is filed is no concern of the other sends; so an event tells on if it
\* does so of its own.
LEMMA EventIsTold ==
  ASSUME TuiTypeOK, AllTold, NEW c \in DOMAIN calls, NEW call, calls' = [calls EXCEPT ![c] = call],
         Told(rows', c, call),
         UNCHANGED rows \/ FilesOwn(c)
  PROVE  AllTold'
<1>1. DOMAIN calls' = DOMAIN calls /\ DOMAIN calls = 1..Len(calls) /\ Len(calls) \in Nat
  BY DEF TuiTypeOK
<1> SUFFICES ASSUME NEW d \in DOMAIN calls PROVE Told(rows', d, calls'[d])
  BY <1>1 DEF AllTold
<1>2. CASE d = c
  <2>1. calls'[d] = call
    BY <1>1, <1>2
  <2> QED
    BY <1>2, <2>1 DEF Told
<1>3. CASE d # c
  <2>1. calls'[d] = calls[d] /\ Told(rows, d, calls[d])
    BY <1>3 DEF AllTold
  <2>2. \A f : /\ (<<d, f>> \in DOMAIN rows') = (<<d, f>> \in DOMAIN rows)
               /\ <<d, f>> \in DOMAIN rows => rows'[<<d, f>>] = rows[<<d, f>>]
    <3>1. CASE UNCHANGED rows
      BY <3>1
    <3>2. ASSUME NEW key \in OwnKeys(c), NEW kind, ApplyTransfer(key, kind)
          PROVE  \A f : /\ (<<d, f>> \in DOMAIN rows') = (<<d, f>> \in DOMAIN rows)
                        /\ <<d, f>> \in DOMAIN rows => rows'[<<d, f>>] = rows[<<d, f>>]
      <4>1. \A f : <<d, f>> # key
        BY <1>1, <1>3 DEF OwnKeys
      <4>2. /\ DOMAIN rows' = DOMAIN rows \cup {key}
            /\ \A k \in DOMAIN rows' : k # key => rows'[k] = rows[k]
        BY <3>2 DEF ApplyTransfer, Filed
      <4> QED
        BY <4>1, <4>2
    <3> QED
      BY <3>1, <3>2 DEF FilesOwn
  <2> QED
    BY <2>1, <2>2 DEF Told
<1> QED
  BY <1>2, <1>3

\* The events of a send tell of it: a file gets its row when it is begun, or when it
\* is given up without being begun.
LEMMA EventsAreTold ==
  ASSUME TuiTypeOK, AllTold, NEW c \in DOMAIN calls, Events(c)
  PROVE  AllTold'
<1> USE TuiAssumption
<1>1. /\ calls[c] \in CallRecord /\ Told(rows, c, calls[c]) /\ c \in 1..Len(calls) /\ Len(calls) \in Nat
      /\ calls \in Seq(CallRecord)
  BY DEF TuiTypeOK, AllTold
<1>2. /\ calls[c].todo \in SUBSET Files /\ calls[c].cur \in Files \cup {Nil}
      /\ \A e : <<c, e>> # <<0, Nil>>
      /\ <<0, Nil>> \in OwnKeys(c) /\ \A f \in Files : <<c, f>> \in OwnKeys(c)
      /\ \A e, f : <<c, e>> = <<c, f>> => e = f
      /\ "Start" \in Kinds /\ {"Error", "Cancel"} \subseteq DOMAIN Outcome /\ DOMAIN Outcome \subseteq Kinds
  BY <1>1 DEF CallRecord, OwnKeys, Kinds, Outcome
<1>3. ASSUME NEW key, NEW kind, ApplyTransfer(key, kind)
      PROVE  /\ DOMAIN rows' = DOMAIN rows \cup {key}
             /\ \A k \in DOMAIN rows' : k # key => rows'[k] = rows[k]
             /\ kind = "Start" /\ key \notin DOMAIN rows => rows'[key] = "active"
  BY <1>3 DEF ApplyTransfer, Filed, RowAfter, Outcome
<1>4. ASSUME NEW kind, ApplyTransfer(<<0, Nil>>, kind)
       PROVE  \A e : /\ <<c, e>> \in DOMAIN rows' <=> <<c, e>> \in DOMAIN rows
                     /\ <<c, e>> \in DOMAIN rows => rows'[<<c, e>>] = rows[<<c, e>>]
  <2> DEFINE key == <<0, Nil>>
  <2>1. ApplyTransfer(key, kind) /\ \A e : <<c, e>> # key
    BY <1>2, <1>4
  <2> HIDE DEF key
  <2>2. /\ DOMAIN rows' = DOMAIN rows \cup {key}
        /\ \A k \in DOMAIN rows' : k # key => rows'[k] = rows[k]
    BY <1>3, <2>1
  <2> QED
    BY <2>1, <2>2
<1>5. ASSUME NEW f, NEW kind, ApplyTransfer(<<c, f>>, kind)
       PROVE  /\ \A e : e # f => (<<c, e>> \in DOMAIN rows' <=> <<c, e>> \in DOMAIN rows)
              /\ <<c, f>> \in DOMAIN rows'
              /\ kind = "Start" /\ <<c, f>> \notin DOMAIN rows => rows'[<<c, f>>] = "active"
  <2> DEFINE key == <<c, f>>
  <2>1. ApplyTransfer(key, kind) /\ \A e : e # f => <<c, e>> # key
    BY <1>2, <1>5
  <2> HIDE DEF key
  <2>2. /\ DOMAIN rows' = DOMAIN rows \cup {key}
        /\ kind = "Start" /\ key \notin DOMAIN rows => rows'[key] = "active"
    BY <1>3, <2>1
  <2>3. \A e : e # f => (<<c, e>> \in DOMAIN rows' <=> <<c, e>> \in DOMAIN rows)
    BY <2>1, <2>2
  <2> QED
    BY <2>2, <2>3 DEF key
<1>6. ASSUME Over(c), UNCHANGED rows PROVE AllTold'
  <2> DEFINE call == [calls[c] EXCEPT !.st = "over"]
  <2>1. calls' = [calls EXCEPT ![c] = call]
    BY <1>6 DEF Over
  <2>2. /\ call.st = "over" /\ call.todo = calls[c].todo /\ call.cur = calls[c].cur
        /\ call.seen = calls[c].seen
    BY <1>1 DEF CallRecord
  <2> HIDE DEF call
  <2>3. Told(rows', c, call)
    BY <1>1, <1>6, <2>2 DEF Told
  <2> QED
    BY <1>6, <2>1, <2>3, EventIsTold
<1>7. ASSUME NEW todo \in SUBSET Files, NEW cur \in Files \cup {Nil}, NEW seen \in BOOLEAN,
             Loop(c, todo, cur, seen), cur \notin todo,
             \A f \in todo : <<c, f>> \notin DOMAIN rows',
             cur # Nil /\ ~seen => <<c, cur>> \notin DOMAIN rows',
             cur # Nil /\ seen => <<c, cur>> \in DOMAIN rows' /\ rows'[<<c, cur>>] = "active",
             UNCHANGED rows \/ FilesOwn(c)
      PROVE  AllTold'
  <2> DEFINE st == IF todo = {} /\ cur = Nil THEN "over" ELSE "pushing"
             call == [calls[c] EXCEPT !.st = st, !.todo = todo, !.cur = cur, !.seen = seen]
  <2>1. calls' = [calls EXCEPT ![c] = call]
    BY <1>7 DEF Loop
  <2>2. call.st # "asking" /\ call.todo = todo /\ call.cur = cur /\ call.seen = seen
    BY <1>1 DEF CallRecord
  <2> HIDE DEF call
  <2>3. Told(rows', c, call)
    BY <1>7, <2>2 DEF Told
  <2> QED
    BY <1>7, <2>1, <2>3, EventIsTold
<1>8. CASE PinRequired(c) \/ Silent(c)
  BY <1>6, <1>8 DEF PinRequired, Silent
<1>9. CASE MessageFails(c)
  <2> DEFINE call == [calls[c] EXCEPT !.st = "over"]
  <2>1. calls' = [calls EXCEPT ![c] = call] /\ ApplyTransfer(<<0, Nil>>, "Error")
    BY <1>9 DEF MessageFails, Over
  <2>2. /\ call.st = "over" /\ call.todo = calls[c].todo /\ call.cur = calls[c].cur
        /\ call.seen = calls[c].seen
    BY <1>1 DEF CallRecord
  <2> HIDE DEF call
  <2>3. Told(rows', c, call)
    BY <1>1, <1>4, <2>1, <2>2 DEF Told
  <2>4. FilesOwn(c)
    BY <1>2, <2>1 DEF FilesOwn
  <2> QED
    BY <2>1, <2>3, <2>4, EventIsTold
<1>10. CASE Unreadable(c)
  <2>1. calls' = [calls EXCEPT ![c] = calls[c]] /\ ApplyTransfer(<<0, Nil>>, "Error")
    BY <1>1, <1>10 DEF Unreadable
  <2>2. Told(rows', c, calls[c])
    <3>1. UNCHANGED calls
      BY <1>10 DEF Unreadable
    <3> QED
      BY <1>1, <1>4, <2>1, <3>1 DEF Told
  <2>3. FilesOwn(c)
    BY <1>2, <2>1 DEF FilesOwn
  <2>4. UNCHANGED calls
    BY <1>10 DEF Unreadable
  <2> QED
    BY <2>1, <2>2, <2>3, <2>4, EventIsTold
<1>11. ASSUME NEW fs \in SUBSET Files, Answered(c, fs) PROVE AllTold'
  <2>1. Loop(c, fs, Nil, FALSE) /\ UNCHANGED rows /\ calls[c].st = "asking"
    BY <1>11 DEF Answered, Running
  <2>2. \A f \in fs : <<c, f>> \notin DOMAIN rows'
    BY <1>1, <2>1 DEF Told
  <2> QED
    BY <1>7, <2>1, <2>2
<1>12. ASSUME NEW f \in Files, StartFile(c, f) PROVE AllTold'
  <2> DEFINE rest == calls[c].todo \ {f}
  <2>1. f \in calls[c].todo /\ f \notin rest /\ rest \in SUBSET Files
    BY <1>2, <1>12 DEF StartFile
  <2>2. CASE Loop(c, rest, f, TRUE) /\ ApplyTransfer(<<c, f>>, "Start")
    <3>1. <<c, f>> \in DOMAIN rows' /\ rows'[<<c, f>>] = "active"
      BY <1>1, <1>5, <2>1, <2>2 DEF Told
    <3>2. \A e \in rest : <<c, e>> \notin DOMAIN rows'
      BY <1>1, <1>5, <2>1, <2>2 DEF Told
    <3>3. FilesOwn(c)
      BY <1>2, <2>2 DEF FilesOwn
    <3> QED
      BY <1>7, <2>1, <2>2, <3>1, <3>2, <3>3
  <2>3. CASE Loop(c, rest, f, FALSE) /\ Dropped
    <3>1. UNCHANGED rows /\ \A e \in calls[c].todo : <<c, e>> \notin DOMAIN rows'
      BY <1>1, <2>3 DEF Told, Dropped
    <3> QED
      BY <1>7, <2>1, <2>3, <3>1
  <2> QED
    BY <1>12, <2>2, <2>3 DEF StartFile
<1>13. ASSUME NEW f, NEW kind \in DOMAIN Outcome, NEW todo \in SUBSET Files, f \in Files,
              f \notin todo, todo \subseteq calls[c].todo, Loop(c, todo, Nil, FALSE),
              ApplyTransfer(<<c, f>>, kind) \/ Dropped
       PROVE  AllTold'
  <2>1. \A e \in todo : e # f /\ <<c, e>> \notin DOMAIN rows
    BY <1>1, <1>13 DEF Told
  <2>2. CASE ApplyTransfer(<<c, f>>, kind)
    <3>1. \A e \in todo : <<c, e>> \notin DOMAIN rows'
      BY <1>5, <2>1, <2>2
    <3>2. FilesOwn(c)
      BY <1>2, <1>13, <2>2 DEF FilesOwn
    <3> QED
      BY <1>7, <1>13, <3>1, <3>2
  <2>3. CASE Dropped
    <3>1. UNCHANGED rows
      BY <2>3 DEF Dropped
    <3> QED
      BY <1>7, <1>13, <2>1, <3>1
  <2> QED
    BY <1>13, <2>2, <2>3
<1>14. ASSUME NEW kind \in DOMAIN Outcome, EndFile(c, kind) PROVE AllTold'
  <2>1. /\ Loop(c, calls[c].todo, Nil, FALSE) /\ (ApplyTransfer(<<c, calls[c].cur>>, kind) \/ Dropped)
        /\ calls[c].cur # Nil
    BY <1>14 DEF EndFile
  <2>2. calls[c].cur \in Files /\ calls[c].cur \notin calls[c].todo
    BY <1>1, <1>2, <2>1 DEF Told
  <2> QED
    BY <1>2, <1>13, <2>1, <2>2
<1>15. ASSUME NEW f \in Files, NEW kind \in {"Error", "Cancel"}, SkipFile(c, f, kind) PROVE AllTold'
  <2>1. Loop(c, calls[c].todo \ {f}, Nil, FALSE) /\ (ApplyTransfer(<<c, f>>, kind) \/ Dropped)
    BY <1>15 DEF SkipFile
  <2>2. calls[c].todo \ {f} \in SUBSET Files /\ f \notin calls[c].todo \ {f} /\ kind \in DOMAIN Outcome
    BY <1>2
  <2> QED
    BY <1>13, <2>1, <2>2
<1>16. CASE Progress(c)
  <2>1. /\ Loop(c, calls[c].todo, calls[c].cur, TRUE) /\ ApplyTransfer(<<c, calls[c].cur>>, "Start")
        /\ calls[c].cur # Nil /\ ~calls[c].seen
    BY <1>16 DEF Progress
  <2>2. calls[c].cur \in Files /\ calls[c].cur \notin calls[c].todo /\ <<c, calls[c].cur>> \notin DOMAIN rows
    BY <1>1, <1>2, <2>1 DEF Told
  <2>3. /\ <<c, calls[c].cur>> \in DOMAIN rows' /\ rows'[<<c, calls[c].cur>>] = "active"
        /\ \A e \in calls[c].todo : <<c, e>> \notin DOMAIN rows'
    BY <1>1, <1>5, <2>1, <2>2 DEF Told
  <2>4. FilesOwn(c)
    BY <1>2, <2>1, <2>2 DEF FilesOwn
  <2> QED
    BY <1>2, <1>7, <2>1, <2>2, <2>3, <2>4
<1> QED
  BY <1>8, <1>9, <1>10, <1>11, <1>12, <1>14, <1>15, <1>16 DEF Events

\* Clearing the list takes no active row, and no other key touches one.
LEMMA ToldStep == TuiTypeOK /\ AllTold /\ [Next]_tvars => AllTold'
<1> SUFFICES ASSUME TuiTypeOK, AllTold, [Next]_tvars PROVE AllTold'
  OBVIOUS
<1>1. CASE UNCHANGED <<calls, rows>>
  BY <1>1 DEF AllTold, Told
<1>2. CASE ClearFinished
  <2>1. /\ UNCHANGED calls
        /\ DOMAIN rows' = {k \in DOMAIN rows : rows[k] = "active"}
        /\ \A k \in DOMAIN rows' : rows'[k] = rows[k]
    BY <1>2 DEF ClearFinished
  <2> QED
    BY <2>1 DEF AllTold, Told
<1>3. CASE \/ \E p \in Peers : QuickSend(p)
           \/ \E text \in Texts : SendText(text)
           \/ SendStaged \/ RetryText \/ RetryPaths
  <2>1. UNCHANGED rows /\ \E p, text, paths, pin : Call(p, text, paths, pin)
    BY <1>3 DEF QuickSend, SendText, SendStaged, RetryText, RetryPaths, SendPathsTo, SendTextTo
  <2> QED
    BY <2>1, CallIsTold
<1>4. CASE \/ \E s \in Tabs : GoTo(s)
           \/ \E card \in DOMAIN RaisedFrom : Raise(card) \/ Dismiss(card)
           \/ \E p \in Peers : OpenCompose(p) \/ OpenPicker(p)
           \/ \E d \in Paths : ToggleStage(d)
           \/ CancelCompose \/ LeavePicker \/ CancelPin \/ Accept \/ Decline \/ Quit \/ Incoming \/ AutoQuit
  <2>1. UNCHANGED <<calls, rows>>
    BY <1>4 DEF GoTo, Raise, Dismiss, OpenCompose, OpenPicker, ToggleStage, CancelCompose, LeavePicker,
                CancelPin, Accept, Decline, Quit, Incoming, AutoQuit
  <2> QED
    BY <1>1, <2>1
<1> QED
  BY <1>1, <1>2, <1>3, <1>4, Steps, EventsAreTold DEF tvars

\* Only the tick takes the tick away, and it closes on nothing but finished rows.
LEMMA ClosesStep ==
  ASSUME TuiTypeOK, AllTold, [Next]_tvars, quitPending, quitting', ~quitPending', NEW c \in DOMAIN calls
  PROVE  ~(calls[c].cur # Nil /\ calls[c].seen)
<1>1. AutoQuit
  <2>1. CASE UNCHANGED quitPending
    BY <2>1
  <2>2. CASE \E d \in DOMAIN calls : Events(d)
    BY <2>2 DEF Events, PinRequired, Silent, MessageFails, Unreadable, Answered, StartFile, EndFile, SkipFile,
                Progress, Dropped, ApplyTransfer, closing
  <2>3. CASE \/ \E p \in Peers : QuickSend(p)
             \/ \E text \in Texts : SendText(text)
             \/ SendStaged \/ RetryText \/ RetryPaths
    BY <2>1, <2>3 DEF QuickSend, SendText, SendStaged, RetryText, RetryPaths, closing
  <2>4. CASE \/ \E s \in Tabs : GoTo(s)
             \/ \E card \in DOMAIN RaisedFrom : Raise(card) \/ Dismiss(card)
             \/ \E p \in Peers : OpenCompose(p) \/ OpenPicker(p)
             \/ \E d \in Paths : ToggleStage(d)
             \/ CancelCompose \/ LeavePicker \/ ClearFinished
             \/ CancelPin \/ Accept \/ Decline \/ Quit \/ Incoming
    BY <2>1, <2>4 DEF GoTo, Raise, Dismiss, OpenCompose, OpenPicker, ToggleStage, CancelCompose, LeavePicker,
                ClearFinished, CancelPin, Accept, Decline, Quit, Incoming, closing
  <2> QED
    BY <2>1, <2>2, <2>3, <2>4, Steps DEF tvars, closing
<1>2. \A k \in DOMAIN rows : rows[k] = "done"
  BY <1>1 DEF AutoQuit, AllSendsDoneOK
<1> QED
  BY <1>2 DEF AllTold, Told

\* A quick send that closes its window by itself has no file under way that the window
\* was told of, in whichever order its sends ran and whichever events were dropped
\* (autoQuitMsg, allSendsDoneOK).
THEOREM ClosesCorrect == Spec => ClosesWhenDone
<1>1. Init => AllTold
  BY DEF Init, AllTold
<1>2. TuiTypeOK /\ AllTold /\ [Next]_tvars => AllTold'
  BY ToldStep
<1>3. TuiTypeOK /\ AllTold /\ [Next]_tvars =>
        [quitPending /\ quitting' /\ ~quitPending'
           => \A c \in DOMAIN calls : ~(calls[c].cur # Nil /\ calls[c].seen)]_tvars
  BY ClosesStep
<1> QED
  BY <1>1, <1>2, <1>3, TuiTypeCorrect, PTL DEF Spec, ClosesWhenDone

=============================================================================
