-------------------------- MODULE AdmissionProofs ---------------------------
(***************************************************************************)
(* Theorems about Admission for any number of requests, any PINs and any    *)
(* capacities of the channels.                                              *)
(*                                                                         *)
(* A request that asks the user travels from the handler through the        *)
(* channel and the bridge to the screen, and is only ever in one of these   *)
(* places; it never gets there a second time, so that the room for one      *)
(* answer in its Reply channel is enough.                                   *)
(***************************************************************************)
EXTENDS Admission, SequenceTheorems, TLAPS

USE AdmissionAssumption

-----------------------------------------------------------------------------
(* The inductive invariant *)

\* Before its handler puts it there a request is in no channel and has not
\* been shown, and what it is is settled once it is decoded.
BeforeQueue ==
  \A r \in Reqs :
    /\ hpc[r] \in {"idle", "gate", "passed", "queueing"} =>
         /\ \A i \in 1..Len(accepts) : accepts[i] # r
         /\ \A i \in 1..Len(messages) : messages[i] # r
         /\ bridge # r /\ r \notin prompted
    /\ hpc[r] \in {"queueing", "waiting"} => kind[r] = "files"

\* What is in the channels: the prompts, each once and none of them on its way
\* to the screen or shown before, and the messages.
Channels ==
  /\ \A i \in 1..Len(accepts) :
       /\ kind[accepts[i]] = "files" /\ accepts[i] # bridge /\ accepts[i] \notin prompted
       /\ \A j \in 1..Len(accepts) : i # j => accepts[i] # accepts[j]
  /\ \A i \in 1..Len(messages) : kind[messages[i]] = "message"

\* What is held for the screen was not shown yet, what is on it not answered.
Screen ==
  /\ bridge # Nil /\ kind[bridge] = "files" => bridge \notin prompted
  /\ pending # Nil => pending \in prompted /\ decided[pending] = "none"

\* Only who was shown is answered, and the Reply channel holds that answer.
Replies ==
  \A r \in Reqs :
    /\ decided[r] # "none" => r \in prompted
    /\ reply[r] # "none" => reply[r] = decided[r]

Inv == AdmissionTypeOK /\ BeforeQueue /\ Channels /\ Screen /\ Replies

-----------------------------------------------------------------------------
(* Types *)

\* emitMessage: the message goes to the end of the channel, or nowhere if that
\* is full.
LEMMA MessagesGrow ==
  ASSUME messages \in Seq(Reqs), Len(messages) <= MessagesCap, NEW r \in Reqs, TakeMessage(r)
  PROVE  /\ messages' \in Seq(Reqs) /\ Len(messages') <= MessagesCap
         /\ \A i \in 1..Len(messages') :
              messages'[i] = r \/ \E j \in 1..Len(messages) : messages'[i] = messages[j]
<1>1. CASE messages' = messages
  BY <1>1
<1>2. CASE Len(messages) < MessagesCap /\ messages' = Append(messages, r)
  <2>1. messages' \in Seq(Reqs) /\ Len(messages') = Len(messages) + 1
    BY <1>2
  <2>2. Len(messages') <= MessagesCap
    BY <1>2, <2>1
  <2>3. \A i \in 1..Len(messages') :
          messages'[i] = IF i <= Len(messages) THEN messages[i] ELSE r
    BY <1>2
  <2> QED
    BY <2>1, <2>2, <2>3
<1> QED
  BY <1>1, <1>2 DEF TakeMessage

\* Init has the types.
LEMMA TypeInit == Init => AdmissionTypeOK
  BY DEF Init, AdmissionTypeOK, Kinds

\* Each step keeps them.
LEMMA TypeStep == AdmissionTypeOK /\ [Next]_avars => AdmissionTypeOK'
<1> SUFFICES ASSUME AdmissionTypeOK, [Next]_avars PROVE AdmissionTypeOK'
  OBVIOUS
<1> USE DEF AdmissionTypeOK, settingVars, handlerVars, uiVars
<1>1. ASSUME NEW r \in Reqs, NEW k \in Kinds, NEW p \in Pins \cup {NoPin}, Request(r, k, p)
      PROVE  AdmissionTypeOK'
  BY <1>1 DEF Request, Step, Waiting, Answers, Refused
<1>2. ASSUME NEW r \in Reqs, PinGate(r) PROVE AdmissionTypeOK'
  BY <1>2 DEF PinGate, Step, Waiting, Answers, Refused
<1>3. ASSUME NEW r \in Reqs, TakeMessage(r) PROVE AdmissionTypeOK'
  <2>1. messages' \in Seq(Reqs) /\ Len(messages') <= MessagesCap
    BY <1>3, MessagesGrow
  <2> QED
    BY <1>3, <2>1 DEF TakeMessage, Step, Answers
<1>4. ASSUME NEW r \in Reqs, AskAuto(r) \/ AskUser(r) PROVE AdmissionTypeOK'
  BY <1>4 DEF AskAuto, AskUser, Step, Waiting
<1>5. ASSUME NEW r \in Reqs, Enqueue(r) PROVE AdmissionTypeOK'
  BY <1>5 DEF Enqueue, Step, Waiting
<1>6. ASSUME NEW r \in Reqs, EnqueueTimeout(r) \/ ReplyTimeout(r) PROVE AdmissionTypeOK'
  BY <1>6 DEF EnqueueTimeout, ReplyTimeout, Step, Answers, Refused
<1>7. ASSUME NEW r \in Reqs, Decided(r) PROVE AdmissionTypeOK'
  BY <1>7 DEF Decided, Step, Waiting, Answers, Refused
<1>8. ASSUME NEW r \in Reqs, GrantSession(r) PROVE AdmissionTypeOK'
  BY <1>8 DEF GrantSession, Step, Answers
<1>9. CASE BridgeAccept
  BY <1>9 DEF BridgeAccept
<1>10. CASE BridgeMessage
  BY <1>10 DEF BridgeMessage
<1>11. CASE ShowPrompt
  BY <1>11 DEF ShowPrompt
<1>12. CASE ShowMessage
  BY <1>12 DEF ShowMessage
<1>13. ASSUME NEW d \in {"yes", "no"}, Answer(d) PROVE AdmissionTypeOK'
  BY <1>13 DEF Answer
<1>14. ASSUME NEW p \in Pins \cup {NoPin}, SetPIN(p) PROVE AdmissionTypeOK'
  BY <1>14 DEF SetPIN
<1>15. ASSUME NEW b \in BOOLEAN, SetAutoAccept(b) PROVE AdmissionTypeOK'
  BY <1>15 DEF SetAutoAccept
<1>16. CASE UNCHANGED avars
  BY <1>16 DEF avars
<1> QED
  BY <1>1, <1>2, <1>3, <1>4, <1>5, <1>6, <1>7, <1>8, <1>9, <1>10, <1>11, <1>12, <1>13, <1>14,
     <1>15, <1>16 DEF Next, Handler, Bridge

-----------------------------------------------------------------------------
(* One place for each request *)

Order == BeforeQueue /\ Channels /\ Screen /\ Replies

\* Nobody has asked yet.
LEMMA OrderInit == Init => Order
  BY DEF Init, Order, BeforeQueue, Channels, Screen, Replies

\* A request that arrives is in no place yet.
LEMMA RequestKeepsOrder ==
  ASSUME AdmissionTypeOK, Order, NEW r \in Reqs, NEW k \in Kinds, NEW p \in Pins \cup {NoPin},
         Request(r, k, p)
  PROVE  Order'
<1>1. /\ hpc[r] = "idle" /\ hpc'[r] \in {"bad request", "no content", "gate"}
      /\ \A q \in Reqs \ {r} : hpc'[q] = hpc[q] /\ kind'[q] = kind[q]
  BY DEF Request, Step, AdmissionTypeOK
<1>2. UNCHANGED <<reply, accepts, messages, bridge, pending, prompted, decided>>
  BY DEF Request, uiVars
<1>3. BeforeQueue'
  BY <1>1, <1>2 DEF Order, BeforeQueue
<1>4. Screen' /\ Replies'
  <2>1. bridge # r
    BY <1>1 DEF Order, BeforeQueue
  <2>2. bridge # Nil => kind'[bridge] = kind[bridge]
    BY <1>1, <2>1 DEF AdmissionTypeOK
  <2> QED
    BY <1>2, <2>2 DEF Order, Screen, Replies
<1>5. Channels'
  <2>1. \A i \in 1..Len(accepts) : accepts[i] \in Reqs \ {r}
    <3>1. \A i \in 1..Len(accepts) : accepts[i] \in Reqs
      BY ElementOfSeq DEF AdmissionTypeOK
    <3> QED
      BY <1>1, <3>1 DEF Order, BeforeQueue
  <2>2. \A i \in 1..Len(messages) : messages[i] \in Reqs \ {r}
    <3>1. \A i \in 1..Len(messages) : messages[i] \in Reqs
      BY ElementOfSeq DEF AdmissionTypeOK
    <3> QED
      BY <1>1, <3>1 DEF Order, BeforeQueue
  <2>3. bridge' = bridge /\ prompted' = prompted /\ accepts' = accepts /\ messages' = messages
    BY <1>2
  <2>4. \A i \in 1..Len(messages) : kind'[messages[i]] = "message"
    BY <1>1, <2>2 DEF Order, Channels
  <2>5. \A i \in 1..Len(accepts) : kind'[accepts[i]] = "files"
    BY <1>1, <2>1 DEF Order, Channels
  <2> QED
    BY <2>3, <2>4, <2>5 DEF Order, Channels
<1> QED
  BY <1>3, <1>4, <1>5 DEF Order

\* The PIN gate moves nothing.
LEMMA PinGateKeepsOrder ==
  ASSUME AdmissionTypeOK, Order, NEW r \in Reqs, PinGate(r)
  PROVE  Order'
<1>1. /\ hpc[r] = "gate" /\ hpc'[r] \in {"pin required", "passed"}
      /\ \A q \in Reqs \ {r} : hpc'[q] = hpc[q]
  BY DEF PinGate, Step, AdmissionTypeOK
<1>2. UNCHANGED <<kind, reply, accepts, messages, bridge, pending, prompted, decided>>
  BY DEF PinGate, uiVars
<1>3. BeforeQueue'
  BY <1>1, <1>2 DEF Order, BeforeQueue
<1> QED
  BY <1>2, <1>3 DEF Order, Channels, Screen, Replies

\* A message goes to the messages.
LEMMA TakeMessageKeepsOrder ==
  ASSUME AdmissionTypeOK, Order, NEW r \in Reqs, TakeMessage(r)
  PROVE  Order'
<1>1. /\ hpc[r] = "passed" /\ hpc'[r] = "message ok" /\ kind[r] = "message"
      /\ \A q \in Reqs \ {r} : hpc'[q] = hpc[q]
  BY DEF TakeMessage, Step, AdmissionTypeOK
<1>2. UNCHANGED <<kind, reply, accepts, bridge, pending, prompted, decided>>
  BY DEF TakeMessage, uiVars
<1>3. \A i \in 1..Len(messages') :
        messages'[i] = r \/ \E j \in 1..Len(messages) : messages'[i] = messages[j]
  BY MessagesGrow DEF AdmissionTypeOK
<1>4. BeforeQueue'
  <2> SUFFICES ASSUME NEW q \in Reqs, hpc'[q] \in {"idle", "gate", "passed", "queueing"}
               PROVE  \A i \in 1..Len(messages') : messages'[i] # q
    BY <1>1, <1>2 DEF Order, BeforeQueue
  <2>1. q # r /\ hpc'[q] = hpc[q]
    BY <1>1
  <2>2. \A j \in 1..Len(messages) : messages[j] # q
    BY <2>1 DEF Order, BeforeQueue
  <2> QED
    BY <1>3, <2>1, <2>2
<1>5. Channels'
  <2>1. \A j \in 1..Len(messages) : kind[messages[j]] = "message"
    BY DEF Order, Channels
  <2>2. \A i \in 1..Len(messages') : kind'[messages'[i]] = "message"
    BY <1>1, <1>2, <1>3, <2>1
  <2> QED
    BY <1>2, <2>2 DEF Order, Channels
<1> QED
  BY <1>2, <1>4, <1>5 DEF Order, Screen, Replies

\* Every step moves a request on to one other place, or leaves it.
LEMMA OrderStep == AdmissionTypeOK /\ Order /\ [Next]_avars => Order'
<1> SUFFICES ASSUME AdmissionTypeOK, Order, [Next]_avars PROVE Order'
  OBVIOUS
<1> USE DEF AdmissionTypeOK, settingVars, handlerVars, uiVars, Order, BeforeQueue, Channels, Screen,
            Replies
<1>1. ASSUME NEW r \in Reqs, NEW k \in Kinds, NEW p \in Pins \cup {NoPin}, Request(r, k, p)
      PROVE  Order'
  BY <1>1, RequestKeepsOrder
<1>2. ASSUME NEW r \in Reqs, PinGate(r) PROVE Order'
  BY <1>2, PinGateKeepsOrder
<1>3. ASSUME NEW r \in Reqs, TakeMessage(r) PROVE Order'
  BY <1>3, TakeMessageKeepsOrder
<1>4. ASSUME NEW r \in Reqs, AskAuto(r) \/ AskUser(r) PROVE Order'
  BY <1>4 DEF AskAuto, AskUser, Step
<1>5. ASSUME NEW r \in Reqs, Enqueue(r) PROVE Order'
  BY <1>5 DEF Enqueue, Step
<1>6. ASSUME NEW r \in Reqs, EnqueueTimeout(r) \/ ReplyTimeout(r) PROVE Order'
  BY <1>6 DEF EnqueueTimeout, ReplyTimeout, Step
<1>7. ASSUME NEW r \in Reqs, Decided(r) PROVE Order'
  BY <1>7 DEF Decided, Step
<1>8. ASSUME NEW r \in Reqs, GrantSession(r) PROVE Order'
  BY <1>8 DEF GrantSession, Step
<1>9. CASE BridgeAccept
  BY <1>9 DEF BridgeAccept
<1>10. CASE BridgeMessage
  BY <1>10 DEF BridgeMessage
<1>11. CASE ShowPrompt
  BY <1>11 DEF ShowPrompt
<1>12. CASE ShowMessage
  BY <1>12 DEF ShowMessage
<1>13. ASSUME NEW d \in {"yes", "no"}, Answer(d) PROVE Order'
  BY <1>13 DEF Answer
<1>14. ASSUME NEW p \in Pins \cup {NoPin}, SetPIN(p) PROVE Order'
  BY <1>14 DEF SetPIN
<1>15. ASSUME NEW b \in BOOLEAN, SetAutoAccept(b) PROVE Order'
  BY <1>15 DEF SetAutoAccept
<1>16. CASE UNCHANGED avars
  BY <1>16 DEF avars
<1> QED
  BY ONLY <1>1, <1>2, <1>3, <1>4, <1>5, <1>6, <1>7, <1>8, <1>9, <1>10, <1>11, <1>12, <1>13, <1>14,
     <1>15, <1>16, [Next]_avars DEF Next, Handler, Bridge

\* What the theorems below rest on.
LEMMA InvAlways == Spec => []Inv
<1>1. Inv <=> AdmissionTypeOK /\ Order
  BY DEF Inv, Order
<1>2. Init => Inv
  BY <1>1, TypeInit, OrderInit
<1>3. Inv /\ [Next]_avars => Inv'
  BY <1>1, TypeStep, OrderStep DEF Inv, Order
<1> QED
  BY <1>2, <1>3, PTL DEF Spec

-----------------------------------------------------------------------------
(* Theorems *)

\* Every variable of the handlers, the channels, the bridge and the screen stays
\* in its domain, the channels within their capacity.
THEOREM AdmissionTypeCorrect == Spec => []AdmissionTypeOK
  BY TypeInit, TypeStep, PTL DEF Spec

\* The user's key is never sent on a Reply channel that is full: a request comes
\* to the screen once, and is answered once.
THEOREM AnswersHaveRoom == Spec => []AnswerNeverBlocks
<1>1. Inv => AnswerNeverBlocks
  BY DEF Inv, AdmissionTypeOK, Screen, Replies, AnswerNeverBlocks
<1> QED
  BY <1>1, InvAlways, PTL

\* A request is accepted unseen under auto-accept, or with the user's "y" to that
\* very request.
THEOREM ConsentComesFirst == Spec => SessionNeedsConsent
<1> DEFINE Consent == \A r \in Reqs : hpc'[r] = "accepted" /\ hpc[r] # "accepted" =>
                        \/ autoAccept /\ r \notin prompted
                        \/ decided[r] = "yes" /\ r # pending
<1>1. Inv /\ [Next]_avars => [Consent]_avars
  <2> SUFFICES ASSUME Inv, Next, NEW r \in Reqs, hpc'[r] = "accepted", hpc[r] # "accepted"
               PROVE  \/ autoAccept /\ r \notin prompted
                      \/ decided[r] = "yes" /\ r # pending
    BY DEF Consent
  <2>1. hpc \in [Reqs -> {"idle"} \cup Waiting \cup Answers]
    BY DEF Inv, AdmissionTypeOK
  <2>2. AskAuto(r) \/ Decided(r)
    <3>1. ASSUME NEW q \in Reqs, NEW from, NEW to, Step(q, from, to) PROVE q = r /\ to = "accepted"
      BY <2>1, <3>1 DEF Step
    <3>2. ASSUME NEW q \in Reqs, Handler(q) PROVE q = r /\ (AskAuto(q) \/ Decided(q))
      <4>1. CASE PinGate(q)
        <5>1. Step(q, "gate", "pin required") \/ Step(q, "gate", "passed")
          BY <4>1 DEF PinGate
        <5> QED
          BY <2>1, <5>1 DEF Step
      <4>2. CASE TakeMessage(q) \/ AskUser(q) \/ Enqueue(q) \/ EnqueueTimeout(q)
        <5>1. \/ Step(q, "passed", "message ok") \/ Step(q, "passed", "queueing")
              \/ Step(q, "queueing", "waiting") \/ Step(q, "queueing", "rejected")
          BY <4>2 DEF TakeMessage, AskUser, Enqueue, EnqueueTimeout
        <5> QED
          BY <2>1, <5>1 DEF Step
      <4>3. CASE ReplyTimeout(q) \/ GrantSession(q)
        BY <3>1, <4>3 DEF ReplyTimeout, GrantSession
      <4>4. CASE AskAuto(q)
        BY <3>1, <4>4 DEF AskAuto
      <4>5. CASE Decided(q)
        BY <3>1, <4>5 DEF Decided
      <4> QED
        BY <3>2, <4>1, <4>2, <4>3, <4>4, <4>5 DEF Handler
    <3>3. ASSUME NEW q \in Reqs, NEW k \in Kinds, NEW p \in Pins \cup {NoPin} PROVE ~Request(q, k, p)
      <4>1. ASSUME NEW to, to \in {"bad request", "no content", "gate"} PROVE ~Step(q, "idle", to)
        BY <3>1, <4>1
      <4> QED
        BY <4>1 DEF Request
    <3>4. UNCHANGED handlerVars => FALSE
      BY DEF handlerVars
    <3> QED
      BY <3>2, <3>3, <3>4 DEF Next, Bridge, BridgeAccept, BridgeMessage, ShowPrompt, ShowMessage, Answer,
                              SetPIN, SetAutoAccept
  <2>3. CASE AskAuto(r)
    BY <2>3 DEF AskAuto, Step, Inv, BeforeQueue
  <2>4. CASE Decided(r)
    <3>1. reply[r] = "yes"
      BY <2>1, <2>4 DEF Decided, Step
    <3> QED
      BY <3>1 DEF Inv, Replies, Screen
  <2> QED
    BY <2>2, <2>3, <2>4
<1> QED
  BY <1>1, InvAlways, PTL DEF Spec, SessionNeedsConsent
=============================================================================
