---------------------------- MODULE SenderProofs ----------------------------
(***************************************************************************)
(* Theorems about Sender for any number of batches, peers and files.        *)
(***************************************************************************)
EXTENDS Sender, TLAPS

\* The first state is well-typed.
LEMMA SenderTypeInit == Init => SenderTypeOK
BY DEF Init, SenderTypeOK, Handling, Running

\* One step per action; only the conjuncts about its own send change.
LEMMA SenderTypeStep == SenderTypeOK /\ [Next]_svars => SenderTypeOK'
<1> SUFFICES ASSUME SenderTypeOK, [Next]_svars PROVE SenderTypeOK'
  OBVIOUS
<1>1. ASSUME NEW x \in Sends, NEW p \in Peers, Start(x, p) PROVE SenderTypeOK'
  BY <1>1 DEF Start, Goto, SenderTypeOK, Handling, Running
<1>2. ASSUME NEW x \in Sends, NEW fs \in SUBSET Files, Expand(x, fs) PROVE SenderTypeOK'
  BY <1>2 DEF Expand, Goto, SenderTypeOK, Handling, Running
<1>3. ASSUME NEW x \in Sends, Ask(x) PROVE SenderTypeOK'
  BY <1>3 DEF Ask, Goto, SenderTypeOK, Handling, Running
<1>4. ASSUME NEW x \in Sends, NEW fs \in SUBSET owed[x], Granted(x, fs) PROVE SenderTypeOK'
  BY <1>4 DEF Granted, Goto, SenderTypeOK, Handling, Running
<1>5. ASSUME NEW x \in Sends, PinRequired(x) PROVE SenderTypeOK'
  BY <1>5 DEF PinRequired, Goto, SenderTypeOK, Handling, Running
<1>6. ASSUME NEW x \in Sends, AskFails(x) PROVE SenderTypeOK'
  BY <1>6 DEF AskFails, Goto, SenderTypeOK, Handling, Running
<1>7. ASSUME NEW x \in Sends, ReportRefused(x) PROVE SenderTypeOK'
  BY <1>7 DEF ReportRefused, Goto, SenderTypeOK, Handling, Running
<1>8. ASSUME NEW x \in Sends, NEW f \in Files, Skip(x, f) PROVE SenderTypeOK'
  BY <1>8 DEF Skip, Goto, Tell, SenderTypeOK, Handling, Running
<1>9. ASSUME NEW x \in Sends, NEW f \in Files, Take(x, f) PROVE SenderTypeOK'
  BY <1>9 DEF Take, Goto, SenderTypeOK, Handling, Running
<1>10. ASSUME NEW x \in Sends, OpenFile(x) PROVE SenderTypeOK'
  BY <1>10 DEF OpenFile, Goto, SenderTypeOK, Handling, Running
<1>11. ASSUME NEW x \in Sends, OpenFails(x) PROVE SenderTypeOK'
  BY <1>11 DEF OpenFails, Goto, SenderTypeOK, Handling, Running
<1>12. ASSUME NEW x \in Sends, Push(x) PROVE SenderTypeOK'
  BY <1>12 DEF Push, Goto, SenderTypeOK, Handling, Running
<1>13. ASSUME NEW x \in Sends, UploadOK(x) PROVE SenderTypeOK'
  BY <1>13 DEF UploadOK, Goto, SenderTypeOK, Handling, Running
<1>14. ASSUME NEW x \in Sends, UploadFails(x) PROVE SenderTypeOK'
  BY <1>14 DEF UploadFails, Goto, SenderTypeOK, Handling, Running
<1>15. ASSUME NEW x \in Sends, ReportDone(x) PROVE SenderTypeOK'
  BY <1>15 DEF ReportDone, Goto, Tell, SenderTypeOK, Handling, Running
<1>16. ASSUME NEW x \in Sends, ReportFailure(x) PROVE SenderTypeOK'
  BY <1>16 DEF ReportFailure, Goto, Tell, Fate, SenderTypeOK, Handling, Running
<1>17. ASSUME NEW x \in Sends, ReportUnreadable(x) PROVE SenderTypeOK'
  BY <1>17 DEF ReportUnreadable, Goto, Tell, Fate, SenderTypeOK, Handling, Running
<1>18. ASSUME NEW x \in Sends, LoopEnds(x) PROVE SenderTypeOK'
  BY <1>18 DEF LoopEnds, Goto, SenderTypeOK, Handling, Running
<1>19. ASSUME NEW x \in Sends, Exit(x) PROVE SenderTypeOK'
  BY <1>19 DEF Exit, Goto, SenderTypeOK, Handling, Running
<1>20. CASE UNCHANGED svars
  BY <1>20 DEF svars, sendVars, SenderTypeOK, Handling, Running
<1> QED
  BY <1>1, <1>2, <1>3, <1>4, <1>5, <1>6, <1>7, <1>8, <1>9, <1>10, <1>11, <1>12, <1>13, <1>14, <1>15, <1>16, <1>17, <1>18, <1>19, <1>20 DEF Next, Local, Network, AskAborts, UploadAborts, AllSent

\* Every variable keeps its shape.
THEOREM SenderTypeCorrect == Spec => []SenderTypeOK
BY SenderTypeInit, SenderTypeStep, PTL DEF Spec

-----------------------------------------------------------------------------
(* Supersession *)

\* At first no send is running.
LEMMA ChargeInit == Init => OneInCharge
BY DEF Init, OneInCharge, Running, Handling

\* A send that starts ends the one in charge; one that leaves gives up only
\* what is its own.
LEMMA ChargeStep == SenderTypeOK /\ OneInCharge /\ [Next]_svars => OneInCharge'
<1> SUFFICES ASSUME SenderTypeOK, OneInCharge, [Next]_svars PROVE OneInCharge'
  OBVIOUS
<1> USE SenderAssumption
<1>1. ASSUME NEW x \in Sends, NEW p \in Peers, Start(x, p) PROVE OneInCharge'
  BY <1>1 DEF Start, Goto, SenderTypeOK, OneInCharge, Handling, Running
<1>2. ASSUME NEW x \in Sends, NEW fs \in SUBSET Files, Expand(x, fs) PROVE OneInCharge'
  BY <1>2 DEF Expand, Goto, SenderTypeOK, OneInCharge, Handling, Running
<1>3. ASSUME NEW x \in Sends, Ask(x) PROVE OneInCharge'
  BY <1>3 DEF Ask, Goto, SenderTypeOK, OneInCharge, Handling, Running
<1>4. ASSUME NEW x \in Sends, NEW fs \in SUBSET owed[x], Granted(x, fs) PROVE OneInCharge'
  BY <1>4 DEF Granted, Goto, SenderTypeOK, OneInCharge, Handling, Running
<1>5. ASSUME NEW x \in Sends, PinRequired(x) PROVE OneInCharge'
  BY <1>5 DEF PinRequired, Goto, SenderTypeOK, OneInCharge, Handling, Running
<1>6. ASSUME NEW x \in Sends, AskFails(x) PROVE OneInCharge'
  BY <1>6 DEF AskFails, Goto, SenderTypeOK, OneInCharge, Handling, Running
<1>7. ASSUME NEW x \in Sends, ReportRefused(x) PROVE OneInCharge'
  BY <1>7 DEF ReportRefused, Goto, SenderTypeOK, OneInCharge, Handling, Running
<1>8. ASSUME NEW x \in Sends, NEW f \in Files, Skip(x, f) PROVE OneInCharge'
  BY <1>8 DEF Skip, Goto, SenderTypeOK, OneInCharge, Handling, Running
<1>9. ASSUME NEW x \in Sends, NEW f \in Files, Take(x, f) PROVE OneInCharge'
  BY <1>9 DEF Take, Goto, SenderTypeOK, OneInCharge, Handling, Running
<1>10. ASSUME NEW x \in Sends, OpenFile(x) PROVE OneInCharge'
  BY <1>10 DEF OpenFile, Goto, SenderTypeOK, OneInCharge, Handling, Running
<1>11. ASSUME NEW x \in Sends, OpenFails(x) PROVE OneInCharge'
  BY <1>11 DEF OpenFails, Goto, SenderTypeOK, OneInCharge, Handling, Running
<1>12. ASSUME NEW x \in Sends, Push(x) PROVE OneInCharge'
  BY <1>12 DEF Push, Goto, SenderTypeOK, OneInCharge, Handling, Running
<1>13. ASSUME NEW x \in Sends, UploadOK(x) PROVE OneInCharge'
  BY <1>13 DEF UploadOK, Goto, SenderTypeOK, OneInCharge, Handling, Running
<1>14. ASSUME NEW x \in Sends, UploadFails(x) PROVE OneInCharge'
  BY <1>14 DEF UploadFails, Goto, SenderTypeOK, OneInCharge, Handling, Running
<1>15. ASSUME NEW x \in Sends, ReportDone(x) PROVE OneInCharge'
  BY <1>15 DEF ReportDone, Goto, SenderTypeOK, OneInCharge, Handling, Running
<1>16. ASSUME NEW x \in Sends, ReportFailure(x) PROVE OneInCharge'
  BY <1>16 DEF ReportFailure, Goto, SenderTypeOK, OneInCharge, Handling, Running
<1>17. ASSUME NEW x \in Sends, ReportUnreadable(x) PROVE OneInCharge'
  BY <1>17 DEF ReportUnreadable, Goto, SenderTypeOK, OneInCharge, Handling, Running
<1>18. ASSUME NEW x \in Sends, LoopEnds(x) PROVE OneInCharge'
  BY <1>18 DEF LoopEnds, Goto, SenderTypeOK, OneInCharge, Handling, Running
<1>19. ASSUME NEW x \in Sends, Exit(x) PROVE OneInCharge'
  BY <1>19 DEF Exit, Goto, SenderTypeOK, OneInCharge, Handling, Running
<1>20. CASE UNCHANGED svars
  BY <1>20 DEF svars, sendVars, OneInCharge, Handling, Running
<1> QED
  BY <1>1, <1>2, <1>3, <1>4, <1>5, <1>6, <1>7, <1>8, <1>9, <1>10, <1>11, <1>12, <1>13, <1>14, <1>15, <1>16, <1>17, <1>18, <1>19, <1>20 DEF Next, Local, Network, AskAborts, UploadAborts, AllSent

\* Of the sends to one peer only the newest is live, for any number of them.
THEOREM NewestInCharge == Spec => []OneInCharge
BY SenderTypeInit, SenderTypeStep, ChargeInit, ChargeStep, PTL DEF Spec

\* No request goes out on a context that is over.
THEOREM HaltedStaysHalted == Spec => HaltedNeverPushed
<1>1. SenderTypeOK /\ [Next]_svars => [\A x \in ended : pushed'[x] = pushed[x]]_svars
  <2> SUFFICES ASSUME SenderTypeOK, Next PROVE \A x \in ended : pushed'[x] = pushed[x]
    OBVIOUS
  <2>1. ASSUME NEW x \in Sends, NEW p \in Peers, Start(x, p) PROVE \A y \in ended : pushed'[y] = pushed[y]
    BY <2>1 DEF Start, SenderTypeOK
  <2>2. ASSUME NEW x \in Sends, NEW fs \in SUBSET Files, Expand(x, fs) PROVE \A y \in ended : pushed'[y] = pushed[y]
    BY <2>2 DEF Expand, SenderTypeOK
  <2>3. ASSUME NEW x \in Sends, Ask(x) PROVE \A y \in ended : pushed'[y] = pushed[y]
    BY <2>3 DEF Ask, SenderTypeOK
  <2>4. ASSUME NEW x \in Sends, NEW fs \in SUBSET owed[x], Granted(x, fs) PROVE \A y \in ended : pushed'[y] = pushed[y]
    BY <2>4 DEF Granted, SenderTypeOK
  <2>5. ASSUME NEW x \in Sends, PinRequired(x) PROVE \A y \in ended : pushed'[y] = pushed[y]
    BY <2>5 DEF PinRequired, SenderTypeOK
  <2>6. ASSUME NEW x \in Sends, AskFails(x) PROVE \A y \in ended : pushed'[y] = pushed[y]
    BY <2>6 DEF AskFails, SenderTypeOK
  <2>7. ASSUME NEW x \in Sends, ReportRefused(x) PROVE \A y \in ended : pushed'[y] = pushed[y]
    BY <2>7 DEF ReportRefused, SenderTypeOK
  <2>8. ASSUME NEW x \in Sends, NEW f \in Files, Skip(x, f) PROVE \A y \in ended : pushed'[y] = pushed[y]
    BY <2>8 DEF Skip, SenderTypeOK
  <2>9. ASSUME NEW x \in Sends, NEW f \in Files, Take(x, f) PROVE \A y \in ended : pushed'[y] = pushed[y]
    BY <2>9 DEF Take, SenderTypeOK
  <2>10. ASSUME NEW x \in Sends, OpenFile(x) PROVE \A y \in ended : pushed'[y] = pushed[y]
    BY <2>10 DEF OpenFile, SenderTypeOK
  <2>11. ASSUME NEW x \in Sends, OpenFails(x) PROVE \A y \in ended : pushed'[y] = pushed[y]
    BY <2>11 DEF OpenFails, SenderTypeOK
  <2>12. ASSUME NEW x \in Sends, Push(x) PROVE \A y \in ended : pushed'[y] = pushed[y]
    BY <2>12 DEF Push, SenderTypeOK
  <2>13. ASSUME NEW x \in Sends, UploadOK(x) PROVE \A y \in ended : pushed'[y] = pushed[y]
    BY <2>13 DEF UploadOK, SenderTypeOK
  <2>14. ASSUME NEW x \in Sends, UploadFails(x) PROVE \A y \in ended : pushed'[y] = pushed[y]
    BY <2>14 DEF UploadFails, SenderTypeOK
  <2>15. ASSUME NEW x \in Sends, ReportDone(x) PROVE \A y \in ended : pushed'[y] = pushed[y]
    BY <2>15 DEF ReportDone, SenderTypeOK
  <2>16. ASSUME NEW x \in Sends, ReportFailure(x) PROVE \A y \in ended : pushed'[y] = pushed[y]
    BY <2>16 DEF ReportFailure, SenderTypeOK
  <2>17. ASSUME NEW x \in Sends, ReportUnreadable(x) PROVE \A y \in ended : pushed'[y] = pushed[y]
    BY <2>17 DEF ReportUnreadable, SenderTypeOK
  <2>18. ASSUME NEW x \in Sends, LoopEnds(x) PROVE \A y \in ended : pushed'[y] = pushed[y]
    BY <2>18 DEF LoopEnds, SenderTypeOK
  <2>19. ASSUME NEW x \in Sends, Exit(x) PROVE \A y \in ended : pushed'[y] = pushed[y]
    BY <2>19 DEF Exit, SenderTypeOK
  <2>20. CASE UNCHANGED svars
    BY <2>20 DEF svars, sendVars
  <2> QED
    BY <2>1, <2>2, <2>3, <2>4, <2>5, <2>6, <2>7, <2>8, <2>9, <2>10, <2>11, <2>12, <2>13, <2>14, <2>15, <2>16, <2>17, <2>18, <2>19, <2>20 DEF Next, Local, Network, AskAborts, UploadAborts, AllSent
<1> QED
  BY <1>1, SenderTypeInit, SenderTypeStep, PTL DEF Spec, HaltedNeverPushed

-----------------------------------------------------------------------------
(* Reports *)

\* ToldOnceEach and FailsOnce made inductive: before the peer has answered
\* nothing was reported, pushed or queued; the loop's files are owed ones; and a
\* file that was pushed and failed ended its batch.
ReportOf(x) ==
  /\ spc[x] \in {"idle", "expand", "prepare", "asking", "refused"} =>
       todo[x] = {} /\ pushed[x] = {} /\ \A f \in Files : report[x][f] = "none"
  /\ spc[x] \in {"next"} \cup Handling =>
       \A f \in owed[x] : \/ f \in todo[x] \/ report[x][f] # "none"
                          \/ spc[x] \in Handling /\ f = cur[x]
  /\ \A f \in todo[x] : f \notin pushed[x]
  /\ spc[x] \in {"open", "push", "unreadable"} => cur[x] \notin pushed[x]
  /\ \A f \in pushed[x] : report[x][f] \in Failed =>
       x \in ended /\ spc[x] \in {"next", "exit", "done"}

ReportInv == ToldOnceEach /\ FailsOnce /\ \A x \in Sends : ReportOf(x)

\* At first nothing is owed and nothing told.
LEMMA ReportInit == Init => ReportInv
BY DEF Init, ReportInv, ReportOf, ToldOnceEach, FailsOnce, Handling, Failed

\* Each action reports the file it is at, or none.
LEMMA ReportStep == SenderTypeOK /\ ReportInv /\ [Next]_svars => ReportInv'
<1> SUFFICES ASSUME SenderTypeOK, ReportInv, [Next]_svars PROVE ReportInv'
  OBVIOUS
<1>1. ASSUME NEW x \in Sends, NEW p \in Peers, Start(x, p) PROVE ReportInv'
  BY <1>1 DEF Start, Goto, SenderTypeOK, ReportInv, ReportOf, ToldOnceEach, FailsOnce, Handling, Failed
<1>2. ASSUME NEW x \in Sends, NEW fs \in SUBSET Files, Expand(x, fs) PROVE ReportInv'
  BY <1>2 DEF Expand, Goto, SenderTypeOK, ReportInv, ReportOf, ToldOnceEach, FailsOnce, Handling, Failed
<1>3. ASSUME NEW x \in Sends, Ask(x) PROVE ReportInv'
  BY <1>3 DEF Ask, Goto, SenderTypeOK, ReportInv, ReportOf, ToldOnceEach, FailsOnce, Handling, Failed
<1>4. ASSUME NEW x \in Sends, NEW fs \in SUBSET owed[x], Granted(x, fs) PROVE ReportInv'
  <2>1. \A y \in Sends : y # x => /\ spc'[y] = spc[y] /\ todo'[y] = todo[y] /\ owed'[y] = owed[y]
                                 /\ cur'[y] = cur[y]
    BY <1>4 DEF Granted, Goto, SenderTypeOK
  <2>2. /\ report' = report /\ pushed' = pushed /\ ended' = ended
        /\ spc'[x] = "next" /\ todo'[x] = fs /\ owed'[x] = fs /\ cur'[x] = cur[x]
    BY <1>4 DEF Granted, Goto, SenderTypeOK
  <2>3. spc[x] = "asking"
    BY <1>4 DEF Granted, Goto
  <2>4. ToldOnceEach'
    BY <2>1, <2>2, <2>3 DEF ReportInv, ReportOf, ToldOnceEach, Handling, SenderTypeOK
  <2>5. FailsOnce'
    BY <2>2 DEF ReportInv, FailsOnce
  <2>6. ASSUME NEW y \in Sends, y # x PROVE ReportOf(y)'
    BY <2>1, <2>2, <2>6 DEF ReportInv, ReportOf
  <2>7. ReportOf(x)'
    BY <2>2, <2>3 DEF ReportInv, ReportOf, ToldOnceEach, Handling, SenderTypeOK
  <2> QED
    BY <2>4, <2>5, <2>6, <2>7 DEF ReportInv
<1>5. ASSUME NEW x \in Sends, PinRequired(x) PROVE ReportInv'
  BY <1>5 DEF PinRequired, Goto, SenderTypeOK, ReportInv, ReportOf, ToldOnceEach, FailsOnce, Handling, Failed
<1>6. ASSUME NEW x \in Sends, AskFails(x) PROVE ReportInv'
  BY <1>6 DEF AskFails, Goto, SenderTypeOK, ReportInv, ReportOf, ToldOnceEach, FailsOnce, Handling, Failed
<1>7. ASSUME NEW x \in Sends, ReportRefused(x) PROVE ReportInv'
  BY <1>7 DEF ReportRefused, Goto, SenderTypeOK, ReportInv, ReportOf, ToldOnceEach, FailsOnce, Handling, Failed
<1>8. ASSUME NEW x \in Sends, NEW f \in Files, Skip(x, f) PROVE ReportInv'
  BY <1>8 DEF Skip, Goto, Tell, SenderTypeOK, ReportInv, ReportOf, ToldOnceEach, FailsOnce, Handling, Failed
<1>9. ASSUME NEW x \in Sends, NEW f \in Files, Take(x, f) PROVE ReportInv'
  <2>1. \A y \in Sends : y # x => /\ spc'[y] = spc[y] /\ todo'[y] = todo[y] /\ owed'[y] = owed[y]
                                 /\ cur'[y] = cur[y]
    BY <1>9 DEF Take, Goto, SenderTypeOK
  <2>2. /\ report' = report /\ pushed' = pushed /\ ended' = ended
        /\ spc'[x] = "open" /\ todo'[x] = todo[x] \ {f} /\ owed'[x] = owed[x] /\ cur'[x] = f
    BY <1>9 DEF Take, Goto, SenderTypeOK
  <2>3. spc[x] = "next" /\ f \in todo[x] /\ x \notin ended
    BY <1>9 DEF Take, Goto
  <2>4. ToldOnceEach'
    BY <2>1, <2>2, <2>3 DEF ReportInv, ReportOf, ToldOnceEach, Handling, SenderTypeOK
  <2>5. FailsOnce'
    BY <2>2 DEF ReportInv, FailsOnce
  <2>6. ASSUME NEW y \in Sends, y # x PROVE ReportOf(y)'
    BY <2>1, <2>2, <2>6 DEF ReportInv, ReportOf
  <2>7. ReportOf(x)'
    BY <2>2, <2>3 DEF ReportInv, ReportOf, ToldOnceEach, Handling, SenderTypeOK
  <2> QED
    BY <2>4, <2>5, <2>6, <2>7 DEF ReportInv
<1>10. ASSUME NEW x \in Sends, OpenFile(x) PROVE ReportInv'
  BY <1>10 DEF OpenFile, Goto, SenderTypeOK, ReportInv, ReportOf, ToldOnceEach, FailsOnce, Handling, Failed
<1>11. ASSUME NEW x \in Sends, OpenFails(x) PROVE ReportInv'
  BY <1>11 DEF OpenFails, Goto, SenderTypeOK, ReportInv, ReportOf, ToldOnceEach, FailsOnce, Handling, Failed
<1>12. ASSUME NEW x \in Sends, Push(x) PROVE ReportInv'
  BY <1>12 DEF Push, Goto, SenderTypeOK, ReportInv, ReportOf, ToldOnceEach, FailsOnce, Handling, Failed
<1>13. ASSUME NEW x \in Sends, UploadOK(x) PROVE ReportInv'
  BY <1>13 DEF UploadOK, Goto, SenderTypeOK, ReportInv, ReportOf, ToldOnceEach, FailsOnce, Handling, Failed
<1>14. ASSUME NEW x \in Sends, UploadFails(x) PROVE ReportInv'
  BY <1>14 DEF UploadFails, Goto, SenderTypeOK, ReportInv, ReportOf, ToldOnceEach, FailsOnce, Handling, Failed
<1>15. ASSUME NEW x \in Sends, ReportDone(x) PROVE ReportInv'
  BY <1>15 DEF ReportDone, Goto, Tell, SenderTypeOK, ReportInv, ReportOf, ToldOnceEach, FailsOnce, Handling, Failed
<1>16. ASSUME NEW x \in Sends, ReportFailure(x) PROVE ReportInv'
  BY <1>16 DEF ReportFailure, Goto, Tell, Fate, SenderTypeOK, ReportInv, ReportOf, ToldOnceEach, FailsOnce, Handling, Failed
<1>17. ASSUME NEW x \in Sends, ReportUnreadable(x) PROVE ReportInv'
  BY <1>17 DEF ReportUnreadable, Goto, Tell, Fate, SenderTypeOK, ReportInv, ReportOf, ToldOnceEach, FailsOnce, Handling, Failed
<1>18. ASSUME NEW x \in Sends, LoopEnds(x) PROVE ReportInv'
  BY <1>18 DEF LoopEnds, Goto, SenderTypeOK, ReportInv, ReportOf, ToldOnceEach, FailsOnce, Handling, Failed
<1>19. ASSUME NEW x \in Sends, Exit(x) PROVE ReportInv'
  BY <1>19 DEF Exit, Goto, SenderTypeOK, ReportInv, ReportOf, ToldOnceEach, FailsOnce, Handling, Failed
<1>20. CASE UNCHANGED svars
  BY <1>20 DEF svars, sendVars, ReportInv, ReportOf, ToldOnceEach, FailsOnce, Handling, Failed
<1> QED
  BY <1>1, <1>2, <1>3, <1>4, <1>5, <1>6, <1>7, <1>8, <1>9, <1>10, <1>11, <1>12, <1>13, <1>14, <1>15, <1>16, <1>17, <1>18, <1>19, <1>20 DEF Next, Local, Network, AskAborts, UploadAborts, AllSent

\* The report invariant holds throughout.
LEMMA ReportInvariant == Spec => []ReportInv
BY SenderTypeInit, SenderTypeStep, ReportInit, ReportStep, PTL DEF Spec

\* No file of a batch is forgotten and none is reported twice, wherever a failure
\* or a newer send cuts the loop short.
THEOREM EveryFileTold == Spec => []ToldOnceEach
<1>1. ReportInv => ToldOnceEach
  BY DEF ReportInv
<1> QED
  BY <1>1, ReportInvariant, PTL

\* At most one file of a batch is pushed to a peer in vain.
THEOREM OneFailure == Spec => []FailsOnce
<1>1. ReportInv => FailsOnce
  BY DEF ReportInv
<1> QED
  BY <1>1, ReportInvariant, PTL

=============================================================================
