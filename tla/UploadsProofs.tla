---------------------------- MODULE UploadsProofs ----------------------------
(***************************************************************************)
(* Proofs about Uploads, for any number of sessions, files, uploads,       *)
(* cancels and chunks, any channel capacity and any number of crashes.     *)
(***************************************************************************)
EXTENDS Uploads, SequenceTheorems, TLAPS

\* Every name uniqueAt tries is a path.
LEMMA CandPath ==
  ASSUME NEW m \in Path, NEW k \in Nat
  PROVE  /\ Cand(m, k) \in Path
         /\ Cand(m, k).part = m.part
         /\ k = 0 => Cand(m, k) = m
         /\ k # 0 => Cand(m, k).stem = m.stem /\ Cand(m, k).ctr = Append(m.ctr, k)
<1>1. m.stem \in Stems /\ m.ctr \in Seq(Nat \ {0}) /\ m.part \in Nat
  BY DEF Path
<1>2. CASE k = 0
  BY <1>2 DEF Cand
<1>3. CASE k # 0
  <2>1. Append(m.ctr, k) \in Seq(Nat \ {0})
    BY <1>1, <1>3
  <2>2. Cand(m, k) = [stem |-> m.stem, ctr |-> Append(m.ctr, k), part |-> m.part]
    BY <1>3 DEF Cand, Path
  <2> QED
    BY <1>1, <1>3, <2>1, <2>2 DEF Path
<1> QED
  BY <1>2, <1>3

\* ".part" makes another path of a path.
LEMMA TmpPath ==
  ASSUME NEW p \in Path
  PROVE  /\ Tmp(p) \in Path
         /\ Tmp(p) = [stem |-> p.stem, ctr |-> p.ctr, part |-> p.part + 1]
<1>1. p = [stem |-> p.stem, ctr |-> p.ctr, part |-> p.part]
  BY DEF Path
<1>2. p.stem \in Stems /\ p.ctr \in Seq(Nat \ {0}) /\ p.part + 1 \in Nat
  BY DEF Path
<1>3. Tmp(p) = [stem |-> p.stem, ctr |-> p.ctr, part |-> p.part + 1]
  BY <1>1 DEF Tmp
<1> QED
  BY <1>2, <1>3 DEF Path

\* Names that may not meet never lead to one path, however far uniqueAt counts.
LEMMA NamesApart ==
  ASSUME NEW m \in Path, NEW q \in Path, ~MayMeet(m, q), NEW j \in Nat, NEW k \in Nat
  PROVE  Cand(m, j) # Cand(q, k)
<1>1. m.ctr \in Seq(Nat \ {0}) /\ q.ctr \in Seq(Nat \ {0}) /\ m # q
  BY DEF Path, MayMeet, Candidate
<1>2. ASSUME NEW r \in Path, NEW o \in Path, NEW i \in Nat \ {0}, r = Cand(o, i)
      PROVE  Candidate(o, r)
  <2>1. o.ctr \in Seq(Nat \ {0}) /\ r.ctr = Append(o.ctr, i)
    BY <1>2, CandPath DEF Path
  <2>2. Len(r.ctr) = Len(o.ctr) + 1 /\ Len(o.ctr) \in Nat /\ r.ctr[Len(o.ctr) + 1] = i
    BY <2>1
  <2>3. Len(o.ctr) + 1 \in 1..Len(r.ctr)
    BY <2>2
  <2> QED
    BY <1>2, <2>2, <2>3 DEF Candidate
<1>3. CASE j = 0 /\ k = 0
  BY <1>1, <1>3, CandPath
<1>4. CASE j = 0 /\ k # 0
  BY <1>2, <1>4, CandPath DEF MayMeet
<1>5. CASE j # 0 /\ k = 0
  BY <1>2, <1>5, CandPath DEF MayMeet
<1>6. CASE j # 0 /\ k # 0
  <2>1. /\ Cand(m, j).stem = m.stem /\ Cand(m, j).ctr = Append(m.ctr, j) /\ Cand(m, j).part = m.part
        /\ Cand(q, k).stem = q.stem /\ Cand(q, k).ctr = Append(q.ctr, k) /\ Cand(q, k).part = q.part
    BY <1>6, CandPath
  <2>2. ASSUME Append(m.ctr, j) = Append(q.ctr, k) PROVE m.ctr = q.ctr
    <3> DEFINE a == m.ctr
               b == q.ctr
    <3>1. a \in Seq(Nat \ {0}) /\ b \in Seq(Nat \ {0}) /\ Append(a, j) = Append(b, k)
      BY <1>1, <2>2
    <3> HIDE DEF a, b
    <3>2. Len(a) = Len(b)
      <4>1. Len(Append(a, j)) = Len(a) + 1 /\ Len(Append(b, k)) = Len(b) + 1
        BY <3>1
      <4>2. Len(a) \in Nat /\ Len(b) \in Nat
        BY <3>1
      <4> QED
        BY <3>1, <4>1, <4>2
    <3>3. \A i \in 1..Len(a) : a[i] = b[i]
      <4>1. \A i \in 1..Len(a) : Append(a, j)[i] = a[i] /\ Append(b, k)[i] = b[i]
        BY <3>1, <3>2
      <4> QED
        BY <3>1, <4>1
    <3>4. a = b
      BY <3>1, <3>2, <3>3, SeqEqual
    <3> QED
      BY <3>4 DEF a, b
  <2>3. m.stem = q.stem /\ m.ctr = q.ctr /\ m.part = q.part => m = q
    BY DEF Path
  <2> QED
    BY <1>1, <2>1, <2>2, <2>3
<1> QED
  BY <1>3, <1>4, <1>5, <1>6

\* A handler's names are paths, and ".part" makes another path of each.
LEMMA PathsClosed ==
  ASSUME TypeOK, NEW u \in Uploads, pc[u] # "idle"
  PROVE  /\ NameOf[req[u].f] \in Path /\ n[u] \in Nat
         /\ Dest(u) \in Path /\ Dest(u).part = NameOf[req[u].f].part
         /\ Tmp(Dest(u)) \in Path /\ Tmp(Dest(u)).part = Dest(u).part + 1
<1>1. NameOf[req[u].f] \in Path /\ n[u] \in Nat
  <2>1. /\ NameOf[req[u].f] \in [stem : Stems, ctr : Seq(Nat \ {0}), part : 0..1]
        /\ n[u] \in Nat
    BY UploadsAssumption DEF TypeOK
  <2> QED
    BY <2>1 DEF Path
<1>2. Dest(u) \in Path /\ Dest(u).part = NameOf[req[u].f].part
  BY <1>1, CandPath DEF Dest
<1> QED
  BY <1>1, <1>2, TmpPath

\* The program starts well-typed.
LEMMA TypeInit == Init => TypeOK
BY UploadsAssumption DEF Init, TypeOK, Path, Writers, Open, HoldsFile, Finished, CPCs, Event

\* Filing an event adds its key to the rows and gives it a row state.
LEMMA FiledRows ==
  ASSUME NEW shown, \A k \in DOMAIN shown : shown[k] \in RowStates,
         NEW ev, ev.kind \in Kinds
  PROVE  /\ DOMAIN Filed(shown, ev) = DOMAIN shown \cup {ev.key}
         /\ \A k \in DOMAIN Filed(shown, ev) : Filed(shown, ev)[k] \in RowStates
<1>1. ev.kind \in DOMAIN Outcome => Outcome[ev.kind] \in RowStates
  BY DEF RowStates
<1>2. RowAfter(shown, ev) \in RowStates
  <2>1. CASE ev.kind \in DOMAIN Outcome
    BY <1>1, <2>1 DEF RowAfter
  <2>2. CASE ev.kind \notin DOMAIN Outcome
    BY <2>2 DEF RowAfter, RowStates
  <2> QED
    BY <2>1, <2>2
<1> QED
  BY <1>2 DEF Filed

\* The part of the type invariant that the store, the handlers and the folder
\* share, step by step.
LEMMA TypeStep == TypeOK /\ [Next]_vars => TypeOK'
<1> SUFFICES ASSUME TypeOK, [Next]_vars PROVE TypeOK' OBVIOUS
<1> USE UploadsAssumption
<1>1. CASE UNCHANGED vars
  BY <1>1 DEF TypeOK, vars, storeVars, fileVars, upVars, cancVars, uiVars, Event, CPCs, Writers
<1>2. ASSUME NEW s \in Sessions, CreateSession(s) PROVE TypeOK'
  BY <1>2 DEF CreateSession, TypeOK, fileVars, upVars, cancVars, uiVars, Event, CPCs, Writers
<1>3. ASSUME NEW u \in Uploads, NEW s \in Sessions, NEW f \in Files, NEW tok \in BOOLEAN,
             Arrive(u, s, f, tok)
      PROVE TypeOK'
  BY <1>3 DEF Arrive, Goto, TypeOK, Open, HoldsFile, Finished, storeVars, fileVars, cancVars, uiVars, Event, CPCs, Writers
<1>4. ASSUME NEW u \in Uploads, Lookup(u) PROVE TypeOK'
  BY <1>4 DEF Lookup, Goto, TypeOK, Open, HoldsFile, Finished, storeVars, fileVars, cancVars, uiVars, Event, CPCs, Writers
<1>5. ASSUME NEW u \in Uploads, StatTaken(u) PROVE TypeOK'
  BY <1>5 DEF StatTaken, TypeOK, Open, HoldsFile, Finished, storeVars, fileVars, cancVars, uiVars, Event, CPCs, Writers
<1>6. ASSUME NEW u \in Uploads, StatFree(u) PROVE TypeOK'
  BY <1>6 DEF StatFree, Goto, TypeOK, Open, HoldsFile, Finished, storeVars, fileVars, cancVars, uiVars, Event, CPCs, Writers
<1>7. ASSUME NEW u \in Uploads, Create(u) PROVE TypeOK'
  <2> DEFINE p == Tmp(Dest(u))
             i == IF p \in DOMAIN disk THEN disk[p] ELSE u
  <2>1. pc[u] = "create" /\ p \in Path
    BY <1>7, PathsClosed DEF Create, Goto
  <2>2. i \in Writers
    BY DEF TypeOK, Writers
  <2>3. /\ disk' = Put(p, i) /\ data' = Truncate(i) /\ fd' = [fd EXCEPT ![u] = i]
        /\ pc' = [pc EXCEPT ![u] = "start"]
    BY <1>7 DEF Create, Goto
  <2> HIDE DEF p, i
  <2>4. DOMAIN disk' \subseteq Path /\ \A q \in DOMAIN disk' : disk'[q] \in Writers
    BY <2>1, <2>2, <2>3 DEF TypeOK, Put
  <2>5. data' \in [Writers -> [1..Chunks -> Writers \cup {Nil}]]
    BY <2>2, <2>3 DEF TypeOK, Truncate
  <2>6. fd' \in [Uploads -> Writers \cup {Nil}] /\ fd'[u] \in Writers
    BY <2>2, <2>3 DEF TypeOK
  <2>7. /\ pc' \in [Uploads -> {"idle", "spin"} \cup Open \cup Finished]
        /\ \A v \in Uploads : pc'[v] # "idle" => req[v].s \in Sessions /\ req[v].f \in Files
        /\ \A v \in Uploads : pc'[v] \in HoldsFile => fd'[v] \in Writers
    BY <2>1, <2>3, <2>6 DEF TypeOK, Open, HoldsFile
  <2> QED
    BY <1>7, <2>4, <2>5, <2>6, <2>7
    DEF Create, TypeOK, storeVars, cancVars, uiVars, Event
<1>8. ASSUME NEW u \in Uploads, EmitStart(u) PROVE TypeOK'
  BY <1>8 DEF EmitStart, Emit, HasRoom, Key, Goto, TypeOK, Open, HoldsFile, Finished, storeVars, fileVars, cancVars, Event, Kinds, Outcome, CPCs, Writers
<1>9. ASSUME NEW u \in Uploads, CheckContext(u) PROVE TypeOK'
  BY <1>9 DEF CheckContext, Goto, TypeOK, Open, HoldsFile, Finished, storeVars, fileVars, cancVars, uiVars, Event, CPCs, Writers
<1>10. ASSUME NEW u \in Uploads, RemoveTmp(u) PROVE TypeOK'
  BY <1>10 DEF RemoveTmp, Unlink, Goto, TypeOK, Open, HoldsFile, Finished, storeVars, fileVars, cancVars, uiVars, Event, CPCs, Writers
<1>11. ASSUME NEW u \in Uploads, Rename(u) PROVE TypeOK'
  <2>1. Dest(u) \in Path /\ Tmp(Dest(u)) \in DOMAIN disk
    BY <1>11, PathsClosed DEF Rename, Goto
  <2>2. DOMAIN disk' \subseteq Path /\ \A q \in DOMAIN disk' : disk'[q] \in Writers
    BY <1>11, <2>1 DEF Rename, Move, TypeOK
  <2>3. /\ pc' \in [Uploads -> {"idle", "spin"} \cup Open \cup Finished]
        /\ \A v \in Uploads : pc'[v] # "idle" => req[v].s \in Sessions /\ req[v].f \in Files
        /\ \A v \in Uploads : pc'[v] \in HoldsFile => fd[v] \in Writers
    BY <1>11 DEF Rename, Goto, TypeOK, Open, HoldsFile
  <2> QED
    BY <1>11, <2>2, <2>3 DEF Rename, TypeOK, storeVars, cancVars, uiVars, Event
<1>12. ASSUME NEW u \in Uploads, RenameFails(u) PROVE TypeOK'
  BY <1>12 DEF RenameFails, Goto, TypeOK, Open, HoldsFile, Finished, storeVars, fileVars, cancVars, uiVars, Event, CPCs, Writers
<1>13. ASSUME NEW u \in Uploads, EmitError(u) PROVE TypeOK'
  BY <1>13 DEF EmitError, Emit, HasRoom, Key, Goto, TypeOK, Open, HoldsFile, Finished, storeVars, fileVars, cancVars, Event, Kinds, Outcome, CPCs, Writers
<1>14. ASSUME NEW u \in Uploads, EmitDone(u) PROVE TypeOK'
  BY <1>14 DEF EmitDone, Emit, HasRoom, Key, Goto, TypeOK, Open, HoldsFile, Finished, storeVars, fileVars, cancVars, Event, Kinds, Outcome, CPCs, Writers
<1>15. ASSUME NEW u \in Uploads, Complete(u) PROVE TypeOK'
  <2>1. pc[u] = "complete" /\ req[u].s \in Sessions /\ req[u].f \in Files
    BY <1>15 DEF Complete, Goto, TypeOK
  <2> DEFINE s == req[u].s
             now == done[s] \cup {req[u].f}
  <2>a. now \in SUBSET Files
    BY <2>1 DEF TypeOK
  <2>b. /\ done' = done \/ done' = [done EXCEPT ![s] = now]
        /\ live' \in {live, live \ {s}}
        /\ cancelled' \in {cancelled, cancelled \cup {s}}
    BY <1>15 DEF Complete
  <2> HIDE DEF now
  <2>2. done' \in [Sessions -> SUBSET Files] /\ live' \in SUBSET Sessions /\ cancelled' \in SUBSET Sessions
    BY <2>1, <2>a, <2>b DEF TypeOK
  <2>3. /\ pc' = [pc EXCEPT ![u] = "ok"]
        /\ UNCHANGED <<created, fileVars, req, n, fd, got, cancVars, uiVars, crashes>>
    BY <1>15 DEF Complete, Goto
  <2> QED
    BY <2>1, <2>2, <2>3 DEF TypeOK, Open, HoldsFile, Finished, fileVars, cancVars, uiVars, Event
<1>16. ASSUME NEW u \in Uploads, CreateFails(u) PROVE TypeOK'
  BY <1>16 DEF CreateFails, TypeOK, Open, HoldsFile, Finished, storeVars, fileVars, cancVars, uiVars, Event, CPCs, Writers
<1>17. ASSUME NEW u \in Uploads, ReadChunk(u) PROVE TypeOK'
  <2>1. pc[u] = "reading" /\ fd[u] \in Writers /\ got[u] + 1 \in 1..Chunks
    BY <1>17 DEF ReadChunk, Goto, TypeOK, HoldsFile
  <2>2. data' \in [Writers -> [1..Chunks -> Writers \cup {Nil}]]
    BY <1>17, <2>1 DEF ReadChunk, TypeOK, Writers
  <2>3. got' \in [Uploads -> 0..Chunks]
    BY <1>17, <2>1 DEF ReadChunk, TypeOK
  <2> QED
    BY <1>17, <2>2, <2>3 DEF ReadChunk, Goto, TypeOK, Open, HoldsFile, Finished, storeVars, cancVars, uiVars, Event
<1>18. ASSUME NEW u \in Uploads, ReadEOF(u) PROVE TypeOK'
  BY <1>18 DEF ReadEOF, Goto, TypeOK, Open, HoldsFile, Finished, storeVars, fileVars, cancVars, uiVars, Event, CPCs, Writers
<1>19. ASSUME NEW u \in Uploads, CopyFails(u) PROVE TypeOK'
  BY <1>19 DEF CopyFails, Goto, TypeOK, Open, HoldsFile, Finished, storeVars, fileVars, cancVars, uiVars, Event, CPCs, Writers
<1>20. ASSUME NEW c \in Cancels, NEW s \in Sessions, CancelDelete(c, s) PROVE TypeOK'
  BY <1>20 DEF CancelDelete, TypeOK, fileVars, upVars, uiVars, Event, CPCs, Writers
<1>21. ASSUME NEW c \in Cancels, CancelContext(c) PROVE TypeOK'
  BY <1>21 DEF CancelContext, TypeOK, fileVars, upVars, uiVars, Event, CPCs, Writers
<1>22. ASSUME NEW c \in Cancels, EmitCancel(c) PROVE TypeOK'
  BY <1>22 DEF EmitCancel, Emit, HasRoom, TypeOK, storeVars, fileVars, upVars, Event, Kinds, Outcome, CPCs, Writers
<1>23. CASE Show
  <2>1. Head(transfers) \in Event /\ Tail(transfers) \in Seq(Event) /\ Len(Tail(transfers)) <= TransferCap
    BY <1>23 DEF Show, TypeOK
  <2>2. Head(transfers).kind \in Kinds /\ Head(transfers).key \in [s : Sessions, f : Files \cup {Nil}]
    BY <2>1 DEF Event
  <2>3. rows' = Filed(rows, Head(transfers))
    BY <1>23 DEF Show
  <2>4. \A k \in DOMAIN rows : rows[k] \in RowStates
    BY DEF TypeOK
  <2>5. /\ DOMAIN Filed(rows, Head(transfers)) = DOMAIN rows \cup {Head(transfers).key}
        /\ \A k \in DOMAIN Filed(rows, Head(transfers)) : Filed(rows, Head(transfers))[k] \in RowStates
    BY <2>2, <2>4, FiledRows
  <2>6. DOMAIN rows' \subseteq [s : Sessions, f : Files \cup {Nil}]
    BY <2>2, <2>3, <2>5 DEF TypeOK
  <2>7. \A k \in DOMAIN rows' : rows'[k] \in RowStates
    BY <2>3, <2>5
  <2> QED
    BY <1>23, <2>1, <2>6, <2>7 DEF Show, TypeOK, storeVars, fileVars, upVars, cancVars
<1>24. CASE Crash
  BY <1>24 DEF Crash, TypeOK, Open, HoldsFile, Finished, CPCs, fileVars, Event, Writers
<1>25. CASE Quiescent
  BY <1>25, <1>1 DEF Quiescent
<1>26. ASSUME NEW u \in Uploads, StatFails(u) PROVE TypeOK'
  <2>1. /\ pc[u] = "stat"
        /\ (pc' = [pc EXCEPT ![u] = "spin"]) \/ (pc' = pc)
        /\ (n' = [n EXCEPT ![u] = @ + 1]) \/ (n' = n)
        /\ UNCHANGED <<storeVars, fileVars, req, fd, got, cancVars, uiVars, crashes>>
    BY <1>26 DEF StatFails
  <2>2. n' \in [Uploads -> Nat]
    <3>1. n \in [Uploads -> Nat]
      BY DEF TypeOK
    <3> QED
      BY <2>1, <3>1
  <2>3. /\ pc' \in [Uploads -> {"idle", "spin"} \cup Open \cup Finished]
        /\ \A v \in Uploads : pc'[v] # "idle" => req[v].s \in Sessions /\ req[v].f \in Files
        /\ \A v \in Uploads : pc'[v] \in HoldsFile => fd[v] \in Writers
    BY <2>1 DEF TypeOK, HoldsFile
  <2> QED
    BY <2>1, <2>2, <2>3 DEF TypeOK, storeVars, fileVars, cancVars, uiVars, Event
<1> QED
  BY <1>1, <1>2, <1>3, <1>4, <1>5, <1>6, <1>7, <1>8, <1>9, <1>10, <1>11, <1>12, <1>13, <1>14,
     <1>15, <1>16, <1>17, <1>18, <1>19, <1>20, <1>21, <1>22, <1>23, <1>24, <1>25, <1>26
  DEF Next, ServeUpload, Body, ServeCancel

\* Every variable keeps its shape and the channel its capacity.
THEOREM TypeCorrect == Spec => []TypeOK
BY TypeInit, TypeStep, PTL DEF Spec

-----------------------------------------------------------------------------
(* The session store *)

\* StoreSound made inductive: only created sessions are cancelled or have done
\* files, and a /cancel handler between its two steps holds a session that is
\* out of the store.
StoreInv ==
  /\ StoreSound
  /\ cancelled \subseteq created
  /\ \A s \in Sessions \ created : done[s] = {}
  /\ \A c \in Cancels : cpc[c] = "ctx" => csid[c] \in created \ live

\* An empty store is sound.
LEMMA StoreInit == Init => StoreInv
BY DEF Init, StoreInv, StoreSound

\* Steps that leave the store and the /cancel handlers alone.
LEMMA StoreUnchanged ==
  ASSUME StoreInv, UNCHANGED <<storeVars, cancVars>>
  PROVE  StoreInv'
BY DEF StoreInv, StoreSound, storeVars, cancVars

\* create, complete and the two steps of cancel keep the store sound; Crash
\* empties it and ends every context.
LEMMA StoreStep == TypeOK /\ StoreInv /\ [Next]_vars => StoreInv'
<1> SUFFICES ASSUME TypeOK, StoreInv, [Next]_vars PROVE StoreInv' OBVIOUS
<1> USE UploadsAssumption
<1>1. CASE UNCHANGED vars
  BY <1>1, StoreUnchanged DEF vars
<1>2. ASSUME NEW s \in Sessions, CreateSession(s) PROVE StoreInv'
  BY <1>2 DEF CreateSession, StoreInv, StoreSound, TypeOK, cancVars
<1>3. ASSUME NEW u \in Uploads, NEW s \in Sessions, NEW f \in Files, NEW tok \in BOOLEAN,
             Arrive(u, s, f, tok)
      PROVE StoreInv'
  BY <1>3, StoreUnchanged DEF Arrive
<1>4. ASSUME NEW u \in Uploads, ServeUpload(u) \/ CreateFails(u) \/ Body(u) PROVE StoreInv'
  <2>1. CASE Complete(u)
    <3> DEFINE t == req[u].s
               now == done[t] \cup {req[u].f}
    <3>1. t \in Sessions
      BY <2>1 DEF Complete, Goto, TypeOK
    <3>2. UNCHANGED <<created, cancVars>>
      BY <2>1 DEF Complete
    <3>3. CASE t \notin live
      BY <2>1, <3>2, <3>3, StoreUnchanged DEF Complete, storeVars
    <3>4. CASE t \in live /\ now = FilesOf[t]
      <4>1. live' = live \ {t} /\ cancelled' = cancelled \cup {t}
            /\ done' = [done EXCEPT ![t] = now]
        BY <2>1, <3>4 DEF Complete
      <4> HIDE DEF now, t
      <4> QED
        BY <3>1, <3>2, <3>4, <4>1 DEF StoreInv, StoreSound, TypeOK, cancVars
    <3>5. CASE t \in live /\ now # FilesOf[t]
      <4>1. live' = live /\ cancelled' = cancelled /\ done' = [done EXCEPT ![t] = now]
        BY <2>1, <3>5 DEF Complete
      <4> HIDE DEF now, t
      <4> QED
        BY <3>1, <3>2, <3>5, <4>1 DEF StoreInv, StoreSound, TypeOK, cancVars
    <3> QED BY <3>3, <3>4, <3>5
  <2>2. CASE ~Complete(u)
    BY <1>4, <2>2, StoreUnchanged
    DEF ServeUpload, Body, Lookup, StatTaken, StatFails, StatFree, Create, EmitStart, CheckContext,
        RemoveTmp, Rename, RenameFails, EmitError, EmitDone, CreateFails, ReadChunk, ReadEOF, CopyFails
  <2> QED BY <2>1, <2>2
<1>5. ASSUME NEW c \in Cancels, NEW s \in Sessions, CancelDelete(c, s) PROVE StoreInv'
  BY <1>5 DEF CancelDelete, StoreInv, StoreSound, TypeOK
<1>6. ASSUME NEW c \in Cancels, CancelContext(c) PROVE StoreInv'
  BY <1>6 DEF CancelContext, StoreInv, StoreSound, TypeOK
<1>7. ASSUME NEW c \in Cancels, EmitCancel(c) PROVE StoreInv'
  BY <1>7 DEF EmitCancel, StoreInv, StoreSound, TypeOK, storeVars
<1>8. CASE Show
  BY <1>8, StoreUnchanged DEF Show
<1>9. CASE Crash
  BY <1>9 DEF Crash, StoreInv, StoreSound, TypeOK
<1>10. CASE Quiescent
  BY <1>10, <1>1 DEF Quiescent
<1> QED
  BY <1>1, <1>2, <1>3, <1>4, <1>5, <1>6, <1>7, <1>8, <1>9, <1>10 DEF Next, ServeCancel

\* StoreInv holds throughout: sessionStore is sound, step by step.
LEMMA StoreInvariant == Spec => []StoreInv
BY StoreInit, StoreStep, TypeCorrect, PTL DEF Spec

\* The map of sessions, the done flags and the contexts agree at every moment,
\* for any interleaving of uploads, cancels and crashes.
THEOREM StoreIsSound == Spec => []StoreSound
<1>1. StoreInv => StoreSound
  BY DEF StoreInv
<1> QED
  BY <1>1, StoreInvariant, PTL

\* A session that was cancelled or completed never comes back, and a late
\* complete does not touch its done flags.
THEOREM RemovedForGood == Spec => RemovedStaysRemoved
<1> DEFINE Kept == \A s \in created \ live : s \notin live' /\ done'[s] = done[s]
<1>1. TypeOK /\ StoreInv /\ [Next]_vars => [Kept]_vars
  <2> SUFFICES ASSUME TypeOK, StoreInv, [Next]_vars PROVE Kept \/ UNCHANGED vars OBVIOUS
  <2>1. ASSUME NEW s \in Sessions, CreateSession(s) PROVE Kept
    BY <2>1 DEF CreateSession
  <2>2. ASSUME NEW u \in Uploads, ServeUpload(u) \/ CreateFails(u) \/ Body(u) PROVE Kept
    <3>1. CASE Complete(u)
      BY <3>1 DEF Complete, TypeOK
    <3>2. CASE ~Complete(u)
      BY <2>2, <3>2
      DEF ServeUpload, Body, Lookup, StatTaken, StatFails, StatFree, Create, EmitStart, CheckContext, RemoveTmp,
          Rename, RenameFails, EmitError, EmitDone, CreateFails, ReadChunk, ReadEOF, CopyFails, storeVars
    <3> QED BY <3>1, <3>2
  <2>3. ASSUME NEW c \in Cancels, NEW s \in Sessions, CancelDelete(c, s) PROVE Kept
    BY <2>3 DEF CancelDelete
  <2>4. CASE \/ Show \/ Crash \/ Quiescent
             \/ \E c \in Cancels : ServeCancel(c)
             \/ \E u \in Uploads, s \in Sessions, f \in Files, tok \in BOOLEAN : Arrive(u, s, f, tok)
    BY <2>4 DEF Show, Crash, Quiescent, ServeCancel, CancelContext, EmitCancel, Arrive, vars, storeVars
  <2> QED
    BY <2>1, <2>2, <2>3, <2>4 DEF Next
<1> QED
  BY <1>1, StoreInvariant, TypeCorrect, PTL DEF Spec, RemovedStaysRemoved

-----------------------------------------------------------------------------
(* The receive folder.  Two conditions on what peers send: no announced name   *)
(* ends in ".part", and no two uploads are open at the same time whose names    *)
(* uniqueAt could lead to one path ("x" twice, or "x" and "x (1)").  The run on *)
(* overlapping names shows what becomes of files without the second.            *)

PlainNames == \A f \in Files : NameOf[f].part = 0

Apart(u, v) == ~MayMeet(NameOf[req[u].f], NameOf[req[v].f])

\* Why the folder stays sound: an inode has one name; an upload that has its
\* file open owns the inode behind its ".part" name and has written every chunk
\* it read; no name it is about to create or rename to is taken; and open
\* uploads have names that never lead to one path.
FolderInv ==
  /\ NoPartialMasquerade
  /\ \A p, q \in DOMAIN disk : disk[p] = disk[q] => p = q
  /\ \A u \in Uploads : pc[u] \in HoldsFile =>
       /\ Tmp(Dest(u)) \in DOMAIN disk
       /\ disk[Tmp(Dest(u))] = fd[u]
       /\ \A k \in 1..got[u] : data[fd[u]][k] = u
  /\ \A u \in Uploads : pc[u] \in {"create"} \cup HoldsFile => Dest(u) \notin DOMAIN disk
  /\ \A u \in Uploads : pc[u] = "rename" => got[u] = Chunks
  /\ \A u \in Uploads : pc[u] \in {"idle", "lookup", "stat", "create"} =>
       got[u] = 0 /\ \A p \in DOMAIN disk : disk[p] # u
  /\ \A u, v \in Uploads : u # v /\ pc[u] \in Open /\ pc[v] \in Open => Apart(u, v)

\* No final name is the temporary name of another upload.
LEMMA PlainPaths ==
  ASSUME TypeOK, PlainNames, NEW u \in Uploads, pc[u] # "idle"
  PROVE  /\ Dest(u) \in Path /\ Dest(u).part = 0
         /\ Tmp(Dest(u)) \in Path /\ Tmp(Dest(u)).part = 1
         /\ Tmp(Dest(u)) # Dest(u)
<1>1. NameOf[req[u].f].part = 0
  BY DEF PlainNames, TypeOK
<1> QED
  BY <1>1, PathsClosed

\* Uploads whose names are apart have their paths apart, at any counters.
LEMMA ApartPaths ==
  ASSUME TypeOK, NEW u \in Uploads, NEW v \in Uploads, pc[u] # "idle", pc[v] # "idle", Apart(u, v)
  PROVE  Dest(u) # Dest(v) /\ Tmp(Dest(u)) # Tmp(Dest(v))
<1>1. Dest(u) \in Path /\ Dest(v) \in Path
  BY PathsClosed
<1>2. Dest(u) # Dest(v)
  BY PathsClosed, NamesApart DEF Apart, Dest
<1>3. ASSUME NEW p \in Path, NEW q \in Path, p # q PROVE Tmp(p) # Tmp(q)
  <2>1. /\ Tmp(p) = [stem |-> p.stem, ctr |-> p.ctr, part |-> p.part + 1]
        /\ Tmp(q) = [stem |-> q.stem, ctr |-> q.ctr, part |-> q.part + 1]
    BY TmpPath
  <2>2. /\ p = [stem |-> p.stem, ctr |-> p.ctr, part |-> p.part] /\ p.part \in Nat
        /\ q = [stem |-> q.stem, ctr |-> q.ctr, part |-> q.part] /\ q.part \in Nat
    BY DEF Path
  <2> QED
    BY <1>3, <2>1, <2>2
<1> QED
  BY <1>1, <1>2, <1>3

\* Paths depend on the handler's own file and counter only.
LEMMA SamePaths ==
  ASSUME NEW u \in Uploads, req'[u] = req[u], n'[u] = n[u]
  PROVE  Dest(u)' = Dest(u) /\ Tmp(Dest(u))' = Tmp(Dest(u))
BY DEF Dest, Tmp

\* The folder as found satisfies the invariant.
LEMMA FolderInit == Init => FolderInv
<1> SUFFICES ASSUME Init PROVE FolderInv OBVIOUS
<1>1. NoPartialMasquerade
  BY DEF Init, NoPartialMasquerade, IsWhole, Whole, Writers
<1> QED
  BY <1>1, UploadsAssumption DEF Init, FolderInv, HoldsFile, Open

\* Steps that touch neither the folder nor an upload's request, file or count,
\* and that open no upload and reach no stage that needs more.
LEMMA FolderUnchanged ==
  ASSUME FolderInv, UNCHANGED <<fileVars, req, n, fd, got>>,
         \A u \in Uploads : \/ pc'[u] = pc[u]
                            \/ pc'[u] \in Finished \cup {"spin", "fail", "landed", "complete"}
                            \/ pc[u] = "lookup" /\ pc'[u] = "stat"
                            \/ pc[u] = "stat" /\ pc'[u] = "create" /\ Dest(u) \notin DOMAIN disk
                            \/ pc[u] \in HoldsFile /\ pc'[u] \in HoldsFile \ {"rename"}
                            \/ pc[u] = "reading" /\ pc'[u] = "rename" /\ got[u] = Chunks,
         \A u \in Uploads : pc'[u] \in Open => pc[u] \in Open
  PROVE  FolderInv'
<1>1. \A u \in Uploads : Dest(u)' = Dest(u) /\ Tmp(Dest(u))' = Tmp(Dest(u))
  BY SamePaths
<1>2. NoPartialMasquerade'
  BY DEF FolderInv, NoPartialMasquerade, IsWhole, Whole, fileVars
<1>3. \A u, v \in Uploads : Apart(u, v)' = Apart(u, v)
  BY DEF Apart
<1> QED
  BY <1>1, <1>2, <1>3 DEF FolderInv, fileVars, Open, HoldsFile, Finished

\* Two open uploads never meet on a path, so neither can reach the other's inode.
LEMMA OwnPaths ==
  ASSUME TypeOK, FolderInv, PlainNames, NEW u \in Uploads, NEW v \in Uploads, u # v,
         pc[u] \in Open, pc[v] \in HoldsFile
  PROVE  /\ Tmp(Dest(v)) # Tmp(Dest(u)) /\ Dest(v) # Dest(u)
         /\ Tmp(Dest(v)) # Dest(u) /\ Dest(v) # Tmp(Dest(u))
<1>1. pc[v] \in Open /\ pc[u] # "idle" /\ pc[v] # "idle"
  BY DEF Open, HoldsFile
<1>2. Apart(u, v)
  BY <1>1 DEF FolderInv
<1>3. Tmp(Dest(v)) # Tmp(Dest(u)) /\ Dest(v) # Dest(u)
  BY <1>1, <1>2, ApartPaths
<1> QED
  BY <1>1, <1>3, PlainPaths

\* The inode behind an open file is not behind any plain name.
LEMMA OpenInodeHidden ==
  ASSUME TypeOK, FolderInv, PlainNames, NEW u \in Uploads, pc[u] \in HoldsFile,
         NEW p \in DOMAIN disk, p.part = 0
  PROVE  disk[p] # fd[u]
<1>1. Tmp(Dest(u)) \in DOMAIN disk /\ disk[Tmp(Dest(u))] = fd[u] /\ Tmp(Dest(u)).part = 1
  BY PlainPaths DEF FolderInv, HoldsFile
<1> QED
  BY <1>1 DEF FolderInv

\* A new upload keeps its paths apart from those of the open ones.
LEMMA FolderArrive ==
  ASSUME TypeOK, FolderInv, PlainNames, ~NameOverlap,
         NEW u \in Uploads, NEW s \in Sessions, NEW f \in Files, NEW tok \in BOOLEAN,
         Arrive(u, s, f, tok)
  PROVE  FolderInv'
<1>1. /\ pc[u] = "idle" /\ pc' = [pc EXCEPT ![u] = "lookup"]
      /\ req' = [req EXCEPT ![u] = [s |-> s, f |-> f, tok |-> tok]]
      /\ \A v \in Uploads : pc[v] \in Open => ~MayMeet(NameOf[req[v].f], NameOf[f])
      /\ UNCHANGED <<disk, data, n, fd, got>>
  BY DEF Arrive, Goto, fileVars
<1>2. \A v \in Uploads : v # u =>
        req'[v] = req[v] /\ pc'[v] = pc[v] /\ Dest(v)' = Dest(v) /\ Tmp(Dest(v))' = Tmp(Dest(v))
  BY <1>1, SamePaths DEF TypeOK
<1>3. pc'[u] = "lookup" /\ req'[u].f = f
  BY <1>1 DEF TypeOK
<1>4. \A v \in Uploads \ {u} : pc[v] \in Open => Apart(u, v)' /\ Apart(v, u)'
  BY <1>1, <1>2, <1>3 DEF Apart, MayMeet
<1>5. \A v, w \in Uploads : v # w /\ pc'[v] \in Open /\ pc'[w] \in Open => Apart(v, w)'
  <2>1. \A v, w \in Uploads \ {u} : v # w /\ pc'[v] \in Open /\ pc'[w] \in Open => Apart(v, w)'
    BY <1>2 DEF FolderInv, Apart
  <2> QED
    BY <1>2, <1>4, <2>1
<1>6. NoPartialMasquerade'
  BY <1>1 DEF FolderInv, NoPartialMasquerade, IsWhole, Whole
<1> QED
  BY <1>1, <1>2, <1>3, <1>5, <1>6 DEF FolderInv, HoldsFile

\* Moving on to the next candidate name.
LEMMA FolderStatTaken ==
  ASSUME TypeOK, FolderInv, NEW u \in Uploads, StatTaken(u)
  PROVE  FolderInv'
<1>1. /\ pc[u] = "stat" /\ n' = [n EXCEPT ![u] = @ + 1]
      /\ UNCHANGED <<disk, data, pc, req, fd, got>>
  BY DEF StatTaken, fileVars
<1>2. \A v \in Uploads : v # u => Dest(v)' = Dest(v) /\ Tmp(Dest(v))' = Tmp(Dest(v))
  BY <1>1, SamePaths DEF TypeOK
<1>3. NoPartialMasquerade'
  BY <1>1 DEF FolderInv, NoPartialMasquerade, IsWhole, Whole
<1>4. \A v, w \in Uploads : Apart(v, w)' = Apart(v, w)
  BY <1>1 DEF Apart
<1> QED
  BY <1>1, <1>2, <1>3, <1>4 DEF FolderInv, HoldsFile

\* An error of os.Stat moves on to the next candidate, or nowhere.
LEMMA FolderStatFails ==
  ASSUME TypeOK, FolderInv, NEW u \in Uploads, StatFails(u)
  PROVE  FolderInv'
<1>1. /\ pc[u] = "stat" /\ pc'[u] \in {"stat", "spin"}
      /\ \A v \in Uploads \ {u} : pc'[v] = pc[v] /\ n'[v] = n[v]
      /\ UNCHANGED <<disk, data, req, fd, got>>
  BY DEF StatFails, fileVars, TypeOK
<1>2. \A v \in Uploads : v # u => Dest(v)' = Dest(v) /\ Tmp(Dest(v))' = Tmp(Dest(v))
  BY <1>1, SamePaths
<1>3. NoPartialMasquerade'
  BY <1>1 DEF FolderInv, NoPartialMasquerade, IsWhole, Whole
<1>4. \A v, w \in Uploads : Apart(v, w)' = Apart(v, w)
  BY <1>1 DEF Apart
<1>5. \A v \in Uploads : pc'[v] \in Open => pc[v] \in Open
  BY <1>1 DEF Open
<1> QED
  BY <1>1, <1>2, <1>3, <1>4, <1>5 DEF FolderInv, HoldsFile

\* os.Create: the temporary name gets the upload's inode, or a leftover one.
LEMMA FolderCreate ==
  ASSUME TypeOK, FolderInv, PlainNames, NEW u \in Uploads, Create(u)
  PROVE  FolderInv'
<1> DEFINE p == Tmp(Dest(u))
           i == IF p \in DOMAIN disk THEN disk[p] ELSE u
<1>1. /\ pc[u] = "create" /\ pc' = [pc EXCEPT ![u] = "start"]
      /\ disk' = Put(p, i) /\ data' = Truncate(i) /\ fd' = [fd EXCEPT ![u] = i]
      /\ UNCHANGED <<req, n, got>>
  BY DEF Create, Goto
<1>2. p \in Path /\ p.part = 1 /\ Dest(u).part = 0 /\ Dest(u) # p
  BY <1>1, PlainPaths
<1>3. i \in Writers /\ got[u] = 0 /\ \A q \in DOMAIN disk : disk[q] # u
  BY <1>1 DEF TypeOK, Writers, FolderInv
<1>4. \A q \in DOMAIN disk : q # p => disk[q] # i
  BY <1>3 DEF FolderInv
<1>5. \A v \in Uploads : Dest(v)' = Dest(v) /\ Tmp(Dest(v))' = Tmp(Dest(v))
  BY <1>1, SamePaths
<1>6. \A v \in Uploads : v # u /\ pc[v] \in HoldsFile => Tmp(Dest(v)) # p /\ Dest(v) # p
  BY <1>1, OwnPaths DEF Open
<1>7. \A v \in Uploads : v # u /\ pc[v] = "create" => Dest(v) # p
  BY <1>2, PlainPaths
<1> HIDE DEF i, p
<1>8. /\ DOMAIN disk' = DOMAIN disk \cup {p} /\ disk'[p] = i
      /\ \A q \in DOMAIN disk : q # p => disk'[q] = disk[q]
  BY <1>1 DEF Put
<1>9. \A j \in Writers : j # i => data'[j] = data[j]
  BY <1>1 DEF Truncate, TypeOK
<1>10. \A q \in DOMAIN disk : q # p => data'[disk'[q]] = data[disk[q]]
  BY <1>4, <1>8, <1>9 DEF TypeOK
<1>11. NoPartialMasquerade'
  <2> SUFFICES ASSUME NEW q \in DOMAIN disk', q.part = 0 PROVE IsWhole(disk[q])'
    BY DEF NoPartialMasquerade
  <2>1. q \in DOMAIN disk /\ q # p
    BY <1>2, <1>8
  <2>2. IsWhole(disk[q])
    BY <2>1 DEF FolderInv, NoPartialMasquerade
  <2> QED
    BY <1>10, <2>1, <2>2 DEF IsWhole, Whole
<1>12. \A q, r \in DOMAIN disk' : disk'[q] = disk'[r] => q = r
  BY <1>4, <1>8 DEF FolderInv
<1>13. \A v \in Uploads : pc'[v] \in HoldsFile =>
         /\ Tmp(Dest(v))' \in DOMAIN disk'
         /\ disk'[Tmp(Dest(v))'] = fd'[v]
         /\ \A k \in 1..got'[v] : data'[fd'[v]][k] = v
  <2> SUFFICES ASSUME NEW v \in Uploads, pc'[v] \in HoldsFile
               PROVE  /\ Tmp(Dest(v))' \in DOMAIN disk'
                      /\ disk'[Tmp(Dest(v))'] = fd'[v]
                      /\ \A k \in 1..got'[v] : data'[fd'[v]][k] = v
    OBVIOUS
  <2>1. CASE v = u
    <3>1. Tmp(Dest(u))' = p /\ fd'[u] = i /\ got'[u] = 0
      BY <1>1, <1>3, <1>5 DEF TypeOK, p
    <3> QED
      BY <2>1, <3>1, <1>8
  <2>2. CASE v # u
    <3>1. pc[v] \in HoldsFile /\ fd'[v] = fd[v] /\ got'[v] = got[v]
      BY <1>1, <2>2 DEF TypeOK
    <3>2. /\ Tmp(Dest(v)) \in DOMAIN disk /\ disk[Tmp(Dest(v))] = fd[v]
          /\ \A k \in 1..got[v] : data[fd[v]][k] = v
      BY <3>1 DEF FolderInv
    <3> QED
      BY <1>5, <1>6, <1>8, <1>10, <2>2, <3>1, <3>2
  <2> QED BY <2>1, <2>2
<1>14. \A v \in Uploads : pc'[v] \in {"create"} \cup HoldsFile => Dest(v)' \notin DOMAIN disk'
  BY <1>1, <1>2, <1>5, <1>6, <1>7, <1>8 DEF FolderInv, HoldsFile, TypeOK
<1>15. \A v \in Uploads : pc'[v] = "rename" => got'[v] = Chunks
  BY <1>1 DEF FolderInv, TypeOK
<1>16. \A v \in Uploads : pc'[v] \in {"idle", "lookup", "stat", "create"} =>
         got'[v] = 0 /\ \A q \in DOMAIN disk' : disk'[q] # v
  <2> SUFFICES ASSUME NEW v \in Uploads, pc'[v] \in {"idle", "lookup", "stat", "create"}
               PROVE  got'[v] = 0 /\ \A q \in DOMAIN disk' : disk'[q] # v
    OBVIOUS
  <2>1. v # u /\ pc[v] \in {"idle", "lookup", "stat", "create"}
    BY <1>1 DEF TypeOK
  <2>2. got[v] = 0 /\ \A q \in DOMAIN disk : disk[q] # v
    BY <2>1 DEF FolderInv
  <2>3. i # v
    BY <2>1, <2>2 DEF i
  <2> QED
    BY <1>1, <1>8, <2>2, <2>3
<1>17. \A v, w \in Uploads : v # w /\ pc'[v] \in Open /\ pc'[w] \in Open => Apart(v, w)'
  BY <1>1 DEF FolderInv, Apart, Open, TypeOK
<1> QED
  BY <1>11, <1>12, <1>13, <1>14, <1>15, <1>16, <1>17 DEF FolderInv

\* Writing a chunk changes an inode nobody else sees.
LEMMA FolderReadChunk ==
  ASSUME TypeOK, FolderInv, PlainNames, NEW u \in Uploads, ReadChunk(u)
  PROVE  FolderInv'
<1>1. /\ pc[u] = "reading"
      /\ \/ pc' = [pc EXCEPT ![u] = "check"]
         \/ got[u] + 1 = Chunks /\ pc' = [pc EXCEPT ![u] = "rename"]
      /\ got[u] < Chunks /\ got' = [got EXCEPT ![u] = @ + 1]
      /\ data' = [data EXCEPT ![fd[u]][got[u] + 1] = u]
      /\ UNCHANGED <<disk, req, n, fd>>
  BY DEF ReadChunk, Goto
<1>2. fd[u] \in Writers /\ got[u] + 1 \in 1..Chunks /\ pc[u] \in HoldsFile /\ got[u] \in Nat
  BY <1>1, UploadsAssumption DEF TypeOK, HoldsFile
<1>3. /\ \A j \in Writers : j # fd[u] => data'[j] = data[j]
      /\ data'[fd[u]] = [data[fd[u]] EXCEPT ![got[u] + 1] = u]
      /\ data[fd[u]] \in [1..Chunks -> Writers \cup {Nil}]
  BY <1>1, <1>2 DEF TypeOK
<1>4. \A v \in Uploads : Dest(v)' = Dest(v) /\ Tmp(Dest(v))' = Tmp(Dest(v))
  BY <1>1, SamePaths
<1>5. NoPartialMasquerade'
  <2> SUFFICES ASSUME NEW q \in DOMAIN disk, q.part = 0 PROVE IsWhole(disk[q])'
    BY <1>1 DEF NoPartialMasquerade
  <2>1. IsWhole(disk[q]) /\ disk[q] # fd[u] /\ disk[q] \in Writers
    BY <1>2, OpenInodeHidden DEF FolderInv, NoPartialMasquerade, TypeOK
  <2> QED
    BY <1>1, <1>3, <2>1 DEF IsWhole, Whole
<1>6. \A v \in Uploads : pc'[v] \in HoldsFile => \A k \in 1..got'[v] : data'[fd'[v]][k] = v
  <2> SUFFICES ASSUME NEW v \in Uploads, pc'[v] \in HoldsFile, NEW k \in 1..got'[v]
               PROVE  data'[fd[v]][k] = v
    BY <1>1
  <2>1. CASE v = u
    <3>1. got'[u] = got[u] + 1
      BY <1>1 DEF TypeOK
    <3>2. \A j \in 1..got[u] : data[fd[u]][j] = u
      BY <1>2 DEF FolderInv
    <3>3. k \in 1..Chunks /\ (k = got[u] + 1 \/ k \in 1..got[u])
      BY <1>2, <2>1, <3>1, UploadsAssumption
    <3>4. data'[fd[u]][k] = IF k = got[u] + 1 THEN u ELSE data[fd[u]][k]
      BY <1>3, <3>3
    <3> QED
      BY <2>1, <3>2, <3>3, <3>4
  <2>2. CASE v # u
    <3>1. pc[v] \in HoldsFile /\ got'[v] = got[v]
      BY <1>1, <2>2 DEF TypeOK
    <3>2. /\ disk[Tmp(Dest(v))] = fd[v] /\ disk[Tmp(Dest(u))] = fd[u]
          /\ Tmp(Dest(v)) \in DOMAIN disk /\ Tmp(Dest(u)) \in DOMAIN disk
      BY <1>2, <3>1 DEF FolderInv
    <3>3. Tmp(Dest(v)) # Tmp(Dest(u))
      BY <1>1, <2>2, <3>1, OwnPaths DEF Open
    <3>4. fd[v] # fd[u] /\ fd[v] \in Writers
      BY <3>1, <3>2, <3>3 DEF FolderInv, TypeOK
    <3> QED
      BY <1>3, <3>1, <3>4 DEF FolderInv
  <2> QED BY <2>1, <2>2
<1>7. \A v, w \in Uploads : Apart(v, w)' = Apart(v, w)
  BY <1>1 DEF Apart
<1>8. \A v \in Uploads : (pc'[v] \in HoldsFile <=> pc[v] \in HoldsFile) /\ (pc'[v] \in Open <=> pc[v] \in Open)
  BY <1>1 DEF TypeOK, HoldsFile, Open
<1>9. \A v \in Uploads : v # u => pc'[v] = pc[v] /\ got'[v] = got[v]
  BY <1>1 DEF TypeOK
<1>10. pc'[u] = "check" \/ (pc'[u] = "rename" /\ got'[u] = Chunks)
  BY <1>1 DEF TypeOK
<1> QED
  BY <1>1, <1>4, <1>5, <1>6, <1>7, <1>8, <1>9, <1>10 DEF FolderInv

\* os.Remove takes away the upload's own temporary name only.
LEMMA FolderRemoveTmp ==
  ASSUME TypeOK, FolderInv, PlainNames, NEW u \in Uploads, RemoveTmp(u)
  PROVE  FolderInv'
<1> DEFINE p == Tmp(Dest(u))
<1>1. /\ pc[u] = "cleanup" /\ pc' = [pc EXCEPT ![u] = "fail"]
      /\ disk' = Unlink(p)
      /\ UNCHANGED <<data, req, n, fd, got>>
  BY DEF RemoveTmp, Goto
<1>2. \A v \in Uploads : v # u /\ pc[v] \in HoldsFile => Tmp(Dest(v)) # p
  BY <1>1, OwnPaths DEF Open
<1>3. \A v \in Uploads : Dest(v)' = Dest(v) /\ Tmp(Dest(v))' = Tmp(Dest(v))
  BY <1>1, SamePaths
<1> HIDE DEF p
<1>4. DOMAIN disk' = DOMAIN disk \ {p} /\ \A q \in DOMAIN disk' : disk'[q] = disk[q]
  BY <1>1 DEF Unlink
<1>5. NoPartialMasquerade'
  BY <1>1, <1>4 DEF FolderInv, NoPartialMasquerade, IsWhole, Whole
<1>6. \A v, w \in Uploads : Apart(v, w)' = Apart(v, w)
  BY <1>1 DEF Apart
<1>7. pc'[u] = "fail" /\ \A v \in Uploads : v # u => pc'[v] = pc[v]
  BY <1>1 DEF TypeOK
<1>8. pc[u] \in Open /\ pc'[u] \notin HoldsFile
  BY <1>1, <1>7 DEF Open, HoldsFile
<1> QED
  BY <1>1, <1>2, <1>3, <1>4, <1>5, <1>6, <1>7, <1>8 DEF FolderInv

\* os.Rename: the whole file gets its final name, which was free.
LEMMA FolderRename ==
  ASSUME TypeOK, FolderInv, PlainNames, NEW u \in Uploads, Rename(u)
  PROVE  FolderInv'
<1> DEFINE p == Tmp(Dest(u))
           d == Dest(u)
<1>1. /\ pc[u] = "rename" /\ pc' = [pc EXCEPT ![u] = "landed"]
      /\ p \in DOMAIN disk /\ disk' = Move(p, d)
      /\ UNCHANGED <<data, req, n, fd, got>>
  BY DEF Rename, Goto
<1>2. d \notin DOMAIN disk /\ disk[p] = fd[u] /\ got[u] = Chunks
      /\ \A k \in 1..Chunks : data[fd[u]][k] = u
  BY <1>1 DEF FolderInv, HoldsFile
<1>3. p.part = 1 /\ d.part = 0 /\ p # d
  BY <1>1, PlainPaths
<1>4. \A v \in Uploads : v # u /\ pc[v] \in HoldsFile =>
        Tmp(Dest(v)) # p /\ Tmp(Dest(v)) # d /\ Dest(v) # d
  BY <1>1, OwnPaths DEF Open
<1>5. \A v \in Uploads : v # u /\ pc[v] = "create" => Dest(v) # d
  <2> SUFFICES ASSUME NEW v \in Uploads, v # u, pc[v] = "create" PROVE Dest(v) # d
    OBVIOUS
  <2>1. Apart(u, v)
    BY <1>1 DEF FolderInv, Open
  <2> QED
    BY <1>1, <2>1, ApartPaths
<1>6. \A v \in Uploads : Dest(v)' = Dest(v) /\ Tmp(Dest(v))' = Tmp(Dest(v))
  BY <1>1, SamePaths
<1> HIDE DEF p, d
<1>7. /\ DOMAIN disk' = (DOMAIN disk \ {p}) \cup {d} /\ disk'[d] = fd[u]
      /\ \A q \in DOMAIN disk' : q # d => q \in DOMAIN disk /\ q # p /\ disk'[q] = disk[q]
  BY <1>1, <1>2 DEF Move
<1>8. NoPartialMasquerade'
  <2> SUFFICES ASSUME NEW q \in DOMAIN disk', q.part = 0 PROVE IsWhole(disk[q])'
    BY DEF NoPartialMasquerade
  <2>1. CASE q = d
    BY <1>1, <1>2, <1>7, <2>1 DEF IsWhole, Whole, Writers
  <2>2. CASE q # d
    BY <1>1, <1>7, <2>2 DEF FolderInv, NoPartialMasquerade, IsWhole, Whole
  <2> QED BY <2>1, <2>2
<1>9. \A q, r \in DOMAIN disk' : disk'[q] = disk'[r] => q = r
  BY <1>1, <1>2, <1>7 DEF FolderInv
<1>10. pc'[u] = "landed" /\ \A v \in Uploads : v # u => pc'[v] = pc[v]
  BY <1>1 DEF TypeOK
<1>11. pc[u] \in Open /\ pc'[u] \notin HoldsFile
  BY <1>1, <1>10 DEF Open, HoldsFile
<1>12. \A v \in Uploads : pc'[v] \in HoldsFile =>
         /\ Tmp(Dest(v))' \in DOMAIN disk'
         /\ disk'[Tmp(Dest(v))'] = fd'[v]
         /\ \A k \in 1..got'[v] : data'[fd'[v]][k] = v
  BY <1>1, <1>4, <1>6, <1>7, <1>10, <1>11 DEF FolderInv
<1>13. \A v \in Uploads : pc'[v] \in {"create"} \cup HoldsFile => Dest(v)' \notin DOMAIN disk'
  BY <1>4, <1>5, <1>6, <1>7, <1>10, <1>11 DEF FolderInv
<1>14. \A v \in Uploads : pc'[v] \in {"idle", "lookup", "stat", "create"} =>
         got'[v] = 0 /\ \A q \in DOMAIN disk' : disk'[q] # v
  BY <1>1, <1>2, <1>7, <1>10 DEF FolderInv
<1>15. \A v, w \in Uploads : v # w /\ pc'[v] \in Open /\ pc'[w] \in Open => Apart(v, w)'
  BY <1>1, <1>10, <1>11 DEF FolderInv, Apart
<1> QED
  BY <1>1, <1>8, <1>9, <1>10, <1>12, <1>13, <1>14, <1>15 DEF FolderInv

\* One step per action of Next.
LEMMA FolderStep ==
  ASSUME PlainNames, ~NameOverlap
  PROVE  TypeOK /\ FolderInv /\ [Next]_vars => FolderInv'
<1> SUFFICES ASSUME TypeOK, FolderInv, [Next]_vars PROVE FolderInv' OBVIOUS
<1>1. ASSUME NEW u \in Uploads, NEW s \in Sessions, NEW f \in Files, NEW tok \in BOOLEAN,
             Arrive(u, s, f, tok)
      PROVE FolderInv'
  BY <1>1, FolderArrive
<1>2. ASSUME NEW u \in Uploads, ServeUpload(u) \/ CreateFails(u) \/ Body(u) PROVE FolderInv'
  <2>1. CASE StatTaken(u) \/ StatFails(u) \/ Create(u) \/ RemoveTmp(u) \/ Rename(u) \/ ReadChunk(u)
    BY <2>1, FolderStatTaken, FolderStatFails, FolderCreate, FolderRemoveTmp, FolderRename, FolderReadChunk
  <2>2. CASE \/ Lookup(u) \/ StatFree(u) \/ CreateFails(u) \/ EmitStart(u) \/ CheckContext(u)
             \/ ReadEOF(u) \/ CopyFails(u) \/ RenameFails(u) \/ EmitError(u) \/ EmitDone(u)
             \/ Complete(u)
    <3>1. UNCHANGED <<fileVars, req, n, fd, got>>
      BY <2>2 DEF Lookup, StatFree, CreateFails, EmitStart, CheckContext, ReadEOF, CopyFails,
                  RenameFails, EmitError, EmitDone, Complete
    <3>2. \A v \in Uploads : v # u => pc'[v] = pc[v]
      BY <2>2 DEF Lookup, StatFree, CreateFails, EmitStart, CheckContext, ReadEOF, CopyFails,
                  RenameFails, EmitError, EmitDone, Complete, Goto, TypeOK
    <3>3. /\ pc[u] \in Open
          /\ \/ pc'[u] \in Finished \cup {"fail", "landed", "complete"}
             \/ pc[u] = "lookup" /\ pc'[u] = "stat"
             \/ pc[u] = "stat" /\ pc'[u] = "create" /\ Dest(u) \notin DOMAIN disk
             \/ pc[u] \in HoldsFile /\ pc'[u] \in HoldsFile \ {"rename"}
             \/ pc[u] = "reading" /\ pc'[u] = "rename" /\ got[u] = Chunks
      BY <2>2 DEF Lookup, StatFree, CreateFails, EmitStart, CheckContext, ReadEOF, CopyFails,
                  RenameFails, EmitError, EmitDone, Complete, Goto, TypeOK, Open, HoldsFile, Finished
    <3> QED
      BY <3>1, <3>2, <3>3, FolderUnchanged
  <2> QED
    BY <1>2, <2>1, <2>2 DEF ServeUpload, Body
<1>3. CASE Crash
  <2>1. /\ UNCHANGED <<fileVars, req, n, fd, got>>
        /\ \A v \in Uploads : pc'[v] = IF pc[v] \in Open \cup {"spin"} THEN "dead" ELSE pc[v]
    BY <1>3 DEF Crash
  <2> QED
    BY <2>1, FolderUnchanged DEF Open, Finished
<1>4. CASE \/ UNCHANGED vars \/ Show \/ Quiescent
           \/ \E s \in Sessions : CreateSession(s)
           \/ \E c \in Cancels : ServeCancel(c)
           \/ \E c \in Cancels, s \in Sessions : CancelDelete(c, s)
  <2>1. UNCHANGED <<fileVars, upVars>>
    BY <1>4 DEF vars, Show, Quiescent, CreateSession, ServeCancel, CancelContext, EmitCancel, CancelDelete
  <2> QED
    BY <2>1, FolderUnchanged DEF upVars
<1> QED
  BY <1>1, <1>2, <1>3, <1>4 DEF Next

\* The folder invariant holds throughout.
LEMMA FolderInvariant ==
  ASSUME PlainNames, ~NameOverlap
  PROVE  Spec => []FolderInv
BY FolderInit, FolderStep, TypeCorrect, PTL DEF Spec

\* If peers announce no ".part" names and never have two uploads open at once
\* whose names may meet on one path, no partial or mixed file is ever visible under a plain name, at
\* any moment, whatever fails, is cancelled or crashes.
THEOREM PartialsStayHidden ==
  ASSUME PlainNames, ~NameOverlap
  PROVE  Spec => []NoPartialMasquerade
<1>1. FolderInv => NoPartialMasquerade
  BY DEF FolderInv
<1> QED
  BY <1>1, FolderInvariant, PTL

\* Under the same conditions a file in the folder is never replaced, renamed,
\* removed or written to by a later transfer.
THEOREM FolderOnlyGrows ==
  ASSUME PlainNames, ~NameOverlap
  PROVE  Spec => ReceivedFilesKept
<1> DEFINE Kept == \A p \in DOMAIN disk :
                     GivenName(p) /\ IsWhole(disk[p]) /\ disk[p] \notin Held
                       => /\ p \in DOMAIN disk' /\ disk'[p] = disk[p]
                          /\ data'[disk[p]] = data[disk[p]]
<1>1. TypeOK /\ FolderInv /\ [Next]_vars => [Kept]_vars
  <2> SUFFICES ASSUME TypeOK, FolderInv, [Next]_vars, NEW p \in DOMAIN disk, GivenName(p)
               PROVE  /\ p \in DOMAIN disk' /\ disk'[p] = disk[p]
                      /\ data'[disk[p]] = data[disk[p]]
    OBVIOUS
  <2>1. p.part = 0 /\ disk[p] \in Writers
    BY DEF GivenName, PlainNames, TypeOK
  <2>2. ASSUME NEW u \in Uploads, Create(u)
        PROVE  p \in DOMAIN disk' /\ disk'[p] = disk[p] /\ data'[disk[p]] = data[disk[p]]
    <3> DEFINE q == Tmp(Dest(u))
               i == IF q \in DOMAIN disk THEN disk[q] ELSE u
    <3>1. pc[u] = "create" /\ disk' = Put(q, i) /\ data' = Truncate(i)
      BY <2>2 DEF Create, Goto
    <3>2. q # p
      BY <2>1, <3>1, PlainPaths
    <3>3. disk[p] # i
      BY <3>1, <3>2 DEF FolderInv
    <3> HIDE DEF q, i
    <3> QED
      BY <2>1, <3>1, <3>2, <3>3 DEF Put, Truncate, TypeOK
  <2>3. ASSUME NEW u \in Uploads, ReadChunk(u)
        PROVE  p \in DOMAIN disk' /\ disk'[p] = disk[p] /\ data'[disk[p]] = data[disk[p]]
    <3>1. pc[u] \in HoldsFile /\ disk' = disk /\ data' = [data EXCEPT ![fd[u]][got[u] + 1] = u]
      BY <2>3 DEF ReadChunk, Goto, HoldsFile
    <3>2. disk[p] # fd[u]
      BY <2>1, <3>1, OpenInodeHidden
    <3> QED
      BY <2>1, <3>1, <3>2 DEF TypeOK
  <2>4. ASSUME NEW u \in Uploads, RemoveTmp(u)
        PROVE  p \in DOMAIN disk' /\ disk'[p] = disk[p] /\ data'[disk[p]] = data[disk[p]]
    <3>1. Tmp(Dest(u)) # p /\ disk' = Unlink(Tmp(Dest(u))) /\ data' = data
      BY <2>1, <2>4, PlainPaths DEF RemoveTmp, Goto
    <3> QED
      BY <3>1 DEF Unlink
  <2>5. ASSUME NEW u \in Uploads, Rename(u)
        PROVE  p \in DOMAIN disk' /\ disk'[p] = disk[p] /\ data'[disk[p]] = data[disk[p]]
    <3>1. pc[u] = "rename" /\ disk' = Move(Tmp(Dest(u)), Dest(u)) /\ data' = data
      BY <2>5 DEF Rename, Goto
    <3>2. Tmp(Dest(u)) # p /\ Dest(u) # p
      BY <2>1, <3>1, PlainPaths DEF FolderInv, HoldsFile
    <3> QED
      BY <3>1, <3>2 DEF Move
  <2>6. CASE UNCHANGED fileVars
    BY <2>6 DEF fileVars
  <2>7. \/ UNCHANGED fileVars
        \/ \E u \in Uploads : Create(u) \/ ReadChunk(u) \/ RemoveTmp(u) \/ Rename(u)
    <3>1. CASE \E u \in Uploads : ServeUpload(u) \/ CreateFails(u) \/ Body(u)
      BY <3>1 DEF ServeUpload, Body, Lookup, StatTaken, StatFails, StatFree, CreateFails, EmitStart, CheckContext,
                  ReadEOF, CopyFails, RenameFails, EmitError, EmitDone, Complete
    <3>2. CASE ~ \E u \in Uploads : ServeUpload(u) \/ CreateFails(u) \/ Body(u)
      BY <3>2 DEF Next, vars, CreateSession, Arrive, CancelDelete, ServeCancel, CancelContext,
                  EmitCancel, Show, Crash, Quiescent
    <3> QED BY <3>1, <3>2
  <2> QED
    BY <2>2, <2>3, <2>4, <2>5, <2>6, <2>7
<1> QED
  BY <1>1, FolderInvariant, TypeCorrect, PTL DEF Spec, ReceivedFilesKept

-----------------------------------------------------------------------------
(* Cancelling *)

\* An upload whose session is cancelled before it asks for its next chunk: it
\* can only be refused, clean up, fail or die.
Doomed(u) ==
  /\ pc[u] \in {"lookup", "stat", "spin", "create", "start", "check", "cleanup", "fail",
                "forbidden", "failed", "dead"}
  /\ req[u].s \in cancelled

\* No step takes an upload off that road: contexts stay cancelled, and a
\* handler looks at its context before every read.
LEMMA DoomedStep ==
  ASSUME NEW u \in Uploads
  PROVE  TypeOK /\ StoreInv /\ Doomed(u) /\ [Next]_vars => Doomed(u)'
<1> SUFFICES ASSUME TypeOK, StoreInv, Doomed(u), [Next]_vars PROVE Doomed(u)' OBVIOUS
<1>1. cancelled \subseteq cancelled'
  <2>1. CASE Crash
    BY <2>1 DEF Crash, StoreInv
  <2>2. CASE ~Crash
    <3>1. CASE \E v \in Uploads : ServeUpload(v) \/ CreateFails(v) \/ Body(v)
      BY <3>1 DEF ServeUpload, Body, Lookup, StatTaken, StatFails, StatFree, Create, EmitStart, CheckContext, RemoveTmp,
                  Rename, RenameFails, EmitError, EmitDone, Complete, CreateFails, ReadChunk, ReadEOF,
                  CopyFails, storeVars
    <3>2. CASE ~ \E v \in Uploads : ServeUpload(v) \/ CreateFails(v) \/ Body(v)
      BY <2>2, <3>2 DEF Next, vars, storeVars, CreateSession, Arrive, CancelDelete, ServeCancel, CancelContext,
                        EmitCancel, Show, Quiescent
    <3> QED BY <3>1, <3>2
  <2> QED BY <2>1, <2>2
<1>2. ASSUME NEW v \in Uploads, ServeUpload(v) \/ CreateFails(v) \/ Body(v) PROVE Doomed(u)'
  <2>1. req' = req /\ \A w \in Uploads \ {v} : pc'[w] = pc[w]
    BY <1>2 DEF ServeUpload, Body, Lookup, StatTaken, StatFails, StatFree, Create, EmitStart, CheckContext, RemoveTmp,
                Rename, RenameFails, EmitError, EmitDone, Complete, CreateFails, ReadChunk, ReadEOF,
                CopyFails, Goto, TypeOK
  <2>2. CASE v # u
    BY <1>1, <2>1, <2>2 DEF Doomed
  <2>3. CASE v = u
    BY <1>1, <1>2, <2>1, <2>3
    DEF Doomed, ServeUpload, Body, Lookup, StatTaken, StatFails, StatFree, Create, EmitStart, CheckContext, RemoveTmp,
        Rename, RenameFails, EmitError, EmitDone, Complete, CreateFails, ReadChunk, ReadEOF, CopyFails, Goto,
        TypeOK
  <2> QED BY <2>2, <2>3
<1>3. ASSUME NEW v \in Uploads, NEW s \in Sessions, NEW f \in Files, NEW tok \in BOOLEAN, Arrive(v, s, f, tok)
      PROVE  Doomed(u)'
  <2>1. v # u
    BY <1>3 DEF Arrive, Goto, Doomed
  <2> QED
    BY <1>1, <1>3, <2>1 DEF Arrive, Goto, Doomed, TypeOK
<1>4. CASE Crash
  BY <1>1, <1>4 DEF Crash, Doomed
<1>5. CASE \/ UNCHANGED vars \/ Show \/ Quiescent
           \/ \E s \in Sessions : CreateSession(s)
           \/ \E c \in Cancels : ServeCancel(c)
           \/ \E c \in Cancels, s \in Sessions : CancelDelete(c, s)
  <2>1. UNCHANGED upVars
    BY <1>5 DEF vars, Show, Quiescent, CreateSession, ServeCancel, CancelContext, EmitCancel, CancelDelete
  <2> QED
    BY <1>1, <2>1 DEF upVars, Doomed
<1> QED
  BY <1>2, <1>3, <1>4, <1>5 DEF Next

\* An upload that is cancelled before its next read never lands and is never
\* answered 200.
THEOREM CancelledForGood == Spec => CancelledNeverLands
<1>1. ASSUME NEW u \in Uploads
      PROVE  Spec => [](/\ pc[u] \in {"lookup", "stat", "create", "start", "check"}
                        /\ req[u].s \in cancelled
                        => [](pc[u] \notin {"rename", "landed", "complete", "ok"}))
  <2>1. pc[u] \in {"lookup", "stat", "create", "start", "check"} /\ req[u].s \in cancelled => Doomed(u)
    BY DEF Doomed
  <2>2. Doomed(u) => pc[u] \notin {"rename", "landed", "complete", "ok"}
    BY DEF Doomed
  <2>3. TypeOK /\ StoreInv /\ Doomed(u) /\ [Next]_vars => Doomed(u)'
    BY DoomedStep
  <2> QED
    BY <2>1, <2>2, <2>3, TypeCorrect, StoreInvariant, PTL DEF Spec
<1>2. (\A u \in Uploads :
        Spec => [](/\ pc[u] \in {"lookup", "stat", "create", "start", "check"}
                   /\ req[u].s \in cancelled
                   => [](pc[u] \notin {"rename", "landed", "complete", "ok"})))
      => (Spec => CancelledNeverLands)
  BY DEF CancelledNeverLands
<1> QED
  BY <1>1, <1>2

-----------------------------------------------------------------------------
(* Temporary files *)

\* Upload u answers for the ".part" entry p: it is writing it, or could not
\* rename it.
AnswersFor(u, p) ==
  /\ pc[u] \in HoldsFile \/ (pc[u] \in {"fail", "failed"} /\ Whole(disk[p], u))
  /\ Tmp(Dest(u)) = p

\* A handler whose rename fails has written every chunk of the file it leaves.
LEMMA HandsOver ==
  ASSUME TypeOK, FolderInv, NEW u \in Uploads, pc[u] = "rename"
  PROVE  Tmp(Dest(u)) \in DOMAIN disk /\ Whole(disk[Tmp(Dest(u))], u)
BY DEF FolderInv, HoldsFile, Whole

\* Nobody opens, cuts, writes or removes an entry that another upload answers
\* for without answering for it from then on.
LEMMA OrphanStep ==
  ASSUME PlainNames
  PROVE  TypeOK /\ FolderInv /\ NoOrphanPart /\ [Next]_vars => NoOrphanPart'
<1> SUFFICES ASSUME TypeOK, FolderInv, NoOrphanPart, [Next]_vars,
                    crashes' = 0, NEW p \in DOMAIN disk', p.part > 0, p \notin Existing
             PROVE  \E u \in Uploads : AnswersFor(u, p)'
  BY DEF NoOrphanPart, AnswersFor
<1> USE UploadsAssumption
<1>1. ~Crash /\ crashes = 0
  <2>1. ~Crash
    BY DEF Crash, TypeOK
  <2>2. CASE \E u \in Uploads : ServeUpload(u) \/ CreateFails(u) \/ Body(u)
    BY <2>1, <2>2
    DEF ServeUpload, Body, Lookup, StatTaken, StatFails, StatFree, Create, EmitStart, CheckContext, RemoveTmp, Rename,
        RenameFails, EmitError, EmitDone, Complete, CreateFails, ReadChunk, ReadEOF, CopyFails
  <2>3. CASE ~ \E u \in Uploads : ServeUpload(u) \/ CreateFails(u) \/ Body(u)
    BY <2>1, <2>3 DEF Next, vars, CreateSession, Arrive, CancelDelete, ServeCancel, CancelContext, EmitCancel,
                      Show, Quiescent
  <2> QED BY <2>1, <2>2, <2>3
<1>2. p \in DOMAIN disk => \E v \in Uploads : AnswersFor(v, p)
  BY <1>1 DEF NoOrphanPart, AnswersFor
<1>3. ASSUME UNCHANGED upVars, UNCHANGED fileVars PROVE \E u \in Uploads : AnswersFor(u, p)'
  BY <1>2, <1>3 DEF upVars, fileVars, AnswersFor, Whole, Tmp, Dest
<1>4. ASSUME NEW u \in Uploads, NEW s \in Sessions, NEW f \in Files, NEW tok \in BOOLEAN, Arrive(u, s, f, tok)
      PROVE  \E v \in Uploads : AnswersFor(v, p)'
  <2>1. pc[u] = "idle" /\ disk' = disk /\ data' = data
    BY <1>4 DEF Arrive, Goto, fileVars
  <2>2. PICK v \in Uploads : AnswersFor(v, p)
    BY <1>2, <2>1
  <2>3. v # u
    BY <2>1, <2>2 DEF AnswersFor, HoldsFile
  <2>4. pc'[v] = pc[v] /\ req'[v] = req[v] /\ n'[v] = n[v]
    BY <1>4, <2>3 DEF Arrive, Goto, TypeOK
  <2>5. Tmp(Dest(v))' = Tmp(Dest(v))
    BY <2>4, SamePaths
  <2> QED
    BY <2>1, <2>2, <2>4, <2>5 DEF AnswersFor, Whole
<1>5. ASSUME NEW u \in Uploads, ServeUpload(u) \/ CreateFails(u) \/ Body(u)
      PROVE  \E v \in Uploads : AnswersFor(v, p)'
  <2>1. req' = req /\ \A v \in Uploads \ {u} : pc'[v] = pc[v] /\ n'[v] = n[v]
    BY <1>5 DEF ServeUpload, Body, Lookup, StatTaken, StatFails, StatFree, Create, EmitStart, CheckContext, RemoveTmp,
                Rename, RenameFails, EmitError, EmitDone, Complete, CreateFails, ReadChunk, ReadEOF,
                CopyFails, Goto, TypeOK
  <2>2. \A v \in Uploads \ {u} : Tmp(Dest(v))' = Tmp(Dest(v))
    BY <2>1, SamePaths
  <2>3. ASSUME NEW v \in Uploads \ {u}, AnswersFor(v, p),
               pc[v] \in {"fail", "failed"} => disk'[p] = disk[p] /\ data'[disk[p]] = data[disk[p]]
        PROVE  AnswersFor(v, p)'
    BY <2>1, <2>2, <2>3 DEF AnswersFor, Whole
  <2>4. CASE Create(u)
    <3> DEFINE q == Tmp(Dest(u))
               i == IF q \in DOMAIN disk THEN disk[q] ELSE u
    <3>1. /\ pc[u] = "create" /\ pc' = [pc EXCEPT ![u] = "start"] /\ n' = n
          /\ disk' = Put(q, i) /\ data' = Truncate(i)
      BY <2>4 DEF Create, Goto
    <3>2. i \in Writers /\ \A r \in DOMAIN disk : r # q => disk[r] # i
      BY <3>1 DEF FolderInv, TypeOK, Writers
    <3>3. Tmp(Dest(u))' = q
      BY <2>1, <3>1, SamePaths
    <3> HIDE DEF q, i
    <3>4. CASE p = q
      BY <3>1, <3>3, <3>4 DEF AnswersFor, HoldsFile, TypeOK
    <3>5. CASE p # q
      <4>1. p \in DOMAIN disk /\ disk'[p] = disk[p] /\ disk[p] \in Writers
        BY <3>1, <3>5 DEF Put, TypeOK
      <4>2. data'[disk[p]] = data[disk[p]]
        BY <3>1, <3>2, <3>5, <4>1 DEF Truncate, TypeOK
      <4>3. PICK v \in Uploads : AnswersFor(v, p)
        BY <1>2, <4>1
      <4>4. v # u
        BY <3>1, <4>3 DEF AnswersFor, HoldsFile
      <4> QED
        BY <2>3, <4>1, <4>2, <4>3, <4>4
    <3> QED BY <3>4, <3>5
  <2>5. CASE ReadChunk(u)
    <3>1. /\ pc[u] = "reading" /\ pc'[u] \in {"check", "rename"} /\ disk' = disk /\ n' = n
          /\ data' = [data EXCEPT ![fd[u]][got[u] + 1] = u]
      BY <2>5 DEF ReadChunk, Goto, TypeOK
    <3>2. Tmp(Dest(u)) \in DOMAIN disk /\ disk[Tmp(Dest(u))] = fd[u]
      BY <3>1 DEF FolderInv, HoldsFile
    <3>3. CASE p = Tmp(Dest(u))
      BY <2>1, <3>1, <3>3, SamePaths DEF AnswersFor, HoldsFile, TypeOK
    <3>4. CASE p # Tmp(Dest(u))
      <4>1. disk[p] # fd[u] /\ disk[p] \in Writers
        BY <3>1, <3>2, <3>4 DEF FolderInv, TypeOK
      <4>2. data'[disk[p]] = data[disk[p]]
        BY <3>1, <4>1 DEF TypeOK
      <4>3. PICK v \in Uploads : AnswersFor(v, p)
        BY <1>2, <3>1
      <4>4. v # u
        BY <3>4, <4>3 DEF AnswersFor
      <4> QED
        BY <2>3, <3>1, <4>2, <4>3, <4>4
    <3> QED BY <3>3, <3>4
  <2>6. CASE RemoveTmp(u) \/ Rename(u)
    <3>1. /\ pc[u] \in {"cleanup", "rename"} /\ data' = data
          /\ disk' = Unlink(Tmp(Dest(u))) \/ disk' = Move(Tmp(Dest(u)), Dest(u))
      BY <2>6 DEF RemoveTmp, Rename, Goto
    <3>2. Dest(u).part = 0
      BY <3>1, PlainPaths
    <3>3. p \in DOMAIN disk /\ p # Tmp(Dest(u)) /\ disk'[p] = disk[p]
      BY <3>1, <3>2, PlainPaths DEF Unlink, Move
    <3>4. PICK v \in Uploads : AnswersFor(v, p)
      BY <1>2, <3>3
    <3>5. v # u
      BY <3>3, <3>4 DEF AnswersFor
    <3> QED
      BY <2>3, <3>1, <3>3, <3>4, <3>5
  <2>7. CASE \/ Lookup(u) \/ StatTaken(u) \/ StatFails(u) \/ StatFree(u) \/ CreateFails(u) \/ EmitStart(u) \/ CheckContext(u)
             \/ ReadEOF(u) \/ CopyFails(u) \/ RenameFails(u) \/ EmitError(u) \/ EmitDone(u) \/ Complete(u)
    <3>1. disk' = disk /\ data' = data
      BY <2>7 DEF Lookup, StatTaken, StatFails, StatFree, CreateFails, EmitStart, CheckContext, ReadEOF, CopyFails,
                  RenameFails, EmitError, EmitDone, Complete, fileVars
    <3>2. \/ pc[u] \notin HoldsFile \cup {"fail", "failed"}
          \/ n' = n /\ (\/ pc[u] \in HoldsFile /\ pc'[u] \in HoldsFile
                        \/ pc[u] = "fail" /\ pc'[u] = "failed"
                        \/ pc[u] = "rename" /\ pc'[u] = "fail")
      BY <2>7 DEF Lookup, StatTaken, StatFails, StatFree, CreateFails, EmitStart, CheckContext, ReadEOF, CopyFails,
                  RenameFails, EmitError, EmitDone, Complete, Goto, TypeOK, HoldsFile
    <3>3. PICK v \in Uploads : AnswersFor(v, p)
      BY <1>2, <3>1
    <3>4. CASE v # u
      BY <2>3, <3>1, <3>3, <3>4
    <3>5. CASE v = u
      <4>1. pc[u] \in HoldsFile \cup {"fail", "failed"} /\ Tmp(Dest(u)) = p
        BY <3>3, <3>5 DEF AnswersFor
      <4>2. Tmp(Dest(u))' = p
        BY <2>1, <3>2, <4>1, SamePaths
      <4>3. pc[u] = "rename" => Whole(disk[p], u)
        BY <4>1, HandsOver
      <4> QED
        BY <3>1, <3>2, <3>3, <3>5, <4>1, <4>2, <4>3 DEF AnswersFor, Whole, HoldsFile
    <3> QED BY <3>4, <3>5
  <2> QED
    BY <1>5, <2>4, <2>5, <2>6, <2>7 DEF ServeUpload, Body
<1>6. CASE \/ UNCHANGED vars \/ Show \/ Quiescent
           \/ \E s \in Sessions : CreateSession(s)
           \/ \E c \in Cancels : ServeCancel(c)
           \/ \E c \in Cancels, s \in Sessions : CancelDelete(c, s)
  BY <1>3, <1>6 DEF vars, Show, Quiescent, CreateSession, ServeCancel, CancelContext, EmitCancel, CancelDelete
<1> QED
  BY <1>1, <1>4, <1>5, <1>6 DEF Next

\* While the process lives every ".part" entry is an upload's under way, or the
\* whole file of one whose rename failed.
THEOREM NoOrphans ==
  ASSUME PlainNames, ~NameOverlap
  PROVE  Spec => []NoOrphanPart
<1>1. Init => NoOrphanPart
  BY DEF Init, NoOrphanPart
<1>2. TypeOK /\ FolderInv /\ NoOrphanPart /\ [Next]_vars => NoOrphanPart'
  BY OrphanStep
<1> QED
  BY <1>1, <1>2, TypeCorrect, FolderInvariant, PTL DEF Spec

-----------------------------------------------------------------------------
(* The handlers and the folder implement Inbox *)

\* An upload's file is in the folder exactly from its rename on; what a failed
\* or lost upload leaves in the folder stays what it is.
Promised ==
  \A u \in Uploads :
    /\ pc[u] \in {"idle", "lookup", "stat", "spin", "create"} => fd[u] = Nil
    /\ pc[u] \in {"landed", "complete", "ok"} => Delivered(u)
    /\ pc[u] \in {"lookup", "stat", "spin", "create", "fail"} \cup HoldsFile => ~Delivered(u)

\* Nothing is delivered at first.
LEMMA PromisedInit == Init => Promised
BY DEF Init, Promised, Delivered, HoldsFile

\* The names of an upload that has or had a file open.
LEMMA WriterPaths ==
  ASSUME TypeOK, PlainNames, Promised, NEW v \in Uploads, fd[v] # Nil
  PROVE  Dest(v).part = 0 /\ Tmp(Dest(v)).part = 1
<1>1. pc[v] # "idle"
  BY DEF Promised
<1> QED
  BY <1>1, PlainPaths

\* A step that renames nothing changes nobody's delivery.
Steady == \A v \in Uploads : Delivered(v)' <=> Delivered(v)

\* Steps that leave folder, requests and files alone,
LEMMA SteadyUnchanged ==
  ASSUME UNCHANGED <<fileVars, req, n, fd>> PROVE Steady
BY DEF Steady, Delivered, Whole, Dest, fileVars

\* that change the names of an upload without a file,
LEMMA SteadyNames ==
  ASSUME UNCHANGED <<fileVars, fd>>, NEW u \in Uploads, fd[u] = Nil,
         \A v \in Uploads \ {u} : req'[v] = req[v] /\ n'[v] = n[v]
  PROVE  Steady
<1> SUFFICES ASSUME NEW v \in Uploads PROVE Delivered(v)' <=> Delivered(v)
  BY DEF Steady
<1>1. CASE v = u
  BY <1>1 DEF Delivered
<1>2. CASE v # u
  <2>1. Dest(v)' = Dest(v)
    BY <1>2, SamePaths
  <2> QED
    BY <2>1 DEF Delivered, Whole, fileVars
<1> QED
  BY <1>1, <1>2

\* that open an empty temporary file,
LEMMA SteadyCreate ==
  ASSUME TypeOK, FolderInv, PlainNames, Promised, NEW u \in Uploads, Create(u)
  PROVE  Steady
<1> DEFINE p == Tmp(Dest(u))
           i == IF p \in DOMAIN disk THEN disk[p] ELSE u
<1>1. /\ pc[u] = "create" /\ disk' = Put(p, i) /\ data' = Truncate(i)
      /\ fd' = [fd EXCEPT ![u] = i] /\ UNCHANGED <<req, n>>
  BY DEF Create, Goto
<1>2. p.part = 1 /\ fd[u] = Nil
  BY <1>1, PlainPaths DEF Promised
<1>3. i \in Writers /\ \A q \in DOMAIN disk : q # p => disk[q] # i
  BY <1>1 DEF FolderInv, TypeOK, Writers
<1> HIDE DEF p, i
<1> SUFFICES ASSUME NEW v \in Uploads PROVE Delivered(v)' <=> Delivered(v)
  BY DEF Steady
<1>4. Dest(v)' = Dest(v)
  BY <1>1, SamePaths
<1>5. CASE v = u
  <2>1. fd'[u] = i /\ data'[i] = [k \in 1..Chunks |-> Nil]
    BY <1>1, <1>3 DEF Truncate, TypeOK
  <2>2. ~Whole(fd[u], u)'
    <3>1. 1 \in 1..Chunks /\ u # Nil
      BY UploadsAssumption DEF Writers
    <3>2. data'[fd'[u]][1] = Nil
      BY <2>1, <3>1
    <3> QED
      BY <3>1, <3>2 DEF Whole
  <2> QED
    BY <1>2, <1>5, <2>2 DEF Delivered
<1>6. CASE v # u /\ fd[v] = Nil
  BY <1>1, <1>6 DEF Delivered, TypeOK
<1>7. CASE v # u /\ fd[v] # Nil
  <2>1. fd'[v] = fd[v] /\ Dest(v).part = 0
    BY <1>1, <1>7, WriterPaths DEF TypeOK
  <2>2. Dest(v) # p
    BY <1>2, <2>1
  <2>3. /\ Dest(v) \in DOMAIN disk' <=> Dest(v) \in DOMAIN disk
        /\ Dest(v) \in DOMAIN disk => disk'[Dest(v)] = disk[Dest(v)]
    BY <1>1, <2>2 DEF Put
  <2>4. ASSUME Dest(v) \in DOMAIN disk, disk[Dest(v)] = fd[v] PROVE data'[fd[v]] = data[fd[v]]
    <3>1. fd[v] # i /\ fd[v] \in Writers
      BY <1>3, <2>2, <2>4 DEF TypeOK
    <3> QED
      BY <1>1, <3>1 DEF Truncate, TypeOK
  <2> QED
    BY <1>4, <2>1, <2>3, <2>4 DEF Delivered, Whole
<1> QED
  BY <1>5, <1>6, <1>7

\* that write to it,
LEMMA SteadyRead ==
  ASSUME TypeOK, FolderInv, PlainNames, Promised, NEW u \in Uploads, ReadChunk(u)
  PROVE  Steady
<1>1. /\ pc[u] \in HoldsFile /\ data' = [data EXCEPT ![fd[u]][got[u] + 1] = u]
      /\ UNCHANGED <<disk, req, n, fd>>
  BY DEF ReadChunk, Goto, HoldsFile
<1> SUFFICES ASSUME NEW v \in Uploads PROVE Delivered(v)' <=> Delivered(v)
  BY DEF Steady
<1>2. Dest(v)' = Dest(v)
  BY <1>1, SamePaths
<1>3. ASSUME fd[v] # Nil, Dest(v) \in DOMAIN disk, disk[Dest(v)] = fd[v] PROVE data'[fd[v]] = data[fd[v]]
  <2>1. fd[v] # fd[u]
    BY <1>1, <1>3, WriterPaths, OpenInodeHidden
  <2>2. fd[v] \in Writers
    BY <1>3 DEF TypeOK
  <2> QED
    BY <1>1, <2>1, <2>2 DEF TypeOK
<1> QED
  BY <1>1, <1>2, <1>3 DEF Delivered, Whole

\* or that remove it.
LEMMA SteadyRemove ==
  ASSUME TypeOK, FolderInv, PlainNames, Promised, NEW u \in Uploads, RemoveTmp(u)
  PROVE  Steady
<1>1. /\ disk' = Unlink(Tmp(Dest(u))) /\ Tmp(Dest(u)).part = 1 /\ UNCHANGED <<data, req, n, fd>>
  BY PlainPaths DEF RemoveTmp, Goto
<1> SUFFICES ASSUME NEW v \in Uploads PROVE Delivered(v)' <=> Delivered(v)
  BY DEF Steady
<1>2. Dest(v)' = Dest(v)
  BY <1>1, SamePaths
<1>3. CASE fd[v] # Nil
  <2>1. Dest(v) # Tmp(Dest(u))
    BY <1>1, <1>3, WriterPaths
  <2>2. /\ Dest(v) \in DOMAIN disk' <=> Dest(v) \in DOMAIN disk
        /\ Dest(v) \in DOMAIN disk => disk'[Dest(v)] = disk[Dest(v)]
    BY <1>1, <2>1 DEF Unlink
  <2> QED
    BY <1>1, <1>2, <2>2 DEF Delivered, Whole
<1>4. CASE fd[v] = Nil
  BY <1>1, <1>4 DEF Delivered
<1> QED
  BY <1>3, <1>4

\* A rename delivers its own upload's file, which was not there, and no other.
LEMMA RenameDelivers ==
  ASSUME TypeOK, FolderInv, PlainNames, Promised, NEW u \in Uploads, Rename(u)
  PROVE  /\ ~Delivered(u) /\ Delivered(u)'
         /\ \A v \in Uploads \ {u} : Delivered(v)' <=> Delivered(v)
<1> DEFINE p == Tmp(Dest(u))
           d == Dest(u)
<1>1. /\ pc[u] = "rename" /\ disk' = Move(p, d) /\ UNCHANGED <<data, req, n, fd>>
  BY DEF Rename, Goto
<1>2. d \notin DOMAIN disk /\ disk[p] = fd[u] /\ \A k \in 1..Chunks : data[fd[u]][k] = u
  BY <1>1 DEF FolderInv, HoldsFile
<1>3. p.part = 1 /\ d.part = 0 /\ fd[u] \in Writers
  BY <1>1, PlainPaths DEF TypeOK, HoldsFile
<1>4. \A v \in Uploads : Dest(v)' = Dest(v)
  BY <1>1, SamePaths
<1>5. Dest(u) = d
  OBVIOUS
<1> HIDE DEF p, d
<1>6. /\ d \in DOMAIN disk' /\ disk'[d] = fd[u]
      /\ \A q : q # p /\ q # d => (q \in DOMAIN disk' <=> q \in DOMAIN disk)
      /\ \A q \in DOMAIN disk : q # p /\ q # d => disk'[q] = disk[q]
  BY <1>1, <1>2 DEF Move
<1>7. ~Delivered(u)
  BY <1>2, <1>5 DEF Delivered
<1>8. Delivered(u)'
  BY <1>1, <1>2, <1>3, <1>4, <1>5, <1>6, UploadsAssumption DEF Delivered, Whole
<1>9. ASSUME NEW v \in Uploads, v # u PROVE Delivered(v)' <=> Delivered(v)
  <2>1. CASE fd[v] = Nil
    BY <1>1, <2>1 DEF Delivered
  <2>2. CASE fd[v] # Nil /\ Dest(v) # d
    <3>1. Dest(v) # p
      BY <1>3, <2>2, WriterPaths
    <3> QED
      BY <1>1, <1>4, <1>6, <2>2, <3>1 DEF Delivered, Whole
  <2>3. CASE fd[v] # Nil /\ Dest(v) = d
    <3>1. 1 \in 1..Chunks
      BY UploadsAssumption
    <3>2. fd[v] = fd[u] => ~Whole(fd[v], v)
      BY <1>2, <1>9, <3>1 DEF Whole
    <3>3. ~Delivered(v)
      BY <1>2, <2>3 DEF Delivered
    <3>4. ~Delivered(v)'
      BY <1>1, <1>4, <1>6, <2>3, <3>2 DEF Delivered, Whole
    <3> QED
      BY <3>3, <3>4
  <2> QED
    BY <2>1, <2>2, <2>3
<1> QED
  BY <1>7, <1>8, <1>9

\* Every step but a rename is steady.
LEMMA OthersSteady ==
  ASSUME TypeOK, FolderInv, PlainNames, Promised, [Next]_vars, ~ \E u \in Uploads : Rename(u)
  PROVE  Steady
<1>1. ASSUME NEW u \in Uploads, NEW s \in Sessions, NEW f \in Files, NEW tok \in BOOLEAN, Arrive(u, s, f, tok)
      PROVE  Steady
  <2>1. UNCHANGED <<fileVars, fd>> /\ fd[u] = Nil /\ n' = n /\ \A v \in Uploads \ {u} : req'[v] = req[v]
    BY <1>1 DEF Arrive, Goto, Promised, TypeOK
  <2> QED
    BY <2>1, SteadyNames
<1>2. ASSUME NEW u \in Uploads, ServeUpload(u) \/ CreateFails(u) \/ Body(u) PROVE Steady
  <2>1. CASE Create(u) \/ ReadChunk(u) \/ RemoveTmp(u)
    BY <2>1, SteadyCreate, SteadyRead, SteadyRemove
  <2>2. CASE StatTaken(u) \/ StatFails(u)
    <3>1. UNCHANGED <<fileVars, fd>> /\ fd[u] = Nil /\ req' = req /\ \A v \in Uploads \ {u} : n'[v] = n[v]
      BY <2>2 DEF StatTaken, StatFails, Promised, TypeOK
    <3> QED
      BY <3>1, SteadyNames
  <2>3. CASE \/ Lookup(u) \/ StatFree(u) \/ CreateFails(u) \/ EmitStart(u) \/ CheckContext(u) \/ ReadEOF(u)
             \/ CopyFails(u) \/ RenameFails(u) \/ EmitError(u) \/ EmitDone(u) \/ Complete(u)
    <3>1. UNCHANGED <<fileVars, req, n, fd>>
      BY <2>3 DEF Lookup, StatFree, CreateFails, EmitStart, CheckContext, ReadEOF, CopyFails, RenameFails,
                  EmitError, EmitDone, Complete
    <3> QED
      BY <3>1, SteadyUnchanged
  <2> QED
    BY <1>2, <2>1, <2>2, <2>3 DEF ServeUpload, Body
<1>3. CASE \/ UNCHANGED vars \/ Show \/ Quiescent \/ Crash
           \/ \E s \in Sessions : CreateSession(s)
           \/ \E c \in Cancels : ServeCancel(c)
           \/ \E c \in Cancels, s \in Sessions : CancelDelete(c, s)
  <2>1. UNCHANGED <<fileVars, req, n, fd>>
    BY <1>3 DEF vars, upVars, Show, Quiescent, Crash, CreateSession, ServeCancel, CancelContext, EmitCancel,
                CancelDelete
  <2> QED
    BY <2>1, SteadyUnchanged
<1> QED
  BY <1>1, <1>2, <1>3 DEF Next

\* How the stages of uploads may change in a step that is no rename.
LEMMA StageStep ==
  ASSUME TypeOK, [Next]_vars, ~ \E u \in Uploads : Rename(u), NEW u \in Uploads
  PROVE  \/ pc'[u] = pc[u]
         \/ /\ pc[u] = "idle" /\ pc'[u] = "lookup"
         \/ /\ pc[u] \in Open \cup {"spin"} /\ pc'[u] = "dead"
         \/ /\ pc[u] = "stat" /\ pc'[u] = "spin"
         \/ /\ pc[u] = "lookup" /\ pc'[u] = "forbidden"
         \/ /\ pc[u] = "fail" /\ pc'[u] = "failed"
         \/ /\ pc[u] = "landed" /\ pc'[u] = "complete"
         \/ /\ pc[u] = "complete" /\ pc'[u] = "ok"
         \/ /\ pc[u] \in {"lookup", "stat", "create", "fail"} \cup HoldsFile
            /\ pc'[u] \in {"stat", "create", "fail"} \cup HoldsFile
            /\ pc'[u] \in {"stat", "create"} => pc[u] \in {"lookup", "stat"}
<1>1. ASSUME NEW v \in Uploads, NEW s \in Sessions, NEW f \in Files, NEW tok \in BOOLEAN, Arrive(v, s, f, tok)
      PROVE  pc'[u] = pc[u] \/ (pc[u] = "idle" /\ pc'[u] = "lookup")
  BY <1>1 DEF Arrive, Goto, TypeOK
<1>2. ASSUME NEW v \in Uploads, v # u, ServeUpload(v) \/ CreateFails(v) \/ Body(v) PROVE pc'[u] = pc[u]
  BY <1>2 DEF ServeUpload, Body, Lookup, StatTaken, StatFails, StatFree, Create, EmitStart, CheckContext, RemoveTmp,
              Rename, RenameFails, EmitError, EmitDone, Complete, CreateFails, ReadChunk, ReadEOF, CopyFails,
              Goto, TypeOK
<1>3. ASSUME ServeUpload(u) \/ CreateFails(u) \/ Body(u)
      PROVE  \/ /\ pc[u] = "lookup" /\ pc'[u] = "forbidden"
             \/ /\ pc[u] = "stat" /\ pc'[u] = "spin"
             \/ /\ pc[u] = "fail" /\ pc'[u] = "failed"
             \/ /\ pc[u] = "landed" /\ pc'[u] = "complete"
             \/ /\ pc[u] = "complete" /\ pc'[u] = "ok"
             \/ /\ pc[u] \in {"lookup", "stat", "create", "fail"} \cup HoldsFile
                /\ pc'[u] \in {"stat", "create", "fail"} \cup HoldsFile
                /\ pc'[u] \in {"stat", "create"} => pc[u] \in {"lookup", "stat"}
  BY <1>3 DEF ServeUpload, Body, Lookup, StatTaken, StatFails, StatFree, Create, EmitStart, CheckContext, RemoveTmp,
              RenameFails, EmitError, EmitDone, Complete, CreateFails, ReadChunk, ReadEOF, CopyFails,
              Goto, TypeOK, HoldsFile
<1>4. CASE Crash
  BY <1>4 DEF Crash
<1>5. CASE \/ UNCHANGED vars \/ Show \/ Quiescent
           \/ \E s \in Sessions : CreateSession(s)
           \/ \E c \in Cancels : ServeCancel(c)
           \/ \E c \in Cancels, s \in Sessions : CancelDelete(c, s)
  BY <1>5 DEF vars, upVars, Show, Quiescent, CreateSession, ServeCancel, CancelContext, EmitCancel, CancelDelete
<1> QED
  BY <1>1, <1>2, <1>3, <1>4, <1>5 DEF Next

\* Promised is inductive.
LEMMA PromisedStep ==
  ASSUME PlainNames
  PROVE  TypeOK /\ FolderInv /\ Promised /\ [Next]_vars => Promised'
<1> SUFFICES ASSUME TypeOK, FolderInv, Promised, [Next]_vars PROVE Promised' OBVIOUS
<1>1. ASSUME NEW u \in Uploads, Rename(u) PROVE Promised'
  <2>1. /\ pc[u] = "rename" /\ pc' = [pc EXCEPT ![u] = "landed"] /\ fd' = fd
    BY <1>1 DEF Rename, Goto
  <2>2. pc'[u] = "landed" /\ \A v \in Uploads \ {u} : pc'[v] = pc[v]
    BY <2>1 DEF TypeOK
  <2>3. Delivered(u)' /\ \A v \in Uploads \ {u} : Delivered(v)' <=> Delivered(v)
    BY <1>1, RenameDelivers
  <2> QED
    BY <2>1, <2>2, <2>3 DEF Promised, HoldsFile
<1>2. ASSUME ~ \E u \in Uploads : Rename(u) PROVE Promised'
  <2>1. Steady
    BY <1>2, OthersSteady
  <2>2. ASSUME NEW u \in Uploads, pc'[u] \in {"idle", "lookup", "stat", "spin", "create"} PROVE fd'[u] = Nil
    <3>1. CASE \E v \in Uploads : Create(v)
      <4>1. PICK v \in Uploads : Create(v)
        BY <3>1
      <4>2. v # u
        BY <2>2, <4>1 DEF Create, Goto, TypeOK
      <4>3. pc'[u] = pc[u] /\ fd'[u] = fd[u]
        BY <4>1, <4>2 DEF Create, Goto, TypeOK
      <4> QED
        BY <2>2, <4>3 DEF Promised
    <3>2. CASE ~ \E v \in Uploads : Create(v)
      <4>1. pc[u] \in {"idle", "lookup", "stat", "spin", "create"}
        BY <1>2, <2>2, StageStep DEF Open, HoldsFile
      <4>2. fd' = fd
        <5>1. CASE \E v \in Uploads : ServeUpload(v) \/ CreateFails(v) \/ Body(v)
          BY <1>2, <3>2, <5>1
          DEF ServeUpload, Body, Lookup, StatTaken, StatFails, StatFree, EmitStart, CheckContext, RemoveTmp,
              RenameFails, EmitError, EmitDone, Complete, CreateFails, ReadChunk, ReadEOF, CopyFails
        <5>2. CASE ~ \E v \in Uploads : ServeUpload(v) \/ CreateFails(v) \/ Body(v)
          BY <5>2 DEF Next, vars, upVars, CreateSession, Arrive, CancelDelete, ServeCancel, CancelContext,
                      EmitCancel, Show, Crash, Quiescent
        <5> QED BY <5>1, <5>2
      <4> QED
        BY <4>1, <4>2 DEF Promised
    <3> QED BY <3>1, <3>2
  <2>3. ASSUME NEW u \in Uploads
        PROVE  /\ pc'[u] \in {"landed", "complete", "ok"} => Delivered(u)'
               /\ pc'[u] \in {"lookup", "stat", "spin", "create", "fail"} \cup HoldsFile => ~Delivered(u)'
    <3>1. pc[u] = "idle" => ~Delivered(u)
      BY DEF Promised, Delivered
    <3> QED
      BY <1>2, <2>1, <3>1, StageStep DEF Steady, Promised, HoldsFile, Open
  <2> QED
    BY <2>2, <2>3 DEF Promised, HoldsFile
<1> QED
  BY <1>1, <1>2

\* Steps of Inbox: what the folder shows and what the requests came to.
Inboxed  == {u \in Uploads : Delivered(u)}
Statuses == [u \in Uploads |-> StatusOf(u)]

\* Each status, read off the stage.
LEMMA StatusCases ==
  ASSUME NEW u \in Uploads
  PROVE  /\ pc[u] = "idle" => StatusOf(u) = "none"
         /\ pc[u] \in Open \cup {"spin"} => StatusOf(u) = "open"
         /\ pc[u] = "ok" => StatusOf(u) = "ok"
         /\ pc[u] \in {"forbidden", "failed"} => StatusOf(u) = "refused"
         /\ pc[u] = "dead" => StatusOf(u) = "lost"
BY DEF StatusOf, Open

\* A step of one handler changes the status of its upload only.
LEMMA OneStatus ==
  ASSUME NEW u \in Uploads, NEW now, \A v \in Uploads \ {u} : StatusOf(v)' = StatusOf(v), StatusOf(u)' = now
  PROVE  Statuses' = [Statuses EXCEPT ![u] = now]
BY DEF Statuses

\* Every step of the handlers, the folder and a crash is one of Inbox, or none.
LEMMA PromiseStep ==
  ASSUME PlainNames
  PROVE  TypeOK /\ FolderInv /\ Promised /\ [Next]_vars => [Promise!Next]_(Promise!ivars)
<1> SUFFICES ASSUME TypeOK, FolderInv, Promised, [Next]_vars PROVE [Promise!Next]_(Promise!ivars) OBVIOUS
<1>1. ASSUME Steady PROVE Inboxed' = Inboxed
  BY <1>1 DEF Steady, Inboxed
<1>2. ASSUME \A u \in Uploads : StatusOf(u)' = StatusOf(u) PROVE Statuses' = Statuses
  BY <1>2 DEF Statuses
<1>3. ASSUME NEW u \in Uploads, Rename(u) PROVE Promise!Deliver(u)
  <2>1. pc[u] = "rename" /\ pc'[u] = "landed" /\ \A v \in Uploads \ {u} : pc'[v] = pc[v]
    BY <1>3 DEF Rename, Goto, TypeOK
  <2>2. StatusOf(u) = "open" /\ StatusOf(u)' = "open" /\ \A v \in Uploads \ {u} : StatusOf(v)' = StatusOf(v)
    BY <2>1 DEF StatusOf, Open
  <2>3. Statuses' = Statuses /\ Statuses[u] = "open"
    BY <1>2, <2>2 DEF Statuses
  <2>4. u \notin Inboxed /\ Inboxed' = Inboxed \cup {u}
    BY <1>3, RenameDelivers DEF Inboxed
  <2> QED
    BY <2>3, <2>4 DEF Promise!Deliver, Inboxed, Statuses
<1>4. ASSUME ~ \E u \in Uploads : Rename(u) PROVE Promise!Next \/ UNCHANGED Promise!ivars
  <2>1. Inboxed' = Inboxed
    BY <1>1, <1>4, OthersSteady
  <2>2. ASSUME \A u \in Uploads : StatusOf(u)' = StatusOf(u) PROVE UNCHANGED Promise!ivars
    BY <1>2, <2>1, <2>2 DEF Promise!ivars, Inboxed, Statuses
  <2>3. ASSUME NEW u \in Uploads, \A v \in Uploads \ {u} : pc'[v] = pc[v],
               pc'[u] = "dead" => pc[u] = "dead"
        PROVE  Promise!Next \/ UNCHANGED Promise!ivars
    <3>1. \A v \in Uploads \ {u} : StatusOf(v)' = StatusOf(v)
      BY <2>3 DEF StatusOf
    <3>2. CASE StatusOf(u)' = StatusOf(u)
      BY <2>2, <3>1, <3>2
    <3>3. CASE pc[u] = "idle" /\ pc'[u] = "lookup"
      <4>1. StatusOf(u) = "none" /\ StatusOf(u)' = "open"
        BY <3>3 DEF StatusOf, Open
      <4>2. Statuses' = [Statuses EXCEPT ![u] = "open"] /\ Statuses[u] = "none"
        BY <3>1, <4>1, OneStatus DEF Statuses
      <4> QED
        BY <2>1, <4>2 DEF Promise!Next, Promise!Open, Inboxed, Statuses
    <3>4. CASE pc[u] \in {"lookup", "fail"} /\ pc'[u] \in {"forbidden", "failed"}
      <4>1. StatusOf(u) = "open" /\ StatusOf(u)' = "refused"
        BY <3>4 DEF StatusOf, Open
      <4>2. Statuses' = [Statuses EXCEPT ![u] = "refused"] /\ Statuses[u] = "open"
        BY <3>1, <4>1, OneStatus DEF Statuses
      <4>3. u \notin Inboxed
        BY <3>4 DEF Promised, Inboxed
      <4> QED
        BY <2>1, <4>2, <4>3 DEF Promise!Next, Promise!Refuse, Inboxed, Statuses
    <3>5. CASE pc[u] = "complete" /\ pc'[u] = "ok"
      <4>1. StatusOf(u) = "open" /\ StatusOf(u)' = "ok"
        BY <3>5 DEF StatusOf, Open
      <4>2. Statuses' = [Statuses EXCEPT ![u] = "ok"] /\ Statuses[u] = "open"
        BY <3>1, <4>1, OneStatus DEF Statuses
      <4>3. u \in Inboxed
        BY <3>5 DEF Promised, Inboxed
      <4> QED
        BY <2>1, <4>2, <4>3 DEF Promise!Next, Promise!Confirm, Inboxed, Statuses
    <3>6. CASE pc[u] \in Open /\ pc'[u] \in Open \cup {"spin"}
      <4>1. StatusOf(u)' = StatusOf(u)
        BY <3>6 DEF StatusOf, Open
      <4> QED
        BY <3>2, <4>1
    <3>7. CASE pc'[u] = pc[u]
      BY <3>2, <3>7 DEF StatusOf
    <3> QED
      BY <1>4, <2>3, <3>3, <3>4, <3>5, <3>6, <3>7, StageStep DEF Open, HoldsFile
  <2>4. CASE Crash
    <3>1. ASSUME NEW u \in Uploads PROVE StatusOf(u)' = IF StatusOf(u) = "open" THEN "lost" ELSE StatusOf(u)
      <4>1. pc'[u] = IF pc[u] \in Open \cup {"spin"} THEN "dead" ELSE pc[u]
        BY <2>4 DEF Crash
      <4>2. pc[u] \in {"idle", "spin"} \cup Open \cup Finished
        BY DEF TypeOK
      <4> QED
        BY <4>1, <4>2 DEF StatusOf, Open, Finished
    <3>2. Statuses' = [u \in Uploads |-> IF Statuses[u] = "open" THEN "lost" ELSE Statuses[u]]
      BY <3>1 DEF Statuses
    <3> QED
      BY <2>1, <3>2 DEF Promise!Next, Promise!Lose, Inboxed, Statuses
  <2>5. ASSUME NEW u \in Uploads, ServeUpload(u) \/ CreateFails(u) \/ Body(u)
        PROVE  Promise!Next \/ UNCHANGED Promise!ivars
    <3>1. /\ \A v \in Uploads \ {u} : pc'[v] = pc[v]
          /\ pc'[u] = "dead" => pc[u] = "dead"
      BY <2>5 DEF ServeUpload, Body, Lookup, StatTaken, StatFails, StatFree, Create, EmitStart, CheckContext, RemoveTmp,
                  Rename, RenameFails, EmitError, EmitDone, Complete, CreateFails, ReadChunk, ReadEOF,
                  CopyFails, Goto, TypeOK
    <3> QED
      BY <2>3, <3>1
  <2>6. ASSUME NEW u \in Uploads, NEW s \in Sessions, NEW f \in Files, NEW tok \in BOOLEAN, Arrive(u, s, f, tok)
        PROVE  Promise!Next \/ UNCHANGED Promise!ivars
    BY <2>3, <2>6 DEF Arrive, Goto, TypeOK
  <2>7. CASE \/ UNCHANGED vars \/ Show \/ Quiescent
             \/ \E s \in Sessions : CreateSession(s)
             \/ \E c \in Cancels : ServeCancel(c)
             \/ \E c \in Cancels, s \in Sessions : CancelDelete(c, s)
    <3>1. pc' = pc
      BY <2>7 DEF vars, upVars, Show, Quiescent, CreateSession, ServeCancel, CancelContext, EmitCancel,
                  CancelDelete
    <3> QED
      BY <2>2, <3>1 DEF StatusOf
  <2> QED
    BY <2>4, <2>5, <2>6, <2>7 DEF Next
<1> QED
  BY <1>3, <1>4 DEF Promise!Next

\* The receive folder keeps the promise of Inbox: a file arrives whole in one
\* step and stays, also over a crash; 200 is answered only when it is there, an
\* error only when it is not.
THEOREM InboxKeepsItsPromise ==
  ASSUME PlainNames, ~NameOverlap
  PROVE  Spec => InboxPromise
<1>1. Init => Promise!Init
  <2> SUFFICES ASSUME Init PROVE Promise!Init
    OBVIOUS
  <2>1. Inboxed = {}
    BY DEF Init, Inboxed, Delivered
  <2>2. \A u \in Uploads : StatusOf(u) = "none"
    BY StatusCases DEF Init
  <2>3. Statuses = [u \in Uploads |-> "none"]
    BY <2>2 DEF Statuses
  <2> QED
    BY <2>1, <2>3 DEF Promise!Init, Inboxed, Statuses
<1>2. TypeOK /\ FolderInv /\ Promised /\ [Next]_vars => Promised'
  BY PromisedStep
<1>3. TypeOK /\ FolderInv /\ Promised /\ [Next]_vars => [Promise!Next]_(Promise!ivars)
  BY PromiseStep
<1> QED
  BY <1>1, <1>2, <1>3, PromisedInit, TypeCorrect, FolderInvariant, PTL
  DEF Spec, InboxPromise, Promise!Spec

-----------------------------------------------------------------------------
(* The rows of the TUI.  Two conditions on what peers send: no token is used  *)
(* twice, and no fileId is the empty one that stands in the event of a cancel. *)

\* The last event of upload u, of this kind, has been filed or is on its way,
\* and no other event about the file comes after it.
Settled(u, kind) ==
  \/ /\ \A j \in 1..Len(transfers) : transfers[j].key # Key(u)
     /\ Key(u) \in DOMAIN rows /\ rows[Key(u)] = Outcome[kind]
  \/ \E i \in 1..Len(transfers) :
       /\ transfers[i].kind = kind /\ transfers[i].key = Key(u)
       /\ \A j \in 1..Len(transfers) : j > i => transfers[j].key # Key(u)

\* Uploads past the lookup have the right token, no two have it for the same
\* file, and those that told how they ended have told nothing since.
RowsInv ==
  /\ \A u \in Uploads : pc[u] \notin {"idle", "lookup", "forbidden", "dead"} => req[u].tok
  /\ \A u, v \in Uploads : u # v /\ req[u].tok /\ req[v].tok => Key(u) # Key(v)
  /\ crashes = 0 =>
       \A u \in Uploads : /\ pc[u] \in {"complete", "ok"} => Settled(u, "FileDone")
                          /\ pc[u] = "failed" => Settled(u, "Error")

\* An event about another file unsettles nothing,
LEMMA SettledBehind ==
  ASSUME TypeOK, NEW u \in Uploads, NEW kind, Settled(u, kind), Key(u)' = Key(u),
         NEW ev, ev.key # Key(u), transfers' = Append(transfers, ev), rows' = rows
  PROVE  Settled(u, kind)'
<1>1. /\ Len(transfers) \in Nat /\ Len(transfers') = Len(transfers) + 1
      /\ \A j \in 1..Len(transfers) : transfers'[j] = transfers[j]
      /\ transfers'[Len(transfers) + 1] = ev
  BY DEF TypeOK
<1>2. \A j \in 1..Len(transfers') : j \in 1..Len(transfers) \/ transfers'[j].key # Key(u)
  BY <1>1
<1>3. CASE \A j \in 1..Len(transfers) : transfers[j].key # Key(u)
  BY <1>1, <1>2, <1>3 DEF Settled
<1>4. CASE \E i \in 1..Len(transfers) :
             /\ transfers[i].kind = kind /\ transfers[i].key = Key(u)
             /\ \A j \in 1..Len(transfers) : j > i => transfers[j].key # Key(u)
  <2>1. PICK i \in 1..Len(transfers) :
               /\ transfers[i].kind = kind /\ transfers[i].key = Key(u)
               /\ \A j \in 1..Len(transfers) : j > i => transfers[j].key # Key(u)
    BY <1>4
  <2>2. i \in 1..Len(transfers') /\ transfers'[i] = transfers[i]
    BY <1>1
  <2>3. \A j \in 1..Len(transfers') : j > i => transfers'[j].key # Key(u)
    BY <1>1, <1>2, <2>1
  <2> QED
    BY <2>1, <2>2, <2>3 DEF Settled
<1> QED
  BY <1>3, <1>4 DEF Settled

\* the upload's own last event settles it,
LEMMA SettledNow ==
  ASSUME TypeOK, NEW u \in Uploads, NEW kind, Key(u)' = Key(u),
         transfers' = Append(transfers, [kind |-> kind, key |-> Key(u)])
  PROVE  Settled(u, kind)'
<1> DEFINE ev == [kind |-> kind, key |-> Key(u)]
<1>1. ev.kind = kind /\ ev.key = Key(u)
  OBVIOUS
<1> HIDE DEF ev
<1>2. /\ Len(transfers) \in Nat /\ Len(transfers') = Len(transfers) + 1
      /\ transfers'[Len(transfers) + 1] = ev
  BY DEF TypeOK, ev
<1> QED
  BY <1>1, <1>2 DEF Settled

\* and filing the events in their order keeps it settled.
LEMMA SettledShown ==
  ASSUME TypeOK, NEW u \in Uploads, NEW kind \in DOMAIN Outcome, Settled(u, kind), Key(u)' = Key(u),
         transfers # <<>>, rows' = Filed(rows, Head(transfers)), transfers' = Tail(transfers)
  PROVE  Settled(u, kind)'
<1>1. /\ Len(transfers) \in Nat \ {0} /\ Len(transfers') = Len(transfers) - 1
      /\ \A j \in 1..Len(transfers') : transfers'[j] = transfers[j + 1]
      /\ Head(transfers) = transfers[1]
  BY DEF TypeOK
<1>2. /\ DOMAIN rows' = DOMAIN rows \cup {transfers[1].key}
      /\ \A k \in DOMAIN rows : k # transfers[1].key => rows'[k] = rows[k]
      /\ rows'[transfers[1].key] = RowAfter(rows, transfers[1])
  BY <1>1 DEF Filed
<1>3. CASE /\ \A j \in 1..Len(transfers) : transfers[j].key # Key(u)
           /\ Key(u) \in DOMAIN rows /\ rows[Key(u)] = Outcome[kind]
  <2>1. transfers[1].key # Key(u) /\ \A j \in 1..Len(transfers') : transfers'[j].key # Key(u)
    BY <1>1, <1>3
  <2> QED
    BY <1>2, <1>3, <2>1 DEF Settled
<1>4. CASE \E i \in 1..Len(transfers) :
             /\ transfers[i].kind = kind /\ transfers[i].key = Key(u)
             /\ \A j \in 1..Len(transfers) : j > i => transfers[j].key # Key(u)
  <2>1. PICK i \in 1..Len(transfers) :
               /\ transfers[i].kind = kind /\ transfers[i].key = Key(u)
               /\ \A j \in 1..Len(transfers) : j > i => transfers[j].key # Key(u)
    BY <1>4
  <2>2. CASE i = 1
    <3>1. \A j \in 1..Len(transfers') : transfers'[j].key # Key(u)
      BY <1>1, <2>1, <2>2
    <3>2. Key(u) \in DOMAIN rows' /\ rows'[Key(u)] = Outcome[kind]
      BY <1>2, <2>1, <2>2 DEF RowAfter
    <3> QED
      BY <3>1, <3>2 DEF Settled
  <2>3. CASE i # 1
    <3>1. i - 1 \in 1..Len(transfers') /\ transfers'[i - 1] = transfers[i]
      BY <1>1, <2>3
    <3>2. \A j \in 1..Len(transfers') : j > i - 1 => transfers'[j].key # Key(u)
      BY <1>1, <2>1
    <3> QED
      BY <2>1, <3>1, <3>2 DEF Settled
  <2> QED
    BY <2>2, <2>3
<1> QED
  BY <1>3, <1>4 DEF Settled

\* RowsInv is inductive.
LEMMA RowsStep ==
  ASSUME ~TokenReuse, Nil \notin Files
  PROVE  TypeOK /\ RowsInv /\ [Next]_vars => RowsInv'
<1> SUFFICES ASSUME TypeOK, RowsInv, [Next]_vars PROVE RowsInv' OBVIOUS
<1> USE UploadsAssumption
<1>1. \A u \in Uploads : req'[u] = req[u] => Key(u)' = Key(u)
  BY DEF Key
<1>2. ASSUME UNCHANGED <<pc, req, crashes>>,
             \A u \in Uploads : \A kind \in {"FileDone", "Error"} :
               pc[u] # "idle" /\ Settled(u, kind) => Settled(u, kind)'
      PROVE  RowsInv'
  BY <1>1, <1>2 DEF RowsInv
<1>3. ASSUME UNCHANGED <<pc, req, crashes, transfers, rows>> PROVE RowsInv'
  BY <1>1, <1>2, <1>3 DEF Settled
<1>4. ASSUME NEW u \in Uploads, NEW s \in Sessions, NEW f \in Files, NEW tok \in BOOLEAN, Arrive(u, s, f, tok)
      PROVE  RowsInv'
  <2>1. /\ pc[u] = "idle" /\ pc' = [pc EXCEPT ![u] = "lookup"]
        /\ \A v \in Uploads : req[v].tok /\ tok => <<req[v].s, req[v].f>> # <<s, f>>
        /\ req' = [req EXCEPT ![u] = [s |-> s, f |-> f, tok |-> tok]]
        /\ UNCHANGED <<crashes, transfers, rows>>
    BY <1>4 DEF Arrive, Goto, uiVars
  <2>2. pc'[u] = "lookup" /\ req'[u].tok = tok /\ Key(u)' = [s |-> s, f |-> f]
        /\ \A v \in Uploads \ {u} : pc'[v] = pc[v] /\ req'[v] = req[v] /\ Key(v)' = Key(v)
    BY <2>1 DEF TypeOK, Key
  <2>3. \A v \in Uploads \ {u} : req[v].tok /\ tok => Key(v) # [s |-> s, f |-> f]
    BY <2>1 DEF Key
  <2>4. \A v, w \in Uploads : v # w /\ req'[v].tok /\ req'[w].tok => Key(v)' # Key(w)'
    BY <2>2, <2>3 DEF RowsInv
  <2>5. ASSUME NEW v \in Uploads \ {u}, NEW kind, Settled(v, kind) PROVE Settled(v, kind)'
    <3>1. Key(v)' = Key(v)
      BY <2>2
    <3> QED
      BY <2>1, <2>5, <3>1 DEF Settled
  <2> QED
    BY <2>1, <2>2, <2>4, <2>5 DEF RowsInv
<1>5. ASSUME NEW u \in Uploads, ServeUpload(u) \/ CreateFails(u) \/ Body(u) PROVE RowsInv'
  <2>1. /\ req' = req /\ crashes' = crashes
        /\ \A v \in Uploads \ {u} : pc'[v] = pc[v]
    BY <1>5 DEF ServeUpload, Body, Lookup, StatTaken, StatFails, StatFree, Create, EmitStart, CheckContext, RemoveTmp,
                Rename, RenameFails, EmitError, EmitDone, Complete, CreateFails, ReadChunk, ReadEOF,
                CopyFails, Goto, TypeOK
  <2>2. \A v \in Uploads : Key(v)' = Key(v)
    BY <1>1, <2>1
  <2>3. pc'[u] \notin {"idle", "lookup", "forbidden", "dead"} => req[u].tok
    BY <1>5 DEF ServeUpload, Body, Lookup, StatTaken, StatFails, StatFree, Create, EmitStart, CheckContext, RemoveTmp,
                Rename, RenameFails, EmitError, EmitDone, Complete, CreateFails, ReadChunk, ReadEOF,
                CopyFails, Goto, TypeOK, RowsInv
  <2>4. ASSUME \A v \in Uploads \ {u} : \A kind \in {"FileDone", "Error"} :
                 req[v].tok /\ Settled(v, kind) => Settled(v, kind)',
               pc'[u] \in {"complete", "ok"} => (crashes = 0 => Settled(u, "FileDone")'),
               pc'[u] = "failed" => (crashes = 0 => Settled(u, "Error")')
        PROVE  RowsInv'
    BY <2>1, <2>2, <2>3, <2>4 DEF RowsInv
  <2>5. ASSUME NEW kind \in {"Start", "Error", "FileDone"}, Emit(kind, Key(u)), pc[u] \in {"start", "fail", "landed"},
               pc'[u] \in {"complete", "ok"} => kind = "FileDone", pc'[u] = "failed" => kind = "Error"
        PROVE  RowsInv'
    <3> DEFINE ev == [kind |-> kind, key |-> Key(u)]
    <3>1. transfers' = Append(transfers, ev) /\ rows' = rows /\ ev.key = Key(u)
      BY <2>5 DEF Emit
    <3>2. req[u].tok
      BY <2>5 DEF RowsInv
    <3>3. Settled(u, kind)'
      BY <2>2, <3>1, SettledNow
    <3> HIDE DEF ev
    <3>4. ASSUME NEW v \in Uploads \ {u}, NEW k \in {"FileDone", "Error"}, req[v].tok, Settled(v, k)
          PROVE  Settled(v, k)'
      <4>1. ev.key # Key(v)
        BY <3>1, <3>2, <3>4 DEF RowsInv
      <4> QED
        BY <2>2, <3>1, <3>4, <4>1, SettledBehind
    <3> QED
      BY <2>4, <2>5, <3>3, <3>4
  <2>6. CASE EmitStart(u)
    BY <2>5, <2>6 DEF EmitStart, Goto, TypeOK
  <2>7. CASE EmitError(u)
    BY <2>5, <2>7 DEF EmitError, Goto, TypeOK
  <2>8. CASE EmitDone(u)
    BY <2>5, <2>8 DEF EmitDone, Goto, TypeOK
  <2>9. CASE ~(EmitStart(u) \/ EmitError(u) \/ EmitDone(u))
    <3>1. UNCHANGED <<transfers, rows>>
      BY <1>5, <2>9 DEF ServeUpload, Body, Lookup, StatTaken, StatFails, StatFree, Create, CheckContext, RemoveTmp,
                Rename, RenameFails, Complete, CreateFails, ReadChunk, ReadEOF, CopyFails, uiVars
    <3>2. \A v \in Uploads : \A kind : Settled(v, kind) => Settled(v, kind)'
      BY <2>2, <3>1 DEF Settled
    <3>3. (pc'[u] \in {"complete", "ok"} => pc[u] = "complete") /\ pc'[u] # "failed"
      BY <1>5, <2>9 DEF ServeUpload, Body, Lookup, StatTaken, StatFails, StatFree, Create, CheckContext, RemoveTmp,
                Rename, RenameFails, Complete, CreateFails, ReadChunk, ReadEOF, CopyFails, Goto, TypeOK
    <3> QED
      BY <2>4, <3>2, <3>3 DEF RowsInv
  <2> QED
    BY <2>6, <2>7, <2>8, <2>9
<1>6. ASSUME NEW c \in Cancels, EmitCancel(c) PROVE RowsInv'
  <2> DEFINE ev == [kind |-> "Cancel", key |-> [s |-> csid[c], f |-> Nil]]
  <2>1. transfers' = Append(transfers, ev) /\ rows' = rows /\ UNCHANGED <<pc, req, crashes>>
    BY <1>6 DEF EmitCancel, Emit, upVars
  <2>2. \A u \in Uploads : pc[u] # "idle" => ev.key # Key(u)
    BY DEF Key, TypeOK
  <2> HIDE DEF ev
  <2> QED
    BY <1>1, <1>2, <2>1, <2>2, SettledBehind
<1>7. CASE Show
  <2>1. /\ transfers # <<>> /\ rows' = Filed(rows, Head(transfers)) /\ transfers' = Tail(transfers)
        /\ UNCHANGED <<pc, req, crashes>>
    BY <1>7 DEF Show, upVars
  <2>2. {"FileDone", "Error"} \subseteq DOMAIN Outcome
    BY DEF Outcome
  <2> QED
    BY <1>1, <1>2, <2>1, <2>2, SettledShown
<1>8. CASE Crash
  <2>1. crashes' # 0 /\ req' = req /\ \A u \in Uploads : Key(u)' = Key(u)
    BY <1>1, <1>8 DEF Crash, TypeOK
  <2>2. \A u \in Uploads : pc'[u] = IF pc[u] \in Open \cup {"spin"} THEN "dead" ELSE pc[u]
    BY <1>8 DEF Crash
  <2> QED
    BY <2>1, <2>2 DEF RowsInv
<1>9. CASE \/ UNCHANGED vars \/ Quiescent
           \/ \E s \in Sessions : CreateSession(s)
           \/ \E c \in Cancels : CancelContext(c)
           \/ \E c \in Cancels, s \in Sessions : CancelDelete(c, s)
  BY <1>3, <1>9 DEF vars, upVars, uiVars, Quiescent, CreateSession, CancelContext, CancelDelete
<1> QED
  BY <1>4, <1>5, <1>6, <1>7, <1>8, <1>9 DEF Next, ServeCancel

\* When everything was served the row of a file says what became of its upload,
\* whatever other handlers put into the channel between its events.
THEOREM RowsTellTheTruth ==
  ASSUME ~TokenReuse, Nil \notin Files
  PROVE  Spec => []RowsTellOutcome
<1>1. Init => RowsInv
  BY DEF Init, RowsInv
<1>2. TypeOK /\ RowsInv /\ [Next]_vars => RowsInv'
  BY RowsStep
<1>3. RowsInv => RowsTellOutcome
  <2> SUFFICES ASSUME RowsInv, transfers = <<>>, crashes = 0, NEW u \in Uploads
               PROVE  /\ pc[u] = "ok" => Row(Key(u)) = "done"
                      /\ pc[u] = "failed" => Row(Key(u)) = "error"
    BY DEF RowsTellOutcome, Quiet
  <2>1. 1..Len(transfers) = {}
    OBVIOUS
  <2>2. /\ pc[u] = "ok" => Settled(u, "FileDone")
        /\ pc[u] = "failed" => Settled(u, "Error")
    BY DEF RowsInv
  <2> QED
    BY <2>1, <2>2 DEF Settled, Row, Outcome
<1> QED
  BY <1>1, <1>2, <1>3, TypeCorrect, PTL DEF Spec
=============================================================================
