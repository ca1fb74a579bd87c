-------------------------- MODULE DiscoveryProofs ---------------------------
(***************************************************************************)
(* Theorems about Discovery for any peers, names, addresses, goroutines and *)
(* capacity of the event channel.                                           *)
(*                                                                         *)
(* The newest event of a peer says what the table says of it.  The proof    *)
(* follows that event: in the hands of the goroutine that made it, then as  *)
(* the last of its peer in the channel, then in the device list; fate       *)
(* remembers when it was lost or overtaken on the way.                      *)
(***************************************************************************)
EXTENDS Discovery, SequenceTheorems, TLAPS

USE DiscoveryAssumption

-----------------------------------------------------------------------------
(* The inductive invariant *)

\* What an event says of its peer, in the form of Entry.
Says(e) == IF e.kind = "found" THEN {e.info} ELSE {}

Shape ==
  /\ held \in [Goroutines -> SUBSET Events]
  /\ fate \in [Peers -> Goroutines \cup {"sent", "lost"}]

\* The goroutine that has yet to send the newest event of a peer holds one that
\* says what the table says.
HeldIsNew ==
  \A p \in Peers : fate[p] \in Goroutines =>
    \A e \in held[fate[p]] : e.peer = p => Says(e) = Entry(table, p)

LastOf(n, p) == events[n].peer = p /\ \A m \in 1..Len(events) : events[m].peer = p => m <= n

\* Once it is sent the last event of that peer in the channel does, and after
\* that the device list.
ListFollows ==
  finder = "none" =>
    \A p \in Peers : fate[p] = "sent" =>
      /\ \A n \in 1..Len(events) : LastOf(n, p) => Says(events[n]) = Entry(table, p)
      /\ ~Queued(p) => Entry(shown, p) = Entry(table, p)

\* What FindPeer waits for is in the channel, unless it is yet to be sent or was
\* lost.
FinderFollows ==
  finder = "wait" =>
    \A p \in Peers : \A i \in Entry(table, p) :
      Named(i) /\ fate[p] = "sent" =>
        \E n \in 1..Len(events) : events[n].peer = p /\ Says(events[n]) = {i}

Inv == DiscoveryTypeOK /\ Shape /\ HeldIsNew /\ ListFollows /\ FinderFollows

-----------------------------------------------------------------------------
(* The table *)

\* What is kept of a sight is an address and an alias.
LEMMA KeptInfo ==
  ASSUME DiscoveryTypeOK, NEW p \in Peers, NEW i \in Infos
  PROVE  Kept(p, i) \in Infos
<1>1. CASE p \in DOMAIN table /\ i.ip = Loopback
  <2>1. table[p] \in Infos
    BY <1>1 DEF DiscoveryTypeOK
  <2> QED
    BY <1>1, <2>1 DEF Kept, Infos
<1>2. CASE ~(p \in DOMAIN table /\ i.ip = Loopback)
  BY <1>2 DEF Kept
<1> QED
  BY <1>1, <1>2

\* No goroutine has the name of a fate.
LEMMA GoroutineNames == "sent" \notin Goroutines /\ "lost" \notin Goroutines /\ "reap" \notin Noters
  BY DEF Goroutines, Noters

\* A step of the table leaves the readers in accord with the peers whose newest
\* event has gone out, if it leaves those peers alone.
LEMMA ChannelSame ==
  ASSUME Inv, UNCHANGED <<events, shown, finder>>,
         \A q \in Peers : fate'[q] = "sent" => fate[q] = "sent" /\ Entry(table', q) = Entry(table, q)
  PROVE  ListFollows' /\ FinderFollows'
<1>1. \A q \in Peers, n \in 1..Len(events) : LastOf(n, q)' <=> LastOf(n, q)
  BY DEF LastOf
<1>2. \A q \in Peers : Queued(q)' <=> Queued(q)
  BY DEF Queued
<1>3. ListFollows'
  BY <1>1, <1>2 DEF Inv, ListFollows
<1>4. FinderFollows'
  <2> SUFFICES ASSUME finder = "wait", NEW q \in Peers, NEW i \in Entry(table', q), Named(i), fate'[q] = "sent"
               PROVE  \E n \in 1..Len(events) : events[n].peer = q /\ Says(events[n]) = {i}
    BY DEF FinderFollows
  <2>1. fate[q] = "sent" /\ i \in Entry(table, q)
    OBVIOUS
  <2> QED
    BY <2>1 DEF Inv, FinderFollows
<1> QED
  BY <1>3, <1>4

-----------------------------------------------------------------------------
(* NotePeer *)

\* A sight that says nothing new leaves the table as it is.
LEMMA SeenAgain ==
  ASSUME Inv, NEW p \in Peers, NEW i \in Infos, NEW g \in Noters, Note(g, p, i), ~Changed(p, Kept(p, i))
  PROVE  Inv'
<1>1. p \in DOMAIN table /\ table[p] = Kept(p, i)
  BY DEF Changed, Entry
<1>2. /\ table' = With(table, p, Kept(p, i)) /\ old' = old \ {p}
      /\ UNCHANGED <<changes, held, fate, around, events, shown, finder>>
  BY DEF Note
<1>3. DOMAIN table' = DOMAIN table /\ \A q \in DOMAIN table : table'[q] = table[q]
  BY <1>1, <1>2 DEF With
<1>4. \A q : Entry(table', q) = Entry(table, q)
  BY <1>3 DEF Entry
<1>5. DiscoveryTypeOK'
  BY <1>2, <1>3 DEF Inv, DiscoveryTypeOK
<1>6. Shape' /\ HeldIsNew'
  BY <1>2, <1>4 DEF Inv, Shape, HeldIsNew
<1>7. ListFollows' /\ FinderFollows'
  BY <1>2, <1>4, ChannelSame
<1> QED
  BY <1>5, <1>6, <1>7 DEF Inv

\* A change is in the table, and its event with the goroutine that saw it.
LEMMA SeenChanged ==
  ASSUME Inv, NEW p \in Peers, NEW i \in Infos, NEW g \in Noters, Note(g, p, i), Changed(p, Kept(p, i))
  PROVE  Inv'
<1> DEFINE e == [kind |-> "found", peer |-> p, info |-> Kept(p, i)]
<1>1. /\ table' = With(table, p, Kept(p, i)) /\ old' = old \ {p}
      /\ held[g] = {} /\ held' = [held EXCEPT ![g] = {e}] /\ fate' = [fate EXCEPT ![p] = g]
      /\ changes < MaxChanges /\ changes' = changes + 1
      /\ UNCHANGED <<around, events, shown, finder>>
  BY DEF Note
<1>2. Kept(p, i) \in Infos
  BY KeptInfo DEF Inv
<1>3. e \in Events /\ e.peer = p /\ Says(e) = {Kept(p, i)}
  BY <1>2 DEF Events, Says
<1> HIDE DEF e
<1>4. g \in Goroutines
  BY DEF Goroutines
<1>5. /\ DOMAIN table' = DOMAIN table \cup {p} /\ \A q \in DOMAIN table' : table'[q] \in Infos
      /\ Entry(table', p) = {Kept(p, i)}
      /\ \A q : q # p => Entry(table', q) = Entry(table, q)
  <2> DEFINE new == Kept(p, i)
  <2>1. table' = With(table, p, new) /\ new \in Infos
    BY <1>1, <1>2
  <2> HIDE DEF new
  <2>2. DOMAIN table' = DOMAIN table \cup {p} /\ table'[p] = new
        /\ \A q \in DOMAIN table : q # p => table'[q] = table[q]
    BY <2>1 DEF With
  <2>3. \A q \in DOMAIN table' : table'[q] \in Infos
    BY <2>1, <2>2 DEF Inv, DiscoveryTypeOK
  <2>4. Entry(table', p) = {new} /\ \A q : q # p => Entry(table', q) = Entry(table, q)
    BY <2>2 DEF Entry
  <2> QED
    BY <2>2, <2>3, <2>4 DEF new
<1>6. /\ held' \in [Goroutines -> SUBSET Events] /\ held'[g] = {e}
      /\ \A h \in Goroutines \ {g} : held'[h] = held[h]
  BY <1>1, <1>3, <1>4 DEF Inv, Shape
<1>7. /\ fate' \in [Peers -> Goroutines \cup {"sent", "lost"}] /\ fate'[p] = g
      /\ \A q \in Peers \ {p} : fate'[q] = fate[q]
  BY <1>1, <1>4 DEF Inv, Shape
<1>8. \A q \in Peers \ {p} : fate'[q] # g
  BY <1>1, <1>7, GoroutineNames, <1>4 DEF Inv, DiscoveryTypeOK
<1>9. DiscoveryTypeOK'
  <2>1. \A q \in Peers : \/ fate'[q] \in {"sent", "lost"}
                         \/ \E d \in held'[fate'[q]] : d.peer = q
    BY <1>3, <1>6, <1>7, <1>8 DEF Inv, DiscoveryTypeOK, Shape
  <2>2. \A h \in Goroutines :
          /\ held'[h] \subseteq Events
          /\ \A d, d2 \in held'[h] : d # d2 => h = "reap" /\ d.peer # d2.peer
    BY <1>6 DEF Inv, DiscoveryTypeOK
  <2>3. changes' \in 0..MaxChanges
    BY <1>1 DEF Inv, DiscoveryTypeOK
  <2> QED
    BY <1>1, <1>5, <2>1, <2>2, <2>3 DEF Inv, DiscoveryTypeOK
<1>10. HeldIsNew'
  <2> SUFFICES ASSUME NEW q \in Peers, fate'[q] \in Goroutines, NEW d \in held'[fate'[q]], d.peer = q
               PROVE  Says(d) = Entry(table', q)
    BY DEF HeldIsNew
  <2>1. CASE q = p
    BY <1>3, <1>5, <1>6, <1>7, <2>1
  <2>2. CASE q # p
    <3>1. fate[q] \in Goroutines /\ d \in held[fate[q]]
      BY <1>6, <1>7, <1>8, <2>2
    <3> QED
      BY <1>5, <2>2, <3>1 DEF Inv, HeldIsNew
  <2> QED
    BY <2>1, <2>2
<1>11. ListFollows' /\ FinderFollows'
  <2>1. \A q \in Peers : fate'[q] = "sent" => fate[q] = "sent" /\ Entry(table', q) = Entry(table, q)
    BY <1>4, <1>5, <1>7, GoroutineNames
  <2> QED
    BY <1>1, <2>1, ChannelSame
<1> QED
  BY <1>6, <1>7, <1>9, <1>10, <1>11 DEF Inv, Shape

-----------------------------------------------------------------------------
(* reapOnce *)

\* All that is evicted is told as lost, by the reaper.
LEMMA ReapKeepsInv == ASSUME Inv, Reap PROVE Inv'
<1> DEFINE lost(p) == [kind |-> "lost", peer |-> p, info |-> table[p]]
<1>1. /\ table' = Without(table, old) /\ old' = {}
      /\ held["reap"] = {} /\ held' = [held EXCEPT !["reap"] = {lost(p) : p \in old}]
      /\ fate' = [p \in Peers |-> IF p \in old THEN "reap" ELSE fate[p]]
      /\ UNCHANGED <<around, events, shown, finder, changes>>
  BY DEF Reap
<1>2. old \subseteq Peers /\ \A p \in old : table[p] \in Infos
  BY DEF Inv, DiscoveryTypeOK
<1>3. \A p \in old : lost(p) \in Events /\ lost(p).peer = p /\ Says(lost(p)) = {}
  BY <1>2 DEF Events, Says
<1> HIDE DEF lost
<1>4. "reap" \in Goroutines
  BY DEF Goroutines
<1>5. /\ DOMAIN table' = DOMAIN table \ old /\ \A q \in DOMAIN table' : table'[q] = table[q]
      /\ \A q \in old : Entry(table', q) = {}
      /\ \A q : q \notin old => Entry(table', q) = Entry(table, q)
  <2>1. DOMAIN table' = DOMAIN table \ old /\ \A q \in DOMAIN table' : table'[q] = table[q]
    BY <1>1 DEF Without, Restrict
  <2> QED
    BY <2>1 DEF Entry
<1>6. /\ held' \in [Goroutines -> SUBSET Events] /\ held'["reap"] = {lost(p) : p \in old}
      /\ \A h \in Goroutines \ {"reap"} : held'[h] = held[h]
  BY <1>1, <1>3, <1>4 DEF Inv, Shape
<1>7. /\ fate' \in [Peers -> Goroutines \cup {"sent", "lost"}]
      /\ \A q \in Peers : fate'[q] = IF q \in old THEN "reap" ELSE fate[q]
  BY <1>1, <1>4 DEF Inv, Shape
<1>8. \A q \in Peers \ old : fate'[q] # "reap"
  BY <1>1, <1>7 DEF Inv, DiscoveryTypeOK
<1>9. DiscoveryTypeOK'
  <2>1. ASSUME NEW q \in Peers PROVE \/ fate'[q] \in {"sent", "lost"}
                                     \/ \E d \in held'[fate'[q]] : d.peer = q
    <3>1. CASE q \in old
      BY <1>3, <1>6, <1>7, <3>1
    <3>2. CASE q \notin old
      BY <1>6, <1>7, <1>8, <3>2 DEF Inv, DiscoveryTypeOK, Shape
    <3> QED
      BY <3>1, <3>2
  <2>2. \A h \in Goroutines :
          /\ held'[h] \subseteq Events
          /\ \A d, d2 \in held'[h] : d # d2 => h = "reap" /\ d.peer # d2.peer
    BY <1>3, <1>6 DEF Inv, DiscoveryTypeOK
  <2> QED
    BY <1>1, <1>5, <2>1, <2>2 DEF Inv, DiscoveryTypeOK
<1>10. HeldIsNew'
  <2> SUFFICES ASSUME NEW q \in Peers, fate'[q] \in Goroutines, NEW d \in held'[fate'[q]], d.peer = q
               PROVE  Says(d) = Entry(table', q)
    BY DEF HeldIsNew
  <2>1. CASE q \in old
    <3>1. d \in {lost(r) : r \in old}
      BY <1>6, <1>7, <2>1
    <3>2. d = lost(q)
      BY <1>3, <3>1
    <3> QED
      BY <1>3, <1>5, <2>1, <3>2
  <2>2. CASE q \notin old
    <3>1. fate[q] \in Goroutines /\ d \in held[fate[q]]
      BY <1>6, <1>7, <1>8, <2>2
    <3> QED
      BY <1>5, <2>2, <3>1 DEF Inv, HeldIsNew
  <2> QED
    BY <2>1, <2>2
<1>11. ListFollows' /\ FinderFollows'
  <2>1. \A q \in Peers : fate'[q] = "sent" => fate[q] = "sent" /\ Entry(table', q) = Entry(table, q)
    BY <1>5, <1>7
  <2> QED
    BY <1>1, <2>1, ChannelSame
<1> QED
  BY <1>6, <1>7, <1>9, <1>10, <1>11 DEF Inv, Shape

-----------------------------------------------------------------------------
(* emit *)

\* An event that finds room is the last in the channel.
LEMMA AppendedIsLast ==
  ASSUME events \in Seq(Events), NEW e \in Events, events' = Append(events, e)
  PROVE  /\ Len(events) \in Nat /\ Len(events') = Len(events) + 1 /\ events' \in Seq(Events)
         /\ \A n \in 1..Len(events) : events'[n] = events[n]
         /\ events'[Len(events) + 1] = e
         /\ Queued(e.peer)' /\ \A n \in 1..Len(events') : LastOf(n, e.peer)' => events'[n] = e
         /\ \A q \in Peers \ {e.peer} :
              /\ \A n \in 1..Len(events') :
                   LastOf(n, q)' => n \in 1..Len(events) /\ LastOf(n, q) /\ events'[n] = events[n]
              /\ Queued(q)' <=> Queued(q)
<1>1. /\ Len(events) \in Nat /\ Len(events') = Len(events) + 1 /\ events' \in Seq(Events)
      /\ \A n \in 1..Len(events) : events'[n] = events[n]
      /\ events'[Len(events) + 1] = e
  OBVIOUS
<1>2. Queued(e.peer)'
  BY <1>1 DEF Queued
<1>3. ASSUME NEW n \in 1..Len(events'), LastOf(n, e.peer)' PROVE events'[n] = e
  <2>1. Len(events) + 1 <= n
    BY <1>1, <1>3 DEF LastOf
  <2>2. n = Len(events) + 1
    BY <1>1, <2>1
  <2> QED
    BY <1>1, <2>2
<1>4. ASSUME NEW q \in Peers \ {e.peer}, NEW n \in 1..Len(events'), LastOf(n, q)'
      PROVE  n \in 1..Len(events) /\ LastOf(n, q) /\ events'[n] = events[n]
  <2>1. n \in 1..Len(events)
    BY <1>1, <1>4 DEF LastOf
  <2> QED
    BY <1>1, <1>4, <2>1 DEF LastOf
<1>5. ASSUME NEW q \in Peers \ {e.peer} PROVE Queued(q)' <=> Queued(q)
  <2>1. ASSUME NEW n \in 1..Len(events'), events'[n].peer = q
        PROVE  n \in 1..Len(events) /\ events[n].peer = q
    BY <1>1, <2>1
  <2> QED
    BY <1>1, <2>1 DEF Queued
<1> QED
  BY <1>1, <1>2, <1>3, <1>4, <1>5

\* The fate of the event that goes out, and of the newest of its peer, which it
\* may be or overtake.
LEMMA EmitFate ==
  ASSUME Inv, NEW g \in Goroutines, NEW e \in held[g], Emit(g, e)
  PROVE  /\ e \in Events /\ e.peer \in Peers
         /\ fate' \in [Peers -> Goroutines \cup {"sent", "lost"}]
         /\ \A q \in Peers \ {e.peer} : fate'[q] = fate[q]
         /\ fate'[e.peer] = "sent" =>
              \/ Len(events) < Cap /\ Says(e) = Entry(table, e.peer)
              \/ ~(Len(events) < Cap) /\ fate[e.peer] = "sent"
         /\ fate'[e.peer] \in Goroutines => fate'[e.peer] = fate[e.peer] /\ fate[e.peer] # g
<1> DEFINE room == Len(events) < Cap
           now == IF fate[e.peer] = g THEN IF room THEN "sent" ELSE "lost"
                  ELSE IF room /\ fate[e.peer] = "sent" THEN "lost"
                  ELSE fate[e.peer]
<1>1. fate' = [fate EXCEPT ![e.peer] = now]
  BY DEF Emit
<1>2. e \in Events /\ e.peer \in Peers
  BY DEF Inv, DiscoveryTypeOK, Events
<1>3. fate \in [Peers -> Goroutines \cup {"sent", "lost"}]
  BY DEF Inv, Shape
<1>4. now \in Goroutines \cup {"sent", "lost"}
  BY <1>2, <1>3
<1> HIDE DEF now
<1>5. /\ fate' \in [Peers -> Goroutines \cup {"sent", "lost"}] /\ fate'[e.peer] = now
      /\ \A q \in Peers \ {e.peer} : fate'[q] = fate[q]
  BY <1>1, <1>2, <1>3, <1>4
<1>6. CASE fate[e.peer] = g
  <2>1. Says(e) = Entry(table, e.peer)
    BY <1>2, <1>6 DEF Inv, HeldIsNew
  <2>2. now = IF room THEN "sent" ELSE "lost"
    BY <1>6 DEF now
  <2> QED
    BY <1>2, <1>5, <2>1, <2>2, GoroutineNames
<1>7. CASE fate[e.peer] # g
  <2>1. now = IF room /\ fate[e.peer] = "sent" THEN "lost" ELSE fate[e.peer]
    BY <1>7 DEF now
  <2> QED
    BY <1>2, <1>5, <1>7, <2>1, GoroutineNames
<1> QED
  BY <1>6, <1>7

\* An event goes out, or is lost.
LEMMA EmitKeepsInv == ASSUME Inv, NEW g \in Goroutines, NEW e \in held[g], Emit(g, e) PROVE Inv'
<1> DEFINE p == e.peer
<1>1. /\ held' = [held EXCEPT ![g] = @ \ {e}]
      /\ events' = (IF Len(events) < Cap THEN Append(events, e) ELSE events)
      /\ UNCHANGED <<table, old, around, shown, finder, changes>>
  BY DEF Emit
<1>2. /\ e \in Events /\ p \in Peers
      /\ fate' \in [Peers -> Goroutines \cup {"sent", "lost"}]
      /\ \A q \in Peers \ {p} : fate'[q] = fate[q]
      /\ fate'[p] = "sent" =>
           \/ Len(events) < Cap /\ Says(e) = Entry(table, p)
           \/ ~(Len(events) < Cap) /\ fate[p] = "sent"
      /\ fate'[p] \in Goroutines => fate'[p] = fate[p] /\ fate[p] # g
  BY EmitFate
<1>3. events \in Seq(Events) /\ Len(events) <= Cap /\ Len(events) \in Nat
  BY DEF Inv, DiscoveryTypeOK
<1> HIDE DEF p
<1>4. /\ held' \in [Goroutines -> SUBSET Events] /\ held'[g] = held[g] \ {e}
      /\ \A h \in Goroutines \ {g} : held'[h] = held[h]
  BY <1>1 DEF Inv, Shape
<1>5. DiscoveryTypeOK'
  <2>1. events' \in Seq(Events) /\ Len(events') <= Cap
    <3>1. CASE Len(events) < Cap
      BY <1>1, <1>2, <1>3, <3>1, AppendedIsLast
    <3>2. CASE ~(Len(events) < Cap)
      BY <1>1, <1>3, <3>2
    <3> QED
      BY <3>1, <3>2
  <2>2. ASSUME NEW q \in Peers, fate'[q] \in Goroutines PROVE \E d \in held'[fate'[q]] : d.peer = q
    <3>1. fate'[q] = fate[q] /\ (q = p => fate[q] # g)
      BY <1>2, <2>2
    <3>2. PICK d \in held[fate[q]] : d.peer = q
      BY <2>2, <3>1, GoroutineNames DEF Inv, DiscoveryTypeOK
    <3>3. d \in held'[fate[q]]
      BY <1>4, <2>2, <3>1, <3>2 DEF p
    <3> QED
      BY <3>1, <3>2, <3>3
  <2>3. \A h \in Goroutines :
          /\ held'[h] \subseteq Events
          /\ \A d, d2 \in held'[h] : d # d2 => h = "reap" /\ d.peer # d2.peer
    BY <1>4 DEF Inv, DiscoveryTypeOK
  <2>4. \A q \in Peers : fate'[q] \in {"sent", "lost"} \/ \E d \in held'[fate'[q]] : d.peer = q
    BY <1>2, <2>2
  <2> QED
    BY <1>1, <2>1, <2>3, <2>4 DEF Inv, DiscoveryTypeOK
<1>6. HeldIsNew'
  <2> SUFFICES ASSUME NEW q \in Peers, fate'[q] \in Goroutines, NEW d \in held'[fate'[q]], d.peer = q
               PROVE  Says(d) = Entry(table, q)
    BY <1>1 DEF HeldIsNew
  <2>1. fate'[q] = fate[q] /\ d \in held[fate[q]]
    BY <1>2, <1>4
  <2> QED
    BY <2>1 DEF Inv, HeldIsNew
<1>7. CASE ~(Len(events) < Cap)
  <2>1. events' = events /\ \A q \in Peers : fate'[q] = "sent" => fate[q] = "sent"
    BY <1>1, <1>2, <1>7
  <2>2. ListFollows' /\ FinderFollows'
    BY <1>1, <2>1, ChannelSame
  <2> QED
    BY <1>2, <1>4, <1>5, <1>6, <2>2 DEF Inv, Shape
<1>8. CASE Len(events) < Cap
  <2>1. events' = Append(events, e)
    BY <1>1, <1>8
  <2>2. ListFollows'
    <3> SUFFICES ASSUME finder = "none", NEW q \in Peers, fate'[q] = "sent"
                 PROVE  /\ \A n \in 1..Len(events') : LastOf(n, q)' => Says(events'[n]) = Entry(table, q)
                        /\ ~Queued(q)' => Entry(shown, q) = Entry(table, q)
      BY <1>1 DEF ListFollows
    <3>1. CASE q = p
      BY <1>2, <1>3, <1>8, <2>1, <3>1, AppendedIsLast DEF p
    <3>2. CASE q # p
      <4>1. fate[q] = "sent"
        BY <1>2, <3>2
      <4> QED
        BY <1>2, <1>3, <2>1, <3>2, <4>1, AppendedIsLast DEF p, Inv, ListFollows
    <3> QED
      BY <3>1, <3>2
  <2>3. FinderFollows'
    <3> SUFFICES ASSUME finder = "wait", NEW q \in Peers, NEW i \in Entry(table, q), Named(i), fate'[q] = "sent"
                 PROVE  \E n \in 1..Len(events') : events'[n].peer = q /\ Says(events'[n]) = {i}
      BY <1>1 DEF FinderFollows
    <3>1. CASE q = p
      <4>1. Says(e) = {i}
        BY <1>2, <1>8, <3>1 DEF Entry
      <4> QED
        BY <1>2, <1>3, <2>1, <3>1, <4>1, AppendedIsLast DEF p
    <3>2. CASE q # p
      <4>1. fate[q] = "sent"
        BY <1>2, <3>2
      <4>2. PICK n \in 1..Len(events) : events[n].peer = q /\ Says(events[n]) = {i}
        BY <4>1 DEF Inv, FinderFollows
      <4> QED
        BY <1>2, <1>3, <2>1, <4>2, AppendedIsLast
    <3> QED
      BY <3>1, <3>2
  <2> QED
    BY <1>2, <1>4, <1>5, <1>6, <2>2, <2>3 DEF Inv, Shape
<1> QED
  BY <1>7, <1>8

-----------------------------------------------------------------------------
(* The readers of the channel *)

\* The oldest event is taken: the last of a peer stays the last, if there is
\* another of that peer.
LEMMA TakenFromFront ==
  ASSUME events \in Seq(Events), events # <<>>, events' = Tail(events)
  PROVE  /\ Head(events) = events[1] /\ events[1] \in Events
         /\ events' \in Seq(Events) /\ Len(events) \in Nat \ {0} /\ Len(events') = Len(events) - 1
         /\ \A n \in 1..Len(events') : events'[n] = events[n + 1]
         /\ \A q \in Peers : \A n \in 1..Len(events') : LastOf(n, q)' => LastOf(n + 1, q)
         /\ \A q \in Peers : Queued(q) /\ ~Queued(q)' => LastOf(1, q)
         /\ \A q \in Peers : ~Queued(q) => ~Queued(q)' /\ events[1].peer # q
<1>1. /\ Head(events) = events[1] /\ events' \in Seq(Events)
      /\ Len(events) \in Nat \ {0} /\ Len(events') = Len(events) - 1
      /\ \A n \in 1..Len(events') : events'[n] = events[n + 1]
  OBVIOUS
<1>2. events[1] \in Events
  BY <1>1, ElementOfSeq
<1>3. ASSUME NEW q \in Peers, NEW n \in 1..Len(events'), LastOf(n, q)' PROVE LastOf(n + 1, q)
  <2> SUFFICES ASSUME NEW m \in 1..Len(events), events[m].peer = q PROVE m <= n + 1
    BY <1>1, <1>3 DEF LastOf
  <2>1. CASE m = 1
    BY <1>1, <2>1
  <2>2. CASE m # 1
    <3>1. m - 1 \in 1..Len(events') /\ events'[m - 1].peer = q
      BY <1>1, <2>2
    <3>2. m - 1 <= n
      BY <1>3, <3>1 DEF LastOf
    <3> QED
      BY <1>1, <3>2
  <2> QED
    BY <2>1, <2>2
<1>4. ASSUME NEW q \in Peers, NEW m \in 1..Len(events), events[m].peer = q, ~Queued(q)' PROVE m = 1
  <2> SUFFICES ASSUME m # 1 PROVE FALSE
    OBVIOUS
  <2>1. m - 1 \in 1..Len(events') /\ events'[m - 1].peer = q
    BY <1>1, <1>4
  <2> QED
    BY <1>4, <2>1 DEF Queued
<1>5. ASSUME NEW q \in Peers, Queued(q), ~Queued(q)' PROVE LastOf(1, q)
  <2>1. PICK m \in 1..Len(events) : events[m].peer = q
    BY <1>5 DEF Queued
  <2> QED
    BY <1>4, <1>5, <2>1 DEF LastOf
<1>6. ASSUME NEW q \in Peers, ~Queued(q) PROVE ~Queued(q)' /\ events[1].peer # q
  <2>1. \A m \in 1..Len(events) : events[m].peer # q
    BY <1>6 DEF Queued
  <2> QED
    BY <1>1, <2>1 DEF Queued
<1> QED
  BY <1>1, <1>2, <1>3, <1>5, <1>6

\* What the device list says of a peer after an event.
LEMMA Delivered ==
  ASSUME DiscoveryTypeOK, Deliver
  PROVE  LET e == events[1]
         IN  /\ Entry(shown', e.peer) = Says(e)
             /\ \A q : q # e.peer => Entry(shown', q) = Entry(shown, q)
             /\ DOMAIN shown' \subseteq Peers /\ \A q \in DOMAIN shown' : shown'[q] \in Infos
<1> DEFINE e == events[1]
<1>1. e = Head(events) /\ e \in Events
  BY TakenFromFront DEF DiscoveryTypeOK, Deliver
<1>2. e.kind \in {"found", "lost"} /\ e.peer \in Peers /\ e.info \in Infos
  BY <1>1 DEF Events
<1>3. shown' = IF e.kind = "found" THEN With(shown, e.peer, e.info) ELSE Without(shown, {e.peer})
  BY <1>1 DEF Deliver
<1> HIDE DEF e
<1>4. CASE e.kind = "found"
  <2>1. /\ DOMAIN shown' = DOMAIN shown \cup {e.peer} /\ shown'[e.peer] = e.info
        /\ \A q \in DOMAIN shown : q # e.peer => shown'[q] = shown[q]
    BY <1>3, <1>4 DEF With
  <2>2. Entry(shown', e.peer) = Says(e) /\ \A q : q # e.peer => Entry(shown', q) = Entry(shown, q)
    BY <1>4, <2>1 DEF Entry, Says
  <2> QED
    BY <1>2, <2>1, <2>2 DEF DiscoveryTypeOK, e
<1>5. CASE e.kind # "found"
  <2>1. /\ DOMAIN shown' = DOMAIN shown \ {e.peer}
        /\ \A q \in DOMAIN shown' : shown'[q] = shown[q]
    BY <1>3, <1>5 DEF Without, Restrict
  <2>2. Entry(shown', e.peer) = Says(e) /\ \A q : q # e.peer => Entry(shown', q) = Entry(shown, q)
    BY <1>5, <2>1 DEF Entry, Says
  <2> QED
    BY <2>1, <2>2 DEF DiscoveryTypeOK, e
<1> QED
  BY <1>4, <1>5

\* BridgeDiscovery: the last event of a peer brings the list up to date.
LEMMA DeliverKeepsInv == ASSUME Inv, Deliver PROVE Inv'
<1> DEFINE e == events[1]
<1>1. /\ finder = "none" /\ events # <<>> /\ events' = Tail(events)
      /\ UNCHANGED <<table, old, around, held, finder, fate, changes>>
      /\ events \in Seq(Events) /\ Len(events) <= Cap
  BY DEF Deliver, Inv, DiscoveryTypeOK
<1>2. /\ Entry(shown', e.peer) = Says(e)
      /\ \A q : q # e.peer => Entry(shown', q) = Entry(shown, q)
      /\ DOMAIN shown' \subseteq Peers /\ \A q \in DOMAIN shown' : shown'[q] \in Infos
  BY Delivered DEF Inv
<1>3. DiscoveryTypeOK'
  <2>1. events' \in Seq(Events) /\ Len(events') <= Cap
    BY <1>1, TakenFromFront
  <2> QED
    BY <1>1, <1>2, <2>1 DEF Inv, DiscoveryTypeOK
<1>4. Shape' /\ HeldIsNew' /\ FinderFollows'
  BY <1>1 DEF Inv, Shape, HeldIsNew, FinderFollows
<1>5. ListFollows'
  <2> SUFFICES ASSUME NEW q \in Peers, fate[q] = "sent"
               PROVE  /\ \A n \in 1..Len(events') : LastOf(n, q)' => Says(events'[n]) = Entry(table, q)
                      /\ ~Queued(q)' => Entry(shown', q) = Entry(table, q)
    BY <1>1 DEF ListFollows
  <2>1. ASSUME NEW n \in 1..Len(events'), LastOf(n, q)' PROVE Says(events'[n]) = Entry(table, q)
    <3>1. events'[n] = events[n + 1] /\ LastOf(n + 1, q) /\ n + 1 \in 1..Len(events)
      BY <1>1, <2>1, TakenFromFront
    <3> QED
      BY <1>1, <3>1 DEF Inv, ListFollows
  <2>2. CASE Queued(q) /\ ~Queued(q)'
    <3>1. LastOf(1, q) /\ 1 \in 1..Len(events)
      BY <1>1, <2>2, TakenFromFront
    <3>2. e.peer = q /\ Says(e) = Entry(table, q)
      BY <1>1, <3>1 DEF Inv, ListFollows, LastOf
    <3> QED
      BY <1>2, <2>1, <3>2
  <2>3. CASE ~Queued(q)
    <3>1. e.peer # q
      BY <1>1, <2>3, TakenFromFront
    <3> QED
      BY <1>1, <1>2, <2>1, <2>3, <3>1 DEF Inv, ListFollows
  <2> QED
    BY <2>1, <2>2, <2>3
<1> QED
  BY <1>3, <1>4, <1>5 DEF Inv

\* FindPeer takes an event and stops at one with the name it waits for.
LEMMA TakeKeepsInv == ASSUME Inv, Take PROVE Inv'
<1>1. /\ finder = "wait" /\ events # <<>> /\ events' = Tail(events)
      /\ finder' = (IF Head(events).kind = "found" /\ Named(Head(events).info) THEN "found" ELSE "wait")
      /\ UNCHANGED <<table, old, around, held, shown, fate, changes>>
      /\ events \in Seq(Events) /\ Len(events) <= Cap
  BY DEF Take, Inv, DiscoveryTypeOK
<1>2. /\ Head(events) = events[1] /\ events' \in Seq(Events)
      /\ Len(events) \in Nat \ {0} /\ Len(events') = Len(events) - 1
      /\ \A n \in 1..Len(events') : events'[n] = events[n + 1]
  BY <1>1, TakenFromFront
<1>3. DiscoveryTypeOK'
  BY <1>1, <1>2 DEF Inv, DiscoveryTypeOK
<1>4. Shape' /\ HeldIsNew' /\ ListFollows'
  BY <1>1 DEF Inv, Shape, HeldIsNew, ListFollows
<1>5. FinderFollows'
  <2> SUFFICES ASSUME finder' = "wait", NEW q \in Peers, NEW i \in Entry(table, q), Named(i), fate[q] = "sent"
               PROVE  \E n \in 1..Len(events') : events'[n].peer = q /\ Says(events'[n]) = {i}
    BY <1>1 DEF FinderFollows
  <2>1. PICK n \in 1..Len(events) : events[n].peer = q /\ Says(events[n]) = {i}
    BY <1>1 DEF Inv, FinderFollows
  <2>2. n # 1
    <3> SUFFICES ASSUME n = 1 PROVE FALSE
      OBVIOUS
    <3>1. events[1].kind = "found" /\ events[1].info = i
      BY <2>1 DEF Says
    <3> QED
      BY <1>1, <1>2, <3>1
  <2>3. n - 1 \in 1..Len(events') /\ events'[n - 1] = events[n]
    BY <1>2, <2>2
  <2> QED
    BY <2>1, <2>3
<1> QED
  BY <1>3, <1>4, <1>5 DEF Inv

\* FindPeer waits only if the table has nobody of that name.
LEMMA LookKeepsInv == ASSUME Inv, Look PROVE Inv'
<1>1. /\ finder = "look" /\ finder' = (IF \E p \in DOMAIN table : Named(table[p]) THEN "found" ELSE "wait")
      /\ fate' = [p \in Peers |-> IF fate[p] = "lost" THEN "sent" ELSE fate[p]]
      /\ UNCHANGED <<table, old, around, held, events, shown, changes>>
  BY DEF Look
<1>2. /\ fate' \in [Peers -> Goroutines \cup {"sent", "lost"}]
      /\ \A p \in Peers : \/ fate[p] \in {"sent", "lost"} /\ fate'[p] = "sent"
                          \/ fate[p] \in Goroutines /\ fate'[p] = fate[p]
  BY <1>1, GoroutineNames DEF Inv, Shape
<1>3. DiscoveryTypeOK'
  <2>1. \A p \in Peers : fate'[p] \in {"sent", "lost"} \/ \E e \in held'[fate'[p]] : e.peer = p
    BY <1>1, <1>2, GoroutineNames DEF Inv, DiscoveryTypeOK
  <2>2. finder' \in {"none", "look", "wait", "found", "timeout"}
    BY <1>1
  <2> QED
    BY <1>1, <2>1, <2>2 DEF Inv, DiscoveryTypeOK
<1>4. Shape' /\ HeldIsNew'
  BY <1>1, <1>2, GoroutineNames DEF Inv, Shape, HeldIsNew
<1>5. ListFollows' /\ FinderFollows'
  BY <1>1 DEF ListFollows, FinderFollows, Entry
<1> QED
  BY <1>3, <1>4, <1>5 DEF Inv

-----------------------------------------------------------------------------
(* Every step *)

\* Nobody is known yet, and nothing is to be told.
LEMMA InvInit == Init => Inv
<1> SUFFICES ASSUME Init PROVE Inv
  OBVIOUS
<1>1. DOMAIN table = {} /\ DOMAIN shown = {} /\ Len(events) = 0
  BY DEF Init
<1>2. \A q : Entry(table, q) = {} /\ Entry(shown, q) = {}
  BY <1>1 DEF Entry
<1>3. DiscoveryTypeOK
  BY <1>1 DEF Init, DiscoveryTypeOK
<1>4. Shape
  BY DEF Init, Shape
<1>5. HeldIsNew /\ ListFollows /\ FinderFollows
  BY <1>1, <1>2 DEF Init, HeldIsNew, ListFollows, FinderFollows
<1> QED
  BY <1>3, <1>4, <1>5 DEF Inv

\* Every step keeps the newest event of each peer on its way.
LEMMA InvStep == Inv /\ [Next]_dvars => Inv'
<1> SUFFICES ASSUME Inv, [Next]_dvars PROVE Inv'
  OBVIOUS
<1>1. ASSUME NEW p \in Peers, NEW i \in Infos, NEW g \in Noters, Note(g, p, i) PROVE Inv'
  BY <1>1, SeenAgain, SeenChanged
<1>2. ASSUME UNCHANGED <<table, held, events, shown, finder, fate, changes>>,
             old' \subseteq DOMAIN table, around' \subseteq Peers
      PROVE  Inv'
  <2>1. DiscoveryTypeOK' /\ Shape' /\ HeldIsNew'
    BY <1>2 DEF Inv, DiscoveryTypeOK, Shape, HeldIsNew
  <2>2. ListFollows' /\ FinderFollows'
    BY <1>2, ChannelSame
  <2> QED
    BY <2>1, <2>2 DEF Inv
<1>3. old \subseteq DOMAIN table /\ around \subseteq Peers
  BY DEF Inv, DiscoveryTypeOK
<1>4. ASSUME NEW p \in Peers, Expire(p) \/ Leave(p) \/ Return(p) PROVE Inv'
  BY <1>2, <1>3, <1>4 DEF Expire, Leave, Return
<1>5. CASE GiveUp
  <2>1. DiscoveryTypeOK'
    BY <1>5 DEF GiveUp, Inv, DiscoveryTypeOK
  <2> QED
    BY <1>5, <2>1 DEF GiveUp, Inv, Shape, HeldIsNew, ListFollows, FinderFollows
<1>6. CASE UNCHANGED dvars
  BY <1>2, <1>3, <1>6 DEF dvars
<1>7. ASSUME NEW p \in Peers, NEW i \in Infos,
             Hear(p, i) \/ (\E g \in Handlers : Register(g, p, i)) \/ \E g \in Probes : Answered(g, p, i)
      PROVE  Inv'
  BY <1>1, <1>7 DEF Hear, Register, Answered, Noters
<1> QED
  BY <1>4, <1>5, <1>6, <1>7, ReapKeepsInv, EmitKeepsInv, DeliverKeepsInv, TakeKeepsInv, LookKeepsInv DEF Next

\* What the theorems below rest on.
LEMMA InvAlways == Spec => []Inv
  BY InvInit, InvStep, PTL DEF Spec

-----------------------------------------------------------------------------
(* Theorems *)

\* Every variable stays in its domain; a goroutine holds one event of a peer at
\* most, and the one said to hold its newest does.
THEOREM DiscoveryTypeCorrect == Spec => []DiscoveryTypeOK
<1>1. Inv => DiscoveryTypeOK
  BY DEF Inv
<1> QED
  BY <1>1, InvAlways, PTL

\* The device list says of a peer what the table says, once its newest event
\* went through, if that was neither lost nor overtaken.
THEOREM ListIsTold == Spec => []ListTellsTable
<1>1. Inv => ListTellsTable
  BY DEF Inv, ListFollows, ListTellsTable
<1> QED
  BY <1>1, InvAlways, PTL

\* FindPeer never waits past a peer of the wanted name whose event went by.
THEOREM NobodyIsMissed == Spec => []FindPeerMissesNobody
<1>1. Inv => FindPeerMissesNobody
  <2> SUFFICES ASSUME Inv, finder = "wait", NEW p \in DOMAIN table, Named(table[p]), fate[p] = "sent"
               PROVE  Queued(p)
    BY DEF FindPeerMissesNobody
  <2>1. p \in Peers /\ table[p] \in Entry(table, p)
    BY DEF Inv, DiscoveryTypeOK, Entry
  <2> QED
    BY <2>1 DEF Inv, FinderFollows, Queued
<1> QED
  BY <1>1, InvAlways, PTL
=============================================================================
