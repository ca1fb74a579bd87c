----------------------------- MODULE Discovery -----------------------------
(***************************************************************************)
(* internal/discovery and its readers: the table of peers, which the        *)
(* multicast listener, the /register handlers and the probes of known hosts *)
(* fill and the reaper empties; the bounded channel of events it is told    *)
(* over; and the one reader of that channel, the bridge to the TUI's device *)
(* list or, in a headless send, FindPeer.                                   *)
(*                                                                         *)
(* The table changes under the lock and its event goes out after the        *)
(* unlock, so events of one peer can overtake each other; a full channel    *)
(* drops them.  Peers are fingerprints, the own one left out (NotePeer and  *)
(* listen ignore it).  Time is only this: an entry may become old, and      *)
(* seeing its peer makes it fresh.                                          *)
(*                                                                         *)
(* An operator whose name ends in "Broken" is never used: it is a mistake   *)
(* one could make in the operator defined after it.                         *)
(***************************************************************************)
EXTENDS Naturals, Sequences, Functions

CONSTANTS
  Peers,        \* fingerprints of other devices
  Names,        \* aliases
  Addrs,        \* addresses a peer is seen at
  Loopback,     \* the loopback one
  Wanted,       \* the alias a headless send looks for
  Handlers,     \* goroutines of inbound /register requests
  Probes,       \* goroutines that probe a known host
  Cap,          \* capacity of the event channel
  MaxChanges    \* bounds the entries of the table that are new or differ

ASSUME DiscoveryAssumption ==
  /\ Loopback \in Addrs /\ Wanted \in Names
  /\ Cap \in Nat \ {0} /\ MaxChanges \in Nat
  /\ Handlers \cap Probes = {}
  /\ {"listen", "reap", "sent", "lost"} \cap (Handlers \cup Probes) = {}

VARIABLES
  table,      \* Discoverer.peers: what is known of each peer in it
  old,        \* peers of the table not seen for peerTTL
  around,     \* peers whose announcements or answers still come in
  held,       \* held[g]: events goroutine g made under the lock and has yet to send
  events,     \* Discoverer.events
  shown,      \* model.peers, what the device list shows
  finder,     \* "none" in a program with a TUI, else where FindPeer is
  fate,       \* the newest event of a peer: its goroutine, "sent", or "lost"
  changes     \* changes of the table so far

dvars == <<table, old, around, held, events, shown, finder, fate, changes>>

Noters == {"listen"} \cup Handlers \cup Probes
Goroutines == Noters \cup {"reap"}

Infos == [ip : Addrs, name : Names]
Events == [kind : {"found", "lost"}, peer : Peers, info : Infos]

Init ==
  /\ table = <<>> /\ shown = <<>> /\ old = {} /\ events = <<>>
  /\ around = Peers
  /\ held = [g \in Goroutines |-> {}]
  /\ finder \in {"none", "look"}
  /\ fate = [p \in Peers |-> "sent"]
  /\ changes = 0

-----------------------------------------------------------------------------
(* NotePeer *)

With(f, p, i) == [q \in DOMAIN f \cup {p} |-> IF q = p THEN i ELSE f[q]]
Without(f, ps) == Restrict(f, DOMAIN f \ ps)
Entry(f, p) == IF p \in DOMAIN f THEN {f[p]} ELSE {}

\* A routable address is never replaced by the loopback one.
Kept(p, i) ==
  IF p \in DOMAIN table /\ i.ip = Loopback THEN [i EXCEPT !.ip = table[p].ip] ELSE i

\* sees a new address only
ChangedBroken(p, i) == {e.ip : e \in Entry(table, p)} # {i.ip}

\* New, at another address or under another alias.
Changed(p, i) == Entry(table, p) # {i}

\* leaves the sending to a goroutine and goes on
NoteBroken(g, p, i) ==
  /\ p \in around
  /\ table' = With(table, p, Kept(p, i))
  /\ old' = old \ {p}
  /\ Changed(p, Kept(p, i)) /\ changes < MaxChanges
  /\ changes' = changes + 1
  /\ held' = [held EXCEPT ![g] = @ \cup {[kind |-> "found", peer |-> p, info |-> Kept(p, i)]}]
  /\ fate' = [fate EXCEPT ![p] = g]
  /\ UNCHANGED <<around, events, shown, finder>>

\* The critical section: the event is decided, and sent later.
Note(g, p, i) ==
  /\ p \in around /\ held[g] = {}
  /\ table' = With(table, p, Kept(p, i))
  /\ old' = old \ {p}
  /\ IF Changed(p, Kept(p, i))
       THEN /\ changes < MaxChanges
            /\ changes' = changes + 1
            /\ held' = [held EXCEPT ![g] = {[kind |-> "found", peer |-> p, info |-> Kept(p, i)]}]
            /\ fate' = [fate EXCEPT ![p] = g]
       ELSE UNCHANGED <<changes, held, fate>>
  /\ UNCHANGED <<around, events, shown, finder>>

\* A multicast packet, an inbound request (only a program with a TUI has a
\* server), the answer to a probe of a known host.
Hear(p, i) == Note("listen", p, i)
Register(g, p, i) == g \in Handlers /\ finder = "none" /\ Note(g, p, i)
Answered(g, p, i) == g \in Probes /\ Note(g, p, i)

-----------------------------------------------------------------------------
(* The reaper *)

\* More than peerTTL since the last sight.
Expire(p) ==
  /\ p \in DOMAIN table \ old
  /\ old' = old \cup {p}
  /\ UNCHANGED <<table, around, held, events, shown, finder, fate, changes>>

\* reapOnce evicts all old entries in one critical section.
Reap ==
  /\ old # {} /\ held["reap"] = {}
  /\ table' = Without(table, old)
  /\ old' = {}
  /\ held' = [held EXCEPT !["reap"] =
                {[kind |-> "lost", peer |-> p, info |-> table[p]] : p \in old}]
  /\ fate' = [p \in Peers |-> IF p \in old THEN "reap" ELSE fate[p]]
  /\ UNCHANGED <<around, events, shown, finder, changes>>

-----------------------------------------------------------------------------
(* The channel and its readers *)

\* emit never blocks: a full channel loses the event.
Emit(g, e) ==
  /\ e \in held[g]
  /\ held' = [held EXCEPT ![g] = @ \ {e}]
  /\ LET room == Len(events) < Cap
         now == IF fate[e.peer] = g THEN IF room THEN "sent" ELSE "lost"
                ELSE IF room /\ fate[e.peer] = "sent" THEN "lost"
                ELSE fate[e.peer]
     IN /\ events' = IF room THEN Append(events, e) ELSE events
        /\ fate' = [fate EXCEPT ![e.peer] = now]
  /\ UNCHANGED <<table, old, around, shown, finder, changes>>

\* a loss is not passed on
DeliverBroken ==
  /\ finder = "none" /\ events # <<>>
  /\ events' = Tail(events)
  /\ shown' = LET e == Head(events)
              IN IF e.kind = "found" THEN With(shown, e.peer, e.info) ELSE shown
  /\ UNCHANGED <<table, old, around, held, finder, fate, changes>>

\* BridgeDiscovery, and the TUI's PeerFoundMsg and PeerLostMsg.
Deliver ==
  /\ finder = "none" /\ events # <<>>
  /\ events' = Tail(events)
  /\ shown' = LET e == Head(events)
              IN IF e.kind = "found" THEN With(shown, e.peer, e.info)
                 ELSE Without(shown, {e.peer})
  /\ UNCHANGED <<table, old, around, held, finder, fate, changes>>

Named(i) == i.name = Wanted

\* waits for events only
LookBroken ==
  /\ finder = "look" /\ finder' = "wait"
  /\ fate' = [p \in Peers |-> IF fate[p] = "lost" THEN "sent" ELSE fate[p]]
  /\ UNCHANGED <<table, old, around, held, events, shown, changes>>

\* FindPeer first reads the table: what the channel lost so far is made good.
Look ==
  /\ finder = "look"
  /\ finder' = IF \E p \in DOMAIN table : Named(table[p]) THEN "found" ELSE "wait"
  /\ fate' = [p \in Peers |-> IF fate[p] = "lost" THEN "sent" ELSE fate[p]]
  /\ UNCHANGED <<table, old, around, held, events, shown, changes>>

Take ==
  /\ finder = "wait" /\ events # <<>>
  /\ events' = Tail(events)
  /\ finder' = IF Head(events).kind = "found" /\ Named(Head(events).info)
                 THEN "found" ELSE "wait"
  /\ UNCHANGED <<table, old, around, held, shown, fate, changes>>

GiveUp ==
  /\ finder = "wait" /\ finder' = "timeout"
  /\ UNCHANGED <<table, old, around, held, events, shown, fate, changes>>

\* A device goes away or comes back; nothing here is told.
Leave(p) ==
  /\ p \in around /\ around' = around \ {p}
  /\ UNCHANGED <<table, old, held, events, shown, finder, fate, changes>>

Return(p) ==
  /\ p \in Peers \ around /\ around' = around \cup {p}
  /\ UNCHANGED <<table, old, held, events, shown, finder, fate, changes>>

Next ==
  \/ \E p \in Peers, i \in Infos :
       \/ Hear(p, i)
       \/ \E g \in Handlers : Register(g, p, i)
       \/ \E g \in Probes : Answered(g, p, i)
  \/ \E p \in Peers : Expire(p) \/ Leave(p) \/ Return(p)
  \/ Reap
  \/ \E g \in Goroutines : \E e \in held[g] : Emit(g, e)
  \/ Deliver \/ Look \/ Take \/ GiveUp

Spec == Init /\ [][Next]_dvars

\* The clock runs, the ticker ticks, goroutines and the bridge are scheduled.
\* Nothing makes a peer return, or be seen.
FairSpec ==
  /\ Spec
  /\ \A p \in Peers : WF_dvars(p \notin around /\ Expire(p))
  /\ WF_dvars(Reap) /\ WF_dvars(Deliver)
  /\ \A g \in Goroutines : WF_dvars(\E e \in held[g] : Emit(g, e))

-----------------------------------------------------------------------------
(* Properties *)

\* Every variable stays in its domain, entries are only old while they are in
\* the table, no goroutine of Noters holds two events, and the goroutine said
\* to hold the newest event of a peer holds one of that peer.
DiscoveryTypeOK ==
  /\ DOMAIN table \subseteq Peers /\ old \subseteq DOMAIN table
  /\ DOMAIN shown \subseteq Peers
  /\ \A p \in DOMAIN table : table[p] \in Infos
  /\ \A p \in DOMAIN shown : shown[p] \in Infos
  /\ around \subseteq Peers
  /\ \A g \in Goroutines :
       /\ held[g] \subseteq Events
       /\ \A d, e \in held[g] : d # e => g = "reap" /\ d.peer # e.peer
  /\ events \in Seq(Events) /\ Len(events) <= Cap
  /\ finder \in {"none", "look", "wait", "found", "timeout"}
  /\ \A p \in Peers : \/ fate[p] \in {"sent", "lost"}
                      \/ \E e \in held[fate[p]] : e.peer = p
  /\ changes \in 0..MaxChanges

Queued(p) == \E n \in 1..Len(events) : events[n].peer = p

\* The device list says of a peer what the table says, its address and its
\* alias, or that it is gone, as soon as the newest event of that peer went
\* through: it is wrong for longer only when that event met a full channel or
\* was overtaken by an older one.  (NotePeer, reapOnce, the TUI's handlers.)
ListTellsTable ==
  finder = "none" =>
    \A p \in Peers : fate[p] = "sent" /\ ~Queued(p) => Entry(shown, p) = Entry(table, p)

\* While FindPeer waits for a name, no peer of that name is in the table whose
\* event went by: neither between the look at the table and the wait, nor under
\* an alias that changed.  (FindPeer, NotePeer.)
FindPeerMissesNobody ==
  finder = "wait" =>
    \A p \in DOMAIN table : Named(table[p]) /\ fate[p] = "sent" => Queued(p)

\* A device that stays away leaves the table, and the list too unless the
\* event that says so was lost.  (reapLoop, BridgeDiscovery.)
GoneAgesOut ==
  \A p \in Peers :
    p \notin around ~>
      p \in around \/ (p \notin DOMAIN table
                        /\ (finder # "none" \/ p \notin DOMAIN shown \/ fate[p] = "lost"))
=============================================================================
