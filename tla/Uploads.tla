------------------------------- MODULE Uploads -------------------------------
(***************************************************************************)
(* The receiving half of internal/server: the session store (session.go),  *)
(* the /upload and /cancel handlers and writeFile (server.go), the receive  *)
(* folder they write to, and the transfer-event channel that the TUI's      *)
(* bridge drains (app/events.go, applyTransfer in tui/model.go).            *)
(*                                                                         *)
(* Every HTTP request is a goroutine of its own, so a handler is a process *)
(* with a program counter; only what the code does under sessionStore.mu,  *)
(* or in one system call, is one step.                                     *)
(*                                                                         *)
(* An operator whose name ends in "Broken" is never used: it is a mistake   *)
(* one could make in the operator defined after it, kept here to see that a *)
(* property notices.                                                        *)
(***************************************************************************)
EXTENDS Naturals, Sequences, FiniteSets, Rows

CONSTANTS
  Sessions,     \* session ids; an id not yet created stands for an unknown one
  Files,        \* fileIds
  FilesOf,      \* FilesOf[s]: the fileIds announced by the request behind s
  NameOf,       \* NameOf[f]: the announced file name
  Stems,        \* names (and their folders) without counters and ".part"
  Existing,     \* paths already in the receive folder when the program starts
  Uploads,      \* POST /upload requests, one handler goroutine each
  Cancels,      \* POST /cancel requests, one handler goroutine each
  Chunks,       \* a complete body is this many successful Reads
  TransferCap,  \* capacity of Server.transfers (256 in the code)
  MaxCrashes,   \* bound on process deaths
  MaxSkips,     \* bound on the names uniqueAt skips because of a passing error
  NameOverlap,  \* may uploads whose names can lead to one path be open together?
  TokenReuse,   \* may a peer present the same token twice?
  Nil

\* A path in the receive folder, or an announced name: "x", "x (2)" and
\* "x (2) (1)" are one stem with the counters <<>>, <<2>> and <<2, 1>>; each
\* ".part" at the end adds one to part.
Path == [stem : Stems, ctr : Seq(Nat \ {0}), part : Nat]

Writers == Uploads \cup Existing

ASSUME UploadsAssumption ==
  /\ FilesOf \in [Sessions -> SUBSET Files]
  /\ \A s \in Sessions : FilesOf[s] # {}
  /\ NameOf \in [Files -> [stem : Stems, ctr : Seq(Nat \ {0}), part : 0..1]]
  /\ Existing \subseteq Path
  /\ Uploads \cap Existing = {}
  /\ Nil \notin Writers
  /\ Chunks \in Nat \ {0}
  /\ TransferCap \in Nat \ {0}
  /\ MaxCrashes \in Nat
  /\ MaxSkips \in Nat
  /\ NameOverlap \in BOOLEAN
  /\ TokenReuse \in BOOLEAN

VARIABLES
  created,    \* sessions ever put in the store
  live,       \* domain of sessionStore.sessions
  done,       \* done[s]: the fileIds with fileEntry.done set
  cancelled,  \* sessions whose context is cancelled
  disk,       \* directory entries: path -> inode (named by who created it)
  data,       \* data[i][k]: who wrote chunk k of inode i last
  pc,         \* program counter of each /upload handler
  req,        \* its query: session, fileId, and whether the token is right
  n,          \* counter of the candidate name uniqueAt is looking at
  fd,         \* inode behind the handler's open file
  got,        \* body chunks read so far
  cpc,        \* program counter of each /cancel handler
  csid,       \* its sessionId
  transfers,  \* the channel Server.transfers
  rows,       \* the TUI's row state per transfer key (Model.xferIndex)
  crashes

storeVars == <<created, live, done, cancelled>>
fileVars  == <<disk, data>>
upVars    == <<pc, req, n, fd, got>>
cancVars  == <<cpc, csid>>
uiVars    == <<transfers, rows>>
vars == <<storeVars, fileVars, upVars, cancVars, uiVars, crashes>>

-----------------------------------------------------------------------------
(* Names and the folder *)

\* The k-th name uniqueAt tries for the name m: m itself, then one more counter.
Cand(m, k) == IF k = 0 THEN m ELSE [m EXCEPT !.ctr = Append(@, k)]
Dest(u) == Cand(NameOf[req[u].f], n[u])

\* May uniqueAt come to one path for both names?  "x" may become "x (1)".
Candidate(m, p) == p = m \/ \E i \in 1..Len(p.ctr) : p = Cand(m, p.ctr[i])
MayMeet(m, q)   == Candidate(m, q) \/ Candidate(q, m)

TmpBroken(p) == p  \* writes straight to the destination
Tmp(p)  == [p EXCEPT !.part = @ + 1]

Put(p, i)   == [q \in DOMAIN disk \cup {p} |-> IF q = p THEN i ELSE disk[q]]
Unlink(p)   == [q \in DOMAIN disk \ {p} |-> disk[q]]
Move(p, q)  == [x \in (DOMAIN disk \ {p}) \cup {q} |-> IF x = q THEN disk[p] ELSE disk[x]]
Truncate(i) == [data EXCEPT ![i] = [k \in 1..Chunks |-> Nil]]

(* Events *)

Key(u)   == [s |-> req[u].s, f |-> req[u].f]
Event    == [kind : Kinds, key : [s : Sessions, f : Files \cup {Nil}]]
HasRoomBroken == Len(transfers) < TransferCap - 1
HasRoomOffBroken == Len(transfers) <= TransferCap  \* off by one
HasRoom  == Len(transfers) < TransferCap
\* "select ... default" where the code has a plain send
EmitBroken(kind, key) ==
  /\ transfers' = IF HasRoom THEN Append(transfers, [kind |-> kind, key |-> key]) ELSE transfers
  /\ UNCHANGED rows
Emit(kind, key) == /\ HasRoom
                   /\ transfers' = Append(transfers, [kind |-> kind, key |-> key])
                   /\ UNCHANGED rows

Goto(u, from, to) == pc[u] = from /\ pc' = [pc EXCEPT ![u] = to]

Open     == {"lookup", "stat", "create", "start", "check", "reading", "cleanup",
             "rename", "fail", "landed", "complete"}
HoldsFile == {"start", "check", "reading", "cleanup", "rename"}
\* "spin", neither open nor finished: uniqueAt looks for a name for ever.
Finished == {"ok", "forbidden", "failed", "dead"}
CPCs     == {"idle", "ctx", "emit", "end", "dead"}

-----------------------------------------------------------------------------
Init ==
  /\ created = {} /\ live = {} /\ cancelled = {}
  /\ done = [s \in Sessions |-> {}]
  /\ disk = [p \in Existing |-> p]
  /\ data = [i \in Writers |-> [k \in 1..Chunks |-> IF i \in Existing THEN i ELSE Nil]]
  /\ pc  = [u \in Uploads |-> "idle"]
  /\ req = [u \in Uploads |-> [s |-> Nil, f |-> Nil, tok |-> FALSE]]
  /\ n   = [u \in Uploads |-> 0]
  /\ fd  = [u \in Uploads |-> Nil]
  /\ got = [u \in Uploads |-> 0]
  /\ cpc = [c \in Cancels |-> "idle"]
  /\ csid = [c \in Cancels |-> Nil]
  /\ transfers = <<>>
  /\ rows = <<>>
  /\ crashes = 0

\* sessionStore.create, called by an admitted prepare-upload.
CreateSession(s) ==
  /\ s \notin created
  /\ created' = created \cup {s}
  /\ live' = live \cup {s}
  /\ UNCHANGED <<done, cancelled, fileVars, upVars, cancVars, uiVars, crashes>>

\* A peer opens POST /upload.  It can know a right token only of a session
\* that was created.
Arrive(u, s, f, tok) ==
  /\ Goto(u, "idle", "lookup")
  /\ tok => s \in created /\ f \in FilesOf[s]
  /\ NameOverlap \/ \A v \in Uploads : pc[v] \in Open => ~MayMeet(NameOf[req[v].f], NameOf[f])
  /\ TokenReuse \/ \A v \in Uploads : req[v].tok /\ tok => <<req[v].s, req[v].f>> # <<s, f>>
  /\ req' = [req EXCEPT ![u] = [s |-> s, f |-> f, tok |-> tok]]
  /\ UNCHANGED <<storeVars, fileVars, n, fd, got, cancVars, uiVars, crashes>>

\* sessionStore.lookup: the done flag of the entry plays no part.
Lookup(u) ==
  LET valid == req[u].s \in live /\ req[u].f \in FilesOf[req[u].s] /\ req[u].tok
  IN /\ Goto(u, "lookup", IF valid THEN "stat" ELSE "forbidden")
     /\ UNCHANGED <<storeVars, fileVars, req, n, fd, got, cancVars, uiVars, crashes>>

\* uniqueAt: one os.Stat per step, the counter moves on while the name is taken.
StatTaken(u) ==
  /\ pc[u] = "stat" /\ Dest(u) \in DOMAIN disk
  /\ n' = [n EXCEPT ![u] = @ + 1]
  /\ UNCHANGED <<storeVars, fileVars, pc, req, fd, got, cancVars, uiVars, crashes>>

\* os.Stat fails with something else than "does not exist", which uniqueAt takes
\* for a taken name: the error passes, or it stays (a name too long, a folder it
\* may not search) and the loop never ends.
StatFails(u) ==
  /\ pc[u] = "stat"
  /\ \/ /\ n[u] < MaxSkips
        /\ n' = [n EXCEPT ![u] = @ + 1]
        /\ pc' = pc
     \/ /\ pc' = [pc EXCEPT ![u] = "spin"]
        /\ n' = n
  /\ UNCHANGED <<storeVars, fileVars, req, fd, got, cancVars, uiVars, crashes>>

StatFreeBroken(u) ==
  /\ Goto(u, "stat", "create")
  /\ UNCHANGED <<storeVars, fileVars, req, n, fd, got, cancVars, uiVars, crashes>>

StatFree(u) ==
  /\ Goto(u, "stat", "create")
  /\ Dest(u) \notin DOMAIN disk
  /\ UNCHANGED <<storeVars, fileVars, req, n, fd, got, cancVars, uiVars, crashes>>

\* os.Create(dest + ".part"): a new inode, or the existing one cut to nothing.
Create(u) ==
  LET p == Tmp(Dest(u))
      i == IF p \in DOMAIN disk THEN disk[p] ELSE u
  IN /\ Goto(u, "create", "start")
     /\ disk' = Put(p, i)
     /\ data' = Truncate(i)
     /\ fd' = [fd EXCEPT ![u] = i]
     /\ UNCHANGED <<storeVars, req, n, got, cancVars, uiVars, crashes>>

\* MkdirAll or os.Create fails: nothing was written, nothing is removed.
CreateFails(u) ==
  /\ pc[u] \in {"stat", "create"}
  /\ pc' = [pc EXCEPT ![u] = "fail"]
  /\ UNCHANGED <<storeVars, fileVars, req, n, fd, got, cancVars, uiVars, crashes>>

EmitStart(u) ==
  /\ Goto(u, "start", "check")
  /\ Emit("Start", Key(u))
  /\ UNCHANGED <<storeVars, fileVars, req, n, fd, got, cancVars, crashes>>

CheckContextBroken(u) ==
  /\ Goto(u, "check", "reading")
  /\ UNCHANGED <<storeVars, fileVars, req, n, fd, got, cancVars, uiVars, crashes>>

\* progressReader.Read looks at the session's context before it reads.
CheckContext(u) ==
  /\ Goto(u, "check", IF req[u].s \in cancelled THEN "cleanup" ELSE "reading")
  /\ UNCHANGED <<storeVars, fileVars, req, n, fd, got, cancVars, uiVars, crashes>>

\* The Read returns a chunk, which io.Copy writes at the handler's own offset;
\* the last one may bring the end of the body along.
ReadChunk(u) ==
  /\ got[u] < Chunks
  /\ \/ Goto(u, "reading", "check")
     \/ got[u] + 1 = Chunks /\ Goto(u, "reading", "rename")
  /\ got' = [got EXCEPT ![u] = @ + 1]
  /\ data' = [data EXCEPT ![fd[u]][got[u] + 1] = u]
  /\ UNCHANGED <<storeVars, disk, req, n, fd, cancVars, uiVars, crashes>>

\* answers before the file has its name
ReadEOFBroken(u) ==
  /\ got[u] = Chunks
  /\ Goto(u, "reading", "landed")
  /\ UNCHANGED <<storeVars, fileVars, req, n, fd, got, cancVars, uiVars, crashes>>

ReadEOF(u) ==
  /\ got[u] = Chunks
  /\ Goto(u, "reading", "rename")
  /\ UNCHANGED <<storeVars, fileVars, req, n, fd, got, cancVars, uiVars, crashes>>

\* The connection breaks, or a write or the close fails.
CopyFails(u) ==
  /\ Goto(u, "reading", "cleanup")
  /\ UNCHANGED <<storeVars, fileVars, req, n, fd, got, cancVars, uiVars, crashes>>

RemoveTmpBroken(u) ==
  /\ Goto(u, "cleanup", "fail")
  /\ UNCHANGED <<storeVars, fileVars, req, n, fd, got, cancVars, uiVars, crashes>>

\* os.Remove(tmp): the entry goes, whatever inode it names by now.
RemoveTmp(u) ==
  /\ Goto(u, "cleanup", "fail")
  /\ disk' = Unlink(Tmp(Dest(u)))
  /\ UNCHANGED <<storeVars, data, req, n, fd, got, cancVars, uiVars, crashes>>

\* os.Rename(tmp, dest) replaces dest if there is one by now.
Rename(u) ==
  /\ Goto(u, "rename", "landed")
  /\ Tmp(Dest(u)) \in DOMAIN disk
  /\ disk' = Move(Tmp(Dest(u)), Dest(u))
  /\ UNCHANGED <<storeVars, data, req, n, fd, got, cancVars, uiVars, crashes>>

\* os.Rename fails, be it that tmp is gone: the code leaves tmp as it is.
RenameFails(u) ==
  /\ Goto(u, "rename", "fail")
  /\ UNCHANGED <<storeVars, fileVars, req, n, fd, got, cancVars, uiVars, crashes>>

EmitError(u) ==
  /\ Goto(u, "fail", "failed")
  /\ Emit("Error", Key(u))
  /\ UNCHANGED <<storeVars, fileVars, req, n, fd, got, cancVars, crashes>>

EmitDone(u) ==
  /\ Goto(u, "landed", "complete")
  /\ Emit("FileDone", Key(u))
  /\ UNCHANGED <<storeVars, fileVars, req, n, fd, got, cancVars, crashes>>

\* does not look whether the session is still in the store
CompleteBroken(u) ==
  LET s    == req[u].s
      now  == done[s] \cup {req[u].f}
  IN /\ Goto(u, "complete", "ok")
     /\ done' = [done EXCEPT ![s] = now]
     /\ live' = IF now = FilesOf[s] THEN live \ {s} ELSE live
     /\ UNCHANGED <<created, cancelled, fileVars, req, n, fd, got, cancVars, uiVars, crashes>>

\* sessionStore.complete, then the 200.
Complete(u) ==
  LET s    == req[u].s
      now  == done[s] \cup {req[u].f}
      last == now = FilesOf[s]
  IN /\ Goto(u, "complete", "ok")
     /\ IF s \in live
          THEN /\ done' = [done EXCEPT ![s] = now]
               /\ live' = IF last THEN live \ {s} ELSE live
               /\ cancelled' = IF last THEN cancelled \cup {s} ELSE cancelled
          ELSE UNCHANGED <<done, live, cancelled>>
     /\ UNCHANGED <<created, fileVars, req, n, fd, got, cancVars, uiVars, crashes>>

-----------------------------------------------------------------------------
(* /cancel: the entry goes under the lock, the context after it. *)

\* removes the entry and forgets the context
CancelDeleteBroken(c, s) ==
  /\ cpc[c] = "idle"
  /\ cpc' = [cpc EXCEPT ![c] = "emit"]
  /\ csid' = [csid EXCEPT ![c] = s]
  /\ live' = live \ {s}
  /\ UNCHANGED <<created, done, cancelled, fileVars, upVars, uiVars, crashes>>

CancelDelete(c, s) ==
  /\ cpc[c] = "idle"
  /\ cpc' = [cpc EXCEPT ![c] = IF s \in live THEN "ctx" ELSE "emit"]
  /\ csid' = [csid EXCEPT ![c] = s]
  /\ live' = live \ {s}
  /\ UNCHANGED <<created, done, cancelled, fileVars, upVars, uiVars, crashes>>

CancelContext(c) ==
  /\ cpc[c] = "ctx"
  /\ cpc' = [cpc EXCEPT ![c] = "emit"]
  /\ cancelled' = cancelled \cup {csid[c]}
  /\ UNCHANGED <<created, live, done, fileVars, upVars, csid, uiVars, crashes>>

EmitCancel(c) ==
  /\ cpc[c] = "emit"
  /\ cpc' = [cpc EXCEPT ![c] = "end"]
  /\ Emit("Cancel", [s |-> csid[c], f |-> Nil])
  /\ UNCHANGED <<storeVars, fileVars, upVars, csid, crashes>>

-----------------------------------------------------------------------------
(* BridgeServer hands the event to the TUI, whose applyTransfer files it. *)

Show ==
  /\ transfers # <<>>
  /\ rows' = Filed(rows, Head(transfers))
  /\ transfers' = Tail(transfers)
  /\ UNCHANGED <<storeVars, fileVars, upVars, cancVars, crashes>>

\* The process ends (quit, crash, power cut) and is started again: the folder
\* is what is left.
Crash ==
  /\ crashes < MaxCrashes
  /\ crashes' = crashes + 1
  /\ live' = {} /\ cancelled' = created
  /\ pc'  = [u \in Uploads |-> IF pc[u] \in Open \cup {"spin"} THEN "dead" ELSE pc[u]]
  /\ cpc' = [c \in Cancels |-> IF cpc[c] \in {"ctx", "emit"} THEN "dead" ELSE cpc[c]]
  /\ transfers' = <<>> /\ rows' = <<>>
  /\ UNCHANGED <<created, done, fileVars, req, n, fd, got, csid>>

\* Every request of the instance was served: nothing is left to do.
Quiescent ==
  /\ created = Sessions
  /\ \A u \in Uploads : pc[u] \in Finished \cup {"spin"}
  /\ \A c \in Cancels : cpc[c] \in {"end", "dead"}
  /\ transfers = <<>>
  /\ UNCHANGED vars

ServeUpload(u) ==
  \/ Lookup(u) \/ StatTaken(u) \/ StatFails(u) \/ StatFree(u) \/ Create(u)
  \/ EmitStart(u) \/ CheckContext(u) \/ RemoveTmp(u) \/ Rename(u) \/ RenameFails(u)
  \/ EmitError(u) \/ EmitDone(u) \/ Complete(u)

Body(u) == ReadChunk(u) \/ ReadEOF(u) \/ CopyFails(u)

ServeCancel(c) == CancelContext(c) \/ EmitCancel(c)

Next ==
  \/ \E s \in Sessions : CreateSession(s)
  \/ \E u \in Uploads, s \in Sessions, f \in Files, tok \in BOOLEAN : Arrive(u, s, f, tok)
  \/ \E u \in Uploads : ServeUpload(u) \/ CreateFails(u) \/ Body(u)
  \/ \E c \in Cancels, s \in Sessions : CancelDelete(c, s)
  \/ \E c \in Cancels : ServeCancel(c)
  \/ Show
  \/ Crash
  \/ Quiescent

Spec == Init /\ [][Next]_vars

\* The Go scheduler runs every runnable goroutine; nothing makes a peer send.
ServerFairness ==
  /\ \A u \in Uploads : WF_vars(ServeUpload(u))
  /\ \A c \in Cancels : WF_vars(ServeCancel(c))
  /\ WF_vars(Show)

\* A network on which every pending Read returns: data, EOF or an error.
NetworkFairness == \A u \in Uploads : WF_vars(Body(u))

FairSpec == Spec /\ ServerFairness
LiveSpec == FairSpec /\ NetworkFairness

-----------------------------------------------------------------------------
(* Properties *)

TypeOK ==
  /\ created \in SUBSET Sessions
  /\ live \in SUBSET Sessions
  /\ cancelled \in SUBSET Sessions
  /\ done \in [Sessions -> SUBSET Files]
  /\ DOMAIN disk \subseteq Path
  /\ \A p \in DOMAIN disk : disk[p] \in Writers
  /\ data \in [Writers -> [1..Chunks -> Writers \cup {Nil}]]
  /\ pc \in [Uploads -> {"idle", "spin"} \cup Open \cup Finished]
  /\ req \in [Uploads -> [s : Sessions \cup {Nil}, f : Files \cup {Nil}, tok : BOOLEAN]]
  /\ \A u \in Uploads : pc[u] # "idle" => req[u].s \in Sessions /\ req[u].f \in Files
  /\ n \in [Uploads -> Nat]
  /\ fd \in [Uploads -> Writers \cup {Nil}]
  /\ \A u \in Uploads : pc[u] \in HoldsFile => fd[u] \in Writers
  /\ got \in [Uploads -> 0..Chunks]
  /\ cpc \in [Cancels -> CPCs]
  /\ csid \in [Cancels -> Sessions \cup {Nil}]
  /\ \A c \in Cancels : cpc[c] \in {"ctx", "emit"} => csid[c] \in Sessions
  /\ transfers \in Seq(Event)
  /\ Len(transfers) <= TransferCap
  /\ DOMAIN rows \subseteq [s : Sessions, f : Files \cup {Nil}]
  /\ \A k \in DOMAIN rows : rows[k] \in RowStates
  /\ crashes \in 0..MaxCrashes

Whole(i, w)   == \A k \in 1..Chunks : data[i][k] = w
IsWhole(i)    == \E w \in Writers : Whole(i, w)

\* A session in the store is one that was created, whose context is alive and
\* that still waits for a file; one that left the store has its context
\* cancelled, or a /cancel handler is just about to.  (session.go: the map, the
\* done flags and the context are changed by three functions, and cancel does
\* it in two steps.)
StoreSound ==
  /\ \A s \in live : s \in created /\ s \notin cancelled /\ done[s] # FilesOf[s]
  /\ \A s \in created \ live :
       s \in cancelled \/ \E c \in Cancels : cpc[c] = "ctx" /\ csid[c] = s

\* A file under a name that does not end in ".part" is complete and comes from
\* one upload (or was there before): "partial transfers never masquerade as
\* complete" (writeFile), and neither do mixtures.  Also after a crash.
NoPartialMasquerade ==
  \A p \in DOMAIN disk : p.part = 0 => IsWhole(disk[p])

\* The names the folder shows to its owner, and the files behind them, stay
\* when later transfers arrive: what writeFile's "uniquely-named" and destPath's
\* "non-colliding" are for.  A name that ends in ".part" counts if a sender
\* gave its file that name.
GivenName(p) == p.part = 0 \/ \E f \in Files : NameOf[f].part = p.part
Held == {fd[u] : u \in {v \in Uploads : pc[v] \in HoldsFile}}
ReceivedFilesKept ==
  [][\A p \in DOMAIN disk :
        GivenName(p) /\ IsWhole(disk[p]) /\ disk[p] \notin Held
          => /\ p \in DOMAIN disk' /\ disk'[p] = disk[p]
             /\ data'[disk[p]] = data[disk[p]]]_vars

\* What the folder shows of an upload: its own inode, whole, under its name.
Delivered(u) ==
  /\ fd[u] # Nil
  /\ Dest(u) \in DOMAIN disk
  /\ disk[Dest(u)] = fd[u]
  /\ Whole(fd[u], u)

StatusOf(u) == CASE pc[u] = "idle"                  -> "none"
                 [] pc[u] \in Open \cup {"spin"}    -> "open"
                 [] pc[u] = "ok"                    -> "ok"
                 [] pc[u] \in {"forbidden", "failed"} -> "refused"
                 [] pc[u] = "dead"                  -> "lost"

Promise == INSTANCE Inbox WITH inbox  <- {u \in Uploads : Delivered(u)},
                               status <- [u \in Uploads |-> StatusOf(u)]

\* The folder keeps the promise of Inbox: a file arrives whole in one step and
\* stays, also over a crash; 200 is answered only when it is there, an error
\* only when it is not.
InboxPromise == Promise!Spec

\* As long as the process lives a ".part" entry is there for a reason: it was
\* there when the program started, a handler is writing it, or it is the whole
\* file of an upload whose rename failed, which the code does not clean up.  No
\* cut-off copy stays behind.
NoOrphanPart ==
  crashes = 0 =>
    \A p \in DOMAIN disk : p.part > 0 /\ p \notin Existing =>
      \E u \in Uploads :
        /\ \/ pc[u] \in HoldsFile
           \/ pc[u] \in {"fail", "failed"} /\ Whole(disk[p], u)
        /\ Tmp(Dest(u)) = p

\* When everything was served the row the TUI shows for a file says what
\* became of it, though the events went through a channel that handlers of
\* several sessions, and /cancel, share.
Row(key) == IF key \in DOMAIN rows THEN rows[key] ELSE Nil
Quiet == transfers = <<>> /\ \A u \in Uploads : pc[u] \in {"idle", "spin"} \cup Finished
RowsTellOutcome ==
  Quiet /\ crashes = 0 =>
    \A u \in Uploads :
      /\ pc[u] = "ok"     => Row(Key(u)) = "done"
      /\ pc[u] = "failed" => Row(Key(u)) = "error"

\* A session that left the store stays out and its done flags are final: a
\* late complete or a second cancel changes nothing.
RemovedStaysRemoved ==
  [][\A s \in created \ live : s \notin live' /\ done'[s] = done[s]]_vars

\* An upload whose session's context is cancelled before it asks for its next
\* chunk is never answered 200 and never gets its final name, however far the
\* copy was and whatever else happens ("aborts in-flight writes", session.go).
CancelledNeverLands ==
  \A u \in Uploads :
    [](/\ pc[u] \in {"lookup", "stat", "create", "start", "check"}
       /\ req[u].s \in cancelled
       => [](pc[u] \notin {"rename", "landed", "complete", "ok"}))

\* Every upload is answered, dies with the process, or looks for a free name for
\* ever because os.Stat keeps failing (uniqueAt): neither the shared event
\* channel nor a cancel ever holds a handler for good.
UploadsEnd == \A u \in Uploads : pc[u] \in Open ~> pc[u] \in Finished \cup {"spin"}

=============================================================================
