# A formal model of omarchy-send

omarchy-send sends files and messages between machines of a local network or a
tailnet with the LocalSend protocol. Each machine runs one program that is
receiver (an HTTP server), sender (an HTTP client), discovery and terminal user
interface (TUI) at once, as goroutines that share a few maps under mutexes and
talk through buffered channels. This directory holds TLA+ modules of the parts
where those goroutines, the network, the file system and the user meet; TLC
configurations that check them on small instances; and proofs, checked by TLAPS,
that hold for instances of any size.

## The system

| component | state | operations | hard behaviour |
|---|---|---|---|
| session store `internal/server/session.go` | map of sessions; per file a token and a done flag; per session a context | `create`, `lookup`, `cancel`, `complete` | `cancel` in two steps; a looked-up session is used after it is removed |
| upload and cancel handlers `internal/server/server.go` | open file, candidate name, bytes read | `handleUpload`, `writeFile`, `destPath`/`uniqueAt`, `progressReader.Read`, `handleCancel` | one goroutine per request; check-then-create of names; crash between create and rename; blocking sends of events |
| receive folder | directory entries, contents | create, write, rename, remove | survives the process |
| admission `handlePrepareUpload`, `askAccept` | PIN, auto-accept, accept and message channels, one reply channel per request | PIN gate, message shortcut, prompt, two timeouts | the user answers late, never, or for another request; settings change underneath |
| bridges `internal/app` | the item being handed over | `BridgeServer`, `BridgeTransfers`, `BridgeDiscovery` | one goroutine serves three channels and waits for the TUI |
| TUI `internal/tui` | screen, pending request, rows, peers, messages, received files and marks, settings form, PIN prompt, finder, remove dialog | `Update` and its key handlers | messages arrive between two keys; modal screens; auto-quit |
| sender `internal/client` | map of running sends per peer, event channel | `Send`, `SendFilesSync`, `SendMessage`, supersede, batch loop | a new send cancels the old one; partial failure; events dropped |
| discovery `internal/discovery` | peer table with last-seen times | announce, listen, probe, register, expire | several sources for one peer; events sent after the unlock, overtaken, or dropped when the channel is full |
| configuration `internal/config` | settings file and its temporary one, TLS identity | `Load`, `Save` | every start saves; a save cut off at any point; several processes save at once |
| commands `cmd/omarchy-send` | the running parts, the known hosts | controller, headless send, quick send | a quick send has no server; a headless send must find its peer and tell the truth by its exit code |
| proxy detection `internal/tsproxy`, `internal/tailscale` | cached probe | `ProxyFunc`, `PeerIPs` | stale cache |
| protocol, events, certificates, clipboard, notifications, theme, log, file-manager extension, installer | none, or outside the program | | |

How they interact: a peer's `prepare-upload` passes admission, which may put a
request on `Server.accepts`; `BridgeServer` hands it to the TUI, whose answer
travels back on the request's reply channel; a yes creates a session. The peer
then uploads each file with the session's token; the handlers write the folder
and send events on `Server.transfers`, which the same bridge hands to the TUI's
rows. `/cancel` removes a session under the uploads' feet. The sender mirrors
this: one prepare-upload, then one upload after the other, its events on a
channel of its own that drops when it is full. Discovery tells the TUI's device
list, or a headless send that waits for its peer, about the table of peers over
a third channel. The settings are one value that `Load` reads, `main` hands to
the parts, and the TUI changes in its own copy, in the file and in the parts.

What makes the parts correct: the store never holds a session that is over;
a file appears in the folder whole or not at all, stays, and the sender is told
the truth about it; nothing is written without the user's consent; everything
that waits is released; what the screen or an exit code says agrees with what
happened; settings survive and are in force; only what the user saw is deleted.

## Modules

| module | models | checked by |
|---|---|---|
| `Inbox` | what the receive folder promises about uploads: arrive whole, stay, answer truthfully | refined by `Uploads` |
| `Uploads` | session store, upload and cancel handlers, folder, transfer channel, rows | `MCUploads*.cfg` |
| `UploadsProofs` | theorems about `Uploads` | TLAPS |
| `Admission` | prepare-upload, accept prompt, messages, bridge, settings | `MCAdmission.cfg` |
| `AdmissionProofs` | theorems about `Admission` | TLAPS |
| `Sender` | batches that supersede each other, the upload loop and its abort rules | `MCSender.cfg` |
| `SenderProofs` | theorems about `Sender` | TLAPS |
| `Tui` | screens, cards and the keys that reach them, the remembered send and its PIN retry, quick send | `MCTui*.cfg` |
| `TuiProofs` | theorems about `Tui` | TLAPS |
| `Rows` | the TUI's rows of transfers as a function of the events | used by `Uploads` and `Tui` |
| `Transfer` | a headless send against a receiver that restarts, over a network that loses answers | `MCTransfer.cfg` |
| `TransferProofs` | theorems about `Transfer` | TLAPS |
| `Discovery` | the table of peers, its sources, the reaper, the event channel, the device list and `FindPeer` | `MCDiscovery.cfg` |
| `DiscoveryProofs` | theorems about `Discovery` | TLAPS |
| `Settings` | config.json, programs that start, change it, save it and end, and the services that go by it | `MCSettings.cfg` |
| `SettingsProofs` | theorems about `Settings` | TLAPS |
| `Manage` | the list of received files, its marks and deletions, the changing folder | `MCManage.cfg` |
| `ManageProofs` | theorems about `Manage` | TLAPS |
| `MCUploads`, `MCAdmission`, `MCSender`, `MCTui`, `MCTransfer`, `MCDiscovery`, `MCSettings`, `MCManage` | the instances | |

### Uploads

Each `POST /upload` and each `POST /cancel` is a process with a program counter
(`pc[u]`, `cpc[c]`). A step is what the code does under `sessionStore.mu`, in one
system call, or in one channel operation:

    lookup -> stat* -> create -> start -> (check -> reading)* -> rename -> landed -> complete -> ok
                                               \-> cleanup -> fail -> failed

`stat` is one `os.Stat` of `uniqueAt`; `create` is `os.Create(dest + ".part")`;
`check` and `reading` are the two halves of `progressReader.Read`, so that a
cancel fits between them; `cleanup` is `os.Remove(tmp)`. `CancelDelete` and
`CancelContext` are the two halves of `sessionStore.cancel`.

The folder maps paths to inodes and inodes to contents, because the code's
hazards need the difference: an upload writes the inode it opened, whatever name
that inode has by then. A path, or an announced name, is a stem, counters and a
number of `.part` suffixes: "x (2) (1).part" has the counters 2 and 1. `Cand` are the
names `uniqueAt` goes through for an announced one, so a peer can announce the very
name it picks for another file. An inode's contents are, per chunk, who wrote it last; a file
is whole when all chunks come from one writer. `Existing` paths are there when
the program starts. `Crash` ends the process at any step: handlers, store,
channels and rows are gone, the folder stays, and the restarted program goes on
with it.

`StatFails` is an `os.Stat` that fails with another error than "does not exist".
`uniqueAt` takes that for a taken name: a passing error makes it skip a name
(`MaxSkips` bounds how often), one that stays (a name over 255 bytes, a folder that may
not be searched) makes it count for ever. That handler is in `spin`, holds nothing and
is never answered.

Abstracted: names are stems without extension or sub-directory (`destPath`'s
cleaning is a pure function), and no peer announces a name that ends in `.part`
twice; the last chunk may come with EOF or before it; `MkdirAll`, `os.Create`, the copy and the rename
may fail at any time (`CreateFails`, `CopyFails`, `RenameFails`); `os.Remove`
always succeeds; progress events are left out, since they are sent with a
default and change no row's state; `SetReceiveDir` is left out; an id or token is
a name nobody can guess, so a right token needs a created session.

Two constants name assumptions about peers. `NameOverlap = FALSE`: uploads whose names
may lead to one path (`MayMeet`: the same name, or `x` and `x (1)`) are not open at
the same time; `uploads_overlap` shows what happens without it. `TokenReuse = FALSE`: a
token is presented once. Only the live run
needs it, for a row belongs to a session and a file: `lookup` ignores the done
flag, so while its session waits for another file a token works twice and the
file lands a second time. A third assumption is in the names of the instance: none
ends in `.part` (`PlainNames` of the proofs). `uniqueAt` looks at the final name
only, so a received `x.part` is cut to nothing when an `x` arrives later.

### Inbox

`Inbox` knows nothing of paths, tokens, sessions or events. It has the set of
uploads whose whole file is in the folder and the status of each request.
`Promise` in `Uploads` instantiates it: an upload is in the inbox when the inode
it wrote is whole and has its final name. An upload that is confirmed without its
file or refused with it, a file that appears before it is whole, and one that
disappears would be steps `Inbox` does not have.

### Admission

Each `prepare-upload` is a process; `hpc[r]` ends in the answer given. The user
(`Answer`), the settings screen (`SetPIN`, `SetAutoAccept`) and the clocks
(`EnqueueTimeout` after 2 s, `ReplyTimeout` after 60 s) act at any moment.
`BridgeServer` holds one item (`bridge`) while the TUI is busy. `prompted` and
`decided` are history variables: whom the user saw, and the key pressed while it
was on the screen.

Abstracted: what a message says, who sends it, what the prompt shows. `select`
with several ready channels is a choice.

### Sender

Each batch is a process that runs `Sender.send`: it takes charge of its peer in
`Sender.active` and ends the context of the batch that had it (`Start`, one
critical section), expands its paths, asks the peer, and uploads file after
file. `ended` holds the sends whose context is cancelled, by a newer send, by
their own failure or by their end. Wherever the code looks at the context the
model does (`Ask`, `Take`/`Skip`, `Push`, `Fate`), and a newer `Start` may fall
between any two steps. A request on a context that is over does not go out, and
one that is out returns (`AskAborts`, `UploadAborts`), as net/http does.

`owed` is the set of files whose fate the send must report: those found by
`expand`, then those the peer gave a token for; none after a PIN signal, which
stands for the whole batch. `report` keeps what the final event of each file
says. The event channel itself is left out: `emit` has a default and so never
steers the send; that it may drop a final event is a hazard of the rows. Paths
that cannot be read only shrink the batch.

### Tui

Bubble Tea calls `Update` with one message at a time, so each action is the
handling of one message. `cards` is the set of flags that put a card over the
screen: five that the user raises with a key, and two that
arrive by themselves, the accept prompt and the PIN prompt. `KeyOrder` is the order
in which `Update` asks for them, `ViewOrder` that of `View`; `Receiver` and `Shown`
are whose handler the next key goes to and what is on the screen. Every key action
is guarded by `Receiver`.

`calls` lists the sends given to the controller and how far each is, as far as
its events show: asking, pushing one file after the other, over. What the peer
makes of them is any; `Sender` has the details. `sendPeer`, `sendPaths` and
`pendingMsg` are what is kept for a PIN retry. `asked` is a history variable: the
call whose refusal opened the PIN card.

`quickSend`, `quitAfterSend` and `quitPending` are the window that a file manager
opens: it starts with staged files and without a receiver (so no `Incoming`), and
a tick of 1.2 s closes it when all rows are done. The tick may fire at any moment
after it was set, and any event of a file may be dropped (`Dropped`), as `emit` does
when its channel is full. The code looks at rows only, so the window may close while a
send still waits for its peer, or was just answered, between two files of a
batch, and on a file whose `Start` was dropped until its first progress arrives.
`ClosesWhenDone` therefore speaks of the files the window was told of (`seen`):
it does not close on one of those, whatever was cleared, dropped or ticking.

Abstracted: which devices are listed (`Discovery`), what is typed, which message is
read, what the settings form (`Settings`) and the list of received files (`Manage`)
contain, and the finder's index; typing, moving and toggling within a screen
therefore are no actions. Progress events file a row when the `Start` was dropped and
change no state of a row otherwise. The rows of
incoming transfers are in `Uploads`.

### Transfer

`runHeadlessSend` once it has its peer: `SendFilesSync`, then `SendMessageSync`. Each
command is a process (`at[c]`); its prepare-upload and each of its uploads have a
handler of their own in the receiver (`ask[c]`, `put[c][f]`), so a command that gave
up leaves its handler running, and a handler's answer may find nobody
(`BreaksOff`: no connection, a broken one, no answer after 30 s). `Grant` may
come after that, since the receiver's user has 60 s. `Restart` ends the
receiver: handlers and sessions are gone, the folder stays.

The handlers are those of `Admission` and `Uploads` in few steps: who is asked,
which name a file gets and how its bytes arrive are there. `wanted[c]` are the files
the receiver gave tokens for: this program wants them all, others of the protocol may
want fewer, or none (204), which `SendFilesSync` calls success. So exit code 0
says that what was wanted was sent, not that all that was found was. `shared` are the
files of which two uploads were open at once. In `Uploads` such two may choose one
path, so here `Store` and `StoreFails` may spoil any of them, and the promise that a
sent file is whole in the folder leaves them out. Names that may lead to one path
are one element of `Files`, none ends in `.part`, and a command's files have
different names. A command is the name of its session. `heard` are the commands whose
message the handler took; that a full message channel then drops it is in `Admission`.

### Discovery

The table (`table`) changes under `Discoverer.mu` in `Note`, by the listener, by
handlers of `/register` and by probes of known hosts, and in `Reap`, which evicts all
old entries at once. What a goroutine has to send after the unlock is in `held[g]`, and
`Emit` sends it, or loses it when the channel is full. Time is an entry that becomes
`old`. A program with a TUI has `BridgeDiscovery` (`Deliver`) as the reader; a headless
one has `FindPeer`, which looks at the table (`Look`) and then waits for events (`Take`).

`fate` is a history variable: where the newest event of a peer is. The list cannot
follow the table when that event was dropped or was overtaken by an older one, and
since `NotePeer` sends nothing for what it knows, nothing makes up for it: the list
is wrong until the peer changes or is evicted. `ListTellsTable` says that this is
the only way to be wrong. With loopback addresses the overtaking needs no second
device: a register seen from 127.0.0.1 and an announcement race for the first entry.

Abstracted: what a device says of itself beyond its alias. Its port is kept in the
table but not compared, so a new port alone never reaches the list.

### Settings

Programs (`Progs`) share one config.json. A program loads it (`LoadOK`, with a new
identity if there is none), always saves it, and then lays the flags over it and
starts its services (`Ready`); the TUI changes its copy (`cfg`), its
switches (`shown`), the services (`live`, `probed`) and saves. A save is `OpenTmp`
(create or truncate), `WriteTmp`, `Rename`, and may fail or be cut off by the end of
the program between any two. Files are inodes under two names, because a program
writes the inode it opened. `mode` tells the TUI with a server from a quick send, in
which `SetAlias` panics (`ApplyPanics`), and from a headless send, which saves only
when it starts. `saved`, `met` and `made` are history variables.

`Calm` is the one assumption, made by `Overlap = FALSE`: no two programs load or
save at the same moment. They may run at the same time, and change and save in turn.
Without it two programs write the same `config.json.tmp`, the rename of one
publishes the half of the other, and no program starts any more; two first starts
at once give the device two identities. `SettingsAssumption` has a finite number of
programs, for a save needs an inode nobody holds. A file that is there from the
start (`Before`) is torn or has no identity: files with one are those that an
earlier start of the model left.

Abstracted: alias, receive directory and PIN are one value (`form`); the icons, the
port and the device type only travel with the rest. `hush` in `Ready` is the flag
`-no-notify`.

### Manage

A path is a folder and a name; each file that lands has a number, so that
a file can be told from the one that had its name before. `list` is what the tab
last read, `disk` what is there. The server adds files to any folder that was the
receive folder once (an upload keeps the path it began with), other programs remove
some (`Foreign`), and the Settings tab changes `dir`. `DoDelete` is the whole handler:
its guard on the folder, the removals that fail in part (`stuck`), and the new list.

Abstracted: folders that are being received, sizes, dates and the order of the
list. The list widget's filter hides rows; `a` marks the hidden ones too.

## Runs

| run | result | shows |
|---|---|---|
| `uploads` | passes | sessions of two files and of one, named `x`, `y` and `x (1)`, two uploads, one cancel, one crash, one failed stat, a leftover `x` and a leftover `x (1).part`: type, store, folder and the refinement of `Inbox` |
| `uploads_live` | passes | every upload ends unless `os.Stat` keeps failing, a cancelled one never lands, rows tell the outcome |
| `uploads_overlap` | violates `NoPartialMasquerade` | `x` and `x (1)`, or `x` twice, with an `x` in the folder: two uploads share destination and temporary file |
| `admission` | passes | consent, prompts, messages and answers for two requests |
| `sender` | passes | two batches of two files, one peer or two: supersession, abort rules, reports |
| `tui` | passes | consent is given to what is seen, the PIN retry repeats the refused send as long as nothing came after it, a quick send's window closes once all rows are done and never on a file it saw start |
| `tui_modal` | violates `KeysGoToCardShown` | a prompt that arrives over an open card is shown, the keys go to the card below |
| `tui_pin` | violates `RetryResendsRefused` | the PIN card retries the last send, not the refused one |
| `transfer` | passes | exit code 0 and "sent" are true of a receiver that may want fewer files, and only a failed command leaves a session behind |
| `discovery` | passes | list and `FindPeer` go by the table but for lost or overtaken events; devices that stay away are forgotten |
| `settings` | passes | config.json survives every cut, one identity, what is shown is in force |
| `manage` | passes | only listed files of the present folder are deleted |

Bounds. Two uploads are enough for every pairwise interference (names that meet, same
session, same token, one cancelled while the other goes on), one cancel for both
orders against `complete`, one crash for a restart with the leftovers of either
upload; two chunks make a file that can be half written; a channel of capacity
one is full whenever anything is in it, which makes every send block. The
leftovers make `uniqueAt` count to two and let an upload open an inode that is
already there. One skipped name (`MaxSkips`) is a counter ahead of the folder. The live run has
two sessions of two files, one chunk, an empty folder, no crash and no skip. `uploads`
uses the symmetry of upload handlers; its properties do not tell them apart and
none of them is a liveness property.
In `admission` both channels have capacity one and two requests fill one and
wait for it. With three requests the safety part is the same and liveness takes
TLC too long.

Two batches are enough in `sender` for a newer one to meet an older one at every
step, its deferred clean-up included; a second file is the rest of the batch
that must stop; a second peer lets the two leave each other alone.

Three calls in `tui` are a send, another one meanwhile, and the retry of either;
two devices tell the right one from the wrong one. Rows
decide something in the window of a quick send only: there states with more than
two are checked but not followed, elsewhere those with any (`FewRows`); two are
one that is done and one that is not. Devices are symmetric, and no property is a liveness property.

Two commands in `transfer` meet in the receiver's store and on a file name; two files are one
that arrived and the rest that is lost, skipped or late. Two restarts let one hit
the request and another its upload. Two peers in `discovery` are one that is
wanted and one that fills the channel; a listener, a handler and a probe are three
that can be between unlock and send at once, the reaper a fourth. Two changes of
the table are a first entry and one that overtakes it (`MaxChanges`).
Two programs and three starts in `settings` are a first start that fails, a second
one and another beside it; two keys are a change in each of two windows, or two
in one. Two folders of two names in `manage` let marks cross folders; five
files let names be taken again. `transfer` uses the symmetry of commands and of files,
`settings` that of programs, and neither has a liveness property; `discovery` has one
and no symmetry.

`CHECK_DEADLOCK` is off in `settings`, where all programs may be over and the
bound on starts used up; it stays on everywhere else. `Uploads`, `Sender`, `Tui` and
`Transfer` have a step (`Quiescent`, `AllSent`, `Closed`, `Finished`) for the states in
which everything was served or the window is closed, so that TLC reports any other
state in which nothing can move. In `Admission` the settings may always change, in `Discovery` devices come and
go and in `Manage` the user moves between tabs, so there
the absence of deadlock says little; liveness properties take its place in the first two.

Fairness. `ServerFairness` is weak fairness of each handler's own steps and of
the bridge: the Go scheduler runs runnable goroutines, and a blocked channel send
is enabled once there is room (the bridge takes from the channel again and
again; each handler sends at most twice). `NetworkFairness` adds that a
pending `Read` returns; the code has no read deadline, so this is an assumption
about peers and not about the program, and `UploadsEnd` needs it. `UploadsEnd` lets a
handler end in `spin`, for there the code has no way out. Nothing makes
a peer connect, a client cancel or a user answer. In `Admission` the timers fire,
so a waiting handler moves without the user. In `Sender` only the goroutine's own
steps are fair, and a call whose context is over returns: `SupersededEnds`
needs nothing of the peer. In `Discovery` the ticker ticks, goroutines send what they
hold and the bridge runs; an entry becomes old only if its device stays away.
Nothing makes a device be seen.

## Proofs

Every safety property that a run checks, action properties and the refinement of
`Inbox` included, is a theorem for every value of the constants that satisfy
the module's assumption. A theorem that needs more says so in its hypotheses:

| hypothesis | needed by | what happens without it |
|---|---|---|
| `PlainNames`: no announced name ends in `.part` | `PartialsStayHidden`, `FolderOnlyGrows`, `NoOrphans`, `InboxKeepsItsPromise` | an `x` cuts a received `x.part` to nothing |
| `~NameOverlap`: no two open uploads whose names `MayMeet`, as `x` and `x` or `x (1)` do | the same | run `uploads_overlap` |
| `~TokenReuse` | `RowsTellTheTruth` | a token that works twice gives one row two uploads |
| no file id is empty (`Nil \notin Files`) | `RowsTellTheTruth` | the event of `/cancel`, which has no file id, would fall on a file's row |
| `~Overlap` | `EditsAreKept`, `OneIdentityForGood` | two saves rename each other's half-written file |

All proofs have one shape: an invariant that is inductive, shown action by action,
which implies the property or, for an action property, what the step needs. What
the invariants add to the properties is what follows.

`UploadsProofs`:

* `TypeCorrect`: the type invariant is inductive.
* `StoreIsSound`, `RemovedForGood`: `StoreInv` adds to `StoreSound` that only
  created sessions have done flags or a context that ended, and that a `/cancel`
  between its two steps holds a session that left the store.
* `PartialsStayHidden`, `FolderOnlyGrows`: `FolderInv` says
  that an inode has one name, an upload with an open file owns the inode behind
  its `.part` name and wrote every chunk it read, the final name it chose is
  free, a handler that has not created its file has no inode, and open uploads
  have names that may not meet. `NamesApart` is the lemma about them: two such names
  have no candidate in common, at any counters. Without it `NoPartialMasquerade` is not inductive: a
  rename would be free to move a half-written inode.
* `CancelledForGood`: `Doomed` names the places an upload can be at once its
  session is cancelled before its next read; the rename is not among them.
* `NoOrphans`: the handler that answers for a `.part` entry (`AnswersFor`) is the one
  that has it open, or one that failed after it wrote every chunk.
* `InboxKeepsItsPromise`: `Promised` ties the answers to the folder (a confirmed upload
  is delivered, one that may still fail is not). `PromiseStep` maps each action:
  `Rename` is `Deliver`, the steps to an answer are those of `Inbox`, a crash is
  its crash, and whatever leaves delivered files and answers alone (`Steady`) stutters.
* `RowsTellTheTruth`: `Settled` says of an upload that ended that its final event is
  the last of its key in the channel, or was filed and nothing of that key is
  queued. Two uploads that got past the lookup have different keys.

`SenderProofs`:

* `SenderTypeCorrect`, and with it `NewestInCharge`: `OneInCharge` is inductive
  together with the type invariant. `HaltedStaysHalted` needs no more than the guards.
* `EveryFileTold` and `OneFailure`, from `ReportInv`: before the peer answered
  nothing was pushed or told; each owed file is told, waiting, or at hand; no
  waiting file was pushed; and a pushed file that failed ended its batch.

`TuiProofs`:

* `TuiTypeCorrect`. That a retry or a message has a device to go to rests on
  `ReceiverIsOpen`: a key reaches a card only if the card is open.
* `RetryCorrect` (`RetryRepeats`), from `Remembers`: what is kept for a retry is the
  last send handed to the controller, except the text of a message that was
  already retried. `RetryRepeats` alone is not inductive: it says nothing of the
  steps between a refusal and the PIN.
* `AutoCloseCorrect` (`AutoCloseArmed`), inductive together with the type
  invariant.
* `CardsCorrect`: the prompt is the last card in `KeyOrder`, so when it gets the key
  no other is open and `ViewOrder` shows it too (`PromptIsShown`). A card is raised
  only from the screen, where none is open, which makes `OneRaised` inductive.
* `ClosesCorrect` (`ClosesWhenDone`), from `AllTold`: a file that is waited for, or
  under way unseen, has no row yet, and one under way that was seen an active one; no
  key and no event of another file takes an active row away. Nothing is assumed of
  when the tick fires.

`AdmissionProofs`, for any number of requests:

* `AdmissionTypeCorrect`, `AnswersHaveRoom` and `ConsentComesFirst` from one `Inv`: a
  request that was not taken yet is nowhere else (`BeforeQueue`), one in the accept
  channel is there once and neither held by the bridge nor shown (`Channels`), one
  held or on the screen is not answered (`Screen`), and a reply channel
  holds the key that was pressed (`Replies`).

`TransferProofs`, for any number of commands, files and restarts:

* `TransferTypeCorrect`, `CommandsTellTheTruth`, `SuccessLeavesNoSession` from one
  `Inv`, command by command (`Own`): before the answer nothing was pushed
  (`NotYet`); the files wanted are those to push, skipped, sent and the one under way
  (`Loop`); a file that was sent is stored, or was `shared`, and its handler answered or died with
  the receiver (`Stored`); a session lacks a flag and has that of each file
  answered 200 (`Open`), so the session of a command that sent everything is gone;
  and a message that was answered was taken (`Heard`).

`DiscoveryProofs`, for any number of peers, handlers and probes:

* `DiscoveryTypeCorrect`, `ListIsTold` and `NobodyIsMissed` from one `Inv`: whoever holds
  the newest event of a peer holds one that says what the table says (`HeldIsNew`);
  once it is sent the last event of that peer in the channel says it, and after
  that the list (`ListFollows`); and what `FindPeer` waits for is in the
  channel (`FinderFollows`).

`ManageProofs`, for any folders and files:

* `ManageTypeCorrect`, `CardNamesTheFolder`, `OnlySeenAreDeleted` from one `Inv`: while
  the tab is open the list is of the present folder, a listed file that other programs
  leave alone is the one that was seen (`ListAges`), and the targets of the card
  are listed (`TargetsHold`).

`SettingsProofs`, for any finite number of programs:

* `SettingsTypeCorrect`, whatever overlaps: `Counted` bounds the identities by the
  starts, so a new one is within its type, and `UnusedIsFree` finds an inode for a save.
* `ShownIsFollowed`, whatever overlaps: `Follows` says of each program what its
  services still lack of what it shows, by where it is or goes on after its save.
* `EditsAreKept`, `OneIdentityForGood`: in `Ordered` one program at a time loads
  or saves (`Alone`), its temporary file is not config.json and is torn until it is
  written (`SaveWhole`), and once a file has an identity all that loaded have
  the same (`OneIdentity`).

Left to TLC: liveness (`UploadsEnd`, `RequestsAnswered`, `PromptsShown`,
`SupersededEnds`, `GoneAgesOut`), which is out of reach of the provers here because
it rests on fairness and so on ENABLED. The violating runs refute what has no
proof: `NoPartialMasquerade` without its hypotheses, `KeysGoToCardShown`, and
`RetryResendsRefused` without the conditions of `RetryRepeats`.

## Plan

1. The safety halves of the liveness properties, where they say something of
   their own: what a waiting handler of `Admission` or a blocked one of `Uploads`
   waits for is on its way, so that no state without progress is reachable.
2. `Rows` and `Path` helpers as lemmas of their own, where two proofs repeat the argument.
3. Hazards without a property: a second transfer under a token that was used
   (`lookup` ignores the done flag), a window that closes over a send without a row.

## Not modelled

* The finder's index: `walkIndex` and the fuzzy ranking are pure functions of the
  folder and the query; the model would say little but that a walk is filed
  under its root.
* `tsproxy` and `tailscale`: a cached answer that chooses how connections are made,
  and more hosts to probe. To the models both are the network.
* `handleInfo`, announce and reply: they send the device's own description and change
  nothing here.
* The filters of the list widgets and the deletion of messages from the list.
* Certificates, clipboard, notifications, theme, log, installer, file-manager
  extension: no state, or state of other programs.
