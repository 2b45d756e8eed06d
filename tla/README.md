# autotun in TLA+

autotun connects to a host over SSH, watches which TCP services listen there,
and keeps a local tunnel to each of them. This directory models the parts of it
that decide things over time: which port gets a tunnel, over which connection,
on which local port; what a key press, a click or a request of the remote host
acts on; what is remembered and written to files other programs share; and how
everything is taken down and built up again when the link is lost or the user
quits. The models are checked with TLC on small instances; every safety property that
holds of them is also proved with TLAPS for every instance.

All paths below are relative to the root of the repository.

## 1. The system

| component | source | state | operations |
|---|---|---|---|
| tunnel manager | `internal/tunnel/manager.go` | entries by remote port, baseline, policy, dialer, all under one mutex | `Sync`, `SetDialer`, `SetPolicy`, `CycleMode`, `ForwardNow`, `SetScheme`, `CycleScheme`, `SetLabel`, `SetLocalPort`, `TryLocalPort`, `observeScheme`, `persist`, `Close` |
| port allocator | `internal/tunnel/alloc.go` | the local port last used per remote port (`sticky`) | `Allocate`, `Forget` |
| policy | `internal/tunnel/policy.go` | none (flags, plus `Paused`) | `Eval` |
| forwarder | `internal/tunnel/forward.go`, `scheme.go` | listener, connections, wait group, `sniffed` | accept loop, `handle`, `copyReply`, `stop`, `Close` |
| supervisor | `internal/app/app.go` | current client, backoff, attempt, retry channel, context | `run`, `wait`, `takeClient`, `retryNow`, `close` |
| SSH client | `internal/sshx/client.go` | wait and closed channels, reason | `Connect`, `watch`, `keepalive`, `ping`, `Run`, `Close` |
| monitor and prober | `internal/probe/` | command lines by process id, the framed stream | `Run`, `consume`, `build`, `resolve` |
| browser requests | `internal/app/browser.go` | none of its own | `Open`, `localize`, `await`, `free` |
| browser bridge | `internal/browser/bridge.go`, `shim.sh` | remote socket and shim, nonce, handlers | `Install`, `serve`, `handle`, `Close` |
| settings store | `internal/config/config.go` | hosts and ports, dirty flag, one YAML file | `Open`, `SetPort`, `SetViewPrefs`, `Save` |
| host keys | `internal/sshx/hostkey.go` | known_hosts | `HostKeyCallback`, `RecordedKeys`, `HostKeyAlgorithms`, `appendKnownHost` |
| terminal interface | `internal/ui/` | rows, cursor, window, layers, editor, toast, zones of the key bar | key, mouse, refresh, resize, status and timer handlers |
| rendering | `internal/ui/view.go`, `internal/app/render.go` | none | output |
| authentication, destinations, flags, self-update | `internal/sshx/auth.go`, `destination.go`, `prompt.go`, `internal/app/config.go`, `internal/selfupdate/` ... | none that outlives a call | input and output |

How they interact. The supervisor owns one SSH client at a time. Per connection
it tells the manager (`SetDialer`), installs the bridge, and runs the monitor,
whose consumer goroutine hands every scan to `Manager.Sync`. When the monitor
returns it closes the bridge (which waits for the requests being served), tells
the manager that the link is down, and closes the client. The interface calls
the manager's mutators from its single goroutine. Bridge handlers call
`ForwardNow` and `TryLocalPort` from goroutines of their own; a forwarder's
copier calls `observeScheme` from one. All of them meet in the manager's mutex.
The mutators of the interface remember a decision *after* they have released it.
Three files and one socket are shared with other programs, other autotuns among
them: the settings, known_hosts, the shim and the socket in the remote account.

What is hard here:

- the interleaving of those goroutines, and the decisions copied out of an entry
  later than they were made;
- local ports that other programs take and free at any time;
- outages that end one connection and begin another under the same entries, and
  a pause that must hold through all of that;
- the race between the shutdown and whatever the supervisor is doing;
- the drain of connections nobody counts on any more;
- streams and saves cut off anywhere;
- rows that come, go and change places between the moment the user looks and the
  moment the key arrives, and layers that keys and clicks look for in two orders;
- two sessions that install themselves over each other in one remote account.

`PROJECT.json` lists these hazards at their lines, with the properties that would
catch them.

What makes each component correct:

- manager: a tunnel exists exactly when mode, pause and policy ask for it; only
  over the live link; pauses, outages and scans keep their promises; nothing is
  remembered that the user did not decide.
- allocator: a reconnect restores local ports; a remap is never silent.
- forwarder: replies arrive intact, half-closes pass on, the drain ends and
  nothing outlives it, the manager never waits for it.
- supervisor and client: a lost link is noticed and replaced; no connection is
  left open at exit; quitting ends; the backoff follows the attempts.
- monitor: scans are delivered in order and whole; parser and session end
  together, and what they report has its cause; a process a scan names is asked
  for, and by one lookup at a time.
- bridge and browser requests: success means that the URL was opened; a request
  reaches the session it came from; nothing outlives `Close`, and `Close` returns.
- settings store: a save never truncates; only choices are saved.
- host keys: what is trusted is recorded; a host that keeps its key is reached
  again without a question.
- interface: a command acts on the row it was given for; the selection stays on
  its port and on screen; one question at a time.

## 2. The modules

| module | models | lines of code it stands for |
|---|---|---|
| `Policy` | `Policy.Eval`, `LoopbackOnly`, `DialAddr` | `policy.go`, `service.go` |
| `TunnelManager` | the manager, the allocator, the decisions kept in the settings store, the requests of the bridge | `manager.go`, `alloc.go`, parts of `config.go` and `app/browser.go` |
| `TunnelHistory` | history variables and promises about pauses, outages and scans | - |
| `TunnelMemory` | history variables and promises about remembered decisions | - |
| `Link` | the abstract promise about the SSH link | `SetDialer`, `Sync`, `Close` as seen by the manager |
| `Supervisor` | the reconnect loop, the client's goroutines, the network, the shutdown | `app.go`, `client.go` |
| `Forwarder` | one forwarder and its connections | `forward.go`, `scheme.go` |
| `ProbeMonitor` | one round of the monitor: the script, its framed output, the parser, the session, the lookups | `monitor.go`, `script.go`, `Client.Run` of `client.go` |
| `Browser` | installation, shim, accept loop, handlers, the router behind them, several sessions in one account | `bridge.go`, `shim.sh`, `app/browser.go` |
| `Rows` | which rows are shown, their order, the window over them | `ui/sort.go`, parts of `ui/model.go` |
| `Interface` | the event loop of the terminal interface | `ui/model.go`, `viewmenu.go`, parts of `view.go` |
| `AtomicFile` | the abstract promise about a file replaced as a whole | `Save` as seen by a reader |
| `Settings` | load, import, change and save, by several programs | `config.go` |
| `HostKeys` | policies, algorithms asked for, verdict, known_hosts | `hostkey.go` |
| `MCTunnelManager`, `MCTunnelHistory`, `MCTunnelMemory`, `MCProbeMonitor`, `MCInterface`, `MCFiles` | instances for TLC | - |
| `TunnelManagerProofs`, `TunnelPromisesProofs`, `SupervisorProofs`, `ForwarderProofs`, `ProbeMonitorProofs`, `BrowserProofs`, `InterfaceProofs`, `FilesProofs` | theorems (section 5) | - |

### TunnelManager

`entry[p]` is the record of `manager.go:129` without its display fields; `fwd`
is the forwarder reduced to its local port, its connection, the address it dials
and the remap flag. An error is represented by the local port in conflict (0 for
none), a local address by its port.

Granularity. A method of `Manager` runs under one mutex, so a method that
touches one entry is one step. `Sync`, `SetPolicy` and `SetDialer` visit many
entries and ask the operating system for a port at each of them, while other
programs bind and free ports; they are a sequence of steps that hold the mutex
(`job`): `SyncStart`, one `SyncPort` per service found (in any order, as Go
ranges over a map), `SyncSweep`; and `ApplyNext` in port order. `Apply` is
`applyLocked`, with the whole of `Allocate` inside it; what other programs do
between two attempts of one `Allocate` is not told apart from what they do
before it. `persist` copies the decision under the mutex and stores it without:
`CopyDecision`, `StoreDecision` (`ui`); the interface has one goroutine, so one
at a time. A request of the bridge to move a tunnel probes the local port first
and moves later: `ProbeLocalPort`, `TryLocalPort`, `TryUnlisted` (`moving`).

The environment is as permissive as the program allows: scans are arbitrary
(from `Snaps`), local ports in `Volatile` come and go, the link goes down and up
between any two steps that do not hold the mutex. What it takes for granted -
one connection at a time, scans only over the one in use, `Close` last - is
the module `Link`, and `Supervisor` is shown to keep it.

`TunnelHistory` and `TunnelMemory` watch the manager with variables that read
its steps and never restrict them: `current` (the tunnels a pause must keep),
`held` (the local port an outage took a tunnel from, until the tunnel is back or
somebody moves it), `recent` (what the last `Grace` scans found), and `chosen`
and `latest` (what the user decided).

### Link and Supervisor

`Link` says in four actions what the manager relies on. `Supervisor` is the
program that has to keep it: `pc` walks through the loop of `run`
(`app.go:320-396`), one step per call that another goroutine can see. Beside it
run `Watch` and the keepalive of each client (`Ping`, `Answered`, `Unanswered`,
`StopPinging`), the monitor's callbacks (`Ready`, `Scan`, `ProberExits`), the
network (`Network`: a connection turns silent or is torn down) and the main
goroutine (`RetryNow`, `Quit`, `CloseClient`, `Join`, `CloseManager`).
`Client.Close` and `watch` both want to close the Wait channel; `Closes` has
both outcomes. On a silent link nothing that waits for the remote side returns,
whatever the context says, until the client is torn down: that is why `Install`
and `ProbeEnds` look at `net`. The refinement is `Promise`, the instance of
`Link` in which a connection counts as handed over after `SetDialer`.

A Connect that ends takes one step, as it is bounded by its timeouts. The
shutdown of the bridge is one step too; that it ends is `CloseReturns` of
`Browser`, under the fairness stated there.

### Forwarder

One forwarder, its accept loop, and for each local connection a record of what
the client and the service have done and how far the two copiers are. A reply
is a sequence of pieces, each what one read returns; what the client heard
(`heard`), what the copier looks at (`held`) and what waits (`pipe`) are kept
apart so that an intact reply is something that can go wrong. `wg` is the wait
group, counted where the code counts. `mu` is the manager's mutex as far as this
forwarder is concerned: `Tell` needs it, and `Lock`, `Stop`, `Unlock` are
`closeLocked`. Connections the kernel queued and nobody accepted do not appear,
and a connection that is over is forgotten.

### ProbeMonitor

One `NewMonitor` and its `Run`. The script writes whole frames into `out`, which
stands for everything between the remote shell and the parser; a connection that
is torn down, a session that is closed and a script that dies leave any prefix
of it (`Cuts`). The parser reads it line by line (`ReadReady`, `ReadScan`,
`ReadText`, `ReadSockMap`, `ReadEnd`, `ReadError`, `ReadEOF`) and looks at its
context after each line (`GoOn`). `ReadGarbled` stands for what the parser gives
up on: a mode it does not know, a line longer than its buffer. `runner` is `Client.Run` with the three cases
of its `select` (`Closing`/`Closed`, `Lost`, `Ends`). The parser and the runner
stop each other through `RunCancelled` and the end of the pipe. A lookup is the
set of processes it asks for; it is answered for any part of them, or fails, and
outlives the round. `section` stands for `inScan` and `inSockMap`. What a listing
says is a pair of the ports in use and those whose owner it names; a process is
identified with its port. `ss`, `lsof` and `netstat` differ only in text, so
`ss` stands for the three; `/proc` has a section of its own. `finished` is a
history variable: the scans the script completed; so is `omitted`: the processes
an answered lookup said nothing about, which keep their marks. Output of a login shell
before the first marker, which the parser skips, and markers the script never
writes are left out. A tool that fails silently in the middle of a listing gives
a short scan with both its marks; the model takes it for a listing, as the code
does, and the manager's grace period is what absorbs it.

### Browser

A *bridge* is one installation: one connection of one session, and the nonce
made for it. `shim` says whose script is in the remote account, `socket` where
the path of the socket leads, so that sessions that install themselves over each
other do what they do in the code: `PrepareRemote` removes the socket whoever has
it, `ListenUnix` makes a new one, `WriteShim` replaces the script, one remote
command each, and anything may happen in between. When a listener goes its path
may stay behind and lead nowhere (`Abandoned`). A *call* is one run of the shim:
`RunShim` reads the nonce in the script that is there by now, `Dial` connects to
whoever has the socket by then; `Intrude` is another program at the socket. The
handler is a record of its own with one step per call into the router: `Parse`,
`Look`, `ForwardNow`, `StayPut`, `TryLocalPort`, `Relook`, `Open`, and between
them `Poll` and `Expire` (`await` and the timeout). The manager behind a bridge is
the row of one port: its mode, and whether it shows a tunnel at its own number
or at another, a failed attempt, or that it is skipped. `Attempts` is what
`applyLocked` makes of a row that is to be forwarded, which may be a failure as
the local ports belong to other programs too: `ForwardNow` then answers with an
error and leaves the port switched on for later scans (`Requested`), and
`TryLocalPort`, which gives up the tunnel before it asks for the other port, may
end without one (`Moved`). The row changes
at any of these moments (`Changes`): what a handler has read is stale when it
acts. Several connections of one bridge are told apart by the call.

### Rows and Interface

A *row* is what a refresh copies from the manager. `Listed` and `Sorted` are the
filter and the order of `sort.go`; `Window` is `clampCursor`, which keeps the cursor a
row and the row on screen; the cursor counts from 1 and 0 highlights nothing
(-1 in the code). Every command of `model.go` is an operator (`Cycle`,
`OpenRow`, `Chosen`, `Apply`, ...) whether a key or a click asks for it, and ends
with the refresh the code ends it with: `Reload` takes *any* snapshot of `Snaps`,
since the manager changes between any two refreshes, and puts the cursor back on
the port it was on. `KeyLayer` is the order in which `handleKey` looks for the
layer a key goes to, `MouseLayer` that of `handleMouse`; they differ, as in the
code. The clickable parts are the code's: `Columns` from the widths of the
columns, `Drawn` for the key bar, whose zones stay what they were while an
editor or a toast covers it (`Draw`). A toast has its timer and those of the
toasts it replaced (`bell`). `told` and `asked` are history variables: the port
the last step took an answer to, and the port it was asked about.

### Settings and AtomicFile

Each program has its copy (`store`), its dirty flag and its temporary file;
`Open` loads or imports the file of an earlier version, `SetViewPrefs` and
`SetPort` change the copy, and `Save`, `Write`, `Rename` are the steps of `Save`,
each of which may fail; `Crash` kills the program between any two. One host and
one port stand for all: what matters is that the whole file is replaced. In
`AtomicFile` the file changes in one step from one whole document to one that
was offered. The refinement maps what a program is about to write to its offer.

### HostKeys

A key is a type and a version. The verification is built from known_hosts before
the host is dialed (`HostKeyCallback`), the algorithms to ask for are chosen from
a later reading (`RecordedKeys`), each of which may fail: without a verification
there is no connection, without recorded keys the library's order is used. The host may be rebuilt or the file emptied
(`Rekey`, `Forget`) between any two steps. `Negotiated` is the first algorithm of
the client's list that the host can serve, which is how SSH decides; `Verdict` is
the policy. A reconnect has no terminal to ask on (`Lose`).

`MCFiles` runs `Settings` and `HostKeys` side by side; they share nothing, so a
behaviour is about one of them.

## 3. The runs

Eight runs pass and four end with the violation of something the repository says
of itself.

| run | instance | properties |
|---|---|---|
| `operations` | `TunnelMemory`: one service, all operations but the bridge's moves, two connections, its local port free or taken, one pinned port, grace 1; 3.0 million states | `TunnelsUseTheLiveLink`, `EveryEntrySettled`, `ExemptionsEndWithThePause`: after any sequence of operations a tunnel exists where mode, pause and policy ask for it, over the live link. `OffIsFinal`: a port switched off stays off in later connections. `OnlyChosenSchemesAreRemembered`: a scheme that was only observed is never stored |
| `history` | `TunnelHistory`: two services competing for local ports, two of them taken and freed by other programs, saved decisions, grace 2, two connections, pauses and moves by the bridge; 0.84 million states | `PauseHoldsNewTunnels`, `PauseKeepsCurrentTunnels`: across scans, moves and outages. `ReconnectRestoresLocalPorts`: a tunnel that an outage took down comes back on its local port. `EntriesFollowTheScans`: an entry goes when it was missing for the grace period, not before. `WantedPortsRecover` (liveness): a wanted port gets its tunnel once its local port stays free |
| `supervisor` | two connections, two missed pings, backoff 1 to 30, five attempts, with the bridge; 269 thousand states | `KeepsThePromise`: the supervisor implements `Link`. `NoConnectionLeaks`, `BridgeAsksOverTheLink`, `WaitsFollowTheAttempts`. `LostLinksAreReplaced`, `QuittingEnds` (liveness) |
| `forwarder` | two connections, one with a reply of up to two pieces, conclusive or not, one whose service ends its reply without a word; 268 thousand states | `RepliesArriveIntact`: what a client has heard is a beginning of its reply, though the first piece is read and written apart from the rest. `NothingOutlivesTheDrain`. `RequestsAreAnswered` after a half-close, `ClosingEnds`: `Close` gives the mutex back and the drain ends (liveness). `TypeOK` |
| `monitor` | two processes, two scans, four listings, `ss` and `/proc`; 2.0 million states | `ScansArriveWhole` and in order wherever the stream is cut. `LookupsDoNotOverlap`, and `ScansAskForNames`: after failed lookups the next scan asks again. `ResultsNameTheCause`: `Run` reports a cancellation, an error of the remote or a clean end only if there was one. `RunReturns` (liveness). |
| `interface` | three services, two snapshots the manager changes between at every refresh, two sort keys, two terminal sizes; 417 thousand states | `SelectionIsVisible`, `OneDialogAtATime`. `SelectionFollowsItsPort`: only navigation moves the selection to another port. `AnswersHitTheirPort`: what the user enters reaches the port it was entered for. |
| `browser` | two installations in one remote account, one request, another program at the socket, a row that changes at any time and a tunnel that may not be had; 323 thousand states | `OkMeansOpened`, `OnlyItsOwnRequests`, `NothingOutlivesClose`. `SkippedPortsAreForwarded`: a port that a request found skipped gets its tunnel, if not at once then when a local port is free again, unless the port goes, is switched off or the connection ends first; `CloseReturns` (liveness) |
| `files` | two programs and one settings file, with an import, failing writes and crashes; a host with two key types, two versions of each; 341 thousand states | `OnlyChoicesAreSaved`; `SavingIsAtomic`: saving implements `AtomicFile`. `TrustIsRecorded`; `OneKeyOfAType`: a changed key is never recorded beside the one it contradicts; `KnownHostsReconnect`: a host that keeps its key is reached again without a question |
| `forward_now_remembered` | violation of `OnlyChosenModesAreRemembered` | `ForwardNow` opens a port "for this session only" (`manager.go:516`), yet the next label, pin or scheme of the user stores its mode for good |
| `lost_sniff` | violation of `ConclusiveRepliesAreReported` | a conclusive reply may go unreported because another connection took the only look (`forward.go:38`) |
| `marked_forever` | violation of `MarkedProcessesAreAwaited` | an id that an answered lookup says nothing about stays marked and is never looked up again (`monitor.go:39`) |
| `silent_shim` | violation of `RequestsAreBounded`, under `ProgramFairSpec` | "Timeout bounds one request" (`bridge.go:48`), but a caller that connects and says nothing is waited for without end: SSH channels refuse deadlines, and the timeout of the context begins after the line was read |

The type invariants of the other modules are not repeated in runs: they are
proved (section 5). Each property of a passing run has a mutant, a definition of
the model changed as a plausible bug would change the code (marked `Mutant:`
beside it), under which TLC finds that property violated.

### Bounds, and why they suffice

- Remote ports: every rule of the manager speaks of one entry, except the
  competition for local ports, for which two entries are enough. The invariants
  of `operations` are proved for any number.
- Local ports: the remote numbers themselves and what the kernel hands out, of
  which other programs hold some. Each branch of `Allocate`, its exhaustion
  included, happens.
- `MaxSessions = 2`: a first connection, an outage, a second one; everything
  that carries over from one connection to the next carries over once.
- `Grace` 1 and 2: a service missed once goes at once, or survives one miss.
- `Misses = 2` and the bounds of the backoff are the program's own constants;
  `MaxAttempts` is where the count stops to be told apart, after the backoff has
  reached its longest.
- Two scans: the second meets every state the first can leave in the parser and
  in the marks of the lookups, which is all that one scan hands to the next.
- `MaxReply = 2` and `Silent`: a reply has a first piece, which is looked at, and
  one that follows it. Connections share the chance to look, the mutex and the
  wait group; for these it is enough that the other connection dials, half-closes
  and ends. In `lost_sniff` both may reply.
- Three rows: a table longer than the smaller terminal, so that the window
  moves, and a selection with neighbours on both sides. `Frames = {1}`: the
  closing animation is on, and as long as it takes for keys and ticks to meet it.
- Two bridges: one installs itself over the other at every point of both
  installations. One call: what several calls share is the bridge and the row, and
  what they could do to each other through them is what the two bridges, the
  intruder and `Changes` do; the invariants are proved for any number.
- Two versions of a key and two types: a host can change a key, and add or lose
  a type, which is what the choice of algorithms depends on. Programs and
  versions are symmetric.

`CHECK_DEADLOCK FALSE` in `Forwarder.cfg`, `LostSniff.cfg`, `Browser.cfg`,
`SilentShim.cfg` and `Files.cfg`: a forwarder that is drained, sessions that are
closed and programs that have ended really stop. The other models have a step
for a program that has ended (`Ended`, `Exited`) or never end.

### Disagreements that have no run

Met while modelling; those about state are in the models as the code has them.
Some only change a text, some are a matter of taste, and for some the property
would restate one line:

- A tunnel stays on the old address of a service that rebinds
  (`manager.go:261`, against `service.go:112`).
- A move by the bridge that loses the race for the port does not keep the port
  the tunnel had (`manager.go:608`, against "keeps the port it had" at
  `app/browser.go:160`).
- A refused session, or one lost before its first line, is reported as a script
  without output (`monitor.go:93`, against `monitor.go:65`).
- An entry that failed and is then switched off keeps its error and reads
  "error" (`manager.go:431`).
- `Client.Err` may have no reason although Wait has fired, when `Close` comes
  before `watch` (`client.go:246`; `Closes` has both outcomes).
- A retry asked for while connecting cuts the first wait of a later outage short
  (`app.go:290`).
- `observeScheme` of a forwarder that drains speaks of the entry that has the
  port by then (`forward.go:138`); a reused process id shows the command of the
  process before it (`monitor.go:220`).
- `await` asks `ForwardNow` once; asked before the port is listed, it was asked
  in vain (`app/browser.go:135`).
- `shim.sh:27` gives `socat` five seconds where the bridge takes six: the shim
  falls back although the URL may open in the last second.
- Two sessions in one account: "the newest one wins" (README.md:316), but
  installations that overlap can leave the socket to one session and the shim to
  the other, and then neither opens anything.
- Clicks look for layers in another order than keys do (`model.go:564`,
  `view.go:99`), and zones of the key bar stay where they were while an editor
  covers it (`model.go:155`). The prompt keeps taking keys after its row has gone
  from the screen. ctrl+c does not quit from a dialog. The wheel selects the
  first row in both directions when none is selected (`model.go:295`). The sort
  chosen by a click on a header is not saved.
- An accept error ends the accept loop while the entry goes on showing an active
  tunnel (`forward.go:76`; `AcceptEnds` of `Forwarder`). No document says what the
  row should show then.
- `Save` writes the whole document, so the last of two programs wins; a settings
  file that does not parse is replaced by the next save.

## 4. Fairness

- `TunnelManager.Fairness`: who holds the mutex goes on (weak fairness of the
  steps of a job), and a scan that keeps finding the mutex free now and then is
  delivered (strong fairness of `SyncStart`: `sync.Mutex` does not starve a
  waiter, and the monitor delivers scans as long as the link is up). Nothing
  obliges the user, the bridge or other programs.
- `Supervisor.Fairness`: goroutines that can go on do; timers fire (pings run
  into their timeout, waits end); the shutdown continues once begun. Nothing
  obliges the network, the prober or the user.
- `Forwarder.PoliteSpec`: the forwarder's goroutines run, and the *peers* are
  polite: a client ends its request or leaves some time, a service ends its
  reply after the request. The code does not guarantee that, and cannot; a peer
  that does neither keeps its connection and with it the drain, which is why
  the manager must not wait for it.
- `ProbeMonitor.Fairness`: the runner, the parser and `Run` go on, and a silent
  connection is torn down in the end, which is what the keepalive is for
  (`Supervisor` has its pings). Nothing obliges the script or a lookup to end.
- `Browser.ProgramFair`: every step of a handler and of `Close` goes on, and the
  supervisor calls `Close` once the link is lost. `Expire`
  is strong: a timer fires although the handler polls in between. That is what
  the code guarantees. `CloseReturns` needs `ClientFair` as well: whoever
  connected sends its line or leaves, and reads what comes back. The code does
  not guarantee this, and without it `silent_shim` is the result.
  `SkippedPortsAreForwarded` needs `PortsFree`: as long as a port is switched on
  and has no tunnel, some scan finds a local port for it. The scans are the
  monitor's; that a port is free is up to the other programs of the machine.
- `Interface`, `Settings` and `HostKeys` claim no liveness and state no fairness:
  they go on when the user or another program does.

## 5. What is proved

Every invariant and every action property of the passing runs, and both
refinements, are theorems. All hold for every value of the constants that
satisfies the named assumptions: ports are numbers, the set of remote ports is
finite, the options have their types, the grace period is not 0 and the program
does not start paused (`PortsAssumption`, `OptionsAssumption`); the supervisor's
counts and waits are numbers, the first wait is at most the longest, and
`MaxAttempts`, where the model stops to count, comes after the backoff has
reached its longest (`SupervisorAssumption`); a number bounds replies
(`ForwarderAssumption`); a listing names owners only of ports it lists
(`MonitorAssumption`); `Nobody` is no bridge (`BrowserAssumption`); service ports
are positive and an empty search is a search (`RowsAssumption`); a snapshot is
finite and has one row per port, as it is made from a map, and there is a key to
sort by (`InterfaceAssumption`); 0 is no version of a key, it stands for none,
and the two signature algorithms of RSA are not names of key types
(`HostKeysAssumption`).

### TunnelManagerProofs

`TypeCorrect`, `LiveLink`, `Settlement`, `Exemptions`, `NoSilentRemap`. None of
the last four is inductive alone: a decision about one entry reads the pause,
the exemption, the link and the mutex at once. Their conjunction with `TypeOK`
is (`IInv`, theorem `Invariance`). `TypeOK` contributes that entries not listed
are blank and that a job visits only listed entries (`JobOK`), without which a
method could leave an entry unsettled that it never reaches. The core is one
lemma about `applyLocked` (`AppliedTo`): whatever the record it is given, it
changes only the tunnel, the error and the reason; the reason is the current
one; a new tunnel dials over the link in use and is flagged when remapped. Each
action then has a lemma of its own.

### TunnelPromisesProofs

The properties of `TunnelHistory` and `TunnelMemory`: `PauseHolds`, `PauseKeeps`,
`Restoration`, `ScansDecide`, `OffStaysOff`, `SchemesAreChosen`. Each is about one
port over many steps of the whole manager. So every step of `Next` is first
described by what it may do to one port (`PortStep`, lemma `NextPortStep`): nothing,
hand a record to `applyLocked` (`Handled`, which says what comes of it), take
the tunnel down with the link, or drop the entry; with lemmas on what
`Allocate` can return (`AllocateRestores`). The promises are inductions over these
fates, on top of `IInv`:

- `PauseInv`: the exemptions of the entries are exactly `current`, and while
  paused no other automatic port has a tunnel.
- `HeldInv`: the allocator remembers the port of every tunnel; and what an outage
  took away it remembers until the tunnel is back or somebody moves it, which
  cannot be the bridge, as its probe needs a tunnel.
- `ScanInv`: the counter of an entry is the number of scans since its service was
  seen; while a scan is processed it lags behind by that scan, except for the
  services already visited (`CountsOK`, over `SinceSeen`, with lemmas on what
  appending a scan and forgetting the oldest do to it).
- `OffInv`: a port whose latest choice is off has an entry that is off and
  without a tunnel, or no entry and the choice in the settings.
- `SchemesInv`: a pinned scheme is one the user set, in the entries, in the
  decision on its way to the settings and in the settings.

The proof of `Restoration` showed that the property was false as first stated:
`held` outlived the restoration, so that after a second, deliberate change of the
local port it asked for the old one. The small instance never came that far; a
larger one confirmed it. The program was right and the history variable was not;
it now ends with the restoration, and the property is about every port.

### SupervisorProofs

`SupervisorTypes`, `EveryConnectionIsClosed`, `BridgeHasTheLink`, and
`SupervisorKeepsThePromise`: every behaviour of the supervisor is one of `Link`,
under the mapping that counts a connection as handed over after `SetDialer`
(`ToLink`). Who closes a connection depends on where the shutdown meets the loop,
so the invariant (`SupInv`) says at each place of the loop which connection is
the current one and whether its round is open (`RoundInv`), what the watchers
and pings of older connections can still do (`WiresInv`), how far the shutdown
may be (`ShutdownInv`), and that a connection that is not closed is owned by the
loop, about to adopt it, or by the field `client` (`OwnedInv`).

`WaitsDouble` is about the backoff, which the code doubles step by step and the
property states as a power. Powers of two are the function `Doubled`; that it
exists and doubles is proved by counting up (`DoubledType`, `EachIsTwice`), and one
step of the code is one step of it even at the longest wait (`NextWait`).
`WaitsInv` says at which places of the loop the wait belongs to this attempt and
at which already to the next.

### ForwarderProofs

`ForwarderTypes`, `IntactReplies`, `DrainIsComplete`. `FwdInv` says of each
connection what shape its record has at each stage, in which order its ends may
have been closed, and that what the client heard, what the copier holds and what
waits are together the reply while the link is up (`ConnsSound`); that the wait group is the number of
handled connections plus the accept loop, as a cardinality (`Counted`); and how
the shutdown and the mutex agree (`Modes`). The
drain is complete because the count is exact: at zero the set is empty.

### ProbeMonitorProofs

`OneLookupPerProcess`: a new lookup is kept apart from the others by the marks, so
the invariant adds that a lookup is marked for as long as it is under way
(`LookupsAreMarked`); a failed lookup removes marks, and what saves the others is
that they are disjoint from it.

`ScansAreWhole`: the invariant (`StreamInv`) reads the output that waits as the
continuation of what the script wrote: the parser is some number of lines into
the frame of the scan after the last one delivered, it holds what those lines
say (`Parsed`), and the output is the rest of that frame, the frames of
the other completed scans, and a beginning of one that was not completed - or a
prefix of all this, once something was cut (`Carries`, `Reach`). Writing extends
the text, cutting shortens it, and each line read moves one place on. A frame has
three or five lines, so the places are arithmetic (`Place`).

`NamesAreAskedFor`: a mark without a lookup is that of a process whose command
line is known or that an answer left out (`MarksHaveReasons`), so what the end of
a scan does not ask for needs no asking.

`ResultIsTheCause`: `CauseInv` says who can have stopped whom. For the clean end it
needs the stream: a session that was not cut off has handed over the output to
its end, so a parser that listened to the end has delivered every scan.
`Types` is proved in groups of variables that change together (`TypeInv`).

### BrowserProofs

`NobodyElsesRequests`, `SuccessMeansOpened`, `CloseIsLast`. `BrowserInv` says that
the two ends of a request agree on how far it is (so that the answer a shim reads
is the one its handler gave) and that a handler gets past the line only with the
nonce of its own bridge (`Agree`), that a handler that runs holds `Close` up
(`Held`), and that an accept loop runs only between the installation and the end
of `Close` (`LoopsServe`). Nothing is assumed of the shim in the account: it may be
replaced at any time.

### InterfaceProofs

`HighlightIsOnScreen`, `DialogsExclude`, `AnswersReachTheirPort`,
`SelectionIsTheUsers`. The window is arithmetic about `Window` and lemmas on
what filters and orders keep. `IfaceInv` adds what the question about a port
rests on: while the prompt is open the selection is the port it was asked about,
or none (`PromptKeepsItsRow`), and an editor remembers its port
(`EditorKeepsItsPort`), because a refresh in between may remove any row.

`TablesAreInOrder`: for any snapshot and settings `Sorted` lists each row once and in
the order of the settings. `Before` is shown to be a strict total order on the rows of a
snapshot (ports break every tie) and the ranks of the rows to be all the
positions of the table; without this the lemmas on the window would be about
a table that might have holes. `InterfaceTypes` rests on it, and on the fact that every
command ends with a refresh or leaves the table alone.

### FilesProofs

Settings: `ChoicesAreShown`, `UntouchedCopiesAreNotSaved`, and `SavesAreAtomic`:
saving implements `AtomicFile` for any number of programs. The refinement needs
that what was written beside the file is whole (`WrittenIsWhole`), and that a
program that saves was asked to (`SavedWasAsked`).

Host keys: `NoTwoKeysOfAType`, `TrustedKeysAreRecorded`. Between the reading of
known_hosts and the verdict the file may only shrink below what was read
(`SnapshotCovers`), and a key about to be recorded contradicts nothing that was
read (`RecordsNewTypes`): so it contradicts nothing that is in the file.

`KnownHostsAreReached`: a host that serves a recorded key, and changed none, is
reached without a question. The list of algorithms begins with those that carry
the recorded keys (`RecordedFirst`); the first of them that the host can serve
comes before anything else it could answer with (`FirstServed`); and the key it
stands for is recorded and unchanged, so the verdict is to accept (`Reconnects`).
The list is computed by a fold and a flattening, and the library's induction
schemes are out of this prover's reach. The lemmas `Counting` (a set of numbers
that has 0 and the successor of each member has all) and `Least` take their
place; they follow from the well-foundedness of `<` alone.

### Only model-checked

Liveness, which is out of this prover's reach: `WantedPortsRecover`,
`LostLinksAreReplaced`, `QuittingEnds`, `RequestsAreAnswered`, `ClosingEnds`,
`RunReturns`, `SkippedPortsAreForwarded`, `CloseReturns`. The four violations are
counterexamples, found by TLC.

`TunnelManager` with `Supervisor` in the place of `Link` is not a
module: the manager's theorems are about any behaviour of its own specification, and
`SupervisorKeepsThePromise` is why that specification covers the program.

## 6. What is not modelled

- Text: the listings of `ss`, `netstat`, `lsof` and `/proc`, the prober's script,
  port-set flags, `ssh_config`, YAML, the lines of known_hosts. They are
  conversions without state, and their tests cover them better than a model
  would. A settings file is whole, broken or missing; a file that cannot be read
  is one that is missing.
- Rendering and the one-shot listing: output. Parts of `view.go` that decide what
  a click means are in `Interface`.
- Authentication, prompts, destinations, the proxy-jump chain, the command line,
  self-update, build information: input and output, no state that outlives a
  call. A Connect that fails, for whatever reason, is in `Supervisor`.
- Two programs that record keys in one known_hosts at the same time. Each appends
  one line with one write, but each judges what it read before; the file may
  then hold a key twice, or two keys of one type of a host that was rebuilt in
  between. `HostKeys` has one program and a file others may empty.
- A settings store without a path, which never saves. Edits of the settings file
  by hand, other than in the initial file.
- Byte counters, times, event texts.

## 7. Plan

Done: all the components listed as modelled in section 1, and proofs of every
safety property of the passing runs.

Worth doing next, in this order:

1. A module that puts `Supervisor` in the place of the manager's own link steps,
   and the theorem that it implements `TunnelManager`; then every theorem about
   the manager is one about the program.
2. Lemmas on `Eval` (exclusion wins, an explicit port skips the window), and what
   follows for the tunnels of an excluded port.
3. `Browser` over the promises of `TunnelManager` instead of a row that changes
   at any time.
4. Two programs and one known_hosts.
