# TLA+ models of hs-poc

hs-poc joins machines into a WireGuard mesh through a Headscale server. This
directory holds TLA+ modules for the parts of it that keep state and do
several things at once, TLC configurations that check them on small instances,
and TLAPS proofs. `PROJECT.json` lists runs, theorems, hazards, findings and the source lines
behind every definition.

    tlc -workers 4 -config NodeStore.cfg MCNodeStore.tla
    for m in NodeStore HsClient HsVpnService NoiseConn Handshake H2Conn FlutterApp WgConfig; do
        tlapm ${m}_proofs.tla
    done

## The system

| Component | State | Operations | Talks to |
|---|---|---|---|
| hs-server, the node adapter (`server/main.go`) | registry of nodes with its next number, one RWMutex; `nodes.json` | register, list, get, keepalive; start, death; a goroutine per registration | Headscale by REST; clients by HTTP |
| hs-client, the command (`client/main.go`) | `~/.hs-client`: two key files, config, pid, iface; nothing shared in memory | register, up, down, status, ping, traceroute, serve, each a process | Headscale through HTTP/2 over Noise; WireGuard |
| Noise record layer (`noise/conn.go`) | per direction a cipher, a nonce, a mutex; undelivered plaintext | Read, Write, Close | the TCP stream the dialer upgraded |
| HTTP/2 client (`noise/h2frame.go`) | next stream, hpack tables; per request status, body, a reader goroutine | NewH2Conn, DoRequest(Context), Close | the record layer |
| Handshake and dialer (`noise/handshake.go`, `dialer.go`) | hash and chaining key, the connection with its deadline | fetchServerKey, ClientDeferred and its continuation, Dial | Headscale |
| Network map, WireGuard configuration (`client/main.go`) | none; a text | decode, lines of peers, peer to ping | wireguard-go |
| Flutter application (`flutter/lib`) | status on the screen, the child process of up | connect, disconnect, refresh | hs-client, by starting it |
| Android service (`HsVpnService.kt` and callers) | isRunning, backend and tunnel, posted work | connect, disconnect, destroy | wireguard-android |
| UDP tools, deploy units, platform runners | none of interest | | |

What is hard in it: requests, keepalives and saves of the registry interleave,
and the process may die between truncating the file and writing it; commands of
the client share a directory without a lock; nonces must be unique whatever
Writes fail; the HTTP/2 client leaves goroutines behind when a context ends;
the Android service works in threads that answer by posting to the main thread.

## Modules

**`Registry`** is what the adapter promises: a sequence of nodes in which slot
i holds number i + 1 for ever, that only registers, touches, dies (which may
roll it back to an earlier state of itself) and restarts.

**`NodeStore`** is the adapter. `nodes`, `nextID` and `holder` are `nodeStore`,
`op[h]` a handler goroutine between arrival and answer. A write request is `Arrive`,
`RegisterLocked` or `KeepAliveLocked`, `OpenFile` and `WriteFile` (the two
halves of `os.WriteFile`, each of which may fail, as the code drops its error),
`Unlock`, `Reply`; a read is `Arrive`, `ReadLocked`, `Reply`. `Die` is a signal
or a kill, anywhere. A file that is cut does not parse and loads as empty.
`known` and `acked` record what clients were told, `unsaved` and `damaged`
whether a save failed or a death hit one: the durability properties hold up to
those, since the code promises nothing more. `StoreInv` is the inductive
invariant; `R == INSTANCE Registry` is the refinement, with the registry read
from the file while the process is down. `ResetDatabase` is the operator.

**`NoiseConn`** is a connection: the sending half of one `Conn` and the
receiving half of its peer, with the byte stream between them. A Write is a
call, the lock (where the nonce is looked at), and one `SealChunk` per chunk,
which may fail and leave nothing or a part of a record on the stream. A Read is
the lock, `DecryptOne` until there is plaintext, `ReturnPlain`. Nonces are
integers modulo `NonceMod`; the invalid one is the last. `pastEnd` remembers that a
Write of several chunks, which looks at the nonce once, went on past it.

**`Handshake`** is a process from `fetchServerKey` to the end of `Dial`: `SendInitiation`,
`GetResponse` (101 or a refusal), `SetDeadline`, `ReadHeader`, `ReadErrorMessage`,
`ReadResponse`, and `ReadFails` for each read. Cryptography is
symbolic: an agreement is the set of its two keys, `h` the sequence of what was mixed
in, `ck` of the agreements, and a text opens under the `ck` and `h` it was
sealed with. The server (`Answer`, `Reject`, `AnswerOther`, `End`, `Rekey`) is
external; it follows the IK pattern with the same operators in the order of
its side. `Expire` is the 30-second context of the command.

**`H2Conn`** is one connection of the HTTP/2 client: `NewH2Conn` (`Peek` to
`FinishInit`), one request, `Close`, as `register` and `up` use it. `reader` and
`chan` are the goroutine and channel of `readH2FrameCtx`; `SelectFrame` and
`SelectCtx` its select, both enabled when both are ready. The server greets,
answers and interposes other frames (`OtherFrames`); `Window` stands for the initial
flow-control window, which the client never extends. `skew` marks hpack tables
that differ because a header block was skipped. Every SETTINGS is acknowledged by the
step that reads it, so what is owed is what is still under way (`TypeOK`).

**`HsClient`** is the commands as processes over one state directory. `register`
and `up` share their first steps; every file is written in two (`EmptyKey`,
`FillKey`); `Kill` may strike between any two, `Term` once the signal handler
is there (`Strike` is either, within a bound). The exchange with Headscale is
one step, `AskServer`; all other steps of a process are `Local`. `tnet`, a
variable of each process, needs no variable here: `Serve` never finds it set.

**`FlutterApp`** composes with it: `C == INSTANCE HsClient`, whose processes are the children
of the application. `flow` and `waits` are the await of `_connect` or
`_disconnect`, `child` is `_wgProcess`, `refresh[r]` the status a refresh waits for. The buttons
that the code disables while `_loading` are presses that need `flow = "idle"`. `DownEnded`
sends the SIGTERM of `disconnect()`, which before the signal handler is a kill. `lost`
and `overlap` are histories: the children that a later up took the place of; an up was
started while another one was running (`Ups`).

**`WgConfig`** is `up` from the answer to the map request to the device. `body` is what came:
four bytes of length, a brace and the rest of a map, which may be malformed, up to any point, since
`DoRequestContext` returns what it has when its context ends (`client/noise/h2frame.go:224`). `Decode`
strips all before the first brace and decodes one value, `TakeMap` is what `up` then holds, which
is an empty map if the value was a `{}` of the length. `bad` are the texts that wireguard-go will
not parse, the port and endpoints of the map or the command line (a host name in `--peer-endpoint`). `AddPeer` writes the lines of one entry (`AddressLines`, then one of
`OverrideLines`, `MapLines`, `LocalLines`), `IpcLine` is wireguard-go taking one line, `IpcFails` its refusal,
`CrossPing` the choice of the peer to ping. Keys and addresses are nodes and families.

**`HsVpnService`** is the Android service: intents and posted Runnables run in order
on the main thread (`Connect`, `Disconnect`, `RunUp`, `RunDown`), `TunnelUp`,
`TunnelThrows`, `StopCall` and `StopPost` are its threads. A tunnel is numbered
by the connect that made it. `lost` is a history: the tunnels that were being made at a disconnect,
and, when a connect comes beside others (`Beside`: one is being made, one that was lost is up, a thread
or a Runnable has yet to run), those that there are and its own.

`MCNodeStore` and `MCHsClient` add symmetry of the processes, used only by runs
without liveness; `MCWgConfig` has the lists of addresses. The modules named `_proofs` hold the proofs. Definitions marked "Mutant" belong to
no specification: each is a plausible slip in an operation (a dropped guard, a
missing save), and the property it is named for in `PROJECT.json` fails with it.

## Runs

| Run (cfg) | Question | Bounds |
|---|---|---|
| `NodeStore` | do registry, file, clients and Headscale agree; are keepalives kept; does it implement `Registry`? | 2 handlers, an empty registry, 2 nodes, 2 times, 1 death: two handlers are one that holds the lock and one that arrives, so two registrations meet, or one and a keepalive; the restart after the death finds whatever the save left |
| `NodeStoreLive` | is every request answered? | 2 handlers, 1 node, 1 death |
| `NoiseConn` | is what is read what was written, and all of it; does a nonce come twice? | 2 writers, 2 readers, 4 nonces, chunks of 2, Writes up to 3 units (so two chunks), 3 Writes, 1 failure, 1 other message: six chunks for three valid nonces, so Writes find the range used up before and during |
| `Handshake` | does a handshake that ends well have the right partner; is the connection left as it should; does Dial end? | 2 dialers, so answers can be swapped; 1 new key of the server |
| `H2Conn` | is what is returned the answer; does a request return, with a deadline or without; does any goroutine stay? | 2 pieces of DATA, 2 other frames, 2 statuses: one frame each to come before and between |
| `H2ConnData` (violated) | is data received never dropped? | 1 piece of DATA |
| `HsClient` | does the directory stay usable? | 3 processes, 1 kill: two that collide and one that comes after |
| `HsClientDown` (violated) | does down disconnect? | 2 processes |
| `FlutterApp` | is any up lost; does a refresh tell the truth; does disconnect end the up? | 4 processes (register, up, down or a second register, status), 1 kill, 1 refresh |
| `WgConfig` | when is the map refused, or the device not configured; which endpoint and which routes does it end up with? | maps of up to 3 entries, each null or with or without a key, with no, a v4, or a v6 and a v4 address, with 0 or 2 endpoints; 2 overrides; 1 text that cannot be parsed; every length of braces, closing braces, blanks and other bytes, and every place to cut the body |
| `HsVpn` | do isRunning, broadcasts and tunnels agree; does a disconnect disconnect? | 3 tunnels, 4 intents, 1 destroyed instance; 4 threads that stop, as many as there can be (a connect, 3 disconnects, the end of the instance). Only the fourth of four connects finds the bound of tunnels, with nothing after it that could wait |
| `HsVpnButton` (violated) | can what runs be disconnected? | 1 tunnel |

Three entries are what `EndpointOrder` and `MeshComplete` need: an entry
without addresses takes effect on the one before it, so the cases are such an
entry first, between, or last, and two of them together. Where the code goes
wrong, the properties say how far. `MeshComplete` lists all that stops `up`: a body that was cut or
is no map; a brace in the length, which never gives a device; for `IpcSet`, one
port or endpoint in use that does not parse, which costs the node its whole mesh, or endpoints
before any peer has an address; no own address, for the panic. A map above the flow-control window
is always cut, as the client never extends it. (A length that reads as a number or `null`, followed by a cut before the
brace, would be of a body larger than the window, and is not told from other bytes.) `EndpointOrder`
says whose endpoint a peer gets after an entry without addresses. `NoOrphan`
and `UpIsHeld` say which processes and tunnels are lost, and that no other
ever is, before or after: the child that a second connect replaces; a tunnel that starts at a disconnect,
and those of a connect beside others. `DisconnectTakesDown` is stated for each tunnel in the same way. The
`overlap` of `FlutterApp` excuses all that follows: what `RefreshTellsTruth` claims is claimed of behaviours without it.

The `overlap` of `FlutterApp` is wider than the run shows. Within its four processes
only a second connect makes two ups overlap; with six, a disconnect and a
connect after it do as well: the up that was told to stop is still there when the next one
connects, and its own `cmdDown` (`client/main.go:630`) then removes the pid
file of the next one, so that `status` says not connected. The proof of `RefreshTellsTruth`
came upon it; TLC finds it with `Procs` of six and no kill.

The bounds are constants of the modules and appear in guards of the environment
(arrivals, kills, intents, calls), never of a step the code takes by itself,
but for `MaxConnects` and `MaxStops`: the bounds on intents keep them out of reach, up to the fourth connect of the table.

Deadlock is not checked: bounded runs end, and so do commands, connections and
a server that was stopped.

The violated runs are disagreements between the code and what its documents,
comments or messages say; `findings` in `PROJECT.json` quotes each. Others
were met while modelling that no single property of a run refutes: the reset of `DEPLOY.md:77-80` removes
`headscale.db`, and the nodes of the adapter are in `nodes.json`
(`ResetDatabase` clears `headscale` only); `serve` tells its user to run `up` first
(`client/main.go:847`), but `tnet` is a variable of the process of `up`, so it
never finds it; `DEPLOY.md:117-118` shows `status` with an address after
`register`, which writes none (`client/main.go:316`); `noise/conn.go:50`
says that Increment is only called on valid nonces, but a Write of several
chunks looks once and goes on past the last one (`pastEnd`); a network map whose length
has a byte 0x7b is decoded from there and fails (`client/main.go:401`,
`MeshComplete`), which is one length in 256 from its lowest byte alone; and `runWireGuard` returns after a line on stderr if
the netstack, the device or its port cannot be had (`:456`, `:512`), while `up` goes on and
`status` says connected.

### Fairness

Goroutines, threads and processes that can go on do (weak fairness); that is
all the Go runtime, Android and the operating system are taken to give, but for two
things. A handler or writer that waits for a mutex gets it when it is free again and
again (strong fairness: `sync.Mutex` and `RWMutex` hand over to waiters that
starve). A context with a deadline ends. Nothing is assumed of servers, of the
user, of kills or of writes succeeding. In `H2Conn` a select with both
sides ready may take frames until the server has no more; their number is
bounded by the run, and in the code the choice is random each time. In `Handshake`
a dialer goes on when there is something to read or its context is over, and
the context does end; `DialEnds` starts where the context does. In
`FlutterApp` callbacks run and processes take their local steps, but a server
may never answer. `AnswerReturns`
is about requests whose stream or connection does end, as nothing else ends one
without a deadline.

## Proofs

`NodeStore_proofs` proves for every set of handlers, every bound and every
initial registry (assumption `NodeStoreAssumption`: handlers are not
`NoHandler`, bounds are naturals):

- `TypeCorrect`: the type invariant;
- `SlotAddressCorrect`: numbers are slots, so ids and addresses are unique;
- `StoreInvCorrect`: the inductive invariant `StoreInv`. `KnownSurvive` alone is not
  inductive: it needs who holds the lock and that nobody else is in a save
  (`LockInv`), what a handler that will answer has in the registry (`WorkInv`),
  that outside a save the file has what memory has (`FileInv`), and that all
  that was told anybody came from there (`ToldInv`). The step lemma
  has one case per action and one step per part that the action touches;
- `KnownSurviveCorrect`, `HeadscaleCorrect`: from `StoreInv`;
- `NoAddressReuseCorrect`: from `StoreInv` and `SlotAddress`, since two
  known nodes of one number are in one slot;
- `Implementation`: `Spec => ImplementsRegistry`. It needs `BehindInv`: the file
  is always an earlier state of memory, so a death is a step of `Registry`.

Its second half is about what answers are worth:

- `NodesOnlyGrowCorrect`: from `BehindInv`, since a keepalive writes `now`, and
  nothing was seen later. It rests on the clock of the model going forward
  (`Tick`): a host that sets its clock back makes a node look older;
- `ReadsAreFreshCorrect`: `FreshInv` says that what a reader must answer with
  was known when it arrived, and `KnownSurvive` puts that in the registry it
  reads; for a lookup `SlotAddress` makes the first match the only one;
- `AckedDurableCorrect`: by `AckInv`, which follows each answer back through
  the handler that will give it, from memory to the file.

`HsClient_proofs`, for every set of processes and commands and any number of kills
(`HsClientAssumption`):

- `TypeCorrect`, with the shape of a process at each of its steps;
- `PidNamesUpCorrect`: inductive by itself once the shape is known;
- `RegisteredIsOnDiskCorrect`: `KeyInv` says for each key file that one process
  at most makes it, that it is empty while one does, and that every process past
  it, and every registration, has what is on disk. `keyRace` is the history
  that breaks it;
- `RefusedCorrect`: `ConfigInv` says why config may lack a server after a
  register has ended: somebody is rewriting it, or died doing so.

`HsVpnService_proofs`, for any bounds (`HsVpnAssumption`):

- `TypeCorrect`: it needs `MadeInv`, that tunnels are numbered as made;
- `RunningHasTunnelCorrect`: `QueueInv` looks into the queue: behind an "up"
  not yet run there is a tunnel, a later "down", or a thread that will post one;
- `UpIsHeldCorrect`: `HeldInv` says that a tunnel that starts or is up and was not
  lost is `Alone`: no other is, nothing waits while it starts, and once it is
  up there are beside it only threads that will take it down.

`NoiseConn_proofs`, for any goroutines, chunk size, nonces and faults (`NoiseConnAssumption`):

- `TypeCorrect`;
- `NonceUniqueCorrect`: by `LockInv` (who is between chunks has the lock) and
  `NonceInv` (all nonces used are smaller than the next, unless `pastEnd`);
- `WritesWholeCorrect`: `WholeInv` says what a Write under way sent is the end of what was sent;
- `InOrderCorrect`: `OrderInv` says that the items on the stream cover, without
  gaps, what was sent and not yet opened;
- `DiesOnlyAfterFailureCorrect`: `DieInv` says that without a failure the records
  on the stream carry consecutive nonces, from the reader's to the writer's.

`Handshake_proofs`, for every set of dialers and any number of new keys. The first part is
algebra: a hash tells item by item who mixed what (`HashTellsWho`), and a
response opens only for the one it was sealed for (`OpensOwn`). Then:

- `TypeCorrect`, `ConnSettledCorrect`: by `ConnInv`, when the connection is open;
- `AgreementCorrect`: what a dialer sent was made from its keys (`SentInv`), what
  is on a wire was put there by the server (`WireInv`), and each of its answers is
  one to an initiation of a dialer under some key (`AnswersInv`);
- `HonestCorrect`: from the same, by the converse lemma `AcceptsOwn`.

`H2Conn_proofs`, for any statuses, amount of DATA and number of other frames
(`H2ConnAssumption`):

- `ResponseIsAnswerCorrect`: `PipeInv` says that what is under way, from the channel
  to the end of the queue, is exactly what the request still misses: the DATA
  in order, nothing of the response after its end, its HEADERS before the rest;
- `TypeCorrect`: that each SETTINGS is acknowledged once needs `AckInv`, an equation between
  the acknowledgements written, the SETTINGS sent, and those in the queue, in the channel
  or held by `NewH2Conn` (`FirstInv`); that the body is pieces that were sent needs `BodyInv`.

`FlutterApp_proofs`, for any processes, refreshes and kills (`FlutterAppAssumption`).
The commands are another module's, so their steps are first summed up: `Went` says
what a step of a process may do to the process and the files, `Started` what a
start does, and every action of `HsClient` is one of the two. Then:

- `TypeCorrect`, by `AppInv`: which process `flow` waits for and what it is;
- `NoOrphanCorrect`: `OrphanInv` says that an up that runs is the child that is
  held, has its signal, or was replaced;
- `RefreshTellsTruthCorrect`, an action property: `OneInv` (without overlap there is
  one up), `PidInv` (who is connected is in the pid file, or is being stopped) and
  `QuietInv`, that nothing a status reads changes under a refresh that is
  quiet, so that what it shows is what the files say.

`WgConfig_proofs`, for maps of any length, any lists of addresses, any
number of endpoints and overrides (`WgConfigAssumption`). Every line tells its entry
(`EntryOf`), so the text needs no account of where it came from:

- `Text(s, n)`: s is in the order of the first n entries, in each the endpoints last; every
  allowed_ip follows the public_key of its entry; every address of an entry with
  a key is there, and its last line is the endpoint that counts (`Said`).
  `TextAppend` is the step: the block of the next entry (`BlockText`) after the text;
- `Read(m)`: the device after the lines before m: its peer is that of the last
  public_key line, its routes are those of the allowed_ip lines, and the endpoint of
  a peer is the last line that `Belongs` to it. `HeadBelongs` is what makes
  this go through: an endpoint belongs to the last entry with addresses at or before its own;
- `RefusedInv`: why a body is refused, and that whoever writes lines has decoded a whole map. It rests
  on `StrippedForm`: a body without a brace in its length, once stripped, is a map or the beginning of one;
- `TypeCorrect`, `EndpointOrderCorrect`, `MeshCompleteCorrect` follow at the end of the text.

So every safety property that a run checks has its theorem. Only model-checked
is liveness (`RequestsAnswered`, `AllRead`, `DialEnds`, `DeadlineReturns`, `AnswerReturns`,
`ReadersEnd`, `DisconnectEnds`, `DisconnectTakesDown`), which with all
that rests on `ENABLED` is out of the prover's reach. The
properties with `~damaged` in them
say nothing after a save that failed or was cut: what the code promises then
is nothing, and `NodeStore` reaches those states all the same.

## Not modelled

- `handleInit`, `/health`: forward or answer, keep nothing.
- Cryptography as such, JSON, hex and text layout: a key is a name or a number, a record its nonce and units.
- `Client()` (`noise/handshake.go:381`), which nothing calls.
- The connection that `up` and `register` leave open when `NewH2Conn` fails
  (`client/main.go:183`): the process ends and closes it.
- Failing writes of the client's own files: the key, config and pid files are written or the process dies in between.
- HTTP/2 padding, priority and CONTINUATION frames, which the client does not look for either.
- `ping`, `traceroute`, the iface file, the device admin receiver: change nothing others read.
- A node among its own peers, which Headscale does not send and the code guards against.
- The death of the Flutter application, its settings screen and its layout.
- Android's always-on setting, notifications, and the death of the process, which ends all of it together.
- Headscale, WireGuard, Android: external actions where a component needs them.
- The UDP tools, each one loop for tests by hand; generated platform runners; the `.kt.bak` files.

## Plan

1. Adapter, record layer, HTTP/2, commands, Android service, handshake with the dialer,
   network map, Flutter application: done, as above.
2. Proofs of the safety properties: done.
3. `ping` and `traceroute` with their timeouts; the UDP tools, if at all.
