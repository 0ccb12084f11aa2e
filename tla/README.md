# sshclient-sftp-wasm in TLA+

A verification project for the SSH/SFTP client that runs in the browser: a Go
SSH client compiled to WebAssembly (`pkg/sshclient`, `main.go`,
`sftp_bindings.go`) and the TypeScript library around it (`lib/`).  Paths below
are relative to the repository.

## 1. The system

```
 application ── SSHClient / SSHSession / SFTPHandle      lib/index.ts, lib/sftp.ts
                     │ promises                │ registry of transports by id
                     ▼                         ▼
              Go entry points            TransportManager    lib/transport.ts
         main.go, sftp_bindings.go             │ onData / send / disconnect
                     │ goroutines              ▼
                     ▼                    WebSocketTransport, SecureTunnelTransport
        Client ── InterceptedTransport ── JSTransport ◄── injectTransportData
      client.go      interceptor.go       transport.go ──► onWrite, onClose
           └── SFTPSession (sftp.go) over the same connection
```

JavaScript runs one piece of code at a time, up to its next `await`; the Go
side runs goroutines that interleave wherever they block or release a lock.
The two meet in promises (a JavaScript call starts a goroutine, which settles
the promise), in the callbacks of a `JSTransport`, and in two registries of
transports that share their keys.

| component | state | operations | what is hard | what makes it correct |
|---|---|---|---|---|
| `JSTransport` (`pkg/sshclient/transport.go`) | `closed`, `closeChan`, `readChan` (100 chunks), `readBuffer` | `Read`, `Write`, `Close`, `InjectData` | each method tests `closed`, unlocks and then acts; several goroutines call `Close`; the channel fills | the reader sees the byte stream that was injected; closed once; nobody stays blocked |
| `Client` (`client.go`) | `conn`, `session`, `stdin`, `shellStarted` under an `RWMutex`, the map `sessions` | `Connect`, `Send` (starts the shell), `ResizeTerminal`, `Disconnect`, the pump of `stdin` | `Send` gives the lock up and takes it again around `StartShell`; the lock is held over round trips; the pump reads `c.stdin` without it | no panic, one shell, `disconnected` means torn down, accepted input is not lost or duplicated |
| `SFTPSession`, `SFTPHandle` (`sftp.go`, `sftp_bindings.go`, `lib/sftp.ts`) | open flag, registry of sessions, files of the server | `put`, `mkdir`, `close` | each request may fail; uploads race; `close()` and a broken channel come in the middle | the target only ever holds whole files; a failure cleans up; every call settles |
| connection set-up (`lib/index.ts`, `lib/transport.ts`, `main.go`) | two registries by id, a WebSocket per transport | `connect`, `getServerFingerprint`, `disconnect` (session and static), `createTransport`, `closeTransport` | failures between the steps; an id used again; disconnect repeated; the socket drops | no socket outlives its call, a client whose transport another call closes is told, promises settle |
| host key pinning, errors (`client.go`, `lib/errors.ts`) | none | callback, classification | wrapped errors lose their type | mismatch is reported as such |
| secure tunnel (`lib/aws-iot-tunnel.ts`) | socket, stream id, queue, receive buffer | `connect`, `send`, `disconnect`, frames | frames cut anywhere, handshake, reconnect with leftovers | frames are reassembled, queue order kept, both ends get ready |
| tunnel messages (`lib/aws-iot-tunnel/protobuf-messages.js`) | none | `create`, `encode`, `decode`, `verify`, `fromObject`, `toObject` for V1, V2 and V3 | the two ends speak different versions | a message means the same at both ends, as far as both know its fields |
| interceptor (`interceptor.go`) | none | `Read`, `Write` with callbacks in goroutines | order of callbacks | callbacks come in the order of the packets |
| Go entry points and runtime (`main.go`, `public/wasm_exec.js`) | the stack of calls between the two languages, the goroutines | functions that return promises; the synchronous `send` and `disconnect` of `SSHClient` | one thread: a handler that waits blocks the event it waits for; callbacks that call back | the program stays alive, every promise settles |
| initialisation (`lib/index.ts`, `lib/next.ts`, `lib/vite.ts`) | `initialized`, the instance, `window.Go`, `window.SSHClient` | `initialize` | concurrent calls, late scripts, failures | one Go instance |
| React hooks (`lib/react.ts`) | session, state, what the last render saw | `connect`, `disconnect`, cleanup | stale closures, second disconnect | the state shown is that of the session; no session is lost |

`PROJECT.json` lists every component with what is and is not modelled, and under
`hazards` each place in the code where something can go wrong that a test would
hardly reach.

## 2. The modules

| module | what it is |
|---|---|
| `ByteStream` | abstract: what the SSH client may expect of the transport it reads from |
| `JSTransport` | one `JSTransport` with its goroutines; refines `ByteStream` |
| `JSTransportProofs` | its theorems |
| `SSHClient` | one `Client` with the goroutines of its callers, the pump and the server |
| `SSHClientProofs` | its theorems |
| `AtomicFile` | abstract: what `put()` promises about the target name |
| `SFTPUpload` | uploads to one name, `close()`, the SFTP server; refines `AtomicFile` |
| `SFTPUploadProofs` | its theorems |
| `SecureTunnel` | one `SecureTunnelTransport`, its WebSocket and the tunneling service |
| `SecureTunnelProofs` | its theorems |
| `Session` | `connect()`, `getServerFingerprint()`, `disconnect()` over the two registries |
| `SessionProofs` | its theorems |
| `TunnelCodec` | the message classes of the three protocol versions, as operators |
| `TunnelPeers` | two tunnel transports, source and destination, and the service between them; uses `TunnelCodec` |
| `TunnelPeersProofs` | theorems of both |
| `Initialize` | `initialize()` and the components that call it |
| `ConnectionHook` | `useSSHConnection` composed with `Initialize` |
| `ConnectionHookProofs` | theorems of both |
| `Runtime` | a connected client inside Go's WebAssembly runtime |
| `RuntimeProofs` | its theorems |
| `MC...` | the same modules with the constants TLC needs |

Definitions marked `mutant` are deliberately wrong forms of the definition that
follows them; putting one in its place makes the property it is paired with in
`PROJECT.json` fail.

### JSTransport

A method is cut at its `mu.Unlock()`.  `CloseCheck` is lines 124-130 of
`Close` (an atomic test and set), `CloseSignal` is `close(t.closeChan)`,
`CloseCallback` the call of `onClose`; `InjectCheck`/`InjectSend`,
`ReadCheck`/`ReadBuffered`/`ReadChunk`/`ReadClosed` and `WriteCheck`/`WriteCall`
are cut in the same way.  There is one reader (the read loop of the SSH
connection), one writer (it serialises its packets) and one injector
(JavaScript calls `injectTransportData` from one event handler at a time), but
any number of closers.  A byte is its position in the stream and a chunk an
interval, so that order, loss and duplication are visible without contents.
The `select` of `Read` takes either ready case; `readPos`, `arrived`,
`refused`, `late` and the two counters are history variables.

### SSHClient

`c.mu` is a `sync.RWMutex`: `Announce` is the moment a `Lock` keeps new readers
out, `NoReaders` the guard of what runs once the lock is held.  `Send` is
`SendBegin` (lines 403-407) and then either `Enqueue`, or `ShellAnnounce`,
`ShellLock`, `SessionAnswer`, `ShellAnswer`, `Relock`, `Enqueue`; the two
answers are the round trips to the server during which the lock is kept.  When
`StartShell` fails, `SendFails` is the read lock that `Send` takes once more to
return.
`Disconnect` is `DisconnectBegin` (the notification comes before the lock),
`DisconnectAnnounce`, `CloseStdin` (`close(c.stdin)`), `CloseConnection` and
`Report`.  `CloseStdin` and `CloseConnection` are two steps because the pump,
which does not take the lock, can run in between.  The pump evaluates `c.stdin`
in its first step.  Input is counted, since a channel with one reader keeps
order by itself.  `ConnectDone` is the outcome of `Connect`, which runs before
JavaScript can reach the client.

### SFTPUpload

An upload is the content it writes.  `pc[p]` is the request `PutFile` waits for
(create, write, close, posix rename, rename, remove), `requests` what the server
has received and not executed, `Serve` its execution or refusal.  `Step` is the
control flow of `PutFile` on an answer; after `LoseLink` or `CloseClient` the
client gets an error for whatever it waits for, while the server may still
execute what it has received.  A refused write may leave a partial temporary
file.  The temporary names carry 64 random bits and are taken to be distinct;
`put()` is called once per upload.

### Session

The steps are what runs between two awaits.  `Begin` is `createTransport` on
both sides and the start of `transport.connect()`; `SocketOpens`,
`SocketFails` the two ends of it; `KeyRejected`, `HandshakeSucceeds`,
`FingerprintCaptured` and `HandshakeFails` how the Go call ends; `CloseBegin`
and `CloseEnd` the two halves of `closeTransport` around its `await`.
`uses[c]` is the transport that the Go side found under the id at the time it
looked.  `DisconnectAgain` is `session.disconnect()` called once more, during the
first call or at any time after it, as the cleanup of `useSSHConnection` does
(`react.ts:126`); `AgainBegin` and `AgainEnd` are its `closeTransport`.  Nothing
in the code asks whether an id is in use, and nothing does here: calls with the
same id overlap, `createTransport` overwrites an entry, and a `closeTransport`
closes what it finds under the id, also the transport of a newer call.
`replaced` is a history variable: the transports not yet closed that a
`createTransport` took the id from.

### SecureTunnel

JavaScript handlers do not interleave, but three of them contain loops, and
`handleIncomingData` calls back into the SSH client, which may call `send()` or
`disconnect()` before it returns.  So the loops are cut into their rounds
(`SendChunk`, `Flush`, `NextFrame` and `Incomplete`), everything else waits until
they are through (`Quiet`), and `send()` and `disconnect()` can also come while
a callback runs (`Callable`).  `Open` is `onopen`, `OnClose` is `onclose`,
`Hangup` the body of `disconnect()`, which a SESSION_RESET runs as well; `Lose`
is a socket that fails or closes.  `onerror` changes nothing.  What `send()` is
given is one stream of bytes, a message an interval of it, `wire` the frames
put on the socket.  The service answers with frames of three bytes, of which
`OnMessage` brings any number of bytes; it may send a handshake message or a
reset at any time, and a frame that cannot be decoded.  The protocol version only
shows in `EncodedLength`, the longest encoding of any of them.  `connect()` is
called once, as `lib/index.ts` does.

### TunnelCodec and TunnelPeers

The code has one copy of every function per version, with the fields spelled
out.  `V1Read`, `V2Written`, `V3Named` and so on are the tables of what each copy
spells out, `Create`, `Encode`, `Decode`, `Verify`, `ToJSON` and `FromObject`
what a copy does with its table.  A message is the function of its own
properties; an encoded one the function from field numbers to the values
written under each, since `decode` treats a field without looking at the others.

`TunnelPeers` puts two transports at the two ends of a tunnel.  Each handler is
one step and each message one frame, since `SecureTunnel` has the cuts.
`channel[r]` is what `r` has sent on the stream and its peer has not received.
`Deliver` decodes the next message in the version of the receiver and runs
`handleMessage`; `Reply` is what that sends, `processQueuedMessages` included.
The service is external.  It drops what comes while the peer is not there
(`Drop`), announces service ids (`Announce`) and may send types that no end
sends (`Control`).  Two facts show here: a source of version V1 never becomes
ready, because V1 has no SERVICE_IDS; and a DATA message without a payload
passes the empty buffer of the prototype to `onData`.

### Initialize and ConnectionHook

A call of `initialize()` is cut at its awaits: `Effect` runs to the first one
(`Enter`), `Probed` is the answer of `testAssetAvailability`, `ScriptLoads`,
`ScriptFails` and `ScriptTimeout` end `loadWasmExecutor`, `Fetched` is
`go.run` up to the `select{}` of `main`, `Ready` the code after the timer.  A
script whose timer has fired stays in the document and may still arrive.
`Current` is the `mounted` variable in the closure of an effect, which the
composable of Vue does not have.

`ConnectionHook` runs `connect` and `disconnect` of the hook on such a page.
React state has two values here: what was set last (`session`) and what the last
render saw (`committed`); callbacks and the cleanup close over the second.
`Opened` and `Reached` compare the Go instance that knows the transport (`home`)
with the one that `SSHClient` uses now.  The end of a call is in two steps: what
Go notifies, which the hook shows at once (`HandshakeSucceeds`,
`HandshakeFails`, `Closed`), and the code behind the awaits (`ConnectResolves`,
`ConnectRejects`, `Disconnected`), with anything in between.

### Runtime

`stack` holds the calls between the languages, innermost last: an `event` when
JavaScript has called Go, a `callback` when Go has called JavaScript.  A
goroutine with a callback on the stack is `Frozen`; the others run while an
event is on top.  `Return` gives control back once the handler has returned and
`AllAsleep`; `Deadlock` is the end of the program when it has not returned.
The methods of a session start a goroutine and return at once; the static
functions do the same work in the handler.  The steps of `Send` and `Disconnect`
are those of `SSHClient`, cut where `c.mu` or the server makes them wait.

## 3. The runs

The bounds are in the `.cfg` files; deadlock is not checked because every one of
these components may stop: when it is closed, or when nobody calls any more.

| run | instance | result |
|---|---|---|
| `JSTransport.cfg` | 2 closers, channel of 2, chunks of 0-2 bytes, reads of at most 2, 4 bytes | passes |
| `SSHClient.cfg` | 3 goroutines, stdin of 2, at most 3 accepted sends before the last one | passes |
| `SFTPUpload.cfg` | 2 uploads to the same name | passes |
| `Session.cfg` | two connects and a capture with one id, a `.ppk` connect with another; any 3 of these 4 in a behaviour | passes |
| `SecureTunnel.cfg` | both modes, messages of 64512 and 65600 bytes, at most 131200 bytes, 2 frames besides the handshake's | passes |
| `SSHClientPump.cfg` | as `SSHClient.cfg` with a stdin of 1 | `PumpStops` fails |
| `SessionDropped.cfg` | as `Session.cfg` | `SettlesWhenDropped` fails |
| `ConnectionHook.cfg` | one React hook, one Vue component, 2 calls of `initialize()`, 2 of `connect`; at most 3 of these 4 in a behaviour | passes |
| `ConnectionHookStays.cfg` | one React hook, 1 call of `initialize()`, 2 of `connect` | `StaysDisconnected` fails |
| `Runtime.cfg` | 3 calls, each a method or a static function, callbacks may throw | passes |
| `RuntimeStatic.cfg` | one call of `SSHClient.send`, callbacks do not throw | `StaysAlive` fails |
| `TunnelPeers.cfg` | every pair of versions, 2 messages from each end, 1 control message | passes |

Why the bounds are enough.  *JSTransport*: two closers give the race of `Close`
with itself; a chunk of two bytes is read in one part or in two; three chunks do
not fit a channel of two, so refusal and the gap after it occur; the theorems
cover every other size.  *SSHClient*: one goroutine can start the shell while a
second one waits in `Relock` or `Enqueue` and a third disconnects; the channel
fills.  *SFTPUpload*: two uploads give every order of the two renames; the third
adds nothing that the theorems do not cover.  *Session*: the calls with one id
overlap or follow one another in every order, so that one overwrites the entry
of a second while a third, or a repeated disconnect, is between the two halves of
its `closeTransport`; the call with the other id shows that this one is not
touched.  The constraint on the calls that begin hides nothing from the liveness
properties, since a call that has not begun owes nothing.  *SecureTunnel*: a
message of exactly one chunk and one that needs two and is longer than a length
of 16 bits can tell; two messages, each before, during or after the handshake;
three frames, cut at each of their nine bytes, with one or two of them a reset
or a second handshake.  *ConnectionHook*: two calls of `initialize()` overlap, fail
independently and exchange the instance under a connect; two connects give a
session that replaces another before or after a render, or is notified while the
other one is being closed.  Both twice in one behaviour is left to the theorems.  *Runtime*: one call holds or awaits the
lock, a second one waits behind it, a third comes from a callback of either.
*TunnelPeers*: two messages show order and doubling, each before, during or after
either handshake; a control message of each type meets every state.

What passes:

- **transport**: `CloseOnce` (a second `close(closeChan)` would panic),
  `IsByteStream` (refinement), `CloseCompletes` (a blocked reader is told EOF
  and JavaScript is told), `Delivered`.
- **client**: `NoPanic`, `TornDown`, `Accounted`, `DisconnectCompletes`,
  `Delivered`.  `DisconnectCompletes` has an
  exception that the code needs: a `StartShell` that waits for a server that is
  gone keeps `c.mu`, and `Disconnect` waits behind it.
- **upload**: `IsAtomicFile` (refinement), `CleanFailure`, `Settles`.
- **session**: `NoSocketLeak` (but for a transport whose id another call took while
  it was in use: its own `closeTransport` then closes the other one's),
  `Isolated`, `NeverDeaf`, `Settles`.  A repeated `disconnect()` does close the
  transport of a newer call with the same id; `NeverDeaf` says that this closes it
  whole, so that the newer client reads EOF and is not left connected to nothing.
  The exceptions are what the code does: a replaced transport leaks, and the
  handshake over it waits for ever (`Stranded`).
- **tunnel**: `InOrder` and `NothingLost` (what is sent is what was given to
  `send()`, and the rest waits in order), `LengthsFit`, `HandshakeFirst`,
  `ResetLast`, `Flushed` (nothing stays in `messageQueue` on an open socket),
  `Parsed` (every DATA frame reaches `onData`).
- **page**: `ShownConnected` (a hook that shows "connected" has a session that
  nobody is closing, or one that was notified and is about to be set), `Referenced` (an established session is in the hook's
  state or being closed, unless it was replaced before a render or came after
  the component went), `BridgeStable` (the instance is not exchanged, unless
  calls of `initialize()` overlapped), `Loaded`, `ConnectSettles`.  The exceptions
  are what the code does: overlapping calls replace the Go instance under a
  connection, a session that is skipped or late is never disconnected, and
  "connected" is shown, and told to the application, before `setSession`
  (`react.ts:86`, `:92`): an application that uses the `session` of the hook as
  soon as the state is "connected" may find null, or the session before.
- **runtime**: `DeathCauses` (the program dies of a callback that throws or of
  a static function that waits, and of nothing else; the methods of a session
  may be called from any callback), `CallsSettle`.
- **peers**: `Understood` (whatever the two versions), `Conserved` (what an end
  was given is at its peer, on its way or queued, in order), `BothReady`.

What fails, each with a short trace (`findings` in `PROJECT.json`):

- `PumpStops`: the pump's `range c.stdin` reads the field when the goroutine
  first runs.  If `Disconnect` has set it to nil by then, the goroutine ranges
  over a nil channel for ever (`client.go:350`).
- `SettlesWhenDropped`: the bridge closes the WebSocket during the handshake,
  `onclose` tells nobody, `Read` has no deadline, `connect()` stays pending.
- `StaysDisconnected`: `disconnect()` of the hook sets "disconnected" and the
  session to null; the new value makes React run the cleanup, which disconnects
  the session again, and the hook ends up showing "connecting".
- `StaysAlive`: `SSHClient.send` asks the server for a shell inside of its
  handler.  The answer would be another event, which cannot come, and the Go
  program ends with "all goroutines are asleep - deadlock!".

### Fairness

- `JSTransport`: a goroutine inside a method goes on, and the SSH connection
  reads in a loop until EOF (`golang.org/x/crypto/ssh` does).  Injecting,
  writing and closing are free.  `ReadStep` as a whole is weakly fair; the
  choice of `select` is not, so nothing relies on it.
- `SSHClient`: strong fairness for the steps that need `c.mu`, because
  `sync.RWMutex` keeps new readers out once a writer waits and lets the readers
  that waited in when the writer leaves.  The server's answers are weakly fair
  only while the connection is alive: `lib/transport.ts` does not report a closed
  WebSocket to the Go side, so after that a request may never return.
- `SFTPUpload`: the server answers while the channel lives, and the client is
  told when it goes.
- `Session`: a socket opens or fails, a server that is reached answers, and
  continuations run.  Nobody is obliged to call anything.
- `SecureTunnel`: a handler runs to its end, bytes that were sent arrive, and
  the service (or, behind it, the other side of the tunnel) does its part of the
  handshake.  Nothing obliges anybody to send, and `Flushed` and `Parsed` end
  with the socket.
- `TunnelPeers`: what is on its way to an open end is delivered, and the service
  announces its ids to an end that stays (`WF` of `Deliver` and `Announce`).
- `Initialize`, `ConnectionHook`: requests for files end in one way or another
  and timers fire; a socket opens or fails and a server that is reached answers;
  the Go side finishes a disconnect; React renders a changed state.  Nobody has
  to mount, connect or disconnect anything.
- `Runtime`: what can run runs (`SF`, since a goroutine that waits for the lock is
  runnable again and again, and `sync.RWMutex` does not starve it), callbacks end,
  and the server answers a request for a shell.

## 4. The proofs

All theorems hold for every value of the constants under the named assumptions,
which TLC evaluates in the runs; `tlapm` checks them with Z3, Zenon and LS4.  The
assumptions: sizes are naturals and large enough to be sizes (`SizesAssumption`,
`ClientAssumption`, `TunnelAssumption`), model values are not each other
(`PutsAssumption`, `HookAssumption`, `RuntimeAssumption`), calls of the different
kinds are disjoint sets (`CallsAssumption`, `InitializeAssumption`), and bounds of
counters are naturals (`PeersAssumption`).  Every safety invariant, action
property and refinement that a passing run checks is stated by a theorem.

| theorem | states | module |
|---|---|---|
| `ClosedOnce`, `ImplementsByteStream` | `CloseOnce`, `IsByteStream` | `JSTransportProofs` |
| `NeverPanics`, `DisconnectedIsTornDown`, `NothingInvented` | `NoPanic`, `TornDown`, `Accounted` | `SSHClientProofs` |
| `FailsCleanly`, `ImplementsAtomicFile` | `CleanFailure`, `IsAtomicFile` | `SFTPUploadProofs` |
| `SentInOrder`, `QueueKeepsAll`, `NoLengthWraps`, `ResetIsLast`, `ShakesHandsFirst` | `InOrder`, `NothingLost`, `LengthsFit`, `ResetLast`, `HandshakeFirst` | `SecureTunnelProofs` |
| `SocketsClosed`, `CallsIsolated`, `NobodyLeftDeaf` | `NoSocketLeak`, `Isolated`, `NeverDeaf` | `SessionProofs` |
| `DiesOf`, `MethodsAreSafe` | `DeathCauses`; `StaysAlive` for methods whose callbacks do not throw | `RuntimeProofs` |
| `ConnectedIsTrue`, `NoSessionLost`, `BridgeKept` | `ShownConnected`, `Referenced`, `BridgeStable` | `ConnectionHookProofs` |
| `VersionsAgree`, `NothingForgotten` | `Understood`, `Conserved` | `TunnelPeersProofs` |
| `CodecAgrees` | `Agree` for a message of any content | `TunnelPeersProofs` |
| `TypeCorrect` | `TypeOK` | all but `TunnelPeersProofs` |

**JSTransport.**  `IInv == TypeOK /\ OneCloser /\ Chained`.  `CloseOnce` is not
inductive: that `closings` stays at one needs to know that the goroutine at
`signal` is the only one past the test of `closed`, which is `OneCloser`.
`Chained` says that `readBuffer`, `readChan` and the chunk being injected form
one chain of intervals from `readPos` to `arrived`; `Tip` closes the chain while
a chunk is on its way.  From these follow `TypeCorrect`, `ClosedOnce`,
`HeldInOrder`, and `ImplementsByteStream`: a step of the model is a step of
`ByteStream` or a stutter (`StepIsByteStream`), because what a `Read` returns
begins where the chain begins.

**SSHClient.**  `IInv` adds to `TypeOK` and `Accounted`: `LockInv` (who holds
`c.mu` is exactly who is in a critical section), `ShellInv` (what `StartShell`
tested still holds while it waits for the server), `StdinInv` (`c.stdin` is
closed only together with the field, except for the one goroutine between the two
statements), `StateInv` (what the last notification implies).  `NoPanic` needs
all of them: a goroutine at `Enqueue` holds a read lock, hence nobody is
between `close(c.stdin)` and `c.stdin = nil`.  `NeverPanics`,
`DisconnectedIsTornDown` and `NothingInvented` follow, for any number of
goroutines.

**SFTPUpload.**  `IInv == TypeOK /\ target.whole /\ \A p : UploadInv(p)`.
`UploadInv` relates the request an upload waits for, the request the server
holds, its temporary file and the history of renames; a step of one upload
leaves the `UploadInv` of the others (`Frame`).  The weak half that survives
the loss of the channel is what `ImplementsAtomicFile` uses: a rename that is
still on its way to the server finds the whole data and happens once.  The strong
half, while the channel lives, gives `FailsCleanly`.

**SecureTunnel.**  `InOrder` says that each payload on the wire begins where the
ones before it end.  To keep it, the next chunk must begin there too, which is
`NothingLost`: the message being cut, `messageQueue` and what is still to come
form one chain.  A message that `send()` does not queue is in that chain only if
the queue is empty whenever the tunnel is ready, which is `Queued`; this in turn
needs `Fresh` (no state left over when the socket opens) and `Usable` (an
attached, open socket is connected, greeted and not reset).  Two lemmas,
`ControlFrame` and `DataFrame`, carry `InOrder` over a step that appends a
frame.  `NoLengthWraps` follows by arithmetic from the size of a chunk; it
assumes a `serviceId` of at most 900 bytes, which the code does not check.

**Session.**  `IInv == TypeOK /\ Filed /\ Kept /\ Progress`.  None of
`NoSocketLeak`, `Isolated` and `NeverDeaf` is inductive.  That
`closeTransport(id)` closes the socket of the call that asks for it, or that
somebody did before, needs to know where that transport can be: `Kept` says that
one which is not closed is found under its id unless the id was taken from it, and
that a closed one has a closed socket; `Filed` that the two registries agree and
hold nothing under a wrong id.  `Progress` adds how far each call is: its socket
is gone once it awaits the Go side, and its entry once it is over.  Nothing is
assumed of the ids that callers choose.  `RegistriesAgree` is `Filed`: the two
registries are written by separate code and are equal between two steps.

**Runtime.**  `IInv == TypeOK /\ LockInv /\ Called /\ StackInv /\ DeathInv /\
DeathCauses`.  The program ends with a deadlock when the handler on top of the
stack has not returned and every goroutine is asleep.  To see that this handler
is a static function's, one has to know that a call that waits for `c.mu` waits
for somebody who can go on, which takes two facts: `LockInv` says that the lock
is held by exactly the calls at certain steps, and `StackInv` that the event of
a call lies below its callback, so that the work of the handler on top is never
frozen in a callback further down.  `MethodsAreSafe` is the consequence for an
application: methods of a session may be called from any callback, with the
lock held, and the program does not end.  The run `RuntimeStatic.cfg` shows that
the hypothesis on the methods is needed.

**ConnectionHook.**  The invariant has a part for each of the two modules.
`LoadInv` counts: calls are numbered as they begin (`Numbered`), a call past its
start has started at most one instance (`OneRunEach`), and without overlap at
most one is under way and none once the library is initialized (`OneAtATime`,
also the theorem `CallsExclude`).  `BridgeKept` follows from the last: all that
can come to an initialized page are late scripts and calls that return at once.
`HookInv` says that what the hook holds, and what is being disconnected, was
established; hence an attempt that still connects is named by nobody
(`OnItsWay`), and its outcome cannot be confused with the end of another
session; and that a session whose `disconnect()` has come back is closed, so that
forgetting it loses nothing.  With `HookInv`, `ShownConnected` and `Referenced`
are inductive.

**TunnelCodec and TunnelPeers.**  `CodecAgrees` holds for every message of any
content: each version's tables for `encode` and `decode` are the beginning of
V3's (`Tables`), so what `decode` finds under a number is what `encode` wrote
under it (`Decoded`), and the tables of types fit those of names (`TypeTables`).
`VersionsAgree` is its use on what is sent.  `Conserved` is inductive together
with the types of the messages in the channels.  Its induction is over the ways
a payload can go: it is given (`FlowGiven`), sent, alone or with the rest of the
queue (`FlowJoined`), arrives (`FlowArrives`), or is lost (`FlowLoses`); `Handled`
reduces what a handler does to these, and `Told` says that type, stream and
payload survive any pair of versions.

Only model-checked: the liveness properties (`CloseCompletes`, `Delivered`,
`DisconnectCompletes`, `Settles`, `Flushed`, `Parsed`, `Loaded`, `ConnectSettles`,
`CallsSettle`, `BothReady`), which need fairness and `ENABLED` and are out of the
prover's reach; and the four properties that fail.

## 5. Not modelled

- The contents and format of SSH, SFTP and WebSocket messages; cryptography.
  The layout of a protobuf field in bytes (protobufjs does it), the
  length-delimited variants of `encode` and `decode`, and `getTypeUrl`, which
  nothing in the program calls.
- The goroutines that forward stdout and stderr: they do not look at `c.mu`, so
  data may still be handed to the application after "disconnected".
- The interceptor's callbacks (`go onReceive`, `go onSend`), whose order is that
  of the scheduler.
- `mkdir()` and `sftpOpen()`, and the registry of SFTP sessions: a session that is
  registered while `Disconnect` runs stays registered.
- Which error class a caller sees.  Read in the code and not checked: `put()`
  on a closed handle rejects without a `code` (`lib/sftp.ts:65`, against the
  comment at `:10`); a WebSocket that does not open rejects `connect()` with a plain
  `Error`, since `transport.connect()` is outside of the `try`
  (`lib/index.ts:320`, against `README.md:138`); a `.ppk` key is refused only
  after the socket was opened (`README.md:12`).
- `CustomTransport`, which is the caller's code behind the interface of
  `WebSocketTransport`.
- A second `connect()` of one tunnel transport: the late `onclose` of the old
  socket clears the flags of the new one.  `lib/index.ts` connects a transport
  once.  A `send()` between the start of a close and its event drops the frames
  without a report (`lib/aws-iot-tunnel.ts:321`).
- `STREAM_RESET` calls `onClose`, which nobody sets, so it is a step without
  effect in both tunnel modules.
- `withSSHClient`, `SSHClientProvider` and the context of `lib/react.ts`, which
  only pass on what the hooks have; the objects that configure the bundlers in
  `lib/next.ts` and `lib/vite.ts`, which are constants.
- The value conversions of `wasm_exec.js`; `lib/tunnel.js`, which is
  imported by nothing; examples.

## 6. Plan

In this order:

1. `Handshake`: host key pinning and the classification of errors, from the
   Go error to the class that the caller sees.
2. Stdout after "disconnected"; the order of the interceptor's callbacks; the
   registry of SFTP sessions against `Disconnect`.
3. `SecureTunnel` connected a second time.
