# Self-KVM in TLA+

Self-KVM shares one keyboard and mouse between machines. The machine that owns
them, the *server*, tracks a cursor over a layout of screens; when it runs off an
edge towards another machine's screen the server swallows its own input and
forwards it to the *client* that owns the screen. This directory models the parts
of the program in which order, concurrency and failure matter, checks them with
TLC on small instances, and proves with TLAPS what can be proved of them for every
instance.

## 1. Inventory

| Part | State | Operations | Talks to |
|---|---|---|---|
| Switching logic, `kvm-core/src/server.rs` (`ServerMachine`) | layout, active screen, virtual cursor, entry number, modifiers, lock | `handle` (local and remote motion, buttons, wheel, keys), `go_home`, `set_lock`, `toggle_lock`, `set_screen_size`, `set_layout` | pure: returns a list of actions its caller performs |
| Screen geometry, `kvm-core/src/layout.rs` | screens, sizes, neighbours | `add_screen`, `link`, `detect_crossing`, `clamp_to` | called by the switching logic |
| Client machine, `kvm-core/src/client.rs` | acknowledged, entered, last entry number | `handle` of each message | pure: replies, injections, disconnects |
| Server runtime, `kvm-daemon/src/server.rs`, `hooks.rs` | client table, controller's queue, a bounded outbound queue per client | controller task, forwarder of captured events, accept loop, a handler (handshake, reader) and a writer per connection, keep-alive timer | owns the switching logic; channels between tasks; sockets |
| Client runtime, `kvm-daemon/src/client.rs` | a connection | `serve` | client machine, injector, clipboard sink |
| Transport, `kvm-net/src/transport.rs` | a length-prefixed frame being read | `send`, `recv` | sockets |
| Capture, grab, injection, `kvm-input` | the grab switch, the last cursor position | capture callback, `GrabSwitch::set`, `inject` | the operating system; a bounded queue to the server runtime |
| File transfer, `kvm-daemon/src/file_transfer.rs`, `kvm-core/src/file_transfer.rs` | sender's and receiver's progress, token counter, slots, the download directory | `send_file`, `serve_recv`, `recv_file_to_dir`, `publish`, `FileReassembler` | its own connections |
| Clipboard, `kvm-daemon/src/clipboard.rs` | last value seen, the clients' sinks | poll, set, broadcast | both runtimes |
| TLS and trust, `kvm-net/src/tls.rs` | a certificate per start; pinned fingerprints, on disk too | `load_or_default`, `check`, `persist` | wraps connections of clients and file senders |
| Desktop application, `src-tauri/src/lib.rs` | running task, capture thread, sink slot | `start_server`, `start_client`, `stop`, `send_file` | starts and aborts the runtimes |
| Wire format, `kvm-proto/src/message.rs`, `codec.rs` | none | `encode`, `decode` | the transport |
| Configuration, command line | none | parsing | |

What is hard here, and what makes each part correct:

* **Switching.** One crossing is several actions (tell the client that is left,
  change the grab, tell the one that is entered) and the program is right only if
  their order and number are right after any sequence of crossings, disconnections
  and locks: the grab follows control, one client at most believes it has the
  cursor, nothing is sent outside the grab.
* **Geometry.** Sizes are reported at run time, also of the screen the cursor is
  on; entry points are scaled between screens of different sizes. Positions sent
  must be pixels of the screen they are sent to, and a crossing must not bounce.
* **Runtime.** Five kinds of task share queues that fill up; connections break,
  clients quit and reconnect under the same name, handshakes are refused. Server
  and client must agree on who has the cursor although the client lags behind, a
  dead client must give control back, and full queues must not form a circle.
* **Input path.** Whether the server's own system sees an event is decided when it
  is captured; whether a client gets it is decided when the controller reaches it.
* **Files.** Several transfers share a directory, a token counter that a restart
  resets, and slots; senders stall, files change while they are read, the disk
  fails, the receiver dies.
* **Application.** One grab switch, sink slot, capture thread and task handle serve
  sessions that come and go; a stop aborts one task of the several a session has, and
  does not wait for it.
* **Clipboard.** One thread applies what peers send and polls for what the user copies,
  and must tell one from the other; a session's sink thread outlives the session.
* **Trust.** Attempts to connect, in several processes, share one file of pins without
  a lock; a server makes a new certificate at every start; the disk fails.
* **Wire.** Encoding and decoding are two tables written apart; a stream may be cut
  anywhere, and lengths have limits at one end that the other does not check.

`PROJECT.json` lists every part with its status, and every hazard with its line and
the properties that cover it, or, where the code does what one would fear and the properties
except it, with a note that says so.

## 2. Modules

| Module | Models | Remarks |
|---|---|---|
| `SwitchActions` | local events, the switch's actions, modifier tracking | vocabulary of the next two |
| `Switch` | the switching logic without geometry, and the caller that performs its actions | abstract specification; any motion may cross to any screen |
| `Layout` | edges, crossing, entry points, linking | operators only |
| `ServerMachine` | the switching logic with coordinates, cut to `i16` where the wire cuts them | refines `Switch` |
| `Grid` | `build_layout` | operators; `MCServerMachine` starts from the layouts it builds |
| `LayoutEditor` | the layout editor: screens arranged on a grid, the roster | EXTENDS `Grid` |
| `ClientMachine` | a client's reaction to each message | operators only |
| `Runtime` | controller, handlers, writers, connections, clients | EXTENDS `Switch` and `ClientMachine` |
| `InputPath` | operator's hand, capture callback, queue, controller, pipes to the clients that are lost with their connections, keys down on every machine | EXTENDS `Switch` |
| `AppLifecycle` | the desktop application's commands, what they share, the sessions they start and abort | |
| `FileDrop` | what receiving files promises | abstract specification |
| `FileTransfer` | senders, receiver, TLS handshake, directory, crashes | refines `FileDrop` |
| `Clipboard` | polling thread, controller's broadcasts, sessions and their sink threads | |
| `TrustStore` | servers' certificates, attempts to connect, the file of pins | |
| `Wire` | every message's encoding and decoding, byte by byte | operators only |
| `Channel` | messages arrive whole, in order, once, until the connection ends | abstract specification |
| `Framing` | frames on a byte stream, and their reader | EXTENDS `Wire`, refines `Channel` |
| `...Proofs` | | proofs about the module of that name; `ServerMachineProofs` has those about `Layout`, `Grid` and `LayoutEditor` too |
| `NetProofs` | | proofs about `TrustStore`, and about `Wire` and `Framing` |
| `MC...` | constants for TLC | |

**Composition.** `Runtime` and `InputPath` are the switch with what surrounds it on
either side: `Runtime` has what follows the controller in full (handshakes, queues,
connections, clients), `InputPath` what goes before it (the hand, the capture thread, the lag)
and, of what follows, what a key may be lost in. Each is proved to take only steps of
`Switch`, and `ServerMachine` is proved to implement it, so the three meet in one
specification. `Channel` is what `Runtime`, `FileTransfer` and `Clipboard` take a
connection for, and what `Framing` over `Wire` is proved to be.

**Correspondence.** A call of `ServerMachine` returns a list of actions which the
controller performs one by one, awaiting room in a client's queue for each. So in
`Switch` and its descendants a call is one step that fills `out`, performing an
action is another (`Perform`, `Dispatch`, `Deliver`), and the next call waits for
`out = <<>>`. `grab` and `told` are what performing the actions has done: whether
the grab switch is on, and which connected clients have had an Enter and no Leave
since. `Cross` is the crossing branch of `try_cross`, `Stay` its other one, `Input`
the buttons, wheel and keys of `handle_remote`, `GoHome` is `go_home`, guarded as
in the controller by the active screen being the one disconnected.

In `ServerMachine` the motion actions compute the crossing from the layout
(`MotionAbs`, `MotionRel`, then `StayAt`, `CrossHome` or `CrossAway`), and
`ImplementsSwitch` maps each message and action to its abstract form by forgetting
coordinates; a report of a size and an ignored motion are stutters. `CoordLimit` stands
for 32768: coordinates sent wrap there, and so do the sizes a client reports.

`LayoutEditor` has the editor's screens as a sequence of tiles, `grid`. Its actions are the
operations of `main.ts` (move with swap, add, remove, choose the local screen, rename in the
roster); editing a size is left out, as no property here depends on it. `BuildLayout` of `Grid` is the
loops of `build_layout`, each a function recursive in the number of its rounds: `AddTiles`
adds the screens, `LinkTiles` runs over the first tile of a pair, `LinkTile` over the second.

In `Runtime` a connection has a handler (`hello`, `info`, `register`, `pump`,
`unregister`, `ended`), a writer, an outbound queue, what is on the wire in each
direction, and a client process with its `ClientMachine`. `out` and `bcast` hold
what the controller still has to send; `SendTo` waits while the queue is full, as
`tx.send(..).await` does, and drops when the writer is gone. `ClientDisconnected`
names a screen and not a connection, and `ClientConnected` overwrites an entry: that
is the code, and what happens to two connections of one name follows from it. What
the clients say of themselves is chosen at the start (`peer`). A client answers in the loop
in which it reads (`conn.send(&reply).await` in `serve`), so `ClientStep` waits while the way
back (`back`, `BackCap`) has no room for the answer, and so does all that is written to it: the
last edge of a circle by which everyone may wait on everyone (`Circle`). `entry`, the
connection the last Enter went to, and `late`, the connections that were put in the table while
their screen had the cursor, are history variables.

In `InputPath` the capture callback is two steps, reading the switch (`Read`) and
queueing and passing on the event (`CallbackEnds`): the switch may change between
them and between events. The capture queue and the controller's, joined by a
forwarding task, are one queue, which drops when full as `try_send` does. The controller's
table (`clients`), the connections (`linked`) and what the controller has not heard of yet
(`ended`) are three things: a client that is back replaces its entry, the departure of the
connection before removes the new one's, and what is sent meanwhile goes nowhere. A client's
outbound queue, its writer and the wire are one `pipe`: `Deliver` waits for room in it, and
drops what is for a client without an entry or behind whose entry the connection is gone;
`Inject` is the client handling the oldest message, and only what comes between an Enter
and a Leave is injected; `Break` loses what is in the pipe. One process runs per client at a
time (two of one name are in `Runtime`), and `Connect` is a handshake that succeeds.
`crossedHeld`, `grabbedHeld`, `severed`, `lost`, `seen`, `quiet` and `forced` are history
variables that let the properties say under which circumstances a key may be stuck.

In `FileTransfer` a file on disk is the transfer it came from and the number of its
bytes, in order. `publish` is three steps (`ReserveReal`, `ReserveAlt`, `Rename`)
because others may see the directory between them. `file` is what the transfers are
of: name, declared size, the size found on reading, and whether TLS is used, chosen at
the start. Over TLS a transfer takes a slot before its handshake (`Secure`, `Secured`),
and that has no time limit. The receiver may hear no more at any point of the body, whatever
is still on its way and whether its sender is done or not (`Abandon`: the connection is reset,
or `IDLE_TIMEOUT` passes); `cut` remembers that something was. Tokens start at 0 in every process,
so the directory may hold token-prefixed names and temporary files of earlier runs as well as the
user's own (`Existing`, in `Init`). Any write, flush, reservation or rename may fail
(`DiskFails`); removing the temporary file afterwards is taken to succeed.

In `AppLifecycle` a session is named by the command that started it. `stop_inner` is
three steps, `start_server` eight, because `start_server` and `start_client` run on the
async runtime's threads and may overlap with each other and with the sessions; calls of
`stop` run on the main thread, one after the other. Aborting a task that waits ends it;
one that is being polled on another thread ends when the poll does, and may act until
then. The layers between capture and controller are one queue; what the server does with
an event is reduced to whether control moves, away or home. `overlap` and `late` are
history variables that name the circumstances in which the promises fail.

In `Clipboard` one step of the polling thread applies what peers have sent (`Apply`) or
reads the clipboard (`Poll`); the controller's broadcast goes to one client after the
other (`SendTo`) and disconnections wait in its queue (`gone`). A client's sessions are
numbered; each has a sink thread (`SinkSet`) that goes on after the session while it has
texts. `owner`, `due`, `overtaken` and `failed` are history variables.

In `TrustStore` an attempt is the client runtime's or a file sender's. Loading the file,
the three answers of `check`, and the two steps of `persist` (truncating the file, then
writing it) are steps of their own, so that attempts interleave as processes do, and any
step may be the last. A fingerprint is the address and the number of its server's start.
`trusted`, `stale`, `raced` and `failed` are history variables.

In `Wire` a message is its type and the sequence of its fields, each in bytes or numbers
of the width the code gives it; `Encode` and `Decode` follow the two tables of
`message.rs` separately. Numbers are cut into bytes and gathered from them byte by byte
(`Shifted`, `Gathered`), fields and frames are joined one by one (`Joined`), and each field is
looked for where the one before it ended (`FieldEnds`). `IsMessage` says what the types of
Rust let an encoder be given. `Framing` reads the header and the payload in two steps, as
`recv` does, from as many bytes as have arrived.

## 3. Runs

| Run | Question | Instance |
|---|---|---|
| `machine` | Does the geometry keep the switch's promise, its positions on screen, and its crossings stable and reversible? | a row and a ring of three screens of 1 to 6 pixels built by `BuildLayout`, coordinates that wrap at 4, a client reporting 2x2 and 6x2 |
| `runtime` | Do server and client agree, which clients drop what is forwarded to them, can a served client become unreachable? | two connections with different names, or with one name, one of them perhaps refused; queues of 1 and 2, one message on the wire each way; three motions |
| `live` | Does a dead client give control back, does the controller always drain its queue, or how else does it end? | one client, three ticks, three events, queues of 1 and 2, one message on the wire each way |
| `unconnected` (violation) | Is the cursor ever on a screen without a client? | two connections, one name |
| `silent` (violation) | Is a client that answers nothing declared dead? | three ticks |
| `input` | In which circumstances can a key get stuck, or be acted on twice? Does an Enter claim what is not held? Do grab and control stay in step? | two keys of which one is a modifier, two clients, two connections in all, five events, a queue of two, pipes of one; the clients are interchangeable |
| `files` | Does the directory only ever gain whole files under free names, are slots freed, is a reported success real? | two transfers of one name over six mixes of sizes, one of them over TLS; before them nothing, the user's file under that name and an earlier run's under the first token's, or the temporary file of a run that crashed; one disk failure, one crash |
| `app` | Is the grab ever left on for nobody, is more than one session ever alive? Does every arrangement the operator can make become the layout it shows? | three commands, overlapping or not, two ports, two captured events; up to three screens on 3x2 cells, any number of operations (`MCDesktop` lets commands and editor, which share no state, move one at a time, the other where it began) |
| `app_restart` (violation) | Can a stopped server be started again? | same, three captured events |
| `trust` | Is a second fingerprint ever accepted, an unchanged server refused, a known pin lost? | two attempts, two addresses, two starts each; any step of writing may fail or be the last |
| `clipboard` | Does a remote text echo, does a copy reach every client, does a client end up with what it was sent? | one client with two sessions, two texts and one too large for a frame, two copies, one text from a peer |
| `wire` | Do messages arrive as they were sent over a stream cut anywhere, and does the reader stop for a reason only? | every type of message with fields at the ends of their ranges; pairs of messages, one of them as long as a frame may be or one byte longer; frames of at most 24 bytes |

**Why the bounds are enough.** Two clients are what a hop between clients needs, and
two connections what one replacing another needs; a third adds no pair. Queues of one and two
are full after one or two messages, so that every wait and every drop happens.
Entry numbers wrap at 2 or 3. Motions are of one pixel or further than any screen is
wide, screens of one pixel and of unequal sizes are included, one higher and one (when
reported) wider than coordinates go, so that every case of clamping, scaling and cutting
occurs. Three screens on 3x2 cells are two that border each other and one that does
not, a row of three and a corner; the operations are not bounded. The first two screens have the
names added ones are given, so that a new name may be taken already. Three captured events in `runtime` (motions only: what a
motion, a button or a key is forwarded as takes the same way, and `live` has the wheel) are a
crossing, a hop and a return; five in `input` a motion, a key going down and up around a second
one, and one event more; two connections there are two clients connected, or one that comes
back. Three ticks in `live` fill the circle: with one answer on the way back, one keep-alive
waiting to be answered and one queued, everyone waits (two do not suffice). Three commands are a start, a stop and a start again, or a
start that overlaps another. A transfer has at most two chunks, the second one
shorter. One crash makes the token counter start again beside what it left. There are as many slots as
transfers, so the refusal of one too many is in the model but not in the run. Two attempts
are enough to lose a pin, and two starts to present a second certificate; two sessions
are what a late sink thread needs. Where a property is proved (section 5) the bounds
do not matter.

Deadlock is checked in `machine` and `trust`, which always have a step to take; in the
others the bounds on events, or their completion, stop the system.

**Fairness.** `live` assumes weak fairness of the controller, of each handler and of
each writer: they are tokio tasks that are polled when they can go on. It also
assumes that a client keeps reading its connection or stops: without it a client
that reads nothing blocks the controller for good, since it awaits room in that
client's queue. A client that waits for room
for its answer is not stopped by fairness: it waits until there is room. The environment
(capture, timer, `Accept`, `Quit`, `Break`) is unfair. `silent` assumes only the server's fairness. In `files` only the receiver's
tasks are fair; a sender may stall for ever, and `IDLE_TIMEOUT` is the reason
`SlotFreed` holds nevertheless (`Stalled` needs nothing but silence); the exception it
names is a TLS handshake. In `clipboard` the polling thread, the tasks that carry texts
and the sink threads are fair, each on its own; the user, the peers and the connections
are not. In `wire` the reader is fair, and the stream goes on delivering unless it breaks.

## 4. What the runs show

The switch keeps its three promises, the machine with its geometry implements it,
and the runtime around it keeps server and client in agreement for whichever
connection the table leads to. Each property is also checked against a mutant of the code
(named in `PROJECT.json`, defined beside the operation it changes) that breaks it.

Three statements of the repository do not hold of the program. The quotations are in
`PROJECT.json` under "findings":

* `unconnected`: the cursor crosses to screens no client is connected for; input is
  swallowed and goes nowhere.
* `silent`: keep-alive answers are not looked at.
* `app_restart`: a server that was stopped keeps its port, because only the task of
  `ServerRuntime::run` is aborted and not the accept loop it spawned.

Several properties hold with exceptions, and name them: `SentInside` (screens beyond the
wire's coordinates), `NoBounce` (a local screen under 4x4), `ForwardedIsInjected` (a client that
joins while the cursor is on its screen, until its Enter), `Drains` and `DeadScreenLeft` (the
circle), `KeysReleased` (on the server the grab changed while a key was down; on a client control
moved or the connection ended while one was down there, or an event was dropped), `QuietKeyOnce`
(events captured near a crossing; a disconnection that forces control home may leave one to
nobody), `NoOrphans` (the empty file of a failed rename; a crash), `SentIsPublished` (a connection
that fails with some of the file on its way, a failing disk, a crash, both names taken),
`SlotFreed` (a handshake), `GrabHasOwner` and `GrabKept` (`late`), `CurrentIsOnly` and `GrabKept`
(`overlap`), `OneFingerprint` (`raced`, `failed`), `PinKept` (`FoundEmpty`), `InStep`
(`overtaken`, `failed`). Each exception is something the code does; none could be left out.

Smaller observations met on the way:

* Switching. `set_layout`, which nothing calls, takes control home and returns no action
  to release the grab. After the active screen is reported smaller the next motion may
  cross an edge the cursor was already past (`layout.rs:147`). A plain key typed under
  Shift makes the server forget the Shift, so an Enter may miss a modifier that is held,
  though it never claims one that is not.
* Layout. `link` does not unlink the neighbour an edge had. The editor may give two
  screens one name (it counts the screens there are), and the layout then loses one of the
  two cells; it may remove all screens, and then there is no local one.
* Runtime. A second client with a name in use is not refused with `ErrBusy`; it takes over the
  table's entry, and the end of either connection removes it (`SoleServedIsReachable` says what holds).
  A client that joins while the cursor is on its screen drops what is forwarded to it until the
  cursor has left and come back. Everyone may wait on everyone: the client for room for a
  keep-alive's answer, the reader of these for room in the controller's queue, the controller for
  room in the client's, whose writer waits for the client to read; only the connection's end
  resolves it.
* Input. An event captured between the controller's decision to cross and the switch
  being set is acted on by both machines (the code's comment at `server.rs:171` knows of "a
  stray abs event"); a key whose press and release see different states of the switch
  stays down on the server. A key that is down on a client when its connection ends stays down
  there: nothing releases it, at either end.
* Application. An aborted session may still set the grab once after `stop_inner` has released
  it. `capture_started` stays set when the capture thread has failed.
* Files. A crash leaves a temporary file on whose name the first transfer after the restart
  fails, and an empty file under the real name if it falls between reservation and rename; a
  file that is itself empty has its final content already when the name is reserved. A rename that
  fails leaves the empty file too. A file may fall back to the token-prefixed name an earlier run
  has used, and then fails, the sender having reported success. The TLS
  handshake of a transfer may hold its slot for ever.
* Clipboard. A text that does not fit a frame ends every client's session, since the sender
  does not check the length the receiver limits. The sink thread of a session that has ended
  may write an old text over a later session's. A `set_text` that failed is taken for a
  change the user made, and the old text is sent round. A client that joins later does not
  get the current clipboard, and a text a client pushes is not relayed to the others.
* Trust. Two processes that pin at the same time lose one of the pins; one that loads the
  file while another writes finds it empty and trusts whatever it is shown; a line cut short
  by a full disk makes an unchanged server be rejected; a server that was restarted is rejected
  until its line is removed.

## 5. Proofs

All theorems hold for every value of the constants, from the named assumptions in the
modules that declare them. `PROJECT.json` lists them with the property each one states.

**`SwitchProofs`** — `SwitchTypeOK`, `SwitchGrabFollowsControl`, `SwitchOneOwner`,
`SwitchSentUnderGrab`. None of the properties is inductive: they speak of `grab` and `told`
when `out` is empty, or of the head of `out`, and say nothing of the actions still in the
list. The inductive invariant `IInv` is the types of the machine's own state and `Left`,
which says for each list of actions that may be left to perform (`NothingLeft`,
`ForwardLeft`, `GrabLeft`, `EnterLeft`, `HopLeft`, `HomeLeft`, `ReleaseLeft`,
`WarpLeft`, `StatusLeft`) what `active`, `grab` and `told` are meanwhile. Every call
starts from `NothingLeft` and makes one of these lists (`CrossIInv`, `ForwardIInv`,
`GoHomeIInv`), and performing the head of one leaves another (`PerformIInv`). The
properties then follow, case by case, without induction over the list.

**`ServerMachineProofs`** begins with the geometry of `Layout`: clamping and scaling stay in
range (`ClampBounds`, `ScaleBounds`), a cursor lands on a pixel of the screen it enters
(`EntryInside`), off its edges (`InsideOffEdges`), and one pixel back over the edge it came
by crosses the opposite edge (`BackCrossesOpposite`, `TravelBack`); linking two free
edges keeps a layout symmetric (`LinkSymmetric`). Then, with layouts edited at run time
(`SpecEdited`, which `Spec` implies): `MachineTypeOK`, `MachineSentInside`, `MachineNoBounce`,
`MachineCanTravelBack`. `SentInside` is not inductive: where the cursor lands is computed from
the active screen, of which it says nothing, and a size reported between two actions would
falsify it (`SetScreenSize` waits for `out = <<>>`, as the caller performs a whole list
before its next call). The invariant is the types, the active screen being one of
the layout, and `out \in Seq(GoodActions(layout))`. `RoomToLand` and `Symmetric` are
hypotheses of the last two theorems because the code guarantees neither: displays report what
they like, and a link may overwrite one direction of an earlier one. Finally
`MachineImplementsSwitch`: each handler's list, with its coordinates forgotten
(`AbsActions`), is the abstract one, and performing its head is the abstract step
(`AbsPerform`, `AbsEffect`).

`GridBuildsLayout` is about `LayoutEditor`, for every grid, every first arrangement and any
number of screens. Its invariant is `EditorIInv`: tiles in cells of their own, one of them at
most local, whose names are texts. What `build_layout` makes of such an arrangement needs
induction, once for each of its loops. It is done by hand, from the library's fact that a set
of numbers has a least element (`LeastNumber`): `Recursion` says that a definition by recursion
whose steps lead on defines something, `StaysIn` that its values never leave sets its steps do
not leave. The invariant of the loops is `Shows`: of the pairs seen so far the two tiles in
neighbouring cells are linked both ways, and nothing else is.

**`RuntimeProofs`** — `RuntimeTypesHold`; `RuntimeImplementsSwitch`, from which
`RuntimeGrabFollowsControl`; `RuntimeSoleServed`, `RuntimeAgreement`,
`RuntimeForwardedIsInjected`. `RuntimeSoleServed` rests on `ReachInv`: what the
controller's queue has to say of connections is true of connections that got past the handshake,
and of a disconnection that one of that name has ended (`Announced`); who is served is admitted
(`Serving`). So an event that changes the table's entry for a screen comes from the one
admitted connection of that name.

`RuntimeAgreement` and `RuntimeForwardedIsInjected` compare a client with a controller that is
ahead of it by whatever is in the queue, with the writer and on the wire. `TableInv` ties the
table to the connections: an entry leads to a connection of that name (`NamedRight`), each
connection is registered once, one the controller has not heard of yet was sent nothing of the
switch's (`FreshOnes`), one past the handshake is or will be acknowledged. `AgreeInv` adds that
every attached connection is `Sound`: once everything on its way has reached the client
(with what is left in `out` to send), it is acknowledged, entered if and only if the
controller is on its screen through this very connection, and then at the controller's sequence
number (`AgreedOn`); on the way there the client injects every input that comes after an
Enter, and every input at all if it is not `late` (`InjectedOn`); and one whose screen is active through an older connection is sent no
Enter (`UnenteredOn`). What the client is after the first n messages is a
recursive function (`ClientStates`), and what appending a message or handling the oldest one
does to it is shown by induction on n, again from least numbers.

**`InputPathProofs`** — `PathTypesHold`, `PathImplementsSwitch` (from which
`PathGrabFollowsControl`), `PathKeysReleased`, `PathQuietKeyOnce`, `PathEnterClaimsHeld`.
`KeysReleased` speaks of the end of all lag only; the invariant says what holds before.
`OsInHand`: the server's system, with the event in the callback, has only keys the hand has,
and none under the grab. `InHand`: of each key the hand is where the last event under way
says, and where the controller knows it if there is none (`Tracks`, kept by appending an
event and by handling the oldest, `TracksAppend` and `TracksTail`, without induction over the
queue). `HeldInShare` is about the clients: what is in a pipe is counted as handled and the next
action as in the pipe (`PipeNow`), and then a client has no key down beyond its share, which is
what the controller knows down if the client is active, has an entry and is connected, and nothing
otherwise; nor has it one when it comes to a Leave (`Kept`), or while it has not been entered.
So a message that is dropped, or lost with its connection, was a press, or a release of a key that
is not down there, unless control had moved or the connection ended with a key down. `PipesLinked`
and `LeftBehind` tie pipes to connections and a Leave to a client that is not active. `Quiet`: an
event captured in quiet is the only one under way, and the switch is as the callback read it,
unless the event was marked when control was forced home; then control is home.

**`AppLifecycleProofs`** — `AppTypesHold`, `AppGrabHasOwner`, `AppCurrentIsOnly`,
`AppGrabKept`, for any number of commands. `Fresh` says where a command's session and handle
may be before it spawns and stores them; `Current`, while no commands have overlapped, that a
session alive is the one the task handle and the sink are of, or is about to be.

**`FileTransferProofs`** — `FileTypesHold`, `FileTempIsOwn`, `FileNoOrphans`,
`FileImplementsDrop`, for any number of transfers, failures and crashes. `OwnInv`: transfers that hold a
temporary file have tokens of their own, all of them drawn already, and one that has none has
received nothing. `DropInv`: a name that was reserved stays empty until the rename, and a
public name has nothing of a transfer or the whole of it. `OrphanInv` accounts for every
file that was not there before, whatever the disk does: by the task that holds it, has reserved it
(and may since have failed, the file still empty) or has finished it.

**`ClipboardProofs`** — `ClipboardTypeOK`, `ClipboardNoEcho`, `ClipboardInStep`. `Baseline`:
the thread's last text is what the clipboard has, except after a copy; `Orderly` adds to `InStep`
that an older session's thread can only write ahead of a text still on the wire.

**`NetProofs`** — of `TrustStore`: `TrustStoreTypeOK`, `TrustOneFingerprint`,
`TrustUnchangedIsAccepted`, `TrustPinKept`. `OneFingerprint` rests on `Consistent`: as long as
nothing was raced or failed, the file has all accepted fingerprints, except while its only
writer has them and every other store is stale. `PinKept` follows from a single step.

Of `Wire`: `DecodeEncode`, for every message that `IsMessage` admits and whose bytes are no more
than a field may have. It follows the codec upwards. What was cut off a number, gathered from
what was left, is the number (`GatheredBytes`), and what was left tells the sign
(`NumberRead`); a field somewhere in a buffer is readable there, ends where its bytes end, and is
what was put (`FieldRead`); so are fields one after the other (`FieldsRead`); the two tables
agree (`Tables`), no two opcodes are the same (`LetterFacts`), and the two greetings differ in
length (`GreetingLengths`). `Within` says where a sequence is in another and carries all of it.

Of `Framing`: `FramingInvariance`, `FramingEndsForReason`, `FramingImplementsChannel`, for every
set of sequences of messages. `EndsForReason` is not inductive, since it says nothing of where in
the stream the reader is. `FramingIInv` does: between messages it has taken exactly the frames of
the messages it has returned, inside one the header too, and it wants what is left of the frame
that comes next. So each read meets the bytes that were written there (`ReadHeaderReads`,
`ReadPayloadReads`), and the payload is decoded by `DecodeEncode`. The assumptions are that a
frame may not be longer than a field (both limits are 4 MiB) and that the writer is given
messages whose length fits the `u32` it is cast to. Induction is from least numbers, as in
`ServerMachineProofs`.

**Out of the prover's reach**: liveness and fairness (`DeadScreenLeft`, `Drains`, `SlotFreed`,
`SentIsPublished`, `Spreads`, `Arrives`, and the findings' `SilentPeerDropped`). These are
model-checked only. Every invariant and every other action property the passing runs check is
proved.

## 6. What is not modelled

* Status events and logging, which only inform. The status channel is written with
  `send().await`, so a reader of it that stops reading would block the controller.
* The re-centring of the real cursor while grabbed, key maps, and the injection calls and
  their failures; the application's injection thread, which only passes them on.
* Overflow of `i32` cursor sums: a position is within a screen and one motion of it. (Numbers on
  the wire above 31 bits are modelled; TLC does not evaluate them, the proofs cover them.)
* Of TLS the handshake's cryptography, which is rustls'; `MemoryTrustStore`, which only tests
  use and which is the same without the file.
* Of the desktop application the forwarding of status events (but the one that a client has
  ended) and the rendering of the user interface.
* Configuration and command line parsing: no state of their own. The one piece with behaviour, the
  capture sink that drops events, is in `InputPath`.
* Names and texts are values told apart and not strings; `sanitize_filename` accepts or rejects.

## 7. What could follow

1. The full composition of `InputPath` and `Runtime`: handshakes, keep-alives and two processes of
   one name beside keys that are down. `InputPath` has the connections that end and come back with
   keys down, and `Runtime` the rest, each without the other's state.
2. More transfers than slots, and `DeadScreenLeft` with two clients.
