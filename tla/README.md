# A TLA+ model of KasmVNC

KasmVNC is a VNC server that lives inside an X server (Xvnc) and serves web
viewers. This directory holds TLA+ modules for the parts of it in which order,
concurrency and timing decide about correctness, TLC configurations that check
them on small instances, and TLAPS proofs of most of the safety results for every
instance. Paths are relative to the repository; `rfb/` stands for
`src/common/rfb/`, `network/` for `src/common/network/`, `vnc/` for
`src/unix/xserver/hw/vnc/`.

## 1. The system

### Threads and how they meet

* **The main thread** is the X server's. `vnc/XserverDesktop.cc` is called when
  a socket is ready and, from `blockHandler()`, before every wait; it removes
  closed sockets, passes on the pointer position and runs `Timer` callbacks. All
  of `VNCServerST` and `VNCSConnectionST` runs here, so their handlers are atomic
  with respect to each other. What interleaves is the *order* of handlers:
  drawing by X clients, timers, messages and hang-ups of several viewers,
  nested screen resizes.
* **X clients** draw (through the hooks of `vnc/vncHooks.c`), resize the screen
  (RandR) and, in the case of `vncconfig`, answer questions by X requests.
* **Web server threads** (`network/websocket.c`) answer HTTP API calls, and proxy
  WebSockets to the RFB socket. They meet the main thread through
  `GetAPIMessager`: mutexes, an action queue, and polling.
* **The UDP thread** (`network/Udp.cxx`, with the vendored `webudp/`) accepts
  data channels and hands them to the main thread through the same queue.
* **Decoder threads** exist in the viewer library: `DecodeManager`.

### Components, their state, what makes them correct

| Component | State | Operations | Correct if |
|---|---|---|---|
| Update tracking: `UpdateTracker`, `ComparingUpdateTracker`, the trackers of server and connections | changed and copied regions, copy delta, `oldFb`, `copypassed` | `add_changed`, `add_copied`, `compare`, `getUpdateInfo`, `subtract`, `clear` | nothing drawn is ever forgotten; a copy's source shows what it should |
| Update scheduling: `VNCServerST::writeUpdate`, `VNCSConnectionST::writeFramebufferUpdate`, `EncodeManager`'s regions | frame timer, `blockCounter`, `desktopStarted`, requested and continuous regions, lossy regions, fences, send buffer, rights | frames, requests, resizes, flushes, timers | requests are answered, the framebuffer is not read while it is replaced, revoked rights are obeyed, updates are sent in the end |
| Sessions: `SConnection`, `VNCSConnectionST` | RFB state, access, session list | handshake, consent, `clientInit`, `close`, `removeSocket` | exclusive sessions are exclusive; consent is real |
| Opening: `SConnection`, `CConnection`, `SSecurity...`, `CSecurity...`, `rfb/Blacklist` | state, version, security type and layers of both ends; marks of a host | version, types, layers, result, init | the ends understand each other and come to the same end; who fails again and again waits longer and longer |
| QueryConnect: `XserverDesktop`, `vncExt.c`, `vncconfig` | one question, two timers, a dialog, messages under way | ask, notify, fetch, answer, time out | each question gets one outcome, for the right connection |
| Decoding: `DecodeManager` | work queue, buffers, worker states, exception | queue, decode, flush, destroy | same pixels as decoding in order; no lost wakeup |
| Input: key and pointer handlers | `pressedKeys`, `pointerClient` | events, lock keys, disconnect | no key or button stays down |
| Clipboard | owner, requestors, caches | announce, request, data | data goes to who asked, from who owns |
| API messager, users, rights | password file, mutex, inotify watch; statistics, screenshots | add, remove, update; statistics | edits are atomic and none is lost; a change of rights is noticed |
| WebSocket proxy | two buffers, partial frame | forward, close | bytes arrive in order, none lost |
| UDP transport | upgrade flag, client pointer | upgrade, downgrade, fragment | the channel belongs to the connection |
| Congestion, Timers, Streams, ScreenSet | windows, sorted list, buffers, layouts | -- | bookkeeping invariants |

`PROJECT.json` lists every component with its files and what is or is not
modelled, and every hazard at its line.

### What is hard here

1. A pixel passes three trackers and a viewer's screen; copies make the order of
   operations visible, and each viewer is at a different place in the stream.
2. An update can be put off for a dozen reasons (blocked, congested, no request,
   nothing pending, being read, a no-data update first, ...). Each return of
   `writeFramebufferUpdate()` relies on somebody else trying again.
3. Screen resizes run *inside* message handlers, nest, fail, and replace the
   framebuffer.
4. Consent is a three-party exchange without a shared identity: a connection is
   known by the address of its `Socket`.
5. Rights are re-read lazily, on a flag set by inotify.
6. Decoder threads run out of order on purpose.
7. Several books are kept of one thing under different names: a key by scan code,
   by symbol and by keycode; a clipboard by owner, by connection and by what is
   still on its way.
8. The password file is edited by threads with a mutex and a program without one,
   and replaced by rename under an inotify watch that goes with the old file.

## 2. Modules

| Module | Models | Extends |
|---|---|---|
| `UpdateTracker` | regions as sets of pixels; the operations of `SimpleUpdateTracker` | -- |
| `UpdateFlow` | the path of pixels from drawing to viewer | `UpdateTracker` |
| `UpdateFlowProofs` | theorems about it | `UpdateFlow`, `TLAPS` |
| `UpdateSchedule` | when updates are written | -- |
| `UpdateScheduleLive` | its fairness and liveness | `UpdateSchedule` |
| `UpdateScheduleProofs` | theorems about it | `UpdateSchedule`, `TLAPS` |
| `DecodePool` | `DecodeManager` | -- |
| `DecodePoolProofs` | theorems about it | `DecodePool`, `TLAPS` |
| `Session` | connections, consent, exclusive sessions, session list | -- |
| `SessionProofs` | theorems about it | `Session`, `TLAPS` |
| `Handshake` | the opening of a connection, both ends, and the blacklist | -- |
| `HandshakeProofs` | theorems about it | `Handshake`, `TLAPS` |
| `Input` | keyboard and pointer from the viewers to the X server | -- |
| `UserDb` | abstract: a list of users changed by whole requests | -- |
| `UserFile` | the password file, its editors and its reader; implements `UserDb` | instance of `UserDb` |
| `UserFileProofs` | theorems about it, the refinement among them | `UserFile`, `TLAPS` |
| `ByteChannel` | abstract: bytes arrive in order, each once | -- |
| `WsProxy` | `do_proxy()`; each direction implements `ByteChannel` | two instances of `ByteChannel` |
| `WsProxyProofs` | theorems about it, both refinements among them | `WsProxy`, `TLAPS` |
| `Clipboard` | selections, clients' and applications' clipboards | -- |
| `ClipboardProofs` | theorems about it | `Clipboard`, `TLAPS` |
| `MC...` | constants and symmetry for TLC | the module checked |

Two of them are two views of one loop. `UpdateFlow` has pixels and leaves *when*
an update is written to chance; `UpdateSchedule` has every condition on the way
and abstracts regions to whether they are empty. A result of the first (nothing is
forgotten) and one of the second (what is pending is sent) together say that
viewers converge.

**Seeded faults.** Definitions marked so (for instance `ContinueCopyTwiceMoved`
in `UpdateTracker`, `ClientInitUnchecked` in `Session`) are altered forms of the
definition that follows them, each the mistake one could make in that piece of
code: a dropped check, a forgotten reset, a swapped order. `PROJECT.json` pairs
each property with one of them; put in place of the original, TLC must find the
property violated. They are not part of any specification.

### UpdateTracker and UpdateFlow

State: `fb` (the X server's pixels), `comparer` (the server's tracker), `oldFb` and
`firstCompare` (`ComparingUpdateTracker`), `conn` (per connection its tracker,
`copypassed`, `requested`, `cuRegion`, `useCopyRect` and the viewer's screen) and
the history variable `frame`, the pixels at the last `writeUpdate()`.

| Action | Code |
|---|---|
| `Paint`, `CopyArea` | the hooks, `VNCServerST::add_changed/add_copied` |
| `SetPixelBuffer` | `VNCServerST::setPixelBuffer`, `pixelBufferChange` |
| `WriteUpdate` (uncompared, first compare, compared, with scroll copies) | `VNCServerST::writeUpdate`, `compare()`, then for every client `add_copied`, `add_copypassed`, `add_changed`, `writeFramebufferUpdate` |
| `Connect`, `SetEncodings`, `FramebufferUpdateRequest`, `EnableContinuousUpdates` | the messages of a viewer |
| `Write` | the retries: flushed socket, timers, end of message processing |

A pixel is a member of any set; the model only moves and compares pixels.
`Withhold` is the part of `writeDataUpdate()` that keeps back changes the next
frame will repeat. Scroll copies found by `compare()` (KasmVNC's addition) are
included under the constant `ScrollDetection`; the hashing that finds them is
abstracted to "some set of copies that is right for the comparer".

### UpdateSchedule

State: `comparer` (non-empty or not), `frameTimer`, `blockCounter`,
`desktopStarted`, which client is being read (`active`) and whether its
`setDesktopSize()` is in progress (`sizing`), the rights in the password file, and
per connection the flags that decide whether an update is written. Actions follow
the entry points: `FrameTimeout`, `Draw`, `RefreshClients`, `PreScreenResize` and
`PostScreenResize`, `RefreshScreenLayout`, `SetCursor`, `SetCursorPos`,
`AddSocket`, the messages of a client, `FlushSocket`, `LosslessTimeout`,
`VideoTimeout`, `ChangePerms`, `Close`, `RemoveSocket`. Encoding results, network
behaviour, refresh sizes and resize outcomes are choices from the constants
`Encodings`, `Networks`, `Refreshes` and `Successes`. The ghost field `leaks` of a
connection records that pixels were read where they should not be; `owed` that it has
had no answer to its last request. `Next` is the union of `Routine` and `Unsettling`;
`UpdateScheduleLive` adds the variable `settled`, set at some moment of every behaviour,
after which no unsettling action is taken (see Fairness in section 3).

### DecodePool

One action per section under `queueMutex`, with decoding outside the mutex split
into its read and its write. Condition variables are modelled as such: `wait`
releases the mutex, `signal` wakes one waiter, wakeups may be spurious. A pixel
shows the number of the rectangle it was painted with, so that "as if decoded in
order" is an equation between images. zlib streams are part of it: a stream used
out of order yields `Garbage`. `StreamAssumption` says that a stream belongs to one
kind of decoder and that this kind asks for an order: Tight keeps four streams and
is `DecoderPartiallyOrdered` (`rfb/TightDecoder.cxx`), ZRLE keeps one and is
`DecoderOrdered` (`rfb/ZRLEDecoder.cxx`); the others keep none.

### Session

State: `conn` by address of the `Socket` (RFB state, kind, and a ghost number that
tells apart connections at one address), `query` (XserverDesktop), `sessions`
(GetAPIMessager), vncconfig with the events on the way to it and the dialog, and
the answers on the way back. `Handshake`, `ClientInit`, `Close`, `RemoveSocket`,
`ApproveConnect`, `QueryTimeout` are server handlers; `HandleEvent`,
`ButtonActivate`, `DialogTimeout`, `HelperStarts`, `HelperExits` are vncconfig's.
A security type takes any number of messages; `Handshake` has them one by one.
`Reuse` says whether the allocator may hand out an address again. Answers carry, as
ghosts, the number of the connection they were meant for; `accepted` is what the user has
accepted, `consent` what let a connection in, and `strayed` the pairs of the connection an
answer or a timeout was meant for and the one at its address that it hit.

### Handshake

State: the configuration of the two ends (`setup`: lists of security types,
versions, password, TLS, consent), the state of `SConnection` and `CConnection`
(what each awaits next), the two streams between them, and for the host that
connects its entry in the blacklist and a clock. A security type is the sequence
of items it awaits (`ServerAwaits`, `ClientAwaits`); VeNCrypt is replaced by the
type chosen inside it, and stacks are longer sequences. What `GetEnabledSecTypes()`
leaves out leaves a gap: an offered list is a function on numbers, in order, and the
first common type is the one with the least number. `ServerVersion`, `ServerType`,
`ServerSecurity`, `ApproveConnection`, `ServerInit` and their counterparts
`ClientVersion` ... `ClientServerInit` are the branches of the two `processMsg()`;
`ServerBogus` is the exception for data while the user is being asked.
`ServerLost` and `ClientLost` are the ends that read something unexpected or the
end of the stream. `AddSocket` and `Refuse` are the two ends of
`Blacklist::isBlackmarked()`, in which `blockTimeout` has the width `Width`;
`QueryConnection` clears the marks. `let` is a history variable: when the host was
let through since it last authenticated. Doubling is the recursive function `Pow2`. Passwords are right or wrong; versions
5 and 7 belong to viewers other than `CConnection`.

### Input

State: per client whether it is there, may write, and its `pressedKeys` (by scan
code, or by symbol where the viewer gave none); `pointerClient`; the keyboard
device `kbd` (keys that are down, locks, its own `pressedKeys` by keycode, the map,
the bookkeeping of mapped symbols); whether the state of the locks is known;
buttons down. `KeyEvent` is the whole of `VNCSConnectionST::keyEvent()` with the
lock heuristic (`WrongLock`) and the left tab; behind it `KeyboardEvent` finds a
key (`KeysymToKeycode`, `FindKey`, `AddKeysym`), fakes modifiers and presses it.
`PointerEvent`, `ChangeRights`, `Connect` and `Disconnect` (which releases
all keys of a client, `ReleaseAll`) complete it. XKB is abstracted to a function
from keycode and modifiers to symbols.

### UserDb and UserFile

`UserDb` is the promise: `db` changes by one whole request at a time, if nothing failed. In `UserFile`
an editor (a thread for an API call, or `kasmvncpasswd`) goes through `Lock`,
`Read`, `Open`, `WritePart`, `Write`, `Rename`, `Unlock`; files are inodes, so that
opening a temporary file that somebody else has open, renaming it, and losing a
watch with the inode are what they are. Every file operation may
fail, as in the code without anybody being told: a file that cannot be opened for reading
is taken for an empty list (`ReadAs`) and the edit goes on; of a list whose writing fails a
part is left (`Remains`: some of the lines, the last perhaps without all of its rights) and
renamed over the good file; opening the temporary file and renaming fail without effect.
`Kill` ends the tool and `Crash` the server at any point. The ghost field `intact` of an
editor says that its own reading and writing have not failed. `ReadEvents` and `RecheckPerms` are the
two halves of what `writeUpdate()` does about inotify; where the file cannot be read the
user is not found, so nobody has rights. `UserDb` has three kinds of steps: an edit applied
whole, the beginning of a failure, and, only while one is on record, an edit that takes
users or rights away. The refinement mapping is `db <- inode[path]`, `failing <- Failing`:
some editor on its way to the rename is not `intact`. Assumed: after a write to the
temporary file has failed nothing more is written to it, and the watch can be renewed. `ToolsAlone` says that `kasmvncpasswd` is not run beside
other editors.

### ByteChannel and WsProxy

A frame on the wire is a sequence of bytes that know their frame and place in it,
so that reads can cut it anywhere; `tin`, `tout` and `cout` are the buffers.
`WriteTarget`, `WriteClient`, `ReadTarget`, `ReadClient` are the four parts of the
body of the loop in `do_proxy()`, each enabled as `select()` would enable it. Sends
are partial. The uninitialised `opcode` of a first read shorter than a header is a
choice of outcomes. Refinement mappings: what the client sent in data frames
against what the target received, and the reverse. `Payload`, the bytes of payload
in a piece of the wire, is defined by positions (`PayloadAt`, `Place`) rather than by
selecting from a sequence, so that the provers can reason about it.

### Clipboard

State: per connection its `binaryClipboard`, its timer, what it was last sent and,
in `joined`, how many copies had been made when it came or last sent a clipboard of
its own (what is older is not owed to it); `clipboardClient`; per selection its owner; `activeSelection`,
`probing`, `mimesFromClient` and `textFromClient` of `vncSelection.c`; per application
the requests it has not answered, what it holds and what its notification will find
(`answering`). An application answers when
it likes, also after it has lost the selection, or refuses; a change of owner
makes the server ask again. An answer is two requests to the X server, between which
others may come: `SetProperty` and `Notify`. The server asks everybody to put an answer of
one type into the same property of the same window, so an answer takes the place of each
of that type that is not yet notified; the beginning of an incremental transfer is denied
when it is read. `spoilt` remembers which copies such answers have cost. Assumed: an
application does nothing else to the clipboard between the two requests, lists of types are
not sent incrementally, a message names a type once, rights are fixed (`MayCut`), the limits of
data loss prevention are off.

## 3. Runs

| Run | Properties | Shows |
|---|---|---|
| `update_flow` | `TrackersExact` `InSync` `CopyRectsAccurate` `WholeFrames` | a viewer that is owed nothing shows the framebuffer; trackers and `oldFb` are accurate; copies read what they should; viewers see whole frames |
| `decode_order` | `BuffersOwned` `SequentialResult` `FlushReports` | concurrent decoding equals sequential decoding; buffers have one owner; failures are reported by flush |
| `decode_progress` | `EntriesDecoded` `MainWaitsEnd` | no lost wakeups, also when buffers run out and when the decoder is destroyed |
| `schedule_safety` | `ClockRunning` `DesktopNeeded` `RequestsKept` `BlockedUntouched` `RevocationHolds` | frame clock, desktop, requests, blocking, rights, for one client and everything that can happen to it, video included |
| `schedule_live` | `UpdatesSent` `LossRepaired` | without video, once things settle: frames leave the comparer and updates are sent, losses are repaired |
| `session_refuse` | `OneAtATime` `QueryPending` | exclusive sessions, with three connections that race |
| `session_query` | `SessionsListed` `ExplicitlyAccepted` `AnswersFit` `QueriesEnd` | consent, with addresses that are used again, the session list, and that no connection waits for the user for ever |
| `handshake` | `Understood` `Admitted` `BackOff` `HandshakeEnds` `Completes` | the two ends never misread each other, come to the same end, and into session exactly when they should; growing block times |
| `input_keys` | `KeysAccounted` `DragKept` `CaseMeant` | every key that is down is on the books of a client that is there; one client drags; the Caps Lock heuristic gives the case that was meant |
| `user_file` | `FileAtomic` `RightsTracked` `MutexReleased` | the file implements `UserDb`, whoever dies; what failures can do to it; no change goes unnoticed; the mutex comes back |
| `ws_proxy` | `InOrder` `FramesIntact` `LastWords` `UpDelivered` | both directions implement `ByteChannel`; whole frames; the server's last words arrive; nothing is held back |
| `clipboard` | `ClientBehind` `CopyArrived` | what an application copies reaches the clients unless its answer is denied or overwritten; what is pasted comes from the client behind the clipboard |

The type invariants (`TypeOK` of each module) say little by themselves. That of
`UpdateFlow` is a conjunct of `TrackersExact`, those of `UpdateSchedule`, `Session`,
`UserFile`, `DecodePool`, `Clipboard`, `Handshake` and `WsProxy` are theorems; that of
`Input` holds in the configuration above and can be added to it.

### Where the code and its description disagree

Each line shows when the named configuration is changed as stated; TLC then finds
the property violated.

| Code | What happens | Against | To see it |
|---|---|---|---|
| `rfb/VNCSConnectionST.h:132` | scroll copies reach viewers that do not show their source yet | `doc/rfbproto.rst:2788` on CopyRect | `update_flow` with `ScrollDetection = TRUE`, `MaxScrolls = 1`: `CopyRectsAccurate` |
| `rfb/VNCSConnectionST.cxx:1608` | what is left of a copy after a partial update reads pixels that the part has overwritten | the same | `update_flow` with parts of the screen in `Requests`: `CopyRectsAccurate` |
| `rfb/VNCSConnectionST.cxx:1551` | UDP mode encodes a full frame during a resize | `rfb/VNCServerST.cxx:1204` | `schedule_safety` with `FullFrames = {TRUE, FALSE}`: `BlockedUntouched` |
| `rfb/EncodeManager.cxx:368` | in video mode a request is cleared although nothing was sent; changes that wait when the mode ends make up for it at the next request | -- | `schedule_safety` without `conn[c].video \/ conn[c].updates` in `RequestsKept` |
| `rfb/EncodeManager.cxx:956` | leaving video mode marks the screen, and nothing tries to send it | -- | `schedule_live` with `MovingImages`: `UpdatesSent` |
| `rfb/VNCSConnectionST.cxx:1298` | while a slow viewer's socket is drained for one pointer position after the other, its changes are put off, for ever if the positions do not end | -- | `schedule_live` with `SetCursorPos` under `Routine`: `UpdatesSent` |
| `rfb/EncodeManager.cxx:655` | a lossless refresh that stopped at its limit is not continued on a quiet screen | -- | `schedule_live` with `"part"` in `Refreshes`: `LossRepaired` |
| `vnc/XserverDesktop.cc:492` | an acceptance is applied to a later connection whose `Socket` has the same address | `vnc/Xvnc.man:509` | `session_query` with `consent[s] = conn[s].number` in `ExplicitlyAccepted` |
| `vnc/XserverDesktop.cc:576` | the timer of a question whose connection has gone closes a later connection at that address | -- | `session_query` with `strayed = {}` for `AnswersFit` |
| `rfb/SConnection.cxx:98` | before 3.8 and without authentication, a viewer that goes on at once is closed for "bogus data" if the user has yet to answer | `rfb/SConnection.h`: `approveConnection()` may come "some time later" | `handshake` without the exception in `Completes` |
| `src/unix/kasmvncpasswd/kasmpasswd.c:86` | writers share the name of the temporary file, and the tool has no mutex: edits are lost or mixed | `kasmvncpasswd.c:43`: "updated atomically"; `network/GetAPIMessager.cxx:312`: "keep things in sync" | `user_file` with `ToolsAlone = FALSE`: `FileAtomic` |
| `src/unix/kasmvncpasswd/kasmpasswd.c:100` | writing is not checked, and what is there of the list is renamed over the good file; a file that cannot be read counts as an empty list (13), which the edit then writes back | the same | `user_file` without `Lose` in `UserDb`: `FileAtomic` |
| `vnc/vncSelection.c:535` | all owners are asked to answer in one property, which is read at the notification (576): a late answer overwrites the new owner's before it is read, and the new copy is lost | -- | `clipboard` without `\ spoilt` in `CopyArrived` |
| `vnc/Input.c:728` | with two keys for a symbol, a press by symbol forgets the other key without releasing it | -- | `input_keys` with a symbol on two keys: `KeysAccounted` |
| `rfb/VNCServerST.cxx:596` | an application's late answer leaves the server holding CLIPBOARD with nobody behind it; a paste reads data and length that were not set | -- | `clipboard` without `activeSelection # "CLIPBOARD"` in `ClientBehind` |

Smaller observations, all in the models but without a property of their own: data
that arrives in one read with a close frame is dropped (`network/websockify.c:194`);
the result of `ws_send()` is not checked (129); `textFromClient` outlives the text
(`vnc/vncSelection.c:226`); a client's clipboard message replaces what was collected
for it before its right is checked (`rfb/SMsgReader.cxx:270`); a rejection inside
`queryConnection()` sends two results (`rfb/SConnection.cxx:225`); Shift stays faked if level
three cannot be (`vnc/Input.c:709`); buttons of a client that leaves stay down
(`rfb/VNCSConnectionST.cxx:149`); opening the temporary password
file or renaming it can fail silently (`kasmpasswd.c:91`, 111); data that an application sends
incrementally is denied (`vnc/vncSelection.c:588`); `NeverShared` with `DisconnectClients` (the
default) closes the client that is served (`rfb/VNCSConnectionST.cxx:741`) where
`rfb/ServerCore.cxx:76` speaks of refusing the new one.

### Bounds, and why they are enough

* `UpdateFlow`: two pixels in a row, two colours, copies by one pixel either way,
  one viewer. Viewers do not interact (a connection reads the server's tracker
  and writes its own), and the proofs cover all sizes and any number of viewers;
  the run is there to find mistakes early and to carry the seeded faults. Two
  pixels suffice for a copy whose source is changed before, after and between
  frames, and for copies that leave the screen.
* `UpdateSchedule`: one client with two nested resizes and every kind of network
  and encoding; for the liveness run one resize at a time, still images and
  lossless refreshes that are whole. Clients meet only in the clock, the desktop
  and the resize one of them asks for. Several clients, and clients that do not
  understand a resize and are closed by it, are covered by the proofs, which hold
  for every `Clients` and `CanResize`.
* `DecodePool`: two workers, hence four buffers, and four rectangles over three
  pixels with both kinds of ordered decoders; for liveness five rectangles of one
  kind, so that buffers run out. The assumption behind the bound is that a
  conflict is between two rectangles, with a third in between.
* `Session`: three sockets and three connections (two of each in `session_query`,
  which also checks liveness and so cannot use symmetry; either socket may be the address
  of both connections), up to two answers under way,
  which is what one dialog can send (a click and its own timeout). Connections
  are bounded, so a run may end: deadlock is not checked there, nor in `Handshake`,
  where a run ends in session or closed. In the other modules it is.
* `Handshake`: six lists of types on either side (nothing in common, inside or
  outside VeNCrypt, either order), all versions, both outcomes of each choice; a
  host that connects six times, with three bits for its block time, which wraps
  within the clock's eight ticks.
* `Input`: two clients and four keys: a letter with two levels, Shift, Caps Lock and
  an unused key, which an unknown symbol takes. The letter is sent with its scan
  code or without. Two clients are needed to hold one key in two ways.
* `UserFile`: two threads and one tool, two users, one password, one kind of right (a line is
  cut off before its rights or within the lines), and three requests that differ in what
  they ask of the list; two inodes are enough, since a replaced one is free again.
* `WsProxy`: frames of up to three bytes of payload (one does not fit into the
  buffer), three bytes up and two down: a frame can be cut at every place and two
  frames can share a read.
* `Clipboard`: two clients, one of which may cut, two applications that copy text or an
  image, three copies:
  a third is needed for a late answer to meet a clipboard that has changed hands
  twice.

### Fairness

* `UpdateSchedule!Fairness`: resizes end; each turn of the main loop removes dead
  sockets and runs due timers, so timers and removals are strongly fair; message
  loops end because input runs out; a socket with unsent data becomes writable
  because the viewer reads. Drawing, requests and arrivals have no fairness, and may
  go on for ever, as may full sockets and their draining. What must end is in
  `Unsettling`: resizes of the screen, by X clients or by the viewer, changes of the layout
  and of the cursor, pointer positions, and requests for a whole update. Each of them
  gives the connection something else to send that can fill its socket, or its last turn,
  at the moment the pixels could have gone; left to go on for ever, any one of the six
  alone violates `UpdatesSent` or `LossRepaired`, so none is excluded without need. That they end
  is said by a variable (`settled`), set once, not by a condition on steps.
* `DecodePool`: weak fairness for every thread: a runnable thread runs.
* `Session`: a timer expires (weak fairness of `QueryTimeout`), nothing else:
  neither the user, nor vncconfig, nor the network need do anything.
* `UserFile`: an editor that can take its next step takes it (threads run, file
  operations return). A mutex is not assumed to be fair, nor need anybody call.
* `WsProxy`: each of the four parts of the loop, because `select()` reports every
  ready socket and the loop looks at all of them in each round. The peers need do
  nothing.
* `Handshake`: either end reads what has arrived; the user answers in the end (the
  question has a timer). The host need not try again.

## 4. Proofs

`tlapm` checks all of these from nothing; no step is left out.

**UpdateFlowProofs**, for all sizes, pixel sets, displacements and numbers of
connections, assuming `~ScrollDetection` and `WholeRequests` (a viewer that uses
CopyRect asks for the whole screen; the first two lines of the table of
disagreements in section 3 say what happens otherwise). `InSync` is not inductive: a viewer is right because its tracker says
what is missing, and that is right because the server's tracker is. The inductive
invariant `IInv` therefore says of the comparer that it describes the difference
between the last frame and `fb`, of `oldFb` that it is the last frame once
comparing has begun, and of each connection that its tracker describes the
difference between its viewer's screen and the last frame (`TrackersExact` is the
part of it that TLC checks). `Tracks(t, old, new)`
is the notion of a correct tracker; the central lemma, `AddCopiedTracks`, says
that `add_copied` keeps it in all of its branches. `ViewersInSync`,
`TrackersAccurate` and `CopiesAccurate` (the copies still to be sent) follow.
`FramesWhole` is about steps: a viewer's screen changes only when nothing is pending
in the comparer, so that the last frame is the framebuffer, and the update then
leaves nothing in the connection's tracker, so that the screen is it too. It assumes that every viewer asks for the whole screen,
which is what the property is about.

**UpdateScheduleProofs**: `IInv` is the state of the clock (it runs iff the
comparer holds something that may be sent), an invariant of each connection by
itself (`ConnOK`, which links state, requested areas, leaks and rights), and
`DesktopNeeded`. A connection is changed by a chain of operators, so there is one
lemma per operator, and the steps of `Next` only combine them. Unconditional:
`TypeCorrect`, `ClockRuns`, `DesktopFollows`, `RevocationObeyed`, `RequestsAnswered` (video
mode included, whose end marks the screen for every request that was forgotten in it).
`BlockingWorks` assumes that no UDP full frame falls due: with one, the code does something
else, see section 3.

**SessionProofs**: `TypeCorrect`, `OnlyTheQuestionWaits` (`QueryPending` is
inductive with the types), `OneClientAtATime` for both settings of
`DisconnectClients`; all theorems of this module hold even if addresses are
reused. For `SessionListRight` the list is refreshed when a client comes to be
served and when an authenticated one is closed; in every other step no client comes to
be served and none that is authenticated goes, so the list stays right.
`ConsentGiven` and `NoStrayAnswer` say what consent amounts to when addresses come back: who
is let in has been accepted, or an earlier connection at its address has, and an
answer can hit only who came later than the one it was about. Their inductive
invariant `ConsentInv` says that question, dialog and answers are about the connection that is
at their address or about an earlier one (`About`), none about a later one than the question
on record there, that what accepts was accepted by the user, and that the connection of an
open question, if it is still there, has not been let in.

**UserFileProofs**, for any number of threads, tools, users, inodes and requests,
assuming `ToolsAlone`. The inductive invariant is `Consistent`: at most one editor is
between reading and renaming (`OneEditor`: the mutex for threads, the assumption
for tools), the list in its memory is the file with its request applied
(`ListsCurrent`), the temporary file is its own and complete when it is renamed
(`TmpOwned`), and the watch is on the file or an event waits (`WatchKept`).
`FilesConsistent` proves it; `RightsFollow` is a part of it, and
`FileIsAtomic` is the refinement `Spec => D!Spec`: of all steps only `Rename` changes
what `db` is mapped to, and by `ListsCurrent` and `TmpOwned` it changes it by the
request. Failures are steps like the others: what an
editor holds is its request applied to the file or to nothing, what it renames is that or
what `Remains` of it, and where the two differ from the edit as it should be `intact` says
so (`Applied`, `TmpOwned`). Two results need no
assumption: `TypeCorrect`, and `MutexNeverOrphaned`, that the mutex is held exactly while
a thread is on its way to releasing it, through all early returns, failures and crashes.
That is the safety half of `MutexReleased`; that the thread goes on is fairness.

**DecodePoolProofs**, for any number of worker threads, rectangles, pixels and
streams. The queue changes in the middle, so the invariant speaks of the *set* of
entries still pending, each with the history of what it must produce (`result`, what
decoding in order would give it). Its parts: entries are sorted by arrival and belong
to at most one thread (`JobsFit`); an entry that a thread has taken shares no pixel and
no stream with an earlier one still pending (`Separate`: this is what `findEntry()` and
its conflict test achieve); a pixel that no pending entry will write has the value of
sequential decoding, and one that some will is written last by the right one
(`EndsRight`); what an entry is going to read is the result of the last earlier writer,
or there already (`CopiesRight`, `StreamsRight`). After a failure that is not reported
yet nothing is claimed about pixels, only that the exception is recorded
(`FailuresKnown`). `BuffersNeverShared`, `DecodedInOrder` and `FailuresReported` follow,
the last as an action property.

`NoWakeupLost` is the safety half of `EntriesDecoded` and `MainWaitsEnd`: the code says of
its signals that waking a single thread is sufficient (`rfb/DecodeManager.cxx:183`, 293).
The invariant behind it counts: either no worker waits, or the entries that may be decoded
now are at most as many as the workers that are about to look at the queue (`EnoughLook`);
an entry that is marked has a worker (`ActiveHeld`), and none stops before the queue has
been drained for the last time (`StopsLate`).

**HandshakeProofs**, for all lists of security types of any length, all versions, any
number of attempts. `ServerSound` and `ClientSound` say what each end has made sure of by
itself and keeps when the other is gone: a server that asks or serves has checked the
password if its type has one. `Conversation` says what holds while both are there: the
connection is half duplex in effect, and the states, the items awaited and the items
under way are one of about thirty combinations, from the greeting through the layers of
the chosen type to its outcome. Items are sent ahead in three places only: Plain sends
its credentials with the choice, a viewer that expects no result its ClientInit, and a
3.3 server the challenge with the type. `EndsUnderstand` and `SessionsAdmitted` are read
off it. That a choice from two lists is in both needs the least element of a set of
numbers, which the library's well-founded induction gives (`Least`). `NeverBothWait` is
read off it too: in each of the combinations one end finds what it awaits or has yet to
speak, so the opening cannot deadlock; this is the safety half of `HandshakeEnds`.
`AttemptsBackOff` is about the blacklist: the host's entry is a function of how often it
has been let through since it last authenticated and of when that was (`Marked`), and its
block time is the initial one doubled that often as long as this fits the counter's width;
beyond it nothing is claimed. The recursion equation of `Pow2` is proved, not assumed
(`DoublingExists`, `DoublingUnique`).

**ClipboardProofs**, for any number of clients, applications and copies. `TypeCorrect` is
unconditional. The other two assume `~SendPrimary`, the default
(`vnc/vncExtInit.cc:115`): otherwise a copy to PRIMARY replaces what CLIPBOARD has
brought to the clients, and `CopyArrived` would have to speak of both. The invariant
says that only CLIPBOARD is asked for (`OnlyClipboard`), that an application which is about
to notify brings what it holds unless another has taken its property (`OwnAnswer`), that the client behind the
clipboard is there and its first entry of each announced type is its own (`Behind`), and
that a copy that is owed to a client is about to be asked for, asked for with no
probing in between, or collected with a timer running or sent, or `spoilt` (`OnTheWay`).

**WsProxyProofs**, for all sizes of buffers and frames, without further assumptions.
Bytes are numbered when they are sent. `Carries(s, a, c)` says that the payload in `s` is
the bytes after number `a` up to `c`, in order; it can be cut anywhere and put together
again (`CarriesSplit`, `CarriesConcat`), which is all that partial reads and writes do.
The invariant gives each buffer its range of numbers (`UpRight`, `DownRight`), says that
frames follow one another whole (`FramesRight`) and that buffers have room (`RoomLeft`).
Of a client whose connection was reset it keeps only what that client already has: the
code goes on with a miscounted rest there. `FramesStayWhole`, `LastWordsArrive` and
`NoByteLost` (the books of either direction balance, and `tin_buf` keeps only the
beginning of a frame: the safety half of `UpDelivered`) follow from it; `BytesInOrder` is
the refinement `Spec => Up!Spec /\ Down!Spec`, every step being a step of the channel or
none.

Only model-checked: everything under fairness (`schedule_live`, `decode_progress`, `QueriesEnd`, `MutexReleased`, `UpDelivered`, `HandshakeEnds`,
`Completes`), since liveness and `ENABLED` are outside what the prover can do; for
`EntriesDecoded`, `MainWaitsEnd`, `MutexReleased`, `UpDelivered` and `HandshakeEnds` the
theorems named above give the part that is safety. And all of `Input`: `KeysAccounted` and
`CaseMeant` hold for a keyboard with one key per symbol (section 3), so a theorem about
them would be about that layout and the search through it, which TLC goes through as it
is; `DragKept` is checked with them.

## 5. What is not modelled, and the plan

Not modelled because there is no protocol state in it: pixel formats, encoders and
decoders as compression, scaling, logging, option parsing, start-up scripts,
packaging; vendored code (`webudp`, `cJSON`, `tinyxml2`, `Xregion`); the Windows
server. HTTP and TLS parsing is byte-level input handling. The X server's drawing
wrappers (`vncHooks.c`) report what they draw; which call reports which region is
not modelled beyond `Paint` and `CopyArea`. These make up most of the lines of the
repository; the models stand for the part of it in which order matters.

Not modelled yet, each with state worth modelling: frame statistics and screenshots
of the API (`GetAPIMessager`), the blacklist of the web server
(`network/Blacklist.cxx`), the UDP upgrade (`VNCServerST`, `Udp.cxx`), the window
arithmetic of `Congestion`, the sorted list of `Timer`, the buffers of `rdr`, the
matching of screens to outputs (`RandrGlue`, `ScreenSet`).

Next, in this order:

1. Proofs: the properties of `Input`, with an assumption that no symbol is on two keys.
2. Frame statistics: the web thread that polls and the main thread that may put a
   request back.
3. The UDP upgrade, with two clients behind one address.
4. A composition of `Session` and `UpdateSchedule` over the RFB state they share,
   with `Session` as the environment of `UpdateSchedule`'s arrivals and ends.
