# TLA+ models of the Flotilla Daemon

The Flotilla Daemon (`src/Flotilla`) connects Flotilla docks, which are USB serial devices with up
to eight modules each, to clients, which are websocket connections. This directory holds TLA+
modules that model it, TLC configurations that check them on small instances, and proofs, checked by
TLAPS, that hold for every instance.

## The system

| part | code | state it keeps | operations |
|---|---|---|---|
| module: a channel of a dock | `Flotilla_Module.cpp` | `state`, `name`, `command_queue` (dock to clients), `update_queue` (clients to dock), `last_update` | `connect`, `disconnect`, `queue_command`, `get_next_command`, `queue_update`, `get_next_update` |
| dock | `Flotilla_Dock.cpp` | `state`, `port`, identification, its modules, `event_queue`, `command_queue` | `tick`, `process_command`, `set_port`, `disconnect`, `get_pending_events`, `get_pending_commands` |
| dock scan | `Main.cpp` 159-272 | none of its own: the slots' states and ports | `update_connected_docks`, `scan_for_host` |
| clients | `Flotilla.cpp`, `Flotilla_Client.cpp` | the map `clients`; of each `ready` and `dock_subscription` | the websocket handlers, `init_client`, `send_to_clients` |
| life cycle | `Main.cpp` 132-157, 285-339, 431-607 | `running`, three threads, the pid file | `main`, `sigint_handler`, `stop_server`, `cleanup` |
| discovery | `Discovery.cpp`, `Main.cpp` 305-325 | the HTTP client's socket and deadline, `seconds`, `canonical_address` | `discover_ipv4`, `worker_ip_notify` |
| a websocket connection | `websocketpp`: `connection_impl.hpp`, `transport/asio/connection.hpp` | `m_state`, `m_internal_state`, `m_was_clean`, timers, send queue, write flag, outstanding read and write | `start`, reads, writes, timers, `send`, `close`, `terminate` |
| a conversation with a client | `websocketpp`: `http/`, `processors/`, `frame.hpp`, `close.hpp`, `utf8_validator.hpp`, `connection_impl.hpp` 1013-1269, 1894-2164 | the request so far, the frame and message being read, `m_state`, `m_was_clean` | `consume` of the request, hybi13 and hybi00, `process_handshake_request`, `process_control_frame`, `send_close_frame`, `prepare_*` |
| endpoint | `websocketpp`: `server_endpoint.hpp`, `transport/asio/endpoint.hpp` | `m_state`, the acceptor | `init_asio`, `listen`, `start_accept`, `stop_listening`, `stop` |

Four threads share this state:

* the asio thread, which is also `main()`, runs the websocket handlers, timers and completed reads and
  writes one after another; a signal handler interrupts it;
* `worker_update_clients` calls `tick` of every connected dock (write updates, process lines), then
  sends events and commands to the clients, every 5 ms;
* `worker_dock_scan` looks at the serial ports every second, disconnects docks that have gone and
  opens new ones;
* `worker_ip_notify` tells the discovery service where the daemon is, with an io_service of its own.

A dock's mutex protects its two queues, a module's mutex its two queues, and `mutex_clients` the map
of clients while it is iterated over, inserted into or erased from: except in `stop_server`. `state`, `name`,
`port` and the fields of a client are not protected. Of the websocket library, the daemon's two threads share
a connection's send queue and states, each with a mutex. That is where the difficult behaviour is: states read
once and used after they have changed, ports closed under a reader, snapshots overtaken by events, a
handler that waits for a mutex another thread hardly ever gives up, a write that completes while a
message is queued, a timer that expires while the event it guards arrives. The `hazards` of `PROJECT.json`
list it line by line.

## The modules

```
Mailbox  <== FlotillaModule            one module, its two queues, three callers
             ModuleEvents              one dock, its events, clients
             DockSlots                 all slots and ports, threads
             DockLink                  one slot's serial line, handshake and commands
Session  <== Connection                one websocket connection, two threads
Frames <-- Outbound <-- Hybi00 <-- Inbound <-- Conversation
                      HttpLists <--'   what a client sends, and what it is answered
             Discovery <-- Daemon      main(), the server, all threads, signals
      <== implements   <-- EXTENDS
```

`Mailbox` is an abstract specification: what a queue of a FlotillaModule promises. Values are posted;
taking one never goes back to an older one; a lossless mailbox takes what is oldest unless it is dropped. The queue
towards the clients implements `Spec`, where all that is pending may be dropped at any time (that only `connect` and
`disconnect` do so is part of `TouchSkipsNothing`); the one towards the dock implements `KeepSpec`, where nothing is.

`FlotillaModule` is one module with its three callers. Steps are critical sections of its mutex and
the reads made outside it: `get_next_command` looks at the queue's size before it locks
(`CheckCommands`) and may find the queue empty when it has locked (`TakeFromEmpty`: undefined
behaviour, modelled as a crash, an empty value or garbage), and `disconnect` writes the state before
it locks (`ScanModule`, `ScanEmpty`). Values are members of a set; each queued item carries the number of its report or
post, which nothing in the model's guards reads.

`ModuleEvents` is one dock, its event queue and the clients. The update thread turns lines into
states, names and events, collects what is to be sent and sends it message by message, client by
client; the scan thread disconnects the dock, module by module; the asio thread handles the clients
and runs `init_client`, which reads a module's state and name in separate steps without a lock. A name
being written reads `Torn`. A step is a critical section or an unlocked access. Three things are atomic
because splitting them adds no outcome: an event composed by the update thread itself (only the
scan changes what it reads, and it queues an event of its own afterwards), the choice of
modules in `get_pending_commands` (the scan only disconnects, in the order in which they are read),
and `connect`'s `empty_queue` (`FlotillaModule` has it). Data packets are abstracted to "module `ch`
reports".

`DockSlots` is all slots, the serial ports and the threads from `main()` to `cleanup()`. A port is what
`sp_copy_port` returned and goes through copied, open, closed and freed. Ports are plugged and
unplugged at any time; opening may fail, a handshake may lose lines; the scan's list of ports may be
outdated when it is used. A call of libserialport in `tick` begins and ends in separate steps. A failure of
`sp_list_ports` is not an action: nothing happens until the next scan. `libserialport` and the USB bus are external.

`DockLink` is one slot's serial line in detail: `sp_readline` gives what it has after a second without
a byte, so the dock may pause anywhere in a line and the line is read in pieces. `get_version_info` reads
the identity line by line (a lost or unexpected line leaves a field as the slot's last dock had it);
one channel and its module are there as far as lines need them: where the data of a line begin is computed from the name
the module has, which `connect` keeps when the module is connected already;
`tick` writes queued commands under the dock's mutex, sleeping, while `queue_command` on the asio thread
waits for it. Pieces of lines and empty ones reach `process_command`, where they may throw, and so may whole ones: a bare
"#", and data of a module whose name is shorter than the one kept. `DockSlots`
keeps the ports; here the scan does not interfere.

`Session` is what a websocket connection promises to the daemon: of the fail and open handlers one is
called, once; the close handler once, after the open handler; what was accepted goes out in order and
nothing after the frame that ends it. `Connection` is websocketpp's connection and its asio transport with
the asio thread and the update thread: a step of the asio thread is one handler (completed reads and writes, timers,
`write_frame`), cut where a daemon's handler waits for `mutex_clients`; `send` is cut where it gives up one of its two
locks. Timers that have expired can no longer be cancelled.

`Frames` is `hybi13::consume`: header (with the reserved bits, which no extension uses), extended header and payload, cut by reads of any size; masks
that go on from read to read, the UTF-8 decoder's state, control frames between the parts of a message. A byte is a
record that says what its sender meant it to be, so a decoder that loses its place reads garbage rather than something
plausible. `Outbound` is the way back: the headers and frames that hybi13 prepares, what it refuses to send, and the
codes of close frames. `Hybi00` is the old protocol, both ways: it shares the variables of `Frames`. `Inbound`
puts the HTTP request in front: lines cut anywhere, the header limit, a body, the headers that decide which protocol is
spoken and whether the handshake is valid, the answer, the subprotocols asked for, and the bytes after the request that are already frames. A
handshake of version 0 is answered with 500 when the read that completes the request does not bring the eight bytes
after it ("TODO: need more bytes", `connection_impl.hpp:882`): `KeyCutOff`. `HttpLists` reads the values of headers: the host with its
port, and the lists of extensions and subprotocols, character by character, as a sequence of functions from a text to what is
left of it. There is no extension to agree on and nobody asks which subprotocols were requested, but a list of
extensions that cannot be read refuses the handshake, one of subprotocols does not. `Conversation` adds what the
messages lead to: pongs, the closing handshake from both sides, errors, and Flotilla's answers to "ready", "hello" and
"quit". A message is dispatched as soon as it is complete, before the rest of the read is looked at. An exception of
`send` in `init_client` ends the daemon (`aborted`): hybi00 refuses the BINARY identity of a dock, any protocol a module's name
that is not UTF-8. What runs at the same time (the update thread, timers, writes in progress) is in `Connection`, which
in turn takes frames for granted.

`Discovery` is the HTTP client with which addresses are registered: every operation runs its own
io_service until its handler has run; `check_deadline` is a handler like the others and may run late. Time passes in ticks, of which every
operation is given the same number. An answer is read until a line says that all is well, so a registry may send lines for ever.
`Daemon` EXTENDS it with `main()` from the command line options on (the pid file is tried, the process forks twice,
redirects its streams and writes its pid; each of these may fail, and a signal ends a process that has not installed its
handler yet), `stop_server` (from "quit" and from a signal at any moment, between two handlers or
while one waits), the acceptor, the map of clients, the connections as the daemon sees them and the workers
up to `cleanup` and the removal of the pid file.

`MC...` modules give TLC's values, `...Proofs` modules hold the proofs.

## What is checked with TLC

| run | result | what it shows |
|---|---|---|
| `module` | passes | both directions implement `Mailbox`; nothing a module reported before it was unplugged reaches clients as the next module's; what stays in the queue is not sent again; of every value, that one or a newer one is looked at unless the module stops being served; no value of a touch module leaves a queue before it is looked at, unless the module goes or comes |
| `module_latest` | violated | the oldest queued value is written, against the comment of `Flotilla_Module.cpp:85` |
| `events` | passes | the last event queued about a channel agrees with the channel; a client that got all events sees the truth; data comes after the module's connect event; `send_to_clients` never meets an erased client |
| `events_ready` | violated | a paused client may be sent one more update, against `Flotilla_Client.h:14` |
| `slots` | passes | one slot per port; Connected means open; ports are closed and freed once; docks that answer are served, gone docks lose their slot, the daemon stops |
| `slots_leak` | violated | a failed handshake loses an open port, against `libserialport.h:507` |
| `slots_use` | violated | the scan may free a port `tick` is using, against `libserialport.h:104` |
| `connection` | passes | no message waits in the queue with nobody to write it; in every state that must not last a timer runs or an event is due; the connection reads on; one write at a time; it implements `Session`; the open and the closing handshake end whatever the client does |
| `conversation` | passes | however reads cut a request and frames into pieces, the answer is that of the whole, but for the key of hybi00 and for requests that one read can take beyond the limit, and so are the messages, errors included, up to a text of several frames that ends within a character; hosts and lists in headers are understood as they are meant; a message never exceeds the limit; a strict client can read all it gets, and gets what was sent; pings are answered, and the end is announced by a close frame with the right code, after which no data comes; nothing is waited for that is not needed |
| `conversation_texts` | violated | a text of several frames that ends within a character is delivered, against `hybi13.hpp:435` |
| `daemon` | passes | the map of clients is that of open connections; a first `stop_server` throws only between the end of a client that left and its close handler; an operation is only cut off when it has had all of its own time; after a request to stop every thread ends, and `cleanup` runs, unless the registry sends lines for ever |
| `link` | passes | a dock's identity is its own, but for the serial; a line ends the daemon only if it was cut, if the dock has gone, or if the dock sent a bare line or data of a module it had not announced; commands are written; `queue_command` returns |

Type invariants are proved where there is a proof module (see below) and are then not checked by a run a second time.
Every property of a passing run has a mutant: a change to the model that a bug in the code could make,
which TLC finds (`mutants` of `PROJECT.json`).

Bounds. `module`: two values, a volatile and an ordinary name, two reports, three posts and two
connections: three posts make a queue from which both the pop and the flush remove something, two
connections make a second session. `events`: two channels, one client, one name, and no line read while an
event is queued; with the scan's this still gives two queued events, about one channel or both. Instances with two
clients, with two names, and with two lines' events queued (one channel each) pass as well. `slots`: two slots, two
ports, one of which may fail at any step. Three ports pass the invariants too (six million states); the
liveness properties are checked with two.
`connection`: every frame on its own, and after a client is ready the pairs of which the first changes what
the second meets; two messages of the update thread, so that one can be queued while another is written.
`conversation`: sizes scaled down (a basic size of 3, which leaves a close frame one byte for its reason, keys of 2 bytes,
messages of 5), and in the code's order: a read may take one byte more than the limit of a header (16384 and 16000 in the code). That
limit is 20, so that most requests are shorter than it, some are as long, and some longer, alone or with what follows. The streams are all
sequences of three frames from sets chosen so that every continuation and every cut in a two-byte character
occurs; frames with every error, and what follows them; all sequences of "ready", "quit", a ping, close frames and an error, two of them and then
"quit", a ping or a close frame; a close frame with every code at an
edge of a range, and with every kind of reason; pairs of hybi00 messages, good and bad; handshakes of every version, with and
without the headers they need; requests with bodies, keys or frames right after them; hosts of every form with ports at the edges of what is one; lists of up to two parameters
with attributes, quotes, escaped quotes and blanks, and lists with one mistake each. Messages to be sent have sizes on both sides of the basic size. `daemon`: a daemon that forks, a period of one second, one address, two request lines, an answer without end of which a read brings one or two lines, two clients and two requests to
stop: the second one finds the first under way. `link`: two docks at one slot, two commands (one waits while the other
is written), two handshakes (the second finds what the first left). One dock has a module with a long name;
one finds two modules in the same channel and sends data of the first; one loses a module and sends a bare line. The last two send no serial, so that they
connect only after the first.

Fairness. `module` and `slots` assume that every thread keeps running, and that a dock pauses at
times so that `tick` returns: the loop of `Flotilla_Dock.cpp:93` never ends otherwise, and nothing in the
code bounds it (listed as a hazard). `slots` also assumes that a call of libserialport returns. Clients, users and
docks are under no obligation: no action of theirs is fair. `DockConnects` is about docks which answer and whose
port the library opens whenever it is there and no copy of it was lost. `events` has safety properties only. `connection`, `conversation`, `daemon` and `link` assume weak fairness of what runs by
itself: handlers in the asio queue, timers, the workers' loops, a call of libserialport or of `resolve` that returns. A thread that waits for
`mutex_clients` gets strong fairness: the update thread gives it up and takes it again every 5 ms, so it is free
infinitely often, never for good; what the code relies on is that a waiting thread gets it some time. The same holds for the lock of the dock's mutex. Clients, the
registry and the peer's side of a write are never fair: timers must do.

Deadlock is checked in `events` and `daemon` (which may stutter only when it has ended). In `module` and `link` the daemon may
crash, in `slots` it ends, in `connection` and `conversation` the connection does.

`ViewCurrent` excludes a client whose snapshot an event overtook: `init_client` reads a
module, the update thread sends a newer event, and then the older snapshot arrives. Such a client is
wrong until the module changes again. `UpdatesAfterConnect` allows for a client that `init_client` has
already told that the module is gone.

## What is proved

For every value of the constants:

* `FlotillaModuleProofs`: types, `SessionIsolation`, `InputModuleNotResent`, and that both directions
  implement `Mailbox`. The inductive invariant `IInv` says that a queue holds consecutively numbered
  items ending with the newest (`Numbered`), that the item taken last is not newer than the queue's
  front (`TakenInOrder`), and that a connected module's queue starts after its session began
  (`OfThisSession`); without these a step that takes the front could go backwards. From them every step is a
  step or a stutter of the mailbox, and `MailboxInv` and `NeverBackwards` follow from the steps of the mailbox. `TouchSkipsNothing` is proved
  of the module itself: a numbered queue loses at most its front, which has just been looked at, or all of it.
* `ModuleEventsProofs`: types, `EventsConverge`, `SendsToOpenClient`, `ViewCurrent`, `UpdatesAfterConnect`. `EventsConverge` needs
  `ComposedKindCurrent`: while the scan holds the dock's mutex the state it has read stays current, or
  the update thread is about to queue an event and waits for that mutex; and `LineNamesChannel` and `MessageInHand`, without
  which a queued event or a message being sent need not exist. The other two follow an event from the line or the scan
  to the queue, the batch and the client (`ViewIInv`): the last event about a channel in the queue is the last one announced (`LastQueued`); the last one among those
  collected from it says what the channel is, unless the module is going or a newer one is queued (`LastCollected`); what a client
  sees of a channel is so, or an event is on its way (`ViewOwed`), and so is what `init_client` has read (`SnapshotOwed`); an
  update in the batch names a module that is connected by the name it has, unless it has gone since (`UpdatesNamed`).
* `DockSlotsProofs`: types, `OneSlotPerPort`, `ConnectedOpen`, `ClosedOnce`. The invariant adds where
  `set_port` (`Opening`), `disconnect` (`Closing`) and `cleanup` (`CleaningUp`) are: for example, that no other
  connected slot has the port being opened, and that the scan has ended when `cleanup` disconnects.

* `ConnectionProofs`: types, `NoLostWakeup`, `Supervised`, `KeepsReading`, `OneWrite` and that `Connection` implements
  `Session`. Its invariant ties the states to where the asio thread is (`PhaseInv`), says which handlers
  have been called in each state (`CallsInv`) and that nothing is behind the final frame in the queue, the write under
  way and the wire (`FinalInv`); `NoLostWakeup` needs that a `write_frame` is posted, running or a write is
  outstanding whenever the flag or the queue says so.
* `DaemonProofs`: types, `Registered`, `FirstStopIsClean`, `QuietExit`, `OwnDeadline` (the deadline and the age of an operation add up to its time), and `PidFileTrue` (a daemon that runs has its
  pid in the file, one that has exited has none), which no run checks. The invariant says what the map is while a handler waits for
  `mutex_clients` (`MapInv`), what a `stop_server` has left (`StopInv`) and which threads have ended when `main` joins (`JoinInv`).
* `DockLinkProofs`: types, `CrashesOnlyOnBadLines`, `Identified`, and `Fifo` (commands are written in order, once), which no run checks. The queue holds the commands behind the last one
  written, in order, also while one is being written. For the other two the invariant (`LineIInv`) says that what is still to
  come is the end of what the dock was to send (`ComingTold`) and, unless the dock paused within a line, begins where a line
  begins (`Uncut`); which line found the module whose name the channel has (`Modular`); how many lines have been read when the handshake is at a step (`Following`, `Waiting`); and
  which field every line read since the banner has set (`Known`).
* `ConversationProofs`: types, `MessageBounded`, `Understood` and `Replied`. The functions and folds of `Conversation` run over data of any length; what they compute is proved by
  induction. The library's induction theorems take a predicate, which no prover here can instantiate, so the module proves
  induction for sets (`SetInduction`, from the least member of what is left), and that a function which is defined by recursion on
  smaller and smaller data satisfies its equation (`Recursion`). `MessageBounded` needs to know how much of which part of a frame has been read
  (`FramesIInv`): what has been announced of a payload was admitted under the limit, and no more than that arrives. For
  `Understood`, `Appends` says of bytes that, whatever comes after them, a strict client reads a message first and then the
  rest; the bytes of every message that is not refused have that property, in both protocols (`EncodedIsRead`), sequences of messages have it, and every
  handler only appends messages that have it (`TalkIInv`). The
  client decides with a reference definition whether a text is well-formed, the server with the decoder's
  state machine: `Utf8IsWellFormed` and `WellFormedIsUtf8` tie the two. For `Replied` the invariant (`ReplyIInv`) adds that
  a control frame and its message are never longer than a frame that answers it may be (`Short`), so that every pong and
  every close is one that `prepare_control` and `prepare_close` accept, and that nothing is delivered after an error (`Quiet`); `ReplyTo` says of
  what was sent and what came that the one answers the other, and each handler keeps that: a message that ends nothing
  (`ReplyGoesOn`), the one that ends the conversation (`ReplyEnds`), an error (`ReplyRefuses`), and whatever comes
  after the end (`ReplyStays`). `GoodClose` shows that the checks of `extract_code` and `extract_reason` are those of the reference. The types
  follow from those invariants and what is known of the request (`RequestType`): what is in `sent` has a code that may be
  sent because `close` cuts and checks it, and a header is never read beyond its end. The parsers of `HttpLists` are recursive functions of texts; that they
  give a shorter text, or a list of texts, follows from `TailRecursion`: what such a function gives is where the values that end the
  recursion are, if what is left to parse gets shorter.
* `DecodingProofs`, which extends it: `Decoded` and `Answered`. The invariant (`ProgressIInv`) says where in the bytes of the client the server is. They are laid out as lines, a
  body and frames (`IsPlan`, `FrameThere`). The chunk is what lies between two places in them and the input what lies behind the second
  (`Position`); before the answer, as many lines have been read and their headers collected as lie before the first place
  (`Requested`); after it, the first place is in some frame, at a byte that fits what the processor holds of that frame and of its message,
  and what has been delivered is what the frames before it mean (`Framed13`, `Framed00`). Every read moves the second place
  (`Brought`), every step of `consume` the first (`FramesRead`, `FramesRead00`). The payload is unmasked and decoded in pieces; that the pieces
  come to the same as the whole is proved by induction on the length, as is what a sequence of frames means. The code does not see that a text
  of several frames ends within a character, the reference (`Reference`) does: they agree until then (`ReferenceAgrees`), which is why `Decoded`
  exempts what comes after it (`cut`). For `Answered`, `Requested`
  also says that the lines read so far are in order and short enough, that the method and the headers are theirs, and, once the body is being
  read, that nothing stands against the request but what the processor may find; what a sequence of lines means is proved by
  induction too (`ReadingOrderly`, `AnswerBad`, `AnswerWhole`). `SettledIInv` adds that an answer given is the right one and that no whole line is
  left in the buffer before a read: the buffer then holds less than the next line, so a request that is refused as too long has a line
  whose beginning and one read may exceed the limit and which, with what the client sends after it, does (`MayBeRefused`); and a client that has sent all of its request is not left waiting.

The assumptions are the `ASSUME`s of the modules: there is at least one slot and one channel, bounds are numbers, the
special values differ from the ordinary ones, a client's script is one `Connection` knows, a dock answers in lines of the
kinds there are, a client's stream is what `Inbound` says a stream is (a request that ends with a blank line, then no more than
the body it has announced and the key of hybi00, and if that is all there, frames of the protocol it has asked for), texts are sequences of strings, close codes fit in two
bytes and those the server uses are among them, no two codes look the same, a reason of the server's fits
into a close frame (`close` cuts it to that), and "quit" is not "ready". `RequestsAnswered` alone has a hypothesis of its own: a client means by the values of
its headers what `HttpLists` makes of the whole texts, and names one version of the protocol (`Meant`). The meanings of the streams of the runs are written down
for each of them, not computed, and TLC evaluates `Meant` for all of them, in each run (`MCMeans`), so what `HttpLists` computes is checked there and
not proved. TLC evaluates each of them in the run of the module. Guards of a `CASE` that
overlap leave the choice open, and so nothing can be proved about it: where the code's `if`s have an order, the model has `IF ... ELSE IF`.

Only model-checked: every liveness property, since TLAPS does not prove liveness under fairness. Every invariant and action
property of a passing run is a theorem; what the parsers of `HttpLists` make of a given text is only evaluated.

## Not modelled, and the plan

Next:

1. A composition of the dock, its slots and several clients and docks; an abstract specification of what a client
   is told about the modules, which `ModuleEvents` implements.
2. Proofs: a grammar of hosts and parameter lists, and that `HttpLists` accepts what it says, which would take `Meant` out of the
   hypotheses of `RequestsAnswered`.

Outside the models for good: the formatting of packets and log lines, timestamps, the wording of command line
options, the Windows service (`Main.cpp`'s `ServiceMain` and `ServiceCtrlHandler`, compiled on Windows
only), installers, the driver, the firmware, and the inside of `libserialport`
and of the serial driver. Of the vendored `websocketpp` the modules have what the daemon's server uses. The
rest never runs here: the client role and proxies, TLS, the iostream, debug and stub transports, the
permessage-deflate extension (the configuration turns it off), the concurrency, logging and random policies, `sha1`, `md5` and
base64 (a handshake's key is taken to be right or wrong). Other limits, where the models follow the code
but a reader might expect more: numbers in lines and headers, a host's port apart, are well-formed (`stoi` and `substr` on malformed
ones throw, as `DockLink` has for cut and bare lines); a header is sent once; what comes with a header
counts towards its limit (`request.hpp:54`, where `http/constants.hpp:64` speaks of the header alone), so that one of up to 16000 bytes is refused when more than
that comes in its read, which `Answered` allows (`MayBeRefused`); a report that equals the value a client sent last does not reach the clients (`Flotilla_Module.cpp:54`); a hybi00 message has no limit and
its text is not looked at (`hybi00.hpp:274`); the period of discovery is
`NOTIFY_INTERVAL` + 1 seconds where the comment of `Main.cpp:315` says `NOTIFY_INTERVAL`; the update thread may send
before `init_asio` has run, when there is no client yet.
