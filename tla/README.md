# Verification of idevice-tools in TLA+

The repository is a port of libimobiledevice and of the tools built on it: a
client of the usbmuxd daemon (`libusbmuxd`), the protocols spoken to services
on an iOS device (`libimobiledevice`), property lists (`libplist`, `libcnary`),
archives (`libzip`) and command line tools, one of which is a server that
installs applications (`idevice_installer_server` on `pmasserver`).

The modules here are translated from the code of the Linux release build:
`HAVE_OPENSSL`, `HAVE_PLIST` and `HAVE_INOTIFY` defined, `-O3`. Line numbers are
those of the sources beside this directory. The file PROJECT.json maps every
definition to the lines it stands for.

## The system

| component | its state | operations | talks to |
|---|---|---|---|
| device discovery (`libusbmuxd.cpp`, `utils.c`, `sock_stuff.c`) | `event_cb`, `listenfd`, `g_thread`, the collection `devices` | subscribe, unsubscribe, the monitor thread | daemon (socket), event layer (callback) |
| usbmuxd requests (`libusbmuxd.cpp`) | `use_tag`, `proto_version`, `try_list_devices`, `g_mutex`, descriptors | connect, listen, list, look-up, BUID and pairing records | daemon |
| event layer (`idevice.c`) | `event_cb` | event subscribe, unsubscribe | discovery, application |
| connections, SSL (`idevice.c`) | descriptor, SSL session, fall-back flag | connect, disconnect, send, receive, enable and disable SSL | requests, pairing records, OpenSSL |
| service clients, property lists (`service.c`, `property_list_service.c`) | connection | start service, send, receive | lockdown, connections |
| lockdown (`lockdown.c`) | session id, SSL flag, udid, label | handshake, query, get, set, pair, session, start service, goodbye | pairing records, property lists |
| pairing records (`userpref.c`) | files, or the daemon's store | read, save, delete, generate | requests, OpenSSL |
| notification proxy | mutex, notifier thread, connection | post, observe, set callback, free | property lists, application (callback) |
| installation proxy | mutex, status updater, connection | browse, install, upgrade, uninstall, archive, free | property lists, application (callback) |
| syslog relay | worker thread, connection | start and stop capture, free | connections, application (callback) |
| AFC, house arrest | mutex, packet number, buffer | file operations | connections |
| device link, mobilebackup(2), mobilesync, screenshotr | protocol phase, data anchors | version exchange, process and status messages, raw data | property lists |
| image mounter, debugserver, web inspector | mutex, acknowledgement mode | upload and mount, commands with checksums, messages in parts | property lists, connections |
| request and answer services (diagnostics, restore, misagent, springboard, file relay, heartbeat) | connection, springboard's mutex, the last status of misagent, the type of restored | one request, one answer | property lists |
| installer server (`idevice_installer_server`) | `notified`, `op_completed`, `err_occured`, three clients | list, install, uninstall, exit | pmasserver, both proxies, AFC |
| TCP server (`pmasserver`) | connection, handler map, threads | accept, parse commands, run handlers, stop | installer server |
| libplist, libcnary | trees of nodes | build, copy, free, convert | everybody |
| libzip (vendored) | entries, archive file | open, read, change, close | tools |
| command line tools | options, sometimes a notification to wait for | one task each | the library |

What is hard about them:

- **Concurrency without locks.** Discovery, requests, both proxies, the syslog
  relay and the TCP server run threads that share plain variables. Only the
  requests and some clients have a mutex, and some hold it where they join.
- **A daemon and a device that come and go.** Connections end between any two
  steps; the daemon restarts and numbers devices from the start again.
- **Streams.** Property lists, AFC packets and daemon packets arrive in pieces,
  and timeouts fall between the pieces.
- **Errors that change form.** A negative result stored in an unsigned count, a
  positive `errno` where a negative one is expected, a socket that is closed by
  the function that saw the error and again by its callers.
- **Retries.** Protocol versions, the SSL fall-back, the handshake and the set-up
  of the installer server start over from half-finished states.

What makes each component correct, in a phrase: *discovery*, the events add up to
the attached devices and an unsubscription ends; *requests*, each call gets its own
answer, its own socket and the mutex is given back; *property lists*, what is
returned was sent whole and in order; *lockdown*, a client is in a session and
under SSL exactly when the device is, and no retry leaks or reuses a session;
*proxies and relay*, a callback never runs after its removal and nobody joins a
thread that waits for him; *AFC*, an answer belongs to the request before it;
*device link and its users*, no message is sent in a phase that does not know it;
*installer server*, exactly one answer per command, after the operation ended.
The list "hazards" of PROJECT.json names the places in the code.

## What is modelled

### Device discovery: UsbmuxMonitor, UsbmuxCollection, DeviceEvents

`UsbmuxCollection` is the array of `utils.c`: slots that are used or NULL,
doubled when full, first free slot taken. It holds no state; the table is a
function given to it, so the monitor can be proved about with its lemmas.

`UsbmuxMonitor` has three actors. The *application* (`app`, `idevCb`, `eventCb`)
subscribes and unsubscribes as `idevice.c` does, in any order whenever none of its
calls is in progress, and joins the thread; `paired` remembers whether it subscribed
only without a subscription and unsubscribed only with one, without which `g_thread`
terminates the process (`app = "aborted"`). The
*monitor* (`mon`, `cb`, `devices`, `evt`, `tries`, `listenfd`) walks through
`device_monitor`, `usbmuxd_listen` with its inotify or its polling way of waiting,
`get_next_event`, `generate_event` and `device_monitor_cleanup`, one access to a
shared variable per step. The *daemon* (`daemon`, `attached`, `nextHandle`, with
the socket `sock`, `chan`, `created`) attaches and detaches devices, may send a
packet the client rejects, stops and starts again.

`DeviceEvents` is the promise to a subscriber: during a subscription each device
is announced at most once until it is withdrawn, and outside it nothing is
delivered. `DiscoverySpec` is that specification under the refinement mapping
status <- whether a subscription is on, known <- what the callback was told.

### Requests: UsbmuxRequests

Every thread is a small machine over `pc[t]` and its locals `loc[t]`; the places
are those where the code reads or writes something shared: `use_tag` (three
times per request), `proto_version`, `try_list_devices`, `g_mutex`, and the table
of descriptors, in which the lowest free number is taken next. The daemon speaks
some versions and grants some messages; `Verdicts` is what it may answer. The
code closes a socket once where an error is seen and again in each caller:
`closes` counts what is still to come, one step each. `forgotten` remembers the listings
that returned with `g_mutex` because they ran out of memory while they collected (1148).

A packet is sent and received whole. `usbmuxd_listen` is left out of `Honest`,
because it takes the answer to another request for its own.

### Property lists: PlistService

A message is a length and a body. `Recv`, `RecvTimesOut` and `RecvFails` are one
`recv` (or `SSL_read`) of the loops in `idevice.c`; `HeaderEnds` and `BodyEnds` are
what `internal_plist_receive_timeout` makes of the bytes, with the error -1 as the
largest word (`WordSize - 1`) and the sum of lengths modulo `WordSize`. Bytes know
their message and place; `LengthsOf` says what four bytes mean as a length when
they are a header, the end of one or text. What `malloc` returned is memory of
earlier lists: a list cut short may be parsed with the rest of one of the same
length (`Mixed`). On Linux the timeout a caller asks for is not used: every
silence of five seconds ends a read.

### Lockdown

Each thread has at most one client, `c[t]`: its place in a call (`at`; a place of
`Verb` is a request), what the client and its connection remember (`sid` is
`session_id`, `flag` is `ssl_enabled`, `tls` is `ssl_data`) and what the handshake
carries along. `d[t]` is the device's end: whether it lives, its session, its SSL and
the answers on their way. `store` is the pairing record of the device on this host,
known by its HostID; `trusted` are the records the device takes.

A request is `Send`, which the device answers at once, and the end of it: `Receive`
takes the next answer, `ReceiveTimesOut` none although one will come, and
`RequestFails` none because the connection is broken. Each calls `After`, one
definition per request, which does all that the code does up to the next request.
An answer knows which request it answers; the code compares only the name of the
request (`Verb`), and in some places not even that, so a late answer is taken for
another. Under SSL a receive never gives up (see PlistService). `EnableSsl` is the
handshake of OpenSSL: it succeeds when the record in the store at that moment has
the certificates of the session and the device takes the method. `AfterGoodbye`
ends `lockdownd_client_free`, and starts the handshake over with the other method
where SSL had failed. `Meddle` is the user who tells the device to trust no one,
another program that pairs, and one that deletes the record.

A pointer that is freed and kept is `sid = "freed"`: reading it is undefined, the
model takes it for set. Errors no caller tells apart are one.

### Clients of services

Each of these modules is a client, its callers and threads, and the device at the
other end. None has the bytes of a property list, which are PlistService's: a
message arrives whole, late or not at all. They stand on the same stream, start
from the same connection, and share nothing else.

`NotificationProxy`: callers (`npCaller`) that observe, post, set the callback and
free the client; the threads `np_notifier` (`notifiers`); the fields they share
(`np`: mutex, `parent`, `notifier`). The device (`proxy`) notifies when it likes, and
answers a post on the same stream. `told` is the history of calls back. Memory used
after it was freed, and a thread joined that was never started, set `np.undefined`,
after which nothing is stated.

`InstallationProxy`: a request is sent and then read by its caller, listing after
listing part, or by the thread `instproxy_status_updater` of its own (`updaters`).
The device may refuse any request with an Error, and a thread may fail to start and leave
garbage in `status_updater`.
`requests` remembers each with its result; `installd` answers in order. An answer
does not say what it answers: the number it has in the model is for the property.

`SyslogRelay`: the capture, with the test of `parent`, the second reading of it and
the receive as steps of their own, since the caller sets `parent` to NULL in
between. `thread.c` is in it where a thread does not start and its handle is
garbage.

`Afc`: every operation is `afc_dispatch_packet` and `afc_receive_data` under the
mutex, so a request is its packet number and what it returned. The stream has
pieces: a header, the part that belongs to it, and a rest; a receive may lapse
before each and leave it to the next request. House arrest is the same connection
after property lists.

`MobileSync`: `device_link_service.c`'s version exchange and disconnection around
sessions with two directions; both ends keep a state, and the client's (`sync`)
is compared with the device's (`syncd`).

`DebugServer`: characters with the packet they belong to. A receive takes one or a
silence of a second, which the code treats as a character.

`ImageMounter`: an upload announces an image, waits for the acknowledgement, sends
parts and waits for the end. The device (`mounter`) reads one stream, in which it
takes whatever comes for a part while it waits for parts; the bytes sent and those
counted differ without OpenSSL, where a send that fails is a success of 0 bytes.

`RequestServices` is five clients in one, sbservices, diagnostics_relay, restored,
misagent and file_relay, since a call of theirs is a request and at most one answer:
`rs.service` says which one runs. They differ in the mutex (springboard's only), in whether a
call that could not send receives all the same (`Careless`), in what an answer must say to be
a success (`Fits`, `Judged`; `Trusting` are the calls that do not look), and in what is kept of
it (`last_error`, `info`). `asked` remembers whose answer each request read.

### Installer server: InstallerServer, InstallerCommands

`InstallerServer` is `PmasServer.cpp` with the handlers on top: for the k-th client a
thread that accepts (`acceptors`), one that reads commands (`loops`) and one per
command (`commands`), with the connection (`conns`), its memory and the two
pointers to the current one (`pmas`). The loop's pointer to its thread is read twice by the
acceptor that joins it (`AcceptLock`, `AcceptRead`); `nobody` is the acceptor that finds
NULL the second time. A client that sends a command before it knows
the last one dealt with, or leaves before, is careless; what was done so is counted
and bounded.

`InstallerCommands` is what a command does: `Services::initServices` with its
attempts, the handles it keeps and frees, then list, install or uninstall, with the
app on the device (`app`). The two are not composed: the server calls a command and
sends what it answers, and the command touches nothing of the server. A command is
one step in the one and a sequence of steps in the other.

### ideviceinstaller: IdeviceInstaller

`main` with its waits, and the two threads of the library that set its globals
(`flags`). The device writes an archive byte by byte while the operation runs;
`tool.total` is what was copied.

### Trees and their binary form: PlistTree, BinaryPlist

`PlistTree` keeps nodes in memory (`heap`) with the very links of libcnary: a list
whose end is its own header, so that a child that is appended has the header
before it, one that is inserted first has nothing. Operations of libplist go
down to those links.

`BinaryPlist` writes a tree to cells and reads them back, step by step as
`plist_to_bin` and `plist_from_bin` do it: equal leaves once, counts in the marker or
behind it, the widths of values, references and offsets. The device's writer, which
also writes equal keys and strings once, is the second writer of the model, and a
hash that puts different leaves in one bucket a third. A byte has `Base` values and a
count `Fill` or more stands behind its marker; both are parameters so that small
documents cross every width.

### Services, MCServices

`Services` puts the stream, the clients, the server, the tool and the trees into one
specification, which runs one of them (`active`) at a time from each of its initial
states. They share no state in the program either, so the union of their behaviours is
all there is to check; interleaving them would multiply states and show nothing.
`MCServices` has the sets with which TLC checks it.

## The runs

| run | question | bounds |
|---|---|---|
| monitor_safety | do the events add up for paired calls, through restarts, bad packets and failed threads? does discovery implement DeviceEvents? | 2 devices, 2 handles per life, 1 restart, 2 subscriptions, 1 bad packet, inotify |
| monitor_poll | does an unsubscription at any point end? is `g_thread` misused only by calls that are not paired? does a subscriber of a daemon that stays up learn of the devices? | 1 device, 2 handles, 1 restart, 2 subscriptions, polling build, both bad packets, threads that do not start |
| inotify_unsubscribe (violation) | "@return only 0": no, with the daemon away it never returns | 1 device |
| requests_solo | does one thread give `g_mutex` back on every path but that of 1148, find the version and lose no socket, whatever came before? | 4 calls of 8 kinds, 5 daemons, 1 fault, records that cannot be allocated |
| requests_pairs | do two threads keep `g_mutex`, their answers and sockets apart while no connection breaks? | every pair of calls, 5 daemons, no fault, records that cannot be allocated |
| requests_return | does every call return? | list and save, 2 daemons |
| requests_connect_lost (violation) | "or -1 on error": a connection that was made is reported as an error | 2 connects |
| lockdown | do both ends agree on session and SSL? is only an accepted record kept? does a failed handshake leave nothing and try both SSL methods? does every call return? | 1 thread, 3 calls of 9 kinds, 3 devices, 1 late answer, 1 drop, 1 step of others |
| lockdown_session (violation) | "Opens a session with lockdownd": a client without one is returned with success | 1 device that refuses |
| services | is what each component reports what the device said or did? (below) | see below |
| services_return | do a receive and the end of a capture return? does the server listen again? | 2 messages, 2 captures, 2 clients |
| notification_set (violation) | "any previously set callback function will be removed automatically": the call that would do so never returns | 1 caller, 2 threads |

What `services` asks of each component:

| property | of | in a sentence |
|---|---|---|
| `TypesOK` | all | the variables of the component that runs have their types |
| `InStep`, `WholeMessages`, `SentWhole` | PlistService | a timeout leaves the stream between two messages; what is returned was sent, whole and in order; what is reported as sent is with the device |
| `NotesReported`, `CallbackCurrent` | NotificationProxy | no notification is lost but those read as answers to a post; nobody is called after his replacement |
| `SuccessIsComplete` | InstallationProxy | what is reported as done was read to its end by the one who asked, and an operation was done |
| `LogWhole` | SyslogRelay | no character is lost between captures |
| `AnswerIsOwn` | Afc | nobody gets the answer to another request |
| `DirectionAgreed` | MobileSync | the computer sends changes only where the device receives them |
| `PacketsInOrder` | DebugServer | responses come once and in order, wherever a call gave up between them |
| `ImageWhole` | ImageMounter | an upload that succeeds left the image, whole and in order |
| `DoneAsSaid` | RequestServices | a success is the device's answer to that very request, and so are the status and the type that are kept |
| `AnsweredInWhole` | InstallerServer | careful clients get their own answers, whole, and only one race is left |
| `StopsClean`, `SaidIsSo` | InstallerCommands | a command that is set up frees everything once, and what is freed twice takes two failed attempts; an answer 0 is true |
| `ArchiveKept` | IdeviceInstaller | an archive is removed when it has been copied |
| `ListsSound` | PlistTree | all lists can be walked, and the one way out is an addition to a list that was emptied and ends at a freed node |
| `ReadsBack` | BinaryPlist | a tree is read as it was written |

Several of them have a premise, and each says what the code does not achieve
without it: `SuccessIsComplete` needs requests that do not overlap and that began on a
stream read to its end, and says of listings and look-ups only that they were read to their
end; `AnswerIsOwn` a connection that has not ended or is OpenSSL's (without it a
receive that is cut off is a success of 0 bytes and the memory is parsed);
`DirectionAgreed` sessions that ended; `PacketsInOrder` no silence within a packet;
`ImageWhole` no upload left half way before; `DoneAsSaid` requests sent
when no answer was under way; `ArchiveKept` neither 30 seconds gone by nor a notification; `AnsweredInWhole` careful clients,
and it excepts an acceptor that joined nobody; `ReadsBack` no characters of plane
16 and no key that is also an item of an array. TLC violates each without its premise.

Why the bounds are enough. *Monitor*: one restart is the least that mixes two
lives of the daemon, two handles the least that lets a handle be used again after
it, two devices the least that tell a lost event from a misdirected one, and a
second subscription meets everything the first leaves behind; `Retries` is 10 in
the code and 1 here, since the attempts differ in nothing. *Requests*: the shared
variables have all their values after one call each, so the fourth call starts
from every combination; tags never need more values than requests in flight have
reads, and `TagSpace` (2^32) wraps in the runs. More than two threads add nothing
to the races found, which are between a read and a write. *Lockdown*: the
least that ends a session and begins another is three calls; three records are the
one at first, that of this host and that of another program; one late answer
shifts all that follow on its connection, and one step of others falls between any
two of the three times the record is read. Three devices: an old one that takes
the first SSL method, a new one that takes the second, and one without SSL that
refuses at will. The run has one thread, since clients share nothing but the store
and the fallback flag: `Meddle` stands for what others do to the store, and for two
threads `FallbackTried` is false (a hazard), while the theorems hold for all.

*Property lists* (`MaxMessages`, `Lengths`): bodies shorter and longer than a header
let a header be read across a message and one be read as part of two; three
messages let the stream get out of step and into step again; `WordSize` only has to
exceed `Limit + HeaderLen`. *Proxies and relay*: two threads of the client, one still
about to end, and two callers or one caller beside a thread; two notifications
are the least that have an order, three requests the least in which a late answer
shifts two. *AFC*: two threads, three requests, one
receive that gives up: its answer is taken by the second and the second's by the
third. *Image mounter*: three calls and two receives that give up, the least that
puts an answer of others where the acknowledgement is expected and another where
the end is; an image of two parts has an order. *Request
services*: two threads, three calls and one receive that gives up, so that a late answer is
read by the call after it and there is one more to find the stream in order. *mobilesync*: two
sessions, the second meeting what the first left. *debugserver*: six calls for two
packets, so that a call can give up at each place of either. *Installer server*: two
clients, one of whom may do one careless thing, and two commands, of the same client or of
one each. *Installer commands*: two attempts are the least in which one follows another;
three commands meet the app in each state. *ideviceinstaller*: patience is 60 half
seconds in the code and two here, a notification's 10 and one here: either wait runs
out, first or second. *Trees*: five nodes hold a list of three under a node that is itself
a child, or a copy of a list of one. *Binary form*: with `Base` 3 and `Fill` 3 the values,
counts, references and offsets of the documents lie on both sides of 3, 9, 27 and 81 as
those of files lie on both sides of 2^8, 2^16, 2^24 and 2^32; no file of them
reaches `Base`^8 cells.

Deadlock is not checked where the program may stop: a subscriber that is done,
calls that are used up, a device that sends no more.

## Fairness

*Monitor*: the thread runs (WF), the unsubscribing thread runs (WF on its three
steps), a daemon that has created its socket comes to accept (WF), and of
infinitely many requests to listen one succeeds (SF on `ListenOk`: the daemon is
not refused for ever by bad luck). The application need not unsubscribe, the
daemon need not start. `Discovered` assumes, in the formula, that the daemon
stays up. *Requests*: each running call goes on (WF per thread); `g_mutex` needs no
strong fairness in the run, where a waiting thread waits for one holder.
*Property lists*: a receive goes on (WF on `Step`); the device need not send. `SSL_read`
has no timeout, so `ReceiveReturns` speaks of connections without SSL.
*Lockdown*: each call goes on (WF per thread on `Step`): what `ReceiveReturns` shows
of a receive without SSL, and of one with SSL that the device answers or the
connection breaks. Nobody has to call, and nothing has to come late or break.
*Syslog relay* (WF on `Steps`): the caller that joins and the worker it joins run; the
device may be silent, and each receive of the worker then ends after its timeout.
*Installer server* (WF on `Threads`): its threads run; clients need do nothing.
*Notification proxy*: the callers and the threads run, and a thread that waits for the
mutex gets it when it is free infinitely often (SF), which is more than the code's
mutexes promise: `SetReturns` fails even so.

`Returns` does not hold when `usbmuxd_listen` runs beside `usbmuxd_connect` on a
daemon of version 0: one raises `proto_version`, the other lowers it, and each
refusal makes the other start over. The code states nothing to the contrary; it
is listed as a hazard.

## What the violations show

Four runs find a statement of the repository untrue; "findings" in PROJECT.json quotes it.

- *inotify_unsubscribe*: `device_monitor` blocks in `read` on the inotify descriptor while the
  daemon is away, and the unsubscription that joins it never returns.
- *requests_connect_lost*: `usbmuxd_connect` compares the answer with `use_tag` as it is by then.
- *lockdown_session*: an error other than InvalidHostID leaves SUCCESS.
- *notification_set*: `np_set_notify_callback` joins the notifier with the mutex the
  notifier is about to take.

Met while modelling, in the model as they are in the code, and not runs of their own:

- A daemon that comes up between the failed connect and `inotify_add_watch`
  (libusbmuxd.cpp:713, 725) creates nothing the watch could report, and the monitor waits in
  `read` for ever, against usbmuxd.h:69-70 ("so that applications get to know about device
  add/remove events"). `HAVE_INOTIFY = TRUE` in the run *monitor_poll* shows it.
- `g_thread` is assigned to (968) and joined (995) without a look at it: a second
  subscription, and an unsubscription without one, end the process, where idevice.c:69 and 87
  promise "IDEVICE_E_SUCCESS on success or an error value". `NeverAborts` says that nothing
  else does.
- A device record that cannot be allocated while the devices are collected makes
  `usbmuxd_get_device_list` return with `g_mutex` locked (1148); the next listing of another
  thread waits in `lock` (1109) for ever. `LockDiscipline` says that this path is the only one.
- A descriptor is closed by the function that saw the error (sock_stuff.c:388) and again by
  its callers (1314-1321): another thread may have been given the number in between, and
  loses the connection made for it. `MaxFaults = 1` in the run *requests_pairs* shows it.
- `instproxy_browse` (252-282) and `instproxy_lookup_archives` (633-639) do not look at
  Error: a listing the device refused is a success, against installation_proxy.c:220-221.
- `Services::stop` frees what is not NULL and keeps the pointers: after a second failed
  attempt (installer_utils.cpp:321-328) it frees again what that attempt has not connected.
  `StopsClean` says that nothing else is freed twice.
- `node_list_remove` (node_list.c:140) leaves the end of a list at the removed node when the
  node has no link back and none follows: append A, insert B at 0, remove 1, remove 0, and C
  appended is linked to freed memory, counted and never found. `ListsSound` says that this
  is the only way a list goes wrong.
- `plist_array_set_item` puts the new item first, because `node_detach` returns 0 wherever the
  child was (plist.c:281; node.c:103), against plist.h:237 ("the new item at index n").
- `plist_dict_set_item` puts the new item first, too (418), and does nothing for a key that
  is absent, so that `instproxy_client_options_set_return_attributes`
  (installation_proxy.c:847) has no effect.
- `TCPConnection::Stop` reads `m_HandlerThread` twice (PmasServer.cpp:384, 385); the loop that
  started the acceptor may store NULL in between (349), and the join is of no thread.
- ideviceinstaller copies an archive after 30 seconds or any notification though it
  may not be complete; an inner `res` hides the outer one (ideviceinstaller.cpp:1195), so that
  an installation that failed ends the program with 0; after `run_again` the flags are
  still set and the removal is not waited for.
- afc.c:301 says "print a warning but do not abort" above a line that aborts.
- `restored_goodbye` and `restored_reboot` take a refusal for success (restore.c:440, 511);
  diagnostics_relay.c overwrites the result of each send with that of the receive (296).
- The loop at debugserver.c:421 does not end on a connection that broke.
- A message of a whole number of chunks has no final part (webinspector.c:172).
- The upload loop counts what it gave to `service_send` (mobile_image_mounter.c:278),
  not what was sent.
- bplist.c keeps the type of a key that an array shares, forgets the length of an
  integer that equals another, and spoils characters of plane 16; see `Expressible`.

## What is proved

All theorems hold for every value of the constants, the bounds included.

*UsbmuxMonitorProofs.* Of the table of UsbmuxCollection, `AddLive`: `collection_add`
keeps every element and adds one, whether or not the table has to grow, and
`RemoveLive`: `collection_remove` takes exactly its element out of a table without
duplicates. Of the monitor, `TypeCorrect`, `NoAbort` (`g_thread` ends the process only when
the application subscribed twice or unsubscribed without a subscription, whatever the
monitor and the daemon do and whether or not `std::thread` threw),
`ViewIsCorrect`, `FlushIsComplete` and `DiscoveryRefines`. The inductive invariant
has four parts. `StateInv` is the types, an event where one is being generated
and a table while the thread runs. `ThreadInv` says where both threads can be at
once. `DeviceInv` relates the collection to the place of the monitor: empty while
`usbmuxd_listen` runs, holding the device of the event being delivered.
`ChannelInv` speaks of what is still queued on the socket: an announced device is
new to the collection because the daemon, while it lives, uses no handle twice,
and because the collection was empty when the connection was made. The last three
theorems assume `Tolerable`: the daemon names a device in each Detached message.
Without it a message has no payload, and the device it meant stays.

*UsbmuxRequestsProofs.* Six theorems on layers of one invariant, each layer with the
ones below it as hypothesis.

- `LockIsDisciplined`: `g_mutex` is held by one thread at a time, once while it is
  listening and once more for each listing of its own that returned from line 1148
  (`forgotten`). `LockDiscipline` is not inductive, because the three messages share
  places: `Orderly` adds which message a thread is about at each place, and that what it
  closes a socket for leads it into the critical section only to leave it. Each action is
  shown to keep that for its own thread (`Keeps`), and `KeepsInv` that this is enough for
  all of them (`Inv`).
- `TypeCorrect` and `NoSocketLost`: the types, and that every open socket is somebody's
  (`Kept`), a thread's that is in a call or a caller's who was given it. `Sorted` says which
  message a call is about and where it has a descriptor, `Accounts` that a step of a thread
  answers for its own and leaves those of others.
- `ConnectionsAreOwn` and `CallsAreHonest` (`Apart`): a connection handed to a caller is
  his own, and a success is the daemon's for that very request, for any number of
  threads as long as nothing fails (`faults = 0`): each then uses the connection its call
  opened and closes it once (`Own`), and the only packet there is the one its call waits
  to have answered (`Agrees`). `Numbered` keeps the calls apart. With a fault the code
  closes some sockets twice, and another thread may have that number by then; that one
  thread alone keeps both properties through a fault is checked by `requests_solo` only.
- `NegotiationSucceeds`: a call gets what the daemon can give, whatever earlier calls left
  in `proto_version` and `try_list_devices`. It assumes that there is one thread, as two overwrite each
  other's `proto_version` (the run has one for the same reason); `Talks` follows the version
  from the request that finds it out to the one that uses it.

*PlistServiceProofs.* `TypeCorrect`, `StaysInStep`, `MessagesWhole` and `SentIsWhole`. The
properties speak of everything that was delivered, and a proof about the whole stream
would be an induction over it. `FramedAt` needs none: it says in closed form, of every byte
of the stream, that the rest of its message follows and then the beginning of a later
one. That survives what is taken from the front and a message added at the end, and
a receive needs it of the first byte only. `Later` says that what was delivered is older
than every byte left, `CountInv` and `Aligned` what the counters and the place of a receive say of
the first bytes. A connection that was cut off without SSL is excepted, as in the
properties. `SendInv` does the same for the sender.

*ServicesProofs.* In the specification of all services:

- `PlistImplemented`: it implements that of the stream, step by step, since the others leave
  it alone; from it come `ServicesInStep`, `ServicesWholeMessages` and `ServicesSentWhole`,
  the properties the run `services` checks.
- `NotesAllReported` and `OnlyCurrentCalled`: np_notifier loses no notification, and calls no
  callback that was replaced. `Locked` says that who is between lock and unlock has the
  mutex, `Running` that at most one thread runs np_notifier, with the callback that counts,
  and that only one about to call has a notification in hand. With that, what was called
  back, what is in hand and what is on the stream follow each other (`Chain`) and lack
  only what a post read as its answer (`Covered`); `ChainSends`, `ChainTakes` and `ChainCalls`
  say that of a notification that is sent, received and called back.
- `LogCapturedWhole`: syslog_relay_worker calls back with the whole log in its order.
  `Capturing` ties the worker, its thread's place and the service together, `LogChain` gives
  the order of what was called back, is in hand and is to be read, `LogKept` their number.
- `ArchiveIsKept`: ideviceinstaller removes an archive that it has copied, unless a wait
  ended without the end. `Archiving`: as long as the first operation is an archive, once its
  last status was said, heard or not, the archive is whole. `InPlace` carries through the
  places of main why the waits ended and what length the copy began with. It assumes that
  the wait for a notification is not the longer one, as in the code (10 against 60).

*ClientsProofs.* Five clients of services, in the specification of all of them.

- `SyncDirectionAgreed`: mobilesync.c sends changes only when the device of that session
  receives them, or has left it. What makes it inductive is `Unmixed`: as long as each session
  began and ended with nothing unread, all that the device has still to read is of the
  client's session, a "Start" among it is alone, and so is a "Finish" unless the device has
  left; once the device has said "Ready" it has turned (`Turned`). `InSession` says what the
  client knows at each point of a session. Whatever the client says by its calls keeps
  both (`SpeakInv`), as does whatever makes the device leave (`DeviceLeft`).
- `FilesAnswerIsOwn`: no AFC request reports the answer to another, for any number of threads
  and however late, cut short or left over earlier answers are. `Alone` is what the mutex
  gives: at most one request is under way, and its number is the last, which the header has
  to have. `Framed` and `Complete` say that the pieces of each answer are together on the
  stream unless the end of the connection cuts one off; reading pieces, reading into one and
  adding answers keep that (`FramedRest`, `FramedBegun`, `FramedJoined`, `FramedCut`), so that
  after the header of an answer comes its contents and nobody else's (`FilesAfter`). `Queued`
  keeps the device from answering twice. At the end of a connection without SSL nothing is
  claimed (`FilesLive`), as in the property.
- `AnswersDoneAsSaid`: of sbservices, diagnostics_relay, restored, misagent and file_relay,
  a success is the device's answer to that request, for any number of threads, requests and
  late answers. `Turn` says that one call at a time is past the mutex (or, in the clients that
  have none, that the one call is the last), `Owned` that each has a request which has not
  returned, `Heard` that what the device says it did. `NoOther` carries what was so when a
  request was sent to its receive: nothing is under way but what is its own or gets no
  answer. Each call that returns does so by `AskReturns`. `Judged` is the property, with
  what misagent and restored keep.
- `UploadWhole`: an upload that reports success left the image with the device, every part in
  its place, however late the answers to other calls come. `InStage` says of each place of an
  upload what the device is at: the announcement is the last thing it has to read
  (`Announced`), or its acknowledgement the last answer (`Granted`); from there on no other
  answer is under way, and the parts that it has and has to read are counted (`Counted`) and,
  when none was lost, in their places (`Placed`). A part that is lost makes the count fall
  short for good, so that the end is never answered (`Ended`). A call that leaves leaves no
  upload behind (`NoUpload`), or `left` says so (`ImageLeaves`).
- `SuccessesComplete`: a request the installation proxy reports as done had its own answer
  read to the end, and an operation was done by the device, when the requests before it had been read to theirs
  as it was sent and none was sent while it ran.
  `IpOwned`: a request that waits for its answers waits alone, and they have not been read
  to their end. `IpOrdered`: the message that ends a request is the last on the stream about
  it, in the order of the requests, and nothing is left of a request that was read to its
  end. `IpDone` is the property, and that all before a clean request had been read.

*ServersProofs.* debugserver and the installer server, mostly in the specification of all
services:

- `PacketsAreInOrder`: the responses debugserver.c returns are the contents of the device's
  packets, each once and in their order, as long as no silence falls within one (`gap`; it
  is not taken back, and then nothing is claimed). `DbSound` gives each packet not yet read
  a place in the stream: `at[k]` is where the k-th ends, `DbSpan` what lies there, an
  acknowledgement perhaps before it, and `DbReads` what the client has of the packet it is
  in. Taking a character moves all places by one; what the device adds lies after them.
- `AnswersInWhole`: each client of the installer server gets the answers to its own
  commands, whole and in their order, no memory that was freed is used and no descriptor
  closed under a command, while the clients are careful and the server is not deleted;
  all that may go wrong is an acceptor that finds NULL where it tested a thread (`nobody`,
  after which the model stops: `SvLost` is what is left to say there). `SvInv`: the output of a client is
  the concatenation of what each command has sent to it (`SvAnswered`), every command has its
  parameters and has sent a beginning of its answer (`SvCorrect`), and it is the turn of one
  client n (`SvTurn`): its accepting thread waits for the loop before it (`SvStage`), those
  before have left and their loops ended but for the last (`SvGone`), those after
  have nothing (`SvComing`), and of its own at most one message is under way, whole, in
  part, or as its last command (`SvPresent`). `FlattenIsFlat` gives the concatenation,
  which the library defines by a recursive function, without the recursion.
- `CommandTypes`, `CommandsStopClean` and `AnswersAreTrue`, of the commands in the
  specification of InstallerCommands, for every number of retries and of commands. The
  invariant conjoins the types, both properties and what ties them to the place of the
  command: `IcInOrder` (while services are being set up, the handles the place relies on are
  live, and AFC's are not there yet), `IcSetUp` (a command works only with services that are
  ready), `IcUntouched` (up to the operation the app is what it was when the command began).
  `StopsClean` is how far the clean-up goes wrong that keeps its pointers: a second failed
  attempt does free twice, but no first one does, and a command whose
  attempt succeeded has replaced each of them.

*LockdownProofs.* `TypeCorrect`, `RecordsAccepted` (only a record the device accepted
is kept) and `NoConnectionLeft` (a connection for each client, and none without),
for every number of threads. `Sound` says what a client is like at each place,
that an ending session leads to a place that needs none, and that a pairing is about
a record that was generated. What makes `OnlyAccepted` inductive is `Faithful`:
`do_pair` takes any answer to "Pair" that says no error for its own, and answers
may be late, but up to the pairing there is no such answer on the connection, since
a handshake pairs once and a new one has a new connection. Each end of a request is
shown to lead to a sound client and an accepted store (`Ends`); `EndInv` and
`StepInv` carry that over to the other threads.

`EndsAgree` stands on that. Between a request that is granted and its answer the two
ends differ, on the session after StartSession and StopSession, on SSL from StartSession
until `enable_ssl`: `Level` says at each place by how much, that a thread finds there
one answer, to what it asked, and that a client at a place before its session
has none. Most ends of a request change nothing of this (`Onward`), so that only
`StartDoes`, `StopDoes`, `EnableSslAgrees` and `SendAgrees` have to be looked at.
The premise of `InAgreement` (`astray`) is in the invariant too: after a late answer
nothing is claimed until the next connection. `BothMethodsTried` assumes one thread: the
flag for the fallback method is the process's, and for two the statement is false (a
hazard). `FailingAt` follows a failed handshake through the end of its session and its
client to the place where the flag is read.

*PlistTreeProofs.* `ListsAreSound`: whatever a caller of libplist inserts, replaces,
removes, frees and copies, the list of every node holds each of its children once, back as
forth, both counts are its length, and it ends at the last of them, or an item was added
to a list that was emptied and still ended at a child that was freed (`undefined`), and that
list counts children and starts nowhere (`TreeLost`; `TreeDangling` is why). `TreeInv` says of every node
that lives that some sequence is what its links lead through (`TreeList`: the child links,
their way back, the end and the counts, and that a list without children ends at its header
or in memory that was freed), that its parent lives, and that it has a set of nodes below it
which its parent is not in (`TreeRooted`: no node is below itself, without which freeing
could reach the list it writes to); and that the memory that was not used yet is what comes
last. Both walks of the model are functions on numbers, so what they compute is found by a
least counterexample: `TreeItemsAre` gives the sequence, `TreeBelowIs` what is below a node,
where the generations must stop growing for want of nodes (`TreeGrows`). `TreeWith` and
`TreeCut` say what an addition and a removal do to a list, `TreeLeft` what is left when a
tree is freed, and `TreeCopied` where the nodes of a copy are and to whom they are linked.

The assumptions on constants are those the code gives: `Limit > 0` (the length of a list is
at least one byte), no thread is called "free" as a mutex is, sockets are not `NULL` (-1 is
no descriptor), tags and calls are counted from one, a thread makes at least one call,
no caller is called "notifier", `NotePatience <= Patience`.

Model-checked only: all liveness properties (`UnsubscribeReturns`, `Discovered`,
`Returns`, `ReceiveReturns`, `StopReturns`, `ServerListens`), which rest on fairness
and are out of the prover's reach; of what `services` checks, the types as a whole and
`ReadsBack`. An induction over numbers can be done by way of a least counterexample
(`LeastNatural`, `LeastNumber`), and is, for tables, for `FlattenSeq` and for the walks of
PlistTree; what the writer and parser of BinaryPlist compute would need it over trees that
refer to each other by number, through folds over all of them. The types of the components
are one property of `services`: those of most are part of the theorems above, that of what
is read back is not. The types of the two usbmuxd modules and of Lockdown, proved, are not
run.

## What is not modelled

Both builds of the monitor are modelled; Windows is not (its receive loops
count a timeout down). Bytes of daemon packets and their partial arrival, payloads
of listed devices and the descriptor that `device_monitor_cleanup` closes twice
are below the grain of the two usbmuxd modules. A write to a connection the other
side has reset raises SIGPIPE, which all programs but `idevicesyslog` leave at
ending the process; no module lets it. `lockdownd_pair` and `lockdownd_validate_pair`
with a record of the caller, activation and lists of data classes are left out of
Lockdown, as is the device's own timeout of a session.

Of the clients of services these are left out: the client options of the installation proxy
and its look-up of one path, the contents of AFC answers and lengths above 32
bits, backups and screenshots (one message and one answer over the device link),
the hexadecimal encoding of debugserver, the freeing of the image mounter's client.
`heartbeat.c` is a send and a receive, and `webinspector.c` a loop over
the parts of a message: what can be said of them is what PlistService says of the
stream below them. The contents of the answers of the other request services and the data
that follows an answer of file_relay are left out. The XML format of property lists, base64, reals and dates are
libxml2's and the machine's. The unpacking of packages and the printing of lists in
the tools keep no state.

Cryptography and the daemon are external. Most of the lines of the repository are
headers of OpenSSL, libxml2 and zlib, libzip, and tools that call the library once and
print: the map covers the greater part of the code that keeps state, and a small part of
all lines.

## Plan

1. `webinspector.c`: the parts of a message over the stream of PlistService, with an
   abstract channel of whole messages that both implement.
2. A composition of InstallationProxy with IdeviceInstaller, in which the tool's updater
   is the library's thread.
3. `ReadsBack` as a theorem, by induction over the size of a tree.
4. The types of `services` as a theorem, which needs those of what is read back.
5. The refinement of a session that is begun, used and ended on both ends by Lockdown, of
   which `Level` is the mapping.
6. A run for two threads of Lockdown with the fallback flag.
