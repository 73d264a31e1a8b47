# Cube Server Lister: specifications, checks and proofs

Cube Server Lister (CSL) is a wxWidgets program that lists the servers of the Cube
games, shows who plays on them and starts the games. This directory holds TLA+
modules translated from its source (`src/src/`, shortened to `src/` in the modules'
comments), TLC configurations that check them on small instances, and theorems that
hold for every value of the constants, checked by TLAPS. `PROJECT.json` lists
the runs, the mutations each property must detect, the source lines of each
definition, the hazards and the theorems.

## 1. Inventory

Almost everything runs in one GUI thread: handlers run to their end, unless they open a
modal dialog, whose own event loop runs other handlers meanwhile. Other threads are the
resolver, the IRC thread and the version check; they talk to the GUI thread with
posted events. Sockets are non-blocking except the master's.

| Component | State | Operations | Interacts through | What is hard | What makes it correct |
|---|---|---|---|---|---|
| Host resolver (`engine/CslEngine.cpp`, `CslResolverThread`) | `m_packets`, `m_mutex`, `m_condition`, `m_terminate` | Entry, AddPacket, Terminate, OnResolveHost | shared queue, condition, posted event | lost wakeups, shutdown during a blocking lookup, servers deleted under way | no packet lost, used twice or leaked in use; shutdown ends |
| Extended info (`engine/CslExtendedInfo.cpp`, `CslEngine::ParsePong`, `PingEx`, `CheckResends`) | per server: `m_ids`, `m_stats`, `m_status`, `ExtInfoStatus`, ping times | requests on timers, one parser for four datagrams, resends | UDP, posted pong, the lists of the frame | loss, reordering, overlapping rounds, a half reset | what is shown is complete; no double rows; recovery |
| Registry (`engine/CslGame.cpp`, `CslFrame`, dialogs) | masters and servers of a game, ids of masters in servers, view flags | add, delete, update from master, save, load | raw pointers between masters, servers and views; the servers file | deletion, reused ids, ids after a restart | unique servers, ids agree with lists, no dangling pointers |
| Game connection (`CslGameConnection.cpp`, `CslGameProcess.cpp`) | `m_info`, `m_locked`, `m_playing`, `m_cmd`, each server's lock and wait | Prepare, Connect, CountDown, Reset, OnTerminate | dialogs, timer, process events, IPC | re-entrance under a dialog, failures half way | locks balanced, one game, waits end |
| Ping timing (`CslEngine::Ping`, `PingServers`, `ResetPingSends`, `PingOk`) | `PingSend`, `PingResp`, `Ping` per server | pings on the timer | UDP, timer | 32-bit ticks, spreading, stale answers | each server pinged once per interval; dead ones noticed |
| Views (`CslFrame`, list controls, extended dialog) | lists of raw pointers, `m_pingExt` and `Search` of each server | select, open and close views, search, country, delete | registry, posted pongs | deletion with events under way, a shared flag, a counter kept by hand | nobody reads a deleted server; the counter is the number of viewers |
| IPC (`CslIPC.cpp`, `CslApp.cpp`) | one connection | accept, poke, disconnect | other processes, posted events | a second client before the first's end is noticed | no request lost |
| IRC (`irc/CslIRCEngine.cpp`, `CslIRC.cpp`) | contexts, `m_section`, `m_mutex`, a condition; a state and a copy of the handle per session; channels | connect, disconnect, select loop, error handling, shutdown | shared array, libircclient, posted events | locks on error paths, a context deleted while used, addresses given out again, a shared `lasterror` | no lock left entered, sessions agree with contexts, connections are tried, their ends noticed |
| Version check, speech, tool tips, status bar | little | one thread, output | posted event | shutdown while the thread runs | |
| Games and wire decoding | none | decode, format, start command | called by the above | malformed datagrams, integer widths | fields are decoded as encoded |
| Settings, dialogs, maps, GeoIP, tools | settings | presentation | globals | | |

Hazards, each at its line, are in `PROJECT.json`.

## 2. Modules

| Module | Models | Kind |
|---|---|---|
| `LookupService` | what the resolver promises the engine | abstract specification |
| `Resolver` | the worker thread, the GUI thread's AddPacket, OnResolveHost, DeInit and shutdown | detailed; refines `LookupService` |
| `PlayerStats` | `CslPlayerStats` as operators on a table | operators |
| `ExtInfo` | the protocol for one server's players over UDP | component |
| `Registry` | masters and servers of one game, with restarts | component |
| `GameConnection` | connecting, waiting and playing, with re-entrant handlers | component |
| `IrcThread` | the IRC thread and the sessions of the GUI thread | component |
| `Views` | everything in the frame that points to a server, with deletion and cleanup | component; joins the deletions of `Registry`, the pongs of `ExtInfo` and the lock of `GameConnection` |
| `PingTiming` | when servers are pinged and shown as answering, with ticks that wrap | component |
| `Ipc` | the programs the user starts, and the one that lists | component |
| `ResolverProofs`, `ExtInfoProofs`, `RegistryProofs`, `GameConnectionProofs`, `IrcThreadProofs`, `ViewsProofs`, `PingTimingProofs`, `IpcProofs` | theorems about the module of that name (section 4) | proofs |
| `MCResolver`, `MCExtInfo`, `MCRegistry`, `MCGameConnection`, `MCIrcThread`, `MCViews`, `MCPingTiming`, `MCIpc` | instances for TLC | model checking |

Operators introduced by "Mutation:" are plausible errors of the definition they
precede, and no specification uses them. TLC must find each property violated when its
definition is replaced by the mutation; they document what the properties can detect.

### Resolver

`wpc` is the worker's line in `Entry()`, `gpc` the GUI thread's line in
`AddPacket`, `Terminate` or the destructor. Each is a step wherever the other thread
could see the difference: the unsynchronised test of `m_packets.length()` (`Look`), the
retest (`Retest`) and `Wait` are separate, the critical section is one. `Wait` gives up
`m_mutex` and sleeps in one step, as conditions do; `SpuriousWake` is what POSIX
permits. `hand` is the packet the worker holds; `leaked` the one it abandons at line 70.
`failed`, `missed`, `unasked` and `shadowed` are history variables. `servers` is `m_servers`
in its order. The code has two keys: a server is registered by host, game port and info
port (`CslServerInfo::operator==`), which is its identity in the model, and found for an
answer by host and info port only, which is `HostOf`; so `OnResolveHost` takes the first of
several servers (`Found`), and the others are `shadowed`. `Register` stands for the ways of
adding a server that call `ResolveHost`; `AddNamed` is a URI that names an unknown server,
which is added without (`unasked` remembers such servers).

### ExtInfo

One server. `roster` is who really plays, `net` the datagrams under way, `table` the
`CslPlayerStats`, `ext` the `ExtInfoStatus`, `notice` a posted pong, `shown` what the
list displays next to what it should. A request and its answer are one step, since the
roster may change before it. `Faults` says what the network may do; a datagram is lost
by being left out of the answer. `Reset` keeps half of the ids, as the code's loop
does. The display stops at the first free row, as `CslListCtrlPlayer::UpdateData` does.
The variable `slow`, chosen at the start, says whether the network may take longer than
the client's timers: if it does not, a round starts only when the one before is over,
which the timers (seconds) see to on a network with sub-second delays; if it does, a
round may overlap another, as happens when a view is opened or a search is made between
two timer pings. `Recovers` is checked for both, `CompleteReport` and the rows of
`RowsSound` for the first. Duplicated datagrams are not modelled.

### Registry

`reg` holds the lists as the code does; a server is an index, so that a list may hold
the index of a deleted one. `freed` are the deleted servers. Each action is a whole
handler: `UpdateMaster` is the cleanup, then the answer; `Restart` is SaveServers,
LoadServers and the constructor. The model follows `DeleteServer`'s loop, which skips
every second id, `RemoveMaster`'s test of the wrong variable, ids equal to the
number of masters, and the id that LoadServers leaves from the entry before. A loop of the
code is `Loop`, a recursive function, so that the proofs can follow it. The servers' file holds
several games, and LoadServers keeps one list of old and new ids for all of them, searched
from the front: `Earlier` are the ids that an earlier game's masters may have put before
those of the modelled one. A deleted
server that is read sets `undefined`, after which the code promises nothing and the
model stops.

### GameConnection

`conn` is the singleton with the lock and the wait of each server; `dialogs` is the
stack of handlers suspended in a modal dialog. A handler that uses the singleton while
another is suspended counts in `nested`. The user cannot reach the lists under a dialog,
but the timer, an ended process and a URI from another program can. `OnTimer` is a shot with
its count modulo 4: while a game is played the even ones only read its output, the others try
to connect, and only every fourth counts the wait down, so that none does while a game is
played. Prepare's password
dialog, Connect's "server full" dialog and the failure box are where a handler can be
suspended, and `Close` is how it goes on: with `m_info` as it finds it.

### IrcThread

`wpc` is the worker's line in `CslIrcThread::Entry()` and `LibIrcError`, `gpc` the GUI
thread's in a handler that deals with session `gs`. `contexts` is `m_contexts`, `lib`
what the library knows of each address: a handle is created at any free address, which
may be one that a session still has in `mine`, its copy. The worker owns `m_mutex`
except in `Wait`, so `Signal` is the failing or succeeding TryLock. `m_section` is
held within one step; `section` says whether a return left it entered. A handle in
`lib` goes from "init" to "welcome" (the end of the MOTD, which posts "connect") and
to "closed"; errors are the host that was not found ("resolv") and every other error that
removes the context ("lost"). `cur.err` is the handle's `lasterror` between the failing
call and `irc_errno`: a command in between replaces it by `LIBIRC_ERR_STATE`, which
removes nothing and interests no session. A destroyed handle that is used may crash the
program (`crashed`) or not. `missed`, `masked` and `overlap` are history variables for
three windows of the code, and are cleared when the window's effect is gone.

### Views

A server is an address: `alive` are those not deleted, and every holder of a raw pointer
is a variable: the rows of the lists, `m_oldSelectedInfo`, the player panels, the extended
dialog, the search's rows and `m_searchedServers`, `m_countryServers`, the connection, and
the events posted and not handled. `pings` is `m_pingExt`, `search` the flag `Search`.
One action is one handler of the frame; `Reads(S)` says which pointers the handler follows,
and sets `history.crash` if one of them is of a deleted server, after which the model
stops. The other fields of `history` remember the windows of the code that the properties
excuse: a deletion that left a pointer (`stray`), servers that fell to the cleanup, which
does not look at most holders (`cleaned`), a ping given back twice (`twice`), and a search
that shares servers with the country view (`shared`).

### PingTiming

One tick of the model is one shot of the timer. A tick count is only ever used in a
difference, so `PingSend` and `PingResp` are kept as ages modulo `Word`, the number of
values of a tick count (2^32 in the program), and `Signed` is the conversion to `wxInt32`.
`PingServers` is the whole loop, the selected game and then the favourites, with the
spreading that starts when too many servers are due at once; `ResetPingSends` is `Spread`.
A server is pinged only if it is `pingable`, which a name becomes by `OnResolveHost`, and a
ping that the socket refuses does not count as one that is due. An update from the master
(`UpdateFromMaster`) spreads the servers, unless the master fails, starts the timer anew and
sets `m_timerInit`, as does the selection of the game or of a master (`Select`); the next shot
then pings every server. `flight` holds the pings that are not answered, for as long as
they may be; a ping that is lost or was refused is one that never is. Of `Ping` the model
keeps whether it is -1 (`answered`), and checks the value that an answer would give it.
`wrapped` and `excused` are history variables for servers whose answer is older than half a
word, and for those that lost an answer or their turn since they answered last: shots of a
timer that a game stopped or an update put back, or a spreading that made them wait longer.

### Ipc

`pc` is where each program is: asking wx whether another one runs (`lock`), giving its
request to the lister as a client, or being the lister. `conn` is `m_connection` and `chan`
what its client has sent and the lister's event loop has not read; `events` are the
`IPC_COMMAND` and `IPC_DISCONNECT` events posted to the frame. `OnIPC` is `Command` and
`Disconnect`; what a request does to the registry and the connection is `AddNamed` of
`Resolver`, `AddServer` of `Registry` and `OnIPC` of `GameConnection`. The lister may be
closed or killed at any time; wx's rules for the lock and the connection are external.

## 3. Runs

All runs finish without error except `irc_lost` and `views_locked`, which show where the
program does not do what it says. Bounds are named constants in the guards.

| Run | Instance | States | Shows |
|---|---|---|---|
| `resolver` | 3 servers: 2 of one name, 1 with an address; 3 packets | 497,099 | Ownership of `m_mutex`; no packet used twice; no request lost; a wakeup is lost only in the window between the length test and `Wait()`; an awake worker empties the queue; shutdown always ends; `Resolver` implements `LookupService` |
| `extinfo` | 2 players; either loss, reordering and garbling, or overlapping rounds; 4 datagrams | 615,928 | The table never waits for nobody; what is displayed is complete and without double rows; rows are reused; once the network is calm the list becomes right |
| `registry` | 2 servers, 3 masters, answers of up to 2 lines, 2 objects, 2 ids per server, an earlier game with ids up to 1 | 62,820 | Servers are unique; ids cover lists; pointers dangle only after a server listed by two masters was deleted; lists, flags, answers and restarts are right |
| `connection` | 2 servers, 2 dialogs, 2 games, 2 overlaps, wait of 2 | 24,256 | Locks, waits and the game agree while handlers do not overlap; waits end and ended games are noticed |
| `irc` | 2 networks, 2 addresses, 1 round after `m_terminate`, 2 events | 1,041,740 | `m_section` is never left entered; a destroyed handle is used only in the code's window; every connection is tried, but for a lost wakeup, a stale handle or a hidden error |
| `irc_again` | 1 network, 3 addresses, 4 events, so that it has two connections at once | 227,529 | Session and contexts agree unless the user connected too soon; a lost connection is noticed unless its error was hidden; shutdown ends |
| `irc_lost` | 1 network, 2 addresses | 3,954 | Fails, as it must: "Reconnecting..." is printed and nothing reconnects |
| `views` | 2 servers, 1 panel next to the main one, the dialog, 1 pong, 1 deletion each | 1,119,607 | Panels never show a deleted server, the selection and the dialog only one that fell to the cleanup; a deleted server is used only if something else still pointed to it |
| `views_search` | 2 servers, a search and the country view over both, 2 pings each, 1 pong | 2,722,696 | What wants a server's players has its ping; the gauge is right and the search ends with its last answer |
| `views_locked` | 2 servers, 1 deletion each | 362 | Fails, as it must: a locked server is said not to be deletable, and is deleted |
| `ping` | 2 servers, 1 favourite, an interval of 2 ticks, a word of 16, answers of up to 1 tick | 1,030,772 | Servers that answer are shown so, silent ones are noticed, every server with an address is pinged again and again |
| `ipc` | 3 programs | 15,252 | The connection is a program's or its end is under way; it is always given back, and what was sent through it is carried out |

Why the bounds are enough. Resolver: the third packet allows a host to be dropped and
listed again while its first packet is under way, and a name to overtake an address; two
servers of one name are what `FindServerByAddr` can mistake;
the worker's loop has no memory beyond the queue. ExtInfo: with two players a
reset can leave an id behind, two rows can be swapped, and a round can mix with the one
before. Registry: three masters are needed for a reused id while another master exists,
two servers for an answer that drops one and keeps one; symmetry is over addresses and
the two masters that are not the default. GameConnection: two servers and two dialogs
give every order of two handlers; two overlaps let both suspended handlers go on wrong.
IrcThread: two sessions are needed for an address that moves from one to the other and
for the round robin, three addresses for a connection that follows two that are not gone;
the worker makes ten rounds after `m_terminate`, which differ in nothing but their number.
Views: with two servers a panel can change from one to the other while the other is
deleted; a holder of one kind behaves as any other of its kind, and the theorems say so for
any number. The search's run has no panels besides the main one, and the first has no
search, since the two together are too many states; `ViewsProofs` covers them together.
PingTiming: a word must be more than six intervals, so that a silence of three intervals is
less than half of it; two servers are spread over two ticks, and the limit (one server at
once) makes the spreading happen, while servers that are spread are within it, as they are
with the program's numbers. Ipc: three programs are one that lists, one that is
connected and one that is refused meanwhile.

### Deadlock

Deadlock checking is off where the system may stop: a shut down resolver, a calm
network with nothing to ask, a registry, a connection or a frame whose bounds are used up or
whose behaviour has become undefined, and an IRC client that was shut down. It is on for
`PingTiming` and `Ipc`, which never stop.

### Fairness

Resolver: weak fairness of the two threads' steps and of event delivery: the
scheduler runs both and lookups return. None for what the user does, nor
for spurious wakeups; where the code relies on a signal, the model does too. ExtInfo:
the timer (`PingList(FALSE)`, `Resend`), the uptime answers that each ping
asks for, delivery of what was not lost, and the event loop; `CalmDown` is not fair,
and `Recovers` is about executions in which the network becomes calm. GameConnection:
the timer runs, also under a dialog, and posted process events are handled; nobody is
obliged to close a dialog or to leave a game, so `WaitEnds` stops where a dialog opens, and
where a wait goes on while another game is played.
IrcThread: the worker runs, a GUI handler that has begun goes on, and the event loop gets
to every posted event however often the user acts in between (strong fairness, since
each of the user's handlers interrupts it). PingTiming: time passes, and the timer
fires although each update starts it anew (strong fairness: the user does not for ever
update faster than a shot of 250 ms comes). Ipc: the lister's event loop reads what was sent and handles
what was posted, a server accepts or refuses who asks, and a client does not stop half way;
nothing is assumed of the user or of a lister that is killed. But for that, none of them assumes anything of the user or of the
network, nor that a condition wakes by itself.

## 4. Proofs

Each `...Proofs` module proves its theorems for any values of the constants that satisfy
the assumption of the module it is about (`ResolverAssumption` and so on), which TLC
evaluates in the runs. The theorems, in the order of the modules:

* `ResolverProofs`. `TypeCorrect`, where the list names no server twice and who may be pinged,
  has failed, never asked or was passed over is in it; `MutexCorrect`, inductive with the types.
  `OnlyWindowStrands`: the invariant relates the worker's position, the owner of
  `m_mutex` and the GUI thread's position: whoever adds a packet while the worker sleeps
  gets `m_mutex` and is on its way to the signal. Strengthened by `MutexInv`.
  `PacketsOnce` needs that packet numbers are at most `made`, so that a new packet
  differs from all that exist; then each step moves a packet from one place to the next.
  `RequestsKept`: a server that cannot be pinged has a packet somewhere on its way
  (`AskedInv`), or has seen it fail, was never asked for, or was passed over for another of
  its host and info port. `StepsImplement` is the
  refinement without its fairness: the initial states are the service's and each step is
  one of the service's or a stutter. `OrderInv` says that addresses are queued behind names and among
  themselves in their order, which the service promises of answers; `LeakInv` that the
  worker that abandons a packet is on its way to its end. `NoneForgotten`: every packet
  ever made is somewhere (`EveryPacket`), so that with `PacketOnce` each is in one place.
  `EndIsHeard` is what `ShutdownEnds` rests on: once `m_terminate` is set and the GUI thread
  waits in `Wait()`, the worker does not sleep and can get `m_mutex`.
* `ExtInfoProofs`. `NeverWedged`: whatever datagrams contain, the table does not wait for
  rows of nobody. Each method of `CslPlayerStats` keeps this by itself, so that no
  assumption about the network or the server is needed. The run's three invariants need more,
  and follow from two inductive ones. `TableInv` holds on any network: nobody is expected
  twice, and rows in use come before free ones (`Compact`), since Reset frees all and
  AddStats takes the first, so that the list, which stops at the first free row, misses
  none. `RoundInv` holds while rounds do not overlap, and says what may be under way
  (`OneRound`: one list at most, only its own rows next to it, no one both reported gone and
  described), that a list which has not come finds the rows free (`ListFirst`, without which
  it could announce someone who has a row), and that in a clean round those announced are
  those expected and those who have a row (`Accounted`). Then a notice, which is posted
  when nobody is expected, shows all. A loss keeps any part of an answer in its order
  (`Sends`), and the answers to a resend are joined in a loop, so that what they contain is
  shown by induction (`FlattenIn`). `RecoveryHolds` is about what `Recovers` leads to: in a
  calm network, slow before or not, a request that finds nobody expected is answered in full
  to a free table (`JustAsked`), each row that comes is of someone expected (`Describing`), so
  that nothing is refused, reset or asked for again, and every notice from then on shows
  who is there. What stays with TLC is that such a request comes.
* `RegistryProofs`. All six invariants of the run, from one inductive invariant,
  `RegistryInv`. `Sound(r, dang)` says of a game `r`, and of the destroyed servers `dang`
  that two masters listed, that lists name servers of the game or of `dang` (`Placed`), that
  no two servers or masters are equal (`OneServerEach`, `OneMasterEach`), that a master with
  an earlier one's id lists nothing and no master lists a server twice (`FirstLists`), and
  that a listed server has its masters' ids and the default flag (`IdsKept`). A handler is a
  loop of calls, so the proof needs induction over the rounds: `Induct` and `Iterates` have it
  from the well-foundedness of the naturals, with sets of rounds and functions in place of
  predicates and operators, which the provers could not instantiate. For each call there is a
  lemma that it keeps `Sound` and what else it leaves alone, and for each loop one
  that says where it leads: `DeleteServer`'s loop, which skips ids, reaches the id of
  the only master that lists the server (`SweepSound`), UnrefServers empties a list, an
  answer becomes the list. `OneMasterEach` and `FirstLists` are what makes this inductive: if an
  id were listed by its second master too, UnrefServer would be sent to the first.
  `RestartRestores` follows one server through the reload of all: it is added once,
  with its flags (`Restored`), and what is loaded after it leaves it there (`Kept`).
* `GameConnectionProofs`. One inductive invariant, `Shape /\ Counts /\ (nested = 0 =>
  Undisturbed)`. `Shape` has the types; `Counts` is what holds even if
  handlers overlap (a lock the singleton remembers is held); `Undisturbed` says, while no
  handler has overlapped another, what the one suspended dialog, if any, means for
  `m_info`, the locks, the waits and the games. Without the clause about the dialog
  the invariants are not inductive: `Close` would go on with any `m_info`. `TypeCorrect`,
  `HeldCorrect`, `LocksCorrect`, `OneGameCorrect` and `BusyCorrect` follow from it.
  `OneWaitAlways` needs no such clause: only `Reset` changes `m_info`, and it clears the wait
  it gives up, so that one server at most is waited for whatever overlaps. With it,
  `WaitRunsOut` says of the steps that no wait grows while no dialog is open, and that a timer
  that counts shortens the wait or ends it, or opens a dialog; while a game is played none
  counts, and one that starts no other game leaves the waits as they are.
* `IrcThreadProofs`. `TypeCorrect`. `SectionCorrect` rests on the order in `RemoveContext`:
  `ListInv` says that no two contexts have one address and no context's
  handle is free; then the address a new handle gets is not in the list, and the
  return that keeps `m_section` is never taken. `HandlesCorrect` and `LiveCorrect` share the
  invariant `OwnInv`, which follows a connection from the list to the event that reports its
  end: the context served is the session's (`CurInv`); a session that has not connected
  too soon has one context, its own, and with it no error under way (`OneInv`); whoever
  believes to be connected has a context or an error coming (`StateInv`); an event that
  makes a session believe so is followed by an error if the context is gone (`EventInv`),
  without which `OnConnect` could undo what an error did; and a context that is not to be
  left is that of a session that knows it (`LeaveInv`). `WakeCorrect` and `EndsAreServed` are
  what the liveness properties rest on: the worker sleeps next to a connection only if
  Connect's signal was skipped or is about to come, which needs the same of the worker on
  its way to sleep (`LookInv`); it does not sleep when it is joined (`HeardInv`); and a
  connection that has ended, if no command hid its error, is the one it is removing
  (`ClosedInv`).
* `ViewsProofs`. `Types`; `PanelsLive` and `OnlyStrays` from `LiveInv`, which says of each
  holder which servers it may point to; `WantedCovered`, which is inductive with the types:
  each handler changes the counter by at least as much as the number of viewers (lemmas
  about the cardinality of the panels that show a server); `SearchCounts` from `SearchInv`,
  by which the search and the country view have no server in common, so that no pong takes
  the flag of a searched server without counting it.
* `PingTimingProofs`. `TypeCorrect` and `DeadAreNoticed` (the second half of
  `AnswersShown`) from `AgesInv`: only servers with an address are pinged (`AskedInv`), while
  the timer pings none of those that answered or may yet answer goes without a ping for
  longer than an interval (`SendInv`), a `PingResp` that has not gone half round is younger
  than that (`WrapInv`), and a ping under way is hardly younger than `PingSend`, which the
  spreading may have put back (`FlightInv`). `ShownAgrees`, the whole of `AnswersShown`, also
  needs `HeardFrom`, for the servers that have lost nothing: such a server was pinged an
  interval ago, even when a shot is late, or it has answered since an update and is pinged by
  the next shot (`TurnInv`), and its answer is there, or under way and asked for within an
  interval of the answer before it (`HeardInv`), so that the two ages never differ by two
  intervals; the difference may be negative, which `Signed` must not read as a large one.
* `IpcProofs`. `TypeCorrect`, `OneListerCorrect` and `HeldCorrect`, whose conjunction
  (`IInv`) is inductive: `ConnectionHeld` follows the end of a connection from the channel
  to the event. `RequestsKept` is about steps: a request that was sent arrives, and stays in
  the queue until it is carried out or the lister ends, also when its sender has gone.

Every invariant that a run checks is proved. Some theorems are about formulas that the proof
modules define and no run checks. They are the part of the liveness properties that is
safety: `NoneForgotten` and `EndIsHeard` of `AwakeDrains` and `ShutdownEnds`, `RecoveryHolds` of
`Recovers`, `WaitRunsOut` of `BusyEnds`, `WakeCorrect` and `EndsAreServed` of `ConnectTried` and
`LossNoticed`, and `RequestsKept` (of `IpcProofs`) of `Answered`. Only model-checked is all liveness, with the
fairness of the refinement: the provers know neither ENABLED nor fairness.

## 5. What the models show of the code

* A packet added between lines 51 and 54 of `CslEngine.cpp` is not signalled: the
  worker sleeps until the next packet. The same step is the only way to strand one.
* `CslPlayerStats::Reset` leaves ids behind; the protocol recovers because the next
  round starts over when an unexpected row or id is refused.
* Reports are complete only if rounds do not overlap.
* A server that a URI names by host name is never resolved, so that it stays unpingable
  until the next start (`NoRequestLost` excepts it).
* Of two servers with the same host and info port but different game ports, answers reach
  only the first: if they have a name, the second stays unpingable though its lookup
  succeeded (`shadowed`, excepted as well; `CslGame.h:271`, `CslGame.cpp:214`).
* A wait that was begun out of a dialog while another game is played is not counted down until
  that game is over (`CslFrame.cpp:1999`; `WaitEnds` excepts it).
* If the file holds two games, a server of the second is mapped by the first one's ids, and
  may be listed by another master after a restart (`RestartKeeps` excepts it).
* Deleting a server that two masters list leaves a dangling pointer in one of them.
* While a password or "server full" dialog is open, a connect request by URI replaces
  `m_info`; what the suspended handler then does can lock a server twice, start a
  second game or use a null pointer.
* IRC: a connection added after the thread found none and before it waits is tried only
  at the next signal, as in the resolver (`ConnectTried`).
* IRC: between the destruction of a handle and the event that reports it the session
  looks connected, and its commands use the destroyed handle, or the one of another
  session that got the same address (`KnownIsLive`); `Disconnect` may then mark the other
  session's context, which is left without ever being tried.
* IRC: an old connection's error ends the session even if it has a new connection, which
  from then on nobody can leave (`LiveIsKnown`).
* IRC: a command that falls between the end of a connection and `irc_errno` hides the
  error: the context stays for good and the session looks connected (`LossNoticed`).
* IRC: "Connecting lost. Reconnecting..." is printed but nothing reconnects (`irc_lost`).
* Views: selecting a server after the main panel was closed gives its ping back a second
  time, so that another view of it stops being updated (`history.twice`).
* Views: the extended dialog never gives its ping back, and showing the servers' countries
  forgets those of the players' countries: the servers are asked for their players for good.
* Views: a hidden dialog keeps its server, and the deletion of that server calls
  `DoShow(NULL)`, which reads what NULL points to (`CslDlgExtended.cpp:605`).
* Views: the country view and the search share the flag `Search`: the country view takes an
  answer that the search waits for, which then never ends (`history.shared`).
* Views: deletion leaves rows of other lists, the search, the country view, posted pongs and
  the connection pointing to the server; the cleanup also the selection, the dialog, the
  search's rows and the connection, and if the update from the master fails the rows of
  the cleaned servers (`CslFrame.cpp:1166-1171`).
* Views: a locked server can be deleted, if it was locked after the user asked (`views_locked`).
* PingTiming: a server that is silent for more than 2^31 ms (24.8 days) is shown as answering
  again (`CslEngine.h:143`).
* PingTiming: an update from the master sets the last ping of its servers back and starts the
  timer anew; that no server is put off for good rests on `m_timerInit` alone, by which the
  next shot pings all (`EveryPinged`, with that line left out as its mutation).
* PingTiming: the spreading sets the last ping of every server, so that one that was nearly
  due may wait almost an interval more; one that is put off again may be shown as not answering
  though it answers every ping (`excused` has the servers that were put off). With the program's numbers (3000 ms, a ratio of 4, a
  shot every 250 ms) the limit is above the number of spread servers that are due in one shot,
  so that spread servers do not start it again, unless shots are late or pings fall together.
* Ipc: a program that connects before the lister has handled the end of the connection
  before is refused and its request lost, without a word; so is one that is started while
  the lister starts or ends.

## 6. Not modelled

* Team statistics and the games' decoders: one datagram, no state between two; statistics
  fields and texts of servers.
* IRC channels, nicks, autojoin and the panels: the sessions of `IrcThread` have the states
  that connections depend on, not what is said in them.
* `Views` has the holders of a server, not the controls' columns, sorting and drawing;
  `PingTiming` the selected game's servers, not those of other games that a view keeps
  pinging, nor servers that come and go; `Registry` one game.
* Settings and dialogs, status bar, tool tips, speech, the version check (a thread that
  posts one event), GeoIP, maps and tools: presentation, or functions without state.
* Vendored and generated code.

The modules stand for a small part of all lines of the repository, and will: a large part
of them are images as C arrays (`src/src/img`), libGeoIP, libircclient's headers, tables of
reply numbers, and dialogs that a form designer generated, and most of `CslFrame.cpp`,
`CslIRC.cpp` and the list controls builds menus and columns, draws, and formats. What has
state that outlives one handler is in the modules, but for the parts listed above.

## 7. Plan

Done: all components with concurrency, failure or shared pointers. What is left, in this
order:

1. `Autojoin`: the automatic joining of channels, whose position is one static variable
   for all sessions, composed with the sessions of `IrcThread`.
2. `PingTiming` with servers that come and go and with the servers of other games.
3. `WireCodec`: putint and getint over all widths, against a reference definition.
4. Proofs: that a request of `ExtInfo` that finds nobody expected comes in a calm network,
   whose measure is how many ids `Reset` leaves, and what `EveryPinged` of `PingTiming` rests
   on and is safety.
