# ExaBGP in TLA+

ExaBGP is a BGP speaker driven by helper programs and a configuration file: it
keeps BGP sessions up, announces and withdraws the routes it is told to, and
reports what its peers send.  It is one asyncio process: every peer is a task,
and commands, signals, reloads and the other peers run whenever a task awaits.
This directory models the parts of it that keep state over those awaits.

Paths below are relative to `src/exabgp/`.

## 1. Inventory

| Component | State | Operations | Talks to | What is hard | What makes it correct |
|---|---|---|---|---|---|
| Outgoing RIB (`rib/outgoing.py`, `rib/cache.py`, `rib/route.py`) | `_new_nlri`, `_new_attr_af_nlri`, `_pending_withdraws`, `_refresh_families`, `_refresh_routes`, `_seen`, `_watchdog`, `_flush_callbacks` | add, delete, withdraw all, replace on restart and on reload, resend, watchdog, `updates()`, `reset()` | commands, configuration and refresh requests fill it; the peer's task drains it | filled while a snapshot of it is half sent; the same route queued twice; dict orders that reach the wire | the remote speaker ends up with what the cache says; nothing queued is forgotten |
| Sending half of the peer task (`reactor/peer/peer.py`, `reactor/protocol.py`) | `new_routes`, `include_withdraw`, `send_eor`, locals of `_main` | start a generator, send one message, End-of-RIB | the RIB, the socket | the session may end at any await; first batch of a session is special | End-of-RIB after the initial routes; a withdraw is never lost |
| Session half of the peer task (`reactor/peer/peer.py`, `bgp/fsm.py`, `reactor/delay.py`) | `fsm`, `proto`, `_teardown`, `_restart`, `_delay` | connect, accept, OPEN and KEEPALIVE exchange, collision, teardown, restart | listener, reactor, commands | a connection replaced in the middle of an exchange; teardown set at any await | one established connection per peer; a stopped peer stays stopped, another one comes back |
| Session timers (`bgp/timer.py`, `reactor/keepalive.py`) | `last_read`, `single`, `last_sent` | check a message or a timeout, send a KEEPALIVE that is due | the loop that reads and writes | looked at by the task a blocked write holds | a session ends on silence and only then; KEEPALIVEs are in time |
| Connection and framing (`reactor/network/`) | reader and writer buffers | read n octets, read a message, write | the kernel, the peer task | reads cancelled by a 0.1 s timeout | messages are never lost, split or glued |
| Listener (`reactor/listener.py`) | sockets, accepted connections | accept, match a peer, hand over or refuse | the peers | several peers match one connection | each connection is given to one peer or closed |
| Reactor (`reactor/loop.py`, `reactor/interrupt.py`, `reactor/asynchronous.py`) | peers, the callback queue, the pending signal | main loop, reload, restart, shutdown | everything | a signal during the handling of another | no reload is lost; callbacks of one service run in order |
| API processes (`reactor/api/processes.py`) | helpers, their buffers and write queues, respawn times, ack and sync modes | start, respawn, terminate, read lines, queue and flush writes | helpers over pipes, the reactor | helper dies with data queued; back pressure | answers in order, bounded queues, bounded respawns |
| API commands (`reactor/api/`) | the command queue, groups | announce, withdraw, flush, clear, teardown, sync | RIBs and peers | sync answers wait for a flush | an answer means what it says |
| Configuration (`configuration/configuration.py`, `configuration/neighbor/`) | neighbors, previous neighbors, the parse state, the live RIBs | parse, commit, rollback, reload | RIBs, peers | the parse writes to live RIBs before it has succeeded | a failed reload changes nothing; a reload leaves the routes of the new file |
| Incoming RIB (`rib/incoming.py`, `reactor/peer/handlers/update.py`) | cache of received routes, paths by prefix | update, withdraw, clear | API | - | what is shown is what the peer last said |
| RIB registry (`rib/__init__.py`) | RIBs by neighbor name | create or reuse, enable, uncache | configuration, peers | two neighbors meeting on a name | one RIB per live peer |
| OPEN negotiation (`bgp/message/open/`) | `Negotiated` | sent, received, validate | session | capabilities on one side only | both sides agree |
| UPDATE generation (`bgp/message/update/collection.py`) | none | split a collection into messages | sending half | size limits; empty results | every route of the collection is in one message |
| Healthcheck (`application/healthcheck.py`) | rise and fall counters | check, announce, withdraw | API | flapping, start and stop | announces only when up |

Codecs of attributes and NLRI, the configuration grammar, the command line, the
logger and the vendored code keep no state the protocol depends on.

The hazards each of them is exposed to are listed, line by line, in
`PROJECT.json`.

## 2. The modules and what is left

| Module | What it is |
|---|---|
| `OutgoingRIB` | one operator per method of `OutgoingRIB` and `Cache`; no next-state relation of its own |
| `AdjRibOut` | the RIB with the commands that fill it, the peer's task that drains it and the remote speaker: `Spec`, `FairSpec` |
| `ConfigReload` | `AdjRibOut` with the main loop, the configuration and the neighbor objects: `ReloadSpec`, `FairReloadSpec` |
| `ApiCommands` | `AdjRibOut` with the command queue, the callback queue and sync mode: `ApiSpec`, `FairApiSpec` |
| `Session` | the peer's task from its start to its end, with the reactor and the remote speaker: `SessionSpec`, `FairSessionSpec` |
| `Channel` | abstract: whole messages, once each, in order |
| `Framing` | messages cut out of the octets of a connection, shown to implement `Channel`: `FramingSpec` |
| `MainLoop` | `Framing` under the loop of an established session, its timers and its writes: `MainSpec`, `FairMainSpec` |
| `UpdatePacking` | pure: the messages a collection of announced routes is packed into |
| `Negotiation` | two speakers, their OPEN, what each keeps of them, and the UPDATE they exchange (`UpdatePacking`): `NegotiationSpec`, `FairNegotiationSpec` |
| `Listener` | accepted connections, ranges, and the peer each is given to: `ListenerSpec`, `FairListenerSpec` |
| `Processes` | a helper, its pipes and its incarnations: `HelperSpec`, `FairHelperSpec` |
| `Healthcheck` | the bundled health check and what ExaBGP makes of its commands: `HealthSpec`, `FairHealthSpec` |
| `MC...` | model values and bounds for TLC |
| `...Proofs` | theorems: `AdjRibOut`, `ConfigReload`, `ApiCommands`, `Negotiation`, `Processes`, `Healthcheck`; `MainLoopProofs` with `Framing`, `ConnectionProofs` with `Session` and `Listener` |

What links the modules: `ConfigReload` and `ApiCommands` are compositions with
`AdjRibOut`, whose peer, sessions and remote speaker they share; `MainLoop` is one
with `Framing`, whose reader it runs.  `AdjRibOut`
takes from `Session` only that sessions come and go at any time, and from
`Framing` and `Negotiation` that messages of one session arrive whole, in order
and are understood.  `Processes` gives `ApiCommands` its commands in order;
`Healthcheck` is such a helper.  `Listener` hands connections to
`handle_connection` of `Session`.

Left for later, in this order: an abstract table replicated to the remote
speaker, implemented by `AdjRibOut`; the watchdog groups; shutdown of the
reactor; neighbors added by a reload.

## 3. How the modules correspond to the code

### `OutgoingRIB`

The variables are the attributes of the class (`new_nlri` is `_new_nlri`, and so
on) plus the local state of the `updates()` generator: `sending` says that one is
alive, `batch` is what it has left to yield.  The model keeps that the queues are
emptied when the generator takes its first step and not when it ends.

* A route index is a member of `Nlri`; a `Path` is what `in_cache()` compares of
  a route beyond it, its attributes and its next-hop; `AttrOf` gives the
  attributes, which is the key of the second queue.  Two paths with the same
  attributes and different next-hops are therefore possible.
* A dict is a function with `NoPath` for an absent key.  The order of
  `_new_attr_af_nlri` is kept (`attr_order`), because it decides which of two
  announcements of one route is sent last; the order inside one bucket, of the
  withdraws and of the refreshed routes is left open, which covers every order.
* `Change(adds, dels)` is a run of `_update_rib` over some routes followed by a
  run of `_del_from_rib_impl`, which is what every operation does with no await
  in between; the order in which new attribute sets get their key is open.
* Not here: the watchdog groups and a disabled RIB (`enabled = False`).  The
  flush callbacks are in `ApiCommands`, the limit of paths in `Negotiation`.

### `AdjRibOut`

`session` is the peer's task seen from the RIB: in `_main` ("up"), out of it and
not yet reset ("closing"), or anywhere before `_main` ("down").
`include_withdraw` and `send_eor` are the locals of `_main`.  One action is one
stretch of the task between two awaits: `EstablishWith` the top of `_main`,
`StartUpdates` the making of the generator, one `Send...` action per message
yielded, `FinishUpdates` the end of the generator with the End-of-RIB check that
follows, `SendEor` that check in an iteration with no generator, `Lose` and
`Reset` the end of the session.  `Announce`, `Withdraw`, `WithdrawAll` and
`Resend` may happen between any two of them.

The remote speaker is external: `peer_table`, `stale` and `eor` are what it
holds, marks (RFC 7313) and has heard.  Messages of one session arrive in order;
when it ends the remote speaker drops what it learnt, since graceful restart is
not modelled.  A message is delivered in the step that yields it: TCP delays it
but neither reorders nor drops it while the session stays up.

`YieldAnnounces` sends any non-empty part of the current attribute set and of one
family, which covers grouped and ungrouped updates and every way of splitting
them over messages.  The End-of-RIB is sent for all families in one step;
`manual-eor`, operational messages and keepalives are left out, and every
configured family is taken as negotiated.

`initial` is a history variable: the routes cached when the session came up less
those a command has touched since.

Constants that restrict how the RIB is used, because the code does not hold up
without them (section 6 shows each):

* `Overwrites`: may a queued route be queued again with other attributes.
* `EarlyRefresh`: may a resend be asked for before the first batch is out.
* `MpUnicast`: the families whose withdraws are encoded as an MP_UNREACH_NLRI
  with no other attribute.
* `Enhanced`: the values of the first argument of `resend`, so that runs may
  choose plain or enhanced refreshes.  The route-refresh capability turns
  adj-rib-out on (`_post_capa_rr`), so runs keep `Cache` TRUE.

### `ConfigReload`

One neighbor, which every good file has, with the same families and adj-rib-out
on.  A file is the table of routes it gives the neighbor.

* `signal` is `Signal.received`; `configured` is `configuration.neighbors`.  What
  a file that fails leaves in the parser is kept: `left` are the routes of
  `Scope._routes`, `named` says that `ParseProcess._processes` has names in it,
  `parsed` that `ParseNeighbor._neighbors` was left with the neighbor in it.
  `current`, `waiting` and `replacement` are `peer.neighbor` and
  `peer._neighbor` with the `previous` each carries.  `peer._neighbor` may be the
  current neighbor itself (after `reconfigure`) or another one (after
  `reestablish`), and the difference matters: taking one over clears the
  `previous` of the other.  `teardown` is `peer._teardown`.
* `asked` and `wanted` are history: the last file loaded, and what loaded files
  and commands have said, last, of each route.  `Strays` are the routes the last
  file loaded did not give but found in the parser.
* Reading a file is one step of the main loop, as it has no await: `Load` is a
  good one, followed by `reconfigure`, `reestablish` or the restart's own
  `reestablish`; `FailEarly`, `FailLate`, `Refuse` and `Unreadable` are the ways
  it ends otherwise.  Each includes what it did to the live RIB and to the parser
  on the way (`BreakOff`): `_rollback_reload` clears neither, only a commit does.
  A file that fails may have process sections, which come before the neighbor,
  and may have given some of its routes; a file that is loaded has process
  sections or not, so that after `named` it is refused or not.
* Not here: what else a failed file leaves in the scope of the parser (templates,
  the place it had got to), and files with more than one neighbor.
* The peer's task takes the neighbor over at the top of its loop (`TakeOver`),
  when a session starts (`EstablishPeer`) or in `_reset` (`ResetPeer`).
* Commands reach a neighbor through the configuration (`MayName`), except
  withdraw-all and flush, which go by the peers.

Constants that restrict it, for the reasons section 6 shows: `Failures` (which
failures happen), `Restarts`, `Overlaps` (a file read while routes of the last
one are still to be removed) and `Concurrent` (commands given between a reload
and its being taken over).  `ApiNlri = Nlri` lets commands name the routes of the
file too; withdraw-all is only offered then, since it names them all.
`Modified` and `Passive` are choices of configuration: whether a file changes the
definition of the neighbor, and whether it waits to be connected to.

### `Session`

`task` is where the coroutine of the peer is: not there, waiting at the top of
`run`, waiting for a connection, connecting, in the read of an OPEN or of a
KEEPALIVE, in `_main`, or ended and not yet reaped.  Between two awaits the
reactor and the remote speaker may do anything: `handle_connection` closes
`self.proto` and puts another in its place, `remove`, `reestablish`, `Reload` and
`Teardown` set the flags the task looks at later.

* A connection that was closed is forgotten; `link` is that of `self.proto`, and
  `fresh` says whether the suspended read is a read of it.  `reading = "done"`
  is a read that has completed and whose task has not run yet.
* `handle_connection` follows the code's branches on the state of the FSM:
  refused in ESTABLISHED and, in OPENCONFIRM, by comparing identifiers
  (`Higher`); in any other state the new connection replaces the old one.
* `Faults` bounds everything that is not the normal course: collisions,
  losses, refused OPEN, expired timers, reloads, removals, teardowns.
* `told` is the last neighbor change the helpers were sent.
* Time is left out: the delay between two attempts is one step, a timer that
  expires is a fault.  `MainLoop` has the timers of an established session.

### `Channel` and `Framing`

Octets are numbered; message `k` is those after `End[k - 1]` up to `End[k]`.
`Recv` copies what the socket has (`sock_recv_into`), the `Wake...` actions are the
coroutine going on with it, and between the two the timer of `wait_for` may
cancel the whole read (`Timeout`), which forgets the buffer and what was copied
into it.  `first` is where the read under way began, and `torn`, history, says that
a read was cancelled after it had taken octets.  The next read takes what follows
for a header: one that begins inside a message finds no marker and is refused, one
that begins at the end of a message goes on without that message.  That octets
inside a message look like a marker is left out.
`Implements` maps the octets that arrived to the messages that are whole, which is
what `Channel` transmits, and the messages given to the peer's task to what it
receives; a channel is `intact` until `torn`.

### `MainLoop`

`turn` is where `_main` is in its iteration: reading, looking at the hold timer,
at the KEEPALIVE timer, writing a KEEPALIVE, on to what is queued, writing an
UPDATE.  The write of one UPDATE stands for up to 25 of an iteration and for the
refreshes, operational messages and End-of-RIB, of which only that they may block
matters here.

* Time is in whole seconds, as `int(time.time())` is, and kept as ages: `elapsed`
  since `last_read`, `unsent` since `last_sent`, and as history `silence` since the
  last message that counts arrived complete and `waited` since one was written.  An age stops
  just past the hold time.
* Seconds pass where the task waits: in a read that times out (`Idle(TRUE)`) or in
  a write that cannot go on (`Blocked`).  Its own steps take none, and the event
  loop is not held up by other tasks.
* `CheckMessage` renews `last_read` for the messages that count.  `Discards` are the
  UPDATEs an attribute has the parser discard (`INTERNAL_DISCARD`), which
  `read_message` gives to the loop as `_NOP` (`reactor/protocol.py:299`) and for which
  `check_ka_timer` does as it does without a message (`bgp/timer.py:46`).
* The timer of the read fires when the socket has nothing more to give (`Quiet`):
  between two messages, inside one, or just after octets were copied and before the
  coroutine has gone on with them.
* `StopOrGo` is the remote speaker closing and opening its window; `stalled` holds
  `sock_sendall`.  `hold` may be 0, under which a second KEEPALIVE is refused.

### `UpdatePacking` and `Negotiation`

A capability is a field of the OPEN record, present or not in each direction; a
configuration is a record of `Config`.  `NewOpen` is `Capabilities.new` and
`Open.make_open`, `Negotiate` is `Negotiated._negotiate`, `validate` is
`Negotiated.validate`.  A speaker with `local_as` 0 mirrors the AS of the other:
it reads first (`ReadFirst`) and sends second (`SendSecond`), with the AS it has
read in the header and the AS it is configured with, 0, in the capability of four
octets.  AS numbers in
`Wide` do not fit two octets and are spelt `AsTrans` there.  `StartUpdates` is a
collection handed over by `updates()`, cut by the limit of paths, and turned into
messages by `messages`, which keeps the arithmetic of sizes: header, the two
length fields, the attributes, path identifiers, the next-hop of an
MP_REACH_NLRI.  A route either goes in the NLRI field or in MP_REACH_NLRI
(`reach`, told by `Field`).  The loop over each kind is a recursive function,
`Chunks`, of which `Turn` is one turn; `WithRest` and `Reaching` are what is sent
after it.  `Unset` is `Negotiated` before both OPEN are known, of which only the
size is read.  `owed` and `rib` are history: what was handed over, what arrived.

### `Listener`

One action per connection `new_connections` looks at, since the decision for
one depends on what the ones before left in `ranged_neighbor` (`call.ranged`) and
in the sessions the ranges share with the copies made of them (`SharedSession`).
`accepted` is `_accepted`, `scheduled` the runs of `_connected` that wait in the
callback queue, `left` history: a call returned with connections still there.
Addresses are numbers, a range an interval of them; `NoNextHop` is an "auto" local
address.

### `Processes`

A line is two fragments, since reads and writes cut it anywhere; incarnations
of the helper are numbered, so that what one left cannot be taken for what
another wrote.  `ReadCallback` is `_async_reader_callback`, `HandleProblem` is
`_handle_problem` (respawn, give up or mark as broken), `Started` is `_start` with
the count of starts in one bucket of time, `Flush` is `flush_write_queue` with the
writes that succeed, are cut, would block, or fail, and `Tick` starts a new bucket.

### `ApiCommands`

`inbox` is `_command_queue`, `tasks` is `ASYNC._async`: coroutines of commands, and
generators of the listener and of its refusals, which change how `_run_async`
goes about it (`phase`).  The running callback changes one route per step, with an
await after each, and then waits for its flush event in sync mode.  `event`, `idle`,
`due` and `kept` say of that event whether it is set, and whether it can be
relied upon.  The main loop is inside the callback while it waits: no other
command is read.

### `Healthcheck`

`one` is the check with its state machine and the choice of what to announce;
`Say`, `Reply` and `Said` are `exabgp()` one command at a time.  `Sigterm` may come
anywhere and runs `exabgp(EXIT)` on top of what it interrupted.  `good` and `bad` are
history.  `setup` are the addresses the host has: `Missing` and `Restore` are
`setup_ips`, `Remove` is `remove_ips`.  Without `--sudo` the check has dropped its
privileges and `ip` refuses: an address it could not remove stays and is warned of
(`warned`), one it could not add ends the check, unless the exit code of `ip` is the
one taken for "already there" (`unset`).  ExaBGP is a pipe of commands, a count of answers and what it announces
for each address; it may refuse a command (an answer of two lines) and lose its
table with a session.  The command lines of the run are `CommandLines`.

## 4. Properties

Of routes (`AdjRibOut`, `ConfigReload`, `ApiCommands`):

* `Converged` - when no generator is alive and nothing is queued, the remote
  speaker holds exactly what the cache says was announced.
* `EorAfterInitialRoutes` - a family's End-of-RIB follows every route of it the
  session started with and no command has changed since.
* `ChangeArrives` - a route that stays as the commands left it, announced or
  withdrawn, becomes that in the remote speaker's table, if the session stays up.
* `Applied` - the cache holds what the last file loaded and the commands since say,
  but for routes the peer has still to remove and those a refused file left in the
  parser (`Strays`); `Delivered` - so does the remote speaker when nothing is left
  to send.
* `WantedArrives` - what a file or a command says last of a route reaches the
  remote speaker, if the session stays up and is not being torn down, but for
  strays.
* `SyncSent` - a sync command of one route that is answered has its route on the
  wire, if no generator was alive when it began and the session lasted.
* `InOrder` - answers come in the order of the commands, none missing but for
  those dropped; `Answered` - a command is answered unless it is dropped or waits
  for a flush that need not come.

Of sessions (`Session`, `Framing`, `Negotiation`, `Listener`):

* `DownReported` - helpers told that a neighbor is up are told it is down as soon
  as the session is not ESTABLISHED, but for the last attempt of tcp.attempts.
* `UpOnExchange` - a session comes up only on a connection by which both OPEN and
  both KEEPALIVE went, but when the connection was replaced between the last read
  and its task.
* `Recovers` - once nothing more happens, the session of a neighbor that is to
  have one comes back and stays; `Departs` - a peer that is not to restart leaves
  the reactor.  Both except the one state the code has no way out of: a task
  that waits for a KEEPALIVE on a connection that was closed under it.
* `NoFramingError`, `Implements`, `MessageHandled` - well framed messages are never
  refused, come out as `Channel` promises, and all come out, however long writes
  are blocked before they are read, unless a timer or a write ends the session, and
  until a read is cancelled inside a message (`torn`).
* `NotExpired`, `DeadNoticed` - the hold timer ends a session only if no message
  that counts arrived for a hold time, but after a read cancelled inside a message
  or when such a message waits behind a discarded one (`Hidden`), and does end it if
  the remote speaker goes on reading.
* `KeepsAlive` - while no write is blocked the remote speaker never waits more than
  a third of the hold time for a message.
* `Agreed`, `KnownAs` - two speakers that accepted each other's OPEN hold the same
  session, each direction of one being the other direction of the other, and know
  each other by the AS they speak for, or what stands for it.
* `Understood`, `Carried` - no UPDATE is longer than its reader takes or spelt in a
  way it does not expect; every route handed over arrives.  `Settled` - neither
  end is left alone in a session.
* `Individual` - a connection from a neighbor configured for its address goes to
  it, whatever ranges match too; `AsConfigured` - the verdict on the first
  connection of a call is that of the configuration, until a range has moved;
  `Served` - waiting connections are looked at, unless a call returned early.

Of helpers (`Processes`, `Healthcheck`):

* `LinesWhole`, `CommandsKept`, `AnswersKept` - no line is made of two
  incarnations; no command is lost, made up or executed out of order; a helper
  that lives is answered once per command.
* `RespawnBounded`, `Respawned`, `Answered` - starts stay within the limit, a
  helper that is to run runs again, and its commands are answered.
* `Hysteresis` - up after `rise` successes in a row, down after `fall` failures in a
  row, whatever came before; `Reachable` - an address is announced up only while
  the host has it, or took it for set; `CleanExit` - nothing is left announced by a
  clean exit, and on the host only addresses it warned of; `Follows` - what is
  announced follows a service that stays as it is.

## 5. Runs

| Run | Bounds | Shows |
|---|---|---|
| `adj_rib_out` | 2 routes in 2 families, 1 attribute set, plain and enhanced refreshes of either or both | `Converged`, `EorAfterInitialRoutes`, `ChangeArrives` |
| `config_reload` | 1 route, 2 attribute sets, every file on it, passive neighbor, early failures with what they leave in the parser | types, `Applied`, `Delivered`, `WantedArrives` |
| `config_reload_failures` | 1 route, every failure, restarts, overlapping reloads, commands at any time | `Converged` |
| `session` | 3 kinds of neighbor, tcp.attempts 0 and 2, 6 faults | `DownReported`, `UpOnExchange`, `Recovers`, `Departs` |
| `main_loop` | 3 messages of 2 and 3 octets, 2 of them KEEPALIVEs and 1 discarded, reads cancelled anywhere, hold time 0 or 3 s | `NoFramingError`, `Implements`, `NotExpired`, `KeepsAlive`, `DeadNoticed`, `MessageHandled` |
| `negotiation` | pairs of configurations that differ in every option, 1 collection each way | `Agreed`, `KnownAs`, `Understood`, `Carried`, `Settled` |
| `listener` | 4 connections, 4 remote addresses, 2 sockets, a neighbor and 3 ranges | types, `Individual`, `AsConfigured`, `Served` |
| `processes` | 2 lines per incarnation, 3 faults, 2 starts per bucket | the six properties |
| `api_commands` | 2 commands of 6 kinds, 2 routes, 1 refused connection, LIMIT 3 | `SyncSent`, `InOrder`, `Answered` |
| `healthcheck` | 6 command lines, with and without `--sudo`, 2 addresses, a pipe of 2, 2 faults | the four properties |

Why these are enough.  *Routes*: two attribute sets are needed for two copies of
a route to be queued, two routes for a message to hold one and leave out the
other, two families for a refresh of one to touch the other's routes; routes
meet only in the order of the attribute sets, in the emptiness of the queues and
in the first batch, for which two are enough, and the theorems do not depend on
the number.  *Sessions*: six faults let a collision, a loss, a reload and a teardown
fall on one session and on the next; the proofs of the safety properties hold for
any number.  *MainLoop*: a bare header, a body, and messages after both; three
seconds is the shortest hold time there is, with a KEEPALIVE every second, and the
theorems hold for any.
*Negotiation*: three NLRI in messages that hold one or two, one path over the
limit, one AS that is wide and one that is not, hold times zero, too small and
allowed.  *Listener*: an address matched by a neighbor and a range, by two ranges,
by one, by none until a range has moved onto it.  *Processes*: one helper dies,
dies again and exceeds the limit with a line in each pipe.  *ApiCommands*: the
real LIMIT is 50 turns; three turns and refusals that yield two or four times put
a coroutine on the last turn, and short of it.  *Healthcheck*: streaks of 0, 1, 2
and 3.

No run of the RIB needed a counter to be bounded; `Faults`, `Lines`, `MaxCommands`,
`MaxRefusals`, `Connections` and `Rounds` bound the others and are declared as bounds
in their modules.  Deadlock is checked where the system goes on for ever; where
its bounds or its nature let it stop (all messages read, all faults used, the
check ended) the configuration says so.

Runs that expect a violation:

| Run | What the code does |
|---|---|
| `overwritten_route` | `_update_rib` leaves the copy of a route queued under its previous attributes; the order of the attribute sets decides which is sent last |
| `stuck_reactor` | a sync command that leaves nothing to send waits for a flush that never comes, inside the main loop |

### Fairness

Weak fairness everywhere of the steps that wait for nothing but the event loop
or the socket: asyncio runs every task that is ready again and again, and a
session that stays up keeps draining its socket.  In `Session` a remote speaker
that is there is fair too: it answers, and closes what is no session.  Nothing
makes a session come up or stay up in `AdjRibOut`; no command, signal, fault,
connection or change of the service has to come; liveness properties release
themselves when the session ends or the route changes again.  In
`MainLoop` what is left of a message follows its beginning, and nothing makes the
remote speaker read: liveness is stated of one that always reads again (`Reads`).
Strong fairness of three steps: of `Idle(TRUE)` and of `Written` in `MainLoop`, since
time passes and a write goes on whenever the window opens, and of `Flush` in
`Processes`, since it is tried on every iteration while the helper may be blocked
in between.

## 6. Findings without a run

The restrictions of the constants are there because the code does not hold up
without them, and some properties stated in the modules do not hold, or only with
the exceptions they name.  One change to a configuration, or an exception left out
of a property, shows each:

| Change | Violated | What the code does |
|---|---|---|
| `MpUnicast = {g}` in `MCAdjRibOut.cfg` | `EorAfterInitialRoutes` | an UPDATE whose withdraws are not included is empty, which is an End-of-RIB of IPv4 unicast (`bgp/message/update/collection.py:505`) |
| `EarlyRefresh = TRUE` there | `Converged` | `include_withdraw = False` for a first batch that also holds routes a resend queued before the session: a route is sent and its withdraw is not (`reactor/peer/peer.py:655`) |
| `Strays` left out of it, in `MCConfigReload.cfg` | `Applied` | `_rollback_reload` does not clear the scope of the parser: the routes a refused file gave before its error are announced with the next good one (`configuration/configuration.py:524`, `configuration/core/scope.py:48`) |
| none there | `NoneRefused` | nor does it clear the names of process sections: after a refused file that had one, a good file that has it is refused as a duplicate (`configuration/process/__init__.py:87`) |
| `Failures = {"late"}` there | `Applied` | a file that fails after its neighbor block has put its routes in the live RIB |
| the same | `NoneRefused` | after that, every good file is refused as a duplicate of the neighbor (`configuration/neighbor/__init__.py:603`) |
| `Failures = {"unreadable"}` there | `Applied` | a missing file clears the neighbors without a rollback; the next reload knows of no route to remove (`configuration/configuration.py:583`) |
| `Restarts = TRUE` there | `Applied` | a restart reads the file and gives the peer no new neighbor: what the file lost stays (`reactor/loop.py:627`) |
| `Overlaps = TRUE` there | `Applied` | the second of two quick reloads replaces what the first had left to remove (`reactor/peer/peer.py:344`) |
| `Concurrent = TRUE` there | `Applied` | the deferred `replace_reload` undoes a command given since the reload (`reactor/peer/peer.py:716`) |
| none | `ReloadHappens` | the signal is rearmed before the queued routes are noticed, and the reload is forgotten (`reactor/loop.py:241`) |
| `torn` left out of it, in `MCMainLoop.cfg` | `NoFramingError` | `wait_for` cancels a read after 0.1 s wherever it is, and the octets taken are lost: the next are read as a header (`reactor/peer/peer.py:722`) |
| the same | `NotExpired` | a message copied as the timer fires is lost whole, and the hold timer looked at without it |
| `Hidden` left out there | `NotExpired` | an UPDATE that is discarded does not renew the hold timer, which is looked at after each message: read first after a blocked write it ends the session before the KEEPALIVE behind it is read (`reactor/protocol.py:299`, `bgp/timer.py:46`) |
| none there | `BlockedNoticed` | `sock_sendall` has no timeout and the same task reads and looks at the timers (`reactor/network/connection.py:358`): a remote speaker that neither reads nor speaks is never noticed, and two speakers that write to each other with both windows closed wait for ever |
| `Kinds = {"active"}`, `Limits = {0}`, `Faults = 1` in `MCSession.cfg` | `CollisionResolved` | the connection a task waits on in OPENCONFIRM is replaced, its read never ends, and no timer is running; the comment at `reactor/peer/peer.py:381` says one of the two is retained |
| `Limits = {1}` there | `DownAlwaysReported` | a session lost on the last attempt is closed without the helpers being told |
| none, in `MCProcesses.cfg` | `BrokenIsDown` | a helper marked as broken and respawned keeps the mark, and its peers stop; the comment at `reactor/peer/peer.py:859` says this is for respawns that failed |
| none, in `MCHealthcheck.cfg` | `CleanOnSigterm` | a SIGTERM while `readline` waits makes the handler's own `readline` raise after one command (`application/healthcheck.py:507`); the comment at line 597 promises the cleanup |
| `unset` left out of it, there | `Reachable` | an exit code of 2 of `ip` is taken for an address that is already set, and the address is announced up without being there (`application/healthcheck.py:340`) |
| `warned` left out there | `CleanExit` | once the privileges are dropped `ip` cannot remove the addresses: they stay, with a warning, and the check exits with 0 (`application/healthcheck.py:366`, 642) |
| `shifted` left out there | `Reachable` | a refused command is answered in two lines and the check reads one per command: from then on it removes addresses before their withdrawal is executed (`application/healthcheck.py:507`) |
| none, in `MCApiCommands.cfg` | `SyncWaits` | a flush event is set by the generator that was alive when the command registered, before its route is sent; `reactor/api/command/reactor.py:204` says otherwise |
| none there | `NoneDropped` | a coroutine taken in the last turn of a run of generators is not put back, and its command is neither executed nor answered (`reactor/asynchronous.py:155`) |
| `Moved` left out of it, in `MCListener.cfg` | `AsConfigured` | the copy made for a connection of a range shares its `Session` (`reactor/listener.py:309`): the range moves to the address of the connection, and later ones are matched against the moved range |
| `call.ranged` left out there | `AsConfigured` | a range met on the way to one connection of a call counts against the next (`reactor/listener.py:240`) |
| `left` left out there | `Served` | `new_connections` returns at the first connection it refuses or gives to a range; nothing schedules another look at the others (`reactor/listener.py:299`) |
| a route of 20 octets put first, or last, in `Two` of `MCNegotiation` | `Carried`, `Understood` | a route too long for a message ends the generator with what is behind it unsent, or is sent in a message too long, when routes before it filled one (`bgp/message/update/collection.py:425`) |
| `Configs <- LimitOne`, `Batches <- Paths`, `Rounds = 2` in `MCNegotiation.cfg` | `LimitKept` | the paths of a prefix are counted per collection (`rib/outgoing.py:406`); `doc/user/paths-limit.md` says the limit holds for the peer |
| none there | `DistinctIds` | the identifiers are compared when the AS of the peer is the configured one, which is AS_TRANS against a wide one (`bgp/message/open/capability/negotiated.py:242`) |
| `Configs <- ExtendedMirrors` there | `Understood` | `msg_size` of a speaker that mirrors the AS is set before it has sent its OPEN, from half a negotiation, and never again (`reactor/peer/peer.py:531`) |

`KnownAs` states one more as the code has it: the capability of a speaker that
mirrors an AS of four octets says 0, so a speaker with four octets too knows it by
AS 0 (`bgp/message/open/capability/capabilities.py:113`).

What has no property: an enhanced refresh of a family with no cached route queues
its two markers where `pending()` does not look (`rib/outgoing.py:96`).  A group
keeps what it did before it failed, although `reactor/api/command/group.py:8` says
all or nothing.  When a range has moved, a connection
can be given to the peer of another address, and a live peer of a range is
overwritten by `register_peer`.
The notification scheduled for a denied connection at `reactor/listener.py:273` is
never sent, its generator being dropped.

## 7. Proofs

`AdjRibOutProofs` proves, for every value of the constants:

* `TypeCorrect` - `Spec => []SessionTypeOK`.
* `Convergence` - with `~Overwrites` and `~EarlyRefresh`, `Spec => []Converged`.
  `Converged` says nothing of a state with something queued, so it is not
  inductive.  `InSync` says, route by route, who knows of a difference between
  the cache and the remote speaker: the queues (`QueueInv`: what is queued last
  for a route is what the cache holds, and it is queued under one attribute
  set), or else the generator (`BatchInv`: what it has left to say of a route no
  queue has touched since is what the cache holds), or else there is none
  (`TableInv`).  `FirstBatchInv` is why withdraws may be left out of the first
  batch: until it is past them the remote speaker holds nothing, and no refresh
  is queued.  `RefreshInv` is why an End-of-Route-Refresh drops only what has
  gone: each route of a family about to be marked, or marked, is confirmed by the
  refresh unless something newer is queued for it.
* `EndOfRib` - with `MpUnicast = {}` as well, `Spec => []EorAfterInitialRoutes`,
  by `EorInv`: what the session came up with is in the queues, then in the first
  batch, then out.

`ConfigReloadProofs` builds on the same lemmas, since every step of `ReloadNext`
is for the RIB either a step of `Next` or a run of `Change`:

* `ReloadTypeCorrect` - `ReloadSpec => []ReloadTypeOK`, with no restriction.
* `FileApplied` - under `Quiet` (`~Overlaps`, `~Concurrent`, `~Restarts`, only
  early failures, whatever they leave in the parser), `ReloadSpec => []Applied`.
  `ReloadInv` adds what keeps the list of routes to remove right: the neighbor with the last word has the routes
  of the file in force, what it has to remove is what nobody wants, a neighbor
  that waits in an established session is the current one, another one only waits
  under a teardown, and while one waits no command has touched the routes of the
  file.
* `FileDelivered` - with the restrictions of `Convergence` as well,
  `ReloadSpec => []Delivered`, from `FileApplied` and `InSync`.

`MainLoopProofs` about `Framing`, wherever reads are cancelled: `FramingTypeCorrect`,
`FramingCorrect` (`NoFramingError`), `OctetsKept` (`NothingDropped`) and
`FramingImplements`, that `FramingSpec` implements `ChannelSpec` under the mapping of
`Transport`.  The inductive invariant says that, until a read was cancelled inside
a message, a read begins at the end of the last message given to the task and
every octet taken is in its buffer; and, from then on too, that a read that has its
header begins where a message does, and that the messages given to the task come
in order.

`MainLoopProofs` about `MainLoop`, for any hold times, messages and discarded ones:
`HoldTimeKept` (`NotExpired`) and `KeepAliveKept` (`KeepsAlive`).  The invariant of the
first says that `last_read` is never older than the last message that counts when
none is left to read, unless a read was cancelled inside a message, so that a timer
looked at after a quiet wait sees the truth; that of the second
that what the remote speaker waited is at most what `last_sent` says, unless a
KEEPALIVE is being written.

`ConnectionProofs` about `Session`, for any number of faults: `PeerTypeCorrect`, whose type invariant
also ties `proto`, `link`, `reading` and `fresh` together, `NeighborChanges`
(`DownReported`) and `Exchange` (`UpOnExchange`).  The strengthening says in which
states of the task the FSM may be ESTABLISHED and what has gone over the link by
then.

`NegotiationProofs`, for any pair of configurations: `NegotiationTypeCorrect`,
`Agreement` (`Agreed`) and `AsNumbers` (`KnownAs`).  What each has negotiated is a
function of the two OPEN, so the invariant says that the OPEN one has read is the
one the other has sent, in the phases where it may be, with what is still on the
wire, and that an AS that is mirrored is one that is configured.  On the updates, for
any collections of routes as well:

* `UpdatesCarried` - with `RoutesFit`, `NegotiationSpec => []Carried`;
* `UpdatesUnderstood` - with `RoutesFit` and `MirrorsPlain`,
  `NegotiationSpec => []Understood`.

Both rest on `UpdatesInv`.  `BearInv`: every UPDATE on a wire is one its reader
takes, judged by the two OPEN and not by what either speaker has made of them, so
that it stays true of a message sent before its reader confirms.  `SizeInv`: what a
connection reads up to is what was negotiated, but for a speaker that mirrors the
AS, which stays with small messages.  `GenInv`: what a generator has left fits.
`RibInv`: what was handed over is what was read, what is on its way and what the
generator has left, unless it raises, which ends the session.  `Carried` and
`Understood` say nothing of messages behind the first one or in a generator, so
neither is inductive.

What a collection is cut into (`PackingCarries`) is proved of `messages` itself:
each turn of either loop keeps the chunk within its room and loses no route
(`PlainTurn`, `ReachTurn`), `Loop` carries that to the end of the loop, and
`ReachingFits` adds up the message that takes the plain routes twice.  `RoutesFit`
says that each route, with its attributes, fits a message of the usual size even
with a path identifier: one that does not makes the generator raise or, if it is
plain, ends it with only a line in the log, and `Carried` is then false.  `MirrorsPlain` is what
`ExtendedMirrors` violates (see 6).  TLC evaluates both on the instance of
`negotiation` (`UpdatesAssumption` in `MCNegotiation`), and `Carried` still says
something there: its collections fill several messages and put routes of both
kinds in one.

`ConnectionProofs` about `Listener`, for any configuration, sockets and
connections:

* `IndividualFirst` - `Individual`.  `IndividualInv` says what it rests on: the
  peers of the configured neighbors come first and in their order, only the
  sessions of ranges ever move, and `ranged_neighbor` holds ranges only.
* `ListenerTypes` - `ListenerTypeOK`, of which two parts are more than types: the
  connections of `_accepted` are of different sockets, because `incoming` skips a
  socket that has one, and no two peers have one key, because a copy is only
  registered for a connection no peer matches.
* `FirstAsConfigured` - `AsConfigured`.  While nothing has moved, each peer
  matches what its key says, the one connection of a copy included, so the peers
  the loop finds are those the configuration names.  The proof failed at first for
  a good reason: a session that was moved to the address of a connection outside its
  range, by a neighbor left in `ranged_neighbor`, and later back to where the range
  starts, does not look as if it had moved, but the copy made in between matches
  the start of the range.  `Moved` therefore looks at the keys of the peers as well.

`ProcessesProofs`, for any number of lines, faults and starts: `HelperTypes`,
`LinesAreWhole` (`LinesWhole`), `CommandsAreKept` (`CommandsKept`), `AnswersAreKept`
(`AnswersKept`) and `RespawnIsBounded` (`RespawnBounded`).  `HelperInv` says of the
pipes (`PipesInv`) that what the buffer and the pipe hold are consecutive pieces of
what this incarnation wrote, the first being the one after the last line read;
that nothing queued is of an incarnation to come (`NoneAhead`), so that a new one
starts behind what the others left; and, as the properties do, that each queue is
what others left followed by its own, in order and without a gap.  What
`LinesOf` makes of a read is proved from the number of pieces, since pieces
alternate.

`HealthcheckProofs`, for any command line: `HealthTypes`, `FullStreaks`
(`Hysteresis`), `AlwaysReachable` (`Reachable`) and `ExitIsClean` (`CleanExit`).
`StreakInv` ties the counter of the state machine to the streak of checks;
`StepInv` says that, while answers and commands go in step, at most one command is
unanswered and it is the last in the pipe; `ReachInv` what may be announced, or on
its way, while an address is not set; `ExitInv` how far the clean-up has come;
`NestedInv` that a second exit never says anything.  `ExitIsClean` supposes, as
`CleanExit` does, that no command was refused.

`ApiCommandsProofs`, which builds on `AdjRibOutProofs`:

* `ApiTypes`, and `AnswersInOrder` (`InOrder`), with no restriction.  `InLine` says
  that the commands read are, in this order, answered, running and scheduled, and
  that each command missing from that line was dropped.
* `SyncMeansSent` - with the cache, and under the restrictions of `Convergence`,
  `ApiSpec => []SyncSent`.  `SentInv` adds to `InSync` that from the time a command
  of one route has registered with no generator alive, its route is that of the
  cache, and that once the event is set no queue and no generator holds anything of
  it that is older; then `InSync` says that the remote speaker has it.

The assumptions on constants are those named in the modules (`NoPath` is not a
path, `AttrOf` and `FamilyOf` are total, `Attributes` is finite, files are tables of
routes, a message is at least a header, there are two speakers, a collection is a
sequence of routes of some octets each, a discarded UPDATE is no KEEPALIVE, no two sockets have one address, a command changes at least one route, a plain refresh may always be
asked for), and TLC evaluates each.

Inductions over data are by the well-foundedness of the numbers, as a statement on
a set of them (`NatInductive` in `ProcessesProofs`, `UpTo` in `NegotiationProofs`),
since the library's induction theorems take an operator and cannot be cited.

Every invariant and every action property of a passing run is stated by a theorem.
Only model-checked: liveness (`ChangeArrives`, `WantedArrives`, `DeadNoticed`,
`MessageHandled`, `Recovers`, `Departs`, `Answered`, `Respawned`, `Settled`, `Follows`,
`Served`: fairness and ENABLED are beyond the prover), and every violation, which is a
counterexample and needs no proof.  `LoopTypeOK` is part of the proofs about
`MainLoop`; `HelperTypeOK`, `HealthTypeOK` and `ApiTypeOK` are theorems, and no run
lists them.

## 8. Not modelled

`PROJECT.json` says of each component what of it is left out.  Left out whole:
the incoming RIB (one task writes it as each UPDATE arrives, with no await in
between), the RIB registry (a dictionary by name, of which `ConfigReload` keeps
that a reload finds the live RIB again; what a new definition of the neighbor
changes in it does not follow), the attribute and NLRI codecs and the
configuration grammar (functions of their input, whose size and number an
explicit-state check cannot cover), the command line, logging and vendored code
(no protocol state), and what the kernel does to a socket.  The back pressure of
`write_with_backpressure` is not modelled because no writer calls it; the limit of
ten items per flush because helpers share nothing else.  Small parts of the
components that are modelled: the error end of `_connected` in `Listener` (the
connection is gone before it is looked at); the commands that are answered at once, without a
coroutine, in `ApiCommands`; in `Processes`, the reader removed on an `OSError` that is
not fatal (`reactor/api/processes.py:648`).
