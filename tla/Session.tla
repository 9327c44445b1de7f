------------------------------- MODULE Session -------------------------------
(***************************************************************************)
(* The life of the session with one neighbor: the peer task (Peer.run,     *)
(* _run, _establish and the end of _main), the reactor that starts, feeds  *)
(* and removes it between two of its steps (_run_async_peers,              *)
(* handle_connection, reload, restart), and the remote speaker.            *)
(*                                                                         *)
(* A connection ours is closed is forgotten: link describes self.proto,    *)
(* the only connection there is, and fresh says whether the read the task  *)
(* is suspended in is a read of that connection or of one closed since.    *)
(***************************************************************************)
EXTENDS Naturals

CONSTANTS
    Kinds,          \* how the neighbor connects, a subset of Kind
    Higher,         \* TRUE if the identifier of the remote speaker is not lower
    Limits,         \* values of tcp.attempts, 0 for no limit
    Faults          \* bound: what may happen besides the normal course

Kind == {"active", "passive", "env_passive"}

ASSUME SessionAssumption ==
    /\ Kinds \subseteq Kind
    /\ Higher \in BOOLEAN
    /\ Limits \subseteq Nat
    /\ Faults \in Nat

VARIABLES
    kind,       \* session.passive, bgp.passive, or neither
    limit,      \* tcp.attempts
    wanted,     \* the neighbor is in the configuration
    listed,     \* its peer is in Reactor._peers
    task,       \* where the peer task is, see Task
    reading,    \* the suspended read: none, waiting, or done and not resumed
    fresh,      \* the read is of self.proto
    fsm,        \* the state of the FSM
    proto,      \* self.proto is not None
    link,       \* the connection of self.proto
    restart,    \* self._restart
    teardown,   \* self._teardown is set
    attempts,   \* self.connection_attempts, counted up to limit
    told,       \* the last neighbor change the helpers heard of this peer
    faults      \* how many faults are left

peer == <<restart, teardown, told>>
run == <<task, reading, fresh>>
wire == <<fsm, proto, link>>
listing == <<kind, limit, wanted, listed>>
sessionVars == <<listing, run, wire, peer, attempts, faults>>

FSM == {"IDLE", "ACTIVE", "CONNECT", "OPENSENT", "OPENCONFIRM", "ESTABLISHED"}
Task == {"none", "wait", "listening", "connecting", "open", "confirm", "main", "ended"}

\* Both ends count what they sent: 1 for OPEN, 2 for OPEN and KEEPALIVE.  read
\* counts what the task has read of theirs; up is FALSE once they closed.
Links == [up: BOOLEAN, ours: 0..2, theirs: 0..2, read: 0..2]
NoLink == [up |-> FALSE, ours |-> 0, theirs |-> 0, read |-> 0]
NewLink == [up |-> TRUE, ours |-> 0, theirs |-> 0, read |-> 0]

SessionInit ==
    /\ kind \in Kinds
    /\ limit \in Limits
    /\ wanted = TRUE /\ listed = TRUE
    /\ task = "none" /\ reading = "none" /\ fresh = FALSE
    /\ fsm = "IDLE" /\ proto = FALSE /\ link = NoLink
    /\ restart = TRUE /\ teardown = FALSE /\ told = "none"
    /\ attempts = 0
    /\ faults = Faults

Fault == faults > 0 /\ faults' = faults - 1

---------------------------------------------------------------------------
(* Closing, resetting and stopping.                                        *)

\* The helpers hear of a session that goes down, from the state it was in.
Told(state) == IF state \in {"IDLE", "ACTIVE"} THEN told ELSE "down"

\* _close: the connection goes; a read of it will never complete.
Close(state) ==
    /\ told' = Told(state)
    /\ fsm' = "IDLE"
    /\ proto' = FALSE
    /\ link' = NoLink

Reset_Kept(state, again, ending) ==
    /\ Close(state)
    /\ restart' = again
    /\ teardown' = ending
    /\ task' = IF again THEN "wait" ELSE "ended"
    /\ reading' = "none"
    /\ fresh' = FALSE

\* _reset, and the end of run() when the peer is not to restart.
Reset(state, again, ending) ==
    /\ Close(state)
    /\ restart' = again
    /\ teardown' = (ending /\ ~again)
    /\ task' = IF again THEN "wait" ELSE "ended"
    /\ reading' = "none"
    /\ fresh' = FALSE

can_reconnect == limit = 0 \/ attempts < limit

\* The except clauses of _run.  Past the last attempt stop() comes before
\* _reset when the network failed, after it when we notified.
Unhandled == Reset(fsm, restart, teardown)
NetworkFailed ==
    IF can_reconnect THEN Unhandled ELSE Reset("IDLE", FALSE, TRUE)
Notified ==
    IF can_reconnect THEN Unhandled ELSE Reset(fsm, FALSE, TRUE)

---------------------------------------------------------------------------
(* The peer task.                                                          *)

\* The connection is there: OPEN is sent, and the task reads.
SendOpen(connection) ==
    /\ fsm' = "OPENSENT"
    /\ link' = [connection EXCEPT !.ours = 1]
    /\ proto' = TRUE
    /\ task' = "open"
    /\ reading' = "waiting"
    /\ fresh' = TRUE

\* _establish begins, once the delay has passed; or the task is over.
Begin ==
    /\ task = "wait"
    /\ fsm \notin {"OPENCONFIRM", "ESTABLISHED"}
    /\ \/ /\ ~restart
          /\ task' = "ended"
          /\ UNCHANGED <<wire, reading, fresh, attempts>>
       \/ /\ restart /\ proto
          /\ SendOpen(link)
          /\ UNCHANGED attempts
       \/ /\ restart /\ ~proto /\ kind = "env_passive"
          /\ fsm' = "ACTIVE"
          /\ task' = "listening"
          /\ UNCHANGED <<proto, link, reading, fresh, attempts>>
       \/ /\ restart /\ ~proto /\ kind # "env_passive"
          /\ fsm' = "IDLE"
          /\ task' = "connecting"
          /\ attempts' = IF attempts < limit THEN attempts + 1 ELSE attempts
          /\ UNCHANGED <<proto, link, reading, fresh>>
    /\ UNCHANGED <<listing, peer, faults>>

\* bgp.passive: the task turns in a loop until there is a connection.
Heard ==
    /\ task = "listening"
    /\ proto
    /\ SendOpen(link)
    /\ UNCHANGED <<listing, peer, attempts, faults>>

\* _connect succeeds: its connection replaces one accepted in the meantime.
Connected ==
    /\ task = "connecting"
    /\ SendOpen(NewLink)
    /\ UNCHANGED <<listing, peer, attempts, faults>>

\* _connect gives up, and closes a connection accepted in the meantime.
NotConnected ==
    /\ task = "connecting"
    /\ Fault
    /\ Unhandled
    /\ UNCHANGED <<listing, attempts>>

\* The octets of the message the task waits for, or the end of the stream,
\* are there: the read is done, the task is resumed at a later turn.
ReadDone ==
    /\ reading = "waiting"
    /\ fresh
    /\ \/ /\ link.read < link.theirs
          /\ link' = [link EXCEPT !.read = @ + 1]
          /\ reading' = "done"
       \/ /\ link.read = link.theirs
          /\ ~link.up
          /\ reading' = "eof"
          /\ UNCHANGED link
    /\ UNCHANGED <<listing, task, fresh, fsm, proto, peer, attempts, faults>>

ReadLost ==
    /\ reading = "eof"
    /\ NetworkFailed
    /\ UNCHANGED <<listing, attempts, faults>>

ReadOpen_Unsent ==
    /\ task = "open" /\ reading = "done"
    /\ IF fresh /\ proto
       THEN /\ fsm' = "OPENCONFIRM"
            /\ task' = "confirm"
            /\ reading' = "waiting"
            /\ UNCHANGED <<proto, link, fresh, peer>>
       ELSE Unhandled
    /\ UNCHANGED <<listing, attempts, faults>>

\* The OPEN of the remote speaker is in, and negotiated: KEEPALIVE is sent.
\* On a connection that took the place of the one it came by, no OPEN was
\* sent: the assertion of validate() fails.
ReadOpen ==
    /\ task = "open" /\ reading = "done"
    /\ IF fresh /\ proto
       THEN /\ fsm' = "OPENCONFIRM"
            /\ link' = [link EXCEPT !.ours = 2]
            /\ task' = "confirm"
            /\ reading' = "waiting"
            /\ UNCHANGED <<proto, fresh, peer>>
       ELSE Unhandled
    /\ UNCHANGED <<listing, attempts, faults>>

\* The OPEN is refused.
BadOpen ==
    /\ task = "open" /\ reading = "done" /\ fresh /\ proto
    /\ Fault
    /\ Notified
    /\ UNCHANGED <<listing, attempts>>

\* bgp.openwait: always, in the end, when the connection waited on is closed.
OpenWait ==
    /\ task = "open" /\ reading = "waiting"
    /\ IF fresh THEN Fault ELSE UNCHANGED faults
    /\ IF proto THEN Notified ELSE Reset(fsm, restart, teardown)
    /\ UNCHANGED <<listing, attempts>>

\* The KEEPALIVE is in: ESTABLISHED, on whatever connection there is now, and
\* _main begins.  A teardown asked for earlier ends the session at once.
ReadKeepalive ==
    /\ task = "confirm" /\ reading = "done"
    /\ IF ~proto THEN Reset("ESTABLISHED", restart, teardown)
       ELSE IF teardown
       THEN IF can_reconnect THEN Reset("ESTABLISHED", restart, teardown)
            ELSE Reset("ESTABLISHED", FALSE, TRUE)
       ELSE /\ fsm' = "ESTABLISHED"
            /\ task' = "main"
            /\ told' = "up"
            /\ reading' = "none"
            /\ fresh' = FALSE
            /\ UNCHANGED <<proto, link, restart, teardown>>
    /\ UNCHANGED <<listing, attempts, faults>>

\* The loop of _main reads the end of the stream, or a NOTIFICATION.
SessionLost ==
    /\ task = "main" /\ proto /\ ~link.up
    /\ NetworkFailed
    /\ UNCHANGED <<listing, attempts, faults>>

\* The hold timer expires, or the remote speaker broke the protocol.
HoldExpired ==
    /\ task = "main" /\ proto
    /\ Fault
    /\ Notified
    /\ UNCHANGED <<listing, attempts>>

TornDown_Up ==
    /\ task = "main" /\ teardown /\ proto
    /\ Notified
    /\ UNCHANGED <<listing, attempts, faults>>

\* The loop of _main sees the teardown: with graceful restart the connection
\* is closed, without it a NOTIFICATION is sent.  If the reactor closed the
\* connection the loop fails on self.proto.
TornDown ==
    /\ task = "main" /\ teardown
    /\ \/ proto /\ Reset(fsm, restart /\ can_reconnect, TRUE)
       \/ Notified
       \/ ~proto /\ Unhandled
    /\ UNCHANGED <<listing, attempts, faults>>

---------------------------------------------------------------------------
(* The reactor, between two steps of the task.                             *)

\* _run_async_peers starts the task of an active peer.
StartTask ==
    /\ listed
    /\ task = "none"
    /\ kind = "passive" => proto
    /\ task' = "wait"
    /\ UNCHANGED <<listing, reading, fresh, wire, peer, attempts, faults>>

\* _run_async_peers drops the peer of a task that is done.
Reap ==
    /\ listed
    /\ task = "ended"
    /\ listed' = FALSE
    /\ proto' = FALSE /\ link' = NoLink
    /\ UNCHANGED <<kind, limit, wanted, run, fsm, peer, attempts, faults>>

\* A connection of the remote speaker, given to handle_connection: refused
\* when the session is up, or when it is about to be and the one we opened is
\* to be kept; otherwise it takes the place of the one there is.
handle_connection ==
    /\ listed
    /\ Fault
    /\ fsm # "ESTABLISHED"
    /\ fsm = "OPENCONFIRM" => Higher
    /\ IF proto THEN told' = Told(fsm) /\ fsm' = "IDLE" ELSE UNCHANGED <<told, fsm>>
    /\ proto' = TRUE
    /\ link' = NewLink
    /\ fresh' = FALSE
    /\ UNCHANGED <<listing, task, reading, restart, teardown, attempts>>

remove_StopFirst ==
    /\ IF proto THEN Close("IDLE") ELSE fsm' = "IDLE" /\ UNCHANGED <<told, proto, link>>
    /\ fresh' = FALSE
    /\ restart' = FALSE
    /\ teardown' = TRUE
    /\ UNCHANGED <<task, reading, attempts>>

\* Peer.remove: the connection goes, without a word to the remote speaker, and
\* the task is left to find out.
remove ==
    /\ IF proto THEN Close(fsm) ELSE fsm' = "IDLE" /\ UNCHANGED <<told, proto, link>>
    /\ fresh' = FALSE
    /\ restart' = FALSE
    /\ teardown' = TRUE
    /\ UNCHANGED <<task, reading, attempts>>

reestablish ==
    /\ restart' = TRUE
    /\ teardown' = TRUE
    /\ UNCHANGED <<run, wire, told, attempts>>

\* Peer(neighbor), for a key that is not in _peers.
NewPeer ==
    /\ task' = "none" /\ reading' = "none" /\ fresh' = FALSE
    /\ fsm' = "IDLE" /\ proto' = FALSE /\ link' = NoLink
    /\ restart' = TRUE /\ teardown' = FALSE
    /\ attempts' = 0
    /\ told' = "none"

\* Reactor.reload: the file has the neighbor or not, as it was or changed.
Reload ==
    /\ Fault
    /\ \/ /\ wanted' = FALSE
          /\ IF listed THEN remove ELSE UNCHANGED <<run, wire, peer, attempts>>
          /\ UNCHANGED listed
       \/ /\ wanted' = TRUE
          /\ listed' = TRUE
          /\ IF ~listed THEN NewPeer
             ELSE reestablish \/ UNCHANGED <<run, wire, peer, attempts>>
    /\ UNCHANGED <<kind, limit>>

\* The command teardown, or the restart of every peer.
Teardown ==
    /\ wanted /\ listed
    /\ Fault
    /\ reestablish
    /\ UNCHANGED listing

---------------------------------------------------------------------------
(* The remote speaker.                                                     *)

\* It sends OPEN, and KEEPALIVE once it has ours.
RemoteSends ==
    /\ link.up
    /\ \/ link.theirs = 0
       \/ link.theirs = 1 /\ link.ours > 0
    /\ link' = [link EXCEPT !.theirs = @ + 1]
    /\ UNCHANGED <<listing, run, fsm, proto, peer, attempts, faults>>

\* It closes the connection: when it likes, or because the session we believe
\* in sends it KEEPALIVEs where it waits for an OPEN.
RemoteCloses ==
    /\ link.up
    /\ IF task = "main" /\ link.ours = 0 THEN UNCHANGED faults ELSE Fault
    /\ link' = [link EXCEPT !.up = FALSE]
    /\ UNCHANGED <<listing, run, fsm, proto, peer, attempts>>

---------------------------------------------------------------------------

TaskStep ==
    \/ Begin \/ Heard \/ Connected \/ ReadDone \/ ReadLost
    \/ ReadOpen \/ ReadKeepalive \/ SessionLost \/ TornDown
TimerStep == OpenWait \/ NotConnected \/ BadOpen \/ HoldExpired
ReactorStep == StartTask \/ Reap
SessionNext ==
    \/ TaskStep \/ TimerStep \/ ReactorStep
    \/ handle_connection \/ Reload \/ Teardown
    \/ RemoteSends \/ RemoteCloses

SessionSpec == SessionInit /\ [][SessionNext]_sessionVars

\* The event loop runs the task and the reactor again and again; a remote
\* speaker that is there answers, and refuses what is no session.
FairSessionSpec ==
    /\ SessionSpec
    /\ WF_sessionVars(TaskStep)
    /\ WF_sessionVars(ReactorStep)
    /\ WF_sessionVars(OpenWait /\ ~fresh)
    /\ WF_sessionVars(RemoteSends)
    /\ WF_sessionVars(RemoteCloses /\ task = "main" /\ link.ours = 0)

---------------------------------------------------------------------------
(* Properties.                                                             *)

PeerTypeOK ==
    /\ kind \in Kinds
    /\ wanted \in BOOLEAN /\ listed \in BOOLEAN
    /\ task \in Task
    /\ reading \in {"none", "waiting", "done", "eof"}
    /\ fresh \in BOOLEAN
    /\ fsm \in FSM
    /\ proto \in BOOLEAN
    /\ link \in Links
    /\ restart \in BOOLEAN /\ teardown \in BOOLEAN
    /\ limit \in Limits
    /\ attempts \in 0..limit
    /\ told \in {"none", "up", "down"}
    /\ faults \in 0..Faults
    /\ proto \/ link = NoLink
    /\ fresh => proto /\ reading # "none"
    /\ reading = "none" <=> task \notin {"open", "confirm"}

\* A helper that was told the neighbor is up is told it is down as soon as the
\* session is no longer ESTABLISHED (neighbor-changes, Peer._close), except
\* when the session lost was the last one tcp.attempts allows.
DownReported == told = "up" => fsm = "ESTABLISHED" \/ ~can_reconnect

\* The same without the exception.
DownAlwaysReported == told = "up" => fsm = "ESTABLISHED"

\* The read of the task completed on a connection that has been replaced since.
Overtaken == reading = "done" /\ ~fresh

\* A session comes up on a connection by which both OPENs and both KEEPALIVEs
\* went, unless handle_connection came between the last read and its task.
UpOnExchange ==
    [][fsm' = "ESTABLISHED" /\ fsm # "ESTABLISHED"
        => (link'.ours = 2 /\ link'.read = 2) \/ Overtaken]_sessionVars

\* The task waits for a KEEPALIVE by a connection that is closed, without
\* any timer: nothing will wake it.
Orphaned == task = "confirm" /\ reading = "waiting" /\ ~fresh

\* It waits for the remote speaker to connect.
Expecting == task \in {"none", "listening"} /\ ~proto

Exchanged == task = "main" /\ fsm = "ESTABLISHED" /\ proto /\ link.ours = 2

\* Whatever connections came, crossed, failed and were closed, the session of a
\* neighbor that is to have one comes back and stays, once nothing more
\* happens to it, unless its task is orphaned.
Recovers ==
    <>[](Exchanged \/ Orphaned \/ Expecting \/ ~(wanted /\ listed /\ restart))

\* A peer that is not to restart leaves Reactor._peers, unless it is called
\* back, its task is orphaned, or it waits for a connection.
Departs ==
    listed /\ ~restart ~> ~listed \/ restart \/ Orphaned \/ Expecting

\* What the comment on collisions of handle_connection promises: one of the
\* connections is retained, and its session goes through.
CollisionResolved ==
    <>[](Exchanged \/ Expecting \/ ~(wanted /\ listed /\ restart))
=============================================================================
