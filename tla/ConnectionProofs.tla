-------------------------- MODULE ConnectionProofs --------------------------
(***************************************************************************)
(* What the peer task never does, whatever the kinds of neighbors, the     *)
(* limits on attempts and the number of faults: it does not leave a helper *)
(* with a session that is gone, nor bring one up on a connection it did    *)
(* not exchange OPEN and KEEPALIVE by, unless it was overtaken.  And what  *)
(* the listener, whatever the configuration, never does with a connection  *)
(* before it gets to such a task.                                          *)
(***************************************************************************)
EXTENDS Session, Listener, SequenceTheorems, FiniteSetTheorems, TLAPS

\* Only _main runs ESTABLISHED, and what the task has read of the connection
\* is what its place in _establish says.
PlaceInv ==
    /\ fsm = "ESTABLISHED" => task = "main" /\ proto
    /\ task # "main" /\ ~fresh => link.read = 0
    /\ task = "open" /\ fresh =>
         link.ours = 1 /\ link.read = IF reading = "done" THEN 1 ELSE 0
    /\ task = "confirm" /\ fresh =>
         link.ours = 2 /\ link.read = IF reading = "done" THEN 2 ELSE 1
    /\ link.read <= link.theirs

SessionInv == PeerTypeOK /\ DownReported /\ PlaceInv

---------------------------------------------------------------------------

LEMMA NoLinkType == NoLink \in Links /\ NewLink \in Links
BY DEF NoLink, NewLink, Links

\* A reset keeps the invariant, if the state it starts from is the one the
\* helpers know of or no attempt is left.
LEMMA ResetKeeps ==
    ASSUME SessionInv, NEW state \in FSM, NEW again \in BOOLEAN,
           NEW ending \in BOOLEAN, Reset(state, again, ending),
           state \in {fsm, "ESTABLISHED"} \/ ~can_reconnect,
           listing' = listing, attempts' = attempts, faults' \in 0..Faults
    PROVE  SessionInv'
<1>1. PeerTypeOK'
  BY NoLinkType DEF SessionInv, PeerTypeOK, Reset, Close, Told, listing, Task, FSM
<1>2. can_reconnect' = can_reconnect
  BY DEF can_reconnect, listing
<1>3. DownReported'
  BY <1>2 DEF SessionInv, DownReported, Reset, Close, Told
<1>4. PlaceInv'
  BY DEF PlaceInv, Reset, Close, NoLink
<1> QED BY <1>1, <1>3, <1>4 DEF SessionInv

LEMMA UnhandledKeeps ==
    ASSUME SessionInv, Unhandled, listing' = listing, attempts' = attempts,
           faults' \in 0..Faults
    PROVE  SessionInv'
BY ResetKeeps DEF Unhandled, SessionInv, PeerTypeOK

LEMMA NetworkFailedKeeps ==
    ASSUME SessionInv, NetworkFailed, listing' = listing, attempts' = attempts,
           faults' \in 0..Faults
    PROVE  SessionInv'
<1>1. CASE can_reconnect
  BY <1>1, UnhandledKeeps DEF NetworkFailed
<1>2. CASE ~can_reconnect
  <2>1. "IDLE" \in FSM
    BY DEF FSM
  <2> QED BY <1>2, <2>1, ResetKeeps DEF NetworkFailed
<1> QED BY <1>1, <1>2

LEMMA NotifiedKeeps ==
    ASSUME SessionInv, Notified, listing' = listing, attempts' = attempts,
           faults' \in 0..Faults
    PROVE  SessionInv'
<1>1. CASE can_reconnect
  BY <1>1, UnhandledKeeps DEF Notified
<1>2. CASE ~can_reconnect
  BY <1>2, ResetKeeps DEF Notified, SessionInv, PeerTypeOK
<1> QED BY <1>1, <1>2

\* A fault is counted.
LEMMA FaultCounts ==
    ASSUME SessionInv, Fault \/ faults' = faults
    PROVE  faults' \in 0..Faults
BY SessionAssumption DEF SessionInv, PeerTypeOK, Fault

\* OPEN goes out on a connection nothing was read of yet, by a task that is
\* not in a session.
LEMMA SendOpenKeeps ==
    ASSUME SessionInv, NEW c \in Links, c.read = 0, SendOpen(c), fsm # "ESTABLISHED",
           listing' = listing, peer' = peer, faults' = faults,
           attempts' = attempts
    PROVE  SessionInv'
<1>1. link' \in Links /\ link'.ours = 1 /\ link'.read = 0 /\ link'.theirs = c.theirs
  BY DEF SendOpen, Links
<1>2. c.theirs \in Nat
  BY DEF Links
<1>3. PeerTypeOK'
  BY <1>1 DEF SessionInv, PeerTypeOK, SendOpen, listing, peer, Task, FSM
<1>4. DownReported'
  BY DEF SessionInv, DownReported, SendOpen, peer, listing, can_reconnect
<1>5. PlaceInv'
  BY <1>1, <1>2 DEF PlaceInv, SendOpen
<1> QED BY <1>3, <1>4, <1>5 DEF SessionInv

---------------------------------------------------------------------------
(* The steps.                                                              *)

LEMMA BeginKeeps == SessionInv /\ Begin => SessionInv'
<1> SUFFICES ASSUME SessionInv, Begin PROVE SessionInv'
  OBVIOUS
<1> USE DEF Begin
<1>0. ~fresh /\ fsm # "ESTABLISHED" /\ link \in Links /\ link.read = 0
  BY DEF SessionInv, PeerTypeOK, PlaceInv
<1>1. CASE restart /\ proto /\ SendOpen(link) /\ UNCHANGED attempts
  BY <1>0, <1>1, SendOpenKeeps
<1>2. CASE ~(restart /\ proto)
  <2>1. PeerTypeOK'
    BY <1>2, SessionAssumption DEF SessionInv, PeerTypeOK, listing, peer, wire, Task, FSM
  <2>2. DownReported'
    BY <1>0, <1>2 DEF SessionInv, DownReported, PeerTypeOK, listing, peer, wire, can_reconnect
  <2>3. PlaceInv'
    BY <1>0, <1>2 DEF SessionInv, PlaceInv, wire
  <2> QED BY <2>1, <2>2, <2>3 DEF SessionInv
<1> QED BY <1>1, <1>2

LEMMA ConnectedKeeps == SessionInv /\ (Heard \/ Connected) => SessionInv'
<1> SUFFICES ASSUME SessionInv, Heard \/ Connected PROVE SessionInv'
  OBVIOUS
<1>1. fsm # "ESTABLISHED" /\ ~fresh /\ link \in Links /\ link.read = 0
  BY DEF Heard, Connected, SessionInv, PlaceInv, PeerTypeOK
<1>2. NewLink \in Links /\ NewLink.read = 0
  BY NoLinkType DEF NewLink
<1>3. CASE Heard
  BY <1>1, <1>3, SendOpenKeeps DEF Heard
<1>4. CASE Connected
  BY <1>1, <1>2, <1>4, SendOpenKeeps DEF Connected
<1> QED BY <1>3, <1>4

LEMMA ReadDoneKeeps == SessionInv /\ ReadDone => SessionInv'
<1> SUFFICES ASSUME SessionInv, ReadDone PROVE SessionInv'
  OBVIOUS
<1>1. link \in Links /\ link' \in Links
  BY DEF ReadDone, SessionInv, PeerTypeOK, Links
<1>2. PeerTypeOK'
  BY <1>1 DEF ReadDone, SessionInv, PeerTypeOK, listing, peer
<1>3. DownReported'
  BY DEF ReadDone, SessionInv, DownReported, listing, peer, can_reconnect
<1>4. PlaceInv'
  BY <1>1 DEF ReadDone, SessionInv, PlaceInv, Links
<1> QED BY <1>2, <1>3, <1>4 DEF SessionInv

LEMMA ReadOpenKeeps == SessionInv /\ ReadOpen => SessionInv'
<1> SUFFICES ASSUME SessionInv, ReadOpen PROVE SessionInv'
  OBVIOUS
<1>0. faults' \in 0..Faults
  BY FaultCounts DEF ReadOpen
<1>1. CASE ~(fresh /\ proto)
  BY <1>0, <1>1, UnhandledKeeps DEF ReadOpen
<1>2. CASE fresh /\ proto
  <2>1. link \in Links /\ link' \in Links
    BY <1>2 DEF ReadOpen, SessionInv, PeerTypeOK, Links
  <2>2. PeerTypeOK'
    BY <1>2, <2>1 DEF ReadOpen, SessionInv, PeerTypeOK, listing, peer, Task, FSM
  <2>3. DownReported'
    BY <1>2 DEF ReadOpen, SessionInv, DownReported, PlaceInv, listing, peer, can_reconnect
  <2>4. PlaceInv'
    BY <1>2, <2>1 DEF ReadOpen, SessionInv, PlaceInv, Links
  <2> QED BY <2>2, <2>3, <2>4 DEF SessionInv
<1> QED BY <1>1, <1>2

LEMMA ReadKeepaliveKeeps == SessionInv /\ ReadKeepalive => SessionInv'
<1> SUFFICES ASSUME SessionInv, ReadKeepalive PROVE SessionInv'
  OBVIOUS
<1>0. faults' \in 0..Faults /\ "ESTABLISHED" \in FSM
  BY FaultCounts DEF ReadKeepalive, FSM
<1>1. CASE ~proto \/ teardown
  BY <1>0, <1>1, ResetKeeps DEF ReadKeepalive, SessionInv, PeerTypeOK
<1>2. CASE proto /\ ~teardown
  <2>1. PeerTypeOK'
    BY <1>2 DEF ReadKeepalive, SessionInv, PeerTypeOK, listing, Task, FSM
  <2>2. DownReported'
    BY <1>2 DEF ReadKeepalive, DownReported
  <2>3. PlaceInv'
    BY <1>2 DEF ReadKeepalive, SessionInv, PlaceInv
  <2> QED BY <2>1, <2>2, <2>3 DEF SessionInv
<1> QED BY <1>1, <1>2

\* Every way a session ends.
LEMMA EndsKeep ==
    SessionInv /\ (NotConnected \/ ReadLost \/ BadOpen \/ OpenWait \/ SessionLost
                    \/ HoldExpired \/ TornDown) => SessionInv'
<1> SUFFICES ASSUME SessionInv,
                    NotConnected \/ ReadLost \/ BadOpen \/ OpenWait \/ SessionLost
                      \/ HoldExpired \/ TornDown
             PROVE SessionInv'
  OBVIOUS
<1>0. faults' \in 0..Faults /\ listing' = listing /\ attempts' = attempts
  BY FaultCounts
     DEF NotConnected, ReadLost, BadOpen, OpenWait, SessionLost, HoldExpired, TornDown
<1>1. CASE Unhandled
  BY <1>0, <1>1, UnhandledKeeps
<1>2. CASE NetworkFailed
  BY <1>0, <1>2, NetworkFailedKeeps
<1>3. CASE Notified
  BY <1>0, <1>3, NotifiedKeeps
<1>4. CASE Reset(fsm, restart /\ can_reconnect, TRUE)
  <2>1. fsm \in FSM /\ (restart /\ can_reconnect) \in BOOLEAN
    BY DEF SessionInv, PeerTypeOK, can_reconnect
  <2> QED BY <1>0, <1>4, <2>1, ResetKeeps
<1> QED BY <1>1, <1>2, <1>3, <1>4
       DEF NotConnected, ReadLost, BadOpen, OpenWait, SessionLost, HoldExpired, TornDown,
           Unhandled

LEMMA ReactorKeeps == SessionInv /\ (StartTask \/ Reap) => SessionInv'
<1> SUFFICES ASSUME SessionInv, StartTask \/ Reap PROVE SessionInv'
  OBVIOUS
<1> USE DEF StartTask, Reap, SessionInv
<1>0. CASE StartTask
  <2>1. PeerTypeOK'
    BY <1>0 DEF PeerTypeOK, listing, wire, peer, Task
  <2> QED BY <1>0, <2>1 DEF DownReported, PlaceInv, listing, wire, peer, can_reconnect
<1> SUFFICES ASSUME Reap PROVE SessionInv'
  BY <1>0
<1>1. PeerTypeOK'
  <2>1. ~fresh /\ link' \in Links
    BY NoLinkType DEF PeerTypeOK
  <2> QED BY <2>1 DEF PeerTypeOK, run, peer
<1>2. DownReported'
  BY DEF DownReported, listing, wire, peer, can_reconnect
<1>3. PlaceInv'
  BY DEF PlaceInv, wire, run, NoLink, PeerTypeOK
<1> QED BY <1>1, <1>2, <1>3

LEMMA HandleKeeps == SessionInv /\ handle_connection => SessionInv'
<1> SUFFICES ASSUME SessionInv, handle_connection PROVE SessionInv'
  OBVIOUS
<1>0. faults' \in 0..Faults
  BY FaultCounts DEF handle_connection
<1>1. PeerTypeOK'
  BY <1>0, NoLinkType
     DEF handle_connection, SessionInv, PeerTypeOK, listing, FSM, Told, NewLink
<1>2. DownReported'
  BY DEF handle_connection, SessionInv, DownReported, listing, can_reconnect, Told
<1>3. PlaceInv'
  BY DEF handle_connection, SessionInv, PlaceInv, NewLink
<1> QED BY <1>1, <1>2, <1>3 DEF SessionInv

LEMMA RemoveKeeps ==
    ASSUME SessionInv, remove, kind' = kind, limit' = limit, wanted' \in BOOLEAN,
           listed' \in BOOLEAN, faults' \in 0..Faults
    PROVE  SessionInv'
<1>1. PeerTypeOK'
  BY NoLinkType DEF remove, SessionInv, PeerTypeOK, Close, FSM, Told, NoLink
<1>2. DownReported'
  BY DEF remove, SessionInv, DownReported, can_reconnect, Close, Told, PeerTypeOK, PlaceInv
<1>3. PlaceInv'
  BY DEF remove, SessionInv, PlaceInv, Close, NoLink, PeerTypeOK
<1> QED BY <1>1, <1>2, <1>3 DEF SessionInv

LEMMA ReloadKeeps == SessionInv /\ (Reload \/ Teardown) => SessionInv'
<1> SUFFICES ASSUME SessionInv, Reload \/ Teardown PROVE SessionInv'
  OBVIOUS
<1>0. /\ faults' \in 0..Faults /\ kind' = kind /\ limit' = limit
      /\ wanted' \in BOOLEAN /\ listed' \in BOOLEAN
  BY FaultCounts DEF Reload, Teardown, listing, SessionInv, PeerTypeOK
<1>1. CASE remove
  BY <1>0, <1>1, RemoveKeeps
<1>2. CASE reestablish
  <2>1. PeerTypeOK'
    BY <1>0, <1>2 DEF reestablish, SessionInv, PeerTypeOK, run, wire
  <2>2. DownReported'
    BY <1>0, <1>2 DEF reestablish, SessionInv, DownReported, wire, can_reconnect
  <2>3. PlaceInv'
    BY <1>2 DEF reestablish, SessionInv, PlaceInv, run, wire
  <2> QED BY <2>1, <2>2, <2>3 DEF SessionInv
<1>3. CASE NewPeer
  <2>1. PeerTypeOK'
    <3>1. attempts' \in 0..limit' /\ limit' \in Limits /\ kind' \in Kinds
      BY <1>0, <1>3, SessionAssumption DEF NewPeer, SessionInv, PeerTypeOK
    <3> QED BY <1>0, <1>3, <3>1, NoLinkType DEF NewPeer, PeerTypeOK, Task, FSM
  <2>2. DownReported' /\ PlaceInv'
    BY <1>3 DEF NewPeer, DownReported, PlaceInv, NoLink
  <2> QED BY <2>1, <2>2 DEF SessionInv
<1>4. CASE UNCHANGED <<run, wire, peer, attempts>>
  <2>1. PeerTypeOK'
    BY <1>0, <1>4 DEF SessionInv, PeerTypeOK, run, wire, peer
  <2>2. DownReported' /\ PlaceInv'
    BY <1>0, <1>4 DEF SessionInv, DownReported, PlaceInv, run, wire, peer, can_reconnect
  <2> QED BY <2>1, <2>2 DEF SessionInv
<1> QED BY <1>1, <1>2, <1>3, <1>4 DEF Reload, Teardown

LEMMA RemoteKeeps == SessionInv /\ (RemoteSends \/ RemoteCloses) => SessionInv'
<1> SUFFICES ASSUME SessionInv, RemoteSends \/ RemoteCloses PROVE SessionInv'
  OBVIOUS
<1>0. faults' \in 0..Faults
  BY FaultCounts DEF RemoteSends, RemoteCloses
<1>1. /\ link \in Links /\ link' \in Links /\ link.up
      /\ link'.ours = link.ours /\ link'.read = link.read
      /\ link'.theirs >= link.theirs
  <2>1. link \in Links
    BY DEF SessionInv, PeerTypeOK
  <2>2. CASE RemoteSends
    <3>1. link.theirs + 1 \in 0..2
      BY <2>2 DEF RemoteSends
    <3> QED BY <2>1, <2>2, <3>1 DEF RemoteSends, Links
  <2>3. CASE RemoteCloses
    <3>1. link' = [link EXCEPT !.up = FALSE] /\ link.up
      BY <2>3 DEF RemoteCloses
    <3>2. link.theirs \in Nat /\ link.theirs >= link.theirs
      BY <2>1 DEF Links
    <3>3. link'.theirs = link.theirs /\ link'.ours = link.ours /\ link'.read = link.read
      BY <2>1, <3>1 DEF Links
    <3>4. link' \in Links
      BY <2>1, <3>1 DEF Links
    <3> QED BY <2>1, <3>1, <3>2, <3>3, <3>4
  <2> QED BY <2>2, <2>3
<1>2. proto
  BY <1>1 DEF SessionInv, PeerTypeOK, NoLink
<1>3. PeerTypeOK'
  <2>1. UNCHANGED <<listing, run, fsm, proto, peer, attempts>>
    BY DEF RemoteSends, RemoteCloses
  <2> QED BY <1>0, <1>1, <1>2, <2>1 DEF SessionInv, PeerTypeOK, listing, run, peer
<1>4. DownReported'
  BY DEF RemoteSends, RemoteCloses, SessionInv, DownReported, listing, peer, can_reconnect
<1>5. PlaceInv'
  BY <1>1 DEF RemoteSends, RemoteCloses, SessionInv, PlaceInv, run, Links
<1> QED BY <1>3, <1>4, <1>5 DEF SessionInv

LEMMA StutterKeeps == SessionInv /\ UNCHANGED sessionVars => SessionInv'
BY DEF SessionInv, PeerTypeOK, DownReported, PlaceInv, sessionVars, listing, run, wire,
       peer, can_reconnect

\* In every state of a session the invariant of the steps above holds, whatever the
\* faults, the commands and the other speaker do.
THEOREM SessionSafe == SessionSpec => []SessionInv
<1>1. SessionInit => SessionInv
  <2> SUFFICES ASSUME SessionInit PROVE SessionInv
    OBVIOUS
  <2>1. attempts \in 0..limit /\ faults \in 0..Faults
    BY SessionAssumption DEF SessionInit
  <2>2. PeerTypeOK
    BY <2>1, NoLinkType DEF SessionInit, PeerTypeOK, Task, FSM
  <2> QED BY <2>2 DEF SessionInit, SessionInv, DownReported, PlaceInv, NoLink
<1>2. SessionInv /\ [SessionNext]_sessionVars => SessionInv'
  BY BeginKeeps, ConnectedKeeps, ReadDoneKeeps, ReadOpenKeeps, ReadKeepaliveKeeps, EndsKeep,
     ReactorKeeps, HandleKeeps, ReloadKeeps, RemoteKeeps, StutterKeeps
     DEF SessionNext, TaskStep, TimerStep, ReactorStep
<1> QED BY <1>1, <1>2, PTL DEF SessionSpec

---------------------------------------------------------------------------

\* Every variable of the peer, of its task and of its connection keeps its
\* type, and the connection is there exactly while self.proto is (Peer._close).
THEOREM PeerTypeCorrect == SessionSpec => []PeerTypeOK
<1>1. SessionInv => PeerTypeOK
  BY DEF SessionInv
<1> QED BY <1>1, SessionSafe, PTL

\* Peer._close tells the helpers of every session that goes down, whatever
\* ended it, but for the last one tcp.attempts allows.
THEOREM NeighborChanges == SessionSpec => []DownReported
<1>1. SessionInv => DownReported
  BY DEF SessionInv
<1> QED BY <1>1, SessionSafe, PTL

\* _establish goes to ESTABLISHED on a connection both OPENs and both
\* KEEPALIVEs went by, unless handle_connection overtook its last read.
THEOREM Exchange == SessionSpec => UpOnExchange
<1>1. SessionInv /\ [SessionNext]_sessionVars =>
        [fsm' = "ESTABLISHED" /\ fsm # "ESTABLISHED"
           => (link'.ours = 2 /\ link'.read = 2) \/ Overtaken]_sessionVars
  <2> SUFFICES ASSUME SessionInv, SessionNext,
                      fsm' = "ESTABLISHED", fsm # "ESTABLISHED", ~Overtaken
               PROVE  link'.ours = 2 /\ link'.read = 2
    OBVIOUS
  <2>1. ~(Begin \/ Heard \/ Connected \/ ReadDone \/ ReadOpen \/ ReadLost)
    BY DEF Begin, Heard, Connected, ReadDone, ReadOpen, ReadLost, SendOpen, wire,
           NetworkFailed, Unhandled, Reset, Close
  <2>2. ~(SessionLost \/ TornDown \/ TimerStep)
    BY DEF SessionLost, TornDown, TimerStep, OpenWait, NotConnected, BadOpen, HoldExpired,
           NetworkFailed, Notified, Unhandled, Reset, Close
  <2>3. ~(ReactorStep \/ handle_connection \/ Reload \/ Teardown)
    BY DEF ReactorStep, StartTask, Reap, handle_connection, Reload, Teardown, remove,
           reestablish, NewPeer, wire, Close
  <2>4. ~(RemoteSends \/ RemoteCloses)
    BY DEF RemoteSends, RemoteCloses
  <2>5. ReadKeepalive
    BY <2>1, <2>2, <2>3, <2>4 DEF SessionNext, TaskStep
  <2>6. fresh /\ link' = link
    BY <2>5 DEF ReadKeepalive, Overtaken, Reset, Close
  <2> QED BY <2>5, <2>6 DEF ReadKeepalive, SessionInv, PlaceInv
<1> QED BY <1>1, SessionSafe, PTL DEF SessionSpec, UpOnExchange

-----------------------------------------------------------------------------
(* The listener: a neighbor configured for one address is never passed over  *)
(* for a range, nor for the peer of another address.                         *)

\* The configured peers stay ahead of the ephemeral ones in the registry.
ConfiguredFirst ==
    /\ peers \in Seq({peers[i] : i \in DOMAIN peers})
    /\ Len(peers) >= Len(Neighbors)
    /\ \A i \in Configured : peers[i] = [key |-> <<i, 0, 0>>, session |-> i, size |-> Neighbors[i].size]

\* An ephemeral peer is for one address.
EphemeralSingle == \A i \in DOMAIN peers : i > Len(Neighbors) => peers[i].size = 1 /\ peers[i].key[1] = 0

\* Only the sessions of ranges move.
SinglesStay ==
    /\ DOMAIN sessions = Configured
    /\ \A i \in Configured :
          Neighbors[i].size = 1 => sessions[i] = [start |-> Neighbors[i].start, local |-> Neighbors[i].local]

\* ranged_neighbor holds ranges.
RangesOnly ==
    /\ call \in [on: BOOLEAN, ranged: [Configured -> Nat]]
    /\ \A i \in Configured : call.ranged[i] > 0 => Neighbors[i].size # 1

IndividualInv == ConfiguredFirst /\ EphemeralSingle /\ SinglesStay /\ RangesOnly

\* A configured neighbor is at its own number in the registry.
LEMMA ConfiguredDomain ==
    ASSUME ListenerAssumption, ConfiguredFirst
    PROVE  /\ Configured \subseteq DOMAIN peers
           /\ Configured = 1..Len(Neighbors)
           /\ DOMAIN peers = 1..Len(peers)
           /\ Len(Neighbors) \in Nat /\ Len(peers) \in Nat
  BY DEF ListenerAssumption, ConfiguredFirst, Configured

\* The neighbors are records of the configuration.
LEMMA NeighborTypes ==
    ASSUME ListenerAssumption, NEW i \in Configured
    PROVE  Neighbors[i].start \in Nat /\ Neighbors[i].size \in Nat \ {0} /\ Neighbors[i].local \in Nat
  <1> DEFINE S == [start: Nat, size: Nat \ {0}, local: Nat]
  <1>1. Neighbors \in Seq(S) BY DEF ListenerAssumption
  <1>2. Neighbors[i] \in S
    <2> HIDE DEF S
    <2> QED BY <1>1, ElementOfSeq DEF Configured
  <1> QED BY <1>2

\* While an individually configured neighbor has kept its session, it matches
\* exactly the connections it is meant for.
LEMMA MatchesMeant ==
    ASSUME ListenerAssumption, ConfiguredFirst, SinglesStay,
           NEW i \in Configured, Neighbors[i].size = 1, NEW c \in Connection
    PROVE  Matches(peers[i], c) <=> MeantFor(i, c)
  <1>1. Neighbors[i].start \in Nat /\ Neighbors[i].size \in Nat \ {0} /\ Neighbors[i].local \in Nat
    BY NeighborTypes
  <1>2. peers[i].session = i /\ peers[i].size = 1
    <2>1. peers[i] = [key |-> <<i, 0, 0>>, session |-> i, size |-> Neighbors[i].size]
      BY Zenon DEF ConfiguredFirst
    <2> QED BY ONLY <2>1, Neighbors[i].size = 1
  <1>3. sessions[i].start = Neighbors[i].start /\ sessions[i].local = Neighbors[i].local
    BY DEF SinglesStay
  <1>4. c.from \in Nat
    BY DEF Connection, ListenerAssumption
  <1>5. Matches(peers[i], c) <=> InRange(Neighbors[i].start, 1, c.from) /\ Neighbors[i].local \in {c.to, NoNextHop}
    BY <1>2, <1>3, Zenon DEF Matches
  <1>6. InRange(Neighbors[i].start, 1, c.from)
           <=> c.from \in Neighbors[i].start .. (Neighbors[i].start + Neighbors[i].size - 1)
    <2>1. ASSUME NEW a \in Nat, NEW b \in Nat, NEW z, z = 1
          PROVE  InRange(a, 1, b) <=> b \in a .. (a + z - 1)
      BY ONLY <2>1 DEF InRange
    <2> QED BY ONLY <1>1, <1>4, <2>1, Neighbors[i].size = 1, Zenon
  <1> QED BY <1>5, <1>6, Zenon DEF MeantFor

\* Whatever a call adds to ranged_neighbor is a range.
LEMMA RangedTypes ==
    ASSUME ListenerAssumption, IndividualInv, NEW c, NEW seen \in SUBSET DOMAIN peers
    PROVE  /\ Ranged(c, seen) \in [Configured -> Nat]
           /\ \A s \in Configured : Ranged(c, seen)[s] > 0 => Neighbors[s].size # 1
  <1>1. call.ranged \in [Configured -> Nat] /\ \A s \in Configured : call.ranged[s] > 0 => Neighbors[s].size # 1
    BY DEF IndividualInv, RangesOnly
  <1>2. ASSUME NEW i \in seen, NEW s \in Configured, peers[i].size > 1, peers[i].session = s
        PROVE  Neighbors[s].size # 1
    <2>1. CASE i \in Configured
      <3>1. peers[i] = [key |-> <<i, 0, 0>>, session |-> i, size |-> Neighbors[i].size]
        BY <2>1, Zenon DEF IndividualInv, ConfiguredFirst
      <3> QED BY <1>2, <3>1
    <2>2. CASE i \notin Configured
      <3>1. i > Len(Neighbors)
        BY <2>2, ConfiguredDomain DEF IndividualInv
      <3> QED BY <1>2, <3>1 DEF IndividualInv, EphemeralSingle
    <2> QED BY <2>1, <2>2
  <1> QED BY <1>1, <1>2 DEF Ranged

\* A function on 1..n is a sequence.
LEMMA FunctionSeq ==
    ASSUME NEW n \in Nat, NEW T, NEW s \in [1..n -> T]
    PROVE  s \in Seq(T) /\ Len(s) = n
  OBVIOUS

\* A sequence is one of its own elements.
LEMMA OwnRange ==
    ASSUME NEW S, NEW s \in Seq(S)
    PROVE  s \in Seq({s[i] : i \in DOMAIN s})
  <1> DEFINE T == {s[i] : i \in DOMAIN s}
  <1>1. Len(s) \in Nat /\ DOMAIN s = 1..Len(s) /\ s \in [1..Len(s) -> S]
    BY LenProperties
  <1>2. s \in [1..Len(s) -> T]
    BY <1>1
  <1> HIDE DEF T
  <1>3. s \in Seq(T)
    BY <1>1, <1>2
  <1> QED BY <1>3 DEF T

\* An ephemeral peer that is registered leaves the configured ones alone.
LEMMA RegisterKeeps ==
    ASSUME ListenerAssumption, ConfiguredFirst, EphemeralSingle, NEW p,
           p.size = 1, p.key[1] = 0, peers' = register_peer(p)
    PROVE  ConfiguredFirst' /\ EphemeralSingle'
  <1> DEFINE same == {i \in DOMAIN peers : peers[i].key = p.key}
             S == {peers[i] : i \in DOMAIN peers} \cup {p}
  <1>1. /\ peers \in Seq(S) /\ p \in S
        /\ DOMAIN peers = 1..Len(peers) /\ Len(peers) \in Nat /\ Len(Neighbors) \in Nat
        /\ Configured = 1..Len(Neighbors)
    BY SeqMonotonic, ConfiguredDomain DEF ConfiguredFirst
  <1>2. /\ peers' \in Seq(S)
        /\ DOMAIN peers' = 1..Len(peers') /\ Len(peers') \in Nat /\ Len(peers') >= Len(peers)
        /\ \A i \in 1..Len(peers') : peers'[i] = p \/ (i \in DOMAIN peers /\ peers'[i] = peers[i])
        /\ \A i \in DOMAIN peers : peers'[i] = peers[i] \/ i \in same
    <2>1. CASE same = {}
      <3>1. peers' = Append(peers, p)
        BY <2>1, Zenon DEF register_peer
      <3> HIDE DEF S, same
      <3> QED BY <3>1, <1>1, AppendProperties
    <2>2. CASE same # {}
      <3>1. peers' = [i \in DOMAIN peers |-> IF i \in same THEN p ELSE peers[i]]
        BY <2>2, Zenon DEF register_peer
      <3>2. peers' \in [1..Len(peers) -> S]
        BY <3>1, <1>1
      <3>3. Len(peers') = Len(peers)
        <4> HIDE DEF S, same
        <4> QED BY <3>2, <1>1
      <3>4. peers' \in Seq(S)
        <4> HIDE DEF S, same
        <4> QED BY <3>2, <1>1
      <3> QED BY <3>1, <3>3, <3>4, <1>1
    <2> QED BY <2>1, <2>2
  <1>3. peers' \in Seq({peers'[i] : i \in DOMAIN peers'})
    <2> HIDE DEF S, same
    <2>1. peers' \in Seq(S)
      BY <1>2
    <2>2. \A s \in Seq(S) : s \in Seq({s[i] : i \in DOMAIN s})
      BY OwnRange
    <2> QED BY <2>1, <2>2
  <1>4. \A i \in Configured : i \notin same
    <2> SUFFICES ASSUME NEW i \in Configured, peers[i].key = p.key PROVE FALSE
      OBVIOUS
    <2>1. peers[i].key = <<i, 0, 0>>
      <3>1. peers[i] = [key |-> <<i, 0, 0>>, session |-> i, size |-> Neighbors[i].size]
        BY Zenon DEF ConfiguredFirst
      <3> QED BY <3>1
    <2> QED BY <2>1, <1>1
  <1>5. ConfiguredFirst'
    <2>1. Len(peers') >= Len(Neighbors)
      BY <1>1, <1>2 DEF ConfiguredFirst
    <2>2. ASSUME NEW i \in Configured
          PROVE  peers'[i] = [key |-> <<i, 0, 0>>, session |-> i, size |-> Neighbors[i].size]
      <3>1. peers'[i] = peers[i]
        BY <1>2, <1>4, ConfiguredDomain
      <3> QED BY <3>1, Zenon DEF ConfiguredFirst
    <2> QED BY <1>3, <2>1, <2>2, Zenon DEF ConfiguredFirst, Configured
  <1>6. EphemeralSingle'
    <2> SUFFICES ASSUME NEW i \in DOMAIN peers', i > Len(Neighbors)
                 PROVE  peers'[i].size = 1 /\ peers'[i].key[1] = 0
      BY DEF EphemeralSingle
    <2> QED BY <1>2 DEF EphemeralSingle
  <1> QED BY <1>5, <1>6

\* The inductive step: only GiveToRange changes the registry or a session, and
\* the session it moves is that of a range.
LEMMA IndividualNext ==
    ASSUME ListenerAssumption, IndividualInv, [ListenerNext]_listenerVars
    PROVE  IndividualInv'
  <1> USE DEF IndividualInv
  <1>1. ASSUME UNCHANGED registry, UNCHANGED call \/ call' \in {Idle, [on |-> TRUE, ranged |-> NoRange]}
        PROVE  IndividualInv'
    <2>1. ConfiguredFirst' /\ EphemeralSingle' /\ SinglesStay'
      BY <1>1 DEF registry, ConfiguredFirst, EphemeralSingle, SinglesStay
    <2>2. RangesOnly'
      <3>1. CASE UNCHANGED call
        BY <3>1 DEF RangesOnly
      <3>2. CASE call' \in {Idle, [on |-> TRUE, ranged |-> NoRange]}
        <4>1. NoRange \in [Configured -> Nat] /\ \A i \in Configured : NoRange[i] = 0
          BY DEF NoRange
        <4>2. call'.ranged = NoRange /\ call' \in [on: BOOLEAN, ranged: [Configured -> Nat]]
          <5>1. PICK on \in BOOLEAN : call' = [on |-> on, ranged |-> NoRange]
            BY <3>2, Zenon DEF Idle
          <5> QED BY <4>1, <5>1
        <4> QED BY <4>1, <4>2 DEF RangesOnly
      <3> QED BY <1>1, <3>1, <3>2
    <2> QED BY <2>1, <2>2
  <1>2. CASE GiveToPeer
    <2>1. ConfiguredFirst' /\ EphemeralSingle' /\ SinglesStay'
      BY <1>2 DEF GiveToPeer, registry, ConfiguredFirst, EphemeralSingle, SinglesStay
    <2>2. PICK i \in DOMAIN peers : call' = [call EXCEPT !.ranged = Ranged(Head(accepted), 1..i)]
      BY <1>2, Zenon DEF GiveToPeer, Single
    <2>3. 1..i \in SUBSET DOMAIN peers
      BY ConfiguredDomain
    <2>4. /\ Ranged(Head(accepted), 1..i) \in [Configured -> Nat]
          /\ \A s \in Configured : Ranged(Head(accepted), 1..i)[s] > 0 => Neighbors[s].size # 1
      BY <2>3, RangedTypes
    <2>5. RangesOnly'
      <3> DEFINE r == Ranged(Head(accepted), 1..i)
      <3> HIDE DEF r
      <3>1. call \in [on: BOOLEAN, ranged: [Configured -> Nat]] /\ call' = [call EXCEPT !.ranged = r]
        BY <2>2, Zenon DEF r, RangesOnly
      <3>2. call' \in [on: BOOLEAN, ranged: [Configured -> Nat]] /\ call'.ranged = r
        BY <3>1, <2>4 DEF r
      <3> QED BY <3>2, <2>4, Zenon DEF r, RangesOnly, Configured
    <2> QED BY <2>1, <2>5
  <1>3. CASE GiveToRange
    <2>1. PICK s \in Configured, c \in {Head(accepted)} :
            /\ OnlyRange(Ranged(c, DOMAIN peers), s)
            /\ sessions' = SharedSession(s, c)
            /\ peers' = register_peer([key |-> <<0, c.from, c.to>>, session |-> s, size |-> 1])
      BY <1>3, Zenon DEF GiveToRange
    <2>2. Neighbors[s].size # 1
      <3>1. Ranged(c, DOMAIN peers)[s] = 1
        BY <2>1 DEF OnlyRange, NoRange
      <3>2. \A t \in Configured : Ranged(c, DOMAIN peers)[t] > 0 => Neighbors[t].size # 1
        BY RangedTypes
      <3> QED BY <3>1, <3>2
    <2>3. ConfiguredFirst' /\ EphemeralSingle'
      <3> DEFINE p == [key |-> <<0, c.from, c.to>>, session |-> s, size |-> 1]
      <3>1. p.size = 1 /\ p.key[1] = 0
        OBVIOUS
      <3>2. peers' = register_peer(p)
        BY <2>1
      <3> HIDE DEF p
      <3> QED BY <3>1, <3>2, RegisterKeeps
    <2>4. SinglesStay'
      BY <2>1, <2>2 DEF SinglesStay, SharedSession, Configured
    <2>5. RangesOnly'
      BY <1>3 DEF GiveToRange, Return, RangesOnly, Idle, NoRange
    <2> QED BY <2>3, <2>4, <2>5
  <1>4. CASE Reject
    BY <1>4, <1>1, Zenon DEF Reject, Return
  <1>5. CASE incoming \/ Finish \/ new_connections
    BY <1>5, <1>1, Zenon DEF incoming, Finish, new_connections
  <1>6. CASE \E c \in Connection : Connect(c)
    BY <1>6, <1>1, Zenon DEF Connect
  <1>7. CASE UNCHANGED listenerVars
    BY <1>7, <1>1, Zenon DEF listenerVars
  <1> QED BY <1>2, <1>3, <1>4, <1>5, <1>6, <1>7, Zenon DEF ListenerNext, MainLoop

\* What a step decides on a connection of an individual neighbor.
LEMMA IndividualStep ==
    ASSUME ListenerAssumption, IndividualInv, ListenerNext, NEW c \in Connection, Looked(c), Individually(c) # {}
    PROVE  \E i \in Individually(c) : First(i, Individually(c)) /\ outcome' = To("peer", <<i, 0, 0>>)
  <1> USE DEF IndividualInv
  <1>1. \A i \in Configured : Neighbors[i].size = 1 => (Matches(peers[i], c) <=> MeantFor(i, c))
    BY MatchesMeant
  <1>2. /\ Configured \subseteq DOMAIN peers /\ Configured = 1..Len(Neighbors)
        /\ DOMAIN peers = 1..Len(peers) /\ Len(Neighbors) \in Nat /\ Len(peers) \in Nat
    BY ConfiguredDomain
  <1>3. ASSUME NEW i \in Configured
        PROVE  peers[i].size = Neighbors[i].size /\ peers[i].key = <<i, 0, 0>>
    <2>1. peers[i] = [key |-> <<i, 0, 0>>, session |-> i, size |-> Neighbors[i].size]
      BY Zenon DEF ConfiguredFirst
    <2> QED BY <2>1
  <1>4. \A i \in Configured : i \in Single(c) <=> i \in Individually(c)
    BY <1>1, <1>2, <1>3, Zenon DEF Single, Individually
  <1>5. Individually(c) \subseteq Configured /\ Single(c) \subseteq DOMAIN peers
    BY DEF Individually, Single
  <1>6. accepted # <<>> /\ c = Head(accepted) /\ Single(c) # {}
    BY <1>4, <1>5 DEF Looked
  <1>7. CASE GiveToPeer
    <2>1. PICK i \in Single(c) : First(i, Single(c)) /\ outcome' = [how |-> "peer", key |-> peers[i].key]
      BY <1>6, <1>7, Zenon DEF GiveToPeer
    <2>2. PICK k \in Individually(c) : TRUE
      OBVIOUS
    <2>3. i <= k
      BY <1>4, <1>5, <2>1, <2>2 DEF First
    <2>4. i \in Configured
      BY <1>2, <1>5, <2>2, <2>3
    <2>5. i \in Individually(c) /\ First(i, Individually(c))
      BY <1>4, <1>5, <2>1, <2>4 DEF First
    <2> QED BY <1>3, <2>1, <2>4, <2>5, Zenon DEF To
  <1>8. ~Reject /\ ~GiveToRange /\ ~Finish
    BY <1>6, Zenon DEF Reject, GiveToRange, Finish
  <1>9. ~incoming /\ ~new_connections /\ \A d \in Connection : ~Connect(d)
    BY Zenon DEF Looked, incoming, new_connections, Connect
  <1> QED BY <1>7, <1>8, <1>9 DEF ListenerNext, MainLoop

LEMMA IndividualInitial == ASSUME ListenerAssumption, ListenerInit PROVE IndividualInv
  <1> DEFINE e(i) == [key |-> <<i, 0, 0>>, session |-> i, size |-> Neighbors[i].size]
  <1>1. Len(Neighbors) \in Nat /\ Configured = 1..Len(Neighbors)
    BY DEF ListenerAssumption, Configured
  <1>2. peers = [i \in 1..Len(Neighbors) |-> e(i)]
    BY <1>1 DEF ListenerInit
  <1>3. peers \in [1..Len(Neighbors) -> {e(i) : i \in 1..Len(Neighbors)}]
    BY <1>2
  <1>4. peers \in Seq({e(i) : i \in 1..Len(Neighbors)}) /\ Len(peers) = Len(Neighbors)
    <2> DEFINE T == {e(i) : i \in 1..Len(Neighbors)}
    <2> HIDE DEF T
    <2>1. peers \in [1..Len(Neighbors) -> T]
      BY <1>3 DEF T
    <2>2. peers \in Seq(T) /\ Len(peers) = Len(Neighbors)
      BY <1>1, <2>1, FunctionSeq
    <2> QED BY <2>2 DEF T
  <1>5. ConfiguredFirst
    <2> DEFINE T == {e(i) : i \in 1..Len(Neighbors)}
    <2> HIDE DEF T
    <2>1. peers \in Seq(T)
      BY <1>4 DEF T
    <2>2. \A s \in Seq(T) : s \in Seq({s[i] : i \in DOMAIN s})
      BY OwnRange
    <2>3. peers \in Seq({peers[i] : i \in DOMAIN peers})
      BY <2>1, <2>2
    <2>4. Len(peers) >= Len(Neighbors)
      BY <1>1, <1>4
    <2>5. \A i \in Configured : peers[i] = e(i)
      BY <1>1, <1>2
    <2> QED BY <2>3, <2>4, <2>5, Zenon DEF ConfiguredFirst
  <1>6. EphemeralSingle
    BY <1>1, <1>2, <1>4 DEF EphemeralSingle
  <1>7. SinglesStay
    BY DEF ListenerInit, SinglesStay
  <1>8. RangesOnly
    BY DEF ListenerInit, RangesOnly, Idle, NoRange
  <1> QED BY <1>5, <1>6, <1>7, <1>8 DEF IndividualInv

\* The invariant holds in every state.
LEMMA IndividualInvariant == ASSUME ListenerAssumption PROVE ListenerSpec => []IndividualInv
  <1>1. ListenerInit => IndividualInv
    BY IndividualInitial
  <1>2. IndividualInv /\ [ListenerNext]_listenerVars => IndividualInv'
    BY IndividualNext
  <1> QED BY <1>1, <1>2, PTL DEF ListenerSpec

(* For any configuration, any sockets and any number of connections: one from *)
(* a neighbor configured for its address is handed to the first such neighbor *)
(* (listener.py:265-268), even after ranges have been met, have moved, or     *)
(* have been left in ranged_neighbor by another connection.                   *)
THEOREM IndividualFirst == ASSUME ListenerAssumption PROVE ListenerSpec => Individual
  <1>1. ASSUME IndividualInv, [ListenerNext]_listenerVars
        PROVE  [\A c \in Connection :
                   Looked(c) /\ Individually(c) # {} =>
                       \E i \in Individually(c) :
                           First(i, Individually(c)) /\ outcome' = To("peer", <<i, 0, 0>>)]_listenerVars
    BY <1>1, IndividualStep
  <1> QED BY <1>1, IndividualInvariant, PTL DEF ListenerSpec, Individual

-----------------------------------------------------------------------------
(* Types.                                                                     *)

Apart(s) == \A i, j \in DOMAIN s : s[i].to = s[j].to => i = j

SocketsTyped ==
    /\ backlog \in [Local -> Seq(Remote)]
    /\ accepted \in Seq(Connection)
    /\ Apart(accepted)
    /\ scheduled \in Nat
    /\ connections \in 0..Connections

OneOfAKey == \A i, j \in DOMAIN peers : peers[i].key = peers[j].key => i = j
RegistryTyped ==
    /\ peers \in Seq(Peers)
    /\ OneOfAKey
    /\ sessions \in [Configured -> [start: Nat, local: Nat]]

VerdictTyped == outcome \in Outcomes /\ left \in BOOLEAN

ListenerInv == IndividualInv /\ SocketsTyped /\ RegistryTyped /\ VerdictTyped

\* What is accepted from other sockets keeps the connections apart.
LEMMA JoinedApart ==
    ASSUME NEW S, NEW a \in Seq(S), NEW n \in Nat, NEW b \in [1..n -> S], Apart(a),
           \A i, j \in 1..n : b[i].to = b[j].to => i = j,
           \A i \in DOMAIN a : \A j \in 1..n : a[i].to # b[j].to
    PROVE  a \o b \in Seq(S) /\ Apart(a \o b)
  <1> DEFINE w == a \o b
  <1>1. /\ b \in Seq(S) /\ Len(b) = n /\ DOMAIN b = 1..n
        /\ Len(a) \in Nat /\ DOMAIN a = 1..Len(a)
    BY LenProperties, FunctionSeq
  <1>2. w \in Seq(S) /\ Len(w) = Len(a) + n
    <2>1. a \in Seq(S) /\ b \in Seq(S)
      BY <1>1
    <2>2. a \o b \in Seq(S) /\ Len(a \o b) = Len(a) + Len(b)
      BY ONLY <2>1, ConcatProperties
    <2> QED BY <1>1, <2>2
  <1>3. DOMAIN w = 1..Len(a) + n
    BY <1>1, <1>2, LenProperties
  <1>4. \A i \in 1..Len(a) + n : w[i] = IF i <= Len(a) THEN a[i] ELSE b[i - Len(a)]
    BY <1>1, ConcatProperties
  <1> HIDE DEF w
  <1>5. ASSUME NEW i \in DOMAIN w, NEW j \in DOMAIN w, w[i].to = w[j].to
        PROVE  i = j
    <2>1. CASE i <= Len(a) /\ j <= Len(a)
      <3>1. i \in DOMAIN a /\ j \in DOMAIN a /\ w[i] = a[i] /\ w[j] = a[j]
        BY <1>1, <1>3, <1>4, <2>1
      <3> QED BY <1>5, <3>1 DEF Apart
    <2>2. CASE i > Len(a) /\ j > Len(a)
      <3>1. i - Len(a) \in 1..n /\ j - Len(a) \in 1..n /\ w[i] = b[i - Len(a)] /\ w[j] = b[j - Len(a)]
        BY <1>1, <1>3, <1>4, <2>2
      <3>2. i - Len(a) = j - Len(a)
        BY <1>5, <3>1
      <3> QED BY <1>1, <1>3, <3>2
    <2>3. CASE i <= Len(a) /\ j > Len(a)
      <3>1. i \in DOMAIN a /\ j - Len(a) \in 1..n /\ w[i] = a[i] /\ w[j] = b[j - Len(a)]
        BY <1>1, <1>3, <1>4, <2>3
      <3> QED BY <1>5, <3>1
    <2>4. CASE i > Len(a) /\ j <= Len(a)
      <3>1. j \in DOMAIN a /\ i - Len(a) \in 1..n /\ w[j] = a[j] /\ w[i] = b[i - Len(a)]
        BY <1>1, <1>3, <1>4, <2>4
      <3> QED BY <1>5, <3>1
    <2> QED BY <1>1, <1>3, <2>1, <2>2, <2>3, <2>4
  <1>6. Apart(w)
    BY <1>5 DEF Apart
  <1> QED BY <1>2, <1>6 DEF w

LEMMA AcceptTypes ==
    ASSUME ListenerAssumption, SocketsTyped, Accept
    PROVE  /\ backlog' \in [Local -> Seq(Remote)]
           /\ accepted' \in Seq(Connection)
           /\ Apart(accepted')
  <1>1. DOMAIN Sockets = 1..Len(Sockets) /\ Len(Sockets) \in Nat
    BY DEF ListenerAssumption
  <1>2. ReadyAt \subseteq 1..Len(Sockets) /\ IsFiniteSet(ReadyAt) /\ Cardinality(ReadyAt) \in Nat
    <2>1. ReadyAt \subseteq 1..Len(Sockets)
      BY <1>1 DEF ReadyAt
    <2>2. IsFiniteSet(1..Len(Sockets))
      BY <1>1, FS_Interval
    <2> QED BY <2>1, <2>2, FS_Subset, FS_CardinalityType
  <1> DEFINE n == Cardinality(ReadyAt)
  <1>3. PICK s \in InTurn(ReadyAt) :
          accepted' = accepted \o [k \in 1..n |-> [from |-> Head(backlog[Sockets[s[k]]]), to |-> Sockets[s[k]]]]
    BY DEF Accept
  <1>4. s \in [1..n -> ReadyAt] /\ DOMAIN s = 1..n /\ \A i, j \in DOMAIN s : i < j => s[i] < s[j]
    BY DEF InTurn
  <1> DEFINE b == [k \in 1..n |-> [from |-> Head(backlog[Sockets[s[k]]]), to |-> Sockets[s[k]]]]
  <1>5. n \in Nat
    BY <1>2
  <1>6. ASSUME NEW k \in 1..n
        PROVE  s[k] \in DOMAIN Sockets /\ Ready(Sockets[s[k]]) /\ Sockets[s[k]] \in Local
    BY <1>4 DEF ReadyAt, Local
  <1>7. ASSUME NEW t \in Local, Ready(t)
        PROVE  Head(backlog[t]) \in Remote /\ Tail(backlog[t]) \in Seq(Remote)
    BY <1>7, HeadTailProperties DEF SocketsTyped, Ready
  <1>8. ASSUME NEW k \in 1..n
        PROVE  b[k] \in Connection /\ b[k].to = Sockets[s[k]]
    <2>1. Sockets[s[k]] \in Local /\ Head(backlog[Sockets[s[k]]]) \in Remote
      BY <1>6, <1>7
    <2> QED BY <2>1 DEF Connection
  <1>9. b \in [1..n -> Connection]
    BY <1>8
  <1>10. \A i, j \in 1..n : b[i].to = b[j].to => i = j
    <2> SUFFICES ASSUME NEW i \in 1..n, NEW j \in 1..n, Sockets[s[i]] = Sockets[s[j]] PROVE i = j
      BY <1>8
    <2>1. s[i] = s[j]
      BY <1>6 DEF ListenerAssumption
    <2>2. s[i] \in Nat /\ s[j] \in Nat
      BY <1>1, <1>6
    <2>3. ~(i < j) /\ ~(j < i)
      BY <1>4, <2>1, <2>2
    <2> QED BY <1>5, <2>3
  <1>11. \A i \in DOMAIN accepted : \A j \in 1..n : accepted[i].to # b[j].to
    BY <1>6, <1>8 DEF Ready
  <1>12. accepted' = accepted \o b
    BY <1>3
  <1>13. accepted \in Seq(Connection) /\ Apart(accepted)
    BY DEF SocketsTyped
  <1>14. backlog' \in [Local -> Seq(Remote)]
    <2>1. backlog' = [t \in Local |-> IF Ready(t) THEN Tail(backlog[t]) ELSE backlog[t]]
      BY DEF Accept
    <2>2. \A t \in Local : backlog[t] \in Seq(Remote)
      BY DEF SocketsTyped
    <2> QED BY <1>7, <2>1, <2>2
  <1> HIDE DEF b, n
  <1> QED BY <1>5, <1>9, <1>10, <1>11, <1>12, <1>13, <1>14, JoinedApart

\* The first connection, and what is left without it.
LEMMA FirstTypes ==
    ASSUME SocketsTyped, accepted # <<>>
    PROVE  /\ Head(accepted) \in Connection
           /\ Tail(accepted) \in Seq(Connection) /\ Apart(Tail(accepted))
  <1>1. accepted \in Seq(Connection) /\ Apart(accepted)
    BY DEF SocketsTyped
  <1>2. /\ Head(accepted) \in Connection /\ Tail(accepted) \in Seq(Connection)
        /\ Len(accepted) \in Nat /\ DOMAIN accepted = 1..Len(accepted)
        /\ DOMAIN Tail(accepted) = 1..Len(accepted) - 1
        /\ \A i \in 1..Len(accepted) - 1 : Tail(accepted)[i] = accepted[i + 1]
    BY <1>1, HeadTailProperties, LenProperties
  <1>3. \A i \in DOMAIN Tail(accepted) : i + 1 \in DOMAIN accepted /\ Tail(accepted)[i] = accepted[i + 1]
    BY <1>2
  <1>4. \A i, j \in DOMAIN Tail(accepted) : i + 1 = j + 1 => i = j
    BY <1>2
  <1>5. Apart(Tail(accepted))
    BY <1>1, <1>3, <1>4 DEF Apart
  <1> QED BY <1>2, <1>5

\* A registered peer replaces the one of its key, or comes last.
LEMMA RegisterTypes ==
    ASSUME RegistryTyped, NEW p \in Peers, peers' = register_peer(p)
    PROVE  peers' \in Seq(Peers) /\ OneOfAKey'
  <1> DEFINE same == {i \in DOMAIN peers : peers[i].key = p.key}
  <1>1. /\ peers \in Seq(Peers) /\ Len(peers) \in Nat /\ DOMAIN peers = 1..Len(peers)
        /\ \A i \in 1..Len(peers) : peers[i] \in Peers
    <2>1. peers \in Seq(Peers)
      BY DEF RegistryTyped
    <2> QED BY <2>1, LenProperties, ElementOfSeq
  <1>2. \A i, j \in DOMAIN peers : peers[i].key = peers[j].key => i = j
    BY DEF RegistryTyped, OneOfAKey
  <1>3. CASE same = {}
    <2>1. peers' = Append(peers, p)
      BY <1>3, Zenon DEF register_peer
    <2>2. /\ peers' \in Seq(Peers) /\ DOMAIN peers' = 1..Len(peers) + 1
          /\ peers'[Len(peers) + 1] = p /\ \A i \in 1..Len(peers) : peers'[i] = peers[i]
      <3>1. /\ peers' \in Seq(Peers) /\ Len(peers') = Len(peers) + 1
            /\ peers'[Len(peers) + 1] = p /\ \A i \in 1..Len(peers) : peers'[i] = peers[i]
        BY <1>1, <2>1, AppendProperties
      <3> QED BY <3>1, LenProperties
    <2>3. \A i \in DOMAIN peers : peers[i].key # p.key
      BY <1>3
    <2>4. \A i \in DOMAIN peers' : (i \in DOMAIN peers /\ peers'[i] = peers[i]) \/ (i = Len(peers) + 1 /\ peers'[i] = p)
      BY <1>1, <2>2
    <2>5. OneOfAKey'
      <3> SUFFICES ASSUME NEW i \in DOMAIN peers', NEW j \in DOMAIN peers', peers'[i].key = peers'[j].key
                   PROVE  i = j
        BY DEF OneOfAKey
      <3> QED BY <1>2, <2>3, <2>4
    <2> QED BY <2>2, <2>5
  <1>4. CASE same # {}
    <2>1. peers' = [i \in DOMAIN peers |-> IF i \in same THEN p ELSE peers[i]]
      BY <1>4, Zenon DEF register_peer
    <2>2. peers' \in [1..Len(peers) -> Peers]
      BY <1>1, <2>1
    <2>3. peers' \in Seq(Peers)
      BY <1>1, <2>2, FunctionSeq
    <2>4. DOMAIN peers' = DOMAIN peers /\ \A i \in DOMAIN peers : peers'[i].key = peers[i].key
      BY <2>1
    <2> QED BY <1>2, <2>3, <2>4 DEF OneOfAKey
  <1> QED BY <1>3, <1>4

\* A connection, and the key of a peer made for it.
LEMMA OwnKey ==
    ASSUME ListenerAssumption, NEW c \in Connection
    PROVE  /\ c.from \in Remote /\ c.to \in Local
           /\ c.from \in Nat /\ c.to \in Nat \ {NoNextHop}
           /\ <<0, c.from, c.to>> \in Keys
  <1>1. c.from \in Remote /\ c.to \in Local /\ c.from \in Nat /\ c.to \in Nat \ {NoNextHop}
    <2>1. c.from \in Remote /\ c.to \in Local
      BY DEF Connection
    <2>2. \A i \in DOMAIN Sockets : Sockets[i] \in Nat \ {NoNextHop}
      BY DEF ListenerAssumption
    <2> QED BY <2>1, <2>2 DEF ListenerAssumption, Local
  <1>2. <<0, c.from, c.to>> \in Keys
    BY <1>1 DEF Keys
  <1> QED BY <1>1, <1>2

\* A connection of a range moves its session, and becomes a peer.
LEMMA RangeTypes ==
    ASSUME ListenerAssumption, RegistryTyped, NEW s \in Configured, NEW c \in Connection,
           sessions' = SharedSession(s, c),
           peers' = register_peer([key |-> <<0, c.from, c.to>>, session |-> s, size |-> 1])
    PROVE  RegistryTyped'
  <1>1. c.from \in Nat /\ c.to \in Nat
    BY OwnKey
  <1>2. <<0, c.from, c.to>> \in Keys
    BY OwnKey
  <1>3. [key |-> <<0, c.from, c.to>>, session |-> s, size |-> 1] \in Peers
    BY <1>2 DEF Peers
  <1>4. peers' \in Seq(Peers) /\ OneOfAKey'
    BY <1>3, RegisterTypes
  <1>5. sessions' \in [Configured -> [start: Nat, local: Nat]]
    <2>1. sessions \in [Configured -> [start: Nat, local: Nat]]
      BY DEF RegistryTyped
    <2>2. [start |-> c.from, local |-> c.to] \in [start: Nat, local: Nat]
      BY <1>1
    <2>3. sessions' = [sessions EXCEPT ![s] = [start |-> c.from, local |-> c.to]]
      BY DEF SharedSession
    <2> QED BY ONLY <2>1, <2>2, <2>3
  <1>6. (sessions \in [Configured -> [start: Nat, local: Nat]])'
    BY <1>5 DEF Configured
  <1>7. (peers \in Seq(Peers))'
    BY <1>4
  <1> QED BY <1>4, <1>6, <1>7 DEF RegistryTyped

LEMMA ListenerStep ==
    ASSUME ListenerAssumption, ListenerInv, [ListenerNext]_listenerVars
    PROVE  ListenerInv'
  <1>0. IndividualInv /\ SocketsTyped /\ RegistryTyped /\ VerdictTyped
    BY DEF ListenerInv
  <1>i. IndividualInv'
    BY <1>0, IndividualNext
  <1>r. ASSUME UNCHANGED registry
        PROVE  RegistryTyped'
    BY <1>0, <1>r, Zenon DEF registry, RegistryTyped, OneOfAKey
  <1>v. ASSUME UNCHANGED outcome, left' = left \/ left' \in BOOLEAN
        PROVE  VerdictTyped'
    BY <1>0, <1>v, Zenon DEF VerdictTyped
  <1>s. ASSUME UNCHANGED sockets
        PROVE  SocketsTyped'
    BY <1>0, <1>s, Zenon DEF sockets, SocketsTyped, Apart
  <1>n. NoKey \in Keys \cup {NoKey}
    OBVIOUS
  \* The end of a call, with a verdict of this kind.
  <1>t. ASSUME accepted # <<>>, accepted' = Tail(accepted), UNCHANGED <<backlog, scheduled, connections>>
        PROVE  SocketsTyped'
    <2>1. accepted' \in Seq(Connection) /\ Apart(accepted')
      BY <1>0, <1>t, FirstTypes
    <2>2. Apart(accepted)'
      BY <2>1 DEF Apart
    <2> QED BY <1>0, <1>t, <2>1, <2>2 DEF SocketsTyped
  <1>1. ASSUME NEW c \in Connection, Connect(c)
        PROVE  ListenerInv'
    <2>1. /\ connections < Connections /\ connections' = connections + 1
          /\ backlog' = [backlog EXCEPT ![c.to] = Append(@, c.from)]
          /\ UNCHANGED <<accepted, scheduled>> /\ UNCHANGED registry /\ UNCHANGED <<outcome, left>>
      BY <1>1 DEF Connect
    <2>2. c.from \in Remote /\ c.to \in Local
      BY DEF Connection
    <2>3. backlog' \in [Local -> Seq(Remote)]
      <3>1. backlog \in [Local -> Seq(Remote)]
        BY <1>0 DEF SocketsTyped
      <3>2. Append(backlog[c.to], c.from) \in Seq(Remote)
        BY <2>2, <3>1, AppendProperties
      <3> QED BY ONLY <2>1, <2>2, <3>1, <3>2
    <2>4. connections' \in 0..Connections
      BY <1>0, <2>1 DEF SocketsTyped, ListenerAssumption
    <2>5. SocketsTyped'
      BY <1>0, <2>1, <2>3, <2>4 DEF SocketsTyped, Apart
    <2> QED BY <1>i, <1>r, <1>v, <2>1, <2>5 DEF ListenerInv
  <1>2. ASSUME incoming
        PROVE  ListenerInv'
    <2>1. Accept /\ scheduled' = scheduled + 1 /\ connections' = connections
          /\ UNCHANGED registry /\ UNCHANGED <<outcome, left>>
      BY <1>2 DEF incoming
    <2>2. backlog' \in [Local -> Seq(Remote)] /\ accepted' \in Seq(Connection) /\ Apart(accepted')
      BY <1>0, <2>1, AcceptTypes
    <2>3. Apart(accepted)'
      BY <2>2 DEF Apart
    <2>4. SocketsTyped'
      BY <1>0, <2>1, <2>2, <2>3 DEF SocketsTyped
    <2> QED BY <1>i, <1>r, <1>v, <2>1, <2>4 DEF ListenerInv
  <1>3. ASSUME new_connections
        PROVE  ListenerInv'
    <2>1. /\ scheduled > 0 /\ scheduled' = scheduled - 1 /\ UNCHANGED <<backlog, accepted, connections>>
          /\ UNCHANGED registry /\ UNCHANGED <<outcome, left>>
      BY <1>3 DEF new_connections
    <2>2. SocketsTyped'
      BY <1>0, <2>1 DEF SocketsTyped, Apart
    <2> QED BY <1>i, <1>r, <1>v, <2>1, <2>2 DEF ListenerInv
  <1>4. ASSUME GiveToPeer
        PROVE  ListenerInv'
    <2>1. /\ accepted # <<>> /\ accepted' = Tail(accepted)
          /\ UNCHANGED <<backlog, scheduled, connections>> /\ UNCHANGED registry /\ left' = left
      BY <1>4 DEF GiveToPeer
    <2>2. PICK i \in DOMAIN peers : outcome' = [how |-> "peer", key |-> peers[i].key]
      BY <1>4, Zenon DEF GiveToPeer, Single
    <2>3. peers[i] \in Peers
      <3>1. peers \in Seq(Peers)
        BY <1>0 DEF RegistryTyped
      <3> QED BY <3>1, ElementOfSeq, LenProperties
    <2>4. peers[i].key \in Keys
      BY <2>3 DEF Peers
    <2>5. outcome' \in Outcomes
      BY <2>2, <2>4 DEF Outcomes
    <2>6. VerdictTyped'
      BY <1>0, <2>1, <2>5, Zenon DEF VerdictTyped
    <2> QED BY <1>i, <1>r, <1>t, <2>1, <2>6 DEF ListenerInv
  <1>5. ASSUME Reject
        PROVE  ListenerInv'
    <2>1. /\ accepted # <<>> /\ accepted' = Tail(accepted)
          /\ UNCHANGED <<backlog, scheduled, connections>> /\ UNCHANGED registry
          /\ left' = (accepted' # <<>>)
      BY <1>5, Zenon DEF Reject, Return
    <2>2. outcome' \in {[how |-> "unknown", key |-> NoKey], [how |-> "ambiguous", key |-> NoKey]}
      BY <1>5 DEF Reject
    <2>3. outcome' \in Outcomes
      BY <2>2 DEF Outcomes
    <2>4. left' \in BOOLEAN
      BY <2>1, Zenon
    <2> QED BY <1>i, <1>r, <1>t, <2>1, <2>3, <2>4 DEF ListenerInv, VerdictTyped
  <1>6. ASSUME GiveToRange
        PROVE  ListenerInv'
    <2>1. /\ accepted # <<>> /\ accepted' = Tail(accepted)
          /\ UNCHANGED <<backlog, scheduled, connections>>
          /\ left' = (accepted' # <<>>)
      BY <1>6, Zenon DEF GiveToRange, Return
    <2>2. PICK s \in Configured, c \in {Head(accepted)} :
            /\ sessions' = SharedSession(s, c)
            /\ peers' = register_peer([key |-> <<0, c.from, c.to>>, session |-> s, size |-> 1])
            /\ outcome' = [how |-> "range", key |-> <<0, c.from, c.to>>]
      BY <1>6, Zenon DEF GiveToRange
    <2>3. c \in Connection
      BY <1>0, <2>1, FirstTypes
    <2>4. RegistryTyped'
      BY <1>0, <2>2, <2>3, RangeTypes
    <2>5. outcome' \in Outcomes
      <3>1. <<0, c.from, c.to>> \in Keys
        BY <2>3, OwnKey
      <3> QED BY <2>2, <3>1 DEF Outcomes
    <2>6. left' \in BOOLEAN
      BY <2>1, Zenon
    <2> QED BY <1>i, <1>t, <2>1, <2>4, <2>5, <2>6 DEF ListenerInv, VerdictTyped
  <1>7. ASSUME Finish
        PROVE  ListenerInv'
    <2>1. UNCHANGED sockets /\ UNCHANGED registry /\ UNCHANGED outcome /\ left' \in BOOLEAN
      BY <1>7 DEF Finish
    <2> QED BY <1>i, <1>r, <1>s, <1>v, <2>1 DEF ListenerInv
  <1>8. ASSUME UNCHANGED listenerVars
        PROVE  ListenerInv'
    <2>1. UNCHANGED sockets /\ UNCHANGED registry /\ UNCHANGED outcome /\ left' = left
      BY <1>8, Zenon DEF listenerVars
    <2> QED BY <1>i, <1>r, <1>s, <1>v, <2>1 DEF ListenerInv
  <1> QED BY <1>1, <1>2, <1>3, <1>4, <1>5, <1>6, <1>7, <1>8, Zenon DEF ListenerNext, MainLoop

LEMMA ListenerInitial == ASSUME ListenerAssumption, ListenerInit PROVE ListenerInv
  <1> DEFINE e(i) == [key |-> <<i, 0, 0>>, session |-> i, size |-> Neighbors[i].size]
  <1>1. Len(Neighbors) \in Nat /\ Configured = 1..Len(Neighbors)
    BY DEF ListenerAssumption, Configured
  <1>2. peers = [i \in Configured |-> e(i)]
    BY DEF ListenerInit
  <1>3. ASSUME NEW i \in Configured
        PROVE  e(i) \in Peers /\ [start |-> Neighbors[i].start, local |-> Neighbors[i].local] \in [start: Nat, local: Nat]
    <2>1. <<i, 0, 0>> \in Keys
      BY DEF Keys
    <2>2. Neighbors[i].start \in Nat /\ Neighbors[i].size \in Nat \ {0} /\ Neighbors[i].local \in Nat
      BY NeighborTypes
    <2> QED BY <2>1, <2>2 DEF Peers
  <1>4. peers \in Seq(Peers)
    <2>1. peers \in [1..Len(Neighbors) -> Peers]
      BY <1>1, <1>2, <1>3
    <2> QED BY <1>1, <2>1, FunctionSeq
  <1>5. \A i \in Configured : peers[i].key = <<i, 0, 0>>
    BY <1>2
  <1>6. OneOfAKey
    BY <1>2, <1>5 DEF OneOfAKey
  <1>7. sessions \in [Configured -> [start: Nat, local: Nat]]
    BY <1>3 DEF ListenerInit
  <1>8. RegistryTyped
    BY <1>4, <1>6, <1>7 DEF RegistryTyped
  <1>9. SocketsTyped
    BY DEF ListenerInit, SocketsTyped, Apart, ListenerAssumption
  <1>10. VerdictTyped
    BY DEF ListenerInit, VerdictTyped, Outcomes
  <1>11. IndividualInv
    BY IndividualInitial
  <1> QED BY <1>8, <1>9, <1>10, <1>11 DEF ListenerInv

LEMMA ListenerInvariant == ASSUME ListenerAssumption PROVE ListenerSpec => []ListenerInv
  <1>1. ListenerInit => ListenerInv
    BY ListenerInitial
  <1>2. ListenerInv /\ [ListenerNext]_listenerVars => ListenerInv'
    BY ListenerStep
  <1> QED BY <1>1, <1>2, PTL DEF ListenerSpec

(* The connections waiting in _accepted are of different sockets, no two      *)
(* peers have one key and only ranges get into ranged_neighbor, for any       *)
(* configuration, any sockets and any number of connections.                  *)
THEOREM ListenerTypes == ASSUME ListenerAssumption PROVE ListenerSpec => []ListenerTypeOK
  <1>1. ASSUME ListenerInv
        PROVE  ListenerTypeOK
    <2>1. \A i \in Configured : Neighbors[i].size # 1 => Neighbors[i].size > 1
      <3> SUFFICES ASSUME NEW i \in Configured, Neighbors[i].size # 1 PROVE Neighbors[i].size > 1
        OBVIOUS
      <3>1. Neighbors[i].size \in Nat \ {0}
        BY NeighborTypes
      <3>2. \A n \in Nat \ {0} : n # 1 => n > 1
        OBVIOUS
      <3> QED BY ONLY <3>1, <3>2, Neighbors[i].size # 1, Zenon
    <2>2. \A i \in Configured : call.ranged[i] > 0 => Neighbors[i].size > 1
      BY <1>1, <2>1 DEF ListenerInv, IndividualInv, RangesOnly
    <2>3. call \in [on: BOOLEAN, ranged: [Configured -> Nat]]
      BY <1>1 DEF ListenerInv, IndividualInv, RangesOnly
    <2> QED BY <1>1, <2>2, <2>3, Zenon
            DEF ListenerInv, ListenerTypeOK, SocketsTyped, RegistryTyped, OneOfAKey, VerdictTyped, Apart
  <1> QED BY <1>1, ListenerInvariant, PTL

-----------------------------------------------------------------------------
(* The verdict on the first connection of a call.                             *)

\* While no session has moved, a configured peer matches what it is meant for.
LEMMA ConfiguredMatch ==
    ASSUME ListenerAssumption, ListenerInv, ~Moved, NEW i \in Configured, NEW c \in Connection
    PROVE  /\ peers[i].size = Neighbors[i].size /\ peers[i].session = i /\ peers[i].key = <<i, 0, 0>>
           /\ Matches(peers[i], c) <=> MeantFor(i, c)
  <1>1. Neighbors[i].start \in Nat /\ Neighbors[i].size \in Nat \ {0} /\ Neighbors[i].local \in Nat
    BY NeighborTypes
  <1>2. peers[i].size = Neighbors[i].size /\ peers[i].session = i /\ peers[i].key = <<i, 0, 0>>
    <2>1. peers[i] = [key |-> <<i, 0, 0>>, session |-> i, size |-> Neighbors[i].size]
      BY Zenon DEF ListenerInv, IndividualInv, ConfiguredFirst
    <2> QED BY <2>1
  <1>3. sessions[i].start = Neighbors[i].start /\ sessions[i].local = Neighbors[i].local
    <2>1. sessions[i] = [start |-> Neighbors[i].start, local |-> Neighbors[i].local]
      BY DEF Moved
    <2> QED BY <2>1
  <1>4. c.from \in Nat
    BY OwnKey
  <1>5. Matches(peers[i], c) <=>
          InRange(Neighbors[i].start, Neighbors[i].size, c.from) /\ Neighbors[i].local \in {c.to, NoNextHop}
    BY <1>2, <1>3, Zenon DEF Matches
  <1>6. InRange(Neighbors[i].start, Neighbors[i].size, c.from)
           <=> c.from \in Neighbors[i].start .. (Neighbors[i].start + Neighbors[i].size - 1)
    <2>1. ASSUME NEW a \in Nat, NEW b \in Nat, NEW z \in Nat
          PROVE  InRange(a, z, b) <=> b \in a .. (a + z - 1)
      BY ONLY <2>1 DEF InRange
    <2>2. Neighbors[i].size \in Nat
      BY <1>1
    <2> QED BY ONLY <1>1, <1>4, <2>1, <2>2, Zenon
  <1> QED BY <1>2, <1>5, <1>6, Zenon DEF MeantFor

\* And an ephemeral one matches the connection it is for.
LEMMA EphemeralMatch ==
    ASSUME ListenerAssumption, ListenerInv, ~Moved, NEW i \in DOMAIN peers, i \notin Configured,
           NEW c \in Connection
    PROVE  /\ peers[i].size = 1
           /\ Matches(peers[i], c) <=> peers[i].key = Own(c)
  <1>1. peers[i].size = 1 /\ peers[i].key[1] = 0
    <2>1. i > Len(Neighbors)
      BY ConfiguredDomain DEF ListenerInv, IndividualInv
    <2> QED BY <2>1 DEF ListenerInv, IndividualInv, EphemeralSingle
  <1>2. peers[i].key \in Keys /\ peers[i].session \in Configured
    <2>1. peers \in Seq(Peers)
      BY DEF ListenerInv, RegistryTyped
    <2>2. peers[i] \in Peers
      BY <2>1, ElementOfSeq, LenProperties
    <2> QED BY <2>2 DEF Peers
  <1>3. PICK f \in Remote, t \in Local : peers[i].key = <<0, f, t>>
    <2>1. \A k \in Configured : <<k, 0, 0>>[1] = k /\ k # 0
      BY DEF Configured, ListenerAssumption
    <2>2. peers[i].key \notin {<<k, 0, 0>> : k \in Configured}
      BY <1>1, <2>1
    <2> QED BY <1>2, <2>2 DEF Keys
  <1> DEFINE s == peers[i].session
  <1>4. f = Neighbors[s].start /\ t = Neighbors[s].local
        /\ sessions[s] = [start |-> Neighbors[s].start, local |-> Neighbors[s].local]
    BY <1>2, <1>3 DEF Moved
  <1>5. f \in Nat /\ t # NoNextHop
    <2>1. [from |-> f, to |-> t] \in Connection
      BY DEF Connection
    <2> QED BY <2>1, OwnKey
  <1>6. c.from \in Nat
    BY OwnKey
  <1>7. Matches(peers[i], c) <=> InRange(f, 1, c.from) /\ t \in {c.to, NoNextHop}
    <2>1. sessions[s].start = f /\ sessions[s].local = t
      BY <1>4
    <2> QED BY <1>1, <2>1, Zenon DEF Matches
  <1>8. InRange(f, 1, c.from) <=> c.from = f
    BY ONLY <1>5, <1>6 DEF InRange
  <1>9. peers[i].key = Own(c) <=> f = c.from /\ t = c.to
    BY <1>3 DEF Own
  <1> QED BY <1>1, <1>5, <1>7, <1>8, <1>9

LEMMA VerdictStep ==
    ASSUME ListenerAssumption, ListenerInv, ListenerNext, NEW c \in Connection, Looked(c),
           ~Moved, call.ranged = NoRange
    PROVE  outcome' = Verdict(c)
  <1>1. /\ Configured \subseteq DOMAIN peers /\ Configured = 1..Len(Neighbors)
        /\ DOMAIN peers = 1..Len(peers) /\ Len(Neighbors) \in Nat /\ Len(peers) \in Nat
    BY ConfiguredDomain DEF ListenerInv, IndividualInv
  <1>2. accepted # <<>> /\ c = Head(accepted)
    BY DEF Looked
  <1>3. ~incoming /\ ~new_connections /\ (\A d \in Connection : ~Connect(d)) /\ ~Finish
    BY <1>2, Zenon DEF Looked, incoming, new_connections, Connect, Finish
  <1>4. GiveToPeer \/ Reject \/ GiveToRange
    BY <1>3, Zenon DEF ListenerNext, MainLoop
  <1>5. CASE Individually(c) # {}
    <2>1. PICK i \in Individually(c) : First(i, Individually(c)) /\ outcome' = To("peer", <<i, 0, 0>>)
      BY <1>5, IndividualStep DEF ListenerInv
    <2>2. \A k \in Individually(c) : First(k, Individually(c)) => k = i
      <3> SUFFICES ASSUME NEW k \in Individually(c), First(k, Individually(c)) PROVE k = i
        OBVIOUS
      <3>1. i <= k /\ k <= i
        BY <2>1 DEF First
      <3>2. i \in Configured /\ k \in Configured
        BY DEF Individually
      <3> QED BY ONLY <1>1, <3>1, <3>2
    <2>3. (CHOOSE k \in Individually(c) : First(k, Individually(c))) = i
      BY <2>1, <2>2
    <2>4. Verdict(c) = To("peer", <<i, 0, 0>>)
      BY <1>5, <2>3 DEF Verdict
    <2> QED BY <2>1, <2>4
  <1> DEFINE mine == \E i \in DOMAIN peers : peers[i].key = Own(c)
  <1>6. ASSUME NEW j \in DOMAIN peers, Individually(c) = {}
        PROVE  j \in Single(c) <=> peers[j].key = Own(c)
    <2>1. CASE j \in Configured
      <3>1. j \notin Single(c)
        BY <1>6, <2>1, ConfiguredMatch DEF Single, Individually
      <3>2. peers[j].key = <<j, 0, 0>> /\ j # 0
        BY <1>1, <2>1, ConfiguredMatch
      <3> QED BY <3>1, <3>2 DEF Own
    <2>2. CASE j \notin Configured
      BY <2>2, EphemeralMatch DEF Single
    <2> QED BY <2>1, <2>2
  <1>7. CASE Individually(c) = {} /\ mine
    <2>1. Single(c) # {}
      BY <1>6, <1>7 DEF Single
    <2>2. GiveToPeer
      BY <1>2, <1>4, <2>1, Zenon DEF Reject, GiveToRange
    <2>3. PICK i \in Single(c) : outcome' = [how |-> "peer", key |-> peers[i].key]
      BY <1>2, <2>2, Zenon DEF GiveToPeer
    <2>4. peers[i].key = Own(c)
      BY <1>6, <1>7, <2>3 DEF Single
    <2>5. Verdict(c) = To("peer", Own(c))
      BY <1>7 DEF Verdict
    <2> QED BY <2>3, <2>4, <2>5 DEF To
  <1>8. CASE Individually(c) = {} /\ ~mine
    <2>1. Single(c) = {}
      BY <1>6, <1>8 DEF Single
    <2>2. Reject \/ GiveToRange
      BY <1>2, <1>4, <2>1, Zenon DEF GiveToPeer
    <2> DEFINE R == Ranged(c, DOMAIN peers)
    <2>3. ASSUME NEW t \in Configured
          PROVE  R[t] = IF t \in ByRange(c) THEN 1 ELSE 0
      <3>1. R[t] = IF \E i \in DOMAIN peers : peers[i].size > 1 /\ peers[i].session = t /\ Matches(peers[i], c)
                   THEN 1 ELSE 0
        <4>1. call.ranged[t] = 0
          BY DEF NoRange
        <4> QED BY <4>1 DEF Ranged
      <3>2. ASSUME NEW i \in DOMAIN peers, peers[i].size > 1, peers[i].session = t, Matches(peers[i], c)
            PROVE  t \in ByRange(c)
        <4>1. i \in Configured
          <5>1. i \notin Configured => peers[i].size = 1
            BY EphemeralMatch
          <5> QED BY <3>2, <5>1
        <4>2. i = t /\ peers[i].size = Neighbors[i].size /\ MeantFor(i, c)
          BY <3>2, <4>1, ConfiguredMatch
        <4> QED BY <3>2, <4>2 DEF ByRange
      <3>3. ASSUME t \in ByRange(c)
            PROVE  t \in DOMAIN peers /\ peers[t].size > 1 /\ peers[t].session = t /\ Matches(peers[t], c)
        BY <1>1, <3>3, ConfiguredMatch DEF ByRange
      <3> QED BY <3>1, <3>2, <3>3
    <2>4. ByRange(c) \subseteq Configured
      BY DEF ByRange
    <2>5. R = NoRange <=> ByRange(c) = {}
      <3>1. R = [t \in Configured |-> R[t]]
        BY DEF Ranged
      <3>2. ASSUME ByRange(c) = {}
            PROVE  R = NoRange
        <4>1. \A t \in Configured : R[t] = 0
          BY <2>3, <3>2
        <4> HIDE DEF R
        <4> QED BY <3>1, <4>1 DEF NoRange
      <3>3. ASSUME R = NoRange
            PROVE  ByRange(c) = {}
        <4>1. \A t \in Configured : R[t] = 0
          BY <3>3 DEF NoRange
        <4> QED BY <2>3, <2>4, <4>1
      <3> QED BY <3>2, <3>3
    <2>6. ASSUME NEW s \in Configured
          PROVE  OnlyRange(R, s) <=> ByRange(c) = {s}
      <3>1. R = [t \in Configured |-> R[t]]
        BY DEF Ranged
      <3>2. [NoRange EXCEPT ![s] = 1] = [t \in Configured |-> IF t = s THEN 1 ELSE 0]
        BY DEF NoRange
      <3>3. ASSUME OnlyRange(R, s)
            PROVE  ByRange(c) = {s}
        <4>1. R = [t \in Configured |-> IF t = s THEN 1 ELSE 0]
          BY <3>2, <3>3 DEF OnlyRange
        <4>2. \A t \in Configured : R[t] = IF t = s THEN 1 ELSE 0
          <5> HIDE DEF R
          <5> QED BY <4>1
        <4>3. \A t \in Configured : t \in ByRange(c) <=> t = s
          <5> HIDE DEF R
          <5> QED BY <2>3, <4>2
        <4> QED BY <2>4, <4>3
      <3>4. ASSUME ByRange(c) = {s}
            PROVE  OnlyRange(R, s)
        <4>1. \A t \in Configured : R[t] = IF t = s THEN 1 ELSE 0
          BY <2>3, <3>4
        <4>2. R = [t \in Configured |-> IF t = s THEN 1 ELSE 0]
          <5> HIDE DEF R
          <5> QED BY <3>1, <4>1
        <4> QED BY <3>2, <4>2 DEF OnlyRange
      <3> QED BY <3>3, <3>4
    <2>7. IsFiniteSet(ByRange(c))
      <3>1. IsFiniteSet(1..Len(Neighbors))
        BY <1>1, FS_Interval
      <3> QED BY <1>1, <2>4, <3>1, FS_Subset
    <2>8. (Cardinality(ByRange(c)) = 1) <=> \E s \in Configured : ByRange(c) = {s}
      BY <2>4, <2>7, FS_Singleton
    <2>9. /\ GiveToRange => /\ Cardinality(ByRange(c)) = 1 /\ ByRange(c) # {}
                            /\ outcome' = To("range", Own(c))
          /\ Reject => \/ ByRange(c) = {} /\ outcome' = To("unknown", NoKey)
                       \/ /\ ByRange(c) # {} /\ Cardinality(ByRange(c)) # 1
                          /\ outcome' = To("ambiguous", NoKey)
      <3>1. ASSUME GiveToRange
            PROVE  Cardinality(ByRange(c)) = 1 /\ ByRange(c) # {} /\ outcome' = To("range", Own(c))
        <4>1. PICK s \in Configured : OnlyRange(R, s) /\ outcome' = [how |-> "range", key |-> <<0, c.from, c.to>>]
          BY <1>2, <3>1, Zenon DEF GiveToRange
        <4>2. ByRange(c) = {s}
          BY <2>6, <4>1
        <4> QED BY <2>8, <4>1, <4>2 DEF To, Own
      <3>2. ASSUME Reject
            PROVE  \/ ByRange(c) = {} /\ outcome' = To("unknown", NoKey)
                   \/ /\ ByRange(c) # {} /\ Cardinality(ByRange(c)) # 1
                      /\ outcome' = To("ambiguous", NoKey)
        <4>1. \/ R = NoRange /\ outcome' = [how |-> "unknown", key |-> NoKey]
              \/ /\ R # NoRange /\ \A s \in Configured : ~OnlyRange(R, s)
                 /\ outcome' = [how |-> "ambiguous", key |-> NoKey]
          BY <1>2, <3>2, Zenon DEF Reject
        <4> HIDE DEF R
        <4> QED BY <2>5, <2>6, <2>8, <4>1, Zenon DEF To
      <3> QED BY <3>1, <3>2
    <2>10. /\ ByRange(c) = {} => Verdict(c) = To("unknown", NoKey)
           /\ ByRange(c) # {} /\ Cardinality(ByRange(c)) = 1 => Verdict(c) = To("range", Own(c))
           /\ ByRange(c) # {} /\ Cardinality(ByRange(c)) # 1 => Verdict(c) = To("ambiguous", NoKey)
      <3>1. ByRange(c) = {} => Cardinality(ByRange(c)) # 1
        BY FS_EmptySet
      <3> QED BY <1>8, <3>1 DEF Verdict
    <2> QED BY <2>2, <2>9, <2>10
  <1> QED BY <1>5, <1>7, <1>8

(* For any configuration, any sockets and any number of connections: while no *)
(* session of a range has moved, a call decides on its first connection as    *)
(* the configuration says, whatever the calls before accepted, refused or     *)
(* left behind.                                                               *)
THEOREM FirstAsConfigured == ASSUME ListenerAssumption PROVE ListenerSpec => AsConfigured
  <1>1. ASSUME ListenerInv, [ListenerNext]_listenerVars
        PROVE  [\A c \in Connection :
                   Looked(c) /\ ~Moved /\ call.ranged = NoRange => outcome' = Verdict(c)]_listenerVars
    BY <1>1, VerdictStep
  <1> QED BY <1>1, ListenerInvariant, PTL DEF ListenerSpec, AsConfigured
=============================================================================
