------------------------------- MODULE Listener ------------------------------
(***************************************************************************)
(* The listener: the sockets of the reactor, the connections accepted from *)
(* them, and the peer each is given to (Listener.incoming and              *)
(* new_connections).  A neighbor is configured for one remote address or   *)
(* for a range of them; a connection only a range matches gets a peer of   *)
(* its own, which shares the Session object of the range: Neighbor has no  *)
(* __copy__, and copy.copy copies the reference.                           *)
(*                                                                         *)
(* Whether a peer takes the connection depends on its state, see Session:  *)
(* here either may happen, but to a peer just made, which always takes it. *)
(***************************************************************************)
EXTENDS Naturals, Sequences, FiniteSets

CONSTANTS
    Neighbors,      \* the configuration: a sequence of [start, size, local]
    Remote,         \* addresses connections come from
    Sockets,        \* Listener._sockets: our addresses, in the order of the dict
    Connections     \* bound: connections made in all

NoNextHop == 0           \* local-address auto, IP.NoNextHop: its address() is 0

Local == {Sockets[i] : i \in DOMAIN Sockets}

ASSUME ListenerAssumption ==
    /\ Neighbors \in Seq([start: Nat, size: Nat \ {0}, local: Nat])
    /\ Remote \subseteq Nat
    /\ Sockets \in Seq(Nat \ {NoNextHop})
    /\ \A i, j \in DOMAIN Sockets : Sockets[i] = Sockets[j] => i = j
    /\ Connections \in Nat

VARIABLES
    peers,          \* Reactor._peers, in the order of the dict
    sessions,       \* the Session object of each configured neighbor
    backlog,        \* connections the system holds for each socket
    accepted,       \* Listener._accepted, in the order of the dict
    scheduled,      \* new_connections() waiting in ASYNC
    call,           \* new_connections() is in its loop, with ranged_neighbor: how often
                    \* each range is in it, as its order tells nothing
    outcome,        \* what became of the last connection looked at
    left,           \* the last new_connections() returned with others accepted
    connections     \* connections made so far

sockets == <<backlog, accepted, scheduled, connections>>
registry == <<peers, sessions>>
listenerVars == <<sockets, registry, call, outcome, left>>

Connection == [from: Remote, to: Local]
Configured == DOMAIN Neighbors
NoRange == [i \in Configured |-> 0]
Idle == [on |-> FALSE, ranged |-> NoRange]

\* The key of a peer is the name() of its neighbor: <<i, 0, 0>> for neighbor i of
\* the configuration, <<0, from, to>> for the one made for a connection.
NoKey == <<0, 0, 0>>
Keys == {<<i, 0, 0>> : i \in Configured} \cup {<<0, f, t>> : f \in Remote, t \in Local}
Peers == [key: Keys, session: Configured, size: Nat \ {0}]
Outcomes == [how: {"nothing", "peer", "range", "unknown", "ambiguous"}, key: Keys \cup {NoKey}]

ListenerInit ==
    /\ peers = [i \in Configured |-> [key |-> <<i, 0, 0>>, session |-> i, size |-> Neighbors[i].size]]
    /\ sessions = [i \in Configured |-> [start |-> Neighbors[i].start, local |-> Neighbors[i].local]]
    /\ backlog = [s \in Local |-> <<>>]
    /\ accepted = <<>>
    /\ scheduled = 0
    /\ call = Idle
    /\ outcome = [how |-> "nothing", key |-> NoKey]
    /\ left = FALSE
    /\ connections = 0

------------------------------------------------------------------------------
\* The network.
Connect(c) ==
    /\ connections < Connections
    /\ ~call.on
    /\ backlog' = [backlog EXCEPT ![c.to] = Append(@, c.from)]
    /\ connections' = connections + 1
    /\ UNCHANGED <<accepted, scheduled, registry, call, outcome, left>>

\* incoming() takes one connection of each socket that has none waiting in
\* _accepted, and the main loop then schedules a look at them.
Ready(s) == backlog[s] # <<>> /\ \A i \in DOMAIN accepted : accepted[i].to # s

ReadyAt == {i \in DOMAIN Sockets : Ready(Sockets[i])}

\* The members of a set of numbers in their order.
InTurn(S) == {s \in [1..Cardinality(S) -> S] : \A i, j \in DOMAIN s : i < j => s[i] < s[j]}

Accept ==
    /\ ReadyAt # {}
    /\ \E s \in InTurn(ReadyAt) :
          accepted' = accepted \o [k \in 1..Cardinality(ReadyAt) |->
                                      [from |-> Head(backlog[Sockets[s[k]]]), to |-> Sockets[s[k]]]]
    /\ backlog' = [s \in Local |-> IF Ready(s) THEN Tail(backlog[s]) ELSE backlog[s]]

\* Mutant: what the last socket has decides whether a look is scheduled.
incoming_Unscheduled ==
    /\ ~call.on
    /\ Accept
    /\ scheduled' = IF Ready(Sockets[Len(Sockets)]) THEN scheduled + 1 ELSE scheduled
    /\ UNCHANGED <<connections, registry, call, outcome, left>>

incoming ==
    /\ ~call.on
    /\ Accept
    /\ scheduled' = scheduled + 1
    /\ UNCHANGED <<connections, registry, call, outcome, left>>

------------------------------------------------------------------------------
(* new_connections, which runs without a yield once it has started.          *)

new_connections ==
    /\ ~call.on
    /\ scheduled > 0
    /\ scheduled' = scheduled - 1
    /\ call' = [on |-> TRUE, ranged |-> NoRange]
    /\ UNCHANGED <<backlog, accepted, connections, registry, outcome, left>>

\* Mutant: the range has one address too many.
InRange_Inclusive(start, size, address) == start <= address /\ address <= start + size

InRange(start, size, address) == start <= address /\ address < start + size

Matches(p, c) ==
    LET s == sessions[p.session] IN
    /\ InRange(s.start, p.size, c.from)
    /\ s.local \in {c.to, NoNextHop}

First(i, S) == \A j \in S : i <= j

\* Mutant: a peer after a range that matches is not looked for.
Single_Unranged(c) ==
    {i \in DOMAIN peers : /\ peers[i].size = 1 /\ Matches(peers[i], c)
                          /\ \A j \in 1..i : peers[j].size > 1 => ~Matches(peers[j], c)}

\* Mutant: the peer the connection is handed to is taken for a range as well.
Ranged_All(c, seen) ==
    [s \in Configured |->
        IF \E i \in seen : peers[i].session = s /\ Matches(peers[i], c)
        THEN call.ranged[s] + 1 ELSE call.ranged[s]]

\* The peers for this address, the first of which is handed the connection, and
\* ranged_neighbor once the peers in seen have been looked at.
Single(c) == {i \in DOMAIN peers : peers[i].size = 1 /\ Matches(peers[i], c)}
Ranged(c, seen) ==
    [s \in Configured |->
        IF \E i \in seen : peers[i].size > 1 /\ peers[i].session = s /\ Matches(peers[i], c)
        THEN call.ranged[s] + 1 ELSE call.ranged[s]]

\* break: a peer for this address, which takes the connection or denies it.
GiveToPeer ==
    /\ call.on
    /\ accepted # <<>>
    /\ \E i \in Single(Head(accepted)) :
          /\ First(i, Single(Head(accepted)))
          /\ outcome' = [how |-> "peer", key |-> peers[i].key]
          /\ call' = [call EXCEPT !.ranged = Ranged(Head(accepted), 1..i)]
    /\ accepted' = Tail(accepted)
    /\ UNCHANGED <<backlog, scheduled, connections, registry, left>>

\* ranged_neighbor is [neighbor s].
OnlyRange(ranged, s) == ranged = [NoRange EXCEPT ![s] = 1]

\* return: what is still in _accepted is not looked at by this call.
Return ==
    /\ accepted' = Tail(accepted)
    /\ left' = (accepted' # <<>>)
    /\ call' = Idle
    /\ UNCHANGED <<backlog, scheduled, connections>>

\* The notification is sent by ASYNC, the connection closed.
Reject ==
    /\ call.on
    /\ accepted # <<>>
    /\ Single(Head(accepted)) = {}
    /\ \E ranged \in {Ranged(Head(accepted), DOMAIN peers)} :
          \/ /\ ranged = NoRange
             /\ outcome' = [how |-> "unknown", key |-> NoKey]
          \/ /\ ranged # NoRange
             /\ \A s \in Configured : ~OnlyRange(ranged, s)
             /\ outcome' = [how |-> "ambiguous", key |-> NoKey]
    /\ Return
    /\ UNCHANGED registry

\* The session of the range is that of the new peer from now on.
SharedSession(i, c) == [sessions EXCEPT ![i] = [start |-> c.from, local |-> c.to]]

register_peer(p) ==
    LET same == {i \in DOMAIN peers : peers[i].key = p.key} IN
    IF same = {} THEN Append(peers, p) ELSE [i \in DOMAIN peers |-> IF i \in same THEN p ELSE peers[i]]

GiveToRange ==
    /\ call.on
    /\ accepted # <<>>
    /\ Single(Head(accepted)) = {}
    /\ \E s \in Configured, c \in {Head(accepted)} :
          /\ OnlyRange(Ranged(c, DOMAIN peers), s)
          /\ sessions' = SharedSession(s, c)
          /\ peers' = register_peer([key |-> <<0, c.from, c.to>>, session |-> s, size |-> 1])
          /\ outcome' = [how |-> "range", key |-> <<0, c.from, c.to>>]
    /\ Return

\* Every accepted connection has been looked at.
Finish ==
    /\ call.on
    /\ accepted = <<>>
    /\ call' = Idle
    /\ left' = FALSE
    /\ UNCHANGED <<sockets, registry, outcome>>

MainLoop == incoming \/ new_connections \/ GiveToPeer \/ Reject \/ GiveToRange \/ Finish

ListenerNext == (\E c \in Connection : Connect(c)) \/ MainLoop

ListenerSpec == ListenerInit /\ [][ListenerNext]_listenerVars
\* The main loop goes on, and ASYNC with it.
FairListenerSpec == ListenerSpec /\ WF_listenerVars(MainLoop)

------------------------------------------------------------------------------
\* What a configured neighbor matches, whatever has been accepted since.
MeantFor(i, c) ==
    /\ c.from \in Neighbors[i].start .. (Neighbors[i].start + Neighbors[i].size - 1)
    /\ Neighbors[i].local \in {c.to, NoNextHop}

Individually(c) == {i \in Configured : Neighbors[i].size = 1 /\ MeantFor(i, c)}
ByRange(c) == {i \in Configured : Neighbors[i].size > 1 /\ MeantFor(i, c)}

\* A session has moved, or had when a peer was made of it: that peer is for
\* another connection than one from where the range starts.
Moved ==
    \/ \E i \in Configured : sessions[i] # [start |-> Neighbors[i].start, local |-> Neighbors[i].local]
    \/ \E i \in DOMAIN peers, f \in Remote, t \in Local :
          /\ peers[i].key = <<0, f, t>>
          /\ \/ f # Neighbors[peers[i].session].start
             \/ t # Neighbors[peers[i].session].local

To(how, key) == [how |-> how, key |-> key]

\* Looked(c): the step decides on connection c.
Looked(c) == call.on /\ accepted # <<>> /\ c = Head(accepted) /\ accepted' = Tail(accepted)

(* Variables keep their types: the connections of _accepted are of different *)
(* sockets, no two peers have one key, and ranged_neighbor holds ranges.     *)
ListenerTypeOK ==
    /\ peers \in Seq(Peers)
    /\ \A i, j \in DOMAIN peers : peers[i].key = peers[j].key => i = j
    /\ sessions \in [Configured -> [start: Nat, local: Nat]]
    /\ backlog \in [Local -> Seq(Remote)]
    /\ accepted \in Seq(Connection)
    /\ \A i, j \in DOMAIN accepted : accepted[i].to = accepted[j].to => i = j
    /\ scheduled \in Nat
    /\ call \in [on: BOOLEAN, ranged: [Configured -> Nat]]
    /\ \A i \in Configured : call.ranged[i] > 0 => Neighbors[i].size > 1
    /\ outcome \in Outcomes
    /\ left \in BOOLEAN
    /\ connections \in 0..Connections

(* A connection from a neighbor that is configured for its address goes to   *)
(* the peer of that neighbor, whatever ranges match it as well, whatever     *)
(* connections came before it, and whatever these have done to the sessions  *)
(* of the ranges: "we need to iterate all individual peers before handling   *)
(* "range" peers" (listener.py:265-268).                                     *)
Individual ==
    [][\A c \in Connection :
           Looked(c) /\ Individually(c) # {} =>
               \E i \in Individually(c) : First(i, Individually(c)) /\ outcome' = To("peer", <<i, 0, 0>>)]_listenerVars

Own(c) == <<0, c.from, c.to>>
Verdict(c) ==
    CASE Individually(c) # {} -> To("peer", <<CHOOSE i \in Individually(c) : First(i, Individually(c)), 0, 0>>)
      [] Individually(c) = {} /\ \E i \in DOMAIN peers : peers[i].key = Own(c) -> To("peer", Own(c))
      [] OTHER -> CASE ByRange(c) = {} -> To("unknown", NoKey)
                    [] Cardinality(ByRange(c)) = 1 -> To("range", Own(c))
                    [] OTHER -> To("ambiguous", NoKey)

(* As long as no session of a range has moved, a call decides of its first   *)
(* connection as the configuration says, whatever earlier calls accepted,    *)
(* refused or left: a neighbor of its own, else the peer the range already   *)
(* has for the address, else a new one if one range matches, and it is       *)
(* refused if none does or several do.                                       *)
AsConfigured ==
    [][\A c \in Connection : Looked(c) /\ ~Moved /\ call.ranged = NoRange => outcome' = Verdict(c)]_listenerVars

(* Connections that wait are all looked at, unless a call returned with some *)
(* of them still in _accepted: incoming() skips their sockets, and nothing   *)
(* schedules another look before a connection comes in on another socket.    *)
Waiting == accepted # <<>> \/ \E s \in Local : backlog[s] # <<>>
Served == Waiting ~> (~Waiting \/ left)
==============================================================================
