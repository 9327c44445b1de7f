----------------------------- MODULE Negotiation -----------------------------
(***************************************************************************)
(* What two speakers make of the OPEN each sends the other: the content of *)
(* the OPEN (Capabilities.new), what is kept of the two of them            *)
(* (Negotiated), whether it is accepted (Negotiated.validate), and what it *)
(* then means for the UPDATE messages they exchange (UpdatePacking, and    *)
(* the size limit of the connection that reads them).                      *)
(***************************************************************************)
EXTENDS UpdatePacking, FiniteSets, FiniteSetsExt

CONSTANTS
    Speakers,       \* two of them
    Families,
    Configs,        \* the configurations of the two, a subset of [Speakers -> Config]
    None,           \* no OPEN
    Wide,           \* the AS numbers that need four octets
    AsTrans,        \* stands for them where there are two
    HoldMin,        \* HoldTime.MIN
    InitialSize, ExtendedSize,  \* ExtendedMessage
    Batches,        \* what updates() may hand over in one collection
    Rounds          \* bound: collections each speaker sends

Refresh == {"NORMAL", "ENHANCED"}
\* RequirePath: what a speaker does with path identifiers
AddPath == {"CANT", "RECEIVE", "SEND", "BOTH"}
Sends(mode) == mode \in {"SEND", "BOTH"}
Receives(mode) == mode \in {"RECEIVE", "BOTH"}

Config ==
    [local_as: Nat, peer_as: Nat,   \* 0 for "auto"
     router_id: Nat, hold_time: Nat, families: Seq(Families),
     asn4: BOOLEAN, add_path: AddPath, paths_limit: [Families -> Nat],
     refresh: SUBSET Refresh, extended_message: BOOLEAN, multi_session: BOOLEAN]

Batch(b) ==
    /\ b.attrs \in Nat /\ b.family \in Families
    /\ b.announces \in Seq(ToSet(b.announces))
    /\ \A r \in ToSet(b.announces) : r.octets \in Nat \ {0} /\ r.reach \in BOOLEAN

ASSUME NegotiationAssumption ==
    /\ \E a, b \in Speakers : a # b /\ Speakers = {a, b}
    /\ \A c \in Configs : \A s \in Speakers : c[s] \in Config
    /\ Wide \subseteq Nat /\ AsTrans \in Nat \ Wide
    /\ {HoldMin, InitialSize, ExtendedSize, Rounds} \subseteq Nat
    /\ InitialSize <= ExtendedSize
    /\ \A b \in Batches : Batch(b)

\* What an OPEN says, its capabilities included.
Open ==
    [as: Nat \ Wide, asn4: SUBSET Nat, hold_time: Nat, router_id: Nat, families: Seq(Families),
     add_path: [Families -> AddPath], paths_limit: [Families -> Nat], refresh: SUBSET Refresh,
     extended_message: BOOLEAN, multi_session: BOOLEAN]

ASSUME NoneAssumption == None \notin Open

VARIABLES
    conf,       \* the neighbor, as each speaker has it
    phase,      \* where _establish or _main is
    sent, received,     \* the two OPEN of Negotiated, or None
    negotiated, \* the rest of Negotiated
    msg_size,   \* connection.msg_size, the largest message read
    wire,       \* what is on its way to each speaker
    generator,  \* the generator of the collection being sent, or Idle
    rounds,     \* collections still to send
    owed,       \* routes updates() handed over, for the properties
    rib         \* what each speaker received

conn == <<sent, received, negotiated, msg_size>>
updating == <<generator, rounds, owed, rib>>
negotiationVars == <<conf, phase, conn, wire, updating>>

Idle == [idle |-> TRUE]
\* Negotiated as it is made: of it only the size is read.
Unset == [msg_size |-> InitialSize]
Other(s) == CHOOSE t \in Speakers : t # s
Phase == {"start", "opensent", "mirror", "openconfirm", "established", "closed"}
Validated == {"openconfirm", "established"}

---------------------------------------------------------------------------
(* The OPEN.                                                               *)

trans(as) == IF as \in Wide THEN AsTrans ELSE as

\* A speaker whose AS is "auto" takes the AS it read in the OPEN of the other,
\* but its four octets capability carries the configured one.
NewOpen(c, heard) ==
    [as |-> trans(IF c.local_as # 0 THEN c.local_as ELSE heard.as),
     asn4 |-> IF c.asn4 THEN {c.local_as} ELSE {},
     hold_time |-> c.hold_time, router_id |-> c.router_id, families |-> c.families,
     add_path |-> [f \in Families |-> IF f \in ToSet(c.families) THEN c.add_path ELSE "CANT"],
     \* _pathslimit: only for families whose paths are received
     paths_limit |-> [f \in Families |->
        IF f \in ToSet(c.families) /\ Receives(c.add_path) THEN c.paths_limit[f] ELSE 0],
     refresh |-> c.refresh, extended_message |-> c.extended_message,
     multi_session |-> c.multi_session]

---------------------------------------------------------------------------
(* Negotiated.                                                             *)

\* RequirePath.setup.
\* A bug of the negotiation for the mutants: one side's offer is enough.
SendPaths_Alone(ours, theirs) == [f \in Families |-> Sends(ours.add_path[f])]
SendPaths(ours, theirs) ==
    [f \in Families |-> Sends(ours.add_path[f]) /\ Receives(theirs.add_path[f])]
ReceivePaths(ours, theirs) ==
    [f \in Families |-> Receives(ours.add_path[f]) /\ Sends(theirs.add_path[f])]

MultiSession(ours, theirs) ==
    IF ours.multi_session /\ theirs.multi_session
    THEN IF ours.families = theirs.families THEN "yes" ELSE "2,8"
    ELSE IF ours.multi_session THEN "2,9" ELSE "no"

\* The limits theirs puts on what is sent, and ours on what is received.
PathsLimit(limits, paths) == [f \in Families |-> IF paths[f] THEN limits[f] ELSE 0]

\* The AS of the other, from its capability if the header could not hold it.
\* A bug of the negotiation for the mutants: the capability is not looked at.
PeerAs_Short(ours, theirs) == theirs.as
PeerAs(ours, theirs) ==
    IF theirs.as = AsTrans /\ ours.asn4 # {} /\ theirs.asn4 # {}
    THEN CHOOSE as \in theirs.asn4 : TRUE
    ELSE theirs.as

Negotiate(ours, theirs) ==
    [holdtime |-> Min({ours.hold_time, theirs.hold_time}),
     asn4 |-> ours.asn4 # {} /\ theirs.asn4 # {},
     peer_as |-> PeerAs(ours, theirs),
     families |-> ToSet(ours.families) \cap ToSet(theirs.families),
     send |-> SendPaths(ours, theirs),
     receive |-> ReceivePaths(ours, theirs),
     paths_limit |-> PathsLimit(theirs.paths_limit, SendPaths(ours, theirs)),
     advertised |-> PathsLimit(ours.paths_limit, ReceivePaths(ours, theirs)),
     refresh |-> IF "ENHANCED" \in ours.refresh \cap theirs.refresh THEN "ENHANCED"
                 ELSE IF "NORMAL" \in ours.refresh \cap theirs.refresh THEN "NORMAL" ELSE "ABSENT",
     msg_size |-> IF ours.extended_message /\ theirs.extended_message
                  THEN ExtendedSize ELSE InitialSize,
     multisession |-> MultiSession(ours, theirs)]

\* sent() and received(): nothing is negotiated before both OPEN are known.
Negotiation(ours, theirs) ==
    IF ours = None \/ theirs = None THEN Unset ELSE Negotiate(ours, theirs)

\* validate(): TRUE if the OPEN is accepted.
validate(c, theirs, n) ==
    /\ c.peer_as # 0 => n.peer_as = c.peer_as
    /\ theirs.router_id # 0
    /\ theirs.as = c.local_as => theirs.router_id # c.router_id
    /\ theirs.hold_time # 0 => theirs.hold_time >= HoldMin
    /\ n.multisession \notin {"2,8", "2,9"}

---------------------------------------------------------------------------
NegotiationInit ==
    /\ conf \in Configs
    /\ phase = [s \in Speakers |-> "start"]
    /\ sent = [s \in Speakers |-> None] /\ received = [s \in Speakers |-> None]
    /\ negotiated = [s \in Speakers |-> Unset]
    /\ msg_size = [s \in Speakers |-> InitialSize]
    /\ wire = [s \in Speakers |-> <<>>]
    /\ generator = [s \in Speakers |-> Idle]
    /\ rounds = [s \in Speakers |-> Rounds]
    /\ owed = [s \in Speakers |-> {}] /\ rib = [s \in Speakers |-> {}]

Arrived(s, type) == wire[s] # <<>> /\ Head(wire[s]).type = type
Put(s, message) == wire' = [wire EXCEPT ![Other(s)] = Append(@, message)]
Answer(s, message) ==
    wire' = [wire EXCEPT ![s] = Tail(@), ![Other(s)] = Append(@, message)]
Goto(s, to) == phase' = [phase EXCEPT ![s] = to]

Keepalive == [type |-> "keepalive"]
Notification == [type |-> "notification"]

\* What follows validate_open: the KEEPALIVE, or the NOTIFICATION of the refusal.
Verdict(s, theirs, n) == validate(conf[s], theirs, n)
Onward(s, theirs, n) == IF Verdict(s, theirs, n) THEN "openconfirm" ELSE "closed"
\* A bug of the session for the mutants: the refusal is not said.
Said_Nothing(s, theirs, n) == [type |-> "nothing"]
Said(s, theirs, n) == IF Verdict(s, theirs, n) THEN Keepalive ELSE Notification

\* _establish, the usual order: OPEN is sent before one is read.
SendOpen(s) ==
    LET open == NewOpen(conf[s], [as |-> 0]) IN
    /\ phase[s] = "start" /\ conf[s].local_as # 0
    /\ sent' = [sent EXCEPT ![s] = open]
    /\ Put(s, [type |-> "open", open |-> open])
    /\ Goto(s, "opensent")
    /\ UNCHANGED <<conf, received, negotiated, msg_size, updating>>

ReadOpen(s) ==
    /\ phase[s] = "opensent" /\ Arrived(s, "open")
    /\ LET theirs == Head(wire[s]).open
           n == Negotiation(sent[s], theirs) IN
       /\ received' = [received EXCEPT ![s] = theirs]
       /\ negotiated' = [negotiated EXCEPT ![s] = n]
       /\ msg_size' = [msg_size EXCEPT ![s] = n.msg_size]
       /\ Answer(s, Said(s, theirs, n))
       /\ Goto(s, Onward(s, theirs, n))
    /\ UNCHANGED <<conf, sent, updating>>

\* _establish for an AS copied from the other: OPEN is read, and only then sent.
ReadFirst(s) ==
    /\ phase[s] = "start" /\ conf[s].local_as = 0 /\ Arrived(s, "open")
    /\ LET theirs == Head(wire[s]).open
           n == Negotiation(sent[s], theirs) IN
       /\ received' = [received EXCEPT ![s] = theirs]
       /\ negotiated' = [negotiated EXCEPT ![s] = n]
       /\ msg_size' = [msg_size EXCEPT ![s] = n.msg_size]
    /\ wire' = [wire EXCEPT ![s] = Tail(@)]
    /\ Goto(s, "mirror")
    /\ UNCHANGED <<conf, sent, updating>>

SendSecond(s) ==
    LET open == NewOpen(conf[s], received[s])
        n == Negotiation(open, received[s]) IN
    /\ phase[s] = "mirror"
    /\ sent' = [sent EXCEPT ![s] = open]
    /\ negotiated' = [negotiated EXCEPT ![s] = n]
    /\ wire' = [wire EXCEPT ![Other(s)] =
            Append(Append(@, [type |-> "open", open |-> open]), Said(s, received[s], n))]
    /\ Goto(s, Onward(s, received[s], n))
    /\ UNCHANGED <<conf, received, msg_size, updating>>

ReadKeepalive(s) ==
    /\ phase[s] = "openconfirm" /\ Arrived(s, "keepalive")
    /\ wire' = [wire EXCEPT ![s] = Tail(@)]
    /\ Goto(s, "established")
    /\ UNCHANGED <<conf, conn, updating>>

\* A NOTIFICATION, or the end of the connection.
ReadNotification(s) ==
    /\ phase[s] \in {"opensent", "openconfirm", "established"} \/ (phase[s] = "start" /\ conf[s].local_as = 0)
    /\ Arrived(s, "notification")
    /\ wire' = [wire EXCEPT ![s] = Tail(@)]
    /\ Goto(s, "closed")
    /\ UNCHANGED <<conf, conn, updating>>

---------------------------------------------------------------------------
(* UPDATE messages.                                                        *)

\* updates(): of the paths of a prefix, no more than the other takes in this
\* collection.
Taken(kept, r, limit) ==
    IF limit > 0 /\ Cardinality({q \in ToSet(kept) : q.prefix = r.prefix}) >= limit
    THEN kept ELSE Append(kept, r)
Limited(batch, limit) ==
    LET after[i \in 0..Len(batch)] ==
            IF i = 0 THEN <<>> ELSE LET kept == after[i - 1] IN Taken(kept, batch[i], limit)
    IN  after[Len(batch)]

HandedOver(n, batch) ==
    IF batch.family \in n.families
    THEN Limited(batch.announces, n.paths_limit[batch.family]) ELSE <<>>

StartUpdates(s) ==
    /\ phase[s] = "established" /\ generator[s] = Idle /\ rounds[s] > 0
    /\ \E batch \in Batches :
       \E announces \in {HandedOver(negotiated[s], batch)} :
       \E result \in {messages(negotiated[s].msg_size, batch.attrs,
                              negotiated[s].send[batch.family], announces)} :
        /\ generator' = [generator EXCEPT ![s] =
                [out |-> result.out, raised |-> result.raised, family |-> batch.family]]
        /\ owed' = [owed EXCEPT ![s] = @ \union ToSet(announces)]
    /\ rounds' = [rounds EXCEPT ![s] = @ - 1]
    /\ UNCHANGED <<conf, phase, conn, wire, rib>>

SendUpdate(s) ==
    LET g == generator[s] IN
    /\ phase[s] = "established" /\ g # Idle /\ g.out # <<>>
    /\ Put(s, [type |-> "update", family |-> g.family,
               pathids |-> negotiated[s].send[g.family],
               routes |-> Head(g.out).routes, octets |-> Head(g.out).octets])
    /\ generator' = [generator EXCEPT ![s].out = Tail(@)]
    /\ UNCHANGED <<conf, phase, conn, rounds, owed, rib>>

\* The generator is exhausted, or raises, which ends the session.
EndUpdates(s) ==
    /\ phase[s] = "established" /\ generator[s] # Idle
    /\ generator[s].out = <<>> /\ ~generator[s].raised
    /\ generator' = [generator EXCEPT ![s] = Idle]
    /\ UNCHANGED <<conf, phase, conn, wire, rounds, owed, rib>>

RaiseUpdates(s) ==
    /\ phase[s] = "established" /\ generator[s] # Idle
    /\ generator[s].out = <<>> /\ generator[s].raised
    /\ Put(s, Notification)
    /\ Goto(s, "closed")
    /\ UNCHANGED <<conf, conn, generator, rounds, owed, rib>>

\* reader_async refuses a message longer than msg_size.
ReadUpdate(s) ==
    /\ phase[s] = "established" /\ Arrived(s, "update")
    /\ LET update == Head(wire[s]) IN
       IF update.octets <= msg_size[s]
       THEN /\ rib' = [rib EXCEPT ![s] = @ \union update.routes]
            /\ wire' = [wire EXCEPT ![s] = Tail(@)]
            /\ UNCHANGED phase
       ELSE /\ Answer(s, Notification)
            /\ Goto(s, "closed")
            /\ UNCHANGED rib
    /\ UNCHANGED <<conf, conn, generator, rounds, owed>>

Step(s) ==
    \/ SendOpen(s) \/ ReadOpen(s) \/ ReadFirst(s) \/ SendSecond(s)
    \/ ReadKeepalive(s) \/ ReadNotification(s)
    \/ StartUpdates(s) \/ SendUpdate(s) \/ EndUpdates(s) \/ RaiseUpdates(s)
    \/ ReadUpdate(s)

NegotiationNext == \E s \in Speakers : Step(s)

NegotiationSpec == NegotiationInit /\ [][NegotiationNext]_negotiationVars

\* Each speaker's task runs on: every step of it is a read or a write of its own.
FairNegotiationSpec == NegotiationSpec /\ \A s \in Speakers : WF_negotiationVars(Step(s))

---------------------------------------------------------------------------
(* What is said of it.                                                     *)

\* What the sizes of the updates rest on: no route is too long for a message with
\* its attributes, and no speaker that reads before it sends has large messages
\* (it never learns that it does, see ReadFirst).
RoutesFit ==
    \A b \in Batches : \A r \in ToSet(b.announces) : Fits(r, b.attrs, InitialSize)
MirrorsPlain ==
    \A c \in Configs : \A s \in Speakers : c[s].local_as = 0 =>
        ~(c[s].extended_message /\ c[Other(s)].extended_message)

\* Type invariant; the AS of an OPEN fits its two octets.
NegotiationTypeOK ==
    /\ phase \in [Speakers -> Phase]
    /\ \A s \in Speakers :
        /\ \A open \in {sent[s], received[s]} \ {None} : open \in Open
        /\ msg_size[s] \in {InitialSize, ExtendedSize}
        /\ rounds[s] \in 0..Rounds
        /\ phase[s] \in Validated =>
            /\ sent[s] # None /\ received[s] # None
            /\ negotiated[s] = Negotiate(sent[s], received[s])

Mirrored(n, m) ==
    /\ n.holdtime = m.holdtime /\ n.asn4 = m.asn4
    /\ n.families = m.families
    /\ n.send = m.receive /\ n.receive = m.send
    /\ n.paths_limit = m.advertised /\ n.advertised = m.paths_limit
    /\ n.refresh = m.refresh /\ n.msg_size = m.msg_size

\* Two speakers that accepted each other's OPEN hold the same session: the same
\* families, timers and sizes, and path identifiers and limits one way for one
\* are those the other way for the other.
Agreed ==
    \A s, t \in Speakers : s # t /\ phase[s] \in Validated /\ phase[t] \in Validated =>
        Mirrored(negotiated[s], negotiated[t])

\* Each knows the other by the AS the other speaks for, its own or the one it
\* copies, for which AS_TRANS stands where one has no AS numbers of four octets;
\* but a copied AS of four octets becomes 0, the capability of the copy saying
\* the AS that is configured, which is none.
KnownAs ==
    \A s \in Speakers : phase[s] \in Validated =>
        LET t == Other(s)
            copies == conf[t].local_as = 0
            as == IF copies THEN conf[s].local_as ELSE conf[t].local_as
        IN  negotiated[s].peer_as =
                IF ~(conf[s].asn4 /\ conf[t].asn4) THEN trans(as)
                ELSE IF copies /\ trans(as) = AsTrans THEN 0
                ELSE as

\* No UPDATE is longer than what its reader takes, nor carries path identifiers
\* its reader does not expect, nor the other way round.
Understood ==
    \A s \in Speakers : phase[s] = "established" /\ Arrived(s, "update") =>
        LET update == Head(wire[s]) IN
        /\ update.octets <= msg_size[s]
        /\ update.family \in negotiated[s].families
        /\ update.pathids = negotiated[s].receive[update.family]

\* Once nothing is on its way, every route handed over to the sender of an
\* established session is with the other speaker, and nothing else is.
Carried ==
    \A s \in Speakers :
        phase[s] = "established" /\ phase[Other(s)] = "established"
            /\ wire[s] = <<>> /\ generator[Other(s)] = Idle =>
            rib[s] = owed[Other(s)]

\* "router-id must be unique within an ASN" (Negotiated.validate, of RFC 6286).
DistinctIds ==
    \A s, t \in Speakers :
        s # t /\ phase[s] = "established" /\ phase[t] = "established"
            /\ conf[s].local_as = conf[t].local_as =>
                conf[s].router_id # conf[t].router_id

\* "ExaBGP will not send more paths per prefix than the peer's limit for that
\* family" (doc/user/paths-limit.md).
LimitKept ==
    \A s \in Speakers : phase[s] = "established" =>
        \A f \in Families : negotiated[s].advertised[f] > 0 =>
            \A r \in rib[s] : r.family = f =>
                Cardinality({q \in rib[s] : q.family = f /\ q.prefix = r.prefix})
                    <= negotiated[s].advertised[f]

\* Neither speaker is left in a session the other has refused.
Settled ==
    <>[](\/ \A s \in Speakers : phase[s] = "established"
         \/ \A s \in Speakers : phase[s] = "closed")
=============================================================================
