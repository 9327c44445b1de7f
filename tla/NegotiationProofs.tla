-------------------------- MODULE NegotiationProofs --------------------------
(***************************************************************************)
(* Two speakers that accept each other's OPEN hold the same session,       *)
(* whatever their configurations, AS numbers and families.  Then the       *)
(* packing: what the loops of UpdatePacking leave, whatever the routes.    *)
(* Then the updates: what is handed over is read by the other speaker,     *)
(* and understood.                                                         *)
(***************************************************************************)
EXTENDS Negotiation, WellFoundedInduction, TLAPS

\* The messages of q that are OPEN are all the same one, open.
Carries(q, open) ==
    \E S : /\ q \in Seq(S)
           /\ \A m \in S : m.type = "open" => open # None /\ m.open = open

\* What is on the wire and what was read is what the other sent, ...
WireInv == \A s \in Speakers : Carries(wire[s], sent[Other(s)])
HeardInv == \A s \in Speakers : received[s] \in {None, sent[Other(s)]}

\* ... the place in _establish says which OPEN are known, ...
PlaceInv ==
    \A s \in Speakers :
        /\ phase[s] = "start" => sent[s] = None /\ received[s] = None
        /\ phase[s] = "mirror" => sent[s] = None /\ received[s] # None
        /\ phase[s] = "opensent" => sent[s] # None /\ received[s] = None

\* ... and an OPEN is the one of its sender's configuration.
OpenOf(s) ==
    /\ sent[s].asn4 = IF conf[s].asn4 THEN {conf[s].local_as} ELSE {}
    /\ conf[s].local_as # 0 => sent[s].as = trans(conf[s].local_as)
    \* an AS is copied from one that is configured: the two do not wait for each other
    /\ conf[s].local_as = 0 =>
        conf[Other(s)].local_as # 0 /\ sent[s].as = trans(conf[Other(s)].local_as)
SentInv == \A s \in Speakers : sent[s] # None => OpenOf(s)

VarsType ==
    /\ conf \in Configs
    /\ phase \in [Speakers -> Phase]
    /\ sent \in [Speakers -> Open \union {None}]
    /\ received \in [Speakers -> Open \union {None}]
    /\ DOMAIN negotiated = Speakers /\ DOMAIN wire = Speakers
    /\ msg_size \in [Speakers -> {InitialSize, ExtendedSize}]
    /\ rounds \in [Speakers -> 0..Rounds]
    /\ \A s \in Speakers : phase[s] \in Validated =>
        /\ sent[s] # None /\ received[s] # None
        /\ negotiated[s] = Negotiate(sent[s], received[s])
    /\ negotiated = [s \in Speakers |-> negotiated[s]]
    /\ wire = [s \in Speakers |-> wire[s]]

NegotiationInv == VarsType /\ WireInv /\ HeardInv /\ PlaceInv /\ SentInv

---------------------------------------------------------------------------
(* The speakers and the wire.                                              *)

\* There are two speakers.
LEMMA OtherSpeaker ==
    ASSUME NEW s \in Speakers
    PROVE  Other(s) \in Speakers /\ Other(s) # s /\ Other(Other(s)) = s
<1>1. PICK a \in Speakers, b \in Speakers : a # b /\ Speakers = {a, b}
  BY NegotiationAssumption
<1>2. \E t \in Speakers : t # s
  BY <1>1
<1>3. Other(s) \in Speakers /\ Other(s) # s
  BY <1>2 DEF Other
<1>4. \E t \in Speakers : t # Other(s)
  BY <1>3
<1>5. Other(Other(s)) \in Speakers /\ Other(Other(s)) # Other(s)
  BY <1>4 DEF Other
<1> QED BY <1>1, <1>3, <1>5

\* Nothing on a wire is no OPEN.
LEMMA CarriesNothing ==
    ASSUME NEW open
    PROVE  Carries(<<>>, open)
<1> DEFINE none == {m \in {0} : FALSE}
<1>1. <<>> \in Seq(none)
  OBVIOUS
<1>2. \A m \in none : m.type = "open" => open # None /\ m.open = open
  OBVIOUS
<1> HIDE DEF none
<1> QED BY <1>1, <1>2 DEF Carries

\* A sequence over a set is one over any larger set.
LEMMA SeqGrows ==
    ASSUME NEW S, NEW T, S \subseteq T, NEW q \in Seq(S)
    PROVE  q \in Seq(T)
OBVIOUS

\* A message put on a wire that carries only that OPEN, ...
LEMMA CarriesMore ==
    ASSUME NEW q, NEW open, Carries(q, open),
           NEW m, m.type = "open" => open # None /\ m.open = open
    PROVE  Carries(Append(q, m), open)
<1>1. PICK S : q \in Seq(S) /\ \A n \in S : n.type = "open" => open # None /\ n.open = open
  BY DEF Carries
<1> DEFINE T == S \union {m}
<1>2. q \in Seq(T)
  BY <1>1, SeqGrows
<1>3. Append(q, m) \in Seq(T)
  BY <1>2
<1> QED BY <1>1, <1>3 DEF Carries

\* ... and one taken off it.
LEMMA CarriesRest ==
    ASSUME NEW q, NEW open, Carries(q, open), q # <<>>
    PROVE  /\ Carries(Tail(q), open)
           /\ Head(q).type = "open" => open # None /\ Head(q).open = open
<1>1. PICK S : q \in Seq(S) /\ \A n \in S : n.type = "open" => open # None /\ n.open = open
  BY DEF Carries
<1>2. Tail(q) \in Seq(S) /\ Head(q) \in S
  BY <1>1
<1> QED BY <1>1, <1>2 DEF Carries

\* An OPEN none of which was on its way before.
LEMMA CarriesFirst ==
    ASSUME NEW q, Carries(q, None), NEW open, open # None
    PROVE  Carries(q, open)
BY DEF Carries

\* Capabilities.new makes an OPEN, whose AS fits two octets and whose capability
\* is the AS of the configuration.
LEMMA NewOpenType ==
    ASSUME NEW c \in Config, NEW heard, c.local_as = 0 => heard.as \in Nat \ Wide
    PROVE  /\ NewOpen(c, heard) \in Open /\ NewOpen(c, heard) # None
           /\ NewOpen(c, heard).asn4 = IF c.asn4 THEN {c.local_as} ELSE {}
           /\ c.local_as # 0 => NewOpen(c, heard).as = trans(c.local_as)
           /\ c.local_as = 0 => NewOpen(c, heard).as = heard.as
<1> DEFINE o == NewOpen(c, heard)
<1>1. o.as \in Nat \ Wide
  BY NegotiationAssumption DEF NewOpen, trans, Config
<1>2. o.asn4 \in SUBSET Nat
  BY DEF NewOpen, Config
<1>3. o.add_path \in [Families -> AddPath] /\ o.paths_limit \in [Families -> Nat]
  BY DEF NewOpen, Config, AddPath
<1>4. o \in Open
  BY <1>1, <1>2, <1>3 DEF NewOpen, Config, Open
<1>5. o # None
  BY <1>4, NoneAssumption
<1> QED BY <1>4, <1>5 DEF NewOpen, trans

\* The size negotiated is one of the two there are.
LEMMA SizeType ==
    ASSUME NEW ours, NEW theirs
    PROVE  Negotiation(ours, theirs).msg_size \in {InitialSize, ExtendedSize}
BY DEF Negotiation, Negotiate, Unset

---------------------------------------------------------------------------
\* Before anything is sent the invariant holds: nothing has been read.
THEOREM InitInv == NegotiationInit => NegotiationInv
<1> SUFFICES ASSUME NegotiationInit PROVE NegotiationInv
  OBVIOUS
<1>1. VarsType
  BY NegotiationAssumption DEF NegotiationInit, VarsType, Phase, Validated
<1>2. WireInv
  BY CarriesNothing DEF NegotiationInit, WireInv
<1>3. HeardInv /\ PlaceInv /\ SentInv
  BY DEF NegotiationInit, HeardInv, PlaceInv, SentInv
<1> QED BY <1>1, <1>2, <1>3 DEF NegotiationInv

---------------------------------------------------------------------------
(* Steps that leave the two OPEN alone.                                    *)

\* The messages of the session that follow the OPEN.
LEMMA PutKeeps ==
    ASSUME NegotiationInv, NEW s \in Speakers, NEW m, m.type # "open", Put(s, m),
           sent' = sent
    PROVE  WireInv' /\ DOMAIN wire' = Speakers /\ wire' = [t \in Speakers |-> wire'[t]]
<1>1. Other(s) \in Speakers
  BY OtherSpeaker
<1>2. DOMAIN wire' = Speakers /\ wire' = [t \in Speakers |-> wire'[t]]
  BY DEF NegotiationInv, VarsType, Put
<1>3. ASSUME NEW t \in Speakers PROVE Carries(wire'[t], sent[Other(t)])
  <2>1. Carries(wire[t], sent[Other(t)])
    BY DEF NegotiationInv, WireInv
  <2>2. CASE t = Other(s)
    <3>1. wire'[t] = Append(wire[t], m)
      BY <1>1, <2>2 DEF NegotiationInv, VarsType, Put
    <3> QED BY <2>1, <3>1, CarriesMore
  <2>3. CASE t # Other(s)
    <3>1. wire'[t] = wire[t]
      BY <2>3 DEF NegotiationInv, VarsType, Put
    <3> QED BY <2>1, <3>1
  <2> QED BY <2>2, <2>3
<1> QED BY <1>2, <1>3 DEF WireInv

\* What is on the wires after a message is read, ...
LEMMA TakeKeeps ==
    ASSUME NegotiationInv, NEW s \in Speakers, wire[s] # <<>>,
           wire' = [wire EXCEPT ![s] = Tail(@)], sent' = sent
    PROVE  WireInv' /\ DOMAIN wire' = Speakers /\ wire' = [t \in Speakers |-> wire'[t]]
<1>2. DOMAIN wire' = Speakers /\ wire' = [t \in Speakers |-> wire'[t]]
  BY DEF NegotiationInv, VarsType
<1>3. ASSUME NEW t \in Speakers PROVE Carries(wire'[t], sent[Other(t)])
  <2>1. Carries(wire[t], sent[Other(t)])
    BY DEF NegotiationInv, WireInv
  <2>2. CASE t = s
    <3>1. wire'[t] = Tail(wire[t])
      BY <2>2 DEF NegotiationInv, VarsType
    <3> QED BY <2>1, <2>2, <3>1, CarriesRest
  <2>3. CASE t # s
    <3>1. wire'[t] = wire[t]
      BY <2>3 DEF NegotiationInv, VarsType
    <3> QED BY <2>1, <3>1
  <2> QED BY <2>2, <2>3
<1> QED BY <1>2, <1>3 DEF WireInv

\* ... or read and answered with one that is no OPEN.
LEMMA AnswerKeeps ==
    ASSUME NegotiationInv, NEW s \in Speakers, wire[s] # <<>>, NEW m, m.type # "open",
           Answer(s, m), sent' = sent
    PROVE  WireInv' /\ DOMAIN wire' = Speakers /\ wire' = [t \in Speakers |-> wire'[t]]
<1>1. Other(s) \in Speakers /\ Other(s) # s
  BY OtherSpeaker
<1>2. DOMAIN wire' = Speakers /\ wire' = [t \in Speakers |-> wire'[t]]
  BY DEF NegotiationInv, VarsType, Answer
<1>3. ASSUME NEW t \in Speakers PROVE Carries(wire'[t], sent[Other(t)])
  <2>1. Carries(wire[t], sent[Other(t)])
    BY DEF NegotiationInv, WireInv
  <2>2. CASE t = Other(s)
    <3>1. wire'[t] = Append(wire[t], m)
      BY <1>1, <2>2 DEF NegotiationInv, VarsType, Answer
    <3> QED BY <2>1, <3>1, CarriesMore
  <2>3. CASE t = s
    <3>1. wire'[t] = Tail(wire[t])
      BY <1>1, <2>3 DEF NegotiationInv, VarsType, Answer
    <3> QED BY <2>1, <2>3, <3>1, CarriesRest
  <2>4. CASE t # s /\ t # Other(s)
    <3>1. wire'[t] = wire[t]
      BY <2>4 DEF NegotiationInv, VarsType, Answer
    <3> QED BY <2>1, <3>1
  <2> QED BY <2>2, <2>3, <2>4
<1> QED BY <1>2, <1>3 DEF WireInv

\* A step of an open session, or the end of any.
LEMMA LaterKeeps ==
    ASSUME NegotiationInv, NEW s \in Speakers, NEW to \in Validated \union {"closed"},
           phase' = [phase EXCEPT ![s] = to],
           to \in Validated => phase[s] \in Validated,
           conf' = conf, conn' = conn, rounds' \in [Speakers -> 0..Rounds],
           WireInv' /\ DOMAIN wire' = Speakers /\ wire' = [t \in Speakers |-> wire'[t]]
    PROVE  NegotiationInv'
<1>1. VarsType'
  BY DEF NegotiationInv, VarsType, conn, Validated, Phase
<1>2. HeardInv' /\ SentInv'
  BY DEF NegotiationInv, HeardInv, SentInv, OpenOf, conn
<1>3. PlaceInv'
  BY DEF NegotiationInv, VarsType, PlaceInv, conn, Validated
<1> QED BY <1>1, <1>2, <1>3 DEF NegotiationInv

\* A step of the updates, which changes no phase.
LEMMA UpdatingKeeps ==
    ASSUME NegotiationInv, phase' = phase, conf' = conf, conn' = conn,
           rounds' \in [Speakers -> 0..Rounds],
           WireInv' /\ DOMAIN wire' = Speakers /\ wire' = [t \in Speakers |-> wire'[t]]
    PROVE  NegotiationInv'
<1>1. VarsType'
  BY DEF NegotiationInv, VarsType, conn
<1>2. HeardInv' /\ SentInv' /\ PlaceInv'
  BY DEF NegotiationInv, HeardInv, SentInv, OpenOf, PlaceInv, conn
<1> QED BY <1>1, <1>2 DEF NegotiationInv

---------------------------------------------------------------------------
(* The two OPEN.                                                           *)

\* The steps that move an OPEN keep the invariant: sent first, ...
LEMMA SendOpenKeeps ==
    ASSUME NegotiationInv, NEW s \in Speakers, SendOpen(s)
    PROVE  NegotiationInv'
<1> DEFINE open == NewOpen(conf[s], [as |-> 0])
           t == Other(s)
<1>0. t \in Speakers /\ t # s /\ Other(t) = s
  BY OtherSpeaker
<1>1. conf[s] \in Config
  BY NegotiationAssumption DEF NegotiationInv, VarsType
<1>2. /\ open \in Open /\ open # None
      /\ open.asn4 = IF conf[s].asn4 THEN {conf[s].local_as} ELSE {}
      /\ open.as = trans(conf[s].local_as)
  BY <1>1, NewOpenType DEF SendOpen
<1>3. sent[s] = None /\ received[s] = None
  BY DEF SendOpen, NegotiationInv, PlaceInv
<1>4. sent' = [sent EXCEPT ![s] = open] /\ phase' = [phase EXCEPT ![s] = "opensent"]
      /\ UNCHANGED <<conf, received, negotiated, msg_size, rounds>>
  BY DEF SendOpen, Goto, updating
<1>5. wire' = [wire EXCEPT ![t] = Append(@, [type |-> "open", open |-> open])]
  BY DEF SendOpen, Put
<1>6. VarsType'
  BY <1>2, <1>4, <1>5 DEF NegotiationInv, VarsType, Phase, Validated
<1>7. WireInv'
  <2> SUFFICES ASSUME NEW u \in Speakers PROVE Carries(wire'[u], sent'[Other(u)])
    BY DEF WireInv
  <2>0. Other(u) \in Speakers /\ Carries(wire[u], sent[Other(u)])
    BY OtherSpeaker DEF NegotiationInv, WireInv
  <2>1. CASE u = t
    <3>1. sent'[Other(u)] = open
      BY <1>0, <1>4, <2>1 DEF NegotiationInv, VarsType
    <3>2. Carries(wire[u], open)
      BY <1>0, <1>2, <1>3, <2>0, <2>1, CarriesFirst
    <3>3. wire'[u] = Append(wire[u], [type |-> "open", open |-> open])
      BY <1>0, <1>5, <2>1 DEF NegotiationInv, VarsType
    <3> HIDE DEF open
    <3>4. Carries(Append(wire[u], [type |-> "open", open |-> open]), open)
      BY <1>2, <3>2, CarriesMore
    <3> QED BY <3>1, <3>3, <3>4
  <2>2. CASE u # t
    <3>1. Other(u) # s
      BY <2>2, OtherSpeaker
    <3>2. wire'[u] = wire[u] /\ sent'[Other(u)] = sent[Other(u)]
      BY <1>4, <1>5, <2>0, <2>2, <3>1 DEF NegotiationInv, VarsType
    <3> QED BY <2>0, <3>2
  <2> QED BY <2>1, <2>2
<1>8. HeardInv'
  <2> SUFFICES ASSUME NEW u \in Speakers PROVE received'[u] \in {None, sent'[Other(u)]}
    BY DEF HeardInv
  <2>1. Other(u) \in Speakers /\ received[u] \in {None, sent[Other(u)]}
    BY OtherSpeaker DEF NegotiationInv, HeardInv
  <2> HIDE DEF open
  <2> QED BY <1>3, <1>4, <2>1 DEF NegotiationInv, VarsType
<1>9. PlaceInv'
  <2> HIDE DEF open
  <2> QED BY <1>2, <1>3, <1>4 DEF NegotiationInv, VarsType, PlaceInv
<1>10. SentInv'
  <2> SUFFICES ASSUME NEW u \in Speakers, sent'[u] # None PROVE OpenOf(u)'
    BY DEF SentInv
  <2>0. Other(u) \in Speakers /\ Other(u) # u
    BY OtherSpeaker
  <2> HIDE DEF open
  <2>1. CASE u = s
    BY <1>2, <1>4, <2>1 DEF SendOpen, NegotiationInv, VarsType, OpenOf
  <2>2. CASE u # s
    BY <1>3, <1>4, <2>0, <2>2 DEF NegotiationInv, VarsType, SentInv, OpenOf
  <2> QED BY <2>1, <2>2
<1> QED BY <1>6, <1>7, <1>8, <1>9, <1>10 DEF NegotiationInv

\* ... read by the one that has sent its own, ...
LEMMA ReadOpenKeeps ==
    ASSUME NegotiationInv, NEW s \in Speakers, ReadOpen(s)
    PROVE  NegotiationInv'
<1> DEFINE theirs == Head(wire[s]).open
           n == Negotiation(sent[s], theirs)
<1>0. Other(s) \in Speakers /\ Other(s) # s
  BY OtherSpeaker
<1>1. theirs = sent[Other(s)] /\ theirs # None /\ wire[s] # <<>>
  BY CarriesRest DEF ReadOpen, Arrived, NegotiationInv, WireInv
<1>2. theirs \in Open /\ sent[s] \in Open /\ sent[s] # None
  BY <1>0, <1>1 DEF ReadOpen, NegotiationInv, VarsType, PlaceInv
<1>3. n = Negotiate(sent[s], theirs)
  BY <1>1, <1>2 DEF Negotiation
<1>4. Onward(s, theirs, n) \in {"openconfirm", "closed"} /\ Said(s, theirs, n).type # "open"
  BY DEF Onward, Said, Keepalive, Notification
<1>5. /\ received' = [received EXCEPT ![s] = theirs]
      /\ negotiated' = [negotiated EXCEPT ![s] = n]
      /\ msg_size' = [msg_size EXCEPT ![s] = n.msg_size]
      /\ phase' = [phase EXCEPT ![s] = Onward(s, theirs, n)]
      /\ Answer(s, Said(s, theirs, n))
      /\ UNCHANGED <<conf, sent, rounds>>
  BY DEF ReadOpen, Goto, updating
<1>6. WireInv' /\ DOMAIN wire' = Speakers /\ wire' = [t \in Speakers |-> wire'[t]]
  BY <1>1, <1>4, <1>5, AnswerKeeps
<1>7. n.msg_size \in {InitialSize, ExtendedSize}
  BY SizeType
<1> HIDE DEF n, theirs
<1>8. VarsType'
  <2>1. phase' \in [Speakers -> Phase] /\ received' \in [Speakers -> Open \union {None}]
        /\ sent' \in [Speakers -> Open \union {None}] /\ conf' \in Configs
        /\ msg_size' \in [Speakers -> {InitialSize, ExtendedSize}]
        /\ rounds' \in [Speakers -> 0..Rounds]
    BY <1>2, <1>4, <1>5, <1>7 DEF NegotiationInv, VarsType, Phase
  <2>2. DOMAIN negotiated' = Speakers /\ negotiated' = [t \in Speakers |-> negotiated'[t]]
    BY <1>5 DEF NegotiationInv, VarsType
  <2>3. ASSUME NEW t \in Speakers, phase'[t] \in Validated
        PROVE  /\ sent'[t] # None /\ received'[t] # None
               /\ negotiated'[t] = Negotiate(sent'[t], received'[t])
    <3>1. CASE t = s
      BY <1>1, <1>2, <1>3, <1>5, <3>1 DEF NegotiationInv, VarsType
    <3>2. CASE t # s
      BY <1>5, <2>3, <3>2 DEF NegotiationInv, VarsType
    <3> QED BY <3>1, <3>2
  <2> QED BY <1>6, <2>1, <2>2, <2>3 DEF VarsType
<1>9. HeardInv'
  BY <1>1, <1>5 DEF NegotiationInv, VarsType, HeardInv
<1>10. PlaceInv'
  BY <1>4, <1>5 DEF NegotiationInv, VarsType, PlaceInv
<1>11. SentInv'
  BY <1>5 DEF NegotiationInv, SentInv, OpenOf
<1> QED BY <1>6, <1>8, <1>9, <1>10, <1>11 DEF NegotiationInv

\* ... read by the one that mirrors the AS of the other, ...
LEMMA ReadFirstKeeps ==
    ASSUME NegotiationInv, NEW s \in Speakers, ReadFirst(s)
    PROVE  NegotiationInv'
<1> DEFINE theirs == Head(wire[s]).open
           n == Negotiation(sent[s], theirs)
<1>0. Other(s) \in Speakers /\ Other(s) # s
  BY OtherSpeaker
<1>1. theirs = sent[Other(s)] /\ theirs # None /\ wire[s] # <<>>
  BY CarriesRest DEF ReadFirst, Arrived, NegotiationInv, WireInv
<1>2. theirs \in Open /\ sent[s] = None
  BY <1>0, <1>1 DEF ReadFirst, NegotiationInv, VarsType, PlaceInv
<1>5. /\ received' = [received EXCEPT ![s] = theirs]
      /\ negotiated' = [negotiated EXCEPT ![s] = n]
      /\ msg_size' = [msg_size EXCEPT ![s] = n.msg_size]
      /\ phase' = [phase EXCEPT ![s] = "mirror"]
      /\ wire' = [wire EXCEPT ![s] = Tail(@)]
      /\ UNCHANGED <<conf, sent, rounds>>
  BY DEF ReadFirst, Goto, updating
<1>6. WireInv' /\ DOMAIN wire' = Speakers /\ wire' = [t \in Speakers |-> wire'[t]]
  BY <1>1, <1>5, TakeKeeps
<1>7. n.msg_size \in {InitialSize, ExtendedSize}
  BY SizeType
<1> HIDE DEF n, theirs
<1>8. VarsType'
  <2>1. phase' \in [Speakers -> Phase] /\ received' \in [Speakers -> Open \union {None}]
        /\ sent' \in [Speakers -> Open \union {None}] /\ conf' \in Configs
        /\ msg_size' \in [Speakers -> {InitialSize, ExtendedSize}]
        /\ rounds' \in [Speakers -> 0..Rounds]
    BY <1>2, <1>5, <1>7 DEF NegotiationInv, VarsType, Phase
  <2>2. DOMAIN negotiated' = Speakers /\ negotiated' = [t \in Speakers |-> negotiated'[t]]
    BY <1>5 DEF NegotiationInv, VarsType
  <2>3. ASSUME NEW t \in Speakers, phase'[t] \in Validated
        PROVE  /\ sent'[t] # None /\ received'[t] # None
               /\ negotiated'[t] = Negotiate(sent'[t], received'[t])
    <3>1. t # s
      BY <1>5, <2>3 DEF NegotiationInv, VarsType, Validated
    <3> QED BY <1>5, <2>3, <3>1 DEF NegotiationInv, VarsType
  <2> QED BY <1>6, <2>1, <2>2, <2>3 DEF VarsType
<1>9. HeardInv'
  BY <1>1, <1>5 DEF NegotiationInv, VarsType, HeardInv
<1>10. PlaceInv'
  BY <1>1, <1>2, <1>5 DEF NegotiationInv, VarsType, PlaceInv
<1>11. SentInv'
  BY <1>5 DEF NegotiationInv, SentInv, OpenOf
<1> QED BY <1>6, <1>8, <1>9, <1>10, <1>11 DEF NegotiationInv

\* ... and sent by it.
LEMMA SendSecondKeeps ==
    ASSUME NegotiationInv, NEW s \in Speakers, SendSecond(s)
    PROVE  NegotiationInv'
<1> DEFINE open == NewOpen(conf[s], received[s])
           n == Negotiation(open, received[s])
           said == Said(s, received[s], n)
           t == Other(s)
<1>0. t \in Speakers /\ t # s /\ Other(t) = s
  BY OtherSpeaker
<1>1. conf[s] \in Config /\ sent[s] = None /\ received[s] \in Open /\ received[s] # None
  BY NegotiationAssumption DEF SendSecond, NegotiationInv, VarsType, PlaceInv
<1>2. /\ open \in Open /\ open # None
      /\ open.asn4 = IF conf[s].asn4 THEN {conf[s].local_as} ELSE {}
      /\ conf[s].local_as # 0 => open.as = trans(conf[s].local_as)
      /\ conf[s].local_as = 0 => open.as = received[s].as
  <2>1. received[s].as \in Nat \ Wide
    BY <1>1 DEF Open
  <2> QED BY <1>1, <2>1, NewOpenType
<1>3. n = Negotiate(open, received[s])
  BY <1>1, <1>2 DEF Negotiation
<1>4. Onward(s, received[s], n) \in {"openconfirm", "closed"} /\ said.type # "open"
  BY DEF Onward, Said, Keepalive, Notification
<1>5. /\ sent' = [sent EXCEPT ![s] = open] /\ negotiated' = [negotiated EXCEPT ![s] = n]
      /\ phase' = [phase EXCEPT ![s] = Onward(s, received[s], n)]
      /\ wire' = [wire EXCEPT ![t] = Append(Append(@, [type |-> "open", open |-> open]), said)]
      /\ UNCHANGED <<conf, received, msg_size, rounds>>
  BY DEF SendSecond, Goto, updating
<1> HIDE DEF n, open, said
<1>6. VarsType'
  <2>1. phase' \in [Speakers -> Phase] /\ received' \in [Speakers -> Open \union {None}]
        /\ sent' \in [Speakers -> Open \union {None}] /\ conf' \in Configs
        /\ msg_size' \in [Speakers -> {InitialSize, ExtendedSize}]
        /\ rounds' \in [Speakers -> 0..Rounds]
    BY <1>2, <1>4, <1>5 DEF NegotiationInv, VarsType, Phase
  <2>2. /\ DOMAIN negotiated' = Speakers /\ negotiated' = [u \in Speakers |-> negotiated'[u]]
        /\ DOMAIN wire' = Speakers /\ wire' = [u \in Speakers |-> wire'[u]]
    BY <1>5 DEF NegotiationInv, VarsType
  <2>3. ASSUME NEW u \in Speakers, phase'[u] \in Validated
        PROVE  /\ sent'[u] # None /\ received'[u] # None
               /\ negotiated'[u] = Negotiate(sent'[u], received'[u])
    <3>1. CASE u = s
      BY <1>1, <1>2, <1>3, <1>5, <3>1 DEF NegotiationInv, VarsType
    <3>2. CASE u # s
      BY <1>5, <2>3, <3>2 DEF NegotiationInv, VarsType
    <3> QED BY <3>1, <3>2
  <2> QED BY <2>1, <2>2, <2>3 DEF VarsType
<1>7. WireInv'
  <2> SUFFICES ASSUME NEW u \in Speakers PROVE Carries(wire'[u], sent'[Other(u)])
    BY DEF WireInv
  <2>0. Other(u) \in Speakers /\ Carries(wire[u], sent[Other(u)])
    BY OtherSpeaker DEF NegotiationInv, WireInv
  <2>1. CASE u = t
    <3>1. sent'[Other(u)] = open
      BY <1>0, <1>5, <2>1 DEF NegotiationInv, VarsType
    <3>2. Carries(wire[u], open)
      BY <1>0, <1>1, <1>2, <2>0, <2>1, CarriesFirst
    <3> DEFINE first == Append(wire[u], [type |-> "open", open |-> open])
    <3>3. wire'[u] = Append(first, said)
      BY <1>0, <1>5, <2>1 DEF NegotiationInv, VarsType
    <3>4. Carries(first, open)
      BY <1>2, <3>2, CarriesMore
    <3> HIDE DEF first
    <3>5. Carries(Append(first, said), open)
      BY <1>4, <3>4, CarriesMore
    <3> QED BY <3>1, <3>3, <3>5
  <2>2. CASE u # t
    <3>1. Other(u) # s
      BY <2>2, OtherSpeaker
    <3>2. wire'[u] = wire[u] /\ sent'[Other(u)] = sent[Other(u)]
      BY <1>5, <2>0, <2>2, <3>1 DEF NegotiationInv, VarsType
    <3> QED BY <2>0, <3>2
  <2> QED BY <2>1, <2>2
<1>8. HeardInv'
  <2> SUFFICES ASSUME NEW u \in Speakers PROVE received'[u] \in {None, sent'[Other(u)]}
    BY DEF HeardInv
  <2>1. Other(u) \in Speakers /\ received[u] \in {None, sent[Other(u)]}
    BY OtherSpeaker DEF NegotiationInv, HeardInv
  <2> QED BY <1>1, <1>5, <2>1 DEF NegotiationInv, VarsType
<1>9. PlaceInv'
  BY <1>2, <1>4, <1>5 DEF NegotiationInv, VarsType, PlaceInv
<1>10. SentInv'
  <2> SUFFICES ASSUME NEW u \in Speakers, sent'[u] # None PROVE OpenOf(u)'
    BY DEF SentInv
  <2>0. Other(u) \in Speakers /\ Other(u) # u
    BY OtherSpeaker
  <2>1. CASE u = s
    <3>1. received[s] = sent[t]
      BY <1>1 DEF NegotiationInv, HeardInv
    <3>2. OpenOf(t)
      BY <1>0, <1>1, <3>1 DEF NegotiationInv, SentInv
    <3>3. sent'[s] = open /\ conf' = conf
      BY <1>5 DEF NegotiationInv, VarsType
    <3> QED BY <1>0, <1>2, <2>1, <3>1, <3>2, <3>3 DEF OpenOf
  <2>2. CASE u # s
    BY <1>1, <1>5, <2>0, <2>2 DEF NegotiationInv, VarsType, SentInv, OpenOf
  <2> QED BY <2>1, <2>2
<1> QED BY <1>6, <1>7, <1>8, <1>9, <1>10 DEF NegotiationInv

---------------------------------------------------------------------------
\* So does every step of a speaker.
LEMMA StepKeeps ==
    ASSUME NegotiationInv, NEW s \in Speakers, Step(s)
    PROVE  NegotiationInv'
<1> USE DEF updating
<1>1. CASE SendOpen(s)
  BY <1>1, SendOpenKeeps
<1>2. CASE ReadOpen(s)
  BY <1>2, ReadOpenKeeps
<1>3. CASE ReadFirst(s)
  BY <1>3, ReadFirstKeeps
<1>4. CASE SendSecond(s)
  BY <1>4, SendSecondKeeps
<1>r. rounds \in [Speakers -> 0..Rounds]
  BY DEF NegotiationInv, VarsType
<1>5. CASE ReadKeepalive(s)
  <2>1. WireInv' /\ DOMAIN wire' = Speakers /\ wire' = [t \in Speakers |-> wire'[t]]
    BY <1>5, TakeKeeps DEF ReadKeepalive, Arrived, conn
  <2> QED BY <1>5, <1>r, <2>1, LaterKeeps DEF ReadKeepalive, Goto, Validated
<1>6. CASE ReadNotification(s)
  <2>1. WireInv' /\ DOMAIN wire' = Speakers /\ wire' = [t \in Speakers |-> wire'[t]]
    BY <1>6, TakeKeeps DEF ReadNotification, Arrived, conn
  <2>2. phase' = [phase EXCEPT ![s] = "closed"] /\ conf' = conf /\ conn' = conn /\ rounds' = rounds
    BY <1>6 DEF ReadNotification, Goto
  <2> QED BY <1>r, <2>1, <2>2, LaterKeeps DEF Validated
<1>7. CASE StartUpdates(s)
  <2>1. rounds' \in [Speakers -> 0..Rounds]
    BY <1>7, <1>r, NegotiationAssumption DEF StartUpdates
  <2>2. WireInv' /\ DOMAIN wire' = Speakers /\ wire' = [t \in Speakers |-> wire'[t]]
    BY <1>7 DEF StartUpdates, NegotiationInv, VarsType, WireInv, conn
  <2> QED BY <1>7, <2>1, <2>2, UpdatingKeeps DEF StartUpdates
<1>8. CASE SendUpdate(s)
  <2>1. PICK m : m.type # "open" /\ Put(s, m)
    BY <1>8 DEF SendUpdate
  <2>2. WireInv' /\ DOMAIN wire' = Speakers /\ wire' = [t \in Speakers |-> wire'[t]]
    BY <1>8, <2>1, PutKeeps DEF SendUpdate, conn
  <2> QED BY <1>8, <1>r, <2>2, UpdatingKeeps DEF SendUpdate
<1>9. CASE EndUpdates(s)
  <2>1. WireInv' /\ DOMAIN wire' = Speakers /\ wire' = [t \in Speakers |-> wire'[t]]
    BY <1>9 DEF EndUpdates, NegotiationInv, VarsType, WireInv, conn
  <2> QED BY <1>9, <1>r, <2>1, UpdatingKeeps DEF EndUpdates
<1>10. CASE RaiseUpdates(s)
  <2>1. WireInv' /\ DOMAIN wire' = Speakers /\ wire' = [t \in Speakers |-> wire'[t]]
    BY <1>10, PutKeeps DEF RaiseUpdates, Notification, conn
  <2>2. phase' = [phase EXCEPT ![s] = "closed"] /\ conf' = conf /\ conn' = conn /\ rounds' = rounds
    BY <1>10 DEF RaiseUpdates, Goto
  <2> QED BY <1>r, <2>1, <2>2, LaterKeeps DEF Validated
<1>11. CASE ReadUpdate(s)
  <2>0. conf' = conf /\ conn' = conn /\ rounds' = rounds /\ sent' = sent /\ wire[s] # <<>>
    BY <1>11 DEF ReadUpdate, Arrived, conn
  <2>1. CASE Head(wire[s]).octets <= msg_size[s]
    <3>1. wire' = [wire EXCEPT ![s] = Tail(@)] /\ phase' = phase
      BY <1>11, <2>1 DEF ReadUpdate
    <3> QED BY <1>r, <2>0, <3>1, TakeKeeps, UpdatingKeeps
  <2>2. CASE ~(Head(wire[s]).octets <= msg_size[s])
    <3>1. Answer(s, Notification) /\ phase' = [phase EXCEPT ![s] = "closed"]
      BY <1>11, <2>2 DEF ReadUpdate, Goto
    <3>2. WireInv' /\ DOMAIN wire' = Speakers /\ wire' = [t \in Speakers |-> wire'[t]]
      BY <2>0, <3>1, AnswerKeeps DEF Notification
    <3> QED BY <1>r, <2>0, <3>1, <3>2, LaterKeeps DEF Validated
  <2> QED BY <2>1, <2>2
<1> QED BY <1>1, <1>2, <1>3, <1>4, <1>5, <1>6, <1>7, <1>8, <1>9, <1>10, <1>11 DEF Step

\* The invariant behind the theorems below.
THEOREM NegotiationSafe == NegotiationSpec => []NegotiationInv
<1>1. NegotiationInit => NegotiationInv
  BY InitInv
<1>2. NegotiationInv /\ [NegotiationNext]_negotiationVars => NegotiationInv'
  <2> SUFFICES ASSUME NegotiationInv, [NegotiationNext]_negotiationVars PROVE NegotiationInv'
    OBVIOUS
  <2>1. CASE NegotiationNext
    BY <2>1, StepKeeps DEF NegotiationNext
  <2>2. CASE UNCHANGED negotiationVars
    BY <2>2 DEF negotiationVars, conn, updating, NegotiationInv, VarsType, WireInv,
                HeardInv, PlaceInv, SentInv, OpenOf
  <2> QED BY <2>1, <2>2
<1> QED BY <1>1, <1>2, PTL DEF NegotiationSpec

---------------------------------------------------------------------------
\* Every variable of the two speakers keeps its type, and the AS of every OPEN
\* fits its two octets.
THEOREM NegotiationTypeCorrect == NegotiationSpec => []NegotiationTypeOK
<1>1. NegotiationInv => NegotiationTypeOK
  BY DEF NegotiationInv, VarsType, NegotiationTypeOK
<1> QED BY <1>1, NegotiationSafe, PTL

\* Two speakers that negotiate from the same two OPEN get mirror images.
LEMMA NegotiateMirrors ==
    ASSUME NEW ours \in Open, NEW theirs \in Open
    PROVE  Mirrored(Negotiate(ours, theirs), Negotiate(theirs, ours))
<1> DEFINE n == Negotiate(ours, theirs)
           m == Negotiate(theirs, ours)
<1>1. n.holdtime = m.holdtime
  <2>1. {ours.hold_time, theirs.hold_time} = {theirs.hold_time, ours.hold_time}
    OBVIOUS
  <2> QED BY <2>1 DEF Negotiate
<1>2. n.asn4 = m.asn4 /\ n.families = m.families
  BY DEF Negotiate
<1>3. SendPaths(ours, theirs) = ReceivePaths(theirs, ours)
      /\ ReceivePaths(ours, theirs) = SendPaths(theirs, ours)
  BY DEF SendPaths, ReceivePaths
<1>4. n.send = m.receive /\ n.receive = m.send
  BY <1>3 DEF Negotiate
<1>5. n.paths_limit = m.advertised /\ n.advertised = m.paths_limit
  BY <1>3 DEF Negotiate
<1>6. n.refresh = m.refresh /\ n.msg_size = m.msg_size
  BY DEF Negotiate
<1> QED BY <1>1, <1>2, <1>4, <1>5, <1>6 DEF Mirrored

\* Whatever the configurations, two speakers that accepted each other's OPEN
\* agree on the session: what one may send is what the other expects to read.
THEOREM Agreement == NegotiationSpec => []Agreed
<1>1. NegotiationInv => Agreed
  <2> SUFFICES ASSUME NegotiationInv, NEW s \in Speakers, NEW t \in Speakers, s # t,
                      phase[s] \in Validated, phase[t] \in Validated
               PROVE  Mirrored(negotiated[s], negotiated[t])
    BY DEF Agreed
  <2>1. t = Other(s) /\ s = Other(t)
    <3>1. PICK a \in Speakers, b \in Speakers : a # b /\ Speakers = {a, b}
      BY NegotiationAssumption
    <3> QED BY <3>1, OtherSpeaker
  <2>2. /\ sent[s] \in Open /\ sent[t] \in Open
        /\ negotiated[s] = Negotiate(sent[s], received[s])
        /\ negotiated[t] = Negotiate(sent[t], received[t])
        /\ received[s] # None /\ received[t] # None
    BY DEF NegotiationInv, VarsType
  <2>3. received[s] = sent[t] /\ received[t] = sent[s]
    BY <2>1, <2>2 DEF NegotiationInv, HeardInv
  <2> QED BY <2>2, <2>3, NegotiateMirrors
<1> QED BY <1>1, NegotiationSafe, PTL

\* Whatever the configurations, each knows the other by the AS it speaks for, or
\* by what stands for it: AS_TRANS where one has no AS numbers of four octets, 0
\* for an AS of four octets that is copied.
THEOREM AsNumbers == NegotiationSpec => []KnownAs
<1>1. NegotiationInv => KnownAs
  <2> SUFFICES ASSUME NegotiationInv, NEW s \in Speakers, phase[s] \in Validated
               PROVE  LET t == Other(s)
                          copies == conf[t].local_as = 0
                          as == IF copies THEN conf[s].local_as ELSE conf[t].local_as
                      IN  negotiated[s].peer_as =
                            IF ~(conf[s].asn4 /\ conf[t].asn4) THEN trans(as)
                            ELSE IF copies /\ trans(as) = AsTrans THEN 0
                            ELSE as
    BY DEF KnownAs
  <2> DEFINE t == Other(s)
             theirs == received[s]
             as == IF conf[t].local_as = 0 THEN conf[s].local_as ELSE conf[t].local_as
  <2>1. t \in Speakers /\ Other(t) = s
    BY OtherSpeaker
  <2>2. /\ sent[s] # None /\ theirs # None /\ theirs = sent[t]
        /\ negotiated[s] = Negotiate(sent[s], theirs)
    BY DEF NegotiationInv, VarsType, HeardInv
  <2>3. OpenOf(s) /\ OpenOf(t)
    BY <2>1, <2>2 DEF NegotiationInv, SentInv
  <2>4. theirs.as = trans(as)
    BY <2>1, <2>2, <2>3 DEF OpenOf
  <2>5. negotiated[s].peer_as = PeerAs(sent[s], theirs)
    BY <2>2 DEF Negotiate
  <2>6. (sent[s].asn4 # {}) = (conf[s].asn4 = TRUE) /\ (theirs.asn4 # {}) = (conf[t].asn4 = TRUE)
    BY <2>2, <2>3 DEF OpenOf
  <2>7. trans(as) # AsTrans => trans(as) = as
    BY DEF trans
  <2>8. conf[t].local_as # 0 => theirs.asn4 = IF conf[t].asn4 THEN {as} ELSE {}
    BY <2>2, <2>3 DEF OpenOf
  <2>9. conf[t].local_as = 0 => theirs.asn4 = IF conf[t].asn4 THEN {0} ELSE {}
    BY <2>2, <2>3 DEF OpenOf
  <2>10. \A n \in Nat : (CHOOSE a \in {n} : TRUE) = n
    OBVIOUS
  <2>11. as \in Nat
    BY <2>1, NegotiationAssumption DEF NegotiationInv, VarsType, Config
  <2> HIDE DEF as, theirs
  <2>12. negotiated[s].peer_as = IF theirs.as = AsTrans /\ conf[s].asn4 /\ conf[t].asn4
                                THEN CHOOSE a \in theirs.asn4 : TRUE ELSE theirs.as
    BY <2>5, <2>6 DEF PeerAs
  <2> QED BY <2>4, <2>7, <2>8, <2>9, <2>10, <2>11, <2>12 DEF as
<1> QED BY <1>1, NegotiationSafe, PTL

---------------------------------------------------------------------------
(* The packing.                                                            *)

\* What a loop over routes of R leaves, and the routes that are in it.
Parts(R) == [routes : SUBSET R, octets : Nat]
Chunk(R) == [out : Seq(Parts(R)), routes : SUBSET R, octets : Nat, loop : {"runs", "ended"}]
In(out) == UNION {out[k].routes : k \in DOMAIN out}
Covers(chunk) == In(chunk.out) \union chunk.routes

\* Induction up to N, by sets: the least number that is not in S would have a
\* predecessor that is.
LEMMA UpTo ==
    ASSUME NEW N \in Nat, NEW S \in SUBSET Nat, 0 \in S,
           \A n \in S : n < N => n + 1 \in S
    PROVE  N \in S
<1> DEFINE R == {p \in Nat \X Nat : p[1] < p[2]}
           T == Nat \ S
<1>1. IsWellFoundedOn(R, Nat)
  <2>1. OpToRel(<, Nat) = R
    BY DEF OpToRel
  <2> QED BY <2>1, NatLessThanWellFounded
<1> SUFFICES ASSUME N \in T PROVE FALSE
  OBVIOUS
<1>2. PICK x \in T : \A y \in T : ~(<<y, x>> \in R)
  <2> HIDE DEF R
  <2>1. T # {} /\ T \subseteq Nat
    OBVIOUS
  <2> HIDE DEF T
  <2> QED BY <1>1, <2>1, WFMin
<1>3. x \in Nat /\ x \notin S
  OBVIOUS
<1>4. \A y \in Nat : y < x => y \in S
  BY <1>2, <1>3
<1>5. x # 0 /\ x <= N
  BY <1>3, <1>4
<1>6. x - 1 \in Nat /\ x - 1 < x /\ x - 1 < N
  BY <1>3, <1>5
<1>7. x - 1 \in S
  BY <1>4, <1>6
<1>8. (x - 1) + 1 = x
  BY <1>3
<1> QED BY <1>3, <1>6, <1>7, <1>8

\* The routes of messages and one more.
LEMMA InAppend ==
    ASSUME NEW R, NEW out \in Seq(Parts(R)), NEW part \in Parts(R)
    PROVE  In(Append(out, part)) = In(out) \union part.routes
<1> DEFINE more == Append(out, part)
<1>1. more \in Seq(Parts(R)) /\ DOMAIN more = DOMAIN out \union {Len(out) + 1}
  OBVIOUS
<1>2. more[Len(out) + 1] = part /\ \A k \in DOMAIN out : more[k] = out[k]
  OBVIOUS
<1> HIDE DEF more
<1> QED BY <1>1, <1>2 DEF In

\* The chunk that a route joined, and the one it started.
Joined(d, c, route, size) ==
    /\ d.out = c.out /\ d.routes = c.routes \union {route}
    /\ d.octets = c.octets + size /\ d.loop = "runs"
Started(d, c, part, route, size) ==
    /\ d.out = Append(c.out, part) /\ d.routes = {route}
    /\ d.octets = size /\ d.loop = "runs"
Ended(d, c) == d.out = c.out /\ d.routes = c.routes /\ d.octets = c.octets /\ d.loop = "ended"
\* What a turn adds, unless it ends the loop.
Covered(d, c, route) == d.loop = "runs" => Covers(d) = Covers(c) \union {route}

\* One more route, by the cases of Add.
LEMMA AddIs ==
    ASSUME NEW R, NEW c \in Chunk(R), c.loop = "runs", NEW route \in R, NEW size \in Nat,
           NEW needed \in Nat, NEW room \in Nat, NEW part \in Parts(R), part.routes = c.routes,
           NEW d, d = Add(c, route, size, needed, room, part)
    PROVE  /\ d \in Chunk(R)
           /\ needed <= room => Joined(d, c, route, size)
           /\ needed > room /\ c.routes = {} => Ended(d, c)
           /\ needed > room /\ c.routes # {} => Started(d, c, part, route, size)
           /\ Covered(d, c, route)
<1> DEFINE more == Append(c.out, part)
<1>1. /\ c.out \in Seq(Parts(R)) /\ c.routes \in SUBSET R /\ c.octets \in Nat
      /\ c.loop = "runs"
  BY DEF Chunk
<1>2. In(more) = In(c.out) \union c.routes /\ more \in Seq(Parts(R))
  BY <1>1, InAppend
<1> HIDE DEF more
<1>3. CASE needed <= room
  <2>1. d = [c EXCEPT !.routes = c.routes \union {route}, !.octets = c.octets + size]
    BY <1>1, <1>3 DEF Add
  <2> DEFINE more_routes == c.routes \union {route}
             n == c.octets + size
  <2>3. n \in Nat /\ more_routes \in SUBSET R
    BY <1>1
  <2> HIDE DEF n, more_routes
  <2>4. d = [c EXCEPT !.routes = more_routes, !.octets = n]
    BY <2>1 DEF n, more_routes
  <2>2. /\ d \in Chunk(R) /\ d.out = c.out /\ d.routes = more_routes
        /\ d.octets = n /\ d.loop = "runs"
    BY <1>1, <2>3, <2>4 DEF Chunk
  <2> QED BY <1>3, <2>2 DEF Covers, Covered, Joined, n, more_routes
<1>4. CASE needed > room /\ c.routes = {}
  <2>1. d = [c EXCEPT !.loop = "ended"]
    BY <1>1, <1>4 DEF Add
  <2>2. /\ d \in Chunk(R) /\ d.out = c.out /\ d.routes = c.routes
        /\ d.octets = c.octets /\ d.loop = "ended"
    BY <1>1, <2>1 DEF Chunk
  <2> QED BY <1>4, <2>2 DEF Ended, Covered
<1>5. CASE needed > room /\ c.routes # {}
  <2>1. d = [c EXCEPT !.out = more, !.routes = {route}, !.octets = size]
    BY <1>1, <1>5 DEF Add, more
  <2> DEFINE first == {route}
  <2>4. first \in SUBSET R /\ d = [c EXCEPT !.out = more, !.routes = first, !.octets = size]
    BY <2>1
  <2> HIDE DEF first
  <2>5. /\ d \in Chunk(R) /\ d.out = more /\ d.routes = first
        /\ d.octets = size /\ d.loop = "runs"
    BY <1>1, <1>2, <2>4 DEF Chunk
  <2>2. /\ d \in Chunk(R) /\ d.out = more /\ d.routes = {route}
        /\ d.octets = size /\ d.loop = "runs"
    BY <2>5 DEF first
  <2>3. Covers(d) = Covers(c) \union {route}
    BY <1>2, <2>2 DEF Covers
  <2> QED BY <1>5, <2>2, <2>3 DEF more, Started, Covered
<1> QED BY <1>3, <1>4, <1>5

\* No message of out is longer.
Within(out, size) == \A k \in DOMAIN out : out[k].octets <= size

\* Messages within a size, and one more that is.
LEMMA WithinAppend ==
    ASSUME NEW R, NEW out \in Seq(Parts(R)), NEW part \in Parts(R), NEW size,
           Within(out, size), part.octets <= size
    PROVE  Within(Append(out, part), size)
<1> DEFINE more == Append(out, part)
<1>1. more \in Seq(Parts(R)) /\ DOMAIN more = DOMAIN out \union {Len(out) + 1}
  OBVIOUS
<1>2. more[Len(out) + 1] = part /\ \A k \in DOMAIN out : more[k] = out[k]
  OBVIOUS
<1> HIDE DEF more
<1> QED BY <1>1, <1>2 DEF Within

\* The loop, turn by turn.
LEMMA ChunksAre ==
    ASSUME NEW field, NEW attrs, NEW room, NEW pathids, NEW S, NEW routes \in Seq(S)
    PROVE  \E after :
              /\ after[0] = NoChunk
              /\ \A i \in 1..Len(routes) :
                   after[i] = Turn(field, attrs, room, pathids, after[i - 1], routes[i])
              /\ Chunks(field, attrs, room, pathids, routes) = after[Len(routes)]
<1> DEFINE T(chunk, i) == Turn(field, attrs, room, pathids, chunk, routes[i])
           IsLoop(f, n) == f = [i \in 0..n |-> IF i = 0 THEN NoChunk ELSE T(f[i - 1], i)]
           N == Len(routes)
           good == {n \in Nat : \E f : IsLoop(f, n)}
           after == CHOOSE f : IsLoop(f, N)
<1>1. N \in Nat
  OBVIOUS
<1>2. 0 \in good
  <2>1. IsLoop([i \in 0..0 |-> NoChunk], 0)
    OBVIOUS
  <2> QED BY <2>1
<1>3. ASSUME NEW n \in good PROVE n + 1 \in good
  <2>1. PICK f : IsLoop(f, n)
    OBVIOUS
  <2> DEFINE g == [i \in 0..n + 1 |-> IF i = n + 1 THEN T(f[n], n + 1) ELSE f[i]]
  <2>2. ASSUME NEW i \in 0..n + 1 PROVE g[i] = IF i = 0 THEN NoChunk ELSE T(g[i - 1], i)
    <3> HIDE DEF T
    <3>1. CASE i = n + 1
      BY <3>1
    <3>2. CASE i # n + 1
      <4>1. f[i] = IF i = 0 THEN NoChunk ELSE T(f[i - 1], i)
        BY <2>1, <3>2
      <4> QED BY <3>2, <4>1
    <3> QED BY <3>1, <3>2
  <2>3. IsLoop(g, n + 1)
    <3> HIDE DEF T
    <3> QED BY <2>2
  <2> QED
    <3> HIDE DEF IsLoop, g
    <3> QED BY <2>3
<1>4. \E f : IsLoop(f, N)
  <2> HIDE DEF IsLoop, N
  <2>1. N \in good
    BY <1>1, <1>2, <1>3, UpTo
  <2> QED BY <2>1
<1>5. IsLoop(after, N)
  <2> HIDE DEF IsLoop, N
  <2> QED BY <1>4
<1>6. Chunks(field, attrs, room, pathids, routes) = after[N]
  BY DEF Chunks
<1>7. after[0] = NoChunk /\ \A i \in 1..N : after[i] = T(after[i - 1], i)
  <2> HIDE DEF T, after
  <2> QED BY <1>1, <1>5
<1> HIDE DEF after
<1> QED BY <1>6, <1>7

\* The routes of a field, up to the i-th.
Those(routes, field, i) == {routes[j] : j \in {k \in 1..i : Field(routes[k]) = field}}

\* The routes of a field among the first i grow by the next, if it is of the field.
LEMMA ThoseGrow ==
    ASSUME NEW routes, NEW field, NEW i \in Nat \ {0}
    PROVE  /\ Field(routes[i]) = field => Those(routes, field, i) = Those(routes, field, i - 1) \union {routes[i]}
           /\ Field(routes[i]) # field => Those(routes, field, i) = Those(routes, field, i - 1)
           /\ Those(routes, field, 0) = {}
<1>1. 1..i = (1..i - 1) \union {i} /\ 1..0 = {}
  OBVIOUS
<1> QED BY <1>1 DEF Those

\* What one turn of a loop does to the routes it has seen.
Turned(d, c, r, field) ==
    d.loop = "runs" =>
        /\ c.loop = "runs"
        /\ Covers(d) = IF Field(r) = field THEN Covers(c) \union {r} ELSE Covers(c)

\* Whatever its turns keep, the loop keeps; and unless it ended, it went over every
\* route of its field.
LEMMA Loop ==
    ASSUME NEW R, NEW routes \in Seq(R), NEW field, NEW attrs, NEW room, NEW pathids,
           NEW K, NoChunk \in K,
           \A c \in K, r \in R :
              /\ Turn(field, attrs, room, pathids, c, r) \in K
              /\ Turned(Turn(field, attrs, room, pathids, c, r), c, r, field)
    PROVE  LET c == Chunks(field, attrs, room, pathids, routes)
           IN  c \in K /\ (c.loop = "runs" => Covers(c) = Those(routes, field, Len(routes)))
<1>1. PICK after :
         /\ after[0] = NoChunk
         /\ \A i \in 1..Len(routes) :
              after[i] = Turn(field, attrs, room, pathids, after[i - 1], routes[i])
         /\ Chunks(field, attrs, room, pathids, routes) = after[Len(routes)]
  BY ONLY routes \in Seq(R), ChunksAre
<1> DEFINE N == Len(routes)
<1>0. N \in Nat
  OBVIOUS
<1> HIDE DEF N
<1> DEFINE Seen(n) == after[n].loop = "runs" => Covers(after[n]) = Those(routes, field, n)
           Good(n) == after[n] \in K /\ Seen(n)
           ok == {n \in Nat : n <= N => Good(n)}
<1>2. Good(0)
  <2>1. Covers(NoChunk) = {}
    BY DEF NoChunk, Covers, In
  <2>2. Those(routes, field, 0) = {}
    BY DEF Those
  <2> QED BY <1>1, <2>1, <2>2
<1>3. ASSUME NEW n \in Nat, n < N, Good(n) PROVE Good(n + 1)
  <2> DEFINE r == routes[n + 1]
             d == after[n + 1]
             c == after[n]
  <2>1. n + 1 \in 1..N /\ n + 1 \in Nat \ {0} /\ (n + 1) - 1 = n
    BY <1>0, <1>3
  <2>2. r \in R
    BY <2>1 DEF N
  <2>3. d = Turn(field, attrs, room, pathids, c, r)
    <3>1. d = Turn(field, attrs, room, pathids, after[(n + 1) - 1], r)
      BY <1>1, <2>1 DEF N
    <3> QED BY <2>1, <3>1
  <2>4. d \in K /\ Turned(d, c, r, field)
    <3>1. c \in K
      BY <1>3
    <3> HIDE DEF r, c, d
    <3> QED BY <2>2, <2>3, <3>1
  <2>5. /\ Field(r) # field => Those(routes, field, n + 1) = Those(routes, field, n)
        /\ Field(r) = field => Those(routes, field, n + 1) = Those(routes, field, n) \union {r}
    <3>1. /\ Field(r) # field => Those(routes, field, n + 1) = Those(routes, field, (n + 1) - 1)
          /\ Field(r) = field =>
               Those(routes, field, n + 1) = Those(routes, field, (n + 1) - 1) \union {r}
      BY ONLY <2>1, ThoseGrow DEF r
    <3> QED BY <2>1, <3>1
  <2>6. Seen(n)
    BY <1>3
  <2> QED BY <2>4, <2>5, <2>6 DEF Turned
<1>4. N \in ok
  <2>1. ok \in SUBSET Nat /\ 0 \in ok
    BY <1>2
  <2>2. \A n \in ok : n < N => n + 1 \in ok
    <3> HIDE DEF Good
    <3> QED BY <1>0, <1>3
  <2> HIDE DEF ok
  <2> QED BY <1>0, <2>1, <2>2, UpTo
<1>5. Good(N)
  <2> HIDE DEF Good
  <2> QED BY <1>0, <1>4
<1> QED BY <1>1, <1>5 DEF N

---------------------------------------------------------------------------
\* The routes have a size, and a place in a message.
Routes(S) == \A r \in S : r.octets \in Nat \ {0} /\ r.reach \in BOOLEAN

\* What the loop over the plain routes keeps.
PlainTurns(c, R, size, room) ==
    /\ c \in Chunk(R) /\ c.loop = "runs"
    /\ c.octets <= room
    /\ c.routes = {} => c.octets = 0
    /\ Within(c.out, size)


\* One turn of the loop over v4_announces: the chunk still fits, and its route is in
\* it or in a message cut from it.
LEMMA PlainTurn ==
    ASSUME NEW R, NEW size \in Nat, NEW attrs \in Nat, NEW pathids \in BOOLEAN,
           NEW room \in Nat, room + Header + attrs = size,
           NEW c, PlainTurns(c, R, size, room),
           NEW r \in R, r.octets \in Nat \ {0}, r.reach \in BOOLEAN, Fits(r, attrs, size),
           NEW field, field = "nlri", NEW d, d = Turn(field, attrs, room, pathids, c, r)
    PROVE  PlainTurns(d, R, size, room) /\ Turned(d, c, r, field)
<1> DEFINE n == PackedSize(r, pathids)
           needed == c.octets + n
           octets == Header + attrs + c.octets
           part == Message(c.routes, octets)
<1>1. CASE Field(r) # field
  BY <1>1 DEF Turn, Turned
<1>2. CASE Field(r) = field
  <2>1. /\ c \in Chunk(R) /\ c.loop = "runs" /\ c.octets \in Nat /\ c.octets <= room
        /\ c.out \in Seq(Parts(R))
    BY DEF PlainTurns, Chunk
  <2>2. n \in Nat /\ n <= room /\ needed \in Nat /\ needed = c.octets + n
    <3>1. r.reach = FALSE
      BY <1>2 DEF Field
    <3>2. Header + attrs + (r.octets + PathId) <= size
      BY <3>1 DEF Fits
    <3>3. n \in Nat /\ n <= r.octets + PathId
      BY PackingAssumption DEF PackedSize
    <3> HIDE DEF n
    <3>4. Header \in Nat /\ PathId \in Nat /\ r.octets \in Nat
      BY PackingAssumption
    <3> QED BY <2>1, <3>2, <3>3, <3>4
  <2>3. d = Add(c, r, n, needed, room, part)
    BY <1>2 DEF Turn, AddPlain
  <2>4. octets \in Nat /\ octets <= size
    BY <2>1, PackingAssumption
  <2>5. c.routes = {} => needed <= room
    BY <2>1, <2>2 DEF PlainTurns
  <2>6. part \in Parts(R) /\ part.octets = octets /\ part = Message(c.routes, octets)
    BY <2>1, <2>4 DEF Message, Parts, Chunk
  <2> HIDE DEF n, octets, part, needed
  <2>7. /\ d \in Chunk(R)
        /\ needed <= room => Joined(d, c, r, n)
        /\ needed > room /\ c.routes # {} => Started(d, c, part, r, n)
        /\ Covered(d, c, r)
    <3>1. part.routes = c.routes
      BY <2>6 DEF Message
    <3>2. r \in R /\ room \in Nat
      OBVIOUS
    <3> QED BY ONLY <2>1, <2>2, <2>3, <2>6, <3>1, <3>2, AddIs
  <2>8. CASE needed <= room
    <3>1. Joined(d, c, r, n)
      BY <2>7, <2>8
    <3>2. d.out = c.out /\ d.routes # {} /\ d.octets <= room /\ d.loop = "runs"
      BY <2>2, <2>8, <3>1 DEF Joined
    <3>3. PlainTurns(d, R, size, room)
      BY <2>7, <3>2 DEF PlainTurns
    <3> QED BY <1>2, <2>1, <2>7, <3>2, <3>3 DEF Covered, Turned
  <2>9. CASE needed > room
    <3>1. c.routes # {}
      BY <2>2, <2>5, <2>9
    <3>2. Started(d, c, part, r, n)
      BY <2>7, <2>9, <3>1
    <3>3. d.out = Append(c.out, part) /\ d.routes # {} /\ d.octets = n /\ d.loop = "runs"
      BY <3>2 DEF Started
    <3>4. Within(d.out, size)
      <4>1. Within(c.out, size) /\ part.octets <= size
        BY <2>4, <2>6 DEF PlainTurns
      <4> QED BY ONLY <2>1, <2>6, <3>3, <4>1, WithinAppend
    <3>5. PlainTurns(d, R, size, room)
      BY <2>2, <2>7, <3>3, <3>4 DEF PlainTurns
    <3> QED BY <1>2, <2>1, <2>7, <3>3, <3>5 DEF Covered, Turned
  <2> QED BY <2>1, <2>2, <2>8, <2>9
<1> QED BY <1>1, <1>2


\* The loop over the plain routes never ends early, and leaves no more than fits.
LEMMA PlainLoop ==
    ASSUME NEW R, Routes(R), NEW routes \in Seq(R), NEW size \in Nat, NEW attrs \in Nat,
           \A r \in R : Fits(r, attrs, size), NEW room \in Nat, room + Header + attrs = size,
           NEW pathids \in BOOLEAN, NEW c, c = Chunks("nlri", attrs, room, pathids, routes)
    PROVE  PlainTurns(c, R, size, room) /\ Covers(c) = Those(routes, "nlri", Len(routes))
<1> DEFINE K == {k \in Chunk(R) : PlainTurns(k, R, size, room)}
<1>1. NoChunk \in K
  <2>1. NoChunk \in Chunk(R)
    BY DEF NoChunk, Chunk
  <2>2. NoChunk.octets = 0 /\ NoChunk.routes = {} /\ NoChunk.out = <<>> /\ NoChunk.loop = "runs"
    BY DEF NoChunk
  <2>3. Within(NoChunk.out, size)
    BY <2>2 DEF Within
  <2> QED BY <2>1, <2>2, <2>3 DEF PlainTurns
<1>2. ASSUME NEW k \in K, NEW r \in R
      PROVE  /\ Turn("nlri", attrs, room, pathids, k, r) \in K
             /\ Turned(Turn("nlri", attrs, room, pathids, k, r), k, r, "nlri")
  <2>1. PICK field : field = "nlri"
    OBVIOUS
  <2> DEFINE d == Turn(field, attrs, room, pathids, k, r)
  <2>2. r.octets \in Nat \ {0} /\ r.reach \in BOOLEAN /\ Fits(r, attrs, size)
    BY DEF Routes
  <2>3. PlainTurns(k, R, size, room)
    OBVIOUS
  <2>4. PlainTurns(d, R, size, room) /\ Turned(d, k, r, field)
    <3> HIDE DEF d, K
    <3>1. size \in Nat /\ attrs \in Nat /\ room \in Nat /\ room + Header + attrs = size
          /\ pathids \in BOOLEAN /\ r \in R /\ d = Turn(field, attrs, room, pathids, k, r)
      BY DEF d
    <3> QED BY ONLY <2>1, <2>2, <2>3, <3>1, PlainTurn
  <2>5. d \in Chunk(R)
    BY <2>4 DEF PlainTurns
  <2> QED BY <2>1, <2>4, <2>5
<1>3. c \in K /\ (c.loop = "runs" => Covers(c) = Those(routes, "nlri", Len(routes)))
  <2> HIDE DEF K
  <2> QED BY <1>1, <1>2, Loop
<1> QED BY <1>3 DEF PlainTurns
---------------------------------------------------------------------------
\* What the loop over the routes of MP_REACH_NLRI keeps: every part, and the one
\* being filled, fits; the first beside the plain routes left over.
Allowed(out, room, full) == IF out = <<>> THEN room ELSE full

\* A part as an attribute.
Length(part) == AttrLen(ReachHeader + part.octets)

FitParts(out, room, full) ==
    \A k \in DOMAIN out : Length(out[k]) <= IF k = 1 THEN room ELSE full

ReachTurns(c, R, room, full) ==
    /\ c \in Chunk(R)
    /\ c.routes = {} => c.octets = 0 /\ c.out = <<>>
    /\ c.routes # {} => AttrLen(ReachHeader + c.octets) <= Allowed(c.out, room, full)
    /\ c.loop = "ended" => c.routes = {}
    /\ FitParts(c.out, room, full)

\* MP_REACH_NLRI parts that fit, and one more that does.
LEMMA FitAppend ==
    ASSUME NEW R, NEW out \in Seq(Parts(R)), NEW part \in Parts(R), NEW room, NEW full,
           FitParts(out, room, full), Length(part) <= Allowed(out, room, full)
    PROVE  FitParts(Append(out, part), room, full)
<1> DEFINE more == Append(out, part)
<1>1. more \in Seq(Parts(R)) /\ DOMAIN more = DOMAIN out \union {Len(out) + 1}
  OBVIOUS
<1>2. more[Len(out) + 1] = part /\ \A k \in DOMAIN out : more[k] = out[k]
  OBVIOUS
<1>3. (Len(out) + 1 = 1) = (out = <<>>)
  OBVIOUS
<1> HIDE DEF more
<1>4. ASSUME NEW k \in DOMAIN more PROVE Length(more[k]) <= IF k = 1 THEN room ELSE full
  <2>1. CASE k = Len(out) + 1
    BY <1>2, <1>3, <2>1 DEF Allowed
  <2>2. CASE k \in DOMAIN out
    BY <1>2, <2>2 DEF FitParts
  <2> QED BY <1>1, <2>1, <2>2
<1>5. FitParts(more, room, full)
  BY <1>4 DEF FitParts
<1> QED BY <1>5 DEF more

\* An attribute is longer than its content, ...
LEMMA AttrLenType ==
    ASSUME NEW n \in Nat
    PROVE  AttrLen(n) \in Nat /\ AttrLen(n) > n
BY PackingAssumption DEF AttrLen

\* ... and the more so the longer that is, at 255 octets too.
LEMMA AttrLenGrows ==
    ASSUME NEW n \in Nat, NEW m \in Nat, n <= m
    PROVE  AttrLen(n) <= AttrLen(m)
BY PackingAssumption DEF AttrLen

\* One turn of packed_reach_attributes: the part still fits, in the room left by the
\* plain routes if it is the first, and its route is in it or in one cut from it.
LEMMA ReachTurn ==
    ASSUME NEW R, NEW size \in Nat, NEW attrs \in Nat, NEW pathids \in BOOLEAN,
           NEW full \in Nat, full + Header + attrs = size, NEW room \in Nat, room <= full,
           NEW c, ReachTurns(c, R, room, full),
           NEW r \in R, r.octets \in Nat \ {0}, r.reach \in BOOLEAN, Fits(r, attrs, size),
           NEW field, field = "mp_reach", NEW d, d = Turn(field, attrs, room, pathids, c, r)
    PROVE  ReachTurns(d, R, room, full) /\ Turned(d, c, r, field)
<1> DEFINE n == PackedSize(r, pathids)
           needed == AttrLen(ReachHeader + c.octets + n)
           part == Message(c.routes, c.octets)
<1>1. CASE Field(r) # field
  BY <1>1 DEF Turn, Turned
<1>2. CASE Field(r) = field
  <2>1. /\ c \in Chunk(R) /\ c.octets \in Nat /\ c.out \in Seq(Parts(R))
        /\ c.loop \in {"runs", "ended"}
    BY DEF ReachTurns, Chunk
  <2>2. n \in Nat /\ AttrLen(ReachHeader + n) <= full
    <3>1. r.reach = TRUE
      BY <1>2 DEF Field
    <3>2. Header + attrs + AttrLen(ReachHeader + r.octets + PathId) <= size
      BY <3>1 DEF Fits
    <3>3. n \in Nat /\ n <= r.octets + PathId
      BY PackingAssumption DEF PackedSize
    <3> HIDE DEF n
    <3>4. Header \in Nat /\ PathId \in Nat /\ ReachHeader \in Nat /\ r.octets \in Nat
      BY PackingAssumption
    <3>5. /\ ReachHeader + n \in Nat /\ ReachHeader + r.octets + PathId \in Nat
          /\ ReachHeader + n <= ReachHeader + r.octets + PathId
      BY <3>3, <3>4
    <3>6. /\ AttrLen(ReachHeader + n) <= AttrLen(ReachHeader + r.octets + PathId)
          /\ AttrLen(ReachHeader + n) \in Nat /\ AttrLen(ReachHeader + r.octets + PathId) \in Nat
      BY ONLY <3>5, AttrLenGrows, AttrLenType
    <3> QED BY <3>2, <3>3, <3>4, <3>6
  <2>3. d = IF c.loop = "ended" THEN c ELSE Add(c, r, n, needed, room, part)
    BY <1>2 DEF Turn, AddReach, Add
  <2>4. needed \in Nat
    <3> HIDE DEF n
    <3>2. ReachHeader \in Nat /\ c.octets \in Nat /\ n \in Nat
      BY <2>1, <2>2, PackingAssumption
    <3>1. ReachHeader + c.octets + n \in Nat
      BY ONLY <3>2
    <3> QED BY ONLY <3>1, AttrLenType DEF needed
  <2>5. CASE c.loop = "ended"
    BY <2>3, <2>5 DEF Turned
  <2>6. CASE c.loop = "runs"
    <3>1. part \in Parts(R) /\ part.octets = c.octets /\ part.routes = c.routes
      BY <2>1 DEF Message, Parts, Chunk
    <3>2. needed = AttrLen(ReachHeader + (c.octets + n))
      <4>1. ReachHeader + c.octets + n = ReachHeader + (c.octets + n)
        <5> HIDE DEF n
        <5> QED BY <2>1, <2>2, PackingAssumption
      <4> QED BY <4>1
    <3> HIDE DEF n, part, needed
    <3>3. d = Add(c, r, n, needed, room, part)
      BY <2>3, <2>6
    <3>4. /\ d \in Chunk(R)
          /\ needed <= room => Joined(d, c, r, n)
          /\ needed > room /\ c.routes = {} => Ended(d, c)
          /\ needed > room /\ c.routes # {} => Started(d, c, part, r, n)
          /\ Covered(d, c, r)
      <4>1. r \in R /\ room \in Nat
        OBVIOUS
      <4> QED BY ONLY <2>1, <2>2, <2>4, <2>6, <3>1, <3>3, <4>1, AddIs
    <3>5. Turned(d, c, r, field)
      BY <1>2, <2>6, <3>4 DEF Turned, Covered
    <3>6. FitParts(c.out, room, full)
      BY DEF ReachTurns
    <3>7. CASE needed <= room
      <4>1. Joined(d, c, r, n)
        BY <3>4, <3>7
      <4>2. d.out = c.out /\ d.routes # {} /\ d.octets = c.octets + n /\ d.loop = "runs"
        BY <4>1 DEF Joined
      <4>3. needed <= Allowed(c.out, room, full)
        BY <2>4, <3>7 DEF Allowed
      <4>4. AttrLen(ReachHeader + d.octets) <= Allowed(d.out, room, full)
        BY <3>2, <4>2, <4>3
      <4> QED BY <3>4, <3>5, <3>6, <4>2, <4>4 DEF ReachTurns
    <3>8. CASE needed > room /\ c.routes = {}
      <4>1. Ended(d, c)
        BY <3>4, <3>8
      <4>2. d.out = c.out /\ d.routes = {} /\ d.octets = c.octets
        BY <3>8, <4>1 DEF Ended
      <4>3. c.octets = 0 /\ c.out = <<>>
        BY <3>8 DEF ReachTurns
      <4> QED BY <3>4, <3>5, <3>6, <4>2, <4>3 DEF ReachTurns
    <3>9. CASE needed > room /\ c.routes # {}
      <4>1. Started(d, c, part, r, n)
        BY <3>4, <3>9
      <4>2. d.out = Append(c.out, part) /\ d.routes # {} /\ d.octets = n /\ d.loop = "runs"
        BY <4>1 DEF Started
      <4>3. Length(part) <= Allowed(c.out, room, full)
        BY <3>1, <3>9 DEF ReachTurns, Length
      <4>4. FitParts(d.out, room, full)
        BY ONLY <2>1, <3>1, <3>6, <4>2, <4>3, FitAppend
      <4>5. d.out # <<>>
        BY <2>1, <3>1, <4>2
      <4>6. AttrLen(ReachHeader + d.octets) <= Allowed(d.out, room, full)
        BY <2>2, <4>2, <4>5 DEF Allowed
      <4> QED BY <3>4, <3>5, <4>2, <4>4, <4>6 DEF ReachTurns
    <3> QED BY <2>4, <3>7, <3>8, <3>9
  <2> QED BY <2>1, <2>5, <2>6
<1> QED BY <1>1, <1>2

\* packed_reach_attributes: its parts fit, and have every route if it does not raise.
LEMMA ReachLoop ==
    ASSUME NEW R, Routes(R), NEW routes \in Seq(R), NEW size \in Nat, NEW attrs \in Nat,
           \A r \in R : Fits(r, attrs, size), NEW full \in Nat, full + Header + attrs = size,
           NEW room \in Nat, room <= full,
           NEW pathids \in BOOLEAN, NEW c, c = Chunks("mp_reach", attrs, room, pathids, routes)
    PROVE  /\ ReachTurns(c, R, room, full)
           /\ c.loop = "runs" => Covers(c) = Those(routes, "mp_reach", Len(routes))
<1> DEFINE K == {k \in Chunk(R) : ReachTurns(k, R, room, full)}
<1>1. NoChunk \in K
  <2>1. NoChunk \in Chunk(R)
    BY DEF NoChunk, Chunk
  <2>2. NoChunk.octets = 0 /\ NoChunk.routes = {} /\ NoChunk.out = <<>> /\ NoChunk.loop = "runs"
    BY DEF NoChunk
  <2>3. FitParts(NoChunk.out, room, full)
    BY <2>2 DEF FitParts
  <2> QED BY <2>1, <2>2, <2>3 DEF ReachTurns
<1>2. ASSUME NEW k \in K, NEW r \in R
      PROVE  /\ Turn("mp_reach", attrs, room, pathids, k, r) \in K
             /\ Turned(Turn("mp_reach", attrs, room, pathids, k, r), k, r, "mp_reach")
  <2>1. PICK field : field = "mp_reach"
    OBVIOUS
  <2> DEFINE d == Turn(field, attrs, room, pathids, k, r)
  <2>2. r.octets \in Nat \ {0} /\ r.reach \in BOOLEAN /\ Fits(r, attrs, size)
    BY DEF Routes
  <2>3. ReachTurns(k, R, room, full)
    OBVIOUS
  <2>4. ReachTurns(d, R, room, full) /\ Turned(d, k, r, field)
    <3> HIDE DEF d, K
    <3>1. size \in Nat /\ attrs \in Nat /\ full \in Nat /\ full + Header + attrs = size
          /\ room \in Nat /\ room <= full
          /\ pathids \in BOOLEAN /\ r \in R /\ d = Turn(field, attrs, room, pathids, k, r)
      BY DEF d
    <3> QED BY ONLY <2>1, <2>2, <2>3, <3>1, ReachTurn
  <2>5. d \in Chunk(R)
    BY <2>4 DEF ReachTurns
  <2> QED BY <2>1, <2>4, <2>5
<1>3. c \in K /\ (c.loop = "runs" => Covers(c) = Those(routes, "mp_reach", Len(routes)))
  <2> HIDE DEF K
  <2> QED BY <1>1, <1>2, Loop
<1> QED BY <1>3
---------------------------------------------------------------------------
(* The messages.                                                           *)

\* The messages of one loop, then those of the next.
LEMMA Concatenated ==
    ASSUME NEW R, NEW a \in Seq(Parts(R)), NEW b \in Seq(Parts(R)), NEW size,
           Within(a, size), Within(b, size)
    PROVE  a \o b \in Seq(Parts(R)) /\ Within(a \o b, size) /\ In(a \o b) = In(a) \union In(b)
<1> DEFINE ab == a \o b
<1>1. ab \in Seq(Parts(R)) /\ Len(ab) = Len(a) + Len(b)
  OBVIOUS
<1>2. \A k \in DOMAIN a : k \in DOMAIN ab /\ ab[k] = a[k]
  OBVIOUS
<1>3. \A k \in DOMAIN b : k + Len(a) \in DOMAIN ab /\ ab[k + Len(a)] = b[k]
  OBVIOUS
<1>4. \A k \in DOMAIN ab : k \in DOMAIN a \/ (k - Len(a) \in DOMAIN b /\ k = (k - Len(a)) + Len(a))
  OBVIOUS
<1> HIDE DEF ab
<1>5. \A k \in DOMAIN ab : (\E i \in DOMAIN a : ab[k] = a[i]) \/ (\E i \in DOMAIN b : ab[k] = b[i])
  <2> SUFFICES ASSUME NEW k \in DOMAIN ab
               PROVE  (\E i \in DOMAIN a : ab[k] = a[i]) \/ (\E i \in DOMAIN b : ab[k] = b[i])
    OBVIOUS
  <2>1. CASE k \in DOMAIN a
    BY <1>2, <2>1
  <2>2. CASE k - Len(a) \in DOMAIN b /\ k = (k - Len(a)) + Len(a)
    <3>1. ab[k] = b[k - Len(a)]
      BY <1>3, <2>2
    <3> QED BY <2>2, <3>1
  <2> QED BY <1>4, <2>1, <2>2
<1>6. Within(ab, size)
  BY <1>5 DEF Within
<1>7. In(ab) = In(a) \union In(b)
  <2>1. In(ab) \subseteq In(a) \union In(b)
    BY <1>5 DEF In
  <2>2. In(a) \subseteq In(ab)
    BY <1>2 DEF In
  <2>3. In(b) \subseteq In(ab)
    BY <1>3 DEF In
  <2> QED BY <2>1, <2>2, <2>3
<1> QED BY <1>1, <1>6, <1>7 DEF ab

\* What a loop leaves over becomes a message, with the routes of the chunk, ...
LEMMA RestType ==
    ASSUME NEW R, NEW c \in Chunk(R), NEW octets \in Nat
    PROVE  /\ WithRest(c.out, c, octets) \in Seq(Parts(R))
           /\ In(WithRest(c.out, c, octets)) = Covers(c)
<1>1. c.out \in Seq(Parts(R)) /\ c.routes \in SUBSET R
  BY DEF Chunk
<1> DEFINE part == Message(c.routes, octets)
<1>2. part \in Parts(R) /\ part.routes = c.routes
  BY <1>1 DEF Message, Parts
<1>3. CASE c.routes = {}
  BY <1>1, <1>3 DEF WithRest, Covers
<1>4. CASE c.routes # {}
  <2> HIDE DEF part
  <2>1. WithRest(c.out, c, octets) = Append(c.out, part)
    BY <1>4 DEF WithRest, part
  <2>2. In(Append(c.out, part)) = In(c.out) \union c.routes
    BY <1>1, <1>2, InAppend
  <2>3. Append(c.out, part) \in Seq(Parts(R))
    BY <1>1, <1>2
  <2> QED BY <2>1, <2>2, <2>3 DEF Covers
<1> QED BY <1>3, <1>4

\* ... that fits for plain routes, ...
LEMMA PlainRest ==
    ASSUME NEW R, NEW size \in Nat, NEW attrs \in Nat, NEW room \in Nat, room + Header + attrs = size,
           NEW c, PlainTurns(c, R, size, room), NEW octets, octets = Header + attrs + c.octets,
           NEW out, out = WithRest(c.out, c, octets)
    PROVE  out \in Seq(Parts(R)) /\ In(out) = Covers(c) /\ Within(out, size)
<1>1. c \in Chunk(R) /\ c.octets \in Nat /\ c.octets <= room /\ Within(c.out, size)
  BY DEF PlainTurns, Chunk
<1>2. octets \in Nat /\ octets <= size
  BY <1>1, PackingAssumption
<1>3. out \in Seq(Parts(R)) /\ In(out) = Covers(c)
  BY ONLY <1>1, <1>2, out = WithRest(c.out, c, octets), RestType
<1>4. Within(out, size)
  <2>1. CASE c.routes = {}
    BY <1>1, <2>1 DEF WithRest
  <2>2. CASE c.routes # {}
    <3> DEFINE part == Message(c.routes, octets)
    <3>1. c.out \in Seq(Parts(R)) /\ part \in Parts(R) /\ part.octets = octets
      BY <1>1, <1>2 DEF Message, Parts, Chunk
    <3>2. out = Append(c.out, part)
      BY <2>2 DEF WithRest
    <3> HIDE DEF part
    <3>3. part.octets <= size
      BY <1>2, <3>1
    <3> QED BY ONLY <1>1, <3>1, <3>2, <3>3, WithinAppend
  <2> QED BY <2>1, <2>2
<1> QED BY <1>3, <1>4

\* ... and for a part.
LEMMA ReachRest ==
    ASSUME NEW R, NEW room \in Nat, NEW full \in Nat,
           NEW c, ReachTurns(c, R, room, full), NEW out, out = WithRest(c.out, c, c.octets)
    PROVE  out \in Seq(Parts(R)) /\ In(out) = Covers(c) /\ FitParts(out, room, full)
<1>1. c \in Chunk(R) /\ c.octets \in Nat /\ FitParts(c.out, room, full)
  BY DEF ReachTurns, Chunk
<1>3. out \in Seq(Parts(R)) /\ In(out) = Covers(c)
  BY ONLY <1>1, out = WithRest(c.out, c, c.octets), RestType
<1>4. FitParts(out, room, full)
  <2>1. CASE c.routes = {}
    BY <1>1, <2>1 DEF WithRest
  <2>2. CASE c.routes # {}
    <3> DEFINE part == Message(c.routes, c.octets)
    <3>1. c.out \in Seq(Parts(R)) /\ part \in Parts(R) /\ part.octets = c.octets
      BY <1>1 DEF Message, Parts, Chunk
    <3>2. out = Append(c.out, part)
      BY <2>2 DEF WithRest
    <3> HIDE DEF part
    <3>3. Length(part) <= Allowed(c.out, room, full)
      BY <2>2, <3>1 DEF ReachTurns, Length
    <3> QED BY ONLY <1>1, <3>1, <3>2, <3>3, FitAppend
  <2> QED BY <2>1, <2>2
<1> QED BY <1>3, <1>4

\* The messages with an MP_REACH_NLRI.
LEMMA ReachingFits ==
    ASSUME NEW R, NEW size \in Nat, NEW attrs \in Nat,
           NEW full \in Nat, full + Header + attrs = size,
           NEW plain, PlainTurns(plain, R, size, full),
           NEW room \in Nat, room + plain.octets = full,
           NEW parts \in Seq(Parts(R)), FitParts(parts, room, full),
           NEW out, out = Reaching(attrs, plain, parts)
    PROVE  /\ out \in Seq(Parts(R)) /\ Within(out, size)
           /\ In(parts) \subseteq In(out)
           /\ In(out) \subseteq In(parts) \union plain.routes
<1>1. plain.routes \in SUBSET R /\ plain.octets \in Nat
  BY DEF PlainTurns, Chunk
<1> DEFINE again(i) == IF i = 1 THEN plain ELSE NoChunk
           message(i) == Message(parts[i].routes \union again(i).routes,
                Header + attrs + AttrLen(ReachHeader + parts[i].octets) + again(i).octets)
<1>2. out = [i \in DOMAIN parts |-> message(i)]
  BY DEF Reaching
<1>3. ASSUME NEW i \in DOMAIN parts
      PROVE  /\ message(i) \in Parts(R) /\ message(i).octets <= size
             /\ parts[i].routes \subseteq message(i).routes
             /\ message(i).routes \subseteq parts[i].routes \union plain.routes
  <2> DEFINE n == AttrLen(ReachHeader + parts[i].octets)
             k == again(i)
             octets == Header + attrs + n + k.octets
             routes == parts[i].routes \union k.routes
  <2>1. parts[i].octets \in Nat /\ parts[i].routes \in SUBSET R
    <3>1. parts[i] \in Parts(R)
      OBVIOUS
    <3> QED BY <3>1 DEF Parts
  <2>2. n \in Nat
    <3>1. ReachHeader + parts[i].octets \in Nat
      BY <2>1, PackingAssumption
    <3> QED BY <3>1, AttrLenType
  <2>3. n <= IF i = 1 THEN room ELSE full
    BY DEF FitParts, Length
  <2>4. /\ k.octets = IF i = 1 THEN plain.octets ELSE 0
        /\ k.routes = IF i = 1 THEN plain.routes ELSE {}
    BY DEF NoChunk
  <2> HIDE DEF n, k
  <2>5. octets \in Nat /\ octets <= size
    <3>1. Header \in Nat /\ k.octets \in Nat /\ n + k.octets <= full
      BY <1>1, <2>2, <2>3, <2>4, PackingAssumption
    <3>2. size = full + Header + attrs /\ attrs \in Nat /\ full \in Nat
      OBVIOUS
    <3> QED BY ONLY <2>2, <3>1, <3>2 DEF octets
  <2>6. routes \in SUBSET R /\ parts[i].routes \subseteq routes
        /\ routes \subseteq parts[i].routes \union plain.routes
    BY <1>1, <2>1, <2>4
  <2> HIDE DEF octets, routes
  <2>7. message(i) = [routes |-> routes, octets |-> octets]
    BY DEF Message, octets, routes, n, k
  <2> HIDE DEF message
  <2>8. message(i) \in Parts(R) /\ message(i).octets = octets /\ message(i).routes = routes
    BY <2>5, <2>6, <2>7 DEF Parts
  <2> QED BY <2>5, <2>6, <2>8
<1> HIDE DEF message
<1>4. out \in Seq(Parts(R)) /\ DOMAIN out = DOMAIN parts /\ \A i \in DOMAIN parts : out[i] = message(i)
  BY <1>2, <1>3
<1> QED BY <1>3, <1>4 DEF In, Within

\* What is sent of the routes of R.
Packed(m, R, size) ==
    /\ m.out \in Seq(Parts(R)) /\ Within(m.out, size) /\ m.raised \in BOOLEAN
    /\ m.raised = FALSE => In(m.out) = R

\* Where every route fits a message of its own, no message is longer than it may
\* be, and the messages carry every route, and nothing else, unless an attribute
\* beside the plain routes left over has no room for its first.
LEMMA PackingCarries ==
    ASSUME NEW R, Routes(R), NEW routes \in Seq(R), ToSet(routes) = R,
           NEW size \in Nat, NEW attrs \in Nat,
           \A r \in R : Fits(r, attrs, size), NEW pathids \in BOOLEAN,
           NEW m, m = messages(size, attrs, pathids, routes)
    PROVE  Packed(m, R, size)
<1>1. CASE routes = <<>>
  <2>1. m = [out |-> <<>>, raised |-> FALSE]
    BY <1>1 DEF messages
  <2>2. R = {}
    BY <1>1 DEF ToSet
  <2> QED BY <2>1, <2>2 DEF In, Within, Packed
<1>2. CASE routes # <<>>
  <2> DEFINE full == Room(size, attrs)
             plain == Chunks("nlri", attrs, full, pathids, routes)
             room == full - plain.octets
             parts == Chunks("mp_reach", attrs, room, pathids, routes)
             first == WithRest(plain.out, plain, Header + attrs + plain.octets)
             reach == WithRest(parts.out, parts, parts.octets)
             second == Reaching(attrs, plain, reach)
  <2>1. size > Header + attrs
    <3>1. PICK r \in R : TRUE
      BY <1>2 DEF ToSet
    <3>2. r.octets \in Nat \ {0} /\ r.reach \in BOOLEAN /\ Fits(r, attrs, size)
      BY DEF Routes
    <3>3. CASE r.reach = TRUE
      <4>1. ReachHeader + r.octets + PathId \in Nat
        BY <3>2, PackingAssumption
      <4>2. AttrLen(ReachHeader + r.octets + PathId) \in Nat
            /\ AttrLen(ReachHeader + r.octets + PathId) > ReachHeader + r.octets + PathId
        BY ONLY <4>1, AttrLenType
      <4>3. Header + attrs + AttrLen(ReachHeader + r.octets + PathId) <= size
        BY <3>2, <3>3 DEF Fits
      <4> QED BY <4>1, <4>2, <4>3, PackingAssumption
    <3>4. CASE r.reach = FALSE
      <4>1. Header + attrs + (r.octets + PathId) <= size
        BY <3>2, <3>4 DEF Fits
      <4> QED BY <3>2, <4>1, PackingAssumption
    <3> QED BY <3>2, <3>3, <3>4
  <2>2. full \in Nat /\ full + Header + attrs = size
    BY <2>1, PackingAssumption DEF Room
  <2>3. m = IF plain.loop = "ended" THEN [out |-> plain.out, raised |-> FALSE]
            ELSE [out |-> first \o second, raised |-> parts.loop = "ended"]
    BY <1>2, <2>1, PackingAssumption DEF messages
  <2> HIDE DEF full
  <2>4. PlainTurns(plain, R, size, full) /\ Covers(plain) = Those(routes, "nlri", Len(routes))
    BY <2>2, PlainLoop
  <2> HIDE DEF plain
  <2>5. plain \in Chunk(R) /\ plain.loop = "runs" /\ plain.octets \in Nat /\ plain.octets <= full
    BY <2>4 DEF PlainTurns, Chunk
  <2>6. room \in Nat /\ room <= full /\ room + plain.octets = full
    BY <2>2, <2>5
  <2> HIDE DEF room
  <2>7. /\ ReachTurns(parts, R, room, full)
        /\ parts.loop = "runs" => Covers(parts) = Those(routes, "mp_reach", Len(routes))
    BY <2>2, <2>6, ReachLoop
  <2> HIDE DEF parts
  <2>8. first \in Seq(Parts(R)) /\ In(first) = Covers(plain) /\ Within(first, size)
    BY <2>2, <2>4, PlainRest
  <2>9. reach \in Seq(Parts(R)) /\ In(reach) = Covers(parts) /\ FitParts(reach, room, full)
    BY <2>2, <2>6, <2>7, ReachRest
  <2> HIDE DEF first, reach
  <2>10. /\ second \in Seq(Parts(R)) /\ Within(second, size)
         /\ In(reach) \subseteq In(second)
         /\ In(second) \subseteq In(reach) \union plain.routes
    BY <2>2, <2>4, <2>6, <2>9, ReachingFits
  <2> HIDE DEF second
  <2>11. /\ first \o second \in Seq(Parts(R)) /\ Within(first \o second, size)
         /\ In(first \o second) = In(first) \union In(second)
    BY <2>8, <2>10, Concatenated
  <2>12. plain.routes \subseteq Covers(plain)
    BY DEF Covers
  <2>13. m.out = first \o second /\ m.raised = (parts.loop = "ended")
    BY <2>3, <2>5
  <2>14. parts.loop \in {"runs", "ended"}
    BY <2>7 DEF ReachTurns, Chunk
  <2>15. ASSUME m.raised = FALSE PROVE In(m.out) = R
    <3>1. parts.loop = "runs"
      BY <2>13, <2>14, <2>15
    <3>2. Those(routes, "nlri", Len(routes)) \union Those(routes, "mp_reach", Len(routes)) = R
      BY DEF Those, ToSet, Field
    <3> QED BY <2>4, <2>7, <2>8, <2>9, <2>10, <2>11, <2>12, <2>13, <3>1, <3>2
  <2> QED BY <2>11, <2>13, <2>15 DEF Packed
<1> QED BY <1>1, <1>2

---------------------------------------------------------------------------
(* The updates: what is handed over.                                       *)

\* updates() hands over some of the routes of the collection.
LEMMA LimitedAre ==
    ASSUME NEW S, NEW batch \in Seq(S), NEW limit
    PROVE  Limited(batch, limit) \in Seq(S)
<1> DEFINE T(kept, i) == Taken(kept, batch[i], limit)
           IsLoop(f, n) == f = [i \in 0..n |-> IF i = 0 THEN <<>> ELSE T(f[i - 1], i)]
           N == Len(batch)
           good == {n \in Nat : \E f : IsLoop(f, n)}
           after == CHOOSE f : IsLoop(f, N)
           kept == {n \in Nat : n <= N => after[n] \in Seq(S)}
<1>1. N \in Nat
  OBVIOUS
<1>2. 0 \in good
  <2>1. IsLoop([i \in 0..0 |-> <<>>], 0)
    OBVIOUS
  <2> QED BY <2>1
<1>3. ASSUME NEW n \in good PROVE n + 1 \in good
  <2>1. PICK f : IsLoop(f, n)
    OBVIOUS
  <2> DEFINE g == [i \in 0..n + 1 |-> IF i = n + 1 THEN T(f[n], n + 1) ELSE f[i]]
  <2>2. ASSUME NEW i \in 0..n + 1 PROVE g[i] = IF i = 0 THEN <<>> ELSE T(g[i - 1], i)
    <3> HIDE DEF T
    <3>1. CASE i = n + 1
      BY <3>1
    <3>2. CASE i # n + 1
      <4>1. f[i] = IF i = 0 THEN <<>> ELSE T(f[i - 1], i)
        BY <2>1, <3>2
      <4> QED BY <3>2, <4>1
    <3> QED BY <3>1, <3>2
  <2>3. IsLoop(g, n + 1)
    <3> HIDE DEF T
    <3> QED BY <2>2
  <2> QED
    <3> HIDE DEF IsLoop, g
    <3> QED BY <2>3
<1>4. \E f : IsLoop(f, N)
  <2> HIDE DEF IsLoop, N
  <2>1. N \in good
    BY <1>1, <1>2, <1>3, UpTo
  <2> QED BY <2>1
<1>5. IsLoop(after, N)
  <2> HIDE DEF IsLoop, N
  <2> QED BY <1>4
<1>6. Limited(batch, limit) = after[N]
  BY DEF Limited
<1>7. after[0] = <<>> /\ \A i \in 1..N : after[i] = T(after[i - 1], i)
  <2> HIDE DEF T, after
  <2> QED BY <1>1, <1>5
<1> HIDE DEF after
<1>8. \A n \in kept : n < N => n + 1 \in kept
  <2> SUFFICES ASSUME NEW n \in kept, n < N PROVE after[n + 1] \in Seq(S)
    OBVIOUS
  <2>1. n \in Nat /\ n + 1 \in 1..N /\ (n + 1) - 1 = n /\ after[n] \in Seq(S)
    BY <1>1
  <2>2. after[n + 1] = T(after[n], n + 1)
    <3>1. after[n + 1] = T(after[(n + 1) - 1], n + 1)
      BY <1>7, <2>1
    <3> QED BY <2>1, <3>1
  <2>3. batch[n + 1] \in S
    BY <2>1
  <2>4. T(after[n], n + 1) \in {after[n], Append(after[n], batch[n + 1])}
    BY DEF Taken
  <2> HIDE DEF T
  <2>5. CASE after[n + 1] = after[n]
    BY <2>1, <2>5
  <2>6. CASE after[n + 1] = Append(after[n], batch[n + 1])
    <3>1. Append(after[n], batch[n + 1]) \in Seq(S)
      BY <2>1, <2>3
    <3> QED BY <2>6, <3>1
  <2> QED BY <2>2, <2>4, <2>5, <2>6
<1>9. N \in kept
  <2>1. 0 \in kept /\ kept \in SUBSET Nat
    <3>1. <<>> \in Seq(S)
      OBVIOUS
    <3> QED BY <1>7, <3>1
  <2> HIDE DEF kept, N
  <2> QED BY <1>1, <1>8, <2>1, UpTo
<1> QED BY <1>1, <1>6, <1>9

\* Every route that a collection may hand over.
AllRoutes == UNION {ToSet(b.announces) : b \in Batches}

\* A sequence is one of its own elements.
LEMMA SeqOfItself ==
    ASSUME NEW S, NEW q \in Seq(S)
    PROVE  q \in Seq(ToSet(q)) /\ ToSet(q) \subseteq S
BY DEF ToSet

\* What is handed over are routes of the collection, none for a family that was not
\* negotiated.
LEMMA HandedOverType ==
    ASSUME NEW b \in Batches, NEW n, NEW q, q = HandedOver(n, b)
    PROVE  /\ q \in Seq(ToSet(q)) /\ ToSet(q) \subseteq ToSet(b.announces)
           /\ ToSet(q) \subseteq AllRoutes
           /\ b.family \notin n.families => q = <<>>
           /\ Routes(ToSet(q)) /\ b.attrs \in Nat
           /\ RoutesFit => \A r \in ToSet(q) : Fits(r, b.attrs, InitialSize)
<1> DEFINE R == ToSet(b.announces)
<1>1. b.announces \in Seq(R) /\ b.attrs \in Nat
      /\ \A r \in R : r.octets \in Nat \ {0} /\ r.reach \in BOOLEAN
  BY NegotiationAssumption DEF Batch
<1> HIDE DEF R
<1>2. q \in Seq(R)
  <2>1. Limited(b.announces, n.paths_limit[b.family]) \in Seq(R)
    BY <1>1, LimitedAre
  <2>2. <<>> \in Seq(R)
    OBVIOUS
  <2> QED BY <2>1, <2>2 DEF HandedOver
<1>3. q \in Seq(ToSet(q)) /\ ToSet(q) \subseteq R
  BY <1>2, SeqOfItself
<1>4. ToSet(q) \subseteq AllRoutes
  BY <1>3 DEF AllRoutes, R
<1>5. b.family \notin n.families => q = <<>>
  BY DEF HandedOver
<1>6. Routes(ToSet(q))
  BY <1>1, <1>3 DEF Routes
<1>7. RoutesFit => \A r \in ToSet(q) : Fits(r, b.attrs, InitialSize)
  BY <1>3 DEF RoutesFit, R
<1> QED BY <1>1, <1>3, <1>4, <1>5, <1>6, <1>7 DEF R

---------------------------------------------------------------------------
(* The updates: what is on the wire.                                       *)

\* A message the reader takes, by the OPEN of the sender and its own.
Sound(m, ours, theirs) ==
    /\ ours # None /\ theirs # None
    /\ m.octets <= Negotiate(ours, theirs).msg_size
    /\ m.family \in Negotiate(ours, theirs).families
    /\ m.pathids = Negotiate(ours, theirs).send[m.family]

Bears(q, ours, theirs) ==
    \E S : /\ q \in Seq(S)
           /\ \A m \in S : m.type = "update" => Sound(m, ours, theirs)

\* An empty wire has only messages the reader takes; ...
LEMMA BearsNothing ==
    ASSUME NEW ours, NEW theirs
    PROVE  Bears(<<>>, ours, theirs)
<1> DEFINE none == {m \in {0} : FALSE}
<1>1. <<>> \in Seq(none)
  OBVIOUS
<1>2. \A m \in none : m.type = "update" => Sound(m, ours, theirs)
  OBVIOUS
<1> HIDE DEF none
<1> QED BY <1>1, <1>2 DEF Bears

\* ... so has one with another such message, ...
LEMMA BearsMore ==
    ASSUME NEW q, NEW ours, NEW theirs, Bears(q, ours, theirs),
           NEW m, m.type = "update" => Sound(m, ours, theirs)
    PROVE  Bears(Append(q, m), ours, theirs)
<1>1. PICK S : q \in Seq(S) /\ \A n \in S : n.type = "update" => Sound(n, ours, theirs)
  BY DEF Bears
<1> DEFINE T == S \union {m}
<1>2. q \in Seq(T)
  BY <1>1, SeqGrows
<1>3. Append(q, m) \in Seq(T)
  BY <1>2
<1> QED BY <1>1, <1>3 DEF Bears

\* ... or with one message less.
LEMMA BearsRest ==
    ASSUME NEW q, NEW ours, NEW theirs, Bears(q, ours, theirs), q # <<>>
    PROVE  /\ Bears(Tail(q), ours, theirs)
           /\ Head(q).type = "update" => Sound(Head(q), ours, theirs)
<1>1. PICK S : q \in Seq(S) /\ \A n \in S : n.type = "update" => Sound(n, ours, theirs)
  BY DEF Bears
<1>2. Tail(q) \in Seq(S) /\ Head(q) \in S
  BY <1>1
<1> QED BY <1>1, <1>2 DEF Bears

\* There is none before both have sent their OPEN.
LEMMA BearsFirst ==
    ASSUME NEW q, NEW ours, NEW theirs, Bears(q, ours, theirs), ours = None \/ theirs = None,
           NEW newer, NEW latest
    PROVE  Bears(q, newer, latest)
BY DEF Bears, Sound

\* The routes of the updates of a wire.
Borne(q) == UNION {q[k].routes : k \in {k \in DOMAIN q : q[k].type = "update"}}

\* The routes on a wire: none if it is empty, ...
LEMMA BorneNothing == Borne(<<>>) = {}
BY DEF Borne

\* ... more by those of an UPDATE put on it, ...
LEMMA BorneMore ==
    ASSUME NEW S, NEW q \in Seq(S), NEW m
    PROVE  /\ m.type = "update" => Borne(Append(q, m)) = Borne(q) \union m.routes
           /\ m.type # "update" => Borne(Append(q, m)) = Borne(q)
<1> DEFINE more == Append(q, m)
<1>0. q \in Seq(S \union {m})
  BY SeqGrows
<1>1. DOMAIN more = DOMAIN q \union {Len(q) + 1}
  BY <1>0
<1>2. more[Len(q) + 1] = m /\ \A k \in DOMAIN q : more[k] = q[k]
  BY <1>0
<1> HIDE DEF more
<1>3. /\ m.type = "update" => Borne(more) = Borne(q) \union m.routes
      /\ m.type # "update" => Borne(more) = Borne(q)
  BY <1>1, <1>2 DEF Borne
<1> QED BY <1>3 DEF more

\* ... less by those of an UPDATE taken off it.
LEMMA BorneRest ==
    ASSUME NEW S, NEW q \in Seq(S), q # <<>>
    PROVE  /\ Head(q).type = "update" => Borne(q) = Head(q).routes \union Borne(Tail(q))
           /\ Head(q).type # "update" => Borne(q) = Borne(Tail(q))
<1> DEFINE rest == Tail(q)
<1>1. /\ 1 \in DOMAIN q /\ q[1] = Head(q)
      /\ \A k \in DOMAIN rest : k + 1 \in DOMAIN q /\ rest[k] = q[k + 1]
      /\ \A k \in DOMAIN q : k = 1 \/ (k - 1 \in DOMAIN rest /\ k = (k - 1) + 1)
  OBVIOUS
<1> HIDE DEF rest
<1>2. Borne(rest) \subseteq Borne(q)
  BY <1>1 DEF Borne
<1>3. \A k \in DOMAIN q : k = 1 \/ \E i \in DOMAIN rest : q[k] = rest[i]
  BY <1>1
<1>4. /\ Head(q).type = "update" =>
            Borne(q) \subseteq Head(q).routes \union Borne(rest) /\ Head(q).routes \subseteq Borne(q)
      /\ Head(q).type # "update" => Borne(q) \subseteq Borne(rest)
  BY <1>1, <1>3 DEF Borne
<1> QED BY <1>2, <1>4 DEF rest

\* The first message a generator has left, and the rest.
LEMMA InRest ==
    ASSUME NEW R, NEW q \in Seq(Parts(R)), q # <<>>
    PROVE  /\ Tail(q) \in Seq(Parts(R)) /\ Head(q) \in Parts(R)
           /\ In(q) = Head(q).routes \union In(Tail(q))
           /\ \A size : Within(q, size) => Head(q).octets <= size /\ Within(Tail(q), size)
<1> DEFINE rest == Tail(q)
<1>1. /\ 1 \in DOMAIN q /\ q[1] = Head(q)
      /\ \A k \in DOMAIN rest : k + 1 \in DOMAIN q /\ rest[k] = q[k + 1]
      /\ \A k \in DOMAIN q : k = 1 \/ (k - 1 \in DOMAIN rest /\ k = (k - 1) + 1)
      /\ rest \in Seq(Parts(R)) /\ Head(q) \in Parts(R)
  OBVIOUS
<1> HIDE DEF rest
<1>2. In(rest) \subseteq In(q)
  BY <1>1 DEF In
<1>3. \A k \in DOMAIN q : k = 1 \/ \E i \in DOMAIN rest : q[k] = rest[i]
  BY <1>1
<1>4. In(q) \subseteq Head(q).routes \union In(rest) /\ Head(q).routes \subseteq In(q)
  BY <1>1, <1>3 DEF In
<1>5. \A size : Within(q, size) => Head(q).octets <= size /\ Within(rest, size)
  BY <1>1 DEF Within
<1> QED BY <1>1, <1>2, <1>4, <1>5 DEF rest

---------------------------------------------------------------------------
(* The updates: the invariant.                                             *)

\* A function of the speakers.
OfSpeakers(f) == DOMAIN f = Speakers /\ f = [s \in Speakers |-> f[s]]
FunInv == OfSpeakers(generator) /\ OfSpeakers(owed) /\ OfSpeakers(rib)

\* What a connection reads is what was negotiated, ...
SizeInv ==
    \A s \in Speakers :
        /\ phase[s] \in {"start", "mirror"} => msg_size[s] = InitialSize
        /\ phase[s] = "mirror" => conf[s].local_as = 0
        /\ phase[s] = "opensent" => conf[s].local_as # 0
        /\ phase[s] \in Validated =>
            msg_size[s] = IF conf[s].local_as = 0 THEN InitialSize ELSE negotiated[s].msg_size
        /\ sent[s] # None => sent[s].extended_message = conf[s].extended_message

\* ... so is what is on its way to a speaker, ...
BearInv == \A s \in Speakers : Bears(wire[s], sent[Other(s)], sent[s])

\* ... and what a generator has left to send, ...
Generating(g, n) ==
    /\ g = [out |-> g.out, raised |-> g.raised, family |-> g.family] /\ g # Idle
    /\ g.out \in Seq(Parts(AllRoutes)) /\ g.raised \in BOOLEAN
    /\ Within(g.out, n.msg_size)
    /\ g.out # <<>> => g.family \in n.families
GenInv ==
    \A s \in Speakers :
        /\ phase[s] \notin {"established", "closed"} => generator[s] = Idle
        /\ phase[s] = "established" =>
            generator[s] = Idle \/ Generating(generator[s], negotiated[s])

\* ... and until a generator raises, what was handed over has been read, is on its
\* way, or is in the generator.
Left(g) == IF g = Idle THEN {} ELSE In(g.out)
Raised(g) == g # Idle /\ g.raised = TRUE
Kept(g, o, r, w) == Raised(g) \/ o = r \union Borne(w) \union Left(g)
RibInv ==
    \A s \in Speakers : phase[s] # "closed" =>
        Kept(generator[Other(s)], owed[Other(s)], rib[s], wire[s])

UpdatesInv == FunInv /\ SizeInv /\ BearInv /\ GenInv /\ RibInv

\* Before a session there is nothing on a wire, in a generator or handed over.
THEOREM InitUpdates == NegotiationInit => UpdatesInv
<1> SUFFICES ASSUME NegotiationInit PROVE UpdatesInv
  OBVIOUS
<1>1. FunInv
  BY DEF NegotiationInit, FunInv, OfSpeakers
<1>2. SizeInv
  BY DEF NegotiationInit, SizeInv, Validated
<1>3. BearInv
  BY BearsNothing DEF NegotiationInit, BearInv
<1>4. GenInv
  BY DEF NegotiationInit, GenInv
<1>5. RibInv
  BY OtherSpeaker, BorneNothing DEF NegotiationInit, RibInv, Kept, Left
<1> QED BY <1>1, <1>2, <1>3, <1>4, <1>5 DEF UpdatesInv

---------------------------------------------------------------------------
(* The updates: steps that leave them alone.                               *)

\* Nothing is done to the updates of a wire.
Quiet(q, r) ==
    \A ours, theirs : Bears(q, ours, theirs) => Bears(r, ours, theirs) /\ Borne(r) = Borne(q)

\* A message that is no UPDATE put on a wire leaves its UPDATE messages as they are, ...
LEMMA QuietAppend ==
    ASSUME NEW q, NEW r, Quiet(q, r), NEW m, m.type # "update"
    PROVE  Quiet(q, Append(r, m))
<1> SUFFICES ASSUME NEW ours, NEW theirs, Bears(q, ours, theirs)
             PROVE  Bears(Append(r, m), ours, theirs) /\ Borne(Append(r, m)) = Borne(q)
  BY DEF Quiet
<1>1. Bears(r, ours, theirs) /\ Borne(r) = Borne(q)
  BY DEF Quiet
<1>2. Bears(Append(r, m), ours, theirs)
  BY <1>1, BearsMore
<1>3. PICK S : r \in Seq(S)
  BY <1>1 DEF Bears
<1>4. Borne(Append(r, m)) = Borne(r)
  BY <1>3, BorneMore
<1> QED BY <1>1, <1>2, <1>4

\* ... and so does one taken off it, ...
LEMMA QuietTail ==
    ASSUME NEW q, q # <<>>, Head(q).type # "update"
    PROVE  Quiet(q, Tail(q))
<1> SUFFICES ASSUME NEW ours, NEW theirs, Bears(q, ours, theirs)
             PROVE  Bears(Tail(q), ours, theirs) /\ Borne(Tail(q)) = Borne(q)
  BY DEF Quiet
<1>1. Bears(Tail(q), ours, theirs)
  BY BearsRest
<1>2. PICK S : q \in Seq(S)
  BY DEF Bears
<1>3. Borne(q) = Borne(Tail(q))
  BY <1>2, BorneRest
<1> QED BY <1>1, <1>3

\* ... by a step that sends, ...
LEMMA QuietPut ==
    ASSUME NegotiationInv, NEW s \in Speakers, NEW m, m.type # "update", Put(s, m)
    PROVE  \A u \in Speakers : Quiet(wire[u], wire'[u])
<1> SUFFICES ASSUME NEW u \in Speakers PROVE Quiet(wire[u], wire'[u])
  OBVIOUS
<1>1. Quiet(wire[u], wire[u])
  BY DEF Quiet
<1>2. CASE u = Other(s)
  <2>1. wire'[u] = Append(wire[u], m)
    BY <1>2, OtherSpeaker DEF NegotiationInv, VarsType, Put
  <2> QED BY <1>1, <2>1, QuietAppend
<1>3. CASE u # Other(s)
  <2>1. wire'[u] = wire[u]
    BY <1>3 DEF NegotiationInv, VarsType, Put
  <2> QED BY <1>1, <2>1
<1> QED BY <1>2, <1>3

\* ... one that reads, ...
LEMMA QuietTake ==
    ASSUME NegotiationInv, NEW s \in Speakers, wire[s] # <<>>, Head(wire[s]).type # "update",
           wire' = [wire EXCEPT ![s] = Tail(@)]
    PROVE  \A u \in Speakers : Quiet(wire[u], wire'[u])
<1> SUFFICES ASSUME NEW u \in Speakers PROVE Quiet(wire[u], wire'[u])
  OBVIOUS
<1>1. CASE u = s
  <2>1. wire'[u] = Tail(wire[u])
    BY <1>1 DEF NegotiationInv, VarsType
  <2> QED BY <1>1, <2>1, QuietTail
<1>2. CASE u # s
  <2>1. wire'[u] = wire[u]
    BY <1>2 DEF NegotiationInv, VarsType
  <2> QED BY <2>1 DEF Quiet
<1> QED BY <1>1, <1>2

\* ... or one that does both.
LEMMA QuietAnswer ==
    ASSUME NegotiationInv, NEW s \in Speakers, wire[s] # <<>>, Head(wire[s]).type # "update",
           NEW m, m.type # "update", Answer(s, m)
    PROVE  \A u \in Speakers : Quiet(wire[u], wire'[u])
<1> SUFFICES ASSUME NEW u \in Speakers PROVE Quiet(wire[u], wire'[u])
  OBVIOUS
<1>0. Other(s) \in Speakers /\ Other(s) # s
  BY OtherSpeaker
<1>1. Quiet(wire[u], wire[u])
  BY DEF Quiet
<1>2. CASE u = Other(s)
  <2>1. wire'[u] = Append(wire[u], m)
    BY <1>0, <1>2 DEF NegotiationInv, VarsType, Answer
  <2> QED BY <1>1, <2>1, QuietAppend
<1>3. CASE u = s
  <2>1. wire'[u] = Tail(wire[u])
    BY <1>0, <1>3 DEF NegotiationInv, VarsType, Answer
  <2> QED BY <1>3, <2>1, QuietTail
<1>4. CASE u # s /\ u # Other(s)
  <2>1. wire'[u] = wire[u]
    BY <1>4 DEF NegotiationInv, VarsType, Answer
  <2> QED BY <1>1, <2>1
<1> QED BY <1>2, <1>3, <1>4

\* The OPEN of a speaker that had sent none.
FirstOpen(s, open) == sent[s] = None /\ sent' = [sent EXCEPT ![s] = open]

\* Where a speaker goes without it mattering to its generator.
Moves(u) ==
    /\ phase[u] = "closed" => phase'[u] = "closed"
    /\ \/ phase'[u] = phase[u] /\ negotiated'[u] = negotiated[u]
       \/ phase'[u] = "closed"
       \/ phase[u] \notin {"established", "closed"}

\* A step that leaves the updates alone keeps what is known of them.
LEMMA AloneKeeps ==
    ASSUME NegotiationInv, UpdatesInv, SizeInv',
           sent' = sent \/ \E s \in Speakers : \E open : FirstOpen(s, open),
           \A u \in Speakers : Quiet(wire[u], wire'[u]),
           \A u \in Speakers : Moves(u),
           generator' = generator, owed' = owed, rib' = rib
    PROVE  UpdatesInv'
<1>1. FunInv'
  BY DEF UpdatesInv, FunInv
<1>2. BearInv'
  <2> SUFFICES ASSUME NEW u \in Speakers PROVE Bears(wire'[u], sent'[Other(u)], sent'[u])
    BY DEF BearInv
  <2>0. Other(u) \in Speakers /\ Bears(wire[u], sent[Other(u)], sent[u])
    BY OtherSpeaker DEF UpdatesInv, BearInv
  <2>1. Bears(wire[u], sent'[Other(u)], sent'[u])
    <3>1. CASE sent' = sent
      BY <2>0, <3>1
    <3>2. ASSUME NEW s \in Speakers, NEW open, FirstOpen(s, open)
          PROVE  Bears(wire[u], sent'[Other(u)], sent'[u])
      <4>1. sent[s] = None
        BY <3>2 DEF FirstOpen
      <4>2. s = u \/ s = Other(u)
        <5>1. PICK a \in Speakers, b \in Speakers : a # b /\ Speakers = {a, b}
          BY NegotiationAssumption
        <5> QED BY <5>1, OtherSpeaker
      <4> QED BY <2>0, <4>1, <4>2, BearsFirst
    <3> QED BY <3>1, <3>2
  <2> QED BY <2>1 DEF Quiet
<1>3. GenInv'
  <2> SUFFICES ASSUME NEW u \in Speakers
               PROVE  /\ phase'[u] \notin {"established", "closed"} => generator[u] = Idle
                      /\ phase'[u] = "established" =>
                            generator[u] = Idle \/ Generating(generator[u], negotiated'[u])
    BY DEF GenInv
  <2>1. Moves(u)
    OBVIOUS
  <2> QED BY <2>1 DEF UpdatesInv, GenInv, Moves
<1>4. RibInv'
  <2> SUFFICES ASSUME NEW u \in Speakers, phase'[u] # "closed"
               PROVE  Kept(generator[Other(u)], owed[Other(u)], rib[u], wire'[u])
    BY DEF RibInv
  <2>1. phase[u] # "closed"
    BY DEF Moves
  <2>2. Kept(generator[Other(u)], owed[Other(u)], rib[u], wire[u])
    BY <2>1 DEF UpdatesInv, RibInv
  <2>3. Borne(wire'[u]) = Borne(wire[u])
    BY DEF UpdatesInv, BearInv, Quiet
  <2> QED BY <2>2, <2>3 DEF Kept
<1> QED BY <1>1, <1>2, <1>3, <1>4 DEF UpdatesInv

\* The steps of the OPEN exchange are of that kind: OPEN sent first, ...
LEMMA SendOpenUpdates ==
    ASSUME NegotiationInv, UpdatesInv, NEW s \in Speakers, SendOpen(s)
    PROVE  UpdatesInv'
<1> DEFINE open == NewOpen(conf[s], [as |-> 0])
           m == [type |-> "open", open |-> open]
<1>1. /\ phase[s] = "start" /\ conf[s].local_as # 0 /\ phase' = [phase EXCEPT ![s] = "opensent"]
      /\ sent' = [sent EXCEPT ![s] = open] /\ Put(s, m)
      /\ UNCHANGED <<conf, received, negotiated, msg_size, generator, owed, rib>>
  BY DEF SendOpen, Goto, updating
<1>2. FirstOpen(s, open)
  BY <1>1 DEF FirstOpen, NegotiationInv, PlaceInv
<1>3. open.extended_message = conf[s].extended_message
  BY DEF NewOpen
<1>4. m.type # "update"
  OBVIOUS
<1> HIDE DEF open, m
<1>5. \A u \in Speakers : Quiet(wire[u], wire'[u])
  BY <1>1, <1>4, QuietPut
<1>6. \A u \in Speakers : Moves(u)
  BY <1>1 DEF NegotiationInv, VarsType, Moves
<1>7. SizeInv'
  BY <1>1, <1>3 DEF UpdatesInv, SizeInv, NegotiationInv, VarsType, Validated
<1> QED BY <1>1, <1>2, <1>5, <1>6, <1>7, AloneKeeps

\* ... read by the one that has sent its own, ...
LEMMA ReadOpenUpdates ==
    ASSUME NegotiationInv, UpdatesInv, NEW s \in Speakers, ReadOpen(s)
    PROVE  UpdatesInv'
<1> DEFINE theirs == Head(wire[s]).open
           n == Negotiation(sent[s], theirs)
           m == Said(s, theirs, n)
<1>1. /\ phase[s] = "opensent" /\ wire[s] # <<>> /\ Head(wire[s]).type # "update"
      /\ negotiated' = [negotiated EXCEPT ![s] = n]
      /\ msg_size' = [msg_size EXCEPT ![s] = n.msg_size]
      /\ phase' = [phase EXCEPT ![s] = Onward(s, theirs, n)] /\ Answer(s, m)
      /\ UNCHANGED <<conf, sent, generator, owed, rib>>
  BY DEF ReadOpen, Goto, updating, Arrived
<1>4. m.type # "update" /\ Onward(s, theirs, n) \in {"openconfirm", "closed"}
  BY DEF Said, Keepalive, Notification, Onward
<1> HIDE DEF theirs, n, m
<1>5. \A u \in Speakers : Quiet(wire[u], wire'[u])
  BY <1>1, <1>4, QuietAnswer
<1>6. \A u \in Speakers : Moves(u)
  BY <1>1 DEF NegotiationInv, VarsType, Moves
<1>7. SizeInv'
  BY <1>1, <1>4 DEF UpdatesInv, SizeInv, NegotiationInv, VarsType, Validated
<1> QED BY <1>1, <1>5, <1>6, <1>7, AloneKeeps

\* ... read by the one that mirrors the AS, ...
LEMMA ReadFirstUpdates ==
    ASSUME NegotiationInv, UpdatesInv, NEW s \in Speakers, ReadFirst(s)
    PROVE  UpdatesInv'
<1> DEFINE n == Negotiation(sent[s], Head(wire[s]).open)
<1>1. /\ phase[s] = "start" /\ conf[s].local_as = 0
      /\ wire[s] # <<>> /\ Head(wire[s]).type # "update"
      /\ negotiated' = [negotiated EXCEPT ![s] = n]
      /\ msg_size' = [msg_size EXCEPT ![s] = n.msg_size]
      /\ phase' = [phase EXCEPT ![s] = "mirror"] /\ wire' = [wire EXCEPT ![s] = Tail(@)]
      /\ UNCHANGED <<conf, sent, generator, owed, rib>>
  BY DEF ReadFirst, Goto, updating, Arrived
<1>2. n.msg_size = InitialSize
  BY <1>1 DEF Unset, Negotiation, NegotiationInv, PlaceInv
<1> HIDE DEF n
<1>5. \A u \in Speakers : Quiet(wire[u], wire'[u])
  BY <1>1, QuietTake
<1>6. \A u \in Speakers : Moves(u)
  BY <1>1 DEF NegotiationInv, VarsType, Moves
<1>7. SizeInv'
  BY <1>1, <1>2 DEF UpdatesInv, SizeInv, NegotiationInv, VarsType, Validated
<1> QED BY <1>1, <1>5, <1>6, <1>7, AloneKeeps

\* ... and sent by it.
LEMMA SendSecondUpdates ==
    ASSUME NegotiationInv, UpdatesInv, NEW s \in Speakers, SendSecond(s)
    PROVE  UpdatesInv'
<1> DEFINE open == NewOpen(conf[s], received[s])
           n == Negotiation(open, received[s])
           first == [type |-> "open", open |-> open]
           second == Said(s, received[s], n)
<1>1. /\ phase[s] = "mirror"
      /\ sent' = [sent EXCEPT ![s] = open] /\ negotiated' = [negotiated EXCEPT ![s] = n]
      /\ phase' = [phase EXCEPT ![s] = Onward(s, received[s], n)]
      /\ wire' = [wire EXCEPT ![Other(s)] = Append(Append(@, first), second)]
      /\ UNCHANGED <<conf, msg_size, generator, owed, rib>>
  BY DEF SendSecond, Goto, updating
<1>2. FirstOpen(s, open)
  BY <1>1 DEF FirstOpen, NegotiationInv, PlaceInv
<1>3. open.extended_message = conf[s].extended_message
  BY DEF NewOpen
<1>4. /\ first.type # "update" /\ second.type # "update"
      /\ Onward(s, received[s], n) \in {"openconfirm", "closed"}
  BY DEF Said, Keepalive, Notification, Onward
<1> HIDE DEF open, n, first, second
<1>5. \A u \in Speakers : Quiet(wire[u], wire'[u])
  <2> SUFFICES ASSUME NEW u \in Speakers PROVE Quiet(wire[u], wire'[u])
    OBVIOUS
  <2>1. Quiet(wire[u], wire[u])
    BY DEF Quiet
  <2>2. CASE u = Other(s)
    <3>1. wire'[u] = Append(Append(wire[u], first), second)
      BY <1>1, <2>2, OtherSpeaker DEF NegotiationInv, VarsType
    <3>2. Quiet(wire[u], Append(wire[u], first))
      BY <1>4, <2>1, QuietAppend
    <3>3. Quiet(wire[u], Append(Append(wire[u], first), second))
      BY <1>4, <3>2, QuietAppend
    <3> QED BY <3>1, <3>3
  <2>3. CASE u # Other(s)
    <3>1. wire'[u] = wire[u]
      BY <1>1, <2>3 DEF NegotiationInv, VarsType
    <3> QED BY <2>1, <3>1
  <2> QED BY <2>2, <2>3
<1>6. \A u \in Speakers : Moves(u)
  BY <1>1 DEF NegotiationInv, VarsType, Moves
<1>7. SizeInv'
  BY <1>1, <1>3, <1>4 DEF UpdatesInv, SizeInv, NegotiationInv, VarsType, Validated
<1> QED BY <1>1, <1>2, <1>5, <1>6, <1>7, AloneKeeps

\* A step of an open session, or the end of any, without the updates.
LEMMA LaterUpdates ==
    ASSUME NegotiationInv, UpdatesInv, NEW s \in Speakers,
           \/ phase'= [phase EXCEPT ![s] = "closed"]
           \/ phase[s] = "openconfirm" /\ phase' = [phase EXCEPT ![s] = "established"],
           conf' = conf, conn' = conn, generator' = generator, owed' = owed, rib' = rib,
           \A u \in Speakers : Quiet(wire[u], wire'[u])
    PROVE  UpdatesInv'
<1>1. sent' = sent /\ negotiated' = negotiated /\ msg_size' = msg_size
  BY DEF conn
<1>2. \A u \in Speakers : Moves(u)
  BY <1>1 DEF NegotiationInv, VarsType, Moves
<1>3. SizeInv'
  BY <1>1 DEF UpdatesInv, SizeInv, NegotiationInv, VarsType, Validated
<1> QED BY <1>1, <1>2, <1>3, AloneKeeps

---------------------------------------------------------------------------
(* The updates: the steps that send and read them.                         *)

\* What an open speaker knows: both OPEN, and what it negotiated from them.
LEMMA Established ==
    ASSUME NegotiationInv, NEW s \in Speakers, phase[s] = "established"
    PROVE  /\ sent[s] \in Open /\ sent[s] # None
           /\ sent[Other(s)] \in Open /\ sent[Other(s)] # None
           /\ negotiated[s] = Negotiate(sent[s], sent[Other(s)])
           /\ negotiated[s].msg_size \in Nat /\ negotiated[s].msg_size >= InitialSize
<1>1. /\ sent[s] # None /\ received[s] # None /\ received[s] = sent[Other(s)]
      /\ negotiated[s] = Negotiate(sent[s], received[s])
      /\ sent[s] \in Open /\ received[s] \in Open
  BY DEF NegotiationInv, VarsType, HeardInv, Validated
<1>2. negotiated[s].msg_size \in {InitialSize, ExtendedSize}
  BY <1>1 DEF Negotiate
<1> QED BY <1>1, <1>2, NegotiationAssumption

\* A new generator holds all that is handed over to it, in messages that fit, ...
LEMMA StartUpdatesKeeps ==
    ASSUME RoutesFit, NegotiationInv, UpdatesInv, NEW s \in Speakers, StartUpdates(s)
    PROVE  UpdatesInv'
<1> DEFINE n == negotiated[s]
           t == Other(s)
<1>0. t \in Speakers /\ t # s /\ Other(t) = s
  BY OtherSpeaker
<1>1. /\ phase[s] = "established" /\ generator[s] = Idle
      /\ UNCHANGED <<conf, phase, sent, received, negotiated, msg_size, wire, rib>>
  BY DEF StartUpdates, conn
<1>2. PICK b \in Batches : \E q, m :
         /\ q = HandedOver(n, b)
         /\ m = messages(n.msg_size, b.attrs, n.send[b.family], q)
         /\ generator' = [generator EXCEPT ![s] =
                [out |-> m.out, raised |-> m.raised, family |-> b.family]]
         /\ owed' = [owed EXCEPT ![s] = @ \union ToSet(q)]
  BY DEF StartUpdates
<1>3. PICK q, m :
         /\ q = HandedOver(n, b)
         /\ m = messages(n.msg_size, b.attrs, n.send[b.family], q)
         /\ generator' = [generator EXCEPT ![s] =
                [out |-> m.out, raised |-> m.raised, family |-> b.family]]
         /\ owed' = [owed EXCEPT ![s] = @ \union ToSet(q)]
  BY <1>2
<1> DEFINE R == ToSet(q)
           g == [out |-> m.out, raised |-> m.raised, family |-> b.family]
<1>4. /\ q \in Seq(R) /\ R \subseteq AllRoutes /\ Routes(R) /\ b.attrs \in Nat
      /\ b.family \notin n.families => q = <<>>
      /\ \A r \in R : Fits(r, b.attrs, InitialSize)
  <2>1. RoutesFit
    OBVIOUS
  <2> QED BY <1>3, <2>1, HandedOverType
<1>5. n.msg_size \in Nat /\ n.msg_size >= InitialSize /\ n.send[b.family] \in BOOLEAN
  <2>1. b.family \in Families
    BY NegotiationAssumption DEF Batch
  <2>2. n = Negotiate(sent[s], sent[t]) /\ n.msg_size \in Nat /\ n.msg_size >= InitialSize
    BY <1>1, Established
  <2>3. n.send = SendPaths(sent[s], sent[t])
    BY <2>2 DEF Negotiate
  <2> HIDE DEF n
  <2>4. SendPaths(sent[s], sent[t])[b.family] \in BOOLEAN
    BY <2>1 DEF SendPaths
  <2> QED BY <2>2, <2>3, <2>4
<1>6. \A r \in R : Fits(r, b.attrs, n.msg_size)
  <2> SUFFICES ASSUME NEW r \in R PROVE Fits(r, b.attrs, n.msg_size)
    OBVIOUS
  <2>1. Fits(r, b.attrs, InitialSize) /\ r.octets \in Nat \ {0} /\ r.reach \in BOOLEAN
    BY <1>4 DEF Routes
  <2>2. ReachHeader + r.octets + PathId \in Nat
    BY <2>1, PackingAssumption
  <2>3. AttrLen(ReachHeader + r.octets + PathId) \in Nat
    BY ONLY <2>2, AttrLenType
  <2> DEFINE need == IF r.reach THEN AttrLen(ReachHeader + r.octets + PathId) ELSE r.octets + PathId
  <2>4. need \in Nat /\ Header + b.attrs + need <= InitialSize
    BY <2>1, <2>3, PackingAssumption DEF Fits
  <2>5. (Header + b.attrs + need <= n.msg_size) => Fits(r, b.attrs, n.msg_size)
    BY DEF Fits
  <2> HIDE DEF need, n
  <2>6. Header + b.attrs + need <= n.msg_size
    <3>1. Header \in Nat /\ InitialSize \in Nat
      BY PackingAssumption, NegotiationAssumption
    <3> QED BY ONLY <1>4, <1>5, <2>4, <3>1
  <2> QED BY <2>5, <2>6
<1> HIDE DEF n
<1>7. /\ m.out \in Seq(Parts(R)) /\ Within(m.out, n.msg_size) /\ m.raised \in BOOLEAN
      /\ m.raised = FALSE => In(m.out) = R
  <2> DEFINE size == n.msg_size
             attrs == b.attrs
             pathids == n.send[b.family]
  <2>1. /\ ToSet(q) = R /\ m = messages(size, attrs, pathids, q)
        /\ size \in Nat /\ attrs \in Nat /\ pathids \in BOOLEAN
        /\ \A r \in R : Fits(r, attrs, size)
    BY <1>3, <1>4, <1>5, <1>6
  <2> HIDE DEF R, size, attrs, pathids
  <2>2. Packed(m, R, size)
    BY ONLY <1>4, <2>1, PackingCarries
  <2> QED BY <2>2 DEF Packed, size
<1>8. q = <<>> => m.out = <<>>
  BY <1>3 DEF messages
<1>9. Generating(g, n)
  <2>1. Parts(R) \subseteq Parts(AllRoutes)
    BY <1>4 DEF Parts
  <2>2. m.out \in Seq(Parts(AllRoutes))
    BY <1>7, <2>1, SeqGrows
  <2>3. g # Idle
    <3>1. DOMAIN g # DOMAIN Idle
      BY DEF Idle
    <3> QED BY <3>1
  <2> QED BY <1>4, <1>7, <1>8, <2>2, <2>3 DEF Generating
<1>10. /\ generator'[s] = g /\ owed'[s] = owed[s] \union R
       /\ \A u \in Speakers : u # s => generator'[u] = generator[u] /\ owed'[u] = owed[u]
       /\ OfSpeakers(generator') /\ OfSpeakers(owed') /\ OfSpeakers(rib')
  BY <1>1, <1>3 DEF UpdatesInv, FunInv, OfSpeakers
<1> HIDE DEF g, R
<1>11. FunInv' /\ SizeInv' /\ BearInv'
  BY <1>1, <1>10 DEF UpdatesInv, FunInv, OfSpeakers, SizeInv, BearInv
<1>12. GenInv'
  BY <1>1, <1>9, <1>10 DEF UpdatesInv, GenInv, n
<1>13. RibInv'
  <2> SUFFICES ASSUME NEW u \in Speakers, phase[u] # "closed"
               PROVE  Kept(generator'[Other(u)], owed'[Other(u)], rib[u], wire[u])
    BY <1>1 DEF RibInv
  <2>1. Other(u) \in Speakers /\ Kept(generator[Other(u)], owed[Other(u)], rib[u], wire[u])
    BY OtherSpeaker DEF UpdatesInv, RibInv
  <2>2. CASE Other(u) = s
    <3>1. owed[s] = rib[u] \union Borne(wire[u])
      BY <1>1, <2>1, <2>2 DEF Kept, Raised, Left
    <3>2. g.raised = TRUE \/ Left(g) = R
      BY <1>7, <1>9 DEF Left, g, Generating
    <3>3. Kept(g, owed[s] \union R, rib[u], wire[u])
      BY <1>9, <3>1, <3>2 DEF Kept, Raised, Generating
    <3> QED BY <1>10, <2>2, <3>3
  <2>3. CASE Other(u) # s
    BY <1>10, <2>1, <2>3
  <2> QED BY <2>2, <2>3
<1> QED BY <1>11, <1>12, <1>13 DEF UpdatesInv

\* A generator that sent one more.
LEMMA GeneratingRest ==
    ASSUME NEW g, NEW n, Generating(g, n), g.out # <<>>,
           NEW h, h = [out |-> Tail(g.out), raised |-> g.raised, family |-> g.family]
    PROVE  /\ Generating(h, n) /\ (Raised(g) => Raised(h))
           /\ Left(g) = Head(g.out).routes \union Left(h)
           /\ Head(g.out).octets <= n.msg_size
<1>1. /\ g.out \in Seq(Parts(AllRoutes)) /\ g.raised \in BOOLEAN /\ g # Idle
      /\ Within(g.out, n.msg_size) /\ g.family \in n.families
  BY DEF Generating
<1>2. /\ Tail(g.out) \in Seq(Parts(AllRoutes))
      /\ In(g.out) = Head(g.out).routes \union In(Tail(g.out))
      /\ Head(g.out).octets <= n.msg_size /\ Within(Tail(g.out), n.msg_size)
  BY <1>1, InRest
<1>3. h # Idle
  <2>1. DOMAIN h # DOMAIN Idle
    BY DEF Idle
  <2> QED BY <2>1
<1>4. h.out = Tail(g.out) /\ h.raised = g.raised /\ h.family = g.family
  OBVIOUS
<1>5. h = [out |-> h.out, raised |-> h.raised, family |-> h.family]
  BY <1>4
<1>6. Generating(h, n)
  BY <1>1, <1>2, <1>3, <1>4, <1>5 DEF Generating
<1> QED BY <1>1, <1>2, <1>3, <1>4, <1>6 DEF Raised, Left

\* ... each of which moves from the generator to the wire, ...
LEMMA SendUpdateKeeps ==
    ASSUME NegotiationInv, UpdatesInv, NEW s \in Speakers, SendUpdate(s)
    PROVE  UpdatesInv'
<1> DEFINE n == negotiated[s]
           t == Other(s)
           g == generator[s]
           m == [type |-> "update", family |-> g.family, pathids |-> n.send[g.family],
                 routes |-> Head(g.out).routes, octets |-> Head(g.out).octets]
           h == [out |-> Tail(g.out), raised |-> g.raised, family |-> g.family]
<1>0. t \in Speakers /\ t # s /\ Other(t) = s
  BY OtherSpeaker
<1>1. /\ phase[s] = "established" /\ g # Idle /\ g.out # <<>>
      /\ wire' = [wire EXCEPT ![t] = Append(@, m)]
      /\ generator' = [generator EXCEPT ![s].out = Tail(@)]
      /\ UNCHANGED <<conf, phase, sent, received, negotiated, msg_size, owed, rib>>
  BY DEF SendUpdate, conn, Put
<1>2. Generating(g, n)
  BY <1>1 DEF UpdatesInv, GenInv
<1>3. /\ Generating(h, n) /\ (Raised(g) => Raised(h))
      /\ Left(g) = Head(g.out).routes \union Left(h)
      /\ Head(g.out).octets <= n.msg_size
  <2> HIDE DEF n, g
  <2> QED BY <1>1, <1>2, GeneratingRest
<1>4. [g EXCEPT !.out = Tail(g.out)] = h
  <2>1. g = [out |-> g.out, raised |-> g.raised, family |-> g.family]
    BY <1>2 DEF Generating
  <2> HIDE DEF g
  <2>2. PICK a, b, c : g = [out |-> a, raised |-> b, family |-> c]
    BY <2>1
  <2>3. g.out = a /\ g.raised = b /\ g.family = c
    BY <2>2
  <2> DEFINE rest == Tail(g.out)
  <2> HIDE DEF rest
  <2>4. [g EXCEPT !.out = rest] = [out |-> rest, raised |-> b, family |-> c]
    BY <2>2
  <2> QED BY <2>3, <2>4 DEF rest
<1>5. /\ generator'[s] = h
      /\ \A u \in Speakers : u # s => generator'[u] = generator[u]
      /\ OfSpeakers(generator') /\ OfSpeakers(owed') /\ OfSpeakers(rib')
  BY <1>1, <1>4 DEF UpdatesInv, FunInv, OfSpeakers
<1>6. wire'[t] = Append(wire[t], m) /\ \A u \in Speakers : u # t => wire'[u] = wire[u]
  BY <1>0, <1>1 DEF NegotiationInv, VarsType
<1>7. Sound(m, sent[s], sent[t])
  <2>1. sent[s] # None /\ sent[t] # None /\ n = Negotiate(sent[s], sent[t])
    BY <1>1, Established
  <2>2. m.octets <= n.msg_size /\ m.family \in n.families /\ m.pathids = n.send[m.family]
    BY <1>1, <1>2, <1>3 DEF Generating
  <2> HIDE DEF n, m
  <2> QED BY <2>1, <2>2 DEF Sound
<1>8. m.type = "update" /\ m.routes = Head(g.out).routes
  OBVIOUS
<1> HIDE DEF m, h, n, g
<1>9. FunInv' /\ SizeInv'
  BY <1>1, <1>5 DEF UpdatesInv, FunInv, OfSpeakers, SizeInv
<1>10. BearInv'
  <2> SUFFICES ASSUME NEW u \in Speakers PROVE Bears(wire'[u], sent[Other(u)], sent[u])
    BY <1>1 DEF BearInv
  <2>1. Bears(wire[u], sent[Other(u)], sent[u])
    BY DEF UpdatesInv, BearInv
  <2>2. CASE u = t
    <3>1. Bears(Append(wire[u], m), sent[Other(u)], sent[u])
      BY <1>0, <1>7, <2>1, <2>2, BearsMore
    <3> QED BY <1>6, <2>2, <3>1
  <2>3. CASE u # t
    BY <1>6, <2>1, <2>3
  <2> QED BY <2>2, <2>3
<1>11. GenInv'
  BY <1>1, <1>3, <1>5 DEF UpdatesInv, GenInv, n
<1>12. RibInv'
  <2> SUFFICES ASSUME NEW u \in Speakers, phase[u] # "closed"
               PROVE  Kept(generator'[Other(u)], owed[Other(u)], rib[u], wire'[u])
    BY <1>1 DEF RibInv
  <2>1. Other(u) \in Speakers /\ Kept(generator[Other(u)], owed[Other(u)], rib[u], wire[u])
    BY OtherSpeaker DEF UpdatesInv, RibInv
  <2>2. CASE u = t
    <3>1. Kept(g, owed[s], rib[u], wire[u])
      BY <1>0, <2>1, <2>2 DEF g
    <3>2. PICK S : wire[u] \in Seq(S)
      BY DEF UpdatesInv, BearInv, Bears
    <3>3. Borne(Append(wire[u], m)) = Borne(wire[u]) \union m.routes
      BY <1>8, <3>2, BorneMore
    <3>4. Kept(h, owed[s], rib[u], Append(wire[u], m))
      BY <1>3, <1>8, <3>1, <3>3 DEF Kept
    <3> QED BY <1>0, <1>5, <1>6, <2>2, <3>4
  <2>3. CASE u # t
    <3>1. Other(u) # s
      BY <1>0, <2>3, OtherSpeaker
    <3> QED BY <1>5, <1>6, <2>1, <2>3, <3>1
  <2> QED BY <2>2, <2>3
<1> QED BY <1>9, <1>10, <1>11, <1>12 DEF UpdatesInv

\* ... until none is left.
LEMMA EndUpdatesKeeps ==
    ASSUME NegotiationInv, UpdatesInv, NEW s \in Speakers, EndUpdates(s)
    PROVE  UpdatesInv'
<1> DEFINE g == generator[s]
<1>1. /\ phase[s] = "established" /\ g # Idle /\ g.out = <<>> /\ ~g.raised
      /\ generator' = [generator EXCEPT ![s] = Idle]
      /\ UNCHANGED <<conf, phase, sent, received, negotiated, msg_size, wire, owed, rib>>
  BY DEF EndUpdates, conn
<1>2. /\ generator'[s] = Idle
      /\ \A u \in Speakers : u # s => generator'[u] = generator[u]
      /\ OfSpeakers(generator') /\ OfSpeakers(owed') /\ OfSpeakers(rib')
  BY <1>1 DEF UpdatesInv, FunInv, OfSpeakers
<1>3. ~Raised(g) /\ Left(g) = {}
  BY <1>1 DEF Raised, Left, In
<1> HIDE DEF g
<1>4. FunInv' /\ SizeInv' /\ BearInv'
  BY <1>1, <1>2 DEF UpdatesInv, FunInv, OfSpeakers, SizeInv, BearInv
<1>5. GenInv'
  BY <1>1, <1>2 DEF UpdatesInv, GenInv
<1>6. RibInv'
  <2> SUFFICES ASSUME NEW u \in Speakers, phase[u] # "closed"
               PROVE  Kept(generator'[Other(u)], owed[Other(u)], rib[u], wire[u])
    BY <1>1 DEF RibInv
  <2>1. Other(u) \in Speakers /\ Kept(generator[Other(u)], owed[Other(u)], rib[u], wire[u])
    BY OtherSpeaker DEF UpdatesInv, RibInv
  <2>2. CASE Other(u) = s
    <3>1. owed[s] = rib[u] \union Borne(wire[u])
      BY <1>3, <2>1, <2>2 DEF Kept, g
    <3>2. Kept(Idle, owed[s], rib[u], wire[u])
      BY <3>1 DEF Kept, Left
    <3> QED BY <1>2, <2>2, <3>2
  <2>3. CASE Other(u) # s
    BY <1>2, <2>1, <2>3
  <2> QED BY <2>2, <2>3
<1> QED BY <1>4, <1>5, <1>6 DEF UpdatesInv

\* What is read moves from the wire to the rib; an UPDATE too long for the reader
\* ends the session.
LEMMA ReadUpdateKeeps ==
    ASSUME NegotiationInv, UpdatesInv, NEW s \in Speakers, ReadUpdate(s)
    PROVE  UpdatesInv'
<1> DEFINE t == Other(s)
           m == Head(wire[s])
<1>0. t \in Speakers /\ t # s /\ Other(t) = s
  BY OtherSpeaker
<1>1. /\ phase[s] = "established" /\ wire[s] # <<>> /\ m.type = "update"
      /\ UNCHANGED <<conf, sent, received, negotiated, msg_size, generator, owed>>
  BY DEF ReadUpdate, Arrived, conn
<1>2. /\ \A u \in Speakers : Bears(wire[u], sent[Other(u)], sent[u])
      /\ Bears(Tail(wire[s]), sent[Other(s)], sent[s])
  BY <1>1, BearsRest DEF UpdatesInv, BearInv
<1>3. OfSpeakers(generator) /\ OfSpeakers(owed) /\ OfSpeakers(rib)
  BY DEF UpdatesInv, FunInv
<1>4. CASE m.octets <= msg_size[s]
  <2>1. /\ rib' = [rib EXCEPT ![s] = @ \union m.routes] /\ phase' = phase
        /\ wire' = [wire EXCEPT ![s] = Tail(@)]
    BY <1>4 DEF ReadUpdate
  <2>2. /\ rib'[s] = rib[s] \union m.routes /\ wire'[s] = Tail(wire[s])
        /\ \A u \in Speakers : u # s => rib'[u] = rib[u] /\ wire'[u] = wire[u]
        /\ OfSpeakers(rib')
    BY <1>3, <2>1 DEF OfSpeakers, NegotiationInv, VarsType
  <2> HIDE DEF m
  <2>3. FunInv' /\ SizeInv' /\ GenInv'
    BY <1>1, <1>3, <2>1, <2>2 DEF UpdatesInv, FunInv, SizeInv, GenInv
  <2>4. BearInv'
    BY <1>1, <1>2, <2>2 DEF BearInv
  <2>5. RibInv'
    <3> SUFFICES ASSUME NEW u \in Speakers, phase[u] # "closed"
                 PROVE  Kept(generator[Other(u)], owed[Other(u)], rib'[u], wire'[u])
      BY <1>1, <2>1 DEF RibInv
    <3>1. Kept(generator[Other(u)], owed[Other(u)], rib[u], wire[u])
      BY DEF UpdatesInv, RibInv
    <3>2. CASE u = s
      <4>1. PICK S : wire[s] \in Seq(S)
        BY <1>2 DEF Bears
      <4>2. Borne(wire[s]) = m.routes \union Borne(Tail(wire[s]))
        BY <1>1, <4>1, BorneRest DEF m
      <4> QED BY <2>2, <3>1, <3>2, <4>2 DEF Kept
    <3>3. CASE u # s
      BY <2>2, <3>1, <3>3
    <3> QED BY <3>2, <3>3
  <2> QED BY <2>3, <2>4, <2>5 DEF UpdatesInv
<1>5. CASE ~(m.octets <= msg_size[s])
  <2>1. /\ Answer(s, Notification) /\ phase' = [phase EXCEPT ![s] = "closed"] /\ rib' = rib
    BY <1>5 DEF ReadUpdate, Goto
  <2>2. /\ wire'[s] = Tail(wire[s]) /\ wire'[t] = Append(wire[t], Notification)
        /\ \A u \in Speakers : u # s /\ u # t => wire'[u] = wire[u]
        /\ phase'[s] = "closed" /\ \A u \in Speakers : u # s => phase'[u] = phase[u]
    BY <1>0, <2>1 DEF NegotiationInv, VarsType, Answer
  <2>3. Quiet(wire[t], wire'[t])
    <3>1. Quiet(wire[t], wire[t]) /\ Notification.type # "update"
      BY DEF Quiet, Notification
    <3> QED BY <2>2, <3>1, QuietAppend
  <2> HIDE DEF m
  <2>4. FunInv' /\ SizeInv' /\ GenInv'
    BY <1>1, <1>3, <2>1, <2>2 DEF UpdatesInv, FunInv, SizeInv, GenInv, Validated
  <2>5. BearInv'
    <3> SUFFICES ASSUME NEW u \in Speakers PROVE Bears(wire'[u], sent[Other(u)], sent[u])
      BY <1>1 DEF BearInv
    <3>1. CASE u = s
      BY <1>2, <2>2, <3>1
    <3>2. CASE u = t
      BY <1>2, <2>3, <3>2 DEF Quiet
    <3>3. CASE u # s /\ u # t
      BY <1>2, <2>2, <3>3
    <3> QED BY <3>1, <3>2, <3>3
  <2>6. RibInv'
    <3> SUFFICES ASSUME NEW u \in Speakers, u # s, phase[u] # "closed"
                 PROVE  Kept(generator[Other(u)], owed[Other(u)], rib[u], wire'[u])
      BY <1>1, <2>1, <2>2 DEF RibInv
    <3>1. Kept(generator[Other(u)], owed[Other(u)], rib[u], wire[u])
      BY DEF UpdatesInv, RibInv
    <3>2. Borne(wire'[u]) = Borne(wire[u])
      BY <1>2, <2>2, <2>3 DEF Quiet
    <3> QED BY <3>1, <3>2 DEF Kept
  <2> QED BY <2>4, <2>5, <2>6 DEF UpdatesInv
<1> QED BY <1>4, <1>5

\* Every step of a speaker keeps the invariant of the updates.
LEMMA StepUpdates ==
    ASSUME RoutesFit, NegotiationInv, UpdatesInv, NEW s \in Speakers, Step(s)
    PROVE  UpdatesInv'
<1>1. CASE SendOpen(s)
  BY <1>1, SendOpenUpdates
<1>2. CASE ReadOpen(s)
  BY <1>2, ReadOpenUpdates
<1>3. CASE ReadFirst(s)
  BY <1>3, ReadFirstUpdates
<1>4. CASE SendSecond(s)
  BY <1>4, SendSecondUpdates
<1>5. CASE ReadKeepalive(s)
  <2>1. \A u \in Speakers : Quiet(wire[u], wire'[u])
    BY <1>5, QuietTake DEF ReadKeepalive, Arrived
  <2>2. /\ phase[s] = "openconfirm" /\ phase' = [phase EXCEPT ![s] = "established"]
        /\ UNCHANGED <<conf, conn, generator, owed, rib>>
    BY <1>5 DEF ReadKeepalive, Goto, updating
  <2> QED BY <2>1, <2>2, LaterUpdates
<1>6. CASE ReadNotification(s)
  <2>1. \A u \in Speakers : Quiet(wire[u], wire'[u])
    BY <1>6, QuietTake DEF ReadNotification, Arrived
  <2>2. /\ phase' = [phase EXCEPT ![s] = "closed"]
        /\ UNCHANGED <<conf, conn, generator, owed, rib>>
    BY <1>6 DEF ReadNotification, Goto, updating
  <2> QED BY <2>1, <2>2, LaterUpdates
<1>7. CASE StartUpdates(s)
  BY <1>7, StartUpdatesKeeps
<1>8. CASE SendUpdate(s)
  BY <1>8, SendUpdateKeeps
<1>9. CASE EndUpdates(s)
  BY <1>9, EndUpdatesKeeps
<1>10. CASE RaiseUpdates(s)
  <2>1. \A u \in Speakers : Quiet(wire[u], wire'[u])
    BY <1>10, QuietPut DEF RaiseUpdates, Notification
  <2>2. /\ phase' = [phase EXCEPT ![s] = "closed"]
        /\ UNCHANGED <<conf, conn, generator, owed, rib>>
    BY <1>10 DEF RaiseUpdates, Goto
  <2> QED BY <2>1, <2>2, LaterUpdates
<1>11. CASE ReadUpdate(s)
  BY <1>11, ReadUpdateKeeps
<1> QED BY <1>1, <1>2, <1>3, <1>4, <1>5, <1>6, <1>7, <1>8, <1>9, <1>10, <1>11 DEF Step

\* The invariant behind the theorems below: the updates are kept from the collection
\* to the other speaker, where every route fits a message.
THEOREM UpdatesSafe == ASSUME RoutesFit PROVE NegotiationSpec => []UpdatesInv
<1>1. NegotiationInit => UpdatesInv
  BY InitUpdates
<1>2. NegotiationInv /\ UpdatesInv /\ [NegotiationNext]_negotiationVars => UpdatesInv'
  <2> SUFFICES ASSUME NegotiationInv, UpdatesInv, [NegotiationNext]_negotiationVars
               PROVE  UpdatesInv'
    OBVIOUS
  <2>1. CASE NegotiationNext
    BY <2>1, StepUpdates DEF NegotiationNext
  <2>2. CASE UNCHANGED negotiationVars
    BY <2>2 DEF negotiationVars, conn, updating, UpdatesInv, FunInv, OfSpeakers, SizeInv,
                BearInv, GenInv, RibInv
  <2> QED BY <2>1, <2>2
<1> QED BY <1>1, <1>2, NegotiationSafe, PTL DEF NegotiationSpec

\* Where every route fits a message of the usual size, every route handed over to
\* an open session is with the other speaker once nothing is on its way, whatever
\* the batches, the sizes and what was negotiated.
THEOREM UpdatesCarried == ASSUME RoutesFit PROVE NegotiationSpec => []Carried
<1>1. UpdatesInv => Carried
  <2> SUFFICES ASSUME UpdatesInv, NEW s \in Speakers, phase[s] = "established",
                      wire[s] = <<>>, generator[Other(s)] = Idle
               PROVE  rib[s] = owed[Other(s)]
    BY DEF Carried
  <2>1. Kept(generator[Other(s)], owed[Other(s)], rib[s], wire[s])
    BY DEF UpdatesInv, RibInv
  <2> QED BY <2>1, BorneNothing DEF Kept, Raised, Left
<1> QED BY <1>1, UpdatesSafe, PTL

\* Where, besides, no speaker that copies the AS of the other has large messages,
\* no update is longer than its reader takes, or of a family or with path
\* identifiers that its reader does not expect.
THEOREM UpdatesUnderstood ==
    ASSUME RoutesFit, MirrorsPlain PROVE NegotiationSpec => []Understood
<1>1. NegotiationInv /\ UpdatesInv => Understood
  <2> SUFFICES ASSUME NegotiationInv, UpdatesInv, NEW s \in Speakers, phase[s] = "established",
                      Arrived(s, "update")
               PROVE  LET m == Head(wire[s]) IN
                      /\ m.octets <= msg_size[s]
                      /\ m.family \in negotiated[s].families
                      /\ m.pathids = negotiated[s].receive[m.family]
    BY DEF Understood
  <2> DEFINE m == Head(wire[s])
             ours == sent[s]
             theirs == sent[Other(s)]
  <2>0. Other(s) \in Speakers
    BY OtherSpeaker
  <2>1. Sound(m, theirs, ours)
    BY BearsRest DEF Arrived, UpdatesInv, BearInv
  <2>2. /\ ours \in Open /\ theirs \in Open /\ ours # None /\ theirs # None
        /\ negotiated[s] = Negotiate(ours, theirs)
    BY Established
  <2>3. Mirrored(Negotiate(theirs, ours), Negotiate(ours, theirs))
    BY <2>2, NegotiateMirrors
  <2>4. msg_size[s] = negotiated[s].msg_size
    <3>1. msg_size[s] = IF conf[s].local_as = 0 THEN InitialSize ELSE negotiated[s].msg_size
      BY DEF UpdatesInv, SizeInv, Validated
    <3>2. CASE conf[s].local_as = 0
      <4>1. ours.extended_message = conf[s].extended_message
            /\ theirs.extended_message = conf[Other(s)].extended_message
        BY <2>0, <2>2 DEF UpdatesInv, SizeInv
      <4>2. conf \in Configs
        BY DEF NegotiationInv, VarsType
      <4>3. ~(conf[s].extended_message /\ conf[Other(s)].extended_message)
        BY <3>2, <4>2 DEF MirrorsPlain
      <4>4. ~(ours.extended_message /\ theirs.extended_message)
        BY <4>1, <4>3
      <4>5. negotiated[s].msg_size = InitialSize
        BY <2>2, <4>4 DEF Negotiate
      <4> QED BY <3>1, <3>2, <4>5
    <3> QED BY <3>1, <3>2
  <2> HIDE DEF m, ours, theirs
  <2>5. /\ m.octets <= msg_size[s]
        /\ m.family \in negotiated[s].families
        /\ m.pathids = negotiated[s].receive[m.family]
    BY <2>1, <2>2, <2>3, <2>4 DEF Sound, Mirrored
  <2> QED BY <2>5 DEF m
<1> QED BY <1>1, NegotiationSafe, UpdatesSafe, PTL
=============================================================================
