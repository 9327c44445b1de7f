---------------------------- MODULE UpdatePacking ----------------------------
(***************************************************************************)
(* How the announces of one collection are cut into UPDATE messages        *)
(* (UpdateCollection.messages, MPNLRICollection.packed_reach_attributes).  *)
(*                                                                         *)
(* A route is packed after the attributes when its next-hop is an IPv4     *)
(* one, or inside an MP_REACH_NLRI attribute of the same message.  Sizes   *)
(* are in units of the model: only their sums and their limits matter.     *)
(***************************************************************************)
EXTENDS Naturals, Sequences, SequencesExt

CONSTANTS
    Header,         \* BGP header and the two lengths of an UPDATE, 23 octets
    PathId,         \* the path identifier of ADD-PATH, 4 octets
    ReachHeader,    \* AFI, SAFI and next-hop at the head of MP_REACH_NLRI
    ShortAttribute  \* longest attribute whose length is one octet, 255

ASSUME PackingAssumption ==
    {Header, PathId, ReachHeader, ShortAttribute} \subseteq Nat

\* One route, as the peer is about to receive it: with its path identifier if
\* ADD-PATH is to be sent for its family.
PackedSize(route, pathids) == route.octets + IF pathids THEN PathId ELSE 0

\* An attribute of so many octets, with its flags, code and length.
AttrLen(octets) == octets + IF octets > ShortAttribute THEN 4 ELSE 3

Message(routes, octets) == [routes |-> routes, octets |-> octets]

NoChunk == [out |-> <<>>, routes |-> {}, octets |-> 0, loop |-> "runs"]

\* What is left of a message for routes.
\* A bug of the packing for the mutants: the attributes take no room.
Room_NoAttributes(size, attrs) == size - Header
Room(size, attrs) == size - Header - attrs

(* One more route: it joins the chunk if there is room for what that needs, *)
(* else the chunk goes out and the route starts the next one, but for a     *)
(* route that fits no chunk.                                                *)
\* A bug of the packing for the mutants: the route that did not fit is lost.
Add_Lost(chunk, route, size, needed, room, part) ==
    CASE chunk.loop = "ended" -> chunk
      [] chunk.loop = "runs" /\ needed <= room ->
            [chunk EXCEPT !.routes = @ \union {route}, !.octets = @ + size]
      [] chunk.loop = "runs" /\ needed > room /\ chunk.routes = {} -> [chunk EXCEPT !.loop = "ended"]
      [] OTHER -> [chunk EXCEPT !.out = Append(@, part), !.routes = {}, !.octets = 0]

Add(chunk, route, size, needed, room, part) ==
    CASE chunk.loop = "ended" -> chunk
      [] chunk.loop = "runs" /\ needed <= room ->
            [chunk EXCEPT !.routes = @ \union {route}, !.octets = @ + size]
      [] chunk.loop = "runs" /\ needed > room /\ chunk.routes = {} -> [chunk EXCEPT !.loop = "ended"]
      [] OTHER -> [chunk EXCEPT !.out = Append(@, part), !.routes = {route}, !.octets = size]

\* The loop over v4_announces; a route that fits no message ends the generator.
AddPlain(attrs, room, pathids, chunk, route) ==
    LET size == PackedSize(route, pathids) IN
    Add(chunk, route, size, chunk.octets + size, room,
        Message(chunk.routes, Header + attrs + chunk.octets))

\* packed_reach_attributes; a route that fits no attribute makes it raise.
AddReach(maximum, pathids, chunk, route) ==
    LET size == PackedSize(route, pathids) IN
    Add(chunk, route, size, AttrLen(ReachHeader + chunk.octets + size), maximum,
        Message(chunk.routes, chunk.octets))

\* Where a route goes in a message.
Field(route) == IF route.reach THEN "mp_reach" ELSE "nlri"

\* One turn of the loop over the routes of one field.
Turn(field, attrs, room, pathids, chunk, route) ==
    IF Field(route) # field THEN chunk
    ELSE IF field = "nlri" THEN AddPlain(attrs, room, pathids, chunk, route)
    ELSE AddReach(room, pathids, chunk, route)

\* What the loop leaves after the last of the routes.
Chunks(field, attrs, room, pathids, routes) ==
    LET after[i \in 0..Len(routes)] ==
            IF i = 0 THEN NoChunk
            ELSE LET before == after[i - 1] IN Turn(field, attrs, room, pathids, before, routes[i])
    IN  after[Len(routes)]

\* What a loop leaves over is one message, or one part, more.
WithRest(out, chunk, octets) ==
    IF chunk.routes = {} THEN out ELSE Append(out, Message(chunk.routes, octets))

\* The MP_REACH_NLRI attributes, each in a message; the first takes the plain
\* routes left over as well.
Reaching(attrs, plain, parts) ==
    [i \in DOMAIN parts |->
        LET again == IF i = 1 THEN plain ELSE NoChunk IN
        Message(parts[i].routes \union again.routes,
                Header + attrs + AttrLen(ReachHeader + parts[i].octets) + again.octets)]

(* messages(): what is sent, and whether the generator raised.  The plain   *)
(* routes left over are sent in a message of their own, and again, as       *)
(* announced is not emptied, with the first MP_REACH_NLRI, whose room they  *)
(* take.                                                                    *)
messages(size, attrs, pathids, announces) ==
    LET room == Room(size, attrs)
        plain == Chunks("nlri", attrs, room, pathids, announces)
        parts == Chunks("mp_reach", attrs, room - plain.octets, pathids, announces)
    IN  IF size <= Header + attrs \/ announces = <<>> THEN [out |-> <<>>, raised |-> FALSE]
        ELSE IF plain.loop = "ended" THEN [out |-> plain.out, raised |-> FALSE]
        ELSE [out |-> WithRest(plain.out, plain, Header + attrs + plain.octets)
                        \o Reaching(attrs, plain, WithRest(parts.out, parts, parts.octets)),
              raised |-> parts.loop = "ended"]

\* A message of that size holds the attributes and the route, even alone in
\* MP_REACH_NLRI and with a path identifier.
Fits(route, attrs, size) ==
    Header + attrs + (IF route.reach THEN AttrLen(ReachHeader + route.octets + PathId)
                      ELSE route.octets + PathId) <= size
=============================================================================
