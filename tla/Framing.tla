------------------------------- MODULE Framing -------------------------------
(***************************************************************************)
(* How BGP messages are cut out of the octets of a TCP connection:         *)
(* Connection.reader_async and the two _reader_async it awaits, called by  *)
(* the loop of Peer._main under a wait_for of 0.1 second that cancels the  *)
(* read wherever it is, inside a message too.  Octets are numbered from 1: *)
(* message k is those after End[k - 1] up to End[k], a header and perhaps  *)
(* a body.                                                                 *)
(***************************************************************************)
EXTENDS Integers, Sequences

CONSTANTS
    N,          \* how many messages the remote speaker sends
    HeaderLen,  \* octets of a header
    End         \* End[k] is the last octet of message k

ASSUME FramingAssumption ==
    /\ N \in Nat
    /\ HeaderLen \in Nat \ {0}
    /\ End \in [0..N -> Nat]
    /\ End[0] = 0
    /\ \A j, k \in 0..N : j < k => End[j] + HeaderLen <= End[k]

VARIABLES
    arrived,    \* octets that reached the socket
    fin,        \* the remote speaker has closed the connection
    taken,      \* octets copied out of the socket
    stage,      \* what the task is doing, see Stage
    first,      \* the octets taken when the current read_message began
    offset,     \* octets of the current buffer the coroutine knows of
    woken,      \* octets just copied, the coroutine not yet resumed
    read,       \* the messages given to the peer task so far
    torn        \* history: a read was cancelled with octets in its buffer

readVars    == <<arrived, fin, taken, first, offset, woken, read>>
framingVars == <<readVars, stage, torn>>

Reading == {"header", "body"}
Stage == Reading \cup {"away", "lost", "refused"}

\* The messages that begin where the current read began: one, or none when
\* the read began in the middle of a message.
Starting == {k \in 1..N : End[k - 1] = first}
BodyLen_Whole(k) == End[k] - End[k - 1]
BodyLen(k) == End[k] - End[k - 1] - HeaderLen

\* The octets the current _reader_async was asked for.
Number ==
    IF stage = "header" THEN HeaderLen
    ELSE BodyLen(CHOOSE k \in Starting : TRUE)

FramingInit ==
    /\ arrived = 0
    /\ fin = FALSE
    /\ taken = 0
    /\ stage = "away"
    /\ first = 0
    /\ offset = 0
    /\ woken = 0
    /\ read = <<>>
    /\ torn = FALSE

---------------------------------------------------------------------------
(* The network and the remote speaker.  Segments are of any size.                                 *)

Arrive ==
    /\ ~fin
    /\ arrived' \in arrived + 1 .. End[N]
    /\ UNCHANGED <<fin, taken, stage, first, offset, woken, read, torn>>

RemoteClose ==
    /\ ~fin
    /\ fin' = TRUE
    /\ UNCHANGED <<arrived, taken, stage, first, offset, woken, read, torn>>

---------------------------------------------------------------------------
(* The peer task.                                                          *)

\* The loop calls read_message, which starts with a header.
Call ==
    /\ stage = "away"
    /\ stage' = "header"
    /\ first' = taken
    /\ offset' = 0
    /\ UNCHANGED <<arrived, fin, taken, woken, read, torn>>

\* sock_recv_into copies what there is, at most what was asked for.  The
\* coroutine goes on at its next turn.
Recv ==
    /\ stage \in Reading
    /\ woken = 0
    /\ taken < arrived
    /\ LET n == IF arrived - taken < Number - offset
                THEN arrived - taken
                ELSE Number - offset
       IN  woken' = n /\ taken' = taken + n
    /\ UNCHANGED <<arrived, fin, stage, first, offset, read, torn>>

RecvNothing_Early ==
    /\ stage \in Reading
    /\ woken = 0
    /\ fin
    /\ stage' = "lost"
    /\ UNCHANGED <<arrived, fin, taken, first, offset, woken, read, torn>>

\* recv gives no octet: LostConnection.
RecvNothing ==
    /\ stage \in Reading
    /\ woken = 0
    /\ fin /\ taken = arrived
    /\ stage' = "lost"
    /\ UNCHANGED <<arrived, fin, taken, first, offset, woken, read, torn>>

\* The buffer is not full yet.
WakeShort ==
    /\ stage \in Reading
    /\ woken > 0
    /\ offset + woken < Number
    /\ offset' = offset + woken
    /\ woken' = 0
    /\ UNCHANGED <<arrived, fin, taken, stage, first, read, torn>>

Full_Short == stage \in Reading /\ woken > 0
Full == stage \in Reading /\ woken > 0 /\ offset + woken = Number

\* A message is complete: the task has it.
Deliver(k) ==
    /\ read' = Append(read, k)
    /\ stage' = "away"

\* The header is complete.  Octets from inside a message are no marker:
\* Notify(1, 1) ends the session.
WakeHeader ==
    /\ Full
    /\ stage = "header"
    /\ \/ /\ Starting = {}
          /\ stage' = "refused"
          /\ UNCHANGED read
       \/ \E k \in Starting :
            IF BodyLen(k) = 0
            THEN Deliver(k)
            ELSE stage' = "body" /\ UNCHANGED read
    /\ offset' = 0
    /\ woken' = 0
    /\ UNCHANGED <<arrived, fin, taken, first, torn>>

WakeBody ==
    /\ Full
    /\ stage = "body"
    /\ \E k \in Starting : Deliver(k)
    /\ offset' = 0
    /\ woken' = 0
    /\ UNCHANGED <<arrived, fin, taken, first, torn>>

\* wait_for gives up, wherever the read is: the coroutine is dropped, and with
\* it the octets it had.
Tear == torn' = (torn \/ taken # first)

Timeout ==
    /\ stage \in Reading
    /\ Tear
    /\ stage' = "away"
    /\ offset' = 0
    /\ woken' = 0
    /\ UNCHANGED <<arrived, fin, taken, first, read>>

Read == Call \/ RecvNothing \/ WakeShort \/ WakeHeader \/ WakeBody
FramingNext == Arrive \/ RemoteClose \/ Read \/ Recv \/ Timeout

FramingSpec == FramingInit /\ [][FramingNext]_framingVars

---------------------------------------------------------------------------
(* Properties.                                                             *)

FramingTypeOK ==
    /\ arrived \in 0..End[N]
    /\ taken \in 0..arrived
    /\ first \in 0..taken
    /\ fin \in BOOLEAN
    /\ stage \in Stage
    /\ offset \in Nat
    /\ woken \in Nat
    /\ read \in Seq(1..N)
    /\ torn \in BOOLEAN

\* A remote speaker that frames its messages well is told otherwise only after a
\* read was cancelled inside a message: until then the header checks of
\* reader_async see the octets of a header, and no others.
NoFramingError == stage = "refused" => torn

\* Until then every octet taken from the socket belongs to a message the task
\* was given or is in the read under way: none is dropped between two reads.
NothingDropped ==
    ~torn /\ stage # "lost" =>
    taken = End[Len(read)] + (IF stage \in Reading
                              THEN offset + woken + (IF stage = "body" THEN HeaderLen ELSE 0)
                              ELSE 0)

\* The framing is a channel: what has arrived complete is what was sent, and a
\* read cancelled inside a message is where it may begin to lose some.
Whole == {k \in 1..N : End[k] <= arrived}
Transport == INSTANCE Channel WITH
    sent <- Whole, received <- read, up <- stage \notin {"lost", "refused"}, intact <- ~torn
Implements == Transport!ChannelSpec
=============================================================================
