------------------------------- MODULE Channel -------------------------------
(***************************************************************************)
(* What a transport promises the peer task.  While it is intact, the       *)
(* messages the remote speaker sent come out whole, once each and in       *)
(* order, until the connection is lost.  Once something has been cut out   *)
(* of it, messages may be missing, but those that come out are still       *)
(* whole, sent, and in order.  Messages are named by their rank.           *)
(***************************************************************************)
EXTENDS Naturals, Sequences

CONSTANT N          \* how many messages the remote speaker has to send

VARIABLES sent,     \* the messages that reached this end
          received, \* the messages given to the peer task
          up,       \* whether the connection is still there
          intact    \* whether nothing was cut out of it

channelVars == <<sent, received, up, intact>>

ChannelInit == sent = {} /\ received = <<>> /\ up = TRUE /\ intact = TRUE

\* Some more messages have arrived, complete.
Transmit ==
    /\ \E more \in SUBSET (1..N) : sent' = sent \cup more
    /\ UNCHANGED <<received, up, intact>>

\* A later message is given to the task: the next one, while nothing was cut.
Receive ==
    \E later \in sent :
        /\ up
        /\ \A i \in 1..Len(received) : received[i] < later
        /\ intact => later = Len(received) + 1
        /\ received' = Append(received, later)
        /\ UNCHANGED <<sent, up, intact>>

Cut == intact' = FALSE /\ UNCHANGED <<sent, received, up>>

\* The connection goes, because of a cut perhaps.
Lose == up' = FALSE /\ intact' \in {intact, FALSE} /\ UNCHANGED <<sent, received>>

ChannelNext == Transmit \/ Receive \/ Cut \/ Lose

ChannelSpec == ChannelInit /\ [][ChannelNext]_channelVars
=============================================================================
