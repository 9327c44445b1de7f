------------------------------ MODULE MainLoop ------------------------------
(***************************************************************************)
(* The loop of Peer._main over the reader of Framing, with its two timers  *)
(* (bgp/timer.py, reactor/keepalive.py): a message is read or 0.1 second   *)
(* passes, the hold timer is checked, a KEEPALIVE sent if one is due, and  *)
(* what is queued is sent.  The same task reads and writes: nothing is     *)
(* read, and no timer looked at, while a write waits for the remote        *)
(* speaker to read.                                                        *)
(*                                                                         *)
(* Time is counted in seconds, as the timers do, by the age of what they   *)
(* remember; an age past the hold time stays there.  Seconds pass while    *)
(* the task waits, to read or to write; its own steps take none.           *)
(***************************************************************************)
EXTENDS Framing

CONSTANTS
    Holds,       \* the hold times that may be negotiated
    KeepAlives,  \* which messages of the remote speaker are KEEPALIVEs
    Discards     \* which are UPDATEs read as INTERNAL_DISCARD

ASSUME MainLoopAssumption ==
    /\ Holds \subseteq Nat \ {1, 2}
    /\ KeepAlives \subseteq 1..N
    /\ Discards \subseteq (1..N) \ KeepAlives

VARIABLES
    hold,      \* negotiated.holdtime
    turn,      \* where the loop is, see Turn
    single,    \* ReceiveTimer.single
    elapsed,   \* age of ReceiveTimer.last_read
    unsent,    \* age of SendTimer.last_sent
    cause,     \* why a timer ended the session
    stalled,   \* the remote speaker does not read: its window is closed
    silence,   \* history: age of the last message that arrived complete and counts
    waited     \* history: age of the last message written

ages == <<elapsed, unsent, silence, waited>>
loopVars == <<hold, turn, single, cause, stalled, ages>>
mainVars == <<framingVars, loopVars>>

\* read_message, running or waiting for octets, check_ka, send_if_needed and its
\* write, the rest of the iteration and the write of an UPDATE.
Turn    == {"read", "wait", "check", "timer", "keepalive", "routes", "update"}
Writing == {"keepalive", "update"}
Over    == stage \in {"lost", "refused"}

Age == 0..(hold + 1)

LoopTypeOK ==
    /\ FramingTypeOK
    /\ hold \in Holds
    /\ turn \in Turn
    /\ single \in BOOLEAN /\ stalled \in BOOLEAN
    /\ cause \in {"none", "expired", "unwanted"}
    /\ elapsed \in Age /\ unsent \in Age /\ silence \in Age /\ waited \in Age

MainInit ==
    /\ FramingInit
    /\ hold \in Holds
    /\ turn = "read"
    /\ single = FALSE /\ stalled = FALSE
    /\ cause = "none"
    /\ elapsed = 0 /\ unsent = 0 /\ silence = 0 /\ waited = 0

---------------------------------------------------------------------------
(* The remote speaker and the network.                                     *)

\* The messages that are to renew the hold timer.
Counted == Whole \ Discards

Network ==
    /\ Arrive \/ RemoteClose
    /\ silence' = IF Over \/ Counted' = Counted THEN silence ELSE 0
    /\ UNCHANGED <<hold, turn, single, cause, stalled, elapsed, unsent, waited>>

StopOrGo ==
    /\ stalled' = ~stalled
    /\ UNCHANGED <<framingVars, hold, turn, single, cause, ages>>

Older(age) == IF age > hold THEN age ELSE age + 1

---------------------------------------------------------------------------
(* The timers.                                                             *)

Expired_Inclusive(age) == hold # 0 /\ age >= hold
Expired(age) == hold # 0 /\ age > hold

\* HoldTime.keepalive, and need_ka with no KEEPALIVE at all for a hold time of 0.
KeepAlive == hold \div 3
NeedKeepAlive_Late == KeepAlive # 0 /\ unsent > KeepAlive
NeedKeepAlive == KeepAlive # 0 /\ unsent >= KeepAlive

\* check_ka_timer: a message renews last_read; a timeout, or an UPDATE that was
\* discarded, which read_message gives as a timeout, does not.
Renewed_Always(counts) == 0
Renewed(counts) == IF counts THEN 0 ELSE elapsed

\* Either way the age is looked at.
CheckAge ==
    IF Expired(elapsed')
    THEN stage' = "lost" /\ cause' = "expired"
    ELSE UNCHANGED <<stage, cause>>

---------------------------------------------------------------------------
(* The loop.                                                               *)

\* read_message, up to a message.
ReadOn ==
    /\ turn \in {"read", "wait"}
    /\ \/ (Call \/ Recv \/ RecvNothing) /\ UNCHANGED turn
       \/ WakeShort /\ turn' = "read"
    /\ UNCHANGED <<hold, single, cause, stalled, ages>>

\* The socket is tried first, and the event loop entered when it is empty.
Sleep ==
    /\ turn = "read" /\ stage \in Reading
    /\ woken = 0 /\ taken = arrived /\ ~fin
    /\ turn' = "wait"
    /\ UNCHANGED <<framingVars, hold, single, cause, stalled, ages>>

ReadEnd ==
    /\ turn \in {"read", "wait"}
    /\ WakeHeader \/ WakeBody
    /\ turn' = IF read' = read THEN "read" ELSE "check"
    /\ UNCHANGED <<hold, single, cause, stalled, ages>>

Last == read[Len(read)]

\* check_ka with a message.  Under a hold time of 0 a second KEEPALIVE is refused.
CheckMessage ==
    /\ turn = "check"
    /\ IF hold = 0 /\ Last \in KeepAlives
       THEN /\ single' = TRUE
            /\ IF single
               THEN stage' = "lost" /\ cause' = "unwanted"
               ELSE UNCHANGED <<stage, cause>>
            /\ UNCHANGED elapsed
       ELSE elapsed' = Renewed(Last \notin Discards) /\ CheckAge /\ UNCHANGED single
    /\ turn' = "timer"
    /\ UNCHANGED <<readVars, torn, hold, stalled, unsent, silence, waited>>

\* The timer fires on a read that waits.  Octets that came before it did have been
\* copied, though the read may not have been resumed yet.
Quiet == turn = "wait" /\ stage \in Reading /\ taken = arrived /\ ~fin

Wait(second) ==
    IF second
    THEN /\ unsent' = Older(unsent) /\ silence' = Older(silence) /\ waited' = Older(waited)
         /\ elapsed' = Older(Renewed(FALSE))
    ELSE UNCHANGED <<unsent, silence, waited>> /\ elapsed' = Renewed(FALSE)

\* The timeout, in which a second may have gone by, and check_ka without a
\* message.
Idle(second) ==
    /\ Quiet
    /\ Wait(second)
    /\ IF Expired(elapsed')
       THEN stage' = "lost" /\ cause' = "expired" /\ Tear /\ UNCHANGED readVars
       ELSE Timeout /\ UNCHANGED cause
    /\ turn' = "timer"
    /\ UNCHANGED <<hold, single, stalled>>

\* send_if_needed: the timer restarts when the KEEPALIVE is due, before it is
\* written.
SendIfNeeded ==
    /\ turn = "timer" /\ ~Over
    /\ IF NeedKeepAlive
       THEN turn' = "keepalive" /\ unsent' = 0
       ELSE turn' = "routes" /\ UNCHANGED unsent
    /\ UNCHANGED <<framingVars, hold, single, cause, stalled, elapsed, silence, waited>>

\* Updates, refreshes, operational messages and End-of-RIB: there is something
\* to write or not.
Routes ==
    /\ turn = "routes"
    /\ turn' \in {"update", "read"}
    /\ UNCHANGED <<framingVars, hold, single, cause, stalled, ages>>

\* sock_sendall returns.
Written ==
    /\ turn \in Writing /\ ~stalled /\ ~Over
    /\ turn' = IF turn = "keepalive" THEN "routes" ELSE "read"
    /\ waited' = 0
    /\ UNCHANGED <<framingVars, hold, single, cause, stalled, elapsed, unsent, silence>>

\* The remote speaker is gone: NetworkError, or Notify(4, 0) for a KEEPALIVE.
WriteFails ==
    /\ turn \in Writing /\ fin /\ ~Over
    /\ stage' = "lost"
    /\ UNCHANGED <<readVars, torn, loopVars>>

\* A second goes by and sock_sendall still waits.
Blocked ==
    /\ turn \in Writing /\ stalled /\ ~Over
    /\ elapsed' = Older(elapsed) /\ unsent' = Older(unsent)
    /\ silence' = Older(silence) /\ waited' = Older(waited)
    /\ UNCHANGED <<framingVars, hold, turn, single, cause, stalled>>

Task == \/ ReadOn
        \/ Sleep
        \/ ReadEnd
        \/ CheckMessage
        \/ Idle(FALSE)
        \/ SendIfNeeded
        \/ Routes

MainNext ==
    \/ Network
    \/ StopOrGo
    \/ Task
    \/ Idle(TRUE)
    \/ Written
    \/ WriteFails
    \/ Blocked

MainSpec == MainInit /\ [][MainNext]_mainVars

\* The event loop runs the task, time passes, and a write goes on whenever the
\* remote speaker reads.
FairMainSpec ==
    /\ MainSpec
    /\ WF_mainVars(Task)
    /\ SF_mainVars(Idle(TRUE))
    /\ SF_mainVars(Written)

---------------------------------------------------------------------------
(* Properties.                                                             *)

\* A message that counts waits behind a discarded one that was just read.
Hidden == /\ read # <<>> /\ Last \in Discards
          /\ \E k \in Counted : k > Len(read)

\* The hold timer ends a session only if no message that counts arrived for a
\* hold time: messages that wait in the socket while a write is blocked are read
\* before the timer is looked at.  Not so when a read was cancelled inside a
\* message, or when the first message read after the write is discarded.
NotExpired == cause = "expired" => silence > hold \/ torn \/ Hidden

\* The remote speaker waits a third of the hold time for a message, not more,
\* unless it is itself what keeps one from being written.
KeepsAlive == ~Over /\ hold # 0 /\ turn \notin Writing => 3 * waited <= hold

\* A remote speaker that goes on reading is noticed when it no longer speaks.
Reads == []<>~stalled
DeadNoticed ==
    Reads => ((hold # 0 /\ silence > hold) ~> (Over \/ silence <= hold))

\* What arrived complete is handled, however long writes are blocked before it
\* is read, and even if the remote speaker closes behind it; unless a timer or a
\* write that fails ends the session first, or a read is cancelled inside a message.
MessageHandled ==
    Reads => \A k \in 1..N :
        arrived >= End[k] ~> \/ Len(read) >= k
                             \/ torn
                             \/ Over /\ (cause # "none" \/ turn \in Writing)

\* A remote speaker that neither reads nor speaks is noticed: it is not.
BlockedNoticed == (hold # 0 /\ silence > hold) ~> (Over \/ silence <= hold)
=============================================================================
