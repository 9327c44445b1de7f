------------------------------ MODULE AdjRibOut ------------------------------
(***************************************************************************)
(* The outgoing RIB, the sending half of the peer's task                   *)
(* (exabgp/reactor/peer/peer.py, _main and its helpers) and the table the  *)
(* remote speaker builds from what it is sent.  Commands, files and        *)
(* refresh requests change the RIB at every await of the task; messages    *)
(* of one session reach the remote speaker in order, and it drops all it   *)
(* learnt when the session ends.                                           *)
(***************************************************************************)
EXTENDS OutgoingRIB

CONSTANTS
    Overwrites,    \* may a queued route be queued again with other attributes
    EarlyRefresh,  \* may a resend be asked for before the first batch is sent
    Enhanced,      \* the values of resend's first argument
    IPv4,          \* the family IPv4 unicast
    MpUnicast      \* the families whose withdraws travel in an MP_UNREACH_NLRI
                   \* with no other attribute (IPv6 unicast and multicast)

ASSUME UsageAssumption  == /\ Overwrites \in BOOLEAN /\ EarlyRefresh \in BOOLEAN
                           /\ Enhanced \subseteq BOOLEAN
ASSUME EncodeAssumption == MpUnicast \subseteq Family

VARIABLES
    session,           \* "up": in _main; "closing": left, not yet reset; "down"
    include_withdraw,  \* local of _main
    send_eor,          \* local of _main
    eor,               \* the families the remote speaker has the End-of-RIB of
    peer_table,        \* what the remote speaker holds
    stale,             \* routes it holds that the refresh it was promised by a
                       \* Begin-of-Route-Refresh has not yet confirmed
    initial            \* history: routes cached when the session came up, less
                       \* those a command has touched since

sessionVars == <<session, include_withdraw, send_eor, eor, peer_table, stale>>
vars == <<ribVars, sessionVars, initial>>

SessionTypeOK ==
    /\ TypeOK
    /\ session \in {"up", "closing", "down"}
    /\ include_withdraw \in BOOLEAN
    /\ send_eor \in BOOLEAN
    /\ eor \in SUBSET (Family \cup {IPv4})
    /\ peer_table \in Table
    /\ stale \in SUBSET Nlri
    /\ initial \in Table

SessionInit ==
    /\ Init
    /\ session = "down"
    /\ include_withdraw = FALSE
    /\ send_eor = FALSE
    /\ eor = {}
    /\ peer_table = NoRoutes
    /\ stale = {}
    /\ initial = NoRoutes

------------------------------------------------------------------------------
(* What others do to the RIB, at any time. *)

Announce(n, p) ==
    /\ ~Overwrites /\ new_nlri[n] # NoPath => AttrOf[new_nlri[n]] = AttrOf[p]
    /\ add_to_rib(n, p)
    /\ initial' = Without(initial, {n})
    /\ UNCHANGED sessionVars

Withdraw(n) ==
    /\ del_from_rib(n)
    /\ initial' = Without(initial, {n})
    /\ UNCHANGED sessionVars

\* neighbor_rib_out_withdraw
WithdrawAll ==
    /\ withdraw(Family)
    /\ initial' = NoRoutes
    /\ UNCHANGED sessionVars

\* A ROUTE-REFRESH received (one family) or a flush command (all of them).
Resend(enhanced, F) ==
    /\ ~EarlyRefresh => session = "up" /\ include_withdraw
    /\ resend(enhanced, F)
    /\ UNCHANGED <<sessionVars, initial>>

------------------------------------------------------------------------------
(* The peer's task. *)

\* The top of _main: the routes of the file that was in force and those of the
\* file that is.
EstablishWith(previous, new) ==
    /\ session = "down"
    /\ session' = "up"
    /\ include_withdraw' = FALSE
    /\ send_eor' = TRUE
    /\ replace_restart(previous, new)
    /\ initial' = Without(seen, Keys(previous) \ Keys(new))
    /\ UNCHANGED <<eor, peer_table, stale>>

\* No file has been reloaded.
Establish == EstablishWith(NoRoutes, NoRoutes)

\* _send_route_updates without a generator: it makes one if there is work.
StartUpdates ==
    /\ session = "up" /\ pending
    /\ updates
    /\ UNCHANGED <<sessionVars, initial>>

\* A message reaches the remote speaker, whose table and marks become these.
Sending(table, marks, eors) ==
    /\ session = "up"
    /\ peer_table' = table
    /\ stale' = marks
    /\ eor' = eors
    /\ UNCHANGED <<queues, seen, sending, session, include_withdraw, send_eor, initial>>

OfFamily(f) == {n \in Nlri : FamilyOf[n] = f}

\* Begin-of-Route-Refresh: the remote speaker marks what it holds of the family.
SendRefreshStart(f) ==
    /\ YieldStart(f)
    /\ Sending(peer_table, stale \cup (Keys(peer_table) \cap OfFamily(f)), eor)

SendRefresh(n, p) ==
    /\ YieldRefresh(n, p)
    /\ Sending([peer_table EXCEPT ![n] = p], stale \ {n}, eor)

\* End-of-Route-Refresh: it drops what is still marked.
SendRefreshEnd(f) ==
    /\ YieldEnd(f)
    /\ Sending(Without(peer_table, stale \cap OfFamily(f)), stale \ OfFamily(f), eor)

\* UpdateCollection.messages: a withdraw of the first batch is not written. For
\* a family of MpUnicast that leaves an UPDATE with nothing in it, which is the
\* End-of-RIB of IPv4 unicast.
SendWithdraw(n) ==
    /\ YieldWithdraw(n)
    /\ IF include_withdraw
       THEN Sending([peer_table EXCEPT ![n] = NoPath], stale \ {n}, eor)
       ELSE Sending(peer_table, stale, IF FamilyOf[n] \in MpUnicast THEN eor \cup {IPv4} ELSE eor)

SendAnnounces(a, M) ==
    /\ YieldAnnounces(a, M)
    /\ Sending([n \in Nlri |-> IF n \in M THEN batch.announces[a][n] ELSE peer_table[n]],
               stale \ M, eor)

\* StopAsyncIteration, and the End-of-RIB check that follows with no await.
FinishUpdates ==
    /\ session = "up" /\ Exhausted
    /\ EndGenerator
    /\ include_withdraw' = TRUE
    /\ eor' = IF send_eor THEN Family ELSE eor
    /\ send_eor' = FALSE
    /\ UNCHANGED <<queues, seen, session, peer_table, stale, initial>>

SendEor_Early ==
    /\ session = "up" /\ ~sending /\ send_eor
    /\ eor' = Family
    /\ send_eor' = FALSE
    /\ UNCHANGED <<ribVars, session, include_withdraw, peer_table, stale, initial>>

\* An iteration with no routes to send.
SendEor ==
    /\ session = "up" /\ ~sending /\ ~pending /\ send_eor
    /\ eor' = Family
    /\ send_eor' = FALSE
    /\ UNCHANGED <<ribVars, session, include_withdraw, peer_table, stale, initial>>

\* _main ends, by an error, a NOTIFICATION or a teardown: its generator goes
\* with it, and the remote speaker drops the routes of the session.
Lose ==
    /\ session = "up"
    /\ session' = "closing"
    /\ EndGenerator
    /\ peer_table' = NoRoutes
    /\ stale' = {}
    /\ eor' = {}
    /\ initial' = NoRoutes
    /\ UNCHANGED <<queues, seen, include_withdraw, send_eor>>

\* _reset, after a session or after an attempt that failed.
Reset ==
    /\ session # "up"
    /\ session' = "down"
    /\ reset
    /\ UNCHANGED <<include_withdraw, send_eor, eor, peer_table, stale, initial>>

Send ==
    \/ StartUpdates
    \/ \E f \in Family : SendRefreshStart(f) \/ SendRefreshEnd(f)
    \/ \E n \in Nlri, p \in Path : SendRefresh(n, p)
    \/ \E n \in Nlri : SendWithdraw(n)
    \/ \E a \in Attributes, M \in SUBSET Nlri : SendAnnounces(a, M)
    \/ FinishUpdates
    \/ SendEor

Command ==
    \/ \E n \in Nlri, p \in Path : Announce(n, p)
    \/ \E n \in Nlri : Withdraw(n)
    \/ WithdrawAll
    \/ \E enhanced \in Enhanced :
         \E F \in {{f} : f \in Family} \cup {Family} : Resend(enhanced, F)

Next == Command \/ Send \/ Establish \/ Lose \/ Reset

Spec == SessionInit /\ [][Next]_vars

\* The event loop runs the peer's task again and again: a task that can send
\* does.  Nothing makes a session come up or stay up.
FairSpec == Spec /\ WF_vars(Send)

------------------------------------------------------------------------------
(* Properties. *)

\* Nothing is queued and nothing is on its way.
Settled == session = "up" /\ ~sending /\ ~pending

\* When the queues are empty and no generator is alive, the remote speaker
\* holds exactly the routes the cache says were announced.
Converged == Cache /\ Settled => peer_table = seen

\* The End-of-RIB of a family is sent only once every route of it that the cache
\* held when the session came up, and that nothing changed since, has been sent.
EorAfterInitialRoutes ==
    Cache => \A n \in Keys(initial) : FamilyOf[n] \in eor => peer_table[n] = initial[n]

\* A route that stays as the commands left it, announced with a path or
\* withdrawn, becomes that in the remote speaker's table, if the session stays up.
ChangeArrives ==
    \A n \in Nlri : \A p \in MaybePath :
        (session = "up" /\ seen[n] = p) ~> (session # "up" \/ seen[n] # p \/ peer_table[n] = p)

------------------------------------------------------------------------------
(* Why Converged holds: the inductive invariant.                           *)

\* A command has said something about n that no generator has taken yet.
Touched(n) == new_nlri[n] # NoPath \/ n \in pending_withdraws

Announcing(n)  == \E a \in Attributes : batch.announces[a][n] # NoPath
Undisturbed(n) == ~Touched(n) /\ ~Announcing(n) /\ n \notin batch.withdraws

\* The queues and the cache: what is queued last for a route is what the cache
\* holds for it, and it is queued once.
QueueInv ==
    /\ \A n \in Nlri : new_nlri[n] # NoPath =>
          /\ seen[n] = new_nlri[n]
          /\ new_attr_af_nlri[AttrOf[new_nlri[n]]][n] = new_nlri[n]
    /\ \A a \in Attributes, n \in Nlri : new_attr_af_nlri[a][n] # NoPath =>
          /\ new_nlri[n] = new_attr_af_nlri[a][n]
          /\ AttrOf[new_nlri[n]] = a
    /\ \A n \in pending_withdraws : new_nlri[n] = NoPath => seen[n] = NoPath
    /\ \A r \in refresh_routes : ~Touched(r[1]) => seen[r[1]] = r[2]

\* The generator: what it has left to say about a route nothing has touched
\* since its snapshot is what the cache holds.
BatchInv ==
    /\ ~sending => batch = EmptyBatch
    /\ sending => session = "up"
    /\ \A a, c \in Attributes, n \in Nlri :
          batch.announces[a][n] # NoPath /\ batch.announces[c][n] # NoPath => a = c
    /\ \A a \in Attributes, n \in Nlri :
          batch.announces[a][n] # NoPath /\ ~Touched(n) => batch.announces[a][n] = seen[n]
    /\ \A n \in batch.withdraws : ~Touched(n) /\ ~Announcing(n) => seen[n] = NoPath
    /\ \A r \in batch.refresh : Undisturbed(r[1]) => seen[r[1]] = r[2]

\* The first batch of a session: nothing it leaves out was ever sent.
FirstBatchInv ==
    /\ session = "down" => refresh_routes = {}
    /\ session = "up" /\ ~include_withdraw =>
          /\ refresh_routes = {}
          /\ batch.refresh = {}
          /\ (~sending \/ batch.withdraws # {}) => peer_table = NoRoutes

\* The remote speaker: it holds what the cache holds for every other route.
TableInv ==
    /\ session # "up" => peer_table = NoRoutes /\ stale = {}
    /\ session = "up" => \A n \in Nlri : Undisturbed(n) => peer_table[n] = seen[n]

\* An enhanced refresh: what the remote speaker marks, or is about to, the
\* refresh will confirm unless it has gone or something newer is queued.
RefreshInv ==
    /\ \A n \in Nlri :
          FamilyOf[n] \in refresh_families /\ ~Touched(n) /\ seen[n] # NoPath
            => <<n, seen[n]>> \in refresh_routes
    /\ \A n \in Nlri :
          FamilyOf[n] \in batch.start /\ Undisturbed(n) /\ seen[n] # NoPath
            => <<n, seen[n]>> \in batch.refresh
    /\ \A n \in stale :
          Undisturbed(n) /\ seen[n] # NoPath => <<n, seen[n]>> \in batch.refresh

CoreInv == QueueInv /\ BatchInv /\ FirstBatchInv /\ TableInv
InSync  == CoreInv /\ RefreshInv

==============================================================================
