---------------------------- MODULE ConfigReload -----------------------------
(***************************************************************************)
(* Reloading the configuration file under a neighbor that is in the file   *)
(* before and after: exabgp/reactor/loop.py (signals, reload, restart),    *)
(* exabgp/configuration/configuration.py (parse, commit, rollback) and     *)
(* exabgp/reactor/peer/peer.py (reconfigure, reestablish, and the peer's   *)
(* task taking over what they left for it).                                *)
(*                                                                         *)
(* A file is the routes it gives the neighbor.  Parsing it adds them to    *)
(* the live RIB; the routes it no longer has are removed when the peer     *)
(* takes over the new neighbor object, from that object's "previous".      *)
(* Files and commands may keep to indexes of their own or share them.      *)
(*                                                                         *)
(* The parser is cleared when a file has been committed and at no other    *)
(* time: what a file that fails has put in it, the next one finds there.   *)
(***************************************************************************)
EXTENDS AdjRibOut

CONSTANTS
    File,        \* what the file may say, when it is good
    ApiNlri,     \* the indexes commands announce and withdraw
    Modified,    \* may the definition of the neighbor change with its routes
    Failures,    \* how reading a file may fail
    Restarts,    \* may a restart be asked for
    Overlaps,    \* may a file be read before the last one is fully applied
    Concurrent,  \* may commands name what a reload under way adds or removes
    Passive      \* the neighbor waits for the remote speaker to connect

ASSUME FileAssumption   == File \subseteq Table /\ ApiNlri \subseteq Nlri
ASSUME ReloadAssumption == /\ Modified \subseteq BOOLEAN
                           /\ Failures \subseteq {"early", "late", "unreadable"}
                           /\ {Restarts, Overlaps, Concurrent, Passive} \subseteq BOOLEAN
ASSUME CachingAssumption == Cache = TRUE

VARIABLES
    signal,       \* Signal.received
    configured,   \* configuration.neighbors: is the neighbor there, its routes
    parsed,       \* does ParseNeighbor._neighbors hold it from a failed parse
    left,         \* Scope._routes: routes read before an error, of no neighbor yet
    named,        \* does ParseProcess._processes hold names from a failed parse
    current,      \* peer.neighbor: its routes and those of its "previous"
    waiting,      \* peer._neighbor: nothing, the current neighbor or another
    replacement,  \* that other
    teardown,     \* peer._teardown is set
    asked,        \* history: the last good file loaded
    wanted        \* history: what good files and commands said of each route

parserVars == <<parsed, left, named>>
configVars == <<configured, parserVars>>
taskVars   == <<current, waiting, replacement, teardown>>
wordVars   == <<asked, wanted>>
reloadVars == <<signal, configVars, taskVars, wordVars>>
allVars    == <<vars, reloadVars>>

Neighbor == [routes : Table, previous : Table]
Nobody   == [routes |-> NoRoutes, previous |-> NoRoutes]

ReloadTypeOK ==
    /\ SessionTypeOK
    /\ signal \in {"none", "reload", "restart"}
    /\ configured \in [known : BOOLEAN, routes : Table]
    /\ current \in Neighbor /\ replacement \in Neighbor
    /\ waiting \in {"nothing", "current", "other"}
    /\ parsed \in BOOLEAN /\ named \in BOOLEAN /\ left \in Table
    /\ teardown \in BOOLEAN
    /\ asked \in Table /\ wanted \in Table

\* A file with the neighbor and no route has been loaded.
ReloadInit ==
    /\ SessionInit
    /\ signal = "none"
    /\ configured = [known |-> TRUE, routes |-> NoRoutes]
    /\ parsed = FALSE /\ named = FALSE /\ left = NoRoutes
    /\ current = Nobody
    /\ waiting = "nothing" /\ replacement = Nobody
    /\ teardown = FALSE
    /\ asked = NoRoutes /\ wanted = NoRoutes

------------------------------------------------------------------------------
(* The main loop. *)

\* The neighbor object that will have the last word.
Newest  == IF waiting = "other" THEN replacement ELSE current
Gone(b) == Keys(b.previous) \ Keys(b.routes)

\* SIGUSR1, SIGUSR2, SIGALRM, ignored while another is pending, and the commands
\* that set the same field whatever it holds.
Ask(s) ==
    /\ s = "restart" => Restarts
    /\ signal' = s \/ (signal # "none" /\ UNCHANGED signal)
    /\ UNCHANGED <<vars, configVars, taskVars, wordVars>>

\* _pending_adjribout: a passive peer with no connection does not count.
Counted == ~Passive \/ session # "down"
MayRead == signal = "restart" \/ (signal = "reload" /\ (Counted => ~pending))

\* The signal is rearmed, and then the pending routes are noticed.
SkipReload ==
    /\ signal = "reload" /\ ~MayRead
    /\ signal' = "none"
    /\ UNCHANGED <<vars, configVars, taskVars, wordVars>>

Reading ==
    /\ MayRead
    /\ signal' = "none"

\* _init_neighbor: the routes that are not cached as they are.
Parsed(r) == [n \in Nlri |-> IF in_cache(n, r[n]) THEN NoPath ELSE r[n]]

\* What reading the file does to the RIB, in one step of the main loop.
ChangeRib(adds, dels) ==
    /\ ~Overwrites => \A n \in Keys(adds) :
          new_nlri[n] # NoPath => AttrOf[new_nlri[n]] = AttrOf[adds[n]]
    /\ Change(adds, dels)
    /\ initial' = Without(initial, Keys(adds) \cup dels)
    /\ UNCHANGED sessionVars

\* Peer.reconfigure: at once when the peer is not established.
reconfigure(b) ==
    /\ replacement' = Nobody
    /\ UNCHANGED teardown
    /\ IF session # "down"
       THEN /\ ChangeRib(Parsed(b.routes), {})
            /\ current' = b
            /\ waiting' = "current"
       ELSE /\ ChangeRib(Overlay(Parsed(b.routes), Without(b.routes, Keys(b.previous))), Gone(b))
            /\ current' = [b EXCEPT !.previous = NoRoutes]
            /\ waiting' = "nothing"

\* Peer.reestablish, with the new neighbor or with none.
reestablish(w, b) ==
    /\ teardown' = TRUE
    /\ waiting' = w
    /\ replacement' = b
    /\ UNCHANGED current

\* _commit_reload: the neighbor just parsed is given the routes of the one it
\* replaces.
Committed(r) == [routes   |-> r,
                 previous |-> IF configured.known THEN configured.routes ELSE NoRoutes]

\* Routes of refused files that the neighbor in force was given with its own.
Strays == Keys(configured.routes) \ Keys(asked)

\* No index is read twice with two meanings.
Agree(t, u) == \A n \in Keys(t) \cap Keys(u) : t[n] = u[n]

\* A good file, then reload or restart of the reactor.  The neighbor takes every
\* route the parser holds, and the parser is cleared at the commit.
Load(r) ==
    /\ Reading /\ ~parsed /\ Agree(left, r)
    /\ Overlaps \/ Gone(Newest) = {}
    /\ configured' = [known |-> TRUE, routes |-> Overlay(left, r)]
    /\ asked' = r
    /\ wanted' = Overlay(Without(wanted, Keys(asked) \cup Strays), r)
    /\ left' = NoRoutes /\ named' = FALSE
    /\ UNCHANGED parsed
    /\ IF signal = "restart"
       THEN reestablish("nothing", Nobody) /\ ChangeRib(Parsed(Overlay(left, r)), {})
       ELSE \/ FALSE \in Modified /\ reconfigure(Committed(Overlay(left, r)))
            \/ /\ TRUE \in Modified /\ reestablish("other", Committed(Overlay(left, r)))
               /\ ChangeRib(Parsed(Overlay(left, r)), {})

\* An error, or an exception, before the neighbor is complete.  The parser keeps
\* the routes read so far, unless its last checks had already taken them, and
\* the names of the process sections.
BreakOff(r) ==
    /\ left' = NoRoutes \/ (Agree(left, r) /\ left' = Overlay(left, r))
    /\ named' \in {named, TRUE}
    /\ UNCHANGED <<vars, parsed, taskVars, wordVars>>

FailEarly(r) ==
    /\ Reading /\ "early" \in Failures
    /\ BreakOff(r)
    /\ UNCHANGED configured

\* No file, an empty one, or an exception: cleared and not rolled back.
Unreadable(r) ==
    /\ Reading /\ "unreadable" \in Failures
    /\ configured' = [known |-> FALSE, routes |-> NoRoutes]
    /\ BreakOff(r)

\* An error once the neighbor is known to the parser, which keeps it: before its
\* routes are in the RIB, or after, in a section of another neighbor (routes q).
FailLate(r, q) ==
    /\ Reading /\ ~parsed /\ "late" \in Failures /\ Agree(left, r)
    /\ \/ UNCHANGED vars /\ left' = NoRoutes
       \/ ChangeRib(Parsed(Overlay(left, r)), {}) /\ left' = q
    /\ parsed' = TRUE /\ named' \in {named, TRUE}
    /\ UNCHANGED <<configured, taskVars, wordVars>>

\* A good file is refused when the parser has kept a process of that name, or the
\* neighbor ("duplicate peer definition"), whose routes it then throws away.
Refuse ==
    /\ Reading
    /\ \/ named /\ UNCHANGED left
       \/ parsed /\ left' = NoRoutes
    /\ UNCHANGED <<vars, configured, parsed, named, taskVars, wordVars>>

------------------------------------------------------------------------------
(* The peer's task, and commands. *)

\* The top of the loop of _main.
TakeOver_Early ==
    /\ session = "up" /\ ~teardown /\ waiting = "current"
    /\ replace_reload(NoRoutes, current.routes)
    /\ initial' = Without(initial, Keys(current.routes) \cup Keys(current.previous))
    /\ current' = [current EXCEPT !.previous = NoRoutes]
    /\ waiting' = "nothing"
    /\ UNCHANGED <<sessionVars, signal, configVars, replacement, teardown, wordVars>>

TakeOver ==
    /\ session = "up" /\ ~teardown /\ waiting = "current"
    /\ replace_reload(current.previous, current.routes)
    /\ initial' = Without(initial, Keys(current.routes) \cup Keys(current.previous))
    /\ current' = [current EXCEPT !.previous = NoRoutes]
    /\ waiting' = "nothing"
    /\ UNCHANGED <<sessionVars, signal, configVars, replacement, teardown, wordVars>>

\* The top of _main.
EstablishPeer ==
    /\ ~teardown
    /\ EstablishWith(current.previous, current.routes)
    /\ current' = [current EXCEPT !.previous = NoRoutes]
    /\ UNCHANGED <<signal, configVars, waiting, replacement, teardown, wordVars>>

\* _reset: the neighbor that waits becomes the current one.

ResetPeer ==
    /\ Reset
    /\ teardown' = FALSE
    /\ current' = Newest
    /\ waiting' = "nothing" /\ replacement' = Nobody
    /\ UNCHANGED <<signal, configVars, wordVars>>

\* Commands reach the neighbors of the configuration.
MayName(n) == /\ n \in ApiNlri /\ configured.known
              /\ ~Concurrent => waiting = "nothing" /\ Gone(current) = {}

ApiAnnounce(n, p) ==
    /\ MayName(n) /\ Announce(n, p)
    /\ wanted' = [wanted EXCEPT ![n] = p]
    /\ UNCHANGED <<signal, configVars, taskVars, asked>>

ApiWithdraw(n) ==
    /\ MayName(n) /\ Withdraw(n)
    /\ wanted' = [wanted EXCEPT ![n] = NoPath]
    /\ UNCHANGED <<signal, configVars, taskVars, asked>>

\* WithdrawAll and Resend go by the peers, not by the configuration.
ApiWithdrawAll ==
    /\ ApiNlri = Nlri
    /\ ~Concurrent => waiting = "nothing" /\ Gone(current) = {}
    /\ WithdrawAll
    /\ wanted' = NoRoutes
    /\ UNCHANGED <<signal, configVars, taskVars, asked>>

MainLoop ==
    \/ SkipReload
    \/ \E r \in File : Load(r) \/ FailEarly(r) \/ Unreadable(r)
    \/ \E r, q \in File : FailLate(r, q)
    \/ Refuse

ReloadNext ==
    \/ \E s \in {"reload", "restart"} : Ask(s)
    \/ MainLoop
    \/ \E n \in Nlri, p \in Path : ApiAnnounce(n, p)
    \/ \E n \in Nlri : ApiWithdraw(n)
    \/ TakeOver
    \/ EstablishPeer
    \/ ResetPeer
    \/ ApiWithdrawAll
    \/ \E enhanced \in Enhanced : Resend(enhanced, Family) /\ UNCHANGED reloadVars
    \/ (Send \/ Lose) /\ UNCHANGED reloadVars

ReloadSpec == ReloadInit /\ [][ReloadNext]_allVars

\* The event loop runs the peer's task again and again; nothing is asked of the
\* main loop, which only makes more for it to do.
FairReloadSpec ==
    /\ ReloadSpec
    /\ WF_allVars(TakeOver)
    /\ WF_allVars(Send /\ UNCHANGED reloadVars)

------------------------------------------------------------------------------
(* Properties. *)

\* The cache holds what the last file loaded and the commands since say of every
\* route, but for those the peer has still to remove because the file lost them,
\* and those a refused file left in the parser for the one that was loaded.
Applied == \A n \in Nlri \ (Gone(Newest) \cup Strays) : seen[n] = wanted[n]

\* When the peer has nothing left to send, the remote speaker holds that too.
Delivered ==
    Settled => \A n \in Nlri \ (Gone(Newest) \cup Strays) : peer_table[n] = wanted[n]

\* The parser holds nothing between files that makes it refuse the next good one.
NoneRefused == ~parsed /\ ~named

\* A reload that is asked for is carried out.
ReloadHappens == [][~SkipReload]_allVars

Staying == session = "up" /\ ~teardown

\* While the session stays up, what the file or a command said last of a route
\* becomes that in the remote speaker's table, whatever the reloads, unless it is
\* changed for ever; a stray does once a later file is loaded.
WantedArrives ==
    \A n \in Nlri :
        \/ []<><<wanted'[n] # wanted[n]>>_wanted
        \/ []<>(~Staying \/ n \in Strays \/ peer_table[n] = wanted[n])

------------------------------------------------------------------------------
(* Why Applied holds when no file fails late or goes missing, none is read    *)
(* before the last one is applied, and commands stay away from what a reload  *)
(* under way touches: the inductive invariant.                                *)

ReloadInv ==
    /\ signal # "restart" /\ ~parsed /\ configured.known
    /\ Newest.routes = configured.routes
    /\ \A n \in Keys(asked) : configured.routes[n] = asked[n]
    /\ waiting = "current" => session # "down"
    /\ waiting = "other" => teardown /\ Gone(current) = {}
    /\ waiting # "nothing" => \A n \in Keys(configured.routes) : seen[n] = configured.routes[n]
    /\ \A n \in Gone(Newest) : wanted[n] = NoPath
    /\ Applied

==============================================================================
