----------------------------- MODULE ApiCommands -----------------------------
(***************************************************************************)
(* The commands of a helper, from the queue they are read into to their    *)
(* answer: the main loop takes one per iteration, schedules its callback   *)
(* and runs what is scheduled before it does anything else.  A callback    *)
(* changes the RIB route by route, giving way to the peer's task after     *)
(* each, and in sync mode waits for the RIB to be drained.                 *)
(*                                                                         *)
(* The RIB, the peer's task and the remote speaker are those of AdjRibOut; *)
(* incoming connections share the queue of callbacks: the listener's and   *)
(* the refusals it sends are generators, resumed at most Limit times in a  *)
(* row.  Parsing, and commands that only print, are left out.              *)
(***************************************************************************)
EXTENDS AdjRibOut

CONSTANTS
    Commands,     \* the commands the helper may write
    Limit,        \* ASYNC.LIMIT
    Writes,       \* how often the writing of a refusal may yield
    MaxCommands,  \* bound: commands written
    MaxRefusals   \* bound: connections refused

\* A command changes routes one by one (NoPath withdraws); a group is one
\* command of several, and registers for the flush at its end.
Command1 == [do : Seq([n : Nlri, p : MaybePath]), sync : BOOLEAN, group : BOOLEAN]

ASSUME ApiAssumption ==
    /\ Commands \subseteq Command1
    /\ \A c \in Commands : c.do # <<>>
    /\ Limit \in Nat \ {0} /\ Writes \subseteq Nat
    /\ MaxCommands \in Nat /\ MaxRefusals \in Nat
    /\ FALSE \in Enhanced

VARIABLES
    written,   \* how many commands the helper wrote
    inbox,     \* _command_queue
    tasks,     \* ASYNC._async
    phase,     \* "receive", or how _run_async runs: "coroutines" or "mixed"
    current,   \* the callback being run, or Nobody
    turns,     \* iterations left to a mixed run
    done,      \* routes of the running command that are changed
    event,     \* its flush event: "none", "registered" or "set"
    idle,      \* no generator was alive when it was registered
    due,       \* the peer's task had something to send after it
    kept,      \* the session has not been lost since
    answers,   \* the commands answered, in order
    dropped,   \* the commands forgotten
    refusals   \* how many connections were refused

loopVars == <<inbox, tasks, phase, current, turns, dropped, refusals>>
waitVars == <<event, idle, due, kept>>
runVars == <<done, waitVars, answers>>
apiVars == <<vars, written, loopVars, runVars>>

Nobody == [kind |-> "nobody"]
Coroutine(id, c) == [kind |-> "command", id |-> id, c |-> c]
Generator(left, refusal) == [kind |-> "generator", left |-> left, refusal |-> refusal]
NoRefusal == {}

IsCommand(t) == t.kind = "command"

ApiInit ==
    /\ SessionInit
    /\ written = 0
    /\ inbox = <<>> /\ tasks = <<>>
    /\ phase = "receive" /\ current = Nobody /\ turns = 0
    /\ done = 0 /\ event = "none" /\ idle = FALSE /\ due = FALSE /\ kept = FALSE
    /\ answers = <<>> /\ dropped = {}
    /\ refusals = 0

---------------------------------------------------------------------------
(* The helper and the main loop.                                           *)

HelperWrites(c) ==
    /\ written < MaxCommands
    /\ written' = written + 1
    /\ inbox' = Append(inbox, Coroutine(written + 1, c))
    /\ UNCHANGED <<vars, tasks, phase, current, turns, dropped, refusals, runVars>>

\* ASYNC.schedule
Scheduled(queue, new) == queue \o new

Started(queue) ==
    IF queue = <<>> THEN phase' = "receive" /\ tasks' = <<>> /\ UNCHANGED <<current, turns>>
    ELSE IF IsCommand(Head(queue))
    THEN phase' = "coroutines" /\ tasks' = queue /\ UNCHANGED <<current, turns>>
    ELSE /\ phase' = "mixed" /\ tasks' = Tail(queue)
         /\ current' = Head(queue) /\ turns' = Limit

received_async_Newest(queue) ==
    /\ inbox # <<>>
    /\ inbox' = SubSeq(inbox, 1, Len(inbox) - 1)
    /\ Started(Scheduled(queue, <<inbox[Len(inbox)]>>))

\* One command, the oldest.
received_async(queue) ==
    /\ inbox # <<>>
    /\ inbox' = Tail(inbox)
    /\ Started(Scheduled(queue, <<Head(inbox)>>))

\* An iteration of the main loop up to _run_async: the listener's callback if
\* there is a connection, refused or not, and one command.
Iterate ==
    /\ phase = "receive"
    /\ \E heard \in {<<>>, <<Generator(1, NoRefusal)>>} \cup
                      {<<Generator(1, {w})>> : w \in Writes} :
         /\ heard # <<>> => refusals < MaxRefusals
         /\ refusals' = refusals + Len(heard)
         /\ heard \o inbox \o tasks # <<>>
         /\ \/ inbox = <<>> /\ Started(Scheduled(tasks, heard)) /\ UNCHANGED inbox
            \/ received_async(tasks \o heard)
    /\ UNCHANGED <<vars, written, dropped, runVars>>

\* The callback has ended: a mixed run goes on with the next one at once.
Ended(queue) ==
    IF phase = "coroutines"
    THEN current' = Nobody /\ tasks' = queue /\ UNCHANGED <<phase, turns>>
    ELSE /\ turns' = turns - 1
         /\ IF queue = <<>>
            THEN phase' = "receive" /\ current' = Nobody /\ tasks' = queue
            ELSE phase' = phase /\ current' = Head(queue) /\ tasks' = Tail(queue)

\* A run of coroutines takes the next one, or ends before a generator.
TakeCoroutine ==
    /\ phase = "coroutines" /\ current = Nobody
    /\ IF tasks # <<>> /\ IsCommand(Head(tasks))
       THEN current' = Head(tasks) /\ tasks' = Tail(tasks) /\ UNCHANGED phase
       ELSE phase' = "receive" /\ UNCHANGED <<current, tasks>>
    /\ UNCHANGED <<vars, written, inbox, turns, dropped, refusals, runVars>>

\* next() of a generator; the listener schedules the refusal as it ends.
Resume ==
    /\ phase = "mixed" /\ turns > 0 /\ current.kind = "generator"
    /\ IF current.left > 0
       THEN /\ current' = [current EXCEPT !.left = @ - 1]
            /\ turns' = turns - 1
            /\ UNCHANGED <<phase, tasks>>
       ELSE \E new \in IF current.refusal = NoRefusal THEN {<<>>}
                       ELSE {<<Generator(w, NoRefusal)>> : w \in current.refusal} :
                Ended(Scheduled(tasks, new))
    /\ UNCHANGED <<vars, written, inbox, dropped, refusals, runVars>>

\* The turns are over: a generator is put back, and a coroutine the last turn
\* took from the queue is not.
OutOfTurns ==
    /\ phase = "mixed" /\ turns = 0
    /\ phase' = "receive" /\ current' = Nobody
    /\ IF IsCommand(current)
       THEN dropped' = dropped \cup {current.id} /\ UNCHANGED tasks
       ELSE tasks' = <<current>> \o tasks /\ UNCHANGED dropped
    /\ UNCHANGED <<vars, written, inbox, turns, refusals, runVars>>

---------------------------------------------------------------------------
(* A command's callback.                                                   *)

Running == IsCommand(current) /\ (phase = "mixed" => turns > 0)

\* register_flush_callbacks: only for a peer with a connection, which one that
\* is not established may have.
Register ==
    \E connected \in IF session = "up" THEN {TRUE}
                     ELSE IF session = "down" THEN BOOLEAN ELSE {FALSE} :
        /\ event' = IF connected THEN "registered" ELSE "none"
        /\ due' = (session = "up" /\ (sending \/ pending'))
        /\ kept' = TRUE

ChangeRoute(n, p) ==
    IF p = NoPath THEN Withdraw(n)
    ELSE IF in_cache(n, p) THEN UNCHANGED vars
    ELSE Announce(n, p)

\* announce_route, withdraw_route and the loop of _process_group, up to the
\* await that follows each route; the single command registers first.
NextRoute ==
    /\ Running
    /\ done < Len(current.c.do)
    /\ LET step == current.c.do[done + 1] IN ChangeRoute(step.n, step.p)
    /\ done' = done + 1
    /\ IF done = 0 /\ current.c.sync /\ ~current.c.group
       THEN Register /\ idle' = ~sending
       ELSE UNCHANGED waitVars
    /\ UNCHANGED <<written, loopVars, answers>>

AllDone == Running /\ done = Len(current.c.do)

\* The end of the routes of a group: done goes past them.
RegisterGroup ==
    /\ AllDone
    /\ current.c.sync /\ current.c.group
    /\ UNCHANGED <<vars, written, loopVars, answers>>
    /\ Register
    /\ idle' = FALSE
    /\ done' = done + 1

\* The callback and its list of events are gone.
Forgotten ==
    /\ done' = 0 /\ idle' = FALSE /\ due' = FALSE /\ kept' = FALSE
    /\ event' = "none"

\* asyncio.gather of the events, if there are any.
Waited == event # "registered"

Answer ==
    /\ Running
    /\ done = Len(current.c.do) + (IF current.c.sync /\ current.c.group THEN 1 ELSE 0)
    /\ Waited
    /\ answers' = Append(answers, current.id)
    /\ Forgotten
    /\ Ended(tasks)
    /\ UNCHANGED <<vars, written, inbox, dropped, refusals>>

---------------------------------------------------------------------------
(* The peer's task, and the remote speaker.                                *)

Fired_Never == event
Fired_AtStart == IF ~sending /\ sending' /\ event = "registered" THEN "set" ELSE event
\* fire_flush_callbacks, when the generator is exhausted.
Fired == IF sending /\ ~sending' /\ event = "registered" THEN "set" ELSE event

PeerSends ==
    /\ Send
    /\ event' = Fired
    /\ UNCHANGED <<written, loopVars, done, idle, due, kept, answers>>

SessionChanges ==
    /\ Establish \/ Lose \/ Reset
    /\ kept' = (kept /\ session' # "closing")
    /\ UNCHANGED <<written, loopVars, done, event, idle, due, answers>>

RemoteRefresh ==
    /\ session = "up"
    /\ \E f \in Family : Resend(FALSE, {f})
    /\ UNCHANGED <<written, loopVars, runVars>>

LoopStep ==
    \/ Iterate \/ TakeCoroutine \/ Resume \/ OutOfTurns
    \/ NextRoute \/ RegisterGroup \/ Answer

ApiNext ==
    \/ \E c \in Commands : HelperWrites(c)
    \/ LoopStep
    \/ PeerSends \/ SessionChanges \/ RemoteRefresh

ApiSpec == ApiInit /\ [][ApiNext]_apiVars

\* The event loop runs the main loop and the peer's task again and again.
FairApiSpec == ApiSpec /\ WF_apiVars(LoopStep) /\ WF_apiVars(PeerSends)

---------------------------------------------------------------------------
(* Properties.                                                             *)

Waiting == Running /\ event = "registered" /\ done >= Len(current.c.do)

ApiTypeOK ==
    /\ SessionTypeOK
    /\ written \in 0..MaxCommands
    /\ inbox \in Seq([kind : {"command"}, id : 1..MaxCommands, c : Commands])
    /\ phase \in {"receive", "coroutines", "mixed"}
    /\ phase = "receive" => current = Nobody
    /\ turns \in 0..Limit
    /\ event \in {"none", "registered", "set"}
    /\ event # "none" => Running
    /\ {idle, due, kept} \subseteq BOOLEAN
    /\ dropped \subseteq 1..written

\* A command of one route answered in sync mode has its route on the wire: if
\* no generator was alive when it began and the session has lasted, the remote
\* speaker holds what the command said when the answer is due.
SyncSent ==
    Running /\ event = "set" /\ idle /\ kept /\ Len(current.c.do) = 1
        => peer_table[current.c.do[1].n] = current.c.do[1].p

\* The same for every sync command.
SyncWaits ==
    Running /\ event = "set" /\ kept /\ done >= Len(current.c.do)
        => \A i \in DOMAIN current.c.do :
             (\A j \in i + 1..Len(current.c.do) : current.c.do[j].n # current.c.do[i].n)
                 => peer_table[current.c.do[i].n] = current.c.do[i].p

\* A helper tells answers apart by their order alone: they come in the order of
\* the commands, and none is missing but for the commands dropped.
InOrder ==
    /\ \A i, j \in DOMAIN answers : i < j => answers[i] < answers[j]
    /\ \A i \in DOMAIN answers : \A id \in 1..answers[i] - 1 :
         id \in dropped \/ \E j \in 1..i - 1 : answers[j] = id

\* No command is forgotten.
NoneDropped == dropped = {}

IsAnswered(id) == \E i \in DOMAIN answers : answers[i] = id

\* A command is answered, unless it is dropped, or waits in sync mode for a
\* flush that need not come: there was nothing to send after the command, or
\* the session it was to be sent over is lost.
Answered ==
    \A id \in 1..MaxCommands :
        written >= id ~>
            IsAnswered(id) \/ id \in dropped \/ (Waiting /\ ~(due /\ kept))

\* A command that is not dropped is answered if the session comes up for good.
NeverStuck ==
    <>[](session = "up") =>
        \A id \in 1..MaxCommands : written >= id ~> IsAnswered(id) \/ id \in dropped

==============================================================================
