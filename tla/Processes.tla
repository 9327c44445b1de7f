------------------------------ MODULE Processes ------------------------------
(***************************************************************************)
(* The helper program behind the API: how Processes starts it, reads the   *)
(* lines it writes, queues the answers it is owed, notices its death and   *)
(* starts it again, and what a reload of the configuration does to it.     *)
(*                                                                         *)
(* A helper is started more than once under one name: its incarnations     *)
(* are numbered.  A line is two fragments, as a write or a read may cut it *)
(* anywhere; line n of incarnation i is the command <<i, n>>.  Helpers     *)
(* share nothing but the order in which their commands are executed, so    *)
(* one is modelled.                                                        *)
(***************************************************************************)
EXTENDS Integers, Sequences, FiniteSets

CONSTANTS
    RespawnNumber,  \* respawn_number: starts allowed in one bucket of time
    Chunk,          \* fragments one os.read may return
    Lines,          \* bound: lines an incarnation writes
    Faults          \* bound: deaths, bad lines, failed starts and reloads

ASSUME ProcessesAssumption ==
    /\ RespawnNumber \in Nat \ {0}
    /\ Chunk \in Nat \ {0}
    /\ Lines \in Nat
    /\ Faults \in Nat

VARIABLES
    conf,       \* its definition in _configuration, or NoConf
    restart,    \* _restart.get(process, True)
    running,    \* process in self._process
    alive,      \* the operating system still runs it
    inc,        \* its incarnation
    wrote,      \* fragments this incarnation wrote
    stdout,     \* those not read yet
    partial,    \* _buffer[process]
    commands,   \* _command_queue
    last,       \* the last command executed
    answers,    \* _write_queue[process]
    got,        \* answers to its own commands this incarnation has read
    broken,     \* process in self._broken
    count,      \* starts in the current bucket of time
    stopped,    \* the reactor has stopped on a ProcessError
    faults      \* how many faults are left

pipes == <<wrote, stdout, partial>>
life == <<running, alive, inc, count>>
setup == <<conf, restart, broken>>
work == <<commands, last, answers, got>>
helperVars == <<pipes, life, setup, work, stopped, faults>>

NoConf == "none"
Conf == {"once", "respawn"}     \* respawn false or true
Command == Nat \X Nat
Fragment == [line: Command, part: {"head", "tail"}]

\* One helper is started with the reactor.
HelperInit ==
    /\ conf \in Conf
    /\ restart = (conf = "respawn")
    /\ running = TRUE /\ alive = TRUE /\ inc = 1 /\ count = 1
    /\ wrote = 0 /\ stdout = <<>> /\ partial = <<>>
    /\ commands = <<>> /\ last = <<0, 0>> /\ answers = <<>> /\ got = 0
    /\ broken = FALSE
    /\ stopped = FALSE
    /\ faults = Faults

Fault == faults > 0 /\ faults' = faults - 1

---------------------------------------------------------------------------
(* The helper.                                                             *)

HelperWrites ==
    /\ running /\ alive
    /\ wrote < 2 * Lines
    /\ stdout' = Append(stdout,
         [line |-> <<inc, wrote \div 2 + 1>>,
          part |-> IF wrote % 2 = 0 THEN "head" ELSE "tail"])
    /\ wrote' = wrote + 1
    /\ UNCHANGED <<partial, life, setup, work, stopped, faults>>

HelperDies ==
    /\ running /\ alive
    /\ Fault
    /\ alive' = FALSE
    /\ UNCHANGED <<pipes, running, inc, count, setup, work, stopped>>

---------------------------------------------------------------------------
(* Starting and terminating it.                                            *)

Dropped_Kept == UNCHANGED partial
Dropped == partial' = <<>>

\* _terminate: the half line it left is dropped, not the answers it is owed.
Terminated ==
    /\ running' = FALSE /\ alive' = FALSE
    /\ wrote' = 0 /\ stdout' = <<>> /\ Dropped
    /\ UNCHANGED <<inc, got>>

Begun ==
    /\ running' = TRUE /\ alive' = TRUE
    /\ inc' = inc + 1 /\ wrote' = 0 /\ stdout' = <<>> /\ got' = 0

TooFast_Late == count >= RespawnNumber + 1
\* One start too many in this bucket: the helper just started is terminated.
TooFast == count >= RespawnNumber

\* _start of a helper that is not running, and whether it raises ProcessError.
Started(c, raised) ==
    \/ /\ ~restart
       /\ Terminated
       /\ raised = FALSE
       /\ UNCHANGED <<restart, broken, count>>
    \/ /\ restart /\ ~TooFast
       /\ Begun /\ Dropped
       /\ restart' = (c = "respawn")
       /\ count' = count + 1
       /\ raised = FALSE
       /\ UNCHANGED broken
    \/ /\ restart /\ TooFast
       /\ running' = FALSE /\ alive' = FALSE /\ inc' = inc + 1
       /\ wrote' = 0 /\ stdout' = <<>> /\ got' = 0 /\ Dropped
       /\ restart' = (c = "respawn")
       /\ count' = RespawnNumber + 1
       /\ raised = TRUE
       /\ UNCHANGED broken
    \/ /\ restart
       /\ faults > 0            \* Popen fails
       /\ Terminated
       /\ broken' = TRUE
       /\ raised = FALSE
       /\ UNCHANGED <<restart, count>>

HandleProblem_Down == Terminated /\ UNCHANGED <<restart, broken, count>>

\* _handle_problem: the helper is started again if it is to be; a ProcessError
\* goes no further.
HandleProblem ==
    IF restart
    THEN \E raised \in BOOLEAN : Started(conf, raised)
    ELSE Terminated /\ UNCHANGED <<restart, broken, count>>

---------------------------------------------------------------------------
(* The reactor.                                                            *)

Smallest(a, b) == IF a < b THEN a ELSE b

\* The line each tail completes is queued; what follows the last one is kept.
Ends(fragments) == {i \in DOMAIN fragments : fragments[i].part = "tail"}
NthEnd(fragments, k) ==
    CHOOSE i \in Ends(fragments) : Cardinality({j \in Ends(fragments) : j <= i}) = k
LinesOf(fragments) ==
    [k \in 1 .. Cardinality(Ends(fragments)) |-> fragments[NthEnd(fragments, k)].line]
Remainder(fragments) ==
    IF fragments # <<>> /\ fragments[Len(fragments)].part = "head"
    THEN <<fragments[Len(fragments)]>>
    ELSE <<>>

ReadCallback_OneLine ==
    /\ ~stopped /\ running
    /\ stdout # <<>> /\ alive
    /\ LET n == Smallest(Chunk, Len(stdout))
           raw == partial \o SubSeq(stdout, 1, n)
       IN  /\ commands' = commands \o SubSeq(LinesOf(raw), 1, Smallest(1, Len(LinesOf(raw))))
           /\ partial' = Remainder(raw)
           /\ stdout' = SubSeq(stdout, n + 1, Len(stdout))
    /\ UNCHANGED <<wrote, life, setup, last, answers, got, stopped, faults>>

\* _async_reader_callback.  The death of the helper is dealt with after the
\* read, whatever is left in the pipe.
ReadCallback ==
    /\ ~stopped /\ running
    /\ stdout # <<>> \/ ~alive
    /\ LET n == Smallest(Chunk, Len(stdout))
           raw == partial \o SubSeq(stdout, 1, n)
       IN  /\ commands' = commands \o LinesOf(raw)
           /\ IF alive
              THEN /\ partial' = Remainder(raw)
                   /\ stdout' = SubSeq(stdout, n + 1, Len(stdout))
                   /\ UNCHANGED <<wrote, life, setup, got>>
              ELSE HandleProblem /\ UNCHANGED conf
    /\ UNCHANGED <<last, answers, stopped, faults>>

\* A line longer than MAX_COMMAND_SIZE, or that is not ASCII.
BadLine ==
    /\ ~stopped /\ running /\ alive
    /\ Fault
    /\ HandleProblem
    /\ UNCHANGED <<conf, commands, last, answers, stopped>>

\* received_async gives one command, it is executed, and its answer is queued
\* for whatever helper now has the name.
Execute ==
    /\ ~stopped
    /\ commands # <<>>
    /\ last' = Head(commands)
    /\ commands' = Tail(commands)
    /\ answers' = IF running
                  THEN Append(answers, [line |-> Head(commands), cut |-> FALSE])
                  ELSE answers
    /\ UNCHANGED <<pipes, life, setup, got, stopped, faults>>

Flush_Lost ==
    /\ ~stopped /\ answers # <<>> /\ running /\ alive
    /\ answers' = Tail(answers)
    /\ got' \in {got, IF Head(answers).line[1] = inc THEN got + 1 ELSE got}
    /\ UNCHANGED <<pipes, life, setup, commands, last, stopped, faults>>

\* flush_write_queue: an answer goes out whole or, the pipe being full, in
\* part; a helper that is dead breaks the pipe, one that is gone takes its
\* queue with it.
Flush ==
    /\ ~stopped
    /\ answers # <<>>
    /\ \/ /\ running /\ alive
          /\ answers' = Tail(answers)
          /\ got' = IF Head(answers).line[1] = inc THEN got + 1 ELSE got
          /\ UNCHANGED broken
       \/ /\ running /\ alive /\ ~Head(answers).cut
          /\ answers' = [answers EXCEPT ![1].cut = TRUE]
          /\ UNCHANGED <<got, broken>>
       \/ /\ running /\ ~alive
          /\ answers' = <<>>
          /\ broken' = TRUE
          /\ UNCHANGED got
       \/ /\ ~running
          /\ answers' = <<>>
          /\ UNCHANGED <<got, broken>>
    /\ UNCHANGED <<pipes, life, conf, restart, commands, last, stopped, faults>>

\* Processes.start on a reload: the helper of another definition is terminated
\* and started, if the reload is a full one; a helper that does not run is
\* started.  Nothing catches the ProcessError on the way to the main loop.
Reload ==
    /\ ~stopped
    /\ Fault
    /\ \/ /\ conf' = NoConf
          /\ IF running THEN Terminated ELSE UNCHANGED <<pipes, running, alive, inc, got>>
          /\ UNCHANGED <<restart, broken, count, stopped>>
       \/ /\ conf' \in Conf
          /\ \E replace \in BOOLEAN, raised \in BOOLEAN :
               IF running /\ ~replace
               THEN /\ raised = FALSE
                    /\ UNCHANGED <<pipes, life, restart, broken, got, stopped>>
               ELSE Started(conf', raised) /\ stopped' = raised
    /\ UNCHANGED <<commands, last, answers>>

\* A new bucket of time: the next start is its first.
Tick ==
    /\ count' = 0
    /\ UNCHANGED <<pipes, running, alive, inc, setup, work, stopped, faults>>

ReactorStep == ReadCallback \/ Execute
HelperNext ==
    \/ HelperWrites \/ HelperDies \/ BadLine
    \/ ReactorStep \/ Flush \/ Reload \/ Tick

HelperSpec == HelperInit /\ [][HelperNext]_helperVars

\* The event loop serves the pipe and the queues again and again.
FairHelperSpec ==
    /\ HelperSpec
    /\ WF_helperVars(ReadCallback)
    /\ WF_helperVars(Execute)
    /\ SF_helperVars(Flush)

---------------------------------------------------------------------------
(* Properties.                                                             *)

HelperTypeOK ==
    /\ conf \in Conf \cup {NoConf}
    /\ restart \in BOOLEAN /\ running \in BOOLEAN /\ alive \in BOOLEAN
    /\ inc \in Nat /\ got \in Nat
    /\ wrote \in 0 .. 2 * Lines
    /\ stdout \in Seq(Fragment) /\ partial \in Seq(Fragment)
    /\ commands \in Seq(Command) /\ last \in Command
    /\ answers \in Seq([line: Command, cut: BOOLEAN])
    /\ broken \in BOOLEAN /\ stopped \in BOOLEAN
    /\ count \in 0 .. RespawnNumber + 1
    /\ faults \in 0..Faults
    /\ alive => running

Executed == IF last[1] = inc THEN last[2] ELSE 0
Taken == wrote - Len(stdout)      \* fragments read from this incarnation

\* The bytes of a line come from one helper: what the buffer holds is the head
\* of the line whose tail comes next, never what a dead incarnation left.
LinesWhole ==
    partial # <<>> =>
        /\ Len(partial) = 1
        /\ partial[1].line[1] = inc
        /\ stdout # <<>> => stdout[1] = [partial[1] EXCEPT !.part = "tail"]

\* No command of a helper that runs is lost or made up, and they are executed
\* in the order it wrote them: after the `old` commands other incarnations left,
\* the queue holds every line read and not executed, in order, and no other.
CommandsKept ==
    alive =>
        \E old \in 0 .. Len(commands) :
            /\ \A k \in 1 .. old : commands[k][1] < inc
            /\ \A k \in old + 1 .. Len(commands) :
                 commands[k] = <<inc, Executed + k - old>>
            /\ Executed + Len(commands) - old = Taken \div 2

\* A helper that runs is answered once, and in order, for every command executed
\* for it: after the `old` answers other incarnations are owed, the queue holds
\* those to its own it has not read.
AnswersKept ==
    alive =>
        \E old \in 0 .. Len(answers) :
            /\ \A k \in 1 .. old : answers[k].line[1] < inc
            /\ \A k \in old + 1 .. Len(answers) :
                 answers[k].line = <<inc, got + k - old>>
            /\ got + Len(answers) - old = Executed

\* In one bucket of time a helper is not left running by more than
\* RespawnNumber starts.
RespawnBounded == running => count <= RespawnNumber

\* A line of a helper that goes on is read, executed and answered.
Answered ==
    \A n \in 1..Lines :
        alive /\ wrote >= 2 * n ~> got >= n \/ ~alive \/ stopped \/ wrote < 2 * n

\* A helper that died is started again, unless it is not to be, starts too
\* often, cannot be started, or the reactor has stopped.
Respawned ==
    running /\ ~alive ~>
        alive \/ ~restart \/ conf = NoConf \/ count > RespawnNumber \/ broken \/ stopped

\* What the comment in Peer.run says of a broken helper: that starting it
\* again failed or was disabled.
BrokenIsDown == broken => ~alive
=============================================================================
