----------------------------- MODULE Healthcheck -----------------------------
(***************************************************************************)
(* The bundled health check, a helper that announces the addresses of a    *)
(* service while the service answers: its state machine, the commands it   *)
(* writes one by one, waiting for the line that acknowledges each of them, *)
(* the addresses it sets on the host, and its end on SIGTERM.              *)
(*                                                                         *)
(* ExaBGP is the table of what it announces for the addresses, and the     *)
(* pipes: one of commands, one of answers.  What is announced for an       *)
(* address is the state it was announced for (its metric and community),   *)
(* or "none".  The commands of --execute are left out.                     *)
(***************************************************************************)
EXTENDS Integers, Sequences

CONSTANTS
    Options,    \* the command lines the check may be started with
    Ips,        \* number of addresses it announces
    PipeSize,   \* bound: commands ExaBGP has not read yet
    Faults      \* bound: commands refused and tables lost

Switches == {"debounce", "withdraw_on_down", "no_ack", "ip_dynamic",
             "ip_setup", "sudo", "once", "disable", "adj_rib_out"}

\* An option is a number or a switch; once is --interval 0, and adj_rib_out
\* is not the check's own but the neighbor's.
ASSUME HealthAssumption ==
    /\ Options \subseteq [rise : Nat, fall : Nat, on : SUBSET Switches]
    /\ Ips \in Nat \ {0}
    /\ PipeSize \in Nat \ {0}
    /\ Faults \in Nat

VARIABLES
    options,
    service,    \* the command of the check would succeed
    file,       \* the file of --disable exists
    state,
    checks,
    good, bad,  \* checks in a row that succeeded, or failed
    pc,
    target,     \* what exabgp() was called with
    said,       \* addresses it has written a command for
    handler,    \* the SIGTERM handler: "no", "runs", or "nested" in readline
    pipe,       \* commands written and not executed
    answers,    \* lines ExaBGP answered and the check has not read
    announced,  \* what ExaBGP announces for each address
    setup,      \* the addresses set on the host
    unset,      \* those setup_ips took for set when `ip` refused to add them
    warned,     \* those remove_ips could not remove, and said so
    refused,    \* ExaBGP refused a command
    shifted,    \* an answer was read for that of another command
    lost,       \* the table of the neighbor was lost
    faults

world == <<service, file>>
machine == <<state, checks, good, bad>>
talk == <<pc, target, said, handler>>
peer == <<pipe, answers, announced, refused, lost, faults>>
host == <<setup, unset, warned>>
healthVars == <<options, world, machine, talk, peer, host, shifted>>

Address == 1..Ips
Spoken == {"UP", "DOWN", "DISABLED", "EXIT"}
States == {"INIT", "DISABLED", "RISING", "FALLING", "UP", "DOWN"}
on(switch) == switch \in options.on
Disabled == file /\ on("disable")

HealthInit ==
    /\ options \in Options
    /\ service \in BOOLEAN /\ file \in BOOLEAN
    /\ state = "INIT" /\ checks = 0 /\ good = 0 /\ bad = 0
    /\ pc = "check" /\ target = "DOWN" /\ said = 0 /\ handler = "no"
    /\ pipe = <<>> /\ answers = 0
    /\ announced = [ip \in Address |-> "none"]
    /\ setup \in IF on("ip_setup") THEN {Address} ELSE {{}, Address}
    /\ unset = {} /\ warned = {}
    /\ refused = FALSE /\ shifted = FALSE /\ lost = FALSE
    /\ faults = Faults

Fault == faults > 0 /\ faults' = faults - 1

---------------------------------------------------------------------------
(* The check and its state machine.                                        *)

ServiceChanges ==
    /\ service' = ~service
    /\ UNCHANGED <<options, file, machine, talk, peer, host, shifted>>

FileChanges ==
    /\ on("disable")
    /\ file' = ~file
    /\ UNCHANGED <<options, service, machine, talk, peer, host, shifted>>

trigger_Early(to) ==
    CASE to = "RISING" /\ options.rise <= 2 -> "UP"
      [] to = "FALLING" /\ options.fall <= 1 -> "DOWN"
      [] OTHER -> to

\* trigger: no streak to wait for.
trigger(to) ==
    CASE to = "RISING" /\ options.rise <= 1 -> "UP"
      [] to = "FALLING" /\ options.fall <= 1 -> "DOWN"
      [] OTHER -> to

\* A first result of the other kind starts a streak, the last of one ends it.
Turn(to) == state' = trigger(to) /\ checks' = 1
Count(needed, to) ==
    /\ checks' = checks + 1
    /\ state' = IF checks + 1 >= needed THEN to ELSE state

Succeeded ==
    IF state = "INIT" /\ options.rise <= 1
    THEN state' = "UP" /\ UNCHANGED checks
    ELSE CASE state \in {"INIT", "FALLING", "DOWN"} -> Turn("RISING")
           [] state = "RISING" -> Count(options.rise, "UP")
           [] OTHER -> UNCHANGED <<state, checks>>

Failed ==
    CASE state \in {"INIT", "RISING", "UP"} -> Turn("FALLING")
      [] state = "FALLING" -> Count(options.fall, "DOWN")
      [] OTHER -> UNCHANGED <<state, checks>>

Most == IF options.rise > options.fall THEN options.rise ELSE options.fall
More(streak) == IF streak > Most THEN streak ELSE streak + 1

\* one, up to its announcements: the disabled file stands for a check that
\* succeeds, and the iteration that finds it gone again decides nothing.
Decide ==
    \/ /\ Disabled
       /\ state' = "DISABLED"
       /\ good' = 0 /\ bad' = 0
       /\ UNCHANGED checks
    \/ /\ ~Disabled
       /\ IF service THEN good' = More(good) /\ bad' = 0
                     ELSE bad' = More(bad) /\ good' = 0
       /\ IF state = "DISABLED" THEN state' = "INIT" /\ UNCHANGED checks
          ELSE IF service THEN Succeeded ELSE Failed

\* exabgp, up to the first command.
Speak(to) == target' = to /\ said' = 0 /\ pc' = "say"

\* setup_ips, with --dynamic-ip-setup and the service up: what is missing is added.
\* Without --sudo an address `ip` refuses is taken for one that is already there;
\* any other failure is raised, and ends the check.
Missing == Address \ setup

Restore(to) ==
    /\ \E added \in SUBSET Missing :
         /\ setup' = setup \cup added
         /\ \/ /\ added = Missing \/ ~on("sudo")
               /\ unset' = Missing \ added
               /\ Speak(to)
            \/ /\ added # Missing
               /\ pc' = "failed"
               /\ UNCHANGED <<unset, target, said>>
    /\ UNCHANGED warned

Announces_Changes == state' # state
Announces == ~on("debounce") \/ state' # state

one ==
    /\ pc = "check"
    /\ Decide
    /\ IF Announces /\ state' \in Spoken
       THEN IF state' = "UP" /\ on("ip_dynamic")
            THEN Restore(state')
            ELSE Speak(state') /\ UNCHANGED host
       ELSE pc' = "sleep" /\ UNCHANGED <<target, said, host>>
    /\ UNCHANGED <<options, world, handler, peer, shifted>>

---------------------------------------------------------------------------
(* exabgp: the commands, their answers, and the addresses of the host.     *)

Command_Down(to) ==
    IF to = "EXIT" THEN "DOWN"
    ELSE IF on("withdraw_on_down") /\ to # "UP" THEN "none" ELSE to
Command(to) ==
    IF to = "EXIT" \/ (on("withdraw_on_down") /\ to # "UP") THEN "none" ELSE to

Waits == ~on("no_ack")

\* A handler that interrupted readline cannot call it: it raises after one
\* command, and the check ends.
Say ==
    /\ pc = "say"
    /\ said < Ips
    /\ Len(pipe) < PipeSize
    /\ pipe' = Append(pipe, [ip |-> said + 1, as |-> Command(target)])
    /\ said' = said + 1
    /\ pc' = IF handler = "nested" THEN "failed"
             ELSE IF Waits THEN "reply" ELSE "say"
    /\ UNCHANGED <<options, world, machine, target, handler, answers, announced,
                   refused, lost, faults, host, shifted>>

Reply ==
    /\ pc = "reply"
    /\ answers > 0
    /\ answers' = answers - 1
    /\ pc' = "say"
    /\ UNCHANGED <<options, world, machine, target, said, handler, pipe, announced,
                   refused, lost, faults, host, shifted>>

Removed ==
    \/ target = "EXIT" /\ (on("ip_dynamic") \/ on("ip_setup"))
    \/ target \in {"DOWN", "DISABLED"} /\ on("ip_dynamic")

\* remove_ips warns of an address it cannot remove, and goes on: as when
\* privileges were dropped without --sudo.
Remove ==
    \E kept \in SUBSET setup : setup' = kept /\ warned' = kept

Said_First ==
    /\ pc = "say"
    /\ IF Removed THEN Remove ELSE UNCHANGED <<setup, warned>>
    /\ pc' = IF target = "EXIT" THEN "ended" ELSE IF on("once") THEN "done" ELSE "sleep"
    /\ UNCHANGED <<options, world, machine, target, said, handler, peer, unset, shifted>>
Said ==
    /\ pc = "say"
    /\ said = Ips
    /\ IF Removed THEN Remove ELSE UNCHANGED <<setup, warned>>
    /\ pc' = IF target = "EXIT" THEN "ended" ELSE IF on("once") THEN "done" ELSE "sleep"
    /\ UNCHANGED <<options, world, machine, target, said, handler, peer, unset, shifted>>

Sleep ==
    /\ pc = "sleep"
    /\ pc' = "check"
    /\ UNCHANGED <<options, world, machine, target, said, handler, peer, host, shifted>>

---------------------------------------------------------------------------
(* SIGTERM, wherever the check is.  Between a command and the call of      *)
(* readline the handler reads the answer of that command for its own.  A   *)
(* check blocked on a full pipe, which holds hundreds of commands, is not  *)
(* told apart from one that is about to write.                             *)

Sigterm ==
    /\ handler = "no"
    /\ pc \in {"check", "say", "reply", "sleep"}
    /\ \/ handler' = "runs" /\ shifted' = (shifted \/ pc = "reply")
       \/ pc = "reply" /\ handler' = "nested" /\ UNCHANGED shifted
    /\ Speak("EXIT")
    /\ UNCHANGED <<options, world, machine, peer, host>>

---------------------------------------------------------------------------
(* ExaBGP.                                                                 *)

\* A refused command is answered with a line of explanation and one more.
Execute ==
    /\ pipe # <<>>
    /\ pipe' = Tail(pipe)
    /\ LET c == Head(pipe)
       IN announced' = [announced EXCEPT ![c.ip] = c.as]
    /\ answers' = IF Waits THEN answers + 1 ELSE answers
    /\ UNCHANGED <<options, world, machine, talk, refused, lost, faults, host, shifted>>

Refuse ==
    /\ pipe # <<>>
    /\ Fault
    /\ pipe' = Tail(pipe)
    /\ answers' = IF Waits THEN answers + 2 ELSE answers
    /\ refused' = TRUE
    /\ shifted' = (shifted \/ Waits)
    /\ UNCHANGED <<options, world, machine, talk, announced, lost, host>>

\* The session ends, and the neighbor keeps no adj-rib-out.
LoseTable ==
    /\ ~on("adj_rib_out")
    /\ Fault
    /\ announced' = [ip \in Address |-> "none"]
    /\ lost' = TRUE
    /\ UNCHANGED <<options, world, machine, talk, pipe, answers, refused, host, shifted>>

HelperStep == one \/ Say \/ Reply \/ Said \/ Sleep
WorldStep == ServiceChanges \/ FileChanges \/ Sigterm \/ Refuse \/ LoseTable
HealthNext == HelperStep \/ Execute \/ WorldStep

HealthSpec == HealthInit /\ [][HealthNext]_healthVars

\* The check and ExaBGP run, and sleeps end; nothing else has to happen.
FairHealthSpec == HealthSpec /\ WF_healthVars(HelperStep) /\ WF_healthVars(Execute)

---------------------------------------------------------------------------
(* Properties.                                                             *)

HealthTypeOK ==
    /\ options \in Options
    /\ service \in BOOLEAN /\ file \in BOOLEAN
    /\ state \in States /\ target \in Spoken
    /\ checks \in 0..Most + 1
    /\ good \in 0..Most + 1 /\ bad \in 0..Most + 1
    /\ pc \in {"check", "say", "reply", "sleep", "ended", "failed", "done"}
    /\ said \in 0..Ips
    /\ handler \in {"no", "runs", "nested"}
    /\ pipe \in Seq([ip : Address, as : {"none", "UP", "DOWN", "DISABLED"}])
    /\ Len(pipe) <= PipeSize
    /\ answers \in Nat
    /\ announced \in [Address -> {"none", "UP", "DOWN", "DISABLED"}]
    /\ setup \subseteq Address /\ unset \subseteq Address /\ warned \subseteq Address
    /\ {refused, shifted, lost} \subseteq BOOLEAN
    /\ faults \in 0..Faults

AtLeastOne(n) == IF n < 1 THEN 1 ELSE n

\* The service is declared up after `rise` checks in a row that succeeded, and
\* down after `fall` in a row that failed, whatever came before: flapping,
\* being disabled and enabled again included.
Hysteresis ==
    [][/\ state # "UP" /\ state' = "UP" => good' >= AtLeastOne(options.rise)
       /\ state # "DOWN" /\ state' = "DOWN" => bad' >= AtLeastOne(options.fall)
      ]_healthVars

\* ExaBGP announces an address as up only while the host has it: it is set
\* before the first announcement, and removed after the last withdrawal was
\* acknowledged, as long as answers and commands go in step.  Not so an address
\* that `ip` refused to add and the check took for set.
Reachable ==
    (on("ip_setup") \/ on("ip_dynamic")) /\ Waits /\ ~shifted =>
        \A ip \in Address : announced[ip] = "UP" => ip \in setup \cup unset

\* A check that ends on SIGTERM, and says so with its exit code, leaves
\* nothing announced once its commands are executed, and no address behind but
\* those it warned of.
CleanExit ==
    pc = "ended" /\ pipe = <<>> /\ ~refused =>
        /\ \A ip \in Address : announced[ip] = "none"
        /\ on("ip_setup") \/ on("ip_dynamic") => setup \subseteq warned

\* The handler of SIGTERM cleans up wherever it finds the check.
CleanOnSigterm ==
    pc = "failed" /\ handler = "nested" /\ pipe = <<>> /\ ~refused =>
        \A ip \in Address : announced[ip] = "none"

Wanted == IF Disabled THEN "DISABLED" ELSE IF service THEN "UP" ELSE "DOWN"
AnnouncedAs(to) == \A ip \in Address : announced[ip] = Command(to)

\* When the service stays as it is, what ExaBGP announces follows it for good,
\* commands refused and tables lost included unless --debounce has the check
\* say things once.
Follows ==
    \A to \in {"UP", "DOWN", "DISABLED"} :
        <>[](pc \notin {"ended", "failed", "done"} /\ handler = "no" /\ Wanted = to
             /\ (on("debounce") => ~refused /\ ~lost))
            => <>[]AnnouncedAs(to)

==============================================================================
