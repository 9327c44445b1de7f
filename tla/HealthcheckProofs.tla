-------------------------- MODULE HealthcheckProofs --------------------------
(***************************************************************************)
(* The check for any command line, any number of addresses and any flaps:  *)
(* it changes its mind only on a full streak, has the host hold every      *)
(* address ExaBGP announces as up unless `ip` refused to add it, and       *)
(* leaves nothing announced when it ends, nor an address it did not warn   *)
(* of.                                                                     *)
(***************************************************************************)
EXTENDS Healthcheck, SequenceTheorems, TLAPS

As == {"none", "UP", "DOWN", "DISABLED"}
Written == [ip : Address, as : As]

\* The streak counted is one of consecutive checks, as long as it has to be
\* counted.
StreakInv ==
    /\ state = "RISING" =>
         /\ options.rise >= 2 /\ checks \in 1 .. options.rise - 1
         /\ good >= checks \/ good > Most
    /\ state = "FALLING" =>
         /\ options.fall >= 2 /\ checks \in 1 .. options.fall - 1
         /\ bad >= checks \/ bad > Most

\* A handler that interrupted readline says one thing.
NestedInv == handler = "nested" => (pc = "say" /\ said = 0) \/ pc = "failed"

\* One command at a time: it is in the pipe, or its answer is.
InStep == Waits /\ ~shifted /\ handler # "nested"
StepInv ==
    InStep =>
        \/ pc # "reply" /\ pipe = <<>> /\ answers = 0
        \/ pc = "reply" /\ pipe = <<>> /\ answers = 1
        \/ pc = "reply" /\ pipe = <<[ip |-> said, as |-> Command(target)]>> /\ answers = 0

Sets == on("ip_setup") \/ on("ip_dynamic")

\* What the check takes to be set on the host.
Held == setup \cup unset

\* Up is announced, on its way, or about to be, only with the address set; and
\* once its removal is decided, what was said has replaced it.
ReachInv ==
    Sets /\ Waits /\ ~shifted =>
        /\ \A ip \in Address : announced[ip] = "UP" => ip \in Held
        /\ \A k \in 1 .. Len(pipe) : pipe[k].as = "UP" => pipe[k].ip \in Held
        /\ target = "UP" /\ pc \in {"say", "reply"} => Address \subseteq Held
        /\ ~on("ip_dynamic") /\ pc # "ended" => Address \subseteq Held
        /\ handler # "nested" /\ target # "UP" /\ pc \in {"say", "reply"} =>
             \A ip \in 1..said :
                announced[ip] # "UP" \/ (pc = "reply" /\ ip = said /\ pipe # <<>>)

\* Nothing is announced for the address once the pipe is executed.
Cleared(ip) ==
    \/ announced[ip] = "none" /\ \A k \in 1 .. Len(pipe) : pipe[k].ip # ip
    \/ \E k \in 1 .. Len(pipe) :
         /\ pipe[k] = [ip |-> ip, as |-> "none"]
         /\ \A j \in k + 1 .. Len(pipe) : pipe[j].ip # ip

ExitInv ==
    /\ target = "EXIT" /\ ~refused => \A ip \in 1..said : Cleared(ip)
    /\ target = "EXIT" => pc \in {"say", "reply", "ended", "failed"}
    /\ pc = "ended" => target = "EXIT" /\ said = Ips /\ (Sets => setup \subseteq warned)

HealthInv ==
    HealthTypeOK /\ StreakInv /\ NestedInv /\ StepInv /\ ReachInv /\ ExitInv

---------------------------------------------------------------------------
(* The state machine.                                                      *)

Verdict ==
    /\ state # "UP" /\ state' = "UP" => good' >= AtLeastOne(options.rise)
    /\ state # "DOWN" /\ state' = "DOWN" => bad' >= AtLeastOne(options.fall)

MachineTypes ==
    /\ state \in States /\ checks \in 0..Most + 1
    /\ good \in 0..Most + 1 /\ bad \in 0..Most + 1

LEMMA OptionTypes ==
    ASSUME options \in Options
    PROVE  /\ options.rise \in Nat /\ options.fall \in Nat /\ Most \in Nat
           /\ options.rise <= Most /\ options.fall <= Most
  <1>1. options.rise \in Nat /\ options.fall \in Nat
    BY HealthAssumption
  <1> QED BY <1>1 DEF Most

\* A streak is counted up to one more than is ever asked for.
LEMMA MoreIs ==
    ASSUME NEW n \in Nat, Most \in Nat, n <= Most + 1
    PROVE  /\ More(n) \in 1..Most + 1
           /\ More(n) > Most \/ More(n) = n + 1
           /\ n > Most => More(n) > Most
BY DEF More

LEMMA SuccessDecides ==
    ASSUME options' = options, options \in Options, MachineTypes, StreakInv,
           state # "DISABLED", good' = More(good), bad' = 0, Succeeded
    PROVE  MachineTypes' /\ StreakInv' /\ Verdict
  <1> DEFINE rise == options.rise
             most == Most
             g == More(good)
  <1>1. /\ rise \in Nat /\ most \in Nat /\ rise <= most /\ Most' = most
        /\ good \in Nat /\ checks \in Nat /\ checks <= most + 1
        /\ g \in 1..most + 1 /\ (g > most \/ g = good + 1) /\ (good > most => g > most)
    BY OptionTypes, MoreIs DEF MachineTypes, Most
  <1>2. options'.rise = rise /\ good' = g /\ bad' = 0
    OBVIOUS
  <1> HIDE DEF rise, most, g
  <1>3. g >= 1
    BY <1>1
  <1>4. CASE state = "INIT" /\ rise <= 1
    <2>1. state' = "UP" /\ checks' = checks
      BY <1>4 DEF Succeeded, rise
    <2>2. Verdict
      BY <1>1, <1>2, <1>3, <1>4, <2>1 DEF Verdict, AtLeastOne, rise
    <2>3. MachineTypes'
      BY <1>1, <1>2, <2>1 DEF MachineTypes, States
    <2> QED BY <2>1, <2>2, <2>3 DEF StreakInv
  <1>5. CASE state \in {"INIT", "FALLING", "DOWN"} /\ ~(state = "INIT" /\ rise <= 1)
    <2>1. checks' = 1 /\ state' = trigger("RISING")
      BY <1>5 DEF Succeeded, Turn, rise
    <2>2. trigger("RISING") = IF rise <= 1 THEN "UP" ELSE "RISING"
      BY DEF trigger, rise
    <2>3. MachineTypes'
      BY <1>1, <1>2, <2>1, <2>2 DEF MachineTypes, States
    <2>4. Verdict
      BY <1>1, <1>2, <1>3, <2>1, <2>2 DEF Verdict, AtLeastOne, rise
    <2>5. StreakInv'
      BY <1>1, <1>2, <1>3, <2>1, <2>2 DEF StreakInv, rise
    <2> QED BY <2>3, <2>4, <2>5
  <1>6. CASE state = "RISING"
    <2>1. checks' = checks + 1 /\ state' = IF checks + 1 >= rise THEN "UP" ELSE state
      BY <1>6 DEF Succeeded, Count, rise
    <2>2. rise >= 2 /\ checks \in 1 .. rise - 1 /\ (good >= checks \/ good > most)
      BY <1>6 DEF StreakInv, rise, most
    <2>3. g >= checks + 1 \/ g > most
      BY <1>1, <2>2
    <2>4. MachineTypes'
      BY <1>1, <1>2, <1>6, <2>1, <2>2 DEF MachineTypes, States
    <2>5. Verdict
      BY <1>1, <1>2, <2>1, <2>2, <2>3, <1>6 DEF Verdict, AtLeastOne, rise
    <2>6. StreakInv'
      BY <1>1, <1>2, <1>6, <2>1, <2>2, <2>3 DEF StreakInv, rise
    <2> QED BY <2>4, <2>5, <2>6
  <1>7. CASE state \in {"UP", "DISABLED"}
    <2>1. state' = state /\ checks' = checks
      BY <1>7 DEF Succeeded
    <2>2. MachineTypes'
      BY <1>1, <1>2, <2>1 DEF MachineTypes
    <2> QED BY <1>7, <2>1, <2>2 DEF StreakInv, Verdict
  <1> QED BY <1>4, <1>5, <1>6, <1>7 DEF MachineTypes, States

LEMMA FailureDecides ==
    ASSUME options' = options, options \in Options, MachineTypes, StreakInv,
           state # "DISABLED", bad' = More(bad), good' = 0, Failed
    PROVE  MachineTypes' /\ StreakInv' /\ Verdict
  <1> DEFINE fall == options.fall
             most == Most
             b == More(bad)
  <1>1. /\ fall \in Nat /\ most \in Nat /\ fall <= most /\ Most' = most
        /\ bad \in Nat /\ checks \in Nat /\ checks <= most + 1
        /\ b \in 1..most + 1 /\ (b > most \/ b = bad + 1) /\ (bad > most => b > most)
    BY OptionTypes, MoreIs DEF MachineTypes, Most
  <1>2. options'.fall = fall /\ bad' = b /\ good' = 0
    OBVIOUS
  <1> HIDE DEF fall, most, b
  <1>3. b >= 1
    BY <1>1
  <1>4. CASE state \in {"INIT", "RISING", "UP"}
    <2>1. checks' = 1 /\ state' = trigger("FALLING")
      BY <1>4 DEF Failed, Turn
    <2>2. trigger("FALLING") = IF fall <= 1 THEN "DOWN" ELSE "FALLING"
      BY DEF trigger, fall
    <2>3. MachineTypes'
      BY <1>1, <1>2, <2>1, <2>2 DEF MachineTypes, States
    <2>4. Verdict
      BY <1>1, <1>2, <1>3, <2>1, <2>2 DEF Verdict, AtLeastOne, fall
    <2>5. StreakInv'
      BY <1>1, <1>2, <1>3, <2>1, <2>2 DEF StreakInv, fall
    <2> QED BY <2>3, <2>4, <2>5
  <1>5. CASE state = "FALLING"
    <2>1. checks' = checks + 1 /\ state' = IF checks + 1 >= fall THEN "DOWN" ELSE state
      BY <1>5 DEF Failed, Count, fall
    <2>2. fall >= 2 /\ checks \in 1 .. fall - 1 /\ (bad >= checks \/ bad > most)
      BY <1>5 DEF StreakInv, fall, most
    <2>3. b >= checks + 1 \/ b > most
      BY <1>1, <2>2
    <2>4. MachineTypes'
      BY <1>1, <1>2, <1>5, <2>1, <2>2 DEF MachineTypes, States
    <2>5. Verdict
      BY <1>1, <1>2, <2>1, <2>2, <2>3, <1>5 DEF Verdict, AtLeastOne, fall
    <2>6. StreakInv'
      BY <1>1, <1>2, <1>5, <2>1, <2>2, <2>3 DEF StreakInv, fall
    <2> QED BY <2>4, <2>5, <2>6
  <1>6. CASE state \in {"DOWN", "DISABLED"}
    <2>1. state' = state /\ checks' = checks
      BY <1>6 DEF Failed
    <2>2. MachineTypes'
      BY <1>1, <1>2, <2>1 DEF MachineTypes
    <2> QED BY <1>6, <2>1, <2>2 DEF StreakInv, Verdict
  <1> QED BY <1>4, <1>5, <1>6 DEF MachineTypes, States

LEMMA Decides ==
    ASSUME options' = options, options \in Options, MachineTypes, StreakInv, Decide
    PROVE  MachineTypes' /\ StreakInv' /\ Verdict
  <1>1. CASE state' = "DISABLED" /\ good' = 0 /\ bad' = 0 /\ UNCHANGED checks
    <2>1. Most' = Most /\ Most \in Nat
      BY OptionTypes DEF Most
    <2> QED BY <1>1, <2>1 DEF MachineTypes, States, StreakInv, Verdict
  <1>2. CASE ~Disabled
    <2>1. \/ good' = More(good) /\ bad' = 0
          \/ bad' = More(bad) /\ good' = 0
      BY <1>2 DEF Decide
    <2>2. CASE state = "DISABLED"
      <3>1. state' = "INIT" /\ checks' = checks
        BY <1>2, <2>2 DEF Decide
      <3>2. Most' = Most /\ Most \in Nat
        BY OptionTypes DEF Most
      <3>3. More(good) \in 0..Most + 1 /\ More(bad) \in 0..Most + 1
        BY <3>2, MoreIs DEF MachineTypes
      <3> QED BY <2>1, <3>1, <3>2, <3>3 DEF MachineTypes, States, StreakInv, Verdict
    <2>3. CASE state # "DISABLED"
      <3>1. \/ good' = More(good) /\ bad' = 0 /\ Succeeded
            \/ bad' = More(bad) /\ good' = 0 /\ Failed
        BY <1>2, <2>3 DEF Decide
      <3> QED BY <2>3, <3>1, SuccessDecides, FailureDecides
    <2> QED BY <2>2, <2>3
  <1> QED BY <1>1, <1>2 DEF Decide

---------------------------------------------------------------------------
(* Types.                                                                  *)

LEMMA CommandTypes ==
    ASSUME HealthTypeOK
    PROVE  /\ Command(target) \in As
           /\ target # "UP" => Command(target) # "UP"
           /\ target = "EXIT" => Command(target) = "none"
BY DEF HealthTypeOK, Command, As, Spoken

LEMMA SaidPipe ==
    ASSUME HealthTypeOK, Say
    PROVE  /\ pipe' \in Seq(Written) /\ Len(pipe') = Len(pipe) + 1
           /\ \A k \in 1 .. Len(pipe) : pipe'[k] = pipe[k]
           /\ pipe'[Len(pipe) + 1] = [ip |-> said + 1, as |-> Command(target)]
  <1> DEFINE w == [ip |-> said + 1, as |-> Command(target)]
  <1>1. said + 1 \in Address
    BY HealthAssumption DEF HealthTypeOK, Say, Address
  <1>2. w \in Written
    BY <1>1, CommandTypes DEF Written
  <1>3. pipe \in Seq(Written) /\ pipe' = Append(pipe, w)
    BY DEF HealthTypeOK, Say, Written, As
  <1> HIDE DEF w
  <1> QED BY <1>2, <1>3, AppendProperties DEF w

\* Both what executes a command and what refuses it take the first.
LEMMA TakenPipe ==
    ASSUME HealthTypeOK, pipe # <<>>, pipe' = Tail(pipe)
    PROVE  /\ pipe' \in Seq(Written) /\ Len(pipe) \in Nat \ {0} /\ Len(pipe') = Len(pipe) - 1
           /\ \A k \in 1 .. Len(pipe') : pipe'[k] = pipe[k + 1]
           /\ Head(pipe) = pipe[1] /\ pipe[1] \in Written
           /\ pipe[1].ip \in Address /\ pipe[1].as \in As
  <1>1. pipe \in Seq(Written)
    BY DEF HealthTypeOK, Written, As
  <1>2. Head(pipe) = pipe[1] /\ pipe[1] \in Written
    BY <1>1, HeadTailProperties, EmptySeq, ElementOfSeq
  <1>3. pipe[1].ip \in Address /\ pipe[1].as \in As
    BY <1>2 DEF Written
  <1> QED BY <1>1, <1>2, <1>3, HeadTailProperties, EmptySeq

LEMMA HealthTypeStep ==
    ASSUME HealthTypeOK, StreakInv, [HealthNext]_healthVars
    PROVE  HealthTypeOK'
  <1>0. /\ MachineTypes /\ options \in Options /\ options.rise \in Nat /\ options.fall \in Nat
        /\ Ips \in Nat /\ PipeSize \in Nat /\ Faults \in Nat /\ Len(pipe) \in Nat
    BY OptionTypes, HealthAssumption, LenProperties DEF HealthTypeOK, MachineTypes
  <1>1. CASE one
    <2>1. UNCHANGED <<options, world, handler, peer, shifted>> /\ Decide
      BY <1>1 DEF one
    <2>2. MachineTypes'
      BY <1>0, <2>1, Decides
    <2>3. /\ target' \in Spoken /\ said' \in 0..Ips
          /\ setup' \subseteq Address /\ unset' \subseteq Address /\ warned' \subseteq Address
          /\ pc' \in {"check", "say", "reply", "sleep", "ended", "failed", "done"}
      <3>1. CASE state' \in Spoken /\ Speak(state') /\ UNCHANGED host
        BY <1>0, <3>1 DEF Speak, host, HealthTypeOK
      <3>2. CASE pc' = "sleep" /\ UNCHANGED <<target, said, host>>
        BY <3>2 DEF host, HealthTypeOK
      <3>3. CASE state' \in Spoken /\ Restore(state')
        BY <1>0, <3>3 DEF Restore, Speak, Missing, HealthTypeOK
      <3> QED BY <1>1, <3>1, <3>2, <3>3 DEF one
    <2> QED BY <2>1, <2>2, <2>3 DEF HealthTypeOK, MachineTypes, world, peer
  <1>2. CASE Say
    <2>1. /\ said' \in 0..Ips
          /\ pc' \in {"check", "say", "reply", "sleep", "ended", "failed", "done"}
      BY <1>0, <1>2 DEF Say, HealthTypeOK
    <2>2. pipe' \in Seq(Written) /\ Len(pipe') <= PipeSize
      BY <1>0, <1>2, SaidPipe DEF Say
    <2>3. Most' = Most
      BY <1>2 DEF Say, Most
    <2> QED BY <1>2, <2>1, <2>2, <2>3 DEF Say, HealthTypeOK, Written, As, world, machine, host
  <1>3. CASE Reply
    <2>1. answers' \in Nat
      BY <1>3 DEF Reply, HealthTypeOK
    <2>2. Most' = Most
      BY <1>3 DEF Reply, Most
    <2> QED BY <1>3, <2>1, <2>2 DEF Reply, HealthTypeOK, world, machine, host
  <1>4. CASE Said
    <2>1. /\ setup' \subseteq Address /\ warned' \subseteq Address
          /\ pc' \in {"check", "say", "reply", "sleep", "ended", "failed", "done"}
      BY <1>4 DEF Said, Remove, HealthTypeOK
    <2>2. Most' = Most
      BY <1>4 DEF Said, Most
    <2> QED BY <1>4, <2>1, <2>2 DEF Said, HealthTypeOK, world, machine, peer, host
  <1>5. CASE Sleep
    <2>1. Most' = Most
      BY <1>5 DEF Sleep, Most
    <2> QED BY <1>5, <2>1 DEF Sleep, HealthTypeOK, world, machine, peer, host
  <1>6. CASE ServiceChanges \/ FileChanges
    <2>1. Most' = Most
      BY <1>6 DEF ServiceChanges, FileChanges, Most
    <2>2. service' \in BOOLEAN /\ file' \in BOOLEAN
      BY <1>6 DEF ServiceChanges, FileChanges, HealthTypeOK
    <2> QED BY <1>6, <2>1, <2>2 DEF ServiceChanges, FileChanges, HealthTypeOK, machine, talk, peer, host
  <1>7. CASE Sigterm
    <2>1. Most' = Most
      BY <1>7 DEF Sigterm, Most
    <2>2. shifted' \in BOOLEAN
      BY <1>7 DEF Sigterm, Speak, HealthTypeOK
    <2>3. target' \in Spoken /\ said' \in 0..Ips /\ handler' \in {"no", "runs", "nested"}
      BY <1>0, <1>7 DEF Sigterm, Speak, Spoken
    <2> QED BY <1>7, <2>1, <2>2, <2>3 DEF Sigterm, Speak, HealthTypeOK, world, machine, peer, host
  <1>8. CASE Execute
    <2>1. Most' = Most
      BY <1>8 DEF Execute, Most
    <2>2. pipe' \in Seq(Written) /\ Len(pipe') <= PipeSize
      BY <1>0, <1>8, TakenPipe DEF Execute, HealthTypeOK
    <2>3. announced' \in [Address -> As]
      <3>1. announced' = [announced EXCEPT ![pipe[1].ip] = pipe[1].as]
        BY <1>8, TakenPipe DEF Execute
      <3> QED BY <1>8, <3>1, TakenPipe DEF HealthTypeOK, As, Execute
    <2>4. answers' \in Nat
      BY <1>8 DEF Execute, HealthTypeOK
    <2> QED BY <1>8, <2>1, <2>2, <2>3, <2>4
         DEF Execute, HealthTypeOK, Written, As, world, machine, talk, host
  <1>9. CASE Refuse
    <2>1. Most' = Most
      BY <1>9 DEF Refuse, Most
    <2>2. pipe' \in Seq(Written) /\ Len(pipe') <= PipeSize
      BY <1>0, <1>9, TakenPipe DEF Refuse, HealthTypeOK
    <2>3. answers' \in Nat /\ faults' \in 0..Faults
      BY <1>0, <1>9 DEF Refuse, Fault, HealthTypeOK
    <2>4. refused' \in BOOLEAN /\ shifted' \in BOOLEAN
      BY <1>9 DEF Refuse, HealthTypeOK
    <2> QED BY <1>9, <2>1, <2>2, <2>3, <2>4
         DEF Refuse, HealthTypeOK, Written, As, world, machine, talk, host
  <1>10. CASE LoseTable
    <2>1. Most' = Most
      BY <1>10 DEF LoseTable, Most
    <2>2. faults' \in 0..Faults
      BY <1>0, <1>10 DEF LoseTable, Fault, HealthTypeOK
    <2>3. announced' \in [Address -> As]
      BY <1>10 DEF LoseTable, As
    <2> QED BY <1>10, <2>1, <2>2, <2>3 DEF LoseTable, HealthTypeOK, As, world, machine, talk, host
  <1>11. CASE UNCHANGED healthVars
    <2>1. Most' = Most
      BY <1>11 DEF healthVars, Most
    <2> QED BY <1>11, <2>1 DEF HealthTypeOK, healthVars, world, machine, talk, peer, host
  <1> QED BY <1>1, <1>2, <1>3, <1>4, <1>5, <1>6, <1>7, <1>8, <1>9, <1>10, <1>11
       DEF HealthNext, HelperStep, WorldStep

---------------------------------------------------------------------------
(* Each action keeps each part of the invariant.                           *)

LEMMA OptionsStay ==
    ASSUME [HealthNext]_healthVars
    PROVE  /\ options' = options /\ (Waits' <=> Waits) /\ (Sets' <=> Sets)
           /\ \A switch : on(switch)' <=> on(switch)
  <1>1. options' = options
    BY DEF HealthNext, HelperStep, WorldStep, one, Say, Reply, Said, Sleep, Execute,
           ServiceChanges, FileChanges, Sigterm, Refuse, LoseTable, healthVars
  <1> QED BY <1>1 DEF Waits, Sets, on

LEMMA StreakStep ==
    ASSUME HealthTypeOK, StreakInv, [HealthNext]_healthVars
    PROVE  StreakInv' /\ Verdict
  <1>1. CASE one
    <2>1. options' = options /\ Decide
      BY <1>1 DEF one
    <2> QED BY <2>1, Decides DEF HealthTypeOK, MachineTypes
  <1>2. CASE UNCHANGED <<options, state, checks, good, bad>>
    <2>1. Most' = Most
      BY <1>2 DEF Most
    <2> QED BY <1>2, <2>1 DEF StreakInv, Verdict
  <1> QED BY <1>1, <1>2
       DEF HealthNext, HelperStep, WorldStep, Say, Reply, Said, Sleep, Execute,
           ServiceChanges, FileChanges, Sigterm, Refuse, LoseTable, healthVars, machine

LEMMA NestedStep ==
    ASSUME NestedInv, [HealthNext]_healthVars
    PROVE  NestedInv'
  <1>1. CASE one \/ Say \/ Reply \/ Said \/ Sleep
    BY <1>1, HealthAssumption DEF NestedInv, one, Say, Reply, Said, Sleep
  <1>2. CASE Sigterm
    BY <1>2 DEF NestedInv, Sigterm, Speak
  <1>3. CASE UNCHANGED talk
    BY <1>3 DEF NestedInv, talk
  <1> QED BY <1>1, <1>2, <1>3
       DEF HealthNext, HelperStep, WorldStep, Execute, ServiceChanges, FileChanges,
           Refuse, LoseTable, healthVars

LEMMA StepStep ==
    ASSUME HealthTypeOK, NestedInv, StepInv, [HealthNext]_healthVars
    PROVE  StepInv'
  <1> SUFFICES ASSUME InStep' PROVE
           \/ pc' # "reply" /\ pipe' = <<>> /\ answers' = 0
           \/ pc' = "reply" /\ pipe' = <<>> /\ answers' = 1
           \/ /\ pc' = "reply" /\ answers' = 0
              /\ pipe' = <<[ip |-> said', as |-> Command(target)']>>
    BY DEF StepInv
  <1>1. options' = options /\ Waits /\ ~shifted' /\ handler' # "nested"
    BY OptionsStay DEF InStep
  <1>2. Command(target)' = IF target' = "EXIT" \/ (on("withdraw_on_down") /\ target' # "UP")
                           THEN "none" ELSE target'
    BY <1>1 DEF Command, on
  <1>3. CASE one
    <2>1. StepInv /\ InStep
      BY <1>1, <1>3 DEF one, InStep
    <2> QED BY <1>3, <2>1 DEF one, StepInv, Speak, Restore, peer
  <1>4. CASE Say
    <2>1. InStep /\ pc = "say"
      BY <1>1, <1>4 DEF Say, InStep
    <2>2. pipe = <<>> /\ answers = 0
      BY <2>1 DEF StepInv
    <2>3. pipe' = <<[ip |-> said + 1, as |-> Command(target)]>>
      <3>1. pipe' = Append(pipe, [ip |-> said + 1, as |-> Command(target)])
        BY <1>4 DEF Say
      <3> QED BY <2>2, <3>1
    <2>4. Command(target)' = Command(target)
      BY <1>2, <1>4 DEF Say, Command
    <2> QED BY <1>1, <1>4, <2>1, <2>2, <2>3, <2>4 DEF Say, InStep
  <1>5. CASE Reply
    <2>1. InStep
      BY <1>1, <1>5 DEF Reply, InStep
    <2> QED BY <1>5, <2>1 DEF Reply, StepInv
  <1>6. CASE Said \/ Sleep
    <2>1. InStep
      BY <1>1, <1>6 DEF Said, Sleep, InStep
    <2> QED BY <1>6, <2>1 DEF Said, Sleep, StepInv, peer
  <1>7. CASE Sigterm
    <2>1. pc # "reply" /\ InStep
      BY <1>1, <1>7 DEF Sigterm, InStep
    <2> QED BY <1>7, <2>1 DEF Sigterm, Speak, StepInv, peer
  <1>8. CASE Execute
    <2>1. InStep
      BY <1>1, <1>8 DEF Execute, InStep, talk
    <2>2. pc = "reply" /\ answers = 0 /\ pipe = <<[ip |-> said, as |-> Command(target)]>>
      BY <1>8, <2>1 DEF Execute, StepInv
    <2>3. pipe' = <<>> /\ answers' = 1
      <3>1. pipe' = Tail(pipe) /\ answers' = answers + 1
        BY <1>1, <1>8 DEF Execute
      <3> QED BY <2>2, <3>1
    <2> QED BY <1>8, <2>2, <2>3 DEF Execute, talk
  <1>9. CASE Refuse
    BY <1>1, <1>9 DEF Refuse
  <1>10. CASE UNCHANGED <<options, talk, pipe, answers, shifted>>
    <2>1. InStep /\ Command(target)' = Command(target)
      BY <1>1, <1>2, <1>10 DEF InStep, talk, Command
    <2> QED BY <1>10, <2>1 DEF StepInv, talk
  <1> QED BY <1>3, <1>4, <1>5, <1>6, <1>7, <1>8, <1>9, <1>10
       DEF HealthNext, HelperStep, WorldStep, ServiceChanges, FileChanges,
           LoseTable, healthVars, peer

\* What a command that is executed or refused leaves of the pipe was in it.
LEMMA TailSays ==
    ASSUME HealthTypeOK, pipe # <<>>, pipe' = Tail(pipe),
           \A k \in 1 .. Len(pipe) : pipe[k].as = "UP" => pipe[k].ip \in Held
    PROVE  \A k \in 1 .. Len(pipe') : pipe'[k].as = "UP" => pipe'[k].ip \in Held
  <1> TAKE k \in 1 .. Len(pipe')
  <1>1. k + 1 \in 1 .. Len(pipe) /\ pipe'[k] = pipe[k + 1]
    BY TakenPipe
  <1> QED BY <1>1

LEMMA PipeAddresses ==
    ASSUME HealthTypeOK
    PROVE  \A k \in 1 .. Len(pipe) : pipe[k].ip \in Address
  <1>1. pipe \in Seq(Written)
    BY DEF HealthTypeOK, Written, As
  <1>2. \A k \in 1 .. Len(pipe) : pipe[k] \in Written
    BY <1>1, ElementOfSeq
  <1> QED BY <1>2 DEF Written

LEMMA ReachStep ==
    ASSUME HealthTypeOK, NestedInv, StepInv, ReachInv, [HealthNext]_healthVars
    PROVE  ReachInv'
  <1> SUFFICES ASSUME Sets, Waits, ~shifted' PROVE
           /\ \A ip \in Address : announced'[ip] = "UP" => ip \in Held'
           /\ \A k \in 1 .. Len(pipe') : pipe'[k].as = "UP" => pipe'[k].ip \in Held'
           /\ target' = "UP" /\ pc' \in {"say", "reply"} => Address \subseteq Held'
           /\ ~on("ip_dynamic") /\ pc' # "ended" => Address \subseteq Held'
           /\ handler' # "nested" /\ target' # "UP" /\ pc' \in {"say", "reply"} =>
                \A ip \in 1..said' :
                   announced'[ip] # "UP" \/ (pc' = "reply" /\ ip = said' /\ pipe' # <<>>)
    <2>1. options' = options
      BY OptionsStay
    <2>2. (Sets' <=> Sets) /\ (Waits' <=> Waits)
          /\ (on("ip_dynamic")' <=> on("ip_dynamic"))
      BY <2>1 DEF Sets, Waits, on
    <2> QED BY <2>2 DEF ReachInv, Address
  <1>1. ~shifted
    BY DEF HealthNext, HelperStep, WorldStep, one, Say, Reply, Said, Sleep, Execute,
           ServiceChanges, FileChanges, Sigterm, Refuse, LoseTable, healthVars, HealthTypeOK
  <1>2. /\ \A ip \in Address : announced[ip] = "UP" => ip \in Held
        /\ \A k \in 1 .. Len(pipe) : pipe[k].as = "UP" => pipe[k].ip \in Held
        /\ target = "UP" /\ pc \in {"say", "reply"} => Address \subseteq Held
        /\ ~on("ip_dynamic") /\ pc # "ended" => Address \subseteq Held
        /\ handler # "nested" /\ target # "UP" /\ pc \in {"say", "reply"} =>
             \A ip \in 1..said :
                announced[ip] # "UP" \/ (pc = "reply" /\ ip = said /\ pipe # <<>>)
    BY <1>1 DEF ReachInv
  <1>3. CASE one
    <2>1. CASE Speak(state') /\ UNCHANGED host /\ ~(state' = "UP" /\ on("ip_dynamic"))
      <3>1. said' = 0 /\ Held' = Held /\ target' = state'
            /\ pc = "check" /\ UNCHANGED <<announced, pipe, handler>>
        BY <1>3, <2>1 DEF one, Speak, peer, host, Held
      <3> QED BY <1>2, <2>1, <3>1
    <2>2. CASE pc' = "sleep" /\ UNCHANGED <<target, said, host>>
      <3>1. Held' = Held /\ UNCHANGED <<announced, pipe, handler>> /\ pc = "check"
        BY <1>3, <2>2 DEF one, peer, host, Held
      <3> QED BY <1>2, <2>2, <3>1
    <2>3. CASE Restore(state') /\ on("ip_dynamic")
      <3>1. PICK added \in SUBSET Missing :
              /\ setup' = setup \cup added
              /\ \/ unset' = Missing \ added /\ said' = 0
                 \/ pc' = "failed" /\ UNCHANGED <<unset, target, said>>
        BY <2>3 DEF Restore, Speak
      <3>2. \A ip \in Address : ip \in Held => ip \in Held'
        BY <3>1 DEF Held, Missing
      <3>3. pc' # "failed" => Address \subseteq Held'
        BY <3>1 DEF Held, Missing
      <3>4. UNCHANGED <<announced, pipe, handler>> /\ \A k \in 1 .. Len(pipe) : pipe[k].ip \in Address
        BY <1>3, PipeAddresses DEF one, peer
      <3>5. pc' # "failed" => 1..said' = {}
        BY <3>1
      <3> QED BY <1>2, <2>3, <3>2, <3>3, <3>4, <3>5
    <2> QED BY <1>3, <2>1, <2>2, <2>3 DEF one
  <1>4. CASE Say
    <2>1. /\ pipe' \in Seq(Written) /\ Len(pipe') = Len(pipe) + 1 /\ Len(pipe) \in Nat
          /\ \A k \in 1 .. Len(pipe) : pipe'[k] = pipe[k]
          /\ pipe'[Len(pipe) + 1] = [ip |-> said + 1, as |-> Command(target)]
      BY <1>4, SaidPipe, LenProperties DEF HealthTypeOK
    <2>2. /\ UNCHANGED <<announced, target, handler>> /\ said' = said + 1 /\ said \in Nat
          /\ Held' = Held /\ pc = "say" /\ said + 1 \in Address
      BY <1>4, HealthAssumption DEF Say, HealthTypeOK, host, Held, Address
    <2>3. handler # "nested" => pc' = "reply"
      BY <1>4 DEF Say
    <2>4. pipe' # <<>>
      BY <2>1, EmptySeq
    <2>5. ASSUME NEW k \in 1 .. Len(pipe'), pipe'[k].as = "UP" PROVE pipe'[k].ip \in Held'
      <3>1. CASE k \in 1 .. Len(pipe)
        BY <1>2, <2>1, <2>2, <2>5, <3>1
      <3>2. CASE k = Len(pipe) + 1
        <4>1. Command(target) = "UP" /\ pipe'[k].ip = said + 1
          BY <2>1, <2>5, <3>2
        <4> QED BY <1>2, <2>2, <4>1, CommandTypes
      <3> QED BY <2>1, <3>1, <3>2
    <2>6. ASSUME handler' # "nested", target' # "UP", NEW ip \in 1..said'
          PROVE  announced'[ip] # "UP" \/ (pc' = "reply" /\ ip = said' /\ pipe' # <<>>)
      <3>1. CASE ip \in 1..said
        BY <1>2, <2>2, <2>6, <3>1
      <3>2. CASE ip = said + 1
        BY <2>2, <2>3, <2>4, <2>6, <3>2
      <3> QED BY <2>2, <3>1, <3>2
    <2>7. pc' # "ended" /\ pc # "ended"
      BY <1>4 DEF Say
    <2> QED BY <1>2, <2>2, <2>5, <2>6, <2>7
  <1>5. CASE Reply
    <2>1. UNCHANGED <<announced, target, handler, pipe, said>> /\ pc' = "say" /\ pc = "reply"
          /\ answers > 0 /\ Held' = Held
      BY <1>5 DEF Reply, host, Held
    <2>2. handler # "nested" => pipe = <<>>
      BY <1>1, <2>1 DEF StepInv, InStep
    <2> QED BY <1>2, <2>1, <2>2
  <1>6. CASE Said
    <2>1. /\ UNCHANGED <<announced, target, handler, pipe, said>> /\ (~Removed => Held' = Held)
          /\ pc = "say" /\ said = Ips
          /\ pc' \in {"ended", "done", "sleep"}
          /\ pc' = "ended" <=> target = "EXIT"
      BY <1>6 DEF Said, peer, Held
    <2>2. handler # "nested"
      BY <2>1, HealthAssumption DEF NestedInv
    <2>3. pipe = <<>>
      BY <1>1, <2>1, <2>2 DEF StepInv, InStep
    <2>4. CASE Removed
      <3>1. target # "UP"
        BY <2>4 DEF Removed
      <3>2. \A ip \in Address : announced[ip] # "UP"
        BY <1>2, <2>1, <2>2, <3>1 DEF Address
      <3>3. ~on("ip_dynamic") => pc' = "ended"
        BY <2>1, <2>4 DEF Removed
      <3>4. Len(pipe') = 0
        BY <2>1, <2>3
      <3> QED BY <2>1, <3>2, <3>3, <3>4
    <2>5. CASE ~Removed
      <3>1. Held' = Held
        BY <2>1, <2>5
      <3> QED BY <1>2, <2>1, <3>1
    <2> QED BY <2>4, <2>5
  <1>7. CASE Sleep
    BY <1>2, <1>7 DEF Sleep, peer, host, Held
  <1>8. CASE Sigterm
    <2>1. /\ UNCHANGED <<announced, pipe>> /\ target' = "EXIT" /\ said' = 0
          /\ Held' = Held /\ pc # "ended"
      BY <1>8 DEF Sigterm, Speak, peer, host, Held
    <2>2. 1..said' = {}
      BY <2>1
    <2> QED BY <1>2, <2>1, <2>2
  <1>9. CASE Execute
    <2>1. /\ UNCHANGED <<target, handler, said, pc>> /\ Held' = Held /\ pipe # <<>> /\ pipe' = Tail(pipe)
          /\ announced' = [announced EXCEPT ![pipe[1].ip] = pipe[1].as]
      BY <1>9, TakenPipe DEF Execute, talk, host, Held
    <2>2. pipe[1].ip \in Address /\ Len(pipe) \in Nat \ {0}
          /\ announced \in [Address -> As]
      BY <2>1, TakenPipe DEF HealthTypeOK, As
    <2>3. \A ip \in Address : announced'[ip] = IF ip = pipe[1].ip THEN pipe[1].as ELSE announced[ip]
      BY <2>1, <2>2
    <2>4. ASSUME NEW ip \in Address, announced'[ip] = "UP" PROVE ip \in Held'
      BY <1>2, <2>1, <2>2, <2>3, <2>4
    <2>5. \A k \in 1 .. Len(pipe') : pipe'[k].as = "UP" => pipe'[k].ip \in Held'
      BY <1>2, <2>1, TailSays
    <2>6. ASSUME handler # "nested", target # "UP", pc \in {"say", "reply"}, NEW ip \in 1..said
          PROVE  announced'[ip] # "UP"
      <3>1. pc = "reply" /\ pipe = <<[ip |-> said, as |-> Command(target)]>>
        BY <1>1, <2>1, <2>6 DEF StepInv, InStep
      <3>2. pipe[1].ip = said /\ pipe[1].as = Command(target)
        BY <3>1
      <3>3. ip \in Address
        BY HealthAssumption DEF HealthTypeOK, Address
      <3> QED BY <1>2, <2>3, <2>6, <3>2, <3>3, CommandTypes
    <2> QED BY <1>2, <2>1, <2>4, <2>5, <2>6
  <1>10. CASE Refuse
    BY <1>10 DEF Refuse
  <1>11. CASE LoseTable
    BY <1>2, <1>11, HealthAssumption DEF LoseTable, talk, host, Held, HealthTypeOK, Address
  <1>12. CASE UNCHANGED <<talk, peer, host, shifted>>
    BY <1>2, <1>12 DEF talk, peer, host, Held
  <1> QED BY <1>3, <1>4, <1>5, <1>6, <1>7, <1>8, <1>9, <1>10, <1>11, <1>12
       DEF HealthNext, HelperStep, WorldStep, ServiceChanges, FileChanges, healthVars

\* The last command for an address stays the last, or is executed.
LEMMA ClearedStays ==
    ASSUME HealthTypeOK, NEW ip \in Address, Cleared(ip),
           \/ UNCHANGED <<pipe, announced>>
           \/ UNCHANGED pipe /\ announced' = [a \in Address |-> "none"]
           \/ Execute
           \/ Say /\ ip # said + 1
    PROVE  Cleared(ip)'
  <1>0. Len(pipe) \in Nat
    BY LenProperties DEF HealthTypeOK
  <1>1. CASE UNCHANGED <<pipe, announced>>
    BY <1>1 DEF Cleared
  <1>2. CASE UNCHANGED pipe /\ announced' = [a \in Address |-> "none"]
    BY <1>2 DEF Cleared
  <1>3. CASE Execute
    <2>1. /\ Len(pipe) \in Nat \ {0} /\ Len(pipe') = Len(pipe) - 1
          /\ \A k \in 1 .. Len(pipe') : pipe'[k] = pipe[k + 1]
          /\ pipe[1].ip \in Address
          /\ announced' = [announced EXCEPT ![pipe[1].ip] = pipe[1].as]
      BY <1>3, TakenPipe DEF Execute
    <2>2. announced'[ip] = IF pipe[1].ip = ip THEN pipe[1].as ELSE announced[ip]
      BY <2>1 DEF HealthTypeOK
    <2>3. CASE announced[ip] = "none" /\ \A k \in 1 .. Len(pipe) : pipe[k].ip # ip
      <3>1. announced'[ip] = "none"
        BY <2>1, <2>2, <2>3
      <3>2. \A k \in 1 .. Len(pipe') : pipe'[k].ip # ip
        <4> TAKE k \in 1 .. Len(pipe')
        <4>1. k + 1 \in 1 .. Len(pipe)
          BY <2>1
        <4> QED BY <2>1, <2>3, <4>1
      <3> QED BY <3>1, <3>2 DEF Cleared
    <2>4. ASSUME NEW k \in 1 .. Len(pipe), pipe[k] = [ip |-> ip, as |-> "none"],
                 \A j \in k + 1 .. Len(pipe) : pipe[j].ip # ip
          PROVE  Cleared(ip)'
      <3>1. \A j \in k .. Len(pipe') : pipe'[j].ip # ip
        <4> TAKE j \in k .. Len(pipe')
        <4>1. j + 1 \in k + 1 .. Len(pipe) /\ j \in 1 .. Len(pipe')
          BY <2>1
        <4> QED BY <2>1, <2>4, <4>1
      <3>2. CASE k = 1
        <4>1. announced'[ip] = "none"
          BY <2>2, <2>4, <3>2
        <4> QED BY <3>1, <3>2, <4>1 DEF Cleared
      <3>3. CASE k > 1
        <4>1. k - 1 \in 1 .. Len(pipe') /\ (k - 1) + 1 = k
          BY <2>1, <3>3
        <4>2. pipe'[k - 1] = [ip |-> ip, as |-> "none"]
          BY <2>1, <2>4, <4>1
        <4> QED BY <3>1, <4>1, <4>2 DEF Cleared
      <3> QED BY <3>2, <3>3
    <2> QED BY <2>3, <2>4 DEF Cleared
  <1>4. CASE Say /\ ip # said + 1
    <2>1. /\ Len(pipe') = Len(pipe) + 1 /\ announced' = announced
          /\ \A k \in 1 .. Len(pipe) : pipe'[k] = pipe[k]
          /\ pipe'[Len(pipe) + 1].ip # ip
      BY <1>4, SaidPipe DEF Say
    <2>2. CASE announced[ip] = "none" /\ \A k \in 1 .. Len(pipe) : pipe[k].ip # ip
      <3>1. \A k \in 1 .. Len(pipe') : pipe'[k].ip # ip
        BY <1>0, <2>1, <2>2
      <3> QED BY <2>1, <2>2, <3>1 DEF Cleared
    <2>3. ASSUME NEW k \in 1 .. Len(pipe), pipe[k] = [ip |-> ip, as |-> "none"],
                 \A j \in k + 1 .. Len(pipe) : pipe[j].ip # ip
          PROVE  Cleared(ip)'
      <3>1. k \in 1 .. Len(pipe') /\ pipe'[k] = [ip |-> ip, as |-> "none"]
        BY <1>0, <2>1, <2>3
      <3>2. \A j \in k + 1 .. Len(pipe') : pipe'[j].ip # ip
        BY <1>0, <2>1, <2>3
      <3> QED BY <3>1, <3>2 DEF Cleared
    <2> QED BY <2>2, <2>3 DEF Cleared
  <1> QED BY <1>1, <1>2, <1>3, <1>4

LEMMA ExitStep ==
    ASSUME HealthTypeOK, NestedInv, ExitInv, [HealthNext]_healthVars
    PROVE  ExitInv'
  <1>0. options' = options /\ (Sets' <=> Sets)
    BY OptionsStay
  <1> USE <1>0
  <1>1. CASE one
    <2>1. target' # "EXIT" /\ pc' # "ended"
      BY <1>1 DEF one, Speak, Restore, Decide, ExitInv, Succeeded, Failed, Turn, Count, trigger,
                  HealthTypeOK, States
    <2> QED BY <2>1 DEF ExitInv
  <1>2. CASE Say
    <2>1. /\ target' = target /\ said' = said + 1 /\ said \in Nat /\ refused' = refused
          /\ pc' \in {"say", "reply", "failed"}
      BY <1>2 DEF Say, HealthTypeOK
    <2>2. ASSUME target = "EXIT", ~refused, NEW ip \in 1..said' PROVE Cleared(ip)'
      <3>1. ip \in Address /\ said' \in 1..Ips
        BY <1>2, <2>1, HealthAssumption DEF Say, Address, HealthTypeOK
      <3>2. CASE ip = said + 1
        <4>1. /\ Len(pipe') = Len(pipe) + 1 /\ Len(pipe) \in Nat
              /\ pipe'[Len(pipe) + 1] = [ip |-> ip, as |-> "none"]
          BY <1>2, <2>2, <3>2, SaidPipe, CommandTypes, LenProperties DEF HealthTypeOK
        <4>2. Len(pipe) + 1 \in 1 .. Len(pipe')
              /\ \A j \in Len(pipe) + 1 + 1 .. Len(pipe') : FALSE
          BY <4>1
        <4> QED BY <4>1, <4>2 DEF Cleared
      <3>3. CASE ip # said + 1
        <4>1. ip \in 1..said
          BY <2>1, <3>3
        <4>2. Cleared(ip)
          BY <2>2, <4>1 DEF ExitInv
        <4> QED BY <1>2, <3>1, <3>3, <4>2, ClearedStays
      <3> QED BY <3>2, <3>3
    <2> QED BY <2>1, <2>2 DEF ExitInv
  <1>3. CASE Sigterm
    <2>1. target' = "EXIT" /\ pc' = "say" /\ 1..said' = {}
      BY <1>3 DEF Sigterm, Speak
    <2> QED BY <2>1 DEF ExitInv
  <1>4. CASE Execute \/ LoseTable
    <2>1. UNCHANGED <<pc, target, said, setup, warned, refused>>
      BY <1>4 DEF Execute, LoseTable, talk, host
    <2>2. ASSUME NEW ip \in 1..said, Cleared(ip) PROVE Cleared(ip)'
      <3>1. ip \in Address
        BY HealthAssumption DEF HealthTypeOK, Address
      <3> QED BY <1>4, <2>2, <3>1, ClearedStays DEF LoseTable
    <2> QED BY <2>1, <2>2 DEF ExitInv
  <1>5. CASE Refuse
    BY <1>5 DEF Refuse, ExitInv, talk, host
  <1>6. CASE Said
    <2>1. /\ UNCHANGED <<target, said, refused, pipe, announced>> /\ (Removed => setup' \subseteq warned')
          /\ said = Ips
          /\ pc' = IF target = "EXIT" THEN "ended" ELSE IF on("once") THEN "done" ELSE "sleep"
      BY <1>6 DEF Said, Remove, peer
    <2>2. target = "EXIT" /\ Sets => setup' \subseteq warned'
      BY <2>1 DEF Removed, Sets
    <2>3. \A ip : Cleared(ip)' <=> Cleared(ip)
      BY <2>1 DEF Cleared
    <2> QED BY <2>1, <2>2, <2>3 DEF ExitInv
  <1>7. CASE Reply \/ Sleep
    <2>1. /\ UNCHANGED <<target, said, refused, setup, warned, pipe, announced>>
          /\ target = "EXIT" => pc' = "say"
          /\ pc' # "ended"
      BY <1>7 DEF Reply, Sleep, peer, host, ExitInv
    <2>2. \A ip : Cleared(ip)' <=> Cleared(ip)
      BY <2>1 DEF Cleared
    <2> QED BY <2>1, <2>2 DEF ExitInv
  <1>8. CASE UNCHANGED <<talk, peer, host>>
    <2>1. \A ip : Cleared(ip)' <=> Cleared(ip)
      BY <1>8 DEF Cleared, peer
    <2> QED BY <1>8, <2>1 DEF ExitInv, talk, peer, host
  <1> QED BY <1>1, <1>2, <1>3, <1>4, <1>5, <1>6, <1>7, <1>8
       DEF HealthNext, HelperStep, WorldStep, ServiceChanges, FileChanges, healthVars

LEMMA HealthInvInit ==
    ASSUME HealthInit
    PROVE  HealthInv
  <1> USE DEF HealthInit
  <1>1. options.rise \in Nat /\ options.fall \in Nat /\ Most \in Nat
    BY OptionTypes
  <1>2. HealthTypeOK
    <2>1. setup \subseteq Address /\ unset \subseteq Address /\ warned \subseteq Address
      OBVIOUS
    <2>2. pipe \in Seq([ip : Address, as : {"none", "UP", "DOWN", "DISABLED"}]) /\ Len(pipe) = 0
      BY EmptySeq
    <2>3. checks \in 0..Most + 1 /\ good \in 0..Most + 1 /\ bad \in 0..Most + 1
      BY <1>1
    <2>4. said \in 0..Ips /\ faults \in 0..Faults /\ Len(pipe) <= PipeSize
      BY <2>2, HealthAssumption
    <2>5. announced \in [Address -> {"none", "UP", "DOWN", "DISABLED"}]
      OBVIOUS
    <2> QED BY <2>1, <2>2, <2>3, <2>4, <2>5 DEF HealthTypeOK, States, Spoken
  <1>3. StreakInv /\ NestedInv /\ StepInv
    BY DEF StreakInv, NestedInv, StepInv
  <1>4. ReachInv
    <2>1. Len(pipe) = 0
      BY EmptySeq
    <2>2. Sets /\ ~on("ip_dynamic") => Address \subseteq Held
      BY DEF Sets, Held
    <2> QED BY <2>1, <2>2 DEF ReachInv
  <1>5. ExitInv
    BY DEF ExitInv
  <1> QED BY <1>2, <1>3, <1>4, <1>5 DEF HealthInv

LEMMA HealthInvHolds == HealthSpec => []HealthInv
  <1>1. HealthInit => HealthInv
    BY HealthInvInit
  <1>2. HealthInv /\ [HealthNext]_healthVars => HealthInv'
    BY HealthTypeStep, StreakStep, NestedStep, StepStep, ReachStep, ExitStep DEF HealthInv
  <1> QED BY <1>1, <1>2, PTL DEF HealthSpec

---------------------------------------------------------------------------
(* Theorems.                                                               *)

\* The loop of main() keeps its state well typed.
THEOREM HealthTypes == HealthSpec => []HealthTypeOK
  <1>1. HealthInv => HealthTypeOK
    BY DEF HealthInv
  <1> QED BY <1>1, HealthInvHolds, PTL

\* one() says up, or down, only at the end of a full streak of checks.
THEOREM FullStreaks == HealthSpec => Hysteresis
  <1>1. HealthInv /\ [HealthNext]_healthVars =>
          [/\ state # "UP" /\ state' = "UP" => good' >= AtLeastOne(options.rise)
           /\ state # "DOWN" /\ state' = "DOWN" => bad' >= AtLeastOne(options.fall)
          ]_healthVars
    BY StreakStep DEF HealthInv, Verdict
  <1> QED BY <1>1, HealthInvHolds, PTL DEF HealthSpec, Hysteresis

\* exabgp() sets an address before the route is announced, or takes it for set when
\* `ip` refuses, and removes it only once the withdrawal has been acknowledged.
THEOREM AlwaysReachable == HealthSpec => []Reachable
  <1>1. HealthInv => Reachable
    BY DEF HealthInv, ReachInv, Reachable, Sets, Held
  <1> QED BY <1>1, HealthInvHolds, PTL

\* The handler of SIGTERM, if it ends and no command is refused, has withdrawn every
\* address, and removed it from the host or warned that it could not.
THEOREM ExitIsClean == HealthSpec => []CleanExit
  <1>1. HealthInv => CleanExit
    <2> SUFFICES ASSUME HealthInv, pc = "ended", pipe = <<>>, ~refused
                 PROVE  (\A ip \in Address : announced[ip] = "none")
                        /\ (Sets => setup \subseteq warned)
      BY DEF CleanExit, Sets
    <2>1. target = "EXIT" /\ said = Ips /\ (Sets => setup \subseteq warned)
      BY DEF HealthInv, ExitInv
    <2>2. Len(pipe) = 0
      BY EmptySeq
    <2>3. \A ip \in Address : Cleared(ip)
      BY <2>1 DEF HealthInv, ExitInv, Address
    <2> QED BY <2>1, <2>2, <2>3 DEF Cleared
  <1> QED BY <1>1, HealthInvHolds, PTL

==============================================================================
