-------------------------- MODULE ApiCommandsProofs --------------------------
(***************************************************************************)
(* The answers of the helper's commands, for any commands, connections and *)
(* use of the RIB: they come in the order of the commands, none missing    *)
(* but for those dropped, and one in sync mode not before its route is     *)
(* with the remote speaker.                                                *)
(***************************************************************************)
EXTENDS ApiCommands, AdjRibOutProofs, SequenceTheorems

Task == [kind : {"command"}, id : Nat, c : Commands]
          \cup [kind : {"generator"}, left : Nat, refusal : SUBSET Nat]

\* How many commands were taken from the queue they are read into.
Pulled == written - Len(inbox)

\* What is said of the tasks, for the callback run, the queue, the answers, the
\* commands forgotten and the number of commands taken: the numbers of those
\* not answered go up along the queue, above those of the answers, and no
\* number is missing.
IsTask(t, id) == IsCommand(t) /\ t.id = id
InQueue(queue, id) == \E i \in DOMAIN queue : IsTask(queue[i], id)
InLine(running, queue, given, gone, taken) ==
    /\ \A i, j \in DOMAIN given : i < j => given[i] < given[j]
    /\ \A i, j \in DOMAIN queue :
          i < j /\ IsCommand(queue[i]) /\ IsCommand(queue[j]) => queue[i].id < queue[j].id
    /\ \A j \in DOMAIN queue : IsCommand(queue[j]) =>
          /\ queue[j].id \in 1..taken
          /\ IsCommand(running) => running.id < queue[j].id
          /\ \A i \in DOMAIN given : given[i] < queue[j].id
    /\ IsCommand(running) =>
          /\ running.id \in 1..taken
          /\ \A i \in DOMAIN given : given[i] < running.id
    /\ \A i \in DOMAIN given : given[i] \in 1..taken
    /\ \A id \in 1..taken :
          \/ id \in gone
          \/ \E i \in DOMAIN given : given[i] = id
          \/ IsTask(running, id)
          \/ InQueue(queue, id)

TasksTyped ==
    /\ written \in 0..MaxCommands
    /\ inbox \in Seq(Task) /\ Len(inbox) <= written
    /\ \A i \in DOMAIN inbox : IsTask(inbox[i], Pulled + i)
    /\ tasks \in Seq(Task)
    /\ current \in Task \cup {Nobody}
    /\ phase \in {"receive", "coroutines", "mixed"}
    /\ phase = "receive" => current = Nobody
    /\ phase = "mixed" => current # Nobody
    /\ turns \in 0..Limit
    /\ dropped \subseteq 1..Pulled
    /\ answers \in Seq(Nat)

FlushTyped ==
    /\ done \in Nat
    /\ event \in {"none", "registered", "set"}
    /\ event # "none" => Running
    /\ {idle, due, kept} \subseteq BOOLEAN

TypesInv == SessionTypeOK /\ TasksTyped /\ FlushTyped

OrderInv == InLine(current, tasks, answers, dropped, Pulled)

\* The route of a single command whose flush is waited for, from where the
\* commands leave it to where the remote speaker has it.
Single == Len(current.c.do) = 1
The == current.c.do[1]

SentInv ==
    event # "none" /\ idle /\ kept /\ Single =>
        /\ done >= 1
        /\ seen[The.n] = The.p
        /\ session # "closing"
        /\ event = "registered" /\ sending => ~Touched(The.n)
        /\ event = "set" => session = "up" /\ Undisturbed(The.n)

SyncInv == TypesInv /\ InSync /\ SentInv

------------------------------------------------------------------------------
(* Sequences, and the line of tasks.                                         *)

LEMMA Joined ==
    ASSUME NEW S, NEW s \in Seq(S), NEW e \in S
    PROVE  /\ s \o <<e>> = Append(s, e)
           /\ s \o <<>> = s
           /\ Append(s, e) \in Seq(S)
           /\ Len(Append(s, e)) = Len(s) + 1 /\ Len(s) \in Nat
           /\ DOMAIN s = 1..Len(s)
           /\ DOMAIN Append(s, e) = 1..Len(s) + 1
           /\ Append(s, e)[Len(s) + 1] = e
           /\ \A i \in 1..Len(s) : Append(s, e)[i] = s[i]
  BY ConcatEmptySeq, AppendProperties, AppendIsConcat, LenProperties

LEMMA PutFirst ==
    ASSUME NEW S, NEW s \in Seq(S), NEW e \in S
    PROVE  /\ <<e>> \o s \in Seq(S)
           /\ Len(<<e>> \o s) = Len(s) + 1 /\ Len(s) \in Nat
           /\ DOMAIN s = 1..Len(s)
           /\ DOMAIN (<<e>> \o s) = 1..Len(s) + 1
           /\ (<<e>> \o s)[1] = e
           /\ \A i \in 1..Len(s) : (<<e>> \o s)[i + 1] = s[i]
  <1>1. <<e>> \in Seq(S) /\ Len(<<e>>) = 1 /\ <<e>>[1] = e
    OBVIOUS
  <1>2. Len(s) \in Nat /\ DOMAIN s = 1..Len(s)
    BY LenProperties
  <1>3. <<e>> \o s \in Seq(S) /\ Len(<<e>> \o s) = 1 + Len(s)
    BY <1>1, ConcatProperties
  <1>4. ASSUME NEW i \in 1..Len(s) + 1
        PROVE  (<<e>> \o s)[i] = IF i <= 1 THEN <<e>>[i] ELSE s[i - 1]
    BY <1>1, <1>2, <1>4, ConcatProperties
  <1>5. DOMAIN (<<e>> \o s) = 1..Len(s) + 1
    BY <1>2, <1>3, LenProperties
  <1> QED BY <1>1, <1>2, <1>3, <1>4, <1>5

LEMMA Taken ==
    ASSUME NEW S, NEW s \in Seq(S), s # <<>>
    PROVE  /\ Head(s) \in S /\ Tail(s) \in Seq(S)
           /\ Len(s) \in Nat \ {0} /\ Len(Tail(s)) = Len(s) - 1
           /\ DOMAIN s = 1..Len(s) /\ DOMAIN Tail(s) = 1..Len(s) - 1
           /\ Head(s) = s[1] /\ \A i \in 1..Len(s) - 1 : Tail(s)[i] = s[i + 1]
  BY HeadTailProperties, LenProperties, EmptySeq

LEMMA NobodyKind == ~IsCommand(Nobody)
  BY DEF IsCommand, Nobody

\* What is run, if no command, does not matter.
LEMMA LineOther ==
    ASSUME NEW r, NEW t, NEW q, NEW A, NEW D, NEW m, ~IsCommand(r), ~IsCommand(t), InLine(r, q, A, D, m)
    PROVE  InLine(t, q, A, D, m)
  BY DEF InLine, IsTask

LEMMA LineTake ==
    ASSUME NEW S, NEW q \in Seq(S), q # <<>>, NEW A, NEW D, NEW m \in Nat, InLine(Nobody, q, A, D, m)
    PROVE  InLine(Head(q), Tail(q), A, D, m)
  <1> USE NobodyKind
  <1>1. /\ Len(q) \in Nat \ {0} /\ DOMAIN q = 1..Len(q) /\ DOMAIN Tail(q) = 1..Len(q) - 1
        /\ Head(q) = q[1] /\ \A i \in 1..Len(q) - 1 : Tail(q)[i] = q[i + 1]
    BY Taken
  <1>2. \A i \in 1..Len(q) : i = 1 \/ (i - 1 \in DOMAIN Tail(q) /\ Tail(q)[i - 1] = q[i])
    BY <1>1
  <1>3. \A i \in DOMAIN Tail(q) : i + 1 \in DOMAIN q /\ 1 \in DOMAIN q /\ 1 < i + 1
    BY <1>1
  <1>4. ASSUME NEW id \in 1..m, InQueue(q, id)
        PROVE  IsTask(Head(q), id) \/ InQueue(Tail(q), id)
    BY <1>1, <1>2, <1>4 DEF InQueue
  <1>5. \A i, j \in DOMAIN Tail(q) : i < j => i + 1 < j + 1
    BY <1>1
  <1>6. \A i, j \in DOMAIN Tail(q) :
          i < j /\ IsCommand(Tail(q)[i]) /\ IsCommand(Tail(q)[j]) => Tail(q)[i].id < Tail(q)[j].id
    BY <1>1, <1>3, <1>5 DEF InLine
  <1>7. \A j \in DOMAIN Tail(q) : IsCommand(Tail(q)[j]) =>
          /\ Tail(q)[j].id \in 1..m
          /\ IsCommand(Head(q)) => Head(q).id < Tail(q)[j].id
          /\ \A i \in DOMAIN A : A[i] < Tail(q)[j].id
    BY <1>1, <1>3 DEF InLine
  <1>8. IsCommand(Head(q)) => /\ Head(q).id \in 1..m
                              /\ \A i \in DOMAIN A : A[i] < Head(q).id
    BY <1>1 DEF InLine
  <1>9. /\ \A i, j \in DOMAIN A : i < j => A[i] < A[j]
        /\ \A i \in DOMAIN A : A[i] \in 1..m
        /\ \A id \in 1..m : id \in D \/ (\E i \in DOMAIN A : A[i] = id) \/ InQueue(q, id)
    BY DEF InLine, IsTask
  <1> HIDE NobodyKind
  <1> QED BY <1>4, <1>6, <1>7, <1>8, <1>9, Zenon DEF InLine

\* A task is scheduled: a command just taken from the queue, or a generator.
LEMMA LineSchedule ==
    ASSUME NEW S, NEW q \in Seq(S), NEW t \in S, NEW A, NEW D, NEW m \in Nat, NEW k \in Nat,
           IF IsCommand(t) THEN k = m + 1 /\ t.id = k ELSE k = m,
           InLine(Nobody, q, A, D, m)
    PROVE  InLine(Nobody, Append(q, t), A, D, k)
  <1> USE NobodyKind
  <1> DEFINE w == Append(q, t)
  <1>1. /\ Len(q) \in Nat /\ DOMAIN q = 1..Len(q) /\ DOMAIN w = 1..Len(q) + 1
        /\ w[Len(q) + 1] = t /\ \A i \in 1..Len(q) : w[i] = q[i]
    BY Joined
  <1> HIDE DEF w
  <1>2. \A i \in DOMAIN w : (i \in DOMAIN q /\ w[i] = q[i]) \/ (i = Len(q) + 1 /\ w[i] = t)
    BY <1>1
  <1>3. 1..m \subseteq 1..k /\ \A i \in DOMAIN A : A[i] \in 1..m
    BY DEF InLine
  <1>4. IsCommand(t) => t.id \in 1..k /\ \A id \in 1..m : id < t.id
    OBVIOUS
  <1>5. \A i, j \in DOMAIN w : i < j /\ IsCommand(w[i]) /\ IsCommand(w[j]) => w[i].id < w[j].id
    <2> SUFFICES ASSUME NEW i \in DOMAIN w, NEW j \in DOMAIN w, i < j, IsCommand(w[i]), IsCommand(w[j])
                 PROVE  w[i].id < w[j].id
      OBVIOUS
    <2>1. i \in DOMAIN q /\ w[i] = q[i]
      BY <1>1, <1>2
    <2>2. CASE j \in DOMAIN q
      BY <1>1, <2>1, <2>2 DEF InLine
    <2>3. CASE j = Len(q) + 1
      <3>1. q[i].id \in 1..m
        BY <2>1 DEF InLine
      <3> QED BY <1>1, <1>4, <2>1, <2>3, <3>1
    <2> QED BY <1>2, <2>2, <2>3
  <1>6. \A j \in DOMAIN w : IsCommand(w[j]) => w[j].id \in 1..k /\ \A i \in DOMAIN A : A[i] < w[j].id
    <2> SUFFICES ASSUME NEW j \in DOMAIN w, IsCommand(w[j])
                 PROVE  w[j].id \in 1..k /\ \A i \in DOMAIN A : A[i] < w[j].id
      OBVIOUS
    <2>1. CASE j \in DOMAIN q /\ w[j] = q[j]
      BY <1>3, <2>1 DEF InLine
    <2>2. CASE w[j] = t
      BY <1>3, <1>4, <2>2
    <2> QED BY <1>2, <2>1, <2>2
  <1>7. ASSUME NEW id \in 1..k
        PROVE  id \in D \/ (\E i \in DOMAIN A : A[i] = id) \/ InQueue(w, id)
    <2>1. CASE id \in 1..m
      <3>1. InQueue(q, id) => InQueue(w, id)
        BY <1>1 DEF InQueue
      <3> QED BY <2>1, <3>1 DEF InLine, IsTask
    <2>2. CASE id \notin 1..m
      <3>1. IsTask(t, id)
        BY <2>2 DEF IsTask
      <3>2. Len(q) + 1 \in DOMAIN w
        BY <1>1
      <3> QED BY <1>1, <3>1, <3>2 DEF InQueue
    <2> QED BY <2>1, <2>2
  <1>8. \A i, j \in DOMAIN A : i < j => A[i] < A[j]
    BY DEF InLine
  <1>9. InLine(Nobody, w, A, D, k)
    BY <1>3, <1>5, <1>6, <1>7, <1>8, Zenon DEF InLine
  <1> QED BY <1>9 DEF w

\* A generator is put back before the others.
LEMMA LinePut ==
    ASSUME NEW S, NEW q \in Seq(S), NEW t \in S, ~IsCommand(t), NEW A, NEW D, NEW m,
           InLine(Nobody, q, A, D, m)
    PROVE  InLine(Nobody, <<t>> \o q, A, D, m)
  <1> USE NobodyKind
  <1> DEFINE w == <<t>> \o q
  <1>1. /\ Len(q) \in Nat /\ DOMAIN q = 1..Len(q) /\ DOMAIN w = 1..Len(q) + 1
        /\ w[1] = t /\ \A i \in 1..Len(q) : w[i + 1] = q[i]
    BY PutFirst
  <1> HIDE DEF w
  <1>2. \A i \in DOMAIN w : i = 1 \/ (i - 1 \in DOMAIN q /\ w[i] = q[i - 1])
    <2> SUFFICES ASSUME NEW i \in DOMAIN w, i # 1 PROVE i - 1 \in DOMAIN q /\ w[i] = q[i - 1]
      OBVIOUS
    <2>1. i - 1 \in 1..Len(q) /\ (i - 1) + 1 = i
      BY <1>1
    <2> QED BY <1>1, <2>1
  <1>3. \A i \in DOMAIN q : i + 1 \in DOMAIN w /\ w[i + 1] = q[i]
    BY <1>1
  <1>4. \A i, j \in DOMAIN w : i < j /\ IsCommand(w[i]) /\ IsCommand(w[j]) => w[i].id < w[j].id
    <2> SUFFICES ASSUME NEW i \in DOMAIN w, NEW j \in DOMAIN w, i < j, IsCommand(w[i]), IsCommand(w[j])
                 PROVE  w[i].id < w[j].id
      OBVIOUS
    <2>1. i # 1 /\ j # 1 /\ i - 1 < j - 1
      BY <1>1
    <2> QED BY <1>2, <2>1 DEF InLine
  <1>5. \A j \in DOMAIN w : IsCommand(w[j]) => w[j].id \in 1..m /\ \A i \in DOMAIN A : A[i] < w[j].id
    BY <1>1, <1>2 DEF InLine
  <1>6. \A id : InQueue(q, id) => InQueue(w, id)
    BY <1>3 DEF InQueue
  <1>7. /\ \A i, j \in DOMAIN A : i < j => A[i] < A[j]
        /\ \A i \in DOMAIN A : A[i] \in 1..m
        /\ \A id \in 1..m : id \in D \/ (\E i \in DOMAIN A : A[i] = id) \/ InQueue(q, id)
    BY DEF InLine, IsTask
  <1>8. InLine(Nobody, w, A, D, m)
    BY <1>4, <1>5, <1>6, <1>7, Zenon DEF InLine
  <1> QED BY <1>8 DEF w

\* A command is answered.
LEMMA LineAnswer ==
    ASSUME NEW r, IsCommand(r), NEW q, NEW A \in Seq(Nat), NEW D, NEW m \in Nat, InLine(r, q, A, D, m)
    PROVE  r.id \in Nat /\ InLine(Nobody, q, Append(A, r.id), D, m)
  <1> USE NobodyKind
  <1> DEFINE w == Append(A, r.id)
  <1>1. r.id \in 1..m /\ r.id \in Nat
    BY DEF InLine
  <1>2. /\ Len(A) \in Nat /\ DOMAIN A = 1..Len(A) /\ DOMAIN w = 1..Len(A) + 1
        /\ w[Len(A) + 1] = r.id /\ \A i \in 1..Len(A) : w[i] = A[i]
    BY <1>1, Joined
  <1> HIDE DEF w
  <1>3. \A i \in DOMAIN w : (i \in DOMAIN A /\ w[i] = A[i]) \/ (i = Len(A) + 1 /\ w[i] = r.id)
    BY <1>2
  <1>4. \A i, j \in DOMAIN w : i < j => w[i] < w[j]
    <2> SUFFICES ASSUME NEW i \in DOMAIN w, NEW j \in DOMAIN w, i < j PROVE w[i] < w[j]
      OBVIOUS
    <2>1. i \in DOMAIN A /\ w[i] = A[i]
      BY <1>2, <1>3
    <2> QED BY <1>2, <1>3, <2>1 DEF InLine
  <1>5. \A i \in DOMAIN w : w[i] \in 1..m /\ \A j \in DOMAIN q : IsCommand(q[j]) => w[i] < q[j].id
    BY <1>1, <1>3 DEF InLine
  <1>6. \A id \in 1..m : id \in D \/ (\E i \in DOMAIN w : w[i] = id) \/ InQueue(q, id)
    <2>1. Len(A) + 1 \in DOMAIN w /\ \A i \in DOMAIN A : i \in DOMAIN w
      BY <1>2
    <2> QED BY <1>2, <2>1 DEF InLine, IsTask
  <1>7. /\ \A i, j \in DOMAIN q : i < j /\ IsCommand(q[i]) /\ IsCommand(q[j]) => q[i].id < q[j].id
        /\ \A j \in DOMAIN q : IsCommand(q[j]) => q[j].id \in 1..m
    BY DEF InLine
  <1>8. InLine(Nobody, q, w, D, m)
    BY <1>4, <1>5, <1>6, <1>7, Zenon DEF InLine
  <1> QED BY <1>1, <1>8 DEF w

\* A command is forgotten.
LEMMA LineDrop ==
    ASSUME NEW r, IsCommand(r), NEW q, NEW A, NEW D, NEW m, InLine(r, q, A, D, m)
    PROVE  r.id \in 1..m /\ InLine(Nobody, q, A, D \cup {r.id}, m)
  BY NobodyKind DEF InLine, IsTask

\* What was answered is in order.
LEMMA LineInOrder ==
    ASSUME answers \in Seq(Nat), Pulled \in Nat, OrderInv
    PROVE  InOrder
  <1>1. \A i \in DOMAIN answers : answers[i] \in 1..Pulled /\ i \in 1..Len(answers)
    BY LenProperties DEF OrderInv, InLine
  <1>2. \A i, j \in DOMAIN answers : i < j => answers[i] < answers[j]
    BY DEF OrderInv, InLine
  <1>3. ASSUME NEW i \in DOMAIN answers, NEW id \in 1..answers[i] - 1, id \notin dropped
        PROVE  \E j \in 1..i - 1 : answers[j] = id
    <2>1. id \in 1..Pulled /\ id < answers[i]
      BY <1>1
    <2>2. ~IsTask(current, id)
      BY <2>1, <1>1 DEF OrderInv, InLine, IsTask
    <2>3. ~InQueue(tasks, id)
      <3> SUFFICES ASSUME NEW j \in DOMAIN tasks, IsCommand(tasks[j]), tasks[j].id = id PROVE FALSE
        BY DEF InQueue, IsTask
      <3> QED BY <2>1, <1>1 DEF OrderInv, InLine
    <2>4. PICK j \in DOMAIN answers : answers[j] = id
      BY <1>3, <2>1, <2>2, <2>3 DEF OrderInv, InLine
    <2>5. j < i
      <3>1. ~(i < j) /\ i # j
        BY <1>1, <1>2, <2>1, <2>4
      <3> QED BY <3>1, <1>1
    <2>6. j \in 1..i - 1
      BY <1>1, <2>5
    <2> QED BY <2>4, <2>6
  <1> QED BY <1>2, <1>3 DEF InOrder

------------------------------------------------------------------------------
(* The steps of the loop.                                                    *)

LEMMA GeneratorType ==
    ASSUME NEW left \in Nat, NEW refusal \in SUBSET Nat
    PROVE  Generator(left, refusal) \in Task /\ ~IsCommand(Generator(left, refusal))
  BY DEF Generator, Task, IsCommand

LEMMA CoroutineType ==
    ASSUME NEW id \in Nat, NEW c \in Commands
    PROVE  Coroutine(id, c) \in Task /\ IsTask(Coroutine(id, c), id)
  BY DEF Coroutine, Task, IsTask, IsCommand

LEMMA TaskKinds ==
    ASSUME NEW t \in Task
    PROVE  /\ t # Nobody
           /\ IsCommand(t) => t.id \in Nat /\ t.c \in Commands
           /\ t.kind = "generator" <=> ~IsCommand(t)
           /\ ~IsCommand(t) => /\ t.left \in Nat /\ t.refusal \in SUBSET Nat
                               /\ t = Generator(t.left, t.refusal)
  BY DEF Task, IsCommand, Generator, Nobody

\* The sizes of the queue the commands are read into.
LEMMA PulledType ==
    ASSUME ApiAssumption, TasksTyped
    PROVE  /\ written \in Nat /\ MaxCommands \in Nat
           /\ Len(inbox) \in Nat /\ Pulled \in Nat
           /\ written = Pulled + Len(inbox)
  <1>1. written \in Nat /\ MaxCommands \in Nat /\ Len(inbox) \in Nat /\ Len(inbox) <= written
    <2>1. inbox \in Seq(Task)
      BY DEF TasksTyped
    <2> HIDE DEF Task
    <2>2. Len(inbox) \in Nat
      BY <2>1, LenProperties
    <2> QED BY <2>2 DEF TasksTyped, ApiAssumption
  <1> QED BY <1>1 DEF Pulled

\* A run that starts or goes on with a queue takes its first task, or none.
LoopTypes ==
    /\ tasks \in Seq(Task)
    /\ current \in Task \cup {Nobody}
    /\ phase \in {"receive", "coroutines", "mixed"}
    /\ phase = "receive" => current = Nobody
    /\ phase = "mixed" => current # Nobody
    /\ turns \in 0..Limit

LEMMA StartedLine ==
    ASSUME ApiAssumption, NEW queue \in Seq(Task), current = Nobody, turns \in 0..Limit, Started(queue)
    PROVE  /\ LoopTypes'
           /\ \A A, D : \A m \in Nat : InLine(Nobody, queue, A, D, m) => InLine(current', tasks', A, D, m)
  <1>0. Limit \in Nat \ {0}
    BY DEF ApiAssumption
  <1>1. CASE queue = <<>>
    <2>1. phase' = "receive" /\ tasks' = queue /\ current' = Nobody /\ turns' = turns
      BY <1>1, Zenon DEF Started
    <2> HIDE DEF Task
    <2> QED BY <2>1 DEF LoopTypes
  <1>2. CASE queue # <<>> /\ IsCommand(Head(queue))
    <2>1. phase' = "coroutines" /\ tasks' = queue /\ current' = Nobody /\ turns' = turns
      BY <1>2, Zenon DEF Started
    <2> HIDE DEF Task
    <2> QED BY <2>1 DEF LoopTypes
  <1>3. CASE queue # <<>> /\ ~IsCommand(Head(queue))
    <2>1. phase' = "mixed" /\ tasks' = Tail(queue) /\ current' = Head(queue) /\ turns' = Limit
      BY <1>3, Zenon DEF Started
    <2> HIDE DEF Task
    <2>2. Head(queue) \in Task /\ Tail(queue) \in Seq(Task) /\ Head(queue) # Nobody
      BY <1>3, Taken, TaskKinds
    <2>3. LoopTypes'
      BY <1>0, <2>1, <2>2 DEF LoopTypes
    <2> QED BY <1>3, <2>1, <2>3, LineTake
  <1> QED BY <1>1, <1>2, <1>3

LEMMA EndedLine ==
    ASSUME ApiAssumption, NEW queue \in Seq(Task), phase \in {"coroutines", "mixed"},
           phase = "mixed" => turns > 0, turns \in 0..Limit, Ended(queue)
    PROVE  /\ LoopTypes'
           /\ \A A, D : \A m \in Nat : InLine(Nobody, queue, A, D, m) => InLine(current', tasks', A, D, m)
  <1>0. Limit \in Nat \ {0}
    BY DEF ApiAssumption
  <1>1. CASE phase = "coroutines"
    <2>1. phase' = "coroutines" /\ tasks' = queue /\ current' = Nobody /\ turns' = turns
      BY <1>1, Zenon DEF Ended
    <2> HIDE DEF Task
    <2> QED BY <2>1 DEF LoopTypes
  <1>2. CASE phase = "mixed" /\ queue = <<>>
    <2>1. phase' = "receive" /\ tasks' = queue /\ current' = Nobody /\ turns' = turns - 1
      BY <1>2 DEF Ended
    <2>2. turns' \in 0..Limit
      BY <1>0, <1>2, <2>1
    <2> HIDE DEF Task
    <2> QED BY <2>1, <2>2 DEF LoopTypes
  <1>3. CASE phase = "mixed" /\ queue # <<>>
    <2>1. phase' = "mixed" /\ tasks' = Tail(queue) /\ current' = Head(queue) /\ turns' = turns - 1
      BY <1>3 DEF Ended
    <2>2. turns' \in 0..Limit
      BY <1>0, <1>3, <2>1
    <2> HIDE DEF Task
    <2>3. Head(queue) \in Task /\ Tail(queue) \in Seq(Task) /\ Head(queue) # Nobody
      BY <1>3, Taken, TaskKinds
    <2>4. LoopTypes'
      BY <2>1, <2>2, <2>3 DEF LoopTypes
    <2> QED BY <1>3, <2>1, <2>4, LineTake
  <1> QED BY <1>1, <1>2, <1>3

LoopInv == TasksTyped /\ OrderInv

\* What a step must leave for the invariant, when no command is read or taken.
LEMMA LoopKeeps ==
    ASSUME ApiAssumption, LoopInv, UNCHANGED <<written, inbox>>, LoopTypes',
           answers' \in Seq(Nat), dropped' \subseteq 1..Pulled,
           InLine(current', tasks', answers', dropped', Pulled)
    PROVE  LoopInv'
  <1>1. Pulled' = Pulled
    BY DEF Pulled
  <1>2. TasksTyped'
    BY <1>1 DEF LoopInv, TasksTyped, LoopTypes
  <1> QED BY <1>1, <1>2 DEF LoopInv, OrderInv

LEMMA HelperWritesKeeps ==
    ASSUME ApiAssumption, LoopInv, NEW c \in Commands, HelperWrites(c)
    PROVE  LoopInv'
  <1>1. /\ written \in Nat /\ MaxCommands \in Nat /\ Len(inbox) \in Nat /\ Pulled \in Nat
        /\ written = Pulled + Len(inbox)
    BY PulledType DEF LoopInv
  <1> DEFINE t == Coroutine(written + 1, c)
  <1>2. t \in Task /\ IsTask(t, written + 1)
    BY <1>1, CoroutineType
  <1> HIDE DEF t, Task
  <1>3. inbox \in Seq(Task) /\ inbox' = Append(inbox, t) /\ written' = written + 1 /\ written < MaxCommands
    BY DEF HelperWrites, LoopInv, TasksTyped, t
  <1>4. /\ inbox' \in Seq(Task) /\ Len(inbox') = Len(inbox) + 1
        /\ DOMAIN inbox = 1..Len(inbox) /\ DOMAIN inbox' = 1..Len(inbox) + 1
        /\ inbox'[Len(inbox) + 1] = t /\ \A i \in 1..Len(inbox) : inbox'[i] = inbox[i]
    BY <1>2, <1>3, Joined
  <1>5. Pulled' = Pulled
    <2>1. Pulled' = written' - Len(inbox')
      BY DEF Pulled
    <2> QED BY ONLY <1>1, <1>3, <1>4, <2>1
  <1>6. ASSUME NEW i \in DOMAIN inbox'
        PROVE  IsTask(inbox'[i], Pulled + i)
    <2>1. CASE i \in DOMAIN inbox
      BY <1>4, <2>1 DEF LoopInv, TasksTyped
    <2>2. CASE i \notin DOMAIN inbox
      <3>1. i = Len(inbox) + 1 /\ Pulled + i = written + 1
        BY <1>1, <1>4, <2>2
      <3> QED BY <1>2, <1>4, <3>1
    <2> QED BY <2>1, <2>2
  <1>7. written' \in 0..MaxCommands /\ Len(inbox') <= written'
    BY <1>1, <1>3, <1>4
  <1>8. UNCHANGED <<tasks, current, phase, turns, dropped, answers>>
    BY DEF HelperWrites, runVars
  <1>9. TasksTyped'
    BY <1>4, <1>5, <1>6, <1>7, <1>8 DEF LoopInv, TasksTyped
  <1> QED BY <1>5, <1>8, <1>9 DEF LoopInv, OrderInv

LEMMA IterateKeeps ==
    ASSUME ApiAssumption, LoopInv, Iterate
    PROVE  LoopInv'
  <1>0. /\ written \in Nat /\ MaxCommands \in Nat /\ Len(inbox) \in Nat /\ Pulled \in Nat
        /\ written = Pulled + Len(inbox)
    BY PulledType DEF LoopInv
  <1>1. /\ current = Nobody /\ turns \in 0..Limit /\ tasks \in Seq(Task) /\ inbox \in Seq(Task)
        /\ answers \in Seq(Nat) /\ dropped \subseteq 1..Pulled /\ Len(inbox) <= written
        /\ written \in 0..MaxCommands
        /\ InLine(Nobody, tasks, answers, dropped, Pulled)
    BY DEF Iterate, LoopInv, TasksTyped, OrderInv
  <1>2. UNCHANGED <<written, dropped, answers>>
    BY DEF Iterate, runVars
  <1>3. PICK heard \in {<<>>, <<Generator(1, NoRefusal)>>} \cup {<<Generator(1, {w})>> : w \in Writes} :
           \/ inbox = <<>> /\ Started(Scheduled(tasks, heard)) /\ UNCHANGED inbox
           \/ received_async(tasks \o heard)
    BY DEF Iterate
  <1>4. heard = <<>> \/ \E g \in Task : ~IsCommand(g) /\ heard = <<g>>
    <2>1. Writes \subseteq Nat
      BY DEF ApiAssumption
    <2>2. \A r \in SUBSET Nat : Generator(1, r) \in Task /\ ~IsCommand(Generator(1, r))
      BY GeneratorType
    <2>3. NoRefusal \in SUBSET Nat /\ \A w \in Writes : {w} \in SUBSET Nat
      BY <2>1 DEF NoRefusal
    <2> HIDE DEF Task
    <2> QED BY <2>2, <2>3
  <1> DEFINE queue == tasks \o heard
  <1>5. queue \in Seq(Task) /\ InLine(Nobody, queue, answers, dropped, Pulled)
    <2> HIDE DEF Task
    <2>1. CASE heard = <<>>
      <3>1. queue = tasks
        BY <1>1, <2>1, ConcatEmptySeq
      <3> QED BY <1>1, <3>1
    <2>2. ASSUME NEW g \in Task, ~IsCommand(g), heard = <<g>>
          PROVE  queue \in Seq(Task) /\ InLine(Nobody, queue, answers, dropped, Pulled)
      <3>1. queue = Append(tasks, g) /\ queue \in Seq(Task)
        BY <1>1, <2>2, Joined
      <3>2. InLine(Nobody, Append(tasks, g), answers, dropped, Pulled)
        BY <1>0, <1>1, <2>2, LineSchedule
      <3> QED BY <3>1, <3>2
    <2> QED BY <1>4, <2>1, <2>2
  <1> HIDE DEF queue, Task
  <1>6. CASE Started(Scheduled(tasks, heard)) /\ UNCHANGED inbox
    <2>1. Started(queue)
      BY <1>6 DEF Scheduled, queue
    <2>2. LoopTypes' /\ InLine(current', tasks', answers, dropped, Pulled)
      BY <1>0, <1>1, <1>5, <2>1, StartedLine
    <2> QED BY <1>1, <1>2, <1>6, <2>2, LoopKeeps
  <1>7. CASE received_async(tasks \o heard)
    <2> DEFINE t == Head(inbox)
    <2>1. inbox # <<>> /\ inbox' = Tail(inbox) /\ Started(queue \o <<t>>)
      BY <1>7 DEF received_async, Scheduled, queue
    <2>2. /\ t \in Task /\ inbox' \in Seq(Task) /\ Len(inbox') = Len(inbox) - 1
          /\ DOMAIN inbox = 1..Len(inbox) /\ DOMAIN inbox' = 1..Len(inbox) - 1
          /\ Len(inbox) \in Nat \ {0}
          /\ t = inbox[1] /\ \A i \in 1..Len(inbox) - 1 : inbox'[i] = inbox[i + 1]
      BY <1>1, <2>1, Taken
    <2>3. Pulled' = Pulled + 1
      <3>1. Pulled' = written' - Len(inbox')
        BY DEF Pulled
      <3>2. written' = written
        BY <1>2
      <3>3. Len(inbox') = Len(inbox) - 1
        BY <2>2
      <3> QED BY ONLY <1>0, <3>1, <3>2, <3>3
    <2>4. IsTask(t, Pulled + 1)
      <3>1. 1 \in DOMAIN inbox
        BY <2>2
      <3> QED BY <2>2, <3>1 DEF LoopInv, TasksTyped
    <2> HIDE DEF t
    <2>5. InLine(Nobody, Append(queue, t), answers, dropped, Pulled + 1)
      <3>1. Pulled + 1 \in Nat /\ IsCommand(t) /\ t.id = Pulled + 1
        BY <1>0, <2>4 DEF IsTask
      <3> QED BY <1>0, <1>5, <2>2, <3>1, LineSchedule
    <2>6. Append(queue, t) \in Seq(Task) /\ Started(Append(queue, t))
      <3>1. queue \o <<t>> = Append(queue, t) /\ Append(queue, t) \in Seq(Task)
        BY <1>5, <2>2, Joined
      <3> QED BY ONLY <2>1, <3>1, Zenon DEF Started
    <2>7. LoopTypes' /\ InLine(current', tasks', answers, dropped, Pulled + 1)
      <3>1. Pulled + 1 \in Nat
        BY <1>0
      <3> QED BY <1>1, <2>5, <2>6, <3>1, StartedLine
    <2>8. ASSUME NEW i \in DOMAIN inbox'
          PROVE  IsTask(inbox'[i], Pulled' + i)
      <3>0. i \in 1..Len(inbox) - 1 /\ i + 1 \in DOMAIN inbox
        BY <2>2
      <3>1. inbox'[i] = inbox[i + 1]
        BY <2>2, <3>0
      <3>2. Pulled' + i = Pulled + (i + 1)
        BY ONLY <1>0, <2>2, <2>3, <3>0
      <3>3. IsTask(inbox[i + 1], Pulled + (i + 1))
        BY <3>0 DEF LoopInv, TasksTyped
      <3> QED BY <3>1, <3>2, <3>3
    <2>9. Len(inbox') <= written' /\ written' \in 0..MaxCommands
      BY <1>0, <1>1, <1>2, <2>2
    <2>10. dropped' \subseteq 1..Pulled'
      BY <1>0, <1>1, <1>2, <2>3
    <2>11. TasksTyped'
      BY <1>1, <1>2, <2>2, <2>7, <2>8, <2>9, <2>10 DEF TasksTyped, LoopTypes
    <2> QED BY <1>2, <2>3, <2>7, <2>11 DEF LoopInv, OrderInv
  <1> QED BY <1>3, <1>6, <1>7

\* The tasks, as the lemmas on them need it.
LEMMA LoopFacts ==
    ASSUME ApiAssumption, LoopInv
    PROVE  /\ Pulled \in Nat /\ tasks \in Seq(Task) /\ current \in Task \cup {Nobody}
           /\ phase \in {"receive", "coroutines", "mixed"} /\ turns \in 0..Limit
           /\ answers \in Seq(Nat) /\ dropped \subseteq 1..Pulled
           /\ phase = "receive" => current = Nobody
           /\ phase = "mixed" => current # Nobody
           /\ InLine(current, tasks, answers, dropped, Pulled)
  BY PulledType DEF LoopInv, TasksTyped, OrderInv

LEMMA TakeCoroutineKeeps ==
    ASSUME ApiAssumption, LoopInv, TakeCoroutine
    PROVE  LoopInv'
  <1>1. /\ Pulled \in Nat /\ tasks \in Seq(Task) /\ turns \in 0..Limit
        /\ answers \in Seq(Nat) /\ dropped \subseteq 1..Pulled
        /\ current = Nobody /\ phase = "coroutines"
        /\ InLine(Nobody, tasks, answers, dropped, Pulled)
    BY LoopFacts DEF TakeCoroutine
  <1>2. UNCHANGED <<written, inbox, turns, dropped, answers>>
    BY DEF TakeCoroutine, runVars
  <1> HIDE DEF Task
  <1>3. CASE tasks # <<>> /\ IsCommand(Head(tasks))
    <2>1. current' = Head(tasks) /\ tasks' = Tail(tasks) /\ phase' = phase
      BY <1>3, Zenon DEF TakeCoroutine
    <2>2. Head(tasks) \in Task /\ Tail(tasks) \in Seq(Task)
      BY <1>1, <1>3, Taken
    <2>3. InLine(current', tasks', answers, dropped, Pulled)
      BY <1>1, <1>3, <2>1, LineTake
    <2>4. LoopTypes'
      BY <1>1, <1>2, <2>1, <2>2 DEF LoopTypes
    <2> QED BY <1>1, <1>2, <2>3, <2>4, LoopKeeps
  <1>4. CASE ~(tasks # <<>> /\ IsCommand(Head(tasks)))
    <2>1. current' = Nobody /\ tasks' = tasks /\ phase' = "receive"
      BY <1>1, <1>4, Zenon DEF TakeCoroutine
    <2>2. LoopTypes'
      BY <1>1, <1>2, <2>1 DEF LoopTypes
    <2>3. InLine(current', tasks', answers, dropped, Pulled)
      BY <1>1, <2>1
    <2> QED BY <1>1, <1>2, <2>2, <2>3, LoopKeeps
  <1> QED BY <1>3, <1>4

LEMMA ResumeKeeps ==
    ASSUME ApiAssumption, LoopInv, Resume
    PROVE  LoopInv'
  <1>1. /\ Pulled \in Nat /\ tasks \in Seq(Task) /\ turns \in 0..Limit
        /\ answers \in Seq(Nat) /\ dropped \subseteq 1..Pulled
        /\ phase = "mixed" /\ turns > 0
        /\ current \in Task \cup {Nobody} /\ current.kind = "generator"
        /\ InLine(current, tasks, answers, dropped, Pulled)
    BY LoopFacts DEF Resume
  <1>2. UNCHANGED <<written, inbox, dropped, answers>>
    BY DEF Resume, runVars
  <1>3. /\ current \in Task /\ ~IsCommand(current) /\ current.left \in Nat /\ current.refusal \in SUBSET Nat
        /\ current = Generator(current.left, current.refusal)
    <2>1. current \in Task
      BY <1>1 DEF Nobody
    <2> QED BY <1>1, <2>1, TaskKinds
  <1>4. InLine(Nobody, tasks, answers, dropped, Pulled)
    BY <1>1, <1>3, NobodyKind, LineOther
  <1>5. CASE current.left > 0
    <2>1. /\ current' = [current EXCEPT !.left = @ - 1] /\ turns' = turns - 1
          /\ phase' = phase /\ tasks' = tasks
      BY <1>5 DEF Resume
    <2>2. current' = Generator(current.left - 1, current.refusal)
      <3>1. ASSUME NEW l, NEW r
            PROVE  [Generator(l, r) EXCEPT !.left = @ - 1] = Generator(l - 1, r)
        BY DEF Generator
      <3> QED BY ONLY <1>3, <2>1, <3>1
    <2>3. current' \in Task /\ ~IsCommand(current') /\ current' # Nobody
      <3>1. current.left - 1 \in Nat
        BY <1>3, <1>5
      <3>2. current' \in Task /\ ~IsCommand(current')
        BY <1>3, <2>2, <3>1, GeneratorType
      <3> QED BY <3>2, TaskKinds
    <2>4. InLine(current', tasks', answers, dropped, Pulled)
      BY <1>1, <1>3, <2>1, <2>3, LineOther
    <2> HIDE DEF Task
    <2>5. LoopTypes'
      <3>1. turns' \in 0..Limit
        BY <1>1, <2>1 DEF ApiAssumption
      <3> QED BY <1>1, <2>1, <2>3, <3>1 DEF LoopTypes
    <2> QED BY <1>1, <1>2, <2>4, <2>5, LoopKeeps
  <1>6. CASE ~(current.left > 0)
    <2>1. PICK new \in IF current.refusal = NoRefusal THEN {<<>>}
                       ELSE {<<Generator(w, NoRefusal)>> : w \in current.refusal} :
             Ended(Scheduled(tasks, new))
      BY <1>6 DEF Resume
    <2>2. new = <<>> \/ \E w \in current.refusal : new = <<Generator(w, NoRefusal)>>
      BY <2>1
    <2> HIDE DEF Task
    <2>3. tasks \o new \in Seq(Task) /\ InLine(Nobody, tasks \o new, answers, dropped, Pulled)
      <3>1. CASE new = <<>>
        <4>1. tasks \o new = tasks
          BY <1>1, <3>1, ConcatEmptySeq
        <4> QED BY <1>1, <1>4, <4>1
      <3>2. ASSUME NEW w \in current.refusal, new = <<Generator(w, NoRefusal)>>
            PROVE  tasks \o new \in Seq(Task) /\ InLine(Nobody, tasks \o new, answers, dropped, Pulled)
        <4> DEFINE g == Generator(w, NoRefusal)
        <4>1. g \in Task /\ ~IsCommand(g)
          BY <1>3, GeneratorType DEF NoRefusal
        <4> HIDE DEF g
        <4>2. tasks \o <<g>> = Append(tasks, g) /\ Append(tasks, g) \in Seq(Task)
          BY <1>1, <4>1, Joined
        <4>3. InLine(Nobody, Append(tasks, g), answers, dropped, Pulled)
          BY <1>1, <1>4, <4>1, LineSchedule
        <4>4. new = <<g>>
          BY <3>2 DEF g
        <4> QED BY ONLY <4>2, <4>3, <4>4, Zenon
      <3> QED BY <2>2, <3>1, <3>2
    <2>4. Ended(tasks \o new)
      BY <2>1 DEF Scheduled
    <2>5. LoopTypes' /\ InLine(current', tasks', answers, dropped, Pulled)
      BY <1>1, <2>3, <2>4, EndedLine
    <2> QED BY <1>1, <1>2, <2>5, LoopKeeps
  <1> QED BY <1>5, <1>6

LEMMA OutOfTurnsKeeps ==
    ASSUME ApiAssumption, LoopInv, OutOfTurns
    PROVE  LoopInv'
  <1>1. /\ Pulled \in Nat /\ tasks \in Seq(Task) /\ turns \in 0..Limit
        /\ answers \in Seq(Nat) /\ dropped \subseteq 1..Pulled
        /\ current \in Task \cup {Nobody}
        /\ InLine(current, tasks, answers, dropped, Pulled)
    BY LoopFacts
  <1>2. UNCHANGED <<written, inbox, turns, answers>> /\ phase' = "receive" /\ current' = Nobody
    BY DEF OutOfTurns, runVars
  <1>3. CASE IsCommand(current)
    <2>1. dropped' = dropped \cup {current.id} /\ tasks' = tasks
      BY <1>3 DEF OutOfTurns
    <2>2. current.id \in 1..Pulled /\ InLine(Nobody, tasks, answers, dropped \cup {current.id}, Pulled)
      BY <1>1, <1>3, LineDrop
    <2> HIDE DEF Task
    <2>3. LoopTypes' /\ dropped' \subseteq 1..Pulled /\ InLine(current', tasks', answers, dropped', Pulled)
      BY <1>1, <1>2, <2>1, <2>2 DEF LoopTypes
    <2> QED BY <1>1, <1>2, <2>3, LoopKeeps
  <1>4. CASE ~IsCommand(current)
    <2>1. tasks' = <<current>> \o tasks /\ dropped' = dropped
      BY <1>4 DEF OutOfTurns
    <2>2. current \in Task
      BY LoopFacts DEF OutOfTurns
    <2> HIDE DEF Task
    <2>3. InLine(Nobody, tasks, answers, dropped, Pulled)
      BY <1>1, <1>4, NobodyKind, LineOther
    <2>4. tasks' \in Seq(Task)
      BY <1>1, <2>1, <2>2, PutFirst
    <2>5. InLine(current', tasks', answers, dropped, Pulled)
      BY <1>1, <1>2, <1>4, <2>1, <2>2, <2>3, LinePut
    <2>6. LoopTypes'
      BY <1>1, <1>2, <2>4 DEF LoopTypes
    <2> QED BY <1>1, <1>2, <2>1, <2>5, <2>6, LoopKeeps
  <1> QED BY <1>3, <1>4

LEMMA AnswerKeeps ==
    ASSUME ApiAssumption, LoopInv, Answer
    PROVE  LoopInv'
  <1>1. /\ Pulled \in Nat /\ tasks \in Seq(Task) /\ turns \in 0..Limit
        /\ answers \in Seq(Nat) /\ dropped \subseteq 1..Pulled
        /\ IsCommand(current) /\ phase \in {"coroutines", "mixed"} /\ (phase = "mixed" => turns > 0)
        /\ InLine(current, tasks, answers, dropped, Pulled)
    <2>1. IsCommand(current) /\ (phase = "mixed" => turns > 0)
      BY DEF Answer, Running
    <2>2. phase # "receive"
      BY <2>1, LoopFacts, NobodyKind
    <2> QED BY <2>1, <2>2, LoopFacts
  <1>2. UNCHANGED <<written, inbox, dropped>> /\ answers' = Append(answers, current.id) /\ Ended(tasks)
    BY DEF Answer
  <1>3. current.id \in Nat /\ InLine(Nobody, tasks, answers', dropped, Pulled)
    BY <1>1, <1>2, LineAnswer
  <1>4. answers' \in Seq(Nat)
    BY <1>1, <1>2, <1>3, AppendProperties
  <1>5. LoopTypes' /\ InLine(current', tasks', answers', dropped, Pulled)
    BY <1>1, <1>2, <1>3, EndedLine
  <1> QED BY <1>1, <1>2, <1>4, <1>5, LoopKeeps

------------------------------------------------------------------------------
(* The callbacks and the peer's task.                                        *)

\* A command's routes.
LEMMA RouteType ==
    ASSUME ApiAssumption, current \in Task \cup {Nobody}, IsCommand(current)
    PROVE  /\ Len(current.c.do) \in Nat
           /\ \A i \in 1..Len(current.c.do) : current.c.do[i].n \in Nlri /\ current.c.do[i].p \in MaybePath
  <1> DEFINE R == [n : Nlri, p : MaybePath]
  <1>1. current.c \in Commands
    BY NobodyKind, TaskKinds
  <1>2. current.c.do \in Seq(R)
    BY <1>1 DEF ApiAssumption, Command1
  <1>3. \A r \in R : r.n \in Nlri /\ r.p \in MaybePath
    OBVIOUS
  <1> HIDE DEF R
  <1>4. Len(current.c.do) \in Nat /\ \A i \in 1..Len(current.c.do) : current.c.do[i] \in R
    BY <1>2, LenProperties, ElementOfSeq
  <1> QED BY <1>3, <1>4

\* A command's route is a step of the RIB, that leaves the cache with the route.
LEMMA ChangeRouteStep ==
    ASSUME TypeOK, NEW n \in Nlri, NEW p \in MaybePath, ChangeRoute(n, p)
    PROVE  /\ [Next]_vars
           /\ UNCHANGED <<session, sending>>
           /\ Cache => seen'[n] = p
  <1>1. CASE p = NoPath
    <2>1. Withdraw(n) /\ Change(NoRoutes, {n})
      BY <1>1 DEF ChangeRoute, Withdraw, del_from_rib
    <2>2. Cache => seen'[n] = p
      BY <1>1, <2>1, EmptyTypes, ChangePointwise
    <2> QED BY <2>1, <2>2 DEF Next, Command, Withdraw, sessionVars, Change
  <1>2. CASE p # NoPath /\ in_cache(n, p)
    <2>1. UNCHANGED vars
      BY <1>2 DEF ChangeRoute
    <2> QED BY <1>2, <2>1 DEF vars, ribVars, sessionVars, in_cache
  <1>3. CASE p # NoPath /\ ~in_cache(n, p)
    <2>1. p \in Path /\ Announce(n, p) /\ Change(Only(n, p), {})
      BY <1>3 DEF ChangeRoute, Announce, add_to_rib, MaybePath
    <2>2. Cache => seen'[n] = p
      BY <1>3, <2>1, OnlyType, ChangePointwise DEF Only
    <2> QED BY <2>1, <2>2 DEF Next, Command, Announce, sessionVars, Change
  <1> QED BY <1>1, <1>2, <1>3

LEMMA NextRouteStep ==
    ASSUME ApiAssumption, TypesInv, NextRoute
    PROVE  /\ [Next]_vars
           /\ UNCHANGED <<session, sending>>
           /\ Cache => seen'[current.c.do[done + 1].n] = current.c.do[done + 1].p
           /\ done \in Nat /\ done < Len(current.c.do)
           /\ current.c.do[done + 1].n \in Nlri
  <1>1. done \in Nat /\ done < Len(current.c.do) /\ IsCommand(current)
        /\ current \in Task \cup {Nobody} /\ TypeOK
    BY DEF NextRoute, Running, TypesInv, FlushTyped, TasksTyped, SessionTypeOK
  <1>2. Len(current.c.do) \in Nat
    BY <1>1, RouteType
  <1>3. done + 1 \in 1..Len(current.c.do)
    BY <1>1, <1>2
  <1>4. current.c.do[done + 1].n \in Nlri /\ current.c.do[done + 1].p \in MaybePath
    BY <1>1, <1>3, RouteType
  <1>5. ChangeRoute(current.c.do[done + 1].n, current.c.do[done + 1].p)
    BY DEF NextRoute
  <1> QED BY <1>1, <1>4, <1>5, ChangeRouteStep

\* The RIB, the peer's task and the remote speaker are those of AdjRibOut.
LEMMA RibStep ==
    ASSUME ApiAssumption, TypesInv, [ApiNext]_apiVars
    PROVE  [Next]_vars
  <1>1. ASSUME NextRoute
        PROVE  [Next]_vars
    BY <1>1, NextRouteStep
  <1>2. ASSUME RemoteRefresh
        PROVE  [Next]_vars
    BY <1>2, Zenon DEF RemoteRefresh, ApiAssumption, Next, Command
  <1>3. ASSUME PeerSends \/ SessionChanges
        PROVE  [Next]_vars
    BY <1>3 DEF PeerSends, SessionChanges, Next
  <1>4. ASSUME NEW c \in Commands, HelperWrites(c)
        PROVE  [Next]_vars
    BY <1>4, Zenon DEF HelperWrites, vars
  <1>5. ASSUME Iterate \/ TakeCoroutine \/ Resume \/ OutOfTurns \/ RegisterGroup \/ Answer
        PROVE  [Next]_vars
    BY <1>5, Zenon DEF Iterate, TakeCoroutine, Resume, OutOfTurns, RegisterGroup, Answer, vars
  <1>6. CASE UNCHANGED apiVars
    BY <1>6 DEF apiVars
  <1> QED BY <1>1, <1>2, <1>3, <1>4, <1>5, <1>6, Zenon DEF ApiNext, LoopStep

LEMMA LoopNext ==
    ASSUME ApiAssumption, LoopInv, [ApiNext]_apiVars
    PROVE  LoopInv'
  <1>1. ASSUME UNCHANGED <<written, loopVars, answers>>
        PROVE  LoopInv'
    <2>1. /\ UNCHANGED <<written, inbox, tasks, current, phase, turns, dropped, answers>>
          /\ Pulled' = Pulled
      BY <1>1 DEF loopVars, Pulled
    <2> QED BY <2>1 DEF LoopInv, TasksTyped, OrderInv
  <1>2. ASSUME NextRoute \/ RegisterGroup \/ PeerSends \/ SessionChanges \/ RemoteRefresh \/ UNCHANGED apiVars
        PROVE  LoopInv'
    BY <1>1, <1>2, Zenon DEF NextRoute, RegisterGroup, PeerSends, SessionChanges, RemoteRefresh, runVars, apiVars
  <1>3. ASSUME NEW c \in Commands, HelperWrites(c)
        PROVE  LoopInv'
    BY <1>3, HelperWritesKeeps
  <1> QED BY <1>2, <1>3, IterateKeeps, TakeCoroutineKeeps, ResumeKeeps, OutOfTurnsKeeps, AnswerKeeps,
             Zenon DEF ApiNext, LoopStep

\* A flush is only waited for by the command that is run.
LEMMA NotWaiting ==
    ASSUME FlushTyped, ~Running
    PROVE  event = "none"
  BY DEF FlushTyped

LEMMA RegisterType ==
    ASSUME Register
    PROVE  /\ event' \in {"none", "registered"} /\ due' \in BOOLEAN /\ kept' = TRUE
           /\ event' = "registered" => session # "closing"
  <1>1. due' \in BOOLEAN
    BY Zenon DEF Register
  <1> QED BY <1>1 DEF Register

LEMMA FlushNext ==
    ASSUME ApiAssumption, TypesInv, [ApiNext]_apiVars
    PROVE  FlushTyped'
  <1>0. FlushTyped /\ sending \in BOOLEAN
    BY DEF TypesInv, SessionTypeOK, TypeOK
  <1>1. ASSUME UNCHANGED runVars, event = "none" \/ UNCHANGED <<current, phase, turns>>
        PROVE  FlushTyped'
    BY <1>0, <1>1, Zenon DEF FlushTyped, runVars, waitVars, Running
  <1>2. ASSUME NEW c \in Commands, HelperWrites(c)
        PROVE  FlushTyped'
    BY <1>1, <1>2 DEF HelperWrites
  <1>3. ASSUME Iterate
        PROVE  FlushTyped'
    <2>1. ~Running
      BY <1>3, NobodyKind DEF Iterate, Running, TypesInv, TasksTyped
    <2> QED BY <1>0, <1>1, <1>3, <2>1, NotWaiting DEF Iterate
  <1>4. ASSUME TakeCoroutine
        PROVE  FlushTyped'
    <2>1. ~Running
      BY <1>4, NobodyKind DEF TakeCoroutine, Running
    <2> QED BY <1>0, <1>1, <1>4, <2>1, NotWaiting DEF TakeCoroutine
  <1>5. ASSUME Resume
        PROVE  FlushTyped'
    <2>1. ~Running
      BY <1>5 DEF Resume, Running, IsCommand
    <2> QED BY <1>0, <1>1, <1>5, <2>1, NotWaiting DEF Resume
  <1>6. ASSUME OutOfTurns
        PROVE  FlushTyped'
    <2>1. ~Running
      BY <1>6 DEF OutOfTurns, Running
    <2> QED BY <1>0, <1>1, <1>6, <2>1, NotWaiting DEF OutOfTurns
  <1>7. ASSUME NextRoute
        PROVE  FlushTyped'
    <2>1. Running /\ UNCHANGED <<current, phase, turns>> /\ done' = done + 1
      BY <1>7 DEF NextRoute, loopVars
    <2>2. Running'
      BY <2>1 DEF Running
    <2>3. CASE Register /\ idle' = ~sending
      <3>1. idle' \in BOOLEAN
        BY <2>3
      <3> QED BY <1>0, <2>1, <2>2, <2>3, <3>1, RegisterType DEF FlushTyped
    <2>4. CASE UNCHANGED waitVars
      BY <1>0, <2>1, <2>2, <2>4 DEF FlushTyped, waitVars
    <2> QED BY <1>7, <2>3, <2>4, Zenon DEF NextRoute
  <1>8. ASSUME RegisterGroup
        PROVE  FlushTyped'
    <2>1. Running /\ UNCHANGED <<current, phase, turns>> /\ done' = done + 1 /\ Register /\ idle' = FALSE
      BY <1>8 DEF RegisterGroup, AllDone, loopVars
    <2>2. Running'
      BY <2>1 DEF Running
    <2>3. idle' \in BOOLEAN
      BY <2>1
    <2> QED BY <1>0, <2>1, <2>2, <2>3, RegisterType DEF FlushTyped
  <1>9. ASSUME Answer
        PROVE  FlushTyped'
    BY <1>9 DEF Answer, Forgotten, FlushTyped
  <1>10. ASSUME PeerSends
         PROVE  FlushTyped'
    <2>1. UNCHANGED <<current, phase, turns, done, idle, due, kept>> /\ event' = Fired
      BY <1>10 DEF PeerSends, loopVars
    <2>2. event' = event \/ (event # "none" /\ event' = "set")
      BY <2>1 DEF Fired
    <2> QED BY <1>0, <2>1, <2>2 DEF FlushTyped, Running
  <1>11. ASSUME SessionChanges
         PROVE  FlushTyped'
    <2>1. UNCHANGED <<current, phase, turns, done, idle, due, event>>
      BY <1>11 DEF SessionChanges, loopVars
    <2>2. kept' \in BOOLEAN
      BY <1>11, Zenon DEF SessionChanges
    <2> QED BY <1>0, <2>1, <2>2 DEF FlushTyped, Running
  <1>12. ASSUME RemoteRefresh
         PROVE  FlushTyped'
    BY <1>1, <1>12 DEF RemoteRefresh, loopVars
  <1>13. CASE UNCHANGED apiVars
    BY <1>1, <1>13 DEF apiVars, loopVars
  <1> QED BY <1>2, <1>3, <1>4, <1>5, <1>6, <1>7, <1>8, <1>9, <1>10, <1>11, <1>12, <1>13,
             Zenon DEF ApiNext, LoopStep

LEMMA ApiInitial ==
    ASSUME ApiAssumption, ApiInit
    PROVE  TypesInv /\ OrderInv
  <1>1. SessionTypeOK
    BY InitType DEF ApiInit
  <1>2. Pulled = 0 /\ written = 0 /\ MaxCommands \in Nat /\ Limit \in Nat
    <2>1. written = 0 /\ inbox = <<>> /\ MaxCommands \in Nat /\ Limit \in Nat
      BY DEF ApiInit, ApiAssumption
    <2>2. Len(inbox) = 0
      BY <2>1
    <2>3. Pulled = written - Len(inbox)
      BY DEF Pulled
    <2> QED BY ONLY <2>1, <2>2, <2>3
  <1>3. TasksTyped
    <2>1. inbox = <<>> /\ tasks = <<>> /\ answers = <<>> /\ current = Nobody /\ phase = "receive"
          /\ turns = 0 /\ dropped = {}
      BY DEF ApiInit
    <2> HIDE DEF Task
    <2> QED BY <1>2, <2>1 DEF TasksTyped
  <1>4. FlushTyped
    BY DEF ApiInit, FlushTyped
  <1>5. OrderInv
    <2>1. tasks = <<>> /\ answers = <<>> /\ current = Nobody
      BY DEF ApiInit
    <2> QED BY <1>2, <2>1, NobodyKind DEF OrderInv, InLine
  <1> QED BY <1>1, <1>3, <1>4, <1>5 DEF TypesInv

LEMMA ApiNextInv ==
    ASSUME ApiAssumption, TypesInv, OrderInv, [ApiNext]_apiVars
    PROVE  (TypesInv /\ OrderInv)'
  <1>1. SessionTypeOK'
    BY RibStep, StepType DEF TypesInv
  <1>2. LoopInv'
    BY LoopNext DEF LoopInv, TypesInv
  <1> QED BY <1>1, <1>2, FlushNext DEF LoopInv, TypesInv

LEMMA ApiTyped ==
    ASSUME ApiAssumption, TypesInv
    PROVE  ApiTypeOK
  <1>0. TasksTyped /\ FlushTyped /\ SessionTypeOK
    BY DEF TypesInv
  <1>1. /\ written \in Nat /\ MaxCommands \in Nat /\ Len(inbox) \in Nat /\ Pulled \in Nat
        /\ written = Pulled + Len(inbox) /\ written <= MaxCommands
    <2>1. /\ written \in Nat /\ MaxCommands \in Nat /\ Len(inbox) \in Nat /\ Pulled \in Nat
          /\ written = Pulled + Len(inbox)
      BY <1>0, PulledType
    <2>2. written \in 0..MaxCommands
      BY <1>0 DEF TasksTyped
    <2> QED BY ONLY <2>1, <2>2
  <1>2. dropped \subseteq 1..written
    <2>1. dropped \subseteq 1..Pulled
      BY <1>0 DEF TasksTyped
    <2> QED BY ONLY <1>1, <2>1
  <1>3. inbox \in Seq([kind : {"command"}, id : 1..MaxCommands, c : Commands])
    <2> DEFINE R == [kind : {"command"}, id : 1..MaxCommands, c : Commands]
    <2>1. inbox \in Seq(Task)
      BY DEF TypesInv, TasksTyped
    <2>2. DOMAIN inbox = 1..Len(inbox) /\ \A i \in 1..Len(inbox) : inbox[i] \in Task
      <3> HIDE DEF Task
      <3> QED BY <2>1, LenProperties, ElementOfSeq
    <2>3. ASSUME NEW i \in 1..Len(inbox)
          PROVE  inbox[i] \in R
      <3>1. IsTask(inbox[i], Pulled + i)
        BY <2>2 DEF TypesInv, TasksTyped
      <3>2. Pulled + i \in 1..MaxCommands
        BY <1>1
      <3> QED BY <2>2, <3>1, <3>2 DEF Task, IsTask, IsCommand
    <2> HIDE DEF R, Task
    <2>4. inbox \in [1..Len(inbox) -> R]
      BY <2>1, <2>2, <2>3, LenProperties
    <2>5. inbox \in Seq(R)
      BY <1>1, <2>4
    <2> QED BY <2>5 DEF R
  <1>4. /\ phase \in {"receive", "coroutines", "mixed"} /\ (phase = "receive" => current = Nobody)
        /\ turns \in 0..Limit /\ written \in 0..MaxCommands
    BY <1>0 DEF TasksTyped
  <1> QED BY <1>0, <1>2, <1>3, <1>4 DEF ApiTypeOK, FlushTyped

(* Every variable of the queues, of the callback that runs and of its flush  *)
(* keeps its type, for any commands, connections and steps of the peer.      *)
THEOREM ApiTypes == ApiSpec => []ApiTypeOK
  <1> USE ApiAssumption
  <1>1. ApiInit => TypesInv /\ OrderInv
    BY ApiInitial
  <1>2. (TypesInv /\ OrderInv) /\ [ApiNext]_apiVars => (TypesInv /\ OrderInv)'
    BY ApiNextInv
  <1>3. TypesInv => ApiTypeOK
    BY ApiTyped
  <1> QED BY <1>1, <1>2, <1>3, PTL DEF ApiSpec

(* The helper gets its answers in the order of its commands, and none is     *)
(* missing but for the commands the mixed run of callbacks dropped, however  *)
(* many connections are refused meanwhile and however long that takes.       *)
THEOREM AnswersInOrder == ApiSpec => []InOrder
  <1> USE ApiAssumption
  <1>1. ApiInit => TypesInv /\ OrderInv
    BY ApiInitial
  <1>2. (TypesInv /\ OrderInv) /\ [ApiNext]_apiVars => (TypesInv /\ OrderInv)'
    BY ApiNextInv
  <1>3. TypesInv /\ OrderInv => InOrder
    BY LineInOrder, PulledType DEF TypesInv, TasksTyped
  <1> QED BY <1>1, <1>2, <1>3, PTL DEF ApiSpec

------------------------------------------------------------------------------
(* What a sync command of one route waits for.                               *)

\* The peer's task, for a route nothing has touched.
LEMMA SendEffect ==
    ASSUME SessionTypeOK, InSync, Send
    PROVE  /\ session = "up" /\ UNCHANGED <<session, seen>>
           /\ \A n \in Nlri : ~Touched(n) => ~Touched(n)'
           /\ \A n \in Nlri : Undisturbed(n) => Undisturbed(n)'
           /\ ~sending /\ sending' => \A n \in Nlri : ~Touched(n)'
           /\ sending /\ ~sending' => batch' = EmptyBatch
  <1> DEFINE Effect ==
           /\ session = "up" /\ UNCHANGED <<session, seen>>
           /\ \A n \in Nlri : ~Touched(n) => ~Touched(n)'
           /\ \A n \in Nlri : Undisturbed(n) => Undisturbed(n)'
           /\ ~sending /\ sending' => \A n \in Nlri : ~Touched(n)'
           /\ sending /\ ~sending' => batch' = EmptyBatch
  <1>0. TypeOK /\ batch \in Batch /\ QueueInv
    BY DEF SessionTypeOK, TypeOK, InSync, CoreInv
  <1>s. /\ batch.announces \in [Attributes -> Table]
        /\ batch = [start |-> batch.start, refresh |-> batch.refresh, end |-> batch.end,
                    withdraws |-> batch.withdraws, order |-> batch.order,
                    announces |-> batch.announces]
    BY <1>0, BatchShape
  <1>a. ASSUME session = "up", UNCHANGED <<queues, seen, sending, session>>,
               batch'.withdraws \subseteq batch.withdraws,
               \A a \in Attributes, n \in Nlri :
                 batch'.announces[a][n] # NoPath => batch.announces[a][n] # NoPath
        PROVE  Effect
    <2>1. \A n \in Nlri : Touched(n)' <=> Touched(n)
      BY <1>a DEF Touched, queues
    <2>2. \A n \in Nlri : Undisturbed(n) => Undisturbed(n)'
      BY <1>a, <2>1 DEF Undisturbed, Announcing
    <2> QED BY <1>a, <2>1, <2>2
  <1>1. ASSUME StartUpdates
        PROVE  Effect
    <2>1. /\ session = "up" /\ UNCHANGED <<session, seen>> /\ sending' = TRUE /\ ~sending
          /\ new_nlri' = NoRoutes /\ pending_withdraws' = {}
          /\ batch'.withdraws = pending_withdraws /\ batch'.announces = new_attr_af_nlri
      BY <1>1 DEF StartUpdates, updates, ClearQueues, sessionVars
    <2>2. \A n \in Nlri : ~Touched(n)'
      BY <2>1 DEF Touched, NoRoutes
    <2>3. ASSUME NEW n \in Nlri, Undisturbed(n)
          PROVE  Undisturbed(n)'
      <3>1. new_nlri[n] = NoPath /\ n \notin pending_withdraws
        BY <2>3 DEF Undisturbed, Touched
      <3>2. \A a \in Attributes : new_attr_af_nlri[a][n] = NoPath
        BY <1>0, <3>1 DEF QueueInv
      <3> QED BY <2>1, <2>2, <3>1, <3>2 DEF Undisturbed, Announcing
    <2> QED BY <2>1, <2>2, <2>3
  <1>2. ASSUME NEW f \in Family, SendRefreshStart(f)
        PROVE  Effect
    <2>1. batch'.withdraws = batch.withdraws /\ batch'.announces = batch.announces
      BY <1>2, <1>s DEF SendRefreshStart, YieldStart
    <2> QED BY <1>a, <1>2, <2>1, Zenon DEF SendRefreshStart, Sending
  <1>3. ASSUME NEW f \in Family, SendRefreshEnd(f)
        PROVE  Effect
    <2>1. batch'.withdraws = batch.withdraws /\ batch'.announces = batch.announces
      BY <1>3, <1>s DEF SendRefreshEnd, YieldEnd
    <2> QED BY <1>a, <1>3, <2>1, Zenon DEF SendRefreshEnd, Sending
  <1>4. ASSUME NEW n \in Nlri, NEW p \in Path, SendRefresh(n, p)
        PROVE  Effect
    <2>1. batch'.withdraws = batch.withdraws /\ batch'.announces = batch.announces
      BY <1>4, <1>s DEF SendRefresh, YieldRefresh
    <2> QED BY <1>a, <1>4, <2>1, Zenon DEF SendRefresh, Sending
  <1>5. ASSUME NEW n \in Nlri, SendWithdraw(n)
        PROVE  Effect
    <2>1. batch'.withdraws \subseteq batch.withdraws /\ batch'.announces = batch.announces
      BY <1>5, <1>s DEF SendWithdraw, YieldWithdraw
    <2>2. session = "up" /\ UNCHANGED <<queues, seen, sending, session>>
      BY <1>5, Zenon DEF SendWithdraw, Sending
    <2> QED BY <1>a, <2>1, <2>2, Zenon
  <1>6. ASSUME NEW a \in Attributes, NEW M \in SUBSET Nlri, SendAnnounces(a, M)
        PROVE  Effect
    <2>1. batch' = [batch EXCEPT !.announces[a] = Without(@, M)]
      BY <1>6 DEF SendAnnounces, YieldAnnounces
    <2>2. batch'.withdraws = batch.withdraws
          /\ batch'.announces = [batch.announces EXCEPT ![a] = Without(@, M)]
      BY <2>1, <1>s
    <2>3. \A c \in Attributes, n \in Nlri :
            batch'.announces[c][n] # NoPath => batch.announces[c][n] # NoPath
      BY <2>2, <1>s DEF Without
    <2>4. session = "up" /\ UNCHANGED <<queues, seen, sending, session>>
      BY <1>6, Zenon DEF SendAnnounces, Sending
    <2> QED BY <1>a, <2>2, <2>3, <2>4
  <1>7. ASSUME FinishUpdates
        PROVE  Effect
    <2>1. session = "up" /\ UNCHANGED <<queues, seen, session>> /\ sending' = FALSE /\ batch' = EmptyBatch
      BY <1>7 DEF FinishUpdates, EndGenerator
    <2>2. \A n \in Nlri : (Touched(n)' <=> Touched(n))
      BY <2>1 DEF Touched, queues
    <2>3. \A n \in Nlri : ~Announcing(n)' /\ n \notin batch'.withdraws
      BY <2>1 DEF Announcing, EmptyBatch, NoBuckets, NoRoutes
    <2>4. \A n \in Nlri : Undisturbed(n) => Undisturbed(n)'
      BY <2>2, <2>3 DEF Undisturbed
    <2> QED BY <2>1, <2>2, <2>4
  <1>8. ASSUME SendEor
        PROVE  Effect
    <2>1. session = "up" /\ UNCHANGED <<ribVars, session>>
      BY <1>8, Zenon DEF SendEor
    <2>2. UNCHANGED <<queues, seen, sending, session, batch>>
      BY <2>1, Zenon DEF ribVars, queues
    <2> QED BY <1>a, <2>1, <2>2, Zenon
  <1>9. Effect
    <2> HIDE DEF Effect
    <2> QED BY <1>1, <1>2, <1>3, <1>4, <1>5, <1>6, <1>7, <1>8, Zenon DEF Send
  <1> QED BY <1>9

\* The session comes up, is lost or is reset.
LEMMA SessionEffect ==
    ASSUME Cache, SessionTypeOK, InSync, SessionChanges
    PROVE  /\ kept' => kept /\ session' # "closing"
           /\ session' # "closing" => ~sending' /\ session # "up"
           /\ \A n \in Nlri : seen'[n] = seen[n]
  <1>0. TypeOK /\ (sending => session = "up") /\ session \in {"up", "closing", "down"}
    BY DEF SessionTypeOK, InSync, CoreInv, BatchInv
  <1>1. kept' => kept /\ session' # "closing"
    BY DEF SessionChanges
  <1>2. CASE Establish
    <2>1. session = "down" /\ session' = "up" /\ Change(cached_routes(Family), Keys(NoRoutes) \ Keys(NoRoutes))
      BY <1>2 DEF Establish, EstablishWith, replace_restart
    <2>2. cached_routes(Family) \in Table /\ Keys(NoRoutes) \ Keys(NoRoutes) = {}
      BY <1>0, TableOps DEF TypeOK
    <2>3. Change(cached_routes(Family), {})
      BY <2>1, <2>2
    <2>4. \A n \in Nlri : cached_routes(Family)[n] = seen[n]
      BY FamilyAssumption DEF cached_routes
    <2>5. ASSUME NEW n \in Nlri
          PROVE  seen'[n] = seen[n]
      BY <1>0, <2>2, <2>3, <2>4, ChangePointwise
    <2>6. sending' = sending
      BY <2>1 DEF Change
    <2> QED BY <1>0, <1>1, <2>1, <2>5, <2>6
  <1>3. CASE Lose
    BY <1>1, <1>3 DEF Lose
  <1>4. CASE Reset
    BY <1>0, <1>1, <1>4 DEF Reset, reset
  <1> QED BY <1>2, <1>3, <1>4 DEF SessionChanges

LEMMA TheType ==
    ASSUME ApiAssumption, TypesInv, event # "none", Single
    PROVE  The.n \in Nlri
  <1>1. current \in Task \cup {Nobody} /\ IsCommand(current)
    BY DEF TypesInv, TasksTyped, FlushTyped, Running
  <1>2. 1 \in 1..Len(current.c.do)
    BY DEF Single
  <1> QED BY <1>1, <1>2, RouteType DEF The

\* The consequence of SentInv, for what is known of the command.
Sent(ev, d, n, p) ==
    /\ d >= 1
    /\ seen[n] = p
    /\ session # "closing"
    /\ ev = "registered" /\ sending => ~Touched(n)
    /\ ev = "set" => session = "up" /\ Undisturbed(n)

LEMMA SentNext ==
    ASSUME ApiAssumption, Cache, TypesInv, InSync, SentInv, [ApiNext]_apiVars
    PROVE  SentInv'
  <1>0. FlushTyped /\ SessionTypeOK /\ done \in Nat
    BY DEF TypesInv, FlushTyped
  <1> DEFINE Claimed == event # "none" /\ idle /\ kept /\ Single
  <1>c. Claimed => Sent(event, done, The.n, The.p) /\ The.n \in Nlri
    BY TheType DEF SentInv, Sent
  <1>p. ASSUME Claimed' => Sent(event, done, The.n, The.p)'
        PROVE  SentInv'
    BY <1>p DEF SentInv, Sent
  <1>1. ASSUME event' = "none" \/ idle' = FALSE
        PROVE  SentInv'
    BY <1>1 DEF SentInv
  <1>2. ASSUME UNCHANGED <<vars, runVars, current>>
        PROVE  SentInv'
    <2>1. UNCHANGED <<event, idle, kept, done, seen, session, sending, new_nlri, pending_withdraws, batch, current>>
      BY <1>2, Zenon DEF runVars, waitVars, vars, ribVars, sessionVars
    <2> QED BY <2>1 DEF SentInv, Single, The, Touched, Undisturbed, Announcing
  <1>3. ASSUME ~Running, UNCHANGED event
        PROVE  SentInv'
    BY <1>0, <1>1, <1>3, NotWaiting
  <1>4. ASSUME NEW c \in Commands, HelperWrites(c)
        PROVE  SentInv'
    BY <1>2, <1>4, Zenon DEF HelperWrites
  <1>5. ASSUME Iterate \/ TakeCoroutine \/ Resume \/ OutOfTurns
        PROVE  SentInv'
    <2>1. ~Running
      <3>1. CASE Iterate
        BY <3>1, NobodyKind DEF Iterate, Running, TypesInv, TasksTyped
      <3>2. CASE TakeCoroutine
        BY <3>2, NobodyKind DEF TakeCoroutine, Running
      <3>3. CASE Resume
        BY <3>3 DEF Resume, Running, IsCommand
      <3>4. CASE OutOfTurns
        BY <3>4 DEF OutOfTurns, Running
      <3> QED BY <1>5, <3>1, <3>2, <3>3, <3>4
    <2>2. UNCHANGED event
      BY <1>5, Zenon DEF Iterate, TakeCoroutine, Resume, OutOfTurns, runVars, waitVars
    <2> QED BY <1>3, <2>1, <2>2
  <1>6. ASSUME NextRoute
        PROVE  SentInv'
    <2> DEFINE n == current.c.do[done + 1].n
               p == current.c.do[done + 1].p
    <2>1. UNCHANGED <<session, sending, current>> /\ seen'[n] = p /\ done' = done + 1
          /\ done < Len(current.c.do)
      BY <1>6, NextRouteStep DEF NextRoute, loopVars
    <2>2. ASSUME Claimed'
          PROVE  Sent(event, done, The.n, The.p)'
      <3>1. Single /\ done = 0
        BY <1>0, <2>1, <2>2 DEF Single
      <3>2. Register /\ idle' = ~sending
        <4>1. CASE UNCHANGED waitVars
          <5>1. Claimed
            BY <2>2, <3>1, <4>1 DEF waitVars
          <5> QED BY <1>c, <3>1, <5>1 DEF Sent
        <4> QED BY <1>6, <4>1, Zenon DEF NextRoute
      <3>3. event' = "registered" /\ session # "closing"
        BY <2>2, <3>2, RegisterType
      <3>4. The' = current.c.do[done + 1]
        BY <2>1, <3>1 DEF The
      <3>5. ~sending'
        BY <2>1, <2>2, <3>2
      <3> QED BY <1>0, <2>1, <3>3, <3>4, <3>5 DEF Sent
    <2> QED BY <1>p, <2>2
  <1>7. ASSUME RegisterGroup
        PROVE  SentInv'
    BY <1>1, <1>7 DEF RegisterGroup
  <1>8. ASSUME Answer
        PROVE  SentInv'
    BY <1>1, <1>8 DEF Answer, Forgotten
  <1>9. ASSUME PeerSends
        PROVE  SentInv'
    <2>1. Send /\ event' = Fired /\ UNCHANGED <<current, done, idle, kept>>
      BY <1>9 DEF PeerSends, loopVars
    <2>2. ASSUME Claimed'
          PROVE  Sent(event, done, The.n, The.p)'
      <3>1. Claimed /\ The' = The
        BY <2>1, <2>2 DEF Fired, Single, The
      <3>2. PICK n \in Nlri : n = The.n /\ Sent(event, done, n, The.p)
        BY <1>c, <3>1
      <3>3. /\ session = "up" /\ UNCHANGED <<session, seen>>
            /\ ~Touched(n) => ~Touched(n)'
            /\ Undisturbed(n) => Undisturbed(n)'
            /\ ~sending /\ sending' => ~Touched(n)'
            /\ sending /\ ~sending' => batch' = EmptyBatch
        BY <1>0, <2>1, SendEffect
      <3>4. event' = "registered" => event = "registered"
        BY <2>1 DEF Fired
      <3>5. event' = "registered" /\ sending' => ~Touched(n)'
        BY <3>2, <3>3, <3>4 DEF Sent
      <3>6. event' = "set" => Undisturbed(n)'
        <4>1. CASE event = "set"
          BY <3>2, <3>3, <4>1 DEF Sent
        <4>2. CASE sending /\ ~sending' /\ event = "registered"
          <5>1. ~Touched(n)'
            BY <3>2, <3>3, <4>2 DEF Sent
          <5>2. ~Announcing(n)' /\ n \notin batch'.withdraws
            BY <3>3, <4>2 DEF Announcing, EmptyBatch, NoBuckets, NoRoutes
          <5> QED BY <5>1, <5>2 DEF Undisturbed
        <4> QED BY <2>1, <4>1, <4>2 DEF Fired
      <3>7. Sent(event, done, n, The.p)'
        BY <2>1, <3>1, <3>2, <3>3, <3>5, <3>6 DEF Sent
      <3> QED BY <3>1, <3>2, <3>7 DEF Sent
    <2> QED BY <1>p, <2>2
  <1>10. ASSUME SessionChanges
         PROVE  SentInv'
    <2>1. UNCHANGED <<current, done, event, idle>>
      BY <1>10 DEF SessionChanges, loopVars
    <2>2. ASSUME Claimed'
          PROVE  Sent(event, done, The.n, The.p)'
      <3>1. kept /\ session' # "closing" /\ ~sending' /\ session # "up" /\ \A n \in Nlri : seen'[n] = seen[n]
        BY <1>0, <1>10, <2>2, SessionEffect
      <3>2. Claimed /\ The' = The
        BY <2>1, <2>2, <3>1 DEF Single, The
      <3>3. Sent(event, done, The.n, The.p) /\ The.n \in Nlri
        BY <1>c, <3>2
      <3> QED BY <2>1, <3>1, <3>2, <3>3 DEF Sent
    <2> QED BY <1>p, <2>2
  <1>11. ASSUME RemoteRefresh
         PROVE  SentInv'
    <2>1. /\ UNCHANGED <<new_nlri, pending_withdraws, seen, sending, batch>>
          /\ UNCHANGED <<session, runVars, current>>
      BY <1>11 DEF RemoteRefresh, Resend, resend, sessionVars, loopVars
    <2>2. UNCHANGED <<event, idle, kept, done>>
      BY <2>1, Zenon DEF runVars, waitVars
    <2> QED BY <2>1, <2>2 DEF SentInv, Single, The, Touched, Undisturbed, Announcing
  <1>12. CASE UNCHANGED apiVars
    BY <1>2, <1>12, Zenon DEF apiVars, loopVars
  <1> HIDE DEF Claimed
  <1> QED BY <1>4, <1>5, <1>6, <1>7, <1>8, <1>9, <1>10, <1>11, <1>12, Zenon DEF ApiNext, LoopStep

(* With the cache, no queued route queued again with other attributes and no *)
(* resend asked for before the first batch is out, a command of one route in *)
(* sync mode whose flush event is set finds its route with the remote        *)
(* speaker, if no generator was alive when it registered and the session has *)
(* lasted: for any commands, any number of routes and any refresh requests.  *)
THEOREM SyncMeansSent ==
    ASSUME Cache, ~Overwrites, ~EarlyRefresh
    PROVE  ApiSpec => []SyncSent
  <1> USE ApiAssumption
  <1>1. ApiInit => (TypesInv /\ OrderInv) /\ InSync /\ SentInv
    BY ApiInitial, InitInSync DEF ApiInit, SentInv
  <1>2. (TypesInv /\ OrderInv) /\ InSync /\ SentInv /\ [ApiNext]_apiVars
          => ((TypesInv /\ OrderInv) /\ InSync /\ SentInv)'
    <2> SUFFICES ASSUME TypesInv, OrderInv, InSync, SentInv, [ApiNext]_apiVars
                 PROVE  (TypesInv /\ OrderInv)' /\ InSync' /\ SentInv'
      OBVIOUS
    <2>1. InSync'
      BY RibStep, StepInSync DEF TypesInv
    <2> QED BY <2>1, ApiNextInv, SentNext
  <1>3. (TypesInv /\ OrderInv) /\ InSync /\ SentInv => SyncSent
    <2> SUFFICES ASSUME TypesInv, InSync, SentInv, event = "set", idle, kept, Single
                 PROVE  peer_table[The.n] = The.p
      BY DEF SyncSent, Single, The
    <2>1. The.n \in Nlri
      BY TheType
    <2>2. session = "up" /\ Undisturbed(The.n) /\ seen[The.n] = The.p
      BY DEF SentInv
    <2> QED BY <2>1, <2>2 DEF InSync, CoreInv, TableInv
  <1> QED BY <1>1, <1>2, <1>3, PTL DEF ApiSpec
==============================================================================
