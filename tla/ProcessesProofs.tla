---------------------------- MODULE ProcessesProofs ----------------------------
(* That no line, command or answer of a helper is lost, mixed up or made up,    *)
(* and that its starts stay within the limit, whatever it writes, however its   *)
(* lines are cut and however often it dies: for any number of lines and faults. *)
EXTENDS Processes, SequenceTheorems, FiniteSetTheorems, WellFoundedInduction, TLAPS

---------------------------------------------------------------------------
(* Induction, by sets: a set of naturals has a smallest element.           *)

LEMMA SmallestNat ==
    ASSUME NEW T \in SUBSET Nat, T # {}
    PROVE  \E x \in T : \A y \in T : x <= y
  <1> DEFINE R == {p \in Nat \X Nat : p[1] < p[2]}
  <1>1. IsWellFoundedOn(OpToRel(<, Nat), Nat)
    BY NatLessThanWellFounded
  <1>2. OpToRel(<, Nat) = R
    BY DEF OpToRel
  <1>3. \E x \in T : \A y \in T : ~(<<y, x>> \in R)
    <2> HIDE DEF R
    <2>1. IsWellFoundedOn(R, Nat)
      BY <1>1, <1>2
    <2> QED BY <2>1, WFMin
  <1>4. PICK x \in T : \A y \in T : ~(<<y, x>> \in R)
    BY <1>3
  <1>5. \A y \in T : ~(y < x)
    BY <1>4
  <1> QED BY <1>5

LEMMA NatInductive ==
    ASSUME NEW S \in SUBSET Nat, 0 \in S, \A n \in S : n + 1 \in S
    PROVE  S = Nat
  <1> SUFFICES ASSUME S # Nat PROVE FALSE
    OBVIOUS
  <1>1. PICK x \in Nat \ S : \A y \in Nat \ S : x <= y
    BY SmallestNat
  <1> QED BY <1>1

---------------------------------------------------------------------------
(* Fragments and lines.                                                    *)

\* The fragments of this incarnation, numbered from 1: heads are odd.
Piece(i) == [line |-> <<inc, (i + 1) \div 2>>, part |-> IF i % 2 = 1 THEN "head" ELSE "tail"]

Even(n) == {i \in 1..n : i % 2 = 0}

LEMMA EvenCount ==
    ASSUME NEW n \in Nat
    PROVE  IsFiniteSet(Even(n)) /\ Cardinality(Even(n)) = n \div 2
  <1> DEFINE S == {k \in Nat : IsFiniteSet(Even(k)) /\ Cardinality(Even(k)) = k \div 2}
  <1>1. 0 \in S
    <2>1. Even(0) = {}
      BY DEF Even
    <2> QED BY <2>1, FS_EmptySet
  <1>2. ASSUME NEW k \in S PROVE k + 1 \in S
    <2>1. CASE k % 2 = 1
      <3>1. Even(k + 1) = Even(k) \cup {k + 1} /\ k + 1 \notin Even(k)
        BY <2>1 DEF Even
      <3>2. IsFiniteSet(Even(k + 1)) /\ Cardinality(Even(k + 1)) = Cardinality(Even(k)) + 1
        <4>1. IsFiniteSet(Even(k))
          OBVIOUS
        <4> QED BY <3>1, <4>1, FS_AddElement
      <3>3. (k + 1) \div 2 = (k \div 2) + 1
        BY <2>1
      <3> QED BY <3>2, <3>3
    <2>2. CASE k % 2 = 0
      <3>1. Even(k + 1) = Even(k)
        BY <2>2 DEF Even
      <3>2. (k + 1) \div 2 = k \div 2
        BY <2>2
      <3> QED BY <3>1, <3>2
    <2> QED BY <2>1, <2>2
  <1>3. S = Nat
    <2> HIDE DEF S
    <2>1. S \in SUBSET Nat
      BY DEF S
    <2> QED BY <1>1, <1>2, <2>1, NatInductive
  <1> QED BY <1>3

LEMMA OddPlus ==
    ASSUME NEW u \in Nat, NEW i \in Nat
    PROVE  (2 * u + i) % 2 = i % 2
OBVIOUS

LEMMA HalfOdd ==
    ASSUME NEW u \in Nat, NEW k \in Nat
    PROVE  (2 * u + 2 * k + 1) \div 2 = u + k
OBVIOUS

\* Fragments that begin with a head make a line of each two.
LEMMA LinesOfPieces ==
    ASSUME NEW u \in Nat, inc \in Nat,
           NEW raw \in Seq(Fragment), \A i \in 1..Len(raw) : raw[i] = Piece(2 * u + i)
    PROVE  LinesOf(raw) = [k \in 1 .. Len(raw) \div 2 |-> <<inc, u + k>>]
  <1> DEFINE L == Len(raw)
  <1>1. L \in Nat /\ DOMAIN raw = 1..L
    BY LenProperties
  <1>2. \A i \in 1..L : raw[i].part = "tail" <=> i % 2 = 0
    <2> TAKE i \in 1..L
    <2>1. raw[i].part = (IF (2 * u + i) % 2 = 1 THEN "head" ELSE "tail")
      <3>1. raw[i] = Piece(2 * u + i)
        OBVIOUS
      <3> QED BY ONLY <3>1 DEF Piece
    <2>2. (2 * u + i) % 2 = i % 2
      <3> HIDE DEF L
      <3>1. i \in Nat
        BY <1>1
      <3> QED BY ONLY <3>1, u \in Nat, OddPlus
    <2> QED BY <1>1, <2>1, <2>2
  <1>3. Ends(raw) = Even(L)
    BY <1>1, <1>2 DEF Ends, Even
  <1>4. \A i \in Ends(raw) : {j \in Ends(raw) : j <= i} = Even(i)
    BY <1>1, <1>3 DEF Even
  <1>5. ASSUME NEW k \in 1 .. L \div 2
        PROVE  NthEnd(raw, k) = 2 * k
    <2>1. \A i \in Ends(raw) : Cardinality({j \in Ends(raw) : j <= i}) = k <=> i = 2 * k
      <3> TAKE i \in Ends(raw)
      <3>1. i \in Nat /\ i % 2 = 0
        BY <1>3 DEF Even
      <3>2. Cardinality({j \in Ends(raw) : j <= i}) = i \div 2
        BY <1>4, <3>1, EvenCount
      <3> HIDE DEF L
      <3> QED BY <1>1, <3>1, <3>2
    <2>2. 2 * k \in Ends(raw)
      <3> HIDE DEF L
      <3>1. 2 * k \in 1..L /\ (2 * k) % 2 = 0
        BY <1>1
      <3> QED BY <1>3, <3>1 DEF Even
    <2> QED BY <2>1, <2>2 DEF NthEnd
  <1>6. Cardinality(Ends(raw)) = L \div 2
    BY <1>1, <1>3, EvenCount
  <1>7. ASSUME NEW k \in 1 .. L \div 2
        PROVE  raw[NthEnd(raw, k)].line = <<inc, u + k>>
    <2>1. 2 * k \in 1..L /\ k \in Nat
      <3> HIDE DEF L
      <3> QED BY <1>1
    <2>2. raw[2 * k].line = <<inc, (2 * u + 2 * k + 1) \div 2>>
      <3>1. raw[2 * k] = Piece(2 * u + 2 * k)
        BY <2>1
      <3> QED BY ONLY <3>1 DEF Piece
    <2>3. (2 * u + 2 * k + 1) \div 2 = u + k
      BY ONLY <2>1, u \in Nat, HalfOdd
    <2> QED BY <1>5, <2>2, <2>3
  <1> QED BY <1>6, <1>7 DEF LinesOf

---------------------------------------------------------------------------
(* The inductive invariant.                                                *)

\* What is in the pipe follows what was read, and the buffer holds the head of
\* a line when half of it was read.
PipesInv ==
    /\ Len(stdout) <= wrote
    /\ \A i \in 1..Len(stdout) : stdout[i] = Piece(Taken + i)
    /\ partial = IF Taken % 2 = 1 THEN <<Piece(Taken)>> ELSE <<>>

\* The queue cs after its first `old` commands, left by other incarnations:
\* those this one wrote, none missing, after the last executed.
CommandsFrom(cs, old, lines) ==
    /\ old \in 0 .. Len(cs)
    /\ \A k \in 1..old : cs[k][1] < inc
    /\ old > 0 => Executed = 0
    /\ \A k \in old + 1 .. Len(cs) : cs[k] = <<inc, Executed + k - old>>
    /\ Executed + Len(cs) - old = lines

AnswersFrom(as, old, lines) ==
    /\ old \in 0 .. Len(as)
    /\ \A k \in 1..old : as[k].line[1] < inc
    /\ \A k \in old + 1 .. Len(as) : as[k].line = <<inc, got + k - old>>
    /\ got + Len(as) - old = lines

\* No command, answer or execution is of an incarnation yet to come.
NoneAhead ==
    /\ last[1] <= inc
    /\ \A k \in 1..Len(commands) : commands[k][1] <= inc
    /\ \A k \in 1..Len(answers) : answers[k].line[1] <= inc

CommandsInv == alive => \E old \in Nat : CommandsFrom(commands, old, Taken \div 2)
AnswersInv == alive => \E old \in Nat : AnswersFrom(answers, old, Executed)

HelperInv ==
    /\ HelperTypeOK
    /\ PipesInv
    /\ NoneAhead
    /\ CommandsInv
    /\ AnswersInv
    /\ RespawnBounded

---------------------------------------------------------------------------
(* Sequences.                                                              *)

LEMMA SequenceOf ==
    ASSUME NEW S, NEW m \in Nat, NEW s, s = [k \in 1..m |-> s[k]], \A k \in 1..m : s[k] \in S
    PROVE  s \in Seq(S) /\ Len(s) = m
  <1>1. s \in Seq(S)
    BY SeqDef
  <1>2. DOMAIN s = 1..m
    OBVIOUS
  <1> QED BY <1>1, <1>2, LenProperties

LEMMA Appended ==
    ASSUME NEW S, NEW s \in Seq(S), NEW t \in Seq(S)
    PROVE  /\ s \o t \in Seq(S)
           /\ Len(s \o t) = Len(s) + Len(t)
           /\ \A k \in 1..Len(s) : (s \o t)[k] = s[k]
           /\ \A k \in 1..Len(t) : (s \o t)[Len(s) + k] = t[k]
  <1>1. Len(s) \in Nat /\ Len(t) \in Nat
    BY LenProperties
  <1>2. /\ s \o t \in Seq(S)
        /\ Len(s \o t) = Len(s) + Len(t)
        /\ \A i \in 1 .. Len(s) + Len(t) :
             (s \o t)[i] = IF i <= Len(s) THEN s[i] ELSE t[i - Len(s)]
    BY ConcatProperties
  <1>3. ASSUME NEW k \in 1..Len(t) PROVE (s \o t)[Len(s) + k] = t[k]
    <2>1. Len(s) + k \in 1 .. Len(s) + Len(t) /\ ~(Len(s) + k <= Len(s))
          /\ (Len(s) + k) - Len(s) = k
      BY <1>1
    <2> QED BY <1>2, <2>1
  <1> QED BY <1>1, <1>2, <1>3

\* The sequence without its first element.
LEMMA Behead ==
    ASSUME NEW S, NEW s \in Seq(S), s # <<>>
    PROVE  /\ Head(s) = s[1] /\ s[1] \in S /\ Len(s) \in Nat \ {0}
           /\ Tail(s) \in Seq(S) /\ Len(Tail(s)) = Len(s) - 1
           /\ \A k \in 1 .. Len(s) - 1 : Tail(s)[k] = s[k + 1]
BY HeadTailProperties, LenProperties, ElementOfSeq, EmptySeq

---------------------------------------------------------------------------
(* A helper that is terminated or started.                                 *)

\* What every way of ending or starting a helper comes to.
Replaced ==
    /\ wrote' = 0 /\ stdout' = <<>> /\ partial' = <<>>
    /\ \/ inc' = inc /\ got' = got /\ ~alive'
       \/ inc' = inc + 1 /\ got' = 0
    /\ running' \in BOOLEAN /\ alive' \in BOOLEAN
    /\ restart' \in BOOLEAN /\ broken' \in BOOLEAN
    /\ count' \in 0 .. RespawnNumber + 1
    /\ alive' => running'
    /\ running' => count' <= RespawnNumber

LEMMA StartedReplaces ==
    ASSUME HelperTypeOK, NEW c, NEW raised, Started(c, raised)
    PROVE  Replaced
  <1> USE ProcessesAssumption DEF HelperTypeOK, Replaced, Dropped
  <1>1. CASE ~restart /\ Terminated /\ UNCHANGED <<restart, broken, count>>
    BY <1>1 DEF Terminated
  <1>2. CASE /\ restart /\ ~TooFast /\ Begun /\ Dropped
             /\ restart' = (c = "respawn") /\ count' = count + 1
             /\ UNCHANGED broken
    BY <1>2 DEF TooFast, Begun
  <1>3. CASE /\ running' = FALSE /\ alive' = FALSE /\ inc' = inc + 1
             /\ wrote' = 0 /\ stdout' = <<>> /\ got' = 0 /\ Dropped
             /\ restart' = (c = "respawn")
             /\ count' = RespawnNumber + 1
             /\ UNCHANGED broken
    <2>1. restart' \in BOOLEAN
      BY ONLY <1>3
    <2>2. count' \in 0 .. RespawnNumber + 1
      BY <1>3
    <2>3. wrote' = 0 /\ stdout' = <<>> /\ partial' = <<>> /\ broken' = broken
      BY <1>3
    <2>4. inc' = inc + 1 /\ got' = 0 /\ running' = FALSE /\ alive' = FALSE
      BY <1>3
    <2> QED BY <2>1, <2>2, <2>3, <2>4
  <1>4. CASE Terminated /\ broken' = TRUE /\ UNCHANGED <<restart, count>>
    BY <1>4 DEF Terminated
  <1> QED BY <1>1, <1>2, <1>3, <1>4 DEF Started

LEMMA ProblemReplaces ==
    ASSUME HelperTypeOK, HandleProblem
    PROVE  Replaced
  <1>1. CASE restart
    <2>1. PICK raised \in BOOLEAN : Started(conf, raised)
      BY <1>1 DEF HandleProblem
    <2> QED BY <2>1, StartedReplaces
  <1>2. CASE ~restart
    BY <1>2 DEF HandleProblem, HelperTypeOK, Replaced, Terminated, Dropped
  <1> QED BY <1>1, <1>2

LEMMA TerminatedReplaces ==
    ASSUME HelperTypeOK, Terminated, UNCHANGED <<restart, broken, count>>
    PROVE  Replaced
BY DEF HelperTypeOK, Replaced, Terminated, Dropped

\* A new incarnation begins with nothing read, executed or answered, and
\* whatever is queued belongs to the older ones.
LEMMA ReplacedKeeps ==
    ASSUME HelperTypeOK, NoneAhead, Replaced,
           UNCHANGED <<last, answers>>, commands' \in Seq(Command),
           \A k \in 1..Len(commands') : commands'[k][1] <= inc
    PROVE  /\ PipesInv' /\ NoneAhead' /\ RespawnBounded'
           /\ CommandsInv' /\ AnswersInv'
  <1>1. inc \in Nat /\ inc' \in Nat /\ inc <= inc'
    BY DEF HelperTypeOK, Replaced
  <1>2. Len(stdout') = 0 /\ wrote' = 0 /\ Taken' = 0
    <2>1. stdout' = <<>> /\ wrote' = 0
      BY DEF Replaced
    <2>2. Len(stdout') = 0
      BY ONLY <2>1
    <2>3. Taken' = wrote' - Len(stdout')
      BY DEF Taken
    <2> QED BY <2>1, <2>2, <2>3
  <1>3. PipesInv'
    BY <1>2 DEF PipesInv, Replaced
  <1>4. /\ last[1] \in Nat
        /\ \A k \in 1..Len(commands') : commands'[k][1] \in Nat
        /\ Len(answers) \in Nat
        /\ \A k \in 1..Len(answers) : answers[k].line[1] \in Nat
    <2>1. last[1] \in Nat
      BY DEF HelperTypeOK, Command
    <2>2. \A k \in 1..Len(commands') : commands'[k][1] \in Nat
      <3> TAKE k \in 1..Len(commands')
      <3>1. commands'[k] \in Command
        BY ElementOfSeq
      <3> QED BY <3>1 DEF Command
    <2>3. Len(answers) \in Nat
      BY LenProperties DEF HelperTypeOK
    <2>4. \A k \in 1..Len(answers) : answers[k].line[1] \in Nat
      <3> TAKE k \in 1..Len(answers)
      <3>1. answers[k] \in [line: Command, cut: BOOLEAN]
        BY ElementOfSeq DEF HelperTypeOK
      <3>2. answers[k].line \in Command
        BY <3>1
      <3> QED BY <3>2 DEF Command
    <2> QED BY <2>1, <2>2, <2>3, <2>4
  <1>5. NoneAhead'
    BY <1>1, <1>4 DEF NoneAhead
  <1>6. RespawnBounded'
    BY DEF Replaced, RespawnBounded
  <1>7. ASSUME alive' PROVE inc' = inc + 1 /\ got' = 0 /\ Executed' = 0
    <2>1. inc' = inc + 1 /\ got' = 0
      BY <1>7 DEF Replaced
    <2>2. last'[1] # inc'
      BY <1>1, <1>4, <2>1 DEF NoneAhead
    <2> QED BY <2>1, <2>2 DEF Executed
  <1>8. ASSUME alive' PROVE \E old \in Nat : CommandsFrom(commands, old, Taken \div 2)'
    <2>1. Len(commands') \in Nat
      BY LenProperties
    <2>2. CommandsFrom(commands, Len(commands), Taken \div 2)'
      BY <1>1, <1>2, <1>4, <1>7, <1>8, <2>1 DEF CommandsFrom
    <2> QED BY <2>1, <2>2
  <1>9. ASSUME alive' PROVE \E old \in Nat : AnswersFrom(answers, old, Executed)'
    <2>1. Len(answers') \in Nat
      BY <1>4
    <2>2. AnswersFrom(answers, Len(answers), Executed)'
      BY <1>1, <1>4, <1>7, <1>9, <2>1 DEF AnswersFrom, NoneAhead
    <2> QED BY <2>1, <2>2
  <1> QED BY <1>3, <1>5, <1>6, <1>8, <1>9 DEF CommandsInv, AnswersInv

---------------------------------------------------------------------------
(* The fragments a helper writes, and those a read takes.                  *)

LEMMA WrittenPiece ==
    ASSUME HelperTypeOK
    PROVE  LET f == [line |-> <<inc, wrote \div 2 + 1>>,
                     part |-> IF wrote % 2 = 0 THEN "head" ELSE "tail"]
           IN  f = Piece(wrote + 1) /\ f \in Fragment
  <1>1. wrote \in Nat /\ inc \in Nat
    BY ProcessesAssumption DEF HelperTypeOK
  <1>2. (wrote + 1 + 1) \div 2 = wrote \div 2 + 1 /\ wrote \div 2 + 1 \in Nat
    BY ONLY <1>1
  <1>3. (wrote + 1) % 2 = 1 <=> wrote % 2 = 0
    BY ONLY <1>1
  <1>4. <<inc, wrote \div 2 + 1>> \in Command
    BY <1>1, <1>2 DEF Command
  <1> QED BY <1>2, <1>3, <1>4 DEF Piece, Fragment

LEMMA WritesPipes ==
    ASSUME HelperTypeOK, PipesInv, HelperWrites
    PROVE  PipesInv' /\ Taken' = Taken
  <1> DEFINE f == [line |-> <<inc, wrote \div 2 + 1>>,
                   part |-> IF wrote % 2 = 0 THEN "head" ELSE "tail"]
  <1>1. f = Piece(wrote + 1) /\ f \in Fragment
    BY WrittenPiece
  <1>2. stdout' = Append(stdout, f) /\ wrote' = wrote + 1 /\ partial' = partial /\ inc' = inc
    BY DEF HelperWrites, life
  <1> HIDE DEF f
  <1>3. stdout \in Seq(Fragment) /\ wrote \in Nat /\ Len(stdout) \in Nat
    BY ProcessesAssumption, LenProperties DEF HelperTypeOK
  <1>4. /\ Len(stdout') = Len(stdout) + 1
        /\ \A i \in 1..Len(stdout) : stdout'[i] = stdout[i]
        /\ stdout'[Len(stdout) + 1] = f
    BY <1>1, <1>2, <1>3, AppendProperties
  <1>5. Taken' = Taken /\ Taken \in Nat /\ Taken + Len(stdout) = wrote
    BY <1>2, <1>3, <1>4 DEF Taken, PipesInv
  <1>6. \A i \in Nat : Piece(i)' = Piece(i)
    BY <1>2 DEF Piece
  <1>7. ASSUME NEW i \in 1..Len(stdout') PROVE stdout'[i] = Piece(Taken + i)
    <2>1. CASE i \in 1..Len(stdout)
      BY <1>4, <2>1 DEF PipesInv
    <2>2. CASE i = Len(stdout) + 1
      <3>1. Taken + i = wrote + 1
        BY <1>3, <1>5, <2>2
      <3> QED BY <1>1, <1>4, <2>2, <3>1
    <2> QED BY <1>3, <1>4, <2>1, <2>2
  <1>8. PipesInv'
    <2>1. Len(stdout') <= wrote'
      BY <1>2, <1>3, <1>4 DEF PipesInv
    <2>2. ASSUME NEW i \in 1..Len(stdout') PROVE stdout'[i] = Piece(Taken + i)'
      <3>1. Piece(Taken + i)' = Piece(Taken + i)
        BY <1>2, <1>5 DEF Piece
      <3> QED BY <1>7, <3>1
    <2>3. partial' = IF Taken' % 2 = 1 THEN <<Piece(Taken)'>> ELSE <<>>
      <3>1. Piece(Taken)' = Piece(Taken)
        BY <1>2, <1>5 DEF Piece
      <3> QED BY <1>2, <1>5, <3>1 DEF PipesInv
    <2> QED BY <2>1, <2>2, <2>3 DEF PipesInv
  <1> QED BY <1>5, <1>8

\* What a read finds, with what the buffer held: it begins with a head, and the
\* last fragment is kept if it is one.
LEMMA ReadPieces ==
    ASSUME HelperTypeOK, PipesInv, NEW n \in 0..Len(stdout),
           NEW raw, raw = partial \o SubSeq(stdout, 1, n)
    PROVE  /\ raw \in Seq(Fragment)
           /\ Len(raw) = (Taken % 2) + n
           /\ \A i \in 1..Len(raw) : raw[i] = Piece(2 * (Taken \div 2) + i)
           /\ LinesOf(raw) = [k \in 1 .. Len(raw) \div 2 |-> <<inc, (Taken \div 2) + k>>]
           /\ Remainder(raw) = IF Len(raw) % 2 = 1 THEN <<Piece(Taken + n)>> ELSE <<>>
  <1> DEFINE u == Taken \div 2
             q == Taken % 2
             cut == SubSeq(stdout, 1, n)
  <1>1. wrote \in Nat /\ inc \in Nat /\ Len(stdout) \in Nat /\ Taken \in Nat /\ n \in Nat
    BY ProcessesAssumption, LenProperties DEF HelperTypeOK, PipesInv, Taken
  <1>2. u \in Nat /\ q \in {0, 1} /\ Taken = 2 * u + q
    BY ONLY <1>1
  <1> HIDE DEF u, q
  <1>3. cut \in Seq(Fragment) /\ Len(cut) = n /\ \A j \in 1..n : cut[j] = stdout[j]
    <2>1. stdout \in Seq(Fragment)
      BY DEF HelperTypeOK
    <2> QED BY ONLY <1>1, <2>1, n \in 0..Len(stdout), SubSeqProperties
  <1>4. partial \in Seq(Fragment) /\ Len(partial) = q
        /\ (q = 1 => partial[1] = Piece(Taken))
    <2>1. partial \in Seq(Fragment)
      BY DEF HelperTypeOK
    <2>2. CASE q = 1
      <3>1. partial = <<Piece(Taken)>>
        BY <2>2 DEF PipesInv, q
      <3> QED BY <2>1, <2>2, <3>1
    <2>3. CASE q = 0
      <3>1. partial = <<>>
        BY <2>3 DEF PipesInv, q
      <3> QED BY <2>1, <2>3, <3>1
    <2> QED BY <1>2, <2>2, <2>3
  <1> HIDE DEF cut
  <1>5. /\ raw \in Seq(Fragment)
        /\ Len(raw) = q + n
        /\ \A i \in 1..Len(raw) : raw[i] = IF i <= q THEN partial[i] ELSE cut[i - q]
    <2>1. raw = partial \o cut
      BY DEF cut
    <2> QED BY ONLY <1>1, <1>2, <1>3, <1>4, <2>1, ConcatProperties
  <1>6. ASSUME NEW i \in 1..Len(raw) PROVE raw[i] = Piece(2 * u + i)
    <2>1. CASE i <= q
      <3>1. q = 1 /\ i = 1
        BY ONLY <1>1, <1>2, <1>5, <2>1, i \in 1..Len(raw)
      <3> QED BY <1>2, <1>4, <1>5, <3>1
    <2>2. CASE i > q
      <3>1. i - q \in 1..n /\ i - q \in 1..Len(stdout) /\ Taken + (i - q) = 2 * u + i
        BY <1>1, <1>2, <1>5, <2>2
      <3>2. raw[i] = stdout[i - q]
        BY <1>2, <1>3, <1>5, <2>2, <3>1
      <3> QED BY <3>1, <3>2 DEF PipesInv
    <2> QED BY <1>1, <1>2, <1>5, <2>1, <2>2
  <1>7. LinesOf(raw) = [k \in 1 .. Len(raw) \div 2 |-> <<inc, u + k>>]
    BY <1>1, <1>2, <1>5, <1>6, LinesOfPieces
  <1>8. Remainder(raw) = IF Len(raw) % 2 = 1 THEN <<Piece(Taken + n)>> ELSE <<>>
    <2>1. Len(raw) \in Nat /\ 2 * u + Len(raw) = Taken + n
      <3>1. Len(raw) = q + n
        BY <1>5
      <3> QED BY ONLY <1>1, <1>2, <3>1
    <2>2. CASE raw = <<>>
      <3>1. Len(raw) % 2 # 1
        BY ONLY <2>2
      <3> QED BY ONLY <2>2, <3>1 DEF Remainder
    <2>3. CASE raw # <<>>
      <3>1. Len(raw) # 0
        BY <1>5, <2>3, EmptySeq
      <3>2. raw[Len(raw)] = Piece(Taken + n)
        BY <1>6, <2>1, <3>1
      <3>3. raw[Len(raw)].part = "head" <=> (2 * u + Len(raw)) % 2 = 1
        <4>1. raw[Len(raw)].part = IF (Taken + n) % 2 = 1 THEN "head" ELSE "tail"
          BY ONLY <3>2 DEF Piece
        <4> QED BY ONLY <2>1, <4>1
      <3>4. (2 * u + Len(raw)) % 2 = Len(raw) % 2
        BY <1>2, <2>1, OddPlus
      <3> QED BY <2>3, <3>2, <3>3, <3>4 DEF Remainder
    <2> QED BY <2>2, <2>3
  <1> QED BY <1>5, <1>6, <1>7, <1>8 DEF u, q

\* A read of n fragments queues the m lines they complete, in order, after
\* what was queued.
ReadOf(n, m) ==
    /\ n \in 0 .. Len(stdout)
    /\ m = ((Taken % 2) + n) \div 2
    /\ commands' \in Seq(Command)
    /\ Len(commands') = Len(commands) + m
    /\ \A k \in 1 .. Len(commands) : commands'[k] = commands[k]
    /\ \A k \in 1..m : commands'[Len(commands) + k] = <<inc, (Taken \div 2) + k>>
    /\ alive => /\ partial' = IF (Taken + n) % 2 = 1 THEN <<Piece(Taken + n)>> ELSE <<>>
                /\ stdout' = SubSeq(stdout, n + 1, Len(stdout))
                /\ UNCHANGED <<wrote, life, setup, got>>
    /\ ~alive => HandleProblem /\ UNCHANGED conf
    /\ UNCHANGED <<last, answers, stopped, faults>>

LEMMA ReadCallbackReads ==
    ASSUME HelperTypeOK, PipesInv, ReadCallback
    PROVE  \E n, m \in Nat : ReadOf(n, m)
  <1> DEFINE n == Smallest(Chunk, Len(stdout))
             raw == partial \o SubSeq(stdout, 1, n)
             m == ((Taken % 2) + n) \div 2
  <1>1. wrote \in Nat /\ inc \in Nat /\ Len(stdout) \in Nat /\ Taken \in Nat /\ Chunk \in Nat
    BY ProcessesAssumption, LenProperties DEF HelperTypeOK, PipesInv, Taken
  <1>2. n \in 0 .. Len(stdout) /\ n \in Nat
    BY <1>1 DEF Smallest
  <1>3. /\ Len(raw) = (Taken % 2) + n
        /\ LinesOf(raw) = [k \in 1 .. Len(raw) \div 2 |-> <<inc, (Taken \div 2) + k>>]
        /\ Remainder(raw) = IF Len(raw) % 2 = 1 THEN <<Piece(Taken + n)>> ELSE <<>>
    <2> HIDE DEF n
    <2> QED BY <1>2, ReadPieces
  <1>4. /\ commands' = commands \o LinesOf(raw)
        /\ alive => /\ partial' = Remainder(raw)
                    /\ stdout' = SubSeq(stdout, n + 1, Len(stdout))
                    /\ UNCHANGED <<wrote, life, setup, got>>
        /\ ~alive => HandleProblem /\ UNCHANGED conf
        /\ UNCHANGED <<last, answers, stopped, faults>>
    BY DEF ReadCallback
  <1> HIDE DEF n, raw
  <1>5. m \in Nat /\ Taken \div 2 \in Nat /\ Len(raw) \div 2 = m
        /\ (Len(raw) % 2 = 1 <=> (Taken + n) % 2 = 1)
    <2>1. Len(raw) = (Taken % 2) + n
      BY <1>3
    <2> HIDE DEF n
    <2> QED BY ONLY <1>1, <1>2, <2>1 DEF m
  <1>6. LinesOf(raw) = [k \in 1..m |-> <<inc, (Taken \div 2) + k>>]
    BY <1>3, <1>5
  <1> HIDE DEF m
  <1>7. LinesOf(raw) \in Seq(Command) /\ Len(LinesOf(raw)) = m
        /\ \A k \in 1..m : LinesOf(raw)[k] = <<inc, (Taken \div 2) + k>>
    <2>1. \A k \in 1..m : <<inc, (Taken \div 2) + k>> \in Command
      BY <1>1, <1>5 DEF Command
    <2> QED BY ONLY <1>5, <1>6, <2>1, SequenceOf
  <1>8. /\ commands' \in Seq(Command)
        /\ Len(commands') = Len(commands) + m
        /\ \A k \in 1 .. Len(commands) : commands'[k] = commands[k]
        /\ \A k \in 1..m : commands'[Len(commands) + k] = <<inc, (Taken \div 2) + k>>
    <2>1. commands \in Seq(Command)
      BY DEF HelperTypeOK
    <2>2. commands' = commands \o LinesOf(raw)
      BY <1>4
    <2>3. /\ commands \o LinesOf(raw) \in Seq(Command)
          /\ Len(commands \o LinesOf(raw)) = Len(commands) + Len(LinesOf(raw))
          /\ \A k \in 1..Len(commands) : (commands \o LinesOf(raw))[k] = commands[k]
          /\ \A k \in 1..Len(LinesOf(raw)) :
               (commands \o LinesOf(raw))[Len(commands) + k] = LinesOf(raw)[k]
      <3>1. LinesOf(raw) \in Seq(Command)
        BY <1>7
      <3> QED BY ONLY <2>1, <3>1, Appended
    <2>4. /\ commands' \in Seq(Command)
          /\ Len(commands') = Len(commands) + m
          /\ \A k \in 1 .. Len(commands) : commands'[k] = commands[k]
      BY <1>7, <2>2, <2>3
    <2>5. ASSUME NEW k \in 1..m
          PROVE  commands'[Len(commands) + k] = <<inc, (Taken \div 2) + k>>
      BY <1>7, <2>2, <2>3
    <2> QED BY <2>4, <2>5
  <1>9. ReadOf(n, m)
    BY <1>2, <1>3, <1>4, <1>5, <1>8 DEF ReadOf, m
  <1> QED BY <1>2, <1>5, <1>9

---------------------------------------------------------------------------
(* Each action keeps the types.                                            *)

Answer == [line: Command, cut: BOOLEAN]

LEMMA ReplacedTypes ==
    ASSUME HelperTypeOK, Replaced, conf' \in Conf \cup {NoConf},
           commands' \in Seq(Command), UNCHANGED <<last, answers>>,
           stopped' \in BOOLEAN, faults' \in 0..Faults
    PROVE  HelperTypeOK'
  <1>1. inc' \in Nat /\ got' \in Nat
    BY DEF HelperTypeOK, Replaced
  <1>2. wrote' \in 0 .. 2 * Lines
    BY ProcessesAssumption DEF Replaced
  <1>3. stdout' \in Seq(Fragment) /\ partial' \in Seq(Fragment)
    BY EmptySeq DEF Replaced
  <1> QED BY <1>1, <1>2, <1>3 DEF HelperTypeOK, Replaced

LEMMA ReadTypes ==
    ASSUME HelperTypeOK, PipesInv, ReadCallback
    PROVE  HelperTypeOK'
  <1>1. PICK n \in Nat, m \in Nat : ReadOf(n, m)
    BY ReadCallbackReads
  <1>2. CASE ~alive
    <2>1. Replaced
      BY <1>1, <1>2, ProblemReplaces DEF ReadOf
    <2> QED BY <1>1, <1>2, <2>1, ReplacedTypes DEF ReadOf, HelperTypeOK
  <1>3. CASE alive
    <2>1. stdout' \in Seq(Fragment)
      <3>1. stdout \in Seq(Fragment) /\ n \in 0..Len(stdout) /\ Len(stdout) \in Nat
        BY <1>1, LenProperties DEF HelperTypeOK, ReadOf
      <3>2. SubSeq(stdout, n + 1, Len(stdout)) \in Seq(Fragment)
        BY ONLY <3>1, SubSeqProperties
      <3> QED BY <1>1, <1>3, <3>2 DEF ReadOf
    <2>2. partial' \in Seq(Fragment)
      <3>1. inc \in Nat /\ Taken + n \in Nat
        BY <1>1, ProcessesAssumption, LenProperties DEF HelperTypeOK, PipesInv, Taken
      <3>2. (Taken + n + 1) \div 2 \in Nat
        BY ONLY <3>1
      <3>3. Piece(Taken + n) \in Fragment
        BY <3>1, <3>2 DEF Piece, Fragment, Command
      <3>4. <<Piece(Taken + n)>> \in Seq(Fragment) /\ <<>> \in Seq(Fragment)
        BY ONLY <3>3
      <3> QED BY <1>1, <1>3, <3>4 DEF ReadOf
    <2> QED BY <1>1, <1>3, <2>1, <2>2 DEF ReadOf, HelperTypeOK, life, setup
  <1> QED BY <1>2, <1>3

LEMMA FlushTypes ==
    ASSUME HelperTypeOK, Flush
    PROVE  HelperTypeOK'
  <1>1. answers \in Seq(Answer) /\ answers # <<>>
    BY DEF HelperTypeOK, Flush, Answer
  <1>2. answers' \in Seq(Answer)
    <2>1. CASE answers' = Tail(answers)
      BY <1>1, <2>1, Behead
    <2>2. CASE answers' = [answers EXCEPT ![1].cut = TRUE]
      <3>1. 1 \in 1..Len(answers) /\ answers[1] \in Answer
        BY <1>1, Behead
      <3>2. [answers[1] EXCEPT !.cut = TRUE] \in Answer
        BY <3>1 DEF Answer
      <3>3. [answers EXCEPT ![1] = [answers[1] EXCEPT !.cut = TRUE]] \in Seq(Answer)
        BY ONLY <1>1, <3>1, <3>2, ExceptSeq
      <3> QED BY <2>2, <3>3
    <2>3. CASE answers' = <<>>
      BY <2>3, EmptySeq
    <2> QED BY <2>1, <2>2, <2>3 DEF Flush
  <1>3. got' \in Nat
    <2>1. got' = got + 1 \/ got' = got
      BY DEF Flush
    <2> QED BY <2>1 DEF HelperTypeOK
  <1>4. broken' \in BOOLEAN
    <2>1. broken' = TRUE \/ broken' = broken
      BY DEF Flush
    <2> QED BY <2>1 DEF HelperTypeOK
  <1> QED BY <1>2, <1>3, <1>4 DEF Flush, HelperTypeOK, Answer, pipes, life

LEMMA ReloadTypes ==
    ASSUME HelperTypeOK, Reload
    PROVE  HelperTypeOK' /\ (Replaced \/ UNCHANGED <<pipes, running, alive, inc, got, count>>)
  <1>1. faults' \in 0..Faults
    BY ProcessesAssumption DEF HelperTypeOK, Reload, Fault
  <1>2. commands' \in Seq(Command) /\ UNCHANGED <<last, answers>>
    BY DEF HelperTypeOK, Reload
  <1>3. CASE /\ conf' = NoConf /\ running /\ Terminated
             /\ UNCHANGED <<restart, broken, count, stopped>>
    <2>1. Replaced
      BY <1>3, TerminatedReplaces
    <2>2. stopped' \in BOOLEAN
      BY <1>3 DEF HelperTypeOK
    <2> QED BY <1>1, <1>2, <1>3, <2>1, <2>2, ReplacedTypes
  <1>4. CASE /\ conf' = NoConf /\ UNCHANGED <<pipes, running, alive, inc, got>>
             /\ UNCHANGED <<restart, broken, count, stopped>>
    BY <1>1, <1>2, <1>4 DEF HelperTypeOK, pipes
  <1>5. CASE /\ conf' \in Conf
             /\ UNCHANGED <<pipes, life, restart, broken, got, stopped>>
    BY <1>1, <1>2, <1>5 DEF HelperTypeOK, pipes, life
  <1>6. ASSUME NEW raised \in BOOLEAN, conf' \in Conf, Started(conf', raised), stopped' = raised
        PROVE  HelperTypeOK' /\ Replaced
    <2>1. Replaced
      BY <1>6, StartedReplaces
    <2>2. stopped' \in BOOLEAN
      BY <1>6
    <2> QED BY <1>1, <1>2, <1>6, <2>1, <2>2, ReplacedTypes
  <1> QED BY <1>3, <1>4, <1>5, <1>6 DEF Reload

LEMMA HelperTypeStep ==
    ASSUME HelperTypeOK, PipesInv, [HelperNext]_helperVars
    PROVE  HelperTypeOK'
  <1>1. CASE HelperWrites
    <2>1. /\ stdout' = Append(stdout, [line |-> <<inc, wrote \div 2 + 1>>,
                part |-> IF wrote % 2 = 0 THEN "head" ELSE "tail"])
      BY <1>1 DEF HelperWrites
    <2>2. stdout' \in Seq(Fragment)
      BY <2>1, WrittenPiece, AppendProperties DEF HelperTypeOK
    <2>3. wrote' \in 0 .. 2 * Lines
      BY <1>1, ProcessesAssumption DEF HelperWrites, HelperTypeOK
    <2> QED BY <1>1, <2>2, <2>3 DEF HelperWrites, HelperTypeOK, life, setup, work
  <1>2. CASE HelperDies
    <2>1. faults' \in 0..Faults
      BY <1>2, ProcessesAssumption DEF HelperDies, Fault, HelperTypeOK
    <2> QED BY <1>2, <2>1 DEF HelperDies, HelperTypeOK, pipes, setup, work
  <1>3. CASE BadLine
    <2>1. Replaced
      BY <1>3, ProblemReplaces DEF BadLine
    <2>2. faults' \in 0..Faults
      BY <1>3, ProcessesAssumption DEF BadLine, Fault, HelperTypeOK
    <2> QED BY <1>3, <2>1, <2>2, ReplacedTypes DEF BadLine, HelperTypeOK
  <1>4. CASE ReadCallback
    BY <1>4, ReadTypes
  <1>5. CASE Execute
    <2>1. /\ Head(commands) \in Command /\ Tail(commands) \in Seq(Command)
      BY <1>5, HeadTailProperties DEF Execute, HelperTypeOK
    <2>2. answers' \in Seq(Answer)
      <3>1. [line |-> Head(commands), cut |-> FALSE] \in Answer
        BY <2>1 DEF Answer
      <3> QED BY <1>5, <3>1, AppendProperties DEF Execute, HelperTypeOK, Answer
    <2> QED BY <1>5, <2>1, <2>2 DEF Execute, HelperTypeOK, Answer, pipes, life, setup
  <1>6. CASE Flush
    BY <1>6, FlushTypes
  <1>7. CASE Reload
    BY <1>7, ReloadTypes
  <1>8. CASE Tick
    BY <1>8, ProcessesAssumption DEF Tick, HelperTypeOK, pipes, setup, work
  <1>9. CASE UNCHANGED helperVars
    BY <1>9 DEF HelperTypeOK, helperVars, pipes, life, setup, work
  <1> QED BY <1>1, <1>2, <1>3, <1>4, <1>5, <1>6, <1>7, <1>8, <1>9
       DEF HelperNext, ReactorStep

---------------------------------------------------------------------------
(* Each action keeps the invariant.                                        *)

LEMMA HelperNumbers ==
    ASSUME HelperTypeOK
    PROVE  /\ inc \in Nat /\ got \in Nat /\ wrote \in Nat
           /\ Len(stdout) \in Nat /\ Len(commands) \in Nat /\ Len(answers) \in Nat
           /\ last[1] \in Nat /\ last[2] \in Nat /\ Executed \in Nat
           /\ \A k \in 1..Len(commands) : commands[k][1] \in Nat
           /\ PipesInv => Taken \in Nat /\ Taken + Len(stdout) = wrote
  <1>1. /\ inc \in Nat /\ got \in Nat /\ wrote \in Nat
        /\ Len(stdout) \in Nat /\ Len(commands) \in Nat /\ Len(answers) \in Nat
    BY ProcessesAssumption, LenProperties DEF HelperTypeOK
  <1>2. last[1] \in Nat /\ last[2] \in Nat
    BY DEF HelperTypeOK, Command
  <1>3. \A k \in 1..Len(commands) : commands[k][1] \in Nat
    <2> TAKE k \in 1..Len(commands)
    <2>1. commands[k] \in Command
      BY ElementOfSeq DEF HelperTypeOK
    <2> QED BY <2>1 DEF Command
  <1> QED BY <1>1, <1>2, <1>3 DEF Executed, Taken, PipesInv

\* An action that touches neither the pipes nor the queues, other than to move
\* the count of starts.
LEMMA UntouchedKeeps ==
    ASSUME HelperInv, UNCHANGED <<pipes, inc, commands, last, answers, got>>,
           alive' => alive
    PROVE  /\ PipesInv' /\ NoneAhead'
           /\ CommandsInv' /\ AnswersInv'
  <1>1. PipesInv'
    BY DEF HelperInv, PipesInv, Taken, Piece, pipes
  <1>2. NoneAhead'
    BY DEF HelperInv, NoneAhead
  <1>3. Taken' = Taken /\ Executed' = Executed
    BY DEF Taken, Executed, pipes
  <1>4. \A old : CommandsFrom(commands, old, Taken \div 2)' <=> CommandsFrom(commands, old, Taken \div 2)
    BY <1>3 DEF CommandsFrom
  <1>5. \A old : AnswersFrom(answers, old, Executed)' <=> AnswersFrom(answers, old, Executed)
    BY <1>3 DEF AnswersFrom
  <1> QED BY <1>1, <1>2, <1>4, <1>5 DEF HelperInv, CommandsInv, AnswersInv

LEMMA WritesKeep ==
    ASSUME HelperInv, HelperWrites
    PROVE  /\ PipesInv' /\ NoneAhead'
           /\ CommandsInv' /\ AnswersInv'
  <1>1. PipesInv' /\ Taken' = Taken
    BY WritesPipes DEF HelperInv
  <1>2. UNCHANGED <<inc, alive, commands, last, answers, got>> /\ Executed' = Executed
    BY DEF HelperWrites, life, work, Executed
  <1>3. NoneAhead'
    BY <1>2 DEF HelperInv, NoneAhead
  <1>4. \A old : CommandsFrom(commands, old, Taken \div 2)' <=> CommandsFrom(commands, old, Taken \div 2)
    BY <1>1, <1>2 DEF CommandsFrom
  <1>5. \A old : AnswersFrom(answers, old, Executed)' <=> AnswersFrom(answers, old, Executed)
    BY <1>2 DEF AnswersFrom
  <1> QED BY <1>1, <1>2, <1>3, <1>4, <1>5 DEF HelperInv, CommandsInv, AnswersInv

LEMMA ReadPipes ==
    ASSUME HelperInv, alive, NEW n \in Nat, NEW m \in Nat, ReadOf(n, m)
    PROVE  PipesInv' /\ Taken' = Taken + n /\ Taken' \div 2 = Taken \div 2 + m
  <1>0. /\ HelperTypeOK /\ PipesInv /\ NoneAhead /\ CommandsInv /\ AnswersInv
        /\ inc \in Nat /\ got \in Nat /\ wrote \in Nat
        /\ Len(stdout) \in Nat /\ Len(commands) \in Nat /\ Len(answers) \in Nat
        /\ Executed \in Nat /\ Taken \in Nat /\ Taken + Len(stdout) = wrote
    BY HelperNumbers DEF HelperInv
  <1> USE <1>0
  <1>1. stdout \in Seq(Fragment) /\ n \in 0..Len(stdout)
    BY DEF HelperTypeOK, ReadOf
  <1>2. /\ stdout' = SubSeq(stdout, n + 1, Len(stdout))
        /\ wrote' = wrote /\ inc' = inc
        /\ partial' = IF (Taken + n) % 2 = 1 THEN <<Piece(Taken + n)>> ELSE <<>>
    BY DEF ReadOf, life
  <1>3. /\ Len(stdout') = Len(stdout) - n
        /\ \A i \in 1 .. Len(stdout) - n : stdout'[i] = stdout[n + i]
    <2>1. Len(stdout) \in Nat
      OBVIOUS
    <2>2. LET t == SubSeq(stdout, n + 1, Len(stdout))
          IN  Len(t) = Len(stdout) - n /\ \A i \in 1 .. Len(stdout) - n : t[i] = stdout[n + i]
      BY ONLY <1>1, <2>1, SubSeqProperties
    <2> QED BY <1>2, <2>2
  <1>4. Taken' = Taken + n
    <2>1. Taken' = wrote' - Len(stdout')
      BY DEF Taken
    <2>2. wrote' = wrote /\ Len(stdout') = Len(stdout) - n
      BY <1>2, <1>3
    <2>3. wrote \in Nat /\ Len(stdout) \in Nat
      OBVIOUS
    <2> QED BY ONLY <2>1, <2>2, <2>3, n \in Nat DEF Taken
  <1>5. Taken' \div 2 = Taken \div 2 + m
    <2>1. Taken \in Nat /\ m = ((Taken % 2) + n) \div 2
      BY DEF ReadOf
    <2>2. (Taken + n) \div 2 = Taken \div 2 + m
      BY ONLY <2>1, n \in Nat
    <2> QED BY <1>4, <2>2
  <1>6. ASSUME NEW i \in 1..Len(stdout') PROVE stdout'[i] = Piece(Taken + i)'
    <2>1. n + i \in 1..Len(stdout) /\ Taken + (n + i) = Taken' + i
      BY <1>1, <1>3, <1>4
    <2>2. stdout'[i] = Piece(Taken + (n + i))
      BY <1>3, <2>1 DEF PipesInv
    <2> QED BY <1>2, <2>1, <2>2 DEF Piece
  <1>7. partial' = IF Taken' % 2 = 1 THEN <<Piece(Taken)'>> ELSE <<>>
    BY <1>2, <1>4 DEF Piece
  <1>8. Len(stdout') <= wrote'
    BY <1>1, <1>2, <1>3 DEF PipesInv
  <1>9. PipesInv'
    BY <1>6, <1>7, <1>8 DEF PipesInv
  <1> QED BY <1>4, <1>5, <1>9

\* The lines read come next after those queued and those executed.
LEMMA ReadKeeps ==
    ASSUME HelperInv, ReadCallback
    PROVE  /\ PipesInv' /\ NoneAhead'
           /\ CommandsInv' /\ AnswersInv'
  <1>0. /\ HelperTypeOK /\ PipesInv /\ NoneAhead /\ CommandsInv /\ AnswersInv
        /\ inc \in Nat /\ got \in Nat /\ wrote \in Nat
        /\ Len(stdout) \in Nat /\ Len(commands) \in Nat /\ Len(answers) \in Nat
        /\ Executed \in Nat /\ Taken \in Nat /\ Taken + Len(stdout) = wrote
    BY HelperNumbers DEF HelperInv
  <1> USE <1>0
  <1>1. PICK n \in Nat, m \in Nat : ReadOf(n, m)
    BY ReadCallbackReads
  <1>2. /\ commands' \in Seq(Command)
        /\ Len(commands') = Len(commands) + m
        /\ \A k \in 1 .. Len(commands) : commands'[k] = commands[k]
        /\ \A k \in 1..m : commands'[Len(commands) + k] = <<inc, (Taken \div 2) + k>>
    BY <1>1 DEF ReadOf
  <1>3. ASSUME NEW k \in 1 .. Len(commands'), k > Len(commands)
        PROVE  commands'[k] = <<inc, (Taken \div 2) + (k - Len(commands))>>
    <2>1. k - Len(commands) \in 1..m /\ Len(commands) + (k - Len(commands)) = k
      BY <1>2, <1>3
    <2> QED BY <1>2, <2>1
  <1>4. \A k \in 1 .. Len(commands') : commands'[k][1] <= inc
    <2> TAKE k \in 1 .. Len(commands')
    <2>1. CASE k <= Len(commands)
      BY <1>2, <2>1 DEF NoneAhead
    <2>2. CASE k > Len(commands)
      BY <1>3, <2>2
    <2> QED BY <1>2, <2>1, <2>2
  <1>5. CASE ~alive
    <2>1. Replaced
      BY <1>1, <1>5, ProblemReplaces DEF ReadOf
    <2> QED BY <1>1, <1>2, <1>4, <2>1, ReplacedKeeps DEF ReadOf
  <1>6. CASE alive
    <2>1. UNCHANGED <<inc, alive, last, answers, got>> /\ Executed' = Executed
      BY <1>1, <1>6 DEF ReadOf, life, Executed
    <2>2. PipesInv' /\ Taken' \div 2 = Taken \div 2 + m
      BY <1>1, <1>6, ReadPipes
    <2>3. NoneAhead'
      BY <1>4, <2>1 DEF NoneAhead
    <2>4. PICK old \in Nat : CommandsFrom(commands, old, Taken \div 2)
      BY <1>6 DEF CommandsInv, AnswersInv
    <2>5. CommandsFrom(commands, old, Taken \div 2)'
      <3>1. old \in 0 .. Len(commands) /\ old \in 0 .. Len(commands')
        BY <1>2, <2>4 DEF CommandsFrom
      <3>2. \A k \in 1..old : commands'[k][1] < inc
        <4> TAKE k \in 1..old
        <4>1. k \in 1 .. Len(commands) /\ commands[k][1] < inc
          BY <2>4, <3>1 DEF CommandsFrom
        <4> QED BY <1>2, <4>1
      <3>3. ASSUME NEW k \in old + 1 .. Len(commands')
            PROVE  commands'[k] = <<inc, Executed + k - old>>
        <4>1. CASE k <= Len(commands)
          <5>1. k \in old + 1 .. Len(commands) /\ k \in 1 .. Len(commands)
            BY <3>1, <4>1
          <5>2. commands[k] = <<inc, Executed + k - old>>
            BY <2>4, <5>1 DEF CommandsFrom
          <5> QED BY <1>2, <5>1, <5>2
        <4>2. CASE k > Len(commands)
          <5>1. (Taken \div 2) + (k - Len(commands)) = Executed + k - old
            <6>1. Executed + Len(commands) - old = Taken \div 2
              BY <2>4 DEF CommandsFrom
            <6>2. k \in Nat
              BY <1>2, <3>1
            <6>3. Executed \in Nat /\ Len(commands) \in Nat
              OBVIOUS
            <6> QED BY ONLY <3>1, <6>1, <6>2, <6>3
          <5>2. k \in 1 .. Len(commands')
            BY <3>1
          <5> QED BY <1>3, <4>2, <5>1, <5>2
        <4> QED BY <1>2, <3>1, <4>1, <4>2
      <3>4. Executed + Len(commands') - old = Taken \div 2 + m
        <4>1. Executed + Len(commands) - old = Taken \div 2
          BY <2>4 DEF CommandsFrom
        <4>2. Executed \in Nat /\ Len(commands) \in Nat /\ Len(commands') = Len(commands) + m
          BY <1>2
        <4> QED BY ONLY <3>1, <4>1, <4>2, m \in Nat
      <3> QED BY <2>1, <2>2, <2>4, <3>1, <3>2, <3>3, <3>4 DEF CommandsFrom
    <2>6. \A first : AnswersFrom(answers, first, Executed)' <=> AnswersFrom(answers, first, Executed)
      BY <2>1 DEF AnswersFrom
    <2> QED BY <1>6, <2>2, <2>3, <2>5, <2>6 DEF CommandsInv, AnswersInv
  <1> QED BY <1>5, <1>6

\* The command executed is an older incarnation's, or the next of this one,
\* and its answer the next it is owed.
LEMMA ExecuteKeeps ==
    ASSUME HelperInv, Execute
    PROVE  /\ PipesInv' /\ NoneAhead'
           /\ CommandsInv' /\ AnswersInv'
  <1>0. /\ HelperTypeOK /\ PipesInv /\ NoneAhead /\ CommandsInv /\ AnswersInv
        /\ inc \in Nat /\ got \in Nat /\ wrote \in Nat
        /\ Len(stdout) \in Nat /\ Len(commands) \in Nat /\ Len(answers) \in Nat
        /\ Executed \in Nat /\ Taken \in Nat /\ Taken + Len(stdout) = wrote
    BY HelperNumbers DEF HelperInv
  <1> USE <1>0
  <1> DEFINE c == commands[1]
             a == [line |-> c, cut |-> FALSE]
  <1>1. /\ Head(commands) = c /\ c \in Command /\ Len(commands) \in Nat \ {0}
        /\ Len(Tail(commands)) = Len(commands) - 1
        /\ \A k \in 1 .. Len(commands) - 1 : Tail(commands)[k] = commands[k + 1]
    BY Behead DEF Execute, HelperTypeOK
  <1>2. /\ last' = c /\ commands' = Tail(commands)
        /\ answers' = IF running THEN Append(answers, a) ELSE answers
        /\ UNCHANGED <<wrote, stdout, partial, inc, alive, running, got>>
    BY <1>1 DEF Execute, pipes, life
  <1>3. PipesInv' /\ Taken' = Taken
    BY <1>2 DEF PipesInv, Taken, Piece
  <1>4. c[1] \in Nat /\ c[2] \in Nat /\ c[1] <= inc
    BY <1>1 DEF Command, NoneAhead
  <1>5. CASE running
    <2>1. answers' = Append(answers, a)
      BY <1>2, <1>5
    <2> HIDE DEF a
    <2>2. /\ Len(answers') = Len(answers) + 1
          /\ \A k \in 1..Len(answers) : answers'[k] = answers[k]
          /\ answers'[Len(answers) + 1] = a
      <3>1. a \in Answer /\ answers \in Seq(Answer)
        BY <1>1 DEF Answer, HelperTypeOK, a
      <3>2. LET t == Append(answers, a)
            IN  /\ Len(t) = Len(answers) + 1
                /\ \A k \in 1..Len(answers) : t[k] = answers[k]
                /\ t[Len(answers) + 1] = a
        BY ONLY <3>1, AppendProperties
      <3> QED BY <2>1, <3>2
    <2>3. a.line = c
      BY DEF a
    <2>4. NoneAhead'
      <3>1. \A k \in 1..Len(commands') : commands'[k][1] <= inc
        BY <1>1, <1>2 DEF NoneAhead
      <3>2. \A k \in 1..Len(answers') : answers'[k].line[1] <= inc
        <4> TAKE k \in 1..Len(answers')
        <4>1. CASE k \in 1..Len(answers)
          BY <2>2, <4>1 DEF NoneAhead
        <4>2. CASE k = Len(answers) + 1
          BY <1>4, <2>2, <2>3, <4>2
        <4> QED BY <2>2, <4>1, <4>2
      <3> QED BY <1>2, <1>4, <3>1, <3>2 DEF NoneAhead
    <2>5. ASSUME alive
          PROVE  /\ \E old \in Nat : CommandsFrom(commands, old, Taken \div 2)'
                 /\ \E old \in Nat : AnswersFrom(answers, old, Executed)'
      <3>1. PICK old \in Nat : CommandsFrom(commands, old, Taken \div 2)
        BY <2>5 DEF CommandsInv, AnswersInv
      <3>2. PICK first \in Nat : AnswersFrom(answers, first, Executed)
        BY <2>5 DEF CommandsInv, AnswersInv
      <3>3. CASE old = 0
        <4>1. c = <<inc, Executed + 1>>
          BY <1>1, <3>1, <3>3 DEF CommandsFrom
        <4>2. Executed' = Executed + 1
          BY <1>2, <4>1 DEF Executed
        <4>3. CommandsFrom(commands, old, Taken \div 2)'
          <5>1. Len(commands') = Len(commands) - 1
            BY <1>1, <1>2
          <5>2. ASSUME NEW k \in 1 .. Len(commands')
                PROVE  commands'[k] = <<inc, Executed + 1 + k>>
            <6>1. commands'[k] = commands[k + 1] /\ k + 1 \in 1 .. Len(commands)
              BY <1>1, <1>2, <5>1
            <6>2. commands[k + 1] = <<inc, Executed + (k + 1) - 0>>
              BY <3>1, <3>3, <6>1 DEF CommandsFrom
            <6> QED BY <6>1, <6>2
          <5>3. Executed + Len(commands) = Taken \div 2
            BY <3>1, <3>3 DEF CommandsFrom
          <5>4. ASSUME NEW k \in old + 1 .. Len(commands')
                PROVE  commands'[k] = <<inc', Executed' + k - old>>
            <6>1. k \in 1 .. Len(commands') /\ k \in Nat
              BY <1>1, <3>3, <5>1
            <6>2. commands'[k] = <<inc, Executed + 1 + k>> /\ Executed + 1 + k = Executed' + k - old
              BY <3>3, <4>2, <5>2, <6>1
            <6> QED BY <1>2, <6>2
          <5>5. old \in 0 .. Len(commands') /\ Executed' + Len(commands') - old = Taken' \div 2
            BY <1>1, <1>3, <3>3, <4>2, <5>1, <5>3
          <5> QED BY <3>3, <5>4, <5>5 DEF CommandsFrom
        <4>4. AnswersFrom(answers, first, Executed)'
          <5>1. /\ first \in 0 .. Len(answers)
                /\ got + Len(answers) - first = Executed
            BY <3>2 DEF AnswersFrom
          <5>2. ASSUME NEW k \in 1..first PROVE answers'[k].line[1] < inc
            <6>1. k \in 1..Len(answers)
              BY <5>1
            <6> QED BY <2>2, <3>2, <6>1 DEF AnswersFrom
          <5>3. ASSUME NEW k \in first + 1 .. Len(answers')
                PROVE  answers'[k].line = <<inc, got + k - first>>
            <6>1. CASE k \in 1..Len(answers)
              <7>1. k \in first + 1 .. Len(answers)
                BY <5>1, <6>1
              <7>2. answers[k].line = <<inc, got + k - first>>
                BY <3>2, <7>1 DEF AnswersFrom
              <7> QED BY <2>2, <6>1, <7>2
            <6>2. CASE k = Len(answers) + 1
              <7>1. got + k - first = Executed + 1
                BY <5>1, <6>2
              <7> QED BY <2>2, <2>3, <4>1, <6>2, <7>1
            <6> QED BY <2>2, <5>1, <6>1, <6>2
          <5>4. first \in 0 .. Len(answers') /\ got + Len(answers') - first = Executed'
            BY <2>2, <4>2, <5>1
          <5> QED BY <1>2, <5>2, <5>3, <5>4 DEF AnswersFrom
        <4> QED BY <4>3, <4>4
      <3>4. CASE old > 0
        <4>1. c[1] < inc /\ Executed = 0
          BY <1>1, <3>1, <3>4 DEF CommandsFrom
        <4>2. Executed' = 0
          BY <1>2, <1>4, <4>1 DEF Executed
        <4>3. CommandsFrom(commands, old - 1, Taken \div 2)'
          <5>1. /\ Len(commands') = Len(commands) - 1 /\ old \in 1 .. Len(commands)
                /\ Executed + Len(commands) - old = Taken \div 2
            BY <1>1, <1>2, <3>1, <3>4 DEF CommandsFrom
          <5>2. ASSUME NEW k \in 1 .. old - 1 PROVE commands'[k][1] < inc
            <6>1. commands'[k] = commands[k + 1] /\ k + 1 \in 1..old
              BY <1>1, <1>2, <5>1
            <6> QED BY <3>1, <6>1 DEF CommandsFrom
          <5>3. ASSUME NEW k \in old .. Len(commands')
                PROVE  commands'[k] = <<inc, 0 + k - (old - 1)>>
            <6>1. commands'[k] = commands[k + 1] /\ k + 1 \in old + 1 .. Len(commands)
              BY <1>1, <1>2, <5>1
            <6>2. commands[k + 1] = <<inc, Executed + (k + 1) - old>>
              BY <3>1, <6>1 DEF CommandsFrom
            <6>3. Executed + (k + 1) - old = 0 + k - (old - 1)
              BY <4>1, <5>1
            <6> QED BY <6>1, <6>2, <6>3
          <5>4. /\ old - 1 \in 0 .. Len(commands')
                /\ Executed' + Len(commands') - (old - 1) = Taken' \div 2
            BY <1>1, <1>3, <4>1, <4>2, <5>1
          <5>5. (old - 1) + 1 = old
            BY <5>1
          <5> QED BY <1>2, <4>2, <5>2, <5>3, <5>4, <5>5 DEF CommandsFrom
        <4>4. first = Len(answers) /\ got = 0
          BY <3>2, <4>1 DEF AnswersFrom
        <4>5. AnswersFrom(answers, first + 1, Executed)'
          BY <1>2, <2>2, <2>3, <3>2, <4>1, <4>2, <4>4 DEF AnswersFrom
        <4> QED BY <3>4, <4>3, <4>5
      <3> QED BY <3>3, <3>4
    <2> QED BY <1>2, <1>3, <2>4, <2>5 DEF CommandsInv, AnswersInv
  <1>6. CASE ~running
    <2>1. answers' = answers /\ ~alive'
      BY <1>2, <1>6 DEF HelperTypeOK
    <2>2. NoneAhead'
      <3>1. \A k \in 1..Len(commands') : commands'[k][1] <= inc
        BY <1>1, <1>2 DEF NoneAhead
      <3> QED BY <1>2, <1>4, <2>1, <3>1 DEF NoneAhead
    <2> QED BY <1>3, <2>1, <2>2 DEF CommandsInv, AnswersInv
  <1> QED BY <1>5, <1>6 DEF HelperTypeOK

\* The answer that goes out is owed to an older incarnation, or the next this
\* one expects; one that is cut stays where it is.
LEMMA FlushKeeps ==
    ASSUME HelperInv, Flush
    PROVE  /\ PipesInv' /\ NoneAhead'
           /\ CommandsInv' /\ AnswersInv'
  <1>0. /\ HelperTypeOK /\ PipesInv /\ NoneAhead /\ CommandsInv /\ AnswersInv
        /\ inc \in Nat /\ got \in Nat /\ wrote \in Nat
        /\ Len(stdout) \in Nat /\ Len(commands) \in Nat /\ Len(answers) \in Nat
        /\ Executed \in Nat /\ Taken \in Nat /\ Taken + Len(stdout) = wrote
    BY HelperNumbers DEF HelperInv
  <1> USE <1>0
  <1>1. answers \in Seq(Answer) /\ answers # <<>>
    BY DEF HelperTypeOK, Flush, Answer
  <1>2. /\ Head(answers) = answers[1] /\ Len(answers) \in Nat \ {0}
        /\ Tail(answers) \in Seq(Answer) /\ Len(Tail(answers)) = Len(answers) - 1
        /\ \A k \in 1 .. Len(answers) - 1 : Tail(answers)[k] = answers[k + 1]
    BY <1>1, Behead
  <1>3. /\ UNCHANGED <<wrote, stdout, partial, inc, alive, running, commands, last>>
        /\ Taken' = Taken /\ Executed' = Executed
    BY DEF Flush, pipes, life, Taken, Executed
  <1>4. PipesInv'
    BY <1>3 DEF PipesInv, Piece
  <1>5. ASSUME alive' PROVE \E old \in Nat : CommandsFrom(commands, old, Taken \div 2)'
    <2>1. \A old : CommandsFrom(commands, old, Taken \div 2)' <=> CommandsFrom(commands, old, Taken \div 2)
      BY <1>3 DEF CommandsFrom
    <2> QED BY <1>3, <1>5, <2>1 DEF CommandsInv, AnswersInv
  <1>6. \A k \in 1..Len(answers) : answers[k].line[1] \in Nat
    <2> TAKE k \in 1..Len(answers)
    <2>1. answers[k] \in Answer
      BY <1>1, ElementOfSeq
    <2>2. answers[k].line \in Command
      BY <2>1 DEF Answer
    <2> QED BY <2>2 DEF Command
  <1>7. CASE answers' = Tail(answers) /\ got' = IF Head(answers).line[1] = inc THEN got + 1 ELSE got
    <2>1. NoneAhead'
      BY <1>2, <1>3, <1>7 DEF NoneAhead
    <2>2. ASSUME alive' PROVE \E old \in Nat : AnswersFrom(answers, old, Executed)'
      <3>1. PICK old \in Nat : AnswersFrom(answers, old, Executed)
        BY <1>3, <2>2 DEF CommandsInv, AnswersInv
      <3>2. CASE old = 0
        <4>1. answers[1].line = <<inc, got + 1>>
          BY <1>2, <3>1, <3>2 DEF AnswersFrom
        <4>2. got' = got + 1
          BY <1>2, <1>7, <4>1
        <4>3. AnswersFrom(answers, old, Executed)'
          <5>1. ASSUME NEW k \in 1 .. Len(answers')
                PROVE  answers'[k].line = <<inc, got + 1 + k>>
            <6>1. answers'[k] = answers[k + 1] /\ k + 1 \in 1 .. Len(answers)
              BY <1>2, <1>7
            <6>2. answers[k + 1].line = <<inc, got + (k + 1) - 0>>
              BY <3>1, <3>2, <6>1 DEF AnswersFrom
            <6> QED BY <6>1, <6>2
          <5>2. ASSUME NEW k \in old + 1 .. Len(answers')
                PROVE  answers'[k].line = <<inc', got' + k - old>>
            BY <1>3, <3>2, <4>2, <5>1
          <5>3. got + Len(answers) = Executed
            BY <3>1, <3>2 DEF AnswersFrom
          <5>4. old \in 0 .. Len(answers') /\ got' + Len(answers') - old = Executed'
            BY <1>2, <1>3, <1>7, <3>2, <4>2, <5>3
          <5> QED BY <3>2, <5>2, <5>4 DEF AnswersFrom
        <4> QED BY <4>3
      <3>3. CASE old > 0
        <4>1. answers[1].line[1] < inc
          BY <1>2, <3>1, <3>3 DEF AnswersFrom
        <4>2. got' = got
          BY <1>2, <1>6, <1>7, <4>1
        <4>3. AnswersFrom(answers, old - 1, Executed)'
          BY <1>2, <1>3, <1>7, <3>1, <3>3, <4>2 DEF AnswersFrom
        <4> QED BY <3>3, <4>3
      <3> QED BY <3>2, <3>3
    <2> QED BY <1>4, <1>5, <2>1, <2>2 DEF CommandsInv, AnswersInv
  <1>8. CASE answers' = [answers EXCEPT ![1].cut = TRUE] /\ got' = got
    <2>1. /\ Len(answers') = Len(answers)
          /\ \A k \in 1..Len(answers) : answers'[k].line = answers[k].line
      <3>1. 1 \in 1..Len(answers) /\ answers[1] \in Answer
        BY <1>1, Behead
      <3>2. [answers[1] EXCEPT !.cut = TRUE] \in Answer
            /\ [answers[1] EXCEPT !.cut = TRUE].line = answers[1].line
        BY <3>1 DEF Answer
      <3>3. LET t == [answers EXCEPT ![1] = [answers[1] EXCEPT !.cut = TRUE]]
            IN  /\ Len(t) = Len(answers)
                /\ \A k \in 1..Len(answers) : t[k].line = answers[k].line
        BY ONLY <1>1, <3>1, <3>2, ExceptSeq
      <3> QED BY <1>8, <3>3
    <2>2. NoneAhead'
      BY <1>3, <2>1 DEF NoneAhead
    <2>3. \A old : AnswersFrom(answers, old, Executed)' <=> AnswersFrom(answers, old, Executed)
      <3> TAKE old
      <3>1. ASSUME old \in 0..Len(answers)
            PROVE  /\ \A k \in 1..old : answers'[k].line = answers[k].line
                   /\ \A k \in old + 1 .. Len(answers) : answers'[k].line = answers[k].line
        BY <2>1, <3>1
      <3> QED BY <1>3, <1>8, <2>1, <3>1 DEF AnswersFrom
    <2> QED BY <1>3, <1>4, <1>5, <2>2, <2>3 DEF CommandsInv, AnswersInv
  <1>9. CASE answers' = <<>> /\ ~alive'
    <2>1. Len(answers') = 0
      BY ONLY <1>9
    <2>2. NoneAhead'
      BY <1>3, <2>1 DEF NoneAhead
    <2> QED BY <1>4, <1>9, <2>2 DEF CommandsInv, AnswersInv
  <1>10. \/ answers' = Tail(answers) /\ got' = IF Head(answers).line[1] = inc THEN got + 1 ELSE got
         \/ answers' = [answers EXCEPT ![1].cut = TRUE] /\ got' = got
         \/ answers' = <<>> /\ ~alive'
    BY DEF Flush, life, HelperTypeOK
  <1> QED BY <1>7, <1>8, <1>9, <1>10

LEMMA ReloadKeeps ==
    ASSUME HelperInv, Reload
    PROVE  PipesInv' /\ NoneAhead' /\ CommandsInv' /\ AnswersInv' /\ RespawnBounded'
  <1>1. UNCHANGED <<commands, last, answers>>
    BY DEF Reload
  <1>2. CASE Replaced
    BY <1>1, <1>2, ReplacedKeeps DEF HelperInv, HelperTypeOK, NoneAhead
  <1>3. CASE UNCHANGED <<pipes, running, alive, inc, got, count>>
    <2>1. PipesInv' /\ NoneAhead' /\ CommandsInv' /\ AnswersInv'
      BY <1>1, <1>3, UntouchedKeeps
    <2> QED BY <1>3, <2>1 DEF HelperInv, RespawnBounded
  <1> QED BY <1>2, <1>3, ReloadTypes DEF HelperInv

LEMMA HelperInvInit ==
    ASSUME HelperInit
    PROVE  HelperInv
  <1> USE DEF HelperInit
  <1>1. HelperTypeOK
    <2>1. restart \in BOOLEAN
      BY Zenon
    <2>2. /\ wrote \in 0 .. 2 * Lines /\ count \in 0 .. RespawnNumber + 1 /\ faults \in 0..Faults
          /\ inc \in Nat /\ got \in Nat
      BY ProcessesAssumption
    <2>3. stdout \in Seq(Fragment) /\ partial \in Seq(Fragment)
          /\ commands \in Seq(Command) /\ answers \in Seq(Answer)
      BY EmptySeq
    <2>4. last \in Command
      BY DEF Command
    <2> QED BY <2>1, <2>2, <2>3, <2>4 DEF HelperTypeOK, Answer
  <1>2. Len(stdout) = 0 /\ Len(commands) = 0 /\ Len(answers) = 0
    <2>1. stdout = <<>> /\ commands = <<>> /\ answers = <<>>
      OBVIOUS
    <2> QED BY ONLY <2>1
  <1>3. Taken = 0 /\ Executed = 0 /\ wrote = 0 /\ got = 0 /\ inc = 1 /\ last[1] = 0
    <2>1. wrote = 0 /\ got = 0 /\ inc = 1 /\ last = <<0, 0>>
      OBVIOUS
    <2>2. Taken = 0
      BY ONLY <1>2, <2>1 DEF Taken
    <2>3. Executed = 0
      BY ONLY <2>1 DEF Executed
    <2> QED BY <2>1, <2>2, <2>3
  <1>4. PipesInv
    <2>1. Taken % 2 # 1
      BY ONLY <1>3
    <2> QED BY <1>2, <1>3, <2>1 DEF PipesInv
  <1>5. NoneAhead
    BY <1>2, <1>3 DEF NoneAhead
  <1>6. CommandsFrom(commands, 0, Taken \div 2)
    BY ONLY <1>2, <1>3 DEF CommandsFrom
  <1>7. AnswersFrom(answers, 0, Executed)
    BY ONLY <1>2, <1>3 DEF AnswersFrom
  <1>8. RespawnBounded
    BY ProcessesAssumption DEF RespawnBounded
  <1> QED BY <1>1, <1>4, <1>5, <1>6, <1>7, <1>8 DEF HelperInv, CommandsInv, AnswersInv

LEMMA HelperInvStep ==
    ASSUME HelperInv, [HelperNext]_helperVars
    PROVE  HelperInv'
  <1>1. HelperTypeOK'
    BY HelperTypeStep DEF HelperInv
  <1>2. CASE HelperWrites
    <2>1. RespawnBounded'
      BY <1>2 DEF HelperWrites, HelperInv, RespawnBounded, life
    <2> QED BY <1>1, <1>2, <2>1, WritesKeep DEF HelperInv
  <1>3. CASE HelperDies
    <2>1. PipesInv' /\ NoneAhead' /\ CommandsInv' /\ AnswersInv'
      BY <1>3, UntouchedKeeps DEF HelperDies, pipes, work
    <2>2. RespawnBounded'
      BY <1>3 DEF HelperDies, HelperInv, RespawnBounded
    <2> QED BY <1>1, <2>1, <2>2 DEF HelperInv
  <1>4. CASE BadLine
    <2>1. Replaced /\ UNCHANGED <<commands, last, answers>>
      BY <1>4, ProblemReplaces DEF BadLine, HelperInv
    <2> QED BY <1>1, <2>1, ReplacedKeeps DEF HelperInv, HelperTypeOK, NoneAhead
  <1>5. CASE ReadCallback
    <2>1. RespawnBounded'
      <3>1. PICK n \in Nat, m \in Nat : ReadOf(n, m)
        BY <1>5, ReadCallbackReads DEF HelperInv
      <3>2. CASE alive
        BY <3>1, <3>2 DEF ReadOf, HelperInv, RespawnBounded, life
      <3>3. CASE ~alive
        BY <3>1, <3>3, ProblemReplaces DEF ReadOf, HelperInv, Replaced, RespawnBounded
      <3> QED BY <3>2, <3>3
    <2> QED BY <1>1, <1>5, <2>1, ReadKeeps DEF HelperInv
  <1>6. CASE Execute
    <2>1. RespawnBounded'
      BY <1>6 DEF Execute, HelperInv, RespawnBounded, life
    <2> QED BY <1>1, <1>6, <2>1, ExecuteKeeps DEF HelperInv
  <1>7. CASE Flush
    <2>1. RespawnBounded'
      BY <1>7 DEF Flush, HelperInv, RespawnBounded, life
    <2> QED BY <1>1, <1>7, <2>1, FlushKeeps DEF HelperInv
  <1>8. CASE Reload
    BY <1>1, <1>8, ReloadKeeps DEF HelperInv
  <1>9. CASE Tick
    <2>1. PipesInv' /\ NoneAhead' /\ CommandsInv' /\ AnswersInv'
      BY <1>9, UntouchedKeeps DEF Tick, work
    <2>2. RespawnBounded'
      BY <1>9, ProcessesAssumption DEF Tick, RespawnBounded
    <2> QED BY <1>1, <2>1, <2>2 DEF HelperInv
  <1>10. CASE UNCHANGED helperVars
    <2>1. PipesInv' /\ NoneAhead' /\ CommandsInv' /\ AnswersInv'
      BY <1>10, UntouchedKeeps DEF helperVars, life, work
    <2>2. RespawnBounded'
      BY <1>10 DEF helperVars, life, HelperInv, RespawnBounded
    <2> QED BY <1>1, <2>1, <2>2 DEF HelperInv
  <1> QED BY <1>2, <1>3, <1>4, <1>5, <1>6, <1>7, <1>8, <1>9, <1>10
       DEF HelperNext, ReactorStep

LEMMA HelperInvHolds == HelperSpec => []HelperInv
  <1>1. HelperInit => HelperInv
    BY HelperInvInit
  <1>2. HelperInv /\ [HelperNext]_helperVars => HelperInv'
    BY HelperInvStep
  <1> QED BY <1>1, <1>2, PTL DEF HelperSpec

---------------------------------------------------------------------------
(* Theorems.                                                               *)

\* The state of Processes is well typed, and a helper that lives is known.
THEOREM HelperTypes == HelperSpec => []HelperTypeOK
  <1>1. HelperInv => HelperTypeOK
    BY DEF HelperInv
  <1> QED BY <1>1, HelperInvHolds, PTL

\* _async_reader_callback never joins the half line a dead helper left to what
\* the next one writes.
THEOREM LinesAreWhole == HelperSpec => []LinesWhole
  <1>1. HelperInv => LinesWhole
    <2> SUFFICES ASSUME HelperInv, partial # <<>> PROVE
             /\ Len(partial) = 1
             /\ partial[1].line[1] = inc
             /\ stdout # <<>> => stdout[1] = [partial[1] EXCEPT !.part = "tail"]
      BY DEF LinesWhole
    <2>1. /\ inc \in Nat /\ Taken \in Nat /\ Taken % 2 = 1 /\ partial = <<Piece(Taken)>>
          /\ stdout \in Seq(Fragment)
      BY HelperNumbers DEF HelperInv, PipesInv, HelperTypeOK
    <2>2. Len(partial) = 1 /\ partial[1] = Piece(Taken)
      BY <2>1
    <2>3. Piece(Taken) = [line |-> <<inc, (Taken + 1) \div 2>>, part |-> "head"]
      BY <2>1 DEF Piece
    <2>4. Piece(Taken + 1) = [line |-> <<inc, (Taken + 1) \div 2>>, part |-> "tail"]
      <3>1. (Taken + 1) % 2 # 1 /\ (Taken + 1 + 1) \div 2 = (Taken + 1) \div 2
        BY ONLY <2>1
      <3> QED BY <3>1 DEF Piece
    <2>5. ASSUME stdout # <<>> PROVE stdout[1] = Piece(Taken + 1)
      <3>1. 1 \in 1..Len(stdout)
        BY <2>1, <2>5, EmptySeq
      <3> QED BY <3>1 DEF HelperInv, PipesInv
    <2>6. [Piece(Taken) EXCEPT !.part = "tail"] = Piece(Taken + 1)
      BY <2>3, <2>4
    <2> QED BY <2>2, <2>3, <2>5, <2>6
  <1> QED BY <1>1, HelperInvHolds, PTL

\* Between received_async and a reader that appends in callbacks, no command is
\* lost, repeated or overtaken while its helper lives.
THEOREM CommandsAreKept == HelperSpec => []CommandsKept
  <1>1. HelperInv => CommandsKept
    <2> SUFFICES ASSUME HelperInv, alive PROVE CommandsKept
      BY DEF CommandsKept
    <2>1. PICK old \in Nat : CommandsFrom(commands, old, Taken \div 2)
      BY DEF HelperInv, CommandsInv
    <2> QED BY <2>1 DEF CommandsFrom, CommandsKept
  <1> QED BY <1>1, HelperInvHolds, PTL

\* However often flush_write_queue is cut short, each answer goes out once and
\* in order, and none is taken for the answer to another incarnation's command.
THEOREM AnswersAreKept == HelperSpec => []AnswersKept
  <1>1. HelperInv => AnswersKept
    <2> SUFFICES ASSUME HelperInv, alive PROVE AnswersKept
      BY DEF AnswersKept
    <2>1. PICK old \in Nat : AnswersFrom(answers, old, Executed)
      BY DEF HelperInv, AnswersInv
    <2> QED BY <2>1 DEF AnswersFrom, AnswersKept
  <1> QED BY <1>1, HelperInvHolds, PTL

\* _start leaves no helper running that was started too often.
THEOREM RespawnIsBounded == HelperSpec => []RespawnBounded
  <1>1. HelperInv => RespawnBounded
    BY DEF HelperInv
  <1> QED BY <1>1, HelperInvHolds, PTL

================================================================================
