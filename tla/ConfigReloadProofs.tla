------------------------- MODULE ConfigReloadProofs --------------------------
(***************************************************************************)
(* What is proved of ConfigReload for every choice of its constants.  The  *)
(* steps that only concern the RIB, the session and the remote speaker are *)
(* those of AdjRibOut, whose lemmas are used as they are; what is added is *)
(* the file, and the routes it removes later than it adds the others.      *)
(***************************************************************************)
EXTENDS ConfigReload, AdjRibOutProofs

------------------------------------------------------------------------------
(* Types. *)

LEMMA NobodyType == Nobody \in Neighbor
BY EmptyTypes DEF Nobody, Neighbor

LEMMA ParsedType ==
    ASSUME NEW r \in Table
    PROVE  Parsed(r) \in Table
BY DEF Parsed, Table, MaybePath

LEMMA ChangeRibType ==
    ASSUME SessionTypeOK, NEW adds \in Table, NEW dels \in SUBSET Nlri, ChangeRib(adds, dels)
    PROVE  SessionTypeOK'
<1>1. TypeOK'
  BY ChangeType DEF ChangeRib, SessionTypeOK
<1>2. initial' \in Table
  BY TableOps DEF ChangeRib, SessionTypeOK
<1> QED
  BY <1>1, <1>2 DEF ChangeRib, sessionVars, SessionTypeOK

LEMMA CommittedType ==
    ASSUME ReloadTypeOK, NEW r \in Table
    PROVE  Committed(r) \in Neighbor /\ Committed(r).routes = r /\ Committed(r).previous \in Table
BY EmptyTypes DEF ReloadTypeOK, Committed, Neighbor

\* What reading a good file does, in the four forms it may take.
LEMMA LoadCases ==
    ASSUME NEW r, Load(r)
    PROVE  \/ /\ signal = "restart" /\ ChangeRib(Parsed(Overlay(left, r)), {})
              /\ teardown' = TRUE /\ current' = current
              /\ waiting' = "nothing" /\ replacement' = Nobody
           \/ /\ signal = "reload" /\ ChangeRib(Parsed(Overlay(left, r)), {})
              /\ teardown' = TRUE /\ current' = current
              /\ waiting' = "other" /\ replacement' = Committed(Overlay(left, r))
           \/ /\ signal = "reload" /\ session # "down" /\ ChangeRib(Parsed(Committed(Overlay(left, r)).routes), {})
              /\ teardown' = teardown /\ current' = Committed(Overlay(left, r))
              /\ waiting' = "current" /\ replacement' = Nobody
           \/ /\ signal = "reload" /\ session = "down"
              /\ ChangeRib(Overlay(Parsed(Committed(Overlay(left, r)).routes),
                                   Without(Committed(Overlay(left, r)).routes, Keys(Committed(Overlay(left, r)).previous))),
                           Gone(Committed(Overlay(left, r))))
              /\ teardown' = teardown /\ current' = [Committed(Overlay(left, r)) EXCEPT !.previous = NoRoutes]
              /\ waiting' = "nothing" /\ replacement' = Nobody
<1> DEFINE b == Committed(Overlay(left, r))
<1> HIDE DEF b
<1>1. CASE signal = "restart"
  BY <1>1 DEF Load, reestablish
<1>2. CASE signal # "restart"
  <2>1. signal = "reload"
    BY <1>2 DEF Load, Reading, MayRead
  <2>2. CASE reconfigure(b)
    BY <2>1, <2>2 DEF reconfigure, b
  <2>3. CASE reestablish("other", b) /\ ChangeRib(Parsed(Overlay(left, r)), {})
    BY <2>1, <2>3 DEF reestablish, b
  <2> QED
    BY <1>2, <2>2, <2>3 DEF Load, b
<1> QED
  BY <1>1, <1>2

LEMMA ReloadStepType == ReloadTypeOK /\ [ReloadNext]_allVars => ReloadTypeOK'
<1> SUFFICES ASSUME ReloadTypeOK, [ReloadNext]_allVars
             PROVE  ReloadTypeOK'
  OBVIOUS
<1> USE EmptyTypes, NobodyType
<1>0. SessionTypeOK /\ (UNCHANGED vars => SessionTypeOK')
  BY StepType DEF ReloadTypeOK
<1>f. File \subseteq Table
  BY FileAssumption
<1>1. ASSUME NEW s \in {"reload", "restart"}, Ask(s)
      PROVE  ReloadTypeOK'
  BY <1>0, <1>1 DEF Ask, ReloadTypeOK, configVars, parserVars, taskVars, wordVars
<1>2. CASE SkipReload
  BY <1>0, <1>2 DEF SkipReload, ReloadTypeOK, configVars, parserVars, taskVars, wordVars
<1>l. left \in Table /\ \A r \in File : r \in Table /\ Overlay(left, r) \in Table
  BY <1>f, TableOps DEF ReloadTypeOK
<1>3. ASSUME NEW r \in File, Load(r)
      PROVE  ReloadTypeOK'
  <2> DEFINE q == Overlay(left, r)
             b == Committed(q)
  <2>0. q \in Table
    BY <1>l
  <2>1. r \in Table /\ b \in Neighbor /\ b.routes = q /\ b.previous \in Table
    BY <1>l, <2>0, CommittedType
  <2>a. /\ configured' = [known |-> TRUE, routes |-> q] /\ asked' = r
        /\ signal' = "none" /\ parsed' = parsed /\ named' = FALSE /\ left' = NoRoutes
    BY <1>3 DEF Load, Reading
  <2>b. wanted' \in Table
    BY <2>1, <1>3, TableOps DEF Load, ReloadTypeOK
  <2> HIDE DEF b, q
  <2>2. Parsed(q) \in Table /\ Overlay(Parsed(q), Without(q, Keys(b.previous))) \in Table
        /\ Gone(b) \in SUBSET Nlri /\ [b EXCEPT !.previous = NoRoutes] \in Neighbor
    BY <2>0, <2>1, ParsedType, TableOps DEF Gone, Keys, Neighbor
  <2>c. \/ ChangeRib(Parsed(q), {})
        \/ ChangeRib(Overlay(Parsed(q), Without(q, Keys(b.previous))), Gone(b))
    BY <2>1, <1>3, LoadCases DEF b, q
  <2>3. SessionTypeOK'
    BY <2>2, <2>c, <1>0, ChangeRibType
  <2>4. /\ current' \in Neighbor /\ replacement' \in Neighbor
        /\ waiting' \in {"nothing", "current", "other"} /\ teardown' \in BOOLEAN
    <3>1. current \in Neighbor /\ teardown \in BOOLEAN
      BY DEF ReloadTypeOK
    <3> QED
      BY <3>1, <2>1, <2>2, <1>3, LoadCases DEF b, q
  <2> QED
    BY <2>0, <2>1, <2>3, <2>4, <2>a, <2>b DEF ReloadTypeOK
<1>4. ASSUME NEW r \in File, NEW q \in File, FailLate(r, q)
      PROVE  ReloadTypeOK'
  <2>1. SessionTypeOK'
    BY <1>0, <1>4, <1>l, ParsedType, ChangeRibType DEF FailLate
  <2>2. left' \in Table /\ named' \in BOOLEAN
    BY <1>4, <1>l DEF FailLate, ReloadTypeOK
  <2> QED
    BY <2>1, <2>2, <1>4 DEF FailLate, Reading, ReloadTypeOK, taskVars, wordVars
<1>b. ASSUME NEW r \in File, BreakOff(r)
      PROVE  /\ left' \in Table /\ named' \in BOOLEAN /\ SessionTypeOK'
             /\ UNCHANGED <<parsed, taskVars, wordVars>>
  BY <1>0, <1>b, <1>l DEF BreakOff, ReloadTypeOK
<1>5. CASE Refuse
  <2>1. left' \in Table
    BY <1>5, <1>l DEF Refuse
  <2> QED
    BY <2>1, <1>0, <1>5 DEF Refuse, Reading, ReloadTypeOK, taskVars, wordVars
<1>6. ASSUME NEW r \in File, FailEarly(r)
      PROVE  ReloadTypeOK'
  BY <1>b, <1>6 DEF FailEarly, Reading, ReloadTypeOK, taskVars, wordVars
<1>7. ASSUME NEW r \in File, Unreadable(r)
      PROVE  ReloadTypeOK'
  BY <1>b, <1>7 DEF Unreadable, Reading, ReloadTypeOK, taskVars, wordVars
<1>8. ASSUME NEW n \in Nlri, NEW p \in Path, ApiAnnounce(n, p)
      PROVE  ReloadTypeOK'
  <2>1. SessionTypeOK'
    BY <1>0, <1>8, StepType DEF ApiAnnounce, Next, Command
  <2>2. wanted' \in Table
    BY <1>8 DEF ApiAnnounce, ReloadTypeOK, Table, MaybePath
  <2> QED
    BY <2>1, <2>2, <1>8 DEF ApiAnnounce, ReloadTypeOK, configVars, parserVars, taskVars
<1>9. ASSUME NEW n \in Nlri, ApiWithdraw(n)
      PROVE  ReloadTypeOK'
  <2>1. SessionTypeOK'
    BY <1>0, <1>9, StepType DEF ApiWithdraw, Next, Command
  <2>2. wanted' \in Table
    BY <1>9 DEF ApiWithdraw, ReloadTypeOK, Table, MaybePath
  <2> QED
    BY <2>1, <2>2, <1>9 DEF ApiWithdraw, ReloadTypeOK, configVars, parserVars, taskVars
<1>10. CASE ApiWithdrawAll
  <2>1. SessionTypeOK'
    BY <1>0, <1>10, StepType DEF ApiWithdrawAll, Next, Command
  <2> QED
    BY <2>1, <1>10 DEF ApiWithdrawAll, ReloadTypeOK, configVars, parserVars, taskVars
<1>11. CASE TakeOver
  <2>1. /\ Without(current.routes, Keys(current.previous)) \in Table
        /\ Keys(current.previous) \ Keys(current.routes) \in SUBSET Nlri
    BY TableOps DEF ReloadTypeOK, Neighbor, Keys
  <2>2. TypeOK'
    BY <2>1, <1>0, <1>11, ChangeType DEF TakeOver, replace_reload, SessionTypeOK
  <2>3. initial' \in Table
    BY <1>0, <1>11, TableOps DEF TakeOver, SessionTypeOK
  <2>4. SessionTypeOK'
    BY <2>2, <2>3, <1>0, <1>11 DEF TakeOver, sessionVars, SessionTypeOK
  <2> QED
    BY <2>4, <1>11 DEF TakeOver, ReloadTypeOK, Neighbor, configVars, parserVars, wordVars
<1>12. CASE EstablishPeer
  <2>1. SessionTypeOK'
    BY <1>0, <1>12, EstablishType DEF EstablishPeer
  <2> QED
    BY <2>1, <1>12 DEF EstablishPeer, ReloadTypeOK, Neighbor, configVars, parserVars, wordVars
<1>13. CASE ResetPeer
  <2>1. SessionTypeOK'
    BY <1>0, <1>13, StepType DEF ResetPeer, Next
  <2> QED
    BY <2>1, <1>13 DEF ResetPeer, Newest, ReloadTypeOK, configVars, parserVars, wordVars
<1>14. ASSUME UNCHANGED reloadVars, [Next]_vars
       PROVE  ReloadTypeOK'
  <2>1. SessionTypeOK'
    BY <1>0, <1>14, StepType
  <2> QED
    BY <2>1, <1>14 DEF ReloadTypeOK, reloadVars, configVars, parserVars, taskVars, wordVars
<1>15. ASSUME NEW e \in Enhanced, Resend(e, Family)
       PROVE  Next
  BY <1>15 DEF Next, Command
<1> QED
  <2>1. CASE UNCHANGED allVars
    BY <2>1, <1>14 DEF allVars
  <2>2. CASE MainLoop
    BY <2>2, <1>2, <1>3, <1>4, <1>5, <1>6, <1>7 DEF MainLoop
  <2>3. CASE (Send \/ Lose) /\ UNCHANGED reloadVars
    BY <2>3, <1>14 DEF Next
  <2>4. ASSUME NEW e \in Enhanced, Resend(e, Family) /\ UNCHANGED reloadVars
        PROVE  ReloadTypeOK'
    BY <2>4, <1>14, <1>15
  <2>5. CASE \E s \in {"reload", "restart"} : Ask(s)
    BY <2>5, <1>1
  <2> QED
    BY <2>1, <2>2, <2>3, <2>4, <2>5, <1>8, <1>9, <1>10, <1>11, <1>12, <1>13 DEF ReloadNext

LEMMA InitReloadType == ReloadInit => ReloadTypeOK
<1> SUFFICES ASSUME ReloadInit PROVE ReloadTypeOK
  OBVIOUS
<1>1. SessionTypeOK
  BY InitType DEF ReloadInit
<1>2. configured \in [known : BOOLEAN, routes : Table]
  BY EmptyTypes DEF ReloadInit
<1> QED
  BY <1>1, <1>2, EmptyTypes, NobodyType DEF ReloadInit, ReloadTypeOK

\* Every variable keeps its type, the neighbor objects of the configuration and
\* of the peer included, whatever the files and the signals do.
THEOREM ReloadTypeCorrect == ReloadSpec => []ReloadTypeOK
BY InitReloadType, ReloadStepType, PTL DEF ReloadSpec

------------------------------------------------------------------------------
(* The file and the cache. *)

\* Files are read one at a time, none goes missing, ends in an exception or fails
\* once its neighbor is known to the parser (it may fail before, and leave routes
\* and names there), nothing restarts, and commands keep away from what a reload
\* under way touches.
Quiet == ~Overlaps /\ ~Concurrent /\ ~Restarts /\ Failures \subseteq {"early"}

LEMMA InitReloadInv == ReloadInit => ReloadInv
BY DEF Strays, ReloadInit, ReloadInv, Applied, Newest, Gone, Nobody, Keys, NoRoutes, SessionInit, Init

\* A step that leaves the words, the files and the neighbors alone.
LEMMA SameReload ==
    ASSUME ReloadInv, UNCHANGED <<seen, configured, parsed, taskVars, wordVars>>,
           signal' # "restart", session = "down" <=> session' = "down"
    PROVE  ReloadInv'
BY DEF ReloadInv, Applied, Newest, Gone, Strays, Keys, taskVars, wordVars

\* What is read of a good file reaches the cache, and what it removes does when
\* the peer is not established.
LEMMA LoadReload ==
    ASSUME Quiet, ReloadTypeOK, ReloadInv, NEW r \in Table, Load(r)
    PROVE  ReloadInv'
<1> DEFINE q == Overlay(left, r)
           b == Committed(q)
           old == configured.routes
<1>c. Cache
  BY CachingAssumption
<1>0. /\ TypeOK /\ seen \in Table /\ asked \in Table /\ wanted \in Table /\ NoPath \notin Path
      /\ q \in Table
  BY PathAssumption, TableOps DEF ReloadTypeOK, SessionTypeOK, TypeOK
<1>1. b.routes = q /\ b.previous = old /\ b \in Neighbor
  BY <1>0, CommittedType DEF Committed, ReloadInv
<1>2. Gone(b) = Keys(old) \ Keys(q)
  BY <1>1 DEF Gone
<1>q. \A n \in Keys(r) : n \in Keys(q) /\ q[n] = r[n]
  BY DEF Overlay, Keys
<1>3. /\ Gone(Newest) = {} /\ Gone(current) = {}
      /\ \A n \in Nlri \ Strays : seen[n] = wanted[n]
  BY DEF Load, Quiet, ReloadInv, Applied, Newest
<1>4. \A n \in Nlri : wanted'[n] = IF r[n] # NoPath THEN r[n]
                                 ELSE IF old[n] # NoPath THEN NoPath ELSE wanted[n]
  <2>1. Keys(asked) \cup Strays = Keys(old)
    BY <1>0 DEF Strays, Keys, ReloadInv
  <2>2. wanted' = Overlay(Without(wanted, Keys(old)), r)
    BY <2>1 DEF Load
  <2> QED
    BY <2>2 DEF Overlay, Without, Keys
<1>5. /\ signal' = "none" /\ parsed' = FALSE /\ asked' = r
      /\ configured'.known = TRUE /\ configured'.routes = q
  BY DEF Load, Reading, ReloadInv
<1>6. signal = "reload"
  BY DEF Load, Reading, MayRead, ReloadInv
<1>7. /\ \A n \in Nlri : Parsed(q)[n] = IF seen[n] = q[n] THEN NoPath ELSE q[n]
      /\ Parsed(q) \in Table
  BY <1>c, <1>0, ParsedType DEF Parsed, in_cache
<1>8. Strays' = Keys(q) \ Keys(r)
  BY <1>5 DEF Strays
<1>9. \/ /\ ChangeRib(Parsed(q), {})
         /\ \/ waiting' = "other" /\ replacement' = b /\ teardown' = TRUE /\ current' = current
            \/ waiting' = "current" /\ current' = b /\ session # "down"
      \/ /\ ChangeRib(Overlay(Parsed(q), Without(q, Keys(old))), Gone(b))
         /\ current' = [b EXCEPT !.previous = NoRoutes] /\ waiting' = "nothing"
  BY <1>1, <1>6, LoadCases
<1> HIDE DEF q, b, old
\* What is not in the new file and was in the old one is wanted no more.
<1>10. /\ \A n \in Keys(old) \ Keys(r) : wanted'[n] = NoPath
       /\ \A n \in Gone(b) : wanted'[n] = NoPath
       /\ \A n \in Keys(r) : wanted'[n] = r[n] /\ q[n] = r[n]
  BY <1>2, <1>4, <1>q DEF Keys
\* Every route that is neither a stray of this file nor removed later.
<1>11. \A n \in Nlri \ (Gone(b) \cup (Keys(q) \ Keys(r))) :
          wanted'[n] = IF q[n] # NoPath THEN q[n] ELSE seen[n]
  <2> SUFFICES ASSUME NEW n \in Nlri, n \notin Gone(b), n \notin Keys(q) \ Keys(r)
               PROVE  wanted'[n] = IF q[n] # NoPath THEN q[n] ELSE seen[n]
    OBVIOUS
  <2>1. CASE n \in Keys(r)
    BY <2>1, <1>10, <1>q DEF Keys
  <2>2. CASE n \notin Keys(r)
    <3>1. n \notin Keys(q) /\ n \notin Keys(old)
      BY <2>2, <1>2
    <3>2. n \notin Strays
      BY <3>1 DEF Strays, old
    <3> QED
      BY <3>1, <3>2, <2>2, <1>3, <1>4 DEF Keys
  <2> QED
    BY <2>1, <2>2
<1>12. CASE /\ ChangeRib(Parsed(q), {})
            /\ \/ waiting' = "other" /\ replacement' = b /\ teardown' = TRUE /\ current' = current
               \/ waiting' = "current" /\ current' = b /\ session # "down"
  <2>1. \A n \in Nlri : seen'[n] = IF q[n] # NoPath THEN q[n] ELSE seen[n]
    <3>1. \A n \in Nlri : seen'[n] = IF Parsed(q)[n] # NoPath THEN Parsed(q)[n] ELSE seen[n]
      BY <1>c, <1>0, <1>7, <1>12, ChangePointwise DEF ChangeRib
    <3> QED
      BY <3>1, <1>7
  <2>2. \A n \in Nlri \ (Gone(b) \cup Strays') : seen'[n] = wanted'[n]
    BY <2>1, <1>8, <1>11
  <2>3. \A n \in Keys(q) : seen'[n] = q[n]
    BY <2>1 DEF Keys
  <2>5. CASE waiting' = "other" /\ replacement' = b /\ teardown' = TRUE /\ current' = current
    <3>1. Newest' = b /\ Gone(Newest)' = Gone(b) /\ Gone(current)' = Gone(current)
      BY <2>5 DEF Newest, Gone
    <3> QED
      BY <3>1, <2>2, <2>3, <2>5, <1>1, <1>3, <1>5, <1>10 DEF ReloadInv, Applied
  <2>6. CASE waiting' = "current" /\ current' = b /\ session # "down"
    <3>1. Newest' = b /\ Gone(Newest)' = Gone(b) /\ session' # "down"
      BY <2>6, <1>12 DEF Newest, Gone, ChangeRib, sessionVars
    <3> QED
      BY <3>1, <2>2, <2>3, <2>6, <1>1, <1>5, <1>10 DEF ReloadInv, Applied
  <2> QED
    BY <1>12, <2>5, <2>6
<1>13. CASE /\ ChangeRib(Overlay(Parsed(q), Without(q, Keys(old))), Gone(b))
            /\ current' = [b EXCEPT !.previous = NoRoutes] /\ waiting' = "nothing"
  <2> DEFINE adds == Overlay(Parsed(q), Without(q, Keys(old)))
  <2>1. adds \in Table /\ Gone(b) \in SUBSET Nlri
    BY <1>0, <1>7, TableOps DEF Gone, Keys
  <2>2. \A n \in Nlri : adds[n] = IF q[n] # NoPath /\ old[n] = NoPath THEN q[n] ELSE Parsed(q)[n]
    BY DEF Overlay, Without, Keys
  <2> HIDE DEF adds
  <2>3. \A n \in Nlri : seen'[n] = IF n \in Gone(b) THEN NoPath
                                 ELSE IF adds[n] # NoPath THEN adds[n] ELSE seen[n]
    BY <2>1, <1>c, <1>0, <1>13, ChangePointwise DEF ChangeRib, adds
  <2>4. \A n \in Nlri \ Strays' : seen'[n] = wanted'[n]
    <3>1. ASSUME NEW n \in Nlri, n \notin Gone(b), n \notin Strays'
          PROVE  seen'[n] = wanted'[n]
      BY <3>1, <2>2, <2>3, <1>7, <1>8, <1>11
    <3>2. \A n \in Gone(b) : seen'[n] = wanted'[n]
      BY <2>1, <2>3, <1>10
    <3> QED
      BY <3>1, <3>2
  <2>5. current'.routes = q /\ current'.previous = NoRoutes
    BY <1>1, <1>13 DEF Neighbor
  <2>6. Newest' = current' /\ Gone(Newest)' = {}
    BY <2>5, <1>13 DEF Newest, Gone, Keys, NoRoutes
  <2> QED
    BY <2>4, <2>5, <2>6, <1>5, <1>10, <1>13 DEF ReloadInv, Applied
<1> QED
  BY <1>9, <1>12, <1>13
\* The file and the cache agree on every route but those the peer has still to
\* remove, whichever of the tasks runs.
LEMMA ReloadInvStep ==
    Quiet /\ ReloadTypeOK /\ ReloadInv /\ [ReloadNext]_allVars => ReloadInv'
<1> SUFFICES ASSUME Quiet, ReloadTypeOK, ReloadInv, [ReloadNext]_allVars
             PROVE  ReloadInv'
  OBVIOUS
<1>c. Cache
  BY CachingAssumption
<1>0. TypeOK /\ SessionTypeOK /\ current \in Neighbor /\ wanted \in Table /\ asked \in Table
  BY DEF ReloadTypeOK, SessionTypeOK
<1>f. File \subseteq Table
  BY FileAssumption
<1>1. ASSUME NEW s \in {"reload", "restart"}, Ask(s)
      PROVE  ReloadInv'
  BY <1>1, SameReload DEF Ask, Quiet, ReloadInv, configVars, parserVars, vars, ribVars, sessionVars
<1>2. CASE SkipReload
  BY <1>2, SameReload DEF SkipReload, configVars, parserVars, vars, ribVars, sessionVars
<1>3. ASSUME NEW r \in File, FailEarly(r)
      PROVE  ReloadInv'
  BY <1>3, SameReload DEF FailEarly, BreakOff, Reading, vars, ribVars, sessionVars
<1>r. CASE Refuse
  BY <1>r, SameReload DEF Refuse, Reading, vars, ribVars, sessionVars
<1>4. ASSUME NEW r \in File, NEW q \in File
      PROVE  ~FailLate(r, q) /\ ~Unreadable(r)
  BY DEF FailLate, Unreadable, Quiet
<1>5. ASSUME NEW n \in Nlri, NEW p \in MaybePath, MayName(n), seen' = [seen EXCEPT ![n] = p],
             wanted' = [wanted EXCEPT ![n] = p],
             UNCHANGED <<signal, configVars, taskVars, asked, session>>
      PROVE  ReloadInv'
  <2>1. waiting = "nothing" /\ Gone(current) = {} /\ Gone(Newest) = {}
    BY <1>5 DEF MayName, Quiet, Newest
  <2>2. Newest' = Newest /\ Gone(Newest)' = Gone(Newest) /\ Gone(current)' = Gone(current)
    BY <1>5 DEF Newest, Gone, taskVars
  <2>3. \A m \in Nlri \ Strays : seen[m] = wanted[m]
    BY <2>1 DEF ReloadInv, Applied
  <2>4. Strays' = Strays /\ \A m \in Nlri \ Strays : seen'[m] = wanted'[m]
    BY <2>3, <1>0, <1>5 DEF TypeOK, Table, Strays, configVars
  <2> QED
    BY <2>1, <2>2, <2>4, <1>5 DEF ReloadInv, Applied, configVars, parserVars, taskVars
<1>6. ASSUME NEW n \in Nlri, NEW p \in Path, ApiAnnounce(n, p)
      PROVE  ReloadInv'
  <2>1. Only(n, p) \in Table /\ p \in MaybePath
    BY OnlyType DEF MaybePath
  <2>2. seen' = [seen EXCEPT ![n] = p]
    <3>1. Change(Only(n, p), {})
      BY <1>6 DEF ApiAnnounce, Announce, add_to_rib
    <3>2. \A m \in Nlri : Only(n, p)[m] = IF m = n THEN p ELSE NoPath
      BY DEF Only
    <3>3. \A m \in Nlri : seen'[m] = IF m = n THEN p ELSE seen[m]
      BY <2>1, <3>1, <3>2, <1>c, <1>0, ChangePointwise, PathAssumption
    <3>4. seen' \in Table
      BY <2>1, <3>1, <1>0, ChangeType DEF TypeOK
    <3> QED
      BY <3>3, <3>4, <1>0 DEF TypeOK, Table
  <2> QED
    BY <2>1, <2>2, <1>5, <1>6 DEF ApiAnnounce, Announce, sessionVars
<1>7. ASSUME NEW n \in Nlri, ApiWithdraw(n)
      PROVE  ReloadInv'
  <2>1. NoRoutes \in Table /\ NoPath \in MaybePath
    BY EmptyTypes DEF MaybePath
  <2>2. seen' = [seen EXCEPT ![n] = NoPath]
    <3>1. seen' \in Table /\ \A m \in Nlri : seen'[m] = IF m = n THEN NoPath ELSE seen[m]
      BY <2>1, <1>c, <1>0, <1>7, ChangePointwise, ChangeType
         DEF ApiWithdraw, Withdraw, del_from_rib, NoRoutes, TypeOK
    <3> QED
      BY <3>1, <1>0 DEF TypeOK, Table
  <2> QED
    BY <2>1, <2>2, <1>5, <1>7 DEF ApiWithdraw, Withdraw, sessionVars
<1>8. CASE ApiWithdrawAll
  <2>1. waiting = "nothing" /\ Gone(current) = {} /\ Gone(Newest) = {}
    BY <1>8 DEF ApiWithdrawAll, Quiet, Newest
  <2>2. Newest' = Newest /\ Gone(Newest)' = Gone(Newest) /\ Gone(current)' = Gone(current)
    BY <1>8 DEF ApiWithdrawAll, Newest, Gone, taskVars
  <2>3. Keys(cached_routes(Family)) = Keys(seen) /\ NoRoutes \in Table
    BY EmptyTypes, FamilyAssumption DEF cached_routes, Keys
  <2>4. \A n \in Nlri : seen'[n] = NoPath /\ wanted'[n] = NoPath
    BY <2>3, <1>c, <1>0, <1>8, ChangePointwise
       DEF ApiWithdrawAll, WithdrawAll, withdraw, NoRoutes, Keys
  <2> QED
    BY <2>1, <2>2, <2>4, <1>8 DEF ApiWithdrawAll, ReloadInv, Applied, configVars, parserVars, taskVars
\* The routes that have gone are removed at last, and only those.
<1>9. ASSUME Newest = current, current' = [current EXCEPT !.previous = NoRoutes],
             waiting' = "nothing",
             \A n \in Nlri : seen'[n] = IF n \in Gone(current) THEN NoPath ELSE seen[n],
             UNCHANGED <<signal, configVars, wordVars>>
      PROVE  ReloadInv'
  <2>1. current'.routes = current.routes /\ current'.previous = NoRoutes
    BY <1>0, <1>9 DEF Neighbor
  <2>2. Newest' = current' /\ Gone(Newest)' = {}
    BY <2>1, <1>9 DEF Newest, Gone, Keys, NoRoutes
  <2> QED
    BY <2>1, <2>2, <1>9 DEF ReloadInv, Applied, Strays, configVars, parserVars, wordVars
<1>10. CASE TakeOver
  <2> DEFINE adds == Without(current.routes, Keys(current.previous))
  <2>1. Newest = current /\ waiting = "current"
    BY <1>10 DEF TakeOver, Newest
  <2>2. adds \in Table /\ Gone(current) \in SUBSET Nlri
    BY <1>0, TableOps DEF Neighbor, Gone, Keys
  <2>3. \A n \in Nlri : adds[n] # NoPath => n \notin Gone(current) /\ adds[n] = seen[n]
    BY <2>1, <1>0 DEF Without, ReloadInv, Applied, Gone, Keys
  <2>4. Change(adds, Gone(current))
    BY <1>10 DEF TakeOver, replace_reload, Gone
  <2> HIDE DEF adds
  <2>5. \A n \in Nlri : seen'[n] = IF n \in Gone(current) THEN NoPath ELSE seen[n]
    BY <2>2, <2>3, <2>4, <1>c, <1>0, ChangePointwise
  <2> QED
    BY <2>1, <2>5, <1>9, <1>10 DEF TakeOver
<1>11. CASE EstablishPeer
  <2>1. Newest = current /\ waiting = "nothing"
    BY <1>11, <1>0 DEF EstablishPeer, EstablishWith, Newest, ReloadInv, ReloadTypeOK
  <2>2. cached_routes(Family) \in Table /\ Gone(current) \in SUBSET Nlri
    BY <1>0, TableOps DEF TypeOK, Gone, Keys
  <2>3. \A n \in Nlri : cached_routes(Family)[n] = seen[n]
    BY FamilyAssumption DEF cached_routes
  <2>4. Change(cached_routes(Family), Gone(current))
    BY <1>11 DEF EstablishPeer, EstablishWith, replace_restart, Gone
  <2>5. \A n \in Nlri : seen'[n] = IF n \in Gone(current) THEN NoPath ELSE seen[n]
    BY <2>2, <2>3, <2>4, <1>c, <1>0, ChangePointwise
  <2> QED
    BY <2>1, <2>5, <1>9, <1>11 DEF EstablishPeer
<1>12. CASE ResetPeer
  <2>1. current' = Newest /\ waiting' = "nothing" /\ seen' = seen
        /\ UNCHANGED <<signal, configVars, wordVars>>
    BY <1>12 DEF ResetPeer, Reset, reset
  <2>2. Newest' = Newest /\ Gone(Newest)' = Gone(Newest)
    BY <2>1 DEF Newest, Gone
  <2> QED
    BY <2>1, <2>2 DEF ReloadInv, Applied, Strays, configVars, parserVars, wordVars
\* What the peer's task sends changes no route of the cache.
<1>13. ASSUME UNCHANGED reloadVars, UNCHANGED seen, session' = "down" <=> session = "down"
       PROVE  ReloadInv'
  BY <1>13, SameReload DEF reloadVars, configVars, parserVars, ReloadInv
<1>14. CASE Send /\ UNCHANGED reloadVars
  <2>1. UNCHANGED <<seen, session>>
    BY <1>14 DEF Send, StartUpdates, updates, SendRefreshStart, SendRefresh, SendRefreshEnd,
                 SendWithdraw, SendAnnounces, Sending, FinishUpdates, SendEor, sessionVars, ribVars
  <2> QED
    BY <2>1, <1>13, <1>14
<1>15. CASE Lose /\ UNCHANGED reloadVars
  BY <1>13, <1>15 DEF Lose
<1>16. ASSUME NEW e \in Enhanced, Resend(e, Family) /\ UNCHANGED reloadVars
       PROVE  ReloadInv'
  BY <1>13, <1>16 DEF Resend, resend, sessionVars
<1> QED
  <2>1. CASE UNCHANGED allVars
    BY <2>1, <1>13 DEF allVars, vars, ribVars, sessionVars
  <2>2. CASE MainLoop
    BY <2>2, <1>2, <1>3, <1>r, <1>4, <1>f, LoadReload DEF MainLoop
  <2>3. CASE \E s \in {"reload", "restart"} : Ask(s)
    BY <2>3, <1>1
  <2> QED
    BY <2>1, <2>2, <2>3, <1>6, <1>7, <1>8, <1>10, <1>11, <1>12, <1>14, <1>15, <1>16 DEF ReloadNext

\* Under Quiet, whatever the interleaving of the main loop, the commands and the
\* peer's task and whatever refused files leave in the parser, the cache is what
\* the last file loaded and the commands after it say, but for the routes the peer
\* has been left to remove and those of a refused file that came in with it.
THEOREM FileApplied == ASSUME Quiet PROVE ReloadSpec => []Applied
<1>1. ReloadInit => ReloadTypeOK /\ ReloadInv
  BY InitReloadType, InitReloadInv
<1>2. (ReloadTypeOK /\ ReloadInv) /\ [ReloadNext]_allVars => (ReloadTypeOK /\ ReloadInv)'
  BY ReloadStepType, ReloadInvStep
<1>3. ReloadInv => Applied
  BY DEF ReloadInv
<1> QED
  BY <1>1, <1>2, <1>3, PTL DEF ReloadSpec

------------------------------------------------------------------------------
(* The file and the remote speaker. *)

\* ChangeRib queues no route twice, and nor does what takes a reload over.
LEMMA ReloadInSync ==
    ~Overwrites /\ ~EarlyRefresh /\ ReloadTypeOK /\ ReloadInv /\ InSync /\ [ReloadNext]_allVars
      => InSync'
<1> SUFFICES ASSUME ~Overwrites, ~EarlyRefresh, ReloadTypeOK, ReloadInv, InSync,
                    [ReloadNext]_allVars
             PROVE  InSync'
  OBVIOUS
<1>c. Cache
  BY CachingAssumption
<1>0. TypeOK /\ SessionTypeOK /\ current \in Neighbor
  BY DEF ReloadTypeOK, SessionTypeOK
<1>f. File \subseteq Table
  BY FileAssumption
<1>1. ASSUME [Next]_vars
      PROVE  InSync'
  BY <1>1, <1>c, <1>0, StepInSync
<1>2. ASSUME NEW adds \in Table, NEW dels \in SUBSET Nlri, Change(adds, dels),
             NoOverwrite(adds), UNCHANGED sessionVars
      PROVE  InSync'
  <2>1. stale' = stale
    BY <1>2 DEF sessionVars
  <2> QED
    BY <2>1, <1>2, <1>c, <1>0, CommandCore, ChangeRefresh DEF InSync
<1>l. \A r \in File : Overlay(left, r) \in Table
  BY <1>f, TableOps DEF ReloadTypeOK
<1>3. ASSUME NEW r \in File, Load(r)
      PROVE  InSync'
  <2> DEFINE q == Overlay(left, r)
             b == Committed(q)
  <2>0. q \in Table
    BY <1>l
  <2>1. b.routes = q /\ b.previous \in Table
    BY <2>0, CommittedType
  <2> HIDE DEF b, q
  <2>2. Parsed(q) \in Table /\ Overlay(Parsed(q), Without(q, Keys(b.previous))) \in Table
        /\ Gone(b) \in SUBSET Nlri
    BY <2>0, <2>1, ParsedType, TableOps DEF Gone, Keys
  <2>3. ASSUME NEW adds \in Table, NEW dels \in SUBSET Nlri, ChangeRib(adds, dels)
        PROVE  InSync'
    BY <2>3, <1>2 DEF ChangeRib, NoOverwrite, Keys
  <2>4. \/ ChangeRib(Parsed(q), {})
        \/ ChangeRib(Overlay(Parsed(q), Without(q, Keys(b.previous))), Gone(b))
    BY <2>1, <1>3, LoadCases DEF b, q
  <2> QED
    BY <2>2, <2>3, <2>4
<1>4. ASSUME NEW r \in File, NEW q \in File, FailLate(r, q)
      PROVE  InSync'
  <2>1. Parsed(Overlay(left, r)) \in Table
    BY <1>l, ParsedType
  <2>2. CASE ChangeRib(Parsed(Overlay(left, r)), {})
    BY <2>1, <2>2, <1>2 DEF ChangeRib, NoOverwrite, Keys
  <2>3. CASE UNCHANGED vars
    BY <2>3, <1>1
  <2> QED
    BY <2>2, <2>3, <1>4 DEF FailLate
\* What is queued of a route the file still has is what the file says.
<1>5. CASE TakeOver
  <2> DEFINE adds == Without(current.routes, Keys(current.previous))
             dels == Keys(current.previous) \ Keys(current.routes)
  <2>1. adds \in Table /\ dels \in SUBSET Nlri
    BY <1>0, TableOps DEF Neighbor, Keys
  <2>2. Newest = current /\ waiting = "current"
    BY <1>5 DEF TakeOver, Newest
  <2>3. \A n \in Nlri : adds[n] # NoPath => adds[n] = seen[n]
    BY <2>2 DEF Without, ReloadInv, Applied, Gone, Keys
  <2>4. Change(adds, dels) /\ UNCHANGED sessionVars
    BY <1>5 DEF TakeOver, replace_reload
  <2> HIDE DEF adds, dels
  <2>5. NoOverwrite(adds)
    <3>1. \A n \in Nlri : new_nlri[n] # NoPath => seen[n] = new_nlri[n]
      BY DEF InSync, CoreInv, QueueInv
    <3> QED
      BY <3>1, <2>3 DEF NoOverwrite, Keys
  <2> QED
    BY <2>1, <2>4, <2>5, <1>2
<1>6. CASE EstablishPeer
  BY <1>6, <1>c, <1>0, EstablishCore, EstablishRefresh DEF EstablishPeer, InSync
<1>7. CASE MainLoop
  <2>1. ASSUME UNCHANGED vars PROVE InSync'
    BY <2>1, <1>1
  <2> QED
    BY <2>1, <1>3, <1>4, <1>7 DEF MainLoop, SkipReload, FailEarly, BreakOff, Refuse, Unreadable
<1>8. ASSUME NEW n \in Nlri, NEW p \in Path, ApiAnnounce(n, p)
      PROVE  InSync'
  BY <1>8, <1>1 DEF ApiAnnounce, Next, Command
<1>9. ASSUME NEW n \in Nlri, ApiWithdraw(n)
      PROVE  InSync'
  BY <1>9, <1>1 DEF ApiWithdraw, Next, Command
<1>10. CASE ApiWithdrawAll
  BY <1>10, <1>1 DEF ApiWithdrawAll, Next, Command
<1>11. CASE ResetPeer
  BY <1>11, <1>1 DEF ResetPeer, Next
<1>12. ASSUME NEW e \in Enhanced, Resend(e, Family)
       PROVE  InSync'
  BY <1>12, <1>1 DEF Next, Command
<1>13. CASE Send \/ Lose
  BY <1>13, <1>1 DEF Next
<1>14. CASE UNCHANGED vars
  BY <1>14, <1>1
<1> QED
  <2>1. CASE \E s \in {"reload", "restart"} : Ask(s)
    BY <2>1, <1>14 DEF Ask
  <2>2. CASE UNCHANGED allVars
    BY <2>2, <1>14 DEF allVars
  <2> QED
    BY <2>1, <2>2, <1>5, <1>6, <1>7, <1>8, <1>9, <1>10, <1>11, <1>12, <1>13 DEF ReloadNext

\* Under Quiet and the conditions of Convergence, a peer that has nothing left to
\* send has made the remote speaker hold what the last file loaded and the
\* commands after it say, with the same two exceptions.
THEOREM FileDelivered ==
    ASSUME Quiet, ~Overwrites, ~EarlyRefresh
    PROVE  ReloadSpec => []Delivered
<1>1. ReloadInit => ReloadTypeOK /\ ReloadInv /\ InSync
  BY InitReloadType, InitReloadInv, InitInSync DEF ReloadInit
<1>2. (ReloadTypeOK /\ ReloadInv /\ InSync) /\ [ReloadNext]_allVars
        => (ReloadTypeOK /\ ReloadInv /\ InSync)'
  BY ReloadStepType, ReloadInvStep, ReloadInSync
<1>3. ReloadTypeOK /\ ReloadInv /\ InSync => Delivered
  BY InSyncConverged, CachingAssumption
     DEF Converged, Delivered, ReloadInv, Applied, ReloadTypeOK, SessionTypeOK
<1> QED
  BY <1>1, <1>2, <1>3, PTL DEF ReloadSpec

==============================================================================
