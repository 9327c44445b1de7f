--------------------------- MODULE AdjRibOutProofs ---------------------------
(***************************************************************************)
(* Proofs about AdjRibOut, for any sets of routes, paths, attribute sets   *)
(* and families.                                                           *)
(***************************************************************************)
EXTENDS AdjRibOut, FiniteSetTheorems, TLAPS

USE PathAssumption, AttrAssumption, FamilyAssumption, CacheAssumption

------------------------------------------------------------------------------
(* The tables and orders the queue operations compute. *)

LEMMA TableOps ==
    ASSUME NEW t \in Table, NEW u \in Table, NEW S, NEW F
    PROVE  /\ Overlay(t, u) \in Table
           /\ Without(t, S) \in Table
           /\ Keys(t) \subseteq Nlri
           /\ NoRoutes \in Table
           /\ seen \in Table => cached_routes(F) \in Table
BY DEF Table, MaybePath, Overlay, Without, Keys, NoRoutes, cached_routes

LEMMA OnlyType ==
    ASSUME NEW n \in Nlri, NEW p \in Path
    PROVE  Only(n, p) \in Table
BY DEF Only, Table, MaybePath

LEMMA NewAttrsType ==
    ASSUME NEW adds \in Table
    PROVE  /\ NewAttrs(adds) \subseteq Attributes
           /\ IsFiniteSet(NewAttrs(adds))
<1>1. NewAttrs(adds) \subseteq Attributes
  BY DEF NewAttrs, Keys, Table, MaybePath
<1> QED
  BY <1>1, FiniteAssumption, FS_Subset

\* A dict that gets the new keys of a loop keeps its keys distinct.
LEMMA OrderExtension ==
    ASSUME NEW order \in Seq(Attributes), Distinct(order),
           NEW S \in SUBSET Attributes, IsFiniteSet(S),
           S \cap {order[i] : i \in DOMAIN order} = {},
           NEW ext \in Orderings(S)
    PROVE  order \o ext \in Seq(Attributes) /\ Distinct(order \o ext)
<1>1. Cardinality(S) \in Nat
  BY FS_CardinalityType
<1>2. ext \in Seq(Attributes) /\ Len(ext) = Cardinality(S) /\ Distinct(ext)
  BY <1>1 DEF Orderings
<1>3. \A i \in DOMAIN ext : ext[i] \in S
  BY <1>1 DEF Orderings
<1>4. order \o ext \in Seq(Attributes)
  BY <1>2
<1>5. ASSUME NEW i \in DOMAIN (order \o ext), NEW j \in DOMAIN (order \o ext),
             (order \o ext)[i] = (order \o ext)[j]
      PROVE  i = j
  <2>1. /\ i \in 1..(Len(order) + Len(ext))
        /\ j \in 1..(Len(order) + Len(ext))
    BY <1>2
  <2>2. CASE i <= Len(order) /\ j <= Len(order)
    BY <2>1, <2>2, <1>2, <1>5 DEF Distinct
  <2>3. CASE i > Len(order) /\ j > Len(order)
    <3>1. ext[i - Len(order)] = ext[j - Len(order)]
      BY <2>1, <2>3, <1>2, <1>5
    <3>2. i - Len(order) \in DOMAIN ext /\ j - Len(order) \in DOMAIN ext
      BY <2>1, <2>3, <1>2
    <3> QED
      BY <3>1, <3>2, <2>1, <1>2 DEF Distinct
  <2>4. CASE i <= Len(order) /\ j > Len(order)
    BY <2>1, <2>4, <1>2, <1>3, <1>5
  <2>5. CASE i > Len(order) /\ j <= Len(order)
    BY <2>1, <2>5, <1>2, <1>3, <1>5
  <2> QED
    BY <2>1, <2>2, <2>3, <2>4, <2>5, <1>2
<1> QED
  BY <1>4, <1>5 DEF Distinct

LEMMA BucketOps ==
    ASSUME NEW buckets \in [Attributes -> Table], NEW t \in Table, NEW S
    PROVE  /\ UpdateBuckets(buckets, t) \in [Attributes -> Table]
           /\ ClearBuckets(buckets, t, S) \in [Attributes -> Table]
BY DEF UpdateBuckets, ClearBuckets, Table, MaybePath

------------------------------------------------------------------------------
(* Types. *)

LEMMA ChangeType ==
    ASSUME TypeOK, NEW adds \in Table, NEW dels \in SUBSET Nlri, Change(adds, dels)
    PROVE  TypeOK'
<1>1. Overlay(new_nlri, adds) \in Table /\ Overlay(seen, adds) \in Table
  BY TableOps DEF TypeOK
<1>2. new_nlri' \in Table
  BY <1>1, TableOps DEF Change
<1>3. seen' \in Table
  <2>1. CASE Cache
    BY <2>1, <1>1, TableOps DEF Change
  <2>2. CASE ~Cache
    BY <2>2 DEF Change, TypeOK
  <2> QED BY <2>1, <2>2
<1>4. new_attr_af_nlri' \in [Attributes -> Table]
  BY <1>1, BucketOps DEF Change, TypeOK
<1>5. attr_order' \in Seq(Attributes) /\ Distinct(attr_order')
  <2>1. PICK ext \in Orderings(NewAttrs(adds)) : attr_order' = attr_order \o ext
    BY DEF Change
  <2>2. NewAttrs(adds) \cap {attr_order[i] : i \in DOMAIN attr_order} = {}
    BY DEF NewAttrs
  <2> QED
    BY <2>1, <2>2, NewAttrsType, OrderExtension DEF TypeOK
<1>6. pending_withdraws' \in SUBSET Nlri
  BY DEF Change, TypeOK
<1>7. UNCHANGED <<refresh_families, refresh_routes, sending, batch>>
  BY DEF Change
<1> QED
  BY <1>2, <1>3, <1>4, <1>5, <1>6, <1>7 DEF TypeOK

LEMMA EmptyTypes ==
    /\ NoRoutes \in Table
    /\ NoBuckets \in [Attributes -> Table]
    /\ <<>> \in Seq(Attributes) /\ Distinct(<<>>)
    /\ EmptyBatch \in Batch
BY DEF NoRoutes, NoBuckets, Table, MaybePath, EmptyBatch, Batch, Distinct

LEMMA InitType == SessionInit => SessionTypeOK
BY EmptyTypes DEF SessionInit, Init, SessionTypeOK, TypeOK

LEMMA BatchShape ==
    ASSUME batch \in Batch
    PROVE  /\ batch = [start |-> batch.start, refresh |-> batch.refresh, end |-> batch.end,
                       withdraws |-> batch.withdraws, order |-> batch.order,
                       announces |-> batch.announces]
           /\ batch.start \in SUBSET Family
           /\ batch.refresh \in SUBSET (Nlri \X Path)
           /\ batch.end \in SUBSET Family
           /\ batch.withdraws \in SUBSET Nlri
           /\ batch.order \in Seq(Attributes)
           /\ batch.announces \in [Attributes -> Table]
BY DEF Batch

LEMMA EstablishType ==
    ASSUME SessionTypeOK, NEW previous, NEW new, EstablishWith(previous, new)
    PROVE  SessionTypeOK'
<1>0. TypeOK
  BY DEF SessionTypeOK
<1>1. Keys(previous) \ Keys(new) \in SUBSET Nlri
  BY DEF Keys
<1>2. cached_routes(Family) \in Table /\ initial' \in Table
  BY <1>0, TableOps DEF TypeOK, EstablishWith
<1>3. TypeOK'
  BY <1>0, <1>1, <1>2, ChangeType DEF EstablishWith, replace_restart
<1> QED
  BY <1>2, <1>3 DEF EstablishWith, SessionTypeOK

LEMMA StepType == SessionTypeOK /\ [Next]_vars => SessionTypeOK'
<1> SUFFICES ASSUME SessionTypeOK, [Next]_vars
             PROVE  SessionTypeOK'
  OBVIOUS
<1> USE EmptyTypes
<1>0. TypeOK
  BY DEF SessionTypeOK
<1>1. ASSUME NEW n \in Nlri, NEW p \in Path, Announce(n, p)
      PROVE  SessionTypeOK'
  <2>1. TypeOK'
    BY <1>0, <1>1, OnlyType, ChangeType DEF Announce, add_to_rib
  <2>2. initial' \in Table
    BY <1>1, TableOps DEF Announce, SessionTypeOK
  <2> QED
    BY <2>1, <2>2, <1>1 DEF SessionTypeOK, Announce, sessionVars
<1>2. ASSUME NEW n \in Nlri, Withdraw(n)
      PROVE  SessionTypeOK'
  <2>1. TypeOK'
    BY <1>0, <1>2, ChangeType DEF Withdraw, del_from_rib
  <2>2. initial' \in Table
    BY <1>2, TableOps DEF Withdraw, SessionTypeOK
  <2> QED
    BY <2>1, <2>2, <1>2 DEF SessionTypeOK, Withdraw, sessionVars
<1>3. CASE WithdrawAll
  <2>1. Keys(cached_routes(Family)) \in SUBSET Nlri
    BY DEF Keys
  <2>2. TypeOK'
    BY <2>1, <1>0, <1>3, ChangeType DEF WithdrawAll, withdraw
  <2> QED
    BY <2>2, <1>3 DEF SessionTypeOK, WithdrawAll, sessionVars
<1>4. ASSUME NEW e \in Enhanced, NEW F \in SUBSET Family, Resend(e, F)
      PROVE  SessionTypeOK'
  BY <1>4 DEF Resend, resend, SessionTypeOK, TypeOK, sessionVars
<1>5. CASE StartUpdates
  BY <1>5 DEF StartUpdates, updates, ClearQueues, SessionTypeOK, TypeOK, Batch, sessionVars
<1>6. ASSUME NEW f \in Family, SendRefreshStart(f) \/ SendRefreshEnd(f)
      PROVE  SessionTypeOK'
  <2>1. batch' \in Batch
    <3>1. CASE SendRefreshStart(f)
      BY <3>1, <1>0 DEF SendRefreshStart, YieldStart, TypeOK, Batch
    <3>2. CASE SendRefreshEnd(f)
      BY <3>2, <1>0 DEF SendRefreshEnd, YieldEnd, TypeOK, Batch
    <3> QED
      BY <1>6, <3>1, <3>2
  <2>2. peer_table' \in Table
    BY <1>6 DEF SendRefreshStart, SendRefreshEnd, Sending, SessionTypeOK, Without, Table, MaybePath
  <2>3. stale' \subseteq Nlri
    BY <1>6 DEF SendRefreshStart, SendRefreshEnd, Sending, SessionTypeOK, OfFamily
  <2> QED
    BY <2>1, <2>2, <2>3, <1>6 DEF SendRefreshStart, SendRefreshEnd, Sending, queues,
                                  SessionTypeOK, TypeOK
<1>7. ASSUME NEW n \in Nlri, NEW p \in Path, SendRefresh(n, p)
      PROVE  SessionTypeOK'
  BY <1>7 DEF SendRefresh, YieldRefresh, Sending, queues, SessionTypeOK, TypeOK, Batch,
              Table, MaybePath
<1>8. ASSUME NEW n \in Nlri, SendWithdraw(n)
      PROVE  SessionTypeOK'
  BY <1>8 DEF SendWithdraw, YieldWithdraw, Sending, queues, SessionTypeOK, TypeOK, Batch,
              Table, MaybePath
<1>9. ASSUME NEW a \in Attributes, NEW M \in SUBSET Nlri, SendAnnounces(a, M)
      PROVE  SessionTypeOK'
  <2>1. batch' \in Batch
    <3>1. Without(batch.announces[a], M) \in Table
      BY <1>0, BatchShape, TableOps DEF TypeOK
    <3>2. batch' = [batch EXCEPT !.announces[a] = Without(batch.announces[a], M)]
      BY <1>9 DEF SendAnnounces, YieldAnnounces
    <3> QED
      BY <3>1, <3>2, <1>0 DEF TypeOK, Batch
  <2>2. peer_table' \in Table
    <3>1. batch.announces[a] \in Table
      BY <1>0, BatchShape DEF TypeOK
    <3> QED
      BY <3>1, <1>9 DEF SendAnnounces, Sending, SessionTypeOK, Table, MaybePath
  <2> QED
    BY <2>1, <2>2, <1>9 DEF SendAnnounces, Sending, queues, SessionTypeOK, TypeOK
<1>10. CASE FinishUpdates
  BY <1>10 DEF FinishUpdates, EndGenerator, queues, SessionTypeOK, TypeOK
<1>11. CASE SendEor
  BY <1>11 DEF SendEor, ribVars, SessionTypeOK, TypeOK
<1>12. CASE Establish
  BY <1>12, EstablishType DEF Establish
<1>13. CASE Lose
  BY <1>13 DEF Lose, EndGenerator, queues, SessionTypeOK, TypeOK
<1>14. CASE Reset
  BY <1>14 DEF Reset, reset, ClearQueues, SessionTypeOK, TypeOK
<1>15. CASE UNCHANGED vars
  BY <1>15 DEF vars, ribVars, sessionVars, SessionTypeOK, TypeOK
<1> QED
  <2>1. CASE Command
    BY <2>1, <1>1, <1>2, <1>3, <1>4 DEF Command
  <2>2. CASE Send
    BY <2>2, <1>5, <1>6, <1>7, <1>8, <1>9, <1>10, <1>11 DEF Send
  <2> QED
    BY <2>1, <2>2, <1>12, <1>13, <1>14, <1>15 DEF Next

\* Every variable of the RIB and of the session keeps its type, whatever the
\* commands, the refresh requests and the sessions do.
THEOREM TypeCorrect == Spec => []SessionTypeOK
  BY InitType, StepType, PTL DEF Spec

------------------------------------------------------------------------------
(* The remote speaker converges, when queued routes are not overwritten and  *)
(* refreshes wait for the first batch.                                       *)

NoOverwrite(adds) ==
    \A n \in Keys(adds) : new_nlri[n] # NoPath => AttrOf[new_nlri[n]] = AttrOf[adds[n]]

\* What a change of the queues does to one route, at one index of the dicts.
LEMMA ChangePointwise ==
    ASSUME TypeOK, Cache, NEW adds \in Table, NEW dels \in SUBSET Nlri, Change(adds, dels),
           NEW n \in Nlri
    PROVE  /\ new_nlri'[n] = IF n \in dels THEN NoPath
                             ELSE IF adds[n] # NoPath THEN adds[n] ELSE new_nlri[n]
           /\ seen'[n] = IF n \in dels THEN NoPath
                         ELSE IF adds[n] # NoPath THEN adds[n] ELSE seen[n]
           /\ n \in pending_withdraws' <=> n \in pending_withdraws \/ n \in dels
           /\ \A a \in Attributes :
                new_attr_af_nlri'[a][n] =
                  LET latest == IF adds[n] # NoPath THEN adds[n] ELSE new_nlri[n]
                  IN  IF n \in dels /\ latest # NoPath /\ AttrOf[latest] = a THEN NoPath
                      ELSE IF adds[n] # NoPath /\ AttrOf[adds[n]] = a THEN adds[n]
                      ELSE new_attr_af_nlri[a][n]
<1>1. new_nlri' = Without(Overlay(new_nlri, adds), dels)
  BY DEF Change
<1>2. seen' = Without(Overlay(seen, adds), dels)
  BY DEF Change
<1>3. new_attr_af_nlri' =
        ClearBuckets(UpdateBuckets(new_attr_af_nlri, adds), Overlay(new_nlri, adds), dels)
  BY DEF Change
<1>4. pending_withdraws' = pending_withdraws \cup dels
  BY DEF Change
<1> QED
  BY <1>1, <1>2, <1>3, <1>4 DEF Without, Overlay, ClearBuckets, UpdateBuckets

\* A change of the queues keeps them in line with the cache, touches each route
\* it changes in the cache, and leaves the touched routes touched.
LEMMA ChangeQueue ==
    ASSUME TypeOK, Cache, QueueInv,
           NEW adds \in Table, NEW dels \in SUBSET Nlri, Change(adds, dels), NoOverwrite(adds)
    PROVE  /\ QueueInv'
           /\ \A n \in Nlri : ~Touched(n)' => ~Touched(n) /\ seen'[n] = seen[n]
<1> USE ChangePointwise
<1>1. \A n \in Nlri : ~Touched(n)' => ~Touched(n) /\ seen'[n] = seen[n]
  BY DEF Touched
<1>2. ASSUME NEW n \in Nlri, new_nlri'[n] # NoPath
      PROVE  /\ seen'[n] = new_nlri'[n]
             /\ new_attr_af_nlri'[AttrOf[new_nlri'[n]]][n] = new_nlri'[n]
  <2>1. new_nlri'[n] \in Path /\ AttrOf[new_nlri'[n]] \in Attributes
    BY <1>2, ChangeType DEF TypeOK, Table, MaybePath
  <2>2. n \notin dels
    BY <1>2
  <2> QED
    BY <1>2, <2>1, <2>2 DEF QueueInv
<1>3. ASSUME NEW a \in Attributes, NEW n \in Nlri, new_attr_af_nlri'[a][n] # NoPath
      PROVE  new_nlri'[n] = new_attr_af_nlri'[a][n] /\ AttrOf[new_nlri'[n]] = a
  <2>1. CASE adds[n] # NoPath
    <3>1. n \in Keys(adds)
      BY <2>1 DEF Keys
    <3>2. new_nlri[n] # NoPath => AttrOf[new_nlri[n]] = AttrOf[adds[n]]
      BY <3>1 DEF NoOverwrite
    <3>3. new_attr_af_nlri[a][n] # NoPath =>
            new_nlri[n] = new_attr_af_nlri[a][n] /\ AttrOf[new_nlri[n]] = a
      BY DEF QueueInv
    <3>4. AttrOf[adds[n]] = a
      BY <2>1, <1>3, <3>2, <3>3
    <3> QED
      BY <2>1, <1>3, <3>4
  <2>2. CASE adds[n] = NoPath
    <3>1. new_attr_af_nlri[a][n] # NoPath
      BY <2>2, <1>3
    <3>2. new_nlri[n] = new_attr_af_nlri[a][n] /\ AttrOf[new_nlri[n]] = a
      BY <3>1 DEF QueueInv
    <3> QED
      BY <2>2, <1>3, <3>1, <3>2
  <2> QED
    BY <2>1, <2>2
<1>4. ASSUME NEW n \in pending_withdraws', new_nlri'[n] = NoPath
      PROVE  seen'[n] = NoPath
  <2>1. n \in Nlri
    BY ChangeType DEF TypeOK
  <2> QED
    BY <1>4, <2>1 DEF QueueInv
<1>5. ASSUME NEW r \in refresh_routes', ~Touched(r[1])'
      PROVE  seen'[r[1]] = r[2]
  <2>1. r \in refresh_routes /\ r[1] \in Nlri
    BY DEF Change, TypeOK
  <2> QED
    BY <1>5, <1>1, <2>1 DEF QueueInv
<1> QED
  BY <1>1, <1>2, <1>3, <1>4, <1>5 DEF QueueInv

LEMMA InitInSync == SessionInit => InSync
BY DEF SessionInit, Init, InSync, CoreInv, QueueInv, BatchInv, FirstBatchInv, TableInv,
       RefreshInv, Touched, Announcing, Undisturbed, EmptyBatch, NoBuckets, NoRoutes

\* A command only changes the queues and the cache.
LEMMA CommandCore ==
    ASSUME SessionTypeOK, Cache, InSync,
           NEW adds \in Table, NEW dels \in SUBSET Nlri, Change(adds, dels), NoOverwrite(adds),
           UNCHANGED sessionVars
    PROVE  CoreInv'
<1>0. TypeOK
  BY DEF SessionTypeOK
<1>1. /\ QueueInv'
      /\ \A n \in Nlri : ~Touched(n)' => ~Touched(n) /\ seen'[n] = seen[n]
  BY <1>0, ChangeQueue DEF InSync, CoreInv
<1>2. UNCHANGED <<refresh_routes, sending, batch, session, include_withdraw, peer_table, stale>>
  BY DEF Change, sessionVars
<1>3. batch.withdraws \in SUBSET Nlri /\ batch.refresh \in SUBSET (Nlri \X Path)
  BY <1>0, BatchShape DEF TypeOK
<1>4. \A n \in Nlri : Announcing(n)' = Announcing(n)
  BY <1>2 DEF Announcing
<1>5. \A n \in Nlri : Undisturbed(n)' => Undisturbed(n)
  BY <1>1, <1>2, <1>4 DEF Undisturbed
<1>6. BatchInv'
  <2>1. BatchInv
    BY DEF InSync, CoreInv
  <2>2. \A r \in batch.refresh : r[1] \in Nlri
    BY <1>3
  <2>3. \A r \in batch'.refresh : Undisturbed(r[1])' => seen'[r[1]] = r[2]
    BY <2>1, <2>2, <1>1, <1>2, <1>5 DEF BatchInv, Undisturbed
  <2>4. \A n \in batch'.withdraws : ~Touched(n)' /\ ~Announcing(n)' => seen'[n] = NoPath
    BY <2>1, <1>1, <1>2, <1>3, <1>4 DEF BatchInv
  <2>5. \A a \in Attributes, n \in Nlri :
          batch'.announces[a][n] # NoPath /\ ~Touched(n)' => batch'.announces[a][n] = seen'[n]
    BY <2>1, <1>1, <1>2 DEF BatchInv
  <2> QED
    BY <2>1, <2>3, <2>4, <2>5, <1>2 DEF BatchInv
<1>7. FirstBatchInv'
  BY <1>2 DEF InSync, CoreInv, FirstBatchInv
<1>8. TableInv'
  BY <1>1, <1>2, <1>5 DEF InSync, CoreInv, TableInv, Undisturbed
<1> QED
  BY <1>1, <1>6, <1>7, <1>8 DEF InSync, CoreInv

\* The snapshot: what the queues said, the batch now says, and nothing is
\* touched.
LEMMA StartUpdatesCore ==
    ASSUME SessionTypeOK, Cache, InSync, StartUpdates
    PROVE  CoreInv'
<1>0. TypeOK
  BY DEF SessionTypeOK
<1>1. /\ sending' = TRUE /\ session = "up" /\ batch = EmptyBatch
      /\ UNCHANGED <<seen, session, include_withdraw, peer_table>>
      /\ new_nlri' = NoRoutes /\ new_attr_af_nlri' = NoBuckets
      /\ pending_withdraws' = {} /\ refresh_routes' = {}
      /\ batch'.announces = new_attr_af_nlri
      /\ batch'.withdraws = pending_withdraws
      /\ batch'.refresh = refresh_routes
  BY DEF StartUpdates, updates, ClearQueues, sessionVars, InSync, CoreInv, BatchInv
<1>2. QueueInv'
  BY <1>1 DEF QueueInv, NoRoutes, NoBuckets
<1>3. \A n \in Nlri : ~Touched(n)'
  BY <1>1 DEF Touched, NoRoutes
<1>4. ASSUME NEW a \in Attributes, NEW n \in Nlri, new_attr_af_nlri[a][n] # NoPath
      PROVE  /\ new_attr_af_nlri[a][n] = seen[n]
             /\ AttrOf[new_attr_af_nlri[a][n]] = a
             /\ new_nlri[n] # NoPath
  BY <1>4 DEF InSync, CoreInv, QueueInv
<1>5. \A n \in Nlri : ~Announcing(n)' => new_nlri[n] = NoPath
  <2> SUFFICES ASSUME NEW n \in Nlri, new_nlri[n] # NoPath
               PROVE  Announcing(n)'
    OBVIOUS
  <2>1. AttrOf[new_nlri[n]] \in Attributes
    BY <1>0 DEF TypeOK, Table, MaybePath
  <2>2. new_attr_af_nlri[AttrOf[new_nlri[n]]][n] # NoPath
    BY DEF InSync, CoreInv, QueueInv
  <2> QED
    BY <2>1, <2>2, <1>1 DEF Announcing
<1>6. \A n \in Nlri : Undisturbed(n)' => Undisturbed(n)
  BY <1>1, <1>5 DEF Undisturbed, Touched, Announcing, EmptyBatch, NoBuckets, NoRoutes
<1>7. BatchInv'
  <2>1. \A r \in batch'.refresh : Undisturbed(r[1])' => seen'[r[1]] = r[2]
    <3>1. \A r \in refresh_routes : r[1] \in Nlri
      BY <1>0 DEF TypeOK
    <3> QED
      BY <3>1, <1>1, <1>6 DEF InSync, CoreInv, QueueInv, Undisturbed
  <2>2. \A n \in batch'.withdraws : ~Announcing(n)' => seen'[n] = NoPath
    BY <1>0, <1>1, <1>5 DEF InSync, CoreInv, QueueInv, TypeOK
  <2> QED
    BY <2>1, <2>2, <1>1, <1>4 DEF BatchInv
<1>8. FirstBatchInv'
  BY <1>1 DEF InSync, CoreInv, FirstBatchInv, BatchInv, updates, StartUpdates
<1>9. TableInv'
  BY <1>1, <1>6 DEF InSync, CoreInv, TableInv, Undisturbed
<1> QED
  BY <1>2, <1>7, <1>8, <1>9 DEF InSync, CoreInv

\* One message of the batch: the queues, the cache and the session stay, the
\* batch loses what the message says.  What is left for the caller to show is
\* what happens to the routes of the message.
LEMMA SendCore ==
    ASSUME SessionTypeOK, InSync, NEW table \in Table, Sending(table, stale', eor'), sending,
           batch' \in Batch,
           batch'.refresh \subseteq batch.refresh,
           batch'.withdraws \subseteq batch.withdraws,
           \A a \in Attributes, n \in Nlri :
             batch'.announces[a][n] # NoPath => batch'.announces[a][n] = batch.announces[a][n],
           \A n \in batch.withdraws :
             ~Announcing(n)' /\ ~Touched(n) /\ Announcing(n) => n \notin batch'.withdraws,
           \A r \in batch'.refresh :
             Undisturbed(r[1])' /\ ~Undisturbed(r[1]) => seen[r[1]] = r[2],
           \A n \in Nlri : Undisturbed(n)' => table[n] = seen[n],
           ~include_withdraw /\ batch'.withdraws # {} => table = peer_table
    PROVE  CoreInv'
<1>0. TypeOK
  BY DEF SessionTypeOK
<1>1. /\ UNCHANGED <<new_nlri, new_attr_af_nlri, pending_withdraws, refresh_routes, seen,
                     sending, session, include_withdraw>>
      /\ peer_table' = table /\ session = "up"
  BY DEF Sending, queues
<1>2. \A n \in Nlri : Touched(n)' = Touched(n)
  BY <1>1 DEF Touched
<1>3. \A n \in Nlri : Announcing(n)' => Announcing(n)
  BY DEF Announcing
<1>4. QueueInv'
  <2>1. \A r \in refresh_routes : r[1] \in Nlri
    BY <1>0 DEF TypeOK
  <2> QED
    BY <2>1, <1>1, <1>2 DEF InSync, CoreInv, QueueInv
<1>5. BatchInv'
  <2>1. \A r \in batch'.refresh : r \in batch.refresh /\ r[1] \in Nlri
    BY DEF Batch
  <2>2. \A r \in batch'.refresh : Undisturbed(r[1])' => seen'[r[1]] = r[2]
    BY <2>1, <1>1 DEF InSync, CoreInv, BatchInv
  <2>3. \A n \in batch'.withdraws : ~Touched(n)' /\ ~Announcing(n)' => seen'[n] = NoPath
    BY <1>1, <1>2 DEF InSync, CoreInv, BatchInv, Batch
  <2>4. \A a, c \in Attributes, n \in Nlri :
          batch'.announces[a][n] # NoPath /\ batch'.announces[c][n] # NoPath => a = c
    BY DEF InSync, CoreInv, BatchInv
  <2>5. \A a \in Attributes, n \in Nlri :
          batch'.announces[a][n] # NoPath /\ ~Touched(n)' => batch'.announces[a][n] = seen'[n]
    BY <1>1, <1>2 DEF InSync, CoreInv, BatchInv
  <2> QED
    BY <2>2, <2>3, <2>4, <2>5, <1>1 DEF BatchInv
<1>6. FirstBatchInv'
  BY <1>1 DEF InSync, CoreInv, FirstBatchInv
<1>7. TableInv'
  BY <1>1 DEF InSync, CoreInv, TableInv
<1> QED
  BY <1>4, <1>5, <1>6, <1>7 DEF InSync, CoreInv

\* A session comes up: all the cache holds is queued again.
LEMMA EstablishCore ==
    ASSUME Cache, SessionTypeOK, InSync, NEW previous, NEW new, EstablishWith(previous, new)
    PROVE  CoreInv'
<1> DEFINE dels == Keys(previous) \ Keys(new)
<1>0. TypeOK /\ dels \in SUBSET Nlri
  BY DEF SessionTypeOK, Keys
<1>1. /\ session = "down" /\ session' = "up" /\ ~sending
      /\ Change(cached_routes(Family), dels)
      /\ UNCHANGED <<refresh_routes, sending, batch, peer_table, stale>>
  BY DEF EstablishWith, replace_restart, Change, InSync, CoreInv, BatchInv
<1>2. cached_routes(Family) \in Table /\ \A n \in Nlri : cached_routes(Family)[n] = seen[n]
  <2>1. cached_routes(Family) \in Table
    BY <1>0, TableOps DEF TypeOK
  <2>2. \A n \in Nlri : cached_routes(Family)[n] = seen[n]
    BY FamilyAssumption DEF cached_routes
  <2> QED
    BY <2>1, <2>2
<1>3. NoOverwrite(cached_routes(Family))
  BY <1>2 DEF NoOverwrite, Keys, InSync, CoreInv, QueueInv
<1>4. QueueInv'
  BY <1>1, <1>2, <1>3, <1>0, ChangeQueue DEF InSync, CoreInv
<1>5. batch' = EmptyBatch /\ peer_table' = NoRoutes /\ refresh_routes' = {} /\ stale' = {}
  BY <1>1 DEF InSync, CoreInv, BatchInv, TableInv, FirstBatchInv
<1>6. BatchInv' /\ FirstBatchInv'
  BY <1>1, <1>5 DEF BatchInv, FirstBatchInv, EmptyBatch, NoBuckets, NoRoutes
<1>7. \A n \in Nlri : ~Touched(n)' => seen'[n] = NoPath
  <2> SUFFICES ASSUME NEW n \in Nlri, ~Touched(n)'
               PROVE  seen'[n] = NoPath
    OBVIOUS
  <2>1. n \notin pending_withdraws' /\ new_nlri'[n] = NoPath
    BY DEF Touched
  <2> QED
    BY <2>1, <1>0, <1>1, <1>2, ChangePointwise
<1>8. TableInv'
  BY <1>1, <1>5, <1>7 DEF TableInv, Undisturbed, NoRoutes
<1> QED
  BY <1>4, <1>6, <1>8 DEF CoreInv

LEMMA StepCore ==
    ASSUME Cache, ~Overwrites, ~EarlyRefresh, SessionTypeOK, InSync, [Next]_vars
    PROVE  CoreInv'
<1>0. TypeOK
  BY DEF SessionTypeOK
<1> USE EmptyTypes
<1>a. batch.announces \in [Attributes -> Table] /\ batch \in Batch /\ peer_table \in Table
  BY <1>0, BatchShape DEF TypeOK, SessionTypeOK
<1>1. ASSUME NEW n \in Nlri, NEW p \in Path, Announce(n, p)
      PROVE  CoreInv'
  <2>1. NoOverwrite(Only(n, p))
    BY <1>1 DEF Announce, NoOverwrite, Only, Keys
  <2>2. UNCHANGED sessionVars /\ Change(Only(n, p), {})
    BY <1>1 DEF Announce, add_to_rib
  <2> QED
    BY <2>1, <2>2, OnlyType, CommandCore
<1>2. ASSUME NEW n \in Nlri, Withdraw(n)
      PROVE  CoreInv'
  <2>1. NoOverwrite(NoRoutes)
    BY DEF NoOverwrite, NoRoutes, Keys
  <2>2. UNCHANGED sessionVars /\ Change(NoRoutes, {n})
    BY <1>2 DEF Withdraw, del_from_rib
  <2> QED
    BY <2>1, <2>2, CommandCore
<1>3. CASE WithdrawAll
  <2>1. NoOverwrite(NoRoutes) /\ Keys(cached_routes(Family)) \in SUBSET Nlri
    BY DEF NoOverwrite, NoRoutes, Keys
  <2>2. UNCHANGED sessionVars /\ Change(NoRoutes, Keys(cached_routes(Family)))
    BY <1>3 DEF WithdrawAll, withdraw
  <2> QED
    BY <2>1, <2>2, CommandCore
<1>4. ASSUME NEW e \in Enhanced, NEW F \in SUBSET Family, Resend(e, F)
      PROVE  CoreInv'
  <2>1. /\ session = "up" /\ include_withdraw
        /\ UNCHANGED <<new_nlri, new_attr_af_nlri, pending_withdraws, seen, sending, batch,
                       session, include_withdraw, peer_table>>
        /\ \A r \in refresh_routes' : r \in refresh_routes \/ cached_routes(F)[r[1]] = r[2]
        /\ refresh_routes' \subseteq Nlri \X Path
    BY <1>0, <1>4 DEF Resend, resend, sessionVars, TypeOK
  <2>2. \A r \in refresh_routes' : ~Touched(r[1]) => seen[r[1]] = r[2]
    BY <2>1 DEF InSync, CoreInv, QueueInv, cached_routes
  <2>3. QueueInv'
    BY <2>1, <2>2 DEF InSync, CoreInv, QueueInv, Touched
  <2>4. BatchInv' /\ TableInv'
    BY <2>1 DEF InSync, CoreInv, BatchInv, TableInv, Touched, Undisturbed, Announcing
  <2>5. FirstBatchInv'
    BY <2>1 DEF FirstBatchInv
  <2> QED
    BY <2>3, <2>4, <2>5 DEF InSync, CoreInv
<1>5. CASE StartUpdates
  BY <1>5, StartUpdatesCore
<1>6. ASSUME NEW f \in Family, SendRefreshStart(f) \/ SendRefreshEnd(f)
      PROVE  CoreInv'
  <2>1. /\ Sending(peer_table', stale', eor') /\ sending /\ session = "up"
        /\ batch'.refresh = batch.refresh
        /\ batch'.withdraws = batch.withdraws
        /\ batch'.announces = batch.announces
    BY <1>6, <1>a DEF SendRefreshStart, SendRefreshEnd, Sending, YieldStart, YieldEnd,
                      AtEnd, AtRefresh, Batch
  <2>2. batch' \in Batch /\ peer_table' \in Table
    BY <1>6, StepType, <1>a DEF Next, Send, SessionTypeOK, TypeOK
  <2>3. \A n \in Nlri : (Announcing(n)' <=> Announcing(n)) /\ (Undisturbed(n)' <=> Undisturbed(n))
    BY <2>1 DEF Announcing, Undisturbed, Touched, Sending, queues
  <2>4. \A r \in batch.refresh : r[1] \in Nlri
    BY <1>a DEF Batch
  <2>5. \A n \in Nlri : Undisturbed(n) => peer_table[n] = seen[n]
    BY <2>1 DEF InSync, CoreInv, TableInv, Sending
  <2>6. batch.withdraws \subseteq Nlri
    BY <1>a DEF Batch
  <2>7. CASE peer_table' = peer_table
    BY <2>1, <2>2, <2>3, <2>4, <2>5, <2>6, <2>7, <1>a, SendCore
  <2>8. CASE SendRefreshEnd(f)
    <3>1. batch.refresh = {} /\ peer_table' = Without(peer_table, stale \cap OfFamily(f))
      BY <2>8 DEF SendRefreshEnd, YieldEnd, AtEnd, Sending
    <3>2. \A n \in Nlri : Undisturbed(n) => peer_table'[n] = seen[n]
      BY <3>1, <2>5 DEF InSync, RefreshInv, Without
    <3>3. ~include_withdraw /\ batch.withdraws # {} => peer_table' = peer_table
      BY <2>1, <3>1 DEF InSync, CoreInv, FirstBatchInv, Without, NoRoutes
    <3> QED
      BY <2>1, <2>2, <2>3, <2>4, <3>2, <3>3, <2>6, <1>a, SendCore
  <2> QED
    BY <1>6, <2>7, <2>8 DEF SendRefreshStart, Sending
<1>7. ASSUME NEW n \in Nlri, NEW p \in Path, SendRefresh(n, p)
      PROVE  CoreInv'
  <2> DEFINE table == [peer_table EXCEPT ![n] = p]
  <2>1. /\ Sending(table, stale', eor') /\ sending /\ session = "up"
        /\ <<n, p>> \in batch.refresh
        /\ batch'.refresh = batch.refresh \ {<<n, p>>}
        /\ batch'.withdraws = batch.withdraws
        /\ batch'.announces = batch.announces
    BY <1>7, <1>a DEF SendRefresh, Sending, YieldRefresh, AtRefresh, Batch
  <2>2. batch' \in Batch
    BY <1>7, StepType, <1>a DEF Next, Send, SessionTypeOK, TypeOK
  <2>3. \A m \in Nlri : (Announcing(m)' <=> Announcing(m)) /\ (Undisturbed(m)' <=> Undisturbed(m))
    BY <2>1 DEF Announcing, Undisturbed, Touched, Sending, queues
  <2>4. \A r \in batch.refresh : r[1] \in Nlri
    BY <1>a DEF Batch
  <2>5. \A m \in Nlri : Undisturbed(m) => table[m] = seen[m]
    BY <2>1, <1>a DEF InSync, CoreInv, TableInv, BatchInv, Table
  <2>6. include_withdraw
    BY <2>1 DEF InSync, CoreInv, FirstBatchInv, SessionTypeOK
  <2>7. table \in Table
    BY <1>a DEF Table, MaybePath
  <2>8. batch.withdraws \subseteq Nlri
    BY <1>a DEF Batch
  <2> HIDE DEF table
  <2> QED
    BY <2>1, <2>2, <2>3, <2>4, <2>5, <2>6, <2>7, <2>8, SendCore
<1>8. ASSUME NEW n \in Nlri, SendWithdraw(n)
      PROVE  CoreInv'
  <2> DEFINE table == IF include_withdraw THEN [peer_table EXCEPT ![n] = NoPath] ELSE peer_table
  <2>1. /\ Sending(table, stale', eor') /\ sending /\ session = "up"
        /\ n \in batch.withdraws
        /\ batch.refresh = {} /\ batch'.refresh = {}
        /\ batch'.withdraws = batch.withdraws \ {n}
        /\ batch'.announces = batch.announces
    BY <1>8, <1>a DEF SendWithdraw, Sending, YieldWithdraw, AtWithdraws, AtEnd, AtRefresh, Batch
  <2>2. batch' \in Batch
    BY <1>8, StepType, <1>a DEF Next, Send, SessionTypeOK, TypeOK
  <2>3. \A m \in Nlri : /\ Announcing(m)' <=> Announcing(m)
                        /\ Undisturbed(m)' => Undisturbed(m) \/ (m = n /\ ~Touched(n) /\ ~Announcing(n))
    BY <2>1 DEF Announcing, Undisturbed, Touched, Sending, queues
  <2>4. ~include_withdraw => peer_table[n] = NoPath
    BY <2>1 DEF InSync, CoreInv, FirstBatchInv, NoRoutes
  <2>5. ~Touched(n) /\ ~Announcing(n) => seen[n] = NoPath
    BY <2>1 DEF InSync, CoreInv, BatchInv
  <2>6. \A m \in Nlri : Undisturbed(m) => peer_table[m] = seen[m] /\ m # n
    BY <2>1 DEF InSync, CoreInv, TableInv, Undisturbed
  <2>7. \A m \in Nlri : Undisturbed(m)' => table[m] = seen[m]
    BY <2>3, <2>4, <2>5, <2>6, <1>a DEF Table
  <2>8. table \in Table
    BY <1>a DEF Table, MaybePath
  <2>9. batch.withdraws \subseteq Nlri
    BY <1>a DEF Batch
  <2>10. ~include_withdraw => table = peer_table
    OBVIOUS
  <2> HIDE DEF table
  <2> QED
    BY <2>1, <2>2, <2>3, <2>7, <2>8, <2>9, <2>10, <1>a, SendCore
<1>9. ASSUME NEW a \in Attributes, NEW M \in SUBSET Nlri, SendAnnounces(a, M)
      PROVE  CoreInv'
  <2> DEFINE table == [n \in Nlri |-> IF n \in M THEN batch.announces[a][n] ELSE peer_table[n]]
  <2>1. /\ Sending(table, stale', eor') /\ sending /\ session = "up"
        /\ M \subseteq Keys(batch.announces[a])
        /\ batch.refresh = {} /\ batch'.refresh = {}
        /\ batch.withdraws = {} /\ batch'.withdraws = {}
        /\ batch'.announces = [batch.announces EXCEPT ![a] = Without(batch.announces[a], M)]
    BY <1>9, <1>a DEF SendAnnounces, Sending, YieldAnnounces, AtAnnounces, AtWithdraws, AtEnd,
                      AtRefresh, Batch
  <2>2. batch' \in Batch
    BY <1>9, StepType, <1>a DEF Next, Send, SessionTypeOK, TypeOK
  <2>3. \A c \in Attributes, n \in Nlri :
          batch'.announces[c][n] = IF c = a /\ n \in M THEN NoPath ELSE batch.announces[c][n]
    BY <2>1, <1>a DEF Without, Table
  <2>4. \A n \in Nlri : Undisturbed(n)' => Undisturbed(n) \/ (n \in M /\ ~Touched(n))
    BY <2>1, <2>3 DEF Announcing, Undisturbed, Touched, Sending, queues
  <2>5. \A n \in M : batch.announces[a][n] # NoPath
    BY <2>1 DEF Keys
  <2>6. \A n \in M : ~Touched(n) => batch.announces[a][n] = seen[n]
    BY <2>5 DEF InSync, CoreInv, BatchInv
  <2>7. \A n \in Nlri : Undisturbed(n) => peer_table[n] = seen[n] /\ n \notin M
    BY <2>1, <2>5 DEF InSync, CoreInv, TableInv, Undisturbed, Announcing
  <2>8. \A n \in Nlri : Undisturbed(n)' => table[n] = seen[n]
    BY <2>4, <2>6, <2>7
  <2>9. table \in Table
    BY <1>a DEF Table
  <2> HIDE DEF table
  <2> QED
    BY <2>1, <2>2, <2>3, <2>8, <2>9, SendCore
<1>10. CASE FinishUpdates
  <2>1. /\ session = "up" /\ sending' = FALSE /\ batch' = EmptyBatch /\ include_withdraw'
        /\ batch.withdraws = {}
        /\ \A a \in Attributes : Keys(batch.announces[a]) = {}
        /\ UNCHANGED <<new_nlri, new_attr_af_nlri, pending_withdraws, refresh_routes, seen,
                       session, peer_table>>
    BY <1>10 DEF FinishUpdates, EndGenerator, queues, Exhausted, AtAnnounces
  <2>2. \A n \in Nlri : Undisturbed(n)' => Undisturbed(n)
    BY <2>1 DEF Undisturbed, Touched, Announcing, Keys
  <2>3. QueueInv'
    BY <2>1 DEF InSync, CoreInv, QueueInv, Touched
  <2>4. BatchInv'
    BY <2>1 DEF BatchInv, EmptyBatch, NoBuckets, NoRoutes
  <2>5. FirstBatchInv' /\ TableInv'
    BY <2>1, <2>2 DEF InSync, CoreInv, FirstBatchInv, TableInv
  <2> QED
    BY <2>3, <2>4, <2>5 DEF InSync, CoreInv
<1>11. CASE SendEor
  BY <1>11 DEF SendEor, ribVars, InSync, CoreInv, QueueInv, BatchInv, FirstBatchInv, TableInv,
              Touched, Undisturbed, Announcing
<1>12. CASE Establish
  BY <1>12, EstablishCore DEF Establish
<1>13. CASE Lose
  <2>1. /\ session' = "closing" /\ sending' = FALSE /\ batch' = EmptyBatch
        /\ peer_table' = NoRoutes /\ stale' = {}
        /\ UNCHANGED <<new_nlri, new_attr_af_nlri, pending_withdraws, refresh_routes, seen>>
    BY <1>13 DEF Lose, EndGenerator, queues
  <2> QED
    BY <2>1 DEF InSync, CoreInv, QueueInv, BatchInv, FirstBatchInv, TableInv, Touched, EmptyBatch,
                NoBuckets, NoRoutes
<1>14. CASE Reset
  <2>1. /\ session' = "down" /\ session # "up"
        /\ new_nlri' = NoRoutes /\ new_attr_af_nlri' = NoBuckets
        /\ pending_withdraws' = {} /\ refresh_routes' = {}
        /\ UNCHANGED <<seen, sending, batch, peer_table, stale>>
    BY <1>14 DEF Reset, reset, ClearQueues
  <2>2. batch = EmptyBatch /\ ~sending /\ peer_table = NoRoutes /\ stale = {}
    BY <2>1 DEF InSync, CoreInv, BatchInv, TableInv
  <2> QED
    BY <2>1, <2>2 DEF InSync, CoreInv, QueueInv, BatchInv, FirstBatchInv, TableInv,
                      NoRoutes, NoBuckets, EmptyBatch
<1>15. CASE UNCHANGED vars
  BY <1>15 DEF vars, ribVars, sessionVars, InSync, CoreInv, QueueInv, BatchInv, FirstBatchInv,
               TableInv, Touched, Undisturbed, Announcing
<1> QED
  <2>1. CASE Command
    BY <2>1, <1>1, <1>2, <1>3, <1>4 DEF Command
  <2>2. CASE Send
    BY <2>2, <1>5, <1>6, <1>7, <1>8, <1>9, <1>10, <1>11 DEF Send
  <2> QED
    BY <2>1, <2>2, <1>12, <1>13, <1>14, <1>15 DEF Next

LEMMA ChangeRefresh ==
    ASSUME Cache, SessionTypeOK, InSync,
           NEW adds \in Table, NEW dels \in SUBSET Nlri, Change(adds, dels), stale' = stale
    PROVE  RefreshInv'
<1>0. TypeOK /\ stale \subseteq Nlri
  BY DEF SessionTypeOK
<1>1. \A n \in Nlri : ~Touched(n)' => ~Touched(n) /\ seen'[n] = seen[n]
  BY <1>0, ChangePointwise DEF Touched
<1>2. UNCHANGED <<refresh_families, refresh_routes, batch>>
  BY DEF Change
<1>3. \A n \in Nlri : Undisturbed(n)' => Undisturbed(n)
  BY <1>1, <1>2 DEF Undisturbed, Announcing
<1>4. \A n \in Nlri : Undisturbed(n)' => seen'[n] = seen[n]
  BY <1>1 DEF Undisturbed
<1> QED
  BY <1>0, <1>1, <1>2, <1>3, <1>4 DEF InSync, RefreshInv

LEMMA EstablishRefresh ==
    ASSUME Cache, SessionTypeOK, InSync, NEW previous, NEW new, EstablishWith(previous, new)
    PROVE  RefreshInv'
<1>1. Keys(previous) \ Keys(new) \in SUBSET Nlri /\ cached_routes(Family) \in Table
  BY TableOps DEF SessionTypeOK, TypeOK, Keys
<1> QED
  BY <1>1, ChangeRefresh DEF EstablishWith, replace_restart

\* The refreshes: a route that only becomes undisturbed by being sent loses its
\* mark, and a mark is only made for a family whose routes are all in the batch.
LEMMA StepRefresh ==
    ASSUME Cache, SessionTypeOK, InSync, [Next]_vars
    PROVE  RefreshInv'
<1>0. TypeOK /\ stale \subseteq Nlri
  BY DEF SessionTypeOK
<1> USE EmptyTypes
<1>a. batch \in Batch /\ peer_table \in Table
  BY <1>0 DEF TypeOK, SessionTypeOK
<1>1. ASSUME NEW n \in Nlri, NEW p \in Path, Announce(n, p)
      PROVE  RefreshInv'
  BY <1>1, ChangeRefresh, OnlyType DEF Announce, add_to_rib, sessionVars
<1>2. ASSUME NEW n \in Nlri, Withdraw(n)
      PROVE  RefreshInv'
  BY <1>2, ChangeRefresh DEF Withdraw, del_from_rib, sessionVars
<1>3. CASE WithdrawAll
  <2>1. Keys(cached_routes(Family)) \in SUBSET Nlri
    BY DEF Keys
  <2> QED
    BY <1>3, <2>1, ChangeRefresh DEF WithdrawAll, withdraw, sessionVars
<1>4. ASSUME NEW e \in Enhanced, NEW F \in SUBSET Family, Resend(e, F)
      PROVE  RefreshInv'
  <2>1. /\ UNCHANGED <<new_nlri, pending_withdraws, seen, batch, stale>>
        /\ refresh_families' \subseteq refresh_families \cup F
        /\ refresh_routes' = refresh_routes \cup
                               {r \in Nlri \X Path : cached_routes(F)[r[1]] = r[2]}
    BY <1>4 DEF Resend, resend, sessionVars
  <2>2. \A n \in Nlri : (Touched(n)' <=> Touched(n)) /\ (Undisturbed(n)' <=> Undisturbed(n))
    BY <2>1 DEF Touched, Undisturbed, Announcing
  <2>3. ASSUME NEW n \in Nlri, FamilyOf[n] \in F, seen[n] # NoPath
        PROVE  <<n, seen[n]>> \in refresh_routes'
    <3>1. seen[n] \in Path
      BY <1>0, <2>3 DEF TypeOK, Table, MaybePath
    <3> QED
      BY <3>1, <2>1, <2>3 DEF cached_routes
  <2> QED
    BY <1>0, <2>1, <2>2, <2>3 DEF InSync, RefreshInv
<1>5. CASE StartUpdates
  <2>1. /\ batch = EmptyBatch /\ UNCHANGED <<seen, stale>>
        /\ refresh_families' = {}
        /\ batch'.start = refresh_families /\ batch'.refresh = refresh_routes
        /\ batch'.announces = new_attr_af_nlri /\ batch'.withdraws = pending_withdraws
    BY <1>5 DEF StartUpdates, updates, ClearQueues, sessionVars, InSync, CoreInv, BatchInv
  <2>2. ASSUME NEW n \in Nlri, Undisturbed(n)'
        PROVE  ~Touched(n) /\ Undisturbed(n)
    <3>1. new_nlri[n] # NoPath => /\ AttrOf[new_nlri[n]] \in Attributes
                                  /\ new_attr_af_nlri[AttrOf[new_nlri[n]]][n] # NoPath
      BY <1>0 DEF InSync, CoreInv, QueueInv, TypeOK, Table, MaybePath
    <3>2. ~Touched(n)
      BY <2>1, <2>2, <3>1 DEF Undisturbed, Announcing, Touched
    <3> QED
      BY <2>1, <3>2 DEF Undisturbed, Announcing, EmptyBatch, NoBuckets, NoRoutes
  <2>3. \A n \in stale : Undisturbed(n) => seen[n] = NoPath
    BY <2>1 DEF InSync, RefreshInv, EmptyBatch
  <2> QED
    BY <1>0, <2>1, <2>2, <2>3 DEF InSync, RefreshInv
<1>c. ASSUME UNCHANGED <<queues, seen, sending>>,
             batch'.start \subseteq batch.start,
             \A n \in Nlri : FamilyOf[n] \in batch'.start \/ n \in stale' =>
                /\ Undisturbed(n)' => Undisturbed(n) \/ seen[n] = NoPath
                /\ <<n, seen[n]>> \in batch.refresh => <<n, seen[n]>> \in batch'.refresh,
             \A n \in stale' : n \in stale \/ FamilyOf[n] \in batch.start,
             stale' \subseteq Nlri
      PROVE  RefreshInv'
  <2>1. UNCHANGED <<refresh_families, refresh_routes, new_nlri, pending_withdraws, seen>>
    BY <1>c DEF queues
  <2>2. \A n \in Nlri : Touched(n)' <=> Touched(n)
    BY <2>1 DEF Touched
  <2> QED
    BY <1>c, <2>1, <2>2 DEF InSync, RefreshInv
<1>6. ASSUME NEW f \in Family, SendRefreshStart(f) \/ SendRefreshEnd(f)
      PROVE  RefreshInv'
  <2>1. /\ UNCHANGED <<queues, seen, sending>>
        /\ batch'.start \subseteq batch.start
        /\ batch'.refresh = batch.refresh
        /\ batch'.withdraws = batch.withdraws
        /\ batch'.announces = batch.announces
        /\ \A n \in stale' : n \in Nlri /\ (n \in stale \/ FamilyOf[n] \in batch.start)
    BY <1>6, <1>a, <1>0 DEF SendRefreshStart, SendRefreshEnd, Sending, YieldStart, YieldEnd,
                            AtEnd, AtRefresh, Batch, OfFamily
  <2>2. \A n \in Nlri : Undisturbed(n)' <=> Undisturbed(n)
    BY <2>1 DEF Undisturbed, Touched, Announcing, queues
  <2> QED
    BY <2>1, <2>2, <1>c
<1>7. ASSUME NEW n \in Nlri, NEW p \in Path, SendRefresh(n, p)
      PROVE  RefreshInv'
  <2>1. /\ UNCHANGED <<queues, seen, sending>>
        /\ batch.start = {} /\ batch'.start = {}
        /\ batch'.refresh = batch.refresh \ {<<n, p>>}
        /\ batch'.withdraws = batch.withdraws
        /\ batch'.announces = batch.announces
        /\ stale' = stale \ {n}
    BY <1>7, <1>a DEF SendRefresh, Sending, YieldRefresh, AtRefresh, Batch
  <2>2. \A m \in Nlri : Undisturbed(m)' <=> Undisturbed(m)
    BY <2>1 DEF Undisturbed, Touched, Announcing, queues
  <2> QED
    BY <2>1, <2>2, <1>0, <1>c
<1>8. ASSUME NEW n \in Nlri, SendWithdraw(n)
      PROVE  RefreshInv'
  <2>1. /\ UNCHANGED <<queues, seen, sending>>
        /\ batch.start = {} /\ batch'.start = {}
        /\ batch'.refresh = batch.refresh
        /\ n \in batch.withdraws
        /\ batch'.withdraws = batch.withdraws \ {n}
        /\ batch'.announces = batch.announces
        /\ stale' \subseteq stale
    BY <1>8, <1>a DEF SendWithdraw, Sending, YieldWithdraw, AtWithdraws, AtEnd, AtRefresh, Batch
  <2>2. \A m \in Nlri : Undisturbed(m)' => Undisturbed(m) \/ (m = n /\ ~Touched(n) /\ ~Announcing(n))
    BY <2>1 DEF Undisturbed, Touched, Announcing, queues
  <2>3. ~Touched(n) /\ ~Announcing(n) => seen[n] = NoPath
    BY <2>1 DEF InSync, CoreInv, BatchInv
  <2> QED
    BY <2>1, <2>2, <2>3, <1>0, <1>c
<1>9. ASSUME NEW a \in Attributes, NEW M \in SUBSET Nlri, SendAnnounces(a, M)
      PROVE  RefreshInv'
  <2>1. /\ UNCHANGED <<queues, seen, sending>>
        /\ batch.start = {} /\ batch'.start = {}
        /\ batch'.refresh = batch.refresh
        /\ batch'.withdraws = batch.withdraws
        /\ batch'.announces = [batch.announces EXCEPT ![a] = Without(batch.announces[a], M)]
        /\ stale' = stale \ M
    BY <1>9, <1>a DEF SendAnnounces, Sending, YieldAnnounces, AtAnnounces, AtWithdraws, AtEnd,
                      AtRefresh, Batch
  <2>2. batch.announces \in [Attributes -> Table]
    BY <1>a DEF Batch
  <2>3. \A m \in Nlri : m \notin M /\ Undisturbed(m)' => Undisturbed(m)
    BY <2>1, <2>2 DEF Undisturbed, Touched, Announcing, queues, Without, Table
  <2> QED
    BY <2>1, <2>3, <1>0, <1>c
<1>10. CASE FinishUpdates
  <2>1. /\ UNCHANGED <<queues, seen, stale>> /\ batch' = EmptyBatch
        /\ batch.refresh = {} /\ batch.withdraws = {}
        /\ \A c \in Attributes : Keys(batch.announces[c]) = {}
    BY <1>10 DEF FinishUpdates, EndGenerator, Exhausted, AtAnnounces, AtWithdraws, AtEnd
  <2>2. \A n \in Nlri : (Touched(n)' <=> Touched(n)) /\ (Undisturbed(n)' => Undisturbed(n))
    BY <2>1 DEF Undisturbed, Touched, Announcing, queues, Keys
  <2> QED
    BY <1>0, <2>1, <2>2 DEF InSync, RefreshInv, queues, EmptyBatch
<1>11. CASE SendEor
  BY <1>0, <1>11 DEF SendEor, ribVars, InSync, RefreshInv, Touched, Undisturbed, Announcing
<1>12. CASE Establish
  BY <1>12, EstablishRefresh DEF Establish
<1>13. CASE Lose
  BY <1>13 DEF Lose, EndGenerator, InSync, RefreshInv, queues, Touched, EmptyBatch
<1>14. CASE Reset
  <2>1. /\ refresh_families' = {} /\ UNCHANGED <<seen, batch, stale>>
        /\ new_nlri' = NoRoutes /\ pending_withdraws' = {}
    BY <1>14 DEF Reset, reset, ClearQueues
  <2>2. batch = EmptyBatch /\ stale = {}
    BY <1>14 DEF Reset, InSync, CoreInv, BatchInv, TableInv
  <2> QED
    BY <2>1, <2>2 DEF RefreshInv, EmptyBatch
<1>15. CASE UNCHANGED vars
  BY <1>0, <1>15 DEF vars, ribVars, sessionVars, InSync, RefreshInv, Touched, Undisturbed,
                     Announcing
<1> QED
  <2>1. CASE Command
    BY <2>1, <1>1, <1>2, <1>3, <1>4 DEF Command
  <2>2. CASE Send
    BY <2>2, <1>5, <1>6, <1>7, <1>8, <1>9, <1>10, <1>11 DEF Send
  <2> QED
    BY <2>1, <2>2, <1>12, <1>13, <1>14, <1>15 DEF Next

LEMMA StepInSync ==
    ASSUME Cache, ~Overwrites, ~EarlyRefresh, SessionTypeOK, InSync, [Next]_vars
    PROVE  InSync'
BY StepCore, StepRefresh DEF InSync

LEMMA InSyncConverged == TypeOK /\ peer_table \in Table /\ InSync => Converged
<1> SUFFICES ASSUME TypeOK, peer_table \in Table, InSync, Settled
             PROVE  peer_table = seen
  BY DEF Converged
<1>1. batch = EmptyBatch /\ Keys(new_nlri) = {} /\ pending_withdraws = {} /\ session = "up"
  BY DEF InSync, CoreInv, BatchInv, Settled, pending
<1>2. \A n \in Nlri : ~Touched(n)
  BY <1>1 DEF Touched, Keys
<1>3. \A n \in Nlri : ~Announcing(n) /\ n \notin batch.withdraws
  BY <1>1 DEF Announcing, EmptyBatch, NoBuckets, NoRoutes
<1>4. \A n \in Nlri : peer_table[n] = seen[n]
  BY <1>1, <1>2, <1>3 DEF InSync, CoreInv, TableInv, Undisturbed
<1>5. seen \in Table
  BY DEF TypeOK
<1> QED
  BY <1>4, <1>5 DEF Table

\* While no command queues a route again with other attributes before it is
\* sent, and none asks for a resend before the first batch of the session is
\* out, a remote speaker nothing is on its way to holds exactly the routes the
\* cache holds.
THEOREM Convergence ==
    ASSUME ~Overwrites, ~EarlyRefresh
    PROVE  Spec => []Converged
<1>1. CASE Cache
  <2>1. SessionInit => SessionTypeOK /\ InSync
    BY InitType, InitInSync
  <2>2. (SessionTypeOK /\ InSync) /\ [Next]_vars => (SessionTypeOK /\ InSync)'
    BY <1>1, StepType, StepInSync
  <2>3. SessionTypeOK /\ InSync => Converged
    BY InSyncConverged DEF SessionTypeOK
  <2> QED
    BY <2>1, <2>2, <2>3, PTL DEF Spec
<1>2. CASE ~Cache
  <2>1. Converged
    BY <1>2 DEF Converged
  <2> QED
    BY <2>1, PTL
<1> QED
  BY <1>1, <1>2

------------------------------------------------------------------------------
(* End-of-RIB. *)

\* A route of "initial" is as it was when the session came up; once the first
\* batch is on its way no queue holds it, and once it is out the batch neither.
EorInv ==
    /\ eor # {} => session = "up" /\ ~send_eor
    /\ session = "up" => \A n \in Keys(initial) :
         /\ initial[n] = seen[n]
         /\ sending => ~Touched(n)
         /\ ~send_eor => Undisturbed(n)

LEMMA EstablishEor ==
    ASSUME Cache, SessionTypeOK, InSync, EorInv, NEW previous, NEW new,
           EstablishWith(previous, new)
    PROVE  EorInv'
<1> DEFINE dels == Keys(previous) \ Keys(new)
<1>0. TypeOK /\ dels \in SUBSET Nlri
  BY DEF SessionTypeOK, Keys
<1>1. /\ session = "down" /\ session' = "up" /\ send_eor' = TRUE
      /\ initial' = Without(seen, dels) /\ Change(cached_routes(Family), dels)
      /\ UNCHANGED <<sending, eor>>
  BY DEF EstablishWith, replace_restart, Change
<1>2. cached_routes(Family) \in Table
  BY <1>0, TableOps DEF TypeOK
<1>3. \A n \in Nlri : seen'[n] = initial'[n]
  BY <1>1, <1>2, <1>0, ChangePointwise, FamilyAssumption DEF cached_routes, Without
<1>4. eor = {} /\ ~sending
  BY <1>1 DEF EorInv, InSync, CoreInv, BatchInv
<1> QED
  BY <1>1, <1>3, <1>4 DEF EorInv, Keys

LEMMA EorStep ==
    ASSUME Cache, MpUnicast = {}, SessionTypeOK, InSync, EorInv, [Next]_vars
    PROVE  EorInv'
<1>0. TypeOK /\ initial \in Table
  BY DEF SessionTypeOK
<1> USE EmptyTypes
<1>a. ASSUME NEW adds \in Table, NEW dels \in SUBSET Nlri, Change(adds, dels),
             initial' = Without(initial, Keys(adds) \cup dels), UNCHANGED sessionVars
      PROVE  EorInv'
  <2>1. \A n \in Keys(initial)' : n \in Nlri /\ n \in Keys(initial) /\ adds[n] = NoPath /\ n \notin dels
                                  /\ initial'[n] = initial[n]
    BY <1>0, <1>a DEF Keys, Without
  <2>2. \A n \in Keys(initial)' : seen'[n] = seen[n] /\ (Touched(n)' <=> Touched(n))
    BY <2>1, <1>0, <1>a, ChangePointwise DEF Touched
  <2>3. UNCHANGED <<sending, batch, session, send_eor, eor>>
    BY <1>a DEF Change, sessionVars
  <2>4. \A n \in Keys(initial)' : Undisturbed(n)' <=> Undisturbed(n)
    BY <2>2, <2>3 DEF Undisturbed, Announcing
  <2> QED
    BY <2>1, <2>2, <2>3, <2>4 DEF EorInv
<1>1. ASSUME NEW n \in Nlri, NEW p \in Path, Announce(n, p)
      PROVE  EorInv'
  <2>1. Keys(Only(n, p)) \cup {} = {n}
    BY DEF Keys, Only
  <2>2. Change(Only(n, p), {}) /\ initial' = Without(initial, {n}) /\ UNCHANGED sessionVars
    BY <1>1 DEF Announce, add_to_rib
  <2> QED
    BY <2>1, <2>2, <1>a, OnlyType
<1>2. ASSUME NEW n \in Nlri, Withdraw(n)
      PROVE  EorInv'
  <2>1. Keys(NoRoutes) \cup {n} = {n}
    BY DEF Keys, NoRoutes
  <2>2. Change(NoRoutes, {n}) /\ initial' = Without(initial, {n}) /\ UNCHANGED sessionVars
    BY <1>2 DEF Withdraw, del_from_rib
  <2> QED
    BY <2>1, <2>2, <1>a
<1>3. CASE WithdrawAll
  <2>1. Keys(initial)' = {}
    BY <1>3 DEF WithdrawAll, Keys, NoRoutes
  <2>2. UNCHANGED <<session, send_eor, eor>>
    BY <1>3 DEF WithdrawAll, sessionVars
  <2> QED
    BY <2>1, <2>2 DEF EorInv
<1>4. ASSUME NEW e \in Enhanced, NEW F \in SUBSET Family, Resend(e, F)
      PROVE  EorInv'
  BY <1>4 DEF Resend, resend, sessionVars, EorInv, Keys, Touched, Undisturbed, Announcing
<1>5. CASE StartUpdates
  <2>1. /\ ~sending /\ batch = EmptyBatch
        /\ new_nlri' = NoRoutes /\ pending_withdraws' = {}
        /\ batch'.announces = new_attr_af_nlri
        /\ batch'.withdraws = pending_withdraws
        /\ UNCHANGED <<seen, session, send_eor, eor, initial>>
    BY <1>5 DEF StartUpdates, updates, ClearQueues, sessionVars, InSync, CoreInv, BatchInv
  <2>2. \A n \in Nlri : ~Touched(n)'
    BY <2>1 DEF Touched, NoRoutes
  <2>3. \A n \in Nlri : Undisturbed(n) => Undisturbed(n)'
    BY <2>1, <2>2 DEF Undisturbed, Touched, Announcing, InSync, CoreInv, QueueInv
  <2> QED
    BY <2>1, <2>2, <2>3 DEF EorInv, Keys
<1>6. ASSUME UNCHANGED <<queues, seen, sending, session, send_eor, eor, initial>>,
             sending, batch' \in Batch,
             batch'.withdraws \subseteq batch.withdraws,
             \A a \in Attributes, n \in Nlri :
               batch'.announces[a][n] # NoPath => batch.announces[a][n] # NoPath
      PROVE  EorInv'
  BY <1>6 DEF queues, EorInv, Keys, Touched, Undisturbed, Announcing
<1>b. batch \in Batch /\ batch.announces \in [Attributes -> Table]
  BY <1>0, BatchShape DEF TypeOK
<1>7. ASSUME NEW f \in Family, SendRefreshStart(f) \/ SendRefreshEnd(f)
      PROVE  EorInv'
  <2>1. UNCHANGED <<queues, seen, sending, session, send_eor, eor, initial>>
        /\ sending /\ batch'.withdraws = batch.withdraws
        /\ batch'.announces = batch.announces
    BY <1>7, <1>b DEF SendRefreshStart, SendRefreshEnd, Sending, YieldStart, YieldEnd,
                      AtEnd, AtRefresh, Batch
  <2>2. batch' \in Batch
    BY <1>7, StepType DEF Next, Send, SessionTypeOK, TypeOK
  <2> QED
    BY <2>1, <2>2, <1>6
<1>8. ASSUME NEW n \in Nlri, NEW p \in Path, SendRefresh(n, p)
      PROVE  EorInv'
  <2>1. UNCHANGED <<queues, seen, sending, session, send_eor, eor, initial>>
        /\ sending /\ batch'.withdraws = batch.withdraws
        /\ batch'.announces = batch.announces
    BY <1>8, <1>b DEF SendRefresh, Sending, YieldRefresh, AtRefresh, Batch
  <2>2. batch' \in Batch
    BY <1>8, StepType DEF Next, Send, SessionTypeOK, TypeOK
  <2> QED
    BY <2>1, <2>2, <1>6
<1>9. ASSUME NEW n \in Nlri, SendWithdraw(n)
      PROVE  EorInv'
  <2>1. UNCHANGED <<queues, seen, sending, session, send_eor, eor, initial>>
        /\ sending /\ batch'.withdraws = batch.withdraws \ {n}
        /\ batch'.announces = batch.announces
    BY <1>9, <1>b DEF SendWithdraw, Sending, YieldWithdraw, AtWithdraws, AtEnd, AtRefresh, Batch
  <2>2. batch' \in Batch
    BY <1>9, StepType DEF Next, Send, SessionTypeOK, TypeOK
  <2> QED
    BY <2>1, <2>2, <1>6
<1>10. ASSUME NEW a \in Attributes, NEW M \in SUBSET Nlri, SendAnnounces(a, M)
      PROVE  EorInv'
  <2>1. UNCHANGED <<queues, seen, sending, session, send_eor, eor, initial>>
        /\ sending /\ batch'.withdraws = batch.withdraws
        /\ batch'.announces = [batch.announces EXCEPT ![a] = Without(batch.announces[a], M)]
    BY <1>10, <1>b DEF SendAnnounces, Sending, YieldAnnounces, AtAnnounces, AtWithdraws,
                       AtEnd, AtRefresh, Batch
  <2>2. batch' \in Batch
    BY <1>10, StepType DEF Next, Send, SessionTypeOK, TypeOK
  <2>3. \A c \in Attributes, n \in Nlri :
          batch'.announces[c][n] # NoPath => batch.announces[c][n] # NoPath
    BY <2>1, <1>b DEF Without, Table
  <2> QED
    BY <2>1, <2>2, <2>3, <1>6
<1>11. CASE FinishUpdates
  BY <1>11 DEF FinishUpdates, EndGenerator, Exhausted, AtAnnounces, AtWithdraws, AtEnd, AtRefresh,
               queues, EorInv, Keys, Touched, Undisturbed, Announcing, EmptyBatch, NoBuckets,
               NoRoutes
<1>12. CASE SendEor
  <2>1. /\ session = "up" /\ ~sending /\ batch = EmptyBatch
        /\ new_nlri \in Table /\ Keys(new_nlri) = {} /\ pending_withdraws = {}
        /\ send_eor' = FALSE
        /\ UNCHANGED <<new_nlri, pending_withdraws, seen, sending, batch, session, initial>>
    BY <1>0, <1>12 DEF SendEor, pending, ribVars, InSync, CoreInv, BatchInv, TypeOK
  <2>2. \A n \in Nlri : ~Touched(n)' /\ Undisturbed(n)'
    BY <2>1 DEF Touched, Undisturbed, Announcing, Keys, EmptyBatch, NoBuckets, NoRoutes
  <2> QED
    BY <2>1, <2>2 DEF EorInv, Keys
<1>13. CASE Establish
  BY <1>13, EstablishEor DEF Establish
<1>14. CASE Lose
  BY <1>14 DEF Lose, EorInv
<1>15. CASE Reset
  BY <1>15 DEF Reset, EorInv
<1>16. CASE UNCHANGED vars
  BY <1>16 DEF vars, ribVars, sessionVars, EorInv, Keys, Touched, Undisturbed, Announcing
<1> QED
  <2>1. CASE Command
    BY <2>1, <1>1, <1>2, <1>3, <1>4 DEF Command
  <2>2. CASE Send
    BY <2>2, <1>5, <1>7, <1>8, <1>9, <1>10, <1>11, <1>12 DEF Send
  <2> QED
    BY <2>1, <2>2, <1>13, <1>14, <1>15, <1>16 DEF Next

\* Under the same conditions, and when no family of the neighbor has its
\* withdraws encoded as MpUnicast has, the End-of-RIB of a family follows every
\* route of it that the cache held when the session came up and that no command
\* has changed since.
THEOREM EndOfRib ==
    ASSUME ~Overwrites, ~EarlyRefresh, MpUnicast = {}
    PROVE  Spec => []EorAfterInitialRoutes
<1>1. CASE Cache
  <2>1. SessionInit => SessionTypeOK /\ InSync /\ EorInv
    BY InitType, InitInSync DEF SessionInit, EorInv
  <2>2. (SessionTypeOK /\ InSync /\ EorInv) /\ [Next]_vars => (SessionTypeOK /\ InSync /\ EorInv)'
    BY <1>1, StepType, StepInSync, EorStep
  <2>3. SessionTypeOK /\ InSync /\ EorInv => EorAfterInitialRoutes
    BY DEF EorAfterInitialRoutes, EorInv, InSync, CoreInv, TableInv, Keys
  <2> QED
    BY <2>1, <2>2, <2>3, PTL DEF Spec
<1>2. CASE ~Cache
  <2>1. EorAfterInitialRoutes
    BY <1>2 DEF EorAfterInitialRoutes
  <2> QED
    BY <2>1, PTL
<1> QED
  BY <1>1, <1>2

==============================================================================
