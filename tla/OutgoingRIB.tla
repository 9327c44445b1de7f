----------------------------- MODULE OutgoingRIB -----------------------------
(***************************************************************************)
(* The outgoing RIB of one neighbor: exabgp/rib/outgoing.py on top of      *)
(* exabgp/rib/cache.py.  API commands, configuration files and received    *)
(* ROUTE-REFRESH messages fill its queues; updates() takes a snapshot of   *)
(* the queues and yields it, message by message, to the peer's task.       *)
(*                                                                         *)
(* A route index (family prefix and packed NLRI) is a member of Nlri.  A   *)
(* Path is all the rest of a Route that in_cache() compares: its attribute *)
(* set and its next-hop; AttrOf gives the attribute set, the key of        *)
(* _new_attr_af_nlri.  Every dict of the code is a function on Nlri with   *)
(* NoPath for an absent key; the insertion order of a dict is kept where   *)
(* it reaches the wire (attr_order) and left open elsewhere.               *)
(***************************************************************************)
EXTENDS Naturals, FiniteSets, Sequences

CONSTANTS Nlri,        \* route indexes
          Path,        \* (attributes, next-hop) pairs a route may carry
          NoPath,      \* "no such key"
          Attributes,  \* attribute sets, by AttributeCollection.index()
          AttrOf,      \* [Path -> Attributes]
          Family,      \* the families of the neighbor
          FamilyOf,    \* [Nlri -> Family]
          Cache        \* adj-rib-out: does the RIB remember what it announced

ASSUME PathAssumption   == NoPath \notin Path
ASSUME AttrAssumption   == AttrOf \in [Path -> Attributes]
ASSUME FamilyAssumption == FamilyOf \in [Nlri -> Family]
ASSUME CacheAssumption  == Cache \in BOOLEAN
ASSUME FiniteAssumption == IsFiniteSet(Attributes)

VARIABLES
    new_nlri,           \* _new_nlri: the latest queued route of each index
    new_attr_af_nlri,   \* _new_attr_af_nlri: queued routes by attribute set
    attr_order,         \* the insertion order of its first level
    pending_withdraws,  \* _pending_withdraws
    refresh_families,   \* _refresh_families
    refresh_routes,     \* _refresh_routes, without its order
    seen,               \* Cache._seen
    sending,            \* is an updates() generator alive
    batch               \* what that generator has left to yield

queues == <<new_nlri, new_attr_af_nlri, attr_order, pending_withdraws,
            refresh_families, refresh_routes>>
ribVars == <<new_nlri, new_attr_af_nlri, attr_order, pending_withdraws,
             refresh_families, refresh_routes, seen, sending, batch>>

MaybePath == Path \cup {NoPath}
Table     == [Nlri -> MaybePath]
NoRoutes  == [n \in Nlri |-> NoPath]
NoBuckets == [a \in Attributes |-> NoRoutes]

Batch == [start : SUBSET Family, refresh : SUBSET (Nlri \X Path),
          end : SUBSET Family, withdraws : SUBSET Nlri,
          order : Seq(Attributes), announces : [Attributes -> Table]]

EmptyBatch == [start |-> {}, refresh |-> {}, end |-> {}, withdraws |-> {},
               order |-> <<>>, announces |-> NoBuckets]

Distinct(s) == \A i, j \in DOMAIN s : s[i] = s[j] => i = j

TypeOK ==
    /\ new_nlri \in Table
    /\ new_attr_af_nlri \in [Attributes -> Table]
    /\ attr_order \in Seq(Attributes) /\ Distinct(attr_order)
    /\ pending_withdraws \in SUBSET Nlri
    /\ refresh_families \in SUBSET Family
    /\ refresh_routes \in SUBSET (Nlri \X Path)
    /\ seen \in Table
    /\ sending \in BOOLEAN
    /\ batch \in Batch

Init ==
    /\ new_nlri = NoRoutes
    /\ new_attr_af_nlri = NoBuckets
    /\ attr_order = <<>>
    /\ pending_withdraws = {}
    /\ refresh_families = {}
    /\ refresh_routes = {}
    /\ seen = NoRoutes
    /\ sending = FALSE
    /\ batch = EmptyBatch

------------------------------------------------------------------------------
(* Functions of tables. *)

Keys(t)       == {n \in Nlri : t[n] # NoPath}
Overlay(t, u) == [n \in Nlri |-> IF u[n] = NoPath THEN t[n] ELSE u[n]]
Without(t, S) == [n \in Nlri |-> IF n \in S THEN NoPath ELSE t[n]]
Only(n, p)    == [m \in Nlri |-> IF m = n THEN p ELSE NoPath]

\* What cached_routes(F) lists.
cached_routes(F) == [n \in Nlri |-> IF FamilyOf[n] \in F THEN seen[n] ELSE NoPath]

\* The orders in which a loop over a dict may meet the members of S.
Orderings(S) == {s \in [1..Cardinality(S) -> S] : Distinct(s)}

------------------------------------------------------------------------------
(* Adding and removing routes. *)

\* _update_rib: the buckets of other attribute sets are left alone.
UpdateBuckets(buckets, adds) ==
    [a \in Attributes |-> [n \in Nlri |->
        IF adds[n] # NoPath /\ AttrOf[adds[n]] = a THEN adds[n] ELSE buckets[a][n]]]

ClearBuckets_Kept(buckets, latest, dels) == buckets

\* _del_from_rib_impl: only the bucket of the latest queued route is cleared.
ClearBuckets(buckets, latest, dels) ==
    [a \in Attributes |-> [n \in Nlri |->
        IF n \in dels /\ latest[n] # NoPath /\ AttrOf[latest[n]] = a
        THEN NoPath ELSE buckets[a][n]]]

NewAttrs_All(adds) == {AttrOf[adds[n]] : n \in Keys(adds)}

\* The attribute sets that get a key of their own.
NewAttrs(adds) ==
    {AttrOf[adds[n]] : n \in Keys(adds)} \ {attr_order[i] : i \in DOMAIN attr_order}

\* A run of _update_rib over the routes of "adds", then of _del_from_rib_impl
\* over the indexes of "dels", with no await in between.
Change(adds, dels) ==
    LET latest == Overlay(new_nlri, adds)
    IN  /\ new_nlri' = Without(latest, dels)
        /\ new_attr_af_nlri' =
             ClearBuckets(UpdateBuckets(new_attr_af_nlri, adds), latest, dels)
        /\ \E ext \in Orderings(NewAttrs(adds)) : attr_order' = attr_order \o ext
        /\ pending_withdraws' = pending_withdraws \cup dels
        /\ seen' = IF Cache THEN Without(Overlay(seen, adds), dels) ELSE seen
        /\ UNCHANGED <<refresh_families, refresh_routes, sending, batch>>

in_cache(n, p) == Cache /\ seen[n] = p

\* add_to_rib(route): a route the cache already holds is dropped.
add_to_rib(n, p) == ~in_cache(n, p) /\ Change(Only(n, p), {})

\* del_from_rib(route) and del_nlri_from_rib(nlri).
del_from_rib(n) == Change(NoRoutes, {n})

\* withdraw(families): del_from_rib of every cached route.
withdraw(F) == Change(NoRoutes, Keys(cached_routes(F)))

\* replace_restart(previous, new): every cached route is queued again, and the
\* routes of "previous" that are not in "new" are removed.
replace_restart(previous, new) ==
    Change(cached_routes(Family), Keys(previous) \ Keys(new))

\* replace_reload(previous, new): routes whose index is new are added, those
\* whose index has gone are removed.
replace_reload(previous, new) ==
    Change(Without(new, Keys(previous)), Keys(previous) \ Keys(new))

resend_AllFamilies(enhanced, F) ==
    /\ refresh_families' = IF enhanced THEN Family ELSE refresh_families
    /\ refresh_routes' = refresh_routes \cup
                           {r \in Nlri \X Path : cached_routes(F)[r[1]] = r[2]}
    /\ UNCHANGED <<new_nlri, new_attr_af_nlri, attr_order, pending_withdraws,
                   seen, sending, batch>>

\* resend(enhanced, families).
resend(enhanced, F) ==
    /\ refresh_families' = IF enhanced THEN refresh_families \cup F ELSE refresh_families
    /\ refresh_routes' = refresh_routes \cup
                           {r \in Nlri \X Path : cached_routes(F)[r[1]] = r[2]}
    /\ UNCHANGED <<new_nlri, new_attr_af_nlri, attr_order, pending_withdraws,
                   seen, sending, batch>>

------------------------------------------------------------------------------
(* Draining the queues. *)

pending_NoRoutes == refresh_routes # {} \/ pending_withdraws # {}

pending == \/ Keys(new_nlri) # {}
           \/ refresh_routes # {}
           \/ pending_withdraws # {}

ClearQueues ==
    /\ new_nlri' = NoRoutes
    /\ new_attr_af_nlri' = NoBuckets
    /\ attr_order' = <<>>
    /\ pending_withdraws' = {}
    /\ refresh_families' = {}
    /\ refresh_routes' = {}

\* updates(), up to its first yield: the snapshot.
updates ==
    /\ ~sending
    /\ sending' = TRUE
    /\ batch' = [start |-> refresh_families, refresh |-> refresh_routes,
                 end |-> refresh_families, withdraws |-> pending_withdraws,
                 order |-> attr_order, announces |-> new_attr_af_nlri]
    /\ ClearQueues
    /\ UNCHANGED seen

\* The order of the yields: refresh start, refreshed routes, refresh end,
\* withdraws, announces.
AtRefresh   == sending /\ batch.start = {}
AtEnd       == AtRefresh /\ batch.refresh = {}
AtWithdraws == AtEnd /\ batch.end = {}
AtAnnounces == AtWithdraws /\ batch.withdraws = {}

YieldStart(f) ==
    /\ sending /\ f \in batch.start
    /\ batch' = [batch EXCEPT !.start = @ \ {f}]

YieldRefresh(n, p) ==
    /\ AtRefresh /\ <<n, p>> \in batch.refresh
    /\ batch' = [batch EXCEPT !.refresh = @ \ {<<n, p>>}]

YieldEnd(f) ==
    /\ AtEnd /\ f \in batch.end
    /\ batch' = [batch EXCEPT !.end = @ \ {f}]

YieldWithdraw(n) ==
    /\ AtWithdraws /\ n \in batch.withdraws
    /\ batch' = [batch EXCEPT !.withdraws = @ \ {n}]

\* The attribute set the loop over attr_af_nlri is at.
Current(a) ==
    \E i \in DOMAIN batch.order :
        /\ batch.order[i] = a
        /\ Keys(batch.announces[a]) # {}
        /\ \A j \in 1..(i-1) : Keys(batch.announces[batch.order[j]]) = {}

\* One message with the routes M of one attribute set and one family: all of
\* them when the family is grouped and they fit in a message, one or some of
\* them otherwise.
YieldAnnounces(a, M) ==
    /\ AtAnnounces /\ Current(a)
    /\ M # {} /\ M \subseteq Keys(batch.announces[a])
    /\ \A m, n \in M : FamilyOf[m] = FamilyOf[n]
    /\ batch' = [batch EXCEPT !.announces[a] = Without(@, M)]

Exhausted == AtAnnounces /\ \A a \in Attributes : Keys(batch.announces[a]) = {}

\* The generator returns, or its reference is dropped.
EndGenerator == sending' = FALSE /\ batch' = EmptyBatch

\* reset(): what is queued is thrown away.
reset == ClearQueues /\ UNCHANGED <<seen, sending, batch>>

==============================================================================
