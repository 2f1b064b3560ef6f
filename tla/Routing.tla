------------------------------ MODULE Routing ------------------------------
(***************************************************************************)
(* Which provider a payment of one tenant goes to (ProviderRouter and the  *)
(* provider settings of modules/admin): the settings, the routes cached in *)
(* redis for five minutes, and the adapter kept in the process until the   *)
(* credentials change.  Lookups and changes are runs of several steps; a   *)
(* lookup reads one setting at a time.  The settings and what a lookup     *)
(* finds in them are in Routes.                                            *)
(*                                                                         *)
(* Definitions that are not used are wrong variants of the ones that       *)
(* follow (see Payments).                                                  *)
(***************************************************************************)
EXTENDS Naturals, FiniteSets, Routes

CONSTANT Batch     \* corridors of one updateProviderConfig

VARIABLE behind    \* history: lookups that read credentials which have changed since

settings == <<corridors, global, default>>
vars == <<settings, credentials, cache, adapter, reqs, stale, behind>>

\* A missing currency stands for any.
Key == (Currency \cup {None}) \X (Currency \cup {None})

\* A lookup without a currency writes "null" for the source, a change "any".
KeyOf(l) == <<IF l[1] = None THEN "null" ELSE l[1], IF l[2] = None THEN "any" ELSE l[2]>>

DroppedBy(k) ==
    LET src == IF k[1] = None THEN "any" ELSE k[1]
        dst == IF k[2] = None THEN "any" ELSE k[2]
    IN  {l \in Lookup : KeyOf(l) \in {<<src, dst>>, <<src, "any">>}}

Credentials == 0..Requests
Adapter == [credentials: Credentials, late: BOOLEAN]
Op == {"lookup", "bust", "drop"}
Pc == {"query", "store", "connect", "set", "forget", "list", "delete"}
Run == [op: Op, pc: Pc, lookup: Lookup \cup {None}, at: 1..7,
        found: Provider \cup {None}, read: Credentials \cup {None}, keys: SUBSET Lookup]

ASSUME RoutingAssumption ==
    /\ {"manual", "zoqq"} \subseteq Provider /\ None \notin Provider \cup Currency \cup Lookup
    /\ Requests \in Nat /\ Batch \in Nat /\ None # Over /\ Over \notin Run /\ None \notin Run
    /\ None \notin Adapter /\ None \notin Credentials

TypeOK ==
    /\ corridors \in [Key -> Provider \cup {None}] /\ global \in [Key -> Provider \cup {None}]
    /\ default \in Provider \cup {None}
    /\ credentials \in Credentials \cup {None}
    /\ cache \in [Lookup -> {"manual", "zoqq", None}]
    /\ adapter \in Adapter \cup {None}
    /\ reqs \in [Request -> Run \cup {None, Over}]
    /\ stale \subseteq Lookup /\ behind \subseteq Request

\* A tenant that has Zoqq credentials and no setting yet.
Init ==
    /\ corridors = [k \in Key |-> None] /\ global = [k \in Key |-> None]
    /\ default = None /\ credentials = 0
    /\ cache = [l \in Lookup |-> None] /\ adapter = None
    /\ reqs = [r \in Request |-> None] /\ stale = {} /\ behind = {}

----------------------------------------------------------------------------
GoTo(r, pc) == reqs' = [reqs EXCEPT ![r].pc = pc]

End(r) == reqs' = [reqs EXCEPT ![r] = Over]

Begin(r, op, pc, l, found, keys) ==
    /\ Fresh(r)
    /\ reqs' = [reqs EXCEPT ![r] = [op |-> op, pc |-> pc, lookup |-> l, at |-> 1,
                                    found |-> found, read |-> None, keys |-> keys]]

\* Lookups of l that have not stored what they find.
Resolving(l) == {r \in Request : (At(r, "query") \/ At(r, "store")) /\ reqs[r].lookup = l}

\* resolveProvider.
FindCached(r) ==
    \E l \in Lookup :
      /\ cache[l] # None
      /\ Begin(r, "lookup", "connect", l, cache[l], {})
      /\ UNCHANGED <<settings, credentials, cache, adapter, stale, behind>>

MissCached(r) ==
    \E l \in Lookup :
      /\ cache[l] = None
      /\ Begin(r, "lookup", "query", l, None, {})
      /\ stale' = IF Resolving(l) = {} THEN stale \ {l} ELSE stale
      /\ UNCHANGED <<settings, credentials, cache, adapter, behind>>

Query(r) ==
    /\ At(r, "query")
    /\ LET q == reqs[r]
           name == Setting(q.at, q.lookup) IN
         reqs' = [reqs EXCEPT ![r] =
           IF name # None THEN [q EXCEPT !.pc = "store", !.found = Resolved(name)]
           ELSE IF q.at = 7 THEN [q EXCEPT !.pc = "store", !.found = "manual"]
           ELSE [q EXCEPT !.at = @ + 1]]
    /\ UNCHANGED <<settings, credentials, cache, adapter, stale, behind>>

Store(r) ==
    /\ At(r, "store")
    /\ cache' = [cache EXCEPT ![reqs[r].lookup] = reqs[r].found]
    /\ GoTo(r, "connect")
    /\ UNCHANGED <<settings, credentials, adapter, stale, behind>>

Expire(l) ==
    /\ cache[l] # None
    /\ cache' = [cache EXCEPT ![l] = None]
    /\ stale' = IF Resolving(l) = {} THEN stale \ {l} ELSE stale
    /\ UNCHANGED <<settings, credentials, adapter, reqs, behind>>

\* getZoqqAdapterForTenant: an adapter that is cached, no credentials, or an
\* adapter to be built from the credentials read.
Connect(r) ==
    /\ At(r, "connect")
    /\ IF reqs[r].found = "zoqq" /\ adapter = None /\ credentials # None
       THEN reqs' = [reqs EXCEPT ![r].pc = "set", ![r].read = credentials]
       ELSE End(r)
    /\ UNCHANGED <<settings, credentials, cache, adapter, stale, behind>>

SetAdapter(r) ==
    /\ At(r, "set")
    /\ adapter' = [credentials |-> reqs[r].read, late |-> r \in behind]
    /\ End(r)
    /\ UNCHANGED <<settings, credentials, cache, stale, behind>>

----------------------------------------------------------------------------
(* Changes.                                                                *)

\* Routes that may be out of date after a change: those it changes and will not
\* drop, and those of lookups under way.  A lookup reads one setting after the
\* other, so between two changes it may even find a route that never was one.
Missed(dropped) ==
    stale' = stale \cup {l \in Lookup :
        \/ Route(l)' # Route(l) /\ cache[l] # None /\ l \notin dropped
        \/ Resolving(l) # {}}

Upsert(rows, change) == [k \in Key |-> IF k \in DOMAIN change THEN change[k] ELSE rows[k]]

\* setDefaultProvider drops every route of the tenant.
SetDefaultProvider(r) ==
    /\ default' \in Provider \cup {None}
    /\ Begin(r, "bust", "list", None, None, {})
    /\ UNCHANGED <<corridors, global, credentials, cache, adapter, behind>>
    /\ Missed(Lookup)

\* updateProviderConfig: the key it deletes is no route's.
UpdateProviderConfig(r) ==
    /\ \E ks \in SUBSET Key :
         /\ Cardinality(ks) \in 1..Batch
         /\ \E change \in [ks -> Provider] : corridors' = Upsert(corridors, change)
    /\ Fresh(r) /\ End(r)
    /\ UNCHANGED <<global, default, credentials, cache, adapter, behind>>
    /\ Missed({})

\* addSingleCorridorConfig deletes the key of the corridor itself and the one
\* of its source, although the corridor may route other pairs too.
AddCorridor(r) ==
    \E k \in Key, p \in Provider :
      /\ corridors' = [corridors EXCEPT ![k] = p]
      /\ Begin(r, "drop", "delete", None, None, DroppedBy(k))
      /\ UNCHANGED <<global, default, credentials, cache, adapter, behind>>
      /\ Missed(DroppedBy(k))

RemoveQuietly(r) ==
    \E k \in Key :
      /\ corridors[k] # None
      /\ corridors' = [corridors EXCEPT ![k] = None]
      /\ Fresh(r) /\ End(r)
      /\ UNCHANGED <<global, default, credentials, cache, adapter, behind>>
      /\ Missed(Lookup)
RemoveCorridor(r) ==
    \E k \in Key :
      /\ corridors[k] # None
      /\ corridors' = [corridors EXCEPT ![k] = None]
      /\ Begin(r, "bust", "list", None, None, {})
      /\ UNCHANGED <<global, default, credentials, cache, adapter, behind>>
      /\ Missed(Lookup)

\* The platform's corridors; no tenant's routes are dropped.
ChangeGlobalCorridor(r) ==
    /\ \E k \in Key, p \in Provider \cup {None} :
         /\ p # None \/ global[k] # None
         /\ global' = [global EXCEPT ![k] = p]
    /\ Fresh(r) /\ End(r)
    /\ UNCHANGED <<corridors, default, credentials, cache, adapter, behind>>
    /\ Missed({})

\* setProviderCredentials; credentials of the manual provider are none.
SetProviderCredentials(r) ==
    /\ credentials' \in {r, None}
    /\ Begin(r, "bust", "forget", None, None, {})
    /\ behind' = behind \cup {q \in Request : At(q, "set")}
    /\ UNCHANGED <<settings, cache, adapter, stale>>

KeepAdapter(r) ==
    /\ At(r, "forget")
    /\ GoTo(r, "list")
    /\ UNCHANGED <<settings, credentials, cache, adapter, stale, behind>>
ForgetAdapter(r) ==
    /\ At(r, "forget")
    /\ adapter' = None
    /\ GoTo(r, "list")
    /\ UNCHANGED <<settings, credentials, cache, stale, behind>>

ListRoutes(r) ==
    /\ At(r, "list")
    /\ reqs' = [reqs EXCEPT ![r].pc = "delete", ![r].keys = {l \in Lookup : cache[l] # None}]
    /\ UNCHANGED <<settings, credentials, cache, adapter, stale, behind>>

DropRoutes(r) ==
    /\ At(r, "delete")
    /\ LET keys == reqs[r].keys IN
         /\ cache' = [l \in Lookup |-> IF l \in keys THEN None ELSE cache[l]]
         /\ stale' = {l \in stale : l \in keys => Resolving(l) # {}}
    /\ End(r)
    /\ UNCHANGED <<settings, credentials, adapter, behind>>

\* A statement of the database or of redis fails and the request with it: the
\* settings it committed stay, and so do the routes it had still to drop.
Fail(r) ==
    /\ \E pc \in {"query", "store", "connect", "list", "delete"} : At(r, pc)
    /\ End(r)
    /\ stale' = stale \cup (Pending \ Pending')
    /\ UNCHANGED <<settings, credentials, cache, adapter, behind>>

Crash ==
    /\ \E r \in Request : Running(r)
    /\ reqs' = [r \in Request |-> IF Running(r) THEN Over ELSE reqs[r]]
    /\ adapter' = None
    /\ stale' = stale \cup Pending
    /\ UNCHANGED <<settings, credentials, cache, behind>>

Goes(r) ==
    \/ Query(r) \/ Store(r) \/ Connect(r) \/ SetAdapter(r)
    \/ ForgetAdapter(r) \/ ListRoutes(r) \/ DropRoutes(r)

Next ==
    \/ \E r \in Request :
         \/ FindCached(r) \/ MissCached(r) \/ Goes(r) \/ Fail(r)
         \/ SetDefaultProvider(r) \/ UpdateProviderConfig(r) \/ AddCorridor(r)
         \/ RemoveCorridor(r) \/ ChangeGlobalCorridor(r) \/ SetProviderCredentials(r)
    \/ \E l \in Lookup : Expire(l)
    \/ Crash

Spec == Init /\ [][Next]_vars
=============================================================================
