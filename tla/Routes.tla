------------------------------- MODULE Routes -------------------------------
(***************************************************************************)
(* The provider settings of one tenant, the route a lookup finds in them,  *)
(* and what must hold of the routes and the adapter kept from earlier      *)
(* lookups.  Routing has the actions.                                      *)
(***************************************************************************)
EXTENDS Naturals, Runs

CONSTANTS
    Currency,
    Provider   \* names a setting may hold, "manual" and "zoqq" among them

VARIABLES
    corridors, global, default, \* provider_corridor_configs, tenants
    credentials,  \* the run that wrote the Zoqq credentials, None without any
    cache,        \* redis tenant:routing:<tenant>:*
    adapter,      \* zoqqAdapterCache
    stale         \* history: cached routes a change was not to drop, or a lookup missed

\* Payments and accounts look up two currencies, quotes look up none.
Lookup == Currency \X Currency \cup {<<None, None>>}

----------------------------------------------------------------------------
(* Resolution.                                                             *)

\* The i-th setting a lookup reads: corridors of the tenant, its default, the
\* corridors of the platform.
Setting(i, l) ==
    << corridors[l], corridors[<<l[1], None>>], corridors[<<None, None>>], default,
       global[l], global[<<l[1], None>>], global[<<None, None>>] >>[i]

\* resolveProviderName: providers that are not registered fall back.
Resolved(name) == IF name = "zoqq" THEN "zoqq" ELSE "manual"

\* What a lookup finds that nothing comes between.
Route(l) ==
    LET set == {i \in 1..7 : Setting(i, l) # None}
    IN  IF set = {} THEN "manual"
        ELSE Resolved(Setting(CHOOSE i \in set : \A j \in set : i <= j, l))

----------------------------------------------------------------------------
Running(r) == reqs[r] \notin {None, Over}

At(r, pc) == Running(r) /\ reqs[r].pc = pc

\* Routes that a change is about to drop.
Pending ==
    {l \in Lookup : \E r \in Request :
       \/ At(r, "forget") \/ At(r, "list")
       \/ At(r, "delete") /\ l \in reqs[r].keys}

\* A cached route is the one the settings give, unless a change that drops it
\* is under way, a change was of a kind that does not, or a lookup was
\* overtaken.
RouteIsCurrent ==
    \A l \in Lookup : cache[l] \in {None, Route(l)} \/ l \in stale \cup Pending

\* The adapter holds the credentials saved last, from the moment their handler
\* drops the old one, unless a lookup had read those just before.
AdapterIsCurrent ==
    adapter # None => \/ adapter.credentials = credentials
                      \/ adapter.late \/ \E r \in Request : At(r, "forget")
=============================================================================
