-------------------------------- MODULE Fees --------------------------------
(***************************************************************************)
(* The fee of a payment: the rules of a tenant and of the platform for one *)
(* corridor and category (modules/admin), their changes, and the lookups   *)
(* that previews and submissions make, which read one rule at a time.      *)
(*                                                                         *)
(* Definitions that are not used are wrong variants of the ones that       *)
(* follow (see Payments).                                                  *)
(***************************************************************************)
EXTENDS Integers, FiniteSets, Runs

CONSTANT Value  \* what fee_value may be, in the seed's rules 1

VARIABLES
    rules,      \* fee_configs of the tenant, then global_fee_configs
    inherited   \* history: rules that were set to inherit since they were made

vars == <<rules, reqs, inherited>>

\* The rules a corridor may have, in the order in which a lookup reads them:
\* exact, any destination and any corridor; the tenant's before the platform's.
Slot == 1..6
Tenant == 1..3

\* feeConfigSchema; of a rule's fee, its bounds are left out (see ComputeFee).
Type == {"flat", "percent"}
Rule == [active: BOOLEAN, inherit: BOOLEAN, type: Type \cup {None}, value: Value \cup {None}]

Priced(rule) == rule.type # None /\ rule.value # None

\* Answers of a lookup: a rule's place and fee, or None without any.
Answer == [slot: Slot, type: Type \cup {None}, value: Value \cup {None}] \cup {None}

Search == [at: Slot, seen: SUBSET Answer, changes: Nat]
Found == [found: Answer, seen: SUBSET Answer, changes: Nat]

ASSUME FeesAssumption ==
    /\ Requests \in Nat /\ Value \subseteq Nat \ {0} /\ 1 \in Value
    /\ None \notin Type /\ None \notin Value
    /\ {None, Over} \cap Search = {} /\ {None, Over} \cap Found = {}

TypeOK ==
    /\ rules \in [Slot -> Rule \cup {None}]
    /\ reqs \in [Request -> Search \cup Found \cup {None, Over}]
    /\ inherited \subseteq Slot

Fee(type, value) == [active |-> TRUE, inherit |-> FALSE, type |-> type, value |-> value]

\* The seeded tenant has a rule for the corridor and one for all from its
\* source currency.
Init ==
    /\ rules = [s \in Slot |-> IF s \in 1..2 THEN Fee("percent", 1) ELSE None]
    /\ reqs = [r \in Request |-> None]
    /\ inherited = {}

----------------------------------------------------------------------------
(* computeFee, in hundredths of the amount's unit; without a bound, min is  *)
(* 0 and max is None.                                                      *)

Floor(fee, min) == IF fee < 100 * min THEN 100 * min ELSE fee

Cap(fee, max) == IF max # None /\ fee > 100 * max THEN 100 * max ELSE fee

ComputeFee(type, value, min, max, amount) ==
    IF type = "flat" THEN 100 * value ELSE Cap(Floor(amount * value, min), max)

----------------------------------------------------------------------------
(* Lookups.                                                                *)

Reading(r) == reqs[r] \in Search

Applies(s) == rules[s] # None /\ rules[s].active /\ ~rules[s].inherit

AnswerOf(s) == [slot |-> s, type |-> rules[s].type, value |-> rules[s].value]

\* The fee in force: that of the most specific rule that applies, the tenant's
\* before the platform's.
InForce ==
    IF \E s \in Slot : Applies(s)
    THEN AnswerOf(CHOOSE s \in Slot : Applies(s) /\ \A t \in 1..(s - 1) : ~Applies(t))
    ELSE None

BeginLookup(r) ==
    /\ Fresh(r)
    /\ reqs' = [reqs EXCEPT ![r] = [at |-> 1, seen |-> {InForce}, changes |-> 0]]
    /\ UNCHANGED <<rules, inherited>>

End(r, answer) ==
    reqs' = [reqs EXCEPT ![r] =
               [found |-> answer, seen |-> reqs[r].seen, changes |-> reqs[r].changes]]

\* resolveFeeConfig.
ReadsInherited(r) ==
    /\ Reading(r)
    /\ LET s == reqs[r].at IN
         IF rules[s] # None /\ rules[s].active THEN End(r, AnswerOf(s))
         ELSE IF s < 6 THEN reqs' = [reqs EXCEPT ![r].at = s + 1]
         ELSE End(r, None)
    /\ UNCHANGED <<rules, inherited>>
Read(r) ==
    /\ Reading(r)
    /\ LET s == reqs[r].at IN
         IF Applies(s) THEN End(r, AnswerOf(s))
         ELSE IF s < 6 THEN reqs' = [reqs EXCEPT ![r].at = s + 1]
         ELSE End(r, None)
    /\ UNCHANGED <<rules, inherited>>

----------------------------------------------------------------------------
(* Changes.  Lookups under way notice them in their history.               *)

Change(r, s, rule) ==
    /\ Fresh(r)
    /\ rules' = [rules EXCEPT ![s] = rule]
    /\ reqs' = [q \in Request |->
         IF q = r THEN Over
         ELSE IF Reading(q)
         THEN [reqs[q] EXCEPT !.seen = @ \cup {InForce'}, !.changes = @ + 1]
         ELSE reqs[q]]

\* feeConfigSchema and the check of createFeeConfig in the controller: a rule
\* that does not inherit has a type and a value.  The unique index refuses a
\* second rule.
CreateUnchecked(r, s) ==
    /\ rules[s] = None
    /\ \E t \in Type \cup {None}, v \in Value \cup {None}, i \in BOOLEAN :
         /\ i => s \in Tenant
         /\ Change(r, s, IF i THEN [Fee(None, None) EXCEPT !.inherit = TRUE] ELSE Fee(t, v))
         /\ inherited' = IF i THEN inherited \cup {s} ELSE inherited \ {s}
Create(r, s) ==
    /\ rules[s] = None
    /\ \/ /\ \E t \in Type, v \in Value : Change(r, s, Fee(t, v))
          /\ inherited' = inherited \ {s}
       \/ /\ s \in Tenant
          /\ Change(r, s, [Fee(None, None) EXCEPT !.inherit = TRUE])
          /\ inherited' = inherited \cup {s}

\* updateFeeConfig; an absent part of the request is None.  A rule that is set
\* to inherit loses its fee; a fee may be given to a rule that goes on to
\* inherit, and inheritance ended without giving one.
Updated(rule, active, inherit, type, value) ==
    [active  |-> IF active = None THEN rule.active ELSE active,
     inherit |-> IF inherit = None THEN rule.inherit ELSE inherit,
     type    |-> IF inherit = TRUE THEN None ELSE IF type = None THEN rule.type ELSE type,
     value   |-> IF inherit = TRUE THEN None ELSE IF value = None THEN rule.value ELSE value]

Update(r, s) ==
    /\ rules[s] # None
    /\ \E a, i \in BOOLEAN \cup {None}, t \in Type \cup {None}, v \in Value \cup {None} :
         /\ i # None => s \in Tenant
         /\ <<a, i, t, v>> # <<None, None, None, None>>
         /\ Change(r, s, Updated(rules[s], a, i, t, v))
         /\ inherited' = IF i = TRUE THEN inherited \cup {s} ELSE inherited

Delete(r, s) ==
    /\ rules[s] # None
    /\ Change(r, s, None)
    /\ inherited' = inherited \ {s}

\* A process that dies ends the lookups under way.
Crash ==
    /\ \E r \in Request : Reading(r)
    /\ reqs' = [r \in Request |-> IF Reading(r) THEN Over ELSE reqs[r]]
    /\ UNCHANGED <<rules, inherited>>

Next ==
    \/ \E r \in Request :
         \/ BeginLookup(r) \/ Read(r)
         \/ \E s \in Slot : Create(r, s) \/ Update(r, s) \/ Delete(r, s)
    \/ Crash

Spec == Init /\ [][Next]_vars

----------------------------------------------------------------------------
(* Properties.                                                             *)

\* A preview or submission gets the fee of the most specific rule, as it was at
\* some moment while it read the rules, unless two changes overtook it: then it
\* may pass a rule before it is made and another before that one is removed.
FeeWasInForce ==
    \A r \in Request : reqs[r] \in Found =>
        reqs[r].found \in reqs[r].seen \/ reqs[r].changes > 1

\* A rule that applies has a type and a value, or has inherited before: without
\* a value computeFee throws or returns the string "null", and without a type it
\* takes the value for a percentage.
FeesHaveValues ==
    \A s \in Slot : rules[s] # None /\ ~rules[s].inherit /\ ~Priced(rules[s]) => s \in inherited
=============================================================================
