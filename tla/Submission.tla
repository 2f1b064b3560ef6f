----------------------------- MODULE Submission -----------------------------
(***************************************************************************)
(* POST /payments up to the row it creates: the response cache of the      *)
(* idempotency middleware, the validation of the body, the lookup by       *)
(* idempotency key, the FX quote that is read and then deleted from redis, *)
(* the checks, and the insert under the unique index (tenant_id,           *)
(* idempotency_key).  A client repeats a request under the same key, with  *)
(* any body, when it got no answer or when the cached one has expired.     *)
(* Definitions that are not used are wrong variants of the ones that       *)
(* follow (see Payments).                                                  *)
(***************************************************************************)
EXTENDS Naturals, FiniteSets, Null

CONSTANTS
    Handler,     \* requests in flight
    Key,         \* idempotency keys of one tenant
    Quote,       \* FX quote ids
    MayRefuse,   \* may beneficiary, balance or AML checks refuse
    MaxCrashes   \* bound on restarts

VARIABLES
    quotes,    \* redis fxquote:<id>
    payments,  \* table payments
    cache,     \* redis idem:<tenant>:<key>: the answer a repeat gets
    calls,     \* requests in flight
    crashes,
    \* history:
    overlapped, \* keys that two requests in flight have shared
    doubled     \* quotes that two requests have read before either deleted them

history == <<overlapped, doubled>>
vars == <<quotes, payments, cache, calls, crashes, history>>

\* 'invalid' is the refusal of the body, 'error' one by submitPayment.
Answer  == {"payment", "error", "invalid"}
Payment == [key: Key, quote: Quote]
Step    == {"validate", "find", "get", "delete", "check", "insert"} \cup Answer
Call    == [pc: Step, key: Key, quote: Quote]

ASSUME SubmissionAssumption ==
    /\ MaxCrashes \in Nat /\ MayRefuse \in BOOLEAN
    /\ None \notin Answer \cup Call

TypeOK ==
    /\ quotes \in [Quote -> {"unused", "live", "gone"}]
    /\ payments \subseteq Payment
    /\ cache \in [Key -> Answer \cup {None}]
    /\ calls \in [Handler -> Call \cup {None}]
    /\ crashes \in 0 .. MaxCrashes
    /\ overlapped \subseteq Key /\ doubled \subseteq Quote

Init ==
    /\ quotes = [q \in Quote |-> "unused"]
    /\ payments = {}
    /\ cache = [k \in Key |-> None]
    /\ calls = [h \in Handler |-> None]
    /\ crashes = 0
    /\ overlapped = {} /\ doubled = {}

Paid(k) == \E p \in payments : p.key = k

----------------------------------------------------------------------------
At(h, pc) == calls[h] # None /\ calls[h].pc = pc

GoTo(h, pc) == calls' = [calls EXCEPT ![h].pc = pc]

\* lockQuote, and the expiry of the redis key it sets.
LockQuote(q) ==
    /\ quotes[q] = "unused"
    /\ quotes' = [quotes EXCEPT ![q] = "live"]
    /\ UNCHANGED <<payments, cache, calls, crashes, history>>

QuoteExpires(q) ==
    /\ quotes[q] = "live"
    /\ quotes' = [quotes EXCEPT ![q] = "gone"]
    /\ UNCHANGED <<payments, cache, calls, crashes, history>>

\* requireIdempotencyKey; with a cached answer the request ends here.
Arrive(h) ==
    /\ calls[h] = None
    /\ \E k \in Key, q \in Quote :
         /\ cache[k] = None
         /\ calls' = [calls EXCEPT ![h] = [pc |-> "validate", key |-> k, quote |-> q]]
         /\ overlapped' = IF \E g \in Handler : calls[g] # None /\ calls[g].key = k
                          THEN overlapped \cup {k} ELSE overlapped
    /\ UNCHANGED <<quotes, payments, cache, crashes, doubled>>

\* submitPaymentSchema.validateAsync: its 400 goes through res.json as well.
Validate(h) ==
    /\ At(h, "validate")
    /\ GoTo(h, "find") \/ GoTo(h, "invalid")
    /\ UNCHANGED <<quotes, payments, cache, crashes, history>>

\* findByIdempotencyKey, then getBeneficiaryOrThrow.
NeverFinds(h) ==
    /\ At(h, "find")
    /\ GoTo(h, "get") \/ (MayRefuse /\ GoTo(h, "error"))
    /\ UNCHANGED <<quotes, payments, cache, crashes, history>>
Find(h) ==
    /\ At(h, "find")
    /\ IF Paid(calls[h].key) THEN GoTo(h, "payment")
       ELSE GoTo(h, "get") \/ (MayRefuse /\ GoTo(h, "error"))
    /\ UNCHANGED <<quotes, payments, cache, crashes, history>>

\* consumeFxQuote: GET, and later DEL.
GetQuote(h) ==
    /\ At(h, "get")
    /\ \/ /\ quotes[calls[h].quote] = "live"
          /\ GoTo(h, "delete")
          /\ doubled' = doubled \cup {q \in {calls[h].quote} :
                 \E g \in Handler : At(g, "delete") /\ calls[g].quote = q}
       \/ /\ quotes[calls[h].quote] # "live"
          /\ GoTo(h, "error")
          /\ UNCHANGED doubled
    /\ UNCHANGED <<quotes, payments, cache, crashes, overlapped>>

WritesNull(h) ==
    /\ At(h, "delete")
    /\ quotes' = [quotes EXCEPT ![calls[h].quote] = None]
    /\ GoTo(h, "check")
    /\ UNCHANGED <<payments, cache, crashes, history>>
DeleteQuote(h) ==
    /\ At(h, "delete")
    /\ quotes' = [quotes EXCEPT ![calls[h].quote] = "gone"]
    /\ GoTo(h, "check")
    /\ UNCHANGED <<payments, cache, crashes, history>>

\* Balance, AML and approval rule.
Check(h) ==
    /\ At(h, "check")
    /\ GoTo(h, "insert") \/ (MayRefuse /\ GoTo(h, "error"))
    /\ UNCHANGED <<quotes, payments, cache, crashes, history>>

\* The unique index makes the later of two inserts throw: a 500, not cached.
\* debitAccount in the same transaction may refuse it and roll it back.
InsertWithoutIndex(h) ==
    /\ At(h, "insert")
    /\ payments' = payments \cup {[key |-> calls[h].key, quote |-> calls[h].quote]}
    /\ GoTo(h, "payment")
    /\ UNCHANGED <<quotes, cache, crashes, history>>
Insert(h) ==
    /\ At(h, "insert")
    /\ \/ /\ Paid(calls[h].key)
          /\ calls' = [calls EXCEPT ![h] = None]
          /\ UNCHANGED payments
       \/ /\ ~Paid(calls[h].key)
          /\ payments' = payments \cup
                 {[key |-> calls[h].key, quote |-> calls[h].quote]}
          /\ GoTo(h, "payment")
       \/ /\ ~Paid(calls[h].key) /\ MayRefuse
          /\ GoTo(h, "error")
          /\ UNCHANGED payments
    /\ UNCHANGED <<quotes, cache, crashes, history>>

\* res.json stores what it is about to send, refusals as well as payments.
Respond(h) ==
    /\ \E a \in Answer :
         At(h, a) /\ cache' = [cache EXCEPT ![calls[h].key] = a]
    /\ calls' = [calls EXCEPT ![h] = None]
    /\ UNCHANGED <<quotes, payments, crashes, history>>

\* A cached answer lives for a day.
CacheExpires(k) ==
    /\ cache[k] # None
    /\ cache' = [cache EXCEPT ![k] = None]
    /\ UNCHANGED <<quotes, payments, calls, crashes, history>>

\* A throw that is no AppError answers 500, which is not cached.
Fail(h) ==
    /\ calls[h] # None
    /\ calls' = [calls EXCEPT ![h] = None]
    /\ UNCHANGED <<quotes, payments, cache, crashes, history>>

Crash ==
    /\ crashes < MaxCrashes
    /\ crashes' = crashes + 1
    /\ calls' = [h \in Handler |-> None]
    /\ UNCHANGED <<quotes, payments, cache, history>>

Next ==
    \/ \E q \in Quote : LockQuote(q) \/ QuoteExpires(q)
    \/ \E h \in Handler : \/ Arrive(h) \/ Validate(h) \/ Find(h) \/ GetQuote(h)
                          \/ DeleteQuote(h) \/ Check(h) \/ Insert(h)
                          \/ Respond(h) \/ Fail(h)
    \/ \E k \in Key : CacheExpires(k)
    \/ Crash

Spec == Init /\ [][Next]_vars

----------------------------------------------------------------------------
(* Properties.                                                             *)

\* A key pays once, although the lookup and the insert are far apart.  Its payment
\* has spent a quote that was live and is gone, and no other payment has spent it,
\* unless two requests read the quote before either had deleted it.
OnePaymentPerKey ==
    /\ \A p, q \in payments : p.key = q.key => p = q
    /\ \A p \in payments : quotes[p.quote] = "gone"
    /\ \A p, q \in payments : p.quote = q.quote => p = q \/ p.quote \in doubled

\* Unless two requests with the same key overlap, a repeat is never told that
\* submitPayment refused a payment that was made, whatever crashes, lost answers,
\* invalid repeats, expiry of quote and cache, and requests of other keys for the
\* same quote come between.  An 'invalid' answer says nothing of the kind: the body
\* is refused before the lookup, for a key that has paid as for any other.
CachedErrorMeansUnpaid ==
    \A k \in Key \ overlapped : cache[k] = "error" => ~Paid(k)
=============================================================================
