---------------------- MODULE SubmissionClearanceProofs ---------------------
(***************************************************************************)
(* Theorems about Submission, and in its second half about Clearance (the  *)
(* instance C), for any requests, keys, quotes, amounts and crashes.       *)
(*                                                                         *)
(* The argument.  A call that is past its quote has spent it, and a quote  *)
(* that is gone stays gone (Spent); so a call that reads a live quote has  *)
(* at most rivals that have read it too and not deleted it (Rivals).  The  *)
(* index lets one payment per key in (OnePaymentPerKey).  Under a key that *)
(* no two calls have shared, a call that has not found a payment is right, *)
(* since nobody else can have made one, and an answer is cached only when  *)
(* no call is left (Alone).                                                *)
(***************************************************************************)
EXTENDS Submission, ClearanceRows, FiniteSetTheorems, WellFoundedInduction, TLAPS

Busy(h, k) == calls[h] # None /\ calls[h].key = k

Spent ==
    \A h \in Handler : At(h, "check") \/ At(h, "insert") => quotes[calls[h].quote] = "gone"

Past(h) == At(h, "delete") \/ At(h, "check") \/ At(h, "insert")

Rivals ==
    /\ \A g, h \in Handler :
         Past(g) /\ Past(h) /\ calls[g].quote = calls[h].quote =>
             g = h \/ calls[g].quote \in doubled
    /\ \A p \in payments, h \in Handler :
         Past(h) /\ calls[h].quote = p.quote => p.quote \in doubled

\* The steps of a call that has looked for a payment of its key and found none.
Sought == {"get", "delete", "check", "insert", "error"}

Shared ==
    \A g, h \in Handler, k \in Key : Busy(g, k) /\ Busy(h, k) /\ g # h => k \in overlapped

Alone ==
    \A k \in Key \ overlapped :
      /\ cache[k] = "error" => ~Paid(k)
      /\ cache[k] # None => \A h \in Handler : ~Busy(h, k)
      /\ \A h \in Handler : Busy(h, k) /\ calls[h].pc \in Sought => ~Paid(k)

IInv == TypeOK /\ Spent /\ Rivals /\ OnePaymentPerKey /\ Shared /\ Alone

LEMMA CallType ==
    ASSUME TypeOK, NEW h \in Handler, calls[h] # None
    PROVE  /\ calls[h] \in Call /\ calls[h].key \in Key /\ calls[h].quote \in Quote
           /\ calls[h].pc \in Step
BY DEF TypeOK, Call

\* A call goes on under its key and quote.
LEMMA Goes ==
    ASSUME TypeOK, NEW h \in Handler, calls[h] # None,
           NEW pc \in Step, GoTo(h, pc)
    PROVE  /\ calls' \in [Handler -> Call \cup {None}]
           /\ calls'[h] # None /\ calls'[h].pc = pc
           /\ calls'[h].key = calls[h].key /\ calls'[h].quote = calls[h].quote
           /\ \A g \in Handler \ {h} : calls'[g] = calls[g]
           /\ \A g \in Handler, k \in Key : Busy(g, k)' <=> Busy(g, k)
<1>1. [calls[h] EXCEPT !.pc = pc] \in Call
  BY CallType DEF Call
<1>2. [calls[h] EXCEPT !.pc = pc] # None
  BY <1>1, SubmissionAssumption DEF SubmissionAssumption
<1>3. /\ calls' \in [Handler -> Call \cup {None}]
      /\ calls'[h] = [calls[h] EXCEPT !.pc = pc]
      /\ \A g \in Handler \ {h} : calls'[g] = calls[g]
  BY <1>1 DEF GoTo, TypeOK
<1>4. /\ calls'[h].pc = pc /\ calls'[h].key = calls[h].key /\ calls'[h].quote = calls[h].quote
  BY <1>3, CallType DEF Call
<1> QED
  BY <1>2, <1>3, <1>4 DEF Busy

\* A call ends.
LEMMA Leaves ==
    ASSUME TypeOK, NEW h \in Handler, calls' = [calls EXCEPT ![h] = None]
    PROVE  /\ calls' \in [Handler -> Call \cup {None}]
           /\ calls'[h] = None /\ \A g \in Handler \ {h} : calls'[g] = calls[g]
           /\ \A g \in Handler, k \in Key : Busy(g, k)' <=> g # h /\ Busy(g, k)
BY DEF TypeOK, Busy

LEMMA InitIInv == Init => IInv
BY SubmissionAssumption
   DEF SubmissionAssumption, Init, IInv, TypeOK, Spent, Rivals, Past, OnePaymentPerKey, Shared,
       Alone, Paid, At, Busy

\* Steps that let calls, payments and cached answers alone.
LEMMA QuoteStep ==
    ASSUME IInv, NEW q \in Quote, LockQuote(q) \/ QuoteExpires(q)
    PROVE  IInv'
<1>1. /\ UNCHANGED <<payments, cache, calls, crashes, overlapped, doubled>>
      /\ quotes' \in [Quote -> {"unused", "live", "gone"}]
      /\ \A p \in Quote : quotes[p] = "gone" => quotes'[p] = "gone"
  BY DEF LockQuote, QuoteExpires, IInv, TypeOK, history
<1>2. Spent' /\ Rivals'
  BY <1>1, CallType DEF IInv, Spent, Rivals, Past, At
<1>3. OnePaymentPerKey'
  BY <1>1 DEF IInv, OnePaymentPerKey, TypeOK, Payment
<1>4. Shared' /\ Alone'
  BY <1>1 DEF IInv, Shared, Alone, Busy, Paid
<1> QED
  BY <1>1, <1>2, <1>3, <1>4 DEF IInv, TypeOK

LEMMA ArriveStep ==
    ASSUME IInv, NEW h \in Handler, Arrive(h)
    PROVE  IInv'
<1> PICK k \in Key, q \in Quote :
      /\ cache[k] = None
      /\ calls' = [calls EXCEPT ![h] = [pc |-> "validate", key |-> k, quote |-> q]]
      /\ overlapped' = IF \E g \in Handler : calls[g] # None /\ calls[g].key = k
                       THEN overlapped \cup {k} ELSE overlapped
  BY DEF Arrive
<1>1. calls[h] = None /\ UNCHANGED <<quotes, payments, cache, crashes, doubled>>
  BY DEF Arrive
<1>2. [pc |-> "validate", key |-> k, quote |-> q] \in Call
  BY DEF Call, Step
<1>3. /\ calls' \in [Handler -> Call \cup {None}]
      /\ calls'[h] = [pc |-> "validate", key |-> k, quote |-> q] /\ calls'[h] # None
      /\ \A g \in Handler \ {h} : calls'[g] = calls[g]
  BY <1>2, SubmissionAssumption DEF SubmissionAssumption, IInv, TypeOK
<1>4. overlapped \subseteq overlapped' /\ overlapped' \subseteq Key
  BY DEF IInv, TypeOK
<1>5. TypeOK'
  BY <1>1, <1>3, <1>4 DEF IInv, TypeOK
<1>6. Spent' /\ Rivals' /\ OnePaymentPerKey'
  <2>1. \A g \in Handler : Past(g)' => g # h /\ Past(g)
    BY <1>3 DEF Past, At
  <2>2. Rivals'
    BY <1>1, <1>3, <2>1 DEF IInv, Rivals
  <2> QED
    BY <1>1, <1>3, <2>2 DEF IInv, Spent, OnePaymentPerKey, At
<1>7. /\ \A g \in Handler \ {h}, l \in Key : Busy(g, l)' <=> Busy(g, l)
      /\ \A l \in Key : Busy(h, l)' <=> l = k
  BY <1>3 DEF Busy
<1>8. \A g \in Handler : Busy(g, k) => k \in overlapped'
  BY DEF Busy
<1>9. Shared'
  BY <1>4, <1>7, <1>8 DEF IInv, Shared
<1>10. Alone'
  <2> SUFFICES ASSUME NEW l \in Key \ overlapped'
               PROVE  /\ cache'[l] = "error" => ~Paid(l)'
                      /\ cache'[l] # None => \A g \in Handler : ~Busy(g, l)'
                      /\ \A g \in Handler : Busy(g, l)' /\ calls'[g].pc \in Sought
                           => ~Paid(l)'
    BY DEF Alone
  <2>1. l \in Key \ overlapped
    BY <1>4
  <2>2. Paid(l)' = Paid(l)
    BY <1>1 DEF Paid
  <2>3. cache'[l] # None => \A g \in Handler : ~Busy(g, l)'
    BY <1>1, <1>7, <2>1 DEF IInv, Alone
  <2>4. \A g \in Handler : Busy(g, l)' /\ calls'[g].pc \in Sought => ~Paid(l)'
    BY <1>3, <1>7, <2>1, <2>2 DEF IInv, Alone, Sought
  <2> QED
    BY <1>1, <2>1, <2>2, <2>3, <2>4 DEF IInv, Alone
<1> QED
  BY <1>5, <1>6, <1>9, <1>10 DEF IInv

\* A call goes to another place without a write to the table or the cache.
LEMMA MoveStep ==
    ASSUME IInv, NEW h \in Handler, calls[h] # None,
           NEW pc \in Step, GoTo(h, pc),
           UNCHANGED <<payments, cache, crashes, overlapped>>,
           doubled \subseteq doubled', doubled' \subseteq Quote,
           pc \in {"delete", "check", "insert"} =>
               \/ Past(h)
               \/ /\ \A g \in Handler : Past(g) /\ calls[g].quote = calls[h].quote =>
                        calls[h].quote \in doubled'
                  /\ \A p \in payments : p.quote # calls[h].quote,
           quotes' \in [Quote -> {"unused", "live", "gone"}],
           \A q \in Quote : quotes[q] = "gone" => quotes'[q] = "gone",
           pc \in {"check", "insert"} => quotes'[calls[h].quote] = "gone",
           pc \in Sought => calls[h].pc \in Sought \/ ~Paid(calls[h].key)
    PROVE  IInv'
<1>1. /\ calls' \in [Handler -> Call \cup {None}]
      /\ calls'[h] # None /\ calls'[h].pc = pc
      /\ calls'[h].key = calls[h].key /\ calls'[h].quote = calls[h].quote
      /\ \A g \in Handler \ {h} : calls'[g] = calls[g]
      /\ \A g \in Handler, k \in Key : Busy(g, k)' <=> Busy(g, k)
  BY Goes DEF IInv
<1>2. TypeOK'
  BY <1>1 DEF IInv, TypeOK
<1>3. Spent'
  <2> SUFFICES ASSUME NEW g \in Handler, At(g, "check")' \/ At(g, "insert")'
               PROVE  quotes'[calls'[g].quote] = "gone"
    BY DEF Spent
  <2>1. CASE g = h
    BY <1>1, <2>1 DEF At
  <2>2. CASE g # h
    BY <1>1, <2>2, CallType DEF IInv, Spent, At
  <2> QED
    BY <2>1, <2>2
<1>4. OnePaymentPerKey'
  BY DEF IInv, OnePaymentPerKey, TypeOK, Payment
<1>5. Shared'
  BY <1>1 DEF IInv, Shared
<1>7. Rivals'
  <2>1. \A g \in Handler : calls'[g].quote = calls[g].quote
    BY <1>1
  <2>2. \A g \in Handler \ {h} : Past(g)' <=> Past(g)
    BY <1>1 DEF Past, At
  <2>3. Past(h)' => pc \in {"delete", "check", "insert"}
    BY <1>1 DEF Past, At
  <2>4. ASSUME NEW f \in Handler, NEW g \in Handler, Past(f)', Past(g)',
               calls[f].quote = calls[g].quote, f # g
        PROVE  calls[f].quote \in doubled'
    <3>1. CASE f # h /\ g # h
      BY <2>2, <2>4, <3>1 DEF IInv, Rivals
    <3>2. CASE f = h
      BY <2>2, <2>3, <2>4, <3>2 DEF IInv, Rivals
    <3>3. CASE g = h
      BY <2>2, <2>3, <2>4, <3>3 DEF IInv, Rivals
    <3> QED
      BY <3>1, <3>2, <3>3
  <2>5. ASSUME NEW p \in payments, NEW g \in Handler, Past(g)', calls[g].quote = p.quote
        PROVE  p.quote \in doubled'
    <3>1. CASE g # h
      BY <2>2, <2>5, <3>1 DEF IInv, Rivals
    <3>2. CASE g = h
      BY <2>3, <2>5, <3>2 DEF IInv, Rivals
    <3> QED
      BY <3>1, <3>2
  <2> QED
    BY <2>1, <2>4, <2>5 DEF Rivals
<1>6. Alone'
  <2> SUFFICES ASSUME NEW k \in Key \ overlapped
               PROVE  /\ cache[k] = "error" => ~Paid(k)'
                      /\ cache[k] # None => \A g \in Handler : ~Busy(g, k)'
                      /\ \A g \in Handler : Busy(g, k)' /\ calls'[g].pc \in Sought
                           => ~Paid(k)'
    BY DEF Alone
  <2>1. Paid(k)' = Paid(k)
    BY DEF Paid
  <2>2. ASSUME NEW g \in Handler, Busy(g, k)', calls'[g].pc \in Sought
        PROVE  ~Paid(k)
    <3>1. CASE g = h
      BY <1>1, <2>2, <3>1 DEF IInv, Alone, Busy
    <3>2. CASE g # h
      BY <1>1, <2>2, <3>2 DEF IInv, Alone
    <3> QED
      BY <3>1, <3>2
  <2> QED
    BY <1>1, <2>1, <2>2 DEF IInv, Alone
<1> QED
  BY <1>2, <1>3, <1>4, <1>5, <1>6, <1>7 DEF IInv

LEMMA HandlerStep ==
    ASSUME IInv, NEW h \in Handler,
           Validate(h) \/ Find(h) \/ GetQuote(h) \/ DeleteQuote(h) \/ Check(h)
    PROVE  IInv'
<1>0. TypeOK /\ Spent /\ quotes \in [Quote -> {"unused", "live", "gone"}] /\ doubled \subseteq Quote
  BY DEF IInv, TypeOK
<1>5. CASE Validate(h)
  <2>1. /\ calls[h] # None /\ UNCHANGED <<quotes, payments, cache, crashes, overlapped, doubled>>
        /\ GoTo(h, "find") \/ GoTo(h, "invalid")
    BY <1>5 DEF Validate, At, history
  <2>2. CASE GoTo(h, "find")
    BY <1>0, <2>1, <2>2, MoveStep DEF Answer, Step, Sought
  <2>3. CASE GoTo(h, "invalid")
    BY <1>0, <2>1, <2>3, MoveStep DEF Answer, Step, Sought
  <2> QED
    BY <2>1, <2>2, <2>3
<1>1. CASE Find(h)
  <2>1. /\ calls[h] # None /\ UNCHANGED <<quotes, payments, cache, crashes, overlapped, doubled>>
        /\ \/ GoTo(h, "payment")
           \/ ~Paid(calls[h].key) /\ (GoTo(h, "get") \/ GoTo(h, "error"))
    BY <1>1 DEF Find, At, history
  <2>2. CASE GoTo(h, "payment")
    BY <1>0, <2>1, <2>2, MoveStep DEF Answer, Step, Sought
  <2>3. CASE ~Paid(calls[h].key) /\ GoTo(h, "get")
    BY <1>0, <2>1, <2>3, MoveStep DEF Answer, Step, Sought
  <2>4. CASE ~Paid(calls[h].key) /\ GoTo(h, "error")
    BY <1>0, <2>1, <2>4, MoveStep DEF Answer, Step, Sought
  <2> QED
    BY <2>1, <2>2, <2>3, <2>4
<1>2. CASE GetQuote(h)
  <2>1. /\ calls[h] # None /\ calls[h].pc = "get" /\ calls[h].quote \in Quote
        /\ UNCHANGED <<quotes, payments, cache, crashes, overlapped>>
    BY <1>0, <1>2, CallType DEF GetQuote, At
  <2>2. CASE /\ quotes[calls[h].quote] = "live" /\ GoTo(h, "delete")
             /\ doubled' = doubled \cup {q \in {calls[h].quote} :
                    \E g \in Handler : At(g, "delete") /\ calls[g].quote = q}
    <3>1. ASSUME NEW g \in Handler, Past(g), calls[g].quote = calls[h].quote
          PROVE  calls[h].quote \in doubled'
      <4>1. At(g, "delete")
        BY <1>0, <2>2, <3>1 DEF Past, Spent
      <4> QED
        BY <2>2, <3>1, <4>1
    <3>2. \A p \in payments : p.quote # calls[h].quote
      BY <2>2 DEF IInv, OnePaymentPerKey
    <3>3. doubled \subseteq doubled' /\ doubled' \subseteq Quote
      BY <1>0, <2>1, <2>2
    <3>4. "delete" \in Step /\ "get" \in Sought
      BY DEF Step, Sought
    <3> QED
      BY <1>0, <2>1, <2>2, <3>1, <3>2, <3>3, <3>4, MoveStep
  <2>3. CASE GoTo(h, "error") /\ UNCHANGED doubled
    BY <1>0, <2>1, <2>3, MoveStep DEF Answer, Step, Sought
  <2> QED
    BY <1>2, <2>2, <2>3 DEF GetQuote
<1>3. CASE DeleteQuote(h)
  <2>1. /\ calls[h] # None /\ calls[h].pc = "delete" /\ GoTo(h, "check")
        /\ UNCHANGED <<payments, cache, crashes, overlapped, doubled>>
        /\ quotes' = [quotes EXCEPT ![calls[h].quote] = "gone"]
    BY <1>3 DEF DeleteQuote, At, history
  <2>2. calls[h].quote \in Quote
    BY <1>0, <2>1, CallType
  <2>3. /\ quotes' \in [Quote -> {"unused", "live", "gone"}]
        /\ \A q \in Quote : quotes[q] = "gone" => quotes'[q] = "gone"
        /\ quotes'[calls[h].quote] = "gone"
    BY <1>0, <2>1, <2>2 DEF TypeOK
  <2>4. Past(h)
    BY <1>3 DEF DeleteQuote, Past
  <2> QED
    BY <1>0, <2>1, <2>3, <2>4, MoveStep DEF Step, Sought
<1>4. CASE Check(h)
  <2>1. /\ calls[h] # None /\ calls[h].pc = "check"
        /\ UNCHANGED <<quotes, payments, cache, crashes, overlapped, doubled>>
        /\ GoTo(h, "insert") \/ GoTo(h, "error")
    BY <1>4 DEF Check, At, history
  <2>2. quotes[calls[h].quote] = "gone" /\ Past(h)
    BY <1>0, <2>1 DEF Spent, At, Past
  <2>3. CASE GoTo(h, "insert")
    BY <1>0, <2>1, <2>2, <2>3, MoveStep DEF Step, Sought
  <2>4. CASE GoTo(h, "error")
    BY <1>0, <2>1, <2>2, <2>4, MoveStep DEF Answer, Step, Sought
  <2> QED
    BY <2>1, <2>3, <2>4
<1> QED
  BY <1>1, <1>2, <1>3, <1>4, <1>5

\* A call that ends without an answer of its own.
LEMMA GoneStep ==
    ASSUME IInv, NEW h \in Handler, calls' = [calls EXCEPT ![h] = None],
           UNCHANGED <<quotes, payments, cache, crashes, overlapped, doubled>>
    PROVE  IInv'
<1>1. /\ calls' \in [Handler -> Call \cup {None}]
      /\ calls'[h] = None /\ \A g \in Handler \ {h} : calls'[g] = calls[g]
      /\ \A g \in Handler, l \in Key : Busy(g, l)' <=> g # h /\ Busy(g, l)
  BY Leaves DEF IInv
<1>2. TypeOK'
  BY <1>1 DEF IInv, TypeOK
<1>3. Spent' /\ Rivals' /\ OnePaymentPerKey' /\ Shared'
  BY <1>1 DEF IInv, Spent, Rivals, Past, OnePaymentPerKey, Shared, At
<1>4. Alone'
  BY <1>1 DEF IInv, Alone, Paid
<1> QED
  BY <1>2, <1>3, <1>4 DEF IInv

\* The index lets one insert in; a later one ends in an error.
LEMMA InsertStep ==
    ASSUME IInv, NEW h \in Handler, Insert(h)
    PROVE  IInv'
<1> DEFINE k == calls[h].key
<1> DEFINE p == [key |-> calls[h].key, quote |-> calls[h].quote]
<1>0. /\ TypeOK /\ calls[h] # None /\ calls[h].pc = "insert" /\ calls[h].key \in Key
      /\ UNCHANGED <<quotes, cache, crashes, overlapped, doubled>>
  BY CallType DEF IInv, Insert, At, history
<1>1. CASE calls' = [calls EXCEPT ![h] = None] /\ UNCHANGED payments
  BY <1>0, <1>1, GoneStep
<1>2. CASE ~Paid(calls[h].key) /\ payments' = payments \cup {p} /\ GoTo(h, "payment")
  <2>1. /\ calls' \in [Handler -> Call \cup {None}]
        /\ calls'[h] # None /\ calls'[h].pc = "payment"
        /\ calls'[h].key = calls[h].key /\ calls'[h].quote = calls[h].quote
        /\ \A g \in Handler \ {h} : calls'[g] = calls[g]
        /\ \A g \in Handler, l \in Key : Busy(g, l)' <=> Busy(g, l)
    BY <1>0, <1>2, Goes DEF Answer, Step
  <2>2. p \in Payment /\ quotes[p.quote] = "gone"
    BY <1>0, CallType DEF Payment, IInv, Spent, At
  <2>3. TypeOK'
    BY <1>0, <1>2, <2>1, <2>2 DEF TypeOK
  <2>4. OnePaymentPerKey'
    <3>1. Past(h) /\ calls[h].quote = p.quote
      BY <1>0 DEF Past, At
    <3>2. \A q \in payments : q.quote = p.quote => q.quote \in doubled
      BY <3>1 DEF IInv, Rivals
    <3>3. \A q \in payments : q.key # p.key
      BY <1>2 DEF Paid
    <3> QED
      BY <1>0, <1>2, <2>2, <3>2, <3>3 DEF IInv, OnePaymentPerKey
  <2>5. Spent' /\ Shared'
    BY <1>0, <2>1 DEF IInv, Spent, Shared, At
  <2>8. Rivals'
    <3>1. \A g \in Handler : Past(g)' => g # h /\ Past(g) /\ calls'[g] = calls[g]
      BY <2>1 DEF Past, At
    <3>2. Past(h) /\ calls[h].quote = p.quote
      BY <1>0 DEF Past, At
    <3>3. \A g \in Handler : Past(g) /\ calls[g].quote = p.quote /\ g # h => p.quote \in doubled
      BY <3>2 DEF IInv, Rivals
    <3> QED
      BY <1>0, <1>2, <3>1, <3>3 DEF IInv, Rivals
  <2>6. ASSUME NEW l \in Key \ overlapped
        PROVE  /\ cache'[l] = "error" => ~Paid(l)'
               /\ cache'[l] # None => \A g \in Handler : ~Busy(g, l)'
               /\ \A g \in Handler : Busy(g, l)' /\ calls'[g].pc \in Sought
                    => ~Paid(l)'
    <3>1. CASE l = calls[h].key
      <4>1. Busy(h, l)
        BY <1>0, <3>1 DEF Busy
      <4>2. cache'[l] = None
        BY <1>0, <4>1, <2>6 DEF IInv, Alone
      <4>3. \A g \in Handler \ {h} : ~Busy(g, l)
        BY <4>1, <2>6 DEF IInv, Shared
      <4>4. None # "error"
        BY <1>0, <4>1, <4>2, SubmissionAssumption DEF SubmissionAssumption, Answer
      <4> QED
        BY <2>1, <4>2, <4>3, <4>4 DEF Sought
    <3>2. CASE l # calls[h].key
      <4>1. Paid(l)' = Paid(l)
        BY <1>2, <3>2 DEF Paid
      <4>2. ASSUME NEW g \in Handler, Busy(g, l)', calls'[g].pc \in Sought
            PROVE  ~Paid(l)
        <5>1. g # h
          BY <2>1, <3>2, <4>2 DEF Busy
        <5> QED
          BY <2>1, <2>6, <4>2, <5>1 DEF IInv, Alone
      <4> QED
        BY <1>0, <2>1, <2>6, <4>1, <4>2 DEF IInv, Alone
    <3> QED
      BY <3>1, <3>2
  <2>7. Alone'
    BY <1>0, <2>6 DEF Alone
  <2> QED
    BY <2>3, <2>4, <2>5, <2>7, <2>8 DEF IInv
<1>3. CASE GoTo(h, "error") /\ UNCHANGED payments
  BY <1>0, <1>3, MoveStep DEF Answer, Step, Sought, TypeOK
<1> QED
  BY <1>1, <1>2, <1>3 DEF Insert

LEMMA RespondStep ==
    ASSUME IInv, NEW h \in Handler, Respond(h)
    PROVE  IInv'
<1> PICK a \in Answer : At(h, a) /\ cache' = [cache EXCEPT ![calls[h].key] = a]
  BY DEF Respond
<1>1. /\ calls' = [calls EXCEPT ![h] = None]
      /\ UNCHANGED <<quotes, payments, crashes, overlapped, doubled>>
      /\ TypeOK /\ calls[h] # None /\ calls[h].pc = a /\ calls[h].key \in Key
  BY CallType DEF Respond, IInv, At, history
<1>2. /\ calls' \in [Handler -> Call \cup {None}]
      /\ calls'[h] = None /\ \A g \in Handler \ {h} : calls'[g] = calls[g]
      /\ \A g \in Handler, l \in Key : Busy(g, l)' <=> g # h /\ Busy(g, l)
  BY <1>1, Leaves
<1>3. /\ cache' \in [Key -> Answer \cup {None}]
      /\ cache'[calls[h].key] = a
      /\ \A l \in Key \ {calls[h].key} : cache'[l] = cache[l]
  BY <1>1 DEF TypeOK
<1>4. TypeOK'
  BY <1>1, <1>2, <1>3 DEF TypeOK
<1>5. Spent' /\ Rivals' /\ OnePaymentPerKey' /\ Shared'
  BY <1>1, <1>2 DEF IInv, Spent, Rivals, Past, OnePaymentPerKey, Shared, At
<1>6. ASSUME NEW l \in Key \ overlapped
      PROVE  /\ cache'[l] = "error" => ~Paid(l)'
             /\ cache'[l] # None => \A g \in Handler : ~Busy(g, l)'
             /\ \A g \in Handler : Busy(g, l)' /\ calls'[g].pc \in Sought
                  => ~Paid(l)'
  <2>0. Paid(l)' = Paid(l)
    BY <1>1 DEF Paid
  <2>1. CASE l = calls[h].key
    <3>1. Busy(h, l)
      BY <1>1, <2>1 DEF Busy
    <3>2. \A g \in Handler \ {h} : ~Busy(g, l)
      BY <1>6, <3>1 DEF IInv, Shared
    <3>3. a = "error" => ~Paid(l)
      BY <1>1, <1>6, <3>1 DEF IInv, Alone, Sought
    <3> QED
      BY <1>2, <1>3, <2>0, <2>1, <3>2, <3>3
  <2>2. CASE l # calls[h].key
    BY <1>2, <1>3, <1>6, <2>0, <2>2 DEF IInv, Alone
  <2> QED
    BY <2>1, <2>2
<1>7. Alone'
  BY <1>1, <1>6 DEF Alone
<1> QED
  BY <1>4, <1>5, <1>7 DEF IInv

LEMMA CacheStep ==
    ASSUME IInv, NEW k \in Key, CacheExpires(k)
    PROVE  IInv'
<1>1. /\ UNCHANGED <<quotes, payments, calls, crashes, overlapped, doubled>>
      /\ cache' \in [Key -> Answer \cup {None}]
      /\ \A l \in Key : cache'[l] = None \/ cache'[l] = cache[l]
  BY DEF CacheExpires, IInv, TypeOK, history
<1>2. TypeOK' /\ Spent' /\ Rivals' /\ OnePaymentPerKey' /\ Shared'
  BY <1>1 DEF IInv, TypeOK, Spent, Rivals, Past, OnePaymentPerKey, Shared, At, Busy
<1>3. Alone'
  <2>1. \A l \in Key : cache'[l] = "error" => cache[l] = "error"
    BY <1>1, SubmissionAssumption DEF SubmissionAssumption, Answer
  <2> QED
    BY <1>1, <2>1 DEF IInv, Alone, Busy, Paid
<1> QED
  BY <1>2, <1>3 DEF IInv

LEMMA CrashStep ==
    ASSUME IInv, Crash
    PROVE  IInv'
<1>1. /\ UNCHANGED <<quotes, payments, cache, overlapped, doubled>>
      /\ \A h \in Handler : calls'[h] = None
      /\ calls' \in [Handler -> Call \cup {None}] /\ crashes' \in 0 .. MaxCrashes
  BY SubmissionAssumption DEF SubmissionAssumption, Crash, IInv, TypeOK, history
<1> QED
  BY <1>1 DEF IInv, TypeOK, Spent, Rivals, Past, OnePaymentPerKey, Shared, Alone, At, Busy, Paid

LEMMA NextIInv == IInv /\ [Next]_vars => IInv'
<1> SUFFICES ASSUME IInv, [Next]_vars
             PROVE  IInv'
  OBVIOUS
<1>1. CASE UNCHANGED vars
  BY <1>1 DEF vars, history, IInv, TypeOK, Spent, Rivals, Past, OnePaymentPerKey, Shared, Alone,
              At, Busy, Paid
<1>2. ASSUME NEW h \in Handler, Fail(h)
      PROVE  IInv'
  BY <1>2, GoneStep DEF Fail, history
<1> QED
  BY <1>1, <1>2, QuoteStep, ArriveStep, HandlerStep, InsertStep, RespondStep, CacheStep, CrashStep
     DEF Next

LEMMA AlwaysIInv == Spec => []IInv
BY InitIInv, NextIInv, PTL DEF Spec

\* Quotes, payments, cached answers and calls keep their types.
THEOREM TypeCorrect == Spec => []TypeOK
<1>1. IInv => TypeOK
  BY DEF IInv
<1> QED
  BY <1>1, AlwaysIInv, PTL

\* submitPayment makes one payment per idempotency key, from a quote that was
\* consumed, and that no other payment was made from unless two requests read it
\* before either deleted it, however many requests, crashes and expiries there are.
THEOREM KeysPayOnce == Spec => []OnePaymentPerKey
<1>1. IInv => OnePaymentPerKey
  BY DEF IInv
<1> QED
  BY <1>1, AlwaysIInv, PTL

\* The answer the idempotency middleware has cached for a key is a refusal by
\* submitPayment only when the key has paid nothing, unless two requests shared
\* the key; repeats with invalid bodies do not change that.
THEOREM CachedErrorsAreTrue == Spec => []CachedErrorMeansUnpaid
<1>1. IInv => CachedErrorMeansUnpaid
  BY DEF IInv, Alone, CachedErrorMeansUnpaid
<1> QED
  BY <1>1, AlwaysIInv, PTL

(***************************************************************************)
(* Clearance.  What it assumes of its constants is a hypothesis of each    *)
(* theorem.  Its rows and its properties are those of ClearanceRows.       *)
(*                                                                         *)
(* The arguments.  A run that writes a row knows that there is one (Rows), *)
(* so each writer of the identity check leaves the two rows in agreement   *)
(* or is counted as one that crossed a decision (Story).  An upload has    *)
(* read what was acknowledged, but for what another upload was about to    *)
(* write over (DocumentsRead).  A submission has found no less than the    *)
(* total, since without another one between payments have left only        *)
(* (TotalsHeld): this needs sums over finite sets that fall when a payment *)
(* leaves, whatever the order in which they are added (SumOfRest).         *)
(***************************************************************************)
CONSTANTS Request, Seed, Amount, Over

VARIABLES recent, reqs, sums

C == INSTANCE Clearance

----------------------------------------------------------------------------
(* Sums over a finite set of payments.                                     *)

Pick(s) == CHOOSE p \in s : TRUE

\* f sums up the amounts of every subset of S, an element at a time.
SumsUp(f, S) ==
    f = [s \in SUBSET S |-> IF s = {} THEN 0 ELSE Pick(s).amount + f[s \ {Pick(s)}]]

SumOf(S) == (CHOOSE f : SumsUp(f, S))[S]

LEMMA TotalIsSum == C!Total = SumOf(recent)
BY DEF C!Total, C!MapThenSumSet, C!MapThenFoldSet, SumOf, SumsUp, Pick

\* A finite set has a least subset of those that satisfy a condition, the
\* condition being a set of subsets.
LEMMA LeastSubset ==
    ASSUME NEW S, IsFiniteSet(S), NEW B, B \subseteq SUBSET S, B # {}
    PROVE  \E s \in B : \A t \in B : t \subseteq s => t = s
<1>1. FiniteSubsetsOf(S) = SUBSET S
  BY FS_FiniteSubsetsOfFinite
<1>2. IsWellFoundedOn(StrictSubsetOrdering(S), SUBSET S)
  BY <1>1, FS_StrictSubsetOrderingWellFounded
<1>3. PICK s \in B : \A t \in B : ~(<<t, s>> \in StrictSubsetOrdering(S))
  BY <1>2, WFMin, Zenon
<1>4. ASSUME NEW t \in B, t \subseteq s, t # s PROVE FALSE
  <2>1. <<t, s>> \in StrictSubsetOrdering(S)
    BY <1>4 DEF StrictSubsetOrdering
  <2> QED
    BY <1>3, <2>1
<1> QED
  BY <1>4

LEMMA PickInside ==
    ASSUME NEW s, s # {}
    PROVE  Pick(s) \in s
BY DEF Pick

LEMMA SumsUpAt ==
    ASSUME NEW S, NEW f, SumsUp(f, S), NEW s \in SUBSET S
    PROVE  f[s] = IF s = {} THEN 0 ELSE Pick(s).amount + f[s \ {Pick(s)}]
BY Zenon DEF SumsUp

\* Two functions that sum up agree on the sets they have in common.
LEMMA SumsAgree ==
    ASSUME NEW S, NEW T, IsFiniteSet(S), NEW f, NEW g, SumsUp(f, S), SumsUp(g, T),
           NEW s \in SUBSET S, s \subseteq T
    PROVE  f[s] = g[s]
<1> DEFINE B == {t \in SUBSET S : t \subseteq T /\ f[t] # g[t]}
<1> SUFFICES ASSUME B # {} PROVE FALSE
  OBVIOUS
<1>1. PICK t \in B : \A u \in B : u \subseteq t => u = t
  <2>1. B \subseteq SUBSET S
    OBVIOUS
  <2> HIDE DEF B
  <2> QED
    BY <2>1, LeastSubset
<1>2. f[t] = (IF t = {} THEN 0 ELSE Pick(t).amount + f[t \ {Pick(t)}])
  BY SumsUpAt
<1>3. g[t] = (IF t = {} THEN 0 ELSE Pick(t).amount + g[t \ {Pick(t)}])
  BY SumsUpAt
<1>4. t # {}
  BY <1>2, <1>3
<1>5. t \ {Pick(t)} \notin B
  BY <1>1, <1>4, PickInside
<1>6. f[t \ {Pick(t)}] = g[t \ {Pick(t)}]
  BY <1>5
<1> QED
  BY <1>2, <1>3, <1>6

LEMMA SumsExist ==
    ASSUME NEW S, IsFiniteSet(S)
    PROVE  \E f : SumsUp(f, S)
<1> DEFINE B == {t \in SUBSET S : ~\E f : SumsUp(f, t)}
<1> SUFFICES ASSUME B # {} PROVE FALSE
  OBVIOUS
<1>1. PICK t \in B : \A u \in B : u \subseteq t => u = t
  <2>1. B \subseteq SUBSET S
    OBVIOUS
  <2> HIDE DEF B
  <2> QED
    BY <2>1, LeastSubset
<1>2. \A u \in SUBSET t : u # t => \E f : SumsUp(f, u)
  BY <1>1
<1> DEFINE G(u) == CHOOSE f : SumsUp(f, u)
           Adds(s) == IF s = {} THEN 0 ELSE Pick(s).amount + G(s \ {Pick(s)})[s \ {Pick(s)}]
           h == [s \in SUBSET t |-> Adds(s)]
<1>3. \A u \in SUBSET t : u # t => SumsUp(G(u), u)
  BY <1>2
<1>4. ASSUME NEW u \in SUBSET t, u # t PROVE G(u)[u] = h[u]
  <2>1. SumsUp(G(u), u)
    BY <1>3, <1>4
  <2> DEFINE v == u \ {Pick(u)}
  <2>2. G(u)[u] = IF u = {} THEN 0 ELSE Pick(u).amount + G(u)[v]
    BY <2>1, SumsUpAt
  <2>3. CASE u = {}
    BY <2>2, <2>3
  <2>4. CASE u # {}
    <3>1. v \in SUBSET u /\ v # u /\ v # t
      BY <2>4, PickInside
    <3>2. SumsUp(G(v), v)
      BY <1>3, <3>1
    <3>3. IsFiniteSet(u)
      BY FS_Subset
    <3>4. G(v)[v] = G(u)[v]
      <4> HIDE DEF G, v
      <4> QED
        BY <2>1, <3>1, <3>2, <3>3, SumsAgree
    <3> QED
      BY <2>2, <2>4, <3>4
  <2> QED
    BY <2>3, <2>4
<1>5. ASSUME NEW s \in SUBSET t
      PROVE  h[s] = IF s = {} THEN 0 ELSE Pick(s).amount + h[s \ {Pick(s)}]
  <2>1. h[s] = Adds(s)
    OBVIOUS
  <2>2. s # {} => s \ {Pick(s)} \in SUBSET t /\ s \ {Pick(s)} # t
    BY PickInside
  <2>3. s # {} => G(s \ {Pick(s)})[s \ {Pick(s)}] = h[s \ {Pick(s)}]
    <3> HIDE DEF G, h
    <3> QED
      BY <1>4, <2>2
  <2> QED
    BY <2>1, <2>3
<1>6. h = [s \in SUBSET t |-> IF s = {} THEN 0 ELSE Pick(s).amount + h[s \ {Pick(s)}]]
  <2>1. h = [s \in SUBSET t |-> h[s]]
    OBVIOUS
  <2> HIDE DEF h
  <2> QED
    BY <1>5, <2>1
<1>7. SumsUp(h, t)
  <2> HIDE DEF h
  <2> QED
    BY <1>6 DEF SumsUp
<1> QED
  BY <1>1, <1>7

\* The sum of a set is the one its subsets are summed up with.
LEMMA SumIsOne ==
    ASSUME NEW S, IsFiniteSet(S), NEW f, SumsUp(f, S), NEW s \in SUBSET S
    PROVE  f[s] = SumOf(s)
<1>1. IsFiniteSet(s)
  BY FS_Subset
<1> DEFINE g == CHOOSE h : SumsUp(h, s)
<1>2. SumsUp(g, s) /\ SumOf(s) = g[s]
  BY <1>1, SumsExist DEF SumOf
<1> HIDE DEF g
<1> QED
  BY <1>1, <1>2, SumsAgree

LEMMA SumSteps ==
    ASSUME NEW S, IsFiniteSet(S)
    PROVE  SumOf(S) = IF S = {} THEN 0 ELSE Pick(S).amount + SumOf(S \ {Pick(S)})
<1>1. PICK f : SumsUp(f, S)
  BY SumsExist
<1>2. f[S] = IF S = {} THEN 0 ELSE Pick(S).amount + f[S \ {Pick(S)}]
  BY <1>1, SumsUpAt
<1>3. f[S] = SumOf(S) /\ f[S \ {Pick(S)}] = SumOf(S \ {Pick(S)})
  BY <1>1, SumIsOne
<1> QED
  BY <1>2, <1>3

\* The sum of a finite set of payments is a number.
LEMMA SumIsNatural ==
    ASSUME NEW S, IsFiniteSet(S), \A p \in S : p.amount \in Nat
    PROVE  SumOf(S) \in Nat
<1> DEFINE B == {t \in SUBSET S : SumOf(t) \notin Nat}
<1> SUFFICES ASSUME B # {} PROVE FALSE
  OBVIOUS
<1>1. PICK t \in B : \A u \in B : u \subseteq t => u = t
  <2>1. B \subseteq SUBSET S
    OBVIOUS
  <2> HIDE DEF B
  <2> QED
    BY <2>1, LeastSubset
<1>2. IsFiniteSet(t)
  BY FS_Subset
<1>3. t # {}
  BY <1>2, SumSteps
<1>4. t \ {Pick(t)} \notin B
  BY <1>1, <1>3, PickInside
<1>5. SumOf(t \ {Pick(t)}) \in Nat /\ Pick(t).amount \in Nat
  BY <1>3, <1>4, PickInside
<1>6. SumOf(t) = Pick(t).amount + SumOf(t \ {Pick(t)})
  BY <1>2, <1>3, SumSteps
<1> QED
  BY <1>5, <1>6

\* It does not matter which payment is added first.
THEOREM SumOfRest ==
    ASSUME NEW S, IsFiniteSet(S), \A p \in S : p.amount \in Nat, NEW e \in S
    PROVE  SumOf(S) = e.amount + SumOf(S \ {e})
<1> DEFINE B == {t \in SUBSET S : \E x \in t : SumOf(t) # x.amount + SumOf(t \ {x})}
<1> SUFFICES ASSUME B # {} PROVE FALSE
  OBVIOUS
<1>1. PICK t \in B : \A u \in B : u \subseteq t => u = t
  <2>1. B \subseteq SUBSET S
    OBVIOUS
  <2> HIDE DEF B
  <2> QED
    BY <2>1, LeastSubset
<1>2. PICK x \in t : SumOf(t) # x.amount + SumOf(t \ {x})
  OBVIOUS
<1> DEFINE p == Pick(t)
           rest == t \ {p}
           others == t \ {x}
           both == t \ {p, x}
<1>3. IsFiniteSet(t) /\ IsFiniteSet(both)
  BY FS_Subset
<1>4. p \in t /\ SumOf(t) = p.amount + SumOf(rest)
  BY <1>2, <1>3, SumSteps, PickInside
<1>5. p # x
  BY <1>2, <1>4
<1>6. rest \notin B /\ others \notin B
  BY <1>1, <1>2, <1>4
<1>7. x \in rest /\ p \in others /\ rest \ {x} = both /\ others \ {p} = both
  BY <1>2, <1>4, <1>5
<1>8. SumOf(rest) = x.amount + SumOf(both) /\ SumOf(others) = p.amount + SumOf(both)
  BY <1>6, <1>7
<1>9. x.amount \in Nat /\ p.amount \in Nat /\ SumOf(both) \in Nat
  BY <1>2, <1>3, <1>4, SumIsNatural
<1> HIDE DEF p, rest, others, both
<1> QED
  BY <1>2, <1>4, <1>8, <1>9 DEF others

----------------------------------------------------------------------------
(* Runs and rows.                                                          *)

\* Runs that write a row know that there is one.
Rows ==
    /\ jobs > 0 => beneficiary # None
    /\ \A r \in Request : C!At(r, "write") => beneficiary # None
    /\ \A r \in Request : C!At(r, "document") \/ C!At(r, "decide") => application # None

AmountsHeld ==
    \A r \in Request : C!At(r, "check") \/ C!At(r, "aml") \/ C!At(r, "insert") => reqs[r].amount \in Amount

ClearanceTypes == C!TypeOK /\ IsFiniteSet(recent) /\ Rows /\ AmountsHeld

LEMMA StepType ==
    ASSUME C!TypeOK, NEW r \in Request, C!Running(r)
    PROVE  /\ reqs[r] \in C!Run /\ reqs[r].pc \in C!Pc /\ reqs[r].op \in C!Op
           /\ reqs[r].docs \in SUBSET C!Id /\ reqs[r].amount \in Amount \cup {0}
BY DEF C!TypeOK, C!Running, C!Run

LEMMA StepBegins ==
    ASSUME C!ClearanceAssumption, C!TypeOK, NEW r \in Request, NEW op \in C!Op, NEW pc \in C!Pc,
           NEW docs \in SUBSET C!Id, NEW amount \in Amount \cup {0},
           C!Begin(r, op, pc, docs, amount)
    PROVE  /\ reqs' \in [Request -> C!Run \cup {None, Over}]
           /\ ~C!Running(r) /\ C!Running(r)'
           /\ reqs'[r].pc = pc /\ reqs'[r].docs = docs /\ reqs'[r].amount = amount
           /\ \A q \in Request \ {r} : reqs'[q] = reqs[q]
<1> DEFINE new == [op |-> op, pc |-> pc, docs |-> docs, amount |-> amount]
<1>1. new \in C!Run /\ new.pc = pc /\ new.docs = docs /\ new.amount = amount
  BY DEF C!Run
<1>2. reqs[r] = None /\ reqs' = [reqs EXCEPT ![r] = new]
  BY DEF C!Begin
<1>3. new # None /\ new # Over
  BY <1>1 DEF C!ClearanceAssumption
<1> HIDE DEF new
<1> QED
  BY <1>1, <1>2, <1>3 DEF C!TypeOK, C!Running

LEMMA StepEnds ==
    ASSUME C!TypeOK, NEW r \in Request, C!End(r)
    PROVE  /\ reqs' \in [Request -> C!Run \cup {None, Over}] /\ ~C!Running(r)'
           /\ \A q \in Request \ {r} : reqs'[q] = reqs[q]
BY DEF C!End, C!TypeOK, C!Running

LEMMA StepMoves ==
    ASSUME C!ClearanceAssumption, C!TypeOK, NEW r \in Request, C!Running(r), NEW pc \in C!Pc,
           C!GoTo(r, pc)
    PROVE  /\ reqs' \in [Request -> C!Run \cup {None, Over}] /\ C!Running(r)'
           /\ reqs'[r].pc = pc /\ reqs'[r].amount = reqs[r].amount
           /\ \A q \in Request \ {r} : reqs'[q] = reqs[q]
<1> DEFINE new == [reqs[r] EXCEPT !.pc = pc]
<1>1. new \in C!Run /\ new.pc = pc /\ new.amount = reqs[r].amount
  BY StepType DEF C!Run
<1>2. reqs' = [reqs EXCEPT ![r] = new]
  BY DEF C!GoTo
<1>3. new # None /\ new # Over
  BY <1>1 DEF C!ClearanceAssumption
<1> HIDE DEF new
<1> QED
  BY <1>1, <1>2, <1>3 DEF C!TypeOK, C!Running

LEMMA Bystanders ==
    ASSUME NEW q \in Request, reqs'[q] = reqs[q]
    PROVE  (C!Running(q)' <=> C!Running(q)) /\ \A pc \in C!Pc : C!At(q, pc)' <=> C!At(q, pc)
BY DEF C!Running, C!At

LEMMA ShapesHold ==
    ASSUME Rows, AmountsHeld, NEW r \in Request, \A q \in Request \ {r} : reqs'[q] = reqs[q],
           application # None => application' # None,
           beneficiary # None => beneficiary' # None,
           jobs' > 0 => jobs > 0 \/ beneficiary' # None,
           C!At(r, "write")' => beneficiary' # None,
           C!At(r, "document")' \/ C!At(r, "decide")' => application' # None,
           C!At(r, "check")' \/ C!At(r, "aml")' \/ C!At(r, "insert")' => reqs'[r].amount \in Amount
    PROVE  Rows' /\ AmountsHeld'
<1>1. \A q \in Request \ {r} : \A pc \in C!Pc : C!At(q, pc)' <=> C!At(q, pc)
  BY Bystanders
<1>2. ASSUME NEW q \in Request
      PROVE  /\ C!At(q, "write")' => beneficiary' # None
             /\ C!At(q, "document")' \/ C!At(q, "decide")' => application' # None
             /\ C!At(q, "check")' \/ C!At(q, "aml")' \/ C!At(q, "insert")' => reqs'[q].amount \in Amount
  <2>1. CASE q = r
    BY <2>1
  <2>2. CASE q # r
    <3>1. reqs'[q] = reqs[q]
      BY <2>2
    <3> QED
      BY <3>1, Bystanders DEF Rows, AmountsHeld, C!Pc
  <2> QED
    BY <2>1, <2>2
<1> QED
  BY <1>2 DEF Rows, AmountsHeld

\* Handlers that begin with what they read and write nothing yet.
Opens(r) ==
    \/ C!InitiateKyc(r) \/ C!UploadKycDocument(r) \/ C!ApproveKyc(r) \/ C!RejectKyc(r)
    \/ C!Submit(r) \/ C!SubmitScheduled(r) \/ C!FindBeneficiary(r)

LEMMA OpensBegins ==
    ASSUME C!ClearanceAssumption, ClearanceTypes, NEW r \in Request, Opens(r)
    PROVE  /\ reqs' \in [Request -> C!Run \cup {None, Over}]
           /\ ~C!Running(r) /\ C!Running(r)' /\ \A q \in Request \ {r} : reqs'[q] = reqs[q]
           /\ UNCHANGED <<C!identity, C!screening, C!amounts>>
           /\ reqs'[r].pc # "insert"
           /\ reqs'[r].pc = "write" => beneficiary # None
           /\ reqs'[r].pc \in {"document", "decide"} => application # None
           /\ reqs'[r].pc = "expire" => kyc = "approved"
           /\ reqs'[r].pc = "document" => reqs'[r].docs = application.docs
           /\ reqs'[r].pc \in {"check", "aml"} => reqs'[r].amount \in Amount
<1>0. /\ C!TypeOK /\ {} \in SUBSET C!Id /\ 0 \in Amount \cup {0}
      /\ \A a \in Amount : a \in Amount \cup {0}
      /\ {"initiate", "upload", "approve", "reject", "submit", "edit", "delete"} \subseteq C!Op
      /\ {"create", "document", "decide", "expire", "check", "write"} \subseteq C!Pc
  BY DEF ClearanceTypes, C!Op, C!Pc
<1>1. CASE C!InitiateKyc(r)
  <2>1. C!Begin(r, "initiate", "create", {}, 0) /\ UNCHANGED <<C!identity, C!screening, C!amounts>>
    BY <1>1 DEF C!InitiateKyc
  <2> QED
    BY <1>0, <2>1, StepBegins
<1>2. CASE C!UploadKycDocument(r)
  <2>1. /\ application # None /\ C!Begin(r, "upload", "document", application.docs, 0)
        /\ UNCHANGED <<C!identity, C!screening, C!amounts>>
    BY <1>2 DEF C!UploadKycDocument
  <2>2. application.docs \in SUBSET C!Id
    BY <1>0, <2>1 DEF C!TypeOK, C!Application
  <2>3. /\ reqs' \in [Request -> C!Run \cup {None, Over}] /\ ~C!Running(r) /\ C!Running(r)'
        /\ reqs'[r].pc = "document" /\ reqs'[r].docs = application.docs /\ \A q \in Request \ {r} : reqs'[q] = reqs[q]
    BY <1>0, <2>1, <2>2, StepBegins
  <2> QED
    BY <2>1, <2>2, <2>3
<1>3. CASE C!ApproveKyc(r) \/ C!RejectKyc(r)
  <2>1. PICK op \in {"approve", "reject"} :
          C!Begin(r, op, "decide", {}, 0) /\ application # None /\ UNCHANGED <<C!identity, C!screening, C!amounts>>
    BY <1>3 DEF C!ApproveKyc, C!RejectKyc
  <2>0. C!TypeOK /\ op \in C!Op /\ "decide" \in C!Pc /\ {} \in SUBSET C!Id /\ 0 \in Amount \cup {0}
    BY <1>0
  <2>2. /\ reqs' \in [Request -> C!Run \cup {None, Over}] /\ ~C!Running(r) /\ C!Running(r)'
        /\ reqs'[r].pc = "decide" /\ \A q \in Request \ {r} : reqs'[q] = reqs[q]
    <3>1. C!Begin(r, op, "decide", {}, 0)
      BY <2>1
    <3> QED
      BY <2>0, <3>1, StepBegins
  <2> QED
    BY <2>1, <2>2
<1>4. CASE C!Submit(r) \/ C!SubmitScheduled(r)
  <2>1. PICK a \in Amount, pc \in {"expire", "check"} :
          /\ C!Begin(r, "submit", pc, {}, a) /\ UNCHANGED <<C!identity, C!screening, C!amounts>>
          /\ pc = "expire" => kyc = "approved"
    BY <1>4 DEF C!Submit, C!SubmitScheduled
  <2> QED
    BY <1>0, <2>1, StepBegins
<1>5. CASE C!FindBeneficiary(r)
  <2>1. PICK op \in {"edit", "delete"} :
          C!Begin(r, op, "write", {}, 0) /\ beneficiary # None /\ UNCHANGED <<C!identity, C!screening, C!amounts>>
    BY <1>5 DEF C!FindBeneficiary
  <2>0. C!TypeOK /\ op \in C!Op /\ "write" \in C!Pc /\ {} \in SUBSET C!Id /\ 0 \in Amount \cup {0}
    BY <1>0
  <2>2. /\ reqs' \in [Request -> C!Run \cup {None, Over}] /\ ~C!Running(r) /\ C!Running(r)'
        /\ reqs'[r].pc = "write" /\ \A q \in Request \ {r} : reqs'[q] = reqs[q]
    <3>1. C!Begin(r, op, "write", {}, 0)
      BY <2>1
    <3> QED
      BY <2>0, <3>1, StepBegins
  <2> QED
    BY <2>1, <2>2
<1> QED
  BY <1>1, <1>2, <1>3, <1>4, <1>5 DEF Opens

\* Steps that write the rows of the identity check and end.
Decides(r) ==
    C!CreateKyc(r) \/ C!WriteDocument(r) \/ C!WriteApproval(r) \/ C!WriteRejection(r) \/ C!Expire(r)

\* Steps that write the row of the beneficiary and end.
Screens(r) == C!CreateBeneficiary(r) \/ C!UpdateBeneficiary(r) \/ C!SoftDelete(r)

LEMMA TotalIsNatural ==
    ASSUME C!ClearanceAssumption, ClearanceTypes
    PROVE  C!Total \in Nat /\ \A p \in recent : p.amount \in Nat
<1>1. \A p \in recent : p.amount \in Nat
  BY DEF ClearanceTypes, C!TypeOK, C!Payment, C!ClearanceAssumption
<1> QED
  BY <1>1, TotalIsSum, SumIsNatural DEF ClearanceTypes

LEMMA OpenTypes ==
    ASSUME C!ClearanceAssumption, ClearanceTypes, NEW r \in Request, Opens(r)
    PROVE  ClearanceTypes'
<1>1. Rows' /\ AmountsHeld'
  <2>1. UNCHANGED <<application, beneficiary, jobs>>
    BY OpensBegins DEF C!identity, C!screening
  <2> QED
    BY <2>1, OpensBegins, ShapesHold DEF ClearanceTypes, C!At
<1> QED
  BY <1>1, OpensBegins DEF ClearanceTypes, C!TypeOK, C!identity, C!screening, C!amounts

LEMMA DecideTypes ==
    ASSUME C!ClearanceAssumption, ClearanceTypes, NEW r \in Request, Decides(r)
    PROVE  ClearanceTypes'
<1>1. C!End(r) /\ UNCHANGED <<C!screening, C!amounts>>
  BY DEF Decides, C!CreateKyc, C!WriteDocument, C!WriteApproval, C!WriteRejection, C!Expire
<1>2. /\ reqs' \in [Request -> C!Run \cup {None, Over}] /\ ~C!Running(r)'
      /\ \A q \in Request \ {r} : reqs'[q] = reqs[q]
  BY <1>1, StepEnds DEF ClearanceTypes
<1>3. /\ application' \in C!Application \cup {None} /\ (application # None => application' # None)
      /\ kyc' \in C!KycStatus /\ expiry' \in {"none", "ahead", "past"}
      /\ crossed' \subseteq {"upload", "guard"} /\ uploaded' \subseteq C!Id /\ risky' \subseteq C!Id
  <2>1. application # None => application \in C!Application
    BY DEF ClearanceTypes, C!TypeOK
  <2>2. None \notin C!Application
    BY DEF C!ClearanceAssumption
  <2>3. CASE C!CreateKyc(r)
    BY <2>1, <2>2, <2>3 DEF C!CreateKyc, ClearanceTypes, C!TypeOK, C!Application
  <2>4. CASE C!WriteDocument(r)
    <3>1. reqs[r].docs \in SUBSET C!Id /\ r \in C!Id
      BY <2>4, StepType DEF C!WriteDocument, C!At, ClearanceTypes, C!Id
    <3>2. application' \in C!Application
      BY <2>4, <3>1 DEF C!WriteDocument, C!Application
    <3> QED
      BY <2>2, <2>4, <3>1, <3>2 DEF C!WriteDocument, ClearanceTypes, C!TypeOK
  <2>5. CASE C!WriteApproval(r)
    <3>1. application \in C!Application
      BY <2>1, <2>5 DEF C!WriteApproval, ClearanceTypes, Rows
    <3>2. application' \in C!Application
      BY <2>5, <3>1 DEF C!WriteApproval, C!Application
    <3> QED
      BY <2>2, <2>5, <3>2 DEF C!WriteApproval, ClearanceTypes, C!TypeOK, C!KycStatus
  <2>6. CASE C!WriteRejection(r)
    <3>1. application \in C!Application
      BY <2>1, <2>6 DEF C!WriteRejection, ClearanceTypes, Rows
    <3>2. application' \in C!Application
      BY <2>6, <3>1 DEF C!WriteRejection, C!Application
    <3> QED
      BY <2>2, <2>6, <3>2 DEF C!WriteRejection, ClearanceTypes, C!TypeOK, C!KycStatus
  <2>7. CASE C!Expire(r)
    BY <2>7 DEF C!Expire, ClearanceTypes, C!TypeOK, C!KycStatus
  <2> QED
    BY <2>3, <2>4, <2>5, <2>6, <2>7 DEF Decides
<1>4. Rows' /\ AmountsHeld'
  BY <1>1, <1>2, <1>3, ShapesHold DEF ClearanceTypes, C!At, C!screening
<1> QED
  BY <1>1, <1>2, <1>3, <1>4 DEF ClearanceTypes, C!TypeOK, C!screening, C!amounts

LEMMA EnqueueTypes ==
    ASSUME C!TypeOK, C!Enqueue
    PROVE  jobs' \in Nat /\ lost' \in BOOLEAN /\ (jobs' > 0 \/ lost')
<1>1. CASE jobs' = jobs + 1 /\ UNCHANGED lost
  <2>1. jobs' \in Nat /\ jobs' > 0
    BY <1>1 DEF C!TypeOK
  <2>2. lost' \in BOOLEAN
    BY <1>1 DEF C!TypeOK
  <2> QED
    BY <2>1, <2>2
<1>2. CASE lost' = TRUE /\ UNCHANGED jobs
  BY <1>2 DEF C!TypeOK
<1> QED
  BY <1>1, <1>2 DEF C!Enqueue

LEMMA ScreenTypes ==
    ASSUME C!ClearanceAssumption, ClearanceTypes, NEW r \in Request, Screens(r)
    PROVE  ClearanceTypes'
<1>1. C!End(r) /\ UNCHANGED <<C!identity, screened, C!amounts>>
  BY DEF Screens, C!CreateBeneficiary, C!UpdateBeneficiary, C!SoftDelete
<1>2. /\ reqs' \in [Request -> C!Run \cup {None, Over}] /\ ~C!Running(r)'
      /\ \A q \in Request \ {r} : reqs'[q] = reqs[q]
  BY <1>1, StepEnds DEF ClearanceTypes
<1>3. beneficiary' \in C!Beneficiary /\ jobs' \in Nat /\ lost' \in BOOLEAN
  <2>1. r \in C!Id
    BY DEF C!Id
  <2>2. CASE C!CreateBeneficiary(r)
    BY <2>1, <2>2, EnqueueTypes DEF C!CreateBeneficiary, C!Beneficiary, ClearanceTypes
  <2>3. CASE C!UpdateBeneficiary(r)
    <3>1. beneficiary \in C!Beneficiary
      BY <2>3 DEF C!UpdateBeneficiary, ClearanceTypes, Rows, C!TypeOK
    <3>2. [beneficiary EXCEPT !.status = "pending", !.details = r] \in C!Beneficiary
      BY <2>1, <3>1 DEF C!Beneficiary
    <3> QED
      BY <2>3, <3>1, <3>2, EnqueueTypes DEF C!UpdateBeneficiary, ClearanceTypes, C!TypeOK
  <2>4. CASE C!SoftDelete(r)
    <3>1. beneficiary \in C!Beneficiary
      BY <2>4 DEF C!SoftDelete, ClearanceTypes, Rows, C!TypeOK
    <3> QED
      BY <2>4, <3>1 DEF C!SoftDelete, C!Beneficiary, ClearanceTypes, C!TypeOK
  <2> QED
    BY <2>2, <2>3, <2>4 DEF Screens
<1>4. beneficiary' # None
  BY <1>3 DEF C!ClearanceAssumption
<1>5. Rows' /\ AmountsHeld'
  BY <1>1, <1>2, <1>4, ShapesHold DEF ClearanceTypes, C!At, C!identity
<1> QED
  BY <1>1, <1>2, <1>3, <1>5 DEF ClearanceTypes, C!TypeOK, C!identity, C!amounts

LEMMA AmountTypes ==
    ASSUME C!ClearanceAssumption, ClearanceTypes, NEW r \in Request,
           C!CheckBeneficiary(r) \/ C!RunAmlChecks(r) \/ C!InsertPayment(r)
    PROVE  ClearanceTypes'
<1>0. C!TypeOK /\ C!Running(r) /\ reqs[r].amount \in Amount /\ {"aml", "insert"} \subseteq C!Pc
  BY DEF C!CheckBeneficiary, C!RunAmlChecks, C!InsertPayment, C!At, ClearanceTypes, AmountsHeld, C!Pc
<1>1. CASE C!CheckBeneficiary(r) /\ C!End(r)
  <2>1. /\ reqs' \in [Request -> C!Run \cup {None, Over}] /\ ~C!Running(r)'
        /\ \A q \in Request \ {r} : reqs'[q] = reqs[q]
    BY <1>0, <1>1, StepEnds
  <2>2. UNCHANGED <<C!identity, C!screening, C!amounts>>
    BY <1>1 DEF C!CheckBeneficiary
  <2>3. Rows' /\ AmountsHeld'
    BY <2>1, <2>2, ShapesHold DEF ClearanceTypes, C!At, C!identity, C!screening
  <2> QED
    BY <2>1, <2>2, <2>3 DEF ClearanceTypes, C!TypeOK, C!identity, C!screening, C!amounts
<1>2. CASE C!CheckBeneficiary(r) /\ C!GoTo(r, "aml")
  <2>1. /\ reqs' \in [Request -> C!Run \cup {None, Over}] /\ C!Running(r)' /\ reqs'[r].pc = "aml"
        /\ reqs'[r].amount \in Amount /\ \A q \in Request \ {r} : reqs'[q] = reqs[q]
    BY <1>0, <1>2, StepMoves
  <2>2. UNCHANGED <<C!identity, C!screening, C!amounts>>
    BY <1>2 DEF C!CheckBeneficiary
  <2>3. Rows' /\ AmountsHeld'
    BY <2>1, <2>2, ShapesHold DEF ClearanceTypes, C!At, C!identity, C!screening
  <2> QED
    BY <2>1, <2>2, <2>3 DEF ClearanceTypes, C!TypeOK, C!identity, C!screening, C!amounts
<1>3. CASE C!RunAmlChecks(r)
  <2>1. /\ C!GoTo(r, "insert") /\ sums' = [sums EXCEPT ![r] = C!Total]
        /\ UNCHANGED <<C!identity, C!screening, recent, above, overtaken>>
    BY <1>3 DEF C!RunAmlChecks
  <2>2. /\ reqs' \in [Request -> C!Run \cup {None, Over}] /\ C!Running(r)' /\ reqs'[r].pc = "insert"
        /\ reqs'[r].amount \in Amount /\ \A q \in Request \ {r} : reqs'[q] = reqs[q]
    BY <1>0, <2>1, StepMoves
  <2>3. Rows' /\ AmountsHeld'
    BY <2>1, <2>2, ShapesHold DEF ClearanceTypes, C!At, C!identity, C!screening
  <2>4. sums' \in [Request -> Nat]
    BY <1>0, <2>1, TotalIsNatural DEF C!TypeOK
  <2> QED
    BY <2>1, <2>2, <2>3, <2>4 DEF ClearanceTypes, C!TypeOK, C!identity, C!screening
<1>4. CASE C!InsertPayment(r)
  <2> DEFINE status == C!InitialStatus(reqs[r].amount, sums[r])
             new == [id |-> r, amount |-> reqs[r].amount, status |-> status]
  <2>1. /\ C!End(r) /\ sums' = [sums EXCEPT ![r] = 0] /\ recent' = recent \cup {new}
        /\ above' \subseteq above \cup {r} /\ overtaken' \subseteq Request
        /\ UNCHANGED <<C!identity, C!screening>>
    BY <1>0, <1>4 DEF C!InsertPayment, C!TypeOK
  <2>2. /\ reqs' \in [Request -> C!Run \cup {None, Over}] /\ ~C!Running(r)'
        /\ \A q \in Request \ {r} : reqs'[q] = reqs[q]
    BY <1>0, <2>1, StepEnds
  <2>3. Rows' /\ AmountsHeld'
    BY <2>1, <2>2, ShapesHold DEF ClearanceTypes, C!At, C!identity, C!screening
  <2>4. status \in {"processing", "pending_approval", "pending_compliance"}
    BY DEF C!InitialStatus
  <2>5. new \in C!Payment /\ r \in C!Id
    BY <1>0, <2>4 DEF C!Payment, C!Id
  <2>6. IsFiniteSet(recent')
    BY <2>1, FS_AddElement DEF ClearanceTypes
  <2> HIDE DEF new
  <2> QED
    BY <1>0, <2>1, <2>2, <2>3, <2>5, <2>6 DEF ClearanceTypes, C!TypeOK, C!identity, C!screening
<1> QED
  BY <1>1, <1>2, <1>3, <1>4 DEF C!CheckBeneficiary

LEMMA StillTypes ==
    ASSUME C!ClearanceAssumption, ClearanceTypes, UNCHANGED reqs,
           \/ C!Lapse \/ C!Screen \/ C!ScreeningFails \/ (\E p \in recent : C!Leave(p)) \/ UNCHANGED C!vars
    PROVE  ClearanceTypes'
<1>1. \A r \in Request : \A pc \in C!Pc : C!At(r, pc)' <=> C!At(r, pc)
  BY Bystanders
<1>2. /\ application' = application
      /\ (beneficiary # None => beneficiary' # None) /\ (jobs' > 0 => jobs > 0)
      /\ beneficiary' \in C!Beneficiary \cup {None} /\ jobs' \in Nat
      /\ screened' \in C!Id \cup {None} /\ lost' \in BOOLEAN
  <2>1. CASE C!Screen
    <3>1. beneficiary \in C!Beneficiary
      BY <2>1 DEF C!Screen, ClearanceTypes, C!TypeOK, Rows
    <3>2. beneficiary' \in C!Beneficiary /\ beneficiary.details \in C!Id
      BY <2>1, <3>1 DEF C!Screen, C!Beneficiary
    <3>3. jobs' \in Nat /\ (jobs' > 0 => jobs > 0)
      BY <2>1 DEF C!Screen, ClearanceTypes, C!TypeOK
    <3> QED
      BY <2>1, <3>2, <3>3 DEF C!Screen, ClearanceTypes, C!TypeOK, C!identity, C!ClearanceAssumption
  <2>2. CASE C!ScreeningFails
    <3>1. jobs' \in Nat /\ (jobs' > 0 => jobs > 0)
      BY <2>2 DEF C!ScreeningFails, ClearanceTypes, C!TypeOK
    <3> QED
      BY <2>2, <3>1 DEF C!ScreeningFails, ClearanceTypes, C!TypeOK, C!identity
  <2>3. CASE UNCHANGED <<application, C!screening>>
    BY <2>3 DEF ClearanceTypes, C!TypeOK, C!screening
  <2> QED
    BY <2>1, <2>2, <2>3 DEF C!Lapse, C!Leave, C!vars, C!identity, C!screening
<1>3. Rows' /\ AmountsHeld'
  BY <1>1, <1>2 DEF ClearanceTypes, Rows, AmountsHeld, C!Pc
<1>4. /\ recent' \subseteq recent /\ expiry' \in {"none", "ahead", "past"}
      /\ UNCHANGED <<kyc, crossed, uploaded, risky, sums, above, overtaken>>
  BY DEF C!Lapse, C!Screen, C!ScreeningFails, C!Leave, C!vars, C!identity, C!screening, C!amounts, ClearanceTypes, C!TypeOK
<1>5. IsFiniteSet(recent')
  BY <1>4, FS_Subset DEF ClearanceTypes
<1> QED
  BY <1>2, <1>3, <1>4, <1>5 DEF ClearanceTypes, C!TypeOK

LEMMA RestartTypes ==
    ASSUME C!ClearanceAssumption, ClearanceTypes, C!Crash
    PROVE  /\ ClearanceTypes' /\ UNCHANGED <<C!identity, C!screening, recent, above, overtaken>>
           /\ \A r \in Request : \A pc \in C!Pc : ~C!At(r, pc)'
<1>1. /\ UNCHANGED <<C!identity, C!screening, recent, above, overtaken>>
      /\ reqs' \in [Request -> C!Run \cup {None, Over}] /\ sums' \in [Request -> Nat]
      /\ \A r \in Request : ~C!Running(r)'
  BY DEF C!Crash, C!Running, ClearanceTypes, C!TypeOK
<1>2. \A r \in Request : \A pc \in C!Pc : ~C!At(r, pc)'
  BY <1>1 DEF C!At
<1>3. Rows' /\ AmountsHeld'
  BY <1>1, <1>2 DEF ClearanceTypes, Rows, AmountsHeld, C!Pc, C!identity, C!screening
<1> QED
  BY <1>1, <1>2, <1>3 DEF ClearanceTypes, C!TypeOK, C!identity, C!screening

\* Every step: a handler that reads, one that writes, or a step of no handler.
LEMMA Steps ==
    ASSUME [C!Next]_C!vars
    PROVE  \/ \E r \in Request : \/ Opens(r) \/ Decides(r) \/ Screens(r)
                                 \/ C!CheckBeneficiary(r) \/ C!RunAmlChecks(r) \/ C!InsertPayment(r)
           \/ /\ UNCHANGED reqs
              /\ C!Lapse \/ C!Screen \/ C!ScreeningFails \/ (\E p \in recent : C!Leave(p)) \/ UNCHANGED C!vars
           \/ C!Crash
<1>1. ASSUME NEW p \in recent, C!Leave(p) PROVE UNCHANGED reqs
  BY <1>1 DEF C!Leave
<1>2. C!Lapse \/ C!Screen \/ C!ScreeningFails \/ UNCHANGED C!vars => UNCHANGED reqs
  BY DEF C!Lapse, C!Screen, C!ScreeningFails, C!vars
<1> QED
  BY <1>1, <1>2, Zenon DEF C!Next, Opens, Decides, Screens

LEMMA ClearanceTypesKept ==
    ASSUME C!ClearanceAssumption, ClearanceTypes, [C!Next]_C!vars
    PROVE  ClearanceTypes'
BY Steps, OpenTypes, DecideTypes, ScreenTypes, AmountTypes, StillTypes, RestartTypes

LEMMA ClearanceStarts ==
    ASSUME C!ClearanceAssumption, C!Init
    PROVE  ClearanceTypes
<1>1. \A r \in Request : ~C!Running(r)
  BY DEF C!Init, C!Running
<1>2. Rows /\ AmountsHeld
  BY <1>1 DEF C!Init, Rows, AmountsHeld, C!At
<1>3. IsFiniteSet(recent)
  <2>1. recent = {} \/ \E p : recent = {p}
    BY DEF C!Init
  <2>2. \A p : IsFiniteSet({p})
    BY FS_Singleton
  <2> QED
    BY <2>1, <2>2, FS_EmptySet
<1>4. recent \subseteq C!Payment
  <2>1. CASE recent = {}
    BY <2>1
  <2>2. ASSUME NEW a \in Amount, recent = {[id |-> Seed, amount |-> a, status |-> "processing"]}
        PROVE  recent \subseteq C!Payment
    <3>1. [id |-> Seed, amount |-> a, status |-> "processing"] \in C!Payment
      BY DEF C!Payment, C!Id
    <3> QED
      BY <2>2, <3>1
  <2> QED
    BY <2>1, <2>2 DEF C!Init
<1>5. kyc \in C!KycStatus /\ expiry \in {"none", "ahead", "past"} /\ application \in C!Application \cup {None}
  <2>1. [status |-> "approved", docs |-> {Seed}] \in C!Application
    BY DEF C!Application, C!Id
  <2> QED
    BY <2>1 DEF C!Init, C!KycStatus
<1>6. beneficiary \in C!Beneficiary \cup {None}
  <2>1. [status |-> "flagged", details |-> Seed, active |-> TRUE] \in C!Beneficiary
    BY DEF C!Beneficiary, C!Id
  <2> QED
    BY <2>1 DEF C!Init
<1> QED
  BY <1>2, <1>3, <1>4, <1>5, <1>6 DEF ClearanceTypes, C!Init, C!TypeOK

----------------------------------------------------------------------------
(* The C!identity check.                                                     *)

\* KycAgrees, and a guard that is about to expire the user's approval knows
\* that there is an application.
Story ==
    /\ KycAgrees
    /\ application = None => kyc = "pending"
    /\ \A r \in Request : C!At(r, "expire") => application # None

\* An upload has read every document that another one will not have written
\* over.
DocumentsRead == \A r \in Request : C!At(r, "document") => uploaded \subseteq risky \cup reqs[r].docs

\* The steps that write the beneficiary or check an amount end their run, or
\* lead to the next check.
LEMMA WritesEnd ==
    ASSUME C!ClearanceAssumption, ClearanceTypes, NEW r \in Request,
           Screens(r) \/ C!CheckBeneficiary(r) \/ C!RunAmlChecks(r) \/ C!InsertPayment(r)
    PROVE  /\ \A q \in Request \ {r} : reqs'[q] = reqs[q]
           /\ ~C!At(r, "document")' /\ ~C!At(r, "expire")'
<1>1. CASE C!End(r)
  BY <1>1, StepEnds DEF ClearanceTypes, C!At
<1>2. CASE \E pc \in {"aml", "insert"} : C!Running(r) /\ C!GoTo(r, pc)
  <2>1. PICK pc \in {"aml", "insert"} : C!Running(r) /\ C!GoTo(r, pc)
    BY <1>2
  <2>2. pc \in C!Pc
    BY DEF C!Pc
  <2>3. reqs'[r].pc = pc /\ \A q \in Request \ {r} : reqs'[q] = reqs[q]
    BY <2>1, <2>2, StepMoves DEF ClearanceTypes
  <2> QED
    BY <2>3 DEF C!At
<1> QED
  BY <1>1, <1>2 DEF Screens, C!CreateBeneficiary, C!UpdateBeneficiary, C!SoftDelete,
                    C!CheckBeneficiary, C!RunAmlChecks, C!InsertPayment, C!At

LEMMA StoryStep ==
    ASSUME C!ClearanceAssumption, ClearanceTypes, Story, [C!Next]_C!vars
    PROVE  Story'
<1>0. /\ kyc \in C!KycStatus /\ crossed \subseteq {"upload", "guard"}
      /\ application # None => application \in C!Application
      /\ None \notin C!Application
  BY DEF ClearanceTypes, C!TypeOK, C!ClearanceAssumption
<1> DEFINE Agrees == KycAgrees /\ (application = None => kyc = "pending")
           Guards == \A r \in Request : C!At(r, "expire") => application # None
<1>1. ASSUME UNCHANGED <<kyc, application, crossed>>, expiry' = expiry \/ expiry' = "past"
      PROVE  Agrees'
  BY <1>1 DEF Story, KycAgrees
<1>2. ASSUME NEW r \in Request, \A q \in Request \ {r} : reqs'[q] = reqs[q],
             application # None => application' # None, C!At(r, "expire")' => application' # None
      PROVE  Guards'
  <2> SUFFICES ASSUME NEW q \in Request, C!At(q, "expire")', q # r PROVE application' # None
    BY <1>2
  <2>1. reqs'[q] = reqs[q]
    BY <1>2
  <2>2. C!At(q, "expire")
    BY <2>1, Bystanders DEF C!Pc
  <2> QED
    BY <1>2, <2>2 DEF Story
<1>3. ASSUME NEW r \in Request, Decides(r) PROVE Agrees' /\ Guards'
  <2>1. CASE C!CreateKyc(r)
    <3>1. application' # None
      BY <1>0, <2>1 DEF C!CreateKyc, C!Application
    <3>2. Agrees'
      BY <1>0, <2>1 DEF C!CreateKyc, Story, KycAgrees
    <3> QED
      BY <1>2, <2>1, <3>1, <3>2, StepEnds DEF C!CreateKyc, ClearanceTypes
  <2>2. CASE C!WriteDocument(r)
    <3>1. application # None
      BY <2>2 DEF C!WriteDocument, ClearanceTypes, Rows
    <3>2. application' \in C!Application /\ application'.status = "submitted"
      <4>1. reqs[r].docs \in SUBSET C!Id /\ r \in C!Id
        BY <2>2, StepType DEF C!WriteDocument, C!At, ClearanceTypes, C!Id
      <4> QED
        BY <2>2, <4>1 DEF C!WriteDocument, C!Application
    <3>3. /\ UNCHANGED <<kyc, expiry>> /\ crossed \subseteq crossed'
          /\ application.status = "approved" => "upload" \in crossed'
      BY <2>2 DEF C!WriteDocument
    <3>4. Agrees'
      BY <1>0, <3>1, <3>2, <3>3 DEF Story, KycAgrees
    <3> QED
      BY <1>0, <1>2, <2>2, <3>2, <3>4, StepEnds DEF C!WriteDocument, ClearanceTypes
  <2>3. CASE C!WriteApproval(r)
    <3>1. application # None
      BY <2>3 DEF C!WriteApproval, ClearanceTypes, Rows
    <3>2. application' \in C!Application /\ application'.status = "approved" /\ kyc' = "approved"
      BY <1>0, <2>3, <3>1 DEF C!WriteApproval, C!Application
    <3>3. Agrees'
      BY <1>0, <3>2 DEF Story, KycAgrees
    <3> QED
      BY <1>0, <1>2, <2>3, <3>2, <3>3, StepEnds DEF C!WriteApproval, ClearanceTypes
  <2>4. CASE C!WriteRejection(r)
    <3>1. application # None
      BY <2>4 DEF C!WriteRejection, ClearanceTypes, Rows
    <3>2. application' \in C!Application /\ application'.status = "rejected" /\ kyc' = "rejected"
      BY <1>0, <2>4, <3>1 DEF C!WriteRejection, C!Application
    <3>3. Agrees'
      BY <1>0, <3>2 DEF Story, KycAgrees
    <3> QED
      BY <1>0, <1>2, <2>4, <3>2, <3>3, StepEnds DEF C!WriteRejection, ClearanceTypes
  <2>5. CASE C!Expire(r)
    <3>1. /\ kyc' = "expired" /\ UNCHANGED <<expiry, application>>
          /\ crossed' = IF kyc = "approved" /\ expiry = "past" THEN crossed ELSE crossed \cup {"guard"}
      BY <2>5 DEF C!Expire
    <3>2. application # None
      BY <2>5 DEF C!Expire, Story
    <3>3. kyc = "approved" /\ expiry = "past" => application.status = "approved" \/ crossed' # {}
      BY <3>1 DEF Story, KycAgrees
    <3>4. ~(kyc = "approved" /\ expiry = "past") => crossed' # {}
      BY <3>1
    <3>5. Agrees'
      BY <3>1, <3>2, <3>3, <3>4 DEF Story, KycAgrees
    <3> QED
      BY <1>2, <2>5, <3>1, <3>2, <3>5, StepEnds DEF C!Expire, ClearanceTypes
  <2> QED
    BY <1>3, <2>1, <2>2, <2>3, <2>4, <2>5 DEF Decides
<1>4. ASSUME NEW r \in Request, Opens(r) PROVE Agrees' /\ Guards'
  <2>1. UNCHANGED <<kyc, expiry, application, crossed>>
    BY <1>4, OpensBegins DEF C!identity
  <2>2. C!At(r, "expire")' => application' # None
    BY <1>4, <2>1, OpensBegins DEF C!At, Story
  <2> QED
    BY <1>1, <1>2, <1>4, <2>1, <2>2, OpensBegins
<1>5. ASSUME NEW r \in Request,
             Screens(r) \/ C!CheckBeneficiary(r) \/ C!RunAmlChecks(r) \/ C!InsertPayment(r)
      PROVE  Agrees' /\ Guards'
  <2>1. UNCHANGED <<kyc, expiry, application, crossed>>
    BY <1>5 DEF Screens, C!CreateBeneficiary, C!UpdateBeneficiary, C!SoftDelete, C!CheckBeneficiary,
                C!RunAmlChecks, C!InsertPayment, C!identity
  <2>2. (\A q \in Request \ {r} : reqs'[q] = reqs[q]) /\ ~C!At(r, "expire")'
    BY <1>5, WritesEnd
  <2> QED
    BY <1>1, <1>2, <2>1, <2>2
<1>6. ASSUME UNCHANGED reqs,
             C!Lapse \/ C!Screen \/ C!ScreeningFails \/ (\E p \in recent : C!Leave(p)) \/ UNCHANGED C!vars
      PROVE  Agrees' /\ Guards'
  <2>1. UNCHANGED <<kyc, application, crossed>> /\ (expiry' = expiry \/ expiry' = "past")
    BY <1>6 DEF C!Lapse, C!Screen, C!ScreeningFails, C!Leave, C!vars, C!identity
  <2> QED
    BY <1>1, <1>6, <2>1 DEF Story, C!At, C!Running
<1>7. ASSUME C!Crash PROVE Agrees' /\ Guards'
  <2>1. UNCHANGED <<kyc, expiry, application, crossed>>
    BY <1>7, RestartTypes DEF C!identity
  <2>2. Guards'
    BY <1>7, RestartTypes DEF C!Pc
  <2>3. Agrees'
    BY <1>1, <2>1
  <2> QED
    BY <2>2, <2>3
<1> HIDE DEF Agrees, Guards
<1>8. Agrees' /\ Guards'
  BY <1>3, <1>4, <1>5, <1>6, <1>7, Steps
<1> QED
  BY <1>8 DEF Story, Agrees, Guards

\* A step keeps the documents that were acknowledged, and those a run has read.
LEMMA DocumentsStep ==
    ASSUME C!ClearanceAssumption, ClearanceTypes, DocumentsStay, DocumentsRead, [C!Next]_C!vars
    PROVE  DocumentsStay' /\ DocumentsRead'
<1>0. application # None => application \in C!Application
  BY DEF ClearanceTypes, C!TypeOK
<1>1. ASSUME NEW r \in Request, \A q \in Request \ {r} : reqs'[q] = reqs[q],
             ~C!At(r, "document")', UNCHANGED <<uploaded, risky>>
      PROVE  DocumentsRead'
  <2> SUFFICES ASSUME NEW q \in Request, C!At(q, "document")'
               PROVE  uploaded \subseteq risky \cup reqs'[q].docs
    BY <1>1 DEF DocumentsRead
  <2>1. q # r
    BY <1>1
  <2>2. reqs'[q] = reqs[q]
    BY <1>1, <2>1
  <2>3. C!At(q, "document")
    BY <2>2, Bystanders DEF C!Pc
  <2> QED
    BY <2>2, <2>3 DEF DocumentsRead
<1>2. ASSUME UNCHANGED <<uploaded, risky, application>> PROVE DocumentsStay'
  BY <1>2 DEF DocumentsStay
<1>3. ASSUME NEW r \in Request, Opens(r) PROVE DocumentsStay' /\ DocumentsRead'
  <2>1. UNCHANGED <<uploaded, risky, application>>
    BY <1>3, OpensBegins DEF C!identity
  <2>2. CASE reqs'[r].pc # "document"
    <3>1. ~C!At(r, "document")'
      BY <2>2 DEF C!At
    <3> QED
      BY <1>1, <1>2, <1>3, <2>1, <3>1, OpensBegins
  <2>3. CASE reqs'[r].pc = "document"
    <3>1. application # None /\ reqs'[r].docs = application.docs
      BY <1>3, <2>3, OpensBegins
    <3>2. uploaded \subseteq risky \cup reqs'[r].docs
      BY <3>1 DEF DocumentsStay
    <3> SUFFICES ASSUME NEW q \in Request, C!At(q, "document")', q # r
                 PROVE  uploaded \subseteq risky \cup reqs'[q].docs
      BY <1>2, <2>1, <3>2 DEF DocumentsRead
    <3>3. reqs'[q] = reqs[q]
      BY <1>3, OpensBegins
    <3>4. C!At(q, "document")
      BY <3>3, Bystanders DEF C!Pc
    <3> QED
      BY <3>3, <3>4 DEF DocumentsRead
  <2> QED
    BY <2>2, <2>3
<1>4. ASSUME NEW r \in Request, C!WriteDocument(r) PROVE DocumentsStay' /\ DocumentsRead'
  <2>1. /\ C!At(r, "document") /\ C!End(r) /\ uploaded' = uploaded \cup {r}
        /\ application' = [status |-> "submitted", docs |-> reqs[r].docs \cup {r}]
        /\ risky' = IF \E q \in Request \ {r} : C!At(q, "document") THEN risky \cup {r} ELSE risky
    BY <1>4 DEF C!WriteDocument
  <2>2. application' \in C!Application /\ application'.docs = reqs[r].docs \cup {r}
    <3>1. reqs[r].docs \in SUBSET C!Id /\ r \in C!Id
      BY <2>1, StepType DEF C!At, ClearanceTypes, C!Id
    <3> QED
      BY <2>1, <3>1 DEF C!Application
  <2>3. application' # None
    BY <2>2 DEF C!ClearanceAssumption
  <2>4. DocumentsStay'
    <3>1. uploaded \subseteq risky \cup reqs[r].docs
      BY <2>1 DEF DocumentsRead
    <3> QED
      BY <2>1, <2>2, <2>3, <3>1 DEF DocumentsStay
  <2>5. DocumentsRead'
    <3> SUFFICES ASSUME NEW q \in Request, C!At(q, "document")'
                 PROVE  uploaded' \subseteq risky' \cup reqs'[q].docs
      BY DEF DocumentsRead
    <3>1. q # r /\ reqs'[q] = reqs[q]
      BY <2>1, StepEnds DEF ClearanceTypes, C!At
    <3>2. C!At(q, "document")
      BY <3>1, Bystanders DEF C!Pc
    <3>3. r \in risky' /\ risky \subseteq risky'
      BY <2>1, <3>1, <3>2
    <3> QED
      BY <2>1, <3>1, <3>2, <3>3 DEF DocumentsRead
  <2> QED
    BY <2>4, <2>5
<1>5. ASSUME NEW r \in Request, C!CreateKyc(r) \/ C!WriteApproval(r) \/ C!WriteRejection(r) \/ C!Expire(r)
      PROVE  DocumentsStay' /\ DocumentsRead'
  <2>1. C!End(r) /\ UNCHANGED <<uploaded, risky>>
    BY <1>5 DEF C!CreateKyc, C!WriteApproval, C!WriteRejection, C!Expire
  <2>2. DocumentsRead'
    BY <1>1, <2>1, StepEnds DEF ClearanceTypes, C!At
  <2>3. CASE C!CreateKyc(r)
    BY <2>1, <2>2, <2>3 DEF C!CreateKyc, DocumentsStay
  <2>4. CASE C!WriteApproval(r) \/ C!WriteRejection(r)
    <3>1. application # None
      BY <2>4 DEF C!WriteApproval, C!WriteRejection, ClearanceTypes, Rows
    <3>2. application' \in C!Application /\ application'.docs = application.docs
      BY <1>0, <2>4, <3>1 DEF C!WriteApproval, C!WriteRejection, C!Application
    <3> QED
      BY <2>1, <3>1, <3>2, <2>2 DEF DocumentsStay, C!ClearanceAssumption
  <2>5. CASE C!Expire(r)
    BY <1>2, <2>1, <2>2, <2>5 DEF C!Expire
  <2> QED
    BY <1>5, <2>2, <2>3, <2>4, <2>5
<1>6. ASSUME NEW r \in Request,
             Screens(r) \/ C!CheckBeneficiary(r) \/ C!RunAmlChecks(r) \/ C!InsertPayment(r)
      PROVE  DocumentsStay' /\ DocumentsRead'
  <2>1. UNCHANGED <<uploaded, risky, application>>
    BY <1>6 DEF Screens, C!CreateBeneficiary, C!UpdateBeneficiary, C!SoftDelete, C!CheckBeneficiary,
                C!RunAmlChecks, C!InsertPayment, C!identity
  <2>2. (\A q \in Request \ {r} : reqs'[q] = reqs[q]) /\ ~C!At(r, "document")'
    BY <1>6, WritesEnd
  <2> QED
    BY <1>1, <1>2, <2>1, <2>2
<1>7. ASSUME UNCHANGED reqs,
             C!Lapse \/ C!Screen \/ C!ScreeningFails \/ (\E p \in recent : C!Leave(p)) \/ UNCHANGED C!vars
      PROVE  DocumentsStay' /\ DocumentsRead'
  <2>1. UNCHANGED <<uploaded, risky, application>>
    BY <1>7 DEF C!Lapse, C!Screen, C!ScreeningFails, C!Leave, C!vars, C!identity
  <2> QED
    BY <1>2, <1>7, <2>1 DEF DocumentsRead, C!At, C!Running
<1>8. ASSUME C!Crash PROVE DocumentsStay' /\ DocumentsRead'
  <2>1. UNCHANGED <<uploaded, risky, application>>
    BY <1>8, RestartTypes DEF C!identity
  <2> QED
    BY <1>2, <1>8, <2>1, RestartTypes DEF DocumentsRead, C!Pc
<1> QED
  BY <1>3, <1>4, <1>5, <1>6, <1>7, <1>8, Steps DEF Decides

----------------------------------------------------------------------------
(* The beneficiary.                                                        *)

LEMMA ScreeningStep ==
    ASSUME C!ClearanceAssumption, ClearanceTypes, ScreeningFollows, [C!Next]_C!vars
    PROVE  ScreeningFollows'
<1>0. C!TypeOK /\ (beneficiary # None => beneficiary \in C!Beneficiary)
  BY DEF ClearanceTypes, C!TypeOK
<1>1. ASSUME UNCHANGED C!screening PROVE ScreeningFollows'
  BY <1>1 DEF ScreeningFollows, C!screening
<1>2. ASSUME NEW r \in Request, C!CreateBeneficiary(r) PROVE ScreeningFollows'
  <2>1. beneficiary'.status = "pending" /\ C!Enqueue
    BY <1>2 DEF C!CreateBeneficiary
  <2> QED
    BY <1>0, <2>1, EnqueueTypes DEF ScreeningFollows
<1>3. ASSUME NEW r \in Request, C!UpdateBeneficiary(r) PROVE ScreeningFollows'
  <2>1. beneficiary \in C!Beneficiary
    BY <1>0, <1>3 DEF C!UpdateBeneficiary, ClearanceTypes, Rows
  <2>2. CASE UNCHANGED C!screening
    BY <1>1, <2>2
  <2>3. CASE C!Enqueue /\ UNCHANGED <<beneficiary, screened>>
    BY <1>0, <2>3, EnqueueTypes DEF ScreeningFollows
  <2>4. CASE /\ C!Enqueue
             /\ beneficiary' = [beneficiary EXCEPT !.status = "pending", !.details = r]
    <3>1. beneficiary'.status = "pending"
      BY <2>1, <2>4 DEF C!Beneficiary
    <3> QED
      BY <1>0, <2>4, <3>1, EnqueueTypes DEF ScreeningFollows
  <2> QED
    BY <1>3, <2>2, <2>3, <2>4 DEF C!UpdateBeneficiary, C!screening
<1>4. ASSUME NEW r \in Request, C!SoftDelete(r) PROVE ScreeningFollows'
  <2>1. beneficiary \in C!Beneficiary /\ beneficiary # None
    BY <1>0, <1>4 DEF C!SoftDelete, ClearanceTypes, Rows
  <2>2. beneficiary'.status = beneficiary.status /\ beneficiary'.details = beneficiary.details
    BY <1>4, <2>1 DEF C!SoftDelete, C!Beneficiary
  <2> QED
    BY <1>4, <2>1, <2>2 DEF C!SoftDelete, ScreeningFollows
<1>5. ASSUME C!Screen PROVE ScreeningFollows'
  <2>1. beneficiary \in C!Beneficiary
    BY <1>0, <1>5 DEF C!Screen, ClearanceTypes, C!TypeOK, Rows
  <2>2. beneficiary'.status = "clear" /\ beneficiary'.details = beneficiary.details
    BY <1>5, <2>1 DEF C!Screen, C!Beneficiary
  <2> QED
    BY <1>5, <2>2 DEF C!Screen, ScreeningFollows
<1>6. ASSUME C!ScreeningFails PROVE ScreeningFollows'
  BY <1>6 DEF C!ScreeningFails, ScreeningFollows
<1>7. ASSUME NEW r \in Request,
             Opens(r) \/ Decides(r) \/ C!CheckBeneficiary(r) \/ C!RunAmlChecks(r) \/ C!InsertPayment(r)
      PROVE  UNCHANGED C!screening
  <2>1. CASE Opens(r)
    BY <2>1, OpensBegins
  <2>2. CASE Decides(r)
    BY <2>2 DEF Decides, C!CreateKyc, C!WriteDocument, C!WriteApproval, C!WriteRejection, C!Expire
  <2> QED
    BY <1>7, <2>1, <2>2 DEF C!CheckBeneficiary, C!RunAmlChecks, C!InsertPayment
<1>8. ASSUME C!Lapse \/ (\E p \in recent : C!Leave(p)) \/ UNCHANGED C!vars \/ C!Crash
      PROVE  UNCHANGED C!screening
  BY <1>8 DEF C!Lapse, C!Leave, C!Crash, C!vars, C!screening
<1> QED
  BY <1>1, <1>2, <1>3, <1>4, <1>5, <1>6, <1>7, <1>8, Steps DEF Screens

----------------------------------------------------------------------------
(* The amount.                                                             *)

\* A submission that no other one came between has found no less than the
\* total: since then payments have left only.
TotalsHeld == \A r \in Request \ overtaken : C!At(r, "insert") => C!Total <= sums[r]

Velocity == TotalsHeld /\ VelocityHolds

LEMMA TotalFalls ==
    ASSUME C!ClearanceAssumption, ClearanceTypes, NEW p \in recent, C!Leave(p)
    PROVE  C!Total' \in Nat /\ C!Total' <= C!Total
<1>1. \A q \in recent : q.amount \in Nat
  BY TotalIsNatural
<1>2. SumOf(recent) = p.amount + SumOf(recent \ {p})
  BY <1>1, SumOfRest DEF ClearanceTypes
<1>3. SumOf(recent \ {p}) \in Nat
  <2>1. IsFiniteSet(recent \ {p})
    BY FS_Subset DEF ClearanceTypes
  <2> QED
    BY <1>1, <2>1, SumIsNatural
<1>4. C!Total' = SumOf(recent \ {p})
  <2>1. C!Total' = SumOf(recent')
    BY DEF C!Total, C!MapThenSumSet, C!MapThenFoldSet, SumOf, SumsUp, Pick
  <2> QED
    BY <2>1 DEF C!Leave
<1>5. C!Total = SumOf(recent) /\ p.amount \in Nat
  BY <1>1, TotalIsSum
<1> QED
  BY <1>2, <1>3, <1>4, <1>5

LEMMA SameTotal ==
    ASSUME UNCHANGED recent
    PROVE  C!Total' = C!Total
BY DEF C!Total, C!MapThenSumSet, C!MapThenFoldSet

LEMMA VelocityStep ==
    ASSUME C!ClearanceAssumption, ClearanceTypes, Velocity, [C!Next]_C!vars
    PROVE  Velocity'
<1>0. C!TypeOK /\ C!Total \in Nat
  BY TotalIsNatural DEF ClearanceTypes
<1>1. ASSUME NEW r \in Request, \A q \in Request \ {r} : reqs'[q] = reqs[q] /\ sums'[q] = sums[q],
             ~C!At(r, "insert")', UNCHANGED <<recent, above, overtaken>>
      PROVE  Velocity'
  <2> SUFFICES ASSUME NEW q \in Request \ overtaken, C!At(q, "insert")'
               PROVE  C!Total <= sums'[q]
    BY <1>1, SameTotal DEF Velocity, TotalsHeld, VelocityHolds
  <2>1. q # r
    BY <1>1
  <2>2. reqs'[q] = reqs[q] /\ sums'[q] = sums[q]
    BY <1>1, <2>1
  <2>3. C!At(q, "insert")
    BY <2>2, Bystanders DEF C!Pc
  <2> QED
    BY <2>2, <2>3 DEF Velocity, TotalsHeld
<1>2. ASSUME NEW r \in Request, Opens(r) \/ Decides(r) \/ Screens(r) \/ C!CheckBeneficiary(r)
      PROVE  Velocity'
  <2>1. UNCHANGED C!amounts
    <3>1. CASE Opens(r)
      BY <3>1, OpensBegins
    <3>2. CASE Decides(r)
      BY <3>2 DEF Decides, C!CreateKyc, C!WriteDocument, C!WriteApproval, C!WriteRejection, C!Expire
    <3>3. CASE Screens(r) \/ C!CheckBeneficiary(r)
      BY <3>3 DEF Screens, C!CreateBeneficiary, C!UpdateBeneficiary, C!SoftDelete, C!CheckBeneficiary
    <3> QED
      BY <1>2, <3>1, <3>2, <3>3
  <2>2. (\A q \in Request \ {r} : reqs'[q] = reqs[q]) /\ ~C!At(r, "insert")'
    <3>1. CASE Opens(r)
      BY <3>1, OpensBegins DEF C!At
    <3>2. CASE C!End(r)
      BY <1>0, <3>2, StepEnds DEF C!At
    <3>3. CASE C!Running(r) /\ C!GoTo(r, "aml")
      <4>1. reqs'[r].pc = "aml" /\ \A q \in Request \ {r} : reqs'[q] = reqs[q]
        BY <1>0, <3>3, StepMoves DEF C!Pc
      <4> QED
        BY <4>1 DEF C!At
    <3> QED
      BY <1>2, <3>1, <3>2, <3>3 DEF Decides, C!CreateKyc, C!WriteDocument, C!WriteApproval, C!WriteRejection,
             C!Expire, Screens, C!CreateBeneficiary, C!UpdateBeneficiary, C!SoftDelete, C!CheckBeneficiary, C!At
  <2> QED
    BY <1>1, <2>1, <2>2 DEF C!amounts
<1>3. ASSUME NEW r \in Request, C!RunAmlChecks(r) PROVE Velocity'
  <2>1. /\ C!Running(r) /\ C!GoTo(r, "insert") /\ sums' = [sums EXCEPT ![r] = C!Total]
        /\ UNCHANGED <<recent, above, overtaken>>
    BY <1>3 DEF C!RunAmlChecks, C!At
  <2>2. \A q \in Request \ {r} : reqs'[q] = reqs[q]
    BY <1>0, <2>1, StepMoves DEF C!Pc
  <2> SUFFICES ASSUME NEW q \in Request \ overtaken, C!At(q, "insert")'
               PROVE  C!Total <= sums'[q]
    BY <2>1, SameTotal DEF Velocity, TotalsHeld, VelocityHolds
  <2>3. CASE q = r
    BY <1>0, <2>1, <2>3 DEF C!TypeOK
  <2>4. CASE q # r
    <3>1. reqs'[q] = reqs[q] /\ sums'[q] = sums[q]
      BY <1>0, <2>1, <2>2, <2>4 DEF C!TypeOK
    <3>2. C!At(q, "insert")
      BY <3>1, Bystanders DEF C!Pc
    <3> QED
      BY <3>1, <3>2 DEF Velocity, TotalsHeld
  <2> QED
    BY <2>3, <2>4
<1>4. ASSUME NEW r \in Request, C!InsertPayment(r) PROVE Velocity'
  <2> DEFINE amount == reqs[r].amount
             status == C!InitialStatus(amount, sums[r])
  <2>1. /\ C!At(r, "insert") /\ C!End(r)
        /\ above' = IF C!Total + amount > 50 * C!Thousand /\ status # "pending_compliance"
                    THEN above \cup {r} ELSE above
        /\ overtaken' = overtaken \cup {q \in Request \ {r} : C!At(q, "insert")}
    BY <1>4 DEF C!InsertPayment
  <2>2. TotalsHeld'
    <3> SUFFICES ASSUME NEW q \in Request, q \notin overtaken', C!At(q, "insert")' PROVE FALSE
      BY DEF TotalsHeld
    <3>1. q # r /\ reqs'[q] = reqs[q]
      BY <1>0, <2>1, StepEnds DEF C!At
    <3>2. C!At(q, "insert")
      BY <3>1, Bystanders DEF C!Pc
    <3> QED
      BY <2>1, <3>1, <3>2
  <2>3. r \notin overtaken /\ C!Total + amount > 50 * C!Thousand => status = "pending_compliance"
    <3>1. amount \in Nat /\ sums[r] \in Nat
      BY <1>0, <2>1 DEF ClearanceTypes, AmountsHeld, C!ClearanceAssumption, C!TypeOK
    <3>2. r \notin overtaken => C!Total <= sums[r]
      BY <2>1 DEF Velocity, TotalsHeld
    <3>3. sums[r] + amount > 50 * C!Thousand => status = "pending_compliance"
      BY DEF C!InitialStatus, C!Flagged
    <3> HIDE DEF amount, status
    <3> QED
      BY <1>0, <3>1, <3>2, <3>3 DEF C!Thousand
  <2>4. VelocityHolds'
    BY <2>1, <2>3 DEF Velocity, VelocityHolds
  <2> QED
    BY <2>2, <2>4 DEF Velocity
<1>5. ASSUME UNCHANGED reqs,
             C!Lapse \/ C!Screen \/ C!ScreeningFails \/ (\E p \in recent : C!Leave(p)) \/ UNCHANGED C!vars
      PROVE  Velocity'
  <2>1. UNCHANGED <<sums, above, overtaken>>
    BY <1>5 DEF C!Lapse, C!Screen, C!ScreeningFails, C!Leave, C!vars, C!amounts
  <2>2. C!Total' \in Int /\ C!Total' <= C!Total
    <3>1. CASE UNCHANGED recent
      BY <1>0, <3>1, SameTotal
    <3>2. CASE \E p \in recent : C!Leave(p)
      BY <3>2, TotalFalls
    <3> QED
      BY <1>5, <3>1, <3>2 DEF C!Lapse, C!Screen, C!ScreeningFails, C!vars, C!amounts
  <2>3. \A q \in Request : C!At(q, "insert")' <=> C!At(q, "insert")
    BY <1>5 DEF C!At, C!Running
  <2>4. \A q \in Request : sums[q] \in Nat
    BY <1>0 DEF C!TypeOK
  <2> QED
    BY <1>0, <2>1, <2>2, <2>3, <2>4 DEF Velocity, TotalsHeld, VelocityHolds
<1>6. ASSUME C!Crash PROVE Velocity'
  BY <1>6, RestartTypes DEF Velocity, TotalsHeld, VelocityHolds, C!Pc
<1> QED
  BY <1>2, <1>3, <1>4, <1>5, <1>6, Steps

----------------------------------------------------------------------------
\* The types of Clearance, and that a run which writes a row knows of one.
THEOREM ClearanceTypeCorrect ==
    ASSUME C!ClearanceAssumption
    PROVE  C!Spec => []C!TypeOK
<1>1. C!Init => ClearanceTypes
  BY ClearanceStarts
<1>2. ClearanceTypes /\ [C!Next]_C!vars => ClearanceTypes'
  BY ClearanceTypesKept
<1>3. ClearanceTypes => C!TypeOK
  BY DEF ClearanceTypes
<1> QED
  BY <1>1, <1>2, <1>3, PTL DEF C!Spec

\* KycAgrees: whatever reviews, uploads and expiries there are, the user and the
\* application tell the same story, unless a writer overtook a decision.
THEOREM UserAndApplicationAgree ==
    ASSUME C!ClearanceAssumption
    PROVE  C!Spec => []KycAgrees
<1>1. C!Init => ClearanceTypes /\ Story
  <2> SUFFICES ASSUME C!Init PROVE ClearanceTypes /\ Story
    OBVIOUS
  <2>1. \A r \in Request : ~C!At(r, "expire")
    BY DEF C!Init, C!At, C!Running
  <2>2. [status |-> "approved", docs |-> {Seed}] # None
    <3>1. [status |-> "approved", docs |-> {Seed}] \in C!Application
      BY DEF C!Application, C!Id
    <3> QED
      BY <3>1 DEF C!ClearanceAssumption
  <2>3. CASE kyc = "pending" /\ application = None
    BY <2>1, <2>3, ClearanceStarts DEF Story, KycAgrees
  <2>4. CASE kyc = "approved" /\ application = [status |-> "approved", docs |-> {Seed}]
    BY <2>1, <2>2, <2>4, ClearanceStarts DEF Story, KycAgrees
  <2> QED
    BY <2>3, <2>4 DEF C!Init
<1>2. ClearanceTypes /\ Story /\ [C!Next]_C!vars => (ClearanceTypes /\ Story)'
  BY ClearanceTypesKept, StoryStep
<1>3. Story => KycAgrees
  BY DEF Story
<1> QED
  BY <1>1, <1>2, <1>3, PTL DEF C!Spec

\* DocumentsStay: a document whose upload was answered stays in the application
\* unless another upload had read the list before.
THEOREM AcknowledgedDocumentsStay ==
    ASSUME C!ClearanceAssumption
    PROVE  C!Spec => []DocumentsStay
<1> DEFINE Documents == DocumentsStay /\ DocumentsRead
<1>1. C!Init => ClearanceTypes /\ Documents
  BY ClearanceStarts DEF C!Init, DocumentsStay, DocumentsRead
<1>2. ClearanceTypes /\ Documents /\ [C!Next]_C!vars => (ClearanceTypes /\ Documents)'
  BY ClearanceTypesKept, DocumentsStep
<1>3. Documents => DocumentsStay
  OBVIOUS
<1> QED
  BY <1>1, <1>2, <1>3, PTL DEF C!Spec

\* ScreeningFollows: a beneficiary is clear with the details that were screened
\* only, and one that waits for it has a job unless one was lost.
THEOREM ScreeningIsFollowed ==
    ASSUME C!ClearanceAssumption
    PROVE  C!Spec => []ScreeningFollows
<1>1. C!Init => ClearanceTypes /\ ScreeningFollows
  <2> SUFFICES ASSUME C!Init PROVE ScreeningFollows
    BY ClearanceStarts
  <2>1. beneficiary = None \/ beneficiary.status = "flagged"
    BY DEF C!Init
  <2> QED
    BY <2>1 DEF ScreeningFollows
<1>2. ClearanceTypes /\ ScreeningFollows /\ [C!Next]_C!vars => (ClearanceTypes /\ ScreeningFollows)'
  BY ClearanceTypesKept, ScreeningStep
<1> QED
  BY <1>1, <1>2, PTL DEF C!Spec

\* VelocityHolds, with the totals that submissions have found (TotalsHeld): for
\* any amounts and any finite number of submissions, a payment above the daily
\* limit is flagged unless another submission came between.
THEOREM DailyLimitHolds ==
    ASSUME C!ClearanceAssumption
    PROVE  C!Spec => []VelocityHolds
<1>1. C!Init => ClearanceTypes /\ Velocity
  <2> SUFFICES ASSUME C!Init PROVE ClearanceTypes /\ Velocity
    OBVIOUS
  <2>1. \A r \in Request : ~C!At(r, "insert")
    BY DEF C!Init, C!At, C!Running
  <2> QED
    BY <2>1, ClearanceStarts DEF C!Init, Velocity, TotalsHeld, VelocityHolds
<1>2. ClearanceTypes /\ Velocity /\ [C!Next]_C!vars => (ClearanceTypes /\ Velocity)'
  BY ClearanceTypesKept, VelocityStep
<1>3. Velocity => VelocityHolds
  BY DEF Velocity
<1> QED
  BY <1>1, <1>2, <1>3, PTL DEF C!Spec
=============================================================================
