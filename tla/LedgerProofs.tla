---------------------------- MODULE LedgerProofs ----------------------------
(***************************************************************************)
(* Theorems about Ledger, for any set of transactions, any amounts and any *)
(* bound on the clock.                                                     *)
(*                                                                         *)
(* The argument.  Commit times grow along the ledger and created_at lies   *)
(* before them (Times).  A transaction that began after every committed    *)
(* one selected the entry that is still the latest when it commits         *)
(* (SeesLatest): had another one committed in between, that one would not  *)
(* have committed before it began.  So without overlap each entry extends  *)
(* the balance shown, and the balance shown is the total.  What an overlap *)
(* can cost is proved from LossInv, further down.                          *)
(***************************************************************************)
EXTENDS Ledger, SequenceTheorems, WellFoundedInduction, TLAPS

Times ==
    /\ \A i \in 1 .. Len(entries) : /\ entries[i].at < entries[i].done
                                    /\ entries[i].done <= clock
    /\ \A i, j \in 1 .. Len(entries) : i < j => entries[i].done < entries[j].done
    /\ \A t \in Txn : txns[t].pc # "idle" => txns[t].at <= clock

\* Everything in the ledger was committed before t began.
BeganAfterAll(t) == \A j \in 1 .. Len(entries) : entries[j].done < txns[t].at

SeesLatest ==
    \A t \in Txn :
        txns[t].pc \in {"waiting", "locked"} /\ BeganAfterAll(t) =>
            txns[t].last = Latest

IInv == TypeOK /\ Times /\ SeesLatest

----------------------------------------------------------------------------
(* Facts about the operators.                                              *)

LEMMA SignedType ==
    ASSUME NEW kind, NEW amount \in Amount
    PROVE  Signed(kind, amount) \in Int
BY LedgerAssumption DEF Signed

\* A set of numbers below a bound has a greatest element.
LEMMA GreatestExists ==
    ASSUME NEW n \in Nat \ {0}, NEW c \in Nat, NEW f,
           \A i \in 1 .. n : f[i] \in Nat /\ f[i] <= c
    PROVE  \E i \in 1 .. n : \A j \in 1 .. n : f[j] <= f[i]
<1> DEFINE T == {c - f[i] : i \in 1 .. n}
<1>1. T \subseteq Nat
  OBVIOUS
<1>2. T # {}
  <2>1. c - f[1] \in T
    BY 1 \in 1 .. n
  <2> QED
    BY <2>1
<1>3. \E x \in T : \A y \in T : ~(<<y, x>> \in OpToRel(<, Nat))
  <2> HIDE DEF T
  <2> QED
    BY <1>1, <1>2, WFMin, NatLessThanWellFounded
<1>4. PICK x \in T : \A y \in T : ~(<<y, x>> \in OpToRel(<, Nat))
  BY <1>3
<1>5. PICK i \in 1 .. n : x = c - f[i]
  BY <1>4
<1>6. ASSUME NEW j \in 1 .. n
      PROVE  f[j] <= f[i]
  <2>1. c - f[j] \in T
    OBVIOUS
  <2>2. ~(c - f[j] < c - f[i])
    BY <1>1, <1>4, <1>5, <2>1 DEF OpToRel
  <2> QED
    BY <2>2
<1> QED
  BY <1>6

LEMMA EntryTimes ==
    ASSUME TypeOK, Times, NEW i \in 1 .. Len(entries)
    PROVE  /\ entries[i] \in Entry
           /\ entries[i].at \in Nat /\ entries[i].done \in Nat
           /\ entries[i].after \in Int
           /\ entries[i].at < entries[i].done /\ entries[i].done <= clock
           /\ clock \in Nat
<1>1. entries \in Seq(Entry) /\ clock \in Nat
  BY LedgerAssumption DEF TypeOK
<1>2. entries[i] \in Entry
  BY <1>1, ElementOfSeq
<1> QED
  BY <1>1, <1>2 DEF Entry, Times

LEMMA LatestInRange ==
    ASSUME TypeOK, Times, NEW n \in 0 .. Len(entries)
    PROVE  LatestAmong(n) \in 0 .. n
<1>1. CASE n = 0
  BY <1>1 DEF LatestAmong
<1>2. CASE n # 0
  <2> DEFINE f == [i \in 1 .. n |-> entries[i].at]
  <2>1. n \in Nat \ {0} /\ n <= Len(entries) /\ clock \in Nat
    BY <1>2, LedgerAssumption DEF TypeOK
  <2>2. ASSUME NEW i \in 1 .. n
        PROVE  f[i] \in Nat /\ f[i] <= clock
    <3>1. i \in 1 .. Len(entries)
      BY <2>1 DEF TypeOK
    <3> QED
      BY <3>1, EntryTimes
  <2>3. \E i \in 1 .. n : \A j \in 1 .. n : f[j] <= f[i]
    <3> HIDE DEF f
    <3> QED
      BY <2>1, <2>2, GreatestExists
  <2>4. \E i \in 1 .. n : \A j \in 1 .. n : entries[j].at <= entries[i].at
    BY <2>3
  <2>5. (CHOOSE i \in 1 .. n :
           \A j \in 1 .. n : entries[j].at <= entries[i].at) \in 1 .. n
    BY <2>4, Zenon
  <2>6. LatestAmong(n) \in 1 .. n
    BY <1>2, <2>5 DEF LatestAmong
  <2> QED
    BY <2>1, <2>6
<1> QED
  BY <1>1, <1>2

LEMMA AfterType ==
    ASSUME TypeOK, NEW i \in 0 .. Len(entries)
    PROVE  After(i) \in Int
<1>1. CASE i = 0
  BY <1>1 DEF After
<1>2. CASE i # 0
  <2>1. i \in 1 .. Len(entries) /\ entries \in Seq(Entry)
    BY <1>2 DEF TypeOK
  <2>2. entries[i] \in Entry
    BY <2>1, ElementOfSeq
  <2> QED
    BY <1>2, <2>2 DEF After, Entry
<1> QED
  BY <1>1, <1>2

LEMMA UponType ==
    ASSUME TypeOK, NEW i \in 0 .. Len(entries)
    PROVE  Upon(i) \in SUBSET Nat
<1>1. CASE i = 0
  BY <1>1 DEF Upon
<1>2. CASE i # 0
  <2>1. i \in 1 .. Len(entries) /\ entries \in Seq(Entry)
    BY <1>2 DEF TypeOK
  <2>2. entries[i] \in Entry
    BY <2>1, ElementOfSeq
  <2> QED
    BY <1>2, <2>2 DEF Upon, Entry
<1> QED
  BY <1>1, <1>2

LEMMA NewBalanceType ==
    ASSUME TypeOK, NEW t \in Txn, txns[t].pc # "idle"
    PROVE  NewBalance(t) \in Int
<1>1. txns[t].last \in 0 .. Len(entries) /\ txns[t].amount \in Amount
  BY DEF TypeOK
<1> QED
  BY <1>1, AfterType, SignedType DEF NewBalance

\* What Commit does to the sequence of entries.
LEMMA CommitAppends ==
    ASSUME IInv, NEW t \in Txn, Commit(t)
    PROVE  /\ entries' \in Seq(Entry)
           /\ Len(entries) \in Nat
           /\ Len(entries') = Len(entries) + 1
           /\ \A i \in 1 .. Len(entries) : entries'[i] = entries[i]
           /\ entries'[Len(entries) + 1].kind = txns[t].kind
           /\ entries'[Len(entries) + 1].amount = txns[t].amount
           /\ entries'[Len(entries) + 1].after = NewBalance(t)
           /\ entries'[Len(entries) + 1].at = txns[t].at
           /\ entries'[Len(entries) + 1].done = clock + 1
           /\ entries'[Len(entries) + 1].upon =
                Upon(txns[t].last) \cup {Len(entries) + 1}
           /\ txns[t].at <= clock /\ txns[t].at \in Nat
<1> DEFINE n == Len(entries)
           e == [kind |-> txns[t].kind, amount |-> txns[t].amount,
                 after |-> NewBalance(t), at |-> txns[t].at,
                 done |-> clock + 1, upon |-> Upon(txns[t].last) \cup {n + 1}]
<1>1. txns[t] \in TxnState /\ txns[t].pc = "locked" /\ txns[t].amount \in Amount
  BY DEF IInv, TypeOK, Commit
<1>2. e \in Entry
  <2>1. Upon(txns[t].last) \in SUBSET Nat /\ n \in Nat
    BY UponType DEF IInv, TypeOK
  <2>2. NewBalance(t) \in Int /\ clock \in Nat
    BY <1>1, NewBalanceType, LedgerAssumption DEF IInv, TypeOK
  <2> QED
    BY <1>1, <2>1, <2>2 DEF TxnState, Entry
<1>3. entries \in Seq(Entry) /\ entries' = Append(entries, e)
  BY DEF IInv, TypeOK, Commit
<1>4. txns[t].at <= clock /\ txns[t].at \in Nat
  BY <1>1 DEF IInv, Times, TxnState
<1>5. /\ e.kind = txns[t].kind /\ e.amount = txns[t].amount
      /\ e.after = NewBalance(t) /\ e.at = txns[t].at /\ e.done = clock + 1
      /\ e.upon = Upon(txns[t].last) \cup {n + 1}
  OBVIOUS
<1> HIDE DEF e
<1>6. /\ entries' \in Seq(Entry)
      /\ Len(entries') = n + 1
      /\ \A i \in 1 .. n : entries'[i] = entries[i]
      /\ entries'[n + 1] = e
  BY <1>2, <1>3, AppendProperties
<1>7. n \in Nat
  BY <1>3
<1> QED
  BY <1>4, <1>5, <1>6, <1>7

\* What has been committed does not change what was the latest before.
LEMMA LatestOfPrefix ==
    ASSUME IInv, NEW t \in Txn, Commit(t), NEW n \in 0 .. Len(entries)
    PROVE  /\ LatestAmong(n)' = LatestAmong(n)
           /\ LatestAmong(n) \in 0 .. n
           /\ \A i \in 0 .. n : After(i)' = After(i)
<1>1. \A i \in 1 .. n : entries'[i] = entries[i]
  <2>1. n <= Len(entries) /\ Len(entries) \in Nat
    BY CommitAppends
  <2>2. \A i \in 1 .. Len(entries) : entries'[i] = entries[i]
    BY CommitAppends
  <2> QED
    BY <2>1, <2>2
<1>2. \A i \in 1 .. n : (\A j \in 1 .. n : entries'[j].at <= entries'[i].at)
                          <=> (\A j \in 1 .. n : entries[j].at <= entries[i].at)
  BY <1>1
<1>3. (CHOOSE i \in 1 .. n : \A j \in 1 .. n : entries'[j].at <= entries'[i].at)
        = (CHOOSE i \in 1 .. n : \A j \in 1 .. n : entries[j].at <= entries[i].at)
  BY <1>2, Zenon
<1>4. LatestAmong(n)' = LatestAmong(n)
  <2>1. CASE n = 0
    BY <2>1 DEF LatestAmong
  <2>2. CASE n # 0
    <3>1. LatestAmong(n) =
            CHOOSE i \in 1 .. n : \A j \in 1 .. n : entries[j].at <= entries[i].at
      BY <2>2, Zenon DEF LatestAmong
    <3>2. LatestAmong(n)' =
            CHOOSE i \in 1 .. n : \A j \in 1 .. n : entries'[j].at <= entries'[i].at
      BY <2>2, Zenon DEF LatestAmong
    <3> QED
      BY <1>3, <3>1, <3>2, Zenon
  <2> QED
    BY <2>1, <2>2
<1>5. LatestAmong(n) \in 0 .. n
  BY LatestInRange DEF IInv
<1>6. ASSUME NEW i \in 0 .. n
      PROVE  After(i)' = After(i)
  BY <1>1 DEF After
<1> QED
  BY <1>4, <1>5, <1>6

----------------------------------------------------------------------------
(* Each action keeps the invariant.                                        *)

\* The four actions that do not commit leave the ledger alone.
LEMMA LedgerUntouched ==
    ASSUME UNCHANGED <<entries, total>>
    PROVE  /\ Latest' = Latest
           /\ \A i : After(i)' = After(i)
           /\ (ExactWithoutOverlap)' <=> ExactWithoutOverlap
           /\ (ExtendsWhatIsShown)' <=> ExtendsWhatIsShown
<1>1. Latest' = Latest
  BY DEF Latest, LatestAmong
<1>2. ASSUME NEW i PROVE After(i)' = After(i)
  BY DEF After
<1>3. (ExactWithoutOverlap)' <=> ExactWithoutOverlap
  BY DEF ExactWithoutOverlap, Disjoint, SerialTo, BalanceIsTotal, Balance,
         After, Latest, LatestAmong
<1>4. (ExtendsWhatIsShown)' <=> ExtendsWhatIsShown
  BY DEF ExtendsWhatIsShown, After, LatestAmong, Signed
<1> QED
  BY <1>1, <1>2, <1>3, <1>4

LEMMA BeginKeeps ==
    ASSUME IInv, NEW t \in Txn, Begin(t)
    PROVE  IInv'
<1> USE DEF IInv
<1>1. clock \in Nat /\ clock' = clock + 1 /\ clock' \in 0 .. MaxClock
  BY LedgerAssumption DEF TypeOK, Begin
<1>2. entries' = entries /\ total' = total
  BY DEF Begin
<1>3. PICK kind \in Kind, amount \in Amount :
         txns' = [txns EXCEPT ![t] = [pc |-> "begun", kind |-> kind,
                                      amount |-> amount, at |-> clock',
                                      last |-> 0]]
  BY DEF Begin
<1>4. TypeOK'
  <2>1. txns' \in [Txn -> TxnState]
    BY <1>1, <1>3 DEF TypeOK, TxnState
  <2>2. \A u \in Txn : /\ txns'[u].last \in 0 .. Len(entries)
                       /\ txns'[u].pc # "idle" => txns'[u].amount \in Amount
    BY <1>3 DEF TypeOK
  <2> QED
    BY <1>1, <1>2, <2>1, <2>2 DEF TypeOK
<1>5. Times'
  <2>1. \A i \in 1 .. Len(entries) : entries[i].at < entries[i].done
                                       /\ entries[i].done <= clock'
    BY <1>1, EntryTimes DEF Times
  <2>2. \A u \in Txn : txns'[u].pc # "idle" => txns'[u].at <= clock'
    BY <1>1, <1>3 DEF Times, TypeOK, TxnState
  <2> QED
    BY <1>2, <2>1, <2>2 DEF Times
<1>6. SeesLatest'
  <2>1. ASSUME NEW u \in Txn, txns'[u].pc \in {"waiting", "locked"}
        PROVE  txns'[u] = txns[u]
    BY <1>3, <2>1 DEF TypeOK
  <2> QED
    BY <1>2, <2>1, LedgerUntouched DEF SeesLatest, BeganAfterAll
<1> QED
  BY <1>4, <1>5, <1>6

LEMMA SelectKeeps ==
    ASSUME IInv, NEW t \in Txn, Select(t)
    PROVE  IInv'
<1> USE DEF IInv
<1>1. entries' = entries /\ total' = total /\ clock' = clock
  BY DEF Select
<1>2. PICK pc \in {"waiting", "locked"} :
         txns' = [txns EXCEPT ![t].last = Latest, ![t].pc = pc]
  BY DEF Select
<1>3. Latest \in 0 .. Len(entries) /\ Len(entries) \in Nat
  BY LatestInRange DEF Latest, TypeOK
<1>4. TypeOK'
  <2>1. [txns[t] EXCEPT !.last = Latest, !.pc = pc] \in TxnState
    <3>1. txns[t] \in TxnState /\ Latest \in Nat
      BY <1>3 DEF TypeOK
    <3> HIDE DEF IInv
    <3> QED
      BY <3>1 DEF TxnState
  <2>2. txns' = [txns EXCEPT ![t] = [txns[t] EXCEPT !.last = Latest, !.pc = pc]]
    BY <1>2 DEF TypeOK
  <2>3. txns' \in [Txn -> TxnState]
    BY <2>1, <2>2 DEF TypeOK
  <2>4. \A u \in Txn : /\ txns'[u].last \in 0 .. Len(entries)
                       /\ txns'[u].pc # "idle" => txns'[u].amount \in Amount
    BY <1>2, <1>3 DEF TypeOK, Select
  <2> QED
    BY <1>1, <2>3, <2>4 DEF TypeOK
<1>5. Times'
  BY <1>1, <1>2 DEF Times, TypeOK, Select
<1>6. SeesLatest'
  <2>1. \A u \in Txn : txns'[u].at = txns[u].at
    BY <1>2 DEF TypeOK, TxnState
  <2>2. txns'[t].last = Latest
    BY <1>2 DEF TypeOK, TxnState
  <2>3. \A u \in Txn \ {t} : txns'[u] = txns[u]
    BY <1>2 DEF TypeOK
  <2> QED
    BY <1>1, <2>1, <2>2, <2>3, LedgerUntouched DEF SeesLatest, BeganAfterAll
<1> QED
  BY <1>4, <1>5, <1>6

LEMMA AcquireKeeps ==
    ASSUME IInv, NEW t \in Txn, Acquire(t)
    PROVE  IInv'
<1> USE DEF IInv
<1>1. entries' = entries /\ total' = total /\ clock' = clock
  BY DEF Acquire
<1>2. /\ txns' = [txns EXCEPT ![t].pc = "locked"]
      /\ txns[t].pc = "waiting"
  BY DEF Acquire
<1>3. TypeOK'
  BY <1>1, <1>2 DEF TypeOK, TxnState
<1>4. Times'
  BY <1>1, <1>2 DEF Times, TypeOK
<1>5. SeesLatest'
  <2>1. \A u \in Txn : txns'[u].at = txns[u].at /\ txns'[u].last = txns[u].last
    BY <1>2 DEF TypeOK, TxnState
  <2>2. \A u \in Txn : txns'[u].pc \in {"waiting", "locked"} =>
                          txns[u].pc \in {"waiting", "locked"}
    BY <1>2 DEF TypeOK
  <2> QED
    BY <1>1, <2>1, <2>2, LedgerUntouched DEF SeesLatest, BeganAfterAll
<1> QED
  BY <1>3, <1>4, <1>5

LEMMA RollbackKeeps ==
    ASSUME IInv, NEW t \in Txn, Rollback(t)
    PROVE  IInv'
<1> USE DEF IInv
<1>1. entries' = entries /\ total' = total /\ clock' = clock
  BY DEF Rollback
<1>2. txns' = [txns EXCEPT ![t] = Idle]
  BY DEF Rollback
<1>3. TypeOK'
  BY <1>1, <1>2 DEF TypeOK, TxnState, Idle, Kind
<1>4. Times'
  BY <1>1, <1>2 DEF Times, TypeOK, Idle
<1>5. SeesLatest'
  <2>1. ASSUME NEW u \in Txn, txns'[u].pc \in {"waiting", "locked"}
        PROVE  txns'[u] = txns[u]
    BY <1>2, <2>1 DEF TypeOK, Idle
  <2> QED
    BY <1>1, <2>1, LedgerUntouched DEF SeesLatest, BeganAfterAll
<1> QED
  BY <1>3, <1>4, <1>5

\* After a commit nobody has begun after everything committed: the new entry
\* was committed just now.
LEMMA CommitKeeps ==
    ASSUME IInv, NEW t \in Txn, Commit(t)
    PROVE  IInv'
<1> DEFINE n == Len(entries)
           e == entries'[n + 1]
<1>1. /\ entries' \in Seq(Entry)
      /\ n \in Nat /\ Len(entries') = n + 1
      /\ \A i \in 1 .. n : entries'[i] = entries[i]
      /\ e.at = txns[t].at /\ e.done = clock + 1
      /\ txns[t].at <= clock
  BY CommitAppends
<1>2. clock \in Nat /\ clock' = clock + 1 /\ clock' \in 0 .. MaxClock
  BY LedgerAssumption DEF IInv, TypeOK, Commit
<1>3. txns' = [txns EXCEPT ![t] = Idle]
  BY DEF Commit
<1>4. TypeOK'
  <2>1. txns' \in [Txn -> TxnState]
    BY <1>3 DEF IInv, TypeOK, TxnState, Idle, Kind
  <2>2. \A u \in Txn : /\ txns'[u].last \in 0 .. n + 1
                       /\ txns'[u].pc # "idle" => txns'[u].amount \in Amount
    BY <1>1, <1>3 DEF IInv, TypeOK, Idle
  <2>3. total' \in Int
    <3>1. txns[t].amount \in Amount /\ total \in Int
      BY DEF IInv, TypeOK, Commit
    <3> QED
      BY <3>1, SignedType DEF Commit
  <2> QED
    BY <1>1, <1>2, <2>1, <2>2, <2>3 DEF TypeOK
<1>5. Times'
  <2>1. \A i \in 1 .. n : /\ entries[i].at < entries[i].done
                          /\ entries[i].done <= clock /\ entries[i].done \in Nat
    BY EntryTimes DEF IInv
  <2>2. \A i \in 1 .. n + 1 : /\ entries'[i].at < entries'[i].done
                              /\ entries'[i].done <= clock'
    BY <1>1, <1>2, <2>1 DEF IInv, TypeOK, TxnState
  <2>3. \A i, j \in 1 .. n + 1 : i < j => entries'[i].done < entries'[j].done
    <3>1. \A i, j \in 1 .. n : i < j => entries[i].done < entries[j].done
      BY DEF IInv, Times
    <3>2. \A i \in 1 .. n : entries'[i].done < e.done
      BY <1>1, <1>2, <2>1
    <3> QED
      BY <1>1, <3>1, <3>2
  <2>4. \A u \in Txn : txns'[u].pc # "idle" => txns'[u].at <= clock'
    BY <1>2, <1>3 DEF IInv, Times, TypeOK, TxnState, Idle
  <2> QED
    BY <1>1, <2>2, <2>3, <2>4 DEF Times
<1>6. SeesLatest'
  <2>1. ASSUME NEW u \in Txn, txns'[u].pc # "idle"
        PROVE  ~BeganAfterAll(u)'
    <3>1. txns'[u].at <= clock /\ txns'[u].at \in Nat
      BY <1>3, <2>1 DEF IInv, Times, TypeOK, TxnState, Idle
    <3>2. ~(e.done < txns'[u].at)
      BY <1>1, <1>2, <3>1
    <3> QED
      BY <1>1, <3>2 DEF BeganAfterAll
  <2> QED
    BY <2>1 DEF SeesLatest
<1> QED
  BY <1>4, <1>5, <1>6 DEF IInv

LEMMA InitKeeps == Init => IInv
<1> SUFFICES ASSUME Init PROVE IInv
  OBVIOUS
<1>1. entries = <<>> /\ entries \in Seq(Entry) /\ Len(entries) = 0
  BY EmptySeq DEF Init
<1>2. \A t \in Txn : txns[t] = Idle
  BY DEF Init
<1>3. Idle \in TxnState
  BY DEF Idle, TxnState, Kind
<1>4. TypeOK
  BY <1>1, <1>2, <1>3, LedgerAssumption DEF Init, TypeOK, Idle
<1>5. Times
  BY <1>1, <1>2 DEF Times, Idle
<1>6. SeesLatest
  BY <1>2 DEF SeesLatest, Idle
<1> QED
  BY <1>4, <1>5, <1>6 DEF IInv

LEMMA StepKeeps ==
    ASSUME IInv, [Next]_vars
    PROVE  IInv'
<1>1. CASE UNCHANGED vars
  <2>1. entries' = entries /\ txns' = txns /\ clock' = clock /\ total' = total
    BY <1>1 DEF vars
  <2>2. TypeOK' /\ Times'
    BY <2>1 DEF IInv, TypeOK, Times
  <2>3. SeesLatest'
    BY <2>1, LedgerUntouched DEF IInv, SeesLatest, BeganAfterAll
  <2> QED
    BY <2>2, <2>3 DEF IInv
<1>2. CASE Next
  BY <1>2, BeginKeeps, SelectKeeps, AcquireKeeps, RollbackKeeps, CommitKeeps
     DEF Next
<1> QED
  BY <1>1, <1>2

LEMMA Invariance == Spec => []IInv
BY InitKeeps, StepKeeps, PTL DEF Spec

\* Every reachable state is well typed: the entry a transaction has selected
\* exists, and an open transaction has an amount.
THEOREM TypeCorrect == Spec => []TypeOK
<1>1. IInv => TypeOK
  BY DEF IInv
<1> QED
  BY <1>1, Invariance, PTL

----------------------------------------------------------------------------
(* What holds of any number of transactions.                               *)

LEMMA CommitOfTheLast ==
    ASSUME IInv, NEW t \in Txn, Commit(t), BeganAfterAll(t)
    PROVE  NewBalance(t) = Balance + Signed(txns[t].kind, txns[t].amount)
<1>1. txns[t].last = Latest
  BY DEF IInv, SeesLatest, Commit
<1> QED
  BY <1>1 DEF NewBalance, Balance

\* An entry whose transaction began after all others is the latest, once
\* committed.
LEMMA NewestIsLatest ==
    ASSUME IInv, NEW t \in Txn, Commit(t), BeganAfterAll(t)
    PROVE  Balance' = NewBalance(t)
<1>1. PICK m \in Nat : m = Len(entries) + 1
  BY CommitAppends
<1>2. /\ Len(entries') = m /\ m \in 1 .. m /\ m # 0
      /\ \A i \in 1 .. m - 1 : entries'[i] = entries[i]
      /\ entries'[m].at = txns[t].at
      /\ entries'[m].after = NewBalance(t)
      /\ txns[t].at \in Nat
  BY <1>1, CommitAppends
<1>3. ASSUME NEW i \in 1 .. m - 1
      PROVE  entries'[i].at < entries'[m].at
  <2>1. i \in 1 .. Len(entries)
    BY <1>1, CommitAppends
  <2>2. entries[i].at < entries[i].done /\ entries[i].done < txns[t].at
        /\ entries[i].at \in Nat /\ entries[i].done \in Nat
    BY <2>1, EntryTimes DEF IInv, BeganAfterAll
  <2> QED
    BY <1>2, <2>2
<1>4. \A i \in 1 .. m : entries'[i].at \in Nat
  <2>1. \A i \in 1 .. Len(entries) : entries[i].at \in Nat
    BY EntryTimes DEF IInv
  <2> QED
    BY <1>1, <1>2, <2>1, CommitAppends
<1> DEFINE isLast(i) == \A j \in 1 .. m : entries'[j].at <= entries'[i].at
<1>5. isLast(m)
  BY <1>2, <1>3, <1>4
<1>6. \A i \in 1 .. m : isLast(i) => i = m
  BY <1>2, <1>3, <1>4
<1>7. (CHOOSE i \in 1 .. m : isLast(i)) = m
  <2> HIDE DEF isLast
  <2> QED
    BY <1>2, <1>5, <1>6, Zenon
<1>8. LatestAmong(m)' = m
  BY <1>2, <1>7, Zenon DEF LatestAmong
<1>9. Latest' = m
  BY <1>2, <1>8 DEF Latest
<1> QED
  BY <1>2, <1>9 DEF Balance, After

LEMMA DisjointStep ==
    ASSUME IInv, NEW t \in Txn, Commit(t), Disjoint'
    PROVE  Disjoint /\ BeganAfterAll(t)
<1>1. PICK m \in Nat : m = Len(entries)
  BY CommitAppends
<1>2. /\ Len(entries') = m + 1
      /\ \A i \in 1 .. m : entries'[i] = entries[i]
      /\ entries'[m + 1].at = txns[t].at /\ txns[t].at \in Nat
  BY <1>1, CommitAppends
<1>3. \A i \in 2 .. m + 1 : entries'[i].at > entries'[i - 1].done
  BY <1>2 DEF Disjoint, SerialTo
<1>4. Disjoint
  BY <1>1, <1>2, <1>3 DEF Disjoint, SerialTo
<1>5. ASSUME NEW j \in 1 .. m
      PROVE  entries[j].done < txns[t].at
  <2>1. txns[t].at > entries[m].done
    <3>1. m + 1 \in 2 .. m + 1 /\ m \in 1 .. m /\ (m + 1) - 1 = m
      OBVIOUS
    <3>2. entries'[m + 1].at > entries'[m].done
      BY <1>3, <3>1
    <3> QED
      BY <1>2, <3>1, <3>2
  <2>2. j < m => entries[j].done < entries[m].done
    BY <1>1 DEF IInv, Times
  <2>3. entries[j].done \in Nat /\ entries[m].done \in Nat
    BY <1>1, EntryTimes DEF IInv
  <2> QED
    BY <1>2, <2>1, <2>2, <2>3
<1> QED
  BY <1>1, <1>4, <1>5 DEF BeganAfterAll

LEMMA ExactStep ==
    ASSUME IInv, ExactWithoutOverlap, [Next]_vars
    PROVE  ExactWithoutOverlap'
<1>1. CASE UNCHANGED <<entries, total>>
  BY <1>1, LedgerUntouched
<1>2. ASSUME NEW t \in Txn, Commit(t)
      PROVE  ExactWithoutOverlap'
  <2> SUFFICES ASSUME Disjoint'
               PROVE  Balance' = total'
    BY DEF ExactWithoutOverlap, BalanceIsTotal
  <2>1. Disjoint /\ BeganAfterAll(t)
    BY <1>2, DisjointStep
  <2>2. Balance = total
    BY <2>1 DEF ExactWithoutOverlap, BalanceIsTotal
  <2>3. Balance' = Balance + Signed(txns[t].kind, txns[t].amount)
    BY <1>2, <2>1, NewestIsLatest, CommitOfTheLast
  <2>4. total' = total + Signed(txns[t].kind, txns[t].amount)
    BY <1>2 DEF Commit
  <2> QED
    BY <2>2, <2>3, <2>4
<1> QED
  BY <1>1, <1>2 DEF Next, vars, Begin, Select, Acquire, Rollback

LEMMA ExtendsStep ==
    ASSUME IInv, ExtendsWhatIsShown, [Next]_vars
    PROVE  ExtendsWhatIsShown'
<1>1. CASE UNCHANGED <<entries, total>>
  BY <1>1, LedgerUntouched
<1>2. ASSUME NEW t \in Txn, Commit(t)
      PROVE  ExtendsWhatIsShown'
  <2>1. PICK m \in Nat : m = Len(entries)
    BY <1>2, CommitAppends
  <2>2. /\ Len(entries') = m + 1
        /\ \A i \in 1 .. m : entries'[i] = entries[i]
        /\ entries'[m + 1].kind = txns[t].kind
        /\ entries'[m + 1].amount = txns[t].amount
        /\ entries'[m + 1].after = NewBalance(t)
        /\ entries'[m + 1].at = txns[t].at
    BY <1>2, <2>1, CommitAppends
  <2> SUFFICES ASSUME NEW k \in 1 .. m + 1,
                      \A j \in 1 .. k - 1 : entries'[j].done < entries'[k].at
               PROVE  entries'[k].after =
                        After(LatestAmong(k - 1))'
                          + Signed(entries'[k].kind, entries'[k].amount)
    BY <2>2, Zenon DEF ExtendsWhatIsShown
  <2>3. PICK n \in Nat : n = k - 1
    OBVIOUS
  <2>4. /\ LatestAmong(n)' = LatestAmong(n)
        /\ After(LatestAmong(n))' = After(LatestAmong(n))
    <3>1. n \in 0 .. Len(entries)
      BY <2>1, <2>3
    <3>2. /\ LatestAmong(n)' = LatestAmong(n)
          /\ LatestAmong(n) \in 0 .. n
          /\ \A i \in 0 .. n : After(i)' = After(i)
      BY <1>2, <3>1, LatestOfPrefix
    <3> QED
      BY <3>2, <2>1, <2>2, <2>3 DEF After
  <2>5. CASE k <= m
    <3>1. entries'[k] = entries[k] /\ k \in 1 .. Len(entries)
      BY <2>1, <2>2, <2>5
    <3>2. \A j \in 1 .. k - 1 : entries[j].done < entries[k].at
      BY <2>1, <2>2, <2>5, <3>1
    <3>3. entries[k].after = After(LatestAmong(k - 1))
                               + Signed(entries[k].kind, entries[k].amount)
      BY <3>1, <3>2 DEF ExtendsWhatIsShown
    <3> QED
      BY <2>3, <2>4, <3>1, <3>3
  <2>6. CASE k = m + 1
    <3>1. BeganAfterAll(t)
      BY <2>1, <2>2, <2>6 DEF BeganAfterAll
    <3>2. NewBalance(t) = Balance + Signed(txns[t].kind, txns[t].amount)
      BY <1>2, <3>1, CommitOfTheLast
    <3>3. Balance = After(LatestAmong(n))
      BY <2>1, <2>3, <2>6 DEF Balance, Latest
    <3>4. k - 1 = n
      BY <2>3
    <3> QED
      BY <2>2, <2>4, <2>6, <3>2, <3>3, <3>4
  <2> QED
    BY <2>5, <2>6
<1> QED
  BY <1>1, <1>2 DEF Next, vars, Begin, Select, Acquire, Rollback

\* Whatever is begun, blocked or rolled back meanwhile: while no committed
\* transaction overlapped another, the balance shown is the sum of the amounts
\* that debitAccount and creditAccount have booked.
THEOREM ExactUnlessOverlapping == Spec => []ExactWithoutOverlap
<1>1. Init => ExactWithoutOverlap
  BY DEF Init, ExactWithoutOverlap, BalanceIsTotal, Balance, Latest,
         LatestAmong, After
<1> QED
  BY <1>1, Invariance, ExactStep, PTL DEF Spec

\* A debit or credit begun when all others are committed extends the balance
\* shown at that moment, however wrong earlier overlaps have made it.
THEOREM ExtendsTheBalanceShown == Spec => []ExtendsWhatIsShown
<1>1. Init => ExtendsWhatIsShown
  BY DEF Init, ExtendsWhatIsShown
<1> QED
  BY <1>1, Invariance, ExtendsStep, PTL DEF Spec

----------------------------------------------------------------------------
(* What an overlap can cost.  Begin times differ (Distinct).  A transaction *)
(* selects an entry that is no older than any that was committed before it  *)
(* began (SelectsNoOlder), so its entry rests on each of them that nobody   *)
(* began during (RestsOn).                                                  *)

Open(t) == txns[t].pc # "idle"

Distinct ==
    /\ \A i, j \in 1 .. Len(entries) : entries[i].at = entries[j].at => i = j
    /\ \A t \in Txn, i \in 1 .. Len(entries) : Open(t) => txns[t].at # entries[i].at
    /\ \A t, u \in Txn : Open(t) /\ Open(u) /\ txns[t].at = txns[u].at => t = u

SelectsNoOlder ==
    \A t \in Txn, j \in 1 .. Len(entries) :
        txns[t].pc \in {"waiting", "locked"} /\ entries[j].done < txns[t].at =>
            txns[t].last # 0 /\ entries[j].at <= entries[txns[t].last].at

RestsOn ==
    \A i, j \in 1 .. Len(entries) :
        i = j \/ (entries[j].at < entries[i].at /\ ~BegunDuring(j)) =>
            j \in entries[i].upon

LossInv == Distinct /\ SelectsNoOlder /\ RestsOn

\* The latest of some entries is one of them, and no entry is later.
LEMMA LatestIsGreatest ==
    ASSUME TypeOK, Times, Len(entries) # 0
    PROVE  /\ Latest \in 1 .. Len(entries)
           /\ \A j \in 1 .. Len(entries) : entries[j].at <= entries[Latest].at
<1>1. PICK n \in Nat \ {0} : n = Len(entries)
  BY DEF TypeOK
<1> DEFINE f == [i \in 1 .. n |-> entries[i].at]
<1>2. \A i \in 1 .. n : f[i] \in Nat /\ f[i] <= clock
  BY <1>1, EntryTimes
<1>3. clock \in Nat
  BY LedgerAssumption DEF TypeOK
<1>4. \E i \in 1 .. n : \A j \in 1 .. n : f[j] <= f[i]
  <2> HIDE DEF f
  <2> QED
    BY <1>2, <1>3, GreatestExists
<1>5. \E i \in 1 .. n : \A j \in 1 .. n : entries[j].at <= entries[i].at
  BY <1>4
<1>6. Latest = CHOOSE i \in 1 .. n : \A j \in 1 .. n : entries[j].at <= entries[i].at
  BY <1>1, Zenon DEF Latest, LatestAmong
<1> QED
  BY <1>1, <1>5, <1>6, Zenon

LEMMA LossStep ==
    ASSUME IInv, LossInv, [Next]_vars
    PROVE  LossInv'
<1> SUFFICES ASSUME Next PROVE LossInv'
  BY DEF LossInv, Distinct, SelectsNoOlder, RestsOn, BegunDuring, Open, vars
<1>1. ASSUME NEW t \in Txn, Begin(t)
      PROVE  LossInv'
  <2>1. entries' = entries /\ clock' = clock + 1 /\ clock \in Nat
    BY <1>1, LedgerAssumption DEF Begin, IInv, TypeOK
  <2>2. /\ txns'[t].pc = "begun" /\ txns'[t].at = clock + 1
        /\ \A u \in Txn \ {t} : txns'[u] = txns[u]
    BY <1>1, <2>1 DEF Begin, IInv, TypeOK
  <2>3. \A i \in 1 .. Len(entries) : entries[i].at \in Nat /\ entries[i].at <= clock
    BY EntryTimes DEF IInv
  <2>4. \A u \in Txn : txns[u].at \in Nat /\ (Open(u) => txns[u].at <= clock)
    BY DEF IInv, Times, TypeOK, TxnState, Open
  <2>5. Distinct'
    BY <2>1, <2>2, <2>3, <2>4 DEF LossInv, Distinct, Open
  <2>6. SelectsNoOlder'
    BY <2>1, <2>2 DEF LossInv, SelectsNoOlder
  <2> QED
    BY <2>1, <2>5, <2>6 DEF LossInv, RestsOn, BegunDuring
<1>2. ASSUME NEW t \in Txn, Select(t)
      PROVE  LossInv'
  <2>1. entries' = entries
    BY <1>2 DEF Select
  <2>2. /\ txns'[t].at = txns[t].at /\ txns'[t].last = Latest /\ Open(t)
        /\ \A u \in Txn \ {t} : txns'[u] = txns[u]
    BY <1>2 DEF Select, Open, IInv, TypeOK, TxnState
  <2>3. Distinct'
    BY <2>1, <2>2 DEF LossInv, Distinct, Open
  <2>4. SelectsNoOlder'
    <3>1. ASSUME NEW j \in 1 .. Len(entries)
          PROVE  Latest # 0 /\ entries[j].at <= entries[Latest].at
      <4>1. Len(entries) # 0 /\ Len(entries) \in Nat
        BY DEF IInv, TypeOK
      <4> QED
        BY <4>1, LatestIsGreatest DEF IInv
    <3> QED
      BY <2>1, <2>2, <3>1 DEF LossInv, SelectsNoOlder
  <2> QED
    BY <2>1, <2>3, <2>4 DEF LossInv, RestsOn, BegunDuring
<1>3. ASSUME NEW t \in Txn, Acquire(t) \/ Rollback(t)
      PROVE  LossInv'
  <2>1. entries' = entries
    BY <1>3 DEF Acquire, Rollback
  <2>2. \A u \in Txn : txns'[u].pc # "idle" =>
           /\ txns[u].pc # "idle"
           /\ txns'[u].at = txns[u].at /\ txns'[u].last = txns[u].last
           /\ txns'[u].pc \in {"waiting", "locked"} =>
                txns[u].pc \in {"waiting", "locked"}
    <3>1. CASE Acquire(t)
      BY <3>1 DEF Acquire, IInv, TypeOK, TxnState
    <3>2. CASE Rollback(t)
      BY <3>2 DEF Rollback, Idle, IInv, TypeOK, TxnState
    <3> QED
      BY <1>3, <3>1, <3>2
  <2>3. Distinct'
    BY <2>1, <2>2 DEF LossInv, Distinct, Open
  <2>4. SelectsNoOlder'
    BY <2>1, <2>2 DEF LossInv, SelectsNoOlder
  <2> QED
    BY <2>1, <2>3, <2>4 DEF LossInv, RestsOn, BegunDuring
<1>4. ASSUME NEW t \in Txn, Commit(t)
      PROVE  LossInv'
  <2>1. PICK m \in Nat : m = Len(entries)
    BY <1>4, CommitAppends
  <2>2. /\ Len(entries') = m + 1
        /\ \A i \in 1 .. m : entries'[i] = entries[i]
        /\ entries'[m + 1].at = txns[t].at
        /\ entries'[m + 1].done = clock + 1
        /\ entries'[m + 1].upon = Upon(txns[t].last) \cup {m + 1}
        /\ txns[t].at <= clock /\ txns[t].at \in Nat
    BY <1>4, <2>1, CommitAppends
  <2>3. /\ txns[t].pc = "locked" /\ Open(t) /\ txns'[t].pc = "idle"
        /\ \A u \in Txn \ {t} : txns'[u] = txns[u]
    BY <1>4 DEF Commit, Open, Idle, IInv, TypeOK
  <2>4. \A i \in 1 .. m : /\ entries[i].at \in Nat /\ entries[i].done \in Nat
                          /\ entries[i].at < entries[i].done
                          /\ entries[i].done <= clock
    BY <2>1, EntryTimes DEF IInv
  <2>5. \A u \in Txn : txns[u].at \in Nat /\ (Open(u) => txns[u].at <= clock)
    BY DEF IInv, Times, TypeOK, TxnState, Open
  <2>6. clock \in Nat
    BY LedgerAssumption DEF IInv, TypeOK
  <2>7. Distinct'
    <3>1. ASSUME NEW i \in 1 .. m + 1, NEW j \in 1 .. m + 1,
                 entries'[i].at = entries'[j].at
          PROVE  i = j
      <4>1. CASE i # m + 1 /\ j # m + 1
        BY <2>1, <2>2, <3>1, <4>1 DEF LossInv, Distinct
      <4>2. \A k \in 1 .. m : entries[k].at # txns[t].at
        BY <2>1, <2>3 DEF LossInv, Distinct
      <4>3. CASE i = m + 1 \/ j = m + 1
        BY <2>2, <3>1, <4>2, <4>3
      <4> QED
        BY <4>1, <4>3
    <3>2. ASSUME NEW u \in Txn, Open(u)', NEW i \in 1 .. m + 1
          PROVE  txns'[u].at # entries'[i].at
      <4>1. u # t /\ txns'[u] = txns[u] /\ Open(u)
        BY <2>3, <3>2 DEF Open
      <4>2. CASE i = m + 1
        BY <2>2, <2>3, <4>1, <4>2 DEF LossInv, Distinct
      <4>3. CASE i \in 1 .. m
        BY <2>1, <2>2, <4>1, <4>3 DEF LossInv, Distinct
      <4> QED
        BY <2>1, <4>2, <4>3
    <3>3. \A u, v \in Txn : Open(u)' /\ Open(v)' /\ txns'[u].at = txns'[v].at => u = v
      BY <2>3 DEF LossInv, Distinct, Open
    <3> QED
      BY <2>2, <3>1, <3>2, <3>3 DEF Distinct
  <2>8. SelectsNoOlder'
    <3> SUFFICES ASSUME NEW u \in Txn, NEW j \in 1 .. m + 1,
                        txns'[u].pc \in {"waiting", "locked"},
                        entries'[j].done < txns'[u].at
                 PROVE  /\ txns'[u].last # 0
                        /\ entries'[j].at <= entries'[txns'[u].last].at
      BY <2>2 DEF SelectsNoOlder
    <3>1. txns'[u] = txns[u] /\ Open(u)
      BY <2>3 DEF Open
    <3>2. j # m + 1
      BY <2>2, <2>5, <2>6, <3>1
    <3>3. j \in 1 .. m /\ entries'[j] = entries[j]
      BY <2>2, <3>2
    <3>4. txns[u].last # 0 /\ entries[j].at <= entries[txns[u].last].at
      BY <2>1, <3>1, <3>3 DEF LossInv, SelectsNoOlder
    <3>5. txns[u].last \in 1 .. m
      BY <2>1, <3>4 DEF IInv, TypeOK
    <3> QED
      BY <2>2, <3>1, <3>3, <3>4, <3>5
  <2>9. RestsOn'
    <3> SUFFICES ASSUME NEW i \in 1 .. m + 1, NEW j \in 1 .. m + 1,
                        i = j \/ (entries'[j].at < entries'[i].at
                                    /\ ~BegunDuring(j)')
                 PROVE  j \in entries'[i].upon
      BY <2>2 DEF RestsOn
    <3>1. ASSUME j \in 1 .. m, ~BegunDuring(j)'
          PROVE  /\ ~BegunDuring(j)
                 /\ ~(txns[t].at \in entries[j].at + 1 .. entries[j].done)
      BY <2>1, <2>2, <3>1 DEF BegunDuring
    <3>2. CASE i \in 1 .. m /\ j \in 1 .. m
      BY <2>1, <2>2, <3>1, <3>2 DEF LossInv, RestsOn
    <3>3. CASE i = m + 1 /\ j = m + 1
      BY <2>2, <3>3
    <3>4. CASE i = m + 1 /\ j \in 1 .. m
      <4> DEFINE l == txns[t].last
      <4>1. i # j /\ ~BegunDuring(j) /\ entries[j].done < txns[t].at
        BY <2>2, <2>4, <3>1, <3>4
      <4>2. l # 0 /\ entries[j].at <= entries[l].at
        BY <2>1, <2>3, <3>4, <4>1 DEF LossInv, SelectsNoOlder
      <4>3. l \in 1 .. m
        BY <2>1, <4>2 DEF IInv, TypeOK
      <4>4. l = j \/ entries[j].at < entries[l].at
        BY <2>1, <2>4, <3>4, <4>2, <4>3 DEF LossInv, Distinct
      <4>5. j \in entries[l].upon
        BY <2>1, <3>4, <4>1, <4>3, <4>4 DEF LossInv, RestsOn
      <4> QED
        BY <2>2, <3>4, <4>2, <4>5 DEF Upon
    <3>5. CASE i \in 1 .. m /\ j = m + 1
      <4>1. entries'[i].at \in entries'[j].at + 1 .. entries'[j].done
        BY <2>2, <2>4, <2>6, <3>5
      <4>2. BegunDuring(j)'
        BY <2>2, <3>5, <4>1 DEF BegunDuring
      <4> QED
        BY <3>5, <4>2
    <3> QED
      BY <3>2, <3>3, <3>4, <3>5
  <2> QED
    BY <2>7, <2>8, <2>9 DEF LossInv
<1> QED
  BY <1>1, <1>2, <1>3, <1>4 DEF Next

LEMMA LossInit == Init => LossInv
BY DEF Init, LossInv, Distinct, SelectsNoOlder, RestsOn, Open, Idle

LEMMA LossImplies ==
    ASSUME IInv, LossInv
    PROVE  OnlyOvertakenAreLost
<1> SUFFICES ASSUME NEW j \in 1 .. Len(entries), ~BegunDuring(j)
             PROVE  j \in Upon(Latest)
  BY DEF OnlyOvertakenAreLost
<1>1. Len(entries) # 0 /\ Len(entries) \in Nat
  BY DEF IInv, TypeOK
<1>2. /\ Latest \in 1 .. Len(entries)
      /\ entries[j].at <= entries[Latest].at
  BY <1>1, LatestIsGreatest DEF IInv
<1>3. entries[j].at \in Nat /\ entries[Latest].at \in Nat
  BY <1>2, EntryTimes DEF IInv
<1>4. Latest = j \/ entries[j].at < entries[Latest].at
  BY <1>2, <1>3 DEF LossInv, Distinct
<1>5. j \in entries[Latest].upon
  BY <1>2, <1>4 DEF LossInv, RestsOn
<1> QED
  BY <1>1, <1>2, <1>5 DEF Upon

\* However many debits and credits of one account overlap, the balance shown
\* lacks an amount only if another committed transaction began while the one
\* that booked it was open.
THEOREM LossesAreOvertaken == Spec => []OnlyOvertakenAreLost
BY LossInit, LossStep, LossImplies, Invariance, PTL DEF Spec

----------------------------------------------------------------------------
(* The ledger up to its first overlap is an account.                       *)

IsSerial(n) == SerialTo(n) /\ \A k \in n + 1 .. Len(entries) : ~SerialTo(k)

UniqueSerial == \A n \in 0 .. Len(entries) : IsSerial(n) => Serial = n

LEMMA SerialUnique == TypeOK => UniqueSerial
<1> SUFFICES ASSUME TypeOK, NEW n \in 0 .. Len(entries), IsSerial(n)
             PROVE  Serial = n
  BY DEF UniqueSerial
<1>1. Len(entries) \in Nat
  BY DEF TypeOK
<1>2. \A m \in 0 .. Len(entries) : IsSerial(m) => m = n
  BY <1>1 DEF IsSerial
<1>3. (CHOOSE m \in 0 .. Len(entries) : IsSerial(m)) = n
  <2> HIDE DEF IsSerial
  <2> QED
    BY <1>2, Zenon
<1> QED
  BY <1>3, Zenon DEF Serial, IsSerial

LEMMA SerialExists ==
    ASSUME TypeOK
    PROVE  \E n \in 0 .. Len(entries) : IsSerial(n)
<1>1. Len(entries) \in Nat
  BY DEF TypeOK
<1>2. CASE Len(entries) = 0
  <2>1. IsSerial(0)
    BY <1>2 DEF IsSerial, SerialTo
  <2> QED
    BY <1>2, <2>1
<1>3. CASE Len(entries) # 0
  <2> DEFINE f == [i \in 1 .. Len(entries) |-> IF SerialTo(i) THEN i ELSE 0]
  <2>1. PICK n \in Nat \ {0} : n = Len(entries)
    BY <1>1, <1>3
  <2>2. \A i \in 1 .. n : f[i] \in Nat /\ f[i] <= n
    BY <2>1
  <2>3. \E i \in 1 .. n : \A j \in 1 .. n : f[j] <= f[i]
    <3> HIDE DEF f
    <3> QED
      BY <2>1, <2>2, GreatestExists
  <2>4. PICK i \in 1 .. n : \A j \in 1 .. n : f[j] <= f[i]
    BY <2>3
  <2>5. SerialTo(1)
    BY DEF SerialTo
  <2>6. f[1] = 1 /\ f[1] <= f[i]
    BY <2>1, <2>4, <2>5
  <2>7. SerialTo(i) /\ f[i] = i
    BY <2>1, <2>6
  <2>8. ASSUME NEW k \in i + 1 .. n, SerialTo(k)
        PROVE  FALSE
    <3>1. k \in 1 .. n /\ f[k] = k /\ k > i
      BY <2>1, <2>8
    <3>2. k <= i
      BY <2>4, <2>7, <3>1
    <3> QED
      BY <2>1, <3>1, <3>2
  <2>9. IsSerial(i)
    BY <2>1, <2>7, <2>8 DEF IsSerial
  <2> QED
    BY <2>1, <2>9
<1> QED
  BY <1>2, <1>3

LEMMA SerialOfDisjoint == TypeOK /\ Disjoint => Serial = Len(entries)
<1> SUFFICES ASSUME TypeOK, Disjoint PROVE Serial = Len(entries)
  OBVIOUS
<1>1. Len(entries) \in Nat
  BY DEF TypeOK
<1>2. IsSerial(Len(entries))
  BY <1>1 DEF IsSerial, Disjoint
<1> QED
  BY <1>1, <1>2, SerialUnique DEF UniqueSerial

\* A commit after the first overlap, and the commit that overlaps, leave the
\* serial part as it is.
LEMMA SerialStays ==
    ASSUME IInv, NEW t \in Txn, Commit(t), IInv', ~Disjoint'
    PROVE  /\ Serial' = Serial
           /\ Serial \in 0 .. Len(entries)
<1>1. PICK m \in Nat : m = Len(entries)
  BY CommitAppends
<1>2. /\ Len(entries') = m + 1
      /\ \A i \in 1 .. m : entries'[i] = entries[i]
  BY <1>1, CommitAppends
<1>3. PICK n \in 0 .. m : IsSerial(n)
  BY <1>1, SerialExists DEF IInv
<1>4. Serial = n
  BY <1>1, <1>3, SerialUnique DEF IInv, UniqueSerial
<1>5. ASSUME NEW k \in 0 .. m
      PROVE  SerialTo(k)' <=> SerialTo(k)
  BY <1>2 DEF SerialTo
<1>6. ~SerialTo(m + 1)'
  BY <1>2 DEF Disjoint
<1>7. IsSerial(n)'
  <2>1. SerialTo(n)'
    BY <1>3, <1>5 DEF IsSerial
  <2>2. ASSUME NEW k \in n + 1 .. m + 1
        PROVE  ~SerialTo(k)'
    <3>1. CASE k = m + 1
      BY <1>6, <3>1
    <3>2. CASE k # m + 1
      <4>1. k \in 0 .. m /\ k \in n + 1 .. m
        BY <3>2
      <4>2. ~SerialTo(k)
        BY <1>1, <1>3, <4>1 DEF IsSerial
      <4> QED
        BY <1>5, <4>1, <4>2
    <3> QED
      BY <3>1, <3>2
  <2> QED
    BY <1>2, <2>1, <2>2 DEF IsSerial
<1>8. Serial' = n
  <2>1. n \in 0 .. Len(entries')
    BY <1>2
  <2>2. (TypeOK => UniqueSerial)'
    BY SerialUnique, PTL
  <2> QED
    BY <1>7, <2>1, <2>2 DEF IInv, UniqueSerial
<1> QED
  BY <1>1, <1>4, <1>8

\* Up to the first overlap the ledger implements the abstract account: every
\* step is a credit, a debit that the balance covers, or no change of balance.
THEOREM AccountUpToTheFirstOverlap == Spec => IsAnAccount
<1> DEFINE Shown == After(LatestAmong(Serial))
<1>1. Init => Abstract!Init
  <2> SUFFICES ASSUME Init PROVE Shown = 0
    BY DEF Abstract!Init
  <2>1. TypeOK /\ Len(entries) = 0
    BY InitKeeps DEF IInv, Init
  <2>2. Disjoint
    BY <2>1 DEF Disjoint, SerialTo
  <2>3. Serial = 0
    BY <2>1, <2>2, SerialOfDisjoint
  <2> QED
    BY <2>3 DEF LatestAmong, After
<1>2. ASSUME IInv, IInv', [Next]_vars
      PROVE  [Abstract!Next]_Shown
  <2>1. CASE UNCHANGED <<entries, total>>
    <3>1. Shown' = Shown
      BY <2>1 DEF Serial, SerialTo, After, LatestAmong
    <3> QED
      BY <3>1
  <2>2. ASSUME NEW t \in Txn, Commit(t), ~Disjoint'
        PROVE  Shown' = Shown
    <3>1. Serial' = Serial /\ Serial \in 0 .. Len(entries)
      BY <1>2, <2>2, SerialStays
    <3>2. PICK n \in 0 .. Len(entries) : Serial = n /\ Serial' = n
      BY <3>1
    <3>3. /\ LatestAmong(n)' = LatestAmong(n)
          /\ LatestAmong(n) \in 0 .. n
          /\ \A i \in 0 .. n : After(i)' = After(i)
      BY <1>2, <2>2, LatestOfPrefix
    <3>4. After(LatestAmong(n))' = After(LatestAmong(n))
      BY <3>3 DEF After
    <3> QED
      BY <3>2, <3>4 DEF After, LatestAmong
  <2>3. ASSUME NEW t \in Txn, Commit(t), Disjoint'
        PROVE  Abstract!Next
    <3>1. Disjoint /\ BeganAfterAll(t)
      BY <1>2, <2>3, DisjointStep
    <3>2. Shown = Balance
      <4>1. Serial = Len(entries)
        BY <1>2, <3>1, SerialOfDisjoint DEF IInv
      <4> QED
        BY <4>1 DEF Balance, Latest
    <3>3. Shown' = Balance'
      <4>1. Serial' = Len(entries')
        <5>1. (TypeOK /\ Disjoint => Serial = Len(entries))'
          BY SerialOfDisjoint, PTL
        <5> QED
          BY <1>2, <2>3, <5>1 DEF IInv
      <4> QED
        BY <4>1 DEF Balance, Latest, LatestAmong, After
    <3>4. Balance' = Balance + Signed(txns[t].kind, txns[t].amount)
      BY <1>2, <2>3, <3>1, NewestIsLatest, CommitOfTheLast
    <3>5. txns[t].amount \in Amount /\ txns[t].kind \in Kind
      BY <1>2, <2>3 DEF IInv, TypeOK, TxnState, Commit
    <3>6. After(txns[t].last) = Balance
      BY <1>2, <2>3, <3>1 DEF IInv, SeesLatest, Commit, Balance
    <3>7. Balance \in Int
      <4>1. txns[t].last \in 0 .. Len(entries)
        BY <1>2, <2>3 DEF IInv, TypeOK
      <4> QED
        BY <1>2, <3>6, <4>1, AfterType DEF IInv
    <3>8. txns[t].amount \in Nat
      BY <3>5, LedgerAssumption
    <3> HIDE DEF Shown
    <3>9. CASE txns[t].kind = "credit"
      <4>1. Shown' = Shown + txns[t].amount
        BY <3>2, <3>3, <3>4, <3>9 DEF Signed
      <4>2. Abstract!Credit(txns[t].amount)
        BY <4>1 DEF Abstract!Credit, Shown
      <4> QED
        BY <3>5, <4>2 DEF Abstract!Next
    <3>10. CASE txns[t].kind = "debit"
      <4>1. Shown >= txns[t].amount
        BY <2>3, <3>2, <3>6, <3>10 DEF Commit, Covered
      <4>2. Shown' = Shown - txns[t].amount
        BY <3>2, <3>3, <3>4, <3>7, <3>8, <3>10 DEF Signed
      <4>3. Abstract!Debit(txns[t].amount)
        BY <4>1, <4>2 DEF Abstract!Debit, Shown
      <4> QED
        BY <3>5, <4>3 DEF Abstract!Next
    <3> QED
      BY <3>5, <3>9, <3>10 DEF Kind
  <2> QED
    BY <1>2, <2>1, <2>2, <2>3 DEF Next, vars, Begin, Select, Acquire, Rollback
<1> QED
  BY <1>1, <1>2, Invariance, PTL DEF Spec, IsAnAccount, Abstract!Spec
=============================================================================
