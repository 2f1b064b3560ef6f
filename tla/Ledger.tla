------------------------------- MODULE Ledger -------------------------------
(***************************************************************************)
(* One account's ledger_entries under concurrent PostgreSQL transactions   *)
(* (READ COMMITTED).  The balance is not stored: it is the balance_after   *)
(* of the entry with the latest created_at, and created_at defaults to     *)
(* now(), which is the time the transaction began.  debitAccount and       *)
(* creditAccount read that entry FOR UPDATE and insert the next one in the *)
(* same transaction; approvals, reversals and adjustBalance all go through *)
(* them.                                                                   *)
(*                                                                         *)
(* SELECT ... ORDER BY created_at DESC LIMIT 1 FOR UPDATE takes its        *)
(* snapshot when it starts.  If the entry it finds is locked it waits, and *)
(* since the entry itself is never updated it then returns that same one,  *)
(* whatever was inserted meanwhile.                                        *)
(***************************************************************************)
EXTENDS Integers, Sequences

CONSTANTS
    Txn,        \* database transactions that can be open at once
    Amount,     \* amounts credited or debited
    MaxClock,   \* bound on begins and commits
    None        \* a transaction that has not chosen its operation

ASSUME LedgerAssumption ==
    /\ Amount \subseteq Nat \ {0}
    /\ MaxClock \in Nat
    /\ None \notin Amount

VARIABLES
    entries,  \* ledger_entries in the order they were committed
    txns,     \* the open transactions
    clock,    \* ticks at every begin and every commit
    total     \* the true balance: the sum of all committed amounts

vars == <<entries, txns, clock, total>>

Kind == {"credit", "debit"}

\* at is created_at.  Not columns but history: done is when the transaction
\* committed, upon the indices of the entries whose amounts are in after.
Entry == [kind: Kind, amount: Amount, after: Int, at: Nat, done: Nat,
          upon: SUBSET Nat]

\* last is the index of the entry the transaction selected, 0 for none.
TxnState == [pc: {"idle", "begun", "waiting", "locked"}, kind: Kind,
             amount: Amount \cup {None}, at: Nat, last: Nat]

Idle == [pc |-> "idle", kind |-> "credit", amount |-> None, at |-> 0,
         last |-> 0]

TypeOK ==
    /\ entries \in Seq(Entry)
    /\ txns \in [Txn -> TxnState]
    /\ \A t \in Txn : /\ txns[t].last \in 0 .. Len(entries)
                      /\ txns[t].pc # "idle" => txns[t].amount \in Amount
    /\ clock \in 0 .. MaxClock
    /\ total \in Int

Init ==
    /\ entries = <<>>
    /\ txns = [t \in Txn |-> Idle]
    /\ clock = 0
    /\ total = 0

----------------------------------------------------------------------------
Signed(kind, amount) == IF kind = "credit" THEN amount ELSE -amount

After(i) == IF i = 0 THEN 0 ELSE entries[i].after
Upon(i) == IF i = 0 THEN {} ELSE entries[i].upon

\* ORDER BY created_at DESC LIMIT 1 on the first n entries, 0 when there are
\* none.  Begin times are distinct.
OldestAmong(n) ==
    IF n = 0 THEN 0
    ELSE CHOOSE i \in 1 .. n :
           \A j \in 1 .. n : entries[j].at >= entries[i].at
LatestAmong(n) ==
    IF n = 0 THEN 0
    ELSE CHOOSE i \in 1 .. n :
           \A j \in 1 .. n : entries[j].at <= entries[i].at

\* getLastLedgerEntry.
LastCommitted == Len(entries)
Latest == LatestAmong(Len(entries))

\* getAccountBalance.
Balance == After(Latest)

Locked(i) == \E t \in Txn : txns[t].pc = "locked" /\ txns[t].last = i

----------------------------------------------------------------------------
Begin(t) ==
    /\ txns[t].pc = "idle" /\ clock < MaxClock
    /\ clock' = clock + 1
    /\ \E kind \in Kind, amount \in Amount :
         txns' = [txns EXCEPT ![t] = [pc |-> "begun", kind |-> kind,
                                      amount |-> amount, at |-> clock',
                                      last |-> 0]]
    /\ UNCHANGED <<entries, total>>

\* getLastLedgerEntryForUpdate: with no entry there is nothing to lock.
Select(t) ==
    /\ txns[t].pc = "begun"
    /\ txns' = [txns EXCEPT
                  ![t].last = Latest,
                  ![t].pc = IF Latest # 0 /\ Locked(Latest) THEN "waiting"
                                                            ELSE "locked"]
    /\ UNCHANGED <<entries, clock, total>>

Acquire(t) ==
    /\ txns[t].pc = "waiting" /\ ~Locked(txns[t].last)
    /\ txns' = [txns EXCEPT ![t].pc = "locked"]
    /\ UNCHANGED <<entries, clock, total>>

AddsAlways(t) == After(txns[t].last) + txns[t].amount
NewBalance(t) == After(txns[t].last) + Signed(txns[t].kind, txns[t].amount)

\* current.lt(debitAmt) is INSUFFICIENT_BALANCE.
NothingToCover(t) == TRUE
Covered(t) == txns[t].kind = "debit" => After(txns[t].last) >= txns[t].amount

\* insertLedgerEntry and COMMIT.
Commit(t) ==
    LET x == txns[t] IN
    /\ x.pc = "locked" /\ Covered(t) /\ clock < MaxClock
    /\ clock' = clock + 1
    /\ entries' = Append(entries, [kind |-> x.kind, amount |-> x.amount,
                                   after |-> NewBalance(t),
                                   at |-> x.at, done |-> clock',
                                   upon |-> Upon(x.last) \cup {Len(entries) + 1}])
    /\ total' = total + Signed(x.kind, x.amount)
    /\ txns' = [txns EXCEPT ![t] = Idle]

\* A throw anywhere in the transaction rolls it back: INSUFFICIENT_BALANCE, an
\* error of the caller's other statements, or a lost connection.
Rollback(t) ==
    /\ txns[t].pc # "idle"
    /\ txns' = [txns EXCEPT ![t] = Idle]
    /\ UNCHANGED <<entries, clock, total>>

Next ==
    \E t \in Txn :
        Begin(t) \/ Select(t) \/ Acquire(t) \/ Commit(t) \/ Rollback(t)

Spec == Init /\ [][Next]_vars

----------------------------------------------------------------------------
(* Properties.                                                             *)

\* The balance shown is the sum of all amounts booked, and so never negative.
BalanceIsTotal == Balance = total

\* Only overlapping transactions can lose an entry: as long as every committed
\* transaction began after the one before it had committed, the balance is
\* exact, however many others were begun, blocked or rolled back in between.
SerialTo(n) == \A i \in 2 .. n : entries[i].at > entries[i - 1].done
Disjoint == SerialTo(Len(entries))
ExactWithoutOverlap == Disjoint => BalanceIsTotal

\* A transaction that begins when all the others are committed extends the
\* balance everybody sees at that moment, even if a later one overtakes it and
\* even if that balance has already lost an entry: errors do not spread.
ExtendsWhatIsShown ==
    \A k \in 1 .. Len(entries) :
        (\A j \in 1 .. k - 1 : entries[j].done < entries[k].at) =>
            entries[k].after = After(LatestAmong(k - 1))
                                 + Signed(entries[k].kind, entries[k].amount)

\* However transactions overlap, an amount is missing from the balance shown only
\* if another transaction, committed too, began while the entry's own was open: of
\* two that overlap only the one that began first can be lost, and never a third.
BegunDuring(j) ==
    \E k \in 1 .. Len(entries) : entries[k].at \in entries[j].at + 1 .. entries[j].done
OnlyOvertakenAreLost ==
    \A j \in 1 .. Len(entries) : BegunDuring(j) \/ j \in Upon(Latest)

\* Up to the first entry whose transaction overlapped the one before it, the
\* ledger is an account: every commit is a credit, or a debit that the balance
\* covers, and nothing else moves the balance.
Serial == CHOOSE n \in 0 .. Len(entries) :
            SerialTo(n) /\ \A k \in n + 1 .. Len(entries) : ~SerialTo(k)
Abstract == INSTANCE Account WITH balance <- After(LatestAmong(Serial))
IsAnAccount == Abstract!Spec
=============================================================================
