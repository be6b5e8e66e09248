---------------------------- MODULE ReceiptStore ----------------------------
(***************************************************************************)
(* The gateway's in-memory receipt store (gateway/receipt_store.go) and    *)
(* the lookup endpoint GET /api/receipts/:id on top of it (main.go,        *)
(* handleGetReceipt).  Request handlers store receipts, readers look them  *)
(* up and the cleanup goroutine, and main on its way out, remove the       *)
(* expired ones.  A lookup takes the lock twice and a cleanup reads the    *)
(* clock before it takes the lock, so their steps interleave.              *)
(***************************************************************************)
EXTENDS Integers

CONSTANTS
  Receipts,   \* the receipts that handlers generate, each stored once
  Ids,        \* well-formed receipt ids
  BadId,      \* what isValidReceiptID refuses
  IdOf,       \* the random id of each receipt
  NoReceipt,
  Readers,    \* lookups, each made once
  Sweepers,   \* concurrent cleanups
  TTL,        \* RECEIPT_TTL, in ticks
  MaxTime     \* bound of the model: the clock stops here

ASSUME StoreAssumption ==
  /\ IdOf \in [Receipts -> Ids]
  /\ NoReceipt \notin Receipts
  /\ BadId \notin Ids
  /\ TTL \in Nat \ {0}
  /\ MaxTime \in Nat

VARIABLES
  time,
  receipts,   \* id -> receiptEntry
  storedAt,   \* when a receipt was stored, Unstored or Failed
  pc,         \* where each lookup is
  id,         \* what it looks for
  entry,      \* the receiptEntry it read
  status,     \* the HTTP status it was answered with
  found,      \* and the receipt, with status 200
  observed,   \* what an atomic lookup could have found since it began
  now,        \* the clock reading of each cleanup
  sweeping    \* the cleanups under way

readVars == <<pc, id, entry, status, found>>
sweepVars == <<now, sweeping>>
vars == <<time, receipts, storedAt, readVars, observed, sweepVars>>

Unstored == -1
Failed == -2

NoEntry == [receipt |-> NoReceipt, expiresAt |-> 0]
Entries == [receipt : Receipts \cup {NoReceipt}, expiresAt : Nat]

Expired(e, t) == t > e.expiresAt

\* What a lookup of i that happened at one instant would find.
AtomicAnswer(rs, t, i) == IF Expired(rs[i], t) THEN NoReceipt ELSE rs[i].receipt

Active(g) == pc[g] \in {"check", "evict"}

\* Every lookup under way sees the store as this step leaves it.
Watch ==
  observed' = [g \in Readers |->
    IF Active(g) THEN observed[g] \cup {AtomicAnswer(receipts', time', id[g])}
                 ELSE observed[g]]

Init ==
  /\ time = 0
  /\ receipts = [i \in Ids |-> NoEntry]
  /\ storedAt = [r \in Receipts |-> Unstored]
  /\ pc = [g \in Readers |-> "idle"]
  /\ id = [g \in Readers |-> BadId]
  /\ entry = [g \in Readers |-> NoEntry]
  /\ status = [g \in Readers |-> 0]
  /\ found = [g \in Readers |-> NoReceipt]
  /\ observed = [g \in Readers |-> {}]
  /\ now = [s \in Sweepers |-> 0]
  /\ sweeping = {}

Store(r) ==
  /\ storedAt[r] = Unstored
  /\ receipts' = [receipts EXCEPT ![IdOf[r]] = [receipt |-> r, expiresAt |-> time + TTL]]
  /\ storedAt' = [storedAt EXCEPT ![r] = time]
  /\ UNCHANGED <<time, readVars, sweepVars>>
  /\ Watch

\* The request's context is over, or the receipt or the TTL is invalid.
StoreFails(r) ==
  /\ storedAt[r] = Unstored
  /\ storedAt' = [storedAt EXCEPT ![r] = Failed]
  /\ UNCHANGED <<time, receipts, readVars, observed, sweepVars>>

Answer(g, code, r) ==
  /\ pc' = [pc EXCEPT ![g] = "done"]
  /\ status' = [status EXCEPT ![g] = code]
  /\ found' = [found EXCEPT ![g] = r]

\* handleGetReceipt up to the store: 400 for a malformed id, 500 if the
\* request's context is over.
GetRefused(g, i, code) ==
  /\ pc[g] = "idle"
  /\ i = BadId <=> code = 400
  /\ id' = [id EXCEPT ![g] = i]
  /\ Answer(g, code, NoReceipt)
  /\ UNCHANGED <<time, receipts, storedAt, entry, observed, sweepVars>>

\* Get, under the read lock: 404 if there is no entry.
GetRead(g, i) ==
  /\ pc[g] = "idle"
  /\ id' = [id EXCEPT ![g] = i]
  /\ entry' = [entry EXCEPT ![g] = receipts[i]]
  /\ observed' = [observed EXCEPT ![g] = {AtomicAnswer(receipts, time, i)}]
  /\ IF receipts[i].receipt = NoReceipt
       THEN Answer(g, 404, NoReceipt)
       ELSE pc' = [pc EXCEPT ![g] = "check"] /\ UNCHANGED <<status, found>>
  /\ UNCHANGED <<time, receipts, storedAt, sweepVars>>

\* Mutant: the entry counts as expired one tick early.
GetCheckEarly(g) ==
  /\ pc[g] = "check"
  /\ IF time >= entry[g].expiresAt
       THEN pc' = [pc EXCEPT ![g] = "evict"] /\ UNCHANGED <<status, found>>
       ELSE Answer(g, 200, entry[g].receipt)
  /\ UNCHANGED <<time, receipts, storedAt, id, entry, observed, sweepVars>>

\* Get, with no lock held: has the entry that was read expired?
GetCheck(g) ==
  /\ pc[g] = "check"
  /\ IF Expired(entry[g], time)
       THEN pc' = [pc EXCEPT ![g] = "evict"] /\ UNCHANGED <<status, found>>
       ELSE Answer(g, 200, entry[g].receipt)
  /\ UNCHANGED <<time, receipts, storedAt, id, entry, observed, sweepVars>>

\* Mutant: the entry is deleted without looking at it again.
GetEvictUnchecked(g) ==
  /\ pc[g] = "evict"
  /\ receipts' = [receipts EXCEPT ![id[g]] = NoEntry]
  /\ Answer(g, 404, NoReceipt)
  /\ UNCHANGED <<time, storedAt, id, entry, sweepVars>>
  /\ Watch

\* Get, under the write lock: delete the entry if what is there now expired.
GetEvict(g) ==
  /\ pc[g] = "evict"
  /\ receipts' = IF Expired(receipts[id[g]], time)
                   THEN [receipts EXCEPT ![id[g]] = NoEntry] ELSE receipts
  /\ Answer(g, 404, NoReceipt)
  /\ UNCHANGED <<time, storedAt, id, entry, sweepVars>>
  /\ Watch

\* Mutant: the clock is read once, when the goroutine starts.
CleanupStartHoisted(s) ==
  /\ s \notin sweeping
  /\ now' = now
  /\ sweeping' = sweeping \cup {s}
  /\ UNCHANGED <<time, receipts, storedAt, readVars, observed>>

\* CleanupExpired reads the clock.
CleanupStart(s) ==
  /\ s \notin sweeping
  /\ now' = [now EXCEPT ![s] = time]
  /\ sweeping' = sweeping \cup {s}
  /\ UNCHANGED <<time, receipts, storedAt, readVars, observed>>

\* CleanupExpired, under the write lock.
CleanupExpired(s) ==
  /\ s \in sweeping
  /\ receipts' = [i \in Ids |-> IF Expired(receipts[i], now[s]) THEN NoEntry ELSE receipts[i]]
  /\ sweeping' = sweeping \ {s}
  /\ UNCHANGED <<time, storedAt, readVars, now>>
  /\ Watch

Tick ==
  /\ time < MaxTime
  /\ time' = time + 1
  /\ UNCHANGED <<receipts, storedAt, readVars, sweepVars>>
  /\ Watch

Next ==
  \/ \E r \in Receipts : Store(r) \/ StoreFails(r)
  \/ \E g \in Readers :
       \/ \E i \in Ids \cup {BadId}, code \in {400, 500} : GetRefused(g, i, code)
       \/ \E i \in Ids : GetRead(g, i)
       \/ GetCheck(g)
       \/ GetEvict(g)
  \/ \E s \in Sweepers : CleanupStart(s) \/ CleanupExpired(s)
  \/ Tick

Spec == Init /\ [][Next]_vars

\* The ticker keeps starting cleanups and each one gets the lock.
Fairness == \A s \in Sweepers : WF_vars(CleanupStart(s)) /\ WF_vars(CleanupExpired(s))
FairSpec == Spec /\ Fairness
-----------------------------------------------------------------------------
\* Types of the variables.
TypeOK ==
  /\ time \in Nat
  /\ receipts \in [Ids -> Entries]
  /\ storedAt \in [Receipts -> Nat \cup {Unstored, Failed}]
  /\ pc \in [Readers -> {"idle", "check", "evict", "done"}]
  /\ id \in [Readers -> Ids \cup {BadId}]
  /\ \A g \in Readers : Active(g) => id[g] \in Ids
  /\ entry \in [Readers -> Entries]
  /\ status \in [Readers -> {0, 200, 400, 404, 500}]
  /\ found \in [Readers -> Receipts \cup {NoReceipt}]
  /\ observed \in [Readers -> SUBSET (Receipts \cup {NoReceipt})]
  /\ now \in [Sweepers -> Nat]
  /\ sweeping \subseteq Sweepers

\* No lookup and no cleanup ever removes a receipt that has not expired, even
\* one stored under the same id while they were under way.
LiveReceiptKept ==
  [][\A i \in Ids : receipts[i].receipt # NoReceipt /\ ~Expired(receipts[i], time)
                      => receipts'[i].receipt # NoReceipt]_vars

\* No two receipts have the id i.
Unique(i) == \A r, q \in Receipts : IdOf[r] = i /\ IdOf[q] = i => r = q

\* A receipt that was stored can be fetched for its whole TTL, unless another
\* one has its id, whatever happens to other receipts.
StoredIsServed ==
  \A r \in Receipts :
    Unique(IdOf[r]) /\ storedAt[r] >= 0 /\ time <= storedAt[r] + TTL
      => AtomicAnswer(receipts, time, IdOf[r]) = r

\* A receipt lives as long as its TTL says: nothing removes it before, and it can be
\* fetched until then.
LivesItsTTL == []StoredIsServed /\ LiveReceiptKept

\* Although Get drops the lock between reading, checking and deleting, its
\* answer is one that a lookup at a single instant during the call would give,
\* if the id is of one receipt only.
LookupIsAtomic ==
  \A g \in Readers : Unique(id[g]) =>
    /\ status[g] = 200 => found[g] \in observed[g]
    /\ status[g] = 404 => NoReceipt \in observed[g]

\* The cleanup goroutine leaves no expired receipt in memory for ever.
ExpiredIsRemoved ==
  \A i \in Ids : (receipts[i].receipt # NoReceipt /\ Expired(receipts[i], time))
                   ~> (receipts[i].receipt = NoReceipt \/ ~Expired(receipts[i], time))
=============================================================================
