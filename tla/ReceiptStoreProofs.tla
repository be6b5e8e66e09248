------------------------ MODULE ReceiptStoreProofs --------------------------
(***************************************************************************)
(* Proofs about ReceiptStore, for any number of receipts, lookups and      *)
(* cleanups and any TTL.  A cleanup's clock reading is never ahead of the  *)
(* clock, which is why reading it before taking the lock is harmless; what *)
(* a lookup read is, until it answers, either still in the store or gone   *)
(* for good, which is why the gap between its two locks is.                *)
(***************************************************************************)
EXTENDS ReceiptStore, TLAPS

USE StoreAssumption

\* The types hold at the start.
LEMMA TypeCorrectInit == Init => TypeOK
<1> SUFFICES ASSUME Init PROVE TypeOK
  BY Zenon
<1>1. NoEntry \in Entries
  BY DEF NoEntry, Entries
<1>2. time \in Nat /\ receipts \in [Ids -> Entries] /\ entry \in [Readers -> Entries]
  BY <1>1 DEF Init
<1>3. storedAt \in [Receipts -> Nat \cup {Unstored, Failed}]
  BY Zenon DEF Init
<1>4. status \in [Readers -> {0, 200, 400, 404, 500}]
  BY DEF Init
<1>5. now \in [Sweepers -> Nat]
  BY DEF Init
<1>6. \A g \in Readers : ~Active(g)
  BY Zenon DEF Init, Active
<1>7. pc \in [Readers -> {"idle", "check", "evict", "done"}] /\ id \in [Readers -> Ids \cup {BadId}]
  BY Zenon DEF Init
<1>8. /\ found \in [Readers -> Receipts \cup {NoReceipt}] /\ sweeping \subseteq Sweepers
      /\ observed \in [Readers -> SUBSET (Receipts \cup {NoReceipt})]
  BY Zenon DEF Init
<1>9. QED
  BY <1>2, <1>3, <1>4, <1>5, <1>6, <1>7, <1>8, Zenon DEF TypeOK

\* Each action keeps the types.
LEMMA TypeCorrectStep == TypeOK /\ [Next]_vars => TypeOK'
<1> SUFFICES ASSUME TypeOK, [Next]_vars PROVE TypeOK'
  BY Zenon
<1> USE DEF TypeOK, Active
<1>0. ASSUME Watch, time' \in Nat, receipts' \in [Ids -> Entries]
      PROVE  observed' \in [Readers -> SUBSET (Receipts \cup {NoReceipt})]
  BY <1>0 DEF Watch, AtomicAnswer, Expired, Entries
<1>1. CASE UNCHANGED vars
  BY <1>1, ZenonT(120) DEF vars, readVars, sweepVars
<1>2. ASSUME NEW r \in Receipts, Store(r) PROVE TypeOK'
  <2>1. time' \in Nat /\ receipts' \in [Ids -> Entries]
    BY <1>2 DEF Store, Entries
  <2>2. storedAt' \in [Receipts -> Nat \cup {Unstored, Failed}]
    BY <1>2, ZenonT(120) DEF Store
  <2>3. QED
    BY <1>2, <2>1, <2>2, <1>0, ZenonT(120) DEF Store, readVars, sweepVars
<1>3. ASSUME NEW r \in Receipts, StoreFails(r) PROVE TypeOK'
  BY <1>3, ZenonT(120) DEF StoreFails, readVars, sweepVars
<1>4. ASSUME NEW g \in Readers, NEW i \in Ids \cup {BadId}, NEW code \in {400, 500},
             GetRefused(g, i, code)
      PROVE  TypeOK'
  BY <1>4 DEF GetRefused, Answer, sweepVars
<1>5. ASSUME NEW g \in Readers, NEW i \in Ids, GetRead(g, i) PROVE TypeOK'
  <2>1. observed' \in [Readers -> SUBSET (Receipts \cup {NoReceipt})]
    BY <1>5 DEF GetRead, AtomicAnswer, Expired, Entries
  <2>2. QED
    BY <1>5, <2>1 DEF GetRead, Answer, sweepVars
<1>6. ASSUME NEW g \in Readers, GetCheck(g) PROVE TypeOK'
  <2>1. entry[g].receipt \in Receipts \cup {NoReceipt}
    BY DEF Entries
  <2>2. QED
    BY <1>6, <2>1 DEF GetCheck, Answer, sweepVars
<1>7. ASSUME NEW g \in Readers, GetEvict(g) PROVE TypeOK'
  <2>1. time' \in Nat /\ receipts' \in [Ids -> Entries]
    BY <1>7, ZenonT(120) DEF GetEvict, Entries, NoEntry
  <2>2. QED
    BY <1>7, <2>1, <1>0 DEF GetEvict, Answer, sweepVars
<1>8. ASSUME NEW s \in Sweepers, CleanupStart(s) PROVE TypeOK'
  BY <1>8 DEF CleanupStart, readVars
<1>9. ASSUME NEW s \in Sweepers, CleanupExpired(s) PROVE TypeOK'
  <2>1. time' \in Nat /\ receipts' \in [Ids -> Entries]
    BY <1>9 DEF CleanupExpired, Entries, NoEntry
  <2>2. QED
    BY <1>9, <2>1, <1>0, ZenonT(120) DEF CleanupExpired, readVars
<1>10. CASE Tick
  BY <1>10, <1>0 DEF Tick, readVars, sweepVars
<1>11. QED
  <2> HIDE DEF TypeOK, Active
  <2> QED
    BY <1>1, <1>2, <1>3, <1>4, <1>5, <1>6, <1>7, <1>8, <1>9, <1>10 DEF Next

\* The type invariant of the receipt store.
THEOREM TypeCorrect == Spec => []TypeOK
  BY TypeCorrectInit, TypeCorrectStep, PTL DEF Spec
-----------------------------------------------------------------------------
\* No cleanup carries a clock reading from the future.
ClockInv == \A s \in Sweepers : now[s] <= time

\* No clock reading of CleanupExpired gets ahead of the clock.
LEMMA ClockStep == TypeOK /\ ClockInv /\ [Next]_vars => ClockInv'
<1> SUFFICES ASSUME TypeOK, ClockInv, [Next]_vars PROVE ClockInv'
  BY Zenon
<1> USE DEF TypeOK, ClockInv
<1>1. CASE UNCHANGED <<time, sweepVars>>
  BY <1>1, ZenonT(120) DEF sweepVars
<1>2. ASSUME NEW s \in Sweepers, CleanupStart(s) PROVE ClockInv'
  BY <1>2 DEF CleanupStart
<1>3. ASSUME NEW s \in Sweepers, CleanupExpired(s) PROVE ClockInv'
  BY <1>3, ZenonT(120) DEF CleanupExpired
<1>4. CASE Tick
  BY <1>4 DEF Tick, sweepVars
<1>5. QED
  BY <1>1, <1>2, <1>3, <1>4, ZenonT(120)
     DEF Next, vars, Store, StoreFails, GetRefused, GetRead, GetCheck, GetEvict

\* A step removes a receipt only when it has expired.
LEMMA KeepStep ==
  ASSUME TypeOK, ClockInv, [Next]_vars, NEW i \in Ids,
         receipts[i].receipt # NoReceipt, ~Expired(receipts[i], time)
  PROVE  receipts'[i].receipt # NoReceipt
<1> USE DEF TypeOK
<1>1. CASE UNCHANGED receipts
  BY <1>1, ZenonT(120)
<1>2. ASSUME NEW r \in Receipts, Store(r) PROVE receipts'[i].receipt # NoReceipt
  BY <1>2 DEF Store
<1>3. ASSUME NEW g \in Readers, GetEvict(g) PROVE receipts'[i].receipt # NoReceipt
  BY <1>3 DEF GetEvict
<1>4. ASSUME NEW s \in Sweepers, CleanupExpired(s) PROVE receipts'[i].receipt # NoReceipt
  <2>1. receipts[i].expiresAt \in Nat
    BY DEF Entries
  <2>2. QED
    BY <1>4, <2>1 DEF CleanupExpired, ClockInv, Expired
<1>5. QED
  BY <1>1, <1>2, <1>3, <1>4
     DEF Next, vars, StoreFails, GetRefused, GetRead, GetCheck, CleanupStart, Tick

\* No lookup and no cleanup removes a receipt that has not expired, whatever ids
\* the receipts drew.
THEOREM LiveKept == Spec => LiveReceiptKept
<1>1. Init => ClockInv
  BY DEF Init, ClockInv
<1>2. TypeOK /\ ClockInv /\ [Next]_vars
        => [\A i \in Ids : receipts[i].receipt # NoReceipt /\ ~Expired(receipts[i], time)
                             => receipts'[i].receipt # NoReceipt]_vars
  BY KeepStep, Zenon
<1>3. QED
  BY <1>1, <1>2, ClockStep, TypeCorrect, PTL DEF Spec, LiveReceiptKept
-----------------------------------------------------------------------------
\* What Store puts into the map.
EntryOf(r) == [receipt |-> r, expiresAt |-> storedAt[r] + TTL]
IsStored(r) == storedAt[r] >= 0

\* The map holds nothing but what was stored under the id, and loses a receipt
\* only once it has expired.
MapInv ==
  /\ \A i \in Ids : receipts[i] = NoEntry
                     \/ \E r \in Receipts : IsStored(r) /\ IdOf[r] = i /\ receipts[i] = EntryOf(r)
  /\ \A r \in Receipts : IsStored(r) /\ Unique(IdOf[r])
                          => receipts[IdOf[r]] = EntryOf(r) \/ time > storedAt[r] + TTL

\* Store, Get and CleanupExpired preserve what the map holds.
LEMMA MapStep ==
  TypeOK /\ ClockInv /\ MapInv /\ [Next]_vars => MapInv'
<1> SUFFICES ASSUME TypeOK, ClockInv, MapInv, [Next]_vars PROVE MapInv'
  BY Zenon
<1> USE DEF TypeOK
<1>1. CASE UNCHANGED <<time, receipts, storedAt>>
  BY <1>1 DEF MapInv, IsStored, EntryOf
<1>2. ASSUME NEW r \in Receipts, Store(r) PROVE MapInv'
  <2>1. /\ receipts' = [receipts EXCEPT ![IdOf[r]] = EntryOf(r)'] /\ IsStored(r)' /\ ~IsStored(r)
        /\ \A q \in Receipts : q # r => EntryOf(q)' = EntryOf(q) /\ (IsStored(q)' <=> IsStored(q))
        /\ time' = time
    BY <1>2 DEF Store, EntryOf, IsStored, Unstored
  <2>2. \A q \in Receipts : q # r => /\ Unique(IdOf[q]) => IdOf[q] # IdOf[r]
                                       /\ storedAt'[q] = storedAt[q]
    BY <1>2 DEF Unique, Store
  <2>3. \A i \in Ids : receipts'[i] = NoEntry
          \/ \E q \in Receipts : IsStored(q)' /\ IdOf[q] = i /\ receipts'[i] = EntryOf(q)'
    BY <2>1 DEF MapInv
  <2>4. \A q \in Receipts : IsStored(q)' /\ Unique(IdOf[q])
          => receipts'[IdOf[q]] = EntryOf(q)' \/ time' > storedAt'[q] + TTL
    BY <2>1, <2>2, StoreAssumption, ZenonT(120) DEF MapInv
  <2>5. QED
    BY <2>3, <2>4, ZenonT(120) DEF MapInv, Unique
<1>3. ASSUME NEW r \in Receipts, StoreFails(r) PROVE MapInv'
  <2>1. /\ ~IsStored(r)' /\ ~IsStored(r) /\ UNCHANGED <<time, receipts>>
        /\ \A q \in Receipts : q # r => storedAt'[q] = storedAt[q]
    BY <1>3 DEF StoreFails, IsStored, Unstored, Failed
  <2>2. \A q \in Receipts : q # r => EntryOf(q)' = EntryOf(q) /\ (IsStored(q)' <=> IsStored(q))
    BY <2>1, ZenonT(120) DEF EntryOf, IsStored
  <2>3. QED
    BY <2>1, <2>2 DEF MapInv
<1>4. ASSUME UNCHANGED <<time, storedAt>>,
             \A i \in Ids : \/ receipts'[i] = receipts[i]
                            \/ receipts'[i] = NoEntry /\ Expired(receipts[i], time)
      PROVE  MapInv'
  <2>1. \A r \in Receipts : EntryOf(r)' = EntryOf(r) /\ (IsStored(r)' <=> IsStored(r))
    BY <1>4, ZenonT(120) DEF EntryOf, IsStored
  <2>2. \A r \in Receipts : Expired(EntryOf(r), time) => time > storedAt[r] + TTL
    BY ZenonT(120) DEF Expired, EntryOf
  <2>3. QED
    BY <1>4, <2>1, <2>2 DEF MapInv
<1>5. ASSUME NEW g \in Readers, GetEvict(g) PROVE MapInv'
  BY <1>4, <1>5 DEF GetEvict
<1>6. ASSUME NEW s \in Sweepers, CleanupExpired(s) PROVE MapInv'
  <2>1. \A i \in Ids : Expired(receipts[i], now[s]) => Expired(receipts[i], time)
    BY DEF ClockInv, Expired, Entries
  <2>2. QED
    BY <1>4, <1>6, <2>1, ZenonT(120) DEF CleanupExpired
<1>7. CASE Tick
  <2>1. /\ time' = time + 1 /\ UNCHANGED <<receipts, storedAt>>
        /\ \A r \in Receipts : EntryOf(r)' = EntryOf(r) /\ (IsStored(r)' <=> IsStored(r))
    BY <1>7, ZenonT(120) DEF Tick, EntryOf, IsStored
  <2>2. \A r \in Receipts : IsStored(r) /\ time > storedAt[r] + TTL => time' > storedAt[r] + TTL
    BY <2>1 DEF IsStored, Unstored, Failed
  <2>3. QED
    BY <2>1, <2>2 DEF MapInv
<1>8. QED
  BY <1>1, <1>2, <1>3, <1>5, <1>6, <1>7, ZenonT(120)
     DEF Next, vars, GetRefused, GetRead, GetCheck, CleanupStart

\* What a lookup under way has read was in the store; unless it expired an
\* atomic lookup could have found it, and if it expired one could have missed.
LookupInv ==
  \A g \in Readers : Active(g) /\ Unique(id[g]) =>
    /\ receipts[id[g]] \in {entry[g], NoEntry}
    /\ \E r \in Receipts : IsStored(r) /\ IdOf[r] = id[g] /\ entry[g] = EntryOf(r)
    /\ Expired(entry[g], time) => NoReceipt \in observed[g]
    /\ Expired(entry[g], time) \/ entry[g].receipt \in observed[g]
    /\ pc[g] = "evict" => Expired(entry[g], time)

\* Only the steps of a lookup touch its variables.
LEMMA StepCases ==
  ASSUME [Next]_vars
  PROVE  \/ UNCHANGED readVars /\ (Watch \/ UNCHANGED observed)
         \/ \E g \in Readers : \/ \E i \in Ids \cup {BadId}, code \in {400, 500} :
                                    GetRefused(g, i, code)
                               \/ \E i \in Ids : GetRead(g, i)
                               \/ GetCheck(g)
                               \/ GetEvict(g)
<1>1. ASSUME NEW r \in Receipts, Store(r) \/ StoreFails(r)
      PROVE  UNCHANGED readVars /\ (Watch \/ UNCHANGED observed)
  BY <1>1, Zenon DEF Store, StoreFails
<1>2. ASSUME NEW s \in Sweepers, CleanupStart(s) \/ CleanupExpired(s)
      PROVE  UNCHANGED readVars /\ (Watch \/ UNCHANGED observed)
  BY <1>2, Zenon DEF CleanupStart, CleanupExpired
<1>3. CASE Tick
  BY <1>3, Zenon DEF Tick
<1>4. CASE UNCHANGED vars
  BY <1>4, Zenon DEF vars
<1>5. QED
  BY <1>1, <1>2, <1>3, <1>4, ZenonT(120) DEF Next

\* A lookup that a step of somebody else leaves where it was.
LEMMA WaitingLookup ==
  ASSUME TypeOK, MapInv, LookupInv, NEW g \in Readers, Active(g), Unique(id[g]),
         [Next]_vars, pc'[g] = pc[g], id'[g] = id[g], entry'[g] = entry[g]
  PROVE  /\ receipts'[id'[g]] \in {entry'[g], NoEntry}
         /\ \E r \in Receipts : IsStored(r)' /\ IdOf[r] = id'[g] /\ entry'[g] = EntryOf(r)'
         /\ Expired(entry'[g], time') => NoReceipt \in observed'[g]
         /\ Expired(entry'[g], time') \/ entry'[g].receipt \in observed'[g]
         /\ pc'[g] = "evict" => Expired(entry'[g], time')
<1> USE DEF TypeOK
<1>1. PICK r \in Receipts : IsStored(r) /\ IdOf[r] = id[g] /\ entry[g] = EntryOf(r)
  BY ZenonT(120) DEF LookupInv
<1>2. id[g] \in Ids /\ receipts[id[g]] \in {entry[g], NoEntry}
  BY ZenonT(120) DEF LookupInv
<1>3. /\ storedAt'[r] = storedAt[r]
      /\ receipts'[id[g]] \in {receipts[id[g]], NoEntry}
      /\ observed[g] \subseteq observed'[g]
      /\ time' = time \/ Tick
  <2> DEFINE Goal == /\ storedAt'[r] = storedAt[r]
                     /\ receipts'[id[g]] \in {receipts[id[g]], NoEntry}
                     /\ observed[g] \subseteq observed'[g]
                     /\ time' = time \/ Tick
  <2>1. Watch => observed[g] \subseteq observed'[g]
    BY DEF Watch
  <2>2. ASSUME NEW q \in Receipts, Store(q) PROVE Goal
    BY <1>1, <1>2, <2>1, <2>2 DEF Unique, Store, IsStored, Unstored
  <2>3. ASSUME NEW q \in Receipts, StoreFails(q) PROVE Goal
    BY <1>1, <2>3 DEF StoreFails, IsStored, Unstored
  <2>4. ASSUME NEW h \in Readers, NEW i \in Ids, GetRead(h, i) PROVE Goal
    BY <2>4 DEF GetRead, Active
  <2>5. ASSUME NEW h \in Readers, GetEvict(h) PROVE Goal
    BY <1>2, <2>1, <2>5 DEF GetEvict
  <2>6. ASSUME NEW c \in Sweepers, CleanupExpired(c) PROVE Goal
    BY <1>2, <2>1, <2>6, ZenonT(120) DEF CleanupExpired
  <2>7. CASE Tick
    BY <2>1, <2>7, ZenonT(120) DEF Tick
  <2>8. CASE UNCHANGED <<time, receipts, storedAt, observed>>
    BY <2>8, ZenonT(120)
  <2>9. ASSUME NEW h \in Readers,
               \/ \E i \in Ids \cup {BadId}, code \in {400, 500} : GetRefused(h, i, code)
               \/ GetCheck(h)
        PROVE  Goal
    <3>1. UNCHANGED <<time, receipts, storedAt, observed>>
      BY <2>9, ZenonT(120) DEF GetRefused, GetCheck
    <3>2. QED
      BY <2>8, <3>1, ZenonT(120)
  <2>10. ASSUME NEW c \in Sweepers, CleanupStart(c) PROVE Goal
    <3>1. UNCHANGED <<time, receipts, storedAt, observed>>
      BY <2>10, ZenonT(120) DEF CleanupStart
    <3>2. QED
      BY <2>8, <3>1, ZenonT(120)
  <2>11. CASE UNCHANGED vars
    <3>1. UNCHANGED <<time, receipts, storedAt, observed>>
      BY <2>11, ZenonT(120) DEF vars
    <3>2. QED
      BY <2>8, <3>1, ZenonT(120)
  <2> HIDE DEF TypeOK
  <2>12. QED
    BY <2>2, <2>3, <2>4, <2>5, <2>6, <2>7, <2>9, <2>10, <2>11 DEF Next
<1>4. IsStored(r)' /\ EntryOf(r)' = EntryOf(r)
  BY <1>1, <1>3, ZenonT(120) DEF IsStored, EntryOf
<1>5. entry[g].expiresAt \in Nat /\ NoEntry.receipt = NoReceipt
  BY SMTT(60) DEF Entries, NoEntry
<1>6. Expired(entry[g], time') => NoReceipt \in observed'[g]
  <2>1. CASE time' = time
    BY <2>1, <1>3, ZenonT(120) DEF LookupInv
  <2>2. CASE Tick
    <3>1. AtomicAnswer(receipts', time', id[g]) \in observed'[g]
      BY <2>2, ZenonT(120) DEF Tick, Watch
    <3>2. Expired(entry[g], time') => AtomicAnswer(receipts', time', id[g]) = NoReceipt
      BY <1>2, <1>3, <1>5, ZenonT(120) DEF AtomicAnswer
    <3>3. QED
      BY <3>1, <3>2
  <2>3. QED
    BY <2>1, <2>2, <1>3, ZenonT(120)
<1>7. Expired(entry[g], time) => Expired(entry[g], time')
  BY <1>3, <1>5 DEF Expired, Tick
<1>8. QED
  BY <1>1, <1>2, <1>3, <1>4, <1>6, <1>7 DEF LookupInv

\* A lookup that is under way after a step either was under way before it or has
\* just read the map.
LEMMA LookupStep ==
  TypeOK /\ MapInv /\ LookupInv /\ [Next]_vars => LookupInv'
<1> SUFFICES ASSUME TypeOK, MapInv, LookupInv, [Next]_vars, NEW g \in Readers, Active(g)',
                    Unique(id'[g])
             PROVE  /\ receipts'[id'[g]] \in {entry'[g], NoEntry}
                    /\ \E r \in Receipts : IsStored(r)' /\ IdOf[r] = id'[g] /\ entry'[g] = EntryOf(r)'
                    /\ Expired(entry'[g], time') => NoReceipt \in observed'[g]
                    /\ Expired(entry'[g], time') \/ entry'[g].receipt \in observed'[g]
                    /\ pc'[g] = "evict" => Expired(entry'[g], time')
  BY ZenonT(30) DEF LookupInv
<1> USE DEF TypeOK
<1>1. CASE pc'[g] = pc[g] /\ id'[g] = id[g] /\ entry'[g] = entry[g]
  <2>1. Active(g)
    BY <1>1, ZenonT(120) DEF Active
  <2>2. QED
    BY <1>1, <2>1, WaitingLookup, ZenonT(120)
<1>2. CASE GetCheck(g)
  <2>1. Expired(entry[g], time) /\ Active(g) /\ pc'[g] = "evict"
    BY <1>2 DEF GetCheck, Answer, Active
  <2>2. UNCHANGED <<time, receipts, storedAt, id, entry, observed>>
    BY <1>2, ZenonT(120) DEF GetCheck
  <2>3. QED
    BY <2>1, <2>2, ZenonT(120) DEF LookupInv, IsStored, EntryOf
<1>3. ASSUME NEW i \in Ids, GetRead(g, i)
      PROVE  /\ receipts'[id'[g]] \in {entry'[g], NoEntry}
             /\ \E r \in Receipts : IsStored(r)' /\ IdOf[r] = id'[g] /\ entry'[g] = EntryOf(r)'
             /\ Expired(entry'[g], time') => NoReceipt \in observed'[g]
             /\ Expired(entry'[g], time') \/ entry'[g].receipt \in observed'[g]
             /\ pc'[g] = "evict" => Expired(entry'[g], time')
  <2>1. /\ receipts[i].receipt # NoReceipt /\ pc'[g] = "check"
        /\ id'[g] = i /\ entry'[g] = receipts[i]
        /\ observed'[g] = {AtomicAnswer(receipts, time, i)}
        /\ UNCHANGED <<time, receipts, storedAt>>
    <3>1. receipts[i].receipt # NoReceipt
      <4> SUFFICES ASSUME receipts[i].receipt = NoReceipt PROVE FALSE
        BY Zenon
      <4>1. pc' = [pc EXCEPT ![g] = "done"]
        BY <1>3, Zenon DEF GetRead, Answer
      <4>2. pc'[g] = "done"
        BY <4>1
      <4> QED  BY <4>2, Zenon DEF Active
    <3>2. pc' = [pc EXCEPT ![g] = "check"] /\ UNCHANGED <<time, receipts, storedAt>>
      BY <1>3, <3>1, Zenon DEF GetRead
    <3>3. id'[g] = i /\ entry'[g] = receipts[i] /\ observed'[g] = {AtomicAnswer(receipts, time, i)}
      BY <1>3 DEF GetRead
    <3>4. QED
      BY <3>1, <3>2, <3>3
  <2>2. PICK r \in Receipts : IsStored(r) /\ IdOf[r] = i /\ receipts[i] = EntryOf(r)
    BY <2>1 DEF MapInv, NoEntry
  <2>3. IsStored(r)' /\ EntryOf(r)' = EntryOf(r)
    BY <2>1, <2>2, ZenonT(120) DEF IsStored, EntryOf
  <2>4. QED
    BY <2>1, <2>2, <2>3, ZenonT(120) DEF AtomicAnswer
<1> DEFINE Same == pc'[g] = pc[g] /\ id'[g] = id[g] /\ entry'[g] = entry[g]
<1>4. \/ Same
      \/ GetCheck(g)
      \/ \E i \in Ids : GetRead(g, i)
  <2>1. ASSUME NEW h \in Readers, GetCheck(h)
        PROVE  h = g \/ Same
    BY <2>1 DEF GetCheck, Answer
  <2>2. ASSUME NEW h \in Readers, NEW i \in Ids, GetRead(h, i)
        PROVE  h = g \/ Same
    BY <2>2 DEF GetRead, Answer
  <2>3. ASSUME NEW h \in Readers, NEW i \in Ids \cup {BadId}, NEW code \in {400, 500},
               GetRefused(h, i, code)
        PROVE  Same
    BY <2>3 DEF GetRefused, Answer, Active
  <2>4. ASSUME NEW h \in Readers, GetEvict(h)
        PROVE  Same
    BY <2>4 DEF GetEvict, Answer, Active
  <2>5. UNCHANGED readVars => Same
    BY ZenonT(60) DEF readVars
  <2> HIDE DEF Same, TypeOK
  <2>6. QED
    BY <2>1, <2>2, <2>3, <2>4, <2>5, StepCases
<1>5. QED
  BY <1>1, <1>2, <1>3, <1>4, ZenonT(120)

\* Answered lookups were answered truly, and the others have no status yet.
AnswerInv == LookupIsAtomic /\ \A g \in Readers : status[g] = 0 \/ pc[g] = "done"

\* Answers of Get stay true.
LEMMA AnswerStep ==
  TypeOK /\ LookupInv /\ AnswerInv /\ [Next]_vars => AnswerInv'
<1> DEFINE Fine(g) == /\ Unique(id[g]) /\ status[g] = 200 => found[g] \in observed[g]
                      /\ Unique(id[g]) /\ status[g] = 404 => NoReceipt \in observed[g]
                      /\ status[g] = 0 \/ pc[g] = "done"
<1> SUFFICES ASSUME TypeOK, LookupInv, \A h \in Readers : Fine(h), [Next]_vars,
                    NEW g \in Readers
             PROVE  Fine(g)'
  BY DEF AnswerInv, LookupIsAtomic, Unique
<1> USE DEF TypeOK
<1>1. ASSUME status'[g] = status[g], found'[g] = found[g], pc'[g] = pc[g], id'[g] = id[g],
             observed[g] \subseteq observed'[g]
      PROVE  Fine(g)'
  BY <1>1 DEF Unique
<1>2. Watch => observed[g] \subseteq observed'[g]
  BY DEF Watch
<1>3. CASE UNCHANGED readVars /\ (Watch \/ UNCHANGED observed)
  BY <1>1, <1>2, <1>3, ZenonT(120) DEF readVars
<1>4. ASSUME NEW h \in Readers, NEW i \in Ids \cup {BadId}, NEW code \in {400, 500},
             GetRefused(h, i, code)
      PROVE  Fine(g)'
  BY <1>4 DEF GetRefused, Answer
<1>5. ASSUME NEW h \in Readers, NEW i \in Ids, GetRead(h, i) PROVE Fine(g)'
  <2>1. CASE h # g
    <3>1. id'[g] = id[g] /\ observed'[g] = observed[g]
      BY <1>5, <2>1 DEF GetRead
    <3>2. status'[g] = status[g] /\ found'[g] = found[g] /\ pc'[g] = pc[g]
      BY <1>5, <2>1 DEF GetRead, Answer
    <3> HIDE DEF Fine, TypeOK
    <3> QED  BY <1>1, <3>1, <3>2, Zenon
  <2>2. CASE h = g
    BY <1>5, <2>2 DEF GetRead, Answer, AtomicAnswer
  <2>3. QED
    BY <2>1, <2>2, ZenonT(120)
<1>6. ASSUME NEW h \in Readers, GetCheck(h) PROVE Fine(g)'
  <2>1. CASE h # g
    <3>1. /\ status'[g] = status[g] /\ found'[g] = found[g] /\ pc'[g] = pc[g]
          /\ id'[g] = id[g] /\ observed'[g] = observed[g]
      BY <1>6, <2>1 DEF GetCheck, Answer
    <3> HIDE DEF Fine, TypeOK
    <3> QED  BY <1>1, <3>1, Zenon
  <2>2. CASE h = g
    <3>1. Active(g) /\ id' = id /\ observed' = observed
      BY <1>6, <2>2, Zenon DEF GetCheck, Active
    <3>2. CASE Expired(entry[g], time)
      <4>1. pc[g] = "check" /\ status' = status /\ found' = found
        BY <1>6, <2>2, <3>2, Zenon DEF GetCheck
      <4>2. status'[g] = 0
        BY <4>1
      <4> QED  BY <4>2
    <3>3. CASE ~Expired(entry[g], time)
      <4>1. status'[g] = 200 /\ found'[g] = entry[g].receipt /\ pc'[g] = "done"
        BY <1>6, <2>2, <3>3 DEF GetCheck, Answer
      <4>2. Unique(id[g]) => entry[g].receipt \in observed[g]
        BY <3>1, <3>3, Zenon DEF LookupInv
      <4> QED  BY <3>1, <4>1, <4>2 DEF Unique
    <3> QED  BY <3>2, <3>3, Zenon
  <2>3. QED
    BY <2>1, <2>2, ZenonT(120)
<1>7. ASSUME NEW h \in Readers, GetEvict(h) PROVE Fine(g)'
  <2>1. CASE h # g
    <3>1. /\ status'[g] = status[g] /\ found'[g] = found[g] /\ pc'[g] = pc[g]
          /\ id'[g] = id[g] /\ Watch
      BY <1>7, <2>1 DEF GetEvict, Answer
    <3> HIDE DEF Fine, TypeOK
    <3> QED  BY <1>1, <1>2, <3>1, Zenon
  <2>2. CASE h = g
    BY <1>2, <1>7, <2>2 DEF GetEvict, Answer, LookupInv, Active
  <2>3. QED
    BY <2>1, <2>2, Zenon
<1>8. QED
  <2> HIDE DEF Fine
  <2> QED
    BY <1>3, <1>4, <1>5, <1>6, <1>7, StepCases

\* A receipt the client was sent can be fetched until it expires: one whose id
\* is its own is found for its whole TTL after InMemoryReceiptStore.Store.
THEOREM Served == Spec => []StoredIsServed
<1>1. Init => ClockInv /\ MapInv
  BY DEF Init, ClockInv, MapInv, IsStored, Unstored
<1>2. TypeOK /\ MapInv => StoredIsServed
  <2> SUFFICES ASSUME TypeOK, MapInv, NEW r \in Receipts, Unique(IdOf[r]), storedAt[r] >= 0,
                      time <= storedAt[r] + TTL
               PROVE  AtomicAnswer(receipts, time, IdOf[r]) = r
    BY Zenon DEF StoredIsServed
  <2>1. time \in Nat /\ storedAt[r] \in Nat
    BY DEF TypeOK, Unstored, Failed
  <2>2. receipts[IdOf[r]] = EntryOf(r)
    BY <2>1 DEF MapInv, IsStored
  <2>3. QED
    BY <2>1, <2>2 DEF AtomicAnswer, Expired, EntryOf
<1>3. QED
  BY <1>1, <1>2, ClockStep, MapStep, TypeCorrect, PTL DEF Spec

\* Both together: until it expires a receipt is there, and is what its id finds.
THEOREM TTLHolds == Spec => LivesItsTTL
  BY LiveKept, Served, PTL DEF LivesItsTTL

\* The gaps in InMemoryReceiptStore.Get are invisible: the lookup of an id that
\* is of one receipt answers as if it had happened at one instant.
THEOREM Atomic == Spec => []LookupIsAtomic
<1>1. Init => ClockInv /\ MapInv /\ LookupInv /\ AnswerInv
  BY DEF Init, ClockInv, MapInv, IsStored, Unstored, LookupInv, Active, AnswerInv, LookupIsAtomic
<1>2. AnswerInv => LookupIsAtomic
  BY Zenon DEF AnswerInv
<1>3. QED
  BY <1>1, <1>2, ClockStep, MapStep, LookupStep, AnswerStep, TypeCorrect, PTL DEF Spec
=============================================================================
