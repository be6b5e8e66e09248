--------------------------- MODULE ReceiptStorage ---------------------------
(***************************************************************************)
(* The history of receipts that the page keeps in localStorage, with the   *)
(* list and the cards that show it, in several tabs of one browser.        *)
(*                                                                         *)
(* localStorage has no lock: a tab's getItem and its setItem are steps of  *)
(* their own, and another tab may write in between.  A tab hears of its    *)
(* own writes only (the code has no "storage" listener).                   *)
(***************************************************************************)
EXTENDS ReceiptFormat, SequenceFilter

CONSTANTS Tabs,
          Readers,    \* the tabs whose history is followed
          Signed,     \* receipts, as records of ReceiptFormat: one for each id
          MAX,
          NoItem,     \* getItem's null
          NotEntries, \* an item that is not JSON, or not an array
          Idle

ASSUME TabsAssumption == Readers \subseteq Tabs
ASSUME SignedAssumption == \A r, s \in Signed : r.id = s.id => r = s
ASSUME MAXAssumption == MAX \in Nat \ {0}

VARIABLES item,       \* localStorage's item at KEY
          refused,    \* tabs whose window.localStorage throws
          op,         \* per tab, the write that is under way, with what it has read
          cachedRaw,  \* per tab
          view,       \* per tab, the entries on the screen
          cards,      \* per tab, verifyState of the card of each receipt in view
          threw,      \* tabs in which a storage function has thrown
          overlapped, \* tabs during whose write another tab has written
          behind      \* tabs that have not read since another tab has written

storageVars == <<item, refused, op, cachedRaw, view, cards, threw, overlapped, behind>>

\* An entry: its receipt, and whether savedAt is a finite number.
Entries == [receipt : Signed, dated : BOOLEAN]

ASSUME ItemAssumption == {NoItem, NotEntries} \cap Seq(Entries) = {}

\* No two entries have the key of one card.
Distinct(s) == \A i, j \in DOMAIN s : s[i].receipt.id = s[j].receipt.id => i = j

Ids(s) == {s[i].receipt.id : i \in DOMAIN s}
Elements(s) == {s[i] : i \in DOMAIN s}

ValidSigned == {r \in Signed : EntryValid(r)}
GoodSigned == {r \in Signed : WebVerify(r)}

\* isValidEntry.
IsValidEntry(e) == e.dated /\ e.receipt \in ValidSigned

\* parse.
Parse(raw) ==
  IF raw \in {NoItem, NotEntries} THEN <<>>
  ELSE Kept(raw, {i \in DOMAIN raw : IsValidEntry(raw[i])})

Without(s, id) == Kept(s, {i \in DOMAIN s : s[i].receipt.id # id})

\* Mutant: one entry fewer is kept.
TrimShort(s) == SubSeq(s, 1, IF Len(s) < MAX THEN Len(s) ELSE MAX - 1)

Trim(s) == SubSeq(s, 1, IF Len(s) < MAX THEN Len(s) ELSE MAX)

\* Mutant: the receipt is added without a look at its id.
SaveAgain(entries, r) == Trim(<<[receipt |-> r, dated |-> TRUE]>> \o entries)

\* saveReceipt, between its read and its write.  What is saved has passed
\* safeDecodeReceiptHeader.
Save(entries, r) == Trim(<<[receipt |-> r, dated |-> TRUE]>> \o Without(entries, r.id))
-----------------------------------------------------------------------------
StorageInit ==
  /\ item \in {NoItem, NotEntries} \cup
       {s \in UNION {[1..n -> Entries] : n \in 0..MAX} : Distinct(s)}
  /\ refused \in SUBSET Tabs
  /\ op = [t \in Tabs |-> Idle]
  /\ cachedRaw = [t \in Readers |-> NoItem]
  /\ view = [t \in Readers |-> <<>>]
  /\ cards = [t \in Readers |-> [id \in {} |-> "idle"]]
  /\ threw = {} /\ overlapped = {}
  /\ behind = Readers

\* Mutant: the snapshot is kept while the item has as many entries.
SnapshotByLength(t, raw) ==
  IF Len(Parse(raw)) = Len(Parse(cachedRaw[t])) THEN cachedRaw[t] ELSE raw

\* refreshSnapshot: cachedRaw follows the item; the snapshot is its parse.
Snapshot(t, raw) == IF raw # cachedRaw[t] THEN raw ELSE cachedRaw[t]

\* Cards are keyed by the id of their receipt: one that stays keeps its state, a
\* new one starts idle.
Cards(old, entries, states) ==
  [id \in Ids(entries) |-> IF id \in Ids(old) THEN states[id] ELSE "idle"]

\* ReceiptHistory renders the snapshot.
Show(t, raw) ==
  IF t \in Readers
  THEN /\ cachedRaw' = [cachedRaw EXCEPT ![t] = raw]
       /\ view' = [view EXCEPT ![t] = Parse(raw)]
       /\ cards' = [cards EXCEPT ![t] = Cards(view[t], Parse(raw), @)]
  ELSE UNCHANGED <<cachedRaw, view, cards>>

\* A render: the first, or one for another reason than notify.
RenderHistory(t) ==
  /\ op[t] = Idle /\ t \in Readers
  /\ IF t \in refused
     THEN threw' = threw \cup {t} /\ UNCHANGED <<cachedRaw, view, cards, behind>>
     ELSE Show(t, Snapshot(t, item)) /\ behind' = behind \ {t} /\ UNCHANGED threw
  /\ UNCHANGED <<item, refused, op, overlapped>>

\* isBrowser, and listReceipts of a save or a removal.
Begin(t, kind, r) ==
  /\ op[t] = Idle
  /\ IF t \in refused
     THEN threw' = threw \cup {t} /\ UNCHANGED op
     ELSE /\ op' = [op EXCEPT ![t] = [kind |-> kind, receipt |-> r,
                                        entries |-> IF kind = "clear" THEN <<>> ELSE Parse(item)]]
          /\ UNCHANGED threw
  /\ UNCHANGED <<item, refused, cachedRaw, view, cards, overlapped, behind>>

\* The write throws (quota, private browsing): it is caught, and nothing has changed.
WriteFails(t) ==
  /\ op[t] # Idle
  /\ op' = [op EXCEPT ![t] = Idle]
  /\ overlapped' = overlapped \ {t}
  /\ UNCHANGED <<item, refused, cachedRaw, view, cards, threw, behind>>

Written(o) ==
  CASE o.kind = "save" -> Save(o.entries, o.receipt)
    [] o.kind = "remove" -> Without(o.entries, o.receipt.id)
    [] o.kind = "clear" -> NoItem

\* setItem or removeItem, and notify.
Write(t) ==
  /\ op[t] # Idle
  /\ item' = Written(op[t])
  /\ op' = [op EXCEPT ![t] = Idle]
  /\ Show(t, Snapshot(t, item'))
  /\ overlapped' = {u \in Tabs \ {t} : op[u] # Idle}
  /\ behind' = Readers \ {t}
  /\ UNCHANGED <<refused, threw>>

\* handleVerify of a card; the button is there while the card is idle.
VerifyCard(t, id) ==
  /\ op[t] = Idle /\ id \in Ids(view[t])
  /\ \/ cards[t][id] = "idle" /\ cards' = [cards EXCEPT ![t][id] = "verifying"]
     \/ /\ cards[t][id] = "verifying"
        /\ \E e \in Elements(view[t]) :
             /\ e.receipt.id = id
             /\ cards' = [cards EXCEPT ![t][id] =
                            IF e.receipt \in GoodSigned THEN "valid" ELSE "invalid"]
  /\ UNCHANGED <<item, refused, op, cachedRaw, view, threw, overlapped, behind>>

StorageNext ==
  \E t \in Tabs :
    \/ RenderHistory(t) \/ Write(t) \/ WriteFails(t)
    \/ \E r \in Signed : WebValid(r) /\ Begin(t, "save", r)
    \/ Begin(t, "clear", Idle)
    \/ t \in Readers /\ \E r \in Signed : Begin(t, "remove", r) \/ VerifyCard(t, r.id)

StorageSpec == StorageInit /\ [][StorageNext]_storageVars
-----------------------------------------------------------------------------
(* What the history promises.                                              *)

\* Whatever older builds and other tabs have left in the item, the page can render
\* what it shows: whole receipts, no two with the key of one card, MAX at most.  "A
\* localStorage throw (quota exceeded, private browsing, Safari ITP) MUST NOT
\* propagate": it does from a tab whose window.localStorage itself throws, and from
\* no other.
HistoryRenderable ==
  /\ threw \subseteq refused
  /\ \A t \in Readers : /\ \A e \in Elements(view[t]) : e.dated /\ e.receipt \in ValidSigned
                        /\ Distinct(view[t])
                        /\ Len(view[t]) <= MAX

\* A tab shows what is stored, unless another tab has written since it last read;
\* and a card that says "Signature valid" or "Signature invalid" stands by a receipt
\* of which it is true, also after the list has changed around it.
HistoryIsTrue ==
  \A t \in Readers :
    /\ t \in behind \/ view[t] = Parse(item)
    /\ \A e \in Elements(view[t]) :
         /\ cards[t][e.receipt.id] = "valid" => e.receipt \in GoodSigned
         /\ cards[t][e.receipt.id] = "invalid" => e.receipt \notin GoodSigned

\* A save or a removal during which no other tab writes loses no receipt but its
\* own, and the oldest when there are MAX.
NothingElseLost ==
  [][\A t \in Tabs :
       op[t] # Idle /\ op'[t] = Idle /\ item' # item /\ t \notin overlapped /\ op[t].kind # "clear"
         => \A e \in Elements(Parse(item)) :
              \/ e \in Elements(Parse(item')) \/ e.receipt.id = op[t].receipt.id
              \/ op[t].kind = "save" /\ Len(Parse(item)) = MAX /\ e = Parse(item)[MAX]]_storageVars
=============================================================================
