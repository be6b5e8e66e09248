-------------------------- MODULE SdkClientProofs --------------------------
(***************************************************************************)
(* Proofs about SdkClient, for any calls, bodies, replies and paths.       *)
(***************************************************************************)
EXTENDS SdkClient, TLAPS

Issued == {s.receipt : s \in served}

\* Nothing but what the gateway issued verifies with its key.
Sound(r) == SdkVerify(r, GatewayKey) => r \in Issued
-----------------------------------------------------------------------------
(* Receipts.                                                               *)

\* A receipt that verifies was signed by the key, over its content.
LEMMA VerifyMeans ==
  ASSUME NEW r, NEW k, SdkVerify(r, k)
  PROVE  r.sig.by = k /\ r.sig.of = Content(r)
  BY Zenon DEF SdkVerify, Recovers

\* A receipt that the gateway has just made is accepted with its key.
LEMMA FreshVerifies ==
  ASSUME NEW id, NEW path, NEW body, NEW answer
  PROVE  /\ SdkValid(Receipt(GatewayKey, id, path, body, answer))
         /\ SdkVerify(Receipt(GatewayKey, id, path, body, answer), GatewayKey)
<1> DEFINE r == Receipt(GatewayKey, id, path, body, answer)
<1>1. /\ r.id = id /\ r.endpoint = path /\ r.request = HashBody(body)
      /\ r.response = HashBody(answer) /\ r.odd = NoOdd /\ r.key = GatewayKey
  BY Zenon DEF Receipt
<1>2. r.sig = [by |-> GatewayKey, parity |-> 0, v |-> 0,
               of |-> [id |-> id, endpoint |-> path, request |-> HashBody(body),
                       response |-> HashBody(answer), odd |-> NoOdd]]
  BY Zenon DEF Receipt
<1>3. r.sig.by = GatewayKey /\ r.sig.parity = 0 /\ r.sig.v = 0
      /\ r.sig.of = [id |-> id, endpoint |-> path, request |-> HashBody(body),
                     response |-> HashBody(answer), odd |-> NoOdd]
  BY <1>2
<1>4. r.sig.of = Content(r)  BY <1>1, <1>3, Zenon DEF Content
<1>5. SdkValid(r)
  <2>1. ASSUME NEW f \in Fields PROVE Kind(r, f) \in SdkAccepts(f)
    <3>1. DOMAIN r.odd = {}  BY <1>1, Zenon DEF NoOdd
    <3>2. Kind(r, f) = GatewayKind(f)  BY <3>1, Zenon DEF Kind
    <3> QED  BY <3>2, Zenon DEF GatewayKind, SdkAccepts
  <2> QED  BY <2>1, Zenon DEF SdkValid
<1>6. Parity(27) = 0  BY Zenon DEF Parity
<1>7. (IF r.sig.v <= 1 THEN r.sig.v + 27 ELSE r.sig.v) = 27  BY <1>3
<1>8. Recovers(r, 27, GatewayKey)  BY <1>3, <1>4, <1>6, ZenonT(30) DEF Recovers
<1>9. SdkVerify(r, GatewayKey)  BY <1>1, <1>5, <1>7, <1>8, Zenon DEF SdkVerify
<1> QED  BY <1>5, <1>9, Zenon

\* What the gateway sold, it made.
MadeByGateway ==
  \A s \in served : \E id, path, body, answer :
    s.receipt = Receipt(GatewayKey, id, path, body, answer)

\* A proxy that has no key of the gateway's puts nothing into an answer that would
\* verify with it, but what the gateway has issued.
LEMMA ProxySound ==
  ASSUME MadeByGateway, NEW c \in Calls, NEW x \in Receipts(c)
  PROVE  Sound(x)
<1> SUFFICES ASSUME SdkVerify(x, GatewayKey) PROVE x \in Issued  BY Zenon DEF Sound
<1>0. x.sig.by = GatewayKey /\ x.sig.of = Content(x)  BY VerifyMeans, Zenon
<1>1. ASSUME NEW r \in Issued
      PROVE  \E id, path, body, answer : r = Receipt(GatewayKey, id, path, body, answer)
  BY ZenonT(30) DEF Issued, MadeByGateway
<1> DEFINE own == {Receipt(OtherKey, c, endpoint[c], text[c], answer) : answer \in Replies}
<1>2. ASSUME NEW r \in own PROVE r.sig.by = OtherKey
  BY <1>2 DEF Receipt
<1>3. CASE x \in Issued  BY <1>3, Zenon
<1>4. CASE x \in own  BY <1>0, <1>2, <1>4, KeysAssumption, Zenon
<1>5. CASE x \in {[r EXCEPT !.response = answer] : r \in Issued, answer \in Replies}
  <2>1. PICK r \in Issued, a \in Replies : x = [r EXCEPT !.response = a]  BY <1>5
  <2>2. PICK id, path, body, answer : r = Receipt(GatewayKey, id, path, body, answer)
    BY <1>1, Zenon
  <2>3. /\ x.sig = r.sig /\ x.response = a
        /\ r.sig.of = Content(r) /\ r.response = r.sig.of.response
    BY <2>1, <2>2, ZenonT(30) DEF Receipt, Content
  <2>4. Content(x).response = a  BY <2>3, Zenon DEF Content
  <2>5. a = r.response  BY <1>0, <2>3, <2>4, Zenon
  <2>6. x = r  BY <2>1, <2>2, <2>5, ZenonT(30) DEF Receipt
  <2> QED  BY <2>6, Zenon
<1>6. CASE x \in {[r EXCEPT !.key = GatewayKey] : r \in own}
  <2>1. PICK r \in own : x = [r EXCEPT !.key = GatewayKey]  BY <1>6, Zenon
  <2>2. x.sig = r.sig  BY <2>1 DEF Receipt
  <2> QED  BY <1>0, <1>2, <2>2, KeysAssumption, Zenon
<1>7. CASE x \in {[r EXCEPT !.odd = [f \in {"chainId"} |-> "absent"]] : r \in Issued}
  <2>1. PICK r \in Issued : x = [r EXCEPT !.odd = [f \in {"chainId"} |-> "absent"]]  BY <1>7, Zenon
  <2>2. PICK id, path, body, answer : r = Receipt(GatewayKey, id, path, body, answer)
    BY <1>1, Zenon
  <2>3. x.sig = r.sig /\ x.odd = [f \in {"chainId"} |-> "absent"] /\ r.sig.of.odd = NoOdd
    BY <2>1, <2>2, Zenon DEF Receipt
  <2>4. Content(x).odd = x.odd  BY Zenon DEF Content
  <2>5. NoOdd = [f \in {"chainId"} |-> "absent"]  BY <1>0, <2>3, <2>4, Zenon
  <2>6. DOMAIN NoOdd = {"chainId"} /\ DOMAIN NoOdd = {}  BY <2>5, Zenon DEF NoOdd
  <2> QED  BY <2>6, Zenon
<1> QED  BY <1>3, <1>4, <1>5, <1>6, <1>7 DEF Receipts, Issued
-----------------------------------------------------------------------------
(* The inductive invariant.                                                *)

Unpaid == {"payment_challenge_missing", "payment_signature_failed"}
OfReceipt == {"receipt_decode_failed", "receipt_verification_failed"}

\* What a call has sent: the request that its receipt is compared with, and at most
\* one signed repetition of it.
SentInv(c) ==
  /\ Len(sent[c]) <= 2
  /\ pc[c] = "idle" => sent[c] = <<>>
  /\ pc[c] \in {"first", "sign"} => Len(sent[c]) = 1
  /\ pc[c] = "retry" => Len(sent[c]) = 2
  /\ Len(sent[c]) >= 1 => /\ sent[c][1].nonce = None /\ text[c] = sent[c][1].body
                          /\ endpoint[c] = <<sent[c][1].path.name, None>>
  /\ Len(sent[c]) = 2 => sent[c][2].path = sent[c][1].path /\ sent[c][2].body = sent[c][1].body

\* A call that has not begun has sent what it should.
LEMMA NothingSent ==
  ASSUME NEW c, sent[c] = <<>>, pc[c] = "idle"
  PROVE  SentInv(c)
<1>1. Len(sent[c]) = 0  OBVIOUS
<1> QED  BY <1>1 DEF SentInv

\* How many requests a waiting call has sent.
LEMMA SentLengths ==
  ASSUME NEW c, SentInv(c), pc[c] \in {"first", "retry"}
  PROVE  Len(sent[c]) >= 1 /\ (pc[c] = "first" => Len(sent[c]) = 1)
<1>1. CASE pc[c] = "first"
  <2>1. Len(sent[c]) = 1  BY <1>1, Zenon DEF SentInv
  <2> QED  BY <2>1
<1>2. CASE pc[c] = "retry"
  <2>1. Len(sent[c]) = 2  BY <1>2, Zenon DEF SentInv
  <2> QED  BY <1>2, <2>1
<1> QED  BY <1>1, <1>2, Zenon

\* Only the second request is a signed one.
LEMMA SignedIsSecond ==
  ASSUME NEW c, sent[c] \in Seq(Requests), SentInv(c),
         NEW i \in DOMAIN sent[c], sent[c][i].nonce # None
  PROVE  i = 2 /\ Len(sent[c]) = 2
<1>1. i \in 1..Len(sent[c]) /\ Len(sent[c]) \in Nat /\ Len(sent[c]) <= 2  BY DEF SentInv
<1>2. Len(sent[c]) >= 1 /\ i \in 1..2  BY <1>1
<1>3. i # 1  BY <1>2, Zenon DEF SentInv
<1>4. i = 2  BY <1>2, <1>3
<1>5. 2 <= Len(sent[c])  BY <1>1, <1>4
<1>6. \A n \in Nat : n <= 2 /\ 2 <= n => n = 2  OBVIOUS
<1>7. Len(sent[c]) = 2  BY <1>1, <1>5, <1>6, Zenon
<1> QED  BY <1>4, <1>7, ZenonT(30)

\* The gateway's own success, for the request that the call has sent last.
Honest(c, res) ==
  /\ Len(sent[c]) = 2 /\ pc[c] # "first"
  /\ res.body \in Replies
  /\ \E id \in Calls : res.header = Receipt(GatewayKey, id, endpoint[c], text[c], res.body)

\* What can arrive.
ReplyInv(c) ==
  reply[c] \notin {None, NetworkError} =>
    /\ reply[c].header \in {None, NotJson} \/ Sound(reply[c].header)
    /\ c \in meddled \/ ~Ok(reply[c].status) \/ Honest(c, reply[c])

\* What a call may end with.
Verified(c, o) ==
  /\ o.receiptVerified = TRUE /\ trusted = GatewayKey
     => \E s \in served : /\ o.receipt = s.receipt
                          /\ s.receipt.request = HashBody(sent[c][1].body)
                          /\ s.receipt.endpoint[1] = sent[c][1].path.name
                          /\ s.receipt.response = HashBody(o.data)
  /\ o.receipt # None /\ SdkVerify(o.receipt, GatewayKey)
     => o.receipt \in {s.receipt : s \in served}

EndsWell(c, o) ==
  /\ o.code = None => Verified(c, o)
  /\ o.code \in OfReceipt => c \in meddled \/ sent[c] = <<>> \/ trusted = OtherKey
  /\ o.code \in Unpaid => Len(sent[c]) <= 1

CallInv(c) == SentInv(c) /\ ReplyInv(c) /\ (pc[c] = "ended" => EndsWell(c, outcome[c]))

\* What was sold: once per call, to the nonce of its signed request.
SalesInv ==
  /\ MadeByGateway
  /\ \A s \in served : /\ s.call \in Calls /\ Len(sent[s.call]) = 2
                       /\ sent[s.call][2].nonce \in spent
  /\ \A s, t \in served : s.call = t.call => s = t

IInv == TypeOK /\ SalesInv /\ \A c \in Calls : CallInv(c)

\* What a step of call c leaves of the others.
Apart(c) ==
  /\ trusted' = trusted /\ served \subseteq served'
  /\ \A d \in Calls \ {c} :
       /\ pc'[d] = pc[d] /\ endpoint'[d] = endpoint[d] /\ text'[d] = text[d]
       /\ outcome'[d] = outcome[d] /\ sent'[d] = sent[d] /\ reply'[d] = reply[d]
       /\ d \in meddled' <=> d \in meddled

\* What was issued stays issued.
LEMMA IssuedGrows ==
  ASSUME served \subseteq served'
  PROVE  Issued \subseteq Issued' /\ \A r : Sound(r) => Sound(r)'
<1>1. Issued \subseteq Issued'  BY ZenonT(30) DEF Issued
<1>2. ASSUME NEW r PROVE SdkVerify(r, GatewayKey)' <=> SdkVerify(r, GatewayKey)
  BY ZenonT(30) DEF SdkVerify, SdkValid, Recovers, Kind, Content
<1> QED  BY <1>1, <1>2, Zenon DEF Sound

\* A verified outcome stays verified while more is served.
LEMMA VerifiedKept ==
  ASSUME NEW c, NEW o, Verified(c, o), served \subseteq served', trusted' = trusted,
         sent'[c] = sent[c]
  PROVE  Verified(c, o)'
  BY ZenonT(30) DEF Verified

\* The step of a call keeps the invariants of the others.
LEMMA OthersKept ==
  ASSUME NEW c \in Calls, Apart(c), NEW d \in Calls \ {c}, CallInv(d)
  PROVE  CallInv(d)'
<1>1. SentInv(d)'  BY ZenonT(30) DEF Apart, CallInv, SentInv
<1>2. ReplyInv(d)'
  BY IssuedGrows, ZenonT(30) DEF Apart, CallInv, ReplyInv, Honest
<1>3. ASSUME EndsWell(d, outcome[d]) PROVE EndsWell(d, outcome[d])'
  BY <1>3, VerifiedKept, Zenon DEF Apart, EndsWell
<1> QED  BY <1>1, <1>2, <1>3, ZenonT(30) DEF CallInv, Apart

\* What a step has to show of its own call is enough.
LEMMA Combine ==
  ASSUME IInv, NEW c \in Calls, Apart(c), TypeOK', SalesInv', CallInv(c)'
  PROVE  IInv'
  BY OthersKept, Zenon DEF IInv

\* The fields of the outcomes.
LEMMA OutcomeFields ==
  ASSUME NEW k, NEW d, NEW r, NEW v
  PROVE  /\ Error(k).code = k
         /\ Returned(d, r, v).code = None /\ Returned(d, r, v).data = d
         /\ Returned(d, r, v).receipt = r /\ Returned(d, r, v).receiptVerified = v
  BY ZenonT(30) DEF Error, Returned

\* An error that is neither of the receipt nor before the payment.
LEMMA OtherErrors ==
  ASSUME NEW c, NEW k \in ErrorCodes \ (OfReceipt \cup Unpaid)
  PROVE  EndsWell(c, Error(k))
  BY NoneAssumption, OutcomeFields DEF EndsWell

\* The gateway's answer as it was sent passes the checks of readReceipt.
LEMMA HonestPasses ==
  ASSUME TypeOK, NEW c \in Calls, SentInv(c), NEW res, Honest(c, res)
  PROVE  /\ ~Undecodable(res.header)
         /\ ReceiptMatchesPayload(c, res.header, res.body)
         /\ SdkVerify(res.header, GatewayKey)
<1>1. PICK id \in Calls : res.header = Receipt(GatewayKey, id, endpoint[c], text[c], res.body)
  BY Zenon DEF Honest
<1>2. Len(sent[c]) = 2 /\ res.body \in Replies  BY Zenon DEF Honest
<1>3. sent[c][1] \in Requests
  <2>1. sent[c] \in Seq(Requests)  BY ZenonT(30) DEF TypeOK
  <2> QED  BY <1>2, <2>1
<1>4. /\ endpoint[c] = BuildReceiptEndpoint(sent[c][1].path) /\ sent[c][1].path \in Paths
      /\ text[c] \in Bodies \cup {None, Cyclic}
  BY <1>2, <1>3 DEF SentInv, BuildReceiptEndpoint, Requests, TypeOK
<1>5. res.header # NotJson  BY <1>1, <1>2, <1>4, NotJsonAssumption, ZenonT(30)
<1>6. SdkValid(res.header) /\ SdkVerify(res.header, GatewayKey)  BY <1>1, FreshVerifies, ZenonT(30)
<1>7. ReceiptMatchesPayload(c, res.header, res.body)
  BY <1>1 DEF Receipt, ReceiptMatchesPayload
<1> QED  BY <1>5, <1>6, <1>7, ZenonT(30) DEF Undecodable

\* Reading a success reply ends a call well.
LEMMA Reading ==
  ASSUME TypeOK, NEW c \in Calls, CallInv(c), reply[c] \notin {None, NetworkError},
         Len(sent[c]) >= 1, Ok(reply[c].status)
  PROVE  EndsWell(c, ReadSuccess(c, reply[c]))
<1> DEFINE res == reply[c]
           r == res.header
           o == ReadSuccess(c, res)
<1> HIDE DEF res, r, o
<1>0. /\ r \in {None, NotJson} \/ Sound(r)
      /\ c \in meddled \/ Honest(c, res)
      /\ SentInv(c)
  BY Zenon DEF CallInv, ReplyInv, res, r
<1>1. CASE res.body \in {CutShort, NotJson}
  <2>1. o \in {Error("untyped"), Error("network_error")}  BY <1>1, Zenon DEF ReadSuccess, o
  <2>2. {"untyped", "network_error"} \subseteq ErrorCodes \ (OfReceipt \cup Unpaid)
    BY ZenonT(30) DEF ErrorCodes, OfReceipt, Unpaid
  <2> QED  BY <2>1, <2>2, OtherErrors, Zenon DEF o, res
<1> DEFINE passes == res.body \notin {CutShort, NotJson}
<1>2. CASE passes /\ r = None
  <2>1. o = Returned(res.body, None, None)  BY <1>2, ZenonT(30) DEF ReadSuccess, o, r
  <2>2. /\ o.code = None /\ o.receipt = None /\ o.receiptVerified = None
    BY <2>1, OutcomeFields
  <2>3. o.receiptVerified # TRUE  BY <2>2, NoneAssumption, Zenon
  <2>4. Verified(c, o)  BY <2>2, <2>3, Zenon DEF Verified
  <2>5. None \notin OfReceipt /\ None \notin Unpaid
    BY NoneAssumption, ZenonT(30) DEF ErrorCodes, OfReceipt, Unpaid
  <2> QED  BY <2>2, <2>4, <2>5, ZenonT(30) DEF EndsWell, o, res
<1>3. CASE /\ passes /\ r # None
           /\ Undecodable(r) \/ ~ReceiptMatchesPayload(c, r, res.body)
              \/ (trusted # None /\ ~SdkVerify(r, trusted))
  <2>1. o \in {Error("receipt_decode_failed"), Error("receipt_verification_failed")}
    BY <1>3, Zenon DEF ReadSuccess, o, r
  <2>2. o.code \in OfReceipt  BY <2>1, OutcomeFields DEF OfReceipt
  <2>3. o.code # None /\ o.code \notin Unpaid
    BY <2>2, NoneAssumption, ZenonT(30) DEF OfReceipt, Unpaid, ErrorCodes
  <2>4. c \in meddled \/ trusted = OtherKey
    <3>1. SUFFICES ASSUME Honest(c, res) PROVE trusted = OtherKey  BY <1>0, ZenonT(30)
    <3>2. trusted # None /\ ~SdkVerify(r, trusted)  BY <1>0, <1>3, <3>1, HonestPasses, ZenonT(30) DEF r
    <3>3. SdkVerify(r, GatewayKey)  BY <1>0, <3>1, HonestPasses, ZenonT(30) DEF r
    <3> QED  BY <3>2, <3>3, KeysAssumption, ZenonT(30) DEF TypeOK
  <2> QED  BY <2>2, <2>3, <2>4, Zenon DEF EndsWell, o, res
<1>4. CASE /\ passes /\ r # None /\ ~Undecodable(r) /\ ReceiptMatchesPayload(c, r, res.body)
           /\ trusted # None => SdkVerify(r, trusted)
  <2>1. o \in {Returned(res.body, r, FALSE), Returned(res.body, r, TRUE)}
        /\ (trusted = None => o = Returned(res.body, r, FALSE))
    BY <1>4, Zenon DEF ReadSuccess, o, r
  <2>2. o.code = None /\ o.data = res.body /\ o.receipt = r
    BY <2>1 DEF Returned
  <2>3. o.receiptVerified = TRUE => trusted # None
    BY <2>1 DEF Returned
  <2>4. Sound(r)  BY <1>0, <1>4, ZenonT(30) DEF Undecodable
  <2>5. ASSUME trusted = GatewayKey, trusted # None
        PROVE  \E s \in served : /\ o.receipt = s.receipt
                                 /\ s.receipt.request = HashBody(sent[c][1].body)
                                 /\ s.receipt.endpoint[1] = sent[c][1].path.name
                                 /\ s.receipt.response = HashBody(o.data)
    <3>1. PICK s \in served : r = s.receipt  BY <1>4, <2>4, <2>5, ZenonT(30) DEF Sound, Issued
    <3>2. /\ r.endpoint = <<sent[c][1].path.name, None>>
          /\ r.request = HashBody(sent[c][1].body) /\ r.response = HashBody(res.body)
      BY <1>0, <1>4, ZenonT(30) DEF ReceiptMatchesPayload, SentInv
    <3>3. r.endpoint[1] = sent[c][1].path.name  BY <3>2
    <3> QED  BY <2>2, <3>1, <3>2, <3>3, Zenon
  <2>6. Verified(c, o)  BY <2>2, <2>3, <2>4, <2>5, ZenonT(30) DEF Verified, Sound, Issued
  <2>7. None \notin OfReceipt /\ None \notin Unpaid
    BY NoneAssumption, Zenon DEF ErrorCodes, OfReceipt, Unpaid
  <2> QED  BY <2>2, <2>6, <2>7, Zenon DEF EndsWell, o, res
<1> QED  BY <1>1, <1>2, <1>3, <1>4, ZenonT(30)
-----------------------------------------------------------------------------
(* The steps.                                                              *)

\* The end of a call.
LEMMA Ends ==
  ASSUME IInv, NEW c \in Calls, NEW o, End(c, o), EndsWell(c, o),
         UNCHANGED <<trusted, endpoint, text, ctx, sent, spent, served, meddled>>
  PROVE  IInv'
<1>1. /\ pc' \in [Calls -> {"idle", "first", "sign", "retry", "ended"}] /\ pc'[c] = "ended"
      /\ outcome' = [d \in Calls |-> outcome'[d]] /\ outcome'[c] = o
      /\ reply' = [d \in Calls |-> reply'[d]] /\ reply'[c] = None
      /\ \A d \in Calls \ {c} : pc'[d] = pc[d] /\ outcome'[d] = outcome[d] /\ reply'[d] = reply[d]
  BY Zenon DEF IInv, TypeOK, End
<1>2. Apart(c)  BY <1>1, Zenon DEF Apart
<1>3. TypeOK'  BY <1>1, ZenonT(30) DEF IInv, TypeOK
<1>4. SalesInv'  BY ZenonT(30) DEF IInv, SalesInv, MadeByGateway
<1>5. CallInv(c)'
  <2>1. SentInv(c)'  BY <1>1, ZenonT(30) DEF IInv, CallInv, SentInv
  <2>2. ReplyInv(c)'  BY <1>1, ZenonT(30) DEF ReplyInv
  <2>3. EndsWell(c, outcome[c])'  BY <1>1, ZenonT(120) DEF EndsWell, Verified
  <2> QED  BY <2>1, <2>2, <2>3, ZenonT(30) DEF CallInv
<1> QED  BY <1>2, <1>3, <1>4, <1>5, Combine, Zenon

\* A request is sent.
Sending(c, label, q) ==
  /\ label \in {"first", "retry"} /\ q \in Requests
  /\ sent' = [sent EXCEPT ![c] = Append(@, q)]
  /\ pc' = [pc EXCEPT ![c] = label] /\ reply' = [reply EXCEPT ![c] = None]
  /\ endpoint' \in [Calls -> {BuildReceiptEndpoint(p) : p \in Paths} \cup {None}]
  /\ text' \in [Calls -> Bodies \cup {None, Cyclic}]
  /\ \A d \in Calls \ {c} : endpoint'[d] = endpoint[d] /\ text'[d] = text[d]
  /\ UNCHANGED <<trusted, outcome, ctx, spent, served, meddled>>
  /\ Len(sent[c]) <= 1 /\ SentInv(c)'

\* Sending a request keeps the invariant.
LEMMA Sends ==
  ASSUME IInv, NEW c \in Calls, NEW label, NEW q, Sending(c, label, q)
  PROVE  IInv'
<1> USE DEF Sending
<1>0. sent[c] \in Seq(Requests)  BY ZenonT(30) DEF IInv, TypeOK
<1>1. Append(sent[c], q) \in Seq(Requests)  BY <1>0
<1>2. /\ sent' \in [Calls -> Seq(Requests)]
      /\ pc' \in [Calls -> {"idle", "first", "sign", "retry", "ended"}] /\ pc'[c] = label
      /\ reply' = [d \in Calls |-> reply'[d]] /\ reply'[c] = None
      /\ \A d \in Calls \ {c} : pc'[d] = pc[d] /\ sent'[d] = sent[d] /\ reply'[d] = reply[d]
  BY <1>1, Zenon DEF IInv, TypeOK
<1>3. Apart(c)  BY <1>2, Zenon DEF Apart
<1>4. TypeOK'  BY <1>2, ZenonT(30) DEF IInv, TypeOK
<1>5. SalesInv'
  <2>1. ASSUME NEW s \in served PROVE s.call \in Calls /\ sent'[s.call] = sent[s.call]
    <3>1. s.call \in Calls /\ Len(sent[s.call]) = 2  BY ZenonT(30) DEF IInv, SalesInv
    <3>2. ASSUME s.call = c PROVE FALSE
      <4>1. Len(sent[c]) = 2  BY <3>1, <3>2, Zenon
      <4> QED  BY <4>1
    <3> QED  BY <1>2, <3>1, <3>2, ZenonT(30)
  <2> QED  BY <2>1 DEF IInv, SalesInv, MadeByGateway
<1>6. CallInv(c)'  BY <1>2, Zenon DEF CallInv, ReplyInv
<1> QED  BY <1>3, <1>4, <1>5, <1>6, Combine, Zenon

\* So does the first request of a call.
LEMMA RequestInv ==
  ASSUME IInv, NEW c \in Calls, Request(c)
  PROVE  IInv'
<1>1. PICK path \in Paths, body \in Bodies \cup {None, Cyclic} :
        /\ pc[c] = "idle"
        /\ IF Unsendable(path, body)
             THEN End(c, Error("network_error")) /\ UNCHANGED <<endpoint, text, sent>>
             ELSE /\ endpoint' = [endpoint EXCEPT ![c] = BuildReceiptEndpoint(path)]
                  /\ text' = [text EXCEPT ![c] = body]
                  /\ Fetch(c, "first", path, body, None)
        /\ UNCHANGED <<trusted, ctx, gateway, meddled>>
  BY ZenonT(30) DEF Request
<1>2. UNCHANGED <<trusted, ctx, spent, served, meddled>>  BY <1>1, ZenonT(30) DEF gateway
<1>3. CASE Unsendable(path, body)
  <2>1. "network_error" \in ErrorCodes \ (OfReceipt \cup Unpaid)
    BY Zenon DEF ErrorCodes, OfReceipt, Unpaid
  <2>2. EndsWell(c, Error("network_error"))  BY <2>1, OtherErrors, ZenonT(30)
  <2> QED  BY <1>1, <1>2, <1>3, <2>2, Ends, ZenonT(30)
<1>4. CASE ~Unsendable(path, body)
  <2> DEFINE q == [path |-> path, body |-> body, nonce |-> None]
  <2>1. /\ sent' = [sent EXCEPT ![c] = Append(@, q)] /\ pc' = [pc EXCEPT ![c] = "first"]
        /\ reply' = [reply EXCEPT ![c] = None] /\ outcome' = outcome
    BY <1>1, <1>4, ZenonT(30) DEF Fetch
  <2>2. q \in Requests  BY Zenon DEF Requests
  <2>3. sent[c] = <<>> /\ Len(sent[c]) = 0 /\ sent[c] \in Seq(Requests)
    <3>1. sent[c] = <<>>  BY <1>1, Zenon DEF IInv, CallInv, SentInv
    <3> QED  BY <3>1, ZenonT(30) DEF IInv, TypeOK
  <2>4. sent'[c] = Append(sent[c], q) /\ pc'[c] = "first"  BY <2>1, ZenonT(30) DEF IInv, TypeOK
  <2> HIDE DEF q
  <2>5. Len(sent'[c]) = 1 /\ sent'[c][1] = q  BY <2>2, <2>3, <2>4
  <2>6. /\ endpoint' \in [Calls -> {BuildReceiptEndpoint(p) : p \in Paths} \cup {None}]
        /\ text' \in [Calls -> Bodies \cup {None, Cyclic}]
        /\ endpoint'[c] = BuildReceiptEndpoint(path) /\ text'[c] = body
        /\ \A d \in Calls \ {c} : endpoint'[d] = endpoint[d] /\ text'[d] = text[d]
    <3> DEFINE E == {BuildReceiptEndpoint(p) : p \in Paths} \cup {None}
    <3>1. endpoint \in [Calls -> E] /\ BuildReceiptEndpoint(path) \in E  BY ZenonT(30) DEF IInv, TypeOK
    <3>2. endpoint' = [endpoint EXCEPT ![c] = BuildReceiptEndpoint(path)]  BY <1>1, <1>4, ZenonT(30)
    <3>3. text \in [Calls -> Bodies \cup {None, Cyclic}]  BY ZenonT(30) DEF IInv, TypeOK
    <3>4. text' = [text EXCEPT ![c] = body]  BY <1>1, <1>4, ZenonT(30)
    <3> HIDE DEF E
    <3>5. /\ endpoint' \in [Calls -> E] /\ endpoint'[c] = BuildReceiptEndpoint(path)
          /\ \A d \in Calls \ {c} : endpoint'[d] = endpoint[d]
      BY <3>1, <3>2, ZenonT(30)
    <3>6. /\ text' \in [Calls -> Bodies \cup {None, Cyclic}] /\ text'[c] = body
          /\ \A d \in Calls \ {c} : text'[d] = text[d]
      BY <3>3, <3>4, Zenon
    <3> QED  BY <3>5, <3>6, ZenonT(30) DEF E
  <2>7. q.path = path /\ q.body = body /\ q.nonce = None  BY ZenonT(30) DEF q
  <2>8. SentInv(c)'
    BY <2>4, <2>5, <2>6, <2>7 DEF SentInv, BuildReceiptEndpoint
  <2>9. Sending(c, "first", q)  BY <1>2, <2>1, <2>2, <2>3, <2>6, <2>8, SMTT(40) DEF Sending
  <2> QED  BY <2>9, Sends, ZenonT(30)
<1> QED  BY <1>3, <1>4, ZenonT(30)

\* So does signing the payment and retrying.
LEMMA SignInv ==
  ASSUME IInv, NEW c \in Calls, Sign(c)
  PROVE  IInv'
<1>0. pc[c] = "sign" /\ UNCHANGED <<trusted, endpoint, text, ctx, spent, served, meddled>>
  BY ZenonT(30) DEF Sign, local, gateway
<1>1. Len(sent[c]) = 1 /\ SentInv(c)  BY <1>0, ZenonT(30) DEF IInv, CallInv, SentInv
<1>2. CASE End(c, Error("payment_signature_failed")) /\ UNCHANGED sent
  <2>1. /\ "payment_signature_failed" \notin OfReceipt
        /\ "payment_signature_failed" # None
    BY NoneAssumption, ZenonT(30) DEF OfReceipt, ErrorCodes
  <2>2. EndsWell(c, Error("payment_signature_failed"))
    BY <1>1, <2>1, OutcomeFields DEF EndsWell
  <2> QED  BY <1>0, <1>2, <2>2, Ends, ZenonT(30)
<1>3. CASE Fetch(c, "retry", sent[c][1].path, text[c], ctx[c])
  <2> DEFINE q == [path |-> sent[c][1].path, body |-> text[c], nonce |-> ctx[c]]
  <2>1. /\ sent' = [sent EXCEPT ![c] = Append(@, q)] /\ pc' = [pc EXCEPT ![c] = "retry"]
        /\ reply' = [reply EXCEPT ![c] = None] /\ outcome' = outcome
    BY <1>3, Zenon DEF Fetch
  <2>2. sent[c] \in Seq(Requests)  BY ZenonT(30) DEF IInv, TypeOK
  <2>3. sent[c][1] \in Requests  BY <1>1, <2>2
  <2>4. q \in Requests  BY <2>3, ZenonT(30) DEF Requests, IInv, TypeOK
  <2>5. sent'[c] = Append(sent[c], q) /\ pc'[c] = "retry"  BY <2>1, ZenonT(30) DEF IInv, TypeOK
  <2> HIDE DEF q
  <2>6. Len(sent'[c]) = 2 /\ sent'[c][1] = sent[c][1] /\ sent'[c][2] = q
    BY <1>1, <2>2, <2>4, <2>5, SMTT(40)
  <2>7. q.path = sent[c][1].path /\ q.body = text[c]  BY ZenonT(30) DEF q
  <2>8. SentInv(c)'  BY <1>0, <1>1, <2>5, <2>6, <2>7 DEF SentInv
  <2>9. /\ endpoint' \in [Calls -> {BuildReceiptEndpoint(p) : p \in Paths} \cup {None}]
        /\ text' \in [Calls -> Bodies \cup {None, Cyclic}]
    BY <1>0, ZenonT(30) DEF IInv, TypeOK
  <2>10. Sending(c, "retry", q)  BY <1>0, <1>1, <2>1, <2>4, <2>8, <2>9 DEF Sending
  <2> QED  BY <2>10, Sends, ZenonT(30)
<1> QED  BY <1>2, <1>3, Zenon DEF Sign

\* The first answer and the answer to the signed request.
LEMMA AnswersInv ==
  ASSUME IInv, NEW c \in Calls, FirstAnswer(c) \/ RetryAnswer(c)
  PROVE  IInv'
<1> DEFINE res == reply[c]
           Keeps == UNCHANGED <<trusted, endpoint, text, ctx, sent, spent, served, meddled>>
           Plain == ErrorCodes \ (OfReceipt \cup Unpaid)
<1>0. Len(sent[c]) >= 1 /\ (pc[c] = "first" => Len(sent[c]) = 1) /\ CallInv(c) /\ TypeOK
  <2>1. CallInv(c) /\ TypeOK  BY Zenon DEF IInv
  <2>2. SentInv(c)  BY <2>1, ZenonT(30) DEF CallInv
  <2>3. pc[c] \in {"first", "retry"}  BY ZenonT(30) DEF FirstAnswer, RetryAnswer
  <2>4. Len(sent[c]) >= 1 /\ (pc[c] = "first" => Len(sent[c]) = 1)  BY <2>2, <2>3, SentLengths, Zenon
  <2> QED  BY <2>1, <2>4, Zenon
<1>1. {"network_error", "untyped", "signed_retry_failed"} \subseteq Plain
  BY ZenonT(30) DEF ErrorCodes, OfReceipt, Unpaid
<1>2. CASE \E k \in Plain : End(c, Error(k)) /\ Keeps
  BY <1>2, Ends, OtherErrors, Zenon
<1>3. CASE /\ res \notin {None, NetworkError} /\ Ok(res.status)
           /\ End(c, ReadSuccess(c, res)) /\ Keeps
  <2>1. EndsWell(c, ReadSuccess(c, res))  BY <1>0, <1>3, Reading, ZenonT(30)
  <2> QED  BY <1>3, <2>1, Ends, ZenonT(30)
<1>4. CASE pc[c] = "first" /\ End(c, Error("payment_challenge_missing")) /\ Keeps
  <2>1. "payment_challenge_missing" \notin OfReceipt /\ "payment_challenge_missing" # None
    BY NoneAssumption, Zenon DEF OfReceipt, ErrorCodes
  <2>2. EndsWell(c, Error("payment_challenge_missing"))
    BY <1>0, <1>4, <2>1, OutcomeFields, Zenon DEF EndsWell
  <2> QED  BY <1>4, <2>2, Ends, ZenonT(30)
<1>5. CASE /\ pc[c] = "first" /\ res.body \in Calls
           /\ ctx' = [ctx EXCEPT ![c] = res.body] /\ pc' = [pc EXCEPT ![c] = "sign"]
           /\ UNCHANGED <<trusted, endpoint, text, outcome, sent, reply, spent, served, meddled>>
  <2>1. /\ pc' \in [Calls -> {"idle", "first", "sign", "retry", "ended"}] /\ pc'[c] = "sign"
        /\ \A d \in Calls \ {c} : pc'[d] = pc[d]
        /\ ctx' \in [Calls -> Calls \cup {None}]
    BY <1>5, ZenonT(30) DEF IInv, TypeOK
  <2>2. Apart(c)  BY <1>5, <2>1, Zenon DEF Apart
  <2>3. TypeOK'  BY <1>5, <2>1, ZenonT(30) DEF IInv, TypeOK
  <2>4. SalesInv'  BY <1>5, ZenonT(30) DEF IInv, SalesInv, MadeByGateway
  <2>5. SentInv(c)'  BY <1>0, <1>5, <2>1, Zenon DEF CallInv, SentInv
  <2>6. ReplyInv(c)'
    <3>1. \A r : Sound(r) => Sound(r)'  BY <1>5, IssuedGrows, ZenonT(30)
    <3>2. ~Honest(c, res)  BY <1>5, Zenon DEF Honest
    <3>3. ReplyInv(c)  BY <1>0, Zenon DEF CallInv
    <3>4. reply' = reply /\ meddled' = meddled  BY <1>5, ZenonT(30)
    <3> QED  BY <3>1, <3>2, <3>3, <3>4, Zenon DEF ReplyInv
  <2>7. CallInv(c)'  BY <2>1, <2>5, <2>6, ZenonT(30) DEF CallInv
  <2> QED  BY <2>2, <2>3, <2>4, <2>7, Combine, Zenon
<1>6. ASSUME NEW k \in {"network_error", "payment_challenge_missing", "signed_retry_failed"}
      PROVE  Failure(res, k) \in {Error("untyped"), Error(k)}
  BY Zenon DEF Failure
<1>7. CASE FirstAnswer(c)
  <2>1. pc[c] = "first" /\ res # None /\ UNCHANGED <<trusted, endpoint, text, sent, spent, served, meddled>>
    BY <1>7, Zenon DEF FirstAnswer, gateway
  <2>2. CASE res = NetworkError
    <3>1. End(c, Error("network_error")) /\ Keeps  BY <1>7, <2>1, <2>2, ZenonT(30) DEF FirstAnswer
    <3> QED  BY <1>1, <1>2, <3>1, ZenonT(30)
  <2>3. CASE res # NetworkError /\ res.status # 402 /\ Ok(res.status)
    <3>1. End(c, ReadSuccess(c, res)) /\ Keeps  BY <1>7, <2>1, <2>3, ZenonT(120) DEF FirstAnswer
    <3> QED  BY <1>3, <2>1, <2>3, <3>1, ZenonT(30)
  <2>4. CASE res # NetworkError /\ res.status # 402 /\ ~Ok(res.status)
    <3>1. End(c, Failure(res, "network_error")) /\ Keeps  BY <1>7, <2>1, <2>4, ZenonT(120) DEF FirstAnswer
    <3> QED  BY <1>1, <1>2, <1>6, <3>1, ZenonT(30)
  <2>5. CASE res # NetworkError /\ res.status = 402 /\ res.body \in Calls
    BY <1>5, <1>7, <2>1, <2>5, ZenonT(120) DEF FirstAnswer, IsPaymentContext
  <2>6. CASE res # NetworkError /\ res.status = 402 /\ res.body \notin Calls
    <3>1. End(c, Failure(res, "payment_challenge_missing")) /\ Keeps
      BY <1>7, <2>1, <2>6, ZenonT(120) DEF FirstAnswer, IsPaymentContext
    <3> QED  BY <1>1, <1>2, <1>4, <1>6, <2>1, <3>1, ZenonT(40)
  <2> QED  BY <2>2, <2>3, <2>4, <2>5, <2>6, ZenonT(120)
<1>8. CASE RetryAnswer(c)
  <2>1. res # None /\ Keeps  BY <1>8, Zenon DEF RetryAnswer, local, gateway
  <2>2. CASE res = NetworkError
    <3>1. End(c, Error("network_error"))  BY <1>8, <2>2, Zenon DEF RetryAnswer
    <3> QED  BY <1>1, <1>2, <2>1, <3>1, Zenon
  <2>3. CASE res # NetworkError /\ Ok(res.status)
    <3>1. End(c, ReadSuccess(c, res))  BY <1>8, <2>3, ZenonT(30) DEF RetryAnswer
    <3> QED  BY <1>3, <2>1, <2>3, <3>1, ZenonT(30)
  <2>4. CASE res # NetworkError /\ ~Ok(res.status)
    <3>1. End(c, Failure(res, "signed_retry_failed"))  BY <1>8, <2>4, ZenonT(30) DEF RetryAnswer
    <3> QED  BY <1>1, <1>2, <1>6, <2>1, <3>1, ZenonT(30)
  <2> QED  BY <2>2, <2>3, <2>4, Zenon
<1> QED  BY <1>7, <1>8, ZenonT(30)

\* A receipt that is looked up.
LEMMA FetchReceiptInv ==
  ASSUME IInv, NEW c \in Calls, FetchReceipt(c)
  PROVE  IInv'
<1>0. pc[c] = "idle" /\ UNCHANGED <<trusted, endpoint, text, ctx, sent, spent, served, meddled>>
  BY ZenonT(30) DEF FetchReceipt, local, gateway
<1>1. sent[c] = <<>>  BY <1>0, ZenonT(30) DEF IInv, CallInv, SentInv
<1>2. PICK res \in LookupAnswers :
        End(c, IF res = NetworkError THEN Error("network_error")
               ELSE IF res.status = 404 THEN Returned(None, None, None)
               ELSE IF ~Ok(res.status) THEN Error("network_error")
               ELSE IF res.body = NotJson \/ ~SdkValid(res.body) THEN Error("receipt_decode_failed")
               ELSE Returned(None, res.body, None))
  BY ZenonT(120) DEF FetchReceipt
<1>3. PICK o : /\ End(c, o)
               /\ \/ o \in {Error("network_error"), Error("receipt_decode_failed"),
                            Returned(None, None, None)}
                  \/ /\ o = Returned(None, res.body, None)
                     /\ res # NetworkError /\ Ok(res.status) /\ res.body # NotJson
  BY <1>2
<1>4. None \notin OfReceipt /\ None \notin Unpaid /\ None # TRUE
  BY NoneAssumption, Zenon DEF ErrorCodes, OfReceipt, Unpaid
<1>5. ASSUME NEW r, r = None \/ Sound(r)
      PROVE  EndsWell(c, Returned(None, r, None))
  <2> DEFINE found == Returned(None, r, None)
  <2>1. found.code = None /\ found.receipt = r /\ found.receiptVerified = None  BY OutcomeFields
  <2> HIDE DEF found
  <2>2. found.receiptVerified # TRUE  BY <1>4, <2>1, Zenon
  <2>3. Verified(c, found)  BY <1>5, <2>1, <2>2, Zenon DEF Verified, Sound, Issued
  <2>4. EndsWell(c, found)  BY <1>4, <2>1, <2>3, ZenonT(30) DEF EndsWell
  <2> QED  BY <2>4, ZenonT(30) DEF found
<1>6. EndsWell(c, o)
  <2>1. CASE o = Error("network_error")
    BY <2>1, OtherErrors, ZenonT(30) DEF ErrorCodes, OfReceipt, Unpaid
  <2>2. CASE o = Error("receipt_decode_failed")
    <3>1. o.code = "receipt_decode_failed"  BY <2>2, OutcomeFields, ZenonT(30)
    <3>2. o.code # None /\ o.code \notin Unpaid  BY <3>1, NoneAssumption, ZenonT(30) DEF Unpaid, ErrorCodes
    <3> QED  BY <1>1, <3>2, ZenonT(30) DEF EndsWell
  <2>3. CASE o = Returned(None, None, None)  BY <1>5, <2>3, ZenonT(30)
  <2>4. CASE /\ o = Returned(None, res.body, None)
             /\ res # NetworkError /\ Ok(res.status) /\ res.body # NotJson
    <3>1. res.body \in Issued \cup UNION {Receipts(d) : d \in Calls}
      BY <2>4, ZenonT(120) DEF LookupAnswers, Ok, Issued
    <3>2. Sound(res.body)
      BY <3>1, ProxySound, ZenonT(30) DEF IInv, SalesInv, Sound
    <3> QED  BY <1>5, <2>4, <3>2, ZenonT(30)
  <2> QED  BY <1>3, <2>1, <2>2, <2>3, <2>4, ZenonT(30)
<1> QED  BY <1>0, <1>3, <1>6, Ends, Zenon

\* An answer arrives, or the gateway's goes nowhere.
Arrival(c) ==
  /\ UNCHANGED <<trusted, pc, endpoint, text, ctx, outcome, sent>>
  /\ served \subseteq served' /\ spent' \subseteq Calls
  /\ meddled' \in {meddled, meddled \cup {c}}
  /\ reply' = [d \in Calls |-> reply'[d]] /\ \A d \in Calls \ {c} : reply'[d] = reply[d]
  /\ SalesInv' /\ ReplyInv(c)'

\* So does the arrival of a reply.
LEMMA Arrives ==
  ASSUME IInv, NEW c \in Calls, Arrival(c)
  PROVE  IInv'
<1>1. Apart(c)  BY Zenon DEF Arrival, Apart
<1>2. TypeOK'  BY ZenonT(30) DEF IInv, TypeOK, Arrival
<1>3. SentInv(c)'  BY ZenonT(30) DEF IInv, CallInv, SentInv, Arrival
<1>4. ASSUME EndsWell(c, outcome[c]) PROVE EndsWell(c, outcome[c])'
  BY <1>4, VerifiedKept, ZenonT(30) DEF EndsWell, Arrival
<1>5. CallInv(c)'  BY <1>3, <1>4, ZenonT(30) DEF IInv, CallInv, Arrival
<1> QED  BY <1>1, <1>2, <1>5, Combine, ZenonT(30) DEF Arrival

\* So does the loss of a request or a reply.
LEMMA LoseInv ==
  ASSUME IInv, NEW c \in Calls, Lose(c)
  PROVE  IInv'
<1>1. /\ UNCHANGED <<trusted, pc, endpoint, text, ctx, outcome, sent, spent, served, meddled>>
      /\ reply' = [reply EXCEPT ![c] = NetworkError]
  BY ZenonT(30) DEF Lose, local, gateway
<1>2. SalesInv'  BY <1>1, Zenon DEF IInv, SalesInv, MadeByGateway
<1>3. /\ reply' = [d \in Calls |-> reply'[d]] /\ \A d \in Calls \ {c} : reply'[d] = reply[d]
      /\ reply'[c] = NetworkError
  BY <1>1, Zenon DEF IInv, TypeOK
<1>4. ReplyInv(c)'  BY <1>3, ZenonT(30) DEF ReplyInv
<1>5. Arrival(c)  BY <1>1, <1>2, <1>3, <1>4, ZenonT(30) DEF Arrival, IInv, TypeOK
<1> QED  BY <1>5, Arrives, Zenon

\* What a response is.
LEMMA ResponseFields ==
  ASSUME NEW status, NEW body, NEW header
  PROVE  /\ Response(status, body, header).status = status
         /\ Response(status, body, header).body = body
         /\ Response(status, body, header).header = header
  BY Zenon DEF Response

\* So does a change of a reply on its way.
LEMMA MeddleInv ==
  ASSUME IInv, NEW c \in Calls, Meddle(c)
  PROVE  IInv'
<1>1. /\ UNCHANGED <<trusted, pc, endpoint, text, ctx, outcome, sent, spent, served>>
      /\ meddled' = meddled \cup {c}
  BY Zenon DEF Meddle, local, gateway
<1> DEFINE H == Receipts(c) \cup {None, NotJson}
           A == {Response(200, body, header) : body \in Replies, header \in H}
           B == {Response(402, body, None) : body \in Replies \cup Calls}
           C == {Response(status, body, None) : status \in {200, 402, 500},
                                                body \in {NotJson, CutShort}}
<1>2. PICK res \in Tampered(c) : reply' = [reply EXCEPT ![c] = res]
  BY Zenon DEF Meddle
<1>2a. res \in A \cup B \cup C  BY <1>2 DEF Tampered
<1> HIDE DEF A, B, C
<1>3. SalesInv'  BY <1>1, Zenon DEF IInv, SalesInv, MadeByGateway
<1>4. /\ reply' = [d \in Calls |-> reply'[d]] /\ \A d \in Calls \ {c} : reply'[d] = reply[d]
      /\ reply'[c] = res
  BY <1>2, Zenon DEF IInv, TypeOK
<1>5. res.header \in H
  <2>1. CASE res \in A
    <3>1. PICK body \in Replies, header \in H : res = Response(200, body, header)  BY <2>1 DEF A
    <3> QED  BY <3>1, ResponseFields
  <2>2. CASE res \in B
    <3>1. PICK body \in Replies \cup Calls : res = Response(402, body, None)  BY <2>2, ZenonT(30) DEF B
    <3> QED  BY <3>1, ResponseFields
  <2>3. CASE res \in C
    <3>1. PICK status \in {200, 402, 500}, body \in {NotJson, CutShort} :
            res = Response(status, body, None)
      BY <2>3 DEF C
    <3> QED  BY <3>1, ResponseFields
  <2> QED  BY <1>2a, <2>1, <2>2, <2>3, ZenonT(30)
<1>5a. res.header \in {None, NotJson} \/ Sound(res.header)
  <2> QED  BY <1>5, ProxySound, Zenon DEF IInv, SalesInv
<1>6. ReplyInv(c)'
  BY <1>1, <1>4, <1>5a, IssuedGrows, ZenonT(30) DEF ReplyInv
<1>7. Arrival(c)  BY <1>1, <1>3, <1>4, <1>6, ZenonT(30) DEF Arrival, IInv, TypeOK
<1> QED  BY <1>7, Arrives, ZenonT(30)

\* So does the service of a request by the gateway.
LEMMA ServeInv ==
  ASSUME IInv, NEW c \in Calls, Serve(c)
  PROVE  IInv'
<1>0. UNCHANGED <<trusted, pc, endpoint, text, ctx, outcome, sent, meddled>>  BY ZenonT(40) DEF Serve, local
<1>1. PICK i \in DOMAIN sent[c] :
        \/ /\ Answer(c, i, Response(402, c, None)) /\ UNCHANGED gateway
        \/ /\ Answer(c, i, Response(500, NotJson, None)) /\ UNCHANGED gateway
        \/ /\ sent[c][i].nonce \notin spent \cup {None}
           /\ spent' = spent \cup {sent[c][i].nonce}
           /\ \E answer \in Replies :
                LET r == Receipt(GatewayKey, sent[c][i].nonce, <<sent[c][i].path.name, None>>,
                                 sent[c][i].body, answer)
                IN \/ /\ served' = served \cup {[call |-> c, receipt |-> r]}
                      /\ Answer(c, i, Response(200, answer, r))
                   \/ /\ UNCHANGED served
                      /\ Answer(c, i, Response(500, NotJson, None))
  BY ZenonT(120) DEF Serve
<1>2. ASSUME NEW res, Answer(c, i, res)
      PROVE  /\ reply' = [d \in Calls |-> reply'[d]]
             /\ \A d \in Calls \ {c} : reply'[d] = reply[d]
             /\ reply'[c] = reply[c] \/ (Waiting(c) /\ i = Len(sent[c]) /\ reply'[c] = res)
  BY <1>2, Zenon DEF Answer, IInv, TypeOK
<1>3. ASSUME served \subseteq served', reply'[c] = reply[c]
      PROVE  ReplyInv(c)'
  BY <1>0, <1>3, IssuedGrows, ZenonT(40) DEF IInv, CallInv, ReplyInv, Honest
<1>4. ASSUME NEW status \in {402, 500}, NEW body, reply'[c] = Response(status, body, None)
      PROVE  ReplyInv(c)'
  <2>1. reply'[c].status = status /\ reply'[c].header = None  BY <1>4, ResponseFields
  <2>2. ~Ok(status)  BY DEF Ok
  <2> QED  BY <2>1, <2>2, ZenonT(120) DEF ReplyInv
<1>5. ASSUME NEW status \in {402, 500}, NEW body, Answer(c, i, Response(status, body, None)),
             served' = served, spent \subseteq spent', spent' \subseteq Calls
      PROVE  IInv'
  <2>0. SalesInv  BY ZenonT(120) DEF IInv
  <2>1. SalesInv'
    <3>1. MadeByGateway'  BY <2>0, <1>5, ZenonT(120) DEF SalesInv, MadeByGateway
    <3> QED  BY <1>0, <1>5, <2>0, <3>1 DEF SalesInv
  <2>2. ReplyInv(c)'  BY <1>2, <1>3, <1>4, <1>5
  <2>3. /\ reply' = [d \in Calls |-> reply'[d]]
        /\ \A d \in Calls \ {c} : reply'[d] = reply[d]
    BY <1>2, <1>5
  <2>4. meddled' = meddled /\ served \subseteq served'  BY <1>0, <1>5, ZenonT(120)
  <2>5. Arrival(c)  BY <1>0, <1>5, <2>1, <2>2, <2>3, <2>4, ZenonT(120) DEF Arrival
  <2> QED  BY <2>5, Arrives, ZenonT(120)
<1>6. CASE UNCHANGED gateway
  <2>1. served' = served /\ spent' = spent /\ spent \subseteq spent' /\ spent' \subseteq Calls
    BY <1>6, ZenonT(30) DEF gateway, IInv, TypeOK
  <2>2. CASE Answer(c, i, Response(402, c, None))  BY <1>5, <2>1, <2>2
  <2>3. CASE Answer(c, i, Response(500, NotJson, None))  BY <1>5, <2>1, <2>3
  <2>4. CASE sent[c][i].nonce \notin spent /\ spent' = spent \cup {sent[c][i].nonce}
    BY <2>1, <2>4, ZenonT(30)
  <2> QED  BY <1>1, <2>2, <2>3, <2>4, ZenonT(120)
<1>7. CASE sent[c][i].nonce \notin spent \cup {None} /\ spent' = spent \cup {sent[c][i].nonce}
  <2> DEFINE q == sent[c][i]
  <2>0. sent[c] \in Seq(Requests) /\ SentInv(c) /\ SalesInv  BY Zenon DEF IInv, CallInv, TypeOK
  <2>1. q \in Requests  BY <2>0
  <2>2. q.nonce \in Calls /\ spent' \subseteq Calls /\ spent \subseteq spent'
    BY <1>7, <2>1, ZenonT(30) DEF Requests, IInv, TypeOK
  <2>5. i = 2 /\ Len(sent[c]) = 2
    <3>1. sent[c][i].nonce # None  BY <1>7, Zenon
    <3> QED  BY <2>0, <3>1, SignedIsSecond, ZenonT(30)
  <2>6. /\ q.body = text[c] /\ <<q.path.name, None>> = endpoint[c]
    BY <2>0, <2>5, SMTT(40) DEF SentInv
  <2>7. PICK answer \in Replies :
          LET r == Receipt(GatewayKey, q.nonce, endpoint[c], text[c], answer)
          IN \/ /\ served' = served \cup {[call |-> c, receipt |-> r]}
                /\ Answer(c, i, Response(200, answer, r))
             \/ /\ UNCHANGED served
                /\ Answer(c, i, Response(500, NotJson, None))
    <3>1. ~UNCHANGED gateway  BY <1>7, Zenon DEF gateway
    <3> QED  BY <1>1, <2>6, <3>1, ZenonT(120)
  <2> DEFINE r == Receipt(GatewayKey, q.nonce, endpoint[c], text[c], answer)
             n == [call |-> c, receipt |-> r]
  <2>8. CASE UNCHANGED served /\ Answer(c, i, Response(500, NotJson, None))
    BY <1>5, <2>2, <2>8
  <2>9. CASE served' = served \cup {n} /\ Answer(c, i, Response(200, answer, r))
    <3>0. n.call = c /\ n.receipt = r  BY ZenonT(30)
    <3>1. \A s \in served : s.call # c
      BY <1>7, <2>0, <2>5, ZenonT(30) DEF SalesInv
    <3>2. MadeByGateway'
      <4>1. MadeByGateway  BY <2>0, ZenonT(40) DEF SalesInv
      <4>2. \A s \in served' : s \in served \/ s = n  BY <2>9, Zenon
      <4> QED  BY <3>0, <4>1, <4>2, ZenonT(120) DEF MadeByGateway
    <3>3. \A s \in served' : /\ s.call \in Calls /\ Len(sent[s.call]) = 2
                             /\ sent[s.call][2].nonce \in spent'
      BY <1>7, <2>0, <2>2, <2>5, <2>9, <3>0, ZenonT(120) DEF SalesInv
    <3>4. \A s, t \in served' : s.call = t.call => s = t
      BY <2>0, <2>9, <3>0, <3>1, ZenonT(120) DEF SalesInv
    <3>5. SalesInv'  BY <1>0, <3>2, <3>3, <3>4, ZenonT(30) DEF SalesInv
    <3>6. ASSUME Waiting(c), reply'[c] = Response(200, answer, r)
          PROVE  ReplyInv(c)'
      <4>1. reply'[c].header = r /\ reply'[c].body = answer  BY <3>6, ResponseFields, SMTT(40)
      <4>2. r \in Issued'  BY <2>9, <3>0, ZenonT(40) DEF Issued
      <4>3. Sound(reply[c].header)'  BY <4>1, <4>2, Zenon DEF Sound
      <4>4. pc[c] # "first"
        <5>1. Len(sent[c]) # 1  BY <2>5
        <5> QED  BY <2>0, <5>1, ZenonT(30) DEF SentInv
      <4>5. Honest(c, reply[c])'  BY <1>0, <2>2, <2>5, <4>1, <4>4, ZenonT(30) DEF Honest
      <4> QED  BY <4>1, <4>3, <4>5, ZenonT(30) DEF ReplyInv
    <3>7. ReplyInv(c)'  BY <1>2, <1>3, <2>9, <3>6, ZenonT(120)
    <3>8. Arrival(c)  BY <1>0, <1>2, <2>2, <2>9, <3>5, <3>7, ZenonT(30) DEF Arrival
    <3> QED  BY <3>8, Arrives, Zenon
  <2> QED  BY <2>7, <2>8, <2>9, Zenon
<1> QED  BY <1>1, <1>6, <1>7, ZenonT(120)

\* The invariant holds initially.
LEMMA InitInv == Init => IInv
<1> SUFFICES ASSUME Init PROVE IInv  BY ZenonT(30)
<1>1. \A c \in Calls : sent[c] = <<>> /\ pc[c] = "idle" /\ reply[c] = None
  BY ZenonT(30) DEF Init
<1>2. TypeOK
  <2>1. <<>> \in Seq(Requests)  OBVIOUS
  <2> QED  BY <2>1, Zenon DEF Init, TypeOK
<1>3. SalesInv  BY Zenon DEF Init, SalesInv, MadeByGateway
<1>4. ASSUME NEW c \in Calls PROVE CallInv(c)
  <2>1. sent[c] = <<>> /\ pc[c] = "idle" /\ reply[c] = None  BY <1>1, Zenon
  <2>2. SentInv(c)  BY <2>1, NothingSent, Zenon
  <2>3. ReplyInv(c)  BY <2>1, Zenon DEF ReplyInv
  <2> QED  BY <1>1, <2>2, <2>3, ZenonT(40) DEF CallInv
<1> QED  BY <1>2, <1>3, <1>4, Zenon DEF IInv

\* Every step keeps it.
LEMMA NextInv == IInv /\ [Next]_vars => IInv'
<1> SUFFICES ASSUME IInv, [Next]_vars PROVE IInv'  BY ZenonT(30)
<1>1. ASSUME NEW c \in Calls,
             \/ Request(c) \/ FetchReceipt(c) \/ Client(c)
             \/ Serve(c) \/ Lose(c) \/ Meddle(c)
      PROVE  IInv'
  BY <1>1, RequestInv, FetchReceiptInv, AnswersInv, SignInv, ServeInv, LoseInv, MeddleInv, ZenonT(30) DEF Client
<1>2. CASE UNCHANGED vars
  <2>1. UNCHANGED <<trusted, pc, endpoint, text, ctx, outcome, sent, reply, spent, served, meddled>>
    BY <1>2, ZenonT(30) DEF vars, local, gateway
  <2>2. TypeOK' /\ SalesInv'  BY <2>1, Zenon DEF IInv, TypeOK, SalesInv, MadeByGateway
  <2>3. ASSUME NEW c \in Calls PROVE CallInv(c)'
    <3>1. SentInv(c)'  BY <2>1, ZenonT(30) DEF IInv, CallInv, SentInv
    <3>2. ReplyInv(c)'  BY <2>1, IssuedGrows, ZenonT(40) DEF IInv, CallInv, ReplyInv, Honest
    <3>3. EndsWell(c, outcome[c]) => EndsWell(c, outcome[c])'
      BY <2>1, VerifiedKept, Zenon DEF EndsWell
    <3> QED  BY <2>1, <3>1, <3>2, <3>3, ZenonT(40) DEF IInv, CallInv
  <2> QED  BY <2>2, <2>3, Zenon DEF IInv
<1> QED  BY <1>1, <1>2, Zenon DEF Next

\* So it holds throughout.
LEMMA Invariance == Spec => []IInv
  BY InitInv, NextInv, PTL DEF Spec
-----------------------------------------------------------------------------
\* Types of the variables.
THEOREM TypeCorrect == Spec => []TypeOK
<1>1. IInv => TypeOK  BY ZenonT(30) DEF IInv
<1> QED  BY <1>1, Invariance, PTL

\* What is returned as verified with the gateway's key was sold for what was sent.
THEOREM VerifiedSold == Spec => []VerifiedWasSold
<1>1. ASSUME IInv, NEW c \in Calls, Ended(c), ~Failed(c)
      PROVE  Verified(c, outcome[c])
  BY <1>1, Zenon DEF IInv, CallInv, EndsWell, Ended, Failed
<1>2. IInv => VerifiedWasSold  BY <1>1, ZenonT(40) DEF Verified, VerifiedWasSold
<1> QED  BY <1>2, Invariance, PTL

\* The gateway's own answers are never refused for their receipts.
THEOREM HonestAccepted == Spec => []HonestReceiptsAccepted
<1>1. IInv => HonestReceiptsAccepted
  BY ZenonT(30) DEF IInv, CallInv, EndsWell, OfReceipt, Ended, Failed, HonestReceiptsAccepted
<1> QED  BY <1>1, Invariance, PTL

\* A call signs at most one request, buys at most once, and has bought nothing when
\* it fails before that request.
THEOREM PaidOnce == Spec => []PaysAtMostOnce
<1>1. ASSUME IInv, NEW c \in Calls, NEW i \in DOMAIN sent[c], sent[c][i].nonce # None
      PROVE  i = 2
  <2>1. sent[c] \in Seq(Requests) /\ SentInv(c)  BY <1>1, ZenonT(30) DEF IInv, CallInv, TypeOK
  <2> QED  BY <1>1, <2>1, SignedIsSecond, Zenon
<1>2. ASSUME IInv, NEW c \in Calls, NEW s \in served, NEW t \in served, s.call = c, t.call = c
      PROVE  s = t
  BY <1>2, Zenon DEF IInv, SalesInv
<1>3. ASSUME IInv, NEW c \in Calls, Failed(c), outcome[c].code \in Unpaid, NEW s \in served
      PROVE  s.call # c
  <2>1. Len(sent[c]) <= 1 /\ Len(sent[s.call]) = 2
    BY <1>3, ZenonT(30) DEF IInv, CallInv, EndsWell, Failed, Ended, SalesInv
  <2>2. ASSUME s.call = c PROVE FALSE
    <3>1. Len(sent[c]) = 2  BY <2>1, <2>2, ZenonT(40)
    <3> QED  BY <2>1, <3>1
  <2> QED  BY <2>2, ZenonT(30)
<1>4. IInv => PaysAtMostOnce  BY <1>1, <1>2, <1>3, Zenon DEF PaysAtMostOnce, Unpaid
<1> QED  BY <1>4, Invariance, PTL
=============================================================================
