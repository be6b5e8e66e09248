----------------------------- MODULE SdkClient -----------------------------
(***************************************************************************)
(* PaygateClient.request and fetchReceipt (sdk/typescript/src): several    *)
(* calls at once, each an async function that runs from one await to the   *)
(* next.  What comes back is the gateway's answer, an error of the network *)
(* or, for some calls, what a proxy on the way makes of it.                *)
(***************************************************************************)
EXTENDS ReceiptFormat, Sequences

CONSTANTS
  Calls,       \* calls of request() or fetchReceipt(), and the nonces given to them
  Proxied,     \* the calls whose answers pass through a proxy
  Bodies,      \* JSON texts of request bodies
  Replies,     \* JSON texts of response bodies
  Paths,       \* request paths: name, query, and whether it is a whole URL
  GatewayKey, OtherKey,
  TrustedKeys, \* values of the option trustedServerPublicKey
  None,        \* undefined, null
  NotJson,     \* a text that is no JSON, a header that is not base64 of JSON
  CutShort,    \* a body whose connection breaks while it is read
  Cyclic,      \* a body that JSON.stringify refuses
  NetworkError

\* PaygateSdkErrorCode, and "untyped" for an error of any other class.
ErrorCodes == {"network_error", "untyped", "payment_challenge_missing", "payment_signature_failed",
               "signed_retry_failed", "receipt_decode_failed", "receipt_verification_failed"}

ASSUME KeysAssumption ==
  GatewayKey # OtherKey /\ TrustedKeys \subseteq {GatewayKey, OtherKey, None}
ASSUME NoneAssumption == None \notin Calls /\ None \notin BOOLEAN /\ None \notin ErrorCodes

VARIABLES
  trusted,                        \* the client's trustedServerPublicKey
  pc, endpoint, text, ctx, outcome,   \* of a call
  sent,                           \* the requests a call has sent
  reply,                          \* the answer that reaches it
  spent,                          \* the gateway: nonces that bought something
  served,                         \* the gateway: what was sold, with the receipt
  meddled                         \* calls whose answer was made on the way

local == <<endpoint, text, ctx>>
gateway == <<spent, served>>
vars == <<trusted, pc, local, outcome, sent, reply, gateway, meddled>>

Ok(status) == status \in 200 .. 299
Response(status, body, header) == [status |-> status, body |-> body, header |-> header]

Error(code) == [code |-> code]
Returned(data, receipt, verified) ==
  [code |-> None, data |-> data, receipt |-> receipt, receiptVerified |-> verified]

Init ==
  /\ trusted \in TrustedKeys
  /\ pc = [c \in Calls |-> "idle"]
  /\ endpoint = [c \in Calls |-> None]
  /\ text = [c \in Calls |-> None]
  /\ ctx = [c \in Calls |-> None]
  /\ outcome = [c \in Calls |-> None]
  /\ sent = [c \in Calls |-> <<>>]
  /\ reply = [c \in Calls |-> None]
  /\ spent = {} /\ served = {}
  /\ meddled = {}

\* The call returns or throws.
End(c, result) ==
  /\ pc' = [pc EXCEPT ![c] = "ended"]
  /\ outcome' = [outcome EXCEPT ![c] = result]
  /\ reply' = [reply EXCEPT ![c] = None]

\* fetchOrThrow(url, buildRequestInit(...)) up to its await.
Fetch(c, label, path, body, nonce) ==
  /\ sent' = [sent EXCEPT ![c] = Append(@, [path |-> path, body |-> body, nonce |-> nonce])]
  /\ reply' = [reply EXCEPT ![c] = None]
  /\ pc' = [pc EXCEPT ![c] = label]
  /\ UNCHANGED outcome

\* hashBody: no body hashes as the empty text.
HashBody(body) == IF body = None THEN "" ELSE body

\* A receipt in the gateway's format (GenerateReceipt, signReceipt).
Receipt(key, id, path, body, answer) ==
  LET content == [id |-> id, endpoint |-> path, request |-> HashBody(body),
                  response |-> HashBody(answer), odd |-> NoOdd]
  IN [id |-> id, endpoint |-> path, request |-> HashBody(body), response |-> HashBody(answer),
      odd |-> NoOdd, key |-> key, sig |-> [by |-> key, of |-> content, parity |-> 0, v |-> 0]]

\* buildReceiptEndpoint: the path without its query, as the gateway sees it.
BuildReceiptEndpoint(path) == <<path.name, None>>

ASSUME NotJsonAssumption ==
  \A c \in Calls, path \in Paths, body \in Bodies \cup {None, Cyclic}, answer \in Replies :
    Receipt(GatewayKey, c, BuildReceiptEndpoint(path), body, answer) # NotJson
-----------------------------------------------------------------------------
\* buildUrl and serializeRequestBody throw: a whole URL, a body that is no JSON.
Unsendable(path, body) == path.absolute \/ body = Cyclic

\* request() up to its first await.
Request(c) ==
  \E path \in Paths, body \in Bodies \cup {None, Cyclic} :
    /\ pc[c] = "idle"
    /\ IF Unsendable(path, body)
         THEN End(c, Error("network_error")) /\ UNCHANGED <<endpoint, text, sent>>
         ELSE /\ endpoint' = [endpoint EXCEPT ![c] = BuildReceiptEndpoint(path)]
              /\ text' = [text EXCEPT ![c] = body]
              /\ Fetch(c, "first", path, body, None)
    /\ UNCHANGED <<trusted, ctx, gateway, meddled>>

\* Mutant: the hash of the answer is not compared.
MatchesRequestOnly(c, r, body) ==
  r.endpoint = endpoint[c] /\ r.request = HashBody(text[c])

ReceiptMatchesPayload(c, r, body) ==
  /\ r.endpoint = endpoint[c]
  /\ r.request = HashBody(text[c])
  /\ r.response = HashBody(body)

\* decodeReceiptHeader throws.
Undecodable(header) == header = NotJson \/ ~SdkValid(header)

\* readSuccess, with readReceipt in it.
ReadSuccess(c, res) ==
  LET r == res.header
  IN IF res.body = CutShort THEN Error("untyped")
     ELSE IF res.body = NotJson THEN Error("network_error")
     ELSE IF r = None THEN Returned(res.body, None, None)
     ELSE IF Undecodable(r) THEN Error("receipt_decode_failed")
     ELSE IF ~ReceiptMatchesPayload(c, r, res.body) THEN Error("receipt_verification_failed")
     ELSE IF trusted = None THEN Returned(res.body, r, FALSE)
     ELSE IF SdkVerify(r, trusted) THEN Returned(res.body, r, TRUE)
     ELSE Error("receipt_verification_failed")

\* The text of a response that is no success goes into the error.
Failure(res, code) == IF res.body = CutShort THEN Error("untyped") ELSE Error(code)

\* A payment context is known by its nonce.
IsPaymentContext(body) == body \in Calls

\* From the first answer to the signer, with readPaymentContext.
FirstAnswer(c) ==
  LET res == reply[c]
  IN /\ pc[c] = "first" /\ res # None
     /\ IF res = NetworkError THEN End(c, Error("network_error")) /\ UNCHANGED ctx
        ELSE IF res.status # 402
        THEN /\ End(c, IF Ok(res.status) THEN ReadSuccess(c, res) ELSE Failure(res, "network_error"))
             /\ UNCHANGED ctx
        ELSE IF IsPaymentContext(res.body)
        THEN /\ ctx' = [ctx EXCEPT ![c] = res.body]
             /\ pc' = [pc EXCEPT ![c] = "sign"]
             /\ UNCHANGED <<outcome, reply>>
        ELSE End(c, Failure(res, "payment_challenge_missing")) /\ UNCHANGED ctx
     /\ UNCHANGED <<trusted, endpoint, text, sent, gateway, meddled>>

\* Mutant: the retry serializes the caller's object again, as it is by now.
SignSerializingAgain(c) ==
  /\ pc[c] = "sign"
  /\ \/ \E body \in Bodies : Fetch(c, "retry", sent[c][1].path, body, ctx[c])
     \/ End(c, Error("payment_signature_failed")) /\ UNCHANGED sent
  /\ UNCHANGED <<trusted, local, gateway, meddled>>

\* The signer signs the context, and the retry is sent; or the signer fails.
Sign(c) ==
  /\ pc[c] = "sign"
  /\ \/ Fetch(c, "retry", sent[c][1].path, text[c], ctx[c])
     \/ End(c, Error("payment_signature_failed")) /\ UNCHANGED sent
  /\ UNCHANGED <<trusted, local, gateway, meddled>>

\* Mutant: a fetch that fails is not caught, and nobody settles the call.
RetryAnswerUncaught(c) ==
  LET res == reply[c]
  IN /\ pc[c] = "retry" /\ res \notin {None, NetworkError}
     /\ End(c, IF Ok(res.status) THEN ReadSuccess(c, res)
               ELSE Failure(res, "signed_retry_failed"))
     /\ UNCHANGED <<trusted, local, sent, gateway, meddled>>

\* Mutant: a retry that is challenged again is signed again.
RetryAnswerAgain(c) ==
  LET res == reply[c]
  IN /\ pc[c] = "retry" /\ res # None
     /\ IF res # NetworkError /\ res.status = 402 /\ IsPaymentContext(res.body)
          THEN Fetch(c, "retry", sent[c][1].path, text[c], res.body)
          ELSE /\ End(c, IF res = NetworkError THEN Error("network_error")
                         ELSE IF Ok(res.status) THEN ReadSuccess(c, res)
                         ELSE Failure(res, "signed_retry_failed"))
               /\ UNCHANGED sent
     /\ UNCHANGED <<trusted, local, gateway, meddled>>

RetryAnswer(c) ==
  LET res == reply[c]
  IN /\ pc[c] = "retry" /\ res # None
     /\ End(c, IF res = NetworkError THEN Error("network_error")
               ELSE IF Ok(res.status) THEN ReadSuccess(c, res)
               ELSE Failure(res, "signed_retry_failed"))
     /\ UNCHANGED <<trusted, local, sent, gateway, meddled>>

-----------------------------------------------------------------------------
\* The first answer that arrives is the one the call gets.
Waiting(c) == pc[c] \in {"first", "retry"} /\ reply[c] = None
Answer(c, i, res) ==
  reply' = IF Waiting(c) /\ i = Len(sent[c]) THEN [reply EXCEPT ![c] = res] ELSE reply

\* The gateway on a request, maybe late or for the second time: a challenge, a
\* refusal, a sale to a nonce that has bought nothing, or a sale that fails.
Serve(c) ==
  \E i \in DOMAIN sent[c] :
    LET q == sent[c][i]
    IN /\ \/ /\ q.nonce = None
             /\ Answer(c, i, Response(402, c, None))
             /\ UNCHANGED gateway
          \/ /\ Answer(c, i, Response(500, NotJson, None))
             /\ UNCHANGED gateway
          \/ /\ q.nonce \notin spent \cup {None}
             /\ spent' = spent \cup {q.nonce}
             /\ \E answer \in Replies :
                  LET r == Receipt(GatewayKey, q.nonce, <<q.path.name, None>>, q.body, answer)
                  IN \/ /\ served' = served \cup {[call |-> c, receipt |-> r]}
                        /\ Answer(c, i, Response(200, answer, r))
                     \/ /\ UNCHANGED served
                        /\ Answer(c, i, Response(500, NotJson, None))
       /\ UNCHANGED <<trusted, pc, local, outcome, sent, meddled>>

\* The connection fails, before or after the gateway has served the request.
Lose(c) ==
  /\ Waiting(c)
  /\ reply' = [reply EXCEPT ![c] = NetworkError]
  /\ UNCHANGED <<trusted, pc, local, outcome, sent, gateway, meddled>>

\* Receipts that a proxy can put into an answer: those the gateway has issued,
\* these with a field changed, and some of its own.
Receipts(c) ==
  LET issued == {s.receipt : s \in served}
      own == {Receipt(OtherKey, c, endpoint[c], text[c], answer) : answer \in Replies}
  IN issued \cup own
     \cup {[r EXCEPT !.response = answer] : r \in issued, answer \in Replies}
     \cup {[r EXCEPT !.key = GatewayKey] : r \in own}
     \cup {[r EXCEPT !.odd = [f \in {"chainId"} |-> "absent"]] : r \in issued}

\* The answers that a proxy may put in place of the gateway's.
Tampered(c) ==
  {Response(200, body, header) : body \in Replies, header \in Receipts(c) \cup {None, NotJson}}
  \cup {Response(402, body, None) : body \in Replies \cup Calls}
  \cup {Response(status, body, None) : status \in {200, 402, 500}, body \in {NotJson, CutShort}}

Meddle(c) ==
  /\ c \in Proxied /\ Waiting(c)
  /\ \E res \in Tampered(c) : reply' = [reply EXCEPT ![c] = res]
  /\ meddled' = meddled \cup {c}
  /\ UNCHANGED <<trusted, pc, local, outcome, sent, gateway>>

LookupAnswers ==
  {NetworkError}
  \cup [status : {404, 500}, body : {NotJson}]
  \cup [status : {200}, body : {s.receipt : s \in served} \cup {NotJson}
                                \cup UNION {Receipts(c) : c \in Calls}]

\* fetchReceipt, for whatever answers: the receipt is not verified here.
FetchReceipt(c) ==
  \E res \in LookupAnswers :
    /\ pc[c] = "idle"
    /\ End(c, IF res = NetworkError THEN Error("network_error")
              ELSE IF res.status = 404 THEN Returned(None, None, None)
              ELSE IF ~Ok(res.status) THEN Error("network_error")
              ELSE IF res.body = NotJson \/ ~SdkValid(res.body) THEN Error("receipt_decode_failed")
              ELSE Returned(None, res.body, None))
    /\ UNCHANGED <<trusted, local, sent, gateway, meddled>>
-----------------------------------------------------------------------------
Client(c) == FirstAnswer(c) \/ Sign(c) \/ RetryAnswer(c)

Next ==
  \/ \E c \in Calls : Request(c) \/ FetchReceipt(c) \/ Client(c)
  \/ \E c \in Calls : Serve(c) \/ Lose(c) \/ Meddle(c)

\* The client's code runs, the signer answers, and a fetch settles: with an answer
\* or with an error.
Fairness ==
  /\ \A c \in Calls : WF_vars(Client(c))
  /\ \A c \in Calls : WF_vars(Waiting(c) /\ (Serve(c) \/ Lose(c) \/ Meddle(c)))
Spec == Init /\ [][Next]_vars
FairSpec == Spec /\ Fairness
-----------------------------------------------------------------------------
Requests == [path : Paths, body : Bodies \cup {None, Cyclic}, nonce : Calls \cup {None}]

\* Types of the variables; an answer and an outcome may hold anything.
TypeOK ==
  /\ trusted \in TrustedKeys
  /\ pc \in [Calls -> {"idle", "first", "sign", "retry", "ended"}]
  /\ endpoint \in [Calls -> {BuildReceiptEndpoint(p) : p \in Paths} \cup {None}]
  /\ text \in [Calls -> Bodies \cup {None, Cyclic}]
  /\ ctx \in [Calls -> Calls \cup {None}]
  /\ sent \in [Calls -> Seq(Requests)]
  /\ outcome = [c \in Calls |-> outcome[c]]
  /\ reply = [c \in Calls |-> reply[c]]
  /\ spent \subseteq Calls
  /\ meddled \subseteq Calls

Ended(c) == pc[c] = "ended"
Failed(c) == Ended(c) /\ outcome[c].code # None

\* "receiptVerified is true only when the SDK can verify the receipt signature
\* against the configured trusted gateway public key and the receipt request and
\* response hashes match the actual payloads": if that key is the gateway's, the
\* gateway sold exactly the answer returned, to exactly the body and path sent,
\* whatever was done to the answers of this call and of others.  Likewise, a
\* receipt found by id that verifies with the gateway's key is one it issued: the
\* key inside a receipt proves nothing.
VerifiedWasSold ==
  \A c \in Calls : Ended(c) /\ ~Failed(c) =>
    /\ outcome[c].receiptVerified = TRUE /\ trusted = GatewayKey
       => \E s \in served : /\ outcome[c].receipt = s.receipt
                            /\ s.receipt.request = HashBody(sent[c][1].body)
                            /\ s.receipt.endpoint[1] = sent[c][1].path.name
                            /\ s.receipt.response = HashBody(outcome[c].data)
    /\ outcome[c].receipt # None /\ SdkVerify(outcome[c].receipt, GatewayKey)
       => outcome[c].receipt \in {s.receipt : s \in served}

\* An answer that comes as the gateway sent it is never refused for its receipt,
\* with the gateway's key or without one, even if the caller's object has changed
\* since: the retry sends the text that was hashed.
HonestReceiptsAccepted ==
  \A c \in Calls \ meddled :
    sent[c] # <<>> /\ Failed(c) /\ outcome[c].code \in {"receipt_decode_failed", "receipt_verification_failed"}
    => trusted = OtherKey

\* A call sends a signed request for one payment at most, even if it is challenged
\* again, and buys at most once, however often the network delivers that request;
\* a call that fails before it has bought nothing.
PaysAtMostOnce ==
  \A c \in Calls :
    /\ \A i, j \in DOMAIN sent[c] :
         sent[c][i].nonce # None /\ sent[c][j].nonce # None => i = j
    /\ \A s, t \in served : s.call = c /\ t.call = c => s = t
    /\ Failed(c) /\ outcome[c].code \in {"payment_challenge_missing", "payment_signature_failed"}
       => \A s \in served : s.call # c

\* Every call returns or throws: time and again none is under way.
CallsEnd == []<>(\A c \in Calls : pc[c] = "idle" \/ Ended(c))
=============================================================================
