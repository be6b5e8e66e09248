----------------------------- MODULE Summarize ------------------------------
(***************************************************************************)
(* POST /api/ai/summarize of the gateway: CacheMiddleware (cache.go),      *)
(* handleSummarize, verifyPayment and generateAndSendReceipt (main.go) and *)
(* the error mapping of errors.go, for concurrent calls that may carry the *)
(* same signed payment.                                                    *)
(*                                                                         *)
(* The verifier is seen from the outside: a /verify request travels to it, *)
(* it grants a payment to one call only, as PaymentGuard promises, and its *)
(* answer may come late, broken or never.  The timeout middleware is also  *)
(* reduced to what RequestTimeout shows of it: the client gets the whole   *)
(* response of the handler or a 504 while the handler runs on.             *)
(***************************************************************************)
EXTENDS Integers

CONSTANTS
  Calls,
  Payments,   \* a nonce and timestamp with their signature
  Texts,
  Verdict,    \* what the verifier's checks make of each payment: "ok" or a code
  Nil

\* Bodies that are no summarize request.
BadBodies == {"too_large", "unreadable", "not_json", "empty_text"}

\* What a call sends, and whether the gateway that it reaches has CACHE_ENABLED and a
\* Redis client.
Inputs == [payment : Payments \cup {Nil}, stamp : BOOLEAN, body : Texts \cup BadBodies,
           cached : BOOLEAN]

\* Codes of isVerifierBusinessRejection.
BusinessCodes == {"chain_id_mismatch", "nonce_already_used", "timestamp_expired",
                  "timestamp_future", "timestamp_missing", "invalid_signature"}

\* A summary: of which text, generated for which call.
Summaries == [text : Texts, by : Calls]

ASSUME SummarizeAssumption ==
  /\ Verdict \in [Payments -> {"ok"} \cup (BusinessCodes \ {"nonce_already_used"})]
  /\ Nil \notin Calls \cup Payments \cup Texts \cup Summaries
  /\ Texts \cap BadBodies = {}

VARIABLES
  pc, req,      \* of a call: where it is, what it asks
  expired,      \* calls whose request context is over
  verifier,     \* its /verify request: "none", "sent", or the answer's code
  result,       \* the summary it will answer with, from the cache or the AI
  response,     \* what its handler wrote
  client,       \* what its client got
  granted,      \* the call each payment was granted to, by the verifier
  aiCalls,      \* calls that reached the AI provider
  cache,        \* the cached summary of a text
  storing,      \* summaries on their way into the cache
  receipts      \* stored receipts

vars == <<pc, req, expired, verifier, result, response, client, granted, aiCalls, cache,
          storing, receipts>>

\* A receipt is over the payment, the request body and the response body.
Receipts == [payment : Payments, body : Texts, result : Summaries]

Errors == {"none", "payment_required", "payload_too_large", "invalid_request_body", "invalid_request",
           "gateway_timeout", "request_body_read_failed", "invalid_timestamp",
           "chain_id_mismatch", "nonce_already_used", "invalid_signature",
           "verifier_timeout", "verification_unavailable", "upstream_timeout",
           "upstream_unavailable", "receipt_generation_failed", "receipt_store_failed"}
Responses == [status : {0, 200, 400, 402, 403, 409, 413, 500, 502, 504}, error : Errors,
              result : Summaries \cup {Nil}, receipt : Receipts \cup {Nil}]

Failure(status, error) == [status |-> status, error |-> error, result |-> Nil, receipt |-> Nil]
Pending == Failure(0, "none")

Init ==
  /\ pc = [c \in Calls |-> "idle"]
  /\ req \in [Calls -> Inputs]
  /\ expired = {}
  /\ verifier = [c \in Calls |-> "none"]
  /\ result = [c \in Calls |-> Nil]
  /\ response = [c \in Calls |-> Pending]
  /\ client = [c \in Calls |-> Pending]
  /\ granted = [p \in Payments |-> Nil]
  /\ aiCalls = {}
  /\ cache = [t \in Texts |-> Nil]
  /\ storing = {}
  /\ receipts = {}

Goto(c, label) == pc' = [pc EXCEPT ![c] = label]

Respond(c, r) ==
  /\ response' = [response EXCEPT ![c] = r]
  /\ Goto(c, "respond")

\* The rest of the state, for steps that only move a call on.
services == <<verifier, granted, aiCalls, cache, storing, receipts>>
others == <<req, expired, client>>

\* Without payment headers the cache is bypassed.
Arrive(c) ==
  /\ pc[c] = "idle"
  /\ Goto(c, IF req[c].cached /\ req[c].payment # Nil THEN "cache" ELSE "handler")
  /\ UNCHANGED <<result, response, services, others>>

\* Mutant: the middleware leaves the body to the handler.
CacheBodyUnchecked(c) ==
  /\ pc[c] = "cache"
  /\ IF req[c].body \in BadBodies
       THEN Goto(c, "handler") /\ UNCHANGED response
       ELSE Goto(c, "lookup") /\ UNCHANGED response
  /\ UNCHANGED <<result, services, others>>

BodyError(body) ==
  CASE body = "too_large"  -> Failure(413, "payload_too_large")
    [] body = "unreadable" -> Failure(500, "request_body_read_failed")
    [] body = "not_json"   -> Failure(400, "invalid_request_body")
    [] body = "empty_text" -> Failure(400, "invalid_request")

\* CacheMiddleware refuses bad bodies before anything is verified.
CacheBody(c) ==
  /\ pc[c] = "cache"
  /\ IF req[c].body \in BadBodies
       THEN Respond(c, BodyError(req[c].body))
       ELSE Goto(c, "lookup") /\ UNCHANGED response
  /\ UNCHANGED <<result, services, others>>

\* Mutant: a cached summary is served without verifying the payment.
CacheHitUnverified(c) ==
  LET cached == cache[req[c].body]
  IN /\ pc[c] = "lookup" /\ cached # Nil
     /\ Goto(c, "receipt") /\ result' = [result EXCEPT ![c] = cached]
     /\ UNCHANGED <<response, services, others>>

\* getFromCache finds a summary; the payment is verified next.
CacheHit(c) ==
  LET cached == cache[req[c].body]
  IN /\ pc[c] = "lookup" /\ cached # Nil
     /\ IF req[c].stamp
          THEN Goto(c, "verify") /\ result' = [result EXCEPT ![c] = cached] /\ UNCHANGED response
          ELSE Respond(c, Failure(400, "invalid_timestamp")) /\ UNCHANGED result
     /\ UNCHANGED <<services, others>>

\* Nothing there, or Redis does not answer.
CacheMiss(c) ==
  /\ pc[c] = "lookup"
  /\ Goto(c, "handler")
  /\ UNCHANGED <<result, response, services, others>>

\* handleSummarize up to the verification.  Whether the text is one is looked at
\* later; with the cache on, the middleware has already read the body.
HandlerChecks(c) ==
  /\ pc[c] = "handler"
  /\ IF req[c].payment = Nil THEN Respond(c, Failure(402, "payment_required"))
     ELSE IF ~req[c].stamp THEN Respond(c, Failure(400, "invalid_timestamp"))
     ELSE IF req[c].body \in {"too_large", "unreadable"} THEN Respond(c, BodyError(req[c].body))
     ELSE Goto(c, "verify") /\ UNCHANGED response
  /\ UNCHANGED <<result, services, others>>

\* verifyPayment posts the reconstructed payment context to the verifier.
VerifyPayment(c) ==
  /\ pc[c] = "verify"
  /\ verifier' = [verifier EXCEPT ![c] = "sent"]
  /\ Goto(c, "verifying")
  /\ UNCHANGED <<result, response, granted, aiCalls, cache, storing, receipts, others>>

\* The verifier grants the payment, even if the call no longer waits.  "broken" is
\* an answer that verifyPayment cannot use, or none.
VerifierGrants(c) ==
  LET p == req[c].payment
  IN /\ verifier[c] = "sent"
     /\ Verdict[p] = "ok" /\ granted[p] = Nil
     /\ granted' = [granted EXCEPT ![p] = c]
     /\ \E answer \in {"ok", "broken"} : verifier' = [verifier EXCEPT ![c] = answer]
     /\ UNCHANGED <<pc, result, response, aiCalls, cache, storing, receipts, others>>

VerifierRefuses(c) ==
  LET p == req[c].payment
  IN /\ verifier[c] = "sent"
     /\ \E answer \in {"broken"}
            \cup (IF Verdict[p] # "ok" THEN {Verdict[p]}
                  ELSE {"timestamp_expired"} \cup
                       IF granted[p] # Nil THEN {"nonce_already_used"} ELSE {}) :
          verifier' = [verifier EXCEPT ![c] = answer]
     /\ UNCHANGED <<pc, result, response, granted, aiCalls, cache, storing, receipts, others>>

\* Mutant: every rejection is reported as a used nonce.
verifierFailureResponse_conflict(code) == Failure(409, "nonce_already_used")

verifierFailureResponse(code) ==
  CASE code = "chain_id_mismatch"  -> Failure(400, "chain_id_mismatch")
    [] code = "nonce_already_used" -> Failure(409, "nonce_already_used")
    [] code \in {"timestamp_expired", "timestamp_future", "timestamp_missing"}
                                   -> Failure(400, "invalid_timestamp")
    [] OTHER                       -> Failure(403, "invalid_signature")

\* The verifier's answer decides; a cache hit has its summary already.
VerifyAnswered(c) ==
  /\ pc[c] = "verifying" /\ verifier[c] \notin {"none", "sent"}
  /\ IF verifier[c] = "ok"
       THEN Goto(c, IF result[c] # Nil THEN "receipt" ELSE "parse") /\ UNCHANGED response
       ELSE Respond(c, IF verifier[c] \in BusinessCodes
                         THEN verifierFailureResponse(verifier[c])
                         ELSE Failure(502, "verification_unavailable"))
  /\ UNCHANGED <<result, services, others>>

\* Mutant: without the timeout context.
VerifyFailedUntimed(c) ==
  /\ pc[c] = "verifying" /\ verifier[c] = "broken"
  /\ Respond(c, Failure(502, "verification_unavailable"))
  /\ UNCHANGED <<result, services, others>>

\* VERIFIER_TIMEOUT_SECONDS or the request's context runs out, or the connection fails.
VerifyFailed(c) ==
  /\ pc[c] = "verifying"
  /\ \E r \in {Failure(504, "verifier_timeout"), Failure(502, "verification_unavailable")} :
       Respond(c, r)
  /\ UNCHANGED <<result, services, others>>

\* handleSummarize parses the body and calls the AI provider, which a request
\* whose context is over does not reach.
CallAI(c) ==
  /\ pc[c] = "parse"
  /\ IF req[c].body \in BadBodies
       THEN Respond(c, BodyError(req[c].body)) /\ UNCHANGED aiCalls
       ELSE /\ Goto(c, "ai") /\ UNCHANGED response
            /\ aiCalls' = IF c \in expired THEN aiCalls ELSE aiCalls \cup {c}
  /\ UNCHANGED <<result, verifier, granted, cache, storing, receipts, others>>

Generated(c) ==
  /\ pc[c] = "ai" /\ c \in aiCalls
  /\ result' = [result EXCEPT ![c] = [text |-> req[c].body, by |-> c]]
  /\ Goto(c, "receipt")
  /\ UNCHANGED <<response, services, others>>

GenerateFailed(c) ==
  /\ pc[c] = "ai"
  /\ \/ Respond(c, Failure(502, "upstream_unavailable"))
     \/ c \in expired /\ Respond(c, Failure(504, "upstream_timeout"))
  /\ UNCHANGED <<result, services, others>>

Receipt(c) == [payment |-> req[c].payment, body |-> req[c].body, result |-> result[c]]

\* Mutant: the answer is sent although the receipt could not be stored.
ReceiptFailedIgnored(c) ==
  /\ pc[c] = "receipt"
  /\ Respond(c, [status |-> 200, error |-> "none", result |-> result[c], receipt |-> Receipt(c)])
  /\ UNCHANGED <<result, services, others>>

\* generateAndSendReceipt: the receipt is stored, then the summary is sent with it.
generateAndSendReceipt(c) ==
  /\ pc[c] = "receipt" /\ c \notin expired
  /\ receipts' = receipts \cup {Receipt(c)}
  /\ Respond(c, [status |-> 200, error |-> "none", result |-> result[c], receipt |-> Receipt(c)])
  /\ UNCHANGED <<result, verifier, granted, aiCalls, cache, storing, others>>

\* Generating or storing fails; Redis may have stored the receipt all the same.
ReceiptFailed(c) ==
  /\ pc[c] = "receipt"
  /\ \/ Respond(c, Failure(500, "receipt_generation_failed")) /\ UNCHANGED receipts
     \/ /\ Respond(c, Failure(500, "receipt_store_failed"))
        /\ receipts' \in {receipts, receipts \cup {Receipt(c)}}
  /\ UNCHANGED <<result, verifier, granted, aiCalls, cache, storing, others>>

\* Mutant: what the cache held is stored under the text of a failed call.
ReturnStoringAny(c) ==
  /\ pc[c] = "respond"
  /\ Goto(c, "done")
  /\ storing' = IF req[c].cached /\ req[c].body \in Texts
                  THEN storing \cup {[text |-> req[c].body, by |-> c]} ELSE storing
  /\ UNCHANGED <<result, response, verifier, granted, aiCalls, cache, receipts, others>>

\* The handlers return.  After a miss CacheMiddleware starts storing the summary
\* of a 200, unless the timeout middleware has closed the response.
Return(c) ==
  /\ pc[c] = "respond"
  /\ Goto(c, "done")
  /\ storing' = IF /\ req[c].cached /\ response[c].status = 200
                   /\ result[c].by = c /\ client[c] = Pending
                  THEN storing \cup {result[c]} ELSE storing
  /\ UNCHANGED <<result, response, verifier, granted, aiCalls, cache, receipts, others>>

\* storeInCache, in a goroutine with five seconds of its own; it may fail.
storeInCache(s) ==
  /\ s \in storing
  /\ storing' = storing \ {s}
  /\ cache' \in {cache, [cache EXCEPT ![s.text] = s]}
  /\ UNCHANGED <<pc, result, response, verifier, granted, aiCalls, receipts, others>>

\* CACHE_TTL_SECONDS pass.
CacheExpires(t) ==
  /\ cache[t] # Nil
  /\ cache' = [cache EXCEPT ![t] = Nil]
  /\ UNCHANGED <<pc, result, response, verifier, granted, aiCalls, storing, receipts, others>>

\* The request's deadline passes or its client goes away.
Expire(c) ==
  /\ pc[c] # "idle" /\ c \notin expired
  /\ expired' = expired \cup {c}
  /\ UNCHANGED <<pc, req, result, response, client, services>>

\* RequestTimeoutMiddleware: the finished response, or a 504.
Flush(c) ==
  /\ pc[c] = "done" /\ client[c] = Pending
  /\ client' = [client EXCEPT ![c] = response[c]]
  /\ UNCHANGED <<pc, req, expired, result, response, services>>

TimeOut(c) ==
  /\ c \in expired /\ client[c] = Pending
  /\ client' = [client EXCEPT ![c] = Failure(504, "gateway_timeout")]
  /\ UNCHANGED <<pc, req, expired, result, response, services>>

Step(c) ==
  \/ Arrive(c) \/ CacheBody(c) \/ CacheHit(c) \/ CacheMiss(c) \/ HandlerChecks(c)
  \/ VerifyPayment(c) \/ VerifyAnswered(c) \/ CallAI(c)
  \/ generateAndSendReceipt(c) \/ ReceiptFailed(c) \/ Return(c)

\* Calls that end, at the latest, with the request's context.
GivesUp(c) == c \in expired /\ (VerifyFailed(c) \/ GenerateFailed(c))

Next ==
  \/ \E c \in Calls : \/ Step(c) \/ VerifyFailed(c) \/ Generated(c) \/ GenerateFailed(c)
                      \/ VerifierGrants(c) \/ VerifierRefuses(c)
                      \/ Expire(c) \/ Flush(c) \/ TimeOut(c)
  \/ \E s \in storing : storeInCache(s)
  \/ \E t \in Texts : CacheExpires(t)

Spec == Init /\ [][Next]_vars

\* Handlers run and deadlines pass; nothing is said of the verifier, the AI
\* provider or Redis.
Fairness ==
  \A c \in Calls : /\ WF_vars(Step(c) \/ GivesUp(c)) /\ WF_vars(Expire(c))
                    /\ WF_vars(Flush(c) \/ TimeOut(c))
FairSpec == Spec /\ Fairness
-----------------------------------------------------------------------------
\* Types of the variables.
TypeOK ==
  /\ pc \in [Calls -> {"idle", "cache", "lookup", "handler", "verify", "verifying", "parse",
                       "ai", "receipt", "respond", "done"}]
  /\ req \in [Calls -> Inputs]
  /\ expired \subseteq Calls
  /\ verifier \in [Calls -> {"none", "sent", "ok", "broken"} \cup BusinessCodes]
  /\ result \in [Calls -> Summaries \cup {Nil}]
  /\ response \in [Calls -> Responses]
  /\ client \in [Calls -> Responses]
  /\ granted \in [Payments -> Calls \cup {Nil}]
  /\ aiCalls \subseteq Calls
  /\ cache \in [Texts -> Summaries \cup {Nil}]
  /\ storing \subseteq Summaries
  /\ receipts \subseteq Receipts

Granted(c) == req[c].payment # Nil /\ granted[req[c].payment] = c

\* A client that gets a summary had the payment it carries granted to this very
\* call, on a cache hit too: one payment never buys two answers.
ServedIsPaid == \A c \in Calls : client[c].status = 200 => Granted(c)

\* The AI provider is called only for a payment that the verifier granted.
AIOnlyForPaid == \A c \in aiCalls : Granted(c)

\* Nothing is sold or generated without a payment of its own.
NothingUnpaid == ServedIsPaid /\ AIOnlyForPaid

\* With a 200 comes a receipt that can be fetched already, and it is over this
\* call's payment, the body it sent and the summary it got, which is of its text.
ReceiptBacksAnswer ==
  \A c \in Calls : client[c].status = 200
    => /\ client[c].receipt \in receipts
       /\ client[c].receipt = [payment |-> req[c].payment, body |-> req[c].body,
                               result |-> client[c].result]
       /\ client[c].result.text = req[c].body

\* What the cache holds under a text is a summary of it that the AI generated for
\* a call that paid and got its receipt.
CachedIsPaid ==
  \A t \in Texts : cache[t] # Nil
    => /\ cache[t].text = t
       /\ cache[t].by \in aiCalls /\ Granted(cache[t].by)
       /\ Receipt(cache[t].by) \in receipts

\* 409 nonce_already_used means that another call was granted the payment.
ConflictIsReal ==
  \A c \in Calls : client[c].error = "nonce_already_used"
    => granted[req[c].payment] \notin {Nil, c}

\* With the cache on, a body that is no request never costs a payment.
BadBodyKeepsPayment ==
  \A c \in Calls : req[c].cached /\ req[c].body \in BadBodies => ~Granted(c)

\* Every call is answered and its handler returns, although the verifier, the AI
\* provider and Redis may stay silent: time and again none is under way.
CallsEnd ==
  []<>(\A c \in Calls : pc[c] = "idle" \/ (pc[c] = "done" /\ client[c] # Pending))
=============================================================================
