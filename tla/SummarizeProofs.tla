-------------------------- MODULE SummarizeProofs ---------------------------
(***************************************************************************)
(* Proofs about Summarize, for every set of calls, payments and texts and  *)
(* with the cache on or off.  One inductive invariant carries all of them: *)
(* it follows a payment from the verifier's answer to the handler's        *)
(* response, and a summary from a paid response into the cache.            *)
(***************************************************************************)
EXTENDS Summarize, TLAPS

Ended == {"respond", "done"}

\* The response of a call that succeeded, and what it stands on.
Success(c) == [status |-> 200, error |-> "none", result |-> result[c], receipt |-> Receipt(c)]
Earned(c) == Granted(c) /\ result[c] # Nil /\ Receipt(c) \in receipts

\* Responses that say neither success nor conflict.
Refusals == {r \in Responses : r.status # 200 /\ r.error # "nonce_already_used"}

\* A summary that was generated for a call which answered with it.
Paid(s) == s.by \in aiCalls /\ response[s.by].status = 200 /\ result[s.by] = s

\* Where a call can be, given what it asks.
PathInv ==
  \A c \in Calls :
    /\ pc[c] \in {"cache", "lookup", "verify", "verifying", "parse", "ai", "receipt"}
         => req[c].payment \in Payments
    /\ pc[c] \in {"lookup", "ai", "receipt"} => req[c].body \in Texts
    /\ pc[c] = "receipt" => result[c] # Nil
    /\ result[c] # Nil => req[c].body \in Texts /\ result[c].text = req[c].body
    /\ req[c].cached /\ req[c].body \in BadBodies
         => /\ pc[c] \in {"idle", "cache", "handler", "respond", "done"}
            /\ pc[c] = "handler" => req[c].payment = Nil

\* What the verifier's answer to a call says of the payment.
VerifierInv ==
  \A c \in Calls :
    /\ verifier[c] # "none" => req[c].payment \in Payments
    /\ verifier[c] # "none"
         => pc[c] \in {"verifying", "parse", "ai", "receipt", "respond", "done"}
    /\ verifier[c] # "none" => ~(req[c].cached /\ req[c].body \in BadBodies)
    /\ verifier[c] \in {"none", "sent"} => ~Granted(c)
    /\ verifier[c] = "ok" => Granted(c)
    /\ verifier[c] = "nonce_already_used" => granted[req[c].payment] \notin {Nil, c}
    /\ pc[c] \in {"parse", "ai", "receipt"} => verifier[c] = "ok"

\* The AI provider is reached, and a summary is the call's own, once it has paid.
AIInv ==
  \A c \in Calls :
    /\ c \in aiCalls => Granted(c)
    /\ result[c] # Nil /\ result[c].by = c => c \in aiCalls

\* What a call answers, and what its client gets of it.
AnswerInv ==
  \A c \in Calls :
    /\ pc[c] \notin Ended => response[c] = Pending
    /\ response[c].status = 200 => response[c] = Success(c) /\ Earned(c)
    /\ response[c].error = "nonce_already_used" => verifier[c] = "nonce_already_used"
    /\ client[c] \in {Pending, Failure(504, "gateway_timeout"), response[c]}

\* Only summaries that were paid for are cached, each under its own text.
CacheInv ==
  /\ \A s \in storing : Paid(s)
  /\ \A t \in Texts : cache[t] # Nil => cache[t].text = t /\ Paid(cache[t])

Inv == TypeOK /\ PathInv /\ VerifierInv /\ AIInv /\ AnswerInv /\ CacheInv

\* What a step may do to the response of call d.
Kept(d) == response'[d] = response[d] /\ (pc'[d] \in Ended <=> pc[d] \in Ended)
NewRefusal(d) == pc[d] \notin Ended /\ pc'[d] = "respond" /\ response'[d] \in Refusals
NewConflict(d) ==
  /\ pc[d] \notin Ended /\ pc'[d] = "respond"
  /\ response'[d] = Failure(409, "nonce_already_used")
  /\ verifier[d] = "nonce_already_used"
NewSuccess(d) ==
  /\ pc[d] = "receipt" /\ pc'[d] = "respond"
  /\ response'[d] = Success(d)
  /\ receipts' = receipts \cup {Receipt(d)}
  /\ result'[d] = result[d]

ResponseChange ==
  /\ response' \in [Calls -> Responses]
  /\ \A d \in Calls : Kept(d) \/ NewRefusal(d) \/ NewConflict(d) \/ NewSuccess(d)

OtherTypes ==
  /\ pc' \in [Calls -> {"idle", "cache", "lookup", "handler", "verify", "verifying", "parse",
                        "ai", "receipt", "respond", "done"}]
  /\ expired' \subseteq Calls
  /\ verifier' \in [Calls -> {"none", "sent", "ok", "broken"} \cup BusinessCodes]
  /\ result' \in [Calls -> Summaries \cup {Nil}]
  /\ client' \in [Calls -> Responses]
  /\ granted' \in [Payments -> Calls \cup {Nil}]
  /\ aiCalls' \subseteq Calls
  /\ cache' \in [Texts -> Summaries \cup {Nil}]
  /\ storing' \subseteq Summaries
  /\ receipts' \subseteq Receipts

\* What a step may do to what a client gets, and to the cached summaries.
ClientChange ==
  \A d \in Calls : \/ client'[d] \in {client[d], Failure(504, "gateway_timeout")}
                   \/ pc[d] = "done" /\ client'[d] = response[d]
CacheChange ==
  /\ \A s \in storing' : Paid(s)
  /\ \A t \in Texts : cache'[t] # Nil => cache'[t].text = t /\ Paid(cache'[t])

\* What every step keeps.
Growth ==
  /\ req' = req
  /\ receipts \subseteq receipts' /\ aiCalls \subseteq aiCalls'
  /\ \A p \in Payments : granted[p] # Nil => granted'[p] = granted[p]
  /\ \A d \in Calls : verifier[d] \notin {"none", "sent"} => verifier'[d] = verifier[d]
  /\ \A d \in Calls : pc[d] \in Ended
       => pc'[d] \in Ended /\ result'[d] = result[d] /\ response'[d] = response[d]
-----------------------------------------------------------------------------
\* Every failure that handler, middleware and timeout answer with, except the
\* used nonce, is a refusal.
LEMMA Refused ==
  /\ Pending \in Refusals
  /\ Failure(402, "payment_required") \in Refusals
  /\ Failure(413, "payload_too_large") \in Refusals
  /\ Failure(400, "invalid_request_body") \in Refusals
  /\ Failure(400, "invalid_request") \in Refusals
  /\ Failure(500, "request_body_read_failed") \in Refusals
  /\ Failure(400, "invalid_timestamp") \in Refusals
  /\ Failure(400, "chain_id_mismatch") \in Refusals
  /\ Failure(403, "invalid_signature") \in Refusals
  /\ Failure(504, "gateway_timeout") \in Refusals
  /\ Failure(504, "verifier_timeout") \in Refusals
  /\ Failure(502, "verification_unavailable") \in Refusals
  /\ Failure(504, "upstream_timeout") \in Refusals
  /\ Failure(502, "upstream_unavailable") \in Refusals
  /\ Failure(500, "receipt_generation_failed") \in Refusals
  /\ Failure(500, "receipt_store_failed") \in Refusals
<1>0. Pending \in Refusals
  BY DEF Failure, Pending, Refusals, Responses, Errors
<1>1. /\ Failure(402, "payment_required") \in Refusals
      /\ Failure(413, "payload_too_large") \in Refusals
      /\ Failure(400, "invalid_request_body") \in Refusals
  BY DEF Failure, Pending, Refusals, Responses, Errors
<1>2. /\ Failure(400, "invalid_request") \in Refusals
      /\ Failure(500, "request_body_read_failed") \in Refusals
      /\ Failure(400, "invalid_timestamp") \in Refusals
      /\ Failure(400, "chain_id_mismatch") \in Refusals
  BY DEF Failure, Pending, Refusals, Responses, Errors
<1>3. /\ Failure(403, "invalid_signature") \in Refusals
      /\ Failure(504, "gateway_timeout") \in Refusals
      /\ Failure(504, "verifier_timeout") \in Refusals
      /\ Failure(502, "verification_unavailable") \in Refusals
  BY DEF Failure, Pending, Refusals, Responses, Errors
<1>4. /\ Failure(504, "upstream_timeout") \in Refusals
      /\ Failure(502, "upstream_unavailable") \in Refusals
      /\ Failure(500, "receipt_generation_failed") \in Refusals
      /\ Failure(500, "receipt_store_failed") \in Refusals
  BY DEF Failure, Pending, Refusals, Responses, Errors
<1>5. QED
  BY <1>0, <1>1, <1>2, <1>3, <1>4

\* respondVerificationFailure for a used nonce is a response of the API.
LEMMA Conflict ==
  /\ Failure(409, "nonce_already_used") \in Responses
  /\ Failure(409, "nonce_already_used").status = 409
BY DEF Failure, Responses, Errors

\* A refusal neither serves nor reports a used nonce.
LEMMA RefusalIsResponse ==
  ASSUME NEW r \in Refusals
  PROVE  r \in Responses /\ r.status # 200 /\ r.error # "nonce_already_used"
BY Zenon DEF Refusals

\* What is wrong with a body is answered with a refusal.
LEMMA BodyErrors ==
  ASSUME NEW b \in BadBodies
  PROVE  BodyError(b) \in Refusals
BY Refused DEF BodyError, BadBodies

\* verifierFailureResponse reports a used nonce for the verifier's code only.
LEMMA Rejections ==
  ASSUME NEW code \in BusinessCodes
  PROVE  \/ verifierFailureResponse(code) \in Refusals
         \/ /\ code = "nonce_already_used"
            /\ verifierFailureResponse(code) = Failure(409, "nonce_already_used")
BY Refused DEF verifierFailureResponse, BusinessCodes

\* The answer of generateAndSendReceipt holds the call's own summary and receipt.
LEMMA Successes ==
  ASSUME NEW c \in Calls, result[c] \in Summaries,
         req[c].payment \in Payments, req[c].body \in Texts
  PROVE  /\ Receipt(c) \in Receipts
         /\ Success(c) \in Responses
         /\ Success(c).status = 200 /\ Success(c).error = "none"
         /\ Success(c).result = result[c] /\ Success(c).receipt = Receipt(c)
<1>1. Receipt(c) \in Receipts
  BY Zenon DEF Receipt, Receipts
<1>2. QED
  BY <1>1 DEF Success, Responses, Errors

\* A call that gets to generateAndSendReceipt has a summary to sign.
LEMMA AtReceipt ==
  ASSUME Inv, NEW c \in Calls, pc[c] = "receipt"
  PROVE  /\ result[c] \in Summaries
         /\ Receipt(c) \in Receipts /\ Success(c) \in Responses
<1>1. result[c] \in Summaries /\ req[c].payment \in Payments /\ req[c].body \in Texts
  BY ZenonT(30) DEF Inv, TypeOK, PathInv
<1>2. QED
  BY <1>1, Successes, ZenonT(120)

\* Grants, AI calls, receipts and sent answers are never taken back.
LEMMA Grows == Inv /\ [Next]_vars => Growth
<1> SUFFICES ASSUME Inv, [Next]_vars PROVE Growth
  BY Zenon
<1> USE DEF Inv, TypeOK, services, others, Goto, Growth, Ended
<1>1. ASSUME NEW c \in Calls, Arrive(c) PROVE Growth
  BY <1>1, Zenon DEF Arrive
<1>2. ASSUME NEW c \in Calls, CacheBody(c) PROVE Growth
  BY <1>2, Zenon DEF CacheBody, Respond
<1>3. ASSUME NEW c \in Calls, CacheHit(c) PROVE Growth
  BY <1>3 DEF CacheHit, Respond
<1>4. ASSUME NEW c \in Calls, CacheMiss(c) PROVE Growth
  BY <1>4, Zenon DEF CacheMiss
<1>5. ASSUME NEW c \in Calls, HandlerChecks(c) PROVE Growth
  BY <1>5 DEF HandlerChecks, Respond
<1>6. ASSUME NEW c \in Calls, VerifyPayment(c) PROVE Growth
  BY <1>6, Zenon DEF VerifyPayment, VerifierInv
<1>7. ASSUME NEW c \in Calls, VerifierGrants(c) PROVE Growth
  BY <1>7, Zenon DEF VerifierGrants
<1>8. ASSUME NEW c \in Calls, VerifierRefuses(c) PROVE Growth
  BY <1>8, Zenon DEF VerifierRefuses
<1>9. ASSUME NEW c \in Calls, VerifyAnswered(c) PROVE Growth
  BY <1>9 DEF VerifyAnswered, Respond
<1>10. ASSUME NEW c \in Calls, VerifyFailed(c) PROVE Growth
  BY <1>10, ZenonT(120) DEF VerifyFailed, Respond
<1>11. ASSUME NEW c \in Calls, CallAI(c) PROVE Growth
  BY <1>11, Zenon DEF CallAI, Respond
<1>12. ASSUME NEW c \in Calls, Generated(c) PROVE Growth
  BY <1>12, Zenon DEF Generated
<1>13. ASSUME NEW c \in Calls, GenerateFailed(c) PROVE Growth
  BY <1>13 DEF GenerateFailed, Respond
<1>14. ASSUME NEW c \in Calls, generateAndSendReceipt(c) PROVE Growth
  BY <1>14, Zenon DEF generateAndSendReceipt, Respond
<1>15. ASSUME NEW c \in Calls, ReceiptFailed(c) PROVE Growth
  BY <1>15 DEF ReceiptFailed, Respond
<1>16. ASSUME NEW c \in Calls, Return(c) PROVE Growth
  BY <1>16, Zenon DEF Return
<1>17. ASSUME NEW c \in Calls, Expire(c) PROVE Growth
  BY <1>17, Zenon DEF Expire
<1>18. ASSUME NEW c \in Calls, Flush(c) PROVE Growth
  BY <1>18, Zenon DEF Flush
<1>19. ASSUME NEW c \in Calls, TimeOut(c) PROVE Growth
  BY <1>19, Zenon DEF TimeOut
<1>20. ASSUME NEW s \in storing, storeInCache(s) PROVE Growth
  BY <1>20, Zenon DEF storeInCache
<1>21. ASSUME NEW t \in Texts, CacheExpires(t) PROVE Growth
  BY <1>21, Zenon DEF CacheExpires
<1>22. CASE UNCHANGED vars
  BY <1>22, ZenonT(30) DEF vars
<1>23. QED
  BY <1>1, <1>2, <1>3, <1>4, <1>5, <1>6, <1>7, <1>8, <1>9, <1>10, <1>11,
     <1>12, <1>13, <1>14, <1>15, <1>16, <1>17, <1>18, <1>19, <1>20, <1>21, <1>22, ZenonT(30)
  DEF Next, Step

\* Only the steps that end a call set its response.
LEMMA Responds == Inv /\ [Next]_vars => ResponseChange
<1> SUFFICES ASSUME Inv, [Next]_vars PROVE ResponseChange
  BY Zenon
<1> USE DEF Inv, TypeOK, services, others, Goto, Ended, ResponseChange
<1>1. ASSUME NEW c \in Calls, Arrive(c) PROVE ResponseChange
  BY <1>1, Zenon DEF Arrive, Kept
<1>2. ASSUME NEW c \in Calls, CacheBody(c) PROVE ResponseChange
  BY <1>2, BodyErrors, RefusalIsResponse DEF CacheBody, Respond, Kept, NewRefusal
<1>3. ASSUME NEW c \in Calls, CacheHit(c) PROVE ResponseChange
  BY <1>3, Refused, RefusalIsResponse DEF CacheHit, Respond, Kept, NewRefusal
<1>4. ASSUME NEW c \in Calls, CacheMiss(c) PROVE ResponseChange
  BY <1>4, Zenon DEF CacheMiss, Kept
<1>5. ASSUME NEW c \in Calls, HandlerChecks(c) PROVE ResponseChange
  BY <1>5, Refused, BodyErrors, RefusalIsResponse
  DEF HandlerChecks, Respond, Kept, NewRefusal, BadBodies
<1>6. ASSUME NEW c \in Calls, VerifyPayment(c) PROVE ResponseChange
  BY <1>6, Zenon DEF VerifyPayment, Kept
<1>7. ASSUME NEW c \in Calls, VerifierGrants(c) PROVE ResponseChange
  BY <1>7, Zenon DEF VerifierGrants, Kept
<1>8. ASSUME NEW c \in Calls, VerifierRefuses(c) PROVE ResponseChange
  BY <1>8, Zenon DEF VerifierRefuses, Kept
<1>9. ASSUME NEW c \in Calls, VerifyAnswered(c) PROVE ResponseChange
  BY <1>9, Refused, Rejections, Conflict, RefusalIsResponse
     DEF VerifyAnswered, Respond, Kept, NewRefusal, NewConflict
<1>10. ASSUME NEW c \in Calls, VerifyFailed(c) PROVE ResponseChange
  BY <1>10, Refused, RefusalIsResponse DEF VerifyFailed, Respond, Kept, NewRefusal
<1>11. ASSUME NEW c \in Calls, CallAI(c) PROVE ResponseChange
  BY <1>11, BodyErrors, RefusalIsResponse DEF CallAI, Respond, Kept, NewRefusal
<1>12. ASSUME NEW c \in Calls, Generated(c) PROVE ResponseChange
  BY <1>12, Zenon DEF Generated, Kept
<1>13. ASSUME NEW c \in Calls, GenerateFailed(c) PROVE ResponseChange
  BY <1>13, Refused, RefusalIsResponse DEF GenerateFailed, Respond, Kept, NewRefusal
<1>14. ASSUME NEW c \in Calls, generateAndSendReceipt(c) PROVE ResponseChange
  <2>1. pc[c] = "receipt" /\ receipts' = receipts \cup {Receipt(c)} /\ result' = result
        /\ Respond(c, Success(c))
    BY <1>14, Zenon DEF generateAndSendReceipt, Success
  <2>2. QED
    BY <2>1, AtReceipt, Zenon DEF Respond, Kept, NewSuccess
<1>15. ASSUME NEW c \in Calls, ReceiptFailed(c) PROVE ResponseChange
  BY <1>15, Refused, RefusalIsResponse DEF ReceiptFailed, Respond, Kept, NewRefusal
<1>16. ASSUME NEW c \in Calls, Return(c) PROVE ResponseChange
  BY <1>16, Zenon DEF Return, Kept
<1>17. ASSUME NEW c \in Calls, Expire(c) PROVE ResponseChange
  BY <1>17, Zenon DEF Expire, Kept
<1>18. ASSUME NEW c \in Calls, Flush(c) PROVE ResponseChange
  BY <1>18, Zenon DEF Flush, Kept
<1>19. ASSUME NEW c \in Calls, TimeOut(c) PROVE ResponseChange
  BY <1>19, Zenon DEF TimeOut, Kept
<1>20. ASSUME NEW s \in storing, storeInCache(s) PROVE ResponseChange
  BY <1>20, Zenon DEF storeInCache, Kept
<1>21. ASSUME NEW t \in Texts, CacheExpires(t) PROVE ResponseChange
  BY <1>21, Zenon DEF CacheExpires, Kept
<1>22. CASE UNCHANGED vars
  BY <1>22, ZenonT(30) DEF vars, Kept
<1>23. QED
  BY <1>1, <1>2, <1>3, <1>4, <1>5, <1>6, <1>7, <1>8, <1>9, <1>10, <1>11,
     <1>12, <1>13, <1>14, <1>15, <1>16, <1>17, <1>18, <1>19, <1>20, <1>21, <1>22, ZenonT(30)
  DEF Next, Step

\* The variables that the other lemmas leave out keep their types.
LEMMA Types == Inv /\ [Next]_vars => OtherTypes
<1> SUFFICES ASSUME Inv, [Next]_vars PROVE OtherTypes
  BY Zenon
<1> USE DEF Inv, TypeOK, services, others, Goto, Inputs, OtherTypes
<1>1. ASSUME NEW c \in Calls, Arrive(c) PROVE OtherTypes
  BY <1>1, Zenon DEF Arrive
<1>2. ASSUME NEW c \in Calls, CacheBody(c) PROVE OtherTypes
  BY <1>2, ZenonT(30) DEF CacheBody, Respond
<1>3. ASSUME NEW c \in Calls, CacheHit(c) PROVE OtherTypes
  BY <1>3, ZenonT(120) DEF CacheHit, Respond, PathInv
<1>4. ASSUME NEW c \in Calls, CacheMiss(c) PROVE OtherTypes
  BY <1>4, Zenon DEF CacheMiss
<1>5. ASSUME NEW c \in Calls, HandlerChecks(c) PROVE OtherTypes
  BY <1>5, ZenonT(120) DEF HandlerChecks, Respond
<1>6. ASSUME NEW c \in Calls, VerifyPayment(c) PROVE OtherTypes
  BY <1>6, Zenon DEF VerifyPayment
<1>7. ASSUME NEW c \in Calls, VerifierGrants(c) PROVE OtherTypes
  BY <1>7, ZenonT(120) DEF VerifierGrants
<1>8. ASSUME NEW c \in Calls, VerifierRefuses(c) PROVE OtherTypes
  <2>1. PICK answer \in {"broken"} \cup BusinessCodes : verifier' = [verifier EXCEPT ![c] = answer]
    BY <1>8, SummarizeAssumption, ZenonT(60) DEF VerifierRefuses, VerifierInv, BusinessCodes
  <2>2. verifier' \in [Calls -> {"none", "sent", "ok", "broken"} \cup BusinessCodes]
    BY <2>1, Zenon
  <2> QED
    BY <1>8, <2>2, Zenon DEF VerifierRefuses
<1>9. ASSUME NEW c \in Calls, VerifyAnswered(c) PROVE OtherTypes
  BY <1>9, Zenon DEF VerifyAnswered, Respond
<1>10. ASSUME NEW c \in Calls, VerifyFailed(c) PROVE OtherTypes
  BY <1>10 DEF VerifyFailed, Respond
<1>11. ASSUME NEW c \in Calls, CallAI(c) PROVE OtherTypes
  BY <1>11 DEF CallAI, Respond
<1>12. ASSUME NEW c \in Calls, Generated(c) PROVE OtherTypes
  BY <1>12, Zenon DEF Generated, PathInv, Summaries
<1>13. ASSUME NEW c \in Calls, GenerateFailed(c) PROVE OtherTypes
  BY <1>13, ZenonT(120) DEF GenerateFailed, Respond
<1>14. ASSUME NEW c \in Calls, generateAndSendReceipt(c) PROVE OtherTypes
  BY <1>14, AtReceipt, Zenon DEF generateAndSendReceipt, Respond
<1>15. ASSUME NEW c \in Calls, ReceiptFailed(c) PROVE OtherTypes
  BY <1>15, AtReceipt DEF ReceiptFailed, Respond
<1>16. ASSUME NEW c \in Calls, Return(c) PROVE OtherTypes
  BY <1>16 DEF Return, AnswerInv, Earned
<1>17. ASSUME NEW c \in Calls, Expire(c) PROVE OtherTypes
  BY <1>17, Zenon DEF Expire
<1>18. ASSUME NEW c \in Calls, Flush(c) PROVE OtherTypes
  BY <1>18, Zenon DEF Flush
<1>19. ASSUME NEW c \in Calls, TimeOut(c) PROVE OtherTypes
  BY <1>19, Refused, RefusalIsResponse DEF TimeOut
<1>20. ASSUME NEW s \in storing, storeInCache(s) PROVE OtherTypes
  BY <1>20, Zenon DEF storeInCache
<1>21. ASSUME NEW t \in Texts, CacheExpires(t) PROVE OtherTypes
  BY <1>21, Zenon DEF CacheExpires
<1>22. CASE UNCHANGED vars
  BY <1>22, Zenon DEF vars
<1>23. QED
  BY <1>1, <1>2, <1>3, <1>4, <1>5, <1>6, <1>7, <1>8, <1>9, <1>10, <1>11,
     <1>12, <1>13, <1>14, <1>15, <1>16, <1>17, <1>18, <1>19, <1>20, <1>21, <1>22, ZenonT(30)
  DEF Next, Step

\* A call goes through the handlers in order.
LEMMA Paths == Inv /\ [Next]_vars => PathInv'
<1> SUFFICES ASSUME Inv, [Next]_vars PROVE PathInv'
  BY Zenon
<1> USE DEF Inv, TypeOK, PathInv, services, others, Goto, Inputs
<1>1. ASSUME NEW c \in Calls, Arrive(c) PROVE PathInv'
  BY <1>1, ZenonT(120) DEF Arrive, BadBodies
<1>2. ASSUME NEW c \in Calls, CacheBody(c) PROVE PathInv'
  BY <1>2, ZenonT(120) DEF CacheBody, Respond
<1>3. ASSUME NEW c \in Calls, CacheHit(c) PROVE PathInv'
  BY <1>3, SMTT(120) DEF CacheHit, Respond, CacheInv, BadBodies
<1>4. ASSUME NEW c \in Calls, CacheMiss(c) PROVE PathInv'
  BY <1>4, ZenonT(30) DEF CacheMiss
<1>5. ASSUME NEW c \in Calls, HandlerChecks(c) PROVE PathInv'
  BY <1>5, SMTT(120) DEF HandlerChecks, Respond, BadBodies
<1>6. ASSUME NEW c \in Calls, VerifyPayment(c) PROVE PathInv'
  BY <1>6, ZenonT(120) DEF VerifyPayment
<1>7. ASSUME NEW c \in Calls, VerifierGrants(c) PROVE PathInv'
  BY <1>7, ZenonT(30) DEF VerifierGrants
<1>8. ASSUME NEW c \in Calls, VerifierRefuses(c) PROVE PathInv'
  BY <1>8, ZenonT(30) DEF VerifierRefuses
<1>9. ASSUME NEW c \in Calls, VerifyAnswered(c) PROVE PathInv'
  BY <1>9, SMTT(60) DEF VerifyAnswered, Respond
<1>10. ASSUME NEW c \in Calls, VerifyFailed(c) PROVE PathInv'
  BY <1>10, SMTT(60) DEF VerifyFailed, Respond
<1>11. ASSUME NEW c \in Calls, CallAI(c) PROVE PathInv'
  BY <1>11, ZenonT(120) DEF CallAI, Respond
<1>12. ASSUME NEW c \in Calls, Generated(c) PROVE PathInv'
  BY <1>12, SummarizeAssumption, SMTT(60) DEF Generated, Summaries
<1>13. ASSUME NEW c \in Calls, GenerateFailed(c) PROVE PathInv'
  BY <1>13 DEF GenerateFailed, Respond
<1>14. ASSUME NEW c \in Calls, generateAndSendReceipt(c) PROVE PathInv'
  BY <1>14, ZenonT(120) DEF generateAndSendReceipt, Respond
<1>15. ASSUME NEW c \in Calls, ReceiptFailed(c) PROVE PathInv'
  BY <1>15 DEF ReceiptFailed, Respond
<1>16. ASSUME NEW c \in Calls, Return(c) PROVE PathInv'
  BY <1>16, Zenon DEF Return
<1>17. ASSUME NEW c \in Calls, Expire(c) PROVE PathInv'
  BY <1>17, Zenon DEF Expire
<1>18. ASSUME NEW c \in Calls, Flush(c) PROVE PathInv'
  BY <1>18, Zenon DEF Flush
<1>19. ASSUME NEW c \in Calls, TimeOut(c) PROVE PathInv'
  BY <1>19, Zenon DEF TimeOut
<1>20. ASSUME NEW s \in storing, storeInCache(s) PROVE PathInv'
  BY <1>20, Zenon DEF storeInCache
<1>21. ASSUME NEW t \in Texts, CacheExpires(t) PROVE PathInv'
  BY <1>21, Zenon DEF CacheExpires
<1>22. CASE UNCHANGED vars
  BY <1>22, ZenonT(30) DEF vars
<1>23. QED
  BY <1>1, <1>2, <1>3, <1>4, <1>5, <1>6, <1>7, <1>8, <1>9, <1>10, <1>11,
     <1>12, <1>13, <1>14, <1>15, <1>16, <1>17, <1>18, <1>19, <1>20, <1>21, <1>22, ZenonT(30)
  DEF Next, Step

\* An answer of the verifier is about the payment of the call.
LEMMA Answers == Inv /\ [Next]_vars => VerifierInv'
<1> SUFFICES ASSUME Inv, [Next]_vars PROVE VerifierInv'
  BY Zenon
<1> USE DEF Inv, TypeOK, VerifierInv, Granted, services, others, Goto, Inputs, BusinessCodes
<1>1. ASSUME NEW c \in Calls, Arrive(c) PROVE VerifierInv'
  BY <1>1, ZenonT(30) DEF Arrive
<1>2. ASSUME NEW c \in Calls, CacheBody(c) PROVE VerifierInv'
  <2>1. UNCHANGED <<req, verifier, granted>> /\ pc[c] = "cache"
    BY <1>2, Zenon DEF CacheBody
  <2>2. pc' = [pc EXCEPT ![c] = "respond"] \/ pc' = [pc EXCEPT ![c] = "lookup"]
    BY <1>2, Zenon DEF CacheBody, Respond
  <2> QED
    BY <2>1, <2>2
<1>3. ASSUME NEW c \in Calls, CacheHit(c) PROVE VerifierInv'
  BY <1>3, SMTT(60) DEF CacheHit, Respond
<1>4. ASSUME NEW c \in Calls, CacheMiss(c) PROVE VerifierInv'
  BY <1>4, ZenonT(120) DEF CacheMiss
<1>5. ASSUME NEW c \in Calls, HandlerChecks(c) PROVE VerifierInv'
  BY <1>5, SMTT(60) DEF HandlerChecks, Respond
<1>6. ASSUME NEW c \in Calls, VerifyPayment(c) PROVE VerifierInv'
  BY <1>6, ZenonT(120) DEF VerifyPayment, PathInv
<1>7. ASSUME NEW c \in Calls, VerifierGrants(c) PROVE VerifierInv'
  BY <1>7, SummarizeAssumption, SMTT(60) DEF VerifierGrants
<1>8. ASSUME NEW c \in Calls, VerifierRefuses(c) PROVE VerifierInv'
  BY <1>8, SummarizeAssumption, SMTT(60) DEF VerifierRefuses
<1>9. ASSUME NEW c \in Calls, VerifyAnswered(c) PROVE VerifierInv'
  BY <1>9, SMTT(60) DEF VerifyAnswered, Respond
<1>10. ASSUME NEW c \in Calls, VerifyFailed(c) PROVE VerifierInv'
  BY <1>10, SMTT(60) DEF VerifyFailed, Respond
<1>11. ASSUME NEW c \in Calls, CallAI(c) PROVE VerifierInv'
  BY <1>11 DEF CallAI, Respond
<1>12. ASSUME NEW c \in Calls, Generated(c) PROVE VerifierInv'
  <2>1. /\ pc[c] = "ai" /\ UNCHANGED <<req, verifier, granted>>
        /\ pc' = [pc EXCEPT ![c] = "receipt"]
    BY <1>12, Zenon DEF Generated
  <2>2. verifier[c] = "ok"
    BY <2>1, Zenon
  <2>3. QED
    BY <2>1, <2>2, ZenonT(120)
<1>13. ASSUME NEW c \in Calls, GenerateFailed(c) PROVE VerifierInv'
  BY <1>13, SMTT(60) DEF GenerateFailed, Respond
<1>14. ASSUME NEW c \in Calls, generateAndSendReceipt(c) PROVE VerifierInv'
  BY <1>14, ZenonT(120) DEF generateAndSendReceipt, Respond
<1>15. ASSUME NEW c \in Calls, ReceiptFailed(c) PROVE VerifierInv'
  BY <1>15 DEF ReceiptFailed, Respond
<1>16. ASSUME NEW c \in Calls, Return(c) PROVE VerifierInv'
  BY <1>16, ZenonT(120) DEF Return
<1>17. ASSUME NEW c \in Calls, Expire(c) PROVE VerifierInv'
  BY <1>17, Zenon DEF Expire
<1>18. ASSUME NEW c \in Calls, Flush(c) PROVE VerifierInv'
  BY <1>18, Zenon DEF Flush
<1>19. ASSUME NEW c \in Calls, TimeOut(c) PROVE VerifierInv'
  BY <1>19, Zenon DEF TimeOut
<1>20. ASSUME NEW s \in storing, storeInCache(s) PROVE VerifierInv'
  BY <1>20, Zenon DEF storeInCache
<1>21. ASSUME NEW t \in Texts, CacheExpires(t) PROVE VerifierInv'
  BY <1>21, Zenon DEF CacheExpires
<1>22. CASE UNCHANGED vars
  BY <1>22, ZenonT(30) DEF vars
<1>23. QED
  BY <1>1, <1>2, <1>3, <1>4, <1>5, <1>6, <1>7, <1>8, <1>9, <1>10, <1>11,
     <1>12, <1>13, <1>14, <1>15, <1>16, <1>17, <1>18, <1>19, <1>20, <1>21, <1>22, ZenonT(120)
  DEF Next, Step

\* handleSummarize reaches the AI provider after a grant only.
LEMMA PaysAI == Inv /\ [Next]_vars => AIInv'
<1> SUFFICES ASSUME Inv, [Next]_vars PROVE AIInv'
  BY Zenon
<1> USE DEF Inv, TypeOK, AIInv, Granted, services, others, Goto, Inputs
<1>1. ASSUME NEW c \in Calls, Arrive(c) PROVE AIInv'
  BY <1>1, Zenon DEF Arrive
<1>2. ASSUME NEW c \in Calls, CacheBody(c) PROVE AIInv'
  BY <1>2, ZenonT(30) DEF CacheBody, Respond
<1>3. ASSUME NEW c \in Calls, CacheHit(c) PROVE AIInv'
  <2>1. UNCHANGED <<req, granted, aiCalls>>
    BY <1>3, Zenon DEF CacheHit
  <2>2. result' = result \/ result' = [result EXCEPT ![c] = cache[req[c].body]]
    BY <1>3, Zenon DEF CacheHit
  <2>3. cache[req[c].body] # Nil => cache[req[c].body].by # c \/ c \in aiCalls
    BY <1>3, SMTT(120) DEF CacheHit, CacheInv, Paid, PathInv
  <2> QED
    BY <2>1, <2>2, <2>3
<1>4. ASSUME NEW c \in Calls, CacheMiss(c) PROVE AIInv'
  BY <1>4, Zenon DEF CacheMiss
<1>5. ASSUME NEW c \in Calls, HandlerChecks(c) PROVE AIInv'
  BY <1>5, Zenon DEF HandlerChecks, Respond
<1>6. ASSUME NEW c \in Calls, VerifyPayment(c) PROVE AIInv'
  BY <1>6, Zenon DEF VerifyPayment
<1>7. ASSUME NEW c \in Calls, VerifierGrants(c) PROVE AIInv'
  BY <1>7, SummarizeAssumption DEF VerifierGrants
<1>8. ASSUME NEW c \in Calls, VerifierRefuses(c) PROVE AIInv'
  BY <1>8, Zenon DEF VerifierRefuses
<1>9. ASSUME NEW c \in Calls, VerifyAnswered(c) PROVE AIInv'
  BY <1>9, ZenonT(120) DEF VerifyAnswered, Respond
<1>10. ASSUME NEW c \in Calls, VerifyFailed(c) PROVE AIInv'
  BY <1>10, ZenonT(120) DEF VerifyFailed, Respond
<1>11. ASSUME NEW c \in Calls, CallAI(c) PROVE AIInv'
  BY <1>11, SMTT(120) DEF CallAI, Respond, VerifierInv
<1>12. ASSUME NEW c \in Calls, Generated(c) PROVE AIInv'
  <2>1. /\ c \in aiCalls /\ UNCHANGED <<req, granted, aiCalls>>
        /\ \A d \in Calls : d # c => result'[d] = result[d]
    BY <1>12, Zenon DEF Generated
  <2>2. QED
    BY <2>1, Zenon
<1>13. ASSUME NEW c \in Calls, GenerateFailed(c) PROVE AIInv'
  BY <1>13, ZenonT(120) DEF GenerateFailed, Respond
<1>14. ASSUME NEW c \in Calls, generateAndSendReceipt(c) PROVE AIInv'
  BY <1>14, Zenon DEF generateAndSendReceipt, Respond
<1>15. ASSUME NEW c \in Calls, ReceiptFailed(c) PROVE AIInv'
  BY <1>15, ZenonT(120) DEF ReceiptFailed, Respond
<1>16. ASSUME NEW c \in Calls, Return(c) PROVE AIInv'
  BY <1>16, Zenon DEF Return
<1>17. ASSUME NEW c \in Calls, Expire(c) PROVE AIInv'
  BY <1>17, Zenon DEF Expire
<1>18. ASSUME NEW c \in Calls, Flush(c) PROVE AIInv'
  BY <1>18, Zenon DEF Flush
<1>19. ASSUME NEW c \in Calls, TimeOut(c) PROVE AIInv'
  BY <1>19, Zenon DEF TimeOut
<1>20. ASSUME NEW s \in storing, storeInCache(s) PROVE AIInv'
  BY <1>20, Zenon DEF storeInCache
<1>21. ASSUME NEW t \in Texts, CacheExpires(t) PROVE AIInv'
  BY <1>21, Zenon DEF CacheExpires
<1>22. CASE UNCHANGED vars
  BY <1>22, ZenonT(30) DEF vars
<1>23. QED
  BY <1>1, <1>2, <1>3, <1>4, <1>5, <1>6, <1>7, <1>8, <1>9, <1>10, <1>11,
     <1>12, <1>13, <1>14, <1>15, <1>16, <1>17, <1>18, <1>19, <1>20, <1>21, <1>22, ZenonT(30)
  DEF Next, Step

\* A client is sent the response or the 504 of RequestTimeoutMiddleware, once.
LEMMA Clients == Inv /\ [Next]_vars => ClientChange
<1> SUFFICES ASSUME Inv, [Next]_vars PROVE ClientChange
  BY Zenon
<1> USE DEF Inv, TypeOK, ClientChange, services, others
<1>1. ASSUME NEW c \in Calls, Arrive(c) PROVE ClientChange
  BY <1>1, Zenon DEF Arrive
<1>2. ASSUME NEW c \in Calls, CacheBody(c) PROVE ClientChange
  BY <1>2, Zenon DEF CacheBody
<1>3. ASSUME NEW c \in Calls, CacheHit(c) PROVE ClientChange
  BY <1>3, Zenon DEF CacheHit
<1>4. ASSUME NEW c \in Calls, CacheMiss(c) PROVE ClientChange
  BY <1>4, Zenon DEF CacheMiss
<1>5. ASSUME NEW c \in Calls, HandlerChecks(c) PROVE ClientChange
  BY <1>5, Zenon DEF HandlerChecks
<1>6. ASSUME NEW c \in Calls, VerifyPayment(c) PROVE ClientChange
  BY <1>6, ZenonT(30) DEF VerifyPayment
<1>7. ASSUME NEW c \in Calls, VerifierGrants(c) PROVE ClientChange
  BY <1>7, ZenonT(30) DEF VerifierGrants
<1>8. ASSUME NEW c \in Calls, VerifierRefuses(c) PROVE ClientChange
  BY <1>8, Zenon DEF VerifierRefuses
<1>9. ASSUME NEW c \in Calls, VerifyAnswered(c) PROVE ClientChange
  BY <1>9, Zenon DEF VerifyAnswered
<1>10. ASSUME NEW c \in Calls, VerifyFailed(c) PROVE ClientChange
  BY <1>10 DEF VerifyFailed
<1>11. ASSUME NEW c \in Calls, CallAI(c) PROVE ClientChange
  BY <1>11, Zenon DEF CallAI
<1>12. ASSUME NEW c \in Calls, Generated(c) PROVE ClientChange
  BY <1>12, Zenon DEF Generated
<1>13. ASSUME NEW c \in Calls, GenerateFailed(c) PROVE ClientChange
  BY <1>13, Zenon DEF GenerateFailed
<1>14. ASSUME NEW c \in Calls, generateAndSendReceipt(c) PROVE ClientChange
  BY <1>14, Zenon DEF generateAndSendReceipt
<1>15. ASSUME NEW c \in Calls, ReceiptFailed(c) PROVE ClientChange
  BY <1>15, Zenon DEF ReceiptFailed
<1>16. ASSUME NEW c \in Calls, Return(c) PROVE ClientChange
  BY <1>16, Zenon DEF Return
<1>17. ASSUME NEW c \in Calls, Expire(c) PROVE ClientChange
  BY <1>17, Zenon DEF Expire
<1>18. ASSUME NEW c \in Calls, Flush(c) PROVE ClientChange
  BY <1>18 DEF Flush
<1>19. ASSUME NEW c \in Calls, TimeOut(c) PROVE ClientChange
  BY <1>19 DEF TimeOut
<1>20. ASSUME NEW s \in storing, storeInCache(s) PROVE ClientChange
  BY <1>20, Zenon DEF storeInCache
<1>21. ASSUME NEW t \in Texts, CacheExpires(t) PROVE ClientChange
  BY <1>21, Zenon DEF CacheExpires
<1>22. CASE UNCHANGED vars
  BY <1>22, ZenonT(30) DEF vars
<1>23. QED
  BY <1>1, <1>2, <1>3, <1>4, <1>5, <1>6, <1>7, <1>8, <1>9, <1>10, <1>11,
     <1>12, <1>13, <1>14, <1>15, <1>16, <1>17, <1>18, <1>19, <1>20, <1>21, <1>22, ZenonT(30)
  DEF Next, Step

\* storeInCache takes summaries of answered calls, CacheExpires drops them.
LEMMA Caches == Inv /\ [Next]_vars => CacheChange
<1> SUFFICES ASSUME Inv, [Next]_vars PROVE CacheChange
  BY Zenon
<1> USE DEF Inv, TypeOK, CacheInv, CacheChange, services, others
<1>1. ASSUME NEW c \in Calls, Arrive(c) PROVE CacheChange
  BY <1>1, ZenonT(30) DEF Arrive
<1>2. ASSUME NEW c \in Calls, CacheBody(c) PROVE CacheChange
  BY <1>2, ZenonT(30) DEF CacheBody
<1>3. ASSUME NEW c \in Calls, CacheHit(c) PROVE CacheChange
  BY <1>3, ZenonT(30) DEF CacheHit
<1>4. ASSUME NEW c \in Calls, CacheMiss(c) PROVE CacheChange
  BY <1>4, ZenonT(30) DEF CacheMiss
<1>5. ASSUME NEW c \in Calls, HandlerChecks(c) PROVE CacheChange
  BY <1>5, Zenon DEF HandlerChecks
<1>6. ASSUME NEW c \in Calls, VerifyPayment(c) PROVE CacheChange
  BY <1>6, ZenonT(30) DEF VerifyPayment
<1>7. ASSUME NEW c \in Calls, VerifierGrants(c) PROVE CacheChange
  BY <1>7, ZenonT(30) DEF VerifierGrants
<1>8. ASSUME NEW c \in Calls, VerifierRefuses(c) PROVE CacheChange
  BY <1>8, Zenon DEF VerifierRefuses
<1>9. ASSUME NEW c \in Calls, VerifyAnswered(c) PROVE CacheChange
  BY <1>9, Zenon DEF VerifyAnswered
<1>10. ASSUME NEW c \in Calls, VerifyFailed(c) PROVE CacheChange
  BY <1>10 DEF VerifyFailed
<1>11. ASSUME NEW c \in Calls, CallAI(c) PROVE CacheChange
  BY <1>11, Zenon DEF CallAI
<1>12. ASSUME NEW c \in Calls, Generated(c) PROVE CacheChange
  BY <1>12, Zenon DEF Generated
<1>13. ASSUME NEW c \in Calls, GenerateFailed(c) PROVE CacheChange
  BY <1>13, Zenon DEF GenerateFailed
<1>14. ASSUME NEW c \in Calls, generateAndSendReceipt(c) PROVE CacheChange
  BY <1>14, Zenon DEF generateAndSendReceipt
<1>15. ASSUME NEW c \in Calls, ReceiptFailed(c) PROVE CacheChange
  BY <1>15, ZenonT(30) DEF ReceiptFailed
<1>16. ASSUME NEW c \in Calls, Return(c) PROVE CacheChange
  BY <1>16, SMTT(60) DEF Return, AnswerInv, AIInv, Earned, Paid
<1>17. ASSUME NEW c \in Calls, Expire(c) PROVE CacheChange
  BY <1>17, Zenon DEF Expire
<1>18. ASSUME NEW c \in Calls, Flush(c) PROVE CacheChange
  BY <1>18, Zenon DEF Flush
<1>19. ASSUME NEW c \in Calls, TimeOut(c) PROVE CacheChange
  BY <1>19, Zenon DEF TimeOut
<1>20. ASSUME NEW s \in storing, storeInCache(s) PROVE CacheChange
  BY <1>20, ZenonT(120) DEF storeInCache
<1>21. ASSUME NEW t \in Texts, CacheExpires(t) PROVE CacheChange
  BY <1>21, Zenon DEF CacheExpires
<1>22. CASE UNCHANGED vars
  BY <1>22, Zenon DEF vars
<1>23. QED
  BY <1>1, <1>2, <1>3, <1>4, <1>5, <1>6, <1>7, <1>8, <1>9, <1>10, <1>11,
     <1>12, <1>13, <1>14, <1>15, <1>16, <1>17, <1>18, <1>19, <1>20, <1>21, <1>22, ZenonT(30)
  DEF Next, Step

\* A call without an answer is neither served nor refused.
LEMMA PendingStatus ==
  Pending.status # 200 /\ Pending.error # "nonce_already_used"
BY DEF Pending, Failure

\* Neither is one that RequestTimeoutMiddleware answered.
LEMMA TimeoutStatus ==
  /\ Failure(504, "gateway_timeout").status # 200
  /\ Failure(504, "gateway_timeout").error # "nonce_already_used"
BY DEF Failure

\* What the invariant says of the answer of one call.
LEMMA AnswerOf ==
  ASSUME Inv, NEW c \in Calls
  PROVE  /\ pc[c] \notin Ended => response[c] = Pending
         /\ response[c].status = 200 => response[c] = Success(c) /\ Earned(c)
         /\ response[c].error = "nonce_already_used" => verifier[c] = "nonce_already_used"
         /\ client[c] \in {Pending, Failure(504, "gateway_timeout"), response[c]}
BY ZenonT(120) DEF Inv, AnswerInv

\* Only calls that ended are served or told of a used nonce.
LEMMA EndsAnswered ==
  ASSUME Inv, NEW c \in Calls,
         response[c].status = 200 \/ response[c].error = "nonce_already_used"
  PROVE  pc[c] \in Ended
BY PendingStatus, AnswerOf, ZenonT(120)

\* A granted payment stays granted to its call.
LEMMA GrantStays ==
  ASSUME Inv, Growth, NEW c \in Calls, Granted(c)
  PROVE  Granted(c)'
BY SummarizeAssumption DEF Inv, TypeOK, Growth, Granted, Inputs

\* What a call earned its summary with stays.
LEMMA EarnedStays ==
  ASSUME Inv, Growth, NEW c \in Calls, Earned(c), result'[c] = result[c]
  PROVE  Earned(c)'
BY GrantStays, Zenon DEF Growth, Earned, Receipt

\* AnswerInv is preserved.
LEMMA AnswersHold == Inv /\ [Next]_vars => AnswerInv'
<1> SUFFICES ASSUME Inv, [Next]_vars, NEW c \in Calls
             PROVE  /\ pc'[c] \notin Ended => response'[c] = Pending
                    /\ response'[c].status = 200 => response'[c] = Success(c)' /\ Earned(c)'
                    /\ response'[c].error = "nonce_already_used"
                         => verifier'[c] = "nonce_already_used"
                    /\ client'[c] \in {Pending, Failure(504, "gateway_timeout"), response'[c]}
  BY ZenonT(30) DEF AnswerInv, Pending, Failure
<1>1. ResponseChange /\ Growth /\ ClientChange
  BY Responds, Grows, Clients, Zenon
<1>2. response[c] \in Responses /\ response'[c] \in Responses
  BY <1>1, Zenon DEF ResponseChange, Inv, TypeOK
<1>3. pc'[c] \notin Ended => response'[c] = Pending
  <2>1. Kept(c) \/ pc'[c] = "respond"
    BY <1>1, ZenonT(30) DEF ResponseChange, NewRefusal, NewConflict, NewSuccess
  <2>2. pc[c] \notin Ended => response[c] = Pending
    BY AnswerOf, Zenon
  <2>3. QED
    BY <2>1, <2>2, ZenonT(30) DEF Kept, Ended
<1>4. pc[c] \in Ended => response'[c] = response[c]
  BY <1>1, Zenon DEF Growth
<1>5. client'[c] \in {Pending, Failure(504, "gateway_timeout"), response'[c]}
  <2>1. client[c] \in {Pending, Failure(504, "gateway_timeout"), response[c]}
    BY AnswerOf, ZenonT(120)
  <2>2. pc[c] \notin Ended => response[c] = Pending
    BY AnswerOf, Zenon
  <2>3. \/ client'[c] \in {client[c], Failure(504, "gateway_timeout")}
        \/ pc[c] = "done" /\ client'[c] = response[c]
    BY <1>1, ZenonT(120) DEF ClientChange
  <2>4. client'[c] \in {Pending, Failure(504, "gateway_timeout"), response[c]}
    BY <2>1, <2>3
  <2>5. CASE pc[c] \in Ended
    BY <1>4, <2>4, <2>5, ZenonT(120)
  <2>6. CASE pc[c] \notin Ended
    BY <2>2, <2>4, <2>6
  <2>7. QED
    BY <2>5, <2>6, ZenonT(30)
<1>6. ASSUME response'[c].status = 200 PROVE response'[c] = Success(c)' /\ Earned(c)'
  <2>1. CASE Kept(c)
    <3>1. response'[c] = response[c] /\ pc[c] \in Ended
      <4>1. response'[c] = response[c]
        BY <2>1, Zenon DEF Kept
      <4>2. response[c].status = 200
        BY <1>6, <4>1, Zenon
      <4>3. QED
        BY <4>1, <4>2, EndsAnswered, Zenon
    <3>2. response[c] = Success(c) /\ Earned(c) /\ result'[c] = result[c]
      <4>1. result'[c] = result[c]
        BY <1>1, <3>1, Zenon DEF Growth
      <4>2. response[c].status = 200
        BY <1>6, <3>1, Zenon
      <4>3. QED
        BY <4>1, <4>2, AnswerOf, ZenonT(120)
    <3>3. Success(c)' = Success(c)
      BY <1>1, <3>2, Zenon DEF Success, Receipt, Growth
    <3>4. QED
      BY <1>1, <3>1, <3>2, <3>3, EarnedStays, Zenon
  <2>2. CASE NewRefusal(c)
    BY <1>6, <2>2, RefusalIsResponse, Zenon DEF NewRefusal
  <2>3. CASE NewConflict(c)
    BY <1>6, <2>3, Conflict DEF NewConflict
  <2>4. CASE NewSuccess(c)
    <3>1. Granted(c) /\ result[c] # Nil /\ result'[c] = result[c]
      BY <2>4, ZenonT(30) DEF NewSuccess, Inv, PathInv, VerifierInv
    <3>2. Granted(c)'
      BY <1>1, <3>1, GrantStays, ZenonT(30)
    <3>3. Receipt(c)' = Receipt(c) /\ Success(c)' = Success(c)
      BY <1>1, <3>1, ZenonT(30) DEF Success, Receipt, Growth
    <3>4. QED
      BY <2>4, <3>1, <3>2, <3>3, ZenonT(30) DEF NewSuccess, Earned
  <2>5. QED
    BY <1>1, <2>1, <2>2, <2>3, <2>4, ZenonT(30) DEF ResponseChange
<1>7. ASSUME response'[c].error = "nonce_already_used"
      PROVE  verifier'[c] = "nonce_already_used"
  <2>1. CASE Kept(c)
    <3>1. verifier[c] = "nonce_already_used"
      BY <1>7, <2>1, AnswerOf, ZenonT(120) DEF Kept
    <3>2. QED
      BY <1>1, <3>1, ZenonT(30) DEF Growth
  <2>2. CASE NewRefusal(c)
    BY <1>7, <2>2, RefusalIsResponse, ZenonT(30) DEF NewRefusal
  <2>3. CASE NewConflict(c)
    BY <1>1, <2>3, ZenonT(120) DEF NewConflict, Growth
  <2>4. CASE NewSuccess(c)
    BY <1>7, <2>4, SMTT(120) DEF NewSuccess, Success
  <2>5. QED
    BY <1>1, <2>1, <2>2, <2>3, <2>4, ZenonT(30) DEF ResponseChange
<1>8. QED
  BY <1>3, <1>5, <1>6, <1>7, ZenonT(30)

\* A summary that was paid for stays so.
LEMMA PaidStays ==
  ASSUME Inv, Growth, NEW s \in Summaries, Paid(s)
  PROVE  s.by \in aiCalls' /\ response'[s.by].status = 200 /\ result'[s.by] = s
<1>1. s.by \in Calls
  BY Zenon DEF Summaries
<1>2. pc[s.by] \in Ended
  BY <1>1, EndsAnswered DEF Paid
<1>3. QED
  BY <1>1, <1>2, SMTT(120) DEF Paid, Growth

\* CacheInv is preserved, by storeInCache too.
LEMMA CacheHolds == Inv /\ [Next]_vars => CacheInv'
<1> SUFFICES ASSUME Inv, [Next]_vars PROVE CacheInv'
  BY Zenon
<1>1. Growth /\ CacheChange /\ OtherTypes
  BY Grows, Caches, Types, ZenonT(30)
<1>2. ASSUME NEW s \in storing' PROVE Paid(s)'
  BY <1>1, <1>2, PaidStays, ZenonT(120) DEF CacheChange, OtherTypes, Paid
<1>3. ASSUME NEW t \in Texts, cache'[t] # Nil
      PROVE  (cache[t].text = t /\ Paid(cache[t]))'
  <2>1. cache'[t] \in Summaries /\ cache'[t].text = t /\ Paid(cache'[t])
    BY <1>1, <1>3, Zenon DEF CacheChange, OtherTypes
  <2>2. \A s \in Summaries : Paid(s)
          => s.by \in aiCalls' /\ response'[s.by].status = 200 /\ result'[s.by] = s
    BY <1>1, PaidStays, Zenon
  <2>3. QED
    BY <2>1, <2>2, ZenonT(120) DEF Paid
<1>4. QED
  BY <1>2, <1>3, Zenon DEF CacheInv
-----------------------------------------------------------------------------
\* No call has begun: the invariant holds.
LEMMA InitInv == Init => Inv
<1> SUFFICES ASSUME Init PROVE Inv
  BY Zenon
<1>1. Pending \in Responses /\ Pending.status # 200 /\ Pending.error # "nonce_already_used"
  BY Refused, RefusalIsResponse, PendingStatus
<1>2. TypeOK
  BY <1>1, ZenonT(30) DEF Init, TypeOK
<1>3. PathInv
  BY ZenonT(30) DEF Init, PathInv
<1>4. VerifierInv /\ AIInv
  BY SummarizeAssumption, Zenon DEF Init, VerifierInv, AIInv, Granted, Inputs
<1>5. AnswerInv /\ CacheInv
  BY <1>1, Zenon DEF Init, AnswerInv, CacheInv
<1>6. QED
  BY <1>2, <1>3, <1>4, <1>5, Zenon DEF Inv

\* The invariant is inductive.
LEMMA StepInv == Inv /\ [Next]_vars => Inv'
<1> SUFFICES ASSUME Inv, [Next]_vars PROVE Inv'
  BY Zenon
<1>1. OtherTypes /\ ResponseChange /\ Growth
  BY Types, Responds, Grows, ZenonT(30)
<1>2. TypeOK'
  BY <1>1, Zenon DEF OtherTypes, ResponseChange, Growth, Inv, TypeOK
<1>3. QED
  BY <1>2, Paths, Answers, PaysAI, AnswersHold, CacheHolds, Zenon DEF Inv

\* The invariant holds in every behaviour.
LEMMA Invariance == Spec => []Inv
BY InitInv, StepInv, PTL DEF Spec

\* The variables keep their types: among others, every answer of the gateway has
\* one of the statuses and error codes of its API.
THEOREM TypeCorrect == Spec => []TypeOK
<1>1. Inv => TypeOK
  BY Zenon DEF Inv
<1>2. QED
  BY <1>1, Invariance, PTL

\* A served or refused client got what the handler answered.
LEMMA ClientGets ==
  ASSUME Inv, NEW c \in Calls,
         client[c].status = 200 \/ client[c].error = "nonce_already_used"
  PROVE  client[c] = response[c]
<1>1. client[c] \in {Pending, Failure(504, "gateway_timeout"), response[c]}
  BY AnswerOf, ZenonT(120)
<1>2. QED
  BY <1>1, PendingStatus, TimeoutStatus

\* Whatever the number of calls that carry the same payment, and with or without
\* the cache, a client that gets a summary is the one the payment was granted to.
THEOREM Paying == Spec => []ServedIsPaid
<1>1. Inv => ServedIsPaid
  <2> SUFFICES ASSUME Inv, NEW c \in Calls, client[c].status = 200 PROVE Granted(c)
    BY Zenon DEF ServedIsPaid
  <2>1. client[c] = response[c]
    BY ClientGets, Zenon
  <2>2. Earned(c)
    BY <2>1, AnswerOf, ZenonT(120)
  <2>3. QED
    BY <2>2, ZenonT(30) DEF Earned
<1>2. QED
  BY <1>1, Invariance, PTL

\* handleSummarize never reaches the AI provider without a granted payment.
THEOREM AIPaid == Spec => []AIOnlyForPaid
<1>1. Inv => AIOnlyForPaid
  BY Zenon DEF Inv, TypeOK, AIInv, AIOnlyForPaid
<1>2. QED
  BY <1>1, Invariance, PTL

\* Neither a summary nor a call of the AI provider is had without a payment granted
\* to this very request.
THEOREM AllPaid == Spec => []NothingUnpaid
  BY Paying, AIPaid, PTL DEF NothingUnpaid

\* generateAndSendReceipt: a client with a 200 holds a receipt that is stored, and
\* that is over its own payment, body and summary.
THEOREM ReceiptsBack == Spec => []ReceiptBacksAnswer
<1>1. ASSUME Inv, NEW c \in Calls, client[c].status = 200
      PROVE  /\ client[c].receipt \in receipts
             /\ client[c].receipt = [payment |-> req[c].payment, body |-> req[c].body,
                                     result |-> client[c].result]
             /\ client[c].result.text = req[c].body
  <2>1. client[c] = Success(c) /\ Earned(c)
    <3>1. client[c] = response[c]
      BY <1>1, ClientGets, Zenon
    <3>2. QED
      BY <1>1, <3>1, AnswerOf, ZenonT(120)
  <2>2. client[c].result = result[c] /\ client[c].receipt = Receipt(c)
    <3>1. Success(c).result = result[c] /\ Success(c).receipt = Receipt(c)
      BY Zenon DEF Success
    <3>2. QED
      BY <2>1, <3>1, Zenon
  <2>3. QED
    <3>1. /\ Receipt(c) \in receipts /\ result[c] # Nil
          /\ Receipt(c) = [payment |-> req[c].payment, body |-> req[c].body,
                           result |-> result[c]]
      BY <2>1, ZenonT(30) DEF Earned, Receipt
    <3>2. result[c].text = req[c].body
      BY <1>1, <3>1, ZenonT(120) DEF Inv, PathInv
    <3>3. QED
      BY <2>2, <3>1, <3>2, Zenon
<1>2. Inv => ReceiptBacksAnswer
  BY <1>1, ZenonT(30) DEF ReceiptBacksAnswer
<1>3. QED
  BY <1>2, Invariance, PTL

\* CacheMiddleware keeps only summaries that somebody paid for and got a receipt
\* for, each under the text it is of.
THEOREM CachePaid == Spec => []CachedIsPaid
<1>1. Inv => CachedIsPaid
  BY SMTT(60) DEF Inv, TypeOK, CacheInv, Paid, AIInv, AnswerInv, Earned, CachedIsPaid
<1>2. QED
  BY <1>1, Invariance, PTL

\* respondVerificationFailure: a client is told of a used nonce only when another
\* call was granted the payment.
THEOREM ConflictsReal == Spec => []ConflictIsReal
<1>1. Inv => ConflictIsReal
  <2> SUFFICES ASSUME Inv, NEW c \in Calls, client[c].error = "nonce_already_used"
               PROVE  granted[req[c].payment] \notin {Nil, c}
    BY ZenonT(30) DEF ConflictIsReal
  <2>1. client[c] = response[c]
    BY ClientGets, Zenon
  <2>2. verifier[c] = "nonce_already_used"
    BY <2>1, AnswerOf, ZenonT(120)
  <2>3. QED
    BY <2>2, ZenonT(30) DEF Inv, VerifierInv
<1>2. QED
  BY <1>1, Invariance, PTL

\* With the cache on, CacheMiddleware refuses a bad body before the payment is
\* presented to the verifier, so it is never spent on it.
THEOREM BodiesChecked == Spec => []BadBodyKeepsPayment
<1>1. Inv => BadBodyKeepsPayment
  BY Zenon DEF Inv, TypeOK, VerifierInv, BadBodyKeepsPayment
<1>2. QED
  BY <1>1, Invariance, PTL
=============================================================================
