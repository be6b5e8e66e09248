------------------------------ MODULE UseX402 ------------------------------
(***************************************************************************)
(* The summarize form of the web page: the hook useX402 that drives a paid *)
(* request, the form that calls it, and the verification of the receipt    *)
(* that the form shows.                                                    *)
(*                                                                         *)
(* A run is one call of submit.  pc[r] names what the run awaits, so that  *)
(* everything between two awaits is one step; the wallet, the gateway, the *)
(* user, the 700 ms timer and other runs step in between.  state is what   *)
(* the setState calls have reached, shown what React has rendered of it:   *)
(* the handlers of the form read shown.  A receipt is named by the run     *)
(* that it was returned to and by whether its signature verifies, a        *)
(* summary by its run, or Empty.                                           *)
(***************************************************************************)
EXTENDS Naturals, Sequences

CONSTANTS MaxRuns,    \* a bound: submits and resets that are followed
          Accounts,
          Empty, None

ASSUME RunsAssumption == MaxRuns \in Nat

VARIABLES hook,       \* who calls: "form" (its handlers), or "any" caller
          input,      \* the text area is not blank
          state,      \* UseX402State
          shown,      \* the state that is on the screen
          runId,
          pc, stage, account, answer,
          timer,      \* aiStepTimer is set
          wallet,     \* what the wallet has: installed, account, right chain
          ident,      \* the wallet that this page has identified
          funnel,     \* per run, the events that close it
          signed,     \* signed requests sent, per run
          saved,      \* receipts handed to saveReceipt
          result,     \* useReceiptVerification: the last result
          verifying,  \* the verifyReceipt calls that have not returned
          effect      \* the one that is not cancelled

hookVars == <<state, runId>>
runVars == <<pc, stage, account, answer, timer, ident, funnel, signed, saved>>
viewVars == <<input, shown, result, verifying, effect>>
vars == <<hook, hookVars, runVars, viewVars, wallet>>

Runs == 1..MaxRuns

INITIAL_STATE == [step |-> "idle", summary |-> None, receipt |-> None, error |-> None,
                  isRunning |-> FALSE]

Steps == {"idle", "request", "challenge", "sign", "verify", "ai", "receipt", "done"}
Stages == {"request", "wallet-connect", "chain-lookup", "chain-switch", "signer", "sign",
           "verify", "done"}
ErrorKinds == {"no-wallet", "wrong-chain", "user-rejected", "expired", "duplicate-nonce",
               "invalid-signature", "rate-limited", "ai-timeout", "ai-unavailable",
               "verifier-timeout", "verifier-unavailable", "network", "unknown"}
ASSUME NoneAssumption == None \notin ErrorKinds

Receipts == [run : Runs, good : BOOLEAN]

Patched(s, patch) == [f \in DOMAIN s |-> IF f \in DOMAIN patch THEN patch[f] ELSE s[f]]

\* update.
Update(r, patch) == state' = IF runId = r THEN Patched(state, patch) ELSE state

\* Mutant: a run that has been superseded still counts.
CloseRegardless(r, event) == funnel' = [funnel EXCEPT ![r] = Append(@, event)]

\* track, for the events that close a run.
Close(r, event) ==
  funnel' = IF runId = r THEN [funnel EXCEPT ![r] = Append(@, event)] ELSE funnel

-----------------------------------------------------------------------------
\* What the gateway answers other than 200 and 402, as a status and the code in
\* the body: before a payment is accepted, after, and at any time (the rate
\* limiter, the request timeout, a proxy), with a body that has none of the codes.
Refusals ==
  {<<400, "chain_id_mismatch">>, <<400, "invalid_timestamp">>, <<403, "invalid_signature">>,
   <<409, "nonce_already_used">>, <<502, "verification_unavailable">>, <<504, "verifier_timeout">>}
AfterPayment ==
  {<<502, "upstream_unavailable">>, <<504, "upstream_timeout">>, <<500, "receipt_store_failed">>}
Anytime == {<<429, "other">>, <<504, "other">>, <<404, "other">>}

\* statusToKind.
StatusToKind(status, code) ==
  CASE status = 400 -> IF code = "chain_id_mismatch" THEN "wrong-chain"
                       ELSE IF code = "invalid_timestamp" THEN "expired"
                       ELSE "invalid-signature"
    [] status = 402 -> "expired"
    [] status = 403 -> "invalid-signature"
    [] status = 408 -> "ai-timeout"
    [] status = 409 -> IF code = "nonce_already_used" THEN "duplicate-nonce"
                       ELSE "invalid-signature"
    [] status = 429 -> "rate-limited"
    [] status = 502 -> IF code = "verification_unavailable" THEN "verifier-unavailable"
                       ELSE "ai-unavailable"
    [] status = 504 -> IF code = "verifier_timeout" THEN "verifier-timeout" ELSE "ai-timeout"
    [] OTHER -> IF status >= 500 THEN "ai-unavailable" ELSE "unknown"

\* What classifyError makes of a rejected fetch or body (the words differ between
\* browsers), and of what a wallet rejects with.
FetchErrors == {"network", "unknown"}
WalletErrors == {"user-rejected", "wrong-chain", "unknown"}
-----------------------------------------------------------------------------
Await(r, what) == pc[r] = what
Go(r, what) == pc' = [pc EXCEPT ![r] = what]

FailureEvent(s) ==
  CASE s = "wallet-connect" -> "WalletConnectFailed"
    [] s = "chain-switch" -> "ChainSwitchFailed"
    [] s \in {"signer", "sign"} -> "PaymentSignatureFailed"
    [] OTHER -> "SummaryFailed"

\* The end of a run with an error on the page: the event and the last update.
Fail(r, event, patch) ==
  /\ Go(r, "ended")
  /\ Close(r, event)
  /\ Update(r, patch)

\* The catch of submit.
Catch(r, kind) ==
  Fail(r, FailureEvent(stage[r]), [error |-> kind, isRunning |-> FALSE])

\* A submit until its first fetch.
StartRun ==
  LET r == runId + 1 IN
  /\ r \in Runs
  /\ runId' = r
  /\ state' = Patched(state, [step |-> "request", summary |-> None, receipt |-> None,
                              error |-> None, isRunning |-> TRUE])
  /\ Go(r, "first")
  /\ UNCHANGED <<stage, account, answer, timer, ident, funnel, signed, saved, wallet>>

\* The first answer: paid for already, refused, or a challenge.
FirstAnswer(r) ==
  /\ Await(r, "first")
  /\ \/ \E k \in FetchErrors : Catch(r, k) /\ UNCHANGED answer
     \/ Update(r, [step |-> "receipt"]) /\ Go(r, "body") /\ UNCHANGED <<answer, funnel>>
     \/ \E a \in Anytime :
          /\ answer' = [answer EXCEPT ![r] = a]
          /\ Go(r, "refusal")
          /\ UNCHANGED <<state, funnel>>
     \/ Update(r, [step |-> "challenge"]) /\ Go(r, "challenge") /\ UNCHANGED <<answer, funnel>>
  /\ UNCHANGED <<runId, stage, account, timer, ident, signed, saved, wallet>>

\* Mutant: no return after a refusal.
RefusedGoesOn(r) ==
  /\ Await(r, "refusal")
  /\ Close(r, "SummaryFailed")
  /\ Update(r, [error |-> StatusToKind(answer[r][1], answer[r][2]), isRunning |-> FALSE])
  /\ Go(r, "challenge")
  /\ answer' = [answer EXCEPT ![r] = None]
  /\ UNCHANGED <<runId, stage, account, timer, ident, signed, saved, wallet>>

\* safeText: the body with the gateway's code, or "" when it cannot be read.
SafeText(r) == {answer[r][2], "other"}

\* The error that is shown for an answer that is no success.
Refused(r) ==
  /\ Await(r, "refusal")
  /\ \E code \in SafeText(r) :
       LET kind == StatusToKind(answer[r][1], code)
           error == [error |-> kind, isRunning |-> FALSE]
           ai == [step |-> "ai", error |-> kind, isRunning |-> FALSE]
       IN Fail(r, "SummaryFailed",
               IF stage[r] = "verify" /\ kind \in {"ai-timeout", "ai-unavailable"}
               THEN ai ELSE error)
  /\ answer' = [answer EXCEPT ![r] = None]
  /\ UNCHANGED <<runId, stage, account, timer, ident, signed, saved, wallet>>

\* Mutant: a run that has been superseded still shows its result.
ReadSuccessRegardless(r) ==
  /\ Await(r, "body")
  /\ \E receipt \in {x \in Receipts : x.run = r} :
       /\ saved' = saved \cup {receipt}
       /\ state' = Patched(state, [step |-> "done", summary |-> r, receipt |-> receipt,
                                   isRunning |-> FALSE])
  /\ Close(r, "SummaryCompleted")
  /\ stage' = [stage EXCEPT ![r] = "done"]
  /\ Go(r, "ended")
  /\ UNCHANGED <<runId, account, answer, timer, ident, signed, wallet>>

\* readSummarizeSuccess: the summary, and the receipt or none (no header, or one that
\* safeDecodeReceiptHeader drops).
ReadSummarizeSuccess(r) ==
  [summary : {r, Empty}, receipt : {None} \cup {x \in Receipts : x.run = r}]

\* The body does not parse; or the result is saved, counted and shown.
ReadSuccess(r) ==
  /\ Await(r, "body")
  /\ \/ \E k \in FetchErrors : Catch(r, k) /\ UNCHANGED <<stage, saved>>
     \/ \E success \in ReadSummarizeSuccess(r) :
          /\ saved' = saved \cup ({success.receipt} \ {None})
          /\ Close(r, "SummaryCompleted")
          /\ stage' = [stage EXCEPT ![r] = "done"]
          /\ Update(r, [step |-> "done", summary |-> success.summary, receipt |-> success.receipt,
                        isRunning |-> FALSE])
          /\ Go(r, "ended")
  /\ UNCHANGED <<runId, account, answer, timer, ident, signed, wallet>>

\* readPaymentChallenge; then the wallet, if there is one.
Challenge(r) ==
  /\ Await(r, "challenge")
  /\ \/ \E k \in FetchErrors : Catch(r, k) /\ UNCHANGED stage
     \/ /\ ~wallet.installed
        /\ Fail(r, "WalletConnectFailed", [error |-> "no-wallet", isRunning |-> FALSE])
        /\ UNCHANGED stage
     \/ /\ wallet.installed
        /\ stage' = [stage EXCEPT ![r] = "wallet-connect"]
        /\ Go(r, "account")
        /\ UNCHANGED <<state, funnel>>
  /\ UNCHANGED <<runId, account, answer, timer, ident, signed, saved, wallet>>

\* getCurrentAccount: the wallet's account, or a prompt to connect.
CurrentAccount(r) ==
  /\ Await(r, "account")
  /\ \/ Catch(r, "unknown") /\ UNCHANGED <<stage, account>>
     \/ /\ account' = [account EXCEPT ![r] = wallet.account]
        /\ IF wallet.account = None
           THEN Go(r, "connect") /\ UNCHANGED stage
           ELSE Go(r, "chain") /\ stage' = [stage EXCEPT ![r] = "chain-lookup"]
        /\ UNCHANGED <<state, funnel>>
  /\ UNCHANGED <<runId, answer, timer, ident, signed, saved, wallet>>

\* connectWallet: the user refuses, or picks an account.
Connect(r) ==
  /\ Await(r, "connect")
  /\ \/ \E k \in WalletErrors : Catch(r, k) /\ UNCHANGED <<stage, account, wallet>>
     \/ \E a \in IF wallet.account = None THEN Accounts ELSE {wallet.account} :
          /\ wallet' = [wallet EXCEPT !.account = a]
          /\ account' = [account EXCEPT ![r] = a]
          /\ stage' = [stage EXCEPT ![r] = "chain-lookup"]
          /\ Go(r, "chain")
          /\ UNCHANGED <<state, funnel>>
  /\ UNCHANGED <<runId, answer, timer, ident, signed, saved>>

\* getCurrentChainId, before a switch and after it.
CurrentChain(r) ==
  /\ pc[r] \in {"chain", "recheck"}
  /\ \/ Catch(r, "unknown") /\ UNCHANGED stage
     \/ /\ wallet.rightChain
        /\ stage' = [stage EXCEPT ![r] = "signer"]
        /\ Go(r, "signer")
        /\ UNCHANGED <<state, funnel>>
     \/ /\ ~wallet.rightChain /\ Await(r, "chain")
        /\ stage' = [stage EXCEPT ![r] = "chain-switch"]
        /\ Go(r, "switch")
        /\ UNCHANGED <<state, funnel>>
     \/ /\ ~wallet.rightChain /\ Await(r, "recheck")
        /\ Catch(r, "wrong-chain")
        /\ UNCHANGED stage
  /\ UNCHANGED <<runId, account, answer, timer, ident, signed, saved, wallet>>

\* switchOrAddChain: adding a chain does not always switch to it.
SwitchChain(r) ==
  /\ Await(r, "switch")
  /\ \/ \E k \in WalletErrors : Catch(r, k) /\ UNCHANGED wallet
     \/ \E switched \in {TRUE, wallet.rightChain} :
          /\ wallet' = [wallet EXCEPT !.rightChain = switched]
          /\ Go(r, "recheck")
          /\ UNCHANGED <<state, funnel>>
  /\ UNCHANGED <<runId, stage, account, answer, timer, ident, signed, saved>>

\* getSigner, for an account that the wallet may have left.
GetSigner(r) ==
  /\ Await(r, "signer")
  /\ \/ Catch(r, "unknown") /\ UNCHANGED stage
     \/ /\ Update(r, [step |-> "sign"])
        /\ stage' = [stage EXCEPT ![r] = "sign"]
        /\ Go(r, "sign")
        /\ UNCHANGED funnel
  /\ UNCHANGED <<runId, account, answer, timer, ident, signed, saved, wallet>>

\* signPaymentContext.
SignContext(r) ==
  /\ Await(r, "sign")
  /\ \/ \E k \in WalletErrors : Catch(r, k)
     \/ Go(r, "live") /\ UNCHANGED <<state, funnel>>
  /\ UNCHANGED <<runId, stage, account, answer, timer, ident, signed, saved, wallet>>

\* The live account, identify, and the signed request.
SendSigned(r) ==
  /\ Await(r, "live")
  /\ \/ Catch(r, "unknown") /\ UNCHANGED <<stage, timer, ident, signed>>
     \/ /\ ident' = IF runId = r /\ wallet.account = account[r] THEN account[r] ELSE ident
        /\ Update(r, [step |-> "verify"])
        /\ stage' = [stage EXCEPT ![r] = "verify"]
        /\ timer' = [timer EXCEPT ![r] = TRUE]
        /\ signed' = [signed EXCEPT ![r] = @ + 1]
        /\ Go(r, "retry")
        /\ UNCHANGED funnel
  /\ UNCHANGED <<runId, account, answer, saved, wallet>>

\* aiStepTimer.
AiStep(r) ==
  /\ timer[r]
  /\ Update(r, [step |-> "ai"])
  /\ timer' = [timer EXCEPT ![r] = FALSE]
  /\ UNCHANGED <<runId, pc, stage, account, answer, ident, funnel, signed, saved, wallet>>

\* Mutant: no finally.
RetryAnswerTimerLeft(r) ==
  /\ Await(r, "retry")
  /\ \/ \E k \in FetchErrors : Catch(r, k) /\ UNCHANGED <<answer, timer>>
     \/ /\ timer' = [timer EXCEPT ![r] = FALSE]
        /\ Update(r, [step |-> "receipt"]) /\ Go(r, "body") /\ UNCHANGED <<answer, funnel>>
  /\ UNCHANGED <<runId, stage, account, ident, signed, saved, wallet>>

\* The answer to the signed request.
RetryAnswer(r) ==
  /\ Await(r, "retry")
  /\ timer' = [timer EXCEPT ![r] = FALSE]
  /\ \/ \E k \in FetchErrors : Catch(r, k) /\ UNCHANGED answer
     \/ Update(r, [step |-> "receipt"]) /\ Go(r, "body") /\ UNCHANGED <<answer, funnel>>
     \/ \E a \in Refusals \cup AfterPayment \cup Anytime :
          /\ answer' = [answer EXCEPT ![r] = a]
          /\ Go(r, "refusal")
          /\ UNCHANGED <<state, funnel>>
  /\ UNCHANGED <<runId, stage, account, ident, signed, saved, wallet>>
-----------------------------------------------------------------------------
\* The user at the wallet, between any two steps.  The wallet widget resets the
\* identity when the account changes.
WalletChanges ==
  /\ wallet.installed
  /\ \/ \E a \in (Accounts \cup {None}) \ {wallet.account} :
          /\ wallet' = [wallet EXCEPT !.account = a]
          /\ ident' = None
     \/ wallet' = [wallet EXCEPT !.rightChain = ~@] /\ UNCHANGED ident
  /\ UNCHANGED <<runId, state, pc, stage, account, answer, timer, funnel, signed, saved>>
-----------------------------------------------------------------------------
\* A render of state s: useReceiptVerification's effect runs when the receipt is
\* another one; its cleanup cancels the verification before.
Render(s) ==
  /\ shown' = s
  /\ IF s.receipt = shown.receipt
     THEN UNCHANGED <<verifying, effect>>
     ELSE /\ effect' = s.receipt
          /\ verifying' = verifying \cup ({s.receipt} \ {None})

\* Mutant: the results of cancelled verifications are set, too.
VerifiedUncancelled(k) ==
  /\ verifying' = verifying \ {k}
  /\ result' = [key |-> k, state |-> IF k.good THEN "valid" ELSE "invalid"]

\* The return of verifyReceipt.
Verified(k) ==
  /\ verifying' = verifying \ {k}
  /\ result' = IF effect = k
               THEN [key |-> k, state |-> IF k.good THEN "valid" ELSE "invalid"]
               ELSE result

\* Mutant: the result is not compared with the receipt.
BadgeOfAny ==
  IF shown.receipt = None THEN "missing" ELSE result.state

\* What useReceiptVerification returns.
Badge ==
  IF shown.receipt = None THEN "missing"
  ELSE IF result.key # shown.receipt THEN "verifying"
  ELSE result.state

\* Mutant: a run in flight does not disable the button.
MaySubmitAny == input

\* The form's handlers, with the conditions under which their buttons are there.
\* React renders before the next event.
MaySubmit == input /\ ~shown.isRunning
MayReset == shown.summary \notin {None, Empty} \/ shown.error # None

SubmitAllowed == hook = "any" \/ MaySubmit
ResetAllowed == hook = "any" \/ MayReset

Submit == SubmitAllowed /\ StartRun /\ Render(state') /\ UNCHANGED <<input, result>>

Reset ==
  /\ ResetAllowed
  /\ runId <= MaxRuns
  /\ runId' = runId + 1
  /\ state' = INITIAL_STATE
  /\ Render(state')
  /\ UNCHANGED <<input, result, runVars, wallet>>

TypeText == hook = "form" /\ input' = ~input /\ UNCHANGED <<shown, result, verifying, effect>>
-----------------------------------------------------------------------------
Init ==
  /\ hook \in {"form", "any"}
  /\ input = (hook = "any")
  /\ state = INITIAL_STATE /\ shown = INITIAL_STATE
  /\ runId = 0
  /\ pc = [r \in Runs |-> "none"]
  /\ stage = [r \in Runs |-> "request"]
  /\ account = [r \in Runs |-> None]
  /\ answer = [r \in Runs |-> None]
  /\ timer = [r \in Runs |-> FALSE]
  /\ \E installed \in BOOLEAN :
       wallet = [installed |-> installed, account |-> None, rightChain |-> FALSE]
  /\ ident = None
  /\ funnel = [r \in Runs |-> <<>>]
  /\ signed = [r \in Runs |-> 0]
  /\ saved = {}
  /\ result = [key |-> None, state |-> "invalid"]
  /\ verifying = {} /\ effect = None

RunStep(r) ==
  \/ FirstAnswer(r) \/ Refused(r) \/ ReadSuccess(r) \/ Challenge(r) \/ CurrentAccount(r)
  \/ Connect(r) \/ CurrentChain(r) \/ SwitchChain(r) \/ GetSigner(r) \/ SignContext(r)
  \/ SendSigned(r) \/ RetryAnswer(r)

Background == (\E r \in Runs : RunStep(r) \/ AiStep(r)) \/ WalletChanges

Rerender == state # shown /\ Render(state) /\ UNCHANGED <<input, result>>
ReceiptVerified == \E k \in verifying : Verified(k) /\ UNCHANGED <<input, shown, effect>>

Next ==
  \/ Background /\ UNCHANGED <<hook, viewVars>>
  \/ (Submit \/ Reset) /\ UNCHANGED hook
  \/ (TypeText \/ Rerender \/ ReceiptVerified) /\ UNCHANGED <<hook, hookVars, runVars, wallet>>

Spec == Init /\ [][Next]_vars

\* The gateway, the wallet and the user answer what a run awaits, promises that
\* are ready are run, and React renders.  Nothing is assumed of the timer.
Fairness ==
  /\ \A r \in Runs : WF_vars(RunStep(r) /\ UNCHANGED <<hook, viewVars>>)
  /\ WF_vars(Rerender /\ UNCHANGED <<hook, hookVars, runVars, wallet>>)
  /\ WF_vars(ReceiptVerified /\ UNCHANGED <<hook, hookVars, runVars, wallet>>)

FairSpec == Spec /\ Fairness
-----------------------------------------------------------------------------
(* What the form promises.                                                 *)

\* What a run awaits, and the states of the hook.
Awaits == {"first", "refusal", "body", "challenge", "account", "connect", "chain", "switch",
           "recheck", "signer", "sign", "live", "retry"}
States == [step : Steps, summary : Runs \cup {Empty, None}, receipt : Receipts \cup {None},
           error : ErrorKinds \cup {None}, isRunning : BOOLEAN]

Events == {"WalletConnectFailed", "ChainSwitchFailed", "PaymentSignatureFailed",
           "SummaryFailed", "SummaryCompleted"}

\* Types of the variables.
TypeOK ==
  /\ hook \in {"form", "any"}
  /\ state \in States /\ shown \in States
  /\ runId \in 0..(MaxRuns + 1)
  /\ pc \in [Runs -> Awaits \cup {"none", "ended"}]
  /\ stage \in [Runs -> Stages]
  /\ timer \in [Runs -> BOOLEAN]
  /\ funnel \in [Runs -> Seq(Events)]
  /\ signed \in [Runs -> Nat]
  /\ wallet \in [installed : BOOLEAN, account : Accounts \cup {None}, rightChain : BOOLEAN]

Running == {r \in Runs : pc[r] \notin {"none", "ended"}}

\* The summary and the receipt on the page are those of the newest run, whatever
\* older runs return, and the receipt is in the history; the identity of the
\* analytics is never that of an account that has been left.
ResultIsCurrent ==
  /\ state.summary \in {None, Empty, runId}
  /\ state.receipt # None => state.receipt.run = runId /\ state.receipt \in saved
  /\ ident \in {None, wallet.account}

\* A run that has been superseded, by a reset or by a newer submit, no longer
\* changes the page, the identity or the funnel.
StaleRunsSilent ==
  [][\A r \in Runs : (pc'[r] # pc[r] \/ timer'[r] # timer[r]) /\ runId' # r
        => UNCHANGED <<state, ident, funnel>>]_vars

\* Once an error or the result is on the page it stays as it is until the next
\* submit or reset: no timer and no late answer moves the strip of a dead run.
HaltedIsFinal ==
  [][(state.error # None \/ state.step = "done") /\ runId' = runId => UNCHANGED state]_vars

\* Through the form one run is in flight at most, although the handlers see a
\* state that may be older than the hook's.
OneRunThroughForm == hook = "form" => \A q, r \in Running : q = r

\* A run pays at most once, and how it ended is told once and truly: the funnel is
\* closed once if the page has seen the run to its end, as completed just when there
\* is no error, and "You cancelled the signature. No payment was sent." is said only
\* of a run that has sent none.
EndIsTold ==
  /\ \A r \in Runs : signed[r] <= 1 /\ Len(funnel[r]) <= 1
  /\ runId \in Runs /\ pc[runId] = "ended"
       => funnel[runId] # <<>> /\ (funnel[runId] = <<"SummaryCompleted">> <=> state.error = None)
  /\ state.error = "user-rejected" => signed[runId] = 0

\* The badge speaks of the receipt that is shown with it.
BadgeIsOfShownReceipt ==
  /\ Badge = "valid" => shown.receipt.good
  /\ Badge = "invalid" => ~shown.receipt.good

\* The form never keeps saying "Working...", nor the badge "Verifying receipt...".
PageSettles == []<>(~state.isRunning /\ Badge # "verifying")
=============================================================================
