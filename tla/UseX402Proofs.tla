--------------------------- MODULE UseX402Proofs ---------------------------
(***************************************************************************)
(* Proofs about UseX402, for any number of runs.                           *)
(***************************************************************************)
EXTENDS UseX402, TLAPS

\* Where a run has sent no signed request yet.
Unsigned == (Awaits \ {"refusal", "body", "retry"}) \cup {"none"}
-----------------------------------------------------------------------------
(* What an update makes of the state.                                      *)

\* The fields that the five kinds of patches leave and set.
LEMMA PatchError ==
  ASSUME NEW s \in States, NEW k, NEW b
  PROVE  Patched(s, [error |-> k, isRunning |-> b])
           = [step |-> s.step, summary |-> s.summary, receipt |-> s.receipt,
              error |-> k, isRunning |-> b]
  BY DEF Patched, States

\* The state after an error of the model is shown.
LEMMA PatchAiError ==
  ASSUME NEW s \in States, NEW k, NEW b
  PROVE  Patched(s, [step |-> "ai", error |-> k, isRunning |-> b])
           = [step |-> "ai", summary |-> s.summary, receipt |-> s.receipt,
              error |-> k, isRunning |-> b]
  BY DEF Patched, States

\* The state after a result is shown.
LEMMA PatchResult ==
  ASSUME NEW s \in States, NEW m, NEW x, NEW b
  PROVE  Patched(s, [step |-> "done", summary |-> m, receipt |-> x, isRunning |-> b])
           = [step |-> "done", summary |-> m, receipt |-> x,
              error |-> s.error, isRunning |-> b]
  BY DEF Patched, States

\* The state after the next step is shown.
LEMMA PatchStep ==
  ASSUME NEW s \in States, NEW x
  PROVE  Patched(s, [step |-> x])
           = [step |-> x, summary |-> s.summary, receipt |-> s.receipt,
              error |-> s.error, isRunning |-> s.isRunning]
  BY DEF Patched, States

\* The state after a run begins.
LEMMA PatchStart ==
  ASSUME NEW s \in States
  PROVE  Patched(s, [step |-> "request", summary |-> None, receipt |-> None,
                     error |-> None, isRunning |-> TRUE])
           = [step |-> "request", summary |-> None, receipt |-> None,
              error |-> None, isRunning |-> TRUE]
  BY Zenon DEF Patched, States

\* An update of the step, of the error and of the result.
StepSet(r) ==
  /\ runId = r => /\ state' \in States
                  /\ state'.summary = state.summary /\ state'.receipt = state.receipt
                  /\ state'.error = state.error /\ state'.isRunning = state.isRunning
                  /\ state'.step = "done" => state.step = "done"
  /\ runId # r => state' = state

ErrorSet(r, k) ==
  /\ runId = r => /\ state' \in States
                  /\ state'.summary = state.summary /\ state'.receipt = state.receipt
                  /\ state'.error = k /\ ~state'.isRunning
  /\ runId # r => state' = state

ResultSet(r, m, x) ==
  /\ runId = r => /\ state' \in States
                  /\ state'.summary = m /\ state'.receipt = x
                  /\ state'.error = state.error /\ ~state'.isRunning
  /\ runId # r => state' = state

\* An update that moves the step on.
LEMMA UpdateStep ==
  ASSUME NEW r, NEW x \in Steps \ {"done"}, state \in States, Update(r, [step |-> x])
  PROVE  StepSet(r)
<1>1. CASE runId = r
  <2>1. state' = [step |-> x, summary |-> state.summary, receipt |-> state.receipt,
                  error |-> state.error, isRunning |-> state.isRunning]
    BY <1>1, PatchStep, Zenon DEF Update
  <2>2. state' \in States  BY <2>1, Zenon DEF States
  <2>3. state'.isRunning = state.isRunning  BY <2>1, Zenon
  <2>4. /\ state'.summary = state.summary /\ state'.receipt = state.receipt
        /\ state'.error = state.error /\ state'.step # "done"
    BY <2>1, Zenon
  <2> QED  BY <1>1, <2>2, <2>3, <2>4, Zenon DEF StepSet
<1>2. CASE runId # r  BY <1>2, Zenon DEF Update, StepSet
<1> QED  BY <1>1, <1>2, Zenon

\* An update that shows an error.
LEMMA UpdateError ==
  ASSUME NEW r, NEW k \in ErrorKinds, state \in States,
         \/ Update(r, [error |-> k, isRunning |-> FALSE])
         \/ Update(r, [step |-> "ai", error |-> k, isRunning |-> FALSE])
  PROVE  ErrorSet(r, k)
<1>1. CASE runId = r
  <2>1. \E s \in Steps : state' = [step |-> s, summary |-> state.summary,
          receipt |-> state.receipt, error |-> k, isRunning |-> FALSE]
    <3>1. CASE Update(r, [error |-> k, isRunning |-> FALSE])
      <4>1. state' = [step |-> state.step, summary |-> state.summary,
              receipt |-> state.receipt, error |-> k, isRunning |-> FALSE]
        BY <1>1, <3>1, PatchError, Zenon DEF Update
      <4> QED  BY <4>1, Zenon DEF States
    <3>2. CASE Update(r, [step |-> "ai", error |-> k, isRunning |-> FALSE])
      <4>1. state' = [step |-> "ai", summary |-> state.summary,
              receipt |-> state.receipt, error |-> k, isRunning |-> FALSE]
        BY <1>1, <3>2, PatchAiError, Zenon DEF Update
      <4> QED  BY <4>1, Zenon DEF Steps
    <3> QED  BY <3>1, <3>2, Zenon
  <2>2. PICK s \in Steps : state' = [step |-> s, summary |-> state.summary,
          receipt |-> state.receipt, error |-> k, isRunning |-> FALSE]
    BY <2>1, Zenon
  <2>3. state' \in States  BY <2>2, Zenon DEF States
  <2>4. ~state'.isRunning  BY <2>2, Zenon
  <2>5. state'.error = k /\ state'.summary = state.summary /\ state'.receipt = state.receipt
    BY <2>2, Zenon
  <2> QED  BY <1>1, <2>3, <2>4, <2>5, Zenon DEF ErrorSet
<1>2. CASE runId # r  BY <1>2, Zenon DEF Update, ErrorSet
<1> QED  BY <1>1, <1>2, Zenon

\* An update that shows a result.
LEMMA UpdateResult ==
  ASSUME NEW r \in Runs, NEW m \in {r, Empty}, NEW x \in Receipts \cup {None}, state \in States,
         Update(r, [step |-> "done", summary |-> m, receipt |-> x, isRunning |-> FALSE])
  PROVE  ResultSet(r, m, x)
<1>1. CASE runId = r
  <2>1. state' = [step |-> "done", summary |-> m, receipt |-> x,
                  error |-> state.error, isRunning |-> FALSE]
    BY <1>1, PatchResult, ZenonT(120) DEF Update
  <2>2. state' \in States  BY <2>1, Zenon DEF States, Steps
  <2>3. ~state'.isRunning  BY <2>1, Zenon
  <2>4. state'.summary = m /\ state'.receipt = x /\ state'.error = state.error
    BY <2>1, Zenon
  <2> QED  BY <1>1, <2>2, <2>3, <2>4, Zenon DEF ResultSet
<1>2. CASE runId # r  BY <1>2, Zenon DEF Update, ResultSet
<1> QED  BY <1>1, <1>2, Zenon
-----------------------------------------------------------------------------
(* What a step of a run does.                                              *)

PC == Awaits \cup {"none", "ended"}

\* Of every step of run r.
Frame(r) ==
  /\ pc' \in [Runs -> PC] /\ stage' \in [Runs -> Stages]
  /\ timer' \in [Runs -> BOOLEAN] /\ signed' \in [Runs -> Nat]
  /\ wallet' \in [installed : BOOLEAN, account : Accounts \cup {None}, rightChain : BOOLEAN]
  /\ pc[r] \in Awaits /\ runId' = runId
  /\ \A q \in Runs \ {r} : pc'[q] = pc[q] /\ timer'[q] = timer[q] /\ signed'[q] = signed[q]
  /\ timer'[r] => pc'[r] = "retry"
  /\ pc'[r] \in Unsigned => pc[r] \in Unsigned /\ signed'[r] = signed[r]
  /\ signed'[r] = signed[r] \/ (pc[r] = "live" /\ signed'[r] = signed[r] + 1)
  /\ runId # r => ident' = ident
  /\ ident \in {None, wallet.account} => ident' \in {None, wallet'.account}

\* The run goes on, it ends with an error, or with the result.
Going(r) == pc'[r] \in Awaits /\ StepSet(r) /\ UNCHANGED <<funnel, saved>>

Failing(r) ==
  /\ pc'[r] = "ended"
  /\ \E e \in Events \ {"SummaryCompleted"} : Close(r, e)
  /\ \E k \in ErrorKinds : ErrorSet(r, k) /\ (k = "user-rejected" => pc[r] \in Unsigned)
  /\ UNCHANGED <<signed, saved>>

Completing(r) ==
  /\ pc'[r] = "ended"
  /\ Close(r, "SummaryCompleted")
  /\ \E m \in {r, Empty}, x \in {None} \cup {y \in Receipts : y.run = r} :
       ResultSet(r, m, x) /\ saved' = saved \cup ({x} \ {None})

Effect(r) == Frame(r) /\ (Going(r) \/ Failing(r) \/ Completing(r))

\* A catch ends the run with the error that it is given.
LEMMA CatchFails ==
  ASSUME TypeOK, NEW r \in Runs, NEW k \in ErrorKinds, Catch(r, k),
         k = "user-rejected" => pc[r] \in Unsigned, signed' = signed, saved' = saved
  PROVE  Failing(r)
<1>1. pc'[r] = "ended"  BY Zenon DEF Catch, Fail, Go, TypeOK
<1>2. FailureEvent(stage[r]) \in Events \ {"SummaryCompleted"}  BY Zenon DEF FailureEvent, Events
<1>3. Close(r, FailureEvent(stage[r]))  BY Zenon DEF Catch, Fail
<1>4. ErrorSet(r, k)  BY UpdateError, Zenon DEF Catch, Fail, TypeOK
<1> QED  BY <1>1, <1>2, <1>3, <1>4, Zenon DEF Failing

\* An update that is none.
LEMMA SameStep ==
  ASSUME TypeOK, NEW r, state' = state
  PROVE  StepSet(r)
  BY Zenon DEF StepSet, TypeOK

\* Every status has an error, and none is that of a user who refuses.
LEMMA StatusKinds ==
  ASSUME NEW status, NEW code
  PROVE  StatusToKind(status, code) \in ErrorKinds \ {"user-rejected"}
  BY DEF StatusToKind, ErrorKinds

TimersInv == \A r \in Runs : timer[r] => pc[r] = "retry"

\* A step that moves run r to w, in all that Frame says of it.
Move(r, w) ==
  /\ pc[r] \in Awaits /\ w \in Awaits \cup {"ended"} /\ pc' = [pc EXCEPT ![r] = w]
  /\ w \in Unsigned => pc[r] \in Unsigned
  /\ timer' \in [Runs -> BOOLEAN] /\ \A q \in Runs \ {r} : timer'[q] = timer[q]
  /\ timer'[r] => w = "retry"
  /\ signed' \in [Runs -> Nat] /\ \A q \in Runs \ {r} : signed'[q] = signed[q]
  /\ signed'[r] = signed[r] \/ (pc[r] = "live" /\ w = "retry" /\ signed'[r] = signed[r] + 1)
  /\ runId' = runId /\ stage' \in [Runs -> Stages]
  /\ wallet' \in [installed : BOOLEAN, account : Accounts \cup {None}, rightChain : BOOLEAN]
  /\ runId # r => ident' = ident
  /\ ident \in {None, wallet.account} => ident' \in {None, wallet'.account}

\* A run that moves changes nothing of the others.
LEMMA Moved ==
  ASSUME TypeOK, NEW r \in Runs, NEW w, Move(r, w)
  PROVE  Frame(r)
<1>1. pc' \in [Runs -> PC] /\ pc'[r] = w /\ \A q \in Runs \ {r} : pc'[q] = pc[q]
  BY Zenon DEF TypeOK, PC, Move
<1>2. timer'[r] => pc'[r] = "retry"  BY <1>1, Zenon DEF Move
<1>3. pc'[r] \in Unsigned => pc[r] \in Unsigned /\ signed'[r] = signed[r]
  BY <1>1, Zenon DEF Unsigned, Move
<1>4. signed'[r] = signed[r] \/ (pc[r] = "live" /\ signed'[r] = signed[r] + 1)
  BY Zenon DEF Move
<1> QED  BY <1>1, <1>2, <1>3, <1>4, Zenon DEF Frame, Move

\* The same for a step that leaves the timer and the count alone.
LEMMA MovedOnly ==
  ASSUME TypeOK, TimersInv, NEW r \in Runs, pc[r] \in Awaits \ {"retry"},
         NEW w \in Awaits \cup {"ended"}, pc' = [pc EXCEPT ![r] = w],
         w \in Unsigned => pc[r] \in Unsigned,
         UNCHANGED <<runId, timer, signed, ident>>,
         stage' \in [Runs -> Stages],
         wallet' \in [installed : BOOLEAN, account : Accounts \cup {None}, rightChain : BOOLEAN],
         ident \in {None, wallet.account} => ident \in {None, wallet'.account}
  PROVE  Frame(r)
<1>1. /\ timer' \in [Runs -> BOOLEAN] /\ ~timer'[r]
      /\ \A q \in Runs \ {r} : timer'[q] = timer[q]
  BY Zenon DEF TypeOK, TimersInv
<1>2. signed' \in [Runs -> Nat] /\ \A q \in Runs : signed'[q] = signed[q]  BY Zenon DEF TypeOK
<1>3. Move(r, w)  BY <1>1, <1>2, Zenon DEF Move
<1> QED  BY <1>3, Moved, Zenon

\* Nor does any step of a run.
LEMMA StepFrame ==
  ASSUME TypeOK, TimersInv, NEW r \in Runs, RunStep(r) \/ AiStep(r)
  PROVE  Frame(r)
<1> DEFINE W == [installed : BOOLEAN, account : Accounts \cup {None}, rightChain : BOOLEAN]
           Quiet(S) == /\ \E w \in S : pc' = [pc EXCEPT ![r] = w]
                       /\ UNCHANGED <<runId, timer, signed, ident>>
                       /\ stage' \in [Runs -> Stages] /\ wallet' \in W
                       /\ ident \in {None, wallet.account} => ident \in {None, wallet'.account}
<1>0. stage \in [Runs -> Stages] /\ wallet \in W  BY Zenon DEF TypeOK
<1> USE DEF Await, Go, Catch, Fail
<1>1. CASE FirstAnswer(r)
  <2>1. pc[r] = "first" /\ Quiet({"body", "refusal", "challenge", "ended"})
    BY <1>0, <1>1, Zenon DEF FirstAnswer
  <2> QED  BY <2>1, MovedOnly, Zenon DEF Awaits, Unsigned
<1>2. CASE Refused(r)
  <2>1. pc[r] = "refusal" /\ Quiet({"ended"})  BY <1>0, <1>2, Zenon DEF Refused
  <2> QED  BY <2>1, MovedOnly, Zenon DEF Awaits, Unsigned
<1>3. CASE ReadSuccess(r)
  <2>1. pc[r] = "body" /\ Quiet({"ended"})  BY <1>0, <1>3, Zenon DEF ReadSuccess, Stages
  <2> QED  BY <2>1, MovedOnly, Zenon DEF Awaits, Unsigned
<1>4. CASE Challenge(r)
  <2>1. pc[r] = "challenge" /\ Quiet({"account", "ended"})
    BY <1>0, <1>4, Zenon DEF Challenge, Stages
  <2> QED  BY <2>1, MovedOnly, Zenon DEF Awaits, Unsigned
<1>5. CASE CurrentAccount(r)
  <2>1. pc[r] = "account" /\ Quiet({"connect", "chain", "ended"})
    BY <1>0, <1>5, Zenon DEF CurrentAccount, Stages
  <2> QED  BY <2>1, MovedOnly, Zenon DEF Awaits, Unsigned
<1>6. CASE Connect(r)
  <2>1. pc[r] = "connect" /\ Quiet({"chain", "ended"})
    BY <1>0, <1>6, ZenonT(120) DEF Connect, Stages
  <2> QED  BY <2>1, MovedOnly, Zenon DEF Awaits, Unsigned
<1>7. CASE CurrentChain(r)
  <2>1. pc[r] \in {"chain", "recheck"} /\ Quiet({"signer", "switch", "ended"})
    BY <1>0, <1>7, Zenon DEF CurrentChain, Stages
  <2> QED  BY <2>1, MovedOnly, Zenon DEF Awaits, Unsigned
<1>8. CASE SwitchChain(r)
  <2>1. pc[r] = "switch" /\ Quiet({"recheck", "ended"})
    BY <1>0, <1>8, Zenon DEF SwitchChain
  <2> QED  BY <2>1, MovedOnly, Zenon DEF Awaits, Unsigned
<1>9. CASE GetSigner(r)
  <2>1. pc[r] = "signer" /\ Quiet({"sign", "ended"})
    BY <1>0, <1>9, Zenon DEF GetSigner, Stages
  <2> QED  BY <2>1, MovedOnly, Zenon DEF Awaits, Unsigned
<1>10. CASE SignContext(r)
  <2>1. pc[r] = "sign" /\ Quiet({"live", "ended"})
    BY <1>0, <1>10, Zenon DEF SignContext
  <2> QED  BY <2>1, MovedOnly, Zenon DEF Awaits, Unsigned
<1>11. CASE SendSigned(r)
  <2>1. CASE Catch(r, "unknown") /\ UNCHANGED <<stage, timer, ident, signed>>
    <3>1. pc[r] = "live" /\ Quiet({"ended"})  BY <1>0, <1>11, <2>1, Zenon DEF SendSigned
    <3> QED  BY <3>1, MovedOnly, Zenon DEF Awaits, Unsigned
  <2>2. CASE ~(Catch(r, "unknown") /\ UNCHANGED <<stage, timer, ident, signed>>)
    <3>1. /\ pc[r] = "live" /\ runId' = runId /\ wallet' = wallet
          /\ pc' = [pc EXCEPT ![r] = "retry"] /\ timer' = [timer EXCEPT ![r] = TRUE]
          /\ signed' = [signed EXCEPT ![r] = signed[r] + 1]
          /\ stage' = [stage EXCEPT ![r] = "verify"]
          /\ ident' = IF runId = r /\ wallet.account = account[r] THEN account[r] ELSE ident
      BY <1>11, <2>2, Zenon DEF SendSigned
    <3>2. stage' \in [Runs -> Stages] /\ wallet' \in W
      BY <1>0, <3>1, Zenon DEF Stages, TypeOK
    <3>3. timer' \in [Runs -> BOOLEAN] /\ \A q \in Runs \ {r} : timer'[q] = timer[q]
      BY <3>1, Zenon DEF TypeOK
    <3>4. /\ signed' \in [Runs -> Nat] /\ signed'[r] = signed[r] + 1
          /\ \A q \in Runs \ {r} : signed'[q] = signed[q]
      BY <3>1 DEF TypeOK
    <3>5. Move(r, "retry")  BY <3>1, <3>2, <3>3, <3>4, Zenon DEF Move, Awaits, Unsigned
    <3> QED  BY <3>5, Moved, Zenon
  <2> QED  BY <2>1, <2>2, Zenon
<1>12. CASE RetryAnswer(r)
  <2>1. /\ pc[r] = "retry" /\ UNCHANGED <<runId, signed, ident, stage, wallet>>
        /\ timer' = [timer EXCEPT ![r] = FALSE]
        /\ \E w \in {"body", "refusal", "ended"} : pc' = [pc EXCEPT ![r] = w]
    BY <1>12, Zenon DEF RetryAnswer
  <2>2. signed' \in [Runs -> Nat] /\ \A q \in Runs : signed'[q] = signed[q]  BY <2>1, Zenon DEF TypeOK
  <2>3. PICK w \in {"body", "refusal", "ended"} : pc' = [pc EXCEPT ![r] = w]  BY <2>1, Zenon
  <2>4. w \in Awaits \cup {"ended"} /\ w \notin Unsigned /\ pc[r] \in Awaits
    BY <2>1, <2>3, Zenon DEF Awaits, Unsigned
  <2>5. stage' \in [Runs -> Stages] /\ wallet' \in W  BY <1>0, <2>1, Zenon
  <2>6. /\ timer' \in [Runs -> BOOLEAN] /\ ~timer'[r]
        /\ \A q \in Runs \ {r} : timer'[q] = timer[q]
    BY <2>1, Zenon DEF TypeOK
  <2>7. Move(r, w)  BY <2>1, <2>2, <2>3, <2>4, <2>5, <2>6, Zenon DEF Move
  <2> QED  BY <2>7, Moved, Zenon
<1>13. CASE AiStep(r)
  <2>1. /\ pc[r] = "retry" /\ UNCHANGED <<runId, pc, signed, ident, stage, wallet>>
        /\ timer' = [timer EXCEPT ![r] = FALSE]
    BY <1>13, Zenon DEF AiStep, TimersInv
  <2>2. /\ signed' \in [Runs -> Nat] /\ \A q \in Runs : signed'[q] = signed[q]
        /\ pc' = [pc EXCEPT ![r] = "retry"]
    BY <2>1, Zenon DEF TypeOK
  <2>3. "retry" \in Awaits \ Unsigned  BY Zenon DEF Awaits, Unsigned
  <2>4. stage' \in [Runs -> Stages] /\ wallet' \in W  BY <1>0, <2>1, Zenon
  <2>5. /\ timer' \in [Runs -> BOOLEAN] /\ ~timer'[r]
        /\ \A q \in Runs \ {r} : timer'[q] = timer[q]
    BY <2>1, Zenon DEF TypeOK
  <2>6. Move(r, "retry")  BY <2>1, <2>2, <2>3, <2>4, <2>5, Zenon DEF Move
  <2> QED  BY <2>6, Moved, Zenon
<1> QED
  BY <1>1, <1>2, <1>3, <1>4, <1>5, <1>6, <1>7, <1>8, <1>9, <1>10, <1>11, <1>12, <1>13, ZenonT(30)
  DEF RunStep

\* A step of a run is of one of the three kinds.
LEMMA StepKinds ==
  ASSUME TypeOK, TimersInv, NEW r \in Runs, RunStep(r) \/ AiStep(r)
  PROVE  Effect(r)
<1> DEFINE Goes(S) == /\ \E w \in S : pc' = [pc EXCEPT ![r] = w]
                      /\ UNCHANGED <<funnel, saved>>
           Caught(K) == (\E k \in K : Catch(r, k)) /\ UNCHANGED <<signed, saved>>
<1>0. Frame(r)  BY StepFrame, Zenon
<1>a. ASSUME NEW S \in SUBSET Awaits, Goes(S), StepSet(r)
      PROVE  Going(r)
  BY <1>a, Zenon DEF Going, TypeOK
<1>b. ASSUME NEW K \in SUBSET ErrorKinds, Caught(K), "user-rejected" \in K => pc[r] \in Unsigned
      PROVE  Failing(r)
  BY <1>b, CatchFails, Zenon
<1>c. FetchErrors \subseteq ErrorKinds /\ WalletErrors \subseteq ErrorKinds
      /\ {"unknown"} \subseteq ErrorKinds /\ {"wrong-chain"} \subseteq ErrorKinds
      /\ "user-rejected" \notin FetchErrors \cup {"unknown"} \cup {"wrong-chain"}
  BY Zenon DEF FetchErrors, WalletErrors, ErrorKinds
<1>d. ASSUME NEW x \in Steps \ {"done"}, Update(r, [step |-> x])
      PROVE  StepSet(r)
  BY <1>d, UpdateStep, Zenon DEF TypeOK
<1> USE DEF Await, Go
<1>1. CASE FirstAnswer(r)
  <2>1. \/ Caught(FetchErrors)
        \/ /\ Goes({"body", "refusal", "challenge"})
           /\ \/ Update(r, [step |-> "receipt"]) \/ Update(r, [step |-> "challenge"])
              \/ state' = state
    BY <1>1, Zenon DEF FirstAnswer
  <2>2. {"body", "refusal", "challenge"} \in SUBSET Awaits
        /\ {"receipt", "challenge"} \subseteq Steps \ {"done"}
    BY Zenon DEF Awaits, Steps
  <2>3. CASE Caught(FetchErrors)  BY <1>0, <1>b, <1>c, <2>3, Zenon DEF Effect
  <2>4. CASE ~Caught(FetchErrors)
    <3>1. Goes({"body", "refusal", "challenge"})  BY <2>1, <2>4, Zenon
    <3>2. StepSet(r)  BY <1>d, <2>1, <2>2, <2>4, SameStep, Zenon
    <3>3. Going(r)  BY <1>a, <2>2, <3>1, <3>2, Zenon
    <3> QED  BY <1>0, <3>3, Zenon DEF Effect
  <2> QED  BY <2>3, <2>4, Zenon
<1>2. CASE Refused(r)
  <2>1. PICK code \in SafeText(r) :
          LET kind == StatusToKind(answer[r][1], code)
          IN  /\ Close(r, "SummaryFailed") /\ pc' = [pc EXCEPT ![r] = "ended"]
              /\ \/ Update(r, [error |-> kind, isRunning |-> FALSE])
                 \/ Update(r, [step |-> "ai", error |-> kind, isRunning |-> FALSE])
    BY <1>2, Zenon DEF Refused, Fail
  <2>2. StatusToKind(answer[r][1], code) \in ErrorKinds \ {"user-rejected"}  BY StatusKinds, Zenon
  <2>3. ErrorSet(r, StatusToKind(answer[r][1], code))  BY <2>1, <2>2, UpdateError, Zenon DEF TypeOK
  <2>4. UNCHANGED <<signed, saved>>  BY <1>2, ZenonT(30) DEF Refused
  <2>5. pc'[r] = "ended" /\ "SummaryFailed" \in Events \ {"SummaryCompleted"}
    BY <2>1, ZenonT(30) DEF TypeOK, Events
  <2>6. Failing(r)  BY <2>1, <2>2, <2>3, <2>4, <2>5, ZenonT(30) DEF Failing
  <2> QED  BY <1>0, <2>6, Zenon DEF Effect
<1>3. CASE ReadSuccess(r)
  <2>1. CASE Caught(FetchErrors)  BY <1>0, <1>b, <1>c, <2>1, Zenon DEF Effect
  <2>2. CASE ~Caught(FetchErrors)
    <3>1. PICK success \in ReadSummarizeSuccess(r) :
            /\ saved' = saved \cup ({success.receipt} \ {None})
            /\ Close(r, "SummaryCompleted")
            /\ Update(r, [step |-> "done", summary |-> success.summary,
                          receipt |-> success.receipt, isRunning |-> FALSE])
            /\ pc' = [pc EXCEPT ![r] = "ended"]
      BY <1>3, <2>2, Zenon DEF ReadSuccess
    <3>2. /\ success.summary \in {r, Empty}
          /\ success.receipt \in {None} \cup {y \in Receipts : y.run = r}
      BY Zenon DEF ReadSummarizeSuccess
    <3>3. ResultSet(r, success.summary, success.receipt)
      BY <3>1, <3>2, UpdateResult, Zenon DEF TypeOK
    <3>4. pc'[r] = "ended"  BY <3>1, ZenonT(30) DEF TypeOK
    <3>5. Completing(r)  BY <3>1, <3>2, <3>3, <3>4, ZenonT(30) DEF Completing
    <3> QED  BY <1>0, <3>5, ZenonT(30) DEF Effect
  <2> QED  BY <2>1, <2>2, Zenon
<1>4. CASE Challenge(r)
  <2>1. CASE Caught(FetchErrors)  BY <1>0, <1>b, <1>c, <2>1, Zenon DEF Effect
  <2>2. CASE Fail(r, "WalletConnectFailed", [error |-> "no-wallet", isRunning |-> FALSE])
    <3>1. /\ "no-wallet" \in ErrorKinds \ {"user-rejected"}
          /\ "WalletConnectFailed" \in Events \ {"SummaryCompleted"}
      BY Zenon DEF ErrorKinds, Events
    <3>2. ErrorSet(r, "no-wallet")  BY <2>2, <3>1, UpdateError, Zenon DEF Fail, TypeOK
    <3>3. pc'[r] = "ended" /\ Close(r, "WalletConnectFailed")  BY <2>2, Zenon DEF Fail, TypeOK
    <3>4. UNCHANGED <<signed, saved>>  BY <1>4, ZenonT(30) DEF Challenge
    <3>5. Failing(r)  BY <3>1, <3>2, <3>3, <3>4, Zenon DEF Failing
    <3> QED  BY <1>0, <3>5, Zenon DEF Effect
  <2>3. CASE Goes({"account"}) /\ state' = state
    BY <1>0, <1>a, <2>3, SameStep, Zenon DEF Effect, Awaits
  <2> QED  BY <1>4, <2>1, <2>2, <2>3, ZenonT(30) DEF Challenge
<1>5. CASE CurrentAccount(r)
  <2>1. Caught({"unknown"}) \/ (Goes({"connect", "chain"}) /\ state' = state)
    BY <1>5, Zenon DEF CurrentAccount
  <2> QED  BY <1>0, <1>a, <1>b, <1>c, <2>1, SameStep, Zenon DEF Effect, Awaits
<1>6. CASE Connect(r)
  <2>1. Caught(WalletErrors) \/ (Goes({"chain"}) /\ state' = state)
    BY <1>6, Zenon DEF Connect
  <2>2. pc[r] \in Unsigned  BY <1>6, Zenon DEF Connect, Unsigned, Awaits
  <2> QED  BY <1>0, <1>a, <1>b, <1>c, <2>1, <2>2, SameStep, Zenon DEF Effect, Awaits
<1>7. CASE CurrentChain(r)
  <2>1. Caught({"unknown"}) \/ Caught({"wrong-chain"})
        \/ (Goes({"signer", "switch"}) /\ state' = state)
    BY <1>7, Zenon DEF CurrentChain
  <2> QED  BY <1>0, <1>a, <1>b, <1>c, <2>1, SameStep, Zenon DEF Effect, Awaits
<1>8. CASE SwitchChain(r)
  <2>1. Caught(WalletErrors) \/ (Goes({"recheck"}) /\ state' = state)
    BY <1>8, Zenon DEF SwitchChain
  <2>2. pc[r] \in Unsigned  BY <1>8, Zenon DEF SwitchChain, Unsigned, Awaits
  <2> QED  BY <1>0, <1>a, <1>b, <1>c, <2>1, <2>2, SameStep, Zenon DEF Effect, Awaits
<1>9. CASE GetSigner(r)
  <2>1. Caught({"unknown"}) \/ (Goes({"sign"}) /\ Update(r, [step |-> "sign"]))
    BY <1>9, Zenon DEF GetSigner
  <2> QED  BY <1>0, <1>a, <1>b, <1>c, <1>d, <2>1, Zenon DEF Effect, Awaits, Steps
<1>10. CASE SignContext(r)
  <2>1. Caught(WalletErrors) \/ (Goes({"live"}) /\ state' = state)
    BY <1>10, Zenon DEF SignContext
  <2>2. pc[r] \in Unsigned  BY <1>10, Zenon DEF SignContext, Unsigned, Awaits
  <2> QED  BY <1>0, <1>a, <1>b, <1>c, <2>1, <2>2, SameStep, Zenon DEF Effect, Awaits
<1>11. CASE SendSigned(r)
  <2>1. Caught({"unknown"}) \/ (Goes({"retry"}) /\ Update(r, [step |-> "verify"]))
    BY <1>11, Zenon DEF SendSigned
  <2> QED  BY <1>0, <1>a, <1>b, <1>c, <1>d, <2>1, Zenon DEF Effect, Awaits, Steps
<1>12. CASE RetryAnswer(r)
  <2>1. Caught(FetchErrors)
        \/ (Goes({"body", "refusal"}) /\ (Update(r, [step |-> "receipt"]) \/ state' = state))
    BY <1>12, Zenon DEF RetryAnswer
  <2> QED  BY <1>0, <1>a, <1>b, <1>c, <1>d, <2>1, SameStep, Zenon DEF Effect, Awaits, Steps
<1>13. CASE AiStep(r)
  <2>1. Update(r, [step |-> "ai"]) /\ UNCHANGED <<pc, funnel, saved>>  BY <1>13, Zenon DEF AiStep
  <2>2. StepSet(r)  BY <1>d, <2>1, ZenonT(30) DEF Steps
  <2>3. pc'[r] \in Awaits  BY <1>0, <2>1, ZenonT(30) DEF Frame
  <2> QED  BY <1>0, <2>1, <2>2, <2>3, ZenonT(30) DEF Effect, Going
<1> QED
  BY <1>1, <1>2, <1>3, <1>4, <1>5, <1>6, <1>7, <1>8, <1>9, <1>10, <1>11, <1>12, <1>13, Zenon
  DEF RunStep
-----------------------------------------------------------------------------
(* The inductive invariant.                                                *)

\* Of every run: the ones to come have not begun, the timer belongs to the signed
\* request, the funnel is open until the end, and a request is signed once.
RunsInv ==
  \A r \in Runs :
    /\ r > runId => pc[r] = "none"
    /\ timer[r] => pc[r] = "retry"
    /\ pc[r] # "ended" => funnel[r] = <<>>
    /\ Len(funnel[r]) <= 1
    /\ pc[r] \in Unsigned => signed[r] = 0
    /\ signed[r] <= 1

\* Of the newest run: what the state says of it while it runs, once it has ended and
\* when there is none.
CurrentInv ==
  /\ state.isRunning => state.error = None /\ state.summary = None
  /\ runId \in Runs /\ pc[runId] \in Awaits
       => state.isRunning /\ state.error = None /\ state.step # "done"
  /\ runId \in Runs /\ pc[runId] = "ended"
       => funnel[runId] # <<>> /\ (funnel[runId] = <<"SummaryCompleted">> <=> state.error = None)
  /\ (runId \in Runs => pc[runId] = "none") => state.error = None /\ state.step # "done"
  /\ state.error = "user-rejected" => signed[runId] = 0
  /\ ResultIsCurrent

\* Of the page: a run that the form has started is one that it shows.
ViewInv ==
  /\ shown.isRunning => shown.error = None /\ shown.summary = None
  /\ hook = "form" => \A r \in Runs : pc[r] \in Awaits => r = runId /\ shown.isRunning

\* Of the badge: a result is that of the receipt that it is kept with.
ResultInv == result.key # None => result.state = IF result.key.good THEN "valid" ELSE "invalid"

IInv == TypeOK /\ RunsInv /\ CurrentInv /\ ViewInv /\ ResultInv

\* A run that closes its funnel has the one event in it.
LEMMA Closed ==
  ASSUME TypeOK, RunsInv, NEW r \in Runs, pc[r] \in Awaits, NEW e \in Events, Close(r, e)
  PROVE  /\ funnel' \in [Runs -> Seq(Events)]
         /\ \A q \in Runs \ {r} : funnel'[q] = funnel[q]
         /\ runId = r => funnel'[r] = <<e>>
         /\ runId # r => funnel' = funnel
<1>1. funnel[r] = <<>>  BY Zenon DEF RunsInv, Awaits
<1>2. Append(funnel[r], e) = <<e>>  BY <1>1
<1>3. <<e>> \in Seq(Events)  OBVIOUS
<1> QED  BY <1>2, <1>3, Zenon DEF Close, TypeOK

\* An effect of a run keeps the types.
LEMMA EffectTypes ==
  ASSUME TypeOK, RunsInv, NEW r \in Runs, Effect(r), UNCHANGED <<hook, shown>>
  PROVE  TypeOK'
<1>1. state' \in States
  BY Zenon DEF TypeOK, Effect, Going, Failing, Completing, StepSet, ErrorSet, ResultSet
<1>2. funnel' \in [Runs -> Seq(Events)]
  <2>1. CASE Going(r)  BY <2>1, ZenonT(30) DEF Going, TypeOK
  <2>2. CASE Failing(r)  BY <2>2, Closed, ZenonT(30) DEF Failing, Effect, Frame
  <2>3. CASE Completing(r)
    BY <2>3, Closed, ZenonT(30) DEF Completing, Effect, Frame, Events
  <2> QED  BY <2>1, <2>2, <2>3, Zenon DEF Effect
<1> QED  BY <1>1, <1>2, ZenonT(30) DEF TypeOK, Effect, Frame, PC

\* It keeps the invariant of the runs.
LEMMA EffectRuns ==
  ASSUME TypeOK, RunsInv, NEW r \in Runs, Effect(r)
  PROVE  RunsInv'
<1>0. Frame(r)  BY ZenonT(30) DEF Effect
<1>1. runId' = runId /\ pc[r] # "none" /\ r <= runId
  <2>1. runId' = runId /\ pc[r] \in Awaits  BY <1>0, Zenon DEF Frame
  <2>2. pc[r] # "none"  BY <2>1, Zenon DEF Awaits
  <2>3. runId \in Nat /\ r \in Nat  BY DEF TypeOK, Runs
  <2>4. ~(r > runId)  BY <2>2, Zenon DEF RunsInv
  <2> QED  BY <2>1, <2>2, <2>3, <2>4
<1>2. ASSUME NEW q \in Runs \ {r}
      PROVE  /\ pc'[q] = pc[q] /\ timer'[q] = timer[q] /\ signed'[q] = signed[q]
             /\ funnel'[q] = funnel[q]
  <2>1. funnel'[q] = funnel[q]
    BY <1>0, Closed, ZenonT(120) DEF Effect, Frame, Going, Failing, Completing, Events
  <2> QED  BY <1>0, <2>1, Zenon DEF Frame
<1>3. timer'[r] => pc'[r] = "retry"  BY <1>0, Zenon DEF Frame
<1>4. (pc'[r] # "ended" => funnel'[r] = <<>>) /\ Len(funnel'[r]) <= 1
  <2>0. funnel[r] = <<>>  BY <1>0, Zenon DEF Frame, RunsInv, Awaits
  <2>1. CASE Going(r)  BY <2>0, <2>1 DEF Going
  <2>2. ASSUME NEW e \in Events, Close(r, e), pc'[r] = "ended"
        PROVE  Len(funnel'[r]) <= 1
    <3>1. funnel'[r] = <<e>> \/ funnel'[r] = <<>>  BY <1>0, <2>0, <2>2, Closed, Zenon DEF Frame
    <3>2. CASE funnel'[r] = <<e>>  BY <3>2
    <3>3. CASE funnel'[r] = <<>>  BY <3>3
    <3> QED  BY <3>1, <3>2, <3>3, ZenonT(30)
  <2>3. CASE Failing(r)  BY <2>2, <2>3, ZenonT(30) DEF Failing
  <2>4. CASE Completing(r)  BY <2>2, <2>4, ZenonT(30) DEF Completing, Events
  <2> QED  BY <2>1, <2>3, <2>4, ZenonT(30) DEF Effect
<1>5. (pc'[r] \in Unsigned => signed'[r] = 0) /\ signed'[r] <= 1
  <2>1. pc'[r] \in Unsigned => signed'[r] = 0  BY <1>0, Zenon DEF Frame, RunsInv
  <2>2. signed[r] \in Nat /\ signed[r] <= 1 /\ (pc[r] = "live" => signed[r] = 0)
    BY Zenon DEF RunsInv, Unsigned, Awaits, TypeOK
  <2>3. signed'[r] <= 1  BY <1>0, <2>2 DEF Frame
  <2> QED  BY <2>1, <2>3, ZenonT(30)
<1>6. ASSUME NEW q \in Runs
      PROVE  /\ q > runId' => pc'[q] = "none"
             /\ timer'[q] => pc'[q] = "retry"
             /\ pc'[q] # "ended" => funnel'[q] = <<>>
             /\ Len(funnel'[q]) <= 1
             /\ pc'[q] \in Unsigned => signed'[q] = 0
             /\ signed'[q] <= 1
  <2>1. CASE q = r
    <3>1. ~(r > runId')  BY <1>1, ZenonT(30) DEF Runs, TypeOK, RunsInv
    <3> QED  BY <1>3, <1>4, <1>5, <2>1, <3>1, ZenonT(30)
  <2>2. CASE q # r  BY <1>1, <1>2, <2>2, Zenon DEF RunsInv
  <2> QED  BY <2>1, <2>2, ZenonT(30)
<1> QED  BY <1>6, Zenon DEF RunsInv

\* It keeps the invariant of the current run.
LEMMA EffectCurrent ==
  ASSUME TypeOK, RunsInv, CurrentInv, NEW r \in Runs, Effect(r)
  PROVE  CurrentInv'
<1>0. Frame(r) /\ pc[r] \in Awaits /\ runId' = runId  BY ZenonT(30) DEF Effect, Frame
<1>1. ident' \in {None, wallet'.account}  BY <1>0, Zenon DEF Frame, CurrentInv, ResultIsCurrent
<1>2. saved \subseteq saved'  BY ZenonT(30) DEF Effect, Going, Failing, Completing
<1>3. CASE runId # r
  <2>1. state' = state
    BY <1>3, ZenonT(30) DEF Effect, Going, Failing, Completing, StepSet, ErrorSet, ResultSet
  <2>2. funnel' = funnel
    BY <1>0, <1>3, Closed, ZenonT(30) DEF Effect, Going, Failing, Completing, Events
  <2>3. runId \in Runs => pc'[runId] = pc[runId] /\ signed'[runId] = signed[runId]
    BY <1>0, <1>3, ZenonT(30) DEF Frame
  <2>4. ResultIsCurrent'
    BY <1>0, <1>1, <1>2, <2>1, ZenonT(30) DEF CurrentInv, ResultIsCurrent
  <2>5. state.error = "user-rejected" => runId \in Runs
    BY NoneAssumption, Zenon DEF CurrentInv, ErrorKinds
  <2> QED  BY <1>0, <2>1, <2>2, <2>3, <2>4, <2>5, ZenonT(30) DEF CurrentInv
<1>4. CASE runId = r
  <2>0. /\ state.isRunning /\ state.error = None /\ state.summary = None /\ state.step # "done"
        /\ runId \in Runs
    BY <1>0, <1>4, ZenonT(30) DEF CurrentInv
  <2>1. CASE Going(r)
    <3>1. /\ state'.summary = None /\ state'.receipt = state.receipt
          /\ state'.error = None /\ state'.isRunning /\ state'.step # "done"
          /\ pc'[runId] \in Awaits
      BY <1>4, <2>0, <2>1, ZenonT(40) DEF Going, StepSet
    <3>2. ResultIsCurrent'
      BY <1>0, <1>1, <1>2, <3>1, Zenon DEF CurrentInv, ResultIsCurrent
    <3>3. None # "user-rejected" /\ {"none", "ended"} \cap Awaits = {}
      BY NoneAssumption, ZenonT(30) DEF ErrorKinds, Awaits
    <3> QED  BY <1>0, <2>0, <3>1, <3>2, <3>3, Zenon DEF CurrentInv
  <2>2. CASE Failing(r)
    <3>1. PICK k \in ErrorKinds : ErrorSet(r, k) /\ (k = "user-rejected" => pc[r] \in Unsigned)
      BY <2>2, Zenon DEF Failing
    <3>2. /\ state'.summary = None /\ state'.receipt = state.receipt
          /\ state'.error = k /\ ~state'.isRunning /\ k # None
      BY <1>4, <2>0, <3>1, NoneAssumption, ZenonT(30) DEF ErrorSet
    <3>3. pc'[runId] = "ended" /\ signed' = signed  BY <1>4, <2>2, ZenonT(30) DEF Failing
    <3>4. PICK e \in Events \ {"SummaryCompleted"} : Close(r, e)  BY <2>2, Zenon DEF Failing
    <3>5. funnel'[runId] = <<e>>  BY <1>0, <1>4, <3>4, Closed, ZenonT(30)
    <3>6. funnel'[runId] # <<>> /\ funnel'[runId] # <<"SummaryCompleted">>  BY <3>4, <3>5
    <3>7. ResultIsCurrent'
      BY <1>0, <1>1, <1>2, <3>2, ZenonT(30) DEF CurrentInv, ResultIsCurrent
    <3>8. k = "user-rejected" => signed'[runId] = 0  BY <1>4, <3>1, <3>3, Zenon DEF RunsInv
    <3>9. "ended" \notin Awaits  BY ZenonT(30) DEF Awaits
    <3> QED  BY <1>0, <2>0, <3>2, <3>3, <3>6, <3>7, <3>8, <3>9, ZenonT(30) DEF CurrentInv
  <2>3. CASE Completing(r)
    <3>1. PICK m \in {r, Empty}, x \in {None} \cup {y \in Receipts : y.run = r} :
            ResultSet(r, m, x) /\ saved' = saved \cup ({x} \ {None})
      BY <2>3, ZenonT(30) DEF Completing
    <3>2. /\ state'.summary = m /\ state'.receipt = x
          /\ state'.error = None /\ ~state'.isRunning
      BY <1>4, <2>0, <3>1, Zenon DEF ResultSet
    <3>3. pc'[runId] = "ended" /\ Close(r, "SummaryCompleted")  BY <1>4, <2>3, ZenonT(30) DEF Completing
    <3>4. funnel'[runId] = <<"SummaryCompleted">>
      BY <1>0, <1>4, <3>3, Closed, Zenon DEF Events
    <3>5. funnel'[runId] # <<>>  BY <3>4
    <3>6. ResultIsCurrent'
      BY <1>0, <1>1, <1>4, <3>1, <3>2, Zenon DEF ResultIsCurrent
    <3>7. None # "user-rejected" /\ "ended" \notin Awaits  BY NoneAssumption, Zenon DEF ErrorKinds, Awaits
    <3> QED  BY <1>0, <2>0, <3>2, <3>3, <3>4, <3>5, <3>6, <3>7, ZenonT(30) DEF CurrentInv
  <2> QED  BY <2>1, <2>2, <2>3, Zenon DEF Effect
<1> QED  BY <1>3, <1>4, ZenonT(30)

\* It keeps the invariant of what is shown.
LEMMA EffectView ==
  ASSUME TypeOK, ViewInv, NEW r \in Runs, Effect(r), UNCHANGED <<hook, shown>>
  PROVE  ViewInv'
<1>1. /\ pc[r] \in Awaits /\ runId' = runId
      /\ \A q \in Runs : pc'[q] \in Awaits => pc[q] \in Awaits
  BY Zenon DEF Effect, Frame
<1> QED  BY <1>1, ZenonT(30) DEF ViewInv

\* A submit begins the newest run.
LEMMA SubmitInv ==
  ASSUME IInv, Submit, hook' = hook
  PROVE  IInv'
<1> DEFINE n == runId + 1
<1>0. /\ n \in Runs /\ runId' = n /\ pc' = [pc EXCEPT ![n] = "first"]
      /\ UNCHANGED <<stage, timer, ident, funnel, signed, saved, wallet, result>>
      /\ shown' = state'
  BY ZenonT(30) DEF Submit, StartRun, Go, Render
<1>1. state' = [step |-> "request", summary |-> None, receipt |-> None,
                error |-> None, isRunning |-> TRUE]
  BY PatchStart, Zenon DEF Submit, StartRun, IInv, TypeOK
<1>2. /\ state'.error = None /\ state'.summary = None /\ state'.receipt = None
      /\ state'.step # "done"
  BY <1>1, Zenon
<1>3. state'.isRunning  BY <1>1, ZenonT(30)
<1>4. state' \in States  BY <1>1, ZenonT(30) DEF States, Steps
<1>5. /\ pc' \in [Runs -> PC] /\ pc'[n] = "first"
      /\ \A q \in Runs \ {n} : pc'[q] = pc[q]
  BY <1>0, ZenonT(30) DEF IInv, TypeOK, PC, Awaits
<1>6. runId \in Nat /\ n > runId /\ n <= MaxRuns + 1 /\ n \in Nat
  BY <1>0, RunsAssumption DEF IInv, TypeOK, Runs
<1>7. pc[n] = "none"  BY <1>0, <1>6, ZenonT(30) DEF IInv, RunsInv
<1>8. funnel[n] = <<>> /\ signed[n] = 0 /\ ~timer[n]
  BY <1>0, <1>7, ZenonT(30) DEF IInv, RunsInv, Unsigned
<1>9. TypeOK'  BY <1>0, <1>4, <1>5, <1>6, RunsAssumption DEF IInv, TypeOK, PC
<1>10. RunsInv'
  <2>1. ASSUME NEW q \in Runs
        PROVE  /\ q > runId' => pc'[q] = "none"
               /\ timer'[q] => pc'[q] = "retry"
               /\ pc'[q] # "ended" => funnel'[q] = <<>>
               /\ Len(funnel'[q]) <= 1
               /\ pc'[q] \in Unsigned => signed'[q] = 0
               /\ signed'[q] <= 1
    <3>1. CASE q = n  BY <1>0, <1>5, <1>6, <1>8, <3>1, SMTT(40)
    <3>2. CASE q # n
      <4>1. q > n => q > runId  BY <1>6 DEF Runs
      <4> QED  BY <1>0, <1>5, <3>2, <4>1, Zenon DEF IInv, RunsInv
    <3> QED  BY <3>1, <3>2, ZenonT(30)
  <2> QED  BY <2>1, ZenonT(30) DEF RunsInv
<1>11. CurrentInv'
  <2>1. ResultIsCurrent'  BY <1>0, <1>2, Zenon DEF IInv, CurrentInv, ResultIsCurrent
  <2>2. None # "user-rejected"  BY NoneAssumption, ZenonT(30) DEF ErrorKinds
  <2> QED  BY <1>0, <1>2, <1>3, <1>5, <2>1, <2>2, ZenonT(30) DEF CurrentInv, Awaits
<1>12. ViewInv'
  <2>1. hook = "form" => \A q \in Runs : pc[q] \notin Awaits
    BY Zenon DEF IInv, ViewInv, Submit, SubmitAllowed, MaySubmit
  <2> QED  BY <1>0, <1>2, <1>3, <1>5, <2>1, ZenonT(30) DEF ViewInv
<1>13. ResultInv'  BY <1>0, ZenonT(30) DEF IInv, ResultInv
<1> QED  BY <1>9, <1>10, <1>11, <1>12, <1>13, ZenonT(30) DEF IInv

\* A reset leaves no run that the page follows.
LEMMA ResetInv ==
  ASSUME IInv, Reset, hook' = hook
  PROVE  IInv'
<1>0. /\ runId' = runId + 1 /\ runId <= MaxRuns /\ state' = INITIAL_STATE /\ shown' = state'
      /\ UNCHANGED <<pc, stage, timer, ident, funnel, signed, saved, wallet, result>>
  BY ZenonT(30) DEF Reset, Render, runVars
<1>1. /\ state'.error = None /\ state'.summary = None /\ state'.receipt = None
      /\ state'.step = "idle"
  BY <1>0, Zenon DEF INITIAL_STATE
<1>2. ~state'.isRunning  BY <1>0, ZenonT(30) DEF INITIAL_STATE
<1>3. state' \in States  BY <1>0, ZenonT(30) DEF INITIAL_STATE, States, Steps
<1>4. runId \in Nat /\ runId' \in 0..(MaxRuns + 1) /\ runId' > runId
  BY <1>0, RunsAssumption DEF IInv, TypeOK
<1>5. runId' \in Runs => pc[runId'] = "none"  BY <1>4, ZenonT(30) DEF IInv, RunsInv
<1>6. TypeOK'  BY <1>0, <1>3, <1>4, ZenonT(30) DEF IInv, TypeOK
<1>7. RunsInv'
  <2>1. \A q \in Runs : q > runId' => q > runId  BY <1>4 DEF Runs
  <2> QED  BY <1>0, <2>1, Zenon DEF IInv, RunsInv
<1>8. CurrentInv'
  <2>1. ResultIsCurrent'  BY <1>0, <1>1, ZenonT(30) DEF IInv, CurrentInv, ResultIsCurrent
  <2>2. None # "user-rejected"  BY NoneAssumption, Zenon DEF ErrorKinds
  <2> QED  BY <1>0, <1>1, <1>2, <1>5, <2>1, <2>2, ZenonT(30) DEF CurrentInv, Awaits
<1>9. ViewInv'
  <2>1. hook = "form" => ~shown.isRunning
    BY ZenonT(30) DEF IInv, ViewInv, Reset, ResetAllowed, MayReset
  <2> QED  BY <1>0, <1>2, <2>1, ZenonT(30) DEF IInv, ViewInv
<1>10. ResultInv'  BY <1>0, Zenon DEF IInv, ResultInv
<1> QED  BY <1>6, <1>7, <1>8, <1>9, <1>10, Zenon DEF IInv

\* The invariant holds initially.
LEMMA InitInv == Init => IInv
<1> SUFFICES ASSUME Init PROVE IInv  BY Zenon
<1>1. INITIAL_STATE \in States  BY ZenonT(30) DEF INITIAL_STATE, States, Steps
<1>2. TypeOK  BY <1>1, RunsAssumption, SMTT(40) DEF Init, TypeOK, Stages
<1>3. RunsInv
  <2>1. Len(<<>>) = 0  BY ZenonT(30)
  <2> QED  BY <2>1 DEF Init, RunsInv
<1>4. /\ state.error = None /\ state.summary = None /\ state.receipt = None /\ state.step = "idle"
      /\ shown = state
  BY ZenonT(30) DEF Init, INITIAL_STATE
<1>5. ~state.isRunning  BY ZenonT(30) DEF Init, INITIAL_STATE
<1>6. CurrentInv
  <2>1. runId \notin Runs  BY DEF Init, Runs
  <2>2. None # "user-rejected"  BY NoneAssumption, ZenonT(30) DEF ErrorKinds
  <2> QED  BY <1>4, <1>5, <2>1, <2>2, ZenonT(30) DEF Init, CurrentInv, ResultIsCurrent
<1>7. ViewInv  BY <1>4, <1>5, ZenonT(30) DEF Init, ViewInv, Awaits
<1>8. ResultInv  BY Zenon DEF Init, ResultInv
<1> QED  BY <1>2, <1>3, <1>6, <1>7, <1>8, Zenon DEF IInv

\* The user at the wallet: an identity does not outlive its account.
LEMMA WalletInv ==
  ASSUME IInv, WalletChanges, UNCHANGED <<hook, viewVars>>
  PROVE  IInv'
<1>0. UNCHANGED <<hook, shown, result, runId, state, pc, stage, timer, funnel, signed, saved>>
  BY Zenon DEF WalletChanges, viewVars
<1>1. /\ wallet' \in [installed : BOOLEAN, account : Accounts \cup {None}, rightChain : BOOLEAN]
      /\ ident' \in {None, wallet'.account}
  BY ZenonT(40) DEF IInv, TypeOK, CurrentInv, ResultIsCurrent, WalletChanges
<1>2. TypeOK'  BY <1>0, <1>1, ZenonT(30) DEF IInv, TypeOK
<1>3. RunsInv' /\ ViewInv' /\ ResultInv'
  BY <1>0, ZenonT(30) DEF IInv, RunsInv, ViewInv, ResultInv
<1>4. CurrentInv'  BY <1>0, <1>1, ZenonT(30) DEF IInv, CurrentInv, ResultIsCurrent
<1> QED  BY <1>2, <1>3, <1>4, Zenon DEF IInv

\* The page: typing, a render, the end of a verification.
LEMMA PageInv ==
  ASSUME IInv, TypeText \/ Rerender \/ ReceiptVerified,
         UNCHANGED <<hook, hookVars, runVars, wallet>>
  PROVE  IInv'
<1>0. UNCHANGED <<hook, runId, state, pc, stage, timer, ident, funnel, signed, saved, wallet>>
  BY ZenonT(30) DEF hookVars, runVars
<1>1. RunsInv' /\ CurrentInv'
  BY <1>0, ZenonT(30) DEF IInv, RunsInv, CurrentInv, ResultIsCurrent
<1>2. shown' \in {shown, state}
  BY ZenonT(30) DEF TypeText, Rerender, Render, ReceiptVerified
<1>3. TypeOK'  BY <1>0, <1>2, Zenon DEF IInv, TypeOK
<1>4. ViewInv'
  <2>1. CASE shown' = shown  BY <1>0, <2>1, Zenon DEF IInv, ViewInv
  <2>2. CASE shown' = state
    <3>1. shown'.isRunning => shown'.error = None /\ shown'.summary = None
      BY <2>2, ZenonT(30) DEF IInv, CurrentInv
    <3>2. ASSUME hook = "form", NEW q \in Runs, pc[q] \in Awaits
          PROVE  q = runId /\ shown'.isRunning
      BY <2>2, <3>2, ZenonT(30) DEF IInv, ViewInv, CurrentInv
    <3> QED  BY <1>0, <3>1, <3>2, ZenonT(30) DEF ViewInv
  <2> QED  BY <1>2, <2>1, <2>2, ZenonT(30)
<1>5. ResultInv'
  <2>1. result' = result \/ \E k : result' = [key |-> k, state |-> IF k.good THEN "valid" ELSE "invalid"]
    BY Zenon DEF TypeText, Rerender, ReceiptVerified, Verified
  <2> QED  BY <2>1 DEF IInv, ResultInv
<1> QED  BY <1>1, <1>3, <1>4, <1>5, Zenon DEF IInv

\* Every step keeps it.
LEMMA NextInv == IInv /\ [Next]_vars => IInv'
<1> SUFFICES ASSUME IInv, [Next]_vars PROVE IInv'  BY Zenon
<1>1. CASE Background /\ UNCHANGED <<hook, viewVars>>
  <2>1. ASSUME NEW r \in Runs, RunStep(r) \/ AiStep(r)
        PROVE  IInv'
    <3>1. UNCHANGED <<hook, shown, result>>  BY <1>1, ZenonT(30) DEF viewVars
    <3>2. Effect(r)  BY <2>1, StepKinds, ZenonT(30) DEF IInv, RunsInv, TimersInv
    <3>3. TypeOK' /\ RunsInv' /\ CurrentInv' /\ ViewInv'
      BY <3>1, <3>2, EffectTypes, EffectRuns, EffectCurrent, EffectView, ZenonT(30) DEF IInv
    <3>4. ResultInv'  BY <3>1, Zenon DEF IInv, ResultInv
    <3> QED  BY <3>3, <3>4, Zenon DEF IInv
  <2>2. CASE WalletChanges  BY <1>1, <2>2, WalletInv, Zenon
  <2> QED  BY <1>1, <2>1, <2>2, ZenonT(30) DEF Background
<1>2. CASE (Submit \/ Reset) /\ UNCHANGED hook  BY <1>2, SubmitInv, ResetInv, Zenon
<1>3. CASE (TypeText \/ Rerender \/ ReceiptVerified) /\ UNCHANGED <<hook, hookVars, runVars, wallet>>
  BY <1>3, PageInv, Zenon
<1>4. CASE UNCHANGED vars
  <2>1. UNCHANGED <<hook, state, runId, pc, stage, timer, ident, funnel, signed, saved, shown,
                    result, wallet>>
    BY <1>4, ZenonT(30) DEF vars, hookVars, runVars, viewVars
  <2>2. TypeOK' /\ RunsInv'  BY <2>1, ZenonT(30) DEF IInv, TypeOK, RunsInv
  <2>3. CurrentInv'  BY <2>1, ZenonT(30) DEF IInv, CurrentInv, ResultIsCurrent
  <2>4. ViewInv' /\ ResultInv'  BY <2>1, Zenon DEF IInv, ViewInv, ResultInv
  <2> QED  BY <2>2, <2>3, <2>4, ZenonT(30) DEF IInv
<1> QED  BY <1>1, <1>2, <1>3, <1>4, Zenon DEF Next

\* So it holds throughout.
LEMMA Invariance == Spec => []IInv
  BY InitInv, NextInv, PTL DEF Spec
-----------------------------------------------------------------------------
\* Types of the variables.
THEOREM TypeCorrect == Spec => []TypeOK
<1>1. IInv => TypeOK  BY ZenonT(30) DEF IInv
<1> QED  BY <1>1, Invariance, PTL

\* What the page shows is of the newest run, and the identity of the account that
\* the wallet has, however late older runs return.
THEOREM Current == Spec => []ResultIsCurrent
<1>1. IInv => ResultIsCurrent  BY Zenon DEF IInv, CurrentInv
<1> QED  BY <1>1, Invariance, PTL

\* A run pays once at most, and its end is told once and truly.
THEOREM EndTold == Spec => []EndIsTold
<1>1. IInv => EndIsTold  BY Zenon DEF IInv, RunsInv, CurrentInv, EndIsTold
<1> QED  BY <1>1, Invariance, PTL

\* The form starts no second run while one is in flight.
THEOREM OneRun == Spec => []OneRunThroughForm
<1>1. ASSUME IInv, hook = "form" PROVE Running \subseteq {runId}
  BY <1>1, Zenon DEF Running, IInv, ViewInv, TypeOK
<1>2. IInv => OneRunThroughForm  BY <1>1, ZenonT(30) DEF OneRunThroughForm
<1> QED  BY <1>2, Invariance, PTL

\* The badge is of the receipt that is shown, whichever verification returns last.
THEOREM BadgeOfShown == Spec => []BadgeIsOfShownReceipt
<1>1. IInv => BadgeIsOfShownReceipt  BY ZenonT(30) DEF IInv, ResultInv, BadgeIsOfShownReceipt, Badge
<1> QED  BY <1>1, Invariance, PTL

\* A step that is not one of a run leaves every run where it is.
LEMMA OnlyRunsMove ==
  ASSUME IInv, [Next]_vars,
         NEW r \in Runs, pc'[r] # pc[r] \/ timer'[r] # timer[r], runId' # r
  PROVE  Effect(r)
<1>1. CASE Background /\ UNCHANGED <<hook, viewVars>>
  <2>1. ASSUME NEW q \in Runs, RunStep(q) \/ AiStep(q)
        PROVE  Effect(r)
    <3>1. Effect(q)  BY <2>1, StepKinds, ZenonT(30) DEF IInv, RunsInv, TimersInv
    <3>2. q = r  BY <3>1, ZenonT(30) DEF Effect, Frame
    <3> QED  BY <3>1, <3>2, Zenon
  <2>2. CASE WalletChanges  BY <2>2, Zenon DEF WalletChanges
  <2> QED  BY <1>1, <2>1, <2>2, ZenonT(30) DEF Background
<1>2. CASE Submit
  <2>1. runId' = runId + 1 /\ pc' = [pc EXCEPT ![runId'] = "first"] /\ timer' = timer
    BY <1>2, ZenonT(30) DEF Submit, StartRun, Go
  <2> QED  BY <2>1, ZenonT(30) DEF IInv, TypeOK
<1>3. CASE Reset  BY <1>3, Zenon DEF Reset, runVars
<1>4. CASE (TypeText \/ Rerender \/ ReceiptVerified) /\ UNCHANGED <<hook, hookVars, runVars, wallet>>
  BY <1>4, ZenonT(30) DEF runVars
<1>5. CASE UNCHANGED vars  BY <1>5, Zenon DEF vars, runVars
<1> QED  BY <1>1, <1>2, <1>3, <1>4, <1>5, ZenonT(30) DEF Next

\* A superseded run changes nothing that the user or the funnel sees.
THEOREM StaleSilent == Spec => StaleRunsSilent
<1>1. ASSUME IInv, [Next]_vars, NEW r \in Runs,
             pc'[r] # pc[r] \/ timer'[r] # timer[r], runId' # r
      PROVE  UNCHANGED <<state, ident, funnel>>
  <2>1. Effect(r) /\ runId # r  BY <1>1, OnlyRunsMove, ZenonT(40) DEF Effect, Frame
  <2>2. state' = state
    BY <2>1, ZenonT(40) DEF Effect, Going, Failing, Completing, StepSet, ErrorSet, ResultSet
  <2>3. ident' = ident  BY <2>1, Zenon DEF Effect, Frame
  <2>4. funnel' = funnel
    BY <2>1, ZenonT(40) DEF Effect, Going, Failing, Completing, Close
  <2> QED  BY <2>2, <2>3, <2>4, Zenon
<1>2. IInv /\ [Next]_vars
        => [\A r \in Runs : (pc'[r] # pc[r] \/ timer'[r] # timer[r]) /\ runId' # r
              => UNCHANGED <<state, ident, funnel>>]_vars
  BY <1>1, Zenon
<1> QED  BY <1>2, Invariance, PTL DEF Spec, StaleRunsSilent

\* An error or a result stays on the page until the next submit or reset.
THEOREM Halted == Spec => HaltedIsFinal
<1>1. ASSUME IInv, [Next]_vars, state.error # None \/ state.step = "done", runId' = runId
      PROVE  UNCHANGED state
  <2>1. ASSUME NEW r \in Runs, RunStep(r) \/ AiStep(r)
        PROVE  UNCHANGED state
    <3>1. Effect(r)  BY <1>1, <2>1, StepKinds, ZenonT(40) DEF IInv, RunsInv, TimersInv
    <3>2. runId # r  BY <1>1, <3>1, Zenon DEF IInv, CurrentInv, Effect, Frame
    <3> QED
      BY <3>1, <3>2, Zenon DEF Effect, Going, Failing, Completing, StepSet, ErrorSet, ResultSet
  <2>2. CASE WalletChanges  BY <2>2, Zenon DEF WalletChanges
  <2>3. CASE Submit \/ Reset
    <3>1. runId' = runId + 1  BY <2>3, Zenon DEF Submit, StartRun, Reset
    <3>2. runId \in Nat  BY <1>1 DEF IInv, TypeOK
    <3> QED  BY <1>1, <3>1, <3>2
  <2>4. CASE UNCHANGED hookVars  BY <2>4, Zenon DEF hookVars
  <2> QED  BY <1>1, <2>1, <2>2, <2>3, <2>4, ZenonT(30) DEF Next, Background, vars
<1>2. IInv /\ [Next]_vars
        => [(state.error # None \/ state.step = "done") /\ runId' = runId => UNCHANGED state]_vars
  BY <1>1, Zenon
<1> QED  BY <1>2, Invariance, PTL DEF Spec, HaltedIsFinal
=============================================================================
