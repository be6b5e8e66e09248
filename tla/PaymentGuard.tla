---------------------------- MODULE PaymentGuard ----------------------------
(***************************************************************************)
(* What the verifier promises its clients, without clocks or stores: each  *)
(* call of /verify gets at most one answer, and no payment - the nonce and *)
(* timestamp a wallet signed - is granted to two calls.  A verifier whose  *)
(* store lives in its process may forget everything when it restarts.      *)
(***************************************************************************)
CONSTANTS
  Requests,
  Payments,
  Volatile    \* does a restart lose the granted payments?

VARIABLES
  granted,    \* payments granted since the store was created
  answer      \* what each call was told

Init ==
  /\ granted = {}
  /\ answer = [r \in Requests |-> "none"]

Grant(r, p) ==
  /\ answer[r] = "none"
  /\ p \notin granted
  /\ granted' = granted \cup {p}
  /\ answer' = [answer EXCEPT ![r] = "granted"]

Refuse(r) ==
  /\ answer[r] = "none"
  /\ answer' = [answer EXCEPT ![r] = "refused"]
  /\ UNCHANGED granted

Forget ==
  /\ Volatile
  /\ granted' = {}
  /\ answer' = [r \in Requests |-> IF answer[r] = "none" THEN "none" ELSE "past"]

Next ==
  \/ \E r \in Requests, p \in Payments : Grant(r, p)
  \/ \E r \in Requests : Refuse(r)
  \/ Forget

Spec == Init /\ [][Next]_<<granted, answer>>
=============================================================================
