----------------------------- MODULE MCBrowser -----------------------------
(***************************************************************************)
(* The parts of the page beside the form, in one instance for TLC.  They   *)
(* share no state, so that a behaviour follows one of them and leaves the  *)
(* others where they start.                                                *)
(***************************************************************************)
EXTENDS ReceiptStorage, WalletWidget, BrowserAnalytics, PageEffects

CONSTANTS GatewayKey, OtherKey

VARIABLE part

browserVars == <<part, storageVars, widgetVars, analyticsVars, effectVars>>

MCReceipt(id, odd, signer) ==
  LET content == [id |-> id, endpoint |-> "path", request |-> "text", response |-> "summary",
                  odd |-> odd]
  IN [id |-> id, endpoint |-> "path", request |-> "text", response |-> "summary", odd |-> odd,
      key |-> GatewayKey, sig |-> [by |-> signer, of |-> content, v |-> 0, parity |-> 0]]

\* A receipt, one that does not verify, and one without the chainId that the page's
\* format check does not ask for.
MCSigned ==
  {MCReceipt(1, NoOdd, GatewayKey), MCReceipt(2, NoOdd, OtherKey),
   MCReceipt(3, [f \in {"chainId"} |-> "absent"], GatewayKey)}

MCOperations ==
  {[name |-> "capture", props |-> {<<"stage", "string">>, <<"nonce", "string">>, <<"error", "object">>}],
   [name |-> "identify", props |-> {<<"chain_id", "number">>}],
   [name |-> "reset", props |-> {}]}

MCFirst == CHOOSE a \in Accounts : TRUE   \* the accounts are interchangeable

Parts == {"storage", "wallet", "analytics", "effects"}

MCInit ==
  /\ part \in Parts
  /\ StorageInit /\ (part # "storage" => item = NoItem /\ refused = {})
  /\ WidgetInit /\ live \in {NoAccount, MCFirst}
  /\ part # "wallet" => live = NoAccount /\ chain = Expected /\ ~mounted
  /\ AnalyticsInit /\ (part # "analytics" => ~enabled)
  /\ EffectsInit /\ (part # "effects" => probes = {} /\ ~reduced)

MCNext ==
  /\ \/ part = "storage" /\ StorageNext /\ UNCHANGED <<widgetVars, analyticsVars, effectVars>>
     \/ part = "wallet" /\ WidgetNext /\ UNCHANGED <<storageVars, analyticsVars, effectVars>>
     \/ part = "analytics" /\ AnalyticsNext /\ UNCHANGED <<storageVars, widgetVars, effectVars>>
     \/ part = "effects" /\ EffectsNext /\ UNCHANGED <<storageVars, widgetVars, analyticsVars>>
  /\ UNCHANGED part

\* The fairness of each part, for the behaviours that follow it.
MCFairness ==
  /\ \A q \in Requests : WF_widgetVars(part = "wallet" /\ WalletAnswers(q))
  /\ WF_widgetVars(part = "wallet" /\ Load)
  /\ WF_widgetVars(part = "wallet" /\ Deliver)
  /\ WF_analyticsVars(part = "analytics" /\ (Loaded \/ LoadFails))
  /\ WF_copyVars(part = "effects" /\ CopyTimer)
  /\ WF_bannerVars(part = "effects" /\ ProbeSettles)

MCSpec == MCInit /\ [][MCNext]_browserVars /\ MCFairness
-----------------------------------------------------------------------------
\* "Provider hiccup during hydration must never leave the widget stuck showing
\* 'Checking wallet...' forever."  No part of the page waits for ever: the switch button
\* does not stay disabled either, the queue of operations is sent or dropped, and the
\* banner goes, whatever the answers are that they wait for.
NothingWaitsForever == []<>~(WidgetWaits \/ QueueWaits \/ BannerWaits)
=============================================================================
