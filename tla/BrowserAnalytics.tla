-------------------------- MODULE BrowserAnalytics --------------------------
(***************************************************************************)
(* The analytics of the page: what capture, identifyWallet and reset hand  *)
(* to PostHog, which is loaded while the page already issues operations.   *)
(* An operation has a name and properties; a property is a pair of a key   *)
(* and the kind of its value.                                              *)
(***************************************************************************)
EXTENDS SequenceFilter

CONSTANTS Operations,   \* records [name, props]
          Thrower,      \* names of operations at which PostHog throws
          MaxOps        \* a bound: operations that are issued

ASSUME OperationsAssumption == \A o \in Operations : o = [name |-> o.name, props |-> o.props]

VARIABLES enabled,      \* shouldEnablePostHog
          initPromise, posthogClient, initialized,   \* whether they are set
          pendingOps,
          sent,         \* what has reached PostHog
          issued        \* what was issued since the load that counts began

analyticsVars == <<enabled, initPromise, posthogClient, initialized, pendingOps, sent, issued>>

\* BLOCKED_PROPERTY_KEYS, and a key that is not among them.
BlockedKeys == {"text", "prompt", "prompt_preview", "summary", "summary_text", "signature", "nonce",
                "receipt", "receipt_payload", "payment_context", "request_body", "response_body"}
Scalars == {"string", "number", "boolean", "null"}

\* sanitizeAnalyticsProperties.
Sanitize(props) == {p \in props : p[1] \notin BlockedKeys /\ p[2] \in Scalars}

AnalyticsInit ==
  /\ enabled \in BOOLEAN
  /\ initPromise = FALSE /\ posthogClient = FALSE /\ initialized = FALSE
  /\ pendingOps = <<>> /\ sent = <<>> /\ issued = <<>>

\* initBrowserAnalytics, up to the load.
InitBrowserAnalytics ==
  /\ ~initialized /\ ~initPromise /\ enabled
  /\ initPromise' = TRUE
  /\ UNCHANGED <<enabled, posthogClient, initialized, pendingOps, sent, issued>>

Accepted(ops) == Kept(ops, {i \in DOMAIN ops : ops[i].name \notin Thrower})

\* Mutant: the queue is sent and kept.
LoadedNoSplice ==
  /\ initPromise /\ ~posthogClient
  /\ posthogClient' = TRUE /\ initialized' = TRUE
  /\ sent' = sent \o Accepted(pendingOps)
  /\ UNCHANGED <<enabled, initPromise, pendingOps, issued>>

\* PostHog is there: it is initialized, and flushPendingOps sends the queue.  An
\* operation that throws takes no other with it.
Loaded ==
  /\ initPromise /\ ~posthogClient
  /\ posthogClient' = TRUE /\ initialized' = TRUE
  /\ sent' = sent \o Accepted(pendingOps)
  /\ pendingOps' = <<>>
  /\ UNCHANGED <<enabled, initPromise, issued>>

\* The load fails, or posthog.init throws.
LoadFails ==
  /\ initPromise /\ ~posthogClient
  /\ initPromise' = FALSE /\ initialized' = FALSE
  /\ pendingOps' = <<>> /\ issued' = <<>>
  /\ UNCHANGED <<enabled, posthogClient, sent>>

\* withPostHog: sent, queued, or dropped where nothing is being loaded.
WithPostHog(o) ==
  IF posthogClient THEN sent' = sent \o Accepted(<<o>>) /\ UNCHANGED pendingOps
  ELSE IF initPromise THEN pendingOps' = Append(pendingOps, o) /\ UNCHANGED sent
  ELSE UNCHANGED <<pendingOps, sent>>

\* capture, identifyWallet and reset of createAnalytics.
Issue(o) ==
  LET op == [o EXCEPT !.props = Sanitize(@)] IN
  /\ enabled
  /\ Len(issued) < MaxOps
  /\ WithPostHog(op)
  /\ issued' = IF initPromise THEN Append(issued, o) ELSE issued
  /\ UNCHANGED <<enabled, initPromise, posthogClient, initialized>>

AnalyticsNext ==
  InitBrowserAnalytics \/ Loaded \/ LoadFails \/ \E o \in Operations : Issue(o)

AnalyticsSpec == AnalyticsInit /\ [][AnalyticsNext]_analyticsVars
AnalyticsFairness == WF_analyticsVars(Loaded \/ LoadFails)
-----------------------------------------------------------------------------
(* What the module promises.                                               *)

\* Whether a property may leave the page: no text of the user, no answer, signature,
\* nonce or receipt, and nothing that could hold one.
Harmless(p) == p[1] \notin BlockedKeys /\ p[2] \in Scalars

\* PostHog gets what was issued while it was loaded and since, once each and in the
\* order of issue, so that identities and resets end up as the page meant them; only
\* the operations at which it throws are missing, and all properties that are not
\* harmless.
SentInOrder ==
  LET expected == Accepted(issued)
      got == sent \o Accepted(pendingOps)
  IN /\ Len(got) = Len(expected)
     /\ \A i \in DOMAIN got : /\ got[i].name = expected[i].name
                               /\ got[i].props = {p \in expected[i].props : Harmless(p)}

\* Operations wait for PostHog to load.
QueueWaits == pendingOps # <<>>
=============================================================================
