---------------------------- MODULE WalletWidget ----------------------------
(***************************************************************************)
(* The wallet widget of the page, the wallet that it talks to (external)   *)
(* and the analytics identity that it keeps to the connected wallet.       *)
(*                                                                         *)
(* The page asks (asked counts what is outstanding), and the wallet        *)
(* answers when it likes, with what it has at that moment; answers and     *)
(* events reach the page in the order in which they leave the wallet.      *)
(***************************************************************************)
EXTENDS Naturals, Sequences

CONSTANTS Accounts, Chains,
          Expected,    \* EXPECTED_CHAIN
          NoAccount,
          Rejected,    \* the user's no (isUserRejection)
          Failed,      \* any other error of the wallet
          Unread,
          MaxActs      \* a bound: what the user does, at the wallet and on the page

ASSUME WidgetAssumption ==
  /\ Expected \in Chains
  /\ {NoAccount, Rejected, Failed, Unread} \cap (Accounts \cup Chains) = {}
  /\ NoAccount \notin {Rejected, Failed, Unread} /\ Failed # Unread

VARIABLES live, chain,    \* the wallet's: its account and its chain
          asked,          \* requests that the wallet has not answered
          inbox,          \* answers and events on their way to the page
          acts,
          mounted,
          loading,        \* what load() is at: start, reading, done
          read,           \* what load() has read
          subscribed,
          widget,         \* state
          switching, actionError,
          last,           \* lastConnectedAddress
          handling,       \* handlers of accountsChanged that await the chain
          connecting,     \* the account that the connect button has got
          ident,          \* the wallet that analytics has identified
          raced           \* a change came in the middle of something, or a read has failed

walletVars == <<live, chain, asked, inbox, acts>>
pageVars == <<mounted, loading, read, subscribed, widget, switching, actionError, last, handling,
              connecting, ident, raced>>
widgetVars == <<walletVars, pageVars>>

Requests == {"load account", "load chain", "handler chain", "connect", "connect chain",
             "switch", "switch chain", "form account"}

Loading == [kind |-> "loading"]
Missing == [kind |-> "missing"]
Disconnected == [kind |-> "disconnected"]
Connected(a, c) == [kind |-> "connected", address |-> a, chainId |-> c]
Address(s) == IF s.kind = "connected" THEN s.address ELSE NoAccount

Nothing == [q \in Requests |-> 0]
WidgetInit ==
  /\ live \in Accounts \cup {NoAccount} /\ chain \in Chains
  /\ asked = Nothing /\ inbox = <<>> /\ acts = 0
  /\ mounted \in BOOLEAN   \* or gone before the first tick of load()
  /\ loading = "start" /\ read = [account |-> Unread, chain |-> Unread]
  /\ subscribed = FALSE
  /\ widget = Loading
  /\ switching = FALSE /\ actionError = FALSE
  /\ last = NoAccount /\ handling = <<>> /\ connecting = NoAccount
  /\ ident = NoAccount
  /\ raced = FALSE
-----------------------------------------------------------------------------
(* The wallet.                                                             *)

Message(to, value) == [to |-> to, value |-> value]
Event(name, old, new) == IF old = new THEN <<>> ELSE <<Message(name, new)>>

\* An answer to request q, and the events that come with a change.
Reply(q, value, a, c) ==
  /\ live' = a /\ chain' = c
  /\ asked' = [asked EXCEPT ![q] = @ - 1]
  /\ inbox' = inbox \o Event("accounts", live, a) \o Event("chain", chain, c)
                    \o <<Message(q, value)>>
  /\ UNCHANGED <<acts, pageVars>>

WalletAnswers(q) ==
  /\ asked[q] > 0
  /\ \/ Reply(q, Failed, live, chain)
     \/ q \in {"connect", "switch"} /\ Reply(q, Rejected, live, chain)
     \/ q \in {"load account", "form account"} /\ Reply(q, live, live, chain)
     \/ q \in {"load chain", "handler chain", "connect chain", "switch chain"}
          /\ Reply(q, chain, live, chain)
     \/ /\ q = "connect"
        /\ \E a \in IF live = NoAccount THEN Accounts ELSE {live} : Reply(q, a, a, chain)
     \/ q = "switch" /\ \E c \in {chain, Expected} : Reply(q, c, live, c)

Act == mounted /\ acts < MaxActs /\ acts' = acts + 1

\* The user picks another account, locks the wallet, or picks another chain.
UserChanges ==
  /\ Act
  /\ \/ \E a \in (Accounts \cup {NoAccount}) \ {live} :
          live' = a /\ inbox' = Append(inbox, Message("accounts", a)) /\ UNCHANGED chain
     \/ \E c \in Chains \ {chain} :
          chain' = c /\ inbox' = Append(inbox, Message("chain", c)) /\ UNCHANGED live
  /\ UNCHANGED <<asked, pageVars>>
-----------------------------------------------------------------------------
(* The page.                                                               *)

Outstanding(q) == asked[q] > 0 \/ \E i \in DOMAIN inbox : inbox[i].to = q

Ask(qs) == asked' = [q \in Requests |-> IF q \in qs THEN asked[q] + 1 ELSE asked[q]]

\* setState; on a widget that is gone it does nothing.
SetState(s) == widget' = IF mounted THEN s ELSE widget

\* The first tick of load().
Load ==
  /\ loading = "start"
  /\ \/ loading' = "done" /\ ~mounted /\ UNCHANGED <<asked, subscribed, widget>>
     \/ loading' = "done" /\ mounted /\ widget' = Missing /\ UNCHANGED <<asked, subscribed>>
     \/ /\ mounted
        /\ loading' = "reading"
        /\ subscribed' = TRUE
        /\ Ask({"load account", "load chain"})
        /\ UNCHANGED widget
  /\ UNCHANGED <<live, chain, inbox, acts, mounted, read, switching, actionError, last,
                 handling, connecting, ident, raced>>

\* A handler or a read of the chain is under way, or the effect that sets last.
Unsettled ==
  \/ loading # "done" \/ handling # <<>> \/ connecting # NoAccount
  \/ last # Address(widget)

\* accountsChanged.  A change that comes while the page is still on the one before
\* races with it.
OnAccounts(a) ==
  /\ IF a = NoAccount
     THEN /\ ident' = IF last # NoAccount THEN NoAccount ELSE ident
          /\ SetState(Disconnected)
          /\ UNCHANGED <<handling, asked>>
     ELSE /\ ident' = IF last \notin {NoAccount, a} THEN NoAccount ELSE ident
          /\ handling' = Append(handling, a)
          /\ Ask({"handler chain"})
          /\ UNCHANGED widget
  /\ raced' = (raced \/ Unsettled)
  /\ UNCHANGED <<loading, read, switching, actionError, connecting>>

\* Mutant: the chain that was read is not used.
HandlerChainUnread(c) ==
  /\ handling' = Tail(handling)
  /\ SetState(IF widget.kind = "connected" THEN [widget EXCEPT !.address = Head(handling)]
              ELSE Connected(Head(handling), Unread))
  /\ raced' = (raced \/ c = Failed)
  /\ UNCHANGED <<asked, loading, read, switching, actionError, connecting, ident>>

\* The rest of that handler.  Nothing catches an error of the read.
HandlerChain(c) ==
  /\ handling' = Tail(handling)
  /\ SetState(IF c = Failed THEN widget
              ELSE IF widget.kind = "connected" THEN [widget EXCEPT !.address = Head(handling)]
              ELSE Connected(Head(handling), c))
  /\ raced' = (raced \/ c = Failed)
  /\ UNCHANGED <<asked, loading, read, switching, actionError, connecting, ident>>

\* chainChanged.
OnChain(c) ==
  /\ SetState(IF widget.kind = "connected" THEN [widget EXCEPT !.chainId = c] ELSE widget)
  /\ raced' = (raced \/ loading # "done")
  /\ UNCHANGED <<asked, loading, read, switching, actionError, handling, connecting, ident>>

\* Mutant: load() has no catch.
LoadReadUncaught(r) ==
  /\ read' = r
  /\ IF Unread \in {r.account, r.chain} \/ Failed \in {r.account, r.chain}
     THEN UNCHANGED <<loading, widget>>
     ELSE loading' = "done" /\ SetState(IF r.account = NoAccount THEN Disconnected
                                        ELSE Connected(r.account, r.chain))
  /\ UNCHANGED <<asked, switching, actionError, handling, connecting, ident, raced>>

\* Promise.all in load(): the first error ends it, or the second answer.
LoadRead(r) ==
  /\ IF loading = "done" \/ (Unread \in {r.account, r.chain} /\ Failed \notin {r.account, r.chain})
     THEN read' = (IF loading = "done" THEN read ELSE r) /\ UNCHANGED <<loading, widget>>
     ELSE /\ loading' = "done" /\ read' = [account |-> Unread, chain |-> Unread]
          /\ SetState(IF r.account \in {Failed, NoAccount} \/ r.chain = Failed THEN Disconnected
                      ELSE Connected(r.account, r.chain))
  /\ raced' = (raced \/ Failed \in {r.account, r.chain})
  /\ UNCHANGED <<asked, switching, actionError, handling, connecting, ident>>

IsUserRejection(err) == err = Rejected

\* The connect button, after connectWallet and after getCurrentChainId.
ConnectAnswer(a) ==
  /\ IF a \in {Rejected, Failed}
     THEN actionError' = (actionError \/ ~IsUserRejection(a)) /\ UNCHANGED <<asked, connecting>>
     ELSE connecting' = a /\ Ask({"connect chain"}) /\ UNCHANGED actionError
  /\ UNCHANGED <<loading, read, widget, switching, handling, ident, raced>>

ConnectChain(c) ==
  /\ connecting' = NoAccount
  /\ IF c = Failed THEN actionError' = TRUE /\ UNCHANGED widget
     ELSE SetState(Connected(connecting, c)) /\ UNCHANGED actionError
  /\ raced' = (raced \/ c = Failed)
  /\ UNCHANGED <<asked, loading, read, switching, handling, ident>>

\* The switch button, after switchOrAddChain and after getCurrentChainId.
SwitchAnswer(v) ==
  /\ IF v \in {Rejected, Failed}
     THEN switching' = FALSE /\ actionError' = (actionError \/ ~IsUserRejection(v)) /\ UNCHANGED asked
     ELSE Ask({"switch chain"}) /\ UNCHANGED <<switching, actionError>>
  /\ UNCHANGED <<loading, read, widget, handling, connecting, ident, raced>>

SwitchChainRead(c) ==
  /\ switching' = FALSE
  /\ IF c # Expected THEN actionError' = TRUE /\ UNCHANGED widget
     ELSE /\ SetState(IF widget.kind = "connected" THEN [widget EXCEPT !.chainId = Expected]
                      ELSE widget)
          /\ UNCHANGED actionError
  /\ UNCHANGED <<asked, loading, read, handling, connecting, ident, raced>>

\* The end of a signature in useX402: the live account is identified.
FormIdentifies(a) ==
  /\ ident' = IF a \in Accounts THEN a ELSE ident
  /\ raced' = (raced \/ (a \in Accounts /\ last # a))
  /\ UNCHANGED <<asked, loading, read, widget, switching, actionError, handling, connecting>>

\* The page takes the next answer or event; events only while it is subscribed.
Deliver ==
  /\ inbox # <<>>
  /\ inbox' = Tail(inbox)
  /\ LET to == Head(inbox).to
         v == Head(inbox).value
     IN \/ to = "accounts" /\ subscribed /\ OnAccounts(v)
        \/ to = "chain" /\ subscribed /\ OnChain(v)
        \/ to \in {"accounts", "chain"} /\ ~subscribed
             /\ UNCHANGED <<asked, loading, read, widget, switching, actionError, handling,
                            connecting, ident, raced>>
        \/ to = "load account" /\ LoadRead([read EXCEPT !.account = v])
        \/ to = "load chain" /\ LoadRead([read EXCEPT !.chain = v])
        \/ to = "handler chain" /\ HandlerChain(v)
        \/ to = "connect" /\ ConnectAnswer(v)
        \/ to = "connect chain" /\ ConnectChain(v)
        \/ to = "switch" /\ SwitchAnswer(v)
        \/ to = "switch chain" /\ SwitchChainRead(v)
        \/ to = "form account" /\ FormIdentifies(v)
  /\ UNCHANGED <<live, chain, acts, mounted, subscribed, last>>

\* The effect on state.
FollowState ==
  /\ mounted
  /\ last' = Address(widget)
  /\ UNCHANGED <<walletVars, mounted, loading, read, subscribed, widget, switching, actionError,
                 handling, connecting, ident, raced>>

\* The connect button (one click on it at a time) and the switch button.
Clicks ==
  /\ Act
  /\ \/ /\ widget = Disconnected /\ ~Outstanding("connect") /\ connecting = NoAccount
        /\ Ask({"connect"}) /\ actionError' = FALSE /\ UNCHANGED switching
     \/ /\ widget.kind = "connected" /\ widget.chainId # Expected /\ ~switching
        /\ Ask({"switch"}) /\ switching' = TRUE /\ actionError' = FALSE
  /\ UNCHANGED <<live, chain, inbox, mounted, loading, read, subscribed, widget, last,
                 handling, connecting, ident, raced>>

\* The effect on actionError, ACTION_ERROR_TTL_MS later.
ErrorExpires ==
  /\ mounted /\ actionError
  /\ actionError' = FALSE
  /\ UNCHANGED <<walletVars, mounted, loading, read, subscribed, widget, switching, last, handling,
                 connecting, ident, raced>>

FormAsks ==
  /\ Act
  /\ ~Outstanding("form account") /\ subscribed
  /\ Ask({"form account"})
  /\ UNCHANGED <<live, chain, inbox, pageVars>>

Unmount ==
  /\ mounted
  /\ mounted' = FALSE /\ subscribed' = FALSE
  /\ UNCHANGED <<walletVars, loading, read, widget, switching, actionError, last, handling,
                 connecting, ident, raced>>

WidgetNext ==
  \/ \E q \in Requests : WalletAnswers(q)
  \/ UserChanges \/ Load \/ Deliver \/ FollowState \/ Clicks \/ ErrorExpires \/ FormAsks \/ Unmount

WidgetSpec == WidgetInit /\ [][WidgetNext]_widgetVars

\* The wallet answers and the page goes on.  The user is not assumed to do anything
\* but answer a prompt.
WidgetFairness ==
  /\ \A q \in Requests : WF_widgetVars(WalletAnswers(q))
  /\ WF_widgetVars(Load) /\ WF_widgetVars(Deliver) /\ WF_widgetVars(FollowState)

WidgetFairSpec == WidgetSpec /\ WidgetFairness
-----------------------------------------------------------------------------
(* What the widget promises.                                               *)

Quiet == mounted /\ asked = Nothing /\ inbox = <<>> /\ ~Unsettled

\* Once all is delivered and done, the widget shows the wallet's account and chain,
\* and events are not attributed to an account that is no longer connected, unless a
\* change came while the page was still reading or a read failed.  A widget that is
\* gone listens to nothing, whenever it goes.
FollowsWallet ==
  /\ Quiet /\ ~raced
       => /\ widget # Missing
               => widget = IF live = NoAccount THEN Disconnected ELSE Connected(live, chain)
          /\ ident \in {NoAccount, live}
  /\ ~mounted => ~subscribed

\* The widget shows 'Checking wallet...', or its switch button is disabled.
WidgetWaits == (widget = Loading /\ mounted) \/ switching
=============================================================================
